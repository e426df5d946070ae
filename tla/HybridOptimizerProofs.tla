------------------------ MODULE HybridOptimizerProofs ------------------------
(***************************************************************************)
(* Theorems about the optimisers, one part each: HybridDispatch (how often *)
(* a request is tried, and the breaker it goes through),                   *)
(* IntercityTransfers (the journeys between bases and what the metrics say *)
(* of them), ClassicPlan (every place is planned once, with its base) and  *)
(* MultiCityPlan (the calendar of a journey through several cities, and    *)
(* its nights). They hold for any requests, thresholds, timeouts, trips,   *)
(* lists of places and journeys.                                           *)
(***************************************************************************)
EXTENDS HybridDispatch, IntercityTransfers, ClassicPlan, MultiCityPlan, RecursionLemmas, FiniteSetTheorems, TLAPS

-----------------------------------------------------------------------------
(* HybridDispatch: the inductive invariant has three parts, the types, the *)
(* breaker (never HALF_OPEN, OPEN exactly from the threshold on, and the   *)
(* counter plus the calls in flight bounded), and how many classic runs a  *)
(* request can have made at each place of the dispatcher.                  *)

\* The breaker as the dispatcher uses it: HALF_OPEN is never reached, the
\* state follows the counter, and calls in flight can still fail.
BreakerInv ==
    /\ state \in {"CLOSED", "OPEN"}
    /\ state = "OPEN" <=> failure_count >= FailureThreshold
    /\ OvershootBounded

\* Classic runs already started at each place of the dispatcher.
RunsInv ==
    \A r \in Requests :
        /\ classic_runs[r] <= 3
        /\ pc[r] \in {"ortools_decision", "ortools", "city2graph_decision", "core"}
              => classic_runs[r] = 0
        /\ pc[r] \in {"core_classic", "open_classic"} => classic_runs[r] <= 1
        /\ pc[r] = "fallback_classic" => classic_runs[r] <= 2

IInv == TypeOK /\ BreakerInv /\ RunsInv

-----------------------------------------------------------------------------
\* The requests inside call() are finitely many, at most all of them.
LEMMA InCallFinite ==
    IsFiniteSet(InCall) /\ Cardinality(InCall) \in Nat
        /\ Cardinality(Requests) \in Nat /\ Cardinality(InCall) <= Cardinality(Requests)
  <1>1. InCall \subseteq Requests
    BY DEF InCall
  <1>2. IsFiniteSet(InCall) /\ Cardinality(InCall) <= Cardinality(Requests)
    BY <1>1, FS_Subset, DispatchAssumption
  <1> QED
    BY <1>2, FS_CardinalityType, DispatchAssumption

\* The same of the requests inside call() after a step.
LEMMA InCallFinitePrime ==
    IsFiniteSet(InCall') /\ Cardinality(InCall') \in Nat
        /\ Cardinality(InCall') <= Cardinality(Requests)
  <1>1. InCall' \subseteq Requests
    BY DEF InCall
  <1> QED
    BY <1>1, FS_Subset, FS_CardinalityType, DispatchAssumption

\* A request that leaves call() makes room for exactly one.
LEMMA LeaveCall ==
    ASSUME NEW r \in Requests, r \in InCall, InCall' = InCall \ {r}
    PROVE  Cardinality(InCall') = Cardinality(InCall) - 1
  BY InCallFinite, FS_RemoveElement

\* The initial state: nobody is in call().
LEMMA InitIInv == Init => IInv
  <1> SUFFICES ASSUME Init PROVE IInv
    OBVIOUS
  <1> USE DispatchAssumption
  <1>1. TypeOK
    BY DEF Init, TypeOK, Places, Methods, CB!Init, CB!NoFailure
  <1>2. InCall = {}
    BY DEF Init, InCall
  <1>3. Cardinality(InCall) = 0
    BY <1>2, FS_EmptySet
  <1>4. BreakerInv
    BY <1>3, FS_CardinalityType DEF Init, BreakerInv, OvershootBounded, CB!Init
  <1>5. RunsInv
    BY DEF Init, RunsInv
  <1> QED
    BY <1>1, <1>4, <1>5 DEF IInv

-----------------------------------------------------------------------------
\* Types are preserved by every step.
LEMMA TypeStep == TypeOK /\ [Next]_vars => TypeOK'
  <1> SUFFICES ASSUME TypeOK, [Next]_vars PROVE TypeOK'
    OBVIOUS
  <1> USE DispatchAssumption DEF TypeOK, Places, Methods, breaker
  <1>1. ASSUME NEW r \in Requests, Arrive(r) PROVE TypeOK'
    BY <1>1 DEF Arrive
  <1>2. ASSUME NEW r \in Requests, DecideORTools(r) PROVE TypeOK'
    BY <1>2 DEF DecideORTools
  <1>3. ASSUME NEW r \in Requests, OptimizeWithORTools(r) PROVE TypeOK'
    BY <1>3 DEF OptimizeWithORTools
  <1>4. ASSUME NEW r \in Requests, DecideCity2Graph(r) PROVE TypeOK'
    BY <1>4 DEF DecideCity2Graph, OptimizeWithCity2Graph, StartClassic, CB!Admit
  <1>5. ASSUME NEW r \in Requests, CoreStartsClassic(r) PROVE TypeOK'
    BY <1>5 DEF CoreStartsClassic, StartClassic
  <1>6. ASSUME NEW r \in Requests, CoreSucceeds(r) PROVE TypeOK'
    BY <1>6 DEF CoreSucceeds, Answer, CB!Succeed
  <1>7. ASSUME NEW r \in Requests, CoreFails(r) PROVE TypeOK'
    BY <1>7 DEF CoreFails, StartClassic, CB!Fail, CB!Increment
  <1>8. ASSUME NEW r \in Requests, OpenClassicEnds(r) PROVE TypeOK'
    BY <1>8 DEF OpenClassicEnds, StartClassic, Answer
  <1>9. ASSUME NEW r \in Requests, FallbackClassicEnds(r) PROVE TypeOK'
    BY <1>9 DEF FallbackClassicEnds, StartClassic, Answer
  <1>10. ASSUME NEW r \in Requests, LegacyEnds(r) PROVE TypeOK'
    BY <1>10 DEF LegacyEnds, Answer
  <1>11. ASSUME NEW r \in Requests, Reply(r) PROVE TypeOK'
    BY <1>11 DEF Reply
  <1>12. ASSUME Tick PROVE TypeOK'
    BY <1>12 DEF Tick, CB!Tick
  <1>13. ASSUME UNCHANGED vars PROVE TypeOK'
    BY <1>13 DEF vars
  <1> QED
    BY <1>1, <1>2, <1>3, <1>4, <1>5, <1>6, <1>7, <1>8, <1>9, <1>10, <1>11,
       <1>12, <1>13 DEF Next, Progress

\* Each place of the dispatcher keeps its bound on the classic runs.
LEMMA RunsStep == TypeOK /\ RunsInv /\ [Next]_vars => RunsInv'
  <1> SUFFICES ASSUME TypeOK, RunsInv, [Next]_vars PROVE RunsInv'
    OBVIOUS
  <1> USE DEF TypeOK, Places, RunsInv
  <1>1. ASSUME NEW r \in Requests, Arrive(r) PROVE RunsInv'
    BY <1>1 DEF Arrive
  <1>2. ASSUME NEW r \in Requests, DecideORTools(r) PROVE RunsInv'
    BY <1>2 DEF DecideORTools
  <1>3. ASSUME NEW r \in Requests, OptimizeWithORTools(r) PROVE RunsInv'
    BY <1>3 DEF OptimizeWithORTools
  <1>4. ASSUME NEW r \in Requests, DecideCity2Graph(r) PROVE RunsInv'
    BY <1>4 DEF DecideCity2Graph, OptimizeWithCity2Graph, StartClassic
  <1>5. ASSUME NEW r \in Requests, CoreStartsClassic(r) PROVE RunsInv'
    BY <1>5 DEF CoreStartsClassic, StartClassic
  <1>6. ASSUME NEW r \in Requests, CoreSucceeds(r) PROVE RunsInv'
    BY <1>6 DEF CoreSucceeds, Answer
  <1>7. ASSUME NEW r \in Requests, CoreFails(r) PROVE RunsInv'
    BY <1>7 DEF CoreFails, StartClassic
  <1>8. ASSUME NEW r \in Requests, OpenClassicEnds(r) PROVE RunsInv'
    BY <1>8 DEF OpenClassicEnds, StartClassic, Answer
  <1>9. ASSUME NEW r \in Requests, FallbackClassicEnds(r) PROVE RunsInv'
    BY <1>9 DEF FallbackClassicEnds, StartClassic, Answer
  <1>10. ASSUME NEW r \in Requests, LegacyEnds(r) PROVE RunsInv'
    BY <1>10 DEF LegacyEnds, Answer
  <1>11. ASSUME NEW r \in Requests, Reply(r) PROVE RunsInv'
    BY <1>11 DEF Reply
  <1>12. ASSUME Tick PROVE RunsInv'
    BY <1>12 DEF Tick
  <1>13. ASSUME UNCHANGED vars PROVE RunsInv'
    BY <1>13 DEF vars
  <1> QED
    BY <1>1, <1>2, <1>3, <1>4, <1>5, <1>6, <1>7, <1>8, <1>9, <1>10, <1>11,
       <1>12, <1>13 DEF Next, Progress

\* What each kind of step does to the breaker and to the set of requests in
\* call(): a request enters (not while OPEN), leaves with a success or leaves
\* with a failure; the clock ticks; or the breaker is left alone.
LEMMA BreakerMoves ==
    ASSUME TypeOK, [Next]_vars
    PROVE  \/ \E r \in Requests : state # "OPEN" /\ CB!Admit(r)
           \/ \E r \in Requests : CB!Succeed(r)
           \/ \E r \in Requests : CB!Fail(r)
           \/ CB!Tick
           \/ UNCHANGED CB!vars
  <1> USE DEF TypeOK, Places, breaker, CB!vars
  <1> DEFINE Still == UNCHANGED CB!vars
  <1>1. ASSUME NEW r \in Requests, Arrive(r) PROVE Still
    BY <1>1 DEF Arrive, InCall
  <1>2. ASSUME NEW r \in Requests, DecideORTools(r) PROVE Still
    BY <1>2 DEF DecideORTools, InCall
  <1>3. ASSUME NEW r \in Requests, OptimizeWithORTools(r) PROVE Still
    BY <1>3 DEF OptimizeWithORTools, InCall
  <1>4. ASSUME NEW r \in Requests, DecideCity2Graph(r)
        PROVE  Still \/ (state # "OPEN" /\ CB!Admit(r))
    BY <1>4 DEF DecideCity2Graph, OptimizeWithCity2Graph, StartClassic, InCall
  <1>5. ASSUME NEW r \in Requests, CoreStartsClassic(r) PROVE Still
    BY <1>5 DEF CoreStartsClassic, StartClassic, InCall
  <1>6. ASSUME NEW r \in Requests, CoreSucceeds(r) PROVE CB!Succeed(r)
    BY <1>6 DEF CoreSucceeds
  <1>7. ASSUME NEW r \in Requests, CoreFails(r) PROVE CB!Fail(r)
    BY <1>7 DEF CoreFails
  <1>8. ASSUME NEW r \in Requests, OpenClassicEnds(r) PROVE Still
    BY <1>8 DEF OpenClassicEnds, StartClassic, Answer, InCall
  <1>9. ASSUME NEW r \in Requests, FallbackClassicEnds(r) PROVE Still
    BY <1>9 DEF FallbackClassicEnds, StartClassic, Answer, InCall
  <1>10. ASSUME NEW r \in Requests, LegacyEnds(r) PROVE Still
    BY <1>10 DEF LegacyEnds, Answer, InCall
  <1>11. ASSUME NEW r \in Requests, Reply(r) PROVE Still
    BY <1>11 DEF Reply, InCall
  <1>12. ASSUME Tick PROVE CB!Tick
    BY <1>12 DEF Tick
  <1>13. ASSUME UNCHANGED vars PROVE Still
    BY <1>13 DEF vars, InCall
  <1> QED
    BY <1>1, <1>2, <1>3, <1>4, <1>5, <1>6, <1>7, <1>8, <1>9, <1>10, <1>11,
       <1>12, <1>13 DEF Next, Progress

\* The breaker's part of the invariant is preserved, and OPEN is never left.
LEMMA BreakerStep ==
    ASSUME TypeOK, BreakerInv, [Next]_vars
    PROVE  BreakerInv' /\ (state = "OPEN" => state' = "OPEN")
  <1> USE DispatchAssumption, InCallFinite, InCallFinitePrime
          DEF TypeOK, BreakerInv, OvershootBounded
  <1> DEFINE Goal == BreakerInv' /\ (state = "OPEN" => state' = "OPEN")
  <1>1. ASSUME NEW r \in Requests, state # "OPEN", CB!Admit(r) PROVE Goal
    BY <1>1 DEF CB!Admit
  <1>2. ASSUME NEW r \in Requests, CB!Succeed(r) PROVE Goal
    <2>1. Cardinality(InCall') = Cardinality(InCall) - 1
      BY <1>2, LeaveCall DEF CB!Succeed
    <2> QED
      BY <1>2, <2>1 DEF CB!Succeed
  <1>3. ASSUME NEW r \in Requests, CB!Fail(r) PROVE Goal
    <2>1. Cardinality(InCall') = Cardinality(InCall) - 1
      BY <1>3, LeaveCall DEF CB!Fail
    <2>2. failure_count' <= failure_count + 1 /\ failure_count <= failure_count'
             /\ failure_count' \in Nat
      BY <1>3 DEF CB!Fail, CB!Increment
    <2>3. failure_count + Cardinality(InCall) <= FailureThreshold - 1 + Cardinality(Requests)
      OBVIOUS
    <2>4. OvershootBounded'
      BY <2>1, <2>2, <2>3
    <2>5. state' = IF failure_count' >= FailureThreshold THEN "OPEN" ELSE state
      BY <1>3 DEF CB!Fail
    <2> QED
      BY <2>2, <2>4, <2>5
  <1>4. ASSUME CB!Tick \/ UNCHANGED CB!vars PROVE Goal
    BY <1>4 DEF CB!Tick, CB!vars
  <1> QED
    BY <1>1, <1>2, <1>3, <1>4, BreakerMoves

\* The inductive invariant holds of every reachable state, for every set of
\* requests, threshold and timeout.
THEOREM Invariant == Spec => []IInv
  <1>1. IInv /\ [Next]_vars => IInv'
    BY TypeStep, RunsStep, BreakerStep DEF IInv
  <1> QED
    BY InitIInv, <1>1, PTL DEF Spec

\* Types: the dispatcher keeps every request at one of its places and the
\* breaker in one of its states.
THEOREM TypeCorrect == Spec => []TypeOK
  BY Invariant, PTL DEF IInv

\* The nested fallbacks of one request run the classic method three times at
\* most.
THEOREM ClassicRuns == Spec => []ClassicRunsBounded
  <1>1. IInv => ClassicRunsBounded
    BY DEF IInv, RunsInv, ClassicRunsBounded
  <1> QED
    BY Invariant, <1>1, PTL

\* The counter exceeds the threshold by no more than the requests that were
\* inside call() when the breaker opened.
THEOREM Overshoot == Spec => []OvershootBounded
  <1>1. IInv => OvershootBounded
    BY DEF IInv, BreakerInv
  <1> QED
    BY Invariant, <1>1, PTL

\* For every threshold and timeout: the breaker, once OPEN, stays OPEN.
THEOREM OpenForever == Spec => OpenIsPermanent
  <1>1. IInv /\ [Next]_vars => [state = "OPEN" => state' = "OPEN"]_vars
    BY BreakerStep DEF IInv
  <1> QED
    BY Invariant, <1>1, PTL DEF Spec, OpenIsPermanent

\* The dispatcher with the requests inside call() as the running calls
\* implements the breaker's own specification: every step of a request is a
\* step of the breaker or leaves it alone.
THEOREM BreakerRefined == Spec => BreakerSteps
  <1>1. Init => CB!Init
    BY DEF Init, CB!Init, InCall
  <1>2. TypeOK /\ [Next]_vars => [CB!Next]_CB!vars
    BY BreakerMoves DEF CB!Next
  <1> QED
    BY TypeCorrect, <1>1, <1>2, PTL DEF Spec, BreakerSteps, CB!Spec

\* All that is checked of the states of the dispatcher.
THEOREM Safe == Spec => []DispatchSafe
  <1>1. TypeOK /\ ClassicRunsBounded /\ OvershootBounded => DispatchSafe
    BY DEF DispatchSafe
  <1> QED BY <1>1, TypeCorrect, ClassicRuns, Overshoot, PTL
-----------------------------------------------------------------------------
(* IntercityTransfers *)

Transfers == [from : Nat, to : Nat, km : Nat, injected : BOOLEAN]

\* A finished day whose summary agrees with its transfers.
DaysRouted ==
    {d \in [base : Nat \cup {NoBase}, transfers : Seq(Transfers), count : Nat, km : Nat] :
        d.count = Len(d.transfers) /\ d.km = Lengths(d.transfers)}

\* Total kilometres of lists of journeys.
LEMMA LengthsStep ==
    /\ Lengths(<<>>) = 0
    /\ \A s \in Seq(Transfers) : Lengths(s) \in Nat
    /\ \A s \in Seq(Transfers), x \in Transfers : Lengths(Append(s, x)) = Lengths(s) + x.km
<1> DEFINE F == [x \in Transfers |-> x.km]
           kms(s) == [i \in DOMAIN s |-> s[i].km]
<1>1. F \in [Transfers -> Nat]
    BY DEF Transfers
<1>2. ASSUME NEW s, s \in Seq(Transfers)
      PROVE  kms(s) \in [DOMAIN s -> Nat] /\ \A i \in DOMAIN s : kms(s)[i] = F[s[i]]
    <2>1. \A i \in DOMAIN s : s[i] \in Transfers
        BY <1>2, LenProperties, ElementOfSeq
    <2>2. \A x \in Transfers : x.km \in Nat /\ F[x] = x.km
        BY DEF Transfers
    <2> HIDE DEF F
    <2> QED BY <2>1, <2>2
<1>3. ASSUME NEW s, s \in Seq(Transfers), NEW x \in Transfers
      PROVE  kms(s) \in Seq(Nat) /\ kms(Append(s, x)) = Append(kms(s), x.km) /\ x.km \in Nat
    <2> DEFINE u == kms(s)
               v == kms(Append(s, x))
    <2>1. Append(s, x) \in Seq(Transfers)
        BY <1>3, AppendProperties
    <2>2. u \in [DOMAIN s -> Nat] /\ \A i \in DOMAIN s : u[i] = F[s[i]]
        BY <1>2, <1>3
    <2>3. /\ v \in [DOMAIN Append(s, x) -> Nat]
          /\ \A i \in DOMAIN Append(s, x) : v[i] = F[Append(s, x)[i]]
        BY <1>2, <2>1
    <2>4. F[x] = x.km /\ x.km \in Nat
        BY DEF Transfers
    <2> HIDE DEF F, u, v
    <2>5. u \in Seq(Nat) /\ v = Append(u, F[x])
        BY <1>1, <1>3, <2>2, <2>3, MapAppend
    <2> QED BY <2>4, <2>5 DEF u, v
<1>4. Lengths(<<>>) = 0
    <2> DEFINE none == <<>>
    <2>1. kms(none) = none
        BY EmptySeq
    <2> HIDE DEF none
    <2>2. SumOf(none) = 0
        BY SumStep DEF none
    <2>3. Lengths(none) = 0
        BY <2>1, <2>2 DEF Lengths
    <2> QED BY <2>3 DEF none
<1>5. ASSUME NEW s, s \in Seq(Transfers) PROVE Lengths(s) \in Nat
    <2>1. kms(s) \in Seq(Nat)
        <3>1. Len(s) \in Nat /\ DOMAIN s = 1..Len(s)
            BY <1>5, LenProperties
        <3>2. kms(s) \in [1..Len(s) -> Nat]
            BY <1>2, <1>5, <3>1
        <3> HIDE DEF kms
        <3> QED BY <3>1, <3>2
    <2> QED BY <2>1, SumStep DEF Lengths
<1>6. ASSUME NEW s, s \in Seq(Transfers), NEW x \in Transfers
      PROVE  Lengths(Append(s, x)) = Lengths(s) + x.km
    <2>1. kms(s) \in Seq(Nat) /\ kms(Append(s, x)) = Append(kms(s), x.km) /\ x.km \in Nat
        BY <1>3, <1>6
    <2> HIDE DEF kms
    <2>2. SumOf(Append(kms(s), x.km)) = SumOf(kms(s)) + x.km
        BY <2>1, SumStep
    <2> QED BY <2>1, <2>2 DEF Lengths, kms
<1> QED BY <1>4, <1>5, <1>6

LEMMA LengthsConcat ==
    ASSUME NEW s, s \in Seq(Transfers)
    PROVE  \A t \in Seq(Transfers) : Lengths(s \o t) = Lengths(s) + Lengths(t)
<1> DEFINE T == {t \in Seq(Transfers) : Lengths(s \o t) = Lengths(s) + Lengths(t)}
<1>1. <<>> \in T
    <2> DEFINE none == <<>>
    <2>1. none \in Seq(Transfers) /\ s \o none = s
        BY EmptySeq, ConcatEmptySeq
    <2>2. Lengths(none) = 0 /\ Lengths(s) \in Nat
        BY LengthsStep
    <2> HIDE DEF none
    <2> HIDE DEF T
    <2>3. Lengths(s \o none) = Lengths(s) + Lengths(none)
        <3> DEFINE l == Lengths(s)
        <3>1. l \in Nat
            BY <2>2
        <3> HIDE DEF l
        <3>2. l = l + 0
            BY <3>1
        <3> QED BY <2>1, <2>2, <3>2 DEF l
    <2>4. none \in T
        BY <2>1, <2>3 DEF T
    <2> QED BY <2>4 DEF none
<1>2. ASSUME NEW t, t \in Seq(Transfers), NEW x \in Transfers, t \in T PROVE Append(t, x) \in T
    <2>1. s \o t \in Seq(Transfers) /\ Append(t, x) \in Seq(Transfers)
        BY <1>2, ConcatProperties, AppendProperties
    <2>2. s \o Append(t, x) = Append(s \o t, x)
        BY <1>2, AppendConcat
    <2>3. /\ Lengths(Append(s \o t, x)) = Lengths(s \o t) + x.km
          /\ Lengths(Append(t, x)) = Lengths(t) + x.km
          /\ Lengths(s) \in Nat /\ Lengths(t) \in Nat
        BY <1>2, <2>1, LengthsStep
    <2>4. x.km \in Nat
        BY DEF Transfers
    <2>5. Lengths(s \o t) = Lengths(s) + Lengths(t)
        BY <1>2
    <2>6. Lengths(s \o Append(t, x)) = Lengths(s) + Lengths(Append(t, x))
        BY <2>2, <2>3, <2>4, <2>5
    <2> QED BY <2>1, <2>6
<1> HIDE DEF T
<1>3. \A t \in Seq(Transfers), x \in Transfers : t \in T => Append(t, x) \in T
    BY <1>2
<1>4. \A t \in Seq(Transfers) : t \in T
    BY <1>1, <1>3, ListInduction
<1> QED BY <1>4 DEF T

\* A journey put before the others.
LEMMA LengthsFirst ==
    ASSUME NEW s, s \in Seq(Transfers), NEW x \in Transfers
    PROVE  /\ <<x>> \o s \in Seq(Transfers) /\ Len(<<x>> \o s) = Len(s) + 1 /\ Len(s) \in Nat
           /\ (<<x>> \o s)[1] = x
           /\ Lengths(<<x>> \o s) = x.km + Lengths(s)
<1> DEFINE one == <<x>>
           none == <<>>
<1>1. one \in Seq(Transfers) /\ Len(one) = 1 /\ one[1] = x /\ none \in Seq(Transfers)
    BY EmptySeq
<1>2. one = Append(none, x)
    OBVIOUS
<1>3. Lengths(none) = 0 /\ Lengths(one) = Lengths(none) + x.km /\ x.km \in Nat
    <2> HIDE DEF one
    <2>1. Lengths(none) = 0
        BY LengthsStep
    <2> HIDE DEF none
    <2>2. Lengths(Append(none, x)) = Lengths(none) + x.km
        BY <1>1, LengthsStep
    <2> QED BY <1>2, <2>1, <2>2 DEF Transfers
<1> HIDE DEF one, none
<1>4. Lengths(one \o s) = Lengths(one) + Lengths(s)
    BY <1>1, LengthsConcat
<1>5. one \o s \in Seq(Transfers) /\ Len(one \o s) = Len(one) + Len(s) /\ Len(s) \in Nat
    BY <1>1, ConcatProperties, LenProperties
<1>6. (one \o s)[1] = x
    BY <1>1, <1>5, ConcatProperties
<1>7. Lengths(one \o s) = x.km + Lengths(s)
    BY <1>3, <1>4
<1> QED BY <1>1, <1>5, <1>6, <1>7 DEF one

\* What the metrics are made of: the summaries and the transfers of the days.
Counts(ds) == [i \in DOMAIN ds |-> ds[i].count]
Kms(ds) == [i \in DOMAIN ds |-> ds[i].km]
Moves(ds) == [i \in DOMAIN ds |-> ds[i].transfers]
KeptMoves(ds) == [i \in DOMAIN ds |-> Kept(ds[i].transfers, ByRouting)]

LEMMA DaysOf ==
    ASSUME NEW ds, ds \in Seq(DaysRouted)
    PROVE  /\ \A i \in DOMAIN ds : ds[i] \in DaysRouted
           /\ \A d \in DaysRouted :
                 \A i \in DOMAIN Append(ds, d) : Append(ds, d)[i] \in DaysRouted
<1>1. ASSUME NEW es, es \in Seq(DaysRouted) PROVE \A i \in DOMAIN es : es[i] \in DaysRouted
    BY <1>1, LenProperties, ElementOfSeq
<1>2. \A d \in DaysRouted : Append(ds, d) \in Seq(DaysRouted)
    BY AppendProperties
<1> QED BY <1>1, <1>2

LEMMA CountsAppend ==
    ASSUME NEW ds, ds \in Seq(DaysRouted), NEW d \in DaysRouted
    PROVE  /\ Counts(ds) \in Seq(Nat) /\ d.count \in Nat
           /\ Counts(Append(ds, d)) = Append(Counts(ds), d.count)
<1> DEFINE F == [x \in DaysRouted |-> x.count]
           u == Counts(ds)
           v == Counts(Append(ds, d))
           Y == Nat
<1>1. F \in [DaysRouted -> Y] /\ F[d] = d.count /\ d.count \in Y
    BY DEF DaysRouted
<1>2. \A x \in DaysRouted : F[x] = x.count /\ x.count \in Y
    BY DEF DaysRouted
<1> HIDE DEF F, Y
<1>3. u \in [DOMAIN ds -> Y] /\ \A i \in DOMAIN ds : u[i] = F[ds[i]]
    BY <1>2, DaysOf DEF Counts
<1>4. /\ v \in [DOMAIN Append(ds, d) -> Y]
      /\ \A i \in DOMAIN Append(ds, d) : v[i] = F[Append(ds, d)[i]]
    BY <1>2, DaysOf DEF Counts
<1> HIDE DEF u, v
<1>5. u \in Seq(Y) /\ v = Append(u, F[d])
    BY <1>1, <1>3, <1>4, MapAppend
<1> QED BY <1>1, <1>5 DEF u, v, Y

LEMMA KmsAppend ==
    ASSUME NEW ds, ds \in Seq(DaysRouted), NEW d \in DaysRouted
    PROVE  /\ Kms(ds) \in Seq(Nat) /\ d.km \in Nat
           /\ Kms(Append(ds, d)) = Append(Kms(ds), d.km)
<1> DEFINE F == [x \in DaysRouted |-> x.km]
           u == Kms(ds)
           v == Kms(Append(ds, d))
           Y == Nat
<1>1. F \in [DaysRouted -> Y] /\ F[d] = d.km /\ d.km \in Y
    BY DEF DaysRouted
<1>2. \A x \in DaysRouted : F[x] = x.km /\ x.km \in Y
    BY DEF DaysRouted
<1> HIDE DEF F, Y
<1>3. u \in [DOMAIN ds -> Y] /\ \A i \in DOMAIN ds : u[i] = F[ds[i]]
    BY <1>2, DaysOf DEF Kms
<1>4. /\ v \in [DOMAIN Append(ds, d) -> Y]
      /\ \A i \in DOMAIN Append(ds, d) : v[i] = F[Append(ds, d)[i]]
    BY <1>2, DaysOf DEF Kms
<1> HIDE DEF u, v
<1>5. u \in Seq(Y) /\ v = Append(u, F[d])
    BY <1>1, <1>3, <1>4, MapAppend
<1> QED BY <1>1, <1>5 DEF u, v, Y

LEMMA MovesAppend ==
    ASSUME NEW ds, ds \in Seq(DaysRouted), NEW d \in DaysRouted
    PROVE  /\ Moves(ds) \in Seq(Seq(Transfers)) /\ d.transfers \in Seq(Transfers)
           /\ Moves(Append(ds, d)) = Append(Moves(ds), d.transfers)
<1> DEFINE F == [x \in DaysRouted |-> x.transfers]
           u == Moves(ds)
           v == Moves(Append(ds, d))
           Y == Seq(Transfers)
<1>1. F \in [DaysRouted -> Y] /\ F[d] = d.transfers /\ d.transfers \in Y
    BY DEF DaysRouted
<1>2. \A x \in DaysRouted : F[x] = x.transfers /\ x.transfers \in Y
    BY DEF DaysRouted
<1> HIDE DEF F, Y
<1>3. u \in [DOMAIN ds -> Y] /\ \A i \in DOMAIN ds : u[i] = F[ds[i]]
    BY <1>2, DaysOf DEF Moves
<1>4. /\ v \in [DOMAIN Append(ds, d) -> Y]
      /\ \A i \in DOMAIN Append(ds, d) : v[i] = F[Append(ds, d)[i]]
    BY <1>2, DaysOf DEF Moves
<1> HIDE DEF u, v
<1>5. u \in Seq(Y) /\ v = Append(u, F[d])
    BY <1>1, <1>3, <1>4, MapAppend
<1> QED BY <1>1, <1>5 DEF u, v, Y

LEMMA KeptMovesAppend ==
    ASSUME NEW ds, ds \in Seq(DaysRouted), NEW d \in DaysRouted
    PROVE  /\ KeptMoves(ds) \in Seq(Seq(Transfers)) /\ Kept(d.transfers, ByRouting) \in Seq(Transfers)
           /\ KeptMoves(Append(ds, d)) = Append(KeptMoves(ds), Kept(d.transfers, ByRouting))
<1> DEFINE F == [x \in DaysRouted |-> Kept(x.transfers, ByRouting)]
           u == KeptMoves(ds)
           v == KeptMoves(Append(ds, d))
           Y == Seq(Transfers)
<1>1. F \in [DaysRouted -> Y] /\ F[d] = Kept(d.transfers, ByRouting) /\ Kept(d.transfers, ByRouting) \in Y
    <2>1. \A x \in DaysRouted : x.transfers \in Seq(Transfers)
        BY DEF DaysRouted
    <2> QED BY <2>1, KeptStep
<1>2. \A x \in DaysRouted : F[x] = Kept(x.transfers, ByRouting) /\ Kept(x.transfers, ByRouting) \in Y
    <2>1. \A x \in DaysRouted : x.transfers \in Seq(Transfers)
        BY DEF DaysRouted
    <2> QED BY <2>1, KeptStep
<1> HIDE DEF F, Y
<1>3. u \in [DOMAIN ds -> Y] /\ \A i \in DOMAIN ds : u[i] = F[ds[i]]
    BY <1>2, DaysOf DEF KeptMoves
<1>4. /\ v \in [DOMAIN Append(ds, d) -> Y]
      /\ \A i \in DOMAIN Append(ds, d) : v[i] = F[Append(ds, d)[i]]
    BY <1>2, DaysOf DEF KeptMoves
<1> HIDE DEF u, v
<1>5. u \in Seq(Y) /\ v = Append(u, F[d])
    BY <1>1, <1>3, <1>4, MapAppend
<1> QED BY <1>1, <1>5 DEF u, v, Y

\* The summaries of finished days add up to their transfers.
LEMMA SummariesAgree ==
    ASSUME NEW ds, ds \in Seq(DaysRouted)
    PROVE  /\ Joined(Moves(ds)) \in Seq(Transfers)
           /\ SumOf(Counts(ds)) = Len(Joined(Moves(ds)))
           /\ SumOf(Kms(ds)) = Lengths(Joined(Moves(ds)))
<1> DEFINE Agree(es) == /\ Joined(Moves(es)) \in Seq(Transfers)
                        /\ SumOf(Counts(es)) = Len(Joined(Moves(es)))
                        /\ SumOf(Kms(es)) = Lengths(Joined(Moves(es)))
           T == {es \in Seq(DaysRouted) : Agree(es)}
<1>1. <<>> \in T
    <2> DEFINE none == <<>>
    <2>1. none \in Seq(Transfers) /\ none \in Seq(DaysRouted) /\ Len(none) = 0
        BY EmptySeq
    <2>2. Counts(none) = none /\ Kms(none) = none /\ Moves(none) = none
        BY EmptySeq DEF Counts, Kms, Moves
    <2>3. Joined(none) = none /\ SumOf(none) = 0 /\ Lengths(none) = 0
        BY JoinedStep, SumStep, LengthsStep
    <2> HIDE DEF none
    <2>4. Agree(none)
        BY <2>1, <2>2, <2>3
    <2>5. none \in T
        BY <2>1, <2>4
    <2> QED BY <2>5 DEF none
<1>2. ASSUME NEW es, es \in Seq(DaysRouted), NEW d \in DaysRouted, es \in T
      PROVE  Append(es, d) \in T
    <2> DEFINE js == Joined(Moves(es))
               more == Joined(Moves(Append(es, d)))
    <2>1. js \in Seq(Transfers) /\ SumOf(Counts(es)) = Len(js) /\ SumOf(Kms(es)) = Lengths(js)
        BY <1>2
    <2>2. d.transfers \in Seq(Transfers) /\ d.count = Len(d.transfers) /\ d.km = Lengths(d.transfers)
        BY DEF DaysRouted
    <2>3. more = js \o d.transfers
        <3>1. Moves(es) \in Seq(Seq(Transfers)) /\ Moves(Append(es, d)) = Append(Moves(es), d.transfers)
            BY <1>2, MovesAppend
        <3> QED BY <2>2, <3>1, JoinedStep
    <2>4. SumOf(Counts(Append(es, d))) = SumOf(Counts(es)) + d.count
        <3>1. /\ Counts(es) \in Seq(Nat) /\ d.count \in Nat
              /\ Counts(Append(es, d)) = Append(Counts(es), d.count)
            BY <1>2, CountsAppend
        <3> QED BY <3>1, SumStep
    <2>5. SumOf(Kms(Append(es, d))) = SumOf(Kms(es)) + d.km
        <3>1. /\ Kms(es) \in Seq(Nat) /\ d.km \in Nat
              /\ Kms(Append(es, d)) = Append(Kms(es), d.km)
            BY <1>2, KmsAppend
        <3> QED BY <3>1, SumStep
    <2> HIDE DEF js, more
    <2>6. more \in Seq(Transfers) /\ Len(more) = Len(js) + Len(d.transfers)
        BY <2>1, <2>2, <2>3, ConcatProperties
    <2>7. Lengths(more) = Lengths(js) + Lengths(d.transfers)
        BY <2>1, <2>2, <2>3, LengthsConcat
    <2>8. SumOf(Counts(Append(es, d))) = Len(more) /\ SumOf(Kms(Append(es, d))) = Lengths(more)
        BY <2>1, <2>2, <2>4, <2>5, <2>6, <2>7
    <2>9. Append(es, d) \in Seq(DaysRouted)
        BY <1>2, AppendProperties
    <2> QED BY <2>6, <2>8, <2>9 DEF more
<1> HIDE DEF T
<1>3. \A es \in Seq(DaysRouted), d \in DaysRouted : es \in T => Append(es, d) \in T
    BY <1>2
<1>4. \A es \in Seq(DaysRouted) : es \in T
    BY <1>1, <1>3, ListInduction
<1> QED BY <1>4 DEF T

\* The transfers that are not injected, of all days or day by day.
LEMMA KeptOfAll ==
    ASSUME NEW ds, ds \in Seq(DaysRouted)
    PROVE  Kept(Joined(Moves(ds)), ByRouting) = Joined(KeptMoves(ds))
<1>1. \A i \in DOMAIN ds : ds[i] \in DaysRouted
    BY LenProperties, ElementOfSeq
<1>2. Moves(ds) \in Seq(Seq(Transfers))
    <2>1. Len(ds) \in Nat /\ DOMAIN ds = 1..Len(ds)
        BY LenProperties
    <2>2. Moves(ds) \in [1..Len(ds) -> Seq(Transfers)]
        BY <1>1, <2>1 DEF Moves, DaysRouted
    <2> QED BY <2>1, <2>2
<1>3. \A i \in DOMAIN ds : ds[i].transfers \in Seq(Transfers)
    BY <1>1 DEF DaysRouted
<1>4. /\ KeptMoves(ds) \in [DOMAIN Moves(ds) -> Seq(Transfers)]
      /\ \A i \in DOMAIN Moves(ds) : KeptMoves(ds)[i] = Kept(Moves(ds)[i], ByRouting)
    BY <1>3, KeptStep DEF Moves, KeptMoves
<1> QED BY <1>2, <1>4, KeptJoined

-----------------------------------------------------------------------------
\* The journeys made so far, without the injected ones, and where they lead.
MadeBefore == Joined(KeptMoves(routed))
Made == IF routing = "clusters" THEN MadeBefore \o transfers ELSE MadeBefore
Place == IF routing = "clusters" THEN here ELSE previous_end_location

OneChain(bases, made) ==
    \A i \in 1..(Len(made) - 1) : UnlistedWay(bases, made[i].to, made[i + 1].from)

LeadsTo(bases, made, place) ==
    /\ OneChain(bases, made)
    /\ made # <<>> => UnlistedWay(bases, made[Len(made)].to, place) /\ place # NoBase

\* Ways without a listed journey: none at all, a short drive, one way after another.
LEMMA StayingIsAWay == \A bases, x : UnlistedWay(bases, x, x)
BY DEF UnlistedWay

LEMMA WaysConnect ==
    ASSUME NEW bases, NEW x, NEW y, NEW z, UnlistedWay(bases, x, y), UnlistedWay(bases, y, z)
    PROVE  UnlistedWay(bases, x, z)
BY DEF UnlistedWay

LEMMA ShortDriveIsAWay ==
    ASSUME NEW bases, NEW x, NEW y \in bases, ~Significant(x, y) \/ Straight(x, y) <= Brief
    PROVE  UnlistedWay(bases, x, y)
BY DEF UnlistedWay

LEMMA LeadsOn ==
    ASSUME NEW bases, NEW made, NEW x, NEW y, y # NoBase,
           LeadsTo(bases, made, x), UnlistedWay(bases, x, y)
    PROVE  LeadsTo(bases, made, y)
<1>1. ASSUME made # <<>> PROVE UnlistedWay(bases, made[Len(made)].to, y)
    BY <1>1, WaysConnect DEF LeadsTo
<1> QED BY <1>1 DEF LeadsTo

\* A change of base that is far enough has its transfer.
HasLongTransfer(x, y) ==
    (NoBase \notin {x.base, y.base} /\ Straight(x.base, y.base) > LongKm) =>
        \E i \in DOMAIN y.transfers : y.transfers[i].km + Kilometre > Straight(x.base, y.base)

TransfersTypes ==
    /\ trip \in Trips /\ routing \in {"day", "clusters", "between", "done"}
    /\ cluster \in Nat \ {0} /\ pair \in Nat \ {0}
    /\ previous_end_location \in Nat \cup {NoBase} /\ last_active_base \in Nat \cup {NoBase}
    /\ routed \in Seq(DaysRouted) /\ transfers \in Seq(ByRouting)
    /\ routing = "clusters" => /\ here \in Nat \ {NoBase}
                               /\ Len(routed) < Len(trip) /\ Assigned # <<>>

\* The inductive invariant.
TransfersInv ==
    /\ TransfersTypes
    /\ AllHaveBases => LeadsTo(TripBases, Made, Place)
    /\ routing \in {"between", "done"} =>
          \A d \in 1..(Len(routed) - 1) : d < pair => HasLongTransfer(routed[d], routed[d + 1])
    /\ routing = "done" =>
          /\ pair >= Len(routed)
          /\ metrics.detected = SumOf(Counts(routed)) /\ metrics.km = SumOf(Kms(routed))
          /\ metrics.listed = Joined(Moves(routed))

LEMMA TripDays ==
    ASSUME trip \in Trips
    PROVE  /\ Len(trip) \in Nat /\ DOMAIN trip = 1..Len(trip)
           /\ \A d \in DOMAIN trip : trip[d] \in Seq([base : Nat \cup {NoBase}, spot : Nat \ {NoBase}])
<1> DEFINE Stops == [base : Nat \cup {NoBase}, spot : Nat \ {NoBase}]
           Days == Seq(Stops)
<1>1. trip \in Seq(Days)
    BY LocationsAssumption
<1> HIDE DEF Days
<1>2. Len(trip) \in Nat /\ DOMAIN trip = 1..Len(trip) /\ \A d \in 1..Len(trip) : trip[d] \in Days
    BY <1>1, LenProperties, ElementOfSeq
<1> QED BY <1>2 DEF Days

LEMMA StopTypes ==
    ASSUME trip \in Trips, NEW d \in DOMAIN trip, NEW k \in DOMAIN trip[d]
    PROVE  trip[d][k].base \in Nat \cup {NoBase} /\ trip[d][k].spot \in Nat \ {NoBase}
<1> DEFINE Stops == [base : Nat \cup {NoBase}, spot : Nat \ {NoBase}]
           t == trip[d]
<1>1. t \in Seq(Stops)
    BY TripDays
<1> HIDE DEF t, Stops
<1>2. k \in 1..Len(t)
    BY <1>1, LenProperties DEF t
<1>3. t[k] \in Stops
    BY <1>1, <1>2, ElementOfSeq
<1> QED BY <1>3 DEF Stops, t

LEMMA FirstHotelType == ASSUME trip \in Trips PROVE first_day_hotel \in Nat \cup {NoBase}
<1>1. CASE HotelDays = {}
    BY <1>1 DEF first_day_hotel
<1>2. CASE HotelDays # {}
    <2>1. HotelDays \subseteq Nat
        BY TripDays DEF HotelDays
    <2>2. \E i \in HotelDays : \A j \in HotelDays : i <= j
        BY <1>2, <2>1, LeastNumber
    <2> DEFINE i == CHOOSE i \in HotelDays : \A j \in HotelDays : i <= j
    <2>3. i \in HotelDays
        BY <2>2
    <2>4. first_day_hotel = trip[i][1].base
        BY <1>2 DEF first_day_hotel
    <2> HIDE DEF i
    <2>5. i \in DOMAIN trip /\ trip[i] # <<>>
        BY <2>3 DEF HotelDays
    <2>6. 1 \in DOMAIN trip[i]
        <3> DEFINE t == trip[i]
                   Stops == [base : Nat \cup {NoBase}, spot : Nat \ {NoBase}]
        <3>1. t \in Seq(Stops) /\ t # <<>>
            BY <2>5, TripDays
        <3> HIDE DEF t, Stops
        <3>2. Len(t) \in Nat /\ Len(t) # 0 /\ DOMAIN t = 1..Len(t)
            BY <3>1, EmptySeq, LenProperties
        <3> QED BY <3>2 DEF t
    <2> QED BY <2>4, <2>5, <2>6, StopTypes
<1> QED BY <1>1, <1>2

LEMMA RoutedFacts ==
    ASSUME TransfersTypes
    PROVE  /\ Len(routed) \in Nat /\ DOMAIN routed = 1..Len(routed)
           /\ \A d \in DOMAIN routed : routed[d] \in DaysRouted
           /\ KeptMoves(routed) \in Seq(Seq(Transfers)) /\ MadeBefore \in Seq(Transfers)
           /\ transfers \in Seq(Transfers) /\ Kept(transfers, ByRouting) = transfers
           /\ Made \in Seq(Transfers)
<1>1. routed \in Seq(DaysRouted) /\ transfers \in Seq(ByRouting)
    BY DEF TransfersTypes
<1>2. /\ Len(routed) \in Nat /\ DOMAIN routed = 1..Len(routed)
      /\ \A d \in DOMAIN routed : routed[d] \in DaysRouted
    BY <1>1, LenProperties, DaysOf
<1>3. KeptMoves(routed) \in Seq(Seq(Transfers))
    <2> DEFINE Y == Seq(Transfers)
               N == Len(routed)
    <2>1. \A d \in DOMAIN routed : routed[d].transfers \in Y
        BY <1>2 DEF DaysRouted
    <2>2. \A d \in DOMAIN routed : Kept(routed[d].transfers, ByRouting) \in Y
        BY <2>1, KeptStep
    <2>3. N \in Nat /\ DOMAIN routed = 1..N
        BY <1>2
    <2> HIDE DEF Y, N
    <2>4. KeptMoves(routed) \in [1..N -> Y]
        BY <2>2, <2>3 DEF KeptMoves
    <2>5. KeptMoves(routed) \in Seq(Y)
        BY <2>3, <2>4
    <2> QED BY <2>5 DEF Y
<1>4. MadeBefore \in Seq(Transfers)
    BY <1>3, JoinedStep DEF MadeBefore
<1>5. ByRouting \subseteq Transfers
    BY DEF ByRouting, Transfers
<1>6. transfers \in Seq(Transfers)
    BY <1>1, <1>5
<1>7. Kept(transfers, ByRouting) = transfers
    <2>1. ToSet(transfers) \subseteq ByRouting
        BY <1>1, LenProperties, ElementOfSeq DEF ToSet
    <2> QED BY <1>1, <2>1, KeptElements
<1>8. Made \in Seq(Transfers)
    BY <1>4, <1>6, ConcatProperties DEF Made
<1> QED BY <1>2, <1>3, <1>4, <1>6, <1>7, <1>8

\* A finished day adds its journeys to those made before.
LEMMA DayAdded ==
    ASSUME TransfersTypes, NEW d \in DaysRouted, routed' = Append(routed, d)
    PROVE  /\ routed' \in Seq(DaysRouted) /\ Len(routed') = Len(routed) + 1
           /\ MadeBefore' = MadeBefore \o Kept(d.transfers, ByRouting)
<1>1. routed \in Seq(DaysRouted)
    BY DEF TransfersTypes
<1>2. routed' \in Seq(DaysRouted) /\ Len(routed') = Len(routed) + 1
    BY <1>1, AppendProperties
<1>3. /\ KeptMoves(routed) \in Seq(Seq(Transfers)) /\ Kept(d.transfers, ByRouting) \in Seq(Transfers)
      /\ KeptMoves(Append(routed, d)) = Append(KeptMoves(routed), Kept(d.transfers, ByRouting))
    BY <1>1, KeptMovesAppend
<1>4. Joined(Append(KeptMoves(routed), Kept(d.transfers, ByRouting)))
         = Joined(KeptMoves(routed)) \o Kept(d.transfers, ByRouting)
    BY <1>3, JoinedStep
<1>5. MadeBefore' = Joined(KeptMoves(routed'))
    BY DEF MadeBefore
<1> QED BY <1>2, <1>3, <1>4, <1>5 DEF MadeBefore

\* A journey that begins where the others lead.
LEMMA OneMore ==
    ASSUME NEW bases, NEW made, made \in Seq(Transfers), NEW tr \in Transfers, tr.to # NoBase,
           NEW place, LeadsTo(bases, made, place), tr.from = place
    PROVE  LeadsTo(bases, Append(made, tr), tr.to)
<1> DEFINE a == Append(made, tr)
           N == Len(made)
<1>1. /\ a \in Seq(Transfers) /\ Len(a) = N + 1 /\ N \in Nat
      /\ \A n \in 1..N : a[n] = made[n]
      /\ a[N + 1] = tr
    BY AppendAt
<1> DEFINE Leads(x, y) == UnlistedWay(bases, x, y)
<1>2. /\ \A i \in 1..(N - 1) : Leads(made[i].to, made[i + 1].from)
      /\ N # 0 => Leads(made[N].to, tr.from)
      /\ Leads(tr.to, tr.to)
    <2>1. N # 0 => made # <<>>
        BY EmptySeq
    <2> QED BY <2>1, StayingIsAWay DEF LeadsTo, OneChain
<1> HIDE DEF a, N, Leads
<1>3. OneChain(bases, a)
    <2> SUFFICES ASSUME NEW i \in 1..N PROVE Leads(a[i].to, a[i + 1].from)
        BY <1>1 DEF OneChain, Leads
    <2>1. CASE i = N
        <3>1. N \in 1..N /\ N # 0
            BY <1>1, <2>1
        <3>2. a[N] = made[N]
            BY <1>1, <3>1
        <3> QED BY <1>1, <1>2, <2>1, <3>1, <3>2
    <2>2. CASE i # N
        <3>1. i \in 1..(N - 1) /\ i + 1 \in 1..N
            BY <1>1, <2>2
        <3> QED BY <1>1, <1>2, <3>1
    <2> QED BY <2>1, <2>2
<1>4. a[Len(a)].to = tr.to
    BY <1>1
<1> QED BY <1>2, <1>3, <1>4 DEF LeadsTo, Leads, a

-----------------------------------------------------------------------------
\* The part of the invariant that only concerns what is routed is kept while the
\* traveller is within a day.
LEMMA TransfersInitial == TransfersInit => TransfersInv
<1> SUFFICES ASSUME TransfersInit PROVE TransfersInv
    OBVIOUS
<1> DEFINE none == <<>>
<1>1. /\ trip \in Trips /\ routing = "day" /\ cluster = 1 /\ pair = 1
      /\ previous_end_location = NoBase /\ last_active_base = NoBase
      /\ routed = none /\ transfers = none
    BY DEF TransfersInit, NothingRouted
<1>2. /\ none \in Seq(DaysRouted) /\ none \in Seq(ByRouting) /\ none \in Seq(Transfers)
      /\ none \in Seq(Seq(Transfers)) /\ Len(none) = 0 /\ DOMAIN none = {}
    BY EmptySeq
<1>3. KeptMoves(routed) = none
    BY <1>1, <1>2 DEF KeptMoves
<1>4. MadeBefore = none
    <2>1. Joined(none) = none
        BY JoinedStep
    <2> HIDE DEF none
    <2> QED BY <1>3, <2>1 DEF MadeBefore
<1>5. LeadsTo(TripBases, Made, Place)
    <2>1. Made = none
        BY <1>1, <1>4 DEF Made
    <2> QED BY <1>2, <2>1 DEF LeadsTo, OneChain
<1>6. TransfersTypes
    <2> HIDE DEF none
    <2> QED BY <1>1, <1>2 DEF TransfersTypes
<1> QED BY <1>1, <1>5, <1>6 DEF TransfersInv

LEMMA FreeDayKeeps == ASSUME TransfersInv, FreeDay PROVE TransfersInv'
<1> USE DEF FreeDay
<1> DEFINE none == <<>>
           d == [base |-> last_active_base, transfers |-> none, count |-> 0, km |-> 0]
<1>1. /\ TransfersTypes /\ routing = "day" /\ routing' = "day" /\ routed' = Append(routed, d)
      /\ trip' = trip /\ cluster' = cluster /\ pair' = pair /\ transfers' = transfers
      /\ previous_end_location' = previous_end_location /\ last_active_base' = last_active_base
      /\ AllHaveBases => LeadsTo(TripBases, Made, Place)
    BY DEF TransfersInv
<1>2. none \in Seq(Transfers) /\ Len(none) = 0
    BY EmptySeq
<1>3. Lengths(none) = 0 /\ Kept(none, ByRouting) = none
    BY LengthsStep, KeptStep
<1>4. d \in DaysRouted /\ d.transfers = none
    <2>1. last_active_base \in Nat \cup {NoBase}
        BY <1>1 DEF TransfersTypes
    <2> HIDE DEF none
    <2> QED BY <1>2, <1>3, <2>1 DEF DaysRouted
<1> HIDE DEF d
<1>5. routed' \in Seq(DaysRouted) /\ MadeBefore' = MadeBefore \o Kept(d.transfers, ByRouting)
    BY <1>1, <1>4, DayAdded
<1>6. MadeBefore' = MadeBefore
    <2>1. MadeBefore \in Seq(Transfers)
        BY <1>1, RoutedFacts
    <2>2. MadeBefore \o none = MadeBefore
        BY <2>1, ConcatEmptySeq
    <2> HIDE DEF none
    <2> QED BY <1>3, <1>4, <1>5, <2>2
<1>7. Made' = Made /\ Place' = Place
    BY <1>1, <1>6 DEF Made, Place
<1>8. TransfersTypes'
    BY <1>1, <1>5 DEF TransfersTypes
<1>9. AllHaveBases' => LeadsTo(TripBases', Made', Place')
    <2>1. (AllHaveBases' <=> AllHaveBases) /\ TripBases' = TripBases
        BY <1>1 DEF AllHaveBases, TripBases
    <2> QED BY <1>1, <1>7, <2>1
<1> QED BY <1>1, <1>8, <1>9 DEF TransfersInv, LeadsTo, OneChain

LEMMA BeginDayKeeps == ASSUME TransfersInv, BeginDay PROVE TransfersInv'
<1> USE DEF BeginDay
<1> DEFINE none == <<>>
<1>1. /\ TransfersTypes /\ routing = "day" /\ routing' = "clusters" /\ routed' = routed
      /\ trip' = trip /\ cluster' = 1 /\ pair' = pair /\ transfers' = none
      /\ previous_end_location' = previous_end_location /\ last_active_base' = last_active_base
      /\ AllHaveBases => LeadsTo(TripBases, Made, Place)
      /\ Len(routed) + 1 <= Len(trip) /\ Assigned # <<>>
    BY DEF TransfersInv, day
<1>2. Len(routed) \in Nat /\ Len(trip) \in Nat /\ Len(routed) < Len(trip)
    BY <1>1, RoutedFacts, TripDays DEF TransfersTypes
<1>3. here' \in Nat \ {NoBase} /\ (previous_end_location # NoBase => here' = previous_end_location)
    <2>1. Assigned[1].spot \in Nat \ {NoBase}
        <3> DEFINE Stops == [base : Nat \cup {NoBase}, spot : Nat \ {NoBase}]
        <3>1. Len(routed) + 1 \in DOMAIN trip
            BY <1>1, <1>2, TripDays DEF TransfersTypes
        <3>2. Assigned \in Seq(Stops)
            BY <1>1, <3>1, TripDays DEF Assigned, day, TransfersTypes
        <3> HIDE DEF Stops
        <3>3. 1 \in DOMAIN Assigned
            <4>1. Len(Assigned) \in Nat /\ Len(Assigned) # 0 /\ DOMAIN Assigned = 1..Len(Assigned)
                BY <1>1, <3>2, EmptySeq, LenProperties
            <4> QED BY <4>1
        <3> QED BY <1>1, <3>1, <3>3, StopTypes DEF Assigned, day, TransfersTypes
    <2>2. first_day_hotel \in Nat \cup {NoBase} /\ previous_end_location \in Nat \cup {NoBase}
        BY <1>1, FirstHotelType DEF TransfersTypes
    <2> QED BY <2>1, <2>2
<1>4. none \in Seq(ByRouting) /\ MadeBefore \o none = MadeBefore
    <2>1. MadeBefore \in Seq(Transfers)
        BY <1>1, RoutedFacts
    <2> QED BY <2>1, EmptySeq, ConcatEmptySeq
<1> HIDE DEF none
<1>5. Made' = Made
    <2>1. MadeBefore' = MadeBefore
        BY <1>1 DEF MadeBefore, KeptMoves
    <2> QED BY <1>1, <1>4, <2>1 DEF Made
<1>6. ASSUME AllHaveBases PROVE LeadsTo(TripBases, Made', Place')
    <2>1. LeadsTo(TripBases, Made, previous_end_location)
        BY <1>1, <1>6 DEF Place
    <2>2. Place' = here'
        BY <1>1 DEF Place
    <2>3. Made # <<>> => here' = previous_end_location
        BY <1>3, <2>1 DEF LeadsTo
    <2> QED BY <1>5, <2>1, <2>2, <2>3 DEF LeadsTo
<1>7. TransfersTypes'
    BY <1>1, <1>2, <1>3, <1>4 DEF TransfersTypes, Assigned, day
<1>8. (AllHaveBases' <=> AllHaveBases) /\ TripBases' = TripBases
    BY <1>1 DEF AllHaveBases, TripBases
<1> QED BY <1>1, <1>6, <1>7, <1>8 DEF TransfersInv, LeadsTo, OneChain

\* Where the traveller stands within a day.
LEMMA InsideDay ==
    ASSUME TransfersInv, routing = "clusters"
    PROVE  /\ TransfersTypes /\ here \in Nat \ {NoBase} /\ cluster \in Nat \ {0}
           /\ Len(routed) < Len(trip) /\ Assigned # <<>>
           /\ day \in DOMAIN trip /\ Len(Assigned) \in Nat /\ DOMAIN Assigned = 1..Len(Assigned)
           /\ \A k \in DOMAIN Assigned : /\ Assigned[k].base \in Nat \cup {NoBase}
                                         /\ Assigned[k].spot \in Nat \ {NoBase}
           /\ 1 \in DOMAIN Assigned
           /\ \A k \in DOMAIN Assigned : Assigned[k].base \in TripBases
           /\ AllHaveBases => /\ \A k \in DOMAIN Assigned : Assigned[k].base # NoBase
                              /\ LeadsTo(TripBases, MadeBefore \o transfers, here)
<1>1. /\ TransfersTypes /\ here \in Nat \ {NoBase} /\ cluster \in Nat \ {0}
      /\ Len(routed) < Len(trip) /\ Assigned # <<>> /\ trip \in Trips
      /\ AllHaveBases => LeadsTo(TripBases, Made, Place)
    BY DEF TransfersInv, TransfersTypes
<1>2. Len(routed) \in Nat /\ Len(trip) \in Nat /\ DOMAIN trip = 1..Len(trip)
    BY <1>1, RoutedFacts, TripDays
<1>3. day \in DOMAIN trip
    BY <1>1, <1>2 DEF day
<1> DEFINE Stops == [base : Nat \cup {NoBase}, spot : Nat \ {NoBase}]
<1>4. Assigned \in Seq(Stops)
    BY <1>1, <1>3, TripDays DEF Assigned
<1> HIDE DEF Stops
<1>5. Len(Assigned) \in Nat /\ DOMAIN Assigned = 1..Len(Assigned) /\ Len(Assigned) # 0
    BY <1>1, <1>4, EmptySeq, LenProperties
<1>6. 1 \in DOMAIN Assigned
    BY <1>5
<1>7. \A k \in DOMAIN Assigned : /\ Assigned[k].base \in Nat \cup {NoBase}
                                 /\ Assigned[k].spot \in Nat \ {NoBase}
    BY <1>1, <1>3, StopTypes DEF Assigned
<1>8. AllHaveBases => \A k \in DOMAIN Assigned : Assigned[k].base # NoBase
    BY <1>3 DEF AllHaveBases, Assigned
<1>9. AllHaveBases => LeadsTo(TripBases, MadeBefore \o transfers, here)
    BY <1>1 DEF Made, Place
<1>10. \A k \in DOMAIN Assigned : Assigned[k].base \in TripBases
    BY <1>3 DEF Assigned, TripBases
<1> QED BY <1>1, <1>3, <1>5, <1>6, <1>7, <1>8, <1>9, <1>10

\* Within a day the routed days stay; what the invariant needs then.
LEMMA StillInside ==
    ASSUME TransfersInv, routing = "clusters", routing' = "clusters",
           UNCHANGED <<trip, previous_end_location, last_active_base, routed, pair>>,
           cluster' \in Nat \ {0}, here' \in Nat \ {NoBase}, transfers' \in Seq(ByRouting),
           AllHaveBases => LeadsTo(TripBases, MadeBefore \o transfers', here')
    PROVE  TransfersInv'
<1>1. TransfersTypes /\ Len(routed) < Len(trip) /\ Assigned # <<>>
    BY InsideDay
<1>2. TransfersTypes'
    BY <1>1 DEF TransfersTypes, Assigned, day
<1>3. MadeBefore' = MadeBefore
    BY DEF MadeBefore, KeptMoves
<1>4. Made' = MadeBefore \o transfers' /\ Place' = here'
    BY <1>3 DEF Made, Place
<1>5. (AllHaveBases' <=> AllHaveBases) /\ TripBases' = TripBases
    BY DEF AllHaveBases, TripBases
<1> QED BY <1>2, <1>4, <1>5 DEF TransfersInv, LeadsTo, OneChain

\* What a drive that is not listed does.
LEMMA DrivesOn ==
    ASSUME TransfersInv, routing = "clusters", cluster \in DOMAIN Assigned, Stop.base # NoBase,
           ~Significant(here, Stop.base) \/ Straight(here, Stop.base) <= Brief
    PROVE  AllHaveBases => LeadsTo(TripBases, MadeBefore \o transfers, Stop.base)
<1>1. Stop.base \in TripBases /\ (AllHaveBases => LeadsTo(TripBases, MadeBefore \o transfers, here))
    BY InsideDay DEF Stop
<1>2. UnlistedWay(TripBases, here, Stop.base)
    BY <1>1, ShortDriveIsAWay
<1> QED BY <1>1, <1>2, LeadsOn

LEMMA RouteHereKeeps == ASSUME TransfersInv, RouteHere PROVE TransfersInv'
<1> USE DEF RouteHere
<1>1. /\ here \in Nat \ {NoBase} /\ cluster \in Nat \ {0} /\ cluster \in DOMAIN Assigned
      /\ transfers \in Seq(ByRouting)
    BY InsideDay DEF TransfersTypes
<1>2. Stop.spot \in Nat \ {NoBase} /\ Stop.base \in Nat \cup {NoBase}
    BY <1>1, InsideDay DEF Stop
<1>3. AllHaveBases => Stop.base # NoBase
    BY <1>1, InsideDay DEF Stop
<1>4. AllHaveBases => LeadsTo(TripBases, MadeBefore \o transfers, here')
    <2> SUFFICES ASSUME AllHaveBases PROVE LeadsTo(TripBases, MadeBefore \o transfers, here')
        OBVIOUS
    <2>1. Stop.base # NoBase /\ ~Significant(here, Stop.base) /\ here' = Stop.base
        BY <1>3 DEF MustTravel
    <2> QED BY <1>1, <2>1, DrivesOn
<1>5. here' \in Nat \ {NoBase} /\ cluster' \in Nat \ {0}
    BY <1>1, <1>2
<1> QED BY <1>1, <1>4, <1>5, StillInside

LEMMA ShortDriveKeeps == ASSUME TransfersInv, ShortDrive PROVE TransfersInv'
<1> USE DEF ShortDrive
<1>1. /\ here \in Nat \ {NoBase} /\ cluster \in Nat \ {0} /\ cluster \in DOMAIN Assigned
      /\ transfers \in Seq(ByRouting)
    BY InsideDay DEF TransfersTypes
<1>2. Stop.base \in Nat \ {NoBase}
    BY <1>1, InsideDay DEF Stop, MustTravel
<1>3. AllHaveBases => LeadsTo(TripBases, MadeBefore \o transfers, here')
    BY <1>1, <1>2, DrivesOn
<1>4. here' \in Nat \ {NoBase} /\ cluster' \in Nat \ {0}
    BY <1>1, <1>2
<1> QED BY <1>1, <1>3, <1>4, StillInside

LEMMA AnswersAtLeast ==
    ASSUME NEW x \in Nat, NEW y \in Nat
    PROVE  Straight(x, y) \in Nat /\ \A km \in Answers(x, y) : km \in Nat /\ km >= Straight(x, y)
<1>1. Straight(x, y) \in Nat
    BY DEF Straight
<1> DEFINE k == Straight(x, y)
<1>2. k \div 4 \in Nat
    <2> HIDE DEF k
    <2>1. k \in Nat
        BY <1>1 DEF k
    <2> QED BY <2>1
<1>3. \A km \in Answers(x, y) : km = k \/ km = k + k \div 4
    BY DEF Answers
<1> HIDE DEF k
<1>4. k \in Nat
    BY <1>1 DEF k
<1> QED BY <1>2, <1>3, <1>4 DEF k

LEMMA TravelKeeps == ASSUME TransfersInv, TravelToBase PROVE TransfersInv'
<1> USE DEF TravelToBase
<1>1. /\ TransfersTypes /\ here \in Nat \ {NoBase} /\ cluster \in Nat \ {0}
      /\ cluster \in DOMAIN Assigned
    BY InsideDay
<1>2. transfers \in Seq(ByRouting) /\ transfers \in Seq(Transfers) /\ MadeBefore \in Seq(Transfers)
    BY <1>1, RoutedFacts DEF TransfersTypes
<1>3. Stop.base \in Nat /\ Stop.base # NoBase
    BY <1>1, InsideDay DEF Stop, MustTravel
<1>4. PICK km \in Answers(here, Stop.base) :
          transfers' = Append(transfers, [from |-> here, to |-> Stop.base, km |-> km, injected |-> FALSE])
    OBVIOUS
<1>5. km \in Nat
    BY <1>1, <1>3, AnswersAtLeast
<1> DEFINE tr == [from |-> here, to |-> Stop.base, km |-> km, injected |-> FALSE]
<1>6. tr \in ByRouting /\ tr \in Transfers /\ tr.from = here /\ tr.to = Stop.base
    BY <1>1, <1>3, <1>5 DEF ByRouting, Transfers
<1>7. transfers' = Append(transfers, tr)
    BY <1>4
<1> HIDE DEF tr
<1>8. transfers' \in Seq(ByRouting)
    BY <1>2, <1>6, <1>7, AppendProperties
<1>9. AllHaveBases => LeadsTo(TripBases, MadeBefore \o transfers', here')
    <2> SUFFICES ASSUME AllHaveBases PROVE LeadsTo(TripBases, MadeBefore \o transfers', here')
        OBVIOUS
    <2> DEFINE made == MadeBefore \o transfers
    <2>1. LeadsTo(TripBases, made, here) /\ made \in Seq(Transfers)
        BY <1>2, InsideDay, ConcatProperties
    <2>2. MadeBefore \o transfers' = Append(made, tr)
        BY <1>2, <1>6, <1>7, AppendConcat
    <2>3. here' = tr.to
        BY <1>6
    <2> HIDE DEF made
    <2>4. LeadsTo(TripBases, Append(made, tr), tr.to)
        BY <1>3, <1>6, <2>1, OneMore
    <2> QED BY <2>2, <2>3, <2>4
<1>10. here' \in Nat \ {NoBase} /\ cluster' \in Nat \ {0}
    BY <1>1, <1>3
<1> QED BY <1>8, <1>9, <1>10, StillInside

LEMMA OvernightKeeps == ASSUME TransfersInv, Overnight PROVE TransfersInv'
<1> USE DEF Overnight
<1>1. /\ here \in Nat \ {NoBase} /\ Len(Assigned) \in Nat /\ transfers \in Seq(ByRouting)
      /\ AllHaveBases => LeadsTo(TripBases, MadeBefore \o transfers, here)
    BY InsideDay DEF TransfersTypes
<1>2. cluster' \in Nat \ {0}
    BY <1>1
<1> QED BY <1>1, <1>2, StillInside

LEMMA FinishDayKeeps == ASSUME TransfersInv, FinishDay PROVE TransfersInv'
<1> USE DEF FinishDay
<1> DEFINE d == [base |-> Assigned[1].base, transfers |-> transfers,
                 count |-> Len(transfers), km |-> Lengths(transfers)]
<1>1. /\ TransfersTypes /\ here \in Nat \ {NoBase} /\ Assigned[1].base \in Nat \cup {NoBase}
      /\ AllHaveBases => LeadsTo(TripBases, MadeBefore \o transfers, here)
    BY InsideDay
<1>2. /\ routed' = Append(routed, d) /\ previous_end_location' = here /\ routing' = "day"
      /\ trip' = trip /\ cluster' = cluster /\ transfers' = transfers /\ pair' = pair
      /\ last_active_base' \in {Assigned[1].base, last_active_base}
    BY DEF end_location
<1>3. transfers \in Seq(Transfers) /\ Kept(transfers, ByRouting) = transfers
    BY <1>1, RoutedFacts
<1>4. Len(transfers) \in Nat /\ Lengths(transfers) \in Nat
    BY <1>3, LenProperties, LengthsStep
<1>5. d \in DaysRouted /\ d.transfers = transfers
    BY <1>1, <1>3, <1>4 DEF DaysRouted
<1> HIDE DEF d
<1>6. routed' \in Seq(DaysRouted) /\ MadeBefore' = MadeBefore \o transfers
    BY <1>1, <1>2, <1>3, <1>5, DayAdded
<1>7. Made' = MadeBefore \o transfers /\ Place' = here
    BY <1>2, <1>6 DEF Made, Place
<1>8. TransfersTypes'
    BY <1>1, <1>2, <1>6 DEF TransfersTypes
<1>9. (AllHaveBases' <=> AllHaveBases) /\ TripBases' = TripBases
    BY <1>2 DEF AllHaveBases, TripBases
<1> QED BY <1>1, <1>2, <1>7, <1>8, <1>9 DEF TransfersInv, LeadsTo, OneChain

LEMMA AllRoutedKeeps == ASSUME TransfersInv, AllRouted PROVE TransfersInv'
<1> USE DEF AllRouted
<1>1. /\ TransfersTypes /\ routing = "day" /\ routing' = "between" /\ pair' = 1 /\ routed' = routed
      /\ trip' = trip /\ cluster' = cluster /\ transfers' = transfers
      /\ previous_end_location' = previous_end_location /\ last_active_base' = last_active_base
      /\ AllHaveBases => LeadsTo(TripBases, Made, Place)
    BY DEF TransfersInv
<1>2. Made' = Made /\ Place' = Place
    BY <1>1 DEF Made, Place, MadeBefore, KeptMoves
<1>3. TransfersTypes'
    BY <1>1 DEF TransfersTypes
<1>4. (AllHaveBases' <=> AllHaveBases) /\ TripBases' = TripBases
    BY <1>1 DEF AllHaveBases, TripBases
<1>5. \A e \in 1..(Len(routed) - 1) : ~(e < 1)
    BY <1>1, RoutedFacts
<1> QED BY <1>1, <1>2, <1>3, <1>4, <1>5 DEF TransfersInv, LeadsTo, OneChain

\* An injected transfer is counted, and is not one of those the routing made.
LEMMA InjectedDay ==
    ASSUME NEW d \in DaysRouted, NEW tr \in Transfers, tr.injected = TRUE
    PROVE  /\ Injected(d, tr) \in DaysRouted /\ Injected(d, tr).base = d.base
           /\ 1 \in DOMAIN Injected(d, tr).transfers /\ Injected(d, tr).transfers[1] = tr
           /\ Kept(Injected(d, tr).transfers, ByRouting) = Kept(d.transfers, ByRouting)
<1> DEFINE ts == d.transfers
           one == <<tr>>
           none == <<>>
           e == Injected(d, tr)
<1>1. /\ d \in [base : Nat \cup {NoBase}, transfers : Seq(Transfers), count : Nat, km : Nat]
      /\ d.count = Len(ts) /\ d.km = Lengths(ts)
    BY DEF DaysRouted
<1>2. ts \in Seq(Transfers) /\ tr.km \in Nat
    BY <1>1 DEF Transfers
<1>3. /\ one \o ts \in Seq(Transfers) /\ Len(one \o ts) = Len(ts) + 1 /\ Len(ts) \in Nat
      /\ (one \o ts)[1] = tr /\ Lengths(one \o ts) = tr.km + Lengths(ts) /\ Lengths(ts) \in Nat
    BY <1>2, LengthsFirst, LengthsStep
<1> HIDE DEF one
<1>4. e = [d EXCEPT !.transfers = one \o ts, !.count = d.count + 1, !.km = d.km + tr.km]
    BY DEF Injected, one
<1> HIDE DEF e
<1>5. /\ e \in [base : Nat \cup {NoBase}, transfers : Seq(Transfers), count : Nat, km : Nat]
      /\ e.base = d.base /\ e.transfers = one \o ts
      /\ e.count = d.count + 1 /\ e.km = d.km + tr.km
    <2> DEFINE us == one \o ts
               n == d.count + 1
               m == d.km + tr.km
    <2>1. us \in Seq(Transfers) /\ n \in Nat /\ m \in Nat
        BY <1>1, <1>2, <1>3
    <2>2. e = [d EXCEPT !.transfers = us, !.count = n, !.km = m]
        BY <1>4
    <2> HIDE DEF us, n, m
    <2>3. /\ e \in [base : Nat \cup {NoBase}, transfers : Seq(Transfers), count : Nat, km : Nat]
          /\ e.base = d.base /\ e.transfers = us /\ e.count = n /\ e.km = m
        BY <1>1, <2>1, <2>2
    <2> QED BY <2>3 DEF us, n, m
<1>6. e.count = Len(e.transfers) /\ e.km = Lengths(e.transfers)
    BY <1>1, <1>2, <1>3, <1>5
<1>7. e \in DaysRouted
    BY <1>5, <1>6 DEF DaysRouted
<1>8. 1 \in DOMAIN e.transfers
    <2>1. DOMAIN (one \o ts) = 1..Len(one \o ts)
        BY <1>3, LenProperties
    <2> QED BY <1>3, <1>5, <2>1
<1>9. Kept(one \o ts, ByRouting) = Kept(ts, ByRouting)
    <2>1. one \in Seq(Transfers) /\ one = Append(none, tr) /\ none \in Seq(Transfers)
        BY EmptySeq DEF one
    <2>2. tr \notin ByRouting
        BY DEF ByRouting
    <2>3. Kept(none, ByRouting) = none
        BY KeptStep
    <2> HIDE DEF none
    <2>4. Kept(one, ByRouting) = none
        BY <2>1, <2>2, <2>3, KeptAppend
    <2>5. Kept(one \o ts, ByRouting) = Kept(one, ByRouting) \o Kept(ts, ByRouting)
        <3> HIDE DEF ts
        <3>1. \A t \in Seq(Transfers) :
                  Kept(one \o t, ByRouting) = Kept(one, ByRouting) \o Kept(t, ByRouting)
            BY <2>1, KeptConcat
        <3> QED BY <1>2, <3>1
    <2>6. Kept(ts, ByRouting) \in Seq(Transfers)
        BY <1>2, KeptStep
    <2>7. none \o Kept(ts, ByRouting) = Kept(ts, ByRouting)
        BY <2>6, ConcatEmptySeq DEF none
    <2> QED BY <2>4, <2>5, <2>7
<1> QED BY <1>3, <1>5, <1>7, <1>8, <1>9 DEF e

LEMMA InjectKeeps ==
    ASSUME TransfersInv, _inject_intercity_transfers_between_days PROVE TransfersInv'
<1> USE DEF _inject_intercity_transfers_between_days
<1> DEFINE N == Len(routed)
           x == routed[pair].base
           y == routed[pair + 1].base
<1>1. /\ TransfersTypes /\ routing = "between" /\ routing' = "between" /\ pair < N /\ pair' = pair + 1
      /\ trip' = trip /\ cluster' = cluster /\ transfers' = transfers
      /\ previous_end_location' = previous_end_location /\ last_active_base' = last_active_base
      /\ AllHaveBases => LeadsTo(TripBases, Made, Place)
      /\ \A d \in 1..(N - 1) : d < pair => HasLongTransfer(routed[d], routed[d + 1])
    BY DEF TransfersInv
<1>2. /\ N \in Nat /\ DOMAIN routed = 1..N /\ \A d \in 1..N : routed[d] \in DaysRouted
      /\ pair \in Nat \ {0} /\ routed \in Seq(DaysRouted)
    BY <1>1, RoutedFacts DEF TransfersTypes
<1>3. pair \in 1..N /\ pair + 1 \in 1..N /\ pair # pair + 1
    BY <1>1, <1>2
<1> HIDE DEF N
<1>4. routed[pair] \in DaysRouted /\ routed[pair + 1] \in DaysRouted
    BY <1>2, <1>3
<1> DEFINE Result == /\ routed' \in Seq(DaysRouted) /\ Len(routed') = N /\ DOMAIN routed' = 1..N
                     /\ \A d \in 1..N : d # pair + 1 => routed'[d] = routed[d]
                     /\ routed'[pair + 1].base = y
                     /\ \A d \in 1..N : Kept(routed'[d].transfers, ByRouting) = Kept(routed[d].transfers, ByRouting)
                     /\ HasLongTransfer(routed[pair], routed'[pair + 1])
<1>5. ASSUME ~BasesDiffer, routed' = routed PROVE Result
    <2>1. HasLongTransfer(routed[pair], routed[pair + 1])
        BY <1>5 DEF BasesDiffer, HasLongTransfer
    <2> QED BY <1>2, <1>3, <1>5, <2>1 DEF N
<1>6. ASSUME BasesDiffer, NEW km \in InjectedLengths(x, y),
             routed' = IF Listed(routed[pair + 1].transfers, km) THEN routed
                       ELSE [routed EXCEPT ![pair + 1] =
                                Injected(@, [from |-> x, to |-> y, km |-> km, injected |-> TRUE])]
      PROVE  Result
    <2>1. x \in Nat /\ y \in Nat
        BY <1>4, <1>6 DEF BasesDiffer, DaysRouted
    <2>2. km \in Nat /\ Straight(x, y) \in Nat /\ km >= Straight(x, y)
        <3> HIDE DEF x, y
        <3>1. Straight(x, y) \in Nat /\ \A k \in Answers(x, y) : k \in Nat /\ k >= Straight(x, y)
            BY <2>1, AnswersAtLeast
        <3>2. km = Straight(x, y) \/ km \in Answers(x, y)
            BY <1>6 DEF InjectedLengths
        <3> QED BY <3>1, <3>2
    <2>3. CASE Listed(routed[pair + 1].transfers, km)
        <3>1. PICK i \in DOMAIN routed[pair + 1].transfers : Straight(routed[pair + 1].transfers[i].km, km) < Kilometre
            BY <2>3 DEF Listed
        <3> DEFINE k == routed[pair + 1].transfers[i].km
        <3>2. k \in Nat
            <4> DEFINE ts == routed[pair + 1].transfers
            <4>1. ts \in Seq(Transfers)
                BY <1>4 DEF DaysRouted
            <4> HIDE DEF ts
            <4>2. ts[i] \in Transfers
                BY <3>1, <4>1, LenProperties, ElementOfSeq DEF ts
            <4> QED BY <4>2 DEF Transfers, ts
        <3>3. k + Kilometre > Straight(x, y)
            <4> DEFINE far == Straight(x, y)
            <4>1. Straight(k, km) < Kilometre /\ far \in Nat /\ km >= far
                BY <2>2, <3>1
            <4> HIDE DEF k, far
            <4>2. k + Kilometre > km
                BY <2>2, <3>2, <4>1 DEF Straight, Kilometre
            <4>3. k + Kilometre > far
                BY <2>2, <3>2, <4>1, <4>2 DEF Kilometre
            <4> QED BY <4>3 DEF far
        <3>4. HasLongTransfer(routed[pair], routed[pair + 1])
            BY <3>1, <3>3 DEF HasLongTransfer
        <3>5. routed' = routed
            BY <1>6, <2>3
        <3> QED BY <1>2, <1>3, <3>4, <3>5 DEF N
    <2>4. CASE ~Listed(routed[pair + 1].transfers, km)
        <3> DEFINE tr == [from |-> x, to |-> y, km |-> km, injected |-> TRUE]
                   e == Injected(routed[pair + 1], tr)
        <3>1. tr \in Transfers /\ tr.injected = TRUE /\ tr.km = km
            BY <2>1, <2>2 DEF Transfers
        <3>2. routed' = [routed EXCEPT ![pair + 1] = e]
            BY <1>6, <2>4
        <3> HIDE DEF tr
        <3>3. /\ e \in DaysRouted /\ e.base = y
              /\ 1 \in DOMAIN e.transfers /\ e.transfers[1] = tr
              /\ Kept(e.transfers, ByRouting) = Kept(routed[pair + 1].transfers, ByRouting)
            BY <1>4, <3>1, InjectedDay
        <3> HIDE DEF e
        <3>4. routed' \in Seq(DaysRouted) /\ Len(routed') = N
            BY <1>2, <1>3, <3>2, <3>3, ExceptSeq DEF N
        <3>5. /\ \A d \in 1..N : d # pair + 1 => routed'[d] = routed[d]
              /\ routed'[pair + 1] = e
            BY <1>2, <1>3, <3>2
        <3>6. DOMAIN routed' = 1..N
            BY <1>2, <3>2
        <3>7. HasLongTransfer(routed[pair], e)
            <4>1. tr.km + Kilometre > Straight(x, y)
                <5> DEFINE far == Straight(x, y)
                <5>1. far \in Nat /\ km >= far /\ km \in Nat
                    BY <2>2
                <5> HIDE DEF far
                <5>2. km + Kilometre > far
                    BY <5>1 DEF Kilometre
                <5> QED BY <3>1, <5>2 DEF far
            <4> QED BY <3>3, <4>1 DEF HasLongTransfer
        <3>8. \A d \in 1..N : Kept(routed'[d].transfers, ByRouting) = Kept(routed[d].transfers, ByRouting)
            BY <3>3, <3>5
        <3> QED BY <3>3, <3>4, <3>5, <3>6, <3>7, <3>8
    <2> QED BY <2>3, <2>4
<1>7. Result
    <2>1. CASE BasesDiffer
        <3>1. PICK km \in InjectedLengths(x, y) :
                  routed' = IF Listed(routed[pair + 1].transfers, km) THEN routed
                            ELSE [routed EXCEPT ![pair + 1] =
                                     Injected(@, [from |-> x, to |-> y, km |-> km, injected |-> TRUE])]
            BY <2>1
        <3> HIDE DEF Result
        <3> QED BY <1>6, <2>1, <3>1
    <2> QED BY <1>5, <2>1
<1>8. Made' = Made /\ Place' = Place
    <2>1. KeptMoves(routed)' = KeptMoves(routed)
        BY <1>2, <1>7 DEF KeptMoves
    <2> QED BY <1>1, <2>1 DEF Made, Place, MadeBefore
<1>9. \A d \in 1..(N - 1) : d < pair + 1 => HasLongTransfer(routed'[d], routed'[d + 1])
    <2> SUFFICES ASSUME NEW d \in 1..(N - 1), d < pair + 1
                 PROVE  HasLongTransfer(routed'[d], routed'[d + 1])
        OBVIOUS
    <2>1. d \in 1..N /\ d + 1 \in 1..N /\ d # pair + 1
        BY <1>2
    <2>2. routed'[d] = routed[d]
        BY <1>7, <2>1
    <2>3. CASE d = pair
        BY <1>7, <2>2, <2>3
    <2>4. CASE d < pair
        <3>1. d + 1 # pair + 1
            BY <1>2, <2>4
        <3>2. routed'[d + 1] = routed[d + 1]
            BY <1>7, <2>1, <3>1
        <3> QED BY <1>1, <2>2, <2>4, <3>2
    <2> QED BY <1>2, <2>3, <2>4
<1>10. TransfersTypes'
    <2>1. pair' \in Nat \ {0}
        BY <1>1, <1>2
    <2> QED BY <1>1, <1>7, <2>1 DEF TransfersTypes
<1>11. (AllHaveBases' <=> AllHaveBases) /\ TripBases' = TripBases
    BY <1>1 DEF AllHaveBases, TripBases
<1>12. /\ routing' = "between" /\ pair' = pair + 1 /\ Len(routed') = N
       /\ AllHaveBases => LeadsTo(TripBases, Made', Place')
    BY <1>1, <1>7, <1>8
<1> HIDE DEF Result
<1> QED BY <1>9, <1>10, <1>11, <1>12 DEF TransfersInv, LeadsTo, OneChain, HasLongTransfer

LEMMA MetricsKeeps == ASSUME TransfersInv, calculate_enhanced_metrics PROVE TransfersInv'
<1> USE DEF calculate_enhanced_metrics
<1>1. /\ TransfersTypes /\ routing = "between" /\ routing' = "done" /\ pair >= Len(routed)
      /\ trip' = trip /\ cluster' = cluster /\ transfers' = transfers /\ routed' = routed /\ pair' = pair
      /\ previous_end_location' = previous_end_location /\ last_active_base' = last_active_base
      /\ AllHaveBases => LeadsTo(TripBases, Made, Place)
      /\ \A d \in 1..(Len(routed) - 1) : d < pair => HasLongTransfer(routed[d], routed[d + 1])
    BY DEF TransfersInv
<1>2. Made' = Made /\ Place' = Place
    BY <1>1 DEF Made, Place, MadeBefore, KeptMoves
<1>3. /\ metrics'.detected = SumOf(Counts(routed')) /\ metrics'.km = SumOf(Kms(routed'))
      /\ metrics'.listed = Joined(Moves(routed'))
    BY <1>1 DEF Counts, Kms, Moves
<1>4. TransfersTypes'
    BY <1>1 DEF TransfersTypes
<1>5. (AllHaveBases' <=> AllHaveBases) /\ TripBases' = TripBases
    BY <1>1 DEF AllHaveBases, TripBases
<1>6. /\ routing' = "done" /\ pair' = pair /\ routed' = routed /\ pair >= Len(routed)
      /\ AllHaveBases => LeadsTo(TripBases, Made', Place')
      /\ \A d \in 1..(Len(routed) - 1) : d < pair => HasLongTransfer(routed[d], routed[d + 1])
    BY <1>1, <1>2
<1> HIDE DEF calculate_enhanced_metrics
<1> QED BY <1>3, <1>4, <1>5, <1>6
        DEF TransfersInv, LeadsTo, OneChain, HasLongTransfer, Counts, Kms, Moves

LEMMA TransfersStepKeeps == TransfersInv /\ [TransfersNext]_transferVars => TransfersInv'
<1> SUFFICES ASSUME TransfersInv, [TransfersNext]_transferVars PROVE TransfersInv'
    OBVIOUS
<1>1. CASE UNCHANGED transferVars
    <2>1. /\ trip' = trip /\ routing' = routing /\ cluster' = cluster /\ here' = here
          /\ previous_end_location' = previous_end_location /\ last_active_base' = last_active_base
          /\ transfers' = transfers /\ routed' = routed /\ pair' = pair /\ metrics' = metrics
        BY <1>1 DEF transferVars
    <2>2. TransfersTypes' <=> TransfersTypes
        BY <2>1 DEF TransfersTypes, Assigned, day
    <2>3. Made' = Made /\ Place' = Place /\ (AllHaveBases' <=> AllHaveBases)
          /\ TripBases' = TripBases
        BY <2>1 DEF Made, Place, MadeBefore, KeptMoves, AllHaveBases, TripBases
    <2>4. Counts(routed)' = Counts(routed) /\ Kms(routed)' = Kms(routed) /\ Moves(routed)' = Moves(routed)
        BY <2>1 DEF Counts, Kms, Moves
    <2> QED BY <2>1, <2>2, <2>3, <2>4 DEF TransfersInv, LeadsTo, OneChain, HasLongTransfer
<1> QED BY <1>1, FreeDayKeeps, BeginDayKeeps, RouteHereKeeps, ShortDriveKeeps, TravelKeeps, OvernightKeeps,
           FinishDayKeeps, AllRoutedKeeps, InjectKeeps, MetricsKeeps DEF TransfersNext

LEMMA TransfersInvImplies == TransfersInv => OneJourney /\ MetricsAgree
<1> SUFFICES ASSUME TransfersInv, routing = "done"
             PROVE  /\ AllHaveBases => OneChain(TripBases, Kept(metrics.listed, ByRouting))
                    /\ MetricsAgree
    BY DEF OneJourney, MetricsAgree, OneChain
<1>1. /\ TransfersTypes /\ pair >= Len(routed)
      /\ metrics.detected = SumOf(Counts(routed)) /\ metrics.km = SumOf(Kms(routed))
      /\ metrics.listed = Joined(Moves(routed))
      /\ AllHaveBases => LeadsTo(TripBases, Made, Place)
      /\ \A d \in 1..(Len(routed) - 1) : d < pair => HasLongTransfer(routed[d], routed[d + 1])
    BY DEF TransfersInv
<1>2. routed \in Seq(DaysRouted) /\ Len(routed) \in Nat /\ pair \in Nat
    BY <1>1, RoutedFacts DEF TransfersTypes
<1>3. Kept(metrics.listed, ByRouting) = Made
    BY <1>1, <1>2, KeptOfAll DEF Made, MadeBefore
<1>4. metrics.detected = Len(metrics.listed) /\ metrics.km = Lengths(metrics.listed)
    BY <1>1, <1>2, SummariesAgree
<1>5. FarBaseHasTransfer
    <2> SUFFICES ASSUME NEW d \in 1..(Len(routed) - 1)
                 PROVE  HasLongTransfer(routed[d], routed[d + 1])
        BY DEF FarBaseHasTransfer, HasLongTransfer
    <2>1. d < pair
        BY <1>1, <1>2
    <2> QED BY <1>1, <2>1
<1> QED BY <1>1, <1>3, <1>4, <1>5 DEF LeadsTo, MetricsAgree

\* Where every cluster has a base, the journeys that the routing makes are one
\* journey, each beginning where the one before ended or where drives too short to
\* be listed led from there: over free days, days in several places and transfers
\* lost to the night, whatever the days are and however short "too short" is.
THEOREM JourneysConnect == TransfersSpec => []OneJourney
<1>1. TransfersInit => TransfersInv
    BY TransfersInitial
<1>2. TransfersInv /\ [TransfersNext]_transferVars => TransfersInv'
    BY TransfersStepKeeps
<1>3. TransfersInv => OneJourney
    BY TransfersInvImplies
<1> QED BY <1>1, <1>2, <1>3, PTL DEF TransfersSpec

\* The number and kilometres in the metrics, added up from the summaries of the
\* days, are those of the transfers they list, and every far change of base has
\* its transfer, as long but for a kilometre, for any number of days and journeys.
THEOREM MetricsAddUp == TransfersSpec => []MetricsAgree
<1>1. TransfersInit => TransfersInv
    BY TransfersInitial
<1>2. TransfersInv /\ [TransfersNext]_transferVars => TransfersInv'
    BY TransfersStepKeeps
<1>3. TransfersInv => MetricsAgree
    BY TransfersInvImplies
<1> QED BY <1>1, <1>2, <1>3, PTL DEF TransfersSpec

-----------------------------------------------------------------------------
(***************************************************************************)
(* ClassicPlan: the inductive invariant says of each stage what is already *)
(* arranged: clusters that have every place once, clusters with bases,     *)
(* days that have every place once. What the days hold is the joined list  *)
(* of their clusters' places, so that each loop of the method is a list    *)
(* induction (dealing: DealtCovers, compact packing: CompactCovers).       *)
(***************************************************************************)


\* The places of a list of clusters, in order.
PlacesOf(ps) == Joined([k \in DOMAIN ps |-> ps[k].places])

\* The days' clusters have each place of S once.
Covers(ds, S) == /\ IsInjective(PlacesOf(Joined(ds)))
                 /\ ToSet(PlacesOf(Joined(ds))) = S

\* They are joined cluster by cluster.
LEMMA PlacesFlat ==
    ASSUME NEW Q, \A c \in Q : c.places \in Seq(Nat)
    PROVE  \E F \in [Q -> Seq(Nat)] : /\ \A c \in Q : F[c] = c.places
                                      /\ \A ps \in Seq(Q) : PlacesOf(ps) = Flat(F, ps)
<1> DEFINE F == [c \in Q |-> c.places]
<1>1. F \in [Q -> Seq(Nat)] /\ \A c \in Q : F[c] = c.places
    OBVIOUS
<1>2. ASSUME NEW ps, ps \in Seq(Q) PROVE PlacesOf(ps) = Flat(F, ps)
    <2>1. \A k \in DOMAIN ps : ps[k] \in Q
        BY <1>2, LenProperties, ElementOfSeq
    <2>2. \A k \in DOMAIN ps : F[ps[k]] = ps[k].places
        BY <1>1, <2>1
    <2> HIDE DEF F
    <2>3. [k \in DOMAIN ps |-> F[ps[k]]] = [k \in DOMAIN ps |-> ps[k].places]
        BY <2>2
    <2> QED BY <2>3 DEF PlacesOf, Flat
<1> HIDE DEF F
<1> QED BY <1>1, <1>2

\* Their places with one cluster more.
LEMMA PlacesStep ==
    ASSUME NEW Q, \A c \in Q : c.places \in Seq(Nat)
    PROVE  /\ PlacesOf(<<>>) = <<>>
           /\ \A ps \in Seq(Q) : PlacesOf(ps) \in Seq(Nat)
           /\ \A ps \in Seq(Q), c \in Q : PlacesOf(Append(ps, c)) = PlacesOf(ps) \o c.places
<1>1. PICK F \in [Q -> Seq(Nat)] : /\ \A c \in Q : F[c] = c.places
                                   /\ \A ps \in Seq(Q) : PlacesOf(ps) = Flat(F, ps)
    BY PlacesFlat
<1>2. /\ Flat(F, <<>>) = <<>>
      /\ \A ps \in Seq(Q) : Flat(F, ps) \in Seq(Nat)
      /\ \A ps \in Seq(Q), c \in Q : Flat(F, Append(ps, c)) = Flat(F, ps) \o F[c]
    BY FlatStep DEF Lister
<1>3. <<>> \in Seq(Q)
    BY EmptySeq
<1>4. \A ps \in Seq(Q), c \in Q : Append(ps, c) \in Seq(Q)
    BY AppendProperties
<1> QED BY <1>1, <1>2, <1>3, <1>4

\* The places of joined lists of clusters are the joined lists of places.
LEMMA PlacesJoined ==
    ASSUME NEW Q, \A c \in Q : c.places \in Seq(Nat), NEW ss, ss \in Seq(Seq(Q)),
           NEW v, v \in [DOMAIN ss -> Seq(Nat)], \A i \in DOMAIN ss : v[i] = PlacesOf(ss[i])
    PROVE  PlacesOf(Joined(ss)) = Joined(v)
<1>1. PICK F \in [Q -> Seq(Nat)] : /\ \A c \in Q : F[c] = c.places
                                   /\ \A ps \in Seq(Q) : PlacesOf(ps) = Flat(F, ps)
    BY PlacesFlat
<1>2. \A i \in DOMAIN ss : ss[i] \in Seq(Q)
    BY LenProperties, ElementOfSeq
<1>3. \A i \in DOMAIN ss : v[i] = Flat(F, ss[i])
    BY <1>1, <1>2
<1>4. Flats(F, ss) = v
    <2>1. v = [i \in DOMAIN ss |-> v[i]]
        OBVIOUS
    <2> QED BY <1>3, <2>1 DEF Flats
<1>5. Flat(F, Joined(ss)) = Joined(Flats(F, ss))
    <2>1. Lister(F, Q, Nat)
        BY DEF Lister
    <2> QED BY <2>1, FlatJoined
<1>6. Joined(ss) \in Seq(Q)
    BY JoinedStep
<1> QED BY <1>1, <1>4, <1>5, <1>6

\* A day more or fewer, in whatever order: the days cover what each of them has, if
\* no day has anything twice and no two days have anything in common.
LEMMA CoversApart ==
    ASSUME NEW Q, \A c \in Q : c.places \in Seq(Nat), NEW ds, ds \in Seq(Seq(Q)), NEW S
    PROVE  /\ \A d \in DOMAIN ds : PlacesOf(ds[d]) \in Seq(Nat)
           /\ Covers(ds, S) <=>
                  /\ S = UNION {ToSet(PlacesOf(ds[d])) : d \in DOMAIN ds}
                  /\ \A d \in DOMAIN ds : IsInjective(PlacesOf(ds[d]))
                  /\ \A d, e \in DOMAIN ds :
                         d # e => ToSet(PlacesOf(ds[d])) \cap ToSet(PlacesOf(ds[e])) = {}
<1> DEFINE v == [d \in DOMAIN ds |-> PlacesOf(ds[d])]
<1>1. \A d \in DOMAIN ds : ds[d] \in Seq(Q)
    BY LenProperties, ElementOfSeq
<1>2. \A d \in DOMAIN ds : PlacesOf(ds[d]) \in Seq(Nat)
    BY <1>1, PlacesStep
<1>3. v \in [DOMAIN ds -> Seq(Nat)] /\ \A d \in DOMAIN ds : v[d] = PlacesOf(ds[d])
    BY <1>2
<1>4. v \in Seq(Seq(Nat))
    <2> DEFINE Y == Seq(Nat)
               n == Len(ds)
    <2>1. DOMAIN ds = 1..n /\ n \in Nat
        BY LenProperties
    <2> HIDE DEF v, Y, n
    <2>2. v \in [1..n -> Y]
        BY <1>3, <2>1 DEF Y
    <2> HIDE <1>3
    <2>3. v \in Seq(Y)
        BY <2>1, <2>2
    <2> QED BY <2>3 DEF Y
<1>5. DOMAIN v = DOMAIN ds
    OBVIOUS
<1> HIDE DEF v
<1>6. PlacesOf(Joined(ds)) = Joined(v)
    BY <1>3, PlacesJoined
<1>7. /\ ToSet(Joined(v)) = UNION {ToSet(v[d]) : d \in DOMAIN v}
      /\ IsInjective(Joined(v)) <=>
             /\ \A d \in DOMAIN v : IsInjective(v[d])
             /\ \A d, e \in DOMAIN v : d # e => ToSet(v[d]) \cap ToSet(v[e]) = {}
    BY <1>4, JoinedElements
<1>8. UNION {ToSet(v[d]) : d \in DOMAIN v} = UNION {ToSet(PlacesOf(ds[d])) : d \in DOMAIN ds}
    BY <1>3, <1>5
<1>9. /\ (\A d \in DOMAIN v : IsInjective(v[d])) <=> \A d \in DOMAIN ds : IsInjective(PlacesOf(ds[d]))
      /\ (\A d, e \in DOMAIN v : d # e => ToSet(v[d]) \cap ToSet(v[e]) = {}) <=>
         \A d, e \in DOMAIN ds : d # e => ToSet(PlacesOf(ds[d])) \cap ToSet(PlacesOf(ds[e])) = {}
    BY <1>3, <1>5
<1> QED BY <1>2, <1>6, <1>7, <1>8, <1>9 DEF Covers

\* A cluster more on one of the days.
Added(es, ds, d, c, Q) ==
    /\ es \in Seq(Seq(Q)) /\ DOMAIN es = DOMAIN ds
    /\ es[d] = Append(ds[d], c)
    /\ \A e \in DOMAIN ds : e # d => es[e] = ds[e]

LEMMA AddTyped ==
    ASSUME NEW Q, NEW ds, ds \in Seq(Seq(Q)), NEW d \in DOMAIN ds, NEW c \in Q
    PROVE  Added(AddTo(ds, d, c), ds, d, c, Q)
<1> DEFINE Y == Seq(Q)
           es == AddTo(ds, d, c)
           x == Append(ds[d], c)
<1>1. \A e \in DOMAIN ds : ds[e] \in Y
    BY LenProperties, ElementOfSeq
<1>2. x \in Y
    BY <1>1, AppendProperties
<1>3. es = [ds EXCEPT ![d] = x]
    BY DEF AddTo
<1>4. ds \in Seq(Y) /\ DOMAIN ds = 1..Len(ds) /\ d \in 1..Len(ds)
    BY LenProperties
<1> HIDE DEF x, Y, es
<1>5. es \in Seq(Y) /\ Len(es) = Len(ds)
    BY <1>2, <1>3, <1>4, ExceptSeq
<1>6. DOMAIN es = DOMAIN ds /\ es[d] = x /\ \A e \in DOMAIN ds : e # d => es[e] = ds[e]
    BY <1>3
<1> QED BY <1>5, <1>6 DEF x, Y, es, Added

\* The days cover what they did and the new cluster.
LEMMA AddCovers ==
    ASSUME NEW Q, \A c \in Q : c.places \in Seq(Nat),
           NEW ds, ds \in Seq(Seq(Q)), NEW d \in DOMAIN ds, NEW c \in Q
    PROVE  /\ AddTo(ds, d, c) \in Seq(Seq(Q)) /\ DOMAIN AddTo(ds, d, c) = DOMAIN ds
           /\ \A e \in DOMAIN ds : e # d => AddTo(ds, d, c)[e] = ds[e]
           /\ AddTo(ds, d, c)[d] = Append(ds[d], c)
           /\ \A S : (Covers(ds, S) /\ IsInjective(c.places) /\ S \cap ToSet(c.places) = {})
                         => Covers(AddTo(ds, d, c), S \cup ToSet(c.places))
<1> DEFINE Y == Seq(Q)
           es == AddTo(ds, d, c)
<1>1. \A e \in DOMAIN ds : ds[e] \in Y
    BY LenProperties, ElementOfSeq
<1>3. /\ es \in Seq(Y) /\ DOMAIN es = DOMAIN ds /\ es[d] = Append(ds[d], c)
      /\ \A e \in DOMAIN ds : e # d => es[e] = ds[e]
    BY AddTyped DEF Added
<1> DEFINE old == PlacesOf(ds[d])
           new == PlacesOf(es[d])
<1>4. new = old \o c.places /\ old \in Seq(Nat) /\ c.places \in Seq(Nat)
    <2>1. ds[d] \in Seq(Q)
        BY <1>1
    <2>2. PlacesOf(Append(ds[d], c)) = PlacesOf(ds[d]) \o c.places /\ PlacesOf(ds[d]) \in Seq(Nat)
        BY <2>1, PlacesStep
    <2> QED BY <1>3, <2>2
<1>5. /\ ToSet(new) = ToSet(old) \cup ToSet(c.places)
      /\ IsInjective(new) <=> /\ IsInjective(old) /\ IsInjective(c.places)
                              /\ ToSet(old) \cap ToSet(c.places) = {}
    <2> DEFINE p == c.places
    <2> HIDE DEF p, old, new
    <2> QED BY <1>4, ConcatElements DEF p
<1>6. ASSUME NEW S, Covers(ds, S), IsInjective(c.places), S \cap ToSet(c.places) = {}
      PROVE  Covers(es, S \cup ToSet(c.places))
    <2>1. /\ S = UNION {ToSet(PlacesOf(ds[e])) : e \in DOMAIN ds}
          /\ \A e \in DOMAIN ds : IsInjective(PlacesOf(ds[e]))
          /\ \A e, f \in DOMAIN ds :
                 e # f => ToSet(PlacesOf(ds[e])) \cap ToSet(PlacesOf(ds[f])) = {}
        BY <1>6, CoversApart
    <2> HIDE DEF es
    <2>2. \A e \in DOMAIN ds : e # d => PlacesOf(es[e]) = PlacesOf(ds[e])
        BY <1>3
    <2>3. \A e \in DOMAIN ds : ToSet(PlacesOf(ds[e])) \cap ToSet(c.places) = {}
        BY <1>6, <2>1
    <2>4. IsInjective(new) /\ ToSet(new) = ToSet(old) \cup ToSet(c.places)
        BY <1>5, <1>6, <2>1, <2>3
    <2>5. \A e \in DOMAIN es : IsInjective(PlacesOf(es[e]))
        BY <1>3, <2>1, <2>2, <2>4
    <2>6. \A e \in DOMAIN ds : e # d => ToSet(PlacesOf(es[e])) \cap ToSet(new) = {}
        BY <2>1, <2>2, <2>3, <2>4
    <2>7. \A e, f \in DOMAIN es : e # f => ToSet(PlacesOf(es[e])) \cap ToSet(PlacesOf(es[f])) = {}
        <3> SUFFICES ASSUME NEW e \in DOMAIN ds, NEW f \in DOMAIN ds, e # f
                     PROVE  ToSet(PlacesOf(es[e])) \cap ToSet(PlacesOf(es[f])) = {}
            BY <1>3
        <3>1. CASE e = d
            BY <3>1, <2>6
        <3>2. CASE f = d
            BY <3>2, <2>6
        <3>3. CASE e # d /\ f # d
            BY <3>3, <2>1, <2>2
        <3> QED BY <3>1, <3>2, <3>3
    <2>8. S \cup ToSet(c.places) = UNION {ToSet(PlacesOf(es[e])) : e \in DOMAIN es}
        <3> HIDE DEF new, old
        <3>1. ASSUME NEW p, p \in S PROVE \E e \in DOMAIN es : p \in ToSet(PlacesOf(es[e]))
            <4>1. PICK e \in DOMAIN ds : p \in ToSet(PlacesOf(ds[e]))
                BY <3>1, <2>1
            <4>2. CASE e = d
                BY <4>1, <4>2, <1>3, <2>4 DEF new, old
            <4>3. CASE e # d
                BY <4>1, <4>3, <1>3, <2>2
            <4> QED BY <4>2, <4>3
        <3>2. ASSUME NEW p, p \in ToSet(c.places) PROVE \E e \in DOMAIN es : p \in ToSet(PlacesOf(es[e]))
            BY <3>2, <1>3, <2>4 DEF new
        <3>3. ASSUME NEW e \in DOMAIN es PROVE ToSet(PlacesOf(es[e])) \subseteq S \cup ToSet(c.places)
            BY <1>3, <2>1, <2>2, <2>4 DEF new, old
        <3> QED BY <3>1, <3>2, <3>3
    <2>9. es \in Seq(Seq(Q))
        BY <1>3
    <2> DEFINE U == S \cup ToSet(c.places)
    <2> HIDE DEF U
    <2>10. U = UNION {ToSet(PlacesOf(es[e])) : e \in DOMAIN es}
        BY <2>8 DEF U
    <2>11. Covers(es, U)
        BY <2>5, <2>7, <2>9, <2>10, CoversApart
    <2> QED BY <2>11 DEF U
<1> QED BY <1>3, <1>6

\* There is a first one of the least loaded days.
LEMMA LeastLoadedIsDay ==
    ASSUME NEW Q, NEW ds, ds \in Seq(Seq(Q)), DOMAIN ds # {}
    PROVE  LeastLoaded(ds) \in DOMAIN ds
<1> DEFINE D == DOMAIN ds
           L == {Len(ds[d]) : d \in D}
<1>1. D \subseteq Nat /\ \A d \in D : Len(ds[d]) \in Nat
    <2>1. D = 1..Len(ds) /\ Len(ds) \in Nat
        BY LenProperties
    <2>2. \A d \in D : ds[d] \in Seq(Q)
        BY LenProperties, ElementOfSeq
    <2>3. \A d \in D : Len(ds[d]) \in Nat
        BY <2>2, LenProperties
    <2> QED BY <2>1, <2>3
<1>2. L \subseteq Nat /\ L # {}
    BY <1>1
<1>3. PICK m \in L : \A n \in L : m <= n
    <2> HIDE DEF L
    <2> QED BY <1>2, LeastNumber
<1> DEFINE M == {d \in D : Len(ds[d]) = m}
<1>4. M \subseteq Nat /\ M # {}
    BY <1>1, <1>3
<1>5. PICK d \in M : \A e \in M : d <= e
    <2> HIDE DEF M
    <2> QED BY <1>4, LeastNumber
<1>6. \A e \in D : /\ Len(ds[d]) <= Len(ds[e])
                   /\ e < d => Len(ds[d]) < Len(ds[e])
    <2> SUFFICES ASSUME NEW e \in D
                 PROVE  /\ Len(ds[d]) <= Len(ds[e])
                        /\ e < d => Len(ds[d]) < Len(ds[e])
        OBVIOUS
    <2>1. Len(ds[d]) = m /\ m <= Len(ds[e]) /\ m \in Nat /\ Len(ds[e]) \in Nat
        BY <1>1, <1>2, <1>3, <1>5
    <2>2. Len(ds[e]) = m => d <= e
        BY <1>5
    <2>3. d \in Nat /\ e \in Nat
        BY <1>1, <1>5
    <2> QED BY <2>1, <2>2, <2>3
<1>7. d \in D
    BY <1>5
<1> QED BY <1>6, <1>7 DEF LeastLoaded

\* What is dealt: clusters with lists of places, days to put them on, turns that name
\* a day or leave it to the load.
PartSet(Q) == \A c \in Q : c.places \in Seq(Nat)
DayLists(ds, Q) == ds \in Seq(Seq(Q)) /\ DOMAIN ds # {}
TurnSet(Y, Q, ds) == Y \subseteq [part : Q, day : DOMAIN ds \cup {Least}]

\* A turn is an addition to one of the days.
LEMMA TurnAdds ==
    ASSUME NEW Q, NEW ds, DayLists(ds, Q), NEW Y, TurnSet(Y, Q, ds), NEW t, t \in Y
    PROVE  t.part \in Q /\ \E d \in DOMAIN ds : AddTurn(ds, t) = AddTo(ds, d, t.part)
<1>1. LeastLoaded(ds) \in DOMAIN ds
    BY LeastLoadedIsDay DEF DayLists
<1>2. t.day \in DOMAIN ds \cup {Least} /\ t.part \in Q
    BY DEF TurnSet
<1> DEFINE d == IF t.day = Least THEN LeastLoaded(ds) ELSE t.day
<1>3. d \in DOMAIN ds
    BY <1>1, <1>2
<1>4. AddTurn(ds, t) = AddTo(ds, d, t.part)
    BY DEF AddTurn
<1> QED BY <1>2, <1>3, <1>4

\* The days, dealt to turn by turn.
LEMMA DealtStep ==
    ASSUME NEW Q, NEW ds, DayLists(ds, Q), NEW Y, TurnSet(Y, Q, ds)
    PROVE  /\ Dealt(ds, <<>>) = ds
           /\ \A s \in Seq(Y) : Dealt(ds, s) \in Seq(Seq(Q)) /\ DOMAIN Dealt(ds, s) = DOMAIN ds
           /\ \A s \in Seq(Y), t \in Y : Dealt(ds, Append(s, t)) = AddTurn(Dealt(ds, s), t)
<1> DEFINE Z == {es \in Seq(Seq(Q)) : DOMAIN es = DOMAIN ds}
           G == [t \in Y |-> [es \in Z |-> AddTurn(es, t)]]
           Is(f, s) == f = [n \in 0..Len(s) |-> IF n = 0 THEN ds ELSE AddTurn(f[n - 1], s[n])]
           dealt(s) == CHOOSE f : Is(f, s)
<1>1. ASSUME NEW es \in Z, NEW t, t \in Y PROVE AddTurn(es, t) \in Z
    <2>1. es \in Seq(Seq(Q)) /\ DOMAIN es = DOMAIN ds
        OBVIOUS
    <2>2. DayLists(es, Q) /\ TurnSet(Y, Q, es)
        BY <2>1 DEF DayLists, TurnSet
    <2> HIDE DEF Z
    <2>3. t.part \in Q /\ \E d \in DOMAIN es : AddTurn(es, t) = AddTo(es, d, t.part)
        BY <1>1, <2>2, TurnAdds
    <2>5. PICK d \in DOMAIN es : AddTurn(es, t) = AddTo(es, d, t.part)
        BY <2>3
    <2>4. AddTo(es, d, t.part) \in Seq(Seq(Q)) /\ DOMAIN AddTo(es, d, t.part) = DOMAIN es
        <3> DEFINE p == t.part
        <3> HIDE DEF Z, p
        <3>1. p \in Q
            BY <2>3 DEF p
        <3>2. AddTo(es, d, p) \in Seq(Seq(Q)) /\ DOMAIN AddTo(es, d, p) = DOMAIN es
            <4>1. Added(AddTo(es, d, p), es, d, p, Q)
                BY <2>1, <3>1, AddTyped
            <4> QED BY <4>1 DEF Added
        <3> QED BY <3>2 DEF p
    <2> QED BY <2>1, <2>4, <2>5 DEF Z
<1>2. ds \in Z
    BY DEF DayLists
<1> HIDE DEF Z
<1>3. \A t \in Y : G[t] \in [Z -> Z] /\ \A es \in Z : G[t][es] = AddTurn(es, t)
    BY <1>1
<1> HIDE DEF G
<1>4. PICK H : Folded(H, Y, Z, ds, G)
    <2>1. \A t \in Y : G[t] \in [Z -> Z]
        BY <1>3
    <2> QED BY <1>2, <2>1, FoldStep
<1>5. ASSUME NEW s \in Seq(Y) PROVE Dealt(ds, s) = H[s]
    <2> DEFINE N == Len(s)
               g == dealt(s)
    <2>1. N \in Nat /\ \A n \in 1..N : s[n] \in Y /\ n \in 0..N /\ n - 1 \in 0..N /\ n # 0
        <3>1. N \in Nat /\ \A n \in 1..N : s[n] \in Y
            BY LenProperties, ElementOfSeq
        <3> QED BY <3>1
    <2>2. PICK f \in [0..N -> Z] : /\ f[0] = ds /\ f[N] = H[s]
                                   /\ \A n \in 1..N : f[n] = G[s[n]][f[n - 1]]
        BY <1>4 DEF Folded
    <2>3. \A n \in 1..N : f[n] = AddTurn(f[n - 1], s[n])
        <3> HIDE DEF N
        <3> QED BY <1>3, <2>1, <2>2
    <2>4. Is(f, s)
        <3>1. \A n \in 0..N : n = 0 \/ n \in 1..N
            BY <2>1
        <3>2. \A n \in 0..N : f[n] = IF n = 0 THEN ds ELSE AddTurn(f[n - 1], s[n])
            <4> HIDE DEF N
            <4> QED BY <2>1, <2>2, <2>3, <3>1
        <3> QED BY <2>2, <3>2
    <2>5. Is(g, s)
        <3> HIDE DEF Is
        <3> QED BY <2>4
    <2>6. Dealt(ds, s) = g[N]
        BY DEF Dealt
    <2> HIDE DEF g
    <2>7. g[0] = ds /\ \A n \in 1..N : g[n] = AddTurn(g[n - 1], s[n])
        <3>1. \A n \in 0..N : g[n] = IF n = 0 THEN ds ELSE AddTurn(g[n - 1], s[n])
            BY <2>5
        <3> HIDE DEF N
        <3>2. 0 \in 0..N
            BY <2>1
        <3> QED BY <2>1, <3>1, <3>2
    <2> HIDE DEF N
    <2> DEFINE T == {n \in Nat : n <= N => g[n] = f[n]}
    <2>8. 0 \in T
        BY <2>2, <2>7
    <2>9. ASSUME NEW n \in Nat, n \in T PROVE n + 1 \in T
        <3> SUFFICES ASSUME n + 1 <= N PROVE g[n + 1] = f[n + 1]
            OBVIOUS
        <3> DEFINE m == n + 1
        <3>1. m \in 1..N /\ m - 1 = n /\ g[n] = f[n]
            BY <2>1, <2>9
        <3> HIDE DEF m
        <3> QED BY <2>3, <2>7, <3>1 DEF m
    <2>10. \A n \in Nat : n \in T
        <3> HIDE DEF T
        <3> QED BY <2>8, <2>9, SetInduction
    <2>11. g[N] = f[N]
        BY <2>1, <2>10
    <2> QED BY <2>2, <2>6, <2>11
<1>6. <<>> \in Seq(Y)
    BY EmptySeq
<1>7. \A s \in Seq(Y) : H[s] \in Z
    BY <1>4 DEF Folded
<1>8. ASSUME NEW s \in Seq(Y), NEW t \in Y PROVE Dealt(ds, Append(s, t)) = AddTurn(Dealt(ds, s), t)
    <2>1. Append(s, t) \in Seq(Y)
        BY AppendProperties
    <2>2. H[Append(s, t)] = G[t][H[s]] /\ G[t][H[s]] = AddTurn(H[s], t)
        BY <1>3, <1>4, <1>7 DEF Folded
    <2> QED BY <1>5, <2>1, <2>2
<1>9. \A s \in Seq(Y) : Dealt(ds, s) \in Z
    BY <1>5, <1>7
<1>10. Dealt(ds, <<>>) = ds
    BY <1>4, <1>5, <1>6 DEF Folded
<1> QED BY <1>8, <1>9, <1>10 DEF Z

\* The parts that turns deal.
PartsOf(turns) == [i \in DOMAIN turns |-> turns[i].part]

\* What is dealt to empty days is on the days afterwards, once.
LEMMA DealtCovers ==
    ASSUME NEW Q, PartSet(Q), NEW ds, DayLists(ds, Q), Covers(ds, {}),
           NEW Y, TurnSet(Y, Q, ds), NEW s, s \in Seq(Y),
           IsInjective(PlacesOf(PartsOf(s)))
    PROVE  /\ Dealt(ds, s) \in Seq(Seq(Q)) /\ DOMAIN Dealt(ds, s) = DOMAIN ds
           /\ Covers(Dealt(ds, s), ToSet(PlacesOf(PartsOf(s))))
<1> DEFINE Ps(u) == PlacesOf(PartsOf(u))
           T == {u \in Seq(Y) : IsInjective(Ps(u)) => Covers(Dealt(ds, u), ToSet(Ps(u)))}
           F == [t \in Y |-> t.part]
<1>0. /\ Dealt(ds, <<>>) = ds
      /\ \A u \in Seq(Y) : Dealt(ds, u) \in Seq(Seq(Q)) /\ DOMAIN Dealt(ds, u) = DOMAIN ds
      /\ \A u \in Seq(Y), t \in Y : Dealt(ds, Append(u, t)) = AddTurn(Dealt(ds, u), t)
    BY DealtStep
<1>1. \A t \in Y : F[t] = t.part /\ t.part \in Q
    BY DEF TurnSet
<1>7. F \in [Y -> Q]
    BY <1>1
<1> HIDE DEF F
<1>2. ASSUME NEW u, u \in Seq(Y), NEW t \in Y
      PROVE  PartsOf(u) \in Seq(Q) /\ PartsOf(Append(u, t)) = Append(PartsOf(u), t.part)
    <2> DEFINE v == PartsOf(u)
               w == PartsOf(Append(u, t))
    <2>1. Append(u, t) \in Seq(Y)
        BY <1>2, AppendProperties
    <2>2. /\ \A i \in DOMAIN u : u[i] \in Y
          /\ \A i \in DOMAIN Append(u, t) : Append(u, t)[i] \in Y
        BY <1>2, <2>1, LenProperties, ElementOfSeq
    <2>3. v \in [DOMAIN u -> Q] /\ \A i \in DOMAIN u : v[i] = F[u[i]]
        BY <1>1, <2>2 DEF PartsOf
    <2>4. /\ w \in [DOMAIN Append(u, t) -> Q]
          /\ \A i \in DOMAIN Append(u, t) : w[i] = F[Append(u, t)[i]]
        BY <1>1, <2>2 DEF PartsOf
    <2>5. u \in Seq(Y)
        BY <1>2
    <2> HIDE DEF v, w
    <2>6. v \in Seq(Q) /\ w = Append(v, F[t])
        BY <1>7, <2>3, <2>4, <2>5, MapAppend
    <2> QED BY <1>1, <2>6 DEF v, w
<1>3. <<>> \in T
    <2> DEFINE none == <<>>
    <2>1. none \in Seq(Y) /\ DOMAIN none = {} /\ PlacesOf(none) = none
        <3>1. PlacesOf(none) = none /\ \A ps \in Seq(Q) : PlacesOf(ps) \in Seq(Nat)
            BY PlacesStep DEF PartSet
        <3> QED BY <3>1, EmptySeq
    <2>2. Dealt(ds, none) = ds
        BY <1>0
    <2>3. PartsOf(none) = none
        BY <2>1 DEF PartsOf
    <2> HIDE DEF none
    <2>4. ToSet(Ps(none)) = {}
        BY <2>1, <2>3 DEF ToSet
    <2>5. none \in T
        BY <2>1, <2>2, <2>4
    <2> QED BY <2>5 DEF none
<1>4. ASSUME NEW u, u \in Seq(Y), NEW t \in Y, u \in T PROVE Append(u, t) \in T
    <2> DEFINE us == Append(u, t)
               es == Dealt(ds, u)
               p == t.part
               S == ToSet(Ps(u))
    <2>1. us \in Seq(Y) /\ PartsOf(u) \in Seq(Q) /\ PartsOf(us) = Append(PartsOf(u), p) /\ p \in Q
        BY <1>1, <1>2, <1>4, AppendProperties
    <2>2. Ps(us) = Ps(u) \o p.places /\ Ps(u) \in Seq(Nat) /\ p.places \in Seq(Nat)
        <3> HIDE DEF us, p
        <3>1. \A ps \in Seq(Q) : PlacesOf(ps) \in Seq(Nat)
            BY PlacesStep DEF PartSet
        <3>2. \A ps \in Seq(Q), c \in Q : PlacesOf(Append(ps, c)) = PlacesOf(ps) \o c.places
            BY PlacesStep DEF PartSet
        <3>3. p.places \in Seq(Nat)
            BY <2>1 DEF PartSet
        <3> QED BY <2>1, <3>1, <3>2, <3>3
    <2>3. es \in Seq(Seq(Q)) /\ DOMAIN es = DOMAIN ds /\ Dealt(ds, us) = AddTurn(es, t)
        BY <1>0, <1>4
    <2> HIDE DEF us, es, p
    <2>4. PICK d \in DOMAIN es : AddTurn(es, t) = AddTo(es, d, t.part)
        <3>1. DayLists(es, Q) /\ TurnSet(Y, Q, es)
            BY <2>3 DEF DayLists, TurnSet
        <3> QED BY <1>4, <3>1, TurnAdds
    <2>5. ASSUME IsInjective(Ps(us)) PROVE Covers(Dealt(ds, us), ToSet(Ps(us)))
        <3> HIDE DEF Ps
        <3>1. /\ ToSet(Ps(us)) = S \cup ToSet(p.places)
              /\ IsInjective(Ps(us)) <=> /\ IsInjective(Ps(u)) /\ IsInjective(p.places)
                                         /\ S \cap ToSet(p.places) = {}
            BY <2>2, ConcatElements
        <3>2. Covers(es, S) /\ IsInjective(p.places) /\ S \cap ToSet(p.places) = {}
            BY <1>4, <2>5, <3>1 DEF es
        <3> HIDE DEF S
        <3>3. Covers(AddTo(es, d, p), S \cup ToSet(p.places))
            BY <2>1, <2>3, <3>2, AddCovers DEF PartSet
        <3> QED BY <2>3, <2>4, <3>1, <3>3 DEF p
    <2>6. us \in T
        BY <2>1, <2>5
    <2> QED BY <2>6 DEF us
<1>5. s \in T
    <2> HIDE DEF T
    <2>1. \A u \in Seq(Y), t \in Y : u \in T => Append(u, t) \in T
        BY <1>4
    <2>2. \A u \in Seq(Y) : u \in T
        BY <1>3, <2>1, ListInduction
    <2> QED BY <2>2
<1> QED BY <1>0, <1>5

\* Empty days.
LEMMA EmptyDays ==
    ASSUME NEW Q, PartSet(Q), NDays \in Nat \ {0}, DOMAIN days = 1..NDays
    PROVE  /\ DayLists(NoDays, Q) /\ DOMAIN NoDays = DOMAIN days
           /\ (\A d \in DOMAIN days : NoDays[d] = <<>>) /\ Covers(NoDays, {})
<1>1. NDays \in Nat /\ DOMAIN days = 1..NDays /\ DOMAIN days # {}
    OBVIOUS
<1> DEFINE ds == NoDays
           none == <<>>
           Y == Seq(Q)
<1>3. none \in Y
    BY EmptySeq
<1> HIDE DEF none, Y
<1>4. ds \in [1..NDays -> Y] /\ DOMAIN ds = 1..NDays /\ \A d \in 1..NDays : ds[d] = none
    BY <1>3 DEF NoDays, none
<1> HIDE DEF ds
<1>5. ds \in Seq(Y)
    <2> DEFINE n == NDays
    <2> HIDE DEF n
    <2>1. ds \in [1..n -> Y] /\ n \in Nat
        BY <1>1, <1>4 DEF n
    <2> QED BY <2>1
<1>6. DayLists(ds, Q) /\ ds \in Seq(Seq(Q))
    BY <1>1, <1>4, <1>5 DEF DayLists, Y
<1>7. PlacesOf(none) = none
    BY PlacesStep DEF PartSet, none
<1>8. ToSet(none) = {} /\ IsInjective(none)
    <2>1. DOMAIN none = {}
        BY DEF none
    <2> QED BY <2>1 DEF ToSet, IsInjective
<1>9. \A d \in DOMAIN ds : ToSet(PlacesOf(ds[d])) = {} /\ IsInjective(PlacesOf(ds[d]))
    BY <1>4, <1>7, <1>8
<1> DEFINE S == UNION {ToSet(PlacesOf(ds[d])) : d \in DOMAIN ds}
<1>10. S = {}
    BY <1>9
<1>11. Covers(ds, S)
    <2>1. \A d, e \in DOMAIN ds : d # e => ToSet(PlacesOf(ds[d])) \cap ToSet(PlacesOf(ds[e])) = {}
        BY <1>9
    <2>2. /\ S = UNION {ToSet(PlacesOf(ds[d])) : d \in DOMAIN ds}
          /\ \A d \in DOMAIN ds : IsInjective(PlacesOf(ds[d]))
        BY <1>9
    <2> HIDE DEF S
    <2> QED BY <1>6, <2>1, <2>2, CoversApart DEF PartSet
<1> QED BY <1>1, <1>4, <1>6, <1>10, <1>11 DEF ds, none

\* The same, of days that are lists of clusters.
LEMMA NoDaysEmpty ==
    ASSUME NEW Q, PartSet(Q), DayLists(days, Q)
    PROVE  /\ NDays \in Nat \ {0} /\ DOMAIN days = 1..NDays
           /\ DayLists(NoDays, Q) /\ DOMAIN NoDays = DOMAIN days
           /\ (\A d \in DOMAIN days : NoDays[d] = <<>>) /\ Covers(NoDays, {})
<1>1. NDays \in Nat /\ DOMAIN days = 1..NDays /\ DOMAIN days # {}
    BY LenProperties DEF DayLists, NDays
<1>2. NDays # 0
    BY <1>1
<1> QED BY <1>1, <1>2, EmptyDays

\* How far the compact packing has come: the days before its own are full, it covers
\* what it was given while it has a day, and a part of it after that.
Filled(acc, S) ==
    /\ \A d \in DOMAIN acc.days : /\ d < acc.day => Len(acc.days[d]) = MaxPerDay
                                  /\ d = acc.day => Len(acc.days[d]) < MaxPerDay
                                  /\ d > acc.day => acc.days[d] = <<>>
    /\ \E U \in SUBSET S : Covers(acc.days, U) /\ (acc.day <= NDays => U = S)

Accs(Q) == {acc \in [days : Seq(Seq(Q)), day : Nat] :
                acc.day \in 1..(NDays + 1) /\ DOMAIN acc.days = DOMAIN days}

\* A step of the packing.
LEMMA PackedStep ==
    ASSUME NEW Q, PartSet(Q), DayLists(days, Q), NEW acc, acc \in Accs(Q), NEW c, c \in Q
    PROVE  /\ Packed(acc, c) \in Accs(Q)
           /\ \A S : (Filled(acc, S) /\ IsInjective(c.places) /\ S \cap ToSet(c.places) = {})
                         => Filled(Packed(acc, c), S \cup ToSet(c.places))
<1>1. /\ NDays \in Nat \ {0} /\ DOMAIN days = 1..NDays
      /\ acc.day \in 1..(NDays + 1) /\ acc.days \in Seq(Seq(Q)) /\ DOMAIN acc.days = 1..NDays
    BY NoDaysEmpty DEF Accs
<1>2. CASE acc.day > NDays
    <2>1. Packed(acc, c) = acc
        BY <1>2 DEF Packed
    <2>2. ASSUME NEW S, Filled(acc, S) PROVE Filled(acc, S \cup ToSet(c.places))
        BY <1>1, <1>2, <2>2 DEF Filled
    <2> QED BY <2>1, <2>2
<1>3. CASE ~(acc.day > NDays)
    <2> DEFINE d == acc.day
               old == acc.days
               ds == AddTo(old, d, c)
               n == Len(old[d])
               next == IF n + 1 >= MaxPerDay THEN d + 1 ELSE d
    <2>1. d \in 1..NDays /\ d \in Nat
        BY <1>1, <1>3
    <2>2. /\ ds \in Seq(Seq(Q)) /\ DOMAIN ds = 1..NDays /\ ds[d] = Append(old[d], c)
          /\ \A e \in 1..NDays : e # d => ds[e] = old[e]
        <3>1. old \in Seq(Seq(Q)) /\ d \in DOMAIN old
            BY <1>1, <2>1
        <3>3. DOMAIN old = 1..NDays
            BY <1>1
        <3> HIDE DEF old, d, ds, next, n
        <3>2. /\ AddTo(old, d, c) \in Seq(Seq(Q)) /\ DOMAIN AddTo(old, d, c) = DOMAIN old
              /\ AddTo(old, d, c)[d] = Append(old[d], c)
              /\ \A e \in DOMAIN old : e # d => AddTo(old, d, c)[e] = old[e]
            <4>1. Added(AddTo(old, d, c), old, d, c, Q)
                BY <3>1, AddTyped
            <4> QED BY <4>1 DEF Added
        <3> QED BY <3>2, <3>3 DEF ds
    <2>3. Len(ds[d]) = n + 1 /\ n \in Nat
        <3>1. old[d] \in Seq(Q)
            BY <1>1, <2>1, ElementOfSeq, LenProperties
        <3> QED BY <2>2, <3>1, AppendProperties, LenProperties
    <2>4. Packed(acc, c) = [days |-> ds, day |-> next]
        <3>1. Packed(acc, c) = [days |-> ds, day |-> IF Len(ds[d]) >= MaxPerDay THEN d + 1 ELSE d]
            BY <1>3 DEF Packed
        <3> HIDE DEF ds
        <3> QED BY <2>3, <3>1
    <2> HIDE DEF ds, n
    <2>5. next \in Nat /\ next \in 1..(NDays + 1)
        BY <1>1, <2>1
    <2> HIDE DEF next
    <2>6. Packed(acc, c) \in Accs(Q)
        BY <1>1, <2>2, <2>4, <2>5 DEF Accs
    <2>7. ASSUME NEW S, Filled(acc, S), IsInjective(c.places), S \cap ToSet(c.places) = {}
          PROVE  Filled(Packed(acc, c), S \cup ToSet(c.places))
        <3>1. Covers(old, S)
            BY <1>1, <1>3, <2>7 DEF Filled
        <3>2. Covers(ds, S \cup ToSet(c.places))
            <4>1. old \in Seq(Seq(Q)) /\ d \in DOMAIN old
                BY <1>1, <2>1
            <4> HIDE DEF old, d
            <4> QED BY <2>7, <3>1, <4>1, AddCovers DEF PartSet, ds
        <3>3. \A e \in 1..NDays : /\ e < d => Len(old[e]) = MaxPerDay
                                  /\ e > d => old[e] = <<>>
            BY <1>1, <2>7 DEF Filled
        <3>4. n < MaxPerDay
            BY <1>1, <2>1, <2>7 DEF Filled, n
        <3> DEFINE none == <<>>
        <3>5. Len(none) = 0
            OBVIOUS
        <3> HIDE DEF none, d, old
        <3>6. MaxPerDay \in Nat \ {0}
            BY PlanAssumption
        <3>7. ASSUME NEW e \in 1..NDays
              PROVE  /\ e < next => Len(ds[e]) = MaxPerDay
                     /\ e = next => Len(ds[e]) < MaxPerDay
                     /\ e > next => ds[e] = none
            <4>1. CASE e = d
                BY <4>1, <2>1, <2>3, <3>4, <3>6 DEF next
            <4>2. CASE e < d
                <5>1. ds[e] = old[e] /\ Len(old[e]) = MaxPerDay
                    BY <4>2, <2>1, <2>2, <3>3
                <5>2. e < next
                    BY <4>2, <2>1 DEF next
                <5> QED BY <5>1, <5>2, <2>5
            <4>3. CASE e > d
                <5>1. ds[e] = none
                    BY <4>3, <2>1, <2>2, <3>3 DEF none
                <5>2. ~(e < next)
                    BY <4>3, <2>1 DEF next
                <5>3. Len(ds[e]) < MaxPerDay
                    BY <5>1, <3>5, <3>6
                <5> QED BY <5>1, <5>2, <5>3
            <4> QED BY <4>1, <4>2, <4>3, <2>1
        <3> DEFINE new == [days |-> ds, day |-> next]
        <3>8. new.days = ds /\ new.day = next
            OBVIOUS
        <3> HIDE DEF new
        <3>9. Filled(new, S \cup ToSet(c.places))
            <4>1. \E U \in SUBSET (S \cup ToSet(c.places)) :
                      Covers(new.days, U) /\ (new.day <= NDays => U = S \cup ToSet(c.places))
                BY <3>2, <3>8
            <4>2. \A e \in DOMAIN new.days : /\ e < new.day => Len(new.days[e]) = MaxPerDay
                                             /\ e = new.day => Len(new.days[e]) < MaxPerDay
                                             /\ e > new.day => new.days[e] = none
                BY <2>2, <3>7, <3>8
            <4> QED BY <4>1, <4>2 DEF Filled, none
        <3> QED BY <2>4, <3>9 DEF new
    <2> QED BY <2>6, <2>7
<1> QED BY <1>2, <1>3

\* The compact packing of all clusters: everything, unless every day is full.
LEMMA CompactCovers ==
    ASSUME NEW Q, PartSet(Q), DayLists(days, Q), AllClusters \in Seq(Q),
           IsInjective(PlacesOf(AllClusters))
    PROVE  /\ _pack_compact \in Seq(Seq(Q)) /\ DOMAIN _pack_compact = DOMAIN days
           /\ \E U \in SUBSET ToSet(PlacesOf(AllClusters)) :
                  /\ Covers(_pack_compact, U)
                  /\ U # ToSet(PlacesOf(AllClusters)) =>
                         \A d \in DOMAIN days : Len(_pack_compact[d]) = MaxPerDay
<1> DEFINE Z == Accs(Q)
           s == AllClusters
           N == Len(s)
           first == [days |-> NoDays, day |-> 1]
           G == [c \in Q |-> [acc \in Z |-> Packed(acc, c)]]
           Is(f) == f = [n \in 0..N |-> IF n = 0 THEN first ELSE Packed(f[n - 1], s[n])]
           packed == CHOOSE f : Is(f)
<1>1. first \in Z
    <2>1. /\ DayLists(NoDays, Q) /\ DOMAIN NoDays = DOMAIN days
          /\ NDays \in Nat \ {0}
        BY NoDaysEmpty
    <2>2. NoDays \in Seq(Seq(Q)) /\ 1 \in 1..(NDays + 1)
        BY <2>1 DEF DayLists
    <2> QED BY <2>1, <2>2 DEF Accs
<1>2. _pack_compact = packed[N].days
    BY DEF _pack_compact
<1> HIDE DEF Z, first, packed
<1>3. \A c \in Q : G[c] \in [Z -> Z] /\ \A acc \in Z : G[c][acc] = Packed(acc, c)
    BY PackedStep DEF Z
<1> HIDE DEF G
<1>4. PICK H : Folded(H, Q, Z, first, G)
    <2>1. \A c \in Q : G[c] \in [Z -> Z]
        BY <1>3
    <2> QED BY <1>1, <2>1, FoldStep
<1>5. s \in Seq(Q)
    OBVIOUS
<1> HIDE DEF s
<1>6. packed[N] = H[s]
    <2> DEFINE g == packed
    <2>1. N \in Nat /\ \A n \in 1..N : s[n] \in Q /\ n \in 0..N /\ n - 1 \in 0..N /\ n # 0
        <3>1. N \in Nat /\ \A n \in 1..N : s[n] \in Q
            BY <1>5, LenProperties, ElementOfSeq
        <3> QED BY <3>1
    <2>2. PICK f \in [0..N -> Z] : /\ f[0] = first /\ f[N] = H[s]
                                   /\ \A n \in 1..N : f[n] = G[s[n]][f[n - 1]]
        BY <1>4, <1>5 DEF Folded
    <2>3. \A n \in 1..N : f[n] = Packed(f[n - 1], s[n])
        <3> HIDE DEF N
        <3> QED BY <1>3, <2>1, <2>2
    <2>4. Is(f)
        <3>1. \A n \in 0..N : n = 0 \/ n \in 1..N
            BY <2>1
        <3>2. \A n \in 0..N : f[n] = IF n = 0 THEN first ELSE Packed(f[n - 1], s[n])
            <4> HIDE DEF N
            <4> QED BY <2>1, <2>2, <2>3, <3>1
        <3> QED BY <2>2, <3>2
    <2>5. Is(g)
        <3> HIDE DEF Is
        <3> QED BY <2>4 DEF packed
    <2> HIDE DEF g
    <2>6. g[0] = first /\ \A n \in 1..N : g[n] = Packed(g[n - 1], s[n])
        <3>1. \A n \in 0..N : g[n] = IF n = 0 THEN first ELSE Packed(g[n - 1], s[n])
            BY <2>5
        <3> HIDE DEF N
        <3>2. 0 \in 0..N
            BY <2>1
        <3> QED BY <2>1, <3>1, <3>2
    <2> HIDE DEF N
    <2> DEFINE T == {n \in Nat : n <= N => g[n] = f[n]}
    <2>7. 0 \in T
        BY <2>2, <2>6
    <2>8. ASSUME NEW n \in Nat, n \in T PROVE n + 1 \in T
        <3> SUFFICES ASSUME n + 1 <= N PROVE g[n + 1] = f[n + 1]
            OBVIOUS
        <3> DEFINE m == n + 1
        <3>1. m \in 1..N /\ m - 1 = n /\ g[n] = f[n]
            BY <2>1, <2>8
        <3> HIDE DEF m
        <3> QED BY <2>3, <2>6, <3>1 DEF m
    <2>9. \A n \in Nat : n \in T
        <3> HIDE DEF T
        <3> QED BY <2>7, <2>8, SetInduction
    <2>10. g[N] = f[N]
        BY <2>1, <2>9
    <2> QED BY <2>2, <2>10 DEF g
<1> DEFINE T == {u \in Seq(Q) : IsInjective(PlacesOf(u)) => Filled(H[u], ToSet(PlacesOf(u)))}
<1>7. <<>> \in T
    <2> DEFINE none == <<>>
    <2>1. none \in Seq(Q) /\ PlacesOf(none) = none
        <3>1. PlacesOf(none) = none /\ \A ps \in Seq(Q) : PlacesOf(ps) \in Seq(Nat)
            BY PlacesStep DEF PartSet
        <3> QED BY <3>1, EmptySeq
    <2>2. H[none] = first
        BY <1>4 DEF Folded
    <2>3. DOMAIN none = {} /\ Len(none) = 0
        OBVIOUS
    <2> HIDE DEF none
    <2>4. ToSet(PlacesOf(none)) = {}
        BY <2>1, <2>3 DEF ToSet
    <2>5. /\ NDays \in Nat \ {0} /\ DOMAIN NoDays = 1..NDays
          /\ (\A d \in 1..NDays : NoDays[d] = none) /\ Covers(NoDays, {})
        BY NoDaysEmpty DEF none
    <2>6. first.days = NoDays /\ first.day = 1
        BY DEF first
    <2>7. MaxPerDay \in Nat \ {0}
        BY PlanAssumption
    <2>8. \A d \in DOMAIN first.days : /\ d < first.day => Len(first.days[d]) = MaxPerDay
                                       /\ d = first.day => Len(first.days[d]) < MaxPerDay
                                       /\ d > first.day => first.days[d] = none
        BY <2>3, <2>5, <2>6, <2>7
    <2>9. \E U \in SUBSET {} : Covers(first.days, U) /\ (first.day <= NDays => U = {})
        BY <2>5, <2>6
    <2>10. Filled(first, {})
        BY <2>8, <2>9 DEF Filled, none
    <2>11. none \in T
        BY <2>1, <2>2, <2>4, <2>10
    <2> QED BY <2>11 DEF none
<1>8. ASSUME NEW u, u \in Seq(Q), NEW c \in Q, u \in T PROVE Append(u, c) \in T
    <2> DEFINE us == Append(u, c)
               S == ToSet(PlacesOf(u))
               acc == H[u]
    <2>1. us \in Seq(Q)
        BY <1>8, AppendProperties
    <2>2. PlacesOf(us) = PlacesOf(u) \o c.places /\ PlacesOf(u) \in Seq(Nat) /\ c.places \in Seq(Nat)
        <3>1. \A ps \in Seq(Q) : PlacesOf(ps) \in Seq(Nat)
            BY PlacesStep DEF PartSet
        <3>2. \A ps \in Seq(Q), b \in Q : PlacesOf(Append(ps, b)) = PlacesOf(ps) \o b.places
            BY PlacesStep DEF PartSet
        <3>3. c.places \in Seq(Nat)
            BY DEF PartSet
        <3> QED BY <1>8, <3>1, <3>2, <3>3
    <2>3. acc \in Z /\ H[us] = Packed(acc, c)
        BY <1>3, <1>4, <1>8 DEF Folded
    <2> HIDE DEF us, acc
    <2>4. /\ ToSet(PlacesOf(us)) = S \cup ToSet(c.places)
          /\ IsInjective(PlacesOf(us)) <=> /\ IsInjective(PlacesOf(u)) /\ IsInjective(c.places)
                                           /\ S \cap ToSet(c.places) = {}
        <3> DEFINE p == PlacesOf(u)
                   q == c.places
        <3> HIDE DEF p, q
        <3> QED BY <2>2, ConcatElements DEF p, q
    <2>5. ASSUME IsInjective(PlacesOf(us)) PROVE Filled(H[us], ToSet(PlacesOf(us)))
        <3>1. Filled(acc, S) /\ IsInjective(c.places) /\ S \cap ToSet(c.places) = {}
            BY <1>8, <2>4, <2>5 DEF acc
        <3> HIDE DEF S
        <3>2. Filled(Packed(acc, c), S \cup ToSet(c.places))
            BY <2>3, <3>1, PackedStep DEF Z
        <3> QED BY <2>3, <2>4, <3>2 DEF S
    <2>6. us \in T
        BY <2>1, <2>5
    <2> QED BY <2>6 DEF us
<1>9. s \in T
    <2> HIDE DEF T
    <2>1. \A u \in Seq(Q), c \in Q : u \in T => Append(u, c) \in T
        BY <1>8
    <2>2. \A u \in Seq(Q) : u \in T
        BY <1>7, <2>1, ListInduction
    <2> QED BY <1>5, <2>2
<1> DEFINE acc == H[s]
           S == ToSet(PlacesOf(s))
<1>10. acc \in Accs(Q) /\ Filled(acc, S)
    BY <1>4, <1>5, <1>9 DEF Folded, Z, s
<1>11. _pack_compact = acc.days
    BY <1>2, <1>6
<1> HIDE DEF acc, S
<1>12. acc.days \in Seq(Seq(Q)) /\ DOMAIN acc.days = DOMAIN days /\ acc.day \in 1..(NDays + 1)
    BY <1>10 DEF Accs
<1>13. PICK U \in SUBSET S : Covers(acc.days, U) /\ (acc.day <= NDays => U = S)
    BY <1>10 DEF Filled
<1>14. U # S => \A d \in DOMAIN days : Len(acc.days[d]) = MaxPerDay
    <2> SUFFICES ASSUME U # S, NEW d \in DOMAIN days PROVE Len(acc.days[d]) = MaxPerDay
        OBVIOUS
    <2>1. NDays \in Nat /\ d \in 1..NDays
        BY NoDaysEmpty
    <2>2. d < acc.day
        BY <1>12, <1>13, <2>1
    <2> QED BY <1>10, <1>12, <2>2 DEF Filled
<1> QED BY <1>11, <1>12, <1>13, <1>14 DEF S, s

\* Lists with the same elements each, whatever their order, are the same elements
\* joined.
LEMMA SameElements ==
    ASSUME NEW v, v \in Seq(Seq(Nat)), NEW w, w \in Seq(Seq(Nat)), DOMAIN v = DOMAIN w,
           \A k \in DOMAIN w : IsInjective(v[k]) /\ ToSet(v[k]) = ToSet(w[k]),
           IsInjective(Joined(w))
    PROVE  IsInjective(Joined(v)) /\ ToSet(Joined(v)) = ToSet(Joined(w))
<1>1. /\ ToSet(Joined(v)) = UNION {ToSet(v[i]) : i \in DOMAIN v}
      /\ IsInjective(Joined(v)) <=>
             /\ \A i \in DOMAIN v : IsInjective(v[i])
             /\ \A i, j \in DOMAIN v : i # j => ToSet(v[i]) \cap ToSet(v[j]) = {}
    BY JoinedElements
<1>2. /\ ToSet(Joined(w)) = UNION {ToSet(w[i]) : i \in DOMAIN w}
      /\ \A i, j \in DOMAIN w : i # j => ToSet(w[i]) \cap ToSet(w[j]) = {}
    BY JoinedElements
<1>3. UNION {ToSet(v[i]) : i \in DOMAIN v} = UNION {ToSet(w[i]) : i \in DOMAIN w}
    OBVIOUS
<1>4. /\ \A i \in DOMAIN v : IsInjective(v[i])
      /\ \A i, j \in DOMAIN v : i # j => ToSet(v[i]) \cap ToSet(v[j]) = {}
    BY <1>2
<1> QED BY <1>1, <1>2, <1>3, <1>4

\* The places of a list of clusters, cluster by cluster.
LEMMA PlacesApart ==
    ASSUME NEW Q, PartSet(Q), NEW cs, cs \in Seq(Q)
    PROVE  /\ [k \in DOMAIN cs |-> cs[k].places] \in Seq(Seq(Nat))
           /\ PlacesOf(cs) \in Seq(Nat)
           /\ ToSet(PlacesOf(cs)) = UNION {ToSet(cs[k].places) : k \in DOMAIN cs}
           /\ IsInjective(PlacesOf(cs)) <=>
                  /\ \A k \in DOMAIN cs : IsInjective(cs[k].places)
                  /\ \A j, k \in DOMAIN cs : j # k => ToSet(cs[j].places) \cap ToSet(cs[k].places) = {}
<1> DEFINE w == [k \in DOMAIN cs |-> cs[k].places]
           Y == Seq(Nat)
           n == Len(cs)
<1>1. \A k \in DOMAIN cs : cs[k].places \in Y
    <2>1. \A k \in DOMAIN cs : cs[k] \in Q
        BY LenProperties, ElementOfSeq
    <2> QED BY <2>1 DEF PartSet
<1>2. DOMAIN cs = 1..n /\ n \in Nat
    BY LenProperties
<1> HIDE DEF n, Y
<1>3. w \in [1..n -> Y] /\ DOMAIN w = DOMAIN cs /\ \A k \in DOMAIN cs : w[k] = cs[k].places
    BY <1>1, <1>2
<1>4. PlacesOf(cs) = Joined(w)
    BY DEF PlacesOf
<1> HIDE DEF w
<1>5. w \in Seq(Y)
    BY <1>2, <1>3
<1>6. /\ Joined(w) \in Seq(Nat)
      /\ ToSet(Joined(w)) = UNION {ToSet(w[i]) : i \in DOMAIN w}
      /\ IsInjective(Joined(w)) <=>
             /\ \A i \in DOMAIN w : IsInjective(w[i])
             /\ \A i, j \in DOMAIN w : i # j => ToSet(w[i]) \cap ToSet(w[j]) = {}
    BY <1>5, JoinedElements DEF Y
<1>7. UNION {ToSet(w[i]) : i \in DOMAIN w} = UNION {ToSet(cs[k].places) : k \in DOMAIN cs}
    BY <1>3
<1>8. /\ (\A i \in DOMAIN w : IsInjective(w[i])) <=> \A k \in DOMAIN cs : IsInjective(cs[k].places)
      /\ (\A i, j \in DOMAIN w : i # j => ToSet(w[i]) \cap ToSet(w[j]) = {}) <=>
         \A j, k \in DOMAIN cs : j # k => ToSet(cs[j].places) \cap ToSet(cs[k].places) = {}
    BY <1>3
<1>9. w \in Seq(Seq(Nat))
    BY <1>5 DEF Y
<1> QED BY <1>4, <1>6, <1>7, <1>8, <1>9 DEF w

\* Places on their own.
LEMMA SinglesElements ==
    ASSUME NEW Q, PartSet(Q), NEW c, NEW ps, ps \in Seq(Nat), IsInjective(ps),
           \A i \in DOMAIN ps : Part(c, <<ps[i]>>) \in Q
    PROVE  /\ Singles(c, ps) \in Seq(Q) /\ DOMAIN Singles(c, ps) = DOMAIN ps
           /\ IsInjective(PlacesOf(Singles(c, ps)))
           /\ ToSet(PlacesOf(Singles(c, ps))) = ToSet(ps)
<1> DEFINE w == Singles(c, ps)
           n == Len(ps)
<1>1. DOMAIN ps = 1..n /\ n \in Nat
    BY LenProperties
<1> HIDE DEF n
<1>2. w \in [1..n -> Q] /\ DOMAIN w = DOMAIN ps
    BY <1>1 DEF Singles
<1>3. \A i \in DOMAIN ps : w[i].places = <<ps[i]>>
    BY DEF Singles, Part
<1> HIDE DEF w
<1>4. w \in Seq(Q)
    BY <1>1, <1>2
<1>5. \A i \in DOMAIN ps : IsInjective(w[i].places) /\ ToSet(w[i].places) = {ps[i]}
    <2> SUFFICES ASSUME NEW i \in DOMAIN ps
                 PROVE  IsInjective(w[i].places) /\ ToSet(w[i].places) = {ps[i]}
        OBVIOUS
    <2> DEFINE x == ps[i]
               one == <<x>>
    <2>1. DOMAIN one = {1} /\ one[1] = x
        OBVIOUS
    <2>2. w[i].places = one
        BY <1>3
    <2> HIDE DEF one, x
    <2>3. IsInjective(one) /\ ToSet(one) = {x}
        BY <2>1 DEF IsInjective, ToSet
    <2> QED BY <2>2, <2>3 DEF x
<1>6. \A i, j \in DOMAIN ps : i # j => ps[i] # ps[j]
    BY DEF IsInjective
<1>7. \A i, j \in DOMAIN w : i # j => ToSet(w[i].places) \cap ToSet(w[j].places) = {}
    <2> SUFFICES ASSUME NEW i \in DOMAIN w, NEW j \in DOMAIN w, i # j
                 PROVE  ToSet(w[i].places) \cap ToSet(w[j].places) = {}
        OBVIOUS
    <2>1. ToSet(w[i].places) = {ps[i]} /\ ToSet(w[j].places) = {ps[j]}
        BY <1>2, <1>5
    <2>2. ps[i] # ps[j]
        BY <1>2, <1>6
    <2> QED BY <2>1, <2>2
<1>8. \A i \in DOMAIN w : IsInjective(w[i].places)
    BY <1>2, <1>5
<1>9. UNION {ToSet(w[k].places) : k \in DOMAIN w} = ToSet(ps)
    <2>1. UNION {ToSet(w[k].places) : k \in DOMAIN w} = {ps[k] : k \in DOMAIN ps}
        <3>1. \A k \in DOMAIN w : ToSet(w[k].places) = {ps[k]}
            BY <1>2, <1>5
        <3>2. UNION {ToSet(w[k].places) : k \in DOMAIN w} = {ps[k] : k \in DOMAIN w}
            <4>1. ASSUME NEW x
                  PROVE  (\E k \in DOMAIN w : x \in ToSet(w[k].places)) <=> \E k \in DOMAIN w : x = ps[k]
                BY <3>1
            <4> QED BY <4>1
        <3> QED BY <1>2, <3>2
    <2> QED BY <2>1 DEF ToSet
<1>10. IsInjective(PlacesOf(w)) /\ ToSet(PlacesOf(w)) = ToSet(ps)
    <2>1. /\ ToSet(PlacesOf(w)) = UNION {ToSet(w[k].places) : k \in DOMAIN w}
          /\ IsInjective(PlacesOf(w)) <=>
                  /\ \A k \in DOMAIN w : IsInjective(w[k].places)
                  /\ \A j, k \in DOMAIN w : j # k => ToSet(w[j].places) \cap ToSet(w[k].places) = {}
        BY <1>4, PlacesApart
    <2> QED BY <1>7, <1>8, <1>9, <2>1
<1> QED BY <1>2, <1>4, <1>10 DEF w

\* Places two by two.
LEMMA PairsElements ==
    ASSUME NEW ps, ps \in Seq(Nat), IsInjective(ps)
    PROVE  /\ Pairs(ps) \in Seq(Seq(Nat))
           /\ \A n \in DOMAIN Pairs(ps) : IsInjective(Pairs(ps)[n]) /\ ToSet(Pairs(ps)[n]) \subseteq ToSet(ps)
           /\ \A m, n \in DOMAIN Pairs(ps) : m # n => ToSet(Pairs(ps)[m]) \cap ToSet(Pairs(ps)[n]) = {}
           /\ UNION {ToSet(Pairs(ps)[n]) : n \in DOMAIN Pairs(ps)} = ToSet(ps)
<1> DEFINE N == Len(ps)
           M == (N + 1) \div 2
           b(n) == IF 2 * n <= N THEN 2 * n ELSE N
           p == Pairs(ps)
           Y == Seq(Nat)
<1>1. N \in Nat /\ DOMAIN ps = 1..N /\ M \in Nat
    BY LenProperties
<1>2. p = [n \in 1..M |-> SubSeq(ps, 2 * n - 1, b(n))]
    BY DEF Pairs
<1>3. \A n \in 1..M : /\ 2 * n - 1 \in 1..N /\ b(n) \in 1..N
                      /\ \A i \in 1..N : i \in (2 * n - 1)..b(n) <=> (i + 1) \div 2 = n
    <2> HIDE DEF N
    <2> QED BY <1>1
<1>4. \A i \in 1..N : (i + 1) \div 2 \in 1..M
    <2> HIDE DEF N
    <2> QED BY <1>1
<1> HIDE DEF M, N, p
<1>5. ASSUME NEW n \in 1..M
      PROVE  /\ p[n] \in Y /\ IsInjective(p[n])
             /\ \A x : x \in ToSet(p[n]) <=> \E i \in 1..N : x = ps[i] /\ (i + 1) \div 2 = n
    <2> DEFINE lo == 2 * n - 1
               hi == b(n)
               s == SubSeq(ps, lo, hi)
    <2>1. lo \in 1..N /\ hi \in 1..N /\ \A i \in 1..N : i \in lo..hi <=> (i + 1) \div 2 = n
        BY <1>3
    <2>2. p[n] = s
        BY <1>2
    <2> HIDE DEF lo, hi
    <2>3. s \in Seq(Nat) /\ Len(s) = (IF lo <= hi THEN hi - lo + 1 ELSE 0)
          /\ \A i \in 1..(hi - lo + 1) : s[i] = ps[lo + i - 1]
        BY <1>1, <2>1, SubSeqProperties DEF N
    <2> HIDE DEF s
    <2>4. DOMAIN s = 1..(hi - lo + 1) \/ (lo > hi /\ DOMAIN s = {})
        <3>1. DOMAIN s = 1..Len(s)
            BY <2>3, LenProperties
        <3> QED BY <1>1, <2>1, <2>3, <3>1
    <2>5. \A i \in DOMAIN s : lo + i - 1 \in lo..hi /\ lo + i - 1 \in 1..N /\ s[i] = ps[lo + i - 1]
        <3> SUFFICES ASSUME NEW i \in DOMAIN s
                     PROVE  lo + i - 1 \in lo..hi /\ lo + i - 1 \in 1..N /\ s[i] = ps[lo + i - 1]
            OBVIOUS
        <3>1. i \in 1..(hi - lo + 1)
            BY <2>4
        <3>2. s[i] = ps[lo + i - 1]
            BY <2>3, <3>1
        <3>3. lo + i - 1 \in lo..hi /\ lo + i - 1 \in 1..N
            BY <1>1, <2>1, <3>1
        <3> QED BY <3>2, <3>3
    <2>6. \A i \in lo..hi : i - lo + 1 \in DOMAIN s /\ lo + (i - lo + 1) - 1 = i
        BY <1>1, <2>1, <2>4
    <2>7. \A x : x \in ToSet(s) <=> \E i \in 1..N : x = ps[i] /\ i \in lo..hi
        <3>1. ASSUME NEW x, x \in ToSet(s) PROVE \E i \in 1..N : x = ps[i] /\ i \in lo..hi
            <4>1. PICK i \in DOMAIN s : x = s[i]
                BY <3>1 DEF ToSet
            <4>2. lo + i - 1 \in 1..N /\ lo + i - 1 \in lo..hi /\ x = ps[lo + i - 1]
                BY <2>5, <4>1
            <4> QED BY <4>2
        <3>2. ASSUME NEW i \in 1..N, i \in lo..hi PROVE ps[i] \in ToSet(s)
            <4> DEFINE j == i - lo + 1
            <4>1. j \in DOMAIN s /\ lo + j - 1 = i
                BY <2>6, <3>2
            <4> HIDE DEF j
            <4>2. s[j] = ps[i]
                BY <2>5, <4>1
            <4> QED BY <4>1, <4>2 DEF ToSet
        <3> QED BY <3>1, <3>2
    <2>8. \A i, j \in 1..N : ps[i] = ps[j] => i = j
        BY <1>1 DEF IsInjective
    <2>9. ASSUME NEW i \in DOMAIN s, NEW j \in DOMAIN s, s[i] = s[j] PROVE i = j
        <3>1. lo + i - 1 = lo + j - 1
            BY <2>5, <2>8, <2>9
        <3>2. i \in Int /\ j \in Int
            BY <2>4
        <3> QED BY <2>1, <1>1, <3>1, <3>2
    <2>10. IsInjective(s)
        BY <2>9 DEF IsInjective
    <2>11. \A x : x \in ToSet(s) <=> \E i \in 1..N : x = ps[i] /\ (i + 1) \div 2 = n
        BY <2>1, <2>7
    <2> QED BY <2>2, <2>3, <2>10, <2>11
<1>6. DOMAIN p = 1..M /\ p \in [1..M -> Y]
    BY <1>2, <1>5
<1>7. p \in Seq(Y)
    <2> HIDE DEF Y
    <2> QED BY <1>1, <1>6
<1>8. \A i, j \in 1..N : ps[i] = ps[j] => i = j
    BY <1>1 DEF IsInjective
<1>9. \A m, n \in 1..M : m # n => ToSet(p[m]) \cap ToSet(p[n]) = {}
    <2> SUFFICES ASSUME NEW m \in 1..M, NEW n \in 1..M, m # n, NEW x, x \in ToSet(p[m]), x \in ToSet(p[n])
                 PROVE  FALSE
        OBVIOUS
    <2>1. PICK i \in 1..N : x = ps[i] /\ (i + 1) \div 2 = m
        BY <1>5
    <2>2. PICK j \in 1..N : x = ps[j] /\ (j + 1) \div 2 = n
        BY <1>5
    <2> QED BY <1>8, <2>1, <2>2
<1>10. \A n \in 1..M : ToSet(p[n]) \subseteq ToSet(ps)
    BY <1>1, <1>5 DEF ToSet
<1>11. ToSet(ps) \subseteq UNION {ToSet(p[n]) : n \in 1..M}
    <2> SUFFICES ASSUME NEW i \in 1..N PROVE \E n \in 1..M : ps[i] \in ToSet(p[n])
        BY <1>1 DEF ToSet
    <2> QED BY <1>4, <1>5
<1> QED BY <1>5, <1>6, <1>7, <1>9, <1>10, <1>11 DEF p

\* Parts of the clusters, with their bases, and turns that deal them.
Bases == {"none", "original", "user_provided"} \cup Recommendations
AnyClusters == [places : Seq(Nat), base : Bases]
IsPart(c, k) == ToSet(c.places) \subseteq ToSet(clusters[k].places) /\ c.base = clusters[k].base
Parts == {c \in AnyClusters : \E k \in DOMAIN clusters : IsPart(c, k)}
Turns == [part : Parts, day : DOMAIN days \cup {Least}]

\* The clusters have every place to visit once.
Clustered == /\ clusters \in Seq(AnyClusters)
             /\ IsInjective(PlacesOf(clusters)) /\ ToSet(PlacesOf(clusters)) = ToSet(POIs)

\* A part of a cluster that takes some of its places is one of the Parts.
LEMMA PartsTyped ==
    ASSUME clusters \in Seq(AnyClusters)
    PROVE  /\ PartSet(Parts) /\ PartSet(AnyClusters) /\ TurnSet(Turns, Parts, days)
           /\ clusters \in Seq(Parts)
           /\ \A k \in DOMAIN clusters : \A ps \in Seq(Nat) :
                  ToSet(ps) \subseteq ToSet(clusters[k].places) => Part(clusters[k], ps) \in Parts
<1>1. PartSet(Parts) /\ PartSet(AnyClusters) /\ TurnSet(Turns, Parts, days)
    BY DEF PartSet, Parts, AnyClusters, TurnSet, Turns
<1>2. \A k \in DOMAIN clusters : clusters[k] \in AnyClusters
    BY LenProperties, ElementOfSeq
<1>3. \A k \in DOMAIN clusters : clusters[k] \in Parts
    BY <1>2 DEF Parts, IsPart
<1>4. clusters \in Seq(Parts)
    <2> DEFINE n == Len(clusters)
    <2>1. DOMAIN clusters = 1..n /\ n \in Nat /\ clusters = [k \in DOMAIN clusters |-> clusters[k]]
        BY LenProperties
    <2> HIDE DEF n
    <2>2. clusters \in [1..n -> Parts]
        BY <1>3, <2>1
    <2> QED BY <2>1, <2>2
<1>5. ASSUME NEW k \in DOMAIN clusters, NEW ps, ps \in Seq(Nat),
             ToSet(ps) \subseteq ToSet(clusters[k].places)
      PROVE  Part(clusters[k], ps) \in Parts
    <2> DEFINE c == clusters[k]
               p == Part(c, ps)
    <2>1. p.places = ps /\ p.base = c.base /\ p = [places |-> ps, base |-> c.base]
        BY DEF Part
    <2>2. c.base \in Bases
        BY <1>2 DEF AnyClusters
    <2> HIDE DEF p, c
    <2>3. p \in AnyClusters
        BY <1>5, <2>1, <2>2 DEF AnyClusters
    <2>4. IsPart(p, k)
        BY <1>5, <2>1 DEF IsPart, c
    <2> QED BY <2>3, <2>4 DEF Parts, p, c
<1> QED BY <1>1, <1>4, <1>5

\* A list of parts, each with a day.
LEMMA TurnsOfParts ==
    ASSUME clusters \in Seq(AnyClusters), NEW s, NEW ps, ps \in Seq(Parts),
           DOMAIN s = DOMAIN ps, s = [i \in DOMAIN s |-> s[i]],
           \A i \in DOMAIN ps : \E d \in DOMAIN days \cup {Least} : s[i] = Turn(ps[i], d)
    PROVE  s \in Seq(Turns) /\ PartsOf(s) = ps
<1> DEFINE n == Len(ps)
<1>1. DOMAIN ps = 1..n /\ n \in Nat /\ ps = [i \in DOMAIN ps |-> ps[i]]
    BY LenProperties
<1>2. \A i \in DOMAIN ps : ps[i] \in Parts
    BY LenProperties, ElementOfSeq
<1>3. \A i \in DOMAIN ps : s[i] \in Turns /\ s[i].part = ps[i]
    BY <1>2 DEF Turn, Turns
<1>4. PartsOf(s) = ps
    BY <1>1, <1>3 DEF PartsOf
<1> HIDE DEF n
<1>5. s \in [1..n -> Turns]
    BY <1>1, <1>3
<1>6. s \in Seq(Turns)
    BY <1>1, <1>5
<1> QED BY <1>4, <1>6

\* Round robin names a day.
LEMMA RoundRobinDay == \A i \in Nat \ {0} : NDays \in Nat \ {0} => RoundRobin(i) \in 1..NDays
<1> SUFFICES ASSUME NEW i \in Nat \ {0}, NDays \in Nat \ {0} PROVE RoundRobin(i) \in 1..NDays
    OBVIOUS
<1> DEFINE n == NDays
           m == (i - 1) % n
<1>1. m \in 0..(n - 1)
    <2> HIDE DEF n
    <2>1. n \in Nat \ {0}
        BY DEF n
    <2> QED BY <2>1
<1>2. RoundRobin(i) = m + 1
    BY DEF RoundRobin
<1> HIDE DEF n, m
<1>3. n \in Nat
    BY DEF n
<1> QED BY <1>1, <1>2, <1>3 DEF n

\* The places sorted are the places.
LEMMA RankingOfPlaces ==
    ASSUME POIs \in Seq(Nat), IsInjective(POIs), NEW q, q \in Rankings
    PROVE  q \in Seq(Nat) /\ IsInjective(q) /\ ToSet(q) = ToSet(POIs)
<1> DEFINE n == Len(POIs)
           S == ToSet(POIs)
           D == DOMAIN POIs
<1>1. D = 1..n /\ n \in Nat /\ \A i \in D : POIs[i] \in Nat
    BY LenProperties, ElementOfSeq
<1>2. q \in [D -> S] /\ ToSet(q) = S
    BY DEF Rankings
<1>3. S \subseteq Nat
    BY <1>1 DEF ToSet
<1>7. POIs = [i \in D |-> POIs[i]]
    BY LenProperties
<1>4. POIs \in Injection(D, S) /\ POIs \in Surjection(D, S)
    BY <1>7 DEF Injection, Surjection, IsInjective, ToSet
<1>5. q \in Surjection(D, S)
    BY <1>2 DEF Surjection, ToSet
<1> HIDE DEF n, S, D
<1>6. IsFiniteSet(D)
    BY <1>1, FS_Interval
<1>8. Cardinality(S) = Cardinality(D)
    BY <1>4, <1>6, FS_Surjection
<1>9. q \in Injection(D, S)
    BY <1>5, <1>6, <1>8, FS_Surjection
<1>10. IsInjective(q)
    BY <1>9, <1>2 DEF Injection, IsInjective
<1>11. q \in [1..n -> Nat]
    BY <1>1, <1>2, <1>3
<1>12. q \in Seq(Nat)
    BY <1>1, <1>11
<1> QED BY <1>2, <1>10, <1>12 DEF S

\* The turns deal out each of these places once.
DealsOut(s, ps) == /\ s \in Seq(Turns)
                   /\ IsInjective(PlacesOf(PartsOf(s)))
                   /\ ToSet(PlacesOf(PartsOf(s))) = ToSet(ps)

\* What is clustered, cluster by cluster.
LEMMA ClusterPlaces ==
    ASSUME Clustered
    PROVE  /\ clusters \in Seq(AnyClusters) /\ PartSet(Parts) /\ clusters \in Seq(Parts)
           /\ \A k \in DOMAIN clusters :
                  /\ clusters[k] \in Parts /\ clusters[k].places \in Seq(Nat)
                  /\ IsInjective(clusters[k].places)
                  /\ ToSet(clusters[k].places) \subseteq ToSet(POIs)
           /\ \A k \in DOMAIN clusters : \A ps \in Seq(Nat) :
                  ToSet(ps) \subseteq ToSet(clusters[k].places) => Part(clusters[k], ps) \in Parts
<1>1. /\ clusters \in Seq(AnyClusters) /\ PartSet(Parts) /\ clusters \in Seq(Parts)
      /\ IsInjective(PlacesOf(clusters)) /\ ToSet(PlacesOf(clusters)) = ToSet(POIs)
      /\ \A k \in DOMAIN clusters : \A ps \in Seq(Nat) :
             ToSet(ps) \subseteq ToSet(clusters[k].places) => Part(clusters[k], ps) \in Parts
    BY PartsTyped DEF Clustered
<1>2. \A k \in DOMAIN clusters : clusters[k] \in Parts
    BY <1>1, LenProperties, ElementOfSeq
<1>3. \A k \in DOMAIN clusters : clusters[k].places \in Seq(Nat)
    BY <1>1, <1>2 DEF PartSet
<1>4. /\ ToSet(PlacesOf(clusters)) = UNION {ToSet(clusters[k].places) : k \in DOMAIN clusters}
      /\ \A k \in DOMAIN clusters : IsInjective(clusters[k].places)
    BY <1>1, PlacesApart
<1>5. ASSUME NEW k \in DOMAIN clusters PROVE ToSet(clusters[k].places) \subseteq ToSet(POIs)
    BY <1>1, <1>4
<1> QED BY <1>1, <1>2, <1>3, <1>4, <1>5

\* OneByOne deals out the places of a cluster, in whatever order they are.
LEMMA OneByOneDeals ==
    ASSUME Clustered, DayLists(days, Parts), NEW k \in DOMAIN clusters,
           NEW ps, ps \in Seq(Nat), IsInjective(ps), ToSet(ps) = ToSet(clusters[k].places)
    PROVE  DealsOut(OneByOne(clusters[k], ps), clusters[k].places)
<1> DEFINE c == clusters[k]
           s == OneByOne(c, ps)
           singles == Singles(c, ps)
<1>1. clusters \in Seq(AnyClusters) /\ PartSet(Parts)
    BY ClusterPlaces
<1>2. ASSUME NEW i \in DOMAIN ps PROVE Part(c, <<ps[i]>>) \in Parts
    <2> DEFINE x == ps[i]
               one == <<x>>
    <2>1. x \in Nat /\ x \in ToSet(ps)
        <3>1. x \in Nat
            BY LenProperties, ElementOfSeq
        <3> QED BY <3>1 DEF ToSet
    <2>2. one \in Seq(Nat)
        BY <2>1
    <2>3. ToSet(one) \subseteq ToSet(ps)
        BY <2>1 DEF ToSet
    <2> HIDE DEF one
    <2>4. Part(clusters[k], one) \in Parts
        BY <2>2, <2>3, ClusterPlaces
    <2> QED BY <2>4 DEF one
<1>3. /\ singles \in Seq(Parts) /\ DOMAIN singles = DOMAIN ps
      /\ IsInjective(PlacesOf(singles)) /\ ToSet(PlacesOf(singles)) = ToSet(ps)
    <2>1. \A i \in DOMAIN ps : Part(c, <<ps[i]>>) \in Parts
        BY <1>2
    <2> HIDE DEF c
    <2> QED BY <1>1, <2>1, SinglesElements
<1>4. DOMAIN ps = 1..Len(ps) /\ Len(ps) \in Nat
    BY LenProperties
<1>5. NDays \in Nat \ {0} /\ DOMAIN days = 1..NDays
    <2>1. NDays \in Nat /\ DOMAIN days = 1..NDays /\ DOMAIN days # {}
        BY LenProperties DEF DayLists, NDays
    <2> QED BY <2>1
<1>6. \A i \in DOMAIN ps : s[i] = Turn(singles[i], RoundRobin(i))
    BY DEF OneByOne
<1>7. DOMAIN s = DOMAIN ps /\ s = [i \in DOMAIN s |-> s[i]]
    BY DEF OneByOne
<1> HIDE DEF s, singles
<1>8. ASSUME NEW i \in DOMAIN ps PROVE \E d \in DOMAIN days \cup {Least} : s[i] = Turn(singles[i], d)
    <2>1. i \in Nat \ {0}
        BY <1>4
    <2>2. RoundRobin(i) \in DOMAIN days
        BY <1>5, <2>1, RoundRobinDay
    <2> QED BY <1>6, <2>2
<1>9. s \in Seq(Turns) /\ PartsOf(s) = singles
    <2>1. \A i \in DOMAIN singles : \E d \in DOMAIN days \cup {Least} : s[i] = Turn(singles[i], d)
        BY <1>3, <1>8
    <2> QED BY <1>1, <1>3, <1>7, <2>1, TurnsOfParts
<1>10. DealsOut(s, c.places)
    BY <1>3, <1>9 DEF DealsOut
<1> QED BY <1>10 DEF s

\* So does a single turn with the whole cluster.
LEMMA WholeDeals ==
    ASSUME Clustered, NEW k \in DOMAIN clusters
    PROVE  DealsOut(<<Turn(clusters[k], Least)>>, clusters[k].places)
<1> DEFINE c == clusters[k]
           t == Turn(c, Least)
           s == <<t>>
           ps == <<c>>
           none == <<>>
<1>1. /\ clusters \in Seq(AnyClusters) /\ PartSet(Parts) /\ c \in Parts
      /\ c.places \in Seq(Nat) /\ IsInjective(c.places)
    BY ClusterPlaces
<1>2. DOMAIN s = {1} /\ s[1] = t /\ DOMAIN ps = {1} /\ ps[1] = c /\ s = [i \in DOMAIN s |-> s[i]]
    OBVIOUS
<1>3. ps \in Seq(Parts) /\ none \in Seq(Parts) /\ ps = Append(none, c)
    BY <1>1
<1> HIDE DEF c, none
<1>4. PlacesOf(none) = none /\ PlacesOf(ps) = none \o c.places
    <2>1. PlacesOf(none) = none
        BY <1>1, PlacesStep DEF PartSet, none
    <2>2. PlacesOf(Append(none, c)) = PlacesOf(none) \o c.places
        BY <1>1, <1>3, PlacesStep DEF PartSet
    <2> HIDE DEF ps
    <2> QED BY <1>3, <2>1, <2>2
<1>5. PlacesOf(ps) = c.places
    <2> DEFINE p == c.places
    <2>1. none \o p = p
        <3> HIDE DEF p
        <3> QED BY <1>1, ConcatEmptySeq DEF p, none
    <2> QED BY <1>4, <2>1
<1>6. \A i \in DOMAIN ps : \E d \in DOMAIN days \cup {Least} : s[i] = Turn(ps[i], d)
    BY <1>2
<1> HIDE DEF s, ps
<1>7. s \in Seq(Turns) /\ PartsOf(s) = ps
    BY <1>1, <1>2, <1>3, <1>6, TurnsOfParts
<1>8. DealsOut(s, c.places)
    BY <1>1, <1>5, <1>7 DEF DealsOut
<1> QED BY <1>8 DEF s, c

\* So do the turns of two places each, the last one of what is left.
LEMMA PairsDeal ==
    ASSUME Clustered, NEW k \in DOMAIN clusters
    PROVE  DealsOut([n \in DOMAIN Pairs(clusters[k].places) |->
                        Turn(Part(clusters[k], Pairs(clusters[k].places)[n]), Least)],
                    clusters[k].places)
<1> DEFINE c == clusters[k]
           pairs == Pairs(c.places)
           s == [n \in DOMAIN pairs |-> Turn(Part(c, pairs[n]), Least)]
           ps == [n \in DOMAIN pairs |-> Part(c, pairs[n])]
<1>1. clusters \in Seq(AnyClusters) /\ PartSet(Parts) /\ c.places \in Seq(Nat) /\ IsInjective(c.places)
    BY ClusterPlaces
<1>2. /\ pairs \in Seq(Seq(Nat))
      /\ \A n \in DOMAIN pairs : IsInjective(pairs[n]) /\ ToSet(pairs[n]) \subseteq ToSet(c.places)
      /\ \A m, n \in DOMAIN pairs : m # n => ToSet(pairs[m]) \cap ToSet(pairs[n]) = {}
      /\ UNION {ToSet(pairs[n]) : n \in DOMAIN pairs} = ToSet(c.places)
    <2> DEFINE q == c.places
    <2> HIDE DEF c, q
    <2> QED BY <1>1, PairsElements DEF q
<1>3. /\ DOMAIN s = DOMAIN pairs /\ DOMAIN ps = DOMAIN pairs /\ s = [i \in DOMAIN s |-> s[i]]
      /\ \A n \in DOMAIN pairs : ps[n] = Part(c, pairs[n]) /\ ps[n].places = pairs[n]
      /\ \A n \in DOMAIN pairs : s[n] = Turn(ps[n], Least)
    BY DEF Part
<1> HIDE DEF s, pairs
<1>4. \A n \in DOMAIN pairs : ps[n] \in Parts
    <2> SUFFICES ASSUME NEW n \in DOMAIN pairs PROVE ps[n] \in Parts
        OBVIOUS
    <2> DEFINE q == pairs[n]
    <2>1. q \in Seq(Nat)
        <3> DEFINE Y == Seq(Nat)
        <3>1. pairs \in Seq(Y)
            BY <1>2
        <3> HIDE DEF Y
        <3> QED BY <3>1, LenProperties, ElementOfSeq DEF Y
    <2>2. ToSet(q) \subseteq ToSet(c.places)
        BY <1>2
    <2> HIDE DEF q
    <2>3. Part(clusters[k], q) \in Parts
        BY <2>1, <2>2, ClusterPlaces
    <2> QED BY <1>3, <2>3 DEF q
<1> DEFINE n0 == Len(pairs)
<1>5. DOMAIN pairs = 1..n0 /\ n0 \in Nat
    <2> DEFINE Y == Seq(Nat)
    <2>1. pairs \in Seq(Y)
        BY <1>2
    <2> HIDE DEF Y
    <2> QED BY <2>1, LenProperties
<1>6. ps \in Seq(Parts)
    <2> HIDE DEF n0
    <2>1. ps \in [1..n0 -> Parts]
        BY <1>4, <1>5
    <2> QED BY <1>5, <2>1
<1> HIDE DEF ps, n0
<1>7. \A i \in DOMAIN ps : \E d \in DOMAIN days \cup {Least} : s[i] = Turn(ps[i], d)
    BY <1>3
<1>8. s \in Seq(Turns) /\ PartsOf(s) = ps
    BY <1>1, <1>3, <1>6, <1>7, TurnsOfParts
<1>9. /\ ToSet(PlacesOf(ps)) = UNION {ToSet(ps[n].places) : n \in DOMAIN ps}
      /\ IsInjective(PlacesOf(ps)) <=>
             /\ \A n \in DOMAIN ps : IsInjective(ps[n].places)
             /\ \A m, n \in DOMAIN ps : m # n => ToSet(ps[m].places) \cap ToSet(ps[n].places) = {}
    BY <1>1, <1>6, PlacesApart
<1>10. UNION {ToSet(ps[n].places) : n \in DOMAIN ps} = UNION {ToSet(pairs[n]) : n \in DOMAIN pairs}
    <2>1. ASSUME NEW x
          PROVE  (\E n \in DOMAIN ps : x \in ToSet(ps[n].places)) <=> \E n \in DOMAIN pairs : x \in ToSet(pairs[n])
        BY <1>3
    <2> QED BY <2>1
<1>11. \A n \in DOMAIN ps : IsInjective(ps[n].places)
    BY <1>2, <1>3
<1>12. ASSUME NEW m \in DOMAIN ps, NEW n \in DOMAIN ps, m # n
       PROVE  ToSet(ps[m].places) \cap ToSet(ps[n].places) = {}
    BY <1>2, <1>3, <1>12
<1>13. IsInjective(PlacesOf(ps)) /\ ToSet(PlacesOf(ps)) = ToSet(c.places)
    BY <1>2, <1>9, <1>10, <1>11, <1>12
<1>14. DealsOut(s, c.places)
    BY <1>8, <1>13 DEF DealsOut
<1> QED BY <1>14 DEF s, pairs

Ways == {"group_same_day", "group_pairs", "distribute", "distribute_far"}

\* However a cluster is split, its places are dealt out.
LEMMA ClusterDeals ==
    ASSUME Clustered, DayLists(days, Parts), POIs \in Seq(Nat), IsInjective(POIs),
           NEW k \in DOMAIN clusters, NEW way, way \in Ways, NEW ranking, ranking \in Rankings
    PROVE  DealsOut(DealCluster(clusters[k], way, ranking), clusters[k].places)
<1> DEFINE c == clusters[k]
<1>1. CASE way = "group_same_day"
    <2>1. DealCluster(c, way, ranking) = <<Turn(c, Least)>>
        BY <1>1 DEF DealCluster
    <2> QED BY <2>1, WholeDeals
<1>2. CASE way = "group_pairs"
    <2>1. DealCluster(c, way, ranking) =
              [n \in DOMAIN Pairs(c.places) |-> Turn(Part(c, Pairs(c.places)[n]), Least)]
        BY <1>2 DEF DealCluster
    <2> QED BY <2>1, PairsDeal
<1>3. CASE way = "distribute"
    <2>1. DealCluster(c, way, ranking) = OneByOne(c, c.places)
        BY <1>3 DEF DealCluster
    <2>2. c.places \in Seq(Nat) /\ IsInjective(c.places)
        BY ClusterPlaces
    <2> QED BY <2>1, <2>2, OneByOneDeals
<1>4. CASE way = "distribute_far"
    <2> DEFINE S == ToSet(c.places)
               ps == Kept(ranking, S)
    <2>1. DealCluster(c, way, ranking) = OneByOne(c, ps)
        BY <1>4 DEF DealCluster
    <2>2. ranking \in Seq(Nat) /\ IsInjective(ranking) /\ ToSet(ranking) = ToSet(POIs)
        BY RankingOfPlaces
    <2>3. S \subseteq ToSet(POIs)
        BY ClusterPlaces
    <2>4. ps \in Seq(Nat) /\ IsInjective(ps) /\ ToSet(ps) = S
        <3>1. ps \in Seq(Nat)
            BY <2>2, KeptStep
        <3>2. ToSet(ps) = ToSet(ranking) \cap S /\ (IsInjective(ranking) => IsInjective(ps))
            <4> HIDE DEF S
            <4> QED BY <2>2, KeptElements
        <3> QED BY <2>2, <2>3, <3>1, <3>2
    <2> HIDE DEF ps
    <2>5. DealsOut(OneByOne(clusters[k], ps), clusters[k].places)
        BY <2>4, OneByOneDeals
    <2> QED BY <2>1, <2>5
<1> QED BY <1>1, <1>2, <1>3, <1>4 DEF Ways

\* The turns of the clusters one after the other.
LEMMA JoinedDeals ==
    ASSUME Clustered, NEW tt, DOMAIN tt = DOMAIN clusters, tt = [k \in DOMAIN tt |-> tt[k]],
           \A k \in DOMAIN clusters : DealsOut(tt[k], clusters[k].places)
    PROVE  DealsOut(Joined(tt), POIs)
<1> DEFINE Y == Turns
           F == [t \in Y |-> t.part.places]
           n == Len(clusters)
           Z == Seq(Turns)
           w == [k \in DOMAIN clusters |-> clusters[k].places]
           v == Flats(F, tt)
<1>1. /\ clusters \in Seq(AnyClusters) /\ PartSet(Parts) /\ clusters \in Seq(Parts)
      /\ IsInjective(PlacesOf(clusters)) /\ ToSet(PlacesOf(clusters)) = ToSet(POIs)
    BY ClusterPlaces DEF Clustered
<1>2. DOMAIN clusters = 1..n /\ n \in Nat
    BY <1>1, LenProperties
<1>3. tt \in Seq(Z)
    <2>1. \A k \in DOMAIN clusters : tt[k] \in Z
        BY DEF DealsOut
    <2> HIDE DEF n, Z
    <2>2. tt \in [1..n -> Z]
        BY <1>2, <2>1
    <2> QED BY <1>2, <2>2
<1>4. F \in [Y -> Seq(Nat)] /\ \A t \in Y : F[t] = t.part.places
    <2>1. \A t \in Y : t.part \in Parts
        BY DEF Turns
    <2>2. \A t \in Y : t.part.places \in Seq(Nat)
        BY <1>1, <2>1 DEF PartSet
    <2> QED BY <2>2
<1> HIDE DEF F
<1>5. ASSUME NEW s, s \in Seq(Y) PROVE PlacesOf(PartsOf(s)) = Flat(F, s)
    <2>1. \A i \in DOMAIN s : s[i] \in Y
        BY <1>5, LenProperties, ElementOfSeq
    <2>2. \A i \in DOMAIN s : PartsOf(s)[i].places = F[s[i]]
        BY <1>4, <2>1 DEF PartsOf
    <2>3. DOMAIN PartsOf(s) = DOMAIN s
        BY DEF PartsOf
    <2>4. [i \in DOMAIN PartsOf(s) |-> PartsOf(s)[i].places] = [i \in DOMAIN s |-> F[s[i]]]
        BY <2>2, <2>3
    <2> QED BY <2>4 DEF PlacesOf, Flat
<1>6. Lister(F, Y, Nat)
    BY <1>4 DEF Lister
<1>7. v \in Seq(Seq(Nat)) /\ Flat(F, Joined(tt)) = Joined(v)
    BY <1>3, <1>6, FlatJoined
<1>8. Joined(tt) \in Seq(Y)
    BY <1>3, JoinedStep
<1>9. PlacesOf(PartsOf(Joined(tt))) = Joined(v)
    BY <1>5, <1>7, <1>8
<1>10. w \in Seq(Seq(Nat)) /\ Joined(w) = PlacesOf(clusters)
    BY <1>1, PlacesApart DEF PlacesOf
<1>11. DOMAIN v = DOMAIN clusters /\ DOMAIN w = DOMAIN clusters
    BY DEF Flats
<1>12. ASSUME NEW k \in DOMAIN clusters PROVE IsInjective(v[k]) /\ ToSet(v[k]) = ToSet(w[k])
    <2> DEFINE s == tt[k]
    <2>1. /\ s \in Seq(Y) /\ IsInjective(PlacesOf(PartsOf(s)))
          /\ ToSet(PlacesOf(PartsOf(s))) = ToSet(clusters[k].places)
        BY DEF DealsOut
    <2>2. PlacesOf(PartsOf(s)) = Flat(F, s)
        BY <1>5, <2>1
    <2>3. v[k] = Flat(F, s) /\ w[k] = clusters[k].places
        BY DEF Flats
    <2> QED BY <2>1, <2>2, <2>3
<1> HIDE DEF v, w
<1>13. IsInjective(Joined(v)) /\ ToSet(Joined(v)) = ToSet(Joined(w))
    <2>1. \A k \in DOMAIN w : IsInjective(v[k]) /\ ToSet(v[k]) = ToSet(w[k])
        BY <1>11, <1>12
    <2>2. IsInjective(Joined(w))
        BY <1>1, <1>10
    <2>3. DOMAIN v = DOMAIN w
        BY <1>11
    <2> QED BY <1>7, <1>10, <2>1, <2>2, <2>3, SameElements
<1> QED BY <1>1, <1>8, <1>9, <1>10, <1>13 DEF DealsOut

\* Dealt to empty days, they are on the days.
LEMMA DealtPlaces ==
    ASSUME Clustered, NEW ds, DayLists(ds, Parts), DOMAIN ds = DOMAIN days, Covers(ds, {}),
           NEW s, DealsOut(s, POIs)
    PROVE  /\ DayLists(Dealt(ds, s), Parts) /\ DOMAIN Dealt(ds, s) = DOMAIN days
           /\ Covers(Dealt(ds, s), ToSet(POIs))
<1>1. PartSet(Parts) /\ TurnSet(Turns, Parts, ds)
    BY PartsTyped DEF Clustered, TurnSet
<1>2. /\ s \in Seq(Turns) /\ IsInjective(PlacesOf(PartsOf(s)))
      /\ ToSet(PlacesOf(PartsOf(s))) = ToSet(POIs)
    BY DEF DealsOut
<1>3. /\ Dealt(ds, s) \in Seq(Seq(Parts)) /\ DOMAIN Dealt(ds, s) = DOMAIN ds
      /\ Covers(Dealt(ds, s), ToSet(PlacesOf(PartsOf(s))))
    BY <1>1, <1>2, DealtCovers
<1>4. DOMAIN ds # {}
    BY DEF DayLists
<1> QED BY <1>2, <1>3, <1>4 DEF DayLists

\* The relaxed mode puts every place on a day, once.
LEMMA RelaxedDeals ==
    ASSUME Clustered, DayLists(days, Parts), Covers(days, {})
    PROVE  DayLists(_distribute_relaxed_mode, Parts) /\ Covers(_distribute_relaxed_mode, ToSet(POIs))
<1> DEFINE ss == [k \in DOMAIN clusters |-> Singles(clusters[k], clusters[k].places)]
           singles == Joined(ss)
           s == [i \in DOMAIN singles |-> Turn(singles[i], IF i <= NDays THEN i ELSE Least)]
           Y == Seq(Parts)
           n == Len(clusters)
           v == [k \in DOMAIN clusters |-> PlacesOf(ss[k])]
           w == [k \in DOMAIN clusters |-> clusters[k].places]
<1>1. /\ clusters \in Seq(AnyClusters) /\ PartSet(Parts) /\ clusters \in Seq(Parts)
      /\ IsInjective(PlacesOf(clusters)) /\ ToSet(PlacesOf(clusters)) = ToSet(POIs)
    BY ClusterPlaces DEF Clustered
<1>2. DOMAIN clusters = 1..n /\ n \in Nat
    BY <1>1, LenProperties
<1>3. ASSUME NEW k \in DOMAIN clusters
      PROVE  /\ ss[k] \in Y /\ IsInjective(PlacesOf(ss[k])) /\ PlacesOf(ss[k]) \in Seq(Nat)
             /\ ToSet(PlacesOf(ss[k])) = ToSet(clusters[k].places)
    <2> DEFINE c == clusters[k]
               ps == c.places
    <2>1. ps \in Seq(Nat) /\ IsInjective(ps)
        BY ClusterPlaces
    <2>2. ASSUME NEW i \in DOMAIN ps PROVE Part(c, <<ps[i]>>) \in Parts
        <3> DEFINE x == ps[i]
                   one == <<x>>
        <3>1. x \in Nat /\ x \in ToSet(ps)
            <4>1. x \in Nat
                BY <2>1, LenProperties, ElementOfSeq
            <4> QED BY <4>1 DEF ToSet
        <3>2. one \in Seq(Nat) /\ ToSet(one) \subseteq ToSet(ps)
            BY <3>1 DEF ToSet
        <3> HIDE DEF one
        <3>3. Part(clusters[k], one) \in Parts
            BY <3>2, ClusterPlaces
        <3> QED BY <3>3 DEF one
    <2>3. \A i \in DOMAIN ps : Part(c, <<ps[i]>>) \in Parts
        BY <2>2
    <2> DEFINE t == Singles(c, ps)
    <2>4. t \in Seq(Parts) /\ IsInjective(PlacesOf(t)) /\ ToSet(PlacesOf(t)) = ToSet(ps)
        <3> HIDE DEF c, ps
        <3> QED BY <1>1, <2>1, <2>3, SinglesElements
    <2>5. ss[k] = t
        OBVIOUS
    <2> HIDE DEF t, ss
    <2>6. PlacesOf(t) \in Seq(Nat)
        BY <1>1, <2>4, PlacesStep DEF PartSet
    <2> QED BY <2>4, <2>5, <2>6
<1>4. DOMAIN ss = DOMAIN clusters
    OBVIOUS
<1>5. ss \in Seq(Y)
    <2>1. ss = [k \in DOMAIN ss |-> ss[k]]
        OBVIOUS
    <2> HIDE DEF n, Y, ss
    <2>2. ss \in [1..n -> Y]
        BY <1>2, <1>3, <1>4, <2>1
    <2> HIDE <2>1
    <2> QED BY <1>2, <2>2
<1>6. /\ v \in [DOMAIN ss -> Seq(Nat)] /\ DOMAIN v = DOMAIN clusters
      /\ \A k \in DOMAIN clusters : v[k] = PlacesOf(ss[k])
    BY <1>3
<1> HIDE DEF ss, v
<1>7. singles \in Seq(Parts) /\ PlacesOf(singles) = Joined(v)
    <2>1. \A k \in DOMAIN ss : v[k] = PlacesOf(ss[k])
        BY <1>4, <1>6
    <2>2. Joined(ss) \in Seq(Parts)
        BY <1>5, JoinedStep
    <2>3. PlacesOf(Joined(ss)) = Joined(v)
        BY <1>1, <1>5, <1>6, <2>1, PlacesJoined DEF PartSet
    <2> QED BY <2>2, <2>3
<1>8. v \in Seq(Seq(Nat))
    <2> DEFINE X == Seq(Nat)
    <2>1. v \in [DOMAIN ss -> X]
        BY <1>6
    <2> HIDE DEF X, n
    <2>2. v \in [1..n -> X]
        BY <1>2, <1>4, <2>1
    <2> HIDE <2>1
    <2>3. v \in Seq(X)
        BY <1>2, <2>2
    <2> QED BY <2>3 DEF X
<1>9. w \in Seq(Seq(Nat)) /\ Joined(w) = PlacesOf(clusters)
    BY <1>1, PlacesApart DEF PlacesOf
<1>10. DOMAIN w = DOMAIN clusters /\ \A k \in DOMAIN clusters : w[k] = clusters[k].places
    OBVIOUS
<1> HIDE DEF w
<1>11. IsInjective(Joined(v)) /\ ToSet(Joined(v)) = ToSet(Joined(w))
    <2>1. \A k \in DOMAIN w : IsInjective(v[k]) /\ ToSet(v[k]) = ToSet(w[k])
        BY <1>3, <1>6, <1>10
    <2>2. DOMAIN v = DOMAIN w /\ IsInjective(Joined(w))
        BY <1>1, <1>6, <1>9, <1>10
    <2> QED BY <1>8, <1>9, <2>1, <2>2, SameElements
<1>12. NDays \in Nat /\ DOMAIN days = 1..NDays /\ DOMAIN singles = 1..Len(singles) /\ Len(singles) \in Nat
    BY <1>7, LenProperties DEF DayLists, NDays
<1> HIDE DEF singles
<1>13. \A i \in DOMAIN singles : \E d \in DOMAIN days \cup {Least} : s[i] = Turn(singles[i], d)
    <2> SUFFICES ASSUME NEW i \in DOMAIN singles
                 PROVE  \E d \in DOMAIN days \cup {Least} : s[i] = Turn(singles[i], d)
        OBVIOUS
    <2>1. (IF i <= NDays THEN i ELSE Least) \in DOMAIN days \cup {Least}
        BY <1>12
    <2>2. s[i] = Turn(singles[i], IF i <= NDays THEN i ELSE Least)
        OBVIOUS
    <2> QED BY <2>1, <2>2
<1>14. DOMAIN s = DOMAIN singles /\ s = [i \in DOMAIN s |-> s[i]]
    OBVIOUS
<1>15. _distribute_relaxed_mode = Dealt(days, s)
    BY DEF _distribute_relaxed_mode, singles, ss
<1> HIDE DEF s
<1>16. s \in Seq(Turns) /\ PartsOf(s) = singles
    BY <1>1, <1>7, <1>13, <1>14, TurnsOfParts
<1>17. DealsOut(s, POIs)
    BY <1>1, <1>7, <1>9, <1>11, <1>16 DEF DealsOut
<1> QED BY <1>15, <1>17, DealtPlaces

\* So does the balanced mode, whatever is suggested for each cluster.
LEMMA BalancedDeals ==
    ASSUME Clustered, DayLists(days, Parts), Covers(days, {}), POIs \in Seq(Nat), IsInjective(POIs),
           NEW suggested,
           suggested \in [SeveralWays -> UNION {_evaluate_route_sequences(clusters[k].places) : k \in SeveralWays}],
           NEW ranking, ranking \in Rankings
    PROVE  /\ DayLists(_distribute_balanced_mode(suggested, ranking), Parts)
           /\ Covers(_distribute_balanced_mode(suggested, ranking), ToSet(POIs))
<1> DEFINE way(k) == IF k \in SeveralWays THEN suggested[k] ELSE "group_same_day"
           tt == [k \in DOMAIN clusters |-> DealCluster(clusters[k], way(k), ranking)]
<1>1. ASSUME NEW k PROVE way(k) \in Ways
    <2>1. UNION {_evaluate_route_sequences(clusters[j].places) : j \in SeveralWays} \subseteq Ways
        BY DEF _evaluate_route_sequences, Ways
    <2>2. "group_same_day" \in Ways
        BY DEF Ways
    <2>3. k \in SeveralWays => suggested[k] \in Ways
        BY <2>1
    <2> QED BY <2>2, <2>3
<1>2. _distribute_balanced_mode(suggested, ranking) = Dealt(days, Joined(tt))
    BY DEF _distribute_balanced_mode
<1> HIDE DEF way
<1>3. ASSUME NEW k \in DOMAIN clusters PROVE DealsOut(tt[k], clusters[k].places)
    <2>1. tt[k] = DealCluster(clusters[k], way(k), ranking)
        OBVIOUS
    <2>2. way(k) \in Ways
        BY <1>1
    <2> HIDE DEF tt
    <2> QED BY <2>1, <2>2, ClusterDeals
<1>4. DOMAIN tt = DOMAIN clusters /\ tt = [k \in DOMAIN tt |-> tt[k]]
    OBVIOUS
<1> HIDE DEF tt
<1>5. DealsOut(Joined(tt), POIs)
    <2>1. \A k \in DOMAIN clusters : DealsOut(tt[k], clusters[k].places)
        BY <1>3
    <2> QED BY <1>4, <2>1, JoinedDeals
<1> QED BY <1>2, <1>5, DealtPlaces

\* So does the intensive mode.
LEMMA IntensiveDeals ==
    ASSUME Clustered, DayLists(days, Parts), Covers(days, {})
    PROVE  DayLists(_distribute_intensive_mode, Parts) /\ Covers(_distribute_intensive_mode, ToSet(POIs))
<1> DEFINE s == [k \in DOMAIN clusters |-> Turn(clusters[k], Least)]
<1>1. /\ clusters \in Seq(AnyClusters) /\ clusters \in Seq(Parts)
      /\ IsInjective(PlacesOf(clusters)) /\ ToSet(PlacesOf(clusters)) = ToSet(POIs)
    BY ClusterPlaces DEF Clustered
<1>2. /\ DOMAIN s = DOMAIN clusters /\ s = [k \in DOMAIN s |-> s[k]]
      /\ \A k \in DOMAIN clusters : s[k] = Turn(clusters[k], Least)
    OBVIOUS
<1>3. _distribute_intensive_mode = Dealt(days, s)
    BY DEF _distribute_intensive_mode
<1> HIDE DEF s
<1>4. s \in Seq(Turns) /\ PartsOf(s) = clusters
    <2>1. \A k \in DOMAIN clusters : \E d \in DOMAIN days \cup {Least} : s[k] = Turn(clusters[k], d)
        BY <1>2
    <2> QED BY <1>1, <1>2, <2>1, TurnsOfParts
<1>5. DealsOut(s, POIs)
    BY <1>1, <1>4 DEF DealsOut
<1> QED BY <1>3, <1>5, DealtPlaces

\* However the days are packed: a place on the days was there before, and none is lost
\* unless the days are full.
PackedWell(ds) ==
    /\ DayLists(ds, Parts)
    /\ \E U \in SUBSET ToSet(POIs) :
           /\ Covers(ds, U)
           /\ U # ToSet(POIs) => strategy = "compact" /\ \A d \in DOMAIN ds : Len(ds[d]) = MaxPerDay

\* What the packing begins with.
LEMMA DaysJoined ==
    ASSUME DayLists(days, Parts), Covers(days, ToSet(POIs))
    PROVE  /\ AllClusters \in Seq(Parts) /\ IsInjective(PlacesOf(AllClusters))
           /\ ToSet(PlacesOf(AllClusters)) = ToSet(POIs)
BY JoinedStep DEF DayLists, Covers, AllClusters

\* The balanced packing takes everything off the days and loses none of it.
LEMMA BalancedPacks ==
    ASSUME Clustered, DayLists(days, Parts), Covers(days, ToSet(POIs))
    PROVE  PackedWell(_pack_balanced)
<1> DEFINE ps == AllClusters
           s == [i \in DOMAIN ps |-> Turn(ps[i], RoundRobin(i))]
<1>1. /\ ps \in Seq(Parts) /\ IsInjective(PlacesOf(ps)) /\ ToSet(PlacesOf(ps)) = ToSet(POIs)
    BY DaysJoined
<1>2. /\ DOMAIN s = DOMAIN ps /\ s = [i \in DOMAIN s |-> s[i]]
      /\ \A i \in DOMAIN ps : s[i] = Turn(ps[i], RoundRobin(i))
    OBVIOUS
<1>3. _pack_balanced = Dealt(NoDays, s)
    BY DEF _pack_balanced
<1>4. clusters \in Seq(AnyClusters) /\ PartSet(Parts)
    BY ClusterPlaces
<1>5. /\ NDays \in Nat \ {0} /\ DOMAIN days = 1..NDays /\ DayLists(NoDays, Parts)
      /\ DOMAIN NoDays = DOMAIN days /\ Covers(NoDays, {})
    BY <1>4, NoDaysEmpty
<1> HIDE DEF s, ps
<1>6. \A i \in DOMAIN ps : \E d \in DOMAIN days \cup {Least} : s[i] = Turn(ps[i], d)
    <2> SUFFICES ASSUME NEW i \in DOMAIN ps
                 PROVE  \E d \in DOMAIN days \cup {Least} : s[i] = Turn(ps[i], d)
        OBVIOUS
    <2>1. i \in Nat \ {0}
        <3>1. DOMAIN ps = 1..Len(ps) /\ Len(ps) \in Nat
            BY <1>1, LenProperties
        <3> QED BY <3>1
    <2>2. RoundRobin(i) \in DOMAIN days
        BY <1>5, <2>1, RoundRobinDay
    <2> QED BY <1>2, <2>2
<1>7. s \in Seq(Turns) /\ PartsOf(s) = ps
    BY <1>1, <1>2, <1>4, <1>6, TurnsOfParts
<1>8. DealsOut(s, POIs)
    BY <1>1, <1>7 DEF DealsOut
<1>9. DayLists(_pack_balanced, Parts) /\ Covers(_pack_balanced, ToSet(POIs))
    BY <1>3, <1>5, <1>8, DealtPlaces
<1> QED BY <1>9 DEF PackedWell

\* The compact packing drops places only when every day is full.
LEMMA CompactPacks ==
    ASSUME Clustered, DayLists(days, Parts), Covers(days, ToSet(POIs)), strategy = "compact"
    PROVE  PackedWell(_pack_compact)
<1>1. /\ AllClusters \in Seq(Parts) /\ IsInjective(PlacesOf(AllClusters))
      /\ ToSet(PlacesOf(AllClusters)) = ToSet(POIs)
    BY DaysJoined
<1>2. PartSet(Parts)
    BY ClusterPlaces
<1>3. /\ _pack_compact \in Seq(Seq(Parts)) /\ DOMAIN _pack_compact = DOMAIN days
      /\ \E U \in SUBSET ToSet(PlacesOf(AllClusters)) :
             /\ Covers(_pack_compact, U)
             /\ U # ToSet(PlacesOf(AllClusters)) =>
                    \A d \in DOMAIN days : Len(_pack_compact[d]) = MaxPerDay
    BY <1>1, <1>2, CompactCovers
<1>4. DayLists(_pack_compact, Parts)
    BY <1>3 DEF DayLists
<1>5. PICK U \in SUBSET ToSet(POIs) :
          /\ Covers(_pack_compact, U)
          /\ U # ToSet(POIs) => \A d \in DOMAIN days : Len(_pack_compact[d]) = MaxPerDay
    BY <1>1, <1>3
<1> QED BY <1>3, <1>4, <1>5 DEF PackedWell

\* DBSCAN's labels are 1, 2, ... up to how many there are.
LEMMA LabelsAreFirst ==
    ASSUME NEW n \in Nat, n # 0, NEW l, l \in Labelings(n)
    PROVE  {l[i] : i \in DOMAIN l} = 1..Cardinality({l[i] : i \in DOMAIN l})
<1> DEFINE L == {l[i] : i \in DOMAIN l}
<1>1. /\ l \in [1..n -> 1..n]
      /\ \A i \in 1..n : l[i] = 1 \/ \E j \in 1..(i - 1) : l[j] >= l[i] - 1
    BY DEF Labelings
<1>2. L = {l[i] : i \in 1..n} /\ L \subseteq 1..n /\ l[1] \in L
    BY <1>1
<1>3. ASSUME NEW m \in L, NEW k \in 1..m PROVE k \in L
    <2> DEFINE S == {i \in 1..n : l[i] >= k}
    <2>1. S \subseteq Nat /\ S # {}
        <3>1. PICK i \in 1..n : l[i] = m
            BY <1>2
        <3>2. m \in Nat /\ m >= k
            BY <1>2
        <3> QED BY <3>1, <3>2
    <2>2. PICK i \in S : \A j \in S : i <= j
        <3> HIDE DEF S
        <3> QED BY <2>1, LeastNumber
    <2>3. i \in 1..n /\ l[i] >= k /\ l[i] \in 1..n /\ k \in Nat /\ k >= 1
        BY <1>1, <1>2, <2>2
    <2>4. CASE l[i] = 1
        <3>1. l[i] = k
            BY <2>3, <2>4
        <3> QED BY <1>2, <2>3, <3>1
    <2>5. CASE l[i] # 1
        <3>1. PICK j \in 1..(i - 1) : l[j] >= l[i] - 1
            BY <1>1, <2>3, <2>5
        <3>2. j \in 1..n /\ ~(i <= j) /\ l[j] \in 1..n
            <4>1. j \in 1..n /\ ~(i <= j)
                BY <2>3
            <4> QED BY <1>1, <4>1
        <3>3. ~(l[j] >= k)
            BY <2>2, <3>2
        <3>4. l[i] = k
            BY <2>3, <3>1, <3>2, <3>3
        <3> QED BY <1>2, <2>3, <3>4
    <2> QED BY <2>4, <2>5
<1> HIDE DEF L
<1> DEFINE B == {b \in Nat : \A m \in L : m <= b}
<1>4. B \subseteq Nat /\ n \in B
    BY <1>2
<1>5. PICK b \in B : \A c \in B : b <= c
    <2> HIDE DEF B
    <2> QED BY <1>4, LeastNumber
<1>6. b \in L
    <2> SUFFICES ASSUME b \notin L PROVE FALSE
        OBVIOUS
    <2>1. b \in Nat /\ \A m \in L : m <= b /\ m \in Nat /\ m >= 1 /\ m # b
        BY <1>2
    <2>2. b >= 1
        BY <1>2, <2>1
    <2> DEFINE c == b - 1
    <2>3. c \in Nat /\ \A m \in L : m <= c
        BY <2>1, <2>2
    <2>4. ~(b <= c)
        BY <2>1
    <2> HIDE DEF c
    <2> QED BY <1>5, <2>3, <2>4
<1>7. L = 1..b
    <2>1. \A m \in L : m \in 1..b
        BY <1>2
    <2>2. \A k \in 1..b : k \in L
        BY <1>3, <1>6
    <2> QED BY <2>1, <2>2
<1>8. Cardinality(1..b) = b
    <2>1. b \in Nat /\ b >= 1
        BY <1>2, <1>6
    <2>2. Cardinality(1..b) = IF 1 > b THEN 0 ELSE b - 1 + 1
        BY <2>1, FS_Interval
    <2> QED BY <2>1, <2>2
<1> QED BY <1>7, <1>8 DEF L

\* Every place is in the cluster of its label.
Labelled(l, k) == {POIs[i] : i \in {j \in DOMAIN POIs : l[j] = k}}
LabelledClusters(l) ==
    [k \in 1..Cardinality({l[i] : i \in DOMAIN l}) |->
        [places |-> Kept(POIs, Labelled(l, k)), base |-> "none"]]

\* So the clusters partition the places to visit.
LEMMA LabelledPlaces ==
    ASSUME POIs \in Seq(Nat), IsInjective(POIs), POIs # <<>>, NEW l, l \in Labelings(Len(POIs))
    PROVE  /\ LabelledClusters(l) \in Seq(AnyClusters)
           /\ IsInjective(PlacesOf(LabelledClusters(l)))
           /\ ToSet(PlacesOf(LabelledClusters(l))) = ToSet(POIs)
<1> DEFINE n == Len(POIs)
           D == DOMAIN POIs
           C == Cardinality({l[i] : i \in DOMAIN l})
           cs == LabelledClusters(l)
<1>1. D = 1..n /\ n \in Nat /\ n # 0
    BY LenProperties, EmptySeq
<1>2. l \in [1..n -> 1..n] /\ DOMAIN l = D
    BY <1>1 DEF Labelings
<1>3. {l[i] : i \in D} = 1..C
    BY <1>1, <1>2, LabelsAreFirst
<1>4. C \in Nat
    <2>1. IsFiniteSet(1..n)
        BY <1>1, FS_Interval
    <2>2. {l[i] : i \in DOMAIN l} \subseteq 1..n
        BY <1>1, <1>2
    <2>3. IsFiniteSet({l[i] : i \in DOMAIN l})
        BY <2>1, <2>2, FS_Subset
    <2> QED BY <2>3, FS_CardinalityType
<1> HIDE DEF C
<1>5. /\ DOMAIN cs = 1..C
      /\ \A k \in 1..C : cs[k] = [places |-> Kept(POIs, Labelled(l, k)), base |-> "none"]
    BY DEF LabelledClusters, C
<1>6. cs = [k \in 1..C |-> cs[k]]
    BY DEF LabelledClusters, C
<1> HIDE DEF cs
<1>7. ASSUME NEW k \in 1..C
      PROVE  /\ cs[k] \in AnyClusters /\ IsInjective(cs[k].places)
             /\ ToSet(cs[k].places) = Labelled(l, k)
    <2> DEFINE S == Labelled(l, k)
               ps == Kept(POIs, S)
    <2>1. S \subseteq ToSet(POIs)
        BY DEF ToSet, Labelled
    <2>2. cs[k].places = ps /\ cs[k] = [places |-> ps, base |-> "none"]
        BY <1>5
    <2> HIDE DEF S
    <2>3. ps \in Seq(Nat)
        BY KeptStep
    <2>4. ToSet(ps) = ToSet(POIs) \cap S /\ IsInjective(ps)
        BY KeptElements
    <2> HIDE DEF ps
    <2>5. cs[k] \in AnyClusters
        BY <2>2, <2>3 DEF AnyClusters, Bases
    <2>6. ToSet(ps) = S
        BY <2>1, <2>4
    <2> QED BY <2>2, <2>4, <2>5, <2>6 DEF S
<1>8. cs \in Seq(AnyClusters)
    <2>1. cs \in [1..C -> AnyClusters]
        BY <1>6, <1>7
    <2> QED BY <1>4, <2>1
<1>9. \A i, j \in D : POIs[i] = POIs[j] => i = j
    BY DEF IsInjective
<1>10. ASSUME NEW j \in 1..C, NEW k \in 1..C, j # k PROVE Labelled(l, j) \cap Labelled(l, k) = {}
    BY <1>9, <1>10 DEF Labelled
<1>11. UNION {ToSet(cs[k].places) : k \in 1..C} = ToSet(POIs)
    <2>1. ASSUME NEW x PROVE x \in ToSet(POIs) <=> \E k \in 1..C : x \in Labelled(l, k)
        <3>1. x \in ToSet(POIs) <=> \E i \in D : x = POIs[i]
            BY DEF ToSet
        <3>2. \A i \in D : l[i] \in 1..C
            BY <1>3
        <3> QED BY <3>1, <3>2 DEF Labelled
    <2>2. ASSUME NEW x PROVE x \in ToSet(POIs) <=> \E k \in 1..C : x \in ToSet(cs[k].places)
        <3> QED BY <1>7, <2>1
    <2> QED BY <2>2
<1>12. \A j, k \in 1..C : j # k => ToSet(cs[j].places) \cap ToSet(cs[k].places) = {}
    BY <1>7, <1>10
<1>13. PartSet(AnyClusters)
    BY DEF PartSet, AnyClusters
<1>14. IsInjective(PlacesOf(cs)) /\ ToSet(PlacesOf(cs)) = ToSet(POIs)
    <2>1. /\ ToSet(PlacesOf(cs)) = UNION {ToSet(cs[k].places) : k \in DOMAIN cs}
          /\ IsInjective(PlacesOf(cs)) <=>
                 /\ \A k \in DOMAIN cs : IsInjective(cs[k].places)
                 /\ \A j, k \in DOMAIN cs : j # k => ToSet(cs[j].places) \cap ToSet(cs[k].places) = {}
        BY <1>8, <1>13, PlacesApart
    <2>2. \A k \in DOMAIN cs : IsInjective(cs[k].places)
        BY <1>5, <1>7
    <2>3. \A j, k \in DOMAIN cs : j # k => ToSet(cs[j].places) \cap ToSet(cs[k].places) = {}
        BY <1>5, <1>12
    <2> QED BY <1>5, <1>11, <2>1, <2>2, <2>3
<1> QED BY <1>8, <1>14 DEF cs

\* What the method has established at each of its stages.
Based == /\ \A k \in DOMAIN clusters : /\ clusters[k].base # "none"
                                       /\ clusters[k].base \in Recommendations => ~hotels
         /\ (Accommodations # {} /\ clusters # <<>>) =>
                \E k \in DOMAIN clusters : clusters[k].base = "original"

PlanTypes ==
    /\ stage \in {"validate", "cluster", "bases", "allocate", "pack", "free_days", "route"}
    /\ input \in Inputs /\ strategy \in {"balanced", "compact", "cluster_first"}
    /\ valid \in Seq(DOMAIN input) /\ IsInjective(valid)
    /\ NDays \in Nat \ {0} /\ DOMAIN days = 1..NDays

PlanInv ==
    /\ PlanTypes
    /\ stage \notin {"pack", "route"} => days = NoDays
    /\ stage \in {"validate", "cluster"} => clusters = <<>>
    /\ stage \notin {"validate", "cluster"} => Clustered
    /\ stage \in {"allocate", "pack", "route", "free_days"} => Based
    /\ stage = "free_days" => POIs = <<>>
    /\ stage = "pack" => DayLists(days, Parts) /\ Covers(days, ToSet(POIs))
    /\ stage = "route" => PackedWell(days)

\* The places to visit are distinct indices of the input.
LEMMA PlacesTyped ==
    ASSUME PlanTypes
    PROVE  DOMAIN input = 1..Len(input) /\ Len(input) \in Nat
           /\ POIs \in Seq(DOMAIN input) /\ POIs \in Seq(Nat) /\ IsInjective(POIs)
<1> DEFINE D == DOMAIN input
           S == {i \in DOMAIN input : input[i].type # "accommodation"}
           n == Len(POIs)
<1>1. D = 1..Len(input) /\ Len(input) \in Nat
    <2>1. input \in Seq({input[i] : i \in DOMAIN input})
        BY PlanAssumption DEF PlanTypes
    <2> QED BY <2>1, LenProperties
<1>2. valid \in Seq(D) /\ IsInjective(valid) /\ POIs = Kept(valid, S)
    BY DEF PlanTypes, POIs
<1> HIDE DEF D, S
<1>3. POIs \in Seq(D)
    BY <1>2, KeptStep
<1>4. IsInjective(POIs)
    BY <1>2, KeptElements
<1>5. DOMAIN POIs = 1..n /\ n \in Nat /\ POIs = [i \in DOMAIN POIs |-> POIs[i]]
    BY <1>3, LenProperties
<1>6. \A i \in DOMAIN POIs : POIs[i] \in Nat
    <2>1. \A i \in DOMAIN POIs : POIs[i] \in D
        BY <1>3, LenProperties, ElementOfSeq
    <2>2. D \subseteq Nat
        BY <1>1
    <2> QED BY <2>1, <2>2
<1> HIDE DEF n
<1>7. POIs \in [1..n -> Nat]
    BY <1>5, <1>6
<1>8. POIs \in Seq(Nat)
    BY <1>5, <1>7
<1> QED BY <1>1, <1>3, <1>4, <1>8 DEF D

\* The places of nothing.
LEMMA NoPlaces ==
    /\ PlacesOf(<<>>) = <<>> /\ ToSet(<<>>) = {} /\ IsInjective(<<>>)
    /\ DOMAIN <<>> = {} /\ \A X : <<>> \in Seq(X)
<1> DEFINE none == <<>>
<1>1. DOMAIN none = {} /\ \A X : none \in Seq(X)
    BY EmptySeq
<1>2. PartSet({})
    BY DEF PartSet
<1>3. PlacesOf(none) = none
    BY <1>2, PlacesStep DEF PartSet
<1> HIDE DEF none
<1>4. ToSet(none) = {} /\ IsInjective(none)
    BY <1>1 DEF ToSet, IsInjective
<1> QED BY <1>1, <1>3, <1>4 DEF none

LEMMA PlanInitial == PlanInit => PlanInv
<1> SUFFICES ASSUME PlanInit PROVE PlanInv
    OBVIOUS
<1>1. PICK n \in DayCounts : days = [d \in 1..n |-> <<>>]
    BY DEF PlanInit
<1>2. n \in Nat \ {0}
    BY PlanAssumption
<1>3. NDays = n
    <2> DEFINE none == <<>>
    <2> HIDE DEF none
    <2>1. days \in [1..n -> {none}] /\ DOMAIN days = 1..n
        BY <1>1 DEF none
    <2>2. days \in Seq({none})
        BY <1>2, <2>1
    <2>3. Len(days) \in Nat /\ 1..Len(days) = 1..n
        BY <2>1, <2>2, LenProperties
    <2>4. Len(days) = n
        BY <1>2, <2>3
    <2> QED BY <2>4 DEF NDays
<1>4. DOMAIN days = 1..NDays /\ days = NoDays /\ NDays \in Nat \ {0}
    BY <1>1, <1>2, <1>3 DEF NoDays
<1>5. /\ stage = "validate" /\ input \in Inputs /\ valid = <<>> /\ clusters = <<>>
      /\ strategy \in {"balanced", "compact", "cluster_first"}
    BY DEF PlanInit
<1>6. valid \in Seq(DOMAIN input) /\ IsInjective(valid)
    BY <1>5, NoPlaces
<1>7. PlanTypes
    BY <1>4, <1>5, <1>6 DEF PlanTypes
<1> QED BY <1>4, <1>5, <1>7 DEF PlanInv

\* The days are as empty as they were.
LEMMA DaysStay ==
    ASSUME PlanTypes, days = NoDays, days' = days
    PROVE  days' = NoDays' /\ NDays' = NDays /\ NDays' \in Nat \ {0} /\ DOMAIN days' = 1..NDays'
<1>1. NDays' = NDays
    BY DEF NDays
<1>2. NoDays' = NoDays
    BY <1>1 DEF NoDays
<1> QED BY <1>1, <1>2 DEF PlanTypes

\* With no place to visit there is nothing to cluster.
LEMMA NothingClustered ==
    ASSUME clusters' = <<>>, POIs' = <<>>
    PROVE  Clustered' /\ Based'
<1> DEFINE none == <<>>
<1>1. /\ PlacesOf(none) = none /\ ToSet(none) = {} /\ IsInjective(none)
      /\ DOMAIN none = {} /\ none \in Seq(AnyClusters)
    BY NoPlaces
<1>2. clusters' = none /\ POIs' = none
    OBVIOUS
<1>3. Based'
    BY <1>1, <1>2 DEF Based, none
<1> HIDE DEF none
<1>4. Clustered'
    BY <1>1, <1>2 DEF Clustered
<1> QED BY <1>3, <1>4

LEMMA ValidateKeeps == ASSUME PlanInv, validate_coordinates PROVE PlanInv'
<1> DEFINE D == DOMAIN input
           s == Indices(input)
           S == {i \in D : Accepted(input[i].coords)}
<1>1. /\ PlanTypes /\ days = NoDays /\ clusters = <<>> /\ stage = "validate"
      /\ valid' = Kept(s, S) /\ stage' = (IF valid' = <<>> THEN "free_days" ELSE "cluster")
      /\ days' = days /\ clusters' = clusters /\ input' = input
      /\ strategy' = strategy
    BY DEF PlanInv, validate_coordinates, Stays
<1>2. D = 1..Len(input) /\ Len(input) \in Nat
    BY <1>1, PlacesTyped
<1>3. s \in Seq(D) /\ IsInjective(s)
    <2> DEFINE n == Len(input)
    <2>1. s = [i \in 1..n |-> i]
        BY DEF Indices
    <2> HIDE DEF n, D, s
    <2>2. s \in [1..n -> D] /\ D = 1..n /\ n \in Nat
        BY <1>2, <2>1 DEF n
    <2>3. s \in Seq(D)
        BY <2>2
    <2>4. IsInjective(s)
        BY <2>1 DEF IsInjective
    <2> QED BY <2>3, <2>4
<1> HIDE DEF D, s, S
<1>4. valid' \in Seq(D) /\ IsInjective(valid')
    <2>1. Kept(s, S) \in Seq(D)
        BY <1>3, KeptStep
    <2>2. IsInjective(Kept(s, S))
        BY <1>3, KeptElements
    <2> QED BY <1>1, <2>1, <2>2
<1>5. days' = NoDays' /\ NDays' \in Nat \ {0} /\ DOMAIN days' = 1..NDays'
    BY <1>1, DaysStay
<1>6. PlanTypes'
    <2>1. stage' \in {"cluster", "free_days"}
        BY <1>1
    <2>2. DOMAIN input' = D
        BY <1>1 DEF D
    <2> QED BY <1>1, <1>4, <1>5, <2>1, <2>2 DEF PlanTypes
<1>7. CASE valid' = <<>>
    <2>1. POIs' = <<>>
        <3> DEFINE X == {i \in DOMAIN input' : input'[i].type # "accommodation"}
                   none == <<>>
        <3>1. POIs' = Kept(none, X)
            BY <1>7 DEF POIs
        <3> HIDE DEF X, none
        <3>2. Kept(none, X) = none
            BY KeptStep DEF none
        <3> QED BY <3>1, <3>2 DEF none
    <2>2. Clustered' /\ Based'
        BY <1>1, <2>1, NothingClustered
    <2>3. stage' = "free_days"
        BY <1>1, <1>7
    <2> QED BY <1>5, <1>6, <2>1, <2>2, <2>3 DEF PlanInv
<1>8. CASE valid' # <<>>
    <2>1. stage' = "cluster" /\ clusters' = <<>>
        BY <1>1, <1>8
    <2> QED BY <1>5, <1>6, <2>1 DEF PlanInv
<1> QED BY <1>7, <1>8

LEMMA ClusterKeeps == ASSUME PlanInv, cluster_pois PROVE PlanInv'
<1>1. /\ PlanTypes /\ days = NoDays /\ clusters = <<>> /\ stage = "cluster"
      /\ days' = days /\ valid' = valid /\ input' = input /\ strategy' = strategy
    BY DEF PlanInv, cluster_pois, Stays
<1>2. POIs' = POIs
    BY <1>1 DEF POIs
<1>3. days' = NoDays' /\ NDays' \in Nat \ {0} /\ DOMAIN days' = 1..NDays'
    BY <1>1, DaysStay
<1>4. POIs \in Seq(Nat) /\ IsInjective(POIs)
    BY <1>1, PlacesTyped
<1>5. CASE POIs = <<>>
    <2>1. stage' = "free_days" /\ clusters' = <<>>
        BY <1>1, <1>5 DEF cluster_pois
    <2>2. Clustered' /\ Based'
        BY <1>2, <1>5, <2>1, NothingClustered
    <2>3. PlanTypes'
        BY <1>1, <1>3, <2>1 DEF PlanTypes
    <2> QED BY <1>2, <1>3, <1>5, <2>1, <2>2, <2>3 DEF PlanInv
<1>6. CASE POIs # <<>>
    <2>1. stage' = "bases"
        BY <1>6 DEF cluster_pois
    <2>2. PICK l \in Labelings(Len(POIs)) : clusters' = LabelledClusters(l)
        BY <1>6 DEF cluster_pois, LabelledClusters, Labelled
    <2>3. /\ clusters' \in Seq(AnyClusters) /\ IsInjective(PlacesOf(clusters'))
          /\ ToSet(PlacesOf(clusters')) = ToSet(POIs)
        BY <1>4, <1>6, <2>2, LabelledPlaces
    <2>4. Clustered'
        BY <1>2, <2>3 DEF Clustered
    <2>5. PlanTypes'
        BY <1>1, <1>3, <2>1 DEF PlanTypes
    <2> QED BY <1>3, <2>1, <2>4, <2>5 DEF PlanInv
<1> QED BY <1>5, <1>6

\* Every cluster gets a base, and keeps its places.
LEMMA BasesFound ==
    ASSUME Clustered,
           NEW near, near \in [Accommodations -> DOMAIN clusters],
           NEW found, found \in [DOMAIN clusters -> Recommendations],
           clusters' = _recommend_hotels_for_clusters(
                           _assign_user_hotels_to_clusters(OriginalBases(near)), found),
           hotels' = hotels, POIs' = POIs, Accommodations' = Accommodations
    PROVE  Clustered' /\ Based'
<1> DEFINE D == DOMAIN clusters
           own == OriginalBases(near)
           user == _assign_user_hotels_to_clusters(own)
           n == Len(clusters)
<1>1. /\ clusters \in Seq(AnyClusters) /\ PartSet(AnyClusters)
      /\ IsInjective(PlacesOf(clusters)) /\ ToSet(PlacesOf(clusters)) = ToSet(POIs)
    BY PartsTyped DEF Clustered
<1>2. D = 1..n /\ n \in Nat /\ \A k \in D : clusters[k] \in AnyClusters
    BY <1>1, LenProperties, ElementOfSeq
<1>3. /\ DOMAIN own = D
      /\ \A k \in D : /\ own[k].places = clusters[k].places
                      /\ own[k].base = IF \E a \in Accommodations : near[a] = k THEN "original" ELSE "none"
                      /\ own[k] \in AnyClusters
    <2>1. DOMAIN near = Accommodations
        OBVIOUS
    <2> QED BY <1>2, <2>1 DEF OriginalBases, AnyClusters, Bases
<1> HIDE DEF own, n, D
<1>4. /\ DOMAIN user = D
      /\ \A k \in D : /\ user[k].places = clusters[k].places
                      /\ user[k].base = IF own[k].base = "none" /\ hotels THEN "user_provided" ELSE own[k].base
                      /\ user[k] \in AnyClusters
    BY <1>3 DEF _assign_user_hotels_to_clusters, AnyClusters, Bases
<1>5. \A k \in D : user[k].base \in {"original", "user_provided", "none"} /\ (user[k].base = "none" => ~hotels)
    BY <1>3, <1>4
<1> HIDE DEF user
<1>6. /\ DOMAIN clusters' = D /\ clusters' = [k \in D |-> clusters'[k]]
      /\ \A k \in D : /\ clusters'[k].places = clusters[k].places
                      /\ clusters'[k].base = IF user[k].base = "none" THEN found[k] ELSE user[k].base
                      /\ clusters'[k] \in AnyClusters
    <2>1. clusters' = _recommend_hotels_for_clusters(user, found)
        BY DEF user, own
    <2>2. \A k \in D : found[k] \in Bases
        BY DEF D, Bases
    <2>3. /\ DOMAIN clusters' = D /\ clusters' = [k \in D |-> clusters'[k]]
          /\ \A k \in D : clusters'[k] = IF user[k].base = "none"
                                         THEN [user[k] EXCEPT !.base = found[k]] ELSE user[k]
        BY <1>4, <2>1 DEF _recommend_hotels_for_clusters
    <2>4. ASSUME NEW k \in D
          PROVE  /\ clusters'[k].places = clusters[k].places
                 /\ clusters'[k].base = IF user[k].base = "none" THEN found[k] ELSE user[k].base
                 /\ clusters'[k] \in AnyClusters
        <3> DEFINE u == user[k]
                   f == found[k]
                   v == clusters'[k]
        <3>1. /\ u.places = clusters[k].places /\ u \in AnyClusters /\ f \in Bases
              /\ v = IF u.base = "none" THEN [u EXCEPT !.base = f] ELSE u
            BY <1>4, <2>2, <2>3
        <3> HIDE DEF u, f, v
        <3>2. v.places = u.places /\ v.base = (IF u.base = "none" THEN f ELSE u.base) /\ v \in AnyClusters
            BY <3>1 DEF AnyClusters
        <3> QED BY <3>1, <3>2 DEF u, f, v
    <2> QED BY <2>3, <2>4
<1>7. clusters' \in Seq(AnyClusters)
    <2>1. clusters' \in [1..n -> AnyClusters]
        BY <1>2, <1>6
    <2> QED BY <1>2, <2>1
<1>8. PlacesOf(clusters') = PlacesOf(clusters)
    <2>1. [k \in DOMAIN clusters' |-> clusters'[k].places] = [k \in DOMAIN clusters |-> clusters[k].places]
        BY <1>6 DEF D
    <2> QED BY <2>1 DEF PlacesOf
<1>9. Clustered'
    BY <1>1, <1>7, <1>8 DEF Clustered
<1>10. \A k \in D : clusters'[k].base # "none" /\ (clusters'[k].base \in Recommendations => ~hotels)
    <2> SUFFICES ASSUME NEW k \in D
                 PROVE  clusters'[k].base # "none" /\ (clusters'[k].base \in Recommendations => ~hotels)
        OBVIOUS
    <2>1. found[k] \in Recommendations
        BY DEF D
    <2> QED BY <1>5, <1>6, <2>1 DEF Recommendations
<1>11. (Accommodations # {} /\ clusters' # <<>>) => \E k \in D : clusters'[k].base = "original"
    <2> SUFFICES ASSUME NEW a \in Accommodations PROVE \E k \in D : clusters'[k].base = "original"
        OBVIOUS
    <2> DEFINE k == near[a]
    <2>1. k \in D
        BY DEF D
    <2>2. own[k].base = "original"
        BY <1>3, <2>1
    <2> HIDE DEF k
    <2> QED BY <1>4, <1>6, <2>1, <2>2
<1>12. Based'
    BY <1>6, <1>10, <1>11 DEF Based
<1> QED BY <1>9, <1>12

LEMMA BasesKeeps == ASSUME PlanInv, assign_home_base_to_clusters PROVE PlanInv'
<1>1. /\ PlanTypes /\ days = NoDays /\ Clustered /\ stage = "bases" /\ stage' = "allocate"
      /\ days' = days /\ valid' = valid /\ input' = input /\ strategy' = strategy /\ hotels' = hotels
    BY DEF PlanInv, assign_home_base_to_clusters, Stays
<1>2. POIs' = POIs /\ Accommodations' = Accommodations
    BY <1>1 DEF POIs, Accommodations
<1>3. days' = NoDays' /\ NDays' \in Nat \ {0} /\ DOMAIN days' = 1..NDays'
    BY <1>1, DaysStay
<1>4. PICK near \in [Accommodations -> DOMAIN clusters] :
          \E found \in [DOMAIN clusters -> Recommendations] :
              clusters' = _recommend_hotels_for_clusters(
                              _assign_user_hotels_to_clusters(OriginalBases(near)), found)
    BY DEF assign_home_base_to_clusters
<1>5. PICK found \in [DOMAIN clusters -> Recommendations] :
          clusters' = _recommend_hotels_for_clusters(
                          _assign_user_hotels_to_clusters(OriginalBases(near)), found)
    BY <1>4
<1>6. Clustered' /\ Based'
    BY <1>1, <1>2, <1>5, BasesFound
<1>7. PlanTypes'
    BY <1>1, <1>3 DEF PlanTypes
<1> QED BY <1>1, <1>3, <1>6, <1>7 DEF PlanInv

\* What the later steps leave alone.
LEMMA ClustersStay ==
    ASSUME UNCHANGED <<input, valid, clusters, strategy, hotels>>
    PROVE  /\ POIs' = POIs /\ Accommodations' = Accommodations /\ Parts' = Parts
           /\ Clustered => Clustered'
           /\ Based => Based'
<1>1. /\ input' = input /\ valid' = valid /\ clusters' = clusters /\ hotels' = hotels
    OBVIOUS
<1>2. POIs' = POIs /\ Accommodations' = Accommodations
    BY <1>1 DEF POIs, Accommodations
<1>3. Parts' = Parts
    BY <1>1 DEF Parts, IsPart
<1>4. Clustered => Clustered'
    BY <1>1, <1>2 DEF Clustered
<1>5. Based => Based'
    BY <1>1, <1>2 DEF Based
<1> QED BY <1>2, <1>3, <1>4, <1>5

\* The days after a step are days again.
LEMMA DaysTyped ==
    ASSUME PlanTypes, NEW Q, DayLists(days', Q), UNCHANGED <<input, valid, strategy>>,
           stage' \in {"pack", "route"}
    PROVE  PlanTypes'
<1>1. NDays' \in Nat /\ DOMAIN days' = 1..NDays' /\ DOMAIN days' # {}
    BY LenProperties DEF DayLists, NDays
<1>2. NDays' # 0
    BY <1>1
<1> QED BY <1>1, <1>2 DEF PlanTypes

LEMMA AllocateKeeps == ASSUME PlanInv, allocate_clusters_to_days PROVE PlanInv'
<1>1. /\ PlanTypes /\ days = NoDays /\ Clustered /\ Based /\ stage = "allocate" /\ stage' = "pack"
      /\ UNCHANGED <<input, valid, clusters, strategy, hotels>>
    BY DEF PlanInv, allocate_clusters_to_days, Stays
<1>2. PartSet(Parts)
    BY <1>1, ClusterPlaces
<1>3. DayLists(days, Parts) /\ Covers(days, {})
    <2>1. NDays \in Nat \ {0} /\ DOMAIN days = 1..NDays
        BY <1>1 DEF PlanTypes
    <2>2. DayLists(NoDays, Parts) /\ Covers(NoDays, {})
        BY <1>2, <2>1, EmptyDays
    <2> QED BY <1>1, <2>2
<1>4. POIs \in Seq(Nat) /\ IsInjective(POIs)
    BY <1>1, PlacesTyped
<1>5. DayLists(days', Parts) /\ Covers(days', ToSet(POIs))
    <2>1. CASE days' = _distribute_relaxed_mode
        BY <1>1, <1>3, <2>1, RelaxedDeals
    <2>2. CASE \E suggested \in [SeveralWays -> UNION {_evaluate_route_sequences(clusters[k].places) :
                                                       k \in SeveralWays}],
                  ranking \in Rankings :
                      days' = _distribute_balanced_mode(suggested, ranking)
        <3>1. PICK suggested \in [SeveralWays -> UNION {_evaluate_route_sequences(clusters[k].places) :
                                                        k \in SeveralWays}],
                   ranking \in Rankings :
                       days' = _distribute_balanced_mode(suggested, ranking)
            BY <2>2
        <3> QED BY <1>1, <1>3, <1>4, <3>1, BalancedDeals
    <2>3. CASE days' = _distribute_intensive_mode
        BY <1>1, <1>3, <2>3, IntensiveDeals
    <2> QED BY <2>1, <2>2, <2>3 DEF allocate_clusters_to_days
<1>6. PlanTypes'
    BY <1>1, <1>5, DaysTyped
<1>7. POIs' = POIs /\ Parts' = Parts /\ Clustered' /\ Based'
    BY <1>1, ClustersStay
<1>8. (DayLists(days, Parts) /\ Covers(days, ToSet(POIs)))'
    BY <1>5, <1>7 DEF DayLists, Covers
<1> QED BY <1>1, <1>6, <1>7, <1>8 DEF PlanInv

\* Packed days, once they are the days.
LEMMA PackedDays ==
    ASSUME PackedWell(days'), UNCHANGED <<input, valid, clusters, strategy, hotels>>
    PROVE  PackedWell(days)'
<1>1. POIs' = POIs /\ Parts' = Parts /\ strategy' = strategy
    BY ClustersStay
<1> QED BY <1>1 DEF PackedWell, DayLists, Covers

LEMMA PackKeeps == ASSUME PlanInv, pack_activities_by_strategy PROVE PlanInv'
<1>1. /\ PlanTypes /\ Clustered /\ Based /\ stage = "pack" /\ stage' = "route"
      /\ DayLists(days, Parts) /\ Covers(days, ToSet(POIs))
      /\ UNCHANGED <<input, valid, clusters, strategy, hotels>>
    BY DEF PlanInv, pack_activities_by_strategy, Stays
<1>2. PackedWell(days')
    <2>1. CASE strategy = "compact"
        <3>1. days' = _pack_compact
            BY <2>1 DEF pack_activities_by_strategy
        <3> QED BY <1>1, <2>1, <3>1, CompactPacks
    <2>2. CASE strategy = "cluster_first"
        <3>1. days' = days
            BY <2>2 DEF pack_activities_by_strategy, _pack_cluster_first
        <3>2. PackedWell(days)
            BY <1>1 DEF PackedWell
        <3> QED BY <3>1, <3>2
    <2>3. CASE strategy \notin {"compact", "cluster_first"}
        <3>1. days' = _pack_balanced
            BY <2>3 DEF pack_activities_by_strategy
        <3> QED BY <1>1, <3>1, BalancedPacks
    <2> QED BY <2>1, <2>2, <2>3
<1>3. PlanTypes'
    BY <1>1, <1>2, DaysTyped DEF PackedWell
<1>4. Clustered' /\ Based'
    BY <1>1, ClustersStay
<1>5. PackedWell(days)'
    BY <1>1, <1>2, PackedDays
<1> QED BY <1>1, <1>3, <1>4, <1>5 DEF PlanInv

LEMMA FreeDaysKeeps == ASSUME PlanInv, _generate_free_days_with_suggestions PROVE PlanInv'
<1>1. /\ PlanTypes /\ Clustered /\ Based /\ POIs = <<>> /\ stage = "free_days" /\ stage' = "route"
      /\ days' = NoDays /\ UNCHANGED <<input, valid, clusters, strategy, hotels>>
    BY DEF PlanInv, _generate_free_days_with_suggestions, Stays
<1>2. PackedWell(days')
    <2>1. NDays \in Nat \ {0} /\ DOMAIN days = 1..NDays
        BY <1>1 DEF PlanTypes
    <2>2. PartSet(Parts)
        BY <1>1, ClusterPlaces
    <2>3. DayLists(NoDays, Parts) /\ Covers(NoDays, {})
        BY <2>1, <2>2, EmptyDays
    <2>4. ToSet(POIs) = {}
        BY <1>1, NoPlaces
    <2> QED BY <1>1, <2>3, <2>4 DEF PackedWell
<1>3. PlanTypes'
    BY <1>1, <1>2, DaysTyped DEF PackedWell
<1>4. Clustered' /\ Based'
    BY <1>1, ClustersStay
<1>5. PackedWell(days)'
    BY <1>1, <1>2, PackedDays
<1> QED BY <1>1, <1>3, <1>4, <1>5 DEF PlanInv

LEMMA PlanStepKeeps == PlanInv /\ [PlanNext]_planVars => PlanInv'
<1> SUFFICES ASSUME PlanInv, [PlanNext]_planVars PROVE PlanInv'
    OBVIOUS
<1>1. CASE UNCHANGED planVars
    <2>1. /\ UNCHANGED <<input, valid, clusters, strategy, hotels>>
          /\ days' = days /\ stage' = stage
        BY <1>1 DEF planVars
    <2>2. POIs' = POIs /\ Parts' = Parts /\ (Clustered => Clustered') /\ (Based => Based')
        BY <2>1, ClustersStay
    <2>3. NDays' = NDays /\ NoDays' = NoDays
        BY <2>1 DEF NDays, NoDays
    <2>4. PlanTypes => PlanTypes'
        BY <2>1, <2>3 DEF PlanTypes
    <2>5. PackedWell(days) => PackedWell(days)'
        BY <2>1, PackedDays
    <2>6. DayLists(days, Parts)' = DayLists(days, Parts) /\ Covers(days, ToSet(POIs))' = Covers(days, ToSet(POIs))
        BY <2>1, <2>2 DEF DayLists, Covers
    <2> QED BY <2>1, <2>2, <2>3, <2>4, <2>5, <2>6 DEF PlanInv
<1> QED BY <1>1, ValidateKeeps, ClusterKeeps, BasesKeeps, AllocateKeeps, PackKeeps, FreeDaysKeeps
        DEF PlanNext

LEMMA PlanInvImplies == PlanInv => PlanComplete
<1> SUFFICES ASSUME PlanInv, stage = "route" PROVE EveryPlaceOnce /\ EveryPlaceHasItsBase
    BY DEF PlanComplete, EveryPlaceOnce, EveryPlaceHasItsBase
<1>1. PlanTypes /\ Clustered /\ Based /\ PackedWell(days)
    BY DEF PlanInv
<1>2. PICK U \in SUBSET ToSet(POIs) :
          /\ Covers(days, U)
          /\ U # ToSet(POIs) => strategy = "compact" /\ \A d \in DOMAIN days : Len(days[d]) = MaxPerDay
    BY <1>1 DEF PackedWell
<1>3. Planned = PlacesOf(AllClusters)
    BY DEF Planned, PlacesOf
<1>4. IsInjective(Planned) /\ ToSet(Planned) = U
    BY <1>2, <1>3 DEF Covers, AllClusters
<1>5. EveryPlaceOnce
    BY <1>2, <1>4 DEF EveryPlaceOnce
<1>6. AllClusters \in Seq(Parts)
    BY <1>1, JoinedStep DEF PackedWell, DayLists, AllClusters
<1>7. ASSUME NEW i \in DOMAIN AllClusters
      PROVE  /\ AllClusters[i].base # "none"
             /\ AllClusters[i].base \in Recommendations => ~hotels
             /\ \E k \in DOMAIN clusters :
                    /\ ToSet(AllClusters[i].places) \subseteq ToSet(clusters[k].places)
                    /\ AllClusters[i].base = clusters[k].base
             /\ Accommodations # {} => \E k \in DOMAIN clusters : clusters[k].base = "original"
    <2> DEFINE c == AllClusters[i]
    <2>1. c \in Parts
        BY <1>6, LenProperties, ElementOfSeq
    <2> HIDE DEF c
    <2>2. PICK k \in DOMAIN clusters : IsPart(c, k)
        BY <2>1 DEF Parts
    <2>3. ToSet(c.places) \subseteq ToSet(clusters[k].places) /\ c.base = clusters[k].base
        BY <2>2 DEF IsPart
    <2>4. clusters # <<>>
        BY <2>2, NoPlaces
    <2> QED BY <1>1, <2>3, <2>4 DEF Based, c
<1>8. EveryPlaceHasItsBase
    BY <1>7 DEF EveryPlaceHasItsBase
<1> QED BY <1>5, <1>8

\* Every place is planned once, on some day, unless the compact strategy has filled
\* every day, and comes with the base of its cluster: however DBSCAN clusters, however
\* the clusters are split, dealt and packed, for any lists of places, days and limit.
THEOREM PlanCompletes == PlanSpec => []PlanComplete
<1>1. PlanInit => PlanInv
    BY PlanInitial
<1>2. PlanInv /\ [PlanNext]_planVars => PlanInv'
    BY PlanStepKeeps
<1>3. PlanInv => PlanComplete
    BY PlanInvImplies
<1> QED BY <1>1, <1>2, <1>3, PTL DEF PlanSpec

-----------------------------------------------------------------------------
(***************************************************************************)
(* MultiCityPlan: sums over dictionaries, rounding and the division of the *)
(* days (their total is the days asked for, DaysDivided), clusters and     *)
(* regions without a common place or city, and the days of a city (each of *)
(* its places on one of them, DaysDealt). Then three inductive invariants: *)
(* JourneyInv (no place twice), DaysInv (no place left out, no day missed, *)
(* unless for one of the three causes) and StayInv (of the simple          *)
(* optimizer: the nights keep to the blocks of days the cities have).      *)
(***************************************************************************)

\* The units of a key, and of all keys: what SumOver counts.
Column(x, n) == {x} \X (1..n)
\* The units of a dictionary's values, by key.
Cells(f) == UNION {Column(x, f[x]) : x \in DOMAIN f}

\* A column has as many units as its key's value.
LEMMA ColumnSize ==
    ASSUME NEW x, NEW n \in Nat
    PROVE  IsFiniteSet(Column(x, n)) /\ Cardinality(Column(x, n)) = n
<1>1. IsFiniteSet({x}) /\ Cardinality({x}) = 1
    BY FS_Singleton
<1>2. IsFiniteSet(1..n) /\ Cardinality(1..n) = n
    BY FS_Interval
<1>3. IsFiniteSet(Column(x, n)) /\ Cardinality(Column(x, n)) = 1 * n
    <2>1. IsFiniteSet({x} \X (1..n)) /\ Cardinality({x} \X (1..n)) = Cardinality({x}) * Cardinality(1..n)
        BY <1>1, <1>2, FS_Product
    <2>2. Column(x, n) = {x} \X (1..n)
        BY DEF Column
    <2> QED BY <1>1, <1>2, <2>1, <2>2
<1> QED BY <1>3

\* The sum over a finite dictionary of naturals is a natural.
LEMMA SumType ==
    ASSUME NEW S, IsFiniteSet(S), NEW f \in [S -> Nat]
    PROVE  SumOver(f) \in Nat /\ IsFiniteSet(Cells(f)) /\ SumOver(f) = Cardinality(Cells(f))
<1> DEFINE C == {Column(x, f[x]) : x \in S}
           g == [x \in S |-> Column(x, f[x])]
<1>1. g \in Surjection(S, C)
    BY DEF Surjection
<1>2. IsFiniteSet(C)
    <2> HIDE DEF g, C
    <2> QED BY <1>1, FS_Surjection
<1>3. \A T \in C : IsFiniteSet(T)
    BY ColumnSize
<1>4. Cells(f) = UNION C
    BY DEF Cells
<1>5. IsFiniteSet(Cells(f))
    <2> HIDE DEF C
    <2> QED BY <1>2, <1>3, <1>4, FS_UNION
<1>6. SumOver(f) = Cardinality(Cells(f))
    BY DEF SumOver, Cells, Column
<1> QED BY <1>5, <1>6, FS_CardinalityType

\* One key's value and the sum of the others.
LEMMA SumSplit ==
    ASSUME NEW S, IsFiniteSet(S), NEW f \in [S -> Nat], NEW x \in S
    PROVE  SumOver(f) = SumOver([y \in S \ {x} |-> f[y]]) + f[x]
<1> DEFINE g == [y \in S \ {x} |-> f[y]]
<1>1. IsFiniteSet(S \ {x}) /\ g \in [S \ {x} -> Nat]
    BY FS_RemoveElement
<1>2. SumOver(g) \in Nat /\ IsFiniteSet(Cells(g)) /\ SumOver(g) = Cardinality(Cells(g))
    <2> HIDE DEF g
    <2> QED BY <1>1, SumType
<1>3. SumOver(f) = Cardinality(Cells(f))
    BY SumType
<1>4. f[x] \in Nat
    OBVIOUS
<1>5. IsFiniteSet(Column(x, f[x])) /\ Cardinality(Column(x, f[x])) = f[x]
    BY <1>4, ColumnSize
<1>6. Cells(f) = Cells(g) \cup Column(x, f[x])
    <2>1. DOMAIN f = S /\ DOMAIN g = S \ {x} /\ \A y \in S \ {x} : g[y] = f[y]
        OBVIOUS
    <2> HIDE DEF g
    <2> QED BY <2>1 DEF Cells
<1>7. Cells(g) \cap Column(x, f[x]) = {}
    <2>1. DOMAIN g = S \ {x}
        OBVIOUS
    <2> HIDE DEF g
    <2> QED BY <2>1 DEF Cells, Column
<1>8. Cardinality({}) = 0
    BY FS_EmptySet
<1>9. Cardinality(Cells(f)) = Cardinality(Cells(g)) + Cardinality(Column(x, f[x]))
    <2>1. Cardinality(Cells(g) \cup Column(x, f[x]))
            = Cardinality(Cells(g)) + Cardinality(Column(x, f[x]))
                - Cardinality(Cells(g) \cap Column(x, f[x]))
        <3> HIDE DEF g
        <3> QED BY <1>2, <1>5, FS_Union
    <2>2. Cardinality(Cells(g)) \in Nat
        BY <1>2
    <2>3. Cardinality(Cells(f)) = Cardinality(Cells(g) \cup Column(x, f[x]))
        BY <1>6
    <2>4. Cardinality(Cells(g) \cap Column(x, f[x])) = 0
        BY <1>7, <1>8
    <2> HIDE DEF g
    <2> QED BY <2>1, <2>2, <2>3, <2>4, <1>4, <1>5
<1> HIDE DEF g
<1>10. SumOver(f) = SumOver(g) + f[x]
    BY <1>2, <1>3, <1>5, <1>9
<1> QED BY <1>10 DEF g

\* Nothing to add.
LEMMA SumNone == ASSUME NEW f, DOMAIN f = {} PROVE SumOver(f) = 0
<1>1. UNION {{x} \X (1..f[x]) : x \in DOMAIN f} = {}
    OBVIOUS
<1> QED BY <1>1, FS_EmptySet DEF SumOver

\* No value is more than the sum.
LEMMA SumAtLeast ==
    ASSUME NEW S, IsFiniteSet(S), NEW f \in [S -> Nat], NEW x \in S
    PROVE  f[x] <= SumOver(f)
<1> DEFINE g == [y \in S \ {x} |-> f[y]]
<1>1. IsFiniteSet(S \ {x}) /\ g \in [S \ {x} -> Nat]
    BY FS_RemoveElement
<1>2. SumOver(f) = SumOver(g) + f[x]
    BY SumSplit
<1>3. SumOver(g) \in Nat
    <2> HIDE DEF g
    <2> QED BY <1>1, SumType
<1>4. f[x] \in Nat
    OBVIOUS
<1> HIDE DEF g
<1> QED BY <1>2, <1>3, <1>4

\* What one value gains, the sum gains.
LEMMA SumChange ==
    ASSUME NEW S, IsFiniteSet(S), NEW f \in [S -> Nat], NEW x \in S, NEW v \in Nat
    PROVE  SumOver([f EXCEPT ![x] = v]) = SumOver(f) - f[x] + v
<1> DEFINE g == [y \in S \ {x} |-> f[y]]
           h == [f EXCEPT ![x] = v]
           k == [y \in S \ {x} |-> h[y]]
<1>1. IsFiniteSet(S \ {x}) /\ g \in [S \ {x} -> Nat] /\ h \in [S -> Nat] /\ k = g /\ h[x] = v
    BY FS_RemoveElement
<1>2. SumOver(f) = SumOver(g) + f[x]
    BY SumSplit
<1>3. SumOver(h) = SumOver(k) + h[x]
    <2>1. h \in [S -> Nat]
        OBVIOUS
    <2> HIDE DEF h
    <2> QED BY <2>1, SumSplit
<1>4. SumOver(g) \in Nat
    <2> HIDE DEF g
    <2> QED BY <1>1, SumType
<1>5. f[x] \in Nat
    OBVIOUS
<1>6. SumOver(h) = SumOver(g) + v
    <2> HIDE DEF g, h, k
    <2> QED BY <1>1, <1>3
<1>7. SumOver(h) = SumOver(f) - f[x] + v
    <2> HIDE DEF g, h, k
    <2> QED BY <1>2, <1>4, <1>5, <1>6
<1> QED BY <1>7

\* The greatest and the least of a set of positions.
LEMMA PositionBounds ==
    ASSUME NEW L \in Nat, NEW S, S \subseteq 1..L, S # {}
    PROVE  /\ Max(S) \in S /\ \A y \in S : Max(S) >= y
           /\ Min(S) \in S /\ \A y \in S : Min(S) <= y
<1>1. \E x \in S : \A y \in S : x >= y
    <2> DEFINE T == {L - y : y \in S}
    <2>1. T \subseteq Nat /\ T # {}
        <3>1. \A y \in S : y \in 1..L
            OBVIOUS
        <3>2. \A y \in S : L - y \in Nat
            BY <3>1
        <3> QED BY <3>2
    <2>2. PICK m \in T : \A t \in T : m <= t
        <3> HIDE DEF T
        <3> QED BY <2>1, LeastNumber
    <2>3. PICK x \in S : m = L - x
        BY <2>2
    <2>4. ASSUME NEW y \in S PROVE x >= y
        <3>1. m <= L - y
            BY <2>2
        <3> QED BY <2>3, <3>1
    <2> QED BY <2>4
<1>2. \E x \in S : \A y \in S : x <= y
    <2>1. S \subseteq Nat
        OBVIOUS
    <2> QED BY <2>1, LeastNumber
<1> QED BY <1>1, <1>2 DEF Max, Min

\* max(1, r).
LEMMA AtLeastOne ==
    ASSUME NEW r \in Int
    PROVE  /\ Max({1, r}) \in Nat \ {0}
           /\ r >= 1 => Max({1, r}) = r
           /\ r < 1 => Max({1, r}) = 1
<1>1. \E x \in {1, r} : \A y \in {1, r} : x >= y
    <2>1. CASE r >= 1
        BY <2>1
    <2>2. CASE r < 1
        BY <2>2
    <2> QED BY <2>1, <2>2
<1>2. Max({1, r}) \in {1, r} /\ \A y \in {1, r} : Max({1, r}) >= y
    BY <1>1 DEF Max
<1> QED BY <1>2

\* round() gives an integer.
LEMMA RoundType == ASSUME NEW a \in Nat, NEW b \in Nat \ {0} PROVE RoundHalfEven(a, b) \in Int
<1>1. a \div b \in Int
    OBVIOUS
<1>2. (a \div b) % 2 \in Int
    BY <1>1
<1> QED BY <1>1, <1>2 DEF RoundHalfEven

\* Among those of the greatest weight one is the first.
LEMMA HeaviestExists ==
    ASSUME NEW S, S # {}, NEW b \in Nat, NEW w \in [S -> Nat], \A x \in S : w[x] <= b,
           NEW p \in [S -> Nat]
    PROVE  \E x \in S : \A y \in S : w[x] > w[y] \/ (w[x] = w[y] /\ p[x] <= p[y])
<1> DEFINE T == {b - w[x] : x \in S}
<1>1. T \subseteq Nat /\ T # {}
    OBVIOUS
<1>2. PICK m \in T : \A t \in T : m <= t
    <2> HIDE DEF T
    <2> QED BY <1>1, LeastNumber
<1>3. PICK top \in S : m = b - w[top]
    BY <1>2
<1>4. ASSUME NEW y \in S PROVE w[top] >= w[y]
    <2>1. m <= b - w[y]
        BY <1>2
    <2>2. w[top] \in Nat /\ w[y] \in Nat
        OBVIOUS
    <2> QED BY <1>3, <2>1, <2>2
<1> DEFINE U == {p[x] : x \in {y \in S : w[y] = w[top]}}
<1>5. U \subseteq Nat /\ U # {}
    OBVIOUS
<1>6. PICK q \in U : \A u \in U : q <= u
    <2> HIDE DEF U
    <2> QED BY <1>5, LeastNumber
<1>7. PICK x \in S : w[x] = w[top] /\ p[x] = q
    BY <1>6
<1>8. ASSUME NEW y \in S PROVE w[x] > w[y] \/ (w[x] = w[y] /\ p[x] <= p[y])
    <2>1. CASE w[y] = w[top]
        <3>1. q <= p[y]
            BY <1>6, <2>1
        <3> QED BY <1>7, <2>1, <3>1
    <2>2. CASE w[y] # w[top]
        <3>1. w[top] \in Nat /\ w[y] \in Nat /\ w[top] >= w[y]
            BY <1>4
        <3> QED BY <1>7, <2>2, <3>1
    <2> QED BY <2>1, <2>2
<1> QED BY <1>8

\* What a division of days needs to know of the list of cities.
CityList(cs) == cs \in Seq(ToSet(cs)) /\ cs # <<>> /\ \A k \in DOMAIN cs : Len(cs[k].pois) \in Nat \ {0}
\* The names of a list of cities.
NamesOf(cs) == {cs[k].name : k \in DOMAIN cs}

\* The names of a list of cities are finitely many.
LEMMA NamesFinite ==
    ASSUME NEW cs, CityList(cs)
    PROVE  IsFiniteSet(NamesOf(cs)) /\ NamesOf(cs) # {} /\ DOMAIN cs = 1..Len(cs) /\ Len(cs) \in Nat \ {0}
<1>1. DOMAIN cs = 1..Len(cs) /\ Len(cs) \in Nat \ {0}
    BY EmptySeq DEF CityList
<1>2. [k \in 1..Len(cs) |-> cs[k].name] \in Surjection(1..Len(cs), NamesOf(cs))
    BY <1>1 DEF Surjection, NamesOf
<1>3. IsFiniteSet(1..Len(cs))
    BY <1>1, FS_Interval
<1>4. IsFiniteSet(NamesOf(cs))
    BY <1>2, <1>3, FS_Surjection
<1>5. NamesOf(cs) # {}
    <2>1. 1 \in DOMAIN cs
        BY <1>1
    <2> QED BY <2>1 DEF NamesOf
<1> QED BY <1>1, <1>4, <1>5

\* Every city counts.
LEMMA WeightType ==
    ASSUME NEW c, Len(c.pois) \in Nat \ {0}
    PROVE  Weight(c) \in Nat \ {0}
BY DEF Weight

\* The days are divided without a rest: a dictionary of whole numbers by name
\* that, when none is negative, sums up to the days given out.
LEMMA DaysDivided ==
    ASSUME NEW cs, CityList(cs), NEW n \in Nat
    PROVE  /\ _distribute_days_among_cities(cs, n) \in [NamesOf(cs) -> Int]
           /\ (\A x \in NamesOf(cs) : _distribute_days_among_cities(cs, n)[x] >= 1)
                => SumOver(_distribute_days_among_cities(cs, n)) = n
<1> DEFINE names == NamesOf(cs)
           Of(x) == {k \in DOMAIN cs : cs[k].name = x}
           First(x) == Min(Of(x))
           weight == [x \in names |-> Weight(cs[Max(Of(x))])]
           rounded == [x \in names |-> Max({1, RoundHalfEven(weight[x] * n, SumOver(weight))})]
           Leads(x) == \A y \in names :
                        weight[x] > weight[y] \/ (weight[x] = weight[y] /\ First(x) <= First(y))
           heaviest == CHOOSE x \in names : Leads(x)
           dist == [rounded EXCEPT ![heaviest] = @ + n - SumOver(rounded)]
<1>1. IsFiniteSet(names) /\ names # {} /\ DOMAIN cs = 1..Len(cs) /\ Len(cs) \in Nat \ {0}
    BY NamesFinite
<1>2. ASSUME NEW x \in names PROVE Of(x) \subseteq 1..Len(cs) /\ Of(x) # {}
    BY <1>1 DEF NamesOf
<1>3. ASSUME NEW x \in names PROVE Max(Of(x)) \in DOMAIN cs /\ First(x) \in Nat
    <2>1. Max(Of(x)) \in Of(x) /\ Min(Of(x)) \in Of(x)
        <3> HIDE DEF Of
        <3> QED BY <1>1, <1>2, PositionBounds
    <2> QED BY <1>1, <2>1
<1>4. weight \in [names -> Nat \ {0}]
    <2>1. ASSUME NEW x \in names PROVE Weight(cs[Max(Of(x))]) \in Nat \ {0}
        <3>1. Len(cs[Max(Of(x))].pois) \in Nat \ {0}
            BY <1>3 DEF CityList
        <3> HIDE DEF Of
        <3> QED BY <3>1, WeightType
    <2> HIDE DEF Of
    <2> QED BY <2>1
<1>5. SumOver(weight) \in Nat \ {0} /\ \A x \in names : weight[x] <= SumOver(weight)
    <2> HIDE DEF weight, names
    <2>1. weight \in [names -> Nat]
        BY <1>4
    <2>2. SumOver(weight) \in Nat /\ \A x \in names : weight[x] <= SumOver(weight)
        BY <1>1, <2>1, SumType, SumAtLeast
    <2>3. PICK x \in names : TRUE
        BY <1>1
    <2>4. weight[x] \in Nat \ {0} /\ weight[x] <= SumOver(weight)
        BY <1>4, <2>2
    <2> QED BY <2>2, <2>4
<1>6. rounded \in [names -> Nat \ {0}]
    <2>1. ASSUME NEW x \in names
          PROVE  Max({1, RoundHalfEven(weight[x] * n, SumOver(weight))}) \in Nat \ {0}
        <3> HIDE DEF weight, names
        <3>1. weight[x] \in Nat
            BY <1>4
        <3>2. weight[x] * n \in Nat
            BY <3>1
        <3> QED BY <1>5, <3>2, RoundType, AtLeastOne
    <2> HIDE DEF weight, names
    <2> QED BY <2>1
<1>7. heaviest \in names
    <2>1. \E x \in names : Leads(x)
        <3> DEFINE place == [x \in names |-> First(x)]
        <3>1. place \in [names -> Nat] /\ \A x \in names : place[x] = First(x)
            <4> HIDE DEF names, First
            <4> QED BY <1>3
        <3>2. weight \in [names -> Nat]
            <4> HIDE DEF names, weight
            <4> QED BY <1>4
        <3> HIDE DEF names, weight, First, place
        <3>3. \E x \in names : \A y \in names :
                  weight[x] > weight[y] \/ (weight[x] = weight[y] /\ place[x] <= place[y])
            BY <1>1, <1>5, <3>1, <3>2, HeaviestExists
        <3> QED BY <3>1, <3>3
    <2> HIDE DEF names, Leads
    <2> QED BY <2>1
<1>8. dist = _distribute_days_among_cities(cs, n)
    BY DEF _distribute_days_among_cities, NamesOf
<1>9. SumOver(rounded) \in Nat
    <2> HIDE DEF rounded, names
    <2>1. rounded \in [names -> Nat]
        BY <1>6
    <2> QED BY <1>1, <2>1, SumType
<1>10. dist \in [names -> Int] /\ dist[heaviest] = rounded[heaviest] + n - SumOver(rounded)
    <2> HIDE DEF rounded, names, heaviest
    <2>1. rounded[heaviest] + n - SumOver(rounded) \in Int
        BY <1>6, <1>7, <1>9
    <2> QED BY <1>6, <1>7, <2>1
<1>11. ASSUME \A x \in names : dist[x] >= 1
       PROVE  SumOver(dist) = n
    <2> DEFINE v == rounded[heaviest] + n - SumOver(rounded)
    <2> HIDE DEF rounded, names, heaviest
    <2>1. v \in Nat
        <3>1. rounded[heaviest] \in Nat
            BY <1>6, <1>7
        <3> QED BY <1>7, <1>9, <1>10, <1>11, <3>1
    <2>2. rounded \in [names -> Nat] /\ rounded[heaviest] \in Nat
        BY <1>6, <1>7
    <2>3. dist = [rounded EXCEPT ![heaviest] = v]
        OBVIOUS
    <2>4. SumOver(dist) = SumOver(rounded) - rounded[heaviest] + v
        <3> HIDE DEF v, dist
        <3> QED BY <1>1, <1>7, <2>1, <2>2, <2>3, SumChange
    <2> HIDE DEF dist
    <2> QED BY <1>9, <2>2, <2>4
<1> HIDE DEF dist
<1> QED BY <1>8, <1>10, <1>11

\* Every country gets a day at least.
LEMMA CountriesDivided ==
    ASSUME CityList(cities), journey.duration \in Nat \ {0}
    PROVE  _distribute_days_among_countries \in [Countries -> Nat \ {0}]
<1> DEFINE Of(x) == {j \in DOMAIN cities : cities[j].country = x}
           sizes(x) == [k \in Of(x) |-> Len(cities[k].pois)]
           weight == [x \in Countries |-> SumOver(sizes(x))]
           given == [x \in Countries |->
                       Max({1, RoundHalfEven(weight[x] * journey.duration, SumOver(weight))})]
<1>1. DOMAIN cities = 1..Len(cities) /\ Len(cities) \in Nat \ {0}
    BY NamesFinite
<1>2. IsFiniteSet(DOMAIN cities)
    BY <1>1, FS_Interval
<1>3. IsFiniteSet(Countries) /\ Countries # {}
    <2>1. [k \in DOMAIN cities |-> cities[k].country] \in Surjection(DOMAIN cities, Countries)
        BY DEF Surjection, Countries
    <2>2. 1 \in DOMAIN cities
        BY <1>1
    <2> QED BY <1>2, <2>1, <2>2, FS_Surjection DEF Countries
<1>4. ASSUME NEW x \in Countries PROVE SumOver(sizes(x)) \in Nat \ {0}
    <2>1. IsFiniteSet(Of(x))
        BY <1>2, FS_Subset
    <2>2. sizes(x) \in [Of(x) -> Nat]
        BY DEF CityList
    <2>3. PICK k \in Of(x) : TRUE
        BY DEF Countries
    <2>4. sizes(x)[k] \in Nat \ {0}
        BY DEF CityList
    <2>5. SumOver(sizes(x)) \in Nat /\ sizes(x)[k] <= SumOver(sizes(x))
        <3> HIDE DEF Of, sizes
        <3> QED BY <2>1, <2>2, SumType, SumAtLeast
    <2> HIDE DEF sizes
    <2> QED BY <2>4, <2>5
<1>5. weight \in [Countries -> Nat \ {0}]
    <2> HIDE DEF sizes
    <2> QED BY <1>4
<1>6. SumOver(weight) \in Nat \ {0}
    <2> HIDE DEF weight
    <2>1. weight \in [Countries -> Nat]
        BY <1>5
    <2>2. PICK x \in Countries : TRUE
        BY <1>3
    <2>3. SumOver(weight) \in Nat /\ weight[x] <= SumOver(weight)
        BY <1>3, <2>1, SumType, SumAtLeast
    <2>4. weight[x] \in Nat \ {0}
        BY <1>5
    <2> QED BY <2>3, <2>4
<1>7. given \in [Countries -> Nat \ {0}]
    <2>1. ASSUME NEW x \in Countries
          PROVE  Max({1, RoundHalfEven(weight[x] * journey.duration, SumOver(weight))}) \in Nat \ {0}
        <3> HIDE DEF weight
        <3>1. weight[x] \in Nat
            BY <1>5
        <3>2. weight[x] * journey.duration \in Nat
            BY <3>1
        <3> QED BY <1>6, <3>2, RoundType, AtLeastOne
    <2> HIDE DEF weight
    <2> QED BY <2>1
<1>8. given = _distribute_days_among_countries
    BY DEF _distribute_days_among_countries, Countries
<1> HIDE DEF given
<1> QED BY <1>7, <1>8

-----------------------------------------------------------------------------
\* The places of the request, by index.
PlaceIndices == DOMAIN journey.pois

\* A city of a cluster: places of the request, at least one, each once.
ACity(c) == c.pois \in Seq(PlaceIndices) /\ c.pois # <<>> /\ IsInjective(c.pois)

\* Lists of places that have none in common.
Apart(s) == \A j, k \in DOMAIN s : j # k => ToSet(s[j]) \cap ToSet(s[k]) = {}

\* The places of a request are a list, and its indices too.
LEMMA PlacesListed ==
    ASSUME journey \in Journeys
    PROVE  /\ PlaceIndices = 1..Len(journey.pois) /\ Len(journey.pois) \in Nat \ {0}
           /\ PoiIndices \in Seq(PlaceIndices) /\ IsInjective(PoiIndices) /\ ToSet(PoiIndices) = PlaceIndices
           /\ PoiIndices # <<>> /\ Len(PoiIndices) = Len(journey.pois)
           /\ \A i \in PlaceIndices : PoiIndices[i] = i
           /\ journey.duration \in Nat \ {0}
<1>1. journey.pois \in Seq({journey.pois[i] : i \in DOMAIN journey.pois}) /\ journey.pois # <<>>
      /\ journey.duration \in Nat \ {0}
    BY JourneysAssumption
<1>2. PlaceIndices = 1..Len(journey.pois) /\ Len(journey.pois) \in Nat \ {0}
    <2> DEFINE S == {journey.pois[i] : i \in DOMAIN journey.pois}
    <2> HIDE DEF S
    <2>1. journey.pois \in Seq(S) /\ journey.pois # <<>>
        BY <1>1 DEF S
    <2> QED BY <2>1, EmptySeq DEF PlaceIndices
<1>3. PoiIndices = [i \in 1..Len(journey.pois) |-> i]
    BY <1>2 DEF PoiIndices, PlaceIndices
<1>4. PoiIndices \in Seq(PlaceIndices) /\ Len(PoiIndices) = Len(journey.pois)
    BY <1>2, <1>3
<1>5. IsInjective(PoiIndices) /\ ToSet(PoiIndices) = PlaceIndices
    BY <1>2, <1>3 DEF IsInjective, ToSet
<1>6. \A i \in PlaceIndices : PoiIndices[i] = i
    BY <1>2, <1>3
<1>7. PoiIndices # <<>>
    BY <1>2, <1>4
<1> QED BY <1>1, <1>2, <1>4, <1>5, <1>6, <1>7

\* The clusters of the H3 cells: no place is in two of them.
LEMMA ClustersApart ==
    ASSUME journey \in Journeys
    PROVE  /\ _h3_initial_clustering \in Seq({s \in Seq(PlaceIndices) : s # <<>> /\ IsInjective(s)})
           /\ Apart(_h3_initial_clustering)
<1> DEFINE areas == [i \in DOMAIN journey.pois |-> Poi(i).area]
           Firsts == {i \in DOMAIN areas : \A j \in 1..(i - 1) : areas[j] # areas[i]}
           found == Kept(PoiIndices, Firsts)
           Alike(i) == {j \in DOMAIN areas : areas[j] = areas[i]}
           Group(i) == Kept(PoiIndices, Alike(i))
           parts == [k \in DOMAIN found |-> Group(found[k])]
           Good == {s \in Seq(PlaceIndices) : s # <<>> /\ IsInjective(s)}
<1>1. PlaceIndices = 1..Len(journey.pois) /\ PoiIndices \in Seq(PlaceIndices) /\ IsInjective(PoiIndices)
      /\ ToSet(PoiIndices) = PlaceIndices
    BY PlacesListed
<1>2. found \in Seq(PlaceIndices) /\ IsInjective(found) /\ ToSet(found) = PlaceIndices \cap Firsts
    <2> HIDE DEF Firsts, areas
    <2> QED BY <1>1, KeptElements, KeptStep
<1>3. ASSUME NEW i \in PlaceIndices
      PROVE  /\ Group(i) \in Seq(PlaceIndices) /\ IsInjective(Group(i))
             /\ ToSet(Group(i)) = PlaceIndices \cap Alike(i)
    <2> HIDE DEF Alike
    <2> QED BY <1>1, KeptElements, KeptStep
<1>4. ASSUME NEW k \in DOMAIN found PROVE found[k] \in PlaceIndices /\ found[k] \in Firsts
    <2> HIDE DEF found, Firsts
    <2>1. found[k] \in ToSet(found)
        BY DEF ToSet
    <2> QED BY <1>2, <2>1
<1>5. ASSUME NEW k \in DOMAIN found PROVE Group(found[k]) \in Good
    <2>1. found[k] \in Alike(found[k])
        BY <1>4 DEF PlaceIndices
    <2> HIDE DEF found, Group, Alike
    <2>2. Group(found[k]) # <<>>
        <3>1. ToSet(Group(found[k])) # {}
            BY <1>3, <1>4, <2>1
        <3> QED BY <3>1 DEF ToSet
    <2> QED BY <1>3, <1>4, <2>2
<1>6. parts \in Seq(Good)
    <2>1. DOMAIN found = 1..Len(found) /\ Len(found) \in Nat
        <3> HIDE DEF found
        <3> QED BY <1>2
    <2> HIDE DEF found, Group, Good
    <2> QED BY <1>5, <2>1
<1>7. ASSUME NEW j \in DOMAIN found, NEW k \in DOMAIN found, j # k
      PROVE  areas[found[j]] # areas[found[k]]
    <2>1. found[j] # found[k]
        <3> HIDE DEF found
        <3> QED BY <1>2, <1>7 DEF IsInjective
    <2>2. found[j] \in Firsts /\ found[k] \in Firsts /\ found[j] \in PlaceIndices /\ found[k] \in PlaceIndices
        <3> HIDE DEF found, Firsts
        <3> QED BY <1>4
    <2>3. found[j] \in Nat /\ found[k] \in Nat /\ found[j] >= 1 /\ found[k] >= 1
        <3> HIDE DEF found, Firsts
        <3> QED BY <1>1, <2>2
    <2>4. CASE found[j] < found[k]
        <3>1. found[j] \in 1..(found[k] - 1)
            <4> HIDE DEF found
            <4> QED BY <2>3, <2>4
        <3> HIDE DEF found, areas
        <3> QED BY <2>2, <3>1
    <2>5. CASE found[k] < found[j]
        <3>1. found[k] \in 1..(found[j] - 1)
            <4> HIDE DEF found
            <4> QED BY <2>3, <2>5
        <3> HIDE DEF found, areas
        <3> QED BY <2>2, <3>1
    <2> HIDE DEF found, areas
    <2> QED BY <2>1, <2>3, <2>4, <2>5
<1>8. Apart(parts)
    <2>1. ASSUME NEW j \in DOMAIN found, NEW k \in DOMAIN found, j # k
          PROVE  ToSet(Group(found[j])) \cap ToSet(Group(found[k])) = {}
        <3>1. areas[found[j]] # areas[found[k]]
            BY <1>7, <2>1
        <3>2. Alike(found[j]) \cap Alike(found[k]) = {}
            <4> HIDE DEF found, areas
            <4> QED BY <3>1
        <3> HIDE DEF Alike, found, Group
        <3> QED BY <1>3, <1>4, <3>2
    <2> HIDE DEF found, Group
    <2> QED BY <2>1 DEF Apart
<1>9. parts = _h3_initial_clustering
    BY DEF _h3_initial_clustering
<1> HIDE DEF parts
<1> QED BY <1>6, <1>8, <1>9

\* Cities as the optimizers take them: no place is in two of them.
CitiesFine(cs) ==
    /\ cs \in Seq(ToSet(cs))
    /\ \A c \in ToSet(cs) : ACity(c)
    /\ \A j, k \in DOMAIN cs : j # k => ToSet(cs[j].pois) \cap ToSet(cs[k].pois) = {}

\* A city has places.
LEMMA CityPlaces ==
    ASSUME NEW c, ACity(c)
    PROVE  /\ Len(c.pois) \in Nat \ {0} /\ DOMAIN c.pois = 1..Len(c.pois) /\ ToSet(c.pois) # {}
           /\ ToSet(c.pois) \subseteq PlaceIndices /\ \A k \in DOMAIN c.pois : c.pois[k] \in PlaceIndices
<1>1. c.pois \in Seq(PlaceIndices) /\ c.pois # <<>>
    BY DEF ACity
<1>2. Len(c.pois) \in Nat \ {0} /\ DOMAIN c.pois = 1..Len(c.pois)
    BY <1>1, EmptySeq
<1>3. \A k \in DOMAIN c.pois : c.pois[k] \in PlaceIndices
    BY <1>1, <1>2, ElementOfSeq
<1>4. c.pois[1] \in ToSet(c.pois)
    BY <1>2 DEF ToSet
<1> QED BY <1>2, <1>3, <1>4 DEF ToSet

\* Cities that differ have no place in common, whatever their indices are.
LEMMA CitiesDiffer ==
    ASSUME NEW cs, CitiesFine(cs)
    PROVE  /\ \A c, e \in ToSet(cs) : c # e => ToSet(c.pois) \cap ToSet(e.pois) = {}
           /\ IsInjective(cs) /\ DOMAIN cs = 1..Len(cs) /\ Len(cs) \in Nat
<1>1. ASSUME NEW c \in ToSet(cs), NEW e \in ToSet(cs), c # e
      PROVE  ToSet(c.pois) \cap ToSet(e.pois) = {}
    <2>1. \A x \in ToSet(cs) : \E k \in DOMAIN cs : x = cs[k]
        BY DEF ToSet
    <2>2. PICK j \in DOMAIN cs : c = cs[j]
        BY <2>1
    <2>3. PICK k \in DOMAIN cs : e = cs[k]
        BY <2>1
    <2> QED BY <1>1, <2>2, <2>3 DEF CitiesFine
<1>2. DOMAIN cs = 1..Len(cs) /\ Len(cs) \in Nat
    BY DEF CitiesFine
<1>3. ASSUME NEW j \in DOMAIN cs, NEW k \in DOMAIN cs, j # k PROVE cs[j] # cs[k]
    <2>1. cs[j] \in ToSet(cs)
        BY DEF ToSet
    <2>2. ToSet(cs[j].pois) # {}
        BY <2>1, CityPlaces DEF CitiesFine
    <2>3. ToSet(cs[j].pois) \cap ToSet(cs[k].pois) = {}
        BY <1>3 DEF CitiesFine
    <2> QED BY <2>2, <2>3
<1>4. IsInjective(cs)
    BY <1>3 DEF IsInjective
<1> QED BY <1>1, <1>2, <1>4

\* City leaves the places of its cluster as they are.
LEMMA CityOf == \A ps : City(ps).pois = ps
BY DEF City

\* The clusters that are kept make cities without a common place.
LEMMA CitiesFound == ASSUME journey \in Journeys PROVE CitiesFine(Cities)
<1> DEFINE found == _h3_initial_clustering
           Valid == {ps \in ToSet(found) : _validate_clusters(ps)}
           kept == Kept(found, Valid)
           Good == {s \in Seq(PlaceIndices) : s # <<>> /\ IsInjective(s)}
           made == [k \in DOMAIN kept |-> City(kept[k])]
<1>1. found \in Seq(Good) /\ Apart(found)
    BY ClustersApart
<1>2. IsInjective(found)
    <2>1. ASSUME NEW j \in DOMAIN found, NEW k \in DOMAIN found, j # k PROVE found[j] # found[k]
        <3>1. found[j] \in Good
            <4> HIDE DEF found, Good
            <4> QED BY <1>1, ElementOfSeq
        <3>2. ToSet(found[j]) # {}
            <4>1. found[j] \in Seq(PlaceIndices) /\ found[j] # <<>>
                BY <3>1
            <4> HIDE DEF found
            <4>2. 1 \in DOMAIN found[j]
                BY <4>1, EmptySeq
            <4> QED BY <4>2 DEF ToSet
        <3>3. ToSet(found[j]) \cap ToSet(found[k]) = {}
            BY <1>1, <2>1 DEF Apart
        <3> QED BY <3>2, <3>3
    <2> HIDE DEF found
    <2> QED BY <2>1 DEF IsInjective
<1>3. kept \in Seq(Good) /\ ToSet(kept) = ToSet(found) \cap Valid /\ IsInjective(kept)
    <2> HIDE DEF found, Valid, Good
    <2> QED BY <1>1, <1>2, KeptElements, KeptStep
<1>4. DOMAIN kept = 1..Len(kept) /\ Len(kept) \in Nat
    <2> HIDE DEF kept, Good
    <2> QED BY <1>3
<1>5. ASSUME NEW k \in DOMAIN kept PROVE kept[k] \in Good /\ kept[k] \in ToSet(found)
    <2> HIDE DEF kept, Good, found
    <2>1. kept[k] \in ToSet(kept)
        BY DEF ToSet
    <2> QED BY <1>3, <1>4, <2>1, ElementOfSeq
<1>6. ASSUME NEW j \in DOMAIN kept, NEW k \in DOMAIN kept, j # k
      PROVE  ToSet(kept[j]) \cap ToSet(kept[k]) = {}
    <2> HIDE DEF kept, found, Good, Valid
    <2>1. kept[j] # kept[k]
        BY <1>3, <1>6 DEF IsInjective
    <2>2. PICK a \in DOMAIN found : found[a] = kept[j]
        BY <1>5 DEF ToSet
    <2>3. PICK b \in DOMAIN found : found[b] = kept[k]
        BY <1>5 DEF ToSet
    <2>4. a # b
        BY <2>1, <2>2, <2>3
    <2>5. ToSet(found[a]) \cap ToSet(found[b]) = {}
        BY <1>1, <2>4 DEF Apart
    <2> QED BY <2>2, <2>3, <2>5
<1>7. made = Cities
    BY DEF Cities
<1>8. DOMAIN made = DOMAIN kept /\ \A k \in DOMAIN kept : made[k].pois = kept[k]
    <2> HIDE DEF kept
    <2> QED BY CityOf
<1>9. made \in Seq(ToSet(made))
    <2> HIDE DEF kept
    <2>1. made \in [1..Len(kept) -> ToSet(made)]
        BY <1>4 DEF ToSet
    <2> HIDE DEF made
    <2> QED BY <1>4, <2>1
<1>10. ASSUME NEW c \in ToSet(made) PROVE ACity(c)
    <2> HIDE DEF kept, made
    <2>1. PICK k \in DOMAIN made : c = made[k]
        BY DEF ToSet
    <2>2. c.pois \in Good
        <3> HIDE DEF Good
        <3> QED BY <1>5, <1>8, <2>1
    <2> QED BY <2>2 DEF ACity
<1> HIDE DEF kept, made
<1>11. CitiesFine(made)
    BY <1>6, <1>8, <1>9, <1>10 DEF CitiesFine
<1> QED BY <1>7, <1>11

\* The list of the cities is one that days can be divided among.
LEMMA FineList ==
    ASSUME NEW cs, CitiesFine(cities), cs \in Seq(ToSet(cities)), cs # <<>>
    PROVE  CityList(cs)
<1>1. DOMAIN cs = 1..Len(cs) /\ Len(cs) \in Nat
    OBVIOUS
<1>2. \A k \in DOMAIN cs : cs[k] \in ToSet(cities)
    BY <1>1, ElementOfSeq
<1>3. cs \in Seq(ToSet(cs))
    <2>1. cs \in [1..Len(cs) -> ToSet(cs)]
        BY <1>1 DEF ToSet
    <2> QED BY <1>1, <2>1
<1>4. \A k \in DOMAIN cs : Len(cs[k].pois) \in Nat \ {0}
    BY <1>2, CityPlaces DEF CitiesFine
<1> QED BY <1>3, <1>4 DEF CityList

\* Some of a list first, then the others: the same elements, none twice.
LEMMA SomeFirst ==
    ASSUME NEW X, NEW s \in Seq(X), IsInjective(s), NEW A
    PROVE  /\ Kept(s, A) \o Kept(s, ToSet(s) \ A) \in Seq(X)
           /\ IsInjective(Kept(s, A) \o Kept(s, ToSet(s) \ A))
           /\ ToSet(Kept(s, A) \o Kept(s, ToSet(s) \ A)) = ToSet(s)
<1> DEFINE p == Kept(s, A)
           q == Kept(s, ToSet(s) \ A)
<1>1. /\ p \in Seq(X) /\ IsInjective(p) /\ ToSet(p) = ToSet(s) \cap A
      /\ q \in Seq(X) /\ IsInjective(q) /\ ToSet(q) = ToSet(s) \cap (ToSet(s) \ A)
    BY KeptElements, KeptStep
<1> HIDE DEF p, q
<1>2. ToSet(p \o q) = ToSet(p) \cup ToSet(q)
      /\ (IsInjective(p) /\ IsInjective(q) /\ ToSet(p) \cap ToSet(q) = {} => IsInjective(p \o q))
    BY <1>1, ConcatElements
<1>3. p \o q \in Seq(X)
    BY <1>1, ConcatProperties
<1>4. IsInjective(p \o q) /\ ToSet(p \o q) = ToSet(s)
    BY <1>1, <1>2
<1> QED BY <1>3, <1>4 DEF p, q

\* The countries in their order: each once, none forgotten.
LEMMA CountriesOrdered ==
    ASSUME CitiesFine(cities)
    PROVE  /\ _optimize_country_sequence \in Seq(Countries)
           /\ IsInjective(_optimize_country_sequence)
           /\ ToSet(_optimize_country_sequence) = Countries
<1> DEFINE all == [k \in DOMAIN cities |-> k]
           New == {k \in DOMAIN cities : \A j \in 1..(k - 1) : cities[j].country # cities[k].country}
           firsts == Kept(all, New)
           order == [k \in DOMAIN firsts |-> cities[firsts[k]].country]
           starts == Kept(order, {c.country : c \in {e \in ToSet(cities) : e.name = journey.start}})
           leading == IF starts = <<>> THEN {} ELSE {starts[1]}
<1>1. DOMAIN cities = 1..Len(cities) /\ Len(cities) \in Nat
    BY CitiesDiffer
<1>2. all \in Seq(DOMAIN cities) /\ IsInjective(all) /\ ToSet(all) = DOMAIN cities
    <2>1. all = [k \in 1..Len(cities) |-> k]
        BY <1>1
    <2> HIDE DEF all
    <2> QED BY <1>1, <2>1 DEF IsInjective, ToSet
<1>3. firsts \in Seq(DOMAIN cities) /\ IsInjective(firsts) /\ ToSet(firsts) = DOMAIN cities \cap New
    <2> HIDE DEF all, New
    <2> QED BY <1>2, KeptElements, KeptStep
<1>4. DOMAIN firsts = 1..Len(firsts) /\ Len(firsts) \in Nat
    <2> HIDE DEF firsts
    <2> QED BY <1>3
<1>5. ASSUME NEW k \in DOMAIN firsts PROVE firsts[k] \in DOMAIN cities /\ firsts[k] \in New
    <2> HIDE DEF firsts, New
    <2>1. firsts[k] \in ToSet(firsts)
        BY DEF ToSet
    <2> QED BY <1>3, <2>1
<1>6. ASSUME NEW j \in DOMAIN firsts, NEW k \in DOMAIN firsts, j # k
      PROVE  cities[firsts[j]].country # cities[firsts[k]].country
    <2>1. firsts[j] # firsts[k]
        <3> HIDE DEF firsts
        <3> QED BY <1>3, <1>6 DEF IsInjective
    <2>2. firsts[j] \in New /\ firsts[k] \in New /\ firsts[j] \in DOMAIN cities /\ firsts[k] \in DOMAIN cities
        <3> HIDE DEF firsts, New
        <3> QED BY <1>5
    <2> HIDE DEF firsts
    <2>3. firsts[j] \in Nat /\ firsts[k] \in Nat /\ firsts[j] >= 1 /\ firsts[k] >= 1
        BY <1>1, <2>2
    <2>4. CASE firsts[j] < firsts[k]
        <3>1. firsts[j] \in 1..(firsts[k] - 1)
            BY <2>3, <2>4
        <3> QED BY <2>2, <3>1
    <2>5. CASE firsts[k] < firsts[j]
        <3>1. firsts[k] \in 1..(firsts[j] - 1)
            BY <2>3, <2>5
        <3> QED BY <2>2, <3>1
    <2> QED BY <2>1, <2>3, <2>4, <2>5
<1>7. order \in Seq(Countries) /\ IsInjective(order)
    <2>1. ASSUME NEW k \in DOMAIN firsts PROVE cities[firsts[k]].country \in Countries
        <3>1. firsts[k] \in DOMAIN cities
            BY <1>5
        <3> HIDE DEF firsts
        <3> QED BY <3>1 DEF Countries
    <2> HIDE DEF firsts
    <2> QED BY <1>4, <1>6, <2>1 DEF IsInjective
<1>8. ASSUME NEW x \in Countries PROVE \E k \in DOMAIN firsts : order[k] = x
    <2> DEFINE S == {k \in DOMAIN cities : cities[k].country = x}
    <2>1. S \subseteq Nat /\ S # {}
        BY <1>1 DEF Countries
    <2>2. PICK m \in S : \A n \in S : m <= n
        <3> HIDE DEF S
        <3> QED BY <2>1, LeastNumber
    <2>3. m \in DOMAIN cities /\ cities[m].country = x
        OBVIOUS
    <2>4. m \in New
        <3>1. ASSUME NEW j \in 1..(m - 1), cities[j].country = cities[m].country PROVE FALSE
            <4>1. j \in DOMAIN cities /\ j < m
                BY <1>1, <2>3
            <4>2. j \in S
                BY <2>3, <3>1, <4>1
            <4>3. m <= j
                BY <2>2, <4>2
            <4>4. m \in Nat /\ j \in Nat
                BY <1>1, <2>3
            <4> QED BY <4>1, <4>3, <4>4
        <3> HIDE DEF S
        <3> QED BY <2>3, <3>1
    <2>5. m \in ToSet(firsts)
        <3> HIDE DEF firsts, New
        <3> QED BY <1>3, <2>3, <2>4
    <2>6. PICK k \in DOMAIN firsts : firsts[k] = m
        <3> HIDE DEF firsts
        <3> QED BY <2>5 DEF ToSet
    <2>7. order[k] = cities[firsts[k]].country
        <3> HIDE DEF firsts
        <3> QED OBVIOUS
    <2> HIDE DEF order, firsts
    <2> QED BY <2>3, <2>6, <2>7
<1>9. ToSet(order) = Countries
    <2>1. DOMAIN order = DOMAIN firsts /\ DOMAIN order = 1..Len(order)
        <3> HIDE DEF firsts
        <3> QED BY <1>4
    <2> HIDE DEF order, firsts
    <2>2. \A k \in DOMAIN order : order[k] \in Countries
        BY <1>7, <2>1, ElementOfSeq
    <2> QED BY <1>8, <2>1, <2>2 DEF ToSet
<1>10. _optimize_country_sequence = Kept(order, leading) \o Kept(order, ToSet(order) \ leading)
    BY DEF _optimize_country_sequence
<1> HIDE DEF order, leading
<1>11. /\ Kept(order, leading) \o Kept(order, ToSet(order) \ leading) \in Seq(Countries)
       /\ IsInjective(Kept(order, leading) \o Kept(order, ToSet(order) \ leading))
       /\ ToSet(Kept(order, leading) \o Kept(order, ToSet(order) \ leading)) = ToSet(order)
    BY <1>7, SomeFirst
<1> QED BY <1>9, <1>10, <1>11

\* Lists of places a day that have no place twice: what a calendar is.
OncePerDay(dealt, D) ==
    \A d, e \in D : \A j \in DOMAIN dealt[d], k \in DOMAIN dealt[e] :
        dealt[d][j] = dealt[e][k] => d = e /\ j = k

\* t has the elements of s from the a-th to the b-th, as far as there are any.
IsSlice(t, X, s, a, b) ==
    /\ t \in Seq(X)
    /\ \A j \in DOMAIN t : /\ j \in Nat \ {0} /\ a + j - 1 \in DOMAIN s /\ a + j - 1 <= b
                          /\ t[j] = s[a + j - 1]
    /\ \A q \in DOMAIN s : a <= q /\ q <= b => q - a + 1 \in DOMAIN t /\ t[q - a + 1] = s[q]

\* What ps[from - 1 : to] is.
LEMMA SliceOf ==
    ASSUME NEW X, NEW s \in Seq(X), NEW a \in Nat \ {0}, NEW b \in Int
    PROVE  IsSlice(Slice(s, a, b), X, s, a, b)
<1> DEFINE c == IF b < Len(s) THEN b ELSE Len(s)
           t == SubSeq(s, a, c)
<1>1. Len(s) \in Nat /\ DOMAIN s = 1..Len(s) /\ c \in Int /\ c <= b /\ c <= Len(s)
      /\ (\A q \in DOMAIN s : q <= b => q <= c)
    OBVIOUS
<1>2. \A i \in a..c : s[i] \in X
    <2>1. \A i \in a..c : i \in 1..Len(s)
        <3> HIDE DEF c
        <3> QED BY <1>1
    <2> HIDE DEF c
    <2> QED BY <1>1, <2>1, ElementOfSeq
<1> HIDE DEF c
<1>3. /\ t \in Seq(X) /\ Len(t) = IF a <= c THEN c - a + 1 ELSE 0
      /\ \A i \in 1..(c - a + 1) : t[i] = s[a + i - 1]
    BY <1>1, <1>2, SubSeqProperties
<1> HIDE DEF t
<1>4. DOMAIN t = 1..(c - a + 1)
    <2>1. DOMAIN t = 1..Len(t)
        BY <1>3
    <2> QED BY <1>1, <1>3, <2>1
<1>5. t = Slice(s, a, b)
    BY DEF t, c, Slice
<1>6. ASSUME NEW j \in DOMAIN t
      PROVE  j \in Nat \ {0} /\ a + j - 1 \in DOMAIN s /\ a + j - 1 <= b /\ t[j] = s[a + j - 1]
    <2>1. j \in 1..(c - a + 1)
        BY <1>4
    <2>2. a + j - 1 \in 1..Len(s) /\ a + j - 1 <= b
        BY <1>1, <2>1
    <2> QED BY <1>1, <1>3, <2>1, <2>2
<1>7. ASSUME NEW q \in DOMAIN s, a <= q, q <= b
      PROVE  q - a + 1 \in DOMAIN t /\ t[q - a + 1] = s[q]
    <2>1. q \in Nat /\ q <= c
        BY <1>1, <1>7
    <2>2. q - a + 1 \in 1..(c - a + 1) /\ a + (q - a + 1) - 1 = q
        BY <1>1, <1>7, <2>1
    <2>3. t[q - a + 1] = s[a + (q - a + 1) - 1]
        BY <1>3, <2>2
    <2> QED BY <1>4, <2>2, <2>3
<1>8. IsSlice(t, X, s, a, b)
    BY <1>3, <1>6, <1>7 DEF IsSlice
<1> QED BY <1>5, <1>8

\* Days of p places each do not overlap.
LEMMA DaysApart ==
    ASSUME NEW p \in Nat, NEW d \in Nat, NEW e \in Nat, d < e
    PROVE  d * p <= (e - 1) * p
<1>1. PICK k \in Nat : e - 1 = d + k
    <2>1. e - 1 - d \in Nat /\ e - 1 = d + (e - 1 - d)
        OBVIOUS
    <2> QED BY <2>1
<1>2. (d + k) * p = d * p + k * p
    OBVIOUS
<1>3. k * p \in Nat /\ d * p \in Nat
    OBVIOUS
<1> QED BY <1>1, <1>2, <1>3

\* The days of a city have its places only, none twice, and, when there is a
\* day, all of them.
LEMMA DaysDealt ==
    ASSUME NEW X, NEW ps \in Seq(X), IsInjective(ps), NEW n \in Int
    PROVE  LET dealt == _simple_daily_distribution(ps, n)
           IN  /\ DOMAIN dealt = 1..n
               /\ \A d \in 1..n : dealt[d] \in Seq(X) /\ ToSet(dealt[d]) \subseteq ToSet(ps)
               /\ OncePerDay(dealt, 1..n)
               /\ n >= 1 => \A x \in ToSet(ps) : \E d \in 1..n : x \in ToSet(dealt[d])
<1> DEFINE p == IF n > 0 /\ Len(ps) \div n > 1 THEN Len(ps) \div n ELSE 1
           from(d) == (d - 1) * p + 1
           to(d) == IF d < n THEN d * p ELSE Len(ps)
           dealt == [d \in 1..n |-> Slice(ps, from(d), to(d))]
<1>1. Len(ps) \in Nat /\ DOMAIN ps = 1..Len(ps)
    OBVIOUS
<1>2. p \in Nat \ {0}
    <2>1. CASE n > 0 /\ Len(ps) \div n > 1
        <3>1. Len(ps) \div n \in Int
            BY <1>1, <2>1
        <3> QED BY <2>1, <3>1
    <2>2. CASE ~(n > 0 /\ Len(ps) \div n > 1)
        BY <2>2
    <2> QED BY <2>1, <2>2
<1>3. dealt = _simple_daily_distribution(ps, n)
    BY DEF _simple_daily_distribution
<1> HIDE DEF p
<1>4. ASSUME NEW d \in 1..n
      PROVE  (d - 1) * p \in Nat /\ from(d) \in Nat \ {0} /\ to(d) \in Int /\ d * p = (d - 1) * p + p
    <2>1. d - 1 \in Nat /\ d \in Nat
        OBVIOUS
    <2>2. (d - 1) * p \in Nat /\ d * p \in Nat
        BY <1>2, <2>1
    <2>3. d * p = (d - 1) * p + p
        BY <1>2, <2>1
    <2> QED BY <1>1, <2>2, <2>3
<1>5. ASSUME NEW d \in 1..n
      PROVE  /\ dealt[d] \in Seq(X)
             /\ \A j \in DOMAIN dealt[d] :
                   /\ j \in Nat \ {0} /\ from(d) + j - 1 \in DOMAIN ps /\ from(d) + j - 1 <= to(d)
                   /\ dealt[d][j] = ps[from(d) + j - 1]
             /\ \A q \in DOMAIN ps : from(d) <= q /\ q <= to(d) => q - from(d) + 1 \in DOMAIN dealt[d]
                                                         /\ dealt[d][q - from(d) + 1] = ps[q]
    <2>1. from(d) \in Nat \ {0} /\ to(d) \in Int /\ dealt[d] = Slice(ps, from(d), to(d))
        BY <1>4
    <2> DEFINE a == from(d)
               b == to(d)
    <2>2. a \in Nat \ {0} /\ b \in Int
        BY <2>1
    <2> HIDE DEF a, b
    <2>3. IsSlice(Slice(ps, a, b), X, ps, a, b)
        BY <2>2, SliceOf
    <2>4. dealt[d] = Slice(ps, a, b)
        BY <2>1 DEF a, b
    <2>5. a = from(d) /\ b = to(d)
        BY DEF a, b
    <2> HIDE DEF from, to, dealt
    <2> QED BY <2>3, <2>4, <2>5 DEF IsSlice
<1>6. ASSUME NEW d \in 1..n PROVE dealt[d] \in Seq(X) /\ ToSet(dealt[d]) \subseteq ToSet(ps)
    <2> HIDE DEF from, to, dealt
    <2> QED BY <1>5 DEF ToSet
<1>7. ASSUME NEW d \in 1..n, NEW e \in 1..n, NEW j \in DOMAIN dealt[d], NEW k \in DOMAIN dealt[e],
             dealt[d][j] = dealt[e][k]
      PROVE  d = e /\ j = k
    <2>1. /\ from(d) + j - 1 \in DOMAIN ps /\ from(e) + k - 1 \in DOMAIN ps
          /\ ps[from(d) + j - 1] = ps[from(e) + k - 1]
          /\ j \in Nat \ {0} /\ k \in Nat \ {0} /\ from(d) + j - 1 <= to(d) /\ from(e) + k - 1 <= to(e)
        <3> HIDE DEF from, to, dealt
        <3> QED BY <1>5, <1>7
    <2>2. from(d) + j - 1 = from(e) + k - 1
        <3> HIDE DEF from, to, dealt
        <3> QED BY <2>1 DEF IsInjective
    <2>3. ASSUME NEW a \in 1..n, NEW b \in 1..n, a < b PROVE to(a) < from(b)
        <3>1. a * p <= (b - 1) * p
            BY <1>2, <2>3, DaysApart
        <3>2. to(a) = a * p
            BY <2>3
        <3>3. (b - 1) * p \in Nat /\ from(b) = (b - 1) * p + 1
            BY <1>4
        <3>4. a * p \in Int
            BY <1>2
        <3> HIDE DEF from, to
        <3> QED BY <3>1, <3>2, <3>3, <3>4
    <2>4. from(d) \in Nat /\ from(e) \in Nat /\ to(d) \in Int /\ to(e) \in Int
        BY <1>4
    <2>5. ~(d < e)
        <3>1. ASSUME d < e PROVE FALSE
            <4>1. to(d) < from(e)
                BY <2>3, <3>1
            <4> HIDE DEF from, to, dealt
            <4> QED BY <2>1, <2>2, <2>4, <4>1
        <3> QED BY <3>1
    <2>6. ~(e < d)
        <3>1. ASSUME e < d PROVE FALSE
            <4>1. to(e) < from(d)
                BY <2>3, <3>1
            <4> HIDE DEF from, to, dealt
            <4> QED BY <2>1, <2>2, <2>4, <4>1
        <3> QED BY <3>1
    <2>7. d = e
        BY <2>5, <2>6
    <2> HIDE DEF from, to, dealt
    <2> QED BY <2>1, <2>2, <2>4, <2>7
<1>8. ASSUME n >= 1, NEW x \in ToSet(ps) PROVE \E d \in 1..n : x \in ToSet(dealt[d])
    <2>1. PICK q \in DOMAIN ps : x = ps[q]
        BY DEF ToSet
    <2>2. \E d \in 1..n : from(d) <= q /\ q <= to(d)
        <3>1. q \in Nat /\ q >= 1 /\ q <= Len(ps)
            BY <1>1
        <3> DEFINE T == {d \in Nat : q <= d * p}
        <3>2. T \subseteq Nat /\ T # {}
            <4>1. q <= q * p
                BY <1>2, <3>1
            <4>2. q \in T
                BY <3>1, <4>1
            <4> QED BY <4>2
        <3>3. PICK m \in T : \A t \in T : m <= t
            <4> HIDE DEF T
            <4> QED BY <3>2, LeastNumber
        <3>4. m \in Nat /\ q <= m * p
            OBVIOUS
        <3>5. m # 0
            <4>1. 0 * p = 0
                BY <1>2
            <4> QED BY <3>1, <3>4, <4>1
        <3>6. (m - 1) * p < q
            <4>1. m - 1 \in Nat /\ ~(m <= m - 1)
                BY <3>4, <3>5
            <4>2. m - 1 \notin T
                <5> HIDE DEF T
                <5> QED BY <3>3, <4>1
            <4>3. ~(q <= (m - 1) * p)
                BY <4>1, <4>2
            <4>4. (m - 1) * p \in Nat
                BY <1>2, <4>1
            <4> QED BY <3>1, <4>3, <4>4
        <3>7. CASE m < n
            <4>1. m \in 1..n /\ to(m) = m * p
                BY <3>4, <3>5, <3>7
            <4>2. from(m) <= q
                BY <1>4, <3>1, <3>6, <4>1
            <4> HIDE DEF from, to
            <4> QED BY <3>4, <4>1, <4>2
        <3>8. CASE m >= n
            <4>1. n \in 1..n /\ to(n) = Len(ps)
                BY <1>8
            <4>2. (n - 1) * p <= (m - 1) * p
                <5>1. CASE n = m
                    BY <5>1, <1>2, <3>4, <3>5
                <5>2. CASE n < m
                    <6>1. n - 1 \in Nat /\ m \in Nat /\ n - 1 < m
                        BY <1>8, <3>4, <5>2
                    <6>2. (n - 1) * p <= (m - 1) * p
                        BY <1>2, <6>1, DaysApart
                    <6> QED BY <6>2
                <5> QED BY <3>4, <3>8, <5>1, <5>2
            <4>3. (n - 1) * p \in Nat /\ (m - 1) * p \in Nat
                <5>1. n - 1 \in Nat /\ m - 1 \in Nat
                    BY <1>8, <3>4, <3>5
                <5> QED BY <1>2, <5>1
            <4>4. from(n) <= q
                BY <3>1, <3>6, <4>2, <4>3
            <4> HIDE DEF from, to
            <4> QED BY <3>1, <4>1, <4>4
        <3> QED BY <3>4, <3>7, <3>8
    <2>3. PICK d \in 1..n : from(d) <= q /\ q <= to(d)
        BY <2>2
    <2>4. q - from(d) + 1 \in DOMAIN dealt[d] /\ dealt[d][q - from(d) + 1] = ps[q]
        <3> HIDE DEF from, to, dealt
        <3> QED BY <1>5, <2>3
    <2>5. x \in ToSet(dealt[d])
        <3> HIDE DEF from, to, dealt
        <3> QED BY <2>1, <2>4 DEF ToSet
    <2> HIDE DEF dealt
    <2> QED BY <2>5
<1>9. DOMAIN dealt = 1..n
    OBVIOUS
<1> HIDE DEF dealt
<1>10. OncePerDay(dealt, 1..n)
    BY <1>7 DEF OncePerDay
<1> QED BY <1>3, <1>6, <1>8, <1>9, <1>10

\* The cities of the regions from one on.
Later(rs, first) == UNION {ToSet(rs[r].members) : r \in first..Len(rs)}

\* A region: cities, each once, and the days they share.
ARegion(r, C) ==
    r.members \in Seq(C) /\ r.members # <<>> /\ IsInjective(r.members) /\ r.duration \in Nat \ {0}

\* The regions of a journey: of cities that are in one region only.
RegionsFine(rs, C) ==
    /\ rs \in Seq(ToSet(rs)) /\ rs # <<>>
    /\ \A r \in ToSet(rs) : ARegion(r, C)
    /\ \A q, r \in DOMAIN rs : q # r => ToSet(rs[q].members) \cap ToSet(rs[r].members) = {}

\* The first region and the others.
LEMMA FirstRegion ==
    ASSUME NEW rs, NEW C, RegionsFine(rs, C)
    PROVE  /\ DOMAIN rs = 1..Len(rs) /\ Len(rs) \in Nat \ {0} /\ Head(rs) = rs[1]
           /\ \A r \in 1..Len(rs) : ARegion(rs[r], C)
           /\ ARegion(Head(rs), C) /\ ToSet(Head(rs).members) \subseteq C
           /\ Later(rs, 1) = ToSet(Head(rs).members) \cup Later(rs, 2)
           /\ ToSet(Head(rs).members) \cap Later(rs, 2) = {}
           /\ Later(rs, 1) \subseteq C
<1>1. DOMAIN rs = 1..Len(rs) /\ Len(rs) \in Nat \ {0} /\ Head(rs) = rs[1]
    BY EmptySeq DEF RegionsFine
<1>2. \A r \in 1..Len(rs) : ARegion(rs[r], C)
    BY <1>1 DEF RegionsFine, ToSet
<1>3. \A r \in 1..Len(rs) : ToSet(rs[r].members) \subseteq C
    <2>1. ASSUME NEW r \in 1..Len(rs), NEW k \in DOMAIN rs[r].members PROVE rs[r].members[k] \in C
        <3>1. rs[r].members \in Seq(C)
            BY <1>2 DEF ARegion
        <3> QED BY <3>1, ElementOfSeq
    <2> QED BY <2>1 DEF ToSet
<1>4. Later(rs, 1) = ToSet(Head(rs).members) \cup Later(rs, 2)
    <2>1. 1..Len(rs) = {1} \cup 2..Len(rs)
        BY <1>1
    <2> QED BY <1>1, <2>1 DEF Later
<1>5. ToSet(Head(rs).members) \cap Later(rs, 2) = {}
    <2>1. ASSUME NEW r \in 2..Len(rs) PROVE ToSet(rs[1].members) \cap ToSet(rs[r].members) = {}
        <3>1. 1 \in DOMAIN rs /\ r \in DOMAIN rs /\ 1 # r
            BY <1>1
        <3> QED BY <3>1 DEF RegionsFine
    <2> QED BY <1>1, <2>1 DEF Later
<1>6. Later(rs, 1) \subseteq C
    BY <1>3 DEF Later
<1>7. ARegion(Head(rs), C) /\ ToSet(Head(rs).members) \subseteq C
    BY <1>1, <1>2, <1>3
<1> QED BY <1>1, <1>2, <1>4, <1>5, <1>6, <1>7

\* What is left when the first region is done.
LEMMA OtherRegions ==
    ASSUME NEW rs, NEW C, RegionsFine(rs, C), Len(rs) > 1
    PROVE  /\ RegionsFine(Tail(rs), C) /\ Later(Tail(rs), 1) = Later(rs, 2)
           /\ Later(Tail(rs), 2) \subseteq Later(rs, 2)
<1>1. DOMAIN rs = 1..Len(rs) /\ Len(rs) \in Nat \ {0} /\ rs \in Seq(ToSet(rs)) /\ rs # <<>>
    BY FirstRegion DEF RegionsFine
<1> DEFINE t == Tail(rs)
<1>2. t \in Seq(ToSet(rs)) /\ Len(t) = Len(rs) - 1 /\ \A i \in 1..Len(t) : t[i] = rs[i + 1]
    BY <1>1, HeadTailProperties
<1>3. DOMAIN t = 1..Len(t) /\ Len(t) \in Nat /\ t # <<>>
    <2> HIDE DEF t
    <2> QED BY <1>1, <1>2
<1> HIDE DEF t
<1>4. t \in Seq(ToSet(t))
    <2>1. t \in [1..Len(t) -> ToSet(t)]
        <3>1. \A i \in 1..Len(t) : t[i] \in ToSet(t)
            BY <1>3 DEF ToSet
        <3>2. t = [i \in 1..Len(t) |-> t[i]]
            BY <1>2
        <3> QED BY <3>1, <3>2
    <2> QED BY <1>3, <2>1
<1>5. ASSUME NEW r \in ToSet(t) PROVE ARegion(r, C)
    <2>1. PICK i \in 1..Len(t) : r = t[i]
        BY <1>3 DEF ToSet
    <2>2. i + 1 \in 1..Len(rs) /\ r = rs[i + 1]
        BY <1>1, <1>2, <2>1
    <2> QED BY <2>2, FirstRegion
<1>6. ASSUME NEW q \in DOMAIN t, NEW r \in DOMAIN t, q # r
      PROVE  ToSet(t[q].members) \cap ToSet(t[r].members) = {}
    <2>1. q + 1 \in DOMAIN rs /\ r + 1 \in DOMAIN rs /\ q + 1 # r + 1 /\ t[q] = rs[q + 1] /\ t[r] = rs[r + 1]
        BY <1>1, <1>2, <1>3, <1>6
    <2> QED BY <2>1 DEF RegionsFine
<1>7. RegionsFine(t, C)
    BY <1>3, <1>4, <1>5, <1>6 DEF RegionsFine
<1>8. Later(t, 1) = Later(rs, 2)
    <2>1. \A i \in 1..Len(t) : i + 1 \in 2..Len(rs) /\ t[i] = rs[i + 1]
        BY <1>1, <1>2
    <2>2. \A i \in 2..Len(rs) : i - 1 \in 1..Len(t) /\ rs[i] = t[i - 1]
        BY <1>1, <1>2
    <2>3. Later(t, 1) \subseteq Later(rs, 2)
        BY <2>1 DEF Later
    <2>4. Later(rs, 2) \subseteq Later(t, 1)
        BY <2>2 DEF Later
    <2> QED BY <2>3, <2>4
<1>9. Later(t, 2) \subseteq Later(t, 1)
    BY <1>7, FirstRegion
<1> QED BY <1>7, <1>8, <1>9 DEF t

\* The elements of a list that a set selects.
LEMMA ChosenOf ==
    ASSUME NEW C, NEW s \in Seq(C), NEW S, Kept(s, S) # <<>>
    PROVE  Kept(s, S)[1] \in ToSet(s)
<1>1. Kept(s, S) \in Seq(C) /\ ToSet(Kept(s, S)) = ToSet(s) \cap S
    BY KeptElements, KeptStep
<1>2. 1 \in DOMAIN Kept(s, S)
    BY <1>1, EmptySeq
<1> QED BY <1>1, <1>2 DEF ToSet

\* One region of all the cities, or one of each country: every city in one.
LEMMA StrategyRegions ==
    ASSUME journey \in Journeys, CitiesFine(cities), _determine_optimization_strategy
    PROVE  /\ RegionsFine(regions', ToSet(cities)) /\ Later(regions', 1) = ToSet(cities)
           /\ ~ByCountry => Len(regions') = 1 /\ Head(regions').duration = journey.duration
           /\ cities # <<>>
<1> DEFINE order == _optimize_country_sequence
           given == _distribute_days_among_countries
           In(x) == {c \in ToSet(cities) : c.country = x}
           Members(k) == Kept(cities, In(order[k]))
           many == [k \in DOMAIN order |-> Region(Members(k), given[order[k]], Anywhere)]
           one == <<Region(cities, journey.duration, journey.start)>>
           C == ToSet(cities)
<1>1. cities \in Seq(C) /\ IsInjective(cities) /\ cities # <<>> /\ journey.duration \in Nat \ {0}
    <2>1. Len(cities) > 1
        BY DEF _determine_optimization_strategy
    <2>2. cities # <<>>
        BY <2>1, EmptySeq
    <2> QED BY <2>2, CitiesDiffer, PlacesListed DEF CitiesFine
<1>2. regions' = IF ByCountry THEN many ELSE one
    BY DEF _determine_optimization_strategy
<1>3. /\ \A m, n, s : Region(m, n, s).members = m /\ Region(m, n, s).duration = n
    BY DEF Region
<1>4. ASSUME ~ByCountry PROVE RegionsFine(one, C) /\ Later(one, 1) = C /\ Len(one) = 1
                              /\ Head(one).duration = journey.duration
    <2> DEFINE r == Region(cities, journey.duration, journey.start)
    <2>1. r.members = cities /\ r.duration = journey.duration
        BY <1>3
    <2> HIDE DEF r
    <2>2. Len(<<r>>) = 1 /\ DOMAIN <<r>> = {1} /\ <<r>>[1] = r /\ <<r>> # <<>> /\ Head(<<r>>) = r
        OBVIOUS
    <2>3. ToSet(<<r>>) = {r}
        BY <2>2 DEF ToSet
    <2>4. ARegion(r, C)
        <3> HIDE DEF C
        <3> QED BY <1>1, <2>1 DEF ARegion
    <2>5. <<r>> \in Seq({r})
        OBVIOUS
    <2>6. RegionsFine(<<r>>, C)
        <3>1. \A q, p \in DOMAIN <<r>> : q = p
            BY <2>2
        <3> HIDE DEF C
        <3> QED BY <2>2, <2>3, <2>4, <2>5, <3>1 DEF RegionsFine
    <2>7. Later(<<r>>, 1) = ToSet(r.members)
        <3>1. 1..Len(<<r>>) = {1}
            BY <2>2
        <3> QED BY <2>2, <3>1 DEF Later
    <2> QED BY <2>1, <2>2, <2>6, <2>7 DEF r
<1>5. order \in Seq(Countries) /\ IsInjective(order) /\ ToSet(order) = Countries
    BY CountriesOrdered
<1>6. given \in [Countries -> Nat \ {0}]
    <2>1. CityList(cities)
        BY <1>1, FineList
    <2> QED BY <1>1, <2>1, CountriesDivided
<1> HIDE DEF order, given
<1>7. DOMAIN order = 1..Len(order) /\ Len(order) \in Nat /\ \A k \in DOMAIN order : order[k] \in Countries
    BY <1>5, ElementOfSeq
<1>8. ASSUME NEW k \in DOMAIN order
      PROVE  /\ Members(k) \in Seq(C) /\ IsInjective(Members(k)) /\ Members(k) # <<>>
             /\ ToSet(Members(k)) = C \cap In(order[k])
    <2>1. Members(k) \in Seq(C) /\ IsInjective(Members(k)) /\ ToSet(Members(k)) = C \cap In(order[k])
        <3> HIDE DEF C, In
        <3> QED BY <1>1, KeptElements, KeptStep DEF C
    <2>2. C \cap In(order[k]) # {}
        <3>1. PICK j \in DOMAIN cities : cities[j].country = order[k]
            BY <1>7 DEF Countries
        <3>2. cities[j] \in C
            BY DEF ToSet
        <3> QED BY <3>1, <3>2
    <2>3. Members(k) # <<>>
        <3>1. ToSet(Members(k)) # {}
            BY <2>1, <2>2
        <3> HIDE DEF Members
        <3> QED BY <3>1 DEF ToSet
    <2> QED BY <2>1, <2>3
<1>9. DOMAIN many = DOMAIN order
      /\ \A k \in DOMAIN order : many[k].members = Members(k) /\ many[k].duration = given[order[k]]
    <2> HIDE DEF Members
    <2> QED BY <1>3
<1>10. many \in Seq(ToSet(many)) /\ many # <<>> /\ Len(many) = Len(order)
    <2>1. many \in [1..Len(order) -> ToSet(many)]
        <3> HIDE DEF Members
        <3> QED BY <1>7 DEF ToSet
    <2> HIDE DEF many
    <2>2. many \in Seq(ToSet(many)) /\ Len(many) = Len(order)
        BY <1>7, <2>1
    <2>3. Len(order) # 0
        <3>1. 1 \in DOMAIN cities
            BY <1>1, EmptySeq
        <3>2. Countries # {}
            BY <3>1 DEF Countries
        <3>3. DOMAIN order # {}
            BY <1>5, <3>2 DEF ToSet
        <3> QED BY <1>7, <3>3
    <2> QED BY <2>2, <2>3, EmptySeq
<1>11. ASSUME NEW k \in DOMAIN order PROVE ARegion(many[k], C)
    <2>1. given[order[k]] \in Nat \ {0}
        BY <1>6, <1>7
    <2> HIDE DEF Members, C, many
    <2> QED BY <1>8, <1>9, <2>1 DEF ARegion
<1>12. ASSUME NEW j \in DOMAIN order, NEW k \in DOMAIN order, j # k
       PROVE  ToSet(many[j].members) \cap ToSet(many[k].members) = {}
    <2>1. order[j] # order[k]
        BY <1>5, <1>12 DEF IsInjective
    <2>2. In(order[j]) \cap In(order[k]) = {}
        BY <2>1
    <2> HIDE DEF Members, C, many, In
    <2> QED BY <1>8, <1>9, <2>2
<1>13. Later(many, 1) = C
    <2>1. \A r \in 1..Len(many) : ToSet(many[r].members) = C \cap In(order[r])
        <3> HIDE DEF Members, C, many, In
        <3> QED BY <1>7, <1>8, <1>9, <1>10
    <2>2. ASSUME NEW c \in C PROVE \E r \in 1..Len(many) : c \in In(order[r])
        <3>1. PICK j \in DOMAIN cities : c = cities[j]
            BY DEF ToSet
        <3>2. c.country \in ToSet(order)
            BY <1>5, <3>1 DEF Countries
        <3>3. PICK r \in DOMAIN order : order[r] = c.country
            BY <3>2 DEF ToSet
        <3>4. r \in 1..Len(many)
            <4> HIDE DEF many
            <4> QED BY <1>7, <1>10
        <3> HIDE DEF many
        <3> QED BY <3>3, <3>4
    <2> HIDE DEF many, C, In
    <2> QED BY <2>1, <2>2 DEF Later
<1>14. RegionsFine(many, C)
    <2>1. \A r \in ToSet(many) : ARegion(r, C)
        <3> HIDE DEF many, C
        <3> QED BY <1>9, <1>11 DEF ToSet
    <2> HIDE DEF many, C
    <2> QED BY <1>9, <1>10, <1>12, <2>1 DEF RegionsFine
<1> HIDE DEF many, one, C
<1>15. RegionsFine(regions', C) /\ Later(regions', 1) = C
       /\ (~ByCountry => Len(regions') = 1 /\ Head(regions').duration = journey.duration)
    <2>1. CASE ByCountry
        BY <1>2, <1>13, <1>14, <2>1
    <2>2. CASE ~ByCountry
        BY <1>2, <1>4, <2>2
    <2> QED BY <2>1, <2>2
<1> QED BY <1>1, <1>15 DEF C

\* Days whose places are no place of a set of cities.
Clear(cal, W) == \A c \in W : \A d \in DOMAIN cal : ToSet(cal[d]) \cap ToSet(c.pois) = {}

\* Finitely many days with a list of places each, no place twice.
ACalendar(cal, P) ==
    /\ IsFiniteSet(DOMAIN cal)
    /\ \A d \in DOMAIN cal : cal[d] \in Seq(P)
    /\ OncePerDay(cal, DOMAIN cal)

\* n days from t on are filled with the places ps, whatever was planned for them.
CityFilled(new, cal, ps, t, n) ==
    /\ DOMAIN new = DOMAIN cal \cup (t..(t + n - 1))
    /\ \A d \in t..(t + n - 1) : ToSet(new[d]) \subseteq ToSet(ps)
    /\ \A d \in DOMAIN cal \ (t..(t + n - 1)) : new[d] = cal[d]
    /\ n >= 1 => \A x \in ToSet(ps) : \E d \in t..(t + n - 1) : x \in ToSet(new[d])

\* Fewer cities are clear too.
LEMMA ClearLess == ASSUME NEW cal, NEW W, NEW V, Clear(cal, W), V \subseteq W PROVE Clear(cal, V)
BY DEF Clear

\* A city whose places are not planned yet is filled in.
LEMMA DaysFilled ==
    ASSUME NEW cal, NEW P, ACalendar(cal, P), NEW ps \in Seq(P), IsInjective(ps),
           \A d \in DOMAIN cal : ToSet(cal[d]) \cap ToSet(ps) = {},
           NEW t \in Int, NEW n \in Int
    PROVE  LET new == Updated(cal, [d \in t..(t + n - 1) |-> _simple_daily_distribution(ps, n)[d - t + 1]])
           IN  ACalendar(new, P) /\ CityFilled(new, cal, ps, t, n)
<1> DEFINE dealt == _simple_daily_distribution(ps, n)
           block == t..(t + n - 1)
           new == Updated(cal, [d \in block |-> dealt[d - t + 1]])
<1>1. /\ \A d \in 1..n : dealt[d] \in Seq(P) /\ ToSet(dealt[d]) \subseteq ToSet(ps)
      /\ OncePerDay(dealt, 1..n)
      /\ n >= 1 => \A x \in ToSet(ps) : \E d \in 1..n : x \in ToSet(dealt[d])
    BY DaysDealt
<1> HIDE DEF dealt
<1>2. \A d \in block : d - t + 1 \in 1..n /\ d \in Int
    OBVIOUS
<1>3. \A d \in 1..n : t + d - 1 \in block /\ (t + d - 1) - t + 1 = d
    OBVIOUS
<1> HIDE DEF block
<1>4. /\ DOMAIN new = DOMAIN cal \cup block
      /\ \A d \in block : new[d] = dealt[d - t + 1]
      /\ \A d \in DOMAIN cal \ block : new[d] = cal[d]
    BY DEF Updated
<1> HIDE DEF new
<1>5. ASSUME NEW d \in DOMAIN new PROVE new[d] \in Seq(P)
    <2>1. CASE d \in block
        BY <1>1, <1>2, <1>4, <2>1
    <2>2. CASE d \notin block
        BY <1>4, <1>5, <2>2 DEF ACalendar
    <2> QED BY <2>1, <2>2
<1>6. \A d \in block : ToSet(new[d]) \subseteq ToSet(ps)
    BY <1>1, <1>2, <1>4
<1>7. ASSUME NEW d \in DOMAIN new, NEW e \in DOMAIN new, NEW j \in DOMAIN new[d], NEW k \in DOMAIN new[e],
             new[d][j] = new[e][k]
      PROVE  d = e /\ j = k
    <2>1. CASE d \in block /\ e \in block
        <3>1. /\ new[d] = dealt[d - t + 1] /\ new[e] = dealt[e - t + 1]
              /\ d - t + 1 \in 1..n /\ e - t + 1 \in 1..n
            BY <1>2, <1>4, <2>1
        <3>2. d - t + 1 = e - t + 1 /\ j = k
            BY <1>1, <1>7, <3>1 DEF OncePerDay
        <3> QED BY <1>2, <2>1, <3>2
    <2>2. CASE d \notin block /\ e \notin block
        BY <1>4, <1>7, <2>2 DEF ACalendar, OncePerDay
    <2>3. CASE d \in block /\ e \notin block
        <3>1. new[d][j] \in ToSet(ps) /\ new[e] = cal[e] /\ e \in DOMAIN cal /\ new[e][k] \in ToSet(cal[e])
            BY <1>4, <1>6, <2>3 DEF ToSet
        <3> QED BY <1>7, <3>1
    <2>4. CASE d \notin block /\ e \in block
        <3>1. new[e][k] \in ToSet(ps) /\ new[d] = cal[d] /\ d \in DOMAIN cal /\ new[d][j] \in ToSet(cal[d])
            BY <1>4, <1>6, <2>4 DEF ToSet
        <3> QED BY <1>7, <3>1
    <2> QED BY <2>1, <2>2, <2>3, <2>4
<1>8. ASSUME n >= 1, NEW x \in ToSet(ps) PROVE \E d \in block : x \in ToSet(new[d])
    <2>1. PICK d \in 1..n : x \in ToSet(dealt[d])
        BY <1>1, <1>8
    <2>2. t + d - 1 \in block /\ new[t + d - 1] = dealt[d]
        BY <1>3, <1>4
    <2> QED BY <2>1, <2>2
<1>9. ACalendar(new, P)
    <2>1. IsFiniteSet(block)
        BY FS_Interval DEF block
    <2>2. IsFiniteSet(DOMAIN cal)
        BY DEF ACalendar
    <2>3. IsFiniteSet(DOMAIN cal \cup block)
        BY <2>1, <2>2, FS_Union
    <2>4. IsFiniteSet(DOMAIN new)
        BY <1>4, <2>3
    <2> QED BY <1>5, <1>7, <2>4 DEF ACalendar, OncePerDay
<1>10. CityFilled(new, cal, ps, t, n)
    BY <1>4, <1>6, <1>8 DEF CityFilled, block
<1> QED BY <1>9, <1>10 DEF new, dealt, block

\* What the calendar of a single city is.
LEMMA SingleDays ==
    ASSUME NEW P, NEW ps \in Seq(P), IsInjective(ps), NEW n \in Nat \ {0}
    PROVE  /\ ACalendar(_simple_daily_distribution(ps, n), P)
           /\ DOMAIN _simple_daily_distribution(ps, n) = 1..n
           /\ \A x \in ToSet(ps) : \E d \in 1..n : x \in ToSet(_simple_daily_distribution(ps, n)[d])
<1> DEFINE dealt == _simple_daily_distribution(ps, n)
<1>1. /\ DOMAIN dealt = 1..n
      /\ \A d \in 1..n : dealt[d] \in Seq(P)
      /\ OncePerDay(dealt, 1..n)
      /\ \A x \in ToSet(ps) : \E d \in 1..n : x \in ToSet(dealt[d])
    <2>1. n >= 1 /\ n \in Int
        OBVIOUS
    <2> QED BY <2>1, DaysDealt
<1> HIDE DEF dealt
<1>2. ACalendar(dealt, P)
    BY <1>1, FS_Interval DEF ACalendar
<1> QED BY <1>1, <1>2 DEF dealt

-----------------------------------------------------------------------------
(* No place twice *)

\* The stages in which there is a region under way.
Planning == phase \in {"start", "order", "fill"}

\* The cities whose places are still to be planned.
Pending == IF phase = "start" THEN Later(regions, 1)
           ELSE IF phase \in {"order", "fill"} THEN ToSet(to_fill) \cup remaining \cup Later(regions, 2)
           ELSE {}

\* The cities of the region under way, in order so far and still without.
Ordering ==
    /\ to_fill \in Seq(ToSet(cities)) /\ IsInjective(to_fill)
    /\ ToSet(to_fill) \cup remaining \subseteq ToSet(Head(regions).members)
    /\ ToSet(to_fill) \cap remaining = {}
    /\ phase = "order" => to_fill # <<>>
    /\ phase = "fill" => remaining = {}

\* Nothing is planned.
NothingYet == /\ DOMAIN calendar = {} /\ DOMAIN shares = {} /\ base = 1
              /\ sequence = <<>> /\ lodgings = <<>>

\* The cities that are to be filled have their days.
SharesKnown == \A c \in ToSet(to_fill) : c.name \in DOMAIN shares /\ shares[c.name] \in Int

\* The inductive invariant: no place is in two cities, no city in two regions or
\* twice in the order; what is planned holds no place twice and no place of a
\* city that is still to come.
JourneyInv ==
    /\ journey \in Journeys /\ base \in Int /\ today \in Int
    /\ phase \in {"cluster", "strategy"} => NothingYet
    /\ CitiesFine(cities)
    /\ Planning => RegionsFine(regions, ToSet(cities))
    /\ phase \in {"order", "fill"} => Ordering
    /\ phase = "fill" => SharesKnown
    /\ ACalendar(calendar, PlaceIndices) /\ Clear(calendar, Pending)

\* The cities stay what they are.
LEMMA CitiesStay ==
    ASSUME CitiesFine(cities), cities' = cities, journey' = journey
    PROVE  CitiesFine(cities)' /\ PlaceIndices' = PlaceIndices
<1>1. PlaceIndices' = PlaceIndices
    BY DEF PlaceIndices
<1> QED BY <1>1 DEF CitiesFine, ACity

\* The calendar stays, and no city comes back that was not pending.
LEMMA CalendarStays ==
    ASSUME ACalendar(calendar, PlaceIndices), Clear(calendar, Pending), calendar' = calendar,
           journey' = journey, Pending' \subseteq Pending
    PROVE  ACalendar(calendar, PlaceIndices)' /\ Clear(calendar, Pending)'
<1>1. PlaceIndices' = PlaceIndices
    BY DEF PlaceIndices
<1>2. Clear(calendar, Pending')
    BY ClearLess
<1> QED BY <1>1, <1>2

\* Nothing is planned at first.
LEMMA JourneyInitial == ASSUME JourneyInit PROVE JourneyInv
<1> USE DEF JourneyInit, NothingPlanned
<1>1. journey \in Journeys /\ phase = "cluster" /\ base = 1 /\ today = 1
    OBVIOUS
<1>2. NothingYet
    BY DEF NothingYet
<1>3. CitiesFine(cities)
    <2>1. cities \in Seq(ToSet(cities)) /\ DOMAIN cities = {}
        BY EmptySeq
    <2>2. ToSet(cities) = {}
        BY <2>1 DEF ToSet
    <2> QED BY <2>1, <2>2 DEF CitiesFine
<1>4. ACalendar(calendar, PlaceIndices) /\ Clear(calendar, Pending)
    <2>1. DOMAIN calendar = {}
        BY <1>2 DEF NothingYet
    <2> QED BY <2>1, FS_EmptySet DEF ACalendar, Clear, OncePerDay
<1> QED BY <1>1, <1>2, <1>3, <1>4 DEF JourneyInv, Planning

\* Clustering: the clusters have no place in common.
LEMMA ClustersKeep == ASSUME JourneyInv, cluster_pois_advanced PROVE JourneyInv'
<1> USE DEF cluster_pois_advanced
<1>1. journey' = journey /\ cities' = Cities /\ phase' = "strategy" /\ base' = base /\ today' = today
      /\ calendar' = calendar /\ phase = "cluster"
    OBVIOUS
<1>2. CitiesFine(cities)'
    <2>1. CitiesFine(Cities)
        BY CitiesFound DEF JourneyInv
    <2>2. PlaceIndices' = PlaceIndices
        BY <1>1 DEF PlaceIndices
    <2> QED BY <1>1, <2>1, <2>2 DEF CitiesFine, ACity
<1>3. NothingYet'
    BY <1>1 DEF JourneyInv, NothingYet
<1>4. Pending' \subseteq Pending
    BY <1>1 DEF Pending
<1>5. ACalendar(calendar, PlaceIndices)' /\ Clear(calendar, Pending)'
    BY <1>1, <1>4, CalendarStays DEF JourneyInv
<1> QED BY <1>1, <1>2, <1>3, <1>5 DEF JourneyInv, Planning

\* A single city has all the places of the request.
LEMMA SingleCity ==
    ASSUME JourneyInv, _optimize_single_city
    PROVE  /\ phase' \in {"stays", "done"} /\ phase' = (IF full THEN "done" ELSE "stays")
           /\ Len(cities') = 1 /\ cities'[1].pois = PoiIndices /\ DOMAIN cities' = {1}
           /\ cities' \in Seq(ToSet(cities')) /\ sequence' = cities' /\ to_fill' = cities'
           /\ calendar' = _simple_daily_distribution(PoiIndices, journey.duration)
           /\ journey' = journey /\ full' = full /\ base' = base /\ today' = today /\ shares' = shares
           /\ lodgings' = lodgings /\ NothingYet
<1> USE DEF _optimize_single_city
<1>1. PICK city : /\ cities' = <<city>> /\ sequence' = <<city>> /\ to_fill' = <<city>>
                  /\ city.pois = PoiIndices
                  /\ calendar' = _simple_daily_distribution(PoiIndices, journey.duration)
    OBVIOUS
<1>2. Len(cities') = 1 /\ DOMAIN cities' = {1} /\ cities'[1] = city
    BY <1>1
<1>3. cities' \in Seq(ToSet(cities'))
    <2>1. ToSet(<<city>>) = {city}
        BY DEF ToSet
    <2> QED BY <1>1, <2>1
<1>4. NothingYet
    BY DEF JourneyInv
<1> QED BY <1>1, <1>2, <1>3, <1>4

\* A single city: its calendar has each place once.
LEMMA SingleKeeps == ASSUME JourneyInv, _optimize_single_city PROVE JourneyInv'
<1>1. /\ phase' \in {"stays", "done"} /\ DOMAIN cities' = {1} /\ cities'[1].pois = PoiIndices
      /\ cities' \in Seq(ToSet(cities')) /\ journey' = journey /\ base' = base /\ today' = today
      /\ calendar' = _simple_daily_distribution(PoiIndices, journey.duration)
    BY SingleCity
<1>2. /\ PoiIndices \in Seq(PlaceIndices) /\ IsInjective(PoiIndices) /\ PoiIndices # <<>>
      /\ journey.duration \in Nat \ {0}
    BY PlacesListed DEF JourneyInv
<1>3. PlaceIndices' = PlaceIndices
    BY <1>1 DEF PlaceIndices
<1>4. CitiesFine(cities)'
    <2>1. \A c \in ToSet(cities') : c = cities'[1]
        BY <1>1 DEF ToSet
    <2>2. \A c \in ToSet(cities') : c.pois \in Seq(PlaceIndices') /\ c.pois # <<>> /\ IsInjective(c.pois)
        BY <1>1, <1>2, <1>3, <2>1
    <2> QED BY <1>1, <2>2 DEF CitiesFine, ACity
<1>5. ACalendar(calendar', PlaceIndices')
    BY <1>1, <1>2, <1>3, SingleDays
<1>6. Pending' = {}
    BY <1>1 DEF Pending
<1>7. Clear(calendar', Pending')
    BY <1>6 DEF Clear
<1> QED BY <1>1, <1>4, <1>5, <1>7 DEF JourneyInv, Planning

\* The regions share no city.
LEMMA StrategyKeeps == ASSUME JourneyInv, _determine_optimization_strategy PROVE JourneyInv'
<1>1. /\ journey' = journey /\ cities' = cities /\ phase' = "start" /\ base' = base /\ today' = today
      /\ calendar' = calendar /\ phase = "strategy"
    BY DEF _determine_optimization_strategy
<1>2. CitiesFine(cities)' /\ PlaceIndices' = PlaceIndices
    BY <1>1, CitiesStay DEF JourneyInv
<1>3. RegionsFine(regions', ToSet(cities'))
    BY <1>1, StrategyRegions DEF JourneyInv
<1>4. DOMAIN calendar = {}
    BY <1>1 DEF JourneyInv, NothingYet
<1>5. ACalendar(calendar', PlaceIndices') /\ Clear(calendar', Pending')
    BY <1>1, <1>4, FS_EmptySet DEF ACalendar, Clear, OncePerDay
<1> QED BY <1>1, <1>2, <1>3, <1>5 DEF JourneyInv, Planning

\* What the start leaves: itself in the order, the others of another name.
LEMMA Started ==
    ASSUME JourneyInv, StartCity
    PROVE  \E start \in ToSet(Head(regions).members) :
              /\ to_fill' = <<start>>
              /\ remaining' = {c \in ToSet(Head(regions).members) : c.name # start.name}
              /\ phase' = "order" /\ today' = base
              /\ UNCHANGED <<full, journey, cities, regions, sequence, shares, base, calendar, lodgings>>
<1> DEFINE members == Head(regions).members
           named == Kept(members, {c \in ToSet(members) : c.name = Head(regions).start})
           start == IF named = <<>> THEN members[1] ELSE named[1]
<1>1. ARegion(Head(regions), ToSet(cities))
    <2>1. RegionsFine(regions, ToSet(cities))
        BY DEF JourneyInv, StartCity, Planning
    <2> QED BY <2>1, FirstRegion
<1>2. members \in Seq(ToSet(cities)) /\ members # <<>>
    BY <1>1 DEF ARegion
<1>3. start \in ToSet(members)
    <2> DEFINE S == {c \in ToSet(members) : c.name = Head(regions).start}
    <2>1. CASE named = <<>>
        <3>1. 1 \in DOMAIN members
            BY <1>2, EmptySeq
        <3> QED BY <2>1, <3>1 DEF ToSet
    <2>2. CASE named # <<>>
        <3>1. Kept(members, S)[1] \in ToSet(members)
            <4> HIDE DEF members, S
            <4> QED BY <1>2, <2>2, ChosenOf DEF S
        <3> QED BY <2>2, <3>1
    <2> QED BY <2>1, <2>2
<1>4. /\ to_fill' = <<start>>
      /\ remaining' = {c \in ToSet(members) : c.name # start.name}
      /\ phase' = "order" /\ today' = base
      /\ UNCHANGED <<full, journey, cities, regions, sequence, shares, base, calendar, lodgings>>
    BY DEF StartCity
<1> HIDE DEF start
<1> QED BY <1>3, <1>4

\* The start and the others are what is to come of the region.
LEMMA StartKeeps == ASSUME JourneyInv, StartCity PROVE JourneyInv'
<1>1. PICK start \in ToSet(Head(regions).members) :
              /\ to_fill' = <<start>>
              /\ remaining' = {c \in ToSet(Head(regions).members) : c.name # start.name}
              /\ phase' = "order" /\ today' = base
              /\ UNCHANGED <<full, journey, cities, regions, sequence, shares, base, calendar, lodgings>>
    BY Started
<1>2. phase = "start"
    BY DEF StartCity
<1>3. RegionsFine(regions, ToSet(cities))
    BY <1>2 DEF JourneyInv, Planning
<1>4. /\ ToSet(Head(regions).members) \subseteq ToSet(cities)
      /\ Later(regions, 1) = ToSet(Head(regions).members) \cup Later(regions, 2)
    BY <1>3, FirstRegion
<1>5. CitiesFine(cities)' /\ PlaceIndices' = PlaceIndices
    BY <1>1, CitiesStay DEF JourneyInv
<1>6. ToSet(<<start>>) = {start} /\ <<start>> \in Seq({start}) /\ IsInjective(<<start>>) /\ <<start>> # <<>>
    BY DEF ToSet, IsInjective
<1>7. <<start>> \in Seq(ToSet(cities))
    BY <1>4
<1>8. Ordering'
    <2>1. ToSet(to_fill') \cap remaining' = {}
        BY <1>1, <1>6
    <2> QED BY <1>1, <1>6, <1>7, <2>1 DEF Ordering
<1>9. Pending' \subseteq Pending
    BY <1>1, <1>2, <1>4, <1>6 DEF Pending
<1>10. ACalendar(calendar, PlaceIndices)' /\ Clear(calendar, Pending)'
    BY <1>1, <1>9, CalendarStays DEF JourneyInv
<1> QED BY <1>1, <1>3, <1>5, <1>8, <1>10 DEF JourneyInv, Planning

\* One more element, that was not there.
LEMMA OneMoreElement ==
    ASSUME NEW C, NEW s \in Seq(C), NEW x \in C, x \notin ToSet(s), IsInjective(s)
    PROVE  /\ Append(s, x) \in Seq(C) /\ IsInjective(Append(s, x)) /\ Append(s, x) # <<>>
           /\ ToSet(Append(s, x)) = ToSet(s) \cup {x}
<1>1. /\ Append(s, x) \in Seq(C) /\ Len(Append(s, x)) = Len(s) + 1 /\ Len(s) \in Nat
      /\ \A n \in 1..Len(s) : Append(s, x)[n] = s[n]
      /\ Append(s, x)[Len(s) + 1] = x
    BY AppendAt
<1> DEFINE t == Append(s, x)
<1> HIDE DEF t
<1>2. t \in Seq(C) /\ DOMAIN t = 1..(Len(s) + 1) /\ DOMAIN s = 1..Len(s)
      /\ (\A n \in 1..Len(s) : t[n] = s[n]) /\ t[Len(s) + 1] = x /\ Len(t) = Len(s) + 1
    BY <1>1 DEF t
<1>3. 1..(Len(s) + 1) = 1..Len(s) \cup {Len(s) + 1}
    BY <1>1
<1>4. ToSet(t) = ToSet(s) \cup {x}
    BY <1>2, <1>3 DEF ToSet
<1>5. \A n \in 1..Len(s) : t[n] \in ToSet(s)
    BY <1>2 DEF ToSet
<1>6. IsInjective(t)
    <2>1. ASSUME NEW j \in DOMAIN t, NEW k \in DOMAIN t, t[j] = t[k] PROVE j = k
        <3>1. CASE j \in 1..Len(s) /\ k \in 1..Len(s)
            BY <1>2, <2>1, <3>1 DEF IsInjective
        <3>2. CASE j = Len(s) + 1 /\ k = Len(s) + 1
            BY <3>2
        <3>3. CASE j \in 1..Len(s) /\ k = Len(s) + 1
            BY <1>2, <1>5, <2>1, <3>3
        <3>4. CASE j = Len(s) + 1 /\ k \in 1..Len(s)
            BY <1>2, <1>5, <2>1, <3>4
        <3> QED BY <1>2, <1>3, <3>1, <3>2, <3>3, <3>4
    <2> QED BY <2>1 DEF IsInjective
<1>7. t # <<>>
    BY <1>1, <1>2
<1> QED BY <1>2, <1>4, <1>6, <1>7 DEF t

\* The nearest city goes from those that remain into the order, once.
LEMMA NearestKeeps == ASSUME JourneyInv, NearestCity PROVE JourneyInv'
<1>1. PICK c \in remaining : to_fill' = Append(to_fill, c) /\ remaining' = remaining \ {c}
    BY DEF NearestCity
<1>2. /\ phase = "order" /\ phase' = phase
      /\ UNCHANGED <<full, journey, cities, regions, sequence, shares, base, today, calendar, lodgings>>
    BY DEF NearestCity
<1>3. RegionsFine(regions, ToSet(cities)) /\ Ordering
    BY <1>2 DEF JourneyInv, Planning
<1>4. c \in ToSet(cities) /\ c \notin ToSet(to_fill) /\ to_fill \in Seq(ToSet(cities)) /\ IsInjective(to_fill)
    <2>1. ToSet(Head(regions).members) \subseteq ToSet(cities)
        BY <1>3, FirstRegion
    <2> QED BY <1>1, <1>3, <2>1 DEF Ordering
<1>5. /\ to_fill' \in Seq(ToSet(cities)) /\ IsInjective(to_fill') /\ to_fill' # <<>>
      /\ ToSet(to_fill') = ToSet(to_fill) \cup {c}
    BY <1>1, <1>4, OneMoreElement
<1>6. CitiesFine(cities)' /\ PlaceIndices' = PlaceIndices
    BY <1>2, CitiesStay DEF JourneyInv
<1>7. Ordering'
    BY <1>1, <1>2, <1>3, <1>5 DEF Ordering
<1>8. Pending' \subseteq Pending
    BY <1>1, <1>2, <1>5 DEF Pending
<1>9. ACalendar(calendar, PlaceIndices)' /\ Clear(calendar, Pending)'
    BY <1>2, <1>8, CalendarStays DEF JourneyInv
<1> QED BY <1>2, <1>3, <1>6, <1>7, <1>9 DEF JourneyInv, Planning

\* The cities whose days are divided.
Divided == IF full THEN Head(regions).members ELSE to_fill
\* The days each of them gets.
Division == _distribute_days_among_cities(Divided, Head(regions).duration)

\* The division of a region's days.
LEMMA DivisionType ==
    ASSUME JourneyInv, phase = "order"
    PROVE  /\ CityList(Divided) /\ ToSet(to_fill) \subseteq ToSet(Divided)
           /\ Head(regions).duration \in Nat \ {0}
           /\ Division \in [NamesOf(Divided) -> Int]
           /\ (\A x \in NamesOf(Divided) : Division[x] >= 1) => SumOver(Division) = Head(regions).duration
           /\ \A c \in ToSet(Divided) : c.name \in NamesOf(Divided)
<1>1. RegionsFine(regions, ToSet(cities)) /\ Ordering /\ CitiesFine(cities)
    BY DEF JourneyInv, Planning
<1>2. ARegion(Head(regions), ToSet(cities))
    BY <1>1, FirstRegion
<1>3. Divided \in Seq(ToSet(cities)) /\ Divided # <<>> /\ ToSet(to_fill) \subseteq ToSet(Divided)
    BY <1>1, <1>2 DEF Divided, Ordering, ARegion
<1>4. CityList(Divided)
    BY <1>1, <1>3, FineList
<1>5. Head(regions).duration \in Nat \ {0}
    BY <1>2 DEF ARegion
<1>6. /\ Division \in [NamesOf(Divided) -> Int]
      /\ (\A x \in NamesOf(Divided) : Division[x] >= 1) => SumOver(Division) = Head(regions).duration
    <2> DEFINE n == Head(regions).duration
    <2>1. n \in Nat
        BY <1>5
    <2> HIDE DEF n
    <2>2. /\ _distribute_days_among_cities(Divided, n) \in [NamesOf(Divided) -> Int]
          /\ (\A x \in NamesOf(Divided) : _distribute_days_among_cities(Divided, n)[x] >= 1)
               => SumOver(_distribute_days_among_cities(Divided, n)) = n
        BY <1>4, <2>1, DaysDivided
    <2> QED BY <2>2 DEF Division, n
<1>7. \A c \in ToSet(Divided) : c.name \in NamesOf(Divided)
    BY DEF NamesOf, ToSet
<1> QED BY <1>3, <1>4, <1>5, <1>6, <1>7

\* Every city in the order has its days.
LEMMA DistributeKeeps == ASSUME JourneyInv, DistributeDays PROVE JourneyInv'
<1>1. /\ phase = "order" /\ remaining = {} /\ phase' = "fill" /\ shares' = Updated(shares, Division)
      /\ UNCHANGED <<full, journey, cities, regions, remaining, to_fill, base, today, calendar, lodgings>>
    BY DEF DistributeDays, Division, Divided
<1>2. RegionsFine(regions, ToSet(cities)) /\ Ordering
    BY <1>1 DEF JourneyInv, Planning
<1>3. CitiesFine(cities)' /\ PlaceIndices' = PlaceIndices
    BY <1>1, CitiesStay DEF JourneyInv
<1>4. /\ ToSet(to_fill) \subseteq ToSet(Divided)
      /\ Division \in [NamesOf(Divided) -> Int]
      /\ \A c \in ToSet(Divided) : c.name \in NamesOf(Divided)
    BY <1>1, DivisionType
<1>5. SharesKnown'
    <2>1. \A c \in ToSet(to_fill) : c.name \in DOMAIN Updated(shares, Division)
                                    /\ Updated(shares, Division)[c.name] \in Int
        BY <1>4 DEF Updated
    <2> QED BY <1>1, <2>1 DEF SharesKnown
<1>6. Ordering'
    BY <1>1, <1>2 DEF Ordering
<1>7. Pending' \subseteq Pending
    BY <1>1 DEF Pending
<1>8. ACalendar(calendar, PlaceIndices)' /\ Clear(calendar, Pending)'
    BY <1>1, <1>7, CalendarStays DEF JourneyInv
<1> QED BY <1>1, <1>2, <1>3, <1>5, <1>6, <1>8 DEF JourneyInv, Planning

\* The cities after the first of an order.
LEMMA AfterFirst ==
    ASSUME NEW C, NEW s \in Seq(C), s # <<>>, IsInjective(s)
    PROVE  /\ Tail(s) \in Seq(C) /\ IsInjective(Tail(s)) /\ Head(s) \in ToSet(s) /\ Head(s) \in C
           /\ ToSet(Tail(s)) = ToSet(s) \ {Head(s)}
           /\ Len(Tail(s)) = Len(s) - 1 /\ Len(s) \in Nat \ {0} /\ Head(s) = s[1]
           /\ \A j \in 1..Len(Tail(s)) : Tail(s)[j] = s[j + 1]
<1>1. Len(s) \in Nat \ {0} /\ DOMAIN s = 1..Len(s) /\ Head(s) = s[1] /\ \A j \in 1..Len(s) : s[j] \in C
    BY EmptySeq
<1> DEFINE t == Tail(s)
<1>2. /\ t \in Seq(C) /\ Len(t) = Len(s) - 1 /\ DOMAIN t = 1..(Len(s) - 1)
      /\ \A j \in 1..(Len(s) - 1) : t[j] = s[j + 1]
    BY <1>1
<1> HIDE DEF t
<1>3. IsInjective(t)
    <2>1. ASSUME NEW j \in DOMAIN t, NEW k \in DOMAIN t, t[j] = t[k] PROVE j = k
        <3>1. j \in 1..(Len(s) - 1) /\ k \in 1..(Len(s) - 1)
            BY <1>2
        <3>2. j + 1 \in DOMAIN s /\ k + 1 \in DOMAIN s
            BY <1>1, <3>1
        <3>3. s[j + 1] = s[k + 1]
            BY <1>2, <2>1, <3>1
        <3>4. j + 1 = k + 1
            BY <3>2, <3>3 DEF IsInjective
        <3> QED BY <3>1, <3>4
    <2> QED BY <2>1 DEF IsInjective
<1>4. ToSet(t) \subseteq ToSet(s) \ {s[1]}
    <2>1. ASSUME NEW j \in 1..(Len(s) - 1) PROVE t[j] \in ToSet(s) /\ t[j] # s[1]
        <3>1. j + 1 \in DOMAIN s /\ 1 \in DOMAIN s /\ j + 1 # 1
            BY <1>1
        <3> QED BY <1>2, <3>1 DEF IsInjective, ToSet
    <2> QED BY <1>2, <2>1 DEF ToSet
<1>5. ToSet(s) \ {s[1]} \subseteq ToSet(t)
    <2>1. ASSUME NEW j \in 1..Len(s), s[j] # s[1] PROVE s[j] \in ToSet(t)
        <3>1. j - 1 \in 1..(Len(s) - 1) /\ t[j - 1] = s[j]
            BY <1>1, <1>2, <2>1
        <3> QED BY <1>2, <3>1 DEF ToSet
    <2> QED BY <1>1, <2>1 DEF ToSet
<1>6. s[1] \in ToSet(s) /\ s[1] \in C
    BY <1>1 DEF ToSet
<1> QED BY <1>1, <1>2, <1>3, <1>4, <1>5, <1>6 DEF t

\* The city of which FillCity fills the days, and how many they are.
NextCity == Head(to_fill)
NextShare == shares[NextCity.name]

\* What a city's days make of the calendar.
LEMMA Filling ==
    ASSUME JourneyInv, FillCity
    PROVE  /\ phase = "fill" /\ remaining = {} /\ to_fill # <<>> /\ NextCity \in ToSet(to_fill)
           /\ NextCity \in ToSet(cities) /\ ACity(NextCity) /\ NextShare \in Int
           /\ RegionsFine(regions, ToSet(cities)) /\ Ordering
           /\ UNCHANGED <<full, journey, cities, regions, remaining, sequence, shares, base, lodgings>>
           /\ \/ /\ full /\ NextShare = 0 /\ phase' = "failed" /\ UNCHANGED <<calendar, today, to_fill>>
              \/ /\ ACalendar(calendar', PlaceIndices)
                 /\ CityFilled(calendar', calendar, NextCity.pois, today, NextShare)
                 /\ today' = today + NextShare /\ to_fill' = Tail(to_fill) /\ phase' = phase
<1>1. /\ phase = "fill" /\ to_fill # <<>>
      /\ UNCHANGED <<full, journey, cities, regions, remaining, sequence, shares, base, lodgings>>
    BY DEF FillCity
<1>2. RegionsFine(regions, ToSet(cities)) /\ Ordering /\ SharesKnown /\ CitiesFine(cities) /\ today \in Int
      /\ ACalendar(calendar, PlaceIndices) /\ Clear(calendar, Pending)
    BY <1>1 DEF JourneyInv, Planning
<1>3. remaining = {} /\ NextCity \in ToSet(to_fill) /\ NextCity \in ToSet(cities)
    BY <1>1, <1>2, AfterFirst DEF Ordering, NextCity
<1>4. ACity(NextCity) /\ NextShare \in Int
    BY <1>2, <1>3 DEF CitiesFine, SharesKnown, NextShare
<1>5. NextCity \in Pending
    BY <1>1, <1>3 DEF Pending
<1> DEFINE c == NextCity   n == NextShare
           new == Updated(calendar, [d \in today..(today + n - 1) |->
                                       _simple_daily_distribution(c.pois, n)[d - today + 1]])
<1>6. CASE full /\ n = 0
    BY <1>1, <1>2, <1>3, <1>4, <1>6 DEF FillCity, NextCity, NextShare
<1>7. CASE ~(full /\ n = 0)
    <2>1. calendar' = new /\ today' = today + n /\ to_fill' = Tail(to_fill) /\ phase' = phase
        BY <1>7 DEF FillCity, NextCity, NextShare
    <2>2. ACalendar(new, PlaceIndices) /\ CityFilled(new, calendar, c.pois, today, n)
        <3>1. \A d \in DOMAIN calendar : ToSet(calendar[d]) \cap ToSet(c.pois) = {}
            BY <1>2, <1>5 DEF Clear
        <3>2. c.pois \in Seq(PlaceIndices) /\ IsInjective(c.pois)
            BY <1>4 DEF ACity
        <3> DEFINE ps == c.pois   m == n
        <3>3. ps \in Seq(PlaceIndices) /\ IsInjective(ps) /\ m \in Int
              /\ \A d \in DOMAIN calendar : ToSet(calendar[d]) \cap ToSet(ps) = {}
            BY <1>4, <3>1, <3>2
        <3> HIDE DEF ps, m
        <3> DEFINE made == Updated(calendar, [d \in today..(today + m - 1) |->
                                       _simple_daily_distribution(ps, m)[d - today + 1]])
        <3>4. ACalendar(made, PlaceIndices) /\ CityFilled(made, calendar, ps, today, m)
            BY <1>2, <3>3, DaysFilled
        <3> QED BY <3>4 DEF ps, m
    <2> HIDE DEF new
    <2> QED BY <1>1, <1>2, <1>3, <1>4, <2>1, <2>2
<1> QED BY <1>6, <1>7

\* Another city's places are none of this one's.
LEMMA OtherCity ==
    ASSUME CitiesFine(cities), NEW c \in ToSet(cities), NEW e \in ToSet(cities), c # e
    PROVE  ToSet(c.pois) \cap ToSet(e.pois) = {}
BY CitiesDiffer

\* Every city still to come is one of the journey.
LEMMA PendingCities ==
    ASSUME JourneyInv
    PROVE  Pending \subseteq ToSet(cities)
<1>1. CASE phase = "start"
    <2>1. RegionsFine(regions, ToSet(cities))
        BY <1>1 DEF JourneyInv, Planning
    <2> QED BY <1>1, <2>1, FirstRegion DEF Pending
<1>2. CASE phase \in {"order", "fill"}
    <2>1. RegionsFine(regions, ToSet(cities)) /\ Ordering
        BY <1>2 DEF JourneyInv, Planning
    <2>2. Later(regions, 2) \subseteq ToSet(cities) /\ ToSet(Head(regions).members) \subseteq ToSet(cities)
        BY <2>1, FirstRegion
    <2> QED BY <1>2, <2>1, <2>2 DEF Pending, Ordering
<1> QED BY <1>1, <1>2 DEF Pending

\* When a city is filled, it is no longer to come, and no other is.
LEMMA FillPending ==
    ASSUME JourneyInv, FillCity, phase' = phase, to_fill' = Tail(to_fill)
    PROVE  /\ Pending' = Pending \ {NextCity}
           /\ to_fill' \in Seq(ToSet(cities)) /\ IsInjective(to_fill')
           /\ ToSet(to_fill') = ToSet(to_fill) \ {NextCity}
<1>1. /\ phase = "fill" /\ remaining = {} /\ NextCity \in ToSet(to_fill) /\ Ordering
      /\ to_fill # <<>> /\ RegionsFine(regions, ToSet(cities))
      /\ UNCHANGED <<regions, remaining>>
    BY Filling
<1>2. /\ to_fill' \in Seq(ToSet(cities)) /\ IsInjective(to_fill')
      /\ ToSet(to_fill') = ToSet(to_fill) \ {NextCity}
    BY <1>1, AfterFirst DEF Ordering, NextCity
<1>3. NextCity \notin Later(regions, 2)
    BY <1>1, FirstRegion DEF Ordering
<1> QED BY <1>1, <1>2, <1>3 DEF Pending

\* A city's days hold its own places, and none of another.
LEMMA FillKeeps == ASSUME JourneyInv, FillCity PROVE JourneyInv'
<1>1. /\ phase = "fill" /\ remaining = {} /\ NextCity \in ToSet(to_fill)
      /\ NextCity \in ToSet(cities) /\ NextShare \in Int
      /\ RegionsFine(regions, ToSet(cities)) /\ Ordering
      /\ UNCHANGED <<full, journey, cities, regions, remaining, sequence, shares, base, lodgings>>
      /\ \/ /\ phase' = "failed" /\ UNCHANGED <<calendar, today, to_fill>>
         \/ /\ ACalendar(calendar', PlaceIndices)
            /\ CityFilled(calendar', calendar, NextCity.pois, today, NextShare)
            /\ today' = today + NextShare /\ to_fill' = Tail(to_fill) /\ phase' = phase
    BY Filling
<1>2. CitiesFine(cities)' /\ PlaceIndices' = PlaceIndices
    BY <1>1, CitiesStay DEF JourneyInv
<1>3. journey' \in Journeys /\ base' \in Int /\ today' \in Int
    BY <1>1 DEF JourneyInv
<1>4. CASE phase' = "failed" /\ UNCHANGED <<calendar, today, to_fill>>
    <2>1. Pending' = {}
        BY <1>4 DEF Pending
    <2>2. ACalendar(calendar, PlaceIndices)' /\ Clear(calendar, Pending)'
        BY <1>1, <1>4, <2>1, CalendarStays DEF JourneyInv
    <2> QED BY <1>2, <1>3, <1>4, <2>2 DEF JourneyInv, Planning
<1>5. CASE /\ ACalendar(calendar', PlaceIndices)
           /\ CityFilled(calendar', calendar, NextCity.pois, today, NextShare)
           /\ today' = today + NextShare /\ to_fill' = Tail(to_fill) /\ phase' = phase
    <2>1. /\ Pending' = Pending \ {NextCity}
          /\ to_fill' \in Seq(ToSet(cities)) /\ IsInjective(to_fill')
          /\ ToSet(to_fill') = ToSet(to_fill) \ {NextCity}
        BY <1>5, FillPending
    <2>2. Ordering'
        BY <1>1, <1>5, <2>1 DEF Ordering
    <2>3. SharesKnown'
        BY <1>1, <2>1 DEF SharesKnown, JourneyInv
    <2>4. Clear(calendar', Pending')
        <3>1. ASSUME NEW c \in Pending, c # NextCity, NEW d \in DOMAIN calendar'
              PROVE  ToSet(calendar'[d]) \cap ToSet(c.pois) = {}
            <4>1. c \in ToSet(cities)
                BY PendingCities
            <4>2. ToSet(c.pois) \cap ToSet(NextCity.pois) = {}
                BY <1>1, <3>1, <4>1, OtherCity DEF JourneyInv
            <4> DEFINE block == today..(today + NextShare - 1)
            <4>3. CASE d \in block
                BY <1>5, <4>2, <4>3 DEF CityFilled
            <4>4. CASE d \notin block
                <5>1. d \in DOMAIN calendar /\ calendar'[d] = calendar[d]
                    BY <1>5, <3>1, <4>4 DEF CityFilled
                <5> QED BY <5>1 DEF Clear, JourneyInv
            <4> QED BY <4>3, <4>4
        <3> QED BY <2>1, <3>1 DEF Clear
    <2> QED BY <1>1, <1>2, <1>3, <1>5, <2>2, <2>3, <2>4 DEF JourneyInv, Planning
<1> QED BY <1>1, <1>4, <1>5

\* What comes after a region: the next one, or the end.
LEMMA Ending ==
    ASSUME EndRegion
    PROVE  /\ phase = "fill" /\ to_fill = <<>> /\ base' = base + Head(regions).duration
           /\ regions' = Tail(regions) /\ today' = 1
           /\ UNCHANGED <<full, journey, cities, remaining, sequence, shares, calendar, lodgings>>
           /\ \/ Len(regions) > 1 /\ phase' = "start" /\ to_fill' = <<>>
              \/ ~(Len(regions) > 1) /\ full /\ phase' = "done" /\ to_fill' = sequence
              \/ ~(Len(regions) > 1) /\ ~full /\ phase' = "stays" /\ to_fill' = sequence
BY DEF EndRegion

\* The next region's cities were to come already.
LEMMA EndKeeps == ASSUME JourneyInv, EndRegion PROVE JourneyInv'
<1>1. /\ phase = "fill" /\ base' = base + Head(regions).duration
      /\ regions' = Tail(regions) /\ today' = 1 /\ phase' \in {"start", "done", "stays"}
      /\ phase' = "start" => Len(regions) > 1
      /\ UNCHANGED <<full, journey, cities, remaining, sequence, shares, calendar, lodgings>>
    BY Ending
<1>2. RegionsFine(regions, ToSet(cities)) /\ Ordering
    BY <1>1 DEF JourneyInv, Planning
<1>3. CitiesFine(cities)' /\ PlaceIndices' = PlaceIndices
    BY <1>1, CitiesStay DEF JourneyInv
<1>4. base' \in Int
    <2>1. Head(regions).duration \in Int
        BY <1>2, FirstRegion DEF ARegion
    <2> QED BY <1>1, <2>1 DEF JourneyInv
<1>5. phase' = "start" => /\ RegionsFine(regions', ToSet(cities'))
                          /\ Later(regions', 1) = Later(regions, 2)
    BY <1>1, <1>2, OtherRegions
<1>6. Pending' \subseteq Pending
    BY <1>1, <1>5 DEF Pending
<1>7. ACalendar(calendar, PlaceIndices)' /\ Clear(calendar, Pending)'
    BY <1>1, <1>6, CalendarStays DEF JourneyInv
<1> QED BY <1>1, <1>3, <1>4, <1>5, <1>7 DEF JourneyInv, Planning

\* A step of the nights leaves the plan of the days alone.
LEMMA NightStep ==
    ASSUME plan_city_accommodation
    PROVE  /\ phase = "stays" /\ phase' = phase /\ to_fill # <<>> /\ to_fill' = Tail(to_fill)
           /\ UNCHANGED <<full, journey, cities, regions, remaining, sequence, shares, base, calendar>>
           /\ \/ DaysPerCity(Head(to_fill).name) <= 1 /\ UNCHANGED <<today, lodgings>>
              \/ /\ ~(DaysPerCity(Head(to_fill).name) <= 1)
                 /\ lodgings' = Append(lodgings, [city |-> Head(to_fill).name, check_in |-> today,
                                                  nights |-> DaysPerCity(Head(to_fill).name) - 1])
                 /\ today' = today + DaysPerCity(Head(to_fill).name)
BY DEF plan_city_accommodation

\* A city has at least a day.
LEMMA CityDays == \A name : DaysPerCity(name) \in Nat \ {0} \/ ~IsFiniteSet(DOMAIN calendar)
<1> SUFFICES ASSUME NEW name, IsFiniteSet(DOMAIN calendar) PROVE DaysPerCity(name) \in Nat \ {0}
    OBVIOUS
<1> DEFINE D == {d \in DOMAIN calendar : \E i \in ToSet(calendar[d]) : Poi(i).city = name}
<1>1. Cardinality(D) \in Nat
    BY FS_Subset, FS_CardinalityType
<1> HIDE DEF D
<1>2. Max({1, Cardinality(D)}) \in Nat \ {0}
    BY <1>1, AtLeastOne
<1> QED BY <1>2 DEF DaysPerCity, D

\* The nights leave the calendar alone.
LEMMA NightKeeps == ASSUME JourneyInv, plan_city_accommodation PROVE JourneyInv'
<1>1. /\ phase = "stays" /\ phase' = phase
      /\ UNCHANGED <<full, journey, cities, regions, remaining, sequence, shares, base, calendar>>
      /\ today' \in {today, today + DaysPerCity(Head(to_fill).name)}
    BY NightStep
<1>2. CitiesFine(cities)' /\ PlaceIndices' = PlaceIndices
    BY <1>1, CitiesStay DEF JourneyInv
<1>3. today' \in Int
    <2>1. IsFiniteSet(DOMAIN calendar) /\ today \in Int
        BY DEF JourneyInv, ACalendar
    <2>2. DaysPerCity(Head(to_fill).name) \in Nat \ {0}
        BY <2>1, CityDays
    <2> QED BY <1>1, <2>1, <2>2
<1>4. Pending' \subseteq Pending
    BY <1>1 DEF Pending
<1>5. ACalendar(calendar, PlaceIndices)' /\ Clear(calendar, Pending)'
    BY <1>1, <1>4, CalendarStays DEF JourneyInv
<1> QED BY <1>1, <1>2, <1>3, <1>5 DEF JourneyInv, Planning

\* So does the answer.
LEMMA AnswerKeeps == ASSUME JourneyInv, AnswerJourney PROVE JourneyInv'
<1>1. /\ phase = "stays" /\ phase' = "done"
      /\ UNCHANGED <<full, journey, cities, regions, remaining, sequence, shares, to_fill, base,
                     today, calendar, lodgings>>
    BY DEF AnswerJourney
<1>2. CitiesFine(cities)' /\ PlaceIndices' = PlaceIndices
    BY <1>1, CitiesStay DEF JourneyInv
<1>3. Pending' \subseteq Pending
    BY <1>1 DEF Pending
<1>4. ACalendar(calendar, PlaceIndices)' /\ Clear(calendar, Pending)'
    BY <1>1, <1>3, CalendarStays DEF JourneyInv
<1> QED BY <1>1, <1>2, <1>4 DEF JourneyInv, Planning

\* So does a step of nobody.
LEMMA JourneyRests == ASSUME JourneyInv, UNCHANGED journeyVars PROVE JourneyInv'
<1>1. UNCHANGED <<phase, full, journey, cities, regions, remaining, sequence, shares, to_fill, base,
                  today, calendar, lodgings>>
    BY DEF journeyVars
<1>2. CitiesFine(cities)' /\ PlaceIndices' = PlaceIndices
    BY <1>1, CitiesStay DEF JourneyInv
<1>3. Pending' = Pending
    BY <1>1 DEF Pending
<1>4. ACalendar(calendar, PlaceIndices)' /\ Clear(calendar, Pending)'
    BY <1>1, <1>3, CalendarStays DEF JourneyInv
<1>5. NothingYet' = NothingYet
    BY <1>1 DEF NothingYet
<1>6. (Ordering' <=> Ordering) /\ (SharesKnown' <=> SharesKnown)
    BY <1>1 DEF Ordering, SharesKnown
<1> QED BY <1>1, <1>2, <1>4, <1>5, <1>6 DEF JourneyInv, Planning

\* No step of the optimizer plans a place twice.
LEMMA JourneyKeeps == ASSUME JourneyInv, [JourneyNext]_journeyVars PROVE JourneyInv'
<1>1. CASE JourneyNext
    BY <1>1, ClustersKeep, SingleKeeps, StrategyKeeps, StartKeeps, NearestKeeps, DistributeKeeps, FillKeeps,
       EndKeeps, NightKeeps, AnswerKeeps DEF JourneyNext
<1> QED BY <1>1, JourneyRests

\* A place that is planned once is visited once, on the day it is planned for.
LEMMA VisitsAtMostOnce ==
    ASSUME JourneyInv, NEW i
    PROVE  /\ Visits(i) \in {0, 1}
           /\ (\E d \in DOMAIN calendar : i \in ToSet(calendar[d])) => Visits(i) = 1
<1> DEFINE V == {e \in Positions : calendar[e[1]][e[2]] = i}
<1>1. OncePerDay(calendar, DOMAIN calendar)
    BY DEF JourneyInv, ACalendar
<1>2. ASSUME NEW e \in Positions
      PROVE  /\ e = <<e[1], e[2]>> /\ e[1] \in DOMAIN calendar /\ e[2] \in DOMAIN calendar[e[1]]
    BY DEF Positions
<1>3. ASSUME NEW e \in V, NEW f \in V PROVE e = f
    <2>1. e[1] = f[1] /\ e[2] = f[2]
        BY <1>1, <1>2 DEF OncePerDay
    <2> QED BY <1>2, <2>1
<1>4. Visits(i) = Cardinality(V)
    BY DEF Visits
<1>5. (\E d \in DOMAIN calendar : i \in ToSet(calendar[d])) => V # {}
    <2>1. ASSUME NEW d \in DOMAIN calendar, NEW k \in DOMAIN calendar[d], i = calendar[d][k]
          PROVE  <<d, k>> \in V
        BY <2>1 DEF Positions
    <2> QED BY <2>1 DEF ToSet
<1> HIDE DEF V
<1>6. CASE V = {}
    BY <1>4, <1>5, <1>6, FS_EmptySet
<1>7. CASE V # {}
    <2>1. PICK e : V = {e}
        BY <1>3, <1>7
    <2>2. Cardinality(V) = 1
        BY <2>1, FS_Singleton
    <2> QED BY <1>4, <2>2
<1> QED BY <1>6, <1>7

-----------------------------------------------------------------------------
(* No place left out, and no day *)

\* The names of the cities that are planned later have no days yet, when no two
\* cities share a name: the dictionary of days is never written twice at a key.
Ahead == Later(regions, IF phase = "fill" THEN 2 ELSE 1)
FreshNames == ~Namesakes /\ Planning => \A c \in Ahead : c.name \notin DOMAIN shares

\* Nothing that leaves out a place.
Proper == ~Discarded /\ ~Namesakes /\ ~Squeezed

\* Every place is planned, or in a city still to come.
Covered == \A i \in PlaceIndices : \/ \E d \in DOMAIN calendar : i \in ToSet(calendar[d])
                             \/ \E c \in Pending : i \in ToSet(c.pois)

\* The days of the cities of the region that are not filled yet.
Left == [x \in {c.name : c \in ToSet(to_fill)} |-> shares[x]]

\* The calendar has the days before the one at hand, and what a region has left
\* of its days is what its cities have left.
InRow ==
    /\ phase \in {"start", "order"} => base \in Nat \ {0} /\ DOMAIN calendar = 1..(base - 1)
    /\ phase = "order" => /\ today = base
                          /\ ToSet(to_fill) \cup remaining = ToSet(Head(regions).members)
    /\ phase = "fill" => /\ today \in Nat \ {0} /\ DOMAIN calendar = 1..(today - 1)
                         /\ today + SumOver(Left) = base + Head(regions).duration
    /\ Planning \/ phase \in {"stays", "done"} => Covered
    /\ Planning /\ ~ByCountry => Len(regions) = 1 /\ base = 1 /\ Head(regions).duration = journey.duration
    /\ phase \in {"stays", "done"} => /\ \E n \in Nat : DOMAIN calendar = 1..n
                                      /\ ~ByCountry => DOMAIN calendar = 1..journey.duration

\* The second inductive invariant.
DaysInv == FreshNames /\ (Proper => InRow)

\* What depends on the clusters only stays while they do.
LEMMA CausesKept ==
    ASSUME cities' = cities, journey' = journey, full' = full
    PROVE  /\ Discarded' = Discarded /\ Namesakes' = Namesakes /\ ByCountry' = ByCountry
           /\ PlaceIndices' = PlaceIndices
<1>1. (Discarded' <=> Discarded) /\ (Namesakes' <=> Namesakes)
    BY DEF Discarded, Namesakes
<1>2. Countries' = Countries
    BY DEF Countries
<1>3. ByCountry' <=> ByCountry
    BY <1>2 DEF ByCountry
<1>4. PlaceIndices' = PlaceIndices
    BY DEF PlaceIndices
<1> QED BY <1>1, <1>3, <1>4 DEF Discarded, Namesakes, ByCountry

\* With the days of the cities, all the causes stay.
LEMMA CausesStay ==
    ASSUME cities' = cities, journey' = journey, full' = full, shares' = shares
    PROVE  /\ (Proper' <=> Proper) /\ Namesakes' = Namesakes
           /\ ByCountry' = ByCountry /\ PlaceIndices' = PlaceIndices
<1>1. Squeezed' <=> Squeezed
    BY DEF Squeezed
<1> QED BY <1>1, CausesKept DEF Proper

\* Places stay covered while the calendar and the cities still to come do.
LEMMA CoveredStays ==
    ASSUME journey' = journey, calendar' = calendar, Pending \subseteq Pending', Covered
    PROVE  Covered'
<1>1. PlaceIndices' = PlaceIndices
    BY DEF PlaceIndices
<1>2. \A i \in PlaceIndices : \/ \E d \in DOMAIN calendar' : i \in ToSet(calendar'[d])
                        \/ \E c \in Pending' : i \in ToSet(c.pois)
    BY DEF Covered
<1> QED BY <1>1, <1>2 DEF Covered

\* Without namesakes a name is one city's.
LEMMA NamesDiffer ==
    ASSUME CitiesFine(cities), ~Namesakes, NEW c \in ToSet(cities), NEW e \in ToSet(cities), c.name = e.name
    PROVE  c = e
<1>1. PICK j \in DOMAIN cities : c = cities[j]
    BY DEF ToSet
<1>2. PICK k \in DOMAIN cities : e = cities[k]
    BY DEF ToSet
<1> QED BY <1>1, <1>2 DEF Namesakes

\* At first nothing is asked of the days.
LEMMA DaysInitial == ASSUME JourneyInit PROVE DaysInv
<1>1. phase = "cluster"
    BY DEF JourneyInit, NothingPlanned
<1> QED BY <1>1 DEF DaysInv, FreshNames, InRow, Planning

\* Nor while the places are clustered.
LEMMA DaysCluster == ASSUME JourneyInv, DaysInv, cluster_pois_advanced PROVE DaysInv'
<1>1. phase' = "strategy"
    BY DEF cluster_pois_advanced
<1> QED BY <1>1 DEF DaysInv, FreshNames, InRow, Planning

\* A single city has all the places, in all the days.
LEMMA DaysSingle == ASSUME JourneyInv, DaysInv, _optimize_single_city PROVE DaysInv'
<1>1. /\ phase' \in {"stays", "done"} /\ journey' = journey
      /\ calendar' = _simple_daily_distribution(PoiIndices, journey.duration)
    BY SingleCity
<1>2. /\ PoiIndices \in Seq(PlaceIndices) /\ IsInjective(PoiIndices) /\ ToSet(PoiIndices) = PlaceIndices
      /\ journey.duration \in Nat \ {0}
    BY PlacesListed DEF JourneyInv
<1>3. /\ DOMAIN calendar' = 1..journey.duration
      /\ \A x \in PlaceIndices : \E d \in 1..journey.duration : x \in ToSet(calendar'[d])
    BY <1>1, <1>2, SingleDays
<1>4. PlaceIndices' = PlaceIndices
    BY <1>1 DEF PlaceIndices
<1>5. Covered'
    BY <1>3, <1>4 DEF Covered
<1>6. InRow'
    BY <1>1, <1>2, <1>3, <1>5 DEF InRow, Planning
<1> QED BY <1>1, <1>6 DEF DaysInv, FreshNames, Planning

\* Every place that is not discarded is in a city of some region.
LEMMA DaysStrategy == ASSUME JourneyInv, DaysInv, _determine_optimization_strategy PROVE DaysInv'
<1>1. /\ phase = "strategy" /\ phase' = "start"
      /\ UNCHANGED <<full, journey, cities, remaining, sequence, shares, to_fill, base, today, calendar,
                     lodgings>>
    BY DEF _determine_optimization_strategy
<1>2. NothingYet
    BY <1>1 DEF JourneyInv
<1>3. /\ Later(regions', 1) = ToSet(cities)
      /\ ~ByCountry => Len(regions') = 1 /\ Head(regions').duration = journey.duration
    BY StrategyRegions DEF JourneyInv
<1>4. FreshNames'
    BY <1>1, <1>2 DEF FreshNames, NothingYet
<1>5. ASSUME Proper' PROVE InRow'
    <2>1. ByCountry' = ByCountry /\ PlaceIndices' = PlaceIndices /\ ~Discarded
        BY <1>1, <1>5, CausesKept DEF Proper
    <2>2. Pending' = ToSet(cities)
        BY <1>1, <1>3 DEF Pending
    <2>3. Covered'
        <3>1. ASSUME NEW i \in PlaceIndices PROVE \E c \in ToSet(cities) : i \in ToSet(c.pois)
            BY <2>1, <3>1 DEF Discarded, PlaceIndices, ToSet
        <3> QED BY <2>1, <2>2, <3>1 DEF Covered
    <2>4. base' = 1 /\ DOMAIN calendar' = 1..(base' - 1)
        BY <1>1, <1>2 DEF NothingYet
    <2> QED BY <1>1, <1>3, <2>1, <2>3, <2>4 DEF InRow, Planning
<1> QED BY <1>4, <1>5 DEF DaysInv

\* Without namesakes no city of the region is left out.
LEMMA DaysStart == ASSUME JourneyInv, DaysInv, StartCity PROVE DaysInv'
<1>1. PICK start \in ToSet(Head(regions).members) :
              /\ to_fill' = <<start>>
              /\ remaining' = {c \in ToSet(Head(regions).members) : c.name # start.name}
              /\ phase' = "order" /\ today' = base
              /\ UNCHANGED <<full, journey, cities, regions, sequence, shares, base, calendar, lodgings>>
    BY Started
<1>2. phase = "start"
    BY DEF StartCity
<1>3. RegionsFine(regions, ToSet(cities)) /\ CitiesFine(cities)
    BY <1>2 DEF JourneyInv, Planning
<1>4. /\ ToSet(Head(regions).members) \subseteq ToSet(cities)
      /\ Later(regions, 1) = ToSet(Head(regions).members) \cup Later(regions, 2)
    BY <1>3, FirstRegion
<1>5. (Proper' <=> Proper) /\ Namesakes' = Namesakes /\ ByCountry' = ByCountry /\ PlaceIndices' = PlaceIndices
    BY <1>1, CausesStay
<1>6. FreshNames'
    <2>1. Ahead' = Ahead
        BY <1>1, <1>2 DEF Ahead
    <2> QED BY <1>1, <1>2, <1>5, <2>1 DEF DaysInv, FreshNames, Planning
<1>7. ASSUME Proper PROVE InRow'
    <2>1. InRow /\ ~Namesakes
        BY <1>7 DEF DaysInv, Proper
    <2>2. ToSet(<<start>>) = {start}
        BY DEF ToSet
    <2>3. ToSet(to_fill') \cup remaining' = ToSet(Head(regions).members)
        <3>1. \A c \in ToSet(Head(regions).members) : c.name = start.name => c = start
            BY <1>1, <1>3, <1>4, <2>1, NamesDiffer
        <3> QED BY <1>1, <2>2, <3>1
    <2>4. Pending' = Pending
        BY <1>1, <1>2, <1>4, <2>3 DEF Pending
    <2>5. Covered'
        BY <1>1, <1>2, <2>1, <2>4, CoveredStays DEF InRow, Planning
    <2> QED BY <1>1, <1>2, <1>5, <2>1, <2>3, <2>5 DEF InRow, Planning
<1> QED BY <1>5, <1>6, <1>7 DEF DaysInv

\* The order gains what remains loses.
LEMMA DaysNearest == ASSUME JourneyInv, DaysInv, NearestCity PROVE DaysInv'
<1>1. PICK c \in remaining : to_fill' = Append(to_fill, c) /\ remaining' = remaining \ {c}
    BY DEF NearestCity
<1>2. /\ phase = "order" /\ phase' = phase
      /\ UNCHANGED <<full, journey, cities, regions, sequence, shares, base, today, calendar, lodgings>>
    BY DEF NearestCity
<1>3. RegionsFine(regions, ToSet(cities)) /\ Ordering
    BY <1>2 DEF JourneyInv, Planning
<1>4. c \in ToSet(cities) /\ c \notin ToSet(to_fill) /\ to_fill \in Seq(ToSet(cities)) /\ IsInjective(to_fill)
    <2>1. ToSet(Head(regions).members) \subseteq ToSet(cities)
        BY <1>3, FirstRegion
    <2> QED BY <1>1, <1>3, <2>1 DEF Ordering
<1>5. ToSet(to_fill') = ToSet(to_fill) \cup {c}
    BY <1>1, <1>4, OneMoreElement
<1>6. (Proper' <=> Proper) /\ Namesakes' = Namesakes /\ ByCountry' = ByCountry /\ PlaceIndices' = PlaceIndices
    BY <1>2, CausesStay
<1>7. FreshNames'
    <2>1. Ahead' = Ahead
        BY <1>2 DEF Ahead
    <2> QED BY <1>2, <1>6, <2>1 DEF DaysInv, FreshNames, Planning
<1>8. ASSUME Proper PROVE InRow'
    <2>1. InRow
        BY <1>8 DEF DaysInv
    <2>2. ToSet(to_fill') \cup remaining' = ToSet(to_fill) \cup remaining
        BY <1>1, <1>5
    <2>3. Pending' = Pending
        BY <1>2, <2>2 DEF Pending
    <2>4. Covered'
        BY <1>2, <2>1, <2>3, CoveredStays DEF InRow, Planning
    <2> QED BY <1>2, <1>6, <2>1, <2>2, <2>4 DEF InRow, Planning
<1> QED BY <1>6, <1>7, <1>8 DEF DaysInv

\* The names of a region's cities are new to the dictionary of the days.
LEMMA DivisionFresh ==
    ASSUME JourneyInv, DaysInv, phase = "order", ~Namesakes
    PROVE  /\ \A x \in NamesOf(Divided) : x \notin DOMAIN shares
           /\ \A c \in Later(regions, 2) : c.name \notin DOMAIN shares /\ c.name \notin NamesOf(Divided)
           /\ ToSet(Divided) \subseteq ToSet(Head(regions).members)
<1>1. RegionsFine(regions, ToSet(cities)) /\ Ordering /\ CitiesFine(cities) /\ FreshNames
    BY DEF JourneyInv, Planning, DaysInv
<1>2. /\ Later(regions, 1) = ToSet(Head(regions).members) \cup Later(regions, 2)
      /\ ToSet(Head(regions).members) \cap Later(regions, 2) = {}
      /\ Later(regions, 1) \subseteq ToSet(cities)
    BY <1>1, FirstRegion
<1>3. ToSet(Divided) \subseteq ToSet(Head(regions).members)
    BY <1>1 DEF Divided, Ordering
<1>4. \A x \in NamesOf(Divided) : \E c \in ToSet(Head(regions).members) : x = c.name
    BY <1>3 DEF NamesOf, ToSet
<1>5. \A c \in Later(regions, 1) : c.name \notin DOMAIN shares
    BY <1>1 DEF FreshNames, Ahead, Planning
<1>6. ASSUME NEW c \in Later(regions, 2), c.name \in NamesOf(Divided) PROVE FALSE
    <2>1. PICK e \in ToSet(Head(regions).members) : c.name = e.name
        BY <1>4, <1>6
    <2>2. c = e
        BY <1>1, <1>2, <2>1, NamesDiffer
    <2> QED BY <1>2, <2>1, <2>2
<1> QED BY <1>2, <1>3, <1>4, <1>5, <1>6

\* The region's days are all given out, under names that are new.
LEMMA DaysDistribute == ASSUME JourneyInv, DaysInv, DistributeDays PROVE DaysInv'
<1>1. /\ phase = "order" /\ remaining = {} /\ phase' = "fill" /\ shares' = Updated(shares, Division)
      /\ UNCHANGED <<full, journey, cities, regions, remaining, to_fill, base, today, calendar, lodgings>>
    BY DEF DistributeDays, Division, Divided
<1>2. /\ ToSet(to_fill) \subseteq ToSet(Divided) /\ Head(regions).duration \in Nat \ {0}
      /\ Division \in [NamesOf(Divided) -> Int]
      /\ (\A x \in NamesOf(Divided) : Division[x] >= 1) => SumOver(Division) = Head(regions).duration
      /\ \A c \in ToSet(Divided) : c.name \in NamesOf(Divided)
    BY <1>1, DivisionType
<1>3. /\ Discarded' = Discarded /\ Namesakes' = Namesakes
      /\ ByCountry' = ByCountry /\ PlaceIndices' = PlaceIndices
    BY <1>1, CausesKept
<1>4. /\ DOMAIN shares' = DOMAIN shares \cup NamesOf(Divided)
      /\ \A x \in NamesOf(Divided) : shares'[x] = Division[x]
      /\ \A x \in DOMAIN shares \ NamesOf(Divided) : shares'[x] = shares[x]
    BY <1>1, <1>2 DEF Updated
<1>5. FreshNames'
    <2>1. ASSUME ~Namesakes, NEW c \in Later(regions, 2) PROVE c.name \notin DOMAIN shares'
        BY <1>1, <1>4, <2>1, DivisionFresh
    <2>2. Ahead' = Later(regions, 2)
        BY <1>1 DEF Ahead
    <2> QED BY <1>1, <1>3, <2>1, <2>2 DEF FreshNames
<1>6. ASSUME Proper' PROVE InRow'
    <2>1. ~Namesakes /\ ~Discarded /\ \A x \in DOMAIN shares' : ~(shares'[x] < 1)
        BY <1>3, <1>6 DEF Proper, Squeezed
    <2>2. \A x \in NamesOf(Divided) : x \notin DOMAIN shares
        BY <1>1, <2>1, DivisionFresh
    <2>3. Proper
        <3>1. \A x \in DOMAIN shares : shares'[x] = shares[x] /\ x \in DOMAIN shares'
            BY <1>4, <2>2
        <3> QED BY <2>1, <3>1 DEF Proper, Squeezed
    <2>4. InRow
        BY <2>3 DEF DaysInv
    <2>5. SumOver(Division) = Head(regions).duration
        <3>1. ASSUME NEW x \in NamesOf(Divided) PROVE Division[x] >= 1
            <4>1. Division[x] \in Int /\ ~(Division[x] < 1)
                BY <1>2, <1>4, <2>1
            <4> QED BY <4>1
        <3> QED BY <1>2, <3>1
    <2>6. Left' = Division
        <3>1. ToSet(to_fill) = ToSet(Divided)
            <4>1. ToSet(to_fill) = ToSet(Head(regions).members)
                BY <1>1, <2>4 DEF InRow
            <4> QED BY <4>1 DEF Divided
        <3>2. {c.name : c \in ToSet(to_fill)} = NamesOf(Divided)
            BY <3>1 DEF NamesOf, ToSet
        <3>3. Left' = [x \in NamesOf(Divided) |-> shares'[x]]
            BY <1>1, <3>2 DEF Left
        <3> QED BY <1>2, <1>4, <3>3
    <2>7. Pending' = Pending
        BY <1>1 DEF Pending
    <2>8. Covered'
        BY <1>1, <2>4, <2>7, CoveredStays DEF InRow, Planning
    <2>9. SumOver(Left)' = Head(regions).duration
        BY <2>5, <2>6
    <2> QED BY <1>1, <1>3, <2>4, <2>8, <2>9 DEF InRow, Planning
<1> QED BY <1>5, <1>6 DEF DaysInv

\* The days that are left without a city's.
LEMMA LeftLess ==
    ASSUME JourneyInv, FillCity, ~Namesakes, \A c \in ToSet(to_fill) : shares[c.name] \in Nat,
           phase' = phase, to_fill' = Tail(to_fill)
    PROVE  SumOver(Left) = SumOver(Left') + NextShare /\ SumOver(Left') \in Nat
<1> DEFINE S == {c.name : c \in ToSet(to_fill)}
           x == NextCity.name
<1>1. /\ NextCity \in ToSet(to_fill) /\ Ordering /\ CitiesFine(cities) /\ shares' = shares
    BY Filling DEF JourneyInv
<1>2. to_fill \in Seq(ToSet(cities)) /\ ToSet(to_fill) \subseteq ToSet(cities)
    <2>1. to_fill \in Seq(ToSet(cities))
        BY <1>1 DEF Ordering
    <2> QED BY <2>1 DEF ToSet
<1>3. IsFiniteSet(S)
    <2>1. DOMAIN to_fill = 1..Len(to_fill) /\ Len(to_fill) \in Nat
        BY <1>2
    <2>2. [k \in 1..Len(to_fill) |-> to_fill[k].name] \in Surjection(1..Len(to_fill), S)
        BY <2>1 DEF Surjection, ToSet
    <2>3. IsFiniteSet(1..Len(to_fill))
        BY <2>1, FS_Interval
    <2> QED BY <2>2, <2>3, FS_Surjection
<1>4. Left \in [S -> Nat] /\ x \in S /\ Left[x] = NextShare
    BY <1>1 DEF Left, NextShare
<1>5. {c.name : c \in ToSet(to_fill')} = S \ {x}
    <2>1. ToSet(to_fill') = ToSet(to_fill) \ {NextCity}
        BY FillPending
    <2>2. \A c \in ToSet(to_fill) : c.name = x => c = NextCity
        BY <1>1, <1>2, NamesDiffer
    <2> QED BY <2>1, <2>2
<1>6. Left' = [y \in S \ {x} |-> Left[y]]
    <2>1. Left' = [y \in S \ {x} |-> shares[y]]
        BY <1>1, <1>5 DEF Left
    <2>2. \A y \in S \ {x} : Left[y] = shares[y]
        BY DEF Left
    <2> QED BY <2>1, <2>2
<1>7. IsFiniteSet(S \ {x}) /\ Left' \in [S \ {x} -> Nat]
    BY <1>3, <1>4, <1>6, FS_RemoveElement
<1> HIDE DEF S, x
<1>8. SumOver(Left) = SumOver([y \in S \ {x} |-> Left[y]]) + Left[x]
    BY <1>3, <1>4, SumSplit
<1>9. SumOver(Left') \in Nat
    BY <1>7, SumType
<1> QED BY <1>4, <1>6, <1>8, <1>9

\* The calendar grows by the city's days, which are no longer to give.
LEMMA DaysFill == ASSUME JourneyInv, DaysInv, FillCity PROVE DaysInv'
<1>1. /\ phase = "fill" /\ remaining = {} /\ NextCity \in ToSet(to_fill)
      /\ NextCity \in ToSet(cities) /\ NextShare \in Int
      /\ UNCHANGED <<full, journey, cities, regions, remaining, sequence, shares, base, lodgings>>
      /\ \/ /\ NextShare = 0 /\ phase' = "failed" /\ UNCHANGED <<calendar, today, to_fill>>
         \/ /\ ACalendar(calendar', PlaceIndices)
            /\ CityFilled(calendar', calendar, NextCity.pois, today, NextShare)
            /\ today' = today + NextShare /\ to_fill' = Tail(to_fill) /\ phase' = phase
    BY Filling
<1>2. (Proper' <=> Proper) /\ Namesakes' = Namesakes /\ ByCountry' = ByCountry /\ PlaceIndices' = PlaceIndices
    BY <1>1, CausesStay
<1>3. CASE phase' = "failed"
    BY <1>3 DEF DaysInv, FreshNames, InRow, Planning
<1>4. CASE /\ CityFilled(calendar', calendar, NextCity.pois, today, NextShare)
           /\ today' = today + NextShare /\ to_fill' = Tail(to_fill) /\ phase' = phase
    <2>1. FreshNames'
        <3>1. Ahead' = Ahead
            BY <1>1, <1>4 DEF Ahead
        <3> QED BY <1>1, <1>2, <1>4, <3>1 DEF DaysInv, FreshNames, Planning
    <2>2. ASSUME Proper PROVE InRow'
        <3>1. InRow /\ ~Namesakes /\ SharesKnown
            BY <1>1, <2>2 DEF DaysInv, Proper, JourneyInv
        <3>2. \A c \in ToSet(to_fill) : shares[c.name] \in Nat /\ shares[c.name] >= 1
            <4>1. ASSUME NEW c \in ToSet(to_fill) PROVE shares[c.name] \in Int /\ ~(shares[c.name] < 1)
                BY <2>2, <3>1 DEF SharesKnown, Proper, Squeezed
            <4> QED BY <4>1
        <3>3. NextShare \in Nat /\ NextShare >= 1
            BY <1>1, <3>2 DEF NextShare
        <3>4. SumOver(Left) = SumOver(Left') + NextShare /\ SumOver(Left') \in Nat
            BY <1>4, <3>1, <3>2, LeftLess
        <3>5. /\ today \in Nat \ {0} /\ DOMAIN calendar = 1..(today - 1)
              /\ today + SumOver(Left) = base + Head(regions).duration
            BY <1>1, <3>1 DEF InRow
        <3>6. today' \in Nat \ {0} /\ DOMAIN calendar' = 1..(today' - 1)
            <4>1. DOMAIN calendar' = (1..(today - 1)) \cup (today..(today + NextShare - 1))
                BY <1>4, <3>5 DEF CityFilled
            <4>2. (1..(today - 1)) \cup (today..(today + NextShare - 1)) = 1..(today + NextShare - 1)
                BY <3>3, <3>5
            <4> QED BY <1>4, <3>3, <3>5, <4>1, <4>2
        <3>7. today' + SumOver(Left') = base' + Head(regions').duration
            <4>1. today' = today + NextShare /\ base' = base /\ regions' = regions
                BY <1>1, <1>4
            <4> DEFINE total == base + Head(regions).duration
            <4>2. today + SumOver(Left) = total
                BY <3>5
            <4> HIDE DEF total
            <4>3. (today + NextShare) + SumOver(Left') = total
                BY <3>3, <3>4, <3>5, <4>2
            <4> QED BY <4>1, <4>3 DEF total
        <3>8. Covered'
            <4>1. Pending' = Pending \ {NextCity}
                BY <1>4, FillPending
            <4>2. ASSUME NEW i \in PlaceIndices
                  PROVE  \/ \E d \in DOMAIN calendar' : i \in ToSet(calendar'[d])
                         \/ \E c \in Pending' : i \in ToSet(c.pois)
                <5> DEFINE block == today..(today + NextShare - 1)
                <5>1. CASE i \in ToSet(NextCity.pois)
                    BY <1>4, <3>3, <5>1 DEF CityFilled
                <5>2. CASE \E c \in Pending : c # NextCity /\ i \in ToSet(c.pois)
                    BY <4>1, <5>2
                <5>3. ASSUME NEW d \in DOMAIN calendar, i \in ToSet(calendar[d])
                      PROVE  d \in DOMAIN calendar' /\ i \in ToSet(calendar'[d])
                    <6>1. d \notin block
                        BY <3>5, <5>3
                    <6> QED BY <1>4, <5>3, <6>1 DEF CityFilled
                <5>4. Covered
                    BY <1>1, <3>1 DEF InRow, Planning
                <5> QED BY <5>1, <5>2, <5>3, <5>4 DEF Covered
            <4> QED BY <1>2, <4>2 DEF Covered
        <3> QED BY <1>1, <1>2, <1>4, <3>1, <3>6, <3>7, <3>8 DEF InRow, Planning
    <2> QED BY <1>2, <2>1, <2>2 DEF DaysInv
<1> QED BY <1>1, <1>3, <1>4

\* The region took its days, and the next begins where it ends.
LEMMA DaysEnd == ASSUME JourneyInv, DaysInv, EndRegion PROVE DaysInv'
<1>1. /\ phase = "fill" /\ to_fill = <<>> /\ base' = base + Head(regions).duration
      /\ regions' = Tail(regions)
      /\ UNCHANGED <<full, journey, cities, remaining, sequence, shares, calendar, lodgings>>
      /\ \/ Len(regions) > 1 /\ phase' = "start"
         \/ ~(Len(regions) > 1) /\ phase' \in {"done", "stays"}
    BY Ending
<1>2. RegionsFine(regions, ToSet(cities)) /\ Ordering
    BY <1>1 DEF JourneyInv, Planning
<1>3. (Proper' <=> Proper) /\ Namesakes' = Namesakes /\ ByCountry' = ByCountry /\ PlaceIndices' = PlaceIndices
    BY <1>1, CausesStay
<1>4. phase' = "start" => Later(regions', 1) = Later(regions, 2)
    BY <1>1, <1>2, OtherRegions
<1>5. ~(Len(regions) > 1) => Later(regions, 2) = {}
    <2>1. Len(regions) \in Nat
        BY <1>2, FirstRegion
    <2>2. ~(Len(regions) > 1) => 2..Len(regions) = {}
        BY <2>1
    <2> QED BY <2>2 DEF Later
<1>6. Pending = Later(regions, 2)
    <2>1. ToSet(to_fill) = {} /\ remaining = {}
        BY <1>1, <1>2 DEF ToSet, Ordering
    <2> QED BY <1>1, <2>1 DEF Pending
<1>7. Pending' = Pending
    BY <1>1, <1>4, <1>5, <1>6 DEF Pending
<1>8. FreshNames'
    <2>1. phase' = "start" => Ahead' = Ahead
        BY <1>1, <1>4 DEF Ahead
    <2> QED BY <1>1, <1>3, <2>1 DEF DaysInv, FreshNames, Planning
<1>9. ASSUME Proper PROVE InRow'
    <2>1. InRow
        BY <1>9 DEF DaysInv
    <2>2. SumOver(Left) = 0
        <3>1. DOMAIN Left = {}
            BY <1>1 DEF Left, ToSet
        <3> QED BY <3>1, SumNone
    <2>3. today \in Nat \ {0} /\ DOMAIN calendar = 1..(today - 1) /\ today = base'
        BY <1>1, <2>1, <2>2 DEF InRow
    <2>4. Covered'
        BY <1>1, <1>7, <2>1, CoveredStays DEF InRow, Planning
    <2>5. ~ByCountry => Len(regions) = 1 /\ base' = journey.duration + 1
        <3>1. ~ByCountry => Len(regions) = 1 /\ base = 1 /\ Head(regions).duration = journey.duration
            BY <1>1, <2>1 DEF InRow, Planning
        <3>2. journey.duration \in Nat
            BY PlacesListed DEF JourneyInv
        <3> QED BY <1>1, <3>1, <3>2
    <2>6. base' \in Nat \ {0} /\ DOMAIN calendar' = 1..(base' - 1)
        BY <1>1, <2>3
    <2>7. CASE phase' = "start"
        BY <1>1, <1>3, <2>4, <2>5, <2>6, <2>7 DEF InRow, Planning
    <2>8. CASE phase' \in {"stays", "done"}
        <3>1. base' - 1 \in Nat
            <4>1. base' \in Nat \ {0}
                BY <2>6
            <4>2. \A b \in Nat \ {0} : b - 1 \in Nat
                OBVIOUS
            <4> QED BY <4>1, <4>2
        <3>2. ~ByCountry => DOMAIN calendar' = 1..journey.duration
            <4>1. journey.duration \in Nat
                BY PlacesListed DEF JourneyInv
            <4>2. ~ByCountry => base' - 1 = journey.duration
                BY <2>5, <4>1
            <4> QED BY <2>6, <4>2
        <3> QED BY <1>1, <1>3, <2>4, <2>6, <2>8, <3>1, <3>2 DEF InRow, Planning
    <2> QED BY <1>1, <2>7, <2>8
<1> QED BY <1>3, <1>8, <1>9 DEF DaysInv

\* Once the days are planned, neither the nights nor the answer change them.
LEMMA DaysRest ==
    ASSUME DaysInv, phase' = phase \/ (phase = "stays" /\ phase' = "done"),
           UNCHANGED <<full, journey, cities, regions, remaining, sequence, shares, base, calendar>>,
           phase = "stays" \/ UNCHANGED <<to_fill, today>>
    PROVE  DaysInv'
<1>1. (Proper' <=> Proper) /\ Namesakes' = Namesakes /\ ByCountry' = ByCountry /\ PlaceIndices' = PlaceIndices
    BY CausesStay
<1>2. Pending' = Pending
    BY DEF Pending
<1>3. FreshNames'
    <2>1. phase' = phase => Ahead' = Ahead
        BY DEF Ahead
    <2> QED BY <1>1, <2>1 DEF DaysInv, FreshNames, Planning
<1>4. ASSUME Proper PROVE InRow'
    <2>1. InRow
        BY <1>4 DEF DaysInv
    <2>2. Covered => Covered'
        BY <1>2, CoveredStays
    <2>3. UNCHANGED to_fill => Left' = Left
        BY DEF Left
    <2>4. CASE phase = "stays"
        BY <1>1, <2>1, <2>2, <2>4 DEF InRow, Planning
    <2>5. CASE UNCHANGED <<to_fill, today>> /\ phase # "stays"
        BY <1>1, <2>1, <2>2, <2>3, <2>5 DEF InRow, Planning
    <2> QED BY <2>4, <2>5
<1> QED BY <1>1, <1>3, <1>4 DEF DaysInv

\* No step loses a place or leaves a day out.
LEMMA DaysKeep == ASSUME JourneyInv, DaysInv, [JourneyNext]_journeyVars PROVE DaysInv'
<1>1. CASE plan_city_accommodation
    BY <1>1, NightStep, DaysRest
<1>2. CASE AnswerJourney
    BY <1>2, DaysRest DEF AnswerJourney
<1>3. CASE UNCHANGED journeyVars
    BY <1>3, DaysRest DEF journeyVars
<1> QED BY <1>1, <1>2, <1>3, DaysCluster, DaysSingle, DaysStrategy, DaysStart, DaysNearest, DaysDistribute,
       DaysFill, DaysEnd DEF JourneyNext

\* What the invariants say of the calendar at the end.
LEMMA VisitedOnce == ASSUME JourneyInv, DaysInv PROVE EveryPoiVisitedOnce
<1> SUFFICES ASSUME phase \in {"stays", "done"} PROVE EveryPoiVisitedOnce
    BY DEF EveryPoiVisitedOnce
<1>1. \A i : Visits(i) <= 1
    <2>1. ASSUME NEW i PROVE Visits(i) <= 1
        <3>1. Visits(i) \in {0, 1}
            BY VisitsAtMostOnce
        <3> QED BY <3>1
    <2> QED BY <2>1
<1>2. ASSUME ~Discarded, ~Namesakes, ~Squeezed
      PROVE  /\ \A i \in DOMAIN journey.pois : Visits(i) = 1
             /\ DOMAIN calendar = 1..Cardinality(DOMAIN calendar)
             /\ ~ByCountry => DOMAIN calendar = 1..journey.duration
    <2>1. InRow
        BY <1>2 DEF DaysInv, Proper
    <2>2. Covered /\ Pending = {}
        BY <2>1 DEF InRow, Pending
    <2>3. \A i \in PlaceIndices : Visits(i) = 1
        BY <2>2, VisitsAtMostOnce DEF Covered
    <2>4. PICK n \in Nat : DOMAIN calendar = 1..n
        BY <2>1 DEF InRow
    <2>5. Cardinality(1..n) = n
        BY <2>4, FS_Interval
    <2>6. ~ByCountry => DOMAIN calendar = 1..journey.duration
        BY <2>1 DEF InRow
    <2> QED BY <2>3, <2>4, <2>5, <2>6 DEF PlaceIndices
<1> QED BY <1>1, <1>2 DEF EveryPoiVisitedOnce

\* In every journey, whatever the optimizer, no place is visited twice; and when
\* no cluster is discarded, no two cities share a name and every city gets a
\* day, each place is visited once, on consecutive days from the first, which
\* are the days asked for when the journey is planned as one region.
THEOREM PlacesVisitedOnce == JourneySpec => []EveryPoiVisitedOnce
<1>1. JourneyInit => JourneyInv /\ DaysInv
    BY JourneyInitial, DaysInitial
<1>2. JourneyInv /\ DaysInv /\ [JourneyNext]_journeyVars => JourneyInv' /\ DaysInv'
    BY JourneyKeeps, DaysKeep
<1>3. JourneyInv /\ DaysInv => EveryPoiVisitedOnce
    BY VisitedOnce
<1> QED BY <1>1, <1>2, <1>3, PTL DEF JourneySpec

-----------------------------------------------------------------------------
(* Nights *)

\* The days of the k-th city of the route.
Share(k) == shares[sequence[k].name]

\* The block of days st[k]..st[k + 1] - 1 is the k-th city's.
InBlocks(cal, st, p) ==
    /\ \A d \in DOMAIN cal : \E k \in 1..p : d \in st[k]..(st[k + 1] - 1)
    /\ \A k \in 1..p : \A d \in st[k]..(st[k + 1] - 1) :
          d \in DOMAIN cal /\ ToSet(cal[d]) \subseteq ToSet(sequence[k].pois)

\* The first p cities of the route are filled, up to the day t: a place that is
\* planned is in one of them that has days; if all have, in the block of its own.
Blocks(cal, t, st, p) ==
    /\ st[1] = 1 /\ t = st[p + 1]
    /\ \A k \in 1..p : st[k + 1] = st[k] + Share(k)
    /\ \A d \in DOMAIN cal : \A i \in ToSet(cal[d]) :
          \E k \in 1..p : i \in ToSet(sequence[k].pois) /\ Share(k) >= 1
    /\ (\A k \in 1..p : Share(k) >= 1) => t >= 1 /\ DOMAIN cal = 1..(t - 1) /\ InBlocks(cal, st, p)

\* The next city's block.
LEMMA BlockAdded ==
    ASSUME NEW cal, NEW t \in Int, NEW p \in Nat, NEW st \in [1..(p + 1) -> Int], Blocks(cal, t, st, p),
           NEW new, NEW n \in Int, n = Share(p + 1), CityFilled(new, cal, sequence[p + 1].pois, t, n)
    PROVE  \E su \in [1..(p + 2) -> Int] : Blocks(new, t + n, su, p + 1)
<1> DEFINE su == [k \in 1..(p + 2) |-> IF k = p + 2 THEN t + n ELSE st[k]]
           block == t..(t + n - 1)
<1>1. /\ su \in [1..(p + 2) -> Int] /\ su[p + 2] = t + n
      /\ \A k \in 1..(p + 1) : su[k] = st[k] /\ st[k] \in Int
    OBVIOUS
<1> HIDE DEF su
<1>2. st[1] = 1 /\ t = st[p + 1] /\ \A k \in 1..p : st[k + 1] = st[k] + Share(k)
    BY DEF Blocks
<1>3. /\ \A k \in 1..p : k + 1 \in 1..(p + 1) /\ k \in 1..(p + 1)
      /\ p + 1 \in 1..(p + 1) /\ 1 \in 1..(p + 1) /\ (p + 1) + 1 = p + 2
      /\ 1..(p + 1) = 1..p \cup {p + 1}
    OBVIOUS
<1>4. \A k \in 1..p : su[k] = st[k] /\ su[k + 1] = st[k + 1]
    BY <1>1, <1>3
<1>5. su[p + 1] = t /\ su[(p + 1) + 1] = t + n
    BY <1>1, <1>2, <1>3
<1>6. su[1] = 1 /\ \A k \in 1..(p + 1) : su[k + 1] = su[k] + Share(k)
    BY <1>1, <1>2, <1>3, <1>4, <1>5
<1>7. /\ DOMAIN new = DOMAIN cal \cup block
      /\ \A d \in block : ToSet(new[d]) \subseteq ToSet(sequence[p + 1].pois)
      /\ \A d \in DOMAIN cal \ block : new[d] = cal[d]
    BY DEF CityFilled
<1>8. \A d \in block : d \in Int /\ n >= 1
    OBVIOUS
<1>9. ASSUME NEW d \in DOMAIN new, NEW i \in ToSet(new[d])
      PROVE  \E k \in 1..(p + 1) : i \in ToSet(sequence[k].pois) /\ Share(k) >= 1
    <2>1. CASE d \in block
        BY <1>3, <1>7, <1>8, <1>9, <2>1
    <2>2. CASE d \notin block
        <3>1. d \in DOMAIN cal /\ i \in ToSet(cal[d])
            BY <1>7, <1>9, <2>2
        <3> QED BY <1>3, <3>1 DEF Blocks
    <2> QED BY <2>1, <2>2
<1>10. ASSUME \A k \in 1..(p + 1) : Share(k) >= 1
       PROVE  t + n >= 1 /\ DOMAIN new = 1..(t + n - 1) /\ InBlocks(new, su, p + 1)
    <2>1. n >= 1 /\ \A k \in 1..p : Share(k) >= 1
        BY <1>3, <1>10
    <2>2. t >= 1 /\ DOMAIN cal = 1..(t - 1) /\ InBlocks(cal, st, p)
        BY <2>1 DEF Blocks
    <2>3. (1..(t - 1)) \cup block = 1..(t + n - 1)
        BY <2>1, <2>2
    <2>4. \A d \in DOMAIN cal : d \notin block
        BY <2>2
    <2>5. ASSUME NEW d \in DOMAIN new PROVE \E k \in 1..(p + 1) : d \in su[k]..(su[k + 1] - 1)
        <3>1. CASE d \in block
            BY <1>3, <1>5, <3>1
        <3>2. CASE d \in DOMAIN cal
            <4>1. PICK k \in 1..p : d \in st[k]..(st[k + 1] - 1)
                BY <2>2, <3>2 DEF InBlocks
            <4> QED BY <1>3, <1>4, <4>1
        <3> QED BY <1>7, <2>5, <3>1, <3>2
    <2>6. ASSUME NEW k \in 1..(p + 1), NEW d \in su[k]..(su[k + 1] - 1)
          PROVE  d \in DOMAIN new /\ ToSet(new[d]) \subseteq ToSet(sequence[k].pois)
        <3>1. CASE k = p + 1
            <4>1. d \in block
                BY <1>5, <2>6, <3>1
            <4> QED BY <1>7, <3>1, <4>1
        <3>2. CASE k \in 1..p
            <4>1. d \in st[k]..(st[k + 1] - 1)
                BY <1>4, <2>6, <3>2
            <4>2. d \in DOMAIN cal /\ ToSet(cal[d]) \subseteq ToSet(sequence[k].pois)
                BY <2>2, <3>2, <4>1 DEF InBlocks
            <4> QED BY <1>7, <2>4, <4>2
        <3> QED BY <1>3, <3>1, <3>2
    <2>7. InBlocks(new, su, p + 1)
        BY <2>5, <2>6 DEF InBlocks
    <2>8. t + n >= 1
        BY <2>1, <2>2
    <2>9. DOMAIN new = 1..(t + n - 1)
        BY <1>7, <2>2, <2>3
    <2> QED BY <2>7, <2>8, <2>9
<1>11. Blocks(new, t + n, su, p + 1)
    BY <1>5, <1>6, <1>9, <1>10 DEF Blocks
<1> QED BY <1>1, <1>11

\* The first p cities of the route are done with.
Suffix(p) == /\ Len(to_fill) = Len(sequence) - p
             /\ \A j \in 1..Len(to_fill) : to_fill[j] = sequence[p + j]

\* The journeys of which the nights must follow the days.
Calm ==
    /\ ~Namesakes
    /\ \A k \in DOMAIN sequence : \A i \in ToSet(sequence[k].pois) : Poi(i).city = sequence[k].name
    /\ \A d \in DOMAIN calendar : calendar[d] # <<>>
    /\ \A k \in DOMAIN sequence : DaysPerCity(sequence[k].name) >= 2

\* The route is of cities of the journey, each once.
Route == sequence \in Seq(ToSet(cities)) /\ IsInjective(sequence)

\* The days the nights are counted by are the blocks of the calendar.
Tiles(st) ==
    /\ st[1] = 1
    /\ \A k \in DOMAIN sequence : st[k + 1] = st[k] + DaysPerCity(sequence[k].name)
    /\ \A k \in DOMAIN sequence : \A d \in st[k]..(st[k + 1] - 1) :
          d \in DOMAIN calendar /\ \A i \in ToSet(calendar[d]) : Poi(i).city = sequence[k].name

\* In a calm journey every city has as many days in the calendar as it was given.
LEMMA BlocksTile ==
    ASSUME Calm, Route, CitiesFine(cities), NEW st \in [1..(Len(sequence) + 1) -> Int],
           ACalendar(calendar, PlaceIndices), Blocks(calendar, today, st, Len(sequence)),
           \A k \in DOMAIN sequence : Share(k) \in Int
    PROVE  Tiles(st)
<1> DEFINE N == Len(sequence)
           Name(k) == sequence[k].name
           Touching(k) == {d \in DOMAIN calendar : \E i \in ToSet(calendar[d]) : Poi(i).city = Name(k)}
<1>1. /\ N \in Nat /\ DOMAIN sequence = 1..N
      /\ \A k \in 1..N : sequence[k] \in ToSet(cities) /\ k + 1 \in 1..(N + 1) /\ k \in 1..(N + 1)
    BY DEF Route
<1>2. ASSUME NEW j \in 1..N, NEW k \in 1..N, NEW i \in ToSet(sequence[j].pois), Poi(i).city = Name(k)
      PROVE  j = k
    <2>1. Poi(i).city = Name(j)
        BY <1>1, <1>2 DEF Calm
    <2>2. sequence[j] = sequence[k]
        BY <1>1, <1>2, <2>1, NamesDiffer DEF Calm
    <2> QED BY <1>1, <2>2 DEF Route, IsInjective
<1>3. ASSUME NEW k \in 1..N PROVE Share(k) >= 1
    <2>1. Touching(k) # {}
        <3>1. CASE Touching(k) = {}
            <4>1. Cardinality(Touching(k)) = 0
                BY <3>1, FS_EmptySet
            <4>2. DaysPerCity(Name(k)) = Max({1, Cardinality(Touching(k))})
                BY DEF DaysPerCity
            <4>3. Max({1, 0}) = 1
                BY AtLeastOne
            <4>4. DaysPerCity(Name(k)) >= 2
                BY <1>1 DEF Calm
            <4>5. DaysPerCity(Name(k)) = 1
                <5> DEFINE m == Cardinality(Touching(k))
                <5>1. m = 0 /\ DaysPerCity(Name(k)) = Max({1, m})
                    BY <4>1, <4>2
                <5> HIDE DEF m
                <5> QED BY <5>1, <4>3
            <4>6. FALSE
                BY <4>4, <4>5
            <4> QED BY <4>6
        <3> QED BY <3>1
    <2>2. PICK d \in DOMAIN calendar : \E i \in ToSet(calendar[d]) : Poi(i).city = Name(k)
        BY <2>1
    <2>3. PICK i \in ToSet(calendar[d]) : Poi(i).city = Name(k)
        BY <2>2
    <2>4. PICK j \in 1..N : i \in ToSet(sequence[j].pois) /\ Share(j) >= 1
        BY <2>3 DEF Blocks
    <2> QED BY <1>2, <2>3, <2>4
<1>4. InBlocks(calendar, st, N) /\ st[1] = 1 /\ \A k \in 1..N : st[k + 1] = st[k] + Share(k)
    BY <1>3 DEF Blocks
<1>5. \A k \in 1..N : st[k] \in Int /\ st[k + 1] \in Int
    BY <1>1
<1>6. ASSUME NEW k \in 1..N, NEW d \in st[k]..(st[k + 1] - 1), NEW i \in ToSet(calendar[d])
      PROVE  Poi(i).city = Name(k)
    BY <1>1, <1>4, <1>6 DEF InBlocks, Calm
<1>7. ASSUME NEW k \in 1..N PROVE DaysPerCity(Name(k)) = Share(k)
    <2>1. ASSUME NEW d \in st[k]..(st[k + 1] - 1) PROVE d \in Touching(k)
        <3>1. d \in DOMAIN calendar /\ calendar[d] # <<>>
            BY <1>4, <2>1 DEF InBlocks, Calm
        <3>2. ToSet(calendar[d]) # {}
            <4>1. calendar[d] \in Seq(PlaceIndices)
                BY <3>1 DEF ACalendar
            <4>2. 1 \in DOMAIN calendar[d]
                BY <3>1, <4>1, EmptySeq
            <4> QED BY <4>2 DEF ToSet
        <3>3. PICK i \in ToSet(calendar[d]) : TRUE
            BY <3>2
        <3> QED BY <1>6, <3>1, <3>3
    <2>2. ASSUME NEW d \in Touching(k) PROVE d \in st[k]..(st[k + 1] - 1)
        <3>1. PICK i \in ToSet(calendar[d]) : Poi(i).city = Name(k)
            BY <2>2
        <3>2. PICK j \in 1..N : d \in st[j]..(st[j + 1] - 1)
            BY <1>4, <2>2 DEF InBlocks
        <3>3. ToSet(calendar[d]) \subseteq ToSet(sequence[j].pois)
            BY <1>4, <3>2 DEF InBlocks
        <3>4. j = k
            BY <1>2, <3>1, <3>3
        <3> QED BY <3>2, <3>4
    <2>3. Touching(k) = st[k]..(st[k + 1] - 1)
        BY <2>1, <2>2
    <2>4. Cardinality(Touching(k)) = Share(k)
        <3>1. /\ st[k] \in Int /\ st[k + 1] - 1 \in Int /\ st[k + 1] = st[k] + Share(k)
              /\ Share(k) >= 1 /\ Share(k) \in Int
            BY <1>1, <1>3, <1>4, <1>5
        <3> DEFINE a == st[k]   b == st[k + 1] - 1
        <3>2. a \in Int /\ b \in Int /\ a <= b /\ b - a + 1 = Share(k)
            BY <3>1
        <3>3. Cardinality(a..b) = b - a + 1
            <4> HIDE DEF a, b
            <4> QED BY <3>2, FS_Interval
        <3> QED BY <2>3, <3>2, <3>3
    <2>5. Share(k) \in Int
        BY <1>1
    <2>6. Max({1, Share(k)}) = Share(k)
        BY <1>3, <2>5, AtLeastOne
    <2>7. DaysPerCity(Name(k)) = Max({1, Cardinality(Touching(k))})
        BY DEF DaysPerCity
    <2> QED BY <2>4, <2>6, <2>7
<1>8. \A k \in 1..N : \A d \in st[k]..(st[k + 1] - 1) : d \in DOMAIN calendar
    BY <1>4 DEF InBlocks
<1> QED BY <1>1, <1>4, <1>6, <1>7, <1>8 DEF Tiles

\* The nights planned are spent where the calendar says.
Follows == \A k \in DOMAIN lodgings :
               \A d \in lodgings[k].check_in..(lodgings[k].check_in + lodgings[k].nights) :
                  d \in DOMAIN calendar /\ \A i \in ToSet(calendar[d]) : Poi(i).city = lodgings[k].city

\* While the nights are planned, the day at hand begins the next city's block.
NightsFollow ==
    /\ sequence \in Seq(ToSet(sequence)) /\ to_fill \in Seq(ToSet(sequence))
    /\ lodgings \in Seq(ToSet(lodgings))
    /\ Calm => /\ Follows
               /\ \E p \in 0..Len(sequence) :
                     /\ Suffix(p)
                     /\ \E st \in [1..(Len(sequence) + 1) -> Int] : Tiles(st) /\ today = st[p + 1]

\* While the days are filled, the cities before have their blocks.
DaysBlocked ==
    /\ Len(regions) = 1 /\ lodgings = <<>> /\ Route /\ \A k \in DOMAIN sequence : Share(k) \in Int
    /\ \E p \in 0..Len(sequence) :
          Suffix(p) /\ \E st \in [1..(p + 1) -> Int] : Blocks(calendar, today, st, p)

\* The third inductive invariant, of the simple optimizer only.
StayInv ==
    ~full =>
        /\ phase \in {"cluster", "strategy"} => today = 1
        /\ phase \in {"start", "order"} => Len(regions) = 1 /\ DOMAIN calendar = {} /\ base = 1
                                           /\ sequence = <<>> /\ lodgings = <<>>
        /\ phase = "order" => today = 1
        /\ phase = "fill" => DaysBlocked
        /\ phase = "stays" => NightsFollow
        /\ phase = "done" /\ Calm => Follows

\* At first there is no route.
LEMMA StayInitial == ASSUME JourneyInit PROVE StayInv
<1>1. phase = "cluster" /\ today = 1
    BY DEF JourneyInit, NothingPlanned
<1> QED BY <1>1 DEF StayInv

\* Nor after the clusters.
LEMMA StayCluster == ASSUME StayInv, cluster_pois_advanced PROVE StayInv'
<1>1. phase = "cluster" /\ phase' = "strategy" /\ today' = today /\ full' = full
    BY DEF cluster_pois_advanced
<1> QED BY <1>1 DEF StayInv

\* The simple optimizer has a single region.
LEMMA StayStrategy == ASSUME JourneyInv, _determine_optimization_strategy PROVE StayInv'
<1>1. /\ phase = "strategy" /\ phase' = "start"
      /\ UNCHANGED <<full, sequence, base, calendar, lodgings>>
    BY DEF _determine_optimization_strategy
<1>2. NothingYet
    BY <1>1 DEF JourneyInv
<1>3. ~full => Len(regions') = 1
    <2>1. ~full => ~ByCountry
        BY DEF ByCountry
    <2> QED BY <2>1, StrategyRegions DEF JourneyInv
<1> QED BY <1>1, <1>2, <1>3 DEF StayInv, NothingYet

\* It begins on the first day.
LEMMA StayStart == ASSUME JourneyInv, StayInv, StartCity PROVE StayInv'
<1>1. /\ phase = "start" /\ phase' = "order" /\ today' = base
      /\ UNCHANGED <<full, regions, sequence, base, calendar, lodgings>>
    BY DEF StartCity
<1> QED BY <1>1 DEF StayInv

\* And so it does while the cities are ordered.
LEMMA StayNearest == ASSUME JourneyInv, StayInv, NearestCity PROVE StayInv'
<1>1. /\ phase = "order" /\ phase' = phase
      /\ UNCHANGED <<full, regions, sequence, base, today, calendar, lodgings>>
    BY DEF NearestCity
<1> QED BY <1>1 DEF StayInv

\* The route is the order; none of its cities is filled yet.
LEMMA StayDistribute == ASSUME JourneyInv, StayInv, DistributeDays PROVE StayInv'
<1>1. /\ phase = "order" /\ phase' = "fill" /\ sequence' = sequence \o to_fill
      /\ UNCHANGED <<full, journey, cities, regions, to_fill, today, calendar, lodgings>>
    BY DEF DistributeDays
<1>2. JourneyInv' /\ Ordering
    BY <1>1, DistributeKeeps DEF JourneyInv
<1>3. SharesKnown' /\ to_fill \in Seq(ToSet(cities)) /\ IsInjective(to_fill)
    BY <1>1, <1>2 DEF JourneyInv, Ordering
<1> SUFFICES ASSUME ~full PROVE DaysBlocked'
    BY <1>1 DEF StayInv
<1>4. Len(regions) = 1 /\ DOMAIN calendar = {} /\ sequence = <<>> /\ lodgings = <<>> /\ today = 1
    BY <1>1 DEF StayInv
<1>5. sequence' = to_fill
    BY <1>1, <1>3, <1>4
<1>6. Route'
    BY <1>1, <1>3, <1>5 DEF Route
<1>7. \A k \in DOMAIN sequence' : Share(k)' \in Int
    BY <1>1, <1>3, <1>5 DEF SharesKnown, Share, ToSet
<1>8. Suffix(0)'
    <2>1. Len(to_fill) \in Nat /\ \A j \in 1..Len(to_fill) : 0 + j = j
        BY <1>3
    <2>2. Len(to_fill) = Len(to_fill) - 0
        BY <2>1
    <2>3. Len(to_fill') = Len(sequence') - 0
        BY <1>1, <1>5, <2>2
    <2>4. \A j \in 1..Len(to_fill') : to_fill'[j] = sequence'[0 + j]
        BY <1>1, <1>5, <2>1
    <2> QED BY <2>3, <2>4 DEF Suffix
<1> DEFINE st == [k \in 1..1 |-> 1]
<1>9. st \in [1..(0 + 1) -> Int] /\ Blocks(calendar, today, st, 0)'
    <2>1. 1..0 = {} /\ 0 + 1 = 1 /\ st[1] = 1 /\ st \in [1..1 -> Int] /\ 1..(1 - 1) = {}
        OBVIOUS
    <2> HIDE DEF st
    <2>2. DOMAIN calendar' = {} /\ today' = 1
        BY <1>1, <1>4
    <2> QED BY <2>1, <2>2 DEF Blocks, InBlocks
<1>10. 0 \in 0..Len(sequence')
    BY <1>3, <1>5
<1> HIDE DEF st
<1> QED BY <1>1, <1>4, <1>6, <1>7, <1>8, <1>9, <1>10 DEF DaysBlocked

\* One more city of the route has its block.
LEMMA StayFill == ASSUME JourneyInv, StayInv, FillCity PROVE StayInv'
<1>1. /\ phase = "fill" /\ to_fill # <<>> /\ NextShare \in Int /\ Ordering
      /\ UNCHANGED <<full, journey, cities, regions, remaining, sequence, shares, base, lodgings>>
      /\ \/ full
         \/ /\ CityFilled(calendar', calendar, NextCity.pois, today, NextShare)
            /\ today' = today + NextShare /\ to_fill' = Tail(to_fill) /\ phase' = phase
    BY Filling
<1> SUFFICES ASSUME ~full PROVE DaysBlocked'
    BY <1>1 DEF StayInv
<1>2. DaysBlocked /\ today \in Int
    BY <1>1 DEF StayInv, JourneyInv
<1>3. PICK p \in 0..Len(sequence) :
          Suffix(p) /\ \E st \in [1..(p + 1) -> Int] : Blocks(calendar, today, st, p)
    BY <1>2 DEF DaysBlocked
<1>4. PICK st \in [1..(p + 1) -> Int] : Blocks(calendar, today, st, p)
    BY <1>3
<1>5. /\ Len(to_fill) \in Nat \ {0} /\ NextCity = to_fill[1] /\ Len(to_fill') = Len(to_fill) - 1
      /\ \A j \in 1..(Len(to_fill) - 1) : to_fill'[j] = to_fill[j + 1]
    BY <1>1, AfterFirst DEF Ordering, NextCity
<1>6. Len(sequence) \in Nat /\ p \in Nat /\ Len(to_fill) = Len(sequence) - p
    <2>1. sequence \in Seq(ToSet(cities))
        BY <1>2 DEF DaysBlocked, Route
    <2>2. Len(sequence) \in Nat
        BY <2>1
    <2>3. Len(to_fill) = Len(sequence) - p
        BY <1>3 DEF Suffix
    <2> QED BY <2>2, <2>3
<1>7. p + 1 \in 0..Len(sequence) /\ NextCity = sequence[p + 1]
    <2>1. 1 \in 1..Len(to_fill)
        BY <1>5
    <2>2. to_fill[1] = sequence[p + 1]
        BY <1>3, <2>1 DEF Suffix
    <2>3. p + 1 \in 0..Len(sequence)
        BY <1>5, <1>6
    <2> QED BY <1>5, <2>2, <2>3
<1>8. Suffix(p + 1)'
    <2>1. Len(to_fill') = Len(sequence) - (p + 1)
        BY <1>5, <1>6
    <2>2. ASSUME NEW j \in 1..Len(to_fill') PROVE to_fill'[j] = sequence[(p + 1) + j]
        <3>1. j \in 1..(Len(to_fill) - 1) /\ j + 1 \in 1..Len(to_fill) /\ p + (j + 1) = (p + 1) + j
            <4> DEFINE M == Len(to_fill)
            <4>1. M \in Nat /\ p \in Nat /\ j \in 1..(M - 1)
                BY <1>5, <1>6, <2>2
            <4> HIDE DEF M
            <4>2. j \in 1..(M - 1) /\ j + 1 \in 1..M /\ p + (j + 1) = (p + 1) + j
                BY <4>1
            <4> QED BY <4>2 DEF M
        <3>2. to_fill[j + 1] = sequence[p + (j + 1)]
            BY <1>3, <3>1 DEF Suffix
        <3> QED BY <1>5, <3>1, <3>2
    <2> QED BY <1>1, <2>1, <2>2 DEF Suffix
<1>9. NextShare = Share(p + 1)
    BY <1>7 DEF NextShare, Share
<1>10. PICK su \in [1..(p + 2) -> Int] : Blocks(calendar', today + NextShare, su, p + 1)
    <2> DEFINE new == calendar'   n == NextShare   t == today
    <2>1. CityFilled(new, calendar, sequence[p + 1].pois, t, n) /\ n = Share(p + 1) /\ n \in Int /\ t \in Int
          /\ Blocks(calendar, t, st, p)
        BY <1>1, <1>2, <1>4, <1>7, <1>9
    <2> HIDE DEF new, n, t
    <2>2. \E su \in [1..(p + 2) -> Int] : Blocks(new, t + n, su, p + 1)
        BY <1>6, <2>1, BlockAdded
    <2> QED BY <2>2 DEF new, n, t
<1>11. (p + 1) + 1 = p + 2
    BY <1>6
<1>12. \A k : Share(k)' = Share(k)
    BY <1>1 DEF Share
<1>13. Blocks(calendar, today, su, p + 1)'
    BY <1>1, <1>10, <1>12 DEF Blocks, InBlocks
<1>14. Route'
    BY <1>1, <1>2 DEF Route, DaysBlocked
<1>15. \E q \in 0..Len(sequence') :
          Suffix(q)' /\ \E sv \in [1..(q + 1) -> Int] : Blocks(calendar, today, sv, q)'
    BY <1>1, <1>7, <1>8, <1>11, <1>13
<1> QED BY <1>1, <1>2, <1>12, <1>14, <1>15 DEF DaysBlocked

\* What is said of the calendar and the route stays while they do.
LEMMA CalmStays ==
    ASSUME UNCHANGED <<calendar, journey, cities, sequence>>
    PROVE  /\ Calm' <=> Calm
           /\ \A st : Tiles(st)' <=> Tiles(st)
           /\ \A name : DaysPerCity(name)' = DaysPerCity(name)
<1>1. \A name : DaysPerCity(name)' = DaysPerCity(name)
    BY DEF DaysPerCity, Poi
<1>2. Namesakes' <=> Namesakes
    BY DEF Namesakes
<1>3. Calm' <=> Calm
    BY <1>1, <1>2 DEF Calm, Poi
<1>4. ASSUME NEW st PROVE Tiles(st)' <=> Tiles(st)
    BY <1>1 DEF Tiles, Poi
<1> QED BY <1>1, <1>3, <1>4

\* The nights begin with the first city, on the first day.
LEMMA StayEnd == ASSUME JourneyInv, StayInv, EndRegion PROVE StayInv'
<1>1. /\ phase = "fill" /\ to_fill = <<>> /\ today' = 1
      /\ UNCHANGED <<full, journey, cities, sequence, shares, calendar, lodgings>>
      /\ \/ Len(regions) > 1
         \/ full
         \/ phase' = "stays" /\ to_fill' = sequence
    BY Ending
<1> SUFFICES ASSUME ~full PROVE phase' = "stays" /\ NightsFollow'
    BY <1>1 DEF StayInv
<1>2. DaysBlocked
    BY <1>1 DEF StayInv
<1>3. /\ phase' = "stays" /\ to_fill' = sequence /\ Route /\ lodgings = <<>>
      /\ \A k \in DOMAIN sequence : Share(k) \in Int
    <2>1. Len(regions) = 1
        BY <1>2 DEF DaysBlocked
    <2>2. ~(Len(regions) > 1)
        BY <2>1
    <2> QED BY <1>1, <1>2, <2>2 DEF DaysBlocked
<1>4. sequence \in Seq(ToSet(cities)) /\ Len(sequence) \in Nat /\ DOMAIN sequence = 1..Len(sequence)
    BY <1>3 DEF Route
<1>5. PICK st \in [1..(Len(sequence) + 1) -> Int] : Blocks(calendar, today, st, Len(sequence))
    <2>1. PICK p \in 0..Len(sequence) :
            Suffix(p) /\ \E st \in [1..(p + 1) -> Int] : Blocks(calendar, today, st, p)
        BY <1>2 DEF DaysBlocked
    <2>2. Len(to_fill) = Len(sequence) - p /\ Len(to_fill) = 0
        BY <1>1, <2>1 DEF Suffix
    <2> DEFINE N == Len(sequence)   m == Len(to_fill)
    <2>3. N \in Nat /\ m = N - p /\ m = 0 /\ p \in 0..N
        BY <1>4, <2>2
    <2> HIDE DEF N, m
    <2>4. p = N
        BY <2>3
    <2>5. p = Len(sequence)
        BY <2>4 DEF N
    <2> QED BY <2>1, <2>5
<1>6. (Calm' <=> Calm) /\ \A su : Tiles(su)' <=> Tiles(su)
    BY <1>1, CalmStays
<1>7. Calm => Tiles(st)
    <2>1. CitiesFine(cities) /\ ACalendar(calendar, PlaceIndices)
        BY DEF JourneyInv
    <2> QED BY <1>3, <1>5, <2>1, BlocksTile
<1>8. Follows'
    <2>1. DOMAIN lodgings' = {}
        BY <1>1, <1>3
    <2> QED BY <2>1 DEF Follows
<1>9. Suffix(0)'
    <2>1. \A j \in 1..Len(sequence) : 0 + j = j
        BY <1>4
    <2>2. Len(sequence) = Len(sequence) - 0
        BY <1>4
    <2> QED BY <1>1, <1>3, <2>1, <2>2 DEF Suffix
<1>10. Tiles(st) => today' = st[0 + 1]
    BY <1>1 DEF Tiles
<1>11. 0 \in 0..Len(sequence')
    BY <1>1, <1>4
<1>12. sequence' \in Seq(ToSet(sequence')) /\ to_fill' \in Seq(ToSet(sequence'))
    <2>1. sequence \in Seq(ToSet(sequence))
        BY <1>4 DEF ToSet
    <2> QED BY <1>1, <1>3, <2>1
<1>13. lodgings' \in Seq(ToSet(lodgings'))
    BY <1>1, <1>3
<1>14. ASSUME Calm'
       PROVE  \E p \in 0..Len(sequence') :
                 Suffix(p)' /\ \E su \in [1..(Len(sequence') + 1) -> Int] : Tiles(su)' /\ today' = su[p + 1]
    <2>1. Tiles(st)' /\ today' = st[0 + 1] /\ st \in [1..(Len(sequence') + 1) -> Int]
        BY <1>1, <1>5, <1>6, <1>7, <1>10, <1>14
    <2> QED BY <1>9, <1>11, <2>1
<1> QED BY <1>3, <1>8, <1>12, <1>13, <1>14 DEF NightsFollow

\* The days of a single city are one block.
LEMMA StaySingle == ASSUME JourneyInv, StayInv, _optimize_single_city PROVE StayInv'
<1>1. /\ phase' = (IF full THEN "done" ELSE "stays")
      /\ Len(cities') = 1 /\ cities'[1].pois = PoiIndices /\ DOMAIN cities' = {1}
      /\ cities' \in Seq(ToSet(cities')) /\ sequence' = cities' /\ to_fill' = cities'
      /\ calendar' = _simple_daily_distribution(PoiIndices, journey.duration)
      /\ journey' = journey /\ full' = full /\ today' = today /\ lodgings' = lodgings /\ NothingYet
    BY SingleCity
<1> SUFFICES ASSUME ~full PROVE NightsFollow'
    BY <1>1 DEF StayInv
<1>2. phase = "strategy" /\ today' = 1 /\ lodgings' = <<>>
    BY <1>1 DEF _optimize_single_city, StayInv, NothingYet
<1>3. PICK D : D = journey.duration
    OBVIOUS
<1>4. /\ PoiIndices \in Seq(PlaceIndices) /\ IsInjective(PoiIndices) /\ ToSet(PoiIndices) = PlaceIndices
      /\ D \in Nat \ {0}
    BY <1>3, PlacesListed DEF JourneyInv
<1>5. ACalendar(calendar', PlaceIndices) /\ DOMAIN calendar' = 1..D
    BY <1>1, <1>4, <1>3, SingleDays
<1>6. PICK st \in [1..2 -> Int] : st[1] = 1 /\ st[1 + 1] = D + 1
    <2> DEFINE su == [k \in 1..2 |-> IF k = 1 THEN 1 ELSE D + 1]
    <2>1. su \in [1..2 -> Int] /\ su[1] = 1 /\ su[1 + 1] = D + 1
        BY <1>4
    <2> QED BY <2>1
<1>7. 1..((D + 1) - 1) = 1..D
    BY <1>4
<1>8. PICK name : name = cities'[1].name
    OBVIOUS
<1>9. ASSUME Calm' PROVE Tiles(st)'
    <2>1. ASSUME NEW i \in PlaceIndices PROVE Poi(i)'.city = name
        BY <1>1, <1>4, <1>9, <1>8, <2>1 DEF Calm, Poi
    <2>2. ASSUME NEW d \in 1..D, NEW i \in ToSet(calendar'[d]) PROVE i \in PlaceIndices
        BY <1>5, <2>2 DEF ACalendar, ToSet
    <2>3. ASSUME NEW d \in 1..D PROVE \E i \in ToSet(calendar'[d]) : Poi(i)'.city = name
        <3>1. calendar'[d] \in Seq(PlaceIndices) /\ calendar'[d] # <<>>
            BY <1>5, <1>9, <2>3 DEF ACalendar, Calm
        <3>2. 1 \in DOMAIN calendar'[d]
            BY <3>1, EmptySeq
        <3>3. calendar'[d][1] \in ToSet(calendar'[d])
            BY <3>2 DEF ToSet
        <3> QED BY <2>1, <2>2, <2>3, <3>3
    <2>4. {d \in DOMAIN calendar' : \E i \in ToSet(calendar'[d]) : Poi(i)'.city = name} = 1..D
        BY <1>5, <2>3 DEF Poi
    <2>5. DaysPerCity(name)' = Max({1, Cardinality(1..D)})
        BY <2>4 DEF DaysPerCity, Poi
    <2>6. Cardinality(1..D) = D
        BY <1>4, FS_Interval
    <2>7. Max({1, D}) = D
        BY <1>4, AtLeastOne
    <2>8. DaysPerCity(name)' = D
        BY <2>5, <2>6, <2>7
    <2>9. ASSUME NEW k \in DOMAIN sequence'
          PROVE  /\ st[k + 1] = st[k] + DaysPerCity(sequence[k].name)'
                 /\ \A d \in st[k]..(st[k + 1] - 1) :
                       d \in DOMAIN calendar' /\ \A i \in ToSet(calendar'[d]) : Poi(i)'.city = sequence'[k].name
        <3>1. k = 1 /\ sequence'[k].name = name
            BY <1>1, <1>8
        <3>2. DaysPerCity(sequence[k].name)' = D
            <4>1. DaysPerCity(sequence[k].name)' = DaysPerCity(name)'
                BY <3>1 DEF DaysPerCity
            <4> QED BY <2>8, <4>1
        <3>3. st[k] = 1 /\ st[k + 1] = D + 1 /\ D + 1 = 1 + D
            BY <1>4, <1>6, <3>1
        <3>4. \A d \in 1..D : d \in DOMAIN calendar' /\ \A i \in ToSet(calendar'[d]) : Poi(i)'.city = name
            BY <1>5, <2>1, <2>2
        <3> QED BY <1>7, <3>1, <3>3, <3>4, <3>2
    <2> QED BY <1>6, <2>9 DEF Tiles, Poi
<1>10. Suffix(0)'
    <2>1. \A j \in 1..1 : 0 + j = j
        OBVIOUS
    <2> QED BY <1>1, <2>1 DEF Suffix
<1>11. Follows'
    <2>1. DOMAIN lodgings' = {}
        BY <1>2
    <2> QED BY <2>1 DEF Follows
<1>12. lodgings' \in Seq(ToSet(lodgings'))
    BY <1>2
<1>13. /\ 0 \in 0..Len(sequence') /\ st \in [1..(Len(sequence') + 1) -> Int] /\ today' = st[0 + 1]
    <2>1. Len(sequence') = 1 /\ 1 + 1 = 2 /\ 0 + 1 = 1 /\ 0 \in 0..1
        BY <1>1
    <2> QED BY <1>2, <1>6, <2>1
<1> QED BY <1>1, <1>9, <1>10, <1>11, <1>12, <1>13 DEF NightsFollow

\* A night more, in the block of the city that is next.
LEMMA NightFollows ==
    ASSUME JourneyInv, NightsFollow, plan_city_accommodation, Calm
    PROVE  /\ Follows'
           /\ \E p \in 0..Len(sequence) :
                 /\ Suffix(p)'
                 /\ \E st \in [1..(Len(sequence) + 1) -> Int] : Tiles(st) /\ today' = st[p + 1]
<1>1. /\ phase = "stays" /\ phase' = phase /\ to_fill # <<>> /\ to_fill' = Tail(to_fill)
      /\ UNCHANGED <<full, journey, cities, regions, remaining, sequence, shares, base, calendar>>
      /\ \/ DaysPerCity(Head(to_fill).name) <= 1
         \/ /\ lodgings' = Append(lodgings, [city |-> Head(to_fill).name, check_in |-> today,
                                             nights |-> DaysPerCity(Head(to_fill).name) - 1])
            /\ today' = today + DaysPerCity(Head(to_fill).name)
    BY NightStep
<1>2. PICK p \in 0..Len(sequence) :
         Suffix(p) /\ \E st \in [1..(Len(sequence) + 1) -> Int] : Tiles(st) /\ today = st[p + 1]
    BY DEF NightsFollow
<1>3. PICK st \in [1..(Len(sequence) + 1) -> Int] : Tiles(st) /\ today = st[p + 1]
    BY <1>2
<1>4. /\ sequence \in Seq(ToSet(sequence)) /\ to_fill \in Seq(ToSet(sequence))
      /\ lodgings \in Seq(ToSet(lodgings)) /\ Follows
    BY DEF NightsFollow
<1>5. Len(sequence) \in Nat /\ DOMAIN sequence = 1..Len(sequence)
    BY <1>4
<1>6. /\ Len(to_fill) \in Nat \ {0} /\ Head(to_fill) = to_fill[1] /\ Len(to_fill') = Len(to_fill) - 1
      /\ \A j \in 1..(Len(to_fill) - 1) : to_fill'[j] = to_fill[j + 1]
    BY <1>1, <1>4, EmptySeq
<1> DEFINE N == Len(sequence)   M == Len(to_fill)
<1>7. N \in Nat /\ M \in Nat \ {0} /\ M = N - p /\ p \in 0..N
    BY <1>2, <1>5, <1>6 DEF Suffix
<1>8. /\ p + 1 \in 0..N /\ p + 1 \in 1..N /\ p + 1 \in 1..(N + 1)
      /\ (p + 1) + 1 \in 1..(N + 1) /\ M - 1 = N - (p + 1)
    <2> HIDE DEF N, M
    <2> QED BY <1>7
<1>9. Head(to_fill) = sequence[p + 1]
    <2>1. 1 \in 1..M
        <3> HIDE DEF M
        <3> QED BY <1>7
    <2> QED BY <1>2, <1>6, <2>1 DEF Suffix
<1>10. Suffix(p + 1)'
    <2>1. ASSUME NEW j \in 1..(M - 1) PROVE to_fill'[j] = sequence[(p + 1) + j]
        <3>1. j + 1 \in 1..M /\ p + (j + 1) = (p + 1) + j
            <4> HIDE DEF M
            <4> QED BY <1>7, <2>1
        <3>2. to_fill[j + 1] = sequence[p + (j + 1)]
            BY <1>2, <3>1 DEF Suffix
        <3> QED BY <1>6, <2>1, <3>1, <3>2
    <2> QED BY <1>1, <1>6, <1>8, <2>1 DEF Suffix
<1> DEFINE name == sequence[p + 1].name
           n == DaysPerCity(name)
<1>11. /\ st[p + 1] \in Int /\ st[(p + 1) + 1] \in Int /\ st[(p + 1) + 1] = st[p + 1] + n
       /\ \A d \in st[p + 1]..(st[(p + 1) + 1] - 1) :
             d \in DOMAIN calendar /\ \A i \in ToSet(calendar[d]) : Poi(i).city = name
    BY <1>3, <1>5, <1>8 DEF Tiles
<1>12. n >= 2
    BY <1>5, <1>8 DEF Calm
<1>13. n \in Int
    <2>1. IsFiniteSet(DOMAIN calendar)
        BY DEF JourneyInv, ACalendar
    <2>2. n \in Nat \ {0}
        BY <2>1, CityDays
    <2> QED BY <2>2
<1>14. PICK x : /\ lodgings' = Append(lodgings, x) /\ x.city = name /\ x.check_in = today /\ x.nights = n - 1
                /\ today' = today + n
    <2>1. ~(n <= 1)
        BY <1>12, <1>13
    <2> DEFINE x == [city |-> Head(to_fill).name, check_in |-> today, nights |-> n - 1]
    <2>2. lodgings' = Append(lodgings, x) /\ today' = today + n
        BY <1>1, <1>9, <2>1
    <2>3. x.city = name /\ x.check_in = today /\ x.nights = n - 1
        BY <1>9
    <2> HIDE DEF x
    <2> QED BY <2>2, <2>3
<1>15. /\ lodgings' \in Seq(ToSet(lodgings) \cup {x}) /\ DOMAIN lodgings' = 1..(Len(lodgings) + 1)
       /\ Len(lodgings) \in Nat /\ DOMAIN lodgings = 1..Len(lodgings)
       /\ \A k \in 1..Len(lodgings) : lodgings'[k] = lodgings[k]
       /\ lodgings'[Len(lodgings) + 1] = x
    <2> DEFINE C == ToSet(lodgings) \cup {x}
    <2>1. lodgings \in Seq(C) /\ x \in C
        BY <1>4
    <2> HIDE DEF C
    <2>2. /\ Append(lodgings, x) \in Seq(C) /\ Len(Append(lodgings, x)) = Len(lodgings) + 1
          /\ \A k \in 1..Len(lodgings) : Append(lodgings, x)[k] = lodgings[k]
          /\ Append(lodgings, x)[Len(lodgings) + 1] = x
        BY <2>1, AppendAt
    <2> DEFINE more == Append(lodgings, x)
    <2> HIDE DEF more
    <2>3. more \in Seq(C) /\ Len(more) = Len(lodgings) + 1
        BY <2>2 DEF more
    <2>4. DOMAIN more = 1..(Len(lodgings) + 1)
        BY <2>3
    <2> QED BY <1>4, <1>14, <2>2, <2>3, <2>4 DEF C, more
<1>16. today = st[p + 1] /\ today' = st[(p + 1) + 1] /\ today + (n - 1) = st[(p + 1) + 1] - 1
    <2> DEFINE a == st[p + 1]   b == st[(p + 1) + 1]
    <2>1. a \in Int /\ b = a + n /\ today = a
        BY <1>3, <1>11
    <2> HIDE DEF a, b, n
    <2>2. today + (n - 1) = b - 1 /\ today' = b
        BY <1>13, <1>14, <2>1
    <2> QED BY <2>1, <2>2 DEF a, b
<1>17. Follows'
    <2>1. \A i : Poi(i)' = Poi(i)
        BY <1>1 DEF Poi
    <2>2. ASSUME NEW k \in DOMAIN lodgings',
                 NEW d \in lodgings'[k].check_in..(lodgings'[k].check_in + lodgings'[k].nights)
          PROVE  d \in DOMAIN calendar /\ \A i \in ToSet(calendar[d]) : Poi(i).city = lodgings'[k].city
        <3>1. CASE k \in 1..Len(lodgings)
            BY <1>4, <1>15, <2>2, <3>1 DEF Follows
        <3>2. CASE k = Len(lodgings) + 1
            <4>1. d \in st[p + 1]..(st[(p + 1) + 1] - 1)
                BY <1>14, <1>15, <1>16, <2>2, <3>2
            <4> QED BY <1>11, <1>14, <1>15, <3>2, <4>1
        <3> QED BY <1>15, <3>1, <3>2
    <2> QED BY <1>1, <2>1, <2>2 DEF Follows, Poi
<1> HIDE DEF N, M, n, name
<1> QED BY <1>3, <1>8, <1>10, <1>16, <1>17 DEF N

\* A night more leaves the next city's block next.
LEMMA StayNight == ASSUME JourneyInv, StayInv, plan_city_accommodation PROVE StayInv'
<1>1. /\ phase = "stays" /\ phase' = phase /\ to_fill # <<>> /\ to_fill' = Tail(to_fill)
      /\ UNCHANGED <<full, journey, cities, regions, remaining, sequence, shares, base, calendar>>
      /\ \/ lodgings' = lodgings
         \/ \E x : lodgings' = Append(lodgings, x)
    BY NightStep
<1> SUFFICES ASSUME ~full PROVE NightsFollow'
    BY <1>1 DEF StayInv
<1>2. NightsFollow
    BY <1>1 DEF StayInv
<1>3. (Calm' <=> Calm) /\ \A st : Tiles(st)' <=> Tiles(st)
    BY <1>1, CalmStays
<1>4. sequence' \in Seq(ToSet(sequence')) /\ to_fill' \in Seq(ToSet(sequence'))
    BY <1>1, <1>2 DEF NightsFollow
<1>5. lodgings' \in Seq(ToSet(lodgings'))
    <2>1. CASE lodgings' = lodgings
        BY <1>2, <2>1 DEF NightsFollow
    <2>2. ASSUME NEW x, lodgings' = Append(lodgings, x) PROVE lodgings' \in Seq(ToSet(lodgings'))
        <3> DEFINE C == ToSet(lodgings) \cup {x}   more == Append(lodgings, x)
        <3>1. lodgings \in Seq(C) /\ x \in C
            BY <1>2 DEF NightsFollow
        <3> HIDE DEF C
        <3>2. more \in Seq(C)
            BY <3>1, AppendAt
        <3> HIDE DEF more
        <3>3. more \in Seq(ToSet(more))
            BY <3>2 DEF ToSet
        <3> QED BY <2>2, <3>3 DEF more
    <2> QED BY <1>1, <2>1, <2>2
<1>6. ASSUME Calm'
      PROVE  /\ Follows'
             /\ \E p \in 0..Len(sequence') :
                   Suffix(p)' /\ \E st \in [1..(Len(sequence') + 1) -> Int] : Tiles(st)' /\ today' = st[p + 1]
    <2>1. /\ Follows'
          /\ \E p \in 0..Len(sequence) :
                Suffix(p)' /\ \E st \in [1..(Len(sequence) + 1) -> Int] : Tiles(st) /\ today' = st[p + 1]
        BY <1>2, <1>3, <1>6, NightFollows
    <2> QED BY <1>1, <1>3, <2>1
<1> QED BY <1>4, <1>5, <1>6 DEF NightsFollow

\* What is answered is what was planned.
LEMMA StayAnswer == ASSUME JourneyInv, StayInv, AnswerJourney PROVE StayInv'
<1>1. /\ phase = "stays" /\ phase' = "done"
      /\ UNCHANGED <<full, journey, cities, sequence, calendar, lodgings>>
    BY DEF AnswerJourney
<1>2. (Calm' <=> Calm) /\ (Follows' <=> Follows)
    BY <1>1, CalmStays DEF Follows, Poi
<1> QED BY <1>1, <1>2 DEF StayInv, NightsFollow

\* A step of nobody changes nothing.
LEMMA StayRests == ASSUME StayInv, UNCHANGED journeyVars PROVE StayInv'
<1>1. UNCHANGED <<phase, full, journey, cities, regions, remaining, sequence, shares, to_fill, base,
                  today, calendar, lodgings>>
    BY DEF journeyVars
<1>2. (Calm' <=> Calm) /\ (Follows' <=> Follows) /\ \A st : Tiles(st)' <=> Tiles(st)
    BY <1>1, CalmStays DEF Follows, Poi
<1>3. \A p : Suffix(p)' <=> Suffix(p)
    BY <1>1 DEF Suffix
<1>4. NightsFollow => NightsFollow'
    BY <1>1, <1>2, <1>3 DEF NightsFollow
<1>5. DaysBlocked => DaysBlocked'
    <2>1. \A k : Share(k)' = Share(k)
        BY <1>1 DEF Share
    <2>2. \A st, p : InBlocks(calendar, st, p)' <=> InBlocks(calendar, st, p)
        BY <1>1 DEF InBlocks
    <2>3. \A st, p : Blocks(calendar, today, st, p)' <=> Blocks(calendar, today, st, p)
        BY <1>1, <2>1, <2>2 DEF Blocks
    <2> QED BY <1>1, <1>3, <2>1, <2>3 DEF DaysBlocked, Route
<1> QED BY <1>1, <1>2, <1>4, <1>5 DEF StayInv

\* No step takes the nights away from the days.
LEMMA StayKeeps == ASSUME JourneyInv, StayInv, [JourneyNext]_journeyVars PROVE StayInv'
BY StayCluster, StaySingle, StayStrategy, StayStart, StayNearest, StayDistribute, StayFill, StayEnd, StayNight,
   StayAnswer, StayRests DEF JourneyNext

\* What the invariant says of the nights at the end.
LEMMA StaysPlanned == ASSUME StayInv PROVE StaysFollowCalendar
<1>1. phase = "done" /\ ~full /\ Calm => Follows
    BY DEF StayInv
<1> QED BY <1>1 DEF StaysFollowCalendar, Calm, Follows

\* In every journey of the simple optimizer whose cities all have two days with
\* places or more, and none without, the nights are where the days are: from the
\* check-in to the check-out every day of the calendar is the city's.
THEOREM StaysFollow == JourneySpec => []StaysFollowCalendar
<1>1. JourneyInit => JourneyInv /\ StayInv
    BY JourneyInitial, StayInitial
<1>2. JourneyInv /\ StayInv /\ [JourneyNext]_journeyVars => JourneyInv' /\ StayInv'
    BY JourneyKeeps, StayKeeps
<1>3. StayInv => StaysFollowCalendar
    BY StaysPlanned
<1> QED BY <1>1, <1>2, <1>3, PTL DEF JourneySpec
=============================================================================
