----------------------------- MODULE StoresProofs -----------------------------
(***************************************************************************)
(* Theorems about the stores that outlive a request, one part each:        *)
(* ChileRouter (double-checked locking reads a graph once, torn files have *)
(* a cause), ODMatrix (what the keys guarantee of a matrix, and how old it *)
(* can be), RoutingCache (entries are paid for by misses, the eviction     *)
(* suffices) and PlacesCache (answers from other searches' entries fit).   *)
(* They hold for any modes, threads, tours, callers, places and limits.    *)
(***************************************************************************)
EXTENDS ChileRouter, ODMatrix, RoutingCache, PlacesCache, RecursionLemmas,
        SequenceTheorems, FiniteSetTheorems, TLAPS

-----------------------------------------------------------------------------
(* ChileRouter *)

USE NobodyAssumption

\* Where a thread is while it holds the lock of its mode.
Critical == {"check again", "unpickle", "flag", "delete", "delete any", "unflag"}
Underway == Critical \cup {"check", "read", "lock", "clear lock", "clear any lock"}

ThreadStates ==
    {Resting} \cup [at : Underway, mode : GraphModes]
              \cup [at : {"done"}, mode : GraphModes, found : BOOLEAN]

RouterTypeOK ==
    /\ thread \in [Threads -> ThreadStates]
    /\ lock \in [GraphModes -> Threads \cup {Nobody}]
    /\ memory \subseteq GraphModes
    /\ loaded \subseteq GraphModes

\* Who is in a critical section holds the lock of its mode, and the other way round.
LockHeld ==
    /\ \A t \in Threads : thread[t].at \in Critical => lock[thread[t].mode] = t
    /\ \A m \in GraphModes :
           lock[m] # Nobody => thread[lock[m]].at \in Critical /\ thread[lock[m]].mode = m

\* The two sets are changed in two steps each; what holds of a mode between them.
Between ==
    /\ \A t \in Threads :
          /\ thread[t].at = "unpickle" => /\ thread[t].mode \notin memory
                                          /\ thread[t].mode \notin loaded
          /\ thread[t].at = "flag" => thread[t].mode \in memory
          /\ thread[t].at = "unflag" => thread[t].mode \notin memory
    /\ \A m \in GraphModes :
          (lock[m] = Nobody \/ thread[lock[m]].at \in {"check again", "delete", "delete any"})
             => (m \in loaded <=> m \in memory)

RouterInv == RouterTypeOK /\ LockHeld /\ Between

-----------------------------------------------------------------------------
LEMMA InitRouter == GraphInit => RouterInv
<1> SUFFICES ASSUME GraphInit PROVE RouterInv
    OBVIOUS
<1>1. \A t \in Threads : thread[t] = Resting /\ thread[t].at = "rest"
    BY DEF GraphInit, Resting
<1>2. RouterTypeOK
    BY DEF GraphInit, RouterTypeOK, ThreadStates
<1>3. LockHeld /\ Between
    BY <1>1 DEF GraphInit, LockHeld, Between, Critical
<1> QED BY <1>2, <1>3 DEF RouterInv

\* A thread that is under way has a mode.
LEMMA HasMode ==
    ASSUME RouterTypeOK, NEW t \in Threads, thread[t].at \notin {"rest", "done"}
    PROVE  /\ thread[t] \in [at : Underway, mode : GraphModes]
           /\ thread[t].mode \in GraphModes
BY DEF RouterTypeOK, ThreadStates, Resting

\* What At makes of a thread that is under way.
LEMMA AtPlace ==
    ASSUME NEW x \in [at : Underway, mode : GraphModes], NEW p
    PROVE  [x EXCEPT !.at = p] = [at |-> p, mode |-> x.mode]
OBVIOUS

\* Locks and critical sections, one seen from the other.
LEMMA Holders ==
    ASSUME RouterInv
    PROVE  /\ \A t \in Threads : thread[t].at \in Critical =>
                  thread[t].mode \in GraphModes /\ lock[thread[t].mode] = t
           /\ \A m \in GraphModes : lock[m] # Nobody =>
                  /\ lock[m] \in Threads
                  /\ thread[lock[m]].at \in Critical
                  /\ thread[lock[m]].mode = m
<1>1. ASSUME NEW t \in Threads, thread[t].at \in Critical
      PROVE  thread[t].mode \in GraphModes
    <2>1. thread[t].at \notin {"rest", "done"}
        BY <1>1 DEF Critical
    <2> QED BY <2>1, HasMode DEF RouterInv
<1> QED BY <1>1 DEF RouterInv, RouterTypeOK, LockHeld

\* A thread that goes on outside the critical sections.
LEMMA OutsideKeeps ==
    ASSUME RouterInv, NEW t \in Threads, thread[t].at \notin Critical,
           NEW x \in ThreadStates, x.at \notin Critical,
           thread' = [thread EXCEPT ![t] = x], UNCHANGED <<memory, loaded, lock>>
    PROVE  RouterInv'
<1>1. RouterTypeOK'
    BY DEF RouterInv, RouterTypeOK
<1>2. \A u \in Threads : u # t => thread'[u] = thread[u]
    BY DEF RouterInv, RouterTypeOK
<1>3. thread'[t].at \notin Critical
    BY DEF RouterInv, RouterTypeOK
<1>4. \A m \in GraphModes : lock[m] # Nobody => thread'[lock[m]] = thread[lock[m]]
    BY <1>2, Holders
<1>5. LockHeld'
    BY <1>2, <1>3, <1>4 DEF RouterInv, LockHeld
<1>6. Between'
    <2>1. ASSUME NEW u \in Threads
          PROVE  /\ thread'[u].at = "unpickle" => /\ thread'[u].mode \notin memory
                                                  /\ thread'[u].mode \notin loaded
                 /\ thread'[u].at = "flag" => thread'[u].mode \in memory
                 /\ thread'[u].at = "unflag" => thread'[u].mode \notin memory
        BY <1>2, <1>3 DEF RouterInv, Between, Critical
    <2>2. ASSUME NEW m \in GraphModes,
                 \/ lock[m] = Nobody
                 \/ thread'[lock[m]].at \in {"check again", "delete", "delete any"}
          PROVE  m \in loaded <=> m \in memory
        BY <1>4, <2>2 DEF RouterInv, Between
    <2> QED BY <2>1, <2>2 DEF Between
<1> QED BY <1>1, <1>5, <1>6 DEF RouterInv

\* A thread in its critical section that stays there or gives the lock back, and
\* leaves its mode as the place it goes to requires.
LEMMA InsideKeeps ==
    ASSUME RouterInv, NEW t \in Threads, NEW m \in GraphModes,
           lock[m] = t, thread[t].at \in Critical, thread[t].mode = m,
           NEW x \in ThreadStates, thread' = [thread EXCEPT ![t] = x],
           \/ x.at \in Critical /\ x.mode = m /\ lock' = lock
           \/ x.at \notin Critical /\ lock' = [lock EXCEPT ![m] = Nobody],
           memory' \in {memory, memory \cup {m}, memory \ {m}},
           loaded' \in {loaded, loaded \cup {m}, loaded \ {m}},
           x.at = "unpickle" => m \notin memory' /\ m \notin loaded',
           x.at = "flag" => m \in memory',
           x.at = "unflag" => m \notin memory',
           x.at \notin {"unpickle", "flag", "unflag"} => (m \in loaded' <=> m \in memory')
    PROVE  RouterInv'
<1>1. RouterTypeOK'
    BY DEF RouterInv, RouterTypeOK
<1>2. /\ thread'[t] = x
      /\ \A u \in Threads : u # t => thread'[u] = thread[u]
    BY DEF RouterInv, RouterTypeOK
<1>3. \A n \in GraphModes : n # m => /\ lock'[n] = lock[n]
                                     /\ n \in memory' <=> n \in memory
                                     /\ n \in loaded' <=> n \in loaded
    BY DEF RouterInv, RouterTypeOK
<1>4. \A u \in Threads : u # t /\ thread[u].at \in Critical =>
          thread[u].mode # m /\ thread[u].mode \in GraphModes
    BY HasMode DEF RouterInv, LockHeld, Critical
<1>5. \A n \in GraphModes : n # m /\ lock[n] # Nobody => lock[n] # t /\ lock[n] \in Threads
    BY DEF RouterInv, RouterTypeOK, LockHeld
<1>6. lock'[m] \in {t, Nobody} /\ (lock'[m] = t <=> x.at \in Critical)
    BY DEF RouterInv, RouterTypeOK
<1>7. LockHeld'
    <2>1. ASSUME NEW u \in Threads, thread'[u].at \in Critical
          PROVE  lock'[thread'[u].mode] = u
        BY <1>2, <1>3, <1>4, <1>6, <2>1 DEF RouterInv, LockHeld
    <2>2. ASSUME NEW n \in GraphModes, lock'[n] # Nobody
          PROVE  thread'[lock'[n]].at \in Critical /\ thread'[lock'[n]].mode = n
        BY <1>2, <1>3, <1>5, <1>6, <2>2 DEF RouterInv, LockHeld
    <2> QED BY <2>1, <2>2 DEF LockHeld
<1>8. Between'
    <2>1. ASSUME NEW u \in Threads
          PROVE  /\ thread'[u].at = "unpickle" => /\ thread'[u].mode \notin memory'
                                                  /\ thread'[u].mode \notin loaded'
                 /\ thread'[u].at = "flag" => thread'[u].mode \in memory'
                 /\ thread'[u].at = "unflag" => thread'[u].mode \notin memory'
        <3>1. CASE u = t
            BY <1>2, <3>1 DEF Critical
        <3>2. CASE u # t
            BY <1>2, <1>3, <1>4, <3>2 DEF RouterInv, Between, Critical
        <3> QED BY <3>1, <3>2
    <2>2. ASSUME NEW n \in GraphModes,
                 \/ lock'[n] = Nobody
                 \/ thread'[lock'[n]].at \in {"check again", "delete", "delete any"}
          PROVE  n \in loaded' <=> n \in memory'
        <3>1. CASE n = m
            <4>1. x.at \notin {"unpickle", "flag", "unflag"}
                <5>1. CASE lock'[m] = Nobody
                    BY <1>6, <5>1 DEF Critical
                <5>2. CASE lock'[m] = t /\ t # Nobody
                    BY <1>2, <2>2, <3>1, <5>2
                <5> QED BY <1>6, <5>1, <5>2
            <4> QED BY <3>1, <4>1
        <3>2. CASE n # m
            BY <1>2, <1>3, <1>5, <2>2, <3>2 DEF RouterInv, Between
        <3> QED BY <3>1, <3>2
    <2> QED BY <2>1, <2>2 DEF Between
<1> QED BY <1>1, <1>7, <1>8 DEF RouterInv

\* The lock is taken from nobody, so nobody is inside.
LEMMA AcquireKeeps ==
    ASSUME RouterInv, NEW t \in Threads, Acquire(t)
    PROVE  RouterInv'
<1>0. thread[t].mode \in GraphModes /\ thread[t] \in [at : Underway, mode : GraphModes]
    BY HasMode DEF Acquire, RouterInv
<1> PICK m \in GraphModes : m = thread[t].mode
    BY <1>0
<1>1. thread[t].at \notin Critical
    BY DEF Acquire, Critical
<1>2. PICK p \in {"check again", "delete", "delete any"} :
          thread' = [thread EXCEPT ![t] = [at |-> p, mode |-> m]]
    <2>1. PICK p \in {"check again", "delete", "delete any"} :
              thread' = [thread EXCEPT ![t] = [thread[t] EXCEPT !.at = p]]
        BY DEF Acquire, At, SetThread
    <2>2. [thread[t] EXCEPT !.at = p] = [at |-> p, mode |-> m]
        BY <1>0, AtPlace
    <2> QED BY <2>1, <2>2
<1>3. /\ thread'[t] = [at |-> p, mode |-> m] /\ p \in Critical
      /\ \A u \in Threads : u # t => thread'[u] = thread[u]
    BY <1>2 DEF RouterInv, RouterTypeOK, Critical
<1>arrived. /\ thread'[t].mode = m /\ thread'[t].at \in Critical
      /\ thread'[t].at \notin {"unpickle", "flag", "unflag"}
    BY <1>2 DEF RouterInv, RouterTypeOK, Critical
<1>4. /\ lock[m] = Nobody /\ lock'[m] = t
      /\ \A n \in GraphModes : n # m => lock'[n] = lock[n]
      /\ memory' = memory /\ loaded' = loaded
    BY <1>1 DEF RouterInv, RouterTypeOK, Acquire
<1>5. RouterTypeOK'
    <2>1. [at |-> p, mode |-> m] \in ThreadStates
        BY <1>1, <1>3 DEF ThreadStates, Underway
    <2>2. thread' \in [Threads -> ThreadStates]
        BY <1>2, <2>1 DEF RouterInv, RouterTypeOK
    <2>3. lock' \in [GraphModes -> Threads \cup {Nobody}]
        BY DEF Acquire, RouterInv, RouterTypeOK
    <2> QED BY <1>4, <2>2, <2>3 DEF RouterInv, RouterTypeOK
<1>6. ASSUME NEW u \in Threads, thread[u].at \in Critical, thread[u].mode = m
      PROVE  FALSE
    <2>1. lock[m] = u
        BY <1>6, Holders
    <2>2. lock[m] = Nobody
        BY <1>4
    <2> QED BY <2>1, <2>2
<1>7. ASSUME NEW n \in GraphModes, n # m
      PROVE  /\ lock'[n] = lock[n]
             /\ lock[n] # Nobody => thread'[lock[n]] = thread[lock[n]]
    <2>1. lock'[n] = lock[n]
        BY <1>4, <1>7
    <2>2. lock[n] # Nobody => lock[n] \in Threads /\ lock[n] # t
        BY <1>1, Holders
    <2> QED BY <1>3, <2>1, <2>2
<1>8. LockHeld'
    <2>1. ASSUME NEW u \in Threads, thread'[u].at \in Critical
          PROVE  lock'[thread'[u].mode] = u
        <3>1. CASE u = t
            <4>1. thread'[u].mode = m
                BY <1>arrived, <3>1
            <4>2. lock'[m] = t
                BY <1>4
            <4> QED BY <3>1, <4>1, <4>2
        <3>2. CASE u # t
            <4>1. thread'[u] = thread[u]
                BY <1>3, <3>2
            <4>2. /\ lock[thread[u].mode] = u
                  /\ thread[u].mode \in GraphModes /\ thread[u].mode # m
                BY <1>6, <2>1, <4>1, Holders
            <4> QED BY <1>7, <4>1, <4>2
        <3> QED BY <3>1, <3>2
    <2>2. ASSUME NEW n \in GraphModes, lock'[n] # Nobody
          PROVE  thread'[lock'[n]].at \in Critical /\ thread'[lock'[n]].mode = n
        <3>1. CASE n = m
            <4>1. lock'[n] = t
                BY <1>4, <3>1
            <4> QED BY <1>arrived, <3>1, <4>1
        <3>2. CASE n # m
            BY <1>7, <2>2, <3>2, Holders
        <3> QED BY <3>1, <3>2
    <2> QED BY <2>1, <2>2 DEF LockHeld
<1>9. Between'
    <2>0. memory' = memory /\ loaded' = loaded
        BY <1>4
    <2>1. ASSUME NEW u \in Threads
          PROVE  /\ thread'[u].at = "unpickle" => /\ thread'[u].mode \notin memory
                                                  /\ thread'[u].mode \notin loaded
                 /\ thread'[u].at = "flag" => thread'[u].mode \in memory
                 /\ thread'[u].at = "unflag" => thread'[u].mode \notin memory
        <3>1. CASE u = t
            BY <1>arrived, <3>1
        <3>2. CASE u # t
            BY <1>3, <3>2 DEF RouterInv, Between
        <3> QED BY <3>1, <3>2
    <2>2. ASSUME NEW n \in GraphModes,
                 \/ lock'[n] = Nobody
                 \/ thread'[lock'[n]].at \in {"check again", "delete", "delete any"}
          PROVE  n \in loaded <=> n \in memory
        <3>1. CASE n = m
            <4>1. lock[n] = Nobody
                BY <1>4, <3>1
            <4> QED BY <4>1 DEF RouterInv, Between
        <3>2. CASE n # m
            BY <1>7, <2>2, <3>2 DEF RouterInv, Between
        <3> QED BY <3>1, <3>2
    <2> QED BY <2>0, <2>1, <2>2 DEF Between
<1> QED BY <1>5, <1>8, <1>9 DEF RouterInv

-----------------------------------------------------------------------------
\* A call that a thread at rest begins stays outside the critical sections.
LEMMA CallKeeps ==
    ASSUME RouterInv, NEW t \in Threads, NEW m \in GraphModes,
           \/ get_route(t, m) \/ preload_cache(t, m) \/ clear_memory_cache(t, m)
           \/ clear_memory_caches(t, m) \/ optimize_memory(t, m)
    PROVE  RouterInv'
<1>1. /\ thread[t].at \notin Critical /\ UNCHANGED <<memory, loaded, lock>>
      /\ \E p \in {"check", "clear lock", "clear any lock"} :
             thread' = [thread EXCEPT ![t] = [at |-> p, mode |-> m]]
    BY DEF get_route, preload_cache, clear_memory_cache, clear_memory_caches, optimize_memory,
           SetThread, Critical
<1>2. PICK p \in {"check", "clear lock", "clear any lock"} :
          thread' = [thread EXCEPT ![t] = [at |-> p, mode |-> m]]
    BY <1>1
<1>3. [at |-> p, mode |-> m] \in ThreadStates /\ p \notin Critical
    BY DEF ThreadStates, Underway, Critical
<1> QED BY <1>1, <1>2, <1>3, OutsideKeeps

\* One step of a call under way.
LEMMA ProceedKeeps ==
    ASSUME RouterInv, NEW t \in Threads, Proceed(t)
    PROVE  RouterInv'
<1>0. thread[t].mode \in GraphModes /\ thread[t] \in [at : Underway, mode : GraphModes]
    <2>1. thread[t].at \notin {"rest", "done"}
        BY DEF Proceed, FastCheck, FastRead, Acquire, SecondCheck, Unpickle, SetLoaded, Delete,
               Unflag
    <2> QED BY <2>1, HasMode DEF RouterInv
<1> PICK m \in GraphModes : m = thread[t].mode
    BY <1>0
<1> DEFINE Going(p) == [at |-> p, mode |-> m]
           Finished(b) == [at |-> "done", mode |-> m, found |-> b]
<1>1. \A p : [thread[t] EXCEPT !.at = p] = Going(p)
    BY <1>0, AtPlace
<1>2. /\ \A p \in Underway : Going(p) \in ThreadStates
      /\ \A b \in BOOLEAN : Finished(b) \in ThreadStates
      /\ Resting \in ThreadStates
    BY <1>1 DEF ThreadStates
<1>3. /\ \A b \in BOOLEAN : Finished(b).at \notin Critical
      /\ Resting.at \notin Critical
    BY DEF Critical, Resting
<1>4. thread[t].at \in Critical => lock[m] = t
    BY DEF RouterInv, LockHeld
<1>5. thread[t].at \in {"check again", "delete", "delete any"} => (m \in loaded <=> m \in memory)
    BY <1>1, <1>4 DEF RouterInv, Between, Critical
<1>6. CASE FastCheck(t)
    <2>1. PICK p \in {"read", "lock"} : thread' = [thread EXCEPT ![t] = Going(p)]
        BY <1>1, <1>6 DEF FastCheck, At, SetThread
    <2>2. Going(p) \in ThreadStates /\ Going(p).at \notin Critical
        BY <1>2 DEF Critical, Underway
    <2>3. thread[t].at \notin Critical /\ UNCHANGED <<memory, loaded, lock>>
        BY <1>6 DEF FastCheck, Critical
    <2> QED BY <2>1, <2>2, <2>3, OutsideKeeps
<1>7. CASE FastRead(t)
    <2>1. /\ thread' = [thread EXCEPT ![t] = Finished(m \in memory)]
          /\ thread[t].at \notin Critical /\ UNCHANGED <<memory, loaded, lock>>
        BY <1>7 DEF FastRead, Return, SetThread, Critical
    <2>2. (m \in memory) \in BOOLEAN
        OBVIOUS
    <2>3. Finished(m \in memory) \in ThreadStates /\ Finished(m \in memory).at \notin Critical
        BY <1>2, <1>3, <2>2, Zenon
    <2> QED BY <2>1, <2>3, OutsideKeeps, Zenon
<1>8. CASE Acquire(t)
    BY <1>8, AcquireKeeps
<1>9. CASE SecondCheck(t)
    <2>1. /\ thread[t].at = "check again" /\ UNCHANGED <<memory, loaded>>
          /\ thread[t].at \in Critical
        BY <1>9 DEF SecondCheck, Critical
    <2>2. \/ /\ \/ thread' = [thread EXCEPT ![t] = Finished(m \in memory)]
                \/ thread' = [thread EXCEPT ![t] = Finished(FALSE)]
             /\ lock' = [lock EXCEPT ![m] = Nobody]
          \/ /\ thread' = [thread EXCEPT ![t] = Going("unpickle")]
             /\ lock' = lock /\ m \notin loaded
        BY <1>1, <1>9, Zenon DEF SecondCheck, Return, Release, At, SetThread
    <2>3. ASSUME NEW b \in BOOLEAN, thread' = [thread EXCEPT ![t] = Finished(b)],
                 lock' = [lock EXCEPT ![m] = Nobody]
          PROVE  RouterInv'
        BY <1>1, <1>2, <1>3, <1>4, <1>5, <2>1, <2>3, InsideKeeps
    <2>4. CASE /\ thread' = [thread EXCEPT ![t] = Going("unpickle")]
               /\ lock' = lock /\ m \notin loaded
        BY <1>1, <1>2, <1>4, <1>5, <2>1, <2>4, InsideKeeps DEF Critical, Underway
    <2>5. (m \in memory) \in BOOLEAN /\ FALSE \in BOOLEAN
        OBVIOUS
    <2> QED BY <2>2, <2>3, <2>4, <2>5, Zenon
<1>10. CASE Unpickle(t)
    <2>1. thread[t].at = "unpickle" /\ loaded' = loaded /\ m \notin loaded /\ m \notin memory
        BY <1>10 DEF Unpickle, RouterInv, Between
    <2>2. CASE thread' = [thread EXCEPT ![t] = Going("flag")] /\ lock' = lock
               /\ memory' = memory \cup {m}
        BY <1>1, <1>2, <1>4, <2>1, <2>2, InsideKeeps DEF Critical, Underway
    <2>3. CASE thread' = [thread EXCEPT ![t] = Finished(FALSE)] /\ memory' = memory
               /\ lock' = [lock EXCEPT ![m] = Nobody]
        BY <1>1, <1>2, <1>3, <1>4, <2>1, <2>3, InsideKeeps DEF Critical
    <2> QED BY <1>1, <1>10, <2>2, <2>3 DEF Unpickle, Return, Release, At, SetThread
<1>11. CASE SetLoaded(t)
    <2>1. /\ thread[t].at = "flag" /\ memory' = memory /\ m \in memory
          /\ loaded' = loaded \cup {m}
          /\ thread' = [thread EXCEPT ![t] = Finished(TRUE)]
          /\ lock' = [lock EXCEPT ![m] = Nobody]
        BY <1>11 DEF SetLoaded, Return, Release, SetThread, RouterInv, Between
    <2> QED BY <1>1, <1>2, <1>3, <1>4, <2>1, InsideKeeps DEF Critical
<1>12. CASE Delete(t)
    <2>1. /\ thread[t].at \in {"delete", "delete any"}
          /\ loaded' = loaded /\ memory' = memory \ {m}
        BY <1>12 DEF Delete
    <2>2. CASE thread' = [thread EXCEPT ![t] = Going("unflag")] /\ lock' = lock
        BY <1>1, <1>2, <1>4, <2>1, <2>2, InsideKeeps DEF Critical, Underway
    <2>3. CASE thread' = [thread EXCEPT ![t] = Resting] /\ m \notin memory
               /\ lock' = [lock EXCEPT ![m] = Nobody]
        BY <1>1, <1>2, <1>3, <1>4, <1>5, <2>1, <2>3, InsideKeeps DEF Critical, Resting
    <2> QED BY <1>1, <1>12, <2>2, <2>3 DEF Delete, Release, At, SetThread
<1>13. CASE Unflag(t)
    <2>1. /\ thread[t].at = "unflag" /\ memory' = memory /\ m \notin memory
          /\ loaded' = loaded \ {m}
          /\ thread' = [thread EXCEPT ![t] = Resting]
          /\ lock' = [lock EXCEPT ![m] = Nobody]
        BY <1>13 DEF Unflag, Release, SetThread, RouterInv, Between
    <2> QED BY <1>1, <1>2, <1>3, <1>4, <2>1, InsideKeeps DEF Critical, Resting
<1> QED BY <1>6, <1>7, <1>8, <1>9, <1>10, <1>11, <1>12, <1>13 DEF Proceed

\* Downloads leave the router alone.
LEMMA StepRouter == RouterInv /\ [GraphNext]_graphVars => RouterInv'
<1> SUFFICES ASSUME RouterInv, [GraphNext]_graphVars PROVE RouterInv'
    OBVIOUS
<1>1. CASE Router
    BY <1>1, ProceedKeeps, CallKeeps DEF Router
<1>2. CASE (\E d \in Downloaders : DownloadOf(d)) \/ UNCHANGED graphVars
    BY <1>2 DEF DownloadOf, graphVars, routerVars, RouterInv, RouterTypeOK, LockHeld, Between
<1> QED BY <1>1, <1>2 DEF GraphNext

\* No interleaving of loads, clears and fast checks reads a graph twice, and
\* outside the locks the flag tells whether there is a graph.
THEOREM ReadOnce == GraphSpec => []GraphReadOnce
<1>1. RouterInv => GraphReadOnce
    BY DEF RouterInv, Between, GraphReadOnce
<1> QED BY <1>1, InitRouter, StepRouter, PTL DEF GraphSpec

-----------------------------------------------------------------------------
(* The files *)

Contents == {"absent", "torn", "whole"}

Busy == [at : {"fetching", "filling", "fetched", "writing"}, manager : Managers, mode : GraphModes,
         linked : BOOLEAN, overtaken : BOOLEAN, source : {"in memory", "shared", "cut"}]

Jobs ==
    {NoJob} \cup [at : {"reported"}, manager : Managers, mode : GraphModes, ok : BOOLEAN] \cup Busy

\* TornOnlyIfLeft needs nothing but the types to be inductive.
DiskInv ==
    /\ file \in [GraphModes -> Contents]
    /\ job \in [Downloaders -> Jobs]
    /\ TornOnlyIfLeft

\* A download that is the last to have opened the file of mode n.
Opened(j, n) == j.at = "writing" /\ j.mode = n /\ j.linked /\ ~j.overtaken

\* What takes that from it.
Disturbing == {"file cut", "file gone"}

LEMMA TornMeans ==
    TornOnlyIfLeft <=>
        \A n \in GraphModes : file[n] = "torn" => n \in left \/ \E e \in Downloaders : Opened(job[e], n)
BY DEF TornOnlyIfLeft, LastToOpen, Opened

LEMMA InitDisk == GraphInit => DiskInv
    BY DEF GraphInit, DiskInv, TornOnlyIfLeft, Jobs, Contents

\* A downloader that is at work.
LEMMA AtWork ==
    ASSUME DiskInv, NEW d \in Downloaders,
           job[d].at \in {"fetching", "filling", "fetched", "writing"}
    PROVE  /\ job[d] \in Busy /\ job[d].mode \in GraphModes
           /\ \A ok \in BOOLEAN : Reported(d, ok) \in Jobs
<1>1. job[d] \in Busy
    BY DEF DiskInv, Jobs, NoJob
<1> QED BY <1>1 DEF Busy, Jobs, Reported

\* What happens to the .gz, or to another file, is no matter to the last to open one.
LEMMA MeetsKeeps ==
    ASSUME NEW j \in Jobs, NEW m \in GraphModes, NEW events
    PROVE  /\ Meets(j, m, events) \in Jobs
           /\ \A n \in GraphModes :
                  Opened(j, n) /\ (n # m \/ events \cap Disturbing = {}) => Opened(Meets(j, m, events), n)
<1>1. CASE j.at = "filling" /\ j.mode = m
    <2>1. j \in Busy
        BY <1>1 DEF Jobs, NoJob
    <2>2. Meets(j, m, events) = [j EXCEPT !.linked = @ /\ "zip gone" \notin events,
                                          !.overtaken = @ \/ "zip cut" \in events]
        BY <1>1 DEF Meets
    <2>3. Meets(j, m, events) \in Busy
        BY <2>1, <2>2 DEF Busy
    <2> QED BY <1>1, <2>3 DEF Jobs, Opened
<1>2. CASE j.at = "writing" /\ j.mode = m
    <2>1. j \in Busy
        BY <1>2 DEF Jobs, NoJob
    <2> DEFINE source == IF j.source = "shared" /\ "zip gone" \in events THEN "in memory"
                         ELSE IF j.source = "shared" /\ "zip cut" \in events THEN "cut"
                         ELSE j.source
    <2>2. Meets(j, m, events) = [j EXCEPT !.linked = @ /\ "file gone" \notin events,
                                          !.overtaken = @ \/ "file cut" \in events,
                                          !.source = source]
        BY <1>2 DEF Meets
    <2>3. source \in {"in memory", "shared", "cut"}
        BY <2>1 DEF Busy
    <2> HIDE DEF source
    <2>4. Meets(j, m, events) \in Busy
        BY <2>1, <2>2, <2>3 DEF Busy
    <2>5. ASSUME events \cap Disturbing = {}, j.linked, ~j.overtaken
          PROVE  Meets(j, m, events).linked /\ ~Meets(j, m, events).overtaken
        <3>1. "file gone" \notin events /\ "file cut" \notin events
            BY <2>5 DEF Disturbing
        <3> QED BY <2>1, <2>2, <2>5, <3>1 DEF Busy
    <2>6. Meets(j, m, events).at = "writing" /\ Meets(j, m, events).mode = m
        BY <1>2, <2>1, <2>2 DEF Busy
    <2> QED BY <1>2, <2>4, <2>5, <2>6 DEF Jobs, Opened
<1>3. CASE ~(j.at = "filling" /\ j.mode = m) /\ ~(j.at = "writing" /\ j.mode = m)
    <2>1. Meets(j, m, events) = j
        BY <1>3 DEF Meets
    <2> QED BY <2>1
<1> QED BY <1>1, <1>2, <1>3

\* One download moves on, and the file of its mode with it.
LEMMA OneMoves ==
    ASSUME DiskInv, NEW d \in Downloaders, NEW m \in GraphModes, NEW x \in Jobs,
           NEW f \in Contents, NEW events,
           \/ job' = [job EXCEPT ![d] = x] /\ events = {}
           \/ Move(d, x, m, events),
           file' = [file EXCEPT ![m] = f],
           job[d].at = "writing" => job[d].mode = m,
           \A n \in GraphModes : n # m /\ n \in left /\ file[n] = "torn" => n \in left',
           f = "torn" => \/ m \in left'
                         \/ Opened(x, m)
                         \/ /\ events \cap Disturbing = {}
                            /\ \E e \in Downloaders \ {d} : Opened(job[e], m)
    PROVE  DiskInv'
<1>1. /\ job'[d] = x /\ DOMAIN job' = Downloaders /\ job' = [e \in Downloaders |-> job'[e]]
      /\ \A e \in Downloaders \ {d} : \/ job'[e] = job[e] /\ events = {}
                                     \/ job'[e] = Meets(job[e], m, events)
    <2>1. CASE job' = [job EXCEPT ![d] = x] /\ events = {}
        BY <2>1 DEF DiskInv
    <2>2. CASE Move(d, x, m, events)
        BY <2>2 DEF Move
    <2> QED BY <2>1, <2>2
<1>2. ASSUME NEW e \in Downloaders \ {d}
      PROVE  /\ job'[e] \in Jobs
             /\ \A n \in GraphModes :
                    Opened(job[e], n) /\ (n # m \/ events \cap Disturbing = {}) => Opened(job'[e], n)
    <2>1. job[e] \in Jobs
        BY DEF DiskInv
    <2> QED BY <1>1, <2>1, MeetsKeeps
<1>3. file' \in [GraphModes -> Contents] /\ job' \in [Downloaders -> Jobs]
    BY <1>1, <1>2 DEF DiskInv
<1>4. ASSUME NEW n \in GraphModes, file'[n] = "torn", n \notin left'
      PROVE  \E e \in Downloaders : Opened(job'[e], n)
    <2>1. CASE n = m
        <3>1. f = "torn"
            BY <1>4, <2>1 DEF DiskInv
        <3> QED BY <1>1, <1>2, <1>4, <2>1, <3>1
    <2>2. CASE n # m
        <3>1. file[n] = "torn" /\ n \notin left
            BY <1>4, <2>2 DEF DiskInv
        <3>2. PICK e \in Downloaders : Opened(job[e], n)
            BY <3>1, TornMeans DEF DiskInv
        <3>3. e # d
            BY <2>2, <3>2 DEF Opened
        <3> QED BY <1>2, <2>2, <3>2, <3>3
    <2> QED BY <2>1, <2>2
<1>5. TornOnlyIfLeft'
    BY <1>4 DEF TornOnlyIfLeft, LastToOpen, Opened
<1> QED BY <1>3, <1>5 DEF DiskInv

\* It moves on, and no other notices.
LEMMA AloneMoves ==
    ASSUME DiskInv, NEW d \in Downloaders, NEW m \in GraphModes, NEW x \in Jobs,
           NEW f \in Contents,
           job' = [job EXCEPT ![d] = x], file' = [file EXCEPT ![m] = f],
           job[d].at = "writing" => job[d].mode = m,
           \A n \in GraphModes : n # m /\ n \in left /\ file[n] = "torn" => n \in left',
           f = "torn" => m \in left' \/ \E e \in Downloaders \ {d} : Opened(job[e], m)
    PROVE  DiskInv'
<1> DEFINE events == {}
<1>1. events \cap Disturbing = {} /\ events = {}
    OBVIOUS
<1> HIDE DEF events
<1> QED BY <1>1, OneMoves

\* Whoever stops leaves the file to the others that write it, or is noted.
LEMMA StopNoted ==
    ASSUME DiskInv, NEW d \in Downloaders
    PROVE  /\ left \subseteq LeftBy(d)
           /\ \A m \in GraphModes : file[m] = "torn" =>
                  m \in LeftBy(d) \/ \E e \in Downloaders \ {d} : Opened(job[e], m)
<1>1. ASSUME NEW m \in GraphModes, Opened(job[d], m)
      PROVE  m \in LeftBy(d)
    BY <1>1 DEF Opened, LastToOpen, LeftBy
<1> QED BY <1>1, TornMeans DEF DiskInv, LeftBy

LEMMA GiveUpKeeps ==
    ASSUME DiskInv, NEW d \in Downloaders,
           job[d].at \in {"fetching", "filling", "fetched", "writing"},
           NEW x \in Jobs, job' = [job EXCEPT ![d] = x], left' = LeftBy(d), file' = file
    PROVE  DiskInv'
<1>1. PICK m \in GraphModes : m = job[d].mode
    BY AtWork
<1>2. file' = [file EXCEPT ![m] = file[m]] /\ file[m] \in Contents
    BY DEF DiskInv
<1>3. \A n \in GraphModes : n # m /\ n \in left /\ file[n] = "torn" => n \in left'
    BY StopNoted
<1>4. file[m] = "torn" => m \in left' \/ \E e \in Downloaders \ {d} : Opened(job[e], m)
    BY StopNoted
<1>5. job[d].at = "writing" => job[d].mode = m
    BY <1>1
<1> QED BY <1>2, <1>3, <1>4, <1>5, AloneMoves

LEMMA CleanUpKeeps ==
    ASSUME DiskInv, NEW d \in Downloaders, CleanUp(d),
           job[d].at \in {"fetching", "filling", "fetched", "writing"}
    PROVE  DiskInv'
<1>1. PICK m \in GraphModes : m = job[d].mode
    BY AtWork
<1>2. PICK gone \in SUBSET {"file gone", "zip gone"} :
          /\ file' = IF "file gone" \in gone THEN [file EXCEPT ![m] = "absent"] ELSE file
          /\ left' = IF "file gone" \in gone THEN left \ {m} ELSE LeftBy(d)
          /\ Move(d, Reported(d, FALSE), m, gone)
    BY <1>1 DEF CleanUp
<1>3. Reported(d, FALSE) \in Jobs
    BY AtWork
<1>4. CASE "file gone" \in gone
    <2>1. /\ file' = [file EXCEPT ![m] = "absent"] /\ "absent" \in Contents
          /\ \A n \in GraphModes : n # m /\ n \in left => n \in left'
        BY <1>2, <1>4 DEF Contents
    <2> QED BY <1>1, <1>2, <1>3, <2>1, OneMoves
<1>5. CASE "file gone" \notin gone
    <2>1. gone \cap Disturbing = {}
        BY <1>2, <1>5 DEF Disturbing
    <2>2. file' = [file EXCEPT ![m] = file[m]] /\ file[m] \in Contents /\ left' = LeftBy(d)
        BY <1>2, <1>5 DEF DiskInv
    <2> QED BY <1>1, <1>2, <1>3, <2>1, <2>2, StopNoted, OneMoves
<1> QED BY <1>4, <1>5

\* The file stays as it is, and its last writer too.
LEMMA ZipMoves ==
    ASSUME DiskInv, NEW d \in Downloaders, job[d].at \in {"fetching", "filling", "fetched"},
           NEW x \in Jobs, NEW events, events \cap Disturbing = {},
           \/ job' = [job EXCEPT ![d] = x] /\ events = {}
           \/ Move(d, x, job[d].mode, events),
           UNCHANGED <<file, left>>
    PROVE  DiskInv'
<1>1. PICK m \in GraphModes : m = job[d].mode
    BY AtWork
<1>2. file' = [file EXCEPT ![m] = file[m]] /\ file[m] \in Contents
    BY DEF DiskInv
<1>3. file[m] = "torn" => m \in left' \/ \E e \in Downloaders \ {d} : Opened(job[e], m)
    BY TornMeans DEF DiskInv, Opened
<1> QED BY <1>1, <1>2, <1>3, OneMoves

LEMMA OpenLocalKeeps ==
    ASSUME DiskInv, NEW d \in Downloaders, OpenLocal(d)
    PROVE  DiskInv'
<1>1. PICK m \in GraphModes : m = job[d].mode
    BY AtWork DEF OpenLocal
<1>2. PICK source \in {"in memory", "shared", "cut"} :
          Move(d, [Start(job[d].manager, m) EXCEPT !.at = "writing", !.source = source], m, {"file cut"})
    BY <1>1 DEF OpenLocal
<1> DEFINE x == [Start(job[d].manager, m) EXCEPT !.at = "writing", !.source = source]
<1>3. job[d].manager \in Managers
    BY AtWork DEF OpenLocal, Busy
<1>4. x \in Busy /\ Opened(x, m)
    BY <1>3 DEF Start, Busy, Opened
<1>5. Move(d, x, m, {"file cut"})
    BY <1>2
<1> HIDE DEF x
<1>6. /\ file' = [file EXCEPT ![m] = "torn"] /\ "torn" \in Contents
      /\ \A n \in GraphModes : n # m /\ n \in left => n \in left'
    BY <1>1 DEF OpenLocal, Contents
<1>7. x \in Jobs
    BY <1>4 DEF Jobs
<1> QED BY <1>1, <1>4, <1>5, <1>6, <1>7, OneMoves

\* An overtaken writer leaves a torn file to the last to open it.
LEMMA WriteEndsKeeps ==
    ASSUME DiskInv, NEW d \in Downloaders, WriteEnds(d)
    PROVE  DiskInv'
<1>1. PICK m \in GraphModes : m = job[d].mode
    BY AtWork DEF WriteEnds
<1>2. /\ job' = [job EXCEPT ![d] = Reported(d, TRUE)] /\ Reported(d, TRUE) \in Jobs
      /\ job[d].at = "writing"
      /\ left' = {n \in left : file'[n] # "whole"}
    BY AtWork DEF WriteEnds
<1>3. PICK f \in Contents :
          /\ file' = [file EXCEPT ![m] = f]
          /\ f = "torn" => file[m] = "torn" /\ ~Opened(job[d], m)
    <2>1. CASE job[d].linked
        <3>1. PICK f \in Written(d, file[m]) : file' = [file EXCEPT ![m] = f]
            BY <1>1, <2>1 DEF WriteEnds
        <3>2. f = "whole" \/ (f = file[m] /\ job[d].overtaken)
            BY <3>1 DEF Written
        <3> QED BY <3>1, <3>2 DEF DiskInv, Contents, Opened
    <2>2. CASE ~job[d].linked
        <3>1. file' = [file EXCEPT ![m] = file[m]] /\ file[m] \in Contents
            BY <2>2 DEF WriteEnds, DiskInv
        <3> QED BY <2>2, <3>1 DEF Opened
    <2> QED BY <2>1, <2>2
<1>4. \A n \in GraphModes : n # m /\ n \in left /\ file[n] = "torn" => n \in left'
    BY <1>2, <1>3 DEF DiskInv
<1>5. f = "torn" => m \in left' \/ \E e \in Downloaders \ {d} : Opened(job[e], m)
    <2> SUFFICES ASSUME f = "torn", m \notin left'
                 PROVE  \E e \in Downloaders \ {d} : Opened(job[e], m)
        OBVIOUS
    <2>1. m \notin left
        BY <1>2, <1>3 DEF DiskInv
    <2> QED BY <1>3, <2>1, TornMeans DEF DiskInv
<1> QED BY <1>1, <1>2, <1>3, <1>4, <1>5, AloneMoves

LEMMA RequestKeeps ==
    ASSUME DiskInv, NEW d \in Downloaders, NEW s \in Managers, NEW m \in GraphModes,
           NEW force \in BOOLEAN, download_graph(d, s, m, force)
    PROVE  DiskInv'
<1>1. PICK x \in Jobs : job' = [job EXCEPT ![d] = x]
    BY DEF download_graph, Start, Jobs, Busy
<1>2. file' = [file EXCEPT ![m] = file[m]] /\ file[m] \in Contents /\ left' = left
      /\ job[d].at # "writing"
    BY DEF download_graph, DiskInv
<1>3. file[m] = "torn" => m \in left' \/ \E e \in Downloaders \ {d} : Opened(job[e], m)
    BY <1>2, TornMeans DEF DiskInv, Opened
<1> QED BY <1>1, <1>2, <1>3, AloneMoves

\* Every step of a download.
LEMMA DownloadKeeps ==
    ASSUME DiskInv, NEW d \in Downloaders, DownloadOf(d)
    PROVE  DiskInv'
<1>1. CASE FetchFails(d)
    <2>1. CASE GiveUp(d)
        BY <1>1, <2>1, AtWork, GiveUpKeeps DEF FetchFails, GiveUp
    <2>2. CASE CleanUp(d)
        BY <1>1, <2>2, CleanUpKeeps DEF FetchFails
    <2> QED BY <1>1, <2>1, <2>2 DEF FetchFails
<1>2. CASE OpenZip(d)
    <2>1. [job[d] EXCEPT !.at = "filling"] \in Jobs
        BY <1>2, AtWork DEF OpenZip, Busy, Jobs
    <2>2. /\ Move(d, [job[d] EXCEPT !.at = "filling"], job[d].mode, {"zip cut"})
          /\ job[d].at = "fetching" /\ UNCHANGED <<file, left>>
        BY <1>2 DEF OpenZip
    <2>3. {"zip cut"} \cap Disturbing = {}
        BY DEF Disturbing
    <2> QED BY <2>1, <2>2, <2>3, ZipMoves
<1>3. CASE FillEnds(d)
    <2>1. job[d] \in Busy
        BY <1>3, AtWork DEF FillEnds
    <2>2. [Start(job[d].manager, job[d].mode) EXCEPT !.at = "fetched"] \in Jobs
        BY <2>1 DEF Start, Busy, Jobs
    <2> DEFINE x == [Start(job[d].manager, job[d].mode) EXCEPT !.at = "fetched"]
    <2>3. job' = [job EXCEPT ![d] = x] /\ job[d].at = "filling" /\ UNCHANGED <<file, left>>
        BY <1>3 DEF FillEnds
    <2>4. x \in Jobs
        BY <2>2
    <2> HIDE DEF x
    <2>5. {} \cap Disturbing = {}
        OBVIOUS
    <2> QED BY <2>3, <2>4, <2>5, ZipMoves
<1>4. CASE ReplaceZip(d)
    <2>1. [job[d] EXCEPT !.at = "fetched"] \in Jobs
        BY <1>4, AtWork DEF ReplaceZip, Busy, Jobs
    <2>2. /\ Move(d, [job[d] EXCEPT !.at = "fetched"], job[d].mode, {"zip gone"})
          /\ job[d].at = "fetching" /\ UNCHANGED <<file, left>>
        BY <1>4 DEF ReplaceZip
    <2>3. {"zip gone"} \cap Disturbing = {}
        BY DEF Disturbing
    <2> QED BY <2>1, <2>2, <2>3, ZipMoves
<1>5. CASE FillFails(d) \/ OpenFails(d)
    BY <1>5, CleanUpKeeps DEF FillFails, OpenFails
<1>6. CASE WriteNothing(d)
    BY <1>6, AtWork, GiveUpKeeps DEF WriteNothing
<1>7. CASE WriteFails(d)
    <2>1. CASE GiveUp(d)
        BY <1>7, <2>1, AtWork, GiveUpKeeps DEF WriteFails, GiveUp
    <2>2. CASE CleanUp(d)
        BY <1>7, <2>2, CleanUpKeeps DEF WriteFails
    <2> QED BY <1>7, <2>1, <2>2 DEF WriteFails
<1>8. CASE Dies(d)
    BY <1>8, GiveUpKeeps DEF Dies, Jobs
<1> QED BY <1>1, <1>2, <1>3, <1>4, <1>5, <1>6, <1>7, <1>8, RequestKeeps, OpenLocalKeeps,
           WriteEndsKeeps
        DEF DownloadOf

\* However downloads by any number of processes interleave, truncate, replace and
\* remove each other's files, whoever was the last to open a torn file is at work,
\* or has left it.
THEOREM TornFiles == GraphSpec => []TornOnlyIfLeft
<1>1. DiskInv /\ [GraphNext]_graphVars => DiskInv'
    <2> SUFFICES ASSUME DiskInv, [GraphNext]_graphVars PROVE DiskInv'
        OBVIOUS
    <2>1. CASE Router \/ UNCHANGED graphVars
        BY <2>1 DEF Router, graphVars, diskVars, DiskInv, TornOnlyIfLeft, LastToOpen
    <2> QED BY <2>1, DownloadKeeps DEF GraphNext
<1>2. DiskInv => TornOnlyIfLeft
    BY DEF DiskInv
<1> QED BY <1>1, <1>2, InitDisk, PTL DEF GraphSpec

HIDE NobodyAssumption

-----------------------------------------------------------------------------
(* ODMatrix *)

USE TTLAssumption

\* What holds of every cached matrix. Its rows are those of some tour, and the key
\* agrees with them; one in Redis is as old as its lifetime has run, one in the
\* memory was no older than a lifetime when it was put there.
RedisEntry(k, e) ==
    /\ e \in [rows : Tours, age : Nat, left : 1..TTL]
    /\ e.age + e.left = TTL
    /\ k[1] = ToSet(e.rows) /\ k[3] = Len(e.rows)

MemoryEntry(k, e) ==
    /\ e \in [rows : Tours, age : Nat, stamp : 0..TTL]
    /\ e.age < TTL + e.stamp
    /\ k = session_id(e.rows)

RedisInv == \A k \in DOMAIN redis : RedisEntry(k, redis[k])
MemoryInv == \A k \in DOMAIN od_matrix_cache : MemoryEntry(k, od_matrix_cache[k])

ODInv == RedisInv /\ MemoryInv /\ MatrixFits /\ MatrixAgeBounded

-----------------------------------------------------------------------------
(* Keys *)

\* Tours of the same places are tours of the same clusters.
LEMMA ClustersOfPlaces ==
    ASSUME NEW s, NEW t, ToSet(s) = ToSet(t)
    PROVE  Clusters(s) = Clusters(t)
<1>1. Clusters(s) = {p.cluster : p \in ToSet(s)}
    BY DEF Clusters, ToSet
<1>2. Clusters(t) = {p.cluster : p \in ToSet(t)}
    BY DEF Clusters, ToSet
<1> QED BY <1>1, <1>2

\* What the key of the memory says of the rows found under it.
LEMMA SameSession ==
    ASSUME NEW s, NEW t, session_id(s) = session_id(t)
    PROVE  Len(s) = Len(t) /\ Clusters(s) = Clusters(t)
BY DEF session_id

-----------------------------------------------------------------------------
(* The steps *)

LEMMA InitODInv == ODInit => ODInv
<1> SUFFICES ASSUME ODInit PROVE ODInv
    OBVIOUS
<1>1. DOMAIN redis = {} /\ DOMAIN od_matrix_cache = {}
    BY DEF ODInit
<1>2. MatrixFits /\ MatrixAgeBounded
    BY DEF ODInit, MatrixFits, MatrixAgeBounded
<1> QED BY <1>1, <1>2 DEF ODInv, RedisInv, MemoryInv

\* What is put into the memory agrees with its key, and is no older than a lifetime.
LEMMA StoredKeeps ==
    ASSUME MemoryInv, NEW t \in Tours, NEW m, Stored(t, m),
           m.rows \in Tours, m.age \in Nat, m.age < TTL,
           Len(m.rows) = Len(t), Clusters(m.rows) = Clusters(t)
    PROVE  MemoryInv'
<1> DEFINE e == [rows |-> m.rows, age |-> m.age, stamp |-> 0]
           k == session_id(t)
<1>1. MemoryEntry(k, e)
    BY DEF MemoryEntry, session_id
<1>2. od_matrix_cache' = With(od_matrix_cache, k, e)
    BY DEF Stored
<1> HIDE DEF e, k
<1> SUFFICES ASSUME NEW x \in DOMAIN od_matrix_cache'
             PROVE  MemoryEntry(x, od_matrix_cache'[x])
    BY DEF MemoryInv
<1>3. x \in DOMAIN od_matrix_cache \cup {k}
    BY <1>2 DEF With
<1>4. CASE x = k
    <2>1. od_matrix_cache'[x] = e
        BY <1>2, <1>4 DEF With
    <2> QED BY <1>1, <1>4, <2>1
<1>5. CASE x # k
    <2>1. x \in DOMAIN od_matrix_cache /\ od_matrix_cache'[x] = od_matrix_cache[x]
        BY <1>2, <1>3, <1>5 DEF With
    <2> QED BY <2>1 DEF MemoryInv
<1> QED BY <1>4, <1>5

\* Redis has a matrix of the same places, perhaps in another order.
LEMMA RedisHitKeeps ==
    ASSUME ODInv, NEW t \in Tours, RedisHit(t)
    PROVE  ODInv'
<1> DEFINE k == od_key(t)
<1>1. k \in DOMAIN redis /\ Served(t, redis[k], "redis") /\ Stored(t, redis[k]) /\ redis' = redis
    BY DEF RedisHit
<1>2. RedisEntry(k, redis[k])
    BY <1>1 DEF ODInv, RedisInv
<1>3. /\ redis[k].rows \in Tours /\ redis[k].age \in Nat /\ redis[k].age < TTL
      /\ ToSet(redis[k].rows) = ToSet(t) /\ Len(redis[k].rows) = Len(t)
    BY <1>2 DEF RedisEntry, od_key
<1>4. Clusters(redis[k].rows) = Clusters(t)
    BY <1>3, ClustersOfPlaces
<1> HIDE DEF k
<1>5. MemoryInv'
    BY <1>1, <1>3, <1>4, StoredKeeps DEF ODInv
<1>6. RedisInv'
    BY <1>1 DEF ODInv, RedisInv
<1>7. /\ served'.tour = t /\ served'.rows = redis[k].rows
      /\ served'.age = redis[k].age /\ served'.from = "redis"
    BY <1>1 DEF Served
<1>8. MatrixFits'
    BY <1>3, <1>7 DEF MatrixFits
<1>9. MatrixAgeBounded'
    BY <1>3, <1>7 DEF MatrixAgeBounded
<1> QED BY <1>5, <1>6, <1>8, <1>9 DEF ODInv

\* A matrix that has just been calculated.
LEMMA CalculatedKeeps ==
    ASSUME ODInv, NEW t \in Tours, NEW m \in _calculate_matrix_with_fallback(t),
           Served(t, m, "calculated"), Stored(t, m), RedisInv'
    PROVE  ODInv'
<1>1. m = [rows |-> t, age |-> 0]
    BY DEF _calculate_matrix_with_fallback
<1>2. m.rows = t /\ m.age = 0
    BY <1>1
<1>3. MemoryInv'
    BY <1>2, StoredKeeps DEF ODInv
<1>4. /\ served'.tour = t /\ served'.rows = t
      /\ served'.age = 0 /\ served'.from = "calculated"
    BY <1>2 DEF Served
<1>5. MatrixFits' /\ MatrixAgeBounded'
    BY <1>4 DEF MatrixFits, MatrixAgeBounded
<1> QED BY <1>3, <1>5 DEF ODInv

LEMMA RedisMissKeeps ==
    ASSUME ODInv, NEW t \in Tours, RedisMiss(t)
    PROVE  ODInv'
<1> DEFINE k == od_key(t)
           e == [rows |-> t, age |-> 0, left |-> TTL]
<1>1. RedisEntry(k, e)
    BY DEF RedisEntry, od_key
<1>2. PICK m \in _calculate_matrix_with_fallback(t) :
          /\ redis' = redis \/ redis' = With(redis, k, e)
          /\ Served(t, m, "calculated") /\ Stored(t, m)
    BY DEF RedisMiss
<1> HIDE DEF k, e
<1>3. RedisInv'
    <2> SUFFICES ASSUME NEW x \in DOMAIN redis' PROVE RedisEntry(x, redis'[x])
        BY DEF RedisInv
    <2>1. CASE redis' = redis
        BY <2>1 DEF ODInv, RedisInv
    <2>2. CASE redis' = With(redis, k, e)
        <3>1. x \in DOMAIN redis \cup {k}
            BY <2>2 DEF With
        <3>2. CASE x = k
            <4>1. redis'[x] = e
                BY <2>2, <3>2 DEF With
            <4> QED BY <1>1, <3>2, <4>1
        <3>3. CASE x # k
            <4>1. x \in DOMAIN redis /\ redis'[x] = redis[x]
                BY <2>2, <3>1, <3>3 DEF With
            <4> QED BY <4>1 DEF ODInv, RedisInv
        <3> QED BY <3>2, <3>3
    <2> QED BY <1>2, <2>1, <2>2
<1> QED BY <1>2, <1>3, CalculatedKeeps

\* The memory has a matrix of the same number of places in the same clusters.
LEMMA MemoryHitKeeps ==
    ASSUME ODInv, NEW t \in Tours, MemoryHit(t)
    PROVE  ODInv'
<1> DEFINE k == session_id(t)
<1>1. /\ k \in DOMAIN od_matrix_cache /\ od_matrix_cache[k].stamp < TTL
      /\ Served(t, od_matrix_cache[k], "memory")
      /\ redis' = redis /\ od_matrix_cache' = od_matrix_cache
    BY DEF MemoryHit, InMemory
<1>2. MemoryEntry(k, od_matrix_cache[k])
    BY <1>1 DEF ODInv, MemoryInv
<1>3. /\ Len(od_matrix_cache[k].rows) = Len(t)
      /\ Clusters(od_matrix_cache[k].rows) = Clusters(t)
    BY <1>2, SameSession DEF MemoryEntry
<1>4. /\ od_matrix_cache[k].age \in Nat /\ od_matrix_cache[k].age <= 2 * (TTL - 1)
    BY <1>1, <1>2 DEF MemoryEntry
<1> HIDE DEF k
<1>5. /\ served'.tour = t /\ served'.rows = od_matrix_cache[k].rows
      /\ served'.age = od_matrix_cache[k].age /\ served'.from = "memory"
    BY <1>1 DEF Served
<1>6. MatrixFits' /\ MatrixAgeBounded'
    BY <1>3, <1>4, <1>5 DEF MatrixFits, MatrixAgeBounded
<1> QED BY <1>1, <1>6 DEF ODInv, RedisInv, MemoryInv

LEMMA CalculateKeeps ==
    ASSUME ODInv, NEW t \in Tours, calculate_od_matrix_hybrid(t)
    PROVE  ODInv'
<1>1. CASE RedisHit(t)
    BY <1>1, RedisHitKeeps
<1>2. CASE RedisMiss(t)
    BY <1>2, RedisMissKeeps
<1>3. CASE MemoryHit(t)
    BY <1>3, MemoryHitKeeps
<1>4. CASE MemoryMiss(t)
    <2>1. RedisInv'
        BY <1>4 DEF MemoryMiss, ODInv, RedisInv
    <2> QED BY <1>4, <2>1, CalculatedKeeps DEF MemoryMiss
<1>5. CASE NoMatrix(t)
    <2>1. redis' = redis /\ od_matrix_cache' = od_matrix_cache
        BY <1>5 DEF NoMatrix
    <2>2. served'.from = "raised" /\ served'.age = 0
        BY <1>5 DEF NoMatrix
    <2>3. MatrixFits' /\ MatrixAgeBounded'
        BY <2>2 DEF MatrixFits, MatrixAgeBounded
    <2> QED BY <2>1, <2>3 DEF ODInv, RedisInv, MemoryInv
<1> QED BY <1>1, <1>2, <1>3, <1>4, <1>5 DEF calculate_od_matrix_hybrid

\* Time makes everything that stays older by one, within its lifetime.
LEMMA TickKeeps ==
    ASSUME ODInv, Tick
    PROVE  ODInv'
<1>1. RedisInv'
    <2> SUFFICES ASSUME NEW k \in DOMAIN redis' PROVE RedisEntry(k, redis'[k])
        BY DEF RedisInv
    <2>1. /\ k \in DOMAIN redis /\ redis[k].left > 1
          /\ redis'[k] = [redis[k] EXCEPT !.age = @ + 1, !.left = @ - 1]
        BY DEF Tick
    <2>2. RedisEntry(k, redis[k])
        BY <2>1 DEF ODInv, RedisInv
    <2>3. redis'[k] = [rows |-> redis[k].rows, age |-> redis[k].age + 1, left |-> redis[k].left - 1]
        BY <2>1, <2>2 DEF RedisEntry
    <2> QED BY <2>1, <2>2, <2>3 DEF RedisEntry
<1>2. MemoryInv'
    <2> SUFFICES ASSUME NEW k \in DOMAIN od_matrix_cache'
                 PROVE  MemoryEntry(k, od_matrix_cache'[k])
        BY DEF MemoryInv
    <2>1. k \in DOMAIN od_matrix_cache
        BY DEF Tick
    <2>2. MemoryEntry(k, od_matrix_cache[k])
        BY <2>1 DEF ODInv, MemoryInv
    <2>3. CASE od_matrix_cache[k].stamp = TTL
        <3>1. od_matrix_cache'[k] = od_matrix_cache[k]
            BY <2>1, <2>3 DEF Tick
        <3> QED BY <2>2, <3>1
    <2>4. CASE od_matrix_cache[k].stamp # TTL
        <3>1. od_matrix_cache'[k] = [od_matrix_cache[k] EXCEPT !.age = @ + 1, !.stamp = @ + 1]
            BY <2>1, <2>4 DEF Tick
        <3>2. od_matrix_cache'[k] = [rows |-> od_matrix_cache[k].rows,
                                     age |-> od_matrix_cache[k].age + 1,
                                     stamp |-> od_matrix_cache[k].stamp + 1]
            BY <2>2, <3>1 DEF MemoryEntry
        <3> QED BY <2>2, <2>4, <3>2 DEF MemoryEntry
    <2> QED BY <2>3, <2>4
<1>3. MatrixFits' /\ MatrixAgeBounded'
    BY DEF Tick, ODInv, MatrixFits, MatrixAgeBounded
<1> QED BY <1>1, <1>2, <1>3 DEF ODInv

LEMMA StepODInv == ODInv /\ [ODNext]_odVars => ODInv'
<1> SUFFICES ASSUME ODInv, [ODNext]_odVars PROVE ODInv'
    OBVIOUS
<1>1. CASE \E t \in Tours : calculate_od_matrix_hybrid(t)
    BY <1>1, CalculateKeeps
<1>2. ASSUME NEW c, invalidate_cluster_cache(c) PROVE ODInv'
    <2>1. PICK K : redis' = Without(redis, K)
        BY <1>2 DEF invalidate_cluster_cache
    <2>2. RedisInv'
        <3> SUFFICES ASSUME NEW k \in DOMAIN redis' PROVE RedisEntry(k, redis'[k])
            BY DEF RedisInv
        <3>1. k \in DOMAIN redis /\ redis'[k] = redis[k]
            BY <2>1 DEF Without, Restrict
        <3> QED BY <3>1 DEF ODInv, RedisInv
    <2>3. od_matrix_cache' = od_matrix_cache /\ served' = served
        BY <1>2 DEF invalidate_cluster_cache
    <2> QED BY <2>2, <2>3 DEF ODInv, MemoryInv, MatrixFits, MatrixAgeBounded
<1>3. CASE Tick
    BY <1>3, TickKeeps
<1>4. CASE Outage \/ UNCHANGED odVars
    BY <1>4 DEF Outage, odVars, ODInv, RedisInv, MemoryInv, MatrixFits, MatrixAgeBounded
<1> QED BY <1>1, <1>2, <1>3, <1>4 DEF ODNext

-----------------------------------------------------------------------------
\* The matrix of a tour has a row for each of its places, wherever it was found.
THEOREM Fits == ODSpec => []MatrixFits
<1>1. ODInv => MatrixFits
    BY DEF ODInv
<1> QED BY <1>1, InitODInv, StepODInv, PTL DEF ODSpec

\* No matrix that is returned is two lifetimes old.
THEOREM AgeBounded == ODSpec => []MatrixAgeBounded
<1>1. ODInv => MatrixAgeBounded
    BY DEF ODInv
<1> QED BY <1>1, InitODInv, StepODInv, PTL DEF ODSpec

HIDE TTLAssumption

-----------------------------------------------------------------------------
(* RoutingCache *)

USE RoutingAssumption

Entries == [key : Keys, stamp : {"none", "fresh", "old"}]
Lookups == {Idle} \cup [at : {"robust", "persistent"}, opt : Optimizers, key : Keys]
Snapshots == [state : {"whole"}, distances : Seq(Entries), misses : Nat]

RoutingTypeOK ==
    /\ distance_cache \in [Optimizers -> Seq(Entries)]
    /\ cache_misses \in [Optimizers -> Nat]
    /\ lookup \in [Callers -> Lookups]
    /\ disk \in {NoFile, TornFile} \cup Snapshots

\* The callers that wait for a route of an optimizer: their miss is counted, their
\* entry is not there yet.
Waiting(o) == {c \in Callers : /\ lookup[c].at \in {"robust", "persistent"}
                               /\ lookup[c].opt = o}

\* Without the persistent variant, what a new optimizer loads is within the limit too.
NobodyPersists ==
    ~persistent => /\ \A c \in Callers : lookup[c].at # "persistent"
                   /\ disk.state = "whole" => Len(disk.distances) <= Limit

RoutingInv == RoutingTypeOK /\ MissesCoverEntries /\ NobodyPersists /\ RobustPathLimited

\* Storing a route adds one entry at most.
LEMMA PutOne ==
    ASSUME NEW cache \in Seq(Entries), NEW k \in Keys, NEW stamp \in {"none", "fresh"}
    PROVE  /\ Put(cache, k, stamp) \in Seq(Entries)
           /\ Len(Put(cache, k, stamp)) <= Len(cache) + 1
<1> DEFINE x == [key |-> k, stamp |-> stamp]
<1>1. x \in Entries /\ Len(cache) \in Nat /\ DOMAIN cache = 1..Len(cache)
    BY DEF Entries
<1>2. CASE HasKey(cache, k)
    <2> DEFINE new == [i \in DOMAIN cache |-> IF cache[i].key = k THEN x ELSE cache[i]]
    <2>1. Put(cache, k, stamp) = new
        BY <1>2 DEF Put
    <2>2. \A i \in 1..Len(cache) : cache[i] \in Entries
        OBVIOUS
    <2>3. new \in Seq(Entries) /\ Len(new) = Len(cache)
        <3> HIDE DEF x
        <3> QED BY <1>1, <2>2
    <2> QED BY <1>1, <2>1, <2>3
<1>3. CASE ~HasKey(cache, k)
    <2>1. Put(cache, k, stamp) = Append(cache, x)
        BY <1>3 DEF Put
    <2> HIDE DEF x
    <2> QED BY <1>1, <2>1
<1> QED BY <1>2, <1>3

\* Evicting brings a cache that is one over the limit back under it.
LEMMA EvictBounds ==
    ASSUME NEW cache \in Seq(Entries)
    PROVE  /\ Evict(cache) \in Seq(Entries) /\ Len(Evict(cache)) <= Len(cache)
           /\ Len(cache) <= Limit + 1 => Len(Evict(cache)) <= Limit
<1>1. Len(cache) \in Nat /\ Limit \in Nat /\ EvictCount \in Nat
      /\ 1 <= EvictCount /\ EvictCount <= Limit
    OBVIOUS
<1>2. CASE Len(cache) > Limit
    <2> DEFINE rest == SubSeq(cache, EvictCount + 1, Len(cache))
    <2>1. rest \in Seq(Entries)
          /\ Len(rest) = Len(cache) - EvictCount
        BY <1>1, <1>2, SubSeqProperties
    <2>2. Evict(cache) = rest
        BY <1>2 DEF Evict
    <2> QED BY <1>1, <2>1, <2>2
<1>3. CASE ~(Len(cache) > Limit)
    BY <1>1, <1>3 DEF Evict
<1> QED BY <1>2, <1>3

\* The clean-up keeps some of the entries.
LEMMA CleanupShrinks ==
    ASSUME NEW cache \in Seq(Entries)
    PROVE  /\ cleanup_old_cache_entries(cache) \in Seq(Entries)
           /\ Len(cleanup_old_cache_entries(cache)) <= Len(cache)
<1> DEFINE young == {x \in {cache[n] : n \in DOMAIN cache} : x.stamp # "old"}
<1>1. cleanup_old_cache_entries(cache) = Kept(cache, young)
    BY DEF cleanup_old_cache_entries
<1> HIDE DEF young
<1>2. Kept(cache, young) \in Seq(Entries) /\ Len(Kept(cache, young)) <= Len(cache)
    BY KeptShorter
<1> QED BY <1>1, <1>2

LEMMA WaitersCount == ASSUME NEW S, S \subseteq Callers PROVE IsFiniteSet(S) /\ Cardinality(S) \in Nat
BY FS_Subset, FS_CardinalityType

\* The files as a new optimizer may find them.
SoundFile(f) == /\ f \in {NoFile, TornFile} \cup Snapshots
                /\ f.state = "whole" => Len(f.distances) <= f.misses

LEMMA Loading ==
    ASSUME NEW f, SoundFile(f)
    PROVE  /\ load_persistent_cache(f).cache \in Seq(Entries)
           /\ load_persistent_cache(f).misses \in Nat
           /\ Len(load_persistent_cache(f).cache) <= load_persistent_cache(f).misses
           /\ (f.state = "whole" => Len(f.distances) <= Limit) =>
                  Len(load_persistent_cache(f).cache) <= Limit
<1>1. CASE f.state = "whole"
    <2>1. f \in Snapshots
        BY <1>1 DEF SoundFile, NoFile, TornFile
    <2>2. f.distances \in Seq(Entries) /\ f.misses \in Nat
        BY <2>1 DEF Snapshots
    <2>3. load_persistent_cache(f).cache = f.distances /\ load_persistent_cache(f).misses = f.misses
        BY <1>1 DEF load_persistent_cache
    <2> QED BY <1>1, <2>2, <2>3 DEF SoundFile
<1>2. CASE f.state # "whole"
    <2>1. load_persistent_cache(f).cache = <<>> /\ load_persistent_cache(f).misses = 0
        BY <1>2 DEF load_persistent_cache
    <2> QED BY <2>1
<1> QED BY <1>1, <1>2

\* What one optimizer has, by name.
Covered(o) == Len(distance_cache[o]) + Cardinality(Waiting(o)) <= cache_misses[o]

LEMMA CoveredDef ==
    /\ MissesCoverEntries <=> (\A o \in Optimizers : Covered(o))
                              /\ (disk.state = "whole" => Len(disk.distances) <= disk.misses)
    /\ MissesCoverEntries' <=> (\A o \in Optimizers : Covered(o)')
                               /\ (disk'.state = "whole" => Len(disk'.distances) <= disk'.misses)
BY DEF MissesCoverEntries, Covered, Waiting

LEMMA DiskSound == RoutingInv => SoundFile(disk)
BY DEF RoutingInv, RoutingTypeOK, MissesCoverEntries, SoundFile

LEMMA CacheTypes ==
    ASSUME RoutingInv, NEW o \in Optimizers
    PROVE  /\ distance_cache[o] \in Seq(Entries) /\ Len(distance_cache[o]) \in Nat
           /\ cache_misses[o] \in Nat /\ Cardinality(Waiting(o)) \in Nat
           /\ Len(distance_cache[o]) <= cache_misses[o]
           /\ ~persistent => Len(distance_cache[o]) <= Limit
<1>1. distance_cache[o] \in Seq(Entries) /\ cache_misses[o] \in Nat
    BY DEF RoutingInv, RoutingTypeOK
<1>2. Len(distance_cache[o]) \in Nat
    BY <1>1
<1>3. Cardinality(Waiting(o)) \in Nat
    BY WaitersCount DEF Waiting
<1>4. Covered(o)
    BY CoveredDef DEF RoutingInv
<1>5. Len(distance_cache[o]) <= cache_misses[o]
    BY <1>1, <1>2, <1>3, <1>4 DEF Covered
<1> QED BY <1>1, <1>2, <1>3, <1>5 DEF RoutingInv, RobustPathLimited

\* An optimizer saves a cache of its own: what is on disk stays sound.
LEMMA Saving ==
    ASSUME RoutingInv, NEW cache \in Seq(Entries), NEW misses \in Nat, Len(cache) <= misses,
           ~persistent => Len(cache) <= Limit,
           save_persistent_cache(cache, misses), persistent' = persistent
    PROVE  SoundFile(disk') /\ (~persistent' /\ disk'.state = "whole" => Len(disk'.distances) <= Limit)
<1> DEFINE x == [state |-> "whole", distances |-> cache, misses |-> misses]
<1>1. SoundFile(x) /\ x.distances = cache
    BY DEF SoundFile, Snapshots
<1>2. SoundFile(TornFile) /\ TornFile.state # "whole"
    BY DEF SoundFile, TornFile
<1>3. SoundFile(disk) /\ (~persistent /\ disk.state = "whole" => Len(disk.distances) <= Limit)
    BY DiskSound DEF RoutingInv, NobodyPersists
<1>4. disk' = disk \/ disk' = TornFile \/ disk' = x
    BY DEF save_persistent_cache
<1> HIDE DEF x
<1> QED BY <1>1, <1>2, <1>3, <1>4

\* Putting the parts together.
LEMMA Rebuild ==
    ASSUME /\ distance_cache' \in [Optimizers -> Seq(Entries)]
           /\ cache_misses' \in [Optimizers -> Nat]
           /\ lookup' \in [Callers -> Lookups]
           /\ \A o \in Optimizers : Covered(o)'
           /\ SoundFile(disk')
           /\ ~persistent' => /\ \A c \in Callers : lookup'[c].at # "persistent"
                              /\ \A o \in Optimizers : Len(distance_cache'[o]) <= Limit
                              /\ disk'.state = "whole" => Len(disk'.distances) <= Limit
    PROVE  RoutingInv'
<1>1. RoutingTypeOK'
    BY DEF RoutingTypeOK, SoundFile
<1>2. MissesCoverEntries'
    BY CoveredDef DEF SoundFile
<1>3. NobodyPersists' /\ RobustPathLimited'
    BY DEF NobodyPersists, RobustPathLimited
<1> QED BY <1>1, <1>2, <1>3 DEF RoutingInv

LEMMA InitRouting == RoutingInit => RoutingInv
<1> SUFFICES ASSUME RoutingInit PROVE RoutingInv
    OBVIOUS
<1>1. RoutingTypeOK
    <2>1. Idle \in Lookups /\ <<>> \in Seq(Entries)
        BY DEF Lookups
    <2> QED BY <2>1 DEF RoutingInit, RoutingTypeOK
<1>2. NobodyPersists /\ RobustPathLimited
    BY DEF RoutingInit, NobodyPersists, RobustPathLimited, Idle, NoFile
<1>3. \A o \in Optimizers : Covered(o)
    <2> SUFFICES ASSUME NEW o \in Optimizers PROVE Covered(o)
        OBVIOUS
    <2>1. Waiting(o) = {}
        BY DEF Waiting, RoutingInit, Idle
    <2>2. Cardinality(Waiting(o)) = 0
        BY <2>1, FS_EmptySet
    <2>3. Len(distance_cache[o]) = 0 /\ cache_misses[o] = 0
        BY DEF RoutingInit
    <2> QED BY <2>2, <2>3 DEF Covered
<1>4. disk.state # "whole"
    BY DEF RoutingInit, NoFile
<1> QED BY <1>1, <1>2, <1>3, <1>4, CoveredDef DEF RoutingInv

\* A miss is counted as its caller begins to wait.
LEMMA AskKeeps ==
    ASSUME RoutingInv, NEW c \in Callers, NEW o \in Optimizers, NEW k \in Keys,
           NEW at \in {"robust", "persistent"}, at = "persistent" => persistent,
           lookup[c] = Idle, Miss(o), Waits(c, o, k, at),
           UNCHANGED <<distance_cache, disk, persistent>>
    PROVE  RoutingInv'
<1> DEFINE x == [at |-> at, opt |-> o, key |-> k]
<1>1. x \in Lookups /\ x.at = at /\ x.opt = o
    BY DEF Lookups
<1>2. lookup' = [lookup EXCEPT ![c] = x]
    BY DEF Waits
<1> HIDE DEF x
<1>3. lookup \in [Callers -> Lookups] /\ cache_misses \in [Optimizers -> Nat]
    BY DEF RoutingInv, RoutingTypeOK
<1>4. lookup' \in [Callers -> Lookups] /\ cache_misses' \in [Optimizers -> Nat]
    BY <1>1, <1>2, <1>3 DEF Miss
<1>5. ASSUME NEW q \in Optimizers PROVE Covered(q)'
    <2>1. Covered(q) /\ cache_misses[q] \in Nat /\ Len(distance_cache[q]) \in Nat
          /\ Cardinality(Waiting(q)) \in Nat
        BY CoveredDef, CacheTypes DEF RoutingInv
    <2>2. CASE q = o
        <3>1. Waiting(q)' = Waiting(q) \cup {c} /\ c \notin Waiting(q)
            BY <1>1, <1>2, <1>3, <2>2 DEF Waiting, Idle
        <3>2. Cardinality(Waiting(q)') = Cardinality(Waiting(q)) + 1
            <4>1. IsFiniteSet(Waiting(q))
                BY WaitersCount DEF Waiting
            <4> QED BY <3>1, <4>1, FS_AddElement
        <3>3. cache_misses'[q] = cache_misses[q] + 1
            BY <1>3, <2>2 DEF Miss
        <3> QED BY <2>1, <3>2, <3>3 DEF Covered
    <2>3. CASE q # o
        <3>1. Waiting(q)' = Waiting(q)
            BY <1>1, <1>2, <1>3, <2>3 DEF Waiting, Idle
        <3>2. cache_misses'[q] = cache_misses[q]
            BY <1>3, <2>3 DEF Miss
        <3> QED BY <2>1, <3>1, <3>2 DEF Covered
    <2> QED BY <2>2, <2>3
<1>6. ~persistent' => \A d \in Callers : lookup'[d].at # "persistent"
    BY <1>1, <1>2, <1>3 DEF RoutingInv, NobodyPersists
<1>7. SoundFile(disk') /\ distance_cache' \in [Optimizers -> Seq(Entries)]
    BY DiskSound DEF RoutingInv, RoutingTypeOK
<1>8. ~persistent' => /\ \A q \in Optimizers : Len(distance_cache'[q]) <= Limit
                      /\ disk'.state = "whole" => Len(disk'.distances) <= Limit
    BY DEF RoutingInv, NobodyPersists, RobustPathLimited
<1> QED BY <1>4, <1>5, <1>6, <1>7, <1>8, Rebuild

\* The answer takes its caller from the waiting and adds one entry at most.
LEMMA AnswerKeeps ==
    ASSUME RoutingInv, NEW c \in Callers, lookup[c].at \in {"robust", "persistent"},
           NEW cache \in Seq(Entries), Len(cache) <= Len(distance_cache[lookup[c].opt]) + 1,
           ~persistent => Len(cache) <= Limit,
           Insert(lookup[c].opt, cache), Done(c),
           cache_misses' = cache_misses, persistent' = persistent,
           disk' = disk \/ save_persistent_cache(cache, cache_misses[lookup[c].opt])
    PROVE  RoutingInv'
<1>1. PICK o \in Optimizers : o = lookup[c].opt
    BY DEF RoutingInv, RoutingTypeOK, Lookups, Idle
<1>2. /\ lookup \in [Callers -> Lookups] /\ distance_cache \in [Optimizers -> Seq(Entries)]
      /\ cache_misses \in [Optimizers -> Nat]
    BY DEF RoutingInv, RoutingTypeOK
<1>3. lookup' = [lookup EXCEPT ![c] = Idle] /\ distance_cache' = [distance_cache EXCEPT ![o] = cache]
    BY <1>1 DEF Done, Insert
<1>4. lookup' \in [Callers -> Lookups] /\ distance_cache' \in [Optimizers -> Seq(Entries)]
    BY <1>2, <1>3 DEF Lookups
<1>5. /\ Waiting(o)' = Waiting(o) \ {c} /\ c \in Waiting(o)
      /\ \A q \in Optimizers \ {o} : Waiting(q)' = Waiting(q)
    BY <1>1, <1>2, <1>3 DEF Waiting, Idle
<1>6. Cardinality(Waiting(o)') = Cardinality(Waiting(o)) - 1
    <2>1. IsFiniteSet(Waiting(o))
        BY WaitersCount DEF Waiting
    <2> QED BY <1>5, <2>1, FS_RemoveElement
<1>7. /\ Covered(o) /\ cache_misses[o] \in Nat /\ Len(distance_cache[o]) \in Nat /\ Len(cache) \in Nat
      /\ Cardinality(Waiting(o)) \in Nat
    BY CoveredDef, CacheTypes DEF RoutingInv
<1>8. Cardinality(Waiting(o)') \in Nat
    BY WaitersCount DEF Waiting
<1>9. Len(cache) + Cardinality(Waiting(o)') <= cache_misses[o]
    BY <1>1, <1>6, <1>7 DEF Covered
<1>10. ASSUME NEW q \in Optimizers PROVE Covered(q)'
    <2>1. CASE q = o
        BY <1>2, <1>3, <1>9, <2>1 DEF Covered
    <2>2. CASE q # o
        <3>1. Covered(q)
            BY CoveredDef DEF RoutingInv
        <3>2. Waiting(q)' = Waiting(q) /\ distance_cache'[q] = distance_cache[q]
            BY <1>2, <1>3, <1>5, <2>2
        <3> QED BY <3>1, <3>2 DEF Covered
    <2> QED BY <2>1, <2>2
<1>11. SoundFile(disk') /\ (~persistent' /\ disk'.state = "whole" => Len(disk'.distances) <= Limit)
    <2>1. CASE disk' = disk
        BY <2>1, DiskSound DEF RoutingInv, NobodyPersists
    <2>2. CASE save_persistent_cache(cache, cache_misses[o])
        <3>1. Len(cache) <= cache_misses[o]
            BY <1>7, <1>8, <1>9
        <3> QED BY <1>7, <2>2, <3>1, Saving
    <2> QED BY <1>1, <2>1, <2>2
<1>12. ~persistent' => /\ \A d \in Callers : lookup'[d].at # "persistent"
                       /\ \A q \in Optimizers : Len(distance_cache'[q]) <= Limit
    BY <1>2, <1>3 DEF RoutingInv, NobodyPersists, RobustPathLimited, Idle
<1> QED BY <1>2, <1>4, <1>10, <1>11, <1>12, Rebuild

\* Steps that leave the callers alone and can only shorten the caches.
LEMMA ShorterKeeps ==
    ASSUME RoutingInv, lookup' = lookup, cache_misses' = cache_misses, persistent' = persistent,
           distance_cache' \in [Optimizers -> Seq(Entries)],
           \A o \in Optimizers : Len(distance_cache'[o]) <= Len(distance_cache[o]),
           SoundFile(disk'),
           ~persistent' /\ disk'.state = "whole" => Len(disk'.distances) <= Limit
    PROVE  RoutingInv'
<1>1. \A o \in Optimizers : Len(distance_cache'[o]) \in Nat /\ Len(distance_cache[o]) \in Nat
    BY CacheTypes
<1>2. ASSUME NEW o \in Optimizers PROVE Covered(o)'
    <2>1. Covered(o) /\ cache_misses[o] \in Nat /\ Cardinality(Waiting(o)) \in Nat
        BY CoveredDef, CacheTypes DEF RoutingInv
    <2>2. Waiting(o)' = Waiting(o)
        BY DEF Waiting
    <2> QED BY <1>1, <2>1, <2>2 DEF Covered
<1>3. ~persistent' => \A o \in Optimizers : Len(distance_cache'[o]) <= Limit
    BY <1>1 DEF RoutingInv, RobustPathLimited
<1>4. /\ lookup' \in [Callers -> Lookups] /\ cache_misses' \in [Optimizers -> Nat]
      /\ ~persistent' => \A c \in Callers : lookup'[c].at # "persistent"
    BY DEF RoutingInv, RoutingTypeOK, NobodyPersists
<1> QED BY <1>2, <1>3, <1>4, Rebuild

LEMMA NewOptimizerKeeps ==
    ASSUME RoutingInv, NEW o \in Optimizers, NewOptimizer(o) PROVE RoutingInv'
<1> DEFINE entries == load_persistent_cache(disk).cache
           misses == load_persistent_cache(disk).misses
<1>1. /\ entries \in Seq(Entries) /\ misses \in Nat /\ Len(entries) <= misses
      /\ ~persistent => Len(entries) <= Limit
    BY DiskSound, Loading DEF RoutingInv, NobodyPersists
<1>2. /\ distance_cache' = [distance_cache EXCEPT ![o] = entries]
      /\ cache_misses' = [cache_misses EXCEPT ![o] = misses]
      /\ UNCHANGED <<lookup, disk, persistent>>
      /\ \A c \in Callers : lookup[c] # Idle => lookup[c].opt # o
    BY DEF NewOptimizer
<1> HIDE DEF entries, misses
<1>3. /\ lookup \in [Callers -> Lookups] /\ distance_cache \in [Optimizers -> Seq(Entries)]
      /\ cache_misses \in [Optimizers -> Nat]
    BY DEF RoutingInv, RoutingTypeOK
<1>4. ASSUME NEW q \in Optimizers PROVE Covered(q)'
    <2>1. CASE q = o
        <3>1. Waiting(o)' = {}
            BY <1>2 DEF Waiting, Idle
        <3>2. Cardinality(Waiting(o)') = 0
            BY <3>1, FS_EmptySet
        <3>3. Len(entries) \in Nat
            BY <1>1
        <3> QED BY <1>1, <1>2, <1>3, <2>1, <3>2, <3>3 DEF Covered
    <2>2. CASE q # o
        <3>1. Covered(q)
            BY CoveredDef DEF RoutingInv
        <3>2. Waiting(q)' = Waiting(q) /\ distance_cache'[q] = distance_cache[q]
              /\ cache_misses'[q] = cache_misses[q]
            BY <1>2, <1>3, <2>2 DEF Waiting
        <3> QED BY <3>1, <3>2 DEF Covered
    <2> QED BY <2>1, <2>2
<1>5. distance_cache' \in [Optimizers -> Seq(Entries)] /\ cache_misses' \in [Optimizers -> Nat]
    BY <1>1, <1>2, <1>3
<1>6. ~persistent' => /\ \A c \in Callers : lookup'[c].at # "persistent"
                      /\ \A q \in Optimizers : Len(distance_cache'[q]) <= Limit
                      /\ disk'.state = "whole" => Len(disk'.distances) <= Limit
    BY <1>1, <1>2, <1>3 DEF RoutingInv, NobodyPersists, RobustPathLimited
<1> QED BY <1>2, <1>3, <1>4, <1>5, <1>6, DiskSound, Rebuild

LEMMA CrashKeeps == ASSUME RoutingInv, Crash PROVE RoutingInv'
<1> DEFINE entries == load_persistent_cache(disk').cache
           misses == load_persistent_cache(disk').misses
<1>1. SoundFile(disk') /\ (~persistent /\ disk'.state = "whole" => Len(disk'.distances) <= Limit)
    <2>1. SoundFile(TornFile) /\ TornFile.state # "whole"
        BY DEF SoundFile, TornFile
    <2> QED BY <2>1, DiskSound DEF RoutingInv, NobodyPersists, Crash
<1>2. /\ entries \in Seq(Entries) /\ misses \in Nat /\ Len(entries) <= misses
      /\ ~persistent => Len(entries) <= Limit
    BY <1>1, Loading
<1>3. /\ distance_cache' = [o \in Optimizers |-> entries]
      /\ cache_misses' = [o \in Optimizers |-> misses]
      /\ lookup' = [c \in Callers |-> Idle] /\ persistent' = persistent
    BY DEF Crash
<1> HIDE DEF entries, misses
<1>4. ASSUME NEW o \in Optimizers PROVE Covered(o)'
    <2>1. Waiting(o)' = {}
        BY <1>3 DEF Waiting, Idle
    <2>2. Cardinality(Waiting(o)') = 0
        BY <2>1, FS_EmptySet
    <2>3. Len(entries) \in Nat
        BY <1>2
    <2> QED BY <1>2, <1>3, <2>2, <2>3 DEF Covered
<1>5. /\ distance_cache' \in [Optimizers -> Seq(Entries)] /\ cache_misses' \in [Optimizers -> Nat]
      /\ lookup' \in [Callers -> Lookups]
    BY <1>2, <1>3 DEF Lookups
<1>6. ~persistent' => /\ \A c \in Callers : lookup'[c].at # "persistent"
                      /\ \A o \in Optimizers : Len(distance_cache'[o]) <= Limit
    BY <1>2, <1>3 DEF Idle
<1> QED BY <1>1, <1>3, <1>4, <1>5, <1>6, Rebuild

LEMMA FinalizeKeeps ==
    ASSUME RoutingInv, NEW o \in Optimizers, finalize_optimization(o) PROVE RoutingInv'
<1>1. /\ distance_cache[o] \in Seq(Entries) /\ cache_misses[o] \in Nat
      /\ Len(distance_cache[o]) <= cache_misses[o]
      /\ ~persistent => Len(distance_cache[o]) <= Limit
    BY CacheTypes
<1>2. SoundFile(disk') /\ (~persistent' /\ disk'.state = "whole" => Len(disk'.distances) <= Limit)
    BY <1>1, Saving DEF finalize_optimization
<1> DEFINE kept == cleanup_old_cache_entries(distance_cache[o])
<1>3. kept \in Seq(Entries) /\ Len(kept) <= Len(distance_cache[o])
    BY <1>1, CleanupShrinks
<1>4. distance_cache' = [distance_cache EXCEPT ![o] = kept]
      /\ UNCHANGED <<cache_misses, lookup, persistent>>
    BY DEF finalize_optimization
<1> HIDE DEF kept
<1>5. distance_cache \in [Optimizers -> Seq(Entries)]
    BY DEF RoutingInv, RoutingTypeOK
<1>6. /\ distance_cache' \in [Optimizers -> Seq(Entries)]
      /\ \A q \in Optimizers : Len(distance_cache'[q]) <= Len(distance_cache[q])
    BY <1>3, <1>4, <1>5, CacheTypes
<1> QED BY <1>2, <1>4, <1>6, ShorterKeeps

LEMMA GrowKeeps == ASSUME RoutingInv, NEW o \in Optimizers, Grow(o) PROVE RoutingInv'
<1>1. PICK i \in DOMAIN distance_cache[o] :
          distance_cache' = [distance_cache EXCEPT ![o][i].stamp = "old"]
    BY DEF Grow
<1> DEFINE s == distance_cache[o]
           x == [s[i] EXCEPT !.stamp = "old"]
           older == [s EXCEPT ![i] = x]
<1>2. s \in Seq(Entries) /\ distance_cache \in [Optimizers -> Seq(Entries)]
    BY DEF RoutingInv, RoutingTypeOK
<1>3. s[i] \in Entries
    BY <1>2
<1>4. x \in Entries
    BY <1>3 DEF Entries
<1>5. distance_cache' = [distance_cache EXCEPT ![o] = older]
    BY <1>1, <1>2
<1>6. older \in Seq(Entries) /\ Len(older) = Len(s)
    <2>1. i \in 1..Len(s)
        BY <1>2
    <2> HIDE DEF x, s
    <2> QED BY <1>2, <1>4, <2>1, ExceptSeq
<1>7. /\ distance_cache' \in [Optimizers -> Seq(Entries)]
      /\ \A q \in Optimizers : Len(distance_cache'[q]) <= Len(distance_cache[q])
    <2>1. \A q \in Optimizers : q # o => distance_cache'[q] = distance_cache[q]
        BY <1>2, <1>5
    <2>2. distance_cache'[o] = older
        BY <1>2, <1>5
    <2>3. \A q \in Optimizers : Len(distance_cache[q]) \in Nat
        BY CacheTypes
    <2> HIDE DEF older
    <2> QED BY <1>2, <1>5, <1>6, <2>1, <2>2, <2>3
<1>8. /\ UNCHANGED <<cache_misses, lookup, disk, persistent>> /\ SoundFile(disk')
      /\ ~persistent' /\ disk'.state = "whole" => Len(disk'.distances) <= Limit
    BY DiskSound DEF Grow, RoutingInv, NobodyPersists
<1> QED BY <1>7, <1>8, ShorterKeeps

LEMMA CachedKeeps ==
    ASSUME RoutingInv, NEW c \in Callers,
           routing_service_cached(c) \/ routing_service_persistent_cached(c)
    PROVE  RoutingInv'
<1>1. ASSUME NEW o \in Optimizers, NEW k \in Keys, Ask(c, o, k) \/ PersistentAsk(c, o, k)
      PROVE  RoutingInv'
    <2>1. CASE Ask(c, o, k)
        BY <2>1, AskKeeps DEF Ask
    <2>2. CASE PersistentAsk(c, o, k)
        BY <2>2, AskKeeps DEF PersistentAsk
    <2> QED BY <1>1, <2>1, <2>2
<1>2. ASSUME RobustAnswers(c) \/ PersistentAnswers(c) PROVE RoutingInv'
    <2>1. lookup[c].at \in {"robust", "persistent"}
        BY <1>2 DEF RobustAnswers, PersistentAnswers
    <2>2. PICK o \in Optimizers, k \in Keys : o = lookup[c].opt /\ k = lookup[c].key
        BY <2>1 DEF RoutingInv, RoutingTypeOK, Lookups, Idle
    <2>3. /\ distance_cache[o] \in Seq(Entries) /\ Len(distance_cache[o]) \in Nat
          /\ ~persistent => Len(distance_cache[o]) <= Limit
        BY CacheTypes
    <2>4. distance_cache' = distance_cache => Insert(o, distance_cache[o])
        BY DEF Insert, RoutingInv, RoutingTypeOK
    <2>5. CASE RobustAnswers(c)
        <3> DEFINE cache == Put(distance_cache[o], k, "none")
        <3>1. cache \in Seq(Entries) /\ Len(cache) <= Len(distance_cache[o]) + 1
            BY <2>3, PutOne
        <3>2. Len(cache) \in Nat /\ Len(Evict(cache)) \in Nat /\ Limit \in Nat
            BY <3>1, EvictBounds
        <3>3. /\ Evict(cache) \in Seq(Entries) /\ Len(Evict(cache)) <= Len(distance_cache[o]) + 1
              /\ ~persistent => Len(Evict(cache)) <= Limit
            BY <2>3, <3>1, <3>2, EvictBounds
        <3>4. /\ Insert(o, Evict(cache)) \/ Insert(o, distance_cache[o])
              /\ Done(c) /\ UNCHANGED <<cache_misses, disk, persistent>>
            BY <2>2, <2>4, <2>5 DEF RobustAnswers
        <3> HIDE DEF cache
        <3> QED BY <2>1, <2>2, <2>3, <3>3, <3>4, AnswerKeeps
    <2>6. CASE PersistentAnswers(c)
        <3> DEFINE cache == Put(distance_cache[o], k, "fresh")
        <3>1. cache \in Seq(Entries) /\ Len(cache) <= Len(distance_cache[o]) + 1
            BY <2>3, PutOne
        <3>2. persistent
            BY <2>6 DEF PersistentAnswers, RoutingInv, NobodyPersists
        <3>3. /\ \/ Insert(o, cache) /\ (disk' = disk \/ save_persistent_cache(distance_cache'[o], cache_misses[o]))
                 \/ Insert(o, distance_cache[o]) /\ disk' = disk
              /\ Done(c) /\ UNCHANGED <<cache_misses, persistent>>
            BY <2>2, <2>4, <2>6 DEF PersistentAnswers
        <3> HIDE DEF cache
        <3>4. Insert(o, cache) => distance_cache'[o] = cache
            BY DEF Insert, RoutingInv, RoutingTypeOK
        <3> QED BY <2>1, <2>2, <2>3, <3>1, <3>2, <3>3, <3>4, AnswerKeeps
    <2> QED BY <1>2, <2>5, <2>6
<1> QED BY <1>1, <1>2 DEF routing_service_cached, routing_service_persistent_cached

LEMMA StepRouting == RoutingInv /\ [RoutingNext]_routingVars => RoutingInv'
<1> SUFFICES ASSUME RoutingInv, [RoutingNext]_routingVars PROVE RoutingInv'
    OBVIOUS
<1>1. CASE UNCHANGED routingVars
    BY <1>1 DEF routingVars, RoutingInv, RoutingTypeOK, MissesCoverEntries, NobodyPersists, RobustPathLimited
<1>2. CASE RoutingNext
    BY <1>2, CachedKeeps, NewOptimizerKeeps, FinalizeKeeps, GrowKeeps, CrashKeeps DEF RoutingNext
<1> QED BY <1>1, <1>2

\* However lookups of one key, saves, reloads, torn files, clean-ups and restarts
\* follow each other, the statistics of an optimizer, in memory and on disk, know
\* of a miss for every entry.
THEOREM MissesCover == RoutingSpec => []MissesCoverEntries
<1>1. RoutingInv => MissesCoverEntries
    BY DEF RoutingInv
<1> QED BY <1>1, InitRouting, StepRouting, PTL DEF RoutingSpec

\* As long as nobody uses the persistent variant, evicting in the robust path keeps
\* every cache within its limit, through reloads and restarts too.
THEOREM RobustLimited == RoutingSpec => []RobustPathLimited
<1>1. RoutingInv => RobustPathLimited
    BY DEF RoutingInv
<1> QED BY <1>1, InitRouting, StepRouting, PTL DEF RoutingSpec

HIDE RoutingAssumption

-----------------------------------------------------------------------------
(* PlacesCache *)

USE PlacesAssumption

PlaceEntries ==
    [state : {"entry"}, at : {q.at : q \in Searches}, radius : {q.radius : q \in Searches},
     types : {q.types : q \in Searches}, data : SUBSET World, age : Nat]
AnsweredSearches == [at : {"answered"}, q : Searches, places : SUBSET World, age : Nat]
Fetches == [at : {"fetching"}, q : Searches, todo : SUBSET DOMAIN TypeTTL,
            tourist : SUBSET World, other : SUBSET World]

\* An entry holds places that one of its searches found: each has one of its types.
SoundEntries(cache) ==
    /\ cache \in [PlaceKeys -> {NoEntry, TornEntry} \cup PlaceEntries]
    /\ \A k \in PlaceKeys : IsEntry(cache[k]) =>
           \A p \in cache[k].data : p.types \cap cache[k].types # {}

\* What Google has returned for a search passes all its conditions.
Found(q, p) == /\ Distance(q.at, p.at) <= q.radius /\ p.types \cap q.types # {} /\ p.good

\* What may be told of a search that waits, or of an answer.
SoundSearch(x) ==
    \/ x = [at |-> "idle"]
    \/ /\ x \in Fetches /\ x.todo \subseteq x.q.types
       /\ \A p \in x.tourist \cup x.other : Found(x.q, p)
    \/ /\ x \in AnsweredSearches /\ Cardinality(x.places) <= x.q.limit
       /\ \A p \in x.places : Found(x.q, p) /\ \E t \in p.types : x.age <= TypeTTL[t]

PlacesInv ==
    /\ SoundEntries(memory_cache) /\ SoundEntries(files)
    /\ DOMAIN search = Searchers /\ \A c \in Searchers : SoundSearch(search[c])

LEMMA PlacesInvImplies == PlacesInv => AnswersFit /\ AnswersFresh
<1> SUFFICES ASSUME PlacesInv, NEW c \in Searchers, IsAnswered(c)
             PROVE  /\ Cardinality(search[c].places) <= search[c].q.limit
                    /\ \A p \in search[c].places :
                          Found(search[c].q, p) /\ \E t \in p.types : search[c].age <= TypeTTL[t]
    BY DEF AnswersFit, AnswersFresh, Found
<1>1. SoundSearch(search[c]) /\ search[c].at = "answered"
    BY DEF PlacesInv, IsAnswered
<1> QED BY <1>1 DEF SoundSearch, Fetches

LEMMA InitPlaces == PlacesInit => PlacesInv
BY DEF PlacesInit, PlacesInv, SoundEntries, SoundSearch, NoEntry, IsEntry

\* An entry that has not expired is within the lifetime of each of its types.
LEMMA ShortestLifetime ==
    ASSUME NEW e \in PlaceEntries, ~Expired(e), NEW t \in e.types
    PROVE  e.age <= TypeTTL[t]
<1> DEFINE S == {TypeTTL[u] : u \in e.types}
<1>1. e.types \subseteq DOMAIN TypeTTL /\ e.age \in Nat
    BY DEF PlaceEntries
<1>2. S \subseteq Nat /\ TypeTTL[t] \in S
    BY <1>1
<1>3. \E m \in S : \A n \in S : m <= n
    <2> HIDE DEF S
    <2> QED BY <1>2, LeastNumber
<1>4. Min(S) \in S /\ \A n \in S : Min(S) <= n
    <2> HIDE DEF S
    <2> QED BY <1>3 DEF Min
<1>5. e.age <= Min(S)
    <2>1. ~(e.age > Min(S))
        BY DEF Expired, _calculate_ttl
    <2>2. Min(S) \in Nat
        BY <1>2, <1>4
    <2> HIDE DEF S
    <2> QED BY <1>1, <2>1, <2>2
<1> HIDE DEF S
<1>6. Min(S) \in Nat /\ TypeTTL[t] \in Nat /\ Min(S) <= TypeTTL[t]
    BY <1>2, <1>4
<1> QED BY <1>1, <1>5, <1>6

\* A place that was found in an entry answers the search, and is fresh enough.
LEMMA HitFits ==
    ASSUME PlacesInv, NEW q \in Searches, NEW k \in PlaceKeys, Serves(q, memory_cache[k]),
           NEW p \in _filter_cached_results(q, memory_cache[k]),
           _is_valid_suggestion(p, memory_cache[k].at)
    PROVE  p \in World /\ Found(q, p) /\ \E t \in p.types : memory_cache[k].age <= TypeTTL[t]
<1> DEFINE e == memory_cache[k]
<1>1. IsEntry(e) /\ ~Expired(e) /\ SoundEntries(memory_cache)
    BY DEF Serves, PlacesInv
<1>2. e \in PlaceEntries /\ \A r \in e.data : r.types \cap e.types # {}
    BY <1>1 DEF SoundEntries, IsEntry, NoEntry, TornEntry
<1> HIDE DEF e
<1>3. p \in e.data /\ Distance(q.at, p.at) <= q.radius /\ p.main \in q.types /\ p.good
    BY DEF _filter_cached_results, _is_valid_suggestion, e
<1>4. p \in World /\ p.main \in p.types
    BY <1>2, <1>3 DEF PlaceEntries
<1>5. PICK t \in p.types : t \in e.types
    BY <1>2, <1>3
<1>6. e.age <= TypeTTL[t]
    BY <1>1, <1>2, <1>5, ShortestLifetime
<1> QED BY <1>3, <1>4, <1>5, <1>6 DEF Found, e

\* A step of one searcher that leaves both caches alone.
LEMMA OneSearch ==
    ASSUME PlacesInv, NEW c \in Searchers, NEW x, SoundSearch(x), SetSearch(c, x),
           SoundEntries(memory_cache'), SoundEntries(files')
    PROVE  PlacesInv'
BY DEF PlacesInv, SetSearch, SoundSearch

LEMMA LookupKeeps ==
    ASSUME PlacesInv, NEW c \in Searchers, NEW q \in Searches, Lookup(c, q) PROVE PlacesInv'
<1>1. SoundEntries(memory_cache') /\ SoundEntries(files')
    BY DEF PlacesInv, Lookup
<1>2. SoundSearch(Fetching(q, q.types, {}, {}))
    BY DEF SoundSearch, Fetching, Fetches
<1>3. CASE SetSearch(c, Fetching(q, q.types, {}, {}))
    BY <1>1, <1>2, <1>3, OneSearch
<1>4. ASSUME NEW k \in PlaceKeys, Serves(q, memory_cache[k]),
             NEW places \in AtMost(q.limit, {p \in _filter_cached_results(q, memory_cache[k]) :
                                                _is_valid_suggestion(p, memory_cache[k].at)}),
             SetSearch(c, AnsweredSearch(q, places, memory_cache[k].age))
      PROVE  PlacesInv'
    <2> DEFINE x == AnsweredSearch(q, places, memory_cache[k].age)
    <2>1. Cardinality(places) <= q.limit
        BY DEF AtMost
    <2>2. \A p \in places : /\ p \in World /\ Found(q, p)
                            /\ \E t \in p.types : memory_cache[k].age <= TypeTTL[t]
        <3> SUFFICES ASSUME NEW p \in places
                     PROVE  /\ p \in World /\ Found(q, p)
                            /\ \E t \in p.types : memory_cache[k].age <= TypeTTL[t]
            OBVIOUS
        <3>1. p \in _filter_cached_results(q, memory_cache[k])
              /\ _is_valid_suggestion(p, memory_cache[k].at)
            BY DEF AtMost
        <3> QED BY <1>4, <3>1, HitFits
    <2>3. memory_cache[k].age \in Nat
        BY <1>4 DEF PlacesInv, SoundEntries, Serves, IsEntry, NoEntry, TornEntry, PlaceEntries
    <2>4. /\ x \in AnsweredSearches /\ x.q = q /\ x.places = places
          /\ x.age = memory_cache[k].age
        BY <2>2, <2>3 DEF AnsweredSearch, AnsweredSearches
    <2>5. SoundSearch(x)
        <3> HIDE DEF x
        <3> QED BY <2>1, <2>2, <2>4 DEF SoundSearch
    <2> QED BY <1>1, <1>4, <2>5, OneSearch
<1> QED BY <1>3, <1>4 DEF Lookup

LEMMA SearchCallKeeps ==
    ASSUME PlacesInv, NEW c \in Searchers, _google_nearby_search(c) PROVE PlacesInv'
<1> DEFINE q == search[c].q
<1>1. /\ search[c] \in Fetches /\ search[c].todo \subseteq q.types
      /\ \A p \in search[c].tourist \cup search[c].other : Found(q, p)
    BY DEF _google_nearby_search, PlacesInv, SoundSearch, AnsweredSearches
<1>2. PICK t \in search[c].todo, got \in SUBSET World :
          /\ \A p \in got : t \in p.types /\ Distance(q.at, p.at) <= q.radius /\ p.good
          /\ SetSearch(c, [search[c] EXCEPT
                 !.todo = @ \ {t},
                 !.tourist = IF t = "tourist_attraction" THEN @ \cup got ELSE @,
                 !.other = IF t = "tourist_attraction" THEN @ ELSE @ \cup got])
    BY DEF _google_nearby_search, _is_valid_suggestion
<1> DEFINE x == [search[c] EXCEPT
                     !.todo = @ \ {t},
                     !.tourist = IF t = "tourist_attraction" THEN @ \cup got ELSE @,
                     !.other = IF t = "tourist_attraction" THEN @ ELSE @ \cup got]
<1>3. \A p \in got : Found(q, p)
    <2>1. t \in q.types
        BY <1>1
    <2> QED BY <1>2, <2>1 DEF Found
<1>4. /\ x \in Fetches /\ x.q = q /\ x.todo = search[c].todo \ {t}
      /\ x.tourist \cup x.other = search[c].tourist \cup search[c].other \cup got
    BY <1>1 DEF Fetches
<1>5. SoundSearch(x)
    <2> HIDE DEF x
    <2> QED BY <1>1, <1>3, <1>4 DEF SoundSearch
<1>6. SoundEntries(memory_cache') /\ SoundEntries(files')
    BY DEF PlacesInv, _google_nearby_search
<1> QED BY <1>2, <1>5, <1>6, OneSearch

\* The places stored and answered are among those found, and no more than asked for.
LEMMA FinalPlacesFound ==
    ASSUME NEW q, NEW tourist, NEW other, NEW places \in final_places(q, tourist, other)
    PROVE  places \subseteq tourist \cup other
<1>1. PICK T \in Best(2, tourist) :
          \E n : places \in {T \cup O : O \in Best(n, other)}
    BY DEF final_places
<1>2. PICK n : places \in {T \cup O : O \in Best(n, other)}
    BY <1>1
<1>3. PICK O \in Best(n, other) : places = T \cup O
    BY <1>2
<1>4. T \subseteq tourist /\ O \subseteq other
    BY DEF Best, kSubset
<1> QED BY <1>3, <1>4

LEMMA BestBounded ==
    ASSUME NEW S, IsFiniteSet(S), NEW n \in Nat, NEW R \in Best(n, S)
    PROVE  R \subseteq S /\ Cardinality(R) <= n
<1>1. Cardinality(S) \in Nat
    BY FS_CardinalityType
<1>2. R \subseteq S /\ Cardinality(R) = IF n < Cardinality(S) THEN n ELSE Cardinality(S)
    BY DEF Best, kSubset
<1> QED BY <1>1, <1>2

LEMMA FinishKeeps == ASSUME PlacesInv, NEW c \in Searchers, Finish(c) PROVE PlacesInv'
<1> DEFINE q == search[c].q
<1>1. /\ search[c] \in Fetches /\ q \in Searches
      /\ \A p \in search[c].tourist \cup search[c].other : Found(q, p)
      /\ search[c].tourist \cup search[c].other \subseteq World
    BY DEF Finish, PlacesInv, SoundSearch, AnsweredSearches, Fetches
<1>2. PICK places \in final_places(q, search[c].tourist, search[c].other) :
          /\ cache_places(q, places)
          /\ \E answer \in Best(q.limit, places) : SetSearch(c, AnsweredSearch(q, answer, 0))
    BY DEF Finish
<1>3. places \subseteq World /\ \A p \in places : Found(q, p)
    BY <1>1, FinalPlacesFound
<1>4. PICK answer \in Best(q.limit, places) : SetSearch(c, AnsweredSearch(q, answer, 0))
    BY <1>2
<1>5. answer \subseteq places /\ Cardinality(answer) <= q.limit
    <2>1. IsFiniteSet(places) /\ q.limit \in Nat
        BY <1>1, <1>3, FS_Subset
    <2> QED BY <2>1, BestBounded
<1>6. SoundSearch(AnsweredSearch(q, answer, 0))
    <2> DEFINE x == AnsweredSearch(q, answer, 0)
    <2>1. x \in AnsweredSearches /\ x.q = q /\ x.places = answer /\ x.age = 0
        BY <1>1, <1>3, <1>5 DEF AnsweredSearch, AnsweredSearches
    <2>2. ASSUME NEW p \in answer PROVE Found(q, p) /\ \E t \in p.types : 0 <= TypeTTL[t]
        <3>1. Found(q, p)
            BY <1>3, <1>5
        <3>2. PICK t \in p.types : t \in q.types
            BY <3>1 DEF Found
        <3>3. TypeTTL[t] \in Nat
            BY <1>1, <3>2
        <3> QED BY <3>1, <3>2, <3>3
    <2>3. SoundSearch(x)
        <3> HIDE DEF x
        <3> QED BY <1>5, <2>1, <2>2 DEF SoundSearch
    <2> QED BY <2>3
<1>7. SoundEntries(memory_cache') /\ SoundEntries(files')
    <2> DEFINE k == _generate_cache_key(q)
               e == [state |-> "entry", at |-> q.at, radius |-> q.radius, types |-> q.types,
                     data |-> places, age |-> 0]
    <2>1. k \in PlaceKeys
        BY <1>1 DEF PlaceKeys
    <2>2. e \in PlaceEntries /\ \A p \in e.data : p.types \cap e.types # {}
        BY <1>1, <1>3 DEF PlaceEntries, Found
    <2>3. /\ memory_cache' \in {memory_cache, [memory_cache EXCEPT ![k] = e]}
          /\ files' \in {files, [files EXCEPT ![k] = e], [files EXCEPT ![k] = TornEntry]}
        BY <1>2 DEF cache_places
    <2>4. ~IsEntry(TornEntry)
        BY DEF IsEntry, TornEntry
    <2>5. SoundEntries(memory_cache) /\ SoundEntries(files)
        BY DEF PlacesInv
    <2>6. \A cache : SoundEntries(cache) => /\ SoundEntries([cache EXCEPT ![k] = e])
                                            /\ SoundEntries([cache EXCEPT ![k] = TornEntry])
        <3> HIDE DEF e, k
        <3> QED BY <2>1, <2>2, <2>4 DEF SoundEntries
    <2> HIDE DEF e, k
    <2> QED BY <2>3, <2>5, <2>6
<1> QED BY <1>4, <1>6, <1>7, OneSearch

\* Time makes an entry older, nothing else.
LEMMA OlderEntries ==
    ASSUME NEW cache, SoundEntries(cache), NEW limit
    PROVE  SoundEntries([k \in PlaceKeys |-> Tick1(cache[k], limit)])
<1> SUFFICES ASSUME NEW k \in PlaceKeys
             PROVE  /\ Tick1(cache[k], limit) \in {NoEntry, TornEntry} \cup PlaceEntries
                    /\ IsEntry(Tick1(cache[k], limit)) =>
                           \A p \in Tick1(cache[k], limit).data :
                               p.types \cap Tick1(cache[k], limit).types # {}
    BY DEF SoundEntries
<1>1. CASE Tick1(cache[k], limit) = cache[k]
    BY <1>1 DEF SoundEntries
<1>2. CASE Tick1(cache[k], limit) # cache[k]
    <2> DEFINE e == cache[k]
               x == [e EXCEPT !.age = @ + 1]
    <2>1. IsEntry(e) /\ Tick1(cache[k], limit) = x
        BY <1>2 DEF Tick1
    <2>2. e \in PlaceEntries /\ \A p \in e.data : p.types \cap e.types # {}
        BY <2>1 DEF SoundEntries, IsEntry, NoEntry, TornEntry
    <2>3. x \in PlaceEntries /\ x.data = e.data /\ x.types = e.types
        BY <2>2 DEF PlaceEntries
    <2> HIDE DEF e, x
    <2> QED BY <2>1, <2>2, <2>3
<1> QED BY <1>1, <1>2

LEMMA PlacesTickKeeps == ASSUME PlacesInv, PlacesTick PROVE PlacesInv'
<1>1. SoundEntries(memory_cache') /\ SoundEntries(files')
    BY OlderEntries DEF PlacesInv, PlacesTick
<1> QED BY <1>1 DEF PlacesInv, PlacesTick, SoundSearch

LEMMA ClearKeeps == ASSUME PlacesInv, clear_cache_older PROVE PlacesInv'
<1>1. ASSUME NEW cache, SoundEntries(cache), NEW S
      PROVE  SoundEntries([k \in PlaceKeys |-> IF k \in S THEN NoEntry ELSE cache[k]])
    BY <1>1 DEF SoundEntries, IsEntry, NoEntry
<1>2. PICK old \in SUBSET PlaceKeys :
          /\ memory_cache' = [k \in PlaceKeys |-> IF k \in old THEN NoEntry ELSE memory_cache[k]]
          /\ \E kept \in SUBSET old :
                 files' = [k \in PlaceKeys |-> IF k \in old \ kept THEN NoEntry ELSE files[k]]
    BY DEF clear_cache_older
<1>3. SoundEntries(memory_cache) /\ SoundEntries(files)
    BY DEF PlacesInv
<1>4. SoundEntries(memory_cache') /\ SoundEntries(files')
    <2>1. SoundEntries([k \in PlaceKeys |-> IF k \in old THEN NoEntry ELSE memory_cache[k]])
        BY <1>1, <1>3
    <2>2. PICK kept \in SUBSET old :
              files' = [k \in PlaceKeys |-> IF k \in old \ kept THEN NoEntry ELSE files[k]]
        BY <1>2
    <2>3. SoundEntries([k \in PlaceKeys |-> IF k \in old \ kept THEN NoEntry ELSE files[k]])
        BY <1>1, <1>3
    <2> QED BY <1>2, <2>1, <2>2, <2>3
<1> QED BY <1>4 DEF PlacesInv, clear_cache_older, SoundSearch

LEMMA RestartKeeps == ASSUME PlacesInv, RestartPlaces PROVE PlacesInv'
<1>1. SoundEntries(memory_cache')
    BY DEF PlacesInv, RestartPlaces, _load_from_disk, SoundEntries, IsEntry, NoEntry
<1>2. PICK failed \in SUBSET PlaceKeys :
          files' = [k \in PlaceKeys |-> IF IsEntry(memory_cache'[k]) \/ k \in failed
                                        THEN files[k] ELSE NoEntry]
    BY DEF RestartPlaces
<1>3. SoundEntries(files')
    BY <1>2 DEF PlacesInv, SoundEntries, IsEntry, NoEntry
<1>4. DOMAIN search' = Searchers /\ \A c \in Searchers : SoundSearch(search'[c])
    BY DEF RestartPlaces, SoundSearch
<1> QED BY <1>1, <1>3, <1>4 DEF PlacesInv

LEMMA StepPlaces == PlacesInv /\ [PlacesNext]_placesVars => PlacesInv'
<1> SUFFICES ASSUME PlacesInv, [PlacesNext]_placesVars PROVE PlacesInv'
    OBVIOUS
<1>1. CASE UNCHANGED placesVars
    BY <1>1 DEF placesVars, PlacesInv, SoundSearch
<1>2. ASSUME NEW c \in Searchers, search_nearby_real(c) PROVE PlacesInv'
    <2>1. CASE LeaveSearch(c)
        <3>1. SoundSearch([at |-> "idle"])
            BY DEF SoundSearch
        <3> QED BY <2>1, <3>1, OneSearch DEF LeaveSearch, PlacesInv
    <2> QED BY <1>2, <2>1, LookupKeeps, SearchCallKeeps, FinishKeeps DEF search_nearby_real
<1> QED BY <1>1, <1>2, PlacesTickKeeps, ClearKeeps, RestartKeeps DEF PlacesNext

\* Whichever entry of whichever search answers, before or after a restart, the
\* places fit the search: near enough, of its types, good, not too many.
THEOREM PlacesFit == PlacesSpec => []AnswersFit
BY InitPlaces, StepPlaces, PlacesInvImplies, PTL DEF PlacesSpec

\* No answer is older than one of the types of each of its places allows, though
\* entries are shared between types and outlive the process.
THEOREM PlacesFresh == PlacesSpec => []AnswersFresh
BY InitPlaces, StepPlaces, PlacesInvImplies, PTL DEF PlacesSpec

HIDE PlacesAssumption

=============================================================================
