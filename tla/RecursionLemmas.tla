--------------------------- MODULE RecursionLemmas ---------------------------
(***************************************************************************)
(* Induction and recursion over the natural numbers and over lists, stated *)
(* for sets and functions, and what it gives for the operators of Lists:   *)
(* what the proofs about folds over lists of the code rest on.             *)
(***************************************************************************)
EXTENDS Naturals, SequencesExt, Lists, SequenceTheorems, WellFoundedInduction, TLAPS

\* A set of numbers that has 0 and with a number the next one has all of them.
LEMMA SetInduction ==
    ASSUME NEW T, 0 \in T, \A n \in Nat : n \in T => n + 1 \in T
    PROVE  \A n \in Nat : n \in T
<1> DEFINE R == {p \in Nat \X Nat : p[1] < p[2]}
           U == {n \in Nat : n \notin T}
<1>1. SUFFICES ASSUME U # {} PROVE FALSE
    OBVIOUS
<1>2. IsWellFoundedOn(R, Nat)
    BY NatLessThanWellFounded DEF OpToRel
<1>3. \A m, n \in Nat : m < n => <<m, n>> \in R
    OBVIOUS
<1>4. PICK x \in U : \A y \in U : ~(<<y, x>> \in R)
    <2>1. U \subseteq Nat
        OBVIOUS
    <2> HIDE DEF U, R
    <2> QED BY <1>1, <1>2, <2>1, WFMin
<1> HIDE DEF R
<1>5. x \in Nat /\ x \notin T
    OBVIOUS
<1>6. x # 0 /\ x - 1 \in Nat
    BY <1>5
<1>7. x - 1 \notin T
    BY <1>5, <1>6
<1>8. <<x - 1, x>> \in R
    <2>1. x - 1 < x
        BY <1>5
    <2> QED BY <1>3, <1>5, <1>6, <2>1
<1>9. x - 1 \in U
    BY <1>6, <1>7
<1> QED BY <1>4, <1>8, <1>9

\* Every set of numbers with an element has a least one.
LEMMA LeastNumber ==
    ASSUME NEW S, S \subseteq Nat, S # {}
    PROVE  \E m \in S : \A n \in S : m <= n
<1> DEFINE T == {n \in Nat : \A k \in S : n <= k}
<1>1. SUFFICES ASSUME \A m \in S : m \notin T PROVE FALSE
    OBVIOUS
<1>2. 0 \in T
    OBVIOUS
<1>3. \A n \in Nat : n \in T => n + 1 \in T
    <2> SUFFICES ASSUME NEW n \in Nat, n \in T, NEW k \in S PROVE n + 1 <= k
        OBVIOUS
    <2>1. n <= k /\ k # n /\ k \in Nat
        BY <1>1
    <2> QED BY <2>1
<1>4. \A n \in Nat : n \in T
    <2> HIDE DEF T
    <2> QED BY <1>2, <1>3, SetInduction
<1> QED BY <1>1, <1>4

\* Started anywhere in a set that its steps do not leave, a recursion of N
\* steps has a result for each of them.
LEMMA RecursionExists ==
    ASSUME NEW X, NEW first \in X, NEW N \in Nat, NEW F \in [1..N -> [X -> X]]
    PROVE  \E g \in [0..N -> X] :
               g[0] = first /\ \A n \in 1..N : g[n] = F[n][g[n - 1]]
<1> DEFINE Solves(g, k) == /\ g \in [0..k -> X]
                           /\ g[0] = first /\ \A n \in 1..k : g[n] = F[n][g[n - 1]]
           T == {k \in Nat : k <= N => \E g : Solves(g, k)}
<1>1. 0 \in T
    <2>1. Solves([n \in 0..0 |-> first], 0)
        OBVIOUS
    <2> HIDE DEF Solves
    <2> QED BY <2>1
<1>2. ASSUME NEW k \in Nat, k \in T PROVE k + 1 \in T
    <2> SUFFICES ASSUME k + 1 <= N PROVE \E g : Solves(g, k + 1)
        OBVIOUS
    <2>1. PICK g : Solves(g, k)
        BY <1>2
    <2> DEFINE h == [n \in 0..(k + 1) |-> IF n = k + 1 THEN F[k + 1][g[k]] ELSE g[n]]
    <2>2. g[k] \in X /\ F[k + 1] \in [X -> X]
        BY <2>1
    <2>3. h \in [0..(k + 1) -> X]
        BY <2>1, <2>2
    <2>4. h[0] = first /\ \A n \in 1..k : h[n] = g[n] /\ h[n - 1] = g[n - 1]
        BY <2>1
    <2>5. h[k + 1] = F[k + 1][h[(k + 1) - 1]]
        OBVIOUS
    <2>6. \A n \in 1..(k + 1) : h[n] = F[n][h[n - 1]]
        <3> SUFFICES ASSUME NEW n \in 1..(k + 1) PROVE h[n] = F[n][h[n - 1]]
            OBVIOUS
        <3> HIDE DEF h
        <3>1. CASE n = k + 1
            BY <2>5, <3>1
        <3>2. CASE n # k + 1
            BY <2>1, <2>4, <3>2
        <3> QED BY <3>1, <3>2
    <2> QED BY <2>3, <2>4, <2>6
<1>3. \A k \in Nat : k \in T
    <2> HIDE DEF T
    <2> QED BY <1>1, <1>2, SetInduction
<1> QED BY <1>3

\* Two functions with the same steps and start are the same.
LEMMA RecursionUnique ==
    ASSUME NEW g, NEW h, NEW N \in Nat, NEW F, g[0] = h[0],
           \A n \in 1..N : g[n] = F[n][g[n - 1]] /\ h[n] = F[n][h[n - 1]]
    PROVE  \A n \in 0..N : g[n] = h[n]
<1> DEFINE T == {n \in Nat : n <= N => g[n] = h[n]}
<1>1. 0 \in T
    OBVIOUS
<1>2. ASSUME NEW n \in Nat, n \in T PROVE n + 1 \in T
    <2> SUFFICES ASSUME n + 1 <= N PROVE g[n + 1] = h[n + 1]
        OBVIOUS
    <2>1. n + 1 \in 1..N /\ (n + 1) - 1 = n /\ g[n] = h[n]
        BY <1>2
    <2>2. g[n + 1] = F[n + 1][g[(n + 1) - 1]] /\ h[n + 1] = F[n + 1][h[(n + 1) - 1]]
        BY <2>1
    <2> QED BY <2>1, <2>2
<1>3. \A n \in Nat : n \in T
    <2> HIDE DEF T
    <2> QED BY <1>1, <1>2, SetInduction
<1> QED BY <1>3

-----------------------------------------------------------------------------
(* Lists *)

\* A set of lists that has the empty one and with a list every longer one by
\* an element has all of them.
LEMMA ListInduction ==
    ASSUME NEW X, NEW T, <<>> \in T,
           \A s \in Seq(X), x \in X : s \in T => Append(s, x) \in T
    PROVE  \A s \in Seq(X) : s \in T
<1> DEFINE U == {n \in Nat : \A s \in Seq(X) : Len(s) = n => s \in T}
<1>1. 0 \in U
    BY EmptySeq
<1>2. ASSUME NEW n \in Nat, n \in U PROVE n + 1 \in U
    <2> SUFFICES ASSUME NEW s \in Seq(X), Len(s) = n + 1 PROVE s \in T
        OBVIOUS
    <2>1. s # <<>>
        OBVIOUS
    <2>2. PICK t \in Seq(X) : \E x \in X : s = Append(t, x)
        BY <2>1, SequenceEmptyOrAppend
    <2>3. PICK x \in X : s = Append(t, x)
        BY <2>2
    <2>4. Len(t) = n
        BY <2>3, AppendProperties
    <2> QED BY <1>2, <2>3, <2>4
<1>3. \A n \in Nat : n \in U
    <2> HIDE DEF U
    <2> QED BY <1>1, <1>2, SetInduction
<1> QED BY <1>3, LenProperties

\* Where a list with one more element has its values.
LEMMA AppendAt ==
    ASSUME NEW X, NEW s \in Seq(X), NEW x \in X
    PROVE  /\ Append(s, x) \in Seq(X) /\ Len(Append(s, x)) = Len(s) + 1
           /\ Len(s) \in Nat /\ (Len(s) + 1) - 1 = Len(s)
           /\ \A n \in 1..Len(s) : Append(s, x)[n] = s[n]
           /\ Append(s, x)[Len(s) + 1] = x
<1>1. Len(s) \in Nat
    BY LenProperties
<1> QED BY <1>1, AppendProperties

LEMMA AppendConcat ==
    ASSUME NEW X, NEW s \in Seq(X), NEW t \in Seq(X), NEW x \in X
    PROVE  s \o Append(t, x) = Append(s \o t, x)
<1>1. Append(t, x) = t \o <<x>> /\ Append(s \o t, x) = (s \o t) \o <<x>> /\ <<x>> \in Seq(X)
    BY AppendIsConcat, ConcatProperties
<1> QED BY <1>1, ConcatAssociative

LEMMA AppendElements ==
    ASSUME NEW X, NEW s \in Seq(X), NEW x \in X
    PROVE  /\ Append(s, x) \in Seq(X) /\ ToSet(Append(s, x)) = ToSet(s) \cup {x}
           /\ IsInjective(Append(s, x)) <=> IsInjective(s) /\ x \notin ToSet(s)
<1> DEFINE t == Append(s, x)
           N == Len(s)
<1>1. /\ t \in Seq(X) /\ Len(t) = N + 1 /\ N \in Nat
      /\ \A n \in 1..N : t[n] = s[n]
      /\ t[N + 1] = x
    BY AppendAt
<1>2. DOMAIN s = 1..N /\ DOMAIN t = 1..(N + 1)
    BY <1>1
<1> HIDE DEF t, N
<1>3. 1..(N + 1) = (1..N) \cup {N + 1} /\ N + 1 \notin 1..N
    BY <1>1
<1>4. ToSet(t) = ToSet(s) \cup {x}
    BY <1>1, <1>2, <1>3 DEF ToSet
<1>5. IsInjective(t) => IsInjective(s) /\ x \notin ToSet(s)
    BY <1>1, <1>2, <1>3 DEF ToSet, IsInjective
<1>6. IsInjective(s) /\ x \notin ToSet(s) => IsInjective(t)
    BY <1>1, <1>2, <1>3 DEF ToSet, IsInjective
<1> QED BY <1>1, <1>4, <1>5, <1>6 DEF t

\* A comprehension, element by element.
LEMMA KeptStep ==
    ASSUME NEW X, NEW S
    PROVE  /\ Kept(<<>>, S) = <<>>
           /\ \A s \in Seq(X) : Kept(s, S) \in Seq(X)
           /\ \A s \in Seq(X), x \in X :
                 Kept(Append(s, x), S) = IF x \in S THEN Append(Kept(s, S), x) ELSE Kept(s, S)
<1> DEFINE Step(s, n) == [acc \in Seq(X) |-> IF s[n] \in S THEN Append(acc, s[n]) ELSE acc]
           Is(f, s) == f = [n \in 0..Len(s) |->
                               IF n = 0 THEN <<>>
                               ELSE IF s[n] \in S THEN Append(f[n - 1], s[n]) ELSE f[n - 1]]
           kept(s) == CHOOSE f : Is(f, s)
           Good(f, s) == /\ Is(f, s) /\ f \in [0..Len(s) -> Seq(X)] /\ f[0] = <<>>
                         /\ \A n \in 1..Len(s) : f[n] = Step(s, n)[f[n - 1]]
<1>1. ASSUME NEW s \in Seq(X) PROVE \E f : Is(f, s)
    <2> DEFINE N == Len(s)
               Y == Seq(X)
               first == <<>>
               F == [n \in 1..N |-> Step(s, n)]
    <2>1. N \in Nat /\ first \in Y
        BY LenProperties, EmptySeq
    <2>2. \A n \in 1..N : s[n] \in X
        BY ElementOfSeq
    <2>3. ASSUME NEW n \in 1..N PROVE Step(s, n) \in [Y -> Y]
        <3>1. s[n] \in X
            BY <2>2
        <3> QED BY <3>1, AppendProperties
    <2>4. F \in [1..N -> [Y -> Y]]
        <3> HIDE DEF Step, Y, N
        <3> QED BY <2>3
    <2>5. PICK f \in [0..N -> Y] : f[0] = first /\ \A n \in 1..N : f[n] = F[n][f[n - 1]]
        <3> HIDE DEF Y, N, F, first
        <3> QED BY <2>1, <2>4, RecursionExists
    <2>6. \A n \in 1..N : n # 0 /\ n - 1 \in 0..N
        BY <2>1
    <2>7. \A n \in 1..N : f[n] = IF s[n] \in S THEN Append(f[n - 1], s[n]) ELSE f[n - 1]
        <3> HIDE DEF N
        <3> QED BY <2>5, <2>6
    <2>8. \A n \in 0..N : f[n] = IF n = 0 THEN <<>>
                                 ELSE IF s[n] \in S THEN Append(f[n - 1], s[n]) ELSE f[n - 1]
        <3> HIDE DEF F
        <3>1. \A n \in 0..N : n = 0 \/ n \in 1..N
            BY <2>1
        <3> HIDE DEF N
        <3> QED BY <2>5, <2>6, <2>7, <3>1
    <2>9. Is(f, s)
        <3> HIDE DEF F
        <3> QED BY <2>5, <2>8
    <2> QED BY <2>9
<1>2. ASSUME NEW s \in Seq(X) PROVE Is(kept(s), s)
    <2> HIDE DEF Is
    <2> QED BY <1>1
<1>3. \A s : Kept(s, S) = kept(s)[Len(s)]
    BY DEF Kept
<1> HIDE DEF kept
<1>4. ASSUME NEW s \in Seq(X)
      PROVE  /\ kept(s)[0] = <<>>
             /\ \A n \in 1..Len(s) : kept(s)[n] = IF s[n] \in S THEN Append(kept(s)[n - 1], s[n])
                                                  ELSE kept(s)[n - 1]
    <2> DEFINE f == kept(s)
    <2>1. Len(s) \in Nat /\ Is(f, s)
        BY <1>2, LenProperties
    <2> HIDE DEF f
    <2>2. \A n \in 0..Len(s) : f[n] = IF n = 0 THEN <<>>
                                      ELSE IF s[n] \in S THEN Append(f[n - 1], s[n]) ELSE f[n - 1]
        BY <2>1
    <2>3. \A n \in 1..Len(s) : n \in 0..Len(s) /\ n # 0
        BY <2>1
    <2>4. 0 \in 0..Len(s)
        BY <2>1
    <2>5. f[0] = <<>>
        BY <2>2, <2>4
    <2>6. \A n \in 1..Len(s) : f[n] = IF s[n] \in S THEN Append(f[n - 1], s[n]) ELSE f[n - 1]
        BY <2>2, <2>3
    <2> QED BY <2>5, <2>6 DEF f
<1> HIDE DEF Is
\* A longer list agrees on the beginning.
<1>5. ASSUME NEW s \in Seq(X), NEW x \in X
      PROVE  \A n \in 0..Len(s) : kept(Append(s, x))[n] = kept(s)[n]
    <2> DEFINE t == Append(s, x)
               f == kept(s)
               g == kept(t)
               T == {n \in Nat : n <= Len(s) => g[n] = f[n]}
    <2>1. t \in Seq(X) /\ Len(t) = Len(s) + 1 /\ Len(s) \in Nat /\ \A n \in 1..Len(s) : t[n] = s[n]
        BY AppendAt
    <2>2. f[0] = <<>> /\ g[0] = <<>>
        BY <1>4, <2>1
    <2>3. \A n \in 1..Len(s) : f[n] = IF s[n] \in S THEN Append(f[n - 1], s[n]) ELSE f[n - 1]
        BY <1>4
    <2>4. \A n \in 1..Len(t) : g[n] = IF t[n] \in S THEN Append(g[n - 1], t[n]) ELSE g[n - 1]
        BY <1>4, <2>1
    <2> HIDE DEF t, f, g
    <2>5. 0 \in T
        BY <2>2
    <2>6. ASSUME NEW n \in Nat, n \in T PROVE n + 1 \in T
        <3> SUFFICES ASSUME n + 1 <= Len(s) PROVE g[n + 1] = f[n + 1]
            OBVIOUS
        <3> DEFINE m == n + 1
        <3>1. m \in 1..Len(s) /\ m \in 1..Len(t) /\ m - 1 = n /\ g[n] = f[n]
            BY <2>1, <2>6
        <3> HIDE DEF m
        <3> QED BY <2>1, <2>3, <2>4, <3>1 DEF m
    <2>7. \A n \in Nat : n \in T
        <3> HIDE DEF T
        <3> QED BY <2>5, <2>6, SetInduction
    <2> QED BY <2>1, <2>7 DEF f, g, t
<1>6. Kept(<<>>, S) = <<>>
    <2>1. <<>> \in Seq(X) /\ Len(<<>>) = 0
        BY EmptySeq
    <2> QED BY <1>3, <1>4, <2>1
<1>7. ASSUME NEW s \in Seq(X), NEW x \in X
      PROVE  Kept(Append(s, x), S) = IF x \in S THEN Append(Kept(s, S), x) ELSE Kept(s, S)
    <2> DEFINE t == Append(s, x)
               m == Len(s) + 1
    <2>1. t \in Seq(X) /\ Len(t) = m /\ m \in 1..m /\ m - 1 = Len(s) /\ t[m] = x /\ Len(s) \in 0..Len(s)
        BY AppendAt
    <2> HIDE DEF t, m
    <2>2. kept(t)[m] = IF x \in S THEN Append(kept(t)[Len(s)], x) ELSE kept(t)[Len(s)]
        BY <1>4, <2>1
    <2>3. kept(t)[Len(s)] = kept(s)[Len(s)]
        BY <1>5, <2>1 DEF t
    <2> QED BY <1>3, <2>1, <2>2, <2>3 DEF t
<1>8. \A s \in Seq(X) : Kept(s, S) \in Seq(X)
    <2> DEFINE T == {s \in Seq(X) : Kept(s, S) \in Seq(X)}
    <2>1. <<>> \in T
        BY <1>6, EmptySeq
    <2>2. \A s \in Seq(X), x \in X : s \in T => Append(s, x) \in T
        BY <1>7, AppendProperties
    <2>3. \A s \in Seq(X) : s \in T
        <3> HIDE DEF T
        <3> QED BY <2>1, <2>2, ListInduction
    <2> QED BY <2>3
<1> QED BY <1>6, <1>7, <1>8

LEMMA KeptAppend ==
    ASSUME NEW X, NEW S, NEW s \in Seq(X), NEW x \in X
    PROVE  Kept(Append(s, x), S) = IF x \in S THEN Append(Kept(s, S), x) ELSE Kept(s, S)
<1>1. \A t \in Seq(X), y \in X :
          Kept(Append(t, y), S) = IF y \in S THEN Append(Kept(t, S), y) ELSE Kept(t, S)
    BY KeptStep, Zenon
<1> QED BY <1>1

LEMMA KeptShorter ==
    ASSUME NEW X, NEW S, NEW s \in Seq(X)
    PROVE  Kept(s, S) \in Seq(X) /\ Len(Kept(s, S)) <= Len(s)
<1> DEFINE Shorter(t) == Len(Kept(t, S)) <= Len(t)
           T == {t \in Seq(X) : Shorter(t)}
<1>1. <<>> \in T
    <2>1. Kept(<<>>, S) = <<>> /\ <<>> \in Seq(X) /\ Len(<<>>) = 0
        BY KeptStep, EmptySeq
    <2>2. Shorter(<<>>)
        <3> DEFINE none == <<>>
        <3>1. Kept(none, S) = none /\ Len(none) = 0
            BY <2>1
        <3> HIDE DEF none
        <3>2. Shorter(none)
            BY <3>1
        <3> QED BY <3>2 DEF none
    <2> HIDE DEF Shorter
    <2> QED BY <2>1, <2>2
<1>2. ASSUME NEW t \in Seq(X), NEW x \in X, t \in T PROVE Append(t, x) \in T
    <2> DEFINE k == Kept(t, S)
    <2>1. k \in Seq(X) /\ Len(k) <= Len(t)
        BY <1>2, KeptStep
    <2>2. Kept(Append(t, x), S) = IF x \in S THEN Append(k, x) ELSE k
        BY KeptAppend
    <2> HIDE DEF k
    <2>3. Append(k, x) \in Seq(X) /\ Len(Append(k, x)) = Len(k) + 1 /\ Len(k) \in Nat
        BY <2>1, AppendAt
    <2>4. Append(t, x) \in Seq(X) /\ Len(Append(t, x)) = Len(t) + 1 /\ Len(t) \in Nat
        BY AppendAt
    <2>5. Shorter(Append(t, x))
        BY <2>1, <2>2, <2>3, <2>4
    <2> HIDE DEF Shorter
    <2> QED BY <2>4, <2>5
<1>3. \A t \in Seq(X) : t \in T
    <2> HIDE DEF T
    <2> QED BY <1>1, <1>2, ListInduction
<1> QED BY <1>3, KeptStep

LEMMA KeptConcat ==
    ASSUME NEW X, NEW S, NEW s \in Seq(X)
    PROVE  \A t \in Seq(X) : Kept(s \o t, S) = Kept(s, S) \o Kept(t, S)
<1> DEFINE T == {t \in Seq(X) : Kept(s \o t, S) = Kept(s, S) \o Kept(t, S)}
<1>1. <<>> \in T
    <2>1. Kept(s, S) \in Seq(X) /\ Kept(<<>>, S) = <<>> /\ <<>> \in Seq(X)
        BY KeptStep, EmptySeq
    <2>2. s \o <<>> = s /\ Kept(s, S) \o <<>> = Kept(s, S)
        BY <2>1, ConcatEmptySeq
    <2> QED BY <2>1, <2>2
<1>2. ASSUME NEW t \in Seq(X), NEW x \in X, t \in T PROVE Append(t, x) \in T
    <2>1. s \o t \in Seq(X) /\ Append(t, x) \in Seq(X)
        BY ConcatProperties, AppendProperties
    <2>2. s \o Append(t, x) = Append(s \o t, x)
        BY AppendConcat
    <2>3. Kept(s \o t, S) = Kept(s, S) \o Kept(t, S)
        BY <1>2
    <2>4. Kept(Append(s \o t, x), S) = IF x \in S THEN Append(Kept(s \o t, S), x) ELSE Kept(s \o t, S)
        <3> DEFINE r == s \o t
        <3>1. r \in Seq(X)
            BY <2>1
        <3> HIDE DEF r
        <3>2. Kept(Append(r, x), S) = IF x \in S THEN Append(Kept(r, S), x) ELSE Kept(r, S)
            BY <3>1, KeptAppend
        <3> QED BY <3>2 DEF r
    <2>5. Kept(Append(t, x), S) = IF x \in S THEN Append(Kept(t, S), x) ELSE Kept(t, S)
        BY KeptAppend
    <2>6. Kept(s, S) \in Seq(X) /\ Kept(t, S) \in Seq(X)
        BY KeptStep
    <2>7. Kept(s, S) \o Append(Kept(t, S), x) = Append(Kept(s, S) \o Kept(t, S), x)
        BY <2>6, AppendConcat
    <2> QED BY <2>1, <2>2, <2>3, <2>4, <2>5, <2>7
<1>3. \A t \in Seq(X) : t \in T
    <2> HIDE DEF T
    <2> QED BY <1>1, <1>2, ListInduction
<1> QED BY <1>3

\* What a comprehension has: what the list has of it, distinct where that is.
LEMMA KeptElements ==
    ASSUME NEW X, NEW S, NEW s \in Seq(X)
    PROVE  /\ Kept(s, S) \in Seq(X \cap S)
           /\ ToSet(Kept(s, S)) = ToSet(s) \cap S
           /\ IsInjective(s) => IsInjective(Kept(s, S))
           /\ ToSet(s) \subseteq S => Kept(s, S) = s
<1> DEFINE T == {t \in Seq(X) : /\ Kept(t, S) \in Seq(X \cap S)
                                /\ ToSet(Kept(t, S)) = ToSet(t) \cap S
                                /\ IsInjective(t) => IsInjective(Kept(t, S))
                                /\ ToSet(t) \subseteq S => Kept(t, S) = t}
<1>1. <<>> \in T
    <2>1. Kept(<<>>, S) = <<>> /\ <<>> \in Seq(X) /\ <<>> \in Seq(X \cap S) /\ Len(<<>>) = 0
        BY KeptStep, EmptySeq
    <2>2. ToSet(<<>>) = {} /\ IsInjective(<<>>)
        BY <2>1 DEF ToSet, IsInjective
    <2> QED BY <2>1, <2>2
<1>2. ASSUME NEW t \in Seq(X), NEW x \in X, t \in T PROVE Append(t, x) \in T
    <2> DEFINE u == Append(t, x)
               k == Kept(t, S)
               l == Kept(u, S)
    <2>1. /\ u \in Seq(X) /\ ToSet(u) = ToSet(t) \cup {x}
          /\ IsInjective(u) <=> IsInjective(t) /\ x \notin ToSet(t)
        BY AppendElements
    <2>2. /\ k \in Seq(X \cap S) /\ ToSet(k) = ToSet(t) \cap S
          /\ IsInjective(t) => IsInjective(k)
          /\ ToSet(t) \subseteq S => k = t
        BY <1>2
    <2>3. l = IF x \in S THEN Append(k, x) ELSE k
        BY KeptAppend
    <2>4. CASE x \in S
        <3>1. /\ Append(k, x) \in Seq(X \cap S) /\ ToSet(Append(k, x)) = ToSet(k) \cup {x}
              /\ IsInjective(Append(k, x)) <=> IsInjective(k) /\ x \notin ToSet(k)
            BY <2>2, <2>4, AppendElements
        <3>2. l = Append(k, x)
            BY <2>3, <2>4
        <3>3. ToSet(u) \subseteq S => l = u
            BY <2>1, <2>2, <3>2
        <3> HIDE DEF u, k, l
        <3>4. ToSet(l) = ToSet(u) \cap S
            BY <2>1, <2>2, <2>4, <3>1, <3>2
        <3>5. IsInjective(u) => IsInjective(l)
            BY <2>1, <2>2, <3>1, <3>2
        <3> QED BY <2>1, <3>1, <3>2, <3>3, <3>4, <3>5 DEF u, l
    <2>5. CASE x \notin S
        <3>1. l = k
            BY <2>3, <2>5
        <3> HIDE DEF u, k, l
        <3>2. ToSet(l) = ToSet(u) \cap S /\ ~(ToSet(u) \subseteq S)
            BY <2>1, <2>2, <2>5, <3>1
        <3>3. IsInjective(u) => IsInjective(l)
            BY <2>1, <2>2, <3>1
        <3> QED BY <2>1, <2>2, <3>1, <3>2, <3>3 DEF u, l
    <2> QED BY <2>4, <2>5
<1>3. \A t \in Seq(X) : t \in T
    <2> HIDE DEF T
    <2> QED BY <1>1, <1>2, ListInduction
<1> QED BY <1>3

LEMMA KeptFirst ==
    ASSUME NEW X, NEW S, NEW s \in Seq(X), s # <<>>, s[1] \in S
    PROVE  Kept(s, S) # <<>> /\ Kept(s, S)[1] = s[1]
<1> DEFINE T == {t \in Seq(X) : t # <<>> /\ t[1] \in S => Kept(t, S) # <<>> /\ Kept(t, S)[1] = t[1]}
<1>1. <<>> \in T
    BY EmptySeq
<1>2. ASSUME NEW t \in Seq(X), NEW x \in X, t \in T PROVE Append(t, x) \in T
    <2> DEFINE u == Append(t, x)
    <2>1. u \in Seq(X) /\ u[Len(t) + 1] = x /\ Len(t) \in Nat /\ \A n \in 1..Len(t) : u[n] = t[n]
        BY AppendAt
    <2>2. Kept(u, S) = IF x \in S THEN Append(Kept(t, S), x) ELSE Kept(t, S)
        BY KeptAppend
    <2>3. Kept(t, S) \in Seq(X)
        BY KeptStep
    <2>4. CASE t = <<>>
        <3>1. Kept(t, S) = <<>> /\ u = <<x>>
            BY <2>4, KeptStep
        <3>2. u[1] = x /\ Append(<<>>, x) = <<x>>
            BY <3>1
        <3>3. x \in S => Kept(u, S) = <<x>>
            BY <2>2, <3>1, <3>2
        <3>4. x \in S => Kept(u, S) # <<>> /\ Kept(u, S)[1] = u[1]
            <4> DEFINE w == Kept(u, S)
            <4>1. <<x>> # <<>> /\ <<x>>[1] = x
                OBVIOUS
            <4>2. x \in S => w = <<x>>
                BY <3>3
            <4> HIDE DEF u, w
            <4>3. x \in S => w # <<>> /\ w[1] = u[1]
                BY <3>2, <4>1, <4>2
            <4> QED BY <4>3 DEF w
        <3> HIDE DEF u
        <3> QED BY <2>1, <3>2, <3>4 DEF u
    <2>5. CASE t # <<>>
        <3>1. 1 \in 1..Len(t) /\ u[1] = t[1]
            BY <2>1, <2>5
        <3>2. SUFFICES ASSUME t[1] \in S PROVE Kept(u, S) # <<>> /\ Kept(u, S)[1] = t[1]
            <4> HIDE DEF u
            <4> QED BY <2>1, <3>1 DEF u
        <3>3. Kept(t, S) # <<>> /\ Kept(t, S)[1] = t[1]
            BY <1>2, <2>5, <3>2
        <3> DEFINE k == Kept(t, S)
        <3>4. Len(k) \in Nat \ {0} /\ Append(k, x)[1] = k[1] /\ Append(k, x) # <<>>
            <4>1. k \in Seq(X) /\ k # <<>>
                BY <2>3, <3>3
            <4> HIDE DEF k
            <4> QED BY <4>1
        <3> HIDE DEF k, u
        <3> QED BY <2>2, <3>3, <3>4 DEF k
    <2> QED BY <2>4, <2>5
<1>3. \A t \in Seq(X) : t \in T
    <2> HIDE DEF T
    <2> QED BY <1>1, <1>2, ListInduction
<1> QED BY <1>3

\* A list of lists made one, list by list.
LEMMA JoinedStep ==
    ASSUME NEW X
    PROVE  /\ Joined(<<>>) = <<>>
           /\ \A s \in Seq(Seq(X)) : Joined(s) \in Seq(X)
           /\ \A s \in Seq(Seq(X)), x \in Seq(X) : Joined(Append(s, x)) = Joined(s) \o x
<1> DEFINE Y == Seq(X)
           Step(s, n) == [acc \in Y |-> acc \o s[n]]
           Is(f, s) == f = [n \in 0..Len(s) |-> IF n = 0 THEN <<>> ELSE f[n - 1] \o s[n]]
           joined(s) == CHOOSE f : Is(f, s)
<1>1. ASSUME NEW s, s \in Seq(Y) PROVE \E f : Is(f, s)
    <2> DEFINE Z == Y
               N == Len(s)
               first == <<>>
               F == [n \in 1..N |-> Step(s, n)]
    <2>1. N \in Nat /\ first \in Z
        BY <1>1, LenProperties, EmptySeq
    <2>2. \A n \in 1..N : s[n] \in Z
        BY <1>1, ElementOfSeq
    <2>3. ASSUME NEW n \in 1..N PROVE Step(s, n) \in [Z -> Z]
        <3>1. s[n] \in Seq(X)
            BY <2>2
        <3> QED BY <3>1, ConcatProperties
    <2>4. F \in [1..N -> [Z -> Z]]
        <3> HIDE DEF Step, Z, N
        <3> QED BY <2>3
    <2>5. PICK f \in [0..N -> Z] : f[0] = first /\ \A n \in 1..N : f[n] = F[n][f[n - 1]]
        <3> HIDE DEF Z, N, F, first
        <3> QED BY <2>1, <2>4, RecursionExists
    <2>6. \A n \in 1..N : n # 0 /\ n - 1 \in 0..N
        BY <2>1
    <2>7. \A n \in 1..N : f[n] = f[n - 1] \o s[n]
        <3> HIDE DEF N
        <3> QED BY <2>5, <2>6
    <2>8. \A n \in 0..N : f[n] = IF n = 0 THEN <<>> ELSE f[n - 1] \o s[n]
        <3> HIDE DEF F
        <3>1. \A n \in 0..N : n = 0 \/ n \in 1..N
            BY <2>1
        <3> HIDE DEF N
        <3> QED BY <2>5, <2>6, <2>7, <3>1
    <2>9. Is(f, s)
        <3> HIDE DEF F
        <3> QED BY <2>5, <2>8
    <2> QED BY <2>9
<1>2. ASSUME NEW s \in Seq(Y) PROVE Is(joined(s), s)
    <2> HIDE DEF Is
    <2> QED BY <1>1
<1>3. \A s : Joined(s) = joined(s)[Len(s)]
    BY DEF Joined
<1> HIDE DEF joined
<1>4. ASSUME NEW s \in Seq(Y)
      PROVE  /\ joined(s)[0] = <<>>
             /\ \A n \in 1..Len(s) : joined(s)[n] = joined(s)[n - 1] \o s[n]
    <2> DEFINE f == joined(s)
    <2>1. Len(s) \in Nat /\ Is(f, s)
        BY <1>2, LenProperties
    <2> HIDE DEF f
    <2>2. \A n \in 0..Len(s) : f[n] = IF n = 0 THEN <<>> ELSE f[n - 1] \o s[n]
        BY <2>1
    <2>3. \A n \in 1..Len(s) : n \in 0..Len(s) /\ n # 0
        BY <2>1
    <2>4. 0 \in 0..Len(s)
        BY <2>1
    <2>5. f[0] = <<>>
        BY <2>2, <2>4
    <2>6. \A n \in 1..Len(s) : f[n] = f[n - 1] \o s[n]
        BY <2>2, <2>3
    <2> QED BY <2>5, <2>6 DEF f
<1> HIDE DEF Is
<1>5. ASSUME NEW s \in Seq(Y), NEW x \in Y
      PROVE  \A n \in 0..Len(s) : joined(Append(s, x))[n] = joined(s)[n]
    <2> DEFINE t == Append(s, x)
               f == joined(s)
               g == joined(t)
               T == {n \in Nat : n <= Len(s) => g[n] = f[n]}
    <2>1. t \in Seq(Y) /\ Len(t) = Len(s) + 1 /\ Len(s) \in Nat /\ \A n \in 1..Len(s) : t[n] = s[n]
        <3> HIDE DEF Y
        <3> QED BY AppendAt
    <2>2. f[0] = <<>> /\ g[0] = <<>>
        BY <1>4, <2>1
    <2>3. \A n \in 1..Len(s) : f[n] = f[n - 1] \o s[n]
        BY <1>4
    <2>4. \A n \in 1..Len(t) : g[n] = g[n - 1] \o t[n]
        BY <1>4, <2>1
    <2> HIDE DEF t, f, g, Y
    <2>5. 0 \in T
        BY <2>2
    <2>6. ASSUME NEW n \in Nat, n \in T PROVE n + 1 \in T
        <3> SUFFICES ASSUME n + 1 <= Len(s) PROVE g[n + 1] = f[n + 1]
            OBVIOUS
        <3> DEFINE m == n + 1
        <3>1. m \in 1..Len(s) /\ m \in 1..Len(t) /\ m - 1 = n /\ g[n] = f[n]
            BY <2>1, <2>6
        <3> HIDE DEF m
        <3> QED BY <2>1, <2>3, <2>4, <3>1 DEF m
    <2>7. \A n \in Nat : n \in T
        <3> HIDE DEF T
        <3> QED BY <2>5, <2>6, SetInduction
    <2> QED BY <2>1, <2>7 DEF f, g, t
<1>6. Joined(<<>>) = <<>>
    <2>1. <<>> \in Seq(Y) /\ Len(<<>>) = 0
        <3> HIDE DEF Y
        <3> QED BY EmptySeq
    <2> QED BY <1>3, <1>4, <2>1
<1>7. ASSUME NEW s \in Seq(Y), NEW x \in Y
      PROVE  Joined(Append(s, x)) = Joined(s) \o x
    <2> DEFINE t == Append(s, x)
               m == Len(s) + 1
    <2>1. t \in Seq(Y) /\ Len(t) = m /\ m \in 1..m /\ m - 1 = Len(s) /\ t[m] = x /\ Len(s) \in 0..Len(s)
        <3> HIDE DEF Y
        <3> QED BY AppendAt
    <2> HIDE DEF t, m, Y
    <2>2. joined(t)[m] = joined(t)[Len(s)] \o x
        BY <1>4, <2>1
    <2>3. joined(t)[Len(s)] = joined(s)[Len(s)]
        BY <1>5, <2>1 DEF t
    <2> QED BY <1>3, <2>1, <2>2, <2>3 DEF t
<1>8. \A s \in Seq(Y) : Joined(s) \in Y
    <2> DEFINE T == {s \in Seq(Y) : Joined(s) \in Y}
    <2>1. <<>> \in T
        <3>1. <<>> \in Y
            BY EmptySeq
        <3> HIDE DEF Y
        <3> QED BY <1>6, <3>1, EmptySeq
    <2>2. ASSUME NEW s \in Seq(Y), NEW x \in Y, s \in T PROVE Append(s, x) \in T
        <3>1. Joined(s) \o x \in Y
            BY <2>2, ConcatProperties
        <3> HIDE DEF Y
        <3> QED BY <1>7, <2>2, <3>1, AppendAt
    <2>3. \A s \in Seq(Y) : s \in T
        <3> HIDE DEF T, Y
        <3> QED BY <2>1, <2>2, ListInduction
    <2> QED BY <2>3
<1> QED BY <1>6, <1>7, <1>8

\* A sum, summand by summand.
LEMMA SumStep ==
    /\ SumOf(<<>>) = 0
    /\ \A s \in Seq(Nat) : SumOf(s) \in Nat
    /\ \A s \in Seq(Nat), x \in Nat : SumOf(Append(s, x)) = SumOf(s) + x
<1> DEFINE Y == Nat
           Step(s, n) == [acc \in Y |-> acc + s[n]]
           Is(f, s) == f = [n \in 0..Len(s) |-> IF n = 0 THEN 0 ELSE f[n - 1] + s[n]]
           total(s) == CHOOSE f : Is(f, s)
<1>1. ASSUME NEW s, s \in Seq(Y) PROVE \E f : Is(f, s)
    <2> DEFINE Z == Y
               N == Len(s)
               first == 0
               F == [n \in 1..N |-> Step(s, n)]
    <2>1. N \in Nat /\ first \in Z
        BY <1>1, LenProperties, EmptySeq
    <2>2. \A n \in 1..N : s[n] \in Z
        BY <1>1, ElementOfSeq
    <2>3. ASSUME NEW n \in 1..N PROVE Step(s, n) \in [Z -> Z]
        <3>1. s[n] \in Nat
            BY <2>2
        <3> QED BY <3>1
    <2>4. F \in [1..N -> [Z -> Z]]
        <3> HIDE DEF Step, Z, N
        <3> QED BY <2>3
    <2>5. PICK f \in [0..N -> Z] : f[0] = first /\ \A n \in 1..N : f[n] = F[n][f[n - 1]]
        <3> HIDE DEF Z, N, F, first
        <3> QED BY <2>1, <2>4, RecursionExists
    <2>6. \A n \in 1..N : n # 0 /\ n - 1 \in 0..N
        BY <2>1
    <2>7. \A n \in 1..N : f[n] = f[n - 1] + s[n]
        <3> HIDE DEF N
        <3> QED BY <2>5, <2>6
    <2>8. \A n \in 0..N : f[n] = IF n = 0 THEN 0 ELSE f[n - 1] + s[n]
        <3> HIDE DEF F
        <3>1. \A n \in 0..N : n = 0 \/ n \in 1..N
            BY <2>1
        <3> HIDE DEF N
        <3> QED BY <2>5, <2>6, <2>7, <3>1
    <2>9. Is(f, s)
        <3> HIDE DEF F
        <3> QED BY <2>5, <2>8
    <2> QED BY <2>9
<1>2. ASSUME NEW s \in Seq(Y) PROVE Is(total(s), s)
    <2> HIDE DEF Is
    <2> QED BY <1>1
<1>3. \A s : SumOf(s) = total(s)[Len(s)]
    BY DEF SumOf
<1> HIDE DEF total
<1>4. ASSUME NEW s \in Seq(Y)
      PROVE  /\ total(s)[0] = 0
             /\ \A n \in 1..Len(s) : total(s)[n] = total(s)[n - 1] + s[n]
    <2> DEFINE f == total(s)
    <2>1. Len(s) \in Nat /\ Is(f, s)
        BY <1>2, LenProperties
    <2> HIDE DEF f
    <2>2. \A n \in 0..Len(s) : f[n] = IF n = 0 THEN 0 ELSE f[n - 1] + s[n]
        BY <2>1
    <2>3. \A n \in 1..Len(s) : n \in 0..Len(s) /\ n # 0
        BY <2>1
    <2>4. 0 \in 0..Len(s)
        BY <2>1
    <2>5. f[0] = 0
        BY <2>2, <2>4
    <2>6. \A n \in 1..Len(s) : f[n] = f[n - 1] + s[n]
        BY <2>2, <2>3
    <2> QED BY <2>5, <2>6 DEF f
<1> HIDE DEF Is
<1>5. ASSUME NEW s \in Seq(Y), NEW x \in Y
      PROVE  \A n \in 0..Len(s) : total(Append(s, x))[n] = total(s)[n]
    <2> DEFINE t == Append(s, x)
               f == total(s)
               g == total(t)
               T == {n \in Nat : n <= Len(s) => g[n] = f[n]}
    <2>1. t \in Seq(Y) /\ Len(t) = Len(s) + 1 /\ Len(s) \in Nat /\ \A n \in 1..Len(s) : t[n] = s[n]
        <3> HIDE DEF Y
        <3> QED BY AppendAt
    <2>2. f[0] = 0 /\ g[0] = 0
        BY <1>4, <2>1
    <2>3. \A n \in 1..Len(s) : f[n] = f[n - 1] + s[n]
        BY <1>4
    <2>4. \A n \in 1..Len(t) : g[n] = g[n - 1] + t[n]
        BY <1>4, <2>1
    <2> HIDE DEF t, f, g, Y
    <2>5. 0 \in T
        BY <2>2
    <2>6. ASSUME NEW n \in Nat, n \in T PROVE n + 1 \in T
        <3> SUFFICES ASSUME n + 1 <= Len(s) PROVE g[n + 1] = f[n + 1]
            OBVIOUS
        <3> DEFINE m == n + 1
        <3>1. m \in 1..Len(s) /\ m \in 1..Len(t) /\ m - 1 = n /\ g[n] = f[n]
            BY <2>1, <2>6
        <3> HIDE DEF m
        <3> QED BY <2>1, <2>3, <2>4, <3>1 DEF m
    <2>7. \A n \in Nat : n \in T
        <3> HIDE DEF T
        <3> QED BY <2>5, <2>6, SetInduction
    <2> QED BY <2>1, <2>7 DEF f, g, t
<1>6. SumOf(<<>>) = 0
    <2>1. <<>> \in Seq(Y) /\ Len(<<>>) = 0
        <3> HIDE DEF Y
        <3> QED BY EmptySeq
    <2> QED BY <1>3, <1>4, <2>1
<1>7. ASSUME NEW s \in Seq(Y), NEW x \in Y
      PROVE  SumOf(Append(s, x)) = SumOf(s) + x
    <2> DEFINE t == Append(s, x)
               m == Len(s) + 1
    <2>1. t \in Seq(Y) /\ Len(t) = m /\ m \in 1..m /\ m - 1 = Len(s) /\ t[m] = x /\ Len(s) \in 0..Len(s)
        <3> HIDE DEF Y
        <3> QED BY AppendAt
    <2> HIDE DEF t, m, Y
    <2>2. total(t)[m] = total(t)[Len(s)] + x
        BY <1>4, <2>1
    <2>3. total(t)[Len(s)] = total(s)[Len(s)]
        BY <1>5, <2>1 DEF t
    <2> QED BY <1>3, <2>1, <2>2, <2>3 DEF t
<1>8. \A s \in Seq(Y) : SumOf(s) \in Y
    <2> DEFINE T == {s \in Seq(Y) : SumOf(s) \in Y}
    <2>1. <<>> \in T
        <3>1. 0 \in Y
            OBVIOUS
        <3> HIDE DEF Y
        <3> QED BY <1>6, <3>1, EmptySeq
    <2>2. ASSUME NEW s \in Seq(Y), NEW x \in Y, s \in T PROVE Append(s, x) \in T
        <3>1. SumOf(s) + x \in Y
            BY <2>2
        <3> HIDE DEF Y
        <3> QED BY <1>7, <2>2, <3>1, AppendAt
    <2>3. \A s \in Seq(Y) : s \in T
        <3> HIDE DEF T, Y
        <3> QED BY <2>1, <2>2, ListInduction
    <2> QED BY <2>3
<1> QED BY <1>6, <1>7, <1>8
\* A list that is another one and a last element.
LEMMA AppendIs ==
    ASSUME NEW X, NEW s \in Seq(X), NEW x \in X, NEW t \in Seq(X), Len(t) = Len(s) + 1,
           \A n \in 1..Len(s) : t[n] = s[n], t[Len(s) + 1] = x
    PROVE  t = Append(s, x)
<1> DEFINE u == Append(s, x)
           N == Len(s)
<1>1. /\ u \in Seq(X) /\ Len(u) = N + 1 /\ N \in Nat
      /\ \A n \in 1..N : u[n] = s[n]
      /\ u[N + 1] = x
    BY AppendAt
<1>2. t \in Seq(X) /\ Len(t) = N + 1 /\ (\A n \in 1..N : t[n] = s[n]) /\ t[N + 1] = x
    OBVIOUS
<1> HIDE DEF u, N
<1>3. 1..(N + 1) = (1..N) \cup {N + 1}
    BY <1>1
<1>4. \A n \in 1..(N + 1) : t[n] = u[n]
    BY <1>1, <1>2, <1>3
<1>5. t = [n \in 1..Len(t) |-> t[n]] /\ u = [n \in 1..Len(u) |-> u[n]]
    BY <1>1, <1>2
<1>6. Len(t) = N + 1 /\ Len(u) = N + 1
    BY <1>1, <1>2
<1> HIDE <1>1, <1>2
<1>7. t = u
    BY <1>4, <1>5, <1>6
<1> QED BY <1>7 DEF u

\* The same function of every element of a list that has one element more.
LEMMA MapAppend ==
    ASSUME NEW X, NEW Y, NEW F \in [X -> Y], NEW s, s \in Seq(X), NEW x \in X,
           NEW u, u \in [DOMAIN s -> Y], \A i \in DOMAIN s : u[i] = F[s[i]],
           NEW v, v \in [DOMAIN Append(s, x) -> Y],
           \A i \in DOMAIN Append(s, x) : v[i] = F[Append(s, x)[i]]
    PROVE  u \in Seq(Y) /\ v = Append(u, F[x])
<1> DEFINE N == Len(s)
           a == Append(s, x)
           y == F[x]
<1>1. /\ a \in Seq(X) /\ Len(a) = N + 1 /\ N \in Nat
      /\ \A n \in 1..N : a[n] = s[n]
      /\ a[N + 1] = x
    BY AppendAt
<1>2. DOMAIN s = 1..N /\ DOMAIN a = 1..(N + 1)
    BY <1>1, LenProperties
<1>3. y \in Y /\ N \in Nat
    BY <1>1
<1>4. u \in [1..N -> Y] /\ v \in [1..(N + 1) -> Y]
    BY <1>2
<1> HIDE DEF N, a, y
<1>5. \A n \in 1..N : v[n] = u[n] /\ n \in 1..(N + 1)
    <2> SUFFICES ASSUME NEW n \in 1..N PROVE v[n] = u[n] /\ n \in 1..(N + 1)
        OBVIOUS
    <2>1. n \in 1..(N + 1)
        BY <1>3
    <2>2. v[n] = F[a[n]]
        BY <1>2, <2>1 DEF a
    <2>3. u[n] = F[s[n]]
        BY <1>2
    <2> QED BY <1>1, <2>1, <2>2, <2>3
<1>6. v[N + 1] = y
    <2>1. N + 1 \in 1..(N + 1)
        BY <1>3
    <2>2. v[N + 1] = F[a[N + 1]]
        BY <1>2, <2>1 DEF a
    <2> QED BY <1>1, <2>2 DEF y
<1>7. u \in Seq(Y) /\ Len(u) = N /\ v \in Seq(Y) /\ Len(v) = N + 1
    BY <1>3, <1>4
<1>8. v = Append(u, y)
    BY <1>3, <1>5, <1>6, <1>7, AppendIs
<1> QED BY <1>7, <1>8 DEF y

\* A comprehension over a joined list joins the comprehensions over the lists.
LEMMA KeptJoined ==
    ASSUME NEW X, NEW S, NEW ss, ss \in Seq(Seq(X)),
           NEW kk, kk \in [DOMAIN ss -> Seq(X)], \A i \in DOMAIN ss : kk[i] = Kept(ss[i], S)
    PROVE  Kept(Joined(ss), S) = Joined(kk)
<1> DEFINE Z == Seq(X)
           F == [s \in Z |-> Kept(s, S)]
           Of(tt) == [i \in DOMAIN tt |-> F[tt[i]]]
           T == {tt \in Seq(Z) : Kept(Joined(tt), S) = Joined(Of(tt))}
<1>1. F \in [Z -> Z]
    BY KeptStep
<1>2. <<>> \in T
    <2> DEFINE none == <<>>
    <2>1. Joined(none) = none /\ Kept(none, S) = none /\ none \in Seq(Z) /\ DOMAIN none = {}
        BY JoinedStep, KeptStep, EmptySeq
    <2>2. Of(none) = none
        BY <2>1
    <2> HIDE DEF none
    <2>3. Kept(Joined(none), S) = Joined(Of(none))
        BY <2>1, <2>2
    <2>4. none \in T
        BY <2>1, <2>3
    <2> QED BY <2>4 DEF none
<1>3. ASSUME NEW tt, tt \in Seq(Z), NEW t \in Z, tt \in T PROVE Append(tt, t) \in T
    <2>1. Joined(tt) \in Seq(X) /\ Joined(Append(tt, t)) = Joined(tt) \o t
        BY <1>3, JoinedStep
    <2>2. Kept(Joined(tt) \o t, S) = Kept(Joined(tt), S) \o Kept(t, S)
        BY <2>1, KeptConcat
    <2>3. Of(tt) \in Seq(Z) /\ Of(Append(tt, t)) = Append(Of(tt), F[t])
        <3> DEFINE u == Of(tt)
                   v == Of(Append(tt, t))
        <3>1. Append(tt, t) \in Seq(Z)
            BY <1>3, AppendProperties
        <3>2. /\ \A i \in DOMAIN tt : tt[i] \in Z
              /\ \A i \in DOMAIN Append(tt, t) : Append(tt, t)[i] \in Z
            <4> HIDE DEF Z
            <4> QED BY <1>3, <3>1, LenProperties, ElementOfSeq
        <3> HIDE DEF F, Z
        <3>3. u \in [DOMAIN tt -> Z] /\ \A i \in DOMAIN tt : u[i] = F[tt[i]]
            BY <1>1, <3>2
        <3>4. /\ v \in [DOMAIN Append(tt, t) -> Z]
              /\ \A i \in DOMAIN Append(tt, t) : v[i] = F[Append(tt, t)[i]]
            BY <1>1, <3>2
        <3>5. tt \in Seq(Z)
            BY <1>3
        <3> HIDE DEF u, v
        <3>6. u \in Seq(Z) /\ v = Append(u, F[t])
            BY <1>1, <3>3, <3>4, <3>5, MapAppend
        <3> QED BY <3>6 DEF u, v
    <2>4. F[t] = Kept(t, S) /\ F[t] \in Z
        BY <1>1
    <2>5. Kept(Joined(tt), S) = Joined(Of(tt))
        BY <1>3
    <2>6. Append(tt, t) \in Seq(Z)
        BY <1>3, AppendProperties
    <2> HIDE DEF Of, F
    <2>7. Joined(Append(Of(tt), F[t])) = Joined(Of(tt)) \o F[t]
        BY <2>3, <2>4, JoinedStep
    <2>8. Kept(Joined(Append(tt, t)), S) = Joined(Of(Append(tt, t)))
        BY <2>1, <2>2, <2>3, <2>4, <2>5, <2>7
    <2> QED BY <2>6, <2>8
<1> HIDE DEF T
<1>4. ss \in T
    <2>1. \A tt \in Seq(Z), t \in Z : tt \in T => Append(tt, t) \in T
        BY <1>3
    <2> HIDE DEF Z
    <2>2. \A tt \in Seq(Z) : tt \in T
        BY <1>2, <2>1, ListInduction
    <2>3. ss \in Seq(Z)
        BY DEF Z
    <2> QED BY <2>2, <2>3
<1>5. Of(ss) = kk
    <2>1. \A i \in DOMAIN ss : ss[i] \in Z
        BY LenProperties, ElementOfSeq
    <2>2. \A i \in DOMAIN ss : F[ss[i]] = kk[i]
        BY <2>1
    <2>3. kk = [i \in DOMAIN ss |-> kk[i]]
        OBVIOUS
    <2> HIDE DEF F
    <2> QED BY <2>2, <2>3
<1>6. Kept(Joined(ss), S) = Joined(Of(ss))
    BY <1>4 DEF T
<1> QED BY <1>5, <1>6

\* What two lists one after the other contain.
LEMMA ConcatElements ==
    ASSUME NEW X, NEW s \in Seq(X), NEW t \in Seq(X)
    PROVE  /\ s \o t \in Seq(X) /\ ToSet(s \o t) = ToSet(s) \cup ToSet(t)
           /\ IsInjective(s \o t) <=> /\ IsInjective(s) /\ IsInjective(t)
                                      /\ ToSet(s) \cap ToSet(t) = {}
<1> DEFINE u == s \o t
           m == Len(s)
           n == Len(t)
<1>1. /\ u \in Seq(X) /\ Len(u) = m + n /\ m \in Nat /\ n \in Nat
      /\ \A i \in 1..(m + n) : u[i] = IF i <= m THEN s[i] ELSE t[i - m]
    BY ConcatProperties, LenProperties
<1>2. DOMAIN u = 1..(m + n) /\ DOMAIN s = 1..m /\ DOMAIN t = 1..n
    BY <1>1, LenProperties
<1> HIDE DEF u, m, n
<1>3. \A i \in 1..m : i \in 1..(m + n) /\ u[i] = s[i]
    BY <1>1
<1>4. \A j \in 1..n : j + m \in 1..(m + n) /\ u[j + m] = t[j]
    <2> SUFFICES ASSUME NEW j \in 1..n PROVE j + m \in 1..(m + n) /\ u[j + m] = t[j]
        OBVIOUS
    <2>1. j + m \in 1..(m + n) /\ ~(j + m <= m) /\ (j + m) - m = j
        BY <1>1
    <2> QED BY <1>1, <2>1
<1>5. \A i \in 1..(m + n) : i \in 1..m \/ \E j \in 1..n : i = j + m
    <2> SUFFICES ASSUME NEW i \in 1..(m + n), i \notin 1..m PROVE \E j \in 1..n : i = j + m
        OBVIOUS
    <2>1. i - m \in 1..n /\ i = (i - m) + m
        BY <1>1
    <2> QED BY <2>1
<1>6. \A i \in 1..m : \A j \in 1..n : i # j + m
    BY <1>1
<1>7. \A i, j \in 1..n : i + m = j + m => i = j
    BY <1>1
<1>8. ToSet(u) = ToSet(s) \cup ToSet(t)
    BY <1>2, <1>3, <1>4, <1>5 DEF ToSet
<1>9. ASSUME IsInjective(u)
      PROVE  IsInjective(s) /\ IsInjective(t) /\ ToSet(s) \cap ToSet(t) = {}
    <2>1. \A i, j \in 1..(m + n) : u[i] = u[j] => i = j
        BY <1>2, <1>9 DEF IsInjective
    <2>2. \A i, j \in 1..m : s[i] = s[j] => i = j
        BY <2>1, <1>3
    <2>3. \A i, j \in 1..n : t[i] = t[j] => i = j
        <3> SUFFICES ASSUME NEW i \in 1..n, NEW j \in 1..n, t[i] = t[j] PROVE i = j
            OBVIOUS
        <3>1. i + m \in 1..(m + n) /\ j + m \in 1..(m + n) /\ u[i + m] = u[j + m]
            BY <1>4
        <3> QED BY <2>1, <3>1, <1>7
    <2>4. \A i \in 1..m : \A j \in 1..n : s[i] # t[j]
        BY <2>1, <1>3, <1>4, <1>6
    <2> QED BY <1>2, <2>2, <2>3, <2>4 DEF IsInjective, ToSet
<1>10. ASSUME IsInjective(s), IsInjective(t), ToSet(s) \cap ToSet(t) = {}
       PROVE  IsInjective(u)
    <2>1. \A i, j \in 1..m : s[i] = s[j] => i = j
        BY <1>2, <1>10 DEF IsInjective
    <2>2. \A i, j \in 1..n : t[i] = t[j] => i = j
        BY <1>2, <1>10 DEF IsInjective
    <2>3. \A i \in 1..m : \A j \in 1..n : s[i] # t[j]
        BY <1>2, <1>10 DEF ToSet
    <2>4. \A i, j \in 1..(m + n) : u[i] = u[j] => i = j
        <3> SUFFICES ASSUME NEW i \in 1..(m + n), NEW j \in 1..(m + n), u[i] = u[j] PROVE i = j
            OBVIOUS
        <3>1. CASE i \in 1..m /\ j \in 1..m
            BY <3>1, <2>1, <1>3
        <3>2. CASE i \in 1..m /\ j \notin 1..m
            BY <3>2, <2>3, <1>3, <1>4, <1>5
        <3>3. CASE i \notin 1..m /\ j \in 1..m
            BY <3>3, <2>3, <1>3, <1>4, <1>5
        <3>4. CASE i \notin 1..m /\ j \notin 1..m
            BY <3>4, <2>2, <1>4, <1>5
        <3> QED BY <3>1, <3>2, <3>3, <3>4
    <2> QED BY <1>2, <2>4 DEF IsInjective
<1>11. u \in Seq(X) /\ (IsInjective(u) <=> IsInjective(s) /\ IsInjective(t) /\ ToSet(s) \cap ToSet(t) = {})
    BY <1>1, <1>9, <1>10
<1> QED BY <1>8, <1>11 DEF u

\* What a list of lists contains when it is made one: nothing twice exactly if no
\* list has anything twice and no two lists have anything in common.
LEMMA JoinedElements ==
    ASSUME NEW X, NEW ss, ss \in Seq(Seq(X))
    PROVE  /\ Joined(ss) \in Seq(X)
           /\ ToSet(Joined(ss)) = UNION {ToSet(ss[i]) : i \in DOMAIN ss}
           /\ IsInjective(Joined(ss)) <=>
                  /\ \A i \in DOMAIN ss : IsInjective(ss[i])
                  /\ \A i, j \in DOMAIN ss : i # j => ToSet(ss[i]) \cap ToSet(ss[j]) = {}
<1> DEFINE Y == Seq(X)
           All(tt) == UNION {ToSet(tt[i]) : i \in DOMAIN tt}
           Apart(tt) == /\ \A i \in DOMAIN tt : IsInjective(tt[i])
                        /\ \A i, j \in DOMAIN tt : i # j => ToSet(tt[i]) \cap ToSet(tt[j]) = {}
           T == {tt \in Seq(Y) : /\ ToSet(Joined(tt)) = All(tt)
                                 /\ IsInjective(Joined(tt)) <=> Apart(tt)}
<1>1. <<>> \in T
    <2> DEFINE none == <<>>
    <2>1. Joined(none) = none /\ none \in Seq(Y) /\ DOMAIN none = {}
        BY JoinedStep, EmptySeq
    <2> HIDE DEF none
    <2>2. ToSet(none) = {} /\ All(none) = {} /\ IsInjective(none) /\ Apart(none)
        BY <2>1 DEF ToSet, IsInjective
    <2>3. none \in T
        BY <2>1, <2>2
    <2> QED BY <2>3 DEF none
<1>2. ASSUME NEW tt, tt \in Seq(Y), NEW t \in Y, tt \in T PROVE Append(tt, t) \in T
    <2> DEFINE uu == Append(tt, t)
               n == Len(tt) + 1
               D == DOMAIN tt
    <2>1. /\ uu \in Seq(Y) /\ DOMAIN uu = D \cup {n} /\ n \notin D /\ uu[n] = t
          /\ \A i \in D : uu[i] = tt[i]
        <3> HIDE DEF Y
        <3>1. /\ uu \in Seq(Y) /\ Len(uu) = n /\ Len(tt) \in Nat
              /\ \A i \in 1..Len(tt) : uu[i] = tt[i]
              /\ uu[n] = t
            BY <1>2, AppendAt
        <3>2. DOMAIN uu = 1..n /\ D = 1..Len(tt)
            BY <1>2, <3>1, LenProperties
        <3>3. 1..n = (1..Len(tt)) \cup {n} /\ n \notin 1..Len(tt)
            BY <3>1
        <3> QED BY <3>1, <3>2, <3>3
    <2>2. Joined(tt) \in Y /\ Joined(uu) = Joined(tt) \o t
        BY <1>2, JoinedStep
    <2> DEFINE j == Joined(tt)
    <2>3. /\ ToSet(j \o t) = ToSet(j) \cup ToSet(t)
          /\ IsInjective(j \o t) <=> /\ IsInjective(j) /\ IsInjective(t)
                                     /\ ToSet(j) \cap ToSet(t) = {}
        BY <2>2, ConcatElements
    <2>4. ToSet(j) = All(tt) /\ (IsInjective(j) <=> Apart(tt))
        BY <1>2
    <2> HIDE DEF uu, n, D, j
    <2>5. All(uu) = All(tt) \cup ToSet(t)
        BY <2>1 DEF D
    <2>6. Apart(uu) <=> Apart(tt) /\ IsInjective(t) /\ All(tt) \cap ToSet(t) = {}
        <3>1. ASSUME Apart(uu) PROVE Apart(tt) /\ IsInjective(t) /\ All(tt) \cap ToSet(t) = {}
            <4>1. \A i \in D \cup {n} : IsInjective(uu[i])
                BY <3>1, <2>1
            <4>2. \A i, k \in D \cup {n} : i # k => ToSet(uu[i]) \cap ToSet(uu[k]) = {}
                BY <3>1, <2>1
            <4>3. IsInjective(t)
                BY <4>1, <2>1
            <4>4. Apart(tt)
                BY <4>1, <4>2, <2>1 DEF D
            <4>5. \A i \in D : ToSet(tt[i]) \cap ToSet(t) = {}
                <5>1. \A i \in D : ToSet(uu[i]) \cap ToSet(uu[n]) = {}
                    BY <4>2, <2>1
                <5> QED BY <5>1, <2>1
            <4>6. All(tt) \cap ToSet(t) = {}
                BY <4>5 DEF D
            <4> QED BY <4>3, <4>4, <4>6
        <3>2. ASSUME Apart(tt), IsInjective(t), All(tt) \cap ToSet(t) = {} PROVE Apart(uu)
            <4>1. \A i \in D : ToSet(uu[i]) \cap ToSet(uu[n]) = {} /\ ToSet(uu[n]) \cap ToSet(uu[i]) = {}
                BY <3>2, <2>1 DEF D
            <4>2. \A i, k \in D : i # k => ToSet(uu[i]) \cap ToSet(uu[k]) = {}
                BY <3>2, <2>1 DEF D
            <4>3. \A i \in D \cup {n} : IsInjective(uu[i])
                <5>1. \A i \in D : IsInjective(uu[i])
                    BY <3>2, <2>1 DEF D
                <5>2. IsInjective(uu[n])
                    BY <3>2, <2>1
                <5> QED BY <5>1, <5>2
            <4> QED BY <2>1, <4>1, <4>2, <4>3
        <3> QED BY <3>1, <3>2
    <2>7. ToSet(Joined(uu)) = All(uu) /\ (IsInjective(Joined(uu)) <=> Apart(uu))
        <3> HIDE DEF All, Apart
        <3> QED BY <2>2, <2>3, <2>4, <2>5, <2>6 DEF j
    <2>8. uu \in T
        <3> HIDE DEF All, Apart
        <3> QED BY <2>1, <2>7
    <2> HIDE DEF T
    <2> QED BY <2>8 DEF uu
<1>3. ss \in T
    <2> HIDE DEF T
    <2>1. \A tt \in Seq(Y), t \in Y : tt \in T => Append(tt, t) \in T
        BY <1>2
    <2> HIDE DEF Y
    <2>2. \A tt \in Seq(Y) : tt \in T
        BY <1>1, <2>1, ListInduction
    <2> QED BY <2>2 DEF Y
<1>4. Joined(ss) \in Seq(X)
    BY JoinedStep
<1> QED BY <1>3, <1>4

\* A recursion along a list is a function of the list, step by step.
Folded(H, Y, Z, first, G) ==
    /\ H \in [Seq(Y) -> Z]
    /\ H[<<>>] = first
    /\ \A s \in Seq(Y), y \in Y : H[Append(s, y)] = G[y][H[s]]
    /\ \A s \in Seq(Y) : \E f \in [0..Len(s) -> Z] :
           /\ f[0] = first /\ f[Len(s)] = H[s]
           /\ \A n \in 1..Len(s) : f[n] = G[s[n]][f[n - 1]]

\* Every step taken along every list describes such a function.
LEMMA FoldStep ==
    ASSUME NEW Y, NEW Z, NEW first, first \in Z, NEW G, \A y \in Y : G[y] \in [Z -> Z]
    PROVE  \E H : Folded(H, Y, Z, first, G)
<1> DEFINE Is(f, s) == f[0] = first /\ \A n \in 1..Len(s) : f[n] = G[s[n]][f[n - 1]]
           Step(s, n) == G[s[n]]
           run(s) == CHOOSE f \in [0..Len(s) -> Z] : Is(f, s)
           H == [s \in Seq(Y) |-> run(s)[Len(s)]]
<1>1. ASSUME NEW s, s \in Seq(Y) PROVE \E f \in [0..Len(s) -> Z] : Is(f, s)
    <2> DEFINE N == Len(s)
               X == Z
               start == first
               F == [n \in 1..N |-> Step(s, n)]
    <2>1. N \in Nat /\ start \in X
        BY <1>1, LenProperties
    <2>2. \A n \in 1..N : s[n] \in Y
        BY <1>1, ElementOfSeq
    <2>3. ASSUME NEW n \in 1..N PROVE Step(s, n) \in [X -> X]
        <3>1. G[s[n]] \in [Z -> Z]
            BY <2>2
        <3> QED BY <3>1
    <2>4. F \in [1..N -> [X -> X]]
        <3> HIDE DEF Step, N, X
        <3> QED BY <2>3
    <2>5. PICK f \in [0..N -> X] : f[0] = start /\ \A n \in 1..N : f[n] = F[n][f[n - 1]]
        <3> HIDE DEF N, F, X, start
        <3> QED BY <2>1, <2>4, RecursionExists
    <2>6. \A n \in 1..N : n - 1 \in 0..N
        BY <2>1
    <2>7. \A n \in 1..N : f[n] = G[s[n]][f[n - 1]]
        <3> HIDE DEF N
        <3> QED BY <2>5, <2>6
    <2> HIDE DEF F
    <2> QED BY <2>5, <2>7
<1>2. ASSUME NEW s \in Seq(Y) PROVE run(s) \in [0..Len(s) -> Z] /\ Is(run(s), s)
    <2> HIDE DEF Is
    <2> QED BY <1>1
<1> HIDE DEF run
<1>3. H \in [Seq(Y) -> Z] /\ \A s \in Seq(Y) : H[s] = run(s)[Len(s)]
    <2>1. ASSUME NEW s \in Seq(Y) PROVE run(s)[Len(s)] \in Z
        <3>1. Len(s) \in 0..Len(s)
            BY LenProperties
        <3> QED BY <1>2, <3>1
    <2> QED BY <2>1
<1> HIDE DEF H
<1>4. H[<<>>] = first
    <2>1. <<>> \in Seq(Y) /\ Len(<<>>) = 0
        BY EmptySeq
    <2> QED BY <1>2, <1>3, <2>1
<1>5. ASSUME NEW s \in Seq(Y), NEW y \in Y PROVE H[Append(s, y)] = G[y][H[s]]
    <2> DEFINE t == Append(s, y)
               N == Len(s)
               f == run(s)
               g == run(t)
               F == [n \in 1..N |-> Step(s, n)]
               T == {n \in Nat : n <= N => g[n] = f[n]}
    <2>1. t \in Seq(Y) /\ Len(t) = N + 1 /\ N \in Nat /\ (\A n \in 1..N : t[n] = s[n]) /\ t[N + 1] = y
        BY AppendAt
    <2>2. f[0] = first /\ \A n \in 1..N : f[n] = G[s[n]][f[n - 1]]
        BY <1>2
    <2>3. g[0] = first /\ \A n \in 1..(N + 1) : g[n] = G[t[n]][g[n - 1]]
        BY <1>2, <2>1
    <2> HIDE DEF t, f, g, N
    <2>4. 0 \in T
        BY <2>2, <2>3
    <2>5. ASSUME NEW n \in Nat, n \in T PROVE n + 1 \in T
        <3> SUFFICES ASSUME n + 1 <= N PROVE g[n + 1] = f[n + 1]
            OBVIOUS
        <3> DEFINE m == n + 1
        <3>1. m \in 1..N /\ m \in 1..(N + 1) /\ m - 1 = n /\ g[n] = f[n]
            BY <2>1, <2>5
        <3> HIDE DEF m
        <3> QED BY <2>1, <2>2, <2>3, <3>1 DEF m
    <2>6. \A n \in Nat : n \in T
        <3> HIDE DEF T
        <3> QED BY <2>4, <2>5, SetInduction
    <2>7. g[N] = f[N]
        BY <2>1, <2>6
    <2> DEFINE m == N + 1
    <2>8. m \in 1..(N + 1) /\ m - 1 = N /\ t[m] = y
        BY <2>1
    <2>9. g[m] = G[y][f[N]]
        <3> HIDE DEF m
        <3> QED BY <2>3, <2>7, <2>8
    <2>10. H[t] = g[m] /\ H[s] = f[N]
        BY <1>3, <2>1 DEF f, g, N
    <2> QED BY <2>9, <2>10 DEF t
<1>6. ASSUME NEW s \in Seq(Y)
      PROVE  \E f \in [0..Len(s) -> Z] : /\ f[0] = first /\ f[Len(s)] = H[s]
                                         /\ \A n \in 1..Len(s) : f[n] = G[s[n]][f[n - 1]]
    BY <1>2, <1>3
<1> HIDE DEF Is
<1>7. Folded(H, Y, Z, first, G)
    BY <1>3, <1>4, <1>5, <1>6 DEF Folded
<1> QED BY <1>7

\* The lists that a function makes of the elements of a list, joined.
Flat(F, s) == Joined([k \in DOMAIN s |-> F[s[k]]])
Flats(F, ss) == [i \in DOMAIN ss |-> Flat(F, ss[i])]
Lister(F, Q, X) == F \in [Q -> Seq(X)]

\* A map over a list, element by element.
LEMMA FlatStep ==
    ASSUME NEW Q, NEW X, NEW F, Lister(F, Q, X)
    PROVE  /\ Flat(F, <<>>) = <<>>
           /\ \A ps \in Seq(Q) : Flat(F, ps) \in Seq(X)
           /\ \A ps \in Seq(Q), c \in Q : Flat(F, Append(ps, c)) = Flat(F, ps) \o F[c]
<1> DEFINE Y == Seq(X)
           Of(ps) == [k \in DOMAIN ps |-> F[ps[k]]]
<1>1. F \in [Q -> Y]
    BY DEF Lister
<1>2. ASSUME NEW ps, ps \in Seq(Q) PROVE \A k \in DOMAIN ps : ps[k] \in Q /\ F[ps[k]] \in Y
    BY <1>1, <1>2, LenProperties, ElementOfSeq
<1>3. ASSUME NEW ps, ps \in Seq(Q) PROVE Of(ps) \in Seq(Y)
    <2>1. DOMAIN ps = 1..Len(ps) /\ Len(ps) \in Nat
        BY <1>3, LenProperties
    <2>2. \A k \in DOMAIN ps : F[ps[k]] \in Y
        BY <1>2, <1>3
    <2> HIDE DEF Y
    <2> QED BY <2>1, <2>2
<1>4. ASSUME NEW ps, ps \in Seq(Q), NEW c \in Q
      PROVE  Of(Append(ps, c)) = Append(Of(ps), F[c])
    <2> DEFINE qs == Append(ps, c)
               u == Of(ps)
               v == Of(qs)
    <2>1. qs \in Seq(Q)
        BY <1>4, AppendProperties
    <2>2. u \in [DOMAIN ps -> Y] /\ \A k \in DOMAIN ps : u[k] = F[ps[k]]
        <3> HIDE DEF Y
        <3> QED BY <1>2, <1>4
    <2>3. v \in [DOMAIN qs -> Y] /\ \A k \in DOMAIN qs : v[k] = F[qs[k]]
        <3> HIDE DEF Y, qs
        <3> QED BY <1>2, <2>1
    <2>4. ps \in Seq(Q) /\ F \in [Q -> Y]
        BY <1>1, <1>4
    <2> HIDE DEF Y, u, v
    <2>5. v = Append(u, F[c])
        BY <2>2, <2>3, <2>4, MapAppend DEF qs
    <2> QED BY <2>5 DEF u, v
<1>5. Flat(F, <<>>) = <<>>
    <2> DEFINE none == <<>>
    <2>1. DOMAIN none = {} /\ Joined(none) = none
        BY JoinedStep
    <2>2. Of(none) = none
        BY <2>1
    <2> HIDE DEF none
    <2>3. Flat(F, none) = none
        BY <2>1, <2>2 DEF Flat
    <2> QED BY <2>3 DEF none
<1>6. ASSUME NEW ps, ps \in Seq(Q) PROVE Flat(F, ps) \in Seq(X)
    BY <1>3, <1>6, JoinedStep DEF Flat
<1>7. ASSUME NEW ps, ps \in Seq(Q), NEW c \in Q PROVE Flat(F, Append(ps, c)) = Flat(F, ps) \o F[c]
    <2>1. Of(ps) \in Seq(Seq(X)) /\ F[c] \in Seq(X)
        BY <1>1, <1>3, <1>7
    <2>2. Joined(Append(Of(ps), F[c])) = Joined(Of(ps)) \o F[c]
        <3> HIDE DEF Of
        <3> QED BY <2>1, JoinedStep
    <2>3. Of(Append(ps, c)) = Append(Of(ps), F[c])
        BY <1>4, <1>7
    <2> QED BY <2>2, <2>3 DEF Flat
<1> QED BY <1>5, <1>6, <1>7

\* A map over two lists, one after the other.
LEMMA FlatConcat ==
    ASSUME NEW Q, NEW X, NEW F, Lister(F, Q, X), NEW a, a \in Seq(Q)
    PROVE  /\ Flat(F, a) \in Seq(X)
           /\ \A b \in Seq(Q) : Flat(F, a \o b) = Flat(F, a) \o Flat(F, b)
<1> DEFINE T == {b \in Seq(Q) : Flat(F, a \o b) = Flat(F, a) \o Flat(F, b)}
<1>0. /\ \A ps \in Seq(Q) : Flat(F, ps) \in Seq(X)
      /\ \A ps \in Seq(Q), c \in Q : Flat(F, Append(ps, c)) = Flat(F, ps) \o F[c]
    BY FlatStep
<1>1. <<>> \in T
    <2> DEFINE none == <<>>
    <2>1. Flat(F, none) = none /\ none \in Seq(Q)
        BY FlatStep, EmptySeq
    <2>2. a \o none = a /\ Flat(F, a) \o none = Flat(F, a)
        BY <1>0, ConcatEmptySeq
    <2> HIDE DEF none
    <2>3. none \in T
        BY <2>1, <2>2
    <2> QED BY <2>3 DEF none
<1>2. ASSUME NEW b, b \in Seq(Q), NEW c \in Q, b \in T PROVE Append(b, c) \in T
    <2>1. a \o b \in Seq(Q) /\ Append(b, c) \in Seq(Q) /\ a \o Append(b, c) = Append(a \o b, c)
        <3>1. a \o b \in Seq(Q) /\ Append(b, c) \in Seq(Q)
            BY <1>2, ConcatProperties, AppendProperties
        <3> QED BY <1>2, <3>1, AppendConcat
    <2>2. /\ Flat(F, Append(a \o b, c)) = Flat(F, a \o b) \o F[c]
          /\ Flat(F, Append(b, c)) = Flat(F, b) \o F[c]
        <3>1. Flat(F, Append(a \o b, c)) = Flat(F, a \o b) \o F[c]
            BY <1>0, <1>2, <2>1
        <3>2. Flat(F, Append(b, c)) = Flat(F, b) \o F[c]
            BY <1>0, <1>2
        <3> QED BY <3>1, <3>2
    <2> DEFINE p == Flat(F, a)
               q == Flat(F, b)
               r == F[c]
    <2>6. p \in Seq(X) /\ q \in Seq(X) /\ r \in Seq(X)
        BY <1>0, <1>2 DEF Lister
    <2>3. (p \o q) \o r = p \o (q \o r)
        <3> HIDE DEF p, q, r
        <3> QED BY <2>6, ConcatAssociative
    <2>4. Flat(F, a \o b) = Flat(F, a) \o Flat(F, b)
        BY <1>2
    <2>5. Flat(F, a \o Append(b, c)) = Flat(F, a) \o Flat(F, Append(b, c))
        BY <2>1, <2>2, <2>3, <2>4
    <2> QED BY <2>1, <2>5
<1>3. \A b \in Seq(Q) : b \in T
    <2> HIDE DEF T
    <2>1. \A b \in Seq(Q), c \in Q : b \in T => Append(b, c) \in T
        BY <1>2
    <2> QED BY <1>1, <2>1, ListInduction
<1> QED BY <1>0, <1>3

\* A map over a joined list joins the maps over the lists.
LEMMA FlatJoined ==
    ASSUME NEW Q, NEW X, NEW F, Lister(F, Q, X), NEW ss, ss \in Seq(Seq(Q))
    PROVE  Flats(F, ss) \in Seq(Seq(X)) /\ Flat(F, Joined(ss)) = Joined(Flats(F, ss))
<1> DEFINE Z == Seq(Q)
           Y == Seq(X)
           G == [ps \in Z |-> Flat(F, ps)]
           Of(tt) == [i \in DOMAIN tt |-> G[tt[i]]]
           T == {tt \in Seq(Z) : Flat(F, Joined(tt)) = Joined(Of(tt))}
<1>1. G \in [Z -> Y]
    BY FlatStep
<1>2. <<>> \in T
    <2> DEFINE none == <<>>
    <2>1. Joined(none) = none /\ Flat(F, none) = none /\ none \in Seq(Z) /\ DOMAIN none = {}
        <3>1. Joined(none) = none
            BY JoinedStep
        <3>2. Flat(F, none) = none
            BY FlatStep
        <3> QED BY <3>1, <3>2, EmptySeq
    <2>2. Of(none) = none
        BY <2>1
    <2> HIDE DEF none
    <2>3. Flat(F, Joined(none)) = Joined(Of(none))
        BY <2>1, <2>2
    <2>4. none \in T
        BY <2>1, <2>3
    <2> QED BY <2>4 DEF none
<1>3. ASSUME NEW tt, tt \in Seq(Z), NEW t \in Z, tt \in T PROVE Append(tt, t) \in T
    <2>1. Joined(tt) \in Seq(Q) /\ Joined(Append(tt, t)) = Joined(tt) \o t
        BY <1>3, JoinedStep
    <2>2. Flat(F, Joined(tt) \o t) = Flat(F, Joined(tt)) \o Flat(F, t)
        <3>1. Joined(tt) \in Seq(Q) /\ t \in Seq(Q)
            BY <2>1
        <3> DEFINE a == Joined(tt)
        <3> HIDE DEF a
        <3>2. a \in Seq(Q)
            BY <3>1 DEF a
        <3>3. /\ Flat(F, a) \in Seq(X)
              /\ \A b \in Seq(Q) : Flat(F, a \o b) = Flat(F, a) \o Flat(F, b)
            BY <3>2, FlatConcat
        <3> QED BY <3>1, <3>3 DEF a
    <2>3. Of(tt) \in Seq(Y) /\ Of(Append(tt, t)) = Append(Of(tt), G[t])
        <3> DEFINE u == Of(tt)
                   w == Of(Append(tt, t))
        <3>1. Append(tt, t) \in Seq(Z)
            BY <1>3, AppendProperties
        <3>2. /\ \A i \in DOMAIN tt : tt[i] \in Z
              /\ \A i \in DOMAIN Append(tt, t) : Append(tt, t)[i] \in Z
            <4> HIDE DEF Z
            <4> QED BY <1>3, <3>1, LenProperties, ElementOfSeq
        <3> HIDE DEF G, Z, Y
        <3>3. u \in [DOMAIN tt -> Y] /\ \A i \in DOMAIN tt : u[i] = G[tt[i]]
            BY <1>1, <3>2
        <3>4. /\ w \in [DOMAIN Append(tt, t) -> Y]
              /\ \A i \in DOMAIN Append(tt, t) : w[i] = G[Append(tt, t)[i]]
            BY <1>1, <3>2
        <3>5. tt \in Seq(Z)
            BY <1>3
        <3> HIDE DEF u, w
        <3>6. u \in Seq(Y) /\ w = Append(u, G[t])
            BY <1>1, <3>3, <3>4, <3>5, MapAppend
        <3> QED BY <3>6 DEF u, w
    <2>4. G[t] = Flat(F, t) /\ G[t] \in Y
        BY <1>1
    <2>5. Flat(F, Joined(tt)) = Joined(Of(tt))
        BY <1>3
    <2>6. Append(tt, t) \in Seq(Z)
        BY <1>3, AppendProperties
    <2> HIDE DEF Of, G
    <2>7. Joined(Append(Of(tt), G[t])) = Joined(Of(tt)) \o G[t]
        BY <2>3, <2>4, JoinedStep
    <2>8. Flat(F, Joined(Append(tt, t))) = Joined(Of(Append(tt, t)))
        BY <2>1, <2>2, <2>3, <2>4, <2>5, <2>7
    <2> QED BY <2>6, <2>8
<1> HIDE DEF T
<1>4. ss \in T
    <2>1. \A tt \in Seq(Z), t \in Z : tt \in T => Append(tt, t) \in T
        BY <1>3
    <2> HIDE DEF Z
    <2>2. \A tt \in Seq(Z) : tt \in T
        BY <1>2, <2>1, ListInduction
    <2>3. ss \in Seq(Z)
        BY DEF Z
    <2> QED BY <2>2, <2>3
<1>5. Of(ss) = Flats(F, ss)
    <2>1. \A i \in DOMAIN ss : ss[i] \in Z
        BY LenProperties, ElementOfSeq
    <2>2. \A i \in DOMAIN ss : G[ss[i]] = Flat(F, ss[i])
        BY <2>1
    <2> HIDE DEF G
    <2> QED BY <2>2 DEF Flats
<1>6. Flat(F, Joined(ss)) = Joined(Of(ss))
    BY <1>4 DEF T
<1>7. Of(ss) \in Seq(Y)
    <2> DEFINE n == Len(ss)
               w == Of(ss)
    <2>1. DOMAIN ss = 1..n /\ n \in Nat
        BY LenProperties
    <2>2. \A i \in DOMAIN ss : G[ss[i]] \in Y
        <3>1. \A i \in DOMAIN ss : ss[i] \in Z
            BY LenProperties, ElementOfSeq
        <3> QED BY <1>1, <3>1
    <2> HIDE DEF n, G, Y
    <2>3. w \in [1..n -> Y]
        BY <2>1, <2>2
    <2> HIDE DEF w
    <2>4. w \in Seq(Y)
        BY <2>1, <2>3
    <2> QED BY <2>4 DEF w
<1> QED BY <1>5, <1>6, <1>7
=============================================================================
