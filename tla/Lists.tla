-------------------------------- MODULE Lists --------------------------------
(***************************************************************************)
(* What the code does with lists again and again: a comprehension with a   *)
(* condition, the list that a loop of extend() makes of a list of lists,   *)
(* and sum().  They are recursive functions, so that what they compute can *)
(* be proved (see RecursionLemmas).                                        *)
(***************************************************************************)
EXTENDS Naturals, Sequences

\* [x for x in s if x in wanted]
Kept(s, wanted) ==
    LET kept[n \in 0..Len(s)] ==
            IF n = 0 THEN <<>>
            ELSE IF s[n] \in wanted THEN Append(kept[n - 1], s[n]) ELSE kept[n - 1]
    IN  kept[Len(s)]

\* for s in lists: joined.extend(s)
Joined(lists) ==
    LET joined[n \in 0..Len(lists)] ==
            IF n = 0 THEN <<>> ELSE joined[n - 1] \o lists[n]
    IN  joined[Len(lists)]

\* sum(s)
SumOf(s) ==
    LET total[n \in 0..Len(s)] == IF n = 0 THEN 0 ELSE total[n - 1] + s[n]
    IN  total[Len(s)]
==============================================================================
