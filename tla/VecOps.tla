------------------------------- MODULE VecOps -------------------------------
(***************************************************************************)
(* The vector idioms the history code is written with.                     *)
(*                                                                         *)
(* Every filter of history.rs and lib.rs is the same loop: walk a Vec from *)
(* index 0, push_back the elements that satisfy a test into a fresh Vec.   *)
(* Keep(s, S) is that loop with the test "is a member of S".  It is a      *)
(* recursive function, not a recursive operator, so that VecOpsProofs can  *)
(* prove what it computes for every vector; so is the sum of a vector,     *)
(* which the properties of the cumulative counters are stated with.        *)
(***************************************************************************)
EXTENDS Naturals, Sequences

\* kept[i] is the output vector after the loop has seen the first i elements.
KeepLoop(s, S) ==
  LET kept[i \in 0 .. Len(s)] ==
        IF i = 0 THEN << >>
        ELSE IF s[i] \in S THEN Append(kept[i - 1], s[i]) ELSE kept[i - 1]
  IN  kept

Keep(s, S) == KeepLoop(s, S)[Len(s)]

\* sums[i] adds up the first i numbers.
SumLoop(s) ==
  LET sums[i \in 0 .. Len(s)] == IF i = 0 THEN 0 ELSE sums[i - 1] + s[i]
  IN  sums

SumUp(s) == SumLoop(s)[Len(s)]

Elements(s) == { s[i] : i \in 1 .. Len(s) }

LastOf(s) == s[Len(s)]

\* The indices a loop over start .. start + count walks.
Run(start, count) == [k \in 1 .. count |-> start + k - 1]

\* u32::saturating_sub
SaturatingSub(a, b) == IF a >= b THEN a - b ELSE 0

\* Every earlier element is related by R to every later one.
OrderedBy(s, R) == \A i, j \in 1 .. Len(s) : i < j => << s[i], s[j] >> \in R

StrictlyIncreasing(s) == \A i, j \in 1 .. Len(s) : i < j => s[i] < s[j]

=============================================================================
