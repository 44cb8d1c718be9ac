------------------------------- MODULE Orders -------------------------------
(***************************************************************************)
(* Lists that an ORDER BY or a sort makes of a set: what is meant is the   *)
(* set, each element once, and the place of each; not how it is sorted.    *)
(***************************************************************************)
EXTENDS Integers, FiniteSets

\* R orders S: two different elements are in R one way round, none is with itself.
IsStrictOrder(S, R) ==
  /\ \A x \in S : <<x, x>> \notin R
  /\ \A x, y \in S : x # y => <<x, y>> \in R \/ <<y, x>> \in R
  /\ \A x, y, z \in S : <<x, y>> \in R /\ <<y, z>> \in R => <<x, z>> \in R

\* What comes before x.
Below(S, R, x) == {y \in S : <<y, x>> \in R}

\* The list of S by R: its i-th element has i - 1 others before it.
InOrder(S, R) ==
  [i \in 1..Cardinality(S) |-> CHOOSE x \in S : Cardinality(Below(S, R, x)) = i - 1]
=============================================================================
