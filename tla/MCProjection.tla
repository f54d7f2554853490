---------------------------- MODULE MCProjection ----------------------------
(* Instances of Projection for TLC. *)
EXTENDS Projection

CONSTANTS d1, d2, v1, v2, p1, p2

Pair == {p1, p2}

OneDoc == <<d1>>
TwoDocs == <<d1, d2>>

\* d1 is rendered, then d2 is added, then d1 retired while d2 is accepted (new bytes
\* under the same name): runs create alone, create and delete, replace and delete.
Story ==
  << [d1 |-> v1, d2 |-> Nothing], [d1 |-> v1, d2 |-> v1], [d1 |-> Nothing, d2 |-> v2] >>
TwoDocStory == [r \in 1 .. 3 |-> [d \in {d1, d2} |-> IF d = d1 THEN Story[r].d1 ELSE Story[r].d2]]
OneDocStory == [r \in 1 .. 2 |-> [d \in {d1} |-> IF r = 1 THEN v1 ELSE Nothing]]
=============================================================================
