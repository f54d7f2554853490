--------------------------- MODULE MCConceptStore ---------------------------
(* The concept store on a small instance, for TLC.                         *)
EXTENDS ConceptStore, FiniteSets, TLC

CONSTANTS s1, s2, e1, e2, e3, q1, q2, f1, f2, a1, a2

MCSessionOf == [e \in Evidence |-> IF e = e3 THEN s2 ELSE s1]
\* q1 is in e1 once and in e2 once (ambiguous when both are there); q2 in e2 only.
MCOccurs ==
  [e \in Evidence |-> [q \in Quotes |->
     CASE e = e2 /\ q = q1 -> {3} [] e = e1 /\ q = q2 -> {} [] OTHER -> {0}]]
MCDocuments == {{[quote |-> q1, at |-> NoEvidence]},
                {[quote |-> q1, at |-> <<e1, 0>>], [quote |-> q2, at |-> NoEvidence]}}
MCClaimedSession == [f \in Files |-> s1]
MCStatementOf == [f \in Files |-> IF f = f2 THEN q2 ELSE q1]
\* The ids propose returns are interchangeable.
Symmetry == Permutations(Assertions)
=============================================================================
