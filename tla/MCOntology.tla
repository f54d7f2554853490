----------------------------- MODULE MCOntology -----------------------------
(* Instances of OntologyBuild for TLC. *)
EXTENDS OntologyBuild

Symmetry == Permutations(Sessions) \cup Permutations(Values)
=============================================================================
