-------------------------- MODULE ConceptLifecycle --------------------------
(***************************************************************************)
(* What the concept store promises, without transactions, logs or clocks:  *)
(* each concept has one standing, which only advances; a legacy concept is *)
(* never accepted, and is replaced, in one step, by the concept bound to   *)
(* its evidence; what is forgotten is gone.                                *)
(***************************************************************************)
CONSTANTS Concepts, LegacyConcepts   \* the legacy concepts are concepts too

VARIABLE standing

Cited == Concepts \ LegacyConcepts
Live == {"proposed", "accepted"}

TypeOK == standing \in [Concepts -> {"absent", "proposed", "accepted", "retired"}]

Init == standing = [c \in Concepts |-> "absent"]

All(S, s) == \A c \in S : standing[c] = s

Move(proposed, retired) ==
  standing' = [c \in Concepts |-> IF c \in proposed THEN "proposed"
                                  ELSE IF c \in retired THEN "retired"
                                  ELSE standing[c]]

\* A wind-down proposes new concepts, all of them at once.
Propose(S) == S # {} /\ All(S, "absent") /\ Move(S, {})

\* An import adds legacy concepts; those whose statement is bound at once are
\* retired in favour of one new cited concept each.
Import(unbound, bound, successors) ==
  /\ All(unbound \cup bound \cup successors, "absent")
  /\ unbound \cap bound = {}
  /\ \E succ \in [bound -> successors] :
       /\ \A s \in successors : \E f \in bound : succ[f] = s
       /\ \A f, g \in bound : succ[f] = succ[g] => f = g
  /\ Move(unbound \cup successors, bound)

Bind(f, c) == standing[f] \in Live /\ standing[c] = "absent" /\ Move({c}, {f})

Accept(c) ==
  standing[c] = "proposed" /\ standing' = [standing EXCEPT ![c] = "accepted"]

Retire(c) ==
  standing[c] \in Live /\ standing' = [standing EXCEPT ![c] = "retired"]

Forget(S) ==
  standing' = [c \in Concepts |-> IF c \in S THEN "absent" ELSE standing[c]]

Next ==
  \/ \E S \in SUBSET Cited : Propose(S)
  \/ \E unbound, bound \in SUBSET LegacyConcepts, successors \in SUBSET Cited :
       Import(unbound, bound, successors)
  \/ \E f \in LegacyConcepts, c \in Cited : Bind(f, c)
  \/ \E c \in Cited : Accept(c)
  \/ \E c \in Concepts : Retire(c)
  \/ \E S \in SUBSET Concepts : Forget(S)

Spec == Init /\ [][Next]_standing
=============================================================================
