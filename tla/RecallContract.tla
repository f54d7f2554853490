--------------------------- MODULE RecallContract ---------------------------
(***************************************************************************)
(* What recall promises: the answer is the one a single instant of the     *)
(* store gives, the best k authorized concepts and the best k further      *)
(* sessions, matches of every term before matches of some term.  It says   *)
(* which answer that is, not how it is found: there are no pages here.     *)
(***************************************************************************)
EXTENDS Naturals, Sequences, Functions

CONSTANTS
  Source,      \* Source[c]: the session concept c was distilled from, or NoSession
  MaxK,        \* the largest k a caller may ask for (50)
  NoAnswer, Refused

VARIABLES
  store,       \* what the store holds for this question: rankings and visibility
  question,    \* [k, searchable]
  instant,     \* the state of the store the answer is of
  delivered    \* the answer given

vars == <<store, question, instant, delivered>>

\* The place of a match: those of every term first.
Place(every, some, x) ==
  IF x \in Range(every) THEN CHOOSE i \in DOMAIN every : every[i] = x
                        ELSE Len(every) + (CHOOSE i \in DOMAIN some : some[i] = x)

\* The first k of the eligible matches, in the order of their places, and all
\* of them when there are fewer than k.
IsBest(best, every, some, eligible, k) ==
  LET matches  == (Range(every) \cup Range(some)) \cap eligible
      place(x) == Place(every, some, x)
  IN /\ Len(best) <= k
     /\ Range(best) \subseteq matches
     /\ \A i, j \in DOMAIN best : i < j => place(best[i]) < place(best[j])
     /\ \A x \in matches \ Range(best) :
          Len(best) = k /\ \A y \in Range(best) : place(y) < place(x)

IsAnswer(answer, st, q) ==
  LET others == st.visible \ {Source[c] : c \in Range(answer.concepts)}
  IN /\ IF q.searchable
          THEN /\ IsBest(answer.concepts, st.conceptAnd, st.conceptOr, st.allowed, q.k)
               /\ IsBest(answer.sessions, st.sessionAnd, st.sessionOr, others, q.k)
          ELSE answer.concepts = <<>> /\ answer.sessions = <<>>
     /\ answer.fallback <=> \/ Range(answer.concepts) \ Range(st.conceptAnd) # {}
                            \/ Range(answer.sessions) \ Range(st.sessionAnd) # {}

Init ==
  /\ instant = NoAnswer
  /\ delivered = NoAnswer

\* The instant is one between the question and the answer.
Pin ==
  /\ instant = NoAnswer
  /\ instant' = store
  /\ UNCHANGED <<store, question, delivered>>

Deliver ==
  /\ delivered = NoAnswer
  /\ IF question.k \in 1 .. MaxK
       THEN instant # NoAnswer /\ delivered' # NoAnswer /\ IsAnswer(delivered', instant, question)
       ELSE delivered' = Refused
  /\ UNCHANGED <<store, question, instant>>

\* Others change the store; the instant stays what it was.
Change == UNCHANGED <<question, instant, delivered>>

Next == Pin \/ Deliver \/ Change

Spec == Init /\ [][Next]_vars
=============================================================================
