------------------------------- MODULE Recall -------------------------------
(***************************************************************************)
(* recall.py: a question is answered within one read-only snapshot.  The   *)
(* concepts that match are read page by page, first those that match every *)
(* term and then, while fewer than k are found, those that match some; the *)
(* sessions follow with one query each.                                    *)
(*                                                                         *)
(* A concept or a session stands for its row; the FTS order (bm25, then    *)
(* the id) is a sequence of the store, the same for every page of a query. *)
(***************************************************************************)
EXTENDS Naturals, Sequences, FiniteSets, Functions

CONSTANTS
  Concepts, Sessions,
  NoSession,   \* source_session_id IS NULL, or a question without answer yet
  Source,      \* source_session_id of each concept
  PageSize,    \* _CONCEPT_FTS_LIMIT
  MaxK,        \* the largest k (50)
  MaxChanges   \* bound: commits of others while the question is answered

Orders(S) == {s \in UNION {[1 .. n -> S] : n \in 0 .. Cardinality(S)} : IsInjective(s)}

\* Rankings of one question over a store: every match of the AND query is one
\* of the OR query.
Holdings ==
  {st \in [conceptAnd : Orders(Concepts), conceptOr : Orders(Concepts), allowed : SUBSET Concepts,
           sessionAnd : Orders(Sessions), sessionOr : Orders(Sessions), visible : SUBSET Sessions] :
     /\ Range(st.conceptAnd) \subseteq Range(st.conceptOr)
     /\ Range(st.sessionAnd) \subseteq Range(st.sessionOr)}

Answers == [concepts : Seq(Concepts), sessions : Seq(Sessions), fallback : BOOLEAN]

RecallAssumption ==
  /\ IsFiniteSet(Concepts) /\ IsFiniteSet(Sessions)
  /\ NoSession \notin Sessions /\ NoSession \notin Holdings /\ NoSession \notin Answers
  /\ Source \in [Concepts -> Sessions \cup {NoSession}]
  /\ PageSize \in Nat \ {0} /\ MaxK \in Nat \ {0} /\ MaxChanges \in Nat

VARIABLES
  store,     \* the committed state, as far as it matters to the question
  snap,      \* the snapshot open_context pinned
  question,  \* k, and whether plan() found a searchable term
  pc,        \* "open", "concepts", "sessions", "done" or "refused"
  fallback,  \* the pass: the OR query rather than the AND query
  offset,
  seen,
  concepts, sessions,
  used,      \* fallback_used of the concepts or of the sessions
  changes

vars == <<store, snap, question, pc, fallback, offset, seen, concepts, sessions, used, changes>>

TypeOK ==
  /\ store \in Holdings /\ snap \in Holdings
  /\ question \in [k : 0 .. MaxK + 1, searchable : BOOLEAN]
  /\ pc \in {"open", "concepts", "sessions", "done", "refused"}
  /\ fallback \in BOOLEAN /\ used \in BOOLEAN
  /\ offset \in 0 .. Cardinality(Concepts)
  /\ seen \subseteq Concepts
  /\ concepts \in Orders(Concepts) /\ sessions \in Orders(Sessions)
  /\ Len(concepts) <= MaxK /\ Len(sessions) <= MaxK
  /\ changes \in 0 .. MaxChanges

InitWith(stores, questions) ==
  /\ store \in stores
  /\ question \in questions
  /\ snap = store
  /\ pc = "open"
  /\ fallback = FALSE /\ used = FALSE
  /\ offset = 0
  /\ seen = {}
  /\ concepts = <<>> /\ sessions = <<>>
  /\ changes = 0

Prefix(s, n) == SubSeq(s, 1, IF Len(s) < n THEN Len(s) ELSE n)

\* The elements of s that are in S, in their order: what SelectSeq returns, in
\* a form without recursion.
Kept(s, S) ==
  LET at     == {i \in DOMAIN s : s[i] \in S}
      nth(n) == CHOOSE i \in at : Cardinality({j \in at : j <= i}) = n
  IN [n \in 1 .. Cardinality(at) |-> s[nth(n)]]

-----------------------------------------------------------------------------
\* recall refuses a k outside its range before it opens the database.
Refuse ==
  /\ pc = "open" /\ question.k \notin 1 .. MaxK
  /\ pc' = "refused"
  /\ UNCHANGED <<store, snap, question, fallback, offset, seen, concepts, sessions, used, changes>>

\* open_context pins the snapshot; authorized_concepts reads it.  Without an
\* authorized concept, or without a searchable term, no concept is looked for.
Open ==
  /\ pc = "open" /\ question.k \in 1 .. MaxK
  /\ snap' = store
  /\ pc' = IF store.allowed = {} \/ ~question.searchable THEN "sessions" ELSE "concepts"
  /\ UNCHANGED <<store, question, fallback, offset, seen, concepts, sessions, used, changes>>

Ranked == IF fallback THEN snap.conceptOr ELSE snap.conceptAnd

\* Mutant of Page: each page is read from the store as it is now.
LivePage ==
  LET r == IF fallback THEN store.conceptOr ELSE store.conceptAnd
  IN Prefix(SubSeq(r, offset + 1, Len(r)), PageSize)

\* _fts_ranked_concept_ids with LIMIT and OFFSET.
Page == Prefix(SubSeq(Ranked, offset + 1, Len(Ranked)), PageSize)

LastPage == Len(Page) < PageSize

\* Mutant of Taken: the whole page is taken, whatever k is.
TakenWhole == Kept(Page, snap.allowed \ seen)

\* Unseen authorized concepts of the page, until k are selected.
Taken == Prefix(Kept(Page, snap.allowed \ seen), question.k - Len(concepts))

\* Mutant of NextOffset: the offset is not advanced.
SameOffset == offset

NextOffset == offset + Len(Page)

\* One page of the current query.  A short page is the query's last.
\* (The code stops in the middle of a page at k; what it then has not seen is
\* not looked at again.)
ReadPage ==
  /\ pc = "concepts" /\ Len(concepts) < question.k
  /\ concepts' = concepts \o Taken
  /\ seen' = seen \cup Range(Page)
  /\ used' = (used \/ (fallback /\ Taken # <<>>))
  /\ IF LastPage /\ Len(concepts') < question.k
       THEN /\ pc' = IF fallback THEN "sessions" ELSE "concepts"
            /\ fallback' = ~fallback
            /\ offset' = 0
       ELSE /\ offset' = NextOffset
            /\ UNCHANGED <<pc, fallback>>
  /\ UNCHANGED <<store, snap, question, sessions, changes>>

ConceptsFull ==
  /\ pc = "concepts" /\ Len(concepts) = question.k
  /\ pc' = "sessions"
  /\ fallback' = FALSE
  /\ UNCHANGED <<store, snap, question, offset, seen, concepts, sessions, used, changes>>

\* Sessions that a selected concept cites, and those found already.
Excluded == {Source[c] : c \in Range(concepts)} \cup Range(sessions)

SessionHits ==
  Prefix(Kept(IF fallback THEN snap.sessionOr ELSE snap.sessionAnd, snap.visible \ Excluded),
         question.k - Len(sessions))

\* One query, with its exclusions and its limit in SQL; the OR query runs only
\* when the AND query left room.
FindSessions ==
  /\ pc = "sessions" /\ question.searchable /\ Len(sessions) < question.k
  /\ sessions' = sessions \o SessionHits
  /\ used' = (used \/ (fallback /\ SessionHits # <<>>))
  /\ IF fallback THEN pc' = "done" /\ UNCHANGED fallback
                 ELSE fallback' = TRUE /\ UNCHANGED pc
  /\ UNCHANGED <<store, snap, question, offset, seen, concepts, changes>>

SessionsFull ==
  /\ pc = "sessions" /\ (~question.searchable \/ Len(sessions) = question.k)
  /\ pc' = "done"
  /\ UNCHANGED <<store, snap, question, fallback, offset, seen, concepts, sessions, used, changes>>

\* Another process commits: a concept is retired or hidden, a session hidden
\* or forgotten (and its concepts with it).
Hide ==
  /\ pc # "done" /\ changes < MaxChanges
  /\ changes' = changes + 1
  /\ \/ \E c \in store.allowed : store' = [store EXCEPT !.allowed = @ \ {c}]
     \/ \E s \in store.visible :
          store' = [store EXCEPT !.visible = @ \ {s}, !.allowed = {c \in @ : Source[c] # s}]
  /\ UNCHANGED <<snap, question, pc, fallback, offset, seen, concepts, sessions, used>>

\* ... or a new concept that matches best of all.
Record ==
  /\ pc # "done" /\ changes < MaxChanges
  /\ changes' = changes + 1
  /\ \E c \in Concepts \ Range(store.conceptOr) :
       store' = [store EXCEPT !.conceptAnd = <<c>> \o @, !.conceptOr = <<c>> \o @, !.allowed = @ \cup {c}]
  /\ UNCHANGED <<snap, question, pc, fallback, offset, seen, concepts, sessions, used>>

Work == Refuse \/ Open \/ ReadPage \/ ConceptsFull \/ FindSessions \/ SessionsFull

-----------------------------------------------------------------------------
(* Properties.                                                             *)

Answered == [concepts |-> concepts, sessions |-> sessions, fallback |-> used]

Contract == INSTANCE RecallContract WITH
  NoAnswer  <- NoSession,
  Refused   <- "refused",
  instant   <- IF pc \in {"open", "refused"} THEN NoSession ELSE snap,
  delivered <- IF pc = "done" THEN Answered ELSE IF pc = "refused" THEN "refused" ELSE NoSession

\* recall answers as RecallContract says: what it returns is the answer of one
\* instant of the store, whatever is committed while it reads.
AnswersOneInstant == Contract!Init /\ [][Contract!Next]_Contract!vars
=============================================================================
