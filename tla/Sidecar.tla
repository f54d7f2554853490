------------------------------ MODULE Sidecar ------------------------------
(***************************************************************************)
(* The concept tables as a sidecar of a database that other programs own:  *)
(* concept_schema.py's installing, adopting, verifying and refusing, the   *)
(* clock pinned to the access instance it was made for, the full-text      *)
(* index its triggers keep, and doctor's inspection of all that from a     *)
(* connection without a transaction, its trial recall included (cli.py).   *)
(*                                                                         *)
(* A writer holds the store's write lock and works on a copy of its own,   *)
(* tx, that a commit publishes and a rollback or a death drops.            *)
(***************************************************************************)
EXTENDS Naturals, FiniteSets, Functions

CONSTANTS
  Procs,      \* writing processes
  Uses,       \* Uses[p]: the stores writer p is run on
  Stores,     \* store files, whose names also stand for access instances
  Origin,     \* the store there is at first; the others are copies made of it
  Concepts,
  Rank,       \* Rank[c]: the place of c in the order of the concepts' ids
  Terms,      \* search terms
  Term,       \* Term[c]: the first term planned from c's title and statement, or None
  Matches,    \* Matches[c]: the terms the full-text index finds in c's row
  MaxLooked,  \* how many visible concepts _known_recall_term looks at (20)
  MaxRow,     \* bound: the largest rowid of context_concepts
  MaxSeq,     \* bound: MaxSeq[s] events in the store s
  MaxOutside, \* bound: migrations, copies, damages and changes of what doctor may see
  None

VARIABLES
  stores,   \* the committed state of each store, or None
  lock,     \* who holds the write lock of each store
  procs,    \* each writer: where it is, on which store, and its tx
  harmed,   \* stores whose index somebody else has written to
  minted,   \* every event identity made, with the store it was made in
  outside,
  doctor

vars == <<stores, lock, procs, harmed, minted, outside, doctor>>

Payload == {"tables", "index"}          \* _PAYLOAD_OBJECTS, in two groups
RowIds == 1 .. MaxRow
Rows == UNION {[D -> Concepts] : D \in SUBSET RowIds}
Clock == [instance : Stores, seq : Nat]

\* instance is the row of context_access_state; hidden are the concepts that are
\* retired or outside doctor's scope, spoken the terms of messages inside it.
Db == [upstream : 46 .. 48, instance : Stores, payload : SUBSET Payload, exact : BOOLEAN,
       marker : {"absent", "exact", "other"}, clock : Clock \cup {None},
       roots : Rows, index : Rows, hidden : SUBSET Concepts, spoken : SUBSET Terms]
Supported == 47

SidecarAssumption ==
  /\ Origin \in Stores /\ None \notin Stores \cup Concepts \cup Procs \cup Terms
  /\ None \notin Clock \cup Db
  /\ Uses \in [Procs -> SUBSET Stores]
  /\ Rank \in [Concepts -> Nat] /\ \A c, e \in Concepts : Rank[c] = Rank[e] => c = e
  /\ Term \in [Concepts -> Terms \cup {None}] /\ Matches \in [Concepts -> SUBSET Terms]
  /\ MaxLooked \in Nat
  /\ MaxRow \in Nat /\ MaxSeq \in [Stores -> Nat] /\ MaxOutside \in Nat

Idle == [at |-> "idle", store |-> None, tx |-> None]
Resting == [at |-> "idle", store |-> None, scope |-> "there", roots |-> <<>>, term |-> None,
            calm |-> TRUE, verdict |-> None]

TypeOK ==
  /\ stores \in [Stores -> Db \cup {None}] /\ stores[Origin] # None
  /\ lock \in [Stores -> Procs \cup {None}]
  /\ procs \in [Procs -> [at : {"idle", "checked", "ensure", "verify", "ready"},
                          store : Stores \cup {None}, tx : Db \cup {None}]]
  /\ harmed \subseteq Stores
  /\ minted \subseteq Stores \X Stores \X Nat
  /\ outside \in 0 .. MaxOutside
  /\ doctor.at \in {"idle", "clock", "roots", "index", "term", "control", "done"}
  /\ doctor.verdict \in {None, "ok", "fail"}

Fresh(v) ==
  [upstream |-> v, instance |-> Origin, payload |-> {}, exact |-> TRUE, marker |-> "absent",
   clock |-> None, roots |-> <<>>, index |-> <<>>, hidden |-> {}, spoken |-> {}]

InitWith(versions) ==
  /\ \E v \in versions : stores = [s \in Stores |-> IF s = Origin THEN Fresh(v) ELSE None]
  /\ lock = [s \in Stores |-> None]
  /\ procs = [p \in Procs |-> Idle]
  /\ harmed = {} /\ minted = {} /\ outside = 0
  /\ doctor = Resting

\* A doctor at work on s sees that the store changes under it.
Disturb(s) ==
  doctor' = IF doctor.store = s THEN [doctor EXCEPT !.calm = FALSE] ELSE doctor

-----------------------------------------------------------------------------
(* What the code verifies.                                                 *)

ObjectsExact(d) == d.payload = Payload /\ d.exact /\ d.marker # "absent"

\* Mutant of ClockPinned: a clock of any instance will do.
ClockPresent(d) == d.clock # None

\* _verify_clock, and the test _allocate repeats before each event.
ClockPinned(d) == d.clock # None /\ d.clock.instance = d.instance

\* verify_installed_schema.
Installed(d) ==
  d.upstream = Supported /\ ObjectsExact(d) /\ d.marker = "exact" /\ ClockPinned(d)

-----------------------------------------------------------------------------
(* A writer.                                                               *)

To(p, at, tx) == procs' = [procs EXCEPT ![p] = [at |-> at, store |-> procs[p].store, tx |-> tx]]

Abandon(p) ==
  /\ procs' = [procs EXCEPT ![p] = Idle]
  /\ lock' = [lock EXCEPT ![procs[p].store] = None]

\* ConceptService() of a library caller: _ensure_schema reads the upstream
\* version before its BEGIN IMMEDIATE.
Check(p, s) ==
  /\ procs[p].at = "idle" /\ s \in Uses[p] /\ stores[s] # None
  /\ stores[s].upstream = Supported
  /\ procs' = [procs EXCEPT ![p] = [at |-> "checked", store |-> s, tx |-> None]]
  /\ UNCHANGED <<stores, lock, harmed, minted, outside, doctor>>

BeginChecked(p) ==
  /\ procs[p].at = "checked" /\ lock[procs[p].store] = None
  /\ lock' = [lock EXCEPT ![procs[p].store] = p]
  /\ To(p, "ensure", stores[procs[p].store])
  /\ UNCHANGED <<stores, harmed, minted, outside, doctor>>

\* A command opens its write transaction first and checks the version in it.
BeginCommand(p, s) ==
  /\ procs[p].at = "idle" /\ s \in Uses[p] /\ stores[s] # None /\ lock[s] = None
  /\ stores[s].upstream = Supported
  /\ lock' = [lock EXCEPT ![s] = p]
  /\ procs' = [procs EXCEPT ![p] = [at |-> "ensure", store |-> s, tx |-> stores[s]]]
  /\ UNCHANGED <<stores, harmed, minted, outside, doctor>>

\* _ensure_schema: install on a store without any object, adopt exact objects
\* without a marker, refuse whatever is left.
Ensure(p) ==
  LET t == procs[p].tx
      Made(tx) == To(p, "verify", tx) /\ UNCHANGED lock
  IN /\ procs[p].at = "ensure"
     /\ IF t.marker # "absent"
          THEN IF Installed(t) THEN To(p, "ready", t) /\ UNCHANGED lock ELSE Abandon(p)
          ELSE IF t.payload = Payload /\ t.exact THEN Made([t EXCEPT !.marker = "exact"])
          ELSE IF t.payload # {} THEN Abandon(p)
          ELSE Made([t EXCEPT !.payload = Payload, !.marker = "exact",
                              !.clock = [instance |-> t.instance, seq |-> 0]])
     /\ UNCHANGED <<stores, harmed, minted, outside, doctor>>

\* _verify_objects and _verify_clock on what was made.
Verify(p) ==
  /\ procs[p].at = "verify"
  /\ IF ObjectsExact(procs[p].tx) /\ ClockPinned(procs[p].tx)
       THEN To(p, "ready", procs[p].tx) /\ UNCHANGED lock
       ELSE Abandon(p)
  /\ UNCHANGED <<stores, harmed, minted, outside, doctor>>

NextRow(t) == 1 + IF DOMAIN t.roots = {} THEN 0 ELSE CHOOSE r \in DOMAIN t.roots : \A q \in DOMAIN t.roots : q <= r

Extend(f, r, c) == [x \in DOMAIN f \cup {r} |-> IF x = r THEN c ELSE f[x]]
Without(f, r) == [x \in DOMAIN f \ {r} |-> f[x]]

\* Mutant of InsertRoot: without context_concept_fts_insert.
InsertUnindexed(t, c) == [t EXCEPT !.roots = Extend(@, NextRow(t), c), !.clock.seq = @ + 1]

\* A root, its index row by context_concept_fts_insert, and its event.
InsertRoot(t, c) ==
  [t EXCEPT !.roots = Extend(@, NextRow(t), c), !.index = Extend(@, NextRow(t), c),
            !.clock.seq = @ + 1]

\* A row of the index that is in the way makes the insertion fail.
Append(p, c) ==
  LET s == procs[p].store
      t == procs[p].tx
  IN /\ procs[p].at = "ready" /\ c \notin Range(t.roots)
     /\ t.clock.seq < MaxSeq[s] /\ NextRow(t) \in RowIds
     /\ IF ClockPinned(t) /\ NextRow(t) \notin DOMAIN t.index
          THEN To(p, "ready", InsertRoot(t, c)) /\ UNCHANGED lock
          ELSE Abandon(p)
     /\ UNCHANGED <<stores, harmed, minted, outside, doctor>>

\* _rebuild_fts.
Rebuild(p) ==
  /\ procs[p].at = "ready"
  /\ To(p, "ready", [procs[p].tx EXCEPT !.index = procs[p].tx.roots])
  /\ UNCHANGED <<stores, lock, harmed, minted, outside, doctor>>

Publish(p) ==
  LET s == procs[p].store
      t == procs[p].tx
      from == IF stores[s].clock = None THEN 0 ELSE stores[s].clock.seq
      to == IF t.clock = None THEN 0 ELSE t.clock.seq
  IN /\ stores' = [stores EXCEPT ![s] = t]
     /\ minted' = minted \cup {<<s, t.clock.instance, n>> : n \in from + 1 .. to}
     /\ harmed' = IF t.index = t.roots THEN harmed \ {s} ELSE harmed
     /\ IF t = stores[s] THEN UNCHANGED doctor ELSE Disturb(s)

Commit(p) ==
  /\ procs[p].at = "ready"
  /\ Publish(p)
  /\ Abandon(p)
  /\ UNCHANGED outside

\* Mutant of Stop: what was made before the fault stays (a DDL statement that
\* commits on its own).
StopKeeping(p) ==
  /\ procs[p].at \in {"ensure", "verify", "ready"}
  /\ stores' = [stores EXCEPT ![procs[p].store] = [procs[p].tx EXCEPT !.marker = stores[procs[p].store].marker]]
  /\ Abandon(p)
  /\ UNCHANGED <<harmed, minted, outside, doctor>>

\* An exception, or the death of the process.
Stop(p) ==
  /\ procs[p].at \in {"ensure", "verify", "ready"}
  /\ Abandon(p)
  /\ UNCHANGED <<stores, harmed, minted, outside, doctor>>

GiveUp(p) ==
  /\ procs[p].at = "checked"
  /\ procs' = [procs EXCEPT ![p] = Idle]
  /\ UNCHANGED <<stores, lock, harmed, minted, outside, doctor>>

-----------------------------------------------------------------------------
(* Others.                                                                 *)

\* context_concept_fts_delete, by rowid.
Unindex(f, r) == Without(f, r)

\* A session is forgotten upstream; the cascade deletes the root.
Forget(s, r) ==
  /\ stores[s] # None /\ lock[s] = None /\ r \in DOMAIN stores[s].roots
  /\ "index" \in stores[s].payload
  /\ stores' = [stores EXCEPT ![s].roots = Without(@, r), ![s].index = Unindex(@, r),
                              ![s].hidden = @ \ {stores[s].roots[r]}]
  /\ Disturb(s)
  /\ UNCHANGED <<lock, procs, harmed, minted, outside>>

Outside(s) == stores[s] # None /\ lock[s] = None /\ outside < MaxOutside /\ outside' = outside + 1

Migrate(s) ==
  /\ Outside(s) /\ stores[s].upstream < 48
  /\ stores' = [stores EXCEPT ![s].upstream = @ + 1]
  /\ Disturb(s)
  /\ UNCHANGED <<lock, procs, harmed, minted>>

\* A copy of the file, an Online Backup for one, carries the instance with the
\* clock; the program that owns the database may give the copy one of its own.
Copy(s) ==
  /\ Outside(Origin) /\ stores[s] = None
  /\ \E i \in {stores[Origin].instance, s} :
       stores' = [stores EXCEPT ![s] = [stores[Origin] EXCEPT !.instance = i]]
  /\ harmed' = IF Origin \in harmed THEN harmed \cup {s} ELSE harmed
  /\ UNCHANGED <<lock, procs, minted, doctor>>

\* The marker is dropped, an object is dropped or altered, the clock's row goes,
\* or the objects are restored without their rows.
HarmSchema(s) ==
  /\ Outside(s) /\ stores[s].payload = Payload
  /\ \/ stores' = [stores EXCEPT ![s].marker = "absent"]
     \/ stores' = [stores EXCEPT ![s].marker = "other"]
     \/ stores' = [stores EXCEPT ![s].marker = "absent", ![s].payload = {"tables"}, ![s].index = <<>>]
     \/ stores' = [stores EXCEPT ![s].exact = FALSE]
     \/ stores' = [stores EXCEPT ![s].clock = None]
     \/ stores' = [stores EXCEPT ![s].clock = None, ![s].marker = "absent"]
  /\ harmed' = harmed \cup {s}
  /\ Disturb(s)
  /\ UNCHANGED <<lock, procs, minted>>

\* Somebody writes to the index itself.
HarmIndex(s) ==
  /\ Outside(s) /\ "index" \in stores[s].payload
  /\ \/ \E r \in DOMAIN stores[s].index : stores' = [stores EXCEPT ![s].index = Without(@, r)]
     \/ \E r \in RowIds, c \in Concepts :
          /\ Extend(stores[s].index, r, c) # stores[s].index
          /\ stores' = [stores EXCEPT ![s].index = Extend(@, r, c)]
  /\ harmed' = harmed \cup {s}
  /\ Disturb(s)
  /\ UNCHANGED <<lock, procs, minted>>

Toggle(S, x) == IF x \in S THEN S \ {x} ELSE S \cup {x}

\* A concept is retired, or it enters or leaves what doctor may see.
Hide(s, c) ==
  /\ Outside(s) /\ c \in Range(stores[s].roots)
  /\ stores' = [stores EXCEPT ![s].hidden = Toggle(@, c)]
  /\ Disturb(s)
  /\ UNCHANGED <<lock, procs, harmed, minted>>

\* A message with the term t enters or leaves it.
Speak(s, t) ==
  /\ Outside(s)
  /\ stores' = [stores EXCEPT ![s].spoken = Toggle(@, t)]
  /\ Disturb(s)
  /\ UNCHANGED <<lock, procs, harmed, minted>>

-----------------------------------------------------------------------------
(* doctor: every read is a snapshot of its own.                            *)

Mirrored(s) == stores[s].index = stores[s].roots

Diagnose(verdict) == doctor' = [doctor EXCEPT !.at = "done", !.verdict = verdict]

\* verify_installed_schema up to the objects.
Inspect(s) ==
  /\ doctor.at = "idle" /\ stores[s] # None
  /\ doctor' = IF stores[s].upstream = Supported /\ ObjectsExact(stores[s])
                 THEN [doctor EXCEPT !.at = "clock", !.store = s]
                 ELSE [doctor EXCEPT !.at = "done", !.store = s, !.verdict = "fail"]
  /\ UNCHANGED <<stores, lock, procs, harmed, minted, outside>>

InspectClock ==
  /\ doctor.at = "clock"
  /\ LET d == stores[doctor.store]
     IN IF d.marker = "exact" /\ ClockPinned(d)
          THEN doctor' = [doctor EXCEPT !.at = "roots"]
          ELSE Diagnose("fail")
  /\ UNCHANGED <<stores, lock, procs, harmed, minted, outside>>

Multiset(f) == [c \in Range(f) |-> Cardinality({r \in DOMAIN f : f[r] = c})]

\* Mutant of SameRows: only the number of rows is compared.
SameCount(f, g) == Cardinality(DOMAIN f) = Cardinality(DOMAIN g)

\* The receipts compare the rows' content, not their rowids.
SameRows(f, g) == Multiset(f) = Multiset(g)

\* The first SELECT of _inspect_fts_consistency.
ReadRoots ==
  /\ doctor.at = "roots"
  /\ doctor' = [doctor EXCEPT !.at = "index", !.roots = stores[doctor.store].roots]
  /\ UNCHANGED <<stores, lock, procs, harmed, minted, outside>>

\* Its second SELECT; the table may have gone.
ReadIndex ==
  /\ doctor.at = "index"
  /\ LET s == doctor.store
     IN IF "index" \in stores[s].payload /\ SameRows(doctor.roots, stores[s].index)
          THEN doctor' = [doctor EXCEPT !.at = "term"]
          ELSE Diagnose("fail")
  /\ UNCHANGED <<stores, lock, procs, harmed, minted, outside>>

Visible(d) == Range(d.roots) \ d.hidden

\* The concepts _known_recall_term looks at, in the order of their ids, and the
\* first of them that has a term, if one has.
Looked(d) == {c \in Visible(d) : Cardinality({e \in Visible(d) : Rank[e] < Rank[c]}) < MaxLooked}
Termed(d) == {c \in Looked(d) : Term[c] # None}
Picked(d) == {c \in Termed(d) : \A e \in Termed(d) : Rank[c] <= Rank[e]}

\* _known_recall_term fails without a sound sidecar, or without a scope to read
\* in (ScopeError); without a term there is no control (INFO).
PickTerm ==
  /\ doctor.at = "term"
  /\ LET d == stores[doctor.store]
     IN \/ ~Installed(d) /\ Diagnose("fail")
        \/ doctor' = [doctor EXCEPT !.at = "done", !.verdict = "fail", !.scope = "missing"]
        \/ Installed(d) /\ Picked(d) = {} /\ Diagnose("ok")
        \/ /\ Installed(d)
           /\ \E c \in Picked(d) : doctor' = [doctor EXCEPT !.at = "control", !.term = Term[c]]
  /\ UNCHANGED <<stores, lock, procs, harmed, minted, outside>>

\* recall(t, k=1) has a result: any visible concept, or any visible session.
Answers(d, t) == t \in d.spoken \/ \E c \in Visible(d) \cap Range(d.index) : t \in Matches[c]

\* _doctor_recall, in one more snapshot.
Control ==
  /\ doctor.at = "control"
  /\ LET d == stores[doctor.store]
     IN IF Installed(d) /\ Answers(d, doctor.term) THEN Diagnose("ok") ELSE Diagnose("fail")
  /\ UNCHANGED <<stores, lock, procs, harmed, minted, outside>>

Consult == (\E s \in Stores : Inspect(s)) \/ InspectClock \/ ReadRoots \/ ReadIndex \/ PickTerm \/ Control

Write(p) ==
  \/ BeginChecked(p) \/ Ensure(p) \/ Verify(p) \/ Rebuild(p) \/ Commit(p) \/ Stop(p) \/ GiveUp(p)
  \/ \E s \in Stores : Check(p, s) \/ BeginCommand(p, s)
  \/ \E c \in Concepts : Append(p, c)

Others ==
  \E s \in Stores :
    \/ Migrate(s) \/ Copy(s) \/ HarmSchema(s) \/ HarmIndex(s)
    \/ \E r \in RowIds : Forget(s, r)
    \/ \E c \in Concepts : Hide(s, c)
    \/ \E t \in Terms : Speak(s, t)

Next == Consult \/ (\E p \in Procs : Write(p)) \/ Others

-----------------------------------------------------------------------------
(* Properties.                                                             *)

Bare(d) == d.payload = {} /\ d.marker = "absent" /\ d.clock = None
Whole(d) == ObjectsExact(d) /\ d.marker = "exact" /\ d.clock # None

\* A store nobody has harmed has all of the sidecar or none of it, whenever
\* and wherever an installation failed or died, and whoever installs at the
\* same time (_ensure_schema in _atomic).
AllOfItOrNone ==
  \A s \in Stores \ harmed : stores[s] # None => Bare(stores[s]) \/ Whole(stores[s])

\* Stores with access instances of their own never make the same event identity
\* <<instance, sequence>>, although a copy starts with the clock of its origin.
\* A copy that kept the instance of its origin does make the same identities.
CopiesNeverCollide ==
  \A e, f \in minted :
    stores[e[1]].instance # stores[f[1]].instance => <<e[2], e[3]>> # <<f[2], f[3]>>

\* In a store nobody has harmed, or whose index was rebuilt since, the index
\* has exactly the rows of the concepts, rowid by rowid, after every sequence
\* of insertions, cascades and reused rowids.
IndexMirrorsRoots ==
  \A s \in Stores \ harmed : stores[s] # None => Mirrored(s)

\* Of a store that does not change while it looks, doctor says ok exactly when
\* the sidecar is whole, its index has the concepts' rows, there is a scope to
\* recall in, and the term it tries, if there is one, has an answer.  Each read
\* has a snapshot of its own, so of a store that changes nothing is promised.
DoctorIsRight ==
  doctor.verdict # None /\ doctor.calm =>
    LET d == stores[doctor.store]
    IN (doctor.verdict = "ok") <=>
         /\ Installed(d)
         /\ Multiset(d.roots) = Multiset(d.index)
         /\ doctor.scope = "there"
         /\ \A c \in Picked(d) : Answers(d, Term[c])
=============================================================================
