---------------------------- MODULE ConceptStore ----------------------------
(***************************************************************************)
(* The authoritative concept store: concepts.py, the tables and triggers   *)
(* of concept_schema.py, and the visibility rule authorization.py shares.  *)
(*                                                                         *)
(* A write operation is ONE SQLite write transaction: it first checks all  *)
(* its inputs against the committed state and fixes the list of items it   *)
(* will write (Begin...), then writes item after item into the open        *)
(* transaction (wroots, wevents, wclock), and either commits or, at any    *)
(* of its fault points, rolls back.  SQLite admits one write transaction   *)
(* at a time, so everything else that writes waits while inTx holds.       *)
(***************************************************************************)
EXTENDS Integers, Sequences

CONSTANTS
  Sessions,       \* rows of sessions
  Evidence,       \* captured evidence rows (immutable, append-only upstream)
  SessionOf,      \* [Evidence -> Sessions]: context_evidence.session_id
  Oversized,      \* evidence whose body exceeds MAX_BODY_CHARS
  Quotes,         \* literal quotes and legacy statements
  Occurs,         \* [Evidence -> [Quotes -> SUBSET Nat]]: offsets of a quote
  Documents,      \* wind-down / bind documents: nonempty sets of requests
  Files,          \* legacy OKF files; a legacy root's id is its file's hash
  ClaimedSession, \* [Files -> Sessions]: the session_id in the file
  StatementOf,    \* [Files -> Quotes]: the statement in the file
  TooLong,        \* files whose statement exceeds 2000 code points
  Assertions,     \* ids context.propose can return; a bound root's id
  Local,          \* this store's context_access_state.instance
  Peers,          \* the other replicas' instances
  MaxCounter,     \* _MAX_COUNTER
  MaxBatch,       \* bound: items of one wind-down or import
  MaxPeerSeq,     \* bound: events one peer ever appends
  MaxInstance,    \* the largest instance (instances are ordered, as their text is)
  NoSession, NoId, NoRoot, NoParent, NoEvidence

Ids == Assertions \cup Files
Instances == {Local} \cup Peers
Standing == {"proposed", "accepted", "retired"}
Identity == Instances \X (1 .. MaxCounter)
Request == [quote : Quotes, at : (Evidence \X Nat) \cup {NoEvidence}]

ASSUME StoreAssumption ==
  /\ MaxCounter \in Nat /\ MaxBatch \in Nat /\ MaxPeerSeq \in Nat
  /\ MaxPeerSeq <= MaxCounter
  /\ MaxInstance \in Nat /\ Instances \subseteq 0 .. MaxInstance
  /\ Local \notin Peers
  /\ Assertions \cap Files = {} /\ NoId \notin Ids
  /\ NoSession \notin Sessions
  /\ SessionOf \in [Evidence -> Sessions] /\ Oversized \subseteq Evidence
  /\ ClaimedSession \in [Files -> Sessions] /\ StatementOf \in [Files -> Quotes]
  /\ TooLong \subseteq Files
  /\ NoParent \notin Identity

\* _validate_quotes refuses a document without a quote.
ASSUME ResolverAssumption ==
  /\ Occurs \in [Evidence -> [Quotes -> SUBSET Nat]]
  /\ Documents \subseteq SUBSET Request /\ {} \notin Documents
  /\ NoEvidence \notin Evidence \X Nat

\* A row of context_concepts; cites abstracts context_citations of assertion_id.
Root ==
  [origin : {"winddown", "legacy-okf", "legacy-bind"},
   session : Sessions \cup {NoSession},
   cites : SUBSET Evidence,
   supersedes : Ids \cup {NoId}]

ASSUME NoRootAssumption == NoRoot \notin Root

\* A row of context_concept_events; <<instance, seq>> stands for its id.
Event ==
  [concept : Ids, standing : Standing, instance : Instances,
   seq : 1 .. MaxCounter, time : 1 .. MaxCounter,
   parent : Identity \cup {NoParent}]

Clock == [seq : 0 .. MaxCounter, time : 0 .. MaxCounter]

\* What an operation has decided to write for one concept.
Item ==
  [target : Ids \cup {NoId},   \* the legacy root, or the root transitioned
   new : Assertions \cup {NoId}, \* the bound root to create
   session : Sessions \cup {NoSession},
   cites : SUBSET Evidence,
   standing : Standing]

Ops == {"winddown", "transition", "bind", "import"}
Stages == {"seed", "seeded", "assert", "bound", "supersede", "event"}

VARIABLES
  sessions,  \* sessions present
  visible,   \* sessions the scope and policy of the operations admit
  evidence,  \* evidence present
  roots, events, clock,      \* the committed concept tables
  inTx,                      \* a write transaction is open
  op, plan, pos, stage,      \* its operation, its items, where it is
  wroots, wevents, wclock,   \* the tables as that transaction sees them
  minted     \* history: every identity ever committed to the event log

db == <<roots, events, clock>>
work == <<wroots, wevents, wclock>>
outside == <<sessions, visible, evidence>>
vars == <<sessions, visible, evidence, roots, events, clock, inTx, op, plan,
          pos, stage, wroots, wevents, wclock, minted>>
-----------------------------------------------------------------------------
(* The event log                                                           *)

IdentityOf(e) == <<e.instance, e.seq>>
EventsOf(evs, c) == {e \in evs : e.concept = c}

Rank(s) == IF s = "retired" THEN 2 ELSE IF s = "accepted" THEN 1 ELSE 0

\* Mutant of Outranks: the order of a plain log, without the standing rank.
OutranksByTime(e, f) ==
  \/ e.time > f.time
  \/ e.time = f.time /\ e.instance > f.instance
  \/ e.time = f.time /\ e.instance = f.instance /\ e.seq > f.seq

\* The ORDER BY of current_event: standing, logical time, instance, sequence.
Outranks(e, f) ==
  \/ Rank(e.standing) > Rank(f.standing)
  \/ /\ Rank(e.standing) = Rank(f.standing)
     /\ \/ e.time > f.time
        \/ e.time = f.time /\ e.instance > f.instance
        \/ e.time = f.time /\ e.instance = f.instance /\ e.seq > f.seq

IsCurrent(evs, c, e) ==
  /\ e \in EventsOf(evs, c)
  /\ \A f \in EventsOf(evs, c) : f # e => Outranks(e, f)

HasStanding(evs, c, s) == \E e \in evs : IsCurrent(evs, c, e) /\ e.standing = s

\* Mutant of IsObservedTime: replicated events are not looked at.
IsClockTime(clk, evs, t) == t = clk.time

\* The largest logical time seen: the clock's, or that of a replicated event.
IsObservedTime(clk, evs, t) ==
  /\ clk.time <= t /\ \A e \in evs : e.time <= t
  /\ clk.time = t \/ \E e \in evs : e.time = t

\* Mutants of AppendEvent: no exhaustion check; the sequence is taken from the
\* log instead of the clock; a later event shares the last sequence.
AppendUnbounded(c, s, parent) ==
  \E t \in 0 .. MaxCounter :
    /\ IsObservedTime(wclock, wevents, t)
    /\ wclock' = [seq |-> wclock.seq + 1, time |-> t + 1]
    /\ wevents' = wevents \cup
         {[concept |-> c, standing |-> s, instance |-> Local,
           seq |-> wclock.seq + 1, time |-> t + 1, parent |-> parent]}

AppendWithSeq(c, s, parent, seq) ==
  \E t \in 0 .. MaxCounter :
    /\ IsObservedTime(wclock, wevents, t)
    /\ t < MaxCounter /\ wclock.seq < MaxCounter
    /\ wclock' = [seq |-> wclock.seq + 1, time |-> t + 1]
    /\ wevents' = wevents \cup
         {[concept |-> c, standing |-> s, instance |-> Local,
           seq |-> seq, time |-> t + 1, parent |-> parent]}

AppendSeqFromLog(c, s, parent) ==
  LET used == {e.seq : e \in {f \in wevents : f.instance = Local}} IN
  \E n \in 1 .. MaxCounter :
    /\ \A k \in used : k < n
    /\ n = 1 \/ n - 1 \in used
    /\ AppendWithSeq(c, s, parent, n)

AppendSharedSeq(c, s, parent) ==
  AppendWithSeq(c, s, parent,
                IF parent = NoParent \/ wclock.seq = 0 THEN wclock.seq + 1 ELSE wclock.seq)

\* _allocate then the INSERT of append_event, in the open transaction.
AppendEvent(c, s, parent) ==
  \E t \in 0 .. MaxCounter :
    /\ IsObservedTime(wclock, wevents, t)
    /\ t < MaxCounter /\ wclock.seq < MaxCounter
    /\ wclock' = [seq |-> wclock.seq + 1, time |-> t + 1]
    /\ wevents' = wevents \cup
         {[concept |-> c, standing |-> s, instance |-> Local,
           seq |-> wclock.seq + 1, time |-> t + 1, parent |-> parent]}

AppendInitial(c) == AppendEvent(c, "proposed", NoParent)

AppendNext(c, s) ==
  \E e \in wevents : IsCurrent(wevents, c, e) /\ AppendEvent(c, s, IdentityOf(e))
-----------------------------------------------------------------------------
(* Visibility                                                              *)

Present(rts, c) == rts[c] # NoRoot
IsLegacy(r) == r.origin = "legacy-okf"
IsBound(r) == ~IsLegacy(r)

\* authorized_root: a bound root through its citations, a legacy root through
\* its recorded session; a legacy root that recorded none is never returned.
Authorized(rts, c) ==
  /\ Present(rts, c)
  /\ rts[c].session \in visible
  /\ IsBound(rts[c]) => rts[c].cites \subseteq evidence

\* authorized_legacy_for_bind: the recorded session, else the claimed one.
BindSession(f) ==
  IF roots[f].session # NoSession THEN roots[f].session ELSE ClaimedSession[f]

AuthorizedForBind(f) ==
  /\ Present(roots, f) /\ IsLegacy(roots[f])
  /\ BindSession(f) \in visible
-----------------------------------------------------------------------------
(* Evidence resolution, under the transaction's pinned visibility          *)

VisibleEvidence(s) == {e \in evidence : SessionOf[e] = s /\ s \in visible}

\* Where a literal quote occurs in the sources es.
Matches(es, q) == UNION {{<<e, i>> : i \in Occurs[e][q]} : e \in es}

\* The places a request may mean: a locator names one, a bare quote all.
Places(s, r) ==
  {m \in Matches(VisibleEvidence(s), r.quote) : r.at \in {NoEvidence, m}}

\* _EvidenceResolver.resolve without an issue: every request means exactly one
\* place, and no two requests the same citation.  An oversized source raises.
Resolves(s, d) ==
  /\ VisibleEvidence(s) \cap Oversized = {}
  /\ \A r \in d : \E m \in Places(s, r) : Places(s, r) = {m}
  /\ \A r, t \in d : r # t /\ r.quote = t.quote => Places(s, r) # Places(s, t)

Citations(s, d) == {m[1] : m \in UNION {Places(s, r) : r \in d}}

\* import_okf: the places of the whole statement, oversized sources left out.
ImportPlaces(f) ==
  IF f \in TooLong THEN {}
  ELSE Matches(VisibleEvidence(ClaimedSession[f]) \ Oversized, StatementOf[f])

Bindable(f) == \E m \in ImportPlaces(f) : ImportPlaces(f) = {m}

\* import_okf's already_present test.
AlreadyPresent(f) ==
  \/ Present(roots, f)
  \/ \E c \in Ids : Present(roots, c) /\ roots[c].supersedes = f
-----------------------------------------------------------------------------
(* Beginning an operation: the checks, then the items to write.  A check   *)
(* that fails leaves every table as it is, hence no action for it.         *)

FirstStage(o) ==
  IF o = "import" THEN "seed" ELSE IF o = "transition" THEN "event" ELSE "assert"

Begin(o, items) ==
  /\ inTx' = TRUE
  /\ op' = o /\ plan' = items /\ pos' = 1 /\ stage' = FirstStage(o)
  /\ UNCHANGED <<sessions, visible, evidence, roots, events, clock, wroots,
                 wevents, wclock, minted>>

Free == {a \in Assertions : ~Present(roots, a)}
Distinct(ids) == \A i, j \in DOMAIN ids : i # j /\ ids[i] = ids[j] => ids[i] = NoId

BeginWinddown(s, docs) ==
  /\ ~inTx
  /\ \A i \in DOMAIN docs : Resolves(s, docs[i])
  /\ \E ids \in [DOMAIN docs -> Free] :
       /\ Distinct(ids)
       /\ Begin("winddown",
            [i \in DOMAIN docs |->
               [target |-> NoId, new |-> ids[i], session |-> s,
                cites |-> Citations(s, docs[i]), standing |-> "proposed"]])

\* Mutant of BeginTransition: a legacy root may be accepted.
BeginAnyTransition(c, s) ==
  /\ ~inTx
  /\ Authorized(roots, c)
  /\ \/ HasStanding(events, c, "proposed")
     \/ HasStanding(events, c, "accepted") /\ s = "retired"
  /\ Begin("transition",
       <<[target |-> c, new |-> NoId, session |-> NoSession, cites |-> {},
          standing |-> s]>>)

BeginTransition(c, s) ==
  /\ ~inTx
  /\ Authorized(roots, c)
  /\ s = "accepted" => ~IsLegacy(roots[c])
  /\ \/ HasStanding(events, c, "proposed")
     \/ HasStanding(events, c, "accepted") /\ s = "retired"
  /\ Begin("transition",
       <<[target |-> c, new |-> NoId, session |-> NoSession, cites |-> {},
          standing |-> s]>>)

\* Mutant of BeginBind: a retired legacy root is bound again.
BeginRebind(f, d) ==
  /\ ~inTx
  /\ AuthorizedForBind(f)
  /\ Resolves(BindSession(f), d)
  /\ \E a \in Free :
       Begin("bind",
         <<[target |-> f, new |-> a, session |-> BindSession(f),
            cites |-> Citations(BindSession(f), d), standing |-> "retired"]>>)

BeginBind(f, d) ==
  /\ ~inTx
  /\ AuthorizedForBind(f)
  /\ ~HasStanding(events, f, "retired")
  /\ Resolves(BindSession(f), d)
  /\ \E a \in Free :
       Begin("bind",
         <<[target |-> f, new |-> a, session |-> BindSession(f),
            cites |-> Citations(BindSession(f), d), standing |-> "retired"]>>)

\* fs: the records of one OKF directory that are not already present.
BeginImport(fs) ==
  /\ ~inTx
  /\ \A i \in DOMAIN fs : ~AlreadyPresent(fs[i])
  /\ \E ids \in [DOMAIN fs -> Free \cup {NoId}] :
       /\ Distinct(ids)
       /\ \A i \in DOMAIN fs : ids[i] # NoId <=> Bindable(fs[i])
       /\ Begin("import",
            [i \in DOMAIN fs |->
               [target |-> fs[i], new |-> ids[i],
                session |-> IF ClaimedSession[fs[i]] \in visible
                            THEN ClaimedSession[fs[i]] ELSE NoSession,
                cites |-> {m[1] : m \in IF Bindable(fs[i]) THEN ImportPlaces(fs[i]) ELSE {}},
                standing |-> "retired"]])
-----------------------------------------------------------------------------
(* The writes of the open transaction                                      *)

InStage(st) == inTx /\ pos <= Len(plan) /\ stage = st
Current == plan[pos]

ToStage(st) ==
  /\ stage' = st
  /\ UNCHANGED <<sessions, visible, evidence, roots, events, clock, inTx, op,
                 plan, pos, minted>>

NextItem ==
  /\ pos' = pos + 1 /\ stage' = FirstStage(op)
  /\ UNCHANGED <<sessions, visible, evidence, roots, events, clock, inTx, op,
                 plan, minted>>

SeedLegacy ==
  /\ InStage("seed")
  /\ wroots' = [wroots EXCEPT ![Current.target] =
       [origin |-> "legacy-okf", session |-> Current.session, cites |-> {},
        supersedes |-> NoId]]
  /\ ToStage("seeded")
  /\ UNCHANGED <<wevents, wclock>>

\* seed_legacy's event; import_okf then binds a record with one exact match,
\* after it has found the new root authorized.
SeedEvent ==
  /\ InStage("seeded")
  /\ AppendInitial(Current.target)
  /\ IF Current.new = NoId THEN NextItem
     ELSE Authorized(wroots, Current.target) /\ ToStage("assert")
  /\ UNCHANGED wroots

\* The triggers context_concepts_bound_proof and _legacy_successor, and the
\* keys of context_concepts.
BoundProof(i) ==
  /\ i.cites # {} /\ i.cites \subseteq evidence
  /\ \A e \in i.cites : SessionOf[e] = i.session

LegacySuccessor(rts, i) ==
  /\ Present(rts, i.target) /\ IsLegacy(rts[i.target])
  /\ \/ rts[i.target].session = i.session
     \/ rts[i.target].session = NoSession /\ ClaimedSession[i.target] = i.session
  /\ \A c \in Ids : Present(rts, c) => rts[c].supersedes # i.target

InsertAllowed(rts, i) ==
  /\ ~Present(rts, i.new)
  /\ BoundProof(i)
  /\ i.target # NoId => LegacySuccessor(rts, i)

\* context.propose and insert_bound
InsertBound ==
  /\ InStage("assert")
  /\ InsertAllowed(wroots, Current)
  /\ wroots' = [wroots EXCEPT ![Current.new] =
       [origin |-> IF op = "winddown" THEN "winddown" ELSE "legacy-bind",
        session |-> Current.session, cites |-> Current.cites,
        supersedes |-> Current.target]]
  /\ ToStage("bound")
  /\ UNCHANGED <<wevents, wclock>>

\* Mutant of BoundEvent: binding forgets to retire the legacy root.
BoundEventOnly ==
  /\ InStage("bound")
  /\ AppendInitial(Current.new)
  /\ NextItem
  /\ UNCHANGED wroots

BoundEvent ==
  /\ InStage("bound")
  /\ AppendInitial(Current.new)
  /\ IF op = "winddown" THEN NextItem ELSE ToStage("supersede")
  /\ UNCHANGED wroots

\* Mutant of SupersedeEvent: the successor is retired in place of the legacy root.
RetireSuccessor ==
  /\ InStage("supersede")
  /\ AppendNext(Current.new, "retired")
  /\ NextItem
  /\ UNCHANGED wroots

SupersedeEvent ==
  /\ InStage("supersede")
  /\ AppendNext(Current.target, "retired")
  /\ NextItem
  /\ UNCHANGED wroots

TransitionEvent ==
  /\ InStage("event")
  /\ AppendNext(Current.target, Current.standing)
  /\ NextItem
  /\ UNCHANGED wroots

Close ==
  /\ inTx' = FALSE
  /\ op' = "winddown" /\ plan' = <<>> /\ pos' = 1 /\ stage' = "assert"
  /\ UNCHANGED outside

Publish ==
  /\ roots' = wroots /\ events' = wevents /\ clock' = wclock
  /\ minted' = minted \cup {IdentityOf(e) : e \in wevents}

\* Mutants of Commit: each item is committed on its own; the bound root is
\* committed before the legacy root is retired.
CommitItem ==
  /\ inTx /\ pos > 1 /\ stage = FirstStage(op)
  /\ Publish
  /\ Close
  /\ UNCHANGED work

CommitBeforeRetirement ==
  /\ inTx /\ (pos > Len(plan) \/ stage = "supersede")
  /\ Publish
  /\ Close
  /\ UNCHANGED work

\* COMMIT checks the deferred key from a root to its initial event.
Commit ==
  /\ inTx /\ pos > Len(plan)
  /\ \A c \in Ids : Present(wroots, c) =>
       \E e \in wevents : e.concept = c /\ e.parent = NoParent
  /\ Publish
  /\ Close
  /\ UNCHANGED work

\* Mutant of Rollback: leaving the context after an exception commits.
RollbackCommits ==
  /\ inTx
  /\ Publish
  /\ Close
  /\ UNCHANGED work

\* Any exception, an exhausted counter included, or the death of the process.
Rollback ==
  /\ inTx
  /\ wroots' = roots /\ wevents' = events /\ wclock' = clock
  /\ Close
  /\ UNCHANGED <<roots, events, clock, minted>>
-----------------------------------------------------------------------------
(* What else writes to the database, between two transactions              *)

Idle == ~inTx /\ UNCHANGED <<inTx, op, plan, pos, stage, clock, wclock>>

Capture(s) ==
  /\ Idle
  /\ sessions' = sessions \cup {s}
  /\ \E es \in SUBSET {e \in Evidence : SessionOf[e] = s} :
       evidence' = evidence \cup es
  /\ UNCHANGED <<visible, roots, events, wroots, wevents, minted>>

\* Policy, project assignment, withdrawal and tombstones decide what is visible.
ChangeVisibility ==
  /\ Idle
  /\ visible' \in SUBSET sessions
  /\ UNCHANGED <<sessions, evidence, roots, events, wroots, wevents, minted>>

\* Mutant of Cascade: the events of a deleted root stay behind.
CascadeRootsOnly(gone) ==
  /\ roots' = [c \in Ids |-> IF c \in gone THEN NoRoot ELSE roots[c]]
  /\ wroots' = roots'
  /\ UNCHANGED <<events, wevents, minted>>

\* The ON DELETE CASCADE keys from roots to events.
Cascade(gone) ==
  /\ roots' = [c \in Ids |-> IF c \in gone THEN NoRoot ELSE roots[c]]
  /\ events' = {e \in events : e.concept \notin gone}
  /\ wroots' = roots' /\ wevents' = events'
  /\ UNCHANGED minted

\* Mutant of ForgetEvidence: the roots that cite it stay.
ForgetEvidenceOnly(e) ==
  /\ Idle /\ e \in evidence
  /\ evidence' = evidence \ {e}
  /\ Cascade({})
  /\ UNCHANGED <<sessions, visible>>

ForgetEvidence(e) ==
  /\ Idle /\ e \in evidence
  /\ evidence' = evidence \ {e}
  /\ Cascade({c \in Ids : Present(roots, c) /\ e \in roots[c].cites})
  /\ UNCHANGED <<sessions, visible>>

ForgetSession(s) ==
  /\ Idle /\ s \in sessions
  /\ sessions' = sessions \ {s} /\ visible' = visible \ {s}
  /\ evidence' = {e \in evidence : SessionOf[e] # s}
  /\ Cascade({c \in Ids : /\ Present(roots, c)
                          /\ \/ roots[c].session = s
                             \/ \E e \in roots[c].cites : SessionOf[e] = s})

\* A replica that holds the concept appends to its own copy under the same
\* rules, knowing only part of this store's events; its events arrive late, in
\* any order, or never.  A second arrival of an event changes nothing.
PeerEvent(p, seq, e, s) ==
  /\ Idle
  /\ <<p, seq>> \notin minted
  /\ \/ e.standing = "proposed" /\ s \in {"accepted", "retired"}
     \/ e.standing = "accepted" /\ s = "retired"
  /\ IsLegacy(roots[e.concept]) => s = "retired"
  /\ \E t \in (e.time + 1) .. MaxCounter :
       events' = events \cup
         {[concept |-> e.concept, standing |-> s, instance |-> p, seq |-> seq,
           time |-> t, parent |-> IdentityOf(e)]}
  /\ wevents' = events'
  /\ minted' = minted \cup {<<p, seq>>}
  /\ UNCHANGED <<sessions, visible, evidence, roots, wroots>>
-----------------------------------------------------------------------------
Batches(S) == UNION {[1 .. n -> S] : n \in 1 .. MaxBatch}

Init ==
  /\ sessions = {} /\ visible = {} /\ evidence = {}
  /\ roots = [c \in Ids |-> NoRoot] /\ events = {} /\ clock = [seq |-> 0, time |-> 0]
  /\ inTx = FALSE /\ op = "winddown" /\ plan = <<>> /\ pos = 1 /\ stage = "assert"
  /\ wroots = roots /\ wevents = events /\ wclock = clock
  /\ minted = {}

BeginAny ==
  \/ \E s \in Sessions, docs \in Batches(Documents) : BeginWinddown(s, docs)
  \/ \E c \in Ids, s \in {"accepted", "retired"} : BeginTransition(c, s)
  \/ \E f \in Files, d \in Documents : BeginBind(f, d)
  \/ \E fs \in Batches(Files) : Distinct(fs) /\ BeginImport(fs)

Write ==
  \/ SeedLegacy \/ SeedEvent \/ InsertBound
  \/ BoundEvent \/ SupersedeEvent \/ TransitionEvent

External ==
  \/ \E s \in Sessions : Capture(s) \/ ForgetSession(s)
  \/ ChangeVisibility
  \/ \E e \in Evidence : ForgetEvidence(e)
  \/ \E p \in Peers, seq \in 1 .. MaxPeerSeq, e \in events, s \in Standing :
       PeerEvent(p, seq, e, s)

Next == BeginAny \/ Write \/ Commit \/ Rollback \/ External

Spec == Init /\ [][Next]_vars
-----------------------------------------------------------------------------
(* Properties.  Those of a database hold of the committed tables and of    *)
(* what the open transaction has written so far.                           *)

RootsOK(rts) == rts \in [Ids -> Root \cup {NoRoot}]

\* Every variable has its type.
TypeOK ==
  /\ sessions \subseteq Sessions /\ visible \subseteq sessions
  /\ evidence \subseteq Evidence
  /\ RootsOK(roots) /\ RootsOK(wroots)
  /\ events \subseteq Event /\ wevents \subseteq Event
  /\ clock \in Clock /\ wclock \in Clock
  /\ inTx \in BOOLEAN /\ op \in Ops /\ plan \in Seq(Item)
  /\ pos \in Nat \ {0} /\ stage \in Stages
  /\ minted \subseteq Identity

CausalIn(evs) ==
  \A e \in evs :
    \/ e.parent = NoParent /\ e.standing = "proposed"
    \/ \E p \in evs :
         /\ IdentityOf(p) = e.parent /\ p.concept = e.concept
         /\ p.time < e.time
         /\ <<p.standing, e.standing>> \in
              {<<"proposed", "accepted">>, <<"proposed", "retired">>,
               <<"accepted", "retired">>}

\* The log is a causal history: every event that is not initial has its parent
\* in the log, of the same concept, at a strictly smaller logical time and in a
\* standing it may leave.  _allocate owes this by reading the largest time of
\* all events, those of other replicas included, and current_event by choosing
\* the parent.
CausalLog == CausalIn(events) /\ CausalIn(wevents)

\* An identity <<origin_instance, origin_seq>> names one event for ever: no step
\* gives a new event the identity of an event the log ever held, although
\* forgetting a session deletes the rows that used it (only the clock remembers).
IdentitiesNeverReused ==
  [][\A e \in events' \ events : IdentityOf(e) \notin minted]_vars

\* Distinct events have distinct identities, in the log and in the transaction.
UniqueIn(evs) == \A e, f \in evs : IdentityOf(e) = IdentityOf(f) => e = f
IdentitiesUnique == UniqueIn(events) /\ UniqueIn(wevents)

\* Retirement is final: whatever a replica accepts concurrently, with whatever
\* logical time it arrives, a root that is retired and still there stays retired
\* (the standing rank precedes the time in current_event's order).
RetiredIsFinal ==
  [][\A c \in Ids :
       /\ HasStanding(events, c, "retired") /\ roots[c] # NoRoot
       /\ roots'[c] # NoRoot
       => HasStanding(events', c, "retired")]_vars

\* A legacy root never counts as accepted: only its bound successor can be.
LegacyNeverAccepted ==
  \A c \in Ids : Present(roots, c) /\ IsLegacy(roots[c])
                   => ~HasStanding(events, c, "accepted")

\* Each bound root rests on evidence that is present and of its own session, also
\* after evidence or a session was forgotten (the cascades of the foreign keys).
CitationsClosed ==
  \A c \in Ids : Present(roots, c) /\ IsBound(roots[c]) =>
    /\ roots[c].cites # {} /\ roots[c].cites \subseteq evidence
    /\ \A e \in roots[c].cites : SessionOf[e] = roots[c].session

\* Binding supersedes: the root a bound root supersedes is there, is legacy and is
\* retired, and no other root supersedes it.  So a legacy file is never visible
\* both unbound and bound, and forgetting never meets a dangling foreign key.
SupersessionSound ==
  \A c \in Ids : Present(roots, c) /\ roots[c].supersedes # NoId =>
    LET f == roots[c].supersedes IN
    /\ Present(roots, f) /\ IsLegacy(roots[f])
    /\ HasStanding(events, f, "retired")
    /\ \A d \in Ids : Present(roots, d) /\ roots[d].supersedes = f => d = c

\* The log and the roots agree: a root has one initial event, and no event is left
\* of a root that is gone.
RootsHaveHistories ==
  /\ \A e \in events : Present(roots, e.concept)
  /\ \A c \in Ids : Present(roots, c) =>
       \E e \in events : /\ e.concept = c /\ e.parent = NoParent
                         /\ \A f \in EventsOf(events, c) : f.parent = NoParent => f = e

\* The checks an operation makes before it writes are enough: no trigger or key of
\* the schema refuses an insert of an operation that passed them.
ChecksSuffice == InStage("assert") => InsertAllowed(wroots, Current)

Done(i) ==
  /\ i.new # NoId =>
       roots'[i.new] # NoRoot /\ \E e \in events' : e.concept = i.new
  /\ i.target # NoId => HasStanding(events', i.target,
       IF op = "import" /\ i.new = NoId THEN "proposed" ELSE i.standing)

\* An operation commits all its items or nothing: a step that ends a transaction
\* either leaves the tables alone or has done every item, the retirement of every
\* bound legacy root included.
AllOrNothing ==
  [][inTx /\ ~inTx' => db' = db \/ \A i \in 1 .. Len(plan) : Done(plan[i])]_vars
-----------------------------------------------------------------------------
(* The store implements the lifecycle: the log, the clock, the replicas'   *)
(* late events and the open transaction are invisible in it.               *)

StandingOf(c) ==
  IF ~Present(roots, c) THEN "absent"
  ELSE CHOOSE s \in Standing : HasStanding(events, c, s)

Lifecycle == INSTANCE ConceptLifecycle
  WITH Concepts <- Ids, LegacyConcepts <- Files,
       standing <- [c \in Ids |-> StandingOf(c)]

\* Every step of the store is one step of the lifecycle, or none: a batch is one
\* step, a bind is one step, a standing never goes back.
ImplementsLifecycle == Lifecycle!Spec
=============================================================================
