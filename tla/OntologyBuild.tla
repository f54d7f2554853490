---------------------------- MODULE OntologyBuild ----------------------------
(***************************************************************************)
(* The derived ontology tables and their rebuild, full or incremental:     *)
(* ontology.py.  A rebuild reads sessions and messages, writes and swaps   *)
(* the tables within one BEGIN IMMEDIATE transaction, so it is one action; *)
(* what is hard is what happened to the source between two rebuilds.       *)
(***************************************************************************)
EXTENDS Naturals, Sequences, FiniteSets, SequencesExt

CONSTANTS
  Sessions,     \* session identifiers
  Never,        \* updated_at IS NULL
  Garbled,      \* a timestamp that does not parse
  Keys,         \* what a message can mention: an artifact, a command, a test run
  Values,       \* how it mentions it; the first mention in a session is kept
  Paths,        \* project paths
  MaxMessages,  \* bound: message rows in the store
  MaxVersion,   \* bound: extraction versions
  MaxTime,      \* bound: rebuilds, each at a time of its own
  MaxAhead,     \* bound: how far ahead of the rebuilding machine a stamp may be
  SilentEdits   \* whether messages are rewritten without a newer updated_at

ASSUME OntologyAssumption ==
  /\ MaxMessages \in Nat /\ MaxVersion \in Nat \ {0} /\ MaxTime \in Nat /\ MaxAhead \in Nat
  /\ SilentEdits \in BOOLEAN
  /\ {Never, Garbled} \cap Nat = {} /\ "project" \notin Keys

Times == 0 .. MaxTime
Versions == 1 .. MaxVersion

\* No row in ontology_build_state: no version was ever built.
NoState == [version |-> 0]

VARIABLES
  source,   \* the stored sessions: a function on those that exist
  live,     \* the ontology tables
  version,  \* EXTRACTION_VERSION of the installed package
  clock

vars == <<source, live, version, clock>>

Message == [key : Keys, value : Values]
Messages == UNION {[1 .. n -> Message] : n \in 0 .. MaxMessages}
Session == [path : Paths, updated : Times \cup {Never, Garbled}, messages : Messages]

Present == DOMAIN source
Parsed(s) == source[s].updated \in Times

\* Mutant of FirstMentions: a later mention of a key is kept as well.
EveryMention(s) == DOMAIN source[s].messages

\* The structural rows of session s: its project, and for each key the first
\* message with it in canonical order.
ProjectRow(s) ==
  [session |-> s, type |-> "project", value |-> source[s].path,
   ts |-> source[s].updated, version |-> version]
MentionRow(s, i) ==
  [session |-> s, type |-> source[s].messages[i].key,
   value |-> source[s].messages[i].value, ts |-> Never, version |-> version]
FirstMentions(s) ==
  LET m == source[s].messages
  IN {i \in DOMAIN m : \A j \in 1 .. i - 1 : m[j].key # m[i].key}
Extract(S) ==
  {ProjectRow(s) : s \in S} \cup UNION {{MentionRow(s, i) : i \in FirstMentions(s)} : s \in S}

\* The individuals and relations built from the sessions and the rows.
Graph(rows) ==
  [sessions |-> [s \in Present |->
     [messages |-> Len(source[s].messages), updated |-> source[s].updated,
      project |-> (CHOOSE r \in rows : r.session = s /\ r.type = "project").value]],
   links |-> {<<r.session, r.type>> : r \in {q \in rows : q.type # "project"}}]

\* The logical hash: collision-free, over every row and no build metadata.
LogicalHash(t) == [rows |-> t.rows, graph |-> t.graph]

\* The rows that count counts, session by session, in all.
Total(count) == Cardinality(UNION {{s} \X (1 .. count[s]) : s \in DOMAIN count})

MessageTotal == Total([s \in Present |-> Len(source[s].messages)])

-----------------------------------------------------------------------------
(* Which sessions a rebuild extracts again.                                *)

\* _read_build_state returns a state (counted: its column counts is a mapping).
StateIsValid ==
  /\ live.state # NoState
  /\ live.state.version = version
  /\ live.state.counted
  /\ live.state.completed # Garbled
  /\ live.state.hash = LogicalHash(live)
  /\ \A r \in live.rows : r.version = version

Counted == DOMAIN live.graph.sessions
CountsRecorded ==
  /\ Cardinality(Counted) = live.state.sessions
  /\ Total([s \in Counted |-> live.graph.sessions[s].messages]) = live.state.messages

Unprojected(s) == \A r \in live.rows : r.session = s => r.type # "project"
Newer(s) == Parsed(s) /\ source[s].updated > live.state.completed
Candidates == {s \in Present : Unprojected(s) \/ Newer(s)}

\* Mutant of Unexplained: the counts are compared in total only.
UnexplainedTotal == live.state.messages # MessageTotal

\* A session outside the candidates has a count other than the recorded one.
Unexplained ==
  \E s \in Present \ Candidates :
    s \notin Counted \/ live.graph.sessions[s].messages # Len(source[s].messages)

Reusable ==
  /\ StateIsValid
  /\ \A s \in Present : source[s].updated # Garbled
  /\ CountsRecorded
  /\ ~Unexplained

\* Mutant of Copied: the rows of sessions that are gone are copied too.
CopiedUnseen == {r \in live.rows : r.session \notin Candidates}

Copied == {r \in live.rows : r.session \in Present \ Candidates}

\* The structural rows of a rebuild.
Plan(incremental) ==
  IF incremental /\ Reusable THEN Copied \cup Extract(Candidates) ELSE Extract(Present)

-----------------------------------------------------------------------------
(* ontology_status.  Schema, foreign keys and domain and range hold of any *)
(* tables a rebuild swapped in.                                            *)

Covered ==
  /\ 100 * Cardinality(Present \cap Counted) >= 99 * Cardinality(Present)
  /\ Counted \subseteq Present
NoOrphanRows == \A r \in live.rows : r.session \in Present

\* Mutant of CountsMatch: the messages are not counted.
SessionsMatch == live.state.sessions = Cardinality(Present)

\* Mutant of NotNewer: an update at the last rebuild or later, not only later.
NotMuchNewer == \A s \in Present : Parsed(s) => source[s].updated <= live.state.completed + 1

CountsMatch ==
  /\ live.state.sessions = Cardinality(Present)
  /\ live.state.messages = MessageTotal
NotNewer == \A s \in Present : ~Newer(s)
Fresh ==
  /\ live.state.completed # Garbled
  /\ \A s \in Present : source[s].updated # Garbled
  /\ NotNewer
  /\ CountsMatch

Healthy ==
  /\ live.state # NoState
  /\ live.state.version = version
  /\ \A r \in live.rows : r.version = version
  /\ Covered /\ NoOrphanRows /\ Fresh
  /\ live.state.hash = LogicalHash(live)

-----------------------------------------------------------------------------
(* Actions.                                                                *)

\* rebuild_ontology: the whole transaction, which swaps the tables it built.
Rebuild(incremental) ==
  /\ clock < MaxTime
  /\ LET rows == Plan(incremental)
         tables == [rows |-> rows, graph |-> Graph(rows)]
     IN live' = [rows |-> rows, graph |-> Graph(rows),
                 state |-> [version |-> version, hash |-> LogicalHash(tables),
                            completed |-> clock, sessions |-> Cardinality(Present),
                            messages |-> MessageTotal, counted |-> TRUE]]
  /\ clock' = clock + 1
  /\ UNCHANGED <<source, version>>

Store(f) == source' = f /\ UNCHANGED <<live, version, clock>>

\* What the exporter stamps: the present, or a time ahead of the machine that rebuilds.
Stamps == {t \in Times : clock <= t /\ t <= clock + MaxAhead}

\* The exporter stores a session.  One the tables have seen before comes back
\* with a new stamp.
StoreSession(s) ==
  /\ s \notin Present
  /\ \E p \in Paths, u \in Stamps \cup {Never, Garbled} :
       /\ u \in Stamps \/ \A r \in live.rows : r.session # s
       /\ Store([x \in Present \cup {s} |->
            IF x = s THEN [path |-> p, updated |-> u, messages |-> <<>>] ELSE source[x]])

\* The exporter adds a message at the front or the back of a session, with or
\* without a newer updated_at.
StoreMessage(s) ==
  /\ s \in Present /\ MessageTotal < MaxMessages
  /\ \E m \in Message, u \in Stamps \cup {source[s].updated} :
       \E ms \in {<<m>> \o source[s].messages, Append(source[s].messages, m)} :
         Store([source EXCEPT ![s].updated = u, ![s].messages = ms])

\* A message rewritten or removed, or none.
Revised(ms) ==
  {ms} \cup {[ms EXCEPT ![i] = m] : i \in DOMAIN ms, m \in Message}
       \cup {RemoveAt(ms, i) : i \in DOMAIN ms}

\* The exporter rewrites a session; with no newer updated_at only if SilentEdits.
Rewrite(s) ==
  /\ s \in Present
  /\ \E p \in Paths, ms \in Revised(source[s].messages),
        u \in Stamps \cup {source[s].updated} :
       /\ u \in Stamps \/ SilentEdits
       /\ Store([source EXCEPT ![s] = [path |-> p, updated |-> u, messages |-> ms]])

\* A session is forgotten; a connection that enforces foreign keys takes its
\* structural rows with it.
Forget(s, enforced) ==
  /\ s \in Present
  /\ source' = [x \in Present \ {s} |-> source[x]]
  /\ live' = [live EXCEPT !.rows = IF enforced THEN {r \in @ : r.session # s} ELSE @]
  /\ UNCHANGED <<version, clock>>

\* Another program damages tables that were intact.
Damage ==
  /\ StateIsValid
  /\ \/ live' = [live EXCEPT !.state = NoState]
     \/ live' = [live EXCEPT !.state.completed = Garbled]
     \/ live' = [live EXCEPT !.state.counted = FALSE]
     \/ \E r \in live.rows : live' = [live EXCEPT !.rows = @ \ {r}]
  /\ UNCHANGED <<source, version, clock>>

Upgrade ==
  /\ version < MaxVersion
  /\ version' = version + 1
  /\ UNCHANGED <<source, live, clock>>

Init ==
  /\ source = [s \in {} |-> {}]
  /\ live = [rows |-> {}, graph |-> [sessions |-> [s \in {} |-> {}], links |-> {}],
             state |-> NoState]
  /\ version = 1
  /\ clock = 0

Export == \E s \in Sessions : StoreSession(s) \/ StoreMessage(s) \/ Rewrite(s)

Next ==
  \/ \E incremental \in BOOLEAN : Rebuild(incremental)
  \/ Export
  \/ \E s \in Sessions, enforced \in BOOLEAN : Forget(s, enforced)
  \/ Damage
  \/ Upgrade

Spec == Init /\ [][Next]_vars

-----------------------------------------------------------------------------
(* Properties.                                                             *)

Row ==
  [session : Sessions, type : Keys \cup {"project"}, value : Values \cup Paths,
   ts : Times \cup {Never, Garbled}, version : Versions]

\* Stored sessions and the ontology rows keep their types, and no two structural
\* rows share a session, type and key (UNIQUE of ontology_structural).
TypeOK ==
  /\ Present \subseteq Sessions /\ \A s \in Present : source[s] \in Session
  /\ live.rows \in SUBSET Row
  /\ \A q, r \in live.rows : q.session = r.session /\ q.type = r.type => q = r
  /\ version \in Versions /\ clock \in Times

\* What any rebuild swaps in, an incremental one that copies rows included, is what
\* a full rebuild of the same source would have swapped in: a message change
\* without a newer updated_at cannot reuse structure (_plan_extraction).
IncrementalIsFull ==
  [][clock' # clock => live'.rows = Extract(Present)]_vars

\* A status of healthy means that the tables are those of the present source,
\* whatever was exported, forgotten or damaged since they were built.
HealthyIsCurrent ==
  Healthy => /\ live.rows = Extract(Present)
             /\ live.graph = Graph(Extract(Present))

Ahead(s) == Parsed(s) /\ source[s].updated > clock

\* A rebuild in either mode heals: whatever the tables were, the status after it is
\* healthy, unless a source timestamp does not parse or lies ahead of the rebuild.
RebuildHeals ==
  [][clock' # clock =>
       (Healthy' <=> \A s \in Present : source[s].updated # Garbled /\ ~Ahead(s))]_vars

\* While the status is healthy an incremental rebuild has nothing to extract: the
\* planner and the status agree on what is stale.  (Only the planner reads counts.)
HealthyNeedsNothing ==
  Healthy => Candidates = {} /\ (Reusable \/ ~live.state.counted)
=============================================================================
