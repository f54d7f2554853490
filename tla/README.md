# Session Weaver in TLA+

Specifications of the parts of Session Weaver that keep state: what they
promise, what TLC checks of them on small instances, and what TLAPS proves of
them for every instance. Paths such as `concepts.py` are below
`src/session_weaver/`; line numbers are in `PROJECT.json`, which maps every
definition to the code it translates.

    tlc -workers 2 -config MCConceptStore.cfg MCConceptStore
    tlc -workers 2 -config MCCommands.cfg MCCommands
    tlapm ConceptStoreProofs.tla     # and ProjectionProofs, InstallerProofs, OntologyProofs,
    tlapm CommandsProofs.tla         # SidecarProofs, OkfScanProofs, RecallProofs

## 1. Inventory

| Part | State | Operations | Interacts with |
| --- | --- | --- | --- |
| Concept store, `concepts.py` | roots, event log, logical clock, in SQLite | wind-down, transition, bind, import | evidence and sessions of `agent_session_tools`, in the same database |
| Concept schema, `concept_schema.py` | tables, keys, triggers, FTS rows | install, adopt, verify, rebuild FTS | refuses or cascades what the store does |
| Authorization, `authorization.py` | none | current standing, visible roots | shared by projection and recall |
| Projection, `projection.py` | marker, manifest, generated files, backups | capture, preflight, publish, recheck, commit, roll back | the store (reads), the user and other projectors (same directory) |
| Installer, `installer.py`, `harnesses.py` | hub directory, links or copies, ownership markers | install, uninstall | the user, a killed earlier command, new releases |
| Ontology, `ontology.py` | structural rows, graph, build state | full and incremental rebuild, status | the exporter that writes sessions and messages |
| Recall, `recall.py` | the answer so far, within one read snapshot | plan a query, read ranked pages, filter, find sessions | store, sessions (reads), next to other writers |
| Wind-down parsing, `winddown.py` | none | validate a request | feeds the store |
| OKF parsing and scanning, `okf.py` | counters, errors, records of one scan | walk a directory, read and classify files | the user (same directory), feeds the store |
| Command line, `cli.py` | the command's stage, the report's target | run one command, deliver a report, exit code | everything above |
| Doctor, `cli.py` | none | inspect the sidecar, recall a known term | the store, without a transaction |
| Bench, live ontology checks, release tools | none | print, measure | everything, read-only |

What is hard in it, and what makes each part correct:

- **Store.** One operation is one write transaction over several tables, with
  checks before the first write and an exception possible at each write. Events
  of other replicas arrive at any time, late and in any order; forgetting a
  session cascades through roots and events. Correct means: the log is causal,
  identities are unique for ever, retirement is final, batches are atomic, a
  bound root always has its evidence, a legacy root has one successor.
- **Projection.** Publication takes tens of file system calls in a directory the
  user owns too, without a lock, while the database moves on; every call can
  fail, and so can the unwinding. Correct means: what succeeded is the current
  state, what failed left no trace or says so, a run that died is taken up by the
  next, and nothing of the user's is lost.
- **Installer.** Decides by markers what it may remove, and can die between
  writing a directory and marking it.
- **Ontology.** An incremental rebuild guesses from timestamps and counts which
  rows can be kept; the status guesses from the same data whether they are stale.
- **Sidecar.** The tables live in a database other programs own, migrate, copy and
  damage. Two processes may find no sidecar at once and both install it; an
  installation can end between any two of its statements; a copied file carries the
  clock of its origin, and its access instance unless it is given another; the full-text index is kept by triggers, by rowid. Correct
  means: all of it or none, no event identity made twice, the index equal to the
  table, and a doctor that says what is the case.
- **Recall.** Ranked pages of a fixed size are filtered after the database has cut
  them, by an authorization read before, while others commit. Correct means: the
  answer of one instant, the best `k`, and an end.
- **Scan and parser.** Candidates are listed first and read later; what a file counts
  as, and whether it repeats another, depends on everything before it. Correct
  means: each candidate once, the first record of each content, and nothing the
  tables would refuse in the middle of a batch.
- **Command.** The report of an import is delivered after the commit, through a
  directory the user works in. Correct means: exit code and report agree with what
  was written.

## 2. Plan

| Step | Modules | Status |
| --- | --- | --- |
| 1 | `ConceptStore` (with schema guards and authorization), `ConceptLifecycle` (abstract) | done |
| 2 | `ConceptStoreProofs`: types, identities, legacy roots | done |
| 3 | `Projection` | done |
| 4 | `Installer` | done |
| 5 | `OntologyBuild` | done |
| 6 | `Sidecar`: install, adopt, refuse; FTS rows and rowids; a copied store file; doctor | done |
| 7 | `Recall` as a refinement of `RecallContract` | done |
| 8 | `OkfScan`, `WinddownRequest` | done |
| 9 | `WriteCommand`, and `Commands`, the composition of 6 to 9, with liveness | done |
| 10 | `SidecarProofs`, `OkfScanProofs`, `RecallProofs`, and `CommandsProofs` over them | done |
| 11 | `ConceptStoreProofs` completed: histories, citations, supersession, atomicity, the refinement of `ConceptLifecycle` | done |
| 12 | `ProjectionProofs`, `InstallerProofs`, `OntologyProofs` | done |
| 13 | A composition of `Projection` with `ConceptStore`: `Rendering` from roots and standings | planned |
| 14 | `CommandsProofs`: `TypeOK` of `Commands`, all parts together | done |

## 3. The modules

### ConceptStore and ConceptLifecycle

`roots`, `events` and `clock` are the committed tables; `wroots`, `wevents` and
`wclock` are the same tables as the open transaction sees them. An operation
begins (`BeginWinddown`, `BeginTransition`, `BeginBind`, `BeginImport`) with all
the checks the code makes before its first write, which also fix the list of
items it will write; `SeedLegacy`, `SeedEvent`, `InsertBound`, `BoundEvent`,
`SupersedeEvent` and `TransitionEvent` write item after item in the code's
order; `Commit` checks the deferred key, and `Rollback` can come after any write
(an exception, an exhausted counter, the end of the process). SQLite admits one
write transaction at a time, so `External` acts only between two of them.

Two things are fixed in the model. A row's identity is abstract: an event is
`<<instance, seq>>`, where the code stores a hash of the event. A body of
evidence is the set of offsets at which each quote occurs in it, which is all
that `_EvidenceResolver` asks of it; so ambiguity, locators, duplicate citations
and oversized bodies are decided as the code decides them.

Outside the source tree, and modelled from how it is used: capture and forgetting
of sessions and evidence, changing visibility, and `PeerEvent`, an event of
another replica, which obeys the same rules on what that replica knew: its parent
is *some* event of the log, not the current one. Synchronisation of concepts is
not part of this release, but the schema and `_allocate` are written for it.

`ConceptLifecycle` says what the store promises without transactions, log or
clock: one standing per concept, which only advances, and batches in one step.
`ImplementsLifecycle` maps the store to it: the standing of a concept is that
of its current committed event.

### Projection

`dir` maps names to files with an inode and a content; `run` holds each
projector's progress. Every action is one file system call, or one read whose
answer the next call relies on. So `Look` / `Temp` / `Rename` / `Record` is
`_create` and `_write_atomic`; `Verify` / `Identify` / `Compare` / `Move` is
`_verify_owned` and `_backup`. `Abort` is what the `except` clauses do: a
file that already has the payload's bytes counts as published by this run, and the
temporary file is removed. Each of the two may fail in its turn, and the code then
says nothing of it; `missed` keeps the names concerned. `Undo` and
`Undoing` are the unwinding, newest mutation first, each of which may fail.
`Preflight` is one step although it reads file by file, because `apply` reads
everything again that it relies on. Inodes are reused as eagerly as possible.

`Rendering` is the database as the projection sees it: a sequence of states,
each with the content of every generated name. `Drift` moves on to the next.
What a run has yet to do is a set of jobs, of which `First` is the one whose turn
comes first in the code's order; what it has done is the sequence the unwinding
takes back.

`UserRaces` decides whether the user may move inside a *window* (`InWindow`),
between a check and the one call that relies on it. No program without
compare-and-swap on files can close them all; the passing run excludes them, and
`projection_user_races` shows what is lost inside one.

### Installer

`place` is what is under each path: nothing, a file, a link, a directory with the
release of each file, the marker and something of the user's. Each command works
through its targets; `Die` ends it between any two calls, in the middle of
`rmtree` too (`Remove` deletes in any order). The files of the tree are replaced
atomically (`InstallFile`), the marker is not: `TruncateMarker` and `WriteMarker` are the
two halves of one `write_bytes`, so a directory that is the installer's already is
without its marker for a moment. `Aliased` are the harnesses whose
skills directory is itself a link to the hub's.

### OntologyBuild

`source` is the sessions and their messages in canonical order, `live` the
ontology tables. A rebuild is one transaction and one action. `Reusable`,
`Candidates`, `Copied` are the planner of the incremental mode; `Healthy` is
`ontology_status`. `Graph` keeps of the graph what the planner and the status
read. `SilentEdits` decides whether the exporter may rewrite a message without a
newer `updated_at`; adding a message without one is always allowed, since the
counts tell. `Stamps` are the times the exporter writes: now, or one still to come,
since `updated_at` comes from another machine or a transcript. A rebuild compares
them with its own time only.

### Sidecar

`stores` holds the committed state of each store file; a writer in `procs` works on a
copy of its own, `tx`, under the store's `lock`, which a commit publishes and a
rollback, a fault or a death drops (`_atomic`). `Check` is the part of
`_ensure_schema` before the transaction, `BeginChecked` is `BEGIN IMMEDIATE`, and
`BeginCommand` is the entry from a command's own write transaction. `Ensure` installs,
adopts, verifies or refuses; `Verify` is the check of what was made. The payload's
objects are two groups, the tables and the index: the code's decisions tell apart
none, some, all, and all but altered. `InsertRoot` and `Unindex` are the triggers;
`NextRow` is SQLite's rule that a new rowid follows the largest one, so a deleted
concept's rowid comes back. `Migrate`, `Copy`, `HarmSchema` and `HarmIndex` are other
programs. A `Copy` keeps the access instance of its origin, which is a row of the
copied file, or is given one of its own. `harmed` marks the stores they have written to,
until a rebuild makes the index right again.

`Inspect`, `InspectClock`, `ReadRoots`, `ReadIndex`, `PickTerm` and `Control` are
doctor's reads, each with a snapshot of its own, since its connection opens no
transaction. `PickTerm` is `_known_recall_term`: the first of the visible concepts, up to
`MaxLooked` of them, that `plan` finds a term in; it fails without a sound sidecar or without
a scope, and without a term doctor asks no more. `Control` is the trial recall, which is
content with any concept or session. `Hide` and `Speak` are what changes the result: concepts
that are retired or change scope, messages that come and go. `calm` records whether the
store changed under doctor.

### Recall and RecallContract

`store` is what the database holds for one question: the order of the AND and of the
OR query, and what is visible. `Open` pins `snap`. `ReadPage` is one pass of the loop:
one query with LIMIT and OFFSET and the rows taken from it. `RecallContract`
states the answer without pages, offsets and passes, from one instant: what is given
`IsBest`, in the order of the ranks, none left out that would come before one given.
It says which selection is right, not how to make it. `AnswersOneInstant` is the
refinement. `Kept`, the rows of a page that pass a filter, is written by positions;
`MCCommands` assumes, and TLC evaluates, that it is `SelectSeq`, and that the contract
leaves one answer only.

### OkfScan

`ListRoot`, `Look`, `OpenFolder` and `Walked` are the walk, call by call; `Read` is one
file, opened, classified, counted and kept or dropped. `Change` is the user. Entries are
numbered in the byte order of their paths, so one folder, an entry before it, one in it
and one after it give the orders that matter. A document is a record of what
the checks tell apart, in the order in which they are made.

### WinddownRequest

`Envelope` reads the request itself, `ReadConcept` one concept. The code's own limits (8
concepts, 8 quotes, 120 and 4000 characters, 12 words, 2000 and 128 for a quote and its
evidence, 2 to 5 tags) stand in the module: texts have a length, not characters. Two
things of their characters the parser does not see are kept in `odd`: a NUL in front, at which
SQLite's length ends, and a lone surrogate, which has no UTF-8. `Huge` is an integer
beyond `float()`, whose conversion raises (`Overflow`) and ends the command (`ParseFails`).

### WriteCommand and Commands

`WriteCommand` is a command from its arguments to its exit code. What the store
answers is a choice here (`StoreRefuses`, `WriteFails`, `Write`; `ConceptStore` says
when). `Create`, `Fill`, `Check`, `Replace`, `Flush` and `Cleanup` are the calls of
`_write_report_atomic`, each of which may fail; `Move` is the user at the target. A
killed process has exit code 137.

`Commands` is `main()`: one process runs one command made of these parts,
next to the other processes and the user each part has. `ParseReturns` and `ScanReturns`
hand the parser's and the scan's result to the command. The parts a command does not
use rest.

## 4. The runs

| Run | Instance and bounds | Shows |
| --- | --- | --- |
| `concept_store` | one session, two bodies of evidence, two quotes (one ambiguous when both bodies are there), one file, two assertion ids, one peer with one event, counters up to 4, batches of 2 | types, `CausalLog`, `IdentitiesUnique`, `IdentitiesNeverReused`, `RetiredIsFinal`, `LegacyNeverAccepted`, `CitationsClosed`, `SupersessionSound`, `RootsHaveHistories`, `ChecksSuffice`, `AllOrNothing`, refinement |
| `concept_import` | as above with two files, no documents, no peer, counters up to 7 | an import of two records, each bound or not, is atomic and one step of the lifecycle |
| `projection` | one projector, two names, three database states (added, changed, retired), one user move outside the windows, any number of failures and deaths | `RollbackRestores`, `PublicationStands`, `PublishedWhileCurrent`, `DeadRunsAreTakenUp`, `UserWorkKept` |
| `installer` | two harnesses, two files, two releases, one user move, deaths anywhere | `InstallIsComplete`, `UnownedPreserved`, `Idempotent` |
| `ontology` | two sessions, two messages, two values of one key, two extraction versions, two rebuilds | `IncrementalIsFull`, `HealthyIsCurrent`, `HealthyNeedsNothing`, `RebuildHeals` |
| `commands` | recall: three concepts, two sessions, pages of two, `k` up to 2, one commit of others; doctor: two writers (one on the origin, one on both stores), one copy, two concepts, rowids up to 2, two events in the origin and one in the copy, one term, one migration, copy, damage or change of what doctor sees, upstream versions 46 and 47, up to doctor's answer; import: four entries, twelve documents in 40 trees, three errors, one edit, one move at the target; winddown and bind: 28 concepts in pairs, 12 quotes in pairs, requests of 8 and 9 | `AllOfItOrNone`, `CopiesNeverCollide`, `IndexMirrorsRoots`, `DoctorIsRight`, `ScanIsAccounted`, `RequestIsSound`, `ExitTellsTruth`, the refinement `AnswersOneInstant`, and `EveryCommandEnds` |
| `projection_user_races`, `projection_two_runs`, `projection_regenerate`, `installer_crash`, `installer_alias`, `ontology_silent` | the smallest instance that shows it | section 6 |

Why these bounds are enough for the interesting cases to happen. In the store a
counter up to 4 lets a root be proposed, accepted, retired and meet a late event
of the peer, and it runs out in the middle of a batch; a file can be imported,
bound, its successor forgotten with its evidence, and imported or bound again.
Seven events are what an import of two records with two bindings needs, plus one.
No instance has two records with the same statement, which `ChecksSuffice` speaks of as well;
for that the theorem `ChecksAreEnough` holds for every instance.
In the projection two names are the fewest for which a run can have one file
published, another moved aside and the manifest still old. In the installer a second
release and a second harness make mixed states; in the ontology two sessions let one
be reused while the other is extracted, and two messages let a count stay the
same while a mention changes. The third time stamp of the ontology (`MaxTime` 2)
separates "before", "between" and "after" two rebuilds; a stamp is up to one
such time ahead of the clock (`MaxAhead` 1), so that it is later than the next rebuild.

In `commands` pages of two over three concepts give a full page, a short one and a full
one that is the last, with hidden concepts in front; two rowids and two events let a
rowid be used again and a copy reach the sequence of its origin; of two concepts with
`MaxLooked` 1 (20 in the code) one can hide the other and answer for it; three errors
overflow the list with one bad document of four faults; one edit can hit each
point between listing and reading; texts have the lengths at each limit and one beyond.
`MaxRow`, `MaxSeq`, `MaxOutside`, `MaxChanges`, `MaxEdits` and `MaxMoves` bound steps that
nothing in the code bounds; `PageSize`, `MaxK`, `MaxErrors` and `MaxLooked` are limits of the code
(200, 50, 100, 20) made small; `MaxConcepts` is the code's.

Symmetry is used only for values no definition tells apart: assertion ids in the
store, sessions and values in the ontology. Deadlock is checked except in the
ontology, where the bounds on rebuilds and versions let the model stop.

**Fairness.** `Commands` assumes weak fairness of the command's own steps, `WF_vars(Own)`,
and of nothing else. A command is one thread that, once its connection is open, waits for
no other process: readers have a snapshot, a writer has the lock or fails after a
timeout (`OpenFails`), and file system calls return. So its next step stays
possible until it is taken. Other processes, the user and a kill may come at any
time or never. Under this, `EveryCommandEnds` holds, although the user edits the tree
being scanned and others commit while pages are read. In the doctor's part the writers
have no fairness: one that stays in its transaction for ever does not stop doctor,
which only reads.

The other modules assume no fairness. Their operations are commands a
person or an agent may run or never run, and any of them may be killed. What must
"eventually" happen is stated as safety at the end of a command: a run that
reports `ok` has published, an undisturbed run after one that died publishes, an install
without conflicts is complete, the tables after a rebuild are healthy.

## 5. What is proved

Every theorem is of the form `Spec => []P`, `Spec => [][A]_v` or `Spec => Abstract!Spec`
for all values of the constants. Behind each is an inductive invariant; what it adds to
the property is the argument, so it is given here. The assumptions named are
evaluated by TLC in each run of the module.

### ConceptStoreProofs

For any sets of sessions, evidence, files, documents and peers, any batch size and any
counter limit.

| Theorem | Property | Rests on |
| --- | --- | --- |
| `TypeCorrect` | `TypeOK` | `TypeInv` |
| `EventIdentity`, `IdentityForEver` | `IdentitiesUnique`, `IdentitiesNeverReused` | `LogInv` |
| `LegacyIsNeverAccepted` | `LegacyNeverAccepted` | `KindInv` |
| `ChecksAreEnough` | `ChecksSuffice` | `PlanInv` |
| `LogIsCausal`, `RetirementIsFinal` | `CausalLog`, `RetiredIsFinal` | `StoreInv`, the four above |
| `RootsKeepHistories` | `RootsHaveHistories` | `RootInv` |
| `CitationsStayClosed`, `SupersessionIsSound` | `CitationsClosed`, `SupersessionSound` | `RowInv` |
| `OperationsAreWhole` | `AllOrNothing` | `DoneInv` |
| `StoreImplementsLifecycle` | `ImplementsLifecycle` | `LifeInv` |

- `TypeInv` is `TypeOK` with `PlanOK`, what a plan holds in each stage, without which
  the writes could not be typed. It includes that no counter passes its limit.
- `LogInv`: the committed clock bounds every sequence of this store that was ever used, the
  transaction's clock those it has written, and what it has added lies between the two.
  Uniqueness alone is not inductive: after a cascade has deleted rows, only the clock
  remembers which numbers were used.
- `KindInv`: a root is legacy exactly when its id is a file's hash; no event of a
  legacy root is an acceptance, current or not, and none is planned. The property speaks
  of the current event only, and a replica's late acceptance need not be current yet.
- `PlanInv` is the argument for checking before writing: no two items of a plan share a
  concept, and all the open transaction has written (`Frame`) is of the items it has
  come to. So what `Begin...` checked of an item still holds when its turn comes. No
  property says this, and most of them need it.
- `RootInv`: each concept has one initial event, each root has it. `RowInv` is `CitationsClosed`
  and `SupersessionSound` of the committed and of the open tables, but for the one legacy
  root whose successor is written and whose retirement comes next (`Retiring`). `DoneInv`:
  what was written of an item stays the current state of its concepts
  while the items after it are written.
- The refinement: a step that is no commit leaves every standing alone, a commit moves the
  standing of just the items of the plan, and all of them by the code's transition rules;
  forgetting makes concepts absent; and an event of a peer moves one standing forward
  or, being late, none.

The proofs assume `StoreAssumption`, `NoRootAssumption` and `ResolverAssumption` (a
document that was parsed requests at least one quote, which `winddown.py` checks).
`PeerEvent` presumes that a peer does not use a number twice, which is the same theorem on
the peer's side, and that no peer has this store's instance (`Local \notin Peers`).

### ProjectionProofs

For any documents, sequence of database states and number of moves, with failures and
deaths anywhere.

| Theorem | Of | Rests on |
| --- | --- | --- |
| `ProjectionTypes`: `TypeOK` | any projectors | `TypeInv` |
| `PublishedAtItsSnapshot`: `PublishedWhileCurrent` | any projectors | `CurrentInv` |
| `SuccessIsPublication`: `PublicationStands` | one projector, with the user | `StandsInv` |
| `UserWorkIsKept`: `UserWorkKept` | one projector, `~UserRaces` | `ApartInv`, `HandInv` |
| `UnwindingRestores`: `RollbackRestores` | one projector, `~UserRaces` | the same, `MissedInv` and `TraceInv` |
| `DeadRunsAreResumed`: `DeadRunsAreTakenUp` | one projector, `~UserRaces` | the same, `StandsInv`, `WrittenInv`, `ClearInv`, `GoodInv`, `ResumeInv` |

The two hypotheses are not for the proof's sake. Of two projectors `PublicationStands` is false
(`projection_two_runs`), and a user inside a window can lose work (`projection_user_races`);
each of these runs violates a theorem whose hypothesis it drops. `Alone` says that there is
one projector; `SuccessIsPublication` needs nothing of the user, whose moves in a window
included are in `touched`.

- `TypeInv` knows which jobs a run can be at in each state of its program, and that no two
  files share an inode. `CurrentInv`: a run writes only while its snapshot is current, or the
  database has moved on and the recheck will find out, since revisions only grow.
- `ApartInv`: no name is published twice, and a name with an open mutation is the
  job at hand. So each mutation has a name of its own, and taking one back disturbs no
  other.
- `HandInv`: what the last check has seen of a file is still so at the call that relies on it,
  nothing a run moved aside or made is the user's, and every backup belongs to a mutation.
- `TraceInv`: as long as no conflict was met, the directory found by the run can be
  read off the directory as it is and the list of mutations, but for the names in `missed`.
  `RollbackRestores` speaks of the end only, this of each call between the first mutation and
  the last unwinding.
- `MissedInv`: a name that a second failure hid is that of one file, which has the content
  the run renders, and no mutation left on the list would put anything back there. So the
  unwinding passes it by, and that is all that stays.
- `GoodInv` is about directories between two runs. While no run has died the directory is
  `Settled`: empty, or marked with exactly the files its manifest lists. When the snapshots
  of all dead runs are the present one and there is no backup, it is adoptable (`Adopts`):
  a file the manifest does not list, or a listed one that is missing, is as that
  snapshot renders it. A run in progress keeps this of the directory it found, because
  it may be unwound. If it dies instead, `TraceInv` tells what it did to that directory and
  `WrittenInv` that it made nothing but what its snapshot renders, the marker first. A
  conflict in an unwinding would leave files of another snapshot; `ClearInv` says that without a
  user it comes from a failed call only, which `lost` records, and that a dead run's
  snapshot is never ahead of the database.
- `ResumeInv` follows an undisturbed run over such a directory: its jobs and mutations together
  cover each name that is not as its snapshot wants it, so no check of a file can stop it,
  and the one that can is the last, of a manifest that no job was planned for. This is the case
  `Overtaken`, and the code's fault (section 6, 3).

### InstallerProofs

For any harnesses, aliases, files, releases and moves, with deaths anywhere:
`InstallerTypes` (`TypeOK`), `InstallsAreComplete` (`InstallIsComplete`), `UnownedIsPreserved`
(`UnownedPreserved`) and `InstallIsIdempotent` (`Idempotent`). `EntriesInv`: only a
directory holds anything of the skill. `CommandInv`: where a command is tells what it has
found; a tree is made of nothing or of a directory, and only what was marked when the command
began, or is to be replaced by force, is removed. `BehindInv`: a harness of an install
without conflicts is settled, or still to come, or the one at hand, and so is the hub, which
stays complete while the harnesses are done. They assume `InstallerAssumption`.
`Idempotent` excepts the hub's marker, which a repeated install truncates and writes again;
what a death in between costs is `installer_crash`.

### OntologyProofs

For any sessions, keys, versions and numbers of messages and rebuilds:
`OntologyTypes` (`TypeOK`), `RebuildsHeal` (`RebuildHeals`: healthy after a rebuild exactly
when each stamp parses and none is later than it) and, if `~SilentEdits`,
`IncrementalRebuildIsFull` (`IncrementalIsFull`), `HealthyMeansCurrent` (`HealthyIsCurrent`) and
`HealthyIsQuiet` (`HealthyNeedsNothing`). With `SilentEdits` the first of these is
false (`ontology_silent`). `RecordInv` is what the last rebuild recorded, whatever was done
to the tables since. `FaithInv` follows each recorded session through what the source
does to it: it is newer than the rebuild, or has more messages than were recorded, or is
exactly as it was and so are its rows. Newer is what the planner and the status both see;
and since a count can only have grown, `EqualTotals` shows that equal totals mean equal
counts, which is why the status may compare sums. Sums over sessions are cardinalities of
sets of counters for this.

### CommandsProofs

Of the composition, for any writers, stores, concepts, trees, requests and options, and
whatever the other parts do.

| Theorem | Property | Rests on |
| --- | --- | --- |
| `InstallationIsAtomic`, `IdentityIsLocal`, `IndexIsMirror` | `AllOfItOrNone`, `CopiesNeverCollide`, `IndexMirrorsRoots` | `Inv` of `SidecarProofs` |
| `DiagnosisIsRight` | `DoctorIsRight` | `DoctorInv` of `SidecarProofs` |
| `ScansAccount` | `ScanIsAccounted` | `Inv` of `OkfScanProofs` |
| `RequestsAreSound` | `RequestIsSound` | `RequestInv` |
| `RecallAnswersOneInstant` | `AnswersOneInstant` | `RecallInv` of `RecallProofs` |
| `ExitIsTrue` | `ExitTellsTruth` | `WritingInv` |
| `CommandTypes` | `TypeOK` | all of these, and `RestOfTypes` |

- `Inv` of the sidecar: every writer between begin and end holds its store's lock, its `tx` is
  as mirrored as the committed state, a writer that is `ready` has a whole sidecar
  whose clock is its own store's. Neither atomicity nor locality is inductive: what a
  commit publishes was decided when the writer began, and only the lock keeps it true.
  `MintedAtHome`: an identity has the access instance of the store it was made in. That is
  why stores of different instances cannot collide, and all that keeps them apart: two
  stores with one instance are not.
- `DoctorInv`: what doctor's snapshots have shown so far is so of the store as it is now, unless
  it changed since the first of them.
- The scan's invariant has `WalkInv` (everything read comes before everything to be
  read), `KeptInv` (the records are the first of each content read so far, in order),
  `TallyInv` (the counters add up after every file) and `ErrorInv` (until the list of errors
  is full, each file that is no record is in it).
- `RequestInv`: as long as the parser has not raised, every concept before the seat is accepted or has an issue, those accepted
  have none and look different from each other, and while there is no issue the
  accepted ones are all of them.
- `RecallInv`: after each page, what is selected is the best of the snapshot as far as place
  `n` (`UpTo`), where the places are the rows of the AND query and behind them those of
  the OR query; and the best to the end once a kind of result is done. From it every step of
  `Recall` is a step of `RecallContract` or a stutter. That pages, offsets and two passes
  with a set of those seen amount to this is what the proof is about.
- `WritingInv`: before the write nothing is written and no file made; while the
  report is delivered `outcome` and `written` agree; once it is delivered the target
  was replaced with the whole file.
- `RestOfTypes`: what the types say beyond these. The origin's file stays, and what
  others do is counted (`Bounds` of the sidecar); the directory's place in a tree
  never holds a document, so it is no record (`TreeInv`); the offset stays within the
  ranking, and a selection in the order of its places holds nothing twice
  (`Bounds` of recall); fewer concepts are accepted than were read (`RequestBounds`).

`SidecarProofs`, `OkfScanProofs` and `RecallProofs` prove the steps of their parts;
`CommandsProofs` shows that each step of `Commands` is such a step or leaves the part alone,
and takes the lemmas over with `INSTANCE`. The proofs assume `CommandsAssumption`, of which
some clauses are worth naming: recall's sets are finite and `NoSession` is none of their
members; there are one to eight concepts to a request, the code's own limit; entries are
numbers in a finite tree, the one that is a directory never becomes a regular file, and
the user puts there contents the parser knows; the questions and requests given are of the
shape the parser can meet.

### Only model-checked

- `EveryCommandEnds`: liveness under fairness, and ENABLED, are out of the provers' reach.
- What a recursive definition computes, and a selection over sequences equals: the
  library's induction theorems take an operator as a parameter, which the provers cannot
  instantiate. The modules proved about have none, and `KeptIsSelectSeq` in `MCCommands`
  is evaluated on small sequences.

## 6. Disagreements found

Each is a run that TLC ends with a counterexample to what a document, test or
help text says (details under `findings` in `PROJECT.json`).

1. `projection_user_races`: a file the user saves between the existence check and
   the rename is overwritten. The README says changed files are preserved.
2. `projection_two_runs`: the second of two concurrent projectors may adopt a file
   the first then takes back, and report `ok`. A test calls the posture fail-closed.
3. `projection_regenerate`: delete a generated file and retire its concept: the next
   runs fail, because the manifest is not rewritten, until one has another file to change.
   A run that dies leaves the same state when it had created the last document an older
   manifest lacks: every later run on that state of the database fails, though
   `tests/test_projection.py:388` is named for an orphan whose manifest is published.
   `DeadRunsAreTakenUp` states it as its one exception (`Overtaken`).
4. `installer_crash`: a death between tree and marker leaves an unmarked directory
   that no later command repairs or removes. So does a repeated install that dies after it
   has truncated the marker, which alone of the skill's files is rewritten in place, where
   `installer.py:6` says atomic per-file replace.
5. `installer_alias`: uninstalling a harness whose directory is a link to the hub's
   removes the hub.
6. `ontology_silent`: an edited message with an old `updated_at` and the same count
   keeps its old rows in an incremental rebuild.

Noticed while modelling, without a run of their own. The first four are exceptions the checked
properties state, and no more than these:

- When the read that looks whether a file was renamed into place fails as well
  (`projection.py:650`, `:692`, `:706`), the file stays after the rollback and no conflict is
  reported, where the docstring of `rollback` (`projection.py:785`) says a failure is counted
  as one. `RollbackRestores` allows for such files (`missed`), which have the run's content.
- A session stamped later than the rebuild (`updated_at` after `completed_at`) stays stale
  after it, and after every rebuild until the clock has passed the stamp; `SKILL.md:149` names
  the rebuild as the remedy. `RebuildHeals` is an equivalence with such stamps in it (`Ahead`).
- A title or a description that opens with a NUL passes the parser's `len` and `strip` and
  fails `length(trim(...))` of the tables (`concept_schema.py:42`); a lone surrogate passes
  and cannot be bound. `RequestIsSound` says that these texts are the ones the tables refuse.
- An integer confidence that `float()` cannot hold (`winddown.py:355`), and any integer of more
  than 4300 digits, raises: the wind-down ends with exit code 1 and the issues found before
  are lost, where `docs/claims-audit.md:33` says the batch validates with field-level errors.
  `RequestIsSound` speaks of requests that are read to their end; `ExitTellsTruth` holds
  of the others too.
- A value that PyYAML's own constructors reject (a date in month 13, an integer of more than
  4300 digits) raises a plain `ValueError`, which `okf.py:543-552` does not catch, and an
  integer confidence that `float()` cannot hold raises `OverflowError` at `okf.py:412`: one
  such file ends the whole import, where `tests/test_okf.py:896` says invalid files remain
  report entries. The model has it (`Raises`), and `ScanIsAccounted` speaks of scans that end.
- Two stores with one access instance mint the same event identities: a raw copy or an Online
  Backup keeps the row of `context_access_state`, so its clock passes the pin (`Copy`).
  `README.md:172` describes such transfers and `tests/test_projection_live.py:317` imports
  into a backup. No document promises that their identities differ, and `CopiesNeverCollide`
  speaks of stores whose instances do.
- doctor prints FAIL for a healthy store when a commit falls between its reads, when no scope
  resolves (`tests/test_doctor.py:347` expects that), or when the first term of the concept it
  picks is no token of the index and no session has it (`Matches`);
  `docs/claims-audit.md:43` and `:44` describe its verdict without this.
- The rule that drops repeated content is one of a single scan: a second import of the
  same record with other bytes makes a second concept.
- `_parse_bind_document` is documented to take quote locators only, and takes quotes
  without locators too.
- Exit code 2 says that no concept was written; a command that is refused after
  the schema was installed still commits the installation.

## 7. What is not modelled, and why

- The characters of a text: JSON, YAML and Unicode decoding, blanks, words and hashes are
  abstracted to what the checks tell apart; bm25 and tokenisation are the order of a query's
  rows and `Matches`.
- In the scan: directory entries that are no `.md` files, and an error while a file's bytes
  are read, which ends the scan as an error of the walk does.
- In the sidecar: foreign keys off, and upstream tables missing, which refuse as an
  unsupported version does; a `VACUUM` that renumbers rowids, which no code here runs and
  of which SQLite gives no rule a model could follow.
- In the commands: the exit codes of install, uninstall, status, bench, ontology and
  `concept project`; a standard output that cannot be written; doctor's lines on tools,
  registrations and ages. What the store makes of a command is `ConceptStore`, which is
  not composed with `Commands`: its transactions are one step (`Write`) here.
- In the projection: filename collisions and symlinks end the run with a conflict
  before anything is written; the replacement of the output directory itself shows
  as an error of the next call and is one of the faults. A run that died after
  moving a file aside leaves a backup, and later runs report a conflict until it is
  removed by hand; `DeadRunsAreTakenUp` leaves that case out.
- In the ontology: regular expressions, the SQL schema checks, and domain and range,
  which hold of any tables a rebuild has swapped in; failures of a rebuild, which
  are rolled back with its one transaction; an exporter whose clock is behind
  the last rebuild, which has the effect of a silent edit.
- `bench.py`, `ontology_live.py`, `release_guard.py`, `installed_smoke.py`:
  measurements, a read-only report and checks of built artifacts.
