----------------------------- MODULE Projection -----------------------------
(***************************************************************************)
(* Publication of the Markdown projection: projection.py.                  *)
(*                                                                         *)
(* A run of project_concepts captures a snapshot of the database, plans    *)
(* against the files it finds in the output directory, and then publishes  *)
(* file by file, with no lock, while the user may touch the same directory *)
(* and the database may move on.  Whatever fails is unwound from the       *)
(* backups the run has put aside.  Each action is one file system call, or *)
(* one read whose answer the next call relies on.                          *)
(***************************************************************************)
EXTENDS Naturals, Sequences, FiniteSets, SequencesExt

CONSTANTS
  DocNames,    \* sequence: the generated file names, in sorted order
  Rendering,   \* sequence over database states: what each renders under a name
  Projectors,  \* processes that project into this directory
  UserMoves,   \* subset of {"edit", "save", "delete"}: what the user does
  MaxEdits,    \* bound: moves of the user
  UserRaces,   \* may the user move between a run's check and its use?
  Marker, Manifest,            \* the two file names of the run's own metadata
  MarkerText, UserText,        \* the marker's content; content of the user
  Nothing

Docs == Range(DocNames)
Names == Docs \cup {Marker, Manifest}
Tmp(p) == <<p, "tmp">>
Bak(p, n) == <<p, "bak", n>>
OwnNames(p) == {Tmp(p)} \cup {Bak(p, n) : n \in Names}
AllNames == Names \cup UNION {OwnNames(p) : p \in Projectors}
Revisions == 1 .. Len(Rendering)

ASSUME ProjectionAssumption ==
  /\ DocNames \in Seq(Docs) /\ Rendering \in Seq(Range(Rendering)) /\ Rendering # <<>>
  /\ \A r \in Revisions : Rendering[r] = [d \in Docs |-> Rendering[r][d]]
  /\ IsFiniteSet(Projectors)
  /\ UserMoves \subseteq {"edit", "save", "delete"}
  /\ MaxEdits \in Nat /\ UserRaces \in BOOLEAN

\* No document is named like the metadata, and no published file like a temporary
\* file or a backup: these start with a dot and end in a random number.
ASSUME NamesAssumption ==
  /\ Marker # Manifest /\ {Marker, Manifest} \cap Docs = {}
  /\ \A p \in Projectors : OwnNames(p) \cap Names = {}

\* What the user writes is nothing a run renders: work of the user's own.
ASSUME ContentAssumption ==
  /\ UserText # MarkerText /\ UserText \notin Range(Rendering)
  /\ \A r \in Revisions, d \in Docs : Rendering[r][d] # UserText
  /\ Nothing \notin {MarkerText, UserText} \cup Range(Rendering)

VARIABLES
  rev,      \* the database state: a snapshot's generation and logical hash
  dir,      \* [AllNames -> file or Nothing]; a file has an inode and a content
  run,      \* [Projectors -> the state of a run]
  edits,    \* moves of the user so far
  touched,  \* history: names the user moved on since each run began
  before,   \* history: the directory when each run began
  faulted,  \* history: whether a call of the run failed by itself
  missed,   \* history: names that a run's own cleaning up could not see or remove
  written,  \* history: database states during which the run published a file
  lost      \* history: snapshots of the runs that died; 0 for a cleaning up that failed

vars == <<rev, dir, run, edits, touched, before, faulted, missed, written, lost>>
history == <<touched, before, faulted, missed, written, lost>>

Idle ==
  [pc |-> "idle", snap |-> 1, names |-> {}, prev |-> Nothing, todo |-> {},
   held |-> Nothing, muts |-> <<>>, act |-> "none", drop |-> {},
   status |-> "none", conflicts |-> 0]

Has(n) == dir[n] # Nothing
Is(n, content) == Has(n) /\ dir[n].content = content
Listing == {n \in AllNames : Has(n)}

\* A new file takes the smallest free inode: reuse as eager as it can be.
FreshInode ==
  CHOOSE i \in 1 .. Cardinality(AllNames) + 1 :
    /\ \A n \in Listing : dir[n].inode # i
    /\ \A j \in 1 .. i - 1 : \E n \in Listing : dir[n].inode = j

\* What a run on snapshot r wants under each name.
Desired(r, n) ==
  IF n = Marker THEN MarkerText ELSE IF n = Manifest THEN Rendering[r] ELSE Rendering[r][n]
Rendered(r) == {d \in Docs : Rendering[r][d] # Nothing}
-----------------------------------------------------------------------------
(* Preflight: what is in the directory, against the previous manifest.     *)

Previous == IF Has(Manifest) THEN dir[Manifest].content ELSE [d \in Docs |-> Nothing]
Listed == {d \in Docs : Previous[d] # Nothing}

\* Mutant of NoConflict: a generated file no manifest lists is never adopted.
NoOrphans(r) ==
  \/ Listing = {}
  \/ /\ Is(Marker, MarkerText)
     /\ ~Is(Manifest, UserText)
     /\ Listing \subseteq Names
     /\ \A d \in Docs : Has(d) => d \in Listed /\ Is(d, Previous[d])

NoConflict(r) ==
  \/ Listing = {}
  \/ /\ Is(Marker, MarkerText)
     /\ ~Is(Manifest, UserText)
     /\ Listing \subseteq Names
     /\ \A d \in Docs : Has(d) =>
          IF d \in Listed THEN Is(d, Previous[d])
          ELSE d \in Rendered(r) /\ Is(d, Desired(r, d))

Created(r) == {d \in Rendered(r) : ~Has(d)}
Replaced(r) == {d \in Rendered(r) \cap Listed : Has(d) /\ Previous[d] # Desired(r, d)}
Deleted(r) == {d \in Listed \ Rendered(r) : Has(d)}

Meta == {Marker, Manifest}

\* What apply has to do: a job for each file it publishes, one for the check of the
\* files that stay.  The manifest is replaced only if anything changed.
Plan(r) ==
  LET changed == Created(r) \cup Replaced(r) \cup Deleted(r) # {} IN
  {[kind |-> "create", name |-> n] : n \in Created(r) \cup {m \in Meta : ~Has(m)}}
  \cup {[kind |-> "replace", name |-> n] :
          n \in Replaced(r) \cup {m \in {Manifest} : Has(m) /\ changed}}
  \cup {[kind |-> "delete", name |-> n] : n \in Deleted(r)}
  \cup {[kind |-> "check", name |-> Manifest]}

\* The order of apply: the marker, new files, replacements, deletions, the check,
\* and the manifest last; among files of a kind, by name.
Phase(j) ==
  IF j.name = Marker THEN 0
  ELSE IF j.kind = "check" THEN 4 ELSE IF j.name = Manifest THEN 5
  ELSE IF j.kind = "create" THEN 1 ELSE IF j.kind = "replace" THEN 2 ELSE 3
Place(n) == IF n \in Docs THEN CHOOSE i \in DOMAIN DocNames : DocNames[i] = n ELSE 0
Turn(j) == Phase(j) * (Len(DocNames) + 1) + Place(j.name)
First(todo) == CHOOSE j \in todo : \A k \in todo : Turn(j) <= Turn(k)
-----------------------------------------------------------------------------
(* A run                                                                   *)

At(p, pc) == run[p].pc = pc
Job(p) == First(run[p].todo)
Payload(p, n) == Desired(run[p].snap, n)
Goto(p, r) == run' = [run EXCEPT ![p] = r]

\* Where the publication of the next file starts.
EntryOf(todo) ==
  IF todo = {} THEN "recheck"
  ELSE IF First(todo).kind = "create" THEN "look"
  ELSE IF First(todo).kind = "check" THEN "check" ELSE "verify"

NextJob(r) ==
  LET rest == r.todo \ {First(r.todo)} IN
  [r EXCEPT !.todo = rest, !.pc = EntryOf(rest), !.held = Nothing]

\* The run ends: only its report is left.
Report(r, status) ==
  [Idle EXCEPT !.pc = "done", !.snap = r.snap, !.status = status, !.conflicts = r.conflicts]

\* Capture and render; the reports of earlier runs are history.
Begin(p) ==
  /\ run[p].pc \in {"idle", "done"}
  /\ run' = [q \in Projectors |->
       IF q = p THEN [Idle EXCEPT !.pc = "preflight", !.snap = rev]
       ELSE IF At(q, "done") THEN Idle ELSE run[q]]
  /\ touched' = [touched EXCEPT ![p] = {}] /\ before' = [before EXCEPT ![p] = dir]
  /\ faulted' = [faulted EXCEPT ![p] = FALSE] /\ missed' = [missed EXCEPT ![p] = {}]
  /\ written' = [written EXCEPT ![p] = {}]
  /\ UNCHANGED <<rev, dir, edits, lost>>

\* One step, although it reads file by file: apply reads all of it again.
Preflight(p) ==
  /\ At(p, "preflight")
  /\ IF NoConflict(run[p].snap)
     THEN Goto(p, [run[p] EXCEPT !.pc = "fresh", !.names = Listing, !.prev = Previous,
                                 !.todo = Plan(run[p].snap)])
     ELSE Goto(p, Report(run[p], "conflict"))
  /\ UNCHANGED <<rev, dir, edits, history>>

\* An exception: the temporary file is removed, and a file that already has the
\* payload's bytes is recorded as published by this run.  Either may fail in its
\* turn: the file is then not seen, the temporary file not swept.
Abort(p, status) ==
  LET r == run[p]
      m == [kind |-> "created", name |-> Job(p).name, was |-> Nothing,
            now |-> dir[Job(p).name]]
      writes == r.pc \in {"temp", "rename", "record"}
                /\ Is(Job(p).name, Payload(p, Job(p).name))
  IN \E seen \in {writes, FALSE}, swept \in {Has(Tmp(p)), FALSE} :
     /\ Goto(p, [r EXCEPT !.pc = "undo", !.status = status, !.todo = {}, !.held = Nothing,
          !.muts = IF ~seen THEN r.muts
                   ELSE IF Job(p).kind = "create" THEN Append(r.muts, m)
                   ELSE [r.muts EXCEPT ![Len(r.muts)].now = dir[Job(p).name]]])
     /\ dir' = IF swept THEN [dir EXCEPT ![Tmp(p)] = Nothing] ELSE dir
     /\ missed' = [missed EXCEPT ![p] =
          (IF seen = writes THEN {} ELSE {Job(p).name})
          \cup (IF swept = Has(Tmp(p)) THEN {} ELSE {Tmp(p)})]
     /\ lost' = IF missed'[p] = {} THEN lost ELSE lost \cup {0}
     /\ UNCHANGED <<rev, edits, touched, before, written>>

Fail(p) == Abort(p, "failure") /\ UNCHANGED faulted

Publishing == {"apply", "look", "verify", "identify", "compare", "move", "temp",
               "rename", "record", "check", "recheck", "validate"}

\* Any call of a publication may fail (EIO, ENOSPC, ...).
Fault(p) ==
  /\ run[p].pc \in Publishing
  /\ Abort(p, "failure")
  /\ faulted' = [faulted EXCEPT ![p] = TRUE]

\* The database is captured again, before publication and after it.
Fresh(p) ==
  /\ At(p, "fresh")
  /\ IF rev = run[p].snap
     THEN Goto(p, [run[p] EXCEPT !.pc = "apply"]) /\ UNCHANGED <<rev, dir, edits, history>>
     ELSE Abort(p, "stale") /\ UNCHANGED faulted

\* Mutant of Recheck: the second capture is dropped.
NoRecheck(p) ==
  /\ At(p, "recheck")
  /\ Goto(p, [run[p] EXCEPT !.pc = "validate"]) /\ UNCHANGED <<rev, dir, edits, history>>

Recheck(p) ==
  /\ At(p, "recheck")
  /\ IF rev = run[p].snap
     THEN Goto(p, [run[p] EXCEPT !.pc = "validate"]) /\ UNCHANGED <<rev, dir, edits, history>>
     ELSE Abort(p, "stale") /\ UNCHANGED faulted

Apply(p) ==
  /\ At(p, "apply")
  /\ IF Listing = run[p].names /\ (Has(Marker) => Is(Marker, MarkerText))
     THEN /\ Goto(p, [run[p] EXCEPT !.pc = EntryOf(run[p].todo)])
          /\ UNCHANGED <<rev, dir, edits, history>>
     ELSE Fail(p)
-----------------------------------------------------------------------------
(* Publishing one file                                                     *)

Proceed(p, pc) ==
  /\ Goto(p, [run[p] EXCEPT !.pc = pc])
  /\ UNCHANGED <<rev, dir, edits, history>>

\* _create: nothing may have appeared under the name.
Look(p) ==
  /\ At(p, "look")
  /\ IF Has(Job(p).name) THEN Fail(p) ELSE Proceed(p, "temp")

\* Mutant of Verify: a replacement trusts the preflight.
VerifyPresent(p) ==
  /\ At(p, "verify")
  /\ IF Has(Job(p).name) THEN Proceed(p, "identify") ELSE Fail(p)

\* _verify_owned, _verify_exact: the bytes are those the old manifest lists ...
Verify(p) ==
  /\ At(p, "verify")
  /\ LET n == Job(p).name
         old == IF n = Manifest THEN run[p].prev ELSE run[p].prev[n]
     IN IF Is(n, old) THEN Proceed(p, "identify") ELSE Fail(p)

\* ... and then the file is read once more, for its identity.
Identify(p) ==
  /\ At(p, "identify")
  /\ IF ~Has(Job(p).name) THEN Fail(p)
     ELSE /\ Goto(p, [run[p] EXCEPT !.pc = "compare", !.held = dir[Job(p).name]])
          /\ UNCHANGED <<rev, dir, edits, history>>

\* _backup: still the same file?
Compare(p) ==
  /\ At(p, "compare")
  /\ IF dir[Job(p).name] = run[p].held THEN Proceed(p, "move") ELSE Fail(p)

\* Mutants of Move: a copy is put aside; the move is not recorded.
MoveCopies(p) ==
  LET n == Job(p).name IN
  /\ At(p, "move") /\ Has(n)
  /\ dir' = [dir EXCEPT ![Bak(p, n)] = dir[n]]
  /\ Goto(p, [run[p] EXCEPT !.pc = "temp"])
  /\ UNCHANGED <<rev, edits, history>>

MoveUnrecorded(p) ==
  LET n == Job(p).name IN
  /\ At(p, "move")
  /\ IF ~Has(n) THEN Fail(p)
     ELSE /\ dir' = [dir EXCEPT ![Bak(p, n)] = dir[n], ![n] = Nothing]
          /\ Goto(p, IF Job(p).kind = "delete" THEN NextJob(run[p])
                     ELSE [run[p] EXCEPT !.pc = "temp"])
          /\ UNCHANGED <<rev, edits, history>>

\* Then it is moved aside, and the mutation recorded.
Move(p) ==
  LET n == Job(p).name
      m == [kind |-> IF Job(p).kind = "delete" THEN "deleted" ELSE "replaced",
            name |-> n, was |-> run[p].held, now |-> Nothing]
      r == [run[p] EXCEPT !.muts = Append(@, m)]
  IN
  /\ At(p, "move")
  /\ IF ~Has(n) THEN Fail(p)
     ELSE /\ dir' = [dir EXCEPT ![Bak(p, n)] = dir[n], ![n] = Nothing]
          /\ Goto(p, IF Job(p).kind = "delete" THEN NextJob(r) ELSE [r EXCEPT !.pc = "temp"])
          /\ UNCHANGED <<rev, edits, history>>

\* _write_atomic: a temporary file, fsync, os.replace, and the identity of what
\* is under the name by then.
Temp(p) ==
  /\ At(p, "temp")
  /\ dir' = [dir EXCEPT ![Tmp(p)] = [inode |-> FreshInode, content |-> Payload(p, Job(p).name)]]
  /\ Goto(p, [run[p] EXCEPT !.pc = "rename"])
  /\ UNCHANGED <<rev, edits, history>>

Rename(p) ==
  /\ At(p, "rename")
  /\ dir' = [dir EXCEPT ![Job(p).name] = dir[Tmp(p)], ![Tmp(p)] = Nothing]
  /\ Goto(p, [run[p] EXCEPT !.pc = "record"])
  /\ written' = [written EXCEPT ![p] = @ \cup {rev}]
  /\ UNCHANGED <<rev, edits, touched, before, faulted, missed, lost>>

Record(p) ==
  LET n == Job(p).name
      muts == IF Job(p).kind = "create"
              THEN Append(run[p].muts, [kind |-> "created", name |-> n, was |-> Nothing,
                                        now |-> dir[n]])
              ELSE [run[p].muts EXCEPT ![Len(run[p].muts)].now = dir[n]]
  IN
  /\ At(p, "record")
  /\ IF ~Has(n) THEN Fail(p)
     ELSE /\ Goto(p, NextJob([run[p] EXCEPT !.muts = muts]))
          /\ UNCHANGED <<rev, dir, edits, history>>

\* The files the preflight found as they are wanted, before the manifest names them.
Unchanged(p) ==
  {d \in Rendered(run[p].snap) \cap run[p].names :
     run[p].prev[d] \in {Nothing, Payload(p, d)}}

Check(p) ==
  /\ At(p, "check")
  /\ IF \A d \in Unchanged(p) : Is(d, Payload(p, d))
     THEN Goto(p, NextJob(run[p])) /\ UNCHANGED <<rev, dir, edits, history>>
     ELSE Fail(p)

Backups(p) == {Bak(p, m.name) : m \in {x \in Range(run[p].muts) : x.kind # "created"}}

Validate(p) ==
  /\ At(p, "validate")
  /\ IF /\ \A n \in {Marker, Manifest} \cup Rendered(run[p].snap) : Is(n, Payload(p, n))
        /\ Listing = Rendered(run[p].snap) \cup {Marker, Manifest} \cup Backups(p)
     THEN Proceed(p, "commit")
     ELSE Fail(p)
-----------------------------------------------------------------------------
(* Ending a run                                                            *)

\* Mutant of Commit: the obsolete files are looked for under their live names.
CommitLive(p) ==
  LET moved == {m \in Range(run[p].muts) : m.kind # "created"} IN
  /\ At(p, "commit")
  /\ Goto(p, [run[p] EXCEPT !.pc = "unlink", !.drop = {m.name : m \in moved}])
  /\ UNCHANGED <<rev, dir, edits, history>>

\* commit: which backups are still what was moved aside?
Commit(p) ==
  LET moved == {m \in Range(run[p].muts) : m.kind # "created"}
      kept == {m \in moved : Has(Bak(p, m.name)) /\ dir[Bak(p, m.name)] # m.was}
      own == {m \in moved : dir[Bak(p, m.name)] = m.was}
  IN
  /\ At(p, "commit")
  /\ Goto(p, [run[p] EXCEPT !.pc = "unlink", !.conflicts = Cardinality(kept),
                            !.drop = {Bak(p, m.name) : m \in own}])
  /\ UNCHANGED <<rev, dir, edits, history>>

\* They are unlinked; an unlink that fails is a conflict.
Unlink(p) ==
  /\ At(p, "unlink")
  /\ \E S \in SUBSET {n \in run[p].drop : Has(n)} :
       /\ dir' = [n \in AllNames |-> IF n \in S THEN Nothing ELSE dir[n]]
       /\ Goto(p, Report([run[p] EXCEPT !.conflicts = @ + Cardinality(run[p].drop \ S)], "ok"))
       /\ faulted' = [faulted EXCEPT ![p] = @ \/ S # run[p].drop]
  /\ UNCHANGED <<rev, edits, touched, before, missed, written, lost>>

Newest(p) == Last(run[p].muts)

\* rollback of one mutation, given what it finds: is a file there, is it the one
\* this run wrote, is the backup the one this run put aside?
Undone(r, m, there, ours, backed) ==
  LET foreign == IF m.now # Nothing /\ there /\ ~ours THEN 1 ELSE 0 IN
  IF m.kind = "created"
  THEN [r EXCEPT !.pc = "undoing", !.act = IF ours THEN "unlink" ELSE "none",
                 !.conflicts = @ + foreign]
  ELSE IF ~backed
  THEN [r EXCEPT !.pc = "undoing", !.act = "none", !.conflicts = @ + foreign + 1]
  ELSE [r EXCEPT !.pc = "undoing", !.conflicts = @ + foreign,
                 !.act = IF ours \/ ~there THEN "restore" ELSE "drop"]

\* Newest mutation first; a file that cannot be read does not match.
Undo(p) ==
  LET m == Newest(p)
      ours == m.now # Nothing /\ dir[m.name] = m.now
      backed == m.kind # "created" /\ dir[Bak(p, m.name)] = m.was
  IN
  /\ At(p, "undo") /\ run[p].muts # <<>>
  /\ \E o \in {ours, FALSE}, b \in {backed, FALSE} :
       /\ Goto(p, Undone(run[p], m, Has(m.name), o, b))
       /\ faulted' = [faulted EXCEPT ![p] = @ \/ o # ours \/ b # backed]
       /\ lost' = IF o # ours \/ b # backed THEN lost \cup {0} ELSE lost
  /\ UNCHANGED <<rev, dir, edits, touched, before, missed, written>>

\* The unwinding of one mutation may fail: a conflict, and on to the next.
Undoing(p) ==
  LET r == run[p]
      n == Newest(p).name
      rest == [r EXCEPT !.pc = "undo", !.muts = Front(@), !.act = "none"]
      possible == IF r.act = "unlink" THEN Has(n) ELSE Has(Bak(p, n))
  IN
  /\ At(p, "undoing")
  /\ \/ /\ r.act = "none"
        /\ Goto(p, rest) /\ UNCHANGED <<dir, faulted>>
     \/ /\ r.act # "none" /\ possible
        /\ dir' = IF r.act = "unlink" THEN [dir EXCEPT ![n] = Nothing]
                  ELSE IF r.act = "drop" THEN [dir EXCEPT ![Bak(p, n)] = Nothing]
                  ELSE [dir EXCEPT ![n] = dir[Bak(p, n)], ![Bak(p, n)] = Nothing]
        /\ Goto(p, rest) /\ UNCHANGED faulted
     \/ /\ r.act # "none"
        /\ Goto(p, [rest EXCEPT !.conflicts = @ + 1])
        /\ faulted' = [faulted EXCEPT ![p] = TRUE] /\ UNCHANGED dir
  /\ lost' = IF run'[p].conflicts > r.conflicts THEN lost \cup {0} ELSE lost
  /\ UNCHANGED <<rev, edits, touched, before, missed, written>>

Unwound(p) ==
  /\ At(p, "undo") /\ run[p].muts = <<>>
  /\ Goto(p, Report(run[p], run[p].status))
  /\ UNCHANGED <<rev, dir, edits, history>>

\* The process is killed, or an exception the run does not unwind for escapes
\* (KeyboardInterrupt, sqlite3.Error); only the latter removes the temporary file.
Die(p) ==
  /\ run[p].pc \notin {"idle", "done"}
  /\ \/ UNCHANGED dir
     \/ Has(Tmp(p)) /\ dir' = [dir EXCEPT ![Tmp(p)] = Nothing]
  /\ Goto(p, Idle)
  /\ lost' = lost \cup {run[p].snap}
  /\ UNCHANGED <<rev, edits, touched, before, faulted, missed, written>>
-----------------------------------------------------------------------------
(* What else happens                                                       *)

\* A write to the database: an evidence row, an access generation, a standing.
Drift == rev < Len(Rendering) /\ rev' = rev + 1 /\ UNCHANGED <<dir, run, edits, history>>

\* Between a check of n and the call that relies on it.
InWindow(p, n) ==
  \/ run[p].todo # {} /\ n = Job(p).name
       /\ run[p].pc \in {"identify", "temp", "rename", "record"}
  \/ At(p, "undoing") /\ n \in {Newest(p).name, Bak(p, Newest(p).name)}
  \/ At(p, "unlink") /\ n \in run[p].drop

UserNames == Docs \cup {Manifest} \cup {Bak(p, d) : p \in Projectors, d \in Docs}

\* The user writes into the file, saves a new file under its name, or deletes it.
\* A backup's name is fresh: there is no such file before the run makes it.
User(n) ==
  /\ edits < MaxEdits
  /\ UserRaces \/ \A p \in Projectors : ~InWindow(p, n)
  /\ \/ /\ "edit" \in UserMoves /\ Has(n)
        /\ dir' = [dir EXCEPT ![n].content = UserText]
     \/ /\ "save" \in UserMoves /\ (n \in Names \/ Has(n))
        /\ dir' = [dir EXCEPT ![n] = [inode |-> FreshInode, content |-> UserText]]
     \/ /\ "delete" \in UserMoves /\ Has(n)
        /\ dir' = [dir EXCEPT ![n] = Nothing]
  /\ edits' = edits + 1
  /\ touched' = [p \in Projectors |-> touched[p] \cup {n}]
  /\ UNCHANGED <<rev, run, before, faulted, missed, written, lost>>
-----------------------------------------------------------------------------
Init ==
  /\ rev = 1 /\ dir = [n \in AllNames |-> Nothing]
  /\ run = [p \in Projectors |-> Idle]
  /\ edits = 0
  /\ touched = [p \in Projectors |-> {}] /\ before = [p \in Projectors |-> dir]
  /\ faulted = [p \in Projectors |-> FALSE] /\ missed = [p \in Projectors |-> {}]
  /\ written = [p \in Projectors |-> {}]
  /\ lost = {}

Publish(p) ==
  \/ Look(p) \/ Verify(p) \/ Identify(p) \/ Compare(p) \/ Move(p)
  \/ Temp(p) \/ Rename(p) \/ Record(p) \/ Check(p)

Project(p) ==
  \/ Begin(p) \/ Preflight(p) \/ Fresh(p) \/ Apply(p) \/ Publish(p)
  \/ Recheck(p) \/ Validate(p) \/ Commit(p) \/ Unlink(p)
  \/ Undo(p) \/ Undoing(p) \/ Unwound(p)

Next ==
  \/ \E p \in Projectors : Project(p) \/ Fault(p) \/ Die(p)
  \/ Drift
  \/ \E n \in UserNames : User(n)

Spec == Init /\ [][Next]_vars
-----------------------------------------------------------------------------
Contents == {MarkerText, UserText} \cup Range(Rendering)
              \cup UNION {{Rendering[r][d] : d \in Docs} : r \in Revisions}
File == [inode : 1 .. Cardinality(AllNames) + 1, content : Contents]

ASSUME NothingAssumption == Nothing \notin File

Pcs == Publishing \cup {"idle", "preflight", "fresh", "commit", "unlink", "undo",
                        "undoing", "done"}

\* Every variable has its type, and every mutation of a run has an owner to return
\* to: no two files share an inode.
TypeOK ==
  /\ rev \in Revisions /\ edits \in 0 .. MaxEdits /\ lost \subseteq Revisions \cup {0}
  /\ dir \in [AllNames -> File \cup {Nothing}]
  /\ \A m, n \in Listing : dir[m].inode = dir[n].inode => m = n
  /\ \A p \in Projectors :
       /\ run[p].pc \in Pcs /\ run[p].snap \in Revisions
       /\ run[p].held \in File \cup {Nothing}
       /\ run[p].status \in {"none", "ok", "conflict", "stale", "failure"}

UserFiles == {dir[n].inode : n \in {m \in Listing : Is(m, UserText)}}

\* No run ever destroys a file the user wrote, whatever fails and wherever a run
\* dies: a file of the user disappears only by a move of the user.  (With UserRaces
\* it says what the README does: unowned and changed files are preserved.)
UserWorkKept ==
  [][UserFiles \subseteq {dir'[n].inode : n \in {m \in AllNames :
        dir'[m] # Nothing /\ dir'[m].content = UserText}}
     \/ edits' # edits]_vars

CleanlyUnwound(p) ==
  At(p, "done") /\ run[p].status \in {"stale", "failure"} /\ run[p].conflicts = 0

\* A run that was unwound and reports no conflict has put everything back: each
\* name the user left alone has the very file it had when the run began.  What a
\* second failure hid from the run stays behind: its own file, whole, never another.
RollbackRestores ==
  \A p \in Projectors : CleanlyUnwound(p) =>
    /\ \A n \in AllNames \ (touched[p] \cup missed[p]) : dir[n] = before[p][n]
    /\ \A n \in (missed[p] \cap Names) \ touched[p] : Is(n, Payload(p, n))

\* A run that reports ok has published: the directory is the projection of its
\* snapshot, but for what the user has touched since, and if it reports no
\* conflict nothing else is left of the run.  (With two projectors it says that a
\* concurrent invocation fails closed: it takes back nothing another one reported.)
PublicationStands ==
  \A p \in Projectors :
    At(p, "done") /\ run[p].status = "ok" =>
      /\ \A n \in Names \ touched[p] :
           IF Payload(p, n) = Nothing THEN ~Has(n) ELSE Is(n, Payload(p, n))
      /\ run[p].conflicts = 0 =>
           \A n \in OwnNames(p) \ touched[p] : ~Has(n)

\* What a successful run has published was the state of the database all the time
\* it published: a concept hidden or retired meanwhile is not in it.
PublishedWhileCurrent ==
  \A p \in Projectors :
    At(p, "done") /\ run[p].status = "ok" => written[p] \subseteq {run[p].snap}

\* What a run found has all its documents already, under an older manifest.
Overtaken(p) ==
  LET found == before[p] IN
  /\ found[Manifest] # Nothing /\ found[Manifest].content # Rendering[run[p].snap]
  /\ \A d \in Docs :
       IF Payload(p, d) = Nothing THEN found[d] = Nothing
       ELSE found[d] # Nothing /\ found[d].content = Payload(p, d)

\* A run no user disturbs and no call fails, of the very database state in which the
\* runs before it died, and which finds nothing they had moved aside.
Resumes(p) ==
  /\ At(p, "done") /\ edits = 0 /\ ~faulted[p] /\ lost \subseteq {run[p].snap}
  /\ \A n \in AllNames \ Names : before[p][n] = Nothing

\* A run that died is taken up by the next one: it publishes, adopting the files it
\* finds, unless the database moves on.  One case is excepted, in which it fails: the
\* dead run had created the last file that was missing.
DeadRunsAreTakenUp ==
  \A p \in Projectors : Resumes(p) =>
    \/ run[p].status \in {"ok", "stale"}
    \/ run[p].status = "failure" /\ Overtaken(p)

\* A run fails only if a call of it failed or the user interfered with it; whatever
\* the user did to the files earlier, the projection can be regenerated, or the
\* run reports a conflict.
FailureHasCause ==
  \A p \in Projectors :
    At(p, "done") /\ run[p].status = "failure" => faulted[p] \/ touched[p] # {}
=============================================================================
