------------------------------ MODULE Commands ------------------------------
(***************************************************************************)
(* cli.py, main(): one process runs one command, made of the parts that    *)
(* the other modules model, next to the other processes and the user those *)
(* modules have.                                                           *)
(*                                                                         *)
(*   recall            Recall                                              *)
(*   doctor            Sidecar, with the writers and others it looks at    *)
(*   winddown, bind    WriteCommand around WinddownRequest                 *)
(*   transition        WriteCommand (accept and retire)                    *)
(*   import            WriteCommand around OkfScan                         *)
(*                                                                         *)
(* The parts a command does not use rest in their first state.             *)
(***************************************************************************)
EXTENDS Naturals, Sequences

CONSTANTS
  None,
  Concepts, Sessions, NoSession, Source, PageSize, MaxK, MaxChanges,
  Procs, Uses, Stores, Origin, Roots, Rank, Terms, Term, Matches, MaxLooked,
  MaxRow, MaxSeq, MaxOutside,
  Entries, Folder, Inside, Content, Placed, Lower, WellFormed, MaxErrors, MaxEdits,
  NotText, Huge, NoLocator, PartialLocator, MaxConcepts,
  MaxMoves,
  Recallable, Questions,   \* the stores and questions of recall
  Versions,                \* upstream versions doctor may meet
  Trees, EmptyTree,        \* the directories of an import
  Requests, NoDocument,   \* the requests of a wind-down and of a bind
  Options                  \* the options of a command that writes

VARIABLES
  command,   \* what main() was asked to run
  store, snap, question, pc, fallback, offset, seen, concepts, sessions, used, changes,
  stores, lock, procs, harmed, minted, outside, doctor,
  tree, at, todo, found, unsafe, read, counters, errors, records, edits,
  document, reading, seat, canonical, accepted, issues,
  options, stage, outcome, written, target, temporary, delivered, told, exit, moves

Asking  == INSTANCE Recall
Store   == INSTANCE Sidecar WITH Concepts <- Roots
Tree    == INSTANCE OkfScan
Request == INSTANCE WinddownRequest
Writing == INSTANCE WriteCommand

ASSUME CommandsAssumption ==
  /\ Asking!RecallAssumption
  /\ Recallable \subseteq Asking!Holdings /\ Recallable # {}
  /\ Questions \subseteq [k : 0 .. MaxK + 1, searchable : BOOLEAN] /\ Questions # {}
  /\ Store!SidecarAssumption
  /\ Tree!ScanAssumption
  /\ Request!RequestAssumption
  /\ Writing!WriteAssumption
  /\ EmptyTree \in Trees /\ NoDocument \notin Requests
  /\ \A t \in Trees : t \in [Entries -> Tree!Things \cup {"dir"}] /\ t[Folder] \in {"absent", "link", "dir"}
  /\ Requests \cup {NoDocument} \subseteq Request!Documents
  /\ Versions \subseteq 46 .. 48 /\ Versions # {}
  /\ Options \subseteq [dryRun : BOOLEAN, report : BOOLEAN]

asking  == <<store, snap, question, pc, fallback, offset, seen, concepts, sessions, used, changes>>
sidecar == <<stores, lock, procs, harmed, minted, outside, doctor>>
scan    == <<tree, at, todo, found, unsafe, read, counters, errors, records, edits>>
request == <<document, reading, seat, canonical, accepted, issues>>
writing == <<command, options, stage, outcome, written, target, temporary, delivered, told, exit, moves>>

vars == <<asking, sidecar, scan, request, writing>>

Only(c, S, default) == IF command = c THEN S ELSE {default}

Init ==
  /\ command \in {"recall", "doctor", "winddown", "bind", "transition", "import"}
  /\ Asking!InitWith(IF command = "recall" THEN Recallable ELSE {CHOOSE s \in Recallable : TRUE},
                     IF command = "recall" THEN Questions ELSE {CHOOSE q \in Questions : TRUE})
  /\ Store!InitWith(Only("doctor", Versions, CHOOSE v \in Versions : TRUE))
  /\ Tree!InitWith(Only("import", Trees, EmptyTree))
  /\ Request!InitWith(IF command \in {"winddown", "bind"}
                        THEN {d \in Requests : d.purpose = command} ELSE {NoDocument})
  /\ Writing!InitWith(IF command = "import" THEN Options ELSE {[dryRun |-> FALSE, report |-> FALSE]})

Writes == command \notin {"recall", "doctor"}

-----------------------------------------------------------------------------
(* The commands that only read.                                            *)

Recall ==
  /\ command = "recall"
  /\ Asking!Work
  /\ UNCHANGED <<sidecar, scan, request, writing>>

OthersCommit ==
  /\ command = "recall"
  /\ Asking!Hide \/ Asking!Record
  /\ UNCHANGED <<sidecar, scan, request, writing>>

Doctor ==
  /\ command = "doctor"
  /\ Store!Consult
  /\ UNCHANGED <<asking, scan, request, writing>>

\* Once doctor has answered, what becomes of the store is left out.
OthersWrite ==
  /\ command = "doctor" /\ doctor.at # "done"
  /\ (\E p \in Procs : Store!Write(p)) \/ Store!Others
  /\ UNCHANGED <<asking, scan, request, writing>>

-----------------------------------------------------------------------------
(* The commands that write.                                                *)

\* The arguments of the call are looked at when its document has been parsed.
Command ==
  /\ Writes /\ (stage = "parse" => reading = "read")
  /\ Writing!Step
  /\ UNCHANGED <<asking, sidecar, scan, request>>

Parse ==
  /\ command \in {"winddown", "bind"} /\ stage = "parse"
  /\ Request!Next
  /\ UNCHANGED <<asking, sidecar, scan, writing>>

\* The locals of the parser and of the scan go when they return, or with the
\* process.
ForgetRequest ==
  /\ document' = NoDocument /\ reading' = "envelope" /\ seat' = 1
  /\ canonical' = <<>> /\ accepted' = <<>> /\ issues' = {}

ForgetScan ==
  /\ tree' = EmptyTree /\ at' = "list"
  /\ todo' = {} /\ found' = {} /\ unsafe' = {} /\ read' = <<>>
  /\ counters' = [n \in Tree!CounterNames |-> 0]
  /\ errors' = <<>> /\ records' = <<>> /\ edits' = 0

\* Whether there are issues, and concepts, is all that main sees.
ParseReturns ==
  /\ stage = "parse" /\ reading = "read"
  /\ Writing!Parsed(issues = {}, accepted # <<>> \/ document.purpose = "bind")
  /\ ForgetRequest
  /\ UNCHANGED <<asking, sidecar, scan>>

ParseRaises ==
  /\ stage = "parse" /\ reading = "raised"
  /\ Writing!ParseFails
  /\ ForgetRequest
  /\ UNCHANGED <<asking, sidecar, scan>>

Scan ==
  /\ command = "import" /\ stage = "scan"
  /\ Tree!Scan
  /\ UNCHANGED <<asking, sidecar, request, writing>>

\* The records go to the store.
ScanReturns ==
  /\ stage = "scan" /\ at \in {"done", "aborted"}
  /\ Writing!Scanned(at = "done", records # <<>>)
  /\ ForgetScan
  /\ UNCHANGED <<asking, sidecar, request>>

UserEdits ==
  /\ command = "import" /\ stage = "scan"
  /\ \E e \in Entries : Tree!Change(e)
  /\ UNCHANGED <<asking, sidecar, request, writing>>

UserMoves ==
  /\ Writes
  /\ Writing!Move
  /\ UNCHANGED <<asking, sidecar, scan, request>>

Killed ==
  /\ Writes
  /\ Writing!Die
  /\ ForgetRequest /\ ForgetScan
  /\ UNCHANGED <<asking, sidecar>>

-----------------------------------------------------------------------------
Ended ==
  CASE command = "recall" -> pc \in {"done", "refused"}
    [] command = "doctor" -> doctor.at = "done"
    [] OTHER -> stage = "ended"

Own == Recall \/ Doctor \/ Command \/ Parse \/ ParseReturns \/ ParseRaises \/ Scan \/ ScanReturns

Next ==
  \/ Own
  \/ OthersCommit \/ OthersWrite \/ UserEdits \/ UserMoves \/ Killed
  \/ Ended /\ UNCHANGED vars

\* A command is one thread that waits for no other process once its
\* connection is open (a locked database is an error after a time, OpenFails):
\* its own steps are weakly fair, nobody else's are.
Spec == Init /\ [][Next]_vars /\ WF_vars(Own)

-----------------------------------------------------------------------------
(* Properties: each module's own, in the composition.                      *)

TypeOK ==
  /\ Asking!TypeOK /\ Store!TypeOK /\ Tree!TypeOK /\ Request!TypeOK /\ Writing!TypeOK

\* recall's answer is that of one instant of the store, whatever is committed
\* while it reads (RecallContract).
AnswersOneInstant == Asking!AnswersOneInstant

\* A store nobody has harmed has all of the sidecar or none of it, wherever an
\* installation failed or died and whoever else installs.
AllOfItOrNone == Store!AllOfItOrNone

\* A copy of a store with an access instance of its own never makes an event
\* identity its origin makes.
CopiesNeverCollide == Store!CopiesNeverCollide

\* The triggers keep the full-text index equal to the concepts, row by row.
IndexMirrorsRoots == Store!IndexMirrorsRoots

\* Of a store that does not change meanwhile, doctor says what is the case.
DoctorIsRight == Store!DoctorIsRight

\* A scan counts every candidate once, and keeps the first record of each
\* content, with tags the tables accept, whatever the user does to the tree.
ScanIsAccounted == Tree!ScanIsAccounted /\ Tree!KeptFitsTheTable

\* A request without issues is taken whole and, odd texts apart, fits the
\* tables; no two of its concepts are the same.
RequestIsSound == Request!RequestIsSound

\* The exit code and the report say what was written.
ExitTellsTruth == Writing!ExitTellsTruth

\* Every command ends: the pages of a recall, the candidates of a scan, the
\* concepts of a request and the retries of a delivery come to an end.
EveryCommandEnds == <>Ended
=============================================================================
