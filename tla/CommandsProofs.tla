--------------------------- MODULE CommandsProofs ---------------------------
(***************************************************************************)
(* Theorems about Commands.  What SidecarProofs, OkfScanProofs and         *)
(* RecallProofs show of a part holds of every command; the exit code and   *)
(* the requests are proved here.                                           *)
(***************************************************************************)
EXTENDS Commands, TLAPS, FiniteSets, FiniteSetTheorems, FunctionTheorems

Sidecars == INSTANCE SidecarProofs WITH Concepts <- Roots
Scans == INSTANCE OkfScanProofs
Recalls == INSTANCE RecallProofs

-----------------------------------------------------------------------------
(* The tables of the sidecar.                                              *)

LEMMA SidecarAssumed == Sidecars!SidecarAssumption
BY CommandsAssumption
   DEF Store!SidecarAssumption, Sidecars!SidecarAssumption, Store!Clock, Sidecars!Clock,
       Store!Db, Sidecars!Db, Store!Rows, Sidecars!Rows, Store!RowIds, Sidecars!RowIds,
       Store!Payload, Sidecars!Payload

SidecarInv == Sidecars!Inv /\ Sidecars!DoctorInv

LEMMA SidecarInit == Init => SidecarInv
<1> SUFFICES ASSUME Init PROVE SidecarInv
  OBVIOUS
<1> DEFINE met == Only("doctor", Versions, CHOOSE v \in Versions : TRUE)
<1>1. met \in SUBSET (46 .. 48)
  BY CommandsAssumption DEF Only
<1>2. Store!InitWith(met)
  BY DEF Init
<1>3. Sidecars!InitWith(met)
  BY <1>2 DEF Store!InitWith, Sidecars!InitWith, Store!Fresh, Sidecars!Fresh, Store!Idle,
     Sidecars!Idle, Store!Resting, Sidecars!Resting
<1>4. QED
  BY <1>1, <1>3, Sidecars!InvInit, Sidecars!DoctorInit, SidecarAssumed DEF SidecarInv

(* The actions of the two instances are the same formulas.                  *)
LEMMA SameWrite ==
  ASSUME NEW p \in Procs, Store!Write(p)
  PROVE  Sidecars!Write(p)
BY DEF Store!Write, Sidecars!Write, Store!BeginChecked, Sidecars!BeginChecked, Store!Ensure,
       Sidecars!Ensure, Store!Verify, Sidecars!Verify, Store!Rebuild, Sidecars!Rebuild,
       Store!Commit, Sidecars!Commit, Store!Stop, Sidecars!Stop, Store!GiveUp, Sidecars!GiveUp,
       Store!Check, Sidecars!Check, Store!BeginCommand, Sidecars!BeginCommand, Store!Append,
       Sidecars!Append, Store!To, Sidecars!To, Store!Abandon, Sidecars!Abandon, Store!Idle,
       Sidecars!Idle, Store!ObjectsExact, Sidecars!ObjectsExact, Store!ClockPinned,
       Sidecars!ClockPinned, Store!Installed, Sidecars!Installed, Store!Supported,
       Sidecars!Supported, Store!Payload, Sidecars!Payload, Store!RowIds, Sidecars!RowIds,
       Store!NextRow, Sidecars!NextRow, Store!Range, Sidecars!Range, Store!Extend, Sidecars!Extend, Store!Without,
       Sidecars!Without, Store!InsertRoot, Sidecars!InsertRoot, Store!Unindex, Sidecars!Unindex,
       Store!Publish, Sidecars!Publish, Store!Disturb, Sidecars!Disturb, Store!Outside,
       Sidecars!Outside

LEMMA SameOthers ==
  ASSUME Store!Others
  PROVE  Sidecars!Others
BY DEF Store!Others, Sidecars!Others, Store!Migrate, Sidecars!Migrate, Store!Copy, Sidecars!Copy,
       Store!HarmSchema, Sidecars!HarmSchema, Store!HarmIndex, Sidecars!HarmIndex, Store!Forget,
       Sidecars!Forget, Store!Hide, Sidecars!Hide, Store!Speak, Sidecars!Speak,
       Store!Toggle, Sidecars!Toggle, Store!To, Sidecars!To, Store!Abandon, Sidecars!Abandon, Store!Idle,
       Sidecars!Idle, Store!ObjectsExact, Sidecars!ObjectsExact, Store!ClockPinned,
       Sidecars!ClockPinned, Store!Installed, Sidecars!Installed, Store!Supported,
       Sidecars!Supported, Store!Payload, Sidecars!Payload, Store!RowIds, Sidecars!RowIds,
       Store!NextRow, Sidecars!NextRow, Store!Range, Sidecars!Range, Store!Extend, Sidecars!Extend, Store!Without,
       Sidecars!Without, Store!InsertRoot, Sidecars!InsertRoot, Store!Unindex, Sidecars!Unindex,
       Store!Publish, Sidecars!Publish, Store!Disturb, Sidecars!Disturb, Store!Outside,
       Sidecars!Outside

LEMMA SameMultiset == \A f : Store!Multiset(f) = Sidecars!Multiset(f)
BY DEF Store!Multiset, Sidecars!Multiset, Store!Range, Sidecars!Range, Store!Cardinality, Sidecars!Cardinality

LEMMA SamePicked == \A d : Store!Picked(d) = Sidecars!Picked(d)
BY DEF Store!Picked, Sidecars!Picked, Store!Termed, Sidecars!Termed, Store!Looked, Sidecars!Looked,
       Store!Visible, Sidecars!Visible, Store!Range, Sidecars!Range, Store!Cardinality, Sidecars!Cardinality

LEMMA SameAnswers == \A d, t : Store!Answers(d, t) <=> Sidecars!Answers(d, t)
BY DEF Store!Answers, Sidecars!Answers, Store!Visible, Sidecars!Visible, Store!Range, Sidecars!Range

LEMMA SameConsult ==
  ASSUME Store!Consult
  PROVE  Sidecars!Consult
<1> USE DEF Store!Diagnose, Sidecars!Diagnose, Store!Installed, Sidecars!Installed, Store!Supported,
            Sidecars!Supported, Store!ObjectsExact, Sidecars!ObjectsExact, Store!ClockPinned,
            Sidecars!ClockPinned, Store!Payload, Sidecars!Payload, Store!Range, Sidecars!Range
<1>1. ASSUME NEW s \in Stores, Store!Inspect(s) PROVE Sidecars!Inspect(s)
  BY <1>1 DEF Store!Inspect, Sidecars!Inspect
<1>2. CASE Store!InspectClock
  BY <1>2 DEF Store!InspectClock, Sidecars!InspectClock, Sidecars!Consult
<1>3. CASE Store!ReadRoots
  BY <1>3 DEF Store!ReadRoots, Sidecars!ReadRoots, Sidecars!Consult
<1>4. CASE Store!ReadIndex
  BY <1>4, SameMultiset DEF Store!ReadIndex, Sidecars!ReadIndex, Sidecars!Consult, Store!SameRows, Sidecars!SameRows
<1>5. CASE Store!PickTerm
  BY <1>5, SamePicked DEF Store!PickTerm, Sidecars!PickTerm, Sidecars!Consult
<1>6. CASE Store!Control
  BY <1>6, SameAnswers DEF Store!Control, Sidecars!Control, Sidecars!Consult
<1>7. QED
  BY <1>1, <1>2, <1>3, <1>4, <1>5, <1>6 DEF Store!Consult, Sidecars!Consult

\* Of a step, the sidecar's part is a step of a writer or of another, a look of
\* doctor, or nothing.
LEMMA SidecarStep ==
  ASSUME SidecarInv, [Next]_vars
  PROVE  SidecarInv'
<1>0. Sidecars!SidecarAssumption /\ Sidecars!Inv /\ Sidecars!Typed /\ Sidecars!DoctorInv
  BY SidecarAssumed DEF SidecarInv, Sidecars!Inv
<1>1. CASE UNCHANGED sidecar
  <2>1. Sidecars!Inv'
    BY <1>0, <1>1, Sidecars!Untouched DEF sidecar
  <2>2. Sidecars!DoctorInv'
    BY <1>0, <1>1, Sidecars!RestKeeps DEF sidecar
  <2>3. QED
    BY <2>1, <2>2 DEF SidecarInv
<1>2. CASE Doctor
  BY <1>0, <1>2, SameConsult, Sidecars!ConsultStep, Sidecars!ConsultKeeps DEF Doctor, SidecarInv
<1>3. CASE OthersWrite
  <2>1. (\E p \in Procs : Store!Write(p)) \/ Store!Others
    BY <1>3 DEF OthersWrite
  <2>2. CASE Store!Others
    BY <1>0, <2>2, SameOthers, Sidecars!OthersStep, Sidecars!OthersKeep DEF SidecarInv
  <2>3. ASSUME NEW p \in Procs, Store!Write(p) PROVE SidecarInv'
    BY <1>0, <2>3, SameWrite, Sidecars!WriteStep, Sidecars!WriteKeeps DEF SidecarInv
  <2>4. QED
    BY <2>1, <2>2, <2>3
<1>4. QED
  BY <1>1, <1>2, <1>3
     DEF Next, vars, Own, Recall, Command, Parse, ParseReturns, ParseRaises, Scan, ScanReturns,
         OthersCommit, UserEdits, UserMoves, Killed

LEMMA SidecarAlways == Spec => []SidecarInv
BY SidecarInit, SidecarStep, PTL DEF Spec

-----------------------------------------------------------------------------
\* Wherever an installation failed or died, and however many installed at
\* once: a store nobody has harmed has all of the sidecar or none of it.
THEOREM InstallationIsAtomic == Spec => []AllOfItOrNone
<1>1. SidecarInv => AllOfItOrNone
  BY DEF SidecarInv, AllOfItOrNone, Sidecars!Inv, Store!AllOfItOrNone, Sidecars!AllOfItOrNone, Store!Bare, Sidecars!Bare, Store!Whole,
         Sidecars!Whole, Store!ObjectsExact, Sidecars!ObjectsExact, Store!Payload, Sidecars!Payload
<1>2. QED
  BY <1>1, SidecarAlways, PTL

\* For any number of stores, copies and writers: two stores that have access
\* instances of their own never make one event identity, although a copy starts
\* with the clock of its origin.
THEOREM IdentityIsLocal == Spec => []CopiesNeverCollide
<1>1. SidecarInv => CopiesNeverCollide
  BY Sidecars!HomeIsElsewhere
     DEF SidecarInv, CopiesNeverCollide, Store!CopiesNeverCollide, Sidecars!CopiesNeverCollide
<1>2. QED
  BY <1>1, SidecarAlways, PTL

\* After any sequence of insertions, deletions, reused rowids and rebuilds the
\* index of a store nobody has harmed is the image of its concepts.
THEOREM IndexIsMirror == Spec => []IndexMirrorsRoots
<1>1. SidecarInv => IndexMirrorsRoots
  BY DEF SidecarInv, IndexMirrorsRoots, Sidecars!Inv, Store!IndexMirrorsRoots, Sidecars!IndexMirrorsRoots, Store!Mirrored, Sidecars!Mirrored
<1>2. QED
  BY <1>1, SidecarAlways, PTL

\* Of a store that nobody changes while doctor looks at it, with a snapshot of its
\* own for each look, doctor says ok exactly when the sidecar is whole, its index
\* has the concepts' rows, there is a scope, and recall of the first term of the
\* first visible concept that has one finds any concept or session: for any
\* writers, stores, rows and visibility.
THEOREM DiagnosisIsRight == Spec => []DoctorIsRight
<1>1. SidecarInv => Sidecars!DoctorIsRight
  BY Sidecars!DoctorSound DEF SidecarInv
<1>2. Sidecars!DoctorIsRight => DoctorIsRight
  BY SameMultiset, SamePicked, SameAnswers DEF DoctorIsRight, Store!DoctorIsRight, Sidecars!DoctorIsRight, Store!Installed,
         Sidecars!Installed, Store!Supported, Sidecars!Supported, Store!ObjectsExact,
         Sidecars!ObjectsExact, Store!ClockPinned, Sidecars!ClockPinned, Store!Payload,
         Sidecars!Payload
<1>3. QED
  BY <1>1, <1>2, SidecarAlways, PTL
-----------------------------------------------------------------------------
(* The exit code: an invariant of WriteCommand, whatever the parser, the   *)
(* scan and the store answer and however often the user moves.             *)

Before == {"start", "parse", "open", "scan", "write"}
Delivering == {"report", "fill", "check", "replace", "flush", "cleanup", "undelivered", "tell"}

\* Nothing is written, reported or told before the store has answered.
Unanswered == outcome = None /\ ~written /\ temporary = None /\ delivered = None

\* The store has answered an import: what was written follows from the answer.
Answered ==
  /\ command = "import"
  /\ outcome \in {"done", "nothing", "refused", "failed"}
  /\ written <=> (outcome = "done" /\ ~options.dryRun)

\* Where the report is at each point of its delivery.
ReportAt ==
  /\ stage = "report" => temporary = None
  /\ stage = "fill" => options.report
  /\ stage \in {"check", "replace"} => options.report /\ temporary = "whole"
  /\ stage \in {"flush", "tell"} => temporary = None /\ (options.report => delivered = "whole")

WritingInv ==
  /\ stage \in Before \cup Delivering \cup {"ended"}
  /\ written \in BOOLEAN
  /\ options.dryRun \in BOOLEAN
  /\ target # "part"
  /\ stage # "ended" => exit = None /\ told = None
  /\ stage \in Before => Unanswered
  /\ stage = "parse" => command # "import"
  /\ stage = "scan" => command = "import"
  /\ stage \in Delivering => Answered /\ ReportAt
  /\ Writing!ExitTellsTruth

-----------------------------------------------------------------------------
LEMMA WritingBegins ==
  ASSUME Writing!WriteAssumption, NEW allOptions \in SUBSET [dryRun : BOOLEAN, report : BOOLEAN],
         Writing!InitWith(allOptions)
  PROVE  WritingInv
BY DEF Writing!InitWith, Writing!WriteAssumption, WritingInv, Before, Delivering, Unanswered,
   Writing!ExitTellsTruth

(* A command that ends before it has written anything.                      *)
LEMMA EndsUnwritten ==
  ASSUME Writing!WriteAssumption, WritingInv, stage \in Before, stage' = "ended",
         exit' \in {0, 1, 2, 137},
         exit' = 0 => outcome' = "nothing" /\ command # "import",
         UNCHANGED <<command, options, target, temporary, delivered, written, told>>
  PROVE  WritingInv'
BY DEF Writing!WriteAssumption, WritingInv, Before, Delivering, Unanswered, Writing!ExitTellsTruth

\* Up to the answer of the store.
LEMMA BeforeStep ==
  ASSUME Writing!WriteAssumption, WritingInv, stage \in Before,
         \/ Writing!BadInput \/ Writing!Start \/ Writing!BadCall \/ Writing!ScopeFails \/ Writing!OpenFails \/ Writing!Open
         \/ Writing!StoreRefuses \/ Writing!WriteFails \/ Writing!Write
  PROVE  WritingInv'
<1>1. CASE Writing!BadInput \/ Writing!OpenFails \/ Writing!StoreRefuses
  BY <1>1, EndsUnwritten DEF Writing!BadInput, Writing!OpenFails, Writing!StoreRefuses,
     Writing!Exit, Writing!rest, Writing!files
<1>2. CASE Writing!Start
  BY <1>2 DEF Writing!Start, Writing!To, Writing!Exit, Writing!rest, Writing!files,
     Writing!WriteAssumption, WritingInv, Before, Delivering, Unanswered, Writing!ExitTellsTruth,
     Writing!Parsing
<1>3. CASE Writing!Open
  BY <1>3 DEF Writing!Open, Writing!To, Writing!rest, Writing!files, Writing!WriteAssumption,
     WritingInv, Before, Delivering, Unanswered, Writing!ExitTellsTruth
<1>4. CASE Writing!BadCall \/ Writing!ScopeFails \/ Writing!WriteFails
  <2>1. UNCHANGED <<command, options, written, target, temporary, delivered, told>>
    BY <1>4 DEF Writing!BadCall, Writing!ScopeFails, Writing!WriteFails, Writing!rest, Writing!files
  <2>2. CASE command = "import"
    <3>1. stage' = "report" /\ UNCHANGED exit /\ outcome' \in {"refused", "failed"}
      BY <1>4, <2>2 DEF Writing!BadCall, Writing!ScopeFails, Writing!WriteFails, Writing!To
    <3>2. QED
      BY <2>1, <2>2, <3>1
         DEF Writing!WriteAssumption, WritingInv, Before, Delivering, Unanswered, Answered, ReportAt, Writing!ExitTellsTruth
  <2>3. CASE command # "import"
    <3>1. stage' = "ended" /\ exit' \in {1, 2}
      BY <1>4, <2>3 DEF Writing!BadCall, Writing!ScopeFails, Writing!WriteFails, Writing!Exit
    <3>2. QED
      BY <2>1, <3>1, EndsUnwritten
  <2>4. QED
    BY <2>2, <2>3
<1>5. CASE Writing!Write
  <2>1. /\ UNCHANGED <<command, options, target, temporary, delivered, told>>
        /\ outcome' = "done" /\ written' = ~(command = "import" /\ options.dryRun)
    BY <1>5 DEF Writing!Write, Writing!rest, Writing!files
  <2>2. CASE command = "import"
    <3>1. stage' = "report" /\ UNCHANGED exit
      BY <1>5, <2>2 DEF Writing!Write, Writing!To
    <3>2. QED
      BY <2>1, <2>2, <3>1
         DEF Writing!WriteAssumption, WritingInv, Before, Delivering, Unanswered, Answered, ReportAt, Writing!ExitTellsTruth
  <2>3. CASE command # "import"
    <3>1. stage' = "ended" /\ exit' = 0 /\ written' = TRUE
      BY <1>5, <2>1, <2>3 DEF Writing!Write, Writing!Exit
    <3>2. options.dryRun \in BOOLEAN /\ target # "part" /\ temporary = None /\ told = None
      BY <1>5 DEF WritingInv, Before, Unanswered, Writing!Write
    <3>3. QED
      BY <2>1, <2>3, <3>1, <3>2 DEF Writing!WriteAssumption, WritingInv, Before, Delivering,
         Writing!ExitTellsTruth
  <2>4. QED
    BY <2>2, <2>3
<1>6. QED
  BY <1>1, <1>2, <1>3, <1>4, <1>5

LEMMA ParsedStep ==
  ASSUME Writing!WriteAssumption, WritingInv, NEW valid \in BOOLEAN, NEW some \in BOOLEAN,
         Writing!Parsed(valid, some)
  PROVE  WritingInv'
<1>1. /\ stage = "parse" /\ command # "import"
      /\ UNCHANGED <<command, options, target, temporary, delivered, written, told>>
  BY DEF Writing!Parsed, Writing!rest, Writing!files, WritingInv
<1>2. CASE valid /\ some
  BY <1>1, <1>2 DEF Writing!Parsed, Writing!To, Writing!WriteAssumption, WritingInv, Before,
     Delivering, Unanswered, Writing!ExitTellsTruth
<1>3. CASE ~(valid /\ some)
  <2>1. stage' = "ended" /\ exit' \in {0, 2} /\ (exit' = 0 => outcome' = "nothing")
    BY <1>3 DEF Writing!Parsed, Writing!Exit
  <2>2. QED
    BY <1>1, <2>1, EndsUnwritten DEF Before
<1>4. QED
  BY <1>2, <1>3

LEMMA ParseFailsStep ==
  ASSUME Writing!WriteAssumption, WritingInv, Writing!ParseFails
  PROVE  WritingInv'
<1>1. /\ stage = "parse" /\ stage' = "ended" /\ exit' = 1
      /\ UNCHANGED <<command, options, target, temporary, delivered, written, told>>
  BY DEF Writing!ParseFails, Writing!Exit, Writing!rest, Writing!files
<1>2. QED
  BY <1>1, EndsUnwritten DEF Before

LEMMA ScannedStep ==
  ASSUME Writing!WriteAssumption, WritingInv, NEW ended \in BOOLEAN, NEW some \in BOOLEAN, Writing!Scanned(ended, some)
  PROVE  WritingInv'
<1>1. stage = "scan" /\ UNCHANGED <<command, options, target, temporary, delivered, written, told>>
  BY DEF Writing!Scanned, Writing!rest, Writing!files
<1>2. CASE ended /\ some
  BY <1>1, <1>2 DEF Writing!Scanned, Writing!To, Writing!WriteAssumption, WritingInv, Before,
     Delivering, Unanswered, Writing!ExitTellsTruth
<1>3. CASE ended /\ ~some
  <2>1. stage' = "report" /\ UNCHANGED exit /\ outcome' = "nothing"
    BY <1>3 DEF Writing!Scanned, Writing!To
  <2>2. QED
    BY <1>1, <2>1
       DEF Writing!WriteAssumption, WritingInv, Before, Delivering, Unanswered, Answered, ReportAt, Writing!ExitTellsTruth
<1>4. CASE ~ended
  <2>1. stage' = "ended" /\ exit' = 1
    BY <1>4 DEF Writing!Scanned, Writing!Exit
  <2>2. QED
    BY <1>1, <2>1, EndsUnwritten DEF Before
<1>5. QED
  BY <1>2, <1>3, <1>4

-----------------------------------------------------------------------------
(* The delivery of the report.                                             *)

LEMMA DeliveringStep ==
  ASSUME Writing!WriteAssumption, WritingInv,
         \/ Writing!NoReport \/ Writing!Create \/ Writing!CreateFails \/ Writing!Fill \/ Writing!Check \/ Writing!Replace \/ Writing!Flush
         \/ Writing!DeliveryFails \/ Writing!Cleanup
  PROVE  WritingInv'
<1>1. /\ stage \in Delivering /\ stage' \in Delivering
      /\ UNCHANGED <<command, options, outcome, written, told, exit>>
  BY DEF Writing!NoReport, Writing!Create, Writing!CreateFails, Writing!Fill, Writing!Check,
     Writing!Replace, Writing!Flush, Writing!DeliveryFails, Writing!Cleanup,
         Writing!To, Writing!rest, Writing!files, Delivering
<1>2. Answered'
  BY <1>1 DEF WritingInv, Answered
<1>3. ReportAt' /\ target' # "part"
  <2>1. ReportAt /\ target # "part"
    BY <1>1 DEF WritingInv
  <2>2. CASE Writing!NoReport \/ Writing!Create \/ Writing!CreateFails \/ Writing!Fill \/ Writing!Check
    BY <2>1, <2>2 DEF ReportAt, Writing!NoReport, Writing!Create, Writing!CreateFails, Writing!Fill,
       Writing!Check, Writing!To, Writing!rest, Writing!files
  <2>3. CASE Writing!Replace \/ Writing!Flush \/ Writing!DeliveryFails \/ Writing!Cleanup
    BY <2>1, <2>3 DEF ReportAt, Writing!Replace, Writing!Flush, Writing!DeliveryFails,
       Writing!Cleanup, Writing!To, Writing!rest, Writing!files
  <2>4. QED
    BY <2>2, <2>3
<1>4. QED
  BY <1>1, <1>2, <1>3 DEF Writing!WriteAssumption, WritingInv, Before, Delivering,
     Writing!ExitTellsTruth

LEMMA UndeliveredStep ==
  ASSUME Writing!WriteAssumption, WritingInv, Writing!Undelivered
  PROVE  WritingInv'
<1>1. /\ Answered /\ written \in BOOLEAN /\ target # "part" /\ options.dryRun \in BOOLEAN
      /\ stage' = "ended" /\ exit' = 1 /\ told' = Writing!Committed
      /\ UNCHANGED <<command, options, outcome, written, target, temporary, delivered>>
  BY DEF Writing!Undelivered, Writing!Exit, Writing!rest, Writing!files, WritingInv, Delivering
<1>2. QED
  BY <1>1 DEF WritingInv, Before, Delivering, Answered, Writing!Committed, Writing!ExitTellsTruth

LEMMA TellStep ==
  ASSUME Writing!WriteAssumption, WritingInv, Writing!Tell
  PROVE  WritingInv'
<1>1. /\ stage = "tell" /\ stage' = "ended"
      /\ exit' = CASE outcome = "failed" -> 1 [] outcome = "refused" -> 2 [] OTHER -> 0
      /\ UNCHANGED <<command, options, outcome, written, told, target, temporary, delivered>>
  BY DEF Writing!Tell, Writing!Exit, Writing!rest, Writing!files
<1>2. /\ Answered /\ ReportAt /\ written \in BOOLEAN /\ target # "part"
      /\ options.dryRun \in BOOLEAN /\ told = None
  BY <1>1 DEF WritingInv, Delivering
<1>3. /\ outcome = "failed" => exit' = 1
      /\ outcome = "refused" => exit' = 2
      /\ outcome \in {"done", "nothing"} => exit' = 0
  BY <1>1
<1>4. QED
  BY <1>1, <1>2, <1>3 DEF Writing!WriteAssumption, WritingInv, Before, Delivering, Answered,
     ReportAt, Writing!ExitTellsTruth

-----------------------------------------------------------------------------
LEMMA StepStep ==
  ASSUME Writing!WriteAssumption, WritingInv, Writing!Step
  PROVE  WritingInv'
<1>1. CASE \/ Writing!BadInput \/ Writing!Start \/ Writing!BadCall \/ Writing!ScopeFails \/ Writing!OpenFails \/ Writing!Open
           \/ Writing!StoreRefuses \/ Writing!WriteFails \/ Writing!Write
  <2>1. stage \in Before
    BY <1>1 DEF Writing!BadInput, Writing!Start, Writing!BadCall, Writing!ScopeFails,
       Writing!OpenFails, Writing!Open, Writing!StoreRefuses, Writing!WriteFails,
       Writing!Write, Before
  <2>2. QED
    BY <1>1, <2>1, BeforeStep
<1>2. QED
  BY <1>1, DeliveringStep, UndeliveredStep, TellStep DEF Writing!Step

LEMMA DieStep ==
  ASSUME Writing!WriteAssumption, WritingInv, Writing!Die
  PROVE  WritingInv'
BY DEF Writing!Die, Writing!Exit, Writing!rest, Writing!files, Writing!WriteAssumption, WritingInv,
   Before, Delivering, Writing!ExitTellsTruth

LEMMA MoveStep ==
  ASSUME Writing!WriteAssumption, WritingInv, Writing!Move
  PROVE  WritingInv'
<1>1. /\ stage \in Delivering /\ target' # "part"
      /\ UNCHANGED <<command, options, stage, outcome, written, temporary, delivered, told, exit>>
  BY DEF Writing!Move, Delivering
<1>2. QED
  BY <1>1 DEF Writing!WriteAssumption, WritingInv, Before, Delivering, Answered, ReportAt,
     Writing!ExitTellsTruth

LEMMA WritingUntouched ==
  ASSUME WritingInv, UNCHANGED Writing!vars
  PROVE  WritingInv'
BY DEF Writing!vars, WritingInv, Before, Delivering, Unanswered, Answered, ReportAt,
   Writing!ExitTellsTruth

LEMMA WritingInit == Init => WritingInv
<1> SUFFICES ASSUME Init PROVE WritingInv
  OBVIOUS
<1> DEFINE asked == IF command = "import" THEN Options ELSE {[dryRun |-> FALSE, report |-> FALSE]}
<1>1. asked \in SUBSET [dryRun : BOOLEAN, report : BOOLEAN]
  BY CommandsAssumption
<1>2. Writing!InitWith(asked)
  BY DEF Init
<1>3. QED
  BY <1>1, <1>2, WritingBegins, CommandsAssumption

LEMMA WritingStep ==
  ASSUME WritingInv, [Next]_vars
  PROVE  WritingInv'
<1>1. CASE UNCHANGED writing
  BY <1>1, WritingUntouched DEF writing, Writing!vars
<1>2. CASE Command
  BY <1>2, CommandsAssumption, StepStep DEF Command
<1>3. CASE ParseReturns
  <2> DEFINE valid == issues = {}
             some == accepted # <<>> \/ document.purpose = "bind"
  <2>1. Writing!Parsed(valid, some) /\ valid \in BOOLEAN /\ some \in BOOLEAN
    BY <1>3 DEF ParseReturns
  <2> HIDE DEF valid, some
  <2>2. QED
    BY <2>1, CommandsAssumption, ParsedStep
<1>4. CASE ScanReturns
  <2> DEFINE ended == at = "done"
             some == records # <<>>
  <2>1. Writing!Scanned(ended, some) /\ ended \in BOOLEAN /\ some \in BOOLEAN
    BY <1>4 DEF ScanReturns
  <2> HIDE DEF ended, some
  <2>2. QED
    BY <2>1, CommandsAssumption, ScannedStep
<1>5. CASE UserMoves \/ Killed
  BY <1>5, CommandsAssumption, MoveStep, DieStep DEF UserMoves, Killed
<1>6. CASE ParseRaises
  BY <1>6, CommandsAssumption, ParseFailsStep DEF ParseRaises
<1>7. QED
  BY <1>1, <1>2, <1>3, <1>4, <1>5, <1>6
     DEF Next, vars, Own, Recall, Doctor, Parse, Scan, OthersCommit, OthersWrite, UserEdits

\* Whatever parser, scan and store answer, whichever call of the delivery
\* fails, and however often the user moves: the exit code and the report say
\* what was written.
THEOREM ExitIsTrue == Spec => []ExitTellsTruth
<1>1. WritingInv => ExitTellsTruth
  BY DEF ExitTellsTruth, WritingInv
<1>2. QED
  BY <1>1, WritingInit, WritingStep, PTL DEF Spec
-----------------------------------------------------------------------------
(* The request.  The invariant says of a concept that was read that it was  *)
(* accepted, without an issue of its own and unlike the others, or that     *)
(* there is an issue at its place; and of a request without issues that all *)
(* of it was accepted so far.                                               *)

Looks == {Request!Canonical(document.concepts[n]) : n \in DOMAIN document.concepts}

RequestTypes ==
  /\ document \in Request!Documents
  /\ reading \in {"envelope", "concepts", "read", "raised"}
  /\ seat \in 1 .. Len(document.concepts) + 1
  /\ accepted \in Seq(Nat) /\ canonical \in Seq(Looks)
  /\ Len(canonical) = Len(accepted)

TakenInv ==
  /\ \A i \in 1 .. Len(accepted) :
       /\ accepted[i] \in 1 .. seat - 1 /\ Request!ConceptIssues(document.concepts[accepted[i]]) = {}
       /\ canonical[i] = Request!Canonical(document.concepts[accepted[i]])
  /\ \A i, j \in 1 .. Len(accepted) : i # j => canonical[i] # canonical[j]
  /\ \A n \in 1 .. seat - 1 :
       (\E i \in 1 .. Len(accepted) : accepted[i] = n) \/ \E x \in issues : x[1] = n
  /\ issues = {} => accepted = [n \in 1 .. seat - 1 |-> n]

ReadingInv ==
  /\ reading = "envelope" => seat = 1 /\ accepted = <<>> /\ canonical = <<>> /\ issues = {}
  /\ reading = "concepts" => document.form = "object" /\ document.purpose # "bind"
  /\ reading = "read" =>
       /\ document.form = "object" \/ issues # {}
       /\ document.form = "object" /\ document.purpose # "bind" => seat = Len(document.concepts) + 1
       /\ document.purpose = "bind" /\ issues = {} => Request!QuotesIssues(document.quotes) = {}
  /\ reading \in {"concepts", "read"} /\ document.form = "object" /\ document.purpose # "bind" /\ issues = {} =>
       Len(document.concepts) <= MaxConcepts

RequestInv == RequestTypes /\ TakenInv /\ ReadingInv

\* A request that waits to be read.
LEMMA RequestUnread ==
  ASSUME document \in Request!Documents, reading = "envelope", seat = 1,
         canonical = <<>>, accepted = <<>>, issues = {}
  PROVE  RequestInv
<1>1. RequestTypes
  BY DEF RequestTypes, Request!Documents
<1>2. TakenInv
  BY DEF TakenInv
<1>3. ReadingInv
  BY DEF ReadingInv
<1>4. QED
  BY <1>1, <1>2, <1>3 DEF RequestInv

LEMMA RequestInit == Init => RequestInv
<1> SUFFICES ASSUME Init PROVE RequestInv
  OBVIOUS
<1>1. document \in Request!Documents
  BY CommandsAssumption DEF Init, Request!InitWith
<1>2. QED
  BY <1>1, RequestUnread DEF Init, Request!InitWith

LEMMA RequestForgotten == ForgetRequest => RequestInv'
<1> SUFFICES ASSUME ForgetRequest PROVE RequestInv'
  OBVIOUS
<1>1. document' \in Request!Documents
  BY CommandsAssumption DEF ForgetRequest
<1>2. document' = NoDocument /\ reading' = "envelope" /\ seat' = 1
  BY DEF ForgetRequest
<1>3. canonical' = <<>> /\ accepted' = <<>> /\ issues' = {}
  BY DEF ForgetRequest
<1>4. RequestTypes'
  BY <1>1, <1>2, <1>3 DEF RequestTypes, Request!Documents
<1>5. TakenInv'
  BY <1>2, <1>3 DEF TakenInv
<1>6. ReadingInv'
  BY <1>2, <1>3 DEF ReadingInv
<1>7. QED
  BY <1>4, <1>5, <1>6 DEF RequestInv

LEMMA EnvelopeStep == RequestInv /\ Request!Envelope => RequestInv'
<1> SUFFICES ASSUME RequestInv, Request!Envelope PROVE RequestInv'
  OBVIOUS
<1>1. UNCHANGED <<document, seat, canonical, accepted>> /\ reading = "envelope"
  BY DEF Request!Envelope
<1>2. seat = 1 /\ accepted = <<>> /\ canonical = <<>>
  BY <1>1 DEF RequestInv, ReadingInv
<1>3. RequestTypes'
  BY <1>1 DEF RequestInv, RequestTypes, Looks, Request!Envelope
<1>4. TakenInv'
  BY <1>1, <1>2 DEF TakenInv
<1>5. ReadingInv'
  <2>1. CASE document.form # "object"
    <3>1. \/ reading' = "raised"
          \/ reading' = "read" /\ issues' # {}
      BY <1>1, <2>1 DEF Request!Envelope
    <3>2. document' = document
      BY <1>1
    <3>3. QED
      BY <2>1, <3>1, <3>2 DEF ReadingInv
  <2>2. CASE document.form = "object" /\ document.purpose = "bind"
    <3>1. reading' = "read" /\ {<<0, i>> : i \in Request!QuotesIssues(document.quotes)} \subseteq issues'
      BY <2>2 DEF Request!Envelope
    <3>2. issues' = {} => Request!QuotesIssues(document.quotes) = {}
      BY <3>1
    <3>3. QED
      BY <1>1, <2>2, <3>1, <3>2 DEF ReadingInv
  <2>3. CASE document.form = "object" /\ document.purpose # "bind"
    <3>1. reading' = "concepts" /\ (issues' = {} => ~(Len(document.concepts) > MaxConcepts))
      BY <2>3 DEF Request!Envelope, Request!If
    <3>2. Len(document.concepts) \in Nat /\ MaxConcepts \in Nat
      BY CommandsAssumption DEF Request!RequestAssumption, RequestInv, RequestTypes, Request!Documents
    <3>3. QED
      BY <1>1, <2>3, <3>1, <3>2 DEF ReadingInv
  <2>4. QED
    BY <2>1, <2>2, <2>3
<1>6. QED
  BY <1>3, <1>4, <1>5 DEF RequestInv

LEMMA ReadConceptStep == RequestInv /\ Request!ReadConcept => RequestInv'
<1> SUFFICES ASSUME RequestInv, Request!ReadConcept PROVE RequestInv'
  OBVIOUS
<1> DEFINE own == Request!ConceptIssues(document.concepts[seat])
           look == Request!Canonical(document.concepts[seat])
           twice == own = {} /\ look \in Request!Range(canonical)
<1>1. /\ UNCHANGED <<document, reading>> /\ reading = "concepts"
      /\ seat <= Len(document.concepts) /\ seat' = seat + 1
  BY DEF Request!ReadConcept
<1>2. issues' = issues \cup {<<seat, i>> : i \in own} \cup Request!If(twice, <<seat, "concept twice">>)
  BY DEF Request!ReadConcept
<1>3. IF own = {} /\ ~twice
        THEN accepted' = Append(accepted, seat) /\ canonical' = Append(canonical, look)
        ELSE UNCHANGED <<accepted, canonical>>
  BY DEF Request!ReadConcept
<1>4. /\ document \in Request!Documents /\ Len(document.concepts) \in Nat
      /\ DOMAIN document.concepts = 1 .. Len(document.concepts)
      /\ seat \in 1 .. Len(document.concepts) /\ look \in Looks
      /\ accepted \in Seq(Nat) /\ canonical \in Seq(Looks) /\ Len(canonical) = Len(accepted)
  <2>1. document.concepts \in Seq(Request!Concept \cup {NotText})
    BY DEF RequestInv, RequestTypes, Request!Documents
  <2>2. Len(document.concepts) \in Nat /\ DOMAIN document.concepts = 1 .. Len(document.concepts)
    BY <2>1
  <2>3. seat \in 1 .. Len(document.concepts)
    BY <1>1, <2>2 DEF RequestInv, RequestTypes
  <2>4. look \in Looks
    BY <2>2, <2>3 DEF Looks
  <2>5. QED
    BY <2>2, <2>3, <2>4 DEF RequestInv, RequestTypes
<1>5. Looks' = Looks
  BY <1>1 DEF Looks
<1>6. document.form = "object" /\ document.purpose # "bind"
  BY <1>1 DEF RequestInv, ReadingInv
<1>7. CASE own = {} /\ ~twice
  <2>1. accepted' = Append(accepted, seat) /\ canonical' = Append(canonical, look) /\ issues' = issues
    BY <1>2, <1>3, <1>7 DEF Request!If
  <2>2. look \notin Request!Range(canonical)
    BY <1>7
  <2>3. \A i \in 1 .. Len(accepted) : canonical[i] # look
    BY <1>4, <2>2 DEF Request!Range
  <2> HIDE DEF own, look, twice
  <2>4. RequestTypes'
    BY <1>1, <1>4, <1>5, <2>1 DEF RequestTypes
  <2>5. TakenInv'
    <3>1. \A i \in 1 .. Len(accepted') :
            /\ accepted'[i] \in 1 .. seat' - 1 /\ Request!ConceptIssues(document'.concepts[accepted'[i]]) = {}
            /\ canonical'[i] = Request!Canonical(document'.concepts[accepted'[i]])
      <4>1. TAKE i \in 1 .. Len(accepted')
      <4>2. CASE i = Len(accepted')
        BY <1>1, <1>4, <1>5, <1>7, <2>1, <4>2 DEF own, look
      <4>3. CASE i # Len(accepted')
        <5>1. i \in 1 .. Len(accepted) /\ accepted'[i] = accepted[i] /\ canonical'[i] = canonical[i]
          BY <1>4, <2>1, <4>1, <4>3
        <5>2. /\ accepted[i] \in 1 .. seat - 1
              /\ Request!ConceptIssues(document.concepts[accepted[i]]) = {}
              /\ canonical[i] = Request!Canonical(document.concepts[accepted[i]])
          BY <5>1 DEF RequestInv, TakenInv
        <5>3. accepted[i] \in 1 .. seat' - 1
          BY <1>1, <1>4, <5>2
        <5>4. QED
          BY <1>1, <5>1, <5>2, <5>3
      <4>4. QED
        BY <4>2, <4>3
    <3>2. \A i, j \in 1 .. Len(accepted') : i # j => canonical'[i] # canonical'[j]
      BY <1>4, <2>1, <2>3 DEF RequestInv, TakenInv
    <3>3. \A n \in 1 .. seat' - 1 :
            (\E i \in 1 .. Len(accepted') : accepted'[i] = n) \/ \E x \in issues' : x[1] = n
      <4>1. TAKE n \in 1 .. seat' - 1
      <4>2. CASE n = seat
        BY <1>4, <2>1, <4>2
      <4>3. CASE n # seat
        <5>1. (\E i \in 1 .. Len(accepted) : accepted[i] = n) \/ \E x \in issues : x[1] = n
          BY <1>1, <1>4, <4>1, <4>3 DEF RequestInv, TakenInv
        <5>2. QED
          BY <1>4, <2>1, <5>1
      <4>4. QED
        BY <4>2, <4>3
    <3>4. issues' = {} => accepted' = [n \in 1 .. seat' - 1 |-> n]
      <4>1. HAVE issues' = {}
      <4>2. accepted = [n \in 1 .. seat - 1 |-> n]
        BY <2>1, <4>1 DEF RequestInv, TakenInv
      <4>3. Len(accepted) = seat - 1
        BY <1>4, <4>2
      <4>4. QED
        BY <1>1, <1>4, <2>1, <4>2, <4>3
    <3>5. QED
      BY <3>1, <3>2, <3>3, <3>4 DEF TakenInv
  <2>6. ReadingInv'
    BY <1>1, <1>6, <2>1 DEF RequestInv, ReadingInv
  <2>7. QED
    BY <2>4, <2>5, <2>6 DEF RequestInv
<1>8. CASE ~(own = {} /\ ~twice)
  <2>1. UNCHANGED <<accepted, canonical>>
    BY <1>3, <1>8
  <2>2. \E x \in issues' : x[1] = seat
    <3>1. CASE own # {}
      <4>1. PICK i \in own : TRUE
        BY <3>1
      <4>2. <<seat, i>> \in issues'
        BY <1>2, <4>1
      <4>3. QED
        BY <4>2
    <3>2. CASE twice
      <4>1. <<seat, "concept twice">> \in issues'
        BY <1>2, <3>2 DEF Request!If
      <4>2. QED
        BY <4>1
    <3>3. QED
      BY <1>8, <3>1, <3>2
  <2>3. issues \subseteq issues'
    BY <1>2
  <2> HIDE DEF own, look, twice
  <2>4. RequestTypes'
    BY <1>1, <1>4, <1>5, <2>1 DEF RequestTypes
  <2>5. TakenInv'
    <3>1. \A i \in 1 .. Len(accepted') :
            /\ accepted'[i] \in 1 .. seat' - 1 /\ Request!ConceptIssues(document'.concepts[accepted'[i]]) = {}
            /\ canonical'[i] = Request!Canonical(document'.concepts[accepted'[i]])
      <4>1. TAKE i \in 1 .. Len(accepted')
      <4>2. /\ accepted[i] \in 1 .. seat - 1
            /\ Request!ConceptIssues(document.concepts[accepted[i]]) = {}
            /\ canonical[i] = Request!Canonical(document.concepts[accepted[i]])
        BY <2>1, <4>1 DEF RequestInv, TakenInv
      <4>3. accepted[i] \in 1 .. seat' - 1
        BY <1>1, <1>4, <4>2
      <4>4. QED
        BY <1>1, <2>1, <4>2, <4>3
    <3>2. \A i, j \in 1 .. Len(accepted') : i # j => canonical'[i] # canonical'[j]
      BY <2>1 DEF RequestInv, TakenInv
    <3>3. \A n \in 1 .. seat' - 1 :
            (\E i \in 1 .. Len(accepted') : accepted'[i] = n) \/ \E x \in issues' : x[1] = n
      <4>1. TAKE n \in 1 .. seat' - 1
      <4>2. CASE n = seat
        BY <2>2, <4>2
      <4>3. CASE n # seat
        <5>1. n \in 1 .. seat - 1
          BY <1>1, <1>4, <4>1, <4>3
        <5>2. (\E i \in 1 .. Len(accepted) : accepted[i] = n) \/ \E x \in issues : x[1] = n
          BY <5>1 DEF RequestInv, TakenInv
        <5>3. QED
          BY <2>1, <2>3, <5>2
      <4>4. QED
        BY <4>2, <4>3
    <3>4. issues' # {}
      BY <2>2
    <3>5. QED
      BY <3>1, <3>2, <3>3, <3>4 DEF TakenInv
  <2>6. ReadingInv'
    BY <1>1, <1>6, <2>2 DEF RequestInv, ReadingInv
  <2>7. QED
    BY <2>4, <2>5, <2>6 DEF RequestInv
<1>9. QED
  BY <1>7, <1>8

LEMMA FinishStep == RequestInv /\ Request!Finish => RequestInv'
<1> SUFFICES ASSUME RequestInv, Request!Finish PROVE RequestInv'
  OBVIOUS
<1>1. /\ UNCHANGED <<document, seat, canonical, accepted, issues>> /\ reading = "concepts"
      /\ reading' = "read" /\ seat > Len(document.concepts)
  BY DEF Request!Finish
<1>2. RequestTypes'
  BY <1>1 DEF RequestInv, RequestTypes, Looks
<1>3. TakenInv'
  BY <1>1 DEF RequestInv, TakenInv
<1>4. seat = Len(document.concepts) + 1
  BY <1>1 DEF RequestInv, RequestTypes, Request!Documents
<1>5. ReadingInv'
  BY <1>1, <1>4 DEF RequestInv, ReadingInv
<1>6. QED
  BY <1>2, <1>3, <1>5 DEF RequestInv

\* What was read so far stays where it is when the parser raises.
LEMMA OverflowStep == RequestInv /\ Request!Overflow => RequestInv'
<1> SUFFICES ASSUME RequestInv, Request!Overflow PROVE RequestInv'
  OBVIOUS
<1>1. /\ UNCHANGED <<document, seat, canonical, accepted, issues>> /\ reading' = "raised"
  BY DEF Request!Overflow
<1>2. RequestTypes'
  BY <1>1 DEF RequestInv, RequestTypes, Looks
<1>3. TakenInv'
  BY <1>1 DEF RequestInv, TakenInv
<1>4. ReadingInv'
  BY <1>1 DEF RequestInv, ReadingInv
<1>5. QED
  BY <1>2, <1>3, <1>4 DEF RequestInv

LEMMA RequestStep ==
  ASSUME RequestInv, [Next]_vars
  PROVE  RequestInv'
<1>1. CASE UNCHANGED request
  <2>1. UNCHANGED <<document, reading, seat, canonical, accepted, issues>>
    BY <1>1 DEF request
  <2>2. RequestTypes'
    BY <2>1 DEF RequestInv, RequestTypes, Looks
  <2>3. TakenInv'
    BY <2>1 DEF RequestInv, TakenInv
  <2>4. ReadingInv'
    BY <2>1 DEF RequestInv, ReadingInv
  <2>5. QED
    BY <2>2, <2>3, <2>4 DEF RequestInv
<1>2. CASE Parse
  BY <1>2, EnvelopeStep, ReadConceptStep, OverflowStep, FinishStep DEF Parse, Request!Next
<1>3. CASE ParseReturns \/ ParseRaises
  BY <1>3, RequestForgotten DEF ParseReturns, ParseRaises
<1>4. CASE Killed
  BY <1>4, RequestForgotten DEF Killed
<1>5. QED
  BY <1>1, <1>2, <1>3, <1>4
     DEF Next, vars, Own, Recall, Command, Doctor, Scan, ScanReturns, OthersCommit, OthersWrite,
         UserEdits, UserMoves

(* What a concept or a list of quotes without issues is like.               *)

\* An injective sequence has as many values as places.
LEMMA DifferentValues ==
  ASSUME NEW S, NEW s \in Seq(S), \A i, j \in DOMAIN s : s[i] = s[j] => i = j
  PROVE  Request!Cardinality(Request!Range(s)) = Len(s)
<1> DEFINE R == {s[i] : i \in DOMAIN s}
<1>1. Request!Range(s) = R
  BY DEF Request!Range
<1>2. IsFiniteSet(1 .. Len(s)) /\ Cardinality(1 .. Len(s)) = Len(s)
  <2>1. Len(s) \in Nat /\ 1 \in Int /\ Len(s) \in Int
    OBVIOUS
  <2>2. Cardinality(1 .. Len(s)) = IF 1 > Len(s) THEN 0 ELSE Len(s) - 1 + 1
    BY <2>1, FS_Interval
  <2>3. IsFiniteSet(1 .. Len(s))
    BY <2>1, FS_Interval
  <2>4. QED
    BY <2>1, <2>2, <2>3
<1> DEFINE f == [i \in 1 .. Len(s) |-> s[i]]
<1>3. f \in Bijection(1 .. Len(s), R)
  <2>1. f \in [1 .. Len(s) -> R] /\ (\A r \in R : \E i \in 1 .. Len(s) : f[i] = r)
    OBVIOUS
  <2>2. \A i, j \in 1 .. Len(s) : f[i] = f[j] => i = j
    OBVIOUS
  <2> HIDE DEF f, R
  <2>3. QED
    BY <2>1, <2>2 DEF Bijection, Injection, Surjection, IsInjective
<1>4. Cardinality(R) = Len(s)
  <2> HIDE DEF R, f
  <2>1. ExistsBijection(1 .. Len(s), R)
    BY <1>3 DEF ExistsBijection
  <2>2. QED
    BY <1>2, <2>1, FS_Bijection
<1>5. QED
  BY <1>1, <1>4 DEF Request!Cardinality, Cardinality

LEMMA TagsFit ==
  ASSUME NEW tags \in Seq(STRING), Request!TagIssues(tags) = {}
  PROVE  /\ Request!Cardinality(Request!Range(tags)) = Len(tags)
         /\ Len(tags) \in 2 .. 5 /\ Request!Range(tags) \subseteq WellFormed
<1>1. ~(Len(tags) < 2) /\ ~(Len(tags) > 5) /\ Request!Range(tags) \subseteq WellFormed
  BY DEF Request!TagIssues, Request!If
<1>2. ~\E i, j \in DOMAIN tags : i < j /\ tags[i] = tags[j] /\ tags[i] \in WellFormed
  BY DEF Request!TagIssues, Request!If
<1>3. \A i \in DOMAIN tags : tags[i] \in WellFormed
  BY <1>1 DEF Request!Range
<1>4. \A i, j \in DOMAIN tags : tags[i] = tags[j] => i = j
  BY <1>2, <1>3
<1>5. Request!Cardinality(Request!Range(tags)) = Len(tags)
  BY <1>4, DifferentValues
<1>6. Len(tags) \in 2 .. 5
  <2>1. ~(Len(tags) < 2) /\ ~(Len(tags) > 5)
    BY <1>1
  <2>2. Len(tags) \in Nat
    OBVIOUS
  <2>3. \A n \in Nat : ~(n < 2) /\ ~(n > 5) => n \in 2 .. 5
    OBVIOUS
  <2>4. QED
    BY <2>1, <2>2, <2>3
<1>7. QED
  BY <1>1, <1>5, <1>6

LEMMA QuotesFit ==
  ASSUME NEW quotes \in Seq(Request!Quote), Request!QuotesIssues(quotes) = {}
  PROVE  Len(quotes) \in 1 .. 8 /\ Request!IsInjective(quotes)
<1>1. ~(Len(quotes) < 1) /\ ~(Len(quotes) > 8)
  BY DEF Request!QuotesIssues, Request!If
<1>2. UNION {Request!QuoteIssues(q) : q \in Request!Range(quotes)} = {}
  BY DEF Request!QuotesIssues
<1>3. \A i \in DOMAIN quotes : Request!QuoteIssues(quotes[i]) = {}
  BY <1>2 DEF Request!Range
<1>4. ~\E i, j \in DOMAIN quotes :
        /\ i < j /\ Request!QuoteIssues(quotes[i]) \cup Request!QuoteIssues(quotes[j]) = {}
        /\ Request!Key(quotes[i]) = Request!Key(quotes[j])
  BY DEF Request!QuotesIssues, Request!If
<1>5. \A i, j \in DOMAIN quotes : i < j => quotes[i] # quotes[j]
  BY <1>3, <1>4
<1>6. \A i, j \in DOMAIN quotes : quotes[i] = quotes[j] => i = j
  BY <1>5
<1>7. Len(quotes) \in 1 .. 8
  <2>1. ~(Len(quotes) < 1) /\ ~(Len(quotes) > 8)
    BY <1>1
  <2>2. Len(quotes) \in Nat
    OBVIOUS
  <2>3. \A n \in Nat : ~(n < 1) /\ ~(n > 8) => n \in 1 .. 8
    OBVIOUS
  <2>4. QED
    BY <2>1, <2>2, <2>3
<1>8. QED
  BY <1>6, <1>7 DEF Request!IsInjective

LEMMA ConceptParts ==
  ASSUME NEW c, c # NotText, NEW x
  PROVE  /\ x \in Request!TagIssues(c.tags) => x \in Request!ConceptIssues(c)
         /\ x \in Request!QuotesIssues(c.quotes) => x \in Request!ConceptIssues(c)
<1>1. ASSUME x \in Request!TagIssues(c.tags) PROVE x \in Request!ConceptIssues(c)
  BY <1>1 DEF Request!ConceptIssues, Request!If, Request!TextIssues
<1>2. ASSUME x \in Request!QuotesIssues(c.quotes) PROVE x \in Request!ConceptIssues(c)
  BY <1>2 DEF Request!ConceptIssues, Request!If, Request!TextIssues
<1>3. QED
  BY <1>1, <1>2

LEMMA ConceptFaults ==
  ASSUME NEW c, c # NotText
  PROVE  /\ c.kind = "unknown" => "kind" \in Request!ConceptIssues(c)
         /\ c.confidence \notin 50 .. 100 => "confidence" \in Request!ConceptIssues(c)
         /\ c.title = NotText => "title" \o " type" \in Request!ConceptIssues(c)
         /\ c.title # NotText /\ c.title.length = 0 => "title" \o " blank" \in Request!ConceptIssues(c)
         /\ c.description = NotText => "description" \o " type" \in Request!ConceptIssues(c)
         /\ c.description # NotText /\ c.description.length = 0 =>
              "description" \o " blank" \in Request!ConceptIssues(c)
<1>1. ASSUME c.kind = "unknown" PROVE "kind" \in Request!ConceptIssues(c)
  BY <1>1 DEF Request!ConceptIssues, Request!If, Request!TextIssues
<1>2. ASSUME c.confidence \notin 50 .. 100 PROVE "confidence" \in Request!ConceptIssues(c)
  BY <1>2 DEF Request!ConceptIssues, Request!If, Request!TextIssues
<1>3. ASSUME c.title = NotText PROVE "title" \o " type" \in Request!ConceptIssues(c)
  BY <1>3 DEF Request!ConceptIssues, Request!If, Request!TextIssues
<1>4. ASSUME c.title # NotText, c.title.length = 0 PROVE "title" \o " blank" \in Request!ConceptIssues(c)
  BY <1>4 DEF Request!ConceptIssues, Request!If, Request!TextIssues
<1>5. ASSUME c.description = NotText PROVE "description" \o " type" \in Request!ConceptIssues(c)
  BY <1>5 DEF Request!ConceptIssues, Request!If, Request!TextIssues
<1>6. ASSUME c.description # NotText, c.description.length = 0
      PROVE  "description" \o " blank" \in Request!ConceptIssues(c)
  BY <1>6 DEF Request!ConceptIssues, Request!If, Request!TextIssues
<1>7. QED
  BY <1>1, <1>2, <1>3, <1>4, <1>5, <1>6

LEMMA ConceptFits ==
  ASSUME NEW c \in Request!Concept \cup {NotText}, Request!ConceptIssues(c) = {},
         c.title.odd = {}, c.description.odd = {}
  PROVE  Request!TableTakes(c)
<1>1. c # NotText
  BY DEF Request!ConceptIssues
<1>2. /\ c.title \in Request!Text \cup {NotText} /\ c.description \in Request!Text \cup {NotText}
      /\ c.tags \in Seq(STRING) /\ c.quotes \in Seq(Request!Quote)
  BY <1>1 DEF Request!Concept
<1>3. Request!TagIssues(c.tags) = {} /\ Request!QuotesIssues(c.quotes) = {}
  BY <1>1, ConceptParts
<1>4. /\ c.kind # "unknown" /\ c.confidence \in 50 .. 100
      /\ c.title # NotText /\ c.title.length # 0 /\ c.description # NotText /\ c.description.length # 0
  BY <1>1, ConceptFaults
<1>5. c.title.length > 0 /\ c.description.length > 0
  BY <1>2, <1>4 DEF Request!Text
<1>6. QED
  BY <1>2, <1>3, <1>4, <1>5, TagsFit, QuotesFit DEF Request!TableTakes, Request!ColumnTakes

\* For every limit up to eight and every document the parser does not raise on:
\* without issues it is taken whole, none of its concepts is another quoted
\* differently, and a concept that is not taken has an issue at its place.  What
\* is taken fits the tables exactly if neither its title nor its description
\* opens with a NUL or holds a lone surrogate.
THEOREM RequestsAreSound == Spec => []RequestIsSound
<1>1. ASSUME RequestInv, reading = "read" PROVE RequestIsSound
  <2>0. /\ document \in Request!Documents /\ document.concepts \in Seq(Request!Concept \cup {NotText})
        /\ document.quotes \in Seq(Request!Quote)
        /\ Len(document.concepts) \in Nat /\ DOMAIN document.concepts = 1 .. Len(document.concepts)
        /\ seat \in 1 .. Len(document.concepts) + 1
        /\ accepted \in Seq(Nat) /\ DOMAIN accepted = 1 .. Len(accepted)
    BY <1>1 DEF RequestInv, RequestTypes, Request!Documents
  <2>1. \A n : n \in Request!Range(accepted) <=> \E i \in 1 .. Len(accepted) : accepted[i] = n
    BY <2>0 DEF Request!Range
  <2>2. ASSUME document.purpose = "winddown", document.form = "object",
               NEW n \in DOMAIN document.concepts
        PROVE  n \in Request!Range(accepted) \/ \E i \in issues : i[1] = n
    <3>1. seat = Len(document.concepts) + 1
      BY <1>1, <2>2 DEF RequestInv, ReadingInv
    <3>2. n \in 1 .. seat - 1
      BY <2>0, <3>1
    <3>3. QED
      BY <1>1, <2>1, <3>2 DEF RequestInv, TakenInv
  <2>3. ASSUME NEW n \in Request!Range(accepted)
        PROVE  Request!TableTakes(document.concepts[n]) <=>
                 document.concepts[n].title.odd = {} /\ document.concepts[n].description.odd = {}
    <3>0. PICK i \in 1 .. Len(accepted) : accepted[i] = n
      BY <2>1
    <3>1. n \in 1 .. seat - 1 /\ Request!ConceptIssues(document.concepts[n]) = {}
      BY <1>1, <3>0 DEF RequestInv, TakenInv
    <3>2. document.concepts[n] \in Request!Concept \cup {NotText}
      BY <2>0, <3>1
    <3>3. Request!TableTakes(document.concepts[n]) =>
            document.concepts[n].title.odd = {} /\ document.concepts[n].description.odd = {}
      BY DEF Request!TableTakes, Request!ColumnTakes
    <3>4. QED
      BY <3>1, <3>2, <3>3, ConceptFits
  <2>4. ASSUME NEW m \in Request!Range(accepted), NEW n \in Request!Range(accepted), m # n
        PROVE  Request!Fields(document.concepts[m]) # Request!Fields(document.concepts[n])
    <3>1. PICK i \in 1 .. Len(accepted), j \in 1 .. Len(accepted) : accepted[i] = m /\ accepted[j] = n
      BY <2>1
    <3>2. i # j /\ canonical[i] # canonical[j]
      BY <1>1, <2>4, <3>1 DEF RequestInv, TakenInv
    <3>3. Request!Canonical(document.concepts[m]) # Request!Canonical(document.concepts[n])
      BY <1>1, <3>1, <3>2 DEF RequestInv, TakenInv
    <3>4. QED
      BY <3>3 DEF Request!Canonical
  <2>5. ASSUME issues = {}, document.purpose = "winddown"
        PROVE  accepted = [n \in DOMAIN document.concepts |-> n] /\ Len(accepted) <= 8
    <3>1. document.form = "object" /\ seat = Len(document.concepts) + 1
      BY <1>1, <2>5 DEF RequestInv, ReadingInv
    <3>2. Len(document.concepts) <= MaxConcepts /\ MaxConcepts \in 1 .. 8
      BY <1>1, <2>5, <3>1, CommandsAssumption DEF Request!RequestAssumption, RequestInv, ReadingInv
    <3>3. accepted = [n \in 1 .. seat - 1 |-> n]
      BY <1>1, <2>5 DEF RequestInv, TakenInv
    <3>4. accepted = [n \in DOMAIN document.concepts |-> n]
      BY <2>0, <3>1, <3>3
    <3>5. Len(accepted) = Len(document.concepts)
      BY <2>0, <3>4
    <3>6. QED
      BY <2>0, <3>2, <3>4, <3>5
  <2>6. ASSUME issues = {}, document.purpose = "bind"
        PROVE  Len(document.quotes) \in 1 .. 8 /\ Request!IsInjective(document.quotes)
    <3>1. Request!QuotesIssues(document.quotes) = {}
      BY <1>1, <2>6 DEF RequestInv, ReadingInv
    <3>2. QED
      BY <2>0, <3>1, QuotesFit
  <2>7. QED
    BY <2>2, <2>3, <2>4, <2>5, <2>6 DEF RequestIsSound, Request!RequestIsSound
<1>2. RequestInv => RequestIsSound
  BY <1>1 DEF RequestIsSound, Request!RequestIsSound
<1>3. QED
  BY <1>2, RequestInit, RequestStep, PTL DEF Spec
-----------------------------------------------------------------------------
(* The scan of an import.                                                  *)

LEMMA ScanAssumed == Scans!ScanAssumption
BY CommandsAssumption DEF Tree!ScanAssumption, Scans!ScanAssumption, Tree!IsFiniteSet, Scans!IsFiniteSet

LEMMA ScanBegins == Init => Scans!Inv
<1> SUFFICES ASSUME Init PROVE Scans!Inv
  OBVIOUS
<1> DEFINE trees == Only("import", Trees, EmptyTree)
<1>1. Tree!InitWith(trees)
  BY DEF Init
<1> HIDE DEF trees
<1>2. Scans!InitWith(trees)
  BY <1>1 DEF Tree!InitWith, Scans!InitWith, Tree!CounterNames, Scans!CounterNames
<1>3. QED
  BY <1>2, ScanAssumed, Scans!InvInit

LEMMA ScanForgotten == ForgetScan => Scans!Inv'
<1> SUFFICES ASSUME ForgetScan PROVE Scans!Inv'
  OBVIOUS
<1>1. /\ at' = "list" /\ todo' = {} /\ found' = {} /\ read' = <<>>
      /\ counters' = [n \in Scans!CounterNames |-> 0] /\ errors' = <<>> /\ records' = <<>>
  BY DEF ForgetScan, Tree!CounterNames, Scans!CounterNames
<1>2. QED
  BY <1>1, ScanAssumed, Scans!Forgotten

LEMMA SameDocuments ==
  \A d : /\ Tree!Class(d) = Scans!Class(d) /\ Tree!Faults(d) = Scans!Faults(d)
         /\ Tree!Fingerprint(d) = Scans!Fingerprint(d) /\ Tree!Normalized(d) = Scans!Normalized(d)
         /\ Tree!Mismatch(d) = Scans!Mismatch(d)
BY DEF Tree!Class, Scans!Class, Tree!Faults, Scans!Faults, Tree!Fingerprint, Scans!Fingerprint,
       Tree!Normalized, Scans!Normalized, Tree!Mismatch, Scans!Mismatch, Tree!SchemaIssues,
       Scans!SchemaIssues, Tree!TagIssues, Scans!TagIssues, Tree!TextIssues, Scans!TextIssues,
       Tree!LowerTags, Scans!LowerTags, Tree!YamlFault, Scans!YamlFault, Tree!Decoded, Scans!Decoded,
       Tree!Raises, Scans!Raises, Tree!Range, Scans!Range

LEMMA SameWalk ==
  /\ Tree!ListRoot => Scans!ListRoot
  /\ Tree!Look => Scans!Look
  /\ Tree!OpenFolder => Scans!OpenFolder
  /\ Tree!Walked => Scans!Walked
  /\ Tree!Finish => Scans!Finish
BY DEF Tree!ListRoot, Scans!ListRoot, Tree!Look, Scans!Look, Tree!OpenFolder, Scans!OpenFolder,
       Tree!Walked, Scans!Walked, Tree!Finish, Scans!Finish, Tree!Abort, Scans!Abort, Tree!Min, Scans!Min

LEMMA SameRead == Tree!Read => Scans!Read
BY SameDocuments
   DEF Tree!Read, Scans!Read, Tree!ReadUnsafe, Scans!ReadUnsafe, Tree!ReadInvalid, Scans!ReadInvalid,
       Tree!ReadRecord, Scans!ReadRecord, Tree!Openable, Scans!Openable, Tree!Documents, Scans!Documents,
       Tree!Abort, Scans!Abort, Tree!Min, Scans!Min, Tree!Extend, Scans!Extend, Tree!Count, Scans!Count,
       Tree!CounterNames, Scans!CounterNames, Tree!Report, Scans!Report, Tree!Repeats, Scans!Repeats,
       Tree!Range, Scans!Range, Tree!Cardinality, Scans!Cardinality

LEMMA SameChange ==
  ASSUME NEW e \in Entries, Tree!Change(e)
  PROVE  Scans!Change(e)
BY DEF Tree!Change, Scans!Change

LEMMA ScanStep ==
  ASSUME Scans!Inv, [Next]_vars
  PROVE  Scans!Inv'
<1>1. CASE UNCHANGED scan
  BY <1>1, Scans!Untouched DEF scan, Scans!vars
<1>2. CASE Scan
  BY <1>2, SameWalk, SameRead, ScanAssumed, Scans!ScanKeeps DEF Scan, Tree!Scan, Scans!Scan
<1>3. CASE ScanReturns \/ Killed
  BY <1>3, ScanForgotten DEF ScanReturns, Killed
<1>4. CASE UserEdits
  BY <1>4, SameChange, Scans!ChangeKeeps DEF UserEdits
<1>5. QED
  BY <1>1, <1>2, <1>3, <1>4
     DEF Next, vars, Own, Recall, Doctor, Command, Parse, ParseReturns, ParseRaises, OthersCommit,
         OthersWrite, UserMoves

\* Whatever the tree, the contents and the user's edits during the scan: every
\* candidate is counted once, what is kept is the first record of each content and
\* fits the tables, and what is dropped has an error unless the errors are full.
THEOREM ScansAccount == Spec => []ScanIsAccounted
<1>1. Scans!Inv => Scans!ScanIsAccounted /\ Scans!KeptFitsTheTable
  BY ScanAssumed, Scans!Accounts, Scans!Fits
<1>2. Scans!ScanIsAccounted => Tree!ScanIsAccounted
  BY SameDocuments
     DEF Tree!ScanIsAccounted, Scans!ScanIsAccounted, Tree!Records, Scans!Records, Tree!Range, Scans!Range,
         Tree!Cardinality, Scans!Cardinality
<1>3. Scans!KeptFitsTheTable => Tree!KeptFitsTheTable
  BY DEF Tree!KeptFitsTheTable, Scans!KeptFitsTheTable, Tree!LowerTags, Scans!LowerTags, Tree!Range,
         Scans!Range, Tree!IsInjective, Scans!IsInjective
<1>4. Scans!Inv => ScanIsAccounted
  BY <1>1, <1>2, <1>3 DEF ScanIsAccounted
<1>5. QED
  BY <1>4, ScanBegins, ScanStep, PTL DEF Spec
-----------------------------------------------------------------------------
(* The answer of recall.                                                   *)

LEMMA RecallAssumed == Recalls!RecallAssumption
BY CommandsAssumption
   DEF Asking!RecallAssumption, Recalls!RecallAssumption, Asking!Holdings, Recalls!Holdings,
       Asking!Orders, Recalls!Orders, Asking!Answers, Recalls!Answers, Asking!IsInjective,
       Recalls!IsInjective, Asking!Range, Recalls!Range, Asking!IsFiniteSet, Recalls!IsFiniteSet,
       Asking!Cardinality, Recalls!Cardinality

LEMMA SameHoldings == Asking!Holdings = Recalls!Holdings
BY DEF Asking!Holdings, Recalls!Holdings, Asking!Orders, Recalls!Orders, Asking!IsInjective,
       Recalls!IsInjective, Asking!Range, Recalls!Range, Asking!Cardinality, Recalls!Cardinality

\* The actions and the contract of the two instances are the same formulas.
LEMMA SameKept == \A s, S : Asking!Kept(s, S) = Recalls!Kept(s, S)
BY DEF Asking!Kept, Recalls!Kept, Asking!Cardinality, Recalls!Cardinality

LEMMA SameWork ==
  ASSUME Asking!Work
  PROVE  Recalls!Work
<1>1. Asking!Page = Recalls!Page
  BY DEF Asking!Page, Recalls!Page, Asking!Ranked, Recalls!Ranked, Asking!Prefix, Recalls!Prefix
<1>2. Asking!Taken = Recalls!Taken
  BY <1>1, SameKept DEF Asking!Taken, Recalls!Taken, Asking!Prefix, Recalls!Prefix
<1>3. Asking!SessionHits = Recalls!SessionHits
  BY SameKept DEF Asking!SessionHits, Recalls!SessionHits, Asking!Prefix, Recalls!Prefix,
     Asking!Excluded, Recalls!Excluded, Asking!Range, Recalls!Range
<1>4. CASE Asking!ReadPage
  <2>1. Asking!LastPage <=> Recalls!LastPage
    BY <1>1 DEF Asking!LastPage, Recalls!LastPage
  <2>2. Asking!NextOffset = Recalls!NextOffset
    BY <1>1 DEF Asking!NextOffset, Recalls!NextOffset
  <2>3. Asking!Range(Asking!Page) = Recalls!Range(Recalls!Page)
    BY <1>1 DEF Asking!Range, Recalls!Range
  <2>4. Recalls!ReadPage
    BY <1>2, <1>4, <2>1, <2>2, <2>3 DEF Asking!ReadPage, Recalls!ReadPage
  <2> QED
    BY <2>4 DEF Recalls!Work
<1>5. CASE Asking!FindSessions
  <2>1. Recalls!FindSessions
    BY <1>3, <1>5 DEF Asking!FindSessions, Recalls!FindSessions
  <2> QED
    BY <2>1 DEF Recalls!Work
<1>6. CASE Asking!Refuse \/ Asking!Open \/ Asking!ConceptsFull \/ Asking!SessionsFull
  BY <1>6 DEF Asking!Refuse, Recalls!Refuse, Asking!Open, Recalls!Open, Asking!ConceptsFull,
     Recalls!ConceptsFull, Asking!SessionsFull, Recalls!SessionsFull, Recalls!Work
<1> QED
  BY <1>4, <1>5, <1>6 DEF Asking!Work

LEMMA SameCommits ==
  ASSUME Asking!Hide \/ Asking!Record
  PROVE  Recalls!Hide \/ Recalls!Record
BY DEF Asking!Hide, Recalls!Hide, Asking!Record, Recalls!Record, Asking!Range, Recalls!Range

LEMMA SameAnswer ==
  \A a, st, q : Asking!Contract!IsAnswer(a, st, q) <=> Recalls!Contract!IsAnswer(a, st, q)
<1>1. \A b, e, s, l, n : Asking!Contract!IsBest(b, e, s, l, n) <=> Recalls!Contract!IsBest(b, e, s, l, n)
  BY DEF Asking!Contract!IsBest, Recalls!Contract!IsBest, Asking!Contract!Place,
     Recalls!Contract!Place, Asking!Contract!Range, Recalls!Contract!Range
<1>2. \A f : Asking!Contract!Range(f) = Recalls!Contract!Range(f)
  BY DEF Asking!Contract!Range, Recalls!Contract!Range
<1> SUFFICES ASSUME NEW a, NEW st, NEW q
             PROVE  Asking!Contract!IsAnswer(a, st, q) <=> Recalls!Contract!IsAnswer(a, st, q)
  OBVIOUS
<1> DEFINE others == st.visible \ {Source[c] : c \in Asking!Contract!Range(a.concepts)}
<1>3. others = st.visible \ {Source[c] : c \in Recalls!Contract!Range(a.concepts)}
  BY <1>2
<1> HIDE DEF others
<1>4. /\ Asking!Contract!IsBest(a.concepts, st.conceptAnd, st.conceptOr, st.allowed, q.k)
           <=> Recalls!Contract!IsBest(a.concepts, st.conceptAnd, st.conceptOr, st.allowed, q.k)
      /\ Asking!Contract!IsBest(a.sessions, st.sessionAnd, st.sessionOr, others, q.k)
           <=> Recalls!Contract!IsBest(a.sessions, st.sessionAnd, st.sessionOr, others, q.k)
  BY <1>1
<1> QED
  BY <1>2, <1>3, <1>4 DEF Asking!Contract!IsAnswer, Recalls!Contract!IsAnswer, others

LEMMA SameContract ==
  ASSUME [Recalls!Contract!Next]_(Recalls!Contract!vars)
  PROVE  [Asking!Contract!Next]_(Asking!Contract!vars)
BY SameAnswer
   DEF Asking!Contract!Next, Recalls!Contract!Next, Asking!Contract!vars, Recalls!Contract!vars,
       Asking!Contract!Pin, Recalls!Contract!Pin, Asking!Contract!Deliver,
       Recalls!Contract!Deliver, Asking!Contract!Change, Recalls!Contract!Change,
       Asking!Answered, Recalls!Answered

LEMMA RecallBegins == Init => Recalls!RecallInv /\ Asking!Contract!Init
<1> SUFFICES ASSUME Init PROVE Recalls!RecallInv /\ Asking!Contract!Init
  OBVIOUS
<1> DEFINE held == IF command = "recall" THEN Recallable ELSE {CHOOSE s \in Recallable : TRUE}
           asked == IF command = "recall" THEN Questions ELSE {CHOOSE q \in Questions : TRUE}
<1>1. held \subseteq Recalls!Holdings /\ asked \subseteq [k : 0 .. MaxK + 1, searchable : BOOLEAN]
  BY CommandsAssumption, SameHoldings
<1>2. Asking!InitWith(held, asked)
  BY DEF Init
<1> HIDE DEF held, asked
<1>3. Recalls!InitWith(held, asked)
  BY <1>2 DEF Asking!InitWith, Recalls!InitWith
<1>4. Asking!Contract!Init
  BY <1>2 DEF Asking!InitWith, Asking!Contract!Init
<1> QED
  BY <1>1, <1>3, <1>4, Recalls!RecallInit

LEMMA RecallTakesStep ==
  ASSUME Recalls!RecallInv, [Next]_vars
  PROVE  Recalls!RecallInv' /\ [Asking!Contract!Next]_(Asking!Contract!vars)
<1>1. CASE Recall \/ OthersCommit
  <2>1. Recalls!Work \/ Recalls!Hide \/ Recalls!Record
    BY <1>1, SameWork, SameCommits DEF Recall, OthersCommit
  <2> QED
    BY <2>1, RecallAssumed, Recalls!RecallStep, Recalls!ContractStep, SameContract
<1>2. CASE UNCHANGED asking
  <2>1. UNCHANGED Recalls!vars /\ UNCHANGED Asking!Contract!vars
    BY <1>2 DEF asking, Recalls!vars, Asking!Contract!vars, Asking!Answered
  <2> QED
    BY <2>1, Recalls!RecallStutter
<1> QED
  BY <1>1, <1>2
     DEF Next, vars, Own, Doctor, Command, Parse, ParseReturns, ParseRaises, Scan, ScanReturns,
         OthersWrite, UserEdits, UserMoves, Killed

\* Whatever others commit between its queries, wherever a page ends and
\* however many of its rows are hidden: recall refines RecallContract, its
\* answer is the best k of the snapshot it opened.
THEOREM RecallAnswersOneInstant == Spec => AnswersOneInstant
<1>1. Init => Recalls!RecallInv /\ Asking!Contract!Init
  BY RecallBegins
<1>2. Recalls!RecallInv /\ [Next]_vars =>
        Recalls!RecallInv' /\ [Asking!Contract!Next]_(Asking!Contract!vars)
  BY RecallTakesStep
<1> QED
  BY <1>1, <1>2, PTL DEF Spec, AnswersOneInstant, Asking!AnswersOneInstant
-----------------------------------------------------------------------------
(* The types.  The invariants above have most of them; what is left is      *)
(* proved of each part, given its invariant.                                *)

Outcomes == {None, "done", "nothing", "refused", "failed"}

\* A step that goes on, or ends with an exit code.
LEMMA WritingTyped ==
  ASSUME Writing!WriteAssumption, Writing!TypeOK,
         options' = options, moves' \in 0 .. MaxMoves,
         \/ stage' \in Writing!Stages \ {"ended"} /\ exit' = None
         \/ stage' = "ended" /\ exit' \in {0, 1, 2, 137},
         outcome' \in Outcomes, written' \in BOOLEAN, told' \in BOOLEAN \cup {None},
         target' \in {"absent", "file", "other", "part", "whole"},
         temporary' \in {None, "part", "whole"}, delivered' \in {None, "part", "whole"}
  PROVE  Writing!TypeOK'
BY DEF Writing!TypeOK, Writing!Stages, Writing!WriteAssumption, Outcomes

\* The steps that leave the files alone.
LEMMA TypedWithoutFiles ==
  ASSUME Writing!WriteAssumption, Writing!TypeOK, UNCHANGED Writing!files, UNCHANGED Writing!rest,
         \/ stage' \in Writing!Stages \ {"ended"} /\ exit' = exit /\ stage # "ended"
         \/ stage' = "ended" /\ exit' \in {0, 1, 2, 137},
         outcome' \in Outcomes, written' \in BOOLEAN, told' \in BOOLEAN \cup {None}
  PROVE  Writing!TypeOK'
<1>1. /\ options' = options /\ moves' = moves /\ target' = target /\ temporary' = temporary
      /\ delivered' = delivered
  BY DEF Writing!files, Writing!rest
<1>2. stage # "ended" => exit = None
  BY DEF Writing!TypeOK
<1>3. /\ moves \in 0 .. MaxMoves /\ target \in {"absent", "file", "other", "part", "whole"}
      /\ temporary \in {None, "part", "whole"} /\ delivered \in {None, "part", "whole"}
  BY DEF Writing!TypeOK
<1>4. QED
  BY <1>1, <1>2, <1>3, WritingTyped

LEMMA StepTyped ==
  ASSUME Writing!WriteAssumption, WritingInv, Writing!TypeOK, Writing!Step
  PROVE  Writing!TypeOK'
<1>0. outcome \in Outcomes /\ written \in BOOLEAN /\ told \in BOOLEAN \cup {None}
  BY DEF Writing!TypeOK, Outcomes
<1>1. CASE Writing!BadInput \/ Writing!Start \/ Writing!BadCall
  <2>1. /\ UNCHANGED <<Writing!files, Writing!rest, written, told>> /\ outcome' \in {outcome, "refused"}
        /\ \/ stage' \in {"parse", "open", "report"} /\ exit' = exit /\ stage # "ended"
           \/ stage' = "ended" /\ exit' = 2
    BY <1>1 DEF Writing!BadInput, Writing!Start, Writing!BadCall, Writing!To, Writing!Exit
  <2>2. QED
    BY <1>0, <2>1, TypedWithoutFiles DEF Writing!Stages, Outcomes
<1>2. CASE Writing!ScopeFails \/ Writing!OpenFails \/ Writing!Open
  <2>1. /\ UNCHANGED <<Writing!files, Writing!rest, written, told>> /\ outcome' \in {outcome, "refused", "failed"}
        /\ \/ stage' \in {"scan", "write", "report"} /\ exit' = exit /\ stage # "ended"
           \/ stage' = "ended" /\ exit' \in {1, 2}
    BY <1>2 DEF Writing!ScopeFails, Writing!OpenFails, Writing!Open, Writing!To, Writing!Exit
  <2>2. QED
    BY <1>0, <2>1, TypedWithoutFiles DEF Writing!Stages, Outcomes
<1>3. CASE Writing!StoreRefuses \/ Writing!WriteFails \/ Writing!Write
  <2>1. /\ UNCHANGED <<Writing!files, Writing!rest, told>> /\ outcome' \in {"done", "refused", "failed"}
        /\ written' \in BOOLEAN
        /\ \/ stage' = "report" /\ exit' = exit /\ stage # "ended"
           \/ stage' = "ended" /\ exit' \in {0, 1, 2}
    BY <1>0, <1>3 DEF Writing!StoreRefuses, Writing!WriteFails, Writing!Write, Writing!To, Writing!Exit
  <2>2. QED
    BY <1>0, <2>1, TypedWithoutFiles DEF Writing!Stages, Outcomes
<1>4. CASE Writing!NoReport \/ Writing!CreateFails \/ Writing!Check \/ Writing!Flush \/ Writing!DeliveryFails
  <2>1. /\ UNCHANGED <<Writing!files, Writing!rest, outcome, written, told, exit>> /\ stage # "ended"
        /\ stage' \in {"tell", "undelivered", "cleanup", "replace"}
    BY <1>4 DEF Writing!NoReport, Writing!CreateFails, Writing!Check, Writing!Flush, Writing!DeliveryFails, Writing!To
  <2>2. QED
    BY <1>0, <2>1, TypedWithoutFiles DEF Writing!Stages
<1>5. CASE Writing!Undelivered \/ Writing!Tell
  <2>1. /\ UNCHANGED <<Writing!files, Writing!rest, outcome, written>>
        /\ stage' = "ended" /\ exit' \in {0, 1, 2}
    BY <1>5 DEF Writing!Undelivered, Writing!Tell, Writing!Exit
  <2>2. told' \in BOOLEAN \cup {None}
    BY <1>0, <1>5 DEF Writing!Undelivered, Writing!Tell, Writing!Committed
  <2>3. QED
    BY <1>0, <2>1, <2>2, TypedWithoutFiles
<1>6. CASE Writing!Create \/ Writing!Fill \/ Writing!Replace \/ Writing!Cleanup
  <2>1. /\ UNCHANGED <<options, moves, outcome, written, told, exit>> /\ stage # "ended"
        /\ stage' \in {"fill", "check", "flush", "undelivered"}
    BY <1>6 DEF Writing!Create, Writing!Fill, Writing!Replace, Writing!Cleanup, Writing!To, Writing!rest
  <2>2. exit' = None /\ moves' \in 0 .. MaxMoves
    BY <2>1 DEF Writing!TypeOK
  <2>3. stage = "replace" => temporary = "whole"
    BY DEF WritingInv, Delivering, ReportAt
  <2>4. /\ target' \in {"absent", "file", "other", "part", "whole"}
        /\ temporary' \in {None, "part", "whole"} /\ delivered' \in {None, "part", "whole"}
    BY <1>6, <2>3 DEF Writing!TypeOK, Writing!Create, Writing!Fill, Writing!Replace, Writing!Cleanup
  <2>5. QED
    BY <1>0, <2>1, <2>2, <2>4, WritingTyped DEF Writing!Stages
<1>7. QED
  BY <1>1, <1>2, <1>3, <1>4, <1>5, <1>6 DEF Writing!Step

LEMMA AnswerTyped ==
  ASSUME Writing!WriteAssumption, Writing!TypeOK, NEW ended, NEW some,
         Writing!Parsed(ended, some) \/ Writing!Scanned(ended, some) \/ Writing!ParseFails
  PROVE  Writing!TypeOK'
<1>1. outcome \in Outcomes /\ written \in BOOLEAN /\ told \in BOOLEAN \cup {None}
  BY DEF Writing!TypeOK, Outcomes
<1>2. /\ UNCHANGED <<Writing!files, Writing!rest, written, told>>
      /\ outcome' \in {outcome, "refused", "nothing", "failed"}
  BY DEF Writing!Parsed, Writing!Scanned, Writing!ParseFails
<1>3. \/ stage' \in {"open", "write", "report"} /\ exit' = exit /\ stage # "ended"
      \/ stage' = "ended" /\ exit' \in {0, 1, 2}
  BY DEF Writing!Parsed, Writing!Scanned, Writing!ParseFails, Writing!To, Writing!Exit
<1>4. QED
  BY <1>1, <1>2, <1>3, TypedWithoutFiles DEF Writing!Stages, Outcomes

LEMMA OutsideTyped ==
  ASSUME Writing!WriteAssumption, Writing!TypeOK, Writing!Die \/ Writing!Move
  PROVE  Writing!TypeOK'
<1>1. CASE Writing!Die
  <2>1. /\ UNCHANGED <<Writing!files, Writing!rest, outcome, written, told>>
        /\ stage' = "ended" /\ exit' = 137
    BY <1>1 DEF Writing!Die, Writing!Exit
  <2>2. outcome \in Outcomes /\ written \in BOOLEAN /\ told \in BOOLEAN \cup {None}
    BY DEF Writing!TypeOK, Outcomes
  <2>3. QED
    BY <2>1, <2>2, TypedWithoutFiles
<1>2. CASE Writing!Move
  <2>1. moves' \in 0 .. MaxMoves
    BY <1>2 DEF Writing!Move, Writing!TypeOK, Writing!WriteAssumption
  <2>2. QED
    BY <1>2, <2>1 DEF Writing!Move, Writing!TypeOK
<1>3. QED
  BY <1>1, <1>2

LEMMA WritingTypes ==
  ASSUME WritingInv, Writing!TypeOK, [Next]_vars
  PROVE  Writing!TypeOK'
<1>0. Writing!WriteAssumption
  BY CommandsAssumption
<1>1. CASE UNCHANGED writing
  BY <1>1 DEF writing, Writing!TypeOK
<1>2. CASE Command
  BY <1>0, <1>2, StepTyped DEF Command
<1>3. CASE ParseReturns \/ ParseRaises \/ ScanReturns
  <2>1. \E ended, some : Writing!Parsed(ended, some) \/ Writing!Scanned(ended, some) \/ Writing!ParseFails
    BY <1>3 DEF ParseReturns, ParseRaises, ScanReturns
  <2>2. QED
    BY <1>0, <2>1, AnswerTyped
<1>4. CASE UserMoves \/ Killed
  BY <1>0, <1>4, OutsideTyped DEF UserMoves, Killed
<1>5. QED
  BY <1>1, <1>2, <1>3, <1>4
     DEF Next, vars, Own, Recall, Doctor, Parse, Scan, OthersCommit, OthersWrite, UserEdits
-----------------------------------------------------------------------------
\* Fewer concepts are accepted than were read, and an issue is at a place of the
\* request.
RequestBounds ==
  /\ Len(accepted) < seat
  /\ \A i \in issues : i[1] \in 0 .. Len(document.concepts)

LEMMA RequestBoundsStart ==
  ASSUME NEW d \in Request!Documents
  PROVE  Len(d.concepts) \in Nat /\ DOMAIN d.concepts = 1 .. Len(d.concepts)
<1>1. d.concepts \in Seq(Request!Concept \cup {NotText})
  BY DEF Request!Documents
<1>2. QED
  BY <1>1

LEMMA ReadConceptBounds ==
  ASSUME RequestInv, RequestBounds, Request!ReadConcept
  PROVE  RequestBounds'
<1> DEFINE own == Request!ConceptIssues(document.concepts[seat])
           twice == own = {} /\ Request!Canonical(document.concepts[seat]) \in Request!Range(canonical)
<1>1. /\ document' = document /\ seat' = seat + 1 /\ seat <= Len(document.concepts)
      /\ issues' = issues \cup {<<seat, i>> : i \in own} \cup Request!If(twice, <<seat, "concept twice">>)
      /\ accepted' = accepted \/ accepted' = Append(accepted, seat)
  BY DEF Request!ReadConcept
<1> HIDE DEF own, twice
<1>2. Len(document.concepts) \in Nat /\ seat \in 1 .. Len(document.concepts) + 1 /\ accepted \in Seq(Nat)
  BY RequestBoundsStart DEF RequestInv, RequestTypes
<1>3. Len(accepted') < seat'
  <2>1. Len(accepted) \in Nat /\ seat \in Nat /\ Len(accepted) < seat
    BY <1>2 DEF RequestBounds
  <2>2. Len(accepted') \in {Len(accepted), Len(accepted) + 1}
    <3>1. \A s \in Seq(Nat), x \in Nat : Len(Append(s, x)) = Len(s) + 1
      OBVIOUS
    <3>2. seat \in Nat
      BY <1>2
    <3>3. QED
      BY <1>1, <1>2, <3>1, <3>2
  <2>3. PICK a, b, c : a = Len(accepted) /\ b = Len(accepted') /\ c = seat
    OBVIOUS
  <2>4. a \in Nat /\ c \in Nat /\ a < c /\ b \in {a, a + 1}
    BY <2>1, <2>2, <2>3
  <2>5. b < c + 1
    BY <2>4
  <2>6. QED
    BY <1>1, <2>3, <2>5
<1>4. ASSUME NEW x \in issues' PROVE x[1] \in 0 .. Len(document.concepts)
  <2>1. x \in issues \/ (\E i \in own : x = <<seat, i>>) \/ x = <<seat, "concept twice">>
    BY <1>1, <1>4 DEF Request!If
  <2>2. \A i : <<seat, i>>[1] = seat
    OBVIOUS
  <2>3. x \in issues \/ x[1] = seat
    BY <2>1, <2>2
  <2>4. seat \in 0 .. Len(document.concepts)
    <3>1. PICK m : m = Len(document.concepts)
      OBVIOUS
    <3>2. m \in Nat /\ seat \in 1 .. m + 1 /\ seat <= m
      BY <1>1, <1>2, <3>1
    <3>3. seat \in 0 .. m
      BY <3>2
    <3>4. QED
      BY <3>1, <3>3
  <2>5. QED
    BY <2>3, <2>4 DEF RequestBounds
<1>5. QED
  BY <1>1, <1>3, <1>4 DEF RequestBounds

LEMMA EnvelopeBounds ==
  ASSUME RequestInv, RequestBounds, Request!Envelope
  PROVE  RequestBounds'
<1>1. /\ UNCHANGED <<document, seat, accepted>>
      /\ \A x \in issues' : x[1] = 0
  <2>1. UNCHANGED <<document, seat, accepted>>
    BY DEF Request!Envelope
  <2> DEFINE extra == Request!If(document.fields # "exact", <<0, "request fields">>)
             quotes == {<<0, i>> : i \in Request!QuotesIssues(document.quotes)}
             many == Request!If(Len(document.concepts) > MaxConcepts, <<0, "many concepts">>)
  <2>2. issues' \subseteq {<<0, document.form>>} \cup extra \cup quotes \cup many
    <3>1. issues = {}
      BY DEF Request!Envelope, RequestInv, ReadingInv
    <3>2. QED
      BY <3>1 DEF Request!Envelope
  <2>0. \A i : <<0, i>>[1] = 0
    OBVIOUS
  <2>3. (\A x \in extra : x[1] = 0) /\ (\A x \in quotes : x[1] = 0) /\ (\A x \in many : x[1] = 0)
    <3>1. /\ \A x \in extra : x = <<0, "request fields">>
          /\ \A x \in many : x = <<0, "many concepts">>
      BY DEF Request!If
    <3>2. \A x \in quotes : \E i : x = <<0, i>>
      OBVIOUS
    <3>3. QED
      BY <2>0, <3>1, <3>2
  <2> HIDE DEF extra, quotes, many
  <2>4. <<0, document.form>>[1] = 0
    BY <2>0
  <2>5. QED
    BY <2>1, <2>2, <2>3, <2>4
<1>2. Len(document.concepts) \in Nat
  BY RequestBoundsStart DEF RequestInv, RequestTypes
<1>3. QED
  BY <1>1, <1>2 DEF RequestBounds

LEMMA RequestBoundsInit == Init => RequestBounds
BY DEF Init, Request!InitWith, RequestBounds

LEMMA RequestBoundsKeep ==
  ASSUME RequestInv, RequestBounds, [Next]_vars
  PROVE  RequestBounds'
<1>1. CASE UNCHANGED request
  BY <1>1 DEF request, RequestBounds
<1>2. CASE Parse
  <2>1. CASE Request!Finish \/ Request!Overflow
    BY <2>1 DEF Request!Finish, Request!Overflow, RequestBounds
  <2>2. QED
    BY <1>2, <2>1, EnvelopeBounds, ReadConceptBounds DEF Parse, Request!Next
<1>3. CASE ForgetRequest
  BY <1>3 DEF ForgetRequest, RequestBounds
<1>4. QED
  BY <1>1, <1>2, <1>3
     DEF Next, vars, Own, Recall, Command, Doctor, ParseReturns, ParseRaises, Scan, ScanReturns,
         OthersCommit, OthersWrite, UserEdits, UserMoves, Killed

-----------------------------------------------------------------------------
(* The sidecar, the scan and recall keep the rest of their types, too.      *)

LEMMA SidecarBoundsInit == Init => Sidecars!Bounds
<1> SUFFICES ASSUME Init PROVE Sidecars!Bounds
  OBVIOUS
<1> DEFINE met == Only("doctor", Versions, CHOOSE v \in Versions : TRUE)
<1>1. met \in SUBSET (46 .. 48)
  BY CommandsAssumption DEF Only
<1>2. Store!InitWith(met)
  BY DEF Init
<1>3. Sidecars!InitWith(met)
  BY <1>2 DEF Store!InitWith, Sidecars!InitWith, Store!Fresh, Sidecars!Fresh, Store!Idle,
     Sidecars!Idle, Store!Resting, Sidecars!Resting
<1>4. QED
  BY <1>1, <1>3, Sidecars!BoundsInit, SidecarAssumed

LEMMA SidecarBoundsKeep ==
  ASSUME SidecarInv, Sidecars!Bounds, [Next]_vars
  PROVE  Sidecars!Bounds'
<1>0. Sidecars!SidecarAssumption /\ Sidecars!Inv
  BY SidecarAssumed DEF SidecarInv
<1>1. CASE UNCHANGED <<stores, outside>>
  BY <1>1 DEF Sidecars!Bounds, Sidecars!Db, Sidecars!Rows, Sidecars!RowIds, Sidecars!Clock, Sidecars!Payload
<1>2. CASE Doctor
  <2>1. UNCHANGED <<stores, outside>>
    BY <1>2 DEF Doctor, Store!Consult, Store!Inspect, Store!InspectClock, Store!ReadRoots, Store!ReadIndex,
       Store!PickTerm, Store!Control
  <2>2. QED
    BY <1>1, <2>1
<1>3. CASE OthersWrite
  BY <1>0, <1>3, SameWrite, SameOthers, Sidecars!WriteBounds, Sidecars!OthersBounds DEF OthersWrite
<1>4. QED
  BY <1>1, <1>2, <1>3
     DEF Next, vars, sidecar, Own, Recall, Command, Parse, ParseReturns, ParseRaises, Scan, ScanReturns,
         OthersCommit, UserEdits, UserMoves, Killed

LEMMA LayoutsAssumed == \A t \in Trees : Scans!Layout(t)
BY CommandsAssumption DEF Scans!Layout, Scans!Things, Tree!Things, Scans!Documents, Tree!Documents

LEMMA TreeBegins == Init => Scans!TreeInv
<1> SUFFICES ASSUME Init PROVE Scans!TreeInv
  OBVIOUS
<1> DEFINE trees == Only("import", Trees, EmptyTree)
<1>1. Tree!InitWith(trees) /\ \A t \in trees : Scans!Layout(t)
  BY LayoutsAssumed, CommandsAssumption DEF Init, Only
<1> HIDE DEF trees
<1>2. Scans!InitWith(trees)
  BY <1>1 DEF Tree!InitWith, Scans!InitWith, Tree!CounterNames, Scans!CounterNames
<1>3. QED
  BY <1>1, <1>2, ScanAssumed, Scans!TreeInit

LEMMA TreeStep ==
  ASSUME Scans!Inv, Scans!TreeInv, [Next]_vars
  PROVE  Scans!TreeInv'
<1>1. CASE UNCHANGED scan
  BY <1>1, Scans!TreeUntouched DEF scan, Scans!vars
<1>2. CASE Scan
  BY <1>2, SameWalk, SameRead, ScanAssumed, Scans!TreeKeeps DEF Scan, Tree!Scan, Scans!Scan
<1>3. CASE ForgetScan
  <2>1. Scans!Layout(EmptyTree)
    BY LayoutsAssumed, CommandsAssumption
  <2>2. /\ tree' = EmptyTree /\ at' = "list" /\ unsafe' = {} /\ found' = {} /\ read' = <<>>
        /\ counters' = [n \in Scans!CounterNames |-> 0] /\ edits' = 0
    BY <1>3 DEF ForgetScan, Tree!CounterNames, Scans!CounterNames
  <2>3. QED
    BY <2>1, <2>2, ScanAssumed, Scans!TreeForgotten
<1>4. CASE UserEdits
  BY <1>4, SameChange, ScanAssumed, Scans!TreeChangeKeeps DEF UserEdits
<1>5. QED
  BY <1>1, <1>2, <1>3, <1>4
     DEF Next, vars, Own, Recall, Doctor, Command, Parse, ParseReturns, ParseRaises, ScanReturns,
         OthersCommit, OthersWrite, UserMoves, Killed

LEMMA RecallBoundsInit == Init => Recalls!Bounds
<1> SUFFICES ASSUME Init PROVE Recalls!Bounds
  OBVIOUS
<1> DEFINE held == IF command = "recall" THEN Recallable ELSE {CHOOSE s \in Recallable : TRUE}
           asked == IF command = "recall" THEN Questions ELSE {CHOOSE q \in Questions : TRUE}
<1>1. Asking!InitWith(held, asked)
  BY DEF Init
<1> HIDE DEF held, asked
<1>2. Recalls!InitWith(held, asked)
  BY <1>1 DEF Asking!InitWith, Recalls!InitWith
<1>3. QED
  BY <1>2, RecallAssumed, Recalls!BoundsInit

LEMMA RecallBoundsKeep ==
  ASSUME Recalls!RecallInv, Recalls!Bounds, [Next]_vars
  PROVE  Recalls!Bounds'
<1>1. CASE Recall \/ OthersCommit
  <2>1. Recalls!Work \/ Recalls!Hide \/ Recalls!Record
    BY <1>1, SameWork, SameCommits DEF Recall, OthersCommit
  <2>2. QED
    BY <2>1, RecallAssumed, Recalls!BoundsKeep
<1>2. CASE UNCHANGED asking
  <2>1. UNCHANGED Recalls!vars
    BY <1>2 DEF asking, Recalls!vars
  <2>2. QED
    BY <2>1, Recalls!BoundsStutter
<1>3. QED
  BY <1>1, <1>2
     DEF Next, vars, Own, Doctor, Command, Parse, ParseReturns, ParseRaises, Scan, ScanReturns,
         OthersWrite, UserEdits, UserMoves, Killed

-----------------------------------------------------------------------------
Invariants == SidecarInv /\ Scans!Inv /\ Recalls!RecallInv /\ RequestInv /\ WritingInv
RestOfTypes == Sidecars!Bounds /\ Scans!TreeInv /\ Recalls!Bounds /\ RequestBounds /\ Writing!TypeOK

LEMMA WritingTypesInit == Init => Writing!TypeOK
<1> SUFFICES ASSUME Init PROVE Writing!TypeOK
  OBVIOUS
<1> DEFINE asked == IF command = "import" THEN Options ELSE {[dryRun |-> FALSE, report |-> FALSE]}
<1>1. asked \in SUBSET [dryRun : BOOLEAN, report : BOOLEAN]
  BY CommandsAssumption
<1>2. Writing!InitWith(asked) /\ Writing!WriteAssumption
  BY CommandsAssumption DEF Init
<1> HIDE DEF asked
<1>3. /\ options \in [dryRun : BOOLEAN, report : BOOLEAN]
      /\ stage = "start" /\ outcome = None /\ written = FALSE /\ temporary = None /\ delivered = None
      /\ told = None /\ exit = None /\ moves = 0
  BY <1>1, <1>2 DEF Writing!InitWith
<1>4. target \in {"absent", "file", "other"}
  BY <1>2 DEF Writing!InitWith
<1>5. moves \in 0 .. MaxMoves
  BY <1>2, <1>3 DEF Writing!WriteAssumption
<1>6. QED
  BY <1>3, <1>4, <1>5 DEF Writing!TypeOK, Writing!Stages

LEMMA InvariantsInit == Init => Invariants /\ RestOfTypes
BY SidecarInit, ScanBegins, RecallBegins, RequestInit, WritingInit, SidecarBoundsInit, TreeBegins,
   RecallBoundsInit, RequestBoundsInit, WritingTypesInit DEF Invariants, RestOfTypes

LEMMA InvariantsStep ==
  ASSUME Invariants, RestOfTypes, [Next]_vars
  PROVE  Invariants' /\ RestOfTypes'
<1>1. SidecarInv' /\ Scans!Inv' /\ Recalls!RecallInv' /\ RequestInv' /\ WritingInv'
  BY SidecarStep, ScanStep, RecallTakesStep, RequestStep, WritingStep DEF Invariants
<1>2. Sidecars!Bounds' /\ Scans!TreeInv' /\ Recalls!Bounds' /\ RequestBounds' /\ Writing!TypeOK'
  BY SidecarBoundsKeep, TreeStep, RecallBoundsKeep, RequestBoundsKeep, WritingTypes
     DEF Invariants, RestOfTypes
<1>3. QED
  BY <1>1, <1>2 DEF Invariants, RestOfTypes

\* Every variable of every part stays what the code can hold in it: an offset
\* within the ranking, a counter within the entries, at most k results and each
\* once, an exit code when and only when the command has ended.
THEOREM CommandTypes == Spec => []TypeOK
<1>1. ASSUME Invariants, RestOfTypes PROVE TypeOK
  <2>1. Store!TypeOK
    <3>1. Sidecars!TypeOK
      BY <1>1, SidecarAssumed, Sidecars!SidecarTypes DEF Invariants, RestOfTypes, SidecarInv
    <3>2. QED
      BY <3>1 DEF Sidecars!TypeOK, Store!TypeOK, Sidecars!Db, Store!Db, Sidecars!Rows, Store!Rows,
         Sidecars!RowIds, Store!RowIds, Sidecars!Clock, Store!Clock, Sidecars!Payload, Store!Payload
  <2>2. Tree!TypeOK
    <3>1. Scans!TypeOK
      BY <1>1, ScanAssumed, Scans!ScanTypes DEF Invariants, RestOfTypes
    <3>2. QED
      BY <3>1 DEF Scans!TypeOK, Tree!TypeOK, Scans!Things, Tree!Things, Scans!Documents, Tree!Documents,
         Scans!CounterNames, Tree!CounterNames, Scans!Cardinality, Tree!Cardinality, Scans!Range, Tree!Range,
         Scans!Files, Tree!Files
  <2>3. Asking!TypeOK
    <3>1. Recalls!TypeOK
      BY <1>1, RecallAssumed, Recalls!RecallIsTyped DEF Invariants, RestOfTypes
    <3>2. QED
      BY <3>1, SameHoldings DEF Recalls!TypeOK, Asking!TypeOK, Recalls!Orders, Asking!Orders,
         Recalls!IsInjective, Asking!IsInjective, Recalls!Cardinality, Asking!Cardinality
  <2>4. Request!TypeOK
    <3>1. Len(accepted) = Len(canonical) /\ reading \in {"envelope", "concepts", "read", "raised"}
          /\ seat \in 1 .. Len(document.concepts) + 1
      BY <1>1 DEF Invariants, RequestInv, RequestTypes
    <3>2. QED
      BY <1>1, <3>1 DEF RestOfTypes, RequestBounds, Request!TypeOK
  <2>5. QED
    BY <1>1, <2>1, <2>2, <2>3, <2>4 DEF RestOfTypes, TypeOK
<1>2. QED
  BY <1>1, InvariantsInit, InvariantsStep, PTL DEF Spec
=============================================================================
