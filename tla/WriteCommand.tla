---------------------------- MODULE WriteCommand ----------------------------
(***************************************************************************)
(* cli.py: one command that writes concepts, from its arguments to its     *)
(* exit code.  What parser, scan and store answer comes from outside (see  *)
(* Commands and ConceptStore); here is what the command makes of it, and   *)
(* the delivery of an import's report next to whatever the user does to    *)
(* the report's target.  Every system call may fail, and the process may   *)
(* be killed anywhere.                                                     *)
(***************************************************************************)
EXTENDS Naturals

CONSTANTS
  None,
  MaxMoves   \* bound: moves of the user

VARIABLES
  command,   \* "winddown", "bind", "transition" or "import"
  options,   \* [dryRun, report]: --dry-run, and a --report other than "-"
  stage,     \* where the command is
  outcome,   \* what the service returned
  written,   \* a transaction with this command's concepts was committed
  target,    \* the report's target: "absent", "file", "other" or a report
  temporary, \* the private file beside it
  delivered, \* what the target was replaced with
  told,      \* the "committed" of a report that was not delivered
  exit,      \* the exit code; 137 of a process that was killed
  moves

vars == <<command, options, stage, outcome, written, target, temporary, delivered, told, exit, moves>>

WriteAssumption ==
  /\ None \notin {0, 1, 2, 137} /\ None \notin BOOLEAN /\ None \notin {"part", "whole"}
  /\ MaxMoves \in Nat

Stages == {"start", "parse", "open", "scan", "write", "report", "fill", "check", "replace",
           "flush", "cleanup", "undelivered", "tell", "ended"}

TypeOK ==
  /\ options \in [dryRun : BOOLEAN, report : BOOLEAN]
  /\ stage \in Stages
  /\ outcome \in {None, "done", "nothing", "refused", "failed"}
  /\ written \in BOOLEAN /\ told \in BOOLEAN \cup {None}
  /\ target \in {"absent", "file", "other", "part", "whole"}
  /\ temporary \in {None, "part", "whole"} /\ delivered \in {None, "part", "whole"}
  /\ exit \in {None, 0, 1, 2, 137} /\ (exit # None <=> stage = "ended")
  /\ moves \in 0 .. MaxMoves

InitWith(allOptions) ==
  /\ options \in allOptions
  /\ stage = "start" /\ outcome = None /\ written = FALSE
  /\ target \in IF command = "import" /\ options.report THEN {"absent", "file", "other"} ELSE {"absent"}
  /\ temporary = None /\ delivered = None /\ told = None
  /\ exit = None /\ moves = 0

Parsing == {"winddown", "bind"}

To(s) == stage' = s /\ UNCHANGED exit

Exit(code) == stage' = "ended" /\ exit' = code

files == <<target, temporary, delivered>>
rest == <<command, options, moves>>

-----------------------------------------------------------------------------
\* An input that cannot be read, or that is too large; an unsafe directory.
BadInput ==
  /\ stage = "start" /\ command # "transition"
  /\ Exit(2)
  /\ UNCHANGED <<rest, files, outcome, written, told>>

\* _safe_report_target: no file is opened for an import whose report could
\* not be put where it was asked for.
Start ==
  /\ stage = "start"
  /\ IF command = "import" /\ options.report /\ target = "other"
       THEN Exit(2)
       ELSE To(IF command \in Parsing THEN "parse" ELSE "open")
  /\ UNCHANGED <<rest, files, outcome, written, told>>

\* The parser returned: issues, or concepts, or none.
Parsed(valid, some) ==
  /\ stage = "parse"
  /\ IF ~valid THEN Exit(2) ELSE IF some THEN To("open") ELSE Exit(0)
  /\ outcome' = IF ~valid THEN "refused" ELSE IF some THEN outcome ELSE "nothing"
  /\ UNCHANGED <<rest, files, written, told>>

\* The parser raised.
ParseFails ==
  /\ stage = "parse"
  /\ outcome' = "failed"
  /\ Exit(1)
  /\ UNCHANGED <<rest, files, written, told>>

\* A call that names no actor, reason or concept.
BadCall ==
  /\ stage \in {"parse", "open"}
  /\ IF command = "import" THEN To("report") ELSE Exit(2)
  /\ outcome' = "refused"
  /\ UNCHANGED <<rest, files, written, told>>

\* The scope or the project is unavailable.
ScopeFails ==
  /\ stage = "open"
  /\ outcome' = "refused"
  /\ IF command = "import" THEN To("report") ELSE Exit(2)
  /\ UNCHANGED <<rest, files, written, told>>

\* The database cannot be opened.
OpenFails ==
  /\ stage = "open"
  /\ outcome' = "failed"
  /\ Exit(1)
  /\ UNCHANGED <<rest, files, written, told>>

Open ==
  /\ stage = "open"
  /\ To(IF command = "import" THEN "scan" ELSE "write")
  /\ UNCHANGED <<rest, files, outcome, written, told>>

\* The scan was abandoned, or it found records, or none.
Scanned(ended, some) ==
  /\ stage = "scan"
  /\ IF ~ended THEN Exit(1) ELSE To(IF some THEN "write" ELSE "report")
  /\ outcome' = IF ~ended THEN "failed" ELSE IF some THEN outcome ELSE "nothing"
  /\ UNCHANGED <<rest, files, written, told>>

\* The store refuses a wind-down, a transition or a bind (ConceptStore).
StoreRefuses ==
  /\ stage = "write" /\ command # "import"
  /\ outcome' = "refused"
  /\ Exit(2)
  /\ UNCHANGED <<rest, files, written, told>>

\* A write or the commit fails: everything is rolled back.
WriteFails ==
  /\ stage = "write"
  /\ outcome' = "failed"
  /\ IF command = "import" THEN To("report") ELSE Exit(1)
  /\ UNCHANGED <<rest, files, written, told>>

Write ==
  /\ stage = "write"
  /\ outcome' = "done"
  /\ written' = ~(command = "import" /\ options.dryRun)
  /\ IF command = "import" THEN To("report") ELSE Exit(0)
  /\ UNCHANGED <<rest, files, told>>

-----------------------------------------------------------------------------
(* _write_report_atomic.                                                   *)

NoReport ==
  /\ stage = "report" /\ ~options.report
  /\ To("tell")
  /\ UNCHANGED <<rest, files, outcome, written, told>>

\* A new file under one of sixteen random names.
Create ==
  /\ stage = "report" /\ options.report
  /\ temporary' = "part"
  /\ To("fill")
  /\ UNCHANGED <<rest, target, delivered, outcome, written, told>>

CreateFails ==
  /\ stage = "report" /\ options.report
  /\ To("undelivered")
  /\ UNCHANGED <<rest, files, outcome, written, told>>

\* Write, flush and fsync.
Fill ==
  /\ stage = "fill"
  /\ temporary' = "whole"
  /\ To("check")
  /\ UNCHANGED <<rest, target, delivered, outcome, written, told>>

\* What is there may have changed since the start.
Check ==
  /\ stage = "check"
  /\ To(IF target = "other" THEN "cleanup" ELSE "replace")
  /\ UNCHANGED <<rest, files, outcome, written, told>>

\* os.replace: a link is replaced by the report, a directory makes it fail.
Replace ==
  /\ stage = "replace"
  /\ target' = temporary /\ delivered' = temporary /\ temporary' = None
  /\ To("flush")
  /\ UNCHANGED <<rest, outcome, written, told>>

\* fsync of the parent directory; the report is there even when it fails.
Flush ==
  /\ stage = "flush"
  /\ To("tell") \/ To("undelivered")
  /\ UNCHANGED <<rest, files, outcome, written, told>>

DeliveryFails ==
  /\ stage \in {"fill", "check", "replace"}
  /\ To("cleanup")
  /\ UNCHANGED <<rest, files, outcome, written, told>>

\* The finally clause unlinks the private file; that may fail, too.
Cleanup ==
  /\ stage = "cleanup"
  /\ temporary' \in {None, temporary}
  /\ To("undelivered")
  /\ UNCHANGED <<rest, target, delivered, outcome, written, told>>

\* Mutant of Committed: a refused import is no write failure.
CommittedUnlessFailed == ~options.dryRun /\ outcome # "failed"

\* "committed": no dry run, no write failure, no error of the operation.
Committed == ~options.dryRun /\ outcome # "failed" /\ outcome # "refused"

\* The report was not delivered: its content is told instead.
Undelivered ==
  /\ stage = "undelivered"
  /\ told' = Committed
  /\ Exit(1)
  /\ UNCHANGED <<rest, files, outcome, written>>

Tell ==
  /\ stage = "tell"
  /\ Exit(CASE outcome = "failed" -> 1 [] outcome = "refused" -> 2 [] OTHER -> 0)
  /\ UNCHANGED <<rest, files, outcome, written, told>>

-----------------------------------------------------------------------------
Die ==
  /\ stage # "ended"
  /\ Exit(137)
  /\ UNCHANGED <<rest, files, outcome, written, told>>

\* The user makes, removes or replaces what is at the target.  Nobody looks
\* there between the start and the report: what happens meanwhile is as if it
\* happened at the report.
Move ==
  /\ stage \in {"report", "fill", "check", "replace", "flush"}
  /\ command = "import" /\ options.report /\ moves < MaxMoves
  /\ moves' = moves + 1
  /\ target' \in {"absent", "file", "other"} \ {target}
  /\ UNCHANGED <<command, options, stage, outcome, written, temporary, delivered, told, exit>>

\* What the command does by itself, the parser and the scan apart.
Step ==
  \/ BadInput \/ Start \/ BadCall \/ ScopeFails \/ OpenFails \/ Open
  \/ StoreRefuses \/ WriteFails \/ Write
  \/ NoReport \/ Create \/ CreateFails \/ Fill \/ Check \/ Replace \/ Flush
  \/ DeliveryFails \/ Cleanup \/ Undelivered \/ Tell

-----------------------------------------------------------------------------
(* Properties.                                                             *)

\* The exit code is the truth: 0 means that what was asked is committed (or
\* was a dry run, or nothing), and that the report asked for was delivered
\* whole; 2 means that no concept was written; 1 after a commit comes with a
\* "committed" that says so, and a "committed" never claims what was not
\* written.  A target never holds part of a report, and a command that exits
\* by itself with 0 leaves no private file.
ExitTellsTruth ==
  /\ exit = 0 =>
       /\ outcome \in {"done", "nothing"}
       /\ written <=> (outcome = "done" /\ ~(command = "import" /\ options.dryRun))
       /\ command = "import" /\ options.report => delivered = "whole"
       /\ temporary = None
  /\ exit = 2 => ~written
  /\ exit = 1 /\ written => told = TRUE
  /\ told = TRUE => written \/ outcome = "nothing"
  /\ target # "part"
=============================================================================
