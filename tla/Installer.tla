------------------------------ MODULE Installer ------------------------------
(***************************************************************************)
(* Installation of the skill into the hub and into the harnesses' own      *)
(* directories: installer.py.  A command works through its targets one     *)
(* file system call at a time and may be killed between any two; what it   *)
(* leaves behind is what the next command finds.                           *)
(***************************************************************************)
EXTENDS Naturals, Sequences, Functions

CONSTANTS
  Harnesses,   \* sequence: the harnesses that do not read the hub, in order
  Aliased,     \* those whose skills directory is a link to the hub's
  Files,       \* the files of the skill
  MaxVersion,  \* bound: releases of the package
  MaxMoves     \* bound: moves of the user

Hub == "hub"
Places == {Hub} \cup (Range(Harnesses) \ Aliased)
PlaceOf(h) == IF h \in Aliased THEN Hub ELSE h
Versions == 1 .. MaxVersion

ASSUME InstallerAssumption ==
  /\ Harnesses \in Seq(Range(Harnesses)) /\ Hub \notin Range(Harnesses)
  /\ Aliased \subseteq Range(Harnesses)
  /\ Files # {}   \* a source without SKILL.md is refused
  /\ MaxVersion \in Nat \ {0} /\ MaxMoves \in Nat

\* What is under a path: nothing, a file, a link (to the hub or elsewhere), or a
\* directory with a copy of some files, a marker, and something of the user's.
\* marker is the presence of the exact OWNERSHIP_MARKER_BYTES: an empty one is none.
Entry ==
  [kind : {"none", "file", "link", "dir"}, toHub : BOOLEAN,
   files : [Files -> 0 .. MaxVersion], marker : BOOLEAN, mine : BOOLEAN]
Absent == [f \in Files |-> 0]
Made(kind, toHub) ==
  [kind |-> kind, toHub |-> toHub, files |-> Absent, marker |-> FALSE, mine |-> FALSE]
None == Made("none", FALSE)
HubLink == Made("link", TRUE)
EmptyDir == Made("dir", FALSE)

VARIABLES
  place,    \* [Places -> Entry]
  version,  \* the package's release
  cmd,      \* the command under way
  moves,    \* moves of the user so far
  owned     \* history: the places with a valid marker when the command began

vars == <<place, version, cmd, moves, owned>>

\* todo: the positions in Harnesses of the targets still to come.
Command ==
  [op : {"none", "install", "uninstall"}, copy : BOOLEAN, force : BOOLEAN, asked : BOOLEAN,
   removeHub : BOOLEAN,
   pc : {"idle", "target", "tree", "marker", "link", "remove", "hub", "done"},
   todo : SUBSET DOMAIN Harnesses, at : Places, left : SUBSET Files,
   selected : SUBSET Range(Harnesses), conflicts : SUBSET Places]
NoCommand ==
  [op |-> "none", copy |-> FALSE, force |-> FALSE, asked |-> FALSE,
   removeHub |-> FALSE, pc |-> "idle",
   todo |-> {}, at |-> Hub, left |-> {}, selected |-> {}, conflicts |-> {}]

Has(x) == place[x].kind # "none"
Owned(x) == place[x].kind = "dir" /\ place[x].marker
Do(c) == cmd' = c /\ UNCHANGED <<version, moves, owned>>
Put(x, e) == place' = [place EXCEPT ![x] = e]

\* On to the next target, or the end of the command.
First(S) == CHOOSE i \in S : \A j \in S : i <= j
Onward(c) ==
  IF c.todo = {} THEN [c EXCEPT !.pc = IF c.removeHub THEN "hub" ELSE "done"]
  ELSE [c EXCEPT !.pc = "target", !.at = PlaceOf(Harnesses[First(c.todo)]),
          !.todo = @ \ {First(c.todo)}]

Conflict(c, x) == [c EXCEPT !.conflicts = @ \cup {x}]
-----------------------------------------------------------------------------
Start(c) ==
  /\ cmd.pc \in {"idle", "done"}
  /\ owned' = {x \in Places : Owned(x)}
  /\ cmd' = c
  /\ UNCHANGED <<place, version, moves>>

Selected(S) == {i \in DOMAIN Harnesses : Harnesses[i] \in S}

\* An unowned hub ends the command before anything is written.
BeginInstall(S, copy, force) ==
  LET c == [NoCommand EXCEPT !.op = "install", !.copy = copy, !.force = force,
              !.selected = S, !.todo = Selected(S)]
  IN /\ force => copy
     /\ Start(IF Has(Hub) /\ ~Owned(Hub)
              THEN [Conflict(c, Hub) EXCEPT !.pc = "done"]
              ELSE [c EXCEPT !.pc = "tree", !.left = Files])

BeginUninstall(S, removeHub) ==
  Start(Onward([NoCommand EXCEPT !.op = "uninstall", !.asked = removeHub,
                  !.removeHub = removeHub, !.selected = S, !.todo = Selected(S)]))

\* _install_tree: mkdir, then file after file (each by a temporary file and a
\* rename); files of an earlier release that are no longer shipped stay.
InstallFile(f) ==
  LET e == IF Has(cmd.at) THEN place[cmd.at] ELSE EmptyDir IN
  /\ cmd.pc = "tree" /\ f \in cmd.left
  /\ Put(cmd.at, [e EXCEPT !.files[f] = version])
  /\ Do([cmd EXCEPT !.left = @ \ {f}])

\* Mutant of TruncateMarker: it does not wait for the last file.
MarkFirst ==
  /\ cmd.pc = "tree" /\ Has(cmd.at)
  /\ Put(cmd.at, [place[cmd.at] EXCEPT !.marker = FALSE])
  /\ Do([cmd EXCEPT !.pc = "marker"])

\* write_bytes, in place: the marker that is there is emptied, then written.
TruncateMarker ==
  /\ cmd.pc = "tree" /\ cmd.left = {}
  /\ Put(cmd.at, [place[cmd.at] EXCEPT !.marker = FALSE])
  /\ Do([cmd EXCEPT !.pc = "marker"])

WriteMarker ==
  /\ cmd.pc = "marker"
  /\ Put(cmd.at, [place[cmd.at] EXCEPT !.marker = TRUE])
  /\ Do(Onward(cmd))

Skip(c) == Do(Onward(c)) /\ UNCHANGED place

\* Mutant of CopyTarget: force copies over the target without removing it.
CopyOver ==
  /\ cmd.pc = "target" /\ cmd.op = "install" /\ cmd.copy
  /\ \/ Has(cmd.at) /\ ~cmd.force /\ Skip(Conflict(cmd, cmd.at))
     \/ (~Has(cmd.at) \/ cmd.force)
        /\ Do([cmd EXCEPT !.pc = "tree", !.left = Files]) /\ UNCHANGED place

\* Copy mode: an existing target is a conflict, or, by force, replaced.
CopyTarget ==
  /\ cmd.pc = "target" /\ cmd.op = "install" /\ cmd.copy
  /\ \/ Has(cmd.at) /\ ~cmd.force /\ Skip(Conflict(cmd, cmd.at))
     \/ Has(cmd.at) /\ cmd.force /\ Do([cmd EXCEPT !.pc = "remove"]) /\ UNCHANGED place
     \/ ~Has(cmd.at) /\ Do([cmd EXCEPT !.pc = "tree", !.left = Files]) /\ UNCHANGED place

\* Mutant of LinkTarget: every link is repointed, the correct one too.
RelinkTarget ==
  /\ cmd.pc = "target" /\ cmd.op = "install" /\ ~cmd.copy
  /\ IF place[cmd.at].kind = "link"
     THEN Put(cmd.at, None) /\ Do([cmd EXCEPT !.pc = "link"])
     ELSE IF Has(cmd.at) THEN Skip(Conflict(cmd, cmd.at))
     ELSE Do([cmd EXCEPT !.pc = "link"]) /\ UNCHANGED place

\* Link mode: a link elsewhere is removed, to be made again.
LinkTarget ==
  /\ cmd.pc = "target" /\ cmd.op = "install" /\ ~cmd.copy
  /\ IF place[cmd.at].kind = "link"
     THEN IF place[cmd.at].toHub THEN Skip(cmd)
          ELSE Put(cmd.at, None) /\ Do([cmd EXCEPT !.pc = "link"])
     ELSE IF Has(cmd.at) THEN Skip(Conflict(cmd, cmd.at))
     ELSE Do([cmd EXCEPT !.pc = "link"]) /\ UNCHANGED place

MakeLink == cmd.pc = "link" /\ Put(cmd.at, HubLink) /\ Do(Onward(cmd))

\* Mutant of RemoveTarget: the marker is not asked for.
RemoveAnyTarget ==
  /\ cmd.pc = "target" /\ cmd.op = "uninstall"
  /\ IF place[cmd.at].kind = "link"
     THEN IF place[cmd.at].toHub THEN Put(cmd.at, None) /\ Do(Onward(cmd))
          ELSE Skip(Conflict(cmd, cmd.at))
     ELSE IF place[cmd.at].kind = "dir" THEN Do([cmd EXCEPT !.pc = "remove"]) /\ UNCHANGED place
     ELSE IF Has(cmd.at) THEN Skip(Conflict(cmd, cmd.at)) ELSE Skip(cmd)

\* uninstall_skill: only a link to the hub, or a directory with the marker.
RemoveTarget ==
  /\ cmd.pc = "target" /\ cmd.op = "uninstall"
  /\ IF place[cmd.at].kind = "link"
     THEN IF place[cmd.at].toHub THEN Put(cmd.at, None) /\ Do(Onward(cmd))
          ELSE Skip(Conflict(cmd, cmd.at))
     ELSE IF Owned(cmd.at) THEN Do([cmd EXCEPT !.pc = "remove"]) /\ UNCHANGED place
     ELSE IF Has(cmd.at) THEN Skip(Conflict(cmd, cmd.at)) ELSE Skip(cmd)

RemoveHub ==
  /\ cmd.pc = "hub"
  /\ LET c == [cmd EXCEPT !.removeHub = FALSE, !.at = Hub] IN
     IF Owned(Hub) THEN Do([c EXCEPT !.pc = "remove"]) /\ UNCHANGED place
     ELSE IF Has(Hub) THEN Skip(Conflict(c, Hub)) ELSE Skip(c)

\* unlink, or rmtree: entry by entry, in no particular order, then the directory.
Remove ==
  LET e == place[cmd.at]
      empty == e.kind # "dir" \/ (e.files = Absent /\ ~e.marker /\ ~e.mine)
  IN
  /\ cmd.pc = "remove"
  /\ \/ ~empty /\ \E f \in Files : e.files[f] # 0 /\ Put(cmd.at, [e EXCEPT !.files[f] = 0])
                  /\ Do(cmd)
     \/ ~empty /\ e.marker /\ Put(cmd.at, [e EXCEPT !.marker = FALSE]) /\ Do(cmd)
     \/ ~empty /\ e.mine /\ Put(cmd.at, [e EXCEPT !.mine = FALSE]) /\ Do(cmd)
     \/ empty /\ Put(cmd.at, None)
              /\ Do(IF cmd.op = "install" THEN [cmd EXCEPT !.pc = "tree", !.left = Files]
                    ELSE Onward(cmd))

\* The command is killed, or an OSError ends it: nothing is undone.
Die ==
  /\ cmd.pc \notin {"idle", "done"}
  /\ cmd' = NoCommand
  /\ UNCHANGED <<place, version, moves, owned>>
-----------------------------------------------------------------------------
(* Between two commands: a new release, and the user.                      *)

Rest == cmd.pc \in {"idle", "done"} /\ cmd' = NoCommand /\ UNCHANGED owned

Release == Rest /\ version < MaxVersion /\ version' = version + 1 /\ UNCHANGED <<place, moves>>

UserMove(x) ==
  /\ Rest /\ moves < MaxMoves /\ moves' = moves + 1
  /\ \/ ~Has(x) /\ \E e \in {[EmptyDir EXCEPT !.mine = TRUE], HubLink,
                             [None EXCEPT !.kind = "file", !.mine = TRUE],
                             [None EXCEPT !.kind = "link", !.mine = TRUE]} :
                     Put(x, IF x = Hub THEN [e EXCEPT !.toHub = FALSE, !.mine = TRUE] ELSE e)
     \/ place[x].kind = "dir" /\ Put(x, [place[x] EXCEPT !.mine = TRUE])
     \/ place[x].kind = "dir" /\ Put(x, [place[x] EXCEPT !.marker = FALSE])
  /\ UNCHANGED version
-----------------------------------------------------------------------------
Init ==
  /\ place = [x \in Places |-> None] /\ version = 1 /\ cmd = NoCommand
  /\ moves = 0 /\ owned = {}

Begin ==
  \E S \in SUBSET Range(Harnesses), a, b \in BOOLEAN :
    BeginInstall(S, a, b) \/ BeginUninstall(S, a)

Work ==
  \/ \E f \in Files : InstallFile(f)
  \/ TruncateMarker \/ WriteMarker \/ CopyTarget \/ LinkTarget \/ MakeLink
  \/ RemoveTarget \/ RemoveHub \/ Remove

Next == Begin \/ Work \/ Die \/ Release \/ \E x \in Places : UserMove(x)

Spec == Init /\ [][Next]_vars
-----------------------------------------------------------------------------
Complete(e) == e.kind = "dir" /\ e.marker /\ \A f \in Files : e.files[f] = version

\* Every variable has its type, and only directories hold files and a marker: no
\* command writes through a link or over a file.
TypeOK ==
  /\ place \in [Places -> Entry]
  /\ \A x \in Places : place[x].kind # "dir" => place[x].files = Absent /\ ~place[x].marker
  /\ version \in Versions /\ moves \in 0 .. MaxMoves
  /\ cmd \in Command /\ owned \subseteq Places

\* What the user put under a name the installer never marked is destroyed only by
\* an explicit force on that target, or when a link elsewhere is repointed: also
\* after commands that died half way, whose remains the installer does not know.
UnownedPreserved ==
  [][\A x \in Places :
       place[x].mine /\ ~place'[x].mine /\ x \notin owned =>
         /\ cmd.op = "install" /\ x = cmd.at
         /\ cmd.force \/ place[x].kind = "link"]_vars

\* An install that reports no conflict has installed: the hub is complete at the
\* current release, and each selected harness reaches it or has a complete copy.
InstallIsComplete ==
  cmd.pc = "done" /\ cmd.op = "install" /\ cmd.conflicts = {} =>
    /\ Complete(place[Hub])
    /\ \A h \in cmd.selected : \/ PlaceOf(h) = Hub
                               \/ place[h] = HubLink /\ ~cmd.copy
                               \/ Complete(place[h]) /\ cmd.copy

\* Installing again is idempotent: with the hub's files current and the links right,
\* no step of a linking install changes anything, even in passing, but the hub's
\* marker, which is written again.
Idempotent ==
  [][cmd.op = "install" /\ ~cmd.copy /\ cmd.pc \notin {"idle", "done"}
       /\ place[Hub].kind = "dir" /\ (\A f \in Files : place[Hub].files[f] = version)
       /\ (\A h \in cmd.selected : PlaceOf(h) # Hub => place[h] = HubLink)
     => /\ \A x \in Places \ {Hub} : place'[x] = place[x]
        /\ place'[Hub] = [place[Hub] EXCEPT !.marker = place'[Hub].marker]]_vars

\* A directory of the installer carries the marker: at rest, whatever died before.
OwnedDirectoriesAreMarked ==
  \A x \in Places :
    cmd.pc \in {"idle", "done"} /\ moves = 0 /\ place[x].kind = "dir" => place[x].marker

\* Uninstalling the harnesses leaves the hub alone unless its removal is asked for.
HubStays ==
  [][cmd.op = "uninstall" /\ cmd.pc # "done" /\ ~cmd.asked
     => place'[Hub] = place[Hub]]_vars
=============================================================================
