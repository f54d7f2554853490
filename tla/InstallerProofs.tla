--------------------------- MODULE InstallerProofs ---------------------------
(***************************************************************************)
(* Theorems about Installer, for any harnesses, files, releases and moves  *)
(* of the user, and wherever commands die.                                 *)
(***************************************************************************)
EXTENDS Installer, TLAPS, WellFoundedInduction
-----------------------------------------------------------------------------
(* The inductive invariant.                                                *)

\* Only a directory holds anything of the skill, nothing holds nothing, and a link to
\* the hub is no user's.
Good(e) ==
  /\ e.kind # "dir" => e.files = Absent /\ ~e.marker
  /\ e.kind = "none" => ~e.mine
  /\ e.toHub => e.kind = "link" /\ ~e.mine
EntriesInv == \A x \in Places : Good(place[x])

AtRest == cmd.pc \in {"idle", "done"}
Working == cmd.pc \in {"tree", "marker", "remove"}

\* Where a command is tells what it was asked and what it has found: a tree is made
\* of nothing or of a directory, a link where nothing is, and only what is to be
\* replaced by force, or was marked when the command began, is removed.
CommandInv ==
  /\ \A i \in cmd.todo : Harnesses[i] \in cmd.selected
  /\ cmd.at = Hub \/ \E h \in cmd.selected : cmd.at = PlaceOf(h)
  /\ cmd.force => cmd.copy
  /\ cmd.op = "none" => cmd.pc = "idle"
  /\ cmd.removeHub \/ cmd.pc = "hub" => cmd.op = "uninstall"
  /\ cmd.pc = "done" /\ cmd.conflicts = {} => cmd.todo = {}
  /\ cmd.pc = "marker" => cmd.left = {}
  /\ cmd.pc \in {"tree", "marker"} =>
       /\ cmd.op = "install" /\ (cmd.copy \/ cmd.at = Hub)
       /\ place[cmd.at].kind \in {"none", "dir"}
       /\ \A f \in Files \ cmd.left : place[cmd.at].kind = "dir" /\ place[cmd.at].files[f] = version
  /\ cmd.pc = "link" => cmd.op = "install" /\ ~cmd.copy /\ ~Has(cmd.at)
  /\ cmd.pc = "remove" => IF cmd.op = "install" THEN cmd.force ELSE cmd.at \in owned
  /\ cmd.op = "uninstall" /\ ~AtRest => \A x \in Places : Owned(x) => x \in owned

\* What an install without conflicts has left behind: the hub is complete and each
\* selected harness settled, but for the target at hand and those to come.
Settled(h) == \/ PlaceOf(h) = Hub
              \/ place[h] = HubLink /\ ~cmd.copy
              \/ Complete(place[h]) /\ cmd.copy
BehindInv ==
  cmd.op = "install" /\ cmd.conflicts = {} =>
    /\ Complete(place[Hub]) \/ (Working /\ cmd.at = Hub)
    /\ \A h \in cmd.selected :
         \/ Settled(h)
         \/ \E i \in cmd.todo : Harnesses[i] = h
         \/ cmd.at = PlaceOf(h) /\ ~AtRest

InstallerInv == TypeOK /\ EntriesInv /\ CommandInv /\ BehindInv
-----------------------------------------------------------------------------
(* Entries and commands.                                                   *)

LEMMA PlacesOf ==
  /\ Hub \in Places
  /\ \A h \in Range(Harnesses) : PlaceOf(h) \in Places /\ (PlaceOf(h) = Hub \/ PlaceOf(h) = h)
  /\ \A i \in DOMAIN Harnesses : Harnesses[i] \in Range(Harnesses)
<1>1. \A i \in DOMAIN Harnesses : Harnesses[i] \in Range(Harnesses)
  BY DEF Range
<1>2. QED
  BY <1>1 DEF Places, PlaceOf

LEMMA Entries ==
  /\ None \in Entry /\ Good(None) /\ HubLink \in Entry /\ Good(HubLink)
  /\ EmptyDir \in Entry /\ Good(EmptyDir)
  /\ Absent \in [Files -> 0 .. MaxVersion]
  /\ None.kind = "none" /\ ~None.mine /\ ~None.marker
  /\ HubLink.kind = "link" /\ HubLink.toHub /\ ~HubLink.mine
  /\ EmptyDir.kind = "dir" /\ ~EmptyDir.marker
<1>1. Absent \in [Files -> 0 .. MaxVersion]
  BY InstallerAssumption DEF Absent
<1>2. \A k \in {"none", "file", "link", "dir"}, b \in BOOLEAN : Made(k, b) \in Entry
  BY <1>1 DEF Made, Entry
<1>3. None \in Entry /\ HubLink \in Entry /\ EmptyDir \in Entry
  BY <1>2 DEF None, HubLink, EmptyDir
<1>4. QED
  BY <1>1, <1>3 DEF Good, None, HubLink, EmptyDir, Made

LEMMA Putting ==
  ASSUME TypeOK, EntriesInv, NEW x \in Places, NEW e \in Entry, Good(e), Put(x, e)
  PROVE  /\ place' \in [Places -> Entry] /\ EntriesInv'
         /\ place'[x] = e /\ \A y \in Places \ {x} : place'[y] = place[y]
BY DEF TypeOK, EntriesInv, Put, Good, Absent

LEMMA TypeFrom ==
  ASSUME TypeOK, place' \in [Places -> Entry], EntriesInv', cmd' \in Command,
         version' \in Versions, moves' \in 0 .. MaxMoves, owned' \subseteq Places
  PROVE  TypeOK'
BY DEF TypeOK, EntriesInv, Good

LEMMA FirstIs ==
  ASSUME NEW S \in SUBSET DOMAIN Harnesses, S # {}
  PROVE  First(S) \in S
<1>1. S \subseteq Nat
  <2>1. Harnesses \in Seq(Range(Harnesses))
    BY InstallerAssumption
  <2>2. DOMAIN Harnesses = 1 .. Len(Harnesses)
    BY <2>1
  <2>3. QED
    BY <2>2
<1>2. IsWellFoundedOn(OpToRel(<, Nat), Nat)
  BY NatLessThanWellFounded
<1>3. PICK m \in S : \A k \in S : ~(<<k, m>> \in OpToRel(<, Nat))
  BY <1>1, <1>2, WFMin
<1>4. S \in SUBSET Nat
  BY <1>1
<1>5. \A k \in S : k \in Nat /\ m \in Nat /\ ~(k < m)
  BY <1>3, <1>4 DEF OpToRel
<1>6. \A k \in S : m <= k
  BY <1>5
<1>7. QED
  BY <1>6 DEF First

\* c is the command under way, but for its conflicts, its place and what is left.
SameTask(c) ==
  /\ c.op = cmd.op /\ c.copy = cmd.copy /\ c.force = cmd.force /\ c.asked = cmd.asked
  /\ c.selected = cmd.selected

LEMMA Onwards ==
  ASSUME NEW c \in Command
  PROVE  LET d == Onward(c)
         IN  /\ d \in Command
             /\ d.op = c.op /\ d.copy = c.copy /\ d.force = c.force /\ d.asked = c.asked
             /\ d.selected = c.selected /\ d.conflicts = c.conflicts /\ d.removeHub = c.removeHub
             /\ \/ /\ c.todo = {} /\ d.todo = {} /\ d.at = c.at
                   /\ d.pc = IF c.removeHub THEN "hub" ELSE "done"
                \/ \E i \in c.todo : /\ d.pc = "target" /\ d.at = PlaceOf(Harnesses[i])
                                     /\ d.todo = c.todo \ {i}
<1>1. CASE c.todo = {}
  <2>1. Onward(c) = [c EXCEPT !.pc = IF c.removeHub THEN "hub" ELSE "done"]
    BY <1>1 DEF Onward
  <2>2. QED
    BY <1>1, <2>1 DEF Command
<1>2. CASE c.todo # {}
  <2> DEFINE i == First(c.todo)
             x == PlaceOf(Harnesses[i])
             T == c.todo \ {i}
  <2>1. Onward(c) = [c EXCEPT !.pc = "target", !.at = x, !.todo = T]
    BY <1>2 DEF Onward
  <2>2. c.todo \in SUBSET DOMAIN Harnesses
    BY DEF Command
  <2>3. i \in c.todo
    BY <1>2, <2>2, FirstIs
  <2>4. x \in Places
    BY <2>2, <2>3, PlacesOf
  <2>5. T \in SUBSET DOMAIN Harnesses
    BY <2>2
  <2> HIDE DEF x, T
  <2>6. /\ Onward(c) \in Command
        /\ Onward(c).op = c.op /\ Onward(c).copy = c.copy /\ Onward(c).force = c.force
        /\ Onward(c).asked = c.asked /\ Onward(c).selected = c.selected
        /\ Onward(c).conflicts = c.conflicts /\ Onward(c).removeHub = c.removeHub
        /\ Onward(c).pc = "target" /\ Onward(c).at = x /\ Onward(c).todo = T
    BY <2>1, <2>4, <2>5 DEF Command
  <2>7. QED
    BY <2>3, <2>6 DEF x, T
<1>3. QED
  BY <1>1, <1>2

LEMMA Conflicts ==
  ASSUME NEW c \in Command, NEW x \in Places
  PROVE  LET d == Conflict(c, x)
         IN  /\ d \in Command /\ d.conflicts # {}
             /\ d.op = c.op /\ d.copy = c.copy /\ d.force = c.force /\ d.asked = c.asked
             /\ d.selected = c.selected /\ d.removeHub = c.removeHub
             /\ d.todo = c.todo /\ d.at = c.at
<1>1. Conflict(c, x) = [c EXCEPT !.conflicts = c.conflicts \cup {x}]
  BY DEF Conflict
<1>2. c.conflicts \cup {x} \in SUBSET Places
  BY DEF Command
<1>3. QED
  BY <1>1, <1>2 DEF Command
-----------------------------------------------------------------------------
(* On to the next target.                                                  *)

LEMMA OnwardCommand ==
  ASSUME TypeOK, CommandInv, ~AtRest, NEW c \in Command, SameTask(c), c.todo = cmd.todo,
         c.at \in {cmd.at, Hub}, c.removeHub => cmd.removeHub,
         cmd' = Onward(c), UNCHANGED owned,
         cmd.op = "uninstall" => \A x \in Places : Owned(x)' => Owned(x)
  PROVE  cmd' \in Command /\ CommandInv'
<1>1. /\ cmd' \in Command
      /\ cmd'.op = c.op /\ cmd'.copy = c.copy /\ cmd'.force = c.force
      /\ cmd'.selected = c.selected /\ cmd'.removeHub = c.removeHub
      /\ \/ /\ c.todo = {} /\ cmd'.todo = {} /\ cmd'.at = c.at
            /\ cmd'.pc = IF c.removeHub THEN "hub" ELSE "done"
         \/ \E i \in c.todo : /\ cmd'.pc = "target" /\ cmd'.at = PlaceOf(Harnesses[i])
                              /\ cmd'.todo = c.todo \ {i}
  BY Onwards
<1>2. /\ c.op = cmd.op /\ c.copy = cmd.copy /\ c.force = cmd.force /\ c.selected = cmd.selected
      /\ c.todo = cmd.todo
  BY DEF SameTask
<1>3. /\ \A i \in cmd.todo : Harnesses[i] \in cmd.selected
      /\ cmd.at = Hub \/ \E h \in cmd.selected : cmd.at = PlaceOf(h)
  BY DEF CommandInv
<1>4. \A i \in cmd'.todo : Harnesses[i] \in cmd'.selected
  BY <1>1, <1>2, <1>3
<1>5. cmd'.at = Hub \/ \E h \in cmd'.selected : cmd'.at = PlaceOf(h)
  BY <1>1, <1>2, <1>3
<1>6. cmd'.pc \in {"hub", "done", "target"} /\ (cmd'.pc = "hub" => c.removeHub)
  BY <1>1
<1>7. /\ cmd.force => cmd.copy
      /\ cmd.op # "none" /\ (cmd.removeHub => cmd.op = "uninstall")
      /\ cmd.op = "uninstall" => \A x \in Places : Owned(x) => x \in owned
  BY DEF CommandInv, AtRest
<1>8. cmd'.op = "uninstall" => \A x \in Places : Owned(x)' => x \in owned'
  BY <1>1, <1>2, <1>7
<1>9. QED
  BY <1>1, <1>2, <1>4, <1>5, <1>6, <1>7, <1>8 DEF CommandInv

LEMMA OnwardBehind ==
  ASSUME BehindInv, ~AtRest, NEW c \in Command, SameTask(c), c.todo = cmd.todo,
         c.conflicts = {} => cmd.conflicts = {}, cmd' = Onward(c),
         cmd.op = "install" /\ c.conflicts = {} =>
           /\ Complete(place[Hub])'
           /\ \A h \in cmd.selected : Settled(h) \/ PlaceOf(h) = cmd.at => Settled(h)'
  PROVE  BehindInv'
<1> SUFFICES ASSUME cmd'.op = "install", cmd'.conflicts = {}
             PROVE  /\ Complete(place[Hub])'
                    /\ \A h \in cmd'.selected :
                         \/ Settled(h)'
                         \/ \E i \in cmd'.todo : Harnesses[i] = h
                         \/ cmd'.at = PlaceOf(h) /\ ~AtRest'
  BY DEF BehindInv
<1>1. /\ cmd'.op = c.op /\ cmd'.selected = c.selected /\ cmd'.conflicts = c.conflicts
      /\ \/ c.todo = {}
         \/ \E i \in c.todo : /\ cmd'.pc = "target" /\ cmd'.at = PlaceOf(Harnesses[i])
                              /\ cmd'.todo = c.todo \ {i}
  BY Onwards
<1>2. c.op = cmd.op /\ c.selected = cmd.selected /\ c.todo = cmd.todo
  BY DEF SameTask
<1>3. /\ cmd.op = "install" /\ cmd.conflicts = {} /\ Complete(place[Hub])'
      /\ \A h \in cmd.selected : Settled(h) \/ PlaceOf(h) = cmd.at => Settled(h)'
  BY <1>1, <1>2
<1>4. \A h \in cmd.selected : Settled(h) \/ (\E i \in cmd.todo : Harnesses[i] = h)
                                \/ cmd.at = PlaceOf(h)
  BY <1>3 DEF BehindInv
<1>5. ASSUME NEW h \in cmd.selected, ~Settled(h)'
      PROVE  (\E i \in cmd'.todo : Harnesses[i] = h) \/ (cmd'.at = PlaceOf(h) /\ ~AtRest')
  <2>1. PICK j \in cmd.todo : Harnesses[j] = h
    BY <1>3, <1>4, <1>5
  <2>2. PICK i \in cmd.todo : /\ cmd'.pc = "target" /\ cmd'.at = PlaceOf(Harnesses[i])
                              /\ cmd'.todo = cmd.todo \ {i}
    BY <1>1, <1>2, <2>1
  <2>3. CASE j = i
    BY <2>1, <2>2, <2>3 DEF AtRest
  <2>4. CASE j # i
    BY <2>1, <2>2, <2>4
  <2>5. QED
    BY <2>3, <2>4
<1>6. QED
  BY <1>1, <1>2, <1>3, <1>5

\* A step at the present target.
LEMMA StayBehind ==
  ASSUME BehindInv, ~AtRest, SameTask(cmd'), cmd'.todo = cmd.todo, cmd'.at = cmd.at,
         cmd'.conflicts = cmd.conflicts, cmd'.pc \notin {"idle", "done"}, UNCHANGED version,
         cmd \in Command, \A y \in Places \ {cmd.at} : place'[y] = place[y],
         cmd.op = "install" /\ cmd.conflicts = {} =>
           Complete(place[Hub])' \/ (Working' /\ cmd.at = Hub)
  PROVE  BehindInv'
<1> SUFFICES ASSUME cmd'.op = "install", cmd'.conflicts = {}
             PROVE  /\ Complete(place[Hub])' \/ (Working' /\ cmd'.at = Hub)
                    /\ \A h \in cmd'.selected :
                         \/ Settled(h)'
                         \/ \E i \in cmd'.todo : Harnesses[i] = h
                         \/ cmd'.at = PlaceOf(h) /\ ~AtRest'
  BY DEF BehindInv
<1>1. /\ cmd.op = "install" /\ cmd.conflicts = {} /\ cmd'.selected = cmd.selected
      /\ cmd'.copy = cmd.copy /\ ~AtRest'
  BY DEF SameTask, AtRest
<1>2. Complete(place[Hub])' \/ (Working' /\ cmd'.at = Hub)
  BY <1>1
<1>3. ASSUME NEW h \in cmd.selected
      PROVE  \/ Settled(h)'
             \/ \E i \in cmd.todo : Harnesses[i] = h
             \/ cmd.at = PlaceOf(h)
  <2>1. CASE Settled(h) /\ cmd.at # PlaceOf(h)
    <3>1. PlaceOf(h) = Hub \/ place'[h] = place[h]
      <4>1. h \in Range(Harnesses)
        BY DEF Command
      <4>2. QED
        BY <2>1, <4>1, PlacesOf
    <3>2. QED
      BY <1>1, <2>1, <3>1 DEF Settled, Complete
  <2>2. QED
    BY <1>1, <2>1 DEF BehindInv
<1>4. QED
  BY <1>1, <1>2, <1>3

LEMMA CommandFields ==
  ASSUME TypeOK
  PROVE  /\ cmd \in Command /\ cmd.at \in Places /\ cmd.left \subseteq Files
         /\ place \in [Places -> Entry] /\ place[cmd.at] \in Entry
         /\ version \in Versions /\ moves \in 0 .. MaxMoves /\ owned \subseteq Places
BY DEF TypeOK, Command

\* Changes of the point of the program and of what is left of a tree.
LEMMA Filed ==
  ASSUME NEW c \in Command, NEW L \in SUBSET Files
  PROVE  LET d == [c EXCEPT !.left = L]
         IN  /\ d \in Command /\ d.left = L /\ d.pc = c.pc
             /\ d.op = c.op /\ d.copy = c.copy /\ d.force = c.force /\ d.asked = c.asked
             /\ d.selected = c.selected /\ d.conflicts = c.conflicts
             /\ d.removeHub = c.removeHub /\ d.todo = c.todo /\ d.at = c.at
BY DEF Command

LEMMA Turned ==
  ASSUME NEW c \in Command,
         NEW p \in {"idle", "target", "tree", "marker", "link", "remove", "hub", "done"}
  PROVE  LET d == [c EXCEPT !.pc = p]
         IN  /\ d \in Command /\ d.pc = p /\ d.left = c.left
             /\ d.op = c.op /\ d.copy = c.copy /\ d.force = c.force /\ d.asked = c.asked
             /\ d.selected = c.selected /\ d.conflicts = c.conflicts
             /\ d.removeHub = c.removeHub /\ d.todo = c.todo /\ d.at = c.at
BY DEF Command

LEMMA Opened ==
  ASSUME NEW c \in Command
  PROVE  LET d == [c EXCEPT !.pc = "tree", !.left = Files]
         IN  /\ d \in Command /\ d.pc = "tree" /\ d.left = Files
             /\ d.op = c.op /\ d.copy = c.copy /\ d.force = c.force /\ d.asked = c.asked
             /\ d.selected = c.selected /\ d.conflicts = c.conflicts
             /\ d.removeHub = c.removeHub /\ d.todo = c.todo /\ d.at = c.at
BY DEF Command
-----------------------------------------------------------------------------
(* The steps of an installation.                                           *)

LEMMA InstallFileStep ==
  ASSUME InstallerInv, NEW f \in Files, InstallFile(f)
  PROVE  InstallerInv'
<1> DEFINE x == cmd.at
           e == IF Has(x) THEN place[x] ELSE EmptyDir
           new == [e EXCEPT !.files[f] = version]
           L == cmd.left \ {f}
<1>1. TypeOK /\ EntriesInv /\ CommandInv /\ BehindInv /\ cmd.pc = "tree"
  BY DEF InstallerInv, InstallFile
<1>2. /\ Put(x, new) /\ cmd' = [cmd EXCEPT !.left = L] /\ UNCHANGED <<version, moves, owned>>
  BY DEF InstallFile, Do
<1>3. /\ cmd \in Command /\ x \in Places /\ place[x] \in Entry /\ cmd.left \subseteq Files
      /\ version \in Versions /\ moves \in 0 .. MaxMoves /\ owned \subseteq Places
  BY <1>1, CommandFields
<1>4. /\ cmd.op = "install" /\ (cmd.copy \/ x = Hub) /\ place[x].kind \in {"none", "dir"}
      /\ \A g \in Files \ cmd.left : place[x].kind = "dir" /\ place[x].files[g] = version
  BY <1>1 DEF CommandInv
<1>5. e \in Entry /\ e.kind = "dir" /\ Good(e)
  BY <1>1, <1>3, <1>4, Entries DEF Has, EntriesInv
<1>6. version \in 0 .. MaxVersion
  BY <1>3, InstallerAssumption DEF Versions
<1> HIDE DEF e
<1>7. /\ new = [e EXCEPT !.files = [e.files EXCEPT ![f] = version]]
      /\ [e.files EXCEPT ![f] = version] \in [Files -> 0 .. MaxVersion]
  BY <1>5, <1>6 DEF Entry
<1>8. /\ new \in Entry /\ new.kind = "dir" /\ Good(new)
      /\ new.files = [e.files EXCEPT ![f] = version] /\ e.files \in [Files -> 0 .. MaxVersion]
  BY <1>5, <1>7 DEF Entry, Good
<1> HIDE DEF new
<1>9. /\ place' \in [Places -> Entry] /\ EntriesInv'
      /\ place'[x] = new /\ \A y \in Places \ {x} : place'[y] = place[y]
  BY <1>1, <1>2, <1>3, <1>8, Putting
<1>10. /\ cmd' \in Command /\ SameTask(cmd') /\ cmd'.pc = "tree" /\ cmd'.left = L
       /\ cmd'.todo = cmd.todo /\ cmd'.at = x /\ cmd'.conflicts = cmd.conflicts
       /\ cmd'.removeHub = cmd.removeHub
  <2>1. L \in SUBSET Files
    BY <1>3
  <2>2. QED
    BY <1>1, <1>2, <1>3, <2>1, Filed DEF SameTask
<1>11. TypeOK'
  BY <1>1, <1>2, <1>3, <1>9, <1>10, TypeFrom
<1>12. ASSUME NEW g \in Files \ L
       PROVE  place'[x].kind = "dir" /\ place'[x].files[g] = version
  <2>1. CASE g = f
    BY <1>8, <1>9, <2>1
  <2>2. CASE g # f
    <3>1. place[x].kind = "dir" /\ place[x].files[g] = version
      BY <1>4, <2>2
    <3>2. e = place[x]
      BY <3>1 DEF e, Has
    <3>3. QED
      BY <1>8, <1>9, <2>2, <3>1, <3>2
  <2>3. QED
    BY <2>1, <2>2
<1>13. CommandInv'
  BY <1>1, <1>2, <1>4, <1>8, <1>9, <1>10, <1>12 DEF CommandInv, SameTask, AtRest
<1>14. BehindInv'
  <2>1. ASSUME cmd.op = "install", cmd.conflicts = {}, x # Hub PROVE Complete(place[Hub])'
    <3>1. Complete(place[Hub])
      BY <1>1, <2>1 DEF BehindInv
    <3>2. QED
      BY <1>2, <1>9, <2>1, <3>1, PlacesOf DEF Complete
  <2>2. QED
    BY <1>1, <1>2, <1>3, <1>9, <1>10, <2>1, StayBehind DEF Working, AtRest
<1>15. QED
  BY <1>9, <1>11, <1>13, <1>14 DEF InstallerInv

\* The marker is emptied where every file is in place.
LEMMA TruncateMarkerStep ==
  ASSUME InstallerInv, TruncateMarker
  PROVE  InstallerInv'
<1>0. PICK x \in Places : x = cmd.at
  BY CommandFields DEF InstallerInv
<1> DEFINE new == [place[x] EXCEPT !.marker = FALSE]
<1>1. TypeOK /\ EntriesInv /\ CommandInv /\ BehindInv /\ cmd.pc = "tree" /\ cmd.left = {}
  BY DEF InstallerInv, TruncateMarker
<1>2. Put(x, new) /\ cmd' = [cmd EXCEPT !.pc = "marker"] /\ UNCHANGED <<version, moves, owned>>
  BY <1>0 DEF TruncateMarker, Do
<1>3. /\ cmd \in Command /\ x \in Places /\ place[x] \in Entry
      /\ version \in Versions /\ moves \in 0 .. MaxMoves /\ owned \subseteq Places
  BY <1>0, <1>1, CommandFields
<1>4. /\ cmd.op = "install" /\ (cmd.copy \/ x = Hub)
      /\ \A g \in Files : place[x].kind = "dir" /\ place[x].files[g] = version
  BY <1>0, <1>1 DEF CommandInv
<1>5. place[x].kind = "dir"
  BY <1>4, InstallerAssumption
<1>6. new \in Entry /\ Good(new) /\ new.kind = "dir" /\ new.files = place[x].files
  BY <1>1, <1>3, <1>4, <1>5 DEF Entry, EntriesInv, Good
<1> HIDE DEF new
<1>7. /\ place' \in [Places -> Entry] /\ EntriesInv'
      /\ place'[x] = new /\ \A y \in Places \ {x} : place'[y] = place[y]
  BY <1>1, <1>2, <1>3, <1>6, Putting
<1>8. /\ cmd' \in Command /\ SameTask(cmd') /\ cmd'.pc = "marker" /\ cmd'.left = {}
      /\ cmd'.todo = cmd.todo /\ cmd'.at = x /\ cmd'.conflicts = cmd.conflicts
      /\ cmd'.removeHub = cmd.removeHub
  BY <1>0, <1>1, <1>2, <1>3, Turned DEF SameTask
<1>9. TypeOK'
  BY <1>1, <1>2, <1>3, <1>7, <1>8, TypeFrom
<1>10. CommandInv'
  BY <1>0, <1>1, <1>2, <1>4, <1>6, <1>7, <1>8 DEF CommandInv, SameTask, AtRest
<1>11. BehindInv'
  <2>1. ASSUME cmd.op = "install", cmd.conflicts = {}, x # Hub PROVE Complete(place[Hub])'
    <3>1. Complete(place[Hub])
      BY <1>0, <1>1, <2>1 DEF BehindInv
    <3>2. QED
      BY <1>2, <1>7, <2>1, <3>1, PlacesOf DEF Complete
  <2>2. QED
    BY <1>0, <1>1, <1>2, <1>3, <1>7, <1>8, <2>1, StayBehind DEF Working, AtRest
<1>12. QED
  BY <1>7, <1>9, <1>10, <1>11 DEF InstallerInv

\* It is written where every file is in place: to a complete copy.
LEMMA WriteMarkerStep ==
  ASSUME InstallerInv, WriteMarker
  PROVE  InstallerInv'
<1>0. PICK x \in Places : x = cmd.at
  BY CommandFields DEF InstallerInv
<1> DEFINE new == [place[x] EXCEPT !.marker = TRUE]
<1>1. TypeOK /\ EntriesInv /\ CommandInv /\ BehindInv /\ cmd.pc = "marker" /\ cmd.left = {}
  BY DEF InstallerInv, WriteMarker, CommandInv
<1>2. Put(x, new) /\ cmd' = Onward(cmd) /\ UNCHANGED <<version, moves, owned>>
  BY <1>0 DEF WriteMarker, Do
<1>3. /\ cmd \in Command /\ x \in Places /\ place[x] \in Entry
      /\ version \in Versions /\ moves \in 0 .. MaxMoves /\ owned \subseteq Places
  BY <1>0, <1>1, CommandFields
<1>4. /\ cmd.op = "install" /\ (cmd.copy \/ x = Hub)
      /\ \A g \in Files : place[x].kind = "dir" /\ place[x].files[g] = version
  BY <1>0, <1>1 DEF CommandInv
<1>5. place[x].kind = "dir"
  BY <1>4, InstallerAssumption
<1>6. new \in Entry /\ Good(new) /\ Complete(new)
  BY <1>1, <1>3, <1>4, <1>5 DEF Entry, EntriesInv, Good, Complete
<1> HIDE DEF new
<1>7. /\ place' \in [Places -> Entry] /\ EntriesInv'
      /\ place'[x] = new /\ \A y \in Places \ {x} : place'[y] = place[y]
  BY <1>1, <1>2, <1>3, <1>6, Putting
<1>8. ~AtRest /\ SameTask(cmd)
  BY <1>1 DEF AtRest, SameTask
<1>9. cmd' \in Command /\ CommandInv'
  BY <1>1, <1>2, <1>3, <1>4, <1>8, OnwardCommand
<1>10. TypeOK'
  BY <1>1, <1>2, <1>3, <1>7, <1>9, TypeFrom
<1>11. ASSUME cmd.conflicts = {}
       PROVE  /\ Complete(place[Hub])'
              /\ \A h \in cmd.selected : Settled(h) \/ PlaceOf(h) = x => Settled(h)'
  <2>1. Complete(place[x])'
    BY <1>2, <1>6, <1>7 DEF Complete
  <2>2. Complete(place[Hub])'
    <3>1. CASE x = Hub
      BY <2>1, <3>1
    <3>2. CASE x # Hub
      <4>1. Complete(place[Hub])
        BY <1>0, <1>1, <1>4, <1>11, <3>2 DEF BehindInv
      <4>2. QED
        BY <1>2, <1>7, <3>2, <4>1, PlacesOf DEF Complete
    <3>3. QED
      BY <3>1, <3>2
  <2>3. cmd'.copy = cmd.copy
    BY <1>2, <1>3, Onwards
  <2>4. ASSUME NEW h \in cmd.selected, Settled(h) \/ PlaceOf(h) = x PROVE Settled(h)'
    <3>1. h \in Range(Harnesses)
      BY <1>3 DEF Command
    <3>2. CASE PlaceOf(h) = Hub
      BY <3>2 DEF Settled
    <3>3. CASE PlaceOf(h) # Hub /\ h = x
      BY <1>4, <2>1, <2>3, <3>1, <3>3, PlacesOf DEF Settled
    <3>4. CASE PlaceOf(h) # Hub /\ h # x
      <4>1. PlaceOf(h) = h /\ h \in Places /\ place'[h] = place[h] /\ Settled(h)
        BY <1>7, <2>4, <3>1, <3>4, PlacesOf
      <4>2. QED
        BY <1>2, <2>3, <3>4, <4>1 DEF Settled, Complete
    <3>5. QED
      BY <3>2, <3>3, <3>4
  <2>5. QED
    BY <2>2, <2>4
<1>12. BehindInv'
  BY <1>0, <1>1, <1>2, <1>3, <1>8, <1>11, OnwardBehind
<1>13. QED
  BY <1>7, <1>9, <1>10, <1>12 DEF InstallerInv

\* A target is passed over: with a conflict, or because it is as it should be.
LEMMA SkipStep ==
  ASSUME InstallerInv, ~AtRest, NEW c \in Command, SameTask(c), c.todo = cmd.todo,
         c.at \in {cmd.at, Hub}, c.removeHub => cmd.removeHub, Skip(c),
         cmd.op = "install" => \/ c.conflicts # {}
                               \/ /\ c.conflicts = cmd.conflicts /\ ~Working /\ ~cmd.copy
                                  /\ place[cmd.at] = HubLink
  PROVE  InstallerInv'
<1>1. TypeOK /\ EntriesInv /\ CommandInv /\ BehindInv
  BY DEF InstallerInv
<1>2. cmd' = Onward(c) /\ UNCHANGED <<place, version, moves, owned>>
  BY DEF Skip, Do
<1>3. \A x \in Places : Owned(x)' => Owned(x)
  BY <1>2 DEF Owned
<1>4. cmd' \in Command /\ CommandInv'
  BY <1>1, <1>2, <1>3, OnwardCommand
<1>5. EntriesInv'
  BY <1>1, <1>2 DEF EntriesInv
<1>6. TypeOK'
  BY <1>1, <1>2, <1>4, <1>5, CommandFields, TypeFrom
<1>7. cmd'.op = cmd.op /\ cmd'.copy = cmd.copy /\ cmd'.conflicts = c.conflicts
  BY <1>2, Onwards DEF SameTask
<1>8. CASE cmd.op = "install" /\ c.conflicts = {}
  <2>1. c.conflicts = cmd.conflicts /\ ~Working /\ ~cmd.copy /\ place[cmd.at] = HubLink
    BY <1>8
  <2>2. Complete(place[Hub])'
    BY <1>1, <1>2, <1>8, <2>1 DEF BehindInv, Complete
  <2>3. ASSUME NEW h \in cmd.selected, Settled(h) \/ PlaceOf(h) = cmd.at PROVE Settled(h)'
    <3>1. h \in Range(Harnesses)
      BY <1>1, CommandFields DEF Command
    <3>2. QED
      BY <1>2, <1>7, <2>1, <2>3, <3>1, PlacesOf DEF Settled, Complete
  <2>4. BehindInv'
    BY <1>1, <1>2, <1>8, <2>1, <2>2, <2>3, OnwardBehind
  <2>5. QED
    BY <1>4, <1>5, <1>6, <2>4 DEF InstallerInv
<1>9. CASE ~(cmd.op = "install" /\ c.conflicts = {})
  <2>1. BehindInv'
    BY <1>7, <1>9 DEF BehindInv
  <2>2. QED
    BY <1>4, <1>5, <1>6, <2>1 DEF InstallerInv
<1>10. QED
  BY <1>8, <1>9

LEMMA ConflictStep ==
  ASSUME InstallerInv, cmd.pc = "target", Skip(Conflict(cmd, cmd.at))
  PROVE  InstallerInv'
<1>1. cmd \in Command /\ cmd.at \in Places
  BY CommandFields DEF InstallerInv
<1>2. QED
  BY <1>1, Conflicts, SkipStep DEF SameTask, AtRest

\* From a target to its replacement or its tree: nothing has moved yet.
LEMMA CopyTargetStep ==
  ASSUME InstallerInv, CopyTarget
  PROVE  InstallerInv'
<1>1. /\ TypeOK /\ EntriesInv /\ CommandInv /\ BehindInv
      /\ cmd.pc = "target" /\ cmd.op = "install" /\ cmd.copy /\ cmd \in Command
  BY CommandFields DEF InstallerInv, CopyTarget
<1>2. CASE Skip(Conflict(cmd, cmd.at))
  BY <1>1, <1>2, ConflictStep
<1>3. ASSUME UNCHANGED <<place, version, moves, owned>>,
             \/ cmd.force /\ cmd' = [cmd EXCEPT !.pc = "remove"]
             \/ ~Has(cmd.at) /\ cmd' = [cmd EXCEPT !.pc = "tree", !.left = Files]
      PROVE  InstallerInv'
  <2>1. /\ cmd' \in Command /\ SameTask(cmd') /\ cmd'.todo = cmd.todo /\ cmd'.at = cmd.at
        /\ cmd'.conflicts = cmd.conflicts /\ cmd'.removeHub = cmd.removeHub
        /\ \/ cmd.force /\ cmd'.pc = "remove"
           \/ ~Has(cmd.at) /\ cmd'.pc = "tree" /\ cmd'.left = Files
    <3>1. CASE cmd.force /\ cmd' = [cmd EXCEPT !.pc = "remove"]
      BY <1>1, <3>1, Turned DEF SameTask
    <3>2. CASE ~Has(cmd.at) /\ cmd' = [cmd EXCEPT !.pc = "tree", !.left = Files]
      BY <1>1, <3>2, Opened DEF SameTask
    <3>3. QED
      BY <1>3, <3>1, <3>2
  <2>2. EntriesInv' /\ TypeOK'
    <3>1. EntriesInv'
      BY <1>1, <1>3 DEF EntriesInv
    <3>2. QED
      BY <1>1, <1>3, <2>1, <3>1, CommandFields, TypeFrom
  <2>3. CommandInv'
    BY <1>1, <1>3, <2>1 DEF CommandInv, SameTask, AtRest, Has
  <2>4. BehindInv'
    <3>1. cmd.conflicts = {} => Complete(place[Hub])'
      BY <1>1, <1>3 DEF BehindInv, Complete, Working
    <3>2. QED
      BY <1>1, <1>3, <2>1, <3>1, StayBehind DEF AtRest
  <2>5. QED
    BY <2>2, <2>3, <2>4 DEF InstallerInv
<1>4. QED
  BY <1>1, <1>2, <1>3 DEF CopyTarget, Do

LEMMA LinkTargetStep ==
  ASSUME InstallerInv, LinkTarget
  PROVE  InstallerInv'
<1>0. PICK x \in Places : x = cmd.at
  BY CommandFields DEF InstallerInv
<1>1. /\ TypeOK /\ EntriesInv /\ CommandInv /\ BehindInv
      /\ cmd.pc = "target" /\ cmd.op = "install" /\ ~cmd.copy /\ cmd \in Command
      /\ place[x] \in Entry /\ Good(place[x])
  BY <1>0, CommandFields DEF InstallerInv, LinkTarget, EntriesInv
<1>2. CASE Skip(Conflict(cmd, x))
  BY <1>0, <1>1, <1>2, ConflictStep
<1>3. CASE Skip(cmd) /\ place[x].kind = "link" /\ place[x].toHub
  <2>1. place[x] = HubLink
    BY <1>1, <1>3 DEF Good, Entry, HubLink, Made
  <2>2. QED
    BY <1>0, <1>1, <1>3, <2>1, SkipStep DEF SameTask, AtRest, Working
<1>4. ASSUME cmd' = [cmd EXCEPT !.pc = "link"], UNCHANGED <<version, moves, owned>>,
             \/ place[x].kind = "link" /\ Put(x, None)
             \/ ~Has(x) /\ UNCHANGED place
      PROVE  InstallerInv'
  <2>1. /\ cmd' \in Command /\ SameTask(cmd') /\ cmd'.todo = cmd.todo /\ cmd'.at = cmd.at
        /\ cmd'.conflicts = cmd.conflicts /\ cmd'.removeHub = cmd.removeHub /\ cmd'.pc = "link"
    BY <1>1, <1>4, Turned DEF SameTask
  <2>2. /\ place' \in [Places -> Entry] /\ EntriesInv' /\ place'[x].kind = "none"
        /\ \A y \in Places \ {x} : place'[y] = place[y]
    <3>1. CASE Put(x, None)
      BY <1>1, <3>1, Entries, Putting
    <3>2. CASE ~Has(x) /\ UNCHANGED place
      BY <1>1, <3>2, CommandFields DEF EntriesInv, Has
    <3>3. QED
      BY <1>4, <3>1, <3>2
  <2>3. TypeOK'
    BY <1>1, <1>4, <2>1, <2>2, CommandFields, TypeFrom
  <2>4. ~Has(cmd.at)'
    BY <1>0, <2>1, <2>2 DEF Has
  <2>5. CommandInv'
    BY <1>1, <1>4, <2>1, <2>4 DEF CommandInv, SameTask, AtRest
  <2>6. BehindInv'
    <3>1. cmd.conflicts = {} => Complete(place[Hub])'
      <4>1. cmd.conflicts = {} => Complete(place[Hub])
        BY <1>1 DEF BehindInv, Working
      <4>2. Complete(place[Hub]) => x # Hub
        BY <1>4 DEF Complete, Has
      <4>3. QED
        BY <1>4, <2>2, <4>1, <4>2, PlacesOf DEF Complete
    <3>2. QED
      BY <1>0, <1>1, <1>4, <2>1, <2>2, <3>1, StayBehind DEF AtRest
  <2>7. QED
    BY <2>2, <2>3, <2>5, <2>6 DEF InstallerInv
<1>5. QED
  BY <1>0, <1>2, <1>3, <1>4 DEF LinkTarget, Do

LEMMA MakeLinkStep ==
  ASSUME InstallerInv, MakeLink
  PROVE  InstallerInv'
<1>0. PICK x \in Places : x = cmd.at
  BY CommandFields DEF InstallerInv
<1>1. /\ TypeOK /\ EntriesInv /\ CommandInv /\ BehindInv /\ cmd.pc = "link" /\ cmd \in Command
  BY CommandFields DEF InstallerInv, MakeLink
<1>2. Put(x, HubLink) /\ cmd' = Onward(cmd) /\ UNCHANGED <<version, moves, owned>>
  BY <1>0 DEF MakeLink, Do
<1>3. cmd.op = "install" /\ ~cmd.copy /\ ~Has(x) /\ ~AtRest /\ SameTask(cmd)
  BY <1>0, <1>1 DEF CommandInv, AtRest, SameTask
<1>4. /\ place' \in [Places -> Entry] /\ EntriesInv'
      /\ place'[x] = HubLink /\ \A y \in Places \ {x} : place'[y] = place[y]
  BY <1>1, <1>2, Entries, Putting
<1>5. cmd' \in Command /\ CommandInv'
  BY <1>1, <1>2, <1>3, OnwardCommand
<1>6. TypeOK'
  BY <1>1, <1>2, <1>4, <1>5, CommandFields, TypeFrom
<1>7. cmd'.copy = cmd.copy
  BY <1>1, <1>2, Onwards
<1>8. ASSUME cmd.conflicts = {}
      PROVE  /\ Complete(place[Hub])'
             /\ \A h \in cmd.selected : Settled(h) \/ PlaceOf(h) = x => Settled(h)'
  <2>1. Complete(place[Hub]) /\ x # Hub
    BY <1>1, <1>3, <1>8 DEF BehindInv, Working, Complete, Has
  <2>2. Complete(place[Hub])'
    BY <1>2, <1>4, <2>1, PlacesOf DEF Complete
  <2>3. ASSUME NEW h \in cmd.selected, Settled(h) \/ PlaceOf(h) = x PROVE Settled(h)'
    <3>1. h \in Range(Harnesses)
      BY <1>1 DEF Command
    <3>2. CASE PlaceOf(h) = Hub
      BY <3>2 DEF Settled
    <3>3. CASE PlaceOf(h) # Hub /\ h = x
      BY <1>3, <1>4, <1>7, <3>3 DEF Settled
    <3>4. CASE PlaceOf(h) # Hub /\ h # x
      <4>1. PlaceOf(h) = h /\ place'[h] = place[h] /\ Settled(h)
        BY <1>4, <2>3, <3>1, <3>4, PlacesOf
      <4>2. QED
        BY <1>2, <1>7, <3>4, <4>1 DEF Settled, Complete
    <3>5. QED
      BY <3>2, <3>3, <3>4
  <2>4. QED
    BY <2>2, <2>3
<1>9. BehindInv'
  BY <1>0, <1>1, <1>2, <1>3, <1>8, OnwardBehind
<1>10. QED
  BY <1>4, <1>5, <1>6, <1>9 DEF InstallerInv
-----------------------------------------------------------------------------
(* The steps of a removal.                                                 *)

\* A place loses what it had, or part of it, and the command goes on.
LEMMA LosesStep ==
  ASSUME InstallerInv, cmd.op = "uninstall", ~AtRest, NEW x \in Places,
         NEW e \in Entry, Good(e), e.kind = "dir" /\ e.marker => Owned(x), Put(x, e),
         cmd' = Onward(cmd), UNCHANGED <<version, moves, owned>>
  PROVE  InstallerInv'
<1>1. TypeOK /\ EntriesInv /\ CommandInv /\ cmd \in Command /\ SameTask(cmd)
  BY CommandFields DEF InstallerInv, SameTask
<1>2. /\ place' \in [Places -> Entry] /\ EntriesInv'
      /\ place'[x] = e /\ \A y \in Places \ {x} : place'[y] = place[y]
  BY <1>1, Putting
<1>3. \A y \in Places : Owned(y)' => Owned(y)
  BY <1>2 DEF Owned
<1>4. cmd' \in Command /\ CommandInv'
  BY <1>1, <1>3, OnwardCommand
<1>5. TypeOK'
  BY <1>1, <1>2, <1>4, CommandFields, TypeFrom
<1>6. cmd'.op = "uninstall"
  BY <1>1, Onwards
<1>7. QED
  BY <1>2, <1>4, <1>5, <1>6 DEF InstallerInv, BehindInv

\* A marked directory is about to be removed.
LEMMA CondemnedStep ==
  ASSUME InstallerInv, cmd.op = "uninstall", ~AtRest, cmd' \in Command, SameTask(cmd'),
         cmd'.todo = cmd.todo, cmd'.at \in {cmd.at, Hub}, cmd'.removeHub => cmd.removeHub,
         cmd'.pc = "remove", cmd'.at \in Places, Owned(cmd'.at),
         UNCHANGED <<place, version, moves, owned>>
  PROVE  InstallerInv'
<1>1. TypeOK /\ EntriesInv /\ CommandInv
  BY DEF InstallerInv
<1>2. EntriesInv'
  BY <1>1 DEF EntriesInv
<1>3. TypeOK'
  BY <1>1, <1>2, CommandFields, TypeFrom
<1>4. cmd'.at \in owned
  BY <1>1 DEF CommandInv
<1>5. \A x \in Places : Owned(x)' => x \in owned
  BY <1>1 DEF CommandInv, Owned
<1>6. CommandInv'
  BY <1>1, <1>4, <1>5 DEF CommandInv, SameTask
<1>7. QED
  BY <1>2, <1>3, <1>6 DEF InstallerInv, BehindInv, SameTask

LEMMA RemoveTargetStep ==
  ASSUME InstallerInv, RemoveTarget
  PROVE  InstallerInv'
<1>0. PICK x \in Places : x = cmd.at
  BY CommandFields DEF InstallerInv
<1>1. cmd.pc = "target" /\ cmd.op = "uninstall" /\ cmd \in Command /\ ~AtRest /\ SameTask(cmd)
  BY CommandFields DEF InstallerInv, RemoveTarget, AtRest, SameTask
<1>2. CASE Put(x, None) /\ Do(Onward(cmd))
  BY <1>1, <1>2, LosesStep, Entries DEF Do
<1>3. CASE Skip(Conflict(cmd, x))
  BY <1>0, <1>1, <1>3, ConflictStep
<1>4. CASE Skip(cmd)
  BY <1>1, <1>4, SkipStep
<1>5. CASE Owned(x) /\ Do([cmd EXCEPT !.pc = "remove"]) /\ UNCHANGED place
  <2>1. /\ cmd' \in Command /\ SameTask(cmd') /\ cmd'.todo = cmd.todo /\ cmd'.at = cmd.at
        /\ cmd'.removeHub = cmd.removeHub /\ cmd'.pc = "remove"
    BY <1>1, <1>5, Turned DEF SameTask, Do
  <2>2. QED
    BY <1>0, <1>1, <1>5, <2>1, CondemnedStep DEF Do
<1>6. QED
  BY <1>0, <1>2, <1>3, <1>4, <1>5 DEF RemoveTarget

LEMMA RemoveHubStep ==
  ASSUME InstallerInv, RemoveHub
  PROVE  InstallerInv'
<1> DEFINE c == [cmd EXCEPT !.removeHub = FALSE, !.at = Hub]
<1>1. cmd.pc = "hub" /\ cmd.op = "uninstall" /\ cmd \in Command /\ ~AtRest
  BY CommandFields DEF InstallerInv, RemoveHub, AtRest, CommandInv
<1>2. /\ c \in Command /\ SameTask(c) /\ c.todo = cmd.todo /\ c.at = Hub /\ ~c.removeHub
      /\ c.conflicts = cmd.conflicts
  BY <1>1, PlacesOf DEF Command, SameTask
<1>3. /\ \/ Owned(Hub) /\ Do([c EXCEPT !.pc = "remove"]) /\ UNCHANGED place
         \/ Skip(Conflict(c, Hub)) \/ Skip(c)
  BY DEF RemoveHub
<1> HIDE DEF c
<1>4. CASE Skip(Conflict(c, Hub))
  <2> DEFINE d == Conflict(c, Hub)
  <2>1. d \in Command /\ SameTask(d) /\ d.todo = cmd.todo /\ d.at = Hub /\ ~d.removeHub
    BY <1>2, Conflicts, PlacesOf DEF SameTask
  <2> HIDE DEF d
  <2>2. Skip(d)
    BY <1>4 DEF d
  <2>3. QED
    BY <1>1, <2>1, <2>2, SkipStep
<1>5. CASE Skip(c)
  BY <1>1, <1>2, <1>5, SkipStep
<1>6. CASE Owned(Hub) /\ Do([c EXCEPT !.pc = "remove"]) /\ UNCHANGED place
  <2>1. /\ cmd' \in Command /\ SameTask(cmd') /\ cmd'.todo = cmd.todo /\ cmd'.at = Hub
        /\ ~cmd'.removeHub /\ cmd'.pc = "remove"
    BY <1>2, <1>6, Turned DEF SameTask, Do
  <2>2. QED
    BY <1>1, <1>6, <2>1, CondemnedStep, PlacesOf DEF Do
<1>7. QED
  BY <1>3, <1>4, <1>5, <1>6

\* rmtree takes one thing at a time; when nothing is left the target is free.
LEMMA RemoveStep ==
  ASSUME InstallerInv, Remove
  PROVE  InstallerInv'
<1>0. PICK x \in Places : x = cmd.at
  BY CommandFields DEF InstallerInv
<1> DEFINE e == place[x]
<1>1. /\ TypeOK /\ EntriesInv /\ CommandInv /\ BehindInv /\ cmd.pc = "remove" /\ ~AtRest
      /\ cmd \in Command /\ e \in Entry /\ Good(e) /\ cmd.op \in {"install", "uninstall"}
      /\ SameTask(cmd)
  <2>1. cmd \in Command /\ cmd.pc = "remove" /\ CommandInv
    BY CommandFields DEF InstallerInv, Remove
  <2>2. cmd.op \in {"install", "uninstall"}
    BY <2>1 DEF Command, CommandInv
  <2>3. QED
    BY <1>0, <2>1, <2>2, CommandFields DEF InstallerInv, EntriesInv, AtRest, SameTask
<1>2. /\ cmd.op = "install" => cmd.force /\ cmd.copy
      /\ cmd.op = "uninstall" => x \in owned
  BY <1>0, <1>1 DEF CommandInv
<1>3. ASSUME NEW new \in Entry, Good(new), Put(x, new), cmd' = cmd, UNCHANGED <<version, moves, owned>>,
             new.kind = e.kind, new.marker => e.marker
      PROVE  InstallerInv'
  <2>1. /\ place' \in [Places -> Entry] /\ EntriesInv'
        /\ place'[x] = new /\ \A y \in Places \ {x} : place'[y] = place[y]
    BY <1>1, <1>3, Putting
  <2>2. TypeOK'
    BY <1>1, <1>3, <2>1, CommandFields, TypeFrom
  <2>3. \A y \in Places : Owned(y)' => Owned(y)
    BY <1>3, <2>1 DEF Owned
  <2>4. CommandInv'
    BY <1>1, <1>3, <2>3 DEF CommandInv, AtRest
  <2>5. cmd.op = "install" /\ cmd.conflicts = {} /\ x # Hub => Complete(place[Hub])'
    BY <1>0, <1>1, <1>3, <2>1, PlacesOf DEF BehindInv, Complete
  <2>6. BehindInv'
    BY <1>0, <1>1, <1>3, <2>1, <2>5, StayBehind DEF Working, AtRest, SameTask
  <2>7. QED
    BY <2>1, <2>2, <2>4, <2>6 DEF InstallerInv
<1>4. ASSUME NEW f \in Files, Put(x, [e EXCEPT !.files[f] = 0]), Do(cmd), e.files[f] # 0
      PROVE  InstallerInv'
  <2> DEFINE fs == [e.files EXCEPT ![f] = 0]
             new == [e EXCEPT !.files = fs]
  <2>1. fs \in [Files -> 0 .. MaxVersion]
    BY <1>1, InstallerAssumption DEF Entry
  <2>2. e.kind = "dir"
    BY <1>1, <1>4 DEF Good, Absent
  <2> HIDE DEF fs
  <2>3. new \in Entry /\ new.kind = e.kind /\ new.marker = e.marker /\ new.toHub = e.toHub
    BY <1>1, <2>1 DEF Entry
  <2>4. Good(new)
    BY <1>1, <2>2, <2>3 DEF Good
  <2>5. Put(x, new)
    BY <1>4 DEF fs
  <2> HIDE DEF new
  <2>6. QED
    BY <1>3, <1>4, <2>3, <2>4, <2>5 DEF Do
<1>5. ASSUME \/ e.marker /\ Put(x, [e EXCEPT !.marker = FALSE])
             \/ e.mine /\ Put(x, [e EXCEPT !.mine = FALSE]),
             Do(cmd)
      PROVE  InstallerInv'
  <2>1. \A new \in {[e EXCEPT !.marker = FALSE], [e EXCEPT !.mine = FALSE]} :
          new \in Entry /\ Good(new) /\ new.kind = e.kind /\ (new.marker => e.marker)
    BY <1>1 DEF Entry, Good
  <2>2. QED
    BY <1>3, <1>5, <2>1 DEF Do
<1>6. CASE cmd.op = "install" /\ Put(x, None) /\ Do([cmd EXCEPT !.pc = "tree", !.left = Files])
  <2>1. /\ place' \in [Places -> Entry] /\ EntriesInv'
        /\ place'[x] = None /\ \A y \in Places \ {x} : place'[y] = place[y]
    BY <1>1, <1>6, Putting, Entries
  <2>2. /\ cmd' \in Command /\ SameTask(cmd') /\ cmd'.todo = cmd.todo /\ cmd'.at = x
        /\ cmd'.conflicts = cmd.conflicts /\ cmd'.removeHub = cmd.removeHub
        /\ cmd'.pc = "tree" /\ cmd'.left = Files /\ UNCHANGED <<version, moves, owned>>
    BY <1>0, <1>1, <1>6, Opened DEF SameTask, Do
  <2>3. TypeOK'
    BY <1>1, <2>1, <2>2, CommandFields, TypeFrom
  <2>4. place'[x].kind = "none"
    BY <2>1, Entries
  <2>5. CommandInv'
    BY <1>0, <1>1, <1>2, <1>6, <2>2, <2>4 DEF CommandInv, SameTask, AtRest
  <2>6. cmd.conflicts = {} /\ x # Hub => Complete(place[Hub])'
    BY <1>0, <1>1, <1>6, <2>1, <2>2, PlacesOf DEF BehindInv, Complete
  <2>7. BehindInv'
    BY <1>0, <1>1, <2>1, <2>2, <2>6, StayBehind DEF Working, AtRest
  <2>8. QED
    BY <2>1, <2>3, <2>5, <2>7 DEF InstallerInv
<1>7. CASE cmd.op = "uninstall" /\ Put(x, None) /\ Do(Onward(cmd))
  BY <1>1, <1>7, LosesStep, Entries DEF Do
<1>8. QED
  <2>1. \/ \E f \in Files : e.files[f] # 0 /\ Put(x, [e EXCEPT !.files[f] = 0]) /\ Do(cmd)
        \/ e.marker /\ Put(x, [e EXCEPT !.marker = FALSE]) /\ Do(cmd)
        \/ e.mine /\ Put(x, [e EXCEPT !.mine = FALSE]) /\ Do(cmd)
        \/ /\ Put(x, None)
           /\ Do(IF cmd.op = "install" THEN [cmd EXCEPT !.pc = "tree", !.left = Files]
                 ELSE Onward(cmd))
    BY <1>0 DEF Remove
  <2>2. QED
    BY <1>1, <1>4, <1>5, <1>6, <1>7, <2>1
-----------------------------------------------------------------------------
(* Between the commands.                                                   *)

LEMMA NoCommandIs ==
  /\ NoCommand \in Command
  /\ NoCommand.op = "none" /\ NoCommand.pc = "idle" /\ NoCommand.at = Hub /\ NoCommand.todo = {}
  /\ ~NoCommand.force /\ ~NoCommand.copy /\ ~NoCommand.removeHub
  /\ NoCommand.conflicts = {} /\ NoCommand.left = {}
BY PlacesOf DEF NoCommand, Command

\* No command: after a death, a release or a move of the user.
LEMMA RestStep ==
  ASSUME InstallerInv, cmd' = NoCommand, place' \in [Places -> Entry], EntriesInv',
         version' \in Versions, moves' \in 0 .. MaxMoves, UNCHANGED owned
  PROVE  InstallerInv'
<1>1. TypeOK'
  BY NoCommandIs, TypeFrom, CommandFields DEF InstallerInv
<1>2. CommandInv'
  BY NoCommandIs DEF CommandInv, AtRest
<1>3. QED
  BY <1>1, <1>2, NoCommandIs DEF InstallerInv, BehindInv

LEMMA UserStep ==
  ASSUME InstallerInv, NEW x \in Places, UserMove(x)
  PROVE  InstallerInv'
<1>1. TypeOK /\ EntriesInv /\ place[x] \in Entry /\ Good(place[x]) /\ moves \in 0 .. MaxMoves
  BY CommandFields DEF InstallerInv, EntriesInv, TypeOK
<1>2. ASSUME NEW e \in Entry, Good(e), Put(x, e) PROVE InstallerInv'
  <2>1. place' \in [Places -> Entry] /\ EntriesInv'
    BY <1>1, <1>2, Putting
  <2>2. version' \in Versions /\ moves' \in 0 .. MaxMoves /\ cmd' = NoCommand /\ UNCHANGED owned
    BY <1>1, CommandFields, InstallerAssumption DEF UserMove, Rest
  <2>3. QED
    BY <2>1, <2>2, RestStep
<1>3. ASSUME NEW e \in {[EmptyDir EXCEPT !.mine = TRUE], HubLink,
                        [None EXCEPT !.kind = "file", !.mine = TRUE],
                        [None EXCEPT !.kind = "link", !.mine = TRUE]},
             Put(x, IF x = Hub THEN [e EXCEPT !.toHub = FALSE, !.mine = TRUE] ELSE e)
      PROVE  InstallerInv'
  <2>1. Absent \in [Files -> 0 .. MaxVersion]
    BY Entries
  <2>2. e \in Entry /\ Good(e) /\ e.kind # "none"
    <3>1. \A d \in Entry, k \in {"file", "link", "dir"} : d.files = Absent /\ ~d.marker /\ ~d.toHub =>
            LET n == [d EXCEPT !.kind = k, !.mine = TRUE]
            IN  n \in Entry /\ Good(n) /\ n.kind # "none"
      BY DEF Entry, Good
    <3>2. /\ None.files = Absent /\ ~None.marker /\ ~None.toHub
          /\ EmptyDir.files = Absent /\ ~EmptyDir.marker /\ ~EmptyDir.toHub /\ EmptyDir.kind = "dir"
      BY DEF None, EmptyDir, Made
    <3>3. \A d \in Entry : d.kind = "dir" => [d EXCEPT !.mine = TRUE] = [d EXCEPT !.kind = "dir", !.mine = TRUE]
      BY DEF Entry
    <3>4. HubLink \in Entry /\ Good(HubLink) /\ HubLink.kind # "none" /\ None \in Entry /\ EmptyDir \in Entry
      BY Entries
    <3>5. QED
      BY <1>3, <3>1, <3>2, <3>3, <3>4
  <2>3. /\ [e EXCEPT !.toHub = FALSE, !.mine = TRUE] \in Entry
        /\ Good([e EXCEPT !.toHub = FALSE, !.mine = TRUE])
    BY <2>2 DEF Entry, Good
  <2>4. QED
    BY <1>2, <1>3, <2>2, <2>3
<1>4. ASSUME place[x].kind = "dir",
             NEW e \in {[place[x] EXCEPT !.mine = TRUE], [place[x] EXCEPT !.marker = FALSE]},
             Put(x, e)
      PROVE  InstallerInv'
  <2>1. e \in Entry /\ Good(e)
    BY <1>1, <1>4 DEF Entry, Good
  <2>2. QED
    BY <1>2, <1>4, <2>1
<1>5. QED
  BY <1>3, <1>4 DEF UserMove
\* An install finds nothing at the hub, or its own directory, or ends at once.
LEMMA BeginInstallStep ==
  ASSUME InstallerInv, NEW S \in SUBSET Range(Harnesses), NEW copy \in BOOLEAN,
         NEW force \in BOOLEAN, BeginInstall(S, copy, force)
  PROVE  InstallerInv'
<1> DEFINE c == [NoCommand EXCEPT !.op = "install", !.copy = copy, !.force = force,
                   !.selected = S, !.todo = Selected(S)]
<1>1. TypeOK /\ EntriesInv /\ UNCHANGED <<place, version, moves>> /\ (force => copy)
  BY DEF InstallerInv, BeginInstall, Start
<1>2. owned' = {x \in Places : Owned(x)}
  BY DEF BeginInstall, Start
<1>3. /\ c \in Command /\ c.op = "install" /\ c.copy = copy /\ c.force = force
      /\ c.selected = S /\ c.todo = Selected(S) /\ c.at = Hub /\ c.conflicts = {} /\ ~c.removeHub
  <2>1. Selected(S) \in SUBSET DOMAIN Harnesses
    BY DEF Selected
  <2>2. QED
    BY <2>1, NoCommandIs DEF Command
<1>4. \/ Has(Hub) /\ ~Owned(Hub) /\ cmd' = [Conflict(c, Hub) EXCEPT !.pc = "done"]
      \/ (~Has(Hub) \/ Owned(Hub)) /\ cmd' = [c EXCEPT !.pc = "tree", !.left = Files]
  BY DEF BeginInstall, Start
<1> HIDE DEF c
<1>5. /\ cmd' \in Command /\ cmd'.op = "install" /\ cmd'.copy = copy /\ cmd'.force = force
      /\ cmd'.selected = S /\ cmd'.todo = Selected(S) /\ cmd'.at = Hub /\ ~cmd'.removeHub
      /\ \/ cmd'.pc = "done" /\ cmd'.conflicts # {}
         \/ cmd'.pc = "tree" /\ cmd'.left = Files /\ (~Has(Hub) \/ Owned(Hub))
  <2>1. CASE cmd' = [Conflict(c, Hub) EXCEPT !.pc = "done"]
    <3> DEFINE d == Conflict(c, Hub)
    <3>1. /\ d \in Command /\ d.conflicts # {} /\ d.op = c.op /\ d.copy = c.copy
          /\ d.force = c.force /\ d.selected = c.selected /\ d.removeHub = c.removeHub
          /\ d.todo = c.todo /\ d.at = c.at
      BY <1>3, PlacesOf, Conflicts
    <3> HIDE DEF d
    <3>2. cmd' = [d EXCEPT !.pc = "done"]
      BY <2>1 DEF d
    <3>3. /\ cmd' \in Command /\ cmd'.pc = "done" /\ cmd'.op = d.op /\ cmd'.copy = d.copy
          /\ cmd'.force = d.force /\ cmd'.selected = d.selected /\ cmd'.conflicts = d.conflicts
          /\ cmd'.removeHub = d.removeHub /\ cmd'.todo = d.todo /\ cmd'.at = d.at
      BY <3>1, <3>2, Turned
    <3>4. QED
      BY <1>3, <3>1, <3>3
  <2>2. CASE cmd' = [c EXCEPT !.pc = "tree", !.left = Files] /\ (~Has(Hub) \/ Owned(Hub))
    BY <1>3, <2>2, Opened
  <2>3. QED
    BY <1>4, <2>1, <2>2
<1>6. EntriesInv' /\ TypeOK'
  <2>1. EntriesInv'
    BY <1>1 DEF EntriesInv
  <2>2. QED
    BY <1>1, <1>2, <1>5, <2>1, CommandFields, TypeFrom
<1>7. \A i \in cmd'.todo : Harnesses[i] \in cmd'.selected
  BY <1>5 DEF Selected
<1>8. CommandInv'
  BY <1>1, <1>5, <1>7 DEF CommandInv, Has, Owned
<1>9. BehindInv'
  <2>1. ASSUME NEW h \in cmd'.selected PROVE \E i \in cmd'.todo : Harnesses[i] = h
    <3>1. h \in S /\ h \in Range(Harnesses)
      BY <1>5
    <3>2. PICK i \in DOMAIN Harnesses : Harnesses[i] = h
      BY <3>1 DEF Range
    <3>3. QED
      BY <1>5, <3>1, <3>2 DEF Selected
  <2>2. QED
    BY <1>5, <2>1 DEF BehindInv, Working
<1>10. QED
  BY <1>6, <1>8, <1>9 DEF InstallerInv

LEMMA BeginUninstallStep ==
  ASSUME InstallerInv, NEW S \in SUBSET Range(Harnesses), NEW removeHub \in BOOLEAN,
         BeginUninstall(S, removeHub)
  PROVE  InstallerInv'
<1> DEFINE c == [NoCommand EXCEPT !.op = "uninstall", !.asked = removeHub,
                   !.removeHub = removeHub, !.selected = S, !.todo = Selected(S)]
<1>1. TypeOK /\ EntriesInv /\ UNCHANGED <<place, version, moves>>
  BY DEF InstallerInv, BeginUninstall, Start
<1>2. owned' = {x \in Places : Owned(x)} /\ cmd' = Onward(c)
  BY DEF BeginUninstall, Start
<1>3. /\ c \in Command /\ c.op = "uninstall" /\ ~c.copy /\ ~c.force
      /\ c.selected = S /\ c.todo = Selected(S) /\ c.at = Hub
  <2>1. Selected(S) \in SUBSET DOMAIN Harnesses
    BY DEF Selected
  <2>2. QED
    BY <2>1, NoCommandIs DEF Command
<1> HIDE DEF c
<1>4. /\ cmd' \in Command /\ cmd'.op = "uninstall" /\ ~cmd'.force /\ cmd'.selected = S
      /\ \/ cmd'.todo = {} /\ cmd'.at = Hub /\ cmd'.pc \in {"hub", "done"}
         \/ \E i \in Selected(S) : /\ cmd'.pc = "target" /\ cmd'.at = PlaceOf(Harnesses[i])
                                   /\ cmd'.todo = Selected(S) \ {i}
  BY <1>2, <1>3, Onwards
<1>5. EntriesInv' /\ TypeOK'
  <2>1. EntriesInv'
    BY <1>1 DEF EntriesInv
  <2>2. QED
    BY <1>1, <1>2, <1>4, <2>1, CommandFields, TypeFrom
<1>6. \A i \in Selected(S) : Harnesses[i] \in S
  BY DEF Selected
<1>7. \A x \in Places : Owned(x)' => x \in owned'
  BY <1>1, <1>2 DEF Owned
<1>8. CommandInv'
  BY <1>4, <1>6, <1>7 DEF CommandInv
<1>9. QED
  BY <1>4, <1>5, <1>8 DEF InstallerInv, BehindInv
-----------------------------------------------------------------------------
(* The theorems.                                                           *)

LEMMA InitialInv == Init => InstallerInv
<1> SUFFICES ASSUME Init PROVE InstallerInv
  OBVIOUS
<1>1. place = [x \in Places |-> None] /\ version = 1 /\ cmd = NoCommand /\ moves = 0 /\ owned = {}
  BY DEF Init
<1>2. place \in [Places -> Entry] /\ EntriesInv
  BY <1>1, Entries DEF EntriesInv
<1>3. TypeOK
  BY <1>1, <1>2, NoCommandIs, InstallerAssumption DEF TypeOK, EntriesInv, Good, Versions
<1>4. CommandInv
  BY <1>1, NoCommandIs DEF CommandInv, AtRest
<1>5. QED
  BY <1>1, <1>2, <1>3, <1>4, NoCommandIs DEF InstallerInv, BehindInv

LEMMA InstallerStep ==
  ASSUME InstallerInv, [Next]_vars
  PROVE  InstallerInv'
<1>1. CASE Begin
  BY <1>1, BeginInstallStep, BeginUninstallStep DEF Begin
<1>2. CASE Work
  BY <1>2, InstallFileStep, TruncateMarkerStep, WriteMarkerStep, CopyTargetStep, LinkTargetStep, MakeLinkStep,
     RemoveTargetStep, RemoveHubStep, RemoveStep DEF Work
<1>3. CASE Die \/ Release
  <2>1. cmd' = NoCommand /\ UNCHANGED <<place, moves, owned>>
    BY <1>3 DEF Die, Release, Rest
  <2>2. version' \in Versions
    BY <1>3, CommandFields, InstallerAssumption DEF Die, Release, InstallerInv, Versions
  <2>3. place' \in [Places -> Entry] /\ EntriesInv' /\ moves' \in 0 .. MaxMoves
    BY <2>1, CommandFields DEF InstallerInv, EntriesInv
  <2>4. QED
    BY <2>1, <2>2, <2>3, RestStep
<1>4. CASE \E x \in Places : UserMove(x)
  BY <1>4, UserStep
<1>5. CASE UNCHANGED vars
  BY <1>5 DEF vars, InstallerInv, TypeOK, EntriesInv, CommandInv, BehindInv, AtRest, Working,
       Settled, Complete, Has, Owned
<1>6. QED
  BY <1>1, <1>2, <1>3, <1>4, <1>5 DEF Next

LEMMA InstallerInvariance == Spec => []InstallerInv
<1>1. InstallerInv /\ [Next]_vars => InstallerInv'
  BY InstallerStep
<1>2. QED
  BY InitialInv, <1>1, PTL DEF Spec

\* Whatever is installed, uninstalled, interrupted and moved about, in any order,
\* every variable keeps its type, and a link or a file never holds files of the
\* skill: no command of installer.py writes through a link.
THEOREM InstallerTypes == Spec => []TypeOK
<1>1. InstallerInv => TypeOK
  BY DEF InstallerInv
<1>2. QED
  BY <1>1, InstallerInvariance, PTL

\* An install that reports no conflict has installed, for any number of harnesses
\* and files and whatever earlier commands left where they died: the hub is
\* complete and each selected harness reaches it or has a complete copy.
THEOREM InstallsAreComplete == Spec => []InstallIsComplete
<1>1. ASSUME InstallerInv PROVE InstallIsComplete
  <2> SUFFICES ASSUME cmd.pc = "done", cmd.op = "install", cmd.conflicts = {}
               PROVE  Complete(place[Hub]) /\ \A h \in cmd.selected : Settled(h)
    BY DEF InstallIsComplete, Settled
  <2>1. cmd.todo = {}
    BY <1>1 DEF InstallerInv, CommandInv
  <2>2. QED
    BY <1>1, <2>1 DEF InstallerInv, BehindInv, Working, AtRest
<1>2. QED
  BY <1>1, InstallerInvariance, PTL

LEMMA PreservesStep ==
  ASSUME InstallerInv, [Next]_vars, NEW x \in Places, place[x].mine, ~place'[x].mine, x \notin owned
  PROVE  /\ cmd.op = "install" /\ x = cmd.at
         /\ cmd.force \/ place[x].kind = "link"
<1>1. /\ place \in [Places -> Entry] /\ place[x] \in Entry /\ Good(place[x]) /\ Has(x)
      /\ cmd \in Command /\ cmd.at \in Places /\ CommandInv
  BY CommandFields DEF InstallerInv, EntriesInv, Good, Has
<1>2. ~UNCHANGED place
  BY <1>1
<1>3. \A y \in Places : \A e : Put(y, e) => y = x /\ ~e.mine
  BY <1>1 DEF Put
<1>4. ASSUME Put(cmd.at, None) PROVE x = cmd.at
  BY <1>1, <1>3, <1>4
<1>5. ASSUME NEW f \in Files PROVE ~InstallFile(f)
  <2> SUFFICES ASSUME InstallFile(f) PROVE FALSE
    OBVIOUS
  <2> DEFINE e == IF Has(cmd.at) THEN place[cmd.at] ELSE EmptyDir
             new == [e EXCEPT !.files[f] = version]
  <2>1. Put(cmd.at, new)
    BY DEF InstallFile
  <2>2. e \in Entry
    BY <1>1, Entries
  <2>3. cmd.at = x /\ ~new.mine
    BY <1>1, <1>3, <2>1
  <2>4. e = place[x]
    BY <1>1, <2>3
  <2> HIDE DEF e
  <2>5. new.mine = e.mine
    BY <2>2 DEF Entry
  <2>6. QED
    BY <2>3, <2>4, <2>5
<1>6. ~TruncateMarker /\ ~WriteMarker
  <2> SUFFICES ASSUME TruncateMarker \/ WriteMarker PROVE FALSE
    OBVIOUS
  <2>1. PICK b \in BOOLEAN : Put(cmd.at, [place[cmd.at] EXCEPT !.marker = b])
    BY DEF TruncateMarker, WriteMarker
  <2>2. cmd.at = x /\ ~[place[x] EXCEPT !.marker = b].mine
    BY <1>1, <1>3, <2>1
  <2>3. QED
    BY <1>1, <2>2 DEF Entry
<1>7. ~CopyTarget /\ ~RemoveHub
  BY <1>2 DEF CopyTarget, RemoveHub, Skip
<1>8. CASE LinkTarget
  BY <1>2, <1>4, <1>8 DEF LinkTarget, Skip
<1>9. ~MakeLink
  BY <1>1, <1>3 DEF MakeLink, CommandInv
<1>10. ~RemoveTarget
  BY <1>1, <1>2, <1>4 DEF RemoveTarget, Skip, Good
<1>11. CASE Remove
  <2>1. cmd.pc = "remove" /\ \E e : Put(cmd.at, e)
    BY <1>11 DEF Remove
  <2>2. x = cmd.at
    BY <1>1, <1>3, <2>1
  <2>3. cmd.op = "install" /\ cmd.force
    BY <1>1, <2>1, <2>2 DEF CommandInv
  <2>4. QED
    BY <2>2, <2>3
<1>12. ~Begin /\ ~Die /\ ~Release
  BY <1>2 DEF Begin, BeginInstall, BeginUninstall, Start, Die, Release
<1>13. ASSUME NEW y \in Places PROVE ~UserMove(y)
  <2> SUFFICES ASSUME UserMove(y) PROVE FALSE
    OBVIOUS
  <2>1. y = x /\ place[x].kind = "dir"
    BY <1>1, <1>3 DEF UserMove, Has
  <2>2. \/ Put(x, [place[x] EXCEPT !.mine = TRUE])
        \/ Put(x, [place[x] EXCEPT !.marker = FALSE])
    BY <2>1 DEF UserMove, Has
  <2>3. \A e \in {[place[x] EXCEPT !.mine = TRUE], [place[x] EXCEPT !.marker = FALSE]} : e.mine
    BY <1>1 DEF Entry
  <2>4. QED
    BY <1>3, <2>2, <2>3
<1>14. QED
  BY <1>2, <1>5, <1>6, <1>7, <1>8, <1>9, <1>10, <1>11, <1>12, <1>13 DEF Next, Work, vars

\* What the user put under a name the installer never marked survives every command,
\* dead ones included, but for an install with force on that very target, or the
\* repointing of a link: _remove_install_target is reached no other way.
THEOREM UnownedIsPreserved == Spec => UnownedPreserved
<1>1. InstallerInv /\ [Next]_vars =>
        [\A x \in Places :
           place[x].mine /\ ~place'[x].mine /\ x \notin owned =>
             /\ cmd.op = "install" /\ x = cmd.at
             /\ cmd.force \/ place[x].kind = "link"]_vars
  BY PreservesStep
<1>2. QED
  BY <1>1, InstallerInvariance, PTL DEF Spec, UnownedPreserved

LEMMA IdempotentStep ==
  ASSUME InstallerInv, [Next]_vars, cmd.op = "install", ~cmd.copy, ~AtRest,
         place[Hub].kind = "dir", \A f \in Files : place[Hub].files[f] = version,
         \A h \in cmd.selected : PlaceOf(h) # Hub => place[h] = HubLink
  PROVE  /\ \A y \in Places \ {Hub} : place'[y] = place[y]
         /\ place'[Hub] = [place[Hub] EXCEPT !.marker = place'[Hub].marker]
<1>0. PICK x \in Places : x = cmd.at
  BY CommandFields DEF InstallerInv
<1>1. /\ place \in [Places -> Entry] /\ place[x] \in Entry /\ cmd \in Command /\ CommandInv
  BY <1>0, CommandFields DEF InstallerInv
<1>2. x = Hub \/ place[x] = HubLink
  <2>1. x = Hub \/ \E h \in cmd.selected : x = PlaceOf(h)
    BY <1>0, <1>1 DEF CommandInv
  <2>2. \A h \in cmd.selected : h \in Range(Harnesses)
    BY <1>1 DEF Command
  <2>3. QED
    BY <2>1, <2>2, PlacesOf
<1>3. cmd.pc = "tree" => x = Hub
  BY <1>0, <1>1 DEF CommandInv
<1>4. ~cmd.force
  BY <1>1 DEF CommandInv
<1>5. Has(x) /\ (place[x].kind = "link" => place[x].toHub)
  BY <1>2, Entries DEF Has
<1>6. ASSUME NEW f \in Files, InstallFile(f) PROVE place' = place
  <2>1. Put(x, [place[x] EXCEPT !.files[f] = version]) /\ place[x].files[f] = version
    BY <1>0, <1>3, <1>5, <1>6 DEF InstallFile
  <2>2. [place[x] EXCEPT !.files[f] = version] = place[x]
    <3>1. [place[x].files EXCEPT ![f] = version] = place[x].files
      BY <1>1, <2>1 DEF Entry
    <3>2. QED
      BY <1>1, <3>1 DEF Entry
  <2>3. QED
    BY <1>1, <2>1, <2>2 DEF Put
<1>7. ASSUME TruncateMarker \/ WriteMarker
      PROVE  /\ \A y \in Places \ {Hub} : place'[y] = place[y]
             /\ place'[Hub] = [place[Hub] EXCEPT !.marker = place'[Hub].marker]
  <2>1. PICK b \in BOOLEAN : Put(x, [place[x] EXCEPT !.marker = b])
    BY <1>0, <1>7 DEF TruncateMarker, WriteMarker
  <2>2. x = Hub
    BY <1>0, <1>1, <1>3, <1>7 DEF TruncateMarker, WriteMarker, CommandInv
  <2>3. [place[x] EXCEPT !.marker = b].marker = b
    BY <1>1 DEF Entry
  <2>4. QED
    BY <1>1, <2>1, <2>2, <2>3 DEF Put
<1>8. ASSUME LinkTarget PROVE place' = place
  BY <1>0, <1>5, <1>8 DEF LinkTarget, Skip
<1>9. ~CopyTarget /\ ~RemoveTarget /\ ~MakeLink /\ ~RemoveHub /\ ~Remove
  BY <1>0, <1>1, <1>4, <1>5 DEF CopyTarget, RemoveTarget, MakeLink, RemoveHub, Remove, CommandInv
<1>10. ASSUME Begin \/ Die \/ Release \/ \E y \in Places : UserMove(y) PROVE place' = place
  BY <1>10 DEF Begin, BeginInstall, BeginUninstall, Start, Die, Release, UserMove, Rest, AtRest
<1>11. CASE place' = place
  <2>1. [place[Hub] EXCEPT !.marker = place[Hub].marker] = place[Hub]
    BY <1>1, PlacesOf DEF Entry
  <2>2. QED
    BY <1>11, <2>1
<1>12. QED
  BY <1>6, <1>7, <1>8, <1>9, <1>10, <1>11 DEF Next, Work, vars

\* Installing again is idempotent, step by step: with the hub's files current and the
\* links right, no step of an install without copies changes anything under any name
\* but the hub's marker, which installer.py writes again in place.
THEOREM InstallIsIdempotent == Spec => Idempotent
<1>1. InstallerInv /\ [Next]_vars =>
        [cmd.op = "install" /\ ~cmd.copy /\ cmd.pc \notin {"idle", "done"}
           /\ place[Hub].kind = "dir" /\ (\A f \in Files : place[Hub].files[f] = version)
           /\ (\A h \in cmd.selected : PlaceOf(h) # Hub => place[h] = HubLink)
         => /\ \A x \in Places \ {Hub} : place'[x] = place[x]
            /\ place'[Hub] = [place[Hub] EXCEPT !.marker = place'[Hub].marker]]_vars
  BY IdempotentStep DEF AtRest
<1>2. QED
  BY <1>1, InstallerInvariance, PTL DEF Spec, Idempotent
=============================================================================
