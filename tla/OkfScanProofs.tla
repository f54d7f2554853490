---------------------------- MODULE OkfScanProofs ----------------------------
(***************************************************************************)
(* An inductive invariant of OkfScan, for any tree, any contents and       *)
(* whatever the user does to the tree while it is scanned.                 *)
(***************************************************************************)
EXTENDS OkfScan, FiniteSetTheorems, WellFoundedInduction, TLAPS

Same(e, f) == Fingerprint(Content[read[e]]) = Fingerprint(Content[read[f]])

\* The candidates are read in byte order, after the walk.
WalkInv ==
  /\ todo \subseteq Entries /\ found \subseteq Entries
  /\ DOMAIN read \subseteq found
  /\ \A e \in DOMAIN read : read[e] = "unsafe" \/ read[e] \in Documents
  /\ at \in {"list", "walk", "open"} => DOMAIN read = {}
  /\ at = "done" => found = DOMAIN read
  /\ \A e \in DOMAIN read : \A f \in found \ DOMAIN read : e < f

\* The records kept are the first of each content among those read, in order;
\* each record read is one of them or repeats one of them.
KeptInv ==
  /\ records \in Seq(Entries)
  /\ \A e : e \in Range(records) <=> e \in Records /\ \A f \in Records : f < e => ~Same(f, e)
  /\ \A e \in Records : \E r \in Range(records) : Same(r, e)
  /\ \A i, j \in DOMAIN records : i < j => records[i] < records[j]

TallyInv ==
  /\ counters \in [CounterNames -> Nat]
  /\ counters["scanned"] = Cardinality(DOMAIN read)
  /\ counters["scanned"] = counters["parsed"] + counters["invalid_yaml"]
                           + counters["invalid_schema"] + counters["unsafe_path"]
  /\ counters["parsed"] = Len(records) + counters["duplicate_content"]

ErrorInv ==
  /\ errors \in Seq(Entries) /\ Len(errors) <= MaxErrors
  /\ Len(errors) < MaxErrors => DOMAIN read \ Range(records) \subseteq Range(errors)

Inv == WalkInv /\ KeptInv /\ TallyInv /\ ErrorInv

-----------------------------------------------------------------------------
(* A scan that has not begun.                                              *)

LEMMA Unread ==
  ASSUME ScanAssumption, at = "list", todo = {}, found = {}, read = <<>>,
         counters = [n \in CounterNames |-> 0], errors = <<>>, records = <<>>
  PROVE  Inv
<1>1. DOMAIN read = {} /\ Records = {} /\ Range(records) = {} /\ Len(records) = 0
  BY DEF Records, Range
<1>2. WalkInv
  BY <1>1 DEF WalkInv
<1>3. KeptInv
  BY <1>1 DEF KeptInv
<1>4. Cardinality(DOMAIN read) = 0
  BY <1>1, FS_EmptySet
<1>5. TallyInv
  BY <1>1, <1>4 DEF TallyInv, CounterNames
<1>6. ErrorInv
  BY <1>1 DEF ErrorInv, ScanAssumption
<1>7. QED
  BY <1>2, <1>3, <1>5, <1>6 DEF Inv

\* What it leaves when it returns, or dies with the process.
LEMMA Forgotten ==
  ASSUME ScanAssumption, at' = "list", todo' = {}, found' = {}, read' = <<>>,
         counters' = [n \in CounterNames |-> 0], errors' = <<>>, records' = <<>>
  PROVE  Inv'
<1>1. DOMAIN read' = {} /\ Records' = {} /\ Range(records)' = {} /\ Len(records') = 0
  BY DEF Records, Range
<1>2. WalkInv'
  BY <1>1 DEF WalkInv
<1>3. KeptInv'
  BY <1>1 DEF KeptInv
<1>4. Cardinality(DOMAIN read') = 0
  BY <1>1, FS_EmptySet
<1>5. TallyInv'
  BY <1>1, <1>4 DEF TallyInv, CounterNames
<1>6. ErrorInv'
  BY <1>1 DEF ErrorInv, ScanAssumption
<1>7. QED
  BY <1>2, <1>3, <1>5, <1>6 DEF Inv

LEMMA InvInit ==
  ASSUME ScanAssumption, NEW trees, InitWith(trees)
  PROVE  Inv
BY Unread DEF InitWith

-----------------------------------------------------------------------------
(* The steps that read nothing.                                            *)

\* What was read and counted stays: only the walk goes on.
LEMMA WalkedOn ==
  ASSUME Inv, WalkInv', UNCHANGED <<read, counters, errors, records>>
  PROVE  Inv'
<1>1. Records' = Records
  BY DEF Records
<1>2. KeptInv'
  BY <1>1 DEF Inv, KeptInv, Same
<1>3. TallyInv'
  BY DEF Inv, TallyInv
<1>4. ErrorInv'
  BY DEF Inv, ErrorInv
<1>5. QED
  BY <1>2, <1>3, <1>4 DEF Inv

LEMMA Least ==
  ASSUME NEW S \in SUBSET Nat, S # {}
  PROVE  Min(S) \in S /\ \A k \in S : Min(S) <= k
<1>1. IsWellFoundedOn(OpToRel(<, Nat), Nat)
  BY NatLessThanWellFounded
<1>2. PICK m \in S : \A k \in S : ~(<<k, m>> \in OpToRel(<, Nat))
  BY <1>1, WFMin
<1>3. \A k \in S : k \in Nat /\ m \in Nat /\ ~(k < m)
  BY <1>2 DEF OpToRel
<1>4. \A k \in S : m =< k
  BY <1>3
<1>5. QED
  BY <1>4 DEF Min

LEMMA AbortKeeps ==
  ASSUME Inv, Abort
  PROVE  Inv'
<1>1. WalkInv'
  BY DEF Abort, Inv, WalkInv
<1>2. QED
  BY <1>1, WalkedOn DEF Abort

LEMMA WalkKeeps ==
  ASSUME ScanAssumption, Inv, ListRoot \/ Look \/ OpenFolder \/ Walked \/ Finish
  PROVE  Inv'
<1>1. CASE ListRoot
  <2>1. WalkInv'
    BY <1>1 DEF ListRoot, Inv, WalkInv
  <2>2. QED
    BY <1>1, <2>1, WalkedOn DEF ListRoot
<1>2. CASE Look
  <2> DEFINE e == Min(todo)
  <2>1. e \in Entries
    BY <1>2, Least DEF Look, Inv, WalkInv, ScanAssumption
  <2> HIDE DEF e
  <2>2. CASE Abort
    BY <2>2, AbortKeeps
  <2>3. CASE ~Abort
    <3>1. /\ at = "walk" /\ at' \in {"open", "walk"} /\ todo' = todo \ {e}
          /\ found' \subseteq found \cup {e} /\ found \subseteq found'
          /\ UNCHANGED <<read, counters, errors, records>>
      BY <1>2, <2>3 DEF Look, e
    <3>2. WalkInv'
      BY <2>1, <3>1 DEF Inv, WalkInv
    <3>3. QED
      BY <3>1, <3>2, WalkedOn
  <2>4. QED
    BY <2>2, <2>3
<1>3. CASE OpenFolder
  <2>1. CASE Abort
    BY <2>1, AbortKeeps
  <2>2. CASE ~Abort
    <3>1. /\ at = "open" /\ at' = "walk" /\ todo' \subseteq todo \cup Inside
          /\ UNCHANGED <<found, read, counters, errors, records>>
      BY <1>3, <2>2 DEF OpenFolder
    <3>2. WalkInv'
      BY <3>1 DEF Inv, WalkInv, ScanAssumption
    <3>3. QED
      BY <3>1, <3>2, WalkedOn
  <2>3. QED
    BY <2>1, <2>2
<1>4. CASE Walked
  <2>1. WalkInv'
    BY <1>4 DEF Walked, Inv, WalkInv
  <2>2. QED
    BY <1>4, <2>1, WalkedOn DEF Walked
<1>5. CASE Finish
  <2>1. WalkInv'
    BY <1>5 DEF Finish, Inv, WalkInv
  <2>2. QED
    BY <1>5, <2>1, WalkedOn DEF Finish
<1>6. QED
  BY <1>1, <1>2, <1>3, <1>4, <1>5

LEMMA ChangeKeeps ==
  ASSUME Inv, NEW e \in Entries, Change(e)
  PROVE  Inv'
<1>1. WalkInv'
  BY DEF Change, Inv, WalkInv
<1>2. QED
  BY <1>1, WalkedOn DEF Change

LEMMA Untouched ==
  ASSUME Inv, UNCHANGED vars
  PROVE  Inv'
<1>1. WalkInv'
  BY DEF vars, Inv, WalkInv
<1>2. QED
  BY <1>1, WalkedOn DEF vars

-----------------------------------------------------------------------------
(* One candidate is read.                                                  *)

\* e is the next candidate, and d what it is counted as.
Takes(e, d) ==
  /\ at = "read"
  /\ e \in found \ DOMAIN read /\ \A f \in found \ DOMAIN read : e <= f
  /\ d = "unsafe" \/ d \in Documents
  /\ read' = Extend(read, e, d)
  /\ UNCHANGED <<at, todo, found>>

LEMMA OneMore ==
  ASSUME ScanAssumption, Inv, NEW e, NEW d, Takes(e, d)
  PROVE  /\ e \in Entries /\ e \in Nat /\ e \notin DOMAIN read
         /\ DOMAIN read' = DOMAIN read \cup {e} /\ read'[e] = d
         /\ \A f \in DOMAIN read : read'[f] = read[f] /\ f < e
         /\ DOMAIN read \subseteq Nat
<1>1. e \in found \ DOMAIN read /\ found \subseteq Entries /\ Entries \subseteq Nat
  BY DEF Takes, Inv, WalkInv, ScanAssumption
<1>2. \A f \in DOMAIN read : f < e
  BY <1>1 DEF Inv, WalkInv
<1>3. read' = [x \in DOMAIN read \cup {e} |-> IF x = e THEN d ELSE read[x]]
  BY DEF Takes, Extend
<1>4. DOMAIN read \subseteq found
  BY DEF Inv, WalkInv
<1>5. QED
  BY <1>1, <1>2, <1>3, <1>4

LEMMA WalkStep ==
  ASSUME ScanAssumption, Inv, NEW e, NEW d, Takes(e, d)
  PROVE  WalkInv'
<1>1. /\ e \in Entries /\ e \in Nat /\ e \notin DOMAIN read
      /\ DOMAIN read' = DOMAIN read \cup {e} /\ read'[e] = d
      /\ \A f \in DOMAIN read : read'[f] = read[f] /\ f < e
  BY OneMore
<1>2. /\ at' = "read" /\ todo' = todo /\ found' = found /\ e \in found
      /\ \A f \in found \ DOMAIN read : e <= f
      /\ d = "unsafe" \/ d \in Documents
  BY DEF Takes
<1>3. \A x \in DOMAIN read', f \in found \ DOMAIN read' : x < f
  <2>1. TAKE x \in DOMAIN read', f \in found \ DOMAIN read'
  <2>2. f \in found \ DOMAIN read /\ f # e /\ e \in Nat /\ f \in Nat
    BY <1>1, <2>1 DEF Inv, WalkInv, ScanAssumption
  <2>3. CASE x = e
    BY <1>2, <2>2, <2>3
  <2>4. CASE x \in DOMAIN read
    BY <2>2, <2>4 DEF Inv, WalkInv
  <2>5. QED
    BY <1>1, <2>1, <2>3, <2>4
<1>4. \A x \in DOMAIN read' : read'[x] = "unsafe" \/ read'[x] \in Documents
  BY <1>1, <1>2 DEF Inv, WalkInv
<1>5. QED
  BY <1>1, <1>2, <1>3, <1>4 DEF Inv, WalkInv, Documents

LEMMA Counted ==
  ASSUME ScanAssumption, Inv, NEW e, NEW d, Takes(e, d)
  PROVE  Cardinality(DOMAIN read') = Cardinality(DOMAIN read) + 1
<1>1. IsFiniteSet(DOMAIN read)
  BY FS_Subset DEF Inv, WalkInv, ScanAssumption
<1>2. e \notin DOMAIN read /\ DOMAIN read' = DOMAIN read \cup {e}
  BY OneMore
<1>3. QED
  BY <1>1, <1>2, FS_AddElement

\* What was read before stays a record or none, and the same as others or not.
LEMMA Before ==
  ASSUME ScanAssumption, Inv, NEW e, NEW d, Takes(e, d)
  PROVE  /\ \A f : f \in Records' <=> f \in Records \/ (f = e /\ d # "unsafe" /\ Class(Content[d]) = "parsed")
         /\ \A f, g \in Records : Same(f, g)' <=> Same(f, g)
         /\ Records \subseteq DOMAIN read
<1>1. /\ e \notin DOMAIN read /\ DOMAIN read' = DOMAIN read \cup {e} /\ read'[e] = d
      /\ \A f \in DOMAIN read : read'[f] = read[f]
  BY OneMore
<1>2. Records \subseteq DOMAIN read
  BY DEF Records
<1>3. \A f : f \in Records' <=> f \in DOMAIN read' /\ read'[f] # "unsafe" /\ Class(Content[read'[f]]) = "parsed"
  BY DEF Records
<1>4. \A f : f \in Records <=> f \in DOMAIN read /\ read[f] # "unsafe" /\ Class(Content[read[f]]) = "parsed"
  BY DEF Records
<1>5. \A f : f \in Records' <=> f \in Records \/ (f = e /\ d # "unsafe" /\ Class(Content[d]) = "parsed")
  BY <1>1, <1>3, <1>4
<1>6. \A f, g \in Records : Same(f, g)' <=> Same(f, g)
  BY <1>1, <1>2 DEF Same
<1>7. QED
  BY <1>2, <1>5, <1>6

\* seen_ids and seen_content hold a record like it.
LEMMA Repeated ==
  ASSUME ScanAssumption, Inv, NEW e, NEW d, Takes(e, d)
  PROVE  Repeats(d) <=> \E r \in Range(records) : Same(r, e)'
<1>1. Range(records) \subseteq DOMAIN read
  BY DEF Inv, KeptInv, Records
<1>2. read'[e] = d /\ \A f \in DOMAIN read : read'[f] = read[f]
  BY OneMore
<1>3. \A r \in Range(records) : Same(r, e)' <=> Fingerprint(Content[read[r]]) = Fingerprint(Content[d])
  BY <1>1, <1>2 DEF Same
<1>4. QED
  BY <1>3 DEF Repeats

LEMMA Rejected ==
  ASSUME ScanAssumption, Inv, NEW e, NEW d, Takes(e, d), UNCHANGED records,
         d # "unsafe" /\ Class(Content[d]) = "parsed" => Repeats(d)
  PROVE  KeptInv'
<1>1. /\ e \notin DOMAIN read /\ e \in Nat /\ DOMAIN read \subseteq Nat
      /\ \A f \in DOMAIN read : f < e
  BY OneMore
<1>2. /\ \A f : f \in Records' <=> f \in Records \/ (f = e /\ d # "unsafe" /\ Class(Content[d]) = "parsed")
      /\ \A f, g \in Records : Same(f, g)' <=> Same(f, g)
      /\ Records \subseteq DOMAIN read
  BY Before
<1>3. Range(records) \subseteq Records
  BY DEF Inv, KeptInv
<1>4. e \in Records' => \E r \in Range(records) : Same(r, e)'
  BY <1>1, <1>2, Repeated
<1>5. ASSUME NEW x
      PROVE  x \in Range(records) <=> x \in Records' /\ \A f \in Records' : f < x => ~(Same(f, x)')
  <2>1. CASE x = e
    <3>1. e \notin Range(records)
      BY <1>1, <1>2, <1>3
    <3>2. e \in Records' => \E f \in Records' : f < e /\ Same(f, e)'
      BY <1>1, <1>2, <1>3, <1>4
    <3>3. QED
      BY <2>1, <3>1, <3>2
  <2>2. CASE x \in Records
    <3>1. x \in Range(records) <=> \A f \in Records : f < x => ~Same(f, x)
      BY <2>2 DEF Inv, KeptInv
    <3>2. ~(e < x)
      BY <1>1, <1>2, <2>2
    <3>3. QED
      BY <1>2, <2>2, <3>1, <3>2
  <2>3. CASE x # e /\ x \notin Records
    BY <1>2, <1>3, <2>3
  <2>4. QED
    BY <2>1, <2>2, <2>3
<1>6. \A x \in Records' : \E r \in Range(records) : Same(r, x)'
  BY <1>2, <1>3, <1>4 DEF Inv, KeptInv
<1>7. QED
  BY <1>5, <1>6 DEF Inv, KeptInv

LEMMA Appended ==
  ASSUME ScanAssumption, Inv, NEW e, NEW d, Takes(e, d), d # "unsafe",
         Class(Content[d]) = "parsed", ~Repeats(d), records' = Append(records, e)
  PROVE  KeptInv' /\ Len(records') = Len(records) + 1 /\ Range(records') = Range(records) \cup {e}
<1>1. /\ e \in Entries /\ e \notin DOMAIN read /\ e \in Nat /\ DOMAIN read \subseteq Nat
      /\ \A f \in DOMAIN read : f < e
  BY OneMore
<1>2. /\ \A f : f \in Records' <=> f \in Records \/ f = e
      /\ \A f, g \in Records : Same(f, g)' <=> Same(f, g)
      /\ Records \subseteq DOMAIN read
  BY Before
<1>3. Range(records) \subseteq Records /\ records \in Seq(Entries)
  BY DEF Inv, KeptInv
<1>4. /\ records' \in Seq(Entries) /\ Len(records') = Len(records) + 1
      /\ records'[Len(records) + 1] = e
      /\ \A i \in 1 .. Len(records) : records'[i] = records[i]
      /\ DOMAIN records = 1 .. Len(records) /\ DOMAIN records' = 1 .. Len(records) + 1
      /\ Len(records) \in Nat
  BY <1>1, <1>3
<1>5. Range(records') = Range(records) \cup {e}
  BY <1>4 DEF Range
<1>6. \A r \in Range(records) : ~(Same(r, e)')
  BY Repeated
<1>7. \A f \in Records : ~(Same(f, e)')
  <2>1. TAKE f \in Records
  <2>2. PICK r \in Range(records) : Same(r, f)
    BY DEF Inv, KeptInv
  <2>3. Same(r, f)'
    BY <1>2, <1>3, <2>2
  <2>4. QED
    BY <1>6, <2>3 DEF Same
<1>8. ASSUME NEW x
      PROVE  x \in Range(records') <=> x \in Records' /\ \A f \in Records' : f < x => ~(Same(f, x)')
  <2>1. CASE x = e
    BY <1>1, <1>2, <1>5, <1>7, <2>1
  <2>2. CASE x \in Records
    <3>1. x \in Range(records) <=> \A f \in Records : f < x => ~Same(f, x)
      BY <2>2 DEF Inv, KeptInv
    <3>2. ~(e < x) /\ x # e
      BY <1>1, <1>2, <2>2
    <3>3. QED
      BY <1>2, <1>5, <2>2, <3>1, <3>2
  <2>3. CASE x # e /\ x \notin Records
    BY <1>2, <1>3, <1>5, <2>3
  <2>4. QED
    BY <2>1, <2>2, <2>3
<1>9. \A x \in Records' : \E r \in Range(records') : Same(r, x)'
  <2>1. TAKE x \in Records'
  <2>2. CASE x = e
    BY <1>5, <2>2 DEF Same
  <2>3. CASE x \in Records
    BY <1>2, <1>3, <1>5, <2>3 DEF Inv, KeptInv
  <2>4. QED
    BY <1>2, <2>1, <2>2, <2>3
<1>10. \A i, j \in DOMAIN records' : i < j => records'[i] < records'[j]
  <2>1. TAKE i \in DOMAIN records', j \in DOMAIN records'
  <2>2. HAVE i < j
  <2>3. i \in 1 .. Len(records)
    BY <1>4, <2>1, <2>2
  <2>4. CASE j = Len(records) + 1
    <3>1. records[i] \in DOMAIN read
      BY <1>2, <1>3, <1>4, <2>3 DEF Range
    <3>2. QED
      BY <1>1, <1>4, <2>3, <2>4, <3>1
  <2>5. CASE j \in 1 .. Len(records)
    BY <1>4, <2>2, <2>3, <2>5 DEF Inv, KeptInv
  <2>6. QED
    BY <1>4, <2>1, <2>4, <2>5
<1>11. QED
  BY <1>4, <1>5, <1>8, <1>9, <1>10 DEF KeptInv
-----------------------------------------------------------------------------
(* What a document is reported with.                                       *)

LEMMA FiniteUnion ==
  \A S, T : IsFiniteSet(S) /\ IsFiniteSet(T) => IsFiniteSet(S \cup T)
BY FS_Union

LEMMA FiniteChoice ==
  ASSUME NEW c \in BOOLEAN, NEW x
  PROVE  IsFiniteSet(IF c THEN {x} ELSE {})
BY FS_Singleton, FS_EmptySet

LEMMA FinitelyMany ==
  ASSUME NEW S, IsFiniteSet(S), NEW code
  PROVE  IsFiniteSet({<<code, i>> : i \in S})
<1> DEFINE T == {<<code, i>> : i \in S}
           f == [i \in S |-> <<code, i>>]
<1>1. f \in [S -> T] /\ \A y \in T : \E i \in S : f[i] = y
  OBVIOUS
<1> HIDE DEF T, f
<1>2. f \in Surjection(S, T)
  BY <1>1 DEF Surjection
<1>3. IsFiniteSet(T)
  BY <1>2, FS_Surjection
<1>4. QED
  BY <1>3 DEF T

\* The places of a document's tags.
LEMMA TagPlaces ==
  ASSUME ScanAssumption, NEW name \in Documents
  PROVE  LET d == Content[name]
             t == LowerTags(d)
         IN /\ t \in Seq({Lower[x] : x \in DOMAIN Lower}) /\ DOMAIN t = DOMAIN d.tags
            /\ DOMAIN t = 1 .. Len(t) /\ Len(t) \in Nat /\ IsFiniteSet(DOMAIN t)
<1> DEFINE d == Content[name]
           t == LowerTags(d)
<1>1. d.tags \in Seq(DOMAIN Lower)
  BY DEF ScanAssumption, Documents
<1>2. t = [i \in 1 .. Len(d.tags) |-> Lower[d.tags[i]]] /\ DOMAIN d.tags = 1 .. Len(d.tags) /\ Len(d.tags) \in Nat
  BY <1>1 DEF LowerTags
<1>3. t \in Seq({Lower[x] : x \in DOMAIN Lower}) /\ DOMAIN t = 1 .. Len(d.tags)
  BY <1>1, <1>2
<1>4. Len(t) = Len(d.tags)
  BY <1>2, <1>3
<1>5. IsFiniteSet(1 .. Len(d.tags))
  BY <1>2, FS_Interval
<1>6. QED
  BY <1>2, <1>3, <1>4, <1>5

LEMMA TagIssuesFinite ==
  ASSUME ScanAssumption, NEW name \in Documents
  PROVE  IsFiniteSet(TagIssues(Content[name]))
<1> DEFINE d == Content[name]
           t == LowerTags(d)
           ill == {j \in DOMAIN t : t[j] \notin WellFormed}
           twice == {j \in DOMAIN t \ ill : \E h \in 1 .. j - 1 : t[h] = t[j]}
<1>1. IsFiniteSet(DOMAIN t)
  BY TagPlaces
<1>2. IsFiniteSet(ill) /\ IsFiniteSet(twice)
  <2>1. ill \in SUBSET DOMAIN t /\ twice \in SUBSET DOMAIN t
    OBVIOUS
  <2>2. QED
    BY <1>1, <2>1, FS_Subset
<1>3. TagIssues(d) = IF Len(t) \notin 2 .. 5 THEN {<<"invalid_count", 0>>}
                     ELSE {<<"invalid_format", i>> : i \in ill} \cup {<<"duplicate_item", i>> : i \in twice}
  BY DEF TagIssues
<1> HIDE DEF ill, twice, t
<1>4. IsFiniteSet({<<"invalid_format", i>> : i \in ill})
  BY <1>2, FinitelyMany
<1>5. IsFiniteSet({<<"duplicate_item", i>> : i \in twice})
  BY <1>2, FinitelyMany
<1>6. IsFiniteSet({<<"invalid_count", 0>>})
  BY FS_Singleton
<1>7. QED
  BY <1>3, <1>4, <1>5, <1>6, FiniteUnion

LEMMA TextIssuesFinite == \A v, field : IsFiniteSet(TextIssues(v, field))
BY FS_Singleton, FS_EmptySet DEF TextIssues

LEMMA SchemaIssuesFinite ==
  ASSUME ScanAssumption, NEW name \in Documents
  PROVE  IsFiniteSet(SchemaIssues(Content[name]))
<1> DEFINE d == Content[name]
           A1 == IF d.fields # "exact" THEN {<<d.fields, "/">>} ELSE {}
           A2 == IF d.kind # "known" THEN {<<"invalid_choice", "/type">>} ELSE {}
           A3 == TextIssues(d.title, "/title")
           A4 == TextIssues(d.description, "/description")
           A5 == IF d.body = "blank" THEN {<<"blank", "/body">>} ELSE {}
           A6 == TagIssues(d)
           A7 == IF d.confidence # "in range" THEN {<<"out_of_range", "/confidence">>} ELSE {}
           A8 == TextIssues(d.actor, "/actor")
           A9 == IF d.source # "session" THEN {<<"invalid_source", "/sources">>} ELSE {}
           A10 == IF d.status # "machine-confirmed" THEN {<<"invalid_choice", "/verified/status">>} ELSE {}
           A11 == TextIssues(d.verifier, "/verified/by")
           A12 == IF TextIssues(d.actor, "") \cup TextIssues(d.verifier, "") = {} /\ d.actor # d.verifier
                    THEN {<<"actor_mismatch", "/verified/by">>} ELSE {}
<1>1. SchemaIssues(d) = IF ~d.mapping THEN {<<"invalid_type", "/">>}
                        ELSE A1 \cup A2 \cup A3 \cup A4 \cup A5 \cup A6 \cup A7 \cup A8 \cup A9 \cup A10 \cup A11 \cup A12
  BY DEF SchemaIssues
<1>2. IsFiniteSet(A1) /\ IsFiniteSet(A2) /\ IsFiniteSet(A5) /\ IsFiniteSet(A7)
  BY FS_Singleton, FS_EmptySet
<1>3. IsFiniteSet(A9) /\ IsFiniteSet(A10) /\ IsFiniteSet(A12)
  BY FS_Singleton, FS_EmptySet
<1>4. IsFiniteSet(A3) /\ IsFiniteSet(A4) /\ IsFiniteSet(A8) /\ IsFiniteSet(A11)
  BY TextIssuesFinite
<1>5. IsFiniteSet(A6)
  BY TagIssuesFinite
<1>6. IsFiniteSet({<<"invalid_type", "/">>})
  BY FS_Singleton
<1> HIDE DEF A1, A2, A3, A4, A5, A6, A7, A8, A9, A10, A11, A12
<1>7. IsFiniteSet(A1 \cup A2 \cup A3 \cup A4 \cup A5 \cup A6)
  BY <1>2, <1>4, <1>5, FiniteUnion
<1>8. IsFiniteSet(A1 \cup A2 \cup A3 \cup A4 \cup A5 \cup A6 \cup A7 \cup A8 \cup A9)
  BY <1>2, <1>3, <1>4, <1>7, FiniteUnion
<1>9. IsFiniteSet(A1 \cup A2 \cup A3 \cup A4 \cup A5 \cup A6 \cup A7 \cup A8 \cup A9 \cup A10 \cup A11 \cup A12)
  BY <1>3, <1>4, <1>8, FiniteUnion
<1>10. QED
  BY <1>1, <1>6, <1>9

LEMMA FaultsFinite ==
  ASSUME ScanAssumption, NEW name \in Documents
  PROVE  /\ IsFiniteSet(Faults(Content[name])) /\ IsFiniteSet(Normalized(Content[name]))
         /\ Class(Content[name]) \in {"invalid_yaml", "invalid_schema"} => Faults(Content[name]) # {}
<1> DEFINE d == Content[name]
<1>1. IsFiniteSet(SchemaIssues(d))
  BY SchemaIssuesFinite
<1>2. IsFiniteSet(Faults(d))
  BY <1>1, FS_Singleton DEF Faults
<1>3. Class(d) \in {"invalid_yaml", "invalid_schema"} => Faults(d) # {}
  BY DEF Class, Faults
<1>4. IsFiniteSet(Normalized(d))
  <2> DEFINE raised == {j \in DOMAIN d.tags : Lower[d.tags[j]] # d.tags[j]}
  <2>1. IsFiniteSet(DOMAIN d.tags)
    BY TagPlaces
  <2>2. IsFiniteSet(raised)
    <3>1. raised \in SUBSET DOMAIN d.tags
      OBVIOUS
    <3>2. QED
      BY <2>1, <3>1, FS_Subset
  <2>3. Normalized(d) = {<<"normalized_tag", i>> : i \in raised}
    BY DEF Normalized
  <2> HIDE DEF raised
  <2>4. QED
    BY <2>2, <2>3, FinitelyMany
<1>5. QED
  BY <1>2, <1>3, <1>4

\* The errors only grow, up to their limit; below it there is one for a candidate
\* that has an issue.
LEMMA Reported ==
  ASSUME ScanAssumption, Inv, NEW e \in Entries, NEW faults, IsFiniteSet(faults), Report(e, faults)
  PROVE  /\ errors' \in Seq(Entries) /\ Len(errors') <= MaxErrors
         /\ Range(errors) \subseteq Range(errors')
         /\ Len(errors') < MaxErrors => Len(errors) < MaxErrors /\ (faults # {} => e \in Range(errors'))
<1> DEFINE left == MaxErrors - Len(errors)
           n == IF Cardinality(faults) < left THEN Cardinality(faults) ELSE left
           more == [i \in 1 .. n |-> e]
<1>1. errors \in Seq(Entries) /\ Len(errors) \in Nat /\ Len(errors) <= MaxErrors /\ MaxErrors \in Nat
  BY DEF Inv, ErrorInv, ScanAssumption
<1>2. Cardinality(faults) \in Nat /\ (faults # {} => Cardinality(faults) # 0)
  BY FS_CardinalityType, FS_EmptySet
<1>3. n \in Nat /\ n <= left /\ (n < left => n = Cardinality(faults))
  BY <1>1, <1>2
<1>4. errors' = errors \o more
  BY DEF Report
<1> HIDE DEF n
<1>5. more \in Seq(Entries) /\ Len(more) = n
  BY <1>3
<1> HIDE DEF more
<1>6. errors' \in Seq(Entries) /\ Len(errors') = Len(errors) + n
  <2>1. errors \o more \in Seq(Entries) /\ Len(errors \o more) = Len(errors) + Len(more)
    BY <1>1, <1>5
  <2>2. QED
    BY <1>4, <1>5, <2>1
<1>7. \A i \in 1 .. Len(errors) : errors'[i] = errors[i]
  BY <1>1, <1>4, <1>5
<1>8. n > 0 => errors'[Len(errors) + 1] = e
  BY <1>1, <1>3, <1>4, <1>5 DEF more
<1>9. Range(errors) \subseteq Range(errors')
  BY <1>1, <1>3, <1>6, <1>7 DEF Range
<1>10. n > 0 => e \in Range(errors')
  BY <1>1, <1>3, <1>6, <1>8 DEF Range
<1>11. QED
  BY <1>1, <1>2, <1>3, <1>6, <1>9, <1>10
-----------------------------------------------------------------------------
(* The counters, and the step as a whole.                                  *)

LEMMA CountsUp ==
  ASSUME Inv, NEW names, Count(names)
  PROVE  /\ counters' \in [CounterNames -> Nat]
         /\ \A n \in CounterNames : /\ n \in names => counters'[n] = counters[n] + 1
                                    /\ n \notin names => counters'[n] = counters[n]
BY DEF Count, Inv, TallyInv

\* The sums, spelt out.
LEMMA Tally ==
  ASSUME Inv
  PROVE  /\ counters["scanned"] \in Nat /\ counters["parsed"] \in Nat /\ counters["invalid_yaml"] \in Nat
         /\ counters["invalid_schema"] \in Nat /\ counters["unsafe_path"] \in Nat
         /\ counters["duplicate_content"] \in Nat /\ Len(records) \in Nat
         /\ counters["scanned"] = Cardinality(DOMAIN read)
         /\ counters["scanned"] = counters["parsed"] + counters["invalid_yaml"]
                                  + counters["invalid_schema"] + counters["unsafe_path"]
         /\ counters["parsed"] = Len(records) + counters["duplicate_content"]
BY DEF Inv, TallyInv, KeptInv, CounterNames

LEMMA MismatchOnly ==
  \A d, n : n \in Mismatch(d) => n = "body_description_mismatch"
BY DEF Mismatch

\* Of what is not kept there must be an error.
LEMMA Dropped ==
  ASSUME ScanAssumption, Inv, NEW e, NEW d, Takes(e, d), UNCHANGED records,
         NEW faults, IsFiniteSet(faults), faults # {}, Report(e, faults)
  PROVE  ErrorInv'
<1>1. e \in Entries /\ DOMAIN read' = DOMAIN read \cup {e}
  BY OneMore
<1>2. /\ errors' \in Seq(Entries) /\ Len(errors') <= MaxErrors
      /\ Range(errors) \subseteq Range(errors')
      /\ Len(errors') < MaxErrors => Len(errors) < MaxErrors /\ e \in Range(errors')
  BY <1>1, Reported
<1>3. Len(errors) < MaxErrors => DOMAIN read \ Range(records) \subseteq Range(errors)
  BY DEF Inv, ErrorInv
<1>4. QED
  BY <1>1, <1>2, <1>3 DEF ErrorInv

LEMMA ReadUnsafeKeeps ==
  ASSUME ScanAssumption, Inv, NEW e, Takes(e, "unsafe"), ReadUnsafe(e)
  PROVE  Inv'
<1>1. WalkInv'
  BY WalkStep
<1>2. KeptInv'
  BY Rejected DEF ReadUnsafe
<1>3. Report(e, {"unsafe_path"}) /\ UNCHANGED records
  BY DEF ReadUnsafe
<1>4. ErrorInv'
  <2>1. IsFiniteSet({"unsafe_path"}) /\ {"unsafe_path"} # {}
    BY FS_Singleton
  <2>2. QED
    BY <1>3, <2>1, Dropped
<1>5. TallyInv'
  <2>1. Cardinality(DOMAIN read') = Cardinality(DOMAIN read) + 1
    BY Counted
  <2>2. Count({"scanned", "unsafe_path"})
    BY DEF ReadUnsafe
  <2>3. /\ counters' \in [CounterNames -> Nat]
        /\ counters'["scanned"] = counters["scanned"] + 1
        /\ counters'["unsafe_path"] = counters["unsafe_path"] + 1
        /\ counters'["parsed"] = counters["parsed"]
        /\ counters'["invalid_yaml"] = counters["invalid_yaml"]
        /\ counters'["invalid_schema"] = counters["invalid_schema"]
        /\ counters'["duplicate_content"] = counters["duplicate_content"]
    BY <2>2, CountsUp DEF CounterNames
  <2>4. counters'["scanned"] = Cardinality(DOMAIN read')
    BY <2>1, <2>3, Tally
  <2>5. counters'["scanned"] = counters'["parsed"] + counters'["invalid_yaml"]
                               + counters'["invalid_schema"] + counters'["unsafe_path"]
    <3>1. counters["scanned"] + 1 = counters["parsed"] + counters["invalid_yaml"]
                                    + counters["invalid_schema"] + (counters["unsafe_path"] + 1)
      <4> DEFINE s == counters["scanned"]
                 p == counters["parsed"]
                 y == counters["invalid_yaml"]
                 i == counters["invalid_schema"]
                 u == counters["unsafe_path"]
      <4>1. p \in Nat /\ y \in Nat /\ i \in Nat /\ u \in Nat /\ s = p + y + i + u
        BY Tally
      <4> HIDE DEF s, p, y, i, u
      <4>2. s + 1 = p + y + i + (u + 1)
        BY <4>1
      <4>3. QED
        BY <4>2 DEF s, p, y, i, u
    <3>2. QED
      BY <2>3, <3>1
  <2>6. counters'["parsed"] = Len(records) + counters'["duplicate_content"]
    BY <2>3, Tally
  <2>7. QED
    BY <1>3, <2>3, <2>4, <2>5, <2>6 DEF TallyInv
<1>6. QED
  BY <1>1, <1>2, <1>4, <1>5 DEF Inv

LEMMA ReadInvalidKeeps ==
  ASSUME ScanAssumption, Inv, NEW e, NEW d \in Documents, Takes(e, d), ReadInvalid(e, d)
  PROVE  Inv'
<1>1. WalkInv'
  BY WalkStep
<1>2. /\ Class(Content[d]) \in {"invalid_yaml", "invalid_schema"} /\ UNCHANGED records
      /\ Report(e, Faults(Content[d])) /\ Count({"scanned", Class(Content[d])} \cup Mismatch(Content[d]))
  BY DEF ReadInvalid
<1>3. KeptInv'
  BY <1>2, Rejected
<1>4. ErrorInv'
  BY <1>2, FaultsFinite, Dropped
<1>5. TallyInv'
  <2>1. Cardinality(DOMAIN read') = Cardinality(DOMAIN read) + 1
    BY Counted
  <2> DEFINE names == {"scanned", Class(Content[d])} \cup Mismatch(Content[d])
  <2>2. /\ "scanned" \in names /\ Class(Content[d]) \in names
        /\ "parsed" \notin names /\ "unsafe_path" \notin names /\ "duplicate_content" \notin names
        /\ Class(Content[d]) = "invalid_yaml" => "invalid_schema" \notin names
        /\ Class(Content[d]) = "invalid_schema" => "invalid_yaml" \notin names
    BY <1>2, MismatchOnly
  <2>3. Count(names)
    BY <1>2
  <2> HIDE DEF names
  <2>4. /\ counters' \in [CounterNames -> Nat]
        /\ counters'["scanned"] = counters["scanned"] + 1
        /\ counters'["parsed"] = counters["parsed"]
        /\ counters'["unsafe_path"] = counters["unsafe_path"]
        /\ counters'["duplicate_content"] = counters["duplicate_content"]
        /\ counters'["invalid_yaml"] + counters'["invalid_schema"] = counters["invalid_yaml"] + counters["invalid_schema"] + 1
    <3>1. CASE Class(Content[d]) = "invalid_yaml"
      BY <2>2, <2>3, <3>1, CountsUp, Tally DEF CounterNames
    <3>2. CASE Class(Content[d]) = "invalid_schema"
      BY <2>2, <2>3, <3>2, CountsUp, Tally DEF CounterNames
    <3>3. QED
      BY <1>2, <3>1, <3>2
  <2>5. QED
    <3>1. counters'["invalid_yaml"] \in Nat /\ counters'["invalid_schema"] \in Nat
      BY <2>4 DEF CounterNames
    <3>2. counters'["scanned"] = Cardinality(DOMAIN read')
      BY <2>1, <2>4, Tally
    <3>3. counters'["scanned"] = counters'["parsed"] + counters'["invalid_yaml"]
                                 + counters'["invalid_schema"] + counters'["unsafe_path"]
      <4>1. counters["scanned"] = counters["parsed"] + counters["invalid_yaml"]
                                  + counters["invalid_schema"] + counters["unsafe_path"]
        BY Tally
      <4>2. /\ counters["scanned"] \in Nat /\ counters["parsed"] \in Nat /\ counters["invalid_yaml"] \in Nat
            /\ counters["invalid_schema"] \in Nat /\ counters["unsafe_path"] \in Nat
        BY Tally
      <4>3. counters["scanned"] + 1 = counters["parsed"] + (counters["invalid_yaml"] + counters["invalid_schema"] + 1)
                                      + counters["unsafe_path"]
        BY <4>1, <4>2
      <4>4. counters'["scanned"] = counters'["parsed"] + (counters'["invalid_yaml"] + counters'["invalid_schema"])
                                   + counters'["unsafe_path"]
        BY <2>4, <4>3
      <4>5. counters'["parsed"] \in Nat /\ counters'["unsafe_path"] \in Nat
        BY <2>4, <4>2
      <4>6. QED
        BY <3>1, <4>4, <4>5
    <3>4. counters'["parsed"] = Len(records') + counters'["duplicate_content"]
      BY <1>2, <2>4, Tally
    <3>5. QED
      BY <2>4, <3>2, <3>3, <3>4 DEF TallyInv
<1>6. QED
  BY <1>1, <1>3, <1>4, <1>5 DEF Inv

LEMMA ReadRecordKeeps ==
  ASSUME ScanAssumption, Inv, NEW e, NEW d \in Documents, Takes(e, d), ReadRecord(e, d)
  PROVE  Inv'
<1> DEFINE x == Content[d]
<1>1. WalkInv'
  BY WalkStep
<1>2. Class(x) = "parsed" /\ d # "unsafe"
  BY DEF ReadRecord, ScanAssumption, Documents
<1>3. Cardinality(DOMAIN read') = Cardinality(DOMAIN read) + 1
  BY Counted
<1>4. CASE Repeats(d)
  <2> DEFINE names == {"scanned", "parsed", "duplicate_content"} \cup Mismatch(x)
             faults == Normalized(x) \cup {<<"duplicate_content", "/">>}
  <2>1. Count(names) /\ Report(e, faults) /\ UNCHANGED records
    BY <1>4 DEF ReadRecord
  <2>2. KeptInv'
    BY <1>4, <2>1, Rejected
  <2>3. ErrorInv'
    <3>1. IsFiniteSet(faults) /\ faults # {}
      BY FaultsFinite, FS_Singleton, FiniteUnion
    <3> HIDE DEF faults
    <3>2. QED
      BY <2>1, <3>1, Dropped
  <2>4. TallyInv'
    <3>1. /\ "scanned" \in names /\ "parsed" \in names /\ "duplicate_content" \in names
          /\ "invalid_yaml" \notin names /\ "invalid_schema" \notin names /\ "unsafe_path" \notin names
      BY MismatchOnly
    <3> HIDE DEF names
    <3>2. /\ counters' \in [CounterNames -> Nat]
          /\ counters'["scanned"] = counters["scanned"] + 1
          /\ counters'["parsed"] = counters["parsed"] + 1
          /\ counters'["duplicate_content"] = counters["duplicate_content"] + 1
          /\ counters'["invalid_yaml"] = counters["invalid_yaml"]
          /\ counters'["invalid_schema"] = counters["invalid_schema"]
          /\ counters'["unsafe_path"] = counters["unsafe_path"]
      BY <2>1, <3>1, CountsUp DEF CounterNames
    <3>3. counters'["scanned"] = Cardinality(DOMAIN read')
      BY <1>3, <3>2, Tally
    <3>4. counters'["scanned"] = counters'["parsed"] + counters'["invalid_yaml"]
                                 + counters'["invalid_schema"] + counters'["unsafe_path"]
      <4>1. counters["scanned"] = counters["parsed"] + counters["invalid_yaml"]
                                  + counters["invalid_schema"] + counters["unsafe_path"]
        BY Tally
      <4>2. /\ counters["scanned"] \in Nat /\ counters["parsed"] \in Nat /\ counters["invalid_yaml"] \in Nat
            /\ counters["invalid_schema"] \in Nat /\ counters["unsafe_path"] \in Nat
        BY Tally
      <4>3. counters["scanned"] + 1 = (counters["parsed"] + 1) + counters["invalid_yaml"]
                                      + counters["invalid_schema"] + counters["unsafe_path"]
        BY <4>1, <4>2
      <4>4. QED
        BY <3>2, <4>3
    <3>5. counters'["parsed"] = Len(records') + counters'["duplicate_content"]
      BY <2>1, <3>2, Tally
    <3>6. QED
      BY <3>2, <3>3, <3>4, <3>5 DEF TallyInv
  <2>5. QED
    BY <1>1, <2>2, <2>3, <2>4 DEF Inv
<1>5. CASE ~Repeats(d)
  <2> DEFINE names == {"scanned", "parsed"} \cup Mismatch(x)
  <2>1. Count(names) /\ Report(e, Normalized(x)) /\ records' = Append(records, e)
    BY <1>5 DEF ReadRecord
  <2>2. KeptInv' /\ Len(records') = Len(records) + 1 /\ Range(records') = Range(records) \cup {e}
    BY <1>2, <1>5, <2>1, Appended
  <2>3. ErrorInv'
    <3>1. e \in Entries /\ DOMAIN read' = DOMAIN read \cup {e}
      BY OneMore
    <3>2. /\ errors' \in Seq(Entries) /\ Len(errors') <= MaxErrors
          /\ Range(errors) \subseteq Range(errors')
          /\ Len(errors') < MaxErrors => Len(errors) < MaxErrors
      BY <2>1, <3>1, FaultsFinite, Reported
    <3>3. Len(errors) < MaxErrors => DOMAIN read \ Range(records) \subseteq Range(errors)
      BY DEF Inv, ErrorInv
    <3>4. QED
      BY <2>2, <3>1, <3>2, <3>3 DEF ErrorInv
  <2>4. TallyInv'
    <3>1. /\ "scanned" \in names /\ "parsed" \in names /\ "duplicate_content" \notin names
          /\ "invalid_yaml" \notin names /\ "invalid_schema" \notin names /\ "unsafe_path" \notin names
      BY MismatchOnly
    <3> HIDE DEF names
    <3>2. /\ counters' \in [CounterNames -> Nat]
          /\ counters'["scanned"] = counters["scanned"] + 1
          /\ counters'["parsed"] = counters["parsed"] + 1
          /\ counters'["duplicate_content"] = counters["duplicate_content"]
          /\ counters'["invalid_yaml"] = counters["invalid_yaml"]
          /\ counters'["invalid_schema"] = counters["invalid_schema"]
          /\ counters'["unsafe_path"] = counters["unsafe_path"]
      BY <2>1, <3>1, CountsUp DEF CounterNames
    <3>3. counters'["scanned"] = Cardinality(DOMAIN read')
      BY <1>3, <3>2, Tally
    <3>4. counters'["scanned"] = counters'["parsed"] + counters'["invalid_yaml"]
                                 + counters'["invalid_schema"] + counters'["unsafe_path"]
      <4>1. counters["scanned"] = counters["parsed"] + counters["invalid_yaml"]
                                  + counters["invalid_schema"] + counters["unsafe_path"]
        BY Tally
      <4>2. /\ counters["scanned"] \in Nat /\ counters["parsed"] \in Nat /\ counters["invalid_yaml"] \in Nat
            /\ counters["invalid_schema"] \in Nat /\ counters["unsafe_path"] \in Nat
        BY Tally
      <4>3. counters["scanned"] + 1 = (counters["parsed"] + 1) + counters["invalid_yaml"]
                                      + counters["invalid_schema"] + counters["unsafe_path"]
        BY <4>1, <4>2
      <4>4. QED
        BY <3>2, <4>3
    <3>5. counters'["parsed"] = Len(records') + counters'["duplicate_content"]
      BY <2>2, <3>2, Tally
    <3>6. QED
      BY <3>2, <3>3, <3>4, <3>5 DEF TallyInv
  <2>5. QED
    BY <1>1, <2>2, <2>3, <2>4 DEF Inv
<1>6. QED
  BY <1>4, <1>5

LEMMA ReadKeeps ==
  ASSUME ScanAssumption, Inv, Read
  PROVE  Inv'
<1> DEFINE e == Min(found \ DOMAIN read)
<1>1. at = "read" /\ found # DOMAIN read /\ found \subseteq Entries /\ DOMAIN read \subseteq found /\ Entries \subseteq Nat
  BY DEF Read, Inv, WalkInv, ScanAssumption
<1>2. e \in found \ DOMAIN read /\ \A f \in found \ DOMAIN read : e <= f
  BY <1>1, Least
<1>3. \/ ReadUnsafe(e) /\ UNCHANGED <<tree, todo, found, unsafe, edits>>
      \/ /\ tree[e] \in Documents
         /\ \/ /\ ReadInvalid(e, tree[e]) \/ ReadRecord(e, tree[e])
               /\ UNCHANGED <<tree, todo, found, unsafe, edits>>
            \/ Abort
  BY DEF Read, Openable
<1> HIDE DEF e
<1>4. CASE ReadUnsafe(e) /\ UNCHANGED <<tree, todo, found, unsafe, edits>>
  <2>1. Takes(e, "unsafe")
    BY <1>1, <1>2, <1>4 DEF ReadUnsafe, Takes
  <2>2. QED
    BY <1>4, <2>1, ReadUnsafeKeeps
<1>5. CASE tree[e] \in Documents /\ ReadInvalid(e, tree[e]) /\ UNCHANGED <<tree, todo, found, unsafe, edits>>
  <2>1. Takes(e, tree[e])
    BY <1>1, <1>2, <1>5 DEF ReadInvalid, Takes
  <2>2. QED
    BY <1>5, <2>1, ReadInvalidKeeps
<1>6. CASE tree[e] \in Documents /\ ReadRecord(e, tree[e]) /\ UNCHANGED <<tree, todo, found, unsafe, edits>>
  <2>1. Takes(e, tree[e])
    BY <1>1, <1>2, <1>6 DEF ReadRecord, Takes
  <2>2. QED
    BY <1>6, <2>1, ReadRecordKeeps
<1>7. CASE Abort
  BY <1>7, AbortKeeps
<1>8. QED
  BY <1>3, <1>4, <1>5, <1>6, <1>7

LEMMA ScanKeeps ==
  ASSUME ScanAssumption, Inv, Scan
  PROVE  Inv'
BY WalkKeeps, ReadKeeps DEF Scan

-----------------------------------------------------------------------------
(* What the invariant says of a scan.                                      *)

LEMMA Accounts ==
  ASSUME Inv
  PROVE  ScanIsAccounted
<1> SUFFICES ASSUME at = "done" PROVE ScanIsAccounted
  BY DEF ScanIsAccounted
<1>1. found = DOMAIN read
  BY DEF Inv, WalkInv
<1>2. Range(records) = {e \in Records : \A f \in Records :
                          f < e => Fingerprint(Content[read[f]]) # Fingerprint(Content[read[e]])}
  BY DEF Inv, KeptInv, Same
<1>3. /\ counters["scanned"] = Cardinality(found)
      /\ counters["scanned"] = counters["parsed"] + counters["invalid_yaml"]
                               + counters["invalid_schema"] + counters["unsafe_path"]
      /\ counters["parsed"] = Len(records) + counters["duplicate_content"]
  BY <1>1 DEF Inv, TallyInv
<1>4. \A i, j \in DOMAIN records : i < j => records[i] < records[j]
  BY DEF Inv, KeptInv
<1>5. Len(errors) < MaxErrors => found \ Range(records) \subseteq Range(errors)
  BY <1>1 DEF Inv, ErrorInv
<1>6. QED
  BY <1>2, <1>3, <1>4, <1>5 DEF ScanIsAccounted

LEMMA Fits ==
  ASSUME ScanAssumption, Inv
  PROVE  KeptFitsTheTable
<1> SUFFICES ASSUME NEW e \in Range(records)
             PROVE  LET t == LowerTags(Content[read[e]])
                    IN Len(t) \in 2 .. 5 /\ Range(t) \subseteq WellFormed /\ IsInjective(t)
  BY DEF KeptFitsTheTable
<1> DEFINE d == Content[read[e]]
           t == LowerTags(d)
           ill == {j \in DOMAIN t : t[j] \notin WellFormed}
           twice == {j \in DOMAIN t \ ill : \E h \in 1 .. j - 1 : t[h] = t[j]}
<1>1. e \in DOMAIN read /\ read[e] \in Documents /\ Class(d) = "parsed"
  BY DEF Inv, KeptInv, WalkInv, Records
<1>2. SchemaIssues(d) = {}
  BY <1>1 DEF Class
<1>3. TagIssues(d) = {}
  BY <1>2 DEF SchemaIssues
<1>4. DOMAIN t = 1 .. Len(t) /\ Len(t) \in Nat
  BY <1>1, TagPlaces
<1>5. Len(t) \in 2 .. 5 /\ {<<"invalid_format", i>> : i \in ill} = {} /\ {<<"duplicate_item", i>> : i \in twice} = {}
  BY <1>3 DEF TagIssues
<1>6. ill = {} /\ twice = {}
  BY <1>5
<1>7. Range(t) \subseteq WellFormed
  BY <1>6 DEF Range
<1>8. \A i, j \in DOMAIN t : t[i] = t[j] => i = j
  <2> HIDE DEF t
  <2>1. \A i, j \in 1 .. Len(t) : i < j => t[i] # t[j]
    <3>1. TAKE i \in 1 .. Len(t), j \in 1 .. Len(t)
    <3>2. HAVE i < j
    <3>3. i \in 1 .. j - 1 /\ j \notin twice /\ j \notin ill
      BY <1>4, <1>6, <3>1, <3>2
    <3>4. QED
      BY <1>4, <3>1, <3>3
  <2>2. QED
    BY <1>4, <2>1
<1>9. QED
  BY <1>5, <1>7, <1>8 DEF IsInjective
-----------------------------------------------------------------------------
(* The rest of the types: the directory's place never holds a document.     *)

Layout(t) == t \in [Entries -> Things \cup {"dir"}] /\ t[Folder] \in {"absent", "link", "dir"}

TreeInv ==
  /\ Layout(tree)
  /\ at \in {"list", "walk", "open", "read", "done", "aborted"}
  /\ unsafe \subseteq found
  /\ Folder \in DOMAIN read => read[Folder] = "unsafe"
  /\ counters["body_description_mismatch"] <= counters["scanned"]
  /\ edits \in 0 .. MaxEdits

LEMMA TreeInit ==
  ASSUME ScanAssumption, NEW trees, \A t \in trees : Layout(t), InitWith(trees)
  PROVE  TreeInv
BY DEF InitWith, TreeInv, ScanAssumption, CounterNames

LEMMA TreeForgotten ==
  ASSUME ScanAssumption, NEW t, Layout(t), tree' = t, at' = "list", unsafe' = {}, found' = {},
         read' = <<>>, counters' = [n \in CounterNames |-> 0], edits' = 0
  PROVE  TreeInv'
<1>1. Layout(tree')
  OBVIOUS
<1>2. DOMAIN read' = {}
  OBVIOUS
<1>3. (counters["body_description_mismatch"] <= counters["scanned"])'
  BY DEF CounterNames
<1>4. QED
  BY <1>1, <1>2, <1>3 DEF TreeInv, Layout, ScanAssumption

LEMMA TreeWalkKeeps ==
  ASSUME TreeInv, ListRoot \/ Look \/ OpenFolder \/ Walked \/ Finish \/ Abort
  PROVE  TreeInv'
<1>1. UNCHANGED <<tree, read, counters, edits>>
  BY DEF ListRoot, Look, OpenFolder, Walked, Finish, Abort
<1>2. at' \in {"list", "walk", "open", "read", "done", "aborted"}
  BY DEF ListRoot, Look, OpenFolder, Walked, Finish, Abort
<1>3. (unsafe \subseteq found)'
  <2>1. CASE Look
    <3>1. \/ UNCHANGED <<unsafe, found>>
          \/ /\ tree[Min(todo)] = "dir" /\ UNCHANGED <<unsafe, found>>
          \/ /\ found' = found \cup {Min(todo)} /\ unsafe' \subseteq unsafe \cup {Min(todo)}
      BY <2>1 DEF Look, Abort
    <3>2. QED
      BY <3>1 DEF TreeInv
  <2>2. CASE ListRoot \/ OpenFolder \/ Walked \/ Finish \/ Abort
    BY <2>2 DEF TreeInv, ListRoot, OpenFolder, Walked, Finish, Abort
  <2>3. QED
    BY <2>1, <2>2
<1>4. QED
  BY <1>1, <1>2, <1>3 DEF TreeInv, Layout

LEMMA TreeReadKeeps ==
  ASSUME ScanAssumption, Inv, TreeInv, Read
  PROVE  TreeInv'
<1> DEFINE e == Min(found \ DOMAIN read)
<1>1. CASE Abort
  BY <1>1, TreeWalkKeeps
<1>2. CASE ~Abort
  <2>1. UNCHANGED <<tree, todo, found, unsafe, edits>>
    BY <1>2 DEF Read
  <2>2. \/ ReadUnsafe(e)
        \/ tree[e] \in Documents /\ (ReadInvalid(e, tree[e]) \/ ReadRecord(e, tree[e]))
    BY <1>2 DEF Read, Openable
  <2> HIDE DEF e
  <2>3. \/ read' = Extend(read, e, "unsafe")
        \/ read' = Extend(read, e, tree[e]) /\ tree[e] \in Documents
    BY <2>2 DEF ReadUnsafe, ReadInvalid, ReadRecord
  <2>4. PICK names : "scanned" \in names /\ Count(names)
    BY <2>2 DEF ReadUnsafe, ReadInvalid, ReadRecord
  <2>5. UNCHANGED at
    BY <2>2 DEF ReadUnsafe, ReadInvalid, ReadRecord
  <2>6. (Folder \in DOMAIN read => read[Folder] = "unsafe")'
    <3>1. tree[Folder] \notin Documents
      BY DEF ScanAssumption, TreeInv, Layout, Documents
    <3>2. QED
      BY <2>3, <3>1 DEF Extend, TreeInv
  <2>7. (counters["body_description_mismatch"] <= counters["scanned"])'
    <3>1. /\ counters["body_description_mismatch"] \in Nat /\ counters["scanned"] \in Nat
          /\ counters["body_description_mismatch"] <= counters["scanned"]
      BY DEF Inv, TallyInv, TreeInv, CounterNames
    <3>2. /\ counters'["scanned"] = counters["scanned"] + 1
          /\ counters'["body_description_mismatch"]
               \in {counters["body_description_mismatch"], counters["body_description_mismatch"] + 1}
      BY <2>4, CountsUp DEF CounterNames
    <3>3. QED
      BY <3>1, <3>2
  <2>8. QED
    BY <2>1, <2>5, <2>6, <2>7 DEF TreeInv, Layout
<1>3. QED
  BY <1>1, <1>2

LEMMA TreeKeeps ==
  ASSUME ScanAssumption, Inv, TreeInv, Scan
  PROVE  TreeInv'
BY TreeWalkKeeps, TreeReadKeeps DEF Scan

LEMMA TreeChangeKeeps ==
  ASSUME ScanAssumption, TreeInv, NEW e \in Entries, Change(e)
  PROVE  TreeInv'
<1>1. PICK x \in IF e = Folder THEN {"absent", "link", "dir"} ELSE Placed \cup {"absent", "link", "other"} :
        tree' = [tree EXCEPT ![e] = x]
  BY DEF Change
<1>2. Layout(tree')
  BY <1>1 DEF TreeInv, Layout, ScanAssumption, Things, Documents
<1>3. edits' \in 0 .. MaxEdits
  BY DEF Change, TreeInv, ScanAssumption
<1>4. QED
  BY <1>2, <1>3 DEF Change, TreeInv, Layout

LEMMA TreeUntouched ==
  ASSUME TreeInv, UNCHANGED vars
  PROVE  TreeInv'
BY DEF vars, TreeInv, Layout

LEMMA ScanTypes ==
  ASSUME ScanAssumption, Inv, TreeInv
  PROVE  TypeOK
<1>1. counters \in [CounterNames -> 0 .. Cardinality(Entries)]
  <2>1. /\ IsFiniteSet(Entries) /\ DOMAIN read \subseteq Entries
        /\ Cardinality(Entries) \in Nat /\ Cardinality(DOMAIN read) <= Cardinality(Entries)
    <3>1. DOMAIN read \subseteq Entries /\ IsFiniteSet(Entries)
      BY DEF Inv, WalkInv, ScanAssumption
    <3>2. QED
      BY <3>1, FS_Subset, FS_CardinalityType
  <2>2. ASSUME NEW n \in CounterNames PROVE counters[n] \in Nat /\ counters[n] <= counters["scanned"]
    <3>1. counters["body_description_mismatch"] \in Nat /\ counters["body_description_mismatch"] <= counters["scanned"]
      BY DEF Inv, TallyInv, TreeInv, CounterNames
    <3>2. PICK s, p, y, m, u, d :
             /\ s = counters["scanned"] /\ p = counters["parsed"] /\ y = counters["invalid_yaml"]
             /\ m = counters["invalid_schema"] /\ u = counters["unsafe_path"]
             /\ d = counters["duplicate_content"]
      OBVIOUS
    <3>3. /\ s \in Nat /\ p \in Nat /\ y \in Nat /\ m \in Nat /\ u \in Nat /\ d \in Nat
          /\ s = p + y + m + u /\ d <= p
      BY <3>2, Tally
    <3>4. p <= s /\ y <= s /\ m <= s /\ u <= s /\ d <= s
      BY <3>3
    <3>5. counters[n] \in {counters["body_description_mismatch"], s, p, y, m, u, d}
      BY <2>2, <3>2 DEF CounterNames
    <3>6. QED
      BY <3>1, <3>2, <3>3, <3>4, <3>5
  <2>3. counters["scanned"] = Cardinality(DOMAIN read) /\ counters["scanned"] \in Nat
    BY Tally
  <2>4. \A n \in CounterNames : counters[n] \in 0 .. Cardinality(Entries)
    BY <2>1, <2>2, <2>3
  <2>5. QED
    BY <2>4 DEF Inv, TallyInv
<1>2. Range(records) \subseteq Files
  <2>1. Range(records) \subseteq Records /\ Records \subseteq Entries
    BY DEF Inv, KeptInv, WalkInv, Records
  <2>2. Folder \notin Records
    BY DEF TreeInv, Records
  <2>3. QED
    BY <2>1, <2>2 DEF Files
<1>3. QED
  BY <1>1, <1>2 DEF Inv, WalkInv, ErrorInv, TreeInv, Layout, TypeOK
=============================================================================
