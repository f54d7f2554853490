-------------------------- MODULE ProjectionProofs --------------------------
(***************************************************************************)
(* Theorems about Projection, for every number of documents, database      *)
(* states, projectors and moves of the user.                               *)
(*                                                                         *)
(* Types, the shape of a run and PublishedWhileCurrent hold for any number *)
(* of projectors.  What a run leaves in the directory is proved for a      *)
(* projector that is alone with the user (Alone): MCProjectionTwo shows    *)
(* that it is false of two.                                                *)
(***************************************************************************)
EXTENDS Projection, TLAPS, FiniteSetTheorems, FunctionTheorems, SequenceTheorems

Alone == \A p, q \in Projectors : p = q

(* The shape of a run: which parts of it are in use where.                 *)

Kinds == {"create", "replace", "delete", "check"}
JobType == [kind : Kinds, name : Names]
Mutation ==
  [kind : {"created", "replaced", "deleted"}, name : Names,
   was : File \cup {Nothing}, now : File \cup {Nothing}]
Unlisted == [d \in Docs |-> Nothing]

RunType ==
  [pc : Pcs, snap : Revisions, names : SUBSET AllNames,
   prev : Contents \cup {Unlisted, Nothing}, todo : SUBSET JobType,
   held : File \cup {Nothing}, muts : Seq(Mutation),
   act : {"none", "unlink", "drop", "restore"}, drop : SUBSET AllNames,
   status : {"none", "ok", "conflict", "stale", "failure"}, conflicts : Nat]

Moving == {"verify", "identify", "compare", "move"}
Writing == {"temp", "rename", "record"}
Working == {"look", "check"} \cup Moving \cup Writing

\* A step of apply has the kind of job it is for; a replacement writes only after
\* it recorded what it moved aside.
ShapeOK(r) ==
  /\ r.pc \in Working => r.todo # {}
  /\ r.pc = "look" => First(r.todo).kind = "create"
  /\ r.pc = "check" => First(r.todo).kind = "check"
  /\ r.pc \in Moving => First(r.todo).kind \in {"replace", "delete"}
  /\ r.pc \in Writing =>
       /\ First(r.todo).kind \in {"create", "replace"}
       /\ First(r.todo).kind = "replace" =>
            r.muts # <<>> /\ r.muts[Len(r.muts)].name = First(r.todo).name
              /\ r.muts[Len(r.muts)].kind = "replaced" /\ r.muts[Len(r.muts)].now = Nothing
  /\ r.pc = "undoing" => r.muts # <<>>
  /\ r.pc \notin Working \cup {"fresh", "apply"} => r.todo = {}
  /\ r.pc \in {"idle", "preflight", "fresh", "apply", "done"} => r.muts = <<>>
  /\ r.pc \in Publishing \cup {"fresh", "preflight", "commit"} => r.conflicts = 0

DirOK ==
  /\ dir \in [AllNames -> File \cup {Nothing}]
  /\ \A m, n \in Listing : dir[m].inode = dir[n].inode => m = n

RunsOK ==
  /\ run \in [Projectors -> RunType]
  /\ \A p \in Projectors : ShapeOK(run[p])

TypeInv ==
  /\ rev \in Revisions /\ edits \in 0 .. MaxEdits /\ lost \subseteq Revisions \cup {0}
  /\ before \in [Projectors -> [AllNames -> File \cup {Nothing}]]
  /\ touched \in [Projectors -> SUBSET UserNames]
  /\ faulted \in [Projectors -> BOOLEAN]
  /\ missed \in [Projectors -> SUBSET AllNames]
  /\ written \in [Projectors -> SUBSET Revisions]
  /\ DirOK /\ RunsOK
-----------------------------------------------------------------------------
(* No file is published twice, and none is while a mutation of it is open. *)

JobsOK(todo) ==
  /\ \A j, k \in todo : j.kind # "check" /\ k.kind # "check" /\ j.name = k.name => j = k
  /\ \A j \in todo : /\ j.kind = "replace" => j.name \in Docs \cup {Manifest}
                     /\ j.kind = "delete" => j.name \in Docs

MutsOK(muts) ==
  /\ \A i, j \in DOMAIN muts : muts[i].name = muts[j].name => i = j
  /\ \A i \in DOMAIN muts :
       /\ muts[i].kind = "created" => muts[i].now # Nothing /\ muts[i].was = Nothing
       /\ muts[i].kind = "deleted" => muts[i].now = Nothing
       /\ muts[i].kind # "created" => muts[i].was # Nothing

JobsApart(r) ==
  /\ JobsOK(r.todo) /\ MutsOK(r.muts)
  /\ \A j \in r.todo, i \in DOMAIN r.muts :
       j.kind # "check" /\ r.muts[i].name = j.name
         => j = First(r.todo) /\ j.kind = "replace" /\ r.pc \in Writing /\ i = Len(r.muts)
  /\ r.pc \in {"compare", "move"} => r.held # Nothing
ApartInv == \A p \in Projectors : JobsApart(run[p])

(* PublishedWhileCurrent                                                   *)

Current(r, published) ==
  /\ r.snap <= rev /\ \A w \in published : w <= rev
  /\ r.pc \in {"preflight", "fresh"} => published = {}
  /\ r.pc \in Publishing \cup {"commit", "unlink"} => \A w \in published : r.snap <= w
  /\ r.pc \in {"validate", "commit", "unlink"} \/ (r.pc = "done" /\ r.status = "ok")
       => published \subseteq {r.snap}
  /\ r.pc # "done" => r.status # "ok"
CurrentInv == \A p \in Projectors : Current(run[p], written[p])
-----------------------------------------------------------------------------
(* PublicationStands                                                       *)

AsDesired(r, n) ==
  IF Desired(r, n) = Nothing THEN ~Has(n) ELSE Is(n, Desired(r, n))

StandsOK(p) ==
  /\ run[p].pc \in {"commit", "unlink"} \/ (run[p].pc = "done" /\ run[p].status = "ok")
       => \A n \in Names \ touched[p] : AsDesired(run[p].snap, n)
  /\ run[p].pc = "commit" => Listing \ touched[p] \subseteq Names \cup Backups(p)
  /\ run[p].pc = "unlink" =>
       /\ run[p].drop \cap Names = {}
       /\ run[p].conflicts = 0 =>
            \A n \in OwnNames(p) \ touched[p] : Has(n) => n \in run[p].drop
  /\ run[p].pc = "done" /\ run[p].status = "ok" /\ run[p].conflicts = 0 =>
       \A n \in OwnNames(p) \ touched[p] : ~Has(n)
StandsInv == \A p \in Projectors : StandsOK(p)
-----------------------------------------------------------------------------
(* The plan has a first job, and the directory room for one more file.     *)

LEMMA LeastNat ==
  ASSUME NEW S \in SUBSET Nat, S # {}
  PROVE  \E m \in S : \A k \in S : m <= k
<1>1. IsWellFoundedOn(OpToRel(<, Nat), Nat)
  BY NatLessThanWellFounded
<1>2. PICK m \in S : \A k \in S : ~ (<<k, m>> \in OpToRel(<, Nat))
  BY <1>1, WFMin
<1>3. \A k \in S : ~ (k < m)
  BY <1>2 DEF OpToRel
<1>4. S \subseteq Nat
  OBVIOUS
<1>5. QED
  BY <1>3, <1>4

LEMMA TurnIsNat ==
  ASSUME NEW j \in JobType
  PROVE  Turn(j) \in Nat
<1>1. Len(DocNames) \in Nat /\ DOMAIN DocNames = 1 .. Len(DocNames)
  BY ProjectionAssumption, LenProperties
<1>2. Place(j.name) \in Nat
  <2>1. CASE j.name \in Docs
    <3>1. \E i \in DOMAIN DocNames : DocNames[i] = j.name
      BY <2>1 DEF Docs, Range
    <3>2. (CHOOSE i \in DOMAIN DocNames : DocNames[i] = j.name) \in DOMAIN DocNames
      BY <3>1
    <3>3. QED
      BY <1>1, <2>1, <3>2 DEF Place
  <2>2. QED
    BY <2>1 DEF Place
<1>3. Phase(j) \in {0, 1, 2, 3, 4, 5}
  BY DEF Phase
<1>4. QED
  <2> DEFINE k == Len(DocNames) + 1
  <2>1. k \in Nat
    BY <1>1
  <2>2. Phase(j) * k \in Nat
    <3> HIDE DEF k
    <3>1. 0 * k \in Nat /\ 1 * k \in Nat /\ 2 * k \in Nat /\ 3 * k \in Nat /\ 4 * k \in Nat
            /\ 5 * k \in Nat
      BY <2>1
    <3>2. QED
      BY <1>3, <3>1
  <2>3. QED
    BY <1>2, <2>2 DEF Turn

LEMMA FirstLeast ==
  ASSUME NEW todo \in SUBSET JobType, todo # {}
  PROVE  First(todo) \in todo /\ \A k \in todo : Turn(First(todo)) <= Turn(k)
<1> DEFINE S == {Turn(j) : j \in todo}
<1>1. S \in SUBSET Nat /\ S # {}
  BY TurnIsNat
<1>2. PICK m \in S : \A k \in S : m <= k
  BY <1>1, LeastNat
<1>3. PICK j \in todo : m = Turn(j)
  BY <1>2
<1>4. \A k \in todo : Turn(j) <= Turn(k)
  BY <1>2, <1>3
<1>5. QED
  BY <1>4 DEF First

LEMMA FirstIn ==
  ASSUME NEW todo \in SUBSET JobType, todo # {}
  PROVE  First(todo) \in todo
BY FirstLeast

LEMMA FiniteImage ==
  ASSUME NEW S, IsFiniteSet(S), NEW T, NEW f \in [S -> T],
         \A t \in T : \E s \in S : f[s] = t
  PROVE  IsFiniteSet(T) /\ Cardinality(T) <= Cardinality(S)
<1>1. f \in Surjection(S, T)
  BY DEF Surjection
<1>2. QED
  BY <1>1, FS_Surjection

LEMMA FiniteNames == IsFiniteSet(Names) /\ IsFiniteSet(AllNames)
<1>1. Len(DocNames) \in Nat /\ DocNames \in [1 .. Len(DocNames) -> Docs]
  BY ProjectionAssumption, LenProperties
<1>2. IsFiniteSet(Docs)
  <2>1. IsFiniteSet(1 .. Len(DocNames))
    BY <1>1, FS_Interval
  <2>2. \A t \in Docs : \E s \in 1 .. Len(DocNames) : DocNames[s] = t
    BY <1>1 DEF Docs, Range
  <2>3. QED
    BY <1>1, <2>1, <2>2, FiniteImage
<1>3. IsFiniteSet(Names)
  <2>1. IsFiniteSet({Marker} \cup {Manifest})
    BY FS_Singleton, FS_Union
  <2>2. IsFiniteSet(Docs \cup ({Marker} \cup {Manifest}))
    BY <1>2, <2>1, FS_Union
  <2>3. Names = Docs \cup ({Marker} \cup {Manifest})
    BY DEF Names
  <2>4. QED
    BY <2>2, <2>3
<1>4. \A p \in Projectors : IsFiniteSet(OwnNames(p))
  <2> TAKE p \in Projectors
  <2> DEFINE B == {Bak(p, n) : n \in Names}
             f == [n \in Names |-> Bak(p, n)]
  <2>1. f \in [Names -> B] /\ \A t \in B : \E n \in Names : f[n] = t
    OBVIOUS
  <2>2. IsFiniteSet(B)
    BY <1>3, <2>1, FiniteImage
  <2>3. IsFiniteSet({Tmp(p)} \cup B)
    BY <2>2, FS_Singleton, FS_Union
  <2>4. QED
    BY <2>3 DEF OwnNames
<1>5. IsFiniteSet({OwnNames(p) : p \in Projectors})
  <2> DEFINE O == {OwnNames(p) : p \in Projectors}
             f == [p \in Projectors |-> OwnNames(p)]
  <2>1. f \in [Projectors -> O] /\ \A t \in O : \E p \in Projectors : f[p] = t
    OBVIOUS
  <2>2. IsFiniteSet(Projectors)
    BY ProjectionAssumption
  <2> HIDE DEF O, f
  <2>3. IsFiniteSet(O)
    BY <2>1, <2>2, FiniteImage
  <2>4. QED
    BY <2>3 DEF O
<1>6. IsFiniteSet(UNION {OwnNames(p) : p \in Projectors})
  BY <1>4, <1>5, FS_UNION
<1>7. QED
  BY <1>3, <1>6, FS_Union DEF AllNames

LEMMA FreshIn ==
  ASSUME dir \in [AllNames -> File \cup {Nothing}]
  PROVE  /\ FreshInode \in 1 .. Cardinality(AllNames) + 1
         /\ \A n \in Listing : dir[n].inode # FreshInode
<1> DEFINE N == Cardinality(AllNames)
           Used == {dir[n].inode : n \in Listing}
           Unused == (1 .. N + 1) \ Used
           f == [n \in Listing |-> dir[n].inode]
<1>1. N \in Nat
  BY FiniteNames, FS_CardinalityType
<1>2. IsFiniteSet(Used) /\ Cardinality(Used) <= N
  <2>1. IsFiniteSet(Listing) /\ Cardinality(Listing) <= N
    BY FiniteNames, FS_Subset DEF Listing
  <2>2. f \in [Listing -> Used] /\ \A t \in Used : \E n \in Listing : f[n] = t
    OBVIOUS
  <2>3. IsFiniteSet(Used) /\ Cardinality(Used) <= Cardinality(Listing)
    BY <2>1, <2>2, FiniteImage
  <2>4. Cardinality(Used) \in Nat /\ Cardinality(Listing) \in Nat
    BY <2>1, <2>3, FS_CardinalityType
  <2>5. QED
    BY <1>1, <2>1, <2>3, <2>4
<1>3. Unused # {}
  <2>1. SUFFICES ASSUME Unused = {} PROVE FALSE
    OBVIOUS
  <2>2. 1 .. N + 1 \in SUBSET Used
    BY <2>1
  <2>3. Cardinality(1 .. N + 1) <= Cardinality(Used)
    BY <1>2, <2>2, FS_Subset
  <2>4. Cardinality(1 .. N + 1) = N + 1
    BY <1>1, FS_Interval
  <2>5. Cardinality(Used) \in Nat
    BY <1>2, FS_CardinalityType
  <2>6. QED
    BY <1>1, <1>2, <2>3, <2>4, <2>5
<1>4. PICK i \in Unused : \A k \in Unused : i <= k
  <2>1. Unused \in SUBSET Nat
    BY <1>1
  <2>2. QED
    BY <1>3, <2>1, LeastNat
<1>5. i \in 1 .. N + 1 /\ \A n \in Listing : dir[n].inode # i
  BY <1>4
<1>6. \A j \in 1 .. i - 1 : \E n \in Listing : dir[n].inode = j
  BY <1>1, <1>4, <1>5
<1>7. QED
  BY <1>5, <1>6 DEF FreshInode
-----------------------------------------------------------------------------
(* What may happen to the directory: files disappear, move, are written,   *)
(* or change their content.                                                *)

LEMMA NamesApart ==
  ASSUME NEW p \in Projectors, NEW n \in Names
  PROVE  /\ n \in AllNames /\ Tmp(p) \in AllNames /\ Bak(p, n) \in AllNames
         /\ Tmp(p) \notin Names /\ Bak(p, n) \notin Names
         /\ Bak(p, n) # Tmp(p)
         /\ \A q \in Projectors, m \in Names : Bak(p, n) = Bak(q, m) => p = q /\ n = m
         /\ \A q \in Projectors : Tmp(p) = Tmp(q) => p = q
<1>1. Tmp(p) \in OwnNames(p) /\ Bak(p, n) \in OwnNames(p)
  BY DEF OwnNames
<1>2. OwnNames(p) \cap Names = {}
  BY NamesAssumption
<1>3. QED
  BY <1>1, <1>2 DEF AllNames, Tmp, Bak

LEMMA DirDrops ==
  ASSUME DirOK, dir' \in [AllNames -> File \cup {Nothing}],
         \A n \in AllNames : dir'[n] \in {dir[n], Nothing}
  PROVE  DirOK'
<1>1. \A n \in Listing' : n \in Listing /\ dir'[n] = dir[n]
  BY DEF Listing, Has
<1>2. QED
  BY <1>1 DEF DirOK

LEMMA DirDrop ==
  ASSUME DirOK, NEW n, dir' = [dir EXCEPT ![n] = Nothing]
  PROVE  DirOK'
<1>1. dir' \in [AllNames -> File \cup {Nothing}]
  BY DEF DirOK
<1>2. \A m \in AllNames : dir'[m] \in {dir[m], Nothing}
  BY DEF DirOK
<1>3. QED
  BY <1>1, <1>2, DirDrops

LEMMA DirMoves ==
  ASSUME DirOK, NEW m \in AllNames, NEW n \in AllNames, m # n,
         dir' = [dir EXCEPT ![m] = dir[n], ![n] = Nothing]
  PROVE  DirOK'
<1>1. dir' \in [AllNames -> File \cup {Nothing}]
  BY DEF DirOK
<1>2. \A k \in AllNames : dir'[k] = IF k = n THEN Nothing ELSE IF k = m THEN dir[n] ELSE dir[k]
  BY DEF DirOK
<1>3. ASSUME NEW k \in Listing', NEW l \in Listing', dir'[k].inode = dir'[l].inode
      PROVE  k = l
  BY <1>2, <1>3 DEF Listing, Has, DirOK
<1>4. QED
  BY <1>1, <1>3 DEF DirOK

LEMMA DirWrites ==
  ASSUME DirOK, NEW n \in AllNames, NEW c \in Contents,
         dir' = [dir EXCEPT ![n] = [inode |-> FreshInode, content |-> c]]
  PROVE  DirOK'
<1>1. FreshInode \in 1 .. Cardinality(AllNames) + 1
  BY FreshIn DEF DirOK
<1>2. \A m \in Listing : dir[m].inode # FreshInode
  BY FreshIn DEF DirOK
<1> DEFINE file == [inode |-> FreshInode, content |-> c]
<1>3. file \in File /\ file.inode = FreshInode
  BY <1>1 DEF File
<1>4. dir' = [dir EXCEPT ![n] = file]
  OBVIOUS
<1> HIDE DEF file
<1>5. dir' \in [AllNames -> File \cup {Nothing}]
  BY <1>3, <1>4 DEF DirOK
<1>6. \A k \in AllNames : dir'[k] = IF k = n THEN file ELSE dir[k]
  BY <1>4 DEF DirOK
<1>7. ASSUME NEW k \in Listing', NEW l \in Listing', dir'[k].inode = dir'[l].inode
      PROVE  k = l
  <2>1. k \in AllNames /\ l \in AllNames /\ (k # n => k \in Listing) /\ (l # n => l \in Listing)
    BY <1>6 DEF Listing, Has
  <2>2. QED
    BY <1>2, <1>3, <1>6, <1>7, <2>1 DEF DirOK
<1>8. QED
  BY <1>5, <1>7 DEF DirOK

LEMMA DirEdits ==
  ASSUME DirOK, NEW n \in AllNames, Has(n), dir' = [dir EXCEPT ![n].content = UserText]
  PROVE  DirOK'
<1>1. dir[n] \in File
  BY DEF DirOK, Has
<1> DEFINE file == [dir[n] EXCEPT !.content = UserText]
<1>2. file \in File /\ file.inode = dir[n].inode
  BY <1>1 DEF File, Contents
<1>3. dir' = [dir EXCEPT ![n] = file]
  OBVIOUS
<1> HIDE DEF file
<1>4. dir' \in [AllNames -> File \cup {Nothing}]
  BY <1>2, <1>3 DEF DirOK
<1>5. \A k \in AllNames : dir'[k] = IF k = n THEN file ELSE dir[k]
  BY <1>3 DEF DirOK
<1>6. ASSUME NEW k \in Listing', NEW l \in Listing', dir'[k].inode = dir'[l].inode
      PROVE  k = l
  <2>1. k \in Listing /\ l \in Listing /\ dir'[k].inode = dir[k].inode /\ dir'[l].inode = dir[l].inode
    BY <1>2, <1>5 DEF Listing, Has
  <2>2. QED
    BY <1>6, <2>1 DEF DirOK
<1>7. QED
  BY <1>4, <1>6 DEF DirOK
-----------------------------------------------------------------------------
(* Every step of a run keeps its type and its shape.                       *)

LEMMA RunStep ==
  ASSUME RunsOK, NEW p \in Projectors, NEW r \in RunType, ShapeOK(r), Goto(p, r)
  PROVE  RunsOK' /\ run'[p] = r /\ \A q \in Projectors \ {p} : run'[q] = run[q]
BY DEF RunsOK, Goto

LEMMA JobIn ==
  ASSUME RunsOK, NEW p \in Projectors, run[p].todo # {}
  PROVE  /\ Job(p) \in run[p].todo /\ Job(p) \in JobType
         /\ Job(p).name \in Names /\ Job(p).kind \in Kinds
<1>1. run[p].todo \in SUBSET JobType
  BY DEF RunsOK, RunType
<1>2. Job(p) \in run[p].todo
  BY <1>1, FirstIn DEF Job
<1>3. QED
  BY <1>1, <1>2 DEF JobType

LEMMA GotoOK ==
  ASSUME RunsOK, NEW p \in Projectors, NEW pc \in Pcs, Goto(p, [run[p] EXCEPT !.pc = pc]),
         ShapeOK([run[p] EXCEPT !.pc = pc])
  PROVE  RunsOK'
<1>1. [run[p] EXCEPT !.pc = pc] \in RunType
  BY DEF RunsOK, RunType
<1>2. QED
  BY <1>1, RunStep

\* What a step of a publication leaves as it is.
Same(r, s) ==
  /\ s.snap = r.snap /\ s.status = r.status /\ s.prev = r.prev /\ s.names = r.names
  /\ s.act = r.act /\ s.drop = r.drop /\ s.conflicts = r.conflicts

LEMMA NextJobOK ==
  ASSUME NEW r \in RunType, r.todo # {}, r.conflicts = 0
  PROVE  /\ NextJob(r) \in RunType /\ ShapeOK(NextJob(r)) /\ Same(r, NextJob(r))
         /\ NextJob(r).muts = r.muts /\ NextJob(r).todo = r.todo \ {First(r.todo)}
         /\ NextJob(r).pc \in {"recheck", "look", "check", "verify"}
<1> DEFINE rest == r.todo \ {First(r.todo)}
<1>1. rest \in SUBSET JobType
  BY DEF RunType
<1>2. rest # {} => First(rest) \in JobType
  BY <1>1, FirstIn
<1> HIDE DEF rest
<1>3. EntryOf(rest) \in {"recheck", "look", "check", "verify"}
  BY DEF EntryOf
<1>4. NextJob(r) = [r EXCEPT !.todo = rest, !.pc = EntryOf(rest), !.held = Nothing]
  BY DEF NextJob, rest
<1>5. NextJob(r) \in RunType
  BY <1>1, <1>3, <1>4 DEF RunType, Pcs, Publishing
<1>6. ShapeOK(NextJob(r))
  <2>1. /\ NextJob(r).todo = rest /\ NextJob(r).pc = EntryOf(rest)
        /\ NextJob(r).conflicts = 0
    BY <1>4 DEF RunType
  <2>2. EntryOf(rest) \in Working => rest # {}
    BY DEF EntryOf, Working, Moving, Writing
  <2>3. EntryOf(rest) = "look" => First(rest).kind = "create"
    BY DEF EntryOf
  <2>4. EntryOf(rest) = "check" => First(rest).kind = "check"
    BY DEF EntryOf
  <2>5. EntryOf(rest) = "verify" => First(rest).kind \in {"replace", "delete"}
    BY <1>2 DEF EntryOf, JobType, Kinds
  <2>6. EntryOf(rest) = "recheck" => rest = {}
    BY DEF EntryOf
  <2>7. QED
    BY <1>3, <2>1, <2>2, <2>3, <2>4, <2>5, <2>6 DEF ShapeOK, Working, Moving, Writing, Publishing
<1>7. Same(r, NextJob(r)) /\ NextJob(r).muts = r.muts /\ NextJob(r).todo = rest
  BY <1>4 DEF RunType, Same
<1>8. NextJob(r).pc \in {"recheck", "look", "check", "verify"}
  BY <1>3, <1>4 DEF RunType
<1>9. QED
  BY <1>5, <1>6, <1>7, <1>8 DEF rest

(* What the run holds for published once it has written, or was cut short    *)
(* writing: the mutation of a created file is new, that of a replaced one is *)
(* completed.                                                                *)
Published(p) ==
  IF Job(p).kind = "create"
  THEN Append(run[p].muts, [kind |-> "created", name |-> Job(p).name, was |-> Nothing,
                            now |-> dir[Job(p).name]])
  ELSE [run[p].muts EXCEPT ![Len(run[p].muts)].now = dir[Job(p).name]]

LEMMA PublishedOK ==
  ASSUME DirOK, RunsOK, NEW p \in Projectors, run[p].pc \in Writing
  PROVE  LET k == Len(run[p].muts)
             made == [kind |-> "created", name |-> Job(p).name, was |-> Nothing,
                      now |-> dir[Job(p).name]]
         IN
         /\ Published(p) \in Seq(Mutation) /\ run[p].muts \in Seq(Mutation) /\ k \in Nat
         /\ Job(p).kind = "create" =>
              /\ Len(Published(p)) = k + 1 /\ Published(p)[k + 1] = made
              /\ \A i \in 1 .. k : Published(p)[i] = run[p].muts[i]
         /\ Job(p).kind # "create" =>
              /\ k # 0 /\ Len(Published(p)) = k
              /\ Published(p)[k] = [run[p].muts[k] EXCEPT !.now = dir[Job(p).name]]
              /\ \A i \in 1 .. k - 1 : Published(p)[i] = run[p].muts[i]
<1> DEFINE r == run[p]
           k == Len(r.muts)
           made == [kind |-> "created", name |-> Job(p).name, was |-> Nothing,
                    now |-> dir[Job(p).name]]
           done == [r.muts[k] EXCEPT !.now = dir[Job(p).name]]
<1>1. r \in RunType /\ ShapeOK(r)
  BY DEF RunsOK
<1>2. r.todo # {} /\ Job(p).kind \in {"create", "replace"}
  BY <1>1 DEF ShapeOK, Working, Writing, Job
<1>3. Job(p).name \in Names
  BY <1>2, JobIn
<1>4. dir[Job(p).name] \in File \cup {Nothing}
  BY <1>3 DEF DirOK, AllNames
<1>5. r.muts \in Seq(Mutation) /\ k \in Nat
  BY <1>1, LenProperties DEF RunType
<1>6. CASE Job(p).kind = "create"
  <2>1. made \in Mutation
    BY <1>3, <1>4 DEF Mutation
  <2>2. Published(p) = Append(r.muts, made)
    BY <1>6 DEF Published
  <2> HIDE DEF made
  <2>3. QED
    BY <1>5, <1>6, <2>1, <2>2, AppendProperties DEF made
<1>7. CASE Job(p).kind # "create"
  <2>1. k \in 1 .. Len(r.muts)
    BY <1>1, <1>2, <1>5, <1>7, EmptySeq DEF ShapeOK, Writing, Job
  <2>2. r.muts[k] \in Mutation
    BY <1>5, <2>1, ElementOfSeq
  <2>3. done \in Mutation
    BY <1>4, <2>2 DEF Mutation
  <2>4. Published(p) = [r.muts EXCEPT ![k] = done]
    BY <1>7 DEF Published
  <2> HIDE DEF done
  <2>5. /\ Published(p) \in Seq(Mutation) /\ Len(Published(p)) = k
        /\ \A j \in 1 .. k : Published(p)[j] = IF j = k THEN done ELSE r.muts[j]
    BY <1>5, <2>1, <2>3, <2>4, ExceptSeq
  <2>6. QED
    BY <1>5, <1>7, <2>1, <2>5 DEF done
<1>8. QED
  BY <1>6, <1>7

(* What an unwound run has left to take back: a file it had renamed into    *)
(* place by then, too, unless the look at it failed.                        *)
Wrote(p) ==
  run[p].pc \in Writing /\ Is(Job(p).name, Payload(p, Job(p).name))
Kept(p) == Wrote(p) /\ Job(p).name \notin missed'[p]
ToUndo(p, status) ==
  [run[p] EXCEPT !.pc = "undo", !.status = status, !.todo = {}, !.held = Nothing,
                 !.muts = IF Kept(p) THEN Published(p) ELSE @]

LEMMA AbortOK ==
  ASSUME DirOK, RunsOK, missed \in [Projectors -> SUBSET AllNames],
         NEW p \in Projectors, run[p].pc \in Publishing \cup {"fresh"},
         NEW status \in {"stale", "failure"}, Abort(p, status)
  PROVE  /\ DirOK' /\ RunsOK' /\ Goto(p, ToUndo(p, status))
         /\ ToUndo(p, status) \in RunType
         /\ run' = [run EXCEPT ![p] = ToUndo(p, status)] /\ run'[p] = ToUndo(p, status)
         /\ \A x \in AllNames \ {Tmp(p)} : dir'[x] = dir[x]
         /\ dir'[Tmp(p)] \in {dir[Tmp(p)], Nothing}
         /\ Tmp(p) \notin missed'[p] => dir'[Tmp(p)] = Nothing
         /\ missed' \in [Projectors -> SUBSET AllNames]
         /\ \A n \in Names : n \in missed'[p] => Wrote(p) /\ ~Kept(p) /\ n = Job(p).name
         /\ lost' \in {lost, lost \cup {0}} /\ (missed'[p] = {} \/ 0 \in lost')
<1> DEFINE r == run[p]
           muts == IF Kept(p) THEN Published(p) ELSE r.muts
           s == [r EXCEPT !.pc = "undo", !.status = status, !.muts = muts, !.todo = {},
                          !.held = Nothing]
<1>1. r \in RunType
  BY DEF RunsOK
<1>2. muts \in Seq(Mutation)
  BY <1>1, PublishedOK DEF Kept, Wrote, RunType
<1>3. Tmp(p) \in AllNames /\ Tmp(p) \notin Names
  BY NamesApart DEF Names
<1>4. Wrote(p) => Job(p).name \in Names
  <2>1. Wrote(p) => r.todo # {}
    BY DEF Wrote, RunsOK, ShapeOK, Working
  <2>2. QED
    BY <2>1, JobIn
<1>5. PICK seen \in BOOLEAN, swept \in BOOLEAN :
         /\ (seen => Wrote(p)) /\ (swept => Has(Tmp(p)))
         /\ Goto(p, [r EXCEPT !.pc = "undo", !.status = status, !.todo = {}, !.held = Nothing,
                              !.muts = IF ~seen THEN r.muts ELSE Published(p)])
         /\ dir' = IF swept THEN [dir EXCEPT ![Tmp(p)] = Nothing] ELSE dir
         /\ missed' = [missed EXCEPT ![p] =
              (IF Wrote(p) /\ ~seen THEN {Job(p).name} ELSE {})
              \cup (IF Has(Tmp(p)) /\ ~swept THEN {Tmp(p)} ELSE {})]
         /\ lost' = IF missed'[p] = {} THEN lost ELSE lost \cup {0}
  <2> DEFINE writes == /\ run[p].pc \in {"temp", "rename", "record"}
                       /\ Is(Job(p).name, Payload(p, Job(p).name))
             there == dir[Tmp(p)] # Nothing
  <2>1. PICK seen \in {writes, FALSE}, swept \in {there, FALSE} :
           /\ Goto(p, [r EXCEPT !.pc = "undo", !.status = status, !.todo = {}, !.held = Nothing,
                                !.muts = IF ~seen THEN r.muts ELSE Published(p)])
           /\ dir' = IF swept THEN [dir EXCEPT ![Tmp(p)] = Nothing] ELSE dir
           /\ missed' = [missed EXCEPT ![p] =
                (IF seen = writes THEN {} ELSE {Job(p).name})
                \cup (IF swept = there THEN {} ELSE {Tmp(p)})]
           /\ lost' = IF missed'[p] = {} THEN lost ELSE lost \cup {0}
    BY DEF Abort, Published, Has
  <2>2. seen \in BOOLEAN /\ swept \in BOOLEAN
    OBVIOUS
  <2>3. (seen => writes) /\ (swept => there)
    OBVIOUS
  <2>4. (IF seen = writes THEN {} ELSE {Job(p).name})
          = IF writes /\ ~seen THEN {Job(p).name} ELSE {}
    BY <2>2, <2>3
  <2>5. (IF swept = there THEN {} ELSE {Tmp(p)}) = IF there /\ ~swept THEN {Tmp(p)} ELSE {}
    BY <2>2, <2>3
  <2>6. (writes <=> Wrote(p)) /\ (there <=> Has(Tmp(p)))
    BY DEF Wrote, Writing, Has
  <2> HIDE DEF writes, there
  <2>7. QED
    BY <2>1, <2>2, <2>3, <2>4, <2>5, <2>6
<1>6. missed'[p] = (IF Wrote(p) /\ ~seen THEN {Job(p).name} ELSE {})
                      \cup (IF Has(Tmp(p)) /\ ~swept THEN {Tmp(p)} ELSE {})
  BY <1>5
<1>7. seen <=> Kept(p)
  BY <1>3, <1>4, <1>5, <1>6 DEF Kept
<1>8. Goto(p, s)
  BY <1>5, <1>7
<1>9. ToUndo(p, status) = s
  BY <1>1 DEF ToUndo, RunType
<1> HIDE DEF muts
<1>10. s \in RunType
  BY <1>1, <1>2 DEF RunType, Pcs
<1>11. s.pc = "undo" /\ s.todo = {}
  BY <1>1 DEF RunType
<1> HIDE DEF s
<1>12. ShapeOK(s)
  BY <1>11 DEF ShapeOK, Working, Moving, Writing, Publishing
<1>13. RunsOK' /\ run'[p] = s
  BY <1>8, <1>10, <1>12, RunStep
<1>14. DirOK'
  <2>1. CASE swept
    BY <1>5, <2>1, DirDrop
  <2>2. CASE ~swept
    BY <1>5, <2>2 DEF DirOK, Listing, Has
  <2>3. QED
    BY <2>1, <2>2
<1>15. /\ \A x \in AllNames \ {Tmp(p)} : dir'[x] = dir[x]
       /\ dir'[Tmp(p)] \in {dir[Tmp(p)], Nothing}
       /\ Tmp(p) \notin missed'[p] => dir'[Tmp(p)] = Nothing
  BY <1>3, <1>5, <1>6 DEF DirOK, Has
<1>16. missed' \in [Projectors -> SUBSET AllNames]
  <2>1. missed'[p] \in SUBSET AllNames
    <3>1. Wrote(p) => Job(p).name \in AllNames
      BY <1>4 DEF AllNames
    <3>2. QED
      BY <1>3, <1>6, <3>1
  <2>2. QED
    BY <1>5, <2>1
<1>17. ASSUME NEW n \in Names, n \in missed'[p] PROVE Wrote(p) /\ ~Kept(p) /\ n = Job(p).name
  <2>1. n # Tmp(p)
    BY <1>3
  <2>2. Wrote(p) /\ ~seen /\ n = Job(p).name
    BY <1>6, <1>17, <2>1
  <2>3. QED
    BY <1>7, <2>2
<1>18. lost' \in {lost, lost \cup {0}} /\ (missed'[p] = {} \/ 0 \in lost')
  BY <1>5
<1>19. QED
  BY <1>8, <1>9, <1>10, <1>13, <1>14, <1>15, <1>16, <1>17, <1>18 DEF Goto

LEMMA QuietStep ==
  ASSUME TypeInv, RunsOK', UNCHANGED <<rev, dir, edits, history>>
  PROVE  TypeInv'
BY DEF TypeInv, DirOK, Listing, Has, history

LEMMA FailStep ==
  ASSUME TypeInv, NEW p \in Projectors, run[p].pc \in Publishing \cup {"fresh"},
         NEW status \in {"stale", "failure"}, Abort(p, status), faulted' \in [Projectors -> BOOLEAN]
  PROVE  TypeInv'
<1>1. /\ DirOK' /\ RunsOK' /\ missed' \in [Projectors -> SUBSET AllNames]
      /\ lost' \in {lost, lost \cup {0}}
  BY AbortOK DEF TypeInv
<1>2. UNCHANGED <<rev, edits, touched, before, written>>
  BY DEF Abort
<1>3. QED
  BY <1>1, <1>2 DEF TypeInv

LEMMA ReportOK ==
  ASSUME NEW r \in RunType, NEW status \in {"none", "ok", "conflict", "stale", "failure"}
  PROVE  Report(r, status) \in RunType /\ ShapeOK(Report(r, status))
<1>1. /\ Report(r, status).pc = "done" /\ Report(r, status).todo = {}
      /\ Report(r, status).muts = <<>>
  BY DEF Report, Idle
<1>2. 1 \in Revisions
  <2>1. Len(Rendering) \in Nat \ {0}
    BY ProjectionAssumption, EmptySeq
  <2>2. QED
    BY <2>1 DEF Revisions
<1>3. <<>> \in Seq(Mutation)
  BY EmptySeq
<1>4. Idle \in RunType
  BY <1>2, <1>3 DEF Idle, RunType, Pcs
<1>5. Report(r, status) \in RunType
  <2>1. r.snap \in Revisions /\ r.conflicts \in Nat /\ "done" \in Pcs
    BY DEF RunType, Pcs
  <2>2. QED
    BY <1>4, <2>1 DEF RunType, Report
<1>6. QED
  BY <1>1, <1>5 DEF ShapeOK, Working, Moving, Writing, Publishing

LEMMA IdleOK == Idle \in RunType /\ ShapeOK(Idle)
<1>1. 1 \in Revisions
  <2>1. Len(Rendering) \in Nat \ {0}
    BY ProjectionAssumption, EmptySeq
  <2>2. QED
    BY <2>1 DEF Revisions
<1>2. <<>> \in Seq(Mutation)
  BY EmptySeq
<1>3. Idle \in RunType
  BY <1>1, <1>2 DEF Idle, RunType, Pcs
<1>4. QED
  BY <1>3 DEF Idle, ShapeOK, Working, Moving, Writing, Publishing

LEMMA BeginType ==
  ASSUME TypeInv, NEW p \in Projectors, Begin(p)
  PROVE  TypeInv'
<1> DEFINE s == [Idle EXCEPT !.pc = "preflight", !.snap = rev]
<1>1. s \in RunType /\ ShapeOK(s)
  <2>1. s \in RunType
    BY IdleOK DEF TypeInv, RunType, Pcs
  <2>2. s.pc = "preflight" /\ s.todo = {} /\ s.muts = <<>> /\ s.conflicts = 0
    BY DEF Idle
  <2>3. QED
    BY <2>1, <2>2 DEF ShapeOK, Working, Moving, Writing, Publishing
<1> HIDE DEF s
<1>2. run' = [q \in Projectors |-> IF q = p THEN s ELSE IF At(q, "done") THEN Idle ELSE run[q]]
  BY DEF Begin, s
<1>3. \A q \in Projectors : run'[q] \in RunType /\ ShapeOK(run'[q])
  BY <1>1, <1>2, IdleOK DEF TypeInv, RunsOK
<1>4. RunsOK'
  BY <1>2, <1>3 DEF RunsOK
<1>5. UNCHANGED <<rev, dir, edits, lost>> /\ dir \in [AllNames -> File \cup {Nothing}]
  BY DEF Begin, TypeInv, DirOK
<1>6. /\ touched' \in [Projectors -> SUBSET UserNames]
      /\ before' \in [Projectors -> [AllNames -> File \cup {Nothing}]]
      /\ faulted' \in [Projectors -> BOOLEAN] /\ written' \in [Projectors -> SUBSET Revisions]
      /\ missed' \in [Projectors -> SUBSET AllNames]
  BY <1>5 DEF Begin, TypeInv
<1>7. DirOK'
  BY <1>5 DEF TypeInv, DirOK, Listing, Has
<1>8. QED
  BY <1>4, <1>5, <1>6, <1>7 DEF TypeInv

LEMMA PlanType ==
  ASSUME NEW r \in Revisions
  PROVE  Plan(r) \in SUBSET JobType
<1>1. Created(r) \cup Replaced(r) \cup Deleted(r) \subseteq Docs
  BY DEF Created, Replaced, Deleted, Rendered, Listed
<1>2. Meta \subseteq Names /\ Docs \subseteq Names /\ Manifest \in Names
  BY DEF Meta, Names
<1>3. QED
  BY <1>1, <1>2 DEF Plan, JobType, Kinds

LEMMA PreviousType ==
  ASSUME TypeInv
  PROVE  Previous \in Contents \cup {Unlisted, Nothing}
BY DEF Previous, Unlisted, TypeInv, DirOK, Has, File, AllNames, Names

LEMMA PreflightType ==
  ASSUME TypeInv, NEW p \in Projectors, Preflight(p)
  PROVE  TypeInv'
<1>1. run[p] \in RunType /\ ShapeOK(run[p]) /\ run[p].pc = "preflight"
  BY DEF TypeInv, RunsOK, Preflight, At
<1>2. UNCHANGED <<rev, dir, edits, history>>
  BY DEF Preflight
<1>3. CASE NoConflict(run[p].snap)
  <2> DEFINE s == [run[p] EXCEPT !.pc = "fresh", !.names = Listing, !.prev = Previous,
                                 !.todo = Plan(run[p].snap)]
  <2>1. run[p].snap \in Revisions /\ Listing \in SUBSET AllNames
    BY <1>1 DEF RunType, Listing
  <2>2. Plan(run[p].snap) \in SUBSET JobType /\ Previous \in Contents \cup {Unlisted, Nothing}
    BY <2>1, PlanType, PreviousType
  <2>3. s \in RunType
    BY <1>1, <2>1, <2>2 DEF RunType, Pcs
  <2>4. s.pc = "fresh" /\ s.muts = <<>> /\ s.conflicts = 0
    BY <1>1 DEF RunType, ShapeOK
  <2>5. ShapeOK(s)
    BY <2>4 DEF ShapeOK, Working, Moving, Writing, Publishing
  <2>6. Goto(p, s)
    BY <1>3 DEF Preflight
  <2> HIDE DEF s
  <2>7. RunsOK'
    BY <2>3, <2>5, <2>6, RunStep DEF TypeInv
  <2>8. QED
    BY <1>2, <2>7, QuietStep
<1>4. CASE ~NoConflict(run[p].snap)
  <2>1. Goto(p, Report(run[p], "conflict"))
    BY <1>4 DEF Preflight
  <2>2. RunsOK'
    BY <1>1, <2>1, ReportOK, RunStep DEF TypeInv
  <2>3. QED
    BY <1>2, <2>2, QuietStep
<1>5. QED
  BY <1>3, <1>4

LEMMA EntryOK ==
  ASSUME NEW todo \in SUBSET JobType
  PROVE  /\ EntryOf(todo) \in {"recheck", "look", "check", "verify"}
         /\ EntryOf(todo) = "recheck" <=> todo = {}
         /\ EntryOf(todo) = "look" => First(todo).kind = "create"
         /\ EntryOf(todo) = "check" => First(todo).kind = "check"
         /\ EntryOf(todo) = "verify" => First(todo).kind \in {"replace", "delete"}
<1>1. todo # {} => First(todo) \in JobType
  BY FirstIn
<1>2. QED
  BY <1>1 DEF EntryOf, JobType, Kinds

(* The steps that only look: they move on, or the run is unwound.          *)

Looking(p) ==
  \/ Fresh(p) \/ Recheck(p) \/ Apply(p) \/ Look(p) \/ Verify(p) \/ Compare(p) \/ Validate(p)

Onward(r, pc) ==
  \/ r.pc = "fresh" /\ pc = "apply"
  \/ r.pc = "apply" /\ pc = EntryOf(r.todo)
  \/ r.pc = "look" /\ pc = "temp"
  \/ r.pc = "verify" /\ pc = "identify"
  \/ r.pc = "compare" /\ pc = "move"
  \/ r.pc = "recheck" /\ pc = "validate"
  \/ r.pc = "validate" /\ pc = "commit"

\* The bytes of a file the old manifest lists.
Old(r, n) == IF n = Manifest THEN r.prev ELSE r.prev[n]

\* What a step that moves on has seen.
Saw(p) ==
  LET n == Job(p).name IN
  /\ run[p].pc \in {"fresh", "recheck"} => rev = run[p].snap
  /\ run[p].pc = "look" => ~Has(n)
  /\ run[p].pc = "verify" => Is(n, Old(run[p], n))
  /\ run[p].pc = "compare" => dir[n] = run[p].held
  /\ run[p].pc = "validate" =>
       /\ \A m \in {Marker, Manifest} \cup Rendered(run[p].snap) : Is(m, Payload(p, m))
       /\ Listing = Rendered(run[p].snap) \cup {Marker, Manifest} \cup Backups(p)

Gives(p, status) ==
  /\ Abort(p, status) /\ UNCHANGED faulted
  /\ run[p].pc \in Publishing \cup {"fresh"}

LEMMA LookingCases ==
  ASSUME NEW p \in Projectors, Looking(p)
  PROVE  \/ \E pc : Onward(run[p], pc) /\ Saw(p) /\ Proceed(p, pc)
         \/ \E status \in {"stale", "failure"} : Gives(p, status)
<1>1. CASE Fresh(p)
  BY <1>1 DEF Fresh, At, Onward, Proceed, Gives, Saw
<1>2. CASE Recheck(p)
  BY <1>2 DEF Recheck, At, Publishing, Onward, Proceed, Gives, Saw
<1>3. CASE Apply(p)
  BY <1>3 DEF Apply, Fail, At, Publishing, Onward, Proceed, Gives, Saw
<1>4. CASE Look(p)
  BY <1>4 DEF Look, Fail, At, Publishing, Onward, Gives, Saw
<1>5. CASE Verify(p)
  BY <1>5 DEF Verify, Old, Fail, At, Publishing, Onward, Gives, Saw
<1>6. CASE Compare(p)
  BY <1>6 DEF Compare, Fail, At, Publishing, Onward, Gives, Saw
<1>7. CASE Validate(p)
  BY <1>7 DEF Validate, Fail, At, Publishing, Onward, Gives, Saw
<1>8. QED
  BY <1>1, <1>2, <1>3, <1>4, <1>5, <1>6, <1>7 DEF Looking

LEMMA OnwardOK ==
  ASSUME NEW r \in RunType, ShapeOK(r), NEW pc, Onward(r, pc)
  PROVE  /\ [r EXCEPT !.pc = pc] \in RunType /\ ShapeOK([r EXCEPT !.pc = pc])
         /\ pc \in Publishing \cup {"commit"}
<1>1. r.todo \in SUBSET JobType
  BY DEF RunType
<1>2. EntryOf(r.todo) \in {"recheck", "look", "check", "verify"}
  BY <1>1, EntryOK
<1>3. pc \in Publishing \cup {"commit"}
  BY <1>2 DEF Onward, Publishing
<1> DEFINE s == [r EXCEPT !.pc = pc]
<1>4. s \in RunType
  BY <1>3 DEF RunType, Pcs
<1>5. s.pc = pc /\ s.todo = r.todo /\ s.muts = r.muts /\ s.conflicts = r.conflicts
  BY DEF RunType
<1> HIDE DEF s
<1>6. ASSUME r.pc = "apply" PROVE ShapeOK(s)
  <2>1. pc = EntryOf(r.todo) /\ r.conflicts = 0
    BY <1>6 DEF Onward, ShapeOK, Publishing
  <2>2. /\ pc \in {"recheck", "look", "check", "verify"}
        /\ pc = "recheck" <=> r.todo = {}
        /\ pc = "look" => First(r.todo).kind = "create"
        /\ pc = "check" => First(r.todo).kind = "check"
        /\ pc = "verify" => First(r.todo).kind \in {"replace", "delete"}
    BY <1>1, <2>1, EntryOK
  <2>3. QED
    BY <1>5, <2>1, <2>2 DEF ShapeOK, Working, Moving, Writing, Publishing
<1>7. ASSUME r.pc # "apply" PROVE ShapeOK(s)
  <2>1. r.conflicts = 0 /\ (pc = "apply" => r.muts = <<>>)
    BY <1>7 DEF Onward, ShapeOK, Publishing
  <2>2. CASE r.pc \in {"look", "verify", "compare"}
    BY <1>5, <2>1, <2>2 DEF Onward, ShapeOK, Working, Moving, Writing, Publishing
  <2>3. CASE r.pc \in {"fresh", "recheck", "validate"}
    BY <1>5, <2>1, <2>3 DEF Onward, ShapeOK, Working, Moving, Writing, Publishing
  <2>4. QED
    BY <1>7, <2>2, <2>3 DEF Onward
<1>8. QED
  BY <1>3, <1>4, <1>6, <1>7 DEF s

LEMMA LookingType ==
  ASSUME TypeInv, NEW p \in Projectors, Looking(p)
  PROVE  TypeInv'
<1>1. run[p] \in RunType /\ ShapeOK(run[p])
  BY DEF TypeInv, RunsOK
<1>2. ASSUME NEW pc, Onward(run[p], pc), Proceed(p, pc)
      PROVE  TypeInv'
  <2>1. RunsOK'
    BY <1>1, <1>2, OnwardOK, RunStep DEF TypeInv, Proceed
  <2>2. QED
    BY <1>2, <2>1, QuietStep DEF Proceed
<1>3. ASSUME NEW status \in {"stale", "failure"}, Gives(p, status)
      PROVE  TypeInv'
  BY <1>3, FailStep DEF Gives, TypeInv
<1>4. QED
  BY <1>2, <1>3, LookingCases

LEMMA IdentifyType ==
  ASSUME TypeInv, NEW p \in Projectors, Identify(p)
  PROVE  TypeInv'
<1>1. run[p] \in RunType /\ ShapeOK(run[p]) /\ run[p].pc = "identify"
  BY DEF TypeInv, RunsOK, Identify, At
<1>2. CASE ~Has(Job(p).name)
  <2>1. Abort(p, "failure") /\ UNCHANGED faulted
    BY <1>2 DEF Identify, Fail
  <2>2. QED
    BY <1>1, <2>1, FailStep DEF Publishing, TypeInv
<1>3. CASE Has(Job(p).name)
  <2> DEFINE s == [run[p] EXCEPT !.pc = "compare", !.held = dir[Job(p).name]]
  <2>1. run[p].todo # {}
    BY <1>1 DEF ShapeOK, Working, Moving
  <2>2. Job(p).name \in Names
    BY <2>1, JobIn DEF TypeInv
  <2>3. dir[Job(p).name] \in File \cup {Nothing}
    BY <2>2 DEF TypeInv, DirOK, AllNames
  <2>4. s \in RunType
    BY <1>1, <2>3 DEF RunType, Pcs, Publishing
  <2>5. /\ s.pc = "compare" /\ s.todo = run[p].todo /\ s.muts = run[p].muts
        /\ s.conflicts = run[p].conflicts
    BY <1>1 DEF RunType
  <2>6. Goto(p, s) /\ UNCHANGED <<rev, dir, edits, history>>
    BY <1>3 DEF Identify
  <2> HIDE DEF s
  <2>7. ShapeOK(s)
    BY <1>1, <2>5 DEF ShapeOK, Working, Moving, Writing, Publishing
  <2>8. RunsOK'
    BY <2>4, <2>6, <2>7, RunStep DEF TypeInv
  <2>9. QED
    BY <2>6, <2>8, QuietStep
<1>4. QED
  BY <1>2, <1>3

LEMMA CheckType ==
  ASSUME TypeInv, NEW p \in Projectors, Check(p)
  PROVE  TypeInv'
<1>1. /\ run[p] \in RunType /\ ShapeOK(run[p]) /\ run[p].pc = "check"
      /\ run[p].todo # {} /\ run[p].conflicts = 0
  BY DEF TypeInv, RunsOK, Check, At, ShapeOK, Working, Publishing
<1>2. CASE Fail(p)
  BY <1>1, <1>2, FailStep DEF Fail, Publishing, TypeInv
<1>3. CASE Goto(p, NextJob(run[p])) /\ UNCHANGED <<rev, dir, edits, history>>
  <2>1. RunsOK'
    BY <1>1, <1>3, NextJobOK, RunStep DEF TypeInv
  <2>2. QED
    BY <1>3, <2>1, QuietStep
<1>4. QED
  BY <1>2, <1>3 DEF Check

(* What Move records, and whether the run goes on to write or to the next job. *)
Moved(p) ==
  [kind |-> IF Job(p).kind = "delete" THEN "deleted" ELSE "replaced",
   name |-> Job(p).name, was |-> run[p].held, now |-> Nothing]
AfterMove(p) ==
  LET r == [run[p] EXCEPT !.muts = Append(@, Moved(p))] IN
  IF Job(p).kind = "delete" THEN NextJob(r) ELSE [r EXCEPT !.pc = "temp"]

LEMMA AfterMoveOK ==
  ASSUME RunsOK, NEW p \in Projectors, run[p].pc = "move"
  PROVE  /\ AfterMove(p) \in RunType /\ ShapeOK(AfterMove(p))
         /\ AfterMove(p).muts = Append(run[p].muts, Moved(p))
         /\ Moved(p) \in Mutation /\ Same(run[p], AfterMove(p))
         /\ Job(p).kind = "delete" =>
              /\ AfterMove(p).todo = run[p].todo \ {Job(p)}
              /\ AfterMove(p).pc \in {"recheck", "look", "check", "verify"}
         /\ Job(p).kind # "delete" => AfterMove(p).todo = run[p].todo /\ AfterMove(p).pc = "temp"
<1> DEFINE m == Moved(p)
           r == [run[p] EXCEPT !.muts = Append(@, m)]
<1>1. run[p] \in RunType /\ ShapeOK(run[p])
  BY DEF RunsOK
<1>2. /\ run[p].todo # {} /\ Job(p).kind \in {"replace", "delete"}
      /\ run[p].conflicts = 0
  BY <1>1 DEF ShapeOK, Working, Moving, Publishing, Job
<1>3. Job(p).name \in Names /\ run[p].held \in File \cup {Nothing}
  BY <1>1, <1>2, JobIn DEF RunType
<1>4. m \in Mutation
  BY <1>3 DEF Mutation, Moved
<1>5. run[p].muts \in Seq(Mutation)
  BY <1>1 DEF RunType
<1> HIDE DEF m
<1>6. /\ Append(run[p].muts, m) \in Seq(Mutation) /\ Append(run[p].muts, m) # <<>>
      /\ Append(run[p].muts, m)[Len(Append(run[p].muts, m))] = m
  BY <1>4, <1>5, AppendProperties, LenProperties
<1>7. /\ r \in RunType /\ r.todo = run[p].todo /\ r.conflicts = 0
      /\ r.muts = Append(run[p].muts, m) /\ Same(run[p], r)
  BY <1>1, <1>2, <1>6 DEF RunType, Same
<1>8. CASE Job(p).kind = "delete"
  <2>1. AfterMove(p) = NextJob(r)
    BY <1>8 DEF AfterMove, m
  <2> HIDE DEF r
  <2>2. /\ NextJob(r) \in RunType /\ ShapeOK(NextJob(r)) /\ Same(r, NextJob(r))
        /\ NextJob(r).muts = r.muts /\ NextJob(r).todo = r.todo \ {First(r.todo)}
        /\ NextJob(r).pc \in {"recheck", "look", "check", "verify"}
    BY <1>2, <1>7, NextJobOK
  <2>3. Same(run[p], NextJob(r))
    BY <1>7, <2>2 DEF Same
  <2>4. NextJob(r).todo = run[p].todo \ {Job(p)}
    BY <1>7, <2>2 DEF Job
  <2>5. QED
    BY <1>4, <1>7, <1>8, <2>1, <2>2, <2>3, <2>4 DEF m
<1>9. CASE Job(p).kind # "delete"
  <2> DEFINE s == [r EXCEPT !.pc = "temp"]
  <2>1. AfterMove(p) = s
    BY <1>9 DEF AfterMove, m
  <2> HIDE DEF r
  <2>2. s \in RunType
    BY <1>7 DEF RunType, Pcs, Publishing
  <2>3. s.pc = "temp" /\ s.todo = run[p].todo /\ s.muts = r.muts /\ s.conflicts = 0
    BY <1>7 DEF RunType
  <2>4. m.name = Job(p).name /\ m.kind = "replaced" /\ m.now = Nothing
    BY <1>9 DEF m, Moved
  <2>5. First(run[p].todo).kind = "replace" /\ First(run[p].todo).name = Job(p).name
    BY <1>2, <1>9 DEF Job
  <2> HIDE DEF s
  <2>6. ShapeOK(s)
    BY <1>2, <1>6, <1>7, <2>3, <2>4, <2>5 DEF ShapeOK, Working, Moving, Writing, Publishing
  <2>7. Same(run[p], s)
    BY <1>7 DEF Same, RunType, s
  <2>8. QED
    BY <1>4, <1>7, <1>9, <2>1, <2>2, <2>3, <2>6, <2>7 DEF m
<1>10. QED
  BY <1>8, <1>9

LEMMA MoveCases ==
  ASSUME TypeInv, NEW p \in Projectors, Move(p)
  PROVE  \/ Gives(p, "failure")
         \/ LET n == Job(p).name IN
            /\ Has(n) /\ n \in Names /\ Goto(p, AfterMove(p))
            /\ dir' = [dir EXCEPT ![Bak(p, n)] = dir[n], ![n] = Nothing]
            /\ UNCHANGED <<rev, edits, history>>
<1>1. run[p].pc = "move" /\ run[p].todo # {}
  BY DEF Move, At, TypeInv, RunsOK, ShapeOK, Working, Moving
<1>2. Job(p).name \in Names
  BY <1>1, JobIn DEF TypeInv
<1>3. QED
  BY <1>1, <1>2 DEF Move, Fail, Gives, Publishing, AfterMove, Moved

LEMMA MoveType ==
  ASSUME TypeInv, NEW p \in Projectors, Move(p)
  PROVE  TypeInv'
<1>1. CASE Gives(p, "failure")
  BY <1>1, FailStep DEF Gives, TypeInv
<1> DEFINE n == Job(p).name
<1>2. CASE /\ Has(n) /\ n \in Names /\ Goto(p, AfterMove(p))
           /\ dir' = [dir EXCEPT ![Bak(p, n)] = dir[n], ![n] = Nothing]
           /\ UNCHANGED <<rev, edits, history>>
  <2>1. RunsOK'
    BY <1>2, AfterMoveOK, RunStep DEF TypeInv, Move, At
  <2> HIDE DEF n
  <2>2. Bak(p, n) \in AllNames /\ n \in AllNames /\ Bak(p, n) # n
    BY <1>2, NamesApart
  <2>3. DirOK'
    BY <1>2, <2>2, DirMoves DEF TypeInv
  <2>4. QED
    BY <1>2, <2>1, <2>3 DEF TypeInv, history
<1>3. QED
  BY <1>1, <1>2, MoveCases

LEMMA DesiredType ==
  ASSUME NEW r \in Revisions, NEW n \in Names
  PROVE  Desired(r, n) \in Contents
<1>1. n = Marker \/ n = Manifest \/ n \in Docs
  BY DEF Names
<1>2. Rendering[r] \in Range(Rendering)
  BY ProjectionAssumption, LenProperties DEF Revisions, Range
<1>3. n \in Docs => Rendering[r][n] \in UNION {{Rendering[q][d] : d \in Docs} : q \in Revisions}
  OBVIOUS
<1>4. QED
  BY <1>1, <1>2, <1>3 DEF Desired, Contents

LEMMA WritingType ==
  ASSUME TypeInv, NEW p \in Projectors, run[p].pc \in Writing
  PROVE  /\ run[p] \in RunType /\ ShapeOK(run[p]) /\ run[p].todo # {} /\ run[p].conflicts = 0
         /\ Job(p).name \in Names /\ Job(p).name \in AllNames
         /\ Job(p).kind \in {"create", "replace"}
<1>1. /\ run[p] \in RunType /\ ShapeOK(run[p]) /\ run[p].todo # {} /\ run[p].conflicts = 0
      /\ Job(p).kind \in {"create", "replace"}
  BY DEF TypeInv, RunsOK, ShapeOK, Working, Writing, Publishing, Job
<1>2. QED
  BY <1>1, JobIn DEF TypeInv, AllNames

LEMMA TempType ==
  ASSUME TypeInv, NEW p \in Projectors, Temp(p)
  PROVE  TypeInv'
<1>1. run[p].pc = "temp"
  BY DEF Temp, At
<1>2. run[p] \in RunType /\ ShapeOK(run[p]) /\ Job(p).name \in Names
  BY <1>1, WritingType DEF Writing
<1> DEFINE s == [run[p] EXCEPT !.pc = "rename"]
<1>3. s \in RunType
  BY <1>2 DEF RunType, Pcs, Publishing
<1>4. /\ s.pc = "rename" /\ s.todo = run[p].todo /\ s.muts = run[p].muts
      /\ s.conflicts = run[p].conflicts
  BY <1>2 DEF RunType
<1>5. Goto(p, s)
  BY DEF Temp
<1> HIDE DEF s
<1>6. ShapeOK(s)
  BY <1>1, <1>2, <1>4 DEF ShapeOK, Working, Moving, Writing, Publishing
<1>7. RunsOK'
  BY <1>3, <1>5, <1>6, RunStep DEF TypeInv
<1>8. Payload(p, Job(p).name) \in Contents
  BY <1>2, DesiredType DEF Payload, RunType
<1>9. Tmp(p) \in AllNames
  BY <1>2, NamesApart
<1>10. DirOK'
  BY <1>8, <1>9, DirWrites DEF Temp, TypeInv
<1>11. QED
  BY <1>7, <1>10 DEF Temp, TypeInv, history

LEMMA RenameType ==
  ASSUME TypeInv, NEW p \in Projectors, Rename(p)
  PROVE  TypeInv'
<1>1. run[p].pc = "rename"
  BY DEF Rename, At
<1>2. /\ run[p] \in RunType /\ ShapeOK(run[p]) /\ Job(p).name \in Names
      /\ Job(p).name \in AllNames
  BY <1>1, WritingType DEF Writing
<1> DEFINE s == [run[p] EXCEPT !.pc = "record"]
<1>3. s \in RunType
  BY <1>2 DEF RunType, Pcs, Publishing
<1>4. /\ s.pc = "record" /\ s.todo = run[p].todo /\ s.muts = run[p].muts
      /\ s.conflicts = run[p].conflicts
  BY <1>2 DEF RunType
<1>5. Goto(p, s)
  BY DEF Rename
<1> HIDE DEF s
<1>6. ShapeOK(s)
  BY <1>1, <1>2, <1>4 DEF ShapeOK, Working, Moving, Writing, Publishing
<1>7. RunsOK'
  BY <1>3, <1>5, <1>6, RunStep DEF TypeInv
<1>8. Tmp(p) \in AllNames /\ Tmp(p) # Job(p).name
  BY <1>2, NamesApart
<1>9. DirOK'
  BY <1>2, <1>8, DirMoves DEF Rename, TypeInv
<1>10. written' \in [Projectors -> SUBSET Revisions]
  BY DEF Rename, TypeInv
<1>11. QED
  BY <1>7, <1>9, <1>10 DEF Rename, TypeInv

(* Where the run goes on to when it has recorded a file it wrote.          *)
AfterRecord(p) == NextJob([run[p] EXCEPT !.muts = Published(p)])

LEMMA AfterRecordOK ==
  ASSUME TypeInv, NEW p \in Projectors, run[p].pc = "record"
  PROVE  /\ AfterRecord(p) \in RunType /\ ShapeOK(AfterRecord(p))
         /\ AfterRecord(p).muts = Published(p) /\ Same(run[p], AfterRecord(p))
         /\ AfterRecord(p).todo = run[p].todo \ {Job(p)}
         /\ AfterRecord(p).pc \in {"recheck", "look", "check", "verify"}
<1> DEFINE s == [run[p] EXCEPT !.muts = Published(p)]
<1>1. run[p] \in RunType /\ run[p].todo # {} /\ run[p].conflicts = 0
  BY WritingType DEF Writing
<1>2. Published(p) \in Seq(Mutation)
  BY PublishedOK DEF TypeInv, Writing
<1>3. /\ s \in RunType /\ s.todo = run[p].todo /\ s.conflicts = 0 /\ s.muts = Published(p)
      /\ Same(run[p], s)
  BY <1>1, <1>2 DEF RunType, Same
<1>4. AfterRecord(p) = NextJob(s)
  BY DEF AfterRecord
<1> HIDE DEF s
<1>5. /\ NextJob(s) \in RunType /\ ShapeOK(NextJob(s)) /\ Same(s, NextJob(s))
      /\ NextJob(s).muts = s.muts /\ NextJob(s).todo = s.todo \ {First(s.todo)}
      /\ NextJob(s).pc \in {"recheck", "look", "check", "verify"}
  BY <1>1, <1>3, NextJobOK
<1>6. Same(run[p], NextJob(s)) /\ NextJob(s).todo = run[p].todo \ {Job(p)}
  BY <1>3, <1>5 DEF Same, Job
<1>7. QED
  BY <1>3, <1>4, <1>5, <1>6

LEMMA RecordCases ==
  ASSUME NEW p \in Projectors, Record(p)
  PROVE  \/ Gives(p, "failure")
         \/ /\ Has(Job(p).name) /\ Goto(p, AfterRecord(p))
            /\ UNCHANGED <<rev, dir, edits, history>>
BY DEF Record, At, Fail, Gives, Publishing, AfterRecord, Published

LEMMA RecordType ==
  ASSUME TypeInv, NEW p \in Projectors, Record(p)
  PROVE  TypeInv'
<1>1. CASE Gives(p, "failure")
  BY <1>1, FailStep DEF Gives, TypeInv
<1>2. CASE Goto(p, AfterRecord(p)) /\ UNCHANGED <<rev, dir, edits, history>>
  <2>1. RunsOK'
    BY <1>2, AfterRecordOK, RunStep DEF TypeInv, Record, At
  <2>2. QED
    BY <1>2, <2>1, QuietStep
<1>3. QED
  BY <1>1, <1>2, RecordCases

(* The mutations of a run are finitely many.                               *)
LEMMA FiniteMuts ==
  ASSUME NEW muts \in Seq(Mutation), NEW S \in SUBSET Range(muts)
  PROVE  IsFiniteSet(S) /\ Cardinality(S) \in Nat /\ (Cardinality(S) = 0 => S = {})
<1>1. Len(muts) \in Nat /\ muts \in [1 .. Len(muts) -> Mutation]
  BY LenProperties
<1>2. IsFiniteSet(1 .. Len(muts))
  BY <1>1, FS_Interval
<1>3. \A t \in Range(muts) : \E i \in 1 .. Len(muts) : muts[i] = t
  BY <1>1 DEF Range
<1>4. muts \in [1 .. Len(muts) -> Range(muts)]
  BY <1>1 DEF Range
<1>5. IsFiniteSet(Range(muts))
  BY <1>2, <1>3, <1>4, FiniteImage
<1>6. QED
  BY <1>5, FS_Subset, FS_CardinalityType, FS_EmptySet

LEMMA CommitType ==
  ASSUME TypeInv, NEW p \in Projectors, Commit(p)
  PROVE  TypeInv'
<1> DEFINE moved == {m \in Range(run[p].muts) : m.kind # "created"}
           kept == {m \in moved : Has(Bak(p, m.name)) /\ dir[Bak(p, m.name)] # m.was}
           own == {m \in moved : dir[Bak(p, m.name)] = m.was}
           drop == {Bak(p, m.name) : m \in own}
           s == [run[p] EXCEPT !.pc = "unlink", !.conflicts = Cardinality(kept), !.drop = drop]
<1>1. run[p] \in RunType /\ ShapeOK(run[p]) /\ run[p].pc = "commit"
  BY DEF TypeInv, RunsOK, Commit, At
<1>2. run[p].muts \in Seq(Mutation)
  BY <1>1 DEF RunType
<1>3. Range(run[p].muts) \subseteq Mutation
  BY <1>2, RangeOfSeq
<1>4. drop \in SUBSET AllNames
  BY <1>3, NamesApart DEF Mutation
<1>5. Goto(p, s) /\ UNCHANGED <<rev, dir, edits, history>>
  BY DEF Commit
<1>6. Cardinality(kept) \in Nat
  BY <1>2, FiniteMuts
<1> HIDE DEF kept, drop
<1>7. s \in RunType
  BY <1>1, <1>4, <1>6 DEF RunType, Pcs
<1>8. s.pc = "unlink" /\ s.todo = run[p].todo
  BY <1>1 DEF RunType
<1> HIDE DEF s
<1>9. ShapeOK(s)
  BY <1>1, <1>8 DEF ShapeOK, Working, Moving, Writing, Publishing
<1>10. RunsOK'
  BY <1>5, <1>7, <1>9, RunStep DEF TypeInv
<1>11. QED
  BY <1>5, <1>10, QuietStep

LEMMA UnlinkType ==
  ASSUME TypeInv, NEW p \in Projectors, Unlink(p)
  PROVE  TypeInv'
<1>1. PICK S \in SUBSET {n \in run[p].drop : Has(n)} :
         /\ dir' = [n \in AllNames |-> IF n \in S THEN Nothing ELSE dir[n]]
         /\ Goto(p, Report([run[p] EXCEPT !.conflicts = @ + Cardinality(run[p].drop \ S)], "ok"))
         /\ faulted' = [faulted EXCEPT ![p] = @ \/ S # run[p].drop]
  BY DEF Unlink
<1>2. run[p] \in RunType
  BY DEF TypeInv, RunsOK
<1> DEFINE left == run[p].drop \ S
           s == [run[p] EXCEPT !.conflicts = @ + Cardinality(left)]
<1>3. IsFiniteSet(left) /\ Cardinality(left) \in Nat
  <2>1. left \in SUBSET AllNames
    BY <1>2 DEF RunType
  <2>2. QED
    BY <2>1, FiniteNames, FS_Subset, FS_CardinalityType
<1> HIDE DEF left
<1>4. s \in RunType
  BY <1>2, <1>3 DEF RunType
<1>5. Goto(p, Report(s, "ok"))
  BY <1>1 DEF left
<1> HIDE DEF s
<1>6. RunsOK'
  BY <1>4, <1>5, ReportOK, RunStep DEF TypeInv
<1>7. DirOK'
  <2>1. dir \in [AllNames -> File \cup {Nothing}]
    BY DEF TypeInv, DirOK
  <2>2. dir' \in [AllNames -> File \cup {Nothing}] /\ \A n \in AllNames : dir'[n] \in {dir[n], Nothing}
    BY <1>1, <2>1
  <2>3. QED
    BY <2>2, DirDrops DEF TypeInv
<1>8. faulted' \in [Projectors -> BOOLEAN]
  BY <1>1 DEF TypeInv
<1>9. QED
  BY <1>6, <1>7, <1>8 DEF Unlink, TypeInv

(* What Undo decides about the newest mutation m.                          *)
Ours(m) == m.now # Nothing /\ dir[m.name] = m.now
Backed(p, m) == m.kind # "created" /\ dir[Bak(p, m.name)] = m.was
Decided(p, o, b) == Undone(run[p], Newest(p), Has(Newest(p).name), o, b)

LEMMA UndoneOK ==
  ASSUME RunsOK, NEW p \in Projectors, run[p].pc = "undo", run[p].muts # <<>>,
         NEW o \in BOOLEAN, NEW b \in BOOLEAN
  PROVE  LET s == Decided(p, o, b)
             r == run[p]
             m == Newest(p)
         IN
         /\ s \in RunType /\ ShapeOK(s) /\ s.pc = "undoing" /\ s.muts = r.muts /\ s.todo = {}
         /\ s.conflicts >= r.conflicts /\ s.snap = r.snap /\ s.status = r.status
         /\ s.prev = r.prev
         /\ s.act = IF m.kind = "created" THEN (IF o THEN "unlink" ELSE "none")
                    ELSE IF ~b THEN "none"
                    ELSE IF o \/ ~Has(m.name) THEN "restore" ELSE "drop"
         /\ s.conflicts = r.conflicts =>
              /\ m.now # Nothing /\ Has(m.name) => o
              /\ m.kind # "created" => b
<1> DEFINE r == run[p]
           m == Newest(p)
           there == Has(m.name)
           ours == o
           backed == b
<1>0. r \in RunType /\ r.todo = {} /\ r.muts # <<>>
  BY DEF RunsOK, ShapeOK, Working, Moving, Writing
<1> HIDE DEF r, m
<1> DEFINE foreign == IF m.now # Nothing /\ there /\ ~ours THEN 1 ELSE 0
           s == Undone(r, m, there, ours, backed)
<1>1. r.conflicts \in Nat /\ foreign \in {0, 1} /\ (foreign = 0 <=> (m.now # Nothing /\ there => ours))
  BY <1>0 DEF RunType
<1> HIDE DEF foreign
<1> DEFINE act == IF m.kind = "created" THEN (IF ours THEN "unlink" ELSE "none")
                  ELSE IF ~backed THEN "none"
                  ELSE IF ours \/ ~there THEN "restore" ELSE "drop"
           more == IF m.kind # "created" /\ ~backed THEN r.conflicts + foreign + 1
                   ELSE r.conflicts + foreign
<1>2. s = [r EXCEPT !.pc = "undoing", !.act = act, !.conflicts = more]
  <2>1. CASE m.kind = "created"
    <3>1. s = [r EXCEPT !.pc = "undoing", !.act = IF ours THEN "unlink" ELSE "none",
                        !.conflicts = r.conflicts + foreign]
      BY <2>1 DEF Undone, foreign
    <3>2. QED
      BY <2>1, <3>1
  <2>2. CASE m.kind # "created" /\ ~backed
    <3>1. s = [r EXCEPT !.pc = "undoing", !.act = "none", !.conflicts = r.conflicts + foreign + 1]
      BY <2>2 DEF Undone, foreign
    <3>2. QED
      BY <2>2, <3>1
  <2>3. CASE m.kind # "created" /\ backed
    <3>1. s = [r EXCEPT !.pc = "undoing", !.conflicts = r.conflicts + foreign,
                        !.act = IF ours \/ ~there THEN "restore" ELSE "drop"]
      BY <2>3 DEF Undone, foreign
    <3>2. QED
      BY <1>0, <2>3, <3>1 DEF RunType
  <2>4. QED
    BY <2>1, <2>2, <2>3
<1>3. /\ act \in {"none", "unlink", "drop", "restore"} /\ more \in Nat /\ more >= r.conflicts
      /\ more = r.conflicts =>
           /\ m.now # Nothing /\ there => ours
           /\ m.kind # "created" => backed
  BY <1>0, <1>1 DEF RunType
<1>4. act = IF m.kind = "created" THEN (IF ours THEN "unlink" ELSE "none")
            ELSE IF ~backed THEN "none" ELSE IF ours \/ ~there THEN "restore" ELSE "drop"
  OBVIOUS
<1> HIDE DEF s, act, more
<1>5. /\ s \in RunType /\ s.pc = "undoing" /\ s.muts = r.muts /\ s.todo = {} /\ s.act = act
      /\ s.conflicts = more /\ s.snap = r.snap /\ s.status = r.status /\ s.prev = r.prev
  BY <1>0, <1>2, <1>3 DEF RunType, Pcs
<1>6. ShapeOK(s)
  BY <1>0, <1>5 DEF ShapeOK, Working, Moving, Writing, Publishing
<1>7. QED
  BY <1>3, <1>4, <1>5, <1>6 DEF s, r, m, Decided

LEMMA UndoCases ==
  ASSUME NEW p \in Projectors, Undo(p)
  PROVE  /\ run[p].pc = "undo" /\ run[p].muts # <<>>
         /\ \E o, b \in BOOLEAN :
              /\ (o => Ours(Newest(p))) /\ (b => Backed(p, Newest(p)))
              /\ Goto(p, Decided(p, o, b))
              /\ faulted' \in {faulted, [faulted EXCEPT ![p] = TRUE], [faulted EXCEPT ![p] = @ \/ FALSE]}
              /\ lost' \in {lost, lost \cup {0}}
         /\ UNCHANGED <<rev, dir, edits, touched, before, missed, written>>
<1> DEFINE m == Newest(p)
           ours == m.now # Nothing /\ dir[m.name] = m.now
           backed == m.kind # "created" /\ dir[Bak(p, m.name)] = m.was
<1>1. PICK o \in {ours, FALSE}, b \in {backed, FALSE} :
         /\ Goto(p, Undone(run[p], m, Has(m.name), o, b))
         /\ faulted' = [faulted EXCEPT ![p] = @ \/ o # ours \/ b # backed]
         /\ lost' = IF o # ours \/ b # backed THEN lost \cup {0} ELSE lost
  BY DEF Undo
<1>2. o \in BOOLEAN /\ b \in BOOLEAN
  OBVIOUS
<1>3. (o => Ours(m)) /\ (b => Backed(p, m))
  BY DEF Ours, Backed
<1>4. Goto(p, Decided(p, o, b))
  BY <1>1 DEF Decided
<1>5. lost' \in {lost, lost \cup {0}}
  BY <1>1
<1>6. faulted' \in {faulted, [faulted EXCEPT ![p] = TRUE], [faulted EXCEPT ![p] = @ \/ FALSE]}
  <2>1. CASE o # ours \/ b # backed
    BY <1>1, <2>1
  <2>2. CASE ~(o # ours \/ b # backed)
    BY <1>1, <2>2
  <2>3. QED
    BY <2>1, <2>2
<1>7. QED
  BY <1>2, <1>3, <1>4, <1>5, <1>6 DEF Undo, At

LEMMA UndoType ==
  ASSUME TypeInv, NEW p \in Projectors, Undo(p)
  PROVE  TypeInv'
<1>1. run[p].pc = "undo" /\ run[p].muts # <<>>
  BY UndoCases
<1>2. PICK o, b \in BOOLEAN :
         /\ Goto(p, Decided(p, o, b))
         /\ faulted' \in {faulted, [faulted EXCEPT ![p] = TRUE], [faulted EXCEPT ![p] = @ \/ FALSE]}
         /\ lost' \in {lost, lost \cup {0}}
  BY UndoCases
<1>3. RunsOK'
  BY <1>1, <1>2, UndoneOK, RunStep DEF TypeInv
<1>4. faulted' \in [Projectors -> BOOLEAN]
  BY <1>2 DEF TypeInv
<1>5. UNCHANGED dir /\ DirOK'
  BY DEF Undo, TypeInv, DirOK, Listing, Has
<1>6. QED
  BY <1>2, <1>3, <1>4, <1>5 DEF Undo, TypeInv

(* One mutation is taken back: the rest of the run's is left.              *)
Rest(r) == [r EXCEPT !.pc = "undo", !.muts = Front(@), !.act = "none"]

LEMMA RestOK ==
  ASSUME NEW r \in RunType, ShapeOK(r), r.pc = "undoing", NEW c \in Nat
  PROVE  LET s == [Rest(r) EXCEPT !.conflicts = c] IN
         /\ Rest(r) = [Rest(r) EXCEPT !.conflicts = r.conflicts]
         /\ s \in RunType /\ ShapeOK(s) /\ s.pc = "undo" /\ s.conflicts = c
         /\ s.snap = r.snap /\ s.status = r.status
         /\ Len(r.muts) \in Nat \ {0} /\ Len(s.muts) = Len(r.muts) - 1
         /\ r.muts[Len(r.muts)] \in Mutation
         /\ \A i \in 1 .. Len(s.muts) : s.muts[i] = r.muts[i]
<1> DEFINE k == Len(r.muts)
           front == Front(r.muts)
           s == [Rest(r) EXCEPT !.conflicts = c]
<1>1. r.muts \in Seq(Mutation) /\ r.muts # <<>> /\ r.todo = {}
  BY DEF RunType, ShapeOK, Working, Moving, Writing
<1>2. k \in Nat \ {0}
  BY <1>1, EmptySeq
<1>3. \A i \in 1 .. k : r.muts[i] \in Mutation
  BY <1>1, ElementOfSeq
<1>4. /\ front \in Seq(Mutation) /\ Len(front) = k - 1
      /\ \A i \in 1 .. k - 1 : front[i] = r.muts[i]
  <2>1. k - 1 \in Int /\ \A i \in 1 .. k - 1 : r.muts[i] \in Mutation
    BY <1>2, <1>3
  <2>2. front = SubSeq(r.muts, 1, k - 1)
    BY DEF Front
  <2>3. /\ front \in Seq(Mutation) /\ Len(front) = IF 1 <= k - 1 THEN k - 1 - 1 + 1 ELSE 0
        /\ \A i \in 1 .. k - 1 - 1 + 1 : front[i] = r.muts[1 + i - 1]
    BY <2>1, <2>2, SubSeqProperties
  <2>4. QED
    BY <1>2, <2>3
<1>5. Rest(r) = [r EXCEPT !.pc = "undo", !.muts = front, !.act = "none"]
  BY DEF Rest, RunType
<1> HIDE DEF front
<1>6. Rest(r) \in RunType
  BY <1>4, <1>5 DEF RunType, Pcs
<1>7. /\ s \in RunType /\ s.pc = "undo" /\ s.conflicts = c /\ s.snap = r.snap
      /\ s.status = r.status /\ s.muts = front /\ s.todo = {}
  <2>1. s = [Rest(r) EXCEPT !.conflicts = c]
    BY DEF RunType
  <2>2. Rest(r).pc = "undo" /\ Rest(r).muts = front /\ Rest(r).snap = r.snap
        /\ Rest(r).status = r.status /\ Rest(r).todo = r.todo
    BY <1>5 DEF RunType
  <2> HIDE DEF s
  <2>3. QED
    BY <1>1, <1>6, <2>1, <2>2 DEF RunType
<1>8. Rest(r) = [Rest(r) EXCEPT !.conflicts = r.conflicts]
  BY <1>4, <1>5 DEF RunType
<1> HIDE DEF s
<1>9. ShapeOK(s)
  BY <1>7 DEF ShapeOK, Working, Moving, Writing, Publishing
<1>10. QED
  BY <1>2, <1>3, <1>4, <1>7, <1>8, <1>9 DEF s

\* The directory once the mutation m is taken back.
TakenBack(p, m) ==
  IF run[p].act = "unlink" THEN [dir EXCEPT ![m.name] = Nothing]
  ELSE IF run[p].act = "drop" THEN [dir EXCEPT ![Bak(p, m.name)] = Nothing]
  ELSE [dir EXCEPT ![m.name] = dir[Bak(p, m.name)], ![Bak(p, m.name)] = Nothing]

LEMMA UndoingCases ==
  ASSUME RunsOK, NEW p \in Projectors, Undoing(p)
  PROVE  /\ run[p] \in RunType /\ ShapeOK(run[p]) /\ run[p].pc = "undoing"
         /\ \E c \in {run[p].conflicts, run[p].conflicts + 1} :
              /\ c \in Nat /\ Goto(p, [Rest(run[p]) EXCEPT !.conflicts = c])
              /\ \/ dir' = dir /\ (c = run[p].conflicts => run[p].act = "none")
                 \/ /\ run[p].act # "none" /\ c = run[p].conflicts
                    /\ dir' = TakenBack(p, Newest(p))
              /\ faulted' \in {faulted, [faulted EXCEPT ![p] = TRUE]}
         /\ lost' \in {lost, lost \cup {0}}
         /\ UNCHANGED <<rev, edits, touched, before, missed, written>>
<1> DEFINE r == run[p]
           n == Newest(p).name
           rest == [r EXCEPT !.pc = "undo", !.muts = Front(@), !.act = "none"]
<1>1. r \in RunType /\ ShapeOK(r) /\ r.pc = "undoing"
  BY DEF RunsOK, Undoing, At
<1>2. r.conflicts \in Nat /\ r.conflicts + 1 \in Nat /\ r.conflicts # r.conflicts + 1
  BY <1>1 DEF RunType
<1>3. rest = Rest(r) /\ Rest(r) = [Rest(r) EXCEPT !.conflicts = r.conflicts]
  BY <1>1, <1>2, RestOK DEF Rest
<1>4. Rest(r).conflicts = r.conflicts
  BY <1>1 DEF Rest, RunType
<1>5. CASE r.act = "none" /\ Goto(p, rest) /\ UNCHANGED <<dir, faulted>>
  BY <1>1, <1>2, <1>3, <1>5 DEF Undoing
<1>6. CASE /\ r.act # "none"
           /\ dir' = IF r.act = "unlink" THEN [dir EXCEPT ![n] = Nothing]
                     ELSE IF r.act = "drop" THEN [dir EXCEPT ![Bak(p, n)] = Nothing]
                     ELSE [dir EXCEPT ![n] = dir[Bak(p, n)], ![Bak(p, n)] = Nothing]
           /\ Goto(p, rest) /\ UNCHANGED faulted
  <2>1. dir' = TakenBack(p, Newest(p))
    BY <1>6 DEF TakenBack
  <2>2. QED
    BY <1>1, <1>2, <1>3, <1>6, <2>1 DEF Undoing
<1>7. CASE /\ r.act # "none" /\ Goto(p, [rest EXCEPT !.conflicts = @ + 1])
           /\ faulted' = [faulted EXCEPT ![p] = TRUE] /\ UNCHANGED dir
  <2>1. Goto(p, [Rest(r) EXCEPT !.conflicts = r.conflicts + 1])
    BY <1>3, <1>4, <1>7
  <2>2. QED
    BY <1>1, <1>2, <1>7, <2>1 DEF Undoing
<1>8. QED
  BY <1>5, <1>6, <1>7 DEF Undoing

LEMMA NewestIn ==
  ASSUME RunsOK, NEW p \in Projectors, run[p].muts # <<>>
  PROVE  /\ Newest(p) \in Mutation /\ Len(run[p].muts) \in Nat \ {0}
         /\ Newest(p) = run[p].muts[Len(run[p].muts)]
<1>1. run[p].muts \in Seq(Mutation)
  BY DEF RunsOK, RunType
<1>2. Len(run[p].muts) \in Nat \ {0}
  BY <1>1, EmptySeq
<1>3. QED
  BY <1>1, <1>2, ElementOfSeq DEF Newest, Last

LEMMA UndoingType ==
  ASSUME TypeInv, NEW p \in Projectors, Undoing(p)
  PROVE  TypeInv'
<1>1. run[p] \in RunType /\ ShapeOK(run[p]) /\ run[p].pc = "undoing"
  BY UndoingCases DEF TypeInv
<1>2. PICK c \in Nat :
         /\ Goto(p, [Rest(run[p]) EXCEPT !.conflicts = c])
         /\ dir' = dir \/ dir' = TakenBack(p, Newest(p))
         /\ faulted' \in {faulted, [faulted EXCEPT ![p] = TRUE]}
  BY UndoingCases DEF TypeInv
<1>3. RunsOK'
  BY <1>1, <1>2, RestOK, RunStep DEF TypeInv
<1>4. DirOK'
  <2>1. CASE dir' = dir
    BY <2>1 DEF TypeInv, DirOK, Listing, Has
  <2>2. CASE dir' = TakenBack(p, Newest(p))
    <3>1. Newest(p).name \in Names
      BY <1>1, NewestIn DEF TypeInv, ShapeOK, Mutation
    <3>2. PICK n \in Names : n = Newest(p).name
      BY <3>1
    <3>3. Bak(p, n) \in AllNames /\ n \in AllNames /\ Bak(p, n) # n
      BY NamesApart
    <3>4. CASE run[p].act = "unlink"
      BY <2>2, <3>2, <3>4, DirDrop DEF TakenBack, TypeInv
    <3>5. CASE run[p].act = "drop"
      BY <2>2, <3>2, <3>5, DirDrop DEF TakenBack, TypeInv
    <3>6. CASE run[p].act \notin {"unlink", "drop"}
      <4>1. dir' = [dir EXCEPT ![n] = dir[Bak(p, n)], ![Bak(p, n)] = Nothing]
        BY <2>2, <3>2, <3>6 DEF TakenBack
      <4>2. QED
        BY <3>3, <4>1, DirMoves DEF TypeInv
    <3>7. QED
      BY <3>4, <3>5, <3>6
  <2>3. QED
    BY <1>2, <2>1, <2>2
<1>5. faulted' \in [Projectors -> BOOLEAN]
  BY <1>2 DEF TypeInv
<1>6. lost' \in {lost, lost \cup {0}} /\ UNCHANGED <<rev, edits, touched, before, missed, written>>
  BY UndoingCases DEF TypeInv
<1>7. QED
  BY <1>3, <1>4, <1>5, <1>6 DEF TypeInv

LEMMA UnwoundType ==
  ASSUME TypeInv, NEW p \in Projectors, Unwound(p)
  PROVE  TypeInv'
<1>1. run[p] \in RunType
  BY DEF TypeInv, RunsOK
<1>2. run[p].status \in {"none", "ok", "conflict", "stale", "failure"}
  BY <1>1 DEF RunType
<1>3. RunsOK'
  BY <1>1, <1>2, ReportOK, RunStep DEF TypeInv, Unwound
<1>4. QED
  BY <1>3, QuietStep DEF Unwound

LEMMA DieType ==
  ASSUME TypeInv, NEW p \in Projectors, Die(p)
  PROVE  TypeInv'
<1>1. RunsOK'
  BY IdleOK, RunStep DEF TypeInv, Die
<1>2. DirOK'
  <2>1. CASE UNCHANGED dir
    BY <2>1 DEF TypeInv, DirOK, Listing, Has
  <2>2. CASE dir' = [dir EXCEPT ![Tmp(p)] = Nothing]
    BY <2>2, DirDrop DEF TypeInv
  <2>3. QED
    BY <2>1, <2>2 DEF Die
<1>3. run[p].snap \in Revisions
  BY DEF TypeInv, RunsOK, RunType
<1>4. QED
  BY <1>1, <1>2, <1>3 DEF Die, TypeInv

LEMMA FaultType ==
  ASSUME TypeInv, NEW p \in Projectors, Fault(p)
  PROVE  TypeInv'
<1>1. faulted' \in [Projectors -> BOOLEAN]
  BY DEF Fault, TypeInv
<1>2. QED
  BY <1>1, FailStep DEF Fault, TypeInv

LEMMA DriftType ==
  ASSUME TypeInv, Drift
  PROVE  TypeInv'
<1>1. rev' \in Revisions
  BY ProjectionAssumption, LenProperties DEF Drift, TypeInv, Revisions
<1>2. RunsOK' /\ DirOK'
  BY DEF Drift, TypeInv, RunsOK, DirOK, Listing, Has
<1>3. QED
  BY <1>1, <1>2 DEF Drift, TypeInv, history

LEMMA UserNamesIn == UserNames \subseteq AllNames
<1>1. Docs \subseteq Names /\ Manifest \in Names
  BY DEF Names
<1>2. QED
  BY <1>1, NamesApart DEF UserNames, AllNames

LEMMA UserType ==
  ASSUME TypeInv, NEW n \in UserNames, User(n)
  PROVE  TypeInv'
<1>1. n \in AllNames
  BY UserNamesIn
<1>2. UserText \in Contents
  BY DEF Contents
<1>3. DirOK'
  <2>1. CASE Has(n) /\ dir' = [dir EXCEPT ![n].content = UserText]
    BY <1>1, <2>1, DirEdits DEF TypeInv
  <2>2. CASE dir' = [dir EXCEPT ![n] = [inode |-> FreshInode, content |-> UserText]]
    BY <1>1, <1>2, <2>2, DirWrites DEF TypeInv
  <2>3. CASE dir' = [dir EXCEPT ![n] = Nothing]
    BY <2>3, DirDrop DEF TypeInv
  <2>4. QED
    BY <2>1, <2>2, <2>3 DEF User
<1>4. RunsOK'
  BY DEF User, TypeInv, RunsOK
<1>5. edits' \in 0 .. MaxEdits
  BY ProjectionAssumption DEF User, TypeInv
<1>6. touched' \in [Projectors -> SUBSET UserNames]
  BY DEF User, TypeInv
<1>7. QED
  BY <1>3, <1>4, <1>5, <1>6 DEF User, TypeInv

LEMMA InitType == Init => TypeInv
<1> SUFFICES ASSUME Init PROVE TypeInv
  OBVIOUS
<1>1. 1 \in Revisions
  BY IdleOK DEF Idle, RunType
<1>2. RunsOK
  BY IdleOK DEF Init, RunsOK
<1>3. dir \in [AllNames -> File \cup {Nothing}] /\ Listing = {}
  BY DEF Init, Listing, Has
<1>4. DirOK
  BY <1>3 DEF DirOK
<1>5. 0 \in 0 .. MaxEdits
  BY ProjectionAssumption
<1>6. QED
  BY <1>1, <1>2, <1>3, <1>4, <1>5 DEF Init, TypeInv

LEMMA NextType == TypeInv /\ [Next]_vars => TypeInv'
<1> SUFFICES ASSUME TypeInv, [Next]_vars PROVE TypeInv'
  OBVIOUS
<1>1. ASSUME NEW p \in Projectors, Project(p) PROVE TypeInv'
  BY <1>1, BeginType, PreflightType, LookingType, IdentifyType, CheckType, MoveType, TempType,
     RenameType, RecordType, CommitType, UnlinkType, UndoType, UndoingType, UnwoundType
     DEF Project, Publish, Looking
<1>2. ASSUME NEW p \in Projectors, Fault(p) \/ Die(p) PROVE TypeInv'
  BY <1>2, FaultType, DieType
<1>3. CASE Drift
  BY <1>3, DriftType
<1>4. ASSUME NEW n \in UserNames, User(n) PROVE TypeInv'
  BY <1>4, UserType
<1>5. CASE UNCHANGED vars
  BY <1>5 DEF vars, TypeInv, DirOK, RunsOK, Listing, Has
<1>6. QED
  BY <1>1, <1>2, <1>3, <1>4, <1>5 DEF Next

LEMMA TypeInvImpliesTypeOK == TypeInv => TypeOK
BY DEF TypeInv, TypeOK, DirOK, RunsOK, RunType

(* Every variable of the projection has its type, for any number of        *)
(* projectors: no file has two names, and a run is where a run can be.     *)
THEOREM ProjectionTypes == Spec => []TypeOK
<1>1. Spec => []TypeInv
  BY InitType, NextType, PTL DEF Spec
<1>2. QED
  BY <1>1, TypeInvImpliesTypeOK, PTL

LEMMA AlwaysTyped == Spec => []TypeInv
BY InitType, NextType, PTL DEF Spec
-----------------------------------------------------------------------------
(* A run that succeeds published while the database was at its snapshot:    *)
(* the state was its snapshot before the first file and after the last, and *)
(* the database never returns to a state it left.                          *)

LEMMA CurrentStep ==
  ASSUME TypeInv, CurrentInv, NEW p \in Projectors, NEW r, Goto(p, r), UNCHANGED <<rev, written>>,
         Current(r, written[p])
  PROVE  CurrentInv'
<1>1. run'[p] = r /\ \A q \in Projectors \ {p} : run'[q] = run[q]
  BY DEF Goto, TypeInv, RunsOK
<1>2. QED
  BY <1>1 DEF CurrentInv, Current

\* Steps within a publication that change neither what was written nor the snapshot.
LEMMA CurrentGoesOn ==
  ASSUME TypeInv, CurrentInv, NEW p \in Projectors, NEW r, Goto(p, r), UNCHANGED <<rev, written>>,
         Same(run[p], r), run[p].pc \in Publishing,
         r.pc \in Publishing \ {"validate"}
  PROVE  CurrentInv'
<1>1. Current(run[p], written[p])
  BY DEF CurrentInv
<1>2. Current(r, written[p])
  BY <1>1 DEF Current, Same, Publishing
<1>3. QED
  BY <1>2, CurrentStep

LEMMA CurrentAborts ==
  ASSUME TypeInv, CurrentInv, NEW p \in Projectors, NEW status \in {"stale", "failure"},
         Abort(p, status), run[p].pc \in Publishing \cup {"fresh"}
  PROVE  CurrentInv'
<1>1. run[p] \in RunType
  BY DEF TypeInv, RunsOK
<1> DEFINE r == ToUndo(p, status)
<1>2. r.pc = "undo" /\ r.status = status /\ r.snap = run[p].snap
  BY <1>1 DEF ToUndo, RunType
<1>3. Goto(p, r) /\ UNCHANGED <<rev, written>>
  BY AbortOK DEF TypeInv, Abort
<1> HIDE DEF r
<1>4. Current(r, written[p])
  BY <1>2 DEF CurrentInv, Current, Publishing
<1>5. QED
  BY <1>3, <1>4, CurrentStep

LEMMA CurrentLooking ==
  ASSUME TypeInv, CurrentInv, NEW p \in Projectors, Looking(p)
  PROVE  CurrentInv'
<1>1. run[p] \in RunType /\ ShapeOK(run[p]) /\ Current(run[p], written[p])
  BY DEF TypeInv, RunsOK, CurrentInv
<1>2. ASSUME NEW pc, Onward(run[p], pc), Saw(p), Proceed(p, pc)
      PROVE  CurrentInv'
  <2> DEFINE r == [run[p] EXCEPT !.pc = pc]
  <2>1. r.pc = pc /\ Same(run[p], r) /\ r.status = run[p].status /\ r.snap = run[p].snap
    BY <1>1 DEF RunType, Same
  <2>2. Goto(p, r) /\ UNCHANGED <<rev, written>>
    BY <1>2 DEF Proceed, history
  <2>3. pc \in Publishing \cup {"commit"}
    BY <1>1, <1>2, OnwardOK
  <2> HIDE DEF r
  <2>4. CASE run[p].pc \in {"fresh", "recheck", "validate"}
    <3>1. run[p].snap \in Revisions /\ written[p] \subseteq Revisions /\ rev \in Revisions
      BY <1>1 DEF TypeInv, RunType
    <3>2. \A w \in written[p] : w \in Nat /\ run[p].snap \in Nat /\ rev \in Nat
      BY <3>1 DEF Revisions
    <3>3. Current(r, written[p])
      <4>1. CASE run[p].pc = "fresh"
        BY <1>1, <1>2, <2>1, <4>1 DEF Onward, Current, Publishing
      <4>2. CASE run[p].pc = "recheck"
        BY <1>1, <1>2, <2>1, <3>2, <4>2 DEF Onward, Saw, Current, Publishing
      <4>3. CASE run[p].pc = "validate"
        BY <1>1, <1>2, <2>1, <4>3 DEF Onward, Current, Publishing
      <4>4. QED
        BY <2>4, <4>1, <4>2, <4>3
    <3>4. QED
      BY <2>2, <3>3, CurrentStep
  <2>5. CASE run[p].pc \notin {"fresh", "recheck", "validate"}
    <3>1. run[p].todo \in SUBSET JobType
      BY <1>1 DEF RunType
    <3>2. EntryOf(run[p].todo) \in {"recheck", "look", "check", "verify"}
      BY <3>1, EntryOK
    <3>3. run[p].pc \in Publishing /\ pc \in Publishing \ {"validate"}
      BY <1>2, <2>5, <3>2 DEF Onward, Publishing
    <3>4. QED
      BY <2>1, <2>2, <3>3, CurrentGoesOn
  <2>6. QED
    BY <2>4, <2>5
<1>3. ASSUME NEW status \in {"stale", "failure"}, Gives(p, status)
      PROVE  CurrentInv'
  BY <1>3, CurrentAborts DEF Gives
<1>4. QED
  BY <1>2, <1>3, LookingCases

LEMMA CurrentPublish ==
  ASSUME TypeInv, CurrentInv, NEW p \in Projectors,
         Identify(p) \/ Check(p) \/ Move(p) \/ Temp(p) \/ Record(p)
  PROVE  CurrentInv'
<1>1. run[p] \in RunType /\ ShapeOK(run[p])
  BY DEF TypeInv, RunsOK
<1>2. ASSUME Fail(p), run[p].pc \in Publishing PROVE CurrentInv'
  BY <1>2, CurrentAborts DEF Fail
<1>3. CASE Identify(p)
  <2> DEFINE r == [run[p] EXCEPT !.pc = "compare", !.held = dir[Job(p).name]]
  <2>1. Same(run[p], r) /\ r.pc = "compare"
    BY <1>1 DEF RunType, Same
  <2>2. ~Fail(p) => Goto(p, r) /\ UNCHANGED <<rev, written>>
    BY <1>3 DEF Identify, history
  <2> HIDE DEF r
  <2>3. QED
    BY <1>2, <1>3, <2>1, <2>2, CurrentGoesOn DEF Identify, At, Publishing
<1>4. CASE Check(p)
  <2>1. run[p].todo # {} /\ run[p].conflicts = 0
    BY <1>1, <1>4 DEF Check, At, ShapeOK, Working, Publishing
  <2>2. /\ Same(run[p], NextJob(run[p]))
        /\ NextJob(run[p]).pc \in {"recheck", "look", "check", "verify"}
    BY <1>1, <2>1, NextJobOK
  <2>3. QED
    BY <1>2, <1>4, <2>2, CurrentGoesOn DEF Check, At, Publishing, history
<1>5. CASE Move(p)
  <2>1. run[p].pc = "move"
    BY <1>5 DEF Move, At
  <2>2. /\ Same(run[p], AfterMove(p))
        /\ AfterMove(p).pc \in {"temp", "recheck", "look", "check", "verify"}
    BY <2>1, AfterMoveOK DEF TypeInv
  <2>3. Gives(p, "failure") \/ (Goto(p, AfterMove(p)) /\ UNCHANGED <<rev, written>>)
    BY <1>5, MoveCases DEF history
  <2>4. QED
    BY <2>1, <2>2, <2>3, CurrentGoesOn, CurrentAborts DEF Publishing, Gives
<1>6. CASE Temp(p)
  <2> DEFINE r == [run[p] EXCEPT !.pc = "rename"]
  <2>1. Same(run[p], r) /\ r.pc = "rename"
    BY <1>1 DEF RunType, Same
  <2>2. Goto(p, r) /\ UNCHANGED <<rev, written>>
    BY <1>6 DEF Temp, history
  <2> HIDE DEF r
  <2>3. QED
    BY <1>6, <2>1, <2>2, CurrentGoesOn DEF Temp, At, Publishing
<1>7. CASE Record(p)
  <2>1. run[p].pc = "record"
    BY <1>7 DEF Record, At
  <2>2. /\ Same(run[p], AfterRecord(p))
        /\ AfterRecord(p).pc \in {"recheck", "look", "check", "verify"}
    BY <2>1, AfterRecordOK
  <2>3. Gives(p, "failure") \/ (Goto(p, AfterRecord(p)) /\ UNCHANGED <<rev, written>>)
    BY <1>7, RecordCases DEF history
  <2>4. QED
    BY <2>1, <2>2, <2>3, CurrentGoesOn, CurrentAborts DEF Publishing, Gives
<1>8. QED
  BY <1>3, <1>4, <1>5, <1>6, <1>7

LEMMA CurrentRename ==
  ASSUME TypeInv, CurrentInv, NEW p \in Projectors, Rename(p)
  PROVE  CurrentInv'
<1> DEFINE r == [run[p] EXCEPT !.pc = "record"]
<1>1. run[p] \in RunType /\ run[p].pc = "rename" /\ Current(run[p], written[p])
  BY DEF TypeInv, RunsOK, Rename, At, CurrentInv
<1>2. r.pc = "record" /\ r.snap = run[p].snap /\ r.status = run[p].status
  BY <1>1 DEF RunType
<1>3. run' = [run EXCEPT ![p] = r] /\ written' = [written EXCEPT ![p] = @ \cup {rev}] /\ rev' = rev
  BY DEF Rename, Goto
<1>4. run'[p] = r /\ written'[p] = written[p] \cup {rev}
  BY <1>3 DEF TypeInv, RunsOK
<1>5. \A q \in Projectors \ {p} : run'[q] = run[q] /\ written'[q] = written[q]
  BY <1>3 DEF TypeInv, RunsOK
<1>6. rev <= rev
  BY DEF TypeInv, Revisions
<1> HIDE DEF r
<1>7. Current(run[p], written[p] \cup {rev})
  BY <1>1, <1>6 DEF Current, Publishing
<1>8. Current(r, written[p] \cup {rev})
  BY <1>1, <1>2, <1>7 DEF Current, Publishing
<1>9. QED
  BY <1>3, <1>4, <1>5, <1>8 DEF CurrentInv, Current

\* What a run reports, and where an idle one is.
LEMMA ReportIs ==
  ASSUME NEW r \in RunType, NEW status
  PROVE  /\ Report(r, status).pc = "done" /\ Report(r, status).status = status
         /\ Report(r, status).snap = r.snap /\ Report(r, status).conflicts = r.conflicts
         /\ Report(r, status).muts = <<>> /\ Report(r, status).todo = {}
         /\ Report(r, status).prev = Nothing
BY DEF Report, Idle

LEMMA CurrentEnds ==
  ASSUME TypeInv, CurrentInv, NEW p \in Projectors,
         Begin(p) \/ Preflight(p) \/ Commit(p) \/ Unlink(p) \/ Undo(p) \/ Undoing(p) \/ Unwound(p)
           \/ Die(p)
  PROVE  CurrentInv'
<1>1. run[p] \in RunType /\ ShapeOK(run[p]) /\ Current(run[p], written[p])
  BY DEF TypeInv, RunsOK, CurrentInv
<1>2. CASE Begin(p)
  <2> DEFINE r == [Idle EXCEPT !.pc = "preflight", !.snap = rev]
  <2>1. r.pc = "preflight" /\ r.snap = rev /\ r.status = "none"
    BY DEF Idle
  <2>2. run' = [q \in Projectors |-> IF q = p THEN r ELSE IF At(q, "done") THEN Idle ELSE run[q]]
    BY <1>2 DEF Begin
  <2>3. written' = [written EXCEPT ![p] = {}] /\ rev' = rev
    BY <1>2 DEF Begin
  <2>4. rev \in Revisions
    BY DEF TypeInv
  <2> HIDE DEF r
  <2>5. written'[p] = {} /\ run'[p] = r
    BY <2>2, <2>3 DEF TypeInv
  <2>6. Current(r, {})
    BY <2>1, <2>4 DEF Current, Revisions, Publishing
  <2>7. ASSUME NEW q \in Projectors \ {p} PROVE Current(run'[q], written[q])
    <3>1. CASE At(q, "done")
      <4>1. run'[q] = Idle
        BY <2>2, <2>7, <3>1
      <4>2. Idle.pc = "idle" /\ Idle.snap = 1 /\ Idle.status = "none"
        BY DEF Idle
      <4>3. Current(run[q], written[q])
        BY <2>7 DEF CurrentInv
      <4>4. QED
        BY <2>4, <4>1, <4>2, <4>3 DEF Current, Publishing, Revisions
    <3>2. CASE ~At(q, "done")
      BY <2>2, <2>7, <3>2 DEF CurrentInv
    <3>3. QED
      BY <3>1, <3>2
  <2>8. \A q \in Projectors \ {p} : written'[q] = written[q]
    BY <2>3 DEF TypeInv
  <2>9. QED
    BY <2>3, <2>5, <2>6, <2>7, <2>8 DEF CurrentInv, Current
<1>3. CASE Preflight(p)
  <2>1. run[p].pc = "preflight" /\ UNCHANGED <<rev, written>>
    BY <1>3 DEF Preflight, At, history
  <2>2. CASE NoConflict(run[p].snap)
    <3> DEFINE r == [run[p] EXCEPT !.pc = "fresh", !.names = Listing, !.prev = Previous,
                                   !.todo = Plan(run[p].snap)]
    <3>1. r.pc = "fresh" /\ r.snap = run[p].snap /\ r.status = run[p].status
      BY <1>1 DEF RunType
    <3>2. Goto(p, r)
      BY <1>3, <2>2 DEF Preflight
    <3> HIDE DEF r
    <3>3. Current(r, written[p])
      BY <1>1, <2>1, <3>1 DEF Current, Publishing
    <3>4. QED
      BY <2>1, <3>2, <3>3, CurrentStep
  <2>3. CASE ~NoConflict(run[p].snap)
    <3>1. Goto(p, Report(run[p], "conflict"))
      BY <1>3, <2>3 DEF Preflight
    <3>2. Current(Report(run[p], "conflict"), written[p])
      BY <1>1, ReportIs DEF Current, Publishing
    <3>3. QED
      BY <2>1, <3>1, <3>2, CurrentStep
  <2>4. QED
    BY <2>2, <2>3
<1>4. CASE Commit(p)
  <2>1. PICK c, d : Goto(p, [run[p] EXCEPT !.pc = "unlink", !.conflicts = c, !.drop = d])
    BY <1>4 DEF Commit
  <2> DEFINE r == [run[p] EXCEPT !.pc = "unlink", !.conflicts = c, !.drop = d]
  <2>2. r.pc = "unlink" /\ r.snap = run[p].snap /\ r.status = run[p].status
    BY <1>1 DEF RunType
  <2>3. run[p].pc = "commit" /\ UNCHANGED <<rev, written>>
    BY <1>4 DEF Commit, At, history
  <2> HIDE DEF r
  <2>4. Current(r, written[p])
    BY <1>1, <2>2, <2>3 DEF Current, Publishing
  <2>5. QED
    BY <2>1, <2>3, <2>4, CurrentStep DEF r
<1>5. CASE Unlink(p)
  <2>1. PICK c : Goto(p, Report([run[p] EXCEPT !.conflicts = c], "ok"))
    BY <1>5 DEF Unlink
  <2> DEFINE r == Report([run[p] EXCEPT !.conflicts = c], "ok")
  <2>2. r.pc = "done" /\ r.snap = run[p].snap /\ r.status = "ok"
    BY <1>1 DEF RunType, Report, Idle
  <2>3. run[p].pc = "unlink" /\ UNCHANGED <<rev, written>>
    BY <1>5 DEF Unlink, At
  <2> HIDE DEF r
  <2>4. Current(r, written[p])
    BY <1>1, <2>2, <2>3 DEF Current, Publishing
  <2>5. QED
    BY <2>1, <2>3, <2>4, CurrentStep DEF r
<1>6. CASE Undo(p)
  <2>1. run[p].pc = "undo" /\ run[p].muts # <<>> /\ UNCHANGED <<rev, written>>
    BY <1>6, UndoCases
  <2>2. PICK o \in BOOLEAN, b \in BOOLEAN : Goto(p, Decided(p, o, b))
    BY <1>6, UndoCases
  <2>3. /\ Decided(p, o, b).pc = "undoing" /\ Decided(p, o, b).snap = run[p].snap
        /\ Decided(p, o, b).status = run[p].status
    BY <2>1, UndoneOK DEF TypeInv
  <2>4. Current(Decided(p, o, b), written[p])
    BY <1>1, <2>1, <2>3 DEF Current, Publishing
  <2>5. QED
    BY <2>1, <2>2, <2>4, CurrentStep
<1>7. CASE Undoing(p)
  <2>1. run[p].pc = "undoing" /\ UNCHANGED <<rev, written>>
    BY <1>7 DEF Undoing, At
  <2>2. PICK c \in Nat : Goto(p, [Rest(run[p]) EXCEPT !.conflicts = c])
    BY <1>7, UndoingCases DEF TypeInv
  <2> DEFINE r == [Rest(run[p]) EXCEPT !.conflicts = c]
  <2>3. r.pc = "undo" /\ r.snap = run[p].snap /\ r.status = run[p].status
    BY <1>1, <2>1, RestOK
  <2> HIDE DEF r
  <2>4. Current(r, written[p])
    BY <1>1, <2>1, <2>3 DEF Current, Publishing
  <2>5. QED
    BY <2>1, <2>2, <2>4, CurrentStep DEF r
<1>8. CASE Unwound(p)
  <2>1. run[p].pc = "undo" /\ Goto(p, Report(run[p], run[p].status)) /\ UNCHANGED <<rev, written>>
    BY <1>8 DEF Unwound, At, history
  <2>2. Current(Report(run[p], run[p].status), written[p])
    BY <1>1, <2>1, ReportIs DEF Current, Publishing
  <2>3. QED
    BY <2>1, <2>2, CurrentStep
<1>9. CASE Die(p)
  <2>1. Idle.pc = "idle" /\ Idle.snap = 1 /\ Idle.status = "none"
    BY DEF Idle
  <2>2. rev \in Revisions
    BY DEF TypeInv
  <2>3. Current(Idle, written[p])
    BY <1>1, <2>1, <2>2 DEF Current, Publishing, Revisions
  <2>4. QED
    BY <1>9, <2>3, CurrentStep DEF Die
<1>10. QED
  BY <1>2, <1>3, <1>4, <1>5, <1>6, <1>7, <1>8, <1>9

LEMMA CurrentNext == TypeInv /\ CurrentInv /\ [Next]_vars => CurrentInv'
<1> SUFFICES ASSUME TypeInv, CurrentInv, [Next]_vars PROVE CurrentInv'
  OBVIOUS
<1>1. ASSUME NEW p \in Projectors, Project(p) PROVE CurrentInv'
  BY <1>1, CurrentLooking, CurrentPublish, CurrentRename, CurrentEnds DEF Project, Publish, Looking
<1>2. ASSUME NEW p \in Projectors, Fault(p) \/ Die(p) PROVE CurrentInv'
  BY <1>2, CurrentAborts, CurrentEnds DEF Fault
<1>3. CASE Drift
  <2>1. rev \in Nat /\ rev' = rev + 1 /\ UNCHANGED <<run, written>>
    BY <1>3 DEF Drift, history, TypeInv, Revisions
  <2>2. ASSUME NEW p \in Projectors PROVE Current(run[p], written[p])'
    <3>1. Current(run[p], written[p])
      BY DEF CurrentInv
    <3>2. run[p].snap \in Nat /\ \A w \in written[p] : w \in Nat
      BY DEF TypeInv, RunsOK, RunType, Revisions
    <3>3. QED
      BY <2>1, <3>1, <3>2 DEF Current
  <2>3. QED
    BY <2>2 DEF CurrentInv
<1>4. ASSUME NEW n \in UserNames, User(n) PROVE CurrentInv'
  BY <1>4 DEF User, CurrentInv, Current
<1>5. CASE UNCHANGED vars
  BY <1>5 DEF vars, CurrentInv, Current
<1>6. QED
  BY <1>1, <1>2, <1>3, <1>4, <1>5 DEF Next

LEMMA CurrentInit == Init => CurrentInv
<1>1. Idle.pc = "idle" /\ Idle.snap = 1 /\ Idle.status = "none"
  BY DEF Idle
<1>2. QED
  BY <1>1 DEF Init, CurrentInv, Current, Publishing

LEMMA AlwaysCurrent == Spec => []CurrentInv
BY CurrentInit, CurrentNext, AlwaysTyped, PTL DEF Spec

(* What a run that succeeded has written was the state of the database all *)
(* the time it wrote, whatever other projectors and the user do: the two   *)
(* captures bracket the publication, and generations do not repeat.        *)
THEOREM PublishedAtItsSnapshot == Spec => []PublishedWhileCurrent
<1>1. CurrentInv => PublishedWhileCurrent
  BY DEF CurrentInv, Current, PublishedWhileCurrent, At
<1>2. QED
  BY <1>1, AlwaysCurrent, PTL
-----------------------------------------------------------------------------
(* A run that succeeds has published.  The last look at the directory finds *)
(* the projection and the run's backups, nothing else; the backups that     *)
(* Commit does not recognise, and those that cannot be unlinked, are        *)
(* counted as conflicts.                                                    *)

LEMMA StandsAlone ==
  ASSUME Alone, NEW p \in Projectors, StandsOK(p)'
  PROVE  StandsInv'
BY DEF StandsInv, Alone

LEMMA NothingStands ==
  ASSUME Alone, NEW p \in Projectors,
         \/ run'[p].pc \notin {"commit", "unlink", "done"}
         \/ run'[p].pc = "done" /\ run'[p].status # "ok"
  PROVE  StandsInv'
<1>1. StandsOK(p)'
  BY DEF StandsOK
<1>2. QED
  BY <1>1, StandsAlone

LEMMA WentTo ==
  ASSUME TypeInv, NEW p \in Projectors, NEW r, Goto(p, r)
  PROVE  run'[p] = r
BY DEF Goto, TypeInv, RunsOK

LEMMA BackupsIn ==
  ASSUME TypeInv, NEW p \in Projectors
  PROVE  /\ run[p].muts \in Seq(Mutation) /\ Range(run[p].muts) \subseteq Mutation
         /\ Backups(p) \subseteq OwnNames(p) /\ Backups(p) \cap Names = {}
<1>1. run[p].muts \in Seq(Mutation)
  BY DEF TypeInv, RunsOK, RunType
<1>2. Range(run[p].muts) \subseteq Mutation
  BY <1>1, RangeOfSeq
<1>3. Backups(p) \subseteq OwnNames(p)
  BY <1>2 DEF Backups, OwnNames, Mutation
<1>4. QED
  BY <1>1, <1>2, <1>3, NamesAssumption

LEMMA StandsLooking ==
  ASSUME Alone, TypeInv, NEW p \in Projectors, Looking(p)
  PROVE  StandsInv'
<1>1. run[p] \in RunType /\ ShapeOK(run[p])
  BY DEF TypeInv, RunsOK
<1>2. ASSUME NEW pc, Onward(run[p], pc), Saw(p), Proceed(p, pc)
      PROVE  StandsInv'
  <2> DEFINE r == [run[p] EXCEPT !.pc = pc]
  <2>1. r.pc = pc /\ r.snap = run[p].snap /\ r.muts = run[p].muts
    BY <1>1 DEF RunType
  <2>2. run'[p] = r /\ UNCHANGED dir
    BY <1>2, WentTo DEF Proceed
  <2> HIDE DEF r
  <2>3. pc \in Publishing \cup {"commit"}
    BY <1>1, <1>2, OnwardOK
  <2>4. CASE pc # "commit"
    BY <2>1, <2>2, <2>3, <2>4, NothingStands DEF Publishing
  <2>5. CASE pc = "commit"
    <3>1. run[p].pc = "validate"
      <4>1. run[p].todo \in SUBSET JobType
        BY <1>1 DEF RunType
      <4>2. EntryOf(run[p].todo) # "commit"
        BY <4>1, EntryOK
      <4>3. QED
        BY <1>2, <2>5, <4>2 DEF Onward
    <3>2. /\ \A m \in {Marker, Manifest} \cup Rendered(run[p].snap) : Is(m, Payload(p, m))
          /\ Listing = Rendered(run[p].snap) \cup {Marker, Manifest} \cup Backups(p)
      BY <1>2, <3>1 DEF Saw
    <3>3. ASSUME NEW n \in Names PROVE AsDesired(run[p].snap, n)
      <4>1. CASE n \in {Marker, Manifest} \cup Rendered(run[p].snap)
        <5>1. Is(n, Desired(run[p].snap, n))
          BY <3>2, <4>1 DEF Payload
        <5>2. Desired(run[p].snap, n) # Nothing
          <6>1. Rendering[run[p].snap] \in Range(Rendering)
            BY <1>1, ProjectionAssumption, LenProperties DEF RunType, Revisions, Range
          <6>2. QED
            BY <4>1, <6>1, NamesAssumption, ContentAssumption DEF Desired, Rendered
        <5>3. QED
          BY <5>1, <5>2 DEF AsDesired
      <4>2. CASE n \notin {Marker, Manifest} \cup Rendered(run[p].snap)
        <5>1. ~Has(n)
          BY <3>2, <4>2, BackupsIn DEF Listing, AllNames
        <5>2. Desired(run[p].snap, n) = Nothing
          BY <4>2 DEF Desired, Rendered, Names
        <5>3. QED
          BY <5>1, <5>2 DEF AsDesired
      <4>3. QED
        BY <4>1, <4>2
    <3>4. Listing \subseteq Names \cup Backups(p)
      BY <3>2 DEF Rendered, Names
    <3>5. Listing' = Listing /\ Backups(p)' = Backups(p)
      BY <2>1, <2>2 DEF Listing, Has, Backups
    <3>6. \A n \in Names : AsDesired(run[p].snap, n)'
      BY <2>1, <2>2, <3>3 DEF AsDesired, Has, Is
    <3>7. StandsOK(p)'
      BY <2>1, <2>2, <2>5, <3>4, <3>5, <3>6 DEF StandsOK
    <3>8. QED
      BY <3>7, StandsAlone
  <2>6. QED
    BY <2>4, <2>5
<1>3. ASSUME NEW status \in {"stale", "failure"}, Gives(p, status)
      PROVE  StandsInv'
  <2>1. run'[p] = ToUndo(p, status)
    BY <1>3, AbortOK DEF Gives, TypeInv
  <2>2. ToUndo(p, status).pc = "undo"
    BY <1>1 DEF ToUndo, RunType
  <2>3. QED
    BY <2>1, <2>2, NothingStands
<1>4. QED
  BY <1>2, <1>3, LookingCases

LEMMA StandsAborts ==
  ASSUME Alone, TypeInv, NEW p \in Projectors, NEW status \in {"stale", "failure"},
         Abort(p, status), run[p].pc \in Publishing \cup {"fresh"}
  PROVE  StandsInv'
<1>1. run'[p] = ToUndo(p, status)
  BY AbortOK DEF TypeInv
<1>2. ToUndo(p, status).pc = "undo"
  BY DEF ToUndo, TypeInv, RunsOK, RunType
<1>3. QED
  BY <1>1, <1>2, NothingStands

LEMMA StandsPublish ==
  ASSUME Alone, TypeInv, NEW p \in Projectors,
         Identify(p) \/ Check(p) \/ Move(p) \/ Temp(p) \/ Rename(p) \/ Record(p)
  PROVE  StandsInv'
<1>1. run[p] \in RunType /\ ShapeOK(run[p])
  BY DEF TypeInv, RunsOK
<1>2. ASSUME Fail(p), run[p].pc \in Publishing PROVE StandsInv'
  BY <1>2, StandsAborts DEF Fail
<1>3. CASE Identify(p)
  <2>1. [run[p] EXCEPT !.pc = "compare", !.held = dir[Job(p).name]].pc = "compare"
    BY <1>1 DEF RunType
  <2>2. QED
    BY <1>2, <1>3, <2>1, WentTo, NothingStands DEF Identify, At, Publishing
<1>4. CASE Check(p)
  <2>1. run[p].todo # {} /\ run[p].conflicts = 0
    BY <1>1, <1>4 DEF Check, At, ShapeOK, Working, Publishing
  <2>2. NextJob(run[p]).pc \in {"recheck", "look", "check", "verify"}
    BY <1>1, <2>1, NextJobOK
  <2>3. QED
    BY <1>2, <1>4, <2>2, WentTo, NothingStands DEF Check, At, Publishing
<1>5. CASE Move(p)
  <2>1. run[p].pc = "move"
    BY <1>5 DEF Move, At
  <2>2. AfterMove(p).pc \in {"temp", "recheck", "look", "check", "verify"}
    BY <2>1, AfterMoveOK DEF TypeInv
  <2>3. Gives(p, "failure") \/ Goto(p, AfterMove(p))
    BY <1>5, MoveCases
  <2>4. QED
    BY <2>2, <2>3, WentTo, NothingStands, StandsAborts DEF Gives
<1>6. CASE Temp(p)
  <2>1. [run[p] EXCEPT !.pc = "rename"].pc = "rename"
    BY <1>1 DEF RunType
  <2>2. QED
    BY <1>6, <2>1, WentTo, NothingStands DEF Temp
<1>7. CASE Rename(p)
  <2>1. [run[p] EXCEPT !.pc = "record"].pc = "record"
    BY <1>1 DEF RunType
  <2>2. QED
    BY <1>7, <2>1, WentTo, NothingStands DEF Rename
<1>8. CASE Record(p)
  <2>1. run[p].pc = "record"
    BY <1>8 DEF Record, At
  <2>2. AfterRecord(p).pc \in {"recheck", "look", "check", "verify"}
    BY <2>1, AfterRecordOK
  <2>3. Gives(p, "failure") \/ Goto(p, AfterRecord(p))
    BY <1>8, RecordCases
  <2>4. QED
    BY <2>2, <2>3, WentTo, NothingStands, StandsAborts DEF Gives
<1>9. QED
  BY <1>3, <1>4, <1>5, <1>6, <1>7, <1>8

LEMMA StandsCommit ==
  ASSUME Alone, TypeInv, StandsInv, NEW p \in Projectors, Commit(p)
  PROVE  StandsInv'
<1> DEFINE moved == {m \in Range(run[p].muts) : m.kind # "created"}
           kept == {m \in moved : Has(Bak(p, m.name)) /\ dir[Bak(p, m.name)] # m.was}
           own == {m \in moved : dir[Bak(p, m.name)] = m.was}
           drop == {Bak(p, m.name) : m \in own}
           r == [run[p] EXCEPT !.pc = "unlink", !.conflicts = Cardinality(kept), !.drop = drop]
<1>1. run[p] \in RunType /\ run[p].pc = "commit" /\ StandsOK(p)
  BY DEF TypeInv, RunsOK, Commit, At, StandsInv
<1>2. r.pc = "unlink" /\ r.snap = run[p].snap /\ r.drop = drop /\ r.conflicts = Cardinality(kept)
  BY <1>1 DEF RunType
<1>3. run'[p] = r /\ UNCHANGED <<dir, touched>>
  BY WentTo DEF Commit, history
<1> HIDE DEF r
<1>4. drop \subseteq Backups(p)
  BY DEF Backups
<1>5. drop \cap Names = {}
  BY <1>4, BackupsIn
<1>6. ASSUME NEW n \in OwnNames(p) \ touched[p], Has(n), Cardinality(kept) = 0
      PROVE  n \in drop
  <2>1. kept = {}
    BY <1>6, BackupsIn, FiniteMuts
  <2>2. n \in AllNames /\ n \notin Names
    BY <1>6, NamesAssumption DEF AllNames
  <2>3. n \in Backups(p)
    BY <1>1, <1>6, <2>2 DEF StandsOK, Listing
  <2>4. PICK m \in moved : n = Bak(p, m.name)
    BY <2>3 DEF Backups
  <2>5. QED
    BY <1>6, <2>1, <2>4
<1> HIDE DEF drop, kept
<1>7. \A n \in Names \ touched[p] : AsDesired(run[p].snap, n)
  BY <1>1 DEF StandsOK
<1>8. \A n \in Names \ touched'[p] : AsDesired(run[p].snap, n)'
  BY <1>2, <1>3, <1>7 DEF AsDesired, Has, Is
<1>9. StandsOK(p)'
  BY <1>2, <1>3, <1>5, <1>6, <1>8 DEF StandsOK, Has
<1>10. QED
  BY <1>9, StandsAlone

LEMMA StandsUnlink ==
  ASSUME Alone, TypeInv, StandsInv, NEW p \in Projectors, Unlink(p)
  PROVE  StandsInv'
<1>1. PICK S \in SUBSET {n \in run[p].drop : Has(n)} :
         /\ dir' = [n \in AllNames |-> IF n \in S THEN Nothing ELSE dir[n]]
         /\ Goto(p, Report([run[p] EXCEPT !.conflicts = @ + Cardinality(run[p].drop \ S)], "ok"))
  BY DEF Unlink
<1>2. run[p] \in RunType /\ run[p].pc = "unlink" /\ StandsOK(p) /\ touched' = touched
  BY DEF TypeInv, RunsOK, StandsInv, Unlink, At
<1> DEFINE left == run[p].drop \ S
           s == [run[p] EXCEPT !.conflicts = @ + Cardinality(left)]
           r == Report(s, "ok")
<1>3. Cardinality(left) \in Nat /\ (Cardinality(left) = 0 => left = {})
  <2>1. left \in SUBSET AllNames
    BY <1>2 DEF RunType
  <2>2. QED
    BY <2>1, FiniteNames, FS_Subset, FS_CardinalityType, FS_EmptySet
<1> HIDE DEF left
<1>4. r.pc = "done" /\ r.snap = run[p].snap /\ r.conflicts = run[p].conflicts + Cardinality(left)
  BY <1>2 DEF Report, Idle, RunType
<1>5. run'[p] = r
  BY <1>1, WentTo DEF left
<1> HIDE DEF r
<1>6. run[p].conflicts \in Nat /\ run[p].drop \cap Names = {}
  BY <1>2 DEF RunType, StandsOK
<1>7. \A n \in Names : n \in AllNames /\ dir'[n] = dir[n]
  BY <1>1, <1>6 DEF AllNames
<1>8. \A n \in Names \ touched[p] : AsDesired(run[p].snap, n)
  BY <1>2 DEF StandsOK
<1>9. \A n \in Names \ touched'[p] : AsDesired(run[p].snap, n)'
  BY <1>2, <1>4, <1>5, <1>7, <1>8 DEF AsDesired, Has, Is
<1>10. ASSUME NEW n \in OwnNames(p) \ touched[p], run'[p].conflicts = 0
       PROVE  dir'[n] = Nothing
  <2>1. run[p].conflicts = 0 /\ Cardinality(left) = 0
    BY <1>3, <1>4, <1>5, <1>6, <1>10
  <2>2. run[p].drop \subseteq S
    BY <1>3, <2>1 DEF left
  <2>3. Has(n) => n \in S
    BY <1>2, <1>10, <2>1, <2>2 DEF StandsOK
  <2>4. n \in AllNames
    BY <1>10 DEF AllNames
  <2>5. QED
    BY <1>1, <2>3, <2>4 DEF Has
<1>11. StandsOK(p)'
  BY <1>2, <1>4, <1>5, <1>9, <1>10 DEF StandsOK, Has
<1>12. QED
  BY <1>11, StandsAlone

\* Steps that change nothing of the run: names touched meanwhile are left out.
LEMMA StandsMeanwhile ==
  ASSUME Alone, StandsInv, NEW p \in Projectors, UNCHANGED run,
         touched[p] \subseteq touched'[p],
         \A n \in AllNames \ touched'[p] : dir'[n] = dir[n]
  PROVE  StandsInv'
<1>1. StandsOK(p)
  BY DEF StandsInv
<1>2. \A n \in Names \ touched'[p] : AsDesired(run[p].snap, n) => AsDesired(run[p].snap, n)'
  BY DEF AsDesired, Has, Is, AllNames
<1>3. Listing' \ touched'[p] \subseteq Listing \ touched[p] /\ Backups(p)' = Backups(p)
  BY DEF Listing, Has, Backups
<1>4. \A n \in OwnNames(p) \ touched'[p] : n \in AllNames /\ dir'[n] = dir[n]
  BY DEF AllNames
<1>5. StandsOK(p)'
  BY <1>1, <1>2, <1>3, <1>4 DEF StandsOK, Has
<1>6. QED
  BY <1>5, StandsAlone

LEMMA StandsEnds ==
  ASSUME Alone, TypeInv, CurrentInv, NEW p \in Projectors,
         Begin(p) \/ Preflight(p) \/ Undo(p) \/ Undoing(p) \/ Unwound(p) \/ Die(p)
  PROVE  StandsInv'
<1>1. run[p] \in RunType /\ ShapeOK(run[p]) /\ Current(run[p], written[p])
  BY DEF TypeInv, RunsOK, CurrentInv
<1>2. CASE Begin(p)
  <2>1. run'[p] = [Idle EXCEPT !.pc = "preflight", !.snap = rev]
    BY <1>2 DEF Begin
  <2>2. run'[p].pc = "preflight"
    BY <2>1 DEF Idle
  <2>3. QED
    BY <2>2, NothingStands
<1>3. CASE Preflight(p)
  <2>1. [run[p] EXCEPT !.pc = "fresh", !.names = Listing, !.prev = Previous,
                       !.todo = Plan(run[p].snap)].pc = "fresh"
    BY <1>1 DEF RunType
  <2>2. CASE NoConflict(run[p].snap)
    <3>1. run'[p].pc = "fresh"
      BY <1>3, <2>1, <2>2, WentTo DEF Preflight
    <3>2. QED
      BY <3>1, NothingStands
  <2>3. CASE ~NoConflict(run[p].snap)
    <3>1. run'[p] = Report(run[p], "conflict")
      BY <1>3, <2>3, WentTo DEF Preflight
    <3>2. run'[p].pc = "done" /\ run'[p].status = "conflict"
      BY <1>1, <3>1, ReportIs
    <3>3. QED
      BY <3>2, NothingStands
  <2>4. QED
    BY <2>2, <2>3
<1>4. CASE Undo(p)
  <2>1. run[p].pc = "undo" /\ run[p].muts # <<>>
    BY <1>4, UndoCases
  <2>2. PICK o \in BOOLEAN, b \in BOOLEAN : Goto(p, Decided(p, o, b))
    BY <1>4, UndoCases
  <2>3. Decided(p, o, b).pc = "undoing"
    BY <2>1, UndoneOK DEF TypeInv
  <2>4. QED
    BY <2>2, <2>3, WentTo, NothingStands
<1>5. CASE Undoing(p)
  <2>1. run[p].pc = "undoing"
    BY <1>5 DEF Undoing, At
  <2>2. PICK c \in Nat : Goto(p, [Rest(run[p]) EXCEPT !.conflicts = c])
    BY <1>5, UndoingCases DEF TypeInv
  <2>3. [Rest(run[p]) EXCEPT !.conflicts = c].pc = "undo"
    BY <1>1, <2>1, RestOK
  <2>4. QED
    BY <2>2, <2>3, WentTo, NothingStands
<1>6. CASE Unwound(p)
  <2>1. run'[p] = Report(run[p], run[p].status)
    BY <1>6, WentTo DEF Unwound
  <2>2. run[p].status # "ok"
    BY <1>1, <1>6 DEF Unwound, At, Current
  <2>3. QED
    BY <1>1, <2>1, <2>2, ReportIs, NothingStands
<1>7. CASE Die(p)
  <2>1. run'[p] = Idle /\ Idle.pc = "idle"
    BY <1>7, WentTo DEF Die, Idle
  <2>2. QED
    BY <2>1, NothingStands
<1>8. QED
  BY <1>2, <1>3, <1>4, <1>5, <1>6, <1>7

LEMMA StandsNext ==
  ASSUME Alone
  PROVE  TypeInv /\ CurrentInv /\ StandsInv /\ [Next]_vars => StandsInv'
<1> SUFFICES ASSUME TypeInv, CurrentInv, StandsInv, [Next]_vars PROVE StandsInv'
  OBVIOUS
<1>1. ASSUME NEW p \in Projectors, Project(p) PROVE StandsInv'
  BY <1>1, StandsLooking, StandsPublish, StandsCommit, StandsUnlink, StandsEnds
     DEF Project, Publish, Looking
<1>2. ASSUME NEW p \in Projectors, Fault(p) \/ Die(p) PROVE StandsInv'
  BY <1>2, StandsAborts, StandsEnds DEF Fault
<1>3. ASSUME UNCHANGED <<dir, run, touched>> PROVE StandsInv'
  <2>1. CASE Projectors = {}
    BY <2>1 DEF StandsInv
  <2>2. CASE \E p \in Projectors : TRUE
    BY <1>3, <2>2, StandsMeanwhile
  <2>3. QED
    BY <2>1, <2>2
<1>4. ASSUME NEW n \in UserNames, User(n) PROVE StandsInv'
  <2>1. CASE Projectors = {}
    BY <2>1 DEF StandsInv
  <2>2. ASSUME NEW p \in Projectors PROVE StandsInv'
    <3>1. touched'[p] = touched[p] \cup {n} /\ UNCHANGED run
      BY <1>4 DEF User
    <3>2. \A m \in AllNames \ {n} : dir'[m] = dir[m]
      BY <1>4 DEF User, TypeInv, DirOK
    <3>3. QED
      BY <3>1, <3>2, StandsMeanwhile
  <2>3. QED
    BY <2>1, <2>2
<1>5. QED
  BY <1>1, <1>2, <1>3, <1>4 DEF Next, Drift, vars, history

LEMMA StandsInit == Init => StandsInv
<1>1. Idle.pc = "idle"
  BY DEF Idle
<1>2. QED
  BY <1>1 DEF Init, StandsInv, StandsOK

(* A run that reports ok has published: every name is as its snapshot wants *)
(* it, but for those the user moved on meanwhile, and without a conflict    *)
(* nothing of the run is left.  With a second projector this is false.      *)
THEOREM SuccessIsPublication == Alone /\ Spec => []PublicationStands
<1> SUFFICES ASSUME Alone PROVE Spec => []PublicationStands
  OBVIOUS
<1>1. Spec => []StandsInv
  BY StandsInit, StandsNext, AlwaysTyped, AlwaysCurrent, PTL DEF Spec
<1>2. StandsInv => PublicationStands
  BY DEF StandsInv, StandsOK, PublicationStands, AsDesired, Payload, At
<1>3. QED
  BY <1>1, <1>2, PTL
-----------------------------------------------------------------------------
(* No file is published twice, and no mutation of a file is recorded while  *)
(* a job for it is left, except for the replacement in flight.              *)

LEMMA ApartStep ==
  ASSUME TypeInv, ApartInv, NEW p \in Projectors, NEW r, Goto(p, r), JobsApart(r)
  PROVE  ApartInv'
<1>1. run'[p] = r /\ \A q \in Projectors \ {p} : run'[q] = run[q]
  BY DEF Goto, TypeInv, RunsOK
<1>2. QED
  BY <1>1 DEF ApartInv

LEMMA ApartEmpty ==
  ASSUME NEW r, r.todo = {}, r.muts = <<>>, r.pc \notin {"compare", "move"}
  PROVE  JobsApart(r)
<1>1. DOMAIN r.muts = {}
  OBVIOUS
<1>2. QED
  BY <1>1 DEF JobsApart, JobsOK, MutsOK

LEMMA ApartGoesOn ==
  ASSUME NEW r, JobsApart(r), NEW s, s.todo = r.todo, s.muts = r.muts,
         r.pc \in Writing => s.pc \in Writing,
         s.pc \in {"compare", "move"} => s.held # Nothing
  PROVE  JobsApart(s)
BY DEF JobsApart

LEMMA ApartNextJob ==
  ASSUME NEW r \in RunType, JobsApart(r), r.todo # {}, r.conflicts = 0, r.pc \notin Writing
  PROVE  JobsApart(NextJob(r))
<1>1. /\ NextJob(r).muts = r.muts /\ NextJob(r).todo = r.todo \ {First(r.todo)}
      /\ NextJob(r).pc \in {"recheck", "look", "check", "verify"}
  BY NextJobOK
<1>2. QED
  BY <1>1 DEF JobsApart, JobsOK

LEMMA PublishedApart ==
  ASSUME TypeInv, NEW p \in Projectors, JobsApart(run[p]), run[p].pc \in Writing, Has(Job(p).name)
  PROVE  /\ MutsOK(Published(p))
         /\ \A i \in DOMAIN Published(p) : Published(p)[i].name # Job(p).name =>
              \E k \in DOMAIN run[p].muts : run[p].muts[k].name = Published(p)[i].name
<1> DEFINE k == Len(run[p].muts)
           made == [kind |-> "created", name |-> Job(p).name, was |-> Nothing,
                    now |-> dir[Job(p).name]]
           muts == run[p].muts
           pub == Published(p)
<1>1. run[p].todo # {} /\ Job(p) \in run[p].todo /\ Job(p).kind \in {"create", "replace"}
  BY WritingType, JobIn DEF TypeInv
<1>2. pub \in Seq(Mutation) /\ muts \in Seq(Mutation) /\ k \in Nat
  BY PublishedOK DEF TypeInv
<1>3. DOMAIN pub = 1 .. Len(pub) /\ DOMAIN muts = 1 .. k
  BY <1>2, LenProperties
<1>4. CASE Job(p).kind = "create"
  <2>1. Len(pub) = k + 1 /\ pub[k + 1] = made /\ \A i \in 1 .. k : pub[i] = muts[i]
    BY <1>4, PublishedOK DEF TypeInv
  <2>2. \A i \in 1 .. k : muts[i].name # Job(p).name
    BY <1>1, <1>3, <1>4 DEF JobsApart
  <2>3. made.name = Job(p).name /\ made.kind = "created" /\ made.now # Nothing /\ made.was = Nothing
    BY DEF Has
  <2> HIDE DEF made, pub, muts, k
  <2>4. MutsOK(muts)
    BY DEF JobsApart, muts
  <2>5. MutsOK(pub)
    <3>1. \A i \in DOMAIN pub : i = k + 1 \/ i \in 1 .. k
      BY <1>2, <1>3, <2>1
    <3>2. ASSUME NEW i \in DOMAIN pub, NEW j \in DOMAIN pub, pub[i].name = pub[j].name PROVE i = j
      BY <1>2, <1>3, <2>1, <2>2, <2>3, <2>4, <3>1, <3>2 DEF MutsOK
    <3>3. ASSUME NEW i \in DOMAIN pub
          PROVE  /\ pub[i].kind = "created" => pub[i].now # Nothing /\ pub[i].was = Nothing
                 /\ pub[i].kind = "deleted" => pub[i].now = Nothing
                 /\ pub[i].kind # "created" => pub[i].was # Nothing
      BY <1>3, <2>1, <2>3, <2>4, <3>1 DEF MutsOK
    <3>4. QED
      BY <3>2, <3>3 DEF MutsOK
  <2>6. \A i \in DOMAIN pub : pub[i].name # Job(p).name => \E l \in DOMAIN muts : muts[l].name = pub[i].name
    BY <1>2, <1>3, <2>1, <2>3
  <2>7. QED
    BY <2>5, <2>6 DEF pub, muts
<1>5. CASE Job(p).kind # "create"
  <2>1. /\ k # 0 /\ Len(pub) = k /\ pub[k] = [muts[k] EXCEPT !.now = dir[Job(p).name]]
        /\ \A i \in 1 .. k - 1 : pub[i] = muts[i]
    BY <1>5, PublishedOK DEF TypeInv
  <2>2. muts[k].name = Job(p).name /\ muts[k].kind = "replaced"
    BY <1>1, <1>5 DEF TypeInv, RunsOK, ShapeOK, Job
  <2> HIDE DEF pub, muts, k
  <2>3. muts[k] \in Mutation
    BY <1>2, <2>1, ElementOfSeq DEF muts, k
  <2>4. pub[k].name = Job(p).name /\ pub[k].kind = "replaced" /\ pub[k].was = muts[k].was
    BY <2>1, <2>2, <2>3 DEF Mutation
  <2>5. MutsOK(muts)
    BY DEF JobsApart, muts
  <2>6. \A i \in DOMAIN pub : i = k \/ i \in 1 .. k - 1
    BY <1>2, <1>3, <2>1
  <2>7. \A i \in DOMAIN pub : i \in DOMAIN muts /\ pub[i].name = muts[i].name
    BY <1>2, <1>3, <2>1, <2>2, <2>4, <2>6
  <2>8. MutsOK(pub)
    <3>1. \A i, j \in DOMAIN pub : pub[i].name = pub[j].name => i = j
      BY <2>5, <2>7 DEF MutsOK
    <3>2. ASSUME NEW i \in DOMAIN pub
          PROVE  /\ pub[i].kind = "created" => pub[i].now # Nothing /\ pub[i].was = Nothing
                 /\ pub[i].kind = "deleted" => pub[i].now = Nothing
                 /\ pub[i].kind # "created" => pub[i].was # Nothing
      <4>1. CASE i = k
        BY <1>2, <1>3, <2>1, <2>2, <2>4, <2>5, <2>7, <4>1 DEF MutsOK
      <4>2. CASE i \in 1 .. k - 1
        BY <2>1, <2>5, <2>7, <4>2 DEF MutsOK
      <4>3. QED
        BY <2>6, <4>1, <4>2
    <3>3. QED
      BY <3>1, <3>2 DEF MutsOK
  <2>9. QED
    BY <2>7, <2>8 DEF pub, muts
<1>6. QED
  BY <1>4, <1>5

LEMMA AbortApart ==
  ASSUME TypeInv, ApartInv, NEW p \in Projectors, NEW status \in {"stale", "failure"},
         Abort(p, status), run[p].pc \in Publishing \cup {"fresh"}
  PROVE  ApartInv' /\ JobsApart(ToUndo(p, status))
<1> DEFINE r == ToUndo(p, status)
<1>1. run[p] \in RunType /\ JobsApart(run[p])
  BY DEF TypeInv, RunsOK, ApartInv
<1>2. /\ r.pc = "undo" /\ r.todo = {}
      /\ r.muts = IF Kept(p) THEN Published(p) ELSE run[p].muts
  BY <1>1 DEF ToUndo, RunType
<1>3. Goto(p, r)
  BY AbortOK DEF TypeInv
<1> HIDE DEF r
<1>4. MutsOK(r.muts)
  BY <1>1, <1>2, PublishedApart DEF Kept, Wrote, Is, JobsApart
<1>5. JobsApart(r)
  BY <1>2, <1>4 DEF JobsApart, JobsOK
<1>6. QED
  BY <1>3, <1>5, ApartStep DEF r

LEMMA RecordApart ==
  ASSUME TypeInv, ApartInv, NEW p \in Projectors, run[p].pc = "record", Has(Job(p).name)
  PROVE  JobsApart(AfterRecord(p))
<1>1. JobsApart(run[p])
  BY DEF ApartInv
<1>2. /\ AfterRecord(p).muts = Published(p) /\ AfterRecord(p).todo = run[p].todo \ {Job(p)}
      /\ AfterRecord(p).pc \in {"recheck", "look", "check", "verify"}
  BY AfterRecordOK
<1>3. Job(p) \in run[p].todo /\ Job(p).kind \in {"create", "replace"}
  BY WritingType, JobIn DEF TypeInv, Writing
<1>4. /\ MutsOK(Published(p))
      /\ \A i \in DOMAIN Published(p) : Published(p)[i].name # Job(p).name =>
              \E k \in DOMAIN run[p].muts : run[p].muts[k].name = Published(p)[i].name
  BY <1>1, PublishedApart DEF Writing
<1>5. ASSUME NEW j \in run[p].todo \ {Job(p)}, j.kind # "check", NEW i \in DOMAIN Published(p),
             Published(p)[i].name = j.name
      PROVE  FALSE
  <2>1. j.name # Job(p).name
    BY <1>1, <1>3, <1>5 DEF JobsApart, JobsOK
  <2>2. PICK k \in DOMAIN run[p].muts : run[p].muts[k].name = j.name
    BY <1>4, <1>5, <2>1
  <2>3. QED
    BY <1>1, <1>5, <2>2 DEF JobsApart, Job
<1>6. JobsOK(AfterRecord(p).todo)
  BY <1>1, <1>2 DEF JobsApart, JobsOK
<1>7. QED
  BY <1>2, <1>4, <1>5, <1>6 DEF JobsApart

LEMMA MoveApart ==
  ASSUME TypeInv, ApartInv, NEW p \in Projectors, run[p].pc = "move"
  PROVE  JobsApart(AfterMove(p))
<1> DEFINE muts == run[p].muts
           more == Append(muts, Moved(p))
           k == Len(muts)
           m == Moved(p)
<1>1. JobsApart(run[p]) /\ run[p].todo # {} /\ Job(p).kind \in {"replace", "delete"}
  BY DEF ApartInv, TypeInv, RunsOK, ShapeOK, Working, Moving, Job
<1>2. Job(p) \in run[p].todo
  BY <1>1, JobIn DEF TypeInv
<1>3. /\ AfterMove(p).muts = more /\ Moved(p) \in Mutation
      /\ Job(p).kind = "delete" =>
           /\ AfterMove(p).todo = run[p].todo \ {Job(p)}
           /\ AfterMove(p).pc \in {"recheck", "look", "check", "verify"}
      /\ Job(p).kind # "delete" => AfterMove(p).todo = run[p].todo /\ AfterMove(p).pc = "temp"
  BY AfterMoveOK DEF TypeInv
<1>4. muts \in Seq(Mutation) /\ k \in Nat /\ DOMAIN muts = 1 .. k
  BY LenProperties DEF TypeInv, RunsOK, RunType
<1>5. /\ DOMAIN more = 1 .. k + 1 /\ Len(more) = k + 1 /\ more[k + 1] = m
      /\ \A i \in 1 .. k : more[i] = muts[i]
  BY <1>3, <1>4, AppendProperties, LenProperties
<1>6. /\ m.name = Job(p).name /\ m.now = Nothing /\ m.was # Nothing
      /\ m.kind = IF Job(p).kind = "delete" THEN "deleted" ELSE "replaced"
  BY <1>1 DEF Moved, JobsApart
<1>7. \A i \in 1 .. k : muts[i].name # Job(p).name
  BY <1>1, <1>2, <1>4 DEF JobsApart, Writing
<1>8. MutsOK(muts)
  BY <1>1 DEF JobsApart
<1> HIDE DEF more, m, muts, k
<1>9. \A i \in DOMAIN more : i = k + 1 \/ i \in 1 .. k
  BY <1>4, <1>5
<1>10. MutsOK(more)
  <2>1. ASSUME NEW i \in DOMAIN more, NEW j \in DOMAIN more, more[i].name = more[j].name
        PROVE  i = j
    BY <1>4, <1>5, <1>6, <1>7, <1>8, <1>9, <2>1 DEF MutsOK
  <2>2. ASSUME NEW i \in DOMAIN more
        PROVE  /\ more[i].kind = "created" => more[i].now # Nothing /\ more[i].was = Nothing
               /\ more[i].kind = "deleted" => more[i].now = Nothing
               /\ more[i].kind # "created" => more[i].was # Nothing
    BY <1>4, <1>5, <1>6, <1>8, <1>9 DEF MutsOK
  <2>3. QED
    BY <2>1, <2>2 DEF MutsOK
<1>11. JobsOK(AfterMove(p).todo)
  BY <1>1, <1>3 DEF JobsApart, JobsOK
<1>12. ASSUME NEW j \in AfterMove(p).todo, NEW i \in DOMAIN more, j.kind # "check",
              more[i].name = j.name
       PROVE  /\ j = First(AfterMove(p).todo) /\ j.kind = "replace"
              /\ AfterMove(p).pc \in Writing /\ i = Len(more)
  <2>1. j \in run[p].todo
    BY <1>3, <1>12
  <2>2. i = k + 1
    <3>1. CASE i \in 1 .. k
      <4>1. i \in DOMAIN run[p].muts /\ run[p].muts[i].name = j.name
        BY <1>4, <1>5, <1>12, <3>1 DEF muts
      <4>2. run[p].pc \in Writing
        BY <1>1, <1>12, <2>1, <4>1 DEF JobsApart
      <4>3. QED
        BY <4>2 DEF Writing
    <3>2. QED
      BY <1>9, <3>1
  <2>3. j = Job(p)
    BY <1>1, <1>2, <1>5, <1>6, <1>12, <2>1, <2>2 DEF JobsApart, JobsOK
  <2>4. Job(p).kind # "delete"
    BY <1>3, <2>3
  <2>5. QED
    BY <1>1, <1>3, <1>5, <2>2, <2>3, <2>4 DEF Job, Writing
<1>13. AfterMove(p).pc \notin {"compare", "move"}
  BY <1>3
<1>14. QED
  BY <1>3, <1>10, <1>11, <1>12, <1>13 DEF JobsApart

LEMMA PlanApart ==
  ASSUME NEW r \in Revisions
  PROVE  JobsOK(Plan(r))
<1> DEFINE changed == Created(r) \cup Replaced(r) \cup Deleted(r) # {}
           C == Created(r) \cup {m \in Meta : ~Has(m)}
           R == Replaced(r) \cup {m \in {Manifest} : Has(m) /\ changed}
           D == Deleted(r)
<1>1. /\ (\A n \in C : ~Has(n)) /\ (\A n \in R \cup D : Has(n))
      /\ R \subseteq Docs \cup {Manifest} /\ D \subseteq Docs /\ R \cap D = {}
  BY NamesAssumption DEF Created, Replaced, Deleted, Rendered, Listed
<1>2. Plan(r) = {[kind |-> "create", name |-> n] : n \in C}
                 \cup {[kind |-> "replace", name |-> n] : n \in R}
                 \cup {[kind |-> "delete", name |-> n] : n \in D}
                 \cup {[kind |-> "check", name |-> Manifest]}
  BY DEF Plan
<1> HIDE DEF C, R, D
<1>3. ASSUME NEW j \in Plan(r)
      PROVE  /\ j = [kind |-> j.kind, name |-> j.name]
             /\ \/ j.kind = "create" /\ j.name \in C
                \/ j.kind = "replace" /\ j.name \in R
                \/ j.kind = "delete" /\ j.name \in D
                \/ j.kind = "check"
  BY <1>2
<1>4. ASSUME NEW j \in Plan(r), NEW k \in Plan(r), j.kind # "check", k.kind # "check",
             j.name = k.name
      PROVE  j = k
  <2>1. j.kind = k.kind
    BY <1>1, <1>3, <1>4
  <2>2. j = [kind |-> j.kind, name |-> j.name] /\ k = [kind |-> k.kind, name |-> k.name]
    BY <1>3
  <2>3. QED
    BY <1>4, <2>1, <2>2
<1>5. QED
  BY <1>1, <1>3, <1>4 DEF JobsOK

LEMMA ApartProject ==
  ASSUME TypeInv, ApartInv, NEW p \in Projectors, Project(p) \/ Fault(p) \/ Die(p)
  PROVE  ApartInv'
<1>1. run[p] \in RunType /\ ShapeOK(run[p]) /\ JobsApart(run[p])
  BY DEF TypeInv, RunsOK, ApartInv
<1>2. ASSUME NEW status \in {"stale", "failure"}, Abort(p, status),
             run[p].pc \in Publishing \cup {"fresh"}
      PROVE  ApartInv'
  BY <1>2, AbortApart
<1>3. CASE Begin(p)
  <2> DEFINE r == [Idle EXCEPT !.pc = "preflight", !.snap = rev]
  <2>1. r.todo = {} /\ r.muts = <<>> /\ r.pc = "preflight"
    BY DEF Idle
  <2>2. Idle.todo = {} /\ Idle.muts = <<>> /\ Idle.pc = "idle"
    BY DEF Idle
  <2>3. run' = [q \in Projectors |-> IF q = p THEN r ELSE IF At(q, "done") THEN Idle ELSE run[q]]
    BY <1>3 DEF Begin
  <2> HIDE DEF r
  <2>4. JobsApart(r) /\ JobsApart(Idle)
    BY <2>1, <2>2, ApartEmpty
  <2>5. QED
    BY <2>3, <2>4 DEF ApartInv
<1>4. CASE Preflight(p)
  <2>1. CASE NoConflict(run[p].snap)
    <3> DEFINE r == [run[p] EXCEPT !.pc = "fresh", !.names = Listing, !.prev = Previous,
                                   !.todo = Plan(run[p].snap)]
    <3>1. r.pc = "fresh" /\ r.todo = Plan(run[p].snap) /\ r.muts = run[p].muts
      BY <1>1 DEF RunType
    <3>2. r.muts = <<>>
      BY <1>1, <1>4, <3>1 DEF Preflight, At, ShapeOK
    <3>3. Goto(p, r)
      BY <1>4, <2>1 DEF Preflight
    <3>4. JobsOK(Plan(run[p].snap))
      BY <1>1, PlanApart DEF RunType
    <3> HIDE DEF r
    <3>5. DOMAIN r.muts = {}
      BY <3>2
    <3>6. JobsApart(r)
      BY <3>1, <3>4, <3>5 DEF JobsApart, MutsOK
    <3>7. QED
      BY <3>3, <3>6, ApartStep
  <2>2. CASE ~NoConflict(run[p].snap)
    <3>1. Goto(p, Report(run[p], "conflict"))
      BY <1>4, <2>2 DEF Preflight
    <3>2. QED
      BY <1>1, <3>1, ReportIs, ApartEmpty, ApartStep
  <2>3. QED
    BY <2>1, <2>2
<1>5. CASE Looking(p)
  <2>1. ASSUME NEW pc, Onward(run[p], pc), Saw(p), Proceed(p, pc)
        PROVE  ApartInv'
    <3> DEFINE r == [run[p] EXCEPT !.pc = pc]
    <3>1. /\ r.pc = pc /\ r.todo = run[p].todo /\ r.muts = run[p].muts
          /\ r.held = run[p].held
      BY <1>1 DEF RunType
    <3>2. Goto(p, r)
      BY <2>1 DEF Proceed
    <3> HIDE DEF r
    <3>3. run[p].pc \notin Writing
      BY <2>1 DEF Onward, Writing
    <3>4. pc \in {"compare", "move"} => run[p].pc = "compare"
      <4>1. run[p].todo \in SUBSET JobType
        BY <1>1 DEF RunType
      <4>2. EntryOf(run[p].todo) \notin {"compare", "move"}
        BY <4>1, EntryOK
      <4>3. QED
        BY <2>1, <4>2 DEF Onward
    <3>5. JobsApart(r)
      BY <1>1, <3>1, <3>3, <3>4 DEF JobsApart
    <3>6. QED
      BY <3>2, <3>5, ApartStep
  <2>2. QED
    BY <1>2, <1>5, <2>1, LookingCases DEF Gives
<1>6. CASE Identify(p)
  <2> DEFINE r == [run[p] EXCEPT !.pc = "compare", !.held = dir[Job(p).name]]
  <2>1. r.todo = run[p].todo /\ r.muts = run[p].muts /\ r.held = dir[Job(p).name]
    BY <1>1 DEF RunType
  <2>2. run[p].pc = "identify"
    BY <1>6 DEF Identify, At
  <2>3. CASE ~Has(Job(p).name)
    BY <1>2, <1>6, <2>2, <2>3 DEF Identify, Fail, Publishing
  <2>4. CASE Has(Job(p).name)
    <3>1. Goto(p, r)
      BY <1>6, <2>4 DEF Identify
    <3> HIDE DEF r
    <3>2. JobsApart(r)
      BY <1>1, <2>1, <2>2, <2>4, ApartGoesOn DEF Writing, Has
    <3>3. QED
      BY <3>1, <3>2, ApartStep
  <2>5. QED
    BY <2>3, <2>4
<1>7. CASE Check(p)
  <2>1. run[p].todo # {} /\ run[p].conflicts = 0 /\ run[p].pc = "check"
    BY <1>1, <1>7 DEF Check, At, ShapeOK, Working, Publishing
  <2>2. JobsApart(NextJob(run[p]))
    BY <1>1, <2>1, ApartNextJob DEF Writing
  <2>3. Fail(p) \/ Goto(p, NextJob(run[p]))
    BY <1>7 DEF Check
  <2>4. QED
    BY <1>2, <2>1, <2>2, <2>3, ApartStep DEF Fail, Publishing
<1>8. CASE Move(p)
  <2>1. JobsApart(AfterMove(p))
    BY <1>8, MoveApart DEF Move, At
  <2>2. QED
    BY <1>2, <1>8, <2>1, MoveCases, ApartStep DEF Gives
<1>9. CASE Temp(p)
  <2> DEFINE r == [run[p] EXCEPT !.pc = "rename"]
  <2>1. r.todo = run[p].todo /\ r.muts = run[p].muts /\ r.pc = "rename"
    BY <1>1 DEF RunType
  <2>2. Goto(p, r)
    BY <1>9 DEF Temp
  <2> HIDE DEF r
  <2>3. JobsApart(r)
    BY <1>1, <2>1, ApartGoesOn DEF Writing
  <2>4. QED
    BY <2>2, <2>3, ApartStep
<1>10. CASE Rename(p)
  <2> DEFINE r == [run[p] EXCEPT !.pc = "record"]
  <2>1. r.todo = run[p].todo /\ r.muts = run[p].muts /\ r.pc = "record"
    BY <1>1 DEF RunType
  <2>2. Goto(p, r)
    BY <1>10 DEF Rename
  <2> HIDE DEF r
  <2>3. JobsApart(r)
    BY <1>1, <2>1, ApartGoesOn DEF Writing
  <2>4. QED
    BY <2>2, <2>3, ApartStep
<1>11. CASE Record(p)
  <2>1. Has(Job(p).name) => JobsApart(AfterRecord(p))
    BY <1>11, RecordApart DEF Record, At
  <2>2. QED
    BY <1>2, <1>11, <2>1, RecordCases, ApartStep DEF Gives
<1>12. CASE Commit(p)
  <2>1. PICK c, d : Goto(p, [run[p] EXCEPT !.pc = "unlink", !.conflicts = c, !.drop = d])
    BY <1>12 DEF Commit
  <2> DEFINE r == [run[p] EXCEPT !.pc = "unlink", !.conflicts = c, !.drop = d]
  <2>2. r.pc = "unlink" /\ r.todo = run[p].todo /\ r.muts = run[p].muts
    BY <1>1 DEF RunType
  <2>3. run[p].pc = "commit"
    BY <1>12 DEF Commit, At
  <2> HIDE DEF r
  <2>4. JobsApart(r)
    BY <1>1, <2>2, <2>3, ApartGoesOn DEF Writing
  <2>5. QED
    BY <2>1, <2>4, ApartStep DEF r
<1>13. CASE Unlink(p)
  <2>1. PICK c : Goto(p, Report([run[p] EXCEPT !.conflicts = c], "ok"))
    BY <1>13 DEF Unlink
  <2> DEFINE r == Report([run[p] EXCEPT !.conflicts = c], "ok")
  <2>2. r.pc = "done" /\ r.todo = {} /\ r.muts = <<>>
    BY DEF Report, Idle
  <2> HIDE DEF r
  <2>3. QED
    BY <2>1, <2>2, ApartEmpty, ApartStep DEF r
<1>14. CASE Undo(p)
  <2>1. run[p].pc = "undo" /\ run[p].muts # <<>>
    BY <1>14, UndoCases
  <2>2. PICK o \in BOOLEAN, b \in BOOLEAN : Goto(p, Decided(p, o, b))
    BY <1>14, UndoCases
  <2>3. /\ Decided(p, o, b).pc = "undoing" /\ Decided(p, o, b).muts = run[p].muts
        /\ Decided(p, o, b).todo = {}
    BY <2>1, UndoneOK DEF TypeInv
  <2>4. JobsApart(Decided(p, o, b))
    BY <1>1, <2>3 DEF JobsApart, JobsOK
  <2>5. QED
    BY <2>2, <2>4, ApartStep
<1>15. CASE Undoing(p)
  <2>1. run[p].pc = "undoing"
    BY <1>15 DEF Undoing, At
  <2>2. PICK c \in Nat : Goto(p, [Rest(run[p]) EXCEPT !.conflicts = c])
    BY <1>15, UndoingCases DEF TypeInv
  <2> DEFINE r == [Rest(run[p]) EXCEPT !.conflicts = c]
  <2>3. /\ r \in RunType /\ ShapeOK(r) /\ r.pc = "undo" /\ Len(run[p].muts) \in Nat \ {0}
        /\ Len(r.muts) = Len(run[p].muts) - 1
        /\ \A i \in 1 .. Len(r.muts) : r.muts[i] = run[p].muts[i]
    BY <1>1, <2>1, RestOK
  <2> HIDE DEF r
  <2>4. DOMAIN r.muts = 1 .. Len(r.muts) /\ DOMAIN run[p].muts = 1 .. Len(run[p].muts)
    BY <1>1, <2>3, LenProperties DEF RunType
  <2>5. DOMAIN r.muts \subseteq DOMAIN run[p].muts /\ \A i \in DOMAIN r.muts : r.muts[i] = run[p].muts[i]
    BY <2>3, <2>4
  <2>6. MutsOK(r.muts)
    BY <1>1, <2>5 DEF JobsApart, MutsOK
  <2>7. r.todo = {}
    BY <2>3 DEF ShapeOK, Working, Moving, Writing
  <2>8. JobsApart(r)
    BY <2>3, <2>6, <2>7 DEF JobsApart, JobsOK
  <2>9. QED
    BY <2>2, <2>8, ApartStep DEF r
<1>16. CASE Unwound(p)
  <2>1. Goto(p, Report(run[p], run[p].status))
    BY <1>16 DEF Unwound
  <2>2. QED
    BY <1>1, <2>1, ReportIs, ApartEmpty, ApartStep
<1>17. CASE Die(p)
  <2>1. Idle.todo = {} /\ Idle.muts = <<>> /\ Idle.pc = "idle"
    BY DEF Idle
  <2>2. QED
    BY <1>17, <2>1, ApartEmpty, ApartStep DEF Die
<1>18. CASE Fault(p)
  BY <1>2, <1>18 DEF Fault
<1>19. QED
  BY <1>3, <1>4, <1>5, <1>6, <1>7, <1>8, <1>9, <1>10, <1>11, <1>12, <1>13, <1>14, <1>15,
     <1>16, <1>17, <1>18 DEF Project, Publish, Looking

LEMMA AlwaysApart == Spec => []ApartInv
<1>1. Init => ApartInv
  <2>1. Idle.todo = {} /\ Idle.muts = <<>> /\ Idle.pc = "idle"
    BY DEF Idle
  <2>2. QED
    BY <2>1, ApartEmpty DEF Init, ApartInv
<1>2. TypeInv /\ ApartInv /\ [Next]_vars => ApartInv'
  <2> SUFFICES ASSUME TypeInv, ApartInv, [Next]_vars PROVE ApartInv'
    OBVIOUS
  <2>1. CASE UNCHANGED run
    BY <2>1 DEF ApartInv
  <2>2. QED
    BY <2>1, ApartProject DEF Next, Drift, User, vars
<1>3. QED
  BY <1>1, <1>2, AlwaysTyped, PTL DEF Spec

-----------------------------------------------------------------------------
(* Where a step leads: a run goes on, begins, is unwound or ends.          *)

GoesOn(p) ==
  /\ run[p].pc \in Publishing \cup {"fresh", "commit"}
  /\ run'[p].pc \in Publishing \cup {"commit", "unlink", "undo"}
  /\ run'[p].pc = "undo" => run'[p].conflicts = 0
  /\ UNCHANGED <<rev, edits, touched, before>>
  /\ lost' \in {lost, lost \cup {0}} /\ (0 \notin lost' => missed'[p] \in {missed[p], {}})
  /\ \/ run'[p].pc # "undo" /\ UNCHANGED <<missed, lost>>
     \/ /\ run'[p].pc = "undo" /\ run[p].pc \in Publishing \cup {"fresh"}
        /\ \E status \in {"stale", "failure"} : Abort(p, status)

LEMMA AbortGoesOn ==
  ASSUME TypeInv, NEW p \in Projectors, NEW status \in {"stale", "failure"},
         Abort(p, status), run[p].pc \in Publishing \cup {"fresh"}
  PROVE  GoesOn(p)
<1>1. run'[p] = ToUndo(p, status)
  BY AbortOK DEF TypeInv
<1>2. run[p] \in RunType /\ run[p].conflicts = 0
  BY DEF TypeInv, RunsOK, ShapeOK
<1>3. run'[p].pc = "undo" /\ run'[p].conflicts = 0
  BY <1>1, <1>2 DEF ToUndo, RunType
<1>4. lost' \in {lost, lost \cup {0}} /\ (missed'[p] = {} \/ 0 \in lost')
  BY AbortOK DEF TypeInv
<1>5. QED
  BY <1>3, <1>4 DEF Abort, GoesOn

LEMMA StepCases ==
  ASSUME TypeInv, NEW p \in Projectors, Project(p) \/ Fault(p)
  PROVE  \/ GoesOn(p)
         \/ Begin(p) \/ Preflight(p) \/ Unlink(p) \/ Undo(p) \/ Undoing(p) \/ Unwound(p)
<1>1. run[p] \in RunType /\ ShapeOK(run[p])
  BY DEF TypeInv, RunsOK
<1>2. ASSUME NEW status \in {"stale", "failure"}, Gives(p, status) PROVE GoesOn(p)
  BY <1>2, AbortGoesOn DEF Gives
<1>3. CASE Looking(p)
  <2>1. ASSUME NEW pc, Onward(run[p], pc), Proceed(p, pc) PROVE GoesOn(p)
    <3>1. pc \in Publishing \cup {"commit"}
      BY <1>1, <2>1, OnwardOK
    <3>2. run'[p] = [run[p] EXCEPT !.pc = pc]
      BY <2>1, WentTo DEF Proceed
    <3>3. run'[p].pc = pc
      BY <1>1, <3>2 DEF RunType
    <3>4. run[p].pc \in Publishing \cup {"fresh"}
      BY <2>1 DEF Onward, Publishing
    <3>5. QED
      BY <2>1, <3>1, <3>3, <3>4 DEF GoesOn, Proceed, history, Publishing
  <2>2. QED
    BY <1>2, <1>3, <2>1, LookingCases
<1>4. CASE Identify(p)
  <2>1. CASE ~Has(Job(p).name)
    BY <1>4, <2>1, AbortGoesOn DEF Identify, Fail, At, Publishing
  <2>2. CASE Has(Job(p).name)
    <3>1. run'[p] = [run[p] EXCEPT !.pc = "compare", !.held = dir[Job(p).name]]
      BY <1>4, <2>2, WentTo DEF Identify
    <3>2. run'[p].pc = "compare"
      BY <1>1, <3>1 DEF RunType
    <3>3. QED
      BY <1>4, <2>2, <3>2 DEF Identify, At, GoesOn, history, Publishing
  <2>3. QED
    BY <2>1, <2>2
<1>5. CASE Check(p)
  <2>1. CASE Fail(p)
    BY <1>5, <2>1, AbortGoesOn DEF Check, Fail, At, Publishing
  <2>2. CASE Goto(p, NextJob(run[p])) /\ UNCHANGED <<rev, dir, edits, history>>
    <3>1. run[p].todo # {} /\ run[p].conflicts = 0
      BY <1>1, <1>5 DEF Check, At, ShapeOK, Working, Publishing
    <3>2. run'[p].pc \in {"recheck", "look", "check", "verify"}
      BY <1>1, <2>2, <3>1, WentTo, NextJobOK
    <3>3. QED
      BY <1>5, <2>2, <3>2 DEF Check, At, GoesOn, history, Publishing
  <2>3. QED
    BY <1>5, <2>1, <2>2 DEF Check
<1>6. CASE Move(p)
  <2>1. CASE Goto(p, AfterMove(p)) /\ UNCHANGED <<rev, edits, history>>
    <3>1. run[p].pc = "move"
      BY <1>6 DEF Move, At
    <3>2. run'[p].pc \in {"recheck", "look", "check", "verify", "temp"}
      BY <2>1, <3>1, WentTo, AfterMoveOK DEF TypeInv
    <3>3. QED
      BY <2>1, <3>1, <3>2 DEF GoesOn, history, Publishing
  <2>2. QED
    BY <1>2, <1>6, <2>1, MoveCases
<1>7. CASE Temp(p) \/ Rename(p)
  <2>1. \/ run'[p] = [run[p] EXCEPT !.pc = "rename"]
        \/ run'[p] = [run[p] EXCEPT !.pc = "record"]
    BY <1>7, WentTo DEF Temp, Rename
  <2>2. run'[p].pc \in {"rename", "record"}
    BY <1>1, <2>1 DEF RunType
  <2>3. QED
    BY <1>7, <2>2 DEF Temp, Rename, At, GoesOn, history, Publishing
<1>8. CASE Record(p)
  <2>1. CASE Goto(p, AfterRecord(p)) /\ UNCHANGED <<rev, dir, edits, history>>
    <3>1. run[p].pc = "record"
      BY <1>8 DEF Record, At
    <3>2. run'[p].pc \in {"recheck", "look", "check", "verify"}
      BY <2>1, <3>1, WentTo, AfterRecordOK
    <3>3. QED
      BY <2>1, <3>1, <3>2 DEF GoesOn, history, Publishing
  <2>2. QED
    BY <1>2, <1>8, <2>1, RecordCases
<1>9. CASE Commit(p)
  <2>1. PICK c, x : run'[p] = [run[p] EXCEPT !.pc = "unlink", !.conflicts = c, !.drop = x]
    BY <1>9, WentTo DEF Commit
  <2>2. run'[p].pc = "unlink"
    BY <1>1, <2>1 DEF RunType
  <2>3. QED
    BY <1>9, <2>2 DEF Commit, At, GoesOn, history
<1>10. CASE Fault(p)
  BY <1>10, AbortGoesOn DEF Fault
<1>11. QED
  BY <1>3, <1>4, <1>5, <1>6, <1>7, <1>8, <1>9, <1>10 DEF Project, Publish, Looking

(* What a run's own cleaning up missed is known only once it is unwound: its *)
(* own file, whole, which the unwinding then leaves alone.                   *)

Spared(r, n) ==
  \A i \in DOMAIN r.muts : r.muts[i].name = n =>
    /\ r.muts[i].kind # "created" /\ r.muts[i].now = Nothing
    /\ r.pc = "undoing" /\ i = Len(r.muts) => r.act \in {"none", "drop"}

MissedOK(p, r) ==
  /\ r.pc \in Publishing \cup {"preflight", "fresh", "commit", "unlink"} => missed[p] = {}
  /\ r.pc \in {"undo", "undoing", "done"} =>
       \A n \in (missed[p] \cap Names) \ touched[p] : Is(n, Desired(r.snap, n)) /\ Spared(r, n)

MissedInv == \A p \in Projectors : MissedOK(p, run[p])

LEMMA MissedAborts ==
  ASSUME TypeInv, ApartInv, NEW p \in Projectors, NEW status \in {"stale", "failure"},
         Abort(p, status), run[p].pc \in Publishing \cup {"fresh"}
  PROVE  MissedOK(p, run[p])'
<1>1. run'[p] = ToUndo(p, status)
  BY AbortOK DEF TypeInv
<1>2. PICK r, s : r \in RunType /\ r = run[p] /\ s = run'[p]
  BY DEF TypeInv, RunsOK
<1>3. ShapeOK(r) /\ JobsApart(r)
  BY <1>2 DEF TypeInv, RunsOK, ApartInv
<1>4. /\ s.pc = "undo" /\ s.snap = r.snap
      /\ s.muts = IF Kept(p) THEN Published(p) ELSE r.muts
  BY <1>1, <1>2 DEF ToUndo, RunType
<1>5. ASSUME NEW n \in Names, n \in missed'[p]
      PROVE  Is(n, Desired(s.snap, n))' /\ Spared(s, n)
  <2>1. Wrote(p) /\ ~Kept(p) /\ n = Job(p).name
    BY <1>5, AbortOK DEF TypeInv
  <2>2. n # Tmp(p) /\ n \in AllNames
    BY <1>5, NamesApart
  <2>3. dir'[n] = dir[n]
    BY <2>2, AbortOK DEF TypeInv
  <2>4. Is(n, Desired(r.snap, n))
    BY <1>2, <2>1 DEF Wrote, Payload
  <2>5. Is(n, Desired(s.snap, n))'
    BY <1>4, <2>3, <2>4 DEF Is, Has
  <2>6. s.muts = r.muts /\ r.pc \in Writing
    BY <1>2, <1>4, <2>1 DEF Wrote
  <2>7. Job(p) \in r.todo /\ Job(p) = First(r.todo)
    BY <1>2, <1>3, <2>6, JobIn DEF ShapeOK, Working, TypeInv, Job
  <2>8. ASSUME NEW i \in DOMAIN r.muts, r.muts[i].name = n
        PROVE  r.muts[i].kind # "created" /\ r.muts[i].now = Nothing
    <3>1. Job(p).kind \in {"create", "replace"}
      BY <1>3, <2>6, <2>7 DEF ShapeOK
    <3>2. Job(p).kind = "replace" /\ i = Len(r.muts)
      BY <1>3, <2>1, <2>7, <2>8, <3>1 DEF JobsApart
    <3>3. QED
      BY <1>3, <2>6, <2>7, <3>2 DEF ShapeOK
  <2>9. QED
    BY <1>4, <2>5, <2>6, <2>8 DEF Spared
<1>6. QED
  BY <1>2, <1>4, <1>5 DEF MissedOK, Publishing

LEMMA MissedUndo ==
  ASSUME TypeInv, MissedInv, NEW p \in Projectors, Undo(p)
  PROVE  MissedOK(p, run[p])'
<1>1. /\ run[p].pc = "undo" /\ run[p].muts # <<>>
      /\ UNCHANGED <<rev, dir, edits, touched, before, missed, written>>
  BY UndoCases
<1>2. PICK o, b \in BOOLEAN : /\ o => Ours(Newest(p))
                             /\ Goto(p, Decided(p, o, b))
  BY UndoCases
<1>3. PICK r, s, m : r \in RunType /\ r = run[p] /\ s = run'[p] /\ m = Newest(p)
  BY DEF TypeInv, RunsOK
<1>4. s = Decided(p, o, b)
  BY <1>2, <1>3, WentTo
<1>5. /\ s.pc = "undoing" /\ s.muts = r.muts /\ s.snap = r.snap
      /\ s.act = IF m.kind = "created" THEN (IF o THEN "unlink" ELSE "none")
                 ELSE IF ~b THEN "none"
                 ELSE IF o \/ ~Has(m.name) THEN "restore" ELSE "drop"
  BY <1>1, <1>3, <1>4, UndoneOK DEF TypeInv
<1>6. m = r.muts[Len(r.muts)]
  BY <1>1, <1>3, NewestIn DEF TypeInv
<1>7. ASSUME NEW n \in (missed'[p] \cap Names) \ touched'[p]
      PROVE  Is(n, Desired(s.snap, n))' /\ Spared(s, n)
  <2>1. Is(n, Desired(r.snap, n)) /\ Spared(r, n)
    BY <1>1, <1>3, <1>7 DEF MissedInv, MissedOK
  <2>2. Is(n, Desired(s.snap, n))'
    BY <1>1, <1>5, <2>1 DEF Is, Has
  <2>3. ASSUME NEW i \in DOMAIN r.muts, r.muts[i].name = n, i = Len(r.muts)
        PROVE  s.act \in {"none", "drop"}
    <3>1. m.name = n /\ m.kind # "created" /\ m.now = Nothing
      BY <1>6, <2>1, <2>3 DEF Spared
    <3>2. ~o /\ Has(m.name)
      BY <1>2, <1>3, <2>1, <3>1 DEF Ours, Is
    <3>3. QED
      BY <1>5, <3>1, <3>2
  <2>4. QED
    BY <1>5, <2>1, <2>2, <2>3 DEF Spared
<1>8. QED
  BY <1>3, <1>5, <1>7 DEF MissedOK, Publishing

LEMMA MissedUndoing ==
  ASSUME TypeInv, MissedInv, NEW p \in Projectors, Undoing(p)
  PROVE  MissedOK(p, run[p])'
<1>1. /\ run[p] \in RunType /\ ShapeOK(run[p]) /\ run[p].pc = "undoing"
      /\ UNCHANGED <<rev, edits, touched, before, missed, written>>
  BY UndoingCases DEF TypeInv
<1>2. PICK c \in Nat :
         /\ Goto(p, [Rest(run[p]) EXCEPT !.conflicts = c])
         /\ dir' = dir \/ (run[p].act # "none" /\ dir' = TakenBack(p, Newest(p)))
  BY UndoingCases DEF TypeInv
<1>3. PICK r, s, m : r \in RunType /\ r = run[p] /\ s = run'[p] /\ m = Newest(p)
  BY <1>1
<1>4. s = [Rest(r) EXCEPT !.conflicts = c]
  BY <1>2, <1>3, WentTo
<1>5. /\ s.pc = "undo" /\ s.snap = r.snap /\ Len(r.muts) \in Nat \ {0}
      /\ Len(s.muts) = Len(r.muts) - 1 /\ s \in RunType
      /\ \A i \in 1 .. Len(s.muts) : s.muts[i] = r.muts[i]
  BY <1>1, <1>3, <1>4, RestOK
<1>6. DOMAIN r.muts = 1 .. Len(r.muts) /\ DOMAIN s.muts = 1 .. Len(s.muts)
  BY <1>5, LenProperties DEF RunType
<1>7. m = r.muts[Len(r.muts)] /\ m.name \in Names
  <2>1. r.muts # <<>>
    BY <1>1, <1>3 DEF ShapeOK
  <2>2. QED
    BY <1>3, <2>1, NewestIn DEF TypeInv, Mutation
<1>8. ASSUME NEW n \in (missed'[p] \cap Names) \ touched'[p]
      PROVE  Is(n, Desired(s.snap, n))' /\ Spared(s, n)
  <2>1. Is(n, Desired(r.snap, n)) /\ Spared(r, n)
    BY <1>1, <1>3, <1>8 DEF MissedInv, MissedOK
  <2>2. n \in AllNames /\ \A x \in Names : Bak(p, x) # n
    BY NamesApart
  <2>3. dir'[n] = dir[n]
    <3>1. CASE dir' = dir
      BY <3>1
    <3>2. CASE run[p].act # "none" /\ dir' = TakenBack(p, Newest(p)) /\ m.name # n
      BY <1>3, <1>7, <2>2, <3>2 DEF TakenBack, TypeInv, DirOK
    <3>3. CASE run[p].act # "none" /\ dir' = TakenBack(p, Newest(p)) /\ m.name = n
      <4>1. r.act = "drop"
        BY <1>1, <1>3, <1>5, <1>6, <1>7, <2>1, <3>3 DEF Spared
      <4>2. QED
        BY <1>3, <1>7, <2>2, <3>3, <4>1 DEF TakenBack, TypeInv, DirOK
    <3>4. QED
      BY <1>2, <3>1, <3>2, <3>3
  <2>4. Is(n, Desired(s.snap, n))'
    BY <1>5, <2>1, <2>3 DEF Is, Has
  <2>5. Spared(s, n)
    BY <1>5, <1>6, <2>1 DEF Spared
  <2>6. QED
    BY <2>4, <2>5
<1>9. QED
  BY <1>3, <1>5, <1>8 DEF MissedOK, Publishing

LEMMA MissedProject ==
  ASSUME TypeInv, ApartInv, MissedInv, NEW p \in Projectors, Project(p) \/ Fault(p)
  PROVE  MissedOK(p, run[p])'
<1>1. run[p] \in RunType /\ MissedOK(p, run[p])
  BY DEF TypeInv, RunsOK, MissedInv
<1>2. CASE GoesOn(p) /\ run'[p].pc # "undo"
  BY <1>1, <1>2 DEF GoesOn, MissedOK, Publishing
<1>3. CASE GoesOn(p) /\ run'[p].pc = "undo"
  <2>1. PICK status \in {"stale", "failure"} :
          Abort(p, status) /\ run[p].pc \in Publishing \cup {"fresh"}
    BY <1>3 DEF GoesOn
  <2>2. QED
    BY <2>1, MissedAborts
<1>4. CASE Begin(p)
  <2>1. missed'[p] = {}
    BY <1>4 DEF Begin, TypeInv
  <2>2. QED
    BY <2>1 DEF MissedOK
<1>5. CASE Preflight(p)
  <2>1. missed[p] = {} /\ UNCHANGED missed
    BY <1>1, <1>5 DEF Preflight, At, MissedOK, history
  <2>2. QED
    BY <2>1 DEF MissedOK
<1>6. CASE Unlink(p)
  <2>1. missed[p] = {} /\ UNCHANGED missed
    BY <1>1, <1>6 DEF Unlink, At, MissedOK
  <2>2. QED
    BY <2>1 DEF MissedOK
<1>7. CASE Unwound(p)
  <2>1. /\ run'[p] = Report(run[p], run[p].status) /\ run[p].pc = "undo"
        /\ UNCHANGED <<dir, touched, missed>>
    BY <1>7, WentTo DEF Unwound, At, history
  <2>2. PICK r, s : r \in RunType /\ r = run[p] /\ s = run'[p]
    BY <1>1
  <2>3. s.pc = "done" /\ s.snap = r.snap /\ s.muts = <<>>
    BY <2>1, <2>2, ReportIs
  <2>4. ASSUME NEW n \in (missed'[p] \cap Names) \ touched'[p]
        PROVE  Is(n, Desired(s.snap, n))' /\ Spared(s, n)
    <3>1. Is(n, Desired(r.snap, n))
      BY <1>1, <2>1, <2>2, <2>4 DEF MissedOK
    <3>2. DOMAIN s.muts = {}
      BY <2>3
    <3>3. QED
      BY <2>1, <2>3, <3>1, <3>2 DEF Spared, Is, Has
  <2>5. QED
    BY <2>2, <2>3, <2>4 DEF MissedOK, Publishing
<1>8. CASE Undo(p)
  BY <1>8, MissedUndo
<1>9. CASE Undoing(p)
  BY <1>9, MissedUndoing
<1>10. QED
  BY <1>2, <1>3, <1>4, <1>5, <1>6, <1>7, <1>8, <1>9, StepCases

LEMMA MissedNext ==
  ASSUME Alone
  PROVE  TypeInv /\ ApartInv /\ MissedInv /\ [Next]_vars => MissedInv'
<1> SUFFICES ASSUME TypeInv, ApartInv, MissedInv, [Next]_vars
             PROVE  MissedInv'
  OBVIOUS
<1>1. ASSUME NEW p \in Projectors, MissedOK(p, run[p])' PROVE MissedInv'
  BY <1>1 DEF MissedInv, Alone
<1>2. ASSUME NEW p \in Projectors, Project(p) \/ Fault(p) PROVE MissedInv'
  BY <1>1, <1>2, MissedProject
<1>3. ASSUME NEW p \in Projectors, Die(p) PROVE MissedInv'
  <2>1. run'[p] = Idle
    BY <1>3, WentTo DEF Die
  <2>2. run'[p].pc = "idle"
    BY <2>1 DEF Idle
  <2>3. MissedOK(p, run[p])'
    BY <2>2 DEF MissedOK, Publishing
  <2>4. QED
    BY <1>1, <2>3
<1>4. CASE Drift
  BY <1>4 DEF Drift, MissedInv, MissedOK, Spared, Is, Has, history
<1>5. ASSUME NEW u \in UserNames, User(u) PROVE MissedInv'
  <2>1. /\ \A x \in AllNames \ {u} : dir'[x] = dir[x]
        /\ UNCHANGED <<run, missed>>
    BY <1>5 DEF User, TypeInv, DirOK
  <2>2. \A p \in Projectors : touched'[p] = touched[p] \cup {u}
    BY <1>5 DEF User
  <2>3. Names \subseteq AllNames
    BY DEF AllNames
  <2>4. QED
    BY <2>1, <2>2, <2>3 DEF MissedInv, MissedOK, Spared, Is, Has
<1>6. CASE UNCHANGED vars
  BY <1>6 DEF vars, MissedInv, MissedOK, Spared, Is, Has
<1>7. QED
  BY <1>2, <1>3, <1>4, <1>5, <1>6 DEF Next

LEMMA AlwaysMissed == Alone /\ Spec => []MissedInv
<1>1. Init => MissedInv
  BY DEF Init, MissedInv, MissedOK
<1>2. CASE Alone
  <2>1. TypeInv /\ ApartInv /\ MissedInv /\ [Next]_vars => MissedInv'
    BY <1>2, MissedNext
  <2>2. QED
    BY <1>1, <1>2, <2>1, AlwaysTyped, AlwaysApart, PTL DEF Spec
<1>3. QED
  BY <1>2

-----------------------------------------------------------------------------
(***************************************************************************)
(* What a run puts back when it is unwound, and that it destroys nothing   *)
(* of the user.                                                            *)
(*                                                                         *)
(* Both are proved for a projector that is alone with the user (Alone), if *)
(* the user does not move between a check of the run and the call that     *)
(* relies on it (~UserRaces): the code has no lock.  MCProjectionRace and  *)
(* MCProjectionTwo show what goes wrong without these.                     *)
(***************************************************************************)

(* What a run knows of the files it is at.                                 *)

\* A file the user wrote.
OfUser(f) == f # Nothing /\ f.content = UserText

\* The file the run is publishing: what the last check of it has seen still holds.
HandOK(p, r) ==
  LET n == First(r.todo).name IN
  /\ r.pc \notin {"idle", "preflight", "rename", "undo", "undoing", "done"} => ~Has(Tmp(p))
  /\ r.pc \in {"undo", "undoing"} /\ Tmp(p) \notin missed[p] => ~Has(Tmp(p))
  /\ r.pc = "rename" => Is(Tmp(p), Desired(r.snap, n))
  /\ r.pc \in {"temp", "rename"} => ~Has(n)
  /\ r.pc = "record" => Is(n, Desired(r.snap, n))
  /\ r.pc = "identify" => Is(n, Old(r, n))
  /\ r.pc \in {"compare", "move"} => ~OfUser(r.held)
  /\ r.pc = "unlink" => \A x \in r.drop : ~OfUser(dir[x])

\* The mutation that is being taken back.
TakingOK(p, r) ==
  LET m == r.muts[Len(r.muts)] IN
  r.pc = "undoing" =>
    /\ r.act = "unlink" => m.kind = "created" /\ m.now # Nothing /\ dir[m.name] = m.now
    /\ r.act = "restore" => dir[m.name] \in {Nothing, m.now}
    /\ r.act \in {"restore", "drop"} => m.kind # "created" /\ dir[Bak(p, m.name)] = m.was
    /\ r.act = "none" /\ r.conflicts = 0 => m.kind = "created"

Active == Publishing \cup {"fresh", "undo", "undoing"}
Aside(muts, n) == \E i \in DOMAIN muts : muts[i].name = n /\ muts[i].kind # "created"

\* Nothing of a run is the user's, and every backup belongs to a mutation.
OursOK(p, r) ==
  /\ ~OfUser(dir[Tmp(p)])
  /\ \A i \in DOMAIN r.muts : ~OfUser(r.muts[i].was) /\ ~OfUser(r.muts[i].now)
  /\ r.pc \notin {"idle", "preflight", "done"} => r.prev \in Range(Rendering) \cup {Unlisted}
  /\ (\E j \in r.todo : j.kind = "replace" /\ j.name = Manifest) => r.prev \in Range(Rendering)
  /\ \A x \in {Manifest, Bak(p, Manifest)} :
       Has(x) => dir[x].content \in Range(Rendering) \cup {UserText}
  /\ r.pc \in Active /\ r.conflicts = 0 =>
       \A n \in Names : ~Aside(r.muts, n) => ~Has(Bak(p, n))

HandInv ==
  \A p \in Projectors : HandOK(p, run[p]) /\ TakingOK(p, run[p]) /\ OursOK(p, run[p])
-----------------------------------------------------------------------------
(* What the mutations and the backups say about the directory the run found. *)

Left(p, n) == n \notin touched[p] \cup missed[p]
Mutated(muts, n) == \E i \in DOMAIN muts : muts[i].name = n

FoundOK(p, r) ==
  LET found == before[p]
      job == First(r.todo).name
      open(n) == r.pc = "record" /\ n = job
      m == r.muts[Len(r.muts)]
  IN
  /\ \A x \in OwnNames(p) : Left(p, x) => found[x] = Nothing
  /\ \A n \in Names : Left(p, n) /\ ~Mutated(r.muts, n) =>
       found[n] = IF open(n) THEN Nothing ELSE dir[n]
  /\ r.pc \in {"compare", "move"} /\ Left(p, job) => r.held = found[job]
  /\ \A i \in DOMAIN r.muts : Left(p, r.muts[i].name) =>
       /\ ~open(r.muts[i].name) => dir[r.muts[i].name] = r.muts[i].now
       /\ found[r.muts[i].name] = r.muts[i].was
       /\ r.muts[i].kind # "created" /\ Left(p, Bak(p, r.muts[i].name))
            => dir[Bak(p, r.muts[i].name)] = r.muts[i].was
  /\ r.pc = "undoing" =>
       /\ r.act = "none" => ~Has(m.name)
       /\ r.act = "drop" => ~Left(p, m.name)

\* As long as no conflict was met, every mutation can be traced back; in the end all
\* is as it was found, but for what the user has touched.
AsFound(p) == \A n \in AllNames : Left(p, n) => dir[n] = before[p][n]
TraceOK(p, r) ==
  /\ r.pc = "preflight" => AsFound(p)
  /\ r.pc \in Active /\ r.conflicts = 0 => FoundOK(p, r)
  /\ r.pc = "done" /\ r.status \in {"stale", "failure"} /\ r.conflicts = 0 => AsFound(p)

TraceInv == \A p \in Projectors : TraceOK(p, run[p])
-----------------------------------------------------------------------------
(* Facts about the state the two invariants need again and again.          *)

LEMMA HandAlone ==
  ASSUME Alone, NEW p \in Projectors, NEW s, run'[p] = s,
         HandOK(p, s)', TakingOK(p, s)', OursOK(p, s)'
  PROVE  HandInv'
<1>1. HandOK(p, run[p])' /\ TakingOK(p, run[p])' /\ OursOK(p, run[p])'
  OBVIOUS
<1>2. QED
  BY <1>1 DEF HandInv, Alone

LEMMA DesiredOurs ==
  ASSUME NEW r \in Revisions, NEW n \in Names
  PROVE  /\ Desired(r, n) # UserText
         /\ n = Manifest => Desired(r, n) \in Range(Rendering)
<1>1. n = Marker \/ n = Manifest \/ n \in Docs
  BY DEF Names
<1>2. Rendering[r] \in Range(Rendering)
  BY ProjectionAssumption, LenProperties DEF Revisions, Range
<1>3. QED
  BY <1>1, <1>2, ContentAssumption, NamesAssumption DEF Desired

LEMMA OldOurs ==
  ASSUME NEW r, r.prev \in Range(Rendering) \cup {Unlisted}, NEW n \in Docs \cup {Manifest},
         n = Manifest => r.prev \in Range(Rendering)
  PROVE  Old(r, n) # UserText
<1>1. CASE n = Manifest
  BY <1>1, ContentAssumption DEF Old
<1>2. CASE n # Manifest
  <2>1. n \in Docs
    BY <1>2
  <2>2. CASE r.prev = Unlisted
    BY <1>2, <2>1, <2>2, ContentAssumption DEF Old, Unlisted
  <2>3. CASE r.prev \in Range(Rendering)
    <3>1. PICK i \in Revisions : r.prev = Rendering[i]
      BY <2>3, ProjectionAssumption, LenProperties DEF Range, Revisions
    <3>2. QED
      BY <1>2, <2>1, <3>1, ContentAssumption DEF Old
  <2>4. QED
    BY <2>2, <2>3
<1>3. QED
  BY <1>1, <1>2

\* What the run holds for published is what it held, and the file it is at.
LEMMA PublishedTells ==
  ASSUME TypeInv, NEW p \in Projectors, run[p].pc \in Writing
  PROVE  /\ \A i \in DOMAIN Published(p) :
              \/ i \in DOMAIN run[p].muts /\ Published(p)[i] = run[p].muts[i]
              \/ /\ Published(p)[i].name = Job(p).name
                 /\ Published(p)[i].now = dir[Job(p).name]
                 /\ \/ /\ Job(p).kind = "create"
                       /\ Published(p)[i].kind = "created" /\ Published(p)[i].was = Nothing
                    \/ /\ i \in DOMAIN run[p].muts
                       /\ run[p].muts[i].name = Job(p).name
                       /\ Published(p)[i].kind = run[p].muts[i].kind
                       /\ Published(p)[i].was = run[p].muts[i].was
         /\ \A i \in DOMAIN run[p].muts :
              /\ i \in DOMAIN Published(p)
              /\ Published(p)[i].name = run[p].muts[i].name
              /\ Published(p)[i].kind = run[p].muts[i].kind
         /\ \E i \in DOMAIN Published(p) : /\ Published(p)[i].name = Job(p).name
                                          /\ Published(p)[i].now = dir[Job(p).name]
<1> DEFINE k == Len(run[p].muts)
           made == [kind |-> "created", name |-> Job(p).name, was |-> Nothing,
                    now |-> dir[Job(p).name]]
           muts == run[p].muts
           pub == Published(p)
<1>1. Job(p).kind \in {"create", "replace"}
  BY WritingType
<1>2. pub \in Seq(Mutation) /\ muts \in Seq(Mutation) /\ k \in Nat
  BY PublishedOK DEF TypeInv
<1>3. DOMAIN pub = 1 .. Len(pub) /\ DOMAIN muts = 1 .. k
  BY <1>2, LenProperties
<1>4. CASE Job(p).kind = "create"
  <2>1. Len(pub) = k + 1 /\ pub[k + 1] = made /\ \A i \in 1 .. k : pub[i] = muts[i]
    BY <1>4, PublishedOK DEF TypeInv
  <2>2. /\ made.name = Job(p).name /\ made.kind = "created" /\ made.was = Nothing
        /\ made.now = dir[Job(p).name]
    OBVIOUS
  <2> HIDE DEF made, pub, muts, k
  <2>3. \A i \in DOMAIN pub : i = k + 1 \/ i \in 1 .. k
    BY <1>2, <1>3, <2>1
  <2>4. \A i \in DOMAIN muts : i \in DOMAIN pub
    BY <1>2, <1>3, <2>1
  <2>5. k + 1 \in DOMAIN pub
    BY <1>2, <1>3, <2>1
  <2>6. QED
    BY <1>3, <1>4, <2>1, <2>2, <2>3, <2>4, <2>5 DEF pub, muts
<1>5. CASE Job(p).kind # "create"
  <2>1. /\ k # 0 /\ Len(pub) = k /\ pub[k] = [muts[k] EXCEPT !.now = dir[Job(p).name]]
        /\ \A i \in 1 .. k - 1 : pub[i] = muts[i]
    BY <1>5, PublishedOK DEF TypeInv
  <2>2. muts[k].name = Job(p).name
    BY <1>1, <1>5, WritingType DEF TypeInv, RunsOK, ShapeOK, Job
  <2> HIDE DEF pub, muts, k
  <2>3. muts[k] \in Mutation
    BY <1>2, <2>1, ElementOfSeq DEF muts, k
  <2>4. /\ pub[k].name = Job(p).name /\ pub[k].kind = muts[k].kind /\ pub[k].was = muts[k].was
        /\ pub[k].now = dir[Job(p).name]
    BY <2>1, <2>2, <2>3 DEF Mutation
  <2>5. \A i \in DOMAIN pub : i = k \/ i \in 1 .. k - 1
    BY <1>2, <1>3, <2>1
  <2>6. DOMAIN pub = DOMAIN muts /\ k \in DOMAIN muts
    BY <1>2, <1>3, <2>1
  <2>7. QED
    BY <2>1, <2>2, <2>4, <2>5, <2>6 DEF pub, muts
<1>6. QED
  BY <1>4, <1>5

\* Between files, and at the end of a run, there is nothing to hold.
LEMMA HandFree ==
  ASSUME NEW p \in Projectors, NEW s,
         s.pc \notin {"identify", "compare", "move", "unlink", "undoing"} \cup Writing,
         \/ s.pc \in {"idle", "preflight", "done"} \/ ~Has(Tmp(p))'
         \/ s.pc = "undo" /\ Tmp(p) \in missed'[p]
  PROVE  HandOK(p, s)' /\ TakingOK(p, s)'
BY DEF HandOK, TakingOK, Writing

\* A step that gives nothing away: files may go, none comes.
LEMMA OursKept ==
  ASSUME NEW p \in Projectors, NEW r, OursOK(p, r), NEW s,
         s.muts = r.muts, s.prev = r.prev, s.todo \subseteq r.todo,
         s.pc \notin {"idle", "preflight", "done"} => r.pc \notin {"idle", "preflight", "done"},
         s.pc \in Active /\ s.conflicts = 0 => r.pc \in Active /\ r.conflicts = 0,
         dir'[Tmp(p)] \in {dir[Tmp(p)], Nothing},
         \A n \in {Manifest} \cup {Bak(p, m) : m \in Names} : dir'[n] \in {dir[n], Nothing}
  PROVE  OursOK(p, s)'
<1>1. Manifest \in Names
  BY DEF Names
<1>2. ~OfUser(dir[Tmp(p)])'
  BY DEF OursOK, OfUser
<1>3. \A x \in {Manifest, Bak(p, Manifest)} :
        Has(x)' => dir'[x].content \in Range(Rendering) \cup {UserText}
  BY <1>1 DEF OursOK, Has
<1>4. s.pc \in Active /\ s.conflicts = 0 => \A n \in Names : ~Aside(s.muts, n) => ~Has(Bak(p, n))'
  BY DEF OursOK, Has
<1>5. QED
  BY <1>2, <1>3, <1>4 DEF OursOK

\* A run that has ended, or not begun, has nothing.
LEMMA OursEmpty ==
  ASSUME NEW p \in Projectors, NEW r, OursOK(p, r), NEW s,
         s.muts = <<>>, s.todo = {}, s.pc \in {"idle", "preflight", "done"},
         dir'[Tmp(p)] \in {dir[Tmp(p)], Nothing},
         \A x \in {Manifest, Bak(p, Manifest)} : dir'[x] \in {dir[x], Nothing}
  PROVE  OursOK(p, s)'
<1>1. DOMAIN s.muts = {}
  OBVIOUS
<1>2. ~OfUser(dir[Tmp(p)])'
  BY DEF OursOK, OfUser
<1>3. \A x \in {Manifest, Bak(p, Manifest)} :
        Has(x)' => dir'[x].content \in Range(Rendering) \cup {UserText}
  BY DEF OursOK, Has
<1>4. s.pc \notin Active
  BY DEF Active, Publishing
<1>5. QED
  BY <1>1, <1>2, <1>3, <1>4 DEF OursOK
-----------------------------------------------------------------------------
(* What a run holds is right: step by step.                                *)

LEMMA HandAborts ==
  ASSUME Alone, TypeInv, ApartInv, HandInv, NEW p \in Projectors, NEW status \in {"stale", "failure"},
         Abort(p, status), run[p].pc \in Publishing \cup {"fresh"}
  PROVE  HandInv'
<1>1. run'[p] = ToUndo(p, status) /\ ToUndo(p, status) \in RunType
  BY AbortOK DEF TypeInv
<1>2. PICK r \in RunType, s \in RunType : r = run[p] /\ s = run'[p]
  BY <1>1 DEF TypeInv, RunsOK
<1>3. OursOK(p, r) /\ ShapeOK(r)
  BY <1>2 DEF HandInv, TypeInv, RunsOK
<1>4. /\ s.pc = "undo" /\ s.todo = {} /\ s.prev = r.prev /\ s.conflicts = r.conflicts
      /\ s.muts = IF Kept(p) THEN Published(p) ELSE r.muts
  BY <1>1, <1>2 DEF ToUndo, RunType
<1>5. \A x \in AllNames \ {Tmp(p)} : dir'[x] = dir[x]
  BY AbortOK DEF TypeInv
<1>6. dir'[Tmp(p)] \in {dir[Tmp(p)], Nothing} /\ (Tmp(p) \in missed'[p] \/ dir'[Tmp(p)] = Nothing)
  BY AbortOK DEF TypeInv
<1>7. HandOK(p, s)' /\ TakingOK(p, s)'
  BY <1>4, <1>6, HandFree DEF Writing, Has
<1>8. \A i \in DOMAIN s.muts : ~OfUser(s.muts[i].was) /\ ~OfUser(s.muts[i].now)
  <2>1. CASE ~Kept(p)
    BY <1>3, <1>4, <2>1 DEF OursOK
  <2>2. CASE Kept(p)
    <3>1. Job(p).name \in Names /\ run[p].snap \in Revisions /\ run[p].pc \in Writing
      BY <1>2, <2>2, WritingType DEF RunType, Kept, Wrote
    <3>2. ~OfUser(dir[Job(p).name])
      BY <2>2, <3>1, DesiredOurs DEF Kept, Wrote, Is, Payload, OfUser
    <3>3. QED
      BY <1>2, <1>3, <1>4, <2>2, <3>1, <3>2, PublishedTells DEF OursOK, OfUser
  <2>3. QED
    BY <2>1, <2>2
<1>9. r.conflicts = 0 /\ r.pc \in Active /\ r.pc \notin {"idle", "preflight", "done"}
  BY <1>2, <1>3 DEF ShapeOK, Active, Publishing
<1>10. \A n \in Names : Aside(r.muts, n) => Aside(s.muts, n)
  BY <1>2, <1>4, PublishedTells DEF Kept, Wrote, Aside
<1>11. Manifest \in Names
  BY DEF Names
<1>12. \A n \in Names : dir'[n] = dir[n] /\ dir'[Bak(p, n)] = dir[Bak(p, n)]
  BY <1>5, NamesApart
<1>13. OursOK(p, s)'
  <2>1. ~OfUser(dir[Tmp(p)])'
    BY <1>3, <1>6 DEF OursOK, OfUser
  <2>2. s.prev \in Range(Rendering) \cup {Unlisted}
    BY <1>3, <1>4, <1>9 DEF OursOK
  <2>3. \A x \in {Manifest, Bak(p, Manifest)} :
          Has(x)' => dir'[x].content \in Range(Rendering) \cup {UserText}
    BY <1>3, <1>11, <1>12 DEF OursOK, Has
  <2>4. \A n \in Names : ~Aside(s.muts, n) => ~Has(Bak(p, n))'
    BY <1>3, <1>9, <1>10, <1>12 DEF OursOK, Has
  <2>5. QED
    BY <1>4, <1>8, <2>1, <2>2, <2>3, <2>4 DEF OursOK
<1>14. QED
  BY <1>2, <1>7, <1>13, HandAlone

LEMMA HandLooking ==
  ASSUME Alone, TypeInv, ApartInv, HandInv, NEW p \in Projectors, Looking(p)
  PROVE  HandInv'
<1>1. run[p] \in RunType /\ ShapeOK(run[p])
  BY DEF TypeInv, RunsOK
<1>2. ASSUME NEW pc, Onward(run[p], pc), Saw(p), Proceed(p, pc)
      PROVE  HandInv'
  <2>1. [run[p] EXCEPT !.pc = pc] \in RunType /\ pc \in Publishing \cup {"commit"}
    BY <1>1, <1>2, OnwardOK
  <2>2. run'[p] = [run[p] EXCEPT !.pc = pc] /\ UNCHANGED dir
    BY <1>2, WentTo DEF Proceed
  <2>3. PICK r \in RunType, s \in RunType : r = run[p] /\ s = run'[p]
    BY <1>1, <2>1, <2>2
  <2>4. HandOK(p, r) /\ OursOK(p, r) /\ JobsApart(r) /\ ShapeOK(r)
    BY <1>1, <2>3 DEF HandInv, ApartInv
  <2>5. /\ s.pc = pc /\ s.todo = r.todo /\ s.muts = r.muts /\ s.prev = r.prev
        /\ s.held = r.held /\ s.conflicts = r.conflicts /\ s.snap = r.snap
    BY <2>2, <2>3 DEF RunType
  <2>6. r.pc \in {"fresh", "apply", "look", "verify", "compare", "recheck", "validate"}
    BY <1>2, <2>3 DEF Onward
  <2>7. OursOK(p, s)'
    <3>1. s.pc \notin {"idle", "preflight", "done"} => r.pc \notin {"idle", "preflight", "done"}
      BY <2>6
    <3>2. s.pc \in Active /\ s.conflicts = 0 => r.pc \in Active /\ r.conflicts = 0
      BY <2>5, <2>6 DEF Active, Publishing
    <3>3. QED
      BY <2>2, <2>4, <2>5, <3>1, <3>2, OursKept
  <2>8. ~Has(Tmp(p)) /\ ~Has(Tmp(p))'
    BY <2>2, <2>4, <2>6 DEF HandOK, Has
  <2>9. HandOK(p, s)' /\ TakingOK(p, s)'
    <3>1. CASE r.pc = "look"
      <4>1. s.pc = "temp" /\ ~Has(First(s.todo).name)
        BY <1>2, <2>3, <2>5, <3>1 DEF Onward, Saw, Job
      <4>2. QED
        BY <2>2, <2>8, <4>1 DEF HandOK, TakingOK, Has
    <3>2. CASE r.pc = "verify"
      <4>1. s.pc = "identify" /\ Is(First(s.todo).name, Old(r, First(s.todo).name))
        BY <1>2, <2>3, <2>5, <3>2 DEF Onward, Saw, Job
      <4>2. Old(s, First(s.todo).name) = Old(r, First(s.todo).name)
        BY <2>5 DEF Old
      <4>3. QED
        BY <2>2, <2>8, <4>1, <4>2 DEF HandOK, TakingOK, Has, Is
    <3>3. CASE r.pc = "compare"
      <4>1. s.pc = "move"
        BY <1>2, <2>3, <2>5, <3>3 DEF Onward
      <4>2. ~OfUser(s.held)
        BY <2>4, <2>5, <3>3 DEF HandOK
      <4>3. QED
        BY <2>8, <4>1, <4>2 DEF HandOK, TakingOK
    <3>4. CASE r.pc \in {"fresh", "apply", "recheck", "validate"}
      <4>1. r.todo \in SUBSET JobType
        BY <2>3 DEF RunType
      <4>2. EntryOf(r.todo) \in {"recheck", "look", "check", "verify"}
        BY <4>1, EntryOK
      <4>3. s.pc \in {"apply", "validate", "commit", "recheck", "look", "check", "verify"}
        BY <1>2, <2>3, <2>5, <3>4, <4>2 DEF Onward
      <4>4. QED
        BY <2>8, <4>3, HandFree DEF Writing
    <3>5. QED
      BY <2>6, <3>1, <3>2, <3>3, <3>4
  <2>10. QED
    BY <2>3, <2>7, <2>9, HandAlone
<1>3. ASSUME NEW status \in {"stale", "failure"}, Gives(p, status)
      PROVE  HandInv'
  BY <1>3, HandAborts DEF Gives
<1>4. QED
  BY <1>2, <1>3, LookingCases

LEMMA HandBegin ==
  ASSUME Alone, TypeInv, HandInv, NEW p \in Projectors, Begin(p)
  PROVE  HandInv'
<1>1. OursOK(p, run[p])
  BY DEF HandInv
<1>2. PICK r, s : r = run[p] /\ s = run'[p]
  OBVIOUS
<1>3. s = [Idle EXCEPT !.pc = "preflight", !.snap = rev] /\ UNCHANGED dir
  BY <1>2 DEF Begin
<1>4. s.pc = "preflight" /\ s.muts = <<>> /\ s.todo = {}
  BY <1>3 DEF Idle
<1>5. OursOK(p, s)'
  BY <1>1, <1>2, <1>3, <1>4, OursEmpty
<1>6. HandOK(p, s)' /\ TakingOK(p, s)'
  BY <1>4, HandFree DEF Writing
<1>7. QED
  BY <1>2, <1>5, <1>6, HandAlone

\* A run that ends, whatever its report.
LEMMA HandEnds ==
  ASSUME Alone, TypeInv, HandInv, NEW p \in Projectors, NEW s,
         s = run'[p], s.pc \in {"idle", "done"}, s.muts = <<>>, s.todo = {},
         \A x \in AllNames : dir'[x] \in {dir[x], Nothing}
  PROVE  HandInv'
<1>1. OursOK(p, run[p])
  BY DEF HandInv
<1>2. PICK r : r = run[p]
  OBVIOUS
<1>3. Manifest \in Names
  BY DEF Names
<1>4. {Tmp(p), Manifest, Bak(p, Manifest)} \subseteq AllNames
  BY <1>3, NamesApart
<1>5. OursOK(p, s)'
  BY <1>1, <1>2, <1>4, OursEmpty
<1>6. HandOK(p, s)' /\ TakingOK(p, s)'
  BY HandFree DEF Writing
<1>7. QED
  BY <1>5, <1>6, HandAlone

LEMMA HandPreflight ==
  ASSUME Alone, TypeInv, ApartInv, HandInv, NEW p \in Projectors, Preflight(p)
  PROVE  HandInv'
<1>1. run[p] \in RunType /\ ShapeOK(run[p]) /\ OursOK(p, run[p]) /\ run[p].pc = "preflight"
  BY DEF TypeInv, RunsOK, HandInv, Preflight, At
<1>2. CASE ~NoConflict(run[p].snap)
  <2>1. run'[p] = Report(run[p], "conflict") /\ UNCHANGED dir
    BY <1>2, WentTo DEF Preflight
  <2>2. PICK s : s = run'[p]
    OBVIOUS
  <2>3. s.pc \in {"idle", "done"} /\ s.muts = <<>> /\ s.todo = {}
    BY <1>1, <2>1, <2>2, ReportIs
  <2>4. QED
    BY <2>1, <2>2, <2>3, HandEnds
<1>3. CASE NoConflict(run[p].snap)
  <2>1. /\ run'[p] = [run[p] EXCEPT !.pc = "fresh", !.names = Listing, !.prev = Previous,
                                    !.todo = Plan(run[p].snap)]
        /\ UNCHANGED dir
    BY <1>3, WentTo DEF Preflight
  <2>2. PICK s : s = run'[p]
    OBVIOUS
  <2>3. /\ s.pc = "fresh" /\ s.muts = <<>> /\ s.prev = Previous /\ s.todo = Plan(run[p].snap)
    BY <1>1, <2>1, <2>2 DEF RunType, ShapeOK
  <2>4. \A x \in AllNames \ Names : ~Has(x)
    BY <1>3 DEF NoConflict, Listing
  <2>5. Manifest \in Names
    BY DEF Names
  <2>6. ~Has(Tmp(p)) /\ \A n \in Names : ~Has(Bak(p, n))
    BY <2>4, <2>5, NamesApart
  <2>7. Has(Manifest) => dir[Manifest].content \in Range(Rendering)
    <3>1. SUFFICES ASSUME Has(Manifest) PROVE dir[Manifest].content \in Range(Rendering)
      OBVIOUS
    <3>2. Manifest \in Listing
      BY <2>5, <3>1 DEF Listing, AllNames
    <3>3. dir[Manifest].content # UserText
      BY <1>3, <3>1, <3>2 DEF NoConflict, Is
    <3>4. QED
      BY <1>1, <3>1, <3>3 DEF OursOK
  <2>8. s.prev \in Range(Rendering) \cup {Unlisted}
    BY <2>3, <2>7 DEF Previous, Unlisted
  <2>9. (\E j \in s.todo : j.kind = "replace" /\ j.name = Manifest) => s.prev \in Range(Rendering)
    <3>1. SUFFICES ASSUME NEW j \in s.todo, j.kind = "replace", j.name = Manifest
                   PROVE  s.prev \in Range(Rendering)
      OBVIOUS
    <3>2. Has(Manifest)
      BY <2>3, <3>1, NamesAssumption DEF Plan, Replaced, Rendered
    <3>3. QED
      BY <2>3, <2>7, <3>2 DEF Previous
  <2>10. OursOK(p, s)'
    <3>1. DOMAIN s.muts = {}
      BY <2>3
    <3>2. ~OfUser(dir[Tmp(p)])' /\ ~Has(Bak(p, Manifest))'
      BY <2>1, <2>5, <2>6 DEF Has, OfUser
    <3>3. Has(Manifest)' => dir'[Manifest].content \in Range(Rendering)
      BY <2>1, <2>7 DEF Has
    <3>4. \A n \in Names : ~Has(Bak(p, n))'
      BY <2>1, <2>6 DEF Has
    <3>5. QED
      BY <2>8, <2>9, <3>1, <3>2, <3>3, <3>4 DEF OursOK
  <2>11. HandOK(p, s)' /\ TakingOK(p, s)'
    BY <2>1, <2>3, <2>6, HandFree DEF Writing, Has
  <2>12. QED
    BY <2>2, <2>10, <2>11, HandAlone
<1>4. QED
  BY <1>2, <1>3

LEMMA HandIdentify ==
  ASSUME Alone, TypeInv, ApartInv, HandInv, NEW p \in Projectors, Identify(p)
  PROVE  HandInv'
<1>1. /\ run[p] \in RunType /\ ShapeOK(run[p]) /\ JobsApart(run[p])
      /\ HandOK(p, run[p]) /\ OursOK(p, run[p]) /\ run[p].pc = "identify"
  BY DEF TypeInv, RunsOK, ApartInv, HandInv, Identify, At
<1>2. CASE ~Has(Job(p).name)
  BY <1>1, <1>2, HandAborts DEF Identify, Fail, Publishing
<1>3. CASE Has(Job(p).name)
  <2>1. /\ run'[p] = [run[p] EXCEPT !.pc = "compare", !.held = dir[Job(p).name]]
        /\ UNCHANGED dir
    BY <1>3, WentTo DEF Identify
  <2>2. PICK r, s : r = run[p] /\ s = run'[p]
    OBVIOUS
  <2>3. /\ s.pc = "compare" /\ s.muts = r.muts /\ s.prev = r.prev /\ s.todo = r.todo
        /\ s.held = dir[Job(p).name] /\ s.conflicts = r.conflicts
    BY <1>1, <2>1, <2>2 DEF RunType
  <2>4. OursOK(p, s)'
    <3>1. OursOK(p, r) /\ r.pc = "identify" /\ r.pc \in Active /\ UNCHANGED dir
      BY <1>1, <2>1, <2>2 DEF Active, Publishing
    <3>2. QED
      BY <2>3, <3>1, OursKept
  <2>5. Job(p) \in run[p].todo /\ Job(p).kind \in {"replace", "delete"}
    BY <1>1, JobIn DEF TypeInv, ShapeOK, Working, Moving, Job
  <2>6. Job(p).name \in Docs \cup {Manifest}
    <3>1. JobsOK(run[p].todo)
      BY <1>1 DEF JobsApart
    <3>2. QED
      BY <2>5, <3>1 DEF JobsOK
  <2>7. Job(p).name = Manifest => r.prev \in Range(Rendering)
    <3>1. Manifest \notin Docs
      BY NamesAssumption
    <3>2. Job(p).name = Manifest => Job(p).kind = "replace"
      BY <1>1, <2>5, <3>1 DEF JobsApart, JobsOK
    <3>3. QED
      BY <1>1, <2>2, <2>5, <3>2 DEF OursOK
  <2>8. Is(Job(p).name, Old(r, Job(p).name)) /\ r.prev \in Range(Rendering) \cup {Unlisted}
    BY <1>1, <2>2 DEF HandOK, OursOK, Job
  <2>9. ~OfUser(s.held)
    BY <2>3, <2>6, <2>7, <2>8, OldOurs DEF Is, OfUser
  <2>10. ~Has(Tmp(p))'
    BY <1>1, <2>1 DEF HandOK, Has
  <2>11. HandOK(p, s)' /\ TakingOK(p, s)'
    BY <2>3, <2>9, <2>10 DEF HandOK, TakingOK
  <2>12. QED
    BY <2>2, <2>4, <2>11, HandAlone
<1>4. QED
  BY <1>2, <1>3

LEMMA HandCheck ==
  ASSUME Alone, TypeInv, ApartInv, HandInv, NEW p \in Projectors, Check(p)
  PROVE  HandInv'
<1>1. /\ run[p] \in RunType /\ ShapeOK(run[p]) /\ HandOK(p, run[p]) /\ OursOK(p, run[p])
      /\ run[p].pc = "check"
  BY DEF TypeInv, RunsOK, HandInv, Check, At
<1>2. CASE Fail(p)
  BY <1>1, <1>2, HandAborts DEF Fail, Publishing
<1>3. CASE Goto(p, NextJob(run[p])) /\ UNCHANGED dir
  <2>1. run'[p] = NextJob(run[p])
    BY <1>3, WentTo
  <2>2. PICK r, s : r = run[p] /\ s = run'[p]
    OBVIOUS
  <2>3. run[p].todo # {} /\ run[p].conflicts = 0
    BY <1>1 DEF ShapeOK, Working, Publishing
  <2>4. /\ Same(r, s) /\ s.muts = r.muts /\ s.todo \subseteq r.todo
        /\ s.pc \in {"recheck", "look", "check", "verify"}
    BY <1>1, <2>1, <2>2, <2>3, NextJobOK
  <2>5. OursOK(p, s)'
    BY <1>1, <1>3, <2>2, <2>4, OursKept DEF Active, Publishing, Same
  <2>6. HandOK(p, s)' /\ TakingOK(p, s)'
    BY <1>1, <1>3, <2>4, HandFree DEF HandOK, Writing, Has
  <2>7. QED
    BY <2>2, <2>5, <2>6, HandAlone
<1>4. QED
  BY <1>2, <1>3 DEF Check

LEMMA HandMove ==
  ASSUME Alone, TypeInv, ApartInv, HandInv, NEW p \in Projectors, Move(p)
  PROVE  HandInv'
<1>1. CASE Gives(p, "failure")
  BY <1>1, HandAborts DEF Gives
<1>2. CASE /\ Has(Job(p).name) /\ Job(p).name \in Names /\ Goto(p, AfterMove(p))
           /\ dir' = [dir EXCEPT ![Bak(p, Job(p).name)] = dir[Job(p).name],
                                 ![Job(p).name] = Nothing]
  <2>1. /\ run[p] \in RunType /\ ShapeOK(run[p]) /\ HandOK(p, run[p]) /\ OursOK(p, run[p])
        /\ run[p].pc = "move"
    BY DEF TypeInv, RunsOK, HandInv, Move, At
  <2>2. run'[p] = AfterMove(p)
    BY <1>2, WentTo
  <2>3. PICK n \in Names : n = Job(p).name
    BY <1>2
  <2>4. PICK r, s, m : r = run[p] /\ s = run'[p] /\ m = Moved(p)
    OBVIOUS
  <2>5. /\ s.muts = Append(r.muts, m) /\ Same(r, s) /\ s.todo \subseteq r.todo
        /\ s.pc \in {"recheck", "look", "check", "verify", "temp"}
        /\ s.pc = "temp" => s.todo = r.todo
    BY <2>1, <2>2, <2>3, <2>4, AfterMoveOK DEF TypeInv
  <2>6. m.name = n /\ m.was = r.held /\ m.now = Nothing /\ m.kind # "created" /\ m \in Mutation
    BY <2>1, <2>3, <2>4, AfterMoveOK DEF Moved, TypeInv
  <2>7. r.muts \in Seq(Mutation)
    BY <2>1, <2>3, <2>4 DEF RunType
  <2>8. /\ \A i \in DOMAIN s.muts : s.muts[i] = m \/ (i \in DOMAIN r.muts /\ s.muts[i] = r.muts[i])
        /\ \A i \in DOMAIN r.muts : i \in DOMAIN s.muts /\ s.muts[i] = r.muts[i]
        /\ \E i \in DOMAIN s.muts : s.muts[i] = m
    <3>1. /\ Len(r.muts) \in Nat /\ DOMAIN r.muts = 1 .. Len(r.muts)
          /\ DOMAIN s.muts = 1 .. Len(r.muts) + 1 /\ s.muts[Len(r.muts) + 1] = m
          /\ \A i \in 1 .. Len(r.muts) : s.muts[i] = r.muts[i]
      BY <2>5, <2>6, <2>7, AppendProperties, LenProperties
    <3>2. QED
      BY <3>1
  <2>9. /\ Bak(p, n) # n /\ Tmp(p) # n /\ Bak(p, n) # Tmp(p)
        /\ \A k \in Names : Bak(p, k) # n /\ (Bak(p, k) = Bak(p, n) => k = n) /\ k # Bak(p, n)
        /\ n \in AllNames /\ Bak(p, n) \in AllNames /\ Tmp(p) \in AllNames
    BY NamesApart
  <2>10. \A x \in AllNames :
           dir'[x] = IF x = n THEN Nothing ELSE IF x = Bak(p, n) THEN dir[n] ELSE dir[x]
    BY <1>2, <2>3, <2>4, <2>9 DEF TypeInv, DirOK
  <2>11. dir'[Tmp(p)] = dir[Tmp(p)]
    BY <2>9, <2>10
  <2>12. ~OfUser(r.held)
    BY <2>1, <2>3, <2>4 DEF HandOK
  <2>13. OursOK(p, s)'
    <3>1. ~OfUser(dir[Tmp(p)])'
      BY <2>1, <2>11 DEF OursOK, OfUser
    <3>2. \A i \in DOMAIN s.muts : ~OfUser(s.muts[i].was) /\ ~OfUser(s.muts[i].now)
      BY <2>1, <2>3, <2>4, <2>6, <2>8, <2>12 DEF OursOK, OfUser
    <3>3. s.prev \in Range(Rendering) \cup {Unlisted}
      BY <2>1, <2>3, <2>4, <2>5 DEF OursOK, Same
    <3>4. (\E j \in s.todo : j.kind = "replace" /\ j.name = Manifest) => s.prev \in Range(Rendering)
      BY <2>1, <2>3, <2>4, <2>5 DEF OursOK, Same
    <3>5. \A x \in {Manifest, Bak(p, Manifest)} :
            Has(x)' => dir'[x].content \in Range(Rendering) \cup {UserText}
      <4>1. Manifest \in Names /\ Manifest \in AllNames /\ Bak(p, Manifest) \in AllNames
        BY NamesApart DEF Names
      <4>2. dir'[Manifest] \in {dir[Manifest], Nothing}
        BY <2>9, <2>10, <4>1
      <4>3. dir'[Bak(p, Manifest)] \in {dir[Bak(p, Manifest)], dir[Manifest]}
        BY <2>9, <2>10, <4>1
      <4>4. QED
        BY <2>1, <4>2, <4>3 DEF OursOK, Has
    <3>6. \A k \in Names : ~Aside(s.muts, k) => ~Has(Bak(p, k))'
      <4>1. SUFFICES ASSUME NEW k \in Names, ~Aside(s.muts, k) PROVE ~Has(Bak(p, k))'
        OBVIOUS
      <4>2. k # n
        BY <2>6, <2>8, <4>1 DEF Aside
      <4>3. ~Aside(r.muts, k)
        BY <2>8, <4>1 DEF Aside
      <4>4. r.pc \in Active /\ r.conflicts = 0
        BY <2>1, <2>3, <2>4 DEF ShapeOK, Active, Publishing
      <4>5. dir'[Bak(p, k)] = dir[Bak(p, k)]
        BY <2>9, <2>10, <4>2, NamesApart
      <4>6. QED
        BY <2>1, <2>3, <2>4, <4>3, <4>4, <4>5 DEF OursOK, Has
    <3>7. QED
      BY <3>1, <3>2, <3>3, <3>4, <3>5, <3>6 DEF OursOK
  <2>14. ~Has(Tmp(p))'
    BY <2>1, <2>11 DEF HandOK, Has
  <2>15. HandOK(p, s)' /\ TakingOK(p, s)'
    <3>1. CASE s.pc = "temp"
      <4>1. First(s.todo).name = n
        BY <2>3, <2>4, <2>5, <3>1 DEF Job
      <4>2. dir'[n] = Nothing
        BY <2>9, <2>10
      <4>3. QED
        BY <2>14, <3>1, <4>1, <4>2 DEF HandOK, TakingOK, Has
    <3>2. CASE s.pc # "temp"
      BY <2>5, <2>14, <3>2, HandFree DEF Writing
    <3>3. QED
      BY <3>1, <3>2
  <2>16. QED
    BY <2>3, <2>4, <2>13, <2>15, HandAlone
<1>3. QED
  BY <1>1, <1>2, MoveCases

LEMMA HandTemp ==
  ASSUME Alone, TypeInv, HandInv, NEW p \in Projectors, Temp(p)
  PROVE  HandInv'
<1>1. /\ run[p] \in RunType /\ ShapeOK(run[p]) /\ HandOK(p, run[p]) /\ OursOK(p, run[p])
      /\ run[p].pc = "temp" /\ run[p].conflicts = 0 /\ Job(p).name \in Names
      /\ run[p].snap \in Revisions
  BY WritingType DEF TypeInv, RunsOK, RunType, HandInv, Temp, At, Writing
<1>2. run'[p] = [run[p] EXCEPT !.pc = "rename"]
  BY WentTo DEF Temp
<1>3. PICK n \in Names : n = Job(p).name
  BY <1>1
<1>4. PICK r, s : r = run[p] /\ s = run'[p]
  OBVIOUS
<1>5. /\ s.pc = "rename" /\ s.muts = r.muts /\ s.prev = r.prev /\ s.todo = r.todo
      /\ s.snap = r.snap /\ s.conflicts = r.conflicts
  BY <1>1, <1>2, <1>4 DEF RunType
<1>6. PICK f : f = [inode |-> FreshInode, content |-> Desired(r.snap, n)]
  OBVIOUS
<1>7. f \in File
  BY <1>1, <1>4, <1>6, FreshIn, DesiredType DEF File, TypeInv, DirOK
<1>8. f # Nothing /\ f.content = Desired(r.snap, n)
  BY <1>6, <1>7, NothingAssumption
<1>9. Tmp(p) \in AllNames /\ n \in AllNames /\ Tmp(p) # n
  BY NamesApart
<1>10. \A x \in AllNames : dir'[x] = IF x = Tmp(p) THEN f ELSE dir[x]
  BY <1>3, <1>4, <1>6, <1>9 DEF Temp, TypeInv, DirOK, Payload
<1>11. Manifest \in Names
  BY DEF Names
<1>12. \A k \in Names : dir'[k] = dir[k] /\ dir'[Bak(p, k)] = dir[Bak(p, k)]
  BY <1>10, NamesApart
<1>13. HandOK(p, s)' /\ TakingOK(p, s)'
  <2>1. First(s.todo).name = n /\ ~Has(n)
    BY <1>1, <1>3, <1>4, <1>5 DEF HandOK, Job
  <2>2. Is(Tmp(p), Desired(s.snap, n))' /\ ~Has(n)'
    BY <1>5, <1>8, <1>9, <1>10, <1>12, <2>1 DEF Is, Has
  <2>3. QED
    BY <1>5, <2>1, <2>2 DEF HandOK, TakingOK
<1>14. OursOK(p, s)'
  <2>1. ~OfUser(dir[Tmp(p)])'
    BY <1>1, <1>4, <1>8, <1>9, <1>10, DesiredOurs DEF OfUser
  <2>2. \A x \in {Manifest, Bak(p, Manifest)} :
          Has(x)' => dir'[x].content \in Range(Rendering) \cup {UserText}
    BY <1>1, <1>11, <1>12 DEF OursOK, Has
  <2>3. \A k \in Names : ~Aside(s.muts, k) => ~Has(Bak(p, k))'
    BY <1>1, <1>4, <1>5, <1>12 DEF OursOK, Has, Active, Publishing
  <2>4. QED
    BY <1>1, <1>4, <1>5, <2>1, <2>2, <2>3 DEF OursOK
<1>15. QED
  BY <1>4, <1>13, <1>14, HandAlone

LEMMA HandRename ==
  ASSUME Alone, TypeInv, HandInv, NEW p \in Projectors, Rename(p)
  PROVE  HandInv'
<1>1. /\ run[p] \in RunType /\ ShapeOK(run[p]) /\ HandOK(p, run[p]) /\ OursOK(p, run[p])
      /\ run[p].pc = "rename" /\ run[p].conflicts = 0 /\ Job(p).name \in Names
      /\ run[p].snap \in Revisions
  BY WritingType DEF TypeInv, RunsOK, RunType, HandInv, Rename, At, Writing
<1>2. run'[p] = [run[p] EXCEPT !.pc = "record"]
  BY WentTo DEF Rename
<1>3. PICK n \in Names : n = Job(p).name
  BY <1>1
<1>4. PICK r, s : r = run[p] /\ s = run'[p]
  OBVIOUS
<1>5. /\ s.pc = "record" /\ s.muts = r.muts /\ s.prev = r.prev /\ s.todo = r.todo
      /\ s.snap = r.snap /\ s.conflicts = r.conflicts
  BY <1>1, <1>2, <1>4 DEF RunType
<1>6. Is(Tmp(p), Desired(r.snap, n))
  BY <1>1, <1>3, <1>4 DEF HandOK, Job
<1>7. Tmp(p) \in AllNames /\ n \in AllNames /\ Tmp(p) # n
  BY NamesApart
<1>8. \A x \in AllNames :
        dir'[x] = IF x = Tmp(p) THEN Nothing ELSE IF x = n THEN dir[Tmp(p)] ELSE dir[x]
  BY <1>3, <1>7 DEF Rename, TypeInv, DirOK
<1>9. Manifest \in Names
  BY DEF Names
<1>10. \A k \in Names : dir'[k] = (IF k = n THEN dir[Tmp(p)] ELSE dir[k]) /\ dir'[Bak(p, k)] = dir[Bak(p, k)]
  BY <1>8, NamesApart
<1>11. ~Has(Tmp(p))'
  BY <1>7, <1>8 DEF Has
<1>12. HandOK(p, s)' /\ TakingOK(p, s)'
  <2>1. First(s.todo).name = n
    BY <1>3, <1>4, <1>5 DEF Job
  <2>2. Is(n, Desired(s.snap, n))'
    BY <1>5, <1>6, <1>10 DEF Is, Has
  <2>3. QED
    BY <1>5, <1>11, <2>1, <2>2 DEF HandOK, TakingOK
<1>13. OursOK(p, s)'
  <2>1. ~OfUser(dir[Tmp(p)])'
    BY <1>11 DEF OfUser, Has
  <2>2. \A x \in {Manifest, Bak(p, Manifest)} :
          Has(x)' => dir'[x].content \in Range(Rendering) \cup {UserText}
    <3>1. n = Manifest => Desired(r.snap, n) \in Range(Rendering)
      BY <1>1, <1>4, DesiredOurs
    <3>2. QED
      BY <1>1, <1>6, <1>9, <1>10, <3>1 DEF OursOK, Has, Is
  <2>3. \A k \in Names : ~Aside(s.muts, k) => ~Has(Bak(p, k))'
    BY <1>1, <1>4, <1>5, <1>10 DEF OursOK, Has, Active, Publishing
  <2>4. QED
    BY <1>1, <1>4, <1>5, <2>1, <2>2, <2>3 DEF OursOK
<1>14. QED
  BY <1>4, <1>12, <1>13, HandAlone

LEMMA HandRecord ==
  ASSUME Alone, TypeInv, ApartInv, HandInv, NEW p \in Projectors, Record(p)
  PROVE  HandInv'
<1>1. CASE Gives(p, "failure")
  BY <1>1, HandAborts DEF Gives
<1>2. CASE Goto(p, AfterRecord(p)) /\ UNCHANGED dir
  <2>1. /\ run[p] \in RunType /\ ShapeOK(run[p]) /\ HandOK(p, run[p]) /\ OursOK(p, run[p])
        /\ run[p].pc = "record" /\ run[p].conflicts = 0 /\ Job(p).name \in Names
        /\ run[p].snap \in Revisions
    BY WritingType DEF TypeInv, RunsOK, RunType, HandInv, Record, At, Writing
  <2>2. run'[p] = AfterRecord(p)
    BY <1>2, WentTo
  <2>3. PICK r, s : r = run[p] /\ s = run'[p]
    OBVIOUS
  <2>4. /\ s.muts = Published(p) /\ Same(r, s) /\ s.todo \subseteq r.todo
        /\ s.pc \in {"recheck", "look", "check", "verify"}
    BY <2>1, <2>2, <2>3, AfterRecordOK
  <2>5. ~OfUser(dir[Job(p).name])
    <3>1. Is(Job(p).name, Desired(run[p].snap, Job(p).name))
      BY <2>1 DEF HandOK, Job
    <3>2. QED
      BY <2>1, <3>1, DesiredOurs DEF Is, OfUser
  <2>6. \A i \in DOMAIN s.muts : ~OfUser(s.muts[i].was) /\ ~OfUser(s.muts[i].now)
    BY <2>1, <2>3, <2>4, <2>5, PublishedTells DEF OursOK, OfUser, Writing
  <2>7. \A k \in Names : Aside(r.muts, k) => Aside(s.muts, k)
    BY <2>1, <2>3, <2>4, PublishedTells DEF Aside, Writing
  <2>8. OursOK(p, s)'
    <3>1. /\ ~OfUser(dir[Tmp(p)])'
          /\ \A x \in {Manifest, Bak(p, Manifest)} :
               Has(x)' => dir'[x].content \in Range(Rendering) \cup {UserText}
      BY <1>2, <2>1 DEF OursOK, OfUser, Has
    <3>2. \A k \in Names : ~Aside(s.muts, k) => ~Has(Bak(p, k))'
      BY <1>2, <2>1, <2>3, <2>7 DEF OursOK, Has, Active, Publishing
    <3>3. s.prev \in Range(Rendering) \cup {Unlisted}
      BY <2>1, <2>3, <2>4 DEF OursOK, Same
    <3>4. (\E j \in s.todo : j.kind = "replace" /\ j.name = Manifest) => s.prev \in Range(Rendering)
      BY <2>1, <2>3, <2>4 DEF OursOK, Same
    <3>5. QED
      BY <2>6, <3>1, <3>2, <3>3, <3>4 DEF OursOK
  <2>9. HandOK(p, s)' /\ TakingOK(p, s)'
    BY <1>2, <2>1, <2>4, HandFree DEF HandOK, Writing, Has
  <2>10. QED
    BY <2>3, <2>8, <2>9, HandAlone
<1>3. QED
  BY <1>1, <1>2, RecordCases

LEMMA HandCommit ==
  ASSUME Alone, TypeInv, ApartInv, HandInv, NEW p \in Projectors, Commit(p)
  PROVE  HandInv'
<1>1. /\ run[p] \in RunType /\ ShapeOK(run[p]) /\ HandOK(p, run[p]) /\ OursOK(p, run[p])
      /\ run[p].pc = "commit"
  BY DEF TypeInv, RunsOK, HandInv, Commit, At
<1> DEFINE own == {m \in {x \in Range(run[p].muts) : x.kind # "created"} :
                     dir[Bak(p, m.name)] = m.was}
<1>2. PICK c, d : /\ run'[p] = [run[p] EXCEPT !.pc = "unlink", !.conflicts = c, !.drop = d]
                  /\ d = {Bak(p, m.name) : m \in own}
  BY WentTo DEF Commit
<1>3. PICK r, s : r = run[p] /\ s = run'[p]
  OBVIOUS
<1>4. /\ s.pc = "unlink" /\ s.muts = r.muts /\ s.prev = r.prev /\ s.todo = r.todo /\ s.drop = d
  BY <1>1, <1>2, <1>3 DEF RunType
<1>5. \A m \in Range(run[p].muts) : ~OfUser(m.was)
  BY <1>1 DEF OursOK, Range
<1>6. \A x \in d : ~OfUser(dir[x])
  BY <1>2, <1>5
<1>7. UNCHANGED dir
  BY DEF Commit
<1>8. OursOK(p, s)'
  BY <1>1, <1>3, <1>4, <1>7, OursKept DEF Active, Publishing
<1>9. HandOK(p, s)' /\ TakingOK(p, s)'
  BY <1>1, <1>4, <1>6, <1>7 DEF HandOK, TakingOK, Has, OfUser
<1>10. QED
  BY <1>3, <1>8, <1>9, HandAlone

LEMMA HandUnlink ==
  ASSUME Alone, TypeInv, HandInv, NEW p \in Projectors, Unlink(p)
  PROVE  HandInv'
<1>1. run[p] \in RunType
  BY DEF TypeInv, RunsOK
<1>2. PICK S \in SUBSET {n \in run[p].drop : Has(n)} :
        /\ dir' = [n \in AllNames |-> IF n \in S THEN Nothing ELSE dir[n]]
        /\ Goto(p, Report([run[p] EXCEPT !.conflicts = @ + Cardinality(run[p].drop \ S)], "ok"))
  BY DEF Unlink
<1>3. PICK s : s = run'[p]
  OBVIOUS
<1>4. s = Report([run[p] EXCEPT !.conflicts = @ + Cardinality(run[p].drop \ S)], "ok")
  BY <1>2, <1>3, WentTo
<1>5. s.pc = "done" /\ s.muts = <<>> /\ s.todo = {}
  BY <1>4 DEF Report, Idle
<1>6. QED
  BY <1>2, <1>3, <1>5, HandEnds

LEMMA HandUndo ==
  ASSUME Alone, TypeInv, ApartInv, HandInv, NEW p \in Projectors, Undo(p)
  PROVE  HandInv'
<1>1. /\ run[p] \in RunType /\ HandOK(p, run[p]) /\ OursOK(p, run[p])
      /\ run[p].pc = "undo" /\ run[p].muts # <<>>
  BY UndoCases DEF TypeInv, RunsOK, HandInv
<1>2. PICK o \in BOOLEAN, b \in BOOLEAN :
         /\ (o => Ours(Newest(p))) /\ (b => Backed(p, Newest(p)))
         /\ Goto(p, Decided(p, o, b))
  BY UndoCases
<1>3. run'[p] = Decided(p, o, b) /\ UNCHANGED <<dir, missed>>
  BY <1>2, WentTo, UndoCases
<1>4. PICK r, s, m : r = run[p] /\ s = run'[p] /\ m = Newest(p)
  OBVIOUS
<1>5. /\ s.pc = "undoing" /\ s.muts = r.muts /\ s.todo = {} /\ s.prev = r.prev
      /\ s.conflicts >= r.conflicts /\ s.conflicts \in Nat /\ r.conflicts \in Nat
      /\ s.act = IF m.kind = "created" THEN (IF o THEN "unlink" ELSE "none")
                 ELSE IF ~b THEN "none"
                 ELSE IF o \/ ~Has(m.name) THEN "restore" ELSE "drop"
      /\ s.conflicts = r.conflicts => (m.kind # "created" => b)
  BY <1>1, <1>3, <1>4, UndoneOK DEF TypeInv, RunType
<1>6. m = s.muts[Len(s.muts)]
  BY <1>1, <1>4, <1>5, NewestIn DEF TypeInv
<1>7. s.conflicts = 0 => r.conflicts = 0
  BY <1>5
<1>8. OursOK(p, s)'
  BY <1>1, <1>3, <1>4, <1>5, <1>7, OursKept DEF Active
<1>9. TakingOK(p, s)'
  <2>1. s.act = "unlink" => m.kind = "created" /\ m.now # Nothing /\ dir[m.name] = m.now
    BY <1>2, <1>4, <1>5 DEF Ours
  <2>2. s.act = "restore" => dir[m.name] \in {Nothing, m.now}
    BY <1>2, <1>4, <1>5 DEF Ours, Has
  <2>3. s.act \in {"restore", "drop"} => m.kind # "created" /\ dir[Bak(p, m.name)] = m.was
    BY <1>2, <1>4, <1>5 DEF Backed
  <2>4. s.act = "none" /\ s.conflicts = 0 => m.kind = "created"
    BY <1>5, <1>7
  <2>5. QED
    BY <1>3, <1>6, <2>1, <2>2, <2>3, <2>4 DEF TakingOK
<1>10. HandOK(p, s)'
  BY <1>1, <1>3, <1>4, <1>5 DEF HandOK, Has
<1>11. QED
  BY <1>4, <1>8, <1>9, <1>10, HandAlone

\* The run r takes back its newest mutation m, or fails to, and goes on as s.
Takes(p, r, s, m) ==
  /\ r.pc = "undoing" /\ m = r.muts[Len(r.muts)]
  /\ s.pc = "undo" /\ s.todo = {} /\ s.prev = r.prev
  /\ s.conflicts = 0 => r.conflicts = 0
  /\ \A i \in DOMAIN s.muts : i \in DOMAIN r.muts /\ s.muts[i] = r.muts[i] /\ i # Len(r.muts)
  /\ \A i \in DOMAIN r.muts : i = Len(r.muts) \/ (i \in DOMAIN s.muts /\ s.muts[i] = r.muts[i])
  /\ Len(r.muts) \in DOMAIN r.muts
  /\ \/ UNCHANGED dir /\ (s.conflicts = 0 => r.act = "none")
     \/ /\ r.act = "unlink" /\ dir[m.name] = m.now /\ m.kind = "created"
        /\ dir' = [dir EXCEPT ![m.name] = Nothing]
     \/ /\ r.act = "drop" /\ dir[Bak(p, m.name)] = m.was
        /\ dir' = [dir EXCEPT ![Bak(p, m.name)] = Nothing]
     \/ /\ r.act = "restore" /\ dir[Bak(p, m.name)] = m.was
        /\ dir[m.name] \in {Nothing, m.now}
        /\ dir' = [dir EXCEPT ![m.name] = m.was, ![Bak(p, m.name)] = Nothing]

LEMMA TakenTells ==
  ASSUME TypeInv, HandInv, NEW p \in Projectors, Undoing(p)
  PROVE  \E r \in RunType, s \in RunType, m \in Mutation :
           r = run[p] /\ s = run'[p] /\ Takes(p, r, s, m)
<1>1. /\ run[p] \in RunType /\ ShapeOK(run[p]) /\ run[p].pc = "undoing" /\ TakingOK(p, run[p])
  BY UndoingCases DEF TypeInv, HandInv
<1>2. PICK c \in Nat :
        /\ c \in {run[p].conflicts, run[p].conflicts + 1}
        /\ Goto(p, [Rest(run[p]) EXCEPT !.conflicts = c])
        /\ \/ dir' = dir /\ (c = run[p].conflicts => run[p].act = "none")
           \/ /\ run[p].act # "none" /\ c = run[p].conflicts
              /\ dir' = TakenBack(p, Newest(p))
  BY UndoingCases DEF TypeInv
<1>3. run'[p] = [Rest(run[p]) EXCEPT !.conflicts = c]
  BY <1>2, WentTo
<1>4. PICK r : r = run[p]
  OBVIOUS
<1>5. PICK s : s = [Rest(r) EXCEPT !.conflicts = c]
  OBVIOUS
<1>6. r \in RunType /\ ShapeOK(r) /\ r.pc = "undoing"
  BY <1>1, <1>4
<1>7. /\ s \in RunType /\ ShapeOK(s) /\ s.pc = "undo" /\ s.conflicts = c
      /\ Len(r.muts) \in Nat \ {0} /\ Len(s.muts) = Len(r.muts) - 1
      /\ r.muts[Len(r.muts)] \in Mutation
      /\ \A i \in 1 .. Len(s.muts) : s.muts[i] = r.muts[i]
  BY <1>5, <1>6, RestOK
<1>8. s.prev = r.prev
  BY <1>5, <1>6 DEF Rest, RunType
<1>9. s.todo = {}
  BY <1>7 DEF ShapeOK, Working, Moving, Writing
<1>10. DOMAIN r.muts = 1 .. Len(r.muts) /\ DOMAIN s.muts = 1 .. Len(s.muts)
  BY <1>6, <1>7, LenProperties DEF RunType
<1>11. PICK m \in Mutation : m = r.muts[Len(r.muts)]
  BY <1>7
<1>12. m = Newest(p)
  BY <1>4, <1>6, <1>11, NewestIn DEF TypeInv, ShapeOK
<1>13. /\ \A i \in DOMAIN s.muts : i \in DOMAIN r.muts /\ s.muts[i] = r.muts[i] /\ i # Len(r.muts)
       /\ \A i \in DOMAIN r.muts : i = Len(r.muts) \/ (i \in DOMAIN s.muts /\ s.muts[i] = r.muts[i])
       /\ Len(r.muts) \in DOMAIN r.muts
  BY <1>7, <1>10
<1>14. r.conflicts \in Nat /\ (c = 0 => r.conflicts = 0 /\ c = r.conflicts)
  BY <1>2, <1>4, <1>6 DEF RunType
<1>15. \/ UNCHANGED dir /\ (c = 0 => r.act = "none")
       \/ /\ r.act = "unlink" /\ dir[m.name] = m.now /\ m.kind = "created"
          /\ dir' = [dir EXCEPT ![m.name] = Nothing]
       \/ /\ r.act = "drop" /\ dir[Bak(p, m.name)] = m.was
          /\ dir' = [dir EXCEPT ![Bak(p, m.name)] = Nothing]
       \/ /\ r.act = "restore" /\ dir[Bak(p, m.name)] = m.was
          /\ dir[m.name] \in {Nothing, m.now}
          /\ dir' = [dir EXCEPT ![m.name] = m.was, ![Bak(p, m.name)] = Nothing]
  <2>1. CASE dir' = dir /\ (c = run[p].conflicts => run[p].act = "none")
    BY <1>4, <1>14, <2>1
  <2>2. CASE r.act # "none" /\ dir' = TakenBack(p, m)
    <3>1. r.act \in {"unlink", "drop", "restore"}
      BY <1>6, <2>2 DEF RunType
    <3>2. TakingOK(p, r)
      BY <1>1, <1>4
    <3>3. CASE r.act = "unlink"
      BY <1>4, <1>6, <1>11, <2>2, <3>2, <3>3 DEF TakenBack, TakingOK
    <3>4. CASE r.act = "drop"
      BY <1>4, <1>6, <1>11, <2>2, <3>2, <3>4 DEF TakenBack, TakingOK
    <3>5. CASE r.act = "restore"
      BY <1>4, <1>6, <1>11, <2>2, <3>2, <3>5 DEF TakenBack, TakingOK
    <3>6. QED
      BY <3>1, <3>3, <3>4, <3>5
  <2>3. QED
    BY <1>2, <1>4, <1>12, <2>1, <2>2
<1>16. s = run'[p]
  BY <1>3, <1>4, <1>5
<1>17. s.conflicts = c
  BY <1>7
<1>18. Takes(p, r, s, m)
  BY <1>6, <1>7, <1>8, <1>9, <1>11, <1>13, <1>14, <1>15, <1>17 DEF Takes
<1>19. QED
  BY <1>4, <1>6, <1>7, <1>16, <1>18

LEMMA HandUndoing ==
  ASSUME Alone, TypeInv, ApartInv, HandInv, NEW p \in Projectors, Undoing(p)
  PROVE  HandInv'
<1>1. PICK r \in RunType, s \in RunType, m \in Mutation :
        r = run[p] /\ s = run'[p] /\ Takes(p, r, s, m)
  BY TakenTells
<1>2. HandOK(p, r) /\ TakingOK(p, r) /\ OursOK(p, r) /\ r.pc = "undoing" /\ s.pc = "undo"
  BY <1>1 DEF HandInv, Takes
<1>3. PICK n \in Names : n = m.name
  BY DEF Mutation
<1>4. /\ n \in AllNames /\ Bak(p, n) \in AllNames /\ Tmp(p) \in AllNames
      /\ Bak(p, n) # n /\ Tmp(p) # n /\ Bak(p, n) # Tmp(p)
      /\ \A k \in Names : k \in AllNames /\ Bak(p, k) \in AllNames /\ k # Bak(p, n) /\ Bak(p, k) # n
                          /\ (Bak(p, k) = Bak(p, n) => k = n)
  BY NamesApart
<1>5. \/ UNCHANGED dir /\ (s.conflicts = 0 => m.kind = "created")
      \/ m.kind = "created" /\ dir' = [dir EXCEPT ![n] = Nothing]
      \/ dir' = [dir EXCEPT ![Bak(p, n)] = Nothing]
      \/ m.was = dir[Bak(p, n)] /\ dir' = [dir EXCEPT ![n] = m.was, ![Bak(p, n)] = Nothing]
  BY <1>1, <1>2, <1>3 DEF Takes, TakingOK
<1>6. \/ (\A x \in AllNames : dir'[x] = dir[x]) /\ (s.conflicts = 0 => m.kind = "created")
      \/ m.kind = "created" /\ \A x \in AllNames : dir'[x] = IF x = n THEN Nothing ELSE dir[x]
      \/ \A x \in AllNames : dir'[x] = IF x = Bak(p, n) THEN Nothing ELSE dir[x]
      \/ \A x \in AllNames : dir'[x] = IF x = Bak(p, n) THEN Nothing
                                       ELSE IF x = n THEN dir[Bak(p, n)] ELSE dir[x]
  BY <1>4, <1>5 DEF TypeInv, DirOK
<1>7. Manifest \in Names
  BY DEF Names
<1>8. dir'[Tmp(p)] = dir[Tmp(p)]
  BY <1>4, <1>6
<1>9. \A x \in {Manifest, Bak(p, Manifest)} :
        Has(x)' => dir'[x].content \in Range(Rendering) \cup {UserText}
  <2>1. dir'[Manifest] \in {dir[Manifest], Nothing, dir[Bak(p, Manifest)]}
    BY <1>4, <1>6, <1>7
  <2>2. dir'[Bak(p, Manifest)] \in {dir[Bak(p, Manifest)], Nothing}
    BY <1>4, <1>6, <1>7
  <2>3. QED
    BY <1>2, <2>1, <2>2 DEF OursOK, Has
<1>10. ASSUME s.conflicts = 0, NEW k \in Names, ~Aside(s.muts, k)
       PROVE  ~Has(Bak(p, k))'
  <2>1. r.pc \in Active /\ r.conflicts = 0
    BY <1>1, <1>2, <1>10 DEF Active, Takes
  <2>2. k # n \/ m.kind = "created" => ~Aside(r.muts, k)
    <3>1. m = r.muts[Len(r.muts)]
      BY <1>1 DEF Takes
    <3>2. \A i \in DOMAIN r.muts : i = Len(r.muts) \/ (i \in DOMAIN s.muts /\ s.muts[i] = r.muts[i])
      BY <1>1 DEF Takes
    <3>3. ASSUME NEW i \in DOMAIN r.muts, r.muts[i].name = k, r.muts[i].kind # "created"
          PROVE  i = Len(r.muts)
      BY <1>10, <3>2, <3>3 DEF Aside
    <3>4. QED
      BY <1>3, <3>1, <3>3 DEF Aside
  <2>3. k # n \/ m.kind = "created" => ~Has(Bak(p, k))
    BY <1>2, <2>1, <2>2 DEF OursOK
  <2>4. CASE k = n
    <3>1. m.kind = "created" \/ dir'[Bak(p, n)] = Nothing
      BY <1>4, <1>6, <1>10
    <3>2. m.kind = "created" => dir'[Bak(p, n)] \in {dir[Bak(p, n)], Nothing}
      BY <1>4, <1>6
    <3>3. QED
      BY <2>3, <2>4, <3>1, <3>2 DEF Has
  <2>5. CASE k # n
    <3>1. dir'[Bak(p, k)] = dir[Bak(p, k)]
      BY <1>4, <1>6, <2>5
    <3>2. QED
      BY <2>3, <2>5, <3>1 DEF Has
  <2>6. QED
    BY <2>4, <2>5
<1>11. OursOK(p, s)'
  <2>1. ~OfUser(dir[Tmp(p)])'
    BY <1>2, <1>8 DEF OursOK, OfUser
  <2>2. \A i \in DOMAIN s.muts : ~OfUser(s.muts[i].was) /\ ~OfUser(s.muts[i].now)
    BY <1>1, <1>2 DEF OursOK, Takes
  <2>3. s.prev \in Range(Rendering) \cup {Unlisted} /\ s.todo = {}
    BY <1>1, <1>2 DEF OursOK, Takes
  <2>4. QED
    BY <1>9, <1>10, <2>1, <2>2, <2>3 DEF OursOK
<1>12. HandOK(p, s)' /\ TakingOK(p, s)'
  <2>1. UNCHANGED missed
    BY UndoingCases DEF TypeInv
  <2>2. QED
    BY <1>2, <1>8, <2>1, HandFree DEF HandOK, Writing, Has
<1>13. QED
  BY <1>1, <1>11, <1>12, HandAlone

\* The user leaves the file of the mutation alone that is being taken back.
LEMMA UserSpares ==
  ASSUME ~UserRaces, TypeInv, NEW p \in Projectors, NEW u \in UserNames, User(u),
         NEW r, r = run[p], r.pc = "undoing"
  PROVE  LET m == r.muts[Len(r.muts)] IN
         dir'[m.name] = dir[m.name] /\ dir'[Bak(p, m.name)] = dir[Bak(p, m.name)]
<1>1. ~InWindow(p, u) /\ ShapeOK(r)
  BY DEF User, TypeInv, RunsOK
<1>2. \A x \in AllNames : x # u => dir'[x] = dir[x]
  BY UserNamesIn DEF User, TypeInv, DirOK
<1>3. Newest(p) \in Mutation /\ Newest(p) = r.muts[Len(r.muts)]
  BY <1>1, NewestIn DEF TypeInv, ShapeOK
<1>4. PICK n \in Names : n = Newest(p).name
  BY <1>3 DEF Mutation
<1>5. n # u /\ Bak(p, n) # u
  BY <1>1, <1>4 DEF InWindow, At
<1>6. n \in AllNames /\ Bak(p, n) \in AllNames
  BY NamesApart
<1>7. QED
  BY <1>2, <1>3, <1>4, <1>5, <1>6

LEMMA HandUser ==
  ASSUME Alone, ~UserRaces, TypeInv, ApartInv, HandInv, NEW u \in UserNames, User(u)
  PROVE  HandInv'
<1> SUFFICES ASSUME NEW p \in Projectors
             PROVE  HandOK(p, run[p])' /\ TakingOK(p, run[p])' /\ OursOK(p, run[p])'
  BY DEF HandInv
<1>1. PICK r \in RunType : r = run[p]
  BY DEF TypeInv, RunsOK
<1>2. r = run'[p] /\ ~InWindow(p, u) /\ UNCHANGED missed
  BY <1>1 DEF User
<1>3. HandOK(p, r) /\ TakingOK(p, r) /\ OursOK(p, r) /\ ShapeOK(r)
  BY <1>1 DEF HandInv, TypeInv, RunsOK
<1>4. u \in AllNames
  BY UserNamesIn
<1>5. \A x \in AllNames : x # u => dir'[x] = dir[x]
  BY <1>4 DEF User, TypeInv, DirOK
<1>6. dir'[u] # Nothing => dir'[u].content = UserText /\ (u \in Names \/ Has(u))
  BY <1>4 DEF User, TypeInv, DirOK, Has, File
<1>7. u # Tmp(p)
  <2>1. Docs \subseteq Names /\ Manifest \in Names
    BY DEF Names
  <2>2. \A q \in Projectors : q = p
    BY DEF Alone
  <2>3. Tmp(p) \notin Names /\ \A d \in Docs : Bak(p, d) # Tmp(p)
    BY <2>1, NamesApart
  <2>4. QED
    BY <2>1, <2>2, <2>3 DEF UserNames
<1>8. Tmp(p) \in AllNames /\ dir'[Tmp(p)] = dir[Tmp(p)]
  BY <1>5, <1>7 DEF AllNames, OwnNames
<1>9. r.todo # {} => First(r.todo).name \in Names /\ First(r.todo).name = Job(p).name
  BY <1>1, JobIn DEF TypeInv, Job
<1>10. r.pc \in {"identify", "temp", "rename", "record"} =>
         dir'[First(r.todo).name] = dir[First(r.todo).name]
  <2>1. SUFFICES ASSUME r.pc \in {"identify", "temp", "rename", "record"}
                 PROVE  dir'[First(r.todo).name] = dir[First(r.todo).name]
    OBVIOUS
  <2>2. r.todo # {}
    BY <1>3, <2>1 DEF ShapeOK, Working, Moving, Writing
  <2>3. First(r.todo).name # u
    BY <1>1, <1>2, <1>9, <2>1, <2>2 DEF InWindow
  <2>4. First(r.todo).name \in AllNames
    BY <1>9, <2>2, NamesApart
  <2>5. QED
    BY <1>5, <2>3, <2>4
<1>11. r.pc = "undoing" =>
         LET m == r.muts[Len(r.muts)] IN
         dir'[m.name] = dir[m.name] /\ dir'[Bak(p, m.name)] = dir[Bak(p, m.name)]
  BY <1>1, UserSpares
<1>12. r.pc = "unlink" => \A x \in r.drop : dir'[x] = dir[x]
  <2>1. r.drop \subseteq AllNames
    BY <1>1 DEF RunType
  <2>2. QED
    BY <1>1, <1>2, <1>5, <2>1 DEF InWindow, At
<1>13. HandOK(p, r)'
  BY <1>2, <1>3, <1>8, <1>10, <1>12 DEF HandOK, Has, Is, OfUser
<1>14. TakingOK(p, r)'
  BY <1>3, <1>11 DEF TakingOK
<1>15. OursOK(p, r)'
  <2>1. Manifest \in Names
    BY DEF Names
  <2>2. \A x \in {Manifest, Bak(p, Manifest)} :
          Has(x)' => dir'[x].content \in Range(Rendering) \cup {UserText}
    BY <1>3, <1>5, <1>6, <2>1, NamesApart DEF OursOK, Has
  <2>3. \A n \in Names : ~Has(Bak(p, n)) => ~Has(Bak(p, n))'
    <3>1. SUFFICES ASSUME NEW n \in Names, ~Has(Bak(p, n)) PROVE ~Has(Bak(p, n))'
      OBVIOUS
    <3>2. Bak(p, n) \notin Names /\ Bak(p, n) \in AllNames
      BY NamesApart
    <3>3. QED
      BY <1>5, <1>6, <3>1, <3>2 DEF Has
  <2>4. QED
    BY <1>3, <1>8, <2>2, <2>3 DEF OursOK, OfUser
<1>16. QED
  BY <1>1, <1>2, <1>13, <1>14, <1>15

LEMMA HandNext ==
  ASSUME Alone, ~UserRaces
  PROVE  TypeInv /\ ApartInv /\ HandInv /\ [Next]_vars => HandInv'
<1> SUFFICES ASSUME TypeInv, ApartInv, HandInv, [Next]_vars PROVE HandInv'
  OBVIOUS
<1>1. ASSUME NEW p \in Projectors, Unwound(p) \/ Die(p) PROVE HandInv'
  <2>1. run[p] \in RunType
    BY DEF TypeInv, RunsOK
  <2>2. PICK s : s = run'[p]
    OBVIOUS
  <2>3. CASE Unwound(p)
    <3>1. s = Report(run[p], run[p].status) /\ UNCHANGED dir
      BY <2>2, <2>3, WentTo DEF Unwound
    <3>2. s.pc = "done" /\ s.muts = <<>> /\ s.todo = {}
      BY <2>1, <3>1, ReportIs
    <3>3. QED
      BY <2>2, <3>1, <3>2, HandEnds
  <2>4. CASE Die(p)
    <3>1. s = Idle
      BY <2>2, <2>4, WentTo DEF Die
    <3>2. s.pc = "idle" /\ s.muts = <<>> /\ s.todo = {}
      BY <3>1 DEF Idle
    <3>3. \A x \in AllNames : dir'[x] \in {dir[x], Nothing}
      BY <2>4 DEF Die, TypeInv, DirOK
    <3>4. QED
      BY <2>2, <3>2, <3>3, HandEnds
  <2>5. QED
    BY <1>1, <2>3, <2>4
<1>2. ASSUME NEW p \in Projectors, Fault(p) PROVE HandInv'
  BY <1>2, HandAborts DEF Fault
<1>3. ASSUME NEW p \in Projectors, Project(p) PROVE HandInv'
  BY <1>1, <1>3, HandBegin, HandPreflight, HandLooking, HandIdentify, HandCheck, HandMove, HandTemp,
     HandRename, HandRecord, HandCommit, HandUnlink, HandUndo, HandUndoing
     DEF Project, Publish, Looking
<1>4. ASSUME NEW u \in UserNames, User(u) PROVE HandInv'
  BY <1>4, HandUser
<1>5. ASSUME UNCHANGED <<dir, run, missed>> PROVE HandInv'
  <2> SUFFICES ASSUME NEW p \in Projectors
               PROVE  (HandOK(p, run[p]) /\ TakingOK(p, run[p]) /\ OursOK(p, run[p]))'
    BY DEF HandInv
  <2>1. HandOK(p, run[p])'
    BY <1>5 DEF HandInv, HandOK, Has, Is, OfUser
  <2>2. TakingOK(p, run[p])'
    BY <1>5 DEF HandInv, TakingOK
  <2>3. OursOK(p, run[p])'
    BY <1>5 DEF HandInv, OursOK, Has, OfUser
  <2>4. QED
    BY <2>1, <2>2, <2>3
<1>6. QED
  BY <1>1, <1>2, <1>3, <1>4, <1>5 DEF Next, Drift, vars, history

LEMMA AlwaysInHand == Alone /\ ~UserRaces /\ Spec => []HandInv
<1>1. Init => HandInv
  <2> SUFFICES ASSUME Init, NEW p \in Projectors
               PROVE  HandOK(p, run[p]) /\ TakingOK(p, run[p]) /\ OursOK(p, run[p])
    BY DEF HandInv
  <2>1. run[p] = Idle /\ Idle.pc = "idle" /\ Idle.muts = <<>> /\ Idle.todo = {}
    BY DEF Init, Idle
  <2>2. Manifest \in Names
    BY DEF Names
  <2>3. ~Has(Tmp(p)) /\ ~Has(Manifest) /\ ~Has(Bak(p, Manifest))
    BY <2>2, NamesApart DEF Init, Has
  <2>4. QED
    BY <2>1, <2>3 DEF HandOK, TakingOK, OursOK, Has, OfUser, Active, Publishing
<1>2. CASE Alone /\ ~UserRaces
  <2>1. TypeInv /\ ApartInv /\ HandInv /\ [Next]_vars => HandInv'
    BY <1>2, HandNext
  <2>2. QED
    BY <1>1, <2>1, AlwaysTyped, AlwaysApart, PTL DEF Spec
<1>3. QED
  BY <1>2
-----------------------------------------------------------------------------
(* What an unwinding puts back: step by step.                              *)

LEMMA TraceAlone ==
  ASSUME Alone, NEW p \in Projectors, NEW s, run'[p] = s, TraceOK(p, s)'
  PROVE  TraceInv'
<1>1. TraceOK(p, run[p])'
  OBVIOUS
<1>2. QED
  BY <1>1 DEF TraceInv, Alone

\* A run that is not on its way leaves nothing to trace.
LEMMA TraceFree ==
  ASSUME Alone, NEW p \in Projectors, NEW s, run'[p] = s, s.pc \notin Active \cup {"preflight"},
         s.pc = "done" => s.status \notin {"stale", "failure"}
  PROVE  TraceInv'
<1>1. TraceOK(p, s)'
  BY DEF TraceOK
<1>2. QED
  BY <1>1, TraceAlone

LEMMA TraceActive ==
  ASSUME Alone, NEW p \in Projectors, NEW s, run'[p] = s, s.pc \in Active,
         s.conflicts = 0 => FoundOK(p, s)'
  PROVE  TraceInv'
<1>1. s.pc \notin {"preflight", "done"}
  BY DEF Active, Publishing
<1>2. TraceOK(p, s)'
  BY <1>1 DEF TraceOK
<1>3. QED
  BY <1>2, TraceAlone

\* A step that mutates no published file and no backup.
LEMMA FoundKept ==
  ASSUME NEW p \in Projectors, NEW r, FoundOK(p, r), r.pc # "record", NEW s,
         s.muts = r.muts, \A i \in DOMAIN r.muts : r.muts[i].name \in Names,
         s.pc \notin {"record", "undoing"},
         s.pc \in {"compare", "move"} =>
           r.pc \in {"compare", "move"} /\ s.held = r.held /\ s.todo = r.todo,
         \A n \in Names : dir'[n] = dir[n] /\ dir'[Bak(p, n)] = dir[Bak(p, n)],
         UNCHANGED <<before, touched>>, missed[p] \subseteq missed'[p]
  PROVE  FoundOK(p, s)'
<1>1. \A x : Left(p, x)' => Left(p, x)
  BY DEF Left
<1>2. \A n \in Names : Left(p, n) /\ ~Mutated(s.muts, n) => before[p][n] = dir'[n]
  BY DEF FoundOK
<1>3. s.pc \in {"compare", "move"} /\ Left(p, First(s.todo).name) =>
        s.held = before[p][First(s.todo).name]
  BY DEF FoundOK
<1>4. ASSUME NEW i \in DOMAIN s.muts, Left(p, s.muts[i].name)
      PROVE  /\ dir'[s.muts[i].name] = s.muts[i].now
             /\ before[p][s.muts[i].name] = s.muts[i].was
             /\ s.muts[i].kind # "created" /\ Left(p, Bak(p, s.muts[i].name))
                  => dir'[Bak(p, s.muts[i].name)] = s.muts[i].was
  BY <1>4 DEF FoundOK
<1>5. \A x \in OwnNames(p) : Left(p, x) => before[p][x] = Nothing
  BY DEF FoundOK
<1>6. QED
  BY <1>1, <1>2, <1>3, <1>4, <1>5 DEF FoundOK

LEMMA MutsNamed ==
  ASSUME NEW muts \in Seq(Mutation)
  PROVE  \A i \in DOMAIN muts : muts[i] \in Mutation /\ muts[i].name \in Names
<1>1. DOMAIN muts = 1 .. Len(muts)
  BY LenProperties
<1>2. \A i \in DOMAIN muts : muts[i] \in Mutation
  BY <1>1, ElementOfSeq
<1>3. QED
  BY <1>2 DEF Mutation

\* The file that was just written is recorded.
LEMMA FoundPublished ==
  ASSUME TypeInv, ApartInv, NEW p \in Projectors, run[p].pc = "record",
         FoundOK(p, run[p]), Has(Job(p).name), NEW s,
         s.muts = Published(p), s.pc \notin {"record", "undoing", "compare", "move"},
         \A n \in Names : dir'[n] = dir[n] /\ dir'[Bak(p, n)] = dir[Bak(p, n)],
         UNCHANGED <<before, touched>>, missed[p] \subseteq missed'[p]
  PROVE  FoundOK(p, s)'
<1>1. PICK r \in RunType : r = run[p]
  BY DEF TypeInv, RunsOK
<1>2. FoundOK(p, r) /\ JobsApart(r) /\ r.pc = "record"
  BY <1>1 DEF ApartInv
<1>3. PICK n \in Names : n = Job(p).name
  BY WritingType DEF Writing
<1>4. First(r.todo).name = n
  BY <1>1, <1>3 DEF Job
<1>5. /\ \A i \in DOMAIN s.muts :
           \/ i \in DOMAIN r.muts /\ s.muts[i] = r.muts[i]
           \/ /\ s.muts[i].name = n
              /\ \/ Job(p).kind = "create" /\ s.muts[i].kind = "created" /\ s.muts[i].was = Nothing
                 \/ /\ i \in DOMAIN r.muts /\ r.muts[i].name = n
                    /\ s.muts[i].kind = r.muts[i].kind /\ s.muts[i].was = r.muts[i].was
      /\ \A i \in DOMAIN r.muts : i \in DOMAIN s.muts /\ s.muts[i].name = r.muts[i].name
      /\ \E i \in DOMAIN s.muts : s.muts[i].name = n /\ s.muts[i].now = dir[n]
  BY <1>1, <1>3, PublishedTells DEF Writing
<1>6. MutsOK(s.muts)
  BY <1>1, <1>2, PublishedApart DEF Writing
<1>7. \A i \in DOMAIN s.muts : s.muts[i].name = n => s.muts[i].now = dir[n]
  BY <1>5, <1>6 DEF MutsOK
<1>8. \A i \in DOMAIN s.muts : s.muts[i].name \in Names
  <2>1. s.muts \in Seq(Mutation)
    BY <1>1, PublishedOK DEF Writing, TypeInv
  <2>2. QED
    BY <2>1, MutsNamed
<1>9. Job(p).kind = "create" => ~Mutated(r.muts, n)
  <2>1. Job(p) \in r.todo
    BY <1>1, WritingType, JobIn DEF TypeInv, Writing
  <2>2. QED
    BY <1>2, <1>3, <2>1 DEF JobsApart, Mutated
<1>10. \A x : Left(p, x)' => Left(p, x)
  BY DEF Left
<1>11. \A k \in Names : Left(p, k) /\ ~Mutated(s.muts, k) => before[p][k] = dir'[k]
  <2>1. \A k \in Names : ~Mutated(s.muts, k) => k # n /\ ~Mutated(r.muts, k)
    BY <1>5 DEF Mutated
  <2>2. QED
    BY <1>2, <1>4, <2>1 DEF FoundOK
<1>12. ASSUME NEW i \in DOMAIN s.muts, Left(p, s.muts[i].name)
       PROVE  /\ dir'[s.muts[i].name] = s.muts[i].now
              /\ before[p][s.muts[i].name] = s.muts[i].was
              /\ s.muts[i].kind # "created" /\ Left(p, Bak(p, s.muts[i].name))
                   => dir'[Bak(p, s.muts[i].name)] = s.muts[i].was
  <2>1. /\ dir'[s.muts[i].name] = dir[s.muts[i].name]
        /\ dir'[Bak(p, s.muts[i].name)] = dir[Bak(p, s.muts[i].name)]
    BY <1>8
  <2>2. CASE i \in DOMAIN r.muts /\ s.muts[i] = r.muts[i]
    <3>1. dir[s.muts[i].name] = s.muts[i].now
      BY <1>2, <1>4, <1>7, <1>12, <2>2 DEF FoundOK
    <3>2. /\ before[p][s.muts[i].name] = s.muts[i].was
          /\ s.muts[i].kind # "created" /\ Left(p, Bak(p, s.muts[i].name))
               => dir[Bak(p, s.muts[i].name)] = s.muts[i].was
      BY <1>2, <1>12, <2>2 DEF FoundOK
    <3>3. QED
      BY <2>1, <3>1, <3>2
  <2>3. CASE /\ s.muts[i].name = n /\ Job(p).kind = "create"
             /\ s.muts[i].kind = "created" /\ s.muts[i].was = Nothing
    <3>1. before[p][n] = Nothing
      BY <1>2, <1>4, <1>9, <1>12, <2>3 DEF FoundOK
    <3>2. QED
      BY <1>7, <2>1, <2>3, <3>1
  <2>4. CASE /\ s.muts[i].name = n /\ i \in DOMAIN r.muts /\ r.muts[i].name = n
             /\ s.muts[i].kind = r.muts[i].kind /\ s.muts[i].was = r.muts[i].was
    BY <1>2, <1>7, <1>12, <2>1, <2>4 DEF FoundOK
  <2>5. QED
    BY <1>5, <2>2, <2>3, <2>4
<1>13. \A x \in OwnNames(p) : Left(p, x) => before[p][x] = Nothing
  BY <1>2 DEF FoundOK
<1>14. QED
  BY <1>10, <1>11, <1>12, <1>13 DEF FoundOK

LEMMA TraceAborts ==
  ASSUME Alone, TypeInv, ApartInv, MissedInv, HandInv, TraceInv, NEW p \in Projectors,
         NEW status \in {"stale", "failure"},
         Abort(p, status), run[p].pc \in Publishing \cup {"fresh"}
  PROVE  TraceInv'
<1>1. run'[p] = ToUndo(p, status) /\ ToUndo(p, status) \in RunType
  BY AbortOK DEF TypeInv
<1>2. PICK r \in RunType, s \in RunType : r = run[p] /\ s = run'[p]
  BY <1>1 DEF TypeInv, RunsOK
<1>3. /\ s.pc = "undo" /\ s.conflicts = r.conflicts
      /\ s.muts = IF Kept(p) THEN Published(p) ELSE r.muts
  BY <1>1, <1>2 DEF ToUndo, RunType
<1>4. HandOK(p, r) /\ TraceOK(p, r) /\ ShapeOK(r)
  BY <1>2 DEF HandInv, TraceInv, TypeInv, RunsOK
<1>5. FoundOK(p, r)
  BY <1>2, <1>4 DEF TraceOK, ShapeOK, Active, Publishing
<1>6. \A n \in Names : dir'[n] = dir[n] /\ dir'[Bak(p, n)] = dir[Bak(p, n)]
  <2>1. \A x \in AllNames \ {Tmp(p)} : dir'[x] = dir[x]
    BY AbortOK DEF TypeInv
  <2>2. QED
    BY <2>1, NamesApart
<1>7. UNCHANGED <<before, touched>> /\ missed[p] \subseteq missed'[p]
  <2>1. missed[p] = {}
    BY DEF MissedInv, MissedOK
  <2>2. QED
    BY <2>1 DEF Abort
<1>8. Wrote(p) <=> r.pc = "record"
  <2>1. CASE r.pc \in {"temp", "rename"}
    BY <1>2, <1>4, <2>1 DEF HandOK, Wrote, Is, Job
  <2>2. CASE r.pc = "record"
    BY <1>2, <1>4, <2>2 DEF HandOK, Wrote, Writing, Job, Payload
  <2>3. QED
    BY <1>2, <2>1, <2>2 DEF Wrote, Writing
<1>9. FoundOK(p, s)'
  <2>1. CASE Kept(p)
    <3>1. Has(Job(p).name) /\ r.pc = "record"
      BY <1>8, <2>1 DEF Kept, Wrote, Is
    <3>2. QED
      BY <1>2, <1>3, <1>5, <1>6, <1>7, <2>1, <3>1, FoundPublished
  <2>2. CASE r.pc # "record"
    <3>1. \A i \in DOMAIN r.muts : r.muts[i].name \in Names
      BY <1>2, MutsNamed DEF RunType
    <3>2. ~Kept(p)
      BY <1>8, <2>2 DEF Kept
    <3>3. QED
      BY <1>3, <1>5, <1>6, <1>7, <2>2, <3>1, <3>2, FoundKept
  <2>3. CASE r.pc = "record" /\ ~Kept(p)
    <3>1. Job(p).name \in missed'[p] /\ Job(p) = First(r.todo) /\ s.muts = r.muts
      BY <1>2, <1>3, <1>8, <2>3 DEF Kept, Job
    <3>2. PICK job : job = First(r.todo).name
      OBVIOUS
    <3>3. \A x : Left(p, x)' => Left(p, x) /\ x # job
      BY <1>7, <3>1, <3>2 DEF Left
    <3>4. \A i \in DOMAIN r.muts : r.muts[i].name \in Names
      BY <1>2, MutsNamed DEF RunType
    <3>5. \A n \in Names : Left(p, n)' /\ ~Mutated(s.muts, n) => before[p][n] = dir'[n]
      BY <1>5, <1>6, <3>1, <3>2, <3>3 DEF FoundOK
    <3>6. ASSUME NEW i \in DOMAIN s.muts, Left(p, s.muts[i].name)'
          PROVE  /\ dir'[s.muts[i].name] = s.muts[i].now
                 /\ before[p][s.muts[i].name] = s.muts[i].was
                 /\ s.muts[i].kind # "created" /\ Left(p, Bak(p, s.muts[i].name))'
                      => dir'[Bak(p, s.muts[i].name)] = s.muts[i].was
      BY <1>5, <1>6, <3>1, <3>2, <3>3, <3>4, <3>6 DEF FoundOK
    <3>7. \A x \in OwnNames(p) : Left(p, x)' => before[p][x] = Nothing
      BY <1>5, <3>3 DEF FoundOK
    <3>8. QED
      BY <1>3, <1>7, <3>5, <3>6, <3>7 DEF FoundOK
  <2>4. QED
    BY <2>1, <2>2, <2>3
<1>10. QED
  BY <1>2, <1>3, <1>9, TraceActive DEF Active

LEMMA TraceLooking ==
  ASSUME Alone, TypeInv, ApartInv, MissedInv, HandInv, TraceInv, NEW p \in Projectors, Looking(p)
  PROVE  TraceInv'
<1>1. run[p] \in RunType /\ ShapeOK(run[p]) /\ TraceOK(p, run[p])
  BY DEF TypeInv, RunsOK, TraceInv
<1>2. ASSUME NEW pc, Onward(run[p], pc), Saw(p), Proceed(p, pc)
      PROVE  TraceInv'
  <2>1. [run[p] EXCEPT !.pc = pc] \in RunType /\ pc \in Publishing \cup {"commit"}
    BY <1>1, <1>2, OnwardOK
  <2>2. run'[p] = [run[p] EXCEPT !.pc = pc] /\ UNCHANGED <<dir, before, touched, missed>>
    BY <1>2, WentTo DEF Proceed, history
  <2>3. PICK r \in RunType, s \in RunType : r = run[p] /\ s = run'[p]
    BY <1>1, <2>1, <2>2
  <2>4. s.pc = pc /\ s.todo = r.todo /\ s.muts = r.muts /\ s.held = r.held
    BY <2>2, <2>3 DEF RunType
  <2>5. r.pc \in {"fresh", "apply", "look", "verify", "compare", "recheck", "validate"}
    BY <1>2, <2>3 DEF Onward
  <2>6. FoundOK(p, r)
    BY <1>1, <2>3, <2>5 DEF TraceOK, ShapeOK, Active, Publishing
  <2>7. s.pc \notin {"record", "undoing"} /\ (s.pc \in {"compare", "move"} => r.pc = "compare")
    <3>1. r.todo \in SUBSET JobType
      BY <2>3 DEF RunType
    <3>2. EntryOf(r.todo) \in {"recheck", "look", "check", "verify"}
      BY <3>1, EntryOK
    <3>3. QED
      BY <1>2, <2>3, <2>4, <3>2 DEF Onward
  <2>8. FoundOK(p, s)'
    <3>1. \A i \in DOMAIN r.muts : r.muts[i].name \in Names
      BY <2>3, MutsNamed DEF RunType
    <3>2. QED
      BY <2>2, <2>4, <2>5, <2>6, <2>7, <3>1, FoundKept
  <2>9. CASE s.pc = "commit"
    BY <2>3, <2>9, TraceFree DEF Active, Publishing
  <2>10. CASE s.pc # "commit"
    BY <2>1, <2>3, <2>4, <2>8, <2>10, TraceActive DEF Active
  <2>11. QED
    BY <2>9, <2>10
<1>3. ASSUME NEW status \in {"stale", "failure"}, Gives(p, status)
      PROVE  TraceInv'
  BY <1>3, TraceAborts DEF Gives
<1>4. QED
  BY <1>2, <1>3, LookingCases

LEMMA TraceBegin ==
  ASSUME Alone, TypeInv, NEW p \in Projectors, Begin(p)
  PROVE  TraceInv'
<1>1. PICK s : s = run'[p]
  OBVIOUS
<1>2. s = [Idle EXCEPT !.pc = "preflight", !.snap = rev]
  BY <1>1 DEF Begin
<1>3. s.pc = "preflight"
  BY <1>2 DEF Idle
<1>4. AsFound(p)'
  BY DEF Begin, AsFound, TypeInv
<1>5. TraceOK(p, s)'
  BY <1>3, <1>4 DEF TraceOK, Active, Publishing
<1>6. QED
  BY <1>1, <1>5, TraceAlone

LEMMA TracePreflight ==
  ASSUME Alone, TypeInv, TraceInv, NEW p \in Projectors, Preflight(p)
  PROVE  TraceInv'
<1>1. run[p] \in RunType /\ ShapeOK(run[p]) /\ TraceOK(p, run[p]) /\ run[p].pc = "preflight"
  BY DEF TypeInv, RunsOK, TraceInv, Preflight, At
<1>2. AsFound(p)
  BY <1>1 DEF TraceOK
<1>3. CASE ~NoConflict(run[p].snap)
  <2>1. PICK s : s = run'[p]
    OBVIOUS
  <2>2. s = Report(run[p], "conflict")
    BY <1>3, <2>1, WentTo DEF Preflight
  <2>3. s.pc = "done" /\ s.status = "conflict"
    BY <1>1, <2>2, ReportIs
  <2>4. QED
    BY <2>1, <2>3, TraceFree DEF Active, Publishing
<1>4. CASE NoConflict(run[p].snap)
  <2>1. PICK s : s = run'[p]
    OBVIOUS
  <2>2. /\ s = [run[p] EXCEPT !.pc = "fresh", !.names = Listing, !.prev = Previous,
                              !.todo = Plan(run[p].snap)]
        /\ UNCHANGED <<dir, before, touched, missed>>
    BY <1>4, <2>1, WentTo DEF Preflight, history
  <2>3. s.pc = "fresh" /\ s.muts = <<>>
    BY <1>1, <2>2 DEF RunType, ShapeOK
  <2>4. \A x \in OwnNames(p) : x \in AllNames /\ ~Has(x)
    <3>1. \A x \in OwnNames(p) : x \in AllNames /\ x \notin Names
      BY NamesAssumption DEF AllNames
    <3>2. QED
      BY <1>4, <3>1 DEF NoConflict, Listing
  <2>5. \A n \in Names : n \in AllNames
    BY DEF AllNames
  <2>6. FoundOK(p, s)'
    <3>1. DOMAIN s.muts = {}
      BY <2>3
    <3>2. QED
      BY <1>2, <2>2, <2>3, <2>4, <2>5, <3>1 DEF FoundOK, AsFound, Left, Has
  <2>7. QED
    BY <2>1, <2>3, <2>6, TraceActive DEF Active
<1>5. QED
  BY <1>3, <1>4

LEMMA TraceCheck ==
  ASSUME Alone, TypeInv, ApartInv, MissedInv, HandInv, TraceInv, NEW p \in Projectors, Check(p)
  PROVE  TraceInv'
<1>1. run[p] \in RunType /\ ShapeOK(run[p]) /\ TraceOK(p, run[p]) /\ run[p].pc = "check"
  BY DEF TypeInv, RunsOK, TraceInv, Check, At
<1>2. CASE Fail(p)
  BY <1>1, <1>2, TraceAborts DEF Fail, Publishing
<1>3. CASE Goto(p, NextJob(run[p])) /\ UNCHANGED <<dir, before, touched, missed>>
  <2>1. PICK r, s : r = run[p] /\ s = run'[p]
    OBVIOUS
  <2>2. s = NextJob(run[p])
    BY <1>3, <2>1, WentTo
  <2>3. run[p].todo # {} /\ run[p].conflicts = 0
    BY <1>1 DEF ShapeOK, Working, Publishing
  <2>4. s.muts = r.muts /\ s.pc \in {"recheck", "look", "check", "verify"}
    BY <1>1, <2>1, <2>2, <2>3, NextJobOK
  <2>5. FoundOK(p, r) /\ r.pc = "check"
    BY <1>1, <2>1, <2>3 DEF TraceOK, Active, Publishing
  <2>6. \A i \in DOMAIN r.muts : r.muts[i].name \in Names
    BY <1>1, <2>1, MutsNamed DEF RunType
  <2>7. FoundOK(p, s)'
    BY <1>3, <2>4, <2>5, <2>6, FoundKept
  <2>8. QED
    BY <2>1, <2>4, <2>7, TraceActive DEF Active, Publishing
<1>4. QED
  BY <1>2, <1>3 DEF Check, history

LEMMA TraceIdentify ==
  ASSUME Alone, TypeInv, ApartInv, MissedInv, HandInv, TraceInv, NEW p \in Projectors, Identify(p)
  PROVE  TraceInv'
<1>1. /\ run[p] \in RunType /\ ShapeOK(run[p]) /\ JobsApart(run[p]) /\ TraceOK(p, run[p])
      /\ run[p].pc = "identify"
  BY DEF TypeInv, RunsOK, ApartInv, TraceInv, Identify, At
<1>2. CASE ~Has(Job(p).name)
  BY <1>1, <1>2, TraceAborts DEF Identify, Fail, Publishing
<1>3. CASE Has(Job(p).name)
  <2>1. PICK r, s : r = run[p] /\ s = run'[p]
    OBVIOUS
  <2>2. /\ s = [run[p] EXCEPT !.pc = "compare", !.held = dir[Job(p).name]]
        /\ UNCHANGED <<dir, before, touched, missed>>
    BY <1>3, <2>1, WentTo DEF Identify, history
  <2>3. /\ s.pc = "compare" /\ s.muts = r.muts /\ s.todo = r.todo /\ s.held = dir[Job(p).name]
    BY <1>1, <2>1, <2>2 DEF RunType
  <2>4. FoundOK(p, r) /\ r.pc = "identify" /\ JobsApart(r)
    BY <1>1, <2>1 DEF TraceOK, ShapeOK, Active, Publishing
  <2>5. Job(p) \in r.todo /\ Job(p).kind \in {"replace", "delete"}
    BY <1>1, <2>1, JobIn DEF TypeInv, ShapeOK, Working, Moving, Job
  <2>6. PICK n \in Names : n = Job(p).name
    BY <1>1, JobIn DEF TypeInv, ShapeOK, Working, Moving
  <2>7. ~Mutated(r.muts, n)
    BY <2>4, <2>5, <2>6 DEF JobsApart, Mutated, Writing
  <2>8. Left(p, n) => s.held = before[p][n]
    BY <2>3, <2>4, <2>6, <2>7 DEF FoundOK
  <2>9. First(s.todo).name = n
    BY <2>1, <2>3, <2>6 DEF Job
  <2>10. FoundOK(p, s)'
    <3>1. \A x : Left(p, x)' <=> Left(p, x)
      BY <2>2 DEF Left
    <3>2. \A k \in Names : Left(p, k) /\ ~Mutated(s.muts, k) => before[p][k] = dir[k]
      BY <2>3, <2>4 DEF FoundOK
    <3>3. \A x \in OwnNames(p) : Left(p, x) => before[p][x] = Nothing
      BY <2>4 DEF FoundOK
    <3>4. ASSUME NEW i \in DOMAIN s.muts, Left(p, s.muts[i].name)
          PROVE  /\ dir[s.muts[i].name] = s.muts[i].now
                 /\ before[p][s.muts[i].name] = s.muts[i].was
                 /\ s.muts[i].kind # "created" /\ Left(p, Bak(p, s.muts[i].name))
                      => dir[Bak(p, s.muts[i].name)] = s.muts[i].was
      BY <2>3, <2>4, <3>4 DEF FoundOK
    <3>5. QED
      BY <2>2, <2>3, <2>8, <2>9, <3>1, <3>2, <3>3, <3>4 DEF FoundOK
  <2>11. QED
    BY <2>1, <2>3, <2>10, TraceActive DEF Active, Publishing
<1>4. QED
  BY <1>2, <1>3

LEMMA TraceMove ==
  ASSUME Alone, TypeInv, ApartInv, MissedInv, HandInv, TraceInv, NEW p \in Projectors, Move(p)
  PROVE  TraceInv'
<1>1. CASE Gives(p, "failure")
  BY <1>1, TraceAborts DEF Gives
<1>2. CASE /\ Has(Job(p).name) /\ Job(p).name \in Names /\ Goto(p, AfterMove(p))
           /\ dir' = [dir EXCEPT ![Bak(p, Job(p).name)] = dir[Job(p).name],
                                 ![Job(p).name] = Nothing]
           /\ UNCHANGED <<before, touched, missed>>
  <2>1. /\ run[p] \in RunType /\ ShapeOK(run[p]) /\ JobsApart(run[p]) /\ TraceOK(p, run[p])
        /\ run[p].pc = "move"
    BY DEF TypeInv, RunsOK, ApartInv, TraceInv, Move, At
  <2>2. PICK n \in Names : n = Job(p).name
    BY <1>2
  <2>3. PICK r, s, m : r = run[p] /\ s = run'[p] /\ m = Moved(p)
    OBVIOUS
  <2>4. s = AfterMove(p)
    BY <1>2, <2>3, WentTo
  <2>5. /\ s.muts = Append(r.muts, m) /\ m \in Mutation
        /\ s.pc \in {"recheck", "look", "check", "verify", "temp"}
    BY <2>1, <2>3, <2>4, AfterMoveOK DEF TypeInv
  <2>6. m.name = n /\ m.was = r.held /\ m.now = Nothing
    BY <2>2, <2>3 DEF Moved
  <2>7. FoundOK(p, r) /\ r.pc = "move" /\ JobsApart(r) /\ r.muts \in Seq(Mutation)
    BY <2>1, <2>3 DEF TraceOK, ShapeOK, Active, Publishing, RunType
  <2>8. /\ \A i \in DOMAIN s.muts : s.muts[i] = m \/ (i \in DOMAIN r.muts /\ s.muts[i] = r.muts[i])
        /\ \A i \in DOMAIN r.muts : i \in DOMAIN s.muts /\ s.muts[i] = r.muts[i]
        /\ \E i \in DOMAIN s.muts : s.muts[i] = m
    <3>1. /\ Len(r.muts) \in Nat /\ DOMAIN r.muts = 1 .. Len(r.muts)
          /\ DOMAIN s.muts = 1 .. Len(r.muts) + 1 /\ s.muts[Len(r.muts) + 1] = m
          /\ \A i \in 1 .. Len(r.muts) : s.muts[i] = r.muts[i]
      BY <2>5, <2>7, AppendProperties, LenProperties
    <3>2. QED
      BY <3>1
  <2>9. ~Mutated(r.muts, n)
    <3>1. Job(p) \in r.todo /\ Job(p).kind # "check"
      BY <2>1, <2>3, JobIn DEF TypeInv, ShapeOK, Working, Moving, Job
    <3>2. QED
      BY <2>2, <2>7, <3>1 DEF JobsApart, Mutated, Writing
  <2>10. Left(p, n) => r.held = before[p][n] /\ r.held = dir[n]
    <3>1. First(r.todo).name = n
      BY <2>2, <2>3 DEF Job
    <3>2. QED
      BY <2>7, <2>9, <3>1 DEF FoundOK
  <2>11. \A k \in Names : /\ k \in AllNames /\ Bak(p, k) \in AllNames /\ Bak(p, k) # n /\ k # Bak(p, n)
                          /\ (Bak(p, k) = Bak(p, n) => k = n)
    BY NamesApart
  <2>12. \A x \in AllNames :
           dir'[x] = IF x = n THEN Nothing ELSE IF x = Bak(p, n) THEN dir[n] ELSE dir[x]
    BY <1>2, <2>2, <2>11 DEF TypeInv, DirOK
  <2>13. \A k \in Names : k # n => dir'[k] = dir[k] /\ dir'[Bak(p, k)] = dir[Bak(p, k)]
    BY <2>11, <2>12
  <2>14. dir'[n] = Nothing /\ dir'[Bak(p, n)] = dir[n]
    BY <2>11, <2>12
  <2>15. FoundOK(p, s)'
    <3>1. \A x : Left(p, x)' <=> Left(p, x)
      BY <1>2 DEF Left
    <3>2. ASSUME NEW k \in Names, Left(p, k), ~Mutated(s.muts, k) PROVE before[p][k] = dir'[k]
      <4>1. k # n /\ ~Mutated(r.muts, k)
        BY <2>6, <2>8, <3>2 DEF Mutated
      <4>2. QED
        BY <2>7, <2>13, <3>2, <4>1 DEF FoundOK
    <3>3. \A x \in OwnNames(p) : Left(p, x) => before[p][x] = Nothing
      BY <2>7 DEF FoundOK
    <3>4. ASSUME NEW i \in DOMAIN s.muts, Left(p, s.muts[i].name)
          PROVE  /\ dir'[s.muts[i].name] = s.muts[i].now
                 /\ before[p][s.muts[i].name] = s.muts[i].was
                 /\ s.muts[i].kind # "created" /\ Left(p, Bak(p, s.muts[i].name))
                      => dir'[Bak(p, s.muts[i].name)] = s.muts[i].was
      <4>1. CASE s.muts[i] = m
        BY <2>6, <2>10, <2>14, <3>4, <4>1
      <4>2. CASE i \in DOMAIN r.muts /\ s.muts[i] = r.muts[i]
        <5>1. s.muts[i].name \in Names /\ s.muts[i].name # n
          BY <2>7, <2>9, <4>2, MutsNamed DEF Mutated
        <5>2. QED
          BY <2>7, <2>13, <3>4, <4>2, <5>1 DEF FoundOK
      <4>3. QED
        BY <2>8, <4>1, <4>2
    <3>5. QED
      BY <1>2, <2>5, <3>1, <3>2, <3>3, <3>4 DEF FoundOK
  <2>16. QED
    BY <2>3, <2>5, <2>15, TraceActive DEF Active, Publishing
<1>3. QED
  BY <1>1, <1>2, MoveCases DEF history

LEMMA TraceTemp ==
  ASSUME Alone, TypeInv, TraceInv, NEW p \in Projectors, Temp(p)
  PROVE  TraceInv'
<1>1. /\ run[p] \in RunType /\ ShapeOK(run[p]) /\ TraceOK(p, run[p]) /\ run[p].pc = "temp"
      /\ run[p].conflicts = 0
  BY WritingType DEF TypeInv, RunsOK, TraceInv, Temp, At, Writing
<1>2. PICK r, s : r = run[p] /\ s = run'[p]
  OBVIOUS
<1>3. s = [run[p] EXCEPT !.pc = "rename"] /\ UNCHANGED <<before, touched, missed>>
  BY <1>2, WentTo DEF Temp, history
<1>4. s.pc = "rename" /\ s.muts = r.muts
  BY <1>1, <1>2, <1>3 DEF RunType
<1>5. FoundOK(p, r) /\ r.pc = "temp"
  BY <1>1, <1>2 DEF TraceOK, Active, Publishing
<1>6. \A n \in Names : dir'[n] = dir[n] /\ dir'[Bak(p, n)] = dir[Bak(p, n)]
  <2>1. \A x \in AllNames \ {Tmp(p)} : dir'[x] = dir[x]
    BY DEF Temp, TypeInv, DirOK
  <2>2. QED
    BY <2>1, NamesApart
<1>7. \A i \in DOMAIN r.muts : r.muts[i].name \in Names
  BY <1>1, <1>2, MutsNamed DEF RunType
<1>8. FoundOK(p, s)'
  BY <1>3, <1>4, <1>5, <1>6, <1>7, FoundKept
<1>9. QED
  BY <1>2, <1>4, <1>8, TraceActive DEF Active, Publishing

LEMMA TraceRename ==
  ASSUME Alone, TypeInv, HandInv, TraceInv, NEW p \in Projectors, Rename(p)
  PROVE  TraceInv'
<1>1. /\ run[p] \in RunType /\ TraceOK(p, run[p]) /\ HandOK(p, run[p]) /\ run[p].pc = "rename"
      /\ run[p].conflicts = 0 /\ Job(p).name \in Names
  BY WritingType DEF TypeInv, RunsOK, HandInv, TraceInv, Rename, At, Writing
<1>2. PICK r, s : r = run[p] /\ s = run'[p]
  OBVIOUS
<1>3. PICK n \in Names : n = Job(p).name
  BY <1>1
<1>4. s = [run[p] EXCEPT !.pc = "record"] /\ UNCHANGED <<before, touched, missed>>
  BY <1>2, WentTo DEF Rename
<1>5. s.pc = "record" /\ s.muts = r.muts /\ s.todo = r.todo
  BY <1>1, <1>2, <1>4 DEF RunType
<1>6. FoundOK(p, r) /\ r.pc = "rename"
  BY <1>1, <1>2 DEF TraceOK, Active, Publishing
<1>7. First(s.todo).name = n /\ ~Has(n)
  BY <1>1, <1>2, <1>3, <1>5 DEF HandOK, Job
<1>8. \A k \in Names : dir'[Bak(p, k)] = dir[Bak(p, k)] /\ (k # n => dir'[k] = dir[k])
  <2>1. \A x \in AllNames \ {Tmp(p), n} : dir'[x] = dir[x]
    BY <1>3 DEF Rename, TypeInv, DirOK
  <2>2. QED
    BY <2>1, NamesApart
<1>9. \A i \in DOMAIN r.muts : r.muts[i].name \in Names
  BY <1>1, <1>2, MutsNamed DEF RunType
<1>10. FoundOK(p, s)'
  <2>1. \A x : Left(p, x)' <=> Left(p, x)
    BY <1>4 DEF Left
  <2>2. \A k \in Names : Left(p, k) /\ ~Mutated(s.muts, k) =>
          before[p][k] = IF k = n THEN Nothing ELSE dir'[k]
    BY <1>5, <1>6, <1>7, <1>8 DEF FoundOK, Has
  <2>3. \A x \in OwnNames(p) : Left(p, x) => before[p][x] = Nothing
    BY <1>6 DEF FoundOK
  <2>4. ASSUME NEW i \in DOMAIN s.muts, Left(p, s.muts[i].name)
        PROVE  /\ s.muts[i].name # n => dir'[s.muts[i].name] = s.muts[i].now
               /\ before[p][s.muts[i].name] = s.muts[i].was
               /\ s.muts[i].kind # "created" /\ Left(p, Bak(p, s.muts[i].name))
                    => dir'[Bak(p, s.muts[i].name)] = s.muts[i].was
    BY <1>5, <1>6, <1>8, <1>9, <2>4 DEF FoundOK
  <2>5. QED
    BY <1>4, <1>5, <1>7, <2>1, <2>2, <2>3, <2>4 DEF FoundOK
<1>11. QED
  BY <1>2, <1>5, <1>10, TraceActive DEF Active, Publishing

LEMMA TraceRecord ==
  ASSUME Alone, TypeInv, ApartInv, MissedInv, HandInv, TraceInv, NEW p \in Projectors, Record(p)
  PROVE  TraceInv'
<1>1. CASE Gives(p, "failure")
  BY <1>1, TraceAborts DEF Gives
<1>2. CASE Has(Job(p).name) /\ Goto(p, AfterRecord(p)) /\ UNCHANGED <<dir, before, touched, missed>>
  <2>1. /\ TraceOK(p, run[p]) /\ run[p].pc = "record" /\ run[p].conflicts = 0
    BY WritingType DEF TypeInv, RunsOK, TraceInv, Record, At, Writing
  <2>2. PICK s : s = run'[p]
    OBVIOUS
  <2>3. s = AfterRecord(p)
    BY <1>2, <2>2, WentTo
  <2>4. s.muts = Published(p) /\ s.pc \in {"recheck", "look", "check", "verify"}
    BY <2>1, <2>3, AfterRecordOK
  <2>5. FoundOK(p, run[p])
    BY <2>1 DEF TraceOK, Active, Publishing
  <2>6. FoundOK(p, s)'
    BY <1>2, <2>1, <2>4, <2>5, FoundPublished
  <2>7. QED
    BY <2>2, <2>4, <2>6, TraceActive DEF Active, Publishing
<1>3. QED
  BY <1>1, <1>2, RecordCases DEF history

LEMMA TraceUndo ==
  ASSUME Alone, TypeInv, ApartInv, TraceInv, NEW p \in Projectors, Undo(p)
  PROVE  TraceInv'
<1>1. /\ run[p] \in RunType /\ TraceOK(p, run[p]) /\ JobsApart(run[p])
      /\ run[p].pc = "undo" /\ run[p].muts # <<>>
  BY UndoCases DEF TypeInv, RunsOK, ApartInv, TraceInv
<1>2. PICK o \in BOOLEAN, b \in BOOLEAN :
         /\ (o => Ours(Newest(p))) /\ (b => Backed(p, Newest(p)))
         /\ Goto(p, Decided(p, o, b))
  BY UndoCases
<1>3. run'[p] = Decided(p, o, b) /\ UNCHANGED <<dir, before, touched, missed>>
  BY <1>2, WentTo, UndoCases
<1>4. PICK r, s, m : r = run[p] /\ s = run'[p] /\ m = Newest(p)
  OBVIOUS
<1>5. /\ s.pc = "undoing" /\ s.muts = r.muts
      /\ s.conflicts >= r.conflicts /\ s.conflicts \in Nat /\ r.conflicts \in Nat
      /\ s.act = IF m.kind = "created" THEN (IF o THEN "unlink" ELSE "none")
                 ELSE IF ~b THEN "none"
                 ELSE IF o \/ ~Has(m.name) THEN "restore" ELSE "drop"
      /\ s.conflicts = r.conflicts =>
           /\ m.now # Nothing /\ Has(m.name) => o
           /\ m.kind # "created" => b
  BY <1>1, <1>3, <1>4, UndoneOK DEF TypeInv, RunType
<1>6. /\ m = s.muts[Len(s.muts)] /\ Len(r.muts) \in DOMAIN r.muts /\ m.name \in Names
      /\ \A i \in DOMAIN r.muts : r.muts[i].name \in Names
  <2>1. m = s.muts[Len(s.muts)] /\ m \in Mutation /\ Len(r.muts) \in Nat \ {0}
    BY <1>1, <1>4, <1>5, NewestIn DEF TypeInv
  <2>2. r.muts \in Seq(Mutation) /\ DOMAIN r.muts = 1 .. Len(r.muts)
    BY <1>1, <1>4, LenProperties DEF RunType
  <2>3. Len(r.muts) \in DOMAIN r.muts
    BY <2>1, <2>2
  <2>4. m.name \in Names
    BY <2>1 DEF Mutation
  <2>5. \A i \in DOMAIN r.muts : r.muts[i].name \in Names
    BY <2>2, MutsNamed
  <2>6. QED
    BY <2>1, <2>3, <2>4, <2>5
<1>7. ASSUME s.conflicts = 0 PROVE FoundOK(p, s)'
  <2>1. r.conflicts = 0 /\ s.conflicts = r.conflicts
    BY <1>5, <1>7
  <2>2. FoundOK(p, r) /\ r.pc = "undo"
    BY <1>1, <1>4, <2>1 DEF TraceOK, Active
  <2>3. s.act = "none" => ~Has(m.name)
    <3>1. m.kind = "created" => m.now # Nothing
      BY <1>1, <1>4, <1>5, <1>6 DEF JobsApart, MutsOK
    <3>2. QED
      BY <1>5, <2>1, <3>1
  <2>4. s.act = "drop" => ~Left(p, m.name)
    <3>1. s.act = "drop" => Has(m.name) /\ m.now = Nothing
      BY <1>5, <2>1
    <3>2. Left(p, m.name) => dir[m.name] = m.now
      BY <1>5, <1>6, <2>2 DEF FoundOK
    <3>3. QED
      BY <3>1, <3>2 DEF Has
  <2>5. \A x : Left(p, x)' <=> Left(p, x)
    BY <1>3 DEF Left
  <2>6. \A k \in Names : Left(p, k) /\ ~Mutated(s.muts, k) => before[p][k] = dir'[k]
    BY <1>3, <1>5, <2>2 DEF FoundOK
  <2>7. \A x \in OwnNames(p) : Left(p, x) => before[p][x] = Nothing
    BY <2>2 DEF FoundOK
  <2>8. ASSUME NEW i \in DOMAIN s.muts, Left(p, s.muts[i].name)
        PROVE  /\ dir'[s.muts[i].name] = s.muts[i].now
               /\ before[p][s.muts[i].name] = s.muts[i].was
               /\ s.muts[i].kind # "created" /\ Left(p, Bak(p, s.muts[i].name))
                    => dir'[Bak(p, s.muts[i].name)] = s.muts[i].was
    BY <1>3, <1>5, <2>2, <2>8 DEF FoundOK
  <2>9. QED
    BY <1>3, <1>5, <1>6, <2>3, <2>4, <2>5, <2>6, <2>7, <2>8 DEF FoundOK, Has
<1>8. QED
  BY <1>4, <1>5, <1>7, TraceActive DEF Active

LEMMA TraceUndoing ==
  ASSUME Alone, TypeInv, ApartInv, MissedInv, HandInv, TraceInv, NEW p \in Projectors, Undoing(p)
  PROVE  TraceInv'
<1>1. PICK r \in RunType, s \in RunType, m \in Mutation :
        r = run[p] /\ s = run'[p] /\ Takes(p, r, s, m)
  BY TakenTells
<1>2. /\ TakingOK(p, r) /\ JobsApart(r) /\ TraceOK(p, r) /\ r.pc = "undoing" /\ s.pc = "undo"
      /\ UNCHANGED <<before, touched, missed>>
  BY <1>1, UndoingCases DEF HandInv, ApartInv, TraceInv, Takes, TypeInv
<1>3. PICK n \in Names : n = m.name
  BY DEF Mutation
<1>4. \A k \in Names : /\ k \in AllNames /\ Bak(p, k) \in AllNames /\ k # Bak(p, n) /\ Bak(p, k) # n
                       /\ (Bak(p, k) = Bak(p, n) => k = n)
  BY NamesApart
<1>5. ASSUME s.conflicts = 0 PROVE FoundOK(p, s)'
  <2>1. r.conflicts = 0 /\ FoundOK(p, r)
    BY <1>1, <1>2, <1>5 DEF TraceOK, Active, Takes
  <2>2. /\ m = r.muts[Len(r.muts)] /\ Len(r.muts) \in DOMAIN r.muts
        /\ m.kind = "created" => m.was = Nothing
    BY <1>1, <1>2 DEF Takes, JobsApart, MutsOK
  <2>3. Left(p, n) => before[p][n] = m.was
    BY <1>3, <2>1, <2>2 DEF FoundOK
  <2>4. /\ r.act = "none" => m.kind = "created" /\ ~Has(n)
        /\ r.act = "drop" => ~Left(p, n)
    BY <1>2, <1>3, <2>1, <2>2 DEF TakingOK, FoundOK
  <2>5. \/ UNCHANGED dir /\ r.act = "none"
        \/ m.kind = "created" /\ dir' = [dir EXCEPT ![n] = Nothing]
        \/ r.act = "drop" /\ dir' = [dir EXCEPT ![Bak(p, n)] = Nothing]
        \/ dir' = [dir EXCEPT ![n] = m.was, ![Bak(p, n)] = Nothing]
    BY <1>1, <1>3, <1>5 DEF Takes
  <2>6. \A k \in Names : k # n => dir'[k] = dir[k] /\ dir'[Bak(p, k)] = dir[Bak(p, k)]
    BY <1>4, <2>5 DEF TypeInv, DirOK
  <2>7. Left(p, n) => dir'[n] = m.was
    BY <1>4, <2>2, <2>4, <2>5 DEF TypeInv, DirOK, Has
  <2>8. \A x : Left(p, x)' <=> Left(p, x)
    BY <1>2 DEF Left
  <2>9. ASSUME NEW k \in Names, Left(p, k), ~Mutated(s.muts, k) PROVE before[p][k] = dir'[k]
    <3>1. CASE k = n
      BY <2>3, <2>7, <2>9, <3>1
    <3>2. CASE k # n
      <4>1. ~Mutated(r.muts, k)
        <5> SUFFICES ASSUME NEW i \in DOMAIN r.muts, r.muts[i].name = k PROVE FALSE
          BY DEF Mutated
        <5>1. i # Len(r.muts)
          BY <1>1, <1>3, <3>2 DEF Takes
        <5>2. i \in DOMAIN s.muts /\ s.muts[i].name = k
          BY <1>1, <5>1 DEF Takes
        <5>3. QED
          BY <2>9, <5>2 DEF Mutated
      <4>2. QED
        BY <1>2, <2>1, <2>6, <2>9, <3>2, <4>1 DEF FoundOK
    <3>3. QED
      BY <3>1, <3>2
  <2>10. \A x \in OwnNames(p) : Left(p, x) => before[p][x] = Nothing
    BY <2>1 DEF FoundOK
  <2>11. ASSUME NEW i \in DOMAIN s.muts, Left(p, s.muts[i].name)
         PROVE  /\ dir'[s.muts[i].name] = s.muts[i].now
                /\ before[p][s.muts[i].name] = s.muts[i].was
                /\ s.muts[i].kind # "created" /\ Left(p, Bak(p, s.muts[i].name))
                     => dir'[Bak(p, s.muts[i].name)] = s.muts[i].was
    <3>1. i \in DOMAIN r.muts /\ s.muts[i] = r.muts[i] /\ i # Len(r.muts)
      BY <1>1 DEF Takes
    <3>2. s.muts[i].name # n
      BY <1>2, <1>3, <2>2, <3>1 DEF JobsApart, MutsOK
    <3>3. s.muts[i].name \in Names
      BY MutsNamed DEF RunType
    <3>4. QED
      BY <1>2, <2>1, <2>6, <2>11, <3>1, <3>2, <3>3 DEF FoundOK
  <2>12. QED
    BY <1>2, <2>8, <2>9, <2>10, <2>11 DEF FoundOK
<1>6. QED
  BY <1>1, <1>2, <1>5, TraceActive DEF Active

\* Once every mutation is taken back, and no conflict was met, all is as it was found.
LEMMA UnwoundAsFound ==
  ASSUME Alone, TypeInv, HandInv, TraceInv, NEW p \in Projectors,
         run[p].pc = "undo", run[p].muts = <<>>, run[p].conflicts = 0
  PROVE  AsFound(p)
<1>1. PICK r \in RunType : r = run[p]
  BY DEF TypeInv, RunsOK
<1>2. HandOK(p, r) /\ OursOK(p, r) /\ TraceOK(p, r)
  BY <1>1 DEF HandInv, TraceInv
<1>3. FoundOK(p, r) /\ r.pc = "undo" /\ r.conflicts = 0 /\ DOMAIN r.muts = {}
  BY <1>1, <1>2 DEF TraceOK, Active
<1>4. \A n \in Names : ~Has(Bak(p, n))
  BY <1>2, <1>3 DEF OursOK, Aside, Active
<1>5. Left(p, Tmp(p)) => ~Has(Tmp(p))
  BY <1>2, <1>3 DEF HandOK, Left
<1>6. \A x \in OwnNames(p) : Left(p, x) => dir[x] = Nothing
  BY <1>4, <1>5 DEF OwnNames, Has
<1>7. \A n \in AllNames : n \in Names \/ n \in OwnNames(p)
  BY DEF AllNames, Alone
<1>8. \A n \in Names : Left(p, n) => dir[n] = before[p][n]
  BY <1>3 DEF FoundOK, Mutated
<1>9. \A x \in OwnNames(p) : Left(p, x) => dir[x] = before[p][x]
  BY <1>3, <1>6 DEF FoundOK
<1>10. QED
  BY <1>7, <1>8, <1>9 DEF AsFound

LEMMA TraceUnwound ==
  ASSUME Alone, TypeInv, HandInv, TraceInv, NEW p \in Projectors, Unwound(p)
  PROVE  TraceInv'
<1>1. run[p] \in RunType /\ run[p].pc = "undo" /\ run[p].muts = <<>>
  BY DEF TypeInv, RunsOK, Unwound, At
<1>2. PICK r, s : r = run[p] /\ s = run'[p]
  OBVIOUS
<1>3. s = Report(run[p], run[p].status) /\ UNCHANGED <<dir, before, touched, missed>>
  BY <1>2, WentTo DEF Unwound, history
<1>4. s.pc = "done" /\ s.conflicts = r.conflicts
  BY <1>1, <1>2, <1>3, ReportIs
<1>5. r.conflicts = 0 => AsFound(p)
  BY <1>1, <1>2, UnwoundAsFound
<1>6. s.conflicts = 0 => AsFound(p)'
  BY <1>3, <1>4, <1>5 DEF AsFound, Left
<1>7. TraceOK(p, s)'
  BY <1>4, <1>6 DEF TraceOK, Active, Publishing
<1>8. QED
  BY <1>2, <1>7, TraceAlone

LEMMA TraceUser ==
  ASSUME Alone, ~UserRaces, TypeInv, TraceInv, NEW u \in UserNames, User(u)
  PROVE  TraceInv'
<1> SUFFICES ASSUME NEW p \in Projectors PROVE TraceOK(p, run[p])'
  BY DEF TraceInv
<1>1. PICK r \in RunType : r = run[p]
  BY DEF TypeInv, RunsOK
<1>2. r = run'[p] /\ UNCHANGED <<before, missed>> /\ touched'[p] = touched[p] \cup {u}
  BY <1>1 DEF User
<1>3. TraceOK(p, r)
  BY <1>1 DEF TraceInv
<1>4. \A x \in AllNames : Left(p, x)' => Left(p, x) /\ dir'[x] = dir[x]
  BY <1>2, UserNamesIn DEF Left, User, TypeInv, DirOK
<1>5. \A n \in Names : n \in AllNames /\ Bak(p, n) \in AllNames
  BY NamesApart
<1>6. OwnNames(p) \subseteq AllNames
  BY DEF AllNames
<1>7. AsFound(p) => AsFound(p)'
  BY <1>2, <1>4 DEF AsFound
<1>8. ASSUME FoundOK(p, r) PROVE FoundOK(p, r)'
  <2>1. \A i \in DOMAIN r.muts : r.muts[i].name \in Names
    BY MutsNamed DEF RunType
  <2>2. \A x \in OwnNames(p) : Left(p, x)' => before'[p][x] = Nothing
    BY <1>2, <1>4, <1>6, <1>8 DEF FoundOK
  <2>3. \A n \in Names : Left(p, n)' /\ ~Mutated(r.muts, n) =>
          before'[p][n] = IF r.pc = "record" /\ n = First(r.todo).name THEN Nothing ELSE dir'[n]
    BY <1>2, <1>4, <1>5, <1>8 DEF FoundOK
  <2>4. ASSUME r.pc \in {"compare", "move"}, Left(p, First(r.todo).name)'
        PROVE  r.held = before'[p][First(r.todo).name]
    <3>1. Left(p, First(r.todo).name)
      BY <1>2, <2>4 DEF Left
    <3>2. QED
      BY <1>2, <1>8, <2>4, <3>1 DEF FoundOK
  <2>5. ASSUME NEW i \in DOMAIN r.muts, Left(p, r.muts[i].name)'
        PROVE  /\ ~(r.pc = "record" /\ r.muts[i].name = First(r.todo).name) =>
                    dir'[r.muts[i].name] = r.muts[i].now
               /\ before'[p][r.muts[i].name] = r.muts[i].was
               /\ r.muts[i].kind # "created" /\ Left(p, Bak(p, r.muts[i].name))'
                    => dir'[Bak(p, r.muts[i].name)] = r.muts[i].was
    BY <1>2, <1>4, <1>5, <1>8, <2>1, <2>5 DEF FoundOK
  <2>6. ASSUME r.pc = "undoing"
        PROVE  /\ r.act = "none" => ~Has(r.muts[Len(r.muts)].name)'
               /\ r.act = "drop" => ~Left(p, r.muts[Len(r.muts)].name)'
    <3>1. dir'[r.muts[Len(r.muts)].name] = dir[r.muts[Len(r.muts)].name]
      BY <1>1, <2>6, UserSpares
    <3>2. QED
      BY <1>2, <1>8, <2>6, <3>1 DEF FoundOK, Has, Left
  <2>7. QED
    BY <2>2, <2>3, <2>4, <2>5, <2>6 DEF FoundOK
<1>9. TraceOK(p, r)'
  BY <1>3, <1>7, <1>8 DEF TraceOK
<1>10. QED
  BY <1>2, <1>9

LEMMA TraceNext ==
  ASSUME Alone, ~UserRaces
  PROVE  TypeInv /\ ApartInv /\ MissedInv /\ HandInv /\ TraceInv /\ [Next]_vars => TraceInv'
<1> SUFFICES ASSUME TypeInv, ApartInv, MissedInv, HandInv, TraceInv, [Next]_vars PROVE TraceInv'
  OBVIOUS
<1>1. ASSUME NEW p \in Projectors, Commit(p) \/ Unlink(p) \/ Die(p) PROVE TraceInv'
  <2>1. run[p] \in RunType
    BY DEF TypeInv, RunsOK
  <2>2. PICK s : s = run'[p]
    OBVIOUS
  <2>3. CASE Commit(p)
    <3>1. PICK c, x : s = [run[p] EXCEPT !.pc = "unlink", !.conflicts = c, !.drop = x]
      BY <2>2, <2>3, WentTo DEF Commit
    <3>2. s.pc = "unlink"
      BY <2>1, <3>1 DEF RunType
    <3>3. QED
      BY <2>2, <3>2, TraceFree DEF Active, Publishing
  <2>4. CASE Unlink(p)
    <3>1. PICK r : s = Report(r, "ok")
      BY <2>2, <2>4, WentTo DEF Unlink
    <3>2. s.pc = "done" /\ s.status = "ok"
      BY <3>1 DEF Report, Idle
    <3>3. QED
      BY <2>2, <3>2, TraceFree DEF Active, Publishing
  <2>5. CASE Die(p)
    <3>1. s = Idle /\ Idle.pc = "idle"
      BY <2>2, <2>5, WentTo DEF Die, Idle
    <3>2. QED
      BY <2>2, <3>1, TraceFree DEF Active, Publishing
  <2>6. QED
    BY <1>1, <2>3, <2>4, <2>5
<1>2. ASSUME NEW p \in Projectors, Fault(p) PROVE TraceInv'
  BY <1>2, TraceAborts DEF Fault
<1>3. ASSUME NEW p \in Projectors, Project(p) PROVE TraceInv'
  BY <1>1, <1>3, TraceBegin, TracePreflight, TraceLooking, TraceIdentify, TraceCheck, TraceMove,
     TraceTemp, TraceRename, TraceRecord, TraceUndo, TraceUndoing, TraceUnwound
     DEF Project, Publish, Looking
<1>4. ASSUME NEW u \in UserNames, User(u) PROVE TraceInv'
  BY <1>4, TraceUser
<1>5. ASSUME UNCHANGED <<dir, run, before, touched, missed>> PROVE TraceInv'
  BY <1>5 DEF TraceInv, TraceOK, FoundOK, AsFound, Left, Has
<1>6. QED
  BY <1>1, <1>2, <1>3, <1>4, <1>5 DEF Next, Drift, vars, history

LEMMA AlwaysTraced == Alone /\ ~UserRaces /\ Spec => []TraceInv
<1>1. Init => TraceInv
  <2> SUFFICES ASSUME Init, NEW p \in Projectors PROVE TraceOK(p, run[p])
    BY DEF TraceInv
  <2>1. run[p].pc = "idle"
    BY DEF Init, Idle
  <2>2. QED
    BY <2>1 DEF TraceOK, Active, Publishing
<1>2. CASE Alone /\ ~UserRaces
  <2>1. TypeInv /\ ApartInv /\ MissedInv /\ HandInv /\ TraceInv /\ [Next]_vars => TraceInv'
    BY <1>2, TraceNext
  <2>2. QED
    BY <1>1, <1>2, <2>1, AlwaysTyped, AlwaysApart, AlwaysMissed, AlwaysInHand, PTL DEF Spec
<1>3. QED
  BY <1>2

\* A run that was unwound and reports no conflict has put everything back that the user
\* left alone, wherever apply was when it failed.  What a second failure hid from it, it
\* has left alone: a file of its own, whole.
THEOREM UnwindingRestores == Alone /\ ~UserRaces /\ Spec => []RollbackRestores
<1>1. TraceInv /\ MissedInv => RollbackRestores
  <2> SUFFICES ASSUME TraceInv, MissedInv, NEW p \in Projectors, CleanlyUnwound(p)
               PROVE  /\ \A n \in AllNames \ (touched[p] \cup missed[p]) : dir[n] = before[p][n]
                      /\ \A n \in (missed[p] \cap Names) \ touched[p] : Is(n, Payload(p, n))
    BY DEF RollbackRestores
  <2>1. AsFound(p)
    BY DEF TraceInv, TraceOK, CleanlyUnwound, At
  <2>2. \A n \in (missed[p] \cap Names) \ touched[p] : Is(n, Desired(run[p].snap, n))
    BY DEF MissedInv, MissedOK, CleanlyUnwound, At
  <2>3. QED
    BY <2>1, <2>2 DEF AsFound, Left, Payload
<1>2. QED
  BY <1>1, AlwaysTraced, AlwaysMissed, PTL
-----------------------------------------------------------------------------
(* What the user wrote stays in the directory, if not under its name.      *)

Spares == \A x \in AllNames : OfUser(dir[x]) => \E y \in AllNames : dir'[y] = dir[x]

LEMMA SparedIsKept ==
  ASSUME Spares
  PROVE  UserFiles \subseteq {dir'[n].inode : n \in {m \in AllNames :
            dir'[m] # Nothing /\ dir'[m].content = UserText}}
<1> SUFFICES ASSUME NEW x \in AllNames, OfUser(dir[x])
             PROVE  \E y \in AllNames : /\ dir'[y] # Nothing /\ dir'[y].content = UserText
                                        /\ dir[x].inode = dir'[y].inode
  BY DEF UserFiles, Listing, Is, Has, OfUser
<1>1. QED
  BY DEF Spares, OfUser

\* A step that only takes away, or writes over, what is not the user's.
LEMMA SparesOthers ==
  ASSUME \A x \in AllNames : dir'[x] = dir[x] \/ ~OfUser(dir[x])
  PROVE  Spares
BY DEF Spares

LEMMA SparesAborts ==
  ASSUME TypeInv, HandInv, NEW p \in Projectors,
         dir' \in {dir, [dir EXCEPT ![Tmp(p)] = Nothing]}
  PROVE  Spares
<1>1. ~OfUser(dir[Tmp(p)])
  BY DEF HandInv, OursOK
<1>2. \A x \in AllNames : dir'[x] = dir[x] \/ x = Tmp(p)
  BY DEF TypeInv, DirOK
<1>3. QED
  BY <1>1, <1>2, SparesOthers

\* What is moved aside goes where no backup is.
LEMMA SparesMove ==
  ASSUME TypeInv, ApartInv, HandInv, NEW p \in Projectors, Move(p)
  PROVE  Spares
<1>1. CASE Gives(p, "failure")
  BY <1>1, SparesAborts DEF Gives, Abort
<1>2. CASE /\ Has(Job(p).name) /\ Job(p).name \in Names
           /\ dir' = [dir EXCEPT ![Bak(p, Job(p).name)] = dir[Job(p).name],
                                 ![Job(p).name] = Nothing]
  <2>1. PICK r \in RunType, n \in Names : r = run[p] /\ n = Job(p).name
    BY <1>2 DEF TypeInv, RunsOK
  <2>2. /\ r \in RunType /\ ShapeOK(r) /\ OursOK(p, r) /\ JobsApart(r) /\ r.pc = "move"
    BY <2>1 DEF TypeInv, RunsOK, HandInv, ApartInv, Move, At
  <2>3. r.pc \in Active /\ r.conflicts = 0
    BY <2>2 DEF ShapeOK, Active, Publishing
  <2>4. ~Aside(r.muts, n)
    <3>1. r.todo # {} /\ Job(p).kind # "check"
      BY <2>1, <2>2 DEF ShapeOK, Working, Moving, Writing, Job
    <3>2. Job(p) \in r.todo
      BY <2>1, <3>1, JobIn DEF TypeInv
    <3>3. QED
      BY <2>1, <2>2, <3>1, <3>2 DEF JobsApart, Aside, Writing
  <2>5. ~Has(Bak(p, n))
    BY <2>2, <2>3, <2>4 DEF OursOK
  <2>6. n \in AllNames /\ Bak(p, n) \in AllNames /\ Bak(p, n) # n
    BY NamesApart
  <2>7. \A x \in AllNames :
          dir'[x] = IF x = n THEN Nothing ELSE IF x = Bak(p, n) THEN dir[n] ELSE dir[x]
    BY <1>2, <2>1, <2>6 DEF TypeInv, DirOK
  <2>8. QED
    BY <2>5, <2>6, <2>7 DEF Spares, OfUser, Has
<1>3. QED
  BY <1>1, <1>2, MoveCases

LEMMA SparesWrites ==
  ASSUME TypeInv, HandInv, NEW p \in Projectors, Temp(p) \/ Rename(p)
  PROVE  Spares
<1>1. /\ HandOK(p, run[p]) /\ OursOK(p, run[p]) /\ Job(p).name \in Names
  BY WritingType DEF HandInv, Temp, Rename, At, Writing
<1>2. PICK n \in Names : n = Job(p).name
  BY <1>1
<1>3. CASE Temp(p)
  <2>1. ~Has(Tmp(p))
    BY <1>1, <1>3 DEF HandOK, Temp, At
  <2>2. \A x \in AllNames : dir'[x] = dir[x] \/ x = Tmp(p)
    BY <1>3 DEF Temp, TypeInv, DirOK
  <2>3. QED
    BY <2>1, <2>2, SparesOthers DEF OfUser, Has
<1>4. CASE Rename(p)
  <2>1. ~Has(n) /\ ~OfUser(dir[Tmp(p)])
    BY <1>1, <1>2, <1>4 DEF HandOK, OursOK, Rename, At, Job
  <2>2. \A x \in AllNames : dir'[x] = dir[x] \/ x = Tmp(p) \/ x = n
    BY <1>2, <1>4 DEF Rename, TypeInv, DirOK
  <2>3. QED
    BY <2>1, <2>2, SparesOthers DEF OfUser, Has
<1>5. QED
  BY <1>3, <1>4

\* Only backups that are what was moved aside are unlinked.
LEMMA SparesUnlink ==
  ASSUME HandInv, NEW p \in Projectors, Unlink(p)
  PROVE  Spares
<1>1. \A x \in run[p].drop : ~OfUser(dir[x])
  BY DEF HandInv, HandOK, Unlink, At
<1>2. \A x \in AllNames : dir'[x] = dir[x] \/ x \in run[p].drop
  BY DEF Unlink
<1>3. QED
  BY <1>1, <1>2, SparesOthers

\* A mutation is taken back where the file is what the run wrote, or is gone; what comes
\* back is moved, not copied.
LEMMA SparesUndoing ==
  ASSUME TypeInv, HandInv, NEW p \in Projectors, Undoing(p)
  PROVE  Spares
<1>1. PICK r \in RunType, s \in RunType, m \in Mutation :
        r = run[p] /\ s = run'[p] /\ Takes(p, r, s, m)
  BY TakenTells
<1>2. ~OfUser(m.was) /\ ~OfUser(m.now)
  BY <1>1 DEF HandInv, OursOK, Takes
<1>3. PICK n \in Names : n = m.name
  BY DEF Mutation
<1>4. n \in AllNames /\ Bak(p, n) \in AllNames /\ Bak(p, n) # n
  BY NamesApart
<1>5. \/ UNCHANGED dir
      \/ dir[n] = m.now /\ dir' = [dir EXCEPT ![n] = Nothing]
      \/ dir[Bak(p, n)] = m.was /\ dir' = [dir EXCEPT ![Bak(p, n)] = Nothing]
      \/ /\ dir[Bak(p, n)] = m.was /\ dir[n] \in {Nothing, m.now}
         /\ dir' = [dir EXCEPT ![n] = m.was, ![Bak(p, n)] = Nothing]
  BY <1>1, <1>3 DEF Takes
<1>6. \A x \in AllNames : \/ dir'[x] = dir[x]
                          \/ x = n /\ dir[n] \in {Nothing, m.now}
                          \/ x = Bak(p, n) /\ dir[Bak(p, n)] = m.was
  BY <1>4, <1>5 DEF TypeInv, DirOK
<1>7. QED
  BY <1>2, <1>6, SparesOthers DEF OfUser

LEMMA SparesNext ==
  ASSUME TypeInv, ApartInv, HandInv, [Next]_vars
  PROVE  Spares \/ edits' # edits
<1>1. ASSUME UNCHANGED dir PROVE Spares
  BY <1>1 DEF Spares
<1>2. ASSUME NEW p \in Projectors, NEW status, Abort(p, status) PROVE Spares
  BY <1>2, SparesAborts DEF Abort
<1>3. ASSUME NEW p \in Projectors, Die(p) PROVE Spares
  BY <1>3, SparesAborts DEF Die
<1>4. ASSUME NEW p \in Projectors, Project(p) PROVE Spares
  <2>1. CASE Move(p) \/ Temp(p) \/ Rename(p) \/ Unlink(p) \/ Undoing(p)
    BY <2>1, SparesMove, SparesWrites, SparesUnlink, SparesUndoing
  <2>2. CASE Begin(p) \/ Preflight(p) \/ Commit(p) \/ Undo(p) \/ Unwound(p)
    BY <1>1, <2>2 DEF Begin, Preflight, Commit, Undo, Unwound
  <2>3. CASE \/ Fresh(p) \/ Apply(p) \/ Recheck(p) \/ Validate(p) \/ Look(p) \/ Verify(p)
             \/ Identify(p) \/ Compare(p) \/ Record(p) \/ Check(p)
    BY <1>1, <1>2, <2>3 DEF Fresh, Apply, Recheck, Validate, Look, Verify, Identify, Compare,
       Record, Check, Proceed, Fail
  <2>4. QED
    BY <1>4, <2>1, <2>2, <2>3 DEF Project, Publish
<1>5. ASSUME NEW u \in UserNames, User(u) PROVE edits' # edits
  BY <1>5 DEF User, TypeInv
<1>6. QED
  BY <1>1, <1>2, <1>3, <1>4, <1>5 DEF Next, Fault, Drift, vars

\* No step of a run destroys what the user wrote: not when it moves files aside, not when
\* it drops its backups, not when it is unwound, and not where it dies.
THEOREM UserWorkIsKept == Alone /\ ~UserRaces /\ Spec => UserWorkKept
<1>1. TypeInv /\ ApartInv /\ HandInv /\ [Next]_vars =>
        [UserFiles \subseteq {dir'[n].inode : n \in {m \in AllNames :
              dir'[m] # Nothing /\ dir'[m].content = UserText}}
         \/ edits' # edits]_vars
  BY SparesNext, SparedIsKept
<1>2. QED
  BY <1>1, AlwaysTyped, AlwaysApart, AlwaysInHand, PTL DEF Spec, UserWorkKept
-----------------------------------------------------------------------------
(***************************************************************************)
(* What a run that died leaves is taken up by the next one.                *)
(*                                                                         *)
(* As long as no run has died, a directory between two runs is the last    *)
(* publication (Settled).  A run that dies has only created files so far,  *)
(* or there is a backup: what it created is what its snapshot renders, and *)
(* the marker came first.  The next run on the same snapshot adopts that.  *)
(***************************************************************************)

\* The job of creating the marker is the first of a plan; what a run has created is
\* what its snapshot renders.
Making(r) == \E j \in r.todo : j.name = Marker

WrittenOK(p, r) ==
  /\ \A j \in r.todo : /\ j.kind = "create" => Desired(r.snap, j.name) # Nothing
                       /\ j.name = Marker => j.kind = "create"
  /\ \A i \in DOMAIN r.muts : r.muts[i].kind = "created" =>
       /\ r.muts[i].now.content = Desired(r.snap, r.muts[i].name)
       /\ Desired(r.snap, r.muts[i].name) # Nothing
  /\ Making(r) => r.muts = <<>>
  /\ before[p][Marker] = Nothing /\ r.pc \in Active =>
       Making(r) \/ (r.muts = <<>> /\ r.pc = "undo") \/ (r.muts # <<>> /\ r.muts[1].name = Marker)
WrittenInv == \A p \in Projectors : WrittenOK(p, run[p])

\* Without a move of the user, a run meets a conflict only where a call failed.
ClearInv ==
  /\ \A x \in lost : x <= rev
  /\ 0 \notin lost => \A p \in Projectors : missed[p] = {}
  /\ edits = 0 => \A p \in Projectors :
       /\ touched[p] = {}
       /\ 0 \notin lost /\ run[p].pc \in Active => run[p].conflicts = 0

\* A directory D, by what its manifest lists: every file and no other is there, or there
\* are files more, or fewer, that a run on the snapshot r would write just so.
ListedIn(D) == IF D[Manifest] # Nothing THEN D[Manifest].content ELSE Unlisted
Bare(D) == \A n \in Names : D[n] = Nothing
Marked(D) ==
  /\ D[Marker] # Nothing /\ D[Marker].content = MarkerText
  /\ D[Manifest] # Nothing => D[Manifest].content \in Range(Rendering)
Settled(D) ==
  \/ Bare(D)
  \/ Marked(D) /\ \A d \in Docs :
       IF D[d] = Nothing THEN ListedIn(D)[d] = Nothing
       ELSE ListedIn(D)[d] # Nothing /\ D[d].content = ListedIn(D)[d]
Adopts(D, r) ==
  \/ Bare(D)
  \/ Marked(D) /\ \A d \in Docs :
       IF D[d] = Nothing THEN ListedIn(D)[d] \in {Nothing, Rendering[r][d]}
       ELSE IF ListedIn(D)[d] # Nothing THEN D[d].content = ListedIn(D)[d]
       ELSE Rendering[r][d] # Nothing /\ D[d].content = Rendering[r][d]
NoBackups(D) == \A p \in Projectors, n \in Names : D[Bak(p, n)] = Nothing

\* What the snapshots l of dead runs, and the state r of the database, promise of D.
Good(D, l, r) ==
  /\ l = {} => Settled(D)
  /\ l \subseteq {r} /\ NoBackups(D) => Adopts(D, r)
GoodInv ==
  edits = 0 =>
    /\ (\A p \in Projectors : run[p].pc \in {"idle", "done"}) => Good(dir, lost, rev)
    /\ \A p \in Projectors : run[p].pc \notin {"idle", "done"} => Good(before[p], lost, rev)

(* Facts about directories.                                                *)

LEMMA SettledAdopts ==
  ASSUME NEW D, Settled(D), NEW r
  PROVE  Adopts(D, r)
BY DEF Settled, Adopts

LEMMA GoodGoesOn ==
  ASSUME NEW D, NEW l, NEW r \in Nat, Good(D, l, r), \A x \in l : x <= r,
         NEW m, l \subseteq m, NEW q \in Nat, q = r \/ (q = r + 1 /\ m = l)
  PROVE  Good(D, m, q)
<1>1. m = {} => Settled(D)
  BY DEF Good
<1>2. ASSUME m \subseteq {q}, NoBackups(D) PROVE Adopts(D, q)
  <2>1. CASE q = r
    BY <1>2, <2>1 DEF Good
  <2>2. CASE q = r + 1 /\ m = l
    <3>1. q \notin l
      BY <2>2
    <3>2. l = {}
      BY <1>2, <2>2, <3>1
    <3>3. QED
      BY <3>2, SettledAdopts DEF Good
  <2>3. QED
    BY <2>1, <2>2
<1>3. QED
  BY <1>1, <1>2 DEF Good

LEMMA GoodSame ==
  ASSUME NEW D, NEW E, NEW l, NEW r, Good(D, l, r),
         \A n \in Names : E[n] = D[n],
         \A p \in Projectors, n \in Names : E[Bak(p, n)] = D[Bak(p, n)]
  PROVE  Good(E, l, r)
<1>1. Marker \in Names /\ Manifest \in Names /\ Docs \subseteq Names
  BY DEF Names
<1>2. ListedIn(E) = ListedIn(D) /\ (Bare(D) => Bare(E)) /\ (Marked(D) => Marked(E))
  BY <1>1 DEF ListedIn, Bare, Marked
<1>3. Settled(D) => Settled(E)
  BY <1>1, <1>2 DEF Settled
<1>4. Adopts(D, r) => Adopts(E, r)
  BY <1>1, <1>2 DEF Adopts
<1>5. NoBackups(E) => NoBackups(D)
  BY DEF NoBackups
<1>6. QED
  BY <1>3, <1>4, <1>5 DEF Good

\* D is adopted, and E has more files only, as the snapshot r renders them.
LEMMA MoreAdopts ==
  ASSUME NEW D, NEW E, NEW r \in Revisions, Adopts(D, r),
         \A n \in Names : \/ E[n] = D[n]
                          \/ /\ D[n] = Nothing /\ E[n] # Nothing
                             /\ E[n].content = Desired(r, n) /\ Desired(r, n) # Nothing,
         D[Marker] = Nothing /\ E[Marker] = Nothing => Bare(E)
  PROVE  Adopts(E, r)
<1>1. Marker \in Names /\ Manifest \in Names /\ Docs \subseteq Names
  BY DEF Names
<1>2. /\ Desired(r, Marker) = MarkerText /\ Desired(r, Manifest) = Rendering[r]
      /\ \A d \in Docs : Desired(r, d) = Rendering[r][d]
  BY NamesAssumption DEF Desired
<1>3. Rendering[r] \in Range(Rendering)
  BY ProjectionAssumption, LenProperties DEF Revisions, Range
<1>4. \A d \in Docs : Unlisted[d] = Nothing
  BY DEF Unlisted
<1>5. ASSUME E[Marker] # Nothing PROVE Adopts(E, r)
  <2>1. \/ Bare(D)
        \/ Marked(D) /\ \A d \in Docs :
             IF D[d] = Nothing THEN ListedIn(D)[d] \in {Nothing, Rendering[r][d]}
             ELSE IF ListedIn(D)[d] # Nothing THEN D[d].content = ListedIn(D)[d]
             ELSE Rendering[r][d] # Nothing /\ D[d].content = Rendering[r][d]
    BY DEF Adopts
  <2>2. Marked(E)
    BY <1>1, <1>2, <1>3, <1>5, <2>1 DEF Marked, Bare
  <2>3. \/ ListedIn(E) = ListedIn(D)
        \/ ListedIn(D) = Unlisted /\ ListedIn(E) = Rendering[r]
    BY <1>1, <1>2 DEF ListedIn
  <2>4. ASSUME NEW d \in Docs
        PROVE  IF E[d] = Nothing THEN ListedIn(E)[d] \in {Nothing, Rendering[r][d]}
               ELSE IF ListedIn(E)[d] # Nothing THEN E[d].content = ListedIn(E)[d]
               ELSE Rendering[r][d] # Nothing /\ E[d].content = Rendering[r][d]
    <3>1. CASE Bare(D)
      <4>1. ListedIn(D) = Unlisted
        BY <1>1, <3>1 DEF ListedIn, Bare
      <4>2. ListedIn(E)[d] \in {Nothing, Rendering[r][d]}
        BY <1>4, <2>3, <4>1
      <4>3. E[d] # Nothing => E[d].content = Rendering[r][d] /\ Rendering[r][d] # Nothing
        BY <1>1, <1>2, <3>1 DEF Bare
      <4>4. QED
        BY <4>2, <4>3
    <3>2. CASE ~Bare(D)
      <4>1. /\ D[d] = Nothing => ListedIn(D)[d] \in {Nothing, Rendering[r][d]}
            /\ D[d] # Nothing /\ ListedIn(D)[d] # Nothing => D[d].content = ListedIn(D)[d]
            /\ D[d] # Nothing /\ ListedIn(D)[d] = Nothing =>
                 Rendering[r][d] # Nothing /\ D[d].content = Rendering[r][d]
        BY <2>1, <3>2
      <4>2. \/ E[d] = D[d]
            \/ /\ D[d] = Nothing /\ E[d] # Nothing
               /\ E[d].content = Rendering[r][d] /\ Rendering[r][d] # Nothing
        BY <1>1, <1>2
      <4>3. CASE ListedIn(E) = ListedIn(D)
        BY <4>1, <4>2, <4>3
      <4>4. CASE ListedIn(D) = Unlisted /\ ListedIn(E) = Rendering[r]
        BY <1>4, <4>1, <4>2, <4>4
      <4>5. QED
        BY <2>3, <4>3, <4>4
    <3>3. QED
      BY <3>1, <3>2
  <2>5. QED
    BY <2>2, <2>4 DEF Adopts
<1>6. ASSUME E[Marker] = Nothing PROVE Adopts(E, r)
  <2>1. D[Marker] = Nothing
    BY <1>1, <1>6
  <2>2. QED
    BY <1>6, <2>1 DEF Adopts
<1>7. QED
  BY <1>5, <1>6

(* The marker, and what a run has created.                                 *)

LEMMA MarkerComesFirst ==
  ASSUME NEW todo \in SUBSET JobType, \E j \in todo : j.name = Marker
  PROVE  First(todo) \in todo /\ First(todo).name = Marker
<1>1. PICK j \in todo : j.name = Marker
  OBVIOUS
<1>2. First(todo) \in todo /\ Turn(First(todo)) <= Turn(j)
  BY <1>1, FirstLeast
<1>3. PICK f \in JobType : f = First(todo)
  BY <1>2
<1>4. Len(DocNames) \in Nat
  BY ProjectionAssumption, LenProperties
<1>5. Turn(j) = 0
  <2>1. Phase(j) = 0 /\ Place(j.name) = 0
    BY <1>1, NamesAssumption DEF Phase, Place
  <2>2. QED
    BY <1>4, <2>1 DEF Turn
<1>6. f.name # Marker => Turn(f) > 0
  <2>1. f.name # Marker => Phase(f) \in {1, 2, 3, 4, 5}
    BY DEF Phase
  <2>2. Place(f.name) \in Nat
    <3>1. f.name \in Docs => \E i \in DOMAIN DocNames : DocNames[i] = f.name
      BY DEF Docs, Range
    <3>2. DOMAIN DocNames = 1 .. Len(DocNames)
      BY ProjectionAssumption, LenProperties
    <3>3. QED
      BY <1>4, <3>1, <3>2 DEF Place
  <2> DEFINE k == Len(DocNames) + 1
             ph == Phase(f)
             pl == Place(f.name)
  <2>3. k \in Nat /\ k > 0 /\ Turn(f) = ph * k + pl
    BY <1>4 DEF Turn
  <2> HIDE DEF k, ph, pl
  <2>4. ph \in {1, 2, 3, 4, 5} => ph * k > 0
    <3>1. 1 * k > 0 /\ 2 * k > 0 /\ 3 * k > 0 /\ 4 * k > 0 /\ 5 * k > 0
      BY <2>3
    <3>2. QED
      BY <3>1
  <2>5. ph \in {1, 2, 3, 4, 5} => ph * k \in Nat
    <3>1. 1 * k \in Nat /\ 2 * k \in Nat /\ 3 * k \in Nat /\ 4 * k \in Nat /\ 5 * k \in Nat
      BY <2>3
    <3>2. QED
      BY <3>1
  <2>6. QED
    BY <2>1, <2>2, <2>3, <2>4, <2>5 DEF ph, pl
<1>7. Turn(f) \in Nat
  BY TurnIsNat
<1>8. QED
  BY <1>2, <1>3, <1>5, <1>6, <1>7

\* The user has nothing to do with the marker.
LEMMA MarkerLeft ==
  ASSUME TypeInv, NEW p \in Projectors
  PROVE  Marker \notin touched[p] /\ Marker \in Names /\ Marker \in AllNames
<1>1. Marker \in Names /\ Marker \in AllNames
  BY DEF Names, AllNames
<1>2. Marker \notin UserNames
  <2>1. \A q \in Projectors, d \in Docs : Bak(q, d) \in OwnNames(q) /\ Marker \notin OwnNames(q)
    BY <1>1, NamesAssumption DEF OwnNames, Names
  <2>2. QED
    BY <2>1, NamesAssumption DEF UserNames
<1>3. QED
  BY <1>1, <1>2 DEF TypeInv

LEMMA WrittenAlone ==
  ASSUME Alone, NEW p \in Projectors, NEW s, run'[p] = s, WrittenOK(p, s)'
  PROVE  WrittenInv'
<1>1. WrittenOK(p, run[p])'
  OBVIOUS
<1>2. QED
  BY <1>1 DEF WrittenInv, Alone

\* A run without a job and without a mutation.
LEMMA WrittenFree ==
  ASSUME NEW p \in Projectors, NEW s, s.todo = {}, s.muts = <<>>,
         s.pc \in Active => s.pc = "undo"
  PROVE  WrittenOK(p, s)'
<1>1. DOMAIN s.muts = {} /\ ~Making(s)
  BY DEF Making
<1>2. QED
  BY <1>1 DEF WrittenOK

\* A step that writes nothing down, and may be through with a job that is not the marker's.
LEMMA WrittenGoesOn ==
  ASSUME NEW p \in Projectors, NEW r, WrittenOK(p, r), NEW s, s.snap = r.snap, s.muts = r.muts,
         s.todo \subseteq r.todo, Making(r) => Making(s),
         s.pc \in Active => r.pc \in Active /\ (r.pc # "undo" \/ r.muts # <<>>),
         UNCHANGED before
  PROVE  WrittenOK(p, s)'
<1>1. Making(s) => Making(r)
  BY DEF Making
<1>2. QED
  BY <1>1 DEF WrittenOK

\* A mutation is recorded, and the job done or the run cut short.
LEMMA WrittenMore ==
  ASSUME NEW p \in Projectors, NEW r, WrittenOK(p, r), r.pc \in Active /\ r.pc # "undo",
         NEW s, s.snap = r.snap, s.todo \subseteq r.todo, ~Making(s), UNCHANGED before,
         s.muts # <<>>, 1 \in DOMAIN s.muts,
         r.muts # <<>> => s.muts[1].name = r.muts[1].name,
         r.muts = <<>> /\ Making(r) => s.muts[1].name = Marker,
         \A i \in DOMAIN s.muts : s.muts[i].kind = "created" =>
           /\ s.muts[i].now.content = Desired(s.snap, s.muts[i].name)
           /\ Desired(s.snap, s.muts[i].name) # Nothing
  PROVE  WrittenOK(p, s)'
BY DEF WrittenOK

LEMMA PublishedWritten ==
  ASSUME TypeInv, NEW p \in Projectors, run[p].pc = "record", HandOK(p, run[p]),
         WrittenOK(p, run[p])
  PROVE  /\ Published(p) # <<>> /\ 1 \in DOMAIN Published(p)
         /\ run[p].muts # <<>> => Published(p)[1].name = run[p].muts[1].name
         /\ run[p].muts = <<>> => Published(p)[1].name = Job(p).name
         /\ \A i \in DOMAIN Published(p) : Published(p)[i].kind = "created" =>
              /\ Published(p)[i].now.content = Desired(run[p].snap, Published(p)[i].name)
              /\ Desired(run[p].snap, Published(p)[i].name) # Nothing
<1>1. PICK r, u, n : r = run[p] /\ u = Published(p) /\ n = Job(p).name
  OBVIOUS
<1>2. /\ \A i \in DOMAIN u :
           \/ i \in DOMAIN r.muts /\ u[i] = r.muts[i]
           \/ /\ u[i].name = n /\ u[i].now = dir[n]
              /\ \/ Job(p).kind = "create"
                 \/ /\ i \in DOMAIN r.muts /\ r.muts[i].name = n
                    /\ u[i].kind = r.muts[i].kind
      /\ \A i \in DOMAIN r.muts : i \in DOMAIN u /\ u[i].name = r.muts[i].name
      /\ \E i \in DOMAIN u : u[i].name = n
  BY <1>1, PublishedTells DEF Writing
<1>3. u \in Seq(Mutation) /\ r.muts \in Seq(Mutation)
  BY <1>1, PublishedOK DEF TypeInv, Writing
<1>4. u # <<>> /\ 1 \in DOMAIN u /\ (r.muts # <<>> => 1 \in DOMAIN r.muts)
  <2>1. DOMAIN u # {}
    BY <1>2
  <2>2. /\ DOMAIN u = 1 .. Len(u) /\ Len(u) \in Nat
        /\ DOMAIN r.muts = 1 .. Len(r.muts) /\ Len(r.muts) \in Nat
        /\ r.muts # <<>> => Len(r.muts) # 0
    BY <1>3, LenProperties, EmptySeq
  <2>3. Len(u) >= 1
    BY <2>1, <2>2
  <2>4. QED
    BY <2>1, <2>2, <2>3
<1>5. dir[n].content = Desired(r.snap, n)
  BY <1>1 DEF HandOK, Is, Job
<1>6. Job(p).kind = "create" => Desired(r.snap, n) # Nothing
  <2>1. Job(p) \in r.todo
    BY <1>1, WritingType, JobIn DEF TypeInv, Writing
  <2>2. QED
    BY <1>1, <2>1 DEF WrittenOK
<1>7. \A i \in DOMAIN r.muts : r.muts[i].kind = "created" =>
        /\ r.muts[i].now.content = Desired(r.snap, r.muts[i].name)
        /\ Desired(r.snap, r.muts[i].name) # Nothing
  BY <1>1 DEF WrittenOK
<1>8. \A i \in DOMAIN u : u[i].kind = "created" =>
        u[i].now.content = Desired(r.snap, u[i].name) /\ Desired(r.snap, u[i].name) # Nothing
  BY <1>2, <1>5, <1>6, <1>7
<1>9. r.muts = <<>> => u[1].name = n
  <2>1. r.muts = <<>> => DOMAIN r.muts = {}
    OBVIOUS
  <2>2. QED
    BY <1>2, <1>4, <2>1
<1>10. r.muts # <<>> => u[1].name = r.muts[1].name
  BY <1>2, <1>4
<1>11. QED
  BY <1>1, <1>4, <1>8, <1>9, <1>10

LEMMA WrittenAborts ==
  ASSUME Alone, TypeInv, HandInv, WrittenInv, NEW p \in Projectors,
         NEW status \in {"stale", "failure"},
         Abort(p, status), run[p].pc \in Publishing \cup {"fresh"}
  PROVE  WrittenInv'
<1>1. run'[p] = ToUndo(p, status) /\ ToUndo(p, status) \in RunType
  BY AbortOK DEF TypeInv
<1>2. PICK r \in RunType, s \in RunType : r = run[p] /\ s = run'[p]
  BY <1>1 DEF TypeInv, RunsOK
<1>3. /\ s.pc = "undo" /\ s.todo = {} /\ s.snap = r.snap
      /\ s.muts = IF Kept(p) THEN Published(p) ELSE r.muts
  BY <1>1, <1>2 DEF ToUndo, RunType
<1>4. HandOK(p, r) /\ WrittenOK(p, r)
  BY <1>2 DEF HandInv, WrittenInv
<1>5. Kept(p) => r.pc = "record"
  <2>1. r.pc \in {"temp", "rename"} => ~Wrote(p)
    BY <1>2, <1>4 DEF HandOK, Wrote, Is, Job
  <2>2. QED
    BY <1>2, <2>1 DEF Kept, Wrote, Writing
<1>6. UNCHANGED before /\ ~Making(s) /\ r.pc \in Active /\ r.pc # "undo"
  BY <1>2, <1>3 DEF Abort, Making, Active, Publishing
<1>7. CASE Kept(p)
  <2>1. s.muts = Published(p) /\ r.pc = "record"
    BY <1>3, <1>5, <1>7
  <2>2. /\ s.muts # <<>> /\ 1 \in DOMAIN s.muts
        /\ r.muts # <<>> => s.muts[1].name = r.muts[1].name
        /\ r.muts = <<>> => s.muts[1].name = Job(p).name
        /\ \A i \in DOMAIN s.muts : s.muts[i].kind = "created" =>
             /\ s.muts[i].now.content = Desired(s.snap, s.muts[i].name)
             /\ Desired(s.snap, s.muts[i].name) # Nothing
    BY <1>2, <1>3, <1>4, <2>1, PublishedWritten
  <2>3. Making(r) => Job(p).name = Marker
    BY <1>2, MarkerComesFirst DEF Making, Job, RunType
  <2>4. WrittenOK(p, s)'
    BY <1>3, <1>4, <1>6, <2>2, <2>3, WrittenMore
  <2>5. QED
    BY <1>2, <2>4, WrittenAlone
<1>8. CASE ~Kept(p)
  <2>1. s.muts = r.muts
    BY <1>3, <1>8
  <2>2. WrittenOK(p, s)'
    BY <1>3, <1>4, <1>6, <2>1 DEF WrittenOK
  <2>3. QED
    BY <1>2, <2>2, WrittenAlone
<1>9. QED
  BY <1>7, <1>8

LEMMA WrittenLooking ==
  ASSUME Alone, TypeInv, HandInv, WrittenInv, NEW p \in Projectors, Looking(p)
  PROVE  WrittenInv'
<1>1. run[p] \in RunType /\ ShapeOK(run[p]) /\ WrittenOK(p, run[p])
  BY DEF TypeInv, RunsOK, WrittenInv
<1>2. ASSUME NEW pc, Onward(run[p], pc), Saw(p), Proceed(p, pc)
      PROVE  WrittenInv'
  <2>1. PICK r, s : r = run[p] /\ s = run'[p]
    OBVIOUS
  <2>2. s = [run[p] EXCEPT !.pc = pc] /\ UNCHANGED before
    BY <1>2, <2>1, WentTo DEF Proceed, history
  <2>3. s.snap = r.snap /\ s.todo = r.todo /\ s.muts = r.muts
    BY <1>1, <2>1, <2>2 DEF RunType
  <2>4. r.pc \in Active /\ r.pc # "undo"
    BY <1>2, <2>1 DEF Onward, Active, Publishing
  <2>5. (Making(r) => Making(s)) /\ s.todo \subseteq r.todo /\ WrittenOK(p, r)
    BY <1>1, <2>1, <2>3 DEF Making
  <2>6. s.pc \in Active => r.pc \in Active /\ (r.pc # "undo" \/ r.muts # <<>>)
    BY <2>4
  <2> HIDE <2>1
  <2>7. WrittenOK(p, s)'
    BY <2>2, <2>3, <2>5, <2>6, WrittenGoesOn
  <2>8. QED
    BY <2>1, <2>7, WrittenAlone
<1>3. ASSUME NEW status \in {"stale", "failure"}, Gives(p, status)
      PROVE  WrittenInv'
  BY <1>3, WrittenAborts DEF Gives
<1>4. QED
  BY <1>2, <1>3, LookingCases

\* The steps that only move on, without a look at the database.
LEMMA WrittenMovesOn ==
  ASSUME Alone, TypeInv, HandInv, WrittenInv, NEW p \in Projectors,
         Identify(p) \/ Temp(p) \/ Rename(p) \/ Commit(p)
  PROVE  WrittenInv'
<1>1. run[p] \in RunType /\ WrittenOK(p, run[p])
  BY DEF TypeInv, RunsOK, WrittenInv
<1>2. ASSUME NEW r, NEW s, r = run[p], s = run'[p], s.snap = r.snap, s.todo = r.todo,
             s.muts = r.muts, s.pc \in Active => r.pc \in Active /\ r.pc # "undo",
             UNCHANGED before
      PROVE  WrittenInv'
  <2>1. WrittenOK(p, s)'
    BY <1>1, <1>2, WrittenGoesOn DEF Making
  <2>2. QED
    BY <1>2, <2>1, WrittenAlone
<1>3. CASE Identify(p)
  <2>1. CASE ~Has(Job(p).name)
    BY <1>3, <2>1, WrittenAborts DEF Identify, Fail, At, Publishing
  <2>2. CASE Has(Job(p).name)
    <3>1. /\ run'[p] = [run[p] EXCEPT !.pc = "compare", !.held = dir[Job(p).name]]
          /\ UNCHANGED before /\ run[p].pc = "identify"
      BY <1>3, <2>2, WentTo DEF Identify, At, history
    <3>2. QED
      BY <1>1, <1>2, <3>1 DEF RunType, Active, Publishing
  <2>3. QED
    BY <2>1, <2>2
<1>4. CASE Temp(p)
  <2>1. /\ run'[p] = [run[p] EXCEPT !.pc = "rename"]
        /\ UNCHANGED before /\ run[p].pc = "temp"
    BY <1>4, WentTo DEF Temp, At, history
  <2>2. QED
    BY <1>1, <1>2, <2>1 DEF RunType, Active, Publishing
<1>5. CASE Rename(p)
  <2>1. /\ run'[p] = [run[p] EXCEPT !.pc = "record"]
        /\ UNCHANGED before /\ run[p].pc = "rename"
    BY <1>5, WentTo DEF Rename, At
  <2>2. QED
    BY <1>1, <1>2, <2>1 DEF RunType, Active, Publishing
<1>6. CASE Commit(p)
  <2>1. PICK c, x : run'[p] = [run[p] EXCEPT !.pc = "unlink", !.conflicts = c, !.drop = x]
    BY <1>6, WentTo DEF Commit
  <2>2. UNCHANGED before
    BY <1>6 DEF Commit, history
  <2>3. run'[p].pc \notin Active
    BY <1>1, <2>1 DEF RunType, Active, Publishing
  <2>4. run'[p].snap = run[p].snap /\ run'[p].todo = run[p].todo /\ run'[p].muts = run[p].muts
    BY <1>1, <2>1 DEF RunType
  <2>5. QED
    BY <1>2, <2>2, <2>3, <2>4
<1>7. QED
  BY <1>3, <1>4, <1>5, <1>6

LEMMA WrittenCheck ==
  ASSUME Alone, TypeInv, HandInv, WrittenInv, NEW p \in Projectors, Check(p)
  PROVE  WrittenInv'
<1>1. run[p] \in RunType /\ ShapeOK(run[p]) /\ WrittenOK(p, run[p]) /\ run[p].pc = "check"
  BY DEF TypeInv, RunsOK, WrittenInv, Check, At
<1>2. CASE Fail(p)
  BY <1>1, <1>2, WrittenAborts DEF Fail, Publishing
<1>3. CASE Goto(p, NextJob(run[p])) /\ UNCHANGED before
  <2>1. PICK r, s : r = run[p] /\ s = run'[p]
    OBVIOUS
  <2>2. s = NextJob(run[p])
    BY <1>3, <2>1, WentTo
  <2>3. run[p].todo # {} /\ run[p].conflicts = 0 /\ First(run[p].todo).kind = "check"
    BY <1>1 DEF ShapeOK, Working, Publishing
  <2>4. s.muts = r.muts /\ s.snap = r.snap /\ s.todo \subseteq r.todo
    BY <1>1, <2>1, <2>2, <2>3, NextJobOK DEF Same
  <2>5. ~Making(r)
    BY <1>1, <2>1, <2>3, MarkerComesFirst DEF Making, WrittenOK, RunType
  <2>6. WrittenOK(p, s)'
    BY <1>1, <1>3, <2>1, <2>4, <2>5, WrittenGoesOn DEF Active, Publishing
  <2>7. QED
    BY <2>1, <2>6, WrittenAlone
<1>4. QED
  BY <1>2, <1>3 DEF Check, history

LEMMA WrittenMove ==
  ASSUME Alone, TypeInv, HandInv, WrittenInv, NEW p \in Projectors, Move(p)
  PROVE  WrittenInv'
<1>1. CASE Gives(p, "failure")
  BY <1>1, WrittenAborts DEF Gives
<1>2. CASE Goto(p, AfterMove(p)) /\ UNCHANGED before
  <2>1. /\ run[p] \in RunType /\ ShapeOK(run[p]) /\ WrittenOK(p, run[p]) /\ run[p].pc = "move"
    BY DEF TypeInv, RunsOK, WrittenInv, Move, At
  <2>2. PICK r, s, m : r = run[p] /\ s = run'[p] /\ m = Moved(p)
    OBVIOUS
  <2>3. s = AfterMove(p)
    BY <1>2, <2>2, WentTo
  <2>4. /\ s.muts = Append(r.muts, m) /\ m \in Mutation /\ s.snap = r.snap
        /\ s.todo \subseteq r.todo
    BY <2>1, <2>2, <2>3, AfterMoveOK DEF TypeInv, Same
  <2>5. m.kind # "created"
    BY <2>2 DEF Moved
  <2>6. r.muts \in Seq(Mutation)
    BY <2>1, <2>2 DEF RunType
  <2>7. /\ \A i \in DOMAIN s.muts : s.muts[i] = m \/ (i \in DOMAIN r.muts /\ s.muts[i] = r.muts[i])
        /\ 1 \in DOMAIN s.muts /\ s.muts # <<>>
        /\ r.muts # <<>> => s.muts[1] = r.muts[1]
    <3>1. /\ Len(r.muts) \in Nat /\ DOMAIN r.muts = 1 .. Len(r.muts)
          /\ DOMAIN s.muts = 1 .. Len(r.muts) + 1 /\ s.muts[Len(r.muts) + 1] = m
          /\ \A i \in 1 .. Len(r.muts) : s.muts[i] = r.muts[i]
          /\ r.muts # <<>> => Len(r.muts) # 0
      BY <2>4, <2>6, AppendProperties, LenProperties, EmptySeq
    <3>2. DOMAIN <<>> = {}
      OBVIOUS
    <3>3. QED
      BY <3>1, <3>2
  <2>8. ~Making(r) /\ ~Making(s)
    <3>1. First(r.todo).kind \in {"replace", "delete"}
      BY <2>1, <2>2 DEF ShapeOK, Moving
    <3>2. ~Making(r)
      BY <2>1, <2>2, <3>1, MarkerComesFirst DEF Making, WrittenOK, RunType
    <3>3. QED
      BY <2>4, <3>2 DEF Making
  <2>9. \A i \in DOMAIN s.muts : s.muts[i].kind = "created" =>
          /\ s.muts[i].now.content = Desired(s.snap, s.muts[i].name)
          /\ Desired(s.snap, s.muts[i].name) # Nothing
    BY <2>1, <2>2, <2>4, <2>5, <2>7 DEF WrittenOK
  <2>10. r.pc \in Active /\ r.pc # "undo" /\ WrittenOK(p, r)
    BY <2>1, <2>2 DEF Active, Publishing
  <2>11. WrittenOK(p, s)'
    BY <1>2, <2>4, <2>7, <2>8, <2>9, <2>10, WrittenMore
  <2>12. QED
    BY <2>2, <2>11, WrittenAlone
<1>3. QED
  BY <1>1, <1>2, MoveCases DEF history

LEMMA WrittenRecord ==
  ASSUME Alone, TypeInv, ApartInv, HandInv, WrittenInv, NEW p \in Projectors, Record(p)
  PROVE  WrittenInv'
<1>1. CASE Gives(p, "failure")
  BY <1>1, WrittenAborts DEF Gives
<1>2. CASE Goto(p, AfterRecord(p)) /\ UNCHANGED before
  <2>1. /\ run[p] \in RunType /\ JobsApart(run[p]) /\ HandOK(p, run[p]) /\ WrittenOK(p, run[p])
        /\ run[p].pc = "record"
    BY DEF TypeInv, RunsOK, ApartInv, HandInv, WrittenInv, Record, At
  <2>2. PICK r, s : r = run[p] /\ s = run'[p]
    OBVIOUS
  <2>3. s = AfterRecord(p)
    BY <1>2, <2>2, WentTo
  <2>4. s.muts = Published(p) /\ s.snap = r.snap /\ s.todo = r.todo \ {Job(p)}
    BY <2>1, <2>2, <2>3, AfterRecordOK DEF Same
  <2>5. /\ s.muts # <<>> /\ 1 \in DOMAIN s.muts
        /\ r.muts # <<>> => s.muts[1].name = r.muts[1].name
        /\ r.muts = <<>> => s.muts[1].name = Job(p).name
        /\ \A i \in DOMAIN s.muts : s.muts[i].kind = "created" =>
             /\ s.muts[i].now.content = Desired(s.snap, s.muts[i].name)
             /\ Desired(s.snap, s.muts[i].name) # Nothing
    BY <2>1, <2>2, <2>4, PublishedWritten
  <2>6. Making(r) => Job(p) \in r.todo /\ Job(p).name = Marker
    BY <2>1, <2>2, MarkerComesFirst DEF Making, Job, RunType
  <2>7. ~Making(s)
    <3> SUFFICES ASSUME NEW j \in s.todo, j.name = Marker PROVE FALSE
      BY DEF Making
    <3>1. j \in r.todo /\ j # Job(p) /\ Making(r)
      BY <2>4 DEF Making
    <3>2. j.kind = "create" /\ Job(p).kind = "create"
      BY <2>1, <2>2, <2>6, <3>1 DEF WrittenOK
    <3>3. QED
      BY <2>1, <2>2, <2>6, <3>1, <3>2 DEF JobsApart, JobsOK
  <2>8. r.pc \in Active /\ r.pc # "undo" /\ WrittenOK(p, r)
    BY <2>1, <2>2 DEF Active, Publishing
  <2>9. WrittenOK(p, s)'
    BY <1>2, <2>4, <2>5, <2>6, <2>7, <2>8, WrittenMore
  <2>10. QED
    BY <2>2, <2>9, WrittenAlone
<1>3. QED
  BY <1>1, <1>2, RecordCases DEF history

\* A plan creates what its snapshot renders, and the marker if there is none.
Wanted(j, r) ==
  /\ j.kind = "create" => Desired(r, j.name) # Nothing
  /\ j.name = Marker => j.kind = "create"

LEMMA PlanWanted ==
  ASSUME NEW r \in Revisions
  PROVE  /\ \A j \in Plan(r) : Wanted(j, r)
         /\ ~Has(Marker) => \E j \in Plan(r) : j.name = Marker
<1> DEFINE C == Created(r) \cup {m \in Meta : ~Has(m)}
           R == Replaced(r) \cup {m \in {Manifest} :
                  Has(m) /\ Created(r) \cup Replaced(r) \cup Deleted(r) # {}}
           D == Deleted(r)
<1>1. Plan(r) = {[kind |-> "create", name |-> n] : n \in C}
                 \cup {[kind |-> "replace", name |-> n] : n \in R}
                 \cup {[kind |-> "delete", name |-> n] : n \in D}
                 \cup {[kind |-> "check", name |-> Manifest]}
  BY DEF Plan
<1>2. Marker \notin R /\ Marker \notin D /\ Marker # Manifest
  BY NamesAssumption DEF Replaced, Deleted, Rendered, Listed
<1>3. \A n \in C : Desired(r, n) # Nothing
  <2>1. \A n \in Created(r) : Desired(r, n) # Nothing
    BY NamesAssumption DEF Created, Rendered, Desired
  <2>2. Rendering[r] \in Range(Rendering)
    BY ProjectionAssumption, LenProperties DEF Revisions, Range
  <2>3. \A n \in Meta : Desired(r, n) # Nothing
    BY <2>2, ContentAssumption DEF Meta, Desired
  <2>4. QED
    BY <2>1, <2>3
<1>4. ~Has(Marker) => Marker \in C
  BY DEF Meta
<1> HIDE DEF C, R, D
<1>5. \A j \in Plan(r) : /\ j.kind = "create" => j.name \in C
                         /\ j.name = Marker => j.kind = "create"
  BY <1>1, <1>2
<1>6. ASSUME Marker \in C PROVE \E j \in Plan(r) : j.name = Marker
  <2>1. PICK j : j = [kind |-> "create", name |-> Marker]
    OBVIOUS
  <2>2. j \in Plan(r) /\ j.name = Marker
    BY <1>1, <1>6, <2>1
  <2>3. QED
    BY <2>2
<1>7. \A j \in Plan(r) : Wanted(j, r)
  BY <1>3, <1>5 DEF Wanted
<1>8. QED
  BY <1>4, <1>6, <1>7

LEMMA WrittenPreflight ==
  ASSUME Alone, TypeInv, MissedInv, TraceInv, WrittenInv, NEW p \in Projectors, Preflight(p)
  PROVE  WrittenInv'
<1>1. run[p] \in RunType /\ ShapeOK(run[p]) /\ TraceOK(p, run[p]) /\ run[p].pc = "preflight"
  BY DEF TypeInv, RunsOK, TraceInv, Preflight, At
<1>2. PICK s : s = run'[p]
  OBVIOUS
<1>3. CASE ~NoConflict(run[p].snap)
  <2>1. s = Report(run[p], "conflict")
    BY <1>2, <1>3, WentTo DEF Preflight
  <2>2. s.todo = {} /\ s.muts = <<>> /\ s.pc = "done"
    BY <1>1, <2>1, ReportIs
  <2>3. WrittenOK(p, s)'
    BY <2>2, WrittenFree DEF Active, Publishing
  <2>4. QED
    BY <1>2, <2>3, WrittenAlone
<1>4. CASE NoConflict(run[p].snap)
  <2>1. /\ s = [run[p] EXCEPT !.pc = "fresh", !.names = Listing, !.prev = Previous,
                              !.todo = Plan(run[p].snap)]
        /\ UNCHANGED before
    BY <1>2, <1>4, WentTo DEF Preflight, history
  <2>2. s.muts = <<>> /\ s.snap = run[p].snap /\ s.todo = Plan(s.snap) /\ s.snap \in Revisions
    BY <1>1, <2>1 DEF RunType, ShapeOK
  <2>3. before[p][Marker] = Nothing => ~Has(Marker)
    <3>1. missed[p] = {}
      BY <1>1 DEF MissedInv, MissedOK
    <3>2. Left(p, Marker)
      BY <3>1, MarkerLeft DEF Left
    <3>3. QED
      BY <1>1, <3>2, MarkerLeft DEF TraceOK, AsFound, Has
  <2>4. DOMAIN s.muts = {}
    BY <2>2
  <2>5. before'[p][Marker] = Nothing => Making(s)
    BY <2>1, <2>2, <2>3, PlanWanted DEF Making
  <2>6. \A j \in s.todo : Wanted(j, s.snap)
    BY <2>2, PlanWanted
  <2>7. WrittenOK(p, s)'
    BY <2>2, <2>4, <2>5, <2>6 DEF WrittenOK, Wanted
  <2>8. QED
    BY <1>2, <2>7, WrittenAlone
<1>5. QED
  BY <1>3, <1>4

LEMMA WrittenUndo ==
  ASSUME Alone, TypeInv, WrittenInv, NEW p \in Projectors, Undo(p) \/ Undoing(p)
  PROVE  WrittenInv'
<1>1. run[p] \in RunType /\ ShapeOK(run[p]) /\ WrittenOK(p, run[p])
  BY DEF TypeInv, RunsOK, WrittenInv
<1>2. PICK r, s : r = run[p] /\ s = run'[p]
  OBVIOUS
<1>3. CASE Undo(p)
  <2>1. PICK o \in BOOLEAN, b \in BOOLEAN : Goto(p, Decided(p, o, b))
    BY <1>3, UndoCases
  <2>2. s = Decided(p, o, b) /\ UNCHANGED before /\ r.pc = "undo" /\ r.muts # <<>>
    BY <1>2, <1>3, <2>1, WentTo, UndoCases
  <2>3. s.muts = r.muts /\ s.todo = {} /\ s.snap = r.snap
    BY <1>2, <2>2, UndoneOK DEF TypeInv
  <2>4. r.todo = {}
    BY <1>1, <1>2, <2>2 DEF ShapeOK, Working, Moving, Writing
  <2>5. WrittenOK(p, s)'
    BY <1>1, <1>2, <2>2, <2>3, <2>4, WrittenGoesOn DEF Making, Active
  <2>6. QED
    BY <1>2, <2>5, WrittenAlone
<1>4. CASE Undoing(p)
  <2>1. PICK c \in Nat : Goto(p, [Rest(run[p]) EXCEPT !.conflicts = c])
    BY <1>4, UndoingCases DEF TypeInv
  <2>2. r.pc = "undoing" /\ UNCHANGED before /\ s = [Rest(r) EXCEPT !.conflicts = c]
    BY <1>2, <1>4, <2>1, WentTo, UndoingCases DEF TypeInv
  <2>3. /\ s \in RunType /\ ShapeOK(s) /\ s.pc = "undo" /\ s.snap = r.snap
        /\ Len(r.muts) \in Nat \ {0} /\ Len(s.muts) = Len(r.muts) - 1
        /\ \A i \in 1 .. Len(s.muts) : s.muts[i] = r.muts[i]
    BY <1>1, <1>2, <2>2, RestOK
  <2>4. DOMAIN r.muts = 1 .. Len(r.muts) /\ DOMAIN s.muts = 1 .. Len(s.muts) /\ Len(s.muts) \in Nat
    BY <1>1, <1>2, <2>3, LenProperties DEF RunType
  <2>5. s.todo = {} /\ r.todo = {} /\ r.muts # <<>>
    BY <1>1, <1>2, <2>2, <2>3 DEF ShapeOK, Working, Moving, Writing
  <2>6. s.muts # <<>> => s.muts[1] = r.muts[1]
    <3>1. s.muts # <<>> => Len(s.muts) # 0
      BY <2>3, EmptySeq DEF RunType
    <3>2. QED
      BY <2>3, <2>4, <3>1
  <2>7. \A i \in DOMAIN s.muts : i \in DOMAIN r.muts /\ s.muts[i] = r.muts[i]
    BY <2>3, <2>4
  <2>8. WrittenOK(p, s)'
    <3>1. before[p][Marker] = Nothing => r.muts[1].name = Marker
      BY <1>1, <1>2, <2>2, <2>5 DEF WrittenOK, Making, Active
    <3>2. \A i \in DOMAIN s.muts : s.muts[i].kind = "created" =>
            /\ s.muts[i].now.content = Desired(s.snap, s.muts[i].name)
            /\ Desired(s.snap, s.muts[i].name) # Nothing
      BY <1>1, <1>2, <2>3, <2>7 DEF WrittenOK
    <3>3. ~Making(s)
      BY <2>5 DEF Making
    <3>4. QED
      BY <2>2, <2>3, <2>5, <2>6, <3>1, <3>2, <3>3 DEF WrittenOK
  <2>9. QED
    BY <1>2, <2>8, WrittenAlone
<1>5. QED
  BY <1>3, <1>4

LEMMA WrittenEnds ==
  ASSUME Alone, TypeInv, NEW p \in Projectors,
         Begin(p) \/ Unlink(p) \/ Unwound(p) \/ Die(p)
  PROVE  WrittenInv'
<1>1. PICK s : s = run'[p]
  OBVIOUS
<1>2. s.todo = {} /\ s.muts = <<>> /\ s.pc \notin Active
  <2>1. CASE Begin(p)
    <3>1. s = [Idle EXCEPT !.pc = "preflight", !.snap = rev]
      BY <1>1, <2>1 DEF Begin
    <3>2. QED
      BY <3>1 DEF Idle, Active, Publishing
  <2>2. CASE Unlink(p) \/ Unwound(p)
    <3>1. PICK r, status : s = Report(r, status)
      BY <1>1, <2>2, WentTo DEF Unlink, Unwound
    <3>2. QED
      BY <3>1 DEF Report, Idle, Active, Publishing
  <2>3. CASE Die(p)
    <3>1. s = Idle
      BY <1>1, <2>3, WentTo DEF Die
    <3>2. QED
      BY <3>1 DEF Idle, Active, Publishing
  <2>4. QED
    BY <2>1, <2>2, <2>3
<1>3. WrittenOK(p, s)'
  BY <1>2, WrittenFree
<1>4. QED
  BY <1>1, <1>3, WrittenAlone

LEMMA WrittenNext ==
  ASSUME Alone
  PROVE  TypeInv /\ ApartInv /\ MissedInv /\ HandInv /\ TraceInv /\ WrittenInv /\ [Next]_vars => WrittenInv'
<1> SUFFICES ASSUME TypeInv, ApartInv, MissedInv, HandInv, TraceInv, WrittenInv, [Next]_vars
             PROVE  WrittenInv'
  OBVIOUS
<1>1. ASSUME NEW p \in Projectors, Project(p) PROVE WrittenInv'
  BY <1>1, WrittenLooking, WrittenMovesOn, WrittenCheck, WrittenMove, WrittenRecord,
     WrittenPreflight, WrittenUndo, WrittenEnds DEF Project, Publish, Looking
<1>2. ASSUME NEW p \in Projectors, Fault(p) \/ Die(p) PROVE WrittenInv'
  BY <1>2, WrittenAborts, WrittenEnds DEF Fault
<1>3. ASSUME UNCHANGED <<run, before>> PROVE WrittenInv'
  BY <1>3 DEF WrittenInv, WrittenOK
<1>4. QED
  BY <1>1, <1>2, <1>3 DEF Next, Drift, User, vars, history

LEMMA AlwaysWritten == Alone /\ ~UserRaces /\ Spec => []WrittenInv
<1>1. Init => WrittenInv
  <2> SUFFICES ASSUME Init, NEW p \in Projectors PROVE WrittenOK(p, run[p])
    BY DEF WrittenInv
  <2>1. run[p].pc = "idle" /\ run[p].todo = {} /\ run[p].muts = <<>>
    BY DEF Init, Idle
  <2>2. DOMAIN run[p].muts = {}
    BY <2>1
  <2>3. QED
    BY <2>1, <2>2 DEF WrittenOK, Making, Active, Publishing
<1>2. CASE Alone /\ ~UserRaces
  <2>1. TypeInv /\ ApartInv /\ MissedInv /\ HandInv /\ TraceInv /\ WrittenInv /\ [Next]_vars => WrittenInv'
    BY <1>2, WrittenNext
  <2>2. QED
    BY <1>1, <1>2, <2>1, AlwaysTyped, AlwaysApart, AlwaysMissed, AlwaysInHand, AlwaysTraced, PTL DEF Spec
<1>3. QED
  BY <1>2

(* Without a move of the user nothing but a failed call makes a conflict.   *)

LEMMA ClearAlone ==
  ASSUME Alone, TypeInv, CurrentInv, ClearInv, NEW p \in Projectors,
         UNCHANGED <<rev, edits>>, lost \subseteq lost', lost' \subseteq lost \cup {0, run[p].snap},
         touched'[p] \in {touched[p], {}},
         0 \notin lost' => missed'[p] \in {missed[p], {}},
         edits = 0 /\ 0 \notin lost' /\ run'[p].pc \in Active => run'[p].conflicts = 0
  PROVE  ClearInv'
<1>1. run[p].snap <= rev /\ rev \in Nat
  BY DEF CurrentInv, Current, TypeInv, Revisions
<1>2. \A x \in lost' : x <= rev
  BY <1>1 DEF ClearInv
<1>3. \A q \in Projectors : q = p
  BY DEF Alone
<1>4. 0 \notin lost' => missed'[p] = {}
  BY DEF ClearInv
<1>5. QED
  BY <1>2, <1>3, <1>4 DEF ClearInv

LEMMA ClearUndo ==
  ASSUME Alone, TypeInv, CurrentInv, ApartInv, TraceInv, ClearInv, NEW p \in Projectors, Undo(p)
  PROVE  ClearInv'
<1>1. run[p] \in RunType /\ JobsApart(run[p]) /\ TraceOK(p, run[p])
  BY DEF TypeInv, RunsOK, ApartInv, TraceInv
<1>2. PICK r, m : r = run[p] /\ m = Newest(p)
  OBVIOUS
<1>3. r.pc = "undo" /\ r.muts # <<>> /\ UNCHANGED <<rev, edits, touched, missed>>
  BY <1>2, UndoCases DEF Undo
<1>4. PICK o \in {Ours(m), FALSE}, b \in {Backed(p, m), FALSE} :
         /\ Goto(p, Decided(p, o, b))
         /\ lost' = IF o # Ours(m) \/ b # Backed(p, m) THEN lost \cup {0} ELSE lost
  <2>1. PICK o \in {Ours(Newest(p)), FALSE}, b \in {Backed(p, Newest(p)), FALSE} :
           /\ Goto(p, Undone(run[p], Newest(p), Has(Newest(p).name), o, b))
           /\ lost' = IF o # Ours(Newest(p)) \/ b # Backed(p, Newest(p)) THEN lost \cup {0} ELSE lost
    BY DEF Undo, Ours, Backed
  <2>2. Goto(p, Decided(p, o, b))
    BY <2>1 DEF Decided
  <2>3. o \in {Ours(m), FALSE} /\ b \in {Backed(p, m), FALSE}
    BY <1>2
  <2>4. lost' = IF o # Ours(m) \/ b # Backed(p, m) THEN lost \cup {0} ELSE lost
    BY <1>2, <2>1
  <2>5. QED
    BY <2>2, <2>3, <2>4
<1>5. ASSUME edits = 0, 0 \notin lost' PROVE run'[p].conflicts = 0
  <2>1. 0 \notin lost /\ o = Ours(m) /\ b = Backed(p, m)
    BY <1>4, <1>5
  <2>2. touched[p] = {} /\ missed[p] = {} /\ r.conflicts = 0
    BY <1>2, <1>3, <1>5, <2>1 DEF ClearInv, Active
  <2>3. FoundOK(p, r)
    BY <1>1, <1>2, <1>3, <2>2 DEF TraceOK, Active
  <2>4. m \in Mutation /\ Len(r.muts) \in DOMAIN r.muts /\ m = r.muts[Len(r.muts)]
    <3>1. /\ m \in Mutation /\ Len(r.muts) \in Nat \ {0} /\ m = r.muts[Len(r.muts)]
      BY <1>2, <1>3, NewestIn DEF TypeInv
    <3>2. DOMAIN r.muts = 1 .. Len(r.muts)
      BY <1>1, <1>2, LenProperties DEF RunType
    <3>3. QED
      BY <3>1, <3>2
  <2>5. \A x : Left(p, x)
    BY <2>2 DEF Left
  <2>6. dir[m.name] = m.now /\ (m.kind # "created" => dir[Bak(p, m.name)] = m.was)
    BY <1>3, <2>3, <2>4, <2>5 DEF FoundOK
  <2>7. m.now # Nothing => Ours(m)
    BY <2>6 DEF Ours
  <2>8. m.kind # "created" => Backed(p, m)
    BY <2>6 DEF Backed
  <2>9. m.kind = "created" => m.now # Nothing
    BY <1>1, <1>2, <2>4 DEF JobsApart, MutsOK
  <2>10. m.now # Nothing /\ Has(m.name) => o
    BY <2>1, <2>7
  <2>11. m.kind # "created" => b
    BY <2>1, <2>8
  <2>12. Decided(p, o, b).conflicts = r.conflicts
    <3>1. r.conflicts \in Nat /\ r.conflicts + 0 = r.conflicts
      BY <1>1, <1>2 DEF RunType
    <3>2. CASE m.kind = "created"
      BY <1>1, <1>2, <2>10, <3>1, <3>2 DEF Decided, Undone, RunType
    <3>3. CASE m.kind # "created"
      BY <1>1, <1>2, <2>10, <2>11, <3>1, <3>3 DEF Decided, Undone, RunType
    <3>4. QED
      BY <3>2, <3>3
  <2>13. QED
    BY <1>4, <2>2, <2>12, WentTo
<1>6. QED
  BY <1>3, <1>4, <1>5, ClearAlone

LEMMA ClearNext ==
  ASSUME Alone
  PROVE  TypeInv /\ TypeInv' /\ CurrentInv /\ ApartInv /\ TraceInv /\ ClearInv /\ [Next]_vars
           => ClearInv'
<1> SUFFICES ASSUME TypeInv, TypeInv', CurrentInv, ApartInv, TraceInv, ClearInv, [Next]_vars
             PROVE  ClearInv'
  OBVIOUS
<1>1. ASSUME NEW p \in Projectors, Project(p) \/ Fault(p) PROVE ClearInv'
  <2>1. run'[p] \in RunType /\ ShapeOK(run'[p])
    BY DEF TypeInv, RunsOK
  <2>2. CASE GoesOn(p)
    <3>1. run'[p].pc \in Active => run'[p].conflicts = 0
      BY <2>1, <2>2 DEF GoesOn, ShapeOK, Active
    <3>2. QED
      BY <2>2, <3>1, ClearAlone DEF GoesOn
  <2>3. CASE Begin(p)
    <3>1. run'[p].pc = "preflight"
      BY <2>3 DEF Begin, Idle
    <3>2. touched'[p] = {} /\ missed'[p] = {} /\ UNCHANGED <<rev, edits, lost>>
      BY <2>3 DEF Begin, TypeInv
    <3>3. QED
      BY <3>1, <3>2, ClearAlone DEF Active, Publishing
  <2>4. CASE Preflight(p)
    <3>1. UNCHANGED <<rev, edits, touched, missed, lost>>
      BY <2>4 DEF Preflight, history
    <3>2. run'[p].pc \in {"fresh", "done"}
      <4>1. run[p] \in RunType
        BY DEF TypeInv, RunsOK
      <4>2. \/ run'[p] = [run[p] EXCEPT !.pc = "fresh", !.names = Listing, !.prev = Previous,
                                       !.todo = Plan(run[p].snap)]
            \/ run'[p] = Report(run[p], "conflict")
        BY <2>4, WentTo DEF Preflight
      <4>3. [run[p] EXCEPT !.pc = "fresh", !.names = Listing, !.prev = Previous,
                           !.todo = Plan(run[p].snap)].pc = "fresh"
        BY <4>1 DEF RunType
      <4>4. Report(run[p], "conflict").pc = "done"
        BY <4>1, ReportIs
      <4>5. QED
        BY <4>2, <4>3, <4>4
    <3>3. run'[p].pc \in Active => run'[p].conflicts = 0
      BY <2>1, <3>2 DEF ShapeOK, Active, Publishing
    <3>4. QED
      BY <3>1, <3>3, ClearAlone
  <2>5. CASE Unlink(p) \/ Unwound(p)
    <3>1. PICK r, status : run'[p] = Report(r, status)
      BY <2>5, WentTo DEF Unlink, Unwound
    <3>2. run'[p].pc = "done"
      BY <3>1 DEF Report, Idle
    <3>3. UNCHANGED <<rev, edits, touched, missed, lost>>
      BY <2>5 DEF Unlink, Unwound, history
    <3>4. QED
      BY <3>2, <3>3, ClearAlone DEF Active, Publishing
  <2>6. CASE Undo(p)
    BY <2>6, ClearUndo
  <2>7. CASE Undoing(p)
    <3>1. /\ run[p] \in RunType /\ run[p].pc = "undoing"
          /\ lost' \in {lost, lost \cup {0}} /\ UNCHANGED <<rev, edits, touched, missed>>
      BY <2>7, UndoingCases DEF TypeInv, Undoing
    <3>2. lost' = IF run'[p].conflicts > run[p].conflicts THEN lost \cup {0} ELSE lost
      BY <2>7 DEF Undoing
    <3>3. ASSUME edits = 0, 0 \notin lost' PROVE run'[p].conflicts = 0
      <4>1. ~(run'[p].conflicts > run[p].conflicts) /\ 0 \notin lost
        BY <3>2, <3>3
      <4>2. run[p].conflicts = 0
        BY <3>1, <3>3, <4>1 DEF ClearInv, Active
      <4>3. run'[p].conflicts \in Nat
        BY <2>1 DEF RunType
      <4>4. QED
        BY <4>1, <4>2, <4>3
    <3>4. QED
      BY <3>1, <3>3, ClearAlone
  <2>8. QED
    BY <1>1, <2>2, <2>3, <2>4, <2>5, <2>6, <2>7, StepCases
<1>2. ASSUME NEW p \in Projectors, Die(p) PROVE ClearInv'
  <2>1. run'[p] = Idle
    BY <1>2, WentTo DEF Die
  <2>2. run'[p].pc \notin Active
    BY <2>1 DEF Idle, Active, Publishing
  <2>3. QED
    BY <1>2, <2>2, ClearAlone DEF Die
<1>3. CASE Drift
  <2>1. rev \in Nat /\ rev' = rev + 1 /\ lost \subseteq Nat
    BY <1>3 DEF Drift, TypeInv, Revisions
  <2>2. \A x \in lost : x <= rev'
    <3>1. \A x \in lost : x <= rev /\ x \in Nat
      BY <2>1 DEF ClearInv
    <3>2. QED
      BY <2>1, <3>1
  <2>3. UNCHANGED <<run, edits, touched, missed, lost>>
    BY <1>3 DEF Drift, history
  <2>4. QED
    BY <2>2, <2>3 DEF ClearInv
<1>4. ASSUME NEW u \in UserNames, User(u) PROVE ClearInv'
  <2>1. edits' # 0 /\ UNCHANGED <<rev, missed, lost>>
    BY <1>4 DEF User, TypeInv
  <2>2. QED
    BY <2>1 DEF ClearInv
<1>5. CASE UNCHANGED vars
  BY <1>5 DEF ClearInv, vars, history
<1>6. QED
  BY <1>1, <1>2, <1>3, <1>4, <1>5 DEF Next

LEMMA AlwaysClear == Alone /\ ~UserRaces /\ Spec => []ClearInv
<1>1. Init => ClearInv
  BY DEF Init, ClearInv, Idle, Active, Publishing
<1>2. CASE Alone /\ ~UserRaces
  <2>1. TypeInv /\ TypeInv' /\ CurrentInv /\ ApartInv /\ TraceInv /\ ClearInv /\ [Next]_vars
          => ClearInv'
    BY <1>2, ClearNext
  <2>2. QED
    BY <1>1, <1>2, <2>1, AlwaysTyped, AlwaysCurrent, AlwaysApart, AlwaysTraced, PTL DEF Spec
<1>3. QED
  BY <1>2

(* What a run leaves where it ends, and where it dies.                     *)

\* A publication that succeeded.
LEMMA PublishedSettled ==
  ASSUME NEW r \in Revisions, NEW D,
         \A n \in Names : IF Desired(r, n) = Nothing THEN D[n] = Nothing
                          ELSE D[n] # Nothing /\ D[n].content = Desired(r, n)
  PROVE  Settled(D)
<1>1. Marker \in Names /\ Manifest \in Names /\ Docs \subseteq Names
  BY DEF Names
<1>2. /\ Desired(r, Marker) = MarkerText /\ Desired(r, Manifest) = Rendering[r]
      /\ \A d \in Docs : Desired(r, d) = Rendering[r][d]
  BY NamesAssumption DEF Desired
<1>3. Rendering[r] \in Range(Rendering)
  BY ProjectionAssumption, LenProperties DEF Revisions, Range
<1>4. /\ D[Marker] # Nothing /\ D[Marker].content = MarkerText
      /\ D[Manifest] # Nothing /\ D[Manifest].content = Rendering[r]
  BY <1>1, <1>2, <1>3, ContentAssumption
<1>5. Marked(D) /\ ListedIn(D) = Rendering[r]
  BY <1>3, <1>4 DEF Marked, ListedIn
<1>6. \A d \in Docs : IF Rendering[r][d] = Nothing THEN D[d] = Nothing
                     ELSE D[d] # Nothing /\ D[d].content = Rendering[r][d]
  BY <1>1, <1>2
<1>7. QED
  BY <1>5, <1>6 DEF Settled

\* A run on its way, if it has moved nothing aside.
LEMMA HalfwayAdopts ==
  ASSUME TypeInv, ApartInv, HandInv, TraceInv, WrittenInv, NEW p \in Projectors,
         run[p].pc \in Active, run[p].conflicts = 0, touched[p] = {}, missed[p] = {},
         NoBackups(dir),
         Adopts(before[p], run[p].snap)
  PROVE  Adopts(dir, run[p].snap)
<1>1. PICK r \in RunType : r = run[p]
  BY DEF TypeInv, RunsOK
<1>2. /\ JobsApart(r) /\ HandOK(p, r) /\ WrittenOK(p, r) /\ ShapeOK(r)
      /\ FoundOK(p, r) /\ r.pc \in Active
  BY <1>1 DEF ApartInv, HandInv, TraceInv, TraceOK, WrittenInv, TypeInv, RunsOK
<1>3. \A x : Left(p, x)
  BY DEF Left
<1>4. PICK job : job = First(r.todo).name
  OBVIOUS
<1>5. ASSUME NEW i \in DOMAIN r.muts
      PROVE  /\ r.muts[i].name \in Names
             /\ r.muts[i].kind = "created" /\ before[p][r.muts[i].name] = Nothing
             /\ r.muts[i].now # Nothing
             /\ r.muts[i].now.content = Desired(r.snap, r.muts[i].name)
             /\ Desired(r.snap, r.muts[i].name) # Nothing
  <2>1. r.muts[i].name \in Names
    BY MutsNamed DEF RunType
  <2>2. r.muts[i].kind = "created"
    <3>1. r.muts[i].kind # "created" => dir[Bak(p, r.muts[i].name)] = r.muts[i].was
      BY <1>2, <1>3 DEF FoundOK
    <3>2. r.muts[i].kind # "created" => r.muts[i].was # Nothing
      BY <1>2 DEF JobsApart, MutsOK
    <3>3. QED
      BY <2>1, <3>1, <3>2 DEF NoBackups
  <2>3. r.muts[i].now # Nothing /\ r.muts[i].was = Nothing
    BY <1>2, <2>2 DEF JobsApart, MutsOK
  <2>4. before[p][r.muts[i].name] = r.muts[i].was
    BY <1>2, <1>3 DEF FoundOK
  <2>5. QED
    BY <1>2, <2>1, <2>2, <2>3, <2>4 DEF WrittenOK
<1>6. ASSUME r.pc = "record"
      PROVE  /\ job \in Names /\ before[p][job] = Nothing /\ dir[job] # Nothing
             /\ dir[job].content = Desired(r.snap, job) /\ Desired(r.snap, job) # Nothing
  <2>1. Job(p) = First(r.todo) /\ Job(p).name = job
    BY <1>1, <1>4 DEF Job
  <2>2. job \in Names /\ Job(p) \in r.todo /\ Job(p).kind \in {"create", "replace"}
    BY <1>1, <1>6, <2>1, WritingType, JobIn DEF Writing, TypeInv
  <2>3. Is(job, Desired(r.snap, job))
    BY <1>2, <1>4, <1>6 DEF HandOK
  <2>4. Job(p).kind = "create"
    <3>1. Job(p).kind = "replace" =>
            r.muts # <<>> /\ r.muts[Len(r.muts)].kind = "replaced"
      BY <1>2, <1>6, <2>1 DEF ShapeOK, Writing
    <3>2. r.muts # <<>> => Len(r.muts) \in DOMAIN r.muts
      <4>1. r.muts \in Seq(Mutation)
        BY DEF RunType
      <4>2. Len(r.muts) \in Nat /\ DOMAIN r.muts = 1 .. Len(r.muts)
              /\ (r.muts # <<>> => Len(r.muts) # 0)
        BY <4>1, LenProperties, EmptySeq
      <4>3. QED
        BY <4>2
    <3>3. QED
      BY <1>5, <2>2, <3>1, <3>2
  <2>5. Desired(r.snap, job) # Nothing
    BY <1>2, <2>1, <2>2, <2>4 DEF WrittenOK
  <2>6. before[p][job] = Nothing
    <3>1. CASE Mutated(r.muts, job)
      BY <1>5, <3>1 DEF Mutated
    <3>2. CASE ~Mutated(r.muts, job)
      BY <1>2, <1>3, <1>4, <1>6, <2>2, <3>2 DEF FoundOK
    <3>3. QED
      BY <3>1, <3>2
  <2>7. QED
    BY <2>2, <2>3, <2>5, <2>6 DEF Is, Has
<1>7. ASSUME NEW n \in Names
      PROVE  \/ dir[n] = before[p][n]
             \/ /\ before[p][n] = Nothing /\ dir[n] # Nothing
                /\ dir[n].content = Desired(r.snap, n) /\ Desired(r.snap, n) # Nothing
  <2>1. CASE r.pc = "record" /\ n = job
    BY <1>6, <2>1
  <2>2. CASE ~(r.pc = "record" /\ n = job)
    <3>1. CASE ~Mutated(r.muts, n)
      BY <1>2, <1>3, <1>4, <2>2, <3>1 DEF FoundOK
    <3>2. CASE Mutated(r.muts, n)
      <4>1. PICK i \in DOMAIN r.muts : r.muts[i].name = n
        BY <3>2 DEF Mutated
      <4>2. dir[n] = r.muts[i].now
        BY <1>2, <1>3, <1>4, <2>2, <4>1 DEF FoundOK
      <4>3. QED
        BY <1>5, <4>1, <4>2
    <3>3. QED
      BY <3>1, <3>2
  <2>3. QED
    BY <2>1, <2>2
<1>8. ASSUME before[p][Marker] = Nothing, dir[Marker] = Nothing PROVE Bare(dir)
  <2>1. Bare(before[p])
    BY <1>8 DEF Adopts, Marked
  <2>2. r.muts = <<>>
    <3>1. ASSUME r.muts # <<>>, r.muts[1].name = Marker PROVE FALSE
      <4>1. 1 \in DOMAIN r.muts
        <5>1. r.muts \in Seq(Mutation)
          BY DEF RunType
        <5>2. Len(r.muts) \in Nat /\ DOMAIN r.muts = 1 .. Len(r.muts) /\ Len(r.muts) # 0
          BY <3>1, <5>1, LenProperties, EmptySeq
        <5>3. QED
          BY <5>2
      <4>2. dir[Marker] = r.muts[1].now \/ (r.pc = "record" /\ job = Marker)
        BY <1>2, <1>3, <1>4, <3>1, <4>1 DEF FoundOK
      <4>3. QED
        BY <1>5, <1>6, <1>8, <4>1, <4>2
    <3>2. QED
      BY <1>2, <1>8, <3>1 DEF WrittenOK
  <2>3. r.pc # "record"
    <3>1. r.pc = "record" => Making(r)
      BY <1>2, <1>8, <2>2 DEF WrittenOK
    <3>2. Making(r) => job = Marker
      BY <1>4, MarkerComesFirst DEF Making, RunType
    <3>3. QED
      BY <1>6, <1>8, <3>1, <3>2
  <2>4. \A n \in Names : ~Mutated(r.muts, n)
    <3>1. DOMAIN r.muts = {}
      BY <2>2
    <3>2. QED
      BY <3>1 DEF Mutated
  <2>5. \A n \in Names : dir[n] = before[p][n]
    BY <1>2, <1>3, <2>3, <2>4 DEF FoundOK
  <2>6. QED
    BY <2>1, <2>5 DEF Bare
<1>9. r.snap \in Revisions
  BY DEF RunType
<1>10. QED
  BY <1>1, <1>7, <1>8, <1>9, MoreAdopts

\* A run that dies on the present state of the database.
LEMMA DeadAdopts ==
  ASSUME Alone, TypeInv, StandsInv, ApartInv, HandInv, TraceInv, WrittenInv, ClearInv, GoodInv,
         NEW p \in Projectors, run[p].pc \notin {"idle", "done"}, edits = 0,
         lost \cup {run[p].snap} \subseteq {rev}, NoBackups(dir)
  PROVE  Adopts(dir, rev)
<1>1. /\ touched[p] = {} /\ missed[p] = {} /\ run[p].snap = rev /\ rev \in Revisions /\ 0 \notin lost
      /\ TraceOK(p, run[p]) /\ run[p].pc \in Pcs
  <2>1. rev \in Revisions /\ 0 \notin Revisions
    BY DEF TypeInv, Revisions
  <2>2. run[p].pc \in Pcs
    BY DEF TypeInv, RunsOK, RunType
  <2>3. run[p].snap = rev /\ 0 \notin lost
    BY <2>1
  <2>4. TraceOK(p, run[p]) /\ touched[p] = {} /\ missed[p] = {}
    BY <2>3 DEF ClearInv, TraceInv
  <2>5. QED
    BY <2>1, <2>2, <2>3, <2>4
<1>2. \A x : Left(p, x)
  BY <1>1 DEF Left
<1>3. Good(before[p], lost, rev)
  BY DEF GoodInv
<1>4. CASE run[p].pc = "preflight"
  <2>1. \A x \in AllNames : dir[x] = before[p][x]
    BY <1>1, <1>2, <1>4 DEF TraceOK, AsFound
  <2>2. \A n \in Names : before[p][n] = dir[n]
    BY <2>1 DEF AllNames
  <2>3. \A q \in Projectors, n \in Names : before[p][Bak(q, n)] = dir[Bak(q, n)]
    BY <2>1, NamesApart
  <2>4. Good(dir, lost, rev)
    BY <1>3, <2>2, <2>3, GoodSame
  <2>5. QED
    BY <2>4 DEF Good
<1>5. CASE run[p].pc \in {"commit", "unlink"}
  <2>1. \A n \in Names : IF Desired(rev, n) = Nothing THEN dir[n] = Nothing
                         ELSE dir[n] # Nothing /\ dir[n].content = Desired(rev, n)
    BY <1>1, <1>5 DEF StandsInv, StandsOK, AsDesired, Is, Has
  <2>2. QED
    BY <1>1, <2>1, PublishedSettled, SettledAdopts
<1>6. CASE run[p].pc \in Active
  <2>1. run[p].conflicts = 0
    BY <1>1, <1>6 DEF ClearInv
  <2>2. FoundOK(p, run[p])
    BY <1>1, <1>6, <2>1 DEF TraceOK
  <2>3. NoBackups(before[p])
    BY <1>2, <2>2 DEF FoundOK, NoBackups, OwnNames, Alone
  <2>4. Adopts(before[p], rev)
    BY <1>3, <2>3 DEF Good
  <2>5. QED
    BY <1>1, <1>6, <2>1, <2>4, HalfwayAdopts
<1>7. QED
  BY <1>1, <1>4, <1>5, <1>6 DEF Pcs, Active

LEMMA GoodAlone ==
  ASSUME Alone, NEW p \in Projectors,
         edits' = 0 /\ run'[p].pc \in {"idle", "done"} => Good(dir', lost', rev'),
         edits' = 0 /\ run'[p].pc \notin {"idle", "done"} => Good(before'[p], lost', rev')
  PROVE  GoodInv'
<1>1. \A q \in Projectors : q = p
  BY DEF Alone
<1>2. QED
  BY <1>1 DEF GoodInv

\* A run that was on its way and still is.
LEMMA GoodOnTheWay ==
  ASSUME Alone, TypeInv, ClearInv, GoodInv, NEW p \in Projectors,
         run[p].pc \notin {"idle", "done"}, run'[p].pc \notin {"idle", "done"},
         UNCHANGED <<rev, edits, before>>, lost \subseteq lost'
  PROVE  GoodInv'
<1>1. rev \in Nat /\ \A x \in lost : x <= rev
  BY DEF TypeInv, Revisions, ClearInv
<1>2. edits = 0 => Good(before[p], lost, rev)
  BY DEF GoodInv
<1>3. edits = 0 => Good(before[p], lost', rev)
  BY <1>1, <1>2, GoodGoesOn
<1>4. QED
  BY <1>3, GoodAlone

\* A run that ends, or begins.
LEMMA GoodEnds ==
  ASSUME Alone, TypeInv, StandsInv', TypeInv', MissedInv, HandInv, TraceInv, ClearInv, ClearInv', GoodInv,
         NEW p \in Projectors,
         Begin(p) \/ Preflight(p) \/ Unlink(p) \/ Unwound(p)
  PROVE  GoodInv'
<1>1. run[p] \in RunType /\ TraceOK(p, run[p]) /\ rev \in Revisions
  BY DEF TypeInv, RunsOK, TraceInv
<1>2. edits = 0 => touched[p] = {} /\ (missed[p] = {} => \A x : Left(p, x))
  BY DEF ClearInv, Left
<1>3. ASSUME AsFound(p), edits = 0, missed[p] = {}, run[p].pc \notin {"idle", "done"}
      PROVE  Good(dir, lost, rev)
  <2>1. \A x \in AllNames : dir[x] = before[p][x]
    BY <1>2, <1>3 DEF AsFound
  <2>2. \A n \in Names : dir[n] = before[p][n]
    BY <2>1 DEF AllNames
  <2>3. \A q \in Projectors, n \in Names : dir[Bak(q, n)] = before[p][Bak(q, n)]
    BY <2>1, NamesApart
  <2>4. Good(before[p], lost, rev)
    BY <1>3 DEF GoodInv
  <2>5. QED
    BY <2>2, <2>3, <2>4, GoodSame
<1>4. CASE Begin(p)
  <2>1. run'[p].pc = "preflight" /\ before'[p] = dir /\ UNCHANGED <<rev, edits, lost>>
    BY <1>4 DEF Begin, TypeInv, Idle
  <2>2. \A q \in Projectors : run[q].pc \in {"idle", "done"}
    BY <1>4 DEF Begin, Alone
  <2>3. edits = 0 => Good(dir, lost, rev)
    BY <2>2 DEF GoodInv
  <2>4. QED
    BY <2>1, <2>3, GoodAlone
<1>5. CASE Preflight(p)
  <2>1. run[p].pc = "preflight" /\ UNCHANGED <<rev, dir, edits, before, lost>>
    BY <1>5 DEF Preflight, At, history
  <2>2. edits = 0 => Good(dir, lost, rev) /\ Good(before[p], lost, rev)
    <3>1. AsFound(p) /\ missed[p] = {}
      BY <1>1, <2>1 DEF TraceOK, MissedInv, MissedOK
    <3>2. QED
      BY <1>3, <2>1, <3>1 DEF GoodInv
  <2>3. QED
    BY <2>1, <2>2, GoodAlone
<1>6. CASE Unlink(p)
  <2>1. run'[p].pc = "done" /\ run'[p].status = "ok" /\ UNCHANGED <<rev, edits, touched>>
    <3>1. PICK r : run'[p] = Report(r, "ok")
      BY <1>6, WentTo DEF Unlink
    <3>2. QED
      BY <1>6, <3>1 DEF Unlink, Report, Idle
  <2>2. ASSUME edits = 0 PROVE Settled(dir')
    <3>1. PICK r, D : r \in Revisions /\ r = run'[p].snap /\ D = dir'
      BY DEF TypeInv, RunsOK, RunType
    <3>2. touched'[p] = {}
      BY <1>2, <2>1, <2>2
    <3>3. \A n \in Names : IF Desired(r, n) = Nothing THEN D[n] = Nothing
                           ELSE D[n] # Nothing /\ D[n].content = Desired(r, n)
      BY <2>1, <3>1, <3>2 DEF StandsInv, StandsOK, AsDesired, Is, Has
    <3>4. QED
      BY <3>1, <3>3, PublishedSettled
  <2>3. edits = 0 => Good(dir', lost', rev')
    BY <2>2, SettledAdopts DEF Good
  <2>4. QED
    BY <2>1, <2>3, GoodAlone
<1>7. CASE Unwound(p)
  <2>1. /\ run[p].pc = "undo" /\ run[p].muts = <<>> /\ run'[p].pc = "done"
        /\ UNCHANGED <<rev, dir, edits, lost>>
    BY <1>1, <1>7, WentTo, ReportIs DEF Unwound, At, history
  <2>2. ASSUME edits = 0 PROVE Good(dir, lost, rev)
    <3>1. CASE 0 \in lost
      <4>1. lost # {} /\ ~(lost \subseteq {rev})
        BY <1>1, <3>1 DEF Revisions
      <4>2. QED
        BY <4>1 DEF Good
    <3>2. CASE 0 \notin lost
      <4>1. run[p].conflicts = 0 /\ missed[p] = {}
        BY <2>1, <2>2, <3>2 DEF ClearInv, Active
      <4>2. AsFound(p)
        BY <2>1, <4>1, UnwoundAsFound
      <4>3. QED
        BY <1>3, <2>1, <2>2, <4>1, <4>2
    <3>3. QED
      BY <3>1, <3>2
  <2>3. QED
    BY <2>1, <2>2, GoodAlone
<1>8. QED
  BY <1>4, <1>5, <1>6, <1>7

LEMMA GoodDie ==
  ASSUME Alone, TypeInv, StandsInv, ApartInv, HandInv, TraceInv, WrittenInv, ClearInv, GoodInv,
         NEW p \in Projectors, Die(p)
  PROVE  GoodInv'
<1>1. /\ run[p].pc \notin {"idle", "done"} /\ run'[p].pc = "idle" /\ UNCHANGED <<rev, edits>>
      /\ lost' = lost \cup {run[p].snap}
  BY WentTo DEF Die, Idle
<1>2. /\ \A n \in Names : dir'[n] = dir[n]
      /\ \A q \in Projectors, n \in Names : dir'[Bak(q, n)] = dir[Bak(q, n)]
  <2>1. \A x \in AllNames \ {Tmp(p)} : dir'[x] = dir[x]
    BY DEF Die, TypeInv, DirOK
  <2>2. QED
    BY <2>1, NamesApart DEF Alone
<1>3. edits = 0 => Good(dir, lost', rev)
  <2>1. lost' # {}
    BY <1>1
  <2>2. edits = 0 /\ lost' \subseteq {rev} /\ NoBackups(dir) => Adopts(dir, rev)
    BY <1>1, DeadAdopts
  <2>3. QED
    BY <2>1, <2>2 DEF Good
<1>4. edits = 0 => Good(dir', lost', rev)
  BY <1>2, <1>3, GoodSame
<1>5. QED
  BY <1>1, <1>4, GoodAlone

LEMMA GoodNext ==
  ASSUME Alone
  PROVE  /\ TypeInv /\ TypeInv' /\ StandsInv /\ StandsInv' /\ ApartInv /\ MissedInv /\ HandInv
         /\ TraceInv /\ WrittenInv /\ ClearInv /\ ClearInv' /\ GoodInv /\ [Next]_vars
         => GoodInv'
<1> SUFFICES ASSUME TypeInv, TypeInv', StandsInv, StandsInv', ApartInv, MissedInv, HandInv,
                    TraceInv, WrittenInv, ClearInv, ClearInv', GoodInv, [Next]_vars
             PROVE  GoodInv'
  OBVIOUS
<1>1. ASSUME NEW p \in Projectors, Project(p) \/ Fault(p) PROVE GoodInv'
  <2>1. CASE GoesOn(p)
    <3>1. run[p].pc \notin {"idle", "done"} /\ run'[p].pc \notin {"idle", "done"}
      BY <2>1 DEF GoesOn, Publishing
    <3>2. QED
      BY <2>1, <3>1, GoodOnTheWay DEF GoesOn
  <2>2. CASE Undo(p)
    <3>1. run[p].pc = "undo" /\ lost \subseteq lost' /\ UNCHANGED <<rev, edits, before>>
      BY <2>2, UndoCases
    <3>2. run'[p].pc = "undoing"
      <4>1. PICK o \in BOOLEAN, b \in BOOLEAN : Goto(p, Decided(p, o, b))
        BY <2>2, UndoCases
      <4>2. QED
        BY <2>2, <4>1, WentTo, UndoCases, UndoneOK DEF TypeInv
    <3>3. QED
      BY <3>1, <3>2, GoodOnTheWay
  <2>3. CASE Undoing(p)
    <3>1. /\ run[p].pc = "undoing" /\ run[p] \in RunType /\ ShapeOK(run[p])
          /\ lost \subseteq lost' /\ UNCHANGED <<rev, edits, before>>
      BY <2>3, UndoingCases DEF TypeInv
    <3>2. run'[p].pc = "undo"
      <4>1. PICK c \in Nat : Goto(p, [Rest(run[p]) EXCEPT !.conflicts = c])
        BY <2>3, UndoingCases DEF TypeInv
      <4>2. PICK s : s = [Rest(run[p]) EXCEPT !.conflicts = c]
        OBVIOUS
      <4>3. run'[p] = s
        BY <4>1, <4>2, WentTo
      <4>4. s.pc = "undo"
        BY <3>1, <4>2, RestOK
      <4>5. QED
        BY <4>3, <4>4
    <3>3. QED
      BY <3>1, <3>2, GoodOnTheWay
  <2>4. QED
    BY <1>1, <2>1, <2>2, <2>3, GoodEnds, StepCases
<1>2. ASSUME NEW p \in Projectors, Die(p) PROVE GoodInv'
  BY <1>2, GoodDie
<1>3. CASE Drift
  <2>1. /\ rev \in Nat /\ rev' \in Nat /\ rev' = rev + 1 /\ \A x \in lost : x <= rev
        /\ UNCHANGED <<dir, run, edits, before, lost>>
    BY <1>3 DEF Drift, TypeInv, Revisions, ClearInv, history
  <2>2. \A D : Good(D, lost, rev) => Good(D, lost, rev')
    BY <2>1, GoodGoesOn
  <2>3. QED
    BY <2>1, <2>2 DEF GoodInv
<1>4. ASSUME NEW u \in UserNames, User(u) PROVE GoodInv'
  <2>1. edits' # 0
    BY <1>4 DEF User, TypeInv
  <2>2. QED
    BY <2>1 DEF GoodInv
<1>5. CASE UNCHANGED vars
  BY <1>5 DEF GoodInv, vars, history
<1>6. QED
  BY <1>1, <1>2, <1>3, <1>4, <1>5 DEF Next
-----------------------------------------------------------------------------
(***************************************************************************)
(* DeadRunsAreTakenUp: an undisturbed run on a directory it adopts plans a *)
(* job for every name that is not yet as it wants it, and no check of its  *)
(* own stops it.  The manifest alone may stay as it is, if nothing else is *)
(* to be changed: then its last check fails.                               *)
(***************************************************************************)

Undisturbed(p, r) ==
  /\ edits = 0 /\ ~faulted[p] /\ lost \subseteq {r.snap}
  /\ \A n \in AllNames \ Names : before[p][n] = Nothing

\* The directory D has n as the snapshot r wants it; it has all documents so, under an
\* older manifest.
Suits(D, r, n) ==
  IF Desired(r, n) = Nothing THEN D[n] = Nothing
  ELSE D[n] # Nothing /\ D[n].content = Desired(r, n)
Late(D, r) ==
  /\ D[Manifest] # Nothing /\ D[Manifest].content # Rendering[r]
  /\ \A d \in Docs : Suits(D, r, d)

\* A file that is moved aside is the old manifest's, and not what the run wants.
Altered(D, r, n) ==
  /\ D[n] # Nothing /\ D[n].content = Old(r, n)
  /\ n \in Docs => r.prev[n] \notin {Nothing, Desired(r.snap, n)}
Asked(D, r, j) ==
  /\ j.kind = "create" => D[j.name] = Nothing /\ Desired(r.snap, j.name) # Nothing
  /\ j.kind = "replace" => Altered(D, r, j.name) /\ Desired(r.snap, j.name) # Nothing
  /\ j.kind = "delete" => Altered(D, r, j.name) /\ Desired(r.snap, j.name) = Nothing

Due(r, n) == \E j \in r.todo : j.kind # "check" /\ j.name = n
Right(r, m) ==
  IF Desired(r.snap, m.name) = Nothing THEN m.now = Nothing
  ELSE m.now # Nothing /\ m.now.content = Desired(r.snap, m.name)

\* Every name is done with, or due, or as it should be.
Covers(D, r, n) ==
  Due(r, n) \/ Mutated(r.muts, n) \/ Suits(D, r.snap, n) \/ (n = Manifest /\ Late(D, r.snap))
PlannedOK(D, r) ==
  /\ r.names = {n \in AllNames : D[n] # Nothing} /\ r.prev = ListedIn(D)
  /\ \A j \in r.todo : Asked(D, r, j)
  /\ \A i \in DOMAIN r.muts :
       /\ r.muts[i].kind # "created" => Altered(D, r, r.muts[i].name)
       /\ Right(r, r.muts[i]) \/ Due(r, r.muts[i].name)
  /\ \A n \in Names : Covers(D, r, n)

Excused(D, r) == r.status = "stale" \/ (r.status = "failure" /\ Late(D, r.snap))
Fine(D, r) ==
  /\ r.pc \in Publishing \cup {"preflight", "fresh"} => Adopts(D, r.snap)
  /\ r.pc \in Publishing \cup {"fresh"} => PlannedOK(D, r)
  /\ r.pc \in {"undo", "undoing"} => Excused(D, r)
  /\ r.pc = "done" => r.status = "ok" \/ Excused(D, r)
ResumeInv == \A p \in Projectors : Undisturbed(p, run[p]) => Fine(before[p], run[p])

(* What a run finds that adopts the directory, and plans on it.            *)

LEMMA DesiredDoc ==
  ASSUME NEW r, NEW d \in Docs
  PROVE  Desired(r, d) = Rendering[r][d] /\ d # Marker /\ d # Manifest /\ d \in Names
BY NamesAssumption DEF Desired, Names

LEMMA DesiredMeta ==
  ASSUME NEW r \in Revisions
  PROVE  /\ Desired(r, Marker) = MarkerText /\ MarkerText # Nothing
         /\ Desired(r, Manifest) = Rendering[r] /\ Rendering[r] # Nothing
         /\ Rendering[r] # UserText
<1>1. Rendering[r] \in Range(Rendering)
  BY ProjectionAssumption, LenProperties DEF Revisions, Range
<1>2. QED
  BY <1>1, NamesAssumption, ContentAssumption DEF Desired

LEMMA Previously == Previous = ListedIn(dir)
BY DEF Previous, ListedIn, Unlisted, Has

LEMMA AdoptedFiles ==
  ASSUME NEW r, NEW D, Adopts(D, r)
  PROVE  /\ D[Marker] # Nothing => D[Marker].content = MarkerText
         /\ D[Manifest] # Nothing => D[Manifest].content \in Range(Rendering)
         /\ \A n \in Names : D[n] # Nothing => D[Marker] # Nothing
         /\ \A d \in Docs : D[d] # Nothing =>
              IF ListedIn(D)[d] # Nothing THEN D[d].content = ListedIn(D)[d]
              ELSE Rendering[r][d] # Nothing /\ D[d].content = Rendering[r][d]
<1>1. Marker \in Names /\ Manifest \in Names /\ Docs \subseteq Names
  BY DEF Names
<1>2. CASE Bare(D)
  BY <1>1, <1>2 DEF Bare
<1>3. CASE ~Bare(D)
  BY <1>1, <1>3 DEF Adopts, Marked
<1>4. QED
  BY <1>2, <1>3

LEMMA AdoptedNoConflict ==
  ASSUME NEW r \in Revisions, Adopts(dir, r), Listing \subseteq Names
  PROVE  NoConflict(r)
<1>1. CASE Listing = {}
  BY <1>1 DEF NoConflict
<1>2. CASE Listing # {}
  <2>1. Is(Marker, MarkerText)
    BY <1>2, AdoptedFiles DEF Listing, Is, Has
  <2>2. ~Is(Manifest, UserText)
    BY AdoptedFiles, ContentAssumption DEF Is, Has
  <2>3. ASSUME NEW d \in Docs, Has(d)
        PROVE  IF d \in Listed THEN Is(d, Previous[d])
               ELSE d \in Rendered(r) /\ Is(d, Desired(r, d))
    BY <2>3, AdoptedFiles, Previously, DesiredDoc DEF Listed, Rendered, Is, Has
  <2>4. QED
    BY <2>1, <2>2, <2>3 DEF NoConflict
<1>3. QED
  BY <1>1, <1>2

Changed(r) == Created(r) \cup Replaced(r) \cup Deleted(r)

LEMMA PlanIs ==
  ASSUME NEW r
  PROVE  /\ \A j \in Plan(r) :
              /\ j.kind = "create" => j.name \in Created(r) \cup Meta /\ ~Has(j.name)
              /\ j.kind = "replace" => j.name \in Replaced(r) \/ (j.name = Manifest /\ Has(Manifest))
              /\ j.kind = "delete" => j.name \in Deleted(r)
         /\ \A n \in Created(r) \cup Replaced(r) \cup Deleted(r) :
              \E j \in Plan(r) : j.kind # "check" /\ j.name = n
         /\ \A n \in Meta : ~Has(n) => \E j \in Plan(r) : j.kind # "check" /\ j.name = n
         /\ Changed(r) # {} => \E j \in Plan(r) : j.kind # "check" /\ j.name = Manifest
<1> DEFINE C == Created(r) \cup {m \in Meta : ~Has(m)}
           R == Replaced(r) \cup {m \in {Manifest} : Has(m) /\ Changed(r) # {}}
           E == Deleted(r)
<1>1. Plan(r) = {[kind |-> "create", name |-> n] : n \in C}
                 \cup {[kind |-> "replace", name |-> n] : n \in R}
                 \cup {[kind |-> "delete", name |-> n] : n \in E}
                 \cup {[kind |-> "check", name |-> Manifest]}
  BY DEF Plan, Changed
<1>2. \A n \in C : n \in Created(r) \cup Meta /\ ~Has(n)
  BY DEF Created
<1>3. \A n \in R : n \in Replaced(r) \/ (n = Manifest /\ Has(Manifest))
  OBVIOUS
<1>4. Created(r) \subseteq C /\ Replaced(r) \subseteq R /\ Deleted(r) = E
  OBVIOUS
<1>5. \A n \in Meta : ~Has(n) => n \in C
  OBVIOUS
<1>6. Changed(r) # {} => Manifest \in C \/ Manifest \in R
  BY DEF Meta
<1> HIDE DEF C, R, E
<1>7. \A j \in Plan(r) : /\ j.kind = "create" => j.name \in C
                         /\ j.kind = "replace" => j.name \in R
                         /\ j.kind = "delete" => j.name \in E
  BY <1>1
<1>8. ASSUME NEW n \in C \cup R \cup E
      PROVE  \E j \in Plan(r) : j.kind # "check" /\ j.name = n
  <2>1. CASE n \in C
    <3>1. PICK j : j = [kind |-> "create", name |-> n]
      OBVIOUS
    <3>2. j \in Plan(r) /\ j.kind # "check" /\ j.name = n
      BY <1>1, <2>1, <3>1
    <3>3. QED
      BY <3>2
  <2>2. CASE n \in R
    <3>1. PICK j : j = [kind |-> "replace", name |-> n]
      OBVIOUS
    <3>2. j \in Plan(r) /\ j.kind # "check" /\ j.name = n
      BY <1>1, <2>2, <3>1
    <3>3. QED
      BY <3>2
  <2>3. CASE n \in E
    <3>1. PICK j : j = [kind |-> "delete", name |-> n]
      OBVIOUS
    <3>2. j \in Plan(r) /\ j.kind # "check" /\ j.name = n
      BY <1>1, <2>3, <3>1
    <3>3. QED
      BY <3>2
  <2>4. QED
    BY <2>1, <2>2, <2>3
<1>9. QED
  BY <1>2, <1>3, <1>4, <1>5, <1>6, <1>7, <1>8

LEMMA PlanAsked ==
  ASSUME NEW r \in Revisions, Adopts(dir, r), NEW s, s.snap = r, s.prev = Previous,
         NEW j \in Plan(r)
  PROVE  Asked(dir, s, j)
<1>1. /\ j.kind = "create" => ~Has(j.name)
      /\ j.kind = "replace" => j.name \in Replaced(r) \/ (j.name = Manifest /\ Has(Manifest))
      /\ j.kind = "delete" => j.name \in Deleted(r)
  BY PlanIs
<1>2. j.kind = "create" => Desired(r, j.name) # Nothing
  BY PlanWanted DEF Wanted
<1>3. ASSUME NEW d \in Docs, Has(d), Previous[d] \notin {Nothing, Desired(r, d)}
      PROVE  Altered(dir, s, d)
  BY <1>3, AdoptedFiles, Previously, DesiredDoc DEF Altered, Old, Has
<1>4. ASSUME Has(Manifest) PROVE Altered(dir, s, Manifest)
  BY <1>4, NamesAssumption DEF Altered, Old, Previous, Has
<1>5. ASSUME NEW d \in Replaced(r) PROVE Altered(dir, s, d) /\ Desired(r, d) # Nothing
  BY <1>3, DesiredDoc DEF Replaced, Rendered, Listed
<1>6. ASSUME NEW d \in Deleted(r) PROVE Altered(dir, s, d) /\ Desired(r, d) = Nothing
  BY <1>3, DesiredDoc DEF Deleted, Rendered, Listed
<1>7. QED
  BY <1>1, <1>2, <1>4, <1>5, <1>6, DesiredMeta DEF Asked, Has

LEMMA PlanCovers ==
  ASSUME NEW r \in Revisions, Adopts(dir, r), NEW s, s.snap = r, s.todo = Plan(r),
         NEW n \in Names
  PROVE  Covers(dir, s, n)
<1>1. \A d \in Docs : d \in Changed(r) \/ Suits(dir, r, d)
  <2> SUFFICES ASSUME NEW d \in Docs, d \notin Changed(r) PROVE Suits(dir, r, d)
    OBVIOUS
  <2>1. Desired(r, d) = Rendering[r][d]
    BY DesiredDoc
  <2>2. CASE ~Has(d)
    BY <2>1, <2>2 DEF Changed, Created, Rendered, Suits, Has
  <2>3. CASE Has(d) /\ Previous[d] = Nothing
    BY <2>1, <2>3, AdoptedFiles, Previously DEF Suits, Has
  <2>4. CASE Has(d) /\ Previous[d] # Nothing
    BY <2>1, <2>4, AdoptedFiles, Previously
       DEF Changed, Replaced, Deleted, Rendered, Listed, Suits, Has
  <2>5. QED
    BY <2>2, <2>3, <2>4
<1>2. CASE n \in Docs
  <2>1. n \in Changed(r) => Due(s, n)
    BY PlanIs DEF Changed, Due
  <2>2. QED
    BY <1>1, <1>2, <2>1 DEF Covers
<1>3. CASE n \in Meta /\ ~Has(n)
  <2>1. Due(s, n)
    BY <1>3, PlanIs DEF Due
  <2>2. QED
    BY <2>1 DEF Covers
<1>4. CASE n = Marker /\ Has(n)
  <2>1. Suits(dir, r, n)
    BY <1>4, AdoptedFiles, DesiredMeta DEF Suits, Has
  <2>2. QED
    BY <2>1 DEF Covers
<1>5. CASE n = Manifest /\ Has(n)
  <2>1. CASE Changed(r) # {}
    <3>1. Due(s, n)
      BY <1>5, <2>1, PlanIs DEF Due
    <3>2. QED
      BY <3>1 DEF Covers
  <2>2. CASE Changed(r) = {}
    <3>1. \A d \in Docs : Suits(dir, r, d)
      BY <1>1, <2>2
    <3>2. Suits(dir, r, n) \/ Late(dir, r)
      BY <1>5, <3>1, DesiredMeta DEF Suits, Late, Has
    <3>3. QED
      BY <1>5, <3>2 DEF Covers
  <2>3. QED
    BY <2>1, <2>2
<1>6. QED
  BY <1>2, <1>3, <1>4, <1>5 DEF Names, Meta

(* No check of an undisturbed run fails.                                   *)

LEMMA Calm ==
  ASSUME Alone, TypeInv, TraceInv, MissedInv, ClearInv, NEW p \in Projectors,
         Undisturbed(p, run[p])
  PROVE  /\ touched[p] = {} /\ run[p].snap \in Revisions
         /\ run[p].pc \in Publishing \cup {"preflight", "fresh"} => \A x : Left(p, x)
         /\ run[p].pc \in Publishing \cup {"fresh"} =>
              run[p].conflicts = 0 /\ FoundOK(p, run[p])
<1>1. run[p] \in RunType /\ ShapeOK(run[p]) /\ run[p].snap \in Revisions
  BY DEF TypeInv, RunsOK, RunType
<1>2. touched[p] = {} /\ TraceOK(p, run[p]) /\ MissedOK(p, run[p])
  BY DEF Undisturbed, ClearInv, TraceInv, MissedInv
<1>3. run[p].pc \in Publishing \cup {"preflight", "fresh"} => missed[p] = {}
  BY <1>2 DEF MissedOK
<1>4. run[p].pc \in Publishing \cup {"fresh"} => run[p].conflicts = 0
  BY <1>1 DEF ShapeOK
<1>5. QED
  BY <1>1, <1>2, <1>3, <1>4 DEF Left, TraceOK, Active

LEMMA Unobstructed ==
  ASSUME Alone, TypeInv, ApartInv, HandInv, TraceInv, MissedInv, ClearInv, ResumeInv,
         NEW p \in Projectors, run[p].pc \in Publishing, Undisturbed(p, run[p]),
         NEW r, r = run[p], NEW n, n = Job(p).name
  PROVE  /\ r.pc = "apply" => Listing = r.names /\ (Has(Marker) => Is(Marker, MarkerText))
         /\ r.pc = "look" => ~Has(n)
         /\ r.pc = "verify" => Is(n, Old(r, n))
         /\ r.pc \in {"identify", "move"} => Has(n)
         /\ r.pc = "compare" => dir[n] = r.held
         /\ r.pc = "record" => Has(n)
         /\ r.pc = "check" => \A d \in Unchanged(p) : Is(d, Payload(p, d))
         /\ r.pc = "validate" =>
              \/ Late(before[p], r.snap)
              \/ /\ \A m \in {Marker, Manifest} \cup Rendered(r.snap) : Is(m, Payload(p, m))
                 /\ Listing = Rendered(r.snap) \cup {Marker, Manifest} \cup Backups(p)
<1>1. PICK D : D = before[p]
  OBVIOUS
<1>2. /\ r \in RunType /\ ShapeOK(r) /\ JobsApart(r) /\ HandOK(p, r) /\ OursOK(p, r)
      /\ r.pc \in Publishing /\ n = First(r.todo).name
  BY DEF TypeInv, RunsOK, ApartInv, HandInv, Job
<1>3. r.snap \in Revisions /\ r.conflicts = 0 /\ FoundOK(p, r) /\ \A x : Left(p, x)
  BY Calm
<1>4. Adopts(D, r.snap) /\ PlannedOK(D, r)
  BY <1>1 DEF ResumeInv, Fine
<1>5. \A x \in AllNames \ Names : D[x] = Nothing
  BY <1>1 DEF Undisturbed
<1>6. \A m \in Names : ~Mutated(r.muts, m) /\ r.pc # "record" => dir[m] = D[m]
  BY <1>1, <1>3 DEF FoundOK
<1>7. r.pc \in Working => First(r.todo) \in r.todo /\ n \in Names
  BY <1>2, JobIn DEF ShapeOK, TypeInv, Job
<1>8. \A x \in AllNames : x \in Names \/ x = Tmp(p) \/ \E m \in Names : x = Bak(p, m)
  BY DEF AllNames, OwnNames, Alone
<1>9. \A m \in Names : ~Aside(r.muts, m) => ~Has(Bak(p, m))
  BY <1>2, <1>3 DEF OursOK, Active
<1>10. r.pc \in {"apply", "validate"} => ~Has(Tmp(p))
  BY <1>2 DEF HandOK
<1>11. r.pc = "look" \/ r.pc \in Moving => dir[n] = D[n] /\ Asked(D, r, First(r.todo))
  <2>1. r.pc = "look" \/ r.pc \in Moving => First(r.todo).kind # "check"
    BY <1>2 DEF ShapeOK
  <2>2. r.pc = "look" \/ r.pc \in Moving => r.pc \in Working /\ r.pc \notin Writing
    BY DEF Working, Moving, Writing
  <2>3. r.pc = "look" \/ r.pc \in Moving => ~Mutated(r.muts, n)
    BY <1>2, <1>7, <2>1, <2>2 DEF JobsApart, Mutated
  <2>4. QED
    BY <1>4, <1>6, <1>7, <2>2, <2>3 DEF PlannedOK, Writing
<1>12. r.pc = "look" => ~Has(n)
  BY <1>2, <1>11 DEF ShapeOK, Asked, Has
<1>13. r.pc \in Moving => Is(n, Old(r, n)) /\ Has(n)
  BY <1>2, <1>11 DEF ShapeOK, Asked, Altered, Is, Has
<1>14. r.pc = "compare" => dir[n] = r.held
  BY <1>1, <1>2, <1>3, <1>11 DEF FoundOK, Moving
<1>15. r.pc = "record" => Has(n)
  BY <1>2 DEF HandOK, Is
<1>16. ASSUME r.pc = "apply"
       PROVE  Listing = r.names /\ (Has(Marker) => Is(Marker, MarkerText))
  <2>1. DOMAIN r.muts = {}
    BY <1>2, <1>16 DEF ShapeOK
  <2>2. \A m \in Names : dir[m] = D[m] /\ ~Has(Bak(p, m))
    BY <1>6, <1>9, <1>16, <2>1 DEF Mutated, Aside
  <2>3. Listing = {m \in AllNames : D[m] # Nothing}
    <3>1. \A x \in AllNames : Has(x) <=> D[x] # Nothing
      BY <1>5, <1>8, <1>10, <1>16, <2>2 DEF Has
    <3>2. QED
      BY <3>1 DEF Listing
  <2>4. Marker \in Names
    BY DEF Names
  <2>5. QED
    BY <1>4, <2>2, <2>3, <2>4, AdoptedFiles DEF PlannedOK, Is, Has
<1>17. ASSUME r.pc = "check", NEW d \in Unchanged(p) PROVE Is(d, Payload(p, d))
  <2>1. /\ d \in Docs /\ d \in Names /\ Desired(r.snap, d) = Rendering[r.snap][d]
        /\ d \in r.names /\ r.prev[d] \in {Nothing, Desired(r.snap, d)}
        /\ Payload(p, d) = Desired(r.snap, d) /\ Desired(r.snap, d) # Nothing
    BY DesiredDoc DEF Unchanged, Rendered, Payload
  <2>2. D[d] # Nothing /\ r.prev = ListedIn(D)
    BY <1>4, <2>1 DEF PlannedOK
  <2>3. D[d].content = Desired(r.snap, d)
    BY <1>4, <2>1, <2>2, AdoptedFiles
  <2>4. ASSUME NEW i \in DOMAIN r.muts, r.muts[i].name = d PROVE FALSE
    <3>1. r.muts[i].kind = "created" => D[d] = Nothing
      BY <1>1, <1>2, <1>3, <2>4 DEF FoundOK, JobsApart, MutsOK
    <3>2. r.muts[i].kind # "created" => r.prev[d] \notin {Nothing, Desired(r.snap, d)}
      BY <1>4, <2>1, <2>4 DEF PlannedOK, Altered
    <3>3. QED
      BY <2>1, <2>2, <3>1, <3>2
  <2>5. dir[d] = D[d]
    BY <1>6, <1>17, <2>1, <2>4 DEF Mutated
  <2>6. QED
    BY <2>1, <2>2, <2>3, <2>5 DEF Is, Has
<1>18. ASSUME r.pc = "validate", ~Late(D, r.snap)
       PROVE  /\ \A m \in {Marker, Manifest} \cup Rendered(r.snap) : Is(m, Payload(p, m))
              /\ Listing = Rendered(r.snap) \cup {Marker, Manifest} \cup Backups(p)
  <2>1. \A m \in Names : ~Due(r, m)
    BY <1>2, <1>18 DEF ShapeOK, Due, Working, Moving, Writing
  <2>2. ASSUME NEW m \in Names PROVE Suits(dir, r.snap, m)
    <3>1. CASE Mutated(r.muts, m)
      <4>1. PICK i \in DOMAIN r.muts : r.muts[i].name = m
        BY <3>1 DEF Mutated
      <4>2. Right(r, r.muts[i])
        BY <1>4, <2>1, <4>1 DEF PlannedOK
      <4>3. dir[m] = r.muts[i].now
        BY <1>3, <1>18, <4>1 DEF FoundOK
      <4>4. QED
        BY <4>1, <4>2, <4>3 DEF Right, Suits
    <3>2. CASE ~Mutated(r.muts, m)
      <4>1. Suits(D, r.snap, m)
        BY <1>4, <1>18, <2>1, <3>2 DEF PlannedOK, Covers
      <4>2. dir[m] = D[m]
        BY <1>6, <1>18, <3>2
      <4>3. QED
        BY <4>1, <4>2 DEF Suits
    <3>3. QED
      BY <3>1, <3>2
  <2>3. /\ Marker \in Names /\ Manifest \in Names /\ Rendered(r.snap) \subseteq Names
        /\ \A m \in Names : m \in Rendered(r.snap) \cup {Marker, Manifest}
                              <=> Desired(r.snap, m) # Nothing
    BY <1>3, DesiredDoc, DesiredMeta DEF Names, Rendered
  <2>4. \A m \in {Marker, Manifest} \cup Rendered(r.snap) : Is(m, Payload(p, m))
    BY <2>2, <2>3 DEF Suits, Is, Has, Payload
  <2>5. \A m \in Names : Has(m) <=> m \in Rendered(r.snap) \cup {Marker, Manifest}
    BY <2>2, <2>3 DEF Suits, Has
  <2>6. \A m \in Names : Aside(r.muts, m) => Has(Bak(p, m)) /\ Bak(p, m) \in Backups(p)
    <3> SUFFICES ASSUME NEW m \in Names, NEW i \in DOMAIN r.muts,
                        r.muts[i].name = m, r.muts[i].kind # "created"
                 PROVE  Has(Bak(p, m)) /\ Bak(p, m) \in Backups(p)
      BY DEF Aside
    <3>1. dir[Bak(p, m)] = r.muts[i].was /\ r.muts[i].was # Nothing
      BY <1>2, <1>3 DEF FoundOK, JobsApart, MutsOK
    <3>2. r.muts[i] \in Range(run[p].muts)
      BY DEF Range
    <3>3. QED
      BY <3>1, <3>2 DEF Has, Backups
  <2>7. \A x \in Backups(p) : \E m \in Names : x = Bak(p, m) /\ Aside(r.muts, m)
    <3> SUFFICES ASSUME NEW i \in DOMAIN r.muts, r.muts[i].kind # "created"
                 PROVE  r.muts[i].name \in Names /\ Aside(r.muts, r.muts[i].name)
      BY DEF Backups, Range
    <3>1. r.muts[i].name \in Names
      BY <1>2, MutsNamed DEF RunType
    <3>2. QED
      BY <3>1 DEF Aside
  <2>8. \A m \in Names : Bak(p, m) \in AllNames /\ m \in AllNames
    BY NamesApart
  <2>9. \A m \in Names : Has(Bak(p, m)) <=> Aside(r.muts, m)
    BY <1>9, <2>6
  <2>10. Listing \subseteq Rendered(r.snap) \cup {Marker, Manifest} \cup Backups(p)
    BY <1>8, <1>10, <1>18, <2>5, <2>6, <2>9 DEF Listing
  <2>11. Rendered(r.snap) \cup {Marker, Manifest} \cup Backups(p) \subseteq Listing
    BY <2>3, <2>5, <2>7, <2>8, <2>9 DEF Listing
  <2>12. QED
    BY <2>4, <2>10, <2>11
<1>19. QED
  BY <1>1, <1>12, <1>13, <1>14, <1>15, <1>16, <1>17, <1>18 DEF Moving

(* The steps of an undisturbed run.                                        *)

LEMMA PlannedKept ==
  ASSUME NEW D, NEW r, PlannedOK(D, r), NEW s, s.names = r.names, s.prev = r.prev,
         s.snap = r.snap, s.todo = r.todo, s.muts = r.muts
  PROVE  PlannedOK(D, s)
BY DEF PlannedOK, Asked, Altered, Old, Right, Due, Covers

LEMMA ResumeStep ==
  ASSUME Alone, NEW p \in Projectors, NEW s, s = run'[p], s.snap = run[p].snap,
         UNCHANGED <<edits, before>>, faulted[p] => faulted'[p], lost \subseteq lost',
         Undisturbed(p, run[p]) => Fine(before[p], s)
  PROVE  ResumeInv'
<1>1. \A q \in Projectors : q = p
  BY DEF Alone
<1>2. Undisturbed(p, run[p])' => Undisturbed(p, run[p])
  BY DEF Undisturbed
<1>3. Undisturbed(p, run[p])' => Fine(before'[p], run'[p])
  BY <1>2
<1>4. QED
  BY <1>1, <1>3 DEF ResumeInv

\* A run is cut short.
LEMMA ResumeGives ==
  ASSUME Alone, TypeInv, NEW p \in Projectors, NEW status \in {"stale", "failure"},
         Gives(p, status),
         Undisturbed(p, run[p]) => status = "stale" \/ Late(before[p], run[p].snap)
  PROVE  ResumeInv'
<1>1. /\ run'[p] = ToUndo(p, status) /\ run[p] \in RunType
      /\ lost \subseteq lost' /\ UNCHANGED <<edits, before, faulted>>
  <2>1. lost' \in {lost, lost \cup {0}} /\ run'[p] = ToUndo(p, status)
    BY AbortOK DEF Gives, TypeInv
  <2>2. QED
    BY <2>1 DEF Gives, Abort, TypeInv, RunsOK
<1>2. PICK s : s = run'[p]
  OBVIOUS
<1>3. s.pc = "undo" /\ s.status = status /\ s.snap = run[p].snap
  BY <1>1, <1>2 DEF ToUndo, RunType
<1>4. Undisturbed(p, run[p]) => Fine(before[p], s)
  BY <1>3 DEF Fine, Excused, Publishing
<1>5. QED
  BY <1>1, <1>2, <1>3, <1>4, ResumeStep

\* It only moves on.
LEMMA ResumeMovesOn ==
  ASSUME Alone, TypeInv, ResumeInv, NEW p \in Projectors, NEW s, s = run'[p],
         Same(run[p], s), s.todo = run[p].todo, s.muts = run[p].muts,
         run[p].pc \in Publishing \cup {"fresh"}, s.pc \in Publishing \cup {"commit"},
         UNCHANGED <<edits, before, faulted, lost>>
  PROVE  ResumeInv'
<1>1. ASSUME Undisturbed(p, run[p]) PROVE Fine(before[p], s)
  <2>1. Adopts(before[p], run[p].snap) /\ PlannedOK(before[p], run[p])
    BY <1>1 DEF ResumeInv, Fine
  <2>2. PlannedOK(before[p], s)
    BY <2>1, PlannedKept DEF Same
  <2>3. QED
    BY <2>1, <2>2 DEF Fine, Same, Publishing
<1>2. QED
  BY <1>1, ResumeStep DEF Same

LEMMA ResumeLooking ==
  ASSUME Alone, TypeInv, ApartInv, HandInv, TraceInv, MissedInv, ClearInv, ResumeInv,
         NEW p \in Projectors, Looking(p)
  PROVE  ResumeInv'
<1>1. run[p] \in RunType /\ ShapeOK(run[p])
  BY DEF TypeInv, RunsOK
<1>2. ASSUME NEW pc, Onward(run[p], pc), Proceed(p, pc) PROVE ResumeInv'
  <2>1. PICK s : s = run'[p]
    OBVIOUS
  <2>2. s = [run[p] EXCEPT !.pc = pc] /\ UNCHANGED <<edits, before, faulted, lost>>
    BY <1>2, <2>1, WentTo DEF Proceed, history
  <2>3. /\ s.pc = pc /\ Same(run[p], s) /\ s.todo = run[p].todo /\ s.muts = run[p].muts
    BY <1>1, <2>2 DEF RunType, Same
  <2>4. pc \in Publishing \cup {"commit"} /\ run[p].pc \in Publishing \cup {"fresh"}
    BY <1>1, <1>2, OnwardOK DEF Onward, Publishing
  <2>5. QED
    BY <2>1, <2>2, <2>3, <2>4, ResumeMovesOn
<1>3. ASSUME Gives(p, "stale") PROVE ResumeInv'
  BY <1>3, ResumeGives
<1>4. ASSUME Gives(p, "failure"), Undisturbed(p, run[p]) => Late(before[p], run[p].snap)
      PROVE  ResumeInv'
  BY <1>4, ResumeGives
<1>5. ASSUME ~Undisturbed(p, run[p]) PROVE ResumeInv'
  <2>1. ASSUME NEW status \in {"stale", "failure"}, Gives(p, status) PROVE ResumeInv'
    BY <1>5, <2>1, ResumeGives
  <2>2. QED
    BY <1>2, <2>1, LookingCases
<1>6. ASSUME Undisturbed(p, run[p]) PROVE ResumeInv'
  <2>1. PICK r, n : r = run[p] /\ n = Job(p).name
    OBVIOUS
  <2>2. CASE Fresh(p)
    BY <1>2, <1>3, <2>2 DEF Fresh, At, Onward, Proceed, Gives
  <2>3. CASE Recheck(p)
    BY <1>2, <1>3, <2>3 DEF Recheck, At, Publishing, Onward, Proceed, Gives
  <2>4. CASE Apply(p)
    <3>1. Listing = run[p].names /\ (Has(Marker) => Is(Marker, MarkerText))
      BY <1>6, <2>1, <2>4, Unobstructed DEF Apply, At, Publishing
    <3>2. Proceed(p, EntryOf(run[p].todo)) /\ Onward(run[p], EntryOf(run[p].todo))
      BY <2>4, <3>1 DEF Apply, At, Onward, Proceed
    <3>3. QED
      BY <1>2, <3>2
  <2>5. CASE Look(p)
    <3>1. ~Has(Job(p).name)
      BY <1>6, <2>1, <2>5, Unobstructed DEF Look, At, Publishing
    <3>2. Proceed(p, "temp") /\ Onward(run[p], "temp")
      BY <2>5, <3>1 DEF Look, At, Onward
    <3>3. QED
      BY <1>2, <3>2
  <2>6. CASE Verify(p)
    <3>1. Is(Job(p).name, Old(run[p], Job(p).name))
      BY <1>6, <2>1, <2>6, Unobstructed DEF Verify, At, Publishing
    <3>2. Proceed(p, "identify") /\ Onward(run[p], "identify")
      BY <2>6, <3>1 DEF Verify, Old, At, Onward
    <3>3. QED
      BY <1>2, <3>2
  <2>7. CASE Compare(p)
    <3>1. dir[Job(p).name] = run[p].held
      BY <1>6, <2>1, <2>7, Unobstructed DEF Compare, At, Publishing
    <3>2. Proceed(p, "move") /\ Onward(run[p], "move")
      BY <2>7, <3>1 DEF Compare, At, Onward
    <3>3. QED
      BY <1>2, <3>2
  <2>8. CASE Validate(p)
    <3>1. CASE Late(before[p], run[p].snap)
      BY <1>2, <1>4, <2>8, <3>1 DEF Validate, Fail, At, Publishing, Onward, Gives
    <3>2. CASE ~Late(before[p], run[p].snap)
      <4>1. /\ \A m \in {Marker, Manifest} \cup Rendered(run[p].snap) : Is(m, Payload(p, m))
            /\ Listing = Rendered(run[p].snap) \cup {Marker, Manifest} \cup Backups(p)
        BY <1>6, <2>1, <2>8, <3>2, Unobstructed DEF Validate, At, Publishing
      <4>2. Proceed(p, "commit") /\ Onward(run[p], "commit")
        BY <2>8, <4>1 DEF Validate, At, Onward
      <4>3. QED
        BY <1>2, <4>2
    <3>3. QED
      BY <3>1, <3>2
  <2>9. QED
    BY <2>2, <2>3, <2>4, <2>5, <2>6, <2>7, <2>8 DEF Looking
<1>7. QED
  BY <1>5, <1>6

LEMMA ResumeIdentify ==
  ASSUME Alone, TypeInv, ApartInv, HandInv, TraceInv, MissedInv, ClearInv, ResumeInv,
         NEW p \in Projectors, Identify(p)
  PROVE  ResumeInv'
<1>1. run[p] \in RunType /\ run[p].pc = "identify"
  BY DEF TypeInv, RunsOK, Identify, At
<1>2. CASE ~Has(Job(p).name)
  <2>1. ~Undisturbed(p, run[p])
    BY <1>1, <1>2, Unobstructed DEF Publishing
  <2>2. Gives(p, "failure")
    BY <1>1, <1>2 DEF Identify, Fail, Gives, Publishing
  <2>3. QED
    BY <2>1, <2>2, ResumeGives
<1>3. CASE Has(Job(p).name)
  <2>1. PICK s : s = run'[p]
    OBVIOUS
  <2>2. /\ s = [run[p] EXCEPT !.pc = "compare", !.held = dir[Job(p).name]]
        /\ UNCHANGED <<edits, before, faulted, lost>>
    BY <1>3, <2>1, WentTo DEF Identify, history
  <2>3. /\ s.pc = "compare" /\ Same(run[p], s) /\ s.todo = run[p].todo /\ s.muts = run[p].muts
    BY <1>1, <2>2 DEF RunType, Same
  <2>4. QED
    BY <1>1, <2>1, <2>2, <2>3, ResumeMovesOn DEF Publishing
<1>4. QED
  BY <1>2, <1>3

LEMMA ResumeWrites ==
  ASSUME Alone, TypeInv, ResumeInv, NEW p \in Projectors, Temp(p) \/ Rename(p)
  PROVE  ResumeInv'
<1>1. PICK s : s = run'[p]
  OBVIOUS
<1>2. run[p] \in RunType /\ run[p].pc \in {"temp", "rename"}
  BY DEF TypeInv, RunsOK, Temp, Rename, At
<1>3. \/ s = [run[p] EXCEPT !.pc = "rename"]
      \/ s = [run[p] EXCEPT !.pc = "record"]
  BY <1>1, WentTo DEF Temp, Rename
<1>4. /\ s.pc \in {"rename", "record"} /\ Same(run[p], s)
      /\ s.todo = run[p].todo /\ s.muts = run[p].muts
  BY <1>2, <1>3 DEF RunType, Same
<1>5. UNCHANGED <<edits, before, faulted, lost>>
  BY DEF Temp, Rename, history
<1>6. QED
  BY <1>1, <1>2, <1>4, <1>5, ResumeMovesOn DEF Publishing

\* A job is done.
LEMMA ResumeJob ==
  ASSUME Alone, TypeInv, ResumeInv, NEW p \in Projectors, NEW s, s = run'[p],
         Same(run[p], s), s.todo \subseteq run[p].todo,
         run[p].pc \in Publishing, s.pc \in Publishing,
         UNCHANGED <<edits, before, faulted, lost>>,
         Undisturbed(p, run[p]) =>
           /\ \A i \in DOMAIN s.muts :
                /\ s.muts[i].kind # "created" => Altered(before[p], run[p], s.muts[i].name)
                /\ Right(s, s.muts[i]) \/ Due(s, s.muts[i].name)
           /\ \A n \in Names : Due(run[p], n) \/ Mutated(run[p].muts, n) =>
                Due(s, n) \/ Mutated(s.muts, n)
  PROVE  ResumeInv'
<1>1. ASSUME Undisturbed(p, run[p]) PROVE Fine(before[p], s)
  <2>1. PICK D, r : D = before[p] /\ r = run[p]
    OBVIOUS
  <2>2. Adopts(D, r.snap) /\ PlannedOK(D, r)
    BY <1>1, <2>1 DEF ResumeInv, Fine
  <2>3. s.names = r.names /\ s.prev = r.prev /\ s.snap = r.snap /\ s.todo \subseteq r.todo
    BY <2>1 DEF Same
  <2>4. \A n : Altered(D, r, n) => Altered(D, s, n)
    BY <2>3 DEF Altered, Old
  <2>5. \A j \in s.todo : Asked(D, s, j)
    BY <2>2, <2>3, <2>4 DEF PlannedOK, Asked
  <2>6. \A n \in Names : Covers(D, s, n)
    BY <1>1, <2>1, <2>2, <2>3 DEF PlannedOK, Covers
  <2>7. \A i \in DOMAIN s.muts :
          /\ s.muts[i].kind # "created" => Altered(D, s, s.muts[i].name)
          /\ Right(s, s.muts[i]) \/ Due(s, s.muts[i].name)
    BY <1>1, <2>1, <2>4
  <2>8. PlannedOK(D, s)
    BY <2>2, <2>3, <2>5, <2>6, <2>7 DEF PlannedOK
  <2>9. QED
    BY <2>1, <2>2, <2>3, <2>8 DEF Fine, Publishing
<1>2. QED
  BY <1>1, ResumeStep DEF Same

LEMMA ResumeCheck ==
  ASSUME Alone, TypeInv, ApartInv, HandInv, TraceInv, MissedInv, ClearInv, ResumeInv,
         NEW p \in Projectors, Check(p)
  PROVE  ResumeInv'
<1>1. /\ run[p] \in RunType /\ ShapeOK(run[p]) /\ run[p].pc = "check"
      /\ run[p].todo # {} /\ run[p].conflicts = 0 /\ First(run[p].todo).kind = "check"
  BY DEF TypeInv, RunsOK, Check, At, ShapeOK, Working, Publishing
<1>2. CASE ~(\A d \in Unchanged(p) : Is(d, Payload(p, d)))
  <2>1. ~Undisturbed(p, run[p])
    BY <1>1, <1>2, Unobstructed DEF Publishing
  <2>2. Gives(p, "failure")
    BY <1>1, <1>2 DEF Check, Fail, Gives, Publishing
  <2>3. QED
    BY <2>1, <2>2, ResumeGives
<1>3. CASE \A d \in Unchanged(p) : Is(d, Payload(p, d))
  <2>1. PICK r, s, D : r = run[p] /\ s = run'[p] /\ D = before[p]
    OBVIOUS
  <2>2. s = NextJob(r) /\ UNCHANGED <<edits, before, faulted, lost>>
    BY <1>3, <2>1, WentTo DEF Check, history
  <2>3. /\ Same(r, s) /\ s.muts = r.muts /\ s.todo = r.todo \ {First(r.todo)}
        /\ s.pc \in {"recheck", "look", "check", "verify"}
    BY <1>1, <2>1, <2>2, NextJobOK
  <2>4. \A n : Due(s, n) <=> Due(r, n)
    BY <1>1, <2>1, <2>3 DEF Due
  <2>5. ASSUME Undisturbed(p, r)
        PROVE  \A i \in DOMAIN s.muts :
                 /\ s.muts[i].kind # "created" => Altered(D, r, s.muts[i].name)
                 /\ Right(s, s.muts[i]) \/ Due(s, s.muts[i].name)
    <3>1. PlannedOK(D, r)
      BY <1>1, <2>1, <2>5 DEF ResumeInv, Fine, Publishing
    <3>2. \A m : Right(r, m) => Right(s, m)
      BY <2>3 DEF Right, Same
    <3>3. QED
      BY <2>3, <2>4, <3>1, <3>2 DEF PlannedOK
  <2>6. \A n \in Names : Due(r, n) \/ Mutated(r.muts, n) => Due(s, n) \/ Mutated(s.muts, n)
    BY <2>3, <2>4
  <2>7. r.pc \in Publishing /\ s.pc \in Publishing /\ s.todo \subseteq r.todo
    BY <1>1, <2>1, <2>3 DEF Publishing
  <2>8. QED
    BY <2>1, <2>2, <2>3, <2>5, <2>6, <2>7, ResumeJob
<1>4. QED
  BY <1>2, <1>3

LEMMA ResumeMove ==
  ASSUME Alone, TypeInv, ApartInv, HandInv, TraceInv, MissedInv, ClearInv, ResumeInv,
         NEW p \in Projectors, Move(p)
  PROVE  ResumeInv'
<1>1. /\ run[p] \in RunType /\ ShapeOK(run[p]) /\ JobsApart(run[p]) /\ run[p].pc = "move"
      /\ run[p].todo # {} /\ run[p].muts \in Seq(Mutation)
  BY DEF TypeInv, RunsOK, ApartInv, Move, At, ShapeOK, Working, Moving, RunType
<1>2. CASE ~Has(Job(p).name)
  <2>1. ~Undisturbed(p, run[p])
    BY <1>1, <1>2, Unobstructed DEF Publishing
  <2>2. Gives(p, "failure")
    BY <1>1, <1>2 DEF Move, Fail, Gives, Publishing
  <2>3. QED
    BY <2>1, <2>2, ResumeGives
<1>3. CASE Has(Job(p).name)
  <2>1. PICK r, s, D, j, m : /\ r = run[p] /\ s = run'[p] /\ D = before[p]
                             /\ j = Job(p) /\ m = Moved(p)
    OBVIOUS
  <2>2. s = AfterMove(p) /\ UNCHANGED <<edits, before, faulted, lost>>
    <3>1. Goto(p, AfterMove(p)) /\ UNCHANGED <<edits, before, faulted, lost>>
      BY <1>3 DEF Move, AfterMove, Moved, history
    <3>2. QED
      BY <2>1, <3>1, WentTo
  <2>3. /\ s.muts = Append(r.muts, m) /\ m \in Mutation /\ Same(r, s)
        /\ j.kind = "delete" =>
             s.todo = r.todo \ {j} /\ s.pc \in {"recheck", "look", "check", "verify"}
        /\ j.kind # "delete" => s.todo = r.todo /\ s.pc = "temp"
    BY <1>1, <2>1, <2>2, AfterMoveOK DEF TypeInv
  <2>4. /\ j \in r.todo /\ j.name \in Names /\ j.kind \in {"replace", "delete"}
        /\ j = First(r.todo)
    BY <1>1, <2>1, JobIn DEF TypeInv, ShapeOK, Moving, Job
  <2>5. m.name = j.name /\ m.kind # "created" /\ m.now = Nothing
    BY <2>1 DEF Moved
  <2>6. /\ \A i \in DOMAIN s.muts : s.muts[i] = m \/ (i \in DOMAIN r.muts /\ s.muts[i] = r.muts[i])
        /\ \A i \in DOMAIN r.muts : i \in DOMAIN s.muts /\ s.muts[i] = r.muts[i]
        /\ \E i \in DOMAIN s.muts : s.muts[i] = m
    <3>1. PICK k : k = Len(r.muts)
      OBVIOUS
    <3>2. /\ k \in Nat /\ DOMAIN r.muts = 1 .. k
          /\ DOMAIN s.muts = 1 .. k + 1 /\ s.muts[k + 1] = m
          /\ \A i \in 1 .. k : s.muts[i] = r.muts[i]
      BY <1>1, <2>1, <2>3, <3>1, AppendProperties, LenProperties
    <3>3. k + 1 \in 1 .. k + 1
      BY <3>2
    <3>4. QED
      BY <3>2, <3>3
  <2>7. \A n : Due(r, n) => Due(s, n) \/ n = m.name
    BY <2>3, <2>5 DEF Due
  <2>8. \A i \in DOMAIN r.muts : ~Due(r, r.muts[i].name)
    <3>1. r.pc \notin Writing
      BY <1>1, <2>1 DEF Writing
    <3>2. QED
      BY <1>1, <2>1, <3>1 DEF Due, JobsApart
  <2>9. ASSUME Undisturbed(p, r)
        PROVE  \A i \in DOMAIN s.muts :
                 /\ s.muts[i].kind # "created" => Altered(D, r, s.muts[i].name)
                 /\ Right(s, s.muts[i]) \/ Due(s, s.muts[i].name)
    <3>1. PlannedOK(D, r)
      BY <1>1, <2>1, <2>9 DEF ResumeInv, Fine, Publishing
    <3>2. \A u : Right(r, u) => Right(s, u)
      BY <2>3 DEF Right, Same
    <3>3. Asked(D, r, j)
      BY <2>4, <3>1 DEF PlannedOK
    <3>4. Altered(D, r, m.name)
      BY <2>4, <2>5, <3>3 DEF Asked
    <3>5. Right(s, m) \/ Due(s, m.name)
      <4>1. CASE j.kind = "delete"
        BY <2>3, <2>5, <3>3, <4>1 DEF Asked, Right, Same
      <4>2. CASE j.kind = "replace"
        BY <2>3, <2>4, <2>5, <4>2 DEF Due
      <4>3. QED
        BY <2>4, <4>1, <4>2
    <3>6. ASSUME NEW i \in DOMAIN r.muts
          PROVE  /\ r.muts[i].kind # "created" => Altered(D, r, r.muts[i].name)
                 /\ Right(s, r.muts[i])
      BY <2>8, <3>1, <3>2 DEF PlannedOK
    <3>7. QED
      BY <2>6, <3>4, <3>5, <3>6
  <2>10. \A n \in Names : Due(r, n) \/ Mutated(r.muts, n) => Due(s, n) \/ Mutated(s.muts, n)
    BY <2>6, <2>7 DEF Mutated
  <2>11. r.pc \in Publishing /\ s.pc \in Publishing /\ s.todo \subseteq r.todo
    BY <1>1, <2>1, <2>3 DEF Publishing
  <2>12. QED
    BY <2>1, <2>2, <2>3, <2>9, <2>10, <2>11, ResumeJob
<1>4. QED
  BY <1>2, <1>3

LEMMA ResumeRecord ==
  ASSUME Alone, TypeInv, ApartInv, HandInv, TraceInv, MissedInv, ClearInv, ResumeInv,
         NEW p \in Projectors, Record(p)
  PROVE  ResumeInv'
<1>1. /\ run[p] \in RunType /\ JobsApart(run[p]) /\ HandOK(p, run[p]) /\ run[p].pc = "record"
      /\ run[p].pc \in Writing
  BY DEF TypeInv, RunsOK, ApartInv, HandInv, Record, At, Writing
<1>2. Has(Job(p).name)
  BY <1>1 DEF HandOK, Is, Job
<1>3. PICK r, s, D, j, f : /\ r = run[p] /\ s = run'[p] /\ D = before[p]
                           /\ j = Job(p) /\ f = dir[Job(p).name]
  OBVIOUS
<1>4. s = AfterRecord(p) /\ UNCHANGED <<edits, before, faulted, lost>>
  <2>1. Goto(p, AfterRecord(p)) /\ UNCHANGED <<edits, before, faulted, lost>>
    BY <1>2 DEF Record, AfterRecord, Published, history
  <2>2. QED
    BY <1>3, <2>1, WentTo
<1>5. /\ s.muts = Published(p) /\ Same(r, s) /\ s.todo = r.todo \ {j}
      /\ s.pc \in {"recheck", "look", "check", "verify"}
  BY <1>1, <1>3, <1>4, AfterRecordOK
<1>6. j \in r.todo /\ j.name \in Names /\ j.kind \in {"create", "replace"}
  BY <1>1, <1>3, WritingType, JobIn DEF TypeInv
<1>7. /\ \A i \in DOMAIN s.muts :
           \/ i \in DOMAIN r.muts /\ s.muts[i] = r.muts[i]
           \/ /\ s.muts[i].name = j.name
              /\ \/ s.muts[i].kind = "created"
                 \/ /\ i \in DOMAIN r.muts /\ r.muts[i].name = j.name
                    /\ s.muts[i].kind = r.muts[i].kind
      /\ \A i \in DOMAIN r.muts : i \in DOMAIN s.muts /\ s.muts[i].name = r.muts[i].name
      /\ \E i \in DOMAIN s.muts : s.muts[i].name = j.name /\ s.muts[i].now = f
      /\ \A i, k \in DOMAIN s.muts : s.muts[i].name = s.muts[k].name => i = k
  <2>1. MutsOK(Published(p))
    BY <1>1, <1>2, PublishedApart
  <2>2. \A i, k \in DOMAIN s.muts : s.muts[i].name = s.muts[k].name => i = k
    BY <1>5, <2>1 DEF MutsOK
  <2>3. QED
    BY <1>1, <1>3, <1>5, <2>2, PublishedTells
<1>8. \A n : Due(r, n) => Due(s, n) \/ n = j.name
  BY <1>5 DEF Due
<1>9. ASSUME Undisturbed(p, r)
      PROVE  \A i \in DOMAIN s.muts :
               /\ s.muts[i].kind # "created" => Altered(D, r, s.muts[i].name)
               /\ Right(s, s.muts[i]) \/ Due(s, s.muts[i].name)
  <2>1. PlannedOK(D, r)
    BY <1>1, <1>3, <1>9 DEF ResumeInv, Fine, Publishing
  <2>2. \A u : Right(r, u) => Right(s, u)
    BY <1>5 DEF Right, Same
  <2>3. f # Nothing /\ f.content = Desired(r.snap, j.name) /\ Desired(r.snap, j.name) # Nothing
    <3>1. Asked(D, r, j)
      BY <1>6, <2>1 DEF PlannedOK
    <3>2. Is(j.name, Desired(r.snap, j.name))
      BY <1>1, <1>3 DEF HandOK, Job
    <3>3. QED
      BY <1>3, <1>6, <3>1, <3>2 DEF Asked, Is, Has
  <2>4. ASSUME NEW i \in DOMAIN s.muts, s.muts[i].name = j.name PROVE Right(s, s.muts[i])
    <3>1. s.muts[i].now = f
      BY <1>7, <2>4
    <3>2. QED
      BY <1>5, <2>3, <2>4, <3>1 DEF Right, Same
  <2>5. ASSUME NEW i \in DOMAIN s.muts, s.muts[i].name # j.name
        PROVE  Right(s, s.muts[i]) \/ Due(s, s.muts[i].name)
    <3>1. i \in DOMAIN r.muts /\ s.muts[i] = r.muts[i]
      BY <1>7, <2>5
    <3>2. QED
      BY <1>8, <2>1, <2>2, <2>5, <3>1 DEF PlannedOK
  <2>6. ASSUME NEW i \in DOMAIN s.muts, s.muts[i].kind # "created"
        PROVE  Altered(D, r, s.muts[i].name)
    <3>1. /\ i \in DOMAIN r.muts /\ r.muts[i].name = s.muts[i].name
          /\ r.muts[i].kind = s.muts[i].kind
      BY <1>7, <2>6
    <3>2. QED
      BY <2>1, <2>6, <3>1 DEF PlannedOK
  <2>7. QED
    BY <2>4, <2>5, <2>6
<1>10. \A n \in Names : Due(r, n) \/ Mutated(r.muts, n) => Due(s, n) \/ Mutated(s.muts, n)
  BY <1>7, <1>8 DEF Mutated
<1>11. r.pc \in Publishing /\ s.pc \in Publishing /\ s.todo \subseteq r.todo
  BY <1>1, <1>3, <1>5 DEF Publishing
<1>12. QED
  BY <1>3, <1>4, <1>5, <1>9, <1>10, <1>11, ResumeJob

\* The preflight of an undisturbed run adopts what it finds.
LEMMA ResumePreflight ==
  ASSUME Alone, TypeInv, TraceInv, MissedInv, ClearInv, ResumeInv, NEW p \in Projectors, Preflight(p)
  PROVE  ResumeInv'
<1>1. PICK r, s, D : r = run[p] /\ s = run'[p] /\ D = before[p]
  OBVIOUS
<1>2. /\ r \in RunType /\ ShapeOK(r) /\ r.pc = "preflight" /\ r.muts = <<>> /\ r.snap \in Revisions
      /\ UNCHANGED <<edits, before, faulted, lost>>
  BY <1>1 DEF TypeInv, RunsOK, ShapeOK, Preflight, At, history, RunType
<1>3. \/ /\ NoConflict(r.snap)
         /\ s = [r EXCEPT !.pc = "fresh", !.names = Listing, !.prev = Previous, !.todo = Plan(r.snap)]
      \/ ~NoConflict(r.snap) /\ s = Report(r, "conflict")
  BY <1>1, WentTo DEF Preflight
<1>4. s.snap = r.snap
  <2>1. Report(r, "conflict").snap = r.snap
    BY <1>2, ReportIs
  <2>2. QED
    BY <1>2, <1>3, <2>1 DEF RunType
<1>5. ASSUME Undisturbed(p, r) PROVE Fine(D, s)
  <2>1. \A x \in AllNames : dir[x] = D[x]
    <3>1. AsFound(p) /\ \A x : Left(p, x)
      BY <1>1, <1>2, <1>5, Calm DEF TraceInv, TraceOK
    <3>2. QED
      BY <1>1, <3>1 DEF AsFound
  <2>2. dir = D
    BY <1>1, <2>1 DEF TypeInv, DirOK
  <2>3. Adopts(dir, r.snap)
    BY <1>1, <1>2, <1>5, <2>2 DEF ResumeInv, Fine
  <2>4. Listing \subseteq Names
    BY <1>1, <1>5, <2>2 DEF Undisturbed, Listing, Has
  <2>5. NoConflict(r.snap)
    BY <1>2, <2>3, <2>4, AdoptedNoConflict
  <2>6. /\ s.pc = "fresh" /\ s.names = Listing /\ s.prev = Previous
        /\ s.todo = Plan(r.snap) /\ s.muts = <<>>
    BY <1>2, <1>3, <2>5 DEF RunType
  <2>7. DOMAIN s.muts = {}
    BY <2>6
  <2>8. \A j \in s.todo : Asked(dir, s, j)
    BY <1>2, <1>4, <2>3, <2>6, PlanAsked
  <2>9. \A n \in Names : Covers(dir, s, n)
    BY <1>2, <1>4, <2>3, <2>6, PlanCovers
  <2>10. s.names = {n \in AllNames : dir[n] # Nothing}
    BY <2>6 DEF Listing, Has
  <2>11. PlannedOK(dir, s)
    BY <2>6, <2>7, <2>8, <2>9, <2>10, Previously DEF PlannedOK
  <2>12. QED
    BY <1>4, <2>2, <2>3, <2>6, <2>11 DEF Fine, Publishing
<1>6. QED
  BY <1>1, <1>2, <1>4, <1>5, ResumeStep

LEMMA ResumeBegin ==
  ASSUME Alone, TypeInv, GoodInv, NEW p \in Projectors, Begin(p)
  PROVE  ResumeInv'
<1>1. /\ run'[p].pc = "preflight" /\ run'[p].snap = rev /\ before'[p] = dir
      /\ UNCHANGED <<edits, lost>>
  BY DEF Begin, Idle, TypeInv
<1>2. \A q \in Projectors : run[q].pc \in {"idle", "done"}
  BY DEF Begin, Alone
<1>3. edits = 0 => Good(dir, lost, rev)
  BY <1>2 DEF GoodInv
<1>4. ASSUME Undisturbed(p, run[p])' PROVE Fine(before'[p], run'[p])
  <2>1. edits = 0 /\ lost \subseteq {rev} /\ \A n \in AllNames \ Names : dir[n] = Nothing
    BY <1>1, <1>4 DEF Undisturbed
  <2>2. NoBackups(dir)
    <3>1. \A q \in Projectors, n \in Names :
            Bak(q, n) \in OwnNames(q) /\ Bak(q, n) \in AllNames /\ Bak(q, n) \notin Names
      BY NamesAssumption DEF OwnNames, AllNames
    <3>2. QED
      BY <2>1, <3>1 DEF NoBackups
  <2>3. Adopts(dir, rev)
    BY <1>3, <2>1, <2>2 DEF Good
  <2>4. QED
    BY <1>1, <2>3 DEF Fine, Publishing
<1>5. \A q \in Projectors : q = p
  BY DEF Alone
<1>6. QED
  BY <1>4, <1>5 DEF ResumeInv

\* A run that is being unwound, or ends.
LEMMA ResumeUnwinds ==
  ASSUME Alone, TypeInv, ResumeInv, NEW p \in Projectors, Undo(p) \/ Undoing(p) \/ Unwound(p)
  PROVE  ResumeInv'
<1>1. PICK s : s = run'[p]
  OBVIOUS
<1>2. run[p] \in RunType /\ ShapeOK(run[p])
  BY DEF TypeInv, RunsOK
<1>3. ASSUME run[p].pc \in {"undo", "undoing"}, s.pc \in {"undo", "undoing", "done"},
             s.snap = run[p].snap, s.status = run[p].status,
             UNCHANGED <<edits, before>>, faulted[p] => faulted'[p], lost \subseteq lost'
      PROVE  ResumeInv'
  <2>1. Undisturbed(p, run[p]) => Excused(before[p], s)
    BY <1>3 DEF ResumeInv, Fine, Excused
  <2>2. Undisturbed(p, run[p]) => Fine(before[p], s)
    BY <1>3, <2>1 DEF Fine, Publishing
  <2>3. QED
    BY <1>1, <1>3, <2>2, ResumeStep
<1>4. CASE Undo(p)
  <2>1. /\ run[p].pc = "undo" /\ run[p].muts # <<>> /\ lost \subseteq lost'
        /\ UNCHANGED <<edits, before>>
        /\ faulted' \in {faulted, [faulted EXCEPT ![p] = TRUE], [faulted EXCEPT ![p] = @ \/ FALSE]}
    BY <1>4, UndoCases
  <2>2. faulted[p] => faulted'[p]
    BY <2>1 DEF TypeInv
  <2>3. PICK o \in BOOLEAN, b \in BOOLEAN : Goto(p, Decided(p, o, b))
    BY <1>4, UndoCases
  <2>4. s = Decided(p, o, b)
    BY <1>1, <2>3, WentTo
  <2>5. s.pc = "undoing" /\ s.snap = run[p].snap /\ s.status = run[p].status
    BY <2>1, <2>4, UndoneOK DEF TypeInv
  <2>6. QED
    BY <1>3, <2>1, <2>2, <2>5
<1>5. CASE Undoing(p)
  <2>1. /\ run[p].pc = "undoing" /\ lost \subseteq lost' /\ UNCHANGED <<edits, before>>
        /\ faulted' \in {faulted, [faulted EXCEPT ![p] = TRUE]}
    BY <1>5, UndoingCases DEF TypeInv
  <2>2. faulted[p] => faulted'[p]
    BY <2>1 DEF TypeInv
  <2>3. PICK c \in Nat : Goto(p, [Rest(run[p]) EXCEPT !.conflicts = c])
    BY <1>5, UndoingCases DEF TypeInv
  <2>4. s = [Rest(run[p]) EXCEPT !.conflicts = c]
    BY <1>1, <2>3, WentTo
  <2>5. s.pc = "undo" /\ s.snap = run[p].snap /\ s.status = run[p].status
    BY <1>2, <2>1, <2>4, RestOK
  <2>6. QED
    BY <1>3, <2>1, <2>2, <2>5
<1>6. CASE Unwound(p)
  <2>1. /\ run[p].pc = "undo" /\ s = Report(run[p], run[p].status)
        /\ UNCHANGED <<edits, before, faulted, lost>>
    BY <1>1, <1>6, WentTo DEF Unwound, At, history
  <2>2. s.pc = "done" /\ s.snap = run[p].snap /\ s.status = run[p].status
    BY <1>2, <2>1, ReportIs
  <2>3. QED
    BY <1>3, <2>1, <2>2
<1>7. QED
  BY <1>4, <1>5, <1>6

LEMMA ResumeCommits ==
  ASSUME Alone, TypeInv, NEW p \in Projectors, Commit(p) \/ Unlink(p)
  PROVE  ResumeInv'
<1>1. PICK s : s = run'[p]
  OBVIOUS
<1>2. run[p] \in RunType /\ UNCHANGED <<edits, before, lost>>
  BY DEF TypeInv, RunsOK, Commit, Unlink, history
<1>3. CASE Commit(p)
  <2>1. PICK c, x : s = [run[p] EXCEPT !.pc = "unlink", !.conflicts = c, !.drop = x]
    BY <1>1, <1>3, WentTo DEF Commit
  <2>2. s.pc = "unlink" /\ s.snap = run[p].snap
    BY <1>2, <2>1 DEF RunType
  <2>3. Fine(before[p], s)
    BY <2>2 DEF Fine, Publishing
  <2>4. UNCHANGED faulted
    BY <1>3 DEF Commit, history
  <2>5. QED
    BY <1>1, <1>2, <2>2, <2>3, <2>4, ResumeStep
<1>4. CASE Unlink(p)
  <2>1. PICK S, b : /\ Goto(p, Report([run[p] EXCEPT !.conflicts = @ + Cardinality(run[p].drop \ S)], "ok"))
                    /\ faulted' = [faulted EXCEPT ![p] = @ \/ b]
    BY <1>4 DEF Unlink
  <2>2. s.pc = "done" /\ s.status = "ok" /\ s.snap = run[p].snap
    <3>1. PICK r : r = [run[p] EXCEPT !.conflicts = @ + Cardinality(run[p].drop \ S)]
      OBVIOUS
    <3>2. r.snap = run[p].snap
      BY <1>2, <3>1 DEF RunType
    <3>3. s = Report(r, "ok")
      BY <1>1, <2>1, <3>1, WentTo
    <3>4. QED
      BY <3>2, <3>3 DEF Report, Idle
  <2>3. Fine(before[p], s)
    BY <2>2 DEF Fine, Publishing
  <2>4. faulted[p] => faulted'[p]
    BY <2>1 DEF TypeInv
  <2>5. QED
    BY <1>1, <1>2, <2>2, <2>3, <2>4, ResumeStep
<1>5. QED
  BY <1>3, <1>4

LEMMA ResumeNext ==
  ASSUME Alone
  PROVE  /\ TypeInv /\ ApartInv /\ HandInv /\ TraceInv /\ MissedInv /\ ClearInv /\ GoodInv
         /\ ResumeInv /\ [Next]_vars
         => ResumeInv'
<1> SUFFICES ASSUME TypeInv, ApartInv, HandInv, TraceInv, MissedInv, ClearInv, GoodInv,
                    ResumeInv, [Next]_vars
             PROVE  ResumeInv'
  OBVIOUS
<1>1. ASSUME NEW p \in Projectors, Project(p) PROVE ResumeInv'
  <2>1. CASE Looking(p) \/ Identify(p) \/ Temp(p) \/ Rename(p) \/ Check(p) \/ Move(p) \/ Record(p)
    BY <2>1, ResumeLooking, ResumeIdentify, ResumeWrites, ResumeCheck, ResumeMove, ResumeRecord
  <2>2. CASE \/ Begin(p) \/ Preflight(p) \/ Commit(p) \/ Unlink(p)
             \/ Undo(p) \/ Undoing(p) \/ Unwound(p)
    BY <2>2, ResumeBegin, ResumePreflight, ResumeCommits, ResumeUnwinds
  <2>3. QED
    BY <1>1, <2>1, <2>2 DEF Project, Publish, Looking
<1>2. ASSUME NEW p \in Projectors, Fault(p) PROVE ResumeInv'
  <2>1. faulted'[p]
    BY <1>2 DEF Fault, TypeInv
  <2>2. QED
    BY <2>1 DEF ResumeInv, Undisturbed, Alone
<1>3. ASSUME NEW p \in Projectors, Die(p) PROVE ResumeInv'
  <2>1. run'[p].pc = "idle"
    BY <1>3, WentTo DEF Die, Idle
  <2>2. Fine(before[p], run[p])'
    BY <2>1 DEF Fine, Publishing
  <2>3. QED
    BY <2>2 DEF ResumeInv, Alone
<1>4. CASE Drift
  BY <1>4 DEF ResumeInv, Undisturbed, Drift, history
<1>5. ASSUME NEW u \in UserNames, User(u) PROVE ResumeInv'
  <2>1. edits' # 0
    BY <1>5 DEF User, TypeInv
  <2>2. QED
    BY <2>1 DEF ResumeInv, Undisturbed
<1>6. CASE UNCHANGED vars
  BY <1>6 DEF ResumeInv, Undisturbed, vars, history
<1>7. QED
  BY <1>1, <1>2, <1>3, <1>4, <1>5, <1>6 DEF Next

\* After any runs that died, on the same state of the database and with nothing moved
\* aside, a run that no user disturbs and no call fails publishes, or the database has
\* moved on: none of its own checks stops it, but the last one where there was nothing
\* left to write and the manifest is older.
THEOREM DeadRunsAreResumed == Alone /\ ~UserRaces /\ Spec => []DeadRunsAreTakenUp
<1>1. Init => GoodInv /\ ResumeInv
  <2> SUFFICES ASSUME Init PROVE GoodInv /\ ResumeInv
    OBVIOUS
  <2>1. Good(dir, lost, rev)
    <3>1. Bare(dir)
      BY DEF Init, Bare, AllNames
    <3>2. Settled(dir)
      BY <3>1 DEF Settled
    <3>3. QED
      BY <3>2, SettledAdopts DEF Good
  <2>2. \A p \in Projectors : run[p].pc = "idle"
    BY DEF Init, Idle
  <2>3. QED
    BY <2>1, <2>2 DEF GoodInv, ResumeInv, Fine, Publishing
<1>2. ResumeInv => DeadRunsAreTakenUp
  <2> SUFFICES ASSUME ResumeInv, NEW p \in Projectors, Resumes(p)
               PROVE  \/ run[p].status \in {"ok", "stale"}
                      \/ run[p].status = "failure" /\ Overtaken(p)
    BY DEF DeadRunsAreTakenUp
  <2>1. Undisturbed(p, run[p]) /\ run[p].pc = "done"
    BY DEF Resumes, Undisturbed, At
  <2>2. run[p].status = "ok" \/ Excused(before[p], run[p])
    BY <2>1 DEF ResumeInv, Fine
  <2>3. Late(before[p], run[p].snap) => Overtaken(p)
    BY DEF Late, Suits, Overtaken, Payload
  <2>4. QED
    BY <2>2, <2>3 DEF Excused
<1>3. CASE Alone /\ ~UserRaces
  <2>1. Spec => []StandsInv
    BY <1>3, StandsInit, StandsNext, AlwaysTyped, AlwaysCurrent, PTL DEF Spec
  <2>2. /\ TypeInv /\ TypeInv' /\ StandsInv /\ StandsInv' /\ ApartInv /\ MissedInv /\ HandInv
        /\ TraceInv /\ WrittenInv /\ ClearInv /\ ClearInv' /\ GoodInv /\ [Next]_vars
        => GoodInv'
    BY <1>3, GoodNext
  <2>3. /\ TypeInv /\ ApartInv /\ HandInv /\ TraceInv /\ MissedInv /\ ClearInv /\ GoodInv
        /\ ResumeInv /\ [Next]_vars
        => ResumeInv'
    BY <1>3, ResumeNext
  <2>4. QED
    BY <1>1, <1>2, <1>3, <2>1, <2>2, <2>3, AlwaysTyped, AlwaysApart, AlwaysMissed, AlwaysInHand,
       AlwaysTraced, AlwaysWritten, AlwaysClear, PTL DEF Spec
<1>4. QED
  BY <1>3
=============================================================================
