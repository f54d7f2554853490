--------------------------- MODULE SidecarProofs ---------------------------
(***************************************************************************)
(* Inductive invariants of Sidecar and of doctor, for every number of      *)
(* writers, stores, concepts and events.  CommandsProofs draws the         *)
(* theorems from them.                                                     *)
(***************************************************************************)
EXTENDS Sidecar, TLAPS

Working == {"ensure", "verify", "ready"}

Typed ==
  /\ stores \in [Stores -> Db \cup {None}]
  /\ lock \in [Stores -> Procs \cup {None}]
  /\ procs \in [Procs -> [at : {"idle", "checked"} \cup Working,
                          store : Stores \cup {None}, tx : Db \cup {None}]]
  /\ harmed \subseteq Stores
  /\ minted \subseteq Stores \X Stores \X Nat

(* What a writer holds: its store is there; while it works, the lock is its *)
(* own and its copy of the rows is mirrored as far as the store's are; and  *)
(* what it may commit is whole and pinned to the store's instance.          *)

Writer(p) ==
  LET s == procs[p].store
      t == procs[p].tx
  IN /\ procs[p].at # "idle" => s \in Stores /\ stores[s] \in Db
     /\ procs[p].at \in Working =>
          /\ t \in Db
          /\ lock[s] = p
          /\ t.instance = stores[s].instance
          /\ t.index = t.roots \/ s \in harmed
     /\ procs[p].at = "verify" => t.marker = "exact"
     /\ procs[p].at = "ready" => Whole(t) /\ ClockPinned(t)

Writers == \A p \in Procs : Writer(p)

\* Every identity names the instance of the store it was made in.
MintedAtHome == \A e \in minted : stores[e[1]] \in Db /\ e[2] = stores[e[1]].instance

Inv == Typed /\ Writers /\ AllOfItOrNone /\ IndexMirrorsRoots /\ MintedAtHome

-----------------------------------------------------------------------------
LEMMA ExtendRows ==
  ASSUME NEW f \in Rows, NEW r \in RowIds, NEW c \in Concepts
  PROVE  Extend(f, r, c) \in Rows
<1>1. PICK D \in SUBSET RowIds : f \in [D -> Concepts]
  BY DEF Rows
<1>2. Extend(f, r, c) \in [D \cup {r} -> Concepts]
  BY <1>1 DEF Extend
<1>3. D \cup {r} \in SUBSET RowIds
  OBVIOUS
<1>4. QED
  BY <1>2, <1>3 DEF Rows

LEMMA WithoutRows ==
  ASSUME NEW f \in Rows, NEW r
  PROVE  Without(f, r) \in Rows
<1>1. PICK D \in SUBSET RowIds : f \in [D -> Concepts]
  BY DEF Rows
<1>2. Without(f, r) \in [D \ {r} -> Concepts]
  BY <1>1 DEF Without
<1>3. D \ {r} \in SUBSET RowIds
  OBVIOUS
<1>4. QED
  BY <1>2, <1>3 DEF Rows

LEMMA EmptyRows == <<>> \in Rows
<1>1. <<>> \in [{} -> Concepts]
  OBVIOUS
<1>2. QED
  BY <1>1 DEF Rows

\* A store before the sidecar is bare, and nobody works on it yet.
LEMMA InvInit ==
  ASSUME SidecarAssumption, NEW versions \in SUBSET (46 .. 48), InitWith(versions)
  PROVE  Inv
<1>1. PICK v \in versions : stores = [s \in Stores |-> IF s = Origin THEN Fresh(v) ELSE None]
  BY DEF InitWith
<1>2. Fresh(v) \in Db
  BY EmptyRows DEF SidecarAssumption, Fresh, Db, Clock, Payload
<1>3. Typed
  BY <1>1, <1>2 DEF SidecarAssumption, InitWith, Typed, Idle
<1>4. Writers
  BY DEF InitWith, Writers, Writer, Idle, Working
<1>5. AllOfItOrNone /\ IndexMirrorsRoots /\ MintedAtHome
  BY <1>1 DEF InitWith, AllOfItOrNone, IndexMirrorsRoots, MintedAtHome, Mirrored, Bare, Fresh
<1>6. QED
  BY <1>3, <1>4, <1>5 DEF Inv
-----------------------------------------------------------------------------
(* The steps of a writer.                                                  *)

(* A step of p that leaves the stores alone and keeps what p holds sound    *)
(* keeps the invariant.                                                     *)
LEMMA PrivateStep ==
  ASSUME Inv, NEW p \in Procs, NEW w,
         w \in [at : {"idle", "checked"} \cup Working, store : Stores \cup {None},
                tx : Db \cup {None}],
         procs' = [procs EXCEPT ![p] = w],
         UNCHANGED <<stores, harmed, minted>>,
         lock' \in [Stores -> Procs \cup {None}],
         Writer(p)',
         \A q \in Procs \ {p}, s \in Stores : lock[s] = q => lock'[s] = q
  PROVE  Inv'
<1>1. Typed'
  BY DEF Inv, Typed
<1>2. Writers'
  <2> SUFFICES ASSUME NEW q \in Procs PROVE Writer(q)'
    BY DEF Writers
  <2>1. CASE q = p
    BY <2>1
  <2>2. CASE q # p
    <3>1. procs'[q] = procs[q] /\ Writer(q)
      BY <2>2 DEF Inv, Typed, Writers
    <3>2. QED
      BY <3>1, <2>2 DEF Writer, Working, Whole, ClockPinned, ObjectsExact
  <2>3. QED
    BY <2>1, <2>2
<1>3. (AllOfItOrNone /\ IndexMirrorsRoots /\ MintedAtHome)'
  BY DEF Inv, AllOfItOrNone, IndexMirrorsRoots, MintedAtHome, Mirrored, Bare, Whole, ObjectsExact
<1>4. QED
  BY <1>1, <1>2, <1>3 DEF Inv

\* A writer that works holds its lock, so that giving it up is nobody else's loss.
LEMMA AbandonStep ==
  ASSUME SidecarAssumption, Inv, NEW p \in Procs, procs[p].at \in Working,
         Abandon(p), UNCHANGED <<stores, harmed, minted>>
  PROVE  Inv'
<1>1. procs[p].store \in Stores /\ lock[procs[p].store] = p
  BY DEF Inv, Writers, Writer, Working
<1>2. lock' = [lock EXCEPT ![procs[p].store] = None] /\ procs' = [procs EXCEPT ![p] = Idle]
  BY DEF Abandon
<1>3. Writer(p)'
  BY <1>2 DEF Writer, Idle, Working, Inv, Typed
<1>4. QED
  BY <1>1, <1>2, <1>3, PrivateStep DEF Idle, Inv, Typed

LEMMA CheckStep ==
  ASSUME SidecarAssumption, Inv, NEW p \in Procs, NEW s \in Stores, Check(p, s)
  PROVE  Inv'
<1> DEFINE w == [at |-> "checked", store |-> s, tx |-> None]
<1>1. UNCHANGED <<stores, lock, harmed, minted>> /\ stores[s] # None
  BY DEF Check
<1>2. procs' = [procs EXCEPT ![p] = w]
  BY DEF Check
<1>3. Writer(p)'
  BY <1>1, <1>2 DEF Writer, Working, Inv, Typed
<1>4. QED
  BY <1>1, <1>2, <1>3, PrivateStep DEF Inv, Typed

LEMMA GiveUpStep ==
  ASSUME SidecarAssumption, Inv, NEW p \in Procs, GiveUp(p)
  PROVE  Inv'
<1>1. Writer(p)'
  BY DEF GiveUp, Writer, Idle, Working, Inv, Typed
<1>2. QED
  BY <1>1, PrivateStep DEF GiveUp, Idle, Inv, Typed

\* A transaction starts from the store as it is, under its lock.
LEMMA BeginStep ==
  ASSUME SidecarAssumption, Inv, NEW p \in Procs, NEW s \in Stores,
         lock[s] = None, stores[s] \in Db,
         lock' = [lock EXCEPT ![s] = p],
         procs' = [procs EXCEPT ![p] = [at |-> "ensure", store |-> s, tx |-> stores[s]]],
         UNCHANGED <<stores, harmed, minted>>
  PROVE  Inv'
<1>1. stores[s].index = stores[s].roots \/ s \in harmed
  BY DEF SidecarAssumption, Inv, IndexMirrorsRoots, Mirrored
<1>2. Writer(p)'
  BY <1>1 DEF Writer, Working, Inv, Typed, IndexMirrorsRoots, Mirrored
<1>3. \A q \in Procs \ {p}, z \in Stores : lock[z] = q => lock'[z] = q
  <2>1. None \notin Procs /\ lock \in [Stores -> Procs \cup {None}]
    BY DEF SidecarAssumption, Inv, Typed
  <2>2. QED
    BY <2>1
<1>4. [at |-> "ensure", store |-> s, tx |-> stores[s]] \in
        [at : {"idle", "checked"} \cup Working, store : Stores \cup {None}, tx : Db \cup {None}]
  BY <1>1 DEF Working
<1>5. lock' \in [Stores -> Procs \cup {None}]
  BY DEF Inv, Typed
<1>6. QED
  BY <1>2, <1>3, <1>4, <1>5, PrivateStep

LEMMA BeginCheckedStep ==
  ASSUME SidecarAssumption, Inv, NEW p \in Procs, BeginChecked(p)
  PROVE  Inv'
<1> DEFINE s == procs[p].store
<1>1. s \in Stores /\ stores[s] \in Db
  BY DEF BeginChecked, Inv, Writers, Writer
<1>2. procs' = [procs EXCEPT ![p] = [at |-> "ensure", store |-> s, tx |-> stores[s]]]
  BY DEF BeginChecked, To
<1>3. QED
  BY <1>1, <1>2, BeginStep DEF BeginChecked

LEMMA BeginCommandStep ==
  ASSUME SidecarAssumption, Inv, NEW p \in Procs, NEW s \in Stores, BeginCommand(p, s)
  PROVE  Inv'
BY BeginStep DEF BeginCommand, Inv, Typed

\* What a transaction holds after a step of its own, at "verify" or "ready".
LEMMA KeepStep ==
  ASSUME SidecarAssumption, Inv, NEW p \in Procs, procs[p].at \in Working,
         NEW at \in {"verify", "ready"}, NEW t \in Db,
         To(p, at, t), UNCHANGED <<stores, lock, harmed, minted>>,
         procs[p].tx.index = procs[p].tx.roots => t.index = t.roots,
         t.instance = procs[p].tx.instance,
         at = "verify" => t.marker = "exact",
         at = "ready" => Whole(t) /\ ClockPinned(t)
  PROVE  Inv'
<1> DEFINE s == procs[p].store
           w == [at |-> at, store |-> s, tx |-> t]
<1>1. s \in Stores /\ stores[s] \in Db /\ lock[s] = p
      /\ (procs[p].tx.index = procs[p].tx.roots \/ s \in harmed)
      /\ procs[p].tx.instance = stores[s].instance
  BY DEF Inv, Writers, Writer, Working
<1>2. procs' = [procs EXCEPT ![p] = w] /\ procs'[p] = w
  BY DEF To, Inv, Typed
<1>3. Writer(p)'
  BY <1>1, <1>2 DEF Writer, Working, Whole, ClockPinned, ObjectsExact
<1>4. w \in [at : {"idle", "checked"} \cup Working, store : Stores \cup {None}, tx : Db \cup {None}]
  BY <1>1 DEF Working
<1>5. QED
  BY <1>2, <1>3, <1>4, PrivateStep DEF Inv, Typed

LEMMA EnsureStep ==
  ASSUME SidecarAssumption, Inv, NEW p \in Procs, Ensure(p)
  PROVE  Inv'
<1> DEFINE s == procs[p].store
           t == procs[p].tx
<1>1. procs[p].at = "ensure" /\ UNCHANGED <<stores, harmed, minted>>
  BY DEF Ensure
<1>2. s \in Stores /\ t \in Db
  BY <1>1 DEF Inv, Writers, Writer, Working
<1>3. CASE Abandon(p)
  BY <1>1, <1>3, AbandonStep DEF Working
<1>4. CASE Installed(t) /\ To(p, "ready", t) /\ UNCHANGED lock
  <2>1. Whole(t) /\ ClockPinned(t)
    BY <1>4 DEF Installed, Whole, ClockPinned
  <2>2. QED
    BY <1>1, <1>2, <1>4, <2>1, KeepStep DEF Working
<1>5. CASE To(p, "verify", [t EXCEPT !.marker = "exact"]) /\ UNCHANGED lock
  <2> DEFINE u == [t EXCEPT !.marker = "exact"]
  <2>1. u \in Db /\ u.marker = "exact" /\ u.index = t.index /\ u.roots = t.roots /\ u.instance = t.instance
    BY <1>2 DEF Db, Clock
  <2>2. QED
    BY <1>1, <1>5, <2>1, KeepStep DEF Working
<1>6. CASE /\ To(p, "verify", [t EXCEPT !.payload = Payload, !.marker = "exact",
                                       !.clock = [instance |-> t.instance, seq |-> 0]])
           /\ UNCHANGED lock
  <2> DEFINE u == [t EXCEPT !.payload = Payload, !.marker = "exact",
                            !.clock = [instance |-> t.instance, seq |-> 0]]
  <2>1. u \in Db /\ u.marker = "exact" /\ u.index = t.index /\ u.roots = t.roots /\ u.instance = t.instance
    BY <1>2 DEF Db, Clock
  <2>2. QED
    BY <1>1, <1>6, <2>1, KeepStep DEF Working
<1>7. QED
  BY <1>3, <1>4, <1>5, <1>6 DEF Ensure

LEMMA VerifyStep ==
  ASSUME SidecarAssumption, Inv, NEW p \in Procs, Verify(p)
  PROVE  Inv'
<1>1. procs[p].at = "verify" /\ UNCHANGED <<stores, harmed, minted>>
  BY DEF Verify
<1>2. procs[p].tx \in Db /\ procs[p].tx.marker = "exact"
  BY <1>1 DEF Inv, Writers, Writer, Working
<1>3. CASE ObjectsExact(procs[p].tx) /\ ClockPinned(procs[p].tx)
  <2>1. Whole(procs[p].tx)
    BY <1>2, <1>3 DEF Whole, ClockPinned
  <2>2. To(p, "ready", procs[p].tx) /\ UNCHANGED lock
    BY <1>3 DEF Verify
  <2>3. QED
    BY <1>1, <1>2, <1>3, <2>1, <2>2, KeepStep DEF Working
<1>4. CASE ~(ObjectsExact(procs[p].tx) /\ ClockPinned(procs[p].tx))
  BY <1>1, <1>4, AbandonStep DEF Verify, Working
<1>5. QED
  BY <1>3, <1>4

\* A row's insertion takes the same rowid in the table and in the index.
LEMMA InsertRootKeeps ==
  ASSUME SidecarAssumption, NEW t \in Db, Whole(t), ClockPinned(t),
         NEW c \in Concepts, NextRow(t) \in RowIds
  PROVE  /\ InsertRoot(t, c) \in Db
         /\ Whole(InsertRoot(t, c)) /\ ClockPinned(InsertRoot(t, c))
         /\ InsertRoot(t, c).instance = t.instance
         /\ t.index = t.roots => InsertRoot(t, c).index = InsertRoot(t, c).roots
<1> DEFINE r == NextRow(t)
           k == [t.clock EXCEPT !.seq = @ + 1]
           u == InsertRoot(t, c)
<1>1. t.clock \in Clock
  BY DEF Db, Clock, ClockPinned
<1>2. k \in Clock /\ k.instance = t.clock.instance /\ k # None
  BY <1>1 DEF SidecarAssumption, Clock
<1>3. Extend(t.roots, r, c) \in Rows /\ Extend(t.index, r, c) \in Rows
  BY ExtendRows DEF Db, Clock
<1> HIDE DEF k, r
<1>4. u = [t EXCEPT !.roots = Extend(t.roots, r, c), !.index = Extend(t.index, r, c), !.clock = k]
  BY DEF InsertRoot, k, r, Db
<1>5. /\ u \in Db /\ u.clock = k
      /\ u.roots = Extend(t.roots, r, c) /\ u.index = Extend(t.index, r, c)
      /\ u.payload = t.payload /\ u.exact = t.exact /\ u.marker = t.marker /\ u.instance = t.instance
  BY <1>2, <1>3, <1>4 DEF Db, Clock
<1>6. QED
  BY <1>2, <1>5 DEF Whole, ObjectsExact, ClockPinned

LEMMA AppendStep ==
  ASSUME SidecarAssumption, Inv, NEW p \in Procs, NEW c \in Concepts, Append(p, c)
  PROVE  Inv'
<1> DEFINE s == procs[p].store
           t == procs[p].tx
<1>1. procs[p].at = "ready" /\ NextRow(t) \in RowIds /\ UNCHANGED <<stores, harmed, minted>>
  BY DEF Append
<1>2. s \in Stores /\ t \in Db /\ Whole(t) /\ ClockPinned(t)
  BY <1>1 DEF Inv, Writers, Writer, Working
<1>3. CASE Abandon(p)
  BY <1>1, <1>3, AbandonStep DEF Working
<1>4. CASE To(p, "ready", InsertRoot(t, c)) /\ UNCHANGED lock
  BY <1>1, <1>2, <1>4, InsertRootKeeps, KeepStep DEF Working
<1>5. QED
  BY <1>3, <1>4 DEF Append

LEMMA RebuildStep ==
  ASSUME SidecarAssumption, Inv, NEW p \in Procs, Rebuild(p)
  PROVE  Inv'
<1> DEFINE s == procs[p].store
           t == procs[p].tx
           u == [t EXCEPT !.index = t.roots]
<1>1. procs[p].at = "ready" /\ To(p, "ready", u) /\ UNCHANGED <<stores, lock, harmed, minted>>
  BY DEF Rebuild
<1>2. s \in Stores /\ t \in Db /\ Whole(t) /\ ClockPinned(t)
  BY <1>1 DEF Inv, Writers, Writer, Working
<1>3. /\ u \in Db /\ u.index = t.roots /\ u.roots = t.roots /\ u.clock = t.clock
      /\ u.payload = t.payload /\ u.exact = t.exact /\ u.marker = t.marker /\ u.instance = t.instance
  BY <1>2 DEF Db, Clock
<1>4. Whole(u) /\ ClockPinned(u)
  BY <1>2, <1>3 DEF Whole, ObjectsExact, ClockPinned
<1>5. QED
  BY <1>1, <1>3, <1>4, KeepStep DEF Working

\* A commit publishes what is whole, pinned, and mirrored unless somebody else
\* harmed the index; nobody else works on the store.
LEMMA CommitStep ==
  ASSUME SidecarAssumption, Inv, NEW p \in Procs, Commit(p)
  PROVE  Inv'
<1> DEFINE s == procs[p].store
           t == procs[p].tx
<1>1. /\ procs[p].at = "ready"
      /\ stores' = [stores EXCEPT ![s] = t]
      /\ harmed' = IF t.index = t.roots THEN harmed \ {s} ELSE harmed
      /\ lock' = [lock EXCEPT ![s] = None] /\ procs' = [procs EXCEPT ![p] = Idle]
  BY DEF Commit, Publish, Abandon
<1>2. /\ s \in Stores /\ t \in Db /\ Whole(t) /\ ClockPinned(t) /\ lock[s] = p
      /\ t.index = t.roots \/ s \in harmed
  BY <1>1 DEF Inv, Writers, Writer, Working
<1>3. PICK from, to : /\ from \in Nat /\ to \in Nat
                      /\ minted' = minted \cup {<<s, t.clock.instance, n>> : n \in from + 1 .. to}
  <2> DEFINE from == IF stores[s].clock = None THEN 0 ELSE stores[s].clock.seq
             to == IF t.clock = None THEN 0 ELSE t.clock.seq
  <2>1. to \in Nat
    BY <1>2 DEF Db, Clock
  <2>3. stores[s] \in Db
    BY <1>1 DEF Inv, Writers, Writer
  <2>4. from \in Nat
    BY <2>3 DEF Db, Clock
  <2>5. minted' = minted \cup {<<s, t.clock.instance, n>> : n \in from + 1 .. to}
    BY DEF Commit, Publish
  <2>6. QED
    BY <2>1, <2>4, <2>5
<1>4. t.clock.instance = t.instance /\ t.instance = stores[s].instance /\ t.instance \in Stores
      /\ stores[s] \in Db
  BY <1>1, <1>2 DEF ClockPinned, Db, Inv, Writers, Writer, Working
<1>5. Typed'
  <2>1. minted' \subseteq Stores \X Stores \X Nat
    BY <1>2, <1>3, <1>4 DEF Inv, Typed
  <2>2. QED
    BY <1>1, <1>2, <2>1 DEF Inv, Typed, Idle
<1>6. Writers'
  <2> SUFFICES ASSUME NEW q \in Procs PROVE Writer(q)'
    BY DEF Writers
  <2>1. CASE q = p
    BY <1>1, <2>1 DEF Inv, Typed, Writer, Idle, Working
  <2>2. CASE q # p
    <3>1. procs'[q] = procs[q] /\ Writer(q)
      BY <1>1, <2>2 DEF Inv, Typed, Writers
    <3>2. procs[q].at \in Working => procs[q].store # s
      BY <1>2, <2>2, <3>1 DEF Writer
    <3>3. QED
      BY <1>1, <1>2, <3>1, <3>2
         DEF Inv, Typed, Writer, Working, Whole, ClockPinned, ObjectsExact
  <2>3. QED
    BY <2>1, <2>2
<1>7. AllOfItOrNone' /\ IndexMirrorsRoots'
  BY <1>1, <1>2 DEF Inv, Typed, AllOfItOrNone, IndexMirrorsRoots, Mirrored, Bare, Whole, ObjectsExact
<1>8. MintedAtHome'
  <2>1. \A z \in Stores : stores[z] \in Db => stores'[z] \in Db /\ stores'[z].instance = stores[z].instance
    BY <1>1, <1>2, <1>4 DEF Inv, Typed
  <2>2. \A e \in minted : e[1] \in Stores /\ stores[e[1]] \in Db /\ e[2] = stores[e[1]].instance
    BY DEF Inv, Typed, MintedAtHome
  <2> SUFFICES ASSUME NEW e \in minted' PROVE stores'[e[1]] \in Db /\ e[2] = stores'[e[1]].instance
    BY DEF MintedAtHome
  <2>3. CASE e \in minted
    BY <2>1, <2>2, <2>3
  <2>4. CASE e[1] = s /\ e[2] = t.clock.instance
    BY <1>2, <1>4, <2>1, <2>4
  <2>5. QED
    BY <1>3, <2>3, <2>4
<1>9. QED
  BY <1>5, <1>6, <1>7, <1>8 DEF Inv

LEMMA WriteStep ==
  ASSUME SidecarAssumption, Inv, NEW p \in Procs, Write(p)
  PROVE  Inv'
<1>1. CASE Stop(p)
  BY <1>1, AbandonStep DEF Stop, Working
<1>2. QED
  BY <1>1, BeginCheckedStep, EnsureStep, VerifyStep, RebuildStep, CommitStep, GiveUpStep,
     CheckStep, BeginCommandStep, AppendStep DEF Write

-----------------------------------------------------------------------------
(* The steps of others.                                                    *)

\* A store that is there stays, with its instance.
StoresLast ==
  \A s \in Stores : stores[s] \in Db => stores'[s] \in Db /\ stores'[s].instance = stores[s].instance

(* Somebody else's write to one store, while nobody has its lock.           *)
LEMMA OutsideStep ==
  ASSUME SidecarAssumption, Inv, NEW s \in Stores, NEW d \in Db,
         stores' = [stores EXCEPT ![s] = d],
         harmed' \in {harmed, harmed \cup {s}},
         stores[s] = None \/ (lock[s] = None /\ d.instance = stores[s].instance),
         UNCHANGED <<lock, procs, minted>>,
         s \notin harmed' => (Bare(d) \/ Whole(d)) /\ d.index = d.roots
  PROVE  Inv' /\ StoresLast
<1>1. Typed'
  BY DEF Inv, Typed
<1>2. Writers'
  <2> SUFFICES ASSUME NEW p \in Procs PROVE Writer(p)'
    BY DEF Writers
  <2>1. Writer(p)
    BY DEF Inv, Writers
  <2>2. procs[p].at \in Working => procs[p].store # s
    BY <2>1 DEF SidecarAssumption, Writer, Working
  <2>3. procs[p].at # "idle" => stores'[procs[p].store] \in Db
    BY <2>1 DEF Writer, Inv, Typed
  <2>4. QED
    BY <2>1, <2>2, <2>3 DEF Writer, Working, Whole, ClockPinned, ObjectsExact
<1>3. AllOfItOrNone' /\ IndexMirrorsRoots'
  BY DEF Inv, Typed, AllOfItOrNone, IndexMirrorsRoots, Mirrored, Bare, Whole, ObjectsExact
<1>4. StoresLast
  BY DEF SidecarAssumption, StoresLast, Inv, Typed
<1>5. MintedAtHome'
  BY <1>4 DEF StoresLast, Inv, Typed, MintedAtHome
<1>6. QED
  BY <1>1, <1>2, <1>3, <1>4, <1>5 DEF Inv

\* What the invariant says of a store that is there.
LEMMA StoreSound ==
  ASSUME Inv, NEW s \in Stores, stores[s] # None
  PROVE  /\ stores[s] \in Db
         /\ s \notin harmed => (Bare(stores[s]) \/ Whole(stores[s])) /\ stores[s].index = stores[s].roots
BY DEF Inv, Typed, AllOfItOrNone, IndexMirrorsRoots, Mirrored

LEMMA ForgetStep ==
  ASSUME SidecarAssumption, Inv, NEW s \in Stores, NEW r \in RowIds, Forget(s, r)
  PROVE  Inv' /\ StoresLast
<1> DEFINE d == stores[s]
           u == [d EXCEPT !.roots = Without(d.roots, r), !.index = Without(d.index, r),
                          !.hidden = d.hidden \ {d.roots[r]}]
<1>1. d \in Db /\ (s \notin harmed => (Bare(d) \/ Whole(d)) /\ d.index = d.roots)
  BY StoreSound DEF Forget
<1>2. Without(d.roots, r) \in Rows /\ Without(d.index, r) \in Rows
  BY <1>1, WithoutRows DEF Db
<1>3. /\ u \in Db /\ u.roots = Without(d.roots, r) /\ u.index = Without(d.index, r)
      /\ u.payload = d.payload /\ u.exact = d.exact /\ u.marker = d.marker /\ u.clock = d.clock
      /\ u.instance = d.instance
  BY <1>1, <1>2 DEF Db
<1>4. stores' = [stores EXCEPT ![s] = u]
  BY <1>1 DEF Forget, Unindex, Inv, Typed
<1>5. s \notin harmed => (Bare(u) \/ Whole(u)) /\ u.index = u.roots
  BY <1>1, <1>3 DEF Bare, Whole, ObjectsExact
<1>6. QED
  BY <1>3, <1>4, <1>5, OutsideStep DEF Forget

LEMMA MigrateStep ==
  ASSUME SidecarAssumption, Inv, NEW s \in Stores, Migrate(s)
  PROVE  Inv' /\ StoresLast
<1> DEFINE d == stores[s]
           u == [d EXCEPT !.upstream = d.upstream + 1]
<1>1. d \in Db /\ (s \notin harmed => (Bare(d) \/ Whole(d)) /\ d.index = d.roots)
  BY StoreSound DEF Migrate, Outside
<1>2. d.upstream + 1 \in 46 .. 48
  BY <1>1 DEF Migrate, Db
<1>3. /\ u \in Db /\ u.roots = d.roots /\ u.index = d.index
      /\ u.payload = d.payload /\ u.exact = d.exact /\ u.marker = d.marker /\ u.clock = d.clock
      /\ u.instance = d.instance
  BY <1>1, <1>2 DEF Db
<1>4. stores' = [stores EXCEPT ![s] = u]
  BY <1>1 DEF Migrate, Inv, Typed
<1>5. s \notin harmed => (Bare(u) \/ Whole(u)) /\ u.index = u.roots
  BY <1>1, <1>3 DEF Bare, Whole, ObjectsExact
<1>6. QED
  BY <1>3, <1>4, <1>5, OutsideStep DEF Migrate, Outside

LEMMA CopyStep ==
  ASSUME SidecarAssumption, Inv, NEW s \in Stores, Copy(s)
  PROVE  Inv' /\ StoresLast
<1> DEFINE d == stores[Origin]
<1>1. d \in Db /\ (Origin \notin harmed => (Bare(d) \/ Whole(d)) /\ d.index = d.roots)
  BY StoreSound DEF SidecarAssumption, Copy, Outside
<1>2. s \notin harmed' => Origin \notin harmed
  BY DEF Copy
<1>3. PICK i \in {stores[Origin].instance, s} : stores' = [stores EXCEPT ![s] = [d EXCEPT !.instance = i]]
  BY DEF Copy
<1> DEFINE u == [d EXCEPT !.instance = i]
<1>4. /\ u \in Db /\ u.roots = d.roots /\ u.index = d.index
      /\ u.payload = d.payload /\ u.exact = d.exact /\ u.marker = d.marker /\ u.clock = d.clock
  BY <1>1, <1>3 DEF Db
<1>5. s \notin harmed' => (Bare(u) \/ Whole(u)) /\ u.index = u.roots
  BY <1>1, <1>2, <1>4 DEF Bare, Whole, ObjectsExact
<1>6. stores[s] = None /\ harmed' \in {harmed, harmed \cup {s}} /\ UNCHANGED <<lock, procs, minted>>
  BY DEF Copy
<1>7. QED
  BY <1>3, <1>4, <1>5, <1>6, OutsideStep

LEMMA HarmStep ==
  ASSUME SidecarAssumption, Inv, NEW s \in Stores, HarmSchema(s) \/ HarmIndex(s)
  PROVE  Inv' /\ StoresLast
<1> DEFINE d == stores[s]
<1>1. d \in Db /\ lock[s] = None /\ harmed' = harmed \cup {s} /\ UNCHANGED <<lock, procs, minted>>
  BY StoreSound DEF HarmSchema, HarmIndex, Outside
<1>2. PICK u \in Db : u.instance = d.instance /\ stores' = [stores EXCEPT ![s] = u]
  <2>1. CASE HarmSchema(s)
    <3> DEFINE marked(m) == [d EXCEPT !.marker = m]
               dropped == [d EXCEPT !.marker = "absent", !.payload = {"tables"}, !.index = <<>>]
               altered == [d EXCEPT !.exact = FALSE]
               timeless == [d EXCEPT !.clock = None]
               emptied == [d EXCEPT !.clock = None, !.marker = "absent"]
    <3>1. \A u \in {marked("absent"), marked("other"), dropped, altered, timeless, emptied} :
            u \in Db /\ u.instance = d.instance
      <4>1. \A u \in {marked("absent"), marked("other")} : u \in Db /\ u.instance = d.instance
        BY <1>1 DEF Db
      <4>2. dropped \in Db /\ dropped.instance = d.instance
        BY <1>1, EmptyRows DEF Db, Payload
      <4>3. \A u \in {altered, timeless} : u \in Db /\ u.instance = d.instance
        BY <1>1 DEF Db
      <4>4. emptied \in Db /\ emptied.instance = d.instance
        BY <1>1 DEF Db
      <4>5. QED
        BY <4>1, <4>2, <4>3, <4>4
    <3>2. \E u \in {marked("absent"), marked("other"), dropped, altered, timeless, emptied} :
            stores' = [stores EXCEPT ![s] = u]
      BY <2>1 DEF HarmSchema, Inv, Typed
    <3>3. QED
      BY <3>1, <3>2
  <2>2. CASE HarmIndex(s)
    <3>1. PICK f \in Rows : stores' = [stores EXCEPT ![s].index = f]
      BY <1>1, <2>2, ExtendRows, WithoutRows DEF HarmIndex, Db
    <3>2. [d EXCEPT !.index = f] \in Db /\ [d EXCEPT !.index = f].instance = d.instance
      BY <1>1 DEF Db
    <3>3. QED
      BY <3>1, <3>2
  <2>3. QED
    BY <2>1, <2>2
<1>3. QED
  BY <1>1, <1>2, OutsideStep

\* What doctor may see is none of the invariant's business.
LEMMA SightStep ==
  ASSUME SidecarAssumption, Inv, NEW s \in Stores, NEW x,
         Hide(s, x) \/ (x \in Terms /\ Speak(s, x))
  PROVE  Inv' /\ StoresLast
<1> DEFINE d == stores[s]
<1>1. /\ d \in Db /\ (s \notin harmed => (Bare(d) \/ Whole(d)) /\ d.index = d.roots)
      /\ lock[s] = None /\ UNCHANGED <<lock, procs, harmed, minted>>
  BY StoreSound DEF Hide, Speak, Outside
<1>2. PICK u \in Db : /\ u.roots = d.roots /\ u.index = d.index /\ u.instance = d.instance
                      /\ u.payload = d.payload /\ u.exact = d.exact
                      /\ u.marker = d.marker /\ u.clock = d.clock
                      /\ stores' = [stores EXCEPT ![s] = u]
  <2>1. CASE Hide(s, x)
    <3> DEFINE u == [d EXCEPT !.hidden = Toggle(d.hidden, x)]
    <3>1. x \in Concepts
      <4>1. x \in Range(d.roots) /\ d.roots \in Rows
        BY <1>1, <2>1 DEF Hide, Db
      <4>2. QED
        BY <4>1 DEF Rows, Range
    <3>2. u \in Db
      BY <1>1, <3>1 DEF Db, Toggle
    <3>3. stores' = [stores EXCEPT ![s] = u]
      BY <2>1 DEF Hide
    <3>4. QED
      BY <1>1, <3>2, <3>3 DEF Db
  <2>2. CASE x \in Terms /\ Speak(s, x)
    <3> DEFINE u == [d EXCEPT !.spoken = Toggle(d.spoken, x)]
    <3>1. stores' = [stores EXCEPT ![s] = u]
      BY <2>2 DEF Speak
    <3>2. QED
      BY <1>1, <2>2, <3>1 DEF Db, Toggle
  <2>3. QED
    BY <2>1, <2>2
<1>3. s \notin harmed' => (Bare(u) \/ Whole(u)) /\ u.index = u.roots
  BY <1>1, <1>2 DEF Bare, Whole, ObjectsExact
<1>4. QED
  BY <1>1, <1>2, <1>3, OutsideStep

LEMMA OthersStep ==
  ASSUME SidecarAssumption, Inv, Others
  PROVE  Inv' /\ StoresLast
BY ForgetStep, MigrateStep, CopyStep, HarmStep, SightStep DEF Others

\* doctor writes nothing.
LEMMA Untouched ==
  ASSUME Inv, UNCHANGED <<stores, lock, procs, harmed, minted>>
  PROVE  Inv'
BY DEF Inv, Typed, Writers, Writer, AllOfItOrNone, IndexMirrorsRoots, MintedAtHome,
       Mirrored, Bare, Whole, ObjectsExact, ClockPinned

LEMMA ConsultStep ==
  ASSUME Inv, Consult
  PROVE  Inv'
BY Untouched DEF Consult, Inspect, InspectClock, ReadRoots, ReadIndex, PickTerm, Control

\* What was made under an instance was made under no other.
LEMMA HomeIsElsewhere ==
  ASSUME Inv
  PROVE  CopiesNeverCollide
BY DEF Inv, MintedAtHome, CopiesNeverCollide
-----------------------------------------------------------------------------
(* doctor's diagnosis.                                                     *)

Doctors ==
  [at : {"idle", "clock", "roots", "index", "term", "control", "done"},
   store : Stores \cup {None}, scope : {"there", "missing"}, roots : Rows, term : Terms \cup {None},
   calm : BOOLEAN, verdict : {None, "ok", "fail"}]

\* What the trial recall has to show.
Answered(d) == doctor.scope = "there" /\ \A c \in Picked(d) : Answers(d, Term[c])

\* What doctor has found of d, its store, at each point of its way.
Found(d) ==
  /\ doctor.at \in {"clock", "roots", "index", "term", "control"} => d.upstream = Supported /\ ObjectsExact(d)
  /\ doctor.at \in {"roots", "index", "term", "control"} => Installed(d)
  /\ doctor.at = "index" => doctor.roots = d.roots
  /\ doctor.at \in {"term", "control"} => SameRows(d.roots, d.index)
  /\ doctor.at = "control" => doctor.scope = "there" /\ \E c \in Picked(d) : doctor.term = Term[c]
  /\ doctor.at = "done" => ((doctor.verdict = "ok") <=>
       Installed(d) /\ SameRows(d.roots, d.index) /\ Answered(d))

\* What the snapshots have shown so far is so of the store as it is now, as long
\* as nobody has changed it since the first of them.
DoctorInv ==
  /\ doctor \in Doctors
  /\ doctor.at = "idle" => doctor.store = None
  /\ doctor.at # "done" => doctor.verdict = None
  /\ doctor.at \notin {"control", "done"} => doctor.term = None
  /\ doctor.at # "done" => doctor.scope = "there"
  /\ doctor.at # "idle" => doctor.store \in Stores /\ stores[doctor.store] \in Db
  /\ doctor.calm /\ doctor.at # "idle" => Found(stores[doctor.store])

LEMMA DoctorInit ==
  ASSUME NEW versions, InitWith(versions)
  PROVE  DoctorInv
BY EmptyRows DEF InitWith, Resting, DoctorInv, Doctors

\* A verdict is given at the end only.
LEMMA DoctorSound ==
  ASSUME DoctorInv
  PROVE  DoctorIsRight
BY DEF DoctorInv, Found, Answered, SameRows, DoctorIsRight

\* Only one concept is the first that has a term.
LEMMA OnePicked ==
  ASSUME SidecarAssumption, NEW d \in Db
  PROVE  /\ Picked(d) \subseteq Concepts
         /\ \A c \in Picked(d) : Term[c] \in Terms /\ \A e \in Picked(d) : c = e
<1>1. Range(d.roots) \subseteq Concepts
  BY DEF Db, Rows, Range
<1>2. Picked(d) \subseteq Concepts /\ \A c \in Picked(d) : Term[c] # None
  BY <1>1 DEF Picked, Termed, Looked, Visible
<1>3. \A c, e \in Picked(d) : Rank[c] <= Rank[e]
  BY DEF Picked
<1>4. \A c, e \in Picked(d) : Rank[c] \in Nat /\ Rank[e] \in Nat /\ (Rank[c] = Rank[e] => c = e)
  BY <1>2 DEF SidecarAssumption
<1>5. QED
  BY <1>2, <1>3, <1>4 DEF SidecarAssumption

\* One more snapshot, and what follows from it.
LEMMA DoctorAdvances ==
  ASSUME DoctorInv, UNCHANGED stores, doctor.at \notin {"idle", "done"},
         doctor' \in Doctors, doctor'.at # "idle",
         doctor'.store = doctor.store, doctor'.calm = doctor.calm,
         doctor'.at # "done" => doctor'.verdict = None,
         doctor'.at \notin {"control", "done"} => doctor'.term = None,
         doctor'.at # "done" => doctor'.scope = "there",
         doctor.calm => Found(stores[doctor.store])'
  PROVE  DoctorInv'
BY DEF DoctorInv

LEMMA InspectKeeps ==
  ASSUME Typed, DoctorInv, NEW z \in Stores, Inspect(z)
  PROVE  DoctorInv'
<1>1. /\ doctor \in Doctors /\ doctor.at = "idle" /\ stores[z] \in Db /\ UNCHANGED stores
      /\ doctor.verdict = None /\ doctor.term = None /\ doctor.scope = "there"
      /\ \/ /\ stores[z].upstream = Supported /\ ObjectsExact(stores[z])
            /\ doctor' = [doctor EXCEPT !.at = "clock", !.store = z]
         \/ /\ ~(stores[z].upstream = Supported /\ ObjectsExact(stores[z]))
            /\ doctor' = [doctor EXCEPT !.at = "done", !.store = z, !.verdict = "fail"]
  BY DEF Inspect, Typed, DoctorInv
<1>2. /\ doctor' \in Doctors /\ doctor'.store = z /\ doctor'.term = None /\ doctor'.scope = "there"
      /\ \/ /\ stores[z].upstream = Supported /\ ObjectsExact(stores[z])
            /\ doctor'.at = "clock" /\ doctor'.verdict = None
         \/ ~Installed(stores[z]) /\ doctor'.at = "done" /\ doctor'.verdict = "fail"
  BY <1>1 DEF Doctors, Installed
<1>3. Found(stores[z])'
  BY <1>1, <1>2 DEF Found, Answered, Installed, ObjectsExact, ClockPinned
<1>4. QED
  BY <1>1, <1>2, <1>3 DEF DoctorInv

\* A verdict of fail, for a reason.
LEMMA Fails ==
  ASSUME SidecarAssumption, DoctorInv, UNCHANGED stores, doctor.at \notin {"idle", "done"},
         Diagnose("fail"),
         doctor.calm => LET s == doctor.store
                        IN  \/ ~Installed(stores[s])
                            \/ ~SameRows(stores[s].roots, stores[s].index)
                            \/ ~Answered(stores[s])
  PROVE  DoctorInv'
<1>1. doctor \in Doctors /\ doctor' = [doctor EXCEPT !.at = "done", !.verdict = "fail"]
  BY DEF DoctorInv, Diagnose
<1>2. /\ doctor' \in Doctors /\ doctor'.at = "done" /\ doctor'.verdict = "fail"
      /\ doctor'.store = doctor.store /\ doctor'.calm = doctor.calm /\ doctor'.term = doctor.term
      /\ doctor'.scope = doctor.scope
  BY <1>1 DEF Doctors
<1>3. doctor.calm => Found(stores[doctor.store])'
  BY <1>2 DEF Found, Answered, Installed, ObjectsExact, ClockPinned
<1>4. QED
  BY <1>2, <1>3, DoctorAdvances

\* A verdict of ok, with reason.
LEMMA Passes ==
  ASSUME SidecarAssumption, DoctorInv, UNCHANGED stores, doctor.at \notin {"idle", "done"},
         Diagnose("ok"),
         doctor.calm => LET s == doctor.store
                        IN  /\ Installed(stores[s])
                            /\ SameRows(stores[s].roots, stores[s].index)
                            /\ Answered(stores[s])
  PROVE  DoctorInv'
<1>1. doctor \in Doctors /\ doctor' = [doctor EXCEPT !.at = "done", !.verdict = "ok"]
  BY DEF DoctorInv, Diagnose
<1>2. /\ doctor' \in Doctors /\ doctor'.at = "done" /\ doctor'.verdict = "ok"
      /\ doctor'.store = doctor.store /\ doctor'.calm = doctor.calm /\ doctor'.term = doctor.term
      /\ doctor'.scope = doctor.scope
  BY <1>1 DEF Doctors
<1>3. doctor.calm => Found(stores[doctor.store])'
  BY <1>2 DEF Found, Answered, Installed, ObjectsExact, ClockPinned
<1>4. QED
  BY <1>2, <1>3, DoctorAdvances

\* On to the next look, as long as nothing is amiss.
LEMMA Proceeds ==
  ASSUME DoctorInv, UNCHANGED stores, doctor.at \notin {"idle", "done", "control"},
         doctor' \in Doctors, doctor'.at \in {"roots", "index", "term", "control"},
         doctor'.store = doctor.store, doctor'.calm = doctor.calm,
         doctor'.verdict = doctor.verdict, doctor'.scope = doctor.scope, doctor'.at # "control" => doctor'.term = doctor.term,
         doctor.calm => LET s == doctor.store
                            d == stores[s]
                        IN  /\ Installed(d)
                            /\ doctor'.at = "index" => doctor'.roots = d.roots
                            /\ doctor'.at \in {"term", "control"} => SameRows(d.roots, d.index)
                            /\ doctor'.at = "control" => \E c \in Picked(d) : doctor'.term = Term[c]
  PROVE  DoctorInv'
<1>1. doctor'.verdict = None /\ doctor'.scope = "there" /\ (doctor'.at # "control" => doctor'.term = None)
  BY DEF DoctorInv
<1>2. doctor.calm => Found(stores[doctor.store])'
  BY <1>1 DEF Found, Installed
<1>3. QED
  BY <1>1, <1>2, DoctorAdvances

LEMMA ConsultKeeps ==
  ASSUME SidecarAssumption, Typed, DoctorInv, Consult
  PROVE  DoctorInv'
<1> DEFINE s == doctor.store
           d == stores[s]
<1>1. UNCHANGED stores
  BY DEF Consult, Inspect, InspectClock, ReadRoots, ReadIndex, PickTerm, Control
<1>2. /\ doctor.at # "done" => doctor.verdict = None /\ doctor.scope = "there"
      /\ doctor.at \notin {"control", "done"} => doctor.term = None
      /\ doctor.at # "idle" => s \in Stores /\ d \in Db /\ d.roots \in Rows
      /\ doctor.calm /\ doctor.at # "idle" => Found(d)
      /\ doctor.roots \in Rows
  BY DEF DoctorInv, Doctors, Db
<1>3. CASE InspectClock
  <2>1. CASE Diagnose("fail")
    <3>1. doctor.at = "clock" /\ ~(d.marker = "exact" /\ ClockPinned(d))
      BY <1>3, <2>1, <1>2 DEF InspectClock, Diagnose, DoctorInv, Doctors
    <3>2. QED
      BY <1>1, <2>1, <3>1, Fails DEF Installed
  <2>2. CASE /\ d.marker = "exact" /\ ClockPinned(d)
             /\ doctor' = [doctor EXCEPT !.at = "roots"]
    <3>1. doctor.at = "clock"
      BY <1>3 DEF InspectClock
    <3>2. doctor.calm => Installed(d)
      BY <1>2, <2>2, <3>1 DEF Found, Installed
    <3>3. /\ doctor' \in Doctors /\ doctor'.at = "roots" /\ doctor'.store = s
          /\ doctor'.calm = doctor.calm /\ doctor'.verdict = doctor.verdict /\ doctor'.term = doctor.term
          /\ doctor'.scope = doctor.scope
      BY <2>2 DEF DoctorInv, Doctors
    <3>4. QED
      BY <1>1, <3>1, <3>2, <3>3, Proceeds
  <2>3. QED
    BY <1>3, <2>1, <2>2 DEF InspectClock
<1>4. CASE ReadRoots
  <2>1. doctor.at = "roots" /\ doctor' = [doctor EXCEPT !.at = "index", !.roots = d.roots]
    BY <1>4 DEF ReadRoots
  <2>2. /\ doctor' \in Doctors /\ doctor'.at = "index" /\ doctor'.store = s /\ doctor'.roots = d.roots
        /\ doctor'.calm = doctor.calm /\ doctor'.verdict = doctor.verdict /\ doctor'.term = doctor.term
          /\ doctor'.scope = doctor.scope
    BY <1>2, <2>1 DEF DoctorInv, Doctors
  <2>3. doctor.calm => Installed(d)
    BY <1>2, <2>1 DEF Found
  <2>4. QED
    BY <1>1, <2>1, <2>2, <2>3, Proceeds
<1>5. CASE ReadIndex
  <2>1. doctor.at = "index"
    BY <1>5 DEF ReadIndex
  <2>2. doctor.calm => Installed(d) /\ doctor.roots = d.roots
    BY <1>2, <2>1 DEF Found
  <2>3. doctor.calm => "index" \in d.payload
    BY <2>2 DEF Installed, ObjectsExact, Payload
  <2>4. CASE SameRows(doctor.roots, d.index) /\ doctor' = [doctor EXCEPT !.at = "term"]
    <3>1. /\ doctor' \in Doctors /\ doctor'.at = "term" /\ doctor'.store = s
          /\ doctor'.calm = doctor.calm /\ doctor'.verdict = doctor.verdict /\ doctor'.term = doctor.term
          /\ doctor'.scope = doctor.scope
      BY <2>4 DEF DoctorInv, Doctors
    <3>2. QED
      BY <1>1, <2>1, <2>2, <2>4, <3>1, Proceeds
  <2>5. CASE Diagnose("fail") /\ (doctor.calm => ~SameRows(doctor.roots, d.index))
    BY <1>1, <2>1, <2>2, <2>5, Fails
  <2>6. QED
    BY <1>5, <2>3, <2>4, <2>5 DEF ReadIndex
<1>6. CASE PickTerm
  <2>1. doctor.at = "term"
    BY <1>6 DEF PickTerm
  <2>2. doctor.calm => Installed(d) /\ SameRows(d.roots, d.index)
    BY <1>2, <2>1 DEF Found
  <2>3. CASE ~Installed(d) /\ Diagnose("fail")
    BY <1>1, <2>1, <2>3, Fails
  <2>4. CASE Picked(d) = {} /\ Diagnose("ok")
    BY <1>1, <1>2, <2>1, <2>2, <2>4, Passes DEF Answered
  <2>5. ASSUME NEW c \in Picked(d), doctor' = [doctor EXCEPT !.at = "control", !.term = Term[c]]
        PROVE  DoctorInv'
    <3>1. Term[c] \in Terms
      BY <1>2, <2>1, OnePicked
    <3>2. /\ doctor' \in Doctors /\ doctor'.at = "control" /\ doctor'.store = s /\ doctor'.term = Term[c]
          /\ doctor'.calm = doctor.calm /\ doctor'.verdict = doctor.verdict /\ doctor'.scope = doctor.scope
      BY <2>5, <3>1 DEF DoctorInv, Doctors
    <3>3. QED
      BY <1>1, <1>2, <2>1, <2>2, <3>2, Proceeds
  <2>7. ASSUME doctor' = [doctor EXCEPT !.at = "done", !.verdict = "fail", !.scope = "missing"]
        PROVE  DoctorInv'
    <3>1. /\ doctor' \in Doctors /\ doctor'.at = "done" /\ doctor'.verdict = "fail" /\ doctor'.scope = "missing"
          /\ doctor'.store = s /\ doctor'.calm = doctor.calm /\ doctor'.term = doctor.term
      BY <2>7 DEF DoctorInv, Doctors
    <3>2. doctor.calm => Found(stores[doctor.store])'
      BY <3>1 DEF Found, Answered
    <3>3. QED
      BY <1>1, <2>1, <3>1, <3>2, DoctorAdvances
  <2>6. QED
    BY <1>6, <2>3, <2>4, <2>5, <2>7 DEF PickTerm
<1>7. CASE Control
  <2>1. doctor.at = "control"
    BY <1>7 DEF Control
  <2>2. doctor.calm => /\ Installed(d) /\ SameRows(d.roots, d.index)
                       /\ doctor.scope = "there" /\ \E c \in Picked(d) : doctor.term = Term[c]
    BY <1>2, <2>1 DEF Found
  <2>3. doctor.calm => (Answered(d) <=> Answers(d, doctor.term))
    <3>1. ASSUME doctor.calm PROVE Answered(d) <=> Answers(d, doctor.term)
      <4>1. PICK c \in Picked(d) : doctor.term = Term[c]
        BY <2>2, <3>1
      <4>2. \A e \in Picked(d) : e = c
        BY <1>2, <2>1, <4>1, OnePicked
      <4>3. Answered(d) <=> Answers(d, Term[c])
        BY <2>2, <3>1, <4>1, <4>2 DEF Answered
      <4>4. QED
        BY <4>1, <4>3
    <3>2. QED
      BY <3>1
  <2>4. CASE Diagnose("ok") /\ Answers(d, doctor.term)
    BY <1>1, <2>1, <2>2, <2>3, <2>4, Passes
  <2>5. CASE Diagnose("fail") /\ (doctor.calm => ~Answers(d, doctor.term))
    BY <1>1, <2>1, <2>3, <2>5, Fails
  <2>6. QED
    BY <1>7, <2>2, <2>4, <2>5 DEF Control
<1>8. QED
  BY <1>3, <1>4, <1>5, <1>6, <1>7, InspectKeeps DEF Consult

\* A step of somebody else: doctor sees a change of the store it looks at.
LEMMA DisturbedKeeps ==
  ASSUME SidecarAssumption, DoctorInv, StoresLast,
         \/ doctor.store \in Stores /\ doctor' = [doctor EXCEPT !.calm = FALSE]
         \/ /\ UNCHANGED doctor
            /\ doctor.store \in Stores /\ stores[doctor.store] \in Db =>
                 stores'[doctor.store] = stores[doctor.store]
  PROVE  DoctorInv'
<1>1. CASE doctor.store \in Stores /\ doctor' = [doctor EXCEPT !.calm = FALSE]
  <2>1. /\ doctor' \in Doctors /\ doctor'.at = doctor.at /\ doctor'.store = doctor.store
        /\ ~doctor'.calm /\ doctor'.verdict = doctor.verdict /\ doctor'.term = doctor.term
        /\ doctor'.scope = doctor.scope
    BY <1>1 DEF DoctorInv, Doctors
  <2>2. QED
    BY <1>1, <2>1 DEF DoctorInv, StoresLast
<1>2. CASE /\ UNCHANGED doctor
           /\ doctor.store \in Stores /\ stores[doctor.store] \in Db =>
                stores'[doctor.store] = stores[doctor.store]
  BY <1>2 DEF DoctorInv, StoresLast, Found, Answered
<1>3. QED
  BY <1>1, <1>2

LEMMA DisturbKeeps ==
  ASSUME SidecarAssumption, Typed, DoctorInv, StoresLast, NEW s \in Stores, NEW e,
         stores' = [stores EXCEPT ![s] = e], Disturb(s)
  PROVE  DoctorInv'
BY DisturbedKeeps DEF Disturb, Typed

LEMMA RestKeeps ==
  ASSUME DoctorInv, UNCHANGED <<stores, doctor>>
  PROVE  DoctorInv'
BY DEF DoctorInv, Found, Answered

LEMMA WriteLasts ==
  ASSUME SidecarAssumption, Inv, NEW p \in Procs, Write(p)
  PROVE  StoresLast
<1>1. CASE Commit(p)
  <2>1. stores' = [stores EXCEPT ![procs[p].store] = procs[p].tx]
    BY <1>1 DEF Commit, Publish
  <2>2. procs[p].tx \in Db /\ procs[p].tx.instance = stores[procs[p].store].instance
    BY <1>1 DEF Commit, Inv, Writers, Writer, Working
  <2>3. QED
    BY <2>1, <2>2 DEF StoresLast, Inv, Typed
<1>2. CASE UNCHANGED stores
  BY <1>2 DEF StoresLast
<1>3. QED
  BY <1>1, <1>2 DEF Write, BeginChecked, Ensure, Verify, Rebuild, Stop, GiveUp, Check, BeginCommand, Append

LEMMA WriteKeeps ==
  ASSUME SidecarAssumption, Inv, DoctorInv, NEW p \in Procs, Write(p)
  PROVE  DoctorInv'
<1>0. StoresLast
  BY WriteLasts
<1>1. CASE Commit(p)
  <2>1. procs[p].store \in Stores
    BY <1>1 DEF Commit, Inv, Writers, Writer
  <2>2. /\ stores' = [stores EXCEPT ![procs[p].store] = procs[p].tx]
        /\ IF procs[p].tx = stores[procs[p].store] THEN UNCHANGED doctor ELSE Disturb(procs[p].store)
    BY <1>1 DEF Commit, Publish
  <2>3. CASE procs[p].tx = stores[procs[p].store]
    BY <1>0, <2>1, <2>2, <2>3, DisturbedKeeps DEF Inv, Typed
  <2>4. QED
    BY <1>0, <2>1, <2>2, <2>3, DisturbKeeps DEF Inv
<1>2. CASE UNCHANGED <<stores, doctor>>
  BY <1>0, <1>2, DisturbedKeeps
<1>3. QED
  BY <1>1, <1>2 DEF Write, BeginChecked, Ensure, Verify, Rebuild, Stop, GiveUp, Check, BeginCommand, Append

LEMMA OthersKeep ==
  ASSUME SidecarAssumption, Inv, DoctorInv, Others
  PROVE  DoctorInv'
<1>1. stores \in [Stores -> Db \cup {None}] /\ StoresLast
  BY OthersStep DEF Inv, Typed
<1>2. ASSUME NEW s \in Stores, Copy(s) PROVE DoctorInv'
  <2>1. UNCHANGED doctor /\ stores[s] = None /\ None \notin Db /\ \A z \in Stores \ {s} : stores'[z] = stores[z]
    BY <1>2 DEF Copy, SidecarAssumption
  <2>2. QED
    BY <1>1, <2>1, DisturbedKeeps
<1>3. ASSUME NEW s \in Stores, Migrate(s) \/ HarmSchema(s) \/ HarmIndex(s) \/ (\E r \in RowIds : Forget(s, r))
             \/ (\E c \in Concepts : Hide(s, c)) \/ (\E t \in Terms : Speak(s, t))
      PROVE  DoctorInv'
  <2>1. Disturb(s) /\ \A z \in Stores \ {s} : stores'[z] = stores[z]
    BY <1>1, <1>3 DEF Migrate, HarmSchema, HarmIndex, Forget, Hide, Speak
  <2>2. QED
    BY <1>1, <2>1, DisturbedKeeps DEF Disturb
<1>4. QED
  BY <1>2, <1>3 DEF Others
-----------------------------------------------------------------------------
(* The rest of the types: the origin stays, and what others do is counted.  *)

Bounds == stores[Origin] \in Db /\ outside \in 0 .. MaxOutside

LEMMA BoundsInit ==
  ASSUME SidecarAssumption, NEW versions \in SUBSET (46 .. 48), InitWith(versions)
  PROVE  Bounds
<1>1. PICK v \in versions : stores = [s \in Stores |-> IF s = Origin THEN Fresh(v) ELSE None]
  BY DEF InitWith
<1>2. Fresh(v) \in Db
  BY EmptyRows DEF SidecarAssumption, Fresh, Db, Clock, Payload
<1>3. QED
  BY <1>1, <1>2 DEF SidecarAssumption, InitWith, Bounds

LEMMA BoundsKeep ==
  ASSUME SidecarAssumption, Bounds, StoresLast,
         UNCHANGED outside \/ (outside < MaxOutside /\ outside' = outside + 1)
  PROVE  Bounds'
BY DEF SidecarAssumption, Bounds, StoresLast

LEMMA WriteBounds ==
  ASSUME SidecarAssumption, Inv, Bounds, NEW p \in Procs, Write(p)
  PROVE  Bounds'
<1>1. UNCHANGED outside
  BY DEF Write, BeginChecked, Ensure, Verify, Rebuild, Commit, Stop, GiveUp, Check, BeginCommand, Append
<1>2. QED
  BY <1>1, WriteLasts, BoundsKeep

LEMMA OthersBounds ==
  ASSUME SidecarAssumption, Inv, Bounds, Others
  PROVE  Bounds'
<1>1. UNCHANGED outside \/ (outside < MaxOutside /\ outside' = outside + 1)
  BY DEF Others, Migrate, Copy, HarmSchema, HarmIndex, Forget, Hide, Speak, Outside
<1>2. QED
  BY <1>1, OthersStep, BoundsKeep

LEMMA SidecarTypes ==
  ASSUME SidecarAssumption, Inv, DoctorInv, Bounds
  PROVE  TypeOK
<1>1. stores[Origin] # None
  BY DEF SidecarAssumption, Bounds
<1>2. doctor.at \in {"idle", "clock", "roots", "index", "term", "control", "done"}
      /\ doctor.verdict \in {None, "ok", "fail"}
  BY DEF DoctorInv, Doctors
<1>3. QED
  BY <1>1, <1>2 DEF Inv, Typed, Working, Bounds, TypeOK
=============================================================================
