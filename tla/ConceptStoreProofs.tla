------------------------- MODULE ConceptStoreProofs -------------------------
(***************************************************************************)
(* Theorems about ConceptStore, for every number of sessions, concepts,    *)
(* replicas and events: types and identities; the histories the store      *)
(* keeps (the causal log, the order that elects the current event, what    *)
(* roots cite and supersede); and the operations as wholes (what one       *)
(* checked before it began suffices for every write, what it has written   *)
(* when it ends is all of its items, and each of its commits is one step   *)
(* of the lifecycle a reader sees).                                        *)
(***************************************************************************)
EXTENDS ConceptStore, TLAPS, WellFoundedInduction

(* Type correctness needs to know which parts of an item an operation uses. *)

NeedsTarget(o) == o \in {"transition", "bind", "import"}
NeedsNew(o) == o \in {"winddown", "bind"}

PlanOK ==
  /\ \A i \in 1 .. Len(plan) :
       /\ NeedsTarget(op) => plan[i].target \in Ids
       /\ NeedsNew(op) => plan[i].new \in Assertions
  /\ op = "winddown" => stage \in {"assert", "bound"}
  /\ op = "transition" => stage = "event"
  /\ op = "bind" => stage \in {"assert", "bound", "supersede"}
  /\ op = "import" => stage # "event"
  /\ op = "import" /\ stage \in {"assert", "bound", "supersede"}
       => pos <= Len(plan) /\ plan[pos].new \in Assertions

TypeInv == TypeOK /\ PlanOK
-----------------------------------------------------------------------------
(* What the transaction writes is of its type.                             *)

LEMMA AppendType ==
  ASSUME TypeOK, NEW c \in Ids, NEW s \in Standing,
         NEW parent \in Identity \cup {NoParent},
         AppendEvent(c, s, parent)
  PROVE  wevents' \subseteq Event /\ wclock' \in Clock
<1>1. PICK t \in 0 .. MaxCounter :
        /\ t < MaxCounter /\ wclock.seq < MaxCounter
        /\ wclock' = [seq |-> wclock.seq + 1, time |-> t + 1]
        /\ wevents' = wevents \cup
             {[concept |-> c, standing |-> s, instance |-> Local,
               seq |-> wclock.seq + 1, time |-> t + 1, parent |-> parent]}
  BY DEF AppendEvent
<1>2. wclock.seq + 1 \in 1 .. MaxCounter /\ t + 1 \in 1 .. MaxCounter
  BY <1>1, StoreAssumption DEF TypeOK, Clock
<1>3. QED
  BY <1>1, <1>2, StoreAssumption DEF TypeOK, Clock, Event, Instances

LEMMA AppendNextType ==
  ASSUME TypeOK, NEW c \in Ids, NEW s \in Standing, AppendNext(c, s)
  PROVE  wevents' \subseteq Event /\ wclock' \in Clock
<1>1. PICK e \in wevents : AppendEvent(c, s, IdentityOf(e))
  BY DEF AppendNext
<1>2. IdentityOf(e) \in Identity
  BY DEF TypeOK, Event, IdentityOf, Identity
<1>3. QED
  BY <1>1, <1>2, AppendType

LEMMA AppendInitialType ==
  ASSUME TypeOK, NEW c \in Ids, AppendInitial(c)
  PROVE  wevents' \subseteq Event /\ wclock' \in Clock
BY AppendType DEF AppendInitial, Standing
-----------------------------------------------------------------------------
(* The items a Begin plans are of their type.                              *)

LEMMA CitationsType ==
  ASSUME NEW s, NEW d, evidence \subseteq Evidence
  PROVE  Citations(s, d) \subseteq Evidence
BY DEF Citations, Places, Matches, VisibleEvidence

LEMMA ImportPlacesType ==
  ASSUME NEW f, evidence \subseteq Evidence
  PROVE  {m[1] : m \in ImportPlaces(f)} \subseteq Evidence
BY DEF ImportPlaces, Matches, VisibleEvidence

LEMMA BeginWinddownType ==
  ASSUME TypeInv, NEW s \in Sessions, NEW docs \in Batches(Documents),
         BeginWinddown(s, docs)
  PROVE  TypeInv'
<1>1. PICK n \in 1 .. MaxBatch : docs \in [1 .. n -> Documents]
  BY DEF Batches
<1>2. PICK ids \in [DOMAIN docs -> Free] :
        Begin("winddown",
          [i \in DOMAIN docs |->
             [target |-> NoId, new |-> ids[i], session |-> s,
              cites |-> Citations(s, docs[i]), standing |-> "proposed"]])
  BY DEF BeginWinddown
<1> DEFINE items == [i \in 1 .. n |->
             [target |-> NoId, new |-> ids[i], session |-> s,
              cites |-> Citations(s, docs[i]), standing |-> "proposed"]]
<1>3. plan' = items /\ DOMAIN docs = 1 .. n
  BY <1>1, <1>2 DEF Begin
<1>4. \A i \in 1 .. n : items[i] \in Item /\ items[i].new \in Assertions
  BY <1>3, CitationsType DEF TypeInv, TypeOK, Item, Free, Standing
<1>5. items \in Seq(Item) /\ Len(items) = n
  BY <1>4, <1>1, StoreAssumption
<1>6. QED
  BY <1>2, <1>3, <1>4, <1>5
     DEF Begin, TypeInv, TypeOK, PlanOK, FirstStage, Ops, Stages, NeedsTarget, NeedsNew,
         RootsOK

LEMMA BeginOneType ==
  ASSUME TypeInv, NEW o \in {"transition", "bind"}, NEW item \in Item,
         item.target \in Ids, o = "bind" => item.new \in Assertions,
         Begin(o, <<item>>)
  PROVE  TypeInv'
<1>1. <<item>> \in Seq(Item) /\ Len(<<item>>) = 1 /\ <<item>>[1] = item
  OBVIOUS
<1>2. QED
  BY <1>1
     DEF Begin, TypeInv, TypeOK, PlanOK, FirstStage, Ops, Stages, NeedsTarget, NeedsNew,
         RootsOK

LEMMA BeginTransitionType ==
  ASSUME TypeInv, NEW c \in Ids, NEW s \in {"accepted", "retired"},
         BeginTransition(c, s)
  PROVE  TypeInv'
<1> DEFINE item == [target |-> c, new |-> NoId, session |-> NoSession,
                    cites |-> {}, standing |-> s]
<1>1. item \in Item /\ item.target \in Ids
  BY DEF Item, Standing
<1>2. Begin("transition", <<item>>)
  BY DEF BeginTransition
<1>3. QED
  BY <1>1, <1>2, BeginOneType

LEMMA BeginBindType ==
  ASSUME TypeInv, NEW f \in Files, NEW d \in Documents, BeginBind(f, d)
  PROVE  TypeInv'
<1>1. PICK a \in Free :
        Begin("bind",
          <<[target |-> f, new |-> a, session |-> BindSession(f),
             cites |-> Citations(BindSession(f), d), standing |-> "retired"]>>)
  BY DEF BeginBind
<1> DEFINE item == [target |-> f, new |-> a, session |-> BindSession(f),
             cites |-> Citations(BindSession(f), d), standing |-> "retired"]
<1>2. f \in Ids /\ BindSession(f) \in Sessions \cup {NoSession}
  BY StoreAssumption, NoRootAssumption
     DEF TypeInv, TypeOK, RootsOK, Root, BindSession, Ids, BeginBind, AuthorizedForBind, Present
<1>3. item \in Item /\ item.target \in Ids /\ item.new \in Assertions
  BY <1>1, <1>2, CitationsType DEF TypeInv, TypeOK, Item, Free, Standing
<1>4. QED
  BY <1>1, <1>3, BeginOneType

LEMMA BeginImportType ==
  ASSUME TypeInv, NEW fs \in Batches(Files), BeginImport(fs)
  PROVE  TypeInv'
<1>1. PICK n \in 1 .. MaxBatch : fs \in [1 .. n -> Files]
  BY DEF Batches
<1> DEFINE item(ids, i) ==
      [target |-> fs[i], new |-> ids[i],
       session |-> IF ClaimedSession[fs[i]] \in visible
                   THEN ClaimedSession[fs[i]] ELSE NoSession,
       cites |-> {m[1] : m \in IF Bindable(fs[i]) THEN ImportPlaces(fs[i]) ELSE {}},
       standing |-> "retired"]
<1>2. PICK ids \in [DOMAIN fs -> Free \cup {NoId}] :
        Begin("import", [i \in DOMAIN fs |-> item(ids, i)])
  BY DEF BeginImport
<1> DEFINE items == [i \in 1 .. n |-> item(ids, i)]
<1>3. plan' = items /\ DOMAIN fs = 1 .. n
  BY <1>1, <1>2 DEF Begin
<1>4. ASSUME NEW i \in 1 .. n
      PROVE  items[i] \in Item /\ items[i].target \in Ids
  <2>1. {m[1] : m \in IF Bindable(fs[i]) THEN ImportPlaces(fs[i]) ELSE {}}
          \subseteq Evidence
    BY ImportPlacesType DEF TypeInv, TypeOK
  <2>2. ids[i] \in Assertions \cup {NoId} /\ fs[i] \in Files
    BY <1>1, <1>3 DEF Free
  <2>3. QED
    BY <2>1, <2>2, StoreAssumption DEF Item, Standing, Ids
<1>5. items \in Seq(Item) /\ Len(items) = n
  BY <1>4, <1>1, StoreAssumption
<1>6. QED
  <2> HIDE DEF items
  <2>1. TypeOK'
    <3>1. plan' \in Seq(Item)
      BY <1>3, <1>5
    <3>2. /\ inTx' = TRUE /\ op' = "import" /\ pos' = 1 /\ stage' = "seed"
          /\ UNCHANGED <<sessions, visible, evidence, roots, events, clock, wroots,
                         wevents, wclock, minted>>
      BY <1>2 DEF Begin, FirstStage
    <3>3. QED
      BY <3>1, <3>2 DEF TypeInv, TypeOK, Ops, Stages, RootsOK
  <2>2. PlanOK'
    BY <1>2, <1>3, <1>4, <1>5 DEF Begin, PlanOK, FirstStage, NeedsTarget, NeedsNew
  <2>3. QED
    BY <2>1, <2>2 DEF TypeInv
-----------------------------------------------------------------------------
(* The writes, the end of a transaction, and the other writers.            *)

LEMMA SeedLegacyType == TypeInv /\ SeedLegacy => TypeInv'
<1> SUFFICES ASSUME TypeInv, SeedLegacy PROVE TypeInv'
  OBVIOUS
<1>1. op = "import" /\ pos \in 1 .. Len(plan) /\ Current \in Item
  BY DEF TypeInv, TypeOK, PlanOK, SeedLegacy, InStage, Current, Ops
<1>2. RootsOK(wroots')
  BY <1>1 DEF TypeInv, TypeOK, SeedLegacy, RootsOK, Item, Root
<1>3. TypeOK'
  BY <1>1, <1>2 DEF TypeInv, TypeOK, SeedLegacy, ToStage, Stages, RootsOK
<1>4. PlanOK'
  BY <1>1 DEF TypeInv, PlanOK, SeedLegacy, ToStage, NeedsTarget, NeedsNew
<1>5. QED
  BY <1>3, <1>4 DEF TypeInv

LEMMA SeedEventType == TypeInv /\ SeedEvent => TypeInv'
<1> SUFFICES ASSUME TypeInv, SeedEvent PROVE TypeInv'
  OBVIOUS
<1>1. op = "import" /\ pos \in 1 .. Len(plan) /\ Current \in Item /\ Current.target \in Ids
  BY DEF TypeInv, TypeOK, PlanOK, SeedEvent, InStage, Current, Ops, NeedsTarget
<1>2. wevents' \subseteq Event /\ wclock' \in Clock
  BY <1>1, AppendInitialType DEF TypeInv, SeedEvent
<1>3. CASE Current.new = NoId
  BY <1>1, <1>2, <1>3
     DEF TypeInv, TypeOK, PlanOK, SeedEvent, NextItem, FirstStage, Stages, NeedsTarget,
         NeedsNew, RootsOK
<1>4. CASE Current.new # NoId
  BY <1>1, <1>2, <1>4
     DEF TypeInv, TypeOK, PlanOK, SeedEvent, ToStage, Stages, NeedsTarget, NeedsNew,
         RootsOK, Current, Item
<1>5. QED
  BY <1>3, <1>4

LEMMA InsertBoundType == TypeInv /\ InsertBound => TypeInv'
<1> SUFFICES ASSUME TypeInv, InsertBound PROVE TypeInv'
  OBVIOUS
<1>1. /\ op \in {"winddown", "bind", "import"} /\ pos \in 1 .. Len(plan)
      /\ Current \in Item /\ Current.new \in Assertions
  BY DEF TypeInv, TypeOK, PlanOK, InsertBound, InStage, Current, Ops, NeedsNew
<1>2. RootsOK(wroots')
  BY <1>1 DEF TypeInv, TypeOK, InsertBound, RootsOK, Item, Root
<1>3. TypeOK'
  BY <1>1, <1>2 DEF TypeInv, TypeOK, InsertBound, ToStage, Stages, RootsOK
<1>4. PlanOK'
  BY <1>1 DEF TypeInv, PlanOK, InsertBound, ToStage, Current, NeedsTarget, NeedsNew
<1>5. QED
  BY <1>3, <1>4 DEF TypeInv

LEMMA BoundEventType == TypeInv /\ BoundEvent => TypeInv'
<1> SUFFICES ASSUME TypeInv, BoundEvent PROVE TypeInv'
  OBVIOUS
<1>1. /\ op \in {"winddown", "bind", "import"} /\ pos \in 1 .. Len(plan)
      /\ Current \in Item /\ Current.new \in Assertions
  BY DEF TypeInv, TypeOK, PlanOK, BoundEvent, InStage, Current, Ops, NeedsNew
<1>2. wevents' \subseteq Event /\ wclock' \in Clock
  BY <1>1, AppendInitialType DEF TypeInv, BoundEvent, Ids
<1>3. TypeOK'
  BY <1>1, <1>2
     DEF TypeInv, TypeOK, BoundEvent, ToStage, NextItem, FirstStage, Stages, RootsOK
<1>4. PlanOK'
  BY <1>1
     DEF TypeInv, PlanOK, BoundEvent, ToStage, NextItem, FirstStage, Current, NeedsTarget,
         NeedsNew
<1>5. QED
  BY <1>3, <1>4 DEF TypeInv

LEMMA LaterEventType ==
  TypeInv /\ (SupersedeEvent \/ TransitionEvent) => TypeInv'
<1> SUFFICES ASSUME TypeInv, SupersedeEvent \/ TransitionEvent PROVE TypeInv'
  OBVIOUS
<1>1. /\ op \in {"transition", "bind", "import"} /\ pos \in 1 .. Len(plan)
      /\ Current \in Item /\ Current.target \in Ids
  BY DEF TypeInv, TypeOK, PlanOK, SupersedeEvent, TransitionEvent, InStage, Current,
         Ops, NeedsTarget
<1>2. wevents' \subseteq Event /\ wclock' \in Clock
  BY <1>1, AppendNextType DEF TypeInv, SupersedeEvent, TransitionEvent, Item, Standing
<1>3. TypeOK'
  BY <1>1, <1>2
     DEF TypeInv, TypeOK, SupersedeEvent, TransitionEvent, NextItem, FirstStage, Stages,
         RootsOK
<1>4. PlanOK'
  BY <1>1
     DEF TypeInv, PlanOK, SupersedeEvent, TransitionEvent, NextItem, FirstStage,
         NeedsTarget, NeedsNew
<1>5. QED
  BY <1>3, <1>4 DEF TypeInv

LEMMA CloseType == TypeInv /\ (Commit \/ Rollback) => TypeInv'
<1> SUFFICES ASSUME TypeInv, Commit \/ Rollback PROVE TypeInv'
  OBVIOUS
<1>1. <<>> \in Seq(Item) /\ Len(<<>>) = 0
  OBVIOUS
<1>2. {IdentityOf(e) : e \in wevents} \subseteq Identity
  BY DEF TypeInv, TypeOK, Event, IdentityOf, Identity
<1>3. TypeOK'
  <2>1. plan' \in Seq(Item)
    BY <1>1 DEF Commit, Rollback, Close
  <2>2. /\ inTx' \in BOOLEAN /\ op' = "winddown" /\ pos' = 1 /\ stage' = "assert"
        /\ UNCHANGED <<sessions, visible, evidence>>
    BY DEF Commit, Rollback, Close, outside
  <2>3. /\ roots' \in {roots, wroots} /\ wroots' \in {roots, wroots}
        /\ events' \in {events, wevents} /\ wevents' \in {events, wevents}
        /\ clock' \in {clock, wclock} /\ wclock' \in {clock, wclock}
        /\ minted' \in {minted, minted \cup {IdentityOf(e) : e \in wevents}}
    BY DEF Commit, Rollback, Publish, work
  <2>4. QED
    BY <1>2, <2>1, <2>2, <2>3 DEF TypeInv, TypeOK, Ops, Stages, RootsOK
<1>4. PlanOK'
  BY <1>1 DEF PlanOK, Commit, Rollback, Close, NeedsTarget, NeedsNew
<1>5. QED
  BY <1>3, <1>4 DEF TypeInv

LEMMA ExternalType == TypeInv /\ External => TypeInv'
<1> SUFFICES ASSUME TypeInv, External PROVE TypeInv'
  OBVIOUS
<1>1. ASSUME NEW gone \in SUBSET Ids, Cascade(gone)
      PROVE  RootsOK(roots') /\ RootsOK(wroots') /\ events' \subseteq Event
             /\ wevents' \subseteq Event
  BY <1>1 DEF TypeInv, TypeOK, Cascade, RootsOK
<1>2. CASE \E s \in Sessions : Capture(s)
  BY <1>2 DEF TypeInv, TypeOK, PlanOK, Capture, Idle, RootsOK, NeedsTarget, NeedsNew
<1>3. CASE \E s \in Sessions : ForgetSession(s)
  <2>1. PICK s \in Sessions : ForgetSession(s)
    BY <1>3
  <2>2. PICK gone \in SUBSET Ids : Cascade(gone)
    BY <2>1 DEF ForgetSession
  <2>3. QED
    BY <1>1, <2>1, <2>2
       DEF TypeInv, TypeOK, PlanOK, ForgetSession, Cascade, Idle, NeedsTarget, NeedsNew
<1>4. CASE ChangeVisibility
  BY <1>4 DEF TypeInv, TypeOK, PlanOK, ChangeVisibility, Idle, RootsOK, NeedsTarget, NeedsNew
<1>5. CASE \E e \in Evidence : ForgetEvidence(e)
  <2>1. PICK e \in Evidence : ForgetEvidence(e)
    BY <1>5
  <2>2. PICK gone \in SUBSET Ids : Cascade(gone)
    BY <2>1 DEF ForgetEvidence
  <2>3. QED
    BY <1>1, <2>1, <2>2
       DEF TypeInv, TypeOK, PlanOK, ForgetEvidence, Cascade, Idle, NeedsTarget, NeedsNew
<1>6. CASE \E p \in Peers, seq \in 1 .. MaxPeerSeq, e \in events, s \in Standing :
             PeerEvent(p, seq, e, s)
  <2>1. PICK p \in Peers, seq \in 1 .. MaxPeerSeq, e \in events, s \in Standing :
          PeerEvent(p, seq, e, s)
    BY <1>6
  <2>2. PICK t \in (e.time + 1) .. MaxCounter :
          events' = events \cup
            {[concept |-> e.concept, standing |-> s, instance |-> p, seq |-> seq,
              time |-> t, parent |-> IdentityOf(e)]}
    BY <2>1 DEF PeerEvent
  <2>3. /\ e \in Event /\ t \in 1 .. MaxCounter /\ seq \in 1 .. MaxCounter
        /\ IdentityOf(e) \in Identity /\ <<p, seq>> \in Identity
    BY <2>1, <2>2, StoreAssumption
       DEF TypeInv, TypeOK, Event, IdentityOf, Identity, Instances
  <2>4. events' \subseteq Event
    BY <2>2, <2>3 DEF TypeInv, TypeOK, Event, Instances
  <2>5. QED
    BY <2>1, <2>3, <2>4
       DEF TypeInv, TypeOK, PlanOK, PeerEvent, Idle, RootsOK, NeedsTarget, NeedsNew
<1>7. QED
  BY <1>2, <1>3, <1>4, <1>5, <1>6 DEF External

LEMMA InitType == Init => TypeInv
<1> SUFFICES ASSUME Init PROVE TypeInv
  OBVIOUS
<1>1. <<>> \in Seq(Item) /\ Len(<<>>) = 0
  OBVIOUS
<1>2. clock \in Clock /\ RootsOK(roots)
  BY StoreAssumption DEF Init, Clock, RootsOK
<1>3. TypeOK
  <2>1. plan \in Seq(Item)
    BY <1>1 DEF Init
  <2>2. /\ sessions = {} /\ visible = {} /\ evidence = {} /\ roots = wroots
        /\ events = {} /\ wevents = {} /\ wclock = clock /\ inTx \in BOOLEAN
        /\ op = "winddown" /\ pos = 1 /\ stage = "assert" /\ minted = {}
    BY DEF Init
  <2>3. QED
    BY <1>2, <2>1, <2>2 DEF TypeOK, Ops, Stages
<1>4. PlanOK
  BY <1>1 DEF Init, PlanOK, NeedsTarget, NeedsNew
<1>5. QED
  BY <1>3, <1>4 DEF TypeInv

LEMMA NextType == TypeInv /\ [Next]_vars => TypeInv'
<1> SUFFICES ASSUME TypeInv, [Next]_vars PROVE TypeInv'
  OBVIOUS
<1>1. CASE BeginAny
  BY <1>1, BeginWinddownType, BeginTransitionType, BeginBindType, BeginImportType
     DEF BeginAny
<1>2. CASE Write
  BY <1>2, SeedLegacyType, SeedEventType, InsertBoundType, BoundEventType, LaterEventType
     DEF Write
<1>3. CASE Commit \/ Rollback
  BY <1>3, CloseType
<1>4. CASE External
  BY <1>4, ExternalType
<1>5. CASE UNCHANGED vars
  BY <1>5 DEF vars, TypeInv, TypeOK, PlanOK, NeedsTarget, NeedsNew, RootsOK
<1>6. QED
  BY <1>1, <1>2, <1>3, <1>4, <1>5 DEF Next

LEMMA TypeInvariance == Spec => []TypeInv
<1>1. Init => TypeInv
  BY InitType
<1>2. TypeInv /\ [Next]_vars => TypeInv'
  BY NextType
<1>3. QED
  BY <1>1, <1>2, PTL DEF Spec

\* Every variable of the store always has its type: in particular no counter ever
\* passes MaxCounter, however many writers and replicas there are.
THEOREM TypeCorrect == Spec => []TypeOK
<1>1. TypeInv => TypeOK
  BY DEF TypeInv
<1>2. QED
  BY <1>1, TypeInvariance, PTL
-----------------------------------------------------------------------------
(* Identities.  The clock bounds every sequence this store ever committed, *)
(* the transaction's clock those it has written; what a transaction adds   *)
(* lies between the two.                                                   *)

LogInv ==
  /\ UniqueIn(events) /\ UniqueIn(wevents)
  /\ clock.seq <= wclock.seq
  /\ \A e \in events : IdentityOf(e) \in minted
  /\ \A n \in Nat : <<Local, n>> \in minted => n <= clock.seq
  /\ \A e \in wevents : e.instance = Local => e.seq <= wclock.seq
  /\ \A e \in wevents : e \in events \/ (e.instance = Local /\ e.seq > clock.seq)
  /\ ~inTx => wevents = events /\ wclock = clock

LEMMA AppendLog ==
  ASSUME TypeInv, LogInv, inTx, UNCHANGED <<inTx, events, clock, minted>>,
         NEW c, NEW s, NEW parent, AppendEvent(c, s, parent)
  PROVE  LogInv'
<1>1. PICK t \in 0 .. MaxCounter :
        /\ wclock' = [seq |-> wclock.seq + 1, time |-> t + 1]
        /\ wevents' = wevents \cup
             {[concept |-> c, standing |-> s, instance |-> Local,
               seq |-> wclock.seq + 1, time |-> t + 1, parent |-> parent]}
  BY DEF AppendEvent
<1> DEFINE n == [concept |-> c, standing |-> s, instance |-> Local,
               seq |-> wclock.seq + 1, time |-> t + 1, parent |-> parent]
<1>2. wclock.seq \in Nat /\ clock.seq \in Nat /\ wclock'.seq = wclock.seq + 1
  BY <1>1, StoreAssumption DEF TypeInv, TypeOK, Clock
<1>3. n.instance = Local /\ n.seq = wclock.seq + 1 /\ wevents' = wevents \cup {n}
  BY <1>1
<1> HIDE DEF n
<1>4. \A e \in wevents : e.seq \in Nat
  BY StoreAssumption DEF TypeInv, TypeOK, Event
<1>5. UniqueIn(wevents')
  BY <1>2, <1>3, <1>4 DEF UniqueIn, IdentityOf, LogInv
<1>6. QED
  BY <1>2, <1>3, <1>4, <1>5 DEF LogInv, UniqueIn

LEMMA PublishLog ==
  ASSUME TypeInv, LogInv, Commit
  PROVE  LogInv'
<1>1. /\ events' = wevents /\ wevents' = wevents /\ clock' = wclock /\ wclock' = wclock
      /\ minted' = minted \cup {IdentityOf(e) : e \in wevents}
  BY DEF Commit, Publish, work
<1>2. wclock.seq \in Nat /\ clock.seq \in Nat
  BY StoreAssumption DEF TypeInv, TypeOK, Clock
<1>3. ASSUME NEW n \in Nat, <<Local, n>> \in minted' PROVE n <= clock'.seq
  BY <1>1, <1>2, <1>3 DEF LogInv, IdentityOf
<1>4. QED
  BY <1>1, <1>2, <1>3 DEF LogInv, UniqueIn

LEMMA CascadeLog ==
  ASSUME LogInv, NEW gone, Cascade(gone), ~inTx, UNCHANGED <<inTx, clock, wclock>>
  PROVE  LogInv'
BY DEF LogInv, Cascade, UniqueIn

LEMMA PeerLog ==
  ASSUME TypeInv, LogInv, NEW p \in Peers, NEW seq \in 1 .. MaxPeerSeq,
         NEW e \in events, NEW s \in Standing, PeerEvent(p, seq, e, s)
  PROVE  LogInv'
<1>1. PICK t \in (e.time + 1) .. MaxCounter :
        events' = events \cup
          {[concept |-> e.concept, standing |-> s, instance |-> p, seq |-> seq,
            time |-> t, parent |-> IdentityOf(e)]}
  BY DEF PeerEvent
<1> DEFINE n == [concept |-> e.concept, standing |-> s, instance |-> p, seq |-> seq,
            time |-> t, parent |-> IdentityOf(e)]
<1>2. n.instance = p /\ n.seq = seq /\ events' = events \cup {n} /\ p # Local
  BY <1>1, StoreAssumption
<1> HIDE DEF n
<1>3. /\ wevents' = events' /\ wclock = clock /\ clock' = clock /\ wclock' = clock
      /\ minted' = minted \cup {<<p, seq>>} /\ ~inTx' /\ <<p, seq>> \notin minted
  BY DEF PeerEvent, Idle, LogInv
<1>4. UniqueIn(events')
  BY <1>2, <1>3 DEF UniqueIn, IdentityOf, LogInv
<1>5. \A x \in events' : IdentityOf(x) \in minted'
  BY <1>2, <1>3 DEF IdentityOf, LogInv
<1>6. \A m \in Nat : <<Local, m>> \in minted' => m <= clock'.seq
  BY <1>2, <1>3 DEF LogInv
<1>7. \A x \in wevents' : x.instance = Local => x.seq <= wclock'.seq
  BY <1>2, <1>3 DEF LogInv, PeerEvent, Idle
<1>8. clock'.seq <= wclock'.seq
  BY <1>3 DEF LogInv
<1>9. QED
  BY <1>3, <1>4, <1>5, <1>6, <1>7, <1>8 DEF LogInv

LEMMA InitLog == Init => LogInv
BY DEF Init, LogInv, UniqueIn

LEMMA NextLog == TypeInv /\ LogInv /\ [Next]_vars => LogInv'
<1> SUFFICES ASSUME TypeInv, LogInv, [Next]_vars PROVE LogInv'
  OBVIOUS
<1>1. CASE BeginAny
  <2>1. UNCHANGED <<events, clock, wevents, wclock, minted>>
        /\ inTx' = TRUE
    BY <1>1 DEF BeginAny, BeginWinddown, BeginTransition, BeginBind, BeginImport, Begin
  <2>2. QED
    BY <2>1 DEF LogInv, UniqueIn
<1>2. CASE Write
  <2>1. inTx /\ UNCHANGED <<inTx, events, clock, minted>>
    BY <1>2 DEF Write, SeedLegacy, SeedEvent, InsertBound, BoundEvent, SupersedeEvent,
       TransitionEvent, InStage, ToStage, NextItem
  <2>2. CASE SeedLegacy \/ InsertBound
    BY <2>1, <2>2 DEF LogInv, UniqueIn, SeedLegacy, InsertBound
  <2>3. CASE SeedEvent \/ BoundEvent
    BY <2>1, <2>3, AppendLog DEF SeedEvent, BoundEvent, AppendInitial
  <2>4. CASE SupersedeEvent \/ TransitionEvent
    BY <2>1, <2>4, AppendLog DEF SupersedeEvent, TransitionEvent, AppendNext
  <2>5. QED
    BY <1>2, <2>2, <2>3, <2>4 DEF Write
<1>3. CASE Commit
  BY <1>3, PublishLog
<1>4. CASE Rollback
  <2>1. /\ wevents' = events /\ wclock' = clock
        /\ UNCHANGED <<events, clock, minted>>
    BY <1>4 DEF Rollback
  <2>2. clock.seq \in Nat /\ \A e \in events : e.seq \in Nat
    BY StoreAssumption DEF TypeInv, TypeOK, Clock, Event
  <2>3. \A e \in events : e.instance = Local => e.seq <= clock.seq
    BY <2>2 DEF LogInv, IdentityOf
  <2>4. QED
    BY <2>1, <2>2, <2>3 DEF LogInv, UniqueIn
<1>5. CASE External
  <2>1. CASE \E s \in Sessions : Capture(s)
    BY <2>1 DEF Capture, Idle, LogInv, UniqueIn
  <2>2. CASE ChangeVisibility
    BY <2>2 DEF ChangeVisibility, Idle, LogInv, UniqueIn
  <2>3. CASE \E s \in Sessions : ForgetSession(s)
    BY <2>3, CascadeLog DEF ForgetSession, Idle
  <2>4. CASE \E e \in Evidence : ForgetEvidence(e)
    BY <2>4, CascadeLog DEF ForgetEvidence, Idle
  <2>5. CASE \E p \in Peers, seq \in 1 .. MaxPeerSeq, e \in events, s \in Standing :
               PeerEvent(p, seq, e, s)
    BY <2>5, PeerLog
  <2>6. QED
    BY <1>5, <2>1, <2>2, <2>3, <2>4, <2>5 DEF External
<1>6. CASE UNCHANGED vars
  BY <1>6 DEF vars, LogInv, UniqueIn
<1>7. QED
  BY <1>1, <1>2, <1>3, <1>4, <1>5, <1>6 DEF Next

LEMMA LogInvariance == Spec => [](TypeInv /\ LogInv)
<1>1. Init => LogInv
  BY InitLog
<1>2. TypeInv /\ LogInv /\ [Next]_vars => LogInv'
  BY NextLog
<1>3. QED
  BY <1>1, <1>2, TypeInvariance, PTL DEF Spec

\* No two events of the log, or of an open transaction, have the same identity,
\* so the unique key of context_concept_events never refuses an append.
THEOREM EventIdentity == Spec => []IdentitiesUnique
<1>1. LogInv => IdentitiesUnique
  BY DEF LogInv, IdentitiesUnique
<1>2. QED
  BY <1>1, LogInvariance, PTL

LEMMA NewIdentity ==
  TypeInv /\ LogInv /\ [Next]_vars
    => [\A e \in events' \ events : IdentityOf(e) \notin minted]_vars
<1> SUFFICES ASSUME TypeInv, LogInv, Next, NEW e \in events' \ events
             PROVE  IdentityOf(e) \notin minted
  OBVIOUS
<1>1. CASE Commit
  <2>1. e \in wevents /\ e.instance = Local /\ e.seq > clock.seq
    BY <1>1 DEF Commit, Publish, LogInv
  <2>2. e.seq \in Nat /\ clock.seq \in Nat
    BY <2>1, StoreAssumption DEF TypeInv, TypeOK, Clock, Event
  <2>3. QED
    BY <2>1, <2>2 DEF LogInv, IdentityOf
<1>2. CASE \E p \in Peers, seq \in 1 .. MaxPeerSeq, f \in events, s \in Standing :
             PeerEvent(p, seq, f, s)
  BY <1>2 DEF PeerEvent, IdentityOf
<1>3. CASE \/ \E s \in Sessions : Capture(s) \/ ForgetSession(s)
           \/ ChangeVisibility
           \/ \E f \in Evidence : ForgetEvidence(f)
  BY <1>3 DEF Capture, ForgetSession, ChangeVisibility, ForgetEvidence, Cascade
<1>4. CASE BeginAny \/ Write \/ Rollback
  BY <1>4 DEF BeginAny, BeginWinddown, BeginTransition, BeginBind, BeginImport, Begin,
     Write, SeedLegacy, SeedEvent, InsertBound, BoundEvent, SupersedeEvent,
     TransitionEvent, ToStage, NextItem, Rollback
<1>5. QED
  BY <1>1, <1>2, <1>3, <1>4 DEF Next, External

\* An identity is never given twice, even after the rows that bore it were deleted
\* by a cascade.
THEOREM IdentityForEver == Spec => IdentitiesNeverReused
BY NewIdentity, LogInvariance, PTL DEF Spec, IdentitiesNeverReused
-----------------------------------------------------------------------------
(* Legacy roots.  The kind of a root is fixed by its id; every event has   *)
(* its root; a planned acceptance is of a root that is not legacy.         *)

KindOK(rts, evs) ==
  /\ \A c \in Ids : Present(rts, c) => (IsLegacy(rts[c]) <=> c \in Files)
  /\ \A e \in evs : Present(rts, e.concept)
                    /\ (e.concept \in Files => e.standing # "accepted")

PlannedKinds ==
  \A i \in 1 .. Len(plan) :
    /\ op = "import" => plan[i].target \in Files
    /\ op = "transition" /\ plan[i].standing = "accepted" => plan[i].target \notin Files

KindInv ==
  /\ KindOK(roots, events) /\ KindOK(wroots, wevents)
  /\ ~inTx => wroots = roots /\ wevents = events
  /\ PlannedKinds
  /\ InStage("seeded") => Present(wroots, Current.target)
  /\ InStage("bound") => Present(wroots, Current.new)

LEMMA AppendKind ==
  ASSUME KindOK(wroots, wevents), NEW c, NEW s, NEW parent, Present(wroots, c),
         c \in Files => s # "accepted", AppendEvent(c, s, parent), UNCHANGED wroots
  PROVE  KindOK(wroots, wevents)'
<1>1. PICK t \in 0 .. MaxCounter :
        wevents' = wevents \cup
             {[concept |-> c, standing |-> s, instance |-> Local,
               seq |-> wclock.seq + 1, time |-> t + 1, parent |-> parent]}
  BY DEF AppendEvent
<1>2. QED
  BY <1>1 DEF KindOK, Present

\* A stage that ends an item leaves no root pending.
LEMMA NextItemKind ==
  ASSUME TypeInv, KindInv, KindOK(wroots, wevents)', NextItem, inTx
  PROVE  KindInv'
<1>1. stage' \notin {"seeded", "bound"}
  BY DEF NextItem, FirstStage
<1>2. QED
  BY <1>1 DEF KindInv, KindOK, NextItem, PlannedKinds, InStage

LEMMA ToStageKind ==
  ASSUME TypeInv, KindInv, KindOK(wroots, wevents)', NEW st, ToStage(st), inTx,
         st = "seeded" => Present(wroots', Current.target),
         st = "bound" => Present(wroots', Current.new)
  PROVE  KindInv'
BY DEF KindInv, KindOK, ToStage, PlannedKinds, InStage, Current, Present

LEMMA BeginKind ==
  ASSUME KindInv, NEW o, NEW items, Begin(o, items),
         \A i \in 1 .. Len(items) :
           /\ o = "import" => items[i].target \in Files
           /\ o = "transition" /\ items[i].standing = "accepted"
                => items[i].target \notin Files
  PROVE  KindInv'
<1>1. stage' \notin {"seeded", "bound"}
  BY DEF Begin, FirstStage
<1>2. PlannedKinds'
  BY DEF Begin, PlannedKinds
<1>3. QED
  BY <1>1, <1>2 DEF KindInv, KindOK, Begin, InStage

LEMMA BeginAnyKind == TypeInv /\ KindInv /\ BeginAny => KindInv'
<1> SUFFICES ASSUME TypeInv, KindInv, BeginAny PROVE KindInv'
  OBVIOUS
<1>1. CASE \E s \in Sessions, docs \in Batches(Documents) : BeginWinddown(s, docs)
  BY <1>1, BeginKind DEF BeginWinddown
<1>2. CASE \E c \in Ids, s \in {"accepted", "retired"} : BeginTransition(c, s)
  <2>1. PICK c \in Ids, s \in {"accepted", "retired"} : BeginTransition(c, s)
    BY <1>2
  <2> DEFINE item == [target |-> c, new |-> NoId, session |-> NoSession,
                      cites |-> {}, standing |-> s]
  <2>2. Begin("transition", <<item>>)
    BY <2>1 DEF BeginTransition
  <2>3. s = "accepted" => c \notin Files
    BY <2>1 DEF BeginTransition, Authorized, KindInv, KindOK
  <2>4. QED
    BY <2>2, <2>3, BeginKind
<1>3. CASE \E f \in Files, d \in Documents : BeginBind(f, d)
  BY <1>3, BeginKind DEF BeginBind
<1>4. CASE \E fs \in Batches(Files) : Distinct(fs) /\ BeginImport(fs)
  <2>1. PICK fs \in Batches(Files) : BeginImport(fs)
    BY <1>4
  <2>2. PICK n \in 1 .. MaxBatch : fs \in [1 .. n -> Files]
    BY DEF Batches
  <2> DEFINE item(ids, i) ==
        [target |-> fs[i], new |-> ids[i],
         session |-> IF ClaimedSession[fs[i]] \in visible
                     THEN ClaimedSession[fs[i]] ELSE NoSession,
         cites |-> {m[1] : m \in IF Bindable(fs[i]) THEN ImportPlaces(fs[i]) ELSE {}},
         standing |-> "retired"]
  <2>3. PICK ids \in [DOMAIN fs -> Free \cup {NoId}] :
          Begin("import", [i \in DOMAIN fs |-> item(ids, i)])
    BY <2>1 DEF BeginImport
  <2> DEFINE items == [i \in 1 .. n |-> item(ids, i)]
  <2>4. Begin("import", items)
    BY <2>2, <2>3
  <2>5. \A i \in 1 .. n : items[i].target \in Files
    BY <2>2
  <2>6. Len(items) = n
    BY <2>2, StoreAssumption
  <2> HIDE DEF items
  <2>7. QED
    BY <2>4, <2>5, <2>6, BeginKind
<1>5. QED
  BY <1>1, <1>2, <1>3, <1>4 DEF BeginAny

LEMMA SeedLegacyKind == TypeInv /\ KindInv /\ SeedLegacy => KindInv'
<1> SUFFICES ASSUME TypeInv, KindInv, SeedLegacy PROVE KindInv'
  OBVIOUS
<1>1. op = "import" /\ pos \in 1 .. Len(plan) /\ Current \in Item
  BY DEF TypeInv, TypeOK, PlanOK, SeedLegacy, InStage, Current, Ops
<1>2. Current.target \in Files /\ Current.target \in Ids
  BY <1>1 DEF KindInv, PlannedKinds, Current, Ids
<1> DEFINE r == [origin |-> "legacy-okf", session |-> Current.session, cites |-> {},
                 supersedes |-> NoId]
<1>3. r \in Root /\ r # NoRoot /\ IsLegacy(r)
  BY <1>1, NoRootAssumption DEF Root, Item, IsLegacy
<1>4. wroots' = [wroots EXCEPT ![Current.target] = r] /\ wevents' = wevents
  BY DEF SeedLegacy
<1>5. wroots'[Current.target] = r
      /\ \A c \in Ids : c # Current.target => wroots'[c] = wroots[c]
  BY <1>2, <1>4 DEF TypeInv, TypeOK, RootsOK
<1> HIDE DEF r
<1>6. \A e \in wevents : e.concept \in Ids
  BY DEF TypeInv, TypeOK, Event
<1>7. KindOK(wroots, wevents)'
  BY <1>2, <1>3, <1>4, <1>5, <1>6 DEF KindInv, KindOK, Present, IsLegacy
<1>8. Present(wroots', Current.target)
  BY <1>3, <1>5 DEF Present
<1>9. QED
  BY <1>7, <1>8, ToStageKind DEF SeedLegacy, InStage

LEMMA InsertBoundKind == TypeInv /\ KindInv /\ InsertBound => KindInv'
<1> SUFFICES ASSUME TypeInv, KindInv, InsertBound PROVE KindInv'
  OBVIOUS
<1>1. /\ op \in {"winddown", "bind", "import"} /\ pos \in 1 .. Len(plan)
      /\ Current \in Item /\ Current.new \in Assertions
  BY DEF TypeInv, TypeOK, PlanOK, InsertBound, InStage, Current, Ops, NeedsNew
<1>2. Current.new \notin Files /\ Current.new \in Ids
  BY <1>1, StoreAssumption DEF Ids
<1> DEFINE r == [origin |-> IF op = "winddown" THEN "winddown" ELSE "legacy-bind",
                 session |-> Current.session, cites |-> Current.cites,
                 supersedes |-> Current.target]
<1>3. r \in Root /\ r # NoRoot /\ ~IsLegacy(r)
  BY <1>1, NoRootAssumption DEF Root, Item, IsLegacy
<1>4. wroots' = [wroots EXCEPT ![Current.new] = r] /\ wevents' = wevents
  BY DEF InsertBound
<1>5. wroots'[Current.new] = r
      /\ \A c \in Ids : c # Current.new => wroots'[c] = wroots[c]
  BY <1>2, <1>4 DEF TypeInv, TypeOK, RootsOK
<1> HIDE DEF r
<1>6. \A e \in wevents : e.concept \in Ids
  BY DEF TypeInv, TypeOK, Event
<1>7. KindOK(wroots, wevents)'
  BY <1>2, <1>3, <1>4, <1>5, <1>6 DEF KindInv, KindOK, Present, IsLegacy
<1>8. Present(wroots', Current.new)
  BY <1>3, <1>5 DEF Present
<1>9. QED
  BY <1>7, <1>8, ToStageKind DEF InsertBound, InStage

LEMMA WriteEventKind ==
  TypeInv /\ KindInv /\ (SeedEvent \/ BoundEvent \/ SupersedeEvent \/ TransitionEvent)
    => KindInv'
<1> SUFFICES ASSUME TypeInv, KindInv,
                    SeedEvent \/ BoundEvent \/ SupersedeEvent \/ TransitionEvent
             PROVE  KindInv'
  OBVIOUS
<1>1. inTx /\ pos \in 1 .. Len(plan) /\ UNCHANGED wroots
  BY DEF SeedEvent, BoundEvent, SupersedeEvent, TransitionEvent, InStage, TypeInv, TypeOK
<1>2. ASSUME NEW c, NEW s, AppendNext(c, s), c \in Files => s # "accepted"
      PROVE  KindOK(wroots, wevents)'
  <2>1. PICK e \in wevents : IsCurrent(wevents, c, e) /\ AppendEvent(c, s, IdentityOf(e))
    BY <1>2 DEF AppendNext
  <2>2. Present(wroots, c)
    BY <2>1 DEF IsCurrent, EventsOf, KindInv, KindOK
  <2>3. QED
    BY <1>1, <1>2, <2>1, <2>2, AppendKind DEF KindInv
<1>3. CASE SeedEvent
  <2>1. KindOK(wroots, wevents)'
    BY <1>1, <1>3, AppendKind DEF SeedEvent, AppendInitial, KindInv
  <2>2. QED
    BY <1>1, <1>3, <2>1, NextItemKind, ToStageKind DEF SeedEvent
<1>4. CASE BoundEvent
  <2>1. KindOK(wroots, wevents)'
    BY <1>1, <1>4, AppendKind DEF BoundEvent, AppendInitial, KindInv
  <2>2. QED
    BY <1>1, <1>4, <2>1, NextItemKind, ToStageKind DEF BoundEvent
<1>5. CASE SupersedeEvent
  BY <1>1, <1>2, <1>5, NextItemKind DEF SupersedeEvent
<1>6. CASE TransitionEvent
  <2>1. op = "transition"
    BY <1>6 DEF TransitionEvent, InStage, TypeInv, TypeOK, PlanOK, Ops
  <2>2. Current.target \in Files => Current.standing # "accepted"
    BY <1>1, <2>1 DEF KindInv, PlannedKinds, Current
  <2>3. QED
    BY <1>1, <1>2, <1>6, <2>2, NextItemKind DEF TransitionEvent
<1>7. QED
  BY <1>3, <1>4, <1>5, <1>6

LEMMA CloseKind == TypeInv /\ KindInv /\ (Commit \/ Rollback) => KindInv'
<1> SUFFICES ASSUME TypeInv, KindInv, Commit \/ Rollback PROVE KindInv'
  OBVIOUS
<1>1. PlannedKinds' /\ ~InStage("seeded")' /\ ~InStage("bound")'
  BY DEF Commit, Rollback, Close, PlannedKinds, InStage
<1>2. CASE Commit
  <2>1. roots' = wroots /\ wroots' = wroots /\ events' = wevents /\ wevents' = wevents
    BY <1>2 DEF Commit, Publish, work
  <2>2. QED
    BY <1>1, <2>1 DEF KindInv, KindOK
<1>3. CASE Rollback
  <2>1. roots' = roots /\ wroots' = roots /\ events' = events /\ wevents' = events
    BY <1>3 DEF Rollback
  <2>2. QED
    BY <1>1, <2>1 DEF KindInv, KindOK
<1>4. QED
  BY <1>2, <1>3

LEMMA CascadeKind ==
  ASSUME TypeInv, KindInv, Idle, NEW gone \in SUBSET Ids, Cascade(gone)
  PROVE  KindInv'
<1>1. /\ wroots' = roots' /\ wevents' = events'
      /\ events' = {e \in events : e.concept \notin gone}
      /\ \A c \in Ids : roots'[c] = IF c \in gone THEN NoRoot ELSE roots[c]
  BY DEF Cascade
<1>2. \A e \in events : e.concept \in Ids
  BY DEF TypeInv, TypeOK, Event
<1>3. KindOK(roots, events)'
  BY <1>1, <1>2 DEF KindInv, KindOK, Present
<1>4. KindOK(wroots, wevents)'
  BY <1>1, <1>3 DEF KindOK
<1>5. QED
  BY <1>1, <1>3, <1>4 DEF KindInv, Idle, InStage, PlannedKinds

LEMMA PeerKind ==
  ASSUME TypeInv, KindInv, NEW p \in Peers, NEW seq \in 1 .. MaxPeerSeq,
         NEW e \in events, NEW s \in Standing, PeerEvent(p, seq, e, s)
  PROVE  KindInv'
<1>1. PICK t \in (e.time + 1) .. MaxCounter :
        events' = events \cup
          {[concept |-> e.concept, standing |-> s, instance |-> p, seq |-> seq,
            time |-> t, parent |-> IdentityOf(e)]}
  BY DEF PeerEvent
<1>2. /\ UNCHANGED <<roots, wroots, inTx, op, plan, pos, stage>> /\ ~inTx
      /\ wroots = roots /\ wevents' = events'
  BY DEF PeerEvent, Idle, KindInv
<1>3. Present(roots, e.concept) /\ e.concept \in Ids
  BY DEF KindInv, KindOK, TypeInv, TypeOK, Event
<1>4. e.concept \in Files => s # "accepted"
  BY <1>3 DEF PeerEvent, KindInv, KindOK
<1>5. KindOK(roots, events)'
  BY <1>1, <1>2, <1>3, <1>4 DEF KindInv, KindOK, Present
<1>6. QED
  BY <1>2, <1>5 DEF KindInv, KindOK, InStage, PlannedKinds

LEMMA NextKind == TypeInv /\ KindInv /\ [Next]_vars => KindInv'
<1> SUFFICES ASSUME TypeInv, KindInv, [Next]_vars PROVE KindInv'
  OBVIOUS
<1>1. CASE BeginAny
  BY <1>1, BeginAnyKind
<1>2. CASE Write
  BY <1>2, SeedLegacyKind, InsertBoundKind, WriteEventKind DEF Write
<1>3. CASE Commit \/ Rollback
  BY <1>3, CloseKind
<1>4. CASE External
  <2>1. CASE (\E s \in Sessions : Capture(s)) \/ ChangeVisibility
    BY <2>1 DEF Capture, ChangeVisibility, Idle, KindInv, KindOK, InStage, PlannedKinds
  <2>2. CASE \E s \in Sessions : ForgetSession(s)
    BY <2>2, CascadeKind DEF ForgetSession
  <2>3. CASE \E e \in Evidence : ForgetEvidence(e)
    BY <2>3, CascadeKind DEF ForgetEvidence
  <2>4. CASE \E p \in Peers, seq \in 1 .. MaxPeerSeq, e \in events, s \in Standing :
               PeerEvent(p, seq, e, s)
    BY <2>4, PeerKind
  <2>5. QED
    BY <1>4, <2>1, <2>2, <2>3, <2>4 DEF External
<1>5. CASE UNCHANGED vars
  BY <1>5 DEF vars, KindInv, KindOK, PlannedKinds, InStage, Current
<1>6. QED
  BY <1>1, <1>2, <1>3, <1>4, <1>5 DEF Next

LEMMA InitKind == Init => KindInv
BY DEF Init, KindInv, KindOK, PlannedKinds, InStage, Present

\* A legacy root is never accepted, whatever this store and its replicas do: no
\* event of one has that standing, so none can be the current one.
THEOREM LegacyIsNeverAccepted == Spec => []LegacyNeverAccepted
<1>1. Init => KindInv
  BY InitKind
<1>2. TypeInv /\ KindInv /\ [Next]_vars => KindInv'
  BY NextKind
<1>3. KindInv => LegacyNeverAccepted
  BY DEF KindInv, KindOK, LegacyNeverAccepted, HasStanding, IsCurrent, EventsOf
<1>4. QED
  BY <1>1, <1>2, <1>3, TypeInvariance, PTL DEF Spec
-----------------------------------------------------------------------------
(* The order of current_event elects exactly one event of a concept, and   *)
(* its standing says which standings the concept's events have at all.     *)

LEMMA MinNat ==
  ASSUME NEW S \in SUBSET Nat, S # {}
  PROVE  \E m \in S : \A k \in S : m <= k
<1>1. IsWellFoundedOn(OpToRel(<, Nat), Nat)
  BY NatLessThanWellFounded
<1>2. PICK m \in S : \A k \in S : ~ (<<k, m>> \in OpToRel(<, Nat))
  BY <1>1, WFMin
<1>3. \A k \in S : ~ (k < m)
  BY <1>2 DEF OpToRel
<1>4. S \subseteq Nat
  OBVIOUS
<1>5. QED
  BY <1>3, <1>4

LEMMA MaxUpTo ==
  ASSUME NEW n \in Nat, NEW S \in SUBSET (0 .. n), S # {}
  PROVE  \E m \in S : \A k \in S : k <= m
<1> DEFINE T == {n - k : k \in S}
<1>1. T \in SUBSET Nat /\ T # {}
  <2>1. \A k \in S : n - k \in Nat
    OBVIOUS
  <2>2. QED
    BY <2>1
<1>2. PICK t \in T : \A u \in T : t <= u
  BY <1>1, MinNat
<1>3. PICK m \in S : t = n - m
  OBVIOUS
<1>4. ASSUME NEW k \in S PROVE k <= m
  <2>1. n - m <= n - k
    BY <1>2, <1>3
  <2>2. QED
    BY <2>1
<1>5. QED
  BY <1>4

LEMMA EventNumbers ==
  ASSUME NEW e \in Event
  PROVE  /\ Rank(e.standing) \in 0 .. 2 /\ e.time \in 0 .. MaxCounter
         /\ e.instance \in 0 .. MaxInstance /\ e.seq \in 0 .. MaxCounter
BY StoreAssumption DEF Event, Rank, Instances

\* A concept with an event has a current one.
LEMMA CurrentExists ==
  ASSUME NEW evs \in SUBSET Event, UniqueIn(evs), NEW c, EventsOf(evs, c) # {}
  PROVE  \E e \in evs : IsCurrent(evs, c, e)
<1> DEFINE E0 == EventsOf(evs, c)
<1>0. MaxCounter \in Nat /\ MaxInstance \in Nat
  BY StoreAssumption
<1>1. \A e \in E0 : e \in evs /\ e \in Event
  BY DEF EventsOf
<1>2. PICK r \in E0 : \A e \in E0 : Rank(e.standing) <= Rank(r.standing)
  <2> DEFINE S == {Rank(e.standing) : e \in E0}
  <2>1. S \in SUBSET (0 .. 2) /\ S # {}
    BY <1>1, EventNumbers
  <2>2. PICK m \in S : \A k \in S : k <= m
    BY <2>1, MaxUpTo, 2 \in Nat
  <2>3. QED
    BY <2>2
<1> DEFINE E1 == {e \in E0 : Rank(e.standing) = Rank(r.standing)}
<1>3. PICK t \in E1 : \A e \in E1 : e.time <= t.time
  <2> DEFINE S == {e.time : e \in E1}
  <2>1. S \in SUBSET (0 .. MaxCounter) /\ S # {}
    BY <1>1, <1>2, EventNumbers
  <2>2. PICK m \in S : \A k \in S : k <= m
    BY <1>0, <2>1, MaxUpTo
  <2>3. QED
    BY <2>2
<1> DEFINE E2 == {e \in E1 : e.time = t.time}
<1>4. PICK i \in E2 : \A e \in E2 : e.instance <= i.instance
  <2> DEFINE S == {e.instance : e \in E2}
  <2>1. S \in SUBSET (0 .. MaxInstance) /\ S # {}
    BY <1>1, <1>3, EventNumbers
  <2>2. PICK m \in S : \A k \in S : k <= m
    BY <1>0, <2>1, MaxUpTo
  <2>3. QED
    BY <2>2
<1> DEFINE E3 == {e \in E2 : e.instance = i.instance}
<1>5. PICK q \in E3 : \A e \in E3 : e.seq <= q.seq
  <2> DEFINE S == {e.seq : e \in E3}
  <2>1. S \in SUBSET (0 .. MaxCounter) /\ S # {}
    BY <1>1, <1>4, EventNumbers
  <2>2. PICK m \in S : \A k \in S : k <= m
    BY <1>0, <2>1, MaxUpTo
  <2>3. QED
    BY <2>2
<1>6. ASSUME NEW f \in E0, f # q PROVE Outranks(q, f)
  <2>1. /\ Rank(f.standing) \in Int /\ Rank(q.standing) \in Int /\ f.time \in Int
        /\ q.time \in Int /\ f.instance \in Int /\ q.instance \in Int
        /\ f.seq \in Int /\ q.seq \in Int
    BY <1>1, EventNumbers
  <2>2. Rank(f.standing) <= Rank(q.standing)
    BY <1>2
  <2>3. Rank(f.standing) = Rank(q.standing) => f.time <= q.time
    BY <1>3
  <2>4. Rank(f.standing) = Rank(q.standing) /\ f.time = q.time
          => f.instance <= q.instance
    BY <1>4
  <2>5. Rank(f.standing) = Rank(q.standing) /\ f.time = q.time
          /\ f.instance = q.instance => f.seq <= q.seq
    BY <1>5
  <2>6. f.instance = q.instance => f.seq # q.seq
    BY <1>1, <1>6 DEF UniqueIn, IdentityOf
  <2>7. QED
    BY <2>1, <2>2, <2>3, <2>4, <2>5, <2>6 DEF Outranks
<1>7. q \in E0 /\ q \in evs
  BY <1>1
<1>8. QED
  BY <1>6, <1>7 DEF IsCurrent

\* It has only one, so its standing is one.
LEMMA CurrentUnique ==
  ASSUME NEW evs \in SUBSET Event, NEW c, NEW e, NEW f,
         IsCurrent(evs, c, e), IsCurrent(evs, c, f)
  PROVE  e = f
<1>1. e \in Event /\ f \in Event
  BY DEF IsCurrent, EventsOf
<1>2. SUFFICES ASSUME e # f PROVE FALSE
  OBVIOUS
<1>3. Outranks(e, f) /\ Outranks(f, e)
  BY <1>2 DEF IsCurrent
<1>4. QED
  BY <1>1, <1>3, EventNumbers DEF Outranks

IsRetired(evs, c) == \E e \in EventsOf(evs, c) : e.standing = "retired"
IsAccepted(evs, c) == \E e \in EventsOf(evs, c) : e.standing = "accepted"
AllProposed(evs, c) == \A e \in EventsOf(evs, c) : e.standing = "proposed"

\* What the current event's standing says of all events.
LEMMA StandingMeans ==
  ASSUME NEW evs \in SUBSET Event, UniqueIn(evs), NEW c
  PROVE  /\ HasStanding(evs, c, "retired") <=> IsRetired(evs, c)
         /\ HasStanding(evs, c, "accepted") <=> IsAccepted(evs, c) /\ ~IsRetired(evs, c)
         /\ HasStanding(evs, c, "proposed")
              <=> EventsOf(evs, c) # {} /\ AllProposed(evs, c)
<1>1. CASE EventsOf(evs, c) = {}
  BY <1>1 DEF HasStanding, IsCurrent, IsRetired, IsAccepted
<1>2. CASE EventsOf(evs, c) # {}
  <2>1. PICK e \in evs : IsCurrent(evs, c, e)
    BY <1>2, CurrentExists
  <2>2. \A s : HasStanding(evs, c, s) <=> e.standing = s
    BY <2>1, CurrentUnique DEF HasStanding
  <2>3. \A f \in EventsOf(evs, c) : f.standing \in Standing
    BY DEF EventsOf, Event
  <2>4. e \in EventsOf(evs, c)
    BY <2>1 DEF IsCurrent
  <2>5. ASSUME NEW f \in EventsOf(evs, c)
        PROVE  Rank(e.standing) >= Rank(f.standing)
    <3>1. f = e \/ Outranks(e, f)
      BY <2>1 DEF IsCurrent
    <3>2. Rank(e.standing) \in Int /\ Rank(f.standing) \in Int
      BY DEF Rank
    <3>3. QED
      BY <3>1, <3>2 DEF Outranks
  <2>6. \A f \in EventsOf(evs, c) :
          /\ f.standing = "retired" => e.standing = "retired"
          /\ f.standing = "accepted" => e.standing \in {"accepted", "retired"}
    BY <2>3, <2>4, <2>5 DEF Rank, Standing
  <2>7. QED
    BY <1>2, <2>2, <2>3, <2>4, <2>6 DEF IsRetired, IsAccepted, AllProposed, Standing
<1>3. QED
  BY <1>1, <1>2

\* The standing of a concept depends on its own events only.
LEMMA StandingLocal ==
  ASSUME NEW E, NEW F, NEW c, EventsOf(E, c) = EventsOf(F, c), NEW s
  PROVE  HasStanding(E, c, s) <=> HasStanding(F, c, s)
BY DEF HasStanding, IsCurrent, EventsOf
-----------------------------------------------------------------------------
(* The open transaction, from its plan.  The plan never changes while it   *)
(* is carried out, nor do the committed tables: what the checks of Begin   *)
(* found still holds when an item is written.                              *)

Items == 1 .. Len(plan)

ItemShape(o, i) ==
  /\ o = "winddown" => i.target = NoId
  /\ o = "transition" => i.new = NoId /\ i.standing \in {"accepted", "retired"}
  /\ o \in {"bind", "import"} => i.target \in Files /\ i.standing = "retired"

DistinctItems(items) ==
  \A i, j \in 1 .. Len(items) : i # j =>
    /\ items[i].new = items[j].new => items[i].new = NoId
    /\ items[i].target = items[j].target => items[i].target = NoId

SessionFits(r, i) ==
  \/ r.session = i.session
  \/ r.session = NoSession /\ ClaimedSession[i.target] = i.session

\* What the checks of Begin found of an item, in the committed tables.
ItemSound(o, i) ==
  /\ i.new # NoId => ~Present(roots, i.new) /\ BoundProof(i)
  /\ o = "import" => ~Present(roots, i.target)
  /\ o \in {"transition", "bind"} =>
       Present(roots, i.target) /\ ~IsRetired(events, i.target)
  /\ o = "transition" /\ i.standing = "accepted" => AllProposed(events, i.target)
  /\ o = "bind" => IsLegacy(roots[i.target]) /\ SessionFits(roots[i.target], i)

PlanSound ==
  /\ inTx => Len(plan) >= 1 /\ \A i \in Items : ItemSound(op, plan[i])
  /\ op \in {"transition", "bind"} => Len(plan) <= 1
  /\ \A i \in Items : ItemShape(op, plan[i])
  /\ DistinctItems(plan)

\* Item i is done, or is the one at hand and at one of these stages.
Reached(i, stages) == i < pos \/ (i = pos /\ stage \in stages)

\* The rows and the events the transaction has added are those of the items done,
\* and of the one it is at.
RowWritten(c) ==
  \E i \in Items :
    \/ c = plan[i].new /\ Reached(i, {"bound", "supersede"})
    \/ /\ c = plan[i].target /\ op = "import"
       /\ Reached(i, {"seeded", "assert", "bound", "supersede"})

EventWritten(e) ==
  \E i \in Items :
    \/ /\ e.concept = plan[i].new /\ e.standing = "proposed"
       /\ Reached(i, {"supersede"})
    \/ /\ e.concept = plan[i].target
       /\ \/ i < pos
          \/ /\ op = "import" /\ e.standing = "proposed"
             /\ Reached(i, {"assert", "bound", "supersede"})

Frame ==
  /\ \A c \in Ids : wroots[c] = roots[c] \/ RowWritten(c)
  /\ \A e \in wevents : e \in events \/ EventWritten(e)
  /\ events \subseteq wevents

PlanInv == PlanSound /\ (inTx => Frame)

\* AppendEvent adds one event, later than every other.
LEMMA AppendAdds ==
  ASSUME TypeInv, NEW c, NEW s, NEW parent, AppendEvent(c, s, parent)
  PROVE  \E n : /\ wevents' = wevents \cup {n}
                /\ n.concept = c /\ n.standing = s /\ n.parent = parent
                /\ n.instance = Local /\ n.seq = wclock.seq + 1
                /\ \A e \in wevents : e.time < n.time
<1>1. PICK t \in 0 .. MaxCounter :
        /\ IsObservedTime(wclock, wevents, t)
        /\ wevents' = wevents \cup
             {[concept |-> c, standing |-> s, instance |-> Local,
               seq |-> wclock.seq + 1, time |-> t + 1, parent |-> parent]}
  BY DEF AppendEvent
<1> DEFINE n == [concept |-> c, standing |-> s, instance |-> Local,
               seq |-> wclock.seq + 1, time |-> t + 1, parent |-> parent]
<1>2. \A e \in wevents : e.time < n.time
  <2>1. \A e \in wevents : e.time <= t /\ e.time \in Int
    BY <1>1, StoreAssumption DEF IsObservedTime, TypeInv, TypeOK, Event
  <2>2. n.time = t + 1 /\ t \in Int
    BY StoreAssumption
  <2>3. QED
    BY <2>1, <2>2
<1>3. /\ n.concept = c /\ n.standing = s /\ n.parent = parent
      /\ n.instance = Local /\ n.seq = wclock.seq + 1
  OBVIOUS
<1>4. wevents' = wevents \cup {n}
  BY <1>1
<1>5. QED
  BY <1>2, <1>3, <1>4

\* A replica's event does, later than the one it follows.
LEMMA PeerAdds ==
  ASSUME TypeInv, NEW p, NEW seq, NEW e \in events, NEW s, PeerEvent(p, seq, e, s)
  PROVE  \E n : /\ events' = events \cup {n} /\ n.parent = IdentityOf(e)
                /\ n.concept = e.concept /\ n.standing = s /\ e.time < n.time
<1>1. PICK t \in (e.time + 1) .. MaxCounter :
        events' = events \cup
          {[concept |-> e.concept, standing |-> s, instance |-> p, seq |-> seq,
            time |-> t, parent |-> IdentityOf(e)]}
  BY DEF PeerEvent
<1> DEFINE n == [concept |-> e.concept, standing |-> s, instance |-> p, seq |-> seq,
            time |-> t, parent |-> IdentityOf(e)]
<1>2. e.time \in Int /\ e.time < t
  BY <1>1, StoreAssumption DEF TypeInv, TypeOK, Event
<1>3. /\ n.parent = IdentityOf(e) /\ n.concept = e.concept /\ n.standing = s
      /\ e.time < n.time /\ events' = events \cup {n}
  BY <1>1, <1>2
<1> HIDE DEF n
<1>4. QED
  BY <1>3

LEMMA NextItemReaches ==
  ASSUME TypeInv, NextItem
  PROVE  /\ \A c : RowWritten(c) => RowWritten(c)'
         /\ \A e : EventWritten(e) => EventWritten(e)'
<1>1. pos \in Nat /\ pos' = pos + 1 /\ plan' = plan /\ op' = op
  BY DEF TypeInv, TypeOK, NextItem
<1>2. \A i \in Items : \A st : Reached(i, st) => i < pos'
  BY <1>1 DEF Reached, Items
<1>3. QED
  BY <1>1, <1>2 DEF RowWritten, EventWritten, Reached, Items

LEMMA ToStageReaches ==
  ASSUME TypeInv, NEW st, ToStage(st),
         <<stage, st>> \in {<<"seed", "seeded">>, <<"seeded", "assert">>,
                            <<"assert", "bound">>, <<"bound", "supersede">>}
  PROVE  /\ \A c : RowWritten(c) => RowWritten(c)'
         /\ \A e : EventWritten(e) => EventWritten(e)'
BY DEF ToStage, RowWritten, EventWritten, Reached, Items

LEMMA WritePlan ==
  ASSUME PlanInv, inTx, UNCHANGED <<evidence, roots, events, inTx, op, plan>>,
         wevents \subseteq wevents',
         \A c \in Ids : wroots'[c] = wroots[c] \/ RowWritten(c)',
         \A e \in wevents' : e \in wevents \/ EventWritten(e)',
         \A c : RowWritten(c) => RowWritten(c)',
         \A e : EventWritten(e) => EventWritten(e)'
  PROVE  PlanInv'
<1>1. PlanSound'
  BY DEF PlanInv, PlanSound, Items, ItemSound, BoundProof, Present, SessionFits, ItemShape,
     DistinctItems, IsRetired, AllProposed
<1>2. Frame'
  BY DEF PlanInv, Frame
<1>3. QED
  BY <1>1, <1>2 DEF PlanInv

LEMMA BeginPlan ==
  ASSUME TypeInv, KindInv, ~inTx, NEW o, NEW items, Begin(o, items), Len(items) >= 1,
         o \in {"transition", "bind"} => Len(items) <= 1,
         \A i \in 1 .. Len(items) : ItemShape(o, items[i]) /\ ItemSound(o, items[i]),
         DistinctItems(items)
  PROVE  PlanInv'
<1>1. op' = o /\ plan' = items /\ UNCHANGED <<evidence, roots, events, wroots, wevents>>
  BY DEF Begin
<1>2. PlanSound'
  BY <1>1 DEF PlanSound, Items, ItemSound, BoundProof, Present, SessionFits, ItemShape,
     DistinctItems, IsRetired, AllProposed
<1>3. Frame'
  BY <1>1 DEF KindInv, Frame
<1>4. QED
  BY <1>2, <1>3 DEF PlanInv

LEMMA BeginOnePlan ==
  ASSUME TypeInv, KindInv, ~inTx, NEW o, NEW item, Begin(o, <<item>>),
         ItemShape(o, item), ItemSound(o, item)
  PROVE  PlanInv'
<1> DEFINE items == <<item>>
<1>1. Len(items) = 1 /\ \A i \in 1 .. 1 : items[i] = item
  OBVIOUS
<1>2. Begin(o, items)
  OBVIOUS
<1> HIDE DEF items
<1>3. \A i \in 1 .. Len(items) : ItemShape(o, items[i]) /\ ItemSound(o, items[i])
  BY <1>1
<1>4. DistinctItems(items)
  BY <1>1 DEF DistinctItems
<1>5. Len(items) >= 1 /\ Len(items) <= 1
  BY <1>1
<1>6. QED
  BY <1>2, <1>3, <1>4, <1>5, BeginPlan

\* What resolution finds is evidence of the session asked for.
LEMMA ResolvedCitations ==
  ASSUME NEW s, NEW d \in Documents, Resolves(s, d)
  PROVE  /\ Citations(s, d) # {} /\ Citations(s, d) \subseteq evidence
         /\ \A e \in Citations(s, d) : SessionOf[e] = s
<1>1. PICK r \in d : TRUE
  BY ResolverAssumption
<1>2. PICK m \in Places(s, r) : TRUE
  BY DEF Resolves
<1>3. m[1] \in Citations(s, d)
  BY DEF Citations
<1>4. ASSUME NEW e \in Citations(s, d) PROVE e \in evidence /\ SessionOf[e] = s
  <2>1. PICK t \in d : \E x \in Places(s, t) : e = x[1]
    BY DEF Citations
  <2>2. PICK x \in Places(s, t) : e = x[1]
    BY <2>1
  <2>3. PICK v \in VisibleEvidence(s) : \E k \in Occurs[v][t.quote] : x = <<v, k>>
    BY <2>2 DEF Places, Matches
  <2>4. QED
    BY <2>2, <2>3 DEF VisibleEvidence
<1>5. QED
  BY <1>3, <1>4

LEMMA ImportCitations ==
  ASSUME NEW f, Bindable(f)
  PROVE  LET cites == {m[1] : m \in ImportPlaces(f)} IN
         /\ cites # {} /\ cites \subseteq evidence
         /\ \A e \in cites : SessionOf[e] = ClaimedSession[f]
         /\ ClaimedSession[f] \in visible
<1> DEFINE cites == {m[1] : m \in ImportPlaces(f)}
<1>1. PICK m \in ImportPlaces(f) : TRUE
  BY DEF Bindable
<1>2. ASSUME NEW e \in cites
      PROVE  e \in evidence /\ SessionOf[e] = ClaimedSession[f] /\ ClaimedSession[f] \in visible
  <2>1. PICK x \in ImportPlaces(f) : e = x[1]
    OBVIOUS
  <2>2. PICK v \in VisibleEvidence(ClaimedSession[f]) :
          \E k \in Occurs[v][StatementOf[f]] : x = <<v, k>>
    BY <2>1 DEF ImportPlaces, Matches
  <2>3. QED
    BY <2>1, <2>2 DEF VisibleEvidence
<1>3. m[1] \in cites
  BY <1>1
<1>4. QED
  BY <1>2, <1>3

LEMMA BeginWinddownPlan ==
  ASSUME TypeInv, KindInv, NEW s \in Sessions, NEW docs \in Batches(Documents),
         BeginWinddown(s, docs)
  PROVE  PlanInv'
<1>1. PICK n \in 1 .. MaxBatch : docs \in [1 .. n -> Documents]
  BY DEF Batches
<1>2. PICK ids \in [DOMAIN docs -> Free] :
        /\ Distinct(ids)
        /\ Begin("winddown",
             [i \in DOMAIN docs |->
                [target |-> NoId, new |-> ids[i], session |-> s,
                 cites |-> Citations(s, docs[i]), standing |-> "proposed"]])
  BY DEF BeginWinddown
<1> DEFINE items == [i \in 1 .. n |->
             [target |-> NoId, new |-> ids[i], session |-> s,
              cites |-> Citations(s, docs[i]), standing |-> "proposed"]]
<1>3. Begin("winddown", items) /\ ~inTx /\ DOMAIN docs = 1 .. n
  BY <1>1, <1>2 DEF BeginWinddown
<1>4. Len(items) = n /\ n \in Nat /\ n >= 1
  BY <1>1, StoreAssumption
<1>5. ASSUME NEW i \in 1 .. n
      PROVE  ItemShape("winddown", items[i]) /\ ItemSound("winddown", items[i])
  <2>1. ~Present(roots, ids[i])
    BY <1>2, <1>3 DEF Free
  <2>2. Resolves(s, docs[i]) /\ docs[i] \in Documents
    BY <1>1 DEF BeginWinddown
  <2>3. BoundProof(items[i])
    BY <2>2, ResolvedCitations DEF BoundProof
  <2>4. QED
    BY <2>1, <2>3 DEF ItemShape, ItemSound
<1>6. DistinctItems(items)
  BY <1>2, <1>3, <1>4 DEF DistinctItems, Distinct
<1> HIDE DEF items
<1>7. QED
  BY <1>3, <1>4, <1>5, <1>6, BeginPlan

LEMMA BeginTransitionPlan ==
  ASSUME TypeInv, LogInv, KindInv, NEW c \in Ids, NEW s \in {"accepted", "retired"},
         BeginTransition(c, s)
  PROVE  PlanInv'
<1> DEFINE item == [target |-> c, new |-> NoId, session |-> NoSession,
                    cites |-> {}, standing |-> s]
<1>1. Begin("transition", <<item>>) /\ ~inTx
  BY DEF BeginTransition
<1>2. /\ HasStanding(events, c, "retired") <=> IsRetired(events, c)
      /\ HasStanding(events, c, "accepted") <=> IsAccepted(events, c) /\ ~IsRetired(events, c)
      /\ HasStanding(events, c, "proposed")
           <=> EventsOf(events, c) # {} /\ AllProposed(events, c)
  BY StandingMeans DEF TypeInv, TypeOK, LogInv
<1>3. ~IsRetired(events, c) /\ (s = "accepted" => AllProposed(events, c))
  BY <1>2 DEF BeginTransition, IsRetired, AllProposed
<1>4. Present(roots, c)
  BY DEF BeginTransition, Authorized
<1>5. ItemShape("transition", item) /\ ItemSound("transition", item)
  BY <1>3, <1>4 DEF ItemShape, ItemSound
<1>6. QED
  BY <1>1, <1>5, BeginOnePlan

LEMMA BeginBindPlan ==
  ASSUME TypeInv, LogInv, KindInv, NEW f \in Files, NEW d \in Documents, BeginBind(f, d)
  PROVE  PlanInv'
<1>1. PICK a \in Free :
        Begin("bind",
          <<[target |-> f, new |-> a, session |-> BindSession(f),
             cites |-> Citations(BindSession(f), d), standing |-> "retired"]>>)
  BY DEF BeginBind
<1> DEFINE item == [target |-> f, new |-> a, session |-> BindSession(f),
             cites |-> Citations(BindSession(f), d), standing |-> "retired"]
<1>2. ~IsRetired(events, f)
  BY StandingMeans DEF TypeInv, TypeOK, LogInv, BeginBind
<1>3. Present(roots, f) /\ IsLegacy(roots[f]) /\ SessionFits(roots[f], item)
  BY DEF BeginBind, AuthorizedForBind, SessionFits, BindSession
<1>4. BoundProof(item) /\ ~Present(roots, a)
  BY <1>1, ResolvedCitations DEF BoundProof, BeginBind, Free
<1>5. ItemShape("bind", item) /\ ItemSound("bind", item)
  BY <1>2, <1>3, <1>4 DEF ItemShape, ItemSound
<1>6. Begin("bind", <<item>>) /\ ~inTx
  BY <1>1 DEF BeginBind
<1>7. QED
  BY <1>5, <1>6, BeginOnePlan

LEMMA BeginImportPlan ==
  ASSUME TypeInv, KindInv, NEW fs \in Batches(Files), Distinct(fs), BeginImport(fs)
  PROVE  PlanInv'
<1>1. PICK n \in 1 .. MaxBatch : fs \in [1 .. n -> Files]
  BY DEF Batches
<1> DEFINE item(ids, i) ==
      [target |-> fs[i], new |-> ids[i],
       session |-> IF ClaimedSession[fs[i]] \in visible
                   THEN ClaimedSession[fs[i]] ELSE NoSession,
       cites |-> {m[1] : m \in IF Bindable(fs[i]) THEN ImportPlaces(fs[i]) ELSE {}},
       standing |-> "retired"]
<1>2. PICK ids \in [DOMAIN fs -> Free \cup {NoId}] :
        /\ Distinct(ids)
        /\ \A i \in DOMAIN fs : ids[i] # NoId <=> Bindable(fs[i])
        /\ Begin("import", [i \in DOMAIN fs |-> item(ids, i)])
  BY DEF BeginImport
<1> DEFINE items == [i \in 1 .. n |-> item(ids, i)]
<1>3. Begin("import", items) /\ ~inTx /\ DOMAIN fs = 1 .. n
  BY <1>1, <1>2 DEF BeginImport
<1>4. Len(items) = n /\ n \in Nat /\ n >= 1
  BY <1>1, StoreAssumption
<1>5. ASSUME NEW i \in 1 .. n
      PROVE  ItemShape("import", items[i]) /\ ItemSound("import", items[i])
  <2>1. ~Present(roots, fs[i]) /\ fs[i] \in Files
    BY <1>1, <1>3 DEF BeginImport, AlreadyPresent
  <2>2. ASSUME ids[i] # NoId
        PROVE  ~Present(roots, ids[i]) /\ BoundProof(items[i])
    <3>1. Bindable(fs[i]) /\ ids[i] \in Free
      BY <1>2, <1>3, <2>2
    <3>2. /\ items[i].cites = {m[1] : m \in ImportPlaces(fs[i])}
          /\ items[i].session = IF ClaimedSession[fs[i]] \in visible
                                THEN ClaimedSession[fs[i]] ELSE NoSession
      BY <3>1
    <3>3. QED
      BY <3>1, <3>2, ImportCitations DEF BoundProof, Free
  <2>3. QED
    BY <2>1, <2>2 DEF ItemShape, ItemSound
<1>6. DistinctItems(items)
  <2>1. \A i, j \in 1 .. n : i # j => fs[i] # fs[j]
    <3>1. \A i \in 1 .. n : fs[i] \in Ids
      BY <1>1 DEF Ids
    <3>2. QED
      BY <1>3, <3>1, StoreAssumption DEF Distinct
  <2>2. QED
    BY <1>2, <1>3, <1>4, <2>1 DEF DistinctItems, Distinct
<1> HIDE DEF items
<1>7. QED
  BY <1>3, <1>4, <1>5, <1>6, BeginPlan

LEMMA SeedLegacyPlan == TypeInv /\ PlanInv /\ SeedLegacy => PlanInv'
<1> SUFFICES ASSUME TypeInv, PlanInv, SeedLegacy PROVE PlanInv'
  OBVIOUS
<1>1. /\ op = "import" /\ inTx /\ pos \in Items /\ stage = "seed"
      /\ UNCHANGED <<evidence, roots, events, inTx, op, plan, pos, wevents>>
      /\ stage' = "seeded"
  BY DEF TypeInv, TypeOK, PlanOK, SeedLegacy, InStage, ToStage, Ops, Items
<1>2. \A c : RowWritten(c) => RowWritten(c)'
  BY <1>1, ToStageReaches DEF SeedLegacy
<1>3. \A e : EventWritten(e) => EventWritten(e)'
  BY <1>1, ToStageReaches DEF SeedLegacy
<1>4. RowWritten(Current.target)'
  BY <1>1 DEF RowWritten, Reached, Items, Current
<1>5. ASSUME NEW c \in Ids PROVE wroots'[c] = wroots[c] \/ RowWritten(c)'
  <2>1. CASE c = Current.target
    BY <1>1, <2>1 DEF RowWritten, Reached, Items, Current
  <2>2. CASE c # Current.target
    BY <2>2 DEF SeedLegacy, TypeInv, TypeOK, RootsOK
  <2>3. QED
    BY <2>1, <2>2
<1>6. QED
  BY <1>1, <1>2, <1>3, <1>5, WritePlan

LEMMA InsertBoundPlan == TypeInv /\ PlanInv /\ InsertBound => PlanInv'
<1> SUFFICES ASSUME TypeInv, PlanInv, InsertBound PROVE PlanInv'
  OBVIOUS
<1>1. /\ inTx /\ pos \in Items /\ stage = "assert"
      /\ UNCHANGED <<evidence, roots, events, inTx, op, plan, pos, wevents>>
      /\ stage' = "bound"
  BY DEF TypeInv, TypeOK, InsertBound, InStage, ToStage, Items
<1>2. \A c : RowWritten(c) => RowWritten(c)'
  BY <1>1, ToStageReaches DEF InsertBound
<1>3. \A e : EventWritten(e) => EventWritten(e)'
  BY <1>1, ToStageReaches DEF InsertBound
<1>4. ASSUME NEW c \in Ids PROVE wroots'[c] = wroots[c] \/ RowWritten(c)'
  <2>1. CASE c = Current.new
    BY <1>1, <2>1 DEF RowWritten, Reached, Items, Current
  <2>2. CASE c # Current.new
    BY <2>2 DEF InsertBound, TypeInv, TypeOK, RootsOK
  <2>3. QED
    BY <2>1, <2>2
<1>5. QED
  BY <1>1, <1>2, <1>3, <1>4, WritePlan

LEMMA SeedEventPlan == TypeInv /\ PlanInv /\ SeedEvent => PlanInv'
<1> SUFFICES ASSUME TypeInv, PlanInv, SeedEvent PROVE PlanInv'
  OBVIOUS
<1>1. (NextItem \/ ToStage("assert")) /\ UNCHANGED wroots
  BY DEF SeedEvent
<1>2. /\ op = "import" /\ inTx /\ pos \in Items /\ stage = "seeded" /\ pos \in Nat
      /\ UNCHANGED <<evidence, roots, events, inTx, op, plan, wroots>>
  <2>1. InStage("seeded") /\ op = "import" /\ pos \in Nat \ {0}
    BY DEF TypeInv, TypeOK, PlanOK, SeedEvent, InStage, Ops
  <2>2. UNCHANGED <<evidence, roots, events, inTx, op, plan, wroots>>
    BY <1>1 DEF ToStage, NextItem
  <2>3. QED
    BY <2>1, <2>2 DEF InStage, Items, TypeInv, TypeOK
<1>3. /\ \A c : RowWritten(c) => RowWritten(c)'
      /\ \A e : EventWritten(e) => EventWritten(e)'
  BY <1>1, <1>2, ToStageReaches, NextItemReaches
<1>4. PICK n : /\ wevents' = wevents \cup {n}
               /\ n.concept = Current.target /\ n.standing = "proposed"
  BY AppendAdds DEF SeedEvent, AppendInitial
<1>5. EventWritten(n)'
  BY <1>1, <1>2, <1>4 DEF EventWritten, Reached, Items, Current, NextItem, ToStage
<1>6. QED
  BY <1>2, <1>3, <1>4, <1>5, WritePlan

LEMMA BoundEventPlan == TypeInv /\ PlanInv /\ BoundEvent => PlanInv'
<1> SUFFICES ASSUME TypeInv, PlanInv, BoundEvent PROVE PlanInv'
  OBVIOUS
<1>1. (NextItem \/ ToStage("supersede")) /\ UNCHANGED wroots
  BY DEF BoundEvent
<1>2. /\ inTx /\ pos \in Items /\ stage = "bound" /\ pos \in Nat
      /\ UNCHANGED <<evidence, roots, events, inTx, op, plan, wroots>>
  <2>1. InStage("bound") /\ pos \in Nat \ {0}
    BY DEF TypeInv, TypeOK, BoundEvent, InStage
  <2>2. UNCHANGED <<evidence, roots, events, inTx, op, plan, wroots>>
    BY <1>1 DEF ToStage, NextItem
  <2>3. QED
    BY <2>1, <2>2 DEF InStage, Items, TypeInv, TypeOK
<1>3. /\ \A c : RowWritten(c) => RowWritten(c)'
      /\ \A e : EventWritten(e) => EventWritten(e)'
  BY <1>1, <1>2, ToStageReaches, NextItemReaches
<1>4. PICK n : /\ wevents' = wevents \cup {n}
               /\ n.concept = Current.new /\ n.standing = "proposed"
  BY AppendAdds DEF BoundEvent, AppendInitial
<1>5. EventWritten(n)'
  BY <1>1, <1>2, <1>4 DEF EventWritten, Reached, Items, Current, NextItem, ToStage
<1>6. QED
  BY <1>2, <1>3, <1>4, <1>5, WritePlan

LEMMA LaterEventPlan ==
  TypeInv /\ PlanInv /\ (SupersedeEvent \/ TransitionEvent) => PlanInv'
<1> SUFFICES ASSUME TypeInv, PlanInv, SupersedeEvent \/ TransitionEvent PROVE PlanInv'
  OBVIOUS
<1>1. /\ inTx /\ pos \in Items /\ pos \in Nat /\ NextItem
      /\ UNCHANGED <<evidence, roots, events, inTx, op, plan, wroots>>
  BY DEF TypeInv, TypeOK, SupersedeEvent, TransitionEvent, InStage, NextItem, Items
<1>2. /\ \A c : RowWritten(c) => RowWritten(c)'
      /\ \A e : EventWritten(e) => EventWritten(e)'
  BY <1>1, NextItemReaches
<1>3. PICK n : wevents' = wevents \cup {n} /\ n.concept = Current.target
  BY AppendAdds DEF SupersedeEvent, TransitionEvent, AppendNext
<1>4. EventWritten(n)'
  BY <1>1, <1>3 DEF EventWritten, Reached, Items, Current, NextItem
<1>5. QED
  BY <1>1, <1>2, <1>3, <1>4, WritePlan

LEMMA NextPlan == TypeInv /\ LogInv /\ KindInv /\ PlanInv /\ [Next]_vars => PlanInv'
<1> SUFFICES ASSUME TypeInv, LogInv, KindInv, PlanInv, [Next]_vars PROVE PlanInv'
  OBVIOUS
<1>1. CASE BeginAny
  BY <1>1, BeginWinddownPlan, BeginTransitionPlan, BeginBindPlan, BeginImportPlan
     DEF BeginAny
<1>2. CASE Write
  BY <1>2, SeedLegacyPlan, SeedEventPlan, InsertBoundPlan, BoundEventPlan, LaterEventPlan
     DEF Write
<1>3. CASE Commit \/ Rollback
  <2>1. inTx' = FALSE /\ op' = "winddown" /\ plan' = <<>>
    BY <1>3 DEF Commit, Rollback, Close
  <2>2. QED
    BY <2>1 DEF PlanInv, PlanSound, Items, DistinctItems
<1>4. CASE External
  <2>1. ~inTx /\ UNCHANGED <<inTx, op, plan>>
    BY <1>4 DEF External, Capture, ForgetSession, ChangeVisibility, ForgetEvidence,
       PeerEvent, Idle
  <2>2. QED
    BY <2>1 DEF PlanInv, PlanSound, Items, DistinctItems, ItemShape
<1>5. CASE UNCHANGED vars
  <2>1. UNCHANGED <<evidence, roots, events, wroots, wevents, inTx, op, plan, pos, stage>>
    BY <1>5 DEF vars
  <2>2. PlanSound'
    BY <2>1 DEF PlanInv, PlanSound, Items, ItemSound, BoundProof, Present, SessionFits,
       ItemShape, DistinctItems, IsRetired, AllProposed
  <2>3. inTx' => Frame'
    BY <2>1 DEF PlanInv, Frame, RowWritten, EventWritten, Reached, Items
  <2>4. QED
    BY <2>2, <2>3 DEF PlanInv
<1>6. QED
  BY <1>1, <1>2, <1>3, <1>4, <1>5 DEF Next

LEMMA InitPlan == Init => PlanInv
BY DEF Init, PlanInv, PlanSound, Items, DistinctItems

StoreInv == TypeInv /\ LogInv /\ KindInv /\ PlanInv

LEMMA StoreInvariance == Spec => []StoreInv
<1>1. Init => StoreInv
  BY InitType, InitLog, InitKind, InitPlan DEF StoreInv
<1>2. StoreInv /\ [Next]_vars => StoreInv'
  BY NextType, NextLog, NextKind, NextPlan DEF StoreInv
<1>3. QED
  BY <1>1, <1>2, PTL DEF Spec
-----------------------------------------------------------------------------
(* The causal log.  A transaction appends only to concepts whose current   *)
(* event is one its checks found, or the initial one it wrote itself; all  *)
(* later than every event it can see.                                      *)

\* The concept an item moves on is not retired, whatever was written before.
LEMMA TargetLive ==
  ASSUME StoreInv, inTx, pos \in Items, op # "winddown"
  PROVE  /\ ~IsRetired(wevents, Current.target)
         /\ op = "transition" /\ Current.standing = "accepted"
              => AllProposed(wevents, Current.target)
<1>1. Current.target \in Ids /\ Current.target # NoId /\ Current = plan[pos]
  BY StoreAssumption
     DEF StoreInv, TypeInv, TypeOK, PlanOK, Items, Current, NeedsTarget, Ops
<1>2. ItemSound(op, Current)
  BY <1>1 DEF StoreInv, PlanInv, PlanSound
<1>3. ASSUME NEW e \in EventsOf(wevents, Current.target)
      PROVE  e.standing = "proposed" \/ e \in EventsOf(events, Current.target)
  <2>1. e \in events \/ EventWritten(e)
    BY DEF EventsOf, StoreInv, PlanInv, Frame
  <2>2. CASE e \in events
    BY <2>2 DEF EventsOf
  <2>3. CASE EventWritten(e) /\ e.standing # "proposed"
    <3>1. PICK i \in Items : e.concept = plan[i].target /\ i < pos
      BY <2>3 DEF EventWritten
    <3>2. plan[i].target = plan[pos].target /\ i # pos
      BY <1>1, <3>1 DEF EventsOf, Items, StoreInv, TypeInv, TypeOK
    <3>3. QED
      BY <1>1, <3>2 DEF StoreInv, PlanInv, PlanSound, DistinctItems, Items
  <2>4. QED
    BY <2>1, <2>2, <2>3
<1>4. op = "import" => EventsOf(events, Current.target) = {}
  BY <1>1, <1>2 DEF ItemSound, StoreInv, KindInv, KindOK, EventsOf
<1>5. QED
  BY <1>2, <1>3, <1>4
     DEF ItemSound, IsRetired, AllProposed, StoreInv, TypeInv, TypeOK, Ops, EventsOf

Moves == {<<"proposed", "accepted">>, <<"proposed", "retired">>, <<"accepted", "retired">>}

LEMMA AppendInitialCausal ==
  ASSUME StoreInv, CausalIn(wevents), NEW c, AppendInitial(c)
  PROVE  CausalIn(wevents')
<1>1. PICK n : wevents' = wevents \cup {n} /\ n.parent = NoParent /\ n.standing = "proposed"
  BY AppendAdds DEF AppendInitial, StoreInv
<1>2. QED
  BY <1>1 DEF CausalIn

LEMMA AppendNextCausal ==
  ASSUME StoreInv, CausalIn(wevents), NEW c, NEW s, AppendNext(c, s),
         ~IsRetired(wevents, c),
         s = "retired" \/ (s = "accepted" /\ AllProposed(wevents, c))
  PROVE  CausalIn(wevents')
<1>1. PICK e \in wevents : IsCurrent(wevents, c, e) /\ AppendEvent(c, s, IdentityOf(e))
  BY DEF AppendNext
<1>2. PICK n : /\ wevents' = wevents \cup {n} /\ e.time < n.time
               /\ n.concept = c /\ n.standing = s /\ n.parent = IdentityOf(e)
  BY <1>1, AppendAdds DEF StoreInv
<1>3. e \in EventsOf(wevents, c) /\ e.concept = c /\ e.standing \in Standing
  BY <1>1 DEF IsCurrent, EventsOf, StoreInv, TypeInv, TypeOK, Event
<1>4. <<e.standing, n.standing>> \in Moves
  BY <1>2, <1>3 DEF IsRetired, AllProposed, Standing, Moves
<1>5. QED
  BY <1>2, <1>3, <1>4 DEF CausalIn, Moves

LEMMA CascadeCausal ==
  ASSUME CausalIn(events), NEW gone, Cascade(gone)
  PROVE  CausalIn(events') /\ wevents' = events'
<1>1. events' = {e \in events : e.concept \notin gone} /\ wevents' = events'
  BY DEF Cascade
<1>2. CausalIn(events')
  <2>1. SUFFICES ASSUME NEW e \in events',
                        ~ (e.parent = NoParent /\ e.standing = "proposed")
                 PROVE  \E p \in events' :
                          /\ IdentityOf(p) = e.parent /\ p.concept = e.concept
                          /\ p.time < e.time /\ <<p.standing, e.standing>> \in Moves
    BY DEF CausalIn, Moves
  <2>2. PICK p \in events :
          /\ IdentityOf(p) = e.parent /\ p.concept = e.concept
          /\ p.time < e.time /\ <<p.standing, e.standing>> \in Moves
    BY <1>1, <2>1 DEF CausalIn, Moves
  <2>3. p \in events'
    BY <1>1, <2>2
  <2>4. QED
    BY <2>2, <2>3
<1>3. QED
  BY <1>1, <1>2

LEMMA PeerCausal ==
  ASSUME StoreInv, CausalIn(events), NEW p \in Peers, NEW seq \in 1 .. MaxPeerSeq,
         NEW e \in events, NEW s \in Standing, PeerEvent(p, seq, e, s)
  PROVE  CausalIn(events') /\ wevents' = events'
<1>1. PICK n : /\ events' = events \cup {n} /\ n.parent = IdentityOf(e)
               /\ n.concept = e.concept /\ n.standing = s /\ e.time < n.time
  BY PeerAdds DEF StoreInv
<1>2. <<e.standing, n.standing>> \in Moves
  BY <1>1 DEF PeerEvent, Moves
<1>3. CausalIn(events')
  BY <1>1, <1>2 DEF CausalIn, Moves
<1>4. QED
  BY <1>3 DEF PeerEvent

LEMMA NextCausal == StoreInv /\ CausalLog /\ [Next]_vars => CausalLog'
<1> SUFFICES ASSUME StoreInv, CausalIn(events), CausalIn(wevents), [Next]_vars
             PROVE  CausalIn(events') /\ CausalIn(wevents')
  BY DEF CausalLog, CausalIn
<1>1. CASE BeginAny
  BY <1>1 DEF BeginAny, BeginWinddown, BeginTransition, BeginBind, BeginImport, Begin
<1>2. CASE Write
  <2>1. inTx /\ pos \in Items /\ UNCHANGED events
    <3>1. \E st \in Stages : InStage(st)
      BY <1>2 DEF Write, SeedLegacy, SeedEvent, InsertBound, BoundEvent, SupersedeEvent,
         TransitionEvent, Stages
    <3>2. UNCHANGED events
      BY <1>2 DEF Write, SeedLegacy, SeedEvent, InsertBound, BoundEvent, SupersedeEvent,
         TransitionEvent, ToStage, NextItem
    <3>3. QED
      BY <3>1, <3>2 DEF InStage, Items, StoreInv, TypeInv, TypeOK
  <2>2. CASE SeedLegacy \/ InsertBound
    BY <2>1, <2>2 DEF SeedLegacy, InsertBound
  <2>3. CASE SeedEvent \/ BoundEvent
    BY <2>1, <2>3, AppendInitialCausal DEF SeedEvent, BoundEvent
  <2>4. CASE SupersedeEvent
    <3>1. op # "winddown"
      BY <2>4 DEF SupersedeEvent, InStage, StoreInv, TypeInv, PlanOK
    <3>2. QED
      BY <2>1, <2>4, <3>1, TargetLive, AppendNextCausal DEF SupersedeEvent
  <2>5. CASE TransitionEvent
    <3>1. op = "transition"
      BY <2>5 DEF TransitionEvent, InStage, StoreInv, TypeInv, TypeOK, PlanOK, Ops
    <3>2. Current.standing \in {"accepted", "retired"}
      BY <2>1, <3>1 DEF Current, StoreInv, PlanInv, PlanSound, ItemShape
    <3>3. QED
      BY <2>1, <2>5, <3>1, <3>2, TargetLive, AppendNextCausal DEF TransitionEvent
  <2>6. QED
    BY <1>2, <2>2, <2>3, <2>4, <2>5 DEF Write
<1>3. CASE Commit \/ Rollback
  BY <1>3 DEF Commit, Publish, work, Rollback
<1>4. CASE External
  <2>1. CASE (\E s \in Sessions : Capture(s)) \/ ChangeVisibility
    BY <2>1 DEF Capture, ChangeVisibility
  <2>2. CASE \E s \in Sessions : ForgetSession(s)
    BY <2>2, CascadeCausal DEF ForgetSession
  <2>3. CASE \E e \in Evidence : ForgetEvidence(e)
    BY <2>3, CascadeCausal DEF ForgetEvidence
  <2>4. CASE \E p \in Peers, seq \in 1 .. MaxPeerSeq, e \in events, s \in Standing :
               PeerEvent(p, seq, e, s)
    BY <2>4, PeerCausal
  <2>5. QED
    BY <1>4, <2>1, <2>2, <2>3, <2>4 DEF External
<1>5. CASE UNCHANGED vars
  BY <1>5 DEF vars
<1>6. QED
  BY <1>1, <1>2, <1>3, <1>4, <1>5 DEF Next

\* The log is causal however transactions, replicas and forgetting interleave: the
\* parent of an event is never gone while the event is there, precedes it in time,
\* and stands where the event may move on from.
THEOREM LogIsCausal == Spec => []CausalLog
<1>1. Init => CausalLog
  BY DEF Init, CausalLog, CausalIn
<1>2. StoreInv /\ CausalLog /\ [Next]_vars => CausalLog'
  BY NextCausal
<1>3. QED
  BY <1>1, <1>2, StoreInvariance, PTL DEF Spec

\* The committed log only grows, but for the events of roots that go.
LEMMA EventsStay ==
  StoreInv /\ Next => \A e \in events : e \in events' \/ roots'[e.concept] = NoRoot
<1> SUFFICES ASSUME StoreInv, Next, NEW e \in events
             PROVE  e \in events' \/ roots'[e.concept] = NoRoot
  OBVIOUS
<1>1. ASSUME NEW gone, Cascade(gone) PROVE e \in events' \/ roots'[e.concept] = NoRoot
  <2>1. e.concept \in Ids
    BY DEF StoreInv, TypeInv, TypeOK, Event
  <2>2. QED
    BY <1>1, <2>1 DEF Cascade
<1>2. CASE Commit
  BY <1>2 DEF Commit, Publish, StoreInv, PlanInv, Frame
<1>3. CASE BeginAny \/ Write \/ Rollback
  BY <1>3 DEF BeginAny, BeginWinddown, BeginTransition, BeginBind, BeginImport, Begin,
     Write, SeedLegacy, SeedEvent, InsertBound, BoundEvent, SupersedeEvent,
     TransitionEvent, ToStage, NextItem, Rollback
<1>4. CASE External
  BY <1>1, <1>4 DEF External, Capture, ForgetSession, ChangeVisibility, ForgetEvidence,
     PeerEvent
<1>5. QED
  BY <1>2, <1>3, <1>4 DEF Next

LEMMA RetiredStays ==
  StoreInv /\ StoreInv' /\ [Next]_vars
    => [\A c \in Ids :
          /\ HasStanding(events, c, "retired") /\ roots[c] # NoRoot
          /\ roots'[c] # NoRoot
          => HasStanding(events', c, "retired")]_vars
<1> SUFFICES ASSUME StoreInv, StoreInv', Next, NEW c \in Ids,
                    HasStanding(events, c, "retired"), roots'[c] # NoRoot
             PROVE  HasStanding(events', c, "retired")
  OBVIOUS
<1>1. PICK e \in EventsOf(events, c) : e.standing = "retired"
  BY StandingMeans DEF StoreInv, TypeInv, TypeOK, LogInv, IsRetired
<1>2. e \in EventsOf(events', c)
  BY <1>1, EventsStay DEF EventsOf
<1>3. events' \in SUBSET Event /\ UniqueIn(events')
  BY DEF StoreInv, TypeInv, TypeOK, LogInv, UniqueIn
<1>4. QED
  BY <1>1, <1>2, <1>3, StandingMeans DEF IsRetired

\* A retired root that is still there stays retired, whatever any replica appended
\* at whatever logical time.
THEOREM RetirementIsFinal == Spec => RetiredIsFinal
BY RetiredStays, StoreInvariance, PTL DEF Spec, RetiredIsFinal
-----------------------------------------------------------------------------
(* Roots and their initial events.  An operation writes the initial event  *)
(* of a root it has just inserted, which no event can mention yet.         *)

\* What holds of the item at hand at any stage.
LEMMA CurrentItem ==
  ASSUME StoreInv, NEW st, InStage(st)
  PROVE  /\ inTx /\ stage = st /\ pos \in Items /\ Current = plan[pos] /\ Current \in Item
         /\ ItemShape(op, Current) /\ ItemSound(op, Current)
         /\ \A i \in Items : i # pos =>
              /\ plan[i].new = Current.new => Current.new = NoId
              /\ plan[i].target = Current.target => Current.target = NoId
<1>1. /\ inTx /\ stage = st /\ pos \in Items /\ Current = plan[pos] /\ Current \in Item
  BY DEF InStage, Items, Current, StoreInv, TypeInv, TypeOK
<1>2. ItemShape(op, Current) /\ ItemSound(op, Current) /\ DistinctItems(plan)
  BY <1>1 DEF StoreInv, PlanInv, PlanSound
<1>3. QED
  BY <1>1, <1>2 DEF DistinctItems, Items

LEMMA SeededFresh ==
  ASSUME StoreInv, InStage("seeded")
  PROVE  EventsOf(wevents, Current.target) = {} /\ Current.target \in Files /\ op = "import"
<1>1. op = "import" /\ Current.target \in Files /\ Current.target \notin Assertions \cup {NoId}
  <2>1. op = "import"
    BY DEF InStage, StoreInv, TypeInv, TypeOK, PlanOK, Ops
  <2>2. QED
    BY <2>1, CurrentItem, StoreAssumption DEF ItemShape, Ids
<1>2. SUFFICES ASSUME NEW e \in EventsOf(wevents, Current.target) PROVE FALSE
  BY <1>1
<1>3. ~Present(roots, Current.target) /\ e.concept = Current.target
  BY <1>1, CurrentItem DEF ItemSound, EventsOf
<1>4. CASE e \in events
  BY <1>3, <1>4 DEF StoreInv, KindInv, KindOK
<1>5. CASE EventWritten(e)
  <2>1. PICK i \in Items :
          \/ e.concept = plan[i].new
          \/ e.concept = plan[i].target /\ (i < pos \/ Reached(i, {"assert", "bound", "supersede"}))
    BY <1>5 DEF EventWritten
  <2>2. plan[i].new \in Assertions \cup {NoId}
    <3>1. plan[i] \in Item
      BY DEF StoreInv, TypeInv, TypeOK, Items
    <3>2. QED
      BY <3>1 DEF Item
  <2>3. plan[i].target = Current.target /\ i # pos
    BY <1>1, <1>3, <2>1, <2>2, CurrentItem DEF Reached, StoreInv, TypeInv, TypeOK, Items
  <2>4. QED
    BY <1>1, <2>3, CurrentItem
<1>6. QED
  BY <1>4, <1>5 DEF EventsOf, StoreInv, PlanInv, Frame, InStage

LEMMA BoundFresh ==
  ASSUME StoreInv, InStage("bound")
  PROVE  EventsOf(wevents, Current.new) = {} /\ Current.new \in Assertions
<1>1. Current.new \in Assertions /\ Current.new \notin Files \cup {NoId} /\ op # "transition"
  <2>1. op # "transition" /\ Current.new \in Assertions
    BY CurrentItem
       DEF InStage, StoreInv, TypeInv, TypeOK, PlanOK, Ops, NeedsNew, Current, Items
  <2>2. QED
    BY <2>1, StoreAssumption DEF Ids
<1>2. SUFFICES ASSUME NEW e \in EventsOf(wevents, Current.new) PROVE FALSE
  BY <1>1
<1>3. ~Present(roots, Current.new) /\ e.concept = Current.new
  BY <1>1, CurrentItem DEF ItemSound, EventsOf
<1>4. CASE e \in events
  BY <1>3, <1>4 DEF StoreInv, KindInv, KindOK
<1>5. CASE EventWritten(e)
  <2>1. PICK i \in Items :
          \/ e.concept = plan[i].new /\ Reached(i, {"supersede"})
          \/ e.concept = plan[i].target
    BY <1>5 DEF EventWritten
  <2>2. plan[i].target \in Files \cup {NoId}
    BY <1>1 DEF StoreInv, TypeInv, TypeOK, PlanInv, PlanSound, ItemShape, Ops
  <2>3. plan[i].new = Current.new /\ i # pos
    BY <1>1, <1>3, <2>1, <2>2, CurrentItem DEF Reached, StoreInv, TypeInv, TypeOK, Items
  <2>4. QED
    BY <1>1, <2>3, CurrentItem
<1>6. QED
  BY <1>4, <1>5 DEF EventsOf, StoreInv, PlanInv, Frame, InStage

InitialOnce(evs) ==
  \A e, f \in evs : e.parent = NoParent /\ f.parent = NoParent
                    /\ e.concept = f.concept => e = f

RootInv ==
  /\ InitialOnce(events) /\ InitialOnce(wevents)
  /\ \A c \in Ids : Present(roots, c) =>
       \E e \in events : e.concept = c /\ e.parent = NoParent

LEMMA AppendInitialOnce ==
  ASSUME StoreInv, InitialOnce(wevents), NEW c, AppendInitial(c), EventsOf(wevents, c) = {}
  PROVE  InitialOnce(wevents')
<1>1. PICK n : wevents' = wevents \cup {n} /\ n.concept = c
  BY AppendAdds DEF AppendInitial, StoreInv
<1>2. \A e \in wevents : e.concept # c
  BY DEF EventsOf
<1>3. QED
  BY <1>1, <1>2 DEF InitialOnce

LEMMA AppendNextOnce ==
  ASSUME StoreInv, InitialOnce(wevents), NEW c, NEW s, AppendNext(c, s)
  PROVE  InitialOnce(wevents')
<1>1. PICK e \in wevents : AppendEvent(c, s, IdentityOf(e))
  BY DEF AppendNext
<1>2. PICK n : wevents' = wevents \cup {n} /\ n.parent = IdentityOf(e)
  BY <1>1, AppendAdds DEF StoreInv
<1>3. n.parent # NoParent
  <2>1. IdentityOf(e) \in Identity
    BY DEF StoreInv, TypeInv, TypeOK, Event, IdentityOf, Identity
  <2>2. QED
    BY <1>2, <2>1, StoreAssumption
<1>4. QED
  BY <1>2, <1>3 DEF InitialOnce

LEMMA CascadeRoots ==
  ASSUME StoreInv, RootInv, NEW gone \in SUBSET Ids, Cascade(gone)
  PROVE  RootInv'
<1>1. /\ events' = {e \in events : e.concept \notin gone} /\ wevents' = events'
      /\ \A c \in Ids : roots'[c] = IF c \in gone THEN NoRoot ELSE roots[c]
  BY DEF Cascade
<1>2. InitialOnce(events') /\ InitialOnce(wevents')
  BY <1>1 DEF RootInv, InitialOnce
<1>3. QED
  BY <1>1, <1>2 DEF RootInv, InitialOnce, Present

LEMMA PeerRoots ==
  ASSUME StoreInv, RootInv, NEW p \in Peers, NEW seq \in 1 .. MaxPeerSeq,
         NEW e \in events, NEW s \in Standing, PeerEvent(p, seq, e, s)
  PROVE  RootInv'
<1>1. PICK n : events' = events \cup {n} /\ n.parent = IdentityOf(e)
  BY PeerAdds DEF StoreInv
<1>2. IdentityOf(e) # NoParent
  <2>1. IdentityOf(e) \in Identity
    BY DEF StoreInv, TypeInv, TypeOK, Event, IdentityOf, Identity
  <2>2. QED
    BY <2>1, StoreAssumption
<1>3. wevents' = events' /\ UNCHANGED roots
  BY DEF PeerEvent
<1>4. QED
  BY <1>1, <1>2, <1>3 DEF RootInv, InitialOnce, Present

LEMMA NextRoots == StoreInv /\ RootInv /\ [Next]_vars => RootInv'
<1> SUFFICES ASSUME StoreInv, RootInv, [Next]_vars PROVE RootInv'
  OBVIOUS
<1>1. CASE BeginAny
  BY <1>1 DEF BeginAny, BeginWinddown, BeginTransition, BeginBind, BeginImport, Begin,
     RootInv, InitialOnce, Present
<1>2. CASE Write
  <2>1. UNCHANGED <<events, roots>>
    BY <1>2 DEF Write, SeedLegacy, SeedEvent, InsertBound, BoundEvent, SupersedeEvent,
       TransitionEvent, ToStage, NextItem
  <2>2. InitialOnce(wevents')
    <3>1. CASE SeedLegacy \/ InsertBound
      BY <3>1 DEF SeedLegacy, InsertBound, RootInv
    <3>2. CASE SeedEvent
      BY <3>2, SeededFresh, AppendInitialOnce DEF SeedEvent, RootInv
    <3>3. CASE BoundEvent
      BY <3>3, BoundFresh, AppendInitialOnce DEF BoundEvent, RootInv
    <3>4. CASE SupersedeEvent \/ TransitionEvent
      BY <3>4, AppendNextOnce DEF SupersedeEvent, TransitionEvent, RootInv
    <3>5. QED
      BY <1>2, <3>1, <3>2, <3>3, <3>4 DEF Write
  <2>3. QED
    BY <2>1, <2>2 DEF RootInv, InitialOnce, Present
<1>3. CASE Commit
  BY <1>3 DEF Commit, Publish, work, RootInv, InitialOnce, Present
<1>4. CASE Rollback
  BY <1>4 DEF Rollback, RootInv, InitialOnce, Present
<1>5. CASE External
  <2>1. CASE (\E s \in Sessions : Capture(s)) \/ ChangeVisibility
    BY <2>1 DEF Capture, ChangeVisibility, RootInv, InitialOnce, Present
  <2>2. CASE \E s \in Sessions : ForgetSession(s)
    BY <2>2, CascadeRoots DEF ForgetSession
  <2>3. CASE \E e \in Evidence : ForgetEvidence(e)
    BY <2>3, CascadeRoots DEF ForgetEvidence
  <2>4. CASE \E p \in Peers, seq \in 1 .. MaxPeerSeq, e \in events, s \in Standing :
               PeerEvent(p, seq, e, s)
    BY <2>4, PeerRoots
  <2>5. QED
    BY <1>5, <2>1, <2>2, <2>3, <2>4 DEF External
<1>6. CASE UNCHANGED vars
  BY <1>6 DEF vars, RootInv, InitialOnce, Present
<1>7. QED
  BY <1>1, <1>2, <1>3, <1>4, <1>5, <1>6 DEF Next

LEMMA InitRoots == Init => RootInv
BY DEF Init, RootInv, InitialOnce, Present

\* Every root there is has its one initial event, and every event its root: the log
\* and the roots never come apart, however sessions are forgotten.
THEOREM RootsKeepHistories == Spec => []RootsHaveHistories
<1>1. StoreInv /\ RootInv /\ [Next]_vars => RootInv'
  BY NextRoots
<1>2. StoreInv /\ RootInv => RootsHaveHistories
  <2> SUFFICES ASSUME StoreInv, RootInv PROVE RootsHaveHistories
    OBVIOUS
  <2>1. \A e \in events : Present(roots, e.concept)
    BY DEF StoreInv, KindInv, KindOK
  <2>2. QED
    BY <2>1 DEF RootInv, InitialOnce, RootsHaveHistories, EventsOf
<1>3. QED
  BY <1>1, <1>2, InitRoots, StoreInvariance, PTL DEF Spec
-----------------------------------------------------------------------------
(* Citations.  A root is inserted with evidence of its own session, and    *)
(* the cascades take every root that cites what is forgotten.              *)

CitesOK(rts) ==
  \A c \in Ids : Present(rts, c) =>
    IF IsLegacy(rts[c]) THEN rts[c].cites = {} /\ rts[c].supersedes = NoId
    ELSE /\ rts[c].cites # {} /\ rts[c].cites \subseteq evidence
         /\ \A e \in rts[c].cites : SessionOf[e] = rts[c].session

CiteInv == CitesOK(roots) /\ CitesOK(wroots)

\* The row each insert writes; the other rows stay.
LEMMA SeededRow ==
  ASSUME StoreInv, SeedLegacy
  PROVE  /\ Current.target \in Files /\ Current.target \in Ids
         /\ wroots'[Current.target] # NoRoot /\ IsLegacy(wroots'[Current.target])
         /\ wroots'[Current.target].cites = {}
         /\ wroots'[Current.target].supersedes = NoId
         /\ wroots'[Current.target].session = Current.session
         /\ \A c \in Ids : c # Current.target => wroots'[c] = wroots[c]
<1>1. op = "import"
  BY DEF SeedLegacy, InStage, StoreInv, TypeInv, TypeOK, PlanOK, Ops
<1>2. Current \in Item /\ Current.target \in Files /\ Current.target \in Ids
  BY <1>1, CurrentItem DEF SeedLegacy, ItemShape, Ids
<1> DEFINE r == [origin |-> "legacy-okf", session |-> Current.session, cites |-> {},
                 supersedes |-> NoId]
<1>3. r # NoRoot /\ IsLegacy(r) /\ r.cites = {} /\ r.supersedes = NoId
      /\ r.session = Current.session
  <2>1. r \in Root
    BY <1>2 DEF Root, Item
  <2>2. QED
    BY <2>1, NoRootAssumption DEF IsLegacy
<1>4. wroots' = [wroots EXCEPT ![Current.target] = r]
  BY DEF SeedLegacy
<1>5. wroots'[Current.target] = r
      /\ \A c \in Ids : c # Current.target => wroots'[c] = wroots[c]
  BY <1>2, <1>4 DEF StoreInv, TypeInv, TypeOK, RootsOK
<1> HIDE DEF r
<1>6. QED
  BY <1>2, <1>3, <1>5

LEMMA InsertedRow ==
  ASSUME StoreInv, InsertBound
  PROVE  /\ Current.new \in Assertions /\ Current.new \in Ids
         /\ wroots'[Current.new] # NoRoot /\ ~IsLegacy(wroots'[Current.new])
         /\ wroots'[Current.new].cites = Current.cites
         /\ wroots'[Current.new].supersedes = Current.target
         /\ wroots'[Current.new].session = Current.session
         /\ \A c \in Ids : c # Current.new => wroots'[c] = wroots[c]
<1>1. Current \in Item /\ Current.new \in Assertions /\ Current.new \in Ids
  BY CurrentItem
     DEF InsertBound, InStage, StoreInv, TypeInv, TypeOK, PlanOK, Ops, NeedsNew, Current,
         Items, Ids
<1> DEFINE r == [origin |-> IF op = "winddown" THEN "winddown" ELSE "legacy-bind",
                 session |-> Current.session, cites |-> Current.cites,
                 supersedes |-> Current.target]
<1>2. r # NoRoot /\ ~IsLegacy(r) /\ r.cites = Current.cites
      /\ r.supersedes = Current.target /\ r.session = Current.session
  <2>1. r \in Root
    BY <1>1 DEF Root, Item
  <2>2. QED
    BY <2>1, NoRootAssumption DEF IsLegacy
<1>3. wroots' = [wroots EXCEPT ![Current.new] = r]
  BY DEF InsertBound
<1>4. wroots'[Current.new] = r
      /\ \A c \in Ids : c # Current.new => wroots'[c] = wroots[c]
  BY <1>1, <1>3 DEF StoreInv, TypeInv, TypeOK, RootsOK
<1> HIDE DEF r
<1>5. QED
  BY <1>1, <1>2, <1>4

LEMMA NextCites == StoreInv /\ CiteInv /\ [Next]_vars => CiteInv'
<1> SUFFICES ASSUME StoreInv, CiteInv, [Next]_vars PROVE CiteInv'
  OBVIOUS
<1>1. CASE BeginAny
  BY <1>1 DEF BeginAny, BeginWinddown, BeginTransition, BeginBind, BeginImport, Begin,
     CiteInv, CitesOK, Present
<1>2. CASE SeedLegacy
  <2>1. UNCHANGED <<roots, evidence>>
    BY <1>2 DEF SeedLegacy, ToStage
  <2>2. QED
    BY <1>2, <2>1, SeededRow DEF CiteInv, CitesOK, Present
<1>3. CASE InsertBound
  <2>1. UNCHANGED <<roots, evidence>> /\ BoundProof(Current)
    BY <1>3 DEF InsertBound, ToStage, InsertAllowed
  <2>2. QED
    BY <1>3, <2>1, InsertedRow DEF CiteInv, CitesOK, Present, BoundProof
<1>4. CASE SeedEvent \/ BoundEvent \/ SupersedeEvent \/ TransitionEvent
  <2>1. UNCHANGED <<roots, wroots, evidence>>
    BY <1>4 DEF SeedEvent, BoundEvent, SupersedeEvent, TransitionEvent, ToStage, NextItem
  <2>2. QED
    BY <2>1 DEF CiteInv, CitesOK, Present
<1>5. CASE Commit \/ Rollback
  <2>1. evidence' = evidence /\ roots' \in {roots, wroots} /\ wroots' \in {roots, wroots}
    BY <1>5 DEF Commit, Publish, work, Rollback, Close, outside
  <2>2. QED
    BY <2>1 DEF CiteInv, CitesOK, Present
<1>6. CASE (\E s \in Sessions : Capture(s)) \/ ChangeVisibility
  <2>1. evidence \subseteq evidence' /\ UNCHANGED <<roots, wroots>>
    BY <1>6 DEF Capture, ChangeVisibility
  <2>2. QED
    BY <2>1 DEF CiteInv, CitesOK, Present
<1>7. CASE \E e \in Evidence : ForgetEvidence(e)
  <2>1. PICK e \in Evidence : ForgetEvidence(e)
    BY <1>7
  <2>2. /\ evidence' = evidence \ {e} /\ wroots' = roots'
        /\ \A c \in Ids : roots'[c] = IF Present(roots, c) /\ e \in roots[c].cites
                                      THEN NoRoot ELSE roots[c]
    BY <2>1 DEF ForgetEvidence, Cascade
  <2>3. QED
    BY <2>2 DEF CiteInv, CitesOK, Present
<1>8. CASE \E s \in Sessions : ForgetSession(s)
  <2>1. PICK s \in Sessions : ForgetSession(s)
    BY <1>8
  <2>2. /\ evidence' = {e \in evidence : SessionOf[e] # s} /\ wroots' = roots'
        /\ \A c \in Ids :
             roots'[c] = IF /\ Present(roots, c)
                            /\ \/ roots[c].session = s
                               \/ \E e \in roots[c].cites : SessionOf[e] = s
                         THEN NoRoot ELSE roots[c]
    BY <2>1 DEF ForgetSession, Cascade
  <2>3. QED
    BY <2>2 DEF CiteInv, CitesOK, Present
<1>9. CASE \E p \in Peers, seq \in 1 .. MaxPeerSeq, e \in events, s \in Standing :
             PeerEvent(p, seq, e, s)
  BY <1>9 DEF PeerEvent, CiteInv, CitesOK, Present
<1>10. CASE UNCHANGED vars
  BY <1>10 DEF vars, CiteInv, CitesOK, Present
<1>11. QED
  BY <1>1, <1>2, <1>3, <1>4, <1>5, <1>6, <1>7, <1>8, <1>9, <1>10 DEF Next, Write, External

LEMMA InitCites == Init => CiteInv
BY DEF Init, CiteInv, CitesOK, Present

\* Whatever is forgotten, a bound root that is left rests on evidence that is there
\* and is all of its own session.
THEOREM CitationsStayClosed == Spec => []CitationsClosed
<1>1. StoreInv /\ CiteInv /\ [Next]_vars => CiteInv'
  BY NextCites
<1>2. CiteInv => CitationsClosed
  BY DEF CiteInv, CitesOK, CitationsClosed, IsBound
<1>3. QED
  BY <1>1, <1>2, InitCites, StoreInvariance, PTL DEF Spec
-----------------------------------------------------------------------------
(* Supersession.  A bound root's legacy root is retired when the operation *)
(* that binds it ends, and goes only with it.                              *)

Supersedes(rts, c, f) == Present(rts, c) /\ rts[c].supersedes = f

SupersedesOK(rts) ==
  \A c \in Ids, f \in Ids : Supersedes(rts, c, f) =>
    /\ Present(rts, f) /\ IsLegacy(rts[f])
    /\ rts[f].session \in {rts[c].session, NoSession}
    /\ \A d \in Ids : Supersedes(rts, d, f) => d = c

\* The bound root whose legacy root this transaction has yet to retire.
Retiring(c, f) ==
  /\ InStage("bound") \/ InStage("supersede")
  /\ c = Current.new /\ f = Current.target

SupersedeInv ==
  /\ SupersedesOK(roots) /\ SupersedesOK(wroots)
  /\ \A c \in Ids, f \in Ids : Supersedes(roots, c, f) => IsRetired(events, f)
  /\ \A c \in Ids, f \in Ids : Supersedes(wroots, c, f) =>
       IsRetired(wevents, f) \/ Retiring(c, f)

\* No row is there yet for an item that has not come to it.
LEMMA SeedAbsent ==
  ASSUME StoreInv, InStage("seed")
  PROVE  ~Present(wroots, Current.target)
<1>1. /\ op = "import" /\ Current.target \in Files /\ Current.target \in Ids
      /\ Current.target \notin Assertions \cup {NoId}
  <2>1. op = "import"
    BY DEF InStage, StoreInv, TypeInv, TypeOK, PlanOK, Ops
  <2>2. QED
    BY <2>1, CurrentItem, StoreAssumption DEF ItemShape, Ids
<1>2. ~Present(roots, Current.target)
  BY <1>1, CurrentItem DEF ItemSound
<1>3. ~RowWritten(Current.target)
  <2>1. SUFFICES ASSUME NEW i \in Items,
                        \/ Current.target = plan[i].new
                        \/ /\ Current.target = plan[i].target
                           /\ Reached(i, {"seeded", "assert", "bound", "supersede"})
                 PROVE  FALSE
    BY DEF RowWritten
  <2>2. plan[i] \in Item
    BY DEF StoreInv, TypeInv, TypeOK, Items
  <2>3. Current.target = plan[i].target /\ i # pos
    BY <1>1, <2>1, <2>2, CurrentItem DEF Reached, Item, StoreInv, TypeInv, TypeOK, Items
  <2>4. QED
    BY <1>1, <2>3, CurrentItem
<1>4. QED
  BY <1>1, <1>2, <1>3 DEF StoreInv, PlanInv, Frame, InStage, Present

LEMMA AssertAbsent ==
  ASSUME StoreInv, InStage("assert")
  PROVE  /\ op \in {"winddown", "bind", "import"}
         /\ Current.new \in Assertions /\ ~Present(wroots, Current.new)
<1>1. /\ op \in {"winddown", "bind", "import"} /\ Current.new \in Assertions
      /\ Current.new \in Ids /\ Current.new \notin Files \cup {NoId}
  <2>1. op \in {"winddown", "bind", "import"} /\ Current.new \in Assertions
    BY CurrentItem
       DEF InStage, StoreInv, TypeInv, TypeOK, PlanOK, Ops, NeedsNew, Current, Items
  <2>2. QED
    BY <2>1, StoreAssumption DEF Ids
<1>2. ~Present(roots, Current.new)
  BY <1>1, CurrentItem DEF ItemSound
<1>3. ~RowWritten(Current.new)
  <2>1. SUFFICES ASSUME NEW i \in Items,
                        \/ /\ Current.new = plan[i].new
                           /\ Reached(i, {"bound", "supersede"})
                        \/ Current.new = plan[i].target /\ op = "import"
                 PROVE  FALSE
    BY DEF RowWritten
  <2>2. op = "import" => plan[i].target \in Files
    BY DEF StoreInv, PlanInv, PlanSound, ItemShape
  <2>3. Current.new = plan[i].new /\ i # pos
    BY <1>1, <2>1, <2>2, CurrentItem DEF Reached, StoreInv, TypeInv, TypeOK, Items
  <2>4. QED
    BY <1>1, <2>3, CurrentItem
<1>4. QED
  BY <1>1, <1>2, <1>3 DEF StoreInv, PlanInv, Frame, InStage, Present

LEMMA NoIdNotInIds == NoId \notin Ids
BY StoreAssumption

\* While no root is between its insert and its retirement, all are retired.
LEMMA NoneRetiring ==
  ASSUME SupersedeInv, ~ (InStage("bound") \/ InStage("supersede")),
         NEW c \in Ids, NEW f \in Ids, Supersedes(wroots, c, f)
  PROVE  IsRetired(wevents, f)
BY DEF SupersedeInv, Retiring

LEMMA SeedLegacySupersede == StoreInv /\ SupersedeInv /\ SeedLegacy => SupersedeInv'
<1> SUFFICES ASSUME StoreInv, SupersedeInv, SeedLegacy PROVE SupersedeInv'
  OBVIOUS
<1>1. /\ ~Present(wroots, Current.target)
      /\ UNCHANGED <<roots, events, wevents>>
  BY SeedAbsent DEF SeedLegacy, ToStage
<1>2. \A c, f \in Ids : Supersedes(wroots', c, f) =>
        c # Current.target /\ Supersedes(wroots, c, f)
  BY SeededRow, NoIdNotInIds DEF Supersedes, Present
<1>3. \A c, f \in Ids : Supersedes(wroots, c, f) =>
        /\ c # Current.target /\ f # Current.target
        /\ wroots'[c] = wroots[c] /\ wroots'[f] = wroots[f]
  BY <1>1, SeededRow DEF SupersedeInv, SupersedesOK, Supersedes
<1>4. SupersedesOK(wroots')
  BY <1>2, <1>3 DEF SupersedeInv, SupersedesOK, Present
<1>5. \A c, f \in Ids : Supersedes(wroots, c, f) => IsRetired(wevents, f)
  BY NoneRetiring DEF SeedLegacy, InStage
<1>6. \A c, f \in Ids : Supersedes(wroots', c, f) => IsRetired(wevents', f)
  BY <1>1, <1>2, <1>5
<1>7. QED
  BY <1>1, <1>4, <1>6 DEF SupersedeInv, SupersedesOK, Supersedes, Present, IsRetired

LEMMA InsertBoundSupersede == StoreInv /\ SupersedeInv /\ InsertBound => SupersedeInv'
<1> SUFFICES ASSUME StoreInv, SupersedeInv, InsertBound PROVE SupersedeInv'
  OBVIOUS
<1>1. /\ ~Present(wroots, Current.new) /\ InsertAllowed(wroots, Current)
      /\ UNCHANGED <<roots, events, wevents, inTx, pos, plan>> /\ stage' = "bound"
      /\ InStage("assert")
  BY DEF InsertBound, InsertAllowed, ToStage
<1>2. \A c, f \in Ids : Supersedes(wroots, c, f) =>
        /\ c # Current.new /\ f # Current.new
        /\ wroots'[c] = wroots[c] /\ wroots'[f] = wroots[f]
  BY <1>1, InsertedRow DEF SupersedeInv, SupersedesOK, Supersedes
<1>3. \A c, f \in Ids : Supersedes(wroots', c, f) =>
        \/ Supersedes(wroots, c, f)
        \/ c = Current.new /\ f = Current.target
  BY InsertedRow DEF Supersedes, Present
<1>4. Current.target \in Ids =>
        /\ Present(wroots', Current.target) /\ IsLegacy(wroots'[Current.target])
        /\ wroots'[Current.target].session \in {wroots'[Current.new].session, NoSession}
        /\ \A d \in Ids : ~Supersedes(wroots, d, Current.target)
  <2> SUFFICES ASSUME Current.target \in Ids
               PROVE  /\ Present(wroots', Current.target)
                      /\ IsLegacy(wroots'[Current.target])
                      /\ wroots'[Current.target].session
                           \in {wroots'[Current.new].session, NoSession}
                      /\ \A d \in Ids : ~Supersedes(wroots, d, Current.target)
    OBVIOUS
  <2>1. LegacySuccessor(wroots, Current)
    BY <1>1, NoIdNotInIds DEF InsertAllowed
  <2>2. Current.target # Current.new
    BY <1>1, <2>1 DEF LegacySuccessor
  <2>3. wroots'[Current.target] = wroots[Current.target]
    BY <2>2, InsertedRow
  <2>4. QED
    BY <2>1, <2>3, InsertedRow DEF LegacySuccessor, Present, Supersedes
<1>5. SupersedesOK(wroots')
  BY <1>2, <1>3, <1>4 DEF SupersedeInv, SupersedesOK, Present
<1>6. \A c, f \in Ids : Supersedes(wroots, c, f) => IsRetired(wevents, f)
  BY NoneRetiring, <1>1 DEF InStage
<1>7. \A c, f \in Ids : Supersedes(wroots', c, f) =>
        IsRetired(wevents', f) \/ Retiring(c, f)'
  BY <1>1, <1>3, <1>6 DEF Retiring, InStage, Current
<1>8. QED
  BY <1>1, <1>5, <1>7 DEF SupersedeInv, SupersedesOK, Supersedes, Present, IsRetired

LEMMA WriteEventSupersede ==
  StoreInv /\ SupersedeInv /\ (SeedEvent \/ BoundEvent \/ SupersedeEvent \/ TransitionEvent)
    => SupersedeInv'
<1> SUFFICES ASSUME StoreInv, SupersedeInv,
                    SeedEvent \/ BoundEvent \/ SupersedeEvent \/ TransitionEvent
             PROVE  SupersedeInv'
  OBVIOUS
<1>1. UNCHANGED <<roots, events, wroots>>
  BY DEF SeedEvent, BoundEvent, SupersedeEvent, TransitionEvent, ToStage, NextItem
<1>2. PICK n : wevents' = wevents \cup {n}
               /\ (SupersedeEvent => n.concept = Current.target /\ n.standing = "retired")
  <2>1. CASE SeedEvent \/ BoundEvent \/ TransitionEvent
    <3>1. ~SupersedeEvent
      BY <2>1 DEF SeedEvent, BoundEvent, TransitionEvent, SupersedeEvent, InStage
    <3>2. QED
      BY <2>1, <3>1, AppendAdds
         DEF SeedEvent, BoundEvent, TransitionEvent, AppendInitial, AppendNext, StoreInv
  <2>2. CASE SupersedeEvent
    BY <2>2, AppendAdds DEF SupersedeEvent, AppendNext, StoreInv
  <2>3. QED
    BY <2>1, <2>2
<1>3. \A f : IsRetired(wevents, f) => IsRetired(wevents', f)
  BY <1>2 DEF IsRetired, EventsOf
<1>4. ASSUME NEW c \in Ids, NEW f \in Ids, Retiring(c, f)
      PROVE  IsRetired(wevents', f) \/ Retiring(c, f)'
  <2>1. CASE BoundEvent
    <3>1. op # "winddown"
      BY <1>4, <2>1, CurrentItem, NoIdNotInIds DEF BoundEvent, Retiring, ItemShape
    <3>2. ToStage("supersede") /\ InStage("bound")
      BY <2>1, <3>1 DEF BoundEvent
    <3>3. QED
      BY <1>4, <3>2 DEF ToStage, Retiring, InStage, Current
  <2>2. CASE SupersedeEvent
    BY <1>2, <1>4, <2>2 DEF Retiring, IsRetired, EventsOf
  <2>3. CASE SeedEvent \/ TransitionEvent
    BY <1>4, <2>3 DEF Retiring, SeedEvent, TransitionEvent, InStage
  <2>4. QED
    BY <2>1, <2>2, <2>3
<1>5. \A c, f \in Ids : Supersedes(wroots', c, f) =>
        IsRetired(wevents', f) \/ Retiring(c, f)'
  BY <1>1, <1>3, <1>4 DEF SupersedeInv
<1>6. QED
  BY <1>1, <1>5 DEF SupersedeInv, SupersedesOK, Supersedes, Present, IsRetired

LEMMA CascadeSupersede ==
  ASSUME StoreInv, SupersedeInv, Idle, NEW gone \in SUBSET Ids, Cascade(gone),
         \A c, f \in Ids : Supersedes(roots, c, f) /\ f \in gone => c \in gone
  PROVE  SupersedeInv'
<1>1. /\ wroots' = roots' /\ wevents' = events'
      /\ events' = {e \in events : e.concept \notin gone}
      /\ \A c \in Ids : roots'[c] = IF c \in gone THEN NoRoot ELSE roots[c]
  BY DEF Cascade
<1>2. \A c, f \in Ids : Supersedes(roots', c, f) =>
        /\ Supersedes(roots, c, f) /\ c \notin gone /\ f \notin gone
        /\ roots'[c] = roots[c] /\ roots'[f] = roots[f]
  BY <1>1 DEF Supersedes, Present
<1>3. SupersedesOK(roots')
  BY <1>2 DEF SupersedeInv, SupersedesOK, Present
<1>4. \A c, f \in Ids : Supersedes(roots', c, f) => IsRetired(events', f)
  BY <1>1, <1>2 DEF SupersedeInv, IsRetired, EventsOf
<1>5. SupersedesOK(wroots')
  BY <1>1, <1>3
<1>6. \A c, f \in Ids : Supersedes(wroots', c, f) => IsRetired(wevents', f)
  BY <1>1, <1>4
<1>7. QED
  BY <1>3, <1>4, <1>5, <1>6 DEF SupersedeInv, SupersedesOK, Supersedes, Present, IsRetired

LEMMA ForgetSupersede ==
  ASSUME StoreInv, CiteInv, SupersedeInv, External
  PROVE  SupersedeInv' \/ UNCHANGED <<roots, wroots>>
<1>1. CASE \E e \in Evidence : ForgetEvidence(e)
  <2>1. PICK e \in Evidence : ForgetEvidence(e)
    BY <1>1
  <2> DEFINE gone == {c \in Ids : Present(roots, c) /\ e \in roots[c].cites}
  <2>2. \A c, f \in Ids : Supersedes(roots, c, f) => f \notin gone
    BY DEF SupersedeInv, SupersedesOK, CiteInv, CitesOK
  <2>3. QED
    BY <2>1, <2>2, CascadeSupersede DEF ForgetEvidence
<1>2. CASE \E s \in Sessions : ForgetSession(s)
  <2>1. PICK s \in Sessions : ForgetSession(s)
    BY <1>2
  <2> DEFINE gone == {c \in Ids : /\ Present(roots, c)
                                  /\ \/ roots[c].session = s
                                     \/ \E e \in roots[c].cites : SessionOf[e] = s}
  <2>2. ASSUME NEW c \in Ids, NEW f \in Ids, Supersedes(roots, c, f), f \in gone
        PROVE  c \in gone
    <3>1. /\ Present(roots, f) /\ IsLegacy(roots[f]) /\ roots[f].cites = {}
          /\ roots[f].session \in {roots[c].session, NoSession}
      BY <2>2 DEF SupersedeInv, SupersedesOK, CiteInv, CitesOK
    <3>2. roots[f].session = s /\ s # NoSession
      BY <2>2, <3>1, StoreAssumption
    <3>3. QED
      BY <2>2, <3>1, <3>2 DEF Supersedes
  <2>3. QED
    BY <2>1, <2>2, CascadeSupersede DEF ForgetSession
<1>3. CASE \/ (\E s \in Sessions : Capture(s)) \/ ChangeVisibility
           \/ \E p \in Peers, seq \in 1 .. MaxPeerSeq, e \in events, s \in Standing :
                PeerEvent(p, seq, e, s)
  BY <1>3 DEF Capture, ChangeVisibility, PeerEvent
<1>4. QED
  BY <1>1, <1>2, <1>3 DEF External

LEMMA NextSupersede ==
  StoreInv /\ CiteInv /\ SupersedeInv /\ [Next]_vars => SupersedeInv'
<1> SUFFICES ASSUME StoreInv, CiteInv, SupersedeInv, [Next]_vars PROVE SupersedeInv'
  OBVIOUS
<1>1. CASE BeginAny
  <2>1. ~inTx /\ UNCHANGED <<roots, events, wroots, wevents>>
    BY <1>1 DEF BeginAny, BeginWinddown, BeginTransition, BeginBind, BeginImport, Begin
  <2>2. QED
    BY <2>1 DEF SupersedeInv, SupersedesOK, Supersedes, Present, IsRetired, Retiring, InStage
<1>2. CASE Write
  BY <1>2, SeedLegacySupersede, InsertBoundSupersede, WriteEventSupersede DEF Write
<1>3. CASE Commit
  <2>1. /\ roots' = wroots /\ wroots' = wroots /\ events' = wevents /\ wevents' = wevents
        /\ pos > Len(plan)
    BY <1>3 DEF Commit, Publish, work
  <2>2. ~ (InStage("bound") \/ InStage("supersede"))
    BY <2>1 DEF InStage, StoreInv, TypeInv, TypeOK
  <2>3. \A c, f \in Ids : Supersedes(wroots, c, f) => IsRetired(wevents, f)
    BY <2>2, NoneRetiring
  <2>4. QED
    BY <2>1, <2>3 DEF SupersedeInv, SupersedesOK, Supersedes, Present, IsRetired
<1>4. CASE Rollback
  BY <1>4 DEF Rollback, SupersedeInv, SupersedesOK, Supersedes, Present, IsRetired
<1>5. CASE External
  <2>1. CASE UNCHANGED <<roots, wroots>>
    <3>1. ~inTx /\ wroots = roots /\ wevents = events /\ wevents' = events'
      BY <1>5 DEF External, Capture, ForgetSession, ChangeVisibility, ForgetEvidence,
         PeerEvent, Cascade, Idle, StoreInv, KindInv
    <3>2. ASSUME NEW f \in Ids, IsRetired(events, f), Present(roots, f)
          PROVE  IsRetired(events', f)
      <4>1. PICK e \in events : e.concept = f /\ e.standing = "retired"
        BY <3>2 DEF IsRetired, EventsOf
      <4>2. e \in events'
        BY <1>5, <2>1, <3>2, <4>1, EventsStay DEF Next, Present
      <4>3. QED
        BY <4>1, <4>2 DEF IsRetired, EventsOf
    <3>3. \A c, f \in Ids : Supersedes(roots', c, f) => IsRetired(events', f)
      BY <2>1, <3>2 DEF SupersedeInv, SupersedesOK, Supersedes
    <3>4. SupersedesOK(roots')
      BY <2>1 DEF SupersedeInv, SupersedesOK, Supersedes, Present
    <3>5. QED
      BY <2>1, <3>1, <3>3, <3>4 DEF SupersedeInv, SupersedesOK, Supersedes, Present, IsRetired
  <2>2. QED
    BY <1>5, <2>1, ForgetSupersede
<1>6. CASE UNCHANGED vars
  BY <1>6 DEF vars, SupersedeInv, SupersedesOK, Supersedes, Present, IsRetired, Retiring,
     InStage, Current
<1>7. QED
  BY <1>1, <1>2, <1>3, <1>4, <1>5, <1>6 DEF Next

LEMMA InitSupersede == Init => SupersedeInv
BY DEF Init, SupersedeInv, SupersedesOK, Supersedes, Present

RowInv == CiteInv /\ SupersedeInv

LEMMA RowInvariance == Spec => []RowInv
<1>1. Init => RowInv
  BY InitCites, InitSupersede DEF RowInv
<1>2. StoreInv /\ RowInv /\ [Next]_vars => RowInv'
  BY NextCites, NextSupersede DEF RowInv
<1>3. QED
  BY <1>1, <1>2, StoreInvariance, PTL DEF Spec

\* The root a bound root supersedes is there, legacy, retired and superseded by no
\* other, whatever was forgotten and in whatever order.
THEOREM SupersessionIsSound == Spec => []SupersessionSound
<1>1. StoreInv /\ RowInv => SupersessionSound
  <2> SUFFICES ASSUME StoreInv, SupersedeInv, NEW c \in Ids, Present(roots, c),
                      roots[c].supersedes # NoId
               PROVE  LET f == roots[c].supersedes IN
                      /\ Present(roots, f) /\ IsLegacy(roots[f])
                      /\ HasStanding(events, f, "retired")
                      /\ \A d \in Ids : Present(roots, d) /\ roots[d].supersedes = f => d = c
    BY DEF RowInv, SupersessionSound
  <2> DEFINE f == roots[c].supersedes
  <2>1. f \in Ids
    BY DEF StoreInv, TypeInv, TypeOK, RootsOK, Root, Present
  <2>2. Supersedes(roots, c, f)
    BY DEF Supersedes
  <2>3. HasStanding(events, f, "retired")
    BY <2>1, <2>2, StandingMeans DEF SupersedeInv, StoreInv, TypeInv, TypeOK, LogInv
  <2>4. QED
    BY <2>1, <2>2, <2>3 DEF SupersedeInv, SupersedesOK, Supersedes
<1>2. QED
  BY <1>1, RowInvariance, StoreInvariance, PTL
-----------------------------------------------------------------------------
(* The checks suffice.  Between the checks and the insert of a bound root  *)
(* its legacy root is there and of a fitting session: a bind found it so,  *)
(* an import has just written it.                                          *)

TargetFits ==
  InStage("seeded") \/ (InStage("assert") /\ op # "winddown") =>
    /\ Present(wroots, Current.target) /\ IsLegacy(wroots[Current.target])
    /\ SessionFits(wroots[Current.target], Current)

LEMMA BeginFits == StoreInv /\ StoreInv' /\ BeginAny => TargetFits'
<1> SUFFICES ASSUME StoreInv, StoreInv', BeginAny,
                    InStage("seeded")' \/ (InStage("assert")' /\ op' # "winddown")
             PROVE  /\ Present(wroots', Current'.target) /\ IsLegacy(wroots'[Current'.target])
                    /\ SessionFits(wroots'[Current'.target], Current')
  BY DEF TargetFits, SessionFits, Present, IsLegacy
<1>1. PICK o, items : Begin(o, items) /\ ~inTx
  BY DEF BeginAny, BeginWinddown, BeginTransition, BeginBind, BeginImport
<1>2. /\ op' = o /\ stage' = FirstStage(o) /\ wroots' = wroots /\ roots' = roots
  BY <1>1 DEF Begin
<1>3. op' = "bind" /\ InStage("assert")'
  BY <1>2 DEF FirstStage, InStage, StoreInv, TypeInv, TypeOK, Ops
<1>4. inTx' /\ pos' \in 1 .. Len(plan') /\ Current' = plan'[pos']
  BY <1>3 DEF InStage, Current, StoreInv, TypeInv, TypeOK
<1>5. ItemSound(op, Current)'
  BY <1>4 DEF StoreInv, PlanInv, PlanSound, Items
<1>6. wroots' = roots'
  BY <1>1, <1>2 DEF StoreInv, KindInv
<1>7. /\ Present(roots', Current'.target) /\ IsLegacy(roots'[Current'.target])
      /\ SessionFits(roots'[Current'.target], Current')
  BY <1>3, <1>5 DEF ItemSound, Present, IsLegacy, SessionFits
<1>8. QED
  BY <1>6, <1>7

LEMMA WriteFits == StoreInv /\ TargetFits /\ Write => TargetFits'
<1> SUFFICES ASSUME StoreInv, TargetFits, Write PROVE TargetFits'
  OBVIOUS
<1>1. CASE SeedLegacy
  <2>1. ToStage("seeded") /\ InStage("seed")
    BY <1>1 DEF SeedLegacy
  <2>2. Current' = Current /\ stage' = "seeded"
    BY <2>1 DEF ToStage, Current
  <2>3. QED
    BY <1>1, <2>2, SeededRow DEF TargetFits, Present, IsLegacy, SessionFits
<1>2. CASE SeedEvent
  <2>1. CASE NextItem
    <3>1. op = "import" /\ stage' = "seed"
      BY <1>2, <2>1 DEF SeedEvent, NextItem, InStage, FirstStage, StoreInv, TypeInv, TypeOK,
         PlanOK, Ops
    <3>2. QED
      BY <3>1 DEF TargetFits, InStage
  <2>2. CASE ToStage("assert")
    <3>1. Current' = Current /\ UNCHANGED wroots /\ InStage("seeded")
      BY <1>2, <2>2 DEF SeedEvent, ToStage, Current
    <3>2. QED
      BY <3>1 DEF TargetFits, Present, IsLegacy, SessionFits
  <2>3. QED
    BY <1>2, <2>1, <2>2 DEF SeedEvent
<1>3. CASE InsertBound
  BY <1>3 DEF InsertBound, ToStage, TargetFits, InStage
<1>4. CASE BoundEvent
  <2>1. (op = "winddown" /\ op' = op /\ stage' = "assert") \/ stage' = "supersede"
    BY <1>4 DEF BoundEvent, ToStage, NextItem, FirstStage
  <2>2. QED
    BY <2>1 DEF TargetFits, InStage
<1>5. CASE SupersedeEvent
  <2>1. /\ op \in {"bind", "import"} /\ op' = op /\ stage' = FirstStage(op)
        /\ pos' = pos + 1 /\ plan' = plan /\ pos \in Nat /\ pos >= 1 /\ Len(plan) \in Nat
    BY <1>5 DEF SupersedeEvent, InStage, NextItem, StoreInv, TypeInv, TypeOK, PlanOK, Ops
  <2>2. CASE op = "bind"
    <3>1. Len(plan) <= 1
      BY <2>2 DEF StoreInv, PlanInv, PlanSound
    <3>2. QED
      BY <2>1, <3>1 DEF TargetFits, InStage
  <2>3. CASE op = "import"
    BY <2>1, <2>3 DEF TargetFits, InStage, FirstStage
  <2>4. QED
    BY <2>1, <2>2, <2>3
<1>6. CASE TransitionEvent
  <2>1. op = "transition" /\ stage' = FirstStage(op)
    BY <1>6 DEF TransitionEvent, InStage, NextItem, StoreInv, TypeInv, TypeOK, PlanOK, Ops
  <2>2. QED
    BY <2>1 DEF TargetFits, InStage, FirstStage
<1>7. QED
  BY <1>1, <1>2, <1>3, <1>4, <1>5, <1>6 DEF Write

LEMMA NextFits == StoreInv /\ StoreInv' /\ TargetFits /\ [Next]_vars => TargetFits'
<1> SUFFICES ASSUME StoreInv, StoreInv', TargetFits, [Next]_vars PROVE TargetFits'
  OBVIOUS
<1>1. CASE BeginAny
  BY <1>1, BeginFits
<1>2. CASE Write
  BY <1>2, WriteFits
<1>3. CASE Commit \/ Rollback \/ External
  <2>1. inTx' = FALSE
    BY <1>3 DEF Commit, Rollback, Close, External, Capture, ForgetSession, ChangeVisibility,
       ForgetEvidence, PeerEvent, Idle, StoreInv, TypeInv, TypeOK
  <2>2. QED
    BY <2>1 DEF TargetFits, InStage
<1>4. CASE UNCHANGED vars
  BY <1>4 DEF vars, TargetFits, InStage, Current, Present, IsLegacy, SessionFits
<1>5. QED
  BY <1>1, <1>2, <1>3, <1>4 DEF Next

LEMMA FitsInvariance == Spec => []TargetFits
<1>1. Init => TargetFits
  BY DEF Init, TargetFits, InStage
<1>2. QED
  BY <1>1, NextFits, StoreInvariance, PTL DEF Spec

\* No trigger or key of the schema refuses an insert of an operation that passed its
\* own checks, whatever its earlier items wrote into the same transaction.
THEOREM ChecksAreEnough == Spec => []ChecksSuffice
<1>1. StoreInv /\ SupersedeInv /\ TargetFits => ChecksSuffice
  <2> SUFFICES ASSUME StoreInv, SupersedeInv, TargetFits, InStage("assert")
               PROVE  InsertAllowed(wroots, Current)
    BY DEF ChecksSuffice
  <2>1. /\ op \in {"winddown", "bind", "import"} /\ Current.new # NoId
        /\ ~Present(wroots, Current.new)
    BY AssertAbsent, StoreAssumption DEF Ids
  <2>2. BoundProof(Current)
    BY <2>1, CurrentItem DEF ItemSound
  <2>3. ASSUME Current.target # NoId PROVE LegacySuccessor(wroots, Current)
    <3>1. op # "winddown" /\ Current.target \in Ids
      BY <2>3, CurrentItem DEF ItemShape, Item
    <3>2. \A c \in Ids : ~Supersedes(wroots, c, Current.target)
      BY <3>1, CurrentItem, TargetLive, NoneRetiring DEF InStage
    <3>3. /\ Present(wroots, Current.target) /\ IsLegacy(wroots[Current.target])
          /\ SessionFits(wroots[Current.target], Current)
      BY <3>1 DEF TargetFits
    <3>4. QED
      BY <3>2, <3>3 DEF LegacySuccessor, SessionFits, Supersedes
  <2>4. QED
    BY <2>1, <2>2, <2>3 DEF InsertAllowed
<1>2. QED
  BY <1>1, FitsInvariance, RowInvariance, StoreInvariance, PTL DEF RowInv
-----------------------------------------------------------------------------
(* All or nothing.  What is written of an item stays written while the     *)
(* items after it are: no two items share a concept.                       *)

NewWritten(i) ==
  i.new # NoId => Present(wroots, i.new) /\ HasStanding(wevents, i.new, "proposed")

ItemWritten(i) ==
  /\ NewWritten(i)
  /\ i.target # NoId => HasStanding(wevents, i.target,
       IF op = "import" /\ i.new = NoId THEN "proposed" ELSE i.standing)

DoneInv ==
  inTx => /\ \A i \in Items : i < pos => ItemWritten(plan[i])
          /\ InStage("supersede") => NewWritten(Current)

\* The items done are of other concepts than the one at hand.
LEMMA DoneApart ==
  ASSUME StoreInv, NEW st, InStage(st), NEW i \in Items, i < pos,
         NEW c \in {plan[i].new, plan[i].target}, c # NoId
  PROVE  c \in Ids /\ c # Current.new /\ c # Current.target
<1>1. plan[i] \in Item /\ i # pos /\ op # "transition"
  BY CurrentItem DEF StoreInv, TypeInv, TypeOK, PlanInv, PlanSound, Items
<1>2. /\ plan[i].target \in Files \cup {NoId} /\ plan[i].new \in Assertions \cup {NoId}
      /\ Current.target \in Files \cup {NoId} /\ Current.new \in Assertions \cup {NoId}
  BY <1>1, CurrentItem
     DEF StoreInv, TypeInv, TypeOK, PlanInv, PlanSound, ItemShape, Item, Ops
<1>3. QED
  BY <1>1, <1>2, CurrentItem, StoreAssumption DEF Ids

LEMMA AppendKeeps ==
  ASSUME StoreInv, NEW c, NEW s, NEW parent, AppendEvent(c, s, parent), NEW d, d # c
  PROVE  EventsOf(wevents', d) = EventsOf(wevents, d)
<1>1. PICK n : wevents' = wevents \cup {n} /\ n.concept = c
  BY AppendAdds DEF StoreInv
<1>2. QED
  BY <1>1 DEF EventsOf

\* A write that touches no other concept than the item's leaves the items done done.
LEMMA DoneStays ==
  ASSUME StoreInv, DoneInv, NEW st, InStage(st), UNCHANGED <<op, plan>>,
         \A d : d \notin {Current.new, Current.target} =>
           EventsOf(wevents', d) = EventsOf(wevents, d),
         \A d \in Ids : d \notin {Current.new, Current.target} => wroots'[d] = wroots[d],
         NEW i \in Items, i < pos
  PROVE  ItemWritten(plan[i])'
<1>1. ItemWritten(plan[i])
  BY CurrentItem DEF DoneInv
<1>2. ASSUME NEW c \in {plan[i].new, plan[i].target}, c # NoId
      PROVE  /\ wroots'[c] = wroots[c]
             /\ \A s : HasStanding(wevents', c, s) <=> HasStanding(wevents, c, s)
  <2>1. c \in Ids /\ c \notin {Current.new, Current.target}
    BY <1>2, DoneApart
  <2>2. EventsOf(wevents', c) = EventsOf(wevents, c) /\ wroots'[c] = wroots[c]
    BY <2>1
  <2>3. QED
    BY <2>2, StandingLocal
<1>3. QED
  BY <1>1, <1>2 DEF ItemWritten, NewWritten, Present

\* The standing a concept is left in by an append.
LEMMA FirstStanding ==
  ASSUME StoreInv, StoreInv', NEW c, AppendInitial(c), EventsOf(wevents, c) = {}
  PROVE  HasStanding(wevents', c, "proposed")
<1>1. PICK n : wevents' = wevents \cup {n} /\ n.concept = c /\ n.standing = "proposed"
  BY AppendAdds DEF AppendInitial, StoreInv
<1>2. EventsOf(wevents', c) # {} /\ AllProposed(wevents', c)
  BY <1>1 DEF EventsOf, AllProposed
<1>3. wevents' \in SUBSET Event /\ UniqueIn(wevents')
  BY DEF StoreInv, TypeInv, TypeOK, LogInv, UniqueIn
<1>4. QED
  BY <1>2, <1>3, StandingMeans

LEMMA NextStanding ==
  ASSUME StoreInv, StoreInv', NEW c, NEW s \in {"accepted", "retired"}, AppendNext(c, s),
         s = "accepted" => AllProposed(wevents, c)
  PROVE  HasStanding(wevents', c, s)
<1>1. PICK n : wevents' = wevents \cup {n} /\ n.concept = c /\ n.standing = s
  BY AppendAdds DEF AppendNext, StoreInv
<1>2. IF s = "retired" THEN IsRetired(wevents', c)
      ELSE IsAccepted(wevents', c) /\ ~IsRetired(wevents', c)
  BY <1>1 DEF EventsOf, IsRetired, IsAccepted, AllProposed
<1>3. wevents' \in SUBSET Event /\ UniqueIn(wevents')
  BY DEF StoreInv, TypeInv, TypeOK, LogInv, UniqueIn
<1>4. QED
  BY <1>2, <1>3, StandingMeans

\* Having moved on from a written item, the transaction has written all before it.
LEMMA NextItemDone ==
  ASSUME StoreInv, DoneInv, NEW st, InStage(st), NextItem,
         \A i \in Items : i < pos => ItemWritten(plan[i])',
         NEW cur, cur = Current, ItemWritten(cur)'
  PROVE  DoneInv'
<1>1. /\ pos' = pos + 1 /\ plan' = plan /\ stage' # "supersede" /\ Items' = Items
      /\ pos \in Int /\ Items \subseteq Int
  BY DEF NextItem, FirstStage, Items, StoreInv, TypeInv, TypeOK
<1>2. ASSUME NEW i \in Items', i < pos' PROVE ItemWritten(plan[i])'
  <2>1. i < pos \/ i = pos
    BY <1>1, <1>2
  <2>2. CASE i = pos
    <3>1. plan'[i] = cur
      BY <1>1, <2>2 DEF Current
    <3>2. QED
      BY <3>1
  <2>3. QED
    BY <1>1, <2>1, <2>2
<1>3. QED
  BY <1>1, <1>2 DEF DoneInv, InStage

LEMMA SeedLegacyDone == StoreInv /\ DoneInv /\ SeedLegacy => DoneInv'
<1> SUFFICES ASSUME StoreInv, DoneInv, SeedLegacy PROVE DoneInv'
  OBVIOUS
<1>1. /\ InStage("seed") /\ stage' = "seeded" /\ UNCHANGED <<inTx, op, plan, pos, wevents>>
  BY DEF SeedLegacy, ToStage
<1>2. \A d \in Ids : d # Current.target => wroots'[d] = wroots[d]
  BY SeededRow
<1>3. \A i \in Items : i < pos => ItemWritten(plan[i])'
  BY <1>1, <1>2, DoneStays
<1>4. QED
  BY <1>1, <1>3 DEF DoneInv, InStage, Items

LEMMA InsertBoundDone == StoreInv /\ DoneInv /\ InsertBound => DoneInv'
<1> SUFFICES ASSUME StoreInv, DoneInv, InsertBound PROVE DoneInv'
  OBVIOUS
<1>1. /\ InStage("assert") /\ stage' = "bound" /\ UNCHANGED <<inTx, op, plan, pos, wevents>>
  BY DEF InsertBound, ToStage
<1>2. \A d \in Ids : d # Current.new => wroots'[d] = wroots[d]
  BY InsertedRow
<1>3. \A i \in Items : i < pos => ItemWritten(plan[i])'
  BY <1>1, <1>2, DoneStays
<1>4. QED
  BY <1>1, <1>3 DEF DoneInv, InStage, Items

LEMMA SeedEventDone == StoreInv /\ StoreInv' /\ DoneInv /\ SeedEvent => DoneInv'
<1> SUFFICES ASSUME StoreInv, StoreInv', DoneInv, SeedEvent PROVE DoneInv'
  OBVIOUS
<1>1. InStage("seeded") /\ AppendInitial(Current.target) /\ UNCHANGED <<op, plan, wroots>>
  BY DEF SeedEvent, ToStage, NextItem
<1>2. \A d : d # Current.target => EventsOf(wevents', d) = EventsOf(wevents, d)
  BY <1>1, AppendKeeps DEF AppendInitial
<1>3. \A i \in Items : i < pos => ItemWritten(plan[i])'
  BY <1>1, <1>2, DoneStays
<1>4. CASE Current.new = NoId /\ NextItem
  <2>1. HasStanding(wevents', Current.target, "proposed") /\ op' = "import"
    BY <1>1, SeededFresh, FirstStanding
  <2>2. PICK item : item = Current
    OBVIOUS
  <2>3. ItemWritten(item)'
    BY <1>4, <2>1, <2>2 DEF ItemWritten, NewWritten
  <2>4. QED
    BY <1>1, <1>3, <1>4, <2>2, <2>3, NextItemDone
<1>5. CASE ToStage("assert")
  BY <1>1, <1>3, <1>5 DEF ToStage, DoneInv, InStage, Items
<1>6. QED
  BY <1>4, <1>5 DEF SeedEvent

LEMMA BoundEventDone == StoreInv /\ StoreInv' /\ DoneInv /\ BoundEvent => DoneInv'
<1> SUFFICES ASSUME StoreInv, StoreInv', DoneInv, BoundEvent PROVE DoneInv'
  OBVIOUS
<1>1. InStage("bound") /\ AppendInitial(Current.new) /\ UNCHANGED <<op, plan, wroots>>
  BY DEF BoundEvent, ToStage, NextItem
<1>2. \A d : d # Current.new => EventsOf(wevents', d) = EventsOf(wevents, d)
  BY <1>1, AppendKeeps DEF AppendInitial
<1>3. \A i \in Items : i < pos => ItemWritten(plan[i])'
  BY <1>1, <1>2, DoneStays
<1>4. PICK item : item = Current
  OBVIOUS
<1>5. HasStanding(wevents', item.new, "proposed") /\ Present(wroots', item.new)
  BY <1>1, <1>4, BoundFresh, FirstStanding DEF StoreInv, KindInv, Present
<1>6. NewWritten(item)'
  BY <1>5 DEF NewWritten
<1>7. CASE op = "winddown" /\ NextItem
  <2>1. ItemWritten(item)'
    BY <1>1, <1>4, <1>6, <1>7, CurrentItem DEF ItemWritten, ItemShape
  <2>2. QED
    BY <1>1, <1>3, <1>4, <1>7, <2>1, NextItemDone
<1>8. CASE ToStage("supersede")
  <2>1. UNCHANGED <<inTx, pos, plan>> /\ Current' = item
    BY <1>4, <1>8 DEF ToStage, Current
  <2>2. NewWritten(Current)'
    BY <1>5, <2>1 DEF NewWritten
  <2>3. \A i \in Items' : i < pos' => ItemWritten(plan[i])'
    BY <1>3, <2>1 DEF Items
  <2>4. QED
    BY <2>2, <2>3 DEF DoneInv
<1>9. QED
  BY <1>7, <1>8 DEF BoundEvent

LEMMA SupersedeEventDone == StoreInv /\ StoreInv' /\ DoneInv /\ SupersedeEvent => DoneInv'
<1> SUFFICES ASSUME StoreInv, StoreInv', DoneInv, SupersedeEvent PROVE DoneInv'
  OBVIOUS
<1>1. /\ InStage("supersede") /\ AppendNext(Current.target, "retired") /\ NextItem
      /\ UNCHANGED <<op, plan, wroots>>
  BY DEF SupersedeEvent, NextItem
<1>2. \A d : d # Current.target => EventsOf(wevents', d) = EventsOf(wevents, d)
  BY <1>1, AppendKeeps DEF AppendNext
<1>3. \A i \in Items : i < pos => ItemWritten(plan[i])'
  BY <1>1, <1>2, DoneStays
<1>4. PICK item : item = Current
  OBVIOUS
<1>5. /\ item.new \in Assertions /\ item.target \in Files /\ item.standing = "retired"
      /\ item.new # NoId /\ item.new # item.target
  <2>1. op \in {"bind", "import"} /\ item.new \in Assertions
    BY <1>1, <1>4, CurrentItem
       DEF InStage, StoreInv, TypeInv, TypeOK, PlanOK, Ops, NeedsNew, Items
  <2>2. QED
    BY <1>1, <1>4, <2>1, CurrentItem, StoreAssumption DEF ItemShape, Ids
<1>6. NewWritten(item) /\ EventsOf(wevents', item.new) = EventsOf(wevents, item.new)
  BY <1>1, <1>2, <1>4, <1>5 DEF DoneInv, InStage
<1>7. NewWritten(item)'
  BY <1>1, <1>6, StandingLocal DEF NewWritten, Present
<1>8. HasStanding(wevents', item.target, "retired")
  BY <1>1, <1>4, NextStanding
<1>9. ItemWritten(item)'
  BY <1>5, <1>7, <1>8 DEF ItemWritten
<1>10. QED
  BY <1>1, <1>3, <1>4, <1>9, NextItemDone

LEMMA TransitionEventDone == StoreInv /\ StoreInv' /\ DoneInv /\ TransitionEvent => DoneInv'
<1> SUFFICES ASSUME StoreInv, StoreInv', DoneInv, TransitionEvent PROVE DoneInv'
  OBVIOUS
<1>1. /\ InStage("event") /\ AppendNext(Current.target, Current.standing) /\ NextItem
      /\ UNCHANGED <<op, plan, wroots>>
  BY DEF TransitionEvent, NextItem
<1>2. \A d : d # Current.target => EventsOf(wevents', d) = EventsOf(wevents, d)
  BY <1>1, AppendKeeps DEF AppendNext
<1>3. \A i \in Items : i < pos => ItemWritten(plan[i])'
  BY <1>1, <1>2, DoneStays
<1>4. PICK item : item = Current
  OBVIOUS
<1>5. op = "transition" /\ item.new = NoId /\ item.standing \in {"accepted", "retired"}
  <2>1. op = "transition"
    BY <1>1 DEF InStage, StoreInv, TypeInv, TypeOK, PlanOK, Ops
  <2>2. QED
    BY <1>1, <1>4, <2>1, CurrentItem DEF ItemShape
<1>6. item.standing = "accepted" => AllProposed(wevents, item.target)
  BY <1>1, <1>4, <1>5, CurrentItem, TargetLive
<1>7. HasStanding(wevents', item.target, item.standing)
  BY <1>1, <1>4, <1>5, <1>6, NextStanding
<1>8. ItemWritten(item)'
  BY <1>1, <1>5, <1>7 DEF ItemWritten, NewWritten
<1>9. QED
  BY <1>1, <1>3, <1>4, <1>8, NextItemDone

LEMMA NextDone == StoreInv /\ StoreInv' /\ DoneInv /\ [Next]_vars => DoneInv'
<1> SUFFICES ASSUME StoreInv, StoreInv', DoneInv, [Next]_vars PROVE DoneInv'
  OBVIOUS
<1>1. CASE BeginAny
  <2>1. pos' = 1 /\ stage' # "supersede"
    BY <1>1 DEF BeginAny, BeginWinddown, BeginTransition, BeginBind, BeginImport, Begin,
       FirstStage
  <2>2. \A i \in Items' : ~ (i < pos')
    BY <2>1 DEF Items
  <2>3. QED
    BY <2>1, <2>2 DEF DoneInv, InStage
<1>2. CASE Write
  BY <1>2, SeedLegacyDone, SeedEventDone, InsertBoundDone, BoundEventDone,
     SupersedeEventDone, TransitionEventDone DEF Write
<1>3. CASE Commit \/ Rollback \/ External
  <2>1. inTx' = FALSE
    BY <1>3 DEF Commit, Rollback, Close, External, Capture, ForgetSession, ChangeVisibility,
       ForgetEvidence, PeerEvent, Idle, StoreInv, TypeInv, TypeOK
  <2>2. QED
    BY <2>1 DEF DoneInv
<1>4. CASE UNCHANGED vars
  BY <1>4 DEF vars, DoneInv, InStage, Current, Items, ItemWritten, NewWritten, Present
<1>5. QED
  BY <1>1, <1>2, <1>3, <1>4 DEF Next

LEMMA DoneInvariance == Spec => []DoneInv
<1>1. Init => DoneInv
  BY DEF Init, DoneInv
<1>2. QED
  BY <1>1, NextDone, StoreInvariance, PTL DEF Spec

LEMMA EndsWhole ==
  StoreInv /\ DoneInv /\ [Next]_vars
    => [inTx /\ ~inTx' => db' = db \/ \A i \in 1 .. Len(plan) : Done(plan[i])]_vars
<1> SUFFICES ASSUME StoreInv, DoneInv, Next, inTx, ~inTx'
             PROVE  db' = db \/ \A i \in 1 .. Len(plan) : Done(plan[i])
  OBVIOUS
<1>1. Commit \/ Rollback
  BY DEF Next, BeginAny, BeginWinddown, BeginTransition, BeginBind, BeginImport, Write,
     SeedLegacy, SeedEvent, InsertBound, BoundEvent, SupersedeEvent, TransitionEvent,
     ToStage, NextItem, External, Capture, ForgetSession, ChangeVisibility, ForgetEvidence,
     PeerEvent, Idle
<1>2. CASE Commit
  <2>1. roots' = wroots /\ events' = wevents /\ pos > Len(plan)
    BY <1>2 DEF Commit, Publish
  <2>2. ASSUME NEW i \in 1 .. Len(plan) PROVE Done(plan[i])
    <3>1. ItemWritten(plan[i])
      BY <2>1 DEF DoneInv, Items, StoreInv, TypeInv, TypeOK
    <3>2. QED
      BY <2>1, <3>1 DEF ItemWritten, NewWritten, Done, Present, HasStanding, IsCurrent,
         EventsOf
  <2>3. QED
    BY <2>2
<1>3. CASE Rollback
  BY <1>3 DEF Rollback, db
<1>4. QED
  BY <1>1, <1>2, <1>3

\* A transaction that ends has left the committed tables as they were or has done
\* every item of its operation, however many there were.
THEOREM OperationsAreWhole == Spec => AllOrNothing
BY EndsWhole, StoreInvariance, DoneInvariance, PTL DEF Spec, AllOrNothing
-----------------------------------------------------------------------------
(* The lifecycle.  A concept's standing is read off its row and its        *)
(* events; what leaves both alone is invisible in the lifecycle.           *)

StandingIn(rts, evs, c) ==
  IF ~Present(rts, c) THEN "absent" ELSE CHOOSE s \in Standing : HasStanding(evs, c, s)

Histories(rts, evs) ==
  /\ evs \in SUBSET Event /\ UniqueIn(evs)
  /\ \A e \in evs : Present(rts, e.concept)
  /\ \A c \in Ids : Present(rts, c) => EventsOf(evs, c) # {}

LEMMA StandingRead ==
  ASSUME NEW rts, NEW evs, Histories(rts, evs), NEW c \in Ids
  PROVE  /\ ~Present(rts, c) => StandingIn(rts, evs, c) = "absent"
         /\ Present(rts, c) => /\ StandingIn(rts, evs, c) \in Standing
                               /\ HasStanding(evs, c, StandingIn(rts, evs, c))
         /\ \A s \in Standing : HasStanding(evs, c, s) => StandingIn(rts, evs, c) = s
<1> DEFINE held == CHOOSE s \in Standing : HasStanding(evs, c, s)
<1>1. CASE ~Present(rts, c)
  <2>1. EventsOf(evs, c) = {}
    BY <1>1 DEF Histories, EventsOf
  <2>2. \A s : ~HasStanding(evs, c, s)
    BY <2>1 DEF HasStanding, IsCurrent
  <2>3. QED
    BY <1>1, <2>2 DEF StandingIn
<1>2. CASE Present(rts, c)
  <2>1. EventsOf(evs, c) # {} /\ evs \in SUBSET Event /\ UniqueIn(evs)
    BY <1>2 DEF Histories
  <2>2. PICK e \in evs : IsCurrent(evs, c, e)
    BY <2>1, CurrentExists
  <2>3. e.standing \in Standing
    BY <2>1 DEF Event
  <2>4. \A s : HasStanding(evs, c, s) <=> s = e.standing
    BY <2>1, <2>2, CurrentUnique DEF HasStanding
  <2>5. held = e.standing
    BY <2>3, <2>4
  <2>6. StandingIn(rts, evs, c) = e.standing
    BY <1>2, <2>5 DEF StandingIn
  <2>7. QED
    BY <1>2, <2>3, <2>4, <2>6
<1>3. QED
  BY <1>1, <1>2

LEMMA StandingSame ==
  ASSUME NEW R, NEW E, NEW Q, NEW F, NEW c, Present(R, c) <=> Present(Q, c),
         EventsOf(E, c) = EventsOf(F, c)
  PROVE  StandingIn(R, E, c) = StandingIn(Q, F, c)
<1>1. \A s : HasStanding(E, c, s) <=> HasStanding(F, c, s)
  BY StandingLocal
<1> DEFINE x == CHOOSE s \in Standing : HasStanding(E, c, s)
           y == CHOOSE s \in Standing : HasStanding(F, c, s)
<1>2. x = y
  BY <1>1
<1>3. /\ StandingIn(R, E, c) = IF ~Present(R, c) THEN "absent" ELSE x
      /\ StandingIn(Q, F, c) = IF ~Present(Q, c) THEN "absent" ELSE y
  BY DEF StandingIn
<1> HIDE DEF x, y
<1>4. QED
  BY <1>2, <1>3

\* The standings before and after a step.
Old == [c \in Ids |-> StandingIn(roots, events, c)]
LifeInv == StoreInv /\ RootInv /\ DoneInv

LEMMA LifeHistories == LifeInv => Histories(roots, events)
BY DEF LifeInv, StoreInv, RootInv, TypeInv, TypeOK, LogInv, KindInv, KindOK, Histories,
   EventsOf

LEMMA LifeStanding ==
  /\ [c \in Ids |-> StandingOf(c)] = Old
  /\ [c \in Ids |-> StandingOf(c)]' = Old'
BY DEF Old, StandingOf, StandingIn

\* What a step that commits leaves of the standings.
LEMMA CommitStandings ==
  ASSUME LifeInv, LifeInv', Commit
  PROVE  /\ \A c \in Ids, s \in Standing : HasStanding(wevents, c, s) => Old'[c] = s
         /\ \A c \in Ids : (\A i \in Items : c # plan[i].new /\ c # plan[i].target)
              => Old'[c] = Old[c]
<1>1. roots' = wroots /\ events' = wevents /\ inTx
  BY DEF Commit, Publish
<1>2. ASSUME NEW c \in Ids, NEW s \in Standing, HasStanding(wevents, c, s)
      PROVE  Old'[c] = s
  <2>1. Histories(roots, events)'
    BY LifeHistories, PTL
  <2>2. QED
    BY <1>1, <1>2, <2>1, StandingRead DEF Old
<1>3. ASSUME NEW c \in Ids, \A i \in Items : c # plan[i].new /\ c # plan[i].target
      PROVE  Old'[c] = Old[c]
  <2>1. ~RowWritten(c)
    BY <1>3 DEF RowWritten
  <2>2. wroots[c] = roots[c]
    BY <1>1, <2>1 DEF LifeInv, StoreInv, PlanInv, Frame
  <2>3. EventsOf(wevents, c) = EventsOf(events, c)
    <3>1. \A e \in wevents : e.concept = c => e \in events
      BY <1>1, <1>3 DEF LifeInv, StoreInv, PlanInv, Frame, EventWritten
    <3>2. QED
      BY <1>1, <3>1 DEF LifeInv, StoreInv, PlanInv, Frame, EventsOf
  <2>4. QED
    BY <1>1, <2>2, <2>3, StandingSame DEF Old, Present
<1>4. QED
  BY <1>2, <1>3

\* Every item of the plan is written when the transaction commits.
LEMMA CommitWritten ==
  ASSUME LifeInv, Commit, NEW i \in Items
  PROVE  ItemWritten(plan[i]) /\ ItemSound(op, plan[i]) /\ ItemShape(op, plan[i])
         /\ plan[i] \in Item
BY DEF LifeInv, DoneInv, Commit, Items, StoreInv, PlanInv, PlanSound, TypeInv, TypeOK

\* How the standings must change for a step to be one of the lifecycle.
Moved(proposed, retired) ==
  \A c \in Ids : Old'[c] = IF c \in proposed THEN "proposed"
                           ELSE IF c \in retired THEN "retired" ELSE Old[c]

LEMMA LifeMove ==
  ASSUME NEW proposed, NEW retired, Moved(proposed, retired)
  PROVE  Lifecycle!Move(proposed, retired)
<1>1. [c \in Ids |-> StandingOf(c)]'
        = [c \in Ids |-> IF c \in proposed THEN "proposed"
                         ELSE IF c \in retired THEN "retired" ELSE Old[c]]
  BY LifeStanding DEF Moved, Old
<1>2. QED
  BY <1>1, LifeStanding DEF Lifecycle!Move

LEMMA LifeSet ==
  ASSUME NEW c \in Ids, NEW s, \A d \in Ids : Old'[d] = IF d = c THEN s ELSE Old[d]
  PROVE  [d \in Ids |-> StandingOf(d)]' = [[d \in Ids |-> StandingOf(d)] EXCEPT ![c] = s]
<1>1. Old' = [Old EXCEPT ![c] = s]
  BY DEF Old
<1>2. QED
  BY <1>1, LifeStanding

LEMMA LifeRetire ==
  ASSUME NEW c \in Ids, Old[c] \in {"proposed", "accepted"},
         \A d \in Ids : Old'[d] = IF d = c THEN "retired" ELSE Old[d]
  PROVE  Lifecycle!Next
<1>1. Lifecycle!Retire(c)
  BY LifeSet, LifeStanding DEF Lifecycle!Retire, Lifecycle!Live
<1>2. QED
  BY <1>1 DEF Lifecycle!Next

LEMMA LifeAccept ==
  ASSUME NEW c \in Ids \ Files, Old[c] = "proposed",
         \A d \in Ids : Old'[d] = IF d = c THEN "accepted" ELSE Old[d]
  PROVE  Lifecycle!Next
<1>1. Lifecycle!Accept(c)
  BY LifeSet, LifeStanding DEF Lifecycle!Accept
<1>2. QED
  BY <1>1 DEF Lifecycle!Next, Lifecycle!Cited

\* The commit of a wind-down proposes all its concepts at once.
LEMMA WinddownStep ==
  ASSUME LifeInv, LifeInv', Commit, op = "winddown"
  PROVE  Lifecycle!Next
<1> DEFINE S == {plan[i].new : i \in Items}
<1>1. inTx
  BY DEF Commit
<1>2. \A i \in Items : plan[i].new \in Assertions /\ plan[i].new # NoId /\ plan[i].target = NoId
  BY CommitWritten, NoIdNotInIds
     DEF LifeInv, StoreInv, TypeInv, PlanOK, NeedsNew, Items, ItemShape, Ids
<1>3. S \in SUBSET (Ids \ Files) /\ S # {}
  <2>1. 1 \in Items
    BY <1>1 DEF LifeInv, StoreInv, PlanInv, PlanSound, Items, TypeInv, TypeOK
  <2>2. QED
    BY <1>2, <2>1, StoreAssumption DEF Ids
<1>4. \A c \in S : Old[c] = "absent"
  <2>1. \A i \in Items : ~Present(roots, plan[i].new)
    BY <1>2, CommitWritten DEF ItemSound
  <2>2. QED
    BY <1>3, <2>1, LifeHistories, StandingRead DEF Old
<1>5. \A c \in S : Old'[c] = "proposed"
  BY <1>2, <1>3, CommitWritten, CommitStandings DEF ItemWritten, NewWritten, Standing
<1>6. \A c \in Ids \ S : Old'[c] = Old[c]
  BY <1>2, CommitStandings, NoIdNotInIds
<1>7. Moved(S, {})
  BY <1>5, <1>6 DEF Moved
<1>8. Lifecycle!Propose(S)
  BY <1>3, <1>4, <1>7, LifeMove, LifeStanding DEF Lifecycle!Propose, Lifecycle!All
<1>9. QED
  BY <1>3, <1>8 DEF Lifecycle!Next, Lifecycle!Cited

LEMMA OneItem ==
  ASSUME LifeInv, Commit, op \in {"transition", "bind"}
  PROVE  Items = {1} /\ plan[1].target \in Ids /\ plan[1].target # NoId
<1>1. Items = {1}
  <2>1. Len(plan) \in Nat /\ Len(plan) >= 1 /\ Len(plan) <= 1
    BY DEF Commit, LifeInv, StoreInv, PlanInv, PlanSound, TypeInv, TypeOK
  <2>2. QED
    BY <2>1 DEF Items
<1>2. QED
  BY <1>1, NoIdNotInIds DEF LifeInv, StoreInv, TypeInv, PlanOK, NeedsTarget, Items

LEMMA TransitionStep ==
  ASSUME LifeInv, LifeInv', Commit, op = "transition"
  PROVE  Lifecycle!Next
<1> DEFINE c == plan[1].target
           s == plan[1].standing
<1>1. /\ Items = {1} /\ c \in Ids /\ c # NoId /\ plan[1].new = NoId
      /\ s \in {"accepted", "retired"}
      /\ Present(roots, c) /\ ~IsRetired(events, c)
      /\ s = "accepted" => AllProposed(events, c)
      /\ HasStanding(wevents, c, s)
  BY OneItem, CommitWritten DEF ItemShape, ItemSound, ItemWritten
<1>2. s = "accepted" => c \notin Files
  BY <1>1 DEF LifeInv, StoreInv, KindInv, PlannedKinds, Items
<1> HIDE DEF c, s
<1>3. Old'[c] = s
  BY <1>1, CommitStandings DEF Standing
<1>4. \A d \in Ids : d # c => Old'[d] = Old[d]
  BY <1>1, CommitStandings, NoIdNotInIds DEF c
<1>5. /\ Old[c] \in Standing /\ HasStanding(events, c, Old[c])
      /\ events \in SUBSET Event /\ UniqueIn(events)
  BY <1>1, LifeHistories, StandingRead DEF Old, Histories
<1>6. Old[c] # "retired" /\ (s = "accepted" => Old[c] = "proposed")
  BY <1>1, <1>5, StandingMeans DEF Standing, IsAccepted, AllProposed
<1>7. CASE s = "retired"
  BY <1>1, <1>3, <1>4, <1>5, <1>6, <1>7, LifeRetire DEF Standing
<1>8. CASE s = "accepted"
  BY <1>1, <1>2, <1>3, <1>4, <1>6, <1>8, LifeAccept
<1>9. QED
  BY <1>1, <1>7, <1>8

LEMMA BindStep ==
  ASSUME LifeInv, LifeInv', Commit, op = "bind"
  PROVE  Lifecycle!Next
<1> DEFINE f == plan[1].target
           c == plan[1].new
<1>1. /\ Items = {1} /\ f \in Files /\ f \in Ids
      /\ plan[1].standing = "retired" /\ f # NoId
  BY OneItem, CommitWritten DEF ItemShape
<1>2. c \in Assertions /\ c \in Ids \ Files /\ c # NoId /\ c # f
  BY <1>1, StoreAssumption DEF LifeInv, StoreInv, TypeInv, PlanOK, NeedsNew, Items, Ids
<1>3. /\ Present(roots, f) /\ ~IsRetired(events, f) /\ ~Present(roots, c)
      /\ HasStanding(wevents, f, "retired") /\ HasStanding(wevents, c, "proposed")
  BY <1>1, <1>2, CommitWritten DEF ItemSound, ItemWritten, NewWritten
<1> HIDE DEF f, c
<1>4. Old'[f] = "retired" /\ Old'[c] = "proposed"
  BY <1>1, <1>2, <1>3, CommitStandings DEF Standing
<1>5. \A d \in Ids : d # c /\ d # f => Old'[d] = Old[d]
  BY <1>1, CommitStandings DEF c, f
<1>6. Old[f] \in {"proposed", "accepted"}
  <2>1. /\ Old[f] \in Standing /\ HasStanding(events, f, Old[f])
        /\ events \in SUBSET Event /\ UniqueIn(events)
    BY <1>1, <1>3, LifeHistories, StandingRead DEF Old, Histories
  <2>2. QED
    BY <1>3, <2>1, StandingMeans DEF Standing
<1>7. Old[c] = "absent"
  BY <1>2, <1>3, LifeHistories, StandingRead DEF Old
<1>8. Moved({c}, {f})
  BY <1>2, <1>4, <1>5 DEF Moved
<1>9. Lifecycle!Bind(f, c)
  BY <1>1, <1>2, <1>6, <1>7, <1>8, LifeMove, LifeStanding DEF Lifecycle!Bind, Lifecycle!Live
<1>10. QED
  BY <1>1, <1>2, <1>9 DEF Lifecycle!Next, Lifecycle!Cited

\* An import adds its legacy concepts, and retires at once those whose statement it
\* found; each of these has a successor of its own.
LEMMA ImportStep ==
  ASSUME LifeInv, LifeInv', Commit, op = "import"
  PROVE  Lifecycle!Next
<1> DEFINE bare == {i \in Items : plan[i].new = NoId}
           full == {i \in Items : plan[i].new # NoId}
           unbound == {plan[i].target : i \in bare}
           bound == {plan[i].target : i \in full}
           successors == {plan[i].new : i \in full}
<1>1. \A i \in Items :
        /\ plan[i].target \in Files /\ plan[i].target # NoId
        /\ plan[i].standing = "retired" /\ ~Present(roots, plan[i].target)
        /\ plan[i].new # NoId => /\ plan[i].new \in Assertions
                                 /\ ~Present(roots, plan[i].new)
                                 /\ HasStanding(wevents, plan[i].new, "proposed")
                                 /\ HasStanding(wevents, plan[i].target, "retired")
        /\ plan[i].new = NoId => HasStanding(wevents, plan[i].target, "proposed")
  <2> TAKE i \in Items
  <2>1. /\ plan[i].target \in Files /\ plan[i].standing = "retired"
        /\ plan[i].target # NoId /\ ~Present(roots, plan[i].target)
    BY CommitWritten, NoIdNotInIds DEF ItemShape, ItemSound, Ids
  <2>2. plan[i].new # NoId => plan[i].new \in Assertions /\ ~Present(roots, plan[i].new)
    BY CommitWritten DEF ItemSound, Item
  <2>3. QED
    BY <2>1, <2>2, CommitWritten DEF ItemWritten, NewWritten
<1>2. \A i, j \in Items : i # j =>
        /\ plan[i].target # plan[j].target
        /\ plan[i].new = plan[j].new => plan[i].new = NoId
  BY <1>1 DEF LifeInv, StoreInv, PlanInv, PlanSound, DistinctItems, Items
<1>3. Assertions \cap Files = {} /\ Ids = Assertions \cup Files
  BY StoreAssumption DEF Ids
<1>4. /\ unbound \in SUBSET Files /\ bound \in SUBSET Files
      /\ successors \in SUBSET (Ids \ Files) /\ unbound \cap bound = {}
  BY <1>1, <1>2, <1>3
<1>5. \E succ \in [bound -> successors] :
        /\ \A s \in successors : \E f \in bound : succ[f] = s
        /\ \A f, g \in bound : succ[f] = succ[g] => f = g
  <2> DEFINE of(f) == CHOOSE i \in full : plan[i].target = f
             succ == [f \in bound |-> plan[of(f)].new]
  <2>1. \A f \in bound : of(f) \in full /\ plan[of(f)].target = f
    OBVIOUS
  <2>2. \A i \in full : of(plan[i].target) = i
    BY <1>2, <2>1
  <2> HIDE DEF of
  <2>3. succ \in [bound -> successors]
    BY <2>1
  <2>4. \A s \in successors : \E f \in bound : succ[f] = s
    BY <2>2
  <2>5. \A f, g \in bound : succ[f] = succ[g] => f = g
    BY <1>2, <2>1
  <2>6. QED
    BY <2>3, <2>4, <2>5
<1>6. \A c \in unbound \cup bound \cup successors : c \in Ids /\ Old[c] = "absent"
  <2>1. \A c \in unbound \cup bound \cup successors : c \in Ids /\ ~Present(roots, c)
    BY <1>1, <1>3
  <2>2. QED
    BY <2>1, LifeHistories, StandingRead DEF Old
<1>7. Moved(unbound \cup successors, bound)
  <2>1. \A c \in unbound \cup successors : HasStanding(wevents, c, "proposed") /\ c \in Ids
    BY <1>1, <1>6
  <2>2. \A c \in bound : HasStanding(wevents, c, "retired") /\ c \in Ids
    BY <1>1, <1>6
  <2>3. ASSUME NEW c \in Ids, c \notin unbound \cup bound \cup successors
        PROVE  Old'[c] = Old[c]
    <3>1. \A i \in Items : c # plan[i].new /\ c # plan[i].target
      BY <2>3, NoIdNotInIds
    <3>2. QED
      BY <3>1, CommitStandings
  <2> HIDE DEF unbound, bound, successors
  <2>4. (unbound \cup successors) \cap bound = {}
    BY <1>4
  <2>5. \A c \in unbound \cup successors : Old'[c] = "proposed"
    BY <2>1, CommitStandings DEF Standing
  <2>6. \A c \in bound : Old'[c] = "retired"
    BY <2>2, CommitStandings DEF Standing
  <2>7. QED
    BY <2>3, <2>4, <2>5, <2>6 DEF Moved
<1> HIDE DEF unbound, bound, successors
<1>8. Lifecycle!Import(unbound, bound, successors)
  <2>1. Lifecycle!Move(unbound \cup successors, bound)
    BY <1>7, LifeMove
  <2>2. Lifecycle!All(unbound \cup bound \cup successors, "absent")
    BY <1>6, LifeStanding DEF Lifecycle!All
  <2>3. QED
    BY <1>4, <1>5, <2>1, <2>2 DEF Lifecycle!Import
<1>9. QED
  BY <1>4, <1>8 DEF Lifecycle!Next, Lifecycle!Cited

\* Forgetting takes roots with their events: their concepts are absent again.
LEMMA ForgetStep ==
  ASSUME LifeInv, LifeInv', NEW gone \in SUBSET Ids, Cascade(gone)
  PROVE  Lifecycle!Next
<1>1. /\ events' = {e \in events : e.concept \notin gone}
      /\ \A c \in Ids : roots'[c] = IF c \in gone THEN NoRoot ELSE roots[c]
  BY DEF Cascade
<1>2. \A c \in gone : Old'[c] = "absent"
  BY <1>1 DEF Old, StandingIn, Present
<1>3. ASSUME NEW c \in Ids \ gone PROVE Old'[c] = Old[c]
  <2>1. EventsOf(events', c) = EventsOf(events, c) /\ roots'[c] = roots[c]
    BY <1>1 DEF EventsOf
  <2>2. QED
    BY <2>1, StandingSame DEF Old, Present
<1>4. Old' = [c \in Ids |-> IF c \in gone THEN "absent" ELSE Old[c]]
  BY <1>2, <1>3 DEF Old
<1>5. Lifecycle!Forget(gone)
  BY <1>4, LifeStanding DEF Lifecycle!Forget
<1>6. QED
  BY <1>5 DEF Lifecycle!Next

\* A replica's event moves its concept on, or arrives too late to.
LEMMA PeerStep ==
  ASSUME LifeInv, LifeInv', NEW p \in Peers, NEW seq \in 1 .. MaxPeerSeq,
         NEW e \in events, NEW s \in Standing, PeerEvent(p, seq, e, s)
  PROVE  Lifecycle!Next \/ Old' = Old
<1>1. PICK n : /\ events' = events \cup {n} /\ n.concept = e.concept /\ n.standing = s
  BY PeerAdds DEF LifeInv, StoreInv
<1> DEFINE c == e.concept
<1>2. /\ roots' = roots /\ s \in {"accepted", "retired"} /\ c \in Ids /\ Present(roots, c)
      /\ c \in Files => s = "retired"
  BY DEF PeerEvent, LifeInv, StoreInv, TypeInv, TypeOK, Event, KindInv, KindOK
<1>3. \A d \in Ids : d # c => Old'[d] = Old[d]
  <2>1. \A d : d # c => EventsOf(events', d) = EventsOf(events, d)
    BY <1>1 DEF EventsOf
  <2>2. QED
    BY <1>2, <2>1, StandingSame DEF Old
<1>4. /\ Histories(roots, events) /\ Histories(roots, events)'
      /\ Old[c] = StandingIn(roots, events, c) /\ Old'[c] = StandingIn(roots', events', c)
  <2>1. Histories(roots, events) /\ Histories(roots, events)'
    BY LifeHistories, PTL
  <2>2. QED
    BY <1>2, <2>1 DEF Old
<1>5. /\ Old[c] \in Standing /\ HasStanding(events, c, Old[c])
      /\ events \in SUBSET Event /\ UniqueIn(events)
  <2>1. StandingIn(roots, events, c) \in Standing
        /\ HasStanding(events, c, StandingIn(roots, events, c))
    BY <1>2, <1>4, StandingRead
  <2>2. QED
    BY <1>4, <2>1 DEF Histories
<1>6. /\ Old'[c] \in Standing /\ HasStanding(events', c, Old'[c])
      /\ events' \in SUBSET Event /\ UniqueIn(events')
  BY <1>2, <1>4, StandingRead DEF Histories, Present
<1>7. /\ IsRetired(events', c) <=> IsRetired(events, c) \/ s = "retired"
      /\ IsAccepted(events', c) <=> IsAccepted(events, c) \/ s = "accepted"
  BY <1>1 DEF IsRetired, IsAccepted, EventsOf
<1> HIDE DEF c
<1>8. /\ Old[c] = "retired" <=> IsRetired(events, c)
      /\ Old[c] = "accepted" <=> IsAccepted(events, c) /\ ~IsRetired(events, c)
  BY <1>5, StandingMeans, StandingRead, <1>2, <1>4 DEF Standing
<1>9. /\ Old'[c] = "retired" <=> IsRetired(events', c)
      /\ Old'[c] = "accepted" <=> IsAccepted(events', c) /\ ~IsRetired(events', c)
  BY <1>6, StandingMeans, StandingRead, <1>2, <1>4 DEF Standing
<1>10. CASE Old'[c] = Old[c]
  <2>1. Old' = Old
    BY <1>3, <1>10 DEF Old
  <2>2. QED
    BY <2>1
<1>11. CASE Old'[c] # Old[c] /\ s = "retired"
  <2>1. Old[c] \in {"proposed", "accepted"} /\ Old'[c] = "retired"
    BY <1>5, <1>7, <1>8, <1>9, <1>11 DEF Standing
  <2>2. QED
    BY <1>2, <1>3, <2>1, LifeRetire
<1>12. CASE Old'[c] # Old[c] /\ s = "accepted"
  <2>1. Old[c] = "proposed" /\ Old'[c] = "accepted" /\ c \notin Files
    BY <1>2, <1>5, <1>6, <1>7, <1>8, <1>9, <1>12 DEF Standing
  <2>2. QED
    BY <1>2, <1>3, <2>1, LifeAccept
<1>13. QED
  BY <1>2, <1>10, <1>11, <1>12

LEMMA LifeStep ==
  LifeInv /\ LifeInv' /\ [Next]_vars
    => [Lifecycle!Next]_([c \in Ids |-> StandingOf(c)])
<1> SUFFICES ASSUME LifeInv, LifeInv', [Next]_vars
             PROVE  Lifecycle!Next \/ Old' = Old
  BY LifeStanding
<1>1. CASE UNCHANGED <<roots, events>>
  BY <1>1 DEF Old
<1>2. CASE BeginAny \/ Write \/ Rollback \/ UNCHANGED vars
  <2>1. UNCHANGED <<roots, events>>
    BY <1>2 DEF BeginAny, BeginWinddown, BeginTransition, BeginBind, BeginImport, Begin,
       Write, SeedLegacy, SeedEvent, InsertBound, BoundEvent, SupersedeEvent,
       TransitionEvent, ToStage, NextItem, Rollback, vars
  <2>2. QED
    BY <1>1, <2>1
<1>3. CASE Commit
  BY <1>3, WinddownStep, TransitionStep, BindStep, ImportStep
     DEF LifeInv, StoreInv, TypeInv, TypeOK, Ops
<1>4. CASE External
  <2>1. CASE (\E s \in Sessions : Capture(s)) \/ ChangeVisibility
    BY <1>1, <2>1 DEF Capture, ChangeVisibility
  <2>2. CASE \E s \in Sessions : ForgetSession(s)
    BY <2>2, ForgetStep DEF ForgetSession
  <2>3. CASE \E e \in Evidence : ForgetEvidence(e)
    BY <2>3, ForgetStep DEF ForgetEvidence
  <2>4. CASE \E p \in Peers, seq \in 1 .. MaxPeerSeq, e \in events, s \in Standing :
               PeerEvent(p, seq, e, s)
    BY <2>4, PeerStep
  <2>5. QED
    BY <1>4, <2>1, <2>2, <2>3, <2>4 DEF External
<1>5. QED
  BY <1>2, <1>3, <1>4 DEF Next

LEMMA LifeInit == Init => Lifecycle!Init
BY DEF Init, Lifecycle!Init, StandingOf, Present

LEMMA LifeInvariance == Spec => []LifeInv
<1>1. Spec => []RootInv
  BY InitRoots, NextRoots, StoreInvariance, PTL DEF Spec
<1>2. QED
  BY <1>1, StoreInvariance, DoneInvariance, PTL DEF LifeInv

\* The store implements the lifecycle: a commit is one of its steps, however many rows
\* and events it writes; so is each forgetting; a replica's event is one or none; and
\* everything else, the open transaction included, cannot be seen in it.
THEOREM StoreImplementsLifecycle == Spec => ImplementsLifecycle
BY LifeInit, LifeStep, LifeInvariance, PTL DEF Spec, ImplementsLifecycle, Lifecycle!Spec
=============================================================================
