--------------------------- MODULE OntologyProofs ---------------------------
(***************************************************************************)
(* Theorems about the ontology tables: a rebuild of either mode heals, and *)
(* while no message is rewritten without a newer updated_at an incremental *)
(* rebuild is a full one and a healthy status means current tables.        *)
(*                                                                         *)
(* The inductive invariant follows each recorded session through what the  *)
(* source does to it after the rebuild: it is newer than the rebuild, or   *)
(* has more messages than were recorded, or is exactly as it was.  Newer   *)
(* is what the planner and the status both see; and as a count can only    *)
(* have grown, equal totals mean equal counts.                             *)
(***************************************************************************)
EXTENDS OntologyBuild, TLAPS, FiniteSetTheorems, SequenceTheorems
-----------------------------------------------------------------------------
(* The inductive invariant.                                                *)

Hashed == live.state.hash

\* The source and the tables are of their kinds.
SourceInv ==
  /\ live = [rows |-> live.rows, graph |-> live.graph, state |-> live.state]
  /\ IsFiniteSet(Present)

\* What the last rebuild recorded is of a time before now, of one version, with a
\* project row for each session it counted; since then rows can only have gone.
RecordInv ==
  live.state # NoState =>
    /\ live.state = [version |-> live.state.version, hash |-> Hashed,
                     completed |-> live.state.completed, sessions |-> live.state.sessions,
                     messages |-> live.state.messages, counted |-> live.state.counted]
    /\ live.state.version \in Versions
    /\ live.state.completed # Garbled =>
         live.state.completed \in Times /\ live.state.completed < clock
    /\ live.rows \subseteq Hashed.rows /\ live.graph = Hashed.graph
    /\ live.graph = [sessions |-> live.graph.sessions,
                     links |-> {<<r.session, r.type>> :
                                  r \in {q \in Hashed.rows : q.type # "project"}}]
    /\ \A r \in Hashed.rows : r.session \in Counted /\ r.version = live.state.version
    /\ \A s \in Counted : \E r \in Hashed.rows : r.session = s /\ r.type = "project"
    /\ IsFiniteSet(Counted) /\ CountsRecorded
    /\ live.graph.sessions = [s \in Counted |-> live.graph.sessions[s]]
    /\ \A s \in Counted : live.graph.sessions[s].messages \in Nat

\* The rows of session s as a rebuild of version v extracts them.
ProjectAt(s, v) == [ProjectRow(s) EXCEPT !.version = v]
MentionAt(s, i, v) == [MentionRow(s, i) EXCEPT !.version = v]
RowsAt(s, v) == {ProjectAt(s, v)} \cup {MentionAt(s, i, v) : i \in FirstMentions(s)}

Unchanged(s) ==
  /\ live.graph.sessions[s] =
       [messages |-> Len(source[s].messages), updated |-> source[s].updated,
        project |-> source[s].path]
  /\ {r \in live.rows : r.session = s} = RowsAt(s, live.state.version)

Grown(s) == Len(source[s].messages) > live.graph.sessions[s].messages

\* A session recorded in intact tables is newer, has grown or is as it was.
Intact == live.state # NoState /\ live.state.completed # Garbled /\ live.rows = Hashed.rows
FaithInv ==
  ~SilentEdits /\ Intact =>
    \A s \in Present \cap Counted : Newer(s) \/ Grown(s) \/ Unchanged(s)
OntologyInv == TypeOK /\ SourceInv /\ RecordInv /\ FaithInv

-----------------------------------------------------------------------------
(* Counting.                                                               *)

Counters(count) == UNION {{s} \X (1 .. count[s]) : s \in DOMAIN count}

LEMMA CountersFinite ==
  ASSUME NEW S, IsFiniteSet(S), NEW count \in [S -> Nat]
  PROVE  IsFiniteSet(Counters(count))
<1> DEFINE Op(s) == {s} \X (1 .. count[s])
           T == {Op(s) : s \in S}
<1>1. IsFiniteSet(T)
  <2> DEFINE op == [s \in S |-> Op(s)]
  <2>1. op \in Surjection(S, T)
    BY DEF Surjection
  <2>2. QED
    BY <2>1, FS_Surjection
<1>2. ASSUME NEW t \in T PROVE IsFiniteSet(t)
  <2>1. PICK s \in S : t = {s} \X (1 .. count[s])
    OBVIOUS
  <2>2. 1 \in Int /\ count[s] \in Int
    BY <2>1
  <2>3. IsFiniteSet({s}) /\ IsFiniteSet(1 .. count[s])
    BY <2>2, FS_Singleton, FS_Interval
  <2>4. QED
    BY <2>1, <2>3, FS_Product
<1>3. Counters(count) = UNION T
  BY DEF Counters
<1>4. QED
  BY <1>1, <1>2, <1>3, FS_UNION

\* Counts that are nowhere less and equal in total are equal.
LEMMA EqualTotals ==
  ASSUME NEW S, IsFiniteSet(S), NEW f \in [S -> Nat], NEW g \in [S -> Nat],
         \A s \in S : f[s] <= g[s], Total(f) = Total(g)
  PROVE  \A s \in S : f[s] = g[s]
<1>1. Counters(f) \subseteq Counters(g)
  <2> SUFFICES ASSUME NEW x \in Counters(f) PROVE x \in Counters(g)
    OBVIOUS
  <2>1. PICK s \in S : x \in {s} \X (1 .. f[s])
    BY DEF Counters
  <2>2. f[s] \in Nat /\ g[s] \in Nat /\ f[s] <= g[s]
    OBVIOUS
  <2>3. 1 .. f[s] \subseteq 1 .. g[s]
    BY <2>2
  <2>4. x \in {s} \X (1 .. g[s])
    BY <2>1, <2>3
  <2>5. QED
    BY <2>4 DEF Counters
<1>2. IsFiniteSet(Counters(g)) /\ Cardinality(Counters(f)) = Cardinality(Counters(g))
  BY CountersFinite DEF Counters, Total
<1>3. Counters(f) = Counters(g)
  BY <1>1, <1>2, FS_Subset
<1>4. ASSUME NEW s \in S, f[s] # g[s] PROVE FALSE
  <2>1. g[s] \in 1 .. g[s] /\ g[s] \notin 1 .. f[s]
    BY <1>4
  <2>2. <<s, g[s]>> \in Counters(g)
    BY <2>1 DEF Counters
  <2>3. PICK t \in S : <<s, g[s]>> \in {t} \X (1 .. f[t])
    BY <1>3, <2>2 DEF Counters
  <2>4. t = s /\ g[s] \in 1 .. f[s]
    BY <2>3
  <2>5. QED
    BY <2>1, <2>4
<1>5. QED
  BY <1>4

\* No count exceeds the total.
LEMMA CountInTotal ==
  ASSUME NEW S, IsFiniteSet(S), NEW f \in [S -> Nat], NEW s \in S
  PROVE  f[s] <= Total(f) /\ Total(f) \in Nat
<1> DEFINE T == {s} \X (1 .. f[s])
<1>1. IsFiniteSet(Counters(f)) /\ T \subseteq Counters(f)
  BY CountersFinite DEF Counters
<1>2. /\ IsFiniteSet({s}) /\ Cardinality({s}) = 1
      /\ IsFiniteSet(1 .. f[s]) /\ Cardinality(1 .. f[s]) = f[s]
  <2>1. f[s] \in Nat
    OBVIOUS
  <2>2. 1 \in Int /\ f[s] \in Int /\ f[s] >= 0
    BY <2>1
  <2>3. /\ IsFiniteSet(1 .. f[s])
        /\ Cardinality(1 .. f[s]) = IF 1 > f[s] THEN 0 ELSE f[s] - 1 + 1
    BY <2>2, FS_Interval
  <2>4. Cardinality(1 .. f[s]) = f[s]
    BY <2>2, <2>3
  <2>5. QED
    BY <2>3, <2>4, FS_Singleton
<1>3. Cardinality(T) = 1 * f[s]
  <2>1. Cardinality(T) = Cardinality({s}) * Cardinality(1 .. f[s])
    BY <1>2, FS_Product
  <2>2. QED
    BY <1>2, <2>1
<1>4. Cardinality(T) <= Cardinality(Counters(f)) /\ Cardinality(Counters(f)) \in Nat
  BY <1>1, FS_Subset, FS_CardinalityType
<1>5. Cardinality(T) = f[s]
  BY <1>3
<1>6. Total(f) = Cardinality(Counters(f))
  BY DEF Total, Counters
<1>7. QED
  BY <1>4, <1>5, <1>6

-----------------------------------------------------------------------------
(* What an export does to one session.                                     *)

LEMMA MessagesAreSeqs ==
  /\ \A q : q \in Messages <=> q \in Seq(Message) /\ Len(q) <= MaxMessages
<1>1. ASSUME NEW q \in Messages PROVE q \in Seq(Message) /\ Len(q) <= MaxMessages
  <2>1. PICK n \in 0 .. MaxMessages : q \in [1 .. n -> Message]
    BY DEF Messages
  <2>2. n \in Nat /\ n <= MaxMessages
    BY <2>1, OntologyAssumption
  <2>3. QED
    BY <2>1, <2>2
<1>2. ASSUME NEW q \in Seq(Message), Len(q) <= MaxMessages PROVE q \in Messages
  <2>1. Len(q) \in 0 .. MaxMessages /\ q \in [1 .. Len(q) -> Message]
    BY <1>2, OntologyAssumption, LenProperties
  <2>2. QED
    BY <2>1 DEF Messages
<1>3. QED
  BY <1>1, <1>2

LEMMA RevisedMessages ==
  ASSUME NEW q \in Messages
  PROVE  Revised(q) \subseteq Messages
<1>1. q \in Seq(Message) /\ Len(q) \in Nat /\ Len(q) <= MaxMessages /\ DOMAIN q = 1 .. Len(q)
  BY MessagesAreSeqs, LenProperties
<1>2. ASSUME NEW i \in DOMAIN q, NEW m \in Message PROVE [q EXCEPT ![i] = m] \in Messages
  <2>1. [q EXCEPT ![i] = m] \in Seq(Message) /\ Len([q EXCEPT ![i] = m]) = Len(q)
    BY <1>1, ExceptSeq
  <2>2. QED
    BY <1>1, <2>1, MessagesAreSeqs
<1>3. ASSUME NEW i \in DOMAIN q PROVE RemoveAt(q, i) \in Messages
  <2>1. i \in 1 .. Len(q)
    BY <1>1
  <2> DEFINE a == SubSeq(q, 1, i - 1)
             b == SubSeq(q, i + 1, Len(q))
  <2>2. a \in Seq(Message) /\ Len(a) = i - 1
    <3>1. \A j \in 1 .. i - 1 : q[j] \in Message
      BY <1>1, <2>1, ElementOfSeq
    <3>2. i - 1 \in Int
      BY <2>1
    <3>3. a \in Seq(Message) /\ Len(a) = IF 1 <= i - 1 THEN (i - 1) - 1 + 1 ELSE 0
      BY <3>1, <3>2, SubSeqProperties
    <3>4. QED
      BY <3>3, <2>1
  <2>3. b \in Seq(Message) /\ Len(b) = Len(q) - i
    <3>1. \A j \in i + 1 .. Len(q) : q[j] \in Message
      BY <1>1, <2>1, ElementOfSeq
    <3>2. i + 1 \in Int /\ Len(q) \in Int
      BY <1>1, <2>1
    <3>3. b \in Seq(Message) /\ Len(b) = IF i + 1 <= Len(q) THEN Len(q) - (i + 1) + 1 ELSE 0
      BY <3>1, <3>2, SubSeqProperties
    <3>4. QED
      BY <3>3, <1>1, <2>1
  <2> HIDE DEF a, b
  <2>4. a \o b \in Seq(Message) /\ Len(a \o b) = Len(a) + Len(b)
    BY <2>2, <2>3, ConcatProperties
  <2>5. Len(a \o b) <= MaxMessages
    BY <1>1, <2>1, <2>2, <2>3, <2>4, OntologyAssumption
  <2>6. a \o b \in Messages
    BY <2>4, <2>5, MessagesAreSeqs
  <2>7. QED
    BY <2>6 DEF RemoveAt, a, b
<1>4. QED
  BY <1>2, <1>3 DEF Revised

\* An export leaves session s as x: stored anew, with a message more, or rewritten.
Exported(s, x) ==
  /\ source' = [y \in Present \cup {s} |-> IF y = s THEN x ELSE source[y]]
  /\ UNCHANGED <<live, version, clock>>
  /\ \/ /\ s \notin Present
        /\ x.updated \in Stamps \/ \A r \in live.rows : r.session # s
     \/ /\ s \in Present
        /\ x.updated \in Stamps \/ (SilentEdits /\ x.updated = source[s].updated)
     \/ /\ s \in Present /\ x.updated = source[s].updated
        /\ Len(x.messages) = Len(source[s].messages) + 1

LEMMA PresentSessions ==
  ASSUME TypeOK, NEW s \in Present
  PROVE  /\ s \in Sessions /\ source[s] \in Session
         /\ source[s].messages \in Messages /\ source[s].messages \in Seq(Message)
         /\ Len(source[s].messages) \in Nat
         /\ source[s].path \in Paths /\ source[s].updated \in Times \cup {Never, Garbled}
         /\ source[s] = [path |-> source[s].path, updated |-> source[s].updated,
                         messages |-> source[s].messages]
<1>1. s \in Sessions /\ source[s] \in Session
  BY DEF TypeOK
<1>2. source[s].messages \in Messages
  BY <1>1 DEF Session
<1>3. QED
  BY <1>1, <1>2, MessagesAreSeqs, LenProperties DEF Session

\* A stamp is a time, and not before the clock.
LEMMA StampTimes ==
  ASSUME TypeOK
  PROVE  Stamps \subseteq Times /\ \A u \in Stamps : u \in Nat /\ u >= clock
<1>1. clock \in Nat /\ MaxTime \in Nat
  BY OntologyAssumption DEF TypeOK, Times
<1>2. QED
  BY <1>1 DEF Stamps, Times

LEMMA StoreSessionStep ==
  ASSUME TypeOK, NEW s \in Sessions, StoreSession(s)
  PROVE  \E x \in Session : Exported(s, x)
<1>1. PICK p \in Paths, u \in Stamps \cup {Never, Garbled} :
        /\ u \in Stamps \/ \A r \in live.rows : r.session # s
        /\ Store([x \in Present \cup {s} |->
             IF x = s THEN [path |-> p, updated |-> u, messages |-> <<>>] ELSE source[x]])
  BY DEF StoreSession
<1>2. <<>> \in Seq(Message) /\ Len(<<>>) = 0
  OBVIOUS
<1>3. <<>> \in Messages
  <2>1. 0 <= MaxMessages
    BY OntologyAssumption
  <2>2. QED
    BY <1>2, <2>1, MessagesAreSeqs
<1> DEFINE x == [path |-> p, updated |-> u, messages |-> <<>>]
<1>4. x \in Session
  BY <1>3, StampTimes DEF Session
<1>5. Exported(s, x)
  BY <1>1 DEF StoreSession, Store, Exported
<1>6. QED
  BY <1>4, <1>5

LEMMA StoreMessageStep ==
  ASSUME TypeOK, SourceInv, NEW s \in Sessions, StoreMessage(s)
  PROVE  \E x \in Session : Exported(s, x)
<1>1. s \in Present /\ MessageTotal < MaxMessages
  BY DEF StoreMessage
<1>2. PICK m \in Message, u \in Stamps \cup {source[s].updated} :
        \E ms \in {<<m>> \o source[s].messages, Append(source[s].messages, m)} :
          Store([source EXCEPT ![s].updated = u, ![s].messages = ms])
  BY DEF StoreMessage
<1>3. PICK ms \in {<<m>> \o source[s].messages, Append(source[s].messages, m)} :
        Store([source EXCEPT ![s].updated = u, ![s].messages = ms])
  BY <1>2
<1>4. source[s].messages \in Seq(Message) /\ Len(source[s].messages) \in Nat
  BY <1>1, PresentSessions
<1>5. ms \in Seq(Message) /\ Len(ms) = Len(source[s].messages) + 1
  <2>1. <<m>> \in Seq(Message) /\ Len(<<m>>) = 1
    OBVIOUS
  <2>2. /\ <<m>> \o source[s].messages \in Seq(Message)
        /\ Len(<<m>> \o source[s].messages) = 1 + Len(source[s].messages)
    BY <1>4, <2>1, ConcatProperties
  <2>3. /\ Append(source[s].messages, m) \in Seq(Message)
        /\ Len(Append(source[s].messages, m)) = Len(source[s].messages) + 1
    BY <1>4, AppendProperties
  <2>4. CASE ms = <<m>> \o source[s].messages
    BY <1>4, <2>2, <2>4
  <2>5. CASE ms = Append(source[s].messages, m)
    BY <2>3, <2>5
  <2>6. QED
    BY <1>3, <2>4, <2>5
<1>6. Len(source[s].messages) < MaxMessages
  <2> DEFINE f == [y \in Present |-> Len(source[y].messages)]
  <2>1. IsFiniteSet(Present) /\ f \in [Present -> Nat]
    BY PresentSessions DEF SourceInv
  <2>2. f[s] <= Total(f) /\ Total(f) \in Nat
    BY <1>1, <2>1, CountInTotal
  <2>3. f[s] = Len(source[s].messages) /\ Total(f) = MessageTotal
    BY <1>1 DEF MessageTotal
  <2>4. QED
    BY <1>1, <1>4, <2>2, <2>3, OntologyAssumption
<1>7. ms \in Messages
  BY <1>4, <1>5, <1>6, MessagesAreSeqs, OntologyAssumption
<1> DEFINE x == [path |-> source[s].path, updated |-> u, messages |-> ms]
<1>8. x \in Session /\ source[s] \in Session
  BY <1>1, <1>2, <1>7, PresentSessions, StampTimes DEF Session
<1>9. source' = [y \in Present \cup {s} |-> IF y = s THEN x ELSE source[y]]
  <2>1. source' = [source EXCEPT ![s].updated = u, ![s].messages = ms]
    BY <1>3 DEF Store
  <2>2. source' = [y \in Present |->
                     IF y = s THEN [source[s] EXCEPT !.updated = u, !.messages = ms] ELSE source[y]]
    BY <1>1, <2>1 DEF Present
  <2>3. [source[s] EXCEPT !.updated = u, !.messages = ms] = x
    <3>1. source[s] = [path |-> source[s].path, updated |-> source[s].updated,
                       messages |-> source[s].messages]
      BY <1>1, PresentSessions
    <3>2. [source[s] EXCEPT !.updated = u]
            = [path |-> source[s].path, updated |-> u, messages |-> source[s].messages]
      BY <3>1
    <3>3. [[path |-> source[s].path, updated |-> u, messages |-> source[s].messages]
             EXCEPT !.messages = ms] = x
      OBVIOUS
    <3>4. QED
      BY <3>2, <3>3
  <2>4. Present \cup {s} = Present
    BY <1>1
  <2>5. QED
    BY <2>2, <2>3, <2>4
<1>10. u \in Stamps \/ u = source[s].updated
  BY <1>2
<1>11. Exported(s, x)
  <2>1. CASE u \in Stamps
    BY <1>1, <1>3, <1>9, <2>1 DEF Store, Exported
  <2>2. CASE u = source[s].updated
    BY <1>1, <1>3, <1>5, <1>9, <2>2 DEF Store, Exported
  <2>3. QED
    BY <1>10, <2>1, <2>2
<1>12. QED
  BY <1>8, <1>11

LEMMA RewriteStep ==
  ASSUME TypeOK, NEW s \in Sessions, Rewrite(s)
  PROVE  \E x \in Session : Exported(s, x)
<1>1. s \in Present
  BY DEF Rewrite
<1>2. PICK p \in Paths, ms \in Revised(source[s].messages),
           u \in Stamps \cup {source[s].updated} :
        /\ u \in Stamps \/ SilentEdits
        /\ Store([source EXCEPT ![s] = [path |-> p, updated |-> u, messages |-> ms]])
  BY DEF Rewrite
<1> DEFINE x == [path |-> p, updated |-> u, messages |-> ms]
<1>3. ms \in Messages
  BY <1>1, <1>2, PresentSessions, RevisedMessages
<1>4. x \in Session
  BY <1>1, <1>2, <1>3, PresentSessions, StampTimes DEF Session
<1>5. source' = [y \in Present \cup {s} |-> IF y = s THEN x ELSE source[y]]
  <2>1. Present \cup {s} = Present
    BY <1>1
  <2>2. QED
    BY <1>1, <1>2, <2>1 DEF Store, Present
<1>6. UNCHANGED <<live, version, clock>> /\ x.updated = u
  BY <1>2 DEF Store
<1>7. u \in Stamps \/ (SilentEdits /\ u = source[s].updated)
  <2>1. u \in Stamps \/ SilentEdits
    BY <1>2
  <2>2. u \in Stamps \/ u = source[s].updated
    BY <1>2
  <2>3. SilentEdits \in BOOLEAN
    BY OntologyAssumption
  <2>4. QED
    BY <2>1, <2>2, <2>3
<1>8. Exported(s, x)
  BY <1>1, <1>5, <1>6, <1>7 DEF Exported
<1>9. QED
  BY <1>4, <1>8

LEMMA ExportStep ==
  TypeOK /\ SourceInv /\ Export => \E s \in Sessions, x \in Session : Exported(s, x)
BY StoreSessionStep, StoreMessageStep, RewriteStep DEF Export

LEMMA ExportedSource ==
  ASSUME TypeOK, NEW s \in Sessions, NEW x \in Session, Exported(s, x)
  PROVE  /\ Present' = Present \cup {s}
         /\ source'[s] = x
         /\ \A y \in Present \ {s} : source'[y] = source[y]
         /\ \A y \in Present' : source'[y] \in Session
<1>1. source' = [y \in Present \cup {s} |-> IF y = s THEN x ELSE source[y]]
  BY DEF Exported
<1>2. Present' = Present \cup {s}
  BY <1>1 DEF Present
<1>3. \A y \in Present \ {s} : source'[y] = source[y]
  BY <1>1
<1>4. source'[s] = x
  BY <1>1
<1>5. \A y \in Present' : source'[y] \in Session
  BY <1>2, <1>3, <1>4 DEF TypeOK
<1>6. QED
  BY <1>2, <1>3, <1>4, <1>5
-----------------------------------------------------------------------------
(* The rows of a plan.                                                     *)

Distinct(rows) == \A q, r \in rows : q.session = r.session /\ q.type = r.type => q = r

LEMMA SessionRows ==
  ASSUME TypeOK, NEW s \in Present
  PROVE  /\ ProjectRow(s) \in Row /\ \A i \in FirstMentions(s) : MentionRow(s, i) \in Row
         /\ ProjectRow(s).session = s /\ ProjectRow(s).type = "project"
         /\ ProjectRow(s).version = version /\ ProjectRow(s).value = source[s].path
         /\ \A i \in FirstMentions(s) :
              /\ MentionRow(s, i).session = s /\ MentionRow(s, i).version = version
              /\ MentionRow(s, i).type # "project"
         /\ \A i, j \in FirstMentions(s) : MentionRow(s, i).type = MentionRow(s, j).type => i = j
<1> DEFINE m == source[s].messages
<1>1. m \in Seq(Message) /\ Len(m) \in Nat /\ DOMAIN m = 1 .. Len(m)
  BY PresentSessions, LenProperties
<1>2. \A i \in FirstMentions(s) : i \in 1 .. Len(m) /\ m[i] \in Message
  BY <1>1, ElementOfSeq DEF FirstMentions
<1>3. \A i \in FirstMentions(s) : m[i].key \in Keys /\ m[i].value \in Values
  BY <1>2 DEF Message
<1>4. s \in Sessions /\ source[s].path \in Paths /\ version \in Versions
      /\ source[s].updated \in Times \cup {Never, Garbled}
  BY PresentSessions DEF TypeOK
<1>5. ProjectRow(s) \in Row
  BY <1>4 DEF ProjectRow, Row
<1>6. \A i \in FirstMentions(s) : MentionRow(s, i) \in Row
  BY <1>3, <1>4 DEF MentionRow, Row
<1>7. /\ ProjectRow(s).session = s /\ ProjectRow(s).type = "project"
      /\ ProjectRow(s).version = version /\ ProjectRow(s).value = source[s].path
  BY DEF ProjectRow
<1>8. ASSUME NEW i \in FirstMentions(s)
      PROVE  /\ MentionRow(s, i).session = s /\ MentionRow(s, i).version = version
             /\ MentionRow(s, i).type = m[i].key
  BY DEF MentionRow
<1>9. ASSUME NEW i \in FirstMentions(s), NEW j \in FirstMentions(s), m[i].key = m[j].key
      PROVE  i = j
  <2>1. i \in Nat /\ j \in Nat /\ 1 <= i /\ 1 <= j
    BY <1>1, <1>2
  <2>2. ~(i < j)
    <3>1. SUFFICES ASSUME i < j PROVE FALSE
      OBVIOUS
    <3>2. i \in 1 .. j - 1
      BY <2>1, <3>1
    <3>3. QED
      BY <1>9, <3>2 DEF FirstMentions
  <2>3. ~(j < i)
    <3>1. SUFFICES ASSUME j < i PROVE FALSE
      OBVIOUS
    <3>2. j \in 1 .. i - 1
      BY <2>1, <3>1
    <3>3. QED
      BY <1>9, <3>2 DEF FirstMentions
  <2>4. QED
    BY <2>1, <2>2, <2>3
<1>10. \A i \in FirstMentions(s) : MentionRow(s, i).type # "project"
  BY <1>3, <1>8, OntologyAssumption
<1>11. \A i, j \in FirstMentions(s) : MentionRow(s, i).type = MentionRow(s, j).type => i = j
  BY <1>8, <1>9
<1>12. QED
  BY <1>5, <1>6, <1>7, <1>8, <1>10, <1>11

LEMMA RowsNow ==
  ASSUME NEW s
  PROVE  RowsAt(s, version) = {ProjectRow(s)} \cup {MentionRow(s, i) : i \in FirstMentions(s)}
<1>1. ProjectAt(s, version) = ProjectRow(s)
  BY DEF ProjectRow, ProjectAt
<1>2. \A i : MentionAt(s, i, version) = MentionRow(s, i)
  BY DEF MentionRow, MentionAt
<1>3. QED
  BY <1>1, <1>2 DEF RowsAt

LEMMA ExtractRows ==
  ASSUME TypeOK, NEW S \in SUBSET Present
  PROVE  /\ Extract(S) \subseteq Row /\ Distinct(Extract(S))
         /\ \A r \in Extract(S) : r.session \in S /\ r.version = version
         /\ \A s \in S : /\ ProjectRow(s) \in Extract(S)
                         /\ {r \in Extract(S) : r.session = s} = RowsAt(s, version)
<1> DEFINE Own(r, s) == r = ProjectRow(s) \/ \E i \in FirstMentions(s) : r = MentionRow(s, i)
<1>1. \A r : r \in Extract(S) <=> \E s \in S : Own(r, s)
  BY DEF Extract
<1>2. \A s \in S : \A r : Own(r, s) => r \in Row /\ r.session = s /\ r.version = version
  BY SessionRows
<1>3. \A s \in S : \A q, r : Own(q, s) /\ Own(r, s) /\ q.type = r.type => q = r
  BY SessionRows
<1>4. \A s \in S : \A r : r \in RowsAt(s, version) <=> Own(r, s)
  BY RowsNow
<1>5. \A s \in S : ProjectRow(s) \in Extract(S)
  BY <1>1
<1> HIDE DEF Own
<1>6. Distinct(Extract(S))
  BY <1>1, <1>2, <1>3 DEF Distinct
<1>7. ASSUME NEW s \in S
      PROVE  {r \in Extract(S) : r.session = s} = RowsAt(s, version)
  <2>1. \A r : r \in Extract(S) /\ r.session = s <=> Own(r, s)
    BY <1>1, <1>2
  <2>2. QED
    BY <1>4, <2>1
<1>8. QED
  BY <1>1, <1>2, <1>5, <1>6, <1>7

LEMMA ReusableRows ==
  ASSUME TypeOK, Reusable
  PROVE  /\ live.state # NoState /\ live.state.completed # Garbled
         /\ live.state.version = version /\ live.rows = Hashed.rows
         /\ \A r \in live.rows : r.version = version
BY DEF Reusable, StateIsValid, LogicalHash, Hashed

LEMMA PlanRows ==
  ASSUME TypeOK, NEW incremental \in BOOLEAN
  PROVE  LET rows == Plan(incremental)
         IN  /\ rows \subseteq Row /\ Distinct(rows)
             /\ \A r \in rows : r.session \in Present /\ r.version = version
             /\ \A s \in Present : \E r \in rows : r.session = s /\ r.type = "project"
<1>1. CASE ~(incremental /\ Reusable)
  <2>1. Plan(incremental) = Extract(Present)
    BY <1>1 DEF Plan
  <2>2. \A s \in Present : ProjectRow(s).session = s /\ ProjectRow(s).type = "project"
    BY SessionRows
  <2>3. QED
    BY <2>1, <2>2, ExtractRows
<1>2. CASE incremental /\ Reusable
  <2>1. Plan(incremental) = Copied \cup Extract(Candidates)
    BY <1>2 DEF Plan
  <2>2. /\ Candidates \subseteq Present
        /\ Extract(Candidates) \subseteq Row /\ Distinct(Extract(Candidates))
        /\ \A r \in Extract(Candidates) : r.session \in Candidates /\ r.version = version
        /\ \A s \in Candidates : ProjectRow(s) \in Extract(Candidates)
    BY ExtractRows DEF Candidates
  <2>3. \A r \in Copied : r \in live.rows /\ r.session \in Present \ Candidates
    BY DEF Copied
  <2>4. live.rows \subseteq Row /\ Distinct(live.rows) /\ \A r \in live.rows : r.version = version
    BY <1>2, ReusableRows DEF TypeOK, Distinct
  <2>5. ASSUME NEW s \in Present
        PROVE  \E r \in Plan(incremental) : r.session = s /\ r.type = "project"
    <3>1. CASE s \in Candidates
      <4>1. ProjectRow(s).session = s /\ ProjectRow(s).type = "project"
        BY SessionRows
      <4>2. QED
        BY <2>1, <2>2, <3>1, <4>1
    <3>2. CASE s \notin Candidates
      <4>1. PICK r \in live.rows : r.session = s /\ r.type = "project"
        BY <3>2 DEF Candidates, Unprojected
      <4>2. r \in Copied
        BY <3>2, <4>1 DEF Copied
      <4>3. QED
        BY <2>1, <4>1, <4>2
    <3>3. QED
      BY <3>1, <3>2
  <2>6. Distinct(Copied \cup Extract(Candidates))
    BY <2>2, <2>3, <2>4 DEF Distinct
  <2>7. QED
    BY <2>1, <2>2, <2>3, <2>4, <2>5, <2>6
<1>3. QED
  BY <1>1, <1>2
-----------------------------------------------------------------------------
(* Types.                                                                  *)

LEMMA Rebuilt ==
  ASSUME NEW incremental \in BOOLEAN, Rebuild(incremental)
  PROVE  /\ live'.rows = Plan(incremental) /\ live'.graph = Graph(Plan(incremental))
         /\ live' = [rows |-> live'.rows, graph |-> live'.graph, state |-> live'.state]
         /\ live'.state = [version |-> version,
                           hash |-> [rows |-> live'.rows, graph |-> live'.graph],
                           completed |-> clock, sessions |-> Cardinality(Present),
                           messages |-> MessageTotal, counted |-> TRUE]
         /\ clock < MaxTime /\ clock' = clock + 1
         /\ UNCHANGED <<source, version>> /\ Present' = Present
BY DEF Rebuild, LogicalHash, Present

\* Rows and the state are damaged, and rows forgotten, without touching the rest.
Shrunk ==
  /\ live'.rows \subseteq live.rows /\ live'.graph = live.graph
  /\ live' = [rows |-> live'.rows, graph |-> live'.graph, state |-> live'.state]
  /\ \/ live'.state = live.state
     \/ live'.state = NoState
     \/ live.state # NoState /\ live'.state = [live.state EXCEPT !.completed = Garbled]
     \/ live.state # NoState /\ \E v : live'.state = [live.state EXCEPT !.counted = v]

LEMMA ForgetStep ==
  ASSUME SourceInv, NEW s \in Sessions, NEW enforced \in BOOLEAN, Forget(s, enforced)
  PROVE  /\ Shrunk /\ live'.state = live.state /\ UNCHANGED <<version, clock>>
         /\ Present' = Present \ {s} /\ \A y \in Present' : source'[y] = source[y]
<1>1. live' = [live EXCEPT !.rows = IF enforced THEN {r \in live.rows : r.session # s}
                                     ELSE live.rows]
  BY DEF Forget
<1>2. live = [rows |-> live.rows, graph |-> live.graph, state |-> live.state]
  BY DEF SourceInv
<1>3. live' = [rows |-> IF enforced THEN {r \in live.rows : r.session # s} ELSE live.rows,
               graph |-> live.graph, state |-> live.state]
  BY <1>1, <1>2
<1>4. Shrunk /\ live'.state = live.state
  BY <1>3 DEF Shrunk
<1>5. Present' = Present \ {s} /\ \A y \in Present' : source'[y] = source[y]
  BY DEF Forget, Present
<1>6. QED
  BY <1>4, <1>5 DEF Forget

LEMMA DamageStep ==
  ASSUME SourceInv, Damage
  PROVE  Shrunk /\ UNCHANGED <<source, version, clock>>
<1>1. live = [rows |-> live.rows, graph |-> live.graph, state |-> live.state]
  BY DEF SourceInv
<1>2. UNCHANGED <<source, version, clock>> /\ live.state # NoState
  BY DEF Damage, StateIsValid
<1>3. CASE live' = [live EXCEPT !.state = NoState]
  <2>1. live' = [rows |-> live.rows, graph |-> live.graph, state |-> NoState]
    BY <1>1, <1>3
  <2>2. QED
    BY <1>2, <2>1 DEF Shrunk
<1>4. CASE live' = [live EXCEPT !.state.completed = Garbled]
  <2>1. live' = [live EXCEPT !.state = [live.state EXCEPT !.completed = Garbled]]
    BY <1>4
  <2>2. live' = [rows |-> live.rows, graph |-> live.graph,
                 state |-> [live.state EXCEPT !.completed = Garbled]]
    BY <1>1, <2>1
  <2>3. QED
    BY <1>2, <2>2 DEF Shrunk
<1>5. CASE live' = [live EXCEPT !.state.counted = FALSE]
  <2>1. live' = [live EXCEPT !.state = [live.state EXCEPT !.counted = FALSE]]
    BY <1>5
  <2>2. live' = [rows |-> live.rows, graph |-> live.graph,
                 state |-> [live.state EXCEPT !.counted = FALSE]]
    BY <1>1, <2>1
  <2>3. QED
    BY <1>2, <2>2 DEF Shrunk
<1>6. ASSUME NEW r \in live.rows, live' = [live EXCEPT !.rows = live.rows \ {r}]
      PROVE  Shrunk
  <2>1. live' = [rows |-> live.rows \ {r}, graph |-> live.graph, state |-> live.state]
    BY <1>1, <1>6
  <2>2. QED
    BY <2>1 DEF Shrunk
<1>7. QED
  BY <1>2, <1>3, <1>4, <1>5, <1>6 DEF Damage

LEMMA OntologyInit == Init => OntologyInv
<1> SUFFICES ASSUME Init PROVE OntologyInv
  OBVIOUS
<1>1. Present = {} /\ live.rows = {} /\ live.state = NoState /\ version = 1 /\ clock = 0
  BY DEF Init, Present
<1>2. version \in Versions /\ clock \in Times
  BY <1>1, OntologyAssumption DEF Versions, Times
<1>3. TypeOK
  BY <1>1, <1>2 DEF TypeOK
<1>4. SourceInv
  BY <1>1, FS_EmptySet DEF Init, SourceInv
<1>5. RecordInv /\ FaithInv
  BY <1>1 DEF RecordInv, FaithInv, Intact
<1>6. QED
  BY <1>3, <1>4, <1>5 DEF OntologyInv

LEMMA TypeStep == TypeOK /\ SourceInv /\ [Next]_vars => TypeOK' /\ SourceInv'
<1> SUFFICES ASSUME TypeOK, SourceInv, [Next]_vars PROVE TypeOK' /\ SourceInv'
  OBVIOUS
<1>0. clock \in Nat /\ version \in Nat /\ clock \in Int /\ MaxTime \in Nat
  BY OntologyAssumption DEF TypeOK, Times, Versions
<1>1. ASSUME NEW incremental \in BOOLEAN, Rebuild(incremental) PROVE TypeOK' /\ SourceInv'
  <2>1. live'.rows \subseteq Row /\ Distinct(live'.rows)
    BY <1>1, Rebuilt, PlanRows
  <2>2. clock' = clock + 1 /\ clock' \in Times
    BY <1>0, <1>1, Rebuilt DEF Times, TypeOK
  <2>3. TypeOK'
    BY <1>1, <2>1, <2>2, Rebuilt DEF TypeOK, Distinct
  <2>4. SourceInv'
    BY <1>1, Rebuilt DEF SourceInv
  <2>5. QED
    BY <2>3, <2>4
<1>2. CASE Export
  <2>1. PICK s \in Sessions, x \in Session : Exported(s, x)
    BY <1>2, ExportStep
  <2>2. UNCHANGED <<live, version, clock>>
    BY <2>1 DEF Exported
  <2>3. /\ Present' = Present \cup {s} /\ source'[s] = x
        /\ \A y \in Present \ {s} : source'[y] = source[y]
        /\ \A y \in Present' : source'[y] \in Session
    BY <2>1, ExportedSource
  <2>4. TypeOK'
    BY <2>2, <2>3 DEF TypeOK
  <2>5. IsFiniteSet(Present')
    BY <2>3, FS_AddElement DEF SourceInv
  <2>6. SourceInv'
    BY <2>2, <2>5 DEF SourceInv
  <2>7. QED
    BY <2>4, <2>6
<1>3. ASSUME NEW s \in Sessions, NEW enforced \in BOOLEAN, Forget(s, enforced)
      PROVE  TypeOK' /\ SourceInv'
  <2>1. /\ Shrunk /\ UNCHANGED <<version, clock>>
        /\ Present' = Present \ {s} /\ \A y \in Present' : source'[y] = source[y]
    BY <1>3, ForgetStep
  <2>2. TypeOK'
    BY <2>1 DEF TypeOK, Shrunk
  <2>3. IsFiniteSet(Present')
    BY <2>1, FS_RemoveElement DEF SourceInv
  <2>4. SourceInv'
    BY <2>1, <2>3 DEF SourceInv, Shrunk
  <2>5. QED
    BY <2>2, <2>4
<1>4. CASE Damage
  <2>1. Shrunk /\ UNCHANGED <<source, version, clock>>
    BY <1>4, DamageStep
  <2>2. TypeOK'
    BY <2>1 DEF TypeOK, Shrunk, Present
  <2>3. SourceInv'
    BY <2>1 DEF SourceInv, Shrunk, Present
  <2>4. QED
    BY <2>2, <2>3
<1>5. CASE Upgrade
  <2>1. version' \in Versions
    BY <1>0, <1>5, OntologyAssumption DEF Upgrade, Versions
  <2>2. QED
    BY <1>5, <2>1 DEF Upgrade, TypeOK, SourceInv, Present
<1>6. CASE UNCHANGED vars
  BY <1>6 DEF vars, TypeOK, SourceInv, Present
<1>7. QED
  BY <1>1, <1>2, <1>3, <1>4, <1>5, <1>6 DEF Next
-----------------------------------------------------------------------------
(* What the last rebuild recorded.                                         *)

LEMMA RebuiltRecord ==
  ASSUME TypeOK, SourceInv, NEW incremental \in BOOLEAN, Rebuild(incremental)
  PROVE  /\ live'.state # NoState /\ live'.state.completed # Garbled
         /\ Hashed' = [rows |-> live'.rows, graph |-> live'.graph]
         /\ live'.state = [version |-> version, hash |-> Hashed', completed |-> clock,
                           sessions |-> live'.state.sessions, messages |-> live'.state.messages,
                           counted |-> live'.state.counted]
         /\ live'.state.version = version /\ live'.state.completed = clock
         /\ Counted' = Present /\ CountsRecorded' /\ CountsMatch'
         /\ \A s \in Present : live'.graph.sessions[s].messages = Len(source[s].messages)
<1> DEFINE rows == Plan(incremental)
           f == [s \in Present |-> Len(source[s].messages)]
<1>1. live'.rows = rows /\ live'.graph = Graph(rows)
  BY Rebuilt
<1>2. /\ live'.state = [version |-> version,
                        hash |-> [rows |-> live'.rows, graph |-> live'.graph],
                        completed |-> clock, sessions |-> Cardinality(Present),
                        messages |-> MessageTotal, counted |-> TRUE]
      /\ source' = source /\ Present' = Present
  BY Rebuilt
<1>3. /\ live'.state.version = version /\ live'.state.completed = clock
      /\ live'.state.sessions = Cardinality(Present) /\ live'.state.messages = MessageTotal
      /\ live'.state.hash = [rows |-> live'.rows, graph |-> live'.graph]
  BY <1>2
<1>4. live'.state # NoState
  BY <1>3, OntologyAssumption DEF NoState, TypeOK, Versions
<1>5. live'.state.completed # Garbled
  BY <1>3, OntologyAssumption DEF TypeOK, Times
<1>6. Counted' = Present
  BY <1>1 DEF Graph, Counted
<1>7. \A s \in Present : live'.graph.sessions[s].messages = Len(source[s].messages)
  BY <1>1 DEF Graph
<1>8. [s \in Present |-> live'.graph.sessions[s].messages] = f
  BY <1>7
<1>9. MessageTotal = Total(f)
  BY DEF MessageTotal
<1>10. CountsRecorded'
  <2>1. Cardinality(Counted') = live'.state.sessions
    BY <1>3, <1>6
  <2>2. Total([s \in Counted' |-> live'.graph.sessions[s].messages]) = live'.state.messages
    BY <1>3, <1>6, <1>8, <1>9
  <2>3. QED
    BY <2>1, <2>2 DEF CountsRecorded, Total
<1>11. MessageTotal' = MessageTotal
  BY <1>2 DEF MessageTotal, Total, Present
<1>12. CountsMatch'
  BY <1>2, <1>3, <1>11 DEF CountsMatch
<1>13. QED
  BY <1>2, <1>3, <1>4, <1>5, <1>6, <1>7, <1>10, <1>12 DEF Hashed

LEMMA RecordStep == TypeOK /\ SourceInv /\ RecordInv /\ [Next]_vars => RecordInv'
<1> SUFFICES ASSUME TypeOK, SourceInv, RecordInv, [Next]_vars PROVE RecordInv'
  OBVIOUS
<1>0. clock \in Nat
  BY DEF TypeOK, Times
<1>1. ASSUME NEW incremental \in BOOLEAN, Rebuild(incremental) PROVE RecordInv'
  <2> DEFINE rows == Plan(incremental)
  <2>1. /\ live'.state.completed # Garbled
        /\ live'.state = [version |-> version, hash |-> Hashed', completed |-> clock,
                          sessions |-> live'.state.sessions, messages |-> live'.state.messages,
                          counted |-> live'.state.counted]
        /\ Hashed' = [rows |-> live'.rows, graph |-> live'.graph]
        /\ live'.state.version = version /\ live'.state.completed = clock
        /\ Counted' = Present /\ CountsRecorded'
    BY <1>1, RebuiltRecord
  <2>2. live'.rows = rows /\ live'.graph = Graph(rows) /\ clock' = clock + 1
        /\ live'.graph.sessions = [s \in Present |-> live'.graph.sessions[s]]
        /\ live'.graph.links
             = {<<r.session, r.type>> : r \in {q \in live'.rows : q.type # "project"}}
        /\ live'.graph = [sessions |-> live'.graph.sessions, links |-> live'.graph.links]
    BY <1>1, Rebuilt DEF Graph
  <2>3. \A s \in Present : live'.graph.sessions[s].messages \in Nat
    BY <1>1, RebuiltRecord, PresentSessions
  <2>4. /\ \A r \in rows : r.session \in Present /\ r.version = version
        /\ \A s \in Present : \E r \in rows : r.session = s /\ r.type = "project"
    BY PlanRows
  <2>5. clock \in Times /\ version \in Versions /\ clock < clock'
    BY <1>0, <2>2 DEF TypeOK
  <2>6. IsFiniteSet(Present)
    BY DEF SourceInv
  <2>7. Hashed'.rows = live'.rows /\ Hashed'.graph = live'.graph
    BY <2>1
  <2> HIDE DEF rows
  <2>8. QED
    BY <2>1, <2>2, <2>3, <2>4, <2>5, <2>6, <2>7 DEF RecordInv
<1>2. ASSUME UNCHANGED <<live, clock>> PROVE RecordInv'
  BY <1>2 DEF RecordInv, Hashed, Counted, CountsRecorded, Total
<1>3. ASSUME Shrunk, clock' = clock PROVE RecordInv'
  <2>1. SUFFICES ASSUME live'.state # NoState PROVE RecordInv'
    BY DEF RecordInv
  <2>2. live.state # NoState
    BY <1>3, <2>1 DEF Shrunk
  <2>3. /\ live'.state.version = live.state.version /\ Hashed' = Hashed
        /\ live'.state.completed = live.state.completed \/ live'.state.completed = Garbled
        /\ live'.state.sessions = live.state.sessions
        /\ live'.state.messages = live.state.messages
        /\ live'.state = [version |-> live'.state.version, hash |-> Hashed',
                          completed |-> live'.state.completed,
                          sessions |-> live'.state.sessions, messages |-> live'.state.messages,
                          counted |-> live'.state.counted]
    <3>1. live.state = [version |-> live.state.version, hash |-> Hashed,
                        completed |-> live.state.completed, sessions |-> live.state.sessions,
                        messages |-> live.state.messages, counted |-> live.state.counted]
      BY <2>2 DEF RecordInv
    <3>2. CASE live'.state = live.state
      BY <3>1, <3>2 DEF Hashed
    <3>3. CASE live'.state = [live.state EXCEPT !.completed = Garbled]
      <4>1. live'.state = [version |-> live.state.version, hash |-> Hashed,
                           completed |-> Garbled, sessions |-> live.state.sessions,
                           messages |-> live.state.messages, counted |-> live.state.counted]
        BY <3>1, <3>3
      <4>2. QED
        BY <4>1 DEF Hashed
    <3>4. CASE \E v : live'.state = [live.state EXCEPT !.counted = v]
      <4>0. PICK v : live'.state = [live.state EXCEPT !.counted = v]
        BY <3>4
      <4>1. live'.state = [version |-> live.state.version, hash |-> Hashed,
                           completed |-> live.state.completed,
                           sessions |-> live.state.sessions,
                           messages |-> live.state.messages, counted |-> v]
        BY <3>1, <4>0
      <4>2. QED
        BY <4>1 DEF Hashed
    <3>5. QED
      BY <1>3, <2>1, <3>2, <3>3, <3>4 DEF Shrunk
  <2>4. live'.graph = live.graph /\ live'.rows \subseteq live.rows
    BY <1>3 DEF Shrunk
  <2>5. Counted' = Counted /\ (CountsRecorded' <=> CountsRecorded)
    BY <2>3, <2>4 DEF Counted, CountsRecorded, Total
  <2>6. QED
    BY <1>3, <2>1, <2>2, <2>3, <2>4, <2>5 DEF RecordInv
<1>4. CASE Export
  BY <1>2, <1>4, ExportStep DEF Exported
<1>5. ASSUME NEW s \in Sessions, NEW enforced \in BOOLEAN, Forget(s, enforced) PROVE RecordInv'
  BY <1>3, <1>5, ForgetStep
<1>6. CASE Damage
  BY <1>3, <1>6, DamageStep
<1>7. CASE Upgrade \/ UNCHANGED vars
  BY <1>2, <1>7 DEF Upgrade, vars
<1>8. QED
  BY <1>1, <1>4, <1>5, <1>6, <1>7 DEF Next
-----------------------------------------------------------------------------
(* What the sessions of intact tables have been through.                   *)

LEMMA RowsStay ==
  ASSUME NEW s, NEW v, source'[s] = source[s]
  PROVE  RowsAt(s, v)' = RowsAt(s, v)
<1>1. ProjectAt(s, v)' = ProjectAt(s, v)
  BY DEF ProjectRow, ProjectAt
<1>2. \A i : MentionAt(s, i, v)' = MentionAt(s, i, v)
  BY DEF MentionRow, MentionAt
<1>3. FirstMentions(s)' = FirstMentions(s)
  BY DEF FirstMentions
<1>4. QED
  BY <1>1, <1>2, <1>3 DEF RowsAt

\* A rebuild that reuses extracts, in effect, everything.
LEMMA ReuseIsFull ==
  ASSUME TypeOK, RecordInv, FaithInv, ~SilentEdits, Reusable
  PROVE  Copied \cup Extract(Candidates) = Extract(Present)
<1>1. /\ live.state # NoState /\ live.state.completed # Garbled
      /\ live.state.version = version /\ live.rows = Hashed.rows
  BY ReusableRows
<1>2. ASSUME NEW s \in Present \ Candidates
      PROVE  {r \in live.rows : r.session = s} = RowsAt(s, version)
  <2>1. s \in Counted
    <3>1. PICK r \in live.rows : r.session = s
      BY DEF Candidates, Unprojected
    <3>2. QED
      BY <1>1, <3>1 DEF RecordInv
  <2>2. ~Newer(s)
    BY DEF Candidates
  <2>3. live.graph.sessions[s].messages = Len(source[s].messages)
    BY DEF Reusable, Unexplained
  <2>4. ~Grown(s)
    BY <2>3, PresentSessions DEF Grown
  <2>5. Unchanged(s)
    BY <1>1, <2>1, <2>2, <2>4 DEF FaithInv, Intact
  <2>6. QED
    BY <1>1, <2>5 DEF Unchanged
<1>3. \A s \in Present : {r \in Extract(Present) : r.session = s} = RowsAt(s, version)
  BY ExtractRows
<1>4. /\ Candidates \subseteq Present
      /\ \A r \in Extract(Candidates) : r.session \in Candidates
      /\ \A s \in Candidates : {r \in Extract(Candidates) : r.session = s} = RowsAt(s, version)
  BY ExtractRows DEF Candidates
<1>5. \A r \in Extract(Present) : r.session \in Present
  BY ExtractRows
<1>6. ASSUME NEW r \in Copied PROVE r \in Extract(Present)
  <2>1. r \in live.rows /\ r.session \in Present \ Candidates
    BY DEF Copied
  <2>2. QED
    BY <1>2, <1>3, <2>1
<1>7. ASSUME NEW r \in Extract(Candidates) PROVE r \in Extract(Present)
  BY <1>3, <1>4
<1>8. ASSUME NEW r \in Extract(Present) PROVE r \in Copied \cup Extract(Candidates)
  <2>1. CASE r.session \in Candidates
    BY <1>3, <1>4, <2>1
  <2>2. CASE r.session \notin Candidates
    <3>1. r.session \in Present \ Candidates
      BY <1>5, <2>2
    <3>2. r \in live.rows
      BY <1>2, <1>3, <3>1
    <3>3. QED
      BY <3>1, <3>2 DEF Copied
  <2>3. QED
    BY <2>1, <2>2
<1>9. QED
  BY <1>6, <1>7, <1>8

LEMMA PlanIsFull ==
  ASSUME TypeOK, RecordInv, FaithInv, ~SilentEdits, NEW incremental \in BOOLEAN
  PROVE  Plan(incremental) = Extract(Present)
BY ReuseIsFull DEF Plan

\* The graph of all rows gives each session its count, its time and its project.
LEMMA FullGraph ==
  ASSUME TypeOK, NEW s \in Present
  PROVE  Graph(Extract(Present)).sessions[s] =
           [messages |-> Len(source[s].messages), updated |-> source[s].updated,
            project |-> source[s].path]
<1> DEFINE P(r) == r \in Extract(Present) /\ r.session = s /\ r.type = "project"
<1>1. /\ ProjectRow(s) \in Extract(Present) /\ Distinct(Extract(Present))
      /\ ProjectRow(s).session = s /\ ProjectRow(s).type = "project"
      /\ ProjectRow(s).value = source[s].path
  BY ExtractRows, SessionRows
<1>2. (CHOOSE r \in Extract(Present) : r.session = s /\ r.type = "project") = ProjectRow(s)
  BY <1>1 DEF Distinct
<1>3. QED
  BY <1>1, <1>2 DEF Graph

LEMMA FaithStep == TypeOK /\ SourceInv /\ RecordInv /\ FaithInv /\ [Next]_vars => FaithInv'
<1> SUFFICES ASSUME TypeOK, SourceInv, RecordInv, FaithInv, [Next]_vars, ~SilentEdits,
                    Intact', NEW y \in Present' \cap Counted'
             PROVE  (Newer(y) \/ Grown(y) \/ Unchanged(y))'
  BY DEF FaithInv, Present, Counted
<1>1. ASSUME NEW incremental \in BOOLEAN, Rebuild(incremental)
      PROVE  (Newer(y) \/ Grown(y) \/ Unchanged(y))'
  <2>1. /\ live'.rows = Extract(Present) /\ live'.graph = Graph(Extract(Present))
        /\ live'.state.version = version /\ source' = source /\ Present' = Present
    BY <1>1, Rebuilt, RebuiltRecord, PlanIsFull
  <2>2. y \in Present
    BY <2>1
  <2>3. {r \in live'.rows : r.session = y} = RowsAt(y, version)
    BY <2>1, <2>2, ExtractRows
  <2>4. RowsAt(y, live.state.version)' = RowsAt(y, version)
    <3>1. \A v : RowsAt(y, v)' = RowsAt(y, v)
      BY <2>1, RowsStay
    <3>2. QED
      BY <2>1, <3>1
  <2>5. live'.graph.sessions[y] = [messages |-> Len(source'[y].messages),
                                   updated |-> source'[y].updated,
                                   project |-> source'[y].path]
    BY <2>1, <2>2, FullGraph
  <2>6. QED
    BY <2>3, <2>4, <2>5 DEF Unchanged
<1>2. ASSUME live'.rows = live.rows, live'.graph = live.graph, live.state # NoState,
             live'.state.completed = live.state.completed,
             live'.state.version = live.state.version, live'.state.hash = live.state.hash,
             y \in Present, source'[y] = source[y]
      PROVE  (Newer(y) \/ Grown(y) \/ Unchanged(y))'
  <2>1. y \in Counted /\ Intact
    BY <1>2 DEF Counted, Intact, Hashed
  <2>2. Newer(y) \/ Grown(y) \/ Unchanged(y)
    BY <1>2, <2>1 DEF FaithInv
  <2>3. Newer(y) => Newer(y)'
    BY <1>2 DEF Newer, Parsed
  <2>4. Grown(y) => Grown(y)'
    BY <1>2 DEF Grown
  <2>5. Unchanged(y) => Unchanged(y)'
    <3>1. RowsAt(y, live.state.version)' = RowsAt(y, live.state.version)
      <4>1. \A v : RowsAt(y, v)' = RowsAt(y, v)
        BY <1>2, RowsStay
      <4>2. QED
        BY <1>2, <4>1
    <3>2. QED
      BY <1>2, <3>1 DEF Unchanged
  <2>6. QED
    BY <2>2, <2>3, <2>4, <2>5
<1>3. CASE Export
  <2>1. PICK s \in Sessions, x \in Session : Exported(s, x)
    BY <1>3, ExportStep
  <2>2. /\ Present' = Present \cup {s} /\ source'[s] = x
        /\ \A z \in Present \ {s} : source'[z] = source[z]
    BY <2>1, ExportedSource
  <2>3. live' = live /\ clock' = clock
    BY <2>1 DEF Exported
  <2>4. CASE y # s
    BY <1>2, <2>2, <2>3, <2>4 DEF Intact
  <2>5. ASSUME y = s, x.updated \in Stamps PROVE Newer(y)'
    <3>1. live.state.completed \in Times /\ live.state.completed < clock /\ clock \in Times
      BY <2>3 DEF Intact, RecordInv, TypeOK
    <3>2. x.updated \in Times /\ x.updated \in Nat /\ x.updated >= clock
      BY <2>5, StampTimes
    <3>3. live.state.completed \in Nat /\ clock \in Nat
      BY <3>1 DEF Times
    <3>4. x.updated > live.state.completed
      BY <3>1, <3>2, <3>3
    <3>5. QED
      BY <2>2, <2>3, <2>5, <3>2, <3>4 DEF Newer, Parsed
  <2>6. ASSUME y = s, s \notin Present, \A r \in live.rows : r.session # s PROVE FALSE
    <3>1. y \in Counted /\ live.rows = Hashed.rows /\ live.state # NoState
      BY <2>3 DEF Counted, Intact, Hashed
    <3>2. QED
      BY <2>6, <3>1 DEF RecordInv
  <2>7. ASSUME y = s, s \in Present, x.updated = source[s].updated,
               Len(x.messages) = Len(source[s].messages) + 1
        PROVE  (Newer(y) \/ Grown(y) \/ Unchanged(y))'
    <3>1. y \in Counted /\ Intact
      BY <2>3 DEF Counted, Intact, Hashed
    <3>2. Newer(s) \/ Grown(s) \/ Unchanged(s)
      BY <2>7, <3>1 DEF FaithInv
    <3>3. CASE Newer(s)
      BY <2>2, <2>3, <2>7, <3>3 DEF Newer, Parsed
    <3>4. CASE Grown(s) \/ Unchanged(s)
      <4>1. live.graph.sessions[s].messages \in Nat /\ Len(source[s].messages) \in Nat
        BY <2>7, <3>1, PresentSessions DEF RecordInv, Intact
      <4>2. Len(source[s].messages) >= live.graph.sessions[s].messages
        BY <3>4, <4>1 DEF Grown, Unchanged
      <4>3. Len(x.messages) > live.graph.sessions[s].messages
        BY <2>7, <4>1, <4>2
      <4>4. QED
        BY <2>2, <2>3, <2>7, <4>3 DEF Grown
    <3>5. QED
      BY <3>2, <3>3, <3>4
  <2>8. QED
    BY <2>1, <2>4, <2>5, <2>6, <2>7 DEF Exported
<1>4. ASSUME Shrunk, y \in Present, source'[y] = source[y]
      PROVE  (Newer(y) \/ Grown(y) \/ Unchanged(y))'
  <2>1. live.state # NoState
    BY <1>4 DEF Shrunk, Intact
  <2>2. live.state = [version |-> live.state.version, hash |-> Hashed,
                      completed |-> live.state.completed, sessions |-> live.state.sessions,
                      messages |-> live.state.messages, counted |-> live.state.counted]
    BY <2>1 DEF RecordInv
  <2>3. ASSUME live'.state = [live.state EXCEPT !.completed = Garbled] PROVE FALSE
    <3>1. live'.state.completed = Garbled
      BY <2>2, <2>3
    <3>2. QED
      BY <3>1 DEF Intact
  <2>4. /\ live'.state.completed = live.state.completed
        /\ live'.state.version = live.state.version /\ live'.state.hash = live.state.hash
    <3>1. CASE live'.state = live.state
      BY <3>1
    <3>2. CASE \E v : live'.state = [live.state EXCEPT !.counted = v]
      BY <2>2, <3>2
    <3>3. QED
      BY <1>4, <2>1, <2>3, <3>1, <3>2 DEF Shrunk, Intact
  <2>5. live'.rows = live.rows
    <3>1. live'.rows \subseteq live.rows /\ live.rows \subseteq Hashed.rows
      BY <1>4, <2>1 DEF Shrunk, RecordInv
    <3>2. live'.rows = Hashed.rows
      BY <2>4 DEF Intact, Hashed
    <3>3. QED
      BY <3>1, <3>2
  <2>6. live'.graph = live.graph
    BY <1>4 DEF Shrunk
  <2>7. QED
    BY <1>2, <1>4, <2>1, <2>4, <2>5, <2>6
<1>5. ASSUME NEW s \in Sessions, NEW enforced \in BOOLEAN, Forget(s, enforced)
      PROVE  (Newer(y) \/ Grown(y) \/ Unchanged(y))'
  BY <1>4, <1>5, ForgetStep
<1>6. CASE Damage
  BY <1>4, <1>6, DamageStep DEF Present
<1>7. CASE Upgrade \/ UNCHANGED vars
  BY <1>2, <1>7 DEF Upgrade, vars, Present, Intact
<1>8. QED
  BY <1>1, <1>3, <1>5, <1>6, <1>7 DEF Next
LEMMA OntologyInvariance == Spec => []OntologyInv
<1>1. OntologyInv /\ [Next]_vars => OntologyInv'
  BY TypeStep, RecordStep, FaithStep DEF OntologyInv
<1>2. QED
  BY OntologyInit, <1>1, PTL DEF Spec

\* Stored sessions and ontology rows keep their types, and no two structural rows
\* share a session, type and key, copied and extracted ones included.
THEOREM OntologyTypes == Spec => []TypeOK
<1>1. OntologyInv => TypeOK
  BY DEF OntologyInv
<1>2. QED
  BY OntologyInvariance, <1>1, PTL

-----------------------------------------------------------------------------
(* A rebuild heals.                                                        *)

LEMMA RebuiltIsHealthy ==
  ASSUME TypeOK, SourceInv, NEW incremental \in BOOLEAN, Rebuild(incremental),
         \A s \in Present : source[s].updated # Garbled /\ ~Ahead(s)
  PROVE  Healthy'
<1>1. /\ live'.state # NoState /\ live'.state.completed # Garbled
      /\ Hashed' = [rows |-> live'.rows, graph |-> live'.graph]
      /\ live'.state.version = version /\ live'.state.completed = clock
      /\ Counted' = Present /\ CountsMatch'
  BY RebuiltRecord
<1>2. source' = source /\ version' = version /\ Present' = Present
      /\ live'.rows = Plan(incremental)
  BY Rebuilt
<1>3. \A r \in live'.rows : r.session \in Present /\ r.version = version
  BY <1>2, PlanRows
<1>4. Covered'
  <2>1. Cardinality(Present) \in Nat
    BY FS_CardinalityType DEF SourceInv
  <2>2. Present' \cap Counted' = Present /\ Counted' \subseteq Present'
    BY <1>1, <1>2
  <2>3. 100 * Cardinality(Present) >= 99 * Cardinality(Present)
    BY <2>1
  <2>4. QED
    BY <1>2, <2>2, <2>3 DEF Covered
<1>5. NoOrphanRows'
  BY <1>2, <1>3 DEF NoOrphanRows
<1>6. NotNewer'
  BY <1>1, <1>2 DEF NotNewer, Newer, Parsed, Ahead
<1>7. Fresh'
  BY <1>1, <1>2, <1>6 DEF Fresh
<1>8. live'.state.hash = LogicalHash(live)'
  BY <1>1 DEF Hashed, LogicalHash
<1>9. QED
  BY <1>1, <1>2, <1>3, <1>4, <1>5, <1>7, <1>8 DEF Healthy

\* The other way round: one session that is garbled or ahead, and it is not.
LEMMA RebuiltIsStale ==
  ASSUME TypeOK, SourceInv, NEW incremental \in BOOLEAN, Rebuild(incremental), Healthy',
         NEW s \in Present
  PROVE  source[s].updated # Garbled /\ ~Ahead(s)
<1>1. live'.state.completed = clock
  BY RebuiltRecord
<1>2. source' = source /\ Present' = Present
  BY Rebuilt
<1>3. source'[s].updated # Garbled /\ ~Newer(s)'
  BY <1>2 DEF Healthy, Fresh, NotNewer
<1>4. QED
  BY <1>1, <1>2, <1>3 DEF Newer, Parsed, Ahead

LEMMA ClockIsRebuild ==
  ASSUME TypeOK, SourceInv, [Next]_vars, clock' # clock
  PROVE  \E incremental \in BOOLEAN : Rebuild(incremental)
<1>1. CASE Export
  BY <1>1, ExportStep DEF Exported
<1>2. QED
  BY <1>1 DEF Next, Forget, Damage, Upgrade, vars

\* Whatever the tables were, damaged or of another version, and however the source
\* was written before it, the status after a rebuild of either mode is healthy
\* exactly when every source timestamp parses and none lies ahead of the rebuild.
THEOREM RebuildsHeal == Spec => RebuildHeals
<1>1. ASSUME OntologyInv, [Next]_vars, clock' # clock
      PROVE  Healthy' <=> \A s \in Present : source[s].updated # Garbled /\ ~Ahead(s)
  <2>1. PICK incremental \in BOOLEAN : Rebuild(incremental)
    BY <1>1, ClockIsRebuild DEF OntologyInv
  <2>2. ASSUME \A s \in Present : source[s].updated # Garbled /\ ~Ahead(s) PROVE Healthy'
    BY <1>1, <2>1, <2>2, RebuiltIsHealthy DEF OntologyInv
  <2>3. ASSUME Healthy', NEW s \in Present PROVE source[s].updated # Garbled /\ ~Ahead(s)
    BY <1>1, <2>1, <2>3, RebuiltIsStale DEF OntologyInv
  <2>4. QED
    BY <2>2, <2>3
<1>2. OntologyInv /\ [Next]_vars =>
        [clock' # clock =>
           (Healthy' <=> \A s \in Present : source[s].updated # Garbled /\ ~Ahead(s))]_vars
  BY <1>1
<1>3. QED
  BY OntologyInvariance, <1>2, PTL DEF Spec, RebuildHeals

-----------------------------------------------------------------------------
(* Without silent rewrites.                                                *)

\* While no message is rewritten without a newer updated_at, an incremental rebuild
\* swaps in what a full one would: the copied rows and the extracted ones are those
\* of the present source.
THEOREM IncrementalRebuildIsFull == ~SilentEdits /\ Spec => IncrementalIsFull
<1> SUFFICES ASSUME ~SilentEdits PROVE Spec => IncrementalIsFull
  OBVIOUS
<1>1. OntologyInv /\ [Next]_vars => [clock' # clock => live'.rows = Extract(Present)]_vars
  BY ClockIsRebuild, Rebuilt, PlanIsFull DEF OntologyInv
<1>2. QED
  BY OntologyInvariance, <1>1, PTL DEF Spec, IncrementalIsFull

\* In a healthy state the sessions counted are those present, and as none is newer
\* each is as it was or has grown: with equal totals none has.
LEMMA HealthyUnchanged ==
  ASSUME OntologyInv, ~SilentEdits, Healthy
  PROVE  Counted = Present /\ \A s \in Present : Unchanged(s)
<1>1. /\ live.state # NoState /\ live.state.completed # Garbled
      /\ Counted \subseteq Present /\ NotNewer /\ CountsMatch
      /\ live.state.hash = LogicalHash(live)
  BY DEF Healthy, Covered, Fresh
<1>2. Intact
  BY <1>1 DEF Intact, Hashed, LogicalHash
<1>3. TypeOK /\ RecordInv /\ FaithInv /\ IsFiniteSet(Present)
  BY DEF OntologyInv, SourceInv
<1>4. CountsRecorded /\ \A s \in Counted : live.graph.sessions[s].messages \in Nat
  BY <1>1, <1>3 DEF RecordInv
<1>5. Counted = Present
  <2>1. Cardinality(Counted) = Cardinality(Present)
    BY <1>1, <1>4 DEF CountsMatch, CountsRecorded
  <2>2. QED
    BY <1>1, <1>3, <2>1, FS_Subset
<1>6. \A s \in Present : Grown(s) \/ Unchanged(s)
  BY <1>1, <1>2, <1>3, <1>5 DEF FaithInv, NotNewer
<1> DEFINE f == [s \in Present |-> live.graph.sessions[s].messages]
           g == [s \in Present |-> Len(source[s].messages)]
<1>7. f \in [Present -> Nat] /\ g \in [Present -> Nat]
  BY <1>3, <1>4, <1>5, PresentSessions
<1>8. \A s \in Present : f[s] <= g[s]
  <2>1. \A s \in Present : live.graph.sessions[s].messages \in Nat /\ Len(source[s].messages) \in Nat
    BY <1>3, <1>4, <1>5, PresentSessions
  <2>2. \A s \in Present : Unchanged(s) => live.graph.sessions[s].messages = Len(source[s].messages)
    BY DEF Unchanged
  <2>3. QED
    BY <1>6, <2>1, <2>2 DEF Grown
<1>9. Total(f) = Total(g)
  <2>1. Total(f) = live.state.messages
    BY <1>4, <1>5 DEF CountsRecorded
  <2>2. Total(g) = live.state.messages
    BY <1>1 DEF CountsMatch, MessageTotal
  <2>3. QED
    BY <2>1, <2>2
<1>10. \A s \in Present : f[s] = g[s]
  <2> HIDE DEF f, g
  <2>1. QED
    BY <1>3, <1>7, <1>8, <1>9, EqualTotals
<1>11. \A s \in Present : ~Grown(s)
  BY <1>7, <1>10 DEF Grown
<1>12. QED
  BY <1>5, <1>6, <1>11

LEMMA HealthyCurrent ==
  ASSUME OntologyInv, ~SilentEdits, Healthy
  PROVE  /\ live.rows = Extract(Present) /\ live.graph = Graph(Extract(Present))
<1>1. Counted = Present /\ \A s \in Present : Unchanged(s)
  BY HealthyUnchanged
<1>2. /\ live.state # NoState /\ live.state.version = version
      /\ live.rows = Hashed.rows
  BY DEF Healthy, Hashed, LogicalHash
<1>3. TypeOK /\ RecordInv
  BY DEF OntologyInv
<1>4. \A r \in live.rows : r.session \in Present
  BY <1>1, <1>2, <1>3 DEF RecordInv
<1>5. \A s \in Present : {r \in live.rows : r.session = s} = {r \in Extract(Present) : r.session = s}
  BY <1>1, <1>2, <1>3, ExtractRows DEF Unchanged
<1>6. \A r \in Extract(Present) : r.session \in Present
  BY <1>3, ExtractRows
<1>7. live.rows = Extract(Present)
  BY <1>4, <1>5, <1>6
<1>8. live.graph.sessions = Graph(Extract(Present)).sessions
  <2> DEFINE h == Graph(Extract(Present)).sessions
  <2>1. h = [s \in Present |-> h[s]]
    BY DEF Graph
  <2>2. live.graph.sessions = [s \in Present |-> live.graph.sessions[s]]
    BY <1>1, <1>2, <1>3 DEF RecordInv
  <2>3. \A s \in Present : live.graph.sessions[s] = h[s]
    BY <1>1, <1>3, FullGraph DEF Unchanged
  <2> HIDE DEF h
  <2>4. [s \in Present |-> live.graph.sessions[s]] = [s \in Present |-> h[s]]
    BY <2>3
  <2>5. live.graph.sessions = h
    BY <2>1, <2>2, <2>4, Zenon
  <2>6. QED
    BY <2>5 DEF h
<1>9. live.graph = [sessions |-> live.graph.sessions,
                    links |-> {<<r.session, r.type>> :
                                 r \in {q \in Extract(Present) : q.type # "project"}}]
  BY <1>2, <1>3, <1>7 DEF RecordInv
<1>10. live.graph = Graph(Extract(Present))
  BY <1>8, <1>9 DEF Graph
<1>11. QED
  BY <1>7, <1>10

\* A status of healthy means that the tables are those of the present source,
\* whatever was exported, forgotten or damaged since they were built, as long as no
\* message was rewritten without a newer updated_at.
THEOREM HealthyMeansCurrent == ~SilentEdits /\ Spec => []HealthyIsCurrent
<1> SUFFICES ASSUME ~SilentEdits PROVE Spec => []HealthyIsCurrent
  OBVIOUS
<1>1. OntologyInv => HealthyIsCurrent
  BY HealthyCurrent DEF HealthyIsCurrent
<1>2. QED
  BY OntologyInvariance, <1>1, PTL

\* Under the same hypothesis a healthy status leaves an incremental rebuild nothing
\* to extract: what the status finds stale is what the planner finds stale, but for the
\* recorded counts, which the status does not read.
THEOREM HealthyIsQuiet == ~SilentEdits /\ Spec => []HealthyNeedsNothing
<1> SUFFICES ASSUME ~SilentEdits PROVE Spec => []HealthyNeedsNothing
  OBVIOUS
<1>1. ASSUME OntologyInv, Healthy
      PROVE  Candidates = {} /\ (Reusable \/ ~live.state.counted)
  <2>1. Counted = Present /\ \A s \in Present : Unchanged(s)
    BY <1>1, HealthyUnchanged
  <2>2. /\ live.state # NoState /\ live.state.version = version
        /\ live.state.completed # Garbled /\ NotNewer
        /\ \A r \in live.rows : r.version = version
        /\ live.state.hash = LogicalHash(live)
        /\ \A s \in Present : source[s].updated # Garbled
    BY <1>1 DEF Healthy, Fresh
  <2>3. live.state.counted => StateIsValid
    BY <2>2 DEF StateIsValid
  <2>4. RecordInv
    BY <1>1 DEF OntologyInv
  <2>5. CountsRecorded
    BY <2>2, <2>4 DEF RecordInv
  <2>6. live.rows = Hashed.rows
    BY <2>2 DEF Hashed, LogicalHash
  <2>7. \A s \in Present : ~Unprojected(s)
    BY <2>1, <2>2, <2>4, <2>6 DEF RecordInv, Unprojected
  <2>8. Candidates = {}
    BY <2>2, <2>7 DEF Candidates, NotNewer
  <2>9. ~Unexplained
    <3>1. \A s \in Present : Unchanged(s) =>
            live.graph.sessions[s].messages = Len(source[s].messages)
      BY DEF Unchanged
    <3>2. \A s \in Present : live.graph.sessions[s].messages = Len(source[s].messages)
      BY <2>1, <3>1
    <3>3. QED
      BY <2>1, <3>2 DEF Unexplained
  <2>10. QED
    BY <2>2, <2>3, <2>5, <2>8, <2>9 DEF Reusable
<1>2. OntologyInv => HealthyNeedsNothing
  BY <1>1 DEF HealthyNeedsNothing
<1>3. QED
  BY OntologyInvariance, <1>2, PTL
=============================================================================
