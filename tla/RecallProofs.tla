---------------------------- MODULE RecallProofs ----------------------------
(***************************************************************************)
(* recall answers as RecallContract says: every step of Recall is one of   *)
(* the contract's, or changes nothing the contract sees.  Commands states  *)
(* the theorem of the whole specification.                                 *)
(***************************************************************************)
EXTENDS Recall, FiniteSetTheorems, TLAPS

-----------------------------------------------------------------------------
(* Kept: the positions of the elements kept are counted up.                *)

\* Kept(s, S) is s along increasing positions: all those with an element of S.
LEMMA KeptIs ==
  ASSUME NEW X, NEW s \in Seq(X), NEW S
  PROVE  /\ Kept(s, S) \in Seq(X)
         /\ \E f \in [DOMAIN Kept(s, S) -> DOMAIN s] :
              /\ \A n \in DOMAIN f : Kept(s, S)[n] = s[f[n]] /\ s[f[n]] \in S
              /\ \A m, n \in DOMAIN f : m < n => f[m] < f[n]
              /\ \A i \in DOMAIN s : s[i] \in S => \E n \in DOMAIN f : f[n] = i
<1> DEFINE at      == {i \in DOMAIN s : s[i] \in S}
           upto(i) == {j \in at : j <= i}
           rank(i) == Cardinality(upto(i))
           N       == Cardinality(at)
           nth(n)  == CHOOSE i \in at : Cardinality({j \in at : j <= i}) = n
<1>1. at \subseteq 1 .. Len(s) /\ IsFiniteSet(at) /\ N \in Nat
  <2>1. at \in SUBSET (1 .. Len(s)) /\ Len(s) \in Nat
    OBVIOUS
  <2>2. IsFiniteSet(1 .. Len(s))
    BY <2>1, FS_Interval
  <2>3. IsFiniteSet(at)
    BY <2>1, <2>2, FS_Subset
  <2> QED
    BY <2>1, <2>3, FS_CardinalityType
<1>2. \A i \in at : IsFiniteSet(upto(i)) /\ rank(i) \in 1 .. N
  <2> SUFFICES ASSUME NEW i \in at PROVE IsFiniteSet(upto(i)) /\ rank(i) \in 1 .. N
    OBVIOUS
  <2>1. upto(i) \in SUBSET at
    OBVIOUS
  <2>2. IsFiniteSet(upto(i)) /\ rank(i) <= N
    BY <1>1, <2>1, FS_Subset
  <2>3. rank(i) \in Nat
    BY <2>2, FS_CardinalityType
  <2>4. i \in upto(i)
    BY <1>1
  <2>5. rank(i) # 0
    BY <2>2, <2>4, FS_EmptySet
  <2> QED
    BY <1>1, <2>2, <2>3, <2>5
<1>3. \A i, j \in at : i < j => rank(i) < rank(j)
  <2> SUFFICES ASSUME NEW i \in at, NEW j \in at, i < j PROVE rank(i) < rank(j)
    OBVIOUS
  <2>1. upto(i) \in SUBSET upto(j)
    BY <1>1
  <2>2. j \in upto(j) /\ j \notin upto(i)
    BY <1>1
  <2>3. rank(i) <= rank(j) /\ rank(i) # rank(j)
    BY <1>2, <2>1, <2>2, FS_Subset
  <2>4. rank(i) \in 1 .. N /\ rank(j) \in 1 .. N
    BY <1>2
  <2> HIDE DEF rank, N
  <2> QED
    BY <1>1, <2>3, <2>4
<1>4. \A n \in 1 .. N : \E i \in at : rank(i) = n
  <2> DEFINE r == [i \in at |-> rank(i)]
  <2>1. r \in [at -> 1 .. N]
    BY <1>2
  <2>2. \A i, j \in at : r[i] = r[j] => i = j
    <3> SUFFICES ASSUME NEW i \in at, NEW j \in at, rank(i) = rank(j) PROVE i = j
      OBVIOUS
    <3>1. rank(i) \in 1 .. N /\ (i < j => rank(i) < rank(j)) /\ (j < i => rank(j) < rank(i))
      BY <1>2, <1>3
    <3>2. i \in Nat /\ j \in Nat
      BY <1>1
    <3> HIDE DEF rank, N
    <3> QED
      BY <1>1, <3>1, <3>2
  <2>3. r \in Injection(at, 1 .. N)
    <3> HIDE DEF r, N
    <3> QED
      BY <2>1, <2>2 DEF Injection, IsInjective
  <2>4. IsFiniteSet(1 .. N) /\ Cardinality(1 .. N) = N
    BY <1>1, FS_Interval
  <2>5. r \in Surjection(at, 1 .. N)
    BY <2>3, <2>4, FS_Injection
  <2>6. \A n \in 1 .. N : \E i \in at : r[i] = n
    BY <2>5 DEF Surjection
  <2> QED
    BY <2>6
<1>5. \A n \in 1 .. N : nth(n) \in at /\ rank(nth(n)) = n
  BY <1>4
<1>6. \A m, n \in 1 .. N : m < n => nth(m) < nth(n)
  <2> SUFFICES ASSUME NEW m \in 1 .. N, NEW n \in 1 .. N, m < n PROVE nth(m) < nth(n)
    OBVIOUS
  <2>1. nth(m) \in at /\ nth(n) \in at /\ rank(nth(m)) = m /\ rank(nth(n)) = n
    BY <1>5
  <2> HIDE DEF nth, rank
  <2>2. nth(n) = nth(m) \/ nth(n) < nth(m) \/ nth(m) < nth(n)
    BY <1>1, <2>1
  <2>3. nth(n) < nth(m) => n < m
    BY <1>3, <2>1
  <2> QED
    BY <1>1, <2>1, <2>2, <2>3
<1>7. \A i \in at : \E n \in 1 .. N : nth(n) = i
  <2> SUFFICES ASSUME NEW i \in at PROVE nth(rank(i)) = i
    BY <1>2
  <2>1. nth(rank(i)) \in at /\ rank(nth(rank(i))) = rank(i)
    BY <1>2, <1>5
  <2> HIDE DEF nth, rank
  <2>2. nth(rank(i)) = i \/ i < nth(rank(i)) \/ nth(rank(i)) < i
    BY <1>1, <2>1
  <2>3. rank(i) \in 1 .. N
    BY <1>2
  <2> HIDE DEF N
  <2> QED
    BY <1>1, <1>3, <2>1, <2>2, <2>3
<1> DEFINE f == [n \in 1 .. N |-> nth(n)]
<1>8. Kept(s, S) = [n \in 1 .. N |-> s[nth(n)]]
  BY DEF Kept
<1> HIDE DEF nth
<1>9. Kept(s, S) \in Seq(X) /\ DOMAIN Kept(s, S) = 1 .. N
  <2>1. \A n \in 1 .. N : nth(n) \in DOMAIN s /\ s[nth(n)] \in X
    <3>1. \A i \in at : i \in DOMAIN s /\ s[i] \in X
      OBVIOUS
    <3> HIDE DEF at, N
    <3> QED
      BY <1>5, <3>1
  <2> HIDE DEF N
  <2>2. [n \in 1 .. N |-> s[nth(n)]] \in Seq(X)
    BY <1>1, <2>1
  <2> QED
    BY <1>8, <2>2
<1>10. f \in [DOMAIN Kept(s, S) -> DOMAIN s] /\ DOMAIN f = 1 .. N
  BY <1>5, <1>9
<1>11. \A n \in DOMAIN f : Kept(s, S)[n] = s[f[n]] /\ s[f[n]] \in S
  BY <1>5, <1>8
<1>12. \A m, n \in DOMAIN f : m < n => f[m] < f[n]
  BY <1>6
<1>13. \A i \in DOMAIN s : s[i] \in S => \E n \in DOMAIN f : f[n] = i
  BY <1>7
<1> HIDE DEF f
<1> QED
  BY <1>9, <1>10, <1>11, <1>12, <1>13

\* The first m of them: a kept position left out comes after m others.
FirstKept(t, s, S, m) ==
  \E f \in [1 .. Len(t) -> DOMAIN s] :
    /\ \A n \in 1 .. Len(t) : t[n] = s[f[n]] /\ s[f[n]] \in S
    /\ \A l, n \in 1 .. Len(t) : l < n => f[l] < f[n]
    /\ \A i \in DOMAIN s :
         s[i] \in S => \/ \E n \in 1 .. Len(t) : f[n] = i
                       \/ Len(t) = m /\ \A n \in 1 .. Len(t) : f[n] < i

LEMMA HitsAre ==
  ASSUME NEW X, NEW s \in Seq(X), NEW S, NEW m \in Nat
  PROVE  LET t == Prefix(Kept(s, S), m)
         IN t \in Seq(X) /\ Len(t) <= m /\ FirstKept(t, s, S, m)
<1> DEFINE kept == Kept(s, S)
           t    == Prefix(kept, m)
<1>1. kept \in Seq(X)
  BY KeptIs
<1>2. PICK f \in [DOMAIN kept -> DOMAIN s] :
         /\ \A n \in DOMAIN f : kept[n] = s[f[n]] /\ s[f[n]] \in S
         /\ \A l, n \in DOMAIN f : l < n => f[l] < f[n]
         /\ \A i \in DOMAIN s : s[i] \in S => \E n \in DOMAIN f : f[n] = i
  BY KeptIs
<1> HIDE DEF kept
<1>3. /\ t \in Seq(X) /\ Len(t) = (IF Len(kept) < m THEN Len(kept) ELSE m)
      /\ \A n \in 1 .. Len(t) : t[n] = kept[n]
  BY <1>1 DEF Prefix
<1>4. Len(t) \in Nat /\ Len(t) <= m /\ 1 .. Len(t) \subseteq DOMAIN kept /\ DOMAIN kept = 1 .. Len(kept)
  BY <1>1, <1>3
<1> DEFINE g == [n \in 1 .. Len(t) |-> f[n]]
<1>5. g \in [1 .. Len(t) -> DOMAIN s]
  BY <1>4
<1>6. \A n \in 1 .. Len(t) : t[n] = s[g[n]] /\ s[g[n]] \in S
  BY <1>2, <1>3, <1>4
<1>7. \A l, n \in 1 .. Len(t) : l < n => g[l] < g[n]
  BY <1>2, <1>4
<1>8. ASSUME NEW i \in DOMAIN s, s[i] \in S
      PROVE  \/ \E n \in 1 .. Len(t) : g[n] = i
             \/ Len(t) = m /\ \A n \in 1 .. Len(t) : g[n] < i
  <2>1. PICK n \in DOMAIN kept : f[n] = i
    BY <1>2, <1>8
  <2>2. CASE n \in 1 .. Len(t)
    BY <2>1, <2>2
  <2>3. CASE n \notin 1 .. Len(t)
    <3>1. n \in 1 .. Len(kept) /\ Len(t) < n /\ Len(t) = m
      <4>1. n \in Nat /\ 1 <= n /\ n <= Len(kept) /\ Len(kept) \in Nat
        BY <1>1, <2>1
      <4> HIDE DEF t
      <4>2. ~ n <= Len(t)
        BY <1>4, <2>3, <4>1
      <4>3. Len(t) < n
        BY <1>4, <4>1, <4>2
      <4>4. ~ Len(kept) < m
        BY <1>3, <1>4, <4>1, <4>3
      <4>5. n \in 1 .. Len(kept)
        BY <1>4, <2>1
      <4> QED
        BY <1>3, <4>3, <4>4, <4>5
    <3>2. \A l \in 1 .. Len(t) : l < n /\ l \in DOMAIN f /\ n \in DOMAIN f
      BY <1>4, <3>1
    <3> QED
      BY <1>2, <2>1, <3>1, <3>2
  <2> QED
    BY <2>2, <2>3
<1> HIDE DEF t, g
<1>9. t \in Seq(X) /\ Len(t) <= m
  BY <1>3, <1>4
<1>10. FirstKept(t, s, S, m)
  BY <1>5, <1>6, <1>7, <1>8 DEF FirstKept
<1> QED
  BY <1>9, <1>10 DEF t, kept
LEMMA AppendedRange ==
  ASSUME NEW X, NEW s \in Seq(X), NEW t \in Seq(X)
  PROVE  Range(s \o t) = Range(s) \cup Range(t)
<1>1. Len(s) \in Nat /\ Len(t) \in Nat /\ DOMAIN (s \o t) = 1 .. Len(s) + Len(t)
  OBVIOUS
<1>2. \A i \in 1 .. Len(s) : (s \o t)[i] = s[i] /\ i \in DOMAIN (s \o t)
  BY <1>1
<1>3. \A i \in 1 .. Len(t) : (s \o t)[Len(s) + i] = t[i] /\ Len(s) + i \in DOMAIN (s \o t)
  BY <1>1
<1>4. \A i \in DOMAIN (s \o t) :
        i \in 1 .. Len(s) \/ (i - Len(s) \in 1 .. Len(t) /\ i = Len(s) + (i - Len(s)))
  BY <1>1
<1>5. Range(s \o t) \subseteq Range(s) \cup Range(t)
  <2> SUFFICES ASSUME NEW i \in DOMAIN (s \o t) PROVE (s \o t)[i] \in Range(s) \cup Range(t)
    BY DEF Range
  <2> QED
    BY <1>2, <1>3, <1>4 DEF Range
<1>6. Range(s) \subseteq Range(s \o t)
  BY <1>2 DEF Range
<1>7. Range(t) \subseteq Range(s \o t)
  <2> SUFFICES ASSUME NEW i \in 1 .. Len(t) PROVE t[i] \in Range(s \o t)
    BY DEF Range
  <2> QED
    BY <1>3 DEF Range
<1> QED
  BY <1>5, <1>6, <1>7

LEMMA EmptyRange ==
  ASSUME NEW X, NEW s \in Seq(X)
  PROVE  s # <<>> <=> Range(s) # {}
<1>1. CASE s = <<>>
  BY <1>1 DEF Range
<1>2. CASE s # <<>>
  <2>1. 1 \in DOMAIN s
    BY <1>2
  <2> QED
    BY <1>2, <2>1 DEF Range
<1> QED
  BY <1>1, <1>2

-----------------------------------------------------------------------------
(* A selection that is the best as far as place n: place is the place of   *)
(* each eligible match.                                                    *)

UpTo(best, place, k, n) ==
  /\ best \in Seq(DOMAIN place) /\ Len(best) <= k
  /\ \A i \in DOMAIN best : place[best[i]] <= n
  /\ \A i, j \in DOMAIN best : i < j => place[best[i]] < place[best[j]]
  /\ \A x \in DOMAIN place : place[x] <= n =>
       \/ \E i \in DOMAIN best : best[i] = x
       \/ Len(best) = k /\ \A i \in DOMAIN best : place[best[i]] < place[x]

Places(every, some, eligible) ==
  [x \in (Range(every) \cup Range(some)) \cap eligible |-> Contract!Place(every, some, x)]

LEMMA PlacesAre ==
  ASSUME NEW X, NEW every \in Seq(X), NEW some \in Seq(X), IsInjective(every), IsInjective(some)
  PROVE  /\ \A i \in 1 .. Len(every) : Contract!Place(every, some, every[i]) = i
         /\ \A i \in 1 .. Len(some) :
              some[i] \notin Range(every) => Contract!Place(every, some, some[i]) = Len(every) + i
<1>1. ASSUME NEW i \in 1 .. Len(every)
      PROVE  Contract!Place(every, some, every[i]) = i
  <2>1. every[i] \in Contract!Range(every)
    BY DEF Contract!Range
  <2>2. \A j \in DOMAIN every : every[j] = every[i] => j = i
    BY DEF IsInjective
  <2> QED
    BY <2>1, <2>2 DEF Contract!Place
<1>2. ASSUME NEW i \in 1 .. Len(some), some[i] \notin Range(every)
      PROVE  Contract!Place(every, some, some[i]) = Len(every) + i
  <2>1. some[i] \notin Contract!Range(every)
    BY <1>2 DEF Contract!Range, Range
  <2>2. \A j \in DOMAIN some : some[j] = some[i] => j = i
    BY DEF IsInjective
  <2> QED
    BY <2>1, <2>2 DEF Contract!Place
<1> QED
  BY <1>1, <1>2

\* Every match is at a place: in the ranking of every term, or after it.
LEMMA PlacesIn ==
  ASSUME NEW X, NEW every \in Seq(X), NEW some \in Seq(X), IsInjective(every), IsInjective(some),
         NEW eligible, NEW x \in DOMAIN Places(every, some, eligible)
  PROVE  \/ \E i \in 1 .. Len(every) : x = every[i] /\ Places(every, some, eligible)[x] = i
         \/ \E i \in 1 .. Len(some) : /\ x = some[i] /\ x \notin Range(every)
                                      /\ Places(every, some, eligible)[x] = Len(every) + i
<1>1. Places(every, some, eligible)[x] = Contract!Place(every, some, x)
  BY DEF Places
<1>2. CASE x \in Range(every)
  <2>1. PICK i \in 1 .. Len(every) : x = every[i]
    BY <1>2 DEF Range
  <2> QED
    BY <1>1, <2>1, PlacesAre
<1>3. CASE x \notin Range(every)
  <2>1. PICK i \in 1 .. Len(some) : x = some[i]
    BY <1>3 DEF Range, Places
  <2> QED
    BY <1>1, <1>3, <2>1, PlacesAre
<1> QED
  BY <1>2, <1>3

LEMMA PlacesType ==
  ASSUME NEW X, NEW every \in Seq(X), NEW some \in Seq(X), IsInjective(every), IsInjective(some),
         NEW eligible
  PROVE  /\ Places(every, some, eligible) \in [DOMAIN Places(every, some, eligible) -> Nat]
         /\ \A x \in DOMAIN Places(every, some, eligible) :
              Places(every, some, eligible)[x] <= Len(every) + Len(some)
<1> DEFINE place == Places(every, some, eligible)
<1>1. \A x \in DOMAIN place : place[x] \in Nat /\ place[x] <= Len(every) + Len(some)
  <2> SUFFICES ASSUME NEW x \in DOMAIN place
               PROVE  place[x] \in Nat /\ place[x] <= Len(every) + Len(some)
    OBVIOUS
  <2>1. \/ \E i \in 1 .. Len(every) : place[x] = i
        \/ \E i \in 1 .. Len(some) : place[x] = Len(every) + i
    BY PlacesIn
  <2>2. Len(every) \in Nat /\ Len(some) \in Nat
    OBVIOUS
  <2> HIDE DEF place
  <2> QED
    BY <2>1, <2>2
<1>2. place = [x \in DOMAIN place |-> place[x]]
  BY DEF Places
<1> HIDE DEF place
<1> QED
  BY <1>1, <1>2 DEF place

\* What is found further on is added at the end.
LEMMA Extend ==
  ASSUME NEW M, NEW place \in [M -> Nat], NEW k \in Nat, NEW n \in Nat, NEW m \in Nat, n <= m,
         NEW best, UpTo(best, place, k, n),
         NEW more \in Seq(M), Len(more) <= k - Len(best),
         \A i \in DOMAIN more : n < place[more[i]] /\ place[more[i]] <= m,
         \A i, j \in DOMAIN more : i < j => place[more[i]] < place[more[j]],
         \A x \in M : n < place[x] /\ place[x] <= m =>
           \/ \E i \in DOMAIN more : more[i] = x
           \/ Len(more) = k - Len(best) /\ \A i \in DOMAIN more : place[more[i]] < place[x]
  PROVE  UpTo(best \o more, place, k, m)
<1> DEFINE all == best \o more
<1>1. best \in Seq(M) /\ Len(best) \in Nat /\ Len(more) \in Nat /\ Len(best) <= k /\ DOMAIN place = M
  BY DEF UpTo
<1>2. /\ all \in Seq(M) /\ Len(all) = Len(best) + Len(more)
      /\ \A i \in DOMAIN best : i \in DOMAIN all /\ all[i] = best[i]
      /\ \A i \in DOMAIN more : Len(best) + i \in DOMAIN all /\ all[Len(best) + i] = more[i]
  <2>1. all \in Seq(M) /\ Len(all) = Len(best) + Len(more)
    BY <1>1
  <2>2. DOMAIN all = 1 .. Len(best) + Len(more) /\ DOMAIN best = 1 .. Len(best)
        /\ DOMAIN more = 1 .. Len(more)
    BY <1>1, <2>1
  <2>3. \A i \in 1 .. Len(best) : all[i] = best[i]
    BY <1>1
  <2>4. \A i \in 1 .. Len(more) : all[Len(best) + i] = more[i]
    BY <1>1
  <2> HIDE DEF all
  <2>5. \A i \in DOMAIN best : i \in DOMAIN all /\ all[i] = best[i]
    BY <1>1, <2>2, <2>3
  <2>6. \A i \in DOMAIN more : Len(best) + i \in DOMAIN all /\ all[Len(best) + i] = more[i]
    BY <1>1, <2>2, <2>4
  <2> QED
    BY <2>1, <2>5, <2>6
<1>3. \A i \in DOMAIN all : \/ i \in DOMAIN best /\ all[i] = best[i]
                            \/ \E j \in DOMAIN more : i = Len(best) + j /\ all[i] = more[j]
  <2> SUFFICES ASSUME NEW i \in DOMAIN all, i \notin DOMAIN best
               PROVE  \E j \in DOMAIN more : i = Len(best) + j /\ all[i] = more[j]
    BY <1>2
  <2>1. i - Len(best) \in DOMAIN more
    BY <1>1, <1>2
  <2>2. i = Len(best) + (i - Len(best))
    BY <1>1, <1>2
  <2> QED
    BY <1>2, <2>1, <2>2
<1>4. \A x \in M : place[x] \in Nat
  OBVIOUS
<1> HIDE DEF all
<1>5. \A i \in DOMAIN all : place[all[i]] <= m
  <2> SUFFICES ASSUME NEW i \in DOMAIN all PROVE place[all[i]] <= m
    OBVIOUS
  <2>1. CASE i \in DOMAIN best /\ all[i] = best[i]
    <3>1. place[best[i]] <= n /\ place[best[i]] \in Nat
      BY <1>1, <1>4, <2>1 DEF UpTo
    <3> QED
      BY <2>1, <3>1
  <2>2. CASE \E j \in DOMAIN more : i = Len(best) + j /\ all[i] = more[j]
    BY <2>2
  <2> QED
    BY <1>3, <2>1, <2>2
<1>6. ASSUME NEW i \in DOMAIN all, NEW j \in DOMAIN all, i < j
      PROVE  place[all[i]] < place[all[j]]
  <2>1. CASE j \in DOMAIN best /\ all[j] = best[j]
    <3>1. i \in 1 .. Len(all) /\ j \in 1 .. Len(best)
      BY <1>1, <1>2, <2>1
    <3>2. i \in 1 .. Len(best)
      BY <1>1, <1>6, <3>1
    <3>3. i \in DOMAIN best /\ all[i] = best[i]
      BY <1>1, <1>2, <3>2
    <3> QED
      BY <1>6, <2>1, <3>3 DEF UpTo
  <2>2. ASSUME NEW l \in DOMAIN more, j = Len(best) + l, all[j] = more[l]
        PROVE  place[all[i]] < place[all[j]]
    <3>1. CASE i \in DOMAIN best /\ all[i] = best[i]
      <4>1. place[best[i]] <= n /\ place[best[i]] \in Nat /\ n < place[more[l]] /\ place[more[l]] \in Nat
        BY <1>1, <1>4, <3>1 DEF UpTo
      <4> QED
        BY <2>2, <3>1, <4>1
    <3>2. ASSUME NEW h \in DOMAIN more, i = Len(best) + h, all[i] = more[h]
          PROVE  place[all[i]] < place[all[j]]
      <4>1. h < l
        BY <1>1, <1>6, <2>2, <3>2
      <4> QED
        BY <2>2, <3>2, <4>1
    <3> QED
      BY <1>3, <3>1, <3>2
  <2> QED
    BY <1>3, <2>1, <2>2
<1>7. ASSUME NEW x \in M, place[x] <= m
      PROVE  \/ \E i \in DOMAIN all : all[i] = x
             \/ Len(all) = k /\ \A i \in DOMAIN all : place[all[i]] < place[x]
  <2>1. CASE place[x] <= n
    <3>1. CASE \E i \in DOMAIN best : best[i] = x
      BY <1>2, <3>1
    <3>2. CASE Len(best) = k /\ \A i \in DOMAIN best : place[best[i]] < place[x]
      <4>1. Len(more) = 0 /\ Len(all) = k /\ DOMAIN more = {}
        BY <1>1, <1>2, <3>2
      <4> QED
        BY <1>3, <3>2, <4>1
    <3> QED
      BY <1>1, <2>1, <3>1, <3>2 DEF UpTo
  <2>2. CASE n < place[x]
    <3>1. CASE \E i \in DOMAIN more : more[i] = x
      BY <1>2, <3>1
    <3>2. CASE Len(more) = k - Len(best) /\ \A i \in DOMAIN more : place[more[i]] < place[x]
      <4>1. Len(all) = k
        BY <1>1, <1>2, <3>2
      <4>2. \A i \in DOMAIN best : place[best[i]] <= n /\ place[best[i]] \in Nat /\ place[x] \in Nat
        BY <1>1, <1>4 DEF UpTo
      <4>3. \A i \in DOMAIN best : place[best[i]] < place[x]
        BY <2>2, <4>2
      <4> QED
        BY <1>3, <3>2, <4>1, <4>3
    <3> QED
      BY <1>7, <2>2, <3>1, <3>2
  <2> QED
    BY <1>4, <2>1, <2>2
<1>8. Len(all) <= k
  BY <1>1, <1>2
<1>9. UpTo(all, place, k, m)
  BY <1>1, <1>2, <1>5, <1>6, <1>7, <1>8 DEF UpTo
<1> QED
  BY <1>9 DEF all
\* A query, the first or the second, is read from place o on, and a set S of
\* its rows is wanted: those that are eligible and have not been met before.
RowsRead(X, every, some, eligible, k, best, ranked, base, o, rows, S) ==
  /\ every \in Seq(X) /\ some \in Seq(X) /\ IsInjective(every) /\ IsInjective(some)
  /\ k \in Nat /\ o \in Nat /\ rows \in Seq(X)
  /\ o + Len(rows) <= Len(ranked)
  /\ UpTo(best, Places(every, some, eligible), k, base + o)
  /\ \A i \in 1 .. Len(rows) : rows[i] = ranked[o + i]
  /\ \/ /\ ranked = every /\ base = 0
        /\ \A i \in 1 .. Len(rows) : rows[i] \in S <=> rows[i] \in eligible
     \/ /\ ranked = some /\ base = Len(every)
        /\ \A i \in 1 .. Len(rows) :
             rows[i] \in S <=> rows[i] \in eligible /\ rows[i] \notin Range(every)

\* A place among the rows read is one of them.
LEMMA RowAt ==
  ASSUME NEW b \in Nat, NEW o \in Nat, NEW l \in Nat, NEW i \in Nat,
         b + o < b + i, b + i <= b + o + l
  PROVE  i - o \in 1 .. l /\ o + (i - o) = i
OBVIOUS

\* What is kept of them, as far as there is room, is what comes next in the
\* order of the places.
LEMMA RowsExtend ==
  ASSUME NEW X, NEW every, NEW some, NEW eligible, NEW k, NEW best, NEW ranked, NEW base,
         NEW o, NEW rows, NEW S,
         RowsRead(X, every, some, eligible, k, best, ranked, base, o, rows, S)
  PROVE  LET more == Prefix(Kept(rows, S), k - Len(best))
         IN /\ UpTo(best \o more, Places(every, some, eligible), k, base + o + Len(rows))
            /\ more \in Seq(X) /\ Range(more) \subseteq S \cap Range(rows)
            /\ Len(best) + Len(more) <= k
<1> DEFINE place == Places(every, some, eligible)
           M     == DOMAIN place
           room  == k - Len(best)
           l     == Len(rows)
           first  == /\ ranked = every /\ base = 0
                     /\ \A i \in 1 .. l : rows[i] \in S <=> rows[i] \in eligible
           second == /\ ranked = some /\ base = Len(every)
                     /\ \A i \in 1 .. l : rows[i] \in S <=> rows[i] \in eligible /\ rows[i] \notin Range(every)
           more  == Prefix(Kept(rows, S), room)
<1> USE DEF RowsRead
<1>1. base \in Nat /\ Len(every) \in Nat /\ Len(some) \in Nat /\ place \in [M -> Nat] /\ ranked \in Seq(X)
  BY PlacesType
<1>2. best \in Seq(M) /\ Len(best) \in Nat /\ Len(best) <= k /\ room \in Nat
  BY DEF UpTo
<1>3. ASSUME NEW i \in 1 .. l, rows[i] \in S
      PROVE  rows[i] \in M /\ place[rows[i]] = base + o + i
  <2>1. rows[i] = ranked[o + i] /\ o + i \in 1 .. Len(ranked)
    OBVIOUS
  <2>2. rows[i] \in eligible /\ (first \/ (second /\ rows[i] \notin Range(every)))
    BY <1>3
  <2>3. rows[i] \in Range(every) \cup Range(some)
    BY <1>1, <2>1 DEF Range
  <2>4. rows[i] \in M /\ place[rows[i]] = Contract!Place(every, some, rows[i])
    BY <2>2, <2>3 DEF Places
  <2>5. CASE second
    <3>1. Contract!Place(every, some, some[o + i]) = Len(every) + (o + i)
      BY <2>1, <2>2, <2>5, PlacesAre
    <3> QED
      BY <1>1, <2>1, <2>4, <2>5, <3>1
  <2>6. CASE first
    <3>1. Contract!Place(every, some, every[o + i]) = o + i
      BY <2>1, <2>6, PlacesAre
    <3> QED
      BY <1>1, <2>1, <2>4, <2>6, <3>1
  <2> QED
    BY <2>5, <2>6
<1>4. ASSUME NEW x \in M, base + o < place[x], place[x] <= base + o + l
      PROVE  \E i \in 1 .. l : rows[i] = x /\ rows[i] \in S
  <2>1. x \in eligible
    BY DEF Places
  <2>2. \/ \E i \in 1 .. Len(every) : x = every[i] /\ place[x] = i
        \/ \E i \in 1 .. Len(some) : x = some[i] /\ x \notin Range(every) /\ place[x] = Len(every) + i
    BY PlacesIn
  <2>3. place[x] \in Nat
    BY <1>1
  <2> HIDE DEF place
  <2>4. CASE second
    <3>1. PICK i \in 1 .. Len(some) : x = some[i] /\ x \notin Range(every) /\ place[x] = Len(every) + i
      BY <1>1, <1>4, <2>2, <2>3, <2>4
    <3>2. i - o \in 1 .. l /\ o + (i - o) = i
      <4>1. base \in Nat /\ o \in Nat /\ l \in Nat /\ i \in Nat
        BY <1>1
      <4>2. base + o < base + i /\ base + i <= base + o + l
        BY <1>4, <2>4, <3>1
      <4> HIDE DEF RowsRead, l
      <4> QED
        BY ONLY <4>1, <4>2, RowAt
    <3>3. rows[i - o] = x
      BY <2>4, <3>1, <3>2
    <3> QED
      BY <2>1, <3>1, <3>2, <3>3
  <2>5. CASE first
    <3>1. PICK i \in 1 .. Len(every) : x = every[i] /\ place[x] = i
      BY <1>1, <1>4, <2>2, <2>3, <2>5
    <3>2. i - o \in 1 .. l /\ o + (i - o) = i
      <4>1. o \in Nat /\ l \in Nat /\ i \in Nat
        BY <1>1
      <4>2. o < i /\ i <= o + l
        BY <1>1, <1>4, <2>5, <3>1
      <4> HIDE DEF RowsRead, l
      <4> QED
        BY ONLY <4>1, <4>2
    <3>3. rows[i - o] = x
      BY <2>5, <3>1, <3>2
    <3> QED
      BY <2>1, <2>5, <3>2, <3>3
  <2> QED
    BY <2>4, <2>5
<1> HIDE DEF place, room
<1>5. more \in Seq(X) /\ Len(more) <= room /\ FirstKept(more, rows, S, room)
  BY <1>2, HitsAre
<1> HIDE DEF M, more
<1>6. more \in Seq(X) /\ Len(more) <= room /\ Len(more) \in Nat /\ DOMAIN more = 1 .. Len(more)
  BY <1>5
<1>7. PICK f \in [1 .. Len(more) -> DOMAIN rows] :
         /\ \A n \in 1 .. Len(more) : more[n] = rows[f[n]] /\ rows[f[n]] \in S
         /\ \A h, n \in 1 .. Len(more) : h < n => f[h] < f[n]
         /\ \A i \in DOMAIN rows :
              rows[i] \in S => \/ \E n \in 1 .. Len(more) : f[n] = i
                               \/ Len(more) = room /\ \A n \in 1 .. Len(more) : f[n] < i
  BY <1>5 DEF FirstKept
<1>8. \A n \in 1 .. Len(more) :
        /\ f[n] \in 1 .. l /\ f[n] \in Nat /\ more[n] = rows[f[n]]
        /\ more[n] \in M /\ place[more[n]] = base + o + f[n]
  <2>1. \A n \in 1 .. Len(more) : f[n] \in 1 .. l /\ f[n] \in Nat
    <3>1. DOMAIN rows = 1 .. l /\ 1 .. l \subseteq Nat
      OBVIOUS
    <3> QED
      BY <1>7, <3>1
  <2> HIDE DEF l
  <2> QED
    BY <1>3, <1>7, <2>1
<1>9. more \in Seq(M)
  BY <1>6, <1>8
<1>10. \A n \in DOMAIN more : base + o < place[more[n]] /\ place[more[n]] <= base + o + l
  BY <1>1, <1>6, <1>8
<1>11. \A h, n \in DOMAIN more : h < n => place[more[h]] < place[more[n]]
  <2> SUFFICES ASSUME NEW h \in 1 .. Len(more), NEW n \in 1 .. Len(more), h < n
               PROVE  place[more[h]] < place[more[n]]
    BY <1>6
  <2>1. f[h] < f[n]
    BY <1>7
  <2>2. f[h] \in Nat /\ f[n] \in Nat
    BY <1>8
  <2>3. place[more[h]] = base + o + f[h] /\ place[more[n]] = base + o + f[n]
    BY <1>8
  <2>4. base \in Nat /\ o \in Nat
    BY <1>1
  <2> HIDE DEF RowsRead
  <2> QED
    BY ONLY <2>1, <2>2, <2>3, <2>4
<1>12. ASSUME NEW x \in M, base + o < place[x], place[x] <= base + o + l
       PROVE  \/ \E n \in DOMAIN more : more[n] = x
              \/ Len(more) = room /\ \A n \in DOMAIN more : place[more[n]] < place[x]
  <2>1. PICK i \in 1 .. l : rows[i] = x /\ rows[i] \in S
    BY <1>4, <1>12
  <2>2. place[x] = base + o + i
    BY <1>3, <2>1
  <2>3. CASE \E n \in 1 .. Len(more) : f[n] = i
    BY <1>6, <1>8, <2>1, <2>3
  <2>4. CASE Len(more) = room /\ \A n \in 1 .. Len(more) : f[n] < i
    <3>1. \A n \in 1 .. Len(more) : place[more[n]] < place[x]
      BY <1>1, <1>8, <2>2, <2>4
    <3> QED
      BY <1>6, <2>4, <3>1
  <2>5. i \in DOMAIN rows
    OBVIOUS
  <2> QED
    BY <1>7, <2>1, <2>3, <2>4, <2>5
<1>13. UpTo(best \o more, place, k, base + o + l)
  <2>1. base + o \in Nat /\ base + o + l \in Nat /\ base + o <= base + o + l
    BY <1>1
  <2>2. UpTo(best, place, k, base + o)
    BY DEF place
  <2>3. Len(more) <= k - Len(best)
    BY <1>6 DEF room
  <2>4. \A x \in M : base + o < place[x] /\ place[x] <= base + o + l =>
          \/ \E n \in DOMAIN more : more[n] = x
          \/ Len(more) = k - Len(best) /\ \A n \in DOMAIN more : place[more[n]] < place[x]
    BY <1>12 DEF room
  <2> QED
    BY <1>1, <1>9, <1>10, <1>11, <2>1, <2>2, <2>3, <2>4, Extend
<1>14. Range(more) \subseteq S \cap Range(rows)
  BY <1>7, <1>6 DEF Range
<1>15. Len(best) + Len(more) <= k
  BY <1>2, <1>6 DEF room
<1> QED
  BY <1>6, <1>13, <1>14, <1>15 DEF place, more, room
LEMMA NothingYet ==
  ASSUME NEW X, NEW every \in Seq(X), NEW some \in Seq(X), IsInjective(every), IsInjective(some),
         NEW eligible, NEW k \in Nat
  PROVE  UpTo(<<>>, Places(every, some, eligible), k, 0)
<1> DEFINE place == Places(every, some, eligible)
<1>1. \A x \in DOMAIN place : ~ place[x] <= 0
  <2> SUFFICES ASSUME NEW x \in DOMAIN place PROVE ~ place[x] <= 0
    OBVIOUS
  <2>1. \/ \E i \in 1 .. Len(every) : place[x] = i
        \/ \E i \in 1 .. Len(some) : place[x] = Len(every) + i
    BY PlacesIn
  <2>2. Len(every) \in Nat /\ Len(some) \in Nat
    OBVIOUS
  <2> HIDE DEF place
  <2> QED
    BY <2>1, <2>2
<1> HIDE DEF place
<1>2. UpTo(<<>>, place, k, 0)
  BY <1>1 DEF UpTo
<1> QED
  BY <1>2 DEF place

\* k matches found are the best, whatever follows.
LEMMA FullIsBest ==
  ASSUME NEW place, place \in [DOMAIN place -> Nat], NEW k \in Nat, NEW n \in Nat, NEW m \in Nat, n <= m,
         NEW best, UpTo(best, place, k, n), Len(best) = k
  PROVE  UpTo(best, place, k, m)
<1>1. \A i \in DOMAIN best : best[i] \in DOMAIN place /\ place[best[i]] \in Nat /\ place[best[i]] <= n
  BY DEF UpTo
<1>2. \A i \in DOMAIN best : place[best[i]] <= m
  BY <1>1
<1>3. ASSUME NEW x \in DOMAIN place
      PROVE  (\E i \in DOMAIN best : best[i] = x) \/ \A i \in DOMAIN best : place[best[i]] < place[x]
  <2>1. place[x] \in Nat
    OBVIOUS
  <2>2. CASE place[x] <= n
    BY <2>2 DEF UpTo
  <2>3. CASE n < place[x]
    BY <1>1, <2>1, <2>3
  <2> QED
    BY <2>1, <2>2, <2>3
<1> QED
  BY <1>2, <1>3 DEF UpTo

LEMMA AllIsBest ==
  ASSUME NEW X, NEW every \in Seq(X), NEW some \in Seq(X), IsInjective(every), IsInjective(some),
         NEW eligible, NEW k \in Nat, NEW best,
         UpTo(best, Places(every, some, eligible), k, Len(every) + Len(some))
  PROVE  Contract!IsBest(best, every, some, eligible, k)
<1> DEFINE place == Places(every, some, eligible)
<1>1. \A f : Contract!Range(f) = Range(f)
  BY DEF Contract!Range, Range
<1>2. /\ DOMAIN place = (Range(every) \cup Range(some)) \cap eligible
      /\ \A x \in DOMAIN place : place[x] = Contract!Place(every, some, x)
  BY DEF Places
<1>3. \A x \in DOMAIN place : place[x] <= Len(every) + Len(some)
  BY PlacesType
<1> HIDE DEF place
<1>4. UpTo(best, place, k, Len(every) + Len(some))
  BY DEF place
<1>5. best \in Seq(DOMAIN place) /\ Len(best) <= k
  BY <1>4 DEF UpTo
<1>6. Range(best) \subseteq DOMAIN place
  BY <1>5 DEF Range
<1>7. \A i, j \in DOMAIN best :
        i < j => Contract!Place(every, some, best[i]) < Contract!Place(every, some, best[j])
  BY <1>2, <1>4, <1>5 DEF UpTo
<1>8. ASSUME NEW x \in DOMAIN place \ Range(best)
      PROVE  Len(best) = k /\ \A y \in Range(best) : Contract!Place(every, some, y) < Contract!Place(every, some, x)
  <2>1. Len(best) = k /\ \A i \in DOMAIN best : place[best[i]] < place[x]
    BY <1>3, <1>4 DEF UpTo, Range
  <2>2. \A i \in DOMAIN best : best[i] \in DOMAIN place
    BY <1>6 DEF Range
  <2>3. \A i \in DOMAIN best : Contract!Place(every, some, best[i]) < Contract!Place(every, some, x)
    BY <1>2, <2>1, <2>2
  <2> QED
    BY <2>1, <2>3 DEF Range
<1> QED
  BY <1>1, <1>2, <1>5, <1>6, <1>7, <1>8 DEF Contract!IsBest

-----------------------------------------------------------------------------
(* The stores of recall.                                                   *)

\* The orders are the sequences without repetition: none is longer than its set.
LEMMA OrdersAre ==
  ASSUME NEW X, IsFiniteSet(X)
  PROVE  \A s : s \in Orders(X) <=> s \in Seq(X) /\ IsInjective(s)
<1>1. Cardinality(X) \in Nat
  BY FS_CardinalityType
<1>2. ASSUME NEW s \in Orders(X) PROVE s \in Seq(X) /\ IsInjective(s)
  BY <1>1 DEF Orders
<1>3. ASSUME NEW s \in Seq(X), IsInjective(s) PROVE s \in Orders(X)
  <2>1. s \in [1 .. Len(s) -> X] /\ Len(s) \in Nat
    OBVIOUS
  <2>2. s \in Injection(1 .. Len(s), X)
    BY <1>3, <2>1 DEF Injection
  <2>3. Cardinality(1 .. Len(s)) <= Cardinality(X) /\ Cardinality(1 .. Len(s)) = Len(s)
    <3>1. Cardinality(1 .. Len(s)) <= Cardinality(X)
      BY <2>2, FS_Injection
    <3>2. Cardinality(1 .. Len(s)) = Len(s)
      <4>1. \A n \in Nat : Cardinality(1 .. n) = n
        BY FS_Interval
      <4> QED
        BY <2>1, <4>1
    <3> QED
      BY <3>1, <3>2
  <2>4. Len(s) \in 0 .. Cardinality(X)
    BY <1>1, <2>1, <2>3
  <2> QED
    BY <1>3, <2>1, <2>4 DEF Orders
<1> QED
  BY <1>2, <1>3

LEMMA RankingsAre ==
  ASSUME RecallAssumption, NEW st \in Holdings
  PROVE  /\ st.conceptAnd \in Seq(Concepts) /\ IsInjective(st.conceptAnd)
         /\ st.conceptOr \in Seq(Concepts) /\ IsInjective(st.conceptOr)
         /\ st.sessionAnd \in Seq(Sessions) /\ IsInjective(st.sessionAnd)
         /\ st.sessionOr \in Seq(Sessions) /\ IsInjective(st.sessionOr)
BY OrdersAre DEF RecallAssumption, Holdings

\* What others commit leaves a store.
LEMMA OthersKeepStores ==
  ASSUME RecallAssumption, store \in Holdings, Hide \/ Record
  PROVE  store' \in Holdings
<1>1. ASSUME NEW c \in store.allowed, store' = [store EXCEPT !.allowed = @ \ {c}]
      PROVE  store' \in Holdings
  BY <1>1 DEF Holdings
<1>2. ASSUME NEW s \in store.visible,
             store' = [store EXCEPT !.visible = @ \ {s}, !.allowed = {c \in @ : Source[c] # s}]
      PROVE  store' \in Holdings
  BY <1>2 DEF Holdings
<1>3. ASSUME NEW c \in Concepts \ Range(store.conceptOr),
             store' = [store EXCEPT !.conceptAnd = <<c>> \o @, !.conceptOr = <<c>> \o @,
                                    !.allowed = @ \cup {c}]
      PROVE  store' \in Holdings
  <2>1. \A s : s \in Orders(Concepts) <=> s \in Seq(Concepts) /\ IsInjective(s)
    BY OrdersAre DEF RecallAssumption
  <2>2. ASSUME NEW s \in Orders(Concepts), c \notin Range(s)
        PROVE  <<c>> \o s \in Orders(Concepts) /\ Range(<<c>> \o s) = {c} \cup Range(s)
    <3>1. s \in Seq(Concepts) /\ IsInjective(s)
      BY <2>1
    <3>2. /\ <<c>> \o s \in Seq(Concepts) /\ DOMAIN (<<c>> \o s) = 1 .. 1 + Len(s) /\ Len(s) \in Nat
          /\ (<<c>> \o s)[1] = c
          /\ \A i \in 2 .. 1 + Len(s) : (<<c>> \o s)[i] = s[i - 1] /\ i - 1 \in DOMAIN s
      BY <3>1
    <3>3. IsInjective(<<c>> \o s)
      <4> DEFINE t == <<c>> \o s
      <4> HIDE DEF t
      <4> SUFFICES ASSUME NEW i \in DOMAIN t, NEW j \in DOMAIN t, t[i] = t[j] PROVE i = j
        BY DEF IsInjective, t
      <4>1. i \in 1 .. 1 + Len(s) /\ j \in 1 .. 1 + Len(s)
        BY <3>2 DEF t
      <4>2. CASE i = 1
        <5>1. j \in 2 .. 1 + Len(s) => s[j - 1] = c /\ j - 1 \in DOMAIN s
          BY <3>2, <4>2 DEF t
        <5> QED
          BY <2>2, <3>2, <4>1, <4>2, <5>1 DEF Range
      <4>3. CASE j = 1
        <5>1. i \in 2 .. 1 + Len(s) => s[i - 1] = c /\ i - 1 \in DOMAIN s
          BY <3>2, <4>3 DEF t
        <5> QED
          BY <2>2, <3>2, <4>1, <4>3, <5>1 DEF Range
      <4>4. CASE i # 1 /\ j # 1
        <5>1. i \in 2 .. 1 + Len(s) /\ j \in 2 .. 1 + Len(s)
          BY <3>2, <4>1, <4>4
        <5>2. s[i - 1] = s[j - 1] /\ i - 1 \in DOMAIN s /\ j - 1 \in DOMAIN s
          BY <3>2, <5>1 DEF t
        <5>3. i - 1 = j - 1
          BY <3>1, <5>2 DEF IsInjective
        <5> QED
          BY <3>2, <4>1, <5>3
      <4> QED
        BY <4>2, <4>3, <4>4
    <3>4. Range(<<c>> \o s) \subseteq {c} \cup Range(s)
      <4> SUFFICES ASSUME NEW i \in 1 .. 1 + Len(s) PROVE (<<c>> \o s)[i] \in {c} \cup Range(s)
        BY <3>2 DEF Range
      <4>1. i = 1 \/ i \in 2 .. 1 + Len(s)
        BY <3>2
      <4> QED
        BY <3>2, <4>1 DEF Range
    <3>5. {c} \cup Range(s) \subseteq Range(<<c>> \o s)
      <4>0. c \in Range(<<c>> \o s)
        <5>1. 1 \in DOMAIN (<<c>> \o s)
          BY <3>1, <3>2
        <5> QED
          BY <3>2, <5>1 DEF Range
      <4> SUFFICES ASSUME NEW j \in DOMAIN s PROVE s[j] \in Range(<<c>> \o s)
        BY <4>0 DEF Range
      <4>1. j + 1 \in 2 .. 1 + Len(s) /\ (j + 1) - 1 = j /\ j + 1 \in DOMAIN (<<c>> \o s)
        BY <3>1, <3>2
      <4>2. (<<c>> \o s)[j + 1] = s[j]
        BY <3>2, <4>1
      <4>3. 1 \in DOMAIN (<<c>> \o s)
        BY <3>2
      <4> QED
        BY <3>2, <4>1, <4>2, <4>3 DEF Range
    <3> QED
      BY <2>1, <3>2, <3>3, <3>4, <3>5
  <2>3. /\ store.conceptAnd \in Orders(Concepts) /\ store.conceptOr \in Orders(Concepts)
        /\ Range(store.conceptAnd) \subseteq Range(store.conceptOr)
    BY DEF Holdings
  <2>4. /\ <<c>> \o store.conceptAnd \in Orders(Concepts)
        /\ <<c>> \o store.conceptOr \in Orders(Concepts)
        /\ Range(<<c>> \o store.conceptAnd) \subseteq Range(<<c>> \o store.conceptOr)
    BY <1>3, <2>2, <2>3
  <2> HIDE DEF Orders
  <2> QED
    BY <1>3, <2>4 DEF Holdings
<1> QED
  BY <1>1, <1>2, <1>3 DEF Hide, Record
-----------------------------------------------------------------------------
(* The invariant: what is selected is the best of the snapshot as far as   *)
(* has been read, and everything of it once a kind of result is done.      *)

k == question.k

ConceptPlaces == Places(snap.conceptAnd, snap.conceptOr, snap.allowed)
ConceptEnd == Len(snap.conceptAnd) + Len(snap.conceptOr)

Others == snap.visible \ {Source[c] : c \in Range(concepts)}
SessionPlaces == Places(snap.sessionAnd, snap.sessionOr, Others)
SessionEnd == Len(snap.sessionAnd) + Len(snap.sessionOr)

Fallen == Range(concepts) \ Range(snap.conceptAnd) # {}
FallenSessions == Range(sessions) \ Range(snap.sessionAnd) # {}

RecallTypes ==
  /\ store \in Holdings /\ snap \in Holdings
  /\ question \in [k : 0 .. MaxK + 1, searchable : BOOLEAN]
  /\ pc \in {"open", "concepts", "sessions", "done", "refused"}
  /\ fallback \in BOOLEAN /\ used \in BOOLEAN
  /\ offset \in Nat
  /\ concepts \in Seq(Concepts) /\ sessions \in Seq(Sessions)

OpenInv ==
  /\ pc = "open" =>
       concepts = <<>> /\ sessions = <<>> /\ ~fallback /\ ~used /\ offset = 0 /\ seen = {}
  /\ pc \in {"concepts", "sessions", "done"} => k \in 1 .. MaxK

ConceptsInv ==
  pc = "concepts" =>
    /\ question.searchable /\ sessions = <<>>
    /\ offset <= Len(Ranked)
    /\ UpTo(concepts, ConceptPlaces, k, (IF fallback THEN Len(snap.conceptAnd) ELSE 0) + offset)
    /\ seen = {Ranked[i] : i \in 1 .. offset} \cup (IF fallback THEN Range(snap.conceptAnd) ELSE {})
    /\ used <=> Fallen
    /\ ~fallback => ~used

SessionsInv ==
  /\ pc \in {"sessions", "done"} =>
       IF question.searchable THEN UpTo(concepts, ConceptPlaces, k, ConceptEnd) ELSE concepts = <<>>
  /\ pc = "sessions" =>
       /\ used <=> Fallen
       /\ IF fallback
            THEN /\ question.searchable
                 /\ UpTo(sessions, SessionPlaces, k, Len(snap.sessionAnd))
                 /\ Range(sessions) \subseteq Range(snap.sessionAnd)
            ELSE sessions = <<>>
  /\ pc = "done" =>
       /\ IF question.searchable THEN UpTo(sessions, SessionPlaces, k, SessionEnd) ELSE sessions = <<>>
       /\ used <=> Fallen \/ FallenSessions

RecallInv == RecallTypes /\ OpenInv /\ ConceptsInv /\ SessionsInv

\* Selections that are the best of a store to the end are its answer.
IsFound(cs, ss, u, st, q) ==
  LET others == st.visible \ {Source[c] : c \in Range(cs)}
  IN /\ IF q.searchable
          THEN /\ UpTo(cs, Places(st.conceptAnd, st.conceptOr, st.allowed), q.k,
                       Len(st.conceptAnd) + Len(st.conceptOr))
               /\ UpTo(ss, Places(st.sessionAnd, st.sessionOr, others), q.k,
                       Len(st.sessionAnd) + Len(st.sessionOr))
          ELSE cs = <<>> /\ ss = <<>>
     /\ u <=> \/ Range(cs) \ Range(st.conceptAnd) # {}
              \/ Range(ss) \ Range(st.sessionAnd) # {}

LEMMA FoundIsAnswer ==
  ASSUME RecallAssumption, NEW st \in Holdings, NEW q, q.k \in Nat, NEW cs, NEW ss, NEW u \in BOOLEAN,
         IsFound(cs, ss, u, st, q)
  PROVE  Contract!IsAnswer([concepts |-> cs, sessions |-> ss, fallback |-> u], st, q)
<1> DEFINE others == st.visible \ {Source[c] : c \in Range(cs)}
           answer == [concepts |-> cs, sessions |-> ss, fallback |-> u]
<1>1. /\ st.conceptAnd \in Seq(Concepts) /\ IsInjective(st.conceptAnd)
      /\ st.conceptOr \in Seq(Concepts) /\ IsInjective(st.conceptOr)
      /\ st.sessionAnd \in Seq(Sessions) /\ IsInjective(st.sessionAnd)
      /\ st.sessionOr \in Seq(Sessions) /\ IsInjective(st.sessionOr)
  BY RankingsAre
<1>2. \A f : Contract!Range(f) = Range(f)
  BY DEF Contract!Range, Range
<1>3. ASSUME q.searchable
      PROVE  /\ Contract!IsBest(cs, st.conceptAnd, st.conceptOr, st.allowed, q.k)
             /\ Contract!IsBest(ss, st.sessionAnd, st.sessionOr, others, q.k)
  <2>1. /\ UpTo(cs, Places(st.conceptAnd, st.conceptOr, st.allowed), q.k,
                Len(st.conceptAnd) + Len(st.conceptOr))
        /\ UpTo(ss, Places(st.sessionAnd, st.sessionOr, others), q.k,
                Len(st.sessionAnd) + Len(st.sessionOr))
    BY <1>3 DEF IsFound
  <2> HIDE DEF others
  <2>2. Contract!IsBest(cs, st.conceptAnd, st.conceptOr, st.allowed, q.k)
    BY <1>1, <2>1, AllIsBest
  <2>3. Contract!IsBest(ss, st.sessionAnd, st.sessionOr, others, q.k)
    BY <1>1, <2>1, AllIsBest
  <2> QED
    BY <2>2, <2>3
<1>4. ~q.searchable => cs = <<>> /\ ss = <<>>
  BY DEF IsFound
<1>5. u <=> Range(cs) \ Range(st.conceptAnd) # {} \/ Range(ss) \ Range(st.sessionAnd) # {}
  BY DEF IsFound
<1>6. answer.concepts = cs /\ answer.sessions = ss /\ answer.fallback = u
  OBVIOUS
<1>7. others = st.visible \ {Source[c] : c \in Contract!Range(answer.concepts)}
  BY <1>2, <1>6
<1> HIDE DEF answer, others
<1>8. Contract!IsAnswer(answer, st, q)
  BY <1>2, <1>3, <1>4, <1>5, <1>6, <1>7 DEF Contract!IsAnswer
<1> QED
  BY <1>8 DEF answer

-----------------------------------------------------------------------------
(* The steps keep it.                                                      *)

LEMMA RecallInit ==
  ASSUME NEW stores, stores \subseteq Holdings,
         NEW questions, questions \subseteq [k : 0 .. MaxK + 1, searchable : BOOLEAN],
         InitWith(stores, questions)
  PROVE  RecallInv
<1>1. RecallTypes
  <2>1. store \in Holdings /\ snap \in Holdings /\ question \in [k : 0 .. MaxK + 1, searchable : BOOLEAN]
    BY DEF InitWith
  <2>2. concepts \in Seq(Concepts) /\ sessions \in Seq(Sessions) /\ offset \in Nat
    BY DEF InitWith
  <2> QED
    BY <2>1, <2>2 DEF InitWith, RecallTypes
<1>2. pc = "open"
  BY DEF InitWith
<1>3. OpenInv
  BY <1>2 DEF InitWith, OpenInv
<1> QED
  BY <1>1, <1>2, <1>3 DEF RecallInv, ConceptsInv, SessionsInv

\* A page is the next rows of its query, and the last one reaches its end.
LEMMA PageIs ==
  ASSUME RecallAssumption, RecallTypes, offset <= Len(Ranked)
  PROVE  /\ Ranked \in Seq(Concepts) /\ Page \in Seq(Concepts)
         /\ Len(Page) \in Nat /\ offset + Len(Page) <= Len(Ranked)
         /\ \A i \in 1 .. Len(Page) : Page[i] = Ranked[offset + i]
         /\ LastPage => offset + Len(Page) = Len(Ranked)
<1>1. Ranked \in Seq(Concepts)
  BY RankingsAre DEF RecallTypes, Ranked
<1>2. offset \in Nat /\ PageSize \in Nat /\ Len(Ranked) \in Nat
  BY <1>1 DEF RecallTypes, RecallAssumption
<1> DEFINE rest == SubSeq(Ranked, offset + 1, Len(Ranked))
<1> HIDE DEF Ranked
<1>3. /\ rest \in Seq(Concepts) /\ Len(rest) = Len(Ranked) - offset /\ Len(rest) \in Nat
      /\ \A i \in 1 .. Len(rest) : rest[i] = Ranked[offset + i]
  BY <1>1, <1>2
<1> HIDE DEF rest
<1>4. Page = SubSeq(rest, 1, IF Len(rest) < PageSize THEN Len(rest) ELSE PageSize)
  BY DEF Page, Prefix, rest
<1>5. /\ Page \in Seq(Concepts)
      /\ Len(Page) = (IF Len(rest) < PageSize THEN Len(rest) ELSE PageSize)
      /\ \A i \in 1 .. Len(Page) : Page[i] = rest[i]
  BY <1>2, <1>3, <1>4
<1> HIDE DEF Page
<1>6. Len(Page) \in Nat /\ Len(Page) <= Len(rest)
  BY <1>2, <1>3, <1>5
<1>7. \A i \in 1 .. Len(Page) : Page[i] = Ranked[offset + i]
  BY <1>3, <1>5, <1>6
<1>8. LastPage => Len(Page) = Len(rest)
  BY <1>2, <1>3, <1>5, <1>6 DEF LastPage
<1> QED
  BY <1>1, <1>2, <1>3, <1>5, <1>6, <1>7, <1>8
LEMMA RefuseKeeps ==
  ASSUME RecallInv, Refuse
  PROVE  RecallInv'
<1>1. RecallTypes'
  BY DEF RecallInv, RecallTypes, Refuse, Holdings
<1>2. OpenInv' /\ ConceptsInv' /\ SessionsInv'
  BY DEF Refuse, OpenInv, ConceptsInv, SessionsInv
<1> QED
  BY <1>1, <1>2 DEF RecallInv

LEMMA OpenKeeps ==
  ASSUME RecallAssumption, RecallInv, Open
  PROVE  RecallInv'
<1>1. /\ pc = "open" /\ question.k \in 1 .. MaxK /\ snap' = store
      /\ pc' = (IF store.allowed = {} \/ ~question.searchable THEN "sessions" ELSE "concepts")
      /\ UNCHANGED <<store, question, fallback, offset, seen, concepts, sessions, used, changes>>
  BY DEF Open
<1>2. concepts' = <<>> /\ sessions' = <<>> /\ ~fallback' /\ ~used' /\ offset' = 0 /\ seen' = {}
  BY <1>1 DEF RecallInv, OpenInv
<1>3. RecallTypes'
  BY <1>1 DEF RecallInv, RecallTypes
<1>4. OpenInv'
  BY <1>1 DEF OpenInv, k
<1>5. k' \in Nat
  BY <1>1 DEF RecallInv, RecallTypes, k
<1>6. UpTo(concepts', ConceptPlaces', k', 0)
  <2>1. snap' \in Holdings
    BY <1>3 DEF RecallTypes
  <2>2. /\ snap'.conceptAnd \in Seq(Concepts) /\ IsInjective(snap'.conceptAnd)
        /\ snap'.conceptOr \in Seq(Concepts) /\ IsInjective(snap'.conceptOr)
    BY <2>1, RankingsAre
  <2>3. UpTo(<<>>, Places(snap'.conceptAnd, snap'.conceptOr, snap'.allowed), k', 0)
    BY <1>5, <2>2, NothingYet
  <2> QED
    BY <1>2, <2>3 DEF ConceptPlaces
<1>7. ~Fallen'
  BY <1>2 DEF Fallen, Range
<1>8. ConceptsInv'
  <2> SUFFICES ASSUME pc' = "concepts" PROVE ConceptsInv'
    BY DEF ConceptsInv
  <2>1. question'.searchable
    BY <1>1
  <2>2. snap'.conceptAnd \in Seq(Concepts)
    BY <1>3, RankingsAre DEF RecallTypes
  <2>3. offset' <= Len(Ranked')
    BY <1>2, <2>2 DEF Ranked
  <2>4. {Ranked'[i] : i \in 1 .. offset'} = {}
    BY <1>2
  <2> QED
    BY <1>2, <1>6, <1>7, <2>1, <2>3, <2>4 DEF ConceptsInv
<1>9. SessionsInv'
  <2> SUFFICES ASSUME pc' = "sessions", question'.searchable
               PROVE  UpTo(concepts', ConceptPlaces', k', ConceptEnd')
    BY <1>1, <1>2, <1>7 DEF SessionsInv
  <2>1. DOMAIN ConceptPlaces' = {}
    BY <1>1 DEF ConceptPlaces, Places
  <2>2. Len(<<>>) <= k' /\ <<>> \in Seq(DOMAIN ConceptPlaces')
    BY <1>5
  <2> QED
    BY <1>2, <2>1, <2>2 DEF UpTo
<1> QED
  BY <1>3, <1>4, <1>8, <1>9 DEF RecallInv

\* The concepts are done when k are found or the last page is read.
LEMMA ConceptsFullKeeps ==
  ASSUME RecallAssumption, RecallInv, ConceptsFull
  PROVE  RecallInv'
<1>1. /\ pc = "concepts" /\ Len(concepts) = question.k /\ pc' = "sessions" /\ fallback' = FALSE
      /\ UNCHANGED <<store, snap, question, offset, seen, concepts, sessions, used, changes>>
  BY DEF ConceptsFull
<1>2. RecallTypes' /\ OpenInv' /\ ConceptsInv'
  BY <1>1 DEF RecallInv, RecallTypes, OpenInv, ConceptsInv, k
<1>3. /\ snap.conceptAnd \in Seq(Concepts) /\ IsInjective(snap.conceptAnd)
      /\ snap.conceptOr \in Seq(Concepts) /\ IsInjective(snap.conceptOr)
  BY RankingsAre DEF RecallInv, RecallTypes
<1>4. /\ question.searchable /\ sessions = <<>> /\ (used <=> Fallen) /\ offset <= Len(Ranked)
      /\ UpTo(concepts, ConceptPlaces, k, (IF fallback THEN Len(snap.conceptAnd) ELSE 0) + offset)
  BY <1>1 DEF RecallInv, ConceptsInv
<1>5. UpTo(concepts, ConceptPlaces, k, ConceptEnd)
  <2> DEFINE n == (IF fallback THEN Len(snap.conceptAnd) ELSE 0) + offset
  <2>1. n \in Nat /\ ConceptEnd \in Nat /\ n <= ConceptEnd
    <3>1. /\ Len(snap.conceptAnd) \in Nat /\ Len(snap.conceptOr) \in Nat
          /\ offset \in Nat /\ fallback \in BOOLEAN
      BY <1>3 DEF RecallInv, RecallTypes
    <3>2. offset <= IF fallback THEN Len(snap.conceptOr) ELSE Len(snap.conceptAnd)
      BY <1>4 DEF Ranked
    <3> DEFINE a == Len(snap.conceptAnd)
               b == Len(snap.conceptOr)
    <3>3. ConceptEnd = a + b
      BY DEF ConceptEnd
    <3> HIDE DEF a, b
    <3>4. a \in Nat /\ b \in Nat /\ offset <= IF fallback THEN b ELSE a
      BY <3>1, <3>2 DEF a, b
    <3>5. n = (IF fallback THEN a ELSE 0) + offset
      BY DEF a
    <3> HIDE DEF n
    <3> QED
      BY <3>1, <3>3, <3>4, <3>5
  <2>2. ConceptPlaces \in [DOMAIN ConceptPlaces -> Nat]
    BY <1>3, PlacesType DEF ConceptPlaces
  <2>3. k \in Nat /\ Len(concepts) = k
    BY <1>1 DEF RecallInv, RecallTypes, k
  <2>4. UpTo(concepts, ConceptPlaces, k, n)
    BY <1>4
  <2> HIDE DEF n
  <2> QED
    BY <2>1, <2>2, <2>3, <2>4, FullIsBest
<1>6. UpTo(concepts', ConceptPlaces', k', ConceptEnd') /\ (used' <=> Fallen') /\ sessions' = <<>>
  BY <1>1, <1>4, <1>5 DEF ConceptPlaces, ConceptEnd, k, Fallen
<1>7. SessionsInv'
  BY <1>1, <1>4, <1>6 DEF SessionsInv
<1> QED
  BY <1>2, <1>7 DEF RecallInv
\* A page is read: what is taken of it is the best as far as its last row.
LEMMA ReadPageExtends ==
  ASSUME RecallAssumption, RecallInv, ReadPage
  PROVE  /\ UpTo(concepts', ConceptPlaces, k,
                 (IF fallback THEN Len(snap.conceptAnd) ELSE 0) + (offset + Len(Page)))
         /\ concepts' \in Seq(Concepts)
         /\ seen' = {Ranked[i] : i \in 1 .. offset + Len(Page)}
                    \cup (IF fallback THEN Range(snap.conceptAnd) ELSE {})
         /\ used' <=> Fallen'
         /\ ~fallback => ~used'
<1> DEFINE every == snap.conceptAnd
           some  == snap.conceptOr
           base  == IF fallback THEN Len(every) ELSE 0
           S     == snap.allowed \ seen
<1>1. /\ every \in Seq(Concepts) /\ IsInjective(every) /\ some \in Seq(Concepts) /\ IsInjective(some)
  BY RankingsAre DEF RecallInv, RecallTypes
<1>2. /\ pc = "concepts" /\ snap' = snap
      /\ concepts' = concepts \o Taken /\ seen' = seen \cup Range(Page)
      /\ used' = (used \/ (fallback /\ Taken # <<>>))
  BY DEF ReadPage
<1>3. /\ offset <= Len(Ranked)
      /\ UpTo(concepts, ConceptPlaces, k, base + offset)
      /\ seen = {Ranked[i] : i \in 1 .. offset} \cup (IF fallback THEN Range(every) ELSE {})
      /\ used <=> Fallen
      /\ ~fallback => ~used
  BY <1>2 DEF RecallInv, ConceptsInv
<1>4. RecallTypes /\ offset \in Nat /\ fallback \in BOOLEAN /\ k \in Nat /\ concepts \in Seq(Concepts)
  BY DEF RecallInv, RecallTypes, k
<1>5. /\ Ranked \in Seq(Concepts) /\ Page \in Seq(Concepts)
      /\ Len(Page) \in Nat /\ offset + Len(Page) <= Len(Ranked)
      /\ \A i \in 1 .. Len(Page) : Page[i] = Ranked[offset + i]
  BY <1>3, <1>4, PageIs
<1>6. Ranked = (IF fallback THEN some ELSE every) /\ IsInjective(Ranked)
  BY <1>1 DEF Ranked
<1>7. \A i \in 1 .. Len(Page) :
        Page[i] \in S <=> Page[i] \in snap.allowed /\ (fallback => Page[i] \notin Range(every))
  <2> SUFFICES ASSUME NEW i \in 1 .. Len(Page)
               PROVE  Page[i] \in seen <=> fallback /\ Page[i] \in Range(every)
    OBVIOUS
  <2>1. \A j \in 1 .. offset : j \in DOMAIN Ranked /\ offset + i \in DOMAIN Ranked /\ j # offset + i
    BY <1>4, <1>5
  <2>2. \A j \in 1 .. offset : Ranked[j] # Page[i]
    BY <1>5, <1>6, <2>1 DEF IsInjective
  <2> QED
    BY <1>3, <2>2
<1> DEFINE more == Prefix(Kept(Page, S), k - Len(concepts))
<1>8. Taken = more
  BY DEF Taken, k
<1>9. /\ UpTo(concepts \o more, ConceptPlaces, k, base + offset + Len(Page))
      /\ more \in Seq(Concepts) /\ Range(more) \subseteq S \cap Range(Page)
  <2>1. RowsRead(Concepts, every, some, snap.allowed, k, concepts, Ranked, base, offset, Page, S)
    BY <1>1, <1>3, <1>4, <1>5, <1>6, <1>7 DEF RowsRead, ConceptPlaces
  <2> HIDE DEF S
  <2> QED
    <3>1. /\ UpTo(concepts \o more, Places(every, some, snap.allowed), k, base + offset + Len(Page))
          /\ more \in Seq(Concepts) /\ Range(more) \subseteq S \cap Range(Page)
      BY <2>1, RowsExtend
    <3> HIDE DEF more
    <3> QED
      BY <3>1 DEF ConceptPlaces
<1>10. base \in Nat /\ base + offset + Len(Page) = base + (offset + Len(Page))
  <2>1. base \in Nat
    BY <1>1
  <2> HIDE DEF base
  <2> QED
    BY <1>4, <1>5, <2>1
<1>11. UpTo(concepts', ConceptPlaces, k, base + (offset + Len(Page)))
  BY <1>2, <1>8, <1>9, <1>10
<1>12. concepts' \in Seq(Concepts)
  BY <1>2, <1>4, <1>8, <1>9
<1>13. {Ranked[i] : i \in 1 .. offset} \cup Range(Page) = {Ranked[i] : i \in 1 .. offset + Len(Page)}
  <2>1. Range(Page) = {Ranked[offset + i] : i \in 1 .. Len(Page)}
    BY <1>5 DEF Range
  <2>2. 1 .. offset + Len(Page) = (1 .. offset) \cup {offset + i : i \in 1 .. Len(Page)}
    <3>1. \A j \in 1 .. offset + Len(Page) : j \notin 1 .. offset => j - offset \in 1 .. Len(Page)
                                                                     /\ j = offset + (j - offset)
      BY <1>4, <1>5
    <3>2. \A i \in 1 .. Len(Page) : offset + i \in 1 .. offset + Len(Page)
      BY <1>4, <1>5
    <3>3. 1 .. offset \subseteq 1 .. offset + Len(Page)
      BY <1>4, <1>5
    <3> QED
      BY <3>1, <3>2, <3>3
  <2> QED
    BY <2>1, <2>2
<1>14. Range(concepts') = Range(concepts) \cup Range(more)
  <2>1. concepts' = concepts \o more /\ concepts \in Seq(Concepts) /\ more \in Seq(Concepts)
    BY <1>2, <1>4, <1>8, <1>9
  <2> HIDE DEF more
  <2> QED
    BY <2>1, AppendedRange
<1>15. used' <=> Fallen'
  <2>1. Fallen' <=> (Range(concepts) \cup Range(more)) \ Range(every) # {}
    BY <1>2, <1>14 DEF Fallen
  <2>2. CASE fallback
    <3>1. Range(more) \cap Range(every) = {}
      BY <1>3, <1>9, <2>2
    <3>2. more # <<>> <=> Range(more) # {}
      BY <1>9, EmptyRange
    <3> QED
      BY <1>2, <1>3, <1>8, <2>1, <2>2, <3>1, <3>2 DEF Fallen
  <2>3. CASE ~fallback
    <3>1. Range(Page) \subseteq Range(every)
      <4>1. \A i \in 1 .. Len(Page) : Page[i] = every[offset + i] /\ offset + i \in DOMAIN every
        BY <1>4, <1>5, <1>6, <2>3
      <4>2. DOMAIN Page = 1 .. Len(Page)
        BY <1>5
      <4> QED
        BY <4>1, <4>2 DEF Range
    <3> QED
      BY <1>2, <1>3, <1>9, <2>1, <2>3, <3>1 DEF Fallen
  <2> QED
    BY <2>2, <2>3
<1>16. ~fallback => ~used'
  BY <1>2, <1>3
<1>17. seen' = {Ranked[i] : i \in 1 .. offset + Len(Page)} \cup (IF fallback THEN Range(every) ELSE {})
  BY <1>2, <1>3, <1>13
<1> QED
  BY <1>11, <1>12, <1>15, <1>16, <1>17
LEMMA ReadPageKeeps ==
  ASSUME RecallAssumption, RecallInv, ReadPage
  PROVE  RecallInv'
<1> DEFINE o == offset + Len(Page)
           or == Len(snap.conceptAnd)
<1>1. /\ pc = "concepts"
      /\ IF LastPage /\ Len(concepts') < k
           THEN /\ pc' = (IF fallback THEN "sessions" ELSE "concepts")
                /\ fallback' = ~fallback /\ offset' = 0
           ELSE offset' = o /\ pc' = pc /\ fallback' = fallback
      /\ UNCHANGED <<store, snap, question, sessions, changes>>
  BY DEF ReadPage, NextOffset, k
<1>2. used' \in BOOLEAN
  BY DEF ReadPage, RecallInv, RecallTypes
<1>3. /\ UpTo(concepts', ConceptPlaces, k, (IF fallback THEN or ELSE 0) + o)
      /\ concepts' \in Seq(Concepts)
      /\ seen' = {Ranked[i] : i \in 1 .. o} \cup (IF fallback THEN Range(snap.conceptAnd) ELSE {})
      /\ used' <=> Fallen'
      /\ ~fallback => ~used'
  BY ReadPageExtends
<1>4. RecallTypes /\ offset \in Nat /\ offset <= Len(Ranked) /\ question.searchable /\ sessions = <<>>
  BY <1>1 DEF RecallInv, RecallTypes, ConceptsInv
<1>5. /\ Ranked \in Seq(Concepts) /\ Len(Page) \in Nat /\ o <= Len(Ranked)
      /\ LastPage => o = Len(Ranked)
  BY <1>4, PageIs
<1>6. o \in Nat
  BY <1>4, <1>5
<1> HIDE DEF o
<1>7. RecallTypes'
  <2>1. fallback \in BOOLEAN
    BY <1>4 DEF RecallTypes
  <2>2. pc' \in {"concepts", "sessions"} /\ fallback' \in BOOLEAN /\ offset' \in Nat
    <3>1. CASE LastPage /\ Len(concepts') < k
      BY <1>1, <2>1, <3>1
    <3>2. CASE ~(LastPage /\ Len(concepts') < k)
      BY <1>1, <1>6, <2>1, <3>2
    <3> QED
      BY <3>1, <3>2
  <2> HIDE DEF or
  <2> QED
    BY <1>1, <1>2, <1>3, <1>4, <2>2 DEF RecallTypes
<1>8. OpenInv'
  BY <1>1 DEF OpenInv, RecallInv, k
<1>9. ConceptPlaces' = ConceptPlaces /\ k' = k /\ ConceptEnd' = ConceptEnd
  BY <1>1 DEF ConceptPlaces, k, ConceptEnd
<1>10. CASE ~(LastPage /\ Len(concepts') < k)
  <2>1. offset' = o /\ pc' = "concepts" /\ fallback' = fallback /\ Ranked' = Ranked
    BY <1>1, <1>10 DEF Ranked
  <2>2. UpTo(concepts', ConceptPlaces', k', (IF fallback' THEN Len(snap'.conceptAnd) ELSE 0) + offset')
    BY <1>1, <1>3, <1>9, <2>1
  <2>3. seen' = {Ranked'[i] : i \in 1 .. offset'} \cup (IF fallback' THEN Range(snap'.conceptAnd) ELSE {})
    BY <1>1, <1>3, <2>1
  <2>4. ConceptsInv'
    BY <1>1, <1>3, <1>4, <1>5, <2>1, <2>2, <2>3 DEF ConceptsInv
  <2> QED
    BY <1>7, <1>8, <2>1, <2>4 DEF RecallInv, SessionsInv
<1>11. CASE LastPage /\ Len(concepts') < k /\ ~fallback
  <2>1. offset' = 0 /\ pc' = "concepts" /\ fallback' /\ o = or
    BY <1>1, <1>5, <1>11 DEF Ranked
  <2>2. or \in Nat /\ snap.conceptOr \in Seq(Concepts) /\ snap.conceptAnd \in Seq(Concepts)
    BY <1>4, RankingsAre DEF RecallTypes
  <2>3. UpTo(concepts', ConceptPlaces', k', Len(snap'.conceptAnd) + offset')
    <3>1. UpTo(concepts', ConceptPlaces, k, 0 + o)
      BY <1>3, <1>11
    <3>2. 0 + o = or + 0
      BY <1>6, <2>1, <2>2
    <3>3. UpTo(concepts', ConceptPlaces, k, or + 0)
      BY <3>1, <3>2
    <3> QED
      BY <1>1, <1>9, <2>1, <3>3
  <2>4. seen' = {Ranked'[i] : i \in 1 .. offset'} \cup Range(snap'.conceptAnd)
    <3>1. seen' = {snap.conceptAnd[i] : i \in 1 .. or}
      BY <1>3, <1>11, <2>1 DEF Ranked
    <3>2. seen' = Range(snap.conceptAnd)
      BY <2>2, <3>1 DEF Range
    <3>3. {Ranked'[i] : i \in 1 .. offset'} = {}
      BY <2>1
    <3> QED
      BY <1>1, <3>2, <3>3
  <2>5. offset' <= Len(Ranked')
    BY <1>1, <2>1, <2>2 DEF Ranked
  <2>6. ConceptsInv'
    BY <1>1, <1>3, <1>4, <2>1, <2>3, <2>4, <2>5 DEF ConceptsInv
  <2> QED
    BY <1>7, <1>8, <2>1, <2>6 DEF RecallInv, SessionsInv
<1>12. CASE LastPage /\ Len(concepts') < k /\ fallback
  <2>1. pc' = "sessions" /\ ~fallback' /\ or + o = ConceptEnd
    BY <1>1, <1>5, <1>12 DEF Ranked, ConceptEnd
  <2>2. UpTo(concepts', ConceptPlaces, k, or + o)
    BY <1>3, <1>12
  <2>3. UpTo(concepts', ConceptPlaces', k', ConceptEnd')
    BY <1>9, <2>1, <2>2
  <2>4. SessionsInv'
    BY <1>1, <1>3, <1>4, <2>1, <2>3 DEF SessionsInv
  <2> QED
    BY <1>7, <1>8, <2>1, <2>4 DEF RecallInv, ConceptsInv
<1> QED
  BY <1>4, <1>10, <1>11, <1>12 DEF RecallTypes

-----------------------------------------------------------------------------
(* The sessions: one query each, read from its first row to its last.      *)

\* The first query: sessions that match every term.
LEMMA FirstSessions ==
  ASSUME RecallAssumption, RecallInv, FindSessions, ~fallback
  PROVE  /\ UpTo(sessions', SessionPlaces, k, Len(snap.sessionAnd))
         /\ sessions' \in Seq(Sessions) /\ Range(sessions') \subseteq Range(snap.sessionAnd)
<1> DEFINE every == snap.sessionAnd
           some  == snap.sessionOr
           S     == snap.visible \ Excluded
           more  == Prefix(Kept(every, S), k - Len(<<>>))
<1>1. /\ every \in Seq(Sessions) /\ IsInjective(every) /\ some \in Seq(Sessions) /\ IsInjective(some)
  BY RankingsAre DEF RecallInv, RecallTypes
<1>2. sessions = <<>> /\ pc = "sessions" /\ k \in Nat
  BY DEF FindSessions, RecallInv, RecallTypes, SessionsInv, k
<1>3. sessions' = more
  <2>1. SessionHits = more
    BY <1>2 DEF SessionHits, k
  <2>2. more \in Seq(Sessions)
    <3> DEFINE room == k - Len(<<>>)
    <3>1. room \in Nat
      BY <1>2
    <3> HIDE DEF room, S
    <3> QED
      BY <1>1, <3>1, HitsAre DEF room
  <2> HIDE DEF more
  <2> QED
    BY <1>2, <2>1, <2>2 DEF FindSessions
<1>4. S = Others
  BY <1>2 DEF Excluded, Others, Range
<1>5. RowsRead(Sessions, every, some, Others, k, <<>>, every, 0, 0, every, S)
  <2>1. UpTo(<<>>, Places(every, some, Others), k, 0 + 0)
    BY <1>1, <1>2, NothingYet
  <2>2. \A i \in 1 .. Len(every) : every[i] = every[0 + i]
    BY <1>1
  <2>3. 0 + Len(every) <= Len(every)
    BY <1>1
  <2> HIDE DEF S, every, some
  <2> QED
    BY <1>1, <1>2, <1>4, <2>1, <2>2, <2>3 DEF RowsRead
<1> HIDE DEF S
<1>6. /\ UpTo(<<>> \o more, Places(every, some, Others), k, 0 + 0 + Len(every))
      /\ more \in Seq(Sessions) /\ Range(more) \subseteq S \cap Range(every)
  BY <1>5, RowsExtend
<1> HIDE DEF more
<1>7. <<>> \o more = more /\ 0 + 0 + Len(every) = Len(every)
  BY <1>1, <1>6
<1> QED
  BY <1>3, <1>6, <1>7 DEF SessionPlaces

\* The second: those that match some, without those found.
LEMMA MoreSessions ==
  ASSUME RecallAssumption, RecallInv, FindSessions, fallback
  PROVE  /\ UpTo(sessions', SessionPlaces, k, SessionEnd)
         /\ sessions' \in Seq(Sessions)
         /\ FallenSessions' <=> SessionHits # <<>>
<1> DEFINE every == snap.sessionAnd
           some  == snap.sessionOr
           S     == snap.visible \ Excluded
           more  == Prefix(Kept(some, S), k - Len(sessions))
<1>1. /\ every \in Seq(Sessions) /\ IsInjective(every) /\ some \in Seq(Sessions) /\ IsInjective(some)
  BY RankingsAre DEF RecallInv, RecallTypes
<1>2. /\ pc = "sessions" /\ Len(sessions) < k /\ k \in Nat /\ sessions \in Seq(Sessions)
      /\ snap' = snap /\ sessions' = sessions \o SessionHits
  BY DEF FindSessions, RecallInv, RecallTypes, k
<1>3. UpTo(sessions, SessionPlaces, k, Len(every)) /\ Range(sessions) \subseteq Range(every)
  BY <1>2 DEF RecallInv, SessionsInv
<1>4. SessionHits = more
  BY DEF SessionHits, k
<1>5. S = Others \ Range(sessions)
  BY DEF Excluded, Others
<1>6. \A x \in Range(every) : x \in Others => x \in Range(sessions)
  <2> SUFFICES ASSUME NEW i \in 1 .. Len(every), every[i] \in Others PROVE every[i] \in Range(sessions)
    BY <1>1 DEF Range
  <2>1. every[i] \in DOMAIN SessionPlaces /\ SessionPlaces[every[i]] = i
    <3>1. Contract!Place(every, some, every[i]) = i
      BY <1>1, PlacesAre
    <3>2. every[i] \in Range(every)
      BY <1>1 DEF Range
    <3> QED
      BY <3>1, <3>2 DEF SessionPlaces, Places
  <2>2. i <= Len(every)
    BY <1>1
  <2> QED
    BY <1>2, <1>3, <2>1, <2>2 DEF UpTo, Range
<1>7. \A i \in 1 .. Len(some) : some[i] \in S <=> some[i] \in Others /\ some[i] \notin Range(every)
  BY <1>3, <1>5, <1>6
<1>8. RowsRead(Sessions, every, some, Others, k, sessions, some, Len(every), 0, some, S)
  <2>1. UpTo(sessions, Places(every, some, Others), k, Len(every) + 0)
    BY <1>1, <1>3 DEF SessionPlaces
  <2>2. \A i \in 1 .. Len(some) : some[i] = some[0 + i]
    BY <1>1
  <2>3. 0 + Len(some) <= Len(some)
    BY <1>1
  <2> HIDE DEF S, every, some
  <2> QED
    BY <1>1, <1>2, <1>7, <2>1, <2>2, <2>3 DEF RowsRead
<1> HIDE DEF S
<1>9. /\ UpTo(sessions \o more, Places(every, some, Others), k, Len(every) + 0 + Len(some))
      /\ more \in Seq(Sessions) /\ Range(more) \subseteq S \cap Range(some)
  BY <1>8, RowsExtend
<1> HIDE DEF more
<1>10. Len(every) + 0 + Len(some) = SessionEnd
  BY <1>1 DEF SessionEnd
<1>11. Range(sessions') = Range(sessions) \cup Range(more)
  BY <1>2, <1>4, <1>9, AppendedRange
<1>12. FallenSessions' <=> (Range(sessions) \cup Range(more)) \ Range(every) # {}
  BY <1>2, <1>11 DEF FallenSessions
<1>13. Range(more) \cap Range(every) = {}
  BY <1>5, <1>6, <1>9
<1>14. more # <<>> <=> Range(more) # {}
  BY <1>9, EmptyRange
<1>15. FallenSessions' <=> SessionHits # <<>>
  BY <1>3, <1>4, <1>12, <1>13, <1>14
<1>16. UpTo(sessions', SessionPlaces, k, SessionEnd)
  BY <1>2, <1>4, <1>9, <1>10 DEF SessionPlaces
<1> QED
  BY <1>2, <1>4, <1>9, <1>15, <1>16
LEMMA FindSessionsKeeps ==
  ASSUME RecallAssumption, RecallInv, FindSessions
  PROVE  RecallInv'
<1>1. /\ pc = "sessions" /\ question.searchable
      /\ used' = (used \/ (fallback /\ SessionHits # <<>>))
      /\ IF fallback THEN pc' = "done" /\ UNCHANGED fallback ELSE fallback' = TRUE /\ UNCHANGED pc
      /\ UNCHANGED <<store, snap, question, offset, seen, concepts, changes>>
  BY DEF FindSessions
<1>2. /\ RecallTypes /\ (used <=> Fallen)
      /\ UpTo(concepts, ConceptPlaces, k, ConceptEnd)
  BY <1>1 DEF RecallInv, SessionsInv
<1>3. sessions' \in Seq(Sessions)
  BY FirstSessions, MoreSessions
<1>4. RecallTypes'
  <2>1. used' \in BOOLEAN /\ fallback' \in BOOLEAN /\ pc' \in {"sessions", "done"}
    BY <1>1, <1>2 DEF RecallTypes
  <2> QED
    BY <1>1, <1>2, <1>3, <2>1 DEF RecallTypes
<1>5. OpenInv' /\ ConceptsInv'
  BY <1>1 DEF RecallInv, OpenInv, ConceptsInv, k
<1>6. /\ ConceptPlaces' = ConceptPlaces /\ k' = k /\ ConceptEnd' = ConceptEnd
      /\ SessionPlaces' = SessionPlaces /\ SessionEnd' = SessionEnd /\ (Fallen' <=> Fallen)
  BY <1>1 DEF ConceptPlaces, k, ConceptEnd, SessionPlaces, Others, SessionEnd, Fallen
<1>7. UpTo(concepts', ConceptPlaces', k', ConceptEnd')
  BY <1>1, <1>2, <1>6
<1>8. CASE ~fallback
  <2>1. /\ UpTo(sessions', SessionPlaces, k, Len(snap.sessionAnd))
        /\ Range(sessions') \subseteq Range(snap.sessionAnd)
    BY <1>8, FirstSessions
  <2>2. used' <=> Fallen'
    BY <1>1, <1>2, <1>6, <1>8
  <2> QED
    BY <1>1, <1>4, <1>5, <1>6, <1>7, <1>8, <2>1, <2>2 DEF RecallInv, SessionsInv
<1>9. CASE fallback
  <2>1. UpTo(sessions', SessionPlaces, k, SessionEnd) /\ (FallenSessions' <=> SessionHits # <<>>)
    BY <1>9, MoreSessions
  <2>2. used' <=> Fallen' \/ FallenSessions'
    BY <1>1, <1>2, <1>6, <1>9, <2>1
  <2> QED
    BY <1>1, <1>4, <1>5, <1>6, <1>7, <1>9, <2>1, <2>2 DEF RecallInv, SessionsInv
<1> QED
  BY <1>2, <1>8, <1>9 DEF RecallTypes

LEMMA SessionsFullKeeps ==
  ASSUME RecallAssumption, RecallInv, SessionsFull
  PROVE  RecallInv'
<1>1. /\ pc = "sessions" /\ (~question.searchable \/ Len(sessions) = k) /\ pc' = "done"
      /\ UNCHANGED <<store, snap, question, fallback, offset, seen, concepts, sessions, used, changes>>
  BY DEF SessionsFull, k
<1>2. RecallTypes /\ (used <=> Fallen) /\ question.k = k /\ k \in 1 .. MaxK
  BY <1>1 DEF RecallInv, SessionsInv, OpenInv, k
<1>3. /\ snap.sessionAnd \in Seq(Sessions) /\ IsInjective(snap.sessionAnd)
      /\ snap.sessionOr \in Seq(Sessions) /\ IsInjective(snap.sessionOr)
  BY <1>2, RankingsAre DEF RecallTypes
<1>4. RecallTypes' /\ OpenInv' /\ ConceptsInv'
  BY <1>1, <1>2 DEF RecallTypes, RecallInv, OpenInv, ConceptsInv, k
<1>5. /\ ConceptPlaces' = ConceptPlaces /\ k' = k /\ ConceptEnd' = ConceptEnd
      /\ SessionPlaces' = SessionPlaces /\ SessionEnd' = SessionEnd /\ (Fallen' <=> Fallen)
      /\ (FallenSessions' <=> FallenSessions)
  BY <1>1 DEF ConceptPlaces, k, ConceptEnd, SessionPlaces, Others, SessionEnd, Fallen, FallenSessions
<1>6. IF question.searchable THEN UpTo(concepts, ConceptPlaces, k, ConceptEnd) ELSE concepts = <<>>
  BY <1>1 DEF RecallInv, SessionsInv
<1>7. CASE ~question.searchable
  <2>1. sessions = <<>>
    BY <1>1, <1>7 DEF RecallInv, SessionsInv
  <2>2. ~FallenSessions
    BY <2>1 DEF FallenSessions, Range
  <2> QED
    BY <1>1, <1>2, <1>4, <1>5, <1>6, <1>7, <2>1, <2>2 DEF RecallInv, SessionsInv
<1>8. CASE question.searchable
  <2>1. Len(sessions) = k /\ k \in Nat /\ sessions # <<>>
    BY <1>1, <1>2, <1>8
  <2>2. UpTo(sessions, SessionPlaces, k, Len(snap.sessionAnd)) /\ Range(sessions) \subseteq Range(snap.sessionAnd)
    BY <1>1, <1>8, <2>1 DEF RecallInv, SessionsInv
  <2>3. UpTo(sessions, SessionPlaces, k, SessionEnd)
    <3>1. SessionPlaces \in [DOMAIN SessionPlaces -> Nat]
      BY <1>3, PlacesType DEF SessionPlaces
    <3>2. Len(snap.sessionAnd) \in Nat /\ SessionEnd \in Nat /\ Len(snap.sessionAnd) <= SessionEnd
      <4> DEFINE a == Len(snap.sessionAnd)
                 b == Len(snap.sessionOr)
      <4>1. a \in Nat /\ b \in Nat
        BY <1>3
      <4>2. SessionEnd = a + b
        BY DEF SessionEnd
      <4> HIDE DEF a, b
      <4>3. a \in Nat /\ SessionEnd \in Nat /\ a <= SessionEnd
        BY <4>1, <4>2
      <4> QED
        BY <4>3 DEF a
    <3> QED
      BY <2>1, <2>2, <3>1, <3>2, FullIsBest
  <2>4. ~FallenSessions
    BY <2>2 DEF FallenSessions
  <2> QED
    BY <1>1, <1>2, <1>4, <1>5, <1>6, <1>8, <2>3, <2>4 DEF RecallInv, SessionsInv
<1> QED
  BY <1>2, <1>7, <1>8 DEF RecallTypes

LEMMA RecallStep ==
  ASSUME RecallAssumption, RecallInv, Work \/ Hide \/ Record
  PROVE  RecallInv'
<1>1. CASE Work
  BY <1>1, RefuseKeeps, OpenKeeps, ReadPageKeeps, ConceptsFullKeeps, FindSessionsKeeps, SessionsFullKeeps
     DEF Work
<1>2. CASE Hide \/ Record
  <2>1. UNCHANGED <<snap, question, pc, fallback, offset, seen, concepts, sessions, used>>
    BY <1>2 DEF Hide, Record
  <2>2. store' \in Holdings
    BY <1>2, OthersKeepStores DEF RecallInv, RecallTypes
  <2>3. RecallTypes'
    BY <2>1, <2>2 DEF RecallInv, RecallTypes
  <2>4. OpenInv' /\ ConceptsInv' /\ SessionsInv'
    BY <2>1 DEF RecallInv, OpenInv, ConceptsInv, SessionsInv, k, Ranked, ConceptPlaces, ConceptEnd,
       SessionPlaces, SessionEnd, Others, Fallen, FallenSessions
  <2> QED
    BY <2>3, <2>4 DEF RecallInv
<1> QED
  BY <1>1, <1>2

LEMMA RecallStutter ==
  ASSUME RecallInv, UNCHANGED vars
  PROVE  RecallInv'
<1>1. UNCHANGED <<store, snap, question, pc, fallback, offset, seen, concepts, sessions, used, changes>>
  BY DEF vars
<1>2. RecallTypes'
  BY <1>1 DEF RecallInv, RecallTypes
<1>3. OpenInv' /\ ConceptsInv' /\ SessionsInv'
  BY <1>1 DEF RecallInv, OpenInv, ConceptsInv, SessionsInv, k, Ranked, ConceptPlaces, ConceptEnd,
     SessionPlaces, SessionEnd, Others, Fallen, FallenSessions
<1> QED
  BY <1>2, <1>3 DEF RecallInv

-----------------------------------------------------------------------------
(* Every step is one of the contract's: opening the snapshot pins the      *)
(* instant, and the last step delivers its answer.                         *)

LEMMA ContractInit ==
  ASSUME NEW stores, NEW questions, InitWith(stores, questions)
  PROVE  Contract!Init
BY DEF InitWith, Contract!Init

LEMMA ContractStep ==
  ASSUME RecallAssumption, RecallInv, Work \/ Hide \/ Record
  PROVE  [Contract!Next]_(Contract!vars)
<1>1. RecallInv'
  BY RecallStep
<1>2. Answered \in Answers /\ Answered' \in Answers /\ snap \in Holdings /\ snap' \in Holdings
  BY <1>1 DEF RecallInv, RecallTypes, Answered, Answers
<1>3. Answered' # NoSession /\ snap # NoSession /\ snap' # NoSession
  BY <1>2 DEF RecallAssumption
<1> DEFINE instant   == IF pc \in {"open", "refused"} THEN NoSession ELSE snap
           delivered == IF pc = "done" THEN Answered ELSE IF pc = "refused" THEN "refused" ELSE NoSession
<1>4. CASE Refuse
  <2>1. instant' = instant /\ delivered = NoSession /\ delivered' = "refused"
    BY <1>4 DEF Refuse
  <2>2. UNCHANGED <<store, question>> /\ question.k \notin 1 .. MaxK
    BY <1>4 DEF Refuse
  <2>3. Contract!Deliver
    BY <2>1, <2>2 DEF Contract!Deliver
  <2> QED
    BY <2>3 DEF Contract!Next
<1>5. CASE Open
  <2>1. instant = NoSession /\ instant' = store /\ delivered' = delivered /\ UNCHANGED <<store, question>>
    BY <1>5 DEF Open
  <2>2. Contract!Pin
    BY <2>1 DEF Contract!Pin
  <2> QED
    BY <2>2 DEF Contract!Next
<1>6. CASE ReadPage \/ ConceptsFull
  <2>1. instant' = instant /\ delivered' = delivered /\ UNCHANGED <<store, question>>
    BY <1>6 DEF ReadPage, ConceptsFull
  <2> QED
    BY <2>1 DEF Contract!vars
<1>7. CASE FindSessions \/ SessionsFull
  <2>1. pc = "sessions" /\ pc' \in {"sessions", "done"} /\ UNCHANGED <<store, snap, question>>
    BY <1>7 DEF FindSessions, SessionsFull
  <2>2. CASE pc' = "sessions"
    <3>1. instant' = instant /\ delivered' = delivered
      BY <2>1, <2>2
    <3> QED
      BY <2>1, <3>1 DEF Contract!vars
  <2>3. CASE pc' = "done"
    <3>1. instant = snap /\ instant' = snap /\ delivered = NoSession /\ delivered' = Answered'
      BY <2>1, <2>3
    <3>2. question.k \in 1 .. MaxK
      BY <2>1 DEF RecallInv, OpenInv, k
    <3>3. Contract!IsAnswer(Answered', snap, question)
      <4>1. IsFound(concepts', sessions', used', snap', question')
        BY <1>1, <2>3 DEF RecallInv, SessionsInv, IsFound, ConceptPlaces, ConceptEnd, SessionPlaces,
           SessionEnd, Others, Fallen, FallenSessions, k
      <4>2. snap' \in Holdings /\ used' \in BOOLEAN
        BY <1>1 DEF RecallInv, RecallTypes
      <4>3. question'.k \in Nat
        BY <1>1 DEF RecallInv, RecallTypes
      <4> QED
        BY <2>1, <4>1, <4>2, <4>3, FoundIsAnswer DEF Answered
    <3>4. Contract!Deliver
      BY <1>3, <2>1, <3>1, <3>2, <3>3 DEF Contract!Deliver
    <3> QED
      BY <3>4 DEF Contract!Next
  <2> QED
    BY <2>1, <2>2, <2>3
<1>8. CASE Hide \/ Record
  <2>1. instant' = instant /\ delivered' = delivered /\ UNCHANGED question
    BY <1>8 DEF Hide, Record, Answered
  <2>2. Contract!Change
    BY <2>1 DEF Contract!Change
  <2> QED
    BY <2>2 DEF Contract!Next
<1> QED
  BY <1>4, <1>5, <1>6, <1>7, <1>8 DEF Work

LEMMA ContractStutter ==
  ASSUME UNCHANGED vars
  PROVE  UNCHANGED Contract!vars
BY DEF vars, Contract!vars, Answered
-----------------------------------------------------------------------------
(* The rest of the types: what is found is found once, and the offset stays *)
(* within what is ranked.                                                   *)

Bounds ==
  /\ offset <= Cardinality(Concepts) /\ seen \subseteq Concepts
  /\ changes \in 0 .. MaxChanges
  /\ pc = "refused" => concepts = <<>> /\ sessions = <<>>

LEMMA BoundsInit ==
  ASSUME RecallAssumption, NEW stores, NEW questions, InitWith(stores, questions)
  PROVE  Bounds
<1>1. Cardinality(Concepts) \in Nat
  BY FS_CardinalityType DEF RecallAssumption
<1>2. QED
  BY <1>1 DEF InitWith, Bounds, RecallAssumption

\* A ranking is no longer than there are concepts.
LEMMA RankedIsBounded ==
  ASSUME RecallAssumption, RecallTypes
  PROVE  Len(Ranked) \in Nat /\ Len(Ranked) <= Cardinality(Concepts) /\ Cardinality(Concepts) \in Nat
<1>1. Ranked \in Orders(Concepts)
  BY DEF RecallTypes, Holdings, Ranked
<1>2. Cardinality(Concepts) \in Nat
  BY FS_CardinalityType DEF RecallAssumption
<1>3. PICK n \in 0 .. Cardinality(Concepts) : Ranked \in [1 .. n -> Concepts]
  BY <1>1 DEF Orders
<1>4. Len(Ranked) = n
  BY <1>2, <1>3
<1>5. QED
  BY <1>2, <1>4

LEMMA BoundsKeep ==
  ASSUME RecallAssumption, RecallInv, Bounds, Work \/ Hide \/ Record
  PROVE  Bounds'
<1>1. CASE Refuse
  <2>1. concepts = <<>> /\ sessions = <<>>
    BY <1>1 DEF Refuse, RecallInv, OpenInv
  <2>2. QED
    BY <1>1, <2>1 DEF Refuse, Bounds
<1>2. CASE ReadPage
  <2>1. RecallTypes /\ offset <= Len(Ranked)
    BY <1>2 DEF RecallInv, ConceptsInv, ReadPage
  <2>2. Page \in Seq(Concepts) /\ Len(Page) \in Nat /\ offset + Len(Page) <= Len(Ranked)
    BY <2>1, PageIs
  <2>3. Range(Page) \subseteq Concepts
    BY <2>2 DEF Range
  <2>4. seen' \subseteq Concepts
    BY <1>2, <2>3 DEF ReadPage, Bounds
  <2>5. offset' \in {0, offset + Len(Page)}
    BY <1>2 DEF ReadPage, NextOffset
  <2>6. offset' <= Cardinality(Concepts)
    <3>1. offset \in Nat
      BY <2>1 DEF RecallTypes
    <3>2. Len(Ranked) \in Nat /\ Len(Ranked) <= Cardinality(Concepts) /\ Cardinality(Concepts) \in Nat
      BY <2>1, RankedIsBounded
    <3>3. QED
      BY <2>2, <2>5, <3>1, <3>2
  <2>7. pc' # "refused" /\ UNCHANGED changes
    BY <1>2 DEF ReadPage
  <2>8. QED
    BY <2>4, <2>6, <2>7 DEF Bounds
<1>3. CASE Open \/ ConceptsFull \/ FindSessions \/ SessionsFull
  <2>1. UNCHANGED <<offset, seen, changes>> /\ pc' # "refused"
    BY <1>3 DEF Open, ConceptsFull, FindSessions, SessionsFull
  <2>2. QED
    BY <2>1 DEF Bounds
<1>4. CASE Hide \/ Record
  <2>1. UNCHANGED <<offset, seen, pc, concepts, sessions>> /\ changes < MaxChanges /\ changes' = changes + 1
    BY <1>4 DEF Hide, Record
  <2>2. QED
    BY <2>1 DEF Bounds, RecallAssumption
<1>5. QED
  BY <1>1, <1>2, <1>3, <1>4 DEF Work

LEMMA BoundsStutter ==
  ASSUME Bounds, UNCHANGED vars
  PROVE  Bounds'
BY DEF vars, Bounds

\* What is selected in the order of its places is selected once.
LEMMA SelectedOnce ==
  ASSUME RecallAssumption, NEW X, IsFiniteSet(X), NEW every \in Seq(X), NEW some \in Seq(X),
         IsInjective(every), IsInjective(some), NEW eligible, NEW n \in Nat, k \in 1 .. MaxK,
         NEW best \in Seq(X), UpTo(best, Places(every, some, eligible), k, n)
  PROVE  best \in Orders(X) /\ Len(best) <= MaxK
<1> DEFINE place == Places(every, some, eligible)
<1>1. place \in [DOMAIN place -> Nat]
  BY PlacesType
<1> HIDE DEF place
<1>2. /\ best \in Seq(DOMAIN place) /\ Len(best) <= k
      /\ \A i, j \in DOMAIN best : i < j => place[best[i]] < place[best[j]]
  BY DEF UpTo, place
<1>3. IsInjective(best)
  <2>1. DOMAIN best \subseteq Nat /\ \A i \in DOMAIN best : place[best[i]] \in Nat
    BY <1>1, <1>2
  <2>2. \A i, j \in DOMAIN best : best[i] = best[j] => ~(i < j) /\ ~(j < i)
    BY <1>2, <2>1
  <2>3. \A i, j \in DOMAIN best : best[i] = best[j] => i = j
    BY <2>1, <2>2
  <2>4. QED
    BY <2>3 DEF IsInjective
<1>4. Len(best) <= MaxK
  BY <1>2 DEF RecallAssumption
<1>5. QED
  BY <1>3, <1>4, OrdersAre

LEMMA NothingIsOrdered ==
  ASSUME RecallAssumption, NEW X, IsFiniteSet(X)
  PROVE  <<>> \in Orders(X) /\ Len(<<>>) <= MaxK
<1>1. <<>> \in Seq(X) /\ IsInjective(<<>>)
  BY DEF IsInjective
<1>2. <<>> \in Orders(X)
  BY <1>1, OrdersAre
<1>3. Len(<<>>) = 0 /\ MaxK \in Nat
  BY DEF RecallAssumption
<1>4. QED
  BY <1>2, <1>3

LEMMA SelectionTypes ==
  ASSUME RecallAssumption, RecallInv, Bounds
  PROVE  /\ concepts \in Orders(Concepts) /\ Len(concepts) <= MaxK
         /\ sessions \in Orders(Sessions) /\ Len(sessions) <= MaxK
<1>1. /\ RecallTypes /\ IsFiniteSet(Concepts) /\ IsFiniteSet(Sessions)
      /\ concepts \in Seq(Concepts) /\ sessions \in Seq(Sessions) /\ offset \in Nat
      /\ pc \in {"open", "concepts", "sessions", "done", "refused"}
  BY DEF RecallInv, RecallTypes, RecallAssumption
<1>2. /\ snap.conceptAnd \in Seq(Concepts) /\ IsInjective(snap.conceptAnd)
      /\ snap.conceptOr \in Seq(Concepts) /\ IsInjective(snap.conceptOr)
      /\ snap.sessionAnd \in Seq(Sessions) /\ IsInjective(snap.sessionAnd)
      /\ snap.sessionOr \in Seq(Sessions) /\ IsInjective(snap.sessionOr)
  BY <1>1, RankingsAre DEF RecallTypes
<1>3. pc \in {"concepts", "sessions", "done"} => k \in 1 .. MaxK
  BY DEF RecallInv, OpenInv
<1>4. \A n \in Nat : k \in 1 .. MaxK /\ UpTo(concepts, ConceptPlaces, k, n) =>
        concepts \in Orders(Concepts) /\ Len(concepts) <= MaxK
  BY <1>1, <1>2, SelectedOnce DEF ConceptPlaces
<1>5. \A n \in Nat : k \in 1 .. MaxK /\ UpTo(sessions, SessionPlaces, k, n) =>
        sessions \in Orders(Sessions) /\ Len(sessions) <= MaxK
  BY <1>1, <1>2, SelectedOnce DEF SessionPlaces
<1>6. Len(snap.conceptAnd) \in Nat /\ Len(snap.sessionAnd) \in Nat /\ ConceptEnd \in Nat /\ SessionEnd \in Nat
  <2>1. \A S : \A s \in Seq(S) : Len(s) \in Nat
    OBVIOUS
  <2>2. /\ Len(snap.conceptAnd) \in Nat /\ Len(snap.conceptOr) \in Nat
        /\ Len(snap.sessionAnd) \in Nat /\ Len(snap.sessionOr) \in Nat
    BY <1>2, <2>1
  <2>3. \A a, b \in Nat : a + b \in Nat
    OBVIOUS
  <2>4. QED
    BY <2>2, <2>3 DEF ConceptEnd, SessionEnd
<1>7. /\ \/ concepts = <<>>
         \/ k \in 1 .. MaxK /\ \E n \in Nat : UpTo(concepts, ConceptPlaces, k, n)
      /\ \/ sessions = <<>>
         \/ k \in 1 .. MaxK /\ \E n \in Nat : UpTo(sessions, SessionPlaces, k, n)
  <2>1. CASE pc \in {"open", "refused"}
    BY <2>1 DEF RecallInv, OpenInv, Bounds
  <2>2. CASE pc = "concepts"
    <3>1. (IF fallback THEN Len(snap.conceptAnd) ELSE 0) + offset \in Nat
      BY <1>1, <1>6
    <3>2. /\ UpTo(concepts, ConceptPlaces, k, (IF fallback THEN Len(snap.conceptAnd) ELSE 0) + offset)
          /\ sessions = <<>>
      BY <2>2 DEF RecallInv, ConceptsInv
    <3>3. QED
      BY <1>3, <2>2, <3>1, <3>2
  <2>3. CASE pc = "sessions"
    <3>1. IF question.searchable THEN UpTo(concepts, ConceptPlaces, k, ConceptEnd) ELSE concepts = <<>>
      BY <2>3 DEF RecallInv, SessionsInv
    <3>2. IF fallback THEN UpTo(sessions, SessionPlaces, k, Len(snap.sessionAnd)) ELSE sessions = <<>>
      BY <2>3 DEF RecallInv, SessionsInv
    <3>3. QED
      BY <1>3, <1>6, <2>3, <3>1, <3>2
  <2>4. CASE pc = "done"
    <3>1. IF question.searchable THEN UpTo(concepts, ConceptPlaces, k, ConceptEnd) ELSE concepts = <<>>
      BY <2>4 DEF RecallInv, SessionsInv
    <3>2. IF question.searchable THEN UpTo(sessions, SessionPlaces, k, SessionEnd) ELSE sessions = <<>>
      BY <2>4 DEF RecallInv, SessionsInv
    <3>3. QED
      BY <1>3, <1>6, <2>4, <3>1, <3>2
  <2>5. QED
    BY <1>1, <2>1, <2>2, <2>3, <2>4
<1>8. /\ <<>> \in Orders(Concepts) /\ Len(<<>>) <= MaxK
      /\ <<>> \in Orders(Sessions)
  BY <1>1, NothingIsOrdered
<1>9. QED
  BY <1>4, <1>5, <1>7, <1>8

LEMMA RecallIsTyped ==
  ASSUME RecallAssumption, RecallInv, Bounds
  PROVE  TypeOK
<1>1. offset \in 0 .. Cardinality(Concepts)
  BY FS_CardinalityType DEF RecallAssumption, RecallInv, RecallTypes, Bounds
<1>2. QED
  BY <1>1, SelectionTypes DEF RecallInv, RecallTypes, Bounds, TypeOK
=============================================================================
