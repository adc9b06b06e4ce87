--------------------- MODULE SlidingWindowLimiter_proofs ---------------------
(***************************************************************************)
(* The limiter keeps its promises for any number of keys, any limit and    *)
(* any window, and implements RateLimit step by step.                      *)
(***************************************************************************)
EXTENDS SlidingWindowLimiter, FiniteSetTheorems, SequenceTheorems,
        WellFoundedInduction, TLAPS

(* What the map holds for one key. *)
Ordered(times) == \A i, j \in 1 .. Len(times) : i <= j => times[i] <= times[j]
Entry(times) == times \in Seq(0 .. now) /\ Len(times) <= Limit /\ Ordered(times)

(* A refusal of a key that is still full pointed at a time by which its    *)
(* oldest grant has left the window.                                       *)
PromisesCover ==
    \A k \in DOMAIN events :
        promise[k] # 0 /\ Len(events[k]) >= Limit => events[k][1] + Window <= promise[k]

(* The map as every call leaves it, and as pruning leaves it. *)
Entries(map) == DOMAIN map \subseteq Keys /\ \A k \in DOMAIN map : Entry(map[k])
Live(times) == \A i \in 1 .. Len(times) : ~Expired(times[i])
AllLive(map) == \A k \in DOMAIN map : map[k] # << >> /\ Live(map[k])
Covered(map, k) ==
    promise[k] # 0 /\ Len(map[k]) >= Limit => map[k][1] + Window <= promise[k]
Holding(map) == {k \in DOMAIN map : map[k] # << >>}

(* The inductive invariant. *)
LimiterInvariant == TypeOK /\ KeysBounded /\ PromisesCover

-----------------------------------------------------------------------------
(* A set of naturals that is not empty has a smallest member, and Min is it. *)
LEMMA Smallest ==
    ASSUME NEW S \in SUBSET Nat, S # {}
    PROVE  Min(S) \in S /\ \A x \in S : Min(S) <= x
<1>1. PICK m \in S : \A x \in S : ~ (<<x, m>> \in OpToRel(<, Nat))
  BY NatLessThanWellFounded, WFMin
<1>2. \A x \in S : m <= x
  <2> TAKE x \in S
  <2>1. ~ (<<x, m>> \in {ss \in Nat \X Nat : ss[1] < ss[2]})
    BY <1>1 DEF OpToRel
  <2> QED
    BY <2>1
<1> QED
  BY <1>2 DEF Min

(* The end of a sequence after its first n elements. *)
LEMMA Suffix ==
    ASSUME NEW S, NEW s \in Seq(S), NEW n \in 0 .. Len(s)
    PROVE  /\ SubSeq(s, n + 1, Len(s)) \in Seq(S)
           /\ Len(SubSeq(s, n + 1, Len(s))) = Len(s) - n
           /\ \A i \in 1 .. Len(s) - n : SubSeq(s, n + 1, Len(s))[i] = s[n + i]
<1>1. /\ n + 1 \in Int /\ Len(s) \in Int /\ Len(s) \in Nat /\ n \in Nat /\ n <= Len(s)
      /\ \A i \in n + 1 .. Len(s) : s[i] \in S
  BY LenProperties, ElementOfSeq
<1> DEFINE r == SubSeq(s, n + 1, Len(s))
<1>2. /\ r \in Seq(S)
      /\ Len(r) = IF n + 1 <= Len(s) THEN Len(s) - (n + 1) + 1 ELSE 0
      /\ \A i \in 1 .. Len(s) - (n + 1) + 1 : r[i] = s[n + 1 + i - 1]
  BY <1>1, SubSeqProperties
<1> HIDE DEF r
<1>3. Len(r) = Len(s) - n
  BY <1>1, <1>2
<1>4. \A i \in 1 .. Len(s) - n : r[i] = s[n + i]
  <2> TAKE i \in 1 .. Len(s) - n
  <2>1. i \in 1 .. Len(s) - (n + 1) + 1 /\ n + 1 + i - 1 = n + i
    BY <1>1
  <2> QED
    BY <1>2, <2>1
<1> QED
  BY <1>2, <1>3, <1>4 DEF r

(* Recent keeps exactly the grants that have not expired: an end of the    *)
(* sequence, since its times are in order.                                 *)
LEMMA RecentIsSuffix ==
    ASSUME NEW times \in Seq(Nat), Ordered(times), now \in Nat
    PROVE  \E n \in 0 .. Len(times) :
               /\ Recent(times) = SubSeq(times, n + 1, Len(times))
               /\ \A i \in 1 .. Len(times) : i <= n <=> Expired(times[i])
<1> DEFINE live == {i \in DOMAIN times : ~Expired(times[i])}
<1>0. /\ Len(times) \in Nat /\ DOMAIN times = 1 .. Len(times)
      /\ Window \in Nat
      /\ \A i \in 1 .. Len(times) : times[i] \in Nat
  BY LenProperties, ElementOfSeq, LimiterAssumption
<1>1. CASE live = {}
  <2>1. Recent(times) = << >>
    BY <1>1 DEF Recent
  <2>2. SubSeq(times, Len(times) + 1, Len(times)) = << >>
    BY <1>0, SubSeqEmpty
  <2>3. \A i \in 1 .. Len(times) : i <= Len(times) <=> Expired(times[i])
    BY <1>0, <1>1
  <2>4. Len(times) \in 0 .. Len(times)
    BY <1>0
  <2> QED
    BY <2>1, <2>2, <2>3, <2>4
<1>2. CASE live # {}
  <2>1. live \in SUBSET Nat
    BY <1>0
  <2>2. PICK m \in live : m = Min(live) /\ \A i \in live : m <= i
    <3> HIDE DEF live
    <3> QED
      BY <1>2, <2>1, Smallest
  <2>3. m \in 1 .. Len(times) /\ ~Expired(times[m])
    BY <1>0, <2>2
  <2>4. Recent(times) = SubSeq(times, m, Len(times))
    BY <1>2, <2>2 DEF Recent
  <2>5. \A i \in 1 .. Len(times) : i <= m - 1 <=> Expired(times[i])
    <3> TAKE i \in 1 .. Len(times)
    <3>1. CASE i < m
      <4>0. ~ (m <= i) /\ i \in DOMAIN times
        BY <1>0, <2>3, <3>1
      <4>1. i \in DOMAIN times /\ i \notin live
        <5> HIDE DEF live
        <5> QED
          BY <2>2, <4>0
      <4>2. Expired(times[i])
        BY <4>1
      <4> QED
        BY <1>0, <2>3, <3>1, <4>2
    <3>2. CASE i >= m
      <4>1. times[m] <= times[i] /\ times[i] \in Nat /\ times[m] \in Nat
        BY <1>0, <2>3, <3>2 DEF Ordered
      <4> QED
        BY <1>0, <2>3, <3>2, <4>1 DEF Expired
    <3> QED
      BY <1>0, <2>3, <3>1, <3>2
  <2>6. m - 1 \in 0 .. Len(times) /\ (m - 1) + 1 = m
    BY <1>0, <2>3
  <2> QED
    BY <2>4, <2>5, <2>6
<1> QED
  BY <1>1, <1>2

(* Of a sequence of grants that are all recent everything is kept. *)
LEMMA AllRecent ==
    ASSUME NEW times \in Seq(Nat), Ordered(times), now \in Nat, Live(times)
    PROVE  Recent(times) = times
<1>1. PICK n \in 0 .. Len(times) :
          /\ Recent(times) = SubSeq(times, n + 1, Len(times))
          /\ \A i \in 1 .. Len(times) : i <= n <=> Expired(times[i])
  BY RecentIsSuffix
<1>2. Len(times) \in Nat
  BY LenProperties
<1>3. n = 0
  <2>1. SUFFICES ASSUME n # 0 PROVE FALSE
    OBVIOUS
  <2>2. 1 \in 1 .. Len(times) /\ 1 <= n
    BY <1>2, <2>1
  <2> QED
    BY <1>1, <2>2 DEF Live
<1>4. SubSeq(times, 1, Len(times)) = times
  BY SubSeqFull
<1> QED
  BY <1>1, <1>3, <1>4

(* What is recent of an entry is an entry, all of it is recent, and it is  *)
(* shorter if it is not the same, as it is when the oldest grant expired.  *)
LEMMA RecentEntry ==
    ASSUME now \in Nat, NEW times, Entry(times)
    PROVE  /\ Entry(Recent(times))
           /\ Live(Recent(times))
           /\ Recent(times) = times \/ Len(Recent(times)) < Len(times)
           /\ times # << >> /\ Expired(times[1]) => Len(Recent(times)) < Len(times)
<1>1. /\ times \in Seq(0 .. now) /\ times \in Seq(Nat) /\ Len(times) \in Nat
      /\ Len(times) <= Limit /\ Limit \in Nat /\ Ordered(times)
      /\ times # << >> => Len(times) >= 1
  <2>1. times \in Seq(0 .. now) /\ Len(times) <= Limit /\ Ordered(times)
    BY DEF Entry
  <2>2. times \in Seq(Nat) /\ Len(times) \in Nat /\ (times # << >> => Len(times) >= 1)
    BY <2>1, SeqMonotonic, EmptySeq, LenProperties
  <2> QED
    BY <2>1, <2>2, LimiterAssumption
<1>2. PICK n \in 0 .. Len(times) :
          /\ Recent(times) = SubSeq(times, n + 1, Len(times))
          /\ \A i \in 1 .. Len(times) : i <= n <=> Expired(times[i])
  BY <1>1, RecentIsSuffix
<1> DEFINE r == Recent(times)
<1>3. /\ r \in Seq(0 .. now) /\ Len(r) = Len(times) - n
      /\ \A i \in 1 .. Len(times) - n : r[i] = times[n + i]
  BY <1>1, <1>2, Suffix
<1>4. n = 0 => r = times
  BY <1>1, <1>2, SubSeqFull
<1> HIDE DEF r
<1>5. Ordered(r)
  <2> SUFFICES ASSUME NEW i \in 1 .. Len(r), NEW j \in 1 .. Len(r), i <= j
               PROVE  r[i] <= r[j]
    BY DEF Ordered
  <2>1. n + i \in 1 .. Len(times) /\ n + j \in 1 .. Len(times) /\ n + i <= n + j
    BY <1>1, <1>3
  <2>2. r[i] = times[n + i] /\ r[j] = times[n + j]
    BY <1>3
  <2> QED
    BY <1>1, <2>1, <2>2 DEF Ordered
<1>6. \A i \in 1 .. Len(r) : ~Expired(r[i])
  <2> TAKE i \in 1 .. Len(r)
  <2>1. n + i \in 1 .. Len(times) /\ ~ (n + i <= n) /\ r[i] = times[n + i]
    BY <1>1, <1>3
  <2>2. ~Expired(times[n + i])
    BY <1>2, <2>1
  <2> QED
    BY <2>1, <2>2
<1>7. times # << >> /\ Expired(times[1]) => Len(r) < Len(times)
  <2>1. SUFFICES ASSUME times # << >>, Expired(times[1]) PROVE Len(r) < Len(times)
    OBVIOUS
  <2>2. 1 <= n
    BY <1>1, <1>2, <2>1
  <2> QED
    BY <1>1, <1>3, <2>2
<1>8. r = times \/ Len(r) < Len(times)
  BY <1>1, <1>3, <1>4
<1>9. Entry(r)
  BY <1>1, <1>3, <1>5 DEF Entry
<1> QED
  BY <1>6, <1>7, <1>8, <1>9 DEF r, Live

(* A grant of now continues an entry that is not full. *)
LEMMA GrantEntry ==
    ASSUME now \in Nat, NEW times, Entry(times), Len(times) < Limit,
           Live(times)
    PROVE  /\ Entry(Append(times, now)) /\ Append(times, now) # << >>
           /\ Live(Append(times, now))
<1> DEFINE s == Append(times, now)
<1>1. /\ times \in Seq(0 .. now) /\ Len(times) \in Nat /\ Limit \in Nat /\ Window \in Nat \ {0}
      /\ \A i \in 1 .. Len(times) : times[i] \in 0 .. now
      /\ Ordered(times)
  BY LimiterAssumption, LenProperties, ElementOfSeq DEF Entry
<1>2. /\ s \in Seq(0 .. now) /\ Len(s) = Len(times) + 1
      /\ \A i \in 1 .. Len(times) : s[i] = times[i]
      /\ s[Len(times) + 1] = now
  BY <1>1
<1> HIDE DEF s
<1>3. s # << >>
  <2>1. Len(<< >>) = 0
    BY EmptySeq
  <2> QED
    BY <1>1, <1>2, <2>1
<1>4. \A i \in 1 .. Len(s) : ~Expired(s[i])
  <2> TAKE i \in 1 .. Len(s)
  <2>1. CASE i \in 1 .. Len(times)
    BY <1>2, <2>1 DEF Live
  <2>2. CASE i = Len(times) + 1
    BY <1>1, <1>2, <2>2 DEF Expired
  <2> QED
    BY <1>1, <1>2, <2>1, <2>2
<1>5. Ordered(s)
  <2> SUFFICES ASSUME NEW i \in 1 .. Len(s), NEW j \in 1 .. Len(s), i <= j
               PROVE  s[i] <= s[j]
    BY DEF Ordered
  <2>1. CASE j \in 1 .. Len(times)
    <3>1. i \in 1 .. Len(times)
      BY <1>1, <2>1
    <3> QED
      BY <1>1, <1>2, <2>1, <3>1 DEF Ordered
  <2>2. CASE j = Len(times) + 1
    <3>1. s[i] \in 0 .. now
      BY <1>2, ElementOfSeq
    <3> QED
      BY <1>2, <2>2, <3>1
  <2> QED
    BY <1>1, <1>2, <2>1, <2>2
<1>6. Entry(s)
  BY <1>1, <1>2, <1>5 DEF Entry
<1> QED
  BY <1>3, <1>4, <1>6 DEF s, Live

-----------------------------------------------------------------------------
(* The larger of two numbers, and what a Retry-After announces: at least   *)
(* the wait, rounded up to whole seconds.                                  *)
LEMMA Larger ==
    ASSUME NEW a \in Int, NEW b \in Int
    PROVE  Max({a, b}) \in {a, b} /\ Max({a, b}) >= a /\ Max({a, b}) >= b
<1>1. \E m \in {a, b} : \A x \in {a, b} : m >= x
  OBVIOUS
<1> QED
  BY <1>1 DEF Max

LEMMA RetryAfterCovers ==
    ASSUME NEW wait \in Nat \ {0}
    PROVE  /\ Second * RetryAfterSeconds(wait) \in Nat
           /\ Second * RetryAfterSeconds(wait) >= wait
<1> DEFINE q == (wait + Second - 1) \div Second
           r == RetryAfterSeconds(wait)
<1>1. Second \in Nat \ {0}
  BY LimiterAssumption
<1>2. q \in Nat /\ Second * q >= wait
  <2>1. wait + Second - 1 \in Nat /\ Second > 0
    BY <1>1
  <2>2. q \in Nat /\ wait + Second - 1 < Second * q + Second
    BY <1>1, <2>1
  <2>3. Second * q \in Nat
    BY <1>1, <2>2
  <2> HIDE DEF q
  <2> QED
    BY <1>1, <2>2, <2>3
<1>3. r \in Nat /\ r >= q
  <2>1. r = Max({1, q})
    BY DEF RetryAfterSeconds
  <2> HIDE DEF q, r
  <2>2. Max({1, q}) \in {1, q} /\ Max({1, q}) >= q
    BY <1>2, Larger
  <2> QED
    BY <1>2, <2>1, <2>2
<1> HIDE DEF q, r
<1>4. Second * r \in Nat /\ Second * r >= Second * q
  BY <1>1, <1>2, <1>3
<1>5. Second * r >= wait
  BY <1>1, <1>2, <1>4
<1> QED
  BY <1>4, <1>5 DEF r

-----------------------------------------------------------------------------
(* TypeOK speaks of the entries of the map. *)
LEMMA TypesAreEntries ==
    TypeOK <=> /\ now \in Nat
               /\ Entries(events)
               /\ answer \in [key : Keys, ok : BOOLEAN]
               /\ promise \in [Keys -> Nat]
<1>1. \A times \in Seq(0 .. now) : DOMAIN times = 1 .. Len(times)
  BY LenProperties
<1>2. \A times : Entry(times) <=>
          /\ times \in Seq(0 .. now) /\ Len(times) <= Limit
          /\ \A i, j \in DOMAIN times : i <= j => times[i] <= times[j]
  BY <1>1 DEF Entry, Ordered
<1> QED
  BY <1>2 DEF TypeOK, Entries

(* The empty entry, and so whatever a map holds for a key, is an entry. *)
LEMMA OfEntries ==
    ASSUME now \in Nat, NEW map, Entries(map), AllLive(map), NEW k \in Keys
    PROVE  Entry(Of(map, k)) /\ Live(Of(map, k))
<1>1. Limit \in Nat
  BY LimiterAssumption
<1>2. << >> \in Seq(0 .. now) /\ Len(<< >>) = 0
  BY EmptySeq
<1>3. Entry(<< >>) /\ Live(<< >>)
  BY <1>1, <1>2 DEF Entry, Ordered, Live
<1> QED
  BY <1>3 DEF Of, Entries, AllLive

(* The first statement of every call: the map without what has expired.    *)
LEMMA PrunedMap ==
    ASSUME LimiterInvariant
    PROVE  /\ Entries(Pruned) /\ AllLive(Pruned)
           /\ DOMAIN Pruned \subseteq DOMAIN events
           /\ \A k \in DOMAIN Pruned : Pruned[k] = Recent(events[k]) /\ Covered(Pruned, k)
           /\ IsFiniteSet(DOMAIN Pruned) /\ Cardinality(DOMAIN Pruned) <= MaxKeys
<1>1. /\ now \in Nat /\ Entries(events) /\ KeysBounded /\ PromisesCover
      /\ promise \in [Keys -> Nat] /\ IsFiniteSet(Keys)
  BY TypesAreEntries, LimiterAssumption DEF LimiterInvariant
<1>2. /\ DOMAIN Pruned \subseteq DOMAIN events /\ DOMAIN Pruned \subseteq Keys
      /\ \A k \in DOMAIN Pruned : Pruned[k] = Recent(events[k]) /\ Pruned[k] # << >>
  BY <1>1 DEF Pruned, Entries
<1>3. ASSUME NEW k \in DOMAIN events
      PROVE  /\ Entry(events[k]) /\ Entry(Recent(events[k])) /\ Live(Recent(events[k]))
             /\ Recent(events[k]) = events[k] \/ Len(Recent(events[k])) < Len(events[k])
  BY <1>1, RecentEntry DEF Entries
<1>4. Entries(Pruned) /\ AllLive(Pruned)
  BY <1>2, <1>3 DEF Entries, AllLive
<1>5. ASSUME NEW k \in DOMAIN Pruned PROVE Covered(Pruned, k)
  <2>1. k \in DOMAIN events /\ Pruned[k] = Recent(events[k])
    BY <1>2
  <2>2. Len(Recent(events[k])) >= Limit => Recent(events[k]) = events[k]
    <3>1. /\ Len(events[k]) \in Nat /\ Len(Recent(events[k])) \in Nat
          /\ Len(events[k]) <= Limit /\ Limit \in Nat
      BY <1>3, <2>1, LenProperties, LimiterAssumption DEF Entry
    <3> QED
      BY <1>3, <2>1, <3>1
  <2> QED
    BY <1>1, <2>1, <2>2 DEF PromisesCover, Covered
<1>6. IsFiniteSet(DOMAIN Pruned) /\ Cardinality(DOMAIN Pruned) <= MaxKeys
  <2> DEFINE holding == {k \in DOMAIN events : events[k] # << >>}
  <2>1. IsFiniteSet(holding) /\ Cardinality(holding) \in Nat
    <3>1. holding \in SUBSET Keys
      BY <1>1 DEF Entries
    <3> HIDE DEF holding
    <3> QED
      BY <1>1, <3>1, FS_Subset, FS_CardinalityType
  <2>2. DOMAIN Pruned \in SUBSET holding
    <3>1. ASSUME NEW k \in DOMAIN Pruned PROVE events[k] # << >>
      <4>1. /\ Pruned[k] # << >> /\ Pruned[k] = Recent(events[k]) /\ Entry(events[k])
            /\ Recent(events[k]) = events[k] \/ Len(Recent(events[k])) < Len(events[k])
            /\ Entry(Recent(events[k]))
        BY <1>2, <1>3
      <4>2. Len(Recent(events[k])) \in Nat
        BY <4>1, LenProperties DEF Entry
      <4>3. Len(<< >>) = 0
        BY EmptySeq
      <4> QED
        BY <4>1, <4>2, <4>3
    <3> QED
      BY <1>2, <3>1
  <2>3. Cardinality(holding) <= MaxKeys
    BY <1>1 DEF KeysBounded
  <2> HIDE DEF holding
  <2>4. /\ IsFiniteSet(DOMAIN Pruned) /\ Cardinality(DOMAIN Pruned) \in Nat
        /\ Cardinality(DOMAIN Pruned) <= Cardinality(holding)
    BY <2>1, <2>2, FS_Subset, FS_CardinalityType
  <2> QED
    BY <2>1, <2>3, <2>4, LimiterAssumption
<1> QED
  BY <1>2, <1>4, <1>5, <1>6

(* Making room for a key: it has an entry, or there is room for one more.  *)
LEMMA RoomMade ==
    ASSUME LimiterInvariant, NEW k \in Keys, NEW map \in MakeRoom(Pruned, k)
    PROVE  /\ Entries(map) /\ AllLive(map)
           /\ \A j \in DOMAIN map : Covered(map, j)
           /\ IsFiniteSet(DOMAIN map) /\ Cardinality(DOMAIN map) \in Nat
           /\ Cardinality(DOMAIN map) <= MaxKeys
           /\ k \notin DOMAIN map => Cardinality(DOMAIN map) < MaxKeys
<1>1. /\ Entries(Pruned) /\ AllLive(Pruned)
      /\ \A j \in DOMAIN Pruned : Covered(Pruned, j)
      /\ IsFiniteSet(DOMAIN Pruned) /\ Cardinality(DOMAIN Pruned) <= MaxKeys
      /\ Cardinality(DOMAIN Pruned) \in Nat /\ MaxKeys \in Nat
  BY PrunedMap, FS_CardinalityType, LimiterAssumption
<1>2. CASE map = Pruned
           /\ ~(k \notin DOMAIN Pruned /\ Cardinality(DOMAIN Pruned) >= MaxKeys)
  BY <1>1, <1>2
<1>3. CASE \E old \in DOMAIN Pruned : map = Without(Pruned, old)
  <2>1. PICK old \in DOMAIN Pruned : map = Without(Pruned, old)
    BY <1>3
  <2>2. /\ DOMAIN map = DOMAIN Pruned \ {old}
        /\ \A j \in DOMAIN map : map[j] = Pruned[j]
    BY <2>1 DEF Without
  <2>3. /\ IsFiniteSet(DOMAIN map) /\ Cardinality(DOMAIN map) \in Nat
        /\ Cardinality(DOMAIN map) = Cardinality(DOMAIN Pruned) - 1
    BY <1>1, <2>1, <2>2, FS_RemoveElement, FS_CardinalityType
  <2>4. Entries(map) /\ AllLive(map)
    BY <1>1, <2>2 DEF Entries, AllLive
  <2>5. \A j \in DOMAIN map : Covered(map, j)
    BY <1>1, <2>2 DEF Covered
  <2> QED
    BY <1>1, <2>3, <2>4, <2>5
<1> QED
  BY <1>2, <1>3 DEF MakeRoom, Evictions

-----------------------------------------------------------------------------
(* A call keeps the invariant if it leaves such a map with such promises.  *)
LEMMA CallKeepsInvariant ==
    ASSUME LimiterInvariant, now' = now, NEW map, events' = map, Entries(map),
           Cardinality(Holding(map)) <= MaxKeys,
           promise' \in [Keys -> Nat], answer' \in [key : Keys, ok : BOOLEAN],
           \A k \in DOMAIN map : promise'[k] # 0 /\ Len(map[k]) >= Limit =>
                                     map[k][1] + Window <= promise'[k]
    PROVE  LimiterInvariant'
<1>1. now \in Nat
  BY DEF LimiterInvariant, TypeOK
<1>2. \A times \in Seq(0 .. now) : DOMAIN times = 1 .. Len(times)
  BY LenProperties
<1>3. DOMAIN map \subseteq Keys
  BY DEF Entries
<1>4. ASSUME NEW k \in DOMAIN map
      PROVE  /\ map[k] \in Seq(0 .. now) /\ Len(map[k]) <= Limit
             /\ \A i, j \in DOMAIN map[k] : i <= j => map[k][i] <= map[k][j]
  BY <1>2 DEF Entries, Entry, Ordered
<1>5. TypeOK'
  BY <1>1, <1>3, <1>4 DEF TypeOK
<1>6. KeysBounded'
  BY DEF KeysBounded, Holding
<1>7. PromisesCover'
  BY DEF PromisesCover
<1> QED
  BY <1>5, <1>6, <1>7 DEF LimiterInvariant

(* A refusal leaves the map as it found it.                                *)
LEMMA RefusalKeepsInvariant ==
    ASSUME LimiterInvariant, now' = now, NEW k \in Keys, NEW map,
           Entries(map), AllLive(map), \A j \in DOMAIN map : Covered(map, j),
           IsFiniteSet(DOMAIN map), Cardinality(DOMAIN map) <= MaxKeys,
           Refused(map, k)
    PROVE  LimiterInvariant' /\ k \in DOMAIN map /\ Len(map[k]) = Limit
<1> DEFINE wait == map[k][1] + Window - now
           until == now + Second * RetryAfterSeconds(wait)
<1>1. /\ now \in Nat /\ Limit \in Nat \ {0} /\ Window \in Nat \ {0} /\ Second \in Nat \ {0}
      /\ promise \in [Keys -> Nat]
  BY LimiterAssumption DEF LimiterInvariant, TypeOK
<1>2. k \in DOMAIN map /\ Len(map[k]) >= Limit
  <2>1. Len(<< >>) = 0
    BY EmptySeq
  <2> QED
    BY <1>1, <2>1 DEF Refused, Of
<1>3. /\ map[k] \in Seq(0 .. now) /\ Len(map[k]) \in Nat /\ Len(map[k]) <= Limit
      /\ map[k][1] \in 0 .. now /\ ~Expired(map[k][1])
  <2>1. map[k] \in Seq(0 .. now) /\ Len(map[k]) <= Limit
    BY <1>2 DEF Entries, Entry
  <2>2. Len(map[k]) \in Nat /\ 1 \in 1 .. Len(map[k])
    BY <1>1, <1>2, <2>1, LenProperties
  <2>3. map[k][1] \in 0 .. now
    BY <2>1, <2>2, ElementOfSeq
  <2> QED
    BY <1>2, <2>1, <2>2, <2>3 DEF AllLive, Live
<1>4. wait \in Nat \ {0}
  BY <1>1, <1>3 DEF Expired
<1>5. until \in Nat /\ map[k][1] + Window <= until
  <2>1. /\ Second * RetryAfterSeconds(wait) \in Nat
        /\ Second * RetryAfterSeconds(wait) >= wait
    <3> HIDE DEF wait
    <3> QED
      BY <1>4, RetryAfterCovers
  <2>2. PICK announced \in Nat : announced = Second * RetryAfterSeconds(wait)
    BY <2>1
  <2>3. announced >= map[k][1] + Window - now
    BY <2>1, <2>2
  <2>4. until = now + announced
    BY <2>2
  <2> HIDE DEF until
  <2> QED
    BY <1>1, <1>3, <2>3, <2>4
<1>6. /\ events' = map /\ answer' = [key |-> k, ok |-> FALSE]
      /\ promise' = [promise EXCEPT ![k] = until]
  BY DEF Refused, Refusal
<1> HIDE DEF until, wait
<1>7. promise' \in [Keys -> Nat] /\ answer' \in [key : Keys, ok : BOOLEAN]
  BY <1>1, <1>5, <1>6
<1>8. \A j \in DOMAIN map : promise'[j] # 0 /\ Len(map[j]) >= Limit =>
                                map[j][1] + Window <= promise'[j]
  <2> TAKE j \in DOMAIN map
  <2>1. CASE j = k
    BY <1>1, <1>5, <1>6, <2>1
  <2>2. CASE j # k
    <3>1. j \in Keys /\ promise'[j] = promise[j]
      BY <1>1, <1>6, <2>2 DEF Entries
    <3> QED
      BY <3>1 DEF Covered
  <2> QED
    BY <2>1, <2>2
<1>9. Cardinality(Holding(map)) <= MaxKeys
  <2>1. Holding(map) = DOMAIN map
    BY DEF Holding, AllLive
  <2> QED
    BY <2>1
<1> QED
  BY <1>1, <1>2, <1>3, <1>6, <1>7, <1>8, <1>9, CallKeepsInvariant

(* A grant adds its time to the entry, and there was room for the key.     *)
LEMMA GrantKeepsInvariant ==
    ASSUME LimiterInvariant, now' = now, NEW k \in Keys, NEW map,
           Entries(map), AllLive(map), \A j \in DOMAIN map : Covered(map, j),
           IsFiniteSet(DOMAIN map), Cardinality(DOMAIN map) \in Nat,
           Cardinality(DOMAIN map) <= MaxKeys,
           k \notin DOMAIN map => Cardinality(DOMAIN map) < MaxKeys,
           Granted(map, k)
    PROVE  LimiterInvariant'
<1> DEFINE times == Append(Of(map, k), now)
           next == Put(map, k, times)
<1>1. now \in Nat /\ promise \in [Keys -> Nat] /\ MaxKeys \in Nat
  BY LimiterAssumption DEF LimiterInvariant, TypeOK
<1>2. Entry(times) /\ times # << >> /\ Live(times)
  BY <1>1, OfEntries, GrantEntry DEF Granted
<1>3. /\ events' = next /\ answer' = [key |-> k, ok |-> TRUE]
      /\ promise' = [promise EXCEPT ![k] = 0]
  BY DEF Granted
<1> HIDE DEF times
<1>4. /\ DOMAIN next = DOMAIN map \cup {k} /\ next[k] = times
      /\ \A j \in DOMAIN map : j # k => next[j] = map[j]
  BY DEF Put
<1> HIDE DEF next
<1>5. Entries(next) /\ AllLive(next)
  BY <1>2, <1>4 DEF Entries, AllLive
<1>6. Cardinality(Holding(next)) <= MaxKeys
  <2>1. Holding(next) = DOMAIN map \cup {k}
    BY <1>4, <1>5 DEF Holding, AllLive
  <2>2. Cardinality(DOMAIN map \cup {k}) =
          IF k \in DOMAIN map THEN Cardinality(DOMAIN map) ELSE Cardinality(DOMAIN map) + 1
    BY FS_AddElement
  <2> QED
    BY <1>1, <2>1, <2>2
<1>7. promise' \in [Keys -> Nat] /\ answer' \in [key : Keys, ok : BOOLEAN]
  BY <1>1, <1>3
<1>8. \A j \in DOMAIN next : promise'[j] # 0 /\ Len(next[j]) >= Limit =>
                                 next[j][1] + Window <= promise'[j]
  <2> TAKE j \in DOMAIN next
  <2>1. CASE j = k
    BY <1>1, <1>3, <2>1
  <2>2. CASE j # k
    <3>1. j \in Keys /\ j \in DOMAIN map /\ next[j] = map[j] /\ promise'[j] = promise[j]
      BY <1>1, <1>3, <1>4, <2>2 DEF Entries
    <3> QED
      BY <3>1 DEF Covered
  <2> QED
    BY <2>1, <2>2
<1> QED
  BY <1>3, <1>5, <1>6, <1>7, <1>8, CallKeepsInvariant

(* Check takes nothing; at most it leaves an empty entry.                  *)
LEMMA CheckKeepsInvariant ==
    ASSUME LimiterInvariant, NEW k \in Keys, Check(k)
    PROVE  LimiterInvariant'
<1>0. /\ Entries(Pruned) /\ AllLive(Pruned)
      /\ \A j \in DOMAIN Pruned : Covered(Pruned, j)
      /\ IsFiniteSet(DOMAIN Pruned) /\ Cardinality(DOMAIN Pruned) <= MaxKeys
      /\ now' = now /\ now \in Nat /\ promise \in [Keys -> Nat] /\ Limit \in Nat \ {0}
  BY PrunedMap, LimiterAssumption DEF Check, LimiterInvariant, TypeOK
<1>1. CASE Refused(Pruned, k)
  <2>1. PICK map : map = Pruned
    OBVIOUS
  <2> QED
    BY <1>0, <1>1, <2>1, RefusalKeepsInvariant
<1>2. CASE ~Refused(Pruned, k)
  <2> DEFINE times == Of(Pruned, k)
  <2>1. /\ events' = Put(Pruned, k, times) /\ answer' = [key |-> k, ok |-> TRUE]
        /\ promise' = promise /\ Len(times) < Limit
    BY <1>2 DEF Check
  <2>2. PICK map : map = Put(Pruned, k, times)
    OBVIOUS
  <2>3. Entry(times)
    BY <1>0, OfEntries
  <2>4. times = IF k \in DOMAIN Pruned THEN Pruned[k] ELSE << >>
    BY DEF Of
  <2> HIDE DEF times
  <2>5. /\ DOMAIN map = DOMAIN Pruned \cup {k} /\ map[k] = times
        /\ \A j \in DOMAIN Pruned : map[j] = Pruned[j]
    BY <2>2, <2>4 DEF Put
  <2>6. Entries(map)
    BY <1>0, <2>3, <2>5 DEF Entries
  <2>7. Holding(map) = DOMAIN Pruned
    BY <1>0, <2>4, <2>5 DEF Holding, AllLive
  <2>8. \A j \in DOMAIN map : promise'[j] # 0 /\ Len(map[j]) >= Limit =>
                                  map[j][1] + Window <= promise'[j]
    <3> TAKE j \in DOMAIN map
    <3>1. CASE j \in DOMAIN Pruned
      BY <1>0, <2>1, <2>5, <3>1 DEF Covered
    <3>2. CASE j \notin DOMAIN Pruned
      <4>1. map[j] = << >> /\ Len(<< >>) = 0
        BY <2>4, <2>5, <3>2, EmptySeq
      <4> QED
        BY <1>0, <4>1
    <3> QED
      BY <3>1, <3>2
  <2>9. promise' \in [Keys -> Nat] /\ answer' \in [key : Keys, ok : BOOLEAN]
    BY <1>0, <2>1
  <2> QED
    BY <1>0, <2>1, <2>2, <2>6, <2>7, <2>8, <2>9, CallKeepsInvariant
<1> QED
  BY <1>1, <1>2

LEMMA AllowKeepsInvariant ==
    ASSUME LimiterInvariant, NEW k \in Keys, Allow(k)
    PROVE  LimiterInvariant'
<1>1. PICK map \in MakeRoom(Pruned, k) : Refused(map, k) \/ Granted(map, k)
  BY DEF Allow
<1>2. now' = now
  BY DEF Allow
<1>3. /\ Entries(map) /\ AllLive(map)
      /\ \A j \in DOMAIN map : Covered(map, j)
      /\ IsFiniteSet(DOMAIN map) /\ Cardinality(DOMAIN map) \in Nat
      /\ Cardinality(DOMAIN map) <= MaxKeys
      /\ k \notin DOMAIN map => Cardinality(DOMAIN map) < MaxKeys
  BY RoomMade
<1>4. CASE Refused(map, k)
  BY <1>2, <1>3, <1>4, RefusalKeepsInvariant
<1>5. CASE Granted(map, k)
  BY <1>2, <1>3, <1>5, GrantKeepsInvariant
<1> QED
  BY <1>1, <1>4, <1>5

(* The clock only makes the times of the past more.                        *)
LEMMA TickKeepsInvariant ==
    ASSUME LimiterInvariant, Tick
    PROVE  LimiterInvariant'
<1>1. /\ now \in Nat /\ now' = now + 1 /\ now' \in Nat
      /\ events' = events /\ answer' = answer /\ promise' = promise
  BY DEF LimiterInvariant, TypeOK, Tick
<1>2. ASSUME NEW k \in DOMAIN events PROVE events[k] \in Seq(0 .. now')
  <2>1. events[k] \in Seq(0 .. now) /\ 0 .. now \subseteq 0 .. now'
    BY <1>1 DEF LimiterInvariant, TypeOK
  <2> QED
    BY <2>1, SeqMonotonic
<1>3. TypeOK'
  BY <1>1, <1>2 DEF LimiterInvariant, TypeOK
<1>4. KeysBounded' /\ PromisesCover'
  BY <1>1 DEF LimiterInvariant, KeysBounded, PromisesCover
<1> QED
  BY <1>3, <1>4 DEF LimiterInvariant

-----------------------------------------------------------------------------
(* The map of slidingWindowLimiter always holds at most Limit past grants  *)
(* per key, in order, for at most MaxKeys keys, and a refusal of a full    *)
(* key covers its oldest grant: the inductive invariant.                   *)
THEOREM LimiterInvariantHolds == Spec => []LimiterInvariant
<1>1. Init => LimiterInvariant
  <2> SUFFICES ASSUME Init PROVE LimiterInvariant
    OBVIOUS
  <2>1. now = 0 /\ DOMAIN events = {}
    BY DEF Init
  <2>2. answer \in [key : Keys, ok : BOOLEAN] /\ promise \in [Keys -> Nat]
    <3>1. (CHOOSE k \in Keys : TRUE) \in Keys
      BY LimiterAssumption
    <3> QED
      BY <3>1 DEF Init
  <2>3. TypeOK /\ PromisesCover
    BY <2>1, <2>2 DEF TypeOK, PromisesCover
  <2>4. KeysBounded
    <3>1. {k \in DOMAIN events : events[k] # << >>} = {}
      BY <2>1
    <3> QED
      BY <3>1, FS_EmptySet, LimiterAssumption DEF KeysBounded
  <2> QED
    BY <2>3, <2>4 DEF LimiterInvariant
<1>2. LimiterInvariant /\ [Next]_vars => LimiterInvariant'
  <2> SUFFICES ASSUME LimiterInvariant, [Next]_vars PROVE LimiterInvariant'
    OBVIOUS
  <2>1. CASE Tick
    BY <2>1, TickKeepsInvariant
  <2>2. ASSUME NEW k \in Keys, Allow(k) PROVE LimiterInvariant'
    BY <2>2, AllowKeepsInvariant
  <2>3. ASSUME NEW k \in Keys, Check(k) PROVE LimiterInvariant'
    BY <2>3, CheckKeepsInvariant
  <2>4. CASE UNCHANGED vars
    BY <2>4 DEF vars, LimiterInvariant, TypeOK, KeysBounded, PromisesCover
  <2> QED
    BY <2>1, <2>2, <2>3, <2>4 DEF Next
<1> QED
  BY <1>1, <1>2, PTL DEF Spec

(* Every entry lists at most Limit grants of the past, oldest first, after *)
(* any calls of Allow and Check (ingest.go).                               *)
THEOREM TypeCorrect == Spec => []TypeOK
<1>1. LimiterInvariant => TypeOK
  BY DEF LimiterInvariant
<1> QED
  BY <1>1, LimiterInvariantHolds, PTL

(* However many sources call, at most MaxKeys keys hold grants (Allow      *)
(* evicts before it adds).                                                 *)
THEOREM MemoryIsBounded == Spec => []KeysBounded
<1>1. LimiterInvariant => KeysBounded
  BY DEF LimiterInvariant
<1> QED
  BY <1>1, LimiterInvariantHolds, PTL

(* Whoever waits for the Retry-After of a 429 (HandleReport, HandleEnroll) *)
(* is not refused when it comes back.                                      *)
THEOREM WaitIsEnough == Spec => []RetryAfterSuffices
<1>1. LimiterInvariant => RetryAfterSuffices
  <2> SUFFICES ASSUME LimiterInvariant, NEW k \in Keys, promise[k] # 0, now >= promise[k]
               PROVE  Len(Recent(Of(events, k))) < Limit
    BY DEF RetryAfterSuffices
  <2>0. /\ now \in Nat /\ Entries(events) /\ promise[k] \in Nat
        /\ Limit \in Nat \ {0} /\ Window \in Nat
    BY TypesAreEntries, LimiterAssumption DEF LimiterInvariant
  <2>1. CASE k \in DOMAIN events
    <3>1. /\ Entry(events[k]) /\ Of(events, k) = events[k]
          /\ Len(events[k]) >= Limit => events[k][1] + Window <= promise[k]
      BY <2>0, <2>1 DEF LimiterInvariant, PromisesCover, Entries, Of
    <3> DEFINE times == events[k]
    <3>2. /\ times \in Seq(0 .. now) /\ Len(times) \in Nat /\ Len(times) <= Limit
          /\ Len(Recent(times)) \in Nat
          /\ Recent(times) = times \/ Len(Recent(times)) < Len(times)
          /\ times # << >> /\ Expired(times[1]) => Len(Recent(times)) < Len(times)
      BY <2>0, <3>1, RecentEntry, LenProperties DEF Entry
    <3>3. CASE Len(times) < Limit
      BY <2>0, <3>1, <3>2, <3>3
    <3>4. CASE Len(times) >= Limit
      <4>1. 1 \in 1 .. Len(times) /\ times # << >>
        <5>1. Len(<< >>) = 0
          BY EmptySeq
        <5> QED
          BY <2>0, <3>2, <3>4, <5>1
      <4>2. times[1] \in 0 .. now
        BY <3>2, <4>1, ElementOfSeq
      <4>3. Expired(times[1])
        BY <2>0, <3>1, <3>4, <4>2 DEF Expired
      <4> QED
        BY <2>0, <3>1, <3>2, <4>1, <4>3
    <3> QED
      BY <2>0, <3>2, <3>3, <3>4
  <2>2. CASE k \notin DOMAIN events
    <3>1. Of(events, k) = << >> /\ DOMAIN << >> = {}
      BY <2>2 DEF Of
    <3>2. Recent(<< >>) = << >> /\ Len(<< >>) = 0
      BY <3>1, EmptySeq DEF Recent
    <3> QED
      BY <2>0, <3>1, <3>2
  <2> QED
    BY <2>1, <2>2
<1> QED
  BY <1>1, LimiterInvariantHolds, PTL

-----------------------------------------------------------------------------
(* RateLimit counts as this module does.                                   *)
LEMMA SameCount == \A S : Limiter!Cardinality(S) = Cardinality(S)
BY DEF Limiter!Cardinality, Cardinality

(* The refinement.  What RateLimit sees of a map after a call is what is   *)
(* recent of it at the same instant.                                       *)
LEMMA RememberedAfter ==
    ASSUME now' = now, NEW map, events' = map
    PROVE  Remembered' = [k \in Keys |-> Recent(Of(map, k))]
BY DEF Remembered, Recent, Expired, Of

(* Of the map the calls leave nothing has expired: RateLimit sees it all.  *)
LEMMA RecentOfLive ==
    ASSUME now \in Nat, NEW map, Entries(map), AllLive(map), NEW k \in Keys
    PROVE  Recent(Of(map, k)) = Of(map, k)
<1>1. Entry(Of(map, k)) /\ Live(Of(map, k))
  BY OfEntries
<1>2. Of(map, k) \in Seq(0 .. now) /\ Ordered(Of(map, k))
  BY <1>1 DEF Entry
<1>3. Of(map, k) \in Seq(Nat)
  <2>1. 0 .. now \subseteq Nat
    OBVIOUS
  <2> QED
    BY <1>2, <2>1, SeqMonotonic
<1> QED
  BY <1>1, <1>2, <1>3, AllRecent

(* Pruning changes nothing that RateLimit sees, and the keys with an entry *)
(* are those that hold grants.                                             *)
LEMMA PruningIsInvisible ==
    ASSUME LimiterInvariant
    PROVE  /\ \A k \in Keys : Remembered[k] = Of(Pruned, k)
           /\ Limiter!Held = DOMAIN Pruned
<1>1. ASSUME NEW k \in Keys PROVE Remembered[k] = Of(Pruned, k)
  <2>1. Remembered[k] = Recent(Of(events, k))
    BY DEF Remembered
  <2>2. CASE k \in DOMAIN events
    <3>1. Of(events, k) = events[k]
      BY <2>2 DEF Of
    <3>2. Of(Pruned, k) = Recent(events[k])
      BY <2>2 DEF Of, Pruned
    <3> QED
      BY <2>1, <3>1, <3>2
  <2>3. CASE k \notin DOMAIN events
    <3>1. Of(events, k) = << >> /\ Of(Pruned, k) = << >>
      BY <2>3 DEF Of, Pruned
    <3>2. Recent(<< >>) = << >>
      BY DEF Recent
    <3> QED
      BY <2>1, <3>1, <3>2
  <2> QED
    BY <2>2, <2>3
<1>2. Limiter!Held = DOMAIN Pruned
  <2>1. AllLive(Pruned) /\ DOMAIN Pruned \subseteq Keys
    BY PrunedMap DEF Entries
  <2>2. \A k \in Keys : Remembered[k] # << >> <=> k \in DOMAIN Pruned
    BY <1>1, <2>1 DEF Of, AllLive
  <2> QED
    BY <2>1, <2>2 DEF Limiter!Held
<1> QED
  BY <1>1, <1>2

(* A call that leaves the pruned map, or adds an empty entry to it.        *)
LEMMA NothingForgotten ==
    ASSUME LimiterInvariant, now' = now, NEW map, events' = map,
           \A k \in Keys : Of(map, k) = Of(Pruned, k)
    PROVE  Remembered' = Remembered
<1>1. /\ now \in Nat /\ Entries(Pruned) /\ AllLive(Pruned)
      /\ \A k \in Keys : Remembered[k] = Of(Pruned, k)
  BY PrunedMap, PruningIsInvisible DEF LimiterInvariant, TypeOK
<1>2. PICK pruned : pruned = Pruned
  OBVIOUS
<1>3. \A k \in Keys : Recent(Of(map, k)) = Remembered[k]
  BY <1>1, <1>2, RecentOfLive
<1>4. Remembered' = [k \in Keys |-> Recent(Of(map, k))]
  BY RememberedAfter
<1>5. Remembered = [k \in Keys |-> Remembered[k]]
  BY DEF Remembered
<1> QED
  BY <1>3, <1>4, <1>5

(* A refusal by Allow is RateLimit's: it costs nothing.                    *)
LEMMA RefusalRefines ==
    ASSUME LimiterInvariant, NEW k \in Keys, NEW map \in MakeRoom(Pruned, k),
           now' = now, Refused(map, k)
    PROVE  Limiter!Refuse(k)
<1>1. /\ Entries(map) /\ AllLive(map)
      /\ \A j \in DOMAIN map : Covered(map, j)
      /\ IsFiniteSet(DOMAIN map) /\ Cardinality(DOMAIN map) <= MaxKeys
  BY RoomMade
<1>2. k \in DOMAIN map /\ Len(map[k]) = Limit
  BY <1>1, RefusalKeepsInvariant
<1>3. map = Pruned
  BY <1>2 DEF MakeRoom, Without
<1>4. Remembered[k] = map[k]
  BY <1>2, <1>3, PruningIsInvisible DEF Of
<1>5. Remembered' = Remembered
  <2>1. events' = map
    BY DEF Refused, Refusal
  <2> QED
    BY <1>3, <2>1, NothingForgotten
<1>6. answer' = [key |-> k, ok |-> FALSE]
  BY DEF Refused, Refusal
<1> QED
  BY <1>2, <1>4, <1>5, <1>6 DEF Limiter!Refuse

(* A grant by Allow is RateLimit's, also when it forgets the oldest key.   *)
LEMMA GrantRefines ==
    ASSUME LimiterInvariant, NEW k \in Keys, NEW map \in MakeRoom(Pruned, k),
           now' = now, Granted(map, k)
    PROVE  Limiter!Grant(k)
<1> DEFINE times == Append(Of(map, k), now)
           next == Put(map, k, times)
<1>1. /\ now \in Nat /\ Entries(map) /\ AllLive(map) /\ Len(Of(map, k)) < Limit
      /\ answer' = [key |-> k, ok |-> TRUE] /\ events' = next
  BY RoomMade DEF LimiterInvariant, TypeOK, Granted
<1>2. Entry(times) /\ times # << >> /\ Live(times)
  BY <1>1, OfEntries, GrantEntry
<1>3. /\ \A j \in Keys : Remembered[j] = Of(Pruned, j)
      /\ Limiter!Held = DOMAIN Pruned
      /\ Remembered = [j \in Keys |-> Remembered[j]]
  BY PruningIsInvisible DEF Remembered
<1>4. ASSUME NEW j \in Keys PROVE Of(next, j) = IF j = k THEN times ELSE Of(map, j)
  BY DEF Put, Of
<1>5. Remembered' = [j \in Keys |-> IF j = k THEN times ELSE Of(map, j)]
  <2> HIDE DEF times
  <2>1. Entries(next) /\ AllLive(next)
    BY <1>1, <1>2 DEF Entries, AllLive, Put
  <2> HIDE DEF next
  <2>2. PICK m : m = next
    OBVIOUS
  <2>3. Remembered' = [j \in Keys |-> Recent(Of(m, j))]
    BY <1>1, <2>2, RememberedAfter
  <2>4. \A j \in Keys : Recent(Of(m, j)) = Of(m, j)
    BY <1>1, <2>1, <2>2, RecentOfLive
  <2> QED
    BY <1>4, <2>2, <2>3, <2>4
<1> HIDE DEF next
<1>6. CASE map = Pruned /\ ~(k \notin DOMAIN Pruned /\ Cardinality(DOMAIN Pruned) >= MaxKeys)
  <2>1. ~Limiter!Crowded(k)
    <3>1. Remembered[k] = << >> => k \notin DOMAIN Pruned
      BY <1>1, <1>3, <1>6 DEF AllLive, Of
    <3> QED
      BY <1>3, <1>6, <3>1, SameCount DEF Limiter!Crowded
  <2>2. Of(map, k) = Remembered[k]
    BY <1>3, <1>6
  <2>3. Remembered' = [Remembered EXCEPT ![k] = Append(Remembered[k], now)]
    BY <1>3, <1>5, <1>6, <2>2
  <2> QED
    BY <1>1, <2>1, <2>2, <2>3 DEF Limiter!Grant
<1>7. CASE /\ k \notin DOMAIN Pruned /\ Cardinality(DOMAIN Pruned) >= MaxKeys
           /\ map \in {Without(Pruned, old) : old \in Evictions(Pruned)}
  <2>1. PICK old \in Evictions(Pruned) : map = Without(Pruned, old)
    BY <1>7
  <2>2. /\ old \in DOMAIN Pruned /\ old # k
        /\ \A j \in DOMAIN Pruned : Pruned[old][1] <= Pruned[j][1]
    BY <1>7, <2>1 DEF Evictions
  <2>3. \A j \in DOMAIN Pruned : j \in Keys /\ Remembered[j] = Pruned[j]
    BY <1>3, PrunedMap DEF Entries, Of
  <2>4. Limiter!MayForget(k, old)
    <3>1. Remembered[k] = << >>
      BY <1>3, <1>7 DEF Of
    <3> QED
      BY <1>3, <1>7, <2>2, <2>3, <3>1, SameCount DEF Limiter!MayForget, Limiter!Crowded
  <2>5. Of(map, k) = << >> /\ Remembered[k] = << >>
    BY <1>3, <1>7, <2>1 DEF Of, Without
  <2>6. times = <<now>>
    BY <2>5
  <2>7. \A j \in Keys : j # k => Of(map, j) = IF j = old THEN << >> ELSE Remembered[j]
    BY <1>3, <2>1 DEF Of, Without
  <2> HIDE DEF times
  <2>8. Remembered' = [Remembered EXCEPT ![old] = << >>, ![k] = <<now>>]
    BY <1>3, <1>5, <2>2, <2>3, <2>6, <2>7
  <2>9. Len(Remembered[k]) < Limit
    BY <1>1, <2>5
  <2> QED
    BY <1>1, <1>3, <2>2, <2>4, <2>8, <2>9 DEF Limiter!Grant
<1> QED
  BY <1>6, <1>7 DEF MakeRoom

(* Check asks without taking.                                              *)
LEMMA CheckRefines ==
    ASSUME LimiterInvariant, NEW k \in Keys, Check(k)
    PROVE  Limiter!Peek(k)
<1>1. /\ now' = now /\ Limit \in Nat
      /\ Remembered[k] = Of(Pruned, k)
  BY PruningIsInvisible, LimiterAssumption DEF Check
<1>2. Len(Of(Pruned, k)) \in Nat
  <2>1. now \in Nat /\ Entries(Pruned) /\ AllLive(Pruned)
    BY PrunedMap DEF LimiterInvariant, TypeOK
  <2>2. Entry(Of(Pruned, k))
    BY <2>1, OfEntries
  <2> QED
    BY <2>2, LenProperties DEF Entry
<1>3. CASE Refused(Pruned, k)
  <2>1. /\ Len(Of(Pruned, k)) >= Limit /\ events' = Pruned
        /\ answer' = [key |-> k, ok |-> FALSE]
    BY <1>3 DEF Refused, Refusal
  <2>2. PICK map : map = Pruned
    OBVIOUS
  <2>3. Remembered' = Remembered
    BY <1>1, <2>1, <2>2, NothingForgotten
  <2> QED
    <3>1. (Len(Remembered[k]) < Limit) = FALSE
      BY <1>1, <1>2, <2>1
    <3> QED
      BY <1>1, <2>1, <2>3, <3>1 DEF Limiter!Peek
<1>4. CASE ~Refused(Pruned, k)
  <2>1. /\ Len(Of(Pruned, k)) < Limit /\ events' = Put(Pruned, k, Of(Pruned, k))
        /\ answer' = [key |-> k, ok |-> TRUE]
    BY <1>4 DEF Check
  <2>2. PICK map : map = Put(Pruned, k, Of(Pruned, k))
    OBVIOUS
  <2>3. \A j \in Keys : Of(map, j) = Of(Pruned, j)
    BY <2>2 DEF Of, Put
  <2>4. Remembered' = Remembered
    BY <1>1, <2>1, <2>2, <2>3, NothingForgotten
  <2> QED
    <3>1. (Len(Remembered[k]) < Limit) = TRUE
      BY <1>1, <1>2, <2>1
    <3> QED
      BY <1>1, <2>1, <2>4, <3>1 DEF Limiter!Peek
<1> QED
  BY <1>3, <1>4

(* A tick of the clock: what is left is the end of what was held, and it   *)
(* is what is recent now.                                                  *)
KeepsTheEnd ==
    \A times \in Seq(Nat) : Ordered(times) =>
        \E n \in 0 .. Len(times) :
            /\ Recent(times) = SubSeq(times, n + 1, Len(times))
            /\ \A i \in 1 .. Len(times) : i <= n <=> Expired(times[i])

LEMMA AlwaysKeepsTheEnd == now \in Nat => KeepsTheEnd
BY RecentIsSuffix DEF KeepsTheEnd

LEMMA EntryAges ==
    ASSUME now \in Nat, now' = now + 1, KeepsTheEnd, KeepsTheEnd',
           NEW times \in Seq(Nat), Ordered(times)
    PROVE  Limiter!Aged(Recent(times), Recent(times)')
<1>0. /\ Len(times) \in Nat /\ Window \in Nat
      /\ \A i \in 1 .. Len(times) : times[i] \in Nat
  BY LenProperties, ElementOfSeq, LimiterAssumption
<1>1. PICK n \in 0 .. Len(times) :
          /\ Recent(times) = SubSeq(times, n + 1, Len(times))
          /\ \A i \in 1 .. Len(times) : i <= n <=> times[i] <= now - Window
  BY DEF KeepsTheEnd, Expired
<1>2. PICK m \in 0 .. Len(times) :
          /\ Recent(times)' = SubSeq(times, m + 1, Len(times))
          /\ \A i \in 1 .. Len(times) : i <= m <=> times[i] <= now' - Window
  BY DEF KeepsTheEnd, Ordered, Expired
<1>3. \A i \in 1 .. Len(times) : i <= m <=> times[i] <= now + 1 - Window
  <2>1. now' - Window = now + 1 - Window
    BY <1>0
  <2> QED
    BY <1>0, <1>2, <2>1
<1>4. n <= m
  <2>1. CASE n = 0
    BY <2>1
  <2>2. CASE n # 0
    <3>1. n \in 1 .. Len(times)
      BY <1>0, <2>2
    <3>2. times[n] \in Nat /\ times[n] <= now - Window
      BY <1>0, <1>1, <3>1
    <3>3. times[n] <= now + 1 - Window
      BY <1>0, <3>2
    <3> QED
      BY <1>3, <3>1, <3>3
  <2> QED
    BY <2>1, <2>2
<1> DEFINE held == SubSeq(times, n + 1, Len(times))
           left == SubSeq(times, m + 1, Len(times))
           k == m - n
<1>5. /\ held \in Seq(Nat) /\ Len(held) = Len(times) - n
      /\ \A i \in 1 .. Len(times) - n : held[i] = times[n + i]
  BY Suffix
<1>6. /\ left \in Seq(Nat) /\ Len(left) = Len(times) - m
      /\ \A i \in 1 .. Len(times) - m : left[i] = times[m + i]
  BY Suffix
<1> HIDE DEF held, left
<1>7. k \in 0 .. Len(held)
  BY <1>0, <1>4, <1>5
<1>8. left = SubSeq(held, k + 1, Len(held))
  <2> DEFINE rest == SubSeq(held, k + 1, Len(held))
  <2>1. /\ rest \in Seq(Nat) /\ Len(rest) = Len(held) - k
        /\ \A i \in 1 .. Len(held) - k : rest[i] = held[k + i]
    <3> HIDE DEF k
    <3> QED
      BY <1>5, <1>7, Suffix
  <2> HIDE DEF rest
  <2>2. Len(rest) = Len(left)
    BY <1>0, <1>5, <1>6, <2>1
  <2>3. ASSUME NEW i \in 1 .. Len(left) PROVE left[i] = rest[i]
    <3>1. /\ i \in 1 .. Len(times) - m /\ i \in 1 .. Len(held) - k
          /\ k + i \in 1 .. Len(times) - n /\ n + (k + i) = m + i
      BY <1>0, <1>4, <1>5, <1>6
    <3> QED
      BY <1>5, <1>6, <2>1, <3>1
  <2>4. left = rest
    BY <1>6, <2>1, <2>2, <2>3, SeqEqual
  <2> QED
    BY <2>4 DEF rest
<1>9. \A i \in 1 .. Len(held) : i <= k <=> held[i] <= now + 1 - Window
  <2> TAKE i \in 1 .. Len(held)
  <2>1. /\ n + i \in 1 .. Len(times) /\ held[i] = times[n + i]
        /\ i <= k <=> n + i <= m
    BY <1>0, <1>4, <1>5
  <2> QED
    BY <1>3, <2>1
<1> HIDE DEF k
<1>10. Recent(times) = held /\ Recent(times)' = left
  BY <1>1, <1>2 DEF held, left
<1> QED
  BY <1>7, <1>8, <1>9, <1>10 DEF Limiter!Aged

LEMMA TickRefines ==
    ASSUME LimiterInvariant, KeepsTheEnd, KeepsTheEnd', Tick
    PROVE  Limiter!Tick
<1>1. /\ now \in Nat /\ now < MaxTime /\ now' = now + 1
      /\ events' = events /\ answer' = answer /\ Entries(events)
  BY TypesAreEntries DEF LimiterInvariant, Tick
<1>2. PICK map : map = events
  OBVIOUS
<1>3. /\ Remembered = [k \in Keys |-> Recent(Of(map, k))]
      /\ Remembered' = [k \in Keys |-> Recent(Of(map, k))']
  BY <1>1, <1>2 DEF Remembered, Recent, Expired, Of
<1>4. ASSUME NEW k \in Keys PROVE Limiter!Aged(Remembered[k], Remembered'[k])
  <2>1. PICK times : times = Of(map, k)
    OBVIOUS
  <2>2. times \in Seq(Nat) /\ Ordered(times)
    <3>1. /\ << >> \in Seq(Nat) /\ Len(<< >>) = 0 /\ 0 .. now \subseteq Nat
      BY EmptySeq
    <3>2. CASE k \in DOMAIN map
      <4>1. times \in Seq(0 .. now) /\ Ordered(times)
        BY <1>1, <1>2, <2>1, <3>2 DEF Entries, Entry, Of
      <4> QED
        BY <3>1, <4>1, SeqMonotonic
    <3>3. CASE k \notin DOMAIN map
      BY <2>1, <3>1, <3>3 DEF Of, Ordered
    <3> QED
      BY <3>2, <3>3
  <2>3. Limiter!Aged(Recent(times), Recent(times)')
    BY <1>1, <2>2, EntryAges
  <2>4. Remembered[k] = Recent(times) /\ Remembered'[k] = Recent(times)'
    <3>1. Recent(Of(map, k))' = Recent(times)'
      BY <2>1 DEF Recent, Expired, Of
    <3> QED
      BY <1>3, <2>1, <3>1
  <2> QED
    BY <2>3, <2>4
<1>5. DOMAIN Remembered' = Keys
  BY <1>3
<1> QED
  BY <1>1, <1>4, <1>5 DEF Limiter!Tick

(* The pruning, evicting map of slidingWindowLimiter answers as a limiter  *)
(* that remembers exactly the grants of the last window, and forgets       *)
(* sooner only the longest-held key to make room for a new one.            *)
THEOREM LimiterImplementsRateLimit == Spec => ImplementsRateLimit
<1>1. Init => Limiter!Init
  <2> SUFFICES ASSUME Init PROVE Limiter!Init
    OBVIOUS
  <2>1. \A k \in Keys : Of(events, k) = << >>
    BY DEF Init, Of
  <2>2. Recent(<< >>) = << >>
    BY DEF Recent
  <2>3. Remembered = [k \in Keys |-> << >>]
    BY <2>1, <2>2 DEF Remembered
  <2> QED
    BY <2>3 DEF Init, Limiter!Init
<1>2. LimiterInvariant /\ KeepsTheEnd /\ KeepsTheEnd' /\ [Next]_vars
        => [Limiter!Next]_(Limiter!vars)
  <2> SUFFICES ASSUME LimiterInvariant, KeepsTheEnd, KeepsTheEnd', [Next]_vars
               PROVE  [Limiter!Next]_(Limiter!vars)
    OBVIOUS
  <2>1. CASE Tick
    BY <2>1, TickRefines DEF Limiter!Next
  <2>2. ASSUME NEW k \in Keys, Allow(k)
        PROVE  Limiter!Grant(k) \/ Limiter!Refuse(k)
    <3>1. PICK map \in MakeRoom(Pruned, k) : Refused(map, k) \/ Granted(map, k)
      BY <2>2 DEF Allow
    <3>2. now' = now
      BY <2>2 DEF Allow
    <3> QED
      BY <3>1, <3>2, RefusalRefines, GrantRefines
  <2>3. ASSUME NEW k \in Keys, Check(k) PROVE Limiter!Peek(k)
    BY <2>3, CheckRefines
  <2>4. CASE UNCHANGED vars
    <3>1. PICK map : map = events
      OBVIOUS
    <3>2. Remembered' = Remembered
      BY <2>4, <3>1, RememberedAfter DEF vars, Remembered
    <3> QED
      BY <2>4, <3>2 DEF vars, Limiter!vars
  <2> QED
    BY <2>1, <2>2, <2>3, <2>4 DEF Next, Limiter!Next
<1>3. LimiterInvariant => now \in Nat
  BY DEF LimiterInvariant, TypeOK
<1>4. Spec => []KeepsTheEnd
  BY <1>3, LimiterInvariantHolds, AlwaysKeepsTheEnd, PTL
<1> QED
  BY <1>1, <1>2, <1>4, LimiterInvariantHolds, PTL DEF Spec, ImplementsRateLimit, Limiter!Spec
=============================================================================
