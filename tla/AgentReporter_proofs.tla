------------------------ MODULE AgentReporter_proofs ------------------------
(***************************************************************************)
(* The agent obeys a 429, and is never refused twice running, for any      *)
(* limit, window and interval that ReporterAssumption admits.              *)
(***************************************************************************)
EXTENDS AgentReporter, FiniteSetTheorems, SequenceTheorems,
        WellFoundedInduction, TLAPS

(* The times of the grants the limiter lists for the node. *)
Times == IF Node \in DOMAIN events THEN events[Node] ELSE << >>
Remaining == Limiter!Recent(Times)
Ordered(times) == \A i, j \in 1 .. Len(times) : i <= j => times[i] <= times[j]
Entry(times) == times \in Seq(0 .. now) /\ Len(times) <= Limit /\ Ordered(times)

(* What a 429 announced is late enough for the entry as it was then, and   *)
(* as long as that was the last outcome the entry is the same.             *)
AnnouncedSuffices ==
    told # 0 => /\ Node \in DOMAIN events /\ Len(events[Node]) >= 1
                /\ events[Node][1] + Window <= told

(* The last attempt, after a back-off: every grant is as old as that.      *)
LastAttempt ==
    pc = "send" /\ attempt = Attempts - 1 /\ told = 0 =>
        \A i \in 1 .. Len(Times) : Times[i] + Window <= wake + Interval

(* The inductive invariant. *)
ReporterInvariant ==
    TypeOK /\ told <= wake /\ AnnouncedSuffices /\ LastAttempt

-----------------------------------------------------------------------------
(* A set of naturals that is not empty has a smallest member.              *)
LEMMA Smallest ==
    ASSUME NEW S \in SUBSET Nat, S # {}
    PROVE  \E m \in S : \A x \in S : m <= x
<1>1. PICK m \in S : \A x \in S : ~ (<<x, m>> \in OpToRel(<, Nat))
  BY NatLessThanWellFounded, WFMin
<1>2. \A x \in S : m <= x
  <2> TAKE x \in S
  <2>1. ~ (<<x, m>> \in {ss \in Nat \X Nat : ss[1] < ss[2]})
    BY <1>1 DEF OpToRel
  <2> QED
    BY <2>1
<1> QED
  BY <1>2

(* Shifting 1 to the left by any number of bits yields a number.           *)
Powers(t, n) ==
    /\ t \in [0 .. n -> Nat]
    /\ t[0] = 1
    /\ \A k \in 1 .. n : t[k] = 2 * t[k - 1]

LEMMA PowersExist == \A n \in Nat : \E t : Powers(t, n)
<1> DEFINE bad == {m \in Nat : ~ \E t : Powers(t, m)}
<1> SUFFICES ASSUME bad # {} PROVE FALSE
  OBVIOUS
<1>1. PICK m \in bad : \A x \in bad : m <= x
  <2>1. bad \in SUBSET Nat
    OBVIOUS
  <2> HIDE DEF bad
  <2> QED
    BY <2>1, Smallest
<1>2. m # 0
  <2>1. Powers([k \in 0 .. 0 |-> 1], 0)
    BY DEF Powers
  <2> QED
    BY <2>1, <1>1
<1>3. m \in Nat /\ m - 1 \in Nat
  BY <1>1, <1>2
<1>4. m - 1 \notin bad
  <2>1. ~ (m <= m - 1)
    BY <1>3
  <2> HIDE DEF bad
  <2> QED
    BY <1>1, <2>1
<1>5. PICK t : Powers(t, m - 1)
  BY <1>3, <1>4
<1> DEFINE u == [k \in 0 .. m |-> IF k = m THEN 2 * t[m - 1] ELSE t[k]]
<1>6. Powers(u, m)
  <2>1. \A k \in 0 .. m - 1 : t[k] \in Nat
    BY <1>3, <1>5 DEF Powers
  <2>2. u \in [0 .. m -> Nat]
    <3>1. m - 1 \in 0 .. m - 1
      BY <1>3
    <3>2. 2 * t[m - 1] \in Nat
      BY <2>1, <3>1
    <3>3. \A k \in 0 .. m : k # m => k \in 0 .. m - 1
      BY <1>3
    <3> QED
      BY <2>1, <3>2, <3>3
  <2>3. u[0] = 1
    BY <1>2, <1>3, <1>5 DEF Powers
  <2>4. ASSUME NEW k \in 1 .. m PROVE u[k] = 2 * u[k - 1]
    <3>1. k \in 0 .. m /\ k - 1 \in 0 .. m /\ k - 1 # m /\ u[k - 1] = t[k - 1]
      BY <1>3
    <3>2. CASE k = m
      BY <3>1, <3>2
    <3>3. CASE k # m
      <4>1. k \in 1 .. m - 1 /\ u[k] = t[k]
        BY <1>3, <3>1, <3>3
      <4>2. t[k] = 2 * t[k - 1]
        BY <1>5, <4>1 DEF Powers
      <4> QED
        BY <3>1, <4>1, <4>2
    <3> QED
      BY <3>2, <3>3
  <2> QED
    BY <2>2, <2>3, <2>4 DEF Powers
<1> QED
  BY <1>1, <1>6

LEMMA DelayIsNat ==
    ASSUME NEW n \in Nat
    PROVE  Delay(n) \in Nat
<1> DEFINE loop == CHOOSE power : power = [k \in 0 .. n |-> IF k = 0 THEN 1 ELSE 2 * power[k - 1]]
<1>1. Delay(n) = loop[n]
  BY DEF Delay
<1>2. PICK t : Powers(t, n)
  BY PowersExist
<1>3. t = [k \in 0 .. n |-> IF k = 0 THEN 1 ELSE 2 * t[k - 1]]
  BY <1>2 DEF Powers
<1>4. loop = [k \in 0 .. n |-> IF k = 0 THEN 1 ELSE 2 * loop[k - 1]]
  BY <1>3
<1> HIDE DEF loop
<1> DEFINE bad == {m \in 0 .. n : loop[m] \notin Nat}
<1>5. ASSUME bad # {} PROVE FALSE
  <2>1. PICK m \in bad : \A x \in bad : m <= x
    <3>1. bad \in SUBSET Nat
      OBVIOUS
    <3> HIDE DEF bad
    <3> QED
      BY <3>1, <1>5, Smallest
  <2>2. m \in 0 .. n /\ m # 0
    BY <1>4, <2>1
  <2>3. m - 1 \in 0 .. n /\ ~ (m <= m - 1)
    BY <2>2
  <2>4. m - 1 \notin bad
    <3> HIDE DEF bad
    <3> QED
      BY <2>1, <2>3
  <2>5. loop[m - 1] \in Nat
    BY <2>3, <2>4
  <2>6. loop[m] = 2 * loop[m - 1]
    BY <1>4, <2>2
  <2> QED
    BY <2>1, <2>5, <2>6
<1>6. n \in 0 .. n
  OBVIOUS
<1> QED
  BY <1>1, <1>5, <1>6

-----------------------------------------------------------------------------
(* The end of a sequence after its first n elements. *)
LEMMA Suffix ==
    ASSUME NEW S, NEW s \in Seq(S), NEW n \in 0 .. Len(s)
    PROVE  /\ SubSeq(s, n + 1, Len(s)) \in Seq(S)
           /\ Len(SubSeq(s, n + 1, Len(s))) = Len(s) - n
           /\ \A i \in 1 .. Len(s) - n : SubSeq(s, n + 1, Len(s))[i] = s[n + i]
<1>1. /\ n + 1 \in Int /\ Len(s) \in Int /\ Len(s) \in Nat /\ n \in Nat /\ n <= Len(s)
      /\ \A i \in n + 1 .. Len(s) : s[i] \in S
  BY LenProperties, ElementOfSeq
<1> DEFINE r == SubSeq(s, n + 1, Len(s))
<1>2. /\ r \in Seq(S)
      /\ Len(r) = IF n + 1 <= Len(s) THEN Len(s) - (n + 1) + 1 ELSE 0
      /\ \A i \in 1 .. Len(s) - (n + 1) + 1 : r[i] = s[n + 1 + i - 1]
  BY <1>1, SubSeqProperties
<1> HIDE DEF r
<1>3. Len(r) = Len(s) - n
  BY <1>1, <1>2
<1>4. \A i \in 1 .. Len(s) - n : r[i] = s[n + i]
  <2> TAKE i \in 1 .. Len(s) - n
  <2>1. i \in 1 .. Len(s) - (n + 1) + 1 /\ n + 1 + i - 1 = n + i
    BY <1>1
  <2> QED
    BY <1>2, <2>1
<1> QED
  BY <1>2, <1>3, <1>4 DEF r

(* Pruning keeps an end of the entry: if its first grant has expired, a    *)
(* proper end.                                                             *)
LEMMA RecentIsAnEnd ==
    ASSUME now \in Nat, NEW times, Entry(times)
    PROVE  \E n \in 0 .. Len(times) :
               /\ Limiter!Recent(times) = SubSeq(times, n + 1, Len(times))
               /\ Len(times) >= 1 /\ times[1] + Window <= now => n >= 1
<1> DEFINE live == {i \in DOMAIN times : ~Limiter!Expired(times[i])}
<1>0. /\ times \in Seq(0 .. now) /\ Len(times) \in Nat /\ DOMAIN times = 1 .. Len(times)
      /\ Window \in Nat
      /\ \A i \in 1 .. Len(times) : times[i] \in Nat
  <2>1. times \in Seq(0 .. now)
    BY DEF Entry
  <2> QED
    BY <2>1, LenProperties, ElementOfSeq, ReporterAssumption
<1>1. CASE live = {}
  <2>1. Limiter!Recent(times) = << >>
    BY <1>1 DEF Limiter!Recent
  <2>2. SubSeq(times, Len(times) + 1, Len(times)) = << >>
    BY <1>0, SubSeqEmpty
  <2>3. Len(times) \in 0 .. Len(times)
    BY <1>0
  <2> QED
    BY <2>1, <2>2, <2>3
<1>2. CASE live # {}
  <2>1. live \in SUBSET Nat
    BY <1>0
  <2>2. PICK m \in live : m = Limiter!Min(live)
    <3> HIDE DEF live
    <3>1. PICK m \in live : \A x \in live : m <= x
      BY <1>2, <2>1, Smallest
    <3> QED
      BY <3>1 DEF Limiter!Min
  <2>3. m \in 1 .. Len(times) /\ ~Limiter!Expired(times[m])
    BY <1>0, <2>2
  <2>4. Limiter!Recent(times) = SubSeq(times, m, Len(times))
    BY <1>2, <2>2 DEF Limiter!Recent
  <2>5. m - 1 \in 0 .. Len(times) /\ (m - 1) + 1 = m
    BY <1>0, <2>3
  <2>6. times[1] + Window <= now => m - 1 >= 1
    BY <1>0, <2>3 DEF Limiter!Expired
  <2> QED
    BY <2>4, <2>5, <2>6
<1> QED
  BY <1>1, <1>2

(* So what is left is an entry of grants that were there; it is shorter if *)
(* the first one has expired, and then not full.                           *)
LEMMA RecentEntry ==
    ASSUME now \in Nat, NEW times, Entry(times)
    PROVE  LET r == Limiter!Recent(times) IN
           /\ Entry(r)
           /\ \A i \in 1 .. Len(r) : \E j \in 1 .. Len(times) : r[i] = times[j]
           /\ Len(times) >= 1 /\ times[1] + Window <= now => Len(r) < Limit
<1>1. /\ times \in Seq(0 .. now) /\ Len(times) \in Nat
      /\ Len(times) <= Limit /\ Limit \in Nat \ {0} /\ Ordered(times)
  <2>1. times \in Seq(0 .. now) /\ Len(times) <= Limit /\ Ordered(times)
    BY DEF Entry
  <2> QED
    BY <2>1, LenProperties, ReporterAssumption
<1>2. PICK n \in 0 .. Len(times) :
          /\ Limiter!Recent(times) = SubSeq(times, n + 1, Len(times))
          /\ Len(times) >= 1 /\ times[1] + Window <= now => n >= 1
  BY RecentIsAnEnd
<1> DEFINE r == Limiter!Recent(times)
<1>3. /\ r \in Seq(0 .. now) /\ Len(r) = Len(times) - n
      /\ \A i \in 1 .. Len(times) - n : r[i] = times[n + i]
  <2> DEFINE e == SubSeq(times, n + 1, Len(times))
  <2>1. /\ e \in Seq(0 .. now) /\ Len(e) = Len(times) - n
        /\ \A i \in 1 .. Len(times) - n : e[i] = times[n + i]
    BY <1>1, Suffix
  <2>2. r = e
    BY <1>2
  <2> HIDE DEF e, r
  <2> QED
    BY <2>1, <2>2
<1> HIDE DEF r
<1>4. \A i \in 1 .. Len(r) : n + i \in 1 .. Len(times) /\ r[i] = times[n + i]
  <2> TAKE i \in 1 .. Len(r)
  <2>1. i \in 1 .. Len(times) - n /\ n \in Nat
    BY <1>1, <1>3
  <2>2. n + i \in 1 .. Len(times)
    BY <1>1, <2>1
  <2> QED
    BY <1>3, <2>1, <2>2
<1>5. Ordered(r)
  <2> SUFFICES ASSUME NEW i \in 1 .. Len(r), NEW j \in 1 .. Len(r), i <= j
               PROVE  r[i] <= r[j]
    BY DEF Ordered
  <2>1. n + i \in 1 .. Len(times) /\ n + j \in 1 .. Len(times) /\ n + i <= n + j
    BY <1>1, <1>4
  <2>2. r[i] = times[n + i] /\ r[j] = times[n + j]
    BY <1>4
  <2> QED
    BY <1>1, <2>1, <2>2 DEF Ordered
<1>6. Len(r) <= Limit /\ (Len(times) >= 1 /\ times[1] + Window <= now => Len(r) < Limit)
  BY <1>1, <1>2, <1>3
<1>7. Entry(r)
  BY <1>3, <1>5, <1>6 DEF Entry
<1> QED
  BY <1>4, <1>6, <1>7 DEF r

(* A grant of now continues an entry that is not full. *)
LEMMA GrantEntry ==
    ASSUME now \in Nat, NEW times, Entry(times), Len(times) < Limit
    PROVE  Entry(Append(times, now))
<1> DEFINE s == Append(times, now)
<1>1. /\ times \in Seq(0 .. now) /\ Len(times) \in Nat /\ Limit \in Nat
      /\ \A i \in 1 .. Len(times) : times[i] \in 0 .. now
      /\ Ordered(times)
  BY ReporterAssumption, LenProperties, ElementOfSeq DEF Entry
<1>2. /\ s \in Seq(0 .. now) /\ Len(s) = Len(times) + 1
      /\ \A i \in 1 .. Len(times) : s[i] = times[i]
      /\ s[Len(times) + 1] = now
  BY <1>1
<1> HIDE DEF s
<1>3. Ordered(s)
  <2> SUFFICES ASSUME NEW i \in 1 .. Len(s), NEW j \in 1 .. Len(s), i <= j
               PROVE  s[i] <= s[j]
    BY DEF Ordered
  <2>1. CASE j \in 1 .. Len(times)
    <3>1. i \in 1 .. Len(times)
      BY <1>1, <2>1
    <3> QED
      BY <1>1, <1>2, <2>1, <3>1 DEF Ordered
  <2>2. CASE j = Len(times) + 1
    <3>1. s[i] \in 0 .. now
      BY <1>2, ElementOfSeq
    <3> QED
      BY <1>2, <2>2, <3>1
  <2> QED
    BY <1>1, <1>2, <2>1, <2>2
<1>4. Len(s) <= Limit
  BY <1>1, <1>2
<1> QED
  BY <1>2, <1>3, <1>4 DEF Entry, s

-----------------------------------------------------------------------------
LEMMA Typed ==
    ASSUME TypeOK
    PROVE  /\ now \in Nat /\ wake \in Nat /\ now <= wake /\ told \in Nat
           /\ attempt \in 0 .. Attempts - 1 /\ stored \in 0 .. 2
           /\ pc \in {"sample", "send", "interval", "stopped"}
           /\ DOMAIN events \subseteq {Node}
           /\ promise \in [Keys -> Nat]
           /\ answer \in [key : Keys, ok : BOOLEAN]
           /\ Entry(Times)
<1>1. Limiter!TypeOK /\ now \in Nat
  BY DEF TypeOK, Limiter!TypeOK
<1>2. CASE Node \in DOMAIN events
  <2>1. /\ events[Node] \in Seq(0 .. now) /\ Len(events[Node]) <= Limit
        /\ \A i, j \in DOMAIN events[Node] : i <= j => events[Node][i] <= events[Node][j]
    BY <1>1, <1>2 DEF Limiter!TypeOK
  <2>2. DOMAIN events[Node] = 1 .. Len(events[Node])
    BY <2>1, LenProperties
  <2> QED
    BY <1>1, <1>2, <2>1, <2>2 DEF Entry, Ordered, Times, TypeOK, Limiter!TypeOK, Keys
<1>3. CASE Node \notin DOMAIN events
  <2>1. Times = << >> /\ Len(<< >>) = 0 /\ << >> \in Seq(0 .. now)
    BY <1>3, EmptySeq DEF Times
  <2>2. Limit \in Nat \ {0}
    BY ReporterAssumption
  <2>3. Entry(Times)
    BY <2>1, <2>2 DEF Entry, Ordered
  <2> QED
    BY <1>1, <2>3 DEF TypeOK, Limiter!TypeOK, Keys
<1> QED
  BY <1>2, <1>3

(* After a step the limiter is well typed if its parts are. *)
LEMMA LimiterTyped ==
    ASSUME now' \in Nat, DOMAIN events' \subseteq {Node}, promise' \in [Keys -> Nat],
           answer' \in [key : Keys, ok : BOOLEAN], Entry(Times)'
    PROVE  Limiter!TypeOK'
<1>1. ASSUME NEW k \in DOMAIN events'
      PROVE  /\ events'[k] \in Seq(0 .. now') /\ Len(events'[k]) <= Limit
             /\ \A i, j \in DOMAIN events'[k] : i <= j => events'[k][i] <= events'[k][j]
  <2>1. events'[k] = Times'
    BY DEF Times
  <2>2. Times' \in Seq(0 .. now') /\ DOMAIN Times' = 1 .. Len(Times')
    BY LenProperties DEF Entry
  <2> QED
    BY <2>1, <2>2 DEF Entry, Ordered
<1> QED
  BY <1>1 DEF Limiter!TypeOK, Keys

(* The larger of two numbers, and what Retry-After announces.              *)
LEMMA Announced ==
    ASSUME NEW wait \in Int
    PROVE  LET r == Second * Limiter!RetryAfterSeconds(wait)
           IN  r \in {1, wait} /\ r >= 1 /\ r >= wait
<1>1. (wait + Second - 1) \div Second = wait
  BY DEF Second
<1>2. \E m \in {1, wait} : \A x \in {1, wait} : m >= x
  OBVIOUS
<1>3. Limiter!RetryAfterSeconds(wait) = Limiter!Max({1, wait})
  BY <1>1 DEF Limiter!RetryAfterSeconds
<1>4. /\ Limiter!Max({1, wait}) \in {1, wait}
      /\ Limiter!Max({1, wait}) >= 1 /\ Limiter!Max({1, wait}) >= wait
  BY <1>2 DEF Limiter!Max
<1>5. \A x \in Int : Second * x = x
  BY DEF Second
<1> QED
  BY <1>3, <1>4, <1>5

(* With one key there is nothing to evict. *)
LEMMA PrunedMap ==
    ASSUME TypeOK
    PROVE  /\ Limiter!MakeRoom(Limiter!Pruned, Node) = {Limiter!Pruned}
           /\ DOMAIN Limiter!Pruned \subseteq {Node}
           /\ Limiter!Of(Limiter!Pruned, Node) = Remaining
           /\ Remaining # << >> => /\ Node \in DOMAIN Limiter!Pruned
                                   /\ Limiter!Pruned[Node] = Remaining
<1>1. DOMAIN events \subseteq {Node}
  BY Typed
<1>2. DOMAIN Limiter!Pruned = {k \in DOMAIN events : Limiter!Recent(events[k]) # << >>}
  BY DEF Limiter!Pruned
<1>3. Limiter!Recent(<< >>) = << >>
  <2>1. {i \in DOMAIN << >> : ~Limiter!Expired(<< >>[i])} = {}
    OBVIOUS
  <2> QED
    BY <2>1 DEF Limiter!Recent
<1>4. Node \in DOMAIN Limiter!Pruned <=> Remaining # << >>
  BY <1>2, <1>3 DEF Remaining, Times
<1>5. Node \in DOMAIN Limiter!Pruned => Limiter!Pruned[Node] = Remaining
  BY <1>2 DEF Limiter!Pruned, Remaining, Times
<1>6. Limiter!MakeRoom(Limiter!Pruned, Node) = {Limiter!Pruned}
  <2>1. CASE Node \in DOMAIN Limiter!Pruned
    BY <2>1 DEF Limiter!MakeRoom
  <2>2. CASE Node \notin DOMAIN Limiter!Pruned
    <3>1. DOMAIN Limiter!Pruned = {}
      BY <1>1, <1>2, <2>2
    <3>2. Limiter!Cardinality({}) = Cardinality({})
      BY DEF Cardinality, Limiter!Cardinality
    <3>3. Cardinality({}) = 0
      BY FS_EmptySet
    <3>4. ~ (Limiter!Cardinality(DOMAIN Limiter!Pruned) >= MaxKeys)
      BY <3>1, <3>2, <3>3, ReporterAssumption
    <3> QED
      BY <3>4 DEF Limiter!MakeRoom
  <2> QED
    BY <2>1, <2>2
<1> QED
  BY <1>1, <1>2, <1>4, <1>5, <1>6 DEF Limiter!Of

(* What a call of the node does: it is refused if the entry, pruned, is    *)
(* full, and else granted; a refusal announces when its first grant leaves *)
(* the window, a second from now at least.                                 *)
Refusal ==
    /\ ~answer'.ok /\ Len(Remaining) >= Limit
    /\ Node \in DOMAIN events' /\ events'[Node] = Remaining
    /\ promise'[Node] \in {now + 1, Remaining[1] + Window}
    /\ promise'[Node] >= now + 1 /\ promise'[Node] >= Remaining[1] + Window

Grant ==
    /\ answer'.ok /\ Len(Remaining) < Limit
    /\ Node \in DOMAIN events' /\ events'[Node] = Append(Remaining, now)

LEMMA CallOutcome ==
    ASSUME TypeOK, Limiter!Allow(Node)
    PROVE  /\ now' = now /\ DOMAIN events' \subseteq {Node}
           /\ promise' \in [Keys -> Nat] /\ answer' \in [key : Keys, ok : BOOLEAN]
           /\ Entry(Remaining) /\ Entry(Times')
           /\ Refusal \/ Grant
<1>1. /\ now \in Nat /\ promise \in [Keys -> Nat] /\ Entry(Times) /\ Node \in Keys
      /\ Limit \in Nat \ {0} /\ Window \in Nat
  BY Typed, ReporterAssumption DEF Keys
<1>2. Entry(Remaining)
  BY <1>1, RecentEntry DEF Remaining
<1>3. now' = now
  BY DEF Limiter!Allow
<1> DEFINE map == Limiter!Pruned
<1>4. Limiter!Refused(map, Node) \/ Limiter!Granted(map, Node)
  BY PrunedMap DEF Limiter!Allow
<1>5. /\ DOMAIN map \subseteq {Node} /\ Limiter!Of(map, Node) = Remaining
      /\ Remaining # << >> => Node \in DOMAIN map /\ map[Node] = Remaining
  BY PrunedMap
<1> HIDE DEF map
<1>6. CASE Limiter!Refused(map, Node)
  <2>1. /\ Len(Remaining) >= Limit /\ events' = map
        /\ answer' = [key |-> Node, ok |-> FALSE]
    BY <1>5, <1>6 DEF Limiter!Refused, Limiter!Refusal
  <2>2. Remaining # << >> /\ Remaining[1] \in 0 .. now
    <3>1. Remaining \in Seq(0 .. now) /\ Len(Remaining) \in Nat
      BY <1>2, LenProperties DEF Entry
    <3>2. 1 \in 1 .. Len(Remaining) /\ Len(<< >>) = 0
      BY <1>1, <2>1, <3>1, EmptySeq
    <3>3. Remaining # << >>
      BY <3>2
    <3> QED
      BY <3>1, <3>2, <3>3, ElementOfSeq
  <2>3. Node \in DOMAIN map /\ map[Node] = Remaining
    BY <1>5, <2>2
  <2> DEFINE wait == Remaining[1] + Window - now
             r == Second * Limiter!RetryAfterSeconds(wait)
  <2>4. promise' = [promise EXCEPT ![Node] = now + r]
    BY <1>6, <2>3 DEF Limiter!Refused, Limiter!Refusal
  <2>5. wait \in Int /\ now + wait = Remaining[1] + Window
    BY <1>1, <2>2
  <2>6. r \in {1, wait} /\ r >= 1 /\ r >= wait
    <3> HIDE DEF wait
    <3> QED
      BY <2>5, Announced
  <2> HIDE DEF r, wait
  <2>7. /\ now + r \in Nat /\ now + r >= now + 1 /\ now + r >= Remaining[1] + Window
        /\ now + r \in {now + 1, Remaining[1] + Window}
    BY <1>1, <2>5, <2>6
  <2>8. promise' \in [Keys -> Nat] /\ promise'[Node] = now + r
    BY <1>1, <2>4, <2>7
  <2>9. Times' = Remaining
    BY <2>1, <2>3 DEF Times
  <2>10. Entry(Times')
    BY <1>2, <2>9
  <2>11. answer' \in [key : Keys, ok : BOOLEAN] /\ ~answer'.ok
    BY <1>1, <2>1
  <2>12. Refusal
    BY <2>1, <2>3, <2>7, <2>8, <2>11 DEF Refusal
  <2> QED
    BY <1>2, <1>3, <1>5, <2>1, <2>8, <2>10, <2>11, <2>12
<1>7. CASE Limiter!Granted(map, Node)
  <2>1. /\ Len(Remaining) < Limit
        /\ events' = Limiter!Put(map, Node, Append(Remaining, now))
        /\ answer' = [key |-> Node, ok |-> TRUE]
        /\ promise' = [promise EXCEPT ![Node] = 0]
    BY <1>5, <1>7 DEF Limiter!Granted
  <2>2. DOMAIN events' \subseteq {Node} /\ Node \in DOMAIN events'
        /\ events'[Node] = Append(Remaining, now)
    BY <1>5, <2>1 DEF Limiter!Put
  <2>3. Times' = Append(Remaining, now)
    BY <2>2 DEF Times
  <2>4. Entry(Times')
    BY <1>1, <1>2, <2>1, <2>3, GrantEntry
  <2>5. promise' \in [Keys -> Nat]
    BY <1>1, <2>1
  <2>6. answer' \in [key : Keys, ok : BOOLEAN] /\ answer'.ok
    BY <1>1, <2>1
  <2>7. Grant
    BY <2>1, <2>2, <2>6 DEF Grant
  <2> QED
    BY <1>2, <1>3, <2>2, <2>4, <2>5, <2>6, <2>7
<1> QED
  BY <1>4, <1>6, <1>7

-----------------------------------------------------------------------------
(* However far a request gets, the limiter stays well typed.               *)
LEMMA RequestTyped ==
    ASSUME TypeOK, Reached \/ (Limiter!Allow(Node) /\ (Store \/ UNCHANGED stored))
    PROVE  now' = now /\ Limiter!TypeOK' /\ stored' \in 0 .. 2 /\ Entry(Times')
<1>1. /\ now \in Nat /\ stored \in 0 .. 2 /\ Entry(Times)
      /\ DOMAIN events \subseteq {Node} /\ promise \in [Keys -> Nat]
      /\ answer \in [key : Keys, ok : BOOLEAN]
  BY Typed
<1>2. ASSUME Store PROVE stored' \in 0 .. 2
  <2>1. \E m \in {stored + 1, 2} : \A x \in {stored + 1, 2} : m <= x
    BY <1>1
  <2>2. Min({stored + 1, 2}) \in {stored + 1, 2} /\ Min({stored + 1, 2}) <= 2
    BY <1>1, <2>1 DEF Min
  <2> QED
    BY <1>1, <1>2, <2>2 DEF Store
<1>3. CASE UNCHANGED <<now, limiter, stored>>
  <2>1. /\ now' = now /\ events' = events /\ answer' = answer /\ promise' = promise
        /\ stored' = stored
    BY <1>3 DEF limiter
  <2>2. Times' = Times
    BY <2>1 DEF Times
  <2>3. Limiter!TypeOK
    BY DEF TypeOK
  <2>4. Limiter!TypeOK'
    BY <2>1, <2>3 DEF Limiter!TypeOK
  <2> QED
    BY <1>1, <2>1, <2>2, <2>4
<1>4. CASE Limiter!Allow(Node) /\ (Store \/ UNCHANGED stored)
  <2>1. /\ now' = now /\ DOMAIN events' \subseteq {Node}
        /\ promise' \in [Keys -> Nat] /\ answer' \in [key : Keys, ok : BOOLEAN]
        /\ Entry(Times')
    BY <1>4, CallOutcome
  <2>2. Entry(Times)' /\ now' \in Nat
    BY <1>1, <2>1 DEF Entry, Ordered
  <2>3. Limiter!TypeOK'
    BY <2>1, <2>2, LimiterTyped DEF Keys
  <2> QED
    BY <1>1, <1>2, <1>4, <2>1, <2>3
<1> QED
  BY <1>3, <1>4 DEF Reached

(* What SendWithRetry sets.                                                *)
LEMMA DoneSets ==
    ASSUME TypeOK, Done
    PROVE  /\ pc' = "interval" /\ attempt' \in 0 .. Attempts - 1
           /\ wake' \in Nat /\ wake' = now + Interval /\ now <= wake'
BY Typed, ReporterAssumption DEF Done

LEMMA RetrySets ==
    ASSUME TypeOK, NEW wait \in Nat, Retry(wait)
    PROVE  /\ pc' \in {"send", "interval"} /\ attempt' \in 0 .. Attempts - 1
           /\ wake' \in Nat /\ now <= wake'
           /\ attempt = Attempts - 1 => pc' = "interval" /\ wake' = now + Interval
           /\ attempt # Attempts - 1 => /\ pc' = "send" /\ wake' = now + wait
                                        /\ attempt' = attempt + 1
<1>1. CASE attempt = Attempts - 1
  BY <1>1, DoneSets DEF Retry
<1>2. CASE attempt # Attempts - 1
  BY <1>2, Typed, ReporterAssumption DEF Retry
<1> QED
  BY <1>1, <1>2

(* A report that waited as the last 429 said is not refused again.         *)
LEMMA NotRefusedAgain ==
    ASSUME ReporterInvariant, RateLimited
    PROVE  told = 0
<1> SUFFICES ASSUME told # 0 PROVE FALSE
  OBVIOUS
<1>1. TypeOK /\ Limiter!Allow(Node) /\ ~answer'.ok /\ now = wake
  BY DEF ReporterInvariant, RateLimited, Sending, Awake
<1>2. Len(Remaining) >= Limit
  BY <1>1, CallOutcome DEF Refusal, Grant
<1>3. /\ Times = events[Node] /\ Len(Times) >= 1
      /\ Times[1] + Window <= told /\ told <= wake
  BY DEF ReporterInvariant, AnnouncedSuffices, Times
<1>4. now \in Nat /\ told \in Nat /\ Entry(Times) /\ Limit \in Nat /\ Window \in Nat
  BY <1>1, Typed, ReporterAssumption
<1>5. Times[1] \in Nat /\ Times[1] + Window <= now
  <2>1. Times \in Seq(0 .. now) /\ Len(Times) \in Nat
    BY <1>4, LenProperties DEF Entry
  <2>2. 1 \in 1 .. Len(Times)
    BY <1>3, <2>1
  <2>3. Times[1] \in 0 .. now
    BY <2>1, <2>2, ElementOfSeq
  <2> QED
    BY <1>1, <1>3, <1>4, <2>3
<1>6. Len(Remaining) < Limit /\ Entry(Remaining)
  BY <1>3, <1>4, <1>5, RecentEntry DEF Remaining
<1>7. Len(Remaining) \in Nat
  BY <1>6, LenProperties DEF Entry
<1> QED
  BY <1>2, <1>4, <1>6, <1>7

(* What a 429 announced is at most the window away, and on the last        *)
(* attempt at most the interval.                                           *)
LEMMA RefusalNearby ==
    ASSUME ReporterInvariant, RateLimited
    PROVE  /\ promise'[Node] \in now + 1 .. now + Window
           /\ attempt = Attempts - 1 => promise'[Node] <= now + Interval
           /\ Node \in DOMAIN events' /\ Len(events'[Node]) >= 1
           /\ events'[Node][1] + Window <= promise'[Node]
<1>1. TypeOK /\ Limiter!Allow(Node) /\ ~answer'.ok /\ now = wake /\ pc = "send"
  BY DEF ReporterInvariant, RateLimited, Sending, Awake
<1>2. Refusal /\ Entry(Remaining)
  BY <1>1, CallOutcome DEF Grant
<1>3. /\ now \in Nat /\ Entry(Times) /\ Limit \in Nat \ {0} /\ Window \in Nat \ {0}
      /\ Interval \in Nat \ {0}
  BY <1>1, Typed, ReporterAssumption
<1>4. /\ Len(Remaining) >= 1 /\ Remaining[1] \in 0 .. now
  <2>1. Remaining \in Seq(0 .. now) /\ Len(Remaining) \in Nat
    BY <1>2, LenProperties DEF Entry
  <2>2. 1 \in 1 .. Len(Remaining)
    BY <1>2, <1>3, <2>1 DEF Refusal
  <2>3. Remaining[1] \in 0 .. now
    BY <2>1, <2>2, ElementOfSeq
  <2> QED
    BY <2>1, <2>2, <2>3
<1>5. promise'[Node] \in now + 1 .. now + Window
  BY <1>2, <1>3, <1>4 DEF Refusal
<1>6. ASSUME attempt = Attempts - 1 PROVE promise'[Node] <= now + Interval
  <2>1. \A i \in 1 .. Len(Times) : Times[i] + Window <= now + Interval
    BY <1>1, <1>6, NotRefusedAgain DEF ReporterInvariant, LastAttempt
  <2>2. 1 \in 1 .. Len(Remaining)
    BY <1>2, <1>4, LenProperties DEF Entry
  <2>3. PICK j \in 1 .. Len(Times) : Remaining[1] = Times[j]
    BY <1>3, <2>2, RecentEntry DEF Remaining
  <2>4. Remaining[1] + Window <= now + Interval
    BY <2>1, <2>3
  <2> QED
    BY <1>2, <1>3, <1>4, <2>4 DEF Refusal
<1> QED
  BY <1>2, <1>4, <1>5, <1>6 DEF Refusal

-----------------------------------------------------------------------------
(* Each action keeps the invariant.                                        *)
LEMMA Quiet ==
    ASSUME TypeOK, UNCHANGED limiter, now' \in Nat, now <= now'
    PROVE  Limiter!TypeOK' /\ Times' = Times
<1>1. events' = events /\ answer' = answer /\ promise' = promise
  BY DEF limiter
<1>2. Times' = Times
  BY <1>1 DEF Times
<1>3. /\ now \in Nat /\ DOMAIN events \subseteq {Node} /\ promise \in [Keys -> Nat]
      /\ answer \in [key : Keys, ok : BOOLEAN] /\ Entry(Times)
  BY Typed
<1>4. 0 .. now \subseteq 0 .. now'
  BY <1>3
<1>5. Entry(Times)'
  <2>1. Times \in Seq(0 .. now) /\ Len(Times) <= Limit /\ Ordered(Times)
    BY <1>3 DEF Entry
  <2>2. Times \in Seq(0 .. now')
    BY <1>4, <2>1, SeqMonotonic
  <2> QED
    BY <1>2, <2>1, <2>2 DEF Entry, Ordered
<1> QED
  BY <1>1, <1>2, <1>3, <1>5, LimiterTyped

LEMMA AdvanceKeeps ==
    ASSUME ReporterInvariant, Advance
    PROVE  ReporterInvariant'
<1>1. /\ TypeOK /\ told <= wake /\ AnnouncedSuffices /\ LastAttempt
  BY DEF ReporterInvariant
<1>2. /\ UNCHANGED limiter /\ events' = events /\ pc' = pc /\ attempt' = attempt
      /\ wake' = wake /\ told' = told /\ stored' = stored /\ now' = wake
  BY DEF Advance, limiter
<1>3. now \in Nat /\ wake \in Nat /\ now <= wake
  BY <1>1, Typed
<1>4. Limiter!TypeOK' /\ Times' = Times
  BY <1>1, <1>2, <1>3, Quiet
<1>5. TypeOK'
  BY <1>1, <1>2, <1>3, <1>4 DEF TypeOK
<1> QED
  BY <1>1, <1>2, <1>4, <1>5 DEF ReporterInvariant, AnnouncedSuffices, LastAttempt

LEMMA LoopKeeps ==
    ASSUME ReporterInvariant, Sample \/ EndInterval \/ Unauthorized
    PROVE  ReporterInvariant'
<1>1. /\ TypeOK /\ told <= wake /\ AnnouncedSuffices /\ LastAttempt
  BY DEF ReporterInvariant
<1>2. /\ UNCHANGED limiter /\ events' = events /\ now' = now /\ now = wake
  BY DEF Sample, EndInterval, Unauthorized, Sending, Awake, limiter
<1>3. /\ now \in Nat /\ wake \in Nat /\ told \in Nat /\ stored \in 0 .. 2
      /\ attempt \in 0 .. Attempts - 1
      /\ Interval \in Nat \ {0} /\ Attempts \in Nat \ {0, 1}
  BY <1>1, Typed, ReporterAssumption
<1>4. Limiter!TypeOK' /\ Times' = Times
  BY <1>1, <1>2, <1>3, Quiet
<1>5. /\ pc' \in {"send", "interval", "sample", "stopped"}
      /\ attempt' \in 0 .. Attempts - 1 /\ stored' \in 0 .. 2
      /\ wake' \in Nat /\ wake <= wake' /\ told' \in {0, told}
      /\ pc' = "send" => attempt' = 0
  BY <1>2, <1>3 DEF Sample, EndInterval, Unauthorized
<1>6. TypeOK' /\ told' <= wake'
  BY <1>1, <1>2, <1>3, <1>4, <1>5 DEF TypeOK
<1>7. AnnouncedSuffices'
  BY <1>1, <1>2, <1>5 DEF AnnouncedSuffices
<1>8. LastAttempt'
  BY <1>3, <1>5 DEF LastAttempt
<1> QED
  BY <1>6, <1>7, <1>8 DEF ReporterInvariant

LEMMA OutcomeKeeps ==
    ASSUME ReporterInvariant, SendFails \/ Recorded
    PROVE  ReporterInvariant'
<1>1. TypeOK
  BY DEF ReporterInvariant
<1>2. Done /\ told' = 0
  BY DEF SendFails, Recorded
<1>3. now' = now /\ Limiter!TypeOK' /\ stored' \in 0 .. 2
  BY <1>1, RequestTyped DEF SendFails, Recorded
<1>4. /\ pc' = "interval" /\ attempt' \in 0 .. Attempts - 1
      /\ wake' \in Nat /\ now <= wake'
  BY <1>1, <1>2, DoneSets
<1>5. TypeOK' /\ told' <= wake'
  BY <1>2, <1>3, <1>4 DEF TypeOK
<1> QED
  BY <1>2, <1>4, <1>5 DEF ReporterInvariant, AnnouncedSuffices, LastAttempt

(* The back-off before the last attempt and the interval after it outlast  *)
(* the window, counted from any grant so far.                              *)
LEMMA ServerErrorKeeps ==
    ASSUME ReporterInvariant, ServerError
    PROVE  ReporterInvariant'
<1>1. TypeOK /\ Retry(Backoff) /\ told' = 0 /\ Reached
  BY DEF ReporterInvariant, ServerError
<1>2. /\ now \in Nat /\ attempt \in 0 .. Attempts - 1
      /\ Attempts \in Nat \ {0, 1} /\ Interval \in Nat /\ Window \in Nat
      /\ Window <= Interval + Delay(Attempts - 2)
  BY <1>1, Typed, ReporterAssumption
<1>3. now' = now /\ Limiter!TypeOK' /\ stored' \in 0 .. 2 /\ Entry(Times')
  BY <1>1, RequestTyped
<1>4. Backoff = Delay(attempt) /\ Backoff \in Nat
  <2>1. attempt \in Nat
    BY <1>2
  <2> QED
    BY <2>1, DelayIsNat DEF Backoff
<1>5. /\ pc' \in {"send", "interval"} /\ attempt' \in 0 .. Attempts - 1
      /\ wake' \in Nat /\ now <= wake'
      /\ attempt = Attempts - 1 => pc' = "interval" /\ wake' = now + Interval
      /\ attempt # Attempts - 1 => /\ pc' = "send" /\ wake' = now + Backoff
                                   /\ attempt' = attempt + 1
  BY <1>1, <1>4, RetrySets
<1>6. TypeOK' /\ told' <= wake'
  BY <1>1, <1>3, <1>5 DEF TypeOK
<1>7. LastAttempt'
  <2> SUFFICES ASSUME pc' = "send", attempt' = Attempts - 1,
                      NEW i \in 1 .. Len(Times')
               PROVE  Times'[i] + Window <= wake' + Interval
    BY DEF LastAttempt
  <2>1. attempt = Attempts - 2 /\ wake' = now + Backoff
    BY <1>2, <1>5
  <2>2. Times'[i] \in 0 .. now
    BY <1>3, ElementOfSeq DEF Entry
  <2>3. Window <= Interval + Backoff
    BY <1>2, <1>4, <2>1
  <2>4. ASSUME NEW t \in 0 .. now PROVE t + Window <= now + Backoff + Interval
    BY <1>2, <1>4, <2>3
  <2>5. Times'[i] + Window <= now + Backoff + Interval
    BY <2>2, <2>4
  <2> QED
    BY <2>1, <2>5
<1> QED
  BY <1>1, <1>6, <1>7 DEF ReporterInvariant, AnnouncedSuffices

(* A wait of a second up to the window is one that the agent takes.        *)
LEMMA WaitIsTaken ==
    ASSUME NEW from \in Nat, NEW to \in from + 1 .. from + Window
    PROVE  to - from \in Nat /\ to = from + (to - from) /\ RetryAfter(to - from) = to - from
<1>1. Hour \in Nat /\ Window \in Nat /\ Window <= Hour
  BY ReporterAssumption DEF Hour
<1>2. to - from \in 0 .. Hour /\ to - from \in Nat /\ to = from + (to - from)
  BY <1>1
<1> QED
  BY <1>2 DEF RetryAfter

LEMMA RateLimitedKeeps ==
    ASSUME ReporterInvariant, RateLimited
    PROVE  ReporterInvariant'
<1> DEFINE at == promise'[Node]
           wait == at - now
<1>1. /\ TypeOK /\ Limiter!Allow(Node) /\ UNCHANGED stored
      /\ Retry(RetryAfter(wait)) /\ told' = at
  BY DEF ReporterInvariant, RateLimited
<1>2. /\ now \in Nat /\ Interval \in Nat /\ Window \in Nat
      /\ Attempts \in Nat
  BY <1>1, Typed, ReporterAssumption
<1>3. now' = now /\ Limiter!TypeOK' /\ stored' \in 0 .. 2
  BY <1>1, RequestTyped
<1>4. /\ at \in now + 1 .. now + Window
      /\ attempt = Attempts - 1 => at <= now + Interval
      /\ Node \in DOMAIN events' /\ Len(events'[Node]) >= 1
      /\ events'[Node][1] + Window <= at
  BY RefusalNearby
<1> HIDE DEF at
<1>5. RetryAfter(wait) = wait /\ wait \in Nat /\ at = now + wait
  BY <1>2, <1>4, WaitIsTaken
<1> HIDE DEF wait
<1>6. /\ pc' \in {"send", "interval"} /\ attempt' \in 0 .. Attempts - 1
      /\ wake' \in Nat /\ now <= wake'
      /\ attempt = Attempts - 1 => wake' = now + Interval
      /\ attempt # Attempts - 1 => wake' = now + wait
  <2>1. Retry(wait)
    BY <1>1, <1>5
  <2> QED
    BY <1>1, <1>5, <2>1, RetrySets
<1>7. told' \in Nat /\ told' # 0 /\ told' <= wake'
  BY <1>1, <1>2, <1>4, <1>5, <1>6
<1>8. TypeOK'
  BY <1>3, <1>6, <1>7 DEF TypeOK
<1> QED
  BY <1>1, <1>4, <1>7, <1>8 DEF ReporterInvariant, AnnouncedSuffices, LastAttempt

(* The invariant holds.                                                    *)
THEOREM ReporterInvariantHolds == Spec => []ReporterInvariant
<1>1. Init => ReporterInvariant
  <2> SUFFICES ASSUME Init PROVE ReporterInvariant
    OBVIOUS
  <2>1. /\ now = 0 /\ events = << >> /\ promise = [k \in Keys |-> 0]
        /\ answer = [key |-> CHOOSE k \in Keys : TRUE, ok |-> TRUE]
        /\ pc = "sample" /\ attempt = 0 /\ wake = 0 /\ told = 0 /\ stored = 0
    BY DEF Init, Limiter!Init
  <2>2. (CHOOSE k \in Keys : TRUE) \in Keys
    BY DEF Keys
  <2>3. Limiter!TypeOK
    BY <2>1, <2>2 DEF Limiter!TypeOK
  <2>4. TypeOK
    BY <2>1, <2>3, ReporterAssumption DEF TypeOK
  <2> QED
    BY <2>1, <2>4 DEF ReporterInvariant, AnnouncedSuffices, LastAttempt
<1>2. ReporterInvariant /\ [Next]_vars => ReporterInvariant'
  <2> SUFFICES ASSUME ReporterInvariant, [Next]_vars PROVE ReporterInvariant'
    OBVIOUS
  <2>1. CASE Advance
    BY <2>1, AdvanceKeeps
  <2>2. CASE Sample \/ EndInterval \/ Unauthorized
    BY <2>2, LoopKeeps
  <2>3. CASE SendFails \/ Recorded
    BY <2>3, OutcomeKeeps
  <2>4. CASE ServerError
    BY <2>4, ServerErrorKeeps
  <2>5. CASE RateLimited
    BY <2>5, RateLimitedKeeps
  <2>6. CASE UNCHANGED vars
    <3>1. /\ UNCHANGED limiter /\ events' = events /\ now' = now
          /\ pc' = pc /\ attempt' = attempt /\ wake' = wake /\ told' = told
          /\ stored' = stored
      BY <2>6 DEF vars, limiter
    <3>2. TypeOK /\ now \in Nat
      BY Typed DEF ReporterInvariant
    <3>3. Limiter!TypeOK' /\ Times' = Times
      BY <3>1, <3>2, Quiet
    <3> QED
      BY <3>1, <3>3 DEF ReporterInvariant, TypeOK, AnnouncedSuffices, LastAttempt
  <2> QED
    BY <2>1, <2>2, <2>3, <2>4, <2>5, <2>6 DEF Next, Act
<1> QED
  BY <1>1, <1>2, PTL DEF Spec

(* Every reachable state is well typed.                                    *)
THEOREM TypeCorrect == Spec => []TypeOK
BY ReporterInvariantHolds, PTL DEF ReporterInvariant

(* A 429 is obeyed: the agent sleeps past the time it announced, also when *)
(* its attempts ran out and the next report is due after the interval.     *)
THEOREM ObeysRetryAfter == Spec => RetryAfterObeyed
<1>1. ReporterInvariant /\ [Next]_vars => [Act /\ pc = "send" => now >= told]_vars
  <2> SUFFICES ASSUME ReporterInvariant, Act, pc = "send" PROVE now >= told
    OBVIOUS
  <2>1. told <= wake /\ told \in Nat /\ wake \in Nat /\ now \in Nat
    BY Typed DEF ReporterInvariant
  <2>2. now = wake
    BY DEF Act, Sample, EndInterval, SendFails, Unauthorized, RateLimited, Recorded,
           ServerError, Sending, Awake
  <2> QED
    BY <2>1, <2>2
<1> QED
  BY <1>1, ReporterInvariantHolds, PTL DEF Spec, RetryAfterObeyed

(* A 429 never follows another: the announced time suffices, and the last  *)
(* attempt of a report is refused for an interval at most.                 *)
THEOREM RefusedOnceAtMost == Spec => NeverRefusedTwice
<1>1. ReporterInvariant /\ [Next]_vars => [RateLimited => told = 0]_vars
  BY NotRefusedAgain
<1> QED
  BY <1>1, ReporterInvariantHolds, PTL DEF Spec, NeverRefusedTwice

=============================================================================
