------------------------ MODULE SlidingWindowLimiter ------------------------
(***************************************************************************)
(* The rate limiter of the ingest and enrollment endpoints (ingest.go).    *)
(* Every call holds the mutex, so it is one step; the clock is read under  *)
(* it.  A key's entry is the sequence of its granted times; Check leaves   *)
(* an empty entry behind for a key with none, and the next call prunes it  *)
(* (no handler calls Check today).                                         *)
(* An operator X_Y is X with a plausible bug: Next never uses it.          *)
(***************************************************************************)
EXTENDS Integers, Sequences, FiniteSetsExt

CONSTANTS
    Keys,      \* source addresses or node ids
    MaxKeys,   \* maxSlidingWindowKeys
    Limit,
    Window,    \* in ticks of the clock
    Second,    \* ticks in a second: Retry-After counts whole seconds
    MaxTime    \* bound on the clock, for TLC

ASSUME LimiterAssumption ==
    /\ Keys # {} /\ IsFiniteSet(Keys)
    /\ {MaxKeys, Limit, Window, Second} \subseteq Nat \ {0}
    /\ MaxTime \in Nat

VARIABLES
    now,
    events,    \* the map: key -> times of its grants, oldest first
    answer,    \* the last answer: [key, ok]
    promise    \* per key, when the last refusal told it to come back; 0: none

vars == <<now, events, answer, promise>>

Init ==
    /\ now = 0
    /\ events = << >>
    /\ answer = [key |-> CHOOSE k \in Keys : TRUE, ok |-> TRUE]
    /\ promise = [k \in Keys |-> 0]

-----------------------------------------------------------------------------
Expired_OffByOne(t) == t < now - Window
Expired(t) == t <= now - Window

Recent(times) ==                       \* drop the expired prefix
    LET live == {i \in DOMAIN times : ~Expired(times[i])} IN
    IF live = {} THEN << >> ELSE SubSeq(times, Min(live), Len(times))

Of(map, k) == IF k \in DOMAIN map THEN map[k] ELSE << >>

Pruned == [k \in {k \in DOMAIN events : Recent(events[k]) # << >>} |-> Recent(events[k])]

Put(map, k, times) == [j \in DOMAIN map \cup {k} |-> IF j = k THEN times ELSE map[j]]

(* Go walks the map in any order: any key whose first grant is the oldest. *)
Evictions(map) ==
    {k \in DOMAIN map : \A j \in DOMAIN map : map[k][1] <= map[j][1]}
Without(map, k) == [j \in DOMAIN map \ {k} |-> map[j]]

MakeRoom_Never(map, k) == {map}
MakeRoom(map, k) ==
    IF k \notin DOMAIN map /\ Cardinality(DOMAIN map) >= MaxKeys
    THEN {Without(map, old) : old \in Evictions(map)} ELSE {map}

(* The header of HandleReport and HandleEnroll: whole seconds, at least 1. *)
RetryAfterSeconds_Floor(wait) == Max({1, wait \div Second})
RetryAfterSeconds(wait) == Max({1, (wait + Second - 1) \div Second})

Refusal(map, k) ==
    /\ events' = map
    /\ answer' = [key |-> k, ok |-> FALSE]
    /\ promise' = [promise EXCEPT ![k] =
                     now + Second * RetryAfterSeconds(map[k][1] + Window - now)]

Refused_CountsAnyway(map, k) ==
    /\ Len(Of(map, k)) >= Limit
    /\ Refusal(Put(map, k, Append(map[k], now)), k)
Refused(map, k) ==
    /\ Len(Of(map, k)) >= Limit
    /\ Refusal(map, k)

Granted(map, k) ==
    /\ Len(Of(map, k)) < Limit
    /\ events' = Put(map, k, Append(Of(map, k), now))
    /\ answer' = [key |-> k, ok |-> TRUE]
    /\ promise' = [promise EXCEPT ![k] = 0]

Allow(k) ==
    /\ \E map \in MakeRoom(Pruned, k) : Refused(map, k) \/ Granted(map, k)
    /\ UNCHANGED now

Check(k) ==
    /\ \/ Refused(Pruned, k)
       \/ /\ Len(Of(Pruned, k)) < Limit
          /\ events' = Put(Pruned, k, Of(Pruned, k))
          /\ answer' = [key |-> k, ok |-> TRUE]
          /\ UNCHANGED promise
    /\ UNCHANGED now

Tick ==
    /\ now < MaxTime
    /\ now' = now + 1
    /\ UNCHANGED <<events, answer, promise>>

Next == Tick \/ \E k \in Keys : Allow(k) \/ Check(k)

Spec == Init /\ [][Next]_vars

-----------------------------------------------------------------------------
(* Every variable has its type: an entry lists at most Limit grants of the *)
(* past, oldest first.                                                     *)
TypeOK ==
    /\ now \in Nat
    /\ DOMAIN events \subseteq Keys
    /\ \A k \in DOMAIN events :
         /\ events[k] \in Seq(0 .. now) /\ Len(events[k]) <= Limit
         /\ \A i, j \in DOMAIN events[k] : i <= j => events[k][i] <= events[k][j]
    /\ answer \in [key : Keys, ok : BOOLEAN]
    /\ promise \in [Keys -> Nat]

(* Memory stays bounded: at most MaxKeys keys hold grants, however many    *)
(* sources call; Check can add empty entries, which the next call drops.   *)
KeysBounded == Cardinality({k \in DOMAIN events : events[k] # << >>}) <= MaxKeys

(* The Retry-After a 429 carries is enough: a client that waits the        *)
(* announced seconds and had no grant meanwhile is not refused again.      *)
RetryAfterSuffices ==
    \A k \in Keys : promise[k] # 0 /\ now >= promise[k] =>
        Len(Recent(Of(events, k))) < Limit

(* The pruning map answers as a limiter that remembers exactly the last    *)
(* Window, and forgets sooner only the oldest key of a full map.           *)
Remembered == [k \in Keys |-> Recent(Of(events, k))]
Limiter == INSTANCE RateLimit WITH granted <- Remembered
ImplementsRateLimit == Limiter!Spec
=============================================================================
