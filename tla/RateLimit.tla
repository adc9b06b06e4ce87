------------------------------ MODULE RateLimit ------------------------------
(***************************************************************************)
(* What a rate limiter with bounded memory promises: a key is granted      *)
(* exactly while it had fewer than Limit grants in the last Window, a      *)
(* refusal costs nothing, and a grant is forgotten early only to make room *)
(* for a new key when MaxKeys keys hold grants, the longest-held first.    *)
(***************************************************************************)
EXTENDS Integers, Sequences, FiniteSets

CONSTANTS Keys, MaxKeys, Limit, Window, MaxTime

VARIABLES
    now,
    granted,   \* key -> times of its grants in the last Window
    answer     \* the last answer: [key, ok]

vars == <<now, granted, answer>>

Init ==
    /\ now = 0
    /\ granted = [k \in Keys |-> << >>]
    /\ answer = [key |-> CHOOSE k \in Keys : TRUE, ok |-> TRUE]

Held == {k \in Keys : granted[k] # << >>}
Crowded(k) == granted[k] = << >> /\ Cardinality(Held) >= MaxKeys
MayForget(k, old) ==
    Crowded(k) /\ old \in Held /\ \A j \in Held : granted[old][1] <= granted[j][1]

Grant(k) ==
    /\ Len(granted[k]) < Limit
    /\ \/ /\ ~Crowded(k)
          /\ granted' = [granted EXCEPT ![k] = Append(@, now)]
       \/ \E old \in Held :
            /\ MayForget(k, old)
            /\ granted' = [granted EXCEPT ![old] = << >>, ![k] = <<now>>]
    /\ answer' = [key |-> k, ok |-> TRUE]
    /\ UNCHANGED now

Refuse(k) ==
    /\ Len(granted[k]) = Limit
    /\ answer' = [key |-> k, ok |-> FALSE]
    /\ UNCHANGED <<now, granted>>

(* Asking without taking. *)
Peek(k) ==
    /\ answer' = [key |-> k, ok |-> Len(granted[k]) < Limit]
    /\ UNCHANGED <<now, granted>>

(* Of the grants held one tick ago those of the last Window are left. *)
Aged(held, left) ==
    \E n \in 0 .. Len(held) :
        /\ left = SubSeq(held, n + 1, Len(held))
        /\ \A i \in 1 .. Len(held) : i <= n <=> held[i] <= now + 1 - Window

Tick ==
    /\ now < MaxTime
    /\ now' = now + 1
    /\ DOMAIN granted' = Keys /\ \A k \in Keys : Aged(granted[k], granted'[k])
    /\ UNCHANGED answer

Next == Tick \/ \E k \in Keys : Grant(k) \/ Refuse(k) \/ Peek(k)

Spec == Init /\ [][Next]_vars
=============================================================================
