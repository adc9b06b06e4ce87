------------------------ MODULE CertificateLifecycle ------------------------
(***************************************************************************)
(* What the registry promises about the credentials of a node, with no     *)
(* handler, code, clock or table in sight: a node enrols once, holds at    *)
(* most one live credential, renewal swaps it for one never used before,   *)
(* and closing or removing the node ends it for good.  Registry implements *)
(* this under the mapping given there.                                     *)
(***************************************************************************)
EXTENDS Integers

CONSTANTS Nodes, Serials, None

VARIABLES
    phase,    \* "unborn", "open", "closed" or "removed"
    cred,     \* the live credential of each node, or None
    revoked   \* the credentials an existing node has had before

vars == <<phase, cred, revoked>>

Init ==
    /\ phase = [n \in Nodes |-> "unborn"]
    /\ cred = [n \in Nodes |-> None]
    /\ revoked = [n \in Nodes |-> {}]

New(s) == \A n \in Nodes : s # cred[n] /\ s \notin revoked[n]
Spent(n) == revoked[n] \cup ({cred[n]} \ {None})

Register(n) ==
    /\ phase[n] = "unborn"
    /\ phase' = [phase EXCEPT ![n] = "open"]
    /\ UNCHANGED <<cred, revoked>>

Enroll(n, s) ==
    /\ phase[n] = "open" /\ Spent(n) = {} /\ New(s)
    /\ cred' = [cred EXCEPT ![n] = s]
    /\ UNCHANGED <<phase, revoked>>

Renew(n, s) ==
    /\ phase[n] = "open" /\ cred[n] # None /\ New(s)
    /\ cred' = [cred EXCEPT ![n] = s]
    /\ revoked' = [revoked EXCEPT ![n] = Spent(n)]
    /\ UNCHANGED phase

Close(n) ==
    /\ phase[n] = "open"
    /\ phase' = [phase EXCEPT ![n] = "closed"]
    /\ cred' = [cred EXCEPT ![n] = None]
    /\ revoked' = [revoked EXCEPT ![n] = Spent(n)]

Remove(n) ==
    /\ phase[n] \in {"open", "closed"}
    /\ phase' = [phase EXCEPT ![n] = "removed"]
    /\ cred' = [cred EXCEPT ![n] = None]
    /\ revoked' = [revoked EXCEPT ![n] = {}]

Next ==
    \E n \in Nodes :
        \/ Register(n) \/ Close(n) \/ Remove(n)
        \/ \E s \in Serials : Enroll(n, s) \/ Renew(n, s)

Spec == Init /\ [][Next]_vars
=============================================================================
