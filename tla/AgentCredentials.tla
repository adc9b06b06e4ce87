-------------------------- MODULE AgentCredentials --------------------------
(***************************************************************************)
(* One node's agent and the server, seen from the agent's credentials:     *)
(* ensureCredentials and Enroll (key, certificate and CA files), the       *)
(* renewal hook and the report loop of cmd/probe-agent, each file write    *)
(* and each request a step, with answers lost, crashes between two writes, *)
(* and systemd's Restart=always.  The server answers a request in one step *)
(* as Registry shows it may.  The agent has its own clock.  A tick is the  *)
(* resolution of the database; the times of X.509 are whole seconds.       *)
(* An operator X_Y is X with a plausible bug: Next never uses it.          *)
(***************************************************************************)
EXTENDS Integers, FiniteSets

CONSTANTS
    Skews,         \* agent clock minus server clock
    Second,        \* ticks of a second
    Backdate,      \* the five minutes by which NotBefore precedes the issue
    CodeTTL, CertTTL,
    RenewWindow,   \* certificateRenewalWindow, the same on both sides
    CheckPeriod,   \* the hour between two looks at the certificate
    MaxSerial,     \* bound on certificates issued, for TLC
    MaxTime        \* bound on the clock, for TLC

ASSUME CredentialsAssumption ==
    /\ Skews \subseteq Int
    /\ Second \in Nat \ {0}
    /\ {Backdate, CodeTTL, CertTTL, RenewWindow, CheckPeriod, MaxSerial, MaxTime} \subseteq Nat

VARIABLES
    now,      \* server clock
    skew,
    disk,     \* the credential files: [key, cert, ca]; key 0 and NoCert: absent
    keys,     \* private keys generated so far
    agent,    \* the process: [pc, client, next, got]
    issued,   \* certificates the server has persisted
    revoked,  \* their serials that are revoked
    result,   \* the enrollment_results row of the code, or NoCert
    disabled  \* the node's flag

server == <<issued, revoked, result, disabled>>
vars == <<now, skew, disk, keys, agent, issued, revoked, result, disabled>>

NoCert == [serial |-> 0, key |-> 0, notBefore |-> 0, notAfter |-> 0, exp |-> 0]
Down == [pc |-> "down", client |-> NoCert, next |-> 0, got |-> NoCert]
AgentNow == now + skew

Init ==
    /\ now = 0 /\ skew \in Skews
    /\ disk = [key |-> 0, cert |-> NoCert, ca |-> FALSE]
    /\ keys = 0
    /\ agent = Down
    /\ issued = {} /\ revoked = {} /\ result = NoCert /\ disabled = FALSE

-----------------------------------------------------------------------------
At(pc) == agent.pc = pc
Go(pc) == agent' = [agent EXCEPT !.pc = pc]
Exit == agent' = Down

Complete == disk.key # 0 /\ disk.cert # NoCert /\ disk.ca
Unregistered == disk.cert = NoCert /\ ~disk.ca

Accepted(c) ==                            \* NodeForCertificate
    c \in issued /\ c.serial \notin revoked /\ ~disabled /\ now < c.exp

(* The certificate the agent gets has its times cut to whole seconds; the  *)
(* row of the server keeps exp, which the agent never sees.                *)
WholeSeconds(t) == t - (t % Second)

Fresh_Backdated(key) ==
    [serial |-> Cardinality(issued) + 1, key |-> key,
     notBefore |-> WholeSeconds(now - Backdate), notAfter |-> WholeSeconds(now - CertTTL),
     exp |-> now - CertTTL]
Fresh(key) ==
    [serial |-> Cardinality(issued) + 1, key |-> key,
     notBefore |-> WholeSeconds(now - Backdate), notAfter |-> WholeSeconds(now + CertTTL),
     exp |-> now + CertTTL]
CanIssue == Cardinality(issued) < MaxSerial

(* verifyEnrollmentMaterial, on the agent's clock. *)
Verified(c) ==
    c.key = disk.key /\ c.notBefore <= AgentNow /\ AgentNow <= c.notAfter

-----------------------------------------------------------------------------
(* main and ensureCredentials.  With some but not all files the agent logs *)
(* "agent credentials are incomplete" and exits: it stays down.            *)
StartRegistered ==
    /\ At("down") /\ Complete
    /\ agent' = [Down EXCEPT !.pc = "check", !.client = disk.cert]
    /\ UNCHANGED <<now, skew, disk, keys, server>>

StartUnregistered ==                      \* loadOrCreatePrivateKey
    /\ At("down") /\ Unregistered
    /\ IF disk.key = 0
       THEN keys' = keys + 1 /\ disk' = [disk EXCEPT !.key = keys + 1]
       ELSE UNCHANGED <<keys, disk>>
    /\ Go("enroll")
    /\ UNCHANGED <<now, skew, server>>

(* POST /v1/enroll with the one code of the node, valid until CodeTTL.     *)
ServeEnrollment_NoReplay ==
    /\ At("enroll")
    /\ result = NoCert /\ now < CodeTTL /\ ~disabled /\ CanIssue
    /\ result' = Fresh(disk.key)
    /\ issued' = issued \cup {result'}
    /\ agent' = [agent EXCEPT !.pc = "enrolled", !.got = result']
    /\ UNCHANGED <<now, skew, disk, keys, revoked, disabled>>
ServeEnrollment ==
    /\ At("enroll")
    /\ \/ /\ result = NoCert
          /\ now < CodeTTL /\ ~disabled /\ CanIssue
          /\ result' = Fresh(disk.key)
          /\ issued' = issued \cup {result'}
          /\ agent' = [agent EXCEPT !.pc = "enrolled", !.got = result']
       \/ /\ result # NoCert /\ result.key = disk.key /\ Accepted(result)
          /\ agent' = [agent EXCEPT !.pc = "enrolled", !.got = result]
          /\ UNCHANGED <<result, issued>>
    /\ UNCHANGED <<now, skew, disk, keys, revoked, disabled>>

(* Any other outcome of Enroll is an error, and the process exits.         *)
EnrollmentFails ==
    /\ At("enroll") \/ At("enrolled")
    /\ Exit
    /\ UNCHANGED <<now, skew, disk, keys, server>>

ReceiveEnrollment_CAFirst ==
    /\ At("enrolled") /\ Verified(agent.got)
    /\ Go("writeCA")
    /\ UNCHANGED <<now, skew, disk, keys, server>>
ReceiveEnrollment ==
    /\ At("enrolled") /\ Verified(agent.got)
    /\ Go("writeCert")
    /\ UNCHANGED <<now, skew, disk, keys, server>>

WriteCert ==
    /\ At("writeCert")
    /\ disk' = [disk EXCEPT !.cert = agent.got]
    /\ Go("writeCA")
    /\ UNCHANGED <<now, skew, keys, server>>

WriteCA ==
    /\ At("writeCA")
    /\ disk' = [disk EXCEPT !.ca = TRUE]
    /\ agent' = [Down EXCEPT !.pc = "check", !.client = disk.cert]
    /\ UNCHANGED <<now, skew, keys, server>>

-----------------------------------------------------------------------------
(* BeforeReport: RenewIfDue at most once per period, whatever it returned. *)
RenewalDue_PeriodEarly == disk.cert.notAfter <= AgentNow + RenewWindow + CheckPeriod
RenewalDue == disk.cert.notAfter <= AgentNow + RenewWindow

SkipRenewal ==
    /\ At("check")
    /\ \/ AgentNow < agent.next /\ Go("report")
       \/ /\ AgentNow >= agent.next /\ ~RenewalDue
          /\ agent' = [agent EXCEPT !.pc = "report", !.next = AgentNow + CheckPeriod]
    /\ UNCHANGED <<now, skew, disk, keys, server>>

AskRenewal ==
    /\ At("check") /\ AgentNow >= agent.next
    /\ RenewalDue /\ AgentNow < disk.cert.notAfter
    /\ agent' = [agent EXCEPT !.pc = "renew", !.next = AgentNow + CheckPeriod]
    /\ UNCHANGED <<now, skew, disk, keys, server>>

FindsExpired ==                           \* ErrAuthentication, no request
    /\ At("check") /\ AgentNow >= agent.next /\ AgentNow >= disk.cert.notAfter
    /\ Exit
    /\ UNCHANGED <<now, skew, disk, keys, server>>

MayRenew(c) == Accepted(c) /\ now >= c.exp - RenewWindow

ServeRenewal_RevokesNew ==
    /\ At("renew") /\ MayRenew(agent.client) /\ CanIssue
    /\ issued' = issued \cup {Fresh(disk.key)}
    /\ revoked' = revoked \cup {Fresh(disk.key).serial}
    /\ agent' = [agent EXCEPT !.pc = "renewed", !.got = Fresh(disk.key)]
    /\ UNCHANGED <<now, skew, disk, keys, result, disabled>>
ServeRenewal ==                           \* POST /v1/certificates/renew
    /\ At("renew") /\ MayRenew(agent.client) /\ CanIssue
    /\ issued' = issued \cup {Fresh(disk.key)}
    /\ revoked' = revoked \cup {agent.client.serial}
    /\ agent' = [agent EXCEPT !.pc = "renewed", !.got = Fresh(disk.key)]
    /\ UNCHANGED <<now, skew, disk, keys, result, disabled>>

(* 401 is ErrAuthentication: the process exits. *)
RefuseRenewal ==
    /\ At("renew") /\ ~MayRenew(agent.client)
    /\ Exit
    /\ UNCHANGED <<now, skew, disk, keys, server>>

(* Request or answer lost, 5xx, unusable answer: logged, and on to report. *)
RenewalFails ==
    /\ At("renew") \/ At("renewed")
    /\ agent' = [agent EXCEPT !.pc = "report", !.got = NoCert]
    /\ UNCHANGED <<now, skew, disk, keys, server>>

SaveRenewal ==
    /\ At("renewed") /\ Verified(agent.got)
    /\ disk' = [disk EXCEPT !.cert = agent.got]
    /\ Go("reload")
    /\ UNCHANGED <<now, skew, keys, server>>

Reload ==                                 \* NewMTLSClient from the files
    /\ At("reload")
    /\ \E client \in {disk.cert, agent.client} :   \* the old one if it fails
         agent' = [agent EXCEPT !.pc = "report", !.client = client, !.got = NoCert]
    /\ UNCHANGED <<now, skew, disk, keys, server>>

-----------------------------------------------------------------------------
Report ==                                 \* answered 2xx, 429, 5xx or lost
    /\ At("report")
    /\ Go("check")
    /\ UNCHANGED <<now, skew, disk, keys, server>>

RefuseReport ==
    /\ At("report") /\ ~Accepted(agent.client)
    /\ Exit
    /\ UNCHANGED <<now, skew, disk, keys, server>>

(* The process or its host dies at any point; systemd starts it again.     *)
Crash ==
    /\ ~At("down")
    /\ Exit
    /\ UNCHANGED <<now, skew, disk, keys, server>>

DisableNode ==
    /\ ~disabled
    /\ disabled' = TRUE
    /\ revoked' = {c.serial : c \in issued}
    /\ UNCHANGED <<now, skew, disk, keys, agent, issued, result>>

Tick ==
    /\ now < MaxTime
    /\ now' = now + 1
    /\ UNCHANGED <<skew, disk, keys, agent, server>>

Start == StartRegistered \/ StartUnregistered
Renew == SkipRenewal \/ AskRenewal \/ FindsExpired \/ SaveRenewal \/ Reload
Next ==
    \/ Start
    \/ ServeEnrollment \/ EnrollmentFails \/ ReceiveEnrollment \/ WriteCert \/ WriteCA
    \/ Renew \/ ServeRenewal \/ RefuseRenewal \/ RenewalFails
    \/ Report \/ RefuseReport
    \/ Crash \/ DisableNode \/ Tick

Spec == Init /\ [][Next]_vars

(* systemd starts a stopped agent, the agent keeps going, and the network  *)
(* delivers a request or an answer that is tried over and over.  Nothing   *)
(* is assumed of the clock: expiry is no way out of a liveness property.   *)
Fairness ==
    /\ WF_vars(Start)
    /\ SF_vars(ServeEnrollment) /\ SF_vars(ReceiveEnrollment)
    /\ SF_vars(WriteCert) /\ SF_vars(WriteCA)
    /\ WF_vars(Renew) /\ SF_vars(ServeRenewal) /\ SF_vars(SaveRenewal)
    /\ WF_vars(Report) /\ WF_vars(RefuseReport \/ RefuseRenewal)

FairSpec == Spec /\ Fairness

-----------------------------------------------------------------------------
Serial == 0 .. MaxSerial
Cert == [serial : Serial, key : Nat, notBefore : Int, notAfter : Nat, exp : Nat]

(* Every variable has its type. *)
TypeOK ==
    /\ now \in Nat /\ skew \in Skews /\ keys \in Nat
    /\ disk \in [key : Nat, cert : Cert, ca : BOOLEAN]
    /\ agent \in [pc : {"down", "enroll", "enrolled", "writeCert", "writeCA", "check",
                        "renew", "renewed", "reload", "report"},
                  client : Cert, next : Int, got : Cert]
    /\ issued \subseteq Cert /\ revoked \subseteq Serial
    /\ result \in Cert /\ disabled \in BOOLEAN

(* Whatever write a crash falls between, the files on disk fit together:   *)
(* the certificate is one the server persisted for the key beside it.      *)
FilesFit ==
    /\ disk.ca => disk.cert # NoCert
    /\ disk.cert # NoCert => disk.cert \in issued /\ disk.cert.key = disk.key

(* Of two certificates of the agent one is always revoked: the server's    *)
(* live one is on the agent's disk or newer than the file, and a process   *)
(* that goes on with another certificate than its file holds one that is   *)
(* revoked, so that it is refused, restarted, and reads the file.          *)
StaleIsRevoked ==
    /\ disk.cert # NoCert =>
         \A c \in issued : c.serial \notin revoked => c.serial >= disk.cert.serial
    /\ agent.pc \in {"check", "renew", "report"} =>
         agent.client = disk.cert \/ agent.client.serial \in revoked

(* A lost answer or a crash does not strand an enrollment the server has   *)
(* committed: the restarted agent ends up with all its files, unless the   *)
(* node was disabled, the certificate expired, or the agent died between   *)
(* the certificate and the CA and reports its files incomplete.            *)
EnrollmentNotStranded ==
    result # NoCert /\ AgentNow >= result.notBefore ~>
        \/ Complete
        \/ disabled \/ AgentNow >= result.notAfter \/ now >= result.exp
        \/ disk.cert # NoCert /\ ~disk.ca

(* Agent and server draw the renewal window by different expiries and      *)
(* different clocks (renewal.go:57, store.go:354), so that the server may  *)
(* answer 401 to a certificate it accepts and the agent exits.  It does so *)
(* only before the instant its own window opens, and by less than the cut  *)
(* of a second plus what the agent's clock is ahead: a clock a second slow *)
(* is never refused, a right one is within that second.                    *)
RefusedOnlyWhenEarly ==
    [][RefuseRenewal /\ Accepted(agent.client) =>
         agent.client.exp - RenewWindow - now \in 1 .. Second - 1 + skew]_vars

(* README.md:181: the agent "renews its 30-day client certificate when it  *)
(* enters the final seven days".  A renewal whose answer is lost, or that  *)
(* a crash precedes the saving of, revokes the only certificate the agent  *)
(* has: its node is enabled, but it can neither report nor renew again.    *)
RenewalNeverLocksOut ==
    Complete /\ ~disabled /\ now < disk.cert.exp /\ agent.pc \in {"check", "report", "down"}
        => Accepted(disk.cert)
=============================================================================
