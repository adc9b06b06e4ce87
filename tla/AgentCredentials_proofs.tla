---------------------- MODULE AgentCredentials_proofs ----------------------
(***************************************************************************)
(* Theorems about AgentCredentials, for any clock skew, resolution of the  *)
(* clocks, validity, renewal window and number of renewals.                *)
(***************************************************************************)
EXTENDS AgentCredentials, FiniteSetTheorems, TLAPS

(* Serials count the certificates issued; the first is the enrollment's.   *)
SerialsInOrder ==
    /\ IsFiniteSet(issued)
    /\ \A c \in issued : c.serial \in 1 .. Cardinality(issued)
    /\ revoked \subseteq {c.serial : c \in issued}
    /\ result = NoCert => issued = {}

(* Renewal revokes what it replaces: only the newest can be live.          *)
OnlyNewestLive ==
    \A c \in issued : c.serial \notin revoked => c.serial = Cardinality(issued)

(* What the agent sees of an expiry is less than a second before it.       *)
LessThanASecondCut ==
    \A c \in issued : c.notAfter <= c.exp /\ c.exp < c.notAfter + Second

(* An answer the agent still has to save is a certificate the server has   *)
(* persisted, and was checked against the key file before it is written.   *)
AnswerIsIssued ==
    /\ At("enrolled") \/ At("writeCert") \/ At("renewed") => agent.got \in issued
    /\ At("writeCert") => agent.got.key = disk.key
    /\ At("writeCA") => disk.cert # NoCert

(* A running agent identifies itself with the certificate on its disk, or  *)
(* with one a renewal has revoked.                                         *)
ClientIsCurrent ==
    /\ At("check") \/ At("renew") \/ At("report") =>
         agent.client = disk.cert \/ agent.client.serial \in revoked
    /\ At("renewed") \/ At("reload") => agent.client.serial \in revoked

(* It asks for a renewal once its own clock has reached the window.        *)
AskedWhenDue == At("renew") => RenewalDue

(* The inductive invariant of the agent's files and the server's rows.     *)
CredentialsInvariant ==
    /\ TypeOK
    /\ SerialsInOrder
    /\ OnlyNewestLive
    /\ LessThanASecondCut
    /\ AnswerIsIssued
    /\ FilesFit
    /\ ClientIsCurrent
    /\ AskedWhenDue

-----------------------------------------------------------------------------
AgentState == [pc : {"down", "enroll", "enrolled", "writeCert", "writeCA", "check",
                     "renew", "renewed", "reload", "report"},
               client : Cert, next : Int, got : Cert]

(* The records of the model are what their fields say.                     *)
LEMMA Fields ==
    ASSUME TypeOK
    PROVE  /\ now \in Nat /\ skew \in Int /\ AgentNow \in Int /\ CertTTL \in Nat
           /\ RenewWindow \in Nat /\ MaxSerial \in Nat /\ Backdate \in Nat
           /\ Second \in Nat \ {0} /\ CheckPeriod \in Nat
           /\ agent \in AgentState
           /\ agent = [pc |-> agent.pc, client |-> agent.client, next |-> agent.next,
                       got |-> agent.got]
           /\ disk = [key |-> disk.key, cert |-> disk.cert, ca |-> disk.ca]
           /\ disk.key \in Nat /\ disk.cert \in Cert /\ disk.ca \in BOOLEAN
           /\ keys \in Nat
           /\ NoCert \in Cert /\ Down \in AgentState
           /\ \A c \in Cert : c.serial \in Nat /\ c.notAfter \in Nat /\ c.exp \in Nat
<1>1. /\ now \in Nat /\ skew \in Int /\ CertTTL \in Nat /\ keys \in Nat
      /\ RenewWindow \in Nat /\ MaxSerial \in Nat /\ Backdate \in Nat
      /\ Second \in Nat \ {0} /\ CheckPeriod \in Nat
  BY CredentialsAssumption DEF TypeOK
<1>2. agent \in AgentState /\ disk \in [key : Nat, cert : Cert, ca : BOOLEAN]
  BY DEF TypeOK, AgentState
<1>3. NoCert \in Cert
  BY <1>1 DEF NoCert, Cert, Serial
<1>4. Down \in AgentState
  BY <1>3 DEF Down, AgentState
<1>5. \A c \in Cert : c.serial \in Nat /\ c.notAfter \in Nat /\ c.exp \in Nat
  BY <1>1 DEF Cert, Serial
<1> QED
  BY <1>1, <1>2, <1>3, <1>4, <1>5 DEF AgentNow, AgentState

(* A time cut to whole seconds is a time, earlier by less than a second.   *)
LEMMA CutToSeconds ==
    ASSUME NEW t \in Int
    PROVE  /\ WholeSeconds(t) \in Int
           /\ WholeSeconds(t) <= t /\ t < WholeSeconds(t) + Second
           /\ t \in Nat => WholeSeconds(t) \in Nat
<1>1. Second \in Nat \ {0}
  BY CredentialsAssumption
<1>2. t % Second \in 0 .. Second - 1
  BY <1>1
<1>3. t \in Nat => t % Second <= t
  BY <1>1
<1> QED
  BY <1>1, <1>2, <1>3 DEF WholeSeconds

(* A certificate the server issues now is new, and the newest.             *)
LEMMA FreshIsNew ==
    ASSUME TypeOK, SerialsInOrder, CanIssue, NEW key \in Nat
    PROVE  /\ Fresh(key) \in Cert /\ Fresh(key).key = key
           /\ Fresh(key).notAfter <= Fresh(key).exp
           /\ Fresh(key).exp < Fresh(key).notAfter + Second
           /\ Fresh(key).serial = Cardinality(issued) + 1
           /\ Cardinality(issued) \in Nat
           /\ Cardinality(issued \cup {Fresh(key)}) = Cardinality(issued) + 1
           /\ IsFiniteSet(issued \cup {Fresh(key)})
           /\ Fresh(key).serial \notin revoked
<1> DEFINE N == Cardinality(issued)
<1>1. N \in Nat /\ IsFiniteSet(issued)
  BY FS_CardinalityType DEF SerialsInOrder
<1>2. /\ N + 1 \in Serial /\ now \in Nat /\ now + CertTTL \in Nat
      /\ now - Backdate \in Int
  BY <1>1, Fields DEF CanIssue, Serial
<1>a. /\ WholeSeconds(now - Backdate) \in Int /\ WholeSeconds(now + CertTTL) \in Nat
      /\ WholeSeconds(now + CertTTL) <= now + CertTTL
      /\ now + CertTTL < WholeSeconds(now + CertTTL) + Second
  BY <1>2, CutToSeconds
<1>3. /\ Fresh(key) \in Cert /\ Fresh(key).key = key
      /\ Fresh(key).serial = N + 1
      /\ Fresh(key).notAfter <= Fresh(key).exp
      /\ Fresh(key).exp < Fresh(key).notAfter + Second
  BY <1>2, <1>a DEF Fresh, Cert
<1>4. Fresh(key) \notin issued
  BY <1>1, <1>3 DEF SerialsInOrder
<1>5. /\ Cardinality(issued \cup {Fresh(key)}) = N + 1
      /\ IsFiniteSet(issued \cup {Fresh(key)})
  BY <1>1, <1>4, FS_AddElement
<1>6. N + 1 \notin revoked
  BY <1>1 DEF SerialsInOrder
<1> QED
  BY <1>1, <1>3, <1>5, <1>6

(* A certificate the server has issued is not the absence of one.          *)
LEMMA IssuedIsSome ==
    ASSUME SerialsInOrder, NEW c \in issued
    PROVE  c # NoCert
<1>1. c.serial \in 1 .. Cardinality(issued) /\ Cardinality(issued) \in Nat
  BY FS_CardinalityType DEF SerialsInOrder
<1> QED
  BY <1>1 DEF NoCert

(* A step of the process alone has to preserve only what is said of it.    *)
LEMMA ProcessStep ==
    ASSUME CredentialsInvariant, UNCHANGED <<now, skew, disk, keys, server>>,
           agent' \in AgentState, AnswerIsIssued', ClientIsCurrent', AskedWhenDue'
    PROVE  CredentialsInvariant'
<1>1. TypeOK'
  BY DEF CredentialsInvariant, TypeOK, AgentState, server
<1>2. SerialsInOrder' /\ OnlyNewestLive' /\ LessThanASecondCut' /\ FilesFit'
  BY DEF CredentialsInvariant, SerialsInOrder, OnlyNewestLive, LessThanASecondCut, FilesFit,
         server
<1> QED
  BY <1>1, <1>2 DEF CredentialsInvariant

(* So an agent that exits or dies preserves everything.                    *)
LEMMA ExitStep ==
    ASSUME CredentialsInvariant, UNCHANGED <<now, skew, disk, keys, server>>, Exit
    PROVE  CredentialsInvariant'
<1>1. agent' = Down /\ Down \in AgentState
  BY Fields DEF Exit, CredentialsInvariant
<1>2. AnswerIsIssued' /\ ClientIsCurrent' /\ AskedWhenDue'
  BY <1>1 DEF Down, At, AnswerIsIssued, ClientIsCurrent, AskedWhenDue
<1> QED
  BY <1>1, <1>2, ProcessStep

-----------------------------------------------------------------------------
(* Every step preserves the invariant. *)

(* Reading and generating keys, asking and being answered.                 *)
LEMMA EnrollmentSteps ==
    ASSUME CredentialsInvariant,
           StartRegistered \/ StartUnregistered \/ ReceiveEnrollment
              \/ WriteCert \/ WriteCA
    PROVE  CredentialsInvariant'
<1>0. /\ TypeOK /\ SerialsInOrder /\ OnlyNewestLive /\ LessThanASecondCut
      /\ AnswerIsIssued /\ FilesFit
      /\ ClientIsCurrent /\ AskedWhenDue
  BY DEF CredentialsInvariant
<1>1. CASE StartRegistered
  <2>1. agent' = [Down EXCEPT !.pc = "check", !.client = disk.cert]
    BY <1>1 DEF StartRegistered
  <2>2. /\ agent' \in AgentState
        /\ agent'.pc = "check" /\ agent'.client = disk.cert
    BY <1>0, <2>1, Fields DEF AgentState, Down
  <2>3. UNCHANGED <<now, skew, disk, keys, server>>
    BY <1>1 DEF StartRegistered
  <2>4. AnswerIsIssued' /\ ClientIsCurrent' /\ AskedWhenDue'
    BY <2>2, <2>3 DEF At, AnswerIsIssued, ClientIsCurrent, AskedWhenDue
  <2> QED
    BY <2>2, <2>3, <2>4, ProcessStep
<1>2. CASE StartUnregistered
  <2>1. /\ agent' = [agent EXCEPT !.pc = "enroll"]
        /\ disk.cert = NoCert /\ disk.ca = FALSE
        /\ UNCHANGED <<now, skew, issued, revoked, result, disabled>>
    BY <1>0, <1>2, Fields DEF StartUnregistered, Go, Unregistered, server
  <2>2. agent' \in AgentState /\ agent'.pc = "enroll"
    BY <1>0, <2>1, Fields DEF AgentState
  <2>3. /\ disk' \in [key : Nat, cert : Cert, ca : BOOLEAN] /\ keys' \in Nat
        /\ disk'.cert = NoCert /\ disk'.ca = FALSE
    <3>1. CASE disk.key = 0
      BY <1>0, <1>2, <2>1, <3>1, Fields DEF StartUnregistered
    <3>2. CASE disk.key # 0
      BY <1>0, <1>2, <2>1, <3>2, Fields DEF StartUnregistered
    <3> QED
      BY <3>1, <3>2
  <2>4. TypeOK'
    BY <1>0, <2>1, <2>2, <2>3 DEF TypeOK, AgentState
  <2>5. SerialsInOrder' /\ OnlyNewestLive' /\ LessThanASecondCut'
    BY <1>0, <2>1 DEF SerialsInOrder, OnlyNewestLive, LessThanASecondCut
  <2>6. FilesFit'
    BY <2>3 DEF FilesFit
  <2>7. AnswerIsIssued' /\ ClientIsCurrent' /\ AskedWhenDue'
    BY <2>2 DEF At, AnswerIsIssued, ClientIsCurrent, AskedWhenDue
  <2> QED
    BY <2>4, <2>5, <2>6, <2>7 DEF CredentialsInvariant
<1>3. CASE ReceiveEnrollment
  <2>1. /\ agent' = [agent EXCEPT !.pc = "writeCert"]
        /\ agent.got \in issued /\ agent.got.key = disk.key
        /\ UNCHANGED <<now, skew, disk, keys, server>>
    BY <1>0, <1>3 DEF ReceiveEnrollment, Go, At, Verified, AnswerIsIssued
  <2>2. agent' \in AgentState /\ agent'.pc = "writeCert" /\ agent'.got = agent.got
    BY <1>0, <2>1, Fields DEF AgentState
  <2>3. AnswerIsIssued' /\ ClientIsCurrent' /\ AskedWhenDue'
    BY <2>1, <2>2 DEF At, AnswerIsIssued, ClientIsCurrent, AskedWhenDue, server
  <2> QED
    BY <2>1, <2>2, <2>3, ProcessStep
<1>4. CASE WriteCert
  <2>1. /\ agent' = [agent EXCEPT !.pc = "writeCA"]
        /\ disk' = [disk EXCEPT !.cert = agent.got]
        /\ agent.got \in issued /\ agent.got.key = disk.key
        /\ UNCHANGED <<now, skew, keys, issued, revoked, result, disabled>>
    BY <1>0, <1>4 DEF WriteCert, Go, At, AnswerIsIssued, server
  <2>2. agent' \in AgentState /\ agent'.pc = "writeCA"
    BY <1>0, <2>1, Fields DEF AgentState
  <2>3. /\ disk' \in [key : Nat, cert : Cert, ca : BOOLEAN]
        /\ disk'.cert = agent.got /\ disk'.key = disk.key
    BY <1>0, <2>1, Fields DEF AgentState
  <2>4. TypeOK'
    BY <1>0, <2>1, <2>2, <2>3 DEF TypeOK, AgentState
  <2>5. SerialsInOrder' /\ OnlyNewestLive' /\ LessThanASecondCut'
    BY <1>0, <2>1 DEF SerialsInOrder, OnlyNewestLive, LessThanASecondCut
  <2>6. agent.got # NoCert
    BY <1>0, <2>1, IssuedIsSome
  <2>7. FilesFit'
    BY <2>1, <2>3, <2>6 DEF FilesFit
  <2>8. AnswerIsIssued' /\ ClientIsCurrent' /\ AskedWhenDue'
    BY <2>2, <2>3, <2>6 DEF At, AnswerIsIssued, ClientIsCurrent, AskedWhenDue
  <2> QED
    BY <2>4, <2>5, <2>7, <2>8 DEF CredentialsInvariant
<1>5. CASE WriteCA
  <2>1. /\ agent' = [Down EXCEPT !.pc = "check", !.client = disk.cert]
        /\ disk' = [disk EXCEPT !.ca = TRUE]
        /\ disk.cert # NoCert
        /\ UNCHANGED <<now, skew, keys, issued, revoked, result, disabled>>
    BY <1>0, <1>5 DEF WriteCA, At, AnswerIsIssued, server
  <2>2. agent' \in AgentState /\ agent'.pc = "check" /\ agent'.client = disk.cert
    BY <1>0, <2>1, Fields DEF AgentState, Down
  <2>3. /\ disk' \in [key : Nat, cert : Cert, ca : BOOLEAN]
        /\ disk'.cert = disk.cert /\ disk'.key = disk.key
    BY <1>0, <2>1, Fields
  <2>4. TypeOK'
    BY <1>0, <2>1, <2>2, <2>3 DEF TypeOK, AgentState
  <2>5. SerialsInOrder' /\ OnlyNewestLive' /\ LessThanASecondCut' /\ FilesFit'
    BY <1>0, <2>1, <2>3 DEF SerialsInOrder, OnlyNewestLive, LessThanASecondCut, FilesFit
  <2>6. AnswerIsIssued' /\ ClientIsCurrent' /\ AskedWhenDue'
    BY <2>2, <2>3 DEF At, AnswerIsIssued, ClientIsCurrent, AskedWhenDue
  <2> QED
    BY <2>4, <2>5, <2>6 DEF CredentialsInvariant
<1> QED
  BY <1>1, <1>2, <1>3, <1>4, <1>5

(* The server commits an enrollment or a renewal, or answers again.        *)
LEMMA ServerSteps ==
    ASSUME CredentialsInvariant, ServeEnrollment \/ ServeRenewal \/ DisableNode
    PROVE  CredentialsInvariant'
<1>0. /\ TypeOK /\ SerialsInOrder /\ OnlyNewestLive /\ LessThanASecondCut
      /\ AnswerIsIssued /\ FilesFit
      /\ ClientIsCurrent /\ AskedWhenDue
      /\ disk.key \in Nat
  BY Fields DEF CredentialsInvariant
<1> DEFINE new == Fresh(disk.key)
           N == Cardinality(issued)
<1>1. CASE /\ At("enroll") /\ result = NoCert /\ CanIssue
           /\ result' = new /\ issued' = issued \cup {new}
           /\ agent' = [agent EXCEPT !.pc = "enrolled", !.got = new]
           /\ UNCHANGED <<now, skew, disk, keys, revoked, disabled>>
  <2>1. /\ new \in Cert /\ new.serial = N + 1 /\ N \in Nat
        /\ Cardinality(issued') = N + 1 /\ IsFiniteSet(issued')
        /\ new.notAfter <= new.exp /\ new.exp < new.notAfter + Second
    BY <1>0, <1>1, FreshIsNew
  <2>2. issued = {}
    BY <1>0, <1>1 DEF SerialsInOrder
  <2>3. /\ agent' \in AgentState /\ agent'.pc = "enrolled"
        /\ agent'.got = new
    BY <1>0, <1>1, <2>1, Fields DEF AgentState
  <2>4. TypeOK'
    BY <1>0, <1>1, <2>1, <2>3 DEF TypeOK, AgentState
  <2>5. SerialsInOrder'
    <3>1. N = 0
      BY <2>2, FS_EmptySet
    <3>2. new # NoCert
      BY <2>1 DEF NoCert
    <3> QED
      BY <1>0, <1>1, <2>1, <2>2, <3>1, <3>2 DEF SerialsInOrder
  <2>6. OnlyNewestLive' /\ LessThanASecondCut'
    BY <1>1, <2>1, <2>2 DEF OnlyNewestLive, LessThanASecondCut
  <2>7. FilesFit'
    BY <1>0, <1>1 DEF FilesFit
  <2>8. AnswerIsIssued' /\ ClientIsCurrent' /\ AskedWhenDue'
    BY <1>1, <2>3 DEF At, AnswerIsIssued, ClientIsCurrent, AskedWhenDue
  <2> QED
    BY <2>4, <2>5, <2>6, <2>7, <2>8 DEF CredentialsInvariant
<1>2. CASE /\ At("enroll") /\ result \in issued
           /\ agent' = [agent EXCEPT !.pc = "enrolled", !.got = result]
           /\ UNCHANGED <<now, skew, disk, keys, server>>
  <2>1. /\ agent' \in AgentState /\ agent'.pc = "enrolled"
        /\ agent'.got = result
    BY <1>0, <1>2, Fields DEF AgentState, TypeOK
  <2>2. AnswerIsIssued' /\ ClientIsCurrent' /\ AskedWhenDue'
    BY <1>2, <2>1 DEF At, AnswerIsIssued, ClientIsCurrent, AskedWhenDue, server
  <2> QED
    BY <1>2, <2>1, <2>2, ProcessStep
<1>3. CASE ServeRenewal
  <2>1. /\ agent.client \in issued /\ agent.client.serial \notin revoked
        /\ CanIssue
        /\ issued' = issued \cup {new}
        /\ revoked' = revoked \cup {agent.client.serial}
        /\ agent' = [agent EXCEPT !.pc = "renewed", !.got = new]
        /\ UNCHANGED <<now, skew, disk, keys, result, disabled>>
    BY <1>3 DEF ServeRenewal, MayRenew, Accepted
  <2>2. /\ new \in Cert /\ new.serial = N + 1 /\ N \in Nat
        /\ Cardinality(issued') = N + 1 /\ IsFiniteSet(issued')
        /\ new.notAfter <= new.exp /\ new.exp < new.notAfter + Second
    BY <1>0, <2>1, FreshIsNew
  <2>3. /\ agent' \in AgentState /\ agent'.pc = "renewed"
        /\ agent'.got = new /\ agent'.client = agent.client
    BY <1>0, <2>1, <2>2, Fields DEF AgentState
  <2>4. agent.client.serial \in Serial
    BY <1>0, <2>1 DEF TypeOK, Cert
  <2>5. TypeOK'
    BY <1>0, <2>1, <2>2, <2>3, <2>4 DEF TypeOK, AgentState
  <2>6. SerialsInOrder'
    <3>1. \A c \in issued' : c.serial \in 1 .. N + 1
      BY <1>0, <2>1, <2>2 DEF SerialsInOrder
    <3>2. revoked' \subseteq {c.serial : c \in issued'}
      BY <1>0, <2>1 DEF SerialsInOrder
    <3> QED
      BY <1>0, <2>1, <2>2, <3>1, <3>2 DEF SerialsInOrder
  <2>7. OnlyNewestLive'
    <3>1. agent.client.serial = N
      BY <1>0, <2>1 DEF OnlyNewestLive
    <3> QED
      BY <1>0, <2>1, <2>2, <3>1 DEF OnlyNewestLive
  <2>8. FilesFit' /\ LessThanASecondCut'
    BY <1>0, <2>1, <2>2 DEF FilesFit, LessThanASecondCut
  <2>9. AnswerIsIssued' /\ ClientIsCurrent' /\ AskedWhenDue'
    BY <2>1, <2>3 DEF At, AnswerIsIssued, ClientIsCurrent, AskedWhenDue
  <2> QED
    BY <2>5, <2>6, <2>7, <2>8, <2>9 DEF CredentialsInvariant
<1>4. CASE DisableNode
  <2>1. /\ revoked' = {c.serial : c \in issued}
        /\ disabled' = TRUE
        /\ UNCHANGED <<now, skew, disk, keys, agent, issued, result>>
    BY <1>4 DEF DisableNode
  <2>2. revoked \subseteq revoked' /\ revoked' \subseteq Serial
    BY <1>0, <2>1 DEF SerialsInOrder, TypeOK, Cert
  <2>3. TypeOK'
    BY <1>0, <2>1, <2>2 DEF TypeOK
  <2>4. SerialsInOrder' /\ OnlyNewestLive' /\ LessThanASecondCut' /\ FilesFit'
    BY <1>0, <2>1 DEF SerialsInOrder, OnlyNewestLive, LessThanASecondCut, FilesFit
  <2>5. AnswerIsIssued' /\ ClientIsCurrent' /\ AskedWhenDue'
    BY <1>0, <2>1, <2>2
       DEF At, AnswerIsIssued, ClientIsCurrent, AskedWhenDue, RenewalDue, AgentNow
  <2> QED
    BY <2>3, <2>4, <2>5 DEF CredentialsInvariant
<1> QED
  BY <1>1, <1>2, <1>3, <1>4 DEF ServeEnrollment, Accepted, server

(* The time of the next renewal check is an integer.                       *)
LEMMA NextTime == TypeOK => AgentNow + CheckPeriod \in Int
BY CredentialsAssumption DEF TypeOK, AgentNow

(* The report loop: checking, asking for and saving a renewal, reporting.  *)
LEMMA LoopSteps ==
    ASSUME CredentialsInvariant,
           SkipRenewal \/ AskRenewal \/ SaveRenewal \/ Reload \/ RenewalFails \/ Report
    PROVE  CredentialsInvariant'
<1>0. /\ TypeOK /\ SerialsInOrder /\ OnlyNewestLive /\ LessThanASecondCut
      /\ AnswerIsIssued /\ FilesFit
      /\ ClientIsCurrent /\ AskedWhenDue
  BY DEF CredentialsInvariant
<1>1. CASE SkipRenewal \/ Report
  <2>1. /\ agent' \in AgentState /\ agent'.pc \in {"report", "check"}
        /\ agent'.client = agent.client
        /\ At("check") \/ At("report")
    <3>1. CASE At("check") /\ Go("report")
      BY <1>0, <3>1, Fields DEF Go, AgentState
    <3>2. CASE At("check") /\ agent' = [agent EXCEPT !.pc = "report", !.next = AgentNow + CheckPeriod]
      <4>1. agent' = [pc |-> "report", client |-> agent.client, next |-> AgentNow + CheckPeriod,
                      got |-> agent.got]
        BY <1>0, <3>2, Fields
      <4> QED
        BY <1>0, <3>2, <4>1, NextTime, Fields DEF AgentState
    <3>3. CASE Report
      BY <1>0, <3>3, Fields DEF Report, Go, AgentState
    <3> QED
      BY <1>1, <3>1, <3>2, <3>3 DEF SkipRenewal
  <2>2. UNCHANGED <<now, skew, disk, keys, server>>
    BY <1>1 DEF SkipRenewal, Report
  <2>3. AnswerIsIssued' /\ ClientIsCurrent' /\ AskedWhenDue'
    BY <1>0, <2>1, <2>2 DEF At, AnswerIsIssued, ClientIsCurrent, AskedWhenDue, server
  <2> QED
    BY <2>1, <2>2, <2>3, ProcessStep
<1>2. CASE AskRenewal
  <2>1. /\ agent' \in AgentState /\ agent'.pc = "renew" /\ agent'.client = agent.client
        /\ At("check") /\ RenewalDue
        /\ UNCHANGED <<now, skew, disk, keys, server>>
    <3>1. agent' = [agent EXCEPT !.pc = "renew", !.next = AgentNow + CheckPeriod]
      BY <1>2 DEF AskRenewal
    <3>2. agent' = [pc |-> "renew", client |-> agent.client, next |-> AgentNow + CheckPeriod,
                    got |-> agent.got]
      BY <1>0, <3>1, Fields
    <3>3. At("check") /\ RenewalDue /\ UNCHANGED <<now, skew, disk, keys, server>>
      BY <1>2 DEF AskRenewal
    <3> QED
      BY <1>0, <3>2, <3>3, NextTime, Fields DEF AgentState
  <2>2. AnswerIsIssued' /\ ClientIsCurrent' /\ AskedWhenDue'
    BY <1>0, <2>1 DEF At, AnswerIsIssued, ClientIsCurrent, AskedWhenDue, RenewalDue,
                      AgentNow, server
  <2> QED
    BY <2>1, <2>2, ProcessStep
<1>3. CASE SaveRenewal
  <2>1. /\ agent' = [agent EXCEPT !.pc = "reload"]
        /\ disk' = [disk EXCEPT !.cert = agent.got]
        /\ agent.got \in issued /\ agent.got.key = disk.key
        /\ agent.client.serial \in revoked
        /\ UNCHANGED <<now, skew, keys, issued, revoked, result, disabled>>
    BY <1>0, <1>3 DEF SaveRenewal, Go, At, Verified, AnswerIsIssued, ClientIsCurrent, server
  <2>2. agent' \in AgentState /\ agent'.pc = "reload" /\ agent'.client = agent.client
    BY <1>0, <2>1, Fields DEF AgentState
  <2>3. /\ disk' \in [key : Nat, cert : Cert, ca : BOOLEAN]
        /\ disk'.cert = agent.got /\ disk'.key = disk.key
    BY <1>0, <2>1, Fields DEF AgentState
  <2>4. TypeOK'
    BY <1>0, <2>1, <2>2, <2>3 DEF TypeOK, AgentState
  <2>5. SerialsInOrder' /\ OnlyNewestLive' /\ LessThanASecondCut'
    BY <1>0, <2>1 DEF SerialsInOrder, OnlyNewestLive, LessThanASecondCut
  <2>6. agent.got # NoCert
    BY <1>0, <2>1, IssuedIsSome
  <2>7. FilesFit'
    BY <2>1, <2>3, <2>6 DEF FilesFit
  <2>8. AnswerIsIssued' /\ ClientIsCurrent' /\ AskedWhenDue'
    BY <2>1, <2>2 DEF At, AnswerIsIssued, ClientIsCurrent, AskedWhenDue
  <2> QED
    BY <2>4, <2>5, <2>7, <2>8 DEF CredentialsInvariant
<1>4. CASE Reload
  <2>1. PICK client \in {disk.cert, agent.client} :
           agent' = [agent EXCEPT !.pc = "report", !.client = client, !.got = NoCert]
    BY <1>4 DEF Reload
  <2>2. /\ client \in Cert
        /\ client = disk.cert \/ client.serial \in revoked
        /\ UNCHANGED <<now, skew, disk, keys, server>>
    BY <1>0, <1>4, Fields DEF Reload, ClientIsCurrent, AgentState
  <2>3. agent' \in AgentState /\ agent'.pc = "report" /\ agent'.client = client
    BY <1>0, <2>1, <2>2, Fields DEF AgentState
  <2>4. AnswerIsIssued' /\ ClientIsCurrent' /\ AskedWhenDue'
    BY <2>2, <2>3 DEF At, AnswerIsIssued, ClientIsCurrent, AskedWhenDue, server
  <2> QED
    BY <2>2, <2>3, <2>4, ProcessStep
<1>5. CASE RenewalFails
  <2>1. /\ agent' = [agent EXCEPT !.pc = "report", !.got = NoCert]
        /\ agent.client = disk.cert \/ agent.client.serial \in revoked
        /\ UNCHANGED <<now, skew, disk, keys, server>>
    BY <1>0, <1>5 DEF RenewalFails, ClientIsCurrent
  <2>2. agent' \in AgentState /\ agent'.pc = "report" /\ agent'.client = agent.client
    BY <1>0, <2>1, Fields DEF AgentState
  <2>3. AnswerIsIssued' /\ ClientIsCurrent' /\ AskedWhenDue'
    BY <2>1, <2>2 DEF At, AnswerIsIssued, ClientIsCurrent, AskedWhenDue, server
  <2> QED
    BY <2>1, <2>2, <2>3, ProcessStep
<1> QED
  BY <1>1, <1>2, <1>3, <1>4, <1>5

(* The clock goes on: a renewal that was due stays due.                    *)
LEMMA TickStep ==
    ASSUME CredentialsInvariant, Tick
    PROVE  CredentialsInvariant'
<1>0. /\ TypeOK /\ SerialsInOrder /\ OnlyNewestLive /\ LessThanASecondCut
      /\ AnswerIsIssued /\ FilesFit
      /\ ClientIsCurrent /\ AskedWhenDue
  BY DEF CredentialsInvariant
<1>1. now' = now + 1 /\ UNCHANGED <<skew, disk, keys, agent, server>>
  BY DEF Tick
<1>2. TypeOK'
  BY <1>0, <1>1, Fields DEF TypeOK, server
<1>3. /\ SerialsInOrder' /\ OnlyNewestLive' /\ LessThanASecondCut'
      /\ FilesFit' /\ AnswerIsIssued' /\ ClientIsCurrent'
  BY <1>0, <1>1 DEF SerialsInOrder, OnlyNewestLive, LessThanASecondCut, FilesFit,
                    AnswerIsIssued, ClientIsCurrent, At, server
<1>4. AskedWhenDue'
  <2>1. /\ disk.cert.notAfter \in Nat /\ now \in Nat /\ skew \in Int /\ RenewWindow \in Nat
        /\ disk' = disk /\ agent' = agent /\ skew' = skew /\ now' = now + 1
    BY <1>0, <1>1, Fields
  <2> QED
    BY <1>0, <2>1 DEF AskedWhenDue, At, RenewalDue, AgentNow
<1> QED
  BY <1>2, <1>3, <1>4 DEF CredentialsInvariant

(* The files of the agent and the rows of the server fit together through  *)
(* every lost answer, crash and restart.                                   *)
THEOREM CredentialsInvariantHolds == Spec => []CredentialsInvariant
<1>1. Init => CredentialsInvariant
  <2> SUFFICES ASSUME Init PROVE CredentialsInvariant
    OBVIOUS
  <2>1. /\ NoCert \in Cert /\ agent = Down /\ Down \in AgentState /\ 0 \in Nat
        /\ agent.pc = "down"
    BY CredentialsAssumption DEF Init, NoCert, Cert, Serial, Down, AgentState
  <2>2. TypeOK
    BY <2>1 DEF Init, TypeOK, AgentState
  <2>3. SerialsInOrder /\ OnlyNewestLive /\ LessThanASecondCut
    BY FS_EmptySet DEF Init, SerialsInOrder, OnlyNewestLive, LessThanASecondCut
  <2>4. FilesFit /\ AnswerIsIssued /\ ClientIsCurrent /\ AskedWhenDue
    BY <2>1 DEF Init, FilesFit, AnswerIsIssued, ClientIsCurrent, AskedWhenDue, At
  <2> QED
    BY <2>2, <2>3, <2>4 DEF CredentialsInvariant
<1>2. CredentialsInvariant /\ [Next]_vars => CredentialsInvariant'
  <2> SUFFICES ASSUME CredentialsInvariant, [Next]_vars PROVE CredentialsInvariant'
    OBVIOUS
  <2>1. CASE Start \/ ReceiveEnrollment \/ WriteCert \/ WriteCA
    BY <2>1, EnrollmentSteps DEF Start
  <2>2. CASE ServeEnrollment \/ ServeRenewal \/ DisableNode
    BY <2>2, ServerSteps
  <2>3. CASE SkipRenewal \/ AskRenewal \/ SaveRenewal \/ Reload \/ RenewalFails \/ Report
    BY <2>3, LoopSteps
  <2>4. CASE EnrollmentFails \/ FindsExpired \/ RefuseRenewal \/ RefuseReport \/ Crash
    BY <2>4, ExitStep DEF EnrollmentFails, FindsExpired, RefuseRenewal, RefuseReport, Crash
  <2>5. CASE Tick
    BY <2>5, TickStep
  <2>6. CASE UNCHANGED vars
    BY <2>6 DEF vars, server, CredentialsInvariant, TypeOK, SerialsInOrder, OnlyNewestLive,
                LessThanASecondCut, AnswerIsIssued, FilesFit, ClientIsCurrent, AskedWhenDue,
                At, RenewalDue, AgentNow
  <2> QED
    BY <2>1, <2>2, <2>3, <2>4, <2>5, <2>6 DEF Next, Renew
<1> QED
  BY <1>1, <1>2, PTL DEF Spec

(* Type correctness of agent and server, for any skew and validity.        *)
THEOREM TypeCorrect == Spec => []TypeOK
<1>1. CredentialsInvariant => TypeOK
  BY DEF CredentialsInvariant
<1> QED
  BY <1>1, CredentialsInvariantHolds, PTL

(* The certificate file is one the server persisted for the key file, and  *)
(* the CA file is never there without it.                                  *)
THEOREM FilesAlwaysFit == Spec => []FilesFit
<1>1. CredentialsInvariant => FilesFit
  BY DEF CredentialsInvariant
<1> QED
  BY <1>1, CredentialsInvariantHolds, PTL

(* The live certificate is the one on disk or a newer one, and a process   *)
(* that identifies itself with another than that on disk is cut off.       *)
THEOREM StaleAlwaysRevoked == Spec => []StaleIsRevoked
<1>1. ASSUME CredentialsInvariant, disk.cert # NoCert, NEW c \in issued, c.serial \notin revoked
      PROVE  c.serial >= disk.cert.serial
  <2>1. disk.cert \in issued
    BY <1>1 DEF CredentialsInvariant, FilesFit
  <2>2. c.serial = Cardinality(issued)
    BY <1>1 DEF CredentialsInvariant, OnlyNewestLive
  <2>3. disk.cert.serial \in 1 .. Cardinality(issued) /\ Cardinality(issued) \in Nat
    BY <1>1, <2>1, FS_CardinalityType DEF CredentialsInvariant, SerialsInOrder
  <2> QED
    BY <2>2, <2>3
<1>2. ASSUME CredentialsInvariant, agent.pc \in {"check", "renew", "report"}
      PROVE  agent.client = disk.cert \/ agent.client.serial \in revoked
  BY <1>2 DEF CredentialsInvariant, ClientIsCurrent, At
<1>3. CredentialsInvariant => StaleIsRevoked
  BY <1>1, <1>2 DEF StaleIsRevoked
<1> QED
  BY <1>3, CredentialsInvariantHolds, PTL

(* A renewal of a certificate the server accepts is refused only before    *)
(* the server's window opens, and by less than the second that X.509 cuts  *)
(* plus the lead of the agent's clock.                                     *)
THEOREM RefusalsAreEarly == Spec => RefusedOnlyWhenEarly
<1> DEFINE Early == RefuseRenewal /\ Accepted(agent.client) =>
                      agent.client.exp - RenewWindow - now \in 1 .. Second - 1 + skew
<1>1. CredentialsInvariant => Early
  <2> SUFFICES ASSUME CredentialsInvariant, RefuseRenewal, Accepted(agent.client)
               PROVE  agent.client.exp - RenewWindow - now \in 1 .. Second - 1 + skew
    OBVIOUS
  <2>1. /\ At("renew") /\ agent.client.serial \notin revoked /\ agent.client \in issued
        /\ ~(now >= agent.client.exp - RenewWindow)
    BY DEF RefuseRenewal, MayRenew, Accepted
  <2>2. agent.client = disk.cert
    BY <2>1 DEF CredentialsInvariant, ClientIsCurrent
  <2>3. disk.cert.notAfter <= now + skew + RenewWindow
    BY <2>1 DEF CredentialsInvariant, AskedWhenDue, RenewalDue, AgentNow
  <2>4. disk.cert.exp < disk.cert.notAfter + Second
    BY <2>1, <2>2 DEF CredentialsInvariant, LessThanASecondCut
  <2>5. /\ disk.cert.exp \in Nat /\ disk.cert.notAfter \in Nat /\ now \in Nat
        /\ skew \in Int /\ RenewWindow \in Nat /\ Second \in Nat
    BY Fields DEF CredentialsInvariant
  <2> QED
    BY <2>1, <2>2, <2>3, <2>4, <2>5
<1> QED
  BY <1>1, CredentialsInvariantHolds, PTL DEF RefusedOnlyWhenEarly
=============================================================================
