--------------------------- MODULE Registry_proofs ---------------------------
(***************************************************************************)
(* Theorems about Registry, for every value of its constants.              *)
(***************************************************************************)
EXTENDS Registry, FiniteSetTheorems, TLAPS

-----------------------------------------------------------------------------
(* Tables: what INSERT and the cascading DELETE return. *)

(* INSERT keeps a table a table. *)
LEMMA PutTable ==
    ASSUME NEW t, NEW Ids, NEW Row, IsTable(t, Ids, Row), NEW id \in Ids, NEW row \in Row
    PROVE  IsTable(Put(t, id, row), Ids, Row)
BY DEF IsTable, Put

(* DELETE ... WHERE node_id = n keeps a table a table. *)
LEMMA RowsNotOfTable ==
    ASSUME NEW t, NEW Ids, NEW Row, IsTable(t, Ids, Row), NEW n
    PROVE  IsTable(RowsNotOf(t, n), Ids, Row)
BY DEF IsTable, RowsNotOf, Restrict

(* A random draw is new. *)
LEMMA DrawFresh ==
    ASSUME NEW S, CanDraw(S)
    PROVE  Draw(S) \in S /\ Draw(S) \notin drawn
BY DEF CanDraw, Draw

(* A certificate the CA issues is well formed. *)
LEMMA IssuedType ==
    ASSUME CanDraw(Serials), NEW n \in Nodes, NEW key \in Keys, NEW at \in Nat
    PROVE  IssueClientCertificate(n, key, at) \in Certificate
BY DrawFresh, ConstantsAssumption DEF IssueClientCertificate, Certificate

(* Moving one handler to a well-formed state keeps req well typed. *)
LEMMA BecomeType ==
    ASSUME req \in [Requests -> RequestState], NEW p \in Requests,
           NEW state \in RequestState, Become(p, state)
    PROVE  req' \in [Requests -> RequestState]
BY DEF Become

(* What each stage of a handler carries. *)
LEMMA StageFields ==
    ASSUME NEW r \in RequestState
    PROVE  /\ r.pc \in {"invite", "cleanup"} => r.node \in Nodes
           /\ r.pc = "resolve" => r.at \in Nat /\ r.code \in Codes /\ r.key \in Keys
           /\ r.pc \in {"replay", "persist"} =>
                 r.at \in Nat /\ r.code \in Codes /\ r.cert \in Certificate
           /\ r.pc = "replayAgain" => r.code \in Codes /\ r.key \in Keys
           /\ r.pc = "renew" => r.at \in Nat /\ r.old \in Serials /\ r.cert \in Certificate
           /\ r.pc = "reply" => r.code \in Codes \cup {NoCode} /\ r.cert \in Certificate
BY DEF RequestState, Idle

(* The stages a handler moves to are well formed. *)
LEMMA StageTypes ==
    /\ Idle \in RequestState
    /\ \A n \in Nodes : /\ [pc |-> "invite", node |-> n] \in RequestState
                        /\ [pc |-> "cleanup", node |-> n] \in RequestState
    /\ \A at \in Nat, code \in Codes, key \in Keys :
          [pc |-> "resolve", at |-> at, code |-> code, key |-> key] \in RequestState
    /\ \A at \in Nat, code \in Codes, cert \in Certificate :
          /\ [pc |-> "replay", at |-> at, code |-> code, cert |-> cert] \in RequestState
          /\ [pc |-> "persist", at |-> at, code |-> code, cert |-> cert] \in RequestState
    /\ \A code \in Codes, key \in Keys :
          [pc |-> "replayAgain", code |-> code, key |-> key] \in RequestState
    /\ \A at \in Nat, old \in Serials, cert \in Certificate :
          [pc |-> "renew", at |-> at, old |-> old, cert |-> cert] \in RequestState
    /\ \A code \in Codes \cup {NoCode}, cert \in Certificate :
          Reply(code, cert) \in RequestState
BY DEF RequestState, Reply

(* Revoking a certificate leaves a row.                                    *)
LEMMA RevokedRow == \A row \in CertRow : [row EXCEPT !.revoked = TRUE] \in CertRow
BY DEF CertRow

-----------------------------------------------------------------------------
(* Type correctness of the registry and its handlers, whatever they        *)
(* interleave with. *)
THEOREM TypeCorrect == Spec => []TypeOK
<1> USE ConstantsAssumption
<1>1. Init => TypeOK
  BY DEF Init, TypeOK, IsTable, RequestState
<1>2. TypeOK /\ [Next]_vars => TypeOK'
  <2> SUFFICES ASSUME TypeOK, Next PROVE TypeOK'
    BY DEF TypeOK, IsTable, vars
  <2>0. \A p \in Requests : req[p] \in RequestState
    BY DEF TypeOK
  <2>1. ASSUME NEW p \in Requests, CreateNode(p) PROVE TypeOK'
    <3> DEFINE n == Draw(Nodes)
    <3>1. n \in Nodes
      BY <2>1, DrawFresh DEF CreateNode
    <3>2. IsTable(nodes', Nodes, BOOLEAN)
      BY <2>1, <3>1, PutTable DEF CreateNode, TypeOK
    <3>3. req' \in [Requests -> RequestState]
      BY <2>1, <3>1, StageTypes, BecomeType DEF CreateNode, TypeOK
    <3> QED
      BY <2>1, <3>1, <3>2, <3>3 DEF CreateNode, TypeOK
  <2>2. ASSUME NEW p \in Requests, CreateEnrollmentCode(p) PROVE TypeOK'
    <3> DEFINE n == req[p].node
               c == Draw(Codes)
    <3>1. n \in Nodes /\ c \in Codes
      BY <2>0, <2>2, StageFields, DrawFresh DEF CreateEnrollmentCode
    <3>2. [node |-> n, exp |-> now + CodeTTL, used |-> FALSE] \in CodeRow
      BY <3>1 DEF CodeRow, TypeOK
    <3>3. IsTable(codes', Codes, CodeRow)
      BY <2>2, <3>1, <3>2, PutTable, RowsNotOfTable DEF CreateEnrollmentCode, TypeOK
    <3>4. req' \in [Requests -> RequestState]
      BY <2>2, StageTypes, BecomeType DEF CreateEnrollmentCode, TypeOK
    <3> QED
      BY <2>2, <3>1, <3>3, <3>4 DEF CreateEnrollmentCode, TypeOK
  <2>3. ASSUME NEW p \in Requests, CreateEnrollmentCodeFails(p) PROVE TypeOK'
    <3>1. req' \in [Requests -> RequestState]
      BY <2>0, <2>3, StageFields, StageTypes, BecomeType DEF CreateEnrollmentCodeFails, TypeOK
    <3> QED
      BY <2>3, <3>1 DEF CreateEnrollmentCodeFails, TypeOK, tables
  <2>4. ASSUME NEW n, DeleteNode(n)
        PROVE  /\ IsTable(nodes', Nodes, BOOLEAN)
               /\ IsTable(codes', Codes, CodeRow)
               /\ IsTable(results', Codes, ResultRow)
               /\ IsTable(certs', Serials, CertRow)
    <3>1. IsTable(nodes', Nodes, BOOLEAN)
      BY <2>4 DEF DeleteNode, TypeOK, IsTable, Restrict
    <3> QED
      BY <2>4, <3>1, RowsNotOfTable DEF DeleteNode, TypeOK
  <2>5. ASSUME NEW p \in Requests, CleanUp(p) PROVE TypeOK'
    <3>1. req' \in [Requests -> RequestState]
      BY <2>5, StageTypes, BecomeType DEF CleanUp, TypeOK
    <3> QED
      BY <2>4, <2>5, <3>1 DEF CleanUp, TypeOK
  <2>6. ASSUME NEW n \in Nodes, DisableNode(n) PROVE TypeOK'
    <3>1. IsTable(nodes', Nodes, BOOLEAN)
      BY <2>6 DEF DisableNode, TypeOK, IsTable
    <3>2. IsTable(certs', Serials, CertRow)
      <4>1. /\ DOMAIN certs' = DOMAIN certs
            /\ certs' = [s \in DOMAIN certs' |-> certs'[s]]
            /\ \A s \in DOMAIN certs :
                 certs'[s] \in {certs[s], [certs[s] EXCEPT !.revoked = TRUE]}
        BY <2>6 DEF DisableNode
      <4>2. DOMAIN certs \subseteq Serials /\ \A s \in DOMAIN certs : certs[s] \in CertRow
        BY DEF TypeOK, IsTable
      <4>3. \A s \in DOMAIN certs' : certs'[s] \in CertRow
        BY <4>1, <4>2, RevokedRow
      <4> QED
        BY <4>1, <4>2, <4>3 DEF IsTable
    <3> QED
      BY <2>6, <3>1, <3>2 DEF DisableNode, TypeOK
  <2>7. ASSUME NEW n \in Nodes, RemoveNode(n) PROVE TypeOK'
    BY <2>4, <2>7 DEF RemoveNode, TypeOK
  <2>8. ASSUME NEW p \in Requests, NEW code \in Codes, NEW key \in Keys,
               EnrollFirst(p, code, key)
        PROVE  TypeOK'
    <3>1. req' \in [Requests -> RequestState]
      BY <2>8, StageTypes, BecomeType DEF EnrollFirst, TypeOK
    <3> QED
      BY <2>8, <3>1 DEF EnrollFirst, TypeOK, tables
  <2>9. ASSUME NEW p \in Requests, NEW code \in Codes, NEW key \in Keys,
               EnrollAgain(p, code, key)
        PROVE  TypeOK'
    <3>1. results[code].cert \in Certificate
      BY <2>9 DEF EnrollAgain, ReplayFor, TypeOK, IsTable, ResultRow
    <3>2. req' \in [Requests -> RequestState]
      BY <2>9, <3>1, StageTypes, BecomeType DEF EnrollAgain, TypeOK
    <3> QED
      BY <2>9, <3>2 DEF EnrollAgain, TypeOK, tables
  <2>10. ASSUME NEW p \in Requests, ReplayChecked(p) PROVE TypeOK'
    <3>1. req' \in [Requests -> RequestState]
      BY <2>0, <2>10, StageFields, StageTypes, BecomeType DEF ReplayChecked, TypeOK
    <3> QED
      BY <2>10, <3>1 DEF ReplayChecked, TypeOK, tables
  <2>11. ASSUME NEW p \in Requests, ResolveCode(p) PROVE TypeOK'
    <3> DEFINE r == req[p]
    <3>1. r.at \in Nat /\ r.code \in Codes /\ r.key \in Keys
      BY <2>0, <2>11, StageFields DEF ResolveCode
    <3>2. CASE Become(p, Idle) /\ UNCHANGED drawn
      <4>1. req' \in [Requests -> RequestState]
        BY <3>2, StageTypes, BecomeType DEF TypeOK
      <4> QED
        BY <2>11, <3>2, <4>1 DEF ResolveCode, TypeOK, tables
    <3>3. CASE /\ CodeUsable(r.code, r.at)
               /\ CanDraw(Serials)
               /\ drawn' = drawn \cup {Draw(Serials)}
               /\ Become(p, [pc |-> "persist", at |-> r.at, code |-> r.code,
                     cert |-> IssueClientCertificate(codes[r.code].node, r.key, r.at)])
      <4>1. codes[r.code].node \in Nodes
        BY <3>3 DEF CodeUsable, TypeOK, IsTable, CodeRow
      <4>2. IssueClientCertificate(codes[r.code].node, r.key, r.at) \in Certificate
        BY <3>1, <3>3, <4>1, IssuedType
      <4>3. req' \in [Requests -> RequestState]
        BY <3>1, <3>3, <4>2, StageTypes, BecomeType DEF TypeOK
      <4>4. Draw(Serials) \in Serials
        BY <3>3, DrawFresh
      <4> QED
        BY <2>11, <3>3, <4>3, <4>4 DEF ResolveCode, TypeOK, tables
    <3> QED
      BY <2>11, <3>2, <3>3 DEF ResolveCode
  <2>12. ASSUME NEW p \in Requests, EnrollCertificate(p) PROVE TypeOK'
    <3> DEFINE r == req[p]
               n == codes[r.code].node
    <3>1. r.code \in Codes /\ r.cert \in Certificate
      BY <2>0, <2>12, StageFields DEF EnrollCertificate
    <3>2. n \in Nodes /\ r.code \in DOMAIN codes
      BY <2>12 DEF EnrollCertificate, MayEnroll, CodeUsable, TypeOK, IsTable, CodeRow
    <3>3. IsTable(certs', Serials, CertRow)
      <4>1. /\ [node |-> n, exp |-> r.cert.exp, revoked |-> FALSE] \in CertRow
            /\ r.cert.serial \in Serials
        BY <3>1, <3>2 DEF CertRow, Certificate
      <4> QED
        BY <2>12, <4>1, PutTable DEF EnrollCertificate, TypeOK
    <3>4. IsTable(results', Codes, ResultRow)
      <4>1. [node |-> n, cert |-> r.cert] \in ResultRow
        BY <3>1, <3>2 DEF ResultRow
      <4> QED
        BY <2>12, <3>1, <4>1, PutTable DEF EnrollCertificate, TypeOK
    <3>5. IsTable(codes', Codes, CodeRow)
      <4>1. codes' = [codes EXCEPT ![r.code].used = TRUE]
        BY <2>12 DEF EnrollCertificate
      <4>2. codes \in [DOMAIN codes -> CodeRow] /\ DOMAIN codes \subseteq Codes
        BY DEF TypeOK, IsTable
      <4>3. [codes[r.code] EXCEPT !.used = TRUE] \in CodeRow
        BY <3>2, <4>2 DEF CodeRow
      <4> QED
        BY <4>1, <4>2, <4>3 DEF IsTable
    <3>6. req' \in [Requests -> RequestState]
      BY <2>12, <3>1, StageTypes, BecomeType DEF EnrollCertificate, TypeOK
    <3> QED
      BY <2>12, <3>3, <3>4, <3>5, <3>6 DEF EnrollCertificate, TypeOK
  <2>13. ASSUME NEW p \in Requests, EnrollCertificateFails(p) PROVE TypeOK'
    <3>1. req[p].code \in Codes /\ req[p].cert.key \in Keys
      BY <2>0, <2>13, StageFields DEF EnrollCertificateFails, Certificate
    <3>2. req' \in [Requests -> RequestState]
      BY <2>13, <3>1, StageTypes, BecomeType DEF EnrollCertificateFails, TypeOK
    <3> QED
      BY <2>13, <3>2 DEF EnrollCertificateFails, TypeOK, tables
  <2>14. ASSUME NEW p \in Requests, ReplayAgain(p) PROVE TypeOK'
    <3>1. req[p].code \in Codes
      BY <2>0, <2>14, StageFields DEF ReplayAgain
    <3>2. ReplayFor(req[p].code, req[p].key) => results[req[p].code].cert \in Certificate
      BY DEF ReplayFor, TypeOK, IsTable, ResultRow
    <3>3. req' \in [Requests -> RequestState]
      BY <2>14, <3>1, <3>2, StageTypes, BecomeType DEF ReplayAgain, TypeOK
    <3> QED
      BY <2>14, <3>3 DEF ReplayAgain, TypeOK, tables
  <2>15. ASSUME NEW p \in Requests, NEW h \in handed, RenewStart(p, h.cert) PROVE TypeOK'
    <3>1. h.cert \in Certificate
      BY DEF TypeOK
    <3>2. IssueClientCertificate(h.cert.node, h.cert.key, now) \in Certificate
      BY <2>15, <3>1, IssuedType DEF RenewStart, Certificate, TypeOK
    <3>3. h.cert.serial \in Serials /\ now \in Nat
      BY <3>1 DEF Certificate, TypeOK
    <3>4. req' \in [Requests -> RequestState]
      BY <2>15, <3>2, <3>3, StageTypes, BecomeType DEF RenewStart, TypeOK
    <3>5. Draw(Serials) \in Serials
      BY <2>15, DrawFresh DEF RenewStart
    <3> QED
      BY <2>15, <3>4, <3>5 DEF RenewStart, TypeOK, tables
  <2>16. ASSUME NEW p \in Requests, RenewCertificate(p) PROVE TypeOK'
    <3> DEFINE r == req[p]
    <3>1. r.old \in Serials /\ r.cert \in Certificate
      BY <2>0, <2>16, StageFields DEF RenewCertificate
    <3>2. CASE Become(p, Idle) /\ UNCHANGED certs
      <4>1. req' \in [Requests -> RequestState]
        BY <3>2, StageTypes, BecomeType DEF TypeOK
      <4> QED
        BY <2>16, <3>2, <4>1 DEF RenewCertificate, TypeOK
    <3>3. CASE /\ MayRenew(r.old, r.at)
               /\ certs' = Put([certs EXCEPT ![r.old].revoked = TRUE], r.cert.serial,
                               [node |-> certs[r.old].node, exp |-> r.cert.exp,
                                revoked |-> FALSE])
               /\ Become(p, Reply(NoCode, r.cert))
      <4>1. r.old \in DOMAIN certs /\ certs[r.old].node \in Nodes
        BY <3>3 DEF MayRenew, CertificateAccepted, TypeOK, IsTable, CertRow
      <4>2. IsTable([certs EXCEPT ![r.old].revoked = TRUE], Serials, CertRow)
        <5>1. DOMAIN certs \subseteq Serials /\ certs \in [DOMAIN certs -> CertRow]
          BY DEF TypeOK, IsTable
        <5>2. [certs[r.old] EXCEPT !.revoked = TRUE] \in CertRow
          BY <4>1, <5>1, RevokedRow
        <5> QED
          BY <5>1, <5>2 DEF IsTable
      <4>3. /\ [node |-> certs[r.old].node, exp |-> r.cert.exp, revoked |-> FALSE] \in CertRow
            /\ r.cert.serial \in Serials
        BY <3>1, <4>1 DEF CertRow, Certificate
      <4>4. IsTable(certs', Serials, CertRow)
        BY <3>3, <4>2, <4>3, PutTable
      <4>5. req' \in [Requests -> RequestState]
        BY <3>1, <3>3, StageTypes, BecomeType DEF TypeOK
      <4> QED
        BY <2>16, <4>4, <4>5 DEF RenewCertificate, TypeOK
    <3> QED
      BY <2>16, <3>2, <3>3 DEF RenewCertificate
  <2>17. ASSUME NEW p \in Requests, SendReply(p) PROVE TypeOK'
    <3>1. req[p].code \in Codes \cup {NoCode} /\ req[p].cert \in Certificate
      BY <2>0, <2>17, StageFields DEF SendReply
    <3>2. req' \in [Requests -> RequestState]
      BY <2>17, StageTypes, BecomeType DEF SendReply, TypeOK
    <3> QED
      BY <2>17, <3>1, <3>2 DEF SendReply, TypeOK, tables
  <2>18. ASSUME NEW p \in Requests, Abort(p) PROVE TypeOK'
    <3>1. req' \in [Requests -> RequestState]
      BY <2>18, StageTypes, BecomeType DEF Abort, TypeOK
    <3> QED
      BY <2>18, <3>1 DEF Abort, TypeOK, tables
  <2>19. CASE Crash
    BY <2>19, StageTypes DEF Crash, TypeOK, tables
  <2>20. CASE Tick
    BY <2>20 DEF Tick, TypeOK, tables
  <2> QED
    BY <2>1, <2>2, <2>3, <2>5, <2>6, <2>7, <2>8, <2>9, <2>10, <2>11, <2>12, <2>13,
       <2>14, <2>15, <2>16, <2>17, <2>18, <2>19, <2>20 DEF Next
<1> QED
  BY <1>1, <1>2, PTL DEF Spec

-----------------------------------------------------------------------------
(* At most one live certificate for a node. *)

(* A step that writes no table and invites no node preserves the invariant. *)
LEMMA QuietStep ==
    ASSUME CredentialInvariant, req \in [Requests -> RequestState],
           UNCHANGED tables, drawn \subseteq drawn',
           NEW p \in Requests, NEW state, state.pc # "invite", Become(p, state)
    PROVE  CredentialInvariant'
<1> USE DEF CredentialInvariant, tables
<1>1. \A q \in Requests : req'[q].pc = "invite" =>
         req[q].pc = "invite" /\ req'[q] = req[q]
  BY DEF Become
<1>2. InvitedNodeIsBare'
  BY <1>1 DEF InvitedNodeIsBare
<1> QED
  BY <1>2 DEF RowsBelongToNodes, RowsAreDrawn, UnusedCodeMeansNoCertificate,
              DisabledNodeHasNoLiveCertificate, OneLiveCertificate, Live

(* Removing a node and what cascades from it preserves it too. *)
LEMMA DeleteStep ==
    ASSUME CredentialInvariant, NEW n, DeleteNode(n), UNCHANGED drawn,
           \A q \in Requests : req'[q].pc = "invite" =>
              req[q].pc = "invite" /\ req'[q] = req[q]
    PROVE  CredentialInvariant'
<1> USE DEF CredentialInvariant
<1>1. /\ DOMAIN nodes' = DOMAIN nodes \ {n}
      /\ \A m \in DOMAIN nodes' : nodes'[m] = nodes[m]
  BY DEF DeleteNode, Restrict
<1>2. /\ DOMAIN codes' = {c \in DOMAIN codes : codes[c].node # n}
      /\ \A c \in DOMAIN codes' : codes'[c] = codes[c]
  BY DEF DeleteNode, RowsNotOf, Restrict
<1>3. /\ DOMAIN results' = {c \in DOMAIN results : results[c].node # n}
      /\ \A c \in DOMAIN results' : results'[c] = results[c]
  BY DEF DeleteNode, RowsNotOf, Restrict
<1>4. /\ DOMAIN certs' = {s \in DOMAIN certs : certs[s].node # n}
      /\ \A s \in DOMAIN certs' : certs'[s] = certs[s]
  BY DEF DeleteNode, RowsNotOf, Restrict
<1>5. RowsBelongToNodes' /\ RowsAreDrawn'
  BY <1>1, <1>2, <1>3, <1>4 DEF RowsBelongToNodes, RowsAreDrawn
<1>6. InvitedNodeIsBare'
  BY <1>2, <1>4 DEF InvitedNodeIsBare
<1>7. UnusedCodeMeansNoCertificate'
  BY <1>2, <1>4 DEF UnusedCodeMeansNoCertificate
<1>8. DisabledNodeHasNoLiveCertificate' /\ OneLiveCertificate'
  BY <1>1, <1>4 DEF DisabledNodeHasNoLiveCertificate, OneLiveCertificate, Live
<1> QED
  BY <1>5, <1>6, <1>7, <1>8

(* The invariant that a second live certificate would have to break first. *)
THEOREM CredentialsInvariant == Spec => []CredentialInvariant
<1> USE DEF CredentialInvariant
<1>1. Init => CredentialInvariant
  BY DEF Init, Idle, RowsBelongToNodes, RowsAreDrawn, InvitedNodeIsBare,
         UnusedCodeMeansNoCertificate, DisabledNodeHasNoLiveCertificate,
         OneLiveCertificate, Live
<1>2. TypeOK /\ CredentialInvariant /\ [Next]_vars => CredentialInvariant'
  <2> SUFFICES ASSUME TypeOK, CredentialInvariant, Next PROVE CredentialInvariant'
    BY DEF RowsBelongToNodes, RowsAreDrawn, InvitedNodeIsBare,
           UnusedCodeMeansNoCertificate, DisabledNodeHasNoLiveCertificate,
           OneLiveCertificate, Live, vars
  <2>0. req \in [Requests -> RequestState]
    BY DEF TypeOK
  <2>1. ASSUME NEW p \in Requests, CreateNode(p) PROVE CredentialInvariant'
    <3> DEFINE n == Draw(Nodes)
    <3>1. n \notin drawn
      BY <2>1, DrawFresh DEF CreateNode
    <3>2. /\ DOMAIN nodes' = DOMAIN nodes \cup {n}
          /\ \A m \in DOMAIN nodes : nodes'[m] = nodes[m]
          /\ codes' = codes /\ results' = results /\ certs' = certs
          /\ drawn' = drawn \cup {n}
      BY <2>1, <3>1 DEF CreateNode, Put, RowsAreDrawn
    <3>3. /\ req'[p] = [pc |-> "invite", node |-> n]
          /\ \A q \in Requests \ {p} : req'[q] = req[q]
      BY <2>0, <2>1 DEF CreateNode, Become
    <3>4. RowsBelongToNodes' /\ RowsAreDrawn'
      BY <3>2 DEF RowsBelongToNodes, RowsAreDrawn
    <3>5. /\ \A c \in DOMAIN codes : codes[c].node # n
          /\ \A s \in DOMAIN certs : certs[s].node # n
          /\ \A q \in Requests : req[q].pc = "invite" => req[q].node # n
      BY <3>1 DEF RowsBelongToNodes, RowsAreDrawn, InvitedNodeIsBare
    <3>6. InvitedNodeIsBare'
      <4> SUFFICES ASSUME NEW q \in Requests, req'[q].pc = "invite"
                   PROVE  /\ req'[q].node \in drawn'
                          /\ \A c \in DOMAIN codes' : codes'[c].node # req'[q].node
                          /\ \A s \in DOMAIN certs' : certs'[s].node # req'[q].node
                          /\ \A o \in Requests \ {q} :
                                req'[o].pc = "invite" => req'[o].node # req'[q].node
        BY DEF InvitedNodeIsBare
      <4>1. CASE q = p
        BY <3>2, <3>3, <3>5, <4>1
      <4>2. CASE q # p
        BY <3>2, <3>3, <3>5, <4>2 DEF InvitedNodeIsBare
      <4> QED
        BY <4>1, <4>2
    <3>7. UnusedCodeMeansNoCertificate'
      BY <3>2 DEF UnusedCodeMeansNoCertificate
    <3>8. DisabledNodeHasNoLiveCertificate' /\ OneLiveCertificate'
      BY <3>2 DEF DisabledNodeHasNoLiveCertificate, OneLiveCertificate, Live
    <3> QED
      BY <3>4, <3>6, <3>7, <3>8
  <2>2. ASSUME NEW p \in Requests, CreateEnrollmentCode(p) PROVE CredentialInvariant'
    <3> DEFINE n == req[p].node
               c == Draw(Codes)
    <3>1. /\ req[p].pc = "invite" /\ n \in DOMAIN nodes
          /\ \A d \in DOMAIN codes : codes[d].node # n
          /\ \A s \in DOMAIN certs : certs[s].node # n
      BY <2>2 DEF CreateEnrollmentCode, InvitedNodeIsBare
    <3>2. /\ DOMAIN codes' = DOMAIN codes \cup {c}
          /\ codes'[c].node = n
          /\ \A d \in DOMAIN codes' \ {c} : codes'[d] = codes[d]
          /\ nodes' = nodes /\ results' = results /\ certs' = certs
          /\ drawn \subseteq drawn'
      BY <2>2, <3>1 DEF CreateEnrollmentCode, Put, RowsNotOf, Restrict
    <3>3. \A q \in Requests : req'[q].pc = "invite" =>
             q # p /\ req[q].pc = "invite" /\ req'[q] = req[q]
      BY <2>0, <2>2 DEF CreateEnrollmentCode, Become, Idle
    <3>4. RowsBelongToNodes' /\ RowsAreDrawn'
      BY <3>1, <3>2 DEF RowsBelongToNodes, RowsAreDrawn
    <3>5. InvitedNodeIsBare'
      BY <3>1, <3>2, <3>3 DEF InvitedNodeIsBare
    <3>6. UnusedCodeMeansNoCertificate'
      BY <3>1, <3>2 DEF UnusedCodeMeansNoCertificate
    <3>7. DisabledNodeHasNoLiveCertificate' /\ OneLiveCertificate'
      BY <3>2 DEF DisabledNodeHasNoLiveCertificate, OneLiveCertificate, Live
    <3> QED
      BY <3>4, <3>5, <3>6, <3>7
  <2>3. ASSUME NEW p \in Requests, CreateEnrollmentCodeFails(p) PROVE CredentialInvariant'
    BY <2>0, <2>3, QuietStep DEF CreateEnrollmentCodeFails
  <2>4. ASSUME NEW p \in Requests, CleanUp(p) PROVE CredentialInvariant'
    <3>1. \A q \in Requests : req'[q].pc = "invite" =>
             req[q].pc = "invite" /\ req'[q] = req[q]
      BY <2>0, <2>4 DEF CleanUp, Become, Idle
    <3> QED
      BY <2>4, <3>1, DeleteStep DEF CleanUp
  <2>5. ASSUME NEW n \in Nodes, DisableNode(n) PROVE CredentialInvariant'
    <3>1. /\ DOMAIN nodes' = DOMAIN nodes
          /\ \A m \in DOMAIN nodes \ {n} : nodes'[m] = nodes[m]
          /\ DOMAIN certs' = DOMAIN certs
          /\ \A s \in DOMAIN certs :
                /\ certs'[s].node = certs[s].node
                /\ ~certs'[s].revoked => ~certs[s].revoked /\ certs[s].node # n
          /\ codes' = codes /\ results' = results /\ drawn' = drawn /\ req' = req
      BY <2>5 DEF DisableNode, TypeOK, IsTable, CertRow
    <3> QED
      BY <3>1 DEF RowsBelongToNodes, RowsAreDrawn, InvitedNodeIsBare,
                  UnusedCodeMeansNoCertificate, DisabledNodeHasNoLiveCertificate,
                  OneLiveCertificate, Live
  <2>6. ASSUME NEW n \in Nodes, RemoveNode(n) PROVE CredentialInvariant'
    BY <2>6, DeleteStep DEF RemoveNode
  <2>7. ASSUME NEW p \in Requests, NEW code \in Codes, NEW key \in Keys,
               EnrollFirst(p, code, key) \/ EnrollAgain(p, code, key)
        PROVE  CredentialInvariant'
    BY <2>0, <2>7, QuietStep DEF EnrollFirst, EnrollAgain
  <2>8. ASSUME NEW p \in Requests,
               \/ ReplayChecked(p) \/ EnrollCertificateFails(p) \/ ReplayAgain(p)
               \/ SendReply(p) \/ Abort(p)
        PROVE  CredentialInvariant'
    <3>1. PICK state : state.pc # "invite" /\ Become(p, state)
      BY <2>8 DEF ReplayChecked, EnrollCertificateFails, ReplayAgain, SendReply, Abort,
                  Reply, Idle
    <3>2. UNCHANGED tables /\ drawn \subseteq drawn'
      BY <2>8 DEF ReplayChecked, EnrollCertificateFails, ReplayAgain, SendReply, Abort
    <3> QED
      BY <2>0, <3>1, <3>2, QuietStep
  <2>9. ASSUME NEW p \in Requests, ResolveCode(p) PROVE CredentialInvariant'
    <3>1. PICK state : state.pc # "invite" /\ Become(p, state)
      BY <2>9 DEF ResolveCode, Idle
    <3> QED
      BY <2>0, <2>9, <3>1, QuietStep DEF ResolveCode
  <2>10. ASSUME NEW p \in Requests, EnrollCertificate(p) PROVE CredentialInvariant'
    <3> DEFINE c == req[p].code
               n == codes[c].node
               s == req[p].cert.serial
    <3>1. /\ c \in DOMAIN codes /\ ~codes[c].used /\ ~nodes[n]
          /\ s \notin DOMAIN certs
      BY <2>10 DEF EnrollCertificate, MayEnroll, CodeUsable
    <3>2. /\ DOMAIN certs' = DOMAIN certs \cup {s}
          /\ certs'[s].node = n
          /\ \A t \in DOMAIN certs : certs'[t] = certs[t]
      BY <2>10, <3>1 DEF EnrollCertificate, Put
    <3>3. /\ DOMAIN results' = DOMAIN results \cup {c}
          /\ results'[c].node = n
          /\ \A d \in DOMAIN results \ {c} : results'[d] = results[d]
      BY <2>10 DEF EnrollCertificate, Put
    <3>4. /\ DOMAIN codes' = DOMAIN codes
          /\ codes'[c].used
          /\ \A d \in DOMAIN codes : codes'[d].node = codes[d].node
          /\ \A d \in DOMAIN codes \ {c} : codes'[d] = codes[d]
      BY <2>10, <3>1 DEF EnrollCertificate, TypeOK, IsTable, CodeRow
    <3>5. nodes' = nodes /\ drawn' = drawn
      BY <2>10 DEF EnrollCertificate
    <3>6. \A q \in Requests : req'[q].pc = "invite" =>
             req[q].pc = "invite" /\ req'[q] = req[q]
      BY <2>0, <2>10 DEF EnrollCertificate, Become, Reply
    <3>7. n \in DOMAIN nodes /\ \A t \in DOMAIN certs : certs[t].node # n
      BY <3>1 DEF RowsBelongToNodes, UnusedCodeMeansNoCertificate
    <3>8. RowsBelongToNodes' /\ RowsAreDrawn'
      BY <3>2, <3>3, <3>4, <3>5, <3>7 DEF RowsBelongToNodes, RowsAreDrawn
    <3>9. InvitedNodeIsBare'
      BY <3>1, <3>2, <3>4, <3>5, <3>6 DEF InvitedNodeIsBare
    <3>10. UnusedCodeMeansNoCertificate'
      <4> SUFFICES ASSUME NEW d \in DOMAIN codes'
                   PROVE  /\ ~codes'[d].used =>
                               \A t \in DOMAIN certs' : certs'[t].node # codes'[d].node
                          /\ \A e \in DOMAIN codes' :
                               codes'[d].node = codes'[e].node => d = e
        BY DEF UnusedCodeMeansNoCertificate
      <4>1. codes'[d].node = n => d = c
        BY <3>1, <3>4 DEF UnusedCodeMeansNoCertificate
      <4> QED
        BY <3>1, <3>2, <3>4, <4>1 DEF UnusedCodeMeansNoCertificate
    <3>11. DisabledNodeHasNoLiveCertificate' /\ OneLiveCertificate'
      BY <3>1, <3>2, <3>5, <3>7
         DEF DisabledNodeHasNoLiveCertificate, OneLiveCertificate, Live
    <3> QED
      BY <3>8, <3>9, <3>10, <3>11
  <2>11. ASSUME NEW p \in Requests, NEW h \in handed, RenewStart(p, h.cert)
         PROVE  CredentialInvariant'
    BY <2>0, <2>11, QuietStep DEF RenewStart
  <2>12. ASSUME NEW p \in Requests, RenewCertificate(p) PROVE CredentialInvariant'
    <3> DEFINE old == req[p].old
               s == req[p].cert.serial
               n == certs[old].node
    <3>1. CASE Become(p, Idle) /\ UNCHANGED certs
      BY <2>0, <2>12, <3>1, QuietStep DEF RenewCertificate, Idle, tables
    <3>2. CASE /\ MayRenew(old, req[p].at)
               /\ s \notin DOMAIN certs
               /\ certs' = Put([certs EXCEPT ![old].revoked = TRUE], s,
                               [node |-> n, exp |-> req[p].cert.exp, revoked |-> FALSE])
               /\ Become(p, Reply(NoCode, req[p].cert))
      <4>1. old \in DOMAIN certs /\ ~certs[old].revoked /\ ~nodes[n] /\ old \in Serials
        BY <3>2 DEF MayRenew, CertificateAccepted, TypeOK, IsTable
      <4>2. /\ DOMAIN certs' = DOMAIN certs \cup {s}
            /\ certs'[s].node = n
            /\ certs'[old].revoked
            /\ \A t \in DOMAIN certs : certs'[t].node = certs[t].node
            /\ \A t \in DOMAIN certs \ {old} : certs'[t] = certs[t]
        BY <3>2, <4>1 DEF Put, TypeOK, IsTable, CertRow
      <4>3. nodes' = nodes /\ codes' = codes /\ results' = results /\ drawn' = drawn
        BY <2>12 DEF RenewCertificate
      <4>4. \A q \in Requests : req'[q].pc = "invite" =>
               req[q].pc = "invite" /\ req'[q] = req[q]
        BY <2>0, <3>2 DEF Become, Reply
      <4>5. RowsBelongToNodes' /\ RowsAreDrawn'
        BY <4>1, <4>2, <4>3 DEF RowsBelongToNodes, RowsAreDrawn
      <4>6. InvitedNodeIsBare'
        BY <4>1, <4>2, <4>3, <4>4 DEF InvitedNodeIsBare
      <4>7. UnusedCodeMeansNoCertificate'
        BY <4>1, <4>2, <4>3 DEF UnusedCodeMeansNoCertificate
      <4>8. DisabledNodeHasNoLiveCertificate' /\ OneLiveCertificate'
        BY <4>1, <4>2, <4>3
           DEF DisabledNodeHasNoLiveCertificate, OneLiveCertificate, Live, RowsBelongToNodes
      <4> QED
        BY <4>5, <4>6, <4>7, <4>8
    <3> QED
      BY <2>12, <3>1, <3>2 DEF RenewCertificate
  <2>13. CASE Crash
    <3>1. \A q \in Requests : req'[q].pc # "invite"
      BY <2>13 DEF Crash, Idle
    <3> QED
      BY <2>13, <3>1 DEF Crash, tables, RowsBelongToNodes, RowsAreDrawn, InvitedNodeIsBare,
                  UnusedCodeMeansNoCertificate, DisabledNodeHasNoLiveCertificate,
                  OneLiveCertificate, Live
  <2>14. CASE Tick
    BY <2>14 DEF Tick, tables, RowsBelongToNodes, RowsAreDrawn, InvitedNodeIsBare,
                 UnusedCodeMeansNoCertificate, DisabledNodeHasNoLiveCertificate,
                 OneLiveCertificate, Live
  <2> QED
    BY <2>1, <2>2, <2>3, <2>4, <2>5, <2>6, <2>7, <2>8, <2>9, <2>10, <2>11, <2>12, <2>13,
       <2>14 DEF Next
<1> QED
  BY <1>1, <1>2, TypeCorrect, PTL DEF Spec

(* For any number of nodes, requests in flight and certificates. *)
THEOREM AtMostOneLiveCertificate == Spec => []OneLiveCertificate
<1>1. CredentialInvariant => OneLiveCertificate
  BY DEF CredentialInvariant
<1> QED
  BY <1>1, CredentialsInvariant, PTL

(* Disabling is a cut that no request in flight can undo. *)
THEOREM DisabledIsCutOff == Spec => []DisabledNodeHasNoLiveCertificate
<1>1. CredentialInvariant => DisabledNodeHasNoLiveCertificate
  BY DEF CredentialInvariant
<1> QED
  BY <1>1, CredentialsInvariant, PTL

(* No code, result or certificate outlives its node. *)
THEOREM NothingOutlivesItsNode == Spec => []RowsBelongToNodes
<1>1. CredentialInvariant => RowsBelongToNodes
  BY DEF CredentialInvariant
<1> QED
  BY <1>1, CredentialsInvariant, PTL

-----------------------------------------------------------------------------
(* What agents were promised: the certificates they hold, will be answered *)
(* with or would get again. *)

(* A step under which no row changes hands: rows may go with their node,   *)
(* and a new node or code is freshly drawn.                                *)
TablesKept ==
    /\ drawn \subseteq drawn'
    /\ \A n \in DOMAIN nodes' : n \in drawn => n \in DOMAIN nodes
    /\ \A c \in DOMAIN codes' :
          \/ /\ c \in DOMAIN codes
             /\ codes'[c].node = codes[c].node /\ codes'[c].used = codes[c].used
          \/ c \in drawn' \ drawn
    /\ \A c \in DOMAIN results' : c \in DOMAIN results /\ results'[c] = results[c]
    /\ \A s \in DOMAIN certs' : /\ s \in DOMAIN certs
                                /\ certs'[s].node = certs[s].node
                                /\ certs'[s].exp = certs[s].exp
    /\ \A s \in DOMAIN certs : certs[s].node \in DOMAIN nodes' => s \in DOMAIN certs'

(* A handler that writes no table keeps the tables. *)
LEMMA QuietKeeps ==
    ASSUME UNCHANGED tables, drawn \subseteq drawn'
    PROVE  TablesKept
BY DEF TablesKept, tables

(* So does removing a node with what cascades from it. *)
LEMMA DeleteKeeps ==
    ASSUME NEW n, DeleteNode(n), UNCHANGED drawn
    PROVE  TablesKept
<1>1. /\ DOMAIN nodes' = DOMAIN nodes \ {n}
      /\ DOMAIN codes' = {c \in DOMAIN codes : codes[c].node # n}
      /\ DOMAIN results' = {c \in DOMAIN results : results[c].node # n}
      /\ DOMAIN certs' = {s \in DOMAIN certs : certs[s].node # n}
  BY DEF DeleteNode, RowsNotOf, Restrict
<1>2. /\ \A c \in DOMAIN codes' : codes'[c] = codes[c]
      /\ \A c \in DOMAIN results' : results'[c] = results[c]
      /\ \A s \in DOMAIN certs' : certs'[s] = certs[s]
  BY DEF DeleteNode, RowsNotOf, Restrict
<1> QED
  BY <1>1, <1>2 DEF TablesKept

(* What one handler's step adds to the pledges and to the serials known.   *)
LEMMA PledgedAfter ==
    ASSUME TablesKept, req \in [Requests -> RequestState],
           NEW p \in Requests, NEW state, Become(p, state),
           handed' \subseteq Pledged,
           state.pc \in {"replay", "reply"} =>
              [code |-> state.code, cert |-> state.cert] \in Pledged,
           state.pc = "renew" => state.old \in Known
    PROVE  Pledged' \subseteq Pledged /\ Known' \subseteq Known
<1>1. /\ req'[p] = state
      /\ \A q \in Requests \ {p} : req'[q] = req[q]
  BY DEF Become
<1>2. Pledged' \subseteq Pledged
  <2> SUFFICES ASSUME NEW g \in Pledged' PROVE g \in Pledged
    OBVIOUS
  <2>1. CASE g \in handed'
    BY <2>1
  <2>2. ASSUME NEW c \in DOMAIN results', g = [code |-> c, cert |-> results'[c].cert]
        PROVE  g \in Pledged
    BY <2>2 DEF TablesKept, Pledged
  <2>3. ASSUME NEW q \in Requests, req'[q].pc \in {"replay", "reply"},
               g = [code |-> req'[q].code, cert |-> req'[q].cert]
        PROVE  g \in Pledged
    <3>1. CASE q = p
      BY <1>1, <2>3, <3>1
    <3>2. CASE q # p
      BY <1>1, <2>3, <3>2 DEF Pledged
    <3> QED
      BY <3>1, <3>2
  <2> QED
    BY <2>1, <2>2, <2>3 DEF Pledged
<1>3. Known' \subseteq Known
  <2> SUFFICES ASSUME NEW s \in Known' PROVE s \in Known
    OBVIOUS
  <2>1. CASE s \in DOMAIN certs'
    BY <2>1 DEF TablesKept, Known
  <2>2. ASSUME NEW g \in Pledged', s = g.cert.serial PROVE s \in Known
    BY <1>2, <2>2 DEF Known
  <2>3. ASSUME NEW q \in Requests, req'[q].pc = "renew", s = req'[q].old
        PROVE  s \in Known
    <3>1. CASE q = p
      BY <1>1, <2>3, <3>1
    <3>2. CASE q # p
      BY <1>1, <2>3, <3>2 DEF Known
    <3> QED
      BY <3>1, <3>2
  <2> QED
    BY <2>1, <2>2, <2>3 DEF Known
<1> QED
  BY <1>2, <1>3

(* A step that promises nothing new leaves the promises persisted.         *)
LEMMA PersistedStays ==
    ASSUME PledgesArePersisted, TablesKept, Pledged' \subseteq Pledged
    PROVE  PledgesArePersisted'
<1> SUFFICES ASSUME NEW g \in Pledged'
             PROVE  g.cert.node \in drawn' /\ Persisted(g.cert)'
  BY DEF PledgesArePersisted
<1>1. g.cert.node \in drawn /\ Persisted(g.cert)
  BY DEF PledgesArePersisted
<1> QED
  BY <1>1 DEF TablesKept, Persisted

(* It lets no code earn another certificate. *)
LEMMA EarnedStays ==
    ASSUME CodesEarnOnce, NoCode \notin Codes, TypeOK, TablesKept, TypeOK',
           Pledged' \subseteq Pledged
    PROVE  CodesEarnOnce'
<1>1. DOMAIN codes' \subseteq drawn'
  BY DEF CodesEarnOnce, TablesKept
<1>2. \A g \in Pledged' : g.code \in drawn' \cup {NoCode}
  BY DEF CodesEarnOnce, TablesKept
<1>3. \A g, h \in Pledged' : g.code = h.code /\ g.code # NoCode => g.cert = h.cert
  BY DEF CodesEarnOnce
<1>4. ASSUME NEW c \in DOMAIN codes', ~codes'[c].used, NEW g \in Pledged'
      PROVE  g.code # c
  <2>1. CASE c \in DOMAIN codes /\ codes'[c].used = codes[c].used
    BY <1>4, <2>1 DEF CodesEarnOnce
  <2>2. CASE c \in drawn' \ drawn
    <3>1. c # NoCode
      BY DEF TypeOK, IsTable
    <3> QED
      BY <2>2, <3>1 DEF CodesEarnOnce
  <2> QED
    BY <2>1, <2>2 DEF TablesKept
<1> QED
  BY <1>1, <1>2, <1>3, <1>4 DEF CodesEarnOnce

(* A certificate that already waits keeps its node and its fresh serial.   *)
LEMMA WaitingStays ==
    ASSUME PledgeInvariant, TablesKept, Known' \subseteq Known,
           NEW p \in Requests, Pending(p), req'[p] = req[p]
    PROVE  /\ req'[p].cert.serial \in drawn' \ Known'
           /\ req'[p].cert.node \in drawn'
           /\ req'[p].pc = "persist" =>
                /\ req'[p].code \in drawn'
                /\ req'[p].code \in DOMAIN codes' =>
                     codes'[req'[p].code].node = req'[p].cert.node
           /\ req'[p].pc = "renew" =>
                (req'[p].old \in DOMAIN certs' =>
                   certs'[req'[p].old].node = req'[p].cert.node)
<1>1. req[p].cert.serial \in drawn \ Known /\ req[p].cert.node \in drawn
  BY DEF PledgeInvariant, PendingSerialsAreNew, PendingNamesItsNode
<1>2. req[p].pc = "persist" =>
         /\ req[p].code \in drawn
         /\ req[p].code \in DOMAIN codes => codes[req[p].code].node = req[p].cert.node
  BY DEF PledgeInvariant, PendingNamesItsNode
<1>3. req[p].pc = "renew" =>
         (req[p].old \in DOMAIN certs => certs[req[p].old].node = req[p].cert.node)
  BY DEF PledgeInvariant, PendingNamesItsNode
<1> QED
  BY <1>1, <1>2, <1>3 DEF TablesKept

(* A step that promises nothing and leaves nothing new to store preserves  *)
(* the whole pledge invariant.                                             *)
LEMMA SettledStep ==
    ASSUME PledgeInvariant, TypeOK, TypeOK', TablesKept,
           Pledged' \subseteq Pledged, Known' \subseteq Known,
           \A q \in Requests : Pending(q)' => Pending(q) /\ req'[q] = req[q]
    PROVE  PledgeInvariant'
<1>1. PledgesArePersisted' /\ CodesEarnOnce'
  BY PersistedStays, EarnedStays, ConstantsAssumption DEF PledgeInvariant
<1>2. PendingSerialsAreNew'
  <2>1. Known' \subseteq drawn'
    BY DEF PledgeInvariant, PendingSerialsAreNew, TablesKept
  <2>2. ASSUME NEW p \in Requests, Pending(p)'
        PROVE  /\ req'[p].cert.serial \in drawn' \ Known'
               /\ \A q \in Requests \ {p} :
                     Pending(q)' => req'[q].cert.serial # req'[p].cert.serial
    BY <2>2, WaitingStays DEF PledgeInvariant, PendingSerialsAreNew
  <2> QED
    BY <2>1, <2>2 DEF PendingSerialsAreNew
<1>3. PendingNamesItsNode'
  <2> SUFFICES ASSUME NEW p \in Requests, Pending(p)'
               PROVE  /\ req'[p].cert.node \in drawn'
                      /\ req'[p].pc = "persist" =>
                           /\ req'[p].code \in drawn'
                           /\ req'[p].code \in DOMAIN codes' =>
                                codes'[req'[p].code].node = req'[p].cert.node
                      /\ req'[p].pc = "renew" =>
                           (req'[p].old \in DOMAIN certs' =>
                              certs'[req'[p].old].node = req'[p].cert.node)
    BY DEF PendingNamesItsNode, Pending
  <2> QED
    BY WaitingStays
<1> QED
  BY <1>1, <1>2, <1>3 DEF PledgeInvariant

(* One handler's step that promises nothing new and issues nothing.        *)
LEMMA HandlerStep ==
    ASSUME PledgeInvariant, TypeOK, TypeOK', TablesKept,
           NEW p \in Requests, NEW state, Become(p, state),
           state.pc \notin {"persist", "renew"},
           handed' \subseteq Pledged,
           state.pc \in {"replay", "reply"} =>
              [code |-> state.code, cert |-> state.cert] \in Pledged
    PROVE  PledgeInvariant'
<1>1. req \in [Requests -> RequestState]
  BY DEF TypeOK
<1>2. Pledged' \subseteq Pledged /\ Known' \subseteq Known
  BY <1>1, PledgedAfter
<1>3. \A q \in Requests : Pending(q)' => Pending(q) /\ req'[q] = req[q]
  BY <1>1 DEF Become, Pending
<1> QED
  BY <1>2, <1>3, SettledStep

(* One handler's step that has a certificate issued, with a serial drawn   *)
(* for it and a node that exists or has existed.                           *)
LEMMA IssueStep ==
    ASSUME PledgeInvariant, TypeOK, TypeOK', UNCHANGED <<tables, handed>>,
           drawn \subseteq drawn',
           NEW p \in Requests, NEW state, Become(p, state),
           state.pc \in {"persist", "renew"},
           state.cert.serial \in drawn' \ drawn,
           state.cert.node \in drawn,
           state.pc = "persist" =>
              /\ state.code \in DOMAIN codes
              /\ codes[state.code].node = state.cert.node,
           state.pc = "renew" =>
              /\ state.old \in Known
              /\ state.old \in DOMAIN certs => certs[state.old].node = state.cert.node
    PROVE  PledgeInvariant'
<1>0. req \in [Requests -> RequestState]
  BY DEF TypeOK
<1>1. /\ req'[p] = state
      /\ \A q \in Requests \ {p} : req'[q] = req[q]
  BY <1>0 DEF Become
<1>2. TablesKept
  BY QuietKeeps
<1>3. handed' \subseteq Pledged
  BY DEF Pledged
<1>4. Pledged' \subseteq Pledged /\ Known' \subseteq Known
  BY <1>0, <1>2, <1>3, PledgedAfter
<1>5. PledgesArePersisted' /\ CodesEarnOnce'
  BY <1>2, <1>4, PersistedStays, EarnedStays, ConstantsAssumption DEF PledgeInvariant
<1>6. Known' \subseteq drawn
  BY <1>4 DEF PledgeInvariant, PendingSerialsAreNew
<1>7. \A q \in Requests \ {p} : Pending(q)' =>
         /\ Pending(q) /\ req'[q] = req[q]
         /\ req[q].cert.serial \in drawn
  BY <1>1 DEF Pending, PledgeInvariant, PendingSerialsAreNew
<1>8. PendingSerialsAreNew'
  <2>1. ASSUME NEW r \in Requests, Pending(r)'
        PROVE  req'[r].cert.serial \in drawn' \ Known'
    <3>1. CASE r = p
      BY <1>1, <1>6, <3>1
    <3>2. CASE r # p
      BY <1>2, <1>4, <1>7, <2>1, <3>2, WaitingStays
    <3> QED
      BY <3>1, <3>2
  <2>2. ASSUME NEW r \in Requests, Pending(r)', NEW q \in Requests \ {r}, Pending(q)'
        PROVE  req'[q].cert.serial # req'[r].cert.serial
    <3>1. CASE r = p
      BY <1>1, <1>7, <2>2, <3>1
    <3>2. CASE q = p
      BY <1>1, <1>7, <2>2, <3>2
    <3>3. CASE r # p /\ q # p
      BY <1>7, <2>2, <3>3 DEF PledgeInvariant, PendingSerialsAreNew
    <3> QED
      BY <3>1, <3>2, <3>3
  <2> QED
    BY <1>6, <2>1, <2>2 DEF PendingSerialsAreNew
<1>9. PendingNamesItsNode'
  <2> SUFFICES ASSUME NEW r \in Requests, Pending(r)'
               PROVE  /\ req'[r].cert.node \in drawn'
                      /\ req'[r].pc = "persist" =>
                           /\ req'[r].code \in drawn'
                           /\ req'[r].code \in DOMAIN codes' =>
                                codes'[req'[r].code].node = req'[r].cert.node
                      /\ req'[r].pc = "renew" =>
                           (req'[r].old \in DOMAIN certs' =>
                              certs'[req'[r].old].node = req'[r].cert.node)
    BY DEF PendingNamesItsNode, Pending
  <2>1. CASE r = p
    BY <1>1, <2>1 DEF PledgeInvariant, CodesEarnOnce, tables
  <2>2. CASE r # p
    BY <1>2, <1>4, <1>7, <2>2, WaitingStays
  <2> QED
    BY <2>1, <2>2
<1> QED
  BY <1>5, <1>8, <1>9 DEF PledgeInvariant

(* The transaction that stores a waiting certificate and answers with it.  *)
LEMMA StoreStep ==
    ASSUME PledgeInvariant, TypeOK, UNCHANGED <<nodes, drawn, handed>>,
           NEW p \in Requests, Pending(p), NEW code, Become(p, Reply(code, req[p].cert)),
           /\ DOMAIN codes' = DOMAIN codes
           /\ \A c \in DOMAIN codes : codes'[c].node = codes[c].node,
           \A c \in DOMAIN results' :
              \/ c \in DOMAIN results /\ results'[c] = results[c]
              \/ c = code /\ results'[c].cert = req[p].cert,
           /\ DOMAIN certs' = DOMAIN certs \cup {req[p].cert.serial}
           /\ \A s \in DOMAIN certs : /\ certs'[s].node = certs[s].node
                                      /\ certs'[s].exp = certs[s].exp
           /\ certs'[req[p].cert.serial].node = req[p].cert.node
           /\ certs'[req[p].cert.serial].exp = req[p].cert.exp
    PROVE  /\ Pledged' \subseteq Pledged \cup {[code |-> code, cert |-> req[p].cert]}
           /\ PledgesArePersisted' /\ PendingSerialsAreNew' /\ PendingNamesItsNode'
<1> DEFINE cert == req[p].cert
           promise == [code |-> code, cert |-> cert]
<1>0. req \in [Requests -> RequestState]
  BY DEF TypeOK
<1>1. /\ req'[p].pc = "reply" /\ req'[p].code = code /\ req'[p].cert = cert
      /\ \A q \in Requests \ {p} : req'[q] = req[q]
  BY <1>0 DEF Become, Reply
<1>2. Pledged' \subseteq Pledged \cup {promise}
  <2> SUFFICES ASSUME NEW g \in Pledged' PROVE g \in Pledged \/ g = promise
    OBVIOUS
  <2>1. CASE g \in handed'
    BY <2>1 DEF Pledged
  <2>2. ASSUME NEW c \in DOMAIN results', g = [code |-> c, cert |-> results'[c].cert]
        PROVE  g \in Pledged \/ g = promise
    BY <2>2 DEF Pledged
  <2>3. ASSUME NEW q \in Requests, req'[q].pc \in {"replay", "reply"},
               g = [code |-> req'[q].code, cert |-> req'[q].cert]
        PROVE  g \in Pledged \/ g = promise
    BY <1>1, <2>3 DEF Pledged
  <2> QED
    BY <2>1, <2>2, <2>3 DEF Pledged
<1>3. Known' \subseteq Known \cup {cert.serial}
  <2> SUFFICES ASSUME NEW s \in Known' PROVE s \in Known \/ s = cert.serial
    OBVIOUS
  <2>1. CASE s \in DOMAIN certs'
    BY <2>1 DEF Known
  <2>2. ASSUME NEW g \in Pledged', s = g.cert.serial PROVE s \in Known \/ s = cert.serial
    BY <1>2, <2>2 DEF Known
  <2>3. ASSUME NEW q \in Requests, req'[q].pc = "renew", s = req'[q].old
        PROVE  s \in Known
    BY <1>1, <2>3 DEF Known
  <2> QED
    BY <2>1, <2>2, <2>3 DEF Known
<1>4. /\ cert.serial \in drawn \ Known
      /\ cert.node \in drawn
      /\ cert.serial \notin DOMAIN certs
  BY DEF PledgeInvariant, PendingSerialsAreNew, PendingNamesItsNode, Known
<1>5. \A q \in Requests : Pending(q)' => q # p /\ Pending(q) /\ req'[q] = req[q]
  BY <1>1 DEF Pending
<1>6. PledgesArePersisted'
  <2> SUFFICES ASSUME NEW g \in Pledged'
               PROVE  g.cert.node \in drawn' /\ Persisted(g.cert)'
    BY DEF PledgesArePersisted
  <2>1. CASE g = promise
    BY <1>4, <2>1 DEF Persisted
  <2>2. CASE g \in Pledged
    <3>1. g.cert.node \in drawn /\ Persisted(g.cert)
      BY <2>2 DEF PledgeInvariant, PledgesArePersisted
    <3> QED
      BY <3>1 DEF Persisted
  <2> QED
    BY <1>2, <2>1, <2>2
<1>7. PendingSerialsAreNew'
  <2>1. Known' \subseteq drawn'
    BY <1>3, <1>4 DEF PledgeInvariant, PendingSerialsAreNew
  <2>2. ASSUME NEW r \in Requests, Pending(r)'
        PROVE  req'[r].cert.serial \in drawn' \ Known'
    BY <1>3, <1>5, <2>2 DEF PledgeInvariant, PendingSerialsAreNew
  <2>3. ASSUME NEW r \in Requests, Pending(r)', NEW q \in Requests \ {r}, Pending(q)'
        PROVE  req'[q].cert.serial # req'[r].cert.serial
    BY <1>5, <2>3 DEF PledgeInvariant, PendingSerialsAreNew
  <2> QED
    BY <2>1, <2>2, <2>3 DEF PendingSerialsAreNew
<1>8. PendingNamesItsNode'
  <2> SUFFICES ASSUME NEW r \in Requests, Pending(r)'
               PROVE  /\ req'[r].cert.node \in drawn'
                      /\ req'[r].pc = "persist" =>
                           /\ req'[r].code \in drawn'
                           /\ req'[r].code \in DOMAIN codes' =>
                                codes'[req'[r].code].node = req'[r].cert.node
                      /\ req'[r].pc = "renew" =>
                           (req'[r].old \in DOMAIN certs' =>
                              certs'[req'[r].old].node = req'[r].cert.node)
    BY DEF PendingNamesItsNode, Pending
  <2>1. Pending(r) /\ req'[r] = req[r]
    BY <1>5
  <2>2. req[r].pc = "renew" => req[r].old \in Known
    BY DEF Known
  <2>3. req[r].pc = "renew" => req[r].old # cert.serial
    BY <1>4, <2>2
  <2> QED
    BY <2>1, <2>3 DEF PledgeInvariant, PendingNamesItsNode
<1> QED
  BY <1>2, <1>6, <1>7, <1>8

(* What was promised stays true, whatever overlaps, fails, retries or      *)
(* crashes in between.                                                     *)
THEOREM PledgesInvariant == Spec => []RegistryInvariant
<1>1. Init => PledgeInvariant
  BY DEF Init, Idle, PledgeInvariant, PledgesArePersisted, PendingSerialsAreNew,
         PendingNamesItsNode, CodesEarnOnce, Pledged, Known, Pending
<1>2. TypeOK /\ TypeOK' /\ CredentialInvariant /\ PledgeInvariant /\ [Next]_vars
         => PledgeInvariant'
  <2> SUFFICES ASSUME TypeOK, TypeOK', CredentialInvariant, PledgeInvariant, [Next]_vars
               PROVE  PledgeInvariant'
    OBVIOUS
  <2>0. /\ req \in [Requests -> RequestState]
        /\ handed \subseteq Pledged
    BY DEF TypeOK, Pledged
  <2>1. ASSUME NEW p \in Requests, CreateNode(p) PROVE PledgeInvariant'
    <3>1. TablesKept
      BY <2>1, DrawFresh DEF CreateNode, Put, TablesKept
    <3> QED
      BY <2>0, <2>1, <3>1, HandlerStep DEF CreateNode
  <2>2. ASSUME NEW p \in Requests, CreateEnrollmentCode(p) PROVE PledgeInvariant'
    <3>1. Draw(Codes) \notin drawn
      BY <2>2, DrawFresh DEF CreateEnrollmentCode
    <3>2. TablesKept
      BY <2>2, <3>1 DEF CreateEnrollmentCode, Put, RowsNotOf, Restrict, TablesKept
    <3> QED
      BY <2>0, <2>2, <3>2, HandlerStep DEF CreateEnrollmentCode, Idle
  <2>3. ASSUME NEW p \in Requests, CreateEnrollmentCodeFails(p) PROVE PledgeInvariant'
    BY <2>0, <2>3, QuietKeeps, HandlerStep DEF CreateEnrollmentCodeFails
  <2>4. ASSUME NEW p \in Requests, CleanUp(p) PROVE PledgeInvariant'
    BY <2>0, <2>4, DeleteKeeps, HandlerStep DEF CleanUp, Idle
  <2>5. ASSUME UNCHANGED <<req, handed>>, TablesKept PROVE PledgeInvariant'
    <3>1. Pledged' \subseteq Pledged
      BY <2>5 DEF Pledged, TablesKept
    <3>2. Known' \subseteq Known
      BY <2>5, <3>1 DEF Known, TablesKept
    <3> QED
      BY <2>5, <3>1, <3>2, SettledStep DEF Pending
  <2>6. ASSUME NEW n \in Nodes, DisableNode(n) PROVE PledgeInvariant'
    <3>1. TablesKept
      BY <2>6 DEF DisableNode, TablesKept, TypeOK, IsTable, CertRow
    <3> QED
      BY <2>5, <2>6, <3>1 DEF DisableNode
  <2>7. ASSUME NEW n \in Nodes, RemoveNode(n) PROVE PledgeInvariant'
    BY <2>5, <2>7, DeleteKeeps DEF RemoveNode
  <2>8. ASSUME NEW p \in Requests, NEW code \in Codes, NEW key \in Keys,
               EnrollFirst(p, code, key)
        PROVE  PledgeInvariant'
    BY <2>0, <2>8, QuietKeeps, HandlerStep DEF EnrollFirst
  <2>9. ASSUME NEW p \in Requests, NEW code \in Codes, NEW key \in Keys,
               EnrollAgain(p, code, key)
        PROVE  PledgeInvariant'
    <3>1. [code |-> code, cert |-> results[code].cert] \in Pledged
      BY <2>9 DEF EnrollAgain, ReplayFor, Pledged
    <3> QED
      BY <2>0, <2>9, <3>1, QuietKeeps, HandlerStep DEF EnrollAgain
  <2>10. ASSUME NEW p \in Requests, ReplayChecked(p) PROVE PledgeInvariant'
    <3>1. [code |-> req[p].code, cert |-> req[p].cert] \in Pledged
      BY <2>10 DEF ReplayChecked, Pledged
    <3> QED
      BY <2>0, <2>10, <3>1, QuietKeeps, HandlerStep DEF ReplayChecked, Reply, Idle
  <2>11. ASSUME NEW p \in Requests, ResolveCode(p) PROVE PledgeInvariant'
    <3> DEFINE r == req[p]
               cert == IssueClientCertificate(codes[r.code].node, r.key, r.at)
               state == [pc |-> "persist", at |-> r.at, code |-> r.code, cert |-> cert]
    <3>1. CASE Become(p, Idle) /\ UNCHANGED drawn
      BY <2>0, <2>11, <3>1, QuietKeeps, HandlerStep DEF ResolveCode, Idle
    <3>2. CASE /\ CodeUsable(r.code, r.at)
               /\ CanDraw(Serials)
               /\ drawn' = drawn \cup {Draw(Serials)}
               /\ Become(p, state)
      <4>1. /\ cert.serial \in drawn' \ drawn
            /\ cert.node = codes[r.code].node
        BY <3>2, DrawFresh DEF IssueClientCertificate
      <4>2. r.code \in DOMAIN codes /\ codes[r.code].node \in drawn
        BY <3>2 DEF CodeUsable, CredentialInvariant, RowsBelongToNodes, RowsAreDrawn
      <4>3. UNCHANGED <<tables, handed>> /\ drawn \subseteq drawn'
        BY <2>11, <3>2 DEF ResolveCode
      <4> HIDE DEF cert
      <4> QED
        BY <3>2, <4>1, <4>2, <4>3, IssueStep
    <3> QED
      BY <2>11, <3>1, <3>2 DEF ResolveCode
  <2>12. ASSUME NEW p \in Requests, EnrollCertificate(p) PROVE PledgeInvariant'
    <3> DEFINE c == req[p].code
               cert == req[p].cert
               promise == [code |-> c, cert |-> cert]
    <3>1. /\ c \in DOMAIN codes /\ ~codes[c].used
          /\ req[p].pc = "persist" /\ Pending(p)
          /\ codes[c].node = cert.node
      BY <2>12 DEF EnrollCertificate, MayEnroll, CodeUsable, Pending,
                   PledgeInvariant, PendingNamesItsNode
    <3>2. /\ DOMAIN codes' = DOMAIN codes
          /\ codes'[c].used
          /\ \A d \in DOMAIN codes : codes'[d].node = codes[d].node
          /\ \A d \in DOMAIN codes \ {c} : codes'[d] = codes[d]
      BY <2>12, <3>1 DEF EnrollCertificate, TypeOK, IsTable, CodeRow
    <3>3. \A d \in DOMAIN results' :
             \/ d \in DOMAIN results /\ results'[d] = results[d]
             \/ d = c /\ results'[d].cert = cert
      BY <2>12 DEF EnrollCertificate, Put
    <3>4. /\ DOMAIN certs' = DOMAIN certs \cup {cert.serial}
          /\ \A s \in DOMAIN certs : certs'[s] = certs[s]
          /\ certs'[cert.serial].node = cert.node
          /\ certs'[cert.serial].exp = cert.exp
      BY <2>12, <3>1 DEF EnrollCertificate, Put
    <3>5. UNCHANGED <<nodes, drawn, handed>> /\ Become(p, Reply(c, cert))
      BY <2>12 DEF EnrollCertificate
    <3>6. /\ Pledged' \subseteq Pledged \cup {promise}
          /\ PledgesArePersisted' /\ PendingSerialsAreNew' /\ PendingNamesItsNode'
      BY <3>1, <3>2, <3>3, <3>4, <3>5, StoreStep
    <3>7. \A g \in Pledged : g.code # c
      BY <3>1 DEF PledgeInvariant, CodesEarnOnce
    <3>8. CodesEarnOnce'
      BY <3>2, <3>5, <3>6, <3>7, <3>1 DEF PledgeInvariant, CodesEarnOnce
    <3> QED
      BY <3>6, <3>8 DEF PledgeInvariant
  <2>13. ASSUME NEW p \in Requests, EnrollCertificateFails(p) PROVE PledgeInvariant'
    BY <2>0, <2>13, QuietKeeps, HandlerStep DEF EnrollCertificateFails
  <2>14. ASSUME NEW p \in Requests, ReplayAgain(p) PROVE PledgeInvariant'
    <3> DEFINE c == req[p].code
    <3>1. CASE ReplayFor(c, req[p].key)
      <4>1. [code |-> c, cert |-> results[c].cert] \in Pledged
        BY <3>1 DEF ReplayFor, Pledged
      <4> QED
        BY <2>0, <2>14, <3>1, <4>1, QuietKeeps, HandlerStep DEF ReplayAgain, Reply
    <3>2. CASE ~ReplayFor(c, req[p].key)
      BY <2>0, <2>14, <3>2, QuietKeeps, HandlerStep DEF ReplayAgain, Idle
    <3> QED
      BY <3>1, <3>2
  <2>15. ASSUME NEW p \in Requests, NEW h \in handed, RenewStart(p, h.cert)
         PROVE  PledgeInvariant'
    <3> DEFINE old == h.cert.serial
               cert == IssueClientCertificate(h.cert.node, h.cert.key, now)
               state == [pc |-> "renew", at |-> now, old |-> old, cert |-> cert]
    <3>1. /\ cert.serial \in drawn' \ drawn
          /\ cert.node = h.cert.node
      BY <2>15, DrawFresh DEF RenewStart, IssueClientCertificate
    <3>2. old \in DOMAIN certs /\ certs[old].node = h.cert.node
      BY <2>15 DEF RenewStart, ClientIdentity, CertificateAccepted
    <3>3. old \in Known /\ h.cert.node \in drawn
      BY <2>0, <3>2 DEF Known, PledgeInvariant, PledgesArePersisted
    <3>4. UNCHANGED <<tables, handed>> /\ drawn \subseteq drawn' /\ Become(p, state)
      BY <2>15 DEF RenewStart
    <3> HIDE DEF cert
    <3> QED
      BY <3>1, <3>2, <3>3, <3>4, IssueStep
  <2>16. ASSUME NEW p \in Requests, RenewCertificate(p) PROVE PledgeInvariant'
    <3> DEFINE old == req[p].old
               cert == req[p].cert
    <3>1. CASE Become(p, Idle) /\ UNCHANGED certs
      BY <2>0, <2>16, <3>1, QuietKeeps, HandlerStep DEF RenewCertificate, Idle, tables
    <3>2. CASE /\ MayRenew(old, req[p].at)
               /\ cert.serial \notin DOMAIN certs
               /\ certs' = Put([certs EXCEPT ![old].revoked = TRUE], cert.serial,
                               [node |-> certs[old].node, exp |-> cert.exp,
                                revoked |-> FALSE])
               /\ Become(p, Reply(NoCode, cert))
      <4>1. /\ old \in DOMAIN certs /\ Pending(p)
            /\ certs[old].node = cert.node
        BY <2>16, <3>2 DEF RenewCertificate, MayRenew, CertificateAccepted, Pending,
                    PledgeInvariant, PendingNamesItsNode
      <4>2. /\ DOMAIN certs' = DOMAIN certs \cup {cert.serial}
            /\ \A s \in DOMAIN certs : /\ certs'[s].node = certs[s].node
                                       /\ certs'[s].exp = certs[s].exp
            /\ certs'[cert.serial].node = cert.node
            /\ certs'[cert.serial].exp = cert.exp
        BY <3>2, <4>1 DEF Put, TypeOK, IsTable, CertRow
      <4>3. UNCHANGED <<nodes, codes, results, drawn, handed>>
        BY <2>16 DEF RenewCertificate
      <4>4. /\ Pledged' \subseteq Pledged \cup {[code |-> NoCode, cert |-> cert]}
            /\ PledgesArePersisted' /\ PendingSerialsAreNew' /\ PendingNamesItsNode'
        BY <3>2, <4>1, <4>2, <4>3, StoreStep
      <4>5. \A c \in DOMAIN codes : c # NoCode
        BY ConstantsAssumption DEF TypeOK, IsTable
      <4>6. CodesEarnOnce'
        BY <4>3, <4>4, <4>5 DEF PledgeInvariant, CodesEarnOnce
      <4> QED
        BY <4>4, <4>6 DEF PledgeInvariant
    <3> QED
      BY <2>16, <3>1, <3>2 DEF RenewCertificate
  <2>17. ASSUME NEW p \in Requests, SendReply(p) PROVE PledgeInvariant'
    <3>1. handed' \subseteq Pledged
      BY <2>0, <2>17 DEF SendReply, Pledged
    <3> QED
      BY <2>17, <3>1, QuietKeeps, HandlerStep DEF SendReply, Idle
  <2>18. ASSUME NEW p \in Requests, Abort(p) PROVE PledgeInvariant'
    BY <2>0, <2>18, QuietKeeps, HandlerStep DEF Abort, Idle
  <2>19. ASSUME Crash PROVE PledgeInvariant'
    <3>1. TablesKept /\ \A q \in Requests : req'[q].pc = "idle"
      BY <2>19, QuietKeeps DEF Crash, Idle
    <3>2. Pledged' \subseteq Pledged
      BY <2>19, <3>1 DEF Crash, tables, Pledged
    <3>3. Known' \subseteq Known
      BY <2>19, <3>1, <3>2 DEF Crash, tables, Known
    <3> QED
      BY <3>1, <3>2, <3>3, SettledStep DEF Pending
  <2>20. CASE Tick
    BY <2>5, <2>20, QuietKeeps DEF Tick
  <2>21. CASE UNCHANGED vars
    BY <2>5, <2>21, QuietKeeps DEF vars, tables
  <2> QED
    BY <2>1, <2>2, <2>3, <2>4, <2>6, <2>7, <2>8, <2>9, <2>10, <2>11, <2>12, <2>13,
       <2>14, <2>15, <2>16, <2>17, <2>18, <2>19, <2>20, <2>21 DEF Next
<1>3. RegistryInvariant <=> CredentialInvariant /\ PledgeInvariant
  BY DEF RegistryInvariant
<1> QED
  BY <1>1, <1>2, <1>3, TypeCorrect, CredentialsInvariant, PTL DEF Spec

(* A certificate an agent was handed is in the database with its node and  *)
(* its expiry for as long as the node exists.                              *)
THEOREM HandedIsPersisted == Spec => []HandedCertificateIsPersisted
<1>1. RegistryInvariant => HandedCertificateIsPersisted
  BY DEF RegistryInvariant, PledgeInvariant, PledgesArePersisted, Persisted, Pledged,
         HandedCertificateIsPersisted
<1> QED
  BY <1>1, PledgesInvariant, PTL

(* However often an enrollment is repeated, one code earns one certificate. *)
THEOREM OneCertificatePerCode == Spec => []CodeEarnsOneCertificate
<1>1. RegistryInvariant => CodeEarnsOneCertificate
  BY DEF RegistryInvariant, PledgeInvariant, CodesEarnOnce, Pledged,
         CodeEarnsOneCertificate
<1> QED
  BY <1>1, PledgesInvariant, PTL

-----------------------------------------------------------------------------
(* The node limit, and what revocation leaves behind. *)

(* The count and the insert are one transaction: no number of requests at  *)
(* once takes the table past its limit.                                    *)
THEOREM LimitHolds == Spec => []NodeLimitHolds
<1>1. Init => NodeLimitHolds
  BY FS_EmptySet, ConstantsAssumption DEF Init, NodeLimitHolds
<1>2. TypeOK /\ NodeLimitHolds /\ [Next]_vars => NodeLimitHolds'
  <2> SUFFICES ASSUME TypeOK, NodeLimitHolds, [Next]_vars PROVE NodeLimitHolds'
    OBVIOUS
  <2>0. IsFiniteSet(DOMAIN nodes) /\ Cardinality(DOMAIN nodes) \in Nat
    BY FS_Subset, FS_CardinalityType, ConstantsAssumption DEF TypeOK, IsTable
  <2>1. ASSUME NEW p \in Requests, CreateNode(p) PROVE NodeLimitHolds'
    <3> DEFINE n == Draw(Nodes)
    <3>1. DOMAIN nodes' = DOMAIN nodes \cup {n}
      BY <2>1 DEF CreateNode, Put
    <3>2. Cardinality(DOMAIN nodes') <= Cardinality(DOMAIN nodes) + 1
      BY <2>0, <3>1, FS_AddElement
    <3>3. Cardinality(DOMAIN nodes) < MaxNodes
      BY <2>0, <2>1, ConstantsAssumption DEF CreateNode, NodeLimitReached
    <3>4. Cardinality(DOMAIN nodes') \in Nat
      BY <2>0, <3>1, FS_AddElement, FS_CardinalityType
    <3> QED
      BY <2>0, <3>2, <3>3, <3>4, ConstantsAssumption DEF NodeLimitHolds
  <2>2. ASSUME DOMAIN nodes' \subseteq DOMAIN nodes PROVE NodeLimitHolds'
    <3>1. /\ Cardinality(DOMAIN nodes') \in Nat
          /\ Cardinality(DOMAIN nodes') <= Cardinality(DOMAIN nodes)
      BY <2>0, <2>2, FS_Subset, FS_CardinalityType
    <3> QED
      BY <2>0, <3>1, ConstantsAssumption DEF NodeLimitHolds
  <2>3. ASSUME NEW n, DeleteNode(n) PROVE NodeLimitHolds'
    BY <2>2, <2>3 DEF DeleteNode, Restrict
  <2>4. ASSUME NEW n \in Nodes, DisableNode(n) PROVE NodeLimitHolds'
    BY <2>2, <2>4 DEF DisableNode, TypeOK, IsTable
  <2>5. CASE UNCHANGED nodes
    BY <2>2, <2>5
  <2> QED
    BY <2>1, <2>3, <2>4, <2>5 DEF Next, vars, tables, CreateEnrollmentCode,
       CreateEnrollmentCodeFails, CleanUp, RemoveNode, EnrollFirst, EnrollAgain,
       ReplayChecked, ResolveCode, EnrollCertificate, EnrollCertificateFails,
       ReplayAgain, RenewStart, RenewCertificate, SendReply, Abort, Crash, Tick
<1> QED
  BY <1>1, <1>2, TypeCorrect, PTL DEF Spec

(* What a step does to the certificates and nodes that exist: a serial     *)
(* enters the table only from a handler it waited with, a revoked one      *)
(* stays revoked and a disabled node stays disabled.                       *)
Dwindles ==
    /\ \A s \in DOMAIN certs' :
          \/ /\ s \in DOMAIN certs
             /\ certs'[s].node = certs[s].node
             /\ certs[s].revoked => certs'[s].revoked
          \/ \E p \in Requests : Pending(p) /\ s = req[p].cert.serial
    /\ \A n \in DOMAIN nodes' :
          \/ n \in DOMAIN nodes /\ (nodes[n] => nodes'[n])
          \/ n \notin drawn

(* Every step does no more than that. *)
LEMMA NothingIsUnrevoked ==
    ASSUME TypeOK, [Next]_vars
    PROVE  Dwindles
<1>1. ASSUME NEW p \in Requests, CreateNode(p) PROVE Dwindles
  BY <1>1, DrawFresh DEF CreateNode, Put, Dwindles
<1>2. ASSUME NEW n, DeleteNode(n) PROVE Dwindles
  BY <1>2 DEF DeleteNode, RowsNotOf, Restrict, Dwindles
<1>3. ASSUME NEW n \in Nodes, DisableNode(n) PROVE Dwindles
  <2>1. \A m \in DOMAIN nodes' : m \in DOMAIN nodes /\ (nodes[m] => nodes'[m])
    BY <1>3 DEF DisableNode, TypeOK, IsTable
  <2>2. \A s \in DOMAIN certs' : /\ s \in DOMAIN certs
                                 /\ certs'[s].node = certs[s].node
                                 /\ certs[s].revoked => certs'[s].revoked
    BY <1>3 DEF DisableNode, TypeOK, IsTable, CertRow
  <2> QED
    BY <2>1, <2>2 DEF Dwindles
<1>4. ASSUME NEW p \in Requests, EnrollCertificate(p) PROVE Dwindles
  BY <1>4 DEF EnrollCertificate, Put, Pending, Dwindles
<1>5. ASSUME NEW p \in Requests, RenewCertificate(p) PROVE Dwindles
  <2>1. CASE UNCHANGED certs
    BY <1>5, <2>1 DEF RenewCertificate, Dwindles
  <2>2. CASE /\ MayRenew(req[p].old, req[p].at)
             /\ certs' = Put([certs EXCEPT ![req[p].old].revoked = TRUE],
                             req[p].cert.serial,
                             [node |-> certs[req[p].old].node,
                              exp |-> req[p].cert.exp, revoked |-> FALSE])
    <3>1. \A s \in DOMAIN certs' \ {req[p].cert.serial} :
             /\ s \in DOMAIN certs
             /\ certs'[s].node = certs[s].node
             /\ certs[s].revoked => certs'[s].revoked
      BY <2>2 DEF Put, TypeOK, IsTable, CertRow
    <3> QED
      BY <1>5, <3>1 DEF RenewCertificate, Pending, Dwindles
  <2> QED
    BY <1>5, <2>1, <2>2 DEF RenewCertificate
<1>6. CASE UNCHANGED <<nodes, certs>>
  BY <1>6 DEF Dwindles
<1> QED
  BY <1>1, <1>2, <1>3, <1>4, <1>5, <1>6 DEF Next, vars, tables, CreateEnrollmentCode,
     CreateEnrollmentCodeFails, CleanUp, RemoveNode, EnrollFirst, EnrollAgain,
     ReplayChecked, ResolveCode, EnrollCertificateFails, ReplayAgain, RenewStart,
     SendReply, Abort, Crash, Tick

(* A certificate an agent holds is never accepted again once it is revoked *)
(* or its node is disabled or removed.                                     *)
THEOREM RevocationNeverUndone == Spec => RevocationIsFinal
<1>1. TypeOK /\ RegistryInvariant /\ RegistryInvariant' /\ [Next]_vars =>
         \A h \in handed : LET s == h.cert.serial IN
            (Live(s) /\ ~nodes[certs[s].node])' => Live(s) /\ ~nodes[certs[s].node]
  <2> SUFFICES ASSUME TypeOK, RegistryInvariant, RegistryInvariant', [Next]_vars,
                      NEW h \in handed,
                      (Live(h.cert.serial) /\ ~nodes[certs[h.cert.serial].node])'
               PROVE  Live(h.cert.serial) /\ ~nodes[certs[h.cert.serial].node]
    OBVIOUS
  <2> DEFINE s == h.cert.serial
             n == certs[s].node
  <2>1. Dwindles
    BY NothingIsUnrevoked
  <2>2. \A p \in Requests : Pending(p) => req[p].cert.serial # s
    BY DEF RegistryInvariant, PledgeInvariant, PendingSerialsAreNew, Known, Pledged
  <2>3. s \in DOMAIN certs' /\ ~certs'[s].revoked /\ ~nodes'[certs'[s].node]
    BY DEF Live
  <2>4. s \in DOMAIN certs /\ certs'[s].node = n /\ ~certs[s].revoked
    BY <2>1, <2>2, <2>3 DEF Dwindles
  <2>5. n \in DOMAIN nodes /\ n \in drawn
    BY <2>4 DEF RegistryInvariant, CredentialInvariant, RowsBelongToNodes, RowsAreDrawn
  <2>6. n \in DOMAIN nodes'
    BY <2>3, <2>4 DEF RegistryInvariant, CredentialInvariant, RowsBelongToNodes
  <2> QED
    BY <2>1, <2>3, <2>4, <2>5, <2>6 DEF Dwindles, Live
<1> QED
  BY <1>1, TypeCorrect, PledgesInvariant, PTL DEF Spec, RevocationIsFinal

-----------------------------------------------------------------------------
(* The refinement: every step of the registry is one step in the life of a *)
(* node's credential, or none. *)

(* The credential of a node is its one live certificate.                   *)
CredentialIsLive ==
    \A n \in Nodes :
        /\ Credential[n] \in Serials \cup {None}
        /\ \A s \in Serials : Credential[n] = s <=> Live(s) /\ certs[s].node = n

(* It is, since there is at most one.                                      *)
LEMMA CredentialIs == TypeOK /\ OneLiveCertificate => CredentialIsLive
<1> SUFFICES ASSUME TypeOK, OneLiveCertificate, NEW n \in Nodes
             PROVE  /\ Credential[n] \in Serials \cup {None}
                    /\ \A s \in Serials :
                         Credential[n] = s <=> Live(s) /\ certs[s].node = n
  BY DEF CredentialIsLive
<1> DEFINE L == SerialsOf(n, FALSE)
<1>1. /\ L \subseteq Serials
      /\ \A s \in Serials : s \in L <=> Live(s) /\ certs[s].node = n
  BY DEF SerialsOf, Live, TypeOK, IsTable, CertRow
<1>2. Credential[n] = IF L = {} THEN None ELSE CHOOSE s \in L : TRUE
  BY DEF Credential
<1>3. \A s, t \in L : s = t
  BY <1>1 DEF OneLiveCertificate
<1>4. CASE L = {}
  BY <1>1, <1>2, <1>4, NoneAssumption
<1>5. CASE L # {}
  <2>1. Credential[n] \in L
    BY <1>2, <1>5
  <2> QED
    BY <1>1, <1>3, <2>1
<1> QED
  BY <1>4, <1>5

(* The credentials a node has had are its certificates, live or not.       *)
LEMMA SpentIs ==
    ASSUME TypeOK, OneLiveCertificate, NEW n \in Nodes
    PROVE  Lifecycle!Spent(n) = {s \in DOMAIN certs : certs[s].node = n}
<1>1. /\ Credential[n] \in Serials \cup {None}
      /\ \A s \in Serials : Credential[n] = s <=> Live(s) /\ certs[s].node = n
  BY CredentialIs DEF CredentialIsLive
<1>2. Revoked[n] = {s \in DOMAIN certs : certs[s].node = n /\ certs[s].revoked = TRUE}
  BY DEF Revoked, SerialsOf
<1>3. DOMAIN certs \subseteq Serials /\ \A s \in DOMAIN certs : certs[s].revoked \in BOOLEAN
  BY DEF TypeOK, IsTable, CertRow
<1>4. \A s : s \in {Credential[n]} \ {None} <=>
             s \in DOMAIN certs /\ ~certs[s].revoked /\ certs[s].node = n
  BY <1>1, <1>3, NoneAssumption DEF Live
<1> QED
  BY <1>2, <1>3, <1>4 DEF Lifecycle!Spent

(* A serial without a row is new to every node.                            *)
LEMMA UnstoredIsNew ==
    ASSUME TypeOK, OneLiveCertificate, NEW s \in Serials, s \notin DOMAIN certs
    PROVE  Lifecycle!New(s)
<1>1. \A n \in Nodes : s # Credential[n]
  BY CredentialIs DEF CredentialIsLive, Live
<1>2. \A n \in Nodes : s \notin Revoked[n]
  BY DEF Revoked, SerialsOf
<1> QED
  BY <1>1, <1>2 DEF Lifecycle!New

(* A step that writes neither nodes nor certificates, and draws no node,   *)
(* is invisible.                                                           *)
LEMMA Unseen ==
    ASSUME UNCHANGED <<nodes, certs>>, drawn' \cap Nodes = drawn \cap Nodes
    PROVE  UNCHANGED Lifecycle!vars
<1>1. Phase' = Phase
  BY DEF Phase
<1>2. Credential' = Credential /\ Revoked' = Revoked
  BY DEF Credential, Revoked, SerialsOf
<1> QED
  BY <1>1, <1>2 DEF Lifecycle!vars

(* The credentials after a step that changes those of one node only.       *)
LEMMA CredentialUpdate ==
    ASSUME TypeOK, OneLiveCertificate, TypeOK', OneLiveCertificate',
           NEW n \in Nodes, NEW c \in Serials \cup {None},
           \A s \in Serials : Live(s)' /\ certs'[s].node = n <=> s = c,
           \A m \in Nodes \ {n}, s \in Serials :
              Live(s)' /\ certs'[s].node = m <=> Live(s) /\ certs[s].node = m
    PROVE  Credential' = [Credential EXCEPT ![n] = c]
<1>1. \A m \in Nodes :
         /\ Credential[m] \in Serials \cup {None}
         /\ \A s \in Serials : Credential[m] = s <=> Live(s) /\ certs[s].node = m
  BY CredentialIs DEF CredentialIsLive
<1>2. \A m \in Nodes :
         /\ Credential'[m] \in Serials \cup {None}
         /\ \A s \in Serials : Credential'[m] = s <=> Live(s)' /\ certs'[s].node = m
  <2>1. TypeOK' /\ OneLiveCertificate' => CredentialIsLive'
    BY CredentialIs, PTL
  <2> QED
    BY <2>1 DEF CredentialIsLive
<1>3. Credential'[n] = c
  BY <1>2, NoneAssumption
<1>4. \A m \in Nodes \ {n} : Credential'[m] = Credential[m]
  BY <1>1, <1>2, NoneAssumption
<1>5. /\ DOMAIN Credential = Nodes /\ Credential = [m \in Nodes |-> Credential[m]]
      /\ DOMAIN Credential' = Nodes /\ Credential' = [m \in Nodes |-> Credential'[m]]
  BY DEF Credential
<1> QED
  BY <1>3, <1>4, <1>5

(* Deleting the row of a node with what cascades from it removes the node. *)
LEMMA DeleteIsRemove ==
    ASSUME TypeOK, TypeOK', CredentialInvariant, CredentialInvariant',
           NEW n \in Nodes, DeleteNode(n), UNCHANGED drawn
    PROVE  Lifecycle!Next \/ UNCHANGED Lifecycle!vars
<1>1. /\ DOMAIN nodes' = DOMAIN nodes \ {n}
      /\ \A m \in DOMAIN nodes' : nodes'[m] = nodes[m]
  BY DEF DeleteNode, Restrict
<1>2. /\ DOMAIN certs' = {s \in DOMAIN certs : certs[s].node # n}
      /\ \A s \in DOMAIN certs' : certs'[s] = certs[s]
  BY DEF DeleteNode, RowsNotOf, Restrict
<1>3. CASE n \in DOMAIN nodes
  <2>1. Phase[n] \in {"open", "closed"}
    BY <1>3 DEF Phase
  <2>2. n \in drawn
    BY <1>3 DEF CredentialInvariant, RowsAreDrawn
  <2>3. Phase' = [Phase EXCEPT ![n] = "removed"]
    BY <1>1, <2>2 DEF Phase
  <2>4. \A b \in BOOLEAN : /\ SerialsOf(n, b)' = {}
                           /\ \A m \in Nodes \ {n} : SerialsOf(m, b)' = SerialsOf(m, b)
    BY <1>2 DEF SerialsOf
  <2>5. /\ SerialsOf(n, FALSE)' = {} /\ SerialsOf(n, TRUE)' = {}
        /\ \A m \in Nodes \ {n} : /\ SerialsOf(m, FALSE)' = SerialsOf(m, FALSE)
                                  /\ SerialsOf(m, TRUE)' = SerialsOf(m, TRUE)
    BY <2>4
  <2>6. Credential' = [Credential EXCEPT ![n] = None]
    BY <1>2, NoneAssumption, CredentialUpdate DEF CredentialInvariant, Live
  <2>7. Revoked' = [Revoked EXCEPT ![n] = {}]
    BY <2>5 DEF Revoked
  <2> QED
    BY <2>1, <2>3, <2>6, <2>7 DEF Lifecycle!Next, Lifecycle!Remove
<1>4. CASE n \notin DOMAIN nodes
  <2>1. \A s \in DOMAIN certs : certs[s].node # n
    BY <1>4 DEF CredentialInvariant, RowsBelongToNodes
  <2>2. nodes' = nodes
    BY <1>4 DEF DeleteNode, Restrict, TypeOK, IsTable
  <2>3. certs' = certs
    BY <1>2, <2>1 DEF TypeOK, IsTable
  <2> QED
    BY <2>2, <2>3, Unseen
<1> QED
  BY <1>3, <1>4

(* Storing the certificate of an enrollment is the one enrollment of its   *)
(* node.                                                                   *)
LEMMA EnrollCertificateIsEnroll ==
    ASSUME TypeOK, TypeOK', CredentialInvariant, CredentialInvariant',
           NEW p \in Requests, EnrollCertificate(p)
    PROVE  Lifecycle!Next
<1> DEFINE c == req[p].code
           n == codes[c].node
           s == req[p].cert.serial
<1>1. /\ c \in DOMAIN codes /\ ~codes[c].used /\ ~nodes[n]
      /\ n \in Nodes /\ n \in DOMAIN nodes
      /\ s \notin DOMAIN certs
  BY DEF EnrollCertificate, MayEnroll, CodeUsable, TypeOK, IsTable, CodeRow,
         CredentialInvariant, RowsBelongToNodes
<1>2. \A t \in DOMAIN certs : certs[t].node # n
  BY <1>1 DEF CredentialInvariant, UnusedCodeMeansNoCertificate
<1>3. /\ DOMAIN certs' = DOMAIN certs \cup {s}
      /\ certs'[s].node = n /\ certs'[s].revoked = FALSE
      /\ \A t \in DOMAIN certs : certs'[t] = certs[t]
  BY <1>1 DEF EnrollCertificate, Put
<1>4. s \in Serials
  BY <1>3 DEF TypeOK, IsTable
<1>5. Phase[n] = "open" /\ UNCHANGED Phase
  BY <1>1 DEF EnrollCertificate, Phase
<1>6. Lifecycle!Spent(n) = {} /\ Lifecycle!New(s)
  BY <1>1, <1>2, <1>4, SpentIs, UnstoredIsNew DEF CredentialInvariant
<1>7. Credential' = [Credential EXCEPT ![n] = s]
  <2>1. \A t \in Serials : Live(t)' /\ certs'[t].node = n <=> t = s
    BY <1>2, <1>3 DEF Live
  <2>2. \A m \in Nodes \ {n}, t \in Serials :
           Live(t)' /\ certs'[t].node = m <=> Live(t) /\ certs[t].node = m
    BY <1>1, <1>3 DEF Live
  <2> QED
    BY <1>1, <1>4, <2>1, <2>2, CredentialUpdate DEF CredentialInvariant
<1>8. UNCHANGED Revoked
  <2>1. \A m \in Nodes : SerialsOf(m, TRUE)' = SerialsOf(m, TRUE)
    BY <1>1, <1>3 DEF SerialsOf
  <2> QED
    BY <2>1 DEF Revoked
<1> QED
  BY <1>1, <1>4, <1>5, <1>6, <1>7, <1>8 DEF Lifecycle!Next, Lifecycle!Enroll

(* Storing a renewed certificate swaps the node's credential for it.       *)
LEMMA RenewCertificateIsRenew ==
    ASSUME TypeOK, TypeOK', CredentialInvariant, CredentialInvariant',
           NEW p \in Requests, RenewCertificate(p), certs' # certs
    PROVE  Lifecycle!Next
<1> DEFINE old == req[p].old
           s == req[p].cert.serial
<1>0. MayRenew(old, req[p].at) /\ certs[old].node \in Nodes
  BY DEF RenewCertificate, MayRenew, CertificateAccepted, TypeOK, IsTable, CertRow
<1>n. PICK n \in Nodes : n = certs[old].node
  BY <1>0
<1>1. /\ MayRenew(old, req[p].at)
      /\ s \notin DOMAIN certs
      /\ certs' = Put([certs EXCEPT ![old].revoked = TRUE], s,
                      [node |-> n, exp |-> req[p].cert.exp, revoked |-> FALSE])
  BY <1>n DEF RenewCertificate
<1>2. /\ old \in DOMAIN certs /\ ~certs[old].revoked /\ ~nodes[n]
      /\ old \in Serials /\ n \in DOMAIN nodes /\ certs[old].node = n
  BY <1>1, <1>n DEF MayRenew, CertificateAccepted, TypeOK, IsTable,
                    CredentialInvariant, RowsBelongToNodes
<1>3. /\ DOMAIN certs' = DOMAIN certs \cup {s}
      /\ certs'[s].node = n /\ certs'[s].revoked = FALSE
      /\ certs'[old].node = n /\ certs'[old].revoked = TRUE
      /\ \A t \in DOMAIN certs \ {old} : certs'[t] = certs[t]
  BY <1>1, <1>2 DEF Put, TypeOK, IsTable, CertRow
<1>4. s \in Serials
  BY <1>3 DEF TypeOK, IsTable
<1>5. Phase[n] = "open" /\ UNCHANGED Phase
  BY <1>2 DEF RenewCertificate, Phase
<1>6. Credential[n] = old /\ Credential[n] # None
  BY <1>2, CredentialIs, NoneAssumption DEF CredentialIsLive, CredentialInvariant, Live
<1>7. Lifecycle!New(s)
  BY <1>1, <1>4, UnstoredIsNew DEF CredentialInvariant
<1>8. \A t \in DOMAIN certs : certs[t].node = n /\ t # old => certs[t].revoked = TRUE
  BY <1>2 DEF CredentialInvariant, OneLiveCertificate, Live, TypeOK, IsTable, CertRow
<1>9. Credential' = [Credential EXCEPT ![n] = s]
  <2>1. \A t \in Serials : Live(t)' /\ certs'[t].node = n <=> t = s
    BY <1>1, <1>2, <1>3, <1>8 DEF Live
  <2>2. \A m \in Nodes \ {n}, t \in Serials :
           Live(t)' /\ certs'[t].node = m <=> Live(t) /\ certs[t].node = m
    <3> TAKE m \in Nodes \ {n}, t \in Serials
    <3>1. CASE t \in {s, old}
      <4>1. ~ (certs'[t].node = m)
        BY <1>3, <3>1
      <4>2. ~ (t \in DOMAIN certs /\ certs[t].node = m)
        BY <1>1, <1>2, <3>1
      <4> QED
        BY <4>1, <4>2 DEF Live
    <3>2. CASE t \notin {s, old}
      <4>1. t \in DOMAIN certs' <=> t \in DOMAIN certs
        BY <1>3, <3>2
      <4>2. t \in DOMAIN certs => certs'[t] = certs[t]
        BY <1>3, <3>2
      <4> QED
        BY <4>1, <4>2 DEF Live
    <3> QED
      BY <3>1, <3>2
  <2> QED
    BY <1>2, <1>4, <2>1, <2>2, CredentialUpdate DEF CredentialInvariant
<1>10. Revoked' = [Revoked EXCEPT ![n] = Lifecycle!Spent(n)]
  <2>1. Lifecycle!Spent(n) = {t \in DOMAIN certs : certs[t].node = n}
    BY <1>2, SpentIs DEF CredentialInvariant
  <2>2. SerialsOf(n, TRUE)' =
           {t \in DOMAIN certs' : certs'[t].node = n /\ certs'[t].revoked = TRUE}
    BY DEF SerialsOf
  <2>3. \A t : t \in DOMAIN certs' /\ certs'[t].node = n /\ certs'[t].revoked = TRUE
                 <=> t \in DOMAIN certs /\ certs[t].node = n
    <3> TAKE t
    <3>1. CASE t \in {s, old}
      BY <1>1, <1>2, <1>3, <3>1
    <3>2. CASE t \notin {s, old}
      <4>1. t \in DOMAIN certs' <=> t \in DOMAIN certs
        BY <1>3, <3>2
      <4>2. t \in DOMAIN certs => certs'[t] = certs[t]
        BY <1>3, <3>2
      <4> QED
        BY <1>8, <3>2, <4>1, <4>2
    <3> QED
      BY <3>1, <3>2
  <2>4. SerialsOf(n, TRUE)' = Lifecycle!Spent(n)
    BY <2>1, <2>2, <2>3
  <2>5. \A m \in Nodes \ {n} : SerialsOf(m, TRUE)' = SerialsOf(m, TRUE)
    <3>1. \A m \in Nodes \ {n} : \A t :
             t \in DOMAIN certs' /\ certs'[t].node = m /\ certs'[t].revoked = TRUE
             <=> t \in DOMAIN certs /\ certs[t].node = m /\ certs[t].revoked = TRUE
      <4> TAKE m \in Nodes \ {n}
      <4> TAKE t
      <4>1. CASE t \in {s, old}
        <5>1. ~ (certs'[t].node = m)
          BY <1>3, <4>1
        <5>2. ~ (t \in DOMAIN certs /\ certs[t].node = m)
          BY <1>1, <1>2, <4>1
        <5> QED
          BY <5>1, <5>2
      <4>2. CASE t \notin {s, old}
        <5>1. t \in DOMAIN certs' <=> t \in DOMAIN certs
          BY <1>3, <4>2
        <5>2. t \in DOMAIN certs => certs'[t] = certs[t]
          BY <1>3, <4>2
        <5> QED
          BY <5>1, <5>2
      <4> QED
        BY <4>1, <4>2
    <3> QED
      BY <3>1 DEF SerialsOf
  <2>6. /\ Revoked' = [m \in Nodes |-> SerialsOf(m, TRUE)']
        /\ Revoked = [m \in Nodes |-> SerialsOf(m, TRUE)]
    BY DEF Revoked
  <2> QED
    BY <1>2, <2>4, <2>5, <2>6
<1> QED
  BY <1>2, <1>4, <1>5, <1>6, <1>7, <1>9, <1>10 DEF Lifecycle!Next, Lifecycle!Renew

(* Disabling an open node closes it; disabling it again changes nothing.   *)
LEMMA DisableIsClose ==
    ASSUME TypeOK, TypeOK', CredentialInvariant, CredentialInvariant',
           NEW n \in Nodes, DisableNode(n)
    PROVE  Lifecycle!Next \/ UNCHANGED Lifecycle!vars
<1>1. /\ n \in DOMAIN nodes /\ DOMAIN nodes' = DOMAIN nodes
      /\ nodes'[n] = TRUE
      /\ \A m \in DOMAIN nodes \ {n} : nodes'[m] = nodes[m]
  BY DEF DisableNode, TypeOK, IsTable
<1>2. /\ DOMAIN certs' = DOMAIN certs
      /\ \A s \in DOMAIN certs : /\ certs'[s].node = certs[s].node
                                 /\ certs[s].node = n => certs'[s].revoked = TRUE
                                 /\ certs[s].node # n => certs'[s] = certs[s]
  BY DEF DisableNode, TypeOK, IsTable, CertRow
<1>3. drawn' = drawn
  BY DEF DisableNode
<1>4. CASE ~nodes[n]
  <2>1. Phase[n] = "open"
    BY <1>1, <1>4 DEF Phase
  <2>2. Phase' = [Phase EXCEPT ![n] = "closed"]
    BY <1>1, <1>3 DEF Phase
  <2>3. Credential' = [Credential EXCEPT ![n] = None]
    <3>1. \A s \in Serials : Live(s)' /\ certs'[s].node = n <=> s = None
      BY <1>2, NoneAssumption DEF Live
    <3>2. \A m \in Nodes \ {n}, s \in Serials :
             Live(s)' /\ certs'[s].node = m <=> Live(s) /\ certs[s].node = m
      BY <1>2 DEF Live
    <3> QED
      BY <3>1, <3>2, CredentialUpdate DEF CredentialInvariant
  <2>4. Revoked' = [Revoked EXCEPT ![n] = Lifecycle!Spent(n)]
    <3>1. SerialsOf(n, TRUE)' = Lifecycle!Spent(n)
      BY <1>2, SpentIs DEF SerialsOf, CredentialInvariant
    <3>2. \A m \in Nodes \ {n} : SerialsOf(m, TRUE)' = SerialsOf(m, TRUE)
      BY <1>2 DEF SerialsOf
    <3> QED
      BY <3>1, <3>2 DEF Revoked
  <2> QED
    BY <2>1, <2>2, <2>3, <2>4 DEF Lifecycle!Next, Lifecycle!Close
<1>5. CASE nodes[n]
  <2>1. nodes' = nodes
    BY <1>5 DEF DisableNode, TypeOK, IsTable
  <2>2. \A s \in DOMAIN certs : certs[s].node = n => certs[s].revoked = TRUE
    BY <1>5 DEF CredentialInvariant, DisabledNodeHasNoLiveCertificate, Live,
                TypeOK, IsTable, CertRow
  <2>3. \A s \in DOMAIN certs : certs'[s] = certs[s]
    <3>1. ASSUME NEW s \in DOMAIN certs, certs[s].node = n PROVE certs'[s] = certs[s]
      <4>1. certs'[s] = [certs[s] EXCEPT !.revoked = TRUE]
        BY <3>1 DEF DisableNode
      <4>2. certs[s] \in CertRow /\ certs[s].revoked = TRUE
        BY <2>2, <3>1 DEF TypeOK, IsTable
      <4> QED
        BY <4>1, <4>2 DEF CertRow
    <3> QED
      BY <1>2, <3>1
  <2>4. certs' = certs
    BY <1>2, <2>3 DEF TypeOK, IsTable
  <2> QED
    BY <1>3, <2>1, <2>4, Unseen
<1> QED
  BY <1>4, <1>5

(* Registry implements CertificateLifecycle: tables, handlers, codes,      *)
(* retries, lost answers and crashes never do to a node's credential what  *)
(* the abstract life of a credential does not allow.                       *)
THEOREM RegistryImplementsLifecycle == Spec => ImplementsLifecycle
<1>1. Init => Lifecycle!Init
  BY DEF Init, Lifecycle!Init, Phase, Credential, Revoked, SerialsOf
<1>2. /\ TypeOK /\ TypeOK' /\ CredentialInvariant /\ CredentialInvariant'
      /\ [Next]_vars
      => [Lifecycle!Next]_Lifecycle!vars
  <2> SUFFICES ASSUME TypeOK, TypeOK', CredentialInvariant, CredentialInvariant',
                      [Next]_vars
               PROVE  Lifecycle!Next \/ UNCHANGED Lifecycle!vars
    OBVIOUS
  <2>1. ASSUME NEW p \in Requests, CreateNode(p) PROVE Lifecycle!Next
    <3> DEFINE n == Draw(Nodes)
    <3>1. n \in Nodes /\ n \notin drawn /\ n \notin DOMAIN nodes
      BY <2>1, DrawFresh DEF CreateNode, CredentialInvariant, RowsAreDrawn
    <3>2. /\ DOMAIN nodes' = DOMAIN nodes \cup {n} /\ nodes'[n] = FALSE
          /\ \A m \in DOMAIN nodes : nodes'[m] = nodes[m]
          /\ drawn' = drawn \cup {n} /\ certs' = certs
      BY <2>1, <3>1 DEF CreateNode, Put
    <3>3. Phase[n] = "unborn" /\ Phase' = [Phase EXCEPT ![n] = "open"]
      BY <3>1, <3>2 DEF Phase
    <3>4. UNCHANGED <<Credential, Revoked>>
      BY <3>2 DEF Credential, Revoked, SerialsOf
    <3> QED
      BY <3>1, <3>3, <3>4 DEF Lifecycle!Next, Lifecycle!Register
  <2>2. ASSUME NEW p \in Requests,
               CreateEnrollmentCode(p) \/ ResolveCode(p)
                  \/ \E h \in handed : RenewStart(p, h.cert)
        PROVE  UNCHANGED Lifecycle!vars
    <3>1. UNCHANGED <<nodes, certs>>
      BY <2>2 DEF CreateEnrollmentCode, ResolveCode, RenewStart, tables
    <3>2. drawn' = drawn \/ \E x \in Codes \cup Serials : drawn' = drawn \cup {x}
      BY <2>2, DrawFresh DEF CreateEnrollmentCode, ResolveCode, RenewStart
    <3>3. drawn' \cap Nodes = drawn \cap Nodes
      BY <3>2, ConstantsAssumption
    <3> QED
      BY <3>1, <3>3, Unseen
  <2>3. ASSUME UNCHANGED <<nodes, certs, drawn>> PROVE UNCHANGED Lifecycle!vars
    BY <2>3, Unseen
  <2>4. ASSUME NEW p \in Requests, CleanUp(p)
        PROVE  Lifecycle!Next \/ UNCHANGED Lifecycle!vars
    <3>1. req[p].node \in Nodes
      BY <2>4, StageFields DEF CleanUp, TypeOK
    <3> QED
      BY <2>4, <3>1, DeleteIsRemove DEF CleanUp
  <2>5. ASSUME NEW n \in Nodes, RemoveNode(n)
        PROVE  Lifecycle!Next \/ UNCHANGED Lifecycle!vars
    BY <2>5, DeleteIsRemove DEF RemoveNode
  <2>6. ASSUME NEW n \in Nodes, DisableNode(n)
        PROVE  Lifecycle!Next \/ UNCHANGED Lifecycle!vars
    BY <2>6, DisableIsClose
  <2>7. ASSUME NEW p \in Requests, EnrollCertificate(p) PROVE Lifecycle!Next
    BY <2>7, EnrollCertificateIsEnroll
  <2>8. ASSUME NEW p \in Requests, RenewCertificate(p)
        PROVE  Lifecycle!Next \/ UNCHANGED Lifecycle!vars
    BY <2>3, <2>8, RenewCertificateIsRenew DEF RenewCertificate
  <2> QED
    BY <2>1, <2>2, <2>3, <2>4, <2>5, <2>6, <2>7, <2>8 DEF Next, vars, tables,
       CreateEnrollmentCodeFails, EnrollFirst, EnrollAgain, ReplayChecked,
       EnrollCertificateFails, ReplayAgain, SendReply, Abort, Crash, Tick
<1>3. ImplementsLifecycle <=> Lifecycle!Init /\ [][Lifecycle!Next]_Lifecycle!vars
  BY DEF ImplementsLifecycle, Lifecycle!Spec
<1> QED
  BY <1>1, <1>2, <1>3, TypeCorrect, CredentialsInvariant, PTL DEF Spec
=============================================================================
