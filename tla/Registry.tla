------------------------------ MODULE Registry ------------------------------
(***************************************************************************)
(* The server's registry of nodes, enrollment codes and agent certificates *)
(* (internal/server/store.go) under the request handlers that change it:   *)
(* the monitor's create, disable and remove (web.go), enrollment           *)
(* (certificates.go, enrollment_http.go) and renewal (renewal.go).         *)
(*                                                                         *)
(* The database holds one connection (SetMaxOpenConns(1)), so a statement  *)
(* or a transaction is one atomic step; a handler that runs several is     *)
(* interleaved with every other handler between them.  A table is a        *)
(* function whose domain is the set of primary keys present.  A refused    *)
(* request changes nothing and goes back to Idle, or never leaves it.      *)
(* An operator X_Y is X with a plausible bug: Next never uses it, and TLC  *)
(* refutes a property once it stands for X.                                *)
(***************************************************************************)
EXTENDS Integers, FiniteSets, Functions

CONSTANTS
    Nodes,          \* node ids randomID can draw
    Codes,          \* enrollment codes the service can draw
    Serials,        \* certificate serial numbers the CA can draw
    Keys,           \* public keys of agents
    Requests,       \* handlers that may be in flight at once
    MaxNodes,       \* store.go MaxNodes
    CodeTTL,        \* validity of an enrollment code
    CertTTL,        \* validity of a certificate
    RenewWindow,    \* final part of a certificate's life in which it renews
    NoCode,         \* marks a certificate earned by renewal
    MaxTime         \* bound on the clock, for TLC

ASSUME ConstantsAssumption ==
    /\ IsFiniteSet(Nodes)
    /\ Nodes \cap (Codes \cup Serials) = {}    \* a node id is no code and no serial
    /\ MaxNodes \in Nat
    /\ CodeTTL \in Nat /\ CertTTL \in Nat /\ RenewWindow \in Nat
    /\ MaxTime \in Nat
    /\ NoCode \notin Codes

VARIABLES
    now,      \* the server's clock
    nodes,    \* table nodes: id -> disabled
    codes,    \* table enrollment_codes: code -> [node, exp, used]
    results,  \* table enrollment_results: code -> [node, cert]
    certs,    \* table agent_certificates: serial -> [node, exp, revoked]
    drawn,    \* ids, codes and serials drawn so far: a random draw is fresh
    req,      \* what each handler is in the middle of
    handed    \* certificates that reached an agent, with the code that earned them

tables == <<nodes, codes, results, certs>>
vars == <<now, nodes, codes, results, certs, drawn, req, handed>>

(* IssuedCertificate: exp is the expiry of the answer and of the row; the  *)
(* X.509 in it is cut to whole seconds, which no handler of the server     *)
(* reads (AgentCredentials does).                                          *)
Certificate == [serial : Serials, node : Nodes, key : Keys, exp : Nat]
Idle == [pc |-> "idle"]
RequestState ==
         {Idle}
    \cup [pc : {"invite", "cleanup"}, node : Nodes]
    \cup [pc : {"resolve"}, at : Nat, code : Codes, key : Keys]
    \cup [pc : {"replay", "persist"}, at : Nat, code : Codes, cert : Certificate]
    \cup [pc : {"replayAgain"}, code : Codes, key : Keys]
    \cup [pc : {"renew"}, at : Nat, old : Serials, cert : Certificate]
    \cup [pc : {"reply"}, code : Codes \cup {NoCode}, cert : Certificate]

CodeRow == [node : Nodes, exp : Nat, used : BOOLEAN]
ResultRow == [node : Nodes, cert : Certificate]
CertRow == [node : Nodes, exp : Nat, revoked : BOOLEAN]

Init ==
    /\ now = 0
    /\ nodes = << >> /\ codes = << >> /\ results = << >> /\ certs = << >>
    /\ drawn = {}
    /\ req = [p \in Requests |-> Idle]
    /\ handed = {}

-----------------------------------------------------------------------------
(* SQL statements on a table. *)
Put(table, id, row) ==
    [k \in DOMAIN table \cup {id} |-> IF k = id THEN row ELSE table[k]]
RowsNotOf(table, n) == Restrict(table, {k \in DOMAIN table : table[k].node # n})

(* rand.Read: which value is drawn does not matter, only that it is new. *)
Draw(S) == CHOOSE x \in S \ drawn : TRUE
CanDraw(S) == S \ drawn # {}

Become(p, state) == req' = [req EXCEPT ![p] = state]

-----------------------------------------------------------------------------
(* The checks the store makes before it writes. *)
NodeLimitReached_OffByOne == Cardinality(DOMAIN nodes) > MaxNodes
NodeLimitReached == Cardinality(DOMAIN nodes) >= MaxNodes

CodeUsable(code, at) ==             \* NodeForEnrollmentCode
    /\ code \in DOMAIN codes
    /\ ~codes[code].used
    /\ at < codes[code].exp

MayEnroll_DisabledUnchecked(code, at) == CodeUsable(code, at)
MayEnroll(code, at) ==              \* what EnrollCertificate checks again
    /\ CodeUsable(code, at)
    /\ ~nodes[codes[code].node]

CertificateAccepted(s, at) ==       \* NodeForCertificate
    /\ s \in DOMAIN certs
    /\ ~certs[s].revoked
    /\ ~nodes[certs[s].node]
    /\ at < certs[s].exp

MayRenew_RevokedUnchecked(s, at) ==
    s \in DOMAIN certs /\ at < certs[s].exp /\ at >= certs[s].exp - RenewWindow
MayRenew(s, at) ==                  \* what RenewCertificate checks again
    /\ CertificateAccepted(s, at)
    /\ at >= certs[s].exp - RenewWindow

ReplayFor(code, key) ==             \* EnrollmentReplay found a row of this key
    code \in DOMAIN results /\ results[code].cert.key = key

IssueClientCertificate_Backdated(n, key, at) ==
    [serial |-> Draw(Serials), node |-> n, key |-> key, exp |-> at - CertTTL]
IssueClientCertificate(n, key, at) ==
    [serial |-> Draw(Serials), node |-> n, key |-> key, exp |-> at + CertTTL]

-----------------------------------------------------------------------------
(* The monitor: POST /nodes, /nodes/{id}/disable, /nodes/{id}/remove. *)
CreateNode(p) ==
    /\ req[p] = Idle
    /\ ~NodeLimitReached
    /\ CanDraw(Nodes)
    /\ LET n == Draw(Nodes) IN
         /\ nodes' = Put(nodes, n, FALSE)
         /\ drawn' = drawn \cup {n}
         /\ Become(p, [pc |-> "invite", node |-> n])
    /\ UNCHANGED <<now, codes, results, certs, handed>>

CreateEnrollmentCode(p) ==
    /\ req[p].pc = "invite"
    /\ LET n == req[p].node IN
         /\ n \in DOMAIN nodes /\ ~nodes[n]
         /\ CanDraw(Codes)
         /\ codes' = Put(RowsNotOf(codes, n), Draw(Codes),
                         [node |-> n, exp |-> now + CodeTTL, used |-> FALSE])
         /\ drawn' = drawn \cup {Draw(Codes)}
    /\ Become(p, Idle)
    /\ UNCHANGED <<now, nodes, results, certs, handed>>

(* The node is gone or disabled, or the store failed: createNode cleans up. *)
CreateEnrollmentCodeFails(p) ==
    /\ req[p].pc = "invite"
    /\ Become(p, [pc |-> "cleanup", node |-> req[p].node])
    /\ UNCHANGED <<now, tables, drawn, handed>>

DeleteNode_NoCascade(n) ==          \* as with foreign_keys off
    /\ nodes' = Restrict(nodes, DOMAIN nodes \ {n})
    /\ UNCHANGED <<codes, results, certs>>
DeleteNode(n) ==                    \* DELETE FROM nodes, ON DELETE CASCADE
    /\ nodes' = Restrict(nodes, DOMAIN nodes \ {n})
    /\ codes' = RowsNotOf(codes, n)
    /\ results' = RowsNotOf(results, n)
    /\ certs' = RowsNotOf(certs, n)

CleanUp(p) ==
    /\ req[p].pc = "cleanup"
    /\ DeleteNode(req[p].node)
    /\ Become(p, Idle)
    /\ UNCHANGED <<now, drawn, handed>>

DisableNode_Toggles(n) ==
    /\ n \in DOMAIN nodes
    /\ nodes' = [nodes EXCEPT ![n] = ~@]
    /\ UNCHANGED <<now, codes, results, certs, drawn, req, handed>>

DisableNode(n) ==
    /\ n \in DOMAIN nodes
    /\ nodes' = [nodes EXCEPT ![n] = TRUE]
    /\ certs' = [s \in DOMAIN certs |->
                   IF certs[s].node = n THEN [certs[s] EXCEPT !.revoked = TRUE]
                                        ELSE certs[s]]
    /\ UNCHANGED <<now, codes, results, drawn, req, handed>>

RemoveNode(n) ==
    /\ n \in DOMAIN nodes
    /\ DeleteNode(n)
    /\ UNCHANGED <<now, drawn, req, handed>>

-----------------------------------------------------------------------------
(* Enrollment: EnrollmentService.Enroll.  `at' is the clock at its start.  *)
(* A stored result of another key answers ErrEnrollmentCodeUsed.           *)
EnrollFirst(p, code, key) ==
    /\ req[p] = Idle
    /\ code \notin DOMAIN results
    /\ Become(p, [pc |-> "resolve", at |-> now, code |-> code, key |-> key])
    /\ UNCHANGED <<now, tables, drawn, handed>>

EnrollAgain(p, code, key) ==
    /\ req[p] = Idle
    /\ ReplayFor(code, key)
    /\ Become(p, [pc |-> "replay", at |-> now, code |-> code,
                  cert |-> results[code].cert])
    /\ UNCHANGED <<now, tables, drawn, handed>>

Reply(code, cert) == [pc |-> "reply", code |-> code, cert |-> cert]

ReplayChecked(p) ==
    /\ req[p].pc = "replay"
    /\ Become(p, IF CertificateAccepted(req[p].cert.serial, req[p].at)
                 THEN Reply(req[p].code, req[p].cert) ELSE Idle)
    /\ UNCHANGED <<now, tables, drawn, handed>>

ResolveCode(p) ==
    /\ req[p].pc = "resolve"
    /\ LET r == req[p] IN
         \/ /\ ~CodeUsable(r.code, r.at)
            /\ Become(p, Idle)
            /\ UNCHANGED drawn
         \/ /\ CodeUsable(r.code, r.at)
            /\ CanDraw(Serials)
            /\ drawn' = drawn \cup {Draw(Serials)}
            /\ Become(p, [pc |-> "persist", at |-> r.at, code |-> r.code,
                          cert |-> IssueClientCertificate(codes[r.code].node, r.key, r.at)])
    /\ UNCHANGED <<now, tables, handed>>

EnrollCertificate(p) ==
    /\ req[p].pc = "persist"
    /\ LET r == req[p]  n == codes[r.code].node IN
         /\ MayEnroll(r.code, r.at)
         /\ r.cert.serial \notin DOMAIN certs          \* the primary keys
         /\ r.code \notin DOMAIN results
         /\ certs' = Put(certs, r.cert.serial,
                         [node |-> n, exp |-> r.cert.exp, revoked |-> FALSE])
         /\ results' = Put(results, r.code, [node |-> n, cert |-> r.cert])
         /\ codes' = [codes EXCEPT ![r.code].used = TRUE]
         /\ Become(p, Reply(r.code, r.cert))
    /\ UNCHANGED <<now, nodes, drawn, handed>>

(* The transaction was refused or failed: Enroll looks for a result again. *)
EnrollCertificateFails_AnswersAnyway(p) ==
    /\ req[p].pc = "persist"
    /\ Become(p, Reply(req[p].code, req[p].cert))
    /\ UNCHANGED <<now, tables, drawn, handed>>
EnrollCertificateFails(p) ==
    /\ req[p].pc = "persist"
    /\ Become(p, [pc |-> "replayAgain", code |-> req[p].code, key |-> req[p].cert.key])
    /\ UNCHANGED <<now, tables, drawn, handed>>

ReplayAgain(p) ==
    /\ req[p].pc = "replayAgain"
    /\ Become(p, IF ReplayFor(req[p].code, req[p].key)
                 THEN Reply(req[p].code, results[req[p].code].cert) ELSE Idle)
    /\ UNCHANGED <<now, tables, drawn, handed>>

-----------------------------------------------------------------------------
(* Renewal: HandleRenew.  The client proves it holds a certificate it was  *)
(* handed; the agent's CSR reuses the key of that certificate.             *)
ClientIdentity(cert) ==
    CertificateAccepted(cert.serial, now) /\ certs[cert.serial].node = cert.node

RenewStart(p, cert) ==
    /\ req[p] = Idle
    /\ ClientIdentity(cert)
    /\ CanDraw(Serials)
    /\ drawn' = drawn \cup {Draw(Serials)}
    /\ Become(p, [pc |-> "renew", at |-> now, old |-> cert.serial,
                  cert |-> IssueClientCertificate(cert.node, cert.key, now)])
    /\ UNCHANGED <<now, tables, handed>>

RenewCertificate(p) ==
    /\ req[p].pc = "renew"
    /\ LET r == req[p] IN
         \/ /\ ~MayRenew(r.old, r.at)
            /\ Become(p, Idle)
            /\ UNCHANGED certs
         \/ /\ MayRenew(r.old, r.at)
            /\ r.cert.serial \notin DOMAIN certs
            /\ certs' = Put([certs EXCEPT ![r.old].revoked = TRUE], r.cert.serial,
                            [node |-> certs[r.old].node, exp |-> r.cert.exp,
                             revoked |-> FALSE])
            /\ Become(p, Reply(NoCode, r.cert))
    /\ UNCHANGED <<now, nodes, codes, results, drawn, handed>>

-----------------------------------------------------------------------------
(* 201 with the certificate reaches the agent. *)
SendReply(p) ==
    /\ req[p].pc = "reply"
    /\ handed' = handed \cup {[code |-> req[p].code, cert |-> req[p].cert]}
    /\ Become(p, Idle)
    /\ UNCHANGED <<now, tables, drawn>>

(* The client went away, the response was lost or a store call failed.     *)
(* A cleanup that fails so leaves the node row behind (error ignored).     *)
Abort(p) ==
    /\ req[p].pc \in {"cleanup", "resolve", "replay", "replayAgain", "renew", "reply"}
    /\ Become(p, Idle)
    /\ UNCHANGED <<now, tables, drawn, handed>>

(* The process dies and systemd or docker starts it again on the same file. *)
Crash ==
    /\ \E p \in Requests : req[p] # Idle
    /\ req' = [p \in Requests |-> Idle]
    /\ UNCHANGED <<now, tables, drawn, handed>>

Tick ==
    /\ now < MaxTime
    /\ now' = now + 1
    /\ UNCHANGED <<tables, drawn, req, handed>>

Next ==
    \/ \E p \in Requests :
         \/ CreateNode(p) \/ CreateEnrollmentCode(p) \/ CreateEnrollmentCodeFails(p)
         \/ CleanUp(p)
         \/ \E code \in Codes, key \in Keys :
              EnrollFirst(p, code, key) \/ EnrollAgain(p, code, key)
         \/ ReplayChecked(p) \/ ResolveCode(p)
         \/ EnrollCertificate(p) \/ EnrollCertificateFails(p) \/ ReplayAgain(p)
         \/ \E h \in handed : RenewStart(p, h.cert)
         \/ RenewCertificate(p)
         \/ SendReply(p) \/ Abort(p)
    \/ \E n \in Nodes : DisableNode(n) \/ RemoveNode(n)
    \/ Crash
    \/ Tick

Spec == Init /\ [][Next]_vars

-----------------------------------------------------------------------------
IsTable(table, Ids, Row) ==
    DOMAIN table \subseteq Ids /\ table \in [DOMAIN table -> Row]

(* Every variable has its type. *)
TypeOK ==
    /\ now \in Nat
    /\ IsTable(nodes, Nodes, BOOLEAN)
    /\ IsTable(codes, Codes, CodeRow)
    /\ IsTable(results, Codes, ResultRow)
    /\ IsTable(certs, Serials, CertRow)
    /\ drawn \subseteq Nodes \cup Codes \cup Serials
    /\ req \in [Requests -> RequestState]
    /\ handed \subseteq [code : Codes \cup {NoCode}, cert : Certificate]

Live(s) == s \in DOMAIN certs /\ ~certs[s].revoked

(* Whatever enrollments and renewals of a node overlap, retry or lose      *)
(* their answer, the node never has two unrevoked certificates.            *)
OneLiveCertificate ==
    \A s, t \in Serials :
        Live(s) /\ Live(t) /\ certs[s].node = certs[t].node => s = t

(* DisableNode cuts a node off for good: an enrollment or renewal already  *)
(* under way cannot give it a live certificate afterwards.                 *)
DisabledNodeHasNoLiveCertificate ==
    \A s \in Serials : Live(s) =>
        certs[s].node \in DOMAIN nodes /\ ~nodes[certs[s].node]

(* "the certificate never leaves the service unless it is persisted"       *)
(* (certificates.go:189): a certificate an agent was handed has its row,   *)
(* with the node its subject names, as long as that node exists.           *)
HandedCertificateIsPersisted ==
    \A h \in handed : h.cert.node \in DOMAIN nodes =>
        /\ h.cert.serial \in DOMAIN certs
        /\ certs[h.cert.serial].node = h.cert.node
        /\ certs[h.cert.serial].exp = h.cert.exp

(* A code earns one certificate, for one key, however often the request is *)
(* repeated and whichever of two overlapping requests wins.                *)
CodeEarnsOneCertificate ==
    \A g, h \in handed : g.code = h.code /\ g.code # NoCode => g.cert = h.cert

(* A removed node leaves no code, result or certificate behind, even when  *)
(* an enrollment, a renewal or createNode was half done when it went.      *)
RowsBelongToNodes ==
    /\ \A c \in DOMAIN codes : codes[c].node \in DOMAIN nodes
    /\ \A c \in DOMAIN results : results[c].node \in DOMAIN nodes
    /\ \A s \in DOMAIN certs : certs[s].node \in DOMAIN nodes

(* Only draws are in the tables, so a fresh draw has no row yet. *)
RowsAreDrawn == DOMAIN nodes \subseteq drawn

(* createNode has committed the node and not yet its code: nothing of the  *)
(* node exists and no other handler is inviting it.                        *)
InvitedNodeIsBare ==
    \A p \in Requests : req[p].pc = "invite" =>
        LET n == req[p].node IN
        /\ n \in drawn
        /\ \A c \in DOMAIN codes : codes[c].node # n
        /\ \A s \in DOMAIN certs : certs[s].node # n
        /\ \A q \in Requests \ {p} : req[q].pc = "invite" => req[q].node # n

(* A node whose code is unused has never had a certificate, and a node has *)
(* one code (node_id is UNIQUE).                                           *)
UnusedCodeMeansNoCertificate ==
    \A c \in DOMAIN codes :
        /\ ~codes[c].used => \A s \in DOMAIN certs : certs[s].node # codes[c].node
        /\ \A d \in DOMAIN codes : codes[c].node = codes[d].node => c = d

(* The inductive invariant behind OneLiveCertificate: a second certificate *)
(* could only come from a second code, and a node that has a certificate   *)
(* is never invited again.                                                 *)
CredentialInvariant ==
    /\ RowsBelongToNodes
    /\ RowsAreDrawn
    /\ InvitedNodeIsBare
    /\ UnusedCodeMeansNoCertificate
    /\ DisabledNodeHasNoLiveCertificate
    /\ OneLiveCertificate

(* A certificate promised to an agent, with the code that earned it: one    *)
(* it was handed, one an answer under way carries, and one a repeated      *)
(* enrollment would get.                                                   *)
Pledged ==
         handed
    \cup {[code |-> c, cert |-> results[c].cert] : c \in DOMAIN results}
    \cup {[code |-> req[p].code, cert |-> req[p].cert] :
              p \in {q \in Requests : req[q].pc \in {"replay", "reply"}}}

Persisted(cert) == cert.node \in DOMAIN nodes =>
    /\ cert.serial \in DOMAIN certs
    /\ certs[cert.serial].node = cert.node
    /\ certs[cert.serial].exp = cert.exp

PledgesArePersisted ==
    \A g \in Pledged : g.cert.node \in drawn /\ Persisted(g.cert)

(* A handler that has a certificate issued and not yet stored.             *)
Pending(p) == req[p].pc \in {"persist", "renew"}

(* Serials that have been in the table or name a certificate to replace.   *)
Known ==
         DOMAIN certs
    \cup {g.cert.serial : g \in Pledged}
    \cup {req[p].old : p \in {q \in Requests : req[q].pc = "renew"}}

(* A serial that waits to be stored has never been stored, and only one    *)
(* handler waits with it.                                                  *)
PendingSerialsAreNew ==
    /\ Known \subseteq drawn
    /\ \A p \in Requests : Pending(p) =>
         /\ req[p].cert.serial \in drawn \ Known
         /\ \A q \in Requests \ {p} :
              Pending(q) => req[q].cert.serial # req[p].cert.serial

(* The certificate waiting names the node it will be stored for.           *)
PendingNamesItsNode ==
    \A p \in Requests :
        /\ Pending(p) => req[p].cert.node \in drawn
        /\ req[p].pc = "persist" =>
             /\ req[p].code \in drawn
             /\ req[p].code \in DOMAIN codes =>
                  codes[req[p].code].node = req[p].cert.node
        /\ req[p].pc = "renew" =>
             (req[p].old \in DOMAIN certs => certs[req[p].old].node = req[p].cert.node)

(* A code has earned at most one certificate, and none while it is unused. *)
CodesEarnOnce ==
    /\ DOMAIN codes \subseteq drawn
    /\ \A g \in Pledged : g.code \in drawn \cup {NoCode}
    /\ \A g, h \in Pledged : g.code = h.code /\ g.code # NoCode => g.cert = h.cert
    /\ \A c \in DOMAIN codes : ~codes[c].used => \A g \in Pledged : g.code # c

PledgeInvariant ==
    /\ PledgesArePersisted
    /\ PendingSerialsAreNew
    /\ PendingNamesItsNode
    /\ CodesEarnOnce

(* The inductive invariant of the registry: what a node's rows say of its  *)
(* credentials, and what answers, retries and handlers half way may still  *)
(* do to them.                                                             *)
RegistryInvariant == CredentialInvariant /\ PledgeInvariant

(* The count and the insert of CreateNode are one transaction, so requests *)
(* in parallel do not overshoot the limit.                                 *)
NodeLimitHolds == Cardinality(DOMAIN nodes) <= MaxNodes

(* A certificate an agent holds that has been revoked, or whose node was   *)
(* disabled or removed, never becomes acceptable again.                    *)
RevocationIsFinal ==
    [][\A h \in handed : LET s == h.cert.serial IN
         (Live(s) /\ ~nodes[certs[s].node])' => Live(s) /\ ~nodes[certs[s].node]]_vars

-----------------------------------------------------------------------------
(* Registry implements CertificateLifecycle: the phase of a node is read   *)
(* off its row, its credential is its live certificate.                    *)
CONSTANT None
ASSUME NoneAssumption == None \notin Serials

SerialsOf(n, revoked) ==
    {s \in DOMAIN certs : certs[s].node = n /\ certs[s].revoked = revoked}

Phase == [n \in Nodes |-> IF n \in DOMAIN nodes
                          THEN IF nodes[n] THEN "closed" ELSE "open"
                          ELSE IF n \in drawn THEN "removed" ELSE "unborn"]
Credential == [n \in Nodes |-> IF SerialsOf(n, FALSE) = {} THEN None
                               ELSE CHOOSE s \in SerialsOf(n, FALSE) : TRUE]
Revoked == [n \in Nodes |-> SerialsOf(n, TRUE)]

Lifecycle == INSTANCE CertificateLifecycle WITH
    phase <- Phase, cred <- Credential, revoked <- Revoked

(* The tables, handlers and crashes never do to a node's credential what   *)
(* CertificateLifecycle does not allow.                                    *)
ImplementsLifecycle == Lifecycle!Spec
=============================================================================
