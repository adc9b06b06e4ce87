------------------------------ MODULE Telemetry ------------------------------
(***************************************************************************)
(* Reports and their retention: HandleReport (ingest.go) and RecordReport, *)
(* MaintainSamples (store.go) as cmd/probe-server runs it, under the       *)
(* monitor's disable and remove.  Statements and transactions are atomic;  *)
(* the handler reads its clock before the request body, so reports of a    *)
(* node commit in any order.  Identity is reduced to what Registry shows:  *)
(* a node's certificate is accepted while its row is there and enabled.    *)
(* An operator X_Y is X with a plausible bug: Next never uses it.          *)
(***************************************************************************)
EXTENDS Integers, FiniteSetsExt

CONSTANTS
    Nodes,
    Requests,     \* report handlers that may be in flight at once
    SampleIds,    \* AUTOINCREMENT ids, 1 .. a bound for TLC
    Retention,    \* 30 days
    Day,          \* period of the maintenance ticker
    MaxPages,     \* the database size limit, in rows
    MaxTime       \* bound on the clock, for TLC

ASSUME TelemetryAssumption ==
    /\ SampleIds \subseteq Nat \ {0}
    /\ {Retention, Day, MaxPages, MaxTime} \subseteq Nat

VARIABLES
    now,
    nodes,      \* table nodes: id -> [disabled, last]; -1 is last_report_at NULL
    samples,    \* table samples: id -> [node, at]
    lastId,     \* sqlite_sequence of samples
    pages,      \* page_count: rows the file has room for, free pages included
    req,        \* what each HandleReport is in the middle of
    acked,      \* samples whose report was answered 204
    maint       \* the maintenance goroutine: [pc, due]

vars == <<now, nodes, samples, lastId, pages, req, acked, maint>>

Never == -1
Idle == [pc |-> "idle"]

Init ==
    /\ now = 0
    /\ nodes \in [Nodes -> {[disabled |-> FALSE, last |-> Never]}]
    /\ samples = << >> /\ lastId = 0 /\ pages = 0
    /\ req = [p \in Requests |-> Idle]
    /\ acked = {}
    /\ maint = [pc |-> "idle", due |-> 0]

-----------------------------------------------------------------------------
Become(p, state) == req' = [req EXCEPT ![p] = state]

(* clientIdentity accepted the certificate; the body is still to be read,  *)
(* parsed and checked, and the limiter asked.                              *)
Authenticate(p, n) ==
    /\ req[p] = Idle
    /\ n \in DOMAIN nodes /\ ~nodes[n].disabled
    /\ Become(p, [pc |-> "record", node |-> n, at |-> now])
    /\ UNCHANGED <<now, nodes, samples, lastId, pages, acked, maint>>

MayRecord_DisabledUnchecked(n) == n \in DOMAIN nodes
MayRecord(n) == n \in DOMAIN nodes /\ ~nodes[n].disabled

LastReport_Overwritten(old, at) == at
LastReport(old, at) == Max({old, at})

RecordReport(p) ==
    /\ req[p].pc = "record"
    /\ lastId + 1 \in SampleIds
    /\ LET n == req[p].node  id == lastId + 1  row == [node |-> n, at |-> req[p].at] IN
         /\ MayRecord(n)
         /\ samples' = [i \in DOMAIN samples \cup {id} |-> IF i = id THEN row ELSE samples[i]]
         /\ lastId' = id
         /\ pages' = Max({pages, Cardinality(DOMAIN samples')})
         /\ nodes' = [nodes EXCEPT ![n].last = LastReport(@, req[p].at)]
         /\ Become(p, [pc |-> "reply", id |-> id, row |-> row])
    /\ UNCHANGED <<now, acked, maint>>

Reply(p) ==
    /\ req[p].pc = "reply"
    /\ acked' = acked \cup {[id |-> req[p].id, row |-> req[p].row]}
    /\ Become(p, Idle)
    /\ UNCHANGED <<now, nodes, samples, lastId, pages, maint>>

(* Bad body, other node id, 429, node gone or disabled, store error, or    *)
(* the answer is lost.                                                     *)
Abandon(p) ==
    /\ req[p] # Idle
    /\ Become(p, Idle)
    /\ UNCHANGED <<now, nodes, samples, lastId, pages, acked, maint>>

DisableNode(n) ==
    /\ n \in DOMAIN nodes
    /\ nodes' = [nodes EXCEPT ![n].disabled = TRUE]
    /\ UNCHANGED <<now, samples, lastId, pages, req, acked, maint>>

Keep(ids) == samples' = [i \in ids |-> samples[i]]

RemoveNode(n) ==                       \* the samples cascade
    /\ n \in DOMAIN nodes
    /\ nodes' = [m \in DOMAIN nodes \ {n} |-> nodes[m]]
    /\ Keep({i \in DOMAIN samples : samples[i].node # n})
    /\ UNCHANGED <<now, lastId, pages, req, acked, maint>>

-----------------------------------------------------------------------------
(* runMaintenance: at start and at every tick of the ticker, which holds   *)
(* one tick while a run lasts.                                             *)
Cutoff_DayEarly(at) == at - Retention + Day
Cutoff(at) == at - Retention

PurgeSamplesBefore ==
    /\ maint.pc = "idle" /\ now >= maint.due
    /\ Keep({i \in DOMAIN samples : samples[i].at >= Cutoff(now)})
    /\ maint' = [pc |-> "measure", due |-> maint.due + Day]
    /\ UNCHANGED <<now, nodes, lastId, pages, req, acked>>

MeasureDatabase ==
    /\ maint.pc = "measure"
    /\ maint' = [maint EXCEPT !.pc = IF pages <= MaxPages THEN "idle" ELSE "prune"]
    /\ UNCHANGED <<now, nodes, samples, lastId, pages, req, acked>>

Older(i, j) ==
    samples[i].at < samples[j].at \/ (samples[i].at = samples[j].at /\ i < j)
Oldest == {i \in DOMAIN samples : \A j \in DOMAIN samples \ {i} : Older(i, j)}

PruneOne_AndLastReport ==
    /\ maint.pc = "prune"
    /\ Oldest # {}
    /\ Keep(DOMAIN samples \ Oldest)
    /\ nodes' = [n \in DOMAIN nodes |->
         [nodes[n] EXCEPT !.last = Max({Never} \cup
             {samples[i].at : i \in {j \in DOMAIN samples \ Oldest : samples[j].node = n}})]]
    /\ maint' = [maint EXCEPT !.pc = "measure"]
    /\ UNCHANGED <<now, lastId, pages, req, acked>>

PruneOne ==
    /\ maint.pc = "prune"
    /\ Oldest # {}
    /\ Keep(DOMAIN samples \ Oldest)
    /\ maint' = [maint EXCEPT !.pc = "measure"]
    /\ UNCHANGED <<now, nodes, lastId, pages, req, acked>>

(* removed = 0, or a statement failed: the run ends. *)
EndMaintenance ==
    /\ maint.pc \in {"measure", "prune"}
    /\ maint' = [maint EXCEPT !.pc = "idle"]
    /\ UNCHANGED <<now, nodes, samples, lastId, pages, req, acked>>

(* The process is started again: maintenance runs at once. *)
Crash_IdsInMemory ==
    /\ req' = [p \in Requests |-> Idle]
    /\ maint' = [pc |-> "idle", due |-> now]
    /\ lastId' = 0
    /\ UNCHANGED <<now, nodes, samples, pages, acked>>
Crash ==
    /\ req' = [p \in Requests |-> Idle]
    /\ maint' = [pc |-> "idle", due |-> now]
    /\ UNCHANGED <<now, nodes, samples, lastId, pages, acked>>

Tick ==
    /\ now < MaxTime
    /\ now' = now + 1
    /\ UNCHANGED <<nodes, samples, lastId, pages, req, acked, maint>>

Step ==
    \/ \E p \in Requests :
         \/ \E n \in Nodes : Authenticate(p, n)
         \/ RecordReport(p) \/ Reply(p) \/ Abandon(p)
    \/ \E n \in Nodes : DisableNode(n) \/ RemoveNode(n)
    \/ PurgeSamplesBefore \/ MeasureDatabase \/ PruneOne \/ EndMaintenance
    \/ Tick
Next == Step \/ Crash

Spec == Init /\ [][Next]_vars

-----------------------------------------------------------------------------
(* Every variable has its type; sample ids are drawn once, and receipt     *)
(* times are of the past.                                                  *)
TypeOK ==
    /\ now \in Nat /\ lastId \in Nat /\ pages \in Nat
    /\ DOMAIN nodes \subseteq Nodes
    /\ nodes \in [DOMAIN nodes -> [disabled : BOOLEAN, last : Nat \cup {Never}]]
    /\ DOMAIN samples \subseteq SampleIds \cap (1 .. lastId)
    /\ samples \in [DOMAIN samples -> [node : Nodes, at : 0 .. now]]
    /\ req \in [Requests -> {Idle} \cup [pc : {"record"}, node : Nodes, at : Nat]
          \cup [pc : {"reply"}, id : SampleIds, row : [node : Nodes, at : Nat]]]
    /\ acked \subseteq [id : SampleIds, row : [node : Nodes, at : Nat]]
    /\ maint \in [pc : {"idle", "measure", "prune"}, due : Nat]

(* A sample acknowledged with 204 is not lost: it stays until its node is  *)
(* removed, it is 30 days old, or the database is over its size limit      *)
(* (design doc lines 65 and 169).                                          *)
AckedSampleKept ==
    \A a \in acked :
        \/ a.id \in DOMAIN samples /\ samples[a.id] = a.row
        \/ a.row.node \notin DOMAIN nodes
        \/ a.row.at < now - Retention
        \/ pages > MaxPages

(* Reports that commit out of order never make a node look staler than its *)
(* newest sample.                                                          *)
LastReportCoversSamples ==
    \A i \in DOMAIN samples : LET n == samples[i].node IN
        n \in DOMAIN nodes /\ samples[i].at <= nodes[n].last

(* Neither a late report nor maintenance takes a node's last report back:  *)
(* "preserving current node state".                                        *)
LastReportNeverGoesBack ==
    [][\A n \in DOMAIN nodes \cap DOMAIN nodes' : nodes'[n].last >= nodes[n].last]_vars

(* A report already past its identity check when the node is disabled or   *)
(* removed leaves no trace.                                                *)
NoSampleAfterDisable ==
    [][\A i \in DOMAIN samples' \ DOMAIN samples :
         LET n == samples'[i].node IN n \in DOMAIN nodes /\ ~nodes[n].disabled]_vars

(* docs/superpowers/server-probe-mvp-progress.md:27: maintenance prunes    *)
(* the oldest samples under the size limit.  page_count never shrinks, so  *)
(* the loop deletes samples that fit.                                      *)
PruneStopsWhenSamplesFit ==
    [][PruneOne => Cardinality(DOMAIN samples) > MaxPages]_vars
=============================================================================
