-------------------------- MODULE Telemetry_proofs --------------------------
(***************************************************************************)
(* Theorems about Telemetry, for any nodes, handlers, limits and times.    *)
(***************************************************************************)
EXTENDS Telemetry, FiniteSetTheorems, TLAPS

(* A report not yet recorded was received in the past.                     *)
ReceiptsArePast ==
    \A p \in Requests : req[p].pc = "record" => req[p].at <= now

(* Samples whose report was answered or is about to be.                    *)
Promised ==
         acked
    \cup {[id |-> req[p].id, row |-> req[p].row] :
              p \in {q \in Requests : req[q].pc = "reply"}}

(* A promised sample is stored, or there is a reason why not; its id is    *)
(* never drawn again.                                                      *)
PromisedSampleKept ==
    \A a \in Promised :
        /\ a.id <= lastId
        /\ \/ a.id \in DOMAIN samples /\ samples[a.id] = a.row
           \/ a.row.node \notin DOMAIN nodes
           \/ a.row.at < now - Retention
           \/ pages > MaxPages

(* The loop that deletes samples runs over the limit only.                 *)
PrunesOverLimit == maint.pc = "prune" => pages > MaxPages

(* The inductive invariant: what is promised is in the table, and what is  *)
(* in the table is covered by the last report of a node that exists.       *)
StoreInvariant ==
    /\ TypeOK
    /\ ReceiptsArePast
    /\ LastReportCoversSamples
    /\ PromisedSampleKept
    /\ PrunesOverLimit

-----------------------------------------------------------------------------
(* Max of two numbers is the larger. *)
LEMMA MaxOfTwo ==
    ASSUME NEW a \in Int, NEW b \in Int
    PROVE  Max({a, b}) = IF a >= b THEN a ELSE b
<1> DEFINE m == IF a >= b THEN a ELSE b
<1>1. m \in {a, b} /\ \A y \in {a, b} : m >= y
  OBVIOUS
<1>2. \A x \in {a, b} : (\A y \in {a, b} : x >= y) => x = m
  OBVIOUS
<1> QED
  BY <1>1, <1>2 DEF Max

(* The samples are finitely many, since their ids are numbers drawn so far. *)
LEMMA SamplesFinite ==
    ASSUME TypeOK, NEW S \in SUBSET (DOMAIN samples \cup {lastId + 1})
    PROVE  IsFiniteSet(S) /\ Cardinality(S) \in Nat
<1>0. 1 \in Int /\ lastId + 1 \in Int
  BY DEF TypeOK
<1>1. IsFiniteSet(1 .. (lastId + 1))
  BY <1>0, FS_Interval
<1>2. S \subseteq 1 .. (lastId + 1)
  BY DEF TypeOK
<1> QED
  BY <1>1, <1>2, FS_Subset, FS_CardinalityType

(* Moving one handler to a well-formed state keeps req well typed.         *)
HandlerState ==
         {Idle}
    \cup [pc : {"record"}, node : Nodes, at : Nat]
    \cup [pc : {"reply"}, id : SampleIds, row : [node : Nodes, at : Nat]]

(* What each stage of a handler carries.                                   *)
LEMMA StageFields ==
    ASSUME NEW r \in HandlerState
    PROVE  /\ r.pc = "record" => r.node \in Nodes /\ r.at \in Nat
           /\ r.pc = "reply" => r.id \in SampleIds /\ r.row \in [node : Nodes, at : Nat]
BY DEF HandlerState, Idle

(* Deleting samples keeps the table well typed.                            *)
LEMMA KeepTyped ==
    ASSUME TypeOK, NEW ids \in SUBSET (DOMAIN samples), Keep(ids),
           UNCHANGED <<now, lastId>>
    PROVE  /\ DOMAIN samples' = ids
           /\ \A i \in ids : samples'[i] = samples[i]
           /\ DOMAIN samples' \subseteq SampleIds \cap (1 .. lastId')
           /\ samples' \in [DOMAIN samples' -> [node : Nodes, at : 0 .. now']]
BY DEF Keep, TypeOK

(* What RecordReport writes: one sample of an enabled node, received at a  *)
(* past time.                                                              *)
Recorded(p, n, at) ==
    /\ req[p].node = n /\ req[p].at = at
    /\ n \in DOMAIN nodes /\ ~nodes[n].disabled
    /\ lastId' = lastId + 1 /\ lastId' \in SampleIds /\ lastId' \notin DOMAIN samples
    /\ DOMAIN samples' = DOMAIN samples \cup {lastId'}
    /\ samples'[lastId'] = [node |-> n, at |-> at]
    /\ \A i \in DOMAIN samples : samples'[i] = samples[i]
    /\ pages' \in Nat /\ pages' >= pages
    /\ DOMAIN nodes' = DOMAIN nodes
    /\ \A m \in DOMAIN nodes \ {n} : nodes'[m] = nodes[m]
    /\ nodes'[n].disabled = nodes[n].disabled
    /\ nodes'[n].last \in Nat /\ nodes'[n].last >= at
    /\ nodes'[n].last >= nodes[n].last /\ nodes'[n].last \in {nodes[n].last, at}
    /\ nodes'[n] \in [disabled : BOOLEAN, last : Nat \cup {Never}]
    /\ req' = [req EXCEPT ![p] = [pc |-> "reply", id |-> lastId',
                                  row |-> [node |-> n, at |-> at]]]
    /\ UNCHANGED <<now, acked, maint>>

(* It writes that. *)
LEMMA RecordEffect ==
    ASSUME TypeOK, ReceiptsArePast, NEW p \in Requests, RecordReport(p)
    PROVE  \E n \in Nodes, at \in 0 .. now : Recorded(p, n, at)
<1>0. PICK n, at : n = req[p].node /\ at = req[p].at
  OBVIOUS
<1>1. req[p].pc = "record" /\ req[p] \in HandlerState
  BY DEF RecordReport, TypeOK, HandlerState
<1>2. n \in Nodes /\ at \in 0 .. now
  BY <1>0, <1>1, StageFields DEF ReceiptsArePast, TypeOK
<1>3. n \in DOMAIN nodes /\ ~nodes[n].disabled
  BY <1>0 DEF RecordReport, MayRecord
<1>4. lastId' = lastId + 1 /\ lastId' \in SampleIds
  BY DEF RecordReport
<1>5. /\ lastId' \notin DOMAIN samples
      /\ DOMAIN samples' = DOMAIN samples \cup {lastId'}
      /\ samples'[lastId'] = [node |-> n, at |-> at]
      /\ \A i \in DOMAIN samples : samples'[i] = samples[i]
  BY <1>0, <1>4 DEF RecordReport, TypeOK
<1>6. pages' \in Nat /\ pages' >= pages
  <2>1. Cardinality(DOMAIN samples') \in Nat
    BY <1>4, <1>5, SamplesFinite
  <2>2. pages' = Max({pages, Cardinality(DOMAIN samples')}) /\ pages \in Nat
    BY DEF RecordReport, TypeOK
  <2> QED
    BY <2>1, <2>2, MaxOfTwo
<1>7. nodes[n] \in [disabled : BOOLEAN, last : Nat \cup {Never}]
  BY <1>3 DEF TypeOK
<1>8. nodes' = [nodes EXCEPT ![n].last = Max({nodes[n].last, at})]
  BY <1>0 DEF RecordReport, LastReport
<1>9. Max({nodes[n].last, at}) = IF nodes[n].last >= at THEN nodes[n].last ELSE at
  BY <1>2, <1>7, MaxOfTwo DEF Never
<1>10. /\ DOMAIN nodes' = DOMAIN nodes
       /\ \A m \in DOMAIN nodes \ {n} : nodes'[m] = nodes[m]
       /\ nodes'[n] = [nodes[n] EXCEPT !.last = Max({nodes[n].last, at})]
  BY <1>3, <1>8 DEF TypeOK
<1>11. /\ nodes'[n].disabled = nodes[n].disabled
       /\ nodes'[n].last = Max({nodes[n].last, at})
  BY <1>7, <1>10
<1>12. /\ nodes'[n].last \in Nat /\ nodes'[n].last >= at
       /\ nodes'[n].last >= nodes[n].last /\ nodes'[n].last \in {nodes[n].last, at}
  BY <1>2, <1>7, <1>9, <1>11 DEF Never
<1>13. nodes'[n] \in [disabled : BOOLEAN, last : Nat \cup {Never}]
  BY <1>7, <1>10, <1>11, <1>12
<1>14. /\ req' = [req EXCEPT ![p] = [pc |-> "reply", id |-> lastId',
                                     row |-> [node |-> n, at |-> at]]]
       /\ UNCHANGED <<now, acked, maint>>
  BY <1>0, <1>4 DEF RecordReport, Become
<1> QED
  BY <1>0, <1>2, <1>3, <1>4, <1>5, <1>6, <1>10, <1>11, <1>12, <1>13, <1>14 DEF Recorded

-----------------------------------------------------------------------------
(* Every step keeps the types, and no receipt time is of the future.       *)
LEMMA TypeStep ==
    TypeOK /\ ReceiptsArePast /\ [Next]_vars => TypeOK' /\ ReceiptsArePast'
<1> SUFFICES ASSUME TypeOK, ReceiptsArePast, [Next]_vars
             PROVE  TypeOK' /\ ReceiptsArePast'
  OBVIOUS
<1>0. /\ req \in [Requests -> HandlerState]
      /\ Idle \in HandlerState /\ Idle.pc = "idle"
  BY DEF TypeOK, HandlerState, Idle
<1>1. ASSUME NEW p \in Requests, NEW n \in Nodes, Authenticate(p, n)
      PROVE  TypeOK' /\ ReceiptsArePast'
  <2> DEFINE state == [pc |-> "record", node |-> n, at |-> now]
  <2>1. state \in HandlerState
    BY DEF HandlerState, TypeOK
  <2>2. req' = [req EXCEPT ![p] = state]
    BY <1>1 DEF Authenticate, Become
  <2>3. req' \in [Requests -> HandlerState] /\ ReceiptsArePast'
    BY <1>0, <1>1, <2>1, <2>2 DEF Authenticate, ReceiptsArePast, TypeOK
  <2> QED
    BY <1>1, <2>3 DEF Authenticate, TypeOK, HandlerState
<1>2. ASSUME NEW p \in Requests, RecordReport(p) PROVE TypeOK' /\ ReceiptsArePast'
  <2>1. PICK n \in Nodes, at \in 0 .. now : Recorded(p, n, at)
    BY <1>2, RecordEffect
  <2> DEFINE row == [node |-> n, at |-> at]
             state == [pc |-> "reply", id |-> lastId', row |-> row]
  <2>2. /\ n \in Nodes /\ at \in 0 .. now /\ n \in DOMAIN nodes
        /\ lastId' = lastId + 1 /\ lastId' \in SampleIds
        /\ DOMAIN samples' = DOMAIN samples \cup {lastId'}
        /\ samples'[lastId'] = row
        /\ \A i \in DOMAIN samples : samples'[i] = samples[i]
        /\ pages' \in Nat
        /\ DOMAIN nodes' = DOMAIN nodes
        /\ \A m \in DOMAIN nodes \ {n} : nodes'[m] = nodes[m]
        /\ nodes'[n] \in [disabled : BOOLEAN, last : Nat \cup {Never}]
        /\ req' = [req EXCEPT ![p] = state]
        /\ UNCHANGED <<now, acked, maint>>
    BY <2>1 DEF Recorded
  <2>3. nodes' \in [DOMAIN nodes' -> [disabled : BOOLEAN, last : Nat \cup {Never}]]
    <3>1. \A m \in DOMAIN nodes' :
             nodes'[m] \in [disabled : BOOLEAN, last : Nat \cup {Never}]
      BY <2>2 DEF TypeOK
    <3>2. nodes' = [m \in DOMAIN nodes' |-> nodes'[m]]
      BY <1>2, <2>2 DEF RecordReport, TypeOK
    <3> QED
      BY <3>1, <3>2
  <2>4. /\ DOMAIN samples' \subseteq SampleIds \cap (1 .. lastId')
        /\ samples' \in [DOMAIN samples' -> [node : Nodes, at : 0 .. now']]
    <3>1. \A i \in DOMAIN samples' : samples'[i] \in [node : Nodes, at : 0 .. now']
      BY <2>2 DEF TypeOK
    <3>2. samples' = [i \in DOMAIN samples' |-> samples'[i]]
      BY <1>2 DEF RecordReport
    <3>3. DOMAIN samples' \subseteq SampleIds \cap (1 .. lastId')
      BY <2>2 DEF TypeOK
    <3> QED
      BY <3>1, <3>2, <3>3
  <2>5. row \in [node : Nodes, at : Nat] /\ state \in HandlerState
    BY <2>2 DEF HandlerState, TypeOK
  <2>6. req' \in [Requests -> HandlerState] /\ ReceiptsArePast'
    BY <1>0, <2>2, <2>5 DEF ReceiptsArePast
  <2> QED
    BY <2>2, <2>3, <2>4, <2>6 DEF TypeOK, HandlerState
<1>3. ASSUME NEW p \in Requests, Reply(p) PROVE TypeOK' /\ ReceiptsArePast'
  <2>1. req' \in [Requests -> HandlerState] /\ ReceiptsArePast'
    BY <1>0, <1>3 DEF Reply, Become, ReceiptsArePast
  <2>2. req[p].id \in SampleIds /\ req[p].row \in [node : Nodes, at : Nat]
    BY <1>0, <1>3, StageFields DEF Reply
  <2> QED
    BY <1>3, <2>1, <2>2 DEF Reply, TypeOK, HandlerState
<1>4. ASSUME NEW p \in Requests, Abandon(p) PROVE TypeOK' /\ ReceiptsArePast'
  <2>1. req' \in [Requests -> HandlerState] /\ ReceiptsArePast'
    BY <1>0, <1>4 DEF Abandon, Become, ReceiptsArePast
  <2> QED
    BY <1>4, <2>1 DEF Abandon, TypeOK, HandlerState
<1>5. ASSUME NEW n \in Nodes, DisableNode(n) PROVE TypeOK' /\ ReceiptsArePast'
  <2>1. nodes' \in [DOMAIN nodes' -> [disabled : BOOLEAN, last : Nat \cup {Never}]]
    <3> DEFINE Row == [disabled : BOOLEAN, last : Nat \cup {Never}]
    <3>1. n \in DOMAIN nodes /\ nodes \in [DOMAIN nodes -> Row]
      BY <1>5 DEF DisableNode, TypeOK
    <3>2. \A row \in Row : [row EXCEPT !.disabled = TRUE] \in Row
      OBVIOUS
    <3>3. nodes' = [nodes EXCEPT ![n] = [nodes[n] EXCEPT !.disabled = TRUE]]
      BY <1>5 DEF DisableNode
    <3> HIDE DEF Row
    <3>4. nodes' \in [DOMAIN nodes -> Row] /\ DOMAIN nodes' = DOMAIN nodes
      BY <3>1, <3>2, <3>3
    <3> QED
      BY <3>4 DEF Row
  <2>2. DOMAIN nodes' \subseteq Nodes
    BY <1>5 DEF DisableNode, TypeOK
  <2>3. UNCHANGED <<now, samples, lastId, pages, req, acked, maint>>
    BY <1>5 DEF DisableNode
  <2>4. ReceiptsArePast'
    BY <2>3 DEF ReceiptsArePast
  <2> QED
    BY <2>1, <2>2, <2>3, <2>4 DEF TypeOK
<1>6. ASSUME NEW n \in Nodes, RemoveNode(n) PROVE TypeOK' /\ ReceiptsArePast'
  <2>1. /\ DOMAIN samples' \subseteq SampleIds \cap (1 .. lastId')
        /\ samples' \in [DOMAIN samples' -> [node : Nodes, at : 0 .. now']]
    BY <1>6, KeepTyped DEF RemoveNode
  <2>2. /\ DOMAIN nodes' \subseteq Nodes
        /\ nodes' \in [DOMAIN nodes' -> [disabled : BOOLEAN, last : Nat \cup {Never}]]
    BY <1>6 DEF RemoveNode, TypeOK
  <2> QED
    BY <1>6, <2>1, <2>2 DEF RemoveNode, TypeOK, ReceiptsArePast
<1>7. ASSUME NEW ids \in SUBSET (DOMAIN samples), Keep(ids),
             UNCHANGED <<now, nodes, lastId, pages, req, acked>>,
             maint' \in [pc : {"idle", "measure", "prune"}, due : Nat]
      PROVE  TypeOK' /\ ReceiptsArePast'
  <2>1. /\ DOMAIN samples' \subseteq SampleIds \cap (1 .. lastId')
        /\ samples' \in [DOMAIN samples' -> [node : Nodes, at : 0 .. now']]
    BY <1>7, KeepTyped
  <2> QED
    BY <1>7, <2>1 DEF TypeOK, ReceiptsArePast
<1>8. CASE PurgeSamplesBefore
  BY <1>7, <1>8, TelemetryAssumption DEF PurgeSamplesBefore, TypeOK
<1>9. CASE PruneOne
  BY <1>7, <1>9 DEF PruneOne, TypeOK
<1>10. CASE MeasureDatabase
  BY <1>10 DEF MeasureDatabase, TypeOK, ReceiptsArePast
<1>11. CASE EndMaintenance
  BY <1>11 DEF EndMaintenance, TypeOK, ReceiptsArePast
<1>12. CASE Crash
  <2>1. req' \in [Requests -> HandlerState] /\ ReceiptsArePast'
    BY <1>0, <1>12 DEF Crash, ReceiptsArePast
  <2> QED
    BY <1>12, <2>1 DEF Crash, TypeOK, HandlerState
<1>13. CASE Tick
  <2>1. now' \in Nat /\ 0 .. now \subseteq 0 .. now'
    BY <1>13 DEF Tick, TypeOK
  <2>2. /\ samples' \in [DOMAIN samples' -> [node : Nodes, at : 0 .. now']]
        /\ ReceiptsArePast'
    <3>1. UNCHANGED <<samples, req>>
      BY <1>13 DEF Tick
    <3>2. \A i \in DOMAIN samples : samples[i] \in [node : Nodes, at : 0 .. now']
      BY <2>1 DEF TypeOK
    <3>3. samples \in [DOMAIN samples -> [node : Nodes, at : 0 .. now']]
      BY <3>2 DEF TypeOK
    <3>4. \A p \in Requests : req[p].pc = "record" => req[p].at \in Nat
      BY <1>0, StageFields
    <3> QED
      BY <1>13, <3>1, <3>3, <3>4 DEF Tick, TypeOK, ReceiptsArePast
  <2> QED
    BY <1>13, <2>1, <2>2 DEF Tick, TypeOK
<1>14. CASE UNCHANGED vars
  BY <1>14 DEF vars, TypeOK, ReceiptsArePast
<1> QED
  BY <1>1, <1>2, <1>3, <1>4, <1>5, <1>6, <1>8, <1>9, <1>10, <1>11, <1>12, <1>13, <1>14
     DEF Next, Step

(* Type correctness of the store under any interleaving of reports, the    *)
(* monitor, maintenance and crashes.                                       *)
THEOREM TypeCorrect == Spec => [](TypeOK /\ ReceiptsArePast)
<1>1. Init => TypeOK /\ ReceiptsArePast
  <2> SUFFICES ASSUME Init PROVE TypeOK /\ ReceiptsArePast
    OBVIOUS
  <2>1. /\ DOMAIN nodes \subseteq Nodes
        /\ nodes \in [DOMAIN nodes -> [disabled : BOOLEAN, last : Nat \cup {Never}]]
    <3>1. [disabled |-> FALSE, last |-> Never] \in [disabled : BOOLEAN, last : Nat \cup {Never}]
      OBVIOUS
    <3>2. nodes \in [Nodes -> {[disabled |-> FALSE, last |-> Never]}]
      BY DEF Init
    <3>3. DOMAIN nodes = Nodes /\ \A n \in Nodes :
             nodes[n] \in [disabled : BOOLEAN, last : Nat \cup {Never}]
      BY <3>1, <3>2
    <3> QED
      BY <3>2, <3>3
  <2>2. /\ DOMAIN samples = {}
        /\ samples \in [DOMAIN samples -> [node : Nodes, at : 0 .. now]]
    BY DEF Init
  <2> QED
    BY <2>1, <2>2 DEF Init, TypeOK, ReceiptsArePast, Idle
<1> QED
  BY <1>1, TypeStep, PTL DEF Spec

-----------------------------------------------------------------------------
(* Samples promised to an agent, and what the last report says of them. *)

(* Every promise is a sample with its node and receipt time.               *)
LEMMA PromisedTyped ==
    ASSUME TypeOK, NEW a \in Promised
    PROVE  a.id \in SampleIds /\ a.id \in Nat /\ a.row \in [node : Nodes, at : Nat]
<1>1. \A p \in Requests : req[p] \in HandlerState
  BY DEF TypeOK, HandlerState
<1>2. a.id \in SampleIds /\ a.row \in [node : Nodes, at : Nat]
  BY <1>1, StageFields DEF Promised, TypeOK
<1> QED
  BY <1>2, TelemetryAssumption

(* A step that promises nothing new and deletes only what may be deleted   *)
(* keeps the promises.                                                     *)
LEMMA PromisesStay ==
    ASSUME TypeOK, TypeOK', PromisedSampleKept,
           Promised' \subseteq Promised, lastId' = lastId,
           now' >= now, pages' = pages, DOMAIN nodes' \subseteq DOMAIN nodes,
           \A i \in DOMAIN samples :
              \/ i \in DOMAIN samples' /\ samples'[i] = samples[i]
              \/ samples[i].node \notin DOMAIN nodes'
              \/ samples[i].at < now - Retention
              \/ pages > MaxPages
    PROVE  PromisedSampleKept'
<1> SUFFICES ASSUME NEW a \in Promised'
             PROVE  /\ a.id <= lastId'
                    /\ \/ a.id \in DOMAIN samples' /\ samples'[a.id] = a.row
                       \/ a.row.node \notin DOMAIN nodes'
                       \/ a.row.at < now' - Retention
                       \/ pages' > MaxPages
  BY DEF PromisedSampleKept
<1>1. a \in Promised
  OBVIOUS
<1>2. /\ a.id <= lastId
      /\ \/ a.id \in DOMAIN samples /\ samples[a.id] = a.row
         \/ a.row.node \notin DOMAIN nodes
         \/ a.row.at < now - Retention
         \/ pages > MaxPages
  BY <1>1 DEF PromisedSampleKept
<1>3. a.row.at < now - Retention => a.row.at < now' - Retention
  <2>1. a.row.at \in Nat
    BY <1>1, PromisedTyped
  <2> QED
    BY <2>1, TelemetryAssumption DEF TypeOK
<1> QED
  BY <1>1, <1>2, <1>3

(* RecordReport promises its sample, under an id no promise has.           *)
LEMMA PromisesGrow ==
    ASSUME TypeOK, TypeOK', PromisedSampleKept,
           NEW p \in Requests, NEW n \in Nodes, NEW at \in 0 .. now, Recorded(p, n, at)
    PROVE  PromisedSampleKept'
<1> DEFINE row == [node |-> n, at |-> at]
           new == [id |-> lastId', row |-> row]
<1>1. /\ req \in [Requests -> HandlerState]
      /\ req' = [req EXCEPT ![p] = [pc |-> "reply", id |-> lastId', row |-> row]]
      /\ acked' = acked
  BY DEF TypeOK, HandlerState, Recorded
<1>2. Promised' \subseteq Promised \cup {new}
  <2> SUFFICES ASSUME NEW a \in Promised' PROVE a \in Promised \/ a = new
    OBVIOUS
  <2>1. CASE a \in acked'
    BY <1>1, <2>1 DEF Promised
  <2>2. ASSUME NEW q \in Requests, req'[q].pc = "reply",
               a = [id |-> req'[q].id, row |-> req'[q].row]
        PROVE  a \in Promised \/ a = new
    <3>1. CASE q = p
      BY <1>1, <2>2, <3>1
    <3>2. CASE q # p
      BY <1>1, <2>2, <3>2 DEF Promised
    <3> QED
      BY <3>1, <3>2
  <2> QED
    BY <2>1, <2>2 DEF Promised
<1> SUFFICES ASSUME NEW a \in Promised'
             PROVE  /\ a.id <= lastId'
                    /\ \/ a.id \in DOMAIN samples' /\ samples'[a.id] = a.row
                       \/ a.row.node \notin DOMAIN nodes'
                       \/ a.row.at < now' - Retention
                       \/ pages' > MaxPages
  BY DEF PromisedSampleKept
<1>3. CASE a = new
  BY <1>3 DEF Recorded, TypeOK
<1>4. CASE a \in Promised
  <2>1. /\ a.id <= lastId
        /\ \/ a.id \in DOMAIN samples /\ samples[a.id] = a.row
           \/ a.row.node \notin DOMAIN nodes
           \/ a.row.at < now - Retention
           \/ pages > MaxPages
    BY <1>4 DEF PromisedSampleKept
  <2>2. a.id \in Nat /\ lastId \in Nat /\ lastId' = lastId + 1
    BY <1>4, PromisedTyped DEF Recorded, TypeOK
  <2>3. pages > MaxPages => pages' > MaxPages
    BY TelemetryAssumption DEF Recorded, TypeOK
  <2> QED
    BY <2>1, <2>2, <2>3 DEF Recorded
<1> QED
  BY <1>2, <1>3, <1>4

(* A step that stores nothing and takes no last report back keeps the      *)
(* samples covered.                                                        *)
LEMMA CoverStays ==
    ASSUME TypeOK, TypeOK', LastReportCoversSamples,
           \A i \in DOMAIN samples' :
              /\ i \in DOMAIN samples /\ samples'[i] = samples[i]
              /\ samples[i].node \in DOMAIN nodes => samples[i].node \in DOMAIN nodes',
           \A n \in DOMAIN nodes' : n \in DOMAIN nodes /\ nodes'[n].last = nodes[n].last
    PROVE  LastReportCoversSamples'
BY DEF LastReportCoversSamples

(* Promised samples are kept and no node looks staler than its newest      *)
(* sample, whatever reports, removals, maintenance and crashes overlap.    *)
THEOREM StoreInvariantHolds == Spec => []StoreInvariant
<1>1. Init => LastReportCoversSamples /\ PromisedSampleKept /\ PrunesOverLimit
  BY DEF Init, Idle, LastReportCoversSamples, PromisedSampleKept, Promised, PrunesOverLimit
<1>2. StoreInvariant /\ TypeOK' /\ [Next]_vars
         => LastReportCoversSamples' /\ PromisedSampleKept' /\ PrunesOverLimit'
  <2> DEFINE Goal == LastReportCoversSamples' /\ PromisedSampleKept' /\ PrunesOverLimit'
  <2> SUFFICES ASSUME StoreInvariant, TypeOK', [Next]_vars PROVE Goal
    OBVIOUS
  <2>0. /\ TypeOK /\ ReceiptsArePast /\ LastReportCoversSamples
        /\ PromisedSampleKept /\ PrunesOverLimit
        /\ req \in [Requests -> HandlerState]
        /\ now \in Nat
    BY DEF StoreInvariant, TypeOK, HandlerState
  <2>1. ASSUME NEW p \in Requests, NEW state, Become(p, state),
               UNCHANGED <<now, nodes, samples, lastId, pages, maint>>,
               acked' \subseteq Promised, state.pc # "reply"
        PROVE  Goal
    <3>1. Promised' \subseteq Promised
      BY <2>0, <2>1 DEF Promised, Become
    <3>2. PromisedSampleKept'
      BY <2>0, <2>1, <3>1, PromisesStay
    <3> QED
      BY <2>0, <2>1, <3>2, CoverStays DEF PrunesOverLimit
  <2>2. acked \subseteq Promised
    BY DEF Promised
  <2>3. ASSUME NEW p \in Requests, NEW n \in Nodes, Authenticate(p, n) PROVE Goal
    BY <2>1, <2>2, <2>3 DEF Authenticate
  <2>4. ASSUME NEW p \in Requests, RecordReport(p) PROVE Goal
    <3>1. PICK n \in Nodes, at \in 0 .. now : Recorded(p, n, at)
      BY <2>0, <2>4, RecordEffect
    <3>2. PromisedSampleKept'
      BY <2>0, <3>1, PromisesGrow
    <3>3. LastReportCoversSamples'
      <4> SUFFICES ASSUME NEW i \in DOMAIN samples'
                   PROVE  /\ samples'[i].node \in DOMAIN nodes'
                          /\ samples'[i].at <= nodes'[samples'[i].node].last
        BY DEF LastReportCoversSamples
      <4>1. CASE i = lastId'
        BY <3>1, <4>1 DEF Recorded
      <4>2. CASE i # lastId'
        <5>1. /\ i \in DOMAIN samples /\ samples'[i] = samples[i]
              /\ samples[i].node \in DOMAIN nodes
              /\ samples[i].at <= nodes[samples[i].node].last
          BY <2>0, <3>1, <4>2 DEF Recorded, LastReportCoversSamples
        <5>2. /\ samples[i].at \in Int
              /\ nodes[samples[i].node].last \in Int
              /\ nodes'[samples[i].node].last \in Int
          BY <2>0, <3>1, <5>1 DEF TypeOK, Recorded, Never
        <5>3. nodes'[samples[i].node].last >= nodes[samples[i].node].last
          <6>1. CASE samples[i].node = n
            BY <3>1, <6>1 DEF Recorded
          <6>2. CASE samples[i].node # n
            BY <3>1, <5>1, <5>2, <6>2 DEF Recorded
          <6> QED
            BY <6>1, <6>2
        <5> QED
          BY <3>1, <5>1, <5>2, <5>3 DEF Recorded
      <4> QED
        BY <4>1, <4>2
    <3>4. PrunesOverLimit'
      BY <2>0, <3>1, TelemetryAssumption DEF PrunesOverLimit, Recorded, TypeOK
    <3> QED
      BY <3>2, <3>3, <3>4
  <2>5. ASSUME NEW p \in Requests, Reply(p) PROVE Goal
    <3>1. acked' \subseteq Promised
      BY <2>2, <2>5 DEF Reply, Promised
    <3> QED
      BY <2>1, <2>5, <3>1 DEF Reply, Idle
  <2>6. ASSUME NEW p \in Requests, Abandon(p) PROVE Goal
    BY <2>1, <2>2, <2>6 DEF Abandon, Idle
  <2>7. ASSUME NEW n \in Nodes, DisableNode(n) PROVE Goal
    <3>1. /\ Promised' = Promised
          /\ UNCHANGED <<now, samples, lastId, pages, maint>>
          /\ DOMAIN nodes' = DOMAIN nodes
      BY <2>7 DEF DisableNode, Promised
    <3>2. \A m \in DOMAIN nodes' : nodes'[m].last = nodes[m].last
      BY <2>0, <2>7 DEF DisableNode, TypeOK
    <3>3. PromisedSampleKept'
      BY <2>0, <3>1, PromisesStay
    <3> QED
      BY <2>0, <3>1, <3>2, <3>3, CoverStays DEF PrunesOverLimit
  <2>8. ASSUME NEW n \in Nodes, RemoveNode(n) PROVE Goal
    <3>1. /\ Promised' = Promised
          /\ UNCHANGED <<now, lastId, pages, maint>>
          /\ DOMAIN nodes' = DOMAIN nodes \ {n}
          /\ \A m \in DOMAIN nodes' : nodes'[m] = nodes[m]
      BY <2>8 DEF RemoveNode, Promised
    <3>2. /\ DOMAIN samples' = {i \in DOMAIN samples : samples[i].node # n}
          /\ \A i \in DOMAIN samples' : samples'[i] = samples[i]
      BY <2>8 DEF RemoveNode, Keep
    <3>3. PromisedSampleKept'
      BY <2>0, <3>1, <3>2, PromisesStay
    <3> QED
      BY <2>0, <3>1, <3>2, <3>3, CoverStays DEF PrunesOverLimit
  <2>9. CASE PurgeSamplesBefore
    <3>1. /\ Promised' = Promised
          /\ UNCHANGED <<now, nodes, lastId, pages>> /\ maint'.pc = "measure"
      BY <2>9 DEF PurgeSamplesBefore, Promised
    <3>2. /\ DOMAIN samples' = {i \in DOMAIN samples : samples[i].at >= now - Retention}
          /\ \A i \in DOMAIN samples' : samples'[i] = samples[i]
      BY <2>9 DEF PurgeSamplesBefore, Keep, Cutoff
    <3>3. \A i \in DOMAIN samples \ DOMAIN samples' : samples[i].at < now - Retention
      BY <2>0, <3>2, TelemetryAssumption DEF TypeOK
    <3>4. PromisedSampleKept'
      BY <2>0, <3>1, <3>2, <3>3, PromisesStay
    <3> QED
      BY <2>0, <3>1, <3>2, <3>4, CoverStays DEF PrunesOverLimit
  <2>10. CASE PruneOne
    <3>1. /\ Promised' = Promised /\ maint.pc = "prune"
          /\ UNCHANGED <<now, nodes, lastId, pages>> /\ maint'.pc = "measure"
      BY <2>0, <2>10 DEF PruneOne, Promised, TypeOK
    <3>2. /\ DOMAIN samples' \subseteq DOMAIN samples
          /\ \A i \in DOMAIN samples' : samples'[i] = samples[i]
      BY <2>10 DEF PruneOne, Keep
    <3>3. pages > MaxPages
      BY <2>0, <3>1 DEF PrunesOverLimit
    <3>4. PromisedSampleKept'
      BY <2>0, <3>1, <3>3, PromisesStay
    <3> QED
      BY <2>0, <3>1, <3>2, <3>4, CoverStays DEF PrunesOverLimit
  <2>11. ASSUME UNCHANGED <<now, nodes, samples, lastId, pages, req, acked>>,
                PrunesOverLimit'
         PROVE  Goal
    <3>1. Promised' = Promised
      BY <2>11 DEF Promised
    <3>2. PromisedSampleKept'
      BY <2>0, <2>11, <3>1, PromisesStay
    <3> QED
      BY <2>0, <2>11, <3>2, CoverStays
  <2>12. CASE MeasureDatabase
    <3>1. maint'.pc = "prune" => ~(pages <= MaxPages)
      BY <2>0, <2>12 DEF MeasureDatabase, TypeOK
    <3>2. PrunesOverLimit'
      BY <2>0, <2>12, <3>1, TelemetryAssumption
         DEF MeasureDatabase, PrunesOverLimit, TypeOK
    <3> QED
      BY <2>11, <2>12, <3>2 DEF MeasureDatabase
  <2>13. CASE EndMaintenance
    BY <2>0, <2>11, <2>13 DEF EndMaintenance, PrunesOverLimit, TypeOK
  <2>14. CASE Crash
    <3>1. Promised' \subseteq Promised
      BY <2>14 DEF Crash, Idle, Promised
    <3>2. PromisedSampleKept'
      BY <2>0, <2>14, <3>1, PromisesStay DEF Crash
    <3> QED
      BY <2>0, <2>14, <3>2, CoverStays DEF Crash, PrunesOverLimit
  <2>15. CASE Tick
    <3>1. Promised' = Promised /\ now' >= now
      BY <2>0, <2>15 DEF Tick, Promised
    <3>2. PromisedSampleKept'
      BY <2>0, <2>15, <3>1, PromisesStay DEF Tick
    <3> QED
      BY <2>0, <2>15, <3>2, CoverStays DEF Tick, PrunesOverLimit
  <2>16. CASE UNCHANGED vars
    BY <2>0, <2>11, <2>16 DEF vars, PrunesOverLimit
  <2> QED
    BY <2>3, <2>4, <2>5, <2>6, <2>7, <2>8, <2>9, <2>10, <2>12, <2>13, <2>14, <2>15, <2>16
       DEF Next, Step
<1>3. StoreInvariant <=> /\ TypeOK /\ ReceiptsArePast /\ LastReportCoversSamples
                         /\ PromisedSampleKept /\ PrunesOverLimit
  BY DEF StoreInvariant
<1> QED
  BY <1>1, <1>2, <1>3, TypeCorrect, PTL DEF Spec

(* A sample acknowledged with 204 is in the table, unless its node is gone, *)
(* it is older than the retention or the file is over its size limit.      *)
THEOREM AckedKept == Spec => []AckedSampleKept
<1>1. StoreInvariant => AckedSampleKept
  BY DEF StoreInvariant, PromisedSampleKept, Promised, AckedSampleKept
<1> QED
  BY <1>1, StoreInvariantHolds, PTL

(* Every stored sample is of an existing node and no later than its last   *)
(* report, in whatever order the reports committed.                        *)
THEOREM LastReportCovers == Spec => []LastReportCoversSamples
<1>1. StoreInvariant => LastReportCoversSamples
  BY DEF StoreInvariant
<1> QED
  BY <1>1, StoreInvariantHolds, PTL

-----------------------------------------------------------------------------
(* What no step of the store does. *)

(* Neither a late report nor maintenance takes a last report back.         *)
THEOREM LastReportOnlyAdvances == Spec => LastReportNeverGoesBack
<1> DEFINE Advances == \A n \in DOMAIN nodes \cap DOMAIN nodes' :
                          nodes'[n].last >= nodes[n].last
<1>1. TypeOK /\ ReceiptsArePast /\ [Next]_vars => Advances
  <2> SUFFICES ASSUME TypeOK, ReceiptsArePast, [Next]_vars PROVE Advances
    OBVIOUS
  <2>0. \A n \in DOMAIN nodes : nodes[n].last \in Int
    BY DEF TypeOK, Never
  <2>1. ASSUME NEW p \in Requests, RecordReport(p) PROVE Advances
    <3>1. PICK n \in Nodes, at \in 0 .. now : Recorded(p, n, at)
      BY <2>1, RecordEffect
    <3> QED
      BY <2>0, <3>1 DEF Recorded
  <2>2. ASSUME NEW n \in Nodes, DisableNode(n) PROVE Advances
    <3>1. \A m \in DOMAIN nodes' : nodes'[m].last = nodes[m].last
      BY <2>2 DEF DisableNode, TypeOK
    <3> QED
      BY <2>0, <3>1
  <2>3. ASSUME NEW n \in Nodes, RemoveNode(n) PROVE Advances
    BY <2>0, <2>3 DEF RemoveNode
  <2>4. CASE UNCHANGED nodes
    BY <2>0, <2>4
  <2> QED
    BY <2>1, <2>2, <2>3, <2>4 DEF Next, Step, vars, Authenticate, Reply, Abandon,
       PurgeSamplesBefore, MeasureDatabase, PruneOne, EndMaintenance, Crash, Tick
<1> QED
  BY <1>1, TypeCorrect, PTL DEF Spec, LastReportNeverGoesBack

(* A sample enters the table only while its node is there and enabled,     *)
(* however long ago the report passed its identity check.                  *)
THEOREM DisabledLeavesNoTrace == Spec => NoSampleAfterDisable
<1> DEFINE Traced == \A i \in DOMAIN samples' \ DOMAIN samples :
                        LET n == samples'[i].node IN n \in DOMAIN nodes /\ ~nodes[n].disabled
<1>1. TypeOK /\ ReceiptsArePast /\ [Next]_vars => Traced
  <2> SUFFICES ASSUME TypeOK, ReceiptsArePast, [Next]_vars PROVE Traced
    OBVIOUS
  <2>1. ASSUME NEW p \in Requests, RecordReport(p) PROVE Traced
    <3>1. PICK n \in Nodes, at \in 0 .. now : Recorded(p, n, at)
      BY <2>1, RecordEffect
    <3> QED
      BY <3>1 DEF Recorded
  <2>2. CASE DOMAIN samples' \subseteq DOMAIN samples
    BY <2>2
  <2> QED
    BY <2>1, <2>2 DEF Next, Step, vars, Authenticate, Reply, Abandon, DisableNode,
       RemoveNode, Keep, PurgeSamplesBefore, MeasureDatabase, PruneOne, EndMaintenance,
       Crash, Tick
<1> QED
  BY <1>1, TypeCorrect, PTL DEF Spec, NoSampleAfterDisable
=============================================================================
