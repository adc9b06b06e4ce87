---------------------------- MODULE Monitor_proofs ---------------------------
(***************************************************************************)
(* What a page shows together fits together, for any nodes, handlers,      *)
(* limits, spans and times, whatever is recorded, removed, purged, pruned  *)
(* or restarted between its reads.                                         *)
(***************************************************************************)
EXTENDS Monitor, Telemetry_proofs, WellFoundedInduction

(* The sample of that node and time is in the table, or there is a reason  *)
(* why not.                                                                *)
KeptSample(n, t) ==
    \/ \E i \in DOMAIN samples : samples[i] = [node |-> n, at |-> t]
    \/ n \notin DOMAIN nodes
    \/ t < now - Retention
    \/ pages > MaxPages

(* The last report of a node is of a sample: RecordReport writes both.     *)
LastIsSampled ==
    \A n \in DOMAIN nodes : nodes[n].last # Never => KeptSample(n, nodes[n].last)

(* A promised sample is of the past and shows in its node's last report.   *)
PromisesShow ==
    \A a \in Promised :
        /\ a.row.at <= now
        /\ a.row.node \in DOMAIN nodes => a.row.at <= nodes[a.row.node].last

(* What is known while a page is put together: the last report still to be *)
(* read is new enough, and the times already read are of samples.          *)
RowWillShow ==
    page.pc = "row" /\ page.node \in DOMAIN nodes => nodes[page.node].last >= page.answered
ReadTimesAreSampled ==
    /\ page.pc = "latest" /\ page.last # Never => KeptSample(page.node, page.last)
    /\ page.pc = "line" /\ page.latest # Never => KeptSample(page.node, page.latest)

PageInvariant ==
    /\ page \in PageState
    /\ RowWillShow
    /\ ReadTimesAreSampled
    /\ PageShowsAcknowledged
    /\ PageNotBehindItsState
    /\ ChartReachesLatest

(* The inductive invariant of a page over the store below it.              *)
MonitorInvariant == StoreInvariant /\ PromisesShow /\ LastIsSampled /\ PageInvariant

-----------------------------------------------------------------------------
(* What a step of Telemetry can do to what a page reads.                   *)
OrderlyStep ==
    /\ now' >= now /\ pages' >= pages /\ DOMAIN nodes' \subseteq DOMAIN nodes
    /\ \A i \in DOMAIN samples :
         \/ i \in DOMAIN samples' /\ samples'[i] = samples[i]
         \/ samples[i].node \notin DOMAIN nodes'
         \/ samples[i].at < now - Retention
         \/ pages > MaxPages
    /\ \A n \in DOMAIN nodes' :
         /\ nodes[n].disabled => nodes'[n].disabled
         /\ \/ nodes'[n].last = nodes[n].last
            \/ /\ nodes'[n].last >= nodes[n].last
               /\ \E i \in DOMAIN samples' : samples'[i] = [node |-> n, at |-> nodes'[n].last]
    /\ \A a \in Promised' :
         \/ a \in Promised
         \/ /\ a.row.at <= now
            /\ a.row.node \in DOMAIN nodes' => a.row.at <= nodes'[a.row.node].last

(* A set of times that is bounded has a newest one, and NewestOf is it; of *)
(* no times it is Never.                                                   *)
LEMMA NewestOfBounded ==
    ASSUME NEW S \in SUBSET Nat, NEW bound \in Nat, \A x \in S : x <= bound
    PROVE  /\ NewestOf(S) \in S \cup {Never}
           /\ \A x \in S \cup {Never} : NewestOf(S) >= x
<1> DEFINE all == S \cup {Never}
           gaps == {bound - x : x \in all}
<1>1. \A x \in all : x \in Int /\ x <= bound
  BY DEF Never
<1>2. gaps \subseteq Nat /\ gaps # {}
  BY <1>1
<1>3. PICK g \in gaps : \A h \in gaps : ~ (<<h, g>> \in OpToRel(<, Nat))
  <2> HIDE DEF gaps
  <2> QED
    BY <1>2, NatLessThanWellFounded, WFMin
<1>4. \A h \in gaps : g <= h
  <2> HIDE DEF gaps
  <2> TAKE h \in gaps
  <2>1. ~ (<<h, g>> \in {ss \in Nat \X Nat : ss[1] < ss[2]})
    BY <1>3 DEF OpToRel
  <2> QED
    BY <1>2, <2>1
<1>5. PICK m \in all : g = bound - m
  OBVIOUS
<1>6. \A x \in all : m >= x
  <2> TAKE x \in all
  <2>1. g <= bound - x
    BY <1>4
  <2> QED
    BY <1>1, <1>5, <2>1
<1>7. Max(all) \in all /\ \A x \in all : Max(all) >= x
  <2> HIDE DEF all
  <2> QED
    BY <1>6 DEF Max
<1> QED
  BY <1>7 DEF NewestOf

(* Every step of Telemetry is orderly.                                     *)
LEMMA StepsAreOrderly ==
    ASSUME StoreInvariant, [Next]_vars
    PROVE  OrderlyStep
<1>0. /\ TypeOK /\ ReceiptsArePast /\ PrunesOverLimit /\ LastReportCoversSamples
      /\ req \in [Requests -> HandlerState]
      /\ now \in Nat /\ pages \in Nat /\ acked \subseteq Promised
      /\ Retention \in Nat
  BY TelemetryAssumption DEF StoreInvariant, TypeOK, HandlerState, Promised
<1>1. ASSUME NEW p \in Requests, NEW state, Become(p, state), state.pc # "reply",
             acked' \subseteq Promised, UNCHANGED <<now, nodes, samples, pages>>
      PROVE  OrderlyStep
  <2>1. Promised' \subseteq Promised
    BY <1>0, <1>1 DEF Promised, Become
  <2> QED
    BY <1>0, <1>1, <2>1 DEF OrderlyStep
<1>2. ASSUME NEW p \in Requests, RecordReport(p) PROVE OrderlyStep
  <2>1. PICK n \in Nodes, at \in 0 .. now : Recorded(p, n, at)
    BY <1>0, <1>2, RecordEffect
  <2>2. /\ now' = now /\ pages' >= pages /\ DOMAIN nodes' = DOMAIN nodes
        /\ \A i \in DOMAIN samples : i \in DOMAIN samples' /\ samples'[i] = samples[i]
    BY <2>1 DEF Recorded
  <2>3. ASSUME NEW m \in DOMAIN nodes'
        PROVE  /\ nodes[m].disabled => nodes'[m].disabled
               /\ \/ nodes'[m].last = nodes[m].last
                  \/ /\ nodes'[m].last >= nodes[m].last
                     /\ \E i \in DOMAIN samples' :
                            samples'[i] = [node |-> m, at |-> nodes'[m].last]
    <3>1. CASE m # n
      BY <2>1, <2>2, <2>3, <3>1 DEF Recorded
    <3>2. CASE m = n
      BY <2>1, <3>2 DEF Recorded
    <3> QED
      BY <3>1, <3>2
  <2>4. ASSUME NEW a \in Promised'
        PROVE  a \in Promised \/ a.row = [node |-> n, at |-> at]
    <3>1. CASE a \in acked'
      BY <1>0, <2>1, <3>1 DEF Recorded
    <3>2. ASSUME NEW q \in Requests, req'[q].pc = "reply",
                 a = [id |-> req'[q].id, row |-> req'[q].row]
          PROVE  a \in Promised \/ a.row = [node |-> n, at |-> at]
      <4>1. CASE q = p
        BY <1>0, <2>1, <3>2, <4>1 DEF Recorded
      <4>2. CASE q # p
        BY <1>0, <2>1, <3>2, <4>2 DEF Recorded, Promised
      <4> QED
        BY <4>1, <4>2
    <3> QED
      BY <2>4, <3>1, <3>2 DEF Promised
  <2>5. at <= now /\ at <= nodes'[n].last
    BY <1>0, <2>1 DEF Recorded
  <2> QED
    BY <1>0, <2>2, <2>3, <2>4, <2>5 DEF OrderlyStep
<1>3. ASSUME NEW p \in Requests, Reply(p) PROVE OrderlyStep
  <2>1. acked' \subseteq Promised
    BY <1>0, <1>3 DEF Reply, Promised
  <2> QED
    BY <1>1, <1>3, <2>1 DEF Reply, Idle
<1>4. ASSUME Promised' \subseteq Promised, UNCHANGED pages, now' >= now, nodes' = nodes,
             \A i \in DOMAIN samples :
               \/ i \in DOMAIN samples' /\ samples'[i] = samples[i]
               \/ samples[i].at < now - Retention
               \/ pages > MaxPages
      PROVE  OrderlyStep
  BY <1>0, <1>4 DEF OrderlyStep
<1>5. ASSUME NEW n \in Nodes, DisableNode(n) PROVE OrderlyStep
  <2>1. /\ Promised' = Promised /\ UNCHANGED <<now, samples, pages>>
        /\ DOMAIN nodes' = DOMAIN nodes
    BY <1>5 DEF DisableNode, Promised
  <2>2. \A m \in DOMAIN nodes' : /\ nodes'[m].last = nodes[m].last
                                 /\ nodes[m].disabled => nodes'[m].disabled
    BY <1>0, <1>5 DEF DisableNode, TypeOK
  <2> QED
    BY <1>0, <2>1, <2>2 DEF OrderlyStep
<1>6. ASSUME NEW n \in Nodes, RemoveNode(n) PROVE OrderlyStep
  <2>1. /\ Promised' = Promised /\ UNCHANGED <<now, pages>>
        /\ DOMAIN nodes' = DOMAIN nodes \ {n}
        /\ \A m \in DOMAIN nodes' : nodes'[m] = nodes[m]
    BY <1>6 DEF RemoveNode, Promised
  <2>2. /\ DOMAIN samples' = {i \in DOMAIN samples : samples[i].node # n}
        /\ \A i \in DOMAIN samples' : samples'[i] = samples[i]
    BY <1>6 DEF RemoveNode, Keep
  <2> QED
    BY <1>0, <2>1, <2>2 DEF OrderlyStep
<1>7. CASE PurgeSamplesBefore
  <2>1. Promised' = Promised /\ UNCHANGED <<now, nodes, pages>>
    BY <1>7 DEF PurgeSamplesBefore, Promised
  <2>2. /\ DOMAIN samples' = {i \in DOMAIN samples : samples[i].at >= now - Retention}
        /\ \A i \in DOMAIN samples' : samples'[i] = samples[i]
    BY <1>7 DEF PurgeSamplesBefore, Keep, Cutoff
  <2>3. \A i \in DOMAIN samples \ DOMAIN samples' : samples[i].at < now - Retention
    BY <1>0, <2>2 DEF TypeOK
  <2> QED
    BY <1>0, <1>4, <2>1, <2>2, <2>3
<1>8. CASE PruneOne
  <2>1. Promised' = Promised /\ maint.pc = "prune" /\ UNCHANGED <<now, nodes, pages>>
    BY <1>8 DEF PruneOne, Promised
  <2> QED
    BY <1>0, <1>4, <2>1 DEF PrunesOverLimit
<1>9. ASSUME UNCHANGED <<nodes, samples, pages>>, now' >= now, acked' = acked,
             req' = req \/ \A p \in Requests : req'[p].pc # "reply"
      PROVE  OrderlyStep
  <2>1. Promised' \subseteq Promised
    BY <1>9 DEF Promised
  <2> QED
    BY <1>4, <1>9, <2>1
<1>10. CASE MeasureDatabase \/ EndMaintenance \/ Tick \/ Crash \/ UNCHANGED vars
  BY <1>0, <1>9, <1>10 DEF MeasureDatabase, EndMaintenance, Tick, Crash, Idle, vars
<1>11. ASSUME NEW p \in Requests, NEW n \in Nodes, Authenticate(p, n)
       PROVE  OrderlyStep
  BY <1>0, <1>1, <1>11 DEF Authenticate
<1>12. ASSUME NEW p \in Requests, Abandon(p)
       PROVE  OrderlyStep
  BY <1>0, <1>1, <1>12 DEF Abandon, Idle
<1> QED
  BY <1>2, <1>3, <1>5, <1>6, <1>7, <1>8, <1>10, <1>11, <1>12 DEF Next, Step

(* A sample that is kept, and the invariants of the store, survive a step. *)
LEMMA KeptStays ==
    ASSUME TypeOK, TypeOK', OrderlyStep, NEW n, NEW t \in Nat, KeptSample(n, t)
    PROVE  KeptSample(n, t)'
<1>0. /\ now \in Nat /\ now' \in Nat /\ now' >= now /\ pages \in Nat /\ pages' \in Nat
      /\ pages' >= pages /\ Retention \in Nat /\ MaxPages \in Nat
  BY TelemetryAssumption DEF TypeOK, OrderlyStep
<1>1. CASE \E i \in DOMAIN samples : samples[i] = [node |-> n, at |-> t]
  <2>1. PICK i \in DOMAIN samples : samples[i] = [node |-> n, at |-> t]
    BY <1>1
  <2>2. \/ i \in DOMAIN samples' /\ samples'[i] = samples[i]
        \/ n \notin DOMAIN nodes'
        \/ t < now - Retention
        \/ pages > MaxPages
    BY <2>1 DEF OrderlyStep
  <2> QED
    BY <1>0, <2>1, <2>2 DEF KeptSample
<1>2. CASE n \notin DOMAIN nodes
  BY <1>2 DEF KeptSample, OrderlyStep
<1>3. CASE t < now - Retention \/ pages > MaxPages
  BY <1>0, <1>3 DEF KeptSample
<1> QED
  BY <1>1, <1>2, <1>3 DEF KeptSample

(* What is promised has a time.                                            *)
PromisedHaveTimes == \A a \in Promised : a.row.at \in Nat
LEMMA PromisedAreTimes == TypeOK => PromisedHaveTimes
BY PromisedTyped DEF PromisedHaveTimes

LEMMA StoreStays ==
    ASSUME TypeOK, TypeOK', PromisedHaveTimes, PromisedHaveTimes', OrderlyStep,
           PromisesShow, LastIsSampled
    PROVE  PromisesShow' /\ LastIsSampled'
<1>0. /\ now \in Nat /\ now' \in Nat /\ now' >= now
      /\ \A n \in DOMAIN nodes : nodes[n].last \in Nat \cup {Never}
      /\ \A n \in DOMAIN nodes' : nodes'[n].last \in Nat \cup {Never}
  BY DEF TypeOK, OrderlyStep
<1>1. PromisesShow'
  <2> SUFFICES ASSUME NEW a \in Promised'
               PROVE  /\ a.row.at <= now'
                      /\ a.row.node \in DOMAIN nodes' => a.row.at <= nodes'[a.row.node].last
    BY DEF PromisesShow
  <2>1. CASE a \in Promised
    <3>1. /\ a.row.at \in Nat /\ a.row.at <= now
          /\ a.row.node \in DOMAIN nodes => a.row.at <= nodes[a.row.node].last
      BY <2>1 DEF PromisesShow, PromisedHaveTimes
    <3>2. ASSUME a.row.node \in DOMAIN nodes' PROVE a.row.at <= nodes'[a.row.node].last
      <4>1. /\ a.row.node \in DOMAIN nodes
            /\ \/ nodes'[a.row.node].last = nodes[a.row.node].last
               \/ nodes'[a.row.node].last >= nodes[a.row.node].last
        BY <3>2 DEF OrderlyStep
      <4>2. nodes'[a.row.node].last \in Int /\ nodes[a.row.node].last \in Int
        BY <1>0, <3>2, <4>1 DEF Never
      <4> QED
        BY <3>1, <4>1, <4>2
    <3> QED
      BY <1>0, <3>1, <3>2
  <2>2. CASE a \notin Promised
    <3>1. /\ a.row.at <= now
          /\ a.row.node \in DOMAIN nodes' => a.row.at <= nodes'[a.row.node].last
      BY <2>2 DEF OrderlyStep
    <3>2. now' >= now /\ a.row.at \in Nat
      BY <1>0 DEF PromisedHaveTimes
    <3> QED
      BY <1>0, <3>1, <3>2
  <2> QED
    BY <2>1, <2>2
<1>2. LastIsSampled'
  <2> SUFFICES ASSUME NEW n \in DOMAIN nodes', nodes'[n].last # Never
               PROVE  KeptSample(n, nodes[n].last)'
    BY DEF LastIsSampled
  <2>1. PICK t : t = nodes'[n].last
    OBVIOUS
  <2>2. t \in Nat /\ n \in DOMAIN nodes
    BY <1>0, <2>1 DEF OrderlyStep
  <2>3. CASE t = nodes[n].last
    <3>1. KeptSample(n, t)
      BY <2>1, <2>2, <2>3 DEF LastIsSampled
    <3>2. KeptSample(n, t)'
      BY <2>2, <3>1, KeptStays
    <3> QED
      BY <2>1, <3>2 DEF KeptSample
  <2>4. CASE t # nodes[n].last
    <3>1. \E i \in DOMAIN samples' : samples'[i] = [node |-> n, at |-> t]
      BY <2>1, <2>4 DEF OrderlyStep
    <3> QED
      BY <2>1, <3>1 DEF KeptSample
  <2> QED
    BY <2>3, <2>4
<1> QED
  BY <1>1, <1>2

-----------------------------------------------------------------------------
(* What the stages of a page carry.                                        *)
LEMMA PageFields ==
    ASSUME page \in PageState
    PROVE  /\ page.pc = "row" => page.node \in Nodes /\ page.at \in Nat /\ page.answered \in Times
           /\ page.pc = "latest" => /\ page.node \in Nodes /\ page.at \in Nat
                                    /\ page.answered \in Times /\ page.last \in Times
           /\ page.pc = "line" => page.node \in Nodes /\ page.last \in Times /\ page.latest \in Times
           /\ page.pc = "chart" => page.node \in Nodes /\ page.latest \in Times /\ page.since \in Int
           /\ page.pc \in {"none", "row", "latest", "line", "chart"}
BY DEF PageState, NoPage

(* A step below a page that is put together.                               *)
LEMMA PageStays ==
    ASSUME TypeOK, TypeOK', OrderlyStep, PageInvariant, page' = page
    PROVE  PageInvariant'
<1>0. /\ now \in Nat /\ now' \in Nat /\ now' >= now /\ pages \in Nat /\ pages' \in Nat
      /\ pages' >= pages /\ Retention \in Nat /\ MaxPages \in Nat
      /\ DOMAIN nodes' \subseteq DOMAIN nodes
      /\ page \in PageState
  BY TelemetryAssumption DEF TypeOK, OrderlyStep, PageInvariant
<1>1. RowWillShow'
  <2> SUFFICES ASSUME page.pc = "row", page.node \in DOMAIN nodes'
               PROVE  nodes'[page.node].last >= page.answered
    BY DEF RowWillShow
  <2>1. /\ page.node \in DOMAIN nodes /\ nodes[page.node].last >= page.answered
        /\ \/ nodes'[page.node].last = nodes[page.node].last
           \/ nodes'[page.node].last >= nodes[page.node].last
    BY <1>0 DEF PageInvariant, RowWillShow, OrderlyStep
  <2>2. /\ nodes'[page.node].last \in Int /\ nodes[page.node].last \in Int
        /\ page.answered \in Int
    BY <1>0, <2>1, PageFields DEF TypeOK, Times, Never
  <2> QED
    BY <2>1, <2>2
<1>2. ReadTimesAreSampled'
  <2>1. ASSUME page.pc = "latest", page.last # Never PROVE KeptSample(page.node, page.last)'
    <3>1. PICK n, t : n = page.node /\ t = page.last
      OBVIOUS
    <3>2. t \in Nat /\ KeptSample(n, t)
      BY <1>0, <2>1, <3>1, PageFields DEF PageInvariant, ReadTimesAreSampled, Times
    <3>3. KeptSample(n, t)'
      BY <3>2, KeptStays
    <3> QED
      BY <3>1, <3>3 DEF KeptSample
  <2>2. ASSUME page.pc = "line", page.latest # Never PROVE KeptSample(page.node, page.latest)'
    <3>1. PICK n, t : n = page.node /\ t = page.latest
      OBVIOUS
    <3>2. t \in Nat /\ KeptSample(n, t)
      BY <1>0, <2>2, <3>1, PageFields DEF PageInvariant, ReadTimesAreSampled, Times
    <3>3. KeptSample(n, t)'
      BY <3>2, KeptStays
    <3> QED
      BY <3>1, <3>3 DEF KeptSample
  <2> QED
    BY <2>1, <2>2 DEF ReadTimesAreSampled
<1>3. PageShowsAcknowledged'
  BY <1>0 DEF PageInvariant, PageShowsAcknowledged, OrderlyStep
<1>4. PageNotBehindItsState'
  <2>1. page.pc = "line" => page.last \in Int
    BY <1>0, PageFields DEF Times, Never
  <2> QED
    BY <1>0, <2>1 DEF PageInvariant, PageNotBehindItsState
<1>5. ChartReachesLatest'
  BY <1>0 DEF PageInvariant, ChartReachesLatest
<1> QED
  BY <1>0, <1>1, <1>2, <1>3, <1>4, <1>5 DEF PageInvariant

(* A page that goes away, for whatever reason.                             *)
LEMMA PageEnds ==
    ASSUME page' = NoPage
    PROVE  PageInvariant'
BY DEF NoPage, PageState, PageInvariant, RowWillShow, ReadTimesAreSampled,
       PageShowsAcknowledged, PageNotBehindItsState, ChartReachesLatest

(* What was acknowledged before the page was asked for shows in the row.   *)
LEMMA AskKeepsInvariant ==
    ASSUME MonitorInvariant, NEW n \in Nodes, AskPage(n)
    PROVE  PageInvariant'
<1> DEFINE times == {a.row.at : a \in {b \in acked : b.row.node = n}}
<1>0. /\ now \in Nat /\ acked \subseteq Promised
      /\ \A m \in DOMAIN nodes : nodes[m].last \in Nat \cup {Never}
  BY DEF MonitorInvariant, StoreInvariant, TypeOK, Promised
<1>1. /\ times \in SUBSET Nat /\ \A t \in times : t <= now
      /\ n \in DOMAIN nodes => \A t \in times : t <= nodes[n].last
  <2>1. ASSUME NEW a \in acked, a.row.node = n
        PROVE  /\ a.row.at \in Nat /\ a.row.at <= now
               /\ n \in DOMAIN nodes => a.row.at <= nodes[n].last
    BY <1>0, <2>1, PromisedAreTimes
       DEF MonitorInvariant, StoreInvariant, PromisesShow, PromisedHaveTimes
  <2> QED
    BY <2>1
<1> HIDE DEF times
<1>2. NewestOf(times) \in times \cup {Never}
  BY <1>0, <1>1, NewestOfBounded
<1>3. NewestOf(times) \in Times
  BY <1>1, <1>2 DEF Times
<1>4. n \in DOMAIN nodes => nodes[n].last >= NewestOf(times)
  <2>1. CASE NewestOf(times) = Never
    BY <1>0, <2>1 DEF Never
  <2>2. CASE NewestOf(times) \in times
    BY <1>0, <1>1, <2>2 DEF Never
  <2> QED
    BY <1>2, <2>1, <2>2
<1>5. /\ page' = [pc |-> "row", node |-> n, at |-> now, answered |-> NewestOf(times)]
      /\ nodes' = nodes
  BY DEF AskPage, Acknowledged, times, vars
<1>6. page' \in PageState /\ page'.pc = "row"
  BY <1>0, <1>3, <1>5 DEF PageState
<1>7. RowWillShow'
  BY <1>4, <1>5 DEF RowWillShow
<1> QED
  BY <1>6, <1>7 DEF PageInvariant, ReadTimesAreSampled, PageShowsAcknowledged,
                    PageNotBehindItsState, ChartReachesLatest

(* The row carries a last report that is new enough, and of a sample.      *)
LEMMA ReadRowKeepsInvariant ==
    ASSUME MonitorInvariant, ReadRow
    PROVE  PageInvariant'
<1>1. CASE page.node \notin DOMAIN nodes
  BY <1>1, PageEnds DEF ReadRow
<1>2. CASE page.node \in DOMAIN nodes
  <2>1. PICK n, last, disabled, at, answered :
           /\ n = page.node /\ last = nodes[n].last /\ disabled = nodes[n].disabled
           /\ at = page.at /\ answered = page.answered
    OBVIOUS
  <2>2. /\ n \in Nodes /\ n \in DOMAIN nodes /\ last \in Times /\ disabled \in BOOLEAN
        /\ at \in Nat /\ answered \in Times /\ last >= answered
    <3>1. page \in PageState /\ page.pc = "row" /\ RowWillShow
      BY DEF ReadRow, MonitorInvariant, PageInvariant
    <3>2. nodes[n] \in [disabled : BOOLEAN, last : Nat \cup {Never}]
      BY <1>2, <2>1 DEF MonitorInvariant, StoreInvariant, TypeOK
    <3> QED
      BY <1>2, <2>1, <3>1, <3>2, PageFields DEF RowWillShow, Times
  <2>3. /\ page' = [pc |-> "latest", node |-> n, at |-> at, answered |-> answered,
                    last |-> last, state |-> NodeStateAt(last, at, disabled)]
        /\ UNCHANGED vars
    BY <1>2, <2>1 DEF ReadRow
  <2>4. OnlineFor \in Nat /\ DelayedFor \in Nat
    BY MonitorAssumption
  <2>5. NodeStateAt(last, at, disabled) \in {"pending", "online", "delayed", "offline"}
    BY <2>2 DEF NodeStateAt
  <2>6. answered # Never =>
          \/ /\ at - answered <= OnlineFor => NodeStateAt(last, at, disabled) = "online"
             /\ at - answered <= DelayedFor =>
                    NodeStateAt(last, at, disabled) \in {"online", "delayed"}
          \/ disabled /\ NodeStateAt(last, at, disabled) = "offline"
    <3>1. CASE disabled
      BY <2>2, <3>1 DEF NodeStateAt
    <3>2. ASSUME ~disabled, answered # Never, at - answered <= OnlineFor
          PROVE  NodeStateAt(last, at, disabled) = "online"
      <4>1. last # Never /\ at - last <= OnlineFor
        BY <2>2, <2>4, <3>2 DEF Times, Never
      <4>2. at - last \notin OnlineFor + 1 .. DelayedFor
        BY <2>2, <2>4, <4>1 DEF Times, Never
      <4> QED
        BY <3>2, <4>1, <4>2 DEF NodeStateAt
    <3>3. ASSUME ~disabled, answered # Never, at - answered <= DelayedFor
          PROVE  NodeStateAt(last, at, disabled) \in {"online", "delayed"}
      <4>1. last # Never /\ at - last \in Int /\ at - last <= DelayedFor
        BY <2>2, <2>4, <3>3 DEF Times, Never
      <4>2. CASE at - last <= OnlineFor
        <5>1. at - last \notin OnlineFor + 1 .. DelayedFor
          BY <2>4, <4>1, <4>2
        <5> QED
          BY <3>3, <4>1, <4>2, <5>1 DEF NodeStateAt
      <4>3. CASE ~(at - last <= OnlineFor)
        <5>1. at - last \in OnlineFor + 1 .. DelayedFor
          BY <2>4, <4>1, <4>3
        <5> QED
          BY <3>3, <4>1, <4>3, <5>1 DEF NodeStateAt
      <4> QED
        BY <4>2, <4>3
    <3> QED
      BY <2>2, <3>1, <3>2, <3>3
  <2>7. last # Never => KeptSample(n, last)
    BY <2>1, <2>2 DEF MonitorInvariant, LastIsSampled
  <2>8. page' \in PageState
    BY <2>2, <2>3, <2>5 DEF PageState
  <2>9. page'.pc = "latest" /\ page'.last = last /\ page'.node = n
    BY <2>3
  <2>10. ReadTimesAreSampled'
    <3>1. last # Never => KeptSample(n, last)'
      BY <2>3, <2>7 DEF KeptSample, vars
    <3> QED
      BY <2>9, <3>1 DEF ReadTimesAreSampled, KeptSample
  <2>11. PageShowsAcknowledged'
    <3>1. /\ page'.pc = "latest" /\ page'.node = n /\ page'.at = at /\ page'.last = last
          /\ page'.answered = answered /\ page'.state = NodeStateAt(last, at, disabled)
          /\ nodes'[n].disabled = disabled
      BY <2>1, <2>3 DEF vars
    <3> QED
      BY <2>2, <2>6, <3>1 DEF PageShowsAcknowledged
  <2> QED
    BY <2>8, <2>9, <2>10, <2>11
       DEF PageInvariant, RowWillShow, PageNotBehindItsState, ChartReachesLatest
<1> QED
  BY <1>1, <1>2

(* The samples of a node have times of the past.                           *)
LEMMA SampleTimes ==
    ASSUME TypeOK, NEW n
    PROVE  /\ {samples[i].at : i \in SamplesOf(n)} \in SUBSET Nat
           /\ \A t \in {samples[i].at : i \in SamplesOf(n)} : t <= now
<1>1. \A i \in DOMAIN samples : samples[i].at \in Nat /\ samples[i].at <= now
  BY DEF TypeOK
<1> QED
  BY <1>1 DEF SamplesOf

(* The metrics read next are of a sample as new as the last report, if it  *)
(* is still there.                                                         *)
LEMMA ReadLatestKeepsInvariant ==
    ASSUME MonitorInvariant, ReadLatest
    PROVE  PageInvariant'
<1>1. PICK n, last, latest :
         n = page.node /\ last = page.last /\ latest = LatestSample(n)
  OBVIOUS
<1>2. /\ TypeOK /\ now \in Nat
      /\ page' = [pc |-> "line", node |-> n, last |-> last, latest |-> latest]
      /\ UNCHANGED vars
  BY <1>1 DEF MonitorInvariant, StoreInvariant, TypeOK, ReadLatest
<1>3. /\ n \in Nodes /\ last \in Times
      /\ last # Never => KeptSample(n, last)
  BY <1>1, PageFields DEF MonitorInvariant, PageInvariant, ReadLatest, ReadTimesAreSampled
<1> DEFINE times == {samples[i].at : i \in SamplesOf(n)}
<1>4. latest \in times \cup {Never} /\ \A t \in times \cup {Never} : latest >= t
  <2>1. latest = NewestOf(times)
    BY <1>1 DEF LatestSample
  <2>2. times \in SUBSET Nat /\ \A t \in times : t <= now
    BY <1>2, SampleTimes
  <2> HIDE DEF times
  <2> QED
    BY <1>2, <2>1, <2>2, NewestOfBounded
<1>5. latest \in Times
  <2>1. times \in SUBSET Nat
    BY <1>2, SampleTimes
  <2> HIDE DEF times
  <2> QED
    BY <1>4, <2>1 DEF Times
<1>6. latest # Never => KeptSample(n, latest)
  <2>1. SUFFICES ASSUME latest # Never PROVE KeptSample(n, latest)
    OBVIOUS
  <2>2. PICK i \in DOMAIN samples : samples[i].node = n /\ samples[i].at = latest
    BY <1>4, <2>1 DEF SamplesOf
  <2>3. samples[i] \in [node : Nodes, at : 0 .. now]
    BY <1>2 DEF TypeOK
  <2>4. samples[i] = [node |-> n, at |-> latest]
    BY <2>2, <2>3
  <2> QED
    BY <2>4 DEF KeptSample
<1>7. last # Never =>
        \/ latest >= last \/ n \notin DOMAIN nodes
        \/ last < now - Retention \/ pages > MaxPages
  <2>1. SUFFICES ASSUME NEW i \in DOMAIN samples, samples[i] = [node |-> n, at |-> last]
                 PROVE  latest >= last
    BY <1>3 DEF KeptSample
  <2>2. last \in times
    BY <2>1 DEF SamplesOf
  <2> QED
    BY <1>4, <2>2
<1> HIDE DEF times
<1>8. page' \in PageState /\ page'.pc = "line"
  BY <1>2, <1>3, <1>5 DEF PageState
<1>9. ReadTimesAreSampled'
  <2>1. latest # Never => KeptSample(n, latest)'
    BY <1>2, <1>6 DEF KeptSample, vars
  <2>2. page'.pc = "line" /\ page'.node = n /\ page'.latest = latest
    BY <1>2
  <2> QED
    BY <2>1, <2>2 DEF ReadTimesAreSampled, KeptSample
<1>10. PageNotBehindItsState'
  BY <1>2, <1>7 DEF PageNotBehindItsState, vars
<1> QED
  BY <1>8, <1>9, <1>10 DEF PageInvariant, RowWillShow, PageShowsAcknowledged, ChartReachesLatest

(* A sample of the last 24 hours is not old enough to be purged: the chart *)
(* read after it was shown still has it.                                   *)
LEMMA ReadChartKeepsInvariant ==
    ASSUME MonitorInvariant, ReadChart
    PROVE  PageInvariant'
<1>1. PICK n, latest, since, chart :
         /\ n = page.node /\ latest = page.latest /\ since = now - ChartSpan
         /\ chart = SamplesSince(n, since)
  OBVIOUS
<1>2. /\ TypeOK /\ now \in Nat /\ ChartSpan \in Nat /\ Retention \in Nat /\ ChartSpan <= Retention
      /\ page' = [pc |-> "chart", node |-> n, latest |-> latest, since |-> since,
                  chart |-> chart]
      /\ UNCHANGED vars
  BY <1>1, MonitorAssumption, TelemetryAssumption
     DEF MonitorInvariant, StoreInvariant, TypeOK, ReadChart
<1>3. /\ n \in Nodes /\ latest \in Times
      /\ latest # Never => KeptSample(n, latest)
  BY <1>1, PageFields DEF MonitorInvariant, PageInvariant, ReadChart, ReadTimesAreSampled
<1>4. since \in Int /\ chart \in SUBSET Nat
  <2>1. chart \subseteq {samples[i].at : i \in SamplesOf(n)}
    BY <1>1 DEF SamplesSince
  <2> QED
    BY <1>1, <1>2, <2>1, SampleTimes
<1>5. latest # Never /\ latest >= since =>
        latest \in chart \/ n \notin DOMAIN nodes \/ pages > MaxPages
  <2>1. SUFFICES ASSUME latest # Never, latest >= since, n \in DOMAIN nodes, ~(pages > MaxPages)
                 PROVE  latest \in chart
    OBVIOUS
  <2>2. latest \in Nat /\ ~(latest < now - Retention)
    BY <1>1, <1>2, <1>3, <2>1 DEF Times
  <2>3. PICK i \in DOMAIN samples : samples[i] = [node |-> n, at |-> latest]
    BY <1>3, <2>1, <2>2 DEF KeptSample
  <2> QED
    BY <1>1, <2>1, <2>3 DEF SamplesSince, SamplesOf
<1>6. page' \in PageState /\ page'.pc = "chart"
  BY <1>2, <1>3, <1>4 DEF PageState
<1>7. ChartReachesLatest'
  BY <1>2, <1>5 DEF ChartReachesLatest, vars
<1> QED
  BY <1>6, <1>7 DEF PageInvariant, RowWillShow, ReadTimesAreSampled, PageShowsAcknowledged,
                    PageNotBehindItsState

-----------------------------------------------------------------------------
(* The monitor only reads: below its pages the store does what Telemetry   *)
(* allows (web.go has no write on these routes).                           *)
THEOREM PagesOnlyRead == MonitorSpec => Spec
<1>1. MonitorInit => Init
  BY DEF MonitorInit
<1>2. [MonitorNext]_monitorVars => [Next]_vars
  BY DEF MonitorNext, monitorVars, Next, AskPage, ReadRow, ReadLatest, ReadChart, EndPage
<1> QED
  BY <1>1, <1>2, PTL DEF MonitorSpec, Spec

(* The inductive invariant of the pages: last reports and the metrics read *)
(* beside them are of samples that are kept, or the reason why not holds.  *)
THEOREM MonitorInvariantHolds == MonitorSpec => []MonitorInvariant
<1>1. MonitorInit => PromisesShow /\ LastIsSampled /\ PageInvariant
  <2> SUFFICES ASSUME MonitorInit PROVE PromisesShow /\ LastIsSampled /\ PageInvariant
    OBVIOUS
  <2>1. PromisesShow
    BY DEF MonitorInit, Init, Idle, PromisesShow, Promised
  <2>2. LastIsSampled
    BY DEF MonitorInit, Init, LastIsSampled
  <2>3. PageInvariant
    BY DEF MonitorInit, NoPage, PageState, PageInvariant, RowWillShow, ReadTimesAreSampled,
           PageShowsAcknowledged, PageNotBehindItsState, ChartReachesLatest
  <2> QED
    BY <2>1, <2>2, <2>3
<1>2. MonitorInvariant /\ StoreInvariant' /\ PromisedHaveTimes' /\ [MonitorNext]_monitorVars
        => PromisesShow' /\ LastIsSampled' /\ PageInvariant'
  <2> SUFFICES ASSUME MonitorInvariant, StoreInvariant', PromisedHaveTimes',
                      [MonitorNext]_monitorVars
               PROVE  PromisesShow' /\ LastIsSampled' /\ PageInvariant'
    OBVIOUS
  <2>0. /\ TypeOK /\ TypeOK' /\ StoreInvariant /\ PromisesShow /\ LastIsSampled
        /\ PageInvariant /\ PromisedHaveTimes
    BY PromisedAreTimes DEF MonitorInvariant, StoreInvariant
  <2>1. OrderlyStep
    <3>1. [Next]_vars
      BY DEF MonitorNext, monitorVars, Next, AskPage, ReadRow, ReadLatest, ReadChart, EndPage
    <3> QED
      BY <2>0, <3>1, StepsAreOrderly
  <2>2. PromisesShow' /\ LastIsSampled'
    BY <2>0, <2>1, StoreStays
  <2>3. CASE page' = page
    BY <2>0, <2>1, <2>2, <2>3, PageStays
  <2>4. CASE (Crash /\ page' = NoPage) \/ EndPage
    BY <2>2, <2>4, PageEnds DEF EndPage
  <2>5. ASSUME NEW n \in Nodes, AskPage(n) PROVE PageInvariant'
    BY <2>5, AskKeepsInvariant
  <2>6. CASE ReadRow
    BY <2>2, <2>6, ReadRowKeepsInvariant
  <2>7. CASE ReadLatest
    BY <2>2, <2>7, ReadLatestKeepsInvariant
  <2>8. CASE ReadChart
    BY <2>2, <2>8, ReadChartKeepsInvariant
  <2> QED
    BY <2>2, <2>3, <2>4, <2>5, <2>6, <2>7, <2>8 DEF MonitorNext, monitorVars
<1>3. StoreInvariant => TypeOK
  BY DEF StoreInvariant
<1>4. MonitorSpec => []StoreInvariant
  BY PagesOnlyRead, StoreInvariantHolds, PTL
<1>5. MonitorInvariant <=> StoreInvariant /\ PromisesShow /\ LastIsSampled /\ PageInvariant
  BY DEF MonitorInvariant
<1> QED
  BY <1>1, <1>2, <1>3, <1>4, <1>5, PromisedAreTimes, PTL DEF MonitorSpec

(* A page and what it was read from always have their types (web.go).      *)
THEOREM MonitorTypeCorrect == MonitorSpec => []MonitorTypeOK
<1>1. MonitorInvariant => MonitorTypeOK
  BY DEF MonitorInvariant, StoreInvariant, PageInvariant, MonitorTypeOK
<1> QED
  BY <1>1, MonitorInvariantHolds, PTL

(* A node whose report of the last 90 seconds was acknowledged before the  *)
(* page was asked for is shown online, unless it was disabled or removed   *)
(* (nodeDetail, NodeStateAt).                                              *)
THEOREM AcknowledgedIsShown == MonitorSpec => []PageShowsAcknowledged
<1>1. MonitorInvariant => PageShowsAcknowledged
  BY DEF MonitorInvariant, PageInvariant
<1> QED
  BY <1>1, MonitorInvariantHolds, PTL

(* The metrics on a page are not older than the last report beside them,   *)
(* unless that report was deleted meanwhile (latestSample).                *)
THEOREM MetricsKeepUp == MonitorSpec => []PageNotBehindItsState
<1>1. MonitorInvariant => PageNotBehindItsState
  BY DEF MonitorInvariant, PageInvariant
<1> QED
  BY <1>1, MonitorInvariantHolds, PTL

(* The chart of a node's page reaches the metrics shown above it           *)
(* (SamplesSince).                                                         *)
THEOREM ChartKeepsUp == MonitorSpec => []ChartReachesLatest
<1>1. MonitorInvariant => ChartReachesLatest
  BY DEF MonitorInvariant, PageInvariant
<1> QED
  BY <1>1, MonitorInvariantHolds, PTL
=============================================================================
