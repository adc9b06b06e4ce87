------------------------------ MODULE Monitor ------------------------------
(***************************************************************************)
(* The pages of the monitor (web.go): the dashboard, which lists the nodes *)
(* and then reads each one (ListNodes, Node, latestSample of store.go),    *)
(* and the page of a node, which reads it and then its last 24 hours       *)
(* (nodeDetail, SamplesSince).  Every read is a statement of its own, so a *)
(* page is put together while reports, removals and maintenance of         *)
(* Telemetry go on.  Pages write nothing and the lines of a dashboard do   *)
(* not depend on each other, except that one node gone fails them all: the *)
(* model follows one line of one page at a time.                           *)
(* An operator X_Y is X with a plausible bug: MonitorNext never uses it.   *)
(***************************************************************************)
EXTENDS Telemetry

CONSTANTS
    OnlineFor, DelayedFor,   \* 90 and 180 seconds
    ChartSpan                \* 24 hours

ASSUME MonitorAssumption ==
    /\ {OnlineFor, DelayedFor, ChartSpan} \subseteq Nat
    /\ OnlineFor <= DelayedFor
    /\ ChartSpan <= Retention

VARIABLE page    \* the page being built, see PageState

monitorVars == <<vars, page>>

NoPage == [pc |-> "none"]
Times == Nat \cup {Never}
PageState ==
         {NoPage}
    \cup [pc : {"row"}, node : Nodes, at : Nat, answered : Times]
    \cup [pc : {"latest"}, node : Nodes, at : Nat, answered : Times, last : Times,
          state : {"pending", "online", "delayed", "offline"}]
    \cup [pc : {"line"}, node : Nodes, last : Times, latest : Times]
    \cup [pc : {"chart"}, node : Nodes, latest : Times, since : Int, chart : SUBSET Nat]

MonitorInit == Init /\ page = NoPage

-----------------------------------------------------------------------------
NewestOf(S) == Max(S \cup {Never})
SamplesOf(n) == {i \in DOMAIN samples : samples[i].node = n}

(* History: the newest report of the node that was acknowledged before the *)
(* page was asked for.                                                     *)
Acknowledged(n) == NewestOf({a.row.at : a \in {b \in acked : b.row.node = n}})

NodeStateAt(last, at, disabled) ==
    CASE disabled                            -> "offline"
      [] ~disabled /\ last = Never           -> "pending"
      [] ~disabled /\ last # Never /\ at - last <= OnlineFor -> "online"
      [] ~disabled /\ last # Never /\ at - last \in OnlineFor + 1 .. DelayedFor -> "delayed"
      [] OTHER                               -> "offline"

LatestSample_Oldest(n) ==
    IF SamplesOf(n) = {} THEN Never ELSE Min({samples[i].at : i \in SamplesOf(n)})
LatestSample(n) == NewestOf({samples[i].at : i \in SamplesOf(n)})

SamplesSince_Exclusive(n, since) ==
    {samples[i].at : i \in {j \in SamplesOf(n) : samples[j].at > since}}
SamplesSince(n, since) == {samples[i].at : i \in {j \in SamplesOf(n) : samples[j].at >= since}}

-----------------------------------------------------------------------------
(* GET /nodes/{id} of any id, or GET / when ListNodes returns the id among *)
(* others.  Both read their clock first.                                   *)
AskPage(n) ==
    /\ page = NoPage
    /\ page' = [pc |-> "row", node |-> n, at |-> now, answered |-> Acknowledged(n)]
    /\ UNCHANGED vars

(* Store.Node: the row.  A node that is gone fails the page, with 404 for  *)
(* its own and 503 for the dashboard.                                      *)
ReadRow ==
    /\ page.pc = "row"
    /\ page' =
         IF page.node \notin DOMAIN nodes THEN NoPage
         ELSE LET row == nodes[page.node] IN
              [pc |-> "latest", node |-> page.node, at |-> page.at,
               answered |-> page.answered, last |-> row.last,
               state |-> NodeStateAt(row.last, page.at, row.disabled)]
    /\ UNCHANGED vars

(* Store.latestSample: the line of the node is complete. *)
ReadLatest ==
    /\ page.pc = "latest"
    /\ page' = [pc |-> "line", node |-> page.node, last |-> page.last,
                latest |-> LatestSample(page.node)]
    /\ UNCHANGED vars

(* nodeDetail reads its clock again for the last 24 hours. *)
ReadChart ==
    /\ page.pc = "line"
    /\ page' = [pc |-> "chart", node |-> page.node, latest |-> page.latest,
                since |-> now - ChartSpan,
                chart |-> SamplesSince(page.node, now - ChartSpan)]
    /\ UNCHANGED vars

(* The page is rendered, or the browser went away or a statement failed.   *)
EndPage ==
    /\ page # NoPage
    /\ page' = NoPage
    /\ UNCHANGED vars

MonitorNext ==
    \/ Step /\ UNCHANGED page
    \/ Crash /\ page' = NoPage
    \/ \E n \in Nodes : AskPage(n)
    \/ ReadRow \/ ReadLatest \/ ReadChart \/ EndPage

MonitorSpec == MonitorInit /\ [][MonitorNext]_monitorVars

-----------------------------------------------------------------------------
(* Every variable has its type. *)
MonitorTypeOK == TypeOK /\ page \in PageState

(* A node whose report of the last 90 seconds was acknowledged before the  *)
(* page was asked for is shown as online, and one of the last 180 seconds  *)
(* as delayed at worst, with a last report at least as new, whatever       *)
(* commits, late reports or prunes go on meanwhile; only a disabled node   *)
(* is offline at once (NodeStateAt).                                       *)
PageShowsAcknowledged ==
    page.pc = "latest" =>
        /\ page.last >= page.answered
        /\ page.answered # Never =>
               \/ /\ page.at - page.answered <= OnlineFor => page.state = "online"
                  /\ page.at - page.answered <= DelayedFor =>
                         page.state \in {"online", "delayed"}
               \/ page.node \notin DOMAIN nodes
               \/ nodes[page.node].disabled /\ page.state = "offline"

(* The metrics on a page are never older than the last report beside them  *)
(* (they may be newer, read later), unless the node is gone or that report *)
(* was purged or pruned: then they are missing, or of a late report that   *)
(* committed after the deletion.                                           *)
PageNotBehindItsState ==
    page.pc = "line" /\ page.last # Never =>
        \/ page.latest >= page.last
        \/ page.node \notin DOMAIN nodes
        \/ page.last < now - Retention
        \/ pages > MaxPages

(* The chart of a node's page reaches the metrics shown above it, if they  *)
(* are of its 24 hours.                                                    *)
ChartReachesLatest ==
    page.pc = "chart" /\ page.latest # Never /\ page.latest >= page.since =>
        \/ page.latest \in page.chart
        \/ page.node \notin DOMAIN nodes
        \/ pages > MaxPages
=============================================================================
