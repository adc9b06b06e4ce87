------------------------------- MODULE Traffic -------------------------------
(***************************************************************************)
(* From the bytes an interface moves to the total of the last 24 hours on  *)
(* a node's page: the kernel's counters, the collector's previous sample   *)
(* (collector.go), the report on its way (client.go; AgentReporter and     *)
(* Telemetry model its retries and its storing), the stored samples and    *)
(* trafficUsage and trendJSON (web.go).  One direction of one node.        *)
(* An operator X_Y is X with a plausible bug: Next never uses it.          *)
(***************************************************************************)
EXTENDS Metrics, FiniteSetsExt

CONSTANTS
    Interfaces,   \* number of physical ones: lo, docker, veth ... are not counted
    Width,        \* a counter of an interface wraps here, 2^32 or 2^64
    Window,       \* 24 hours
    Unit,         \* rates are counted in Unit-ths: a multiple of every interval
    Skews,        \* how far the agent's clock may be ahead
    MaxMoved, MaxTime, MaxSamples    \* bounds, for TLC

ASSUME TrafficAssumption ==
    /\ {Interfaces, Width, Unit} \subseteq Nat \ {0}
    /\ {Window, MaxMoved, MaxTime, MaxSamples} \subseteq Nat
    /\ \A t \in 1 .. MaxTime : Unit % t = 0
    /\ Skews \subseteq Int

VARIABLES
    now,         \* the server's clock
    skew,        \* the agent's clock less the server's
    counters,    \* /proc/net/dev: the bytes of each interface, in its order
    moved,       \* history: the bytes all interfaces moved
    previous,    \* Collector.previous with the time it was taken, or None
    report,      \* the report SendWithRetry is sending, or None
    samples,     \* the node's samples in the order of received_at
    total        \* history: the page's total may be exact, low or wrong by now

vars == <<now, skew, counters, moved, previous, report, samples, total>>

None == [is |-> "none"]

Init ==
    /\ now = 0 /\ skew = 0
    /\ counters = [i \in 1 .. Interfaces |-> 0] /\ moved = 0
    /\ previous = None /\ report = None
    /\ samples = << >>
    /\ total = "exact"

-----------------------------------------------------------------------------
(* Something happened after which the total is never better than this. *)
Spoil(how) == total' = IF total = "wrong" THEN total ELSE how

(* A byte stands for any amount of them. *)
Move(i) ==
    /\ moved < MaxMoved
    /\ moved' = moved + 1
    /\ counters' = [counters EXCEPT ![i] = (@ + 1) % Width]
    /\ IF counters'[i] = 0 THEN Spoil("low") ELSE UNCHANGED total
    /\ UNCHANGED <<now, skew, previous, report, samples>>

(* The interface or the machine starts again. *)
ResetCounter(i) ==
    /\ counters[i] # 0
    /\ counters' = [counters EXCEPT ![i] = 0]
    /\ Spoil("low")
    /\ UNCHANGED <<now, skew, moved, previous, report, samples>>

AdjustClock ==
    /\ skew' \in Skews \ {skew}
    /\ Spoil("wrong")
    /\ UNCHANGED <<now, counters, moved, previous, report, samples>>

(* The loops of ParseNetDev and trafficUsage. *)
Sum(amounts) ==
    LET upTo[k \in 0 .. Len(amounts)] == IF k = 0 THEN 0 ELSE upTo[k - 1] + amounts[k]
    IN  upTo[Len(amounts)]

ReceiveBytes == Sum(counters)

(* Run, an interval after the sample before: SampleAt.  A sampling that    *)
(* fails changes nothing.                                                  *)
SampleAt ==
    /\ report = None
    /\ previous # None => now > previous.taken
    /\ report' = [is |-> "report", taken |-> now, moved |-> moved,
                  rate |-> IF previous = None THEN Zero
                           ELSE CounterRate(previous.net, ReceiveBytes,
                                            now + skew - previous.at)]
    /\ previous' = [is |-> "sample", taken |-> now, at |-> now + skew, net |-> ReceiveBytes]
    /\ UNCHANGED <<now, skew, counters, moved, samples, total>>

(* RecordReport.  If the answer is lost the same report is sent again.     *)
Store(answered) ==
    /\ report # None
    /\ Len(samples) < MaxSamples
    /\ samples' = Append(samples, [at |-> now, rate |-> report.rate, moved |-> report.moved])
    /\ report' = IF answered THEN None ELSE report
    /\ IF now # report.taken THEN Spoil("wrong") ELSE UNCHANGED total
    /\ UNCHANGED <<now, skew, counters, moved, previous>>

(* SendWithRetry gives up; previous stays at the lost sample. *)
GiveUp ==
    /\ report # None
    /\ report' = None
    /\ Spoil("wrong")
    /\ UNCHANGED <<now, skew, counters, moved, previous, samples>>

RestartAgent ==
    /\ previous # None
    /\ previous' = None /\ report' = None
    /\ Spoil("low")
    /\ UNCHANGED <<now, skew, counters, moved, samples>>

Tick ==
    /\ now < MaxTime
    /\ now' = now + 1
    /\ UNCHANGED <<skew, counters, moved, previous, report, samples, total>>

Next ==
    \/ \E i \in 1 .. Interfaces : Move(i) \/ ResetCounter(i)
    \/ AdjustClock \/ SampleAt \/ GiveUp \/ RestartAgent \/ Tick
    \/ \E answered \in BOOLEAN : Store(answered)

Spec == Init /\ [][Next]_vars

-----------------------------------------------------------------------------
(* nodeDetail: the samples of the last 24 hours, which end the sequence,   *)
(* and their total.                                                        *)
SamplesSince ==
    LET recent == {k \in DOMAIN samples : samples[k].at >= now - Window}
    IN  IF recent = {} THEN << >> ELSE SubSeq(samples, Min(recent), Len(samples))

Bytes_OfEarlierSample(s, k) ==
    (Unit \div s[k - 1].rate.whole) * s[k - 1].rate.part * (s[k].at - s[k - 1].at)
Bytes(s, k) == (Unit \div s[k].rate.whole) * s[k].rate.part * (s[k].at - s[k - 1].at)

TrafficUsage(s) ==
    Sum([k \in 1 .. Len(s) |-> IF k = 1 THEN 0 ELSE Bytes(s, k)]) \div Unit

Shown == TrafficUsage(SamplesSince)
Moved == LET s == SamplesSince IN IF s = << >> THEN 0 ELSE s[Len(s)].moved - s[1].moved

-----------------------------------------------------------------------------
(* Every variable has its type; a rate is a finite number that is not      *)
(* negative, or Report.Validate would reject every sample from then on.    *)
TypeOK ==
    /\ now \in Nat /\ skew \in Int /\ moved \in Nat
    /\ counters \in [1 .. Interfaces -> 0 .. Width - 1]
    /\ previous \in {None} \cup [is : {"sample"}, taken : Nat, at : Int, net : Nat]
    /\ report \in {None} \cup [is : {"report"}, taken : Nat, moved : Nat, rate : Fraction]
    /\ samples \in Seq([at : 0 .. now, moved : Nat, rate : Fraction])
    /\ total \in {"exact", "low", "wrong"}

(* As long as nothing went wrong the total of the page is what was moved   *)
(* between its first and its last sample: a sampling that failed, a report *)
(* stored twice at once and the edge of the 24 hours cost nothing.         *)
TotalIsExact == total = "exact" => Shown = Moved

(* Counters that wrap or start again and agents that restart only make the *)
(* total smaller (CounterRate, SampleAt): after a lost or a late report it *)
(* may also be larger than the truth.                                      *)
TotalNeverExceeds == total # "wrong" => Shown <= Moved

(* The chart has at most MaximumPoints points, and ends with the newest    *)
(* sample whenever there is one (trendJSON).                               *)
ChartFits ==
    LET s == SamplesSince  p == Points(s) IN
        /\ Len(p) <= MaximumPoints
        /\ s # << >> => p # << >> /\ p[Len(p)].at = s[Len(s)].at
=============================================================================
