------------------------------- MODULE Metrics -------------------------------
(***************************************************************************)
(* What the agent computes from the kernel's counters (metrics.go) and the *)
(* points of the monitor's chart (trendJSON, web.go), as functions.  A     *)
(* rate or a share is the fraction part / whole, never rounded: of the     *)
(* floating point only the sign and the bounds are told apart.             *)
(* An operator X_Y is X with a plausible bug: nothing else uses it.        *)
(***************************************************************************)
EXTENDS Integers, Sequences

CONSTANT MaximumPoints    \* points of a chart, 144

ASSUME MetricsAssumption == MaximumPoints \in Nat \ {0}

Fraction == [part : Nat, whole : Nat \ {0}]
Zero == [part |-> 0, whole |-> 1]

-----------------------------------------------------------------------------
(* /proc/stat: ticks since boot, of all processors together. *)
CPUStats == [user : Nat, nice : Nat, system : Nat, idle : Nat,
             iowait : Nat, irq : Nat, softirq : Nat, steal : Nat]

Total(s) == s.user + s.nice + s.system + s.idle + s.iowait + s.irq + s.softirq + s.steal
IdleTicks(s) == s.idle + s.iowait

(* Some counter went back: the machine restarted, or idle or iowait were   *)
(* corrected by the kernel.                                                *)
WentBack(previous, current) ==
    \/ current.user < previous.user \/ current.nice < previous.nice
    \/ current.system < previous.system \/ current.idle < previous.idle
    \/ current.iowait < previous.iowait \/ current.irq < previous.irq
    \/ current.softirq < previous.softirq \/ current.steal < previous.steal

(* The busy share of the ticks between two samples; times 100, a percentage. *)
CPUPercent(previous, current) ==
    LET total == Total(current) - Total(previous)
        idle == IdleTicks(current) - IdleTicks(previous)
    IN  IF WentBack(previous, current) \/ total = 0 \/ idle > total THEN Zero
        ELSE [part |-> total - idle, whole |-> total]

(* /proc/meminfo: MemAvailable may exceed MemTotal. *)
AvailableBytes(total, available) == IF available > total THEN total ELSE available
UsedBytes(total, available) == IF available >= total THEN 0 ELSE total - available

CounterRate_AnyInterval(previous, current, elapsed) ==
    IF current < previous THEN Zero
    ELSE [part |-> current - previous, whole |-> elapsed]
CounterRate_Distance(previous, current, elapsed) ==
    IF elapsed <= 0 THEN Zero
    ELSE [part |-> IF current < previous THEN previous - current ELSE current - previous,
          whole |-> elapsed]
CounterRate(previous, current, elapsed) ==
    IF elapsed <= 0 \/ current < previous THEN Zero
    ELSE [part |-> current - previous, whole |-> elapsed]

-----------------------------------------------------------------------------
(* trendJSON: every stride-th sample, then the newest if it was skipped.   *)
Stride_RoundedDown(n) == IF n < MaximumPoints THEN 1 ELSE n \div MaximumPoints
Stride(n) == (n + MaximumPoints - 1) \div MaximumPoints

Picked(s) == [k \in 1 .. Len(s) \div Stride(Len(s)) |-> s[k * Stride(Len(s))]]

Points(s) ==
    IF s = << >> THEN << >>
    ELSE IF Picked(s)[Len(Picked(s))].at = s[Len(s)].at THEN Picked(s)
    ELSE Append(Picked(s), s[Len(s)])
=============================================================================
