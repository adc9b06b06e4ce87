# Server Probe in TLA+

Server Probe is a small monitoring system: agents on Linux hosts send a report
every 30 seconds to one server, which keeps them in SQLite and shows them to
administrators. This directory holds its TLA+ modules, the TLC configurations
that check them on small instances, and TLAPS proofs for every instance.

The modules describe the Go code as it is, not as the design document wants it
to be. Where the two disagree there is a run that expects a violation (see
"Where code and documents disagree").

## The system

| Component | State | Operations | Hard behaviour |
|---|---|---|---|
| Store (`internal/server/store.go`) | tables `nodes`, `enrollment_codes`, `enrollment_results`, `agent_certificates`, `samples` | transactions, one at a time (`SetMaxOpenConns(1)`) | handlers are several transactions; others run in between |
| Certificate authority (`certificates.go`) | key and certificate files, the copy published for Caddy | load or create, publish, issue | crash between the files, and before the copy |
| Enrollment (`certificates.go`, `enrollment_http.go`) | none of its own | `Enroll`: replay, resolve the code, issue, persist, replay again | lost answers, same code twice, disable in between |
| Renewal (`renewal.go`) | none | `HandleRenew`: identify, issue, swap | lost answer after the swap, two at once, disable in between |
| Ingest (`ingest.go`) | none | `HandleReport`: identify, read, limit, record | out-of-order commits, disable in between |
| Rate limiter (`ingest.go`) | map key to grant times, under a mutex | `Allow`, `Check` | full map, window boundary, rounding |
| Maintenance (`cmd/probe-server`, `store.go`) | a ticker, the files `probe-<day>.db` | purge, prune to a size, back up, rotate | runs beside ingest, restart within a run, a file that does not shrink |
| Monitor (`web.go`) | none | pages; create, disable, remove a node | two transactions and a cleanup; a page is several reads |
| Agent credentials (`cmd/probe-agent`, `agent/enrollment.go`, `agent/renewal.go`) | key, certificate and CA files; next renewal check | enroll at start, renew before a report | crash between writes, two clocks, restart by systemd |
| Agent report loop (`agent/client.go`) | attempt counter, timer | `Run`, `SendWithRetry`, `Send` | 429 against back-off, 5xx after commit, 401 |
| Collector (`agent/collector.go`, `metrics.go`) | previous counters and their time | sample, shares and rates | wraps and resets of counters, a clock that is set |
| Trend and total (`web.go`, `static/trend.js`) | none | `trendJSON`, `trafficUsage` | rates of one clock times gaps of another; thinning out |
| Report format, routing, configuration, templates | none | | |

Agents talk to the server through Caddy over HTTPS with client certificates.
Any request or answer can be lost; the proxy can answer 5xx of its own. Inside
the server, the handlers, the maintenance goroutine and the shutdown share the
store, and nothing else but the limiters.

What makes each part correct:

* credentials: one live certificate per node, none for a disabled or removed
  node, revocation is final, a certificate an agent holds is in the database,
  a code earns one certificate, the node limit holds;
* limiter: grants exactly what the window allows, bounded memory, a
  `Retry-After` that suffices;
* telemetry: an acknowledged sample is kept as long as promised, a node's last
  report is never older than its newest sample and never goes back, a disabled
  node leaves no more samples;
* pages: an acknowledged report shows, what is shown together fits together;
* server process: it comes up again after any crash, with the authority that the
  proxy trusts, and no crash costs a finished backup;
* numbers: rates that are finite and not negative, a total that is exact or has
  a stated reason not to be, a chart that fits and ends with the newest sample;
* agent: its files fit together whatever write a crash follows, a committed
  enrollment reaches the disk, a report ends, a 429 is obeyed.

## Modules

| Module | What it is |
|---|---|
| `CertificateLifecycle` | abstract: a node is unborn, open, closed or removed, and has at most one credential, which only enrollment or renewal changes |
| `Registry` | the four credential tables and all handlers that write them |
| `MCRegistry` | symmetry for TLC |
| `Registry_proofs` | lemmas and theorems about `Registry` |
| `RateLimit` | abstract: a key is granted while it had fewer than `Limit` grants in the last `Window`; only the oldest key of a full map is forgotten sooner |
| `SlidingWindowLimiter` | the pruning, evicting map of `ingest.go` |
| `SlidingWindowLimiter_proofs` | lemmas and theorems about it, up to the refinement of `RateLimit` |
| `Telemetry`, `MCTelemetry` | reports, samples, retention and the size limit |
| `Telemetry_proofs` | lemmas and theorems about `Telemetry` |
| `Monitor`, `MCMonitor` | the pages, read statement by statement beside `Telemetry` (which it EXTENDS) |
| `Monitor_proofs` | lemmas and theorems about the pages (EXTENDS `Telemetry_proofs`) |
| `ServerProcess` | the server's start and its daily backups, cut short at any step |
| `ServerProcess_proofs` | lemmas and theorems about `ServerProcess` |
| `Metrics` | functions: CPU share, counter rate, memory, points of the chart |
| `Traffic`, `MCTraffic` | from the bytes moved to the total of a page (EXTENDS `Metrics`) |
| `Traffic_proofs` | theorems about `Metrics`, for every input, and about `Traffic` |
| `AgentCredentials`, `MCAgentCredentials` | one agent's files and process, its clock, and the server's answers |
| `AgentCredentials_proofs` | lemmas and theorems about `AgentCredentials` |
| `AgentReporter` | the report loop, composed with `SlidingWindowLimiter` by INSTANCE |
| `AgentReporter_proofs` | lemmas and theorems about the two together |

An operator `X_Y` is `X` with a plausible bug (`MayRenew_RevokedUnchecked`).
No next-state relation uses one. Each property of a passing run has one that
TLC refutes it with when it replaces `X`; `PROJECT.json` pairs them.

### Registry

A table is a function whose domain is the set of primary keys present. A
statement outside a transaction, and a transaction, is one atomic step, because
the store holds one connection. A handler that makes several store calls keeps
what it read in `req[p]` and interleaves with all others between them:

* `createNode`: `CreateNode`, then `CreateEnrollmentCode`, or
  `CreateEnrollmentCodeFails` and `CleanUp` (which may itself fail: `Abort`);
* `Enroll`: `EnrollFirst` or `EnrollAgain` (the first replay lookup),
  `ReplayChecked`, `ResolveCode` (with the issue of the certificate),
  `EnrollCertificate` or `EnrollCertificateFails` and `ReplayAgain`;
* `HandleRenew`: `RenewStart`, `RenewCertificate`;
* the answer that arrives: `SendReply`; one that does not: `Abort`, `Crash`.

A handler uses the clock it read at its start (`at`), as in the code. Random
ids, codes and serials are drawn with `Draw`, which yields a value not drawn
before: which one does not matter, that 128 random bits do not repeat is
assumed. Keys are opaque, and TLS is assumed: to renew one must hold the
certificate (`handed`).

`ImplementsLifecycle` maps the tables to `CertificateLifecycle`: the phase is
read off the node's row, the credential is the one unrevoked certificate.

### SlidingWindowLimiter

Every call holds the mutex, so `Allow` and `Check` are single actions. Go's map
iteration order is a choice between the keys with the oldest first grant.
`promise` is a history variable: when the last 429 told the key to come back.
No handler calls `Check` today; it is an exported operation and is modelled.

`ImplementsRateLimit` maps the map to `RateLimit`: what `RateLimit` remembers of
a key are the grants of its entry that are still in the window (`Remembered`).
The map may keep more, since an entry is pruned only when its key calls.

### Telemetry

`Authenticate` is what `HandleReport` does up to the limiter, `RecordReport`
the transaction, `Reply` the 204. `acked` is a history variable. Identity is
reduced to "the row is there and enabled". The size of the database is the
largest number of sample rows it has had (`pages`): SQLite's `page_count`
counts free pages. Maintenance is a small process: purge, measure, prune one,
measure, ...; a crash restarts it at once. `Step` is every step but a crash, so
that `Monitor` can say what a crash does to a page.

### Monitor

A page reads the row (`Store.Node`), then the newest sample (`latestSample`),
then the last 24 hours (`SamplesSince`); each is a statement, and every step of
`Telemetry` may come between. Pages write nothing, so that the model follows one
line of one page at a time: a second one would change nothing the first one
sees. `PageNotBehindItsState` has a case nobody would think of: a sample is
purged between the two statements, and a report that was received before it
commits after the purge. Then the page shows a last report, and beside it the
metrics of an older one. The lines of a dashboard do not depend on each other, except that one
missing node fails them all, which is `ReadRow` on a node that is gone.
`answered` is a history field: the newest report of the node that had been
answered when the page was asked for. Search and rendering are left out.

### ServerProcess

Main's start is one step for each file it writes: the key, its certificate, the
copy for Caddy (each is written to a temporary file and renamed). The
maintenance goroutine starts before the authority is loaded, as in the code.
`Exit` is every way the process ends: an error of main, SIGKILL, and SIGTERM,
since main returns as soon as the listener is closed and waits neither for
handlers nor for maintenance. A start that finds one of the two files has no
step but `Exit`. SQLite's `VACUUM INTO` is external: its file is there from the
first byte under its final name, and is whole when the statement returns. Caddy
is external too: as `docker-compose.yml` has it, it waits for the published
certificate and reads it when it starts. No run of maintenance is under way at
midnight: a file is named after the day its run began, and a run that crosses
midnight would only add a day to what is here a step. The purge and the size
loop before a backup are in `Telemetry`; here they are `MaintainSamples`.

### Metrics and Traffic

A rate is a fraction (`part`, `whole`), never rounded: of the floating point
only bounds, signs and division by zero are told apart. `Unit` is a multiple of
every interval of the instance, so that a total is a whole number. `Traffic`
takes one direction of one node from the kernel's counters through the
collector, the report (which may be lost, late, or stored twice) and the stored
samples to `trafficUsage`. `total` is a history variable: by what happened, may
the total of the page be exact, too low, or anything? Facts of the code it
shows: a rate divides by the interval of the agent's clock, a total multiplies
with the gap between the server's receipt times, so that a late or a lost report
can make the total larger than what was moved; the counters of all interfaces
are summed before they are compared, so that the restart of one interface is
noticed only if the sum goes back.

### AgentCredentials

One agent with one enrollment code. Each file write is a step (the code writes
a temporary file and renames it, so a file is old or new, never torn). The
server's side of a request is one step, as `Registry` justifies; the request
and the answer may be lost before and after it. The agent's clock is the
server's plus a constant of `Skews`. A tick is the resolution of the database,
`Second` of them are a second: the certificate carries `notBefore` and `notAfter`
in whole seconds (`WholeSeconds`), which is what the agent compares with its
clock, while the server's row keeps the uncut `exp`, which is what it compares with
its own. So the two sides draw the renewal window up to a second apart.
`RefusedOnlyWhenEarly` says what follows of that and of the clocks, exactly: a
certificate the server accepts is refused a renewal only before the server's
window opens, by less than the second that is cut plus the lead of the agent's
clock. The TLS handshake with Caddy compares `notAfter` too; it is one more way in
which a request fails.

### AgentReporter

Times are seconds; the clock jumps to the next instant at which the agent acts,
and a request takes no time, so the two windows `ReportEnds` gives a report are
waits only. The limiter is the module above, with one key. A request whose
answer is lost or is a 5xx got nowhere, or to a refusal, or past the limiter
with the sample stored or not (`Reached`). `told` and `stored` are history
variables. `ReporterAssumption` states what the deployed numbers have in common
and the code nowhere says: the window (60 s) is no longer than the interval (30 s)
and the last back-off (32 s) together. That is enough for the promises about 429s.
`PROBE_INTERVAL` may set a shorter interval, for which they can fail: with 11 s,
and a report whose seven attempts meet four 5xx (the first of the proxy), a 429, a
5xx and a 429, the next report can be refused again.

## Runs

| Run | Question | Bounds |
|---|---|---|
| `registry` | all credential properties under overlapping handlers | 2 nodes created one after the other (`MaxNodes` 1, so the limit is reached), 2 codes, 2 keys, 3 serials, 2 handlers, clock 0..2 |
| `limiter` | exactness, eviction, `Retry-After` | 3 keys for 2 places, limit 2, window 3, clock 0..5, two ticks a second so that rounding shows |
| `telemetry` | acknowledged samples, last report | 2 nodes, 2 handlers, 2 samples, retention 2 days, size limit 1 row, clock 0..3 |
| `telemetry_prune` | violation: the size loop | |
| `monitor` | what a page shows together fits together | 1 node, 2 handlers, 2 samples, retention 1 day, chart 1 day, size limit 2 rows (never exceeded), clock 0..3 |
| `server` | start, proxy and backups over crashes; the server comes up again | 2 key pairs, 2 backups kept, days 0..2, so that the rotation runs |
| `server_backup` | violation: a restart costs the day's backup | |
| `traffic` | when the 24-hour total is exact, when only low; the chart | 2 interfaces, counters that wrap at 2 bytes, 2 bytes moved, 3 samples for 2 points, clock 0..3, window 2, the agent's clock right or one behind |
| `agent` | files, crash between writes, liveness of enrollment, refusals | a second is 2 ticks, so that the cut shows; skews -4, -1, 0, 1, 4; 3 certificates; code lives 4, certificate 8, renewal in the last 4, looked at every 2; clock 0..13 |
| `agent_lockout` | violation: a lost renewal answer | |
| `reporter` | back-off, 429 and the limiter together | deployed numbers scaled: limit 3 in 18 s (4 in 60), 10 s between reports (30), 5 attempts (7), so that the window is the interval and the last back-off together; clock 0..60 |
| `reporter_duplicate` | violation: the retry of a stored report | |

Why the bounds are enough to be interesting: two handlers are what every race
here needs (each conflict is between two transactions on one row); three
serials let a node enroll and renew while another request is half done; the
clocks run past every expiry. Two samples are what an out-of-order commit
needs, and in `telemetry` one row of size limit makes the size loop run. `monitor`
has one node, since every statement of a page is about one; its size limit is not
reached, because above it the properties of a page promise nothing, and a
retention of one day lets a report commit after a younger one was purged. Two days after the first are what
rotation of two backups needs, and a second key pair is what a wrongly published
authority needs. The skews of `agent` reach the length of the renewal window in
both directions. Counters of width 2 wrap, two interfaces hide each other's
resets, and three samples are one more than the chart takes.

`CHECK_DEADLOCK FALSE` is set where the bounded clock or the bounded supply of
ids and serials ends the run. In `Telemetry` a crash is always possible, so
there deadlock is checked and says little; in `ServerProcess` and `Traffic` it
is checked too.

Fairness: three runs need any. `agent` assumes that systemd starts a stopped
agent (`Restart=always`), that a running agent goes on, and that a request or
an answer tried again and again gets through once (strong fairness of the
server's answer, of its receipt and of the writes after it); it assumes
nothing of the clock, so expiry is a stated way out of the property.
`reporter` assumes that the agent and its timers keep going (weak fairness of
its next-state relation). `server` assumes that docker restarts the server and
Caddy (`restart: unless-stopped`, weak fairness), and that each step of main that
is reached again and again is at some time not interrupted (strong fairness: a
crash disables it); it assumes nothing of maintenance, the days, or crashes.
Death between the two files of the authority is a stated way out
(`HalfWritten`): then every later start fails until an operator removes the key.

## Where code and documents disagree

| Run | What the run shows |
|---|---|
| `telemetry_prune` | once the file is over 2 GiB, every maintenance run deletes all samples, because deleting does not shrink `page_count` (progress document line 27) |
| `agent_lockout` | a lost renewal answer leaves an enabled node with a revoked certificate only (`README.md` line 181) |
| `reporter_duplicate` | a report retried after a 5xx that followed the commit is stored twice (design line 135) |
| `server_backup` | after a restart on a day that was backed up, a failing copy leaves the day with no backup, or with a partial one that counts as one of the seven (`README.md` line 185) |

Without a run of their own:

* a used or expired code still returns its certificate to the key that earned
  it, which is what makes a lost answer harmless (design document line 111);
* an agent may ask for renewal before the server finds it due, gets 401 and stops
  with a valid certificate (`README.md` line 181): if its clock is ahead, and also
  with a right clock within the second in which the window opens, because X.509
  cuts `NotAfter` to whole seconds and the database does not.
  `RefusedOnlyWhenEarly` bounds how early that can be; systemd's restart then asks
  again;
* systemd restarts an agent that 401 had stopped, and it reports with the refused
  certificate (design line 133);
* rates use the agent's clock, although the design document (line 77) says that
  the server's time counts;
* the waits between the attempts of a report are 1, 2, 4, 8, 16 and 32 seconds
  (`Backoff`); the design document (line 132) says 30 for the last.

## What is proved

Every theorem holds for all values of the constants that the module's
assumption admits: any sets of nodes, codes, serials, keys, handlers and
samples, any limits, windows and retention. The bounds that only TLC needs
(`MaxTime` and the like) are arbitrary numbers there. A theorem of the
form `Spec => []P` rests on an inductive invariant; the proof that it is one has a
step for each action.

`Registry_proofs` (`ConstantsAssumption`: node ids are finitely many, and are
neither codes nor serials, since all three are table keys here):

* `TypeCorrect`: `TypeOK`. The lemmas `PutTable`, `RowsNotOfTable`, `DrawFresh`,
  `IssuedType`, `StageFields` and `StageTypes` say what the helpers return.
* `CredentialsInvariant`: `CredentialInvariant`, and from it
  `AtMostOneLiveCertificate`, `DisabledIsCutOff` and `NothingOutlivesItsNode`.
* `PledgesInvariant`: `RegistryInvariant`, and from it `HandedIsPersisted` and
  `OneCertificatePerCode`.
* `LimitHolds` (`NodeLimitHolds`) and `RevocationNeverUndone`
  (`RevocationIsFinal`, an action property).
* `RegistryImplementsLifecycle`: `Spec => ImplementsLifecycle`, a step of the
  tables at a time: most stutter, and creating, enrolling, renewing, disabling and
  removing are the actions of `CertificateLifecycle` under the mapping.

That a node has at most one live certificate is not inductive. A second one
could come from a second code (so: a node has one code), from an unused code of
a node that already has a certificate (so: an unused code means its node has no
certificate), from a code issued late to a node that has enrolled (so: a node
whose invitation is half done has no code, no certificate and one inviter, and
was drawn, so that no later draw repeats it), or for a node that is gone (so:
rows belong to nodes). These are the conjuncts of `CredentialInvariant`; with
the node's row and flag they close under every action. Renewal revokes one
certificate and stores one. Nothing is assumed of the number of handlers or of
their order. `QuietStep` and `DeleteStep` are the two facts about the actions
that leave the tables alone, or only delete.

That an agent only ever holds persisted certificates needs the same of every
certificate that is on its way to one: `Pledged` is what was handed out, is in
an answer, or is a stored result, and `PledgesArePersisted` says that it has its
row. A certificate that was issued but not stored yet (`Pending`) must have a
serial no row and no other pending request has, or storing it would overwrite a
pledge. `CodesEarnOnce` ties a used code to its one result.

`SlidingWindowLimiter_proofs` (any limit, window, tick rate and number of keys):

* `TypeCorrect`, `MemoryIsBounded` (`KeysBounded`) and `WaitIsEnough`
  (`RetryAfterSuffices`), from `LimiterInvariant`. That a promise is kept is not
  inductive: a key that was refused must still be refused by the same grants.
  `PromisesCover` says that each time promised is late enough for the entry as
  it is now.
* `LimiterImplementsRateLimit`: `Spec => ImplementsRateLimit`. Pruning takes
  only what has left the window, since an entry is in order (`RecentIsSuffix`), so
  that `Allow` answers as `RateLimit` does; an eviction forgets a key that
  `RateLimit` may forget. `RateLimit` says what a tick forgets as a property of
  the sequence (`Aged`), not with a filter, so that it can be reasoned about
  without induction.

`Telemetry_proofs`:

* `TypeCorrect`, `AckedKept` (`AckedSampleKept`), `LastReportCovers`
  (`LastReportCoversSamples`), and the action properties `LastReportOnlyAdvances`
  (`LastReportNeverGoesBack`) and `DisabledLeavesNoTrace` (`NoSampleAfterDisable`).
  An acknowledged sample is a committed one whose answer was sent, so the
  invariant says of a handler about to answer what `AckedSampleKept` says of an
  acknowledged one (`Promised`), that no later sample gets its id, and of
  maintenance that its loop deletes over the limit only.

`Monitor_proofs`, for every interleaving of a page with `Telemetry`:

* `PagesOnlyRead`: `MonitorSpec => Spec`, so that all the theorems above hold beside
  pages, and `MonitorTypeCorrect`.
* `AcknowledgedIsShown` (`PageShowsAcknowledged`), `MetricsKeepUp`
  (`PageNotBehindItsState`), `ChartKeepsUp` (`ChartReachesLatest`). A page holds
  values while the store moves on; the invariant says of each value that is
  still to be compared which sample it comes from, and that this sample is there or
  why not (`KeptSample`). `StepsAreOrderly` sums up what a step of the store may
  do to it, so that the pages need no case for each of its actions. Trying to prove
  `PageNotBehindItsState` as it was first stated failed on the late commit
  described under "Monitor"; two sample ids and the retention of that run had
  hidden it. The property now states the case, and the run reaches it.

`AgentCredentials_proofs` (any validity, skews, ticks of a second, renewal window
and number of renewals):

* `TypeCorrect`, `FilesAlwaysFit` (`FilesFit`), `StaleAlwaysRevoked`
  (`StaleIsRevoked`). The invariant says of each point of the agent's program
  how the certificate in memory, the one on disk and the server's stand to each
  other: a renewal revokes by serial order, so that disk, client and answer are a
  chain.
* `RefusalsAreEarly` (`RefusedOnlyWhenEarly`), from `LessThanASecondCut` (what the
  agent sees of an expiry is less than a second before the server's) and
  `AskedWhenDue` (a request under way was due by the agent's clock).

`ServerProcess_proofs` proves, for any key pairs, any number of backups kept and
of days (`ServerProcessAssumption`):

* `TypeCorrect`: `Spec => []TypeOK`.
* `ProxyTrustsTheSigner`: `Spec => []ProxyTrustsSigner`. A crash may leave any
  prefix of key file, certificate file, published copy, Caddy's copy; so the
  invariant `AuthorityInvariant` orders them (`FilesFollow`: each is missing or
  equal to the one before) and says for each step of main how far its memory
  and the files agree (`MemoryFits`). That a new authority is drawn only with
  both files missing is then enough: nothing was published yet.
* `BackupsOutliveCrashes`: `Spec => OlderBackupsSurvive`. While a copy is
  written no whole one is in its place (`BackupInvariant`), so only the rotation
  and the removal of the day's own file cost a whole copy; `OldestFirst` and
  `RotationKeeps` show that the rotation leaves `Keep` newer files.

`Traffic_proofs`, of the functions of `Metrics`: `BusyShareIsAShare` (a CPU
share lies between 0 and 1 and nothing is divided by zero, for any two samples),
`RateIsFinite` (no rate is negative or infinite), `ChartOfAnyLength` (a chart of
any number of samples has at most `MaximumPoints` points, is not empty and ends
with the newest). The last rests on `StrideFits`, arithmetic of the rounded-up
division: if the stride leaves exactly `MaximumPoints` samples, it divides the
number of samples, so that no point is appended to a full chart.

`Traffic_proofs`, for any number of interfaces and samples, any width of the
counters, window and skews:

* `TypeCorrect`, `ChartAlwaysFits` (`ChartFits`), `TotalsAreExact`
  (`TotalIsExact`) and `TotalsNeverExceed` (`TotalNeverExceeds`), the last two from
  `TrafficInvariant`: as long as nothing went wrong, each sample measures the
  bytes between the sample before it and itself, and the report on its way those
  since the newest sample (`Measures`: exactly, or not more). That the sum over
  the chart's samples telescopes is induction over data, without the induction
  theorems: `Sum` is the loop of the code, a running total over the positions, and
  two running totals, or a total and its bound, that ever differ have a first
  place where they do (`SumRuns`, `SumAtMost`, `SumIs`). The samples of the last 24
  hours are an end of the sequence since receipts are in order (`SinceIsAnEnd`).

`AgentReporter_proofs`, from `ReporterAssumption`:

* `TypeCorrect`, and the action properties `ObeysRetryAfter` (`RetryAfterObeyed`)
  and `RefusedOnceAtMost` (`NeverRefusedTwice`), from `ReporterInvariant`: what a
  429 announced is late enough for the entry of the limiter, which nobody
  touches before the next outcome (`AnnouncedSuffices`). A 429 on the last attempt
  is the hard case: the agent then waits the interval only, not the time
  announced. But the attempt before was no 429, so the agent waited the longest
  back-off; hence every grant is older than that (`LastAttempt`), and the first
  has left the window when the next report is due.

Only model-checked: liveness under fairness (`EnrollmentNotStranded`,
`ReportEnds`, `ServerComesUp`), which is out of the prover's reach.

The library's induction theorems cannot be used here, since they take an
operator. Where a proof needs a least or a greatest member of a set of numbers
(`Smallest`, `NewestOfBounded`), or the first place where a loop would go wrong, it takes it from `WFMin` and
`NatLessThanWellFounded`, which take sets.

## Not modelled

* Parsing, X.509 and TLS, HTTP bodies and pages: checks of one input.
* Parsing of `/proc`, the load average and the file system's free space: I/O and
  input checks of the collector; and rounding of floating point.
* Serial numbers as text (`normalizeCertificateSerial`): Caddy sends them in
  decimal.
* Routing by host and path, environment variables, templates, drawing of the
  chart in the browser (which spaces the points evenly, whatever their times).
* The sum of the counters of all interfaces in 64 bits: it would wrap at 2^64
  bytes, where one counter does.
* A wall clock that is set back on the server (the limiter then refuses for as
  long as it was moved).
* `foreign_keys` lost on a reopened connection (the mutant without cascade
  shows its effect).
* A file system that loses renamed files at a power failure: nothing is synced.
  That the key file and the certificate file belong together is not checked by
  the code either; in the model they always do.

## Plan

Every component with state of its own has its module. What may be added: a
limiter whose clock goes back; `AgentReporter` with `BeforeReport`, so that the
renewal and the report loop share one process.
