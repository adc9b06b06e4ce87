---------------------------- MODULE AgentReporter ----------------------------
(***************************************************************************)
(* The agent's report loop: Run, SendWithRetry and Send of client.go,      *)
(* against HandleReport with its real SlidingWindowLimiter.  Times are     *)
(* seconds; the clock jumps to the next instant the agent acts, and a      *)
(* request takes no time.                                                  *)
(***************************************************************************)
EXTENDS Integers, Sequences, FiniteSetsExt

CONSTANTS
    Node,
    MaxKeys, Limit, Window,    \* of the limiter: 10000, 4 and 60 s
    Interval,                  \* 30 s between reports
    Attempts,                  \* 7 per report
    MaxTime                    \* bound on the clock, for TLC

Hour == 3600                   \* retryAfter takes no longer wait
Delay(n) ==                    \* 1 << n
    LET power[k \in 0 .. n] == IF k = 0 THEN 1 ELSE 2 * power[k - 1] IN power[n]

(* A wait for the window is one that retryAfter takes; the last back-off   *)
(* (32 s) and the interval outlast the window.                             *)
ASSUME ReporterAssumption ==
    /\ {MaxKeys, Limit, Window, Interval} \subseteq Nat \ {0}
    /\ Attempts \in Nat \ {0, 1} /\ MaxTime \in Nat
    /\ Window <= Hour
    /\ Window <= Interval + Delay(Attempts - 2)

VARIABLES
    now, events, answer, promise,     \* the limiter's
    pc,        \* "sample", "send", "interval" or "stopped"
    attempt,   \* of the current report, from 0
    wake,      \* when the agent acts next
    told,      \* when a 429 said to come back, if it was the last outcome; 0: it was not
    stored     \* samples the server holds of the current report; 2: two or more

Keys == {Node}
Second == 1                    \* a tick of the clock
Limiter == INSTANCE SlidingWindowLimiter
limiter == <<events, answer, promise>>
vars == <<now, events, answer, promise, pc, attempt, wake, told, stored>>

Init ==
    /\ Limiter!Init
    /\ pc = "sample" /\ attempt = 0 /\ wake = 0 /\ told = 0 /\ stored = 0

-----------------------------------------------------------------------------
Awake == now = wake

Advance ==
    /\ now < wake /\ wake <= MaxTime
    /\ now' = wake
    /\ UNCHANGED <<limiter, pc, attempt, wake, told, stored>>

(* The collector yields a report, or fails and the loop waits. *)
Sample ==
    /\ pc = "sample" /\ Awake
    /\ \/ pc' = "send" /\ attempt' = 0 /\ stored' = 0 /\ UNCHANGED wake
       \/ pc' = "interval" /\ wake' = now + Interval /\ UNCHANGED <<attempt, stored>>
    /\ UNCHANGED <<now, limiter, told>>

EndInterval ==
    /\ pc = "interval" /\ Awake
    /\ pc' = "sample"
    /\ UNCHANGED <<now, limiter, attempt, wake, told, stored>>

-----------------------------------------------------------------------------
(* What SendWithRetry does with the outcome of one Send. *)
Done ==                                \* nil, or an error that is not retried
    /\ pc' = "interval" /\ wake' = now + Interval /\ attempt' = 0

Retry_OneMore(wait) ==
    IF attempt = Attempts THEN Done
    ELSE /\ pc' = "send" /\ wake' = now + wait
         /\ attempt' = attempt + 1
Retry_LastForever(wait) ==
    /\ pc' = "send" /\ wake' = now + wait
    /\ attempt' = Min({attempt + 1, Attempts - 1})
Retry(wait) ==                         \* ErrRetryable
    IF attempt = Attempts - 1 THEN Done
    ELSE /\ pc' = "send" /\ wake' = now + wait
         /\ attempt' = attempt + 1

Backoff == Delay(attempt)

RetryAfter_Ignored(seconds) == Backoff
RetryAfter_CappedAtBackoff(seconds) == IF seconds <= Delay(Attempts - 2) THEN seconds ELSE 1
RetryAfter(seconds) == IF seconds \in 0 .. Hour THEN seconds ELSE 1

Sending == pc = "send" /\ Awake
Store == stored' = Min({stored + 1, 2})

(* How far a request got whose answer is not the server's own: nowhere, to *)
(* a refusal, or past the limiter with the sample stored or not.           *)
Reached ==
    \/ UNCHANGED <<now, limiter, stored>>
    \/ Limiter!Allow(Node) /\ ~answer'.ok /\ UNCHANGED stored
    \/ Limiter!Allow(Node) /\ answer'.ok /\ (Store \/ UNCHANGED stored)

(* Connection refused, reset or timed out, or a 4xx: not ErrRetryable, the *)
(* report is dropped.                                                      *)
SendFails ==
    /\ Sending /\ Reached
    /\ Done
    /\ told' = 0

Unauthorized ==                        \* 401 or 403: ErrAuthentication ends Run
    /\ Sending
    /\ pc' = "stopped" /\ told' = 0
    /\ UNCHANGED <<now, limiter, attempt, wake, stored>>

RateLimited ==                         \* 429
    /\ Sending
    /\ Limiter!Allow(Node) /\ ~answer'.ok
    /\ Retry(RetryAfter(promise'[Node] - now))
    /\ told' = promise'[Node]
    /\ UNCHANGED stored

Recorded ==                            \* 204
    /\ Sending
    /\ Limiter!Allow(Node) /\ answer'.ok
    /\ Store
    /\ Done
    /\ told' = 0

(* 5xx: of the server, whose database refused the sample or whose commit   *)
(* failed after all, or of the proxy.                                      *)
ServerError ==
    /\ Sending /\ Reached
    /\ Retry(Backoff)
    /\ told' = 0

Act ==
    \/ Sample \/ EndInterval
    \/ SendFails \/ Unauthorized \/ RateLimited \/ Recorded \/ ServerError
Next == Advance \/ Act

Spec == Init /\ [][Next]_vars
FairSpec == Spec /\ WF_vars(Next)

-----------------------------------------------------------------------------
(* Every variable has its type. *)
TypeOK ==
    /\ Limiter!TypeOK
    /\ pc \in {"sample", "send", "interval", "stopped"}
    /\ attempt \in 0 .. Attempts - 1
    /\ wake \in Nat /\ wake >= now /\ told \in Nat /\ stored \in 0 .. 2

(* A 429 is obeyed: no request leaves before the time it announced, not    *)
(* even the next report's after the retries of this one ran out.           *)
RetryAfterObeyed ==
    [][Act /\ pc = "send" => now >= told]_vars

(* The agent does not retry the same sample without end (design doc line   *)
(* 136): back-off, 429 waits and the attempts of earlier reports together  *)
(* keep a report under way for at most Longest seconds.                    *)
Longest == 2 * Window
ReportEnds ==
    pc = "send" /\ attempt = 0 /\ now + Longest <= MaxTime ~> pc # "send"

(* An agent that obeys is not refused twice running: the attempts of a     *)
(* report are never all spent on 429s.                                     *)
NeverRefusedTwice == [][RateLimited => told = 0]_vars

(* design doc line 135: a repeated report does not change the state.  The  *)
(* retry of a report that was committed before a 5xx stores it again.      *)
ReportStoredOnce == stored <= 1
=============================================================================
