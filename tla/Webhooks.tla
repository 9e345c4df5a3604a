------------------------------ MODULE Webhooks ------------------------------
(***************************************************************************)
(* notify (cloud/webhooks.py): one alert to Slack, Teams and PagerDuty,    *)
(* each post made by _post_json under retry_with_backoff                   *)
(* (cloud/rate_limiter.py).  Hosts, certificates and servers may do        *)
(* anything at every attempt.                                              *)
(* Definitions marked `mutant' are wrong variants of the definition after  *)
(* them, kept to show that the properties notice the difference.           *)
(***************************************************************************)
EXTENDS Naturals, Sequences

Sinks == <<"slack", "teams", "pagerduty">>
SinkSet == {Sinks[k] : k \in DOMAIN Sinks}
SinkKinds == {"absent", "bad", "good", "silent"}

VARIABLES
    config,      \* [sink -> "absent", "bad" (url or key), "good", or "silent":
                 \*  good, with a server that never answers]
    step,        \* where notify is
    turn,        \* index of the current sink
    attempt,     \* posts made to it before the current one
    settled,     \* [sink -> "no", "delivered" or "failed"]
    copies,      \* [sink -> alerts that reached it]
    excuses,     \* [sink -> answers after which it is tried again]
    troubled,    \* sinks whose own host or server gave trouble
    slept        \* seconds of back-off for the current sink

hookVars == <<config, step, turn, attempt, settled, copies, excuses, troubled, slept>>

NoSinks == [s \in SinkSet |-> "absent"]
HookInit ==
    /\ config = NoSinks
    /\ step = "idle"
    /\ turn = 1
    /\ attempt = 0
    /\ settled = [s \in SinkSet |-> "no"]
    /\ copies = [s \in SinkSet |-> 0]
    /\ excuses = [s \in SinkSet |-> 0]
    /\ troubled = {}
    /\ slept = 0

Sink == Sinks[turn]
Usable(s) == config[s] \in {"good", "silent"}
-----------------------------------------------------------------------------
\* actionable_findings: FAIL and ERROR; status texts are compared in lower case.
Actionable(fs) == {f \in fs : f.status \in {"fail", "error"}}

\* notify begins; without a dict or without an actionable finding it returns.
Notify_Always(isDict, sinks, fs) == \* mutant
    /\ step = "idle"
    /\ isDict
    /\ config' = sinks
    /\ step' = "validate"
    /\ UNCHANGED <<turn, attempt, settled, copies, excuses, troubled, slept>>
Notify(isDict, sinks, fs) ==
    /\ step = "idle"
    /\ IF isDict /\ Actionable(fs) # {}
       THEN config' = sinks /\ step' = "validate"
       ELSE step' = "ended" /\ UNCHANGED config
    /\ UNCHANGED <<turn, attempt, settled, copies, excuses, troubled, slept>>

\* The next sink, or the end of notify.
Onward ==
    /\ turn' = turn + 1
    /\ step' = IF turn = Len(Sinks) THEN "ended" ELSE "validate"
    /\ attempt' = 0
    /\ slept' = 0

Skip ==
    /\ step = "validate"
    /\ config[Sink] = "absent"
    /\ Onward
    /\ UNCHANGED <<config, settled, copies, excuses, troubled>>

\* An error of one sink is logged and the next sink is served.
Failed_StopsAll == \* mutant
    /\ settled' = [settled EXCEPT ![Sink] = "failed"]
    /\ step' = "ended"
    /\ UNCHANGED <<turn, attempt, slept>>
Failed ==
    /\ settled' = [settled EXCEPT ![Sink] = "failed"]
    /\ Onward

\* validate_webhook_url, and the length of a PagerDuty key.
Validate ==
    /\ step = "validate"
    /\ Usable(Sink)
    /\ step' = "post"
    /\ UNCHANGED <<config, turn, attempt, settled, copies, excuses, troubled, slept>>
Invalid ==
    /\ step = "validate"
    /\ config[Sink] = "bad"
    /\ Failed
    /\ UNCHANGED <<config, copies, excuses, troubled>>

\* The name of a good URL may not resolve, now or at any attempt, or resolve to
\* an address that is not public; neither is tried again.  The name of a silent
\* server resolves.  PagerDuty's URL is fixed and only resolved by the post.
Unresolved ==
    /\ step = "post" \/ (step = "validate" /\ Sink # "pagerduty")
    /\ config[Sink] = "good"
    /\ troubled' = troubled \cup {Sink}
    /\ Failed
    /\ UNCHANGED <<config, copies, excuses>>
-----------------------------------------------------------------------------
\* One post.  Every error of the connection and every answer but 2xx becomes
\* an OSError with a text of its own; a garbled answer stays as it is.
Delivered ==
    /\ step = "post"
    /\ config[Sink] = "good"
    /\ copies' = [copies EXCEPT ![Sink] = @ + 1]
    /\ settled' = [settled EXCEPT ![Sink] = "delivered"]
    /\ Onward
    /\ UNCHANGED <<config, excuses, troubled>>

\* What can go wrong: `timed out' for a connection or an answer that does not
\* come, a reset, and the texts of the answers.
Errors == {"timed out", "reset", "Request Timeout", "Too Many Requests",
           "Internal Server Error", "Service Unavailable", "Gateway Timeout", "garbled"}
Outcomes_NoTimeout(s) == IF config[s] = "silent" THEN {} ELSE Errors \ {"timed out"} \* mutant
Outcomes(s) == IF config[s] = "silent" THEN {"timed out"} ELSE Errors

\* _is_retriable of the wrapped error: it has neither the code nor the type of
\* the original one, so only a text with `timeout' or `throttl' is tried again.
MaxRetries == 3
AsksAgain == {"Request Timeout", "Gateway Timeout"}
Retriable_LostAnswer(error) == error \in AsksAgain \cup {"timed out"} \* mutant
Retriable(error) == error \in AsksAgain

\* min(base_delay * backoff_factor ** attempt, max_delay)
Delay == 2 * 2 ^ attempt

PostFails ==
    /\ step = "post"
    /\ \E error \in Outcomes(Sink), n \in 0 .. 1 :
        /\ copies' = [copies EXCEPT ![Sink] = @ + n]
        /\ IF attempt < MaxRetries /\ Retriable(error)
           THEN /\ excuses' = [excuses EXCEPT ![Sink] = @ + (IF error \in AsksAgain THEN 1 ELSE 0)]
                /\ slept' = slept + Delay
                /\ attempt' = attempt + 1
                /\ UNCHANGED <<step, turn, settled>>
           ELSE Failed /\ UNCHANGED excuses
    /\ troubled' = troubled \cup {Sink}
    /\ UNCHANGED config

HookStep == Skip \/ Validate \/ Invalid \/ Unresolved \/ Delivered \/ PostFails
-----------------------------------------------------------------------------
\* How many steps notify may still take: one to validate a sink and one for each
\* post that may be made to it.
PerSink == MaxRetries + 2
HookLeft ==
    IF step = "ended" THEN 0
    ELSE PerSink * (Len(Sinks) - turn) + (IF step = "post" THEN MaxRetries + 1 - attempt ELSE PerSink)

HookTypeOK ==
    /\ config \in [SinkSet -> SinkKinds]
    /\ step \in {"idle", "validate", "post", "ended"}
    /\ turn \in 1 .. Len(Sinks) + 1
    /\ attempt \in 0 .. MaxRetries
    /\ settled \in [SinkSet -> {"no", "delivered", "failed"}]
    /\ copies \in [SinkSet -> 0 .. MaxRetries + 1]
    /\ excuses \in [SinkSet -> 0 .. MaxRetries]
    /\ troubled \subseteq SinkSet
    /\ slept \in {0, 2, 6, 14}
=============================================================================
