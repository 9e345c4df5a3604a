----------------------------- MODULE CliProofs -----------------------------
(***************************************************************************)
(* The alerts of a session, for every set of command lines and results:    *)
(* notify implements Delivery, sinks are isolated, and no alert is posted  *)
(* before a report that says so.  The invariant ties the sinks behind and  *)
(* ahead of the current one to what has been done with them, and the       *)
(* configuration in use to the report it follows.                          *)
(***************************************************************************)
EXTENDS Cli, TLAPS

Early == {"arguments", "run", "custom", "waivers", "report"}
Files3 == {"compliance", "dashboard", "notify"}
Late == {"alerting", "change", "plan", "code", "exit"}

HookTypes ==
    /\ config \in [SinkSet -> SinkKinds]
    /\ step \in {"idle", "validate", "post", "ended"}
    /\ turn \in 1 .. 4
    /\ attempt \in 0 .. 3
    /\ settled \in [SinkSet -> {"no", "delivered", "failed"}]
    /\ copies \in [SinkSet -> Nat]
    /\ excuses \in [SinkSet -> Nat]
    /\ troubled \subseteq SinkSet

\* Before notify nothing has been done.
Untouched ==
    step = "idle" =>
        /\ config = NoSinks /\ turn = 1 /\ attempt = 0 /\ troubled = {}
        /\ \A s \in SinkSet : settled[s] = "no" /\ copies[s] = 0 /\ excuses[s] = 0

\* The current sink and those after it.
Ahead ==
    step \in {"validate", "post"} =>
        /\ turn \in 1 .. 3
        /\ excuses[Sinks[turn]] = attempt
        /\ Sinks[turn] \notin troubled => copies[Sinks[turn]] = 0
        /\ \A k \in turn .. 3 : settled[Sinks[k]] = "no"
        /\ \A k \in turn + 1 .. 3 : copies[Sinks[k]] = 0 /\ excuses[Sinks[k]] = 0
        /\ step = "post" => Usable(Sinks[turn])

\* Those before it.
Served(s) ==
    /\ config[s] # "absent" => settled[s] # "no"
    /\ config[s] = "good" /\ s \notin troubled => settled[s] = "delivered" /\ copies[s] = 1
Behind ==
    /\ step \in {"validate", "post"} => \A k \in 1 .. turn - 1 : Served(Sinks[k])
    /\ step = "ended" => \A s \in SinkSet : Served(s)

PostedToUsable == \A s \in SinkSet : copies[s] > 0 => Usable(s)

HookInv == HookTypes /\ Untouched /\ Ahead /\ Behind /\ PostedToUsable

\* main: where it is when notify runs, and what the alert is about.
MainInv ==
    /\ call \in Calls
    /\ pc \in Early \cup Files3 \cup Late
    /\ step # "idle" => pc \in Late
    /\ pc \notin Early \cup {"exit"} => report = "full" /\ reported = findings
    /\ config # NoSinks =>
        /\ report = "full"
        /\ HasStatus(reported, "fail") \/ HasStatus(reported, "error")
        /\ call.notify.file = "dict"
        /\ config = call.notify.sinks

IInv == HookInv /\ MainInv
-----------------------------------------------------------------------------
LEMMA SinkFacts ==
    /\ DOMAIN Sinks = 1 .. 3 /\ Len(Sinks) = 3
    /\ \A k \in 1 .. 3 : Sinks[k] \in SinkSet
    /\ \A s \in SinkSet : \E k \in 1 .. 3 : s = Sinks[k]
    /\ \A j, k \in 1 .. 3 : Sinks[j] = Sinks[k] => j = k
BY DEF Sinks, SinkSet

LEMMA AfterIsLater ==
    ASSUME NEW stage \in {"report", "compliance", "dashboard", "notify", "change", "plan"}
    PROVE  After(stage) \in {"compliance", "dashboard", "notify", "change", "plan", "code"}
<1>1. PICK k \in 1 .. 6 : Stages[k] = stage /\ k = CHOOSE j \in DOMAIN Stages : Stages[j] = stage
    BY DEF Stages
<1> DEFINE S == {j \in k + 1 .. 7 : Asked(Stages[j])}
<1>2. 7 \in S
    BY DEF Stages, Asked
<1>3. \E x \in S : \A y \in S : x <= y
    <2>1. S \subseteq 2 .. 7
        OBVIOUS
    <2> HIDE DEF S
    <2> QED
        BY <1>2, <2>1
<1>4. Min(S) \in S
    BY <1>3 DEF Min
<1>5. After(stage) = Stages[Min(S)]
    BY <1>1 DEF After, Stages
<1> QED
    BY <1>4, <1>5 DEF Stages

LEMMA AfterNotify ==
    ASSUME NEW stage \in {"notify", "change", "plan"}
    PROVE  After(stage) \in {"change", "plan", "code"}
<1>1. PICK k \in 4 .. 6 : Stages[k] = stage /\ k = CHOOSE j \in DOMAIN Stages : Stages[j] = stage
    BY DEF Stages
<1> DEFINE S == {j \in k + 1 .. 7 : Asked(Stages[j])}
<1>2. 7 \in S
    BY DEF Stages, Asked
<1>3. \E x \in S : \A y \in S : x <= y
    <2>1. S \subseteq 5 .. 7
        OBVIOUS
    <2> HIDE DEF S
    <2> QED
        BY <1>2, <2>1
<1>4. Min(S) \in S
    BY <1>3 DEF Min
<1>5. After(stage) = Stages[Min(S)]
    BY <1>1 DEF After, Stages
<1> QED
    BY <1>4, <1>5 DEF Stages
-----------------------------------------------------------------------------
USE SinkFacts

LEMMA InitInv == ASSUME Init PROVE IInv
<1>1. HookInv
    BY DEF Init, HookInit, HookInv, HookTypes, Untouched, Ahead, Behind, PostedToUsable, NoSinks, SinkKinds
<1>2. MainInv
    BY DEF Init, HookInit, MainInv, Early
<1> QED
    BY <1>1, <1>2 DEF IInv

\* The sinks ahead are as they were and those behind, the current one now among
\* them, are served.
LEMMA OnwardKeeps ==
    ASSUME NEW sink, sink = Sinks[turn],
           HookInv, step \in {"validate", "post"}, Onward,
           config' = config,
           HookTypes', PostedToUsable',
           Served(sink)',
           \A s \in SinkSet \ {sink} :
               /\ settled'[s] = settled[s] /\ copies'[s] = copies[s] /\ excuses'[s] = excuses[s]
               /\ s \in troubled' <=> s \in troubled
    PROVE  HookInv'
<1> USE DEF HookInv, HookTypes
<1>1. step' \in {"validate", "ended"} /\ turn' = turn + 1 /\ turn \in 1 .. 3 /\ attempt' = 0
    BY DEF Onward, Ahead
<1>2. \A k \in 1 .. 3 : k # turn => Sinks[k] \in SinkSet \ {sink}
    BY <1>1
<1>3. Untouched'
    BY <1>1 DEF Untouched
<1>4. Ahead'
    <2>1. ASSUME step' = "validate"
          PROVE  turn' \in 1 .. 3 /\ excuses'[Sinks[turn']] = 0 /\ copies'[Sinks[turn']] = 0
        <3>1. turn + 1 \in 1 .. 3
            BY <1>1, <2>1 DEF Onward
        <3>2. copies[Sinks[turn + 1]] = 0 /\ excuses[Sinks[turn + 1]] = 0
            BY <1>1, <3>1 DEF Ahead
        <3> QED
            BY <1>1, <1>2, <3>1, <3>2
    <2>2. \A k \in turn + 1 .. 3 : settled'[Sinks[k]] = "no" /\ copies'[Sinks[k]] = 0 /\ excuses'[Sinks[k]] = 0
        <3>1. \A k \in turn + 1 .. 3 : settled[Sinks[k]] = "no" /\ copies[Sinks[k]] = 0 /\ excuses[Sinks[k]] = 0
            BY <1>1 DEF Ahead
        <3> QED
            BY <1>1, <1>2, <3>1
    <2> QED
        BY <1>1, <2>1, <2>2 DEF Ahead
<1>5. \A k \in 1 .. turn : Served(Sinks[k])'
    <2>1. \A k \in 1 .. turn - 1 : Served(Sinks[k])
        BY DEF Behind
    <2>2. ASSUME NEW k \in 1 .. turn - 1 PROVE Served(Sinks[k])'
        BY <1>1, <1>2, <2>1, <2>2 DEF Served
    <2> QED
        BY <1>1, <2>2
<1>6. Behind'
    <2>1. CASE step' = "ended"
        <3>1. turn = 3
            BY <1>1, <2>1 DEF Onward
        <3>2. \A s \in SinkSet : Served(s)'
            BY <1>5, <3>1 DEF Served
        <3> QED
            BY <2>1, <3>2 DEF Behind
    <2>2. CASE step' = "validate"
        BY <1>1, <1>5, <2>2 DEF Behind
    <2> QED
        BY <1>1, <2>1, <2>2
<1> QED
    BY <1>3, <1>4, <1>6

LEMMA HookStepKeeps == ASSUME HookInv, HookStep PROVE HookInv'
<1> USE DEF HookInv, HookTypes
<1> DEFINE sink == Sinks[turn]
<1>0. step \in {"validate", "post"} /\ turn \in 1 .. 3 /\ sink \in SinkSet
    <2>1. step \in {"validate", "post"}
        BY DEF HookStep, Skip, Validate, Invalid, Unresolved, Delivered, PostFails
    <2> QED
        BY <2>1 DEF Ahead
<1>1. CASE Skip
    <2>1. HookTypes' /\ PostedToUsable' /\ config[sink] = "absent"
        BY <1>0, <1>1 DEF Skip, Onward, Sink, PostedToUsable, Usable
    <2>2. \A x \in {sink} : Served(x)'
        BY <1>1, <2>1 DEF Skip, Served
    <2> QED
        BY <1>0, <1>1, <2>1, <2>2, OnwardKeeps DEF Skip
<1>2. CASE Validate
    <2>1. HookTypes'
        BY <1>2 DEF Validate
    <2>2. Untouched' /\ Ahead' /\ PostedToUsable'
        BY <1>0, <1>2 DEF Validate, Untouched, Ahead, PostedToUsable, Usable, Sink
    <2>3. Behind'
        BY <1>0, <1>2 DEF Validate, Behind, Served
    <2> QED
        BY <2>1, <2>2, <2>3
<1>3. ASSUME Failed, config' = config, excuses' = excuses,
             copies' \in [SinkSet -> Nat],
             \A s \in SinkSet \ {sink} : copies'[s] = copies[s],
             copies'[sink] > 0 => Usable(sink),
             troubled' \in SUBSET SinkSet,
             \A s \in SinkSet \ {sink} : s \in troubled' <=> s \in troubled,
             config[sink] = "good" => sink \in troubled'
      PROVE  HookInv'
    <2>1. HookTypes'
        BY <1>0, <1>3 DEF Failed, Onward, Sink
    <2>2. PostedToUsable'
        BY <1>0, <1>3 DEF PostedToUsable, Usable
    <2>3. settled' = [settled EXCEPT ![sink] = "failed"] /\ Onward
        BY <1>3 DEF Failed, Sink
    <2>4. \A x \in {sink} : Served(x)'
        BY <1>0, <1>3, <2>3 DEF Served
    <2>5. \A s \in SinkSet \ {sink} : settled'[s] = settled[s]
        BY <2>3
    <2> QED
        BY <1>0, <1>3, <2>1, <2>2, <2>3, <2>4, <2>5, OnwardKeeps
<1>4. CASE Invalid
    <2>1. config[sink] = "bad" /\ Failed /\ UNCHANGED <<config, copies, excuses, troubled>>
        BY <1>4 DEF Invalid, Sink
    <2> QED
        BY <1>0, <1>3, <2>1 DEF PostedToUsable
<1>5. CASE Unresolved
    <2>1. troubled' = troubled \cup {sink} /\ Failed /\ UNCHANGED <<config, copies, excuses>>
        BY <1>5 DEF Unresolved, Sink
    <2> QED
        BY <1>0, <1>3, <2>1 DEF PostedToUsable
<1>6. CASE Delivered
    <2>1. /\ config[sink] = "good" /\ Onward
          /\ copies' = [copies EXCEPT ![sink] = @ + 1]
          /\ settled' = [settled EXCEPT ![sink] = "delivered"]
          /\ UNCHANGED <<config, excuses, troubled>>
        BY <1>6 DEF Delivered, Sink
    <2>2. HookTypes'
        BY <1>0, <2>1 DEF Onward
    <2>3. PostedToUsable'
        BY <1>0, <2>1 DEF PostedToUsable, Usable
    <2>4. sink \notin troubled => copies[sink] = 0
        BY <1>0 DEF Ahead
    <2>5. \A x \in {sink} : Served(x)'
        BY <1>0, <2>1, <2>4 DEF Served
    <2> QED
        BY <1>0, <2>1, <2>2, <2>3, <2>5, OnwardKeeps
<1>7. CASE PostFails
    <2>1. PICK error \in Outcomes(sink), n \in 0 .. 1 :
            /\ copies' = [copies EXCEPT ![sink] = @ + n]
            /\ IF attempt < MaxRetries /\ Retriable(error)
               THEN /\ excuses' = [excuses EXCEPT ![sink] = @ + (IF error \in AsksAgain THEN 1 ELSE 0)]
                    /\ attempt' = attempt + 1
                    /\ UNCHANGED <<step, turn, settled>>
               ELSE Failed /\ UNCHANGED excuses
        BY <1>7 DEF PostFails, Sink
    <2>2. step = "post" /\ Usable(sink) /\ troubled' = troubled \cup {sink} /\ config' = config
        BY <1>0, <1>7 DEF PostFails, Sink, Ahead
    <2>3. CASE ~(attempt < MaxRetries /\ Retriable(error))
        BY <1>0, <1>3, <2>1, <2>2, <2>3
    <2>4. CASE attempt < MaxRetries /\ Retriable(error)
        <3>1. /\ excuses' = [excuses EXCEPT ![sink] = @ + 1]
              /\ attempt' = attempt + 1 /\ attempt < 3
              /\ UNCHANGED <<step, turn, settled>>
            BY <2>1, <2>4 DEF Retriable, MaxRetries
        <3>2. HookTypes'
            BY <1>0, <2>1, <2>2, <3>1
        <3>3. Untouched' /\ PostedToUsable'
            BY <1>0, <2>1, <2>2, <3>1 DEF Untouched, PostedToUsable, Usable
        <3>4. \A k \in 1 .. 3 : k # turn => Sinks[k] \in SinkSet \ {sink}
            BY <1>0
        <3>5. Ahead'
            <4>1. excuses'[sink] = attempt'
                BY <1>0, <3>1 DEF Ahead
            <4>2. \A k \in turn .. 3 : settled'[Sinks[k]] = "no"
                BY <1>0, <3>1 DEF Ahead
            <4>3. \A k \in turn + 1 .. 3 : copies'[Sinks[k]] = 0 /\ excuses'[Sinks[k]] = 0
                BY <1>0, <2>1, <3>1, <3>4 DEF Ahead
            <4> QED
                BY <1>0, <2>2, <3>1, <4>1, <4>2, <4>3 DEF Ahead, Usable
        <3>6. Behind'
            <4>1. \A k \in 1 .. turn - 1 : Served(Sinks[k])
                BY <1>0 DEF Behind
            <4>2. ASSUME NEW k \in 1 .. turn - 1 PROVE Served(Sinks[k])'
                BY <1>0, <2>1, <2>2, <3>1, <3>4, <4>1, <4>2 DEF Served
            <4> QED
                BY <2>2, <3>1, <4>2 DEF Behind
        <3> QED
            BY <3>2, <3>3, <3>5, <3>6
    <2> QED
        BY <2>3, <2>4
<1> QED
    BY <1>1, <1>2, <1>4, <1>5, <1>6, <1>7 DEF HookStep
-----------------------------------------------------------------------------
LEMMA HookUnchanged == ASSUME HookInv, UNCHANGED hookVars PROVE HookInv'
BY DEF hookVars, HookInv, HookTypes, Untouched, Ahead, Behind, Served, PostedToUsable, Usable

\* Before the report nothing has been alerted.
LEMMA EarlySteps ==
    ASSUME IInv, OtherCommand \/ Refuse \/ AuditOne \/ LoadAll \/ RunAll \/ RunAllTimesOut
                 \/ CustomControls \/ Waivers
    PROVE  IInv'
<1>1. UNCHANGED hookVars /\ call' = call /\ pc \in Early /\ pc' \in Early \cup {"exit"}
    BY DEF OtherCommand, Refuse, AuditOne, LoadAll, RunAll, RunAllTimesOut, CustomControls, Waivers,
           Exit, Early
<1>2. step = "idle" /\ config = NoSinks
    BY <1>1 DEF IInv, MainInv, HookInv, Untouched, Early, Late
<1>3. MainInv'
    BY <1>1, <1>2 DEF IInv, MainInv, hookVars, Late, NoSinks
<1> QED
    BY <1>1, <1>3, HookUnchanged DEF IInv

LEMMA WriteReportKeeps == ASSUME IInv, WriteReport PROVE IInv'
<1>1. UNCHANGED hookVars /\ call' = call /\ findings' = findings /\ pc = "report"
    BY DEF WriteReport
<1>2. step = "idle" /\ config = NoSinks
    BY <1>1 DEF IInv, MainInv, HookInv, Untouched, Late
<1>3. CASE report' = "full" /\ reported' = findings /\ pc' = After("report")
    <2>1. pc' \in Files3 \cup Late
        BY <1>3, AfterIsLater DEF Files3, Late
    <2> QED
        BY <1>1, <1>2, <1>3, <2>1, HookUnchanged DEF IInv, MainInv, hookVars, NoSinks
<1>4. CASE pc' = "exit"
    BY <1>1, <1>2, <1>4, HookUnchanged DEF IInv, MainInv, hookVars, NoSinks, Late
<1> QED
    BY <1>3, <1>4 DEF WriteReport, Exit

LEMMA LateSteps ==
    ASSUME IInv, Finish \/ EndNotify \/ \E file \in Files : WriteFile(file)
    PROVE  IInv'
<1>1. UNCHANGED <<call, findings, report, reported, hookVars>> /\ pc \in {"code", "alerting"} \cup Files
    BY DEF Finish, EndNotify, WriteFile
<1>2. report = "full" /\ reported = findings
    BY <1>1 DEF IInv, MainInv, Files, Early
<1>3. pc' \in {"compliance", "dashboard", "notify", "change", "plan", "code", "exit"}
    BY AfterIsLater DEF Finish, EndNotify, WriteFile, Exit, Files
<1>4. step # "idle" => pc' \in Late
    <2>1. CASE pc \in {"compliance", "dashboard"}
        BY <1>1, <2>1 DEF IInv, MainInv, Late
    <2>2. CASE pc = "code"
        BY <1>1, <2>2 DEF Finish, EndNotify, WriteFile, Exit, Files, Late
    <2>3. CASE pc = "alerting"
        <3>1. pc' = After("notify")
            BY <1>1, <2>3 DEF Finish, EndNotify, WriteFile, Exit, Files
        <3> QED
            BY <3>1, AfterNotify DEF Late
    <2>4. CASE pc \in {"change", "plan"}
        <3>1. pc' = After(pc) \/ pc' = "exit"
            BY <1>1, <2>4 DEF Finish, EndNotify, WriteFile, Exit, Files
        <3> QED
            BY <2>4, <3>1, AfterNotify DEF Late
    <2> QED
        BY <1>1, <2>1, <2>2, <2>3, <2>4 DEF Files
<1>5. MainInv'
    BY <1>1, <1>2, <1>3, <1>4 DEF IInv, MainInv, Files3, Late, hookVars, HasStatus, NoSinks
<1> QED
    BY <1>1, <1>5, HookUnchanged DEF IInv

LEMMA StartNotifyKeeps == ASSUME IInv, StartNotify PROVE IInv'
<1>1. pc = "notify" /\ UNCHANGED <<call, findings, report, reported>>
    BY DEF StartNotify
<1>2. report = "full" /\ reported = findings /\ step = "idle"
    BY <1>1 DEF IInv, MainInv, Early, Late
<1>3. CASE call.notify.file = "broken"
    <2>1. pc' \in Files3 \cup Late /\ UNCHANGED hookVars
        BY <1>3, AfterIsLater DEF StartNotify, Files3, Late
    <2> QED
        BY <1>1, <1>2, <2>1, HookUnchanged DEF IInv, MainInv, hookVars, HasStatus, NoSinks
<1>4. CASE call.notify.file # "broken"
    <2>1. /\ pc' = "alerting"
          /\ Notify(call.notify.file = "dict", call.notify.sinks, findings)
        BY <1>4 DEF StartNotify
    <2>2. UNCHANGED <<turn, attempt, settled, copies, excuses, troubled, slept>>
        BY <2>1 DEF Notify
    <2>3. CASE call.notify.file = "dict" /\ Actionable(findings) # {}
        <3>1. config' = call.notify.sinks /\ step' = "validate"
            BY <2>1, <2>3 DEF Notify
        <3>2. HasStatus(findings, "fail") \/ HasStatus(findings, "error")
            BY <2>3 DEF Actionable, HasStatus
        <3>3. config' \in [SinkSet -> SinkKinds]
            BY <3>1, CliAssumption DEF IInv, MainInv
        <3>4. HookInv'
            BY <1>2, <2>2, <3>1, <3>3
            DEF IInv, HookInv, HookTypes, Untouched, Ahead, Behind, PostedToUsable
        <3>5. MainInv'
            BY <1>1, <1>2, <2>1, <2>3, <3>1, <3>2 DEF IInv, MainInv, Late, HasStatus
        <3> QED
            BY <3>4, <3>5 DEF IInv
    <2>4. CASE ~(call.notify.file = "dict" /\ Actionable(findings) # {})
        <3>1. config' = config /\ step' = "ended"
            BY <2>1, <2>4 DEF Notify
        <3>2. config = NoSinks
            BY <1>2 DEF IInv, HookInv, Untouched
        <3>3. HookInv'
            BY <1>2, <2>2, <3>1, <3>2
            DEF IInv, HookInv, HookTypes, Untouched, Ahead, Behind, Served, PostedToUsable, NoSinks
        <3>4. MainInv'
            BY <1>1, <1>2, <2>1, <3>1, <3>2 DEF IInv, MainInv, Late, NoSinks
        <3> QED
            BY <3>3, <3>4 DEF IInv
    <2> QED
        BY <2>3, <2>4
<1> QED
    BY <1>3, <1>4

LEMMA AlertingKeeps == ASSUME IInv, Alerting PROVE IInv'
<1>1. pc = "alerting" /\ HookStep /\ UNCHANGED cliVars
    BY DEF Alerting
<1>2. config' = config
    BY <1>1 DEF HookStep, Skip, Validate, Invalid, Unresolved, Delivered, PostFails
<1>3. MainInv'
    BY <1>1, <1>2 DEF IInv, MainInv, cliVars, Late, HasStatus, NoSinks
<1> QED
    BY <1>1, <1>3, HookStepKeeps DEF IInv

LEMMA StepKeeps == ASSUME IInv, [Next]_vars PROVE IInv'
<1>1. CASE UNCHANGED vars
    BY <1>1, HookUnchanged DEF IInv, MainInv, vars, cliVars, hookVars, HasStatus, NoSinks
<1>2. CASE Next
    BY <1>2, EarlySteps, WriteReportKeeps, LateSteps, StartNotifyKeeps, AlertingKeeps DEF Next
<1> QED
    BY <1>1, <1>2

\* The invariant of the session and its alerts holds throughout.
THEOREM Invariance == Spec => []IInv
<1>1. Init => IInv
    BY InitInv
<1>2. IInv /\ [Next]_vars => IInv'
    BY StepKeeps
<1> QED
    BY <1>1, <1>2, PTL DEF Spec
-----------------------------------------------------------------------------
\* SinksIsolated: a sink is let down by its own address or server only.
THEOREM SinksIsolatedHolds == Spec => []SinksIsolated
<1>1. IInv => SinksIsolated
    BY DEF IInv, HookInv, Behind, Served, SinksIsolated
<1> QED
    BY <1>1, Invariance, PTL

\* AlertFollowsReport: no alert goes out that the report does not back.
THEOREM AlertFollowsReportHolds == Spec => []AlertFollowsReport
<1>1. IInv => AlertFollowsReport
    <2> SUFFICES ASSUME IInv, NEW s \in SinkSet, copies[s] > 0
                 PROVE  /\ config # NoSinks
                        /\ config[s] \in {"good", "silent"}
        BY DEF IInv, MainInv, AlertFollowsReport
    <2>1. config[s] \in {"good", "silent"}
        BY DEF IInv, HookInv, PostedToUsable, Usable
    <2> QED
        BY <2>1 DEF NoSinks
<1> QED
    BY <1>1, Invariance, PTL
-----------------------------------------------------------------------------
\* ImplementsDelivery: the steps of main and of the validation stutter, the
\* rest are steps of Delivery.
LEMMA HookStepImplements == ASSUME HookInv, HookStep PROVE [D!Next]_(D!vars)
<1> USE DEF HookInv, HookTypes
<1> DEFINE sink == Sinks[turn]
<1>0. step \in {"validate", "post"} /\ turn \in 1 .. 3 /\ sink \in SinkSet
    <2>1. step \in {"validate", "post"}
        BY DEF HookStep, Skip, Validate, Invalid, Unresolved, Delivered, PostFails
    <2> QED
        BY <2>1 DEF Ahead
<1>1. config' = config
    BY DEF HookStep, Skip, Validate, Invalid, Unresolved, Delivered, PostFails
<1>2. Wanted' = Wanted
    BY <1>1 DEF Wanted
<1>3. ASSUME config[sink] # "absent" PROVE D!Turn(turn)
    <2>1. sink \in Wanted /\ settled[sink] = "no"
        BY <1>0, <1>3 DEF Wanted, Ahead
    <2>2. \A j \in 1 .. turn - 1 : Sinks[j] \in Wanted => settled[Sinks[j]] # "no"
        BY <1>0 DEF Behind, Served, Wanted
    <2> QED
        BY <2>1, <2>2 DEF D!Turn
<1>4. ASSUME config[sink] # "absent", D!Deliver(sink) \/ D!GiveUp(sink) \/ D!AskAgain(sink)
      PROVE  D!Next
    BY <1>0, <1>3, <1>4 DEF D!Next
<1>5. CASE Skip \/ Validate
    BY <1>2, <1>5 DEF Skip, Validate, D!vars
<1>6. CASE Invalid \/ Unresolved
    <2>1. /\ config[sink] # "absent" /\ UNCHANGED <<copies, excuses>>
          /\ settled' = [settled EXCEPT ![sink] = "failed"]
        BY <1>0, <1>6 DEF Invalid, Unresolved, Failed, Sink
    <2>2. copies' = [copies EXCEPT ![sink] = @ + 0]
        BY <1>0, <2>1
    <2>3. D!GiveUp(sink)
        BY <1>2, <2>1, <2>2 DEF D!GiveUp
    <2> QED
        BY <1>4, <2>1, <2>3
<1>7. CASE Delivered
    <2>1. config[sink] # "absent" /\ D!Deliver(sink)
        BY <1>2, <1>7 DEF Delivered, D!Deliver, Sink
    <2> QED
        BY <1>4, <2>1
<1>8. CASE PostFails
    <2>1. PICK error \in Outcomes(sink), n \in 0 .. 1 :
            /\ copies' = [copies EXCEPT ![sink] = @ + n]
            /\ IF attempt < MaxRetries /\ Retriable(error)
               THEN /\ excuses' = [excuses EXCEPT ![sink] = @ + (IF error \in AsksAgain THEN 1 ELSE 0)]
                    /\ UNCHANGED settled
               ELSE Failed /\ UNCHANGED excuses
        BY <1>8 DEF PostFails, Sink
    <2>2. config[sink] # "absent"
        BY <1>0, <1>8 DEF PostFails, Ahead, Usable
    <2>3. CASE ~(attempt < MaxRetries /\ Retriable(error))
        <3>1. D!GiveUp(sink)
            BY <1>2, <2>1, <2>3 DEF Failed, D!GiveUp, Sink
        <3> QED
            BY <1>4, <2>2, <3>1
    <2>4. CASE attempt < MaxRetries /\ Retriable(error)
        <3>1. /\ copies' = [copies EXCEPT ![sink] = @ + n]
              /\ excuses' = [excuses EXCEPT ![sink] = @ + 1]
              /\ UNCHANGED settled
            BY <2>1, <2>4 DEF Retriable
        <3>2. D!AskAgain(sink)
            <4>1. excuses[sink] < (MaxRetries + 1) - 1
                BY <1>0, <2>4 DEF Ahead, MaxRetries
            <4>2. \E m \in 0 .. 1 : copies' = [copies EXCEPT ![sink] = @ + m]
                BY <3>1
            <4>3. UNCHANGED <<Wanted, settled>>
                BY <1>2, <3>1
            <4> QED
                BY <3>1, <4>1, <4>2, <4>3 DEF D!AskAgain
        <3> QED
            BY <1>4, <2>2, <3>2
    <2> QED
        BY <2>3, <2>4
<1> QED
    BY <1>5, <1>6, <1>7, <1>8 DEF HookStep

LEMMA StepImplements == ASSUME IInv, [Next]_vars PROVE [D!Next]_(D!vars)
<1>1. CASE UNCHANGED hookVars
    BY <1>1 DEF hookVars, D!vars, Wanted
<1>2. CASE StartNotify
    <2>1. UNCHANGED <<settled, copies, excuses>>
        BY <1>2 DEF StartNotify, Notify, hookVars
    <2>2. step = "idle" /\ config = NoSinks
        BY <1>2 DEF StartNotify, IInv, MainInv, HookInv, Untouched, Late
    <2>3. Wanted = {}
        BY <2>2 DEF Wanted, NoSinks
    <2>4. Wanted' \in SUBSET SinkSet
        BY DEF Wanted
    <2>5. CASE Wanted' = {}
        BY <2>1, <2>3, <2>5 DEF D!vars
    <2>6. CASE Wanted' # {}
        <3>1. D!Open
            BY <2>1, <2>3, <2>4, <2>6 DEF D!Open, D!SinkSet, SinkSet
        <3> QED
            BY <3>1 DEF D!Next
    <2> QED
        BY <2>5, <2>6
<1>3. CASE Alerting
    BY <1>3, HookStepImplements DEF Alerting, IInv
<1>4. CASE UNCHANGED vars
    BY <1>1, <1>4 DEF vars, hookVars
<1>5. CASE \/ OtherCommand \/ Refuse \/ AuditOne \/ LoadAll \/ RunAll \/ RunAllTimesOut
           \/ CustomControls \/ Waivers \/ WriteReport \/ EndNotify \/ Finish
           \/ \E file \in Files : WriteFile(file)
    <2>1. UNCHANGED hookVars
        BY <1>5 DEF OtherCommand, Refuse, AuditOne, LoadAll, RunAll, RunAllTimesOut, CustomControls,
                    Waivers, WriteReport, EndNotify, Finish, WriteFile
    <2> QED
        BY <1>1, <2>1
<1> QED
    BY <1>2, <1>3, <1>4, <1>5 DEF Next

THEOREM NotifyImplementsDelivery == Spec => ImplementsDelivery
<1>1. Init => D!Init
    <2> SUFFICES ASSUME Init PROVE D!Init
        OBVIOUS
    <2>1. Wanted = {}
        BY DEF Init, HookInit, Wanted, NoSinks
    <2>2. D!SinkSet = SinkSet
        BY DEF D!SinkSet, SinkSet
    <2> QED
        BY <2>1, <2>2 DEF Init, HookInit, D!Init
<1>2. IInv /\ [Next]_vars => [D!Next]_(D!vars)
    BY StepImplements
<1> QED
    BY <1>1, <1>2, Invariance, PTL DEF Spec, ImplementsDelivery, D!Spec
-----------------------------------------------------------------------------
(***************************************************************************)
(* What a session reports, for every set of command lines and results: the *)
(* exit code tells the truth, no failure is hidden, and the types.  The    *)
(* invariant says, stage by stage, what the findings still have to hold    *)
(* and which files must have been written.                                 *)
(***************************************************************************)
Waived(f) == call.waivers = "active" \/ (call.custom = "bad severity" /\ f.from = "custom")
Kept(fs) == \A f \in made : f.status \in {"fail", "error"} => f \in fs \/ Waived(f)
Represented(fs) == \A p \in broken : \E f \in fs : f.from = p /\ f.status = "error"

DataInv ==
    /\ findings \subseteq made
    /\ \A f \in made : f.status \in Statuses
    /\ loaded \subseteq AllProviders /\ broken \subseteq loaded
    /\ report \in {"none", "partial", "full"}
    /\ reported \subseteq findings
    /\ written \subseteq Files \cup {"playbook"}
    /\ exit \in {"none", "0", "1", "2"}
    /\ faults \in 0 .. MaxFaults

KeepInv ==
    /\ pc = "arguments" => loaded = {} /\ broken = {} /\ made = {}
    /\ pc = "run" => broken = {} /\ made = {}
    /\ pc \in Early => report = "none" /\ reported = {}
    /\ pc \in {"custom", "waivers", "report"} => Kept(findings) /\ Represented(findings)
    /\ report = "full" => Kept(reported) /\ Represented(reported)

\* The files asked for before stage k are written.
WrittenBefore(k) == \A j \in 1 .. k - 1 : Stages[j] \in Files /\ Asked(Stages[j]) => Stages[j] \in written
FilesInv ==
    /\ \A k \in 1 .. 7 : pc = Stages[k] => WrittenBefore(k)
    /\ pc = "alerting" => WrittenBefore(4)

\* The sink in turn has no more copies than attempts, and the pauses add up.
Pause == <<0, 2, 6, 14>>
BoundInv ==
    /\ \A s \in SinkSet : copies[s] \in 0 .. 4 /\ excuses[s] \in 0 .. 3
    /\ slept = Pause[attempt + 1]
    /\ step \in {"validate", "post"} => copies[Sinks[turn]] <= attempt

SInv == IInv /\ DataInv /\ KeepInv /\ FilesInv /\ ExitTellsTruth /\ BoundInv
-----------------------------------------------------------------------------
LEMMA AskedStays == ASSUME call' = call, NEW stage PROVE Asked(stage)' <=> Asked(stage)
BY DEF Asked

LEMMA StageFacts ==
    /\ Stages[1] = "report" /\ Stages[2] = "compliance" /\ Stages[3] = "dashboard" /\ Stages[4] = "notify"
    /\ Stages[5] = "change" /\ Stages[6] = "plan" /\ Stages[7] = "code"
    /\ \A j, k \in 1 .. 7 : Stages[j] = Stages[k] => j = k
BY DEF Stages

\* After skips nothing that was asked for.
LEMMA AfterSkips ==
    ASSUME NEW k \in 1 .. 6
    PROVE  \E m \in k + 1 .. 7 : After(Stages[k]) = Stages[m] /\ \A j \in k + 1 .. m - 1 : ~Asked(Stages[j])
<1>1. k = CHOOSE j \in DOMAIN Stages : Stages[j] = Stages[k]
    BY DEF Stages
<1> DEFINE S == {j \in k + 1 .. 7 : Asked(Stages[j])}
<1>2. 7 \in S
    BY DEF Stages, Asked
<1>3. \E x \in S : \A y \in S : x <= y
    <2>1. S \subseteq 2 .. 7
        OBVIOUS
    <2> HIDE DEF S
    <2> QED
        BY <1>2, <2>1
<1>4. Min(S) \in S /\ \A y \in S : Min(S) <= y
    BY <1>3 DEF Min
<1>5. After(Stages[k]) = Stages[Min(S)]
    BY <1>1 DEF After, Stages
<1>6. \A j \in k + 1 .. Min(S) - 1 : ~Asked(Stages[j])
    BY <1>4
<1> QED
    BY <1>4, <1>5, <1>6

\* A stage that ends with its file written, if it has one, leads to one before
\* which all files are written.
LEMMA OnToNextStage ==
    ASSUME NEW k \in 1 .. 6, WrittenBefore(k), call' = call,
           written' = written \/ written' = written \cup {Stages[k]},
           Stages[k] \in Files => Stages[k] \in written',
           pc' = After(Stages[k])
    PROVE  FilesInv'
<1>1. PICK m \in k + 1 .. 7 : pc' = Stages[m] /\ \A j \in k + 1 .. m - 1 : ~Asked(Stages[j])
    BY AfterSkips
<1>2. ASSUME NEW j \in 1 .. m - 1, Stages[j] \in Files, Asked(Stages[j])
      PROVE  Stages[j] \in written'
    BY <1>1, <1>2 DEF WrittenBefore
<1>3. WrittenBefore(m)'
    BY <1>2, AskedStays DEF WrittenBefore
<1>4. pc' # "alerting"
    BY <1>1, StageFacts
<1>5. ASSUME NEW n \in 1 .. 7, pc' = Stages[n] PROVE WrittenBefore(n)'
    <2>1. m \in 1 .. 7 /\ Stages[n] = Stages[m]
        BY <1>1, <1>5
    <2>2. n = m
        BY <2>1, StageFacts
    <2> QED
        BY <1>3, <2>2 DEF WrittenBefore
<1> QED
    BY <1>4, <1>5 DEF FilesInv
-----------------------------------------------------------------------------
LEMMA InitSession == ASSUME Init PROVE SInv
<1>1. IInv
    BY InitInv
<1>2. DataInv /\ KeepInv
    BY CliAssumption DEF Init, DataInv, KeepInv, Early, Statuses
<1>3. FilesInv
    BY StageFacts DEF Init, FilesInv, WrittenBefore, Files
<1>4. ExitTellsTruth
    BY DEF Init, ExitTellsTruth
<1>5. BoundInv
    BY DEF Init, HookInit, BoundInv, Pause
<1> QED
    BY <1>1, <1>2, <1>3, <1>4, <1>5 DEF SInv

LEMMA BoundUnchanged == ASSUME BoundInv, UNCHANGED hookVars PROVE BoundInv'
BY DEF hookVars, BoundInv

\* A stage that is not in the list of stages, or the first one, needs no file.
LEMMA NoFilesYet ==
    ASSUME pc' \in {"run", "custom", "waivers", "report", "exit"}
    PROVE  FilesInv'
<1>1. ASSUME NEW k \in 1 .. 7, pc' = Stages[k] PROVE k = 1
    BY <1>1, StageFacts
<1>2. WrittenBefore(1)'
    BY DEF WrittenBefore
<1>3. ASSUME NEW k \in 1 .. 7, pc' = Stages[k] PROVE WrittenBefore(k)'
    BY <1>1, <1>2, <1>3 DEF WrittenBefore
<1> QED
    BY <1>3 DEF FilesInv

LEMMA RefusingSteps ==
    ASSUME SInv, OtherCommand \/ Refuse
    PROVE  DataInv' /\ KeepInv' /\ ExitTellsTruth'
<1> USE DEF SInv, DataInv
<1>1. CASE OtherCommand
    <2>1. UNCHANGED <<call, findings, made, loaded, broken, report, reported>> /\ pc = "arguments" /\ pc' = "exit"
        BY <1>1 DEF OtherCommand, Exit
    <2>2. DataInv'
        BY <1>1, <2>1, CliAssumption DEF OtherCommand, Exit
    <2>3. KeepInv'
        BY <2>1 DEF KeepInv, Early
    <2>4. ~Audits'
        BY <1>1, <2>1 DEF OtherCommand, Audits
    <2> QED
        BY <2>2, <2>3, <2>4 DEF ExitTellsTruth
<1>2. CASE Refuse
    <2>1. /\ UNCHANGED <<call, findings, made, loaded, broken, report, reported, written, faults>>
          /\ pc = "arguments" /\ pc' = "exit" /\ exit' = "2"
        BY <1>2 DEF Refuse, Exit
    <2>2. DataInv' /\ KeepInv'
        BY <2>1 DEF KeepInv, Early
    <2>3. ExitTellsTruth'
        BY <2>1 DEF ExitTellsTruth, KeepInv, Early
    <2> QED
        BY <2>2, <2>3
<1> QED
    BY <1>1, <1>2

LEMMA AuditSteps ==
    ASSUME SInv, AuditOne \/ LoadAll \/ RunAll \/ RunAllTimesOut
    PROVE  DataInv' /\ KeepInv' /\ ExitTellsTruth'
<1> USE DEF SInv, DataInv
<1>0. report = "none" /\ reported = {} /\ UNCHANGED <<call, report, reported, written>>
    BY DEF AuditOne, LoadAll, RunAll, RunAllTimesOut, KeepInv, Early
<1>1. CASE AuditOne
    <2>1. /\ pc = "arguments" /\ loaded = {} /\ broken = {} /\ made = {} /\ findings = {}
          /\ UNCHANGED <<loaded, broken, faults>>
        BY <1>1 DEF AuditOne, KeepInv
    <2>2. CASE pc' = "custom" /\ made' = findings' /\ UNCHANGED exit
               /\ \E r \in Results : findings' = From(call.provider, r)
        <3>1. \A f \in made' : f.status \in Statuses
            BY <2>2, CliAssumption DEF From, Statuses
        <3>2. DataInv'
            BY <1>0, <2>1, <2>2, <3>1
        <3>3. KeepInv'
            BY <1>0, <2>1, <2>2 DEF KeepInv, Kept, Represented
        <3> QED
            BY <2>2, <3>2, <3>3 DEF ExitTellsTruth
    <2>3. CASE pc' = "exit" /\ exit' = "2" /\ UNCHANGED <<findings, made>>
        <3>1. DataInv' /\ KeepInv'
            BY <1>0, <2>1, <2>3 DEF KeepInv, Early
        <3> QED
            BY <1>0, <2>3, <3>1 DEF ExitTellsTruth
    <2> QED
        BY <1>1, <2>2, <2>3 DEF AuditOne, Exit
<1>2. CASE LoadAll
    <2>1. /\ pc = "arguments" /\ loaded = {} /\ broken = {} /\ made = {}
          /\ UNCHANGED <<findings, made, broken>> /\ call.provider = "all"
        BY <1>2 DEF LoadAll, KeepInv
    <2>2. CASE call.policy = "bad" /\ pc' = "exit" /\ exit' = "1" /\ UNCHANGED <<loaded, faults>>
        <3>1. DataInv' /\ KeepInv'
            BY <1>0, <2>1, <2>2 DEF KeepInv, Early
        <3> QED
            BY <1>0, <2>1, <2>2, <3>1 DEF ExitTellsTruth
    <2>3. CASE loaded' \in SUBSET AllProviders /\ pc' = "run" /\ UNCHANGED <<exit, faults>>
        <3>1. DataInv' /\ KeepInv'
            BY <1>0, <2>1, <2>3 DEF KeepInv
        <3> QED
            BY <2>3, <3>1 DEF ExitTellsTruth
    <2>4. CASE /\ faults < MaxFaults /\ faults' = faults + 1 /\ pc' = "exit" /\ exit' = "1"
               /\ UNCHANGED loaded
        <3>1. DataInv' /\ KeepInv'
            BY <1>0, <2>1, <2>4, CliAssumption DEF KeepInv, Early
        <3> QED
            BY <1>0, <2>4, <3>1, CliAssumption DEF ExitTellsTruth
    <2> QED
        BY <1>2, <2>2, <2>3, <2>4 DEF LoadAll, Exit
<1>3. CASE RunAll
    <2>1. /\ pc = "run" /\ pc' = "report" /\ UNCHANGED <<loaded, exit, faults>> /\ made' = findings'
          /\ broken' \subseteq loaded
        BY <1>3 DEF RunAll
    <2>2. PICK r \in [loaded -> Results \cup {{}}] :
            findings' = UNION {ResultOf(p, p \in broken', r[p]) : p \in loaded}
        BY <1>3 DEF RunAll
    <2>3. ASSUME NEW p \in loaded, NEW raised
          PROVE  /\ \A f \in ResultOf(p, raised, r[p]) : f.status \in Statuses
                 /\ raised => \E f \in ResultOf(p, raised, r[p]) : f.from = p /\ f.status = "error"
        <3>1. r[p] \in SUBSET Statuses
            BY CliAssumption DEF Statuses
        <3>2. CASE raised
            <4>1. ResultOf(p, raised, r[p]) = {[from |-> p, status |-> "error"]}
                BY <3>2 DEF ResultOf, From
            <4>2. \A f \in ResultOf(p, raised, r[p]) : f.from = p /\ f.status = "error"
                BY <4>1
            <4> QED
                BY <4>1, <4>2 DEF Statuses
        <3>3. CASE ~raised
            BY <3>1, <3>3 DEF ResultOf, From
        <3> QED
            BY <3>2, <3>3
    <2>4. \A f \in findings' : f.status \in Statuses
        BY <2>2, <2>3
    <2>5. ASSUME NEW p \in broken' PROVE \E f \in findings' : f.from = p /\ f.status = "error"
        <3>1. p \in loaded
            BY <2>1, <2>5
        <3>2. PICK f \in ResultOf(p, p \in broken', r[p]) : f.from = p /\ f.status = "error"
            BY <2>3, <2>5, <3>1
        <3>3. f \in findings'
            BY <2>2, <3>1, <3>2
        <3> QED
            BY <3>2, <3>3
    <2>6. DataInv'
        BY <1>0, <2>1, <2>4
    <2>7. KeepInv'
        BY <1>0, <2>1, <2>5 DEF KeepInv, Kept, Represented
    <2> QED
        BY <2>1, <2>6, <2>7 DEF ExitTellsTruth
<1>4. CASE RunAllTimesOut
    <2>1. /\ pc = "run" /\ pc' = "exit" /\ exit' = "1" /\ faults < MaxFaults /\ faults' = faults + 1
          /\ UNCHANGED <<findings, made, loaded, broken>>
        BY <1>4 DEF RunAllTimesOut, Exit
    <2>2. DataInv' /\ KeepInv'
        BY <1>0, <2>1, CliAssumption DEF KeepInv
    <2>3. ExitTellsTruth'
        BY <2>1, CliAssumption DEF ExitTellsTruth
    <2> QED
        BY <2>2, <2>3
<1> QED
    BY <1>1, <1>2, <1>3, <1>4

LEMMA CustomSteps == ASSUME SInv, CustomControls PROVE DataInv' /\ KeepInv' /\ ExitTellsTruth'
<1> USE DEF SInv, DataInv
<1>1. /\ UNCHANGED <<call, loaded, broken, report, reported, written, exit, faults>>
      /\ pc = "custom" /\ pc' = "waivers" /\ report = "none" /\ reported = {}
    BY DEF CustomControls, KeepInv, Early
<1>2. PICK more \in SUBSET From("custom", {"pass", "fail", "error"}) :
        /\ made' = made \cup more
        /\ findings' = findings \cup more \/ (UNCHANGED findings /\ (more = {} \/ call.custom = "bad severity"))
    <2> DEFINE Ran(commands, expect, n) == From("custom", {CustomStatus(commands[k], expect) : k \in 1 .. n})
    <2>1. PICK commands \in [1 .. 2 -> Commands], expect \in {0, 1} :
            \/ /\ findings' = findings \cup Ran(commands, expect, 2)
               /\ made' = made \cup Ran(commands, expect, 2)
            \/ /\ call.custom = "bad severity" /\ UNCHANGED findings
               /\ made' = made \cup Ran(commands, expect, 1)
            \/ UNCHANGED <<findings, made>>
        BY Zenon DEF CustomControls
    <2>2. /\ Ran(commands, expect, 1) \in SUBSET From("custom", {"pass", "fail", "error"})
          /\ Ran(commands, expect, 2) \in SUBSET From("custom", {"pass", "fail", "error"})
        BY DEF From, CustomStatus
    <2> HIDE DEF Ran
    <2>3. CASE UNCHANGED <<findings, made>>
        <3>1. made' = made \cup {} /\ findings' = findings \cup {}
            BY <2>3
        <3> QED
            BY <3>1
    <2>4. CASE findings' = findings \cup Ran(commands, expect, 2) /\ made' = made \cup Ran(commands, expect, 2)
        BY <2>2, <2>4
    <2>5. CASE /\ call.custom = "bad severity" /\ UNCHANGED findings
               /\ made' = made \cup Ran(commands, expect, 1)
        BY <2>2, <2>5
    <2> QED
        BY <2>1, <2>3, <2>4, <2>5
<1>3. \A f \in more : f.status \in Statuses /\ f.from = "custom"
    BY DEF From, Statuses
<1>4. DataInv'
    BY <1>1, <1>2, <1>3
<1>5. KeepInv'
    <2>1. Kept(findings) /\ Represented(findings)
        BY <1>1 DEF KeepInv
    <2>2. Represented(findings)'
        <3>1. findings \subseteq findings'
            BY <1>2
        <3>2. ASSUME NEW p \in broken' PROVE \E f \in findings' : f.from = p /\ f.status = "error"
            <4>1. PICK f \in findings : f.from = p /\ f.status = "error"
                BY <1>1, <2>1, <3>2 DEF Represented
            <4> QED
                BY <3>1, <4>1
        <3> QED
            BY <3>2 DEF Represented
    <2>3. Kept(findings)'
        BY <1>1, <1>2, <1>3, <2>1 DEF Kept, Waived
    <2> QED
        BY <1>1, <2>2, <2>3 DEF KeepInv
<1> QED
    BY <1>1, <1>4, <1>5 DEF ExitTellsTruth

LEMMA NothingWaived == ASSUME NEW fs, Matched(fs) = {} PROVE ApplyWaivers(fs) = fs
<1> DEFINE Waive(f) == IF call.waivers = "active" /\ f \in Matched(fs) THEN [f EXCEPT !.status = "SKIP"] ELSE f
<1>1. \A f : Waive(f) = f
    OBVIOUS
<1> HIDE DEF Waive
<1>2. {Waive(f) : f \in fs} = fs
    BY <1>1
<1>3. ApplyWaivers(fs) = fs \/ ApplyWaivers(fs) = {Waive(f) : f \in fs}
    BY DEF ApplyWaivers, Waive
<1> QED
    BY <1>2, <1>3

LEMMA WaiverSteps == ASSUME SInv, Waivers PROVE DataInv' /\ KeepInv' /\ ExitTellsTruth'
<1> USE DEF SInv, DataInv
<1>1. /\ UNCHANGED <<call, made, loaded, broken, report, reported, written, exit, faults>>
      /\ pc = "waivers" /\ pc' = "report" /\ report = "none" /\ reported = {}
      /\ findings' = ApplyWaivers(findings)
    BY DEF Waivers, KeepInv, Early
<1>2. Matched(findings) = {}
    BY DEF Matched, Statuses
<1>3. ApplyWaivers(findings) = findings
    BY <1>2, NothingWaived
<1>4. DataInv'
    BY <1>1, <1>3
<1>5. KeepInv'
    <2>1. findings' = findings
        BY <1>1, <1>3
    <2>2. Kept(findings) /\ Represented(findings)
        BY <1>1 DEF KeepInv
    <2>3. Represented(findings)'
        BY <1>1, <2>1, <2>2 DEF Represented
    <2>4. Kept(findings)'
        BY <1>1, <2>1, <2>2 DEF Kept, Waived
    <2> QED
        BY <1>1, <2>3, <2>4 DEF KeepInv
<1> QED
    BY <1>1, <1>4, <1>5 DEF ExitTellsTruth

LEMMA ReportSteps ==
    ASSUME SInv, WriteReport PROVE DataInv' /\ KeepInv' /\ FilesInv' /\ ExitTellsTruth'
<1> USE DEF SInv, DataInv
<1>1. /\ UNCHANGED <<call, findings, made, loaded, broken, written>>
      /\ pc = "report" /\ report = "none" /\ reported = {} /\ Kept(findings) /\ Represented(findings)
    BY DEF WriteReport, KeepInv, Early
<1>2. CASE /\ report' = "full" /\ reported' = findings /\ UNCHANGED <<exit, faults>>
           /\ pc' = After("report")
    <2>1. pc' \in {"compliance", "dashboard", "notify", "change", "plan", "code"}
        BY <1>2, AfterIsLater
    <2>2. DataInv' /\ KeepInv'
        BY <1>1, <1>2, <2>1 DEF KeepInv, Kept, Represented, Waived, Early
    <2>3. FilesInv'
        <3>1. WrittenBefore(1) /\ pc' = After(Stages[1]) /\ Stages[1] \notin Files
            BY <1>2, StageFacts DEF WrittenBefore, Files
        <3> QED
            BY <1>1, <3>1, OnToNextStage
    <2> QED
        BY <2>1, <2>2, <2>3 DEF ExitTellsTruth
<1>3. CASE /\ faults < MaxFaults /\ faults' = faults + 1 /\ report' \in {"none", "partial"}
           /\ pc' = "exit" /\ exit' = "1" /\ UNCHANGED reported
    <2>1. DataInv' /\ KeepInv'
        BY <1>1, <1>3, CliAssumption DEF KeepInv, Early
    <2>2. ExitTellsTruth'
        BY <1>3, CliAssumption DEF ExitTellsTruth
    <2> QED
        BY <1>3, <2>1, <2>2, NoFilesYet
<1> QED
    BY <1>2, <1>3 DEF WriteReport, Exit

LEMMA FileSteps ==
    ASSUME SInv, NEW file \in Files, WriteFile(file)
    PROVE  DataInv' /\ KeepInv' /\ FilesInv' /\ ExitTellsTruth'
<1> USE DEF SInv, DataInv
<1>1. UNCHANGED <<call, findings, made, loaded, broken, report, reported>> /\ pc = file
    BY DEF WriteFile
<1>2. PICK k \in 1 .. 6 : file = Stages[k]
    BY StageFacts DEF Files
<1>3. CASE pc' = After(file) /\ written' = written \cup {file} /\ UNCHANGED <<exit, faults>>
    <2>1. pc' \in {"compliance", "dashboard", "notify", "change", "plan", "code"}
        BY <1>3, AfterIsLater DEF Files
    <2>2. DataInv'
        BY <1>1, <1>3
    <2>3. KeepInv'
        BY <1>1, <2>1 DEF KeepInv, Kept, Represented, Waived, Early
    <2>4. WrittenBefore(k)
        BY <1>1, <1>2 DEF FilesInv
    <2>5. FilesInv'
        BY <1>1, <1>2, <1>3, <2>4, OnToNextStage
    <2> QED
        BY <2>1, <2>2, <2>3, <2>5 DEF ExitTellsTruth
<1>4. CASE /\ faults < MaxFaults /\ faults' = faults + 1 /\ pc' = "exit" /\ exit' = "1"
           /\ UNCHANGED written
    <2>1. DataInv' /\ ExitTellsTruth'
        BY <1>1, <1>4, CliAssumption DEF ExitTellsTruth
    <2>2. KeepInv'
        BY <1>1, <1>4 DEF KeepInv, Kept, Represented, Waived, Early
    <2> QED
        BY <1>4, <2>1, <2>2, NoFilesYet
<1> QED
    BY <1>3, <1>4 DEF WriteFile, Exit

LEMMA NotifySteps ==
    ASSUME SInv, StartNotify \/ Alerting \/ EndNotify
    PROVE  DataInv' /\ KeepInv' /\ FilesInv' /\ ExitTellsTruth'
<1> USE DEF SInv, DataInv
<1>1. /\ UNCHANGED <<call, findings, made, loaded, broken, report, reported, written, exit, faults>>
      /\ pc \in {"notify", "alerting"} /\ WrittenBefore(4)
    <2>1. pc \in {"notify", "alerting"}
        BY DEF StartNotify, Alerting, EndNotify
    <2>2. WrittenBefore(4)
        BY <2>1, StageFacts DEF FilesInv
    <2> QED
        BY <2>1, <2>2 DEF StartNotify, Alerting, EndNotify, cliVars
<1>2. pc' = "alerting" \/ pc' = After("notify")
    BY DEF StartNotify, Alerting, EndNotify, cliVars
<1>3. pc' \in {"alerting", "change", "plan", "code"}
    BY <1>2, AfterNotify
<1>4. DataInv' /\ KeepInv' /\ ExitTellsTruth'
    BY <1>1, <1>3 DEF KeepInv, Kept, Represented, Waived, Early, ExitTellsTruth
<1>5. CASE pc' = "alerting"
    <2>1. WrittenBefore(4)'
        BY <1>1, AskedStays DEF WrittenBefore
    <2>2. \A k \in 1 .. 7 : pc' # Stages[k]
        BY <1>5 DEF Stages
    <2> QED
        BY <1>4, <2>1, <2>2 DEF FilesInv
<1>6. CASE pc' = After("notify")
    <2>1. pc' = After(Stages[4]) /\ Stages[4] \notin Files
        BY <1>6, StageFacts DEF Files
    <2> QED
        BY <1>1, <1>4, <2>1, OnToNextStage
<1> QED
    BY <1>2, <1>5, <1>6

LEMMA FinishSteps == ASSUME SInv, Finish PROVE DataInv' /\ KeepInv' /\ FilesInv' /\ ExitTellsTruth'
<1> USE DEF SInv, DataInv
<1>1. /\ UNCHANGED <<call, findings, made, loaded, broken, report, reported, written, faults>>
      /\ pc = "code" /\ pc' = "exit" /\ exit' = ExitCode(findings)
    BY DEF Finish, Exit
<1>2. report = "full" /\ reported = findings
    BY <1>1 DEF IInv, MainInv, Early
<1>3. \A file \in Files : Asked(file) => file \in written
    <2>1. WrittenBefore(7)
        BY <1>1, StageFacts DEF FilesInv
    <2>2. \A file \in Files : \E j \in 1 .. 6 : file = Stages[j]
        BY StageFacts DEF Files
    <2> QED
        BY <2>1, <2>2 DEF WrittenBefore
<1>4. DataInv' /\ KeepInv'
    BY <1>1 DEF ExitCode, KeepInv, Kept, Represented, Waived, Early
<1>5. \A file \in Files : Asked(file)' => file \in written'
    BY <1>1, <1>3, AskedStays
<1>6. ExitTellsTruth'
    <2>1. \A s : HasStatus(reported, s)' <=> HasStatus(findings, s)
        BY <1>1, <1>2 DEF HasStatus
    <2> QED
        BY <1>1, <1>2, <1>5, <2>1 DEF ExitTellsTruth, ExitCode
<1> QED
    BY <1>1, <1>4, <1>6, NoFilesYet
-----------------------------------------------------------------------------
USE SinkFacts

\* A sink that is done with leaves to the next one no attempt, no pause and no
\* copy.
LEMMA OnwardBounds ==
    ASSUME NEW sink, sink = Sinks[turn], HookInv, step \in {"validate", "post"}, Onward,
           \A s \in SinkSet : copies'[s] \in 0 .. 4 /\ excuses'[s] \in 0 .. 3,
           \A s \in SinkSet \ {sink} : copies'[s] = copies[s]
    PROVE  BoundInv'
<1> USE DEF HookInv, HookTypes
<1>1. turn \in 1 .. 3 /\ turn' = turn + 1 /\ attempt' = 0 /\ slept' = 0
    BY DEF Onward, Ahead
<1>2. slept' = Pause[attempt' + 1]
    BY <1>1 DEF Pause
<1>3. ASSUME step' = "validate" PROVE copies'[Sinks[turn']] = 0
    <2>1. turn + 1 \in 1 .. 3
        BY <1>1, <1>3 DEF Onward
    <2>2. copies[Sinks[turn + 1]] = 0
        BY <1>1, <2>1 DEF Ahead
    <2>3. Sinks[turn + 1] \in SinkSet \ {sink}
        BY <1>1, <2>1
    <2> QED
        BY <1>1, <2>2, <2>3
<1>4. step' # "post"
    BY DEF Onward
<1> QED
    BY <1>1, <1>2, <1>3, <1>4 DEF BoundInv

LEMMA AlertingBounds == ASSUME HookInv, BoundInv, HookStep PROVE BoundInv'
<1> USE DEF HookInv, HookTypes
<1> DEFINE sink == Sinks[turn]
<1>0. step \in {"validate", "post"} /\ turn \in 1 .. 3 /\ sink \in SinkSet
    <2>1. step \in {"validate", "post"}
        BY DEF HookStep, Skip, Validate, Invalid, Unresolved, Delivered, PostFails
    <2> QED
        BY <2>1 DEF Ahead
<1>1. \A s \in SinkSet : copies[s] \in 0 .. 4 /\ excuses[s] \in 0 .. 3
    BY DEF BoundInv
<1>2. copies[sink] <= attempt /\ excuses[sink] = attempt
    BY <1>0 DEF BoundInv, Ahead
<1>3. CASE Skip \/ Invalid \/ Unresolved
    <2>1. Onward /\ UNCHANGED <<copies, excuses>>
        BY <1>3 DEF Skip, Invalid, Unresolved, Failed
    <2> QED
        BY <1>0, <1>1, <2>1, OnwardBounds
<1>4. CASE Validate
    BY <1>0, <1>1, <1>2, <1>4 DEF Validate, BoundInv, Pause
<1>5. CASE Delivered
    <2>1. Onward /\ copies' = [copies EXCEPT ![sink] = @ + 1] /\ UNCHANGED excuses
        BY <1>5 DEF Delivered, Sink
    <2>2. \A s \in SinkSet : copies'[s] \in 0 .. 4 /\ excuses'[s] \in 0 .. 3
        BY <1>0, <1>1, <1>2, <2>1
    <2>3. \A s \in SinkSet \ {sink} : copies'[s] = copies[s]
        BY <2>1
    <2> QED
        BY <1>0, <2>1, <2>2, <2>3, OnwardBounds
<1>6. CASE PostFails
    <2>1. PICK error \in Outcomes(sink), n \in 0 .. 1 :
            /\ copies' = [copies EXCEPT ![sink] = @ + n]
            /\ IF attempt < MaxRetries /\ Retriable(error)
               THEN /\ excuses' = [excuses EXCEPT ![sink] = @ + (IF error \in AsksAgain THEN 1 ELSE 0)]
                    /\ slept' = slept + Delay
                    /\ attempt' = attempt + 1
                    /\ UNCHANGED <<step, turn, settled>>
               ELSE Failed /\ UNCHANGED excuses
        BY <1>6 DEF PostFails, Sink
    <2>2. /\ \A s \in SinkSet : copies'[s] \in 0 .. 4
          /\ copies'[sink] <= attempt + 1
          /\ \A s \in SinkSet \ {sink} : copies'[s] = copies[s]
        BY <1>0, <1>1, <1>2, <2>1
    <2>3. CASE ~(attempt < MaxRetries /\ Retriable(error))
        <3>1. Onward /\ UNCHANGED excuses
            BY <2>1, <2>3 DEF Failed
        <3> QED
            BY <1>0, <1>1, <2>2, <3>1, OnwardBounds
    <2>4. CASE attempt < MaxRetries /\ Retriable(error)
        <3>1. /\ excuses' = [excuses EXCEPT ![sink] = @ + 1]
              /\ slept' = slept + Delay
              /\ attempt' = attempt + 1 /\ attempt \in 0 .. 2
              /\ UNCHANGED <<step, turn>>
            BY <2>1, <2>4 DEF Retriable, MaxRetries
        <3>2. \A s \in SinkSet : excuses'[s] \in 0 .. 3
            BY <1>0, <1>1, <1>2, <3>1
        <3>3. slept = Pause[attempt + 1]
            BY DEF BoundInv
        <3>4. slept' = Pause[attempt' + 1]
            <4>1. CASE attempt = 0
                BY <3>1, <3>3, <4>1 DEF Delay, Pause
            <4>2. CASE attempt = 1
                BY <3>1, <3>3, <4>2 DEF Delay, Pause
            <4>3. CASE attempt = 2
                <5>1. 2 ^ 2 = 4
                    OBVIOUS
                <5> QED
                    BY <3>1, <3>3, <4>3, <5>1 DEF Delay, Pause
            <4> QED
                BY <3>1, <4>1, <4>2, <4>3
        <3> QED
            BY <1>0, <2>2, <3>1, <3>2, <3>4 DEF BoundInv
    <2> QED
        BY <2>3, <2>4
<1> QED
    BY <1>3, <1>4, <1>5, <1>6 DEF HookStep

LEMMA StepBounds == ASSUME SInv, Next PROVE BoundInv'
<1>1. IInv /\ HookInv /\ HookTypes /\ BoundInv
    BY DEF SInv, IInv, HookInv
<1>2. CASE Alerting
    BY <1>1, <1>2, AlertingBounds DEF Alerting
<1>3. CASE StartNotify
    <2>1. step = "idle"
        BY <1>1, <1>3 DEF StartNotify, IInv, MainInv, Late
    <2>2. UNCHANGED <<turn, attempt, copies, excuses, slept>>
        BY <1>3 DEF StartNotify, Notify, hookVars
    <2>3. turn = 1 /\ attempt = 0 /\ copies[Sinks[1]] = 0
        BY <1>1, <2>1 DEF HookInv, Untouched
    <2> QED
        BY <1>1, <2>2, <2>3 DEF BoundInv
<1>4. CASE \/ OtherCommand \/ Refuse \/ AuditOne \/ LoadAll \/ RunAll \/ RunAllTimesOut
           \/ CustomControls \/ Waivers \/ WriteReport \/ EndNotify \/ Finish
           \/ \E file \in Files : WriteFile(file)
    <2>1. UNCHANGED hookVars
        BY <1>4 DEF OtherCommand, Refuse, AuditOne, LoadAll, RunAll, RunAllTimesOut, CustomControls,
                    Waivers, WriteReport, EndNotify, Finish, WriteFile
    <2> QED
        BY <1>1, <2>1, BoundUnchanged
<1> QED
    BY <1>2, <1>3, <1>4 DEF Next
-----------------------------------------------------------------------------
LEMMA SessionStep == ASSUME SInv, [Next]_vars PROVE SInv'
<1>1. IInv'
    BY StepKeeps DEF SInv
<1>2. CASE UNCHANGED vars
    <2>1. /\ UNCHANGED <<call, pc, findings, made, loaded, broken, report, reported, written, exit, faults>>
          /\ UNCHANGED hookVars
        BY <1>2 DEF vars, cliVars
    <2>2. DataInv' /\ KeepInv'
        BY <2>1 DEF SInv, DataInv, KeepInv, Kept, Represented, Waived
    <2>3. FilesInv'
        BY <2>1, AskedStays DEF SInv, FilesInv, WrittenBefore
    <2>4. ExitTellsTruth'
        BY <2>1, AskedStays DEF SInv, ExitTellsTruth, HasStatus, Audits
    <2> QED
        BY <1>1, <2>1, <2>2, <2>3, <2>4, BoundUnchanged DEF SInv
<1>3. CASE Next
    <2>1. BoundInv'
        BY <1>3, StepBounds
    <2>2. CASE OtherCommand \/ Refuse \/ AuditOne \/ LoadAll \/ RunAll \/ RunAllTimesOut
               \/ CustomControls \/ Waivers
        <3>1. pc' \in {"run", "custom", "waivers", "report", "exit"}
            BY <2>2 DEF OtherCommand, Refuse, AuditOne, LoadAll, RunAll, RunAllTimesOut,
                        CustomControls, Waivers, Exit
        <3> QED
            BY <1>1, <2>1, <2>2, <3>1, NoFilesYet, RefusingSteps, AuditSteps, CustomSteps, WaiverSteps
            DEF SInv
    <2>3. CASE WriteReport \/ Finish \/ \E file \in Files : WriteFile(file)
        BY <1>1, <2>1, <2>3, ReportSteps, FinishSteps, FileSteps DEF SInv
    <2>4. CASE StartNotify \/ Alerting \/ EndNotify
        BY <1>1, <2>1, <2>4, NotifySteps DEF SInv
    <2> QED
        BY <1>3, <2>2, <2>3, <2>4 DEF Next
<1> QED
    BY <1>2, <1>3

\* The stage-by-stage invariant of the session holds throughout.
THEOREM SessionInvariance == Spec => []SInv
<1>1. Init => SInv
    BY InitSession
<1>2. SInv /\ [Next]_vars => SInv'
    BY SessionStep
<1> QED
    BY <1>1, <1>2, PTL DEF Spec

\* TypeOK: the variables keep their types, and back-off its bound.
THEOREM TypeCorrect == Spec => []TypeOK
<1>1. SInv => TypeOK
    <2> SUFFICES ASSUME SInv PROVE TypeOK
        OBVIOUS
    <2>1. HookTypes /\ BoundInv /\ DataInv /\ MainInv
        BY DEF SInv, IInv, HookInv
    <2>2. slept \in {0, 2, 6, 14}
        BY <2>1 DEF HookTypes, BoundInv, Pause
    <2>3. copies \in [SinkSet -> 0 .. 4] /\ excuses \in [SinkSet -> 0 .. 3]
        BY <2>1 DEF HookTypes, BoundInv
    <2>4. HookTypeOK
        BY <2>1, <2>2, <2>3 DEF HookTypes, HookTypeOK, MaxRetries
    <2> QED
        BY <2>1, <2>4 DEF DataInv, MainInv, Early, Files3, Late, TypeOK
<1> QED
    BY <1>1, SessionInvariance, PTL

\* ExitTellsTruth: what calls the program can rely on its exit code.
THEOREM ExitTruthHolds == Spec => []ExitTellsTruth
<1>1. SInv => ExitTellsTruth
    BY DEF SInv
<1> QED
    BY <1>1, SessionInvariance, PTL

\* NothingHidden: no later step hides a failure, or drops a provider whose audit
\* raised.
THEOREM NothingHiddenHolds == Spec => []NothingHidden
<1>1. SInv => NothingHidden
    BY DEF SInv, KeepInv, Kept, Represented, Waived, NothingHidden
<1> QED
    BY <1>1, SessionInvariance, PTL
-----------------------------------------------------------------------------
\* Every step of a run brings it nearer to its end.
Places == Early \cup Files3 \cup Late

LEMMA StageRanks ==
    /\ \A p \in Places : StagesLeft[p] \in 0 .. 11
    /\ StagesLeft["arguments"] = 11 /\ StagesLeft["run"] = 10 /\ StagesLeft["custom"] = 10
    /\ StagesLeft["waivers"] = 9 /\ StagesLeft["report"] = 8 /\ StagesLeft["compliance"] = 7
    /\ StagesLeft["dashboard"] = 6 /\ StagesLeft["notify"] = 5 /\ StagesLeft["alerting"] = 4
    /\ StagesLeft["change"] = 3 /\ StagesLeft["plan"] = 2 /\ StagesLeft["code"] = 1
    /\ StagesLeft["exit"] = 0
<1>1. /\ StagesLeft["arguments"] = 11 /\ StagesLeft["run"] = 10 /\ StagesLeft["custom"] = 10
      /\ StagesLeft["waivers"] = 9 /\ StagesLeft["report"] = 8 /\ StagesLeft["compliance"] = 7
      /\ StagesLeft["dashboard"] = 6 /\ StagesLeft["notify"] = 5 /\ StagesLeft["alerting"] = 4
      /\ StagesLeft["change"] = 3 /\ StagesLeft["plan"] = 2 /\ StagesLeft["code"] = 1
      /\ StagesLeft["exit"] = 0
    BY DEF StagesLeft
<1> QED
    BY <1>1 DEF Places, Early, Files3, Late

LEMMA StageNumbers ==
    /\ \A k \in 1 .. 3 : StagesLeft[Stages[k]] = 9 - k
    /\ StagesLeft[Stages[4]] = 5 /\ \A k \in 5 .. 7 : StagesLeft[Stages[k]] = 8 - k
BY StageRanks, StageFacts

LEMMA AfterDescends ==
    ASSUME NEW stage \in {"report", "compliance", "dashboard", "notify", "change", "plan"}
    PROVE  /\ After(stage) \in Places \ {"alerting"}
           /\ StagesLeft[After(stage)] < StagesLeft[stage]
<1>1. PICK k \in 1 .. 6 : stage = Stages[k]
    BY StageFacts
<1>2. PICK m \in k + 1 .. 7 : After(Stages[k]) = Stages[m]
    BY AfterSkips
<1>3. StagesLeft[Stages[m]] < StagesLeft[Stages[k]]
    BY StageNumbers
<1>4. After(stage) \in Places \ {"alerting"}
    BY AfterIsLater DEF Places, Files3, Late
<1> QED
    BY <1>1, <1>2, <1>3, <1>4

LEMMA AlertNumbers == ASSUME HookInv PROVE HookLeft \in 0 .. 15
<1>1. turn \in 1 .. 4 /\ attempt \in 0 .. 3 /\ step \in {"idle", "validate", "post", "ended"}
    BY DEF HookInv, HookTypes
<1>2. turn \in 1 .. 3 \/ step = "ended"
    BY <1>1 DEF HookInv, Untouched, Ahead
<1>3. CASE step = "ended"
    BY <1>3 DEF HookLeft
<1>4. CASE step = "post"
    BY <1>1, <1>2, <1>4 DEF HookLeft, PerSink, MaxRetries
<1>5. CASE step \notin {"post", "ended"}
    BY <1>1, <1>2, <1>5 DEF HookLeft, PerSink, MaxRetries
<1> QED
    BY <1>3, <1>4, <1>5

\* A sink that is done with has used up its share of the steps.
LEMMA OnwardDescends ==
    ASSUME HookInv, step \in {"validate", "post"}, Onward PROVE HookLeft' < HookLeft
<1>1. turn \in 1 .. 3 /\ attempt \in 0 .. 3 /\ turn' = turn + 1
    BY DEF HookInv, HookTypes, Ahead, Onward
<1>2. HookLeft > 5 * (3 - turn)
    <2>1. CASE step = "validate"
        BY <1>1, <2>1 DEF HookLeft, PerSink, MaxRetries
    <2>2. CASE step = "post"
        BY <1>1, <2>2 DEF HookLeft, PerSink, MaxRetries
    <2> QED
        BY <2>1, <2>2
<1>3. CASE turn = 3
    <2>1. HookLeft' = 0
        BY <1>3 DEF Onward, HookLeft
    <2> QED
        BY <1>2, <1>3, <2>1
<1>4. CASE turn \in 1 .. 2
    <2>1. step' = "validate"
        BY <1>4 DEF Onward
    <2>2. HookLeft' = 5 * (3 - turn') + 5
        BY <2>1 DEF HookLeft, PerSink, MaxRetries
    <2>3. 5 * (3 - turn') + 5 = 5 * (3 - turn)
        BY <1>1
    <2>4. HookLeft \in Nat
        BY AlertNumbers
    <2> QED
        BY <1>2, <1>4, <2>2, <2>3, <2>4
<1> QED
    BY <1>1, <1>3, <1>4

LEMMA HookStepDescends == ASSUME HookInv, HookStep PROVE HookLeft' < HookLeft
<1>0. step \in {"validate", "post"} /\ turn \in 1 .. 3 /\ attempt \in 0 .. 3
    <2>1. step \in {"validate", "post"}
        BY DEF HookStep, Skip, Validate, Invalid, Unresolved, Delivered, PostFails
    <2> QED
        BY <2>1 DEF HookInv, HookTypes, Ahead
<1>1. CASE Skip \/ Invalid \/ Unresolved \/ Delivered
    <2>1. Onward
        BY <1>1 DEF Skip, Invalid, Unresolved, Delivered, Failed
    <2> QED
        BY <1>0, <2>1, OnwardDescends
<1>2. CASE Validate
    <2>1. step = "validate" /\ step' = "post" /\ turn' = turn /\ attempt' = attempt
        BY <1>2 DEF Validate
    <2>2. HookLeft = 5 * (3 - turn) + 5
        BY <2>1 DEF HookLeft, PerSink, MaxRetries
    <2>3. HookLeft' = 5 * (3 - turn) + (4 - attempt)
        BY <1>0, <2>1 DEF HookLeft, PerSink, MaxRetries
    <2> QED
        BY <1>0, <2>2, <2>3
<1>3. CASE PostFails
    <2>1. CASE Onward
        BY <1>0, <2>1, OnwardDescends
    <2>2. CASE attempt' = attempt + 1 /\ UNCHANGED <<step, turn>>
        <3>1. step = "post" /\ step' = "post"
            BY <1>3, <2>2 DEF PostFails
        <3>2. HookLeft = 5 * (3 - turn) + (4 - attempt)
            BY <1>0, <3>1 DEF HookLeft, PerSink, MaxRetries
        <3>3. HookLeft' = 5 * (3 - turn) + (4 - (attempt + 1))
            BY <2>2, <3>1 DEF HookLeft, PerSink, MaxRetries
        <3> QED
            BY <1>0, <3>2, <3>3
    <2> QED
        BY <1>3, <2>1, <2>2 DEF PostFails, Failed
<1> QED
    BY <1>1, <1>2, <1>3 DEF HookStep

\* From any place but the alert, to one further on.
LEMMA MainDescends ==
    ASSUME HookInv, pc \in Places, pc' \in Places \ {"alerting"}, StagesLeft[pc'] < StagesLeft[pc]
    PROVE  Left' < Left
<1>1. StagesLeft[pc] \in 0 .. 11 /\ StagesLeft[pc'] \in 0 .. 11
    BY StageRanks
<1>2. AlertLeft' = IF StagesLeft[pc'] > 4 THEN 15 ELSE 0
    BY StageRanks DEF AlertLeft, PerSink, MaxRetries
<1>3. AlertLeft \in Nat /\ (StagesLeft[pc'] > 4 => AlertLeft = 15)
    <2>1. CASE pc = "alerting"
        BY <1>1, <2>1, StageRanks, AlertNumbers DEF AlertLeft
    <2>2. CASE pc # "alerting"
        BY <1>1, <2>2, StageRanks DEF AlertLeft, PerSink, MaxRetries
    <2> QED
        BY <2>1, <2>2
<1>4. Left' = StagesLeft[pc'] + AlertLeft' /\ Left = StagesLeft[pc] + AlertLeft
    BY DEF Left
<1> QED
    BY <1>1, <1>2, <1>3, <1>4

\* Into the alert and through it.
LEMMA AlertDescends ==
    ASSUME IInv, HookInv', StartNotify \/ Alerting, pc' = "alerting" PROVE Left' < Left
<1>1. HookInv
    BY DEF IInv
<1>2. PICK n \in 0 .. 15 : n = HookLeft'
    <2>1. (HookLeft \in 0 .. 15)'
        BY AlertNumbers, PTL
    <2> QED
        BY <2>1
<1>3. PICK m \in 0 .. 15 : m = HookLeft
    BY <1>1, AlertNumbers
<1>4. Left' = 4 + n
    BY <1>2, StageRanks DEF Left, AlertLeft
<1>5. CASE StartNotify
    <2>1. Left = 20
        BY <1>5, StageRanks DEF StartNotify, Left, AlertLeft, PerSink, MaxRetries
    <2>2. 4 + n < 20
        OBVIOUS
    <2> QED
        BY <1>4, <2>1, <2>2
<1>6. CASE Alerting
    <2>1. Left = 4 + m
        BY <1>3, <1>6, StageRanks DEF Alerting, Left, AlertLeft, cliVars
    <2>2. n < m
        BY <1>1, <1>2, <1>3, <1>6, HookStepDescends DEF Alerting
    <2>3. 4 + n < 4 + m
        BY <2>2
    <2> QED
        BY <1>4, <2>1, <2>3
<1> QED
    BY <1>5, <1>6

LEMMA StepDescends == ASSUME IInv, IInv', Next PROVE Left' < Left
<1>1. HookInv /\ HookInv' /\ pc \in Places
    BY DEF IInv, MainInv, Places
<1>2. CASE OtherCommand \/ Refuse \/ AuditOne \/ LoadAll
    <2>1. pc = "arguments" /\ pc' \in {"run", "custom", "exit"}
        BY <1>2 DEF OtherCommand, Refuse, AuditOne, LoadAll, Exit
    <2> QED
        BY <1>1, <2>1, StageRanks, MainDescends DEF Places, Early, Late
<1>3. CASE RunAll \/ RunAllTimesOut \/ CustomControls \/ Waivers
    <2>1. \/ pc = "run" /\ pc' \in {"report", "exit"}
          \/ pc = "custom" /\ pc' = "waivers"
          \/ pc = "waivers" /\ pc' = "report"
        BY <1>3 DEF RunAll, RunAllTimesOut, CustomControls, Waivers, Exit
    <2> QED
        BY <1>1, <2>1, StageRanks, MainDescends DEF Places, Early, Late
<1>4. CASE WriteReport \/ Finish \/ \E file \in Files : WriteFile(file)
    <2>1. \/ pc \in {"report"} \cup Files /\ pc' \in {After(pc), "exit"}
          \/ pc = "code" /\ pc' = "exit"
        BY <1>4 DEF WriteReport, Finish, WriteFile, Exit
    <2>2. CASE pc' = "exit" /\ pc # "exit"
        BY <1>1, <2>1, <2>2, StageRanks, MainDescends DEF Places, Early, Late, Files
    <2>3. CASE pc \in {"report"} \cup Files /\ pc' = After(pc)
        BY <1>1, <2>3, AfterDescends, MainDescends DEF Files
    <2> QED
        BY <2>1, <2>2, <2>3 DEF Files
<1>5. CASE StartNotify \/ Alerting \/ EndNotify
    <2>1. CASE pc' = "alerting" /\ ~EndNotify
        BY <1>1, <1>5, <2>1, AlertDescends
    <2>2. CASE pc \in {"notify", "alerting"} /\ pc' = After("notify")
        <3>1. pc' \in Places \ {"alerting"} /\ StagesLeft[pc'] < 4
            BY <2>2, AfterNotify, StageRanks DEF Places, Late
        <3> QED
            BY <1>1, <2>2, <3>1, StageRanks, MainDescends
    <2> QED
        BY <1>5, <2>1, <2>2, AfterNotify DEF StartNotify, Alerting, EndNotify, cliVars
<1> QED
    BY <1>2, <1>3, <1>4, <1>5 DEF Next

\* NearsItsEnd: whatever webhooks, files and providers do, a run of the program
\* takes at most 26 steps.
THEOREM NearsItsEndHolds == Spec => NearsItsEnd
<1>1. Init => Left = 26
    BY StageRanks DEF Init, Left, AlertLeft, PerSink, MaxRetries
<1>2. IInv /\ IInv' /\ [Next]_vars => [Left' < Left]_vars
    BY StepDescends
<1> QED
    BY <1>1, <1>2, Invariance, PTL DEF Spec, NearsItsEnd
=============================================================================
