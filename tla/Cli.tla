-------------------------------- MODULE Cli --------------------------------
(***************************************************************************)
(* main (cloud/main.py): the guards on the arguments, the audit of one     *)
(* provider or of `all', the custom controls (cloud/custom_controls.py),   *)
(* the waivers (cloud/exceptions.py), the report, the files that go with   *)
(* it, the alert (Webhooks) and the exit code.  What an audit finds is     *)
(* left open here: ProviderAudit and AwsRemediation say what it may be.    *)
(* An exception that nobody catches ends the process with exit code 1.     *)
(* Definitions marked `mutant' are wrong variants of the definition after  *)
(* them, kept to show that the properties notice the difference.           *)
(***************************************************************************)
EXTENDS Webhooks, FiniteSetsExt

CONSTANTS
    Calls,      \* the command lines
    Results,    \* what the audit of one provider may find: sets of statuses
    MaxFaults   \* writes that fail, modules that break, runs cut off by a timeout

ASSUME CliAssumption ==
    /\ MaxFaults \in Nat
    /\ \A c \in Calls : c.notify.sinks \in [SinkSet -> SinkKinds]
    /\ Results \subseteq SUBSET {"pass", "fail", "error", "manual"}

VARIABLES
    call,       \* the command line
    pc,         \* where main is
    findings,   \* the list `findings', as the set of its members
    made,       \* every finding made on the way
    loaded,     \* providers of `all' that could be loaded
    broken,     \* history: providers of `all' whose audit raised
    report,     \* "none", "partial" or "full"
    reported,   \* the findings in the report
    written,    \* the other files of this run that are complete
    exit,       \* the exit code, "none" while main runs
    faults

cliVars == <<call, pc, findings, made, loaded, broken, report, reported, written, exit, faults>>
vars == <<cliVars, hookVars>>

Init ==
    /\ call \in Calls
    /\ pc = "arguments"
    /\ findings = {} /\ made = {} /\ loaded = {} /\ broken = {}
    /\ report = "none" /\ reported = {} /\ written = {}
    /\ exit = "none"
    /\ faults = 0
    /\ HookInit

Statuses == {"pass", "fail", "error", "manual"}
From(who, statuses) == {[from |-> who, status |-> s] : s \in statuses}
HasStatus(fs, s) == \E f \in fs : f.status = s
Exit(code) == exit' = code /\ pc' = "exit"
-----------------------------------------------------------------------------
\* The commands that audit nothing: policy validate, the agent (module Agent)
\* and the playbook, which is written from a manifest.
OtherCommand ==
    /\ pc = "arguments"
    /\ \/ /\ call.provider = "policy"
          /\ Exit(IF call.action /\ call.policy = "good" THEN "0" ELSE "2")
          /\ UNCHANGED <<written, faults>>
       \/ /\ call.provider # "policy" /\ call.action
          /\ Exit("2")
          /\ UNCHANGED <<written, faults>>
       \/ /\ call.provider # "policy" /\ ~call.action /\ call.playbook
          /\ \/ Exit("0") /\ written' = {"playbook"} /\ UNCHANGED faults
             \/ faults < MaxFaults /\ faults' = faults + 1 /\ Exit("1") /\ UNCHANGED written
    /\ UNCHANGED <<call, findings, made, loaded, broken, report, reported, hookVars>>

Audits == call.provider # "policy" /\ ~call.action /\ ~call.playbook

\* The guards, in their order.
Refused ==
    \/ call.mode \in {"apply", "rollback"} /\ ~call.yes
    \/ call.change /\ call.mode # "apply"
    \/ call.plan /\ call.mode # "plan"
    \/ (call.mode = "rollback") # call.rollback
    \/ call.mode = "rollback" /\ call.provider # "aws"
    \/ call.mode = "apply" /\ call.provider \in {"azure", "gcp"}
    \/ call.provider = "all" /\ call.mode \in {"apply", "rollback"}

Refuse ==
    /\ pc = "arguments" /\ Audits
    /\ Refused
    /\ Exit("2")
    /\ UNCHANGED <<call, findings, made, loaded, broken, report, reported, written, faults, hookVars>>

\* --control names a control of one provider, or of none.
Concerns(p) == call.control \in {"none", p}

\* One provider or a rollback: the policy, the module, unknown controls and
\* the audit share a handler.
AuditOne ==
    /\ pc = "arguments" /\ Audits
    /\ ~Refused
    /\ call.provider # "all"
    /\ \/ /\ call.policy # "bad" /\ (call.mode = "rollback" \/ Concerns(call.provider))
          /\ \E r \in Results : findings' = From(call.provider, r)
          /\ made' = findings'
          /\ pc' = "custom"
          /\ UNCHANGED exit
       \/ Exit("2") /\ UNCHANGED <<findings, made>>
    /\ UNCHANGED <<call, loaded, broken, report, reported, written, faults, hookVars>>

\* `all': the policy is read outside any handler, a provider that cannot be found
\* is left out with a line in the log, and one that breaks otherwise while it is
\* imported ends the process.
AllProviders == {"aws", "azure", "gcp", "k8s"}
LoadAll ==
    /\ pc = "arguments" /\ Audits
    /\ ~Refused
    /\ call.provider = "all"
    /\ \/ call.policy = "bad" /\ Exit("1") /\ UNCHANGED <<loaded, faults>>
       \/ call.policy # "bad" /\ loaded' \in SUBSET AllProviders /\ pc' = "run"
             /\ UNCHANGED <<exit, faults>>
       \/ faults < MaxFaults /\ faults' = faults + 1 /\ Exit("1") /\ UNCHANGED loaded
    /\ UNCHANGED <<call, findings, made, broken, report, reported, written, hookVars>>

\* run_providers (module ConcurrentRunner): a provider that raises is answered
\* for by RUNNER-001; the common timeout ends the process.  Nobody checks
\* --control here: a provider it does not concern answers with an empty list.
ResultOf_OnlySuccesses(p, raised, r) == IF raised THEN {} ELSE From(p, r) \* mutant
ResultOf(p, raised, r) == IF raised THEN From(p, {"error"}) ELSE From(p, r)
RunAll ==
    /\ pc = "run"
    /\ broken' \in SUBSET loaded
    /\ \E r \in [loaded -> Results \cup {{}}] :
          /\ \A p \in loaded : ~Concerns(p) => r[p] = {}
          /\ findings' = UNION {ResultOf(p, p \in broken', r[p]) : p \in loaded}
    /\ made' = findings'
    /\ pc' = "report"
    /\ UNCHANGED <<call, loaded, report, reported, written, exit, faults, hookVars>>

RunAllTimesOut ==
    /\ pc = "run"
    /\ loaded # {}
    /\ faults < MaxFaults
    /\ faults' = faults + 1
    /\ Exit("1")
    /\ UNCHANGED <<call, findings, made, loaded, broken, report, reported, written, hookVars>>
-----------------------------------------------------------------------------
\* A custom control passes when its exit code is the expected one: 1 for a
\* command that cannot be parsed, 124 after 30 seconds, 127 when not found.  A
\* command that may not be executed, or is no text, raises: an ERROR finding.
Commands == {"unparsable", "ok", "not found", "slow", "raises"}
RunCheck(command) ==
    CASE command = "unparsable" -> 1 [] command = "ok" -> 0
      [] command = "not found" -> 127 [] command = "slow" -> 124
CustomStatus(command, expect) ==
    IF command = "raises" THEN "error"
    ELSE IF RunCheck(command) = expect THEN "pass" ELSE "fail"

\* A file that cannot be loaded, and a severity that does not exist, raise out
\* of run_custom_controls, with the findings of the controls before it.  With
\* --control no custom control is run: its ID would be refused as unknown.
CustomControls ==
    /\ pc = "custom"
    /\ pc' = "waivers"
    /\ \E commands \in [1 .. 2 -> Commands], expect \in {0, 1} :
        LET Ran(n) == From("custom", {CustomStatus(commands[k], expect) : k \in 1 .. n}) IN
        CASE call.custom = "good" /\ call.control = "none" ->
                findings' = findings \cup Ran(2) /\ made' = made \cup Ran(2)
          [] call.custom = "bad severity" /\ call.control = "none" ->
                made' = made \cup Ran(1) /\ UNCHANGED findings
          [] OTHER -> UNCHANGED <<findings, made>>
    /\ UNCHANGED <<call, loaded, broken, report, reported, written, exit, faults, hookVars>>

\* apply_exceptions looks for the status "FAIL", but the value of Status.FAIL
\* is "fail"; and a match would be assigned to, which a frozen Finding refuses.
Matched(fs) == {f \in fs : f.status = "FAIL"}

\* Waivers that cannot be read, or that expire on a YAML date, raise as well:
\* main prints the error and goes on with the findings as they were.
ApplyWaivers(fs) ==
    IF \/ call.waivers \in {"none", "unreadable", "date only"}
       \/ (call.waivers = "active" /\ Matched(fs) # {})
    THEN fs
    ELSE {IF call.waivers = "active" /\ f \in Matched(fs) THEN [f EXCEPT !.status = "SKIP"] ELSE f
            : f \in fs}

Waivers ==
    /\ pc = "waivers"
    /\ pc' = "report"
    /\ findings' = ApplyWaivers(findings)
    /\ UNCHANGED <<call, made, loaded, broken, report, reported, written, exit, faults, hookVars>>
-----------------------------------------------------------------------------
\* What comes after the report: each file is written in turn, and the first
\* that fails ends the process.  `all' writes no file but the plan.
Stages == <<"report", "compliance", "dashboard", "notify", "change", "plan", "code">>
Asked(stage) ==
    CASE stage = "compliance" -> call.compliance /\ call.provider # "all"
      [] stage = "dashboard"  -> call.dashboard /\ call.provider # "all"
      [] stage = "notify"     -> call.notify.file # "none" /\ call.provider # "all"
      [] stage = "change"     -> call.change
      [] stage = "plan"       -> call.plan
      [] stage = "code"       -> TRUE
After(stage) ==
    LET k == CHOOSE j \in DOMAIN Stages : Stages[j] = stage
    IN  Stages[Min({j \in k + 1 .. Len(Stages) : Asked(Stages[j])})]

\* The report goes to a file or to standard output; only a file can fail.
WriteReport ==
    /\ pc = "report"
    /\ \/ /\ report' = "full" /\ reported' = findings
          /\ pc' = After("report")
          /\ UNCHANGED <<exit, faults>>
       \/ /\ call.output /\ faults < MaxFaults
          /\ faults' = faults + 1
          /\ report' \in {"none", "partial"}
          /\ Exit("1")
          /\ UNCHANGED reported
    /\ UNCHANGED <<call, findings, made, loaded, broken, written, hookVars>>

\* Without --output the evidence goes to standard output, which does not fail.
Files == {"compliance", "dashboard", "change", "plan"}
WriteFile(file) ==
    /\ pc = file
    /\ \/ /\ pc' = After(file)
          /\ written' = written \cup {file}
          /\ UNCHANGED <<exit, faults>>
       \/ /\ file # "compliance" \/ call.output
          /\ faults < MaxFaults
          /\ faults' = faults + 1
          /\ Exit("1")
          /\ UNCHANGED written
    /\ UNCHANGED <<call, findings, made, loaded, broken, report, reported, hookVars>>

\* The alert: whatever goes wrong with it is printed and forgotten.
StartNotify ==
    /\ pc = "notify"
    /\ IF call.notify.file = "broken"
       THEN pc' = After("notify") /\ UNCHANGED hookVars
       ELSE pc' = "alerting" /\ Notify(call.notify.file = "dict", call.notify.sinks, findings)
    /\ UNCHANGED <<call, findings, made, loaded, broken, report, reported, written, exit, faults>>
Alerting ==
    /\ pc = "alerting"
    /\ HookStep
    /\ UNCHANGED cliVars
EndNotify ==
    /\ pc = "alerting"
    /\ step = "ended"
    /\ pc' = After("notify")
    /\ UNCHANGED <<call, findings, made, loaded, broken, report, reported, written, exit, faults, hookVars>>

\* exit_code, and what a rollback adds to it.
ExitCode_FailOnly(fs) == IF HasStatus(fs, "fail") THEN "1" ELSE "0" \* mutant
ExitCode(fs) ==
    IF HasStatus(fs, "error") THEN "2"
    ELSE IF HasStatus(fs, "fail") \/ (call.mode = "rollback" /\ HasStatus(fs, "manual")) THEN "1"
    ELSE "0"

Finish ==
    /\ pc = "code"
    /\ Exit(ExitCode(findings))
    /\ UNCHANGED <<call, findings, made, loaded, broken, report, reported, written, faults, hookVars>>

Next ==
    \/ OtherCommand \/ Refuse \/ AuditOne \/ LoadAll \/ RunAll \/ RunAllTimesOut
    \/ CustomControls \/ Waivers \/ WriteReport
    \/ \E file \in Files : WriteFile(file)
    \/ StartNotify \/ Alerting \/ EndNotify \/ Finish

Spec == Init /\ [][Next]_vars

\* main is one thread without waits but those of its calls, which have
\* timeouts; the audit is taken to return.
FairSpec == Spec /\ WF_vars(Next)
-----------------------------------------------------------------------------
\* The variables keep their types; back-off never sums up to more than
\* 2 + 4 + 8 seconds for a sink.
TypeOK ==
    /\ pc \in {"arguments", "run", "custom", "waivers", "report", "compliance", "dashboard",
               "notify", "alerting", "change", "plan", "code", "exit"}
    /\ findings \subseteq made
    /\ loaded \subseteq AllProviders /\ broken \subseteq loaded
    /\ report \in {"none", "partial", "full"}
    /\ reported \subseteq findings
    /\ written \subseteq Files \cup {"playbook"}
    /\ exit \in {"none", "0", "1", "2"}
    /\ faults \in 0 .. MaxFaults
    /\ HookTypeOK

\* The exit code can be relied on by what calls the program: 0 only when the
\* report and every other file asked for are complete and the report holds no
\* failure or error, 2 only when nothing was audited or an error is in the
\* report, 1 only when a failure is, when a rollback left something to be done
\* by hand, or when the process died.
ExitTellsTruth ==
    pc = "exit" /\ Audits =>
        /\ exit = "0" =>
            /\ report = "full"
            /\ ~HasStatus(reported, "fail") /\ ~HasStatus(reported, "error")
            /\ \A file \in Files : Asked(file) => file \in written
        /\ exit = "2" => report = "none" \/ HasStatus(reported, "error")
        /\ exit = "1" =>
            \/ HasStatus(reported, "fail")
            \/ call.mode = "rollback" /\ HasStatus(reported, "manual")
            \/ faults > 0
            \/ call.provider = "all" /\ call.policy = "bad"

\* No failure is hidden by a later step: every failure and error found on the
\* way is in the report, unless an active waiver covers it or it comes from a
\* custom control of a file with a bad entry further on; and a provider of `all'
\* whose audit raised is in the report by its error, whatever the others found.
NothingHidden ==
    report = "full" =>
        /\ \A f \in made :
            f.status \in {"fail", "error"} =>
                \/ f \in reported
                \/ call.waivers = "active"
                \/ call.custom = "bad severity" /\ f.from = "custom"
        /\ \A p \in broken : \E f \in reported : f.from = p /\ f.status = "error"

\* What docs/architecture.md says of `all': a failed provider is reported by an
\* error finding rather than silently skipped.
FailedNotSkipped ==
    report = "full" /\ call.provider = "all" =>
        \A p \in broken \cup (AllProviders \ loaded) :
            \E f \in reported : f.from = p /\ f.status = "error"

\* Nobody is alerted about something the report does not say: an alert is
\* posted only after a complete report that holds a failure or an error.
AlertFollowsReport ==
    \A s \in SinkSet :
        copies[s] > 0 =>
            /\ report = "full"
            /\ HasStatus(reported, "fail") \/ HasStatus(reported, "error")
            /\ call.notify.file = "dict" /\ call.notify.sinks[s] \in {"good", "silent"}

\* A sink is let down only by its own address or server, never by the trouble
\* of another: after notify every configured sink is settled, and one that had
\* no trouble has the alert exactly once.
SinksIsolated ==
    step = "ended" =>
        \A s \in SinkSet :
            /\ config[s] # "absent" => settled[s] # "no"
            /\ config[s] = "good" /\ s \notin troubled => settled[s] = "delivered" /\ copies[s] = 1

\* Every run of the program ends with an exit code, however its webhooks,
\* files and providers behave.
RunEnds == <>(pc = "exit")

\* And it ends because every step brings it nearer to its end: no stage of main is
\* entered twice, and the alert, retried or not, costs at most 15 steps of the
\* at most 26 that a run takes.
StagesLeft ==
    [arguments |-> 11, run |-> 10, custom |-> 10, waivers |-> 9, report |-> 8, compliance |-> 7,
     dashboard |-> 6, notify |-> 5, alerting |-> 4, change |-> 3, plan |-> 2, code |-> 1, exit |-> 0]
AlertLeft == IF pc = "alerting" THEN HookLeft
             ELSE IF StagesLeft[pc] > StagesLeft["alerting"] THEN PerSink * Len(Sinks) ELSE 0
Left == StagesLeft[pc] + AlertLeft
NearsItsEnd == Left = 26 /\ [][Left' < Left]_vars

\* notify delivers as Delivery says.
Wanted == {s \in SinkSet : config[s] # "absent"}
D == INSTANCE Delivery WITH MaxAttempts <- MaxRetries + 1, wanted <- Wanted
ImplementsDelivery == D!Spec

\* What the docstring of apply_exceptions says: a failure matched by an active
\* waiver is reported as SKIP.  The active waivers of this model match all.
WaivedBecomesSkip ==
    report = "full" /\ call.waivers = "active" /\ call.provider # "all" =>
        ~HasStatus(reported, "fail")
=============================================================================
