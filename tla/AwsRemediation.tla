--------------------------- MODULE AwsRemediation ---------------------------
(***************************************************************************)
(* The AWS remediation life cycle of PagerWesi: `pagerwesi aws' in audit,  *)
(* plan and apply mode (cloud/providers/aws/baseline.py, services.py), the *)
(* change manifest that main.py writes after an apply, and the rollback    *)
(* that replays the manifest (cloud/providers/aws/rollback.py).            *)
(*                                                                         *)
(* A setting is a pair <<control, target>>; its value is a member of a     *)
(* small set that keeps apart what the code tells apart.  A run reads a    *)
(* setting and writes it in two steps, so other actors can act in between. *)
(* Definitions marked `mutant' are wrong variants of the definition after  *)
(* them, kept to show that the properties notice the difference.           *)
(***************************************************************************)
EXTENDS Naturals, FiniteSets

CONSTANTS
    Buckets,             \* the buckets list_buckets returns
    Excluded,            \* buckets matched by the policy's exclude_resources
    Regions,             \* every region of the account
    Audited,             \* the regions named by --regions
    RollbackRegion,      \* the region of the session `--mode rollback' opens
    Controls,            \* the controls selected by --control
    Modes,               \* the modes a run may be started in
    FlowLogDestination,  \* whether policy aws.vpc_flow_log_destination_arn is set
    Workers,             \* size of the bucket thread pool
    InitialConfigs,      \* bound: the configurations AWS may hold at first
    Faults,              \* the kinds of disturbance that may happen
    MaxFaults,           \* bound: failing calls and foreign changes together
    MaxRuns,             \* bound: audit / plan / apply invocations
    MaxRollbacks         \* bound: rollback invocations

AccountControls == {"AWS-S3-001"}
BucketControls  == {"AWS-S3-004", "AWS-S3-005", "AWS-S3-006"}
RegionControls  == {"AWS-EBS-001", "AWS-VPC-001", "AWS-IAM-002"}
FaultKinds == {"read", "put", "lost_reply", "unsuccessful", "list",
               "report", "manifest", "undo", "drift"}

ASSUME RemediationAssumption ==
    /\ Excluded \subseteq Buckets
    /\ Audited \subseteq Regions
    /\ RollbackRegion \in Regions
    /\ Controls \subseteq AccountControls \cup BucketControls \cup RegionControls
    /\ Modes \subseteq {"audit", "plan", "apply"}
    /\ FlowLogDestination \in BOOLEAN
    /\ Workers \in Nat \ {0}
    /\ Faults \subseteq FaultKinds
    /\ {MaxFaults, MaxRuns, MaxRollbacks} \subseteq Nat

\* The settings the selected controls are about; no other setting is touched.
Account == "account"
Items == ((Controls \cap AccountControls) \X {Account})
            \cup ((Controls \cap BucketControls) \X Buckets)
            \cup ((Controls \cap RegionControls) \X Regions)
Ctl(i) == i[1]

\* The values of a setting that the code treats differently.
Values == {"none", "partial", "full", "custom", "aes256", "Disabled",
           "Suspended", "Enabled", "off", "on", "missing", "logged",
           "absent", "active"}
Settings(i) ==
    CASE Ctl(i) \in {"AWS-S3-001", "AWS-S3-004"} -> {"none", "partial", "full"}
      [] Ctl(i) = "AWS-S3-005"  -> {"none", "custom", "aes256"}
      [] Ctl(i) = "AWS-S3-006"  -> {"Disabled", "Suspended", "Enabled"}
      [] Ctl(i) = "AWS-EBS-001" -> {"off", "on"}
      [] Ctl(i) = "AWS-VPC-001" -> {"missing", "logged"}
      [] OTHER                  -> {"absent", "active"}

ASSUME InitialConfigsAssumption ==
    \A f \in InitialConfigs :
        f \in [Items -> Values] /\ \A i \in Items : f[i] \in Settings(i)

\* The value apply mode writes.
Desired(i) ==
    CASE Ctl(i) \in {"AWS-S3-001", "AWS-S3-004"} -> "full"
      [] Ctl(i) = "AWS-S3-005"  -> "aes256"
      [] Ctl(i) = "AWS-S3-006"  -> "Enabled"
      [] Ctl(i) = "AWS-EBS-001" -> "on"
      [] Ctl(i) = "AWS-VPC-001" -> "logged"
      [] OTHER                  -> "active"

\* Any encryption rule passes AWS-S3-005; the others want the desired value.
Compliant(i, v) == IF Ctl(i) = "AWS-S3-005" THEN v # "none" ELSE v = Desired(i)

\* The order in which one thread takes its controls, and the order of the
\* control identifiers by which run_audit sorts its findings.
CheckOrder == << "AWS-EBS-001", "AWS-VPC-001", "AWS-IAM-002",
                 "AWS-S3-001", "AWS-S3-004", "AWS-S3-005", "AWS-S3-006" >>
SortOrder  == << "AWS-EBS-001", "AWS-IAM-002", "AWS-S3-001", "AWS-S3-004",
                 "AWS-S3-005", "AWS-S3-006", "AWS-VPC-001" >>
Ranks(order) == [c \in {order[n] : n \in DOMAIN order} |->
                    CHOOSE n \in DOMAIN order : order[n] = c]
CheckRank == Ranks(CheckOrder)
SortRank  == Ranks(SortOrder)

\* The settings a run looks at.
InScope(i) ==
    /\ Ctl(i) \in BucketControls => i[2] \notin Excluded
    /\ Ctl(i) \in RegionControls => i[2] \in Audited
Scope == {i \in Items : InScope(i)}
RegionScope == {i \in Scope : Ctl(i) \in RegionControls}
BucketScope == {i \in Scope : Ctl(i) \in BucketControls}
AccountScope == {i \in Scope : Ctl(i) \in AccountControls}
S3Selected == Controls \cap (AccountControls \cup BucketControls) # {}
-----------------------------------------------------------------------------
VARIABLES
    cfg,       \* [Items -> Values]: what AWS holds
    phase,     \* where the process is; "idle" when none runs
    mode,      \* mode of the current or last audit / plan / apply run
    step,      \* [Items -> progress of the check of this setting]
    reading,   \* [Items -> Values]: what the check believes it read
    result,    \* [Items -> Finding]: the finding of this run
    manifest,  \* the change manifest on disk
    pending,   \* manifest entries the rollback has not replayed
    undo,      \* [Items -> outcome of the rollback of this setting]
    exit,      \* exit code of the last process, or how it ended
    wrote,     \* history: settings the current run really changed
    start,     \* history: what AWS held when the current run started
    proposed,  \* history: what the last completed plan proposed
    count      \* history: the bounded counters

vars == <<cfg, phase, mode, step, reading, result, manifest, pending, undo,
          exit, wrote, start, proposed, count>>

RunPhases == {"services", "account", "listing", "buckets", "report", "manifest"}
Phases == RunPhases \cup {"idle", "rollback"}
Statuses == {"none", "PASS", "FAIL", "ERROR", "MANUAL"}
Finding == [status : Statuses, changed : BOOLEAN, planned : BOOLEAN,
            before : Values, was : Values]
NoFinding == [status |-> "none", changed |-> FALSE, planned |-> FALSE,
              before |-> "none", was |-> "none"]
Entry == [item : Items, before : Values, was : Values]

\* A manifest is no file, a truncated file, or the entries of a complete one.
NoFile == [kind |-> "absent", entries |-> {}]
Torn   == [kind |-> "torn", entries |-> {}]
File(entries) == [kind |-> "complete", entries |-> entries]
NoPlan == [known |-> FALSE, at |-> [i \in Items |-> "none"], items |-> {}]

Init ==
    /\ cfg \in InitialConfigs
    /\ phase = "idle"
    /\ mode = "audit"
    /\ step = [i \in Items |-> "todo"]
    /\ reading = [i \in Items |-> "none"]
    /\ result = [i \in Items |-> NoFinding]
    /\ manifest = NoFile
    /\ pending = {}
    /\ undo = [i \in Items |-> "none"]
    /\ exit = "none"
    /\ wrote = {}
    /\ start = cfg
    /\ proposed = NoPlan
    /\ count = [faults |-> 0, runs |-> 0, rollbacks |-> 0, drift |-> 0]

\* A call of this kind may fail now (or another actor step in), and it counts.
Fails(kind) ==
    /\ kind \in Faults
    /\ count.faults + count.drift < MaxFaults
    /\ count' = IF kind = "drift" THEN [count EXCEPT !.drift = @ + 1]
                ELSE [count EXCEPT !.faults = @ + 1]
-----------------------------------------------------------------------------
\* One audit, plan or apply run.

StartRun ==
    /\ phase = "idle"
    /\ count.runs < MaxRuns
    /\ count' = [count EXCEPT !.runs = @ + 1]
    /\ phase' = "services"
    /\ mode' \in Modes
    /\ step' = [i \in Items |-> "todo"]
    /\ reading' = [i \in Items |-> "none"]
    /\ result' = [i \in Items |-> NoFinding]
    /\ wrote' = {}
    /\ start' = cfg
    /\ exit' = "none"
    /\ UNCHANGED <<cfg, manifest, pending, undo, proposed>>

Started(S) == {i \in S : step[i] # "todo"}
Finished(S) == \A i \in S : step[i] = "done"
Sweeps == {RegionScope, AccountScope, BucketScope}
\* The controls of one region, or of one bucket: one thread takes them in turn.
SameTarget(i) == {j \in Scope : j[2] = i[2] /\ \E S \in Sweeps : {i, j} \subseteq S}
BusyBuckets == {b \in Buckets : LET own == {i \in BucketScope : i[2] = b}
                                IN Started(own) # {} /\ ~Finished(own)}

RegionsInTurn(i) ==
    \A j \in Started(RegionScope) : j[2] # i[2] => Finished(SameTarget(j))

\* The check of setting i may begin: its thread has finished the controls
\* before it, regions are taken one at a time, buckets by a pool of Workers.
MayBegin(i) ==
    /\ i \in Scope
    /\ step[i] = "todo"
    /\ \A j \in SameTarget(i) : CheckRank[Ctl(j)] < CheckRank[Ctl(i)] => step[j] = "done"
    /\ \/ /\ Ctl(i) \in RegionControls
          /\ phase = "services"
          /\ RegionsInTurn(i)
       \/ /\ Ctl(i) \in AccountControls
          /\ phase = "account"
       \/ /\ Ctl(i) \in BucketControls
          /\ phase = "buckets"
          /\ i[2] \in BusyBuckets \/ Cardinality(BusyBuckets) < Workers

Report_Requeue(i, f) ==    \* mutant
    /\ step' = [step EXCEPT ![i] = IF f.status = "ERROR" THEN "todo" ELSE "done"]
    /\ result' = [result EXCEPT ![i] = f]
Report(i, f) ==
    /\ step' = [step EXCEPT ![i] = "done"]
    /\ result' = [result EXCEPT ![i] = f]

ErrorFinding_AsPass == [NoFinding EXCEPT !.status = "PASS"]    \* mutant
ErrorFinding == [NoFinding EXCEPT !.status = "ERROR"]

Read(i) ==
    /\ MayBegin(i)
    /\ reading' = [reading EXCEPT ![i] = cfg[i]]
    /\ step' = [step EXCEPT ![i] = "read"]
    /\ UNCHANGED <<cfg, phase, mode, result, manifest, pending, undo, exit,
                   wrote, start, proposed, count>>

\* A failed read is an ERROR finding, except for the bucket public access block
\* and the bucket encryption: there any exception stands for "not configured".
ReadFails(i) ==
    /\ MayBegin(i)
    /\ Fails("read")
    /\ IF Ctl(i) \in {"AWS-S3-004", "AWS-S3-005"}
       THEN /\ reading' = [reading EXCEPT ![i] = "none"]
            /\ step' = [step EXCEPT ![i] = "read"]
            /\ UNCHANGED result
       ELSE /\ Report(i, ErrorFinding)
            /\ UNCHANGED reading
    /\ UNCHANGED <<cfg, phase, mode, manifest, pending, undo, exit, wrote,
                   start, proposed>>

\* The finding's `before'.  AWS-VPC-001 computes it after the list of missing
\* VPCs has been emptied.
RecordedBefore(i) == IF Ctl(i) = "AWS-VPC-001" THEN "logged" ELSE reading[i]

NoDestination_PolicyIgnored(i) == Ctl(i) = "AWS-VPC-001"    \* mutant
NoDestination(i) == Ctl(i) = "AWS-VPC-001" /\ ~FlowLogDestination
Deciding(i) == phase \in RunPhases /\ step[i] = "read"
MustWrite_AnyMode(i) == Deciding(i) /\ ~Compliant(i, reading[i])    \* mutant
MustWrite(i) ==
    /\ Deciding(i)
    /\ ~Compliant(i, reading[i])
    /\ mode = "apply"
    /\ ~NoDestination(i)

\* Nothing to write: the setting complies, or the mode does not mutate, or
\* the flow logs have no destination.
Assess(i) ==
    /\ Deciding(i)
    /\ ~MustWrite(i)
    /\ Report(i, [NoFinding EXCEPT
           !.status = IF Compliant(i, reading[i]) THEN "PASS"
                      ELSE IF mode = "apply" THEN "MANUAL" ELSE "FAIL",
           !.planned = ~Compliant(i, reading[i]) /\ mode = "plan"])
    /\ UNCHANGED <<cfg, phase, mode, reading, manifest, pending, undo, exit,
                   wrote, start, proposed, count>>

Applied_OnlyIfConfigured(i) ==    \* mutant
    [status |-> "PASS", changed |-> reading[i] # "none", planned |-> FALSE,
     before |-> RecordedBefore(i), was |-> cfg[i]]
Applied(i) == [status |-> "PASS", changed |-> TRUE, planned |-> FALSE,
               before |-> RecordedBefore(i), was |-> cfg[i]]

Put(i) ==
    /\ MustWrite(i)
    /\ cfg' = [cfg EXCEPT ![i] = Desired(i)]
    /\ wrote' = wrote \cup {i}
    /\ Report(i, Applied(i))
    /\ UNCHANGED <<phase, mode, reading, manifest, pending, undo, exit, start,
                   proposed, count>>

\* create_flow_logs answers with an Unsuccessful list instead of raising, and
\* nobody reads the answer.
PutUnsuccessful(i) ==
    /\ MustWrite(i)
    /\ Ctl(i) = "AWS-VPC-001"
    /\ Fails("unsuccessful")
    /\ Report(i, Applied(i))
    /\ UNCHANGED <<cfg, phase, mode, reading, manifest, pending, undo, exit,
                   wrote, start, proposed>>

\* run_audit ends with an exception: main prints it and exits with 2.
Abort == phase' = "idle" /\ exit' = "2"

\* The put raises.  Only the account check has no handler around it.
PutRaises(i) ==
    /\ MustWrite(i)
    /\ IF Ctl(i) \in AccountControls
       THEN Abort /\ UNCHANGED <<step, result>>
       ELSE Report(i, ErrorFinding) /\ UNCHANGED <<phase, exit>>
    /\ UNCHANGED <<mode, reading, manifest, pending, undo, start, proposed>>

PutFails(i) ==
    /\ Fails("put")
    /\ PutRaises(i)
    /\ UNCHANGED <<cfg, wrote>>

\* The request is carried out and its answer is lost.
PutReplyLost(i) ==
    /\ Fails("lost_reply")
    /\ PutRaises(i)
    /\ cfg' = [cfg EXCEPT ![i] = Desired(i)]
    /\ wrote' = wrote \cup {i}

Check(i) == \/ Read(i) \/ ReadFails(i) \/ Assess(i) \/ Put(i)
            \/ PutUnsuccessful(i) \/ PutFails(i) \/ PutReplyLost(i)

Goto(from, done, to) ==
    /\ phase = from
    /\ done
    /\ phase' = to
    /\ UNCHANGED <<cfg, mode, step, reading, result, manifest, pending, undo,
                   exit, wrote, start, proposed, count>>

EndServices == Goto("services", Finished(RegionScope),
                    IF S3Selected THEN "account" ELSE "report")
EndAccount  == Goto("account", Finished(AccountScope), "listing")
ListBuckets == Goto("listing", TRUE, "buckets")
EndBuckets  == Goto("buckets", Finished(BucketScope), "report")

ListFails ==
    /\ phase = "listing"
    /\ Fails("list")
    /\ Abort
    /\ UNCHANGED <<cfg, mode, step, reading, result, manifest, pending, undo,
                   wrote, start, proposed>>

ExitCode_ErrorIgnored(statuses) == IF "FAIL" \in statuses THEN "1" ELSE "0"    \* mutant
ExitCode(statuses) ==
    IF "ERROR" \in statuses THEN "2" ELSE IF "FAIL" \in statuses THEN "1" ELSE "0"
RunStatuses == {result[i].status : i \in Items}

Changes == {[item |-> i, before |-> result[i].before, was |-> result[i].was] :
               i \in {j \in Items : result[j].changed}}

\* The report comes first; only an apply goes on to write the change manifest.
WriteReport ==
    /\ phase = "report"
    /\ IF mode = "apply"
       THEN phase' = "manifest" /\ UNCHANGED exit
       ELSE phase' = "idle" /\ exit' = ExitCode(RunStatuses)
    /\ proposed' = IF mode # "plan" THEN proposed
                   ELSE [known |-> RunStatuses \cap {"ERROR"} = {}, at |-> start,
                         items |-> {i \in Items : result[i].planned}]
    /\ UNCHANGED <<cfg, mode, step, reading, result, manifest, pending, undo,
                   wrote, start, count>>

\* An error while the report is written is not caught: a traceback, exit 1.
ReportFails ==
    /\ phase = "report"
    /\ Fails("report")
    /\ phase' = "idle"
    /\ exit' = "1"
    /\ UNCHANGED <<cfg, mode, step, reading, result, manifest, pending, undo,
                   wrote, start, proposed>>

ManifestFails_Caught ==    \* mutant
    /\ phase = "manifest"
    /\ Fails("manifest")
    /\ manifest' \in {manifest, Torn}
    /\ phase' = "idle"
    /\ exit' = ExitCode(RunStatuses)
    /\ UNCHANGED <<cfg, mode, step, reading, result, pending, undo, wrote,
                   start, proposed>>

WriteManifest ==
    /\ phase = "manifest"
    /\ manifest' = File(Changes)
    /\ phase' = "idle"
    /\ exit' = ExitCode(RunStatuses)
    /\ UNCHANGED <<cfg, mode, step, reading, result, pending, undo, wrote,
                   start, proposed, count>>

\* write_text truncates the file before it writes: an error leaves the old
\* manifest or a truncated one.
ManifestFails ==
    /\ phase = "manifest"
    /\ Fails("manifest")
    /\ manifest' \in {manifest, Torn}
    /\ phase' = "idle"
    /\ exit' = "1"
    /\ UNCHANGED <<cfg, mode, step, reading, result, pending, undo, wrote,
                   start, proposed>>
-----------------------------------------------------------------------------
\* One rollback of the manifest on disk.

StartRollback ==
    /\ phase = "idle"
    /\ manifest # NoFile
    /\ count.rollbacks < MaxRollbacks
    /\ count' = [count EXCEPT !.rollbacks = @ + 1]
    /\ undo' = [i \in Items |-> "none"]
    /\ pending' = manifest.entries
    /\ IF manifest = Torn THEN UNCHANGED phase /\ exit' = "2"
       ELSE phase' = "rollback" /\ exit' = "none"
    /\ UNCHANGED <<cfg, mode, step, reading, result, manifest, wrote, start,
                   proposed>>

\* reversed(changes): the entry last in the sorted order comes first.
NextEntry(e) ==
    /\ phase = "rollback"
    /\ e \in pending
    /\ \A d \in pending : SortRank[Ctl(d.item)] <= SortRank[Ctl(e.item)]

\* The setting the handler of an entry writes.  The manifest names an account
\* and no region, so AWS-EBS-001 is undone where the session happens to be.
UndoTarget(e) == IF Ctl(e.item) = "AWS-EBS-001"
                 THEN <<"AWS-EBS-001", RollbackRegion>> ELSE e.item

Outcome_NoHandler(e) ==    \* mutant
    CASE Ctl(e.item) \in {"AWS-S3-006", "AWS-VPC-001"}   -> "MANUAL"
      [] Ctl(e.item) \in {"AWS-IAM-002", "AWS-S3-004"} -> "SKIP"
      [] OTHER                                         -> "PASS"
Outcome(e) ==
    CASE Ctl(e.item) \in {"AWS-S3-006", "AWS-VPC-001"} -> "MANUAL"
      [] Ctl(e.item) = "AWS-IAM-002"                   -> "SKIP"
      [] OTHER                                         -> "PASS"

UndoEntry(e) ==
    /\ NextEntry(e)
    /\ pending' = pending \ {e}
    /\ undo' = [undo EXCEPT ![e.item] = Outcome(e)]
    /\ cfg' = IF Outcome(e) = "PASS"
              THEN [cfg EXCEPT ![UndoTarget(e)] = e.before] ELSE cfg
    /\ UNCHANGED <<phase, mode, step, reading, result, manifest, exit, wrote,
                   start, proposed, count>>

UndoFails(e) ==
    /\ NextEntry(e)
    /\ Outcome(e) = "PASS"
    /\ Fails("undo")
    /\ pending' = pending \ {e}
    /\ undo' = [undo EXCEPT ![e.item] = "ERROR"]
    /\ UNCHANGED <<cfg, phase, mode, step, reading, result, manifest, exit,
                   wrote, start, proposed>>

UndoStatuses == {undo[i] : i \in Items}

EndRollback ==
    /\ phase = "rollback"
    /\ pending = {}
    /\ phase' = "idle"
    /\ exit' = IF ExitCode(UndoStatuses) = "0" /\ "MANUAL" \in UndoStatuses
               THEN "1" ELSE ExitCode(UndoStatuses)
    /\ UNCHANGED <<cfg, mode, step, reading, result, manifest, pending, undo,
                   wrote, start, proposed, count>>

\* The outcomes are reported when all entries have been replayed; an error while
\* the report is written is not caught here either.
RollbackReportFails ==
    /\ phase = "rollback"
    /\ pending = {}
    /\ Fails("report")
    /\ phase' = "idle"
    /\ exit' = "1"
    /\ UNCHANGED <<cfg, mode, step, reading, result, manifest, pending, undo,
                   wrote, start, proposed>>
-----------------------------------------------------------------------------
\* The process is killed.  While the manifest is written this may leave a
\* truncated file.
Kill ==
    /\ phase # "idle"
    /\ phase' = "idle"
    /\ exit' = "killed"
    /\ manifest' \in IF phase = "manifest" THEN {manifest, Torn} ELSE {manifest}
    /\ pending' = {}
    /\ UNCHANGED <<cfg, mode, step, reading, result, undo, wrote, start,
                   proposed, count>>

\* Another actor of the account changes a setting.
Drift ==
    /\ Fails("drift")
    /\ \E i \in Items : \E v \in Settings(i) : cfg' = [cfg EXCEPT ![i] = v]
    /\ UNCHANGED <<phase, mode, step, reading, result, manifest, pending, undo,
                   exit, wrote, start, proposed>>

Advance ==
    \/ \E i \in Items : Check(i)
    \/ EndServices \/ EndAccount \/ ListBuckets \/ ListFails \/ EndBuckets
    \/ WriteReport \/ ReportFails \/ WriteManifest \/ ManifestFails
    \/ \E e \in pending : UndoEntry(e) \/ UndoFails(e)
    \/ EndRollback \/ RollbackReportFails

Next == StartRun \/ StartRollback \/ Advance \/ Kill \/ Drift

Spec == Init /\ [][Next]_vars
-----------------------------------------------------------------------------
TypeOK ==
    /\ cfg \in [Items -> Values]
    /\ phase \in Phases
    /\ mode \in {"audit", "plan", "apply"}
    /\ step \in [Items -> {"todo", "read", "done"}]
    /\ reading \in [Items -> Values]
    /\ result \in [Items -> Finding]
    /\ manifest \in [kind : {"absent", "torn", "complete"}, entries : SUBSET Entry]
    /\ pending \in SUBSET Entry
    /\ undo \in [Items -> {"none", "PASS", "MANUAL", "SKIP", "ERROR"}]
    /\ exit \in {"none", "0", "1", "2", "killed"}
    /\ wrote \in SUBSET Items
    /\ start \in [Items -> Values]
    /\ proposed \in [known : BOOLEAN, at : [Items -> Values], items : SUBSET Items]
    /\ count \in [{"faults", "runs", "rollbacks", "drift"} -> Nat]

\* A complete change manifest accounts for every setting the run has changed:
\* it lists the setting, or the run has reported it as ERROR and exits with 2.
\* Failing reads, puts, lost answers and other actors do not break this.
WritesManifest == phase = "manifest" /\ manifest'.kind = "complete" /\ phase' = "idle"
                  /\ exit' \in {"0", "1", "2"} /\ count'.faults = count.faults
EvidenceComplete ==
    [][WritesManifest =>
          \A i \in wrote : \/ \E e \in manifest'.entries : e.item = i
                          \/ (result[i].status = "ERROR" /\ exit' = "2")]_vars

\* No audit, plan or rollback ever writes what only an apply may write: outside
\* of rollback, only an apply run changes a setting, and without other actors it
\* replaces a setting that complied only after it failed to read it.
OnlyApplyMutates ==
    [][\A i \in Items :
          cfg'[i] # cfg[i] /\ count'.drift = count.drift /\ phase # "rollback" =>
             /\ mode = "apply"
             /\ Compliant(i, cfg[i]) => count.faults + count.drift > 0]_vars

\* What a plan proposes is what an apply started on the same configuration
\* changes, when neither meets an error (the apply needs a flow log destination).
PlanPredictsApply ==
    [][/\ WritesManifest
       /\ proposed.known
       /\ proposed.at = start
       /\ count.faults = 0
       /\ count.drift = 0
       => {e.item : e \in manifest'.entries} = proposed.items]_vars

\* When an apply ends, a setting it reports as PASS does comply in AWS, whatever
\* calls failed (except for flow logs, whose creation is not confirmed).
PassIsTrue ==
    phase \in {"report", "manifest"} /\ count.drift = 0 =>
       \A i \in Items : result[i].status = "PASS" /\ Ctl(i) # "AWS-VPC-001"
                            => Compliant(i, cfg[i])

\* An undisturbed apply, when it comes to its manifest, has made every setting in
\* scope comply and has written exactly those that did not, so that the next one
\* finds nothing to write.  Flow logs need a destination, which the policy names.
CanBeSet(i) == Ctl(i) # "AWS-VPC-001" \/ FlowLogDestination
ApplyConverges ==
    phase = "manifest" /\ count.faults = 0 /\ count.drift = 0 =>
        /\ \A i \in Scope : CanBeSet(i) => Compliant(i, cfg[i])
        /\ wrote = {i \in Scope : CanBeSet(i) /\ ~Compliant(i, start[i])}
        /\ \A i \in Items \ wrote : cfg[i] = start[i]

\* A rollback that exits with 0 has put back every value the manifest records,
\* leaving out the analyzers it skips and the regions it does not visit; when no
\* call ever failed these are the values the apply found.  A second rollback
\* does not disturb what the first one restored.
Undoable(e) == Ctl(e.item) # "AWS-IAM-002" /\ UndoTarget(e) = e.item
ExitZeroMeansRestored ==
    [][phase = "rollback" /\ exit' = "0" /\ count.drift = 0 =>
          \A e \in {d \in manifest.entries : Undoable(d)} :
             /\ cfg'[e.item] = e.before
             /\ count.faults = 0 => e.before = e.was]_vars

\* However a run ends -- at its end, aborted by an exception in the middle of its
\* changes, by a report or a manifest that cannot be written, or killed -- if it
\* exits with 0 the manifest on disk lists every setting it has changed.  The
\* changes of a run that ends in any other way may be lost to a rollback.
ExitZeroMeansRecorded ==
    [][exit' = "0" /\ phase' = "idle" /\ phase \in RunPhases =>
          \A i \in wrote : \E e \in manifest'.entries : e.item = i]_vars

\* Every step brings a process nearer to its end, whatever fails: a check is begun
\* once and decided once, a stage and a manifest entry are left for good.
PhaseLeft == [services |-> 6, account |-> 5, listing |-> 4, buckets |-> 3, report |-> 2,
              manifest |-> 1]
ToBegin  == {i \in Items : step[i] = "todo"}
ToDecide == {i \in Items : step[i] # "done"}
Left ==
    CASE phase = "idle"      -> 0
      [] phase = "rollback"  -> 1 + Cardinality(pending)
      [] OTHER               -> PhaseLeft[phase] + Cardinality(ToBegin) + Cardinality(ToDecide)
NearsItsEnd ==
    [][/\ Advance => Left' < Left
       /\ StartRun => Left' = 6 + 2 * Cardinality(Items)
       /\ StartRollback => Left' <= 1 + Cardinality(Items)]_vars
=============================================================================
