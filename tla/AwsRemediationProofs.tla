------------------------ MODULE AwsRemediationProofs ------------------------
(***************************************************************************)
(* Proofs about AwsRemediation for every account, selection of controls,   *)
(* policy and number of workers, and whatever calls fail.  The invariant   *)
(* adds to the types that a setting the run has changed is settled and     *)
(* stands in the findings as changed or as ERROR.                          *)
(***************************************************************************)
EXTENDS AwsRemediation, FiniteSetTheorems, TLAPS

\* A change the run has made is never forgotten nor checked again by this run,
\* and only an apply makes any.
WroteInv ==
    phase \in RunPhases =>
        /\ mode # "apply" => wrote = {}
        /\ \A i \in wrote : /\ step[i] = "done"
                            /\ result[i].changed \/ result[i].status = "ERROR"

IInv == TypeOK /\ WroteInv

\* Every value that is read, written or recorded is one of the known values.
LEMMA ValuesKnown ==
  /\ \A i \in Items : Desired(i) \in Values /\ Settings(i) \subseteq Values
  /\ "none" \in Values /\ "logged" \in Values
  BY DEF Desired, Settings, Values

\* A fault is counted.
LEMMA FaultCounted ==
  ASSUME TypeOK, NEW kind, Fails(kind)
  PROVE  /\ count' \in [{"faults", "runs", "rollbacks", "drift"} -> Nat]
         /\ kind # "drift" => count'.faults # count.faults
  BY DEF Fails, TypeOK

\* Findings and manifest entries are well formed.
LEMMA FindingsFormed ==
  ASSUME TypeOK, NEW i \in Items
  PROVE  /\ ErrorFinding \in Finding /\ ErrorFinding.status = "ERROR"
         /\ Applied(i) \in Finding /\ Applied(i).changed
         /\ \A s \in {"PASS", "FAIL", "MANUAL"}, p \in BOOLEAN :
               [NoFinding EXCEPT !.status = s, !.planned = p] \in Finding
         /\ Changes \in SUBSET Entry
  <1>1. NoFinding \in Finding
    BY ValuesKnown DEF NoFinding, Finding, Statuses
  <1>2. ErrorFinding \in Finding /\ ErrorFinding.status = "ERROR"
    BY ValuesKnown DEF ErrorFinding, NoFinding, Finding, Statuses
  <1>3. RecordedBefore(i) \in Values /\ cfg[i] \in Values
    BY ValuesKnown DEF RecordedBefore, TypeOK
  <1>4. Applied(i) \in Finding /\ Applied(i).changed
    BY <1>3 DEF Applied, Finding, Statuses
  <1>5. ASSUME NEW s \in {"PASS", "FAIL", "MANUAL"}, NEW p \in BOOLEAN
        PROVE  [NoFinding EXCEPT !.status = s, !.planned = p] \in Finding
    BY ValuesKnown DEF NoFinding, Finding, Statuses
  <1>6. \A j \in Items : result[j].before \in Values /\ result[j].was \in Values
    BY DEF TypeOK, Finding
  <1>7. Changes \in SUBSET Entry
    BY <1>6 DEF Changes, Entry
  <1> QED BY <1>2, <1>4, <1>5, <1>7

\* The invariant holds in the initial state.
LEMMA InitInv == Init => IInv
  <1> SUFFICES ASSUME Init PROVE IInv
    OBVIOUS
  <1>1. cfg \in [Items -> Values]
    BY ValuesKnown, InitialConfigsAssumption DEF Init
  <1>2. TypeOK
    BY <1>1, ValuesKnown DEF Init, TypeOK, Phases, RunPhases, NoFinding, Finding, Statuses,
                             NoFile, NoPlan
  <1>3. WroteInv
    BY DEF Init, WroteInv
  <1> QED BY <1>2, <1>3 DEF IInv

\* A step of the check of one setting keeps the invariant.
LEMMA CheckInv ==
  ASSUME IInv, NEW i \in Items, Check(i)
  PROVE  IInv'
  <1>a. /\ ErrorFinding \in Finding /\ ErrorFinding.status = "ERROR"
        /\ Applied(i) \in Finding /\ Applied(i).changed
        /\ \A s \in {"PASS", "FAIL", "MANUAL"}, p \in BOOLEAN :
              [NoFinding EXCEPT !.status = s, !.planned = p] \in Finding
    BY FindingsFormed DEF IInv
  <1>b. \A kind : Fails(kind) => count' \in [{"faults", "runs", "rollbacks", "drift"} -> Nat]
    BY FaultCounted DEF IInv
  <1> USE ValuesKnown, <1>a, <1>b DEF IInv
  <1>1. CASE Read(i)
    <2>1. TypeOK'
      BY <1>1 DEF TypeOK, Read
    <2>2. WroteInv'
      BY <1>1 DEF TypeOK, Read, MayBegin, WroteInv
    <2> QED BY <2>1, <2>2
  <1>2. CASE ReadFails(i)
    <2>1. /\ MayBegin(i) /\ Fails("read")
          /\ UNCHANGED <<cfg, phase, mode, manifest, pending, undo, exit, wrote, start, proposed>>
      BY <1>2 DEF ReadFails
    <2>2. step[i] = "todo"
      BY <2>1 DEF MayBegin
    <2>3. CASE Ctl(i) \in {"AWS-S3-004", "AWS-S3-005"}
      <3>1. /\ reading' = [reading EXCEPT ![i] = "none"]
            /\ step' = [step EXCEPT ![i] = "read"]
            /\ result' = result
        BY <1>2, <2>3 DEF ReadFails
      <3>2. TypeOK'
        BY <2>1, <3>1 DEF TypeOK
      <3>3. WroteInv'
        BY <2>1, <2>2, <3>1 DEF TypeOK, WroteInv
      <3> QED BY <3>2, <3>3
    <2>4. CASE Ctl(i) \notin {"AWS-S3-004", "AWS-S3-005"}
      <3>1. /\ reading' = reading
            /\ step' = [step EXCEPT ![i] = "done"]
            /\ result' = [result EXCEPT ![i] = ErrorFinding]
        BY <1>2, <2>4 DEF ReadFails, Report
      <3>2. TypeOK'
        BY <2>1, <3>1 DEF TypeOK
      <3>3. WroteInv'
        BY <2>1, <2>2, <3>1 DEF TypeOK, WroteInv
      <3> QED BY <3>2, <3>3
    <2> QED BY <2>3, <2>4
  <1>3. CASE Assess(i)
    <2>1. TypeOK'
      BY <1>3 DEF TypeOK, Assess, Report
    <2>2. WroteInv'
      BY <1>3 DEF TypeOK, Assess, Report, Deciding, WroteInv
    <2> QED BY <2>1, <2>2
  <1>4. CASE Put(i)
    <2>1. TypeOK'
      BY <1>4 DEF TypeOK, Put, Report
    <2>2. /\ phase' = phase /\ wrote' = wrote \cup {i}
          /\ step' = [step EXCEPT ![i] = "done"]
          /\ result' = [result EXCEPT ![i] = Applied(i)]
      BY <1>4 DEF Put, Report
    <2>3. WroteInv'
      <3>0. mode' = mode /\ mode = "apply"
        BY <1>4 DEF Put, MustWrite
      <3> SUFFICES ASSUME phase \in RunPhases, NEW j \in wrote \cup {i}
                   PROVE  step'[j] = "done" /\ (result'[j].changed \/ result'[j].status = "ERROR")
        BY <2>2, <3>0 DEF WroteInv
      <3>1. CASE j = i
        <4>1. step'[j] = "done" /\ result'[j] = Applied(i)
          BY <2>2, <3>1 DEF TypeOK
        <4> QED BY <4>1
      <3>2. CASE j # i
        <4>1. j \in wrote /\ step'[j] = step[j] /\ result'[j] = result[j]
          BY <2>2, <3>2 DEF TypeOK
        <4> QED BY <4>1 DEF WroteInv
      <3> QED BY <3>1, <3>2
    <2> QED BY <2>1, <2>3
  <1>5. CASE PutUnsuccessful(i)
    <2>1. TypeOK'
      BY <1>5 DEF TypeOK, PutUnsuccessful, Report
    <2>2. WroteInv'
      BY <1>5 DEF TypeOK, PutUnsuccessful, Report, WroteInv
    <2> QED BY <2>1, <2>2
  <1>6. CASE PutFails(i) \/ PutReplyLost(i)
    <2>1. cfg' \in [Items -> Values]
      <3>1. cfg \in [Items -> Values] /\ Desired(i) \in Values
        BY DEF TypeOK
      <3>2. CASE PutFails(i)
        BY <3>1, <3>2 DEF PutFails
      <3>3. CASE PutReplyLost(i)
        BY <3>1, <3>3 DEF PutReplyLost
      <3> QED BY <1>6, <3>2, <3>3
    <2>2. PutRaises(i) /\ wrote' \subseteq wrote \cup {i}
      BY <1>6 DEF PutFails, PutReplyLost
    <2>3. count' \in [{"faults", "runs", "rollbacks", "drift"} -> Nat]
      BY <1>6 DEF PutFails, PutReplyLost
    <2>4. CASE Ctl(i) \in AccountControls
      <3>1. Abort /\ UNCHANGED <<step, result, mode, reading, manifest, pending, undo, start, proposed>>
        BY <2>2, <2>4 DEF PutRaises
      <3>2. TypeOK'
        BY <2>1, <2>2, <2>3, <3>1 DEF TypeOK, Abort, Phases
      <3> QED BY <3>1, <3>2 DEF Abort, WroteInv, RunPhases
    <2>5. CASE Ctl(i) \notin AccountControls
      <3>1. /\ step' = [step EXCEPT ![i] = "done"]
            /\ result' = [result EXCEPT ![i] = ErrorFinding]
            /\ UNCHANGED <<phase, exit, mode, reading, manifest, pending, undo, start, proposed>>
        BY <2>2, <2>5 DEF PutRaises, Report
      <3>2. TypeOK'
        BY <2>1, <2>2, <2>3, <3>1 DEF TypeOK
      <3>3. WroteInv'
        <4>0. mode = "apply"
          BY <2>2 DEF PutRaises, MustWrite
        <4> SUFFICES ASSUME phase \in RunPhases, NEW j \in wrote \cup {i}
                     PROVE  step'[j] = "done" /\ (result'[j].changed \/ result'[j].status = "ERROR")
          BY <2>2, <3>1, <4>0 DEF WroteInv
        <4>1. CASE j = i
          <5>1. step'[j] = "done" /\ result'[j] = ErrorFinding
            BY <3>1, <4>1 DEF TypeOK
          <5> QED BY <5>1
        <4>2. CASE j # i
          <5>1. j \in wrote /\ step'[j] = step[j] /\ result'[j] = result[j]
            BY <3>1, <4>2 DEF TypeOK
          <5> QED BY <5>1 DEF WroteInv
        <4> QED BY <4>1, <4>2
      <3> QED BY <3>2, <3>3
    <2> QED BY <2>4, <2>5
  <1> QED BY <1>1, <1>2, <1>3, <1>4, <1>5, <1>6 DEF Check

\* The steps between the checks keep the invariant.
LEMMA StageInv ==
  ASSUME IInv, EndServices \/ EndAccount \/ ListBuckets \/ ListFails \/ EndBuckets
               \/ WriteReport \/ ReportFails \/ WriteManifest \/ ManifestFails
  PROVE  IInv'
  <1> USE DEF IInv, Phases, RunPhases
  <1>1. CASE EndServices \/ EndAccount \/ ListBuckets \/ EndBuckets
    BY <1>1 DEF EndServices, EndAccount, ListBuckets, EndBuckets, Goto, TypeOK, WroteInv
  <1>2. CASE ListFails
    BY <1>2, FaultCounted DEF ListFails, Abort, TypeOK, WroteInv
  <1>3. CASE WriteReport
    <2>1. TypeOK'
      BY <1>3 DEF WriteReport, TypeOK, ExitCode
    <2>2. WroteInv'
      BY <1>3 DEF WriteReport, WroteInv
    <2> QED BY <2>1, <2>2
  <1>4. CASE ReportFails
    BY <1>4, FaultCounted DEF ReportFails, TypeOK, WroteInv
  <1>5. CASE WriteManifest
    <2>1. File(Changes) \in [kind : {"absent", "torn", "complete"}, entries : SUBSET Entry]
      <3>1. \A j \in Items : result[j].before \in Values /\ result[j].was \in Values
        BY DEF TypeOK, Finding
      <3> QED BY <3>1 DEF File, Changes, Entry
    <2>2. TypeOK'
      BY <1>5, <2>1 DEF WriteManifest, TypeOK, ExitCode
    <2> QED BY <1>5, <2>2 DEF WriteManifest, WroteInv
  <1>6. CASE ManifestFails
    BY <1>6, FaultCounted DEF ManifestFails, TypeOK, WroteInv, Torn
  <1> QED BY <1>1, <1>2, <1>3, <1>4, <1>5, <1>6

\* A rollback keeps it: it leaves the findings of the last run alone.
LEMMA RollbackInv ==
  ASSUME IInv, StartRollback \/ EndRollback \/ RollbackReportFails \/ \E e \in pending : UndoEntry(e) \/ UndoFails(e)
  PROVE  IInv'
  <1> USE DEF IInv, Phases, RunPhases
  <1>1. CASE StartRollback
    BY <1>1 DEF StartRollback, TypeOK, WroteInv
  <1>2. CASE EndRollback
    BY <1>2 DEF EndRollback, TypeOK, WroteInv, ExitCode
  <1>5. CASE RollbackReportFails
    BY <1>5, FaultCounted DEF RollbackReportFails, TypeOK, WroteInv
  <1>3. ASSUME NEW e \in pending, UndoEntry(e) PROVE IInv'
    <2>1. e \in Entry /\ Outcome(e) \in {"PASS", "MANUAL", "SKIP"}
      BY DEF TypeOK, Outcome
    <2>2. cfg' \in [Items -> Values]
      BY <1>3, <2>1 DEF UndoEntry, TypeOK, Entry
    <2>3. /\ pending' \in SUBSET Entry
          /\ undo' \in [Items -> {"none", "PASS", "MANUAL", "SKIP", "ERROR"}]
      BY <1>3, <2>1 DEF UndoEntry, TypeOK
    <2>4. UNCHANGED <<phase, mode, step, reading, result, manifest, exit, wrote,
                      start, proposed, count>>
      BY <1>3 DEF UndoEntry
    <2>5. TypeOK'
      BY <2>2, <2>3, <2>4 DEF TypeOK
    <2> QED BY <1>3, <2>5 DEF UndoEntry, NextEntry, WroteInv
  <1>4. ASSUME NEW e \in pending, UndoFails(e) PROVE IInv'
    BY <1>4, FaultCounted DEF UndoFails, NextEntry, TypeOK, WroteInv
  <1> QED BY <1>1, <1>2, <1>3, <1>4, <1>5

\* Every step preserves the invariant.
LEMMA StepInv == IInv /\ [Next]_vars => IInv'
  <1> SUFFICES ASSUME IInv, [Next]_vars PROVE IInv'
    OBVIOUS
  <1>1. CASE StartRun
    <2>1. NoFinding \in Finding
      BY ValuesKnown DEF NoFinding, Finding, Statuses
    <2>2. mode' \in {"audit", "plan", "apply"}
      BY <1>1, RemediationAssumption DEF StartRun
    <2> QED BY <1>1, <2>1, <2>2, ValuesKnown
            DEF StartRun, IInv, TypeOK, WroteInv, Phases, RunPhases
  <1>2. CASE Advance
    BY <1>2, CheckInv, StageInv, RollbackInv DEF Advance
  <1>3. CASE StartRollback
    BY <1>3, RollbackInv
  <1>4. CASE Kill
    BY <1>4 DEF Kill, IInv, TypeOK, WroteInv, Phases, RunPhases, Torn
  <1>5. CASE Drift
    BY <1>5, ValuesKnown, FaultCounted DEF Drift, IInv, TypeOK, WroteInv
  <1>6. CASE UNCHANGED vars
    BY <1>6 DEF vars, IInv, TypeOK, WroteInv
  <1> QED BY <1>1, <1>2, <1>3, <1>4, <1>5, <1>6 DEF Next

\* The invariant holds throughout.
LEMMA Invariance == Spec => []IInv
  BY InitInv, StepInv, PTL DEF Spec

\* The variables of the life cycle keep their types: in particular the manifest
\* never records something that is not the value of a setting.
THEOREM TypeCorrect == Spec => []TypeOK
  BY Invariance, PTL DEF IInv

\* Only an apply that comes to its end writes a complete manifest.
LEMMA WritesManifestIs ==
  ASSUME IInv, Next, WritesManifest
  PROVE  WriteManifest
  <1>1. phase = "manifest" /\ phase' = "idle" /\ exit' # "killed" /\ count'.faults = count.faults
    BY DEF WritesManifest
  <1>2. \A kind \in FaultKinds \ {"drift"} : ~Fails(kind)
    BY <1>1, FaultCounted DEF IInv
  <1>3. ASSUME NEW i \in Items, Check(i) PROVE FALSE
    BY <1>1, <1>2, <1>3 DEF Check, Read, ReadFails, Assess, Put, PutUnsuccessful, PutFails,
                            PutReplyLost, FaultKinds
  <1>4. ~(EndServices \/ EndAccount \/ ListBuckets \/ ListFails \/ EndBuckets \/ WriteReport
          \/ ReportFails \/ ManifestFails)
    BY <1>1, <1>2 DEF EndServices, EndAccount, ListBuckets, ListFails, EndBuckets, Goto,
                      WriteReport, ReportFails, ManifestFails, FaultKinds
  <1>5. ~(StartRun \/ StartRollback \/ EndRollback \/ RollbackReportFails \/ Kill \/ Drift)
    BY <1>1 DEF StartRun, StartRollback, EndRollback, RollbackReportFails, Kill, Drift
  <1>6. ASSUME NEW e \in pending, UndoEntry(e) \/ UndoFails(e) PROVE FALSE
    BY <1>1, <1>6 DEF UndoEntry, UndoFails, NextEntry
  <1> QED BY <1>3, <1>4, <1>5, <1>6 DEF Next, Advance

\* A complete change manifest accounts for every setting that the run has changed,
\* whichever calls fail or lose their answers and whoever else changes settings.
THEOREM EvidenceIsComplete == Spec => EvidenceComplete
  <1> DEFINE Accounted == \A i \in wrote : \/ \E e \in manifest'.entries : e.item = i
                                          \/ (result[i].status = "ERROR" /\ exit' = "2")
  <1>1. ASSUME IInv, WriteManifest PROVE Accounted
    <2> SUFFICES ASSUME NEW i \in wrote, result[i].status # "ERROR" \/ exit' # "2"
                 PROVE  \E e \in manifest'.entries : e.item = i
      OBVIOUS
    <2>1. i \in Items
      BY <1>1 DEF IInv, TypeOK
    <2>2. result[i].status # "ERROR"
      BY <1>1, <2>1 DEF WriteManifest, ExitCode, RunStatuses
    <2>3. result[i].changed
      BY <1>1, <2>1, <2>2 DEF WriteManifest, IInv, WroteInv, RunPhases
    <2>4. [item |-> i, before |-> result[i].before, was |-> result[i].was] \in Changes
      BY <2>1, <2>3 DEF Changes
    <2>5. manifest'.entries = Changes
      BY <1>1 DEF WriteManifest, File
    <2> QED BY <2>4, <2>5
  <1>2. IInv /\ [Next]_vars => [WritesManifest => Accounted]_vars
    BY <1>1, WritesManifestIs
  <1> QED BY <1>2, Invariance, PTL DEF Spec, EvidenceComplete

\* A run exits with 0 only when the manifest on disk lists all it has changed: an
\* abort, a report or a manifest that fails and a kill are told by the exit code.
THEOREM ExitZeroMeansRecordedHolds == Spec => ExitZeroMeansRecorded
  <1> DEFINE Recorded == \A i \in wrote : \E e \in manifest'.entries : e.item = i
             EndsWell == exit' = "0" /\ phase' = "idle" /\ phase \in RunPhases
  <1>1. ASSUME IInv, WriteManifest, exit' = "0" PROVE Recorded
    <2> SUFFICES ASSUME NEW i \in wrote PROVE \E e \in manifest'.entries : e.item = i
      OBVIOUS
    <2>1. i \in Items /\ result[i].changed
      BY <1>1 DEF WriteManifest, IInv, TypeOK, WroteInv, ExitCode, RunStatuses, RunPhases
    <2>2. [item |-> i, before |-> result[i].before, was |-> result[i].was] \in manifest'.entries
      BY <1>1, <2>1 DEF WriteManifest, File, Changes
    <2> QED BY <2>2
  <1>2. ASSUME IInv, EndsWell, Next PROVE WriteManifest \/ wrote = {}
    <2>1. \A i \in Items : ~Check(i)
      BY <1>2 DEF Check, Read, ReadFails, Report, Assess, Put, PutUnsuccessful, PutFails, PutReplyLost,
                  PutRaises, Abort, MayBegin, Deciding, MustWrite, RunPhases
    <2>2. WriteReport => mode # "apply"
      BY <1>2 DEF WriteReport
    <2>3. mode # "apply" => wrote = {}
      BY <1>2 DEF IInv, WroteInv
    <2>4. ~(EndServices \/ EndAccount \/ ListBuckets \/ ListFails \/ EndBuckets \/ ReportFails
            \/ ManifestFails)
      BY <1>2 DEF EndServices, EndAccount, ListBuckets, ListFails, EndBuckets, Goto, Abort, ReportFails,
                  ManifestFails
    <2>5. ~(StartRun \/ StartRollback \/ EndRollback \/ RollbackReportFails \/ Kill \/ Drift)
      BY <1>2 DEF StartRun, StartRollback, EndRollback, RollbackReportFails, Kill, Drift, RunPhases
    <2>6. \A e \in pending : ~(UndoEntry(e) \/ UndoFails(e))
      BY <1>2 DEF UndoEntry, UndoFails, NextEntry, RunPhases
    <2> QED BY <1>2, <2>1, <2>2, <2>3, <2>4, <2>5, <2>6 DEF Next, Advance
  <1>3. IInv /\ [Next]_vars => [EndsWell => Recorded]_vars
    BY <1>1, <1>2
  <1> QED BY <1>3, Invariance, PTL DEF Spec, ExitZeroMeansRecorded
-----------------------------------------------------------------------------
(***************************************************************************)
(* The second invariant says what the findings, the manifest, the plan and *)
(* the rollback have to do with what AWS holds.                            *)
(***************************************************************************)
\* No call has failed and nobody else has changed a setting.
Clean == count.faults = 0 /\ count.drift = 0

\* AWS holds values of the right kind, whoever writes them.
SettingsInv == \A i \in Items : cfg[i] \in Settings(i)

\* What the current run knows about one setting: what it has read is what AWS
\* holds, or the failed read of a bucket setting; what it has reported is true;
\* and without disturbance both agree with what it found at its start.
Told(i) ==
    /\ step[i] # "todo" => i \in Scope
    /\ step[i] # "done" => result[i] = NoFinding /\ (count.drift = 0 => cfg[i] = start[i])
    /\ step[i] = "read" =>
          /\ reading[i] \in Settings(i)
          /\ count.drift = 0 => \/ reading[i] = cfg[i]
                                \/ reading[i] = "none" /\ Ctl(i) \in {"AWS-S3-004", "AWS-S3-005"}
          /\ Clean => reading[i] = cfg[i]
    /\ result[i].status = "PASS" /\ Ctl(i) # "AWS-VPC-001" /\ count.drift = 0
          => Compliant(i, cfg[i])
    /\ result[i].changed =>
          /\ result[i].before \in Settings(i)
          /\ Ctl(i) = "AWS-EBS-001" => result[i].before = "off"
          /\ Clean => Ctl(i) = "AWS-VPC-001" \/ result[i].before = result[i].was
    /\ step[i] = "done" /\ Clean =>
          /\ result[i].planned <=> mode = "plan" /\ ~Compliant(i, start[i])
          /\ FlowLogDestination => (result[i].changed <=> mode = "apply" /\ ~Compliant(i, start[i]))

RunInv == phase \in RunPhases => \A i \in Items : Told(i)

\* A stage is entered when the stages before it are finished.
StageOrder ==
    /\ phase \in RunPhases \ {"services"} => Finished(RegionScope)
    /\ phase \in {"listing", "buckets", "report", "manifest"} => Finished(AccountScope)
    /\ phase \in {"report", "manifest"} => Finished(BucketScope)
    /\ phase = "manifest" => mode = "apply"
    /\ phase # "idle" => exit = "none"

\* The manifest on disk has one entry for a setting, with a value that may be
\* put back.
ManifestInv ==
    /\ \A e, d \in manifest.entries : e.item = d.item => e = d
    /\ \A e \in manifest.entries :
          /\ e.before \in Settings(e.item)
          /\ Ctl(e.item) = "AWS-EBS-001" => e.before = "off"
          /\ Clean => Ctl(e.item) = "AWS-VPC-001" \/ e.before = e.was

\* A completed plan proposes the settings in scope that did not comply.
PlanInv ==
    proposed.known /\ Clean =>
        proposed.items = {i \in Scope : ~Compliant(i, proposed.at[i])}

\* The entries a rollback has replayed have an outcome, and what it has put back
\* is not overwritten by the entries after it.
UndoInv ==
    phase = "rollback" =>
        /\ pending \subseteq manifest.entries
        /\ \A e \in manifest.entries \ pending :
              /\ undo[e.item] \in {Outcome(e), "ERROR"}
              /\ count.drift = 0 /\ undo[e.item] = "PASS" /\ Undoable(e) => cfg[e.item] = e.before

LifeInv == SettingsInv /\ RunInv /\ StageOrder /\ ManifestInv /\ PlanInv /\ UndoInv

-----------------------------------------------------------------------------
\* The fields of a setting, and the settings that go with the undo of an entry.
LEMMA SettingFacts ==
  ASSUME NEW i \in Items
  PROVE  /\ Desired(i) \in Settings(i) /\ Compliant(i, Desired(i))
         /\ Ctl(i) = "AWS-VPC-001" => "logged" \in Settings(i)
         /\ Ctl(i) \in {"AWS-S3-004", "AWS-S3-005"} =>
               "none" \in Settings(i) /\ ~Compliant(i, "none")
         /\ Ctl(i) = "AWS-EBS-001" => \A v \in Settings(i) : ~Compliant(i, v) => v = "off"
         /\ \A j \in Items : Ctl(j) = Ctl(i) => Settings(j) = Settings(i)
  BY DEF Desired, Settings, Compliant

LEMMA UndoTargetIs ==
  ASSUME NEW e \in Entry
  PROVE  UndoTarget(e) \in Items /\ Ctl(UndoTarget(e)) = Ctl(e.item)
  <1>1. e.item \in Items
    BY DEF Entry
  <1>2. CASE Ctl(e.item) = "AWS-EBS-001"
    <2>1. "AWS-EBS-001" \in Controls \cap RegionControls
      BY <1>1, <1>2 DEF Items, Ctl, AccountControls, BucketControls, RegionControls
    <2>2. <<"AWS-EBS-001", RollbackRegion>> \in Items
      BY <2>1, RemediationAssumption DEF Items
    <2> QED BY <1>2, <2>2 DEF UndoTarget, Ctl
  <1> QED BY <1>1, <1>2 DEF UndoTarget

\* What a disturbance counts.
LEMMA CountFacts ==
  ASSUME TypeOK, NEW kind, Fails(kind)
  PROVE  /\ kind = "drift" => count'.drift # 0
         /\ kind # "drift" => count'.drift = count.drift
         /\ ~Clean'
  BY DEF Fails, TypeOK, Clean

\* A step that leaves a setting alone leaves true what is known about it.
LEMMA ToldFrame ==
  ASSUME NEW i \in Items, Told(i), Clean' => Clean, count'.drift = 0 => count.drift = 0,
         step'[i] = step[i], result'[i] = result[i], reading'[i] = reading[i],
         cfg'[i] = cfg[i], start' = start, mode' = mode
  PROVE  Told(i)'
  BY DEF Told

\* Nor does another actor make it untrue, since it is counted.
LEMMA ToldDrift ==
  ASSUME NEW i \in Items, Told(i), count'.drift # 0, UNCHANGED <<step, result, reading, start, mode>>
  PROVE  Told(i)'
  BY DEF Told, Clean

LEMMA InitLife == Init => LifeInv
  <1> SUFFICES ASSUME Init PROVE LifeInv
    OBVIOUS
  <1>1. SettingsInv
    BY InitialConfigsAssumption DEF Init, SettingsInv
  <1>2. RunInv /\ StageOrder /\ UndoInv
    BY DEF Init, RunInv, StageOrder, UndoInv, RunPhases
  <1>3. ManifestInv /\ PlanInv
    BY DEF Init, ManifestInv, PlanInv, NoFile, NoPlan
  <1> QED BY <1>1, <1>2, <1>3 DEF LifeInv
-----------------------------------------------------------------------------
\* What a step of a check does to its own setting.
LEMMA ReadTold ==
  ASSUME IInv, LifeInv, NEW i \in Items, Read(i)
  PROVE  Told(i)'
  <1>1. Told(i) /\ step[i] = "todo" /\ i \in Scope
    BY DEF Read, MayBegin, LifeInv, RunInv, RunPhases
  <1>2. step'[i] = "read" /\ reading'[i] = cfg[i]
    BY DEF Read, IInv, TypeOK
  <1> QED BY <1>1, <1>2 DEF Told, Read, LifeInv, SettingsInv, Clean

LEMMA ReadFailsTold ==
  ASSUME IInv, LifeInv, NEW i \in Items, ReadFails(i)
  PROVE  Told(i)'
  <1>1. Told(i) /\ step[i] = "todo" /\ i \in Scope
    BY DEF ReadFails, MayBegin, LifeInv, RunInv, RunPhases
  <1>2. count'.drift = count.drift /\ ~Clean' /\ cfg' = cfg /\ start' = start
    BY CountFacts DEF ReadFails, IInv
  <1>3. CASE Ctl(i) \in {"AWS-S3-004", "AWS-S3-005"}
    <2>1. step'[i] = "read" /\ reading'[i] = "none" /\ result' = result
      BY <1>3 DEF ReadFails, IInv, TypeOK
    <2> QED BY <1>1, <1>2, <1>3, <2>1, SettingFacts DEF Told
  <1>4. CASE Ctl(i) \notin {"AWS-S3-004", "AWS-S3-005"}
    <2>1. step'[i] = "done" /\ result'[i] = ErrorFinding
      BY <1>4 DEF ReadFails, Report, IInv, TypeOK
    <2>2. ErrorFinding.status = "ERROR" /\ ErrorFinding.changed = FALSE
      BY DEF ErrorFinding, NoFinding
    <2> QED BY <1>1, <1>2, <2>1, <2>2 DEF Told
  <1> QED BY <1>3, <1>4

LEMMA AssessTold ==
  ASSUME IInv, LifeInv, NEW i \in Items, Assess(i)
  PROVE  Told(i)'
  <1>1. Told(i) /\ step[i] = "read"
    BY DEF Assess, Deciding, LifeInv, RunInv
  <1>2. /\ step'[i] = "done" /\ result'[i].changed = FALSE
        /\ result'[i].planned = (~Compliant(i, reading[i]) /\ mode = "plan")
        /\ result'[i].status = "PASS" <=> Compliant(i, reading[i])
    BY DEF Assess, Report, NoFinding, IInv, TypeOK
  <1>3. UNCHANGED <<cfg, start, mode, count>> /\ ~MustWrite(i) /\ Deciding(i)
    BY DEF Assess
  <1>4. FlowLogDestination => Compliant(i, reading[i]) \/ mode # "apply"
    BY <1>3 DEF MustWrite, NoDestination
  <1>5. Clean => reading[i] = start[i]
    BY <1>1 DEF Told, Clean
  <1>6. count.drift = 0 /\ Compliant(i, reading[i]) => Compliant(i, cfg[i])
    BY <1>1, SettingFacts DEF Told
  <1> QED BY <1>1, <1>2, <1>3, <1>4, <1>5, <1>6 DEF Told, Clean

\* A finding that says changed: what it records may be put back.
LEMMA AppliedIs ==
  ASSUME IInv, LifeInv, NEW i \in Items, MustWrite(i)
  PROVE  /\ Told(i) /\ step[i] = "read" /\ mode = "apply"
         /\ Applied(i).changed /\ Applied(i).planned = FALSE
         /\ Applied(i).before \in Settings(i)
         /\ Ctl(i) = "AWS-EBS-001" => Applied(i).before = "off"
         /\ Clean => Ctl(i) = "AWS-VPC-001" \/ Applied(i).before = Applied(i).was
         /\ Clean => ~Compliant(i, cfg[i]) /\ ~Compliant(i, start[i])
  <1>1. /\ Told(i) /\ step[i] = "read" /\ mode = "apply" /\ ~Compliant(i, reading[i])
    BY DEF MustWrite, Deciding, LifeInv, RunInv
  <1>2. reading[i] \in Settings(i) /\ (Clean => reading[i] = cfg[i] /\ reading[i] = start[i])
    BY <1>1 DEF Told, Clean
  <1> QED BY <1>1, <1>2, SettingFacts DEF Applied, RecordedBefore

LEMMA PutTold ==
  ASSUME IInv, LifeInv, NEW i \in Items, Put(i)
  PROVE  Told(i)'
  <1>1. /\ step'[i] = "done" /\ result'[i] = Applied(i) /\ cfg'[i] = Desired(i)
        /\ UNCHANGED <<start, mode, count>> /\ MustWrite(i)
    BY DEF Put, Report, IInv, TypeOK
  <1>2. i \in Scope'
    BY <1>1, AppliedIs DEF Told, Scope
  <1>3. Compliant(i, Desired(i)) /\ (Clean' <=> Clean)
    BY <1>1, SettingFacts DEF Clean
  <1>4. /\ result'[i].changed /\ result'[i].planned = FALSE /\ mode' = "apply"
        /\ result'[i].before \in Settings(i)
        /\ Ctl(i) = "AWS-EBS-001" => result'[i].before = "off"
        /\ Clean' => Ctl(i) = "AWS-VPC-001" \/ result'[i].before = result'[i].was
        /\ Clean' => ~Compliant(i, start'[i])
    BY <1>1, <1>3, AppliedIs
  <1> QED BY <1>1, <1>2, <1>3, <1>4 DEF Told

LEMMA PutUnsuccessfulTold ==
  ASSUME IInv, LifeInv, NEW i \in Items, PutUnsuccessful(i)
  PROVE  Told(i)'
  <1>1. /\ step'[i] = "done" /\ result'[i] = Applied(i) /\ Ctl(i) = "AWS-VPC-001"
        /\ UNCHANGED <<cfg, start, mode>> /\ MustWrite(i) /\ ~Clean'
    BY CountFacts DEF PutUnsuccessful, Report, IInv, TypeOK
  <1> QED BY <1>1, AppliedIs, SettingFacts DEF Told

LEMMA PutRaisesTold ==
  ASSUME IInv, LifeInv, NEW i \in Items, PutRaises(i), ~Clean', phase' \in RunPhases
  PROVE  Told(i)'
  <1>1. Ctl(i) \notin AccountControls
    BY DEF PutRaises, Abort, RunPhases
  <1>2. step'[i] = "done" /\ result'[i] = ErrorFinding /\ MustWrite(i)
    BY <1>1 DEF PutRaises, Report, IInv, TypeOK
  <1>3. ErrorFinding.status = "ERROR" /\ ErrorFinding.changed = FALSE
    BY DEF ErrorFinding, NoFinding
  <1> QED BY <1>2, <1>3, AppliedIs DEF Told

\* And to the others: nothing.
LEMMA CheckFrame ==
  ASSUME IInv, NEW i \in Items, Check(i)
  PROVE  /\ \A j \in Items \ {i} : /\ step'[j] = step[j] /\ result'[j] = result[j]
                                   /\ reading'[j] = reading[j] /\ cfg'[j] = cfg[j]
         /\ step[i] # "done" /\ phase \in RunPhases
         /\ UNCHANGED <<start, mode, manifest, pending, undo, proposed>>
         /\ (phase' = phase /\ exit' = exit) \/ Abort
         /\ Clean' => Clean
         /\ count'.drift = count.drift
         /\ cfg'[i] \in {cfg[i], Desired(i)}
  <1> USE DEF IInv, TypeOK
  <1>1. CASE Read(i)
    BY <1>1 DEF Read, MayBegin, RunPhases, Clean
  <1>2. CASE ReadFails(i)
    BY <1>2, CountFacts DEF ReadFails, Report, MayBegin, RunPhases
  <1>3. CASE Assess(i)
    BY <1>3 DEF Assess, Report, Deciding, Clean
  <1>4. CASE Put(i)
    BY <1>4 DEF Put, Report, MustWrite, Deciding, Clean
  <1>5. CASE PutUnsuccessful(i)
    BY <1>5, CountFacts DEF PutUnsuccessful, Report, MustWrite, Deciding
  <1>6. CASE PutFails(i)
    BY <1>6, CountFacts DEF PutFails, PutRaises, Report, MustWrite, Deciding
  <1>7. CASE PutReplyLost(i)
    BY <1>7, CountFacts DEF PutReplyLost, PutRaises, Report, MustWrite, Deciding
  <1> QED BY <1>1, <1>2, <1>3, <1>4, <1>5, <1>6, <1>7 DEF Check

LEMMA CheckLife ==
  ASSUME IInv, LifeInv, NEW i \in Items, Check(i)
  PROVE  LifeInv'
  <1>f. /\ \A j \in Items \ {i} : /\ step'[j] = step[j] /\ result'[j] = result[j]
                                  /\ reading'[j] = reading[j] /\ cfg'[j] = cfg[j]
        /\ step[i] # "done" /\ phase \in RunPhases
        /\ UNCHANGED <<start, mode, manifest, pending, undo, proposed>>
        /\ (phase' = phase /\ exit' = exit) \/ Abort
        /\ Clean' => Clean
        /\ count'.drift = count.drift
        /\ cfg'[i] \in {cfg[i], Desired(i)}
    BY CheckFrame
  <1>1. SettingsInv'
    BY <1>f, SettingFacts DEF LifeInv, SettingsInv
  <1>2. RunInv'
    <2> SUFFICES ASSUME phase' \in RunPhases, NEW j \in Items PROVE Told(j)'
      BY DEF RunInv
    <2>1. CASE j = i
      <3>1. PutFails(i) \/ PutReplyLost(i) => PutRaises(i) /\ ~Clean'
        BY CountFacts DEF PutFails, PutReplyLost, IInv
      <3> QED BY <2>1, <3>1, ReadTold, ReadFailsTold, AssessTold, PutTold, PutUnsuccessfulTold,
                 PutRaisesTold DEF Check
    <2>2. CASE j # i
      <3>1. Told(j)
        BY <1>f DEF LifeInv, RunInv
      <3> QED BY <2>2, <3>1, <1>f, ToldFrame
    <2> QED BY <2>1, <2>2
  <1>3. StageOrder'
    <2>1. \A S : Finished(S) /\ S \subseteq Items => Finished(S)'
      BY <1>f DEF Finished
    <2>2. RegionScope \subseteq Items /\ AccountScope \subseteq Items /\ BucketScope \subseteq Items
      BY DEF RegionScope, AccountScope, BucketScope, Scope
    <2>3. CASE phase' = phase /\ exit' = exit
      <3>1. Finished(RegionScope) => Finished(RegionScope)'
        BY <2>1, <2>2
      <3>2. Finished(AccountScope) => Finished(AccountScope)'
        BY <2>1, <2>2
      <3>3. Finished(BucketScope) => Finished(BucketScope)'
        BY <2>1, <2>2
      <3> QED BY <2>3, <3>1, <3>2, <3>3, <1>f DEF LifeInv, StageOrder
    <2>4. CASE Abort
      BY <2>4 DEF Abort, StageOrder, RunPhases
    <2> QED BY <2>3, <2>4, <1>f
  <1>4. ManifestInv' /\ PlanInv'
    BY <1>f DEF LifeInv, ManifestInv, PlanInv
  <1>5. UndoInv'
    BY <1>f DEF UndoInv, Abort, RunPhases
  <1> QED BY <1>1, <1>2, <1>3, <1>4, <1>5 DEF LifeInv
-----------------------------------------------------------------------------
\* At the end of a run every setting in scope has its finding, and no other one.
LEMMA FindingsComplete ==
  ASSUME LifeInv, phase \in {"report", "manifest"}, Clean, NEW i \in Items
  PROVE  /\ result[i].planned <=> i \in Scope /\ mode = "plan" /\ ~Compliant(i, start[i])
         /\ FlowLogDestination => (result[i].changed <=>
               i \in Scope /\ mode = "apply" /\ ~Compliant(i, start[i]))
  <1>1. Told(i)
    BY DEF LifeInv, RunInv, RunPhases
  <1>2. CASE i \in Scope
    <2>1. i \in RegionScope \/ i \in AccountScope \/ i \in BucketScope
      BY <1>2 DEF RegionScope, AccountScope, BucketScope, Items, Ctl
    <2>2. step[i] = "done"
      BY <2>1 DEF LifeInv, StageOrder, Finished, RunPhases
    <2> QED BY <1>1, <1>2, <2>2 DEF Told
  <1>3. CASE i \notin Scope
    <2>1. result[i] = NoFinding
      BY <1>1, <1>3 DEF Told
    <2> QED BY <1>3, <2>1 DEF NoFinding
  <1> QED BY <1>2, <1>3

\* A step that only moves from one stage to the next.
LEMMA GotoLife ==
  ASSUME LifeInv, phase \in RunPhases, phase' \in RunPhases, StageOrder',
         UNCHANGED <<cfg, mode, step, reading, result, manifest, pending, undo, exit, wrote,
                     start, proposed, count>>
  PROVE  LifeInv'
  <1>1. RunInv'
    BY DEF LifeInv, RunInv, Told, Clean
  <1>2. UndoInv'
    BY DEF UndoInv, RunPhases
  <1> QED BY <1>1, <1>2 DEF LifeInv, SettingsInv, ManifestInv, PlanInv, Clean

\* A step that ends the process, with the manifest as it was or truncated.
LEMMA EndLife ==
  ASSUME LifeInv, phase' = "idle", manifest' \in {manifest, Torn},
         UNCHANGED <<cfg, proposed>>, Clean' => Clean
  PROVE  LifeInv'
  <1>1. RunInv' /\ StageOrder' /\ UndoInv'
    BY DEF RunInv, StageOrder, UndoInv, RunPhases
  <1>2. ManifestInv'
    BY DEF LifeInv, ManifestInv, Torn
  <1> QED BY <1>1, <1>2 DEF LifeInv, SettingsInv, PlanInv

LEMMA StageLife ==
  ASSUME IInv, LifeInv, EndServices \/ EndAccount \/ ListBuckets \/ ListFails \/ EndBuckets
                        \/ WriteReport \/ ReportFails \/ WriteManifest \/ ManifestFails
  PROVE  LifeInv'
  <1>c. \A kind : Fails(kind) => ~Clean'
    BY CountFacts DEF IInv
  <1>1. CASE EndServices
    <2>1. ~S3Selected => BucketScope = {} /\ AccountScope = {}
      BY DEF S3Selected, BucketScope, AccountScope, Scope, Items, Ctl
    <2>2. /\ phase = "services" /\ Finished(RegionScope)
          /\ phase' = IF S3Selected THEN "account" ELSE "report"
          /\ UNCHANGED <<cfg, mode, step, reading, result, manifest, pending, undo, exit, wrote,
                         start, proposed, count>>
      BY <1>1 DEF EndServices, Goto
    <2>3. StageOrder'
      BY <2>1, <2>2 DEF LifeInv, StageOrder, Finished, RunPhases
    <2> QED BY <2>2, <2>3, GotoLife DEF RunPhases
  <1>2. CASE EndAccount \/ ListBuckets \/ EndBuckets
    <2>1. /\ phase \in RunPhases /\ phase' \in RunPhases
          /\ UNCHANGED <<cfg, mode, step, reading, result, manifest, pending, undo, exit, wrote,
                         start, proposed, count>>
      BY <1>2 DEF EndAccount, ListBuckets, EndBuckets, Goto, RunPhases
    <2>2. StageOrder'
      BY <1>2 DEF EndAccount, ListBuckets, EndBuckets, Goto, LifeInv, StageOrder, Finished, RunPhases
    <2> QED BY <2>1, <2>2, GotoLife
  <1>3. CASE ListFails \/ ReportFails \/ ManifestFails
    BY <1>3, <1>c, EndLife DEF ListFails, ReportFails, ManifestFails, Abort
  <1>4. CASE WriteReport
    <2>1. PlanInv'
      <3> SUFFICES ASSUME proposed'.known, Clean'
                   PROVE  proposed'.items = {i \in Scope : ~Compliant(i, proposed'.at[i])}
        BY DEF PlanInv
      <3>1. Clean /\ phase = "report"
        BY <1>4 DEF WriteReport, Clean
      <3>2. CASE mode # "plan"
        BY <1>4, <3>1, <3>2 DEF WriteReport, LifeInv, PlanInv
      <3>3. CASE mode = "plan"
        <4>1. proposed'.items = {i \in Items : result[i].planned} /\ proposed'.at = start
          BY <1>4, <3>3 DEF WriteReport
        <4>2. Scope \subseteq Items
          BY DEF Scope
        <4> QED BY <3>1, <3>3, <4>1, <4>2, FindingsComplete
      <3> QED BY <3>2, <3>3
    <2>2. /\ phase = "report" /\ phase' \in {"manifest", "idle"}
          /\ phase' = "manifest" => mode = "apply" /\ exit' = exit
          /\ UNCHANGED <<cfg, mode, step, reading, result, manifest, start, count>>
      BY <1>4 DEF WriteReport
    <2>3. StageOrder'
      BY <2>2 DEF LifeInv, StageOrder, Finished, RunPhases
    <2>4. RunInv'
      BY <2>2 DEF LifeInv, RunInv, Told, Clean, RunPhases
    <2>5. UndoInv' /\ SettingsInv' /\ ManifestInv'
      BY <2>2 DEF LifeInv, UndoInv, SettingsInv, ManifestInv, Clean
    <2> QED BY <2>1, <2>3, <2>4, <2>5 DEF LifeInv
  <1>5. CASE WriteManifest
    <2>1. /\ phase = "manifest" /\ phase' = "idle" /\ manifest'.entries = Changes
          /\ UNCHANGED <<cfg, proposed, count>>
      BY <1>5 DEF WriteManifest, File
    <2>2. ManifestInv'
      <3>1. \A e, d \in Changes : e.item = d.item => e = d
        BY DEF Changes
      <3>2. ASSUME NEW e \in Changes
            PROVE  /\ e.before \in Settings(e.item)
                   /\ Ctl(e.item) = "AWS-EBS-001" => e.before = "off"
                   /\ Clean => Ctl(e.item) = "AWS-VPC-001" \/ e.before = e.was
        <4>1. PICK i \in Items : /\ result[i].changed
                                 /\ e.item = i /\ e.before = result[i].before /\ e.was = result[i].was
          BY DEF Changes
        <4>2. Told(i)
          BY <2>1 DEF LifeInv, RunInv, RunPhases
        <4> QED BY <4>1, <4>2 DEF Told
      <3> QED BY <2>1, <3>1, <3>2 DEF ManifestInv, Clean
    <2>3. RunInv' /\ StageOrder' /\ UndoInv'
      BY <2>1 DEF RunInv, StageOrder, UndoInv, RunPhases
    <2> QED BY <2>1, <2>2, <2>3 DEF LifeInv, SettingsInv, PlanInv, Clean
  <1> QED BY <1>1, <1>2, <1>3, <1>4, <1>5

\* A replayed entry keeps what the entries before it have put back: only an
\* entry of AWS-EBS-001 reaches the setting of another, and it writes the same.
LEMMA UndoEntryLife ==
  ASSUME IInv, LifeInv, NEW e \in pending, UndoEntry(e)
  PROVE  LifeInv'
  <1>1. /\ phase = "rollback" /\ phase' = phase /\ exit' = exit /\ pending' = pending \ {e}
        /\ undo' = [undo EXCEPT ![e.item] = Outcome(e)]
        /\ UNCHANGED <<mode, step, reading, result, manifest, start, proposed, count>>
        /\ cfg' = IF Outcome(e) = "PASS" THEN [cfg EXCEPT ![UndoTarget(e)] = e.before] ELSE cfg
    BY DEF UndoEntry, NextEntry
  <1>2. e \in manifest.entries /\ e \in Entry /\ e.item \in Items
    BY <1>1 DEF LifeInv, UndoInv, IInv, TypeOK, Entry
  <1>3. UndoTarget(e) \in Items /\ Ctl(UndoTarget(e)) = Ctl(e.item)
    BY <1>2, UndoTargetIs
  <1>4. e.before \in Settings(UndoTarget(e))
    BY <1>2, <1>3, SettingFacts DEF LifeInv, ManifestInv
  <1>5. SettingsInv'
    BY <1>1, <1>3, <1>4 DEF LifeInv, SettingsInv, IInv, TypeOK
  <1>6. UndoInv'
    <2> SUFFICES ASSUME NEW d \in manifest.entries \ (pending \ {e})
                 PROVE  /\ undo'[d.item] \in {Outcome(d), "ERROR"}
                        /\ count.drift = 0 /\ undo'[d.item] = "PASS" /\ Undoable(d)
                              => cfg'[d.item] = d.before
      BY <1>1 DEF LifeInv, UndoInv
    <2>0. d \in Entry /\ d.item \in Items
      BY DEF IInv, TypeOK, Entry
    <2>1. CASE d = e
      <3>1. undo'[d.item] = Outcome(e)
        BY <1>1, <1>2, <2>1 DEF IInv, TypeOK
      <3>2. Outcome(e) = "PASS" /\ Undoable(e) => cfg'[e.item] = e.before
        BY <1>1, <1>2 DEF Undoable, IInv, TypeOK
      <3> QED BY <2>1, <3>1, <3>2
    <2>2. CASE d # e
      <3>1. d \in manifest.entries \ pending /\ d.item # e.item
        BY <1>2, <2>2 DEF LifeInv, ManifestInv
      <3>2. undo'[d.item] = undo[d.item]
        BY <1>1, <2>0, <3>1 DEF IInv, TypeOK
      <3>3. cfg[d.item] = d.before => cfg'[d.item] = d.before
        <4>1. CASE d.item = UndoTarget(e)
          <5>1. Ctl(e.item) = "AWS-EBS-001" /\ Ctl(d.item) = "AWS-EBS-001"
            BY <1>3, <3>1, <4>1 DEF UndoTarget
          <5>2. e.before = "off" /\ d.before = "off"
            BY <1>2, <5>1 DEF LifeInv, ManifestInv
          <5> QED BY <1>1, <1>3, <4>1, <5>2 DEF IInv, TypeOK
        <4>2. CASE d.item # UndoTarget(e)
          BY <1>1, <2>0, <4>2 DEF IInv, TypeOK
        <4> QED BY <4>1, <4>2
      <3> QED BY <1>1, <3>1, <3>2, <3>3 DEF LifeInv, UndoInv
    <2> QED BY <2>1, <2>2
  <1>7. RunInv' /\ StageOrder'
    BY <1>1 DEF LifeInv, RunInv, StageOrder, RunPhases
  <1>8. ManifestInv' /\ PlanInv'
    BY <1>1 DEF LifeInv, ManifestInv, PlanInv, Clean
  <1> QED BY <1>5, <1>6, <1>7, <1>8 DEF LifeInv

LEMMA UndoFailsLife ==
  ASSUME IInv, LifeInv, NEW e \in pending, UndoFails(e)
  PROVE  LifeInv'
  <1>1. /\ phase = "rollback" /\ phase' = phase /\ exit' = exit /\ pending' = pending \ {e}
        /\ undo' = [undo EXCEPT ![e.item] = "ERROR"]
        /\ UNCHANGED <<cfg, mode, step, reading, result, manifest, start, proposed>>
        /\ ~Clean' /\ count'.drift = count.drift
    BY CountFacts DEF UndoFails, NextEntry, IInv
  <1>2. e \in manifest.entries /\ e.item \in Items
    BY <1>1 DEF LifeInv, UndoInv, IInv, TypeOK, Entry
  <1>3. UndoInv'
    <2> SUFFICES ASSUME NEW d \in manifest.entries \ (pending \ {e})
                 PROVE  /\ undo'[d.item] \in {Outcome(d), "ERROR"}
                        /\ count.drift = 0 /\ undo'[d.item] = "PASS" /\ Undoable(d)
                              => cfg[d.item] = d.before
      BY <1>1 DEF LifeInv, UndoInv
    <2>0. d.item \in Items
      BY DEF IInv, TypeOK, Entry
    <2>1. CASE d = e
      BY <1>1, <1>2, <2>1 DEF IInv, TypeOK
    <2>2. CASE d # e
      <3>1. d \in manifest.entries \ pending /\ d.item # e.item
        BY <1>2, <2>2 DEF LifeInv, ManifestInv
      <3>2. undo'[d.item] = undo[d.item]
        BY <1>1, <2>0, <3>1 DEF IInv, TypeOK
      <3> QED BY <1>1, <3>1, <3>2 DEF LifeInv, UndoInv
    <2> QED BY <2>1, <2>2
  <1>4. RunInv' /\ StageOrder'
    BY <1>1 DEF LifeInv, RunInv, StageOrder, RunPhases
  <1>5. SettingsInv' /\ ManifestInv' /\ PlanInv'
    BY <1>1 DEF LifeInv, SettingsInv, ManifestInv, PlanInv
  <1> QED BY <1>3, <1>4, <1>5 DEF LifeInv

LEMMA StepLife == IInv /\ LifeInv /\ [Next]_vars => LifeInv'
  <1> SUFFICES ASSUME IInv, LifeInv, [Next]_vars PROVE LifeInv'
    OBVIOUS
  <1>1. CASE StartRun
    <2>1. /\ phase' = "services" /\ exit' = "none" /\ start' = cfg
          /\ step' = [i \in Items |-> "todo"] /\ result' = [i \in Items |-> NoFinding]
          /\ UNCHANGED <<cfg, manifest, proposed>>
          /\ count'.faults = count.faults /\ count'.drift = count.drift
      BY <1>1 DEF StartRun, IInv, TypeOK
    <2>2. RunInv'
      BY <2>1 DEF RunInv, Told, NoFinding
    <2>3. StageOrder' /\ UndoInv'
      BY <2>1 DEF StageOrder, UndoInv, RunPhases
    <2> QED BY <2>1, <2>2, <2>3 DEF LifeInv, SettingsInv, ManifestInv, PlanInv, Clean
  <1>2. CASE StartRollback
    <2>1. /\ phase' \in {"idle", "rollback"} /\ (phase' = "rollback" => exit' = "none")
          /\ pending' = manifest.entries
          /\ UNCHANGED <<cfg, manifest, proposed>>
          /\ count'.faults = count.faults /\ count'.drift = count.drift
      BY <1>2 DEF StartRollback, IInv, TypeOK
    <2>2. RunInv' /\ StageOrder' /\ UndoInv'
      BY <2>1 DEF RunInv, StageOrder, UndoInv, RunPhases
    <2> QED BY <2>1, <2>2 DEF LifeInv, SettingsInv, ManifestInv, PlanInv, Clean
  <1>3. CASE EndRollback
    BY <1>3, EndLife DEF EndRollback, Clean
  <1>8. CASE RollbackReportFails
    BY <1>8, EndLife, CountFacts DEF RollbackReportFails, IInv
  <1>4. CASE Advance
    BY <1>4, <1>3, <1>8, CheckLife, StageLife, UndoEntryLife, UndoFailsLife DEF Advance
  <1>5. CASE Kill
    BY <1>5, EndLife DEF Kill, Clean
  <1>6. CASE Drift
    <2>1. /\ count'.drift # 0 /\ ~Clean'
          /\ UNCHANGED <<phase, mode, step, reading, result, manifest, pending, undo, exit, wrote,
                         start, proposed>>
      BY <1>6, CountFacts DEF Drift, IInv
    <2>2. SettingsInv'
      BY <1>6 DEF Drift, LifeInv, SettingsInv, IInv, TypeOK
    <2>3. RunInv'
      BY <2>1, ToldDrift DEF LifeInv, RunInv
    <2>4. StageOrder' /\ ManifestInv' /\ PlanInv' /\ UndoInv'
      BY <2>1 DEF LifeInv, StageOrder, Finished, ManifestInv, PlanInv, UndoInv
    <2> QED BY <2>2, <2>3, <2>4 DEF LifeInv
  <1>7. CASE UNCHANGED vars
    BY <1>7 DEF vars, LifeInv, SettingsInv, RunInv, Told, StageOrder, Finished, ManifestInv,
                PlanInv, UndoInv, Clean
  <1> QED BY <1>1, <1>2, <1>4, <1>5, <1>6, <1>7 DEF Next

LEMMA LifeInvariance == Spec => []LifeInv
  BY Invariance, InitLife, StepLife, PTL DEF Spec
-----------------------------------------------------------------------------
\* At the end of a run each setting reported as PASS does comply in AWS, whatever
\* calls failed, as long as nobody else changed it; flow logs are left out.
THEOREM PassIsTrueHolds == Spec => []PassIsTrue
  <1>1. LifeInv => PassIsTrue
    BY DEF LifeInv, RunInv, Told, PassIsTrue, RunPhases
  <1> QED BY <1>1, LifeInvariance, PTL

\* Outside of a rollback only an apply changes a setting, and one that complied
\* only after a failed call or a change by somebody else.
THEOREM OnlyApplyMutatesHolds == Spec => OnlyApplyMutates
  <1> DEFINE Allowed == \A i \in Items :
               cfg'[i] # cfg[i] /\ count'.drift = count.drift /\ phase # "rollback" =>
                  /\ mode = "apply"
                  /\ Compliant(i, cfg[i]) => count.faults + count.drift > 0
  <1>1. ASSUME IInv, LifeInv, Next PROVE Allowed
    <2> SUFFICES ASSUME NEW i \in Items, cfg'[i] # cfg[i], count'.drift = count.drift,
                        phase # "rollback"
                 PROVE  /\ mode = "apply"
                        /\ Compliant(i, cfg[i]) => count.faults + count.drift > 0
      OBVIOUS
    <2>1. ~Drift
      BY <1>1, CountFacts DEF Drift, Fails, IInv, TypeOK
    <2>2. cfg' # cfg
      OBVIOUS
    <2>3. \E j \in Items : Put(j) \/ PutReplyLost(j)
      <3>1. ~(StartRun \/ StartRollback \/ Kill)
        BY <2>2 DEF StartRun, StartRollback, Kill
      <3>2. ~(\E e \in pending : UndoEntry(e) \/ UndoFails(e))
        BY DEF UndoEntry, UndoFails, NextEntry
      <3>3. ~(EndServices \/ EndAccount \/ ListBuckets \/ ListFails \/ EndBuckets \/ WriteReport
              \/ ReportFails \/ WriteManifest \/ ManifestFails \/ EndRollback \/ RollbackReportFails)
        BY <2>2 DEF EndServices, EndAccount, ListBuckets, ListFails, EndBuckets, Goto, WriteReport,
                    ReportFails, WriteManifest, ManifestFails, EndRollback, RollbackReportFails
      <3>4. PICK j \in Items : Check(j)
        BY <1>1, <2>1, <3>1, <3>2, <3>3 DEF Next, Advance
      <3> QED BY <2>2, <3>4 DEF Check, Read, ReadFails, Assess, PutUnsuccessful, PutFails
    <2>4. PICK j \in Items : Put(j) \/ PutReplyLost(j)
      BY <2>3
    <2>5. i = j /\ MustWrite(j)
      BY <1>1, <2>4 DEF Put, PutReplyLost, PutRaises, IInv, TypeOK
    <2>6. mode = "apply" /\ (Clean => ~Compliant(i, cfg[i]))
      BY <1>1, <2>5, AppliedIs
    <2>7. count.faults \in Nat /\ count.drift \in Nat
      BY <1>1 DEF IInv, TypeOK
    <2> QED BY <2>6, <2>7 DEF Clean
  <1>2. IInv /\ LifeInv /\ [Next]_vars => [Allowed]_vars
    BY <1>1
  <1> QED BY <1>2, Invariance, LifeInvariance, PTL DEF Spec, OnlyApplyMutates

\* An apply that starts on the configuration a plan started on changes what the
\* plan proposed, as long as no call fails, nobody else changes a setting and the
\* policy names a destination for flow logs.
THEOREM PlanPredictsApplyHolds == ASSUME FlowLogDestination PROVE Spec => PlanPredictsApply
  <1> DEFINE AsProposed == proposed.known /\ proposed.at = start /\ Clean
                             => {e.item : e \in manifest'.entries} = proposed.items
  <1>1. ASSUME IInv, LifeInv, WriteManifest PROVE AsProposed
    <2> SUFFICES ASSUME proposed.known, proposed.at = start, Clean
                 PROVE  {e.item : e \in manifest'.entries} = proposed.items
      OBVIOUS
    <2>1. phase = "manifest" /\ mode = "apply" /\ manifest'.entries = Changes
      BY <1>1 DEF WriteManifest, File, LifeInv, StageOrder
    <2>2. \A i \in Items : result[i].changed <=> i \in Scope /\ ~Compliant(i, start[i])
      BY <1>1, <2>1, FindingsComplete
    <2>3. {e.item : e \in Changes} = {i \in Items : result[i].changed}
      <3>1. \A e \in Changes : e.item \in Items /\ result[e.item].changed
        BY DEF Changes
      <3>2. ASSUME NEW i \in Items, result[i].changed PROVE \E e \in Changes : e.item = i
        <4>1. [item |-> i, before |-> result[i].before, was |-> result[i].was] \in Changes
          BY <3>2 DEF Changes
        <4> QED BY <4>1
      <3> QED BY <3>1, <3>2
    <2>4. Scope \subseteq Items
      BY DEF Scope
    <2>5. proposed.items = {i \in Scope : ~Compliant(i, start[i])}
      BY <1>1 DEF LifeInv, PlanInv
    <2> QED BY <2>1, <2>2, <2>3, <2>4, <2>5
  <1>2. IInv /\ LifeInv /\ [Next]_vars =>
          [/\ WritesManifest
           /\ proposed.known
           /\ proposed.at = start
           /\ count.faults = 0
           /\ count.drift = 0
           => {e.item : e \in manifest'.entries} = proposed.items]_vars
    BY <1>1, WritesManifestIs DEF Clean
  <1> QED BY <1>2, Invariance, LifeInvariance, PTL DEF Spec, PlanPredictsApply

\* A rollback that exits with 0 has put back every value the manifest records, but
\* for analyzers and the regions it does not visit; and when no call ever failed
\* the values are those the apply found.
THEOREM ExitZeroMeansRestoredHolds == Spec => ExitZeroMeansRestored
  <1> DEFINE Restored == \A e \in {d \in manifest.entries : Undoable(d)} :
                           /\ cfg'[e.item] = e.before
                           /\ count.faults = 0 => e.before = e.was
  <1>1. ASSUME IInv, LifeInv, [Next]_vars, phase = "rollback", exit' = "0", count.drift = 0
        PROVE  Restored
    <2>1. exit = "none"
      BY <1>1 DEF LifeInv, StageOrder
    <2>2. EndRollback
      <3>1. ~(StartRun \/ StartRollback \/ Kill \/ Drift)
        BY <1>1, <2>1 DEF StartRun, StartRollback, Kill, Drift
      <3>2. \A i \in Items : ~Check(i)
        BY <1>1, CheckFrame DEF RunPhases
      <3>3. ~(\E e \in pending : UndoEntry(e) \/ UndoFails(e))
        BY <1>1, <2>1 DEF UndoEntry, UndoFails
      <3>4. ~(EndServices \/ EndAccount \/ ListBuckets \/ ListFails \/ EndBuckets \/ WriteReport
              \/ ReportFails \/ WriteManifest \/ ManifestFails \/ RollbackReportFails)
        BY <1>1 DEF EndServices, EndAccount, ListBuckets, ListFails, EndBuckets, Goto, WriteReport,
                    ReportFails, WriteManifest, ManifestFails, RollbackReportFails
      <3> QED BY <1>1, <2>1, <3>1, <3>2, <3>3, <3>4 DEF Next, Advance, vars
    <2>3. pending = {} /\ cfg' = cfg /\ UndoStatuses \cap {"ERROR", "FAIL", "MANUAL"} = {}
      BY <1>1, <2>2 DEF EndRollback, ExitCode
    <2> SUFFICES ASSUME NEW e \in manifest.entries, Undoable(e)
                 PROVE  cfg[e.item] = e.before /\ (count.faults = 0 => e.before = e.was)
      BY <2>3
    <2>4. e.item \in Items
      BY <1>1 DEF IInv, TypeOK, Entry
    <2>5. undo[e.item] \in {Outcome(e), "ERROR"} /\ undo[e.item] \notin {"ERROR", "MANUAL"}
      BY <1>1, <2>3, <2>4 DEF LifeInv, UndoInv, UndoStatuses
    <2>6. undo[e.item] = "PASS" /\ Ctl(e.item) # "AWS-VPC-001"
      BY <2>5 DEF Outcome, Undoable
    <2>7. cfg[e.item] = e.before
      BY <1>1, <2>3, <2>6 DEF LifeInv, UndoInv
    <2>8. count.faults = 0 => e.before = e.was
      BY <1>1, <2>6 DEF LifeInv, ManifestInv, Clean
    <2> QED BY <2>7, <2>8
  <1>2. IInv /\ LifeInv /\ [Next]_vars =>
          [phase = "rollback" /\ exit' = "0" /\ count.drift = 0 => Restored]_vars
    BY <1>1
  <1> QED BY <1>2, Invariance, LifeInvariance, PTL DEF Spec, ExitZeroMeansRestored

-----------------------------------------------------------------------------
(***************************************************************************)
(* Every step of a process brings it nearer to its end: it takes no more   *)
(* steps than there are checks to begin and to decide.                     *)
(***************************************************************************)
\* An account with finitely many buckets and regions has finitely many settings.
LEMMA ItemsFinite ==
  ASSUME IsFiniteSet(Buckets), IsFiniteSet(Regions)
  PROVE  IsFiniteSet(Items)
  <1>1. \A S, T : IsFiniteSet(S) /\ IsFiniteSet(T) => IsFiniteSet(S \cup T)
    BY FS_Union
  <1>2. \A S, T : IsFiniteSet(S) /\ IsFiniteSet(T) => IsFiniteSet(S \X T)
    BY FS_Product
  <1>3. \A S, T : IsFiniteSet(S) => IsFiniteSet(T \cap S)
    BY FS_Intersection
  <1>4. IsFiniteSet({Account}) /\ IsFiniteSet(AccountControls)
    BY FS_Singleton DEF AccountControls
  <1>5. ASSUME NEW a, NEW b, NEW c PROVE IsFiniteSet({a, b, c})
    <2>1. IsFiniteSet({a}) /\ IsFiniteSet({b}) /\ IsFiniteSet({c})
      BY FS_Singleton
    <2>2. IsFiniteSet({a} \cup {b})
      BY <2>1, FS_Union
    <2>3. IsFiniteSet(({a} \cup {b}) \cup {c})
      BY <2>1, <2>2, FS_Union
    <2>4. {a, b, c} = ({a} \cup {b}) \cup {c}
      OBVIOUS
    <2> QED BY <2>3, <2>4
  <1>6. IsFiniteSet(BucketControls) /\ IsFiniteSet(RegionControls)
    BY <1>5 DEF BucketControls, RegionControls
  <1>7. /\ IsFiniteSet((Controls \cap AccountControls) \X {Account})
        /\ IsFiniteSet((Controls \cap BucketControls) \X Buckets)
        /\ IsFiniteSet((Controls \cap RegionControls) \X Regions)
    BY <1>2, <1>3, <1>4, <1>6
  <1> QED BY <1>1, <1>7 DEF Items

\* What is left to begin and to decide is finite, and so is what is left to undo,
\* for a manifest has at most one entry for a setting.
LEMMA LeftFinite ==
  ASSUME IsFiniteSet(Buckets), IsFiniteSet(Regions), IInv, LifeInv
  PROVE  /\ IsFiniteSet(ToBegin) /\ Cardinality(ToBegin) \in Nat
         /\ IsFiniteSet(ToDecide) /\ Cardinality(ToDecide) \in Nat
         /\ IsFiniteSet(Items) /\ Cardinality(Items) \in Nat
         /\ IsFiniteSet(manifest.entries) /\ Cardinality(manifest.entries) <= Cardinality(Items)
         /\ phase = "rollback" => IsFiniteSet(pending) /\ Cardinality(pending) \in Nat
  <1>1. IsFiniteSet(Items)
    BY ItemsFinite
  <1>2. IsFiniteSet(ToBegin) /\ IsFiniteSet(ToDecide)
    BY <1>1, FS_Subset DEF ToBegin, ToDecide
  <1>3. IsFiniteSet(manifest.entries) /\ Cardinality(manifest.entries) <= Cardinality(Items)
    <2> DEFINE f == [e \in manifest.entries |-> e.item]
    <2>1. \A e \in manifest.entries : f[e] \in Items
      BY DEF IInv, TypeOK, Entry
    <2>2. \A e, d \in manifest.entries : f[e] = f[d] => e = d
      BY DEF LifeInv, ManifestInv
    <2>3. f \in Injection(manifest.entries, Items)
      BY <2>1, <2>2 DEF Injection, IsInjective
    <2> QED BY <1>1, <2>3, FS_Injection
  <1>4. phase = "rollback" => IsFiniteSet(pending)
    BY <1>3, FS_Subset DEF LifeInv, UndoInv
  <1> QED BY <1>1, <1>2, <1>3, <1>4, FS_CardinalityType

\* What a step of a check does to the progress of the run.
LEMMA CheckMoves ==
  ASSUME IInv, NEW i \in Items, Check(i)
  PROVE  \/ /\ phase' = phase
            /\ \/ step[i] = "todo" /\ step'[i] \in {"read", "done"} /\ MayBegin(i)
               \/ step[i] = "read" /\ step'[i] = "done"
         \/ phase' = "idle" /\ step' = step
  <1> USE DEF IInv, TypeOK
  <1>1. CASE Read(i)
    BY <1>1 DEF Read, MayBegin
  <1>2. CASE ReadFails(i)
    BY <1>2 DEF ReadFails, Report, MayBegin
  <1>3. CASE Assess(i)
    BY <1>3 DEF Assess, Report, Deciding
  <1>4. CASE Put(i) \/ PutUnsuccessful(i)
    BY <1>4 DEF Put, PutUnsuccessful, Report, MustWrite, Deciding
  <1>5. CASE PutFails(i) \/ PutReplyLost(i)
    <2>1. PutRaises(i) /\ step[i] = "read"
      BY <1>5 DEF PutFails, PutReplyLost, PutRaises, MustWrite, Deciding
    <2> QED BY <2>1 DEF PutRaises, Abort, Report
  <1> QED BY <1>1, <1>2, <1>3, <1>4, <1>5 DEF Check

\* A check that moves on leaves one check less to begin or to decide.
LEMMA CheckNearsEnd ==
  ASSUME IsFiniteSet(Buckets), IsFiniteSet(Regions), IInv, LifeInv, IInv', LifeInv',
         NEW i \in Items, Check(i)
  PROVE  Left' < Left
  <1>1. /\ phase \in RunPhases /\ \A j \in Items \ {i} : step'[j] = step[j]
    BY CheckFrame
  <1>2. /\ Cardinality(ToBegin) \in Nat /\ Cardinality(ToDecide) \in Nat
        /\ IsFiniteSet(ToBegin) /\ IsFiniteSet(ToDecide)
    BY LeftFinite
  <1>3. PhaseLeft[phase] \in 1..6 /\ Left = PhaseLeft[phase] + Cardinality(ToBegin) + Cardinality(ToDecide)
    BY <1>1 DEF PhaseLeft, Left, RunPhases
  <1>4. CASE phase' = "idle"
    BY <1>2, <1>3, <1>4 DEF Left
  <1>5. CASE phase' = phase /\ step[i] = "todo" /\ step'[i] \in {"read", "done"}
    <2>1. ToBegin' = ToBegin \ {i} /\ i \in ToBegin
      BY <1>1, <1>5 DEF ToBegin
    <2>2. ToDecide' = ToDecide \/ (ToDecide' = ToDecide \ {i} /\ i \in ToDecide)
      BY <1>1, <1>5 DEF ToDecide
    <2>3. Cardinality(ToBegin') = Cardinality(ToBegin) - 1
      BY <1>2, <2>1, FS_RemoveElement
    <2>4. PICK d \in Nat : d = Cardinality(ToDecide') /\ d <= Cardinality(ToDecide)
      <3>1. CASE ToDecide' = ToDecide
        BY <1>2, <3>1
      <3>2. CASE ToDecide' = ToDecide \ {i} /\ i \in ToDecide
        <4>1. Cardinality(ToDecide \ {i}) = Cardinality(ToDecide) - 1
          BY <1>2, <3>2, FS_RemoveElement
        <4>2. Cardinality(ToDecide \ {i}) \in Nat
          BY <1>2, FS_RemoveElement, FS_CardinalityType
        <4> QED BY <1>2, <3>2, <4>1, <4>2
      <3> QED BY <2>2, <3>1, <3>2
    <2>5. Left' = PhaseLeft[phase] + Cardinality(ToBegin') + Cardinality(ToDecide')
      BY <1>1, <1>5 DEF Left, RunPhases
    <2> QED BY <1>2, <1>3, <2>3, <2>4, <2>5
  <1>6. CASE phase' = phase /\ step[i] = "read" /\ step'[i] = "done"
    <2>1. ToBegin' = ToBegin
      BY <1>1, <1>6 DEF ToBegin
    <2>2. ToDecide' = ToDecide \ {i} /\ i \in ToDecide
      BY <1>1, <1>6 DEF ToDecide
    <2>3. Cardinality(ToDecide') = Cardinality(ToDecide) - 1
      BY <1>2, <2>2, FS_RemoveElement
    <2>4. Left' = PhaseLeft[phase] + Cardinality(ToBegin') + Cardinality(ToDecide')
      BY <1>1, <1>6 DEF Left, RunPhases
    <2> QED BY <1>2, <1>3, <2>1, <2>3, <2>4
  <1> QED BY <1>4, <1>5, <1>6, CheckMoves

\* In an account with finitely many buckets and regions, each step of a process
\* leaves it fewer steps to take: at most two for each setting and six between
\* the stages in a run, at most one for each setting and one more in a rollback.
THEOREM NearsItsEndHolds ==
  ASSUME IsFiniteSet(Buckets), IsFiniteSet(Regions)
  PROVE  Spec => NearsItsEnd
  <1> DEFINE Nearer == /\ Advance => Left' < Left
                       /\ StartRun => Left' = 6 + 2 * Cardinality(Items)
                       /\ StartRollback => Left' <= 1 + Cardinality(Items)
  <1>1. ASSUME IInv, LifeInv, IInv', LifeInv', Next PROVE Nearer
    <2>0. /\ Cardinality(ToBegin) \in Nat /\ Cardinality(ToDecide) \in Nat /\ Cardinality(Items) \in Nat
          /\ IsFiniteSet(manifest.entries) /\ Cardinality(manifest.entries) <= Cardinality(Items)
          /\ phase = "rollback" => IsFiniteSet(pending) /\ Cardinality(pending) \in Nat
          /\ Cardinality(manifest.entries) \in Nat
      BY <1>1, LeftFinite, FS_CardinalityType
    <2>1. ASSUME Advance PROVE Left' < Left
      <3>1. CASE \E i \in Items : Check(i)
        BY <1>1, <3>1, CheckNearsEnd
      <3>2. CASE EndServices \/ EndAccount \/ ListBuckets \/ EndBuckets
        <4>1. /\ phase \in RunPhases /\ phase' \in RunPhases /\ step' = step
              /\ PhaseLeft[phase'] < PhaseLeft[phase]
              /\ PhaseLeft[phase'] \in Nat /\ PhaseLeft[phase] \in Nat
          BY <3>2 DEF EndServices, EndAccount, ListBuckets, EndBuckets, Goto, PhaseLeft, RunPhases
        <4>2. ToBegin' = ToBegin /\ ToDecide' = ToDecide
          BY <4>1 DEF ToBegin, ToDecide
        <4>3. /\ Left = PhaseLeft[phase] + Cardinality(ToBegin) + Cardinality(ToDecide)
              /\ Left' = PhaseLeft[phase'] + Cardinality(ToBegin) + Cardinality(ToDecide)
          BY <4>1, <4>2 DEF Left, RunPhases
        <4> QED BY <2>0, <4>1, <4>3
      <3>3. CASE ListFails \/ ReportFails \/ WriteManifest \/ ManifestFails \/ (WriteReport /\ mode # "apply")
        <4>1. phase' = "idle" /\ phase \in {"listing", "report", "manifest"}
          BY <3>3 DEF ListFails, ReportFails, WriteManifest, ManifestFails, WriteReport, Abort
        <4>2. PhaseLeft[phase] \in 1..6 /\ Left = PhaseLeft[phase] + Cardinality(ToBegin) + Cardinality(ToDecide)
          BY <4>1 DEF Left, PhaseLeft
        <4> QED BY <2>0, <4>1, <4>2 DEF Left
      <3>4. CASE WriteReport /\ mode = "apply"
        <4>1. phase = "report" /\ phase' = "manifest" /\ step' = step
          BY <3>4 DEF WriteReport
        <4>2. ToBegin' = ToBegin /\ ToDecide' = ToDecide
          BY <4>1 DEF ToBegin, ToDecide
        <4>3. /\ Left = 2 + Cardinality(ToBegin) + Cardinality(ToDecide)
              /\ Left' = 1 + Cardinality(ToBegin) + Cardinality(ToDecide)
          BY <4>1, <4>2 DEF Left, PhaseLeft
        <4> QED BY <2>0, <4>3
      <3>5. ASSUME NEW e \in pending, UndoEntry(e) \/ UndoFails(e) PROVE Left' < Left
        <4>1. phase = "rollback" /\ phase' = "rollback" /\ pending' = pending \ {e}
          BY <3>5 DEF UndoEntry, UndoFails, NextEntry
        <4>2. Cardinality(pending') = Cardinality(pending) - 1
          BY <2>0, <4>1, FS_RemoveElement
        <4>3. Left = 1 + Cardinality(pending) /\ Left' = 1 + Cardinality(pending')
          BY <4>1 DEF Left
        <4> QED BY <2>0, <4>1, <4>2, <4>3
      <3>6. CASE EndRollback \/ RollbackReportFails
        <4>1. phase = "rollback" /\ phase' = "idle"
          BY <3>6 DEF EndRollback, RollbackReportFails
        <4> QED BY <2>0, <4>1 DEF Left
      <3> QED BY <2>1, <3>1, <3>2, <3>3, <3>4, <3>5, <3>6 DEF Advance
    <2>2. ASSUME StartRun PROVE Left' = 6 + 2 * Cardinality(Items)
      <3>1. phase' = "services" /\ step' = [i \in Items |-> "todo"]
        BY <2>2 DEF StartRun
      <3>2. ToBegin' = Items /\ ToDecide' = Items
        BY <3>1 DEF ToBegin, ToDecide
      <3>3. Left' = 6 + Cardinality(Items) + Cardinality(Items)
        BY <3>1, <3>2 DEF Left, PhaseLeft
      <3> QED BY <2>0, <3>3
    <2>3. ASSUME StartRollback PROVE Left' <= 1 + Cardinality(Items)
      <3>1. phase' \in {"idle", "rollback"} /\ pending' = manifest.entries
        BY <2>3 DEF StartRollback
      <3>2. Left' = 0 \/ Left' = 1 + Cardinality(manifest.entries)
        BY <3>1 DEF Left
      <3> QED BY <2>0, <3>2
    <2> QED BY <2>1, <2>2, <2>3
  <1>2. IInv /\ LifeInv /\ IInv' /\ LifeInv' /\ [Next]_vars => [Nearer]_vars
    BY <1>1
  <1> QED BY <1>2, Invariance, LifeInvariance, PTL DEF Spec, NearsItsEnd

-----------------------------------------------------------------------------
(***************************************************************************)
(* One undisturbed apply is enough: it leaves every setting in scope as    *)
(* the controls ask, so that the next one finds nothing to write.          *)
(***************************************************************************)
\* What an undisturbed run has done to one setting.
Settled(i) ==
    /\ step[i] = "done" /\ mode = "apply" /\ CanBeSet(i) => Compliant(i, cfg[i])
    /\ i \in wrote => step[i] = "done" /\ i \in Scope /\ CanBeSet(i) /\ ~Compliant(i, start[i])
    /\ i \notin wrote => cfg[i] = start[i]

SettledInv == phase \in RunPhases /\ Clean => \A i \in Items : Settled(i)

LEMMA CheckSettled ==
  ASSUME IInv, LifeInv, SettledInv, NEW i \in Items, Check(i)
  PROVE  SettledInv'
  <1> SUFFICES ASSUME phase' \in RunPhases, Clean', NEW j \in Items PROVE Settled(j)'
    BY DEF SettledInv
  <1>1. /\ Clean /\ phase \in RunPhases /\ start' = start /\ mode' = mode
        /\ j # i => step'[j] = step[j] /\ cfg'[j] = cfg[j]
    BY CheckFrame
  <1>2. Settled(j) /\ Settled(i) /\ Told(i)
    BY <1>1 DEF SettledInv, LifeInv, RunInv
  <1>3. Read(i) \/ Assess(i) \/ Put(i)
    BY CountFacts DEF Check, ReadFails, PutUnsuccessful, PutFails, PutReplyLost, IInv
  <1>4. CASE Read(i)
    <2>1. wrote' = wrote /\ cfg' = cfg /\ step[i] = "todo" /\ step'[i] = "read"
      BY <1>4 DEF Read, MayBegin, IInv, TypeOK
    <2> QED BY <1>1, <1>2, <2>1 DEF Settled
  <1>5. CASE Assess(i)
    <2>1. wrote' = wrote /\ cfg' = cfg /\ step[i] = "read" /\ ~MustWrite(i) /\ Deciding(i)
      BY <1>5 DEF Assess, Deciding
    <2>2. reading[i] = cfg[i]
      BY <1>1, <1>2, <2>1 DEF Told
    <2>3. mode = "apply" /\ CanBeSet(i) => Compliant(i, cfg[i])
      BY <2>1, <2>2 DEF MustWrite, NoDestination, CanBeSet
    <2> QED BY <1>1, <1>2, <2>1, <2>3 DEF Settled
  <1>6. CASE Put(i)
    <2>1. /\ wrote' = wrote \cup {i} /\ cfg'[i] = Desired(i) /\ step'[i] = "done" /\ MustWrite(i)
      BY <1>6 DEF Put, Report, IInv, TypeOK
    <2>2. Compliant(i, Desired(i)) /\ ~Compliant(i, start[i]) /\ i \in Scope /\ CanBeSet(i)
      BY <1>1, <1>2, <2>1, SettingFacts, AppliedIs DEF Told, MustWrite, NoDestination, CanBeSet
    <2>3. CASE j = i
      BY <1>1, <2>1, <2>2, <2>3 DEF Settled
    <2>4. CASE j # i
      BY <1>1, <1>2, <2>1, <2>4 DEF Settled
    <2> QED BY <2>3, <2>4
  <1> QED BY <1>3, <1>4, <1>5, <1>6

LEMMA SettledInvariance == Spec => []SettledInv
  <1>1. Init => SettledInv
    BY DEF Init, SettledInv, RunPhases
  <1>2. ASSUME IInv, LifeInv, SettledInv, [Next]_vars PROVE SettledInv'
    <2>1. CASE StartRun
      <3>1. step' = [i \in Items |-> "todo"] /\ wrote' = {} /\ start' = cfg /\ cfg' = cfg
        BY <2>1 DEF StartRun
      <3> QED BY <3>1 DEF SettledInv, Settled
    <2>2. CASE /\ UNCHANGED <<step, mode, cfg, wrote, start>>
               /\ phase' \in RunPhases => phase \in RunPhases
               /\ Clean' => Clean
      BY <1>2, <2>2 DEF SettledInv, Settled
    <2>3. CASE \E i \in Items : Check(i)
      BY <1>2, <2>3, CheckSettled
    <2>4. CASE EndServices \/ EndAccount \/ ListBuckets \/ EndBuckets \/ WriteReport \/ WriteManifest
      BY <2>2, <2>4 DEF EndServices, EndAccount, ListBuckets, EndBuckets, Goto, WriteReport,
                        WriteManifest, RunPhases, Clean
    <2>5. CASE phase' \notin RunPhases
      BY <2>5 DEF SettledInv
    <2>6. ListFails \/ ReportFails \/ ManifestFails \/ StartRollback \/ EndRollback
            \/ RollbackReportFails \/ Kill
             => phase' \notin RunPhases
      BY <1>2 DEF ListFails, Abort, ReportFails, ManifestFails, StartRollback, EndRollback,
                  RollbackReportFails, Kill, RunPhases
    <2>7. (\E e \in pending : UndoEntry(e) \/ UndoFails(e)) => phase' \notin RunPhases
      BY DEF UndoEntry, UndoFails, NextEntry, RunPhases
    <2>8. CASE Drift
      <3>1. ~Clean'
        BY <1>2, <2>8, CountFacts DEF Drift, IInv
      <3> QED BY <3>1 DEF SettledInv
    <2>9. CASE UNCHANGED vars
      BY <2>2, <2>9 DEF vars, Clean
    <2> QED BY <1>2, <2>1, <2>3, <2>4, <2>5, <2>6, <2>7, <2>8, <2>9 DEF Next, Advance
  <1> QED BY <1>1, <1>2, Invariance, LifeInvariance, PTL DEF Spec

\* The settings of a target are in the same sweep.
LEMMA TargetFacts ==
  ASSUME NEW i \in Scope
  PROVE  /\ i \in SameTarget(i) /\ i \in Items
         /\ i \in RegionScope \/ i \in AccountScope \/ i \in BucketScope
         /\ \A j \in SameTarget(i) :
               /\ j \in Scope /\ j[2] = i[2] /\ SameTarget(j) = SameTarget(i)
               /\ \A S \in Sweeps : i \in S <=> j \in S
  <1>1. i \in Items /\ (i \in RegionScope \/ i \in AccountScope \/ i \in BucketScope)
    BY DEF RegionScope, AccountScope, BucketScope, Scope, Items, Ctl
  <1>2. \A S, T \in Sweeps, j \in Items : j \in S /\ j \in T => S = T
    BY DEF Sweeps, RegionScope, AccountScope, BucketScope, RegionControls, AccountControls,
           BucketControls
  <1>3. \A S \in Sweeps : S \subseteq Scope /\ S \subseteq Items
    BY DEF Sweeps, RegionScope, AccountScope, BucketScope, Scope
  <1>4. i \in SameTarget(i)
    BY <1>1 DEF SameTarget, Sweeps
  <1>5. ASSUME NEW j \in SameTarget(i)
        PROVE  /\ j \in Scope /\ j[2] = i[2] /\ SameTarget(j) = SameTarget(i)
               /\ \A S \in Sweeps : i \in S <=> j \in S
    <2>1. PICK S \in Sweeps : i \in S /\ j \in S
      BY DEF SameTarget
    <2>2. j \in Scope /\ j[2] = i[2]
      BY DEF SameTarget
    <2>3. \A T \in Sweeps : i \in T <=> j \in T
      BY <1>2, <1>3, <2>1
    <2>4. \A x : x \in SameTarget(j) <=> x \in SameTarget(i)
      BY <2>2, <2>3 DEF SameTarget
    <2> QED BY <2>2, <2>3, <2>4
  <1> QED BY <1>1, <1>4, <1>5

\* ApplyConverges: an undisturbed apply has made every setting in scope comply
\* and written exactly those that did not; the next one has nothing to write.
THEOREM ApplyConvergesHolds == Spec => []ApplyConverges
  <1>1. ASSUME IInv, LifeInv, SettledInv, phase = "manifest", Clean PROVE ApplyConverges
    <2>1. mode = "apply" /\ Finished(RegionScope) /\ Finished(AccountScope) /\ Finished(BucketScope)
      BY <1>1 DEF LifeInv, StageOrder, RunPhases
    <2>2. \A i \in Scope : i \in Items /\ step[i] = "done"
      BY <2>1, TargetFacts DEF Finished
    <2>3. \A i \in Items : Settled(i)
      BY <1>1 DEF SettledInv, RunPhases
    <2>4. \A i \in Scope : CanBeSet(i) => Compliant(i, cfg[i])
      BY <2>1, <2>2, <2>3 DEF Settled
    <2>5. \A i \in Scope : CanBeSet(i) /\ ~Compliant(i, start[i]) => i \in wrote
      BY <2>2, <2>3, <2>4 DEF Settled
    <2>6. \A i \in wrote : i \in Scope /\ CanBeSet(i) /\ ~Compliant(i, start[i])
      BY <1>1, <2>3 DEF Settled, IInv, TypeOK
    <2>7. wrote = {i \in Scope : CanBeSet(i) /\ ~Compliant(i, start[i])}
      BY <2>5, <2>6
    <2>8. \A i \in Items \ wrote : cfg[i] = start[i]
      BY <2>3 DEF Settled
    <2> QED BY <2>4, <2>7, <2>8 DEF ApplyConverges
  <1>2. IInv /\ LifeInv /\ SettledInv => ApplyConverges
    BY <1>1 DEF ApplyConverges, Clean
  <1> QED BY <1>2, Invariance, LifeInvariance, SettledInvariance, PTL

=============================================================================
