# PagerWesi in TLA+

This directory holds a formal model of PagerWesi (`cloud/`, `linux/` and their neighbours under
`src/`): TLA+ modules for the parts of the program that keep state, run threads, talk to services
that fail or outlive a crash; TLC configurations that check them on small instances; and theorems,
checked by TLAPS, that hold for every value of the constants. `PROJECT.json` lists the components,
the runs, the mutants, the source lines behind every definition, the findings, the hazards and the
theorems.

## 1. Inventory

### Components with behaviour of their own

| Component | State it keeps | Operations | Interacts with | What makes it correct |
|---|---|---|---|---|
| AWS checks (`providers/aws/baseline.py`, `services.py`) | what AWS holds; the findings of the run | audit, plan, apply of each control; regions in turn, buckets in a thread pool | boto3, other actors of the account, `main.py` | a change is always in the evidence; only apply writes; a plan predicts the apply; PASS is true |
| Rollback (`providers/aws/rollback.py`) | the entries still to replay | replay a change manifest backwards | manifest on disk, boto3 | exit 0 means restored; one failing entry does not stop the others |
| Command line (`main.py`, `core.py`) | report, plan manifest and change manifest on disk; exit code | dispatch, custom controls, waivers, report, manifests, notification | every provider | the exit code is honest; evidence is written when something changed |
| Agent (`agent.py`) | state file, history directory, shutdown flag | audit cycle, save, rotate, alert, sleep, stop | every provider, webhooks, signals, restarts | each failure is told once, also across restarts; the newest history is kept; signals stop it |
| Concurrent runner (`concurrent_runner.py`) | futures, results | submit, collect, time out, join | providers, `main.py all` | one result per provider; isolation; nothing left running |
| Rate limiter (`rate_limiter.py`) | tokens, refill mark, lock | acquire, refill | network scanner's threads, the clock | the rate bound in every window; punctual answers; every call returns |
| Retry and webhooks (`rate_limiter.py`, `webhooks.py`) | attempts | post, retry with backoff | chat and paging services | delivered when it says so; bounded attempts; no retry of what cannot succeed |
| Waivers (`exceptions.py`) | none | turn matching FAIL findings into SKIP | command line | active waivers apply, expired ones do not |
| Organizations (`organizations.py`) | sessions per account | assume roles, audit each member | AWS checks | one member's failure neither stops nor erases others |
| Azure, GCP, Kubernetes, Docker providers | none | audit, plan annotations | provider SDKs | one control's failure is one ERROR finding |
| Network scanner (`network_scanner.py`) | the module's limiter | TLS and certificate checks in a pool | rate limiter, endpoints | a failing check is a finding, never silence |
| Terraform plan, secrets scanner (`terraform_plan.py`, `secrets_scanner.py`) | none | check the entries of a plan, the files of a tree | command line | nothing unacceptable is missed, nothing is made up |
| Custom controls (`custom_controls.py`) | none | run commands and compare exit codes | command line, shell | one broken control does not hide others |
| Validators, policy (`input_validator.py`, `policy.py`) | none | check single values and the policy file | command line, webhooks | equal to their rules |
| Linux script (`linux/harden.sh`) | the host's firewall and SSH configuration, backups | audit, plan, apply, rollback | package manager, ufw, firewalld, sshd | an apply cut short leaves a reachable host and a usable backup; a full one hardens |
| Other host scripts (`alpine/`, `freebsd/`, `macos/`, `windows/`) | the host's settings | audit, plan, apply | the host | reports are true; an apply leaves what it can repair in order |
| Reports, dashboard, compliance, playbooks, registry, logging, CI | none | rendering | findings | layout; not a subject of this model |

### Behaviours that are hard

* A put to AWS may be refused, may be carried out with its answer lost, or (flow logs) may report
  its failure where nobody looks. Reads may fail. Other actors change settings in between.
* The evidence of an apply is written last, by a write that truncates first; a crash or a full disk
  leaves nothing or half a file.
* The agent saves its state before it alerts; crashes, signals, restarts, failing webhooks and
  failing providers fall between any two steps, and its history is ordered by a clock that can go
  back.
* The runner's one timeout races the end of all its tasks.
* The limiter reads the clock three times per pass, twice of them outside its lock.
* A check lists things and then reads them one by one, with several attributes each, while others
  change them; any of these calls may fail, and the handler stands around the control in one place,
  around the provider or the whole account in another.
* The steps of `main` after the audit each write a file or post to a sink; one that fails ends the
  run, and the exit code must still be true.
* A webhook server may accept an alert and lose the answer; a retry then delivers twice.
* The host scripts change a firewall and `sshd_config` in place, command by command, over a
  connection that the same commands may cut.

`PROJECT.json` lists every such place under `hazards`, with its line.

## 2. Modules

| Module | Models | Built on |
|---|---|---|
| `AwsRemediation` | apply, plan and rollback life cycle of the AWS provider | |
| `AwsRemediationProofs` | its theorems: evidence, truth of PASS, plans, rollback | `AwsRemediation` |
| `CheckRow` | what one read-only check is: its reads, verdict and handlers | |
| `AwsChecks`, `AzureChecks`, `GcpChecks`, `KubeDockerChecks`, `LocalChecks` | the checks of each provider, a row each | `CheckRow` |
| `ProviderAudit` | `run_audit` of every provider, for any table of checks | |
| `ProviderAuditProofs` | its theorems | `ProviderAudit` |
| `Agent` | the daemon | |
| `AgentProofs` | its theorems | `Agent` |
| `RateLimiter` | `RateLimiter.acquire` and `_refill` | |
| `RateLimiterProofs` | its theorems | `RateLimiter` |
| `TaskGather` | abstract: what callers of the runner are promised | |
| `ConcurrentRunner` | `run_providers`, shown to implement `TaskGather` | `TaskGather` |
| `ConcurrentRunnerProofs` | its theorems, the refinement among them | `ConcurrentRunner` |
| `Delivery` | abstract: what a caller of `notify` is promised | |
| `Webhooks` | `notify`, the three sinks, `_post_json` and its retries | |
| `Cli` | `main` for one provider and for `all`, with `notify` as one of its steps | `Webhooks`, `Delivery` |
| `CliProofs` | its theorems: alerting, the refinement of `Delivery`, exit code and report | `Cli` |
| `LinuxHarden` | `linux/harden.sh` | |
| `LinuxHardenProofs` | its theorems | `LinuxHarden` |
| `HostScripts` | the Alpine, FreeBSD, macOS and Windows scripts | |
| `HostScriptsProofs` | its theorems | `HostScripts` |
| `MC*` | instances for TLC; `MCProviderAudit` puts the five tables together | the module of that name |

A definition marked `mutant` is a wrong variant of the definition after it, as a plausible bug would
make it (a dropped guard, a missing handler, a stale value). It is not part of the specification:
`PROJECT.json` pairs it with the property that must fail when it is put in place.

### `AwsRemediation`

A *setting* is a pair of a control and its target (account, bucket or region); its value is one of
the few the code distinguishes (for a public access block `none`, `partial`, `full`; for encryption
`none`, `custom`, `aes256`; ...). The state is what AWS holds (`cfg`), the process (`phase`, `mode`,
`step`, `reading`, `result`), the change manifest on disk, the entries a rollback has left
(`pending`, `undo`) and the exit code. `wrote`, `start`, `proposed` and the field `was` of a finding
are history: nothing in the model of the code reads them.

A check of a setting is `Read` (or `ReadFails`), then `Assess` or one of the `Put` actions, so that
drift, crashes and the checks of other buckets come in between. `MayBegin` is the schedule of
`run_audit`: regions one after the other, then the account, then `list_buckets`, then the buckets in
a pool, each bucket's controls in order. The differences between controls that matter are kept: which
reads turn an error into "not configured" (AWS-S3-004, AWS-S3-005), the one put without a handler
(AWS-S3-001), the `before` of AWS-VPC-001 that is computed after the list was emptied, its
destination from the policy, its unread answer. `UndoEntry` has a case for each handler of the
rollback, including the session region in which AWS-EBS-001 is undone.

### `Agent`

One action per step of a cycle: test the flag, load, audit each provider, save, rotate, notify,
sleep. Faults are those the code handles or ignores: a provider that raises, a state file that cannot
be read or written, a history that cannot be written or trimmed, a webhook that fails, a killed process
(with a half-written state file if it dies in the write), a clock that goes back. A state file that is
torn, unreadable or over 50 MiB counts as empty (`Load`, `LoadFails`). A history file is named by the
second; a restart within the second gives its first state the name of an earlier one, which it replaces
(`Extended`). A rotation that breaks off leaves any of the directories that it passes through
(`UnderWay`). `alerted`, `dropped`, `repeated` and `excuse` are history, used to say which failure was
told, told in vain or told twice. Findings with status `skip` or `manual` are neither failing nor over;
they are left out.

### `RateLimiter`

Time is counted in ticks and tokens in parts of `1/Period` token, so that one part drips per tick
and the model needs no fractions. Every clock read, the lock, and the test and the subtraction of a
token are steps of their own. `SleepRaises` is `time.sleep` with a negative argument. `Observe` is no
step of the code: an observer remembers once, in the history variable `window`, when it began to count
and what had been handed out by then. As it may begin at any moment, a bound on what it counts is a bound
for every window of time.

### `ConcurrentRunner`

The main thread (`Submit`, `StartCollecting`, `Collect`, `Return`, `Expire`, `Raise`) and the pool
threads (`Begin`, `Execute`). `Begin` is the executor of the library: first in, first out, at most
`Workers` at a time. `_execute_task` catches every `Exception`, so the branch of `run_providers` for
a future that holds one (lines 98 to 120) cannot be taken and has no action. What is no `Exception`, a
`SystemExit` of an audit, passes both handlers and leaves `run_providers` when its future is collected
(`CollectExit`). `TaskGather` says what
a caller may rely on: all results at once when all tasks have ended, or none.

### `CheckRow`, the tables and `ProviderAudit`

The read-only checks of all providers have one shape: list things, read one or more attributes of
each, judge, and report one finding for the control or one for each thing. They differ in what
matters, and a row says how: which things the verdict looks at and which it leaves out, how many reads
a thing needs, what an empty listing means, whether an error is reported for the control, for the
thing, or not at all. `ProviderAudit` runs such rows: `Boot` and `BootFails` are the client libraries,
sessions and the control filter; `EnterScope` and `LeaveScope` the loop over profiles, accounts,
subscriptions or projects; `Begin`, `Read`, `Close` a check. `Fails`, `ListFails` and their relatives
are the failing calls, each with the handler that the code puts around that place; `Escapes` is an
error that no check handles, and takes the findings along that the code loses with it. `Change` lets
others alter a thing while a check is reading. Without `--control` the checks of an organization are
not made (`AwsKind`). A row whose `garbles` is not `no` is read from output that may not be decodable: of
`docker ps` single lines are passed over, of `docker info` the whole answer counts as empty (`Lost`).
These are, with the files that the secrets scanner cannot open, the exceptions that `NothingMissed` and
`FailIsReal` name. `was` (what a thing was since the check began) and
`broken` (the checks in which a call failed) are history.

`SoundRow` says what the rows have in common, so that the proofs speak of any table of such rows and
not of today's checks: only the tasks of a pool have a handler each; a thing that a listing describes
can always be read; and reading the attributes of a thing at different moments gives a thing there
can be, an acceptable one if the thing was acceptable at each of them and the check looks for one.
TLC evaluates it on every row of the five tables.

### `Webhooks`, `Delivery` and `Cli`

`Cli` is `main` as one process, a step per stage: guards on the arguments, audit (of one provider, or
of all of them through the concurrent runner), custom controls, waivers, the report, the files asked
for in their order, the notification, the exit code. What an audit finds is left open: any of the
sets of findings of the instance. `all` does not look whether `--control` names a control of a
provider: one that it does not concern answers with an empty list, while one that raises is in `broken`
and has an error finding (`Concerns`, `ResultOf`). `Webhooks` is `notify` between two of these stages: the sinks in
order, each validated, resolved and posted to; a server may take the alert and answer, take it and
lose the answer, refuse, or say nothing until the timeout. `Retriable` is what the retry decorator
still recognises after `_post_json` has wrapped the error. `copies` (of the alert at a sink), `excuses`
(answers that asked for another), `troubled`, `slept` and `made` (the findings as they were made) are
history. `Delivery` says what may be relied on: sinks
are served in order, at most four posts go to one, and a further one only after an answer that asks
for it.

### `LinuxHarden`

A run of the script is the list `todo` of its remaining commands. `Does` is what a command leaves when
it succeeds and `Leaves` what it may leave when it fails; under `set -e` a failure ends the run.
`host` has the firewalls (installed, running, the default of ufw, where the SSH service is permitted:
for firewalld in the permanent and in the running configuration), `sshd_config` and the backups. Of
`sshd_config` the model keeps the two keys, each set, in a comment, absent, or in a last `Match` block
only, there perhaps in a comment, which `sed` puts in force for that block alone; what a file included at
its top says of them, which `sshd -T` takes first (`Effective`); and whether sshd accepts the file. A copy
that breaks off leaves a `torn` file, which sshd refuses, or one `cut` off between two lines or empty,
which it accepts (`Parts`). Backup directories are named by the second, so a second apply may share the
first one's. `before` and `same` are history. Whether the administrator can still log in by the account
and password they use, once root login is off, is not modelled: `Admitted` speaks of the firewall.

### `HostScripts`

The four scripts in one module, told apart by their order: Alpine and FreeBSD check and repair in turn
and go on after a repair that fails, macOS and Windows check everything first and stop at it, and
Windows prints its findings last. A control holds or does not; for `sshd_config`, whose file FreeBSD
only searches with `grep`, it holds when a line of it says `no`. A check need not see what holds. Its
tool may be `missing` (apk, freebsd-update), which is a SKIP; or it may answer nothing, because it fails or
because the caller is not root (`Blind`), and then the test decides, as it was written: for a PASS
(`PassUnread`: `apk audit`, the SMB feature, the guest account of macOS, the shells), for the end of the run
(`EndUnread`), or for a FAIL. `hidden` are the keys that `grep` finds and `sed` does not. A change of
Windows may be declined, and its `auditpol` fails unnoticed; an `apk upgrade` need not repair what `apk
audit` lists. `misread`, `unrepaired` and `began` are history.

## 3. Runs

Each passing run checks the properties of its module; TLC finds each of them violated when its mutant
is put in. The type invariants of the modules that have other invariants enough are proved only (section 4).

| Run | Instance | What it shows |
|---|---|---|
| `aws_remediation` | 1 region, 2 buckets checked in parallel, 1 excluded; AWS-S3-001, AWS-S3-005, AWS-VPC-001; plan or apply; 2 runs, 2 rollbacks; 1 fault or foreign change; crashes anywhere | the life cycle keeps its evidence and its promises, exits with 0 only when its changes are on record, comes to its end, and one undisturbed apply is enough |
| `aws_regions` | 2 regions, 1 bucket; AWS-S3-004, AWS-S3-006, AWS-EBS-001, AWS-IAM-002; 1 run, 2 rollbacks; 1 fault | rollbacks of regional, manual and skipped entries |
| `rate_limiter` | 2 threads, 2 calls each, capacity 1, 5 ticks, counted from any moment | bound in every window, punctuality, return |
| `rate_limiter_answers` | the same | **finding**: `ValueError` from `acquire` |
| `agent` | 2 providers, one with a check, a state that is too large, history of 2, 3 cycles, 2 faults, 2 changes of the world, 1 signal | alerts, history, shutdown |
| `concurrent_runner` | up to 4 tasks (the providers of `all`) on 2 threads | results, bound, refinement |
| `provider_audit` | every check of every provider once, and calls of several checks; 2 things, 1 change, 1 failing call, up to 3 scopes | errors surface, nothing is missed or made up |
| `cli_session` | about 230 command lines, 4 sets of results, 1 failing write; every mixture of absent, bad, good and silent sinks | exit code, completeness, alerts, end, refinement |
| `cli_all` | the same command lines | **finding**: a provider of `all` that cannot be loaded is skipped |
| `cli_waivers` | a waiver that matches | **finding**: no failure is ever waived |
| `linux_harden` | hosts of every firewall around a usual `sshd_config` and the reverse; 3 runs; 1 failing command; killed anywhere | reachability, backups, truthful results |
| `host_scripts` | 2 runs from every combination of holding controls, as root or not, with or without tools; 2 checks that read nothing or repairs that fail; killed anywhere | truthful reports, an apply repairs what it can |

Bounds. Two runs and two rollbacks are the shortest history in which a manifest is stale, a plan
precedes its apply, or a rollback is repeated. One fault can fall at any of its places, and a crash is
not counted as one, so that a fault and a crash meet. Two buckets are the fewest that race; the third
is excluded by policy. In the limiter, two threads are enough to interleave in the critical section,
and five ticks let a call of two ticks expire while the other spends. In the agent, three cycles are
the fewest in which a failure is reported, vanishes and comes back, and overflow a history of two; two
faults let one fall on the recovery from another. Four tasks on two threads queue two; lists shorter
than four are covered as well. In the provider audits two things are the fewest of which one is read
before a change and one after it, and where one failure may overwrite another's finding; checks do not
read each other's state, so that running each alone, and a few together for the handlers around
several of them, leaves nothing out. The command lines of `cli_session` vary one argument at a time
around six typical ones: stages are passed one after another and only look at their own argument. In
`linux_harden` three runs are the fewest in which an apply breaks off, another apply follows and one
of their backups is restored. Two runs of a host script let the second see what the first left. The
theorems of the next section show that none of the safety properties depends on these bounds.

`CHECK_DEADLOCK FALSE` stands where the system may stop: the bounds end the behaviour, and a
process that has returned takes no step. That a process which is running comes to its end is said by
`NearsItsEnd` and its relatives and by the liveness properties.

Fairness. `RateLimiter`: weak fairness of each thread's steps and of the clock (an operating system
runs runnable threads; nothing more is assumed, in particular no order on the lock).
`ConcurrentRunner`: weak fairness of the main thread and of the pool threads, and that each audit
ends, which `CallEnds` needs: without it `run_providers` hangs with its slowest task even after the
timeout. `Agent`: weak fairness of the loop and of the supervisor that restarts it; faults, signals
and crashes are never fair. `Cli`: weak fairness of the one thread of `main`; every socket operation
of a post ends by its timeout of 15 seconds and every command of a custom control by one of 30, and the
audit is taken to return. The host scripts and the provider audits have safety properties only.

## 4. Proofs

TLAPS proves the following for every value of the constants that the modules assume.

*Rate limiter* (`RateLimiterProofs`). `TypeOK`, `RateBound`, `Punctual` and `WindowBound`, for any
number of threads, capacity and rate. `RateBound` is not inductive. The invariant `IInv` adds that a
thread in the critical section holds the lock (`LockInv`); that the refill mark never runs ahead of
the clock nor of a time already read under the lock, and that the token a thread has found is still
there (`ClockInv`); and that tokens handed out and held were in the first bucket or dripped in
before the mark (`BucketInv`). The lock is what keeps the mark monotone: without it a thread could
store an older time and be paid twice, or two take one token. `WindowBound` says the same of every
window that an observer may choose, with one call more: a thread that stood still between its refill and
its take hands out a token of the bucket as it was, and the next refill pays for all of that pause.
`WindowInv` tells apart whether the refill mark has passed the beginning of the window yet; if it has not,
the one thread in the critical section is all that can take. With the lock ignored (the mutant) the bound
is broken. Two more theorems are what returns a caller, as far as that is
a matter of steps: `CanGoOn`, the lock is always in the hands of a thread that is about to give it back
and nobody sleeps longer than a token takes to drip in; and `LastPass`, a call whose deadline has
passed is in its last pass of the loop, with at most seven steps left, whoever else contends.

*Concurrent runner* (`ConcurrentRunnerProofs`). `TypeOK`, `OneResultPerTask`, `PoolBound`,
`NothingLeftRunning` and the refinement of `TaskGather`, for any number of tasks and workers. The
invariant adds that tasks are submitted and begun in order (`OrderInv`), that only a begun task ends
(`StageInv`), and that during the collection each task either waits with no result or has ended and
has one (`ResultInv`). In the refinement `Execute` is `End`, `Return` is `Complete`, `Raise` is
`GiveUp`, and every other step stutters. `CanGoOn` and `NearsItsEnd` say that `run_providers` is never
stuck before it returns or raises, and that each of its steps, those of the pool included, brings it
nearer to that: three steps and four for each task.

*AWS life cycle* (`AwsRemediationProofs`). `TypeOK`, `EvidenceComplete`, `PassIsTrue`,
`OnlyApplyMutates`, `PlanPredictsApply`, `ApplyConverges`, `NearsItsEnd`, `ExitZeroMeansRecorded` and
`ExitZeroMeansRestored`, for every account, policy,
selection of controls, pool size and pattern of failures. For the evidence the invariant `IInv` adds
that a setting the run has changed is settled (no later step of this run reports it again) and is
`changed` or `ERROR` in the findings (`WroteInv`); the theorem then follows from `change_manifest`,
which keeps the changed findings, and `exit_code`, which turns an ERROR into 2. `ExitZeroMeansRecorded`
speaks of the runs that `EvidenceComplete` leaves out: aborted in the middle of their changes, by a
report or manifest that cannot be written, or killed, none of them exits with 0 unless the manifest on
disk lists what it changed. For the others
`LifeInv` says what the run knows of each setting at each step of its check (`Told`): what was read is
what AWS holds or a read that failed, what was reported is true, and what a plan or an apply did
follows from what the run found at its start. `StageOrder` is needed because a manifest is only
written when every stage is finished; `ManifestInv` and `UndoInv` carry the values from the run to
the rollback: an entry that has been replayed is not overwritten by one after it, since a setting has
one entry, and EBS encryption, which is undone elsewhere than it was done, can only be put back to
off. `PlanPredictsApply` is proved for a policy with a destination for flow logs. Without one an apply
reports MANUAL what the plan proposed; the run that checks the property has one too. `ApplyConverges`
needs no such hypothesis: it leaves VPC-001 out itself when there is no destination (`CanBeSet`).
`SettledInv` is its invariant: in a run without faults and drift, a setting is as it was at the start
until the run writes it, and a check that is done has left it compliant. `NearsItsEnd` counts the
checks to begin and to decide, the stages, and the entries of a rollback: whatever calls fail, a run
takes at most six steps and two for each setting. It asks for finitely many buckets and regions, which
a list of either is.

*Provider audits* (`ProviderAuditProofs`). All six properties of `ProviderAudit`, for any table of
sound rows, any call, number of things and scopes, and any number of changes and failing calls. `IInv`
follows the audit from check to check: a check that is behind has answered its controls among the
findings of its scope, a scope that is behind among those of the run (`ProgressInv`), and findings are
formed in the scope they name (`LocalInv`); `Answered` is what this says at the end. A document that
is discarded as a whole has no failed calls before (`DiscardInv`), which is why `ErrorsSurface`
survives the loss of its findings. For `NothingMissed` and `FailIsReal` a second invariant, `JInv`,
relates what a check has read to what the things were. A thing is held for something it was at some
moment, or for a mixture of two moments if it was listed first and read later; a thing that was to be
read and was not is excused (absent for a moment, passed over by the code, named in a finding,
overlooked by a handler that says nothing, or in output that cannot be decoded) (`ReadInv`); and the FAILs found so far are of the checks
before, whose controls are others (`FreshInv`), so that the ones at the end of a check are its own.

*Agent* (`AgentProofs`). `TypeOK`, `Accounted`, `NoRepeat`, `GracefulStop` and `HistoryKeepsLatest`,
for every set of providers and checks, any length of the history and any number of faults, signals and
restarts. Neither of the first two promises is inductive, because at different places of the loop
different variables hold what has been told: the state file until it is replaced, and then
`previous` until the alert is done. `Remembered` names the one that counts. `ToldInv` says that every
failure in it was alerted or lost in its alert, `OnceInv` that nothing else was alerted; `FileInv` and
`AuditInv` say what the file and the findings of the cycle contain, and that a state which was
whole and not read is excused. `GracefulStop` rests on `FileInv` too: between two cycles the file holds
the findings of the last. For the history, `HistoryInv` says that stamps order the states as their
cycles do, and that the clock has reached the newest, as long as it never went back. `StopsSoon` says that after a
signal every step brings the daemon nearer to its end, at most one cycle away, whatever fails; it asks
for finitely many providers, which are listed in a table of the program.

*Linux script* (`LinuxHardenProofs`). `TypeOK`, `ShutOutOnlyThere`, `OriginalKept`, `ApplyHardens` and
`RestoredIsTrue`, for any set of hosts that let their administrator in, and any number of runs and
failures. The invariant reads the past off the list of commands: a command that is no longer to be
done has been done (`TodoInv`, with the order of the commands in `Rank`). `FirewallInv` and
`ConfigInv` say what each of them has left on the host, whichever runs were cut short before;
`BackupInv` that the administrator's own file is in place or in a directory of its own, and that a copy is
the file of its apply or broken off; `ChecksInv`
that an apply keeps what its checks found in order, among them a setting that an included file decides.

*Other host scripts* (`HostScriptsProofs`). `TypeOK`, `ReportHolds` and `ApplyRepairs`, for any number
of runs, checks that read nothing and repairs that fail. `ReportHolds` speaks of finished runs;
`StatusInv` is what it takes to hold in the middle of one, and `AheadInv` why it does: the one repair that
undoes another control comes before that control has been looked at. `RepairInv` says of the controls that
an apply has passed what `ApplyRepairs` says of all; where all checks come first it needs that each of
them has a status when the repairs begin (`ListInv`).

*Command line* (`CliProofs`). `SinksIsolated`, `AlertFollowsReport` and the refinement of `Delivery`, for
every set of command lines and results. The invariant `HookInv` says that sinks behind the current one
are served and those ahead untouched, and what may have reached the current one at each attempt;
`MainInv` that the notification only runs after the complete report is written and over its findings.
`TypeOK`, `ExitTellsTruth` and `NothingHidden` need a further invariant that goes along the stages of
`main`: which findings exist and what they contain at each, an error for every broken provider among them (`DataInv`), that every one made is kept or
excused from there on (`KeepInv`), which files are written (`FilesInv`), and the bounds of attempts and
waits of a sink (`BoundInv`). One lemma per stage shows that its step keeps it; the exit code is then a
function of the findings that stand in the report. `NearsItsEnd` bounds a run of the program, whatever
sinks, files and providers do, by 26 steps, 15 of them those of the alert.

Assumptions. Each module names what it asks of its constants where it declares them, and TLC
evaluates that in every run. Most of it is the types of the bounds. The rest is what the program
itself makes sure of, or what a model without it would not be about:

* `RateLimiterAssumption`, `RunnerAssumption`: the checks of the constructors (a positive rate and
  burst, at least one thread).
* `RemediationAssumption`, `InitialConfigsAssumption`: the policy excludes buckets of the account, and
  AWS starts with settings of the known kinds.
* `CliAssumption`: command lines and findings are of the known shape.
* `AgentAssumption`: there is a provider (`run_agent` returns before its loop otherwise), every check
  belongs to one, and the history keeps at least one state.
* `AuditAssumption`: the rows of the table are sound, no two rows of a kind answer for the same
  control, and a document that is discarded is all that its provider looks at.
* `LinuxAssumption`: the administrator who runs the script has been let in by the host as it was;
  without it `ShutOutOnlyThere` would not be a promise of the script. `sshd_config` is not broken off then.
* `HostAssumption`: the bounds.

Only model-checked: the liveness properties are out of the prover's reach. Their safety halves are proved
instead: that the component can go on, and that its steps, or those of a call that is due, come to an
end. What is left to TLC is that a fair scheduler takes such a step, and, where "can go on" is stated by
guards, that the actions behind them are enabled.

| Only model-checked | Proved |
|---|---|
| `CallEnds` (runner) | `CanGoOn`, `NearsItsEnd` |
| `CallsReturn` (limiter) | `CanGoOn`, `LastPass` |
| `ShutdownHonoured` (agent) | `StopsSoon` |
| `RunEnds` (command line) | `NearsItsEnd` |

Every other property of a passing run is proved. In no run, because the theorem says it of every
instance, are the type invariants of most modules, `CanGoOn` of the limiter and the runner,
`NearsItsEnd` of the runner and the command line, `LastPass` and `StopsSoon`, `PoolBound`, and
`RateBound`, which is `WindowBound` from the beginning and without the call more.

## 5. What was found

The three findings that a run shows, in `PROJECT.json`: the `ValueError` of `acquire`, a provider of
`all` that cannot be loaded and is left out of the report, and waivers that never apply.

What else the code does that its documents do not say, visible in the model:

AWS and the agent

* README.md:148-149 and docs/controls.md:118 promise that rollback removes analyzers that the tool
  created; the check does not record the name that `rollback.py:104` asks for, so it always skips them
  and exits with 0 (`Outcome`; the exception in `Undoable`).
* "Keep last 30 audit states" (`agent.py:23`) fails when the local clock goes back: names are local
  times and the smallest is removed; and a state of the same second is replaced (the exceptions in
  `HistoryKeepsLatest`).
* A state file that is torn, cannot be read or has more than 50 MiB counts as empty, and every failure is
  alerted again (the excuses of `NoRepeat`).
* A failing read of a bucket's encryption makes apply replace the encryption and rollback delete it
  (`ReadFails`; the reason for `count.faults = 0` in `ExitZeroMeansRestored`). `OnlyApplyMutates`
  says that this needs a failing read or another actor.
* EBS encryption is rolled back in the region of the session only (`UndoTarget`, `Undoable`).
* Flow logs: `before` is always the empty list, the created identifiers are not recorded, and a
  refused creation is reported as applied (`RecordedBefore`, `PutUnsuccessful`; the exception in
  `PassIsTrue`), so rollback is always `MANUAL`.
* When the account check's put or `list_buckets` fails, the run ends with exit 2 and no manifest,
  also if regions were changed before (`Abort`): these changes are on no record, which
  `ExitZeroMeansRecorded` allows because the exit code is not 0.
* An alert is lost when the agent dies between saving the state and alerting, or when the webhook
  fails (`dropped`); a provider that fails for a cycle makes its failures be alerted again
  (`excuse`).
* A provider that outlasts the one timeout of `run_providers` makes it raise; the results of those that
  had finished are lost with it, and `main` ends with a traceback (`Expire`, `RunAllTimesOut`).
* `as_completed` of `run_regions` has no timeout at all; the timeout given to `future.result` there
  never matters because the future is done. Neither it nor `retry_api_call` has a caller.

Provider audits

* A check that reads several attributes, or a listing and then its members, judges a mixture of times:
  a namespace deleted between the two listings of K8S-NET-001 is reported as without a policy.
* The limiter's `acquire` stands outside the handler of a network check (`LimiterRaises`): its error
  does not name the endpoint. With `--workers 0` the pool is made with no thread and raises.
* A file that cannot be opened is passed over by the secrets scanner, and a single file given as the
  path is not walked at all. `_check_open_ports` has no caller.
* A line of `docker ps` that cannot be decoded is passed over, so that its container is missed; an answer of
  `docker info` that cannot be decoded reports FAIL for options that may be set (`Lost`).
* Without `--control` an account's organization is not checked (`AwsKind`).
* A malformed entry of a Terraform plan discards the findings of the entries before it (`Unreadable`).
* Apply is accepted for Kubernetes, Docker and others that only audit.

Command line and webhooks

* docs/architecture.md:57 promises an error finding for a provider of `all` that cannot be loaded; it
  is skipped with a log line, and when none can be loaded the run exits with 0 (`LoadAll`,
  `FailedNotSkipped`). An audit that raises is reported under the ID RUNNER-001.
* `all` ignores `--notify`, `--exceptions` and `--custom-controls`, and `--control` makes custom
  controls unreachable. `all` does not check `--control`, and a control that does not exist leaves an
  empty report and exit code 0 (`Concerns`).
* `_post_json` says "with retry", but errors are wrapped before the decorator looks at them: 429, 500,
  503 and a timed-out socket are never retried, and only answers whose text contains "timeout" are,
  among them a gateway timeout after which the alert may have arrived (`Retriable`).
* A custom control that expects 1 passes when its command cannot be parsed (`RunCheck`).
* An uncaught exception exits with 1, as failures do.

Host scripts

* README.md:278 says that the SSH service is permitted before the firewall is enabled. firewalld is
  started first (`FirewalldCommands`), and a failure before the reload keeps a service other than `ssh`
  shut out; an active ufw that permitted everything denies before it allows. These are the two
  exceptions of `ShutOutOnlyThere`.
* README.md:271-275 says how to restore the backup of an apply. A copy that failed half way is
  installed over the untouched file and looked at only afterwards (the exception in `OriginalKept`);
  a directory without a file restores nothing and reports success; sshd is not reloaded; two applies
  in one second share a directory. A copy that was cut off between two lines is accepted by `sshd -t`, and
  reported as restored (the exception in `RestoredIsTrue`).
* The exit code of a Linux apply comes from the checks before it: 1 after everything was repaired. A
  key that is nowhere is appended, into a trailing `Match` block if there is one, and one that stands in
  such a block only is set there only; an included file is never edited, whatever it sets (the exceptions
  in `ApplyHardens`). Without sshd
  installed every apply that has an `sshd_config` ends with exit 2 and its edits undone.
* On a host of apt with firewalld running, ufw is installed and enabled beside it.
* FreeBSD and Alpine report PASS "(applied)" whether or not the repair worked (`freebsd/harden.sh:59`,
  `alpine/harden.sh:27`); `unrepaired` in `ReportHolds` is this exception. FreeBSD with an unknown mode
  prints nothing for a control that fails and exits with 0.
* A check whose tool answers nothing takes that for a verdict: without root FreeBSD's firewall and patches
  fail and so does the audit policy of Windows, while its SMB feature, the packages of Alpine and the
  guest account of macOS pass (`Blind`, `PassUnread`).
* The `appuser` that Alpine creates has the shell that ALPINE-SHELL-001 rejects (`Repaired`).
* Windows prints its findings last, so a repair that throws loses them. macOS and Windows exit with 1
  after an apply that repaired everything.

## 6. Not modelled, and what is left

Left to prove: no safety property that a run checks. That the rows of the five tables are sound is
`AuditAssumption`; they are constants, and TLC evaluates it on all of them.

Left to model: the regions of an organization's accounts are not composed with its loop over accounts,
and `Agent` keeps its own short `Notify` in place of `Webhooks`, whose outcomes (sent or failed) are
all it looks at.

Left out for good: rendering of reports, dashboards and compliance files, static control metadata and
logging, which keep no state (`Cli` has each file as written or failed); the validators of single
values other than webhook addresses, and the policy's schema; CI workflows and packaging; the patterns
of the secrets scanner and the thresholds of single controls, which are data; the SDKs and system
commands themselves, which appear as calls that succeed, fail or lose their answer.

## 7. Running

    tlc -workers 2 -config MCAgent.cfg MCAgent.tla
    tlc -workers 2 -config LinuxHarden.cfg MCLinuxHarden.tla
    tlapm CliProofs.tla

The longest runs take about a minute each; the proofs together take a few minutes.
