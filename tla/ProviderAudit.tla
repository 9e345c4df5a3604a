--------------------------- MODULE ProviderAudit ---------------------------
(***************************************************************************)
(* run_audit of the providers that only read: Azure, GCP, Kubernetes,      *)
(* Docker, the read-only checks of AWS for several profiles or for the     *)
(* accounts of an organization, and the scans of a Terraform plan, a       *)
(* source tree and a list of endpoints.  They share one shape: a bootstrap *)
(* that can end the audit, a loop over scopes (subscriptions, projects,    *)
(* accounts, buckets) and in each scope a fixed list of checks, each with  *)
(* its own handler.  Table holds the checks.  While a check reads, the     *)
(* things it reads may change, and any call may fail.                      *)
(* Definitions marked `mutant' are wrong variants of the definition after  *)
(* them, kept to show that the properties notice the difference.           *)
(***************************************************************************)
EXTENDS Naturals, FiniteSets, FiniteSetsExt, Sequences, SequencesExt

CONSTANTS
    Table,       \* [kind of scope -> sequence of checks]
    Starts,      \* the calls of run_audit: [provider, controls, scopes, mode]
    Items,       \* names of things in a scope, in the order they are listed
    MaxChanges,  \* changes by others during one check
    MaxFaults,   \* failing calls during one run
    Absent       \* not a thing

\* The controls of an organization are for those who ask for them by name, or for
\* an organization: without --control they are not checked.
OrgAggregate == {"AWS-ORG-CONFIG-001", "AWS-ORG-CT-001", "AWS-ORG-GD-001", "AWS-ORG-SH-001"}
AwsKind(call) == IF call.controls \cap OrgAggregate # {} THEN "aws_account" ELSE "aws_services"

\* The kinds of scope that a call goes through.
KindsOf(call) ==
    CASE call.provider = "aws"     -> {AwsKind(call)}
      [] call.provider = "aws-org" -> {"aws_organization", "aws_services"}
      [] OTHER                     -> {call.provider}

\* Controls that ask for the presence of something; the others ask for the
\* absence of something bad.
AskForOne ==
    {"AWS-IAM-001", "AWS-CT-001", "AWS-CONFIG-001", "AWS-GD-001", "AWS-SH-001", "AWS-S3-007",
     "AWS-ORG-CT-001", "AWS-ORG-GD-001", "AWS-ORG-SH-001", "AWS-ORG-CONFIG-001",
     "AZURE-LOG-001", "AZURE-LOG-002", "GCP-LOG-001", "GCP-LOG-002",
     "DOCKER-DAEMON-001", "DOCKER-DAEMON-002"}

\* What is read of a thing that was listed as u and is t when it is read:
\* attributes of the listing are not read again by the call.
Mixed(row, u, t) == [a \in DOMAIN t |-> IF a \in row.listed THEN u[a] ELSE t[a]]

\* What the rows of the checks have in common.  Only the tasks of a pool have
\* handlers of their own; an entry of a listing is passed over, if it can be
\* garbled, and otherwise read; a reader of attributes at different moments reads
\* a thing there can be, and one that is accepted if both were and the check
\* looks for one.
SoundRow(row) ==
    /\ row.verdict \in {"each", "only_bad", "none_bad", "some_good", "manual"}
    /\ row.reads \in {"list", "page", "join", "tasks", "file"}
    /\ row.onError \in {"ERROR", "MANUAL", "silent", "item", "discard"}
    /\ row.reads = "tasks" <=> row.onError = "item"
    /\ row.reads \in {"list", "join"} => row.fatal = {}
    /\ row.garbles \in {"no", "line", "document"}
    /\ row.garbles # "no" => row.reads = "list"
    /\ row.verdict = "some_good" => row.skip = {} /\ row.reads = "list" /\ row.onError # "silent"
    /\ Absent \notin row.shapes
    /\ row.skip \cup row.fatal \subseteq row.shapes
    /\ row.reads = "list" => \A u, t \in row.shapes : Mixed(row, u, t) \in row.shapes
    /\ \A c \in row.controls :
        /\ c \in AskForOne <=> row.verdict = "some_good"
        /\ row.good[c] \subseteq row.shapes
        /\ c \in AskForOne => \A u, t \in row.good[c] : Mixed(row, u, t) \in row.good[c]

\* A document that cannot be read to its end is all that its provider looks at.
ASSUME AuditAssumption ==
    /\ Items \subseteq Nat \ {0}
    /\ MaxChanges \in Nat
    /\ MaxFaults \in Nat
    /\ \A k \in DOMAIN Table :
        /\ Table[k] \in Seq(ToSet(Table[k]))
        /\ \A row \in ToSet(Table[k]) : SoundRow(row)
        /\ \A i, j \in DOMAIN Table[k] :
              i # j => Table[k][i].controls \cap Table[k][j].controls = {}
    /\ \A call \in Starts :
        /\ call.scopes \in Nat
        /\ \A k \in KindsOf(call) :
            /\ k \in DOMAIN Table
            /\ (\E row \in ToSet(Table[k]) : row.onError = "discard")
                  => KindsOf(call) = {k} /\ Len(Table[k]) = 1

VARIABLES
    start,     \* the call
    pc,        \* where the audit is
    scope,     \* the current scope, counted from 1
    at,        \* the current check of the scope
    world,     \* [Items -> what the thing is now]
    was,       \* [Items -> Seq: what it has been since the check began]
    listing,   \* what the listing said of each thing in it
    todo,      \* things the check has still to read
    seen,      \* what the check has read
    local,     \* findings of this scope
    findings,  \* findings of the scopes before
    changes, faults,
    broken     \* <<scope, control>> whose calls failed

vars == <<start, pc, scope, at, world, was, listing, todo, seen, local, findings,
          changes, faults, broken>>
check == <<world, was, listing, todo, seen, changes>>
-----------------------------------------------------------------------------
\* The checks of the current scope.  The first scope of an organization is the
\* management account; a member account is audited without those checks.
KindOf(s) ==
    CASE start.provider = "aws" -> AwsKind(start)
      [] start.provider = "aws-org" -> IF s = 1 THEN "aws_organization" ELSE "aws_services"
      [] OTHER -> start.provider
Kind == KindOf(scope)
Member == start.provider = "aws-org" /\ scope > 1

\* _selected; the scans of files and endpoints do not look at --control.
Selected(c) ==
    \/ start.controls = {}
    \/ c \in start.controls
    \/ start.provider \in {"terraform", "secrets", "network"}
Asked(row) == {c \in row.controls : Selected(c)}

Current == Table[Kind][at]
NextCheck_SkipsLast(k) == \* mutant
    LET later == {j \in k + 1 .. Len(Table[Kind]) - 1 : Asked(Table[Kind][j]) # {}} IN
    IF later = {} THEN Len(Table[Kind]) + 1 ELSE Min(later)
NextCheck(k) ==
    LET later == {j \in k + 1 .. Len(Table[Kind]) : Asked(Table[Kind][j]) # {}} IN
    IF later = {} THEN Len(Table[Kind]) + 1 ELSE Min(later)

Finding(c, s, i, st) == [control |-> c, scope |-> s, item |-> i, status |-> st, planned |-> FALSE]

\* _annotate_plan: failures are marked as what a change would repair.
Annotated(fs) ==
    IF start.mode = "plan" /\ start.provider \in {"azure", "gcp", "k8s", "docker"}
    THEN {IF f.status = "FAIL" THEN [f EXCEPT !.planned = TRUE] ELSE f : f \in fs} ELSE fs
-----------------------------------------------------------------------------
\* What a check answers when it has read s, a function on some of the things.
Judge_NothingSkipped(row, c, thing) == \* mutant
    IF thing \in row.good[c] THEN "PASS" ELSE "FAIL"
Judge(row, c, thing) ==
    IF thing \in row.skip THEN "SKIP" ELSE IF thing \in row.good[c] THEN "PASS" ELSE "FAIL"

Verdicts(row, s) ==
    LET each == {Finding(c, scope, i, Judge(row, c, s[i])) : c \in Asked(row), i \in DOMAIN s}
        Answer(c) ==
            CASE row.verdict = "manual"    -> "MANUAL"
              [] row.verdict = "none_bad"  ->
                    IF \E i \in DOMAIN s : Judge(row, c, s[i]) = "FAIL" THEN "FAIL" ELSE "PASS"
              [] row.verdict = "some_good" ->
                    IF \E i \in DOMAIN s : Judge(row, c, s[i]) = "PASS" THEN "PASS" ELSE "FAIL" IN
    CASE row.verdict = "each"     -> each
      [] row.verdict = "only_bad" -> {f \in each : f.status = "FAIL"}
      [] OTHER                    -> {Finding(c, scope, 0, Answer(c)) : c \in Asked(row)}

\* What the handler of a check answers when thing i, or the listing (i = 0),
\* cannot be read; findings of the things before it have been made already.
OnFailure_FirstOnly(row, s, i) == \* mutant
    {Finding(CHOOSE c \in Asked(row) : TRUE, scope, 0, "ERROR")}
OnFailure_Forgets(row, s, i) == \* mutant
    {Finding(c, scope, 0, row.onError) : c \in Asked(row)}
OnFailure(row, s, i) ==
    LET before == Restrict(s, {j \in DOMAIN s : j < i}) IN
    {Finding(c, scope, 0, row.onError) : c \in Asked(row)}
        \cup IF row.verdict = "each" THEN Verdicts(row, before) ELSE {}
-----------------------------------------------------------------------------
NoThings == [i \in Items |-> Absent]
Rested ==
    /\ world' = NoThings
    /\ was' = [i \in Items |-> <<>>]
    /\ listing' = <<>>
    /\ todo' = {}
    /\ seen' = <<>>
    /\ changes' = 0

Init ==
    /\ start \in Starts
    /\ pc = "start"
    /\ scope = 0
    /\ at = 0
    /\ world = NoThings
    /\ was = [i \in Items |-> <<>>]
    /\ listing = <<>>
    /\ todo = {}
    /\ seen = <<>>
    /\ local = {}
    /\ findings = {}
    /\ changes = 0
    /\ faults = 0
    /\ broken = {}

\* The bootstrap: SDK and credentials, the list of scopes.  How it fails:
BootFailures ==
    CASE start.provider = "azure"     -> {"raised", "AZURE-IAM-001"}
      [] start.provider = "gcp"       -> {"raised", "GCP-IAM-001"}
      [] start.provider = "k8s"       -> {"raised", "K8S-NET-001"}
      [] start.provider = "docker"    -> {"raised", "DOCKER-DAEMON-001"}
      [] start.provider = "terraform" -> {"TF-SEC-001"}
      [] start.provider = "secrets"   -> {"SECRETS-001"}
      [] start.provider = "network"   -> {"raised", "NET-TLS-001"}
      [] OTHER                        -> {"raised"}
\* The control that stands for the scope itself.
Presence ==
    CASE start.provider = "azure" -> {"AZURE-IAM-001"}
      [] start.provider = "gcp"   -> {"GCP-IAM-001"}
      [] OTHER                    -> {}

Boot ==
    /\ pc = "start"
    /\ start.scopes > 0 \/ Presence = {}
    /\ pc' = "scope"
    /\ scope' = 1
    /\ UNCHANGED <<start, at, check, local, findings, faults, broken>>

BootFails ==
    /\ pc = "start"
    /\ faults < MaxFaults
    /\ \E how \in BootFailures :
        IF how = "raised"
        THEN pc' = "raised" /\ UNCHANGED findings
        ELSE pc' = "done" /\ findings' = {Finding(how, 0, 0, "ERROR")}
    /\ faults' = faults + 1
    /\ UNCHANGED <<start, scope, at, check, local, broken>>

\* No subscription or project is visible.
NoScopes ==
    /\ pc = "start"
    /\ start.scopes = 0 /\ Presence # {}
    /\ pc' = "done"
    /\ findings' = {Finding(c, 0, 0, "FAIL") : c \in Presence}
    /\ UNCHANGED <<start, scope, at, check, local, faults, broken>>

EnterScope ==
    /\ pc = "scope"
    /\ scope <= start.scopes
    /\ pc' = "idle"
    /\ at' = NextCheck(0)
    /\ local' = {Finding(c, scope, 0, "PASS") : c \in {p \in Presence : Selected(p)}}
    /\ UNCHANGED <<start, scope, check, findings, faults, broken>>
-----------------------------------------------------------------------------
\* What of a listing is lost without a word.
Lost(row, things) ==
    CASE row.garbles = "no"       -> {{}}
      [] row.garbles = "line"     -> SUBSET things
      [] row.garbles = "document" -> {{}, things}

\* One check.  A listing that is read whole is read when the check begins.
Begin ==
    /\ pc = "idle"
    /\ at <= Len(Table[Kind])
    /\ world' \in [Items -> Current.shapes \cup {Absent}]
    /\ was' = [i \in Items |-> <<world'[i]>>]
    /\ LET present == {i \in Items : world'[i] # Absent}
           named == {i \in present : Current.reads # "join" \/ world'[i] \notin Current.skip}
           later == {i \in present : /\ world'[i] \in Current.calls
                                  /\ \E c \in Current.callsFor : Selected(c)} IN
       CASE Current.reads = "list" ->
                /\ listing' = Restrict(world', later)
                /\ todo' = later
                /\ \E lost \in Lost(Current, present \ later) :
                        seen' = Restrict(world', (present \ later) \ lost)
         [] Current.reads \in {"join", "tasks", "file"} ->
                listing' = <<>> /\ todo' = named /\ seen' = <<>>
         [] Current.reads = "page" -> listing' = <<>> /\ todo' = Items /\ seen' = <<>>
    /\ pc' = "check"
    /\ changes' = 0
    /\ UNCHANGED <<start, scope, at, local, findings, faults, broken>>

Merged(i) == Mixed(Current, listing[i], world[i])

Due(i) == i \in todo /\ (Current.reads # "tasks" => i = Min(todo))

\* What has been read is collected in a list that outlives the loop.
Noted_Reset(i, thing) == [j \in {i} |-> thing] \* mutant
Noted(i, thing) == [j \in DOMAIN seen \cup {i} |-> IF j = i THEN thing ELSE seen[j]]

\* The next thing is read; a page no longer holds what has vanished.
Read(i) ==
    /\ pc = "check"
    /\ Due(i)
    /\ CASE Current.reads = "list" ->
                world[i] # Absent /\ seen' = Noted(i, Merged(i)) /\ todo' = todo \ {i}
         [] Current.reads = "join" ->
                seen' = Restrict(world, todo) /\ todo' = {}
         [] OTHER ->
                /\ world[i] \notin Current.fatal
                /\ Current.reads = "tasks" => world[i] # Absent
                /\ seen' = IF world[i] = Absent THEN seen ELSE Noted(i, world[i])
                /\ todo' = todo \ {i}
    /\ UNCHANGED <<start, pc, scope, at, world, was, listing, local, findings, changes, faults, broken>>

Advance(fs) ==
    /\ local' = local \cup fs
    /\ at' = NextCheck(at)
    /\ pc' = "idle"
    /\ Rested

Close ==
    /\ pc = "check"
    /\ todo = {}
    /\ Advance(Verdicts(Current, seen))
    /\ UNCHANGED <<start, scope, findings, faults, broken>>

\* A thing cannot be read: it has vanished since it was listed, it is not of
\* the expected form, or the call fails.
Unreadable(i) ==
    \/ world[i] = Absent /\ Current.reads \in {"list", "tasks"}
    \/ world[i] \in Current.fatal
HandleFailure(i) ==
    CASE Current.onError = "silent" ->
            todo' = todo \ {i} /\ UNCHANGED <<pc, at, world, was, listing, seen, changes, local, findings>>
      [] Current.onError = "item" ->
            /\ local' = local \cup {Finding(c, scope, i, "ERROR") : c \in Asked(Current)}
            /\ todo' = todo \ {i}
            /\ UNCHANGED <<pc, at, world, was, listing, seen, changes, findings>>
      [] Current.onError = "discard" ->
            /\ findings' = {Finding("TF-SEC-001", scope, 0, "ERROR")}
            /\ local' = {}
            /\ pc' = "done"
            /\ Rested
            /\ UNCHANGED at
      [] OTHER -> Advance(OnFailure(Current, seen, i)) /\ UNCHANGED findings
Blamed == {<<scope, c>> : c \in IF Current.onError = "discard" THEN {"TF-SEC-001"} ELSE Asked(Current)}

Fails(i) ==
    /\ pc = "check"
    /\ Due(i)
    /\ \/ Unreadable(i) /\ UNCHANGED faults
       \/ faults < MaxFaults /\ Current.reads # "file" /\ faults' = faults + 1
    /\ HandleFailure(i)
    /\ broken' = IF Current.onError = "silent" THEN broken ELSE broken \cup Blamed
    /\ UNCHANGED <<start, scope>>

\* The listing fails before anything is read; files are listed by the disk.
ListFails ==
    /\ pc = "idle"
    /\ at <= Len(Table[Kind])
    /\ faults < MaxFaults
    /\ Current.onError \in {"ERROR", "MANUAL"} /\ Current.verdict # "manual"
    /\ faults' = faults + 1
    /\ Advance(OnFailure(Current, <<>>, 0))
    /\ broken' = broken \cup Blamed
    /\ UNCHANGED <<start, scope, findings>>

\* The rate limiter stands outside the handler of an endpoint's task: the
\* finding names neither the endpoint nor, for a certificate, the control.
LimiterRaises(i) ==
    /\ pc = "check"
    /\ Current.reads = "tasks" /\ i \in todo
    /\ faults < MaxFaults
    /\ faults' = faults + 1
    /\ local' = local \cup {Finding("NET-TLS-001", scope, 0, "ERROR")}
    /\ todo' = todo \ {i}
    /\ broken' = broken \cup {<<scope, "NET-TLS-001">>}
    /\ UNCHANGED <<start, pc, scope, at, world, was, listing, seen, changes, findings>>

\* The SDK lacks the call: somebody has to look.
OutdatedSdk ==
    /\ pc = "idle"
    /\ at <= Len(Table[Kind])
    /\ Current.outdated
    /\ Advance({Finding(c, scope, 0, "MANUAL") : c \in Asked(Current)})
    /\ UNCHANGED <<start, scope, findings, faults, broken>>

\* Others create, change or delete a thing while a check reads.
Change(i) ==
    /\ pc = "check"
    /\ todo # {}
    /\ Current.reads # "file"
    /\ changes < MaxChanges
    /\ \E new \in Current.shapes \cup {Absent} :
        /\ new # world[i]
        /\ {new, world[i]} \subseteq Current.shapes => (new \in Current.skip <=> world[i] \in Current.skip)
        /\ world' = [world EXCEPT ![i] = new]
        /\ was' = [was EXCEPT ![i] = Append(@, new)]
    /\ changes' = changes + 1
    /\ UNCHANGED <<start, pc, scope, at, listing, todo, seen, local, findings, faults, broken>>
-----------------------------------------------------------------------------
\* Calls outside any handler: imports and the role of an account at the start
\* of a scope, the list of buckets at its end.  One profile that fails takes
\* the whole audit with it, one member account only its own findings.
BucketControls == {"AWS-S3-002", "AWS-S3-003", "AWS-S3-007"}
MayEscape ==
    \/ start.provider \in {"azure", "gcp"} /\ at = NextCheck(0)
    \/ start.provider \in {"aws", "aws-org"} /\ at = NextCheck(0)
    \/ /\ start.provider = "aws" \/ Member
       /\ at > Len(Table[Kind])
       /\ start.controls = {} \/ start.controls \cap BucketControls # {}

Escapes ==
    /\ pc = "idle"
    /\ MayEscape
    /\ faults < MaxFaults
    /\ faults' = faults + 1
    /\ local' = {}
    /\ IF Member
       THEN /\ findings' = findings \cup {Finding("AWS-ORG-001", scope, 0, "ERROR")}
            /\ pc' = "scope"
            /\ scope' = scope + 1
       ELSE pc' = "raised" /\ UNCHANGED <<findings, scope>>
    /\ UNCHANGED <<start, at, check, broken>>

LeaveScope ==
    /\ pc = "idle"
    /\ at > Len(Table[Kind])
    /\ findings' = findings \cup local
    /\ local' = {}
    /\ scope' = scope + 1
    /\ pc' = "scope"
    /\ UNCHANGED <<start, at, check, faults, broken>>

Finish ==
    /\ pc = "scope"
    /\ scope > start.scopes
    /\ findings' = Annotated(findings)
    /\ pc' = "done"
    /\ UNCHANGED <<start, scope, at, check, local, faults, broken>>

Next ==
    \/ Boot \/ BootFails \/ NoScopes \/ EnterScope
    \/ Begin \/ Close \/ ListFails \/ OutdatedSdk
    \/ \E i \in Items : Read(i) \/ Fails(i) \/ LimiterRaises(i) \/ Change(i)
    \/ Escapes \/ LeaveScope \/ Finish

Spec == Init /\ [][Next]_vars
-----------------------------------------------------------------------------
Statuses == {"PASS", "FAIL", "ERROR", "MANUAL", "SKIP"}
Found == local \cup findings

\* The variables keep their types; a finding names a scope of this run, and
\* only a failure of the plan mode is a planned change.
TypeOK ==
    /\ start \in Starts
    /\ pc \in {"start", "scope", "idle", "check", "done", "raised"}
    /\ scope \in 0 .. start.scopes + 1
    /\ todo \subseteq Items
    /\ DOMAIN seen \subseteq Items /\ DOMAIN listing \subseteq Items
    /\ changes \in 0 .. MaxChanges
    /\ faults \in 0 .. MaxFaults
    /\ \A f \in Found :
        /\ f.scope \in 0 .. start.scopes
        /\ f.item \in Items \cup {0}
        /\ f.status \in Statuses
        /\ f.planned => f.status = "FAIL" /\ start.mode = "plan"

\* Nobody is left without an answer: an audit that ends has answered every
\* selected control in every scope, or says that it could not start or that
\* the account could not be assessed.  Checks with a finding per thing have
\* nothing to say about a scope without things.  An account audited without
\* --control has nothing to say about its organization.
Unstarted(f) == f.scope = 0 \/ (f.control = "TF-SEC-001" /\ f.status = "ERROR")
Answered ==
    pc = "done" /\ (\A f \in findings : ~Unstarted(f)) =>
        \A s \in 1 .. start.scopes :
            \/ \E f \in findings : f.scope = s /\ f.control = "AWS-ORG-001"
            \/ \A j \in DOMAIN Table[KindOf(s)] :
                LET row == Table[KindOf(s)][j] IN
                \A c \in Asked(row) : \/ row.verdict \in {"each", "only_bad"}
                                      \/ \E f \in findings : f.scope = s /\ f.control = c

\* A check whose calls failed never looks clean: each of its controls has an
\* ERROR or MANUAL finding in that scope, or the account has one as a whole.
ErrorsSurface ==
    pc # "raised" =>
        \A b \in broken : \E f \in Found :
            /\ f.scope = b[1]
            /\ f.status \in {"ERROR", "MANUAL"}
            /\ f.control \in {b[2], "AWS-ORG-001"}
-----------------------------------------------------------------------------
\* What a thing has been since the check began, and what a reader of its
\* attributes at different moments may take it for.
Ever(i) == {was[i][k] : k \in DOMAIN was[i]}
Mixes(i) == {t \in Current.shapes : \A a \in DOMAIN t : \E u \in Ever(i) \ {Absent} : u[a] = t[a]}
Deleted(i) ==
    /\ was[i] # <<>> /\ was[i][1] # Absent /\ was[i][1] \notin Current.skip
    /\ Absent \in Ever(i)
Accepted(c) == (Current.good[c] \cup Current.skip) \ Current.fatal

Closes == pc = "check" /\ pc' # "check"
Alarm(c, i) ==
    \E f \in local' \cup findings' :
        /\ f.scope = scope
        /\ f.status \notin {"PASS", "SKIP"}
        /\ \/ f.control = c /\ f.item \in {0, i}
           \/ f.status = "ERROR" /\ f.item = 0
Overlooked(i) == Current.onError = "silent" /\ (faults > 0 \/ Ever(i) \cap Current.fatal # {})
Garbled(i) == Current.garbles # "no" /\ i \notin DOMAIN seen

\* Whatever others change meanwhile and whatever fails: a thing that no
\* moment of the check would have found acceptable is reported, and a control
\* that asks for something is not passed when it never was there.  Two checks
\* overlook things: the secrets scanner the files that it cannot open, and those of
\* Docker's containers the lines that cannot be decoded.
NothingMissed ==
    [][Closes => \A c \in Asked(Current) :
            IF c \in AskForOne
            THEN (\A i \in Items : Mixes(i) \cap Current.good[c] = {}) => Alarm(c, 0)
            ELSE \A i \in Items :
                    Absent \notin Ever(i) /\ Mixes(i) \cap Accepted(c) = {}
                    => Alarm(c, i) \/ Overlooked(i) \/ Garbled(i)]_vars

\* A failure is somebody's fault: some thing was unacceptable at some moment
\* of the check, or what was asked for was not there all the time.  The exceptions
\* are namespaces deleted between the two listings of K8S-NET-001, and options of
\* the Docker daemon in output that cannot be decoded.
FailIsReal ==
    [][Closes => \A f \in local' \cup findings' :
            f.status = "FAIL" /\ f.scope = scope /\ f.control \in Asked(Current) =>
                IF f.control \in AskForOne
                THEN \A i \in Items : ~(Ever(i) \subseteq Current.good[f.control]) \/ Garbled(i)
                ELSE \E i \in IF f.item = 0 THEN Items ELSE {f.item} :
                        \/ Mixes(i) \ Accepted(f.control) # {}
                        \/ Current.reads = "join" /\ Deleted(i)]_vars

\* What has been found stays found: a later failure adds to the findings and
\* takes none away.  Losses are confined to the member account that could not
\* be assessed to its end, which is named, and to a malformed plan.
Reported == IF pc = "check" /\ Current.verdict = "each" /\ Current.onError = "ERROR"
            THEN Verdicts(Current, Restrict(seen, {i \in DOMAIN seen : todo = {} \/ i < Min(todo)}))
            ELSE {}
FoundStays ==
    [][pc' \notin {"raised", "check"} =>
        \A f \in Found \cup Reported :
            \/ \E g \in local' \cup findings' :
                [g EXCEPT !.planned = FALSE] = [f EXCEPT !.planned = FALSE]
            \/ Finding("AWS-ORG-001", f.scope, 0, "ERROR") \in findings'
            \/ findings' = {Finding("TF-SEC-001", scope, 0, "ERROR")}]_vars
=============================================================================
