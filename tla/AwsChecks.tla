----------------------------- MODULE AwsChecks -----------------------------
(***************************************************************************)
(* The AWS checks that only read: check_aws_services and                   *)
(* check_aws_organization_services (cloud/providers/aws/services.py) and   *)
(* the read-only part of _check_bucket (cloud/providers/aws/baseline.py).  *)
(* The checks that may also write are in AwsRemediation.                   *)
(***************************************************************************)
EXTENDS CheckRow

RootMfa ==
    LET summary == [AccountMFAEnabled : BOOLEAN] IN
    Row("some_good", "AWS-IAM-001" :> {s \in summary : s.AccountMFAEnabled}, summary)

\* The status of a trail is asked for after the list of trails has been read.
CloudTrail ==
    LET trail == [IsMultiRegionTrail : BOOLEAN, IsLogging : BOOLEAN] IN
    [Row("some_good", "AWS-CT-001" :> {t \in trail : t.IsMultiRegionTrail /\ t.IsLogging}, trail)
        EXCEPT !.listed = {"IsMultiRegionTrail"},
               !.calls  = {t \in trail : t.IsMultiRegionTrail}]

ConfigRecorder ==
    LET recorder == [recording : BOOLEAN] IN
    Row("some_good", "AWS-CONFIG-001" :> {r \in recorder : r.recording}, recorder)

GuardDuty ==
    LET detector == [id : {"detector"}] IN
    Row("some_good", "AWS-GD-001" :> detector, detector)

\* The exception that says Security Hub is off counts as an empty list.
SecurityHub ==
    LET hub == [HubArn : BOOLEAN] IN
    Row("some_good", "AWS-SH-001" :> {h \in hub : h.HubArn}, hub)

DefaultSecurityGroups ==
    LET group == [IpPermissions : BOOLEAN, IpPermissionsEgress : BOOLEAN] IN
    Row("none_bad",
        "AWS-EC2-001" :> {g \in group : ~g.IpPermissions /\ ~g.IpPermissionsEgress}, group)

RdsEncryption ==
    LET instance == [StorageEncrypted : BOOLEAN] IN
    [Row("none_bad", "AWS-RDS-001" :> {i \in instance : i.StorageEncrypted}, instance)
        EXCEPT !.reads = "page"]

KmsRotation ==
    LET key == OneOff([KeyManager |-> "CUSTOMER", KeySpec |-> "SYMMETRIC_DEFAULT", rotates |-> FALSE],
                      [KeyManager : {"CUSTOMER", "AWS"}, KeySpec : {"SYMMETRIC_DEFAULT", "RSA_2048"},
                       rotates : BOOLEAN]) IN
    [Row("none_bad", "AWS-KMS-001" :> {k \in key : k.rotates}, key)
        EXCEPT !.calls = key,
               !.skip  = {k \in key : k.KeyManager # "CUSTOMER" \/ k.KeySpec # "SYMMETRIC_DEFAULT"}]

\* _selected and check order of check_aws_services.
AwsServices ==
    <<RootMfa, CloudTrail, ConfigRecorder, GuardDuty, SecurityHub, DefaultSecurityGroups,
      RdsEncryption, KmsRotation>>
-----------------------------------------------------------------------------
OrgTrail ==
    LET trail == [IsOrganizationTrail : BOOLEAN, IsMultiRegionTrail : BOOLEAN, IsLogging : BOOLEAN] IN
    [Row("some_good",
         "AWS-ORG-CT-001" :> {t \in trail : \A a \in DOMAIN t : t[a]}, trail)
        EXCEPT !.listed  = {"IsOrganizationTrail", "IsMultiRegionTrail"},
               !.calls   = {t \in trail : t.IsOrganizationTrail /\ t.IsMultiRegionTrail},
               !.onError = "MANUAL"]

OrgGuardDuty ==
    LET admin == [AdminStatus : {"ENABLED", "DISABLE_IN_PROGRESS"}] IN
    [Row("some_good", "AWS-ORG-GD-001" :> {a \in admin : a.AdminStatus = "ENABLED"}, admin)
        EXCEPT !.onError = "MANUAL"]

OrgSecurityHub ==
    LET admin == [id : {"admin"}] IN
    [Row("some_good", "AWS-ORG-SH-001" :> admin, admin) EXCEPT !.onError = "MANUAL"]

OrgAggregator ==
    LET aggregator == [organization : BOOLEAN, accounts : BOOLEAN] IN
    [Row("some_good",
         "AWS-ORG-CONFIG-001" :> {a \in aggregator : a.organization \/ a.accounts}, aggregator)
        EXCEPT !.onError = "MANUAL"]

AwsOrganization == <<OrgTrail, OrgGuardDuty, OrgSecurityHub, OrgAggregator>>
-----------------------------------------------------------------------------
\* One bucket is a scope; `excluded' answers every control with SKIP.
BucketAcl ==
    LET grant == [URI : {"AllUsers", "AuthenticatedUsers", "owner"}] IN
    Row("none_bad", "AWS-S3-002" :> {g \in grant : g.URI = "owner"}, grant)

\* A bucket without a policy raises NoSuchBucketPolicy, which is a PASS.
BucketPolicy ==
    LET policy == [IsPublic : BOOLEAN] IN
    Row("none_bad", "AWS-S3-003" :> {p \in policy : ~p.IsPublic}, policy)

BucketLogging ==
    LET target == [bucket : {"logs"}] IN
    Row("some_good", "AWS-S3-007" :> target, target)

AwsBucket == <<BucketAcl, BucketPolicy, BucketLogging>>
=============================================================================
