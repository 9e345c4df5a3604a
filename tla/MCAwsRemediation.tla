-------------------------- MODULE MCAwsRemediation --------------------------
(***************************************************************************)
(* Instances of AwsRemediation for TLC.  The main one has one region, two  *)
(* buckets that are checked at the same time and a third one the policy    *)
(* excludes; another has two regions and one bucket.                       *)
(***************************************************************************)
EXTENDS AwsRemediation
CONSTANTS b1, b2, b3, r1, r2

MCBuckets == {b1, b2, b3}
MCExcluded == {b3}
MCOneBucket == {b1}
MCRegions == {r1}
MCTwoRegions == {r1, r2}
MCControls == {"AWS-S3-001", "AWS-S3-005", "AWS-VPC-001"}
MCOtherControls == {"AWS-S3-004", "AWS-S3-006", "AWS-EBS-001", "AWS-IAM-002"}
\* Each setting of the account starts compliant or not; the excluded bucket
\* starts with nothing configured.
MCStart(i, ok) ==
    CASE i[2] \in MCExcluded -> IF Ctl(i) = "AWS-S3-006" THEN "Disabled" ELSE "none"
      [] Ctl(i) = "AWS-S3-005" -> IF ok THEN "custom" ELSE "none"
      [] Ctl(i) = "AWS-S3-006" -> IF ok THEN "Enabled" ELSE "Suspended"
      [] Ctl(i) \in {"AWS-S3-001", "AWS-S3-004"} -> IF ok THEN "full" ELSE "partial"
      [] OTHER -> IF ok THEN Desired(i)
                  ELSE CHOOSE v \in Settings(i) : v # Desired(i)
MCInitialConfigs == {[i \in Items |-> MCStart(i, ok[Ctl(i)])] : ok \in [Controls -> BOOLEAN]}
MCModes == {"plan", "apply"}
MCFaults == FaultKinds
=============================================================================
