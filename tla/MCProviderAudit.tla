-------------------------- MODULE MCProviderAudit --------------------------
(***************************************************************************)
(* Every check of every provider once with two things in each of two       *)
(* scopes, one change and one failing call anywhere; and a whole scope     *)
(* for the providers whose checks have few shapes.                         *)
(***************************************************************************)
EXTENDS ProviderAudit, AwsChecks, AzureChecks, GcpChecks, KubeDockerChecks, LocalChecks

MCTable ==
    [k \in {"aws_account", "aws_organization", "aws_services", "bucket", "azure", "gcp", "k8s",
            "docker", "terraform", "secrets", "network"} |->
        CASE k = "aws_account"      -> AwsOrganization \o AwsServices
          [] k = "aws_organization" -> AwsOrganization
          [] k = "aws_services"     -> AwsServices
          [] k = "bucket"           -> AwsBucket
          [] k = "azure"            -> AzureSubscription
          [] k = "gcp"              -> GcpProject
          [] k = "k8s"              -> KubeCluster
          [] k = "docker"           -> DockerHost
          [] k = "terraform"        -> <<TerraformPlan>>
          [] k = "secrets"          -> <<SecretFiles>>
          [] k = "network"          -> <<EndpointTls, EndpointCertificate>>]

Call(p, cs, n, m) == [provider |-> p, controls |-> cs, scopes |-> n, mode |-> m]
Each(p, k, n, m) == {Call(p, row.controls, n, m) : row \in {MCTable[k][j] : j \in DOMAIN MCTable[k]}}

\* One check at a time, and calls of several checks that share a fate.
MCStarts ==
    Each("aws", "aws_account", 1, "audit")
    \cup Each("aws-org", "aws_services", 2, "audit")
    \cup Each("bucket", "bucket", 1, "audit")
    \cup Each("azure", "azure", 1, "plan")
    \cup Each("gcp", "gcp", 1, "audit")
    \cup Each("k8s", "k8s", 1, "plan")
    \cup Each("docker", "docker", 1, "audit")
    \cup {Call("terraform", {}, 1, "audit"), Call("secrets", {}, 1, "audit"),
          Call("network", {}, 1, "audit"),
          Call("azure", {}, 0, "audit"), Call("gcp", {"GCP-IAM-001"}, 2, "plan"),
          Call("azure", {"AZURE-STORAGE-001"}, 2, "plan"),
          Call("gcp", {"GCP-STORAGE-002", "GCP-SEC-001"}, 2, "plan"),
          Call("aws-org", {"AWS-ORG-GD-001", "AWS-GD-001", "AWS-S3-002"}, 3, "audit"),
          Call("aws", {"AWS-ORG-SH-001", "AWS-SH-001", "AWS-S3-002"}, 2, "audit"),
          Call("docker", {}, 1, "audit"), Call("aws", {}, 1, "audit")}
=============================================================================
