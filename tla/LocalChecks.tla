---------------------------- MODULE LocalChecks ----------------------------
(***************************************************************************)
(* The scans of files and endpoints: cloud/terraform_plan.py,              *)
(* cloud/secrets_scanner.py and cloud/network_scanner.py.                  *)
(***************************************************************************)
EXTENDS CheckRow

\* An entry of resource_changes that is not of the expected form ends the
\* reading of the plan; only created and updated resources are looked at.
TerraformPlan ==
    LET entry == OneOff([type |-> "aws_s3_bucket", action |-> "create", open |-> TRUE, acl |-> "private",
                         star |-> TRUE, encrypted |-> TRUE, wellFormed |-> TRUE],
                        [type : {"aws_security_group", "aws_s3_bucket", "aws_iam_policy", "aws_ebs_volume"},
                         action : {"create", "update", "delete"}, open : BOOLEAN,
                         acl : {"private", "public-read"}, star : BOOLEAN, encrypted : BOOLEAN,
                         wellFormed : BOOLEAN]) IN
    [Row("only_bad",
         "TF-SEC-001" :> {e \in entry : e.type # "aws_security_group" \/ ~e.open}
         @@ "TF-SEC-002" :> {e \in entry : e.type # "aws_s3_bucket" \/ e.acl = "private"}
         @@ "TF-SEC-003" :> {e \in entry : e.type # "aws_iam_policy" \/ ~e.star}
         @@ "TF-SEC-004" :> {e \in entry : e.type \notin {"aws_s3_bucket", "aws_ebs_volume"} \/ e.encrypted},
         entry)
        EXCEPT !.reads   = "file",
               !.skip    = {e \in entry : e.action = "delete"},
               !.fatal   = {e \in entry : ~e.wellFormed},
               !.onError = "discard"]

\* A file with at most one line that matches a pattern.  Ignored extensions,
\* binary files and files over the size limit are left out; a file that
\* cannot be opened is passed over without a word.
SecretFiles ==
    LET file == OneOff([secret |-> TRUE, allowlisted |-> FALSE, scanned |-> TRUE, readable |-> TRUE],
                       [secret : BOOLEAN, allowlisted : BOOLEAN, scanned : BOOLEAN, readable : BOOLEAN]) IN
    [Row("only_bad", "SECRETS-001" :> {f \in file : ~f.secret \/ f.allowlisted}, file)
        EXCEPT !.reads   = "page",
               !.skip    = {f \in file : ~f.scanned},
               !.fatal   = {f \in file : ~f.readable},
               !.onError = "silent"]

\* Every endpoint has a task of its own for each of the two checks.
EndpointTls ==
    LET endpoint == [version : {"TLSv1.1", "TLSv1.2", "TLSv1.3"}, up : BOOLEAN] IN
    [Row("each", "NET-TLS-001" :> {e \in endpoint : e.version # "TLSv1.1"}, endpoint)
        EXCEPT !.reads = "tasks", !.fatal = {e \in endpoint : ~e.up}, !.onError = "item"]

EndpointCertificate ==
    LET endpoint == [certificate : {"valid", "expired"}, up : BOOLEAN] IN
    [Row("each", "NET-TLS-002" :> {e \in endpoint : e.certificate = "valid"}, endpoint)
        EXCEPT !.reads = "tasks", !.fatal = {e \in endpoint : ~e.up}, !.onError = "item"]
=============================================================================
