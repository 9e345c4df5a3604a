----------------------------- MODULE GcpChecks -----------------------------
(***************************************************************************)
(* The checks of _project_findings (cloud/gcp_harden.py).                  *)
(***************************************************************************)
EXTENDS CheckRow, Naturals

\* A bucket's IAM policy is fetched by a call per bucket; its uniform access
\* and its name come with the listing.
GcpBuckets ==
    LET bucket == [members : {"allUsers", "allAuthenticatedUsers", "team"}, uniform : BOOLEAN,
                   excluded : BOOLEAN] IN
    [Row("each",
         "GCP-STORAGE-001" :> {b \in bucket : b.members = "team"}
         @@ "GCP-STORAGE-002" :> {b \in bucket : b.uniform}, bucket)
        EXCEPT !.listed = {"uniform", "excluded"},
               !.calls  = {b \in bucket : ~b.excluded},
               !.callsFor = {"GCP-STORAGE-001"},
               !.skip   = {b \in bucket : b.excluded}]

GcpServiceAccountKeys ==
    LET account == [userManagedKeys : 0 .. 2] IN
    [Row("none_bad", "GCP-IAM-002" :> {a \in account : a.userManagedKeys = 0}, account)
        EXCEPT !.calls = account]

\* No port list means all ports of the protocol.
GcpIncludesAdminPort(tokens, adminPorts) ==
    \/ tokens = {}
    \/ \E token \in tokens, port \in adminPorts : token.first <= port /\ port <= token.last

GcpAdminPorts == {22, 3389}

GcpFirewall ==
    LET Token(a, b) == [first |-> a, last |-> b]
        allowed == OneOff([sources |-> {"0.0.0.0/0"}, protocol |-> "tcp", ports |-> {Token(20, 25)}],
                          [sources : {{"0.0.0.0/0"}, {"10.0.0.0/8"}},
                           protocol : {"tcp", "6", "all", "udp"},
                           ports : {{}, {Token(443, 443)}, {Token(20, 25)}, {Token(3389, 3389)}}])
        exposed == {a \in allowed :
                        /\ a.sources \cap {"0.0.0.0/0", "::/0"} # {}
                        /\ a.protocol \in {"all", "tcp", "6"}
                        /\ GcpIncludesAdminPort(a.ports, GcpAdminPorts)} IN
    [Row("none_bad", "GCP-NET-001" :> allowed \ exposed, allowed) EXCEPT !.reads = "page"]

\* Locations, key rings and keys are three nested lazy listings.
GcpKms ==
    LET key == [rotation_period : BOOLEAN, next_rotation_time : BOOLEAN] IN
    [Row("none_bad", "GCP-KMS-001" :> {k \in key : k.rotation_period /\ k.next_rotation_time}, key)
        EXCEPT !.reads = "page", !.outdated = TRUE]

GcpSinks ==
    LET sink == [id : {"sink"}] IN Row("some_good", "GCP-LOG-001" :> sink, sink)

\* _has_required_audit_logs: one entry of the IAM policy that covers all
\* services and has every log type; entries do not add up.
RequiredLogs == {"ADMIN_READ", "DATA_READ", "DATA_WRITE"}
GcpAuditLogs ==
    LET auditConfig == OneOff([service |-> "allServices", enabled |-> RequiredLogs],
                              [service : {"allServices", "storage"},
                               enabled : {{}, {"DATA_READ"}, RequiredLogs \ {"DATA_READ"}, RequiredLogs}]) IN
    Row("some_good",
        "GCP-LOG-002" :> {c \in auditConfig : c.service = "allServices" /\ RequiredLogs \subseteq c.enabled},
        auditConfig)

GcpCommandCenter == Row("manual", "GCP-SEC-001" :> {}, {})

GcpProject ==
    <<GcpBuckets, GcpServiceAccountKeys, GcpFirewall, GcpKms, GcpSinks, GcpAuditLogs, GcpCommandCenter>>
=============================================================================
