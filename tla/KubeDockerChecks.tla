-------------------------- MODULE KubeDockerChecks --------------------------
(***************************************************************************)
(* The checks of cloud/k8s_harden.py and cloud/docker_cis.py.              *)
(***************************************************************************)
EXTENDS CheckRow

\* Two listings: the namespaces, then the NetworkPolicies of all namespaces.
NetworkPolicies ==
    LET namespace == [kube : BOOLEAN, policy : BOOLEAN] IN
    [Row("none_bad", "K8S-NET-001" :> {n \in namespace : n.policy}, namespace)
        EXCEPT !.reads = "join", !.skip = {n \in namespace : n.kube}]

\* A role binding with one subject; a subject without a namespace is not `kube'.
ClusterAdminBindings ==
    LET subject == OneOff([role |-> "cluster-admin", kind |-> "ServiceAccount", kube |-> FALSE],
                          [role : {"cluster-admin", "view"}, kind : {"ServiceAccount", "User"},
                           kube : BOOLEAN]) IN
    Row("none_bad",
        "K8S-RBAC-001" :> {s \in subject : s.role # "cluster-admin" \/ s.kind # "ServiceAccount" \/ s.kube},
        subject)

PrivilegedPods ==
    LET container == [kube : BOOLEAN, privileged : BOOLEAN] IN
    [Row("none_bad", "K8S-POD-001" :> {c \in container : ~c.privileged}, container)
        EXCEPT !.skip = {c \in container : c.kube}]

PodSecurityStandards ==
    LET namespace == [kube : BOOLEAN, enforce : BOOLEAN] IN
    [Row("none_bad", "K8S-SEC-001" :> {n \in namespace : n.enforce}, namespace)
        EXCEPT !.skip = {n \in namespace : n.kube}]

KubeCluster == <<NetworkPolicies, ClusterAdminBindings, PrivilegedPods, PodSecurityStandards>>
-----------------------------------------------------------------------------
\* `docker info' is run again for every check that needs it.  Output that cannot
\* be decoded counts as information without security options.
DaemonTls ==
    LET option == [tls : BOOLEAN] IN
    [Row("some_good", "DOCKER-DAEMON-001" :> {o \in option : o.tls}, option)
        EXCEPT !.garbles = "document"]

UserNamespaces ==
    LET option == [userns : BOOLEAN] IN
    [Row("some_good", "DOCKER-DAEMON-002" :> {o \in option : o.userns}, option)
        EXCEPT !.garbles = "document"]

\* A line of `docker ps' that cannot be decoded is passed over.
HostNetwork ==
    LET container == [Networks : {"bridge", "host"}] IN
    [Row("none_bad", "DOCKER-NET-001" :> {c \in container : c.Networks # "host"}, container)
        EXCEPT !.garbles = "line"]

\* An image by digest has a colon and so counts as pinned.
LatestTag ==
    LET container == [Image : {"app", "app:latest", "app:1.2", "app@sha256:..."}] IN
    [Row("none_bad",
         "DOCKER-IMG-001" :> {c \in container : c.Image \in {"app:1.2", "app@sha256:..."}}, container)
        EXCEPT !.garbles = "line"]

DockerHost == <<DaemonTls, UserNamespaces, HostNetwork, LatestTag>>
=============================================================================
