---------------------------- MODULE AzureChecks ----------------------------
(***************************************************************************)
(* The checks of _subscription_findings (cloud/azure_harden.py).  Lists of *)
(* the SDK are lazy, "page", unless the code makes a list of them first.   *)
(***************************************************************************)
EXTENDS CheckRow, Naturals

AzureStorage ==
    LET account == OneOff([https |-> TRUE, tls |-> "TLS1_2", default_action |-> "Deny", excluded |-> FALSE],
                          [https : BOOLEAN, tls : {"TLS1_0", "TLS1_2", "TLS1_3"},
                           default_action : {"Allow", "Deny"}, excluded : BOOLEAN]) IN
    [Row("each",
         "AZURE-STORAGE-001" :> {a \in account : a.https /\ a.tls \in {"TLS1_2", "TLS1_3"}}
         @@ "AZURE-STORAGE-002" :> {a \in account : a.default_action = "Deny"}, account)
        EXCEPT !.reads = "page", !.skip = {a \in account : a.excluded}]

AzureKeyVault ==
    LET vault == [public_network_access : {"enabled", "disabled"}, default_action : {"allow", "deny"}] IN
    [Row("none_bad",
         "AZURE-KV-001" :> {v \in vault : \/ v.public_network_access = "disabled"
                                          \/ v.default_action = "deny"}, vault)
        EXCEPT !.reads = "page"]

\* The servers are listed, then the auditing policy of each is fetched.
AzureSql ==
    LET server == [state : {"Enabled", "Disabled"}] IN
    [Row("none_bad", "AZURE-SQL-001" :> {s \in server : s.state = "Enabled"}, server)
        EXCEPT !.calls = server]

\* A port token is a range, a single port one of length one, "*" the range of
\* all ports; other texts match nothing.
AzureIncludesAdminPort(tokens, adminPorts) ==
    \E token \in tokens, port \in adminPorts : token.first <= port /\ port <= token.last

AzureAdminPorts == {22, 3389, 5985, 5986}

AzureNetwork ==
    LET Token(a, b) == [first |-> a, last |-> b]
        rule == OneOff([access |-> "allow", direction |-> "inbound", sources |-> {"internet"},
                        ports |-> {Token(443, 443), Token(3000, 3500)}],
                       [access : {"allow", "deny"}, direction : {"inbound", "outbound"},
                        sources : {{"internet"}, {"10.0.0.0/8"}, {"10.0.0.0/8", "internet"}},
                        ports : {{}, {Token(443, 443)}, {Token(22, 22)},
                                 {Token(443, 443), Token(3000, 3500)}, {Token(0, 65535)}}])
        exposed == {r \in rule :
                        /\ r.access = "allow"
                        /\ r.direction = "inbound"
                        /\ "internet" \in r.sources
                        /\ AzureIncludesAdminPort(r.ports, AzureAdminPorts)} IN
    [Row("none_bad", "AZURE-NET-001" :> rule \ exposed, rule) EXCEPT !.reads = "page"]

AzureDefender ==
    LET plan == [pricing_tier : {"free", "standard"}] IN
    Row("none_bad", "AZURE-SEC-001" :> {p \in plan : p.pricing_tier # "free"}, plan)

AzureDiagnostics ==
    LET setting == [id : {"setting"}] IN Row("some_good", "AZURE-LOG-002" :> setting, setting)

AzureLogProfile ==
    LET profile == [id : {"profile"}] IN Row("some_good", "AZURE-LOG-001" :> profile, profile)

AzureSubscription ==
    <<AzureStorage, AzureKeyVault, AzureSql, AzureNetwork, AzureDefender, AzureDiagnostics,
      AzureLogProfile>>
=============================================================================
