------------------------------- MODULE MCCli -------------------------------
(***************************************************************************)
(* Command lines that differ in one argument from six typical ones, and    *)
(* every mixture of good, silent, bad and absent sinks for one audit.      *)
(***************************************************************************)
EXTENDS Cli

NoNotify == [file |-> "none", sinks |-> NoSinks]
GoodSinks == [s \in SinkSet |-> "good"]
OneSink == [file |-> "dict", sinks |-> [NoSinks EXCEPT !["slack"] = "good"]]
Mixes == [SinkSet -> {"absent", "bad", "good", "silent"}]

Plain == [provider |-> "aws", action |-> FALSE, playbook |-> FALSE, mode |-> "audit", yes |-> FALSE,
          change |-> FALSE, plan |-> FALSE, rollback |-> FALSE, output |-> TRUE, control |-> "none",
          policy |-> "none", custom |-> "none", waivers |-> "none", compliance |-> FALSE,
          dashboard |-> FALSE, notify |-> NoNotify]
Apply    == [Plain EXCEPT !.mode = "apply", !.yes = TRUE, !.change = TRUE]
Plan     == [Plain EXCEPT !.mode = "plan", !.plan = TRUE, !.provider = "azure", !.dashboard = TRUE]
Rollback == [Plain EXCEPT !.mode = "rollback", !.yes = TRUE, !.rollback = TRUE]
All      == [Plain EXCEPT !.provider = "all", !.mode = "plan", !.plan = TRUE]
Rich     == [Plain EXCEPT !.custom = "good", !.waivers = "active", !.compliance = TRUE]
Alert    == [Plain EXCEPT !.notify = [file |-> "dict", sinks |-> GoodSinks]]

Variants(c) ==
    {c}
    \cup {[c EXCEPT !.provider = p] : p \in {"aws", "azure", "docker", "all", "policy"}}
    \cup {[c EXCEPT !.action = TRUE], [c EXCEPT !.playbook = TRUE],
          [c EXCEPT !.provider = "policy", !.action = TRUE, !.policy = "good"]}
    \cup {[c EXCEPT !.mode = m] : m \in {"audit", "plan", "apply", "rollback"}}
    \cup {[c EXCEPT !.yes = ~@], [c EXCEPT !.change = ~@], [c EXCEPT !.plan = ~@],
          [c EXCEPT !.rollback = ~@], [c EXCEPT !.output = ~@], [c EXCEPT !.dashboard = ~@]}
    \cup {[c EXCEPT !.control = k] : k \in {"aws", "nobody"}}
    \cup {[c EXCEPT !.policy = k] : k \in {"good", "bad"}}
    \cup {[c EXCEPT !.custom = k] : k \in {"none", "good", "broken", "bad severity"}}
    \cup {[c EXCEPT !.waivers = k] : k \in {"none", "active", "expired", "unreadable", "date only"}}

MCCalls ==
    UNION {Variants(c) : c \in {Plain, Apply, Plan, Rollback, All, Rich}}
    \cup {[Alert EXCEPT !.notify.sinks = sinks] : sinks \in Mixes}
    \cup {[Alert EXCEPT !.notify.file = k] : k \in {"broken", "list"}}
    \cup {[Alert EXCEPT !.provider = "all"], [Apply EXCEPT !.notify = OneSink]}

MCResults == {{}, {"pass"}, {"pass", "fail"}, {"error"}, {"pass", "manual"}}
=============================================================================
