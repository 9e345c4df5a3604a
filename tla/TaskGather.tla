----------------------------- MODULE TaskGather -----------------------------
(***************************************************************************)
(* What ConcurrentRunner promises its callers: it is given tasks, each     *)
(* task ends on its own, by success, by an error or by leaving the program *)
(* ("exit"), and the results come back together, one per task, unless the  *)
(* whole call is given up.                                                 *)
(***************************************************************************)
EXTENDS Naturals

CONSTANT Tasks     \* every task there could be

VARIABLES
    given,         \* the tasks of this call
    ended,         \* [Tasks -> how the task ended]
    returned,      \* the tasks whose result the caller has in hand
    call           \* "open", "complete" or "given up"

gvars == <<given, ended, returned, call>>

GatherInit ==
    /\ given \in SUBSET Tasks
    /\ ended = [t \in Tasks |-> "no"]
    /\ returned = {}
    /\ call = "open"

\* Tasks end independently of each other, also after the call was given up.
End(t) ==
    /\ t \in given
    /\ ended[t] = "no"
    /\ \E how \in {"success", "error", "exit"} : ended' = [ended EXCEPT ![t] = how]
    /\ UNCHANGED <<given, returned, call>>

\* The call completes when it has the result of every task ...
Complete ==
    /\ call = "open"
    /\ \A t \in given : ended[t] \in {"success", "error"}
    /\ returned' = given
    /\ call' = "complete"
    /\ UNCHANGED <<given, ended>>

\* ... or hands out nothing, and leaves no task running behind.
GiveUp ==
    /\ call = "open"
    /\ \A t \in given : ended[t] # "no"
    /\ call' = "given up"
    /\ UNCHANGED <<given, ended, returned>>

GatherNext == (\E t \in Tasks : End(t)) \/ Complete \/ GiveUp

GatherSpec == GatherInit /\ [][GatherNext]_gvars
=============================================================================
