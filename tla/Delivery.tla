------------------------------ MODULE Delivery ------------------------------
(***************************************************************************)
(* What webhooks.notify promises, without its validation, resolution and   *)
(* pauses: the configured sinks are served one after the other, each is    *)
(* settled whatever becomes of the others, one reported as delivered has   *)
(* the alert, and none has more copies than it has asked for by answering  *)
(* that it, or somebody behind it, ran out of time.                        *)
(***************************************************************************)
EXTENDS Naturals, Sequences

CONSTANTS
    Sinks,         \* sequence of sinks
    MaxAttempts    \* posts of one alert to one sink

VARIABLES
    wanted,      \* the sinks this alert is for
    settled,     \* [sink -> "no", "delivered" or "failed"]
    copies,      \* [sink -> alerts that reached it]
    excuses      \* [sink -> answers that ask for another copy]

vars == <<wanted, settled, copies, excuses>>
SinkSet == {Sinks[k] : k \in DOMAIN Sinks}

Init ==
    /\ wanted = {}
    /\ settled = [s \in SinkSet |-> "no"]
    /\ copies = [s \in SinkSet |-> 0]
    /\ excuses = [s \in SinkSet |-> 0]

Open ==
    /\ wanted = {}
    /\ wanted' \in (SUBSET SinkSet) \ {{}}
    /\ UNCHANGED <<settled, copies, excuses>>

Turn(k) ==
    /\ Sinks[k] \in wanted
    /\ settled[Sinks[k]] = "no"
    /\ \A j \in 1 .. k - 1 : Sinks[j] \in wanted => settled[Sinks[j]] # "no"

\* The answer to a post may be lost although the alert has arrived.
Deliver(s) ==
    /\ copies' = [copies EXCEPT ![s] = @ + 1]
    /\ settled' = [settled EXCEPT ![s] = "delivered"]
    /\ UNCHANGED <<wanted, excuses>>
GiveUp(s) ==
    /\ \E n \in 0 .. 1 : copies' = [copies EXCEPT ![s] = @ + n]
    /\ settled' = [settled EXCEPT ![s] = "failed"]
    /\ UNCHANGED <<wanted, excuses>>
AskAgain(s) ==
    /\ excuses[s] < MaxAttempts - 1
    /\ \E n \in 0 .. 1 : copies' = [copies EXCEPT ![s] = @ + n]
    /\ excuses' = [excuses EXCEPT ![s] = @ + 1]
    /\ UNCHANGED <<wanted, settled>>

Next ==
    \/ Open
    \/ \E k \in DOMAIN Sinks : Turn(k) /\ (Deliver(Sinks[k]) \/ GiveUp(Sinks[k]) \/ AskAgain(Sinks[k]))

Spec == Init /\ [][Next]_vars
=============================================================================
