-------------------------------- MODULE Agent --------------------------------
(***************************************************************************)
(* The daemon mode of PagerWesi (cloud/agent.py): a loop that loads the    *)
(* state of the previous cycle, audits every provider, saves the new       *)
(* state, alerts on failures that are not in the previous state and        *)
(* sleeps.  The state file and the history directory survive a restart;    *)
(* everything else is lost when the process ends.  A failure is a key      *)
(* (control and resource); which keys fail is decided by the world.        *)
(* Definitions marked `mutant' are wrong variants of the definition after  *)
(* them, kept to show that the properties notice the difference.           *)
(***************************************************************************)
EXTENDS Naturals, FiniteSets

CONSTANTS
    Providers,     \* the valid providers of --watch-providers
    Keys,          \* what they check
    ProviderOf,    \* [Keys -> Providers]
    MaxHistory,    \* MAX_STATE_HISTORY
    TooLarge,      \* the states that take more than 50 MiB
    Faults,        \* the kinds of fault that may happen
    MaxFaults,     \* bound: faults in a behaviour
    MaxChanges,    \* bound: changes of the world
    MaxStops,      \* bound: signals sent to the agent
    MaxCycles      \* bound: audit cycles; math.inf in the code

FaultKinds == {"load", "provider", "save", "rotate", "notify", "kill", "clock"}

ASSUME AgentAssumption ==
    /\ Providers # {}      \* otherwise run_agent returns 2 before the loop
    /\ ProviderOf \in [Keys -> Providers]
    /\ Keys \cap Providers = {}
    /\ MaxHistory \in Nat \ {0}
    /\ Faults \subseteq FaultKinds
    /\ {MaxFaults, MaxChanges, MaxStops, MaxCycles} \subseteq Nat

\* AGENT-PROVIDER-001 on agent:<provider> is the key of a provider that failed.
AllKeys == Keys \cup Providers
Statuses == {"pass", "fail", "error"}
Finding == [key : AllKeys, status : Statuses]
-----------------------------------------------------------------------------
VARIABLES
    world,       \* [Keys -> {"pass", "fail"}]: the audited systems
    pc,          \* where the agent is; "down" when it does not run
    shutdown,    \* _shutdown
    previous,    \* local variable previous
    current,     \* local variable current
    todo,        \* providers not yet audited in this cycle
    file,        \* the state file
    history,     \* the history directory: a set of [stamp, cycle]
    stamp,       \* the wall clock, as time.strftime shows it
    cycle,       \* history: number of the audit cycle, over all processes
    alerted,     \* history: failures alerted and not seen to end since
    dropped,     \* history: failures whose only alert never got out
    repeated,    \* history: failures alerted twice
    excuse,      \* history: what disturbed the memory of the agent
    count        \* history: the bounded counters

vars == <<world, pc, shutdown, previous, current, todo, file, history, stamp,
          cycle, alerted, dropped, repeated, excuse, count>>
memory == <<previous, current, todo>>
ghosts == <<alerted, dropped, repeated, excuse>>

PCs == {"down", "test", "load", "audit", "save", "rotate", "notify", "sleep"}

NoFile == [kind |-> "absent", findings |-> {}]
Torn   == [kind |-> "torn", findings |-> {}]
Saved(findings) == [kind |-> "complete", findings |-> findings]

Init ==
    /\ world \in [Keys -> {"pass", "fail"}]
    /\ pc = "down"
    /\ shutdown = FALSE
    /\ previous = {} /\ current = {} /\ todo = {}
    /\ file = NoFile
    /\ history = {}
    /\ stamp = 2
    /\ cycle = 0
    /\ alerted = {} /\ dropped = {} /\ repeated = {} /\ excuse = {}
    /\ count = [faults |-> 0, changes |-> 0, stops |-> 0]

Fault(kind) ==
    /\ kind \in Faults
    /\ count.faults < MaxFaults
    /\ count' = [count EXCEPT !.faults = @ + 1]
-----------------------------------------------------------------------------
\* normalized_status in {"fail", "error"}
Failing(findings) == {f.key : f \in {g \in findings : g.status # "pass"}}

NewFails_All(cur, prev) == Failing(cur)    \* mutant
NewFails(cur, prev) == Failing(cur) \ Failing(prev)

\* A new process installs the signal handlers and comes to the loop.
Start ==
    /\ pc = "down"
    /\ cycle < MaxCycles
    /\ pc' = "test"
    /\ shutdown' = FALSE
    /\ previous' = {} /\ current' = {} /\ todo' = {}
    /\ stamp' \in {stamp, stamp + 1}    \* it may come back within the second
    /\ UNCHANGED <<world, file, history, cycle, ghosts, count>>

\* A cycle begins with what is remembered of the one before.
Cycle(remembered, why) ==
    /\ pc = "load"
    /\ pc' = "audit"
    /\ cycle' = cycle + 1
    /\ previous' = remembered
    /\ current' = {}
    /\ todo' = Providers
    /\ excuse' = excuse \cup why
    /\ UNCHANGED <<world, shutdown, file, history, stamp, alerted, dropped, repeated>>

\* A file that is missing, cut short or too large counts as an empty state.
Load ==
    /\ IF file.findings \in TooLarge
       THEN Cycle({}, {"size"})
       ELSE Cycle(file.findings, IF file.kind = "torn" THEN {"torn"} ELSE {})
    /\ UNCHANGED count

\* So does one that cannot be read, whole as it may be.
LoadFails ==
    /\ file.kind # "absent"
    /\ Fault("load")
    /\ Cycle({}, {"load"})

Report(p) == {[key |-> k, status |-> world[k]] : k \in {j \in Keys : ProviderOf[j] = p}}

Audit(p) ==
    /\ pc = "audit"
    /\ p \in todo
    /\ todo' = todo \ {p}
    /\ current' = current \cup Report(p)
    /\ UNCHANGED <<world, pc, shutdown, previous, file, history, stamp, cycle, ghosts, count>>

\* The provider cannot be loaded or raises: one error finding stands for it.
AuditFails(p) ==
    /\ pc = "audit"
    /\ p \in todo
    /\ Fault("provider")
    /\ todo' = todo \ {p}
    /\ current' = current \cup {[key |-> p, status |-> "error"]}
    /\ excuse' = excuse \cup {"provider"}
    /\ UNCHANGED <<world, pc, shutdown, previous, file, history, stamp, cycle,
                   alerted, dropped, repeated>>

EndAudit ==
    /\ pc = "audit"
    /\ todo = {}
    /\ pc' = "save"
    /\ UNCHANGED <<world, shutdown, memory, file, history, stamp, cycle, ghosts, count>>

Save ==
    /\ pc = "save"
    /\ file' = Saved(current)
    /\ pc' = "rotate"
    /\ UNCHANGED <<world, shutdown, memory, history, stamp, cycle, ghosts, count>>

\* The OSError is logged; the file keeps the old state or is cut short, and the
\* history is not written.
SaveFails ==
    /\ pc = "save"
    /\ Fault("save")
    /\ file' \in {file, Torn}
    /\ excuse' = excuse \cup {"save"}
    /\ pc' = "notify"
    /\ UNCHANGED <<world, shutdown, memory, history, stamp, cycle, alerted, dropped, repeated>>

\* state-<stamp>.json is written, replacing a file of that name, and the files
\* that sort first are removed until MaxHistory are left.
Trimmed_NewestFirst(H) ==    \* mutant
    {h \in H : Cardinality({g \in H : g.stamp < h.stamp}) < MaxHistory}
Trimmed(H) == {h \in H : Cardinality({g \in H : g.stamp > h.stamp}) < MaxHistory}

State(whole) == [stamp |-> stamp, cycle |-> cycle, whole |-> whole]
Extended(whole) == {h \in history : h.stamp # stamp} \cup {State(whole)}

Rotate ==
    /\ pc = "rotate"
    /\ history' = Trimmed(Extended(TRUE))
    /\ pc' = "notify"
    /\ UNCHANGED <<world, shutdown, memory, file, stamp, cycle, ghosts, count>>

\* What there is on the way: nothing yet, a file cut short, or the new file with
\* some of the oldest removed.
UnderWay ==
    {history, Extended(FALSE)} \cup
    {H \in SUBSET Extended(TRUE) :
        /\ Trimmed(Extended(TRUE)) \subseteq H
        /\ \A h \in H : {g \in Extended(TRUE) : g.stamp > h.stamp} \subseteq H}

\* The directory cannot be written, or an old file cannot be removed.
RotateFails ==
    /\ pc = "rotate"
    /\ Fault("rotate")
    /\ history' \in UnderWay \ {Trimmed(Extended(TRUE))}
    /\ pc' = "notify"
    /\ UNCHANGED <<world, shutdown, memory, file, stamp, cycle, ghosts>>

\* What this cycle wants to tell, and what it has seen to be over.
News_StateReloaded == NewFails(current, file.findings)    \* mutant
News == NewFails(current, previous)
Over == {f.key : f \in {g \in current : g.status = "pass"}}
        \cup {p \in Providers : [key |-> p, status |-> "error"] \notin current}

Notify ==
    /\ pc = "notify"
    /\ pc' = "sleep"
    /\ repeated' = repeated \cup (News \cap alerted)
    /\ alerted' = (alerted \cup News) \ Over
    /\ dropped' = (dropped \ News) \ Over
    /\ UNCHANGED <<world, shutdown, memory, file, history, stamp, cycle, excuse, count>>

\* notify() does not get through; nothing remembers to try again.
NotifyFails ==
    /\ pc = "notify"
    /\ News # {}
    /\ Fault("notify")
    /\ pc' = "sleep"
    /\ alerted' = alerted \ Over
    /\ dropped' = (dropped \cup News) \ Over
    /\ UNCHANGED <<world, shutdown, memory, file, history, stamp, cycle, repeated, excuse>>

\* After the interval, which is longer than the second that names a file, or at
\* once on a signal.
EndSleep ==
    /\ pc = "sleep"
    /\ pc' = "test"
    /\ stamp' \in IF shutdown THEN {stamp, stamp + 1} ELSE {stamp + 1}
    /\ UNCHANGED <<world, shutdown, memory, file, history, cycle, ghosts, count>>

GoesDown_Never == FALSE    \* mutant
GoesDown == shutdown

\* while not _shutdown
Loop ==
    /\ pc = "test"
    /\ IF GoesDown THEN pc' = "down" ELSE cycle < MaxCycles /\ pc' = "load"
    /\ UNCHANGED <<world, shutdown, memory, file, history, stamp, cycle, ghosts, count>>

Signal_Exits ==    \* mutant
    /\ pc # "down"
    /\ count.stops < MaxStops
    /\ count' = [count EXCEPT !.stops = @ + 1]
    /\ pc' = "down"
    /\ UNCHANGED <<world, shutdown, memory, file, history, stamp, cycle, ghosts>>

\* SIGINT or SIGTERM sets a flag.
Signal ==
    /\ pc # "down"
    /\ count.stops < MaxStops
    /\ count' = [count EXCEPT !.stops = @ + 1]
    /\ shutdown' = TRUE
    /\ UNCHANGED <<world, pc, memory, file, history, stamp, cycle, ghosts>>

\* The process dies: a file that is being written is cut short, and alerts of
\* the cycle that were saved but not sent are never sent.
Kill ==
    /\ pc # "down"
    /\ Fault("kill")
    /\ pc' = "down"
    /\ file' \in IF pc = "save" THEN {file, Torn} ELSE {file}
    /\ history' \in IF pc = "rotate" THEN UnderWay ELSE {history}
    /\ IF pc \in {"rotate", "notify"}
       THEN alerted' = alerted \ Over /\ dropped' = (dropped \cup News) \ Over
       ELSE UNCHANGED <<alerted, dropped>>
    /\ UNCHANGED <<world, shutdown, memory, stamp, cycle, repeated, excuse>>

\* Daylight saving ends or the clock is corrected.  What matters is where the new
\* time lies among the stamps of the history: the bound is on or just before one.
ClockBack ==
    /\ Fault("clock")
    /\ \E h \in history :
          stamp' \in {h.stamp, IF h.stamp = 0 THEN 0 ELSE h.stamp - 1} \cap 0 .. (stamp - 1)
    /\ excuse' = excuse \cup {"clock"}
    /\ UNCHANGED <<world, pc, shutdown, memory, file, history, cycle,
                   alerted, dropped, repeated>>

Change(k) ==
    /\ count.changes < MaxChanges
    /\ count' = [count EXCEPT !.changes = @ + 1]
    /\ world' = [world EXCEPT ![k] = IF @ = "pass" THEN "fail" ELSE "pass"]
    /\ UNCHANGED <<pc, shutdown, memory, file, history, stamp, cycle, ghosts>>

Step == \/ Loop \/ Load \/ LoadFails \/ (\E p \in Providers : Audit(p) \/ AuditFails(p)) \/ EndAudit
        \/ Save \/ SaveFails \/ Rotate \/ RotateFails
        \/ Notify \/ NotifyFails \/ EndSleep

Next == Start \/ Step \/ Signal \/ Kill \/ ClockBack \/ \E k \in Keys : Change(k)

Spec == Init /\ [][Next]_vars

\* The loop keeps going, and a supervisor restarts the agent.
FairSpec == Spec /\ WF_vars(Step) /\ WF_vars(Start)
-----------------------------------------------------------------------------
TypeOK ==
    /\ world \in [Keys -> {"pass", "fail"}]
    /\ pc \in PCs
    /\ shutdown \in BOOLEAN
    /\ previous \subseteq Finding /\ current \subseteq Finding
    /\ todo \subseteq Providers
    /\ file \in [kind : {"absent", "torn", "complete"}, findings : SUBSET Finding]
    /\ history \subseteq [stamp : Nat, cycle : 0 .. MaxCycles, whole : BOOLEAN]
    /\ stamp \in Nat
    /\ cycle \in 0 .. MaxCycles
    /\ alerted \subseteq AllKeys /\ dropped \subseteq AllKeys /\ repeated \subseteq AllKeys
    /\ excuse \subseteq {"torn", "size", "load", "provider", "save", "clock"}
    /\ count \in [{"faults", "changes", "stops"} -> Nat]

\* Every failure of a finished cycle has been alerted, in this cycle or an earlier
\* one, or its one alert was sent in vain or cut off by a crash; also across
\* restarts.  (A state that could not be saved may hide a failure that came back.)
Accounted == pc = "sleep" /\ "save" \notin excuse => Failing(current) \subseteq alerted \cup dropped

\* A failure that goes on is alerted once, also across restarts, as long as no
\* provider failed and the state file could be written and read: it was not torn,
\* left unsaved, unreadable or too large.
NoRepeat == excuse \subseteq {"clock"} => repeated = {}

\* A stop by signal finishes the cycle first: no alert is dropped, and when a
\* cycle of this process has ended, its findings are what the next one will read,
\* unless they could not be saved.
GracefulStop ==
    [][pc # "down" /\ pc' = "down" /\ count'.faults = count.faults =>
          /\ pc = "test" /\ dropped' = dropped
          /\ current # {} /\ "save" \notin excuse => file' = Saved(current)]_vars

\* The history keeps the last audit states: a state it loses, or never takes up,
\* is replaced by one of the same second or is older than everything that stays,
\* which is MaxHistory files or more; wherever a rotation breaks off, as long as
\* the clock never went back.
KeepsLatest(H, G) ==
    \A h \in H \ G : \/ \E g \in G : g.stamp = h.stamp /\ h.cycle < g.cycle
                     \/ (\A g \in G : h.cycle < g.cycle) /\ Cardinality(G) >= MaxHistory
Rotates == pc = "rotate" /\ pc' = "notify" /\ count'.faults = count.faults
Known == IF Rotates THEN history \cup {State(TRUE)} ELSE history
HistoryKeepsLatest == [][excuse' \cap {"clock"} = {} => KeepsLatest(Known, history')]_vars

\* A signal ends the agent.
ShutdownHonoured == shutdown ~> pc = "down"

\* And it does so within the cycle: once the flag is set, every step of the loop
\* brings the agent nearer to its end and nothing takes it further away; whatever
\* fails, it is down after one step for each provider and seven more.
StepsLeft == [down |-> 0, test |-> 1, sleep |-> 2, notify |-> 3, rotate |-> 4, save |-> 5,
              audit |-> 6, load |-> 7]
UntilDown == StepsLeft[pc] + (IF pc = "load" THEN Cardinality(Providers)
                              ELSE IF pc = "audit" THEN Cardinality(todo) ELSE 0)
StopsSoon ==
    [][shutdown /\ pc # "down" =>
          /\ Step => UntilDown' < UntilDown
          /\ UntilDown' <= UntilDown
          /\ UntilDown <= 7 + Cardinality(Providers)]_vars
=============================================================================
