-------------------------- MODULE ConcurrentRunner --------------------------
(***************************************************************************)
(* ConcurrentRunner.run_providers (cloud/concurrent_runner.py): the main   *)
(* thread submits the tasks to a thread pool, collects the futures as they *)
(* complete until one timeout for all of them expires, and leaves the      *)
(* `with' block of the executor, which waits for every submitted task.     *)
(* Tasks are numbered in the order of the list they are given in.          *)
(* Definitions marked `mutant' are wrong variants of the definition after  *)
(* them, kept to show that the properties notice the difference.           *)
(***************************************************************************)
EXTENDS Naturals, FiniteSets

CONSTANTS
    NTasks,        \* the longest list of tasks
    MaxWorkers,    \* the max_workers argument
    CanExpire      \* whether a run may outlast max(t.timeout for t in tasks)

ASSUME RunnerAssumption ==
    /\ NTasks \in Nat
    /\ MaxWorkers \in Nat
    /\ CanExpire \in BOOLEAN

Tasks == 1 .. NTasks

\* max(1, min(max_workers, MAX_WORKERS_LIMIT)), then min(., len(tasks))
MaxWorkersLimit == 32
Workers == IF MaxWorkers = 0 THEN 1
           ELSE IF MaxWorkers > MaxWorkersLimit THEN MaxWorkersLimit ELSE MaxWorkers
-----------------------------------------------------------------------------
VARIABLES
    tasks,       \* the tasks of this call
    pc,          \* where the main thread is
    submitted,   \* tasks handed to the executor
    begun,       \* tasks a pool thread has taken up
    outcome,     \* [Tasks -> how the task ended]
    waiting,     \* futures as_completed has not yielded yet
    results      \* [Tasks -> Nat]: results of each task in the list

vars == <<tasks, pc, submitted, begun, outcome, waiting, results>>

PCs == {"submit", "collect", "join", "returned", "raised"}
Outcomes == {"no", "success", "error", "exit"}

Init ==
    /\ tasks \in SUBSET Tasks
    /\ pc = "submit"
    /\ submitted = {}
    /\ begun = {}
    /\ outcome = [t \in Tasks |-> "no"]
    /\ waiting = {}
    /\ results = [t \in Tasks |-> 0]

Done(t) == outcome[t] # "no"
Running == {t \in begun : ~Done(t)}
-----------------------------------------------------------------------------
\* The main thread.

Submit(t) ==
    /\ pc = "submit"
    /\ t \in tasks \ submitted
    /\ \A u \in tasks : u < t => u \in submitted
    /\ submitted' = submitted \cup {t}
    /\ UNCHANGED <<tasks, pc, begun, outcome, waiting, results>>

\* as_completed starts with every future and starts the clock.
StartCollecting ==
    /\ pc = "submit"
    /\ submitted = tasks
    /\ pc' = "collect"
    /\ waiting' = tasks
    /\ UNCHANGED <<tasks, submitted, begun, outcome, results>>

\* as_completed yields a finished future and its result joins the list.
Collectable_Begun(t) == t \in waiting /\ t \in begun    \* mutant
Collectable(t) == t \in waiting /\ Done(t)

Collect(t) ==
    /\ pc = "collect"
    /\ Collectable(t)
    /\ outcome[t] # "exit"
    /\ waiting' = waiting \ {t}
    /\ results' = [results EXCEPT ![t] = @ + 1]
    /\ UNCHANGED <<tasks, pc, submitted, begun, outcome>>

\* What is not an Exception passes both handlers, of the pool and of this loop.
CollectExit(t) ==
    /\ pc = "collect"
    /\ Collectable(t)
    /\ outcome[t] = "exit"
    /\ pc' = "join"
    /\ UNCHANGED <<tasks, submitted, begun, outcome, waiting, results>>

\* Everything is collected; leaving the executor has nothing to wait for.
Return ==
    /\ pc = "collect"
    /\ waiting = {}
    /\ pc' = "returned"
    /\ UNCHANGED <<tasks, submitted, begun, outcome, waiting, results>>

\* as_completed raises TimeoutError: the list of results is lost, and leaving
\* the `with' block waits for the tasks that run or queue.
Expire ==
    /\ CanExpire
    /\ pc = "collect"
    /\ waiting # {}
    /\ pc' = "join"
    /\ UNCHANGED <<tasks, submitted, begun, outcome, waiting, results>>

Joined_NoWait == pc = "join"    \* mutant
Joined_Collected == pc = "join" /\ waiting = {}    \* mutant
Joined == pc = "join" /\ \A t \in submitted : Done(t)

Raise ==
    /\ Joined
    /\ pc' = "raised"
    /\ UNCHANGED <<tasks, submitted, begun, outcome, waiting, results>>
-----------------------------------------------------------------------------
\* The pool threads.

MayBegin(t) ==
    /\ t \in submitted \ begun
    /\ \A u \in submitted : u < t => u \in begun
    /\ Cardinality(Running) < Workers

Begin(t) ==
    /\ MayBegin(t)
    /\ begun' = begun \cup {t}
    /\ UNCHANGED <<tasks, pc, submitted, outcome, waiting, results>>

\* _execute_task turns every Exception of the audit into an error result; only a
\* SystemExit or another BaseException is left in the future.
Endings == {"success", "error", "exit"}

Execute(t) ==
    /\ t \in Running
    /\ \E how \in Endings : outcome' = [outcome EXCEPT ![t] = how]
    /\ UNCHANGED <<tasks, pc, submitted, begun, waiting, results>>

MainStep == (\E t \in Tasks : Submit(t) \/ Collect(t) \/ CollectExit(t))
            \/ StartCollecting \/ Return \/ Expire \/ Raise

Next == MainStep \/ \E t \in Tasks : Begin(t) \/ Execute(t)

Spec == Init /\ [][Next]_vars

\* The main thread and idle pool threads run, and every audit ends.
FairSpec == Spec /\ WF_vars(MainStep) /\ \A t \in Tasks : WF_vars(Begin(t)) /\ WF_vars(Execute(t))
-----------------------------------------------------------------------------
TypeOK ==
    /\ tasks \subseteq Tasks
    /\ pc \in PCs
    /\ submitted \subseteq tasks
    /\ begun \subseteq submitted
    /\ outcome \in [Tasks -> Outcomes]
    /\ waiting \subseteq tasks
    /\ results \in [Tasks -> Nat]

\* The list that run_providers returns holds exactly one result per task, each of
\* an audit that returned or raised an Exception, whatever order they ended in.
OneResultPerTask ==
    pc = "returned" => \A t \in tasks : results[t] = 1 /\ outcome[t] \in {"success", "error"}

\* No task is audited by more threads than the pool may have, and tasks begin in
\* the order of the list.
PoolBound ==
    /\ Cardinality(Running) <= Workers
    /\ \A t \in begun, u \in submitted : u < t => u \in begun

\* When run_providers is left, by return or by exception, no task is running or
\* queued behind the caller's back.
NothingLeftRunning == pc \in {"returned", "raised"} => submitted = tasks /\ \A t \in tasks : Done(t)

\* The call ends once the audits end.
CallEnds == <>(pc \in {"returned", "raised"})

\* Until it is left, run_providers is not stuck: the main thread can submit,
\* collect or leave, or some task can begin or end.
CanGoOn ==
    pc \notin {"returned", "raised"} =>
       \/ pc = "submit" /\ (submitted = tasks \/ \E t \in tasks \ submitted :
                                                \A u \in tasks : u < t => u \in submitted)
       \/ pc = "collect" /\ (waiting = {} \/ \E t \in Tasks : Collectable(t))
       \/ Joined
       \/ Running # {}
       \/ \E t \in Tasks : MayBegin(t)

\* And no step is taken for nothing: each leaves fewer tasks to submit, to begin,
\* to end or to collect, or fewer stages of the main thread, so that a call over
\* n tasks ends after at most 4 * n + 3 steps.
StagesLeft == CASE pc = "submit" -> 3 [] pc = "collect" -> 2 [] pc = "join" -> 1 [] OTHER -> 0
Left == StagesLeft + Cardinality(tasks \ submitted) + Cardinality(tasks \ begun)
          + Cardinality({t \in tasks : ~Done(t)}) + Cardinality({t \in tasks : results[t] = 0})
NearsItsEnd == Left = 3 + 4 * Cardinality(tasks) /\ [][Left' < Left]_vars

\* The runner keeps the promise of TaskGather.
Gather == INSTANCE TaskGather WITH
    given <- tasks,
    ended <- outcome,
    returned <- IF pc = "returned" THEN {t \in tasks : results[t] > 0} ELSE {},
    call <- IF pc = "returned" THEN "complete"
            ELSE IF pc = "raised" THEN "given up" ELSE "open"
ImplementsGather == Gather!GatherSpec
=============================================================================
