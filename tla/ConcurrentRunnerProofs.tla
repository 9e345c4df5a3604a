----------------------- MODULE ConcurrentRunnerProofs -----------------------
(***************************************************************************)
(* Proofs about ConcurrentRunner for every number of tasks and workers.    *)
(* The invariant adds to the types that tasks are submitted and begun in   *)
(* the order of the list, that only tasks a thread has begun end, and that *)
(* while results are collected every task either waits for its result or   *)
(* has ended and has exactly one.  The last theorem shows that the runner  *)
(* implements TaskGather.                                                  *)
(***************************************************************************)
EXTENDS ConcurrentRunner, FiniteSetTheorems, WellFoundedInduction, TLAPS

\* Tasks are submitted and begun in order, by as many threads as there are.
OrderInv ==
    /\ \A t \in submitted, u \in tasks : u < t => u \in submitted
    /\ PoolBound

\* A task ends in the pool, and all tasks are submitted before one is collected.
StageInv ==
    /\ \A t \in Tasks : Done(t) => t \in begun
    /\ pc # "submit" => submitted = tasks
    /\ pc = "raised" => \A t \in tasks : Done(t)

\* Each task is waited for, or is done and has its one result.
ResultInv ==
    /\ pc = "submit" => \A t \in Tasks : results[t] = 0
    /\ pc # "submit" => \A t \in tasks : IF t \in waiting THEN results[t] = 0
                                         ELSE results[t] = 1 /\ outcome[t] \in {"success", "error"}
    /\ pc = "returned" => waiting = {}

IInv == TypeOK /\ OrderInv /\ StageInv /\ ResultInv

\* There is at least one worker, and every set of tasks is finite.
LEMMA Numbers ==
    /\ NTasks \in Nat /\ Workers \in Nat /\ 1 <= Workers
    /\ Tasks \subseteq Nat
    /\ \A S \in SUBSET Tasks : IsFiniteSet(S) /\ Cardinality(S) \in Nat
  <1>1. IsFiniteSet(Tasks)
    BY FS_Interval, RunnerAssumption DEF Tasks
  <1>2. \A S \in SUBSET Tasks : IsFiniteSet(S) /\ Cardinality(S) \in Nat
    BY <1>1, FS_Subset, FS_CardinalityType
  <1> QED BY <1>2, RunnerAssumption DEF Tasks, Workers, MaxWorkersLimit

\* The invariant holds in the initial state.
LEMMA InitInv == Init => IInv
  <1> SUFFICES ASSUME Init PROVE IInv
    OBVIOUS
  <1>1. TypeOK
    BY DEF Init, TypeOK, PCs, Outcomes
  <1>2. Running = {}
    BY DEF Init, Running
  <1>3. OrderInv
    BY <1>2, Numbers, FS_EmptySet DEF Init, OrderInv, PoolBound
  <1>4. StageInv /\ ResultInv
    BY DEF Init, StageInv, ResultInv, Done
  <1> QED BY <1>1, <1>3, <1>4 DEF IInv

\* Steps of the main thread keep it; they leave the pool alone.
LEMMA MainInv ==
  ASSUME IInv, MainStep
  PROVE  IInv'
  <1> USE DEF IInv, TypeOK, PCs, Outcomes
  <1>1. begun' = begun /\ outcome' = outcome /\ tasks' = tasks
    BY DEF MainStep, Submit, Collect, CollectExit, StartCollecting, Return, Expire, Raise
  <1>2. Running' = Running /\ \A t \in Tasks : Done(t)' <=> Done(t)
    BY <1>1 DEF Running, Done
  <1>3. ASSUME NEW t \in Tasks, Submit(t) PROVE IInv'
    <2>1. TypeOK'
      BY <1>3 DEF Submit
    <2>2. OrderInv'
      BY <1>3, <1>2, Numbers DEF Submit, OrderInv, PoolBound
    <2>3. StageInv' /\ ResultInv'
      BY <1>3, <1>2 DEF Submit, StageInv, ResultInv
    <2> QED BY <2>1, <2>2, <2>3
  <1>4. ASSUME NEW t \in Tasks, Collect(t) PROVE IInv'
    <2>1. TypeOK'
      BY <1>4 DEF Collect
    <2>2. OrderInv' /\ StageInv'
      BY <1>4, <1>2 DEF Collect, OrderInv, PoolBound, StageInv
    <2>3. ResultInv'
      BY <1>4, <1>2 DEF Collect, Collectable, ResultInv, Done
    <2> QED BY <2>1, <2>2, <2>3
  <1>5. CASE StartCollecting
    BY <1>5, <1>2 DEF StartCollecting, OrderInv, PoolBound, StageInv, ResultInv
  <1>6. CASE Return
    BY <1>6, <1>2 DEF Return, OrderInv, PoolBound, StageInv, ResultInv
  <1>7. CASE Expire
    BY <1>7, <1>2 DEF Expire, OrderInv, PoolBound, StageInv, ResultInv
  <1>8. CASE Raise
    BY <1>8, <1>2 DEF Raise, Joined, OrderInv, PoolBound, StageInv, ResultInv
  <1>9. ASSUME NEW t \in Tasks, CollectExit(t) PROVE IInv'
    BY <1>9, <1>2 DEF CollectExit, OrderInv, PoolBound, StageInv, ResultInv
  <1> QED BY <1>9, <1>3, <1>4, <1>5, <1>6, <1>7, <1>8 DEF MainStep

\* A pool thread takes up the next task only if one is idle.
LEMMA BeginInv ==
  ASSUME IInv, NEW t \in Tasks, Begin(t)
  PROVE  IInv'
  <1> USE DEF IInv, TypeOK, PCs, Outcomes
  <1>1. TypeOK'
    BY DEF Begin, MayBegin
  <1>2. \A u \in Tasks : Done(u)' <=> Done(u)
    BY DEF Begin, Done
  <1>3. Cardinality(Running') <= Workers
    <2>1. Running' \subseteq Running \cup {t} /\ Running \subseteq Tasks /\ Running' \subseteq Tasks
      BY <1>2 DEF Begin, MayBegin, Running
    <2>2. Cardinality(Running \cup {t}) <= Cardinality(Running) + 1
      BY <2>1, Numbers, FS_AddElement
    <2>3. Cardinality(Running') <= Cardinality(Running \cup {t})
      BY <2>1, Numbers, FS_Subset
    <2> QED BY <2>1, <2>2, <2>3, Numbers DEF Begin, MayBegin
  <1>4. OrderInv'
    BY <1>3, Numbers DEF Begin, MayBegin, OrderInv, PoolBound
  <1>5. StageInv' /\ ResultInv'
    BY <1>2 DEF Begin, StageInv, ResultInv
  <1> QED BY <1>1, <1>4, <1>5

\* A task that ends frees its thread, and nothing else changes.
LEMMA ExecuteInv ==
  ASSUME IInv, NEW t \in Tasks, Execute(t)
  PROVE  IInv'
  <1> USE DEF IInv, TypeOK, PCs, Outcomes
  <1>1. TypeOK'
    BY DEF Execute, Endings
  <1>2. \A u \in Tasks : Done(u)' <=> Done(u) \/ u = t
    BY DEF Execute, Endings, Done
  <1>3. Running' \subseteq Running /\ Running \subseteq Tasks
    BY <1>2 DEF Execute, Running
  <1>4. Cardinality(Running') <= Cardinality(Running) /\ Cardinality(Running') \in Nat
    BY <1>3, Numbers, FS_Subset
  <1>5. OrderInv'
    BY <1>3, <1>4, Numbers DEF Execute, OrderInv, PoolBound
  <1>6. StageInv' /\ ResultInv'
    BY <1>2 DEF Execute, Running, StageInv, ResultInv, Done
  <1> QED BY <1>1, <1>5, <1>6

\* Every step preserves the invariant.
LEMMA StepInv == IInv /\ [Next]_vars => IInv'
  <1> SUFFICES ASSUME IInv, [Next]_vars PROVE IInv'
    OBVIOUS
  <1>1. CASE UNCHANGED vars
    BY <1>1 DEF vars, IInv, TypeOK, OrderInv, PoolBound, StageInv, ResultInv, Running, Done
  <1> QED BY <1>1, MainInv, BeginInv, ExecuteInv DEF Next

\* The invariant holds throughout.
LEMMA Invariance == Spec => []IInv
  BY InitInv, StepInv, PTL DEF Spec

\* The variables of the runner keep their types: futures are collected and begun
\* only once submitted.
THEOREM TypeCorrect == Spec => []TypeOK
  BY Invariance, PTL DEF IInv

\* run_providers returns exactly one result per task, of audits that returned or
\* raised an Exception.
THEOREM OneResultHolds == Spec => []OneResultPerTask
  <1>1. IInv => OneResultPerTask
    BY DEF IInv, ResultInv, OneResultPerTask
  <1> QED BY <1>1, Invariance, PTL

\* The pool never runs more tasks than it has threads, and begins them in order.
THEOREM PoolBoundHolds == Spec => []PoolBound
  BY Invariance, PTL DEF IInv, OrderInv

\* run_providers is never left, not even by its timeout, with a task still running.
THEOREM NothingLeftHolds == Spec => []NothingLeftRunning
  <1>1. IInv => NothingLeftRunning
    BY DEF IInv, TypeOK, StageInv, ResultInv, Done, NothingLeftRunning
  <1> QED BY <1>1, Invariance, PTL

\* The runner implements TaskGather: a task that ends is a step of TaskGather, so
\* is leaving run_providers, and every other step is invisible.
THEOREM RunnerImplementsGather == Spec => ImplementsGather
  <1> DEFINE given == tasks
             handed == IF pc = "returned" THEN {t \in tasks : results[t] > 0} ELSE {}
             call == IF pc = "returned" THEN "complete"
                     ELSE IF pc = "raised" THEN "given up" ELSE "open"
  <1>1. Init => Gather!GatherInit
    BY DEF Init, Gather!GatherInit
  <1>2. IInv /\ [Next]_vars => [Gather!GatherNext]_<<tasks, outcome, handed, call>>
    <2> SUFFICES ASSUME IInv, [Next]_vars
                 PROVE  [Gather!GatherNext]_<<tasks, outcome, handed, call>>
      OBVIOUS
    <2> USE DEF IInv, TypeOK
    <2>1. ASSUME NEW t \in Tasks, Execute(t) PROVE Gather!End(t)
      BY <2>1 DEF Execute, Endings, Running, Done, Gather!End
    <2>2. CASE Return
      <3>1. \A t \in tasks : results'[t] > 0 /\ outcome[t] \in {"success", "error"}
        BY <2>2 DEF Return, ResultInv
      <3> QED BY <2>2, <3>1 DEF Return, Gather!Complete, Gather!GatherNext
    <2>3. CASE Raise
      BY <2>3 DEF Raise, Joined, StageInv, Done, Gather!GiveUp, Gather!GatherNext
    <2>4. CASE UNCHANGED <<tasks, outcome, handed, call>>
      BY <2>4
    <2>5. ASSUME NEW t \in Tasks, Submit(t) \/ Collect(t) \/ CollectExit(t) \/ Begin(t)
          PROVE  UNCHANGED <<tasks, outcome, handed, call>>
      BY <2>5 DEF Submit, Collect, CollectExit, Begin
    <2>6. ASSUME StartCollecting \/ Expire \/ UNCHANGED vars
          PROVE  UNCHANGED <<tasks, outcome, handed, call>>
      BY <2>6 DEF StartCollecting, Expire, vars
    <2> QED BY <2>1, <2>2, <2>3, <2>4, <2>5, <2>6 DEF Next, MainStep, Gather!GatherNext
  <1> QED BY <1>1, <1>2, Invariance, PTL DEF Spec, ImplementsGather, Gather!GatherSpec, Gather!gvars
-----------------------------------------------------------------------------
(***************************************************************************)
(* run_providers is never stuck, and every step of it or of the pool       *)
(* brings it nearer to its end.                                            *)
(***************************************************************************)
\* A set of tasks has a first one.
LEMMA FirstTask ==
  ASSUME NEW S \in SUBSET Tasks, S # {}
  PROVE  \E t \in S : \A u \in S : t <= u
  <1>1. S \in SUBSET Nat
    BY Numbers
  <1>2. PICK t \in S : \A u \in S : <<u, t>> \notin OpToRel(<, Nat)
    BY <1>1, WFMin, NatLessThanWellFounded
  <1>3. \A u \in S : ~(u < t)
    BY <1>1, <1>2 DEF OpToRel
  <1> QED BY <1>1, <1>3

\* Until it is returned from or raises, some thread can take a step, however few
\* threads the pool has and wherever the timeout strikes.
THEOREM CanGoOnHolds == Spec => []CanGoOn
  <1>1. ASSUME IInv, pc \notin {"returned", "raised"} PROVE CanGoOn
    <2> USE DEF IInv, TypeOK, PCs
    <2>1. CASE pc = "submit"
      <3>1. CASE submitted = tasks
        BY <2>1, <3>1 DEF CanGoOn
      <3>2. CASE submitted # tasks
        <4>1. tasks \ submitted \in SUBSET Tasks /\ tasks \ submitted # {}
          BY <1>1, <3>2
        <4>2. PICK t \in tasks \ submitted : \A u \in tasks \ submitted : t <= u
          BY <4>1, FirstTask
        <4>3. \A u \in tasks : u < t => u \in submitted
          BY <1>1, <4>2, Numbers
        <4> QED BY <2>1, <4>2, <4>3 DEF CanGoOn
      <3> QED BY <3>1, <3>2
    <2>2. CASE Running # {}
      BY <2>2 DEF CanGoOn
    <2>3. CASE \A t \in submitted : Done(t)
      <3>1. CASE pc = "collect"
        BY <1>1, <2>3, <3>1 DEF CanGoOn, Collectable, StageInv
      <3>2. CASE pc = "join"
        BY <2>3, <3>2 DEF CanGoOn, Joined
      <3> QED BY <1>1, <2>1, <3>1, <3>2
    <2>4. CASE Running = {} /\ \E t \in submitted : ~Done(t)
      <3>1. submitted \ begun \in SUBSET Tasks /\ submitted \ begun # {}
        BY <1>1, <2>4 DEF Running
      <3>2. PICK t \in submitted \ begun : \A u \in submitted \ begun : t <= u
        BY <3>1, FirstTask
      <3>3. Cardinality(Running) < Workers
        BY <2>4, FS_EmptySet, Numbers
      <3>4. MayBegin(t) /\ t \in Tasks
        BY <1>1, <3>2, <3>3, Numbers DEF MayBegin
      <3> QED BY <3>4 DEF CanGoOn
    <2> QED BY <2>2, <2>3, <2>4
  <1>2. IInv => CanGoOn
    BY <1>1 DEF CanGoOn
  <1> QED BY <1>2, Invariance, PTL

\* The parts of the measure are numbers.
LEMMA LeftNumbers ==
  ASSUME IInv
  PROVE  /\ StagesLeft \in 0 .. 3
         /\ IsFiniteSet(tasks \ submitted) /\ Cardinality(tasks \ submitted) \in Nat
         /\ IsFiniteSet(tasks \ begun) /\ Cardinality(tasks \ begun) \in Nat
         /\ IsFiniteSet({t \in tasks : ~Done(t)}) /\ Cardinality({t \in tasks : ~Done(t)}) \in Nat
         /\ IsFiniteSet({t \in tasks : results[t] = 0})
         /\ Cardinality({t \in tasks : results[t] = 0}) \in Nat
  <1>1. /\ tasks \ submitted \in SUBSET Tasks /\ tasks \ begun \in SUBSET Tasks
        /\ {t \in tasks : ~Done(t)} \in SUBSET Tasks /\ {t \in tasks : results[t] = 0} \in SUBSET Tasks
    BY DEF IInv, TypeOK
  <1>2. StagesLeft \in 0 .. 3
    BY DEF StagesLeft
  <1> QED BY <1>1, <1>2, Numbers

\* A set that loses an element has one element less.
LEMMA OneLess ==
  ASSUME NEW S, NEW x \in S, IsFiniteSet(S), Cardinality(S) \in Nat, NEW T, T = S \ {x}
  PROVE  Cardinality(T) = Cardinality(S) - 1
  BY FS_RemoveElement

\* Every step, of the main thread or of a pool thread, brings the call nearer to
\* its end, for any number of tasks and threads.
THEOREM NearsItsEndHolds == Spec => NearsItsEnd
  <1>1. ASSUME IInv, Next PROVE Left' < Left
    <2> DEFINE s == Cardinality(tasks \ submitted)
               b == Cardinality(tasks \ begun)
               d == Cardinality({t \in tasks : ~Done(t)})
               r == Cardinality({t \in tasks : results[t] = 0})
    <2>0. StagesLeft \in 0 .. 3 /\ s \in Nat /\ b \in Nat /\ d \in Nat /\ r \in Nat
      BY <1>1, LeftNumbers
    <2>l. Left = StagesLeft + s + b + d + r /\ Left' = StagesLeft' + s' + b' + d' + r'
      BY DEF Left
    <2>t. tasks' = tasks
      BY <1>1 DEF Next, MainStep, Submit, Collect, CollectExit, StartCollecting, Return, Expire, Raise, Begin, Execute
    <2>1. ASSUME NEW t \in Tasks, Submit(t) PROVE Left' < Left
      <3>1. /\ StagesLeft' = StagesLeft /\ b' = b /\ d' = d /\ r' = r
            /\ t \in tasks \ submitted /\ (tasks \ submitted)' = (tasks \ submitted) \ {t}
        BY <2>1, <2>t DEF Submit, StagesLeft, Done
      <3>2. s' = s - 1
        BY <1>1, <3>1, LeftNumbers, OneLess
      <3> HIDE DEF s, b, d, r
      <3> QED BY <2>0, <2>l, <3>1, <3>2
    <2>2. ASSUME NEW t \in Tasks, Collect(t) PROVE Left' < Left
      <3>1. t \in tasks /\ results[t] = 0 /\ pc = "collect"
        BY <1>1, <2>2 DEF Collect, Collectable, IInv, TypeOK, ResultInv
      <3>2. \A u \in tasks : results'[u] = 0 <=> results[u] = 0 /\ u # t
        BY <1>1, <2>2, <3>1 DEF Collect, IInv, TypeOK
      <3>3. /\ StagesLeft' = StagesLeft /\ b' = b /\ d' = d /\ s' = s
            /\ {u \in tasks : results[u] = 0}' = {u \in tasks : results[u] = 0} \ {t}
            /\ t \in {u \in tasks : results[u] = 0}
        BY <2>2, <2>t, <3>1, <3>2 DEF Collect, StagesLeft, Done
      <3>4. r' = r - 1
        BY <1>1, <3>3, LeftNumbers, OneLess
      <3> HIDE DEF s, b, d, r
      <3> QED BY <2>0, <2>l, <3>3, <3>4
    <2>3. CASE StartCollecting \/ Return \/ Expire \/ Raise \/ \E t \in Tasks : CollectExit(t)
      <3>1. s' = s /\ b' = b /\ d' = d /\ r' = r
        BY <2>3, <2>t DEF StartCollecting, Return, Expire, Raise, CollectExit, Done
      <3>2. PICK n \in Nat : n = StagesLeft' /\ n < StagesLeft
        BY <2>3 DEF StartCollecting, Return, Expire, Raise, CollectExit, Joined, StagesLeft
      <3> HIDE DEF s, b, d, r
      <3>3. Left' = n + s + b + d + r
        BY <2>l, <3>1, <3>2
      <3>4. PICK m \in Nat : m = StagesLeft /\ n < m
        BY <2>0, <3>2
      <3>5. Left = m + s + b + d + r
        BY <2>l, <3>4
      <3>6. s \in Nat /\ b \in Nat /\ d \in Nat /\ r \in Nat
        BY <2>0
      <3>7. n + s + b + d + r < m + s + b + d + r
        BY <3>4, <3>6
      <3> QED BY <3>3, <3>5, <3>7
    <2>4. ASSUME NEW t \in Tasks, Begin(t) PROVE Left' < Left
      <3>1. /\ StagesLeft' = StagesLeft /\ s' = s /\ d' = d /\ r' = r
            /\ t \in tasks \ begun /\ (tasks \ begun)' = (tasks \ begun) \ {t}
        BY <1>1, <2>4, <2>t DEF Begin, MayBegin, StagesLeft, Done, IInv, TypeOK
      <3>2. b' = b - 1
        BY <1>1, <3>1, LeftNumbers, OneLess
      <3> HIDE DEF s, b, d, r
      <3> QED BY <2>0, <2>l, <3>1, <3>2
    <2>5. ASSUME NEW t \in Tasks, Execute(t) PROVE Left' < Left
      <3>1. t \in tasks /\ ~Done(t)
        BY <1>1, <2>5 DEF Execute, Running, IInv, TypeOK
      <3>2. \A u \in Tasks : Done(u)' <=> Done(u) \/ u = t
        BY <1>1, <2>5 DEF Execute, Endings, Done, IInv, TypeOK
      <3>3. /\ StagesLeft' = StagesLeft /\ s' = s /\ b' = b /\ r' = r
            /\ {u \in tasks : ~Done(u)}' = {u \in tasks : ~Done(u)} \ {t}
            /\ t \in {u \in tasks : ~Done(u)}
        BY <1>1, <2>5, <2>t, <3>1, <3>2 DEF Execute, StagesLeft, IInv, TypeOK
      <3>4. d' = d - 1
        BY <1>1, <3>3, LeftNumbers, OneLess
      <3> HIDE DEF s, b, d, r
      <3> QED BY <2>0, <2>l, <3>3, <3>4
    <2> QED BY <1>1, <2>1, <2>2, <2>3, <2>4, <2>5 DEF Next, MainStep
  <1>2. IInv /\ [Next]_vars => [Left' < Left]_vars
    BY <1>1
  <1>3. Init => Left = 3 + 4 * Cardinality(tasks)
    <2> SUFFICES ASSUME Init PROVE Left = 3 + 4 * Cardinality(tasks)
      OBVIOUS
    <2>1. /\ tasks \ submitted = tasks /\ tasks \ begun = tasks /\ pc = "submit"
          /\ {t \in tasks : ~Done(t)} = tasks /\ {t \in tasks : results[t] = 0} = tasks
      BY DEF Init, Done
    <2>2. Cardinality(tasks) \in Nat
      BY Numbers DEF Init
    <2>3. Left = 3 + Cardinality(tasks) + Cardinality(tasks) + Cardinality(tasks) + Cardinality(tasks)
      BY <2>1 DEF Left, StagesLeft
    <2> QED BY <2>2, <2>3
  <1> QED BY <1>2, <1>3, Invariance, PTL DEF Spec, NearsItsEnd

=============================================================================
