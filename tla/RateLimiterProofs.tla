-------------------------- MODULE RateLimiterProofs --------------------------
(***************************************************************************)
(* Proofs about RateLimiter for every number of threads, capacity, rate    *)
(* and timeout.  The invariant adds to the types that the lock is held by  *)
(* the one thread inside the critical section, that the refill mark never  *)
(* runs ahead of the clock, and that every token handed out or still held  *)
(* has been paid for by the initial bucket or by time; and what may have   *)
(* been handed out since an observer began to count.                       *)
(***************************************************************************)
EXTENDS RateLimiter, TLAPS

\* The lock excludes: a thread inside the critical section holds it.
LockInv == \A t \in Threads : pc[t] \in InCritical => lock = t

\* The refill mark follows the clock, also between reading and storing it, and
\* the token that is about to be taken is still there.
ClockInv ==
    /\ last <= now
    /\ \A t \in Threads : pc[t] = "update" => last <= clock[t] /\ clock[t] <= now
    /\ \A t \in Threads : pc[t] = "spend" => Period <= tokens

\* Tokens handed out and tokens held were in the first bucket or dripped in.
BucketInv == granted * Period + tokens <= Capacity + last

IInv == TypeOK /\ LockInv /\ ClockInv /\ BucketInv /\ Punctual

\* The capacity is a number of parts, and products of token counts are numbers.
LEMMA Numbers ==
    /\ Period \in Nat /\ Burst \in Nat /\ Timeout \in Nat /\ MaxTime \in Nat
    /\ Capacity \in Nat
    /\ \A n \in Nat : n * Period \in Nat /\ (n + 1) * Period = n * Period + Period
  BY RateLimiterAssumption, SMT DEF Capacity

\* The invariant holds in the initial state.
LEMMA InitInv == Init => IInv
  <1> SUFFICES ASSUME Init PROVE IInv
    OBVIOUS
  <1>1. TypeOK
    BY Numbers DEF Init, TypeOK, PCs, Answers, AtFirst
  <1>2. LockInv /\ ClockInv /\ Punctual
    BY DEF Init, LockInv, ClockInv, Punctual, InCritical
  <1>3. BucketInv
    BY Numbers DEF Init, BucketInv
  <1> QED BY <1>1, <1>2, <1>3 DEF IInv

\* Steps outside the critical section leave the bucket alone.
LEMMA OutsideInv ==
  ASSUME IInv, NEW t \in Threads,
         Call(t) \/ GiveUp(t) \/ GoOn(t) \/ Sleep(t) \/ SleepRaises(t) \/ WakeUp(t)
  PROVE  IInv'
  <1> USE Numbers DEF IInv, TypeOK, PCs, Answers, InCritical, Goto
  <1>1. CASE Call(t)
    BY <1>1 DEF Call, LockInv, ClockInv, BucketInv, Punctual
  <1>2. CASE GiveUp(t)
    BY <1>2 DEF GiveUp, Expired, LockInv, ClockInv, BucketInv, Punctual
  <1>3. CASE GoOn(t)
    BY <1>3 DEF GoOn, LockInv, ClockInv, BucketInv, Punctual
  <1>4. CASE Sleep(t)
    BY <1>4 DEF Sleep, Nap, Smaller, LockInv, ClockInv, BucketInv, Punctual
  <1>5. CASE SleepRaises(t)
    BY <1>5 DEF SleepRaises, LockInv, ClockInv, BucketInv, Punctual
  <1>6. CASE WakeUp(t)
    BY <1>6 DEF WakeUp, LockInv, ClockInv, BucketInv, Punctual
  <1> QED BY <1>1, <1>2, <1>3, <1>4, <1>5, <1>6

\* Steps inside the critical section, and the one that enters it.
LEMMA InsideInv ==
  ASSUME IInv, NEW t \in Threads,
         Lock(t) \/ ReadClock(t) \/ Update(t) \/ Hit(t) \/ Spend(t) \/ Miss(t)
  PROVE  IInv'
  <1> USE Numbers, RateLimiterAssumption DEF IInv, TypeOK, PCs, Answers, InCritical, Goto
  <1>1. CASE Lock(t)
    BY <1>1 DEF Lock, LockFree, LockInv, ClockInv, BucketInv, Punctual
  <1>2. CASE ReadClock(t)
    BY <1>2 DEF ReadClock, LockInv, ClockInv, BucketInv, Punctual
  <1>3. CASE Update(t)
    <2>1. last <= clock[t] /\ clock[t] <= now /\ lock = t
      BY <1>3 DEF Update, ClockInv, LockInv
    <2>2. tokens' \in 0 .. Capacity /\ tokens' <= tokens + (clock[t] - last)
      BY <1>3, <2>1 DEF Update, Refilled, Smaller
    <2>3. BucketInv'
      BY <1>3, <2>1, <2>2 DEF Update, BucketInv
    <2>4. ClockInv'
      BY <1>3, <2>1 DEF Update, ClockInv, LockInv
    <2>5. TypeOK' /\ LockInv' /\ Punctual'
      BY <1>3, <2>2 DEF Update, LockInv, Punctual
    <2> QED BY <2>3, <2>4, <2>5
  <1>4. CASE Hit(t)
    BY <1>4 DEF Hit, LockInv, ClockInv, BucketInv, Punctual
  <1>5. CASE Spend(t)
    <2>1. lock = t /\ Period <= tokens
      BY <1>5 DEF Spend, LockInv, ClockInv
    <2>2. BucketInv'
      BY <1>5, <2>1 DEF Spend, BucketInv
    <2>3. TypeOK'
      BY <1>5, <2>1 DEF Spend
    <2>4. LockInv' /\ ClockInv' /\ Punctual'
      BY <1>5, <2>1 DEF Spend, LockInv, ClockInv, Punctual
    <2> QED BY <2>2, <2>3, <2>4
  <1>6. CASE Miss(t)
    BY <1>6 DEF Miss, LockInv, ClockInv, BucketInv, Punctual
  <1> QED BY <1>1, <1>2, <1>3, <1>4, <1>5, <1>6

\* Every step preserves the invariant.
LEMMA StepInv == IInv /\ [Next]_vars => IInv'
  <1> SUFFICES ASSUME IInv, [Next]_vars PROVE IInv'
    OBVIOUS
  <1>1. CASE \E t \in Threads : Call(t) \/ Acquire(t)
    BY <1>1, OutsideInv, InsideInv DEF Acquire
  <1>2. CASE Tick
    BY <1>2, Numbers DEF Tick, IInv, TypeOK, LockInv, ClockInv, BucketInv, Punctual
  <1>3. CASE Observe
    BY <1>3, Numbers DEF Observe, IInv, TypeOK, LockInv, ClockInv, BucketInv, Punctual
  <1>4. CASE UNCHANGED vars
    BY <1>4 DEF vars, IInv, TypeOK, LockInv, ClockInv, BucketInv, Punctual
  <1> QED BY <1>1, <1>2, <1>3, <1>4 DEF Next

\* The invariant holds throughout.
LEMMA Invariance == Spec => []IInv
  BY InitInv, StepInv, PTL DEF Spec

\* The variables of the limiter keep their types: in particular the bucket never
\* holds a negative number of tokens nor more than its capacity.
THEOREM TypeCorrect == Spec => []TypeOK
  BY Invariance, PTL DEF IInv

\* RateLimiter.acquire lets through no more than one burst and one call per
\* 1/rate seconds, for any number of threads.
THEOREM RateBoundHolds == Spec => []RateBound
  <1>1. IInv => RateBound
    BY Numbers DEF IInv, TypeOK, ClockInv, BucketInv, RateBound
  <1> QED BY <1>1, Invariance, PTL

\* acquire never sleeps past its deadline nor answers False before it.
THEOREM PunctualHolds == Spec => []Punctual
  BY Invariance, PTL DEF IInv

-----------------------------------------------------------------------------
(***************************************************************************)
(* The bound from any moment on.  Until the refill mark has passed that    *)
(* moment the bucket is what it was before it, and only the thread that    *)
(* then held the lock can take of it; afterwards every token is paid for   *)
(* by a full bucket, by that one, or by the time since.                    *)
(***************************************************************************)
Used == granted - window.granted

Late ==
    \/ Used = 0
    \/ /\ Used = 1
       /\ \A t \in Threads : /\ pc[t] \notin {"take", "spend"}
                             /\ pc[t] = "update" => window.start <= clock[t]

WindowInv ==
    /\ window.start <= now /\ window.granted <= granted
    /\ window.start <= last => Used * Period + tokens + window.start <= Capacity + Period + last
    /\ last < window.start => Late

LEMMA InitWindow == Init => WindowInv
  BY Numbers DEF Init, WindowInv, Used, AtFirst

\* A step that takes nothing and refills nothing.
LEMMA WindowKept ==
  ASSUME IInv, WindowInv, UNCHANGED <<granted, tokens, last, window>>,
         now' \in Nat, now <= now',
         NEW t \in Threads, NEW to \in PCs, \/ pc' = pc
                                         \/ pc' = [pc EXCEPT ![t] = to],
         pc' # pc => to # "take" /\ (to = "spend" => pc[t] = "take"),
         clock' = clock \/ (clock' = [clock EXCEPT ![t] = now] /\ pc' = [pc EXCEPT ![t] = to]),
         pc' # pc /\ to = "update" => clock' = [clock EXCEPT ![t] = now]
  PROVE  WindowInv'
  <1> USE DEF IInv, TypeOK
  <1>1. Used' = Used
    BY DEF Used
  <1>2. window.start \in Nat /\ window.start <= now
    BY DEF WindowInv
  <1>3. Late => Late'
    BY <1>1, <1>2 DEF Late
  <1>4. window'.start <= now' /\ window'.granted <= granted'
    BY <1>2 DEF WindowInv
  <1> QED BY <1>1, <1>3, <1>4 DEF WindowInv

\* The lock's holder refills: the time since the moment, or a bucket at most full.
LEMMA UpdateWindow ==
  ASSUME IInv, WindowInv, NEW t \in Threads, Update(t) PROVE WindowInv'
  <1> USE Numbers DEF IInv, TypeOK
  <1>1. /\ pc[t] = "update" /\ UNCHANGED <<now, granted, window, clock>>
        /\ tokens' = Refilled(t) /\ last' = clock[t] /\ last <= clock[t]
        /\ pc' = [pc EXCEPT ![t] = "take"]
    BY DEF Update, Goto, ClockInv
  <1>2. tokens' \in Nat /\ tokens' <= Capacity /\ tokens' <= tokens + (clock[t] - last)
    BY <1>1 DEF Refilled, Smaller
  <1>3. Used' = Used /\ window.start \in Nat /\ Used \in Nat /\ Used * Period \in Nat
    BY <1>1 DEF Used, WindowInv
  <1>4. window'.start <= now' /\ window'.granted <= granted'
    BY <1>1 DEF WindowInv
  <1>5. ASSUME window.start <= clock[t]
        PROVE  Used * Period + tokens' + window.start <= Capacity + Period + clock[t]
    <2>1. CASE window.start <= last
      <3>1. Used * Period + tokens + window.start <= Capacity + Period + last
        BY <2>1 DEF WindowInv
      <3> QED BY <1>1, <1>2, <1>3, <3>1
    <2>2. CASE last < window.start
      <3>1. Used = 0 \/ Used = 1
        BY <2>2 DEF WindowInv, Late
      <3>2. Used * Period <= Period
        BY <3>1
      <3> QED BY <1>2, <1>3, <1>5, <3>2
    <2> QED BY <1>3, <2>1, <2>2
  <1>6. ASSUME clock[t] < window.start PROVE Used = 0
    <2>1. last < window.start
      BY <1>1, <1>3, <1>6
    <2> QED BY <1>1, <1>3, <1>6, <2>1 DEF WindowInv, Late
  <1>7. window'.start <= last' => Used' * Period + tokens' + window'.start <= Capacity + Period + last'
    BY <1>1, <1>3, <1>5
  <1>8. last' < window'.start => Late'
    BY <1>1, <1>3, <1>6 DEF Late
  <1> QED BY <1>4, <1>7, <1>8 DEF WindowInv

\* The lock's holder takes a token: paid for, or the one of the old bucket.
LEMMA SpendWindow ==
  ASSUME IInv, WindowInv, NEW t \in Threads, Spend(t) PROVE WindowInv'
  <1> USE Numbers DEF IInv, TypeOK
  <1>1. /\ pc[t] = "spend" /\ UNCHANGED <<now, last, window, clock>> /\ Period <= tokens
        /\ tokens' = tokens - Period /\ granted' = granted + 1
        /\ pc' = [pc EXCEPT ![t] = "idle"]
    BY DEF Spend, Goto, ClockInv
  <1>2. Used \in Nat /\ Used' = Used + 1 /\ window.start \in Nat
    BY <1>1 DEF Used, WindowInv
  <1>3. Used * Period \in Nat /\ Used' * Period = Used * Period + Period
    BY <1>2
  <1>4. window'.start <= now' /\ window'.granted <= granted'
    BY <1>1 DEF WindowInv
  <1>5. window'.start <= last' => Used' * Period + tokens' + window'.start <= Capacity + Period + last'
    BY <1>1, <1>2, <1>3 DEF WindowInv
  <1>6. ASSUME last < window.start PROVE Late'
    <2>1. Used = 0
      BY <1>1, <1>6 DEF WindowInv, Late
    <2>2. \A u \in Threads : pc'[u] \notin InCritical
      BY <1>1 DEF LockInv, InCritical
    <2> QED BY <1>2, <2>1, <2>2 DEF Late, InCritical
  <1> QED BY <1>1, <1>4, <1>5, <1>6 DEF WindowInv

\* Every step keeps it.
LEMMA StepWindow == ASSUME IInv, WindowInv, [Next]_vars PROVE WindowInv'
  <1>1. ASSUME NEW t \in Threads,
               Call(t) \/ Lock(t) \/ ReadClock(t) \/ Hit(t) \/ Miss(t) \/ GiveUp(t) \/ GoOn(t)
                   \/ Sleep(t) \/ SleepRaises(t) \/ WakeUp(t)
        PROVE  WindowInv'
    <2>1. UNCHANGED <<granted, tokens, last, window, now>> /\ now \in Nat /\ now <= now'
      BY <1>1, Numbers DEF IInv, TypeOK, Call, Lock, ReadClock, Hit, Miss, GiveUp, GoOn, Sleep, SleepRaises, WakeUp
    <2>2. CASE ReadClock(t)
      BY <2>1, <2>2, WindowKept DEF ReadClock, Goto, PCs
    <2>3. CASE Hit(t)
      BY <2>1, <2>3, WindowKept DEF Hit, Goto, PCs
    <2>4. ASSUME NEW to \in {"lock", "refill", "check", "idle", "sleep", "asleep"},
                 pc' = [pc EXCEPT ![t] = to], clock' = clock
          PROVE  WindowInv'
      BY <2>1, <2>4, WindowKept DEF PCs
    <2>5. CASE Call(t) \/ Lock(t) \/ Miss(t) \/ GiveUp(t) \/ GoOn(t) \/ Sleep(t) \/ SleepRaises(t) \/ WakeUp(t)
      BY <2>4, <2>5 DEF Call, Lock, Miss, GiveUp, GoOn, Sleep, SleepRaises, WakeUp, Goto
    <2> QED BY <1>1, <2>2, <2>3, <2>5
  <1>2. CASE Tick
    <2>1. UNCHANGED <<granted, tokens, last, window, pc, clock>> /\ window.start \in Nat
          /\ now \in Nat /\ now' = now + 1
      BY <1>2, Numbers DEF Tick, IInv, TypeOK
    <2>2. window.start <= now'
      BY <2>1 DEF WindowInv
    <2> QED BY <2>1, <2>2 DEF WindowInv, Late, Used
  <1>3. CASE Observe
    <2>1. /\ UNCHANGED <<granted, tokens, last, now>>
          /\ window' = [start |-> now, granted |-> granted]
          /\ last <= now /\ tokens <= Capacity
          /\ granted \in Nat /\ tokens \in Nat /\ last \in Nat /\ now \in Nat
      BY <1>3, Numbers DEF Observe, IInv, TypeOK, ClockInv
    <2>2. Used' = 0 /\ Used' * Period = 0
      BY <2>1, Numbers DEF Used
    <2>3. window'.start <= last' => Used' * Period + tokens' + window'.start <= Capacity + Period + last'
      BY <2>1, <2>2, Numbers
    <2> QED BY <2>1, <2>2, <2>3 DEF WindowInv, Late
  <1>4. CASE UNCHANGED vars
    BY <1>4 DEF vars, WindowInv, Late, Used
  <1> QED BY <1>1, <1>2, <1>3, <1>4, UpdateWindow, SpendWindow DEF Next, Acquire

\* The rate bound holds in every window of time, not only since the start, but for
\* the one call of a thread that was about to take a token when it began.
THEOREM WindowBoundHolds == Spec => []WindowBound
  <1>1. ASSUME IInv, WindowInv PROVE WindowBound
    <2> USE Numbers
    <2>1. /\ Used \in Nat /\ window.start \in Nat /\ now \in Nat /\ last \in Nat /\ tokens \in Nat
          /\ window.start <= now /\ last <= now
      BY <1>1 DEF IInv, TypeOK, Used, WindowInv, ClockInv
    <2>2. PICK x \in Nat : x = Used * Period
      BY <2>1
    <2>3. CASE window.start <= last
      <3>1. x + tokens + window.start <= Capacity + Period + last
        BY <1>1, <2>2, <2>3 DEF WindowInv
      <3>2. x <= Capacity + Period + (now - window.start)
        BY <2>1, <3>1
      <3> QED BY <2>2, <3>2 DEF WindowBound, Used
    <2>4. CASE last < window.start
      <3>1. Used = 0 \/ Used = 1
        BY <1>1, <2>4 DEF WindowInv, Late
      <3>2. x <= Period
        BY <2>2, <3>1
      <3>3. x <= Capacity + Period + (now - window.start)
        BY <2>1, <3>2
      <3> QED BY <2>2, <3>3 DEF WindowBound, Used
    <2> QED BY <2>1, <2>3, <2>4
  <1> QED BY <1>1, Invariance, InitWindow, StepWindow, PTL DEF Spec
-----------------------------------------------------------------------------
\* A lock that is taken is given back, and naps are short.
LEMMA InitCanGoOn == Init => CanGoOn
  BY DEF Init, CanGoOn

LEMMA StepCanGoOn == ASSUME IInv, CanGoOn, [Next]_vars PROVE CanGoOn'
  <1> USE Numbers, RateLimiterAssumption DEF IInv, TypeOK, PCs, InCritical, Goto, CanGoOn
  <1>1. ASSUME NEW t \in Threads,
               Call(t) \/ GiveUp(t) \/ GoOn(t) \/ SleepRaises(t) \/ WakeUp(t)
        PROVE  CanGoOn'
    BY <1>1 DEF Call, GiveUp, GoOn, SleepRaises, WakeUp
  <1>2. ASSUME NEW t \in Threads, Sleep(t) PROVE CanGoOn'
    BY <1>2 DEF Sleep, Nap, Smaller
  <1>3. ASSUME NEW t \in Threads, Lock(t) \/ Spend(t) \/ Miss(t) PROVE CanGoOn'
    BY <1>3 DEF Lock, Spend, Miss
  <1>4. ASSUME NEW t \in Threads, ReadClock(t) \/ Update(t) \/ Hit(t) PROVE CanGoOn'
    BY <1>4 DEF ReadClock, Update, Hit
  <1>5. CASE Tick
    BY <1>5 DEF Tick
  <1>6. CASE Observe
    BY <1>6 DEF Observe
  <1>7. CASE UNCHANGED vars
    BY <1>7 DEF vars
  <1> QED BY <1>1, <1>2, <1>3, <1>4, <1>5, <1>6, <1>7 DEF Next, Acquire

\* CanGoOn: however many threads contend, none waits for a lock that nobody will
\* give back, and none sleeps longer than a token takes to drip in.
THEOREM CanGoOnHolds == Spec => []CanGoOn
  BY Invariance, InitCanGoOn, StepCanGoOn, PTL DEF Spec

\* LastPass: a call of acquire whose deadline has passed is never taken back into
\* its loop, whoever else contends for the lock and the tokens.
THEOREM LastPassHolds == Spec => LastPass
  <1> DEFINE Last == \A t \in Threads : pc[t] # "idle" /\ Expired(t) =>
                         /\ deadline'[t] = deadline[t]
                         /\ pc'[t] # pc[t] => PassLeft[pc'[t]] < PassLeft[pc[t]]
  <1>1. ASSUME IInv, Next, NEW t \in Threads, pc[t] # "idle", Expired(t)
        PROVE  deadline'[t] = deadline[t] /\ (pc'[t] # pc[t] => PassLeft[pc'[t]] < PassLeft[pc[t]])
    <2>1. ASSUME NEW u \in Threads \ {t}, Call(u) \/ Acquire(u)
          PROVE  deadline'[t] = deadline[t] /\ pc'[t] = pc[t]
      BY <1>1, <2>1 DEF Acquire, Call, Lock, ReadClock, Update, Hit, Spend, Miss, GiveUp, GoOn, Sleep,
                        SleepRaises, WakeUp, Goto, IInv, TypeOK
    <2>2. CASE Tick \/ Observe
      BY <2>2 DEF Tick, Observe
    <2>3. ~Call(t) /\ ~GoOn(t)
      BY <1>1 DEF Call, GoOn, Goto
    <2>4. ASSUME Acquire(t)
          PROVE  /\ deadline' = deadline
                 /\ <<pc[t], pc'[t]>> \in {<<"sleep", "asleep">>, <<"sleep", "idle">>, <<"asleep", "lock">>,
                       <<"lock", "refill">>, <<"refill", "update">>, <<"update", "take">>,
                       <<"take", "spend">>, <<"take", "check">>, <<"spend", "idle">>, <<"check", "idle">>}
      BY <1>1, <2>3, <2>4 DEF Acquire, Lock, ReadClock, Update, Hit, Spend, Miss, GiveUp, Sleep,
                        SleepRaises, WakeUp, Goto, IInv, TypeOK
    <2>5. /\ PassLeft["sleep"] = 7 /\ PassLeft["asleep"] = 6 /\ PassLeft["lock"] = 5
          /\ PassLeft["refill"] = 4 /\ PassLeft["update"] = 3 /\ PassLeft["take"] = 2
          /\ PassLeft["spend"] = 1 /\ PassLeft["check"] = 1 /\ PassLeft["idle"] = 0
      BY DEF PassLeft
    <2>6. CASE Acquire(t)
      BY <2>4, <2>5, <2>6
    <2> QED BY <1>1, <2>1, <2>2, <2>3, <2>6 DEF Next
  <1>2. IInv /\ [Next]_vars => [Last]_vars
    BY <1>1
  <1> QED BY <1>2, Invariance, PTL DEF Spec, LastPass
=============================================================================
