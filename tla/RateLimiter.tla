----------------------------- MODULE RateLimiter -----------------------------
(***************************************************************************)
(* The token bucket of cloud/rate_limiter.py, shared by the threads of a   *)
(* pool.  Time is counted in ticks of time.monotonic() and tokens in parts *)
(* of a token, Period parts to one token, chosen so that one part drips in *)
(* per tick: Period ticks are the 1/rate seconds of the code.  Every read  *)
(* of the clock and every use of the lock is a step of its own.            *)
(* Definitions marked `mutant' are wrong variants of the definition after  *)
(* them, kept to show that the properties notice the difference.           *)
(***************************************************************************)
EXTENDS Naturals, FiniteSets

CONSTANTS
    Threads,     \* the threads that share the limiter
    NoThread,    \* the holder of a free lock
    Burst,       \* capacity of the bucket, in tokens
    Period,      \* ticks in which one token drips in
    Timeout,     \* the timeout argument of acquire, in ticks
    MaxCalls,    \* bound: calls of acquire by each thread
    MaxTime      \* bound: the clock stops here

ASSUME RateLimiterAssumption ==
    /\ NoThread \notin Threads
    /\ Burst \in Nat \ {0}      \* "burst must be positive"
    /\ Period \in Nat \ {0}     \* "calls_per_second must be positive"
    /\ Timeout \in Nat
    /\ MaxCalls \in Nat
    /\ MaxTime \in Nat

Capacity == Burst * Period
-----------------------------------------------------------------------------
VARIABLES
    now,        \* time.monotonic()
    tokens,     \* _tokens, in parts
    last,       \* _last_refill
    lock,       \* holder of _lock
    pc,         \* where each thread is in acquire
    deadline,   \* local variable deadline of acquire
    clock,      \* local variable now of _refill
    wake,       \* when the sleep of a thread ends
    answer,     \* how the last acquire of a thread ended
    granted,    \* history: tokens handed out so far
    calls,      \* history: calls of acquire by each thread
    window      \* history: a moment, and what had been handed out by then

vars == <<now, tokens, last, lock, pc, deadline, clock, wake, answer, granted, calls, window>>

PCs == {"idle", "lock", "refill", "update", "take", "spend", "check", "sleep", "asleep"}
InCritical == {"refill", "update", "take", "spend"}
Answers == {"none", "granted", "timeout", "ValueError"}

AtFirst == [start |-> 0, granted |-> 0]

Smaller(a, b) == IF a <= b THEN a ELSE b

Init ==
    /\ now = 0
    /\ tokens = Capacity
    /\ last = 0
    /\ lock = NoThread
    /\ pc = [t \in Threads |-> "idle"]
    /\ deadline = [t \in Threads |-> 0]
    /\ clock = [t \in Threads |-> 0]
    /\ wake = [t \in Threads |-> 0]
    /\ answer = [t \in Threads |-> "none"]
    /\ granted = 0
    /\ calls = [t \in Threads |-> 0]
    /\ window = AtFirst

Goto(t, from, to) == pc[t] = from /\ pc' = [pc EXCEPT ![t] = to]

\* acquire(timeout) is called and fixes its deadline.  The bounds leave the
\* clock enough room to run past the deadline.
Call(t) ==
    /\ Goto(t, "idle", "lock")
    /\ calls[t] < MaxCalls
    /\ now + Timeout < MaxTime
    /\ calls' = [calls EXCEPT ![t] = @ + 1]
    /\ deadline' = [deadline EXCEPT ![t] = now + Timeout]
    /\ answer' = [answer EXCEPT ![t] = "none"]
    /\ UNCHANGED <<now, tokens, last, lock, clock, wake, granted, window>>

LockFree_Ignored(t) == TRUE    \* mutant
LockFree(t) == lock = NoThread

Lock(t) ==
    /\ Goto(t, "lock", "refill")
    /\ LockFree(t)
    /\ lock' = t
    /\ UNCHANGED <<now, tokens, last, deadline, clock, wake, answer, granted, calls, window>>

\* _refill: the clock is read, then tokens and _last_refill are updated from it.
ReadClock(t) ==
    /\ Goto(t, "refill", "update")
    /\ clock' = [clock EXCEPT ![t] = now]
    /\ UNCHANGED <<now, tokens, last, lock, deadline, wake, answer, granted, calls, window>>

Refilled(t) == Smaller(Capacity, tokens + (clock[t] - last))

Update(t) ==
    /\ Goto(t, "update", "take")
    /\ tokens' = Refilled(t)
    /\ last' = clock[t]
    /\ UNCHANGED <<now, lock, deadline, clock, wake, answer, granted, calls, window>>

\* There is a whole token: it is taken, the lock released, and acquire returns
\* True.  The test and the subtraction are two steps under one lock.
Hit(t) ==
    /\ Goto(t, "take", "spend")
    /\ tokens >= Period
    /\ UNCHANGED <<now, tokens, last, lock, deadline, clock, wake, answer, granted, calls, window>>

Spend(t) ==
    /\ Goto(t, "spend", "idle")
    /\ tokens' = tokens - Period
    /\ granted' = granted + 1
    /\ answer' = [answer EXCEPT ![t] = "granted"]
    /\ lock' = NoThread
    /\ UNCHANGED <<now, last, deadline, clock, wake, calls, window>>

Miss_KeepsLock(t) ==    \* mutant
    /\ Goto(t, "take", "check")
    /\ tokens < Period
    /\ UNCHANGED <<now, tokens, last, lock, deadline, clock, wake, answer, granted, calls, window>>

\* Not enough for one: the lock is released and the deadline looked at.
Miss(t) ==
    /\ Goto(t, "take", "check")
    /\ tokens < Period
    /\ lock' = NoThread
    /\ UNCHANGED <<now, tokens, last, deadline, clock, wake, answer, granted, calls, window>>

Expired(t) == now >= deadline[t]

GiveUp(t) ==
    /\ Goto(t, "check", "idle")
    /\ Expired(t)
    /\ answer' = [answer EXCEPT ![t] = "timeout"]
    /\ UNCHANGED <<now, tokens, last, lock, deadline, clock, wake, granted, calls, window>>

GoOn(t) ==
    /\ Goto(t, "check", "sleep")
    /\ ~Expired(t)
    /\ UNCHANGED <<now, tokens, last, lock, deadline, clock, wake, answer, granted, calls, window>>

\* The clock is read again for the length of the sleep.
Nap_WholePeriod(t) == Period    \* mutant
Nap(t) == Smaller(Period, deadline[t] - now)

Sleep(t) ==
    /\ Goto(t, "sleep", "asleep")
    /\ now <= deadline[t]
    /\ wake' = [wake EXCEPT ![t] = now + Nap(t)]
    /\ UNCHANGED <<now, tokens, last, lock, deadline, clock, answer, granted, calls, window>>

\* The deadline passed since the check: time.sleep gets a negative length and
\* raises, and the exception leaves acquire.
SleepRaises(t) ==
    /\ Goto(t, "sleep", "idle")
    /\ now > deadline[t]
    /\ answer' = [answer EXCEPT ![t] = "ValueError"]
    /\ UNCHANGED <<now, tokens, last, lock, deadline, clock, wake, granted, calls, window>>

MayWake(t) == now >= wake[t]

WakeUp(t) ==
    /\ Goto(t, "asleep", "lock")
    /\ MayWake(t)
    /\ UNCHANGED <<now, tokens, last, lock, deadline, clock, wake, answer, granted, calls, window>>

\* One pass of `while True' and its way out.
Acquire(t) == \/ Lock(t) \/ ReadClock(t) \/ Update(t) \/ Hit(t) \/ Spend(t)
              \/ Miss(t) \/ GiveUp(t) \/ GoOn(t) \/ Sleep(t) \/ SleepRaises(t) \/ WakeUp(t)

Tick ==
    /\ now < MaxTime
    /\ now' = now + 1
    /\ UNCHANGED <<tokens, last, lock, pc, deadline, clock, wake, answer, granted, calls, window>>

\* An observer begins to count, once: no step of the code, and it changes nothing
\* else.  As it may happen at any moment, what it counts holds of every window.
Observe ==
    /\ window = AtFirst
    /\ window' = [start |-> now, granted |-> granted]
    /\ UNCHANGED <<now, tokens, last, lock, pc, deadline, clock, wake, answer, granted, calls>>

Next == (\E t \in Threads : Call(t) \/ Acquire(t)) \/ Tick \/ Observe

Spec == Init /\ [][Next]_vars

\* Threads that can run do run, and the clock does not stand still.
FairSpec == Spec /\ (\A t \in Threads : WF_vars(Acquire(t))) /\ WF_vars(Tick)
-----------------------------------------------------------------------------
TypeOK ==
    /\ now \in 0 .. MaxTime
    /\ tokens \in 0 .. Capacity
    /\ last \in 0 .. MaxTime
    /\ lock \in Threads \cup {NoThread}
    /\ pc \in [Threads -> PCs]
    /\ deadline \in [Threads -> Nat]
    /\ clock \in [Threads -> 0 .. MaxTime]
    /\ wake \in [Threads -> Nat]
    /\ answer \in [Threads -> Answers]
    /\ granted \in Nat
    /\ calls \in [Threads -> Nat]
    /\ window \in [start : Nat, granted : Nat]

\* Since the limiter was made, no more calls have been let through than one burst
\* and one per 1/rate seconds, however the threads interleave.
RateBound == granted * Period <= Capacity + now

\* The same for every window of time, whenever an observer begins to count, but for
\* one more: a thread that stopped between its refill and its take hands out a
\* token of the bucket as it was, and the next refill makes up for all of the pause.
WindowBound ==
    (granted - window.granted) * Period <= Capacity + Period + (now - window.start)

\* No thread sleeps past its deadline, and acquire answers False only once the
\* deadline has passed.
Punctual ==
    \A t \in Threads :
        /\ pc[t] = "asleep" => wake[t] <= deadline[t]
        /\ answer[t] = "timeout" => now >= deadline[t]

\* Every call of acquire comes to an end.
CallsReturn == \A t \in Threads : pc[t] # "idle" ~> pc[t] = "idle"

\* What brings it there, in terms of steps.  A lock that is taken is held by a
\* thread that is about to give it back, and no thread ever sleeps longer than it
\* takes a token to drip in.
CanGoOn ==
    /\ lock # NoThread => pc[lock] \in InCritical
    /\ \A t \in Threads : pc[t] = "asleep" => wake[t] <= now + Period

\* And once its deadline has passed a call is in its last pass of the loop: it has
\* at most seven steps left, whoever else contends, and no step takes it back.
PassLeft == [sleep |-> 7, asleep |-> 6, lock |-> 5, refill |-> 4, update |-> 3, take |-> 2,
             spend |-> 1, check |-> 1, idle |-> 0]
LastPass ==
    [][\A t \in Threads : pc[t] # "idle" /\ Expired(t) =>
          /\ deadline'[t] = deadline[t]
          /\ pc'[t] # pc[t] => PassLeft[pc'[t]] < PassLeft[pc[t]]]_vars

\* acquire answers True or False: it does not end in any other way.
AcquireAnswers == \A t \in Threads : answer[t] # "ValueError"
=============================================================================
