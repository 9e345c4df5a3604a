----------------------------- MODULE AgentProofs -----------------------------
(***************************************************************************)
(* Proofs about Agent for every set of providers and checks, every length  *)
(* of the history, and whatever faults, signals and changes happen.  The   *)
(* invariant says what the agent remembers at each place of its loop: in   *)
(* the state file, in `previous', or in both; and that the stamps of the   *)
(* history grow with its cycles as long as the clock never went back.      *)
(***************************************************************************)
EXTENDS Agent, FiniteSetTheorems, TLAPS

InCycle == {"audit", "save", "rotate", "notify"}
Untold == {"rotate", "notify"}

\* Each finding of this cycle is that of a check of an audited provider or
\* stands for a provider that failed; no two are about the same key, and
\* without failing providers no key is left out.
OfCheck(f) == f.key \in Keys /\ f.status \in {"pass", "fail"} /\ ProviderOf[f.key] \notin todo
OfProvider(f) == f.key \in Providers /\ f.status = "error" /\ f.key \notin todo
AuditInv ==
    pc \in InCycle =>
        /\ \A f \in current : OfCheck(f) \/ OfProvider(f)
        /\ \A f, g \in current : f.key = g.key => f = g
        /\ "provider" \notin excuse =>
               \A k \in Keys : ProviderOf[k] \notin todo => \E f \in current : f.key = k
        /\ pc # "audit" => todo = {}

\* What the state file holds, as long as every state could be saved.
FileInv ==
    /\ pc \in {"audit", "save"} =>
           \/ previous = file.findings /\ (file.kind = "torn" => "torn" \in excuse)
           \/ previous = {} /\ excuse \cap {"size", "load"} # {}
    /\ pc \in {"rotate", "notify", "sleep"} /\ "save" \notin excuse => file = Saved(current)
    /\ pc \in {"test", "load"} /\ current # {} /\ "save" \notin excuse => file = Saved(current)

\* What the next alert is compared with: the file, or `previous' once the file
\* has been replaced.
Remembered == IF pc \in Untold THEN previous ELSE file.findings
ToldInv == "save" \notin excuse => Failing(Remembered) \subseteq alerted \cup dropped
OnceInv ==
    excuse \subseteq {"clock"} =>
        /\ repeated = {}
        /\ alerted \subseteq Failing(Remembered) \/ (pc \notin Untold /\ file.kind = "torn")

\* Newer states have later stamps, and the next one will be newer still.
Ordered(H) ==
    \A g, h \in H : /\ g.stamp = h.stamp => g = h
                    /\ g.stamp < h.stamp <=> g.cycle < h.cycle
Ahead(H) ==
    \A h \in H : /\ h.stamp <= stamp /\ h.cycle <= cycle
                 /\ pc \in {"audit", "save", "rotate"} => h.cycle < cycle
HistoryInv ==
    /\ IsFiniteSet(history)
    /\ "clock" \notin excuse => Ordered(history) /\ Ahead(history)

\* The bound on the cycles is kept, as it is looked at before a cycle.
CycleInv == pc = "load" => cycle < MaxCycles

IInv == TypeOK /\ CycleInv /\ AuditInv /\ FileInv /\ ToldInv /\ OnceInv /\ HistoryInv
-----------------------------------------------------------------------------
LEMMA InitInv == Init => IInv
  <1> SUFFICES ASSUME Init PROVE IInv
    OBVIOUS
  <1>1. TypeOK
    <2>1. 0 \in 0 .. MaxCycles
      BY AgentAssumption
    <2>2. count \in [{"faults", "changes", "stops"} -> Nat]
      BY DEF Init
    <2>3. file \in [kind : {"absent", "torn", "complete"}, findings : SUBSET Finding]
      BY DEF Init, NoFile
    <2> QED BY <2>1, <2>2, <2>3 DEF Init, TypeOK, PCs
  <1>2. CycleInv /\ AuditInv /\ FileInv /\ ToldInv /\ OnceInv
    BY DEF Init, CycleInv, AuditInv, InCycle, FileInv, ToldInv, OnceInv, Remembered, Untold, Failing, NoFile
  <1>3. HistoryInv
    BY FS_EmptySet DEF Init, HistoryInv, Ordered, Ahead
  <1> QED BY <1>1, <1>2, <1>3 DEF IInv

\* A fault is counted.
LEMMA FaultCounted ==
  ASSUME TypeOK, NEW kind, Fault(kind)
  PROVE  /\ count' \in [{"faults", "changes", "stops"} -> Nat]
         /\ count'.faults # count.faults
  BY DEF Fault, TypeOK

\* The findings of a provider are about its own keys, each once.
LEMMA ReportFormed ==
  ASSUME TypeOK, NEW p \in Providers
  PROVE  /\ Report(p) \subseteq Finding
         /\ \A f \in Report(p) : /\ f.key \in Keys /\ f.status \in {"pass", "fail"}
                                 /\ ProviderOf[f.key] = p
                                 /\ f.status = world[f.key]
         /\ \A f, g \in Report(p) : f.key = g.key => f = g
         /\ \A k \in Keys : ProviderOf[k] = p => \E f \in Report(p) : f.key = k
  <1>1. \A k \in Keys : world[k] \in {"pass", "fail"} /\ [key |-> k, status |-> world[k]] \in Finding
    BY DEF TypeOK, Finding, Statuses, AllKeys
  <1>2. \A f \in Report(p) : \E k \in Keys : ProviderOf[k] = p /\ f = [key |-> k, status |-> world[k]]
    BY DEF Report
  <1>3. \A k \in Keys : ProviderOf[k] = p => [key |-> k, status |-> world[k]] \in Report(p)
    BY DEF Report
  <1>4. \A f \in Report(p) : /\ f \in Finding /\ f.key \in Keys /\ f.status \in {"pass", "fail"}
                             /\ ProviderOf[f.key] = p /\ f.status = world[f.key]
    BY <1>1, <1>2
  <1>5. \A f, g \in Report(p) : f.key = g.key => f = g
    BY <1>2
  <1>6. \A k \in Keys : ProviderOf[k] = p => \E f \in Report(p) : f.key = k
    BY <1>3
  <1> QED BY <1>4, <1>5, <1>6

LEMMA TypeStep ==
  ASSUME TypeOK, CycleInv, Next
  PROVE  TypeOK' /\ CycleInv'
  <1> USE AgentAssumption, FaultCounted
  <1>1. ASSUME Start \/ Loop \/ EndAudit \/ EndSleep PROVE TypeOK'
    <2>1. CASE Start
      <3>1. pc' \in PCs /\ shutdown' \in BOOLEAN
        BY <2>1 DEF Start, PCs
      <3>2. stamp' \in Nat
        BY <2>1 DEF Start, TypeOK
      <3> QED BY <2>1, <3>1, <3>2 DEF TypeOK, Start, ghosts
    <2>3. CASE EndSleep
      <3>1. stamp' \in Nat
        BY <2>3 DEF EndSleep, TypeOK
      <3> QED BY <2>3, <3>1 DEF TypeOK, EndSleep, memory, ghosts, PCs
    <2>2. CASE Loop \/ EndAudit
      BY <2>2 DEF TypeOK, Loop, EndAudit, memory, ghosts, PCs
    <2> QED BY <1>1, <2>1, <2>2, <2>3
  <1>2. ASSUME Load \/ LoadFails PROVE TypeOK'
    <2>1. /\ pc = "load" /\ pc' = "audit" /\ cycle' = cycle + 1 /\ current' = {} /\ todo' = Providers
          /\ previous' \subseteq Finding
          /\ excuse' \subseteq {"torn", "size", "load", "provider", "save", "clock"}
          /\ UNCHANGED <<world, shutdown, file, history, stamp, alerted, dropped, repeated>>
      BY <1>2 DEF TypeOK, Load, LoadFails, Cycle
    <2>2. count' \in [{"faults", "changes", "stops"} -> Nat]
      BY <1>2 DEF TypeOK, Load, LoadFails
    <2> QED BY <2>1, <2>2 DEF TypeOK, CycleInv, PCs
  <1>3. ASSUME NEW p \in Providers, Audit(p)
        PROVE  TypeOK'
    BY <1>3, ReportFormed DEF TypeOK, Audit, ghosts
  <1>4. ASSUME NEW p \in Providers, AuditFails(p)
        PROVE  TypeOK'
    <2>1. [key |-> p, status |-> "error"] \in Finding
      BY DEF Finding, AllKeys, Statuses
    <2> QED BY <1>4, <2>1 DEF TypeOK, AuditFails
  <1>5. ASSUME Save PROVE TypeOK'
    BY <1>5 DEF TypeOK, Save, Saved, memory, ghosts, PCs
  <1>6. ASSUME SaveFails PROVE TypeOK'
    BY <1>6 DEF TypeOK, SaveFails, Torn, memory, PCs
  <1>7. /\ \A w \in BOOLEAN : Extended(w) \subseteq [stamp : Nat, cycle : 0 .. MaxCycles, whole : BOOLEAN]
        /\ Trimmed(Extended(TRUE)) \subseteq Extended(TRUE)
        /\ \A H \in UnderWay : H \subseteq history \/ H \subseteq Extended(FALSE) \/ H \subseteq Extended(TRUE)
    BY DEF TypeOK, Extended, Trimmed, State, UnderWay
  <1>8. ASSUME Rotate PROVE TypeOK'
    BY <1>8, <1>7 DEF TypeOK, Rotate, memory, ghosts, PCs
  <1>9. ASSUME RotateFails PROVE TypeOK'
    BY <1>9, <1>7 DEF TypeOK, RotateFails, memory, ghosts, PCs
  <1>10. News \subseteq AllKeys
    BY DEF TypeOK, News, NewFails, Failing, Finding
  <1>11. ASSUME Notify PROVE TypeOK'
    BY <1>11, <1>10 DEF TypeOK, Notify, memory, PCs
  <1>12. ASSUME NotifyFails PROVE TypeOK'
    BY <1>12, <1>10 DEF TypeOK, NotifyFails, memory, PCs
  <1>13. ASSUME Signal PROVE TypeOK'
    BY <1>13 DEF TypeOK, Signal, memory, ghosts
  <1>14. ASSUME Kill PROVE TypeOK'
    <2>1. /\ pc' \in PCs /\ file' \in {file, Torn}
          /\ alerted' \subseteq AllKeys /\ dropped' \subseteq AllKeys
      BY <1>14, <1>10 DEF TypeOK, Kill, PCs
    <2>2. history' \subseteq [stamp : Nat, cycle : 0 .. MaxCycles, whole : BOOLEAN]
      BY <1>14, <1>7 DEF TypeOK, Kill
    <2> QED BY <1>14, <2>1, <2>2 DEF TypeOK, Kill, Torn, memory
  <1>15. ASSUME ClockBack PROVE TypeOK'
    BY <1>15 DEF TypeOK, ClockBack, memory
  <1>16. ASSUME NEW k \in Keys, Change(k)
         PROVE  TypeOK'
    BY <1>16 DEF TypeOK, Change, memory, ghosts
  <1>17. TypeOK'
    BY <1>1, <1>2, <1>3, <1>4, <1>5, <1>6, <1>8, <1>9, <1>11, <1>12, <1>13, <1>14, <1>15, <1>16
       DEF Next, Step
  <1>18. CycleInv'
    BY DEF CycleInv, Next, Step, Start, Loop, Load, LoadFails, Cycle, Audit, AuditFails, EndAudit, Save, SaveFails, Rotate,
           RotateFails, Notify, NotifyFails, EndSleep, Signal, Kill, ClockBack, Change
  <1> QED BY <1>17, <1>18
-----------------------------------------------------------------------------
\* At the end of an audit every key is failing or over, never both.
LEMMA FailingOrOver ==
  ASSUME TypeOK, AuditInv, pc \in Untold
  PROVE  /\ Failing(current) \cap Over = {}
         /\ "provider" \notin excuse => AllKeys \subseteq Failing(current) \cup Over
  <1>1. /\ \A f \in current : OfCheck(f) \/ OfProvider(f)
        /\ \A f, g \in current : f.key = g.key => f = g
        /\ todo = {}
        /\ "provider" \notin excuse => \A k \in Keys : \E f \in current : f.key = k
    BY AgentAssumption DEF AuditInv, InCycle, Untold
  <1>2. ASSUME NEW k \in Failing(current) PROVE k \notin Over
    <2>1. PICK f \in current : f.key = k /\ f.status # "pass"
      BY DEF Failing
    <2>2. ~\E g \in current : g.status = "pass" /\ g.key = k
      BY <2>1, <1>1
    <2>3. k \in Providers => [key |-> k, status |-> "error"] \in current
      <3>1. f \in Finding
        BY DEF TypeOK
      <3>2. k \in Providers => f.status = "error"
        BY <1>1, <2>1, AgentAssumption DEF OfCheck, OfProvider
      <3>3. f = [key |-> f.key, status |-> f.status]
        BY <3>1 DEF Finding
      <3> QED BY <2>1, <3>2, <3>3
    <2> QED BY <2>2, <2>3 DEF Over
  <1>3. ASSUME "provider" \notin excuse, NEW k \in AllKeys PROVE k \in Failing(current) \cup Over
    <2>1. CASE k \in Keys
      BY <1>1, <1>3, <2>1 DEF Failing, Over
    <2>2. CASE k \in Providers /\ [key |-> k, status |-> "error"] \in current
      BY <2>2 DEF Failing
    <2>3. CASE k \in Providers /\ [key |-> k, status |-> "error"] \notin current
      BY <2>3 DEF Over
    <2> QED BY <2>1, <2>2, <2>3 DEF AllKeys
  <1> QED BY <1>2, <1>3

LEMMA AuditStep ==
  ASSUME TypeOK, AuditInv, Next
  PROVE  AuditInv'
  <1> USE DEF AuditInv, InCycle, OfCheck, OfProvider
  <1>1. CASE Load \/ LoadFails
    BY <1>1, AgentAssumption DEF Load, LoadFails, Cycle
  <1>2. ASSUME NEW p \in Providers, Audit(p)
        PROVE  AuditInv'
    <2>1. /\ pc = "audit" /\ pc' = pc /\ excuse' = excuse /\ p \in todo
          /\ todo' = todo \ {p} /\ current' = current \cup Report(p)
      BY <1>2 DEF Audit, ghosts
    <2>2. \A f \in current : ~(f.key \in Keys /\ ProviderOf[f.key] = p)
      BY <2>1, AgentAssumption
    <2>3. \A f, g \in current' : f.key = g.key => f = g
      <3> TAKE f, g \in current'
      <3>1. CASE f \in current /\ g \in current
        BY <2>1, <3>1
      <3>2. CASE f \in Report(p) /\ g \in Report(p)
        BY <3>2, ReportFormed
      <3>3. CASE f \in current /\ g \in Report(p)
        BY <2>2, <3>3, ReportFormed
      <3>4. CASE f \in Report(p) /\ g \in current
        BY <2>2, <3>4, ReportFormed
      <3> QED BY <2>1, <3>1, <3>2, <3>3, <3>4
    <2>4. \A f \in current' : OfCheck(f)' \/ OfProvider(f)'
      BY <2>1, ReportFormed
    <2>5. "provider" \notin excuse' =>
             \A k \in Keys : ProviderOf[k] \notin todo' => \E f \in current' : f.key = k
      <3> SUFFICES ASSUME "provider" \notin excuse', NEW k \in Keys, ProviderOf[k] \notin todo'
                   PROVE  \E f \in current' : f.key = k
        OBVIOUS
      <3>1. CASE ProviderOf[k] = p
        BY <3>1, <2>1, ReportFormed
      <3>2. CASE ProviderOf[k] # p
        BY <3>2, <2>1
      <3> QED BY <3>1, <3>2
    <2> QED BY <2>1, <2>3, <2>4, <2>5
  <1>3. ASSUME NEW p \in Providers, AuditFails(p)
        PROVE  AuditInv'
    <2> DEFINE e == [key |-> p, status |-> "error"]
    <2>1. /\ pc = "audit" /\ pc' = pc /\ "provider" \in excuse' /\ p \in todo
          /\ todo' = todo \ {p} /\ current' = current \cup {e}
      BY <1>3 DEF AuditFails
    <2>2. \A f \in current : f.key # p
      BY <2>1, AgentAssumption
    <2>3. \A f, g \in current' : f.key = g.key => f = g
      BY <2>1, <2>2
    <2>4. \A f \in current' : OfCheck(f)' \/ OfProvider(f)'
      BY <2>1
    <2> QED BY <2>1, <2>3, <2>4
  <1>4. CASE EndAudit \/ Rotate \/ RotateFails \/ Signal \/ \E k \in Keys : Change(k)
    BY <1>4 DEF EndAudit, Rotate, RotateFails, Signal, Change, memory, ghosts
  <1>5. CASE Save \/ SaveFails \/ ClockBack
    BY <1>5 DEF Save, SaveFails, ClockBack, memory, ghosts
  <1>6. CASE Start \/ Loop \/ Notify \/ NotifyFails \/ EndSleep \/ Kill
    BY <1>6 DEF Start, Loop, Notify, NotifyFails, EndSleep, Kill
  <1> QED BY <1>1, <1>2, <1>3, <1>4, <1>5, <1>6 DEF Next, Step

LEMMA FileStep ==
  ASSUME TypeOK, FileInv, Next
  PROVE  FileInv'
  <1> USE DEF FileInv
  <1>1. CASE Start \/ Loop \/ EndAudit \/ Rotate \/ RotateFails \/ EndSleep \/ Signal \/ \E k \in Keys : Change(k)
    BY <1>1 DEF Start, Loop, EndAudit, Rotate, RotateFails, EndSleep, Signal, Change, memory, ghosts
  <1>2. CASE Load \/ LoadFails
    BY <1>2 DEF Load, LoadFails, Cycle
  <1>3. CASE \E p \in Providers : Audit(p) \/ AuditFails(p)
    BY <1>3 DEF Audit, AuditFails, ghosts
  <1>4. CASE Save \/ SaveFails
    BY <1>4 DEF Save, SaveFails, memory, ghosts
  <1>5. CASE Notify \/ NotifyFails \/ Kill \/ ClockBack
    BY <1>5 DEF Notify, NotifyFails, Kill, ClockBack, memory
  <1> QED BY <1>1, <1>2, <1>3, <1>4, <1>5 DEF Next, Step

\* The alert of a cycle is told, or told in vain, whatever was remembered.
LEMMA ToldStep ==
  ASSUME TypeOK, AuditInv, FileInv, ToldInv, Next
  PROVE  ToldInv'
  <1> USE DEF ToldInv, Remembered, Untold
  <1>1. CASE Start \/ Loop \/ EndAudit \/ EndSleep \/ Rotate \/ RotateFails \/ Signal \/ \E k \in Keys : Change(k)
    BY <1>1 DEF Start, Loop, EndAudit, EndSleep, Rotate, RotateFails, Signal, Change, memory, ghosts
  <1>2. CASE Load \/ LoadFails
    BY <1>2 DEF Load, LoadFails, Cycle
  <1>3. CASE \E p \in Providers : Audit(p) \/ AuditFails(p)
    BY <1>3 DEF Audit, AuditFails, ghosts
  <1>4. CASE Save \/ SaveFails
    <2>1. pc = "save" /\ pc' \in Untold /\ UNCHANGED <<previous, alerted, dropped>>
      BY <1>4 DEF Save, SaveFails, memory, ghosts
    <2>2. "save" \notin excuse' => excuse' = excuse
      BY <1>4 DEF Save, SaveFails, ghosts
    <2>3. previous = file.findings \/ Failing(previous) = {}
      BY <2>1 DEF FileInv, Failing
    <2>4. "save" \notin excuse => Failing(previous) \subseteq alerted \cup dropped
      BY <2>1, <2>3
    <2>5. Failing(previous)' = Failing(previous)
      BY <2>1
    <2> QED BY <2>1, <2>2, <2>4, <2>5
  <1>5. pc \in Untold /\ "save" \notin excuse =>
           Failing(current) \subseteq ((alerted \cup dropped) \cup News) \ Over
    BY FailingOrOver DEF FileInv, News, NewFails
  <1>6. CASE Notify \/ NotifyFails
    <2>1. /\ pc = "notify" /\ pc' = "sleep" /\ file' = file /\ excuse' = excuse
          /\ alerted' \cup dropped' = ((alerted \cup dropped) \cup News) \ Over
      BY <1>6 DEF Notify, NotifyFails
    <2> QED BY <2>1, <1>5 DEF FileInv, Saved
  <1>7. CASE Kill
    <2>1. CASE pc \in Untold
      <3>1. /\ pc' = "down" /\ file' = file /\ excuse' = excuse
            /\ alerted' \cup dropped' = ((alerted \cup dropped) \cup News) \ Over
        BY <1>7, <2>1 DEF Kill
      <3> QED BY <2>1, <3>1, <1>5 DEF FileInv, Saved
    <2>2. CASE pc \notin Untold
      <3>1. pc' = "down" /\ file' \in {file, Torn} /\ excuse' = excuse /\ UNCHANGED <<alerted, dropped>>
        BY <1>7, <2>2 DEF Kill
      <3>2. Failing(Torn.findings) = {}
        BY DEF Failing, Torn
      <3> QED BY <2>2, <3>1, <3>2
    <2> QED BY <2>1, <2>2
  <1>8. CASE ClockBack
    BY <1>8 DEF ClockBack, memory
  <1> QED BY <1>1, <1>2, <1>3, <1>4, <1>6, <1>7, <1>8 DEF Next, Step

LEMMA OnceStep ==
  ASSUME TypeOK, AuditInv, FileInv, OnceInv, Next
  PROVE  OnceInv'
  <1> USE DEF OnceInv, Remembered, Untold
  <1>1. CASE Start \/ Loop \/ EndAudit \/ EndSleep \/ Rotate \/ RotateFails \/ Signal \/ \E k \in Keys : Change(k)
    BY <1>1 DEF Start, Loop, EndAudit, EndSleep, Rotate, RotateFails, Signal, Change, memory, ghosts
  <1>2. CASE Load \/ LoadFails
    BY <1>2 DEF Load, LoadFails, Cycle
  <1>3. CASE \E p \in Providers : Audit(p) \/ AuditFails(p)
    BY <1>3 DEF Audit, AuditFails, ghosts
  <1>4. CASE Save \/ SaveFails
    BY <1>4 DEF Save, SaveFails, FileInv, memory, ghosts
  <1>5. pc \in Untold /\ excuse \subseteq {"clock"} =>
           /\ News \cap alerted = {}
           /\ (alerted \cup News) \ Over \subseteq Failing(current)
           /\ file = Saved(current)
    BY FailingOrOver DEF FileInv, News, NewFails, TypeOK
  <1>6. CASE Notify \/ NotifyFails
    <2>1. /\ pc = "notify" /\ pc' = "sleep" /\ UNCHANGED <<file, current, excuse>>
          /\ repeated' \subseteq repeated \cup (News \cap alerted)
          /\ alerted' \subseteq (alerted \cup News) \ Over
      BY <1>6 DEF Notify, NotifyFails, memory
    <2> QED BY <2>1, <1>5 DEF Saved
  <1>7. CASE Kill
    <2>1. CASE pc \in Untold
      BY <1>7, <2>1, <1>5 DEF Kill, Saved
    <2>2. CASE pc \notin Untold
      BY <1>7, <2>2 DEF Kill, Torn
    <2> QED BY <2>1, <2>2
  <1>8. CASE ClockBack
    BY <1>8 DEF ClockBack, memory
  <1> QED BY <1>1, <1>2, <1>3, <1>4, <1>6, <1>7, <1>8 DEF Next, Step
-----------------------------------------------------------------------------
\* Of a finite set of states with different stamps, those with fewer than m
\* later ones are m, unless they are all.
LEMMA LatestCounted ==
  ASSUME NEW H, IsFiniteSet(H), \A h \in H : h.stamp \in Nat,
         \A g, h \in H : g.stamp = h.stamp => g = h,
         NEW m \in Nat,
         NEW out \in H, ~(Cardinality({g \in H : g.stamp > out.stamp}) < m)
  PROVE  Cardinality({h \in H : Cardinality({g \in H : g.stamp > h.stamp}) < m}) = m
  <1> DEFINE Above(h) == {g \in H : g.stamp > h.stamp}
             rank == [h \in H |-> Cardinality(Above(h))]
             n == Cardinality(H)
             T == {h \in H : Cardinality(Above(h)) < m}
             kept == [h \in T |-> Cardinality(Above(h))]
  <1>1. n \in Nat
    BY FS_CardinalityType
  <1>2. ASSUME NEW h \in H
        PROVE  IsFiniteSet(Above(h)) /\ Cardinality(Above(h)) \in 0 .. n - 1
    <2>1. h \notin Above(h) /\ Above(h) \in SUBSET H
      OBVIOUS
    <2>2. IsFiniteSet(Above(h)) /\ Cardinality(Above(h)) <= n /\ (n = Cardinality(Above(h)) => H = Above(h))
      BY <2>1, FS_Subset
    <2>3. Cardinality(Above(h)) \in Nat
      BY <2>2, FS_CardinalityType
    <2>4. n # Cardinality(Above(h))
      BY <2>1, <2>2
    <2> HIDE DEF Above, n
    <2> QED BY <1>1, <2>2, <2>3, <2>4
  <1>3. ASSUME NEW g \in H, NEW h \in H, g.stamp > h.stamp
        PROVE  Cardinality(Above(g)) # Cardinality(Above(h))
    <2>1. Above(g) \in SUBSET Above(h) /\ g \in Above(h) /\ g \notin Above(g)
      BY <1>3
    <2> HIDE DEF Above
    <2> QED BY <2>1, <1>2, FS_Subset
  <1>4. \A g, h \in H : Cardinality(Above(g)) = Cardinality(Above(h)) => g = h
    <2> SUFFICES ASSUME NEW g \in H, NEW h \in H, g # h
                 PROVE  Cardinality(Above(g)) # Cardinality(Above(h))
      OBVIOUS
    <2>1. g.stamp > h.stamp \/ h.stamp > g.stamp
      OBVIOUS
    <2> HIDE DEF Above
    <2> QED BY <2>1, <1>3
  <1>5. m \in 0 .. n - 1
    <2>1. out \in H /\ ~(Cardinality(Above(out)) < m)
      OBVIOUS
    <2> HIDE DEF Above, n
    <2> QED BY <2>1, <1>1, <1>2
  <1> HIDE DEF Above, n
  <1>6. /\ IsFiniteSet(0 .. n - 1) /\ Cardinality(0 .. n - 1) = n
        /\ IsFiniteSet(0 .. m - 1) /\ Cardinality(0 .. m - 1) = m
    <2>1. /\ 0 \in Int /\ n - 1 \in Int /\ m - 1 \in Int
          /\ ~(0 > n - 1) /\ (n - 1) - 0 + 1 = n
          /\ (0 > m - 1 <=> m = 0) /\ (m - 1) - 0 + 1 = m
      BY <1>1, <1>5
    <2>2. IsFiniteSet(0 .. n - 1) /\ Cardinality(0 .. n - 1) = n
      BY <2>1, FS_Interval
    <2>3. IsFiniteSet(0 .. m - 1) /\ Cardinality(0 .. m - 1) = m
      BY <2>1, FS_Interval
    <2> QED BY <2>2, <2>3
  <1>7. rank \in Injection(H, 0 .. n - 1)
    BY <1>2, <1>4 DEF Injection, IsInjective
  <1>8. rank \in Surjection(H, 0 .. n - 1)
    BY <1>6, <1>7, FS_Injection DEF n
  <1>9. kept \in Injection(T, 0 .. m - 1)
    BY <1>2, <1>4, <1>5 DEF Injection, IsInjective
  <1>10. kept \in Surjection(T, 0 .. m - 1)
    <2> SUFFICES ASSUME NEW k \in 0 .. m - 1
                 PROVE  \E h \in T : kept[h] = k
      BY <1>9 DEF Surjection, Injection
    <2>1. k \in 0 .. n - 1 /\ k < m
      BY <1>1, <1>5
    <2> HIDE DEF rank
    <2>2. PICK h \in H : rank[h] = k
      BY <2>1, <1>8 DEF Surjection
    <2>3. rank[h] = Cardinality(Above(h))
      BY DEF rank
    <2>4. h \in T /\ kept[h] = k
      BY <2>1, <2>2, <2>3
    <2> QED BY <2>4
  <1> HIDE DEF T, kept
  <1>11. Cardinality(T) = m
    BY <1>6, <1>9, <1>10, FS_Injection
  <1> QED BY <1>11 DEF T, Above

\* What Rotate leaves out of the history, or removes of it before it breaks off,
\* is older than what it keeps.
LEMMA TrimmedLatest ==
  ASSUME NEW H, IsFiniteSet(H), \A h \in H : h.stamp \in Nat /\ h.cycle \in Nat, Ordered(H),
         NEW K \in SUBSET H, Trimmed(H) \subseteq K,
         \A k \in K : {g \in H : g.stamp > k.stamp} \subseteq K,
         NEW h \in H \ K
  PROVE  /\ \A g \in K : h.cycle < g.cycle
         /\ Cardinality(K) >= MaxHistory
  <1>1. /\ h \notin Trimmed(H) /\ ~(Cardinality({x \in H : x.stamp > h.stamp}) < MaxHistory)
        /\ MaxHistory \in Nat
    BY AgentAssumption DEF Trimmed
  <1>2. ASSUME NEW g \in K PROVE h.cycle < g.cycle
    <2>1. g.stamp # h.stamp
      BY DEF Ordered
    <2>2. ~(h.stamp > g.stamp)
      OBVIOUS
    <2> QED BY <2>1, <2>2 DEF Ordered
  <1>3. Cardinality(Trimmed(H)) = MaxHistory
    BY <1>1, LatestCounted DEF Trimmed, Ordered
  <1>4. IsFiniteSet(K) /\ Cardinality(Trimmed(H)) <= Cardinality(K)
    BY FS_Subset
  <1>5. Cardinality(K) \in Nat
    BY <1>4, FS_CardinalityType
  <1> QED BY <1>1, <1>2, <1>3, <1>4, <1>5

\* What stands above the new state in the history stays when it is trimmed.
LEMMA TrimmedAbove ==
  ASSUME NEW H, IsFiniteSet(H), \A h \in H : h.stamp \in Nat
  PROVE  \A k \in Trimmed(H) : {g \in H : g.stamp > k.stamp} \subseteq Trimmed(H)
  <1> DEFINE Above(k) == {x \in H : x.stamp > k.stamp}
  <1>1. ASSUME NEW k \in Trimmed(H), NEW g \in Above(k) PROVE g \in Trimmed(H)
    <2>1. k \in H /\ g \in H /\ Cardinality(Above(k)) < MaxHistory /\ MaxHistory \in Nat
      BY AgentAssumption DEF Trimmed
    <2>2. Above(g) \in SUBSET Above(k) /\ Above(k) \in SUBSET H
      BY <2>1
    <2>3. /\ IsFiniteSet(Above(k)) /\ IsFiniteSet(Above(g))
          /\ Cardinality(Above(g)) <= Cardinality(Above(k))
      <3> HIDE DEF Above
      <3> QED BY <2>2, FS_Subset
    <2>4. Cardinality(Above(g)) \in Nat /\ Cardinality(Above(k)) \in Nat
      <3> HIDE DEF Above
      <3> QED BY <2>3, FS_CardinalityType
    <2> QED BY <2>1, <2>3, <2>4 DEF Trimmed
  <1> QED BY <1>1

\* The new state comes on top of the history, in place of one of the same second.
LEMMA ExtendedOrdered ==
  ASSUME TypeOK, HistoryInv, NEW w \in BOOLEAN
  PROVE  /\ IsFiniteSet(Extended(w))
         /\ \A h \in Extended(w) : h.stamp \in Nat /\ h.cycle \in Nat
         /\ pc = "rotate" /\ "clock" \notin excuse =>
               /\ Ordered(Extended(w))
               /\ \A h \in Extended(w) : h.stamp <= stamp /\ h.cycle <= cycle
               /\ \A h \in history \ Extended(w) : h.stamp = stamp /\ h.cycle < cycle
  <1> DEFINE old == {h \in history : h.stamp # stamp}
             new == State(w)
  <1>1. old \in SUBSET history
    OBVIOUS
  <1>2. IsFiniteSet(old)
    BY <1>1, FS_Subset DEF HistoryInv
  <1>3. IsFiniteSet(Extended(w))
    BY <1>2, FS_AddElement DEF Extended
  <1>4. /\ stamp \in Nat /\ cycle \in Nat /\ new.stamp = stamp /\ new.cycle = cycle
        /\ \A h \in history : h.stamp \in Nat /\ h.cycle \in Nat
    BY AgentAssumption DEF TypeOK, State
  <1>5. Extended(w) = old \cup {new}
    BY DEF Extended
  <1>6. ASSUME pc = "rotate", "clock" \notin excuse
        PROVE  /\ Ordered(Extended(w))
               /\ \A h \in Extended(w) : h.stamp <= stamp /\ h.cycle <= cycle
               /\ \A h \in history \ Extended(w) : h.stamp = stamp /\ h.cycle < cycle
    <2>1. \A h \in history : h.stamp <= stamp /\ h.cycle < cycle
      BY <1>6 DEF HistoryInv, Ahead
    <2>2. \A h \in old : h.stamp < stamp /\ h.cycle < cycle
      BY <1>4, <2>1
    <2>3. Ordered(history)
      BY <1>6 DEF HistoryInv
    <2> HIDE DEF new
    <2>4. Ordered(old \cup {new})
      BY <1>4, <2>2, <2>3 DEF Ordered
    <2> QED BY <1>4, <1>5, <2>1, <2>2, <2>4
  <1>7. \A h \in Extended(w) : h.stamp \in Nat /\ h.cycle \in Nat
    <2> HIDE DEF new
    <2> QED BY <1>4, <1>5
  <1> QED BY <1>3, <1>6, <1>7

\* The new state is never trimmed away.
LEMMA NewestStays ==
  ASSUME TypeOK, HistoryInv, pc = "rotate", "clock" \notin excuse
  PROVE  State(TRUE) \in Trimmed(Extended(TRUE))
  <1>1. State(TRUE) \in Extended(TRUE) /\ State(TRUE).stamp = stamp /\ stamp \in Nat
    BY DEF Extended, State, TypeOK
  <1>2. {g \in Extended(TRUE) : g.stamp > State(TRUE).stamp} = {}
    <2>1. \A g \in Extended(TRUE) : g.stamp \in Nat /\ g.stamp <= stamp
      BY ExtendedOrdered
    <2>2. ASSUME NEW g \in Extended(TRUE) PROVE ~(g.stamp > stamp)
      <3>1. g.stamp \in Nat /\ stamp \in Nat /\ g.stamp <= stamp
        BY <2>1 DEF TypeOK
      <3> QED BY <3>1
    <2> QED BY <1>1, <2>2
  <1>3. 0 < MaxHistory
    BY AgentAssumption
  <1> QED BY <1>1, <1>2, <1>3, FS_EmptySet DEF Trimmed

\* What a rotation leaves, complete or broken off.
LEMMA UnderWayOrdered ==
  ASSUME TypeOK, HistoryInv, NEW H \in UnderWay \cup {Trimmed(Extended(TRUE))}
  PROVE  /\ IsFiniteSet(H)
         /\ pc = "rotate" /\ "clock" \notin excuse =>
               Ordered(H) /\ \A h \in H : h.stamp <= stamp /\ h.cycle <= cycle
  <1>1. \/ H \in SUBSET history \/ H \in SUBSET Extended(FALSE) \/ H \in SUBSET Extended(TRUE)
    BY DEF UnderWay, Trimmed
  <1>2. CASE H \in SUBSET history
    <2>1. IsFiniteSet(H)
      BY <1>2, FS_Subset DEF HistoryInv
    <2> QED BY <1>2, <2>1 DEF HistoryInv, Ordered, Ahead
  <1>3. ASSUME NEW w \in BOOLEAN, H \in SUBSET Extended(w)
        PROVE  /\ IsFiniteSet(H)
               /\ pc = "rotate" /\ "clock" \notin excuse =>
                     Ordered(H) /\ \A h \in H : h.stamp <= stamp /\ h.cycle <= cycle
    <2>1. IsFiniteSet(H)
      BY <1>3, ExtendedOrdered, FS_Subset
    <2> QED BY <1>3, <2>1, ExtendedOrdered DEF Ordered
  <1> QED BY <1>1, <1>2, <1>3

\* What it takes from the history.
LEMMA UnderWayKeeps ==
  ASSUME TypeOK, HistoryInv, NEW H \in UnderWay, pc = "rotate", "clock" \notin excuse
  PROVE  KeepsLatest(history, H)
  <1>1. CASE H = history
    BY <1>1 DEF KeepsLatest
  <1>2. ASSUME NEW w \in BOOLEAN
        PROVE  \A h \in history \ Extended(w) : h.stamp = State(w).stamp /\ h.cycle < State(w).cycle
    BY <1>2, ExtendedOrdered DEF State
  <1>3. CASE H = Extended(FALSE)
    <2>1. State(FALSE) \in H
      BY <1>3 DEF Extended
    <2> QED BY <1>2, <1>3, <2>1 DEF KeepsLatest
  <1>4. CASE /\ H \in SUBSET Extended(TRUE) /\ Trimmed(Extended(TRUE)) \subseteq H
             /\ \A h \in H : {g \in Extended(TRUE) : g.stamp > h.stamp} \subseteq H
    <2>1. ASSUME NEW h \in history \ H
          PROVE  \/ \E g \in H : g.stamp = h.stamp /\ h.cycle < g.cycle
                 \/ (\A g \in H : h.cycle < g.cycle) /\ Cardinality(H) >= MaxHistory
      <3>1. CASE h \in Extended(TRUE)
        BY <1>4, <2>1, <3>1, ExtendedOrdered, TrimmedLatest
      <3>2. CASE h \notin Extended(TRUE)
        <4>1. h.stamp = State(TRUE).stamp /\ h.cycle < State(TRUE).cycle
          BY <1>2, <2>1, <3>2
        <4>2. State(TRUE) \in H
          BY NewestStays, <1>4
        <4> QED BY <4>1, <4>2
      <3> QED BY <3>1, <3>2
    <2> QED BY <2>1 DEF KeepsLatest
  <1> QED BY <1>1, <1>3, <1>4 DEF UnderWay

LEMMA HistoryStep ==
  ASSUME TypeOK, HistoryInv, Next
  PROVE  HistoryInv'
  <1>0. /\ stamp \in Nat /\ cycle \in Nat
        /\ \A h \in history : h.stamp \in Nat /\ h.cycle \in Nat
    BY AgentAssumption DEF TypeOK
  <1>1. CASE Start \/ EndSleep
    BY <1>0, <1>1 DEF HistoryInv, Ordered, Ahead, Start, EndSleep, ghosts
  <1>2. CASE Load \/ LoadFails
    BY <1>0, <1>2 DEF HistoryInv, Ordered, Ahead, Load, LoadFails, Cycle
  <1>3. CASE \E p \in Providers : Audit(p) \/ AuditFails(p)
    BY <1>0, <1>3 DEF HistoryInv, Ordered, Ahead, Audit, AuditFails, ghosts
  <1>4. CASE Loop \/ EndAudit \/ Save \/ SaveFails \/ Signal \/ \E k \in Keys : Change(k)
    BY <1>0, <1>4 DEF HistoryInv, Ordered, Ahead, Loop, EndAudit, Save, SaveFails, Signal, Change, ghosts
  <1>5. CASE Notify \/ NotifyFails \/ (Kill /\ pc # "rotate")
    BY <1>0, <1>5 DEF HistoryInv, Ordered, Ahead, Notify, NotifyFails, Kill
  <1>6. CASE Rotate \/ RotateFails \/ (Kill /\ pc = "rotate")
    <2>1. /\ pc = "rotate" /\ pc' \in {"notify", "down"} /\ UNCHANGED <<stamp, cycle, excuse>>
          /\ history' \in UnderWay \cup {Trimmed(Extended(TRUE))}
      BY <1>6 DEF Rotate, RotateFails, Kill, ghosts
    <2>2. /\ IsFiniteSet(history')
          /\ "clock" \notin excuse =>
                 Ordered(history') /\ \A h \in history' : h.stamp <= stamp /\ h.cycle <= cycle
      BY <2>1, UnderWayOrdered
    <2> QED BY <2>1, <2>2 DEF HistoryInv, Ordered, Ahead
  <1>7. CASE ClockBack
    BY <1>7 DEF ClockBack, HistoryInv
  <1> QED BY <1>1, <1>2, <1>3, <1>4, <1>5, <1>6, <1>7 DEF Next, Step
-----------------------------------------------------------------------------
LEMMA InvStep == IInv /\ [Next]_vars => IInv'
  <1> SUFFICES ASSUME IInv, [Next]_vars PROVE IInv'
    OBVIOUS
  <1>1. CASE Next
    BY <1>1, TypeStep, AuditStep, FileStep, ToldStep, OnceStep, HistoryStep DEF IInv
  <1>2. CASE UNCHANGED vars
    <2> USE <1>2 DEF vars, memory, ghosts
    <2>1. TypeOK' /\ CycleInv'
      BY DEF IInv, TypeOK, CycleInv
    <2>2. AuditInv' /\ FileInv'
      BY DEF IInv, AuditInv, OfCheck, OfProvider, FileInv
    <2>3. ToldInv' /\ OnceInv'
      BY DEF IInv, ToldInv, OnceInv, Remembered
    <2>4. HistoryInv'
      BY DEF IInv, HistoryInv, Ahead
    <2> QED BY <2>1, <2>2, <2>3, <2>4 DEF IInv
  <1> QED BY <1>1, <1>2

LEMMA InvHolds == Spec => []IInv
  BY InitInv, InvStep, PTL DEF Spec

\* The agent's state stays well formed, and no process audits more cycles than
\* the loop lets it.
THEOREM TypeCorrect == Spec => []TypeOK
  <1>1. IInv => TypeOK
    BY DEF IInv
  <1> QED BY <1>1, InvHolds, PTL

\* Whatever providers, webhooks and processes fail: a failure found by a finished
\* cycle has been alerted, or its one alert was lost, as long as the state could be
\* saved.
THEOREM AccountedHolds == Spec => []Accounted
  <1>1. IInv => Accounted
    BY DEF IInv, Accounted, FileInv, ToldInv, Remembered, Untold, Saved
  <1> QED BY <1>1, InvHolds, PTL

\* A failure that goes on is alerted once, across any number of restarts, unless a
\* provider failed or the state file was torn, unsaved, unreadable or too large.
THEOREM NoRepeatHolds == Spec => []NoRepeat
  <1>1. IInv => NoRepeat
    BY DEF IInv, NoRepeat, OnceInv
  <1> QED BY <1>1, InvHolds, PTL

\* The agent stops of its own accord only between two cycles, with no alert lost
\* and the findings of its last cycle in the state file, if it could be written.
THEOREM GracefulStopHolds == Spec => GracefulStop
  <1> DEFINE Graceful == pc # "down" /\ pc' = "down" /\ count'.faults = count.faults =>
                            /\ pc = "test" /\ dropped' = dropped
                            /\ current # {} /\ "save" \notin excuse => file' = Saved(current)
  <1>1. ASSUME IInv, Next PROVE Graceful
    <2>1. CASE Start \/ Load \/ LoadFails \/ EndAudit \/ Save \/ Rotate \/ Notify \/ EndSleep
      BY <2>1 DEF Start, Load, LoadFails, Cycle, EndAudit, Save, Rotate, Notify, EndSleep
    <2>2. CASE SaveFails \/ RotateFails \/ NotifyFails
      BY <2>2 DEF SaveFails, RotateFails, NotifyFails
    <2>3. CASE Loop
      BY <1>1, <2>3 DEF Loop, ghosts, IInv, FileInv
    <2>4. CASE Kill
      BY <1>1, <2>4, FaultCounted DEF Kill, IInv
    <2>5. CASE Signal \/ ClockBack \/ (\E p \in Providers : Audit(p) \/ AuditFails(p)) \/ \E k \in Keys : Change(k)
      BY <2>5 DEF Signal, ClockBack, Audit, AuditFails, Change
    <2> QED BY <1>1, <2>1, <2>2, <2>3, <2>4, <2>5 DEF Next, Step
  <1>2. ASSUME UNCHANGED vars PROVE Graceful
    BY <1>2 DEF vars
  <1>3. IInv /\ [Next]_vars => [Graceful]_vars
    BY <1>1, <1>2
  <1> QED BY <1>3, InvHolds, PTL DEF Spec, GracefulStop

\* The history loses only states older than the MaxHistory or more files it keeps,
\* or replaced within the second, whatever length it is given and wherever a
\* rotation breaks off, as long as the clock never went back.
THEOREM HistoryKeepsLatestHolds == Spec => HistoryKeepsLatest
  <1> DEFINE Keeps == excuse' \cap {"clock"} = {} => KeepsLatest(Known, history')
  <1>1. ASSUME IInv, Next PROVE Keeps
    <2> SUFFICES ASSUME excuse' \cap {"clock"} = {} PROVE KeepsLatest(Known, history')
      OBVIOUS
    <2>1. CASE Rotate
      <3>1. /\ pc = "rotate" /\ excuse' = excuse /\ history' = Trimmed(Extended(TRUE)) /\ Rotates
        BY <2>1 DEF Rotate, Rotates, ghosts
      <3>2. "clock" \notin excuse
        BY <3>1
      <3>3. history' \in UnderWay /\ State(TRUE) \in history'
        <4>1. Trimmed(Extended(TRUE)) \in SUBSET Extended(TRUE)
          BY DEF Trimmed
        <4>2. IsFiniteSet(Extended(TRUE)) /\ \A h \in Extended(TRUE) : h.stamp \in Nat
          BY <1>1, ExtendedOrdered DEF IInv
        <4> QED BY <1>1, <3>1, <3>2, <4>1, <4>2, TrimmedAbove, NewestStays DEF UnderWay, IInv
      <3>4. KeepsLatest(history, history')
        BY <1>1, <3>1, <3>2, <3>3, UnderWayKeeps DEF IInv
      <3> QED BY <3>1, <3>3, <3>4 DEF Known, KeepsLatest
    <2>2. CASE RotateFails \/ (Kill /\ pc = "rotate")
      <3>1. /\ pc = "rotate" /\ excuse' = excuse /\ history' \in UnderWay
            /\ count'.faults # count.faults
        BY <1>1, <2>2, FaultCounted DEF RotateFails, Kill, ghosts, IInv
      <3>2. Known = history
        BY <3>1 DEF Known, Rotates
      <3> QED BY <1>1, <3>1, <3>2, UnderWayKeeps DEF IInv
    <2>3. CASE ~(Rotate \/ RotateFails \/ (Kill /\ pc = "rotate"))
      <3>1. history' = history /\ ~Rotates
        BY <1>1, <2>3 DEF Next, Step, Start, Loop, Load, LoadFails, Cycle, Audit, AuditFails, EndAudit,
             Save, SaveFails, Notify, NotifyFails, EndSleep, Signal, Kill, ClockBack, Change, Rotates
      <3> QED BY <3>1 DEF Known, KeepsLatest
    <2> QED BY <2>1, <2>2, <2>3
  <1>2. ASSUME UNCHANGED vars PROVE Keeps
    BY <1>2 DEF vars, Known, Rotates, KeepsLatest
  <1>3. IInv /\ [Next]_vars => [Keeps]_vars
    BY <1>1, <1>2
  <1> QED BY <1>3, InvHolds, PTL DEF Spec, HistoryKeepsLatest
-----------------------------------------------------------------------------
LEMMA RankOf ==
    /\ StepsLeft["down"] = 0 /\ StepsLeft["test"] = 1 /\ StepsLeft["sleep"] = 2 /\ StepsLeft["notify"] = 3
    /\ StepsLeft["rotate"] = 4 /\ StepsLeft["save"] = 5 /\ StepsLeft["audit"] = 6 /\ StepsLeft["load"] = 7
  BY DEF StepsLeft

\* What is left to do, by stages.
LEMMA UntilDownIs ==
  ASSUME TypeOK, IsFiniteSet(Providers)
  PROVE  /\ UntilDown \in Nat /\ UntilDown <= 7 + Cardinality(Providers)
         /\ IsFiniteSet(todo) /\ Cardinality(todo) \in Nat /\ Cardinality(Providers) \in Nat
         /\ pc = "load" => UntilDown = 7 + Cardinality(Providers)
         /\ pc = "audit" => UntilDown = 6 + Cardinality(todo)
         /\ pc \notin {"load", "audit"} => UntilDown = StepsLeft[pc] /\ StepsLeft[pc] \in 0 .. 5
  <1>1. /\ Cardinality(todo) \in Nat /\ Cardinality(Providers) \in Nat /\ IsFiniteSet(todo)
        /\ Cardinality(todo) <= Cardinality(Providers)
    BY FS_Subset, FS_CardinalityType DEF TypeOK
  <1>2. pc \in PCs
    BY DEF TypeOK
  <1>3. CASE pc = "load"
    BY <1>1, <1>3, RankOf DEF UntilDown
  <1>4. CASE pc = "audit"
    BY <1>1, <1>4, RankOf DEF UntilDown
  <1>5. CASE pc \notin {"load", "audit"}
    <2>1. UntilDown = StepsLeft[pc] + 0
      BY <1>5 DEF UntilDown
    <2>2. StepsLeft[pc] \in 0 .. 5
      BY <1>2, <1>5, RankOf DEF PCs
    <2> QED BY <1>1, <1>5, <2>1, <2>2
  <1> QED BY <1>1, <1>3, <1>4, <1>5

\* One step of the loop after a signal.
LEMMA StepNearer ==
  ASSUME TypeOK, TypeOK', IsFiniteSet(Providers), shutdown, Step
  PROVE  UntilDown' < UntilDown
  <1>1. PICK n \in Nat : n = UntilDown
    BY UntilDownIs
  <1>2. /\ pc = "load" => n = 7 + Cardinality(Providers)
        /\ pc = "audit" => n = 6 + Cardinality(todo)
        /\ pc \notin {"load", "audit"} => n = StepsLeft[pc]
        /\ IsFiniteSet(todo) /\ Cardinality(todo) \in Nat /\ Cardinality(Providers) \in Nat
    BY <1>1, UntilDownIs
  <1>3. CASE Load \/ LoadFails
    <2>1. UntilDown' = 6 + Cardinality(Providers)
      BY <1>3, RankOf DEF Load, LoadFails, Cycle, UntilDown
    <2>2. pc = "load"
      BY <1>3 DEF Load, LoadFails, Cycle
    <2> QED BY <1>1, <1>2, <2>1, <2>2
  <1>4. CASE \E p \in Providers : Audit(p) \/ AuditFails(p)
    <2>1. PICK p \in todo : todo' = todo \ {p} /\ pc = "audit" /\ pc' = "audit"
      BY <1>4 DEF Audit, AuditFails
    <2>2. PICK k \in Nat : k = Cardinality(todo \ {p}) /\ k = Cardinality(todo) - 1
      BY <1>2, <2>1, FS_RemoveElement, FS_CardinalityType
    <2>3. UntilDown' = 6 + k
      BY <2>1, <2>2, RankOf DEF UntilDown
    <2>4. 6 + k < n
      BY <1>2, <2>1, <2>2
    <2> QED BY <1>1, <2>3, <2>4
  <1>5. CASE Loop \/ EndAudit \/ Save \/ SaveFails \/ Rotate \/ RotateFails \/ Notify \/ NotifyFails \/ EndSleep
    <2>1. \/ pc = "test" /\ pc' = "down"
          \/ pc = "audit" /\ pc' = "save"
          \/ pc = "save" /\ pc' \in {"rotate", "notify"}
          \/ pc = "rotate" /\ pc' = "notify"
          \/ pc = "notify" /\ pc' = "sleep"
          \/ pc = "sleep" /\ pc' = "test"
      BY <1>5 DEF Loop, GoesDown, EndAudit, Save, SaveFails, Rotate, RotateFails, Notify, NotifyFails, EndSleep
    <2>2. UntilDown' = StepsLeft[pc'] + 0
      BY <2>1 DEF UntilDown
    <2>3. StepsLeft[pc'] \in 0 .. 5 /\ StepsLeft[pc'] < n
      BY <1>2, <2>1, RankOf
    <2> QED BY <1>1, <2>2, <2>3
  <1> QED BY <1>3, <1>4, <1>5 DEF Step

\* StopsSoon: after a signal every step of the loop brings the agent nearer to
\* its end, which is never more than one cycle away.
THEOREM StopsSoonHolds == ASSUME IsFiniteSet(Providers) PROVE Spec => StopsSoon
  <1> DEFINE Soon == shutdown /\ pc # "down" =>
                        /\ Step => UntilDown' < UntilDown
                        /\ UntilDown' <= UntilDown
                        /\ UntilDown <= 7 + Cardinality(Providers)
  <1>1. ASSUME TypeOK, TypeOK', Next, shutdown, pc # "down"
        PROVE  /\ Step => UntilDown' < UntilDown
               /\ UntilDown' <= UntilDown
               /\ UntilDown <= 7 + Cardinality(Providers)
    <2>1. UntilDown \in Nat /\ UntilDown <= 7 + Cardinality(Providers)
      BY <1>1, UntilDownIs
    <2>2. PICK m \in Nat : m = UntilDown'
      <3>1. (UntilDown \in Nat)'
        BY <1>1, UntilDownIs, PTL
      <3> QED BY <3>1
    <2>3. CASE Step
      <3>1. UntilDown' < UntilDown
        BY <1>1, <2>3, StepNearer
      <3> QED BY <2>1, <2>2, <3>1
    <2>4. ASSUME pc' = pc, todo' = todo PROVE UntilDown' = UntilDown
      BY <2>4 DEF UntilDown
    <2>5. CASE Signal \/ ClockBack \/ \E k \in Keys : Change(k)
      <3>1. UntilDown' = UntilDown
        BY <2>4, <2>5 DEF Signal, ClockBack, Change, memory
      <3>2. UntilDown' <= UntilDown
        BY <2>1, <3>1
      <3>3. ~Step \/ UntilDown' < UntilDown
        BY <1>1, StepNearer
      <3> QED BY <2>1, <3>2, <3>3
    <2>6. CASE Kill
      <3>1. UntilDown' = 0
        BY <2>6, RankOf DEF Kill, UntilDown
      <3>2. UntilDown' <= UntilDown
        BY <2>1, <3>1
      <3>3. ~Step \/ UntilDown' < UntilDown
        BY <1>1, StepNearer
      <3> QED BY <2>1, <3>2, <3>3
    <2>7. ~Start
      BY <1>1 DEF Start
    <2> QED BY <1>1, <2>3, <2>5, <2>6, <2>7 DEF Next
  <1>2. IInv /\ IInv' /\ [Next]_vars => [Soon]_vars
    BY <1>1 DEF IInv
  <1> QED BY <1>2, InvHolds, PTL DEF Spec, StopsSoon
=============================================================================
