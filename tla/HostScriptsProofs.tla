-------------------------- MODULE HostScriptsProofs --------------------------
(***************************************************************************)
(* What holds of every run of the scripts for Alpine, FreeBSD, macOS and   *)
(* Windows, for any number of runs and of checks and repairs that fail.    *)
(***************************************************************************)
EXTENDS HostScripts, TLAPS

\* What a run keeps besides the types.  Keys hide in comments on FreeBSD only, no
\* tool is missing on macOS and Windows, and only these have a phase of repairs.
ModeInv ==
    /\ mode # "idle" => exit = "none"
    /\ script # "freebsd" => hidden = {}
    /\ ~InTurn => missing = {}
    /\ repairing => ~InTurn
    /\ mode # "idle" /\ ~InTurn /\ ~repairing => k <= Len(Controls)

\* The statuses collected so far are true, in the middle of a run as well.
True(c) ==
    /\ status[c] = "PASS" => c \in holds \cup unrepaired \cup (misread \cap PassUnread)
    /\ status[c] \in {"FAIL", "SKIP"} => c \notin (IF InTurn THEN holds ELSE began) \/ c \in misread \cup missing
StatusInv == \A c \in ControlSet : True(c)

\* Those that are checked first all have one when the repairs begin.
ListInv ==
    mode # "idle" /\ ~InTurn =>
        \A j \in 1 .. Len(Controls) : j < k \/ repairing => status[Controls[j]] \in {"PASS", "FAIL"}

\* The controls that an apply has passed are repaired, if they can be.
InOrder(c) == c \in holds \cup unrepaired \cup missing \cup (misread \cap PassUnread)
RepairInv ==
    mode = "apply" /\ (InTurn \/ repairing) =>
        \A j \in 1 .. Len(Controls) : j < k /\ Controls[j] \in Repairable => InOrder(Controls[j])

\* A script that checks in turn has no status yet for what is to come.  Hence
\* the user that Alpine creates cannot make a status of the shells untrue.
AheadInv ==
    mode # "idle" /\ InTurn => \A j \in k .. Len(Controls) : status[Controls[j]] = "none"

\* What is printed, and what has changed, by the phase of the run.
ShownInv ==
    mode # "idle" =>
        /\ shown \/ script = "windows"
        /\ ~InTurn /\ ~repairing => holds = began

IInv == TypeOK /\ ModeInv /\ StatusInv /\ ListInv /\ AheadInv /\ RepairInv /\ ShownInv /\ ReportHolds
-----------------------------------------------------------------------------
\* A script names each of its controls once.
LEMMA ControlsOnce ==
    ASSUME script \in Scripts
    PROVE  /\ Len(Controls) \in Nat
           /\ DOMAIN Controls = 1 .. Len(Controls)
           /\ ControlSet = {Controls[j] : j \in 1 .. Len(Controls)}
           /\ \A i, j \in 1 .. Len(Controls) : Controls[i] = Controls[j] => i = j
<1>1. CASE script = "alpine"
  BY <1>1 DEF Controls, ControlSet, Alpine
<1>2. CASE script = "freebsd"
  BY <1>2 DEF Controls, ControlSet, FreeBSD
<1>3. CASE script = "macos"
  BY <1>3 DEF Controls, ControlSet, MacOS
<1>4. CASE script = "windows"
  BY <1>4 DEF Controls, ControlSet, Windows
<1> QED  BY <1>1, <1>2, <1>3, <1>4 DEF Scripts

\* Only Alpine creates a user and looks at the shells, the user first and the
\* shells last.
LEMMA ShellsLast ==
    ASSUME script \in Scripts, "USER" \in ControlSet
    PROVE  /\ script = "alpine" /\ Len(Controls) = 4
           /\ Controls[1] = "USER" /\ Controls[4] = "SHELL"
<1>1. CASE script = "alpine"
  BY <1>1 DEF Controls, Alpine
<1>2. CASE script = "freebsd"
  BY <1>2 DEF Controls, ControlSet, FreeBSD
<1>3. CASE script = "macos"
  BY <1>3 DEF Controls, ControlSet, MacOS
<1>4. CASE script = "windows"
  BY <1>4 DEF Controls, ControlSet, Windows
<1> QED  BY <1>1, <1>2, <1>3, <1>4 DEF Scripts

\* Which script runs is all that the controls depend on.
LEMMA SameScript ==
    ASSUME script' = script
    PROVE  /\ Controls' = Controls /\ ControlSet' = ControlSet /\ InTurn' = InTurn
           /\ PassUnread' = PassUnread /\ Repairable' = Repairable
<1>1. Controls' = Controls /\ InTurn' = InTurn /\ PassUnread' = PassUnread
  BY DEF Controls, InTurn, PassUnread
<1>2. ControlSet' = ControlSet
  BY <1>1 DEF ControlSet
<1> QED  BY <1>1, <1>2 DEF Repairable

\* The repairable controls of the scripts that check first.
LEMMA RepairableIs == Repairable \subseteq ControlSet /\ (InTurn => Repairable \subseteq Repairs)
BY DEF Repairable

LEMMA InitIInv == Init => IInv
<1> SUFFICES ASSUME Init PROVE IInv  OBVIOUS
<1> USE DEF Init
<1>1. TypeOK
  <2>1. hidden \subseteq ControlSet \ holds
    <3>1. script = "freebsd" => {"SSH-ROOT", "SSH-EMPTY"} \subseteq ControlSet
      BY DEF Controls, ControlSet, FreeBSD
    <3> QED  BY <3>1
  <2>2. runs \in 0 .. MaxRuns /\ faults \in 0 .. MaxFaults
    BY HostAssumption
  <2>3. k \in 1 .. Len(Controls) + 1
    BY ControlsOnce
  <2>4. status \in [ControlSet -> {"none", "PASS", "FAIL", "PLAN", "SKIP"}]
    OBVIOUS
  <2>5. missing \subseteq {"PKG", "PATCH"}
    BY DEF Scripts
  <2> QED  BY <2>1, <2>2, <2>3, <2>4, <2>5 DEF TypeOK
<1>2. ModeInv
  BY DEF ModeInv, Scripts, InTurn
<1>3. StatusInv
  BY DEF StatusInv, True
<1>4. AheadInv /\ ListInv /\ RepairInv /\ ShownInv /\ ReportHolds
  BY DEF AheadInv, ListInv, RepairInv, ShownInv, ReportHolds
<1> QED  BY <1>1, <1>2, <1>3, <1>4 DEF IInv
-----------------------------------------------------------------------------
LEMMA StartKeeps == ASSUME IInv, NEW m \in {"audit", "plan", "apply", "unknown"}, Start(m) PROVE IInv'
<1> USE DEF IInv
<1> /\ Controls' = Controls /\ ControlSet' = ControlSet /\ InTurn' = InTurn
    /\ PassUnread' = PassUnread /\ Repairable' = Repairable /\ script' = script
  BY SameScript DEF Start, hostVars
<1>l. Len(Controls) \in Nat /\ Len(Controls) >= 1
  BY DEF TypeOK, Scripts, Controls, Alpine, FreeBSD, MacOS, Windows
<1>n. \A c \in ControlSet : status'[c] = "none"
  BY DEF Start
<1>1. TypeOK'
  <2>1. runs' \in 0 .. MaxRuns
    BY HostAssumption DEF TypeOK, Start
  <2>2. k' \in 1 .. Len(Controls) + 1
    BY <1>l DEF Start
  <2>3. status' \in [ControlSet -> {"none", "PASS", "FAIL", "PLAN", "SKIP"}]
    BY DEF Start
  <2>4. mode' \in {"idle", "audit", "plan", "apply", "unknown"} /\ exit' \in {"none", "0", "1", "2", "killed"}
    BY DEF Start, Ended
  <2>5. shown' \in BOOLEAN /\ repairing' \in BOOLEAN
    BY DEF Start
  <2> QED  BY <2>1, <2>2, <2>3, <2>4, <2>5 DEF TypeOK, Start, hostVars
<1>2. ModeInv'
  BY <1>l DEF ModeInv, Start, Ended, TypeOK, hostVars
<1>3. StatusInv' /\ AheadInv'
  <2>2. \A j \in k' .. Len(Controls) : Controls[j] \in ControlSet
    BY ControlsOnce DEF TypeOK, Start
  <2> QED  BY <1>n, <2>2 DEF StatusInv, AheadInv, True
<1>4. ShownInv' /\ ListInv' /\ RepairInv'
  <2>1. k' = 1 /\ ~repairing' /\ \A j \in 1 .. Len(Controls) : ~(j < k')
    BY <1>l DEF Start
  <2>2. ShownInv'
    BY DEF ShownInv, Start, Ended
  <2> QED  BY <2>1, <2>2 DEF ListInv, RepairInv
<1>5. ReportHolds'
  BY <1>n DEF ReportHolds, Start
<1> QED  BY <1>1, <1>2, <1>3, <1>4, <1>5

LEMMA CheckInTurnKeeps == ASSUME IInv, CheckInTurn PROVE IInv'
<1> USE DEF IInv
<1> DEFINE c == Controls[k]
<1> /\ Controls' = Controls /\ ControlSet' = ControlSet /\ InTurn' = InTurn
    /\ PassUnread' = PassUnread /\ Repairable' = Repairable
    /\ script' = script /\ InTurn /\ mode # "idle" /\ mode' = mode /\ exit' = exit
    /\ missing' = missing /\ hidden' = hidden /\ root' = root /\ k' = k + 1
  BY SameScript DEF CheckInTurn, hostVars
<1>c. /\ c \in ControlSet /\ k \in 1 .. Len(Controls) /\ Len(Controls) \in Nat
      /\ \A j \in 1 .. Len(Controls) : Controls[j] \in ControlSet /\ (j # k => Controls[j] # c)
  BY ControlsOnce DEF TypeOK, CheckInTurn
<1>r. PICK unread \in BOOLEAN :
        /\ MayMiss(c, unread)
        /\ status' = [status EXCEPT ![c] = Verdict(c, Good(c, unread))]
        /\ misread' = Missed(c, unread)
        /\ faults' \in Nat
        /\ \/ (Good(c, unread) \/ mode # "apply" \/ c \notin Repairs \ missing) /\ holds' = holds /\ unrepaired' = unrepaired
           \/ CanRepair(c) /\ holds' = Repaired(c) /\ unrepaired' = unrepaired
           \/ holds' = holds /\ unrepaired' = unrepaired \cup {c}
  <2>1. PICK unread \in BOOLEAN :
        /\ MayMiss(c, unread)
        /\ status' = [status EXCEPT ![c] = Verdict(c, Good(c, unread))]
        /\ misread' = Missed(c, unread)
        /\ IF Good(c, unread) \/ mode # "apply" \/ c \notin Repairs \ missing
           THEN faults' = faults + Cost(c, unread) /\ UNCHANGED <<holds, unrepaired>>
           ELSE \/ /\ CanRepair(c)
                   /\ holds' = Repaired(c)
                   /\ faults' = faults + Cost(c, unread) /\ UNCHANGED unrepaired
                \/ /\ unrepaired' = unrepaired \cup {c} /\ UNCHANGED holds
                   /\ faults' = faults + Cost(c, unread) + IF CanRepair(c) /\ c # "PKG" THEN 1 ELSE 0
    BY DEF CheckInTurn
  <2>2. faults \in Nat /\ Cost(c, unread) \in Nat
    BY HostAssumption DEF TypeOK, Cost
  <2>3. faults' \in Nat
    BY <2>1, <2>2
  <2>4. WITNESS unread \in BOOLEAN
  <2> QED  BY <2>1, <2>3
<1>v. Verdict(c, Good(c, unread)) \in {"none", "PASS", "FAIL", "PLAN", "SKIP"}
  BY DEF Verdict
<1>s. /\ status'[c] = Verdict(c, Good(c, unread))
      /\ \A d \in ControlSet \ {c} : status'[d] = status[d]
  BY <1>c, <1>r DEF TypeOK
<1>m. misread \subseteq misread' /\ misread' \subseteq misread \cup {c} /\ (unread => c \in misread')
      /\ (unread => c \notin missing)
  BY <1>r DEF Missed, MayMiss
<1>n. status[c] = "none"
  BY <1>c DEF AheadInv
<1>u. c = "USER" => c # "SHELL" /\ "SHELL" \in ControlSet /\ status["SHELL"] = "none"
  <2> SUFFICES ASSUME c = "USER" PROVE "SHELL" \in ControlSet /\ status["SHELL"] = "none"
    OBVIOUS
  <2>1. script = "alpine" /\ Len(Controls) = 4 /\ Controls[4] = "SHELL"
    BY <1>c, ShellsLast DEF TypeOK
  <2>2. 4 \in k .. Len(Controls)
    BY <2>1, <1>c
  <2>3. "SHELL" \in ControlSet
    BY <2>1, ControlsOnce DEF TypeOK
  <2> QED  BY <2>1, <2>2, <2>3 DEF AheadInv
<1>k. \A d \in holds : d \in holds' \/ (d = "SHELL" /\ c = "USER")
  BY <1>r DEF Repaired
<1>a. holds' \subseteq holds \cup {c} /\ (c \in holds' /\ c \notin holds => CanRepair(c))
  BY <1>r DEF Repaired
<1>w. unrepaired \subseteq unrepaired'
  BY <1>r
\* A control that the run would repair is in order afterwards, or known not to be.
<1>f. c \in holds' \cup unrepaired' \/ Good(c, unread) \/ mode # "apply" \/ c \notin Repairs \ missing
  <2>1. c \in Repaired(c)
    BY <1>u DEF Repaired
  <2> QED  BY <2>1, <1>r
<1>g. Good(c, unread) => c \in holds' \cup (misread' \cap PassUnread)
  BY <1>m, <1>k, <1>u DEF Good
<1>1. TypeOK'
  <2>1. holds' \subseteq ControlSet /\ unrepaired' \subseteq ControlSet
    BY <1>c, <1>a, <1>r DEF TypeOK
  <2>2. hidden' \subseteq ControlSet \ holds'
    BY <1>a DEF TypeOK, CanRepair
  <2>3. status' \in [ControlSet -> {"none", "PASS", "FAIL", "PLAN", "SKIP"}]
    BY <1>v, <1>c, <1>r DEF TypeOK
  <2>4. faults' \in 0 .. MaxFaults
    BY HostAssumption, <1>r DEF CheckInTurn
  <2>5. k' \in 1 .. Len(Controls) + 1
    BY <1>c
  <2>6. misread' \subseteq ControlSet \ missing'
    BY <1>r, <1>c DEF TypeOK, Missed, MayMiss
  <2> QED  BY <2>1, <2>2, <2>3, <2>4, <2>5, <2>6 DEF TypeOK, CheckInTurn, hostVars
<1>2. ModeInv'
  BY DEF ModeInv, CheckInTurn
<1>3. StatusInv'
  <2> SUFFICES ASSUME NEW d \in ControlSet PROVE True(d)'
    BY DEF StatusInv
  <2>1. CASE d # c
    <3>1. status'[d] = status[d] /\ True(d)
      BY <2>1, <1>s DEF StatusInv
    <3>2. d \in holds' => d \in holds
      BY <2>1, <1>a
    <3>3. d \in holds /\ status[d] = "PASS" => d \in holds'
      BY <1>k, <1>u
    <3> QED  BY <3>1, <3>2, <3>3, <1>m, <1>w DEF True
  <2>2. CASE d = c
    <3>1. status'[c] = "PASS" => Good(c, unread) \/ (mode = "apply" /\ c \in Repairs \ missing)
      BY <1>s DEF Verdict
    <3>2. status'[c] \in {"FAIL", "SKIP"} =>
             c \in missing \/ (~Good(c, unread) /\ (mode # "apply" \/ c \notin Repairs))
      BY <1>s DEF Verdict
    <3>3. ~Good(c, unread) /\ (mode # "apply" \/ c \notin Repairs) => c \notin holds' \/ c \in misread'
      <4> SUFFICES ASSUME ~Good(c, unread), mode # "apply" \/ c \notin Repairs PROVE c \notin holds' \/ c \in misread'
        OBVIOUS
      <4>1. CASE unread
        BY <4>1, <1>m
      <4>2. CASE ~unread
        <5>1. c \notin holds
          BY <4>2 DEF Good
        <5>2. holds' = holds
          BY <5>1 DEF CheckInTurn
        <5> QED  BY <5>1, <5>2
      <4> QED  BY <4>1, <4>2
    <3> QED  BY <2>2, <3>1, <3>2, <3>3, <1>f, <1>g DEF True
  <2> QED  BY <2>1, <2>2
<1>4. AheadInv'
  <2>2. \A j \in k + 1 .. Len(Controls) : j \in k .. Len(Controls) /\ j # k /\ j \in 1 .. Len(Controls)
    BY <1>c
  <2> QED  BY <2>2, <1>c, <1>s DEF AheadInv
<1>5. RepairInv'
  <2> SUFFICES ASSUME mode = "apply", NEW j \in 1 .. Len(Controls), j < k + 1, Controls[j] \in Repairable
               PROVE  InOrder(Controls[j])'
    BY DEF RepairInv
  <2>1. Controls[j] \in Repairs
    BY RepairableIs
  <2>2. CASE j = k
    BY <2>1, <2>2, <1>f, <1>g DEF InOrder
  <2>3. CASE j # k
    <3>1. InOrder(Controls[j])
      BY <2>3, <1>c DEF RepairInv
    <3>2. Controls[j] # "SHELL"
      BY <2>1 DEF Repairs
    <3> QED  BY <3>1, <3>2, <1>k, <1>m, <1>w DEF InOrder
  <2> QED  BY <2>2, <2>3
<1>6. ShownInv' /\ ReportHolds' /\ ListInv'
  BY DEF ShownInv, ReportHolds, ListInv, CheckInTurn, ModeInv
<1> QED  BY <1>1, <1>2, <1>3, <1>4, <1>5, <1>6
-----------------------------------------------------------------------------
LEMMA CheckFirstKeeps == ASSUME IInv, CheckFirst PROVE IInv'
<1> USE DEF IInv
<1> DEFINE c == Controls[k]
<1> /\ Controls' = Controls /\ ControlSet' = ControlSet /\ InTurn' = InTurn
    /\ PassUnread' = PassUnread /\ Repairable' = Repairable
    /\ script' = script /\ ~InTurn /\ mode # "idle" /\ ~repairing
    /\ missing' = missing /\ hidden' = hidden /\ root' = root /\ holds' = holds
    /\ unrepaired' = unrepaired /\ began' = began /\ shown' = shown /\ runs' = runs
  BY SameScript DEF CheckFirst, hostVars
<1>c. /\ c \in ControlSet /\ k \in 1 .. Len(Controls) /\ Len(Controls) \in Nat
      /\ \A j \in 1 .. Len(Controls) : Controls[j] \in ControlSet /\ (j # k => Controls[j] # c)
  BY ControlsOnce DEF TypeOK, ModeInv
<1>h. holds = began /\ missing = {}
  BY DEF ShownInv, ModeInv
<1>r. PICK unread \in BOOLEAN :
        /\ MayMiss(c, unread)
        /\ misread' = Missed(c, unread)
        /\ faults' \in Nat
        /\ \/ mode' = "idle" /\ exit' = "1" /\ k' = k /\ repairing' = repairing /\ status' = status
           \/ /\ status' = [status EXCEPT ![c] = Verdict(c, Good(c, unread))]
              /\ IF k = Len(Controls) THEN k' = 1 /\ repairing' = TRUE ELSE k' = k + 1 /\ UNCHANGED repairing
              /\ mode' = mode /\ exit' = exit
  BY DEF CheckFirst, TypeOK, Cost, Ended
<1>v. /\ Verdict(c, Good(c, unread)) \in {"PASS", "FAIL"}
      /\ Verdict(c, Good(c, unread)) = "PASS" <=> Good(c, unread)
  BY <1>h DEF Verdict, InTurn
<1>m. misread \subseteq misread' /\ misread' \subseteq misread \cup {c} /\ (unread => c \in misread')
  BY <1>r DEF Missed
<1>1. TypeOK'
  <2>1. status' \in [ControlSet -> {"none", "PASS", "FAIL", "PLAN", "SKIP"}]
    BY <1>v, <1>c, <1>r DEF TypeOK
  <2>2. faults' \in 0 .. MaxFaults
    BY HostAssumption, <1>r DEF CheckFirst
  <2>3. k' \in 1 .. Len(Controls) + 1 /\ repairing' \in BOOLEAN
    <3>1. CASE k = Len(Controls)
      <4>1. k' = k \/ k' = 1
        BY <3>1, <1>r
      <4>2. repairing' \in BOOLEAN
        BY <3>1, <1>r DEF TypeOK
      <4> QED  BY <4>1, <4>2, <1>c
    <3>2. CASE k # Len(Controls)
      BY <3>2, <1>c, <1>r DEF TypeOK
    <3> QED  BY <3>1, <3>2
  <2>4. misread' \subseteq ControlSet \ missing'
    BY <1>m, <1>c, <1>h DEF TypeOK
  <2>5. mode' \in {"idle", "audit", "plan", "apply", "unknown"} /\ exit' \in {"none", "0", "1", "2", "killed"}
    BY <1>r DEF TypeOK
  <2> QED  BY <2>1, <2>2, <2>3, <2>4, <2>5 DEF TypeOK
<1>2. ModeInv'
  BY <1>r, <1>c DEF ModeInv
<1>3. StatusInv'
  <2> SUFFICES ASSUME NEW d \in ControlSet PROVE True(d)'
    BY DEF StatusInv
  <2>1. True(d)
    BY DEF StatusInv
  <2>2. CASE status'[d] = status[d]
    BY <2>1, <2>2, <1>m DEF True
  <2>3. CASE status'[d] # status[d]
    <3>1. d = c /\ status'[c] = Verdict(c, Good(c, unread))
      BY <2>3, <1>r, <1>c DEF TypeOK
    <3>2. Good(c, unread) => c \in holds \cup (misread' \cap PassUnread)
      BY <1>m DEF Good
    <3>3. ~Good(c, unread) => c \notin began \/ c \in misread'
      BY <1>m, <1>h DEF Good
    <3> QED  BY <3>1, <3>2, <3>3, <1>v DEF True
  <2> QED  BY <2>2, <2>3
<1>4. ListInv'
  <2> SUFFICES ASSUME mode' # "idle", NEW j \in 1 .. Len(Controls), j < k' \/ repairing'
               PROVE  status'[Controls[j]] \in {"PASS", "FAIL"}
    BY DEF ListInv
  <2>1. /\ status' = [status EXCEPT ![c] = Verdict(c, Good(c, unread))]
        /\ j <= k
    <3>1. mode' # "idle"
      OBVIOUS
    <3>2. CASE k = Len(Controls)
      BY <3>1, <3>2, <1>c, <1>r
    <3>3. CASE k # Len(Controls)
      BY <3>1, <3>3, <1>c, <1>r
    <3> QED  BY <3>2, <3>3
  <2>2. CASE j = k
    BY <2>1, <2>2, <1>c, <1>v DEF TypeOK
  <2>3. CASE j # k
    <3>1. status[Controls[j]] \in {"PASS", "FAIL"}
      BY <2>1, <2>3, <1>c DEF ListInv
    <3> QED  BY <2>1, <2>3, <3>1, <1>c DEF TypeOK
  <2> QED  BY <2>2, <2>3
<1>5. AheadInv' /\ ShownInv'
  BY <1>h, <1>r DEF AheadInv, ShownInv
<1>6. RepairInv'
  <2>1. repairing' /\ mode' # "idle" => k' = 1
    BY <1>r
  <2> QED  BY <2>1 DEF RepairInv
<1>7. ReportHolds'
  BY <1>3, <1>h, <1>r DEF ReportHolds, ModeInv, StatusInv, True
<1> QED  BY <1>1, <1>2, <1>3, <1>4, <1>5, <1>6, <1>7

LEMMA RepairLaterKeeps == ASSUME IInv, RepairLater PROVE IInv'
<1> USE DEF IInv
<1> DEFINE c == Controls[k]
<1> /\ Controls' = Controls /\ ControlSet' = ControlSet /\ InTurn' = InTurn
    /\ PassUnread' = PassUnread /\ Repairable' = Repairable
    /\ script' = script /\ ~InTurn /\ mode # "idle" /\ repairing
    /\ missing' = missing /\ hidden' = hidden /\ root' = root /\ misread' = misread
  BY SameScript DEF RepairLater, ModeInv, hostVars
<1>c. c \in ControlSet /\ k \in 1 .. Len(Controls) /\ Len(Controls) \in Nat
  BY ControlsOnce DEF TypeOK, RepairLater
<1>h. holds \subseteq holds' /\ unrepaired \subseteq unrepaired' /\ holds' \subseteq holds \cup {c}
      /\ unrepaired' \subseteq unrepaired \cup {c} /\ began' = began /\ status' = status
      /\ repairing' = repairing /\ runs' = runs /\ shown' = shown
  BY DEF RepairLater
\* The run goes on, or ends because of a repair that failed.
<1>e. \/ mode' = mode /\ exit' = exit /\ k' = k + 1 /\ (~ToRepair(c) \/ c \in holds' \cup unrepaired')
      \/ mode' = "idle" /\ exit' = "1" /\ k' = k /\ unrepaired' # {}
  BY DEF RepairLater, Ended
<1>1. TypeOK'
  <2>1. holds' \subseteq ControlSet /\ unrepaired' \subseteq ControlSet
    BY <1>c, <1>h DEF TypeOK
  <2>2. hidden' \subseteq ControlSet \ holds'
    BY <2>1 DEF ModeInv, InTurn
  <2>3. faults' \in 0 .. MaxFaults
    BY HostAssumption DEF RepairLater, TypeOK
  <2>4. k' \in 1 .. Len(Controls) + 1
    BY <1>c, <1>e
  <2> QED  BY <2>1, <2>2, <2>3, <2>4, <1>e, <1>h DEF TypeOK
<1>2. ModeInv' /\ AheadInv'
  BY <1>e, <1>h DEF ModeInv, AheadInv
<1>3. StatusInv'
  BY <1>h DEF StatusInv, True
<1>4. ListInv' /\ ShownInv'
  BY <1>h DEF ListInv, ShownInv
<1>5. RepairInv'
  <2> SUFFICES ASSUME mode' = "apply", NEW j \in 1 .. Len(Controls), j < k', Controls[j] \in Repairable
               PROVE  InOrder(Controls[j])'
    BY DEF RepairInv
  <2>1. mode = "apply" /\ k' = k + 1 /\ (~ToRepair(c) \/ c \in holds' \cup unrepaired')
    BY <1>e
  <2>2. CASE j # k
    BY <2>1, <2>2, <1>c, <1>h DEF RepairInv, InOrder
  <2>3. CASE j = k /\ c \in holds' \cup unrepaired'
    BY <2>3 DEF InOrder
  <2>4. CASE j = k /\ ~ToRepair(c)
    <3>1. c # "DISK"
      BY <2>4 DEF Repairable
    <3>2. status[c] # "FAIL"
      BY <2>1, <2>4, <3>1 DEF ToRepair
    <3>3. status[c] = "PASS"
      BY <3>2, <1>c DEF ListInv
    <3> QED  BY <2>4, <3>3, <1>c, <1>h DEF InOrder, StatusInv, True
  <2> QED  BY <2>1, <2>2, <2>3, <2>4
<1>6. ReportHolds'
  <2>1. CASE mode' = mode /\ exit' = exit
    BY <2>1 DEF ReportHolds, ModeInv
  <2>2. CASE unrepaired' # {}
    BY <2>2, <1>3, <1>h DEF ReportHolds, StatusInv, True, ShownInv
  <2> QED  BY <2>1, <2>2, <1>e
<1> QED  BY <1>1, <1>2, <1>3, <1>4, <1>5, <1>6

LEMMA FinishKeeps == ASSUME IInv, Finish PROVE IInv'
<1> USE DEF IInv
<1> /\ Controls' = Controls /\ ControlSet' = ControlSet /\ InTurn' = InTurn
    /\ PassUnread' = PassUnread /\ Repairable' = Repairable
  BY SameScript DEF Finish, hostVars
<1>1. TypeOK' /\ ModeInv' /\ AheadInv' /\ ListInv' /\ RepairInv' /\ ShownInv'
  BY DEF TypeOK, ModeInv, AheadInv, ListInv, RepairInv, ShownInv, Finish, Ended, hostVars
<1>2. StatusInv'
  BY DEF StatusInv, True, Finish, hostVars
<1>3. ReportHolds'
  BY <1>2 DEF ReportHolds, StatusInv, True, Finish
<1> QED  BY <1>1, <1>2, <1>3

LEMMA KillKeeps == ASSUME IInv, Kill PROVE IInv'
<1> USE DEF IInv
<1> /\ Controls' = Controls /\ ControlSet' = ControlSet /\ InTurn' = InTurn
    /\ PassUnread' = PassUnread /\ Repairable' = Repairable
  BY SameScript DEF Kill, hostVars
<1>1. TypeOK' /\ ModeInv' /\ AheadInv' /\ ListInv' /\ RepairInv' /\ ShownInv' /\ ReportHolds'
  BY DEF TypeOK, ModeInv, AheadInv, ListInv, RepairInv, ShownInv, ReportHolds, Kill, Ended, hostVars
<1>2. StatusInv'
  BY DEF StatusInv, True, Kill, hostVars
<1> QED  BY <1>1, <1>2

LEMMA NextKeeps == IInv /\ [Next]_vars => IInv'
<1> SUFFICES ASSUME IInv, [Next]_vars PROVE IInv'  OBVIOUS
<1>1. CASE Next
  BY <1>1, StartKeeps, CheckInTurnKeeps, CheckFirstKeeps, RepairLaterKeeps, FinishKeeps, KillKeeps DEF Next
<1>2. CASE UNCHANGED vars
  <2> USE <1>2 DEF vars, hostVars, runVars
  <2> /\ Controls' = Controls /\ ControlSet' = ControlSet /\ InTurn' = InTurn
      /\ PassUnread' = PassUnread /\ Repairable' = Repairable
    BY SameScript
  <2>1. TypeOK' /\ ModeInv' /\ AheadInv' /\ ShownInv' /\ ReportHolds'
    BY DEF IInv, TypeOK, ModeInv, AheadInv, ShownInv, ReportHolds
  <2>2. StatusInv' /\ ListInv' /\ RepairInv'
    BY DEF IInv, StatusInv, True, ListInv, RepairInv, InOrder
  <2> QED  BY <2>1, <2>2 DEF IInv
<1> QED  BY <1>1, <1>2

LEMMA Invariance == Spec => []IInv
BY InitIInv, NextKeeps, PTL DEF Spec
-----------------------------------------------------------------------------
\* The variables of the four scripts keep their types, whatever controls hold at
\* first, and a key that stands in a comment only never comes into force.
THEOREM TypeCorrect == Spec => []TypeOK
BY Invariance, PTL DEF IInv

\* The report of a run that ended is true of the host, although a repair may
\* have undone another control after its status was taken down; only a check that
\* read nothing, or a repair that did not work, makes its own status untrue.
THEOREM ReportHoldsAlways == Spec => []ReportHolds
BY Invariance, PTL DEF IInv

\* An apply that gets through its list leaves in order what its script can repair.
THEOREM ApplyRepairsHolds == Spec => []ApplyRepairs
<1>1. IInv => ApplyRepairs
  <2> SUFFICES ASSUME IInv, mode = "apply", k > Len(Controls), NEW c \in Repairable
               PROVE  InOrder(c)
    BY DEF ApplyRepairs, InOrder
  <2>1. InTurn \/ repairing
    BY ControlsOnce DEF IInv, TypeOK, ModeInv
  <2>2. PICK j \in 1 .. Len(Controls) : c = Controls[j]
    BY ControlsOnce, RepairableIs DEF IInv, TypeOK
  <2>3. j < k
    BY <2>2, ControlsOnce DEF IInv, TypeOK
  <2> QED  BY <2>1, <2>2, <2>3 DEF IInv, RepairInv
<1> QED  BY <1>1, Invariance, PTL
=============================================================================
