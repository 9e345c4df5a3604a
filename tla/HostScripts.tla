---------------------------- MODULE HostScripts ----------------------------
(***************************************************************************)
(* The scripts for Alpine, FreeBSD, macOS and Windows.  The first two      *)
(* check and repair one control after the other and go on after a repair   *)
(* that fails; the others check everything first, repair afterwards and    *)
(* stop at the first repair that fails; Windows prints its findings last.  *)
(* Definitions marked `mutant' are wrong variants of the definition after  *)
(* them, kept to show that the properties notice the difference.           *)
(***************************************************************************)
EXTENDS Naturals, Sequences

CONSTANTS MaxRuns, MaxFaults    \* runs of the script; checks and repairs that fail

ASSUME HostAssumption == MaxRuns \in Nat /\ MaxFaults \in Nat

VARIABLES
    script, root,   \* which script, and whether root or an administrator runs it
    holds,          \* the controls that the host complies with (for sshd_config: a
                    \* line of the file says no, whatever sshd makes of it)
    missing,        \* the controls whose tool, apk or freebsd-update, is not there
    hidden,         \* keys that stand in an indented comment of sshd_config
    mode, k,        \* of the current run: its mode or "idle", the next control
    repairing,      \* macOS and Windows: the checks are over
    status,         \* [control -> its status in this run, "none" before]
    shown,          \* the statuses have been printed
    misread,        \* history: controls of which a check of this run read nothing
    unrepaired,     \* history: repairs of this run that did not work
    began,          \* history: holds when the run began
    exit, runs, faults

hostVars == <<script, root, missing, hidden>>
runVars == <<mode, k, repairing, exit>>
vars == <<hostVars, holds, runVars, status, shown, misread, unrepaired, began, runs, faults>>

Alpine_ShellsFirst == <<"SHELL", "USER", "PKG", "FS">> \* mutant
Alpine == <<"USER", "PKG", "FS", "SHELL">>
FreeBSD == <<"FW", "SSH-ROOT", "SSH-EMPTY", "PATCH">>
MacOS == <<"FW", "GK", "PATCH", "AUTH", "DISK">>
Windows == <<"FW", "SMB", "AUTH", "AUDIT">>
Scripts == {"alpine", "freebsd", "macos", "windows"}
Controls ==
    CASE script = "alpine" -> Alpine [] script = "freebsd" -> FreeBSD
      [] script = "macos" -> MacOS [] script = "windows" -> Windows
ControlSet == {Controls[j] : j \in DOMAIN Controls}
InTurn == script \in {"alpine", "freebsd"}

Init ==
    /\ script \in Scripts
    /\ root \in BOOLEAN
    /\ holds \in SUBSET ControlSet
    /\ missing \in SUBSET (CASE script = "alpine" -> {"PKG"} [] script = "freebsd" -> {"PATCH"} [] OTHER -> {})
    /\ hidden \in SUBSET (IF script = "freebsd" THEN {"SSH-ROOT", "SSH-EMPTY"} \ holds ELSE {})
    /\ mode = "idle" /\ k = 1 /\ repairing = FALSE
    /\ status = [c \in ControlSet |-> "none"]
    /\ shown = FALSE /\ misread = {} /\ unrepaired = {} /\ began = holds
    /\ exit = "none" /\ runs = 0 /\ faults = 0

Ended(code) == mode' = "idle" /\ exit' = code

\* Alpine and FreeBSD look neither at the mode nor at who calls.  Windows prints
\* at the end, the others as they check.
Start(m) ==
    /\ mode = "idle" /\ runs < MaxRuns
    /\ runs' = runs + 1
    /\ k' = 1 /\ repairing' = FALSE /\ shown' = (script # "windows")
    /\ status' = [c \in ControlSet |-> "none"]
    /\ misread' = {} /\ unrepaired' = {} /\ began' = holds
    /\ IF ~InTurn /\ (m = "unknown" \/ (m = "apply" /\ ~root))
       THEN Ended(IF script = "windows" THEN "1" ELSE "2")
       ELSE mode' = m /\ exit' = "none"
    /\ UNCHANGED <<hostVars, holds, faults>>
-----------------------------------------------------------------------------
\* A check that reads nothing, because its tool fails or answers only to root,
\* takes that for a pass or for a failure, as its test was written; on Windows two
\* such checks end the run.
Blind ==
    (IF root THEN {} ELSE CASE script = "freebsd" -> {"FW", "PATCH"}
                            [] script = "windows" -> {"SMB", "AUDIT"}
                            [] OTHER -> {}) \ missing
PassUnread == IF script = "macos" THEN {"AUTH"} ELSE {"PKG", "SHELL", "SMB"}
EndUnread == IF script = "windows" THEN {"FW", "AUTH"} ELSE {}

\* Whether the check of c may read nothing; that costs a fault unless it is blind.
MayMiss(c, unread) == (c \in Blind => unread) /\ (unread => c \notin missing)
Cost(c, unread) == IF unread /\ c \notin Blind THEN 1 ELSE 0
Good(c, unread) == IF unread THEN c \in PassUnread ELSE c \in holds
Missed(c, unread) == misread \cup (IF unread THEN {c} ELSE {})

\* What a run of Alpine or FreeBSD can repair; FreeBSD leaves patches alone.
Repairs == {"USER", "PKG", "FW", "SSH-ROOT", "SSH-EMPTY"}

\* Creating appuser with /bin/sh makes an account that ALPINE-SHELL-001 rejects.
Repaired_Truncates(c) == (holds \cup {c}) \ (IF c = "SSH-EMPTY" THEN {"SSH-ROOT"} ELSE {}) \* mutant
Repaired(c) == (holds \cup {c}) \ (IF c = "USER" THEN {"SHELL"} ELSE {})

\* grep finds a key in an indented comment, sed does not.
CanRepair_Indented(c) == root \* mutant
CanRepair(c) == root /\ c \notin hidden

\* The status that is printed, whether or not the repair worked.
Verdict(c, good) ==
    CASE script = "freebsd" /\ c = "PATCH" /\ mode = "plan" -> "PLAN"
      [] OTHER ->
        IF c \in missing THEN "SKIP"
        ELSE IF good THEN "PASS"
        ELSE IF ~InTurn THEN "FAIL"
        ELSE IF mode = "plan" THEN "PLAN"
        ELSE IF mode = "apply" /\ c \in Repairs THEN "PASS"
        ELSE IF script = "alpine" \/ mode = "audit" THEN "FAIL"
        ELSE IF mode = "apply" THEN "SKIP"
        ELSE "none"

\* An apk upgrade that works need not put right what apk audit lists.
CheckInTurn ==
    /\ mode # "idle" /\ InTurn /\ k <= Len(Controls)
    /\ LET c == Controls[k] IN \E unread \in BOOLEAN :
        /\ MayMiss(c, unread)
        /\ status' = [status EXCEPT ![c] = Verdict(c, Good(c, unread))]
        /\ misread' = Missed(c, unread)
        /\ IF Good(c, unread) \/ mode # "apply" \/ c \notin Repairs \ missing
           THEN faults' = faults + Cost(c, unread) /\ UNCHANGED <<holds, unrepaired>>
           ELSE \/ /\ CanRepair(c)
                   /\ holds' = Repaired(c)
                   /\ faults' = faults + Cost(c, unread) /\ UNCHANGED unrepaired
                \/ /\ unrepaired' = unrepaired \cup {c} /\ UNCHANGED holds
                   /\ faults' = faults + Cost(c, unread) + IF CanRepair(c) /\ c # "PKG" THEN 1 ELSE 0
    /\ faults' <= MaxFaults
    /\ k' = k + 1
    /\ UNCHANGED <<hostVars, mode, repairing, exit, shown, began, runs>>

CheckFirst ==
    /\ mode # "idle" /\ ~InTurn /\ ~repairing
    /\ LET c == Controls[k] IN \E unread \in BOOLEAN :
        /\ MayMiss(c, unread)
        /\ faults' = faults + Cost(c, unread)
        /\ misread' = Missed(c, unread)
        /\ IF unread /\ c \in EndUnread
           THEN Ended("1") /\ UNCHANGED <<k, repairing, status>>
           ELSE /\ status' = [status EXCEPT ![c] = Verdict(c, Good(c, unread))]
                /\ IF k = Len(Controls) THEN k' = 1 /\ repairing' = TRUE ELSE k' = k + 1 /\ UNCHANGED repairing
                /\ UNCHANGED <<mode, exit>>
    /\ faults' <= MaxFaults
    /\ UNCHANGED <<hostVars, holds, shown, unrepaired, began, runs>>

\* macOS repairs everything but FileVault, which it leaves to a person; Windows
\* the firewall and the audit policy in any case, the other two if they failed.
ToRepair(c) ==
    /\ mode = "apply" /\ c # "DISK"
    /\ script = "windows" /\ c \in {"SMB", "AUTH"} => status[c] = "FAIL"

\* A person may decline a change of Windows, and the failure of a native command,
\* auditpol, goes unnoticed in PowerShell.
RepairLater ==
    /\ mode # "idle" /\ repairing /\ k <= Len(Controls)
    /\ LET c == Controls[k] IN
        \/ /\ ~ToRepair(c)
           /\ k' = k + 1
           /\ UNCHANGED <<holds, unrepaired, faults, mode, exit>>
        \/ /\ ToRepair(c)
           /\ holds' = holds \cup {c}
           /\ k' = k + 1
           /\ UNCHANGED <<unrepaired, faults, mode, exit>>
        \/ /\ ToRepair(c) /\ script = "windows"
           /\ unrepaired' = unrepaired \cup {c}
           /\ k' = k + 1
           /\ UNCHANGED <<holds, faults, mode, exit>>
        \/ /\ ToRepair(c) /\ c # "AUDIT"
           /\ faults < MaxFaults /\ faults' = faults + 1
           /\ unrepaired' = unrepaired \cup {c}
           /\ Ended("1")
           /\ UNCHANGED <<holds, k>>
    /\ UNCHANGED <<hostVars, repairing, status, shown, misread, began, runs>>

Finish ==
    /\ mode # "idle" /\ k > Len(Controls)
    /\ shown' = TRUE
    /\ Ended(IF \E c \in ControlSet : status[c] = "FAIL" THEN "1" ELSE "0")
    /\ UNCHANGED <<hostVars, holds, k, repairing, status, misread, unrepaired, began, runs, faults>>

Kill ==
    /\ mode # "idle"
    /\ Ended("killed")
    /\ UNCHANGED <<hostVars, holds, k, repairing, status, shown, misread, unrepaired, began, runs, faults>>

Next ==
    \/ \E m \in {"audit", "plan", "apply", "unknown"} : Start(m)
    \/ CheckInTurn \/ CheckFirst \/ RepairLater \/ Finish \/ Kill

Spec == Init /\ [][Next]_vars
-----------------------------------------------------------------------------
\* The variables keep their types; a key that stands in a comment only is not
\* in force.
TypeOK ==
    /\ script \in Scripts /\ root \in BOOLEAN
    /\ repairing \in BOOLEAN /\ shown \in BOOLEAN
    /\ runs \in 0 .. MaxRuns /\ faults \in 0 .. MaxFaults
    /\ holds \subseteq ControlSet /\ began \subseteq ControlSet
    /\ hidden \subseteq ControlSet \ holds /\ unrepaired \subseteq ControlSet
    /\ missing \subseteq {"PKG", "PATCH"} /\ misread \subseteq ControlSet \ missing
    /\ mode \in {"idle", "audit", "plan", "apply", "unknown"}
    /\ k \in 1 .. Len(Controls) + 1
    /\ status \in [ControlSet -> {"none", "PASS", "FAIL", "PLAN", "SKIP"}]
    /\ exit \in {"none", "0", "1", "2", "killed"}

\* The report of a run that came to its end is true of the host at that end,
\* whatever the repairs of other controls did to it.  A PASS holds unless its own
\* repair did not work, or its check read nothing and takes that for a pass.  A
\* FAIL or SKIP did not hold, at the end or, where all checks come first, before
\* the repairs, unless its check read nothing or has no tool.  Only a run that
\* changed nothing or a Windows apply that broke off has no report.
ReportHolds ==
    exit \in {"0", "1"} =>
        /\ shown \/ holds = began \/ (script = "windows" /\ unrepaired # {})
        /\ \A c \in ControlSet :
            /\ status[c] = "PASS" => c \in holds \cup unrepaired \cup (misread \cap PassUnread)
            /\ status[c] \in {"FAIL", "SKIP"} =>
                  \/ c \notin IF InTurn THEN holds ELSE began
                  \/ c \in misread \cup missing

\* An apply that gets through its list leaves every control in order that its
\* script can repair: no repair undoes another, and none is left out because of
\* what a check took for a pass; but those whose own repair did not work or was
\* declined, and those whose check had no tool or read nothing and passed.
Repairable == IF InTurn THEN Repairs \cap ControlSet ELSE ControlSet \ {"DISK"}
ApplyRepairs ==
    mode = "apply" /\ k > Len(Controls) =>
        Repairable \subseteq holds \cup unrepaired \cup missing \cup (misread \cap PassUnread)
=============================================================================
