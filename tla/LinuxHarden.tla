---------------------------- MODULE LinuxHarden ----------------------------
(***************************************************************************)
(* linux/harden.sh: runs of audit, plan, apply and rollback, one after     *)
(* another, on a host whose firewalls and sshd_config they change.  An     *)
(* apply is a list of commands under `set -e'; each may fail, and the      *)
(* script may be killed between two of them, as the administrator's own    *)
(* connection may be.                                                      *)
(* Definitions marked `mutant' are wrong variants of the definition after  *)
(* them, kept to show that the properties notice the difference.           *)
(***************************************************************************)
EXTENDS Naturals, Sequences

CONSTANTS
    Hosts,      \* the hosts as they are before the first run
    MaxRuns, MaxFaults   \* runs of the script, and commands that fail

Firewalls == {"ufw", "firewalld"}
Managers == {"apt", "dnf", "other"}
Places == {"ufw", "permanent", "live"}
\* A key stands in the file, in a comment, nowhere, or in a last Match block only,
\* there too perhaps in a comment; a file that is included at the top may set it as
\* well.  A file cut off between two lines, or before the first, is accepted by sshd,
\* one torn elsewhere is not.
Keys == {"no", "yes", "comment", "absent", "matched", "match comment"}
Settings == {"root", "empty"}
Files == [root : Keys, empty : Keys, match : BOOLEAN,
          included : [Settings -> {"none", "no", "yes"}],
          state : {"sound", "refused", "torn", "cut"}]

\* A new connection of the administrator is let in.
LetsIn(on, deny, allowed, service) ==
    /\ "ufw" \in on /\ deny => "ufw" \in allowed
    /\ "firewalld" \in on => service = "ssh" \/ "live" \in allowed

\* The administrator who runs the script has been let in by the host as it was.
ASSUME LinuxAssumption ==
    /\ MaxRuns \in Nat /\ MaxFaults \in Nat
    /\ Hosts \subseteq [manager : Managers, on : SUBSET Firewalls, off : SUBSET Firewalls,
                        denies : BOOLEAN, allowed : SUBSET Places,
                        service : {"ssh", "port", "unknown"}, sshd : BOOLEAN, file : BOOLEAN,
                        config : Files, updates : BOOLEAN]
    /\ \A h \in Hosts : h.config.state \in {"sound", "refused"} /\ LetsIn(h.on, h.denies, h.allowed, h.service)

VARIABLES
    site,       \* the member of Hosts
    host,       \* [installed, on (firewalls), deny (ufw's default), allowed (where the
                \*  SSH service is: "ufw", "permanent", "live"), updates (pending),
                \*  config (sshd_config), loaded (by sshd), dirs (the backup
                \*  directories), copies (directory -> the file in it, if any)]
    mode, todo, \* of the current run: its mode, or "idle", and its commands
    dir,        \* the backup directory: the second in which the last apply began
    source,     \* the directory a rollback restores
    failed,     \* a check failed
    exit,       \* how the last run ended
    runs, faults,
    before,     \* history: sshd_config when the last apply began
    same        \* history: two applies began in the same second

runVars == <<dir, source, failed, runs, before, same>>
vars == <<site, host, mode, todo, exit, faults, runVars>>

\* What sshd -t says of a file, and what is left of one by a copy that breaks off.
Accepted(file) == file.state \in {"sound", "cut"}
Empty == [root |-> "absent", empty |-> "absent", match |-> FALSE,
          included |-> [s \in Settings |-> "none"], state |-> "cut"]
Parts(file) == {[file EXCEPT !.state = "torn"], [file EXCEPT !.state = "cut"], Empty}
Broken(file) == file.state \in {"torn", "cut"}

Init ==
    /\ site \in Hosts
    /\ host = [installed |-> site.on \cup site.off, on |-> site.on, deny |-> site.denies,
               allowed |-> site.allowed, updates |-> site.updates, config |-> site.config,
               loaded |-> site.config, dirs |-> {}, copies |-> [t \in 1 .. MaxRuns |-> {}]]
    /\ mode = "idle" /\ todo = <<>> /\ exit = "none"
    /\ dir = 0 /\ source = 0 /\ failed = FALSE
    /\ runs = 0 /\ faults = 0
    /\ before = site.config /\ same = FALSE
-----------------------------------------------------------------------------
\* The checks; ufw and sshd answer only to root.  sshd takes the first value that
\* it reads of a key; its own defaults are prohibit-password and no.
Effective(s) ==
    IF host.config.included[s] # "none" THEN host.config.included[s]
    ELSE IF host.config[s] \in {"no", "yes"} THEN host.config[s]
    ELSE IF s = "root" THEN "prohibit-password" ELSE "no"
InForce(s) == Accepted(host.config) /\ Effective(s) = "no"
FirewallActive(root) ==
    IF "ufw" \in host.installed THEN root /\ "ufw" \in host.on ELSE "firewalld" \in host.on
Failures(root) ==
    \/ ~FirewallActive(root)
    \/ site.sshd /\ ~(root /\ \A s \in Settings : InForce(s))
    \/ host.updates /\ site.manager # "other"

\* The commands of an apply; those for the firewall are chosen when they are
\* reached, after it may have been installed.
Commands_BackupLast == \* mutant
    <<"mkdir", "upgrade", "install", "firewall", "root", "empty", "backup", "test", "reload_sshd">>
Commands ==
    (IF site.manager = "other" THEN <<"mkdir", "firewall">> ELSE <<"mkdir", "upgrade", "install", "firewall">>)
      \o IF site.file THEN <<"backup", "root", "empty", "test", "reload_sshd">> ELSE <<>>

UfwCommands_EnableFirst == <<"ufw_deny", "ufw_enable", "ufw_allow">> \* mutant
UfwCommands == <<"ufw_deny", "ufw_allow", "ufw_enable">>
FirewalldCommands == <<"start", "permit", "reload">>
FirewallCommands ==
    IF "ufw" \in host.installed THEN UfwCommands
    ELSE IF "firewalld" \in host.installed THEN FirewalldCommands
    ELSE <<>>

Ended(code) == mode' = "idle" /\ exit' = code /\ todo' = <<>>
Begin(m, commands) == mode' = m /\ exit' = "none" /\ todo' = commands

\* Plan prints the commands and does none.
Start(m, root) ==
    /\ mode = "idle" /\ runs < MaxRuns
    /\ runs' = runs + 1
    /\ IF m = "apply" /\ ~root
       THEN Ended("2") /\ UNCHANGED <<dir, failed, before, same>>
       ELSE /\ failed' = Failures(root)
            /\ IF m = "apply"
               THEN /\ Begin(m, Commands)
                    /\ before' = host.config
                    /\ dir' \in {dir, dir + 1} \ {0} /\ same' = (same \/ dir' = dir)
               ELSE Begin(m, <<>>) /\ UNCHANGED <<dir, before, same>>
    /\ UNCHANGED <<site, host, faults, source>>

StartRollback(t, root) ==
    /\ mode = "idle" /\ runs < MaxRuns
    /\ runs' = runs + 1
    /\ IF ~root \/ t \notin host.dirs
       THEN Ended("2") /\ UNCHANGED source
       ELSE Begin("rollback", <<"restore", "verify">>) /\ source' = t
    /\ UNCHANGED <<site, host, faults, dir, failed, before, same>>
-----------------------------------------------------------------------------
\* sed sets the key on every line that has it, in a comment too and wherever it
\* stands; a key that is nowhere is appended, into the last Match block if there
\* is one.
Set_ActiveOnly(value, match) == IF value = "yes" THEN "no" ELSE value \* mutant
Set(value, match) ==
    IF value \in {"yes", "comment"} THEN "no"
    ELSE IF value = "match comment" \/ (value = "absent" /\ match) THEN "matched"
    ELSE IF value = "absent" THEN "no"
    ELSE value

Copy(t) == CHOOSE file \in host.copies[t] : TRUE

\* What a command leaves when it succeeds.  firewalld starts with its permanent
\* rules.  Neither name of sshd's service need know of a reload.
Does(c) ==
    CASE c = "mkdir"     -> {[host EXCEPT !.dirs = @ \cup {dir}]}
      [] c = "upgrade"   -> {[host EXCEPT !.updates = FALSE]}
      [] c = "install"   -> {[host EXCEPT !.installed = @ \cup {IF site.manager = "apt" THEN "ufw" ELSE "firewalld"}]}
      [] c = "ufw_deny"  -> {[host EXCEPT !.deny = TRUE]}
      [] c = "ufw_allow" -> {[host EXCEPT !.allowed = @ \cup {"ufw"}]}
      [] c = "ufw_enable" -> {[host EXCEPT !.on = @ \cup {"ufw"}]}
      [] c = "start"     -> {[host EXCEPT !.on = @ \cup {"firewalld"},
                                !.allowed = IF "firewalld" \notin host.on /\ "permanent" \in @ THEN @ \cup {"live"} ELSE @]}
      [] c = "permit"    -> {[host EXCEPT !.allowed = @ \cup {"permanent"}]}
      [] c = "reload"    -> {[host EXCEPT !.allowed = IF "permanent" \in @ THEN @ \cup {"live"} ELSE @ \ {"live"}]}
      [] c = "backup"    -> {[host EXCEPT !.copies[dir] = {host.config}]}
      [] c = "root"      -> {[host EXCEPT !.config.root = Set(@, host.config.match)]}
      [] c = "empty"     -> {[host EXCEPT !.config.empty = Set(@, host.config.match)]}
      [] c = "reload_sshd" -> {host} \cup IF Accepted(host.config) THEN {[host EXCEPT !.loaded = host.config]} ELSE {}
      [] c = "restore"   -> {[host EXCEPT !.config = IF host.copies[source] = {} THEN @ ELSE Copy(source)]}

\* And what it may leave when it fails: half a copy, half an appended line, a
\* firewall that was started.
Leaves(c) ==
    {host} \cup
    IF c = "backup" THEN {[host EXCEPT !.copies[dir] = {part}] : part \in Parts(host.config)}
    ELSE IF c = "restore"
         THEN {[host EXCEPT !.config = part] : part \in IF host.copies[source] = {} THEN {} ELSE Parts(Copy(source))}
    ELSE IF c \in Settings /\ host.config[c] = "absent" THEN {[host EXCEPT !.config.state = "torn"]}
    ELSE IF c = "start" THEN {[host EXCEPT !.on = @ \cup {"firewalld"}]}
    ELSE {}

Special == {"firewall", "test", "verify"}
Command ==
    /\ todo # <<>> /\ Head(todo) \notin Special
    /\ Head(todo) \in {"ufw_allow", "permit"} => site.service # "unknown"
    /\ host' \in Does(Head(todo))
    /\ todo' = Tail(todo)
    /\ UNCHANGED <<site, mode, exit, faults, runVars>>

ChooseFirewall ==
    /\ todo # <<>> /\ Head(todo) = "firewall"
    /\ todo' = FirewallCommands \o Tail(todo)
    /\ UNCHANGED <<site, host, mode, exit, faults, runVars>>

\* A file that sshd refuses is replaced by its backup; so it is without sshd.
TestConfig ==
    /\ todo # <<>> /\ Head(todo) = "test"
    /\ IF Accepted(host.config) /\ site.sshd
       THEN todo' = Tail(todo) /\ UNCHANGED <<host, mode, exit>>
       ELSE Ended("2") /\ host' = [host EXCEPT !.config = Copy(dir)]
    /\ UNCHANGED <<site, faults, runVars>>

\* The end of a rollback, which does not reload sshd.
Verify_Ignored == todo = <<"verify">> /\ Ended("0") /\ UNCHANGED <<site, host, faults, runVars>> \* mutant
Verify ==
    /\ todo = <<"verify">>
    /\ Ended(IF Accepted(host.config) /\ site.sshd THEN "0" ELSE "255")
    /\ UNCHANGED <<site, host, faults, runVars>>

\* The exit code tells of the checks made before anything was changed.
Finish ==
    /\ mode # "idle" /\ todo = <<>>
    /\ Ended(IF failed THEN "1" ELSE "0")
    /\ UNCHANGED <<site, host, faults, runVars>>

\* The failure of a command ends the run; a service unknown to the firewall
\* needs no fault.
CommandFails ==
    /\ todo # <<>> /\ Head(todo) \notin Special \cup {"reload_sshd"}
    /\ IF Head(todo) \in {"ufw_allow", "permit"} /\ site.service = "unknown"
       THEN UNCHANGED <<host, faults>>
       ELSE faults < MaxFaults /\ faults' = faults + 1 /\ host' \in Leaves(Head(todo))
    /\ Ended("1")
    /\ UNCHANGED <<site, runVars>>
RestoreFails ==
    /\ todo # <<>> /\ Head(todo) = "test"
    /\ ~(Accepted(host.config) /\ site.sshd)
    /\ faults < MaxFaults /\ faults' = faults + 1
    /\ \E part \in Parts(Copy(dir)) : host' = [host EXCEPT !.config = part]
    /\ Ended("1")
    /\ UNCHANGED <<site, runVars>>

Kill ==
    /\ mode # "idle"
    /\ Ended("killed")
    /\ UNCHANGED <<site, host, faults, runVars>>

Next ==
    \/ \E m \in {"audit", "plan", "apply"}, root \in BOOLEAN : Start(m, root)
    \/ \E t \in 1 .. MaxRuns, root \in BOOLEAN : StartRollback(t, root)
    \/ Command \/ ChooseFirewall \/ TestConfig \/ Verify \/ Finish
    \/ CommandFails \/ RestoreFails \/ Kill

Spec == Init /\ [][Next]_vars
-----------------------------------------------------------------------------
\* The variables keep their types; a part of a file is only ever left by a fault.
CommandNames == {"mkdir", "upgrade", "install", "firewall", "ufw_deny", "ufw_allow", "ufw_enable",
                 "start", "permit", "reload", "backup", "root", "empty", "test", "reload_sshd",
                 "restore", "verify"}
HostType == [installed : SUBSET Firewalls, on : SUBSET Firewalls, deny : BOOLEAN,
             allowed : SUBSET Places, updates : BOOLEAN, config : Files, loaded : Files,
             dirs : SUBSET (1 .. MaxRuns), copies : [1 .. MaxRuns -> SUBSET Files]]
TypeOK ==
    /\ site \in Hosts
    /\ host \in HostType
    /\ host.on \subseteq host.installed
    /\ mode \in {"idle", "audit", "plan", "apply", "rollback"}
    /\ todo \in Seq(CommandNames)
    /\ runs \in 0 .. MaxRuns /\ faults \in 0 .. MaxFaults
    /\ dir \in 0 .. runs /\ source \in 0 .. dir
    /\ failed \in BOOLEAN /\ same \in BOOLEAN /\ before \in Files
    /\ exit \in {"none", "0", "1", "2", "255", "killed"}
    /\ host.loaded.state # "torn"
    /\ Broken(host.config) => faults > 0

Admitted == LetsIn(host.on, host.deny, host.allowed, site.service)

\* Wherever an apply fails or is killed, and however often it is run, it shuts
\* the administrator out only in the two places where the order of its commands
\* allows it: between the start of firewalld and its new rules, for a service
\* other than ssh, and when a ufw that let everything in is made to deny.
ShutOutOnlyThere ==
    ~Admitted =>
        \/ "firewalld" \in host.on \ site.on /\ site.service # "ssh"
        \/ "ufw" \in site.on /\ ~site.denies

\* The administrator's own sshd_config is never lost: whatever the runs did and
\* wherever they broke off, it is in place or whole in a backup; except that
\* two applies in a second share a directory, and that a part of a backup can be
\* restored over it.
OriginalKept ==
    \/ host.config = site.config
    \/ \E t \in host.dirs : host.copies[t] = {site.config}
    \/ same
    \/ \E t \in host.dirs : \E file \in host.copies[t] : Broken(file)

\* An apply that is not cut short leaves the way in open and has each setting in
\* force in a file that sshd accepts, unless an included file sets it to yes, or no
\* line of it stands before the last Match block; and what its checks found in
\* order still is, so that exit code 0 is true.
ApplyHardens ==
    mode = "apply" /\ todo = <<>> =>
        /\ Admitted
        /\ site.file => \A s \in Settings :
              \/ InForce(s)
              \/ Accepted(host.config) /\ host.config.included[s] = "yes"
              \/ Accepted(host.config) /\ host.config[s] = "matched"
        /\ ~failed => ~Failures(TRUE)

\* When the script says that the old sshd_config is back, it is: after an apply
\* whose edits sshd refused, and after a rollback that reports success, if the last
\* apply came as far as its backup; unless that apply failed while it copied, and
\* sshd accepts the part of the file that was copied.
RestoredIsTrue ==
    [][\/ mode = "apply" /\ exit' = "2"
       \/ mode = "rollback" /\ exit' = "0" /\ source = dir /\ host.copies[source] # {} /\ ~same
       => \/ host'.config = before
          \/ mode = "rollback" /\ Copy(source).state = "cut"]_vars
=============================================================================
