-------------------------- MODULE LinuxHardenProofs --------------------------
(***************************************************************************)
(* Proofs about LinuxHarden for every host that lets its administrator in, *)
(* and for any number of runs and of commands that fail.  The invariant    *)
(* says what is true of the host once a command of the current apply has   *)
(* been done: it is no longer among those to do.                           *)
(***************************************************************************)
EXTENDS LinuxHarden, TLAPS

\* The commands still to do, and the order in which an apply or a rollback does
\* its commands.
Pending(s) == {s[i] : i \in 1 .. Len(s)}
ApplyCommands == CommandNames \ {"restore", "verify"}
Rank(c) ==
    CASE c = "mkdir" -> 1
      [] c = "upgrade" -> 2
      [] c = "install" -> 3
      [] c = "firewall" -> 4
      [] c \in {"ufw_deny", "start"} -> 5
      [] c \in {"ufw_allow", "permit"} -> 6
      [] c \in {"ufw_enable", "reload"} -> 7
      [] c = "backup" -> 8
      [] c = "root" -> 9
      [] c = "empty" -> 10
      [] c = "test" -> 11
      [] c = "reload_sshd" -> 12
      [] c = "restore" -> 13
      [] OTHER -> 14
InOrder(s) == \A i, j \in 1 .. Len(s) : i < j => Rank(s[i]) < Rank(s[j])

\* A run that is not at work has nothing to do; a rollback ends with its test;
\* before a command of an apply comes what its commands depend on.
Done(c) == c \notin Pending(todo)
TodoInv ==
    /\ InOrder(todo)
    /\ mode \in {"idle", "audit", "plan"} => todo = <<>>
    /\ mode # "idle" => exit = "none"
    /\ mode = "rollback" => Pending(todo) \subseteq {"restore", "verify"} /\ ~Done("verify")
    /\ mode = "apply" =>
        /\ Pending(todo) \subseteq ApplyCommands
        /\ \A c \in Pending(todo) : Rank(c) > 7 => site.file
        /\ Done("firewall") => Done("mkdir") /\ Done("install")
        /\ ~Done("firewall") => \A c \in Pending(todo) : Rank(c) \notin 5 .. 7
        /\ Done("install") /\ site.manager = "apt" => "ufw" \in host.installed

\* Once a firewall has been chosen, its commands that are no longer to be done
\* have been done.
FirewallInv ==
    /\ "ufw" \in host.on \ site.on => "ufw" \in host.allowed
    /\ "ufw" \in site.allowed => "ufw" \in host.allowed
    /\ "ufw" \in site.on => (site.denies => host.deny)
    /\ "firewalld" \in site.on /\ site.service # "ssh" => "live" \in host.allowed
    /\ "firewalld" \in host.on \ site.on => "ufw" \notin host.installed /\ site.manager # "apt"
    /\ "ufw" \in host.installed => site.manager = "apt" \/ "ufw" \in site.on \cup site.off
    /\ site.on \cup site.off \subseteq host.installed
    /\ mode = "apply" /\ Done("firewall") =>
        /\ "ufw" \in host.installed =>
            /\ Done("start") /\ Done("permit") /\ Done("reload")
            /\ Done("ufw_allow") => "ufw" \in host.allowed
            /\ Done("ufw_enable") => "ufw" \in host.on /\ Done("ufw_allow")
        /\ "ufw" \notin host.installed =>
            /\ Done("ufw_deny") /\ Done("ufw_allow") /\ Done("ufw_enable")
            /\ "firewalld" \in host.installed =>
                /\ Done("start") => "firewalld" \in host.on
                /\ Done("permit") => "permanent" \in host.allowed
                /\ Done("reload") => "live" \in host.allowed /\ Done("permit") /\ Done("start")
            /\ "firewalld" \notin host.installed => Done("start") /\ Done("permit") /\ Done("reload")

\* A copy of the administrator's own file stands somewhere, unless a backup broke
\* off or two applies shared a directory.
Kept ==
    \/ \E t \in host.dirs : host.copies[t] = {site.config}
    \/ same
    \/ \E t \in host.dirs : \E file \in host.copies[t] : Broken(file)
BackupInv ==
    /\ host.config = site.config \/ Kept
    /\ \A t \in 1 .. MaxRuns : host.copies[t] # {} => Kept /\ t \in host.dirs
    /\ \A t \in host.dirs : t <= dir
    /\ \A t \in 1 .. MaxRuns : \A file \in host.copies[t] : Broken(file) => faults > 0
    /\ dir > 0 /\ host.copies[dir] # {} /\ ~same =>
            host.copies[dir] = {before} \/ \A file \in host.copies[dir] : Broken(file)
    /\ mode = "rollback" => source \in host.dirs
    /\ mode = "rollback" /\ Done("restore") /\ host.copies[source] # {} => host.config = Copy(source)

\* What an apply has made of sshd_config, and of its backup.
ConfigInv ==
    mode = "apply" =>
        /\ dir > 0
        /\ Done("mkdir") => dir \in host.dirs
        /\ ~Done("backup") => host.config = before /\ (same \/ host.copies[dir] = {})
        /\ ~Done("backup") => ~Done("root") /\ ~Done("empty") /\ ~Done("test")
        /\ site.file /\ Done("backup") => host.copies[dir] = {before}
        /\ site.file /\ Done("root") => host.config.root \in {"no", "matched"}
        /\ site.file /\ Done("empty") => host.config.empty \in {"no", "matched"}
        /\ site.file /\ Done("test") => Accepted(host.config) /\ Done("root") /\ Done("empty")

\* What the checks of an apply found in order, it keeps.
ChecksInv ==
    mode = "apply" /\ ~failed =>
        /\ host.updates => site.manager = "other"
        /\ site.sshd => \A s \in Settings : InForce(s)
        /\ "ufw" \notin host.installed => "firewalld" \in host.on

IInv == TypeOK /\ TodoInv /\ FirewallInv /\ BackupInv /\ ConfigInv /\ ChecksInv
-----------------------------------------------------------------------------
LEMMA RankValues ==
  /\ Rank("mkdir") = 1 /\ Rank("upgrade") = 2 /\ Rank("install") = 3 /\ Rank("firewall") = 4
  /\ Rank("ufw_deny") = 5 /\ Rank("start") = 5 /\ Rank("ufw_allow") = 6 /\ Rank("permit") = 6
  /\ Rank("ufw_enable") = 7 /\ Rank("reload") = 7 /\ Rank("backup") = 8 /\ Rank("root") = 9
  /\ Rank("empty") = 10 /\ Rank("test") = 11 /\ Rank("reload_sshd") = 12 /\ Rank("restore") = 13
  /\ Rank("verify") = 14
  BY DEF Rank

LEMMA RankType == \A c \in CommandNames : Rank(c) \in 1 .. 14
  BY RankValues DEF CommandNames

LEMMA RankLess == \A c, d \in CommandNames : Rank(c) < Rank(d) => c # d /\ ~(Rank(d) < Rank(c))
  BY RankType

\* What the commands that copy may leave when they fail.
LEMMA LeavesBackup ==
  ASSUME NEW x \in Leaves("backup")
  PROVE  x = host \/ \E part \in Parts(host.config) : x = [host EXCEPT !.copies[dir] = {part}]
  BY DEF Leaves

LEMMA LeavesRestore ==
  ASSUME NEW x \in Leaves("restore"), x # host
  PROVE  /\ host.copies[source] # {}
         /\ \E part \in Parts(Copy(source)) : x = [host EXCEPT !.config = part]
  BY DEF Leaves

\* Doing the first command leaves those that come after it.
LEMMA TailPending ==
  ASSUME NEW s \in Seq(CommandNames), s # <<>>, InOrder(s)
  PROVE  /\ Tail(s) \in Seq(CommandNames) /\ InOrder(Tail(s))
         /\ Head(s) \in Pending(s) /\ Head(s) \in CommandNames
         /\ Pending(Tail(s)) = Pending(s) \ {Head(s)}
         /\ \A c \in Pending(Tail(s)) : Rank(Head(s)) < Rank(c)
  <1>1. /\ Len(s) \in Nat /\ Len(s) >= 1 /\ Head(s) = s[1] /\ Tail(s) \in Seq(CommandNames)
        /\ Len(Tail(s)) = Len(s) - 1
        /\ \A i \in 1 .. Len(s) - 1 : Tail(s)[i] = s[i + 1]
        /\ \A i \in 1 .. Len(s) : s[i] \in CommandNames
    OBVIOUS
  <1>2. InOrder(Tail(s))
    BY <1>1 DEF InOrder
  <1>3. \A i \in 2 .. Len(s) : Rank(s[1]) < Rank(s[i]) /\ s[1] # s[i]
    BY <1>1, RankLess DEF InOrder
  <1>4. \A c \in Pending(Tail(s)) : \E i \in 2 .. Len(s) : c = s[i]
    BY <1>1 DEF Pending
  <1>5. \A i \in 2 .. Len(s) : s[i] \in Pending(Tail(s))
    <2> TAKE i \in 2 .. Len(s)
    <2>1. i - 1 \in 1 .. Len(Tail(s)) /\ Tail(s)[i - 1] = s[i]
      BY <1>1
    <2> QED BY <2>1 DEF Pending
  <1>6. \A c \in Pending(s) : c = s[1] \/ \E i \in 2 .. Len(s) : c = s[i]
    BY <1>1 DEF Pending
  <1>7. \A i \in 1 .. Len(s) : s[i] \in Pending(s)
    BY DEF Pending
  <1> QED BY <1>1, <1>2, <1>3, <1>4, <1>5, <1>6, <1>7

\* Two lists in order, the first before the second, are a list in order.
LEMMA ConcatPending ==
  ASSUME NEW s \in Seq(CommandNames), NEW t \in Seq(CommandNames), InOrder(s), InOrder(t),
         \A c \in Pending(s), d \in Pending(t) : Rank(c) < Rank(d)
  PROVE  /\ s \o t \in Seq(CommandNames) /\ InOrder(s \o t)
         /\ Pending(s \o t) = Pending(s) \cup Pending(t)
  <1> DEFINE st == s \o t
  <1>1. /\ st \in Seq(CommandNames) /\ Len(st) = Len(s) + Len(t)
        /\ Len(s) \in Nat /\ Len(t) \in Nat
        /\ \A i \in 1 .. Len(s) : st[i] = s[i]
        /\ \A i \in 1 .. Len(t) : st[Len(s) + i] = t[i]
    OBVIOUS
  <1> HIDE DEF st
  <1>2. \A i \in 1 .. Len(st) : i \in 1 .. Len(s) \/ (i - Len(s) \in 1 .. Len(t) /\ st[i] = t[i - Len(s)])
    <2> TAKE i \in 1 .. Len(st)
    <2>1. i \notin 1 .. Len(s) => i - Len(s) \in 1 .. Len(t) /\ Len(s) + (i - Len(s)) = i
      BY <1>1
    <2> QED BY <1>1, <2>1
  <1>3. Pending(st) = Pending(s) \cup Pending(t)
    <2>1. Pending(st) \subseteq Pending(s) \cup Pending(t)
      <3>1. ASSUME NEW i \in 1 .. Len(st) PROVE st[i] \in Pending(s) \cup Pending(t)
        <4>1. CASE i \in 1 .. Len(s)
          BY <1>1, <4>1 DEF Pending
        <4>2. CASE i \notin 1 .. Len(s)
          <5>1. i - Len(s) \in 1 .. Len(t) /\ st[i] = t[i - Len(s)]
            BY <1>2, <4>2
          <5> QED BY <5>1 DEF Pending
        <4> QED BY <4>1, <4>2
      <3> QED BY <3>1 DEF Pending
    <2>2. \A i \in 1 .. Len(t) : Len(s) + i \in 1 .. Len(st)
      BY <1>1
    <2>3. \A i \in 1 .. Len(s) : i \in 1 .. Len(st)
      BY <1>1
    <2>4. Pending(s) \cup Pending(t) \subseteq Pending(st)
      BY <1>1, <2>2, <2>3 DEF Pending
    <2> QED BY <2>1, <2>4
  <1>4. InOrder(st)
    <2> SUFFICES ASSUME NEW i \in 1 .. Len(st), NEW j \in 1 .. Len(st), i < j
                 PROVE  Rank(st[i]) < Rank(st[j])
      BY DEF InOrder
    <2>1. CASE i \in 1 .. Len(s) /\ j \in 1 .. Len(s)
      BY <1>1, <2>1 DEF InOrder
    <2>2. CASE i \in 1 .. Len(s) /\ j \notin 1 .. Len(s)
      <3>1. st[i] \in Pending(s) /\ st[j] \in Pending(t)
        BY <1>1, <1>2, <2>2 DEF Pending
      <3> QED BY <3>1
    <2>3. CASE i \notin 1 .. Len(s)
      <3>1. /\ i - Len(s) \in 1 .. Len(t) /\ j - Len(s) \in 1 .. Len(t) /\ i - Len(s) < j - Len(s)
            /\ st[i] = t[i - Len(s)] /\ st[j] = t[j - Len(s)]
        BY <1>1, <1>2, <2>3
      <3> QED BY <3>1 DEF InOrder
    <2> QED BY <2>1, <2>2, <2>3
  <1> QED BY <1>1, <1>3, <1>4 DEF st

\* The lists a run begins with, and those that take the place of "firewall".
LEMMA FirewallLists ==
  /\ UfwCommands \in Seq(CommandNames) /\ FirewalldCommands \in Seq(CommandNames)
  /\ InOrder(UfwCommands) /\ InOrder(FirewalldCommands)
  /\ Pending(UfwCommands) = {"ufw_deny", "ufw_allow", "ufw_enable"}
  /\ Pending(FirewalldCommands) = {"start", "permit", "reload"}
  <1>1. /\ UfwCommands \in Seq(CommandNames) /\ InOrder(UfwCommands)
        /\ Pending(UfwCommands) = {"ufw_deny", "ufw_allow", "ufw_enable"}
    <2>1. /\ UfwCommands \in Seq(CommandNames) /\ Len(UfwCommands) = 3
          /\ UfwCommands[1] = "ufw_deny" /\ UfwCommands[2] = "ufw_allow" /\ UfwCommands[3] = "ufw_enable"
      BY DEF CommandNames, UfwCommands
    <2>2. 1 .. 3 = {1, 2, 3}
      OBVIOUS
    <2> HIDE DEF UfwCommands
    <2>3. InOrder(UfwCommands)
      BY <2>1, <2>2, RankValues DEF InOrder
    <2>4. Pending(UfwCommands) = {"ufw_deny", "ufw_allow", "ufw_enable"}
      BY <2>1, <2>2 DEF Pending
    <2> QED BY <2>1, <2>3, <2>4
  <1>2. /\ FirewalldCommands \in Seq(CommandNames) /\ InOrder(FirewalldCommands)
        /\ Pending(FirewalldCommands) = {"start", "permit", "reload"}
    <2>1. /\ FirewalldCommands \in Seq(CommandNames) /\ Len(FirewalldCommands) = 3
          /\ FirewalldCommands[1] = "start" /\ FirewalldCommands[2] = "permit" /\ FirewalldCommands[3] = "reload"
      BY DEF CommandNames, FirewalldCommands
    <2>2. 1 .. 3 = {1, 2, 3}
      OBVIOUS
    <2> HIDE DEF FirewalldCommands
    <2>3. InOrder(FirewalldCommands)
      BY <2>1, <2>2, RankValues DEF InOrder
    <2>4. Pending(FirewalldCommands) = {"start", "permit", "reload"}
      BY <2>1, <2>2 DEF Pending
    <2> QED BY <2>1, <2>3, <2>4
  <1> QED BY <1>1, <1>2

LEMMA EmptyList == <<>> \in Seq(CommandNames) /\ InOrder(<<>>) /\ Pending(<<>>) = {}
  BY DEF InOrder, Pending

RollbackCommands == <<"restore", "verify">>
LEMMA RollbackList ==
  /\ RollbackCommands \in Seq(CommandNames) /\ InOrder(RollbackCommands)
  /\ Pending(RollbackCommands) = {"restore", "verify"}
  <1>1. /\ RollbackCommands \in Seq(CommandNames) /\ Len(RollbackCommands) = 2
        /\ RollbackCommands[1] = "restore" /\ RollbackCommands[2] = "verify"
    BY DEF CommandNames, RollbackCommands
  <1>2. 1 .. 2 = {1, 2}
    OBVIOUS
  <1> HIDE DEF RollbackCommands
  <1>3. InOrder(RollbackCommands)
    BY <1>1, <1>2, RankValues DEF InOrder
  <1>4. Pending(RollbackCommands) = {"restore", "verify"}
    BY <1>1, <1>2 DEF Pending
  <1> QED BY <1>1, <1>3, <1>4

LEMMA CommandsList ==
  ASSUME site.file \in BOOLEAN
  PROVE  /\ Commands \in Seq(CommandNames) /\ InOrder(Commands)
         /\ Pending(Commands) = {"mkdir", "firewall"}
                \cup (IF site.manager = "other" THEN {} ELSE {"upgrade", "install"})
                \cup (IF site.file THEN {"backup", "root", "empty", "test", "reload_sshd"} ELSE {})
  <1> DEFINE short == <<"mkdir", "firewall">>
             long == <<"mkdir", "upgrade", "install", "firewall">>
             edits == <<"backup", "root", "empty", "test", "reload_sshd">>
             first == IF site.manager = "other" THEN short ELSE long
             last == IF site.file THEN edits ELSE <<>>
  <1>1. short \in Seq(CommandNames) /\ InOrder(short) /\ Pending(short) = {"mkdir", "firewall"}
    <2>1. /\ short \in Seq(CommandNames) /\ Len(short) = 2
          /\ short[1] = "mkdir" /\ short[2] = "firewall"
      BY DEF CommandNames, short
    <2>2. 1 .. 2 = {1, 2}
      OBVIOUS
    <2> HIDE DEF short
    <2>3. InOrder(short)
      BY <2>1, <2>2, RankValues DEF InOrder
    <2>4. Pending(short) = {"mkdir", "firewall"}
      BY <2>1, <2>2 DEF Pending
    <2> QED BY <2>1, <2>3, <2>4
  <1>2. /\ long \in Seq(CommandNames) /\ InOrder(long)
        /\ Pending(long) = {"mkdir", "upgrade", "install", "firewall"}
    <2>1. /\ long \in Seq(CommandNames) /\ Len(long) = 4
          /\ long[1] = "mkdir" /\ long[2] = "upgrade" /\ long[3] = "install" /\ long[4] = "firewall"
      BY DEF CommandNames, long
    <2>2. 1 .. 4 = {1, 2, 3, 4}
      OBVIOUS
    <2> HIDE DEF long
    <2>3. InOrder(long)
      BY <2>1, <2>2, RankValues DEF InOrder
    <2>4. Pending(long) = {"mkdir", "upgrade", "install", "firewall"}
      BY <2>1, <2>2 DEF Pending
    <2> QED BY <2>1, <2>3, <2>4
  <1>3. /\ edits \in Seq(CommandNames) /\ InOrder(edits)
        /\ Pending(edits) = {"backup", "root", "empty", "test", "reload_sshd"}
    <2>1. /\ edits \in Seq(CommandNames) /\ Len(edits) = 5
          /\ edits[1] = "backup" /\ edits[2] = "root" /\ edits[3] = "empty" /\ edits[4] = "test" /\ edits[5] = "reload_sshd"
      BY DEF CommandNames, edits
    <2>2. 1 .. 5 = {1, 2, 3, 4, 5}
      OBVIOUS
    <2> HIDE DEF edits
    <2>3. InOrder(edits)
      BY <2>1, <2>2, RankValues DEF InOrder
    <2>4. Pending(edits) = {"backup", "root", "empty", "test", "reload_sshd"}
      BY <2>1, <2>2 DEF Pending
    <2> QED BY <2>1, <2>3, <2>4
  <1> HIDE DEF short, long, edits
  <1>4. /\ first \in Seq(CommandNames) /\ InOrder(first)
        /\ Pending(first) = {"mkdir", "firewall"} \cup (IF site.manager = "other" THEN {} ELSE {"upgrade", "install"})
    BY <1>1, <1>2
  <1>5. /\ last \in Seq(CommandNames) /\ InOrder(last)
        /\ Pending(last) = IF site.file THEN {"backup", "root", "empty", "test", "reload_sshd"} ELSE {}
    BY <1>3, EmptyList
  <1>6. \A c \in Pending(first), d \in Pending(last) : Rank(c) < Rank(d)
    <2>1. \A c \in Pending(first) : Rank(c) \in 1 .. 4
      BY <1>4, RankValues
    <2>2. \A d \in Pending(last) : Rank(d) \in 8 .. 12
      BY <1>5, RankValues
    <2> QED BY <2>1, <2>2
  <1>7. Commands = first \o last
    BY DEF Commands, short, long, edits
  <1> HIDE DEF first, last
  <1> QED BY <1>4, <1>5, <1>6, <1>7, ConcatPending
-----------------------------------------------------------------------------
\* A command that is done leaves the list; whatever comes before it was done.
LEMMA TailDone ==
  ASSUME TypeOK, TodoInv, todo # <<>>, todo' = Tail(todo)
  PROVE  /\ todo' \in Seq(CommandNames) /\ InOrder(todo')
         /\ Head(todo) \in Pending(todo) /\ Head(todo) \in CommandNames
         /\ Pending(todo') = Pending(todo) \ {Head(todo)}
         /\ \A c \in Pending(todo') : Rank(Head(todo)) < Rank(c)
  BY TailPending DEF TypeOK, TodoInv

\* What the commands leave alone: some change the firewalls, the others
\* sshd_config and its backups.
ForFirewall == {"install", "ufw_deny", "ufw_allow", "ufw_enable", "start", "permit", "reload"}
ForConfig == {"mkdir", "backup", "root", "empty", "restore"}
LEMMA Frames ==
  ASSUME TypeOK, TodoInv, Command
  PROVE  /\ Head(todo) \notin ForFirewall =>
                /\ host'.installed = host.installed /\ host'.on = host.on
                /\ host'.deny = host.deny /\ host'.allowed = host.allowed
         /\ Head(todo) \notin ForConfig =>
                host'.config = host.config /\ host'.dirs = host.dirs /\ host'.copies = host.copies
         /\ Head(todo) # "upgrade" => host'.updates = host.updates
         /\ Head(todo) # "reload_sshd" => host'.loaded = host.loaded
  <1> DEFINE c == Head(todo)
  <1>1. c \in CommandNames \ Special /\ host' \in Does(c)
    BY TailDone DEF Command
  <1>2. CASE c \in ForFirewall
    BY <1>1, <1>2 DEF ForFirewall, ForConfig, Does, TypeOK, HostType
  <1>3. CASE c \in ForConfig
    BY <1>1, <1>3 DEF ForFirewall, ForConfig, Does, TypeOK, HostType
  <1>4. CASE c \in {"upgrade", "reload_sshd"}
    BY <1>1, <1>4 DEF ForFirewall, ForConfig, Does, TypeOK, HostType
  <1> QED BY <1>1, <1>2, <1>3, <1>4 DEF CommandNames, Special, ForFirewall, ForConfig

LEMMA CopyIn == ASSUME NEW t, host.copies[t] # {} PROVE Copy(t) \in host.copies[t]
  BY DEF Copy

\* A command needs what comes before it: a backup its directory, sshd_config its
\* backup, a firewall its installation.
LEMMA Prepared ==
  ASSUME TypeOK, TodoInv, FirewallInv, BackupInv, ConfigInv, todo # <<>>
  PROVE  /\ Head(todo) \in {"backup", "root", "empty", "test", "mkdir"} => mode = "apply" /\ dir \in 1 .. MaxRuns
         /\ Head(todo) \in {"backup", "root", "empty", "test"} => dir \in host.dirs
         /\ Head(todo) \in {"root", "empty", "test"} => host.copies[dir] = {before}
         /\ Head(todo) = "ufw_enable" => "ufw" \in host.installed /\ "ufw" \in host.allowed
         /\ Head(todo) = "start" => /\ "firewalld" \in host.installed /\ "ufw" \notin host.installed
                                    /\ site.manager # "apt"
         /\ Head(todo) = "reload" => "permanent" \in host.allowed
         /\ Head(todo) \in {"restore", "verify"} => mode = "rollback" /\ source \in 1 .. MaxRuns
  <1> DEFINE c == Head(todo)
  <1>1. /\ c \in Pending(todo) /\ c \in CommandNames
        /\ \A d \in Pending(todo) : d = c \/ Rank(c) < Rank(d)
    BY TailPending DEF TypeOK, TodoInv
  <1>2. mode \in {"apply", "rollback"} /\ (mode = "apply" <=> c \notin {"restore", "verify"})
    BY <1>1 DEF TypeOK, TodoInv, ApplyCommands
  <1>3. \A d \in CommandNames : Rank(d) < Rank(c) => Done(d)
    BY <1>1, RankType DEF Done
  <1>4. dir \in 0 .. MaxRuns
    BY LinuxAssumption DEF TypeOK
  <1>5. CASE c \in {"backup", "root", "empty", "test", "mkdir"}
    <2>1. mode = "apply" /\ dir \in 1 .. MaxRuns
      BY <1>2, <1>4, <1>5 DEF ConfigInv
    <2>2. c # "mkdir" => Done("mkdir") /\ site.file
      BY <1>1, <1>3, <1>5, <2>1, RankValues DEF CommandNames, TodoInv
    <2>3. c \in {"root", "empty", "test"} => Done("backup")
      BY <1>3, RankValues DEF CommandNames
    <2> QED BY <1>5, <2>1, <2>2, <2>3 DEF ConfigInv
  <1>6. CASE c \in {"ufw_enable", "start", "reload"}
    <2>1. mode = "apply" /\ ~Done(c)
      BY <1>1, <1>2, <1>6 DEF Done
    <2>2. Done("firewall") /\ Done("install")
      BY <1>3, <1>6, RankValues DEF CommandNames
    <2>3. c = "ufw_enable" => Done("ufw_allow")
      BY <1>3, RankValues DEF CommandNames
    <2>4. c = "reload" => Done("permit")
      BY <1>3, RankValues DEF CommandNames
    <2> QED BY <1>6, <2>1, <2>2, <2>3, <2>4 DEF FirewallInv, TodoInv
  <1>7. CASE c \in {"restore", "verify"}
    BY <1>2, <1>7 DEF BackupInv, TypeOK, HostType
  <1> QED BY <1>5, <1>6, <1>7
-----------------------------------------------------------------------------
\* What is left of a file by a copy that breaks off.
LEMMA PartsAre == \A file \in Files : \A part \in Parts(file) : part \in Files /\ Broken(part)
  <1> SUFFICES ASSUME NEW file \in Files, NEW part \in Parts(file) PROVE part \in Files /\ Broken(part)
    OBVIOUS
  <1>1. CASE part = [file EXCEPT !.state = "torn"] \/ part = [file EXCEPT !.state = "cut"]
    BY <1>1 DEF Files, Broken
  <1>2. CASE part = Empty
    BY <1>2 DEF Empty, Files, Keys, Broken
  <1> QED BY <1>1, <1>2 DEF Parts

LEMMA InitInv == Init => IInv
  <1> SUFFICES ASSUME Init PROVE IInv
    OBVIOUS
  <1>1. /\ site \in Hosts /\ site.config.state # "torn" /\ ~Broken(site.config)
        /\ site.on \subseteq Firewalls /\ site.off \subseteq Firewalls /\ site.denies \in BOOLEAN
        /\ site.allowed \subseteq Places /\ site.config \in Files /\ site.updates \in BOOLEAN
        /\ LetsIn(site.on, site.denies, site.allowed, site.service)
        /\ MaxRuns \in Nat /\ MaxFaults \in Nat
    BY LinuxAssumption DEF Init, Broken
  <1>2. [t \in 1 .. MaxRuns |-> {}] \in [1 .. MaxRuns -> SUBSET Files]
    OBVIOUS
  <1>3. TypeOK
    <2>1. host \in HostType /\ host.on \subseteq host.installed
      BY <1>1, <1>2 DEF Init, HostType
    <2>2. 0 \in 0 .. MaxRuns /\ 0 \in 0 .. MaxFaults
      BY <1>1
    <2>3. /\ host.loaded.state # "torn" /\ ~Broken(host.config)
          /\ dir \in 0 .. runs /\ source \in 0 .. dir /\ before \in Files
      BY <1>1 DEF Init
    <2> QED BY <1>1, <2>1, <2>2, <2>3, EmptyList DEF Init, TypeOK
  <1>4. TodoInv /\ ConfigInv /\ ChecksInv
    BY EmptyList DEF Init, TodoInv, ConfigInv, ChecksInv
  <1>5. FirewallInv
    BY <1>1 DEF Init, FirewallInv, LetsIn
  <1>6. BackupInv
    BY <1>1, <1>2 DEF Init, BackupInv
  <1> QED BY <1>3, <1>4, <1>5, <1>6 DEF IInv

LEMMA SetType == \A value \in Keys : \A match : Set(value, match) \in Keys
  BY DEF Set, Keys

\* A host stays a host when a field takes a value of its kind.
LEMMA HostUpdates ==
  ASSUME host \in HostType
  PROVE  /\ \A v \in SUBSET Firewalls : [host EXCEPT !.installed = v] \in HostType /\ [host EXCEPT !.on = v] \in HostType
         /\ \A v \in BOOLEAN : [host EXCEPT !.deny = v] \in HostType /\ [host EXCEPT !.updates = v] \in HostType
         /\ \A v \in SUBSET Places : [host EXCEPT !.allowed = v] \in HostType
         /\ \A v \in SUBSET Firewalls, w \in SUBSET Places :
                [host EXCEPT !.on = v, !.allowed = w] \in HostType
         /\ \A v \in SUBSET (1 .. MaxRuns) : [host EXCEPT !.dirs = v] \in HostType
         /\ host.installed \in SUBSET Firewalls /\ host.on \in SUBSET Firewalls
         /\ host.allowed \in SUBSET Places /\ host.dirs \in SUBSET (1 .. MaxRuns)
  <1> DEFINE FF == SUBSET Firewalls
             PP == SUBSET Places
             DD == SUBSET (1 .. MaxRuns)
             CC == [1 .. MaxRuns -> SUBSET Files]
             HH == [installed : FF, on : FF, deny : BOOLEAN, allowed : PP, updates : BOOLEAN,
                    config : Files, loaded : Files, dirs : DD, copies : CC]
  <1>1. host \in HH /\ HH = HostType
    BY DEF HostType
  <1> HIDE DEF FF, PP, DD, CC
  <1>2. /\ \A v \in FF : [host EXCEPT !.installed = v] \in HH /\ [host EXCEPT !.on = v] \in HH
        /\ \A v \in BOOLEAN : [host EXCEPT !.deny = v] \in HH /\ [host EXCEPT !.updates = v] \in HH
        /\ \A v \in PP : [host EXCEPT !.allowed = v] \in HH
        /\ \A v \in FF, w \in PP : [host EXCEPT !.on = v, !.allowed = w] \in HH
        /\ \A v \in DD : [host EXCEPT !.dirs = v] \in HH
        /\ host.installed \in FF /\ host.on \in FF /\ host.allowed \in PP /\ host.dirs \in DD
    BY <1>1
  <1> HIDE DEF HH
  <1> QED BY <1>1, <1>2 DEF FF, PP, DD

LEMMA TypeStep ==
  ASSUME IInv, Next
  PROVE  TypeOK'
  <1> USE LinuxAssumption
  <1>0. TypeOK /\ TodoInv /\ FirewallInv /\ BackupInv /\ ConfigInv
    BY DEF IInv
  <1>1. ASSUME NEW m \in {"audit", "plan", "apply"}, NEW root \in BOOLEAN, Start(m, root)
        PROVE  TypeOK'
    <2>1. site \in Hosts /\ site.file \in BOOLEAN
      BY <1>0 DEF TypeOK
    <2>2. Failures(root) \in BOOLEAN
      BY DEF Failures
    <2>3. runs' \in 0 .. MaxRuns /\ runs' = runs + 1 /\ dir' \in 0 .. runs' /\ source \in 0 .. dir'
      BY <1>0, <1>1 DEF TypeOK, Start
    <2>4. /\ todo' \in {<<>>, Commands} /\ mode' \in {"idle", m} /\ exit' \in {"none", "2"}
          /\ failed' \in {failed, Failures(root)} /\ before' \in {before, host.config}
          /\ same' = same \/ same' = (same \/ dir' = dir)
      BY <1>1 DEF Start, Begin, Ended
    <2>5. /\ todo' \in Seq(CommandNames) /\ failed' \in BOOLEAN /\ same' \in BOOLEAN
          /\ before' \in Files
      BY <1>0, <2>1, <2>2, <2>4, CommandsList, EmptyList DEF TypeOK, HostType
    <2> QED BY <1>0, <1>1, <2>3, <2>4, <2>5 DEF TypeOK, Start
  <1>2. ASSUME NEW t \in 1 .. MaxRuns, NEW root \in BOOLEAN, StartRollback(t, root)
        PROVE  TypeOK'
    <2>1. runs' \in 0 .. MaxRuns /\ dir \in 0 .. runs' /\ source' \in 0 .. dir
      BY <1>0, <1>2 DEF TypeOK, StartRollback, BackupInv
    <2>2. todo' \in Seq(CommandNames) /\ mode' \in {"idle", "rollback"} /\ exit' \in {"none", "2"}
      BY <1>2, RollbackList, EmptyList DEF StartRollback, Begin, Ended, RollbackCommands
    <2> QED BY <1>0, <1>2, <2>1, <2>2 DEF TypeOK, StartRollback
  <1>3. ASSUME Command PROVE TypeOK'
    <2> DEFINE c == Head(todo)
    <2>1. /\ c \in CommandNames \ Special /\ host' \in Does(c) /\ todo' \in Seq(CommandNames)
          /\ UNCHANGED <<site, mode, exit, faults, runVars>>
      BY <1>0, <1>3, TailDone DEF Command
    <2>2. /\ host' \in HostType
          /\ host'.on \subseteq host'.installed
          /\ host'.loaded.state # "torn"
          /\ Broken(host'.config) => faults > 0
      <3>1. CASE c \in {"upgrade", "install", "ufw_deny"}
        <4>1. {IF site.manager = "apt" THEN "ufw" ELSE "firewalld"} \subseteq Firewalls
          BY DEF Firewalls
        <4>2. CASE c = "upgrade"
          <5>1. host' = [host EXCEPT !.updates = FALSE]
            BY <2>1, <4>2 DEF Does
          <5> QED BY <1>0, <5>1, HostUpdates DEF TypeOK, HostType
        <4>3. CASE c = "ufw_deny"
          <5>1. host' = [host EXCEPT !.deny = TRUE]
            BY <2>1, <4>3 DEF Does
          <5> QED BY <1>0, <5>1, HostUpdates DEF TypeOK, HostType
        <4>4. CASE c = "install"
          <5>1. PICK v \in SUBSET Firewalls : host' = [host EXCEPT !.installed = v] /\ host.installed \subseteq v
            BY <1>0, <2>1, <4>1, <4>4, HostUpdates DEF Does, TypeOK
          <5> QED BY <1>0, <5>1, HostUpdates DEF TypeOK, HostType
        <4> QED BY <3>1, <4>2, <4>3, <4>4
      <3>2. CASE c \in {"ufw_allow", "permit", "reload", "ufw_enable", "start"}
        <4>1. {"ufw", "permanent", "live"} \subseteq Places /\ {"ufw", "firewalld"} \subseteq Firewalls
          BY DEF Places, Firewalls
        <4>2. CASE c \in {"ufw_allow", "permit", "reload"}
          <5>1. PICK w \in SUBSET Places : host' = [host EXCEPT !.allowed = w]
            BY <1>0, <2>1, <4>1, <4>2, HostUpdates DEF Does, TypeOK
          <5> QED BY <1>0, <5>1, HostUpdates DEF TypeOK, HostType
        <4>3. CASE c = "ufw_enable"
          <5>1. host' = [host EXCEPT !.on = @ \cup {"ufw"}] /\ "ufw" \in host.installed
            BY <1>0, <1>3, <2>1, <4>3, Prepared DEF Command, Does
          <5>2. host.on \cup {"ufw"} \in SUBSET Firewalls
            BY <1>0, <4>1, HostUpdates DEF TypeOK
          <5> QED BY <1>0, <5>1, <5>2, HostUpdates DEF TypeOK, HostType
        <4>4. CASE c = "start"
          <5>1. "firewalld" \in host.installed
            BY <1>0, <1>3, <4>4, Prepared DEF Command
          <5>2. PICK w \in SUBSET Places : host' = [host EXCEPT !.on = @ \cup {"firewalld"}, !.allowed = w]
            BY <1>0, <2>1, <4>1, <4>4, HostUpdates DEF Does, TypeOK
          <5>3. host.on \cup {"firewalld"} \in SUBSET Firewalls
            BY <1>0, <4>1, HostUpdates DEF TypeOK
          <5>4. host' \in HostType
            BY <1>0, <5>2, <5>3, HostUpdates DEF TypeOK
          <5>5. host'.on = host.on \cup {"firewalld"} /\ host'.installed = host.installed
            BY <1>0, <5>2 DEF TypeOK, HostType
          <5>6. host'.config = host.config /\ host'.loaded = host.loaded
            BY <1>0, <5>2 DEF TypeOK, HostType
          <5> QED BY <1>0, <5>1, <5>4, <5>5, <5>6 DEF TypeOK
        <4> QED BY <3>2, <4>2, <4>3, <4>4
      <3>3. CASE c \in {"mkdir", "backup"}
        <4>1. dir \in 1 .. MaxRuns
          BY <1>0, <1>3, <3>3, Prepared DEF Command
        <4>2. CASE c = "mkdir"
          <5>1. host' = [host EXCEPT !.dirs = @ \cup {dir}]
            BY <2>1, <4>2 DEF Does
          <5>2. host.dirs \cup {dir} \in SUBSET (1 .. MaxRuns)
            BY <1>0, <4>1, HostUpdates DEF TypeOK
          <5> QED BY <1>0, <5>1, <5>2, HostUpdates DEF TypeOK, HostType
        <4>3. CASE c = "backup"
          <5>1. host' = [host EXCEPT !.copies[dir] = {host.config}]
            BY <2>1, <4>3 DEF Does
          <5>2. [host.copies EXCEPT ![dir] = {host.config}] \in [1 .. MaxRuns -> SUBSET Files]
            BY <1>0, <4>1 DEF TypeOK, HostType
          <5> QED BY <1>0, <5>1, <5>2 DEF TypeOK, HostType
        <4> QED BY <3>3, <4>2, <4>3
      <3>4. CASE c \in {"root", "empty"}
        <4>1. host.config \in Files /\ Set(host.config[c], host.config.match) \in Keys
          BY <1>0, <3>4, SetType DEF TypeOK, HostType, Files
        <4>2. \A value \in Keys : /\ [host.config EXCEPT !.root = value] \in Files
                                  /\ [host.config EXCEPT !.empty = value] \in Files
                                  /\ [host.config EXCEPT !.root = value].state = host.config.state
                                  /\ [host.config EXCEPT !.empty = value].state = host.config.state
          BY <4>1 DEF Files
        <4>3. CASE c = "root"
          <5>1. host' = [host EXCEPT !.config.root = Set(@, host.config.match)]
            BY <2>1, <4>3 DEF Does
          <5>2. /\ host' = [host EXCEPT !.config = [host.config EXCEPT !.root = Set(@, host.config.match)]]
                /\ [host.config EXCEPT !.root = Set(@, host.config.match)] \in Files
                /\ [host.config EXCEPT !.root = Set(@, host.config.match)].state = host.config.state
            BY <1>0, <4>1, <4>2, <4>3, <5>1 DEF TypeOK, HostType
          <5> QED BY <1>0, <5>2 DEF TypeOK, HostType, Broken
        <4>4. CASE c = "empty"
          <5>1. host' = [host EXCEPT !.config.empty = Set(@, host.config.match)]
            BY <2>1, <4>4 DEF Does
          <5>2. /\ host' = [host EXCEPT !.config = [host.config EXCEPT !.empty = Set(@, host.config.match)]]
                /\ [host.config EXCEPT !.empty = Set(@, host.config.match)] \in Files
                /\ [host.config EXCEPT !.empty = Set(@, host.config.match)].state = host.config.state
            BY <1>0, <4>1, <4>2, <4>4, <5>1 DEF TypeOK, HostType
          <5> QED BY <1>0, <5>2 DEF TypeOK, HostType, Broken
        <4> QED BY <3>4, <4>3, <4>4
      <3>5. CASE c = "reload_sshd"
        <4>1. host' = host \/ (Accepted(host.config) /\ host' = [host EXCEPT !.loaded = host.config])
          BY <2>1, <3>5 DEF Does
        <4>2. CASE host' = host
          BY <1>0, <4>2 DEF TypeOK
        <4>3. CASE Accepted(host.config) /\ host' = [host EXCEPT !.loaded = host.config]
          BY <1>0, <4>3 DEF TypeOK, HostType, Accepted
        <4> QED BY <4>1, <4>2, <4>3
      <3>6. CASE c = "restore"
        <4>1. source \in 1 .. MaxRuns
          BY <1>0, <1>3, <3>6, Prepared DEF Command
        <4>2. host.copies[source] # {} => Copy(source) \in Files /\ (Broken(Copy(source)) => faults > 0)
          BY <1>0, <4>1, CopyIn DEF TypeOK, HostType, BackupInv
        <4> QED BY <1>0, <2>1, <3>6, <4>2 DEF Does, TypeOK, HostType
      <3> QED BY <2>1, <3>1, <3>2, <3>3, <3>4, <3>5, <3>6 DEF CommandNames, Special
    <2> QED BY <1>0, <2>1, <2>2 DEF TypeOK, runVars
  <1>4. ASSUME ChooseFirewall PROVE TypeOK'
    <2>1. todo' \in Seq(CommandNames)
      <3>1. FirewallCommands \in Seq(CommandNames) /\ Tail(todo) \in Seq(CommandNames)
        BY <1>0, <1>4, FirewallLists, EmptyList, TailPending DEF FirewallCommands, ChooseFirewall, TypeOK, TodoInv
      <3> QED BY <1>4, <3>1 DEF ChooseFirewall
    <2> QED BY <1>0, <1>4, <2>1 DEF TypeOK, ChooseFirewall, runVars
  <1>5. ASSUME TestConfig PROVE TypeOK'
    <2>1. dir \in 1 .. MaxRuns /\ host.copies[dir] = {before} /\ Tail(todo) \in Seq(CommandNames)
      BY <1>0, <1>5, Prepared, TailPending DEF TestConfig, TypeOK, TodoInv
    <2>2. Copy(dir) \in Files /\ (Broken(Copy(dir)) => faults > 0)
      BY <1>0, <2>1, CopyIn DEF TypeOK, HostType, BackupInv
    <2>3. CASE Accepted(host.config) /\ site.sshd
      BY <1>0, <1>5, <2>1, <2>3 DEF TypeOK, TestConfig, runVars
    <2>4. CASE ~(Accepted(host.config) /\ site.sshd)
      <3>1. /\ host' = [host EXCEPT !.config = Copy(dir)]
            /\ mode' = "idle" /\ todo' = <<>> /\ exit' = "2"
            /\ UNCHANGED <<site, faults, dir, source, failed, runs, before, same>>
        BY <1>5, <2>4 DEF TestConfig, Ended, runVars
      <3>2. /\ host' \in HostType /\ host'.config = Copy(dir) /\ host'.on = host.on
            /\ host'.installed = host.installed /\ host'.loaded = host.loaded
        BY <1>0, <2>2, <3>1 DEF TypeOK, HostType
      <3> QED BY <1>0, <2>2, <3>1, <3>2, EmptyList DEF TypeOK
    <2> QED BY <2>3, <2>4
  <1>6. ASSUME Verify \/ Finish \/ Kill PROVE TypeOK'
    BY <1>0, <1>6, EmptyList DEF TypeOK, Verify, Finish, Kill, Ended, runVars
  <1>7. ASSUME CommandFails PROVE TypeOK'
    <2> DEFINE c == Head(todo)
    <2>1. host.config \in Files
      BY <1>0 DEF TypeOK, HostType
    <2>2. /\ faults' \in 0 .. MaxFaults /\ faults' >= faults
          /\ host' = host \/ (host' \in Leaves(c) /\ faults' > 0)
      BY <1>0, <1>7 DEF TypeOK, CommandFails
    <2>3. CASE host' = host
      BY <1>0, <1>7, <2>2, <2>3, EmptyList DEF TypeOK, CommandFails, Ended, runVars
    <2>4. CASE host' \in Leaves(c) /\ faults' > 0
      <3>1. /\ host' \in HostType
            /\ host'.on \subseteq host'.installed
            /\ host'.loaded.state # "torn"
        <4>1. CASE c = "backup"
          <5>1. dir \in 1 .. MaxRuns
            BY <1>0, <1>7, <4>1, Prepared DEF CommandFails
          <5>2. host' = host \/ \E part \in Parts(host.config) : host' = [host EXCEPT !.copies[dir] = {part}]
            BY <2>4, <4>1, LeavesBackup
          <5>3. CASE host' = host
            BY <1>0, <5>3 DEF TypeOK
          <5>4. ASSUME NEW part \in Parts(host.config), host' = [host EXCEPT !.copies[dir] = {part}]
                PROVE  /\ host' \in HostType /\ host'.on \subseteq host'.installed
                       /\ host'.loaded.state # "torn"
            <6>1. part \in Files
              BY <2>1, <5>4, PartsAre
            <6>2. [host.copies EXCEPT ![dir] = {part}] \in [1 .. MaxRuns -> SUBSET Files]
              BY <1>0, <5>1, <6>1 DEF TypeOK, HostType
            <6> QED BY <1>0, <5>4, <6>2 DEF TypeOK, HostType
          <5> QED BY <5>2, <5>3, <5>4
        <4>2. CASE c = "start"
          <5>1. "firewalld" \in host.installed
            BY <1>0, <1>7, <4>2, Prepared DEF CommandFails
          <5>2. host' \in {host, [host EXCEPT !.on = @ \cup {"firewalld"}]}
            <6>1. Leaves("start") = {host} \cup {[host EXCEPT !.on = @ \cup {"firewalld"}]}
              BY DEF Leaves, Settings
            <6> QED BY <2>4, <4>2, <6>1
          <5>3. host.on \cup {"firewalld"} \in SUBSET Firewalls
            BY <1>0, HostUpdates DEF TypeOK, Firewalls
          <5>4. CASE host' = [host EXCEPT !.on = @ \cup {"firewalld"}]
            BY <1>0, <5>1, <5>3, <5>4, HostUpdates DEF TypeOK, HostType
          <5>5. CASE host' = host
            BY <1>0, <5>5 DEF TypeOK
          <5> QED BY <5>2, <5>4, <5>5
        <4>3. CASE c \in {"root", "empty", "restore"}
          <5>1. PICK file \in Files : host' = [host EXCEPT !.config = file]
            <6>1. CASE host' = host
              BY <1>0, <2>1, <6>1 DEF TypeOK, HostType
            <6>2. CASE c \in Settings /\ host' # host
              <7>1. host' = [host EXCEPT !.config.state = "torn"]
                BY <2>4, <6>2 DEF Leaves, Settings
              <7>2. [host.config EXCEPT !.state = "torn"] \in Files
                BY <2>1 DEF Files
              <7> QED BY <1>0, <7>1, <7>2 DEF TypeOK, HostType
            <6>3. CASE c = "restore" /\ host' # host
              <7>1. host.copies[source] # {} /\ source \in 1 .. MaxRuns
                BY <1>0, <1>7, <2>4, <6>3, Prepared DEF Leaves, Settings, CommandFails
              <7>2. Copy(source) \in Files
                BY <1>0, <7>1, CopyIn DEF TypeOK, HostType
              <7>3. PICK part \in Parts(Copy(source)) : host' = [host EXCEPT !.config = part]
                BY <2>4, <6>3, <7>1, LeavesRestore
              <7> QED BY <7>2, <7>3, PartsAre
            <6> QED BY <4>3, <6>1, <6>2, <6>3 DEF Settings
          <5> QED BY <1>0, <5>1 DEF TypeOK, HostType
        <4>4. CASE c \notin {"backup", "start", "root", "empty", "restore"}
          BY <1>0, <2>4, <4>4 DEF Leaves, Settings, TypeOK
        <4> QED BY <4>1, <4>2, <4>3, <4>4
      <3> QED BY <1>0, <1>7, <2>2, <2>4, <3>1, EmptyList DEF TypeOK, CommandFails, Ended, runVars
    <2> QED BY <2>2, <2>3, <2>4
  <1>8. ASSUME RestoreFails PROVE TypeOK'
    <2>1. faults' \in 0 .. MaxFaults /\ faults' > 0
      BY <1>0, <1>8, LinuxAssumption DEF TypeOK, RestoreFails
    <2>2. Copy(dir) \in Files
      <3>1. dir \in 1 .. MaxRuns /\ host.copies[dir] = {before}
        BY <1>0, <1>8, Prepared DEF RestoreFails
      <3> QED BY <1>0, <3>1, CopyIn DEF TypeOK, HostType
    <2>3. PICK part \in Parts(Copy(dir)) : host' = [host EXCEPT !.config = part]
      BY <1>8 DEF RestoreFails
    <2>4. part \in Files
      BY <2>2, <2>3, PartsAre
    <2>5. /\ host' \in HostType /\ host'.on = host.on /\ host'.installed = host.installed
          /\ host'.loaded = host.loaded
      BY <1>0, <2>3, <2>4 DEF TypeOK, HostType
    <2> QED BY <1>0, <1>8, <2>1, <2>5, EmptyList DEF TypeOK, RestoreFails, Ended, runVars
  <1> QED BY <1>1, <1>2, <1>3, <1>4, <1>5, <1>6, <1>7, <1>8 DEF Next
-----------------------------------------------------------------------------
\* "firewall" gives way to the commands of the firewall that is there.
LEMMA Chosen ==
  ASSUME TypeOK, TodoInv, ChooseFirewall
  PROVE  /\ mode = "apply" /\ Done("mkdir") /\ Done("install")
         /\ Pending(FirewallCommands) =
                IF "ufw" \in host.installed THEN {"ufw_deny", "ufw_allow", "ufw_enable"}
                ELSE IF "firewalld" \in host.installed THEN {"start", "permit", "reload"} ELSE {}
         /\ InOrder(todo')
         /\ Pending(todo') = Pending(FirewallCommands) \cup (Pending(todo) \ {"firewall"})
         /\ \A c \in Pending(todo) \ {"firewall"} : Rank(c) > 7
  <1>1. todo # <<>> /\ Head(todo) = "firewall" /\ todo' = FirewallCommands \o Tail(todo)
    BY DEF ChooseFirewall
  <1>2. /\ "firewall" \in Pending(todo) /\ Tail(todo) \in Seq(CommandNames) /\ InOrder(Tail(todo))
        /\ Pending(Tail(todo)) = Pending(todo) \ {"firewall"}
        /\ \A c \in Pending(Tail(todo)) : Rank("firewall") < Rank(c)
    BY <1>1, TailPending DEF TypeOK, TodoInv
  <1>3. mode = "apply" /\ Pending(todo) \subseteq CommandNames
    BY <1>1, <1>2 DEF TypeOK, TodoInv, ApplyCommands
  <1>4. \A c \in Pending(todo) \ {"firewall"} : Rank(c) > 7
    BY <1>2, <1>3, RankType, RankValues DEF TodoInv, Done
  <1>5. Done("mkdir") /\ Done("install")
    BY <1>4, RankValues DEF Done
  <1>6. /\ FirewallCommands \in Seq(CommandNames) /\ InOrder(FirewallCommands)
        /\ Pending(FirewallCommands) =
                IF "ufw" \in host.installed THEN {"ufw_deny", "ufw_allow", "ufw_enable"}
                ELSE IF "firewalld" \in host.installed THEN {"start", "permit", "reload"} ELSE {}
    BY FirewallLists, EmptyList DEF FirewallCommands
  <1>7. \A c \in Pending(FirewallCommands), d \in Pending(Tail(todo)) : Rank(c) < Rank(d)
    <2>1. \A c \in Pending(FirewallCommands) : Rank(c) \in 5 .. 7
      BY <1>6, RankValues
    <2> QED BY <1>2, <1>3, <1>4, <2>1, RankType
  <1>8. InOrder(todo') /\ Pending(todo') = Pending(FirewallCommands) \cup Pending(Tail(todo))
    BY <1>1, <1>2, <1>6, <1>7, ConcatPending
  <1> QED BY <1>2, <1>3, <1>4, <1>5, <1>6, <1>8

LEMMA TodoStep ==
  ASSUME IInv, Next
  PROVE  TodoInv'
  <1> USE DEF TodoInv, Done
  <1>0. TypeOK /\ TodoInv /\ FirewallInv /\ BackupInv /\ ConfigInv
    BY DEF IInv
  <1>1. ASSUME NEW m \in {"audit", "plan", "apply"}, NEW root \in BOOLEAN, Start(m, root)
        PROVE  TodoInv'
    <2>1. CASE m = "apply" /\ root
      <3>1. mode' = "apply" /\ exit' = "none" /\ todo' = Commands /\ site' = site /\ host' = host
        BY <1>1, <2>1 DEF Start, Begin
      <3>2. site.file \in BOOLEAN
        BY <1>0, LinuxAssumption DEF TypeOK
      <3>3. \A c \in Pending(Commands) : Rank(c) > 7 => site.file
        BY <3>2, CommandsList, RankValues
      <3>4. \A c \in Pending(Commands) : Rank(c) \notin 5 .. 7
        BY <3>2, CommandsList, RankValues
      <3>5. /\ "firewall" \in Pending(Commands) /\ Pending(Commands) \subseteq ApplyCommands
            /\ site.manager = "apt" => "install" \in Pending(Commands)
        BY <3>2, CommandsList DEF ApplyCommands, CommandNames
      <3>6. InOrder(Commands)
        BY <3>2, CommandsList
      <3> QED BY <3>1, <3>3, <3>4, <3>5, <3>6
    <2>2. CASE ~(m = "apply" /\ root)
      BY <1>1, <2>2, EmptyList DEF Start, Begin, Ended
    <2> QED BY <2>1, <2>2
  <1>2. ASSUME NEW t \in 1 .. MaxRuns, NEW root \in BOOLEAN, StartRollback(t, root)
        PROVE  TodoInv'
    <2>1. CASE ~root \/ t \notin host.dirs
      BY <1>2, <2>1, EmptyList DEF StartRollback, Ended
    <2>2. CASE ~(~root \/ t \notin host.dirs)
      <3>1. Begin("rollback", RollbackCommands)
        BY <1>2, <2>2 DEF StartRollback, RollbackCommands
      <3> QED BY <3>1, RollbackList DEF Begin
    <2> QED BY <2>1, <2>2
  <1>3. ASSUME todo # <<>>, todo' = Tail(todo), UNCHANGED <<mode, exit, site>>,
               Head(todo) # "firewall", mode = "rollback" => Head(todo) # "verify",
               host.installed \subseteq host'.installed,
               Head(todo) = "install" /\ site.manager = "apt" => "ufw" \in host'.installed
        PROVE  TodoInv'
    <2>1. /\ InOrder(todo') /\ Head(todo) \in Pending(todo)
          /\ Pending(todo') = Pending(todo) \ {Head(todo)}
      BY <1>0, <1>3, TailDone
    <2> HIDE DEF Done
    <2>2. \A c : Done(c)' <=> Done(c) \/ c = Head(todo)
      BY <2>1 DEF Done
    <2>3. mode \notin {"idle", "audit", "plan"}
      BY <1>0, <1>3
    <2> QED BY <1>0, <1>3, <2>1, <2>2, <2>3
  <1>4. ASSUME Command PROVE TodoInv'
    <2>1. /\ todo # <<>> /\ todo' = Tail(todo) /\ UNCHANGED <<mode, exit, site>>
          /\ Head(todo) \notin {"firewall", "verify"}
      BY <1>4 DEF Command, runVars, Special
    <2>2. CASE Head(todo) = "install"
      <3>1. host.installed \subseteq host'.installed /\ (site.manager = "apt" => "ufw" \in host'.installed)
        BY <1>0, <1>4, <2>2 DEF Command, Does, TypeOK, HostType
      <3> QED BY <1>3, <2>1, <3>1
    <2>3. CASE Head(todo) # "install"
      <3>1. host.installed \subseteq host'.installed
        <4>1. CASE Head(todo) \notin ForFirewall
          BY <1>0, <1>4, <4>1, Frames
        <4>2. CASE Head(todo) \in ForFirewall
          BY <1>0, <1>4, <2>3, <4>2 DEF ForFirewall, Command, Does, TypeOK, HostType
        <4> QED BY <4>1, <4>2
      <3> QED BY <1>3, <2>1, <2>3, <3>1
    <2> QED BY <2>2, <2>3
  <1>5. ASSUME ChooseFirewall PROVE TodoInv'
    <2>1. UNCHANGED <<mode, exit, site, host>>
      BY <1>5 DEF ChooseFirewall, runVars
    <2>2. /\ "firewall" \notin Pending(todo') /\ "mkdir" \notin Pending(todo') /\ "install" \notin Pending(todo')
          /\ Pending(todo') \subseteq ApplyCommands
          /\ \A c \in Pending(todo') : Rank(c) > 7 => site.file
      <3>1. \A c \in Pending(FirewallCommands) : Rank(c) \in 5 .. 7 /\ c \in ApplyCommands
        BY <1>0, <1>5, Chosen, RankValues DEF ApplyCommands, CommandNames
      <3> QED BY <1>0, <1>5, <3>1, Chosen, RankValues
    <2> QED BY <1>0, <1>5, <2>1, <2>2, Chosen
  <1>6. ASSUME TestConfig PROVE TodoInv'
    <2>1. mode = "apply"
      BY <1>0, <1>6, Prepared DEF TestConfig
    <2>2. CASE todo' = Tail(todo) /\ UNCHANGED <<host, mode, exit>>
      BY <1>3, <1>6, <2>1, <2>2 DEF TestConfig
    <2>3. CASE Ended("2")
      BY <2>3, EmptyList DEF Ended
    <2> QED BY <1>6, <2>2, <2>3 DEF TestConfig
  <1>7. CASE Verify \/ Finish \/ Kill \/ CommandFails \/ RestoreFails
    BY <1>7, EmptyList DEF Verify, Finish, Kill, CommandFails, RestoreFails, Ended
  <1> QED BY <1>1, <1>2, <1>4, <1>5, <1>6, <1>7 DEF Next

\* The firewalls let the administrator in as the commands that are done promise.
LEMMA FirewallStep ==
  ASSUME IInv, Next
  PROVE  FirewallInv'
  <1> USE DEF FirewallInv, Done
  <1>0. TypeOK /\ TodoInv /\ FirewallInv /\ BackupInv /\ ConfigInv
    BY DEF IInv
  <1>1. ASSUME NEW m \in {"audit", "plan", "apply"}, NEW root \in BOOLEAN, Start(m, root)
        PROVE  FirewallInv'
    <2>1. site' = site /\ host' = host
      BY <1>1 DEF Start
    <2>2. mode' = "apply" => todo' = Commands
      BY <1>1 DEF Start, Begin, Ended
    <2>3. "firewall" \in Pending(Commands)
      BY <1>0, LinuxAssumption, CommandsList DEF TypeOK
    <2> QED BY <1>0, <2>1, <2>2, <2>3
  <1>2. ASSUME NEW t \in 1 .. MaxRuns, NEW root \in BOOLEAN, StartRollback(t, root)
        PROVE  FirewallInv'
    BY <1>0, <1>2 DEF StartRollback, Begin, Ended
  <1>3. ASSUME Command PROVE FirewallInv'
    <2> DEFINE c == Head(todo)
    <2>1. /\ host' \in Does(c) /\ site' = site /\ mode' = mode /\ todo # <<>> /\ todo' = Tail(todo)
          /\ c \in CommandNames \ Special
      BY <1>0, <1>3, TailDone DEF Command, runVars
    <2>2. /\ ~Done(c) /\ \A d : Done(d)' <=> Done(d) \/ d = c
          /\ \A d \in CommandNames : Rank(d) < Rank(c) => Done(d)
      BY <1>0, <2>1, TailDone, RankType
    <2>3. c \in ForFirewall => mode = "apply"
      BY <1>0, <2>2, EmptyList DEF TodoInv, TypeOK, ForFirewall
    <2> HIDE DEF Done
    <2>4. CASE c \notin ForFirewall
      <3>1. /\ host'.installed = host.installed /\ host'.on = host.on
            /\ host'.deny = host.deny /\ host'.allowed = host.allowed
        BY <1>0, <1>3, <2>4, Frames
      <3>2. c \notin {"firewall", "ufw_deny", "ufw_allow", "ufw_enable", "start", "permit", "reload"}
        BY <2>1, <2>4 DEF ForFirewall, Special
      <3> HIDE DEF c
      <3> QED BY <1>0, <2>1, <2>2, <3>1, <3>2
    <2>5. CASE c = "install"
      <3>1. /\ host'.installed = host.installed \cup {IF site.manager = "apt" THEN "ufw" ELSE "firewalld"}
            /\ host'.on = host.on /\ host'.deny = host.deny /\ host'.allowed = host.allowed
        BY <1>0, <2>1, <2>5 DEF Does, TypeOK, HostType
      <3>2. ~Done("firewall")
        BY <1>0, <2>2, <2>3, <2>5 DEF TodoInv, ForFirewall
      <3> QED BY <1>0, <2>1, <2>2, <2>5, <3>1, <3>2
    <2>6. (Done("firewall") /\ mode = "apply") \/ c \notin ForFirewall \/ c = "install"
      BY <2>2, <2>3, RankValues DEF ForFirewall, CommandNames
    <2>7. CASE c \in {"ufw_deny", "ufw_allow", "ufw_enable"}
      <3>1. "ufw" \in host.installed
        BY <1>0, <2>2, <2>6, <2>7 DEF ForFirewall
      <3>2. CASE c = "ufw_deny"
        <4>1. /\ host'.installed = host.installed /\ host'.on = host.on
              /\ host'.deny = TRUE /\ host'.allowed = host.allowed
          BY <1>0, <2>1, <3>2 DEF Does, TypeOK, HostType
        <4> QED BY <1>0, <2>1, <2>2, <3>1, <3>2, <4>1
      <3>3. CASE c = "ufw_allow"
        <4>1. /\ host'.installed = host.installed /\ host'.on = host.on
              /\ host'.deny = host.deny /\ host'.allowed = host.allowed \cup {"ufw"}
          BY <1>0, <2>1, <3>3 DEF Does, TypeOK, HostType
        <4>2. ~Done("ufw_enable")
          BY <1>0, <2>2, <2>6, <3>1, <3>3 DEF ForFirewall
        <4> QED BY <1>0, <2>1, <2>2, <3>1, <3>3, <4>1, <4>2
      <3>4. CASE c = "ufw_enable"
        <4>1. /\ host'.installed = host.installed /\ host'.on = host.on \cup {"ufw"}
              /\ host'.deny = host.deny /\ host'.allowed = host.allowed
          BY <1>0, <2>1, <3>4 DEF Does, TypeOK, HostType
        <4>2. Done("ufw_allow")
          BY <2>2, <3>4, RankValues DEF CommandNames
        <4> QED BY <1>0, <2>1, <2>2, <2>6, <3>1, <3>4, <4>1, <4>2 DEF ForFirewall
      <3> QED BY <2>7, <3>2, <3>3, <3>4
    <2>8. CASE c \in {"start", "permit", "reload"}
      <3>1. "ufw" \notin host.installed /\ "firewalld" \in host.installed
        BY <1>0, <2>2, <2>6, <2>8 DEF ForFirewall
      <3>2. CASE c = "start"
        <4>1. /\ host'.installed = host.installed /\ host'.on = host.on \cup {"firewalld"}
              /\ host'.deny = host.deny /\ host.allowed \subseteq host'.allowed
          <5>1. PICK w : /\ host' = [host EXCEPT !.on = @ \cup {"firewalld"}, !.allowed = w]
                         /\ host.allowed \subseteq w
            BY <1>0, <2>1, <3>2 DEF Does, TypeOK, HostType
          <5>2. DOMAIN host = {"installed", "on", "deny", "allowed", "updates", "config", "loaded", "dirs", "copies"}
            BY <1>0 DEF TypeOK, HostType
          <5> QED BY <5>1, <5>2
        <4>2. ~Done("permit") \/ "permanent" \in host.allowed
          BY <1>0, <2>6, <3>1, <3>2 DEF ForFirewall
        <4>3. ~Done("reload") /\ site.manager # "apt"
          BY <1>0, <2>1, <2>2, <2>6, <3>1, <3>2, Prepared DEF ForFirewall
        <4> QED BY <1>0, <2>1, <2>2, <3>1, <3>2, <4>1, <4>2, <4>3
      <3>3. CASE c = "permit"
        <4>1. /\ host'.installed = host.installed /\ host'.on = host.on
              /\ host'.deny = host.deny /\ host'.allowed = host.allowed \cup {"permanent"}
          BY <1>0, <2>1, <3>3 DEF Does, TypeOK, HostType
        <4>2. ~Done("reload")
          BY <1>0, <2>2, <2>6, <3>1, <3>3 DEF ForFirewall
        <4> QED BY <1>0, <2>1, <2>2, <3>1, <3>3, <4>1, <4>2
      <3>4. CASE c = "reload"
        <4>1. "permanent" \in host.allowed /\ Done("permit") /\ Done("start")
          BY <1>0, <2>1, <2>2, <3>4, Prepared, RankValues DEF CommandNames
        <4>2. /\ host'.installed = host.installed /\ host'.on = host.on
              /\ host'.deny = host.deny /\ host'.allowed = host.allowed \cup {"live"}
          BY <1>0, <2>1, <3>4, <4>1 DEF Does, TypeOK, HostType
        <4> QED BY <1>0, <2>1, <2>2, <2>6, <3>1, <3>4, <4>1, <4>2 DEF ForFirewall
      <3> QED BY <2>8, <3>2, <3>3, <3>4
    <2> QED BY <2>4, <2>5, <2>7, <2>8 DEF ForFirewall
  <1>4. ASSUME ChooseFirewall PROVE FirewallInv'
    <2>1. UNCHANGED <<mode, site, host>>
      BY <1>4 DEF ChooseFirewall, runVars
    <2>2. \A c \in {"ufw_deny", "ufw_allow", "ufw_enable", "start", "permit", "reload"} :
             c \in Pending(todo') <=> c \in Pending(FirewallCommands)
      BY <1>0, <1>4, Chosen, RankValues
    <2> QED BY <1>0, <1>4, <2>1, <2>2, Chosen
  <1>5. ASSUME TestConfig PROVE FirewallInv'
    <2>1. /\ todo # <<>> /\ Head(todo) = "test" /\ site' = site
          /\ host'.installed = host.installed /\ host'.on = host.on
          /\ host'.deny = host.deny /\ host'.allowed = host.allowed
      BY <1>0, <1>5 DEF TestConfig, TypeOK, HostType
    <2>2. CASE todo' = Tail(todo) /\ mode' = mode
      <3>1. \A c : c # "test" => (Done(c)' <=> Done(c))
        BY <1>0, <2>1, <2>2, TailDone
      <3> HIDE DEF Done
      <3> QED BY <1>0, <2>1, <2>2, <3>1
    <2>3. CASE mode' = "idle"
      BY <1>0, <2>1, <2>3
    <2> QED BY <1>5, <2>2, <2>3 DEF TestConfig, Ended
  <1>6. ASSUME Verify \/ Finish \/ Kill PROVE FirewallInv'
    BY <1>0, <1>6 DEF Verify, Finish, Kill, Ended
  <1>7. ASSUME CommandFails \/ RestoreFails PROVE FirewallInv'
    <2>1. mode' = "idle" /\ site' = site
      BY <1>7 DEF CommandFails, RestoreFails, Ended, runVars
    <2>2. /\ host'.installed = host.installed /\ host'.deny = host.deny /\ host'.allowed = host.allowed
          /\ \/ host'.on = host.on
             \/ /\ host'.on = host.on \cup {"firewalld"}
                /\ "ufw" \notin host.installed /\ site.manager # "apt"
      <3>1. CASE RestoreFails
        BY <1>0, <3>1 DEF RestoreFails, TypeOK, HostType
      <3>2. CASE CommandFails
        <4>1. todo # <<>> /\ (host' = host \/ host' \in Leaves(Head(todo)))
          BY <3>2 DEF CommandFails
        <4>2. CASE Head(todo) = "start" /\ host' \in Leaves(Head(todo))
          BY <1>0, <4>1, <4>2, Prepared DEF Leaves, TypeOK, HostType
        <4>3. CASE Head(todo) # "start" /\ host' \in Leaves(Head(todo))
          BY <1>0, <4>1, <4>3 DEF Leaves, TypeOK, HostType
        <4> QED BY <4>1, <4>2, <4>3
      <3> QED BY <1>7, <3>1, <3>2
    <2> QED BY <1>0, <2>1, <2>2
  <1> QED BY <1>1, <1>2, <1>3, <1>4, <1>5, <1>6, <1>7 DEF Next
-----------------------------------------------------------------------------
\* The commands that touch sshd_config, its backups or their directories, and
\* what each of them does to these.
LEMMA ConfigEffects ==
  ASSUME IInv, Command
  PROVE  LET c == Head(todo) IN
         /\ c = "mkdir" => /\ host'.dirs = host.dirs \cup {dir}
                           /\ host'.config = host.config /\ host'.copies = host.copies
         /\ c = "backup" => /\ host'.copies = [host.copies EXCEPT ![dir] = {host.config}]
                            /\ host'.config = host.config /\ host'.dirs = host.dirs
         /\ c = "root" => /\ host'.config = [host.config EXCEPT !.root = Set(@, host.config.match)]
                          /\ host'.copies = host.copies /\ host'.dirs = host.dirs
         /\ c = "empty" => /\ host'.config = [host.config EXCEPT !.empty = Set(@, host.config.match)]
                           /\ host'.copies = host.copies /\ host'.dirs = host.dirs
         /\ c = "restore" => /\ host'.config = IF host.copies[source] = {} THEN host.config ELSE Copy(source)
                             /\ host'.copies = host.copies /\ host'.dirs = host.dirs
         /\ c \notin ForConfig => /\ host'.config = host.config
                                  /\ host'.copies = host.copies /\ host'.dirs = host.dirs
  <1> DEFINE c == Head(todo)
  <1>1. TypeOK /\ TodoInv /\ host' \in Does(c)
    BY DEF IInv, Command
  <1>2. CASE c = "mkdir"
    BY <1>1, <1>2 DEF Does, TypeOK, HostType, ForConfig
  <1>3. CASE c = "backup"
    BY <1>1, <1>3 DEF Does, TypeOK, HostType, ForConfig
  <1>4. CASE c = "root"
    BY <1>1, <1>4 DEF Does, TypeOK, HostType, ForConfig
  <1>5. CASE c = "empty"
    BY <1>1, <1>5 DEF Does, TypeOK, HostType, ForConfig
  <1>6. CASE c = "restore"
    BY <1>1, <1>6 DEF Does, TypeOK, HostType, ForConfig
  <1>7. CASE c \notin ForConfig
    BY <1>1, <1>7, Frames DEF ForConfig
  <1> QED BY <1>2, <1>3, <1>4, <1>5, <1>6, <1>7 DEF ForConfig

\* And what a command may do to them that fails.
LEMMA ConfigFailures ==
  ASSUME IInv, CommandFails \/ RestoreFails
  PROVE  /\ mode' = "idle" /\ host'.dirs = host.dirs /\ faults' >= faults
         /\ \/ host'.config = host.config /\ host'.copies = host.copies
            \/ /\ host'.copies = host.copies
               /\ \E t \in 1 .. MaxRuns : host.copies[t] # {}
            \/ /\ host'.config = host.config /\ dir \in host.dirs /\ faults' > 0
               /\ \E part \in Parts(host.config) : host'.copies = [host.copies EXCEPT ![dir] = {part}]
               /\ same \/ host.copies[dir] = {}
  <1>0. TypeOK /\ TodoInv /\ FirewallInv /\ BackupInv /\ ConfigInv
    BY DEF IInv
  <1>1. CASE RestoreFails
    <2>1. /\ todo # <<>> /\ Head(todo) = "test"
          /\ \E part \in Parts(Copy(dir)) : host' = [host EXCEPT !.config = part]
      BY <1>1 DEF RestoreFails
    <2>2. dir \in 1 .. MaxRuns /\ host.copies[dir] # {}
      BY <1>0, <2>1, Prepared
    <2> QED BY <1>0, <1>1, <2>1, <2>2 DEF RestoreFails, Ended, TypeOK, HostType
  <1>2. CASE CommandFails
    <2> DEFINE c == Head(todo)
    <2>1. todo # <<>> /\ mode' = "idle" /\ faults' >= faults
      BY <1>0, <1>2 DEF CommandFails, Ended, TypeOK
    <2>2. host' = host \/ (host' \in Leaves(c) /\ faults' > 0)
      BY <1>0, <1>2 DEF CommandFails, TypeOK
    <2>3. CASE host' = host
      BY <2>1, <2>3
    <2>4. CASE c = "backup" /\ host' \in Leaves(c) /\ faults' > 0
      <3>1. dir \in host.dirs /\ mode = "apply" /\ ~Done("backup")
        BY <1>0, <2>1, <2>4, Prepared, TailPending DEF Done, TypeOK, TodoInv
      <3>2. same \/ host.copies[dir] = {}
        BY <1>0, <3>1 DEF ConfigInv
      <3>3. host' = host \/ \E part \in Parts(host.config) : host' = [host EXCEPT !.copies[dir] = {part}]
        BY <2>4, LeavesBackup
      <3> QED BY <1>0, <2>1, <2>4, <3>1, <3>2, <3>3 DEF TypeOK, HostType
    <2>5. CASE c \in {"root", "empty", "restore"} /\ host' \in Leaves(c)
      <3>1. CASE host' = host
        BY <2>1, <3>1
      <3>2. CASE host' # host
        <4>1. PICK file : host' = [host EXCEPT !.config = file]
          <5>1. CASE c \in Settings
            <6>1. host' = [host EXCEPT !.config.state = "torn"]
              BY <2>5, <3>2, <5>1 DEF Leaves, Settings
            <6> QED BY <6>1
          <5>2. CASE c = "restore"
            BY <2>5, <3>2, <5>2 DEF Leaves, Settings
          <5> QED BY <2>5, <5>1, <5>2 DEF Settings
        <4>2. \E t \in 1 .. MaxRuns : host.copies[t] # {}
          <5>1. CASE c \in {"root", "empty"}
            BY <1>0, <2>1, <5>1, Prepared
          <5>2. CASE c = "restore"
            BY <1>0, <2>1, <2>5, <3>2, <5>2, Prepared DEF Leaves, Settings
          <5> QED BY <2>5, <5>1, <5>2
        <4> QED BY <1>0, <2>1, <4>1, <4>2 DEF TypeOK, HostType
      <3> QED BY <3>1, <3>2
    <2>6. CASE c \notin {"backup", "root", "empty", "restore"} /\ host' \in Leaves(c)
      BY <1>0, <2>1, <2>6 DEF Leaves, Settings, TypeOK, HostType
    <2> QED BY <2>2, <2>3, <2>4, <2>5, <2>6
  <1> QED BY <1>1, <1>2

\* Once a copy is kept, only the directory of a shared second can lose it.
LEMMA KeptStays ==
  ASSUME IInv, Kept, site' = site, same => same', host.dirs \subseteq host'.dirs,
         \/ host'.copies = host.copies
         \/ \E file : /\ host'.copies = [host.copies EXCEPT ![dir] = {file}]
                      /\ same \/ host.copies[dir] = {}
  PROVE  Kept'
  <1>1. same \/ \A t \in host.dirs : host.copies[t] # {} => host'.copies[t] = host.copies[t]
    BY DEF IInv, TypeOK, HostType
  <1> QED BY <1>1 DEF Kept

LEMMA BackupStep ==
  ASSUME IInv, Next
  PROVE  BackupInv'
  <1>0. TypeOK /\ TodoInv /\ FirewallInv /\ BackupInv /\ ConfigInv
    BY DEF IInv
  <1>00. /\ host.dirs \subseteq 1 .. MaxRuns /\ host.copies \in [1 .. MaxRuns -> SUBSET Files]
         /\ dir \in Nat /\ dir <= runs /\ runs \in Nat /\ faults \in Nat
    BY <1>0 DEF TypeOK, HostType
  <1>1. ASSUME NEW m \in {"audit", "plan", "apply"}, NEW root \in BOOLEAN, Start(m, root)
        PROVE  BackupInv'
    <2>1. site' = site /\ host' = host /\ faults' = faults /\ mode' # "rollback"
      BY <1>1 DEF Start, Begin, Ended
    <2>2. \/ UNCHANGED <<dir, same, before>>
          \/ dir' = dir /\ same'
          \/ dir' = dir + 1 /\ same' = (same \/ dir' = dir)
      BY <1>1 DEF Start
    <2>3. (same => same') /\ dir' >= dir /\ dir' \in Nat
      <3>1. same => same'
        BY <2>2
      <3>2. dir' = dir \/ dir' = dir + 1
        BY <2>2
      <3>3. dir' >= dir /\ dir' \in Nat
        BY <1>00, <3>2
      <3> QED BY <3>1, <3>3
    <2>4. Kept => Kept'
      BY <2>1, <2>3, KeptStays
    <2>5. dir' > 0 /\ host'.copies[dir'] # {} /\ ~same' =>
             host'.copies[dir'] = {before'} \/ \A file \in host'.copies[dir'] : Broken(file)
      <3>1. CASE UNCHANGED <<dir, same, before>>
        BY <1>0, <2>1, <3>1 DEF BackupInv
      <3>2. CASE dir' = dir + 1
        <4>1. dir' \in 1 .. MaxRuns
          BY <1>00, <1>0, <1>1, <3>2, LinuxAssumption DEF Start, TypeOK
        <4> QED BY <1>0, <1>00, <2>1, <3>2, <4>1 DEF BackupInv
      <3> QED BY <2>2, <3>1, <3>2
    <2> QED BY <1>0, <1>00, <2>1, <2>3, <2>4, <2>5 DEF BackupInv
  <1>2. ASSUME NEW t \in 1 .. MaxRuns, NEW root \in BOOLEAN, StartRollback(t, root)
        PROVE  BackupInv'
    <2>1. UNCHANGED <<site, host, faults, dir, before, same>>
      BY <1>2 DEF StartRollback
    <2>2. mode' = "rollback" => source' \in host.dirs /\ "restore" \in Pending(todo')
      BY <1>2, RollbackList DEF StartRollback, Begin, Ended, RollbackCommands
    <2> QED BY <1>0, <2>1, <2>2 DEF BackupInv, Kept, Done
  <1>3. ASSUME Command PROVE BackupInv'
    <2> DEFINE c == Head(todo)
    <2>1. /\ todo # <<>> /\ UNCHANGED <<site, mode, faults, dir, source, before, same>>
          /\ \A d : Done(d)' <=> Done(d) \/ d = c
      BY <1>0, <1>3, TailDone DEF Command, runVars, Done
    <2>2. Copy(source)' = Copy(source) \/ host'.copies # host.copies
      BY <2>1 DEF Copy
    <2>3. CASE c \notin ForConfig \/ c \in {"mkdir", "root", "empty"}
      <3>1. /\ host'.copies = host.copies /\ host.dirs \subseteq host'.dirs
            /\ host'.dirs \subseteq host.dirs \cup {dir}
            /\ host'.config = host.config \/ c \in {"root", "empty"}
        BY <1>3, <2>3, ConfigEffects
      <3>2. Kept => Kept'
        BY <2>1, <3>1, KeptStays
      <3>3. c \in {"root", "empty"} => Kept /\ mode = "apply"
        BY <1>0, <2>1, Prepared DEF BackupInv
      <3>4. c # "restore"
        BY <2>3 DEF ForConfig
      <3> QED BY <1>0, <1>00, <2>1, <2>2, <3>1, <3>2, <3>3, <3>4 DEF BackupInv
    <2>4. CASE c = "backup"
      <3>1. /\ mode = "apply" /\ dir \in 1 .. MaxRuns /\ dir \in host.dirs
            /\ host.config = before /\ (same \/ host.copies[dir] = {})
        BY <1>0, <2>1, <2>4, Prepared, TailPending DEF ConfigInv, Done, TodoInv, TypeOK
      <3>2. /\ host'.copies = [host.copies EXCEPT ![dir] = {host.config}]
            /\ host'.config = host.config /\ host'.dirs = host.dirs
        BY <1>3, <2>4, ConfigEffects
      <3>3. Kept'
        <4>1. CASE Kept
          BY <2>1, <3>1, <3>2, <4>1, KeptStays
        <4>2. CASE ~Kept
          BY <1>0, <1>00, <2>1, <3>1, <3>2, <4>2 DEF BackupInv, Kept
        <4> QED BY <4>1, <4>2
      <3>4. Broken(host.config) => faults > 0
        BY <1>0 DEF TypeOK
      <3> QED BY <1>0, <1>00, <2>1, <3>1, <3>2, <3>3, <3>4 DEF BackupInv
    <2>5. CASE c = "restore"
      <3>1. /\ host'.config = IF host.copies[source] = {} THEN host.config ELSE Copy(source)
            /\ host'.copies = host.copies /\ host'.dirs = host.dirs
        BY <1>3, <2>5, ConfigEffects
      <3>2. Kept => Kept'
        BY <2>1, <3>1, KeptStays
      <3>3. source \in 1 .. MaxRuns /\ (host.copies[source] # {} => Kept)
        BY <1>0, <2>1, <2>5, Prepared DEF BackupInv
      <3> QED BY <1>0, <1>00, <2>1, <2>2, <3>1, <3>2, <3>3 DEF BackupInv
    <2> QED BY <2>3, <2>4, <2>5 DEF ForConfig
  <1>4. ASSUME ChooseFirewall PROVE BackupInv'
    <2>1. UNCHANGED <<mode, site, host, faults, dir, source, before, same>> /\ mode # "rollback"
      BY <1>0, <1>4, Chosen DEF ChooseFirewall, runVars
    <2> QED BY <1>0, <2>1 DEF BackupInv, Kept
  <1>5. ASSUME TestConfig PROVE BackupInv'
    <2>1. /\ mode = "apply" /\ mode' \in {"apply", "idle"} /\ UNCHANGED <<site, faults, dir, before, same>>
          /\ dir \in 1 .. MaxRuns /\ host.copies[dir] # {}
      BY <1>0, <1>5, Prepared DEF TestConfig, Ended, runVars
    <2>2. host'.copies = host.copies /\ host'.dirs = host.dirs
      BY <1>0, <1>5 DEF TestConfig, TypeOK, HostType
    <2>3. Kept'
      BY <1>0, <2>1, <2>2, KeptStays DEF BackupInv
    <2> QED BY <1>0, <2>1, <2>2, <2>3 DEF BackupInv
  <1>6. ASSUME Verify \/ Finish \/ Kill PROVE BackupInv'
    <2>1. mode' = "idle" /\ UNCHANGED <<site, host, faults, dir, before, same>>
      BY <1>6 DEF Verify, Finish, Kill, Ended, runVars
    <2> QED BY <1>0, <2>1 DEF BackupInv, Kept
  <1>7. ASSUME CommandFails \/ RestoreFails PROVE BackupInv'
    <2>1. UNCHANGED <<site, dir, before, same>> /\ faults' \in Nat
      BY <1>7, <1>00 DEF CommandFails, RestoreFails, runVars
    <2>2. Kept => Kept'
      BY <1>7, <2>1, ConfigFailures, KeptStays
    <2>3. CASE host'.copies = host.copies
      BY <1>0, <1>00, <1>7, <2>1, <2>2, <2>3, ConfigFailures DEF BackupInv
    <2>4. CASE host'.copies # host.copies
      <3>1. /\ mode' = "idle" /\ host'.dirs = host.dirs /\ dir \in host.dirs /\ faults' > 0
            /\ \E part \in Parts(host.config) : host'.copies = [host.copies EXCEPT ![dir] = {part}]
        BY <1>7, <2>4, ConfigFailures
      <3>2. PICK part \in Parts(host.config) : host'.copies = [host.copies EXCEPT ![dir] = {part}]
        BY <3>1
      <3>3. Broken(part)
        BY <1>0, <3>2, PartsAre DEF TypeOK, HostType
      <3>4. Kept'
        <4>1. dir \in 1 .. MaxRuns /\ host'.copies[dir] = {part}
          BY <1>00, <3>1, <3>2
        <4>2. dir \in host'.dirs /\ part \in host'.copies[dir]
          BY <3>1, <4>1
        <4> QED BY <3>3, <4>2 DEF Kept
      <3> QED BY <1>0, <1>00, <2>1, <3>1, <3>2, <3>3, <3>4 DEF BackupInv
    <2> QED BY <2>3, <2>4
  <1> QED BY <1>1, <1>2, <1>3, <1>4, <1>5, <1>6, <1>7 DEF Next
-----------------------------------------------------------------------------
\* A key that has been set is off, or stands in a Match block; a key that was
\* off stays off.
LEMMA SetOff ==
  /\ \A value \in Keys : \A match : Set(value, match) \in {"no", "matched"}
  /\ \A match : Set("no", match) = "no"
  BY DEF Set, Keys

\* What the edits make of sshd_config.
LEMMA Edited ==
  ASSUME IInv, Command
  PROVE  /\ Head(todo) = "root" => /\ host'.config.root \in {"no", "matched"}
                                   /\ host.config.root = "no" => host'.config.root = "no"
                                   /\ host'.config.empty = host.config.empty
         /\ Head(todo) = "empty" => /\ host'.config.empty \in {"no", "matched"}
                                    /\ host'.config.root = host.config.root
         /\ Head(todo) \in {"root", "empty"} => /\ host'.config.state = host.config.state
                                                /\ host'.config.included = host.config.included
         /\ Head(todo) \notin {"root", "empty", "restore"} => host'.config = host.config
  <1>1. host.config \in Files
    BY DEF IInv, TypeOK, HostType
  <1>2. CASE Head(todo) = "root"
    <2>1. host'.config = [host.config EXCEPT !.root = Set(host.config.root, host.config.match)]
      BY <1>2, ConfigEffects
    <2> QED BY <1>1, <1>2, <2>1, SetOff DEF Files
  <1>3. CASE Head(todo) = "empty"
    <2>1. host'.config = [host.config EXCEPT !.empty = Set(host.config.empty, host.config.match)]
      BY <1>3, ConfigEffects
    <2> QED BY <1>1, <1>3, <2>1, SetOff DEF Files
  <1>4. CASE Head(todo) \notin {"root", "empty", "restore"}
    BY <1>4, ConfigEffects DEF ForConfig
  <1> QED BY <1>2, <1>3, <1>4

LEMMA ConfigStep ==
  ASSUME IInv, Next
  PROVE  ConfigInv'
  <1>0. TypeOK /\ TodoInv /\ FirewallInv /\ BackupInv /\ ConfigInv
    BY DEF IInv
  <1>1. ASSUME NEW m \in {"audit", "plan", "apply"}, NEW root \in BOOLEAN, Start(m, root)
        PROVE  ConfigInv'
    <2>1. CASE m = "apply" /\ root
      <3>1. /\ site' = site /\ host' = host /\ before' = host.config /\ todo' = Commands /\ runs < MaxRuns
            /\ dir' \in {dir, dir + 1} \ {0} /\ same' = (same \/ dir' = dir)
        BY <1>1, <2>1 DEF Start, Begin
      <3>2. /\ ~Done("mkdir")' /\ (Done("backup")' <=> ~site.file)
            /\ site.file => ~Done("root")' /\ ~Done("empty")' /\ ~Done("test")'
        BY <1>0, <3>1, CommandsList, LinuxAssumption DEF Done, TypeOK
      <3>3. dir' > 0 /\ dir' \in Nat
        BY <1>0, <3>1, LinuxAssumption DEF TypeOK
      <3>4. same' \/ host.copies[dir'] = {}
        <4>1. CASE dir' = dir
          BY <3>1, <4>1
        <4>2. CASE dir' = dir + 1
          <5>1. dir' \in 1 .. MaxRuns /\ dir' > dir
            BY <1>0, <3>1, <4>2, LinuxAssumption DEF TypeOK
          <5>2. dir' \notin host.dirs
            BY <1>0, <5>1, LinuxAssumption DEF BackupInv, TypeOK
          <5> QED BY <1>0, <5>1, <5>2 DEF BackupInv
        <4> QED BY <3>1, <4>1, <4>2
      <3> QED BY <3>1, <3>2, <3>3, <3>4 DEF ConfigInv
    <2>2. CASE ~(m = "apply" /\ root)
      BY <1>1, <2>2 DEF Start, Begin, Ended, ConfigInv
    <2> QED BY <2>1, <2>2
  <1>2. ASSUME NEW t \in 1 .. MaxRuns, NEW root \in BOOLEAN, StartRollback(t, root)
        PROVE  ConfigInv'
    BY <1>2 DEF StartRollback, Begin, Ended, ConfigInv
  <1>3. ASSUME Command, mode = "apply" PROVE ConfigInv'
    <2> DEFINE c == Head(todo)
    <2>1. /\ todo # <<>> /\ UNCHANGED <<site, mode, dir, before, same>> /\ c \notin Special
          /\ ~Done(c) /\ \A d : Done(d)' <=> Done(d) \/ d = c
          /\ c \in ApplyCommands /\ \A d \in CommandNames : Rank(d) < Rank(c) => Done(d)
      <3>1. /\ todo # <<>> /\ UNCHANGED <<site, mode, dir, before, same>> /\ c \notin Special
            /\ todo' = Tail(todo)
        BY <1>3 DEF Command, runVars
      <3>2. /\ c \in Pending(todo) /\ c \in CommandNames /\ Pending(todo') = Pending(todo) \ {c}
            /\ \A d \in Pending(todo') : Rank(c) < Rank(d)
        BY <1>0, <3>1, TailDone
      <3>3. ~Done(c) /\ \A d : Done(d)' <=> Done(d) \/ d = c
        BY <3>2 DEF Done
      <3>4. c \in ApplyCommands
        BY <1>0, <1>3, <3>2 DEF TodoInv
      <3>5. ASSUME NEW d \in CommandNames, Rank(d) < Rank(c) PROVE Done(d)
        <4>1. d # c /\ ~(Rank(c) < Rank(d))
          BY <3>2, <3>5, RankLess
        <4> QED BY <3>2, <4>1 DEF Done
      <3> QED BY <3>1, <3>3, <3>4, <3>5
    <2>2. /\ c \in {"root", "empty"} => Done("backup")
          /\ ~Done("backup")' => ~Done("root")' /\ ~Done("empty")' /\ ~Done("test")'
      BY <1>0, <1>3, <2>1, RankValues DEF ConfigInv, CommandNames
    <2>3. CASE c \notin {"mkdir", "backup", "root", "empty"}
      <3>1. host'.config = host.config /\ host'.copies = host.copies /\ host'.dirs = host.dirs
        BY <1>3, <2>1, <2>3, ConfigEffects DEF ForConfig, ApplyCommands
      <3>2. c # "test"
        BY <2>1 DEF Special
      <3> QED BY <1>0, <2>1, <2>2, <2>3, <3>1, <3>2 DEF ConfigInv
    <2>4. CASE c = "mkdir"
      <3>1. host'.dirs = host.dirs \cup {dir} /\ host'.config = host.config /\ host'.copies = host.copies
        BY <1>3, <2>4, ConfigEffects
      <3> QED BY <1>0, <2>1, <2>2, <2>4, <3>1 DEF ConfigInv
    <2>5. CASE c = "backup"
      <3>1. /\ host'.copies = [host.copies EXCEPT ![dir] = {host.config}]
            /\ host'.config = host.config /\ host'.dirs = host.dirs
        BY <1>3, <2>5, ConfigEffects
      <3>2. dir \in 1 .. MaxRuns /\ host.config = before
        BY <1>0, <1>3, <2>1, <2>5, Prepared DEF ConfigInv
      <3>3. host'.copies[dir] = {before}
        BY <1>0, <3>1, <3>2 DEF TypeOK, HostType
      <3> QED BY <1>0, <1>3, <2>1, <2>2, <2>5, <3>1, <3>2, <3>3 DEF ConfigInv
    <2>6. CASE c \in {"root", "empty"}
      <3>1. host'.copies = host.copies /\ host'.dirs = host.dirs
        BY <1>3, <2>6, ConfigEffects
      <3>2. CASE c = "root"
        <4>1. host'.config.root \in {"no", "matched"} /\ host'.config.empty = host.config.empty
          BY <1>3, <3>2, Edited
        <4> QED BY <1>0, <2>1, <2>2, <3>1, <3>2, <4>1 DEF ConfigInv
      <3>3. CASE c = "empty"
        <4>1. host'.config.empty \in {"no", "matched"} /\ host'.config.root = host.config.root
          BY <1>3, <3>3, Edited
        <4> QED BY <1>0, <2>1, <2>2, <3>1, <3>3, <4>1 DEF ConfigInv
      <3> QED BY <2>6, <3>2, <3>3
    <2> QED BY <2>3, <2>4, <2>5, <2>6
  <1>4. ASSUME ChooseFirewall PROVE ConfigInv'
    <2>1. UNCHANGED <<mode, site, host, dir, before, same>>
      BY <1>4 DEF ChooseFirewall, runVars
    <2>2. \A c \in {"mkdir", "backup", "root", "empty", "test"} : Done(c)' <=> Done(c)
      BY <1>0, <1>4, Chosen DEF Done
    <2> QED BY <1>0, <2>1, <2>2 DEF ConfigInv
  <1>5. ASSUME TestConfig PROVE ConfigInv'
    <2>1. CASE Accepted(host.config) /\ site.sshd
      <3>1. /\ todo # <<>> /\ Head(todo) = "test" /\ todo' = Tail(todo)
            /\ UNCHANGED <<mode, site, host, dir, before, same>>
        BY <1>5, <2>1 DEF TestConfig, runVars
      <3>2. /\ \A c : Done(c)' <=> Done(c) \/ c = "test"
            /\ \A c \in CommandNames : Rank(c) < Rank("test") => Done(c)
        BY <1>0, <3>1, TailDone, RankType DEF Done
      <3>3. Done("backup") /\ Done("root") /\ Done("empty")
        BY <3>2, RankValues DEF CommandNames
      <3> QED BY <1>0, <2>1, <3>1, <3>2, <3>3 DEF ConfigInv, Accepted
    <2>2. CASE ~(Accepted(host.config) /\ site.sshd)
      BY <1>5, <2>2 DEF TestConfig, Ended, ConfigInv
    <2> QED BY <2>1, <2>2
  <1>6. CASE Verify \/ Finish \/ Kill \/ CommandFails \/ RestoreFails
    BY <1>6 DEF Verify, Finish, Kill, CommandFails, RestoreFails, Ended, ConfigInv
  <1>7. CASE Command /\ mode # "apply"
    BY <1>7 DEF Command, ConfigInv
  <1> QED BY <1>1, <1>2, <1>3, <1>4, <1>5, <1>6, <1>7 DEF Next

LEMMA ChecksStep ==
  ASSUME IInv, Next
  PROVE  ChecksInv'
  <1>0. TypeOK /\ TodoInv /\ ChecksInv
    BY DEF IInv
  <1>1. ASSUME NEW m \in {"audit", "plan", "apply"}, NEW root \in BOOLEAN, Start(m, root)
        PROVE  ChecksInv'
    BY <1>1 DEF Start, Begin, Ended, ChecksInv, Failures, FirewallActive, InForce, Effective, Accepted
  <1>2. ASSUME Command, mode = "apply" PROVE ChecksInv'
    <2> DEFINE c == Head(todo)
    <2>1. /\ UNCHANGED <<site, mode, failed>> /\ c \in CommandNames \ Special /\ host' \in Does(c)
          /\ c # "restore"
      BY <1>0, <1>2, TailDone DEF Command, runVars, TodoInv, ApplyCommands
    <2>2. /\ host.installed \subseteq host'.installed /\ host.on \subseteq host'.on
          /\ host'.updates => host.updates
      <3>1. CASE c \in ForFirewall
        <4>1. CASE c = "install"
          <5>1. PICK v : host' = [host EXCEPT !.installed = host.installed \cup v]
            BY <2>1, <4>1 DEF Does
          <5> QED BY <1>0, <5>1 DEF TypeOK, HostType
        <4>2. CASE c = "ufw_deny"
          BY <1>0, <2>1, <4>2 DEF Does, TypeOK, HostType
        <4>3. CASE c \in {"ufw_allow", "permit", "reload"}
          <5>1. PICK w : host' = [host EXCEPT !.allowed = w]
            BY <2>1, <4>3 DEF Does
          <5> QED BY <1>0, <5>1 DEF TypeOK, HostType
        <4>4. CASE c = "ufw_enable"
          <5>1. host' = [host EXCEPT !.on = @ \cup {"ufw"}]
            BY <2>1, <4>4 DEF Does
          <5> QED BY <1>0, <5>1 DEF TypeOK, HostType
        <4>5. CASE c = "start"
          <5>1. PICK w : host' = [host EXCEPT !.on = @ \cup {"firewalld"}, !.allowed = w]
            BY <2>1, <4>5 DEF Does
          <5> QED BY <1>0, <5>1 DEF TypeOK, HostType
        <4> QED BY <3>1, <4>1, <4>2, <4>3, <4>4, <4>5 DEF ForFirewall
      <3>2. CASE c = "upgrade"
        BY <1>0, <2>1, <3>2 DEF Does, TypeOK, HostType
      <3>3. CASE c \notin ForFirewall /\ c # "upgrade"
        BY <1>0, <1>2, <3>3, Frames
      <3> QED BY <3>1, <3>2, <3>3
    <2>3. /\ host'.config.state = host.config.state /\ host'.config.included = host.config.included
          /\ host.config.root = "no" => host'.config.root = "no"
          /\ host.config.empty # "yes" => host'.config.empty # "yes"
      BY <1>2, <2>1, Edited
    <2>4. ASSUME NEW s \in Settings, InForce(s) PROVE InForce(s)'
      <3>1. CASE s = "root"
        BY <2>3, <2>4, <3>1 DEF InForce, Effective, Accepted
      <3>2. CASE s = "empty"
        BY <2>3, <2>4, <3>2 DEF InForce, Effective, Accepted
      <3> QED BY <3>1, <3>2 DEF Settings
    <2> QED BY <1>0, <2>1, <2>2, <2>4 DEF ChecksInv
  <1>3. CASE ChooseFirewall
    BY <1>0, <1>3 DEF ChooseFirewall, runVars, ChecksInv, InForce, Effective, Accepted
  <1>4. CASE TestConfig
    <2>1. CASE host' = host
      BY <1>0, <1>4, <2>1 DEF TestConfig, Ended, runVars, ChecksInv, InForce, Effective, Accepted
    <2>2. CASE mode' = "idle"
      BY <2>2 DEF ChecksInv
    <2> QED BY <1>4, <2>1, <2>2 DEF TestConfig, Ended
  <1>5. CASE Verify \/ Finish \/ Kill \/ CommandFails \/ RestoreFails \/ (Command /\ mode # "apply")
    BY <1>5 DEF Verify, Finish, Kill, CommandFails, RestoreFails, Command, Ended, ChecksInv
  <1>6. ASSUME NEW t \in 1 .. MaxRuns, NEW root \in BOOLEAN, StartRollback(t, root)
        PROVE  ChecksInv'
    BY <1>6 DEF StartRollback, Begin, Ended, ChecksInv
  <1> QED BY <1>1, <1>2, <1>3, <1>4, <1>5, <1>6 DEF Next

LEMMA InvStep == IInv /\ [Next]_vars => IInv'
  <1>1. CASE Next
    BY <1>1, TypeStep, TodoStep, FirewallStep, BackupStep, ConfigStep, ChecksStep DEF IInv
  <1>2. CASE UNCHANGED vars
    BY <1>2 DEF vars, runVars, IInv, TypeOK, TodoInv, FirewallInv, BackupInv, ConfigInv, ChecksInv, Done, Kept, Copy, InForce, Effective, Accepted
  <1> QED BY <1>1, <1>2

LEMMA InvHolds == Spec => []IInv
  BY InitInv, InvStep, PTL DEF Spec

\* The host, the files and the run keep their types, and there is half a file only
\* where a command has failed.
THEOREM TypeCorrect == Spec => []TypeOK
  <1>1. IInv => TypeOK
    BY DEF IInv
  <1> QED BY <1>1, InvHolds, PTL

\* Wherever an apply breaks off, and however often it is run, the administrator
\* is shut out at most by a firewalld that the script itself started, or by a ufw
\* that ran and let everything in: on every host that let the administrator in.
THEOREM ShutOutOnlyThereHolds == Spec => []ShutOutOnlyThere
  <1>1. ASSUME IInv PROVE ShutOutOnlyThere
    <2>1. site \in Hosts /\ LetsIn(site.on, site.denies, site.allowed, site.service)
      BY <1>1, LinuxAssumption DEF IInv, TypeOK
    <2>2. CASE "ufw" \in host.on /\ host.deny /\ "ufw" \notin host.allowed
      BY <1>1, <2>1, <2>2 DEF IInv, FirewallInv, LetsIn, ShutOutOnlyThere
    <2>3. CASE "firewalld" \in host.on /\ site.service # "ssh" /\ "live" \notin host.allowed
      BY <1>1, <2>3 DEF IInv, FirewallInv, ShutOutOnlyThere
    <2> QED BY <2>2, <2>3 DEF ShutOutOnlyThere, Admitted, LetsIn
  <1>2. IInv => ShutOutOnlyThere
    BY <1>1
  <1> QED BY <1>2, InvHolds, PTL

\* The administrator's sshd_config is in place or whole in a backup, unless two
\* applies shared a second or a backup broke off.
THEOREM OriginalKeptHolds == Spec => []OriginalKept
  <1>1. IInv => OriginalKept
    BY DEF IInv, BackupInv, Kept, OriginalKept
  <1> QED BY <1>1, InvHolds, PTL

\* An apply that comes to its end has left the host open to its administrator, has
\* both settings in force but for included files that say yes and keys that stand in
\* a Match block only, and has kept whatever its own checks found in order.
THEOREM ApplyHardensHolds == Spec => []ApplyHardens
  <1>1. ASSUME IInv, mode = "apply", todo = <<>>
        PROVE  /\ Admitted
               /\ site.file => \A s \in Settings :
                     \/ InForce(s)
                     \/ Accepted(host.config) /\ host.config.included[s] = "yes"
                     \/ Accepted(host.config) /\ host.config[s] = "matched"
               /\ ~failed => ~Failures(TRUE)
    <2>1. \A c : Done(c)
      BY <1>1, EmptyList DEF Done
    <2>2. /\ TypeOK /\ FirewallInv /\ ConfigInv /\ ChecksInv
          /\ host.on \subseteq host.installed
      BY <1>1 DEF IInv, TypeOK
    <2>3. Admitted
      <3>1. LetsIn(site.on, site.denies, site.allowed, site.service)
        BY <2>2, LinuxAssumption DEF TypeOK
      <3>2. "ufw" \in host.on => "ufw" \in host.allowed
        BY <1>1, <2>1, <2>2 DEF FirewallInv
      <3>3. "firewalld" \in host.on => site.service = "ssh" \/ "live" \in host.allowed
        BY <1>1, <2>1, <2>2 DEF FirewallInv
      <3> QED BY <3>2, <3>3 DEF Admitted, LetsIn
    <2>4. ASSUME site.file, NEW s \in Settings
          PROVE  \/ InForce(s)
                 \/ Accepted(host.config) /\ host.config.included[s] = "yes"
                 \/ Accepted(host.config) /\ host.config[s] = "matched"
      <3>1. /\ Accepted(host.config)
            /\ host.config.root \in {"no", "matched"} /\ host.config.empty \in {"no", "matched"}
        BY <1>1, <2>1, <2>2, <2>4 DEF ConfigInv
      <3>2. host.config[s] \in {"no", "matched"}
        BY <3>1 DEF Settings
      <3>3. host.config.included[s] \in {"none", "no", "yes"}
        BY <2>2 DEF TypeOK, HostType, Files
      <3> QED BY <3>1, <3>2, <3>3 DEF InForce, Effective
    <2>5. ASSUME ~failed PROVE ~Failures(TRUE)
      <3>1. FirewallActive(TRUE)
        BY <1>1, <2>1, <2>2, <2>5 DEF FirewallInv, ChecksInv, FirewallActive
      <3>2. site.sshd => \A s \in Settings : InForce(s)
        BY <1>1, <2>2, <2>5 DEF ChecksInv
      <3>3. host.updates => site.manager = "other"
        BY <1>1, <2>2, <2>5 DEF ChecksInv
      <3> QED BY <3>1, <3>2, <3>3 DEF Failures
    <2> QED BY <2>3, <2>4, <2>5
  <1>2. IInv => ApplyHardens
    BY <1>1 DEF ApplyHardens
  <1> QED BY <1>2, InvHolds, PTL

\* Whenever the script says that the old sshd_config is back, it is, unless a
\* rollback takes a part of a copy that sshd accepts.
THEOREM RestoredIsTrueHolds == Spec => RestoredIsTrue
  <1> DEFINE Told == \/ mode = "apply" /\ exit' = "2"
                     \/ mode = "rollback" /\ exit' = "0" /\ source = dir /\ host.copies[source] # {} /\ ~same
             IsBack == Told => \/ host'.config = before
                               \/ mode = "rollback" /\ Copy(source).state = "cut"
  <1>1. ASSUME IInv, Next PROVE IsBack
    <2>0. TypeOK /\ TodoInv /\ FirewallInv /\ BackupInv /\ ConfigInv
      BY <1>1 DEF IInv
    <2>1. CASE (\E m \in {"audit", "plan", "apply"}, root \in BOOLEAN : Start(m, root))
               \/ \E t \in 1 .. MaxRuns, root \in BOOLEAN : StartRollback(t, root)
      BY <2>1 DEF Start, StartRollback
    <2>2. CASE Command \/ ChooseFirewall
      BY <2>0, <2>2 DEF Command, ChooseFirewall, TodoInv
    <2>3. CASE CommandFails \/ RestoreFails \/ Kill
      BY <2>3 DEF CommandFails, RestoreFails, Kill, Ended
    <2>4. CASE Finish
      <3>1. mode # "rollback"
        BY <2>0, <2>4, EmptyList DEF Finish, TodoInv, Done
      <3> QED BY <2>4, <3>1 DEF Finish, Ended
    <2>5. CASE TestConfig
      <3>1. mode = "apply" /\ dir \in 1 .. MaxRuns /\ host.copies[dir] = {before}
        BY <2>0, <2>5, Prepared DEF TestConfig
      <3>2. Copy(dir) = before
        BY <3>1, CopyIn
      <3>3. CASE UNCHANGED <<host, mode, exit>>
        BY <2>0, <3>1, <3>3 DEF TodoInv
      <3>4. CASE host' = [host EXCEPT !.config = Copy(dir)]
        BY <2>0, <3>1, <3>2, <3>4 DEF TypeOK, HostType
      <3> QED BY <2>5, <3>3, <3>4 DEF TestConfig
    <2>6. CASE Verify
      <3>1. todo = <<"verify">> /\ host' = host /\ Ended(IF Accepted(host.config) /\ site.sshd THEN "0" ELSE "255")
        BY <2>6 DEF Verify
      <3>2. mode = "rollback" /\ source \in 1 .. MaxRuns /\ Done("restore")
        <4>1. todo # <<>> /\ Head(todo) = "verify" /\ Tail(todo) = <<>>
          BY <3>1
        <4>2. "restore" \notin Pending(todo)
          <5>1. todo \in Seq(CommandNames) /\ todo # <<>> /\ InOrder(todo)
            BY <2>0, <4>1 DEF TypeOK, TodoInv
          <5>2. Pending(Tail(todo)) = Pending(todo) \ {Head(todo)}
            BY <5>1, TailPending
          <5>3. Pending(todo) \ {"verify"} = {}
            BY <4>1, <5>2, EmptyList
          <5> QED BY <5>3
        <4> QED BY <2>0, <4>1, <4>2, Prepared DEF Done
      <3>3. CASE Told
        <4>1. Accepted(host.config) /\ source = dir /\ host.copies[source] # {} /\ ~same
          BY <3>1, <3>2, <3>3 DEF Ended
        <4>2. host.config = Copy(source) /\ host.config \in host.copies[dir]
          BY <2>0, <3>2, <4>1, CopyIn DEF BackupInv
        <4>3. host.copies[dir] = {before} \/ \A file \in host.copies[dir] : Broken(file)
          BY <2>0, <3>2, <4>1 DEF BackupInv
        <4> QED BY <3>1, <3>2, <4>1, <4>2, <4>3 DEF Accepted, Broken
      <3> QED BY <3>3
    <2> QED BY <1>1, <2>1, <2>2, <2>3, <2>4, <2>5, <2>6 DEF Next
  <1>2. IInv /\ [Next]_vars => [IsBack]_vars
    BY <1>1
  <1> QED BY <1>2, InvHolds, PTL DEF Spec, RestoredIsTrue
=============================================================================
