--------------------------- MODULE MCLinuxHarden ---------------------------
(* Hosts that vary the firewalls around a usual sshd_config, and the         *)
(* sshd_config around a usual firewall.  Every host lets its administrator   *)
(* in at first.                                                              *)
EXTENDS LinuxHarden

Nothing == [s \in Settings |-> "none"]
FileOf(root, empty, match, included, state) ==
    [root |-> root, empty |-> empty, match |-> match, included |-> included, state |-> state]
File(root, empty, match, state) == FileOf(root, empty, match, Nothing, state)
Usual == File("comment", "comment", FALSE, "sound")
Host(manager, on, off, denies, allowed, service, sshd, file, config) ==
    [manager |-> manager, on |-> on, off |-> off, denies |-> denies, allowed |-> allowed,
     service |-> service, sshd |-> sshd, file |-> file, config |-> config,
     updates |-> manager = "apt"]

Firewalled ==
    {h \in {Host(m, on, off, d, al, s, TRUE, TRUE, File("no", "absent", FALSE, "sound")) :
                m \in {"apt", "dnf", "other"},
                on \in {{}, {"ufw"}, {"firewalld"}}, off \in {{}, {"firewalld"}},
                d \in BOOLEAN, al \in {{}, {"ufw"}, {"live"}, {"permanent", "live"}},
                s \in {"ssh", "port", "unknown"}} :
        LetsIn(h.on, h.denies, h.allowed, h.service)}
Configured ==
    {Host("other", {"ufw"}, {}, TRUE, {"ufw"}, "ssh", sshd, TRUE, File(r, e, match, state)) :
        sshd \in BOOLEAN, r \in {"yes", "comment", "absent"}, e \in {"yes", "absent"},
        match \in BOOLEAN, state \in {"sound", "refused"}}
Included ==
    {Host("other", {"ufw"}, {}, TRUE, {"ufw"}, "ssh", TRUE, TRUE,
          FileOf(r, "comment", TRUE, [Nothing EXCEPT ![s] = v], "sound")) :
        r \in {"comment", "match comment"}, s \in Settings, v \in {"no", "yes"}}
NoFile == {Host("apt", {}, {}, TRUE, {}, "ssh", sshd, FALSE, Usual) : sshd \in BOOLEAN}

AllHosts == Firewalled \cup Configured \cup Included \cup NoFile
=============================================================================
