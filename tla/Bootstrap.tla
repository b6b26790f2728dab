----------------------------- MODULE Bootstrap -----------------------------
(***************************************************************************)
(* bootstrap_node (bootstrap.py) on one node.  Every command it sends over *)
(* ssh is a step named for the command; the session may end between any    *)
(* two.  A command that fails raises, which ends the bootstrap; the caller *)
(* (init, add-node) may run it again from the start.                       *)
(*                                                                         *)
(* What a command leaves on the node is a fact of the same name.  Nearly   *)
(* all of them can be repeated; what a command relies on, and the ones     *)
(* that cannot be repeated, are in Succeeds.                               *)
(*                                                                         *)
(* The session gives up on a command that stays silent for its timeout of  *)
(* 30 seconds, and the command runs on: an apt-get left behind so holds    *)
(* the package lock until it is done.                                      *)
(***************************************************************************)
EXTENDS Naturals, Sequences

CONSTANTS
  PortBase,  \* port_base of a near node
  WgPort,    \* wg_port of a node that has one
  Mirror     \* settings.bootstrap.mirror is set

VARIABLES
  kind,     \* what bootstrap_node looks at: role, provider, whether it has a wg_port
  facts,    \* what the commands have left on the node
  at,       \* position in the script, 0 when no bootstrap is under way
  returned, \* the latest bootstrap ran to its end
  late      \* the apt-get a session left running, or "none"

\* wg_port is a field of far nodes; a far node of protocol remote-socks has none.
Kinds == {k \in [role : {"near", "far"}, gcp : BOOLEAN, wg : BOOLEAN] :
            k.wg => k.role = "far"}

----------------------------------------------------------------------------
\* Mutation: the user is created without asking whether it exists.
CreateServiceUserBlindly == <<"useradd", "usermod", "sudoers", "chmodSudoers">>

CreateServiceUser == <<"id", "useradd", "usermod", "sudoers", "chmodSudoers">>

InstallPackages == <<"aptUpdate", "aptPackages">>

TuneSysctl == <<"modprobe", "writeSysctl", "sysctl">>

InstallSingbox ==
  (IF Mirror THEN <<"download">> ELSE <<"release", "url", "download">>)
  \o <<"mkInstall", "extract", "install", "mkConfig", "mkCerts",
       "unit", "daemonReload", "enable", "cleanup">>

\* Mutation: the firewall is enabled before ssh is let through.
SetupUfwLast ==
  IF kind.gcp THEN <<>>
  ELSE <<"aptUfw", "denyIncoming", "allowOutgoing", "ufwEnable", "allowSsh">>
       \o (IF kind.role = "near"
           THEN <<"allowReality", "allowHy2", "allowCdn", "allowAnytls">>
           ELSE <<>>)
       \o (IF kind.wg THEN <<"allowWg">> ELSE <<>>)

SetupUfw ==
  IF kind.gcp THEN <<>>
  ELSE <<"aptUfw", "denyIncoming", "allowOutgoing", "allowSsh">>
       \o (IF kind.role = "near"
           THEN <<"allowReality", "allowHy2", "allowCdn", "allowAnytls">>
           ELSE <<>>)
       \o (IF kind.wg THEN <<"allowWg">> ELSE <<>>)
       \o <<"ufwEnable">>

InstallFail2ban == <<"aptFail2ban", "enableFail2ban", "startFail2ban">>

GenerateSelfSignedCert ==
  IF kind.role # "near" THEN <<>>
  ELSE <<"mkCerts", "openssl", "chmodKey", "chmodCert", "chownKey", "chownCert">>

SetupWgMssClamp == <<"clamp", "aptPersistent", "save">>

Script ==
  CreateServiceUser \o InstallPackages \o TuneSysctl \o InstallSingbox
  \o <<"aptWireguard">> \o SetupUfw \o InstallFail2ban
  \o GenerateSelfSignedCert \o SetupWgMssClamp

Apt == {"aptUpdate", "aptPackages", "aptWireguard", "aptUfw", "aptFail2ban", "aptPersistent"}

\* Files below /tmp.
Temporary == {"release", "url", "download", "mkInstall", "extract"}

UserExists == "useradd" \in facts

\* What command c finds missing makes it fail, with a non-zero status.
ReliesOn(c) ==
  CASE c \in {"usermod", "chownKey", "chownCert"} -> {"useradd"}
    [] c = "chmodSudoers"               -> {"sudoers"}
    [] c = "sysctl"                     -> {"modprobe", "writeSysctl"}
    [] c = "url"                        -> {"release"}
    [] c = "download" /\ ~Mirror   -> {"url"}
    [] c = "extract"                    -> {"download", "mkInstall"}
    [] c = "install"                    -> {"extract"}
    [] c = "enable"                     -> {"unit"}
    [] c \in {"denyIncoming", "allowOutgoing", "allowSsh", "allowReality", "allowHy2",
              "allowCdn", "allowAnytls", "allowWg", "ufwEnable"} -> {"aptUfw"}
    [] c \in {"enableFail2ban", "startFail2ban"} -> {"aptFail2ban"}
    [] c = "openssl"                    -> {"mkCerts"}
    [] c \in {"chmodKey", "chmodCert"}  -> {"openssl"}
    [] c = "save"                       -> {"aptPersistent"}
    [] OTHER                            -> {}

Succeeds(c) ==
  /\ ReliesOn(c) \subseteq facts
  /\ c = "useradd" => ~UserExists
  /\ c \in Apt => late = "none"

After(c) ==
  CASE c = "id"      -> facts
    [] c = "cleanup" -> facts \ Temporary
    [] OTHER         -> facts \cup {c}

----------------------------------------------------------------------------
BootInit ==
  /\ kind \in Kinds
  /\ facts = {} /\ at = 0 /\ returned = FALSE /\ late = "none"

BootBegin ==
  /\ at = 0
  /\ at' = 1 /\ returned' = FALSE
  /\ UNCHANGED <<kind, facts, late>>

\* An existing user is not created again, and _create_service_user returns.
Exec ==
  /\ at # 0
  /\ LET c    == Script[at]
         next == IF c = "id" /\ UserExists THEN at + Len(CreateServiceUser) ELSE at + 1
     IN  /\ Succeeds(c)
         /\ facts' = After(c)
         /\ at' = IF next > Len(Script) THEN 0 ELSE next
         /\ returned' = (next > Len(Script))
  /\ UNCHANGED <<kind, late>>

\* Mutation: a command that fails is passed over.
GoOn ==
  /\ at # 0
  /\ ~Succeeds(Script[at])
  /\ at' = IF at = Len(Script) THEN 0 ELSE at + 1
  /\ returned' = (at = Len(Script))
  /\ UNCHANGED <<kind, facts, late>>

\* ssh.exec raises on a non-zero status.
Raise ==
  /\ at # 0
  /\ ~Succeeds(Script[at])
  /\ at' = 0
  /\ UNCHANGED <<kind, facts, returned, late>>

\* The session ends before the pending command is sent, or with the answer of the
\* command before it.
Drop ==
  /\ at # 0
  /\ at' = 0
  /\ UNCHANGED <<kind, facts, returned, late>>

\* apt-get is silent for longer than the session waits, and runs on.
TimeOut ==
  /\ at # 0
  /\ Script[at] \in Apt /\ late = "none"
  /\ late' = Script[at]
  /\ at' = 0
  /\ UNCHANGED <<kind, facts, returned>>

AptEnds ==
  /\ late # "none"
  /\ facts' = facts \cup {late}
  /\ late' = "none"
  /\ UNCHANGED <<kind, at, returned>>

\* A reboot empties /tmp, unloads the conntrack module with the settings that need
\* it, and forgets iptables rules that were not saved.  dpkg is left alone: no
\* reboot while apt-get runs.
BootReboot ==
  /\ late = "none"
  /\ at # 0 => Script[at] \notin Apt
  /\ at' = 0
  /\ facts' = facts \ (Temporary \cup {"modprobe", "sysctl"}
                       \cup IF "save" \in facts THEN {} ELSE {"clamp"})
  /\ UNCHANGED <<kind, returned, late>>

----------------------------------------------------------------------------
\* The firewall: default deny with the ports that are let through.
Rule ==
  [allowSsh     |-> <<"tcp", 22>>,
   allowReality |-> <<"tcp", PortBase>>,
   allowHy2     |-> <<"udp", PortBase + 1>>,
   allowCdn     |-> <<"tcp", 2053>>,
   allowAnytls  |-> <<"tcp", 8443>>,
   allowWg      |-> <<"udp", WgPort>>]

Firewalled == {"denyIncoming", "ufwEnable"} \subseteq facts
Allowed == {Rule[c] : c \in facts \cap DOMAIN Rule}
LetThrough(port) == Firewalled => port \in Allowed

\* What a bootstrap that returns is sure to have left: the service user, the packages,
\* sing-box and its service, the firewall, fail2ban, the certificate and the saved MSS
\* clamp.  The user's groups and sudo rights are not in it, although they outlive a
\* reboot: a session that ends after useradd leaves a user that every later bootstrap
\* takes for complete.  Nor is the conntrack module, which a reboot unloads together
\* with its settings.
Delivered ==
  {Script[i] : i \in DOMAIN Script}
    \ (Temporary \cup {"id", "cleanup", "modprobe", "sysctl",
                       "usermod", "sudoers", "chmodSudoers"})
============================================================================
