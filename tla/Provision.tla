----------------------------- MODULE Provision -----------------------------
(***************************************************************************)
(* The life of one node in the hands of add-node and init: it is           *)
(* bootstrapped until that succeeds, then configurations are deployed to   *)
(* it.  The ssh sessions of both drop, and the node reboots, at any step.  *)
(*                                                                         *)
(* init deploys to a node whose bootstrap failed as well, and run anew it  *)
(* bootstraps a node that serves; neither is modelled.                     *)
(***************************************************************************)
EXTENDS NodeDeploy, Sequences

CONSTANTS
  PortBase, WgPort, Mirror,
  MaxBootstraps,  \* bound on bootstraps of a node that is bootstrapped
  MaxBootLost     \* bound on sessions lost while they bootstrap

ASSUME ProvisionAssumption ==
  /\ PortBase \in Nat /\ WgPort \in Nat /\ Mirror \in BOOLEAN
  /\ MaxBootstraps \in Nat /\ MaxBootLost \in Nat

VARIABLES kind, facts, at, returned, late, bootstraps, bootLost

Boot == INSTANCE Bootstrap

boot == <<kind, facts, at, returned, late>>
counts == <<bootstraps, bootLost>>
allVars == <<vars, boot, counts>>

ProvisionInit == Init /\ Boot!BootInit /\ bootstraps = 0 /\ bootLost = 0

----------------------------------------------------------------------------
\* A bootstrap that did not return is repeated.
Retry ==
  /\ ~returned
  /\ Boot!BootBegin
  /\ UNCHANGED <<vars, counts>>

\* init checkpoints its step 6 when it has been through all nodes: resumed before
\* that, it bootstraps a node again that was done.
Again ==
  /\ returned
  /\ \A d \in Deployer : At(d, "idle") /\ outcome[d] = "none"
  /\ bootstraps < MaxBootstraps
  /\ bootstraps' = bootstraps + 1
  /\ Boot!BootBegin
  /\ UNCHANGED <<vars, bootLost>>

BootStep ==
  /\ Boot!Exec \/ Boot!Raise
  /\ UNCHANGED <<vars, counts>>

AptEnds ==
  /\ Boot!AptEnds
  /\ UNCHANGED <<vars, counts>>

LoseBootstrap ==
  /\ bootLost < MaxBootLost
  /\ bootLost' = bootLost + 1
  /\ Boot!Drop \/ Boot!TimeOut
  /\ UNCHANGED <<vars, bootstraps>>

DeployStep ==
  /\ \/ returned /\ \E d \in Deployer, c \in Config : Begin(d, c)
     \/ \E d \in Deployer : Command(d)
     \/ \E d \in Deployer : Lose(d)
  /\ UNCHANGED <<boot, counts>>

NodeReboots ==
  /\ Reboot
  /\ Boot!BootReboot
  /\ UNCHANGED counts

ProvisionNext ==
  \/ Retry \/ Again \/ BootStep \/ AptEnds \/ LoseBootstrap
  \/ DeployStep \/ NodeReboots

\* A bootstrap that did not return is run again, every command sent by ssh.exec
\* ends (NodeDeploy says on what assumption), and so does an apt-get left behind.
\* An upload need not end.
ProvisionSpec ==
  /\ ProvisionInit /\ [][ProvisionNext]_allVars
  /\ WF_allVars(Retry) /\ WF_allVars(BootStep) /\ WF_allVars(AptEnds)
  /\ \A d \in Deployer : WF_allVars(Answered(d) /\ UNCHANGED <<boot, counts>>)

----------------------------------------------------------------------------
\* The firewall never shuts out the ssh session that sets it up, nor the next one,
\* wherever an earlier bootstrap stopped.
NeverLockedOut == Boot!LetThrough(<<"tcp", 22>>)

\* A bootstrap that returned has left all that Delivered names, however many before
\* it were cut short, left an apt-get running or were undone by a reboot.  It says
\* nothing of the service user's sudo rights, which may be missing for good, nor of
\* the conntrack settings, which a reboot loses.
Provisioned == returned => Boot!Delivered \subseteq facts

\* Repeating a bootstrap gets it to its end: no command fails for what an earlier,
\* interrupted bootstrap left behind.
BootstrapReturns == (at # 0) ~> returned

\* What check_fleet asks of a near node.  A dropped datagram looks like a service
\* that does not answer, so that only the tcp probes tell.
TcpProbes ==
  IF kind.role = "near"
  THEN {<<"tcp", PortBase + 1>>, <<"tcp", PortBase + 2>>, <<"tcp", 2053>>, <<"tcp", 8443>>}
  ELSE {}

\* A node that is bootstrapped and serves what was deployed to it passes the checks
\* ("Opens: SSH(22), sing-box ports based on role.", bootstrap.py).
HealthyOnceDeployed ==
  returned /\ running # Down => \A p \in TcpProbes : Boot!LetThrough(p)
=============================================================================
