----------------------------- MODULE NodeDeploy -----------------------------
(***************************************************************************)
(* deploy_node (deploy.py) against one node.  Every command sent over ssh  *)
(* is a step: other deployers of the same node (another vvnext process)    *)
(* and the loss of the connection come between any two of them.  An ssh    *)
(* error is an exception that leaves deploy_node at once; deploy_fleet     *)
(* turns it into a failed result.                                          *)
(*                                                                         *)
(* A configuration is a model value.  What the node makes of it is in      *)
(* three sets: Checked (sing-box check accepts it), Good (the service runs *)
(* with it) and Flaky (checked, but the service keeps dying and restarting *)
(* so that systemctl is-active answers either way).                        *)
(***************************************************************************)
EXTENDS Naturals

CONSTANTS
  Deployer,    \* vvnext processes that may deploy to the node at once
  Config,      \* rendered configurations
  Checked, Good, Flaky,
  Missing,     \* no such file
  Partial,     \* a file whose upload has begun and not ended
  Down,        \* the service is not running
  MaxLost,     \* bound on lost connections
  MaxReboots   \* bound on reboots of the node

ASSUME DeployAssumption ==
  /\ Checked \subseteq Config
  /\ Good \subseteq Checked
  /\ Flaky \subseteq Checked \ Good
  /\ Missing \notin Config /\ Partial \notin Config /\ Down \notin Config
  /\ Missing # Partial
  /\ MaxLost \in Nat /\ MaxReboots \in Nat

VARIABLES
  tmp,       \* /tmp/config.json
  conf,      \* /etc/sing-box/config.json
  bak,       \* /etc/sing-box/config.json.bak
  running,   \* the configuration the service runs with, or Down
  step,      \* the step of deploy_node each deployer has reached
  cfg,       \* the configuration it deploys
  hasBackup, \* its local has_backup
  outcome,   \* result of each deployer's latest attempt
  before,    \* conf and running when that attempt began
  lost, reboots

files == <<tmp, conf, bak>>
job == <<cfg, hasBackup>>
vars == <<tmp, conf, bak, running, step, cfg, hasBackup, outcome, before, lost, reboots>>

Steps == {"idle", "upload", "uploading", "validate", "cleanup", "testConf",
          "backup", "replace", "restart", "verify",
          "rbTest", "rbCopy", "rbRestart", "rbVerify"}

Outcomes == {"none", "ok", "failed", "lost"}

Init ==
  /\ tmp = Missing /\ conf = Missing /\ bak = Missing
  /\ running = Down
  /\ step = [d \in Deployer |-> "idle"]
  /\ cfg = [d \in Deployer |-> Missing]
  /\ hasBackup = [d \in Deployer |-> FALSE]
  /\ outcome = [d \in Deployer |-> "none"]
  /\ before = [d \in Deployer |-> [conf |-> Missing, running |-> Down]]
  /\ lost = 0 /\ reboots = 0

----------------------------------------------------------------------------
At(d, s) == step[d] = s
Goto(d, s) == step' = [step EXCEPT ![d] = s]

\* The attempt of d ends; its step goes back to "idle".
End(d, result) ==
  /\ Goto(d, "idle")
  /\ outcome' = [outcome EXCEPT ![d] = result]

\* What the service runs with once it is started on configuration c.
Started(c) == IF c \in Good THEN c ELSE Down

Begin(d, c) ==
  /\ At(d, "idle")
  /\ Goto(d, "upload")
  /\ cfg' = [cfg EXCEPT ![d] = c]
  /\ hasBackup' = [hasBackup EXCEPT ![d] = FALSE]
  /\ before' = [before EXCEPT ![d] = [conf |-> conf, running |-> running]]
  /\ UNCHANGED <<files, running, outcome, lost, reboots>>

\* sftp put: the remote file is opened for writing, then filled.  A file renamed
\* or removed in between is not filled under its old name.
Upload(d) ==
  /\ At(d, "upload")
  /\ tmp' = Partial
  /\ Goto(d, "uploading")
  /\ UNCHANGED <<conf, bak, running, outcome, job, before, lost, reboots>>

UploadDone(d) ==
  /\ At(d, "uploading")
  /\ tmp' = IF tmp = Missing THEN Missing ELSE cfg[d]
  /\ Goto(d, "validate")
  /\ UNCHANGED <<conf, bak, running, outcome, job, before, lost, reboots>>

\* Mutation: the exit status of sing-box check is not looked at.
ValidateIgnored(d) ==
  /\ At(d, "validate")
  /\ Goto(d, "testConf")
  /\ UNCHANGED <<files, running, outcome, job, before, lost, reboots>>

\* Mutation: a configuration that fails the check is uploaded again.
ValidateRetries(d) ==
  /\ At(d, "validate")
  /\ Goto(d, IF tmp \in Checked THEN "testConf" ELSE "upload")
  /\ UNCHANGED <<files, running, outcome, job, before, lost, reboots>>

Validate(d) ==
  /\ At(d, "validate")
  /\ Goto(d, IF tmp \in Checked THEN "testConf" ELSE "cleanup")
  /\ UNCHANGED <<files, running, outcome, job, before, lost, reboots>>

Cleanup(d) ==
  /\ At(d, "cleanup")
  /\ tmp' = Missing
  /\ End(d, "failed")
  /\ UNCHANGED <<conf, bak, running, job, before, lost, reboots>>

\* Mutation: has_backup does not wait for the answer of test -f.
TestConfAssumed(d) ==
  /\ At(d, "testConf")
  /\ Goto(d, IF conf = Missing THEN "replace" ELSE "backup")
  /\ hasBackup' = [hasBackup EXCEPT ![d] = TRUE]
  /\ UNCHANGED <<files, running, outcome, cfg, before, lost, reboots>>

TestConf(d) ==
  /\ At(d, "testConf")
  /\ Goto(d, IF conf = Missing THEN "replace" ELSE "backup")
  /\ UNCHANGED <<files, running, outcome, job, before, lost, reboots>>

\* Mutation: the backup is taken only once.
BackupOnce(d) ==
  /\ At(d, "backup")
  /\ bak' = IF bak = Missing THEN conf ELSE bak
  /\ Goto(d, "replace")
  /\ hasBackup' = [hasBackup EXCEPT ![d] = TRUE]
  /\ UNCHANGED <<tmp, conf, running, outcome, cfg, before, lost, reboots>>

Backup(d) ==
  /\ At(d, "backup")
  /\ bak' = conf
  /\ Goto(d, "replace")
  /\ hasBackup' = [hasBackup EXCEPT ![d] = TRUE]
  /\ UNCHANGED <<tmp, conf, running, outcome, cfg, before, lost, reboots>>

\* mv fails, and ssh.exec raises, when the file is gone.
Replace(d) ==
  /\ At(d, "replace")
  /\ IF tmp = Missing
     THEN End(d, "failed") /\ UNCHANGED <<tmp, conf>>
     ELSE /\ conf' = tmp
          /\ tmp' = Missing
          /\ Goto(d, "restart")
          /\ UNCHANGED outcome
  /\ UNCHANGED <<bak, running, job, before, lost, reboots>>

\* Mutation: systemctl start, which leaves a service that is running alone.
RestartAsStart(d) ==
  /\ At(d, "restart")
  /\ running' = IF running # Down THEN running ELSE Started(conf)
  /\ Goto(d, "verify")
  /\ UNCHANGED <<files, outcome, job, before, lost, reboots>>

Restart(d) ==
  /\ At(d, "restart")
  /\ running' = Started(conf)
  /\ Goto(d, "verify")
  /\ UNCHANGED <<files, outcome, job, before, lost, reboots>>

\* Mutation: the answer of is-active is read the wrong way round.
VerifyInverted(d) ==
  /\ At(d, "verify")
  /\ \/ running = Down /\ End(d, "ok")
     \/ running # Down /\ hasBackup[d] /\ Goto(d, "rbTest") /\ UNCHANGED outcome
     \/ running # Down /\ ~hasBackup[d] /\ End(d, "failed")
  /\ UNCHANGED <<files, running, job, before, lost, reboots>>

Active == running # Down \/ conf \in Flaky
Inactive == running = Down

Verify(d) ==
  /\ At(d, "verify")
  /\ \/ Active /\ End(d, "ok")
     \/ Inactive /\ hasBackup[d] /\ Goto(d, "rbTest") /\ UNCHANGED outcome
     \/ Inactive /\ ~hasBackup[d] /\ End(d, "failed")
  /\ UNCHANGED <<files, running, job, before, lost, reboots>>

RbTest(d) ==
  /\ At(d, "rbTest")
  /\ IF bak = Missing THEN End(d, "failed")
                      ELSE Goto(d, "rbCopy") /\ UNCHANGED outcome
  /\ UNCHANGED <<files, running, job, before, lost, reboots>>

RbCopy(d) ==
  /\ At(d, "rbCopy")
  /\ conf' = bak
  /\ Goto(d, "rbRestart")
  /\ UNCHANGED <<tmp, bak, running, outcome, job, before, lost, reboots>>

RbRestart(d) ==
  /\ At(d, "rbRestart")
  /\ running' = Started(conf)
  /\ Goto(d, "rbVerify")
  /\ UNCHANGED <<files, outcome, job, before, lost, reboots>>

\* deploy_node does not look at what _rollback answers.
RbVerify(d) ==
  /\ At(d, "rbVerify")
  /\ End(d, "failed")
  /\ UNCHANGED <<files, running, job, before, lost, reboots>>

----------------------------------------------------------------------------
\* The connection drops before the pending command is sent, or the command of
\* the step before this one took effect and its answer did not come back.
\* A command whose status is not checked then returns without output instead of
\* raising, but the next one raises: nothing more is done either way.
Lose(d) ==
  /\ lost < MaxLost
  /\ ~At(d, "idle")
  /\ lost' = lost + 1
  /\ End(d, "lost")
  /\ UNCHANGED <<files, running, job, before, reboots>>

\* The node reboots: connections drop, /tmp is emptied, the service starts on
\* whatever configuration is installed.
Reboot ==
  /\ reboots < MaxReboots
  /\ reboots' = reboots + 1
  /\ tmp' = Missing
  /\ running' = Started(conf)
  /\ outcome' = [d \in Deployer |-> IF At(d, "idle") THEN outcome[d] ELSE "lost"]
  /\ step' = [d \in Deployer |-> "idle"]
  /\ UNCHANGED <<conf, bak, job, before, lost>>

Command(d) ==
  \/ Upload(d) \/ UploadDone(d) \/ Validate(d) \/ Cleanup(d)
  \/ TestConf(d) \/ Backup(d) \/ Replace(d) \/ Restart(d) \/ Verify(d)
  \/ RbTest(d) \/ RbCopy(d) \/ RbRestart(d) \/ RbVerify(d)

Next ==
  \/ \E d \in Deployer, c \in Config : Begin(d, c)
  \/ \E d \in Deployer : Command(d)
  \/ \E d \in Deployer : Lose(d)
  \/ Reboot

Spec == Init /\ [][Next]_vars

\* ssh.exec reads the answers to a command with a timeout.  It then waits for the exit
\* status without one: that the node sends it when it has closed the output is assumed.
\* An upload has no timeout either (open_sftp, put), and may stall for ever.
InUpload(d) == step[d] \in {"upload", "uploading"}
Answered(d) == ~InUpload(d) /\ Command(d)

FairSpec == Spec /\ \A d \in Deployer : WF_vars(Answered(d))

----------------------------------------------------------------------------
File == Config \cup {Missing, Partial}

\* Types, and what test -f has told a deployer stays true: the configuration and the
\* backup, once there, are there for good, and has_backup stands for a backup.
TypeOK ==
  /\ tmp \in File
  /\ conf \in File
  /\ bak \in File
  /\ running \in Good \cup {Down}
  /\ step \in [Deployer -> Steps]
  /\ cfg \in [Deployer -> Config \cup {Missing}]
  /\ hasBackup \in [Deployer -> BOOLEAN]
  /\ \A d \in Deployer : /\ hasBackup[d] \/ At(d, "rbCopy") => bak # Missing
                         /\ At(d, "backup") => conf # Missing
  /\ outcome \in [Deployer -> Outcomes]
  /\ before \in [Deployer -> [conf : File, running : Good \cup {Down}]]
  /\ lost \in 0 .. MaxLost
  /\ reboots \in 0 .. MaxReboots

\* Only a configuration that passed sing-box check on the node is ever installed
\* or kept as a backup, also across lost connections, reboots and rollbacks
\* ("remote validation before replace", docs/architecture.md).
OnlyCheckedInstalled == {conf, bak} \subseteq Checked \cup {Missing}

\* An attempt that fails without losing its connection leaves the configuration
\* file it found, once there was one ("On failure: auto-rollback from .bak").
FailedRestores ==
  \A d \in Deployer :
    At(d, "idle") /\ outcome[d] = "failed" /\ before[d].conf # Missing
      => conf = before[d].conf

\* The same, whatever made the attempt fail: the result deploy_fleet reports is
\* the same False for a lost connection.
AnyFailureRestores ==
  \A d \in Deployer :
    At(d, "idle") /\ outcome[d] \in {"failed", "lost"} /\ before[d].conf # Missing
      => conf = before[d].conf

\* A good configuration is accepted whatever earlier attempts, interrupted or
\* not, left behind on the node.
GoodAccepted ==
  \A d \in Deployer : At(d, "idle") /\ outcome[d] = "failed" => cfg[d] \notin Good

\* deploy_node is all or nothing, seen by one deployer: "ok" means that the node
\* serves the configuration it was given, "failed" that it serves the one before.
\* While the attempt runs, the abstract node still serves what it served before.
Idle == \A d \in Deployer : At(d, "idle")
TheDeployer == CHOOSE d \in Deployer : TRUE

Atomic == INSTANCE AtomicDeploy WITH
  Nothing <- Missing,
  asked   <- cfg[TheDeployer],
  served  <- IF Idle THEN running ELSE before[TheDeployer].running,
  outcome <- outcome[TheDeployer],
  clean   <- IF Idle THEN running = Started(conf)
             ELSE before[TheDeployer].running = Started(before[TheDeployer].conf)

AllOrNothing == Atomic!Spec

\* An attempt that is past its upload comes to an end, rolled back or not, and never
\* gets back to an upload, which might stall it.
AttemptEnds == \A d \in Deployer : ~At(d, "idle") /\ ~InUpload(d) ~> At(d, "idle")
============================================================================
