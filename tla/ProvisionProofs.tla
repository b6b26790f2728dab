--------------------------- MODULE ProvisionProofs ---------------------------
(***************************************************************************)
(* Proofs about the life of a node.  First NodeDeploy, for any sets of     *)
(* configurations: types, what can end up installed on the node, and that  *)
(* an attempt is all or nothing unless its connection is lost.  Then       *)
(* Provision: seen through the variables of NodeDeploy, the life of a node *)
(* that is bootstrapped, again and again, and reboots is one of its        *)
(* behaviours.  Last, what a bootstrap leaves on the node is proved of the *)
(* script itself, for a node of either role and provider.                  *)
(***************************************************************************)
EXTENDS Provision, SequenceTheorems, TLAPS

USE DEF At, Goto, End, File, files, job, vars

(***************************************************************************)
(* Type correctness, for any number of deployers.                          *)
(***************************************************************************)
LEMMA InitTypes == Init => TypeOK
  BY DeployAssumption DEF Init, TypeOK, Steps, Outcomes

LEMMA StartedType == \A c : Started(c) \in Good \cup {Down}
  BY DEF Started

LEMMA CommandTypes ==
  ASSUME TypeOK, NEW d \in Deployer, Command(d)
  PROVE  TypeOK'
<1> USE DeployAssumption, StartedType DEF TypeOK, Steps, Outcomes
<1>1. CASE Upload(d)
  BY <1>1 DEF Upload
<1>2. CASE UploadDone(d)
  BY <1>2 DEF UploadDone
<1>3. CASE Validate(d)
  BY <1>3 DEF Validate
<1>4. CASE Cleanup(d)
  BY <1>4 DEF Cleanup
<1>5. CASE TestConf(d)
  BY <1>5 DEF TestConf
<1>6. CASE Backup(d)
  BY <1>6 DEF Backup
<1>7. CASE Replace(d)
  BY <1>7 DEF Replace
<1>8. CASE Restart(d)
  BY <1>8 DEF Restart
<1>9. CASE Verify(d)
  BY <1>9 DEF Verify
<1>10. CASE RbTest(d)
  BY <1>10 DEF RbTest
<1>11. CASE RbCopy(d)
  BY <1>11 DEF RbCopy
<1>12. CASE RbRestart(d)
  BY <1>12 DEF RbRestart
<1>13. CASE RbVerify(d)
  BY <1>13 DEF RbVerify
<1> QED
  BY <1>1, <1>2, <1>3, <1>4, <1>5, <1>6, <1>7, <1>8, <1>9, <1>10, <1>11,
     <1>12, <1>13 DEF Command

LEMMA NextTypes == TypeOK /\ [Next]_vars => TypeOK'
<1> SUFFICES ASSUME TypeOK, [Next]_vars PROVE TypeOK'
  OBVIOUS
<1>1. ASSUME NEW d \in Deployer, NEW c \in Config, Begin(d, c) PROVE TypeOK'
  BY <1>1, DeployAssumption DEF Begin, TypeOK, Steps, Outcomes
<1>2. ASSUME NEW d \in Deployer, Command(d) PROVE TypeOK'
  BY <1>2, CommandTypes
<1>3. ASSUME NEW d \in Deployer, Lose(d) PROVE TypeOK'
  BY <1>3, DeployAssumption DEF Lose, TypeOK, Steps, Outcomes
<1>4. CASE Reboot
  BY <1>4, DeployAssumption, StartedType DEF Reboot, TypeOK, Steps, Outcomes
<1>5. CASE UNCHANGED vars
  BY <1>5 DEF TypeOK
<1> QED
  BY <1>1, <1>2, <1>3, <1>4, <1>5 DEF Next

\* Every state deploy_node can bring a node to is of the declared types: no
\* sequence of attempts, losses and reboots leaves a file or a step unknown to it.
THEOREM TypeCorrect == Spec => []TypeOK
<1> QED
  BY InitTypes, NextTypes, PTL DEF Spec

(***************************************************************************)
(* One deployer at a time, as when the operator runs one vvnext command.   *)
(***************************************************************************)
OneDeployer == \E d : Deployer = {d}

\* The uploaded file is a checked configuration from the check to the mv.
PastCheck == {"testConf", "backup", "replace"}

Installed ==
  /\ TypeOK
  /\ OnlyCheckedInstalled
  /\ \A d \in Deployer : step[d] \in PastCheck => tmp \in Checked

LEMMA CommandInstalls ==
  ASSUME OneDeployer, Installed, NEW d \in Deployer, Command(d)
  PROVE  Installed'
<1> USE DeployAssumption DEF OneDeployer, Installed, TypeOK, Steps, OnlyCheckedInstalled, PastCheck
<1>t. TypeOK'
  BY CommandTypes
<1>1. CASE Upload(d)
  BY <1>1, <1>t DEF Upload
<1>2. CASE UploadDone(d)
  BY <1>2, <1>t DEF UploadDone
<1>3. CASE Validate(d)
  BY <1>3, <1>t DEF Validate
<1>4. CASE Cleanup(d)
  BY <1>4, <1>t DEF Cleanup
<1>5. CASE TestConf(d)
  BY <1>5, <1>t DEF TestConf
<1>6. CASE Backup(d)
  BY <1>6, <1>t DEF Backup
<1>7. CASE Replace(d)
  BY <1>7, <1>t DEF Replace
<1>8. CASE Restart(d)
  BY <1>8, <1>t DEF Restart
<1>9. CASE Verify(d)
  BY <1>9, <1>t DEF Verify
<1>10. CASE RbTest(d)
  BY <1>10, <1>t DEF RbTest
<1>11. CASE RbCopy(d)
  BY <1>11, <1>t DEF RbCopy
<1>12. CASE RbRestart(d)
  BY <1>12, <1>t DEF RbRestart
<1>13. CASE RbVerify(d)
  BY <1>13, <1>t DEF RbVerify
<1> QED
  BY <1>1, <1>2, <1>3, <1>4, <1>5, <1>6, <1>7, <1>8, <1>9, <1>10, <1>11,
     <1>12, <1>13 DEF Command

LEMMA NextInstalls == OneDeployer /\ Installed /\ [Next]_vars => Installed'
<1> SUFFICES ASSUME OneDeployer, Installed, [Next]_vars PROVE Installed'
  OBVIOUS
<1> USE DEF OneDeployer, Installed, OnlyCheckedInstalled, PastCheck
<1>t. TypeOK /\ TypeOK'
  BY NextTypes
<1>1. ASSUME NEW d \in Deployer, NEW c \in Config, Begin(d, c) PROVE Installed'
  BY <1>1, <1>t DEF Begin, TypeOK
<1>2. ASSUME NEW d \in Deployer, Command(d) PROVE Installed'
  BY <1>2, CommandInstalls
<1>3. ASSUME NEW d \in Deployer, Lose(d) PROVE Installed'
  BY <1>3, <1>t DEF Lose, TypeOK
<1>4. CASE Reboot
  BY <1>4, <1>t DEF Reboot, TypeOK
<1>5. CASE UNCHANGED vars
  BY <1>5, <1>t DEF TypeOK
<1> QED
  BY <1>1, <1>2, <1>3, <1>4, <1>5 DEF Next

\* With one deployer, only configurations that passed sing-box check on the node
\* are installed or kept as a backup, whatever connections drop, however often
\* the node reboots and whichever attempts roll back.
THEOREM OnlyChecked ==
  ASSUME OneDeployer
  PROVE  Spec => []OnlyCheckedInstalled
<1>1. Init => Installed
  BY InitTypes DEF Init, Installed, OnlyCheckedInstalled, PastCheck
<1>2. Installed /\ [Next]_vars => Installed'
  BY NextInstalls
<1>3. Installed => OnlyCheckedInstalled
  BY DEF Installed
<1> QED
  BY <1>1, <1>2, <1>3, PTL DEF Spec

(***************************************************************************)
(* A good configuration is accepted.  Carried is what ties the files of    *)
(* the node to the configuration the attempt set out to deploy.            *)
(***************************************************************************)
Carried(d) ==
  /\ step[d] # "idle" => cfg[d] \in Config
  /\ step[d] = "uploading" => tmp # Missing
  /\ step[d] \in {"validate", "testConf", "backup", "replace"} => tmp = cfg[d]
  /\ step[d] = "cleanup" => cfg[d] \notin Checked
  /\ step[d] \in {"restart", "verify"} => conf = cfg[d]
  /\ step[d] = "verify" => running = Started(conf)
  /\ step[d] \in {"rbTest", "rbCopy"} => conf = cfg[d]
  /\ step[d] \in {"rbTest", "rbCopy", "rbRestart", "rbVerify"} => cfg[d] \notin Good

Accepting ==
  /\ TypeOK
  /\ \A d \in Deployer : Carried(d)
  /\ GoodAccepted

LEMMA CommandAccepts ==
  ASSUME OneDeployer, Accepting, NEW d \in Deployer, Command(d)
  PROVE  Accepting'
<1> USE DeployAssumption DEF OneDeployer, Accepting, Carried, GoodAccepted
<1>t. TypeOK /\ TypeOK'
  BY CommandTypes
<1> USE DEF TypeOK
<1>1. CASE Upload(d)
  BY <1>1, <1>t DEF Upload
<1>2. CASE UploadDone(d)
  BY <1>2, <1>t DEF UploadDone
<1>3. CASE Validate(d)
  BY <1>3, <1>t DEF Validate
<1>4. CASE Cleanup(d)
  BY <1>4, <1>t DEF Cleanup
<1>5. CASE TestConf(d)
  BY <1>5, <1>t DEF TestConf
<1>6. CASE Backup(d)
  BY <1>6, <1>t DEF Backup
<1>7. CASE Replace(d)
  BY <1>7, <1>t DEF Replace
<1>8. CASE Restart(d)
  BY <1>8, <1>t DEF Restart
<1>9. CASE Verify(d)
  BY <1>9, <1>t DEF Verify, Active, Inactive, Started
<1>10. CASE RbTest(d)
  BY <1>10, <1>t DEF RbTest
<1>11. CASE RbCopy(d)
  BY <1>11, <1>t DEF RbCopy
<1>12. CASE RbRestart(d)
  BY <1>12, <1>t DEF RbRestart
<1>13. CASE RbVerify(d)
  BY <1>13, <1>t DEF RbVerify
<1> QED
  BY <1>1, <1>2, <1>3, <1>4, <1>5, <1>6, <1>7, <1>8, <1>9, <1>10, <1>11,
     <1>12, <1>13 DEF Command

LEMMA NextAccepts == OneDeployer /\ Accepting /\ [Next]_vars => Accepting'
<1> SUFFICES ASSUME OneDeployer, Accepting, [Next]_vars PROVE Accepting'
  OBVIOUS
<1> USE DeployAssumption DEF OneDeployer, Accepting, Carried, GoodAccepted
<1>t. TypeOK /\ TypeOK'
  BY NextTypes
<1>1. ASSUME NEW d \in Deployer, NEW c \in Config, Begin(d, c) PROVE Accepting'
  <2>1. step' = [step EXCEPT ![d] = "upload"] /\ cfg' = [cfg EXCEPT ![d] = c]
        /\ UNCHANGED <<files, running, outcome>>
    BY <1>1 DEF Begin
  <2> QED
    BY <2>1, <1>t DEF TypeOK
<1>2. ASSUME NEW d \in Deployer, Command(d) PROVE Accepting'
  BY <1>2, CommandAccepts
<1>3. ASSUME NEW d \in Deployer, Lose(d) PROVE Accepting'
  BY <1>3, <1>t DEF Lose, TypeOK
<1>4. CASE Reboot
  BY <1>4, <1>t DEF Reboot, TypeOK
<1>5. CASE UNCHANGED vars
  BY <1>5, <1>t DEF TypeOK
<1> QED
  BY <1>1, <1>2, <1>3, <1>4, <1>5 DEF Next

LEMMA AcceptingAlways ==
  ASSUME OneDeployer
  PROVE  Spec => []Accepting
<1>1. Init => Accepting
  BY InitTypes DEF Init, Accepting, Carried, GoodAccepted
<1>2. Accepting /\ [Next]_vars => Accepting'
  BY NextAccepts
<1> QED
  BY <1>1, <1>2, PTL DEF Spec

\* With one deployer, an attempt that ends in failure without having lost its
\* connection was for a configuration the service does not run with: nothing an
\* earlier attempt left on the node makes a good configuration fail.
THEOREM GoodIsAccepted ==
  ASSUME OneDeployer
  PROVE  Spec => []GoodAccepted
<1>1. Accepting => GoodAccepted
  BY DEF Accepting
<1> QED
  BY <1>1, AcceptingAlways, PTL

(***************************************************************************)
(* All or nothing: one deployer, whatever is lost.  Begun is what an       *)
(* attempt relies on at each of its steps, relating the node to what it    *)
(* was when the attempt began.                                             *)
(***************************************************************************)
Untouched == {"upload", "uploading", "validate", "cleanup", "testConf", "backup", "replace"}

Begun(d) ==
  /\ step[d] \in Untouched => running = before[d].running /\ conf = before[d].conf
  /\ step[d] = "backup" => conf # Missing
  /\ step[d] \in {"upload", "uploading", "validate", "testConf"} => ~hasBackup[d]
  /\ step[d] \in {"replace", "restart", "verify"} =>
       IF hasBackup[d] THEN bak = before[d].conf /\ bak # Missing
                       ELSE before[d].conf = Missing
  /\ step[d] = "restart" => running = before[d].running
  /\ step[d] = "verify" => running = Started(conf)
  /\ step[d] \in {"rbTest", "rbCopy", "rbRestart"} => running = Down
  /\ step[d] \in {"rbTest", "rbCopy"} => bak = before[d].conf /\ bak # Missing
  /\ step[d] \in {"rbRestart", "rbVerify"} => conf = before[d].conf
  /\ step[d] = "rbVerify" => running = Started(conf)

Restorable ==
  /\ TypeOK
  /\ \A d \in Deployer : Begun(d)
  /\ FailedRestores

LEMMA NothingStarted == Started(Missing) = Down
  BY DeployAssumption DEF Started

LEMMA CommandRestorable ==
  ASSUME OneDeployer, Restorable, NEW d \in Deployer, Command(d)
  PROVE  Restorable'
<1> USE DeployAssumption DEF OneDeployer, Restorable, Begun, Untouched, FailedRestores
<1>t. TypeOK /\ TypeOK'
  BY CommandTypes
<1> USE DEF TypeOK
<1>1. CASE Upload(d)
  BY <1>1, <1>t DEF Upload
<1>2. CASE UploadDone(d)
  BY <1>2, <1>t DEF UploadDone
<1>3. CASE Validate(d)
  BY <1>3, <1>t DEF Validate
<1>4. CASE Cleanup(d)
  BY <1>4, <1>t DEF Cleanup
<1>5. CASE TestConf(d)
  BY <1>5, <1>t DEF TestConf
<1>6. CASE Backup(d)
  BY <1>6, <1>t DEF Backup
<1>7. CASE Replace(d)
  BY <1>7, <1>t DEF Replace
<1>8. CASE Restart(d)
  BY <1>8, <1>t DEF Restart
<1>9. CASE Verify(d)
  BY <1>9, <1>t DEF Verify, Active, Inactive
<1>10. CASE RbTest(d)
  BY <1>10, <1>t DEF RbTest
<1>11. CASE RbCopy(d)
  BY <1>11, <1>t DEF RbCopy
<1>12. CASE RbRestart(d)
  BY <1>12, <1>t DEF RbRestart
<1>13. CASE RbVerify(d)
  BY <1>13, <1>t DEF RbVerify
<1> QED
  BY <1>1, <1>2, <1>3, <1>4, <1>5, <1>6, <1>7, <1>8, <1>9, <1>10, <1>11,
     <1>12, <1>13 DEF Command

LEMMA NextRestorable == OneDeployer /\ Restorable /\ [Next]_vars => Restorable'
<1> SUFFICES ASSUME OneDeployer, Restorable, [Next]_vars PROVE Restorable'
  OBVIOUS
<1> USE DEF OneDeployer, Restorable, Begun, Untouched, FailedRestores
<1>t. TypeOK /\ TypeOK'
  BY NextTypes
<1>1. ASSUME NEW d \in Deployer, NEW c \in Config, Begin(d, c) PROVE Restorable'
  BY <1>1, <1>t DEF Begin, TypeOK
<1>2. ASSUME NEW d \in Deployer, Command(d) PROVE Restorable'
  BY <1>2, CommandRestorable
<1>3. ASSUME NEW d \in Deployer, Lose(d) PROVE Restorable'
  BY <1>3, <1>t DEF Lose, TypeOK
<1>4. CASE Reboot
  BY <1>4, <1>t DEF Reboot, TypeOK
<1>5. CASE UNCHANGED vars
  BY <1>5, <1>t DEF TypeOK
<1> QED
  BY <1>1, <1>2, <1>3, <1>4, <1>5 DEF Next

LEMMA RestorableAlways ==
  ASSUME OneDeployer
  PROVE  Spec => []Restorable
<1>1. Init => Restorable
  BY InitTypes DEF Init, Restorable, Begun, Untouched, FailedRestores
<1>2. Restorable /\ [Next]_vars => Restorable'
  BY NextRestorable
<1> QED
  BY <1>1, <1>2, PTL DEF Spec

\* An attempt that fails leaves the configuration file it found, if there was one:
\* the rollback restores this attempt's backup and not one that an earlier, lost
\* attempt left behind.
THEOREM FailureRestores ==
  ASSUME OneDeployer
  PROVE  Spec => []FailedRestores
<1>1. Restorable => FailedRestores
  BY DEF Restorable
<1> QED
  BY <1>1, RestorableAlways, PTL

\* deploy_node implements AtomicDeploy, whatever connections are lost and however
\* often the node reboots: while an attempt runs the abstract node still serves
\* what it served before, and the attempt's last step switches it to the very
\* configuration the attempt was given, leaves it, or is a lost connection.
THEOREM DeployIsAtomic ==
  ASSUME OneDeployer
  PROVE  Spec => AllOrNothing
<1> DEFINE D == TheDeployer
           S == IF Idle THEN running ELSE before[D].running
           C == IF Idle THEN running = Started(conf)
                ELSE before[D].running = Started(before[D].conf)
<1>d. Deployer = {D}
  BY DEF OneDeployer, TheDeployer
<1>1. Init => Atomic!Init
  BY <1>d, NothingStarted DEF Init, Atomic!Init, Idle
<1>2. Restorable /\ Accepting /\ [Next]_vars => [Atomic!Next]_(Atomic!vars)
  <2> SUFFICES ASSUME Restorable, Accepting, [Next]_vars
               PROVE  [Atomic!Next]_(Atomic!vars)
    OBVIOUS
  <2>g. step'[D] = "idle" /\ outcome'[D] = "failed" => cfg'[D] \notin Good
    BY <1>d, NextAccepts DEF Accepting, GoodAccepted
  <2>c. Carried(D)
    BY <1>d DEF Accepting
  <2> USE <1>d DEF Restorable, TypeOK, Begun, Untouched
  <2>i. \A d \in Deployer : d = D
    OBVIOUS
  <2>s. /\ S = (IF step[D] = "idle" THEN running ELSE before[D].running)
        /\ S' = (IF step'[D] = "idle" THEN running' ELSE before'[D].running)
        /\ C = (IF step[D] = "idle" THEN running = Started(conf)
                ELSE before[D].running = Started(before[D].conf))
        /\ C' = (IF step'[D] = "idle" THEN running' = Started(conf')
                 ELSE before'[D].running = Started(before'[D].conf))
    BY <2>i DEF Idle, Started
  <2>v. ASSUME UNCHANGED <<S, outcome[D], cfg[D]>>, C' = C PROVE UNCHANGED Atomic!vars
    BY <2>v DEF Atomic!vars
  <2>1. ASSUME NEW c \in Config, Begin(D, c) PROVE Atomic!Next
    <3>1. S' = S /\ outcome'[D] = outcome[D] /\ C' = C /\ cfg'[D] = c
      <4> HIDE DEF D, S, C
      <4> QED
        BY <2>1, <2>s DEF Begin
    <3> QED
      BY <3>1 DEF Atomic!Next, Atomic!Ask
  <2>2. ASSUME step[D] # "idle", step'[D] # "idle", UNCHANGED <<outcome, before, cfg>>
        PROVE  UNCHANGED Atomic!vars
    <3>1. S' = S /\ outcome'[D] = outcome[D] /\ cfg'[D] = cfg[D] /\ C' = C
      <4> HIDE DEF D, S, C
      <4> QED
        BY <2>2, <2>s
    <3> QED
      BY <3>1, <2>v
  <2>3. ASSUME step[D] # "idle", step'[D] = "idle", outcome'[D] = "failed", cfg' = cfg,
               before[D].running = Started(before[D].conf) =>
                 running' = before[D].running /\ running' = Started(conf')
        PROVE  Atomic!Fail
    <3>1. (C => S' = S /\ C') /\ cfg[D] \notin Good /\ cfg'[D] = cfg[D]
      <4> HIDE DEF D, S, C
      <4> QED
        BY <2>3, <2>s, <2>g
    <3> QED
      BY <3>1, <2>3 DEF Atomic!Fail
  <2>l. ASSUME step[D] # "idle", step'[D] = "idle", outcome'[D] = "lost", cfg' = cfg,
               running' \in {running, Started(conf)}
        PROVE  Atomic!Break
    <3>1. before[D].running = Started(before[D].conf) =>
            running' \in {before[D].running, cfg[D], Down}
      <4>1. Started(conf) \in {conf, Down}
        BY DEF Started
      <4>2. running \in {before[D].running, Down} \/ running = Started(conf)
        BY <2>l DEF Steps
      <4>3. conf \in {before[D].conf, cfg[D]}
        BY <2>l, <2>c DEF Steps, Carried
      <4>4. conf = before[D].conf => Started(conf) = Started(before[D].conf)
        OBVIOUS
      <4> QED
        BY <4>1, <4>2, <4>3, <4>4, <2>l
    <3>2. (C => S' \in {S, cfg[D], Down}) /\ cfg'[D] = cfg[D]
      <4> HIDE DEF D, S, C
      <4> QED
        BY <2>l, <2>s, <3>1
    <3> QED
      BY <3>2, <2>l DEF Atomic!Break
  <2>4. CASE Upload(D) \/ UploadDone(D) \/ Validate(D) \/ TestConf(D) \/ Backup(D)
             \/ Restart(D) \/ RbCopy(D) \/ RbRestart(D)
    <3>1. step[D] # "idle" /\ step'[D] # "idle" /\ UNCHANGED <<outcome, before, cfg>>
      BY <2>4 DEF Upload, UploadDone, Validate, TestConf, Backup, Restart, RbCopy, RbRestart
    <3> QED
      BY <3>1, <2>2
  <2>5. CASE Cleanup(D)
    <3>1. step[D] # "idle" /\ step'[D] = "idle" /\ outcome'[D] = "failed" /\ cfg' = cfg
          /\ running' = before[D].running /\ conf' = before[D].conf
      BY <2>5 DEF Cleanup
    <3> QED
      BY <3>1, <2>3 DEF Atomic!Next
  <2>6. CASE RbVerify(D)
    <3>1. step[D] # "idle" /\ step'[D] = "idle" /\ outcome'[D] = "failed" /\ cfg' = cfg
          /\ running' = Started(conf') /\ conf' = before[D].conf
      BY <2>6 DEF RbVerify, Started
    <3> QED
      BY <3>1, <2>3 DEF Atomic!Next
  <2>7. CASE Replace(D)
    <3>1. CASE tmp = Missing
      <4>1. step[D] # "idle" /\ step'[D] = "idle" /\ outcome'[D] = "failed" /\ cfg' = cfg
            /\ running' = before[D].running /\ conf' = before[D].conf
        BY <3>1, <2>7 DEF Replace
      <4> QED
        BY <4>1, <2>3 DEF Atomic!Next
    <3>2. CASE tmp # Missing
      BY <3>2, <2>7, <2>2 DEF Replace
    <3> QED
      BY <3>1, <3>2
  <2>8. CASE Verify(D)
    <3>0. step[D] = "verify" /\ running' = running /\ conf' = conf /\ cfg' = cfg
          /\ running = Started(conf) /\ conf = cfg[D]
      BY <2>8, <2>c DEF Verify, Carried
    <3>1. CASE Active /\ End(D, "ok")
      <4>1. /\ \/ cfg[D] \in Good /\ S' = cfg[D]
               \/ cfg[D] \in Flaky /\ S' = Down
            /\ C' /\ cfg'[D] = cfg[D]
        <5>1. \/ conf \in Good /\ Started(conf) = conf
              \/ conf \in Flaky /\ Started(conf) = Down
          <6>1. conf \in Flaky => conf \notin Good
            BY DeployAssumption
          <6>2. running # Down \/ conf \in Flaky
            BY <3>1 DEF Active
          <6>3. running = IF conf \in Good THEN conf ELSE Down
            BY <3>0 DEF Started
          <6> QED
            BY <6>1, <6>2, <6>3, <3>0
        <5>2. step'[D] = "idle" /\ running' = Started(conf')
          BY <3>0, <3>1 DEF Started
        <5> HIDE DEF D, S, C
        <5> QED
          BY <5>1, <5>2, <3>0, <2>s
      <4>2. outcome'[D] = "ok"
        BY <3>1
      <4> QED
        BY <4>1, <4>2 DEF Atomic!Succeed, Atomic!Next
    <3>2. CASE Inactive /\ hasBackup[D] /\ Goto(D, "rbTest") /\ UNCHANGED outcome
      BY <3>2, <3>0, <2>8, <2>2 DEF Verify
    <3>3. CASE Inactive /\ ~hasBackup[D] /\ End(D, "failed")
      <4>1. before[D].conf = Missing /\ running' = Down /\ running' = Started(conf')
            /\ step'[D] = "idle" /\ outcome'[D] = "failed" /\ step[D] # "idle" /\ cfg' = cfg
        BY <3>0, <3>3 DEF Inactive, Started
      <4> QED
        BY <4>1, <2>3, NothingStarted DEF Atomic!Next
    <3> QED
      BY <3>1, <3>2, <3>3, <2>8 DEF Verify
  <2>9. CASE RbTest(D)
    BY <2>9, <2>2 DEF RbTest
  <2>10. CASE Lose(D)
    <3>1. step[D] # "idle" /\ step'[D] = "idle" /\ outcome'[D] = "lost" /\ cfg' = cfg
          /\ running' = running
      BY <2>10 DEF Lose
    <3> QED
      BY <3>1, <2>l DEF Atomic!Next
  <2>11. CASE Reboot
    <3>1. CASE step[D] = "idle"
      <4>1. step'[D] = "idle" /\ outcome'[D] = outcome[D] /\ cfg'[D] = cfg[D]
            /\ running' = Started(conf) /\ running' = Started(conf')
        BY <3>1, <2>11 DEF Reboot, Started
      <4>2. C' /\ (C => S' = S)
        <5> HIDE DEF D, S, C
        <5> QED
          BY <4>1, <3>1, <2>s
      <4> QED
        BY <4>1, <4>2 DEF Atomic!Restart, Atomic!Next
    <3>2. CASE step[D] # "idle"
      <4>1. step'[D] = "idle" /\ outcome'[D] = "lost" /\ cfg' = cfg
            /\ running' = Started(conf)
        BY <3>2, <2>11 DEF Reboot
      <4> QED
        BY <3>2, <4>1, <2>l DEF Atomic!Next
    <3> QED
      BY <3>1, <3>2
  <2>12. CASE UNCHANGED vars
    <3>1. S' = S /\ outcome'[D] = outcome[D] /\ cfg'[D] = cfg[D] /\ C' = C
      BY <2>12 DEF Idle, Started
    <3> QED
      BY <3>1, <2>v
  <2> QED
    BY <2>i, <2>1, <2>4, <2>5, <2>6, <2>7, <2>8, <2>9, <2>10, <2>11, <2>12
    DEF Next, Command
<1> QED
  BY <1>1, <1>2, RestorableAlways, AcceptingAlways, PTL DEF Spec, AllOrNothing, Atomic!Spec

(***************************************************************************)
(* The life of a node is one of its deployments.                           *)
(***************************************************************************)
\* Bootstrapping leaves the deployment's variables alone, and every other step is one
\* of NodeDeploy.
LEMMA StepIsDeployStep == [ProvisionNext]_allVars => [Next]_vars
<1> SUFFICES ASSUME [ProvisionNext]_allVars PROVE [Next]_vars
  OBVIOUS
<1>1. CASE Retry \/ Again \/ BootStep \/ AptEnds \/ LoseBootstrap
  BY <1>1 DEF Retry, Again, BootStep, AptEnds, LoseBootstrap
<1>2. CASE DeployStep
  BY <1>2 DEF DeployStep, Next
<1>3. CASE NodeReboots
  BY <1>3 DEF NodeReboots, Next
<1>4. CASE UNCHANGED allVars
  BY <1>4 DEF allVars
<1> QED
  BY <1>1, <1>2, <1>3, <1>4 DEF ProvisionNext

\* The life of a node implements the deployment specification.
THEOREM ProvisioningDeploys == ProvisionSpec => Spec
<1>1. ProvisionInit => Init
  BY DEF ProvisionInit
<1> QED
  BY <1>1, StepIsDeployStep, PTL DEF ProvisionSpec, Spec

\* Nothing but a checked configuration is ever installed on a node, nor a good one
\* refused, nor the configuration a failed attempt found lost, nor an attempt done in
\* part: for any number of configurations, bootstraps, lost sessions and reboots.
THEOREM ProvisionedNodeIsSafe ==
  ASSUME OneDeployer
  PROVE  ProvisionSpec =>
           [](TypeOK /\ OnlyCheckedInstalled /\ GoodAccepted /\ FailedRestores) /\ AllOrNothing
<1>1. Spec => []TypeOK
  BY TypeCorrect
<1>2. Spec => []OnlyCheckedInstalled
  BY OnlyChecked
<1>3. Spec => []GoodAccepted
  BY GoodIsAccepted
<1>4. Spec => []FailedRestores
  BY FailureRestores
<1>5. Spec => AllOrNothing
  BY DeployIsAtomic
<1> QED
  BY <1>1, <1>2, <1>3, <1>4, <1>5, ProvisioningDeploys, PTL

(***************************************************************************)
(* The script.  It opens with the service user, whose commands an existing *)
(* user skips; no later part asks for the user again, and none enables the *)
(* firewall before it let ssh through.                                     *)
(***************************************************************************)
IsSeq(s) == \E S : s \in Seq(S)

SshFirst(s) ==
  \A i \in 1 .. Len(s) : s[i] = "ufwEnable" => \E j \in 1 .. i - 1 : s[j] = "allowSsh"

Later(s) ==
  /\ IsSeq(s)
  /\ \A i \in 1 .. Len(s) : s[i] # "id"
  /\ SshFirst(s)

Opening(s) ==
  /\ IsSeq(s) /\ Len(s) >= 5
  /\ s[1] = "id" /\ s[2] = "useradd"
  /\ s[3] = "usermod" /\ s[4] = "sudoers" /\ s[5] = "chmodSudoers"
  /\ \A i \in 2 .. Len(s) : s[i] # "id"
  /\ SshFirst(s)

LEMMA AppendedIs ==
  ASSUME NEW s, IsSeq(s), NEW t, IsSeq(t)
  PROVE  /\ IsSeq(s \o t) /\ Len(s) \in Nat /\ Len(t) \in Nat
         /\ Len(s \o t) = Len(s) + Len(t)
         /\ \A i \in 1 .. Len(s) + Len(t) : (s \o t)[i] = IF i <= Len(s) THEN s[i] ELSE t[i - Len(s)]
<1>1. PICK S, T : s \in Seq(S) /\ t \in Seq(T)
  BY DEF IsSeq
<1>2. s \in Seq(S \cup T) /\ t \in Seq(S \cup T)
  BY <1>1, SeqMonotonic
<1>3. s \o t \in Seq(S \cup T)
  BY <1>2, ConcatProperties
<1> QED
  BY <1>2, <1>3, ConcatProperties, LenProperties DEF IsSeq

LEMMA SshFirstAppended ==
  ASSUME NEW s, IsSeq(s), NEW t, IsSeq(t), SshFirst(s), SshFirst(t)
  PROVE  SshFirst(s \o t)
<1> DEFINE u == s \o t
           m == Len(s)
           n == Len(t)
<1>1. /\ m \in Nat /\ n \in Nat /\ Len(u) = m + n
      /\ \A i \in 1 .. m + n : u[i] = IF i <= m THEN s[i] ELSE t[i - m]
  BY AppendedIs
<1> HIDE DEF u
<1>2. ASSUME NEW i \in 1 .. m + n, u[i] = "ufwEnable"
      PROVE  \E j \in 1 .. i - 1 : u[j] = "allowSsh"
  <2>1. CASE i <= m
    <3>1. i \in 1 .. Len(s) /\ s[i] = "ufwEnable"
      BY <1>1, <1>2, <2>1
    <3>2. PICK j \in 1 .. i - 1 : s[j] = "allowSsh"
      BY <3>1 DEF SshFirst
    <3>3. j \in 1 .. m + n /\ j <= m
      BY <1>1, <2>1, <3>2
    <3>4. u[j] = "allowSsh"
      BY <1>1, <3>2, <3>3
    <3> QED
      BY <3>2, <3>4
  <2>2. CASE i > m
    <3>1. i - m \in 1 .. Len(t) /\ t[i - m] = "ufwEnable"
      BY <1>1, <1>2, <2>2
    <3>2. PICK k \in 1 .. (i - m) - 1 : t[k] = "allowSsh"
      BY <3>1 DEF SshFirst
    <3>3. k + m \in 1 .. m + n /\ ~(k + m <= m) /\ (k + m) - m = k /\ k + m \in 1 .. i - 1
      BY <1>1, <2>2, <3>2
    <3>4. u[k + m] = "allowSsh"
      BY <1>1, <3>2, <3>3
    <3> QED
      BY <3>3, <3>4
  <2> QED
    BY <1>1, <2>1, <2>2
<1>3. SshFirst(u)
  BY <1>1, <1>2 DEF SshFirst
<1> QED
  BY <1>3 DEF u

LEMMA OpeningAppended ==
  ASSUME NEW s, Opening(s), NEW t, Later(t)
  PROVE  Opening(s \o t)
<1> DEFINE u == s \o t
           m == Len(s)
           n == Len(t)
<1>0. IsSeq(s) /\ IsSeq(t)
  BY DEF Opening, Later
<1>1. /\ m \in Nat /\ n \in Nat /\ IsSeq(u) /\ Len(u) = m + n
      /\ \A i \in 1 .. m + n : u[i] = IF i <= m THEN s[i] ELSE t[i - m]
  BY <1>0, AppendedIs
<1>2. SshFirst(u)
  BY <1>0, SshFirstAppended DEF Opening, Later
<1> HIDE DEF u
<1>3. m >= 5
  BY DEF Opening
<1>4. \A i \in 1 .. 5 : u[i] = s[i]
  BY <1>1, <1>3
<1>5. ASSUME NEW i \in 2 .. m + n PROVE u[i] # "id"
  <2>1. CASE i <= m
    BY <1>1, <2>1 DEF Opening
  <2>2. CASE i > m
    <3>1. i - m \in 1 .. Len(t) /\ u[i] = t[i - m]
      BY <1>1, <2>2
    <3> QED
      BY <3>1 DEF Later
  <2> QED
    BY <1>1, <2>1, <2>2
<1>6. Opening(u)
  BY <1>1, <1>2, <1>3, <1>4, <1>5 DEF Opening
<1> QED
  BY <1>6 DEF u

LEMMA PlainIsLater ==
  ASSUME NEW S, "id" \notin S, "ufwEnable" \notin S, NEW s \in Seq(S)
  PROVE  Later(s)
<1>1. \A i \in 1 .. Len(s) : s[i] # "id" /\ s[i] # "ufwEnable"
  BY ElementOfSeq
<1> QED
  BY <1>1 DEF Later, IsSeq, SshFirst

LEMMA UserOpens == Opening(Boot!CreateServiceUser)
<1> DEFINE s == Boot!CreateServiceUser
<1>1. s = <<"id", "useradd", "usermod", "sudoers", "chmodSudoers">>
  BY DEF Boot!CreateServiceUser
<1> HIDE DEF s
<1>2. s \in Seq({"id", "useradd", "usermod", "sudoers", "chmodSudoers"})
  BY <1>1
<1>3. /\ Len(s) = 5 /\ s[1] = "id" /\ s[2] = "useradd" /\ s[3] = "usermod"
      /\ s[4] = "sudoers" /\ s[5] = "chmodSudoers"
      /\ \A i \in 2 .. 5 : s[i] # "id"
      /\ \A i \in 1 .. 5 : s[i] # "ufwEnable"
  BY <1>1
<1>4. Opening(s)
  BY <1>2, <1>3 DEF Opening, IsSeq, SshFirst
<1> QED
  BY <1>4 DEF s

LEMMA EmptyLater == Later(<<>>)
<1>1. <<>> \in Seq({})
  BY EmptySeq
<1> QED
  BY <1>1, PlainIsLater

LEMMA PlainParts ==
  /\ Later(Boot!InstallPackages) /\ Later(Boot!TuneSysctl) /\ Later(<<"aptWireguard">>)
  /\ Later(Boot!InstallFail2ban) /\ Later(Boot!SetupWgMssClamp)
<1>1. Later(Boot!InstallPackages)
  <2>1. <<"aptUpdate", "aptPackages">> \in Seq({"aptUpdate", "aptPackages"})
    OBVIOUS
  <2> QED
    BY <2>1, PlainIsLater DEF Boot!InstallPackages
<1>2. Later(Boot!TuneSysctl)
  <2>1. <<"modprobe", "writeSysctl", "sysctl">> \in Seq({"modprobe", "writeSysctl", "sysctl"})
    OBVIOUS
  <2> QED
    BY <2>1, PlainIsLater DEF Boot!TuneSysctl
<1>3. Later(Boot!InstallFail2ban)
  <2>1. <<"aptFail2ban", "enableFail2ban", "startFail2ban">> \in Seq({"aptFail2ban", "enableFail2ban", "startFail2ban"})
    OBVIOUS
  <2> QED
    BY <2>1, PlainIsLater DEF Boot!InstallFail2ban
<1>4. Later(Boot!SetupWgMssClamp)
  <2>1. <<"clamp", "aptPersistent", "save">> \in Seq({"clamp", "aptPersistent", "save"})
    OBVIOUS
  <2> QED
    BY <2>1, PlainIsLater DEF Boot!SetupWgMssClamp
<1>5. Later(<<"aptWireguard">>)
  <2>1. <<"aptWireguard">> \in Seq({"aptWireguard"})
    OBVIOUS
  <2> QED
    BY <2>1, PlainIsLater
<1> QED
  BY <1>1, <1>2, <1>3, <1>4, <1>5

LEMMA LaterAppended ==
  ASSUME NEW s, Later(s), NEW t, Later(t)
  PROVE  Later(s \o t)
<1>1. /\ IsSeq(s \o t) /\ Len(s) \in Nat /\ Len(t) \in Nat /\ Len(s \o t) = Len(s) + Len(t)
      /\ \A i \in 1 .. Len(s) + Len(t) : (s \o t)[i] = IF i <= Len(s) THEN s[i] ELSE t[i - Len(s)]
  BY AppendedIs DEF Later
<1>2. \A i \in 1 .. Len(s) + Len(t) : (s \o t)[i] # "id"
  <2> TAKE i \in 1 .. Len(s) + Len(t)
  <2>1. CASE i <= Len(s)
    BY <1>1, <2>1 DEF Later
  <2>2. CASE i > Len(s)
    <3>1. i - Len(s) \in 1 .. Len(t) /\ (s \o t)[i] = t[i - Len(s)]
      BY <1>1, <2>2
    <3> QED
      BY <3>1 DEF Later
  <2> QED
    BY <1>1, <2>1, <2>2
<1> QED
  BY <1>1, <1>2, SshFirstAppended DEF Later

LEMMA SingboxLater == Later(Boot!InstallSingbox)
<1>1. Later(IF Mirror THEN <<"download">> ELSE <<"release", "url", "download">>)
  <2>1. <<"download">> \in Seq({"download"})
        /\ <<"release", "url", "download">> \in Seq({"release", "url", "download"})
    OBVIOUS
  <2>2. Later(<<"download">>)
    BY <2>1, PlainIsLater
  <2>3. Later(<<"release", "url", "download">>)
    BY <2>1, PlainIsLater
  <2> QED
    BY <2>2, <2>3
<1>2. Later(<<"mkInstall", "extract", "install", "mkConfig", "mkCerts",
              "unit", "daemonReload", "enable", "cleanup">>)
  <2>1. <<"mkInstall", "extract", "install", "mkConfig", "mkCerts",
          "unit", "daemonReload", "enable", "cleanup">>
        \in Seq({"mkInstall", "extract", "install", "mkConfig", "mkCerts",
                 "unit", "daemonReload", "enable", "cleanup"})
    OBVIOUS
  <2> QED
    BY <2>1, PlainIsLater
<1> QED
  BY <1>1, <1>2, LaterAppended DEF Boot!InstallSingbox

LEMMA CertLater == Later(Boot!GenerateSelfSignedCert)
<1>1. Later(<<"mkCerts", "openssl", "chmodKey", "chmodCert", "chownKey", "chownCert">>)
  <2>1. <<"mkCerts", "openssl", "chmodKey", "chmodCert", "chownKey", "chownCert">>
        \in Seq({"mkCerts", "openssl", "chmodKey", "chmodCert", "chownKey", "chownCert"})
    OBVIOUS
  <2> QED
    BY <2>1, PlainIsLater
<1> QED
  BY <1>1, EmptyLater DEF Boot!GenerateSelfSignedCert

\* The firewall is enabled by the last command of its part, ssh is let through by
\* the fourth.
LEMMA UfwLater == Later(Boot!SetupUfw)
<1> DEFINE head  == <<"aptUfw", "denyIncoming", "allowOutgoing", "allowSsh">>
           near  == IF kind.role = "near"
                    THEN <<"allowReality", "allowHy2", "allowCdn", "allowAnytls">>
                    ELSE <<>>
           wg    == IF kind.wg THEN <<"allowWg">> ELSE <<>>
           base  == head \o near
           w     == base \o wg
           last  == <<"ufwEnable">>
<1>1. Boot!SetupUfw = <<>> \/ Boot!SetupUfw = w \o last
  BY DEF Boot!SetupUfw
<1>2. Later(head) /\ Len(head) = 4 /\ head[4] = "allowSsh"
  <2>1. head \in Seq({"aptUfw", "denyIncoming", "allowOutgoing", "allowSsh"})
    OBVIOUS
  <2>2. Later(head)
    BY <2>1, PlainIsLater
  <2>3. Len(head) = 4 /\ head[4] = "allowSsh"
    OBVIOUS
  <2> QED
    BY <2>2, <2>3
<1>3. Later(near) /\ Later(wg)
  <2>1. <<"allowReality", "allowHy2", "allowCdn", "allowAnytls">>
        \in Seq({"allowReality", "allowHy2", "allowCdn", "allowAnytls"})
        /\ <<"allowWg">> \in Seq({"allowWg"})
    OBVIOUS
  <2>2. Later(<<"allowReality", "allowHy2", "allowCdn", "allowAnytls">>)
    BY <2>1, PlainIsLater
  <2>3. Later(<<"allowWg">>)
    BY <2>1, PlainIsLater
  <2> QED
    BY <2>2, <2>3, EmptyLater
<1>4. last \in Seq({"ufwEnable"}) /\ Len(last) = 1 /\ last[1] = "ufwEnable"
  OBVIOUS
<1> HIDE DEF head, near, wg, last
<1>b. /\ Later(base) /\ Len(base) \in Nat /\ Len(base) >= 4 /\ base[4] = "allowSsh"
  <2>1. /\ Len(head) \in Nat /\ Len(near) \in Nat /\ Len(base) = Len(head) + Len(near)
        /\ \A i \in 1 .. Len(head) + Len(near) :
             base[i] = IF i <= Len(head) THEN head[i] ELSE near[i - Len(head)]
    BY <1>2, <1>3, AppendedIs DEF Later
  <2>2. Later(base)
    BY <1>2, <1>3, LaterAppended
  <2> HIDE DEF base
  <2> QED
    BY <1>2, <2>1, <2>2
<1> HIDE DEF base
<1>5. /\ Later(w) /\ Len(w) \in Nat /\ Len(w) >= 4 /\ w[4] = "allowSsh"
  <2>1. /\ Len(wg) \in Nat /\ Len(w) = Len(base) + Len(wg)
        /\ \A i \in 1 .. Len(base) + Len(wg) :
             w[i] = IF i <= Len(base) THEN base[i] ELSE wg[i - Len(base)]
    BY <1>b, <1>3, AppendedIs DEF Later
  <2>2. Later(w)
    BY <1>b, <1>3, LaterAppended
  <2> HIDE DEF w
  <2> QED
    BY <1>b, <2>1, <2>2
<1> HIDE DEF w
<1>6. Later(w \o last)
  <2> DEFINE u == w \o last
  <2>1. /\ IsSeq(u) /\ Len(u) = Len(w) + 1
        /\ \A i \in 1 .. Len(w) + 1 : u[i] = IF i <= Len(w) THEN w[i] ELSE last[i - Len(w)]
    BY <1>4, <1>5, AppendedIs DEF Later, IsSeq
  <2> HIDE DEF u
  <2>2. \A i \in 1 .. Len(w) : u[i] = w[i]
    BY <1>5, <2>1
  <2>3. u[Len(w) + 1] = "ufwEnable"
    BY <1>4, <1>5, <2>1
  <2>4. \A i \in 1 .. Len(w) + 1 : i \in 1 .. Len(w) \/ i = Len(w) + 1
    BY <1>5
  <2>5. \A i \in 1 .. Len(u) : u[i] # "id"
    BY <1>5, <2>1, <2>2, <2>3, <2>4 DEF Later
  <2>6. SshFirst(u)
    <3> SUFFICES ASSUME NEW i \in 1 .. Len(u), u[i] = "ufwEnable"
                 PROVE  \E j \in 1 .. i - 1 : u[j] = "allowSsh"
      BY DEF SshFirst
    <3>1. CASE i \in 1 .. Len(w)
      <4>1. PICK j \in 1 .. i - 1 : w[j] = "allowSsh"
        BY <1>5, <2>2, <3>1 DEF Later, SshFirst
      <4>2. j \in 1 .. Len(w)
        BY <1>5, <3>1, <4>1
      <4> QED
        BY <2>2, <4>1, <4>2
    <3>2. CASE i = Len(w) + 1
      <4>1. 4 \in 1 .. i - 1 /\ 4 \in 1 .. Len(w)
        BY <1>5, <3>2
      <4> QED
        BY <1>5, <2>2, <4>1
    <3> QED
      BY <2>1, <2>4, <3>1, <3>2
  <2>7. Later(u)
    BY <2>1, <2>5, <2>6 DEF Later
  <2> QED
    BY <2>7 DEF u
<1> QED
  BY <1>1, <1>6, EmptyLater

LEMMA ScriptIs ==
  /\ Opening(Boot!Script)
  /\ \E i \in 1 .. Len(Boot!Script) : Boot!Script[i] = "save"
<1> DEFINE w == Boot!CreateServiceUser \o Boot!InstallPackages \o Boot!TuneSysctl
                \o Boot!InstallSingbox \o <<"aptWireguard">> \o Boot!SetupUfw
                \o Boot!InstallFail2ban \o Boot!GenerateSelfSignedCert
           s == Boot!SetupWgMssClamp
<1>1. Opening(w)
  BY UserOpens, PlainParts, SingboxLater, UfwLater, CertLater, OpeningAppended
<1>2. Later(s)
  BY PlainParts
<1>3. Len(s) = 3 /\ s[3] = "save"
  <2>1. s = <<"clamp", "aptPersistent", "save">>
    BY DEF Boot!SetupWgMssClamp
  <2> HIDE DEF s
  <2> QED
    BY <2>1
<1>4. Boot!Script = w \o s
  BY DEF Boot!Script
<1> HIDE DEF w, s
<1>5. Opening(w \o s)
  BY <1>1, <1>2, OpeningAppended
<1>6. /\ Len(w) \in Nat /\ Len(w \o s) = Len(w) + 3
      /\ \A i \in 1 .. Len(w) + 3 : (w \o s)[i] = IF i <= Len(w) THEN w[i] ELSE s[i - Len(w)]
  <2>1. /\ Len(w) \in Nat /\ Len(w \o s) = Len(w) + Len(s)
        /\ \A i \in 1 .. Len(w) + Len(s) :
             (w \o s)[i] = IF i <= Len(w) THEN w[i] ELSE s[i - Len(w)]
    BY <1>1, <1>2, AppendedIs DEF Opening, Later
  <2> QED
    BY <1>3, <2>1
<1>7. Len(w) + 3 \in 1 .. Len(w) + 3 /\ (Len(w) + 3) - Len(w) = 3 /\ ~(Len(w) + 3 <= Len(w))
  BY <1>6
<1>8. (w \o s)[Len(w) + 3] = "save"
  BY <1>3, <1>6, <1>7
<1> QED
  BY <1>4, <1>5, <1>6, <1>7, <1>8

(***************************************************************************)
(* What a bootstrap has done when it is at a command: every earlier one    *)
(* whose result lasts has left it on the node, and one that returned has   *)
(* left all of them.  A firewall that is enabled lets ssh through.         *)
(***************************************************************************)
Lasting(c) ==
  c \notin Boot!Temporary \cup {"id", "cleanup", "modprobe", "sysctl",
                                "usermod", "sudoers", "chmodSudoers"}

Bootstrapped ==
  /\ at \in 0 .. Len(Boot!Script)
  /\ late \in Boot!Apt \cup {"none"}
  /\ \A i \in 1 .. at - 1 : Lasting(Boot!Script[i]) => Boot!Script[i] \in facts
  /\ returned => at = 0 /\ \A i \in 1 .. Len(Boot!Script) :
                              Lasting(Boot!Script[i]) => Boot!Script[i] \in facts
  /\ "ufwEnable" \in facts => "allowSsh" \in facts

LEMMA ScriptLength == Len(Boot!Script) \in Nat /\ Len(Boot!Script) >= 5
  BY ScriptIs, LenProperties DEF Opening, IsSeq

LEMMA ScriptStays == kind' = kind => Boot!Script' = Boot!Script
  BY DEF Boot!Script, Boot!CreateServiceUser, Boot!InstallPackages, Boot!TuneSysctl,
         Boot!InstallSingbox, Boot!SetupUfw, Boot!InstallFail2ban,
         Boot!GenerateSelfSignedCert, Boot!SetupWgMssClamp

\* A command that is done adds itself, and only cleanup takes anything away.
LEMMA AfterIs ==
  ASSUME NEW c
  PROVE  /\ \A x \in facts : Lasting(x) => x \in Boot!After(c)
         /\ Lasting(c) => c \in Boot!After(c)
         /\ \A x \in Boot!After(c) : x \in facts \/ x = c
  BY DEF Boot!After, Lasting, Boot!Temporary

LEMMA ExecBootstraps ==
  ASSUME Bootstrapped, Boot!Exec
  PROVE  Bootstrapped'
<1> DEFINE s    == Boot!Script
           c    == s[at]
           skip == c = "id" /\ Boot!UserExists
           next == IF skip THEN at + 5 ELSE at + 1
<1>1. Len(Boot!CreateServiceUser) = 5
  BY UserOpens, LenProperties DEF Boot!CreateServiceUser
<1>2. /\ at # 0 /\ facts' = Boot!After(c) /\ kind' = kind /\ late' = late
      /\ at' = (IF next > Len(s) THEN 0 ELSE next)
      /\ returned' = (next > Len(s))
  BY <1>1 DEF Boot!Exec
<1>3. s' = s /\ Len(s) \in Nat /\ Len(s) >= 5 /\ Opening(s)
  BY <1>2, ScriptStays, ScriptLength, ScriptIs
<1>4. at \in 1 .. Len(s)
  BY <1>2, <1>3 DEF Bootstrapped
<1>5. \A i \in 1 .. at - 1 : Lasting(s[i]) => s[i] \in facts
  BY DEF Bootstrapped
<1> HIDE DEF s
<1>6. skip => at = 1 /\ s[2] \in facts
  BY <1>3, <1>4 DEF Opening, Boot!UserExists
<1>7. \A i \in 3 .. 5 : ~Lasting(s[i])
  <2>1. ~Lasting("usermod") /\ ~Lasting("sudoers") /\ ~Lasting("chmodSudoers")
    BY DEF Lasting
  <2>2. s[3] = "usermod" /\ s[4] = "sudoers" /\ s[5] = "chmodSudoers"
    BY <1>3 DEF Opening
  <2> QED
    BY <2>1, <2>2
<1>8. ASSUME NEW i \in 1 .. Len(s), i < next, Lasting(s[i]) PROVE s[i] \in facts'
  <2>1. CASE i < at
    BY <1>2, <1>4, <1>5, <1>8, <2>1, AfterIs
  <2>2. CASE i = at
    BY <1>2, <1>8, <2>2, AfterIs
  <2>3. CASE i > at
    <3>1. skip /\ at = 1 /\ i \in 2 .. 5
      BY <1>4, <1>6, <1>8, <2>3
    <3>2. i = 2
      BY <1>7, <1>8, <3>1
    <3> QED
      BY <1>2, <1>6, <1>8, <3>1, <3>2, AfterIs
  <2> QED
    BY <1>4, <2>1, <2>2, <2>3
<1>9. "ufwEnable" \in facts' => "allowSsh" \in facts'
  <2>0. Lasting("allowSsh")
    BY DEF Lasting, Boot!Temporary
  <2>1. CASE "ufwEnable" \in facts
    <3>1. "allowSsh" \in facts
      BY <2>1 DEF Bootstrapped
    <3> QED
      BY <1>2, <2>0, <3>1, AfterIs
  <2>2. CASE c = "ufwEnable"
    <3>1. PICK j \in 1 .. at - 1 : s[j] = "allowSsh"
      BY <1>3, <1>4, <2>2 DEF Opening, SshFirst
    <3>2. "allowSsh" \in facts
      BY <1>5, <2>0, <3>1
    <3> QED
      BY <1>2, <2>0, <3>2, AfterIs
  <2>3. "ufwEnable" \in facts' => "ufwEnable" \in facts \/ c = "ufwEnable"
    BY <1>2, AfterIs
  <2> QED
    BY <2>1, <2>2, <2>3
<1>10. next \in Nat
  BY <1>4
<1> HIDE DEF next, c
<1>11. at' \in 0 .. Len(s)
  BY <1>2, <1>3, <1>10
<1>12. \A i \in 1 .. at' - 1 : Lasting(s[i]) => s[i] \in facts'
  <2> SUFFICES ASSUME NEW i \in 1 .. at' - 1, Lasting(s[i]) PROVE s[i] \in facts'
    OBVIOUS
  <2>1. i \in 1 .. Len(s) /\ i < next
    BY <1>2, <1>3, <1>10, <1>11
  <2> QED
    BY <1>8, <2>1
<1>13. next > Len(s) => at' = 0 /\ \A i \in 1 .. Len(s) : Lasting(s[i]) => s[i] \in facts'
  <2>1. next > Len(s) => \A i \in 1 .. Len(s) : i < next
    BY <1>3, <1>10
  <2> QED
    BY <1>2, <1>8, <2>1
<1>14. returned' => next > Len(s)
  BY <1>2
<1>15. late' \in Boot!Apt \cup {"none"}
  BY <1>2 DEF Bootstrapped
<1> QED
  BY <1>3, <1>9, <1>11, <1>12, <1>13, <1>14, <1>15 DEF Bootstrapped, s, Boot!Apt

LEMMA BootstrapInit == ProvisionInit => Bootstrapped
<1>1. "none" \in Boot!Apt \cup {"none"}
  OBVIOUS
<1> QED
  BY <1>1, ScriptLength DEF ProvisionInit, Boot!BootInit, Bootstrapped

LEMMA BootstrapNext == Bootstrapped /\ [ProvisionNext]_allVars => Bootstrapped'
<1> SUFFICES ASSUME Bootstrapped, [ProvisionNext]_allVars PROVE Bootstrapped'
  OBVIOUS
<1>a. Boot!Apt' = Boot!Apt
  BY DEF Boot!Apt
<1>s. kind' = kind => Boot!Script' = Boot!Script
  BY ScriptStays
<1>l. Len(Boot!Script) \in Nat /\ Len(Boot!Script) >= 5
  BY ScriptLength
<1>0. ASSUME UNCHANGED <<kind, facts, returned, late>>, at' = 0
      PROVE  Bootstrapped'
  BY <1>0, <1>a, <1>s, <1>l DEF Bootstrapped
<1>1. CASE Retry \/ Again
  <2>1. Boot!BootBegin
    BY <1>1 DEF Retry, Again
  <2>2. at' = 1 /\ returned' = FALSE /\ UNCHANGED <<kind, facts, late>>
    BY <2>1 DEF Boot!BootBegin
  <2> QED
    BY <2>2, <1>a, <1>s, <1>l DEF Bootstrapped
<1>2. CASE BootStep
  <2>1. CASE Boot!Exec
    BY <2>1, ExecBootstraps
  <2>2. CASE Boot!Raise
    BY <2>2, <1>0 DEF Boot!Raise
  <2> QED
    BY <1>2, <2>1, <2>2 DEF BootStep
<1>3. CASE AptEnds
  <2>1. late # "none" /\ facts' = facts \cup {late} /\ late' = "none" /\ UNCHANGED <<kind, at, returned>>
    BY <1>3 DEF AptEnds, Boot!AptEnds
  <2>2. late \in Boot!Apt
    BY <2>1 DEF Bootstrapped
  <2>3. late # "ufwEnable"
    BY <2>2 DEF Boot!Apt
  <2> QED
    BY <2>1, <2>3, <1>a, <1>s DEF Bootstrapped
<1>4. CASE LoseBootstrap
  <2>1. CASE Boot!Drop
    BY <2>1, <1>0 DEF Boot!Drop
  <2>2. CASE Boot!TimeOut
    <3>1. late' \in Boot!Apt /\ at' = 0 /\ UNCHANGED <<kind, facts, returned>>
      BY <2>2 DEF Boot!TimeOut
    <3> QED
      BY <3>1, <1>a, <1>s, <1>l DEF Bootstrapped
  <2> QED
    BY <1>4, <2>1, <2>2 DEF LoseBootstrap
<1>5. CASE DeployStep \/ UNCHANGED allVars
  <2>1. UNCHANGED <<kind, facts, at, returned, late>>
    BY <1>5 DEF DeployStep, allVars, boot
  <2> QED
    BY <2>1, <1>a, <1>s DEF Bootstrapped
<1>6. CASE NodeReboots
  <2>1. /\ at' = 0 /\ UNCHANGED <<kind, returned, late>>
        /\ facts' = facts \ (Boot!Temporary \cup {"modprobe", "sysctl"}
                             \cup IF "save" \in facts THEN {} ELSE {"clamp"})
    BY <1>6 DEF NodeReboots, Boot!BootReboot
  <2>2. \A c : Lasting(c) /\ c \in facts /\ ("save" \in facts \/ c # "clamp") => c \in facts'
    BY <2>1 DEF Lasting
  <2>3. Lasting("save") /\ Lasting("allowSsh")
    BY DEF Lasting, Boot!Temporary
  <2>4. returned => "save" \in facts
    BY <2>3, ScriptIs DEF Bootstrapped
  <2>5. returned => \A i \in 1 .. Len(Boot!Script) :
                       Lasting(Boot!Script[i]) => Boot!Script[i] \in facts'
    BY <2>2, <2>4 DEF Bootstrapped
  <2>6. "ufwEnable" \in facts' => "allowSsh" \in facts'
    BY <2>1, <2>2, <2>3 DEF Bootstrapped
  <2> QED
    BY <2>1, <2>5, <2>6, <1>a, <1>s, <1>l DEF Bootstrapped
<1> QED
  BY <1>1, <1>2, <1>3, <1>4, <1>5, <1>6 DEF ProvisionNext

LEMMA BootstrappedAlways == ProvisionSpec => []Bootstrapped
  BY BootstrapInit, BootstrapNext, PTL DEF ProvisionSpec

\* A bootstrap that returned has left all that Delivered names (the user, the packages,
\* sing-box and its service, the firewall, fail2ban, the certificate, the MSS clamp),
\* for a node of either role and provider, however many bootstraps before it were cut
\* short at any command, left an apt-get running or were undone by a reboot.  The
\* user's groups and sudo rights outlive a reboot too and are not among them: they may
\* be missing.
THEOREM ProvisioningCompletes == ProvisionSpec => []Provisioned
<1>1. Bootstrapped => Provisioned
  <2> SUFFICES ASSUME Bootstrapped, returned, NEW c \in Boot!Delivered PROVE c \in facts
    BY DEF Provisioned
  <2>1. c \in {Boot!Script[i] : i \in DOMAIN Boot!Script} /\ Lasting(c)
    BY DEF Boot!Delivered, Lasting
  <2>2. DOMAIN Boot!Script = 1 .. Len(Boot!Script)
    BY ScriptIs, LenProperties DEF Opening, IsSeq
  <2> QED
    BY <2>1, <2>2 DEF Bootstrapped
<1> QED
  BY <1>1, BootstrappedAlways, PTL

\* The firewall never shuts out ssh, wherever the bootstraps of a node stop: the rule
\* that lets it through comes before the command that enables the firewall.
THEOREM SshStaysOpen == ProvisionSpec => []NeverLockedOut
<1>1. Bootstrapped => NeverLockedOut
  <2> SUFFICES ASSUME Bootstrapped, Boot!Firewalled PROVE <<"tcp", 22>> \in Boot!Allowed
    BY DEF NeverLockedOut, Boot!LetThrough
  <2>1. "allowSsh" \in facts
    BY DEF Bootstrapped, Boot!Firewalled
  <2>2. "allowSsh" \in DOMAIN Boot!Rule /\ Boot!Rule["allowSsh"] = <<"tcp", 22>>
    BY DEF Boot!Rule
  <2> QED
    BY <2>1, <2>2 DEF Boot!Allowed
<1> QED
  BY <1>1, BootstrappedAlways, PTL
=============================================================================
