------------------------------ MODULE Commands ------------------------------
(***************************************************************************)
(* The commands of cli.py that run over the fleet or for its users without *)
(* changing inventory.yaml: one process runs deploy, one of the commands   *)
(* that look at the fleet, or the subscription server (while subscriptions *)
(* are rebuilt).  A command that is not run is one that has ended.         *)
(***************************************************************************)
EXTENDS DeployFleet, FleetChecks, SubServer

VARIABLES program

everything == <<program, vars, checkVars, serverVars>>

NoDeploy ==
  /\ targets = {} /\ known = {} /\ rendered = {}
  /\ queue = {} /\ working = {}
  /\ future = [n \in {} |-> "ok"] /\ results = [n \in {} |-> TRUE]
  /\ phase = "ended" /\ exit = NotYet

NoCheck ==
  /\ command = "monitorOnce" /\ live = {} /\ ported = {} /\ wanted = {}
  /\ active = [n \in Node |-> TRUE] /\ reachable = active
  /\ todo = {} /\ visiting = {} /\ asked = 1 /\ row = NoRow /\ report = <<>>
  /\ state = "ended" /\ status = 0 /\ seen = {}

CommandsInit ==
  /\ ServerInit
  /\ \/ program = "deploy" /\ Init /\ NoCheck
     \/ program = "check" /\ NoDeploy /\ CheckInit
     \/ program = "serve" /\ NoDeploy /\ NoCheck

\* A step of one of them.
Deploying(step) == program = "deploy" /\ step /\ UNCHANGED <<program, checkVars, serverVars>>
Checking(step)  == program = "check" /\ step /\ UNCHANGED <<program, vars, serverVars>>
Serving(step)   == program = "serve" /\ step /\ UNCHANGED <<program, vars, checkVars>>

CommandsNext == Deploying(Next) \/ Checking(CheckNext) \/ Serving(ServerNext)

\* The fairness of each command is its own.
CommandsSpec ==
  /\ CommandsInit /\ [][CommandsNext]_everything
  /\ WF_everything(Deploying(Taking)) /\ WF_everything(Deploying(Main))
  /\ WF_everything(Checking(CheckStep))
  /\ WF_everything(Serving(MainStep)) /\ WF_everything(Serving(LoopStep))
============================================================================
