---------------------------- MODULE DeployFleet ----------------------------
(***************************************************************************)
(* The deploy command (cli.py deploy, deploy.py deploy_fleet): the targets *)
(* with a readable rendered configuration are submitted to a pool of       *)
(* MaxParallel threads, which take them in any order; the main thread      *)
(* collects the futures as they complete.                                  *)
(*                                                                         *)
(* A worker turns every exception of deploy_node into False, but looks the *)
(* node up in the inventory before its try block: a name the inventory     *)
(* does not have makes the future, and then the main loop, raise.  Leaving *)
(* the pool's with block waits for every submitted future first, without a *)
(* timeout.                                                                *)
(***************************************************************************)
EXTENDS Naturals, FiniteSets

CONSTANTS
  Name,        \* names the command may be asked to deploy
  MaxParallel  \* workers of the pool, 2 in the code

ASSUME FleetAssumption ==
  /\ IsFiniteSet(Name)
  /\ MaxParallel \in Nat \ {0}

VARIABLES
  targets,   \* the names asked for
  known,     \* those the inventory has an entry for
  rendered,  \* those with a readable rendered/<name>/config.json
  queue,     \* submitted names no worker has taken
  working,   \* names a worker is deploying
  future,    \* result of each completed future
  results,   \* what deploy_fleet has collected
  phase,     \* where the command is
  exit       \* its exit status, once it ended

vars == <<targets, known, rendered, queue, working, future, results, phase, exit>>

NotYet == 99

\* remove-node keeps the rendered directory of the removed node, and a node of
\* the inventory may not have been rendered.
Init ==
  /\ targets \in SUBSET Name
  /\ known \in SUBSET Name
  /\ rendered \in SUBSET Name
  /\ queue = {} /\ working = {}
  /\ future = [n \in {} |-> "ok"] /\ results = [n \in {} |-> TRUE]
  /\ phase = "load" /\ exit = NotYet

Submitted == targets \cap rendered

\* Targets without a readable rendered configuration are skipped with a warning;
\* with none left the command gives up.
Load ==
  /\ phase = "load"
  /\ IF Submitted = {}
     THEN phase' = "ended" /\ exit' = 1 /\ UNCHANGED queue
     ELSE phase' = "collect" /\ queue' = Submitted /\ UNCHANGED exit
  /\ UNCHANGED <<targets, known, rendered, working, future, results>>

\* A worker takes a name.
Take(n) ==
  /\ n \in queue
  /\ Cardinality(working) < MaxParallel
  /\ working' = working \cup {n}
  /\ queue' = queue \ {n}
  /\ UNCHANGED <<targets, known, rendered, future, results, phase, exit>>

Complete(n, result) ==
  /\ n \in working
  /\ result \in IF n \in known THEN {"ok", "failed"} ELSE {"raised"}
  /\ working' = working \ {n}
  /\ future' = [m \in DOMAIN future \cup {n} |-> IF m = n THEN result ELSE future[m]]
  /\ UNCHANGED <<targets, known, rendered, queue, results, phase, exit>>

\* Mutation: a future that raised is left out and the loop goes on.
CollectSkipsRaised(n) ==
  /\ phase = "collect"
  /\ n \in DOMAIN future \ DOMAIN results
  /\ results' = [m \in DOMAIN results \cup {n} |->
                   IF m = n THEN future[n] # "failed" ELSE results[m]]
  /\ UNCHANGED <<targets, known, rendered, queue, working, future, phase, exit>>

Collect(n) ==
  /\ phase = "collect"
  /\ n \in DOMAIN future \ DOMAIN results
  /\ IF future[n] = "raised"
     THEN phase' = "raised" /\ UNCHANGED results
     ELSE /\ results' = [m \in DOMAIN results \cup {n} |->
                           IF m = n THEN future[n] = "ok" ELSE results[m]]
          /\ UNCHANGED phase
  /\ UNCHANGED <<targets, known, rendered, queue, working, future, exit>>

PoolDrained == DOMAIN future = Submitted

\* Mutation: the pool is left without waiting for its futures.
AbandonAtOnce ==
  /\ phase = "raised"
  /\ phase' = "ended" /\ exit' = 1
  /\ queue' = {}
  /\ UNCHANGED <<targets, known, rendered, working, future, results>>

\* The exception leaves the pool once every future is done.
Abandon ==
  /\ phase = "raised"
  /\ PoolDrained
  /\ phase' = "ended" /\ exit' = 1
  /\ UNCHANGED <<targets, known, rendered, queue, working, future, results>>

\* Mutation: the report waits for results, and one was never collected.
ReportNeedsAllTargets ==
  /\ phase = "collect"
  /\ targets \subseteq DOMAIN results
  /\ phase' = "ended"
  /\ exit' = IF \E n \in DOMAIN results : ~results[n] THEN 1 ELSE 0
  /\ UNCHANGED <<targets, known, rendered, queue, working, future, results>>

Report ==
  /\ phase = "collect"
  /\ DOMAIN results = Submitted
  /\ phase' = "ended"
  /\ exit' = IF \E n \in DOMAIN results : ~results[n] THEN 1 ELSE 0
  /\ UNCHANGED <<targets, known, rendered, queue, working, future, results>>

\* Workers, and the main thread waiting for them.
Taking == \E n \in Name : Take(n)
Work == Taking \/ \E n \in Name, r \in {"ok", "failed", "raised"} : Complete(n, r)
Main == Load \/ (\E n \in Name : Collect(n)) \/ Abandon \/ Report

Next == Work \/ Main

\* Threads are scheduled.  That a worker is ever done with its node is not for
\* fairness to say: the upload of deploy_node has no timeout and may stall.
FairSpec == Init /\ [][Next]_vars /\ WF_vars(Taking) /\ WF_vars(Main)

----------------------------------------------------------------------------
\* A command that exits 0 has deployed every configuration it submitted: no
\* failure of a worker is lost between the threads.
ExitZeroMeansDeployed ==
  exit = 0 => \A n \in Submitted : n \in DOMAIN future /\ future[n] = "ok"

\* A name that makes the main loop raise does not keep the other nodes from being
\* deployed: when the command ends, nothing it submitted is queued or under way.
NothingLeftBehind ==
  phase = "ended" /\ Submitted # {} => DOMAIN future = Submitted /\ working = {}

\* No deploy_node stays under way for ever.  One does if its upload stalls; past that,
\* NodeDeploy's AttemptEnds has it end.
NoneStalls == []<>(working = {})

\* Unless an upload stalls for ever, which holds the pool and the command with it, the
\* command ends, whatever becomes of the nodes and whatever the workers raise.
CommandEnds == NoneStalls => <>(phase = "ended")
============================================================================
