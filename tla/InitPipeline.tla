---------------------------- MODULE InitPipeline ----------------------------
(***************************************************************************)
(* vvnext init --config (cli.py): the pipeline that sets up a whole fleet, *)
(* with one checkpoint file, deaths at any moment, and --resume.  Step k   *)
(* is skipped by a resumed command when k is in the checkpoint; a step     *)
(* whose effect happened before its checkpoint was written is repeated.    *)
(* Every file is written by truncating and filling it, and a death in      *)
(* between leaves it empty: an empty checkpoint, inventory.yaml or key     *)
(* file makes a resumed command raise; an empty state.yaml is read as an   *)
(* empty state.                                                            *)
(*                                                                         *)
(* A configuration file is the set of nodes it names, and so is the        *)
(* inventory built from it.  Step 10 reads settings.dns_provider, which    *)
(* Settings does not have: every command that reaches it ends there, and   *)
(* steps 11 to 13 are not modelled because none reaches them.              *)
(***************************************************************************)
EXTENDS Naturals, FiniteSets

CONSTANTS
  Node,
  Requests,    \* configuration files the operator runs init with
  Earlier,     \* nodes of the inventory.yaml there may be before the first init
  MaxDeaths,   \* bound on the commands that die
  MaxFailures  \* bound on the ssh sessions that fail

\* No file, or nothing in memory: a configuration file without nodes is refused.
None == {}
Files == {"checkpoint", "inventory.yaml"}

ASSUME InitAssumption ==
  /\ IsFiniteSet(Node) /\ Node \cap Files = {}
  /\ Requests \subseteq (SUBSET Node) \ {None} /\ Requests # {}
  /\ Earlier \subseteq Node
  /\ MaxDeaths \in Nat /\ MaxFailures \in Nat

VARIABLES
  invFile,      \* nodes of inventory.yaml
  keys,         \* nodes with key files under materials/
  blocks,       \* the fleet state.yaml has blocks for
  rendered,     \* the fleet each node's rendered configuration was made for
  bootstrapped, \* nodes the bootstrap succeeded on
  installed,    \* the fleet each node's running configuration was made for
  checkpoint,   \* steps done, according to state/init_checkpoint.json
  torn,         \* files a death left empty: a node stands for one of its key files
  requested,    \* the file of the latest init without --resume
  step,         \* step under way, 0 when no command runs
  unsaved,      \* the step's effect happened, its checkpoint is not written
  config,       \* the file the command was started with
  inv,          \* the inventory in its memory
  live,         \* whether the nodes of inv are live, not pending
  todo,         \* nodes left in the loop of the step
  deaths, failures

files  == <<invFile, keys, blocks, rendered>>
fleet  == <<bootstrapped, installed>>
memory == <<config, inv, live>>
bounds == <<deaths, failures>>
vars == <<files, fleet, checkpoint, torn, requested, step, unsaved, memory, todo, bounds>>

Init ==
  /\ invFile \in {None, Earlier} /\ keys = {} /\ blocks = None
  /\ rendered = [n \in Node |-> None]
  /\ bootstrapped = {} /\ installed = [n \in Node |-> None]
  /\ checkpoint = 0 /\ torn = {} /\ requested = None
  /\ step = 0 /\ unsaved = FALSE
  /\ config = None /\ inv = None /\ live = FALSE /\ todo = {}
  /\ deaths = 0 /\ failures = 0

----------------------------------------------------------------------------
End ==
  /\ step' = 0 /\ unsaved' = FALSE
  /\ config' = None /\ inv' = None /\ live' = FALSE /\ todo' = {}

\* The effect of the step is there and its checkpoint can be written.
Done == unsaved' = TRUE /\ UNCHANGED step

\* init without --resume forgets the checkpoint, but does not remove the file.
StartAfresh(c) ==
  /\ step = 0
  /\ step' = 1 /\ config' = c /\ requested' = c
  /\ UNCHANGED <<files, fleet, checkpoint, torn, unsaved, inv, live, todo, bounds>>

\* Mutation: a resumed command takes its nodes from the configuration file.
ResumeReadsConfig(c) ==
  /\ step = 0
  /\ torn \cap (Files \cup c) = {}
  /\ step' = checkpoint + 1 /\ config' = c
  /\ requested' = IF checkpoint = 0 THEN c ELSE requested
  /\ inv' = c /\ live' = TRUE /\ todo' = c
  /\ keys' = IF keys = {} THEN {} ELSE keys \cup c
  /\ UNCHANGED <<invFile, blocks, rendered, fleet, checkpoint, torn, unsaved, bounds>>

\* materials/ is there.
Materials == keys # {} \/ torn \cap Node # {}

\* A resumed command takes its nodes from inventory.yaml, all of them live, and
\* completes their keys if there are materials; without the file it has no
\* inventory.  With no checkpoint to resume from it starts at step 1.  An empty file
\* among those it reads ends it before it does anything.
Resume(c) ==
  /\ step = 0
  /\ torn \cap (Files \cup invFile) = {}
  /\ step' = checkpoint + 1 /\ config' = c
  /\ requested' = IF checkpoint = 0 THEN c ELSE requested
  /\ inv' = invFile /\ live' = (invFile # None)
  /\ todo' = invFile
  /\ keys' = IF Materials THEN keys \cup invFile ELSE {}
  /\ UNCHANGED <<invFile, blocks, rendered, fleet, checkpoint, torn, unsaved, bounds>>

\* Step 1: the nodes of the file, pending.
BuildInventory ==
  /\ step = 1 /\ ~unsaved
  /\ inv' = config /\ live' = FALSE /\ todo' = config
  /\ Done
  /\ UNCHANGED <<files, fleet, checkpoint, torn, requested, config, bounds>>

\* From step 2 on a command without an inventory ends with an AttributeError.
NoInventory ==
  /\ step \in 2 .. 5 /\ ~unsaved
  /\ inv = None
  /\ End
  /\ UNCHANGED <<files, fleet, checkpoint, torn, requested, bounds>>

Ready(k) == step = k /\ ~unsaved /\ inv # None

\* The loops of steps 6, 8 and 9 pass over the nodes that are not live.
Left == IF live THEN todo ELSE {}

\* Step 2 tries every node and goes on if none failed.
VerifySsh ==
  /\ Ready(2)
  /\ Done
  /\ UNCHANGED <<files, fleet, checkpoint, torn, requested, memory, todo, bounds>>

\* Step 3 gives the nodes their ports and promotes them, in memory only.
AllocateResources ==
  /\ Ready(3)
  /\ live' = TRUE
  /\ Done
  /\ UNCHANGED <<files, fleet, checkpoint, torn, requested, config, inv, todo, bounds>>

\* Mutation: keys are generated when there are no materials yet.
GenerateKeysOnce ==
  /\ Ready(4) /\ torn \cap inv = {}
  /\ keys' = IF live /\ ~Materials THEN inv ELSE keys
  /\ Done
  /\ UNCHANGED <<invFile, blocks, rendered, fleet, checkpoint, torn, requested, memory, todo, bounds>>

\* Step 4: keys for the live nodes that have none.
GenerateKeys ==
  /\ Ready(4)
  /\ live => torn \cap inv = {}
  /\ keys' = IF live THEN keys \cup inv ELSE keys
  /\ Done
  /\ UNCHANGED <<invFile, blocks, rendered, fleet, checkpoint, torn, requested, memory, todo, bounds>>

\* generate_all_materials raises on an empty key file.
KeysUnreadable ==
  /\ Ready(4)
  /\ live /\ torn \cap inv # {}
  /\ End
  /\ UNCHANGED <<files, fleet, checkpoint, torn, requested, bounds>>

WriteInventory ==
  /\ Ready(5)
  /\ invFile' = inv
  /\ torn' = torn \ {"inventory.yaml"}
  /\ Done
  /\ UNCHANGED <<keys, blocks, rendered, fleet, checkpoint, requested, memory, todo, bounds>>

\* Step 6, one node: what bootstrap_node raises is caught, so that a node whose
\* bootstrap failed is left behind.
BootstrapNode(n) ==
  /\ Ready(6) /\ n \in Left
  /\ todo' = todo \ {n}
  /\ \/ bootstrapped' = bootstrapped \cup {n} /\ UNCHANGED failures
     \/ /\ failures < MaxFailures /\ failures' = failures + 1
        /\ UNCHANGED bootstrapped
  /\ UNCHANGED <<files, installed, checkpoint, torn, requested, step, unsaved, memory, deaths>>

BootstrapDone ==
  /\ Ready(6) /\ Left = {}
  /\ Done
  /\ UNCHANGED <<files, fleet, checkpoint, torn, requested, memory, todo, bounds>>

ComputeTopology ==
  /\ Ready(7)
  /\ blocks' = inv
  /\ Done
  /\ UNCHANGED <<invFile, keys, rendered, fleet, checkpoint, torn, requested, memory, todo, bounds>>

\* Step 8 writes one configuration after the other, with the keys and the blocks
\* there are.
RenderNode(n) ==
  /\ Ready(8) /\ n \in Left
  /\ todo' = todo \ {n}
  /\ rendered' = [rendered EXCEPT ![n] = inv]
  /\ UNCHANGED <<invFile, keys, blocks, fleet, checkpoint, torn, requested, step, unsaved, memory, bounds>>

RenderDone ==
  /\ Ready(8) /\ Left = {}
  /\ Done
  /\ UNCHANGED <<files, fleet, checkpoint, torn, requested, memory, todo, bounds>>

\* Mutation: the failure of a node ends the command.
DeployNodeRaises(n) ==
  /\ Ready(9) /\ n \in Left
  /\ \/ /\ installed' = [installed EXCEPT ![n] = rendered[n]]
        /\ todo' = todo \ {n}
        /\ UNCHANGED <<step, unsaved, memory>>
     \/ /\ n \notin bootstrapped
        /\ End
        /\ UNCHANGED installed
  /\ UNCHANGED <<files, bootstrapped, checkpoint, torn, requested, bounds>>

\* Step 9, one node: deploy_fleet turns a failure into a result that is printed.
\* A bootstrap that failed may have come as far as to install sing-box.
DeployNode(n) ==
  /\ Ready(9) /\ n \in Left
  /\ todo' = todo \ {n}
  /\ \/ /\ installed' = [installed EXCEPT ![n] = rendered[n]]
        /\ UNCHANGED failures
     \/ /\ n \notin bootstrapped
        /\ UNCHANGED <<installed, failures>>
     \/ /\ failures < MaxFailures /\ failures' = failures + 1
        /\ UNCHANGED installed
  /\ UNCHANGED <<files, bootstrapped, checkpoint, torn, requested, step, unsaved, memory, deaths>>

DeployDone ==
  /\ Ready(9) /\ Left = {}
  /\ Done
  /\ UNCHANGED <<files, fleet, checkpoint, torn, requested, memory, todo, bounds>>

\* Mutation: step 10 counts as done although it ends the command.
SetUpDnsDone ==
  /\ Ready(10)
  /\ Done
  /\ UNCHANGED <<files, fleet, checkpoint, torn, requested, memory, todo, bounds>>

\* Step 10 ends with an AttributeError.
SetUpDns ==
  /\ Ready(10)
  /\ End
  /\ UNCHANGED <<files, fleet, checkpoint, torn, requested, bounds>>

SaveCheckpoint ==
  /\ unsaved
  /\ checkpoint' = step /\ torn' = torn \ {"checkpoint"}
  /\ step' = step + 1 /\ unsaved' = FALSE
  /\ todo' = inv
  /\ UNCHANGED <<files, fleet, requested, memory, bounds>>

\* A connection of step 2 or of the bootstrap loop fails, and the command exits.
ConnectFails ==
  /\ step \in {2, 6} /\ ~unsaved /\ inv # None /\ todo # {}
  /\ failures < MaxFailures /\ failures' = failures + 1
  /\ End
  /\ UNCHANGED <<files, fleet, checkpoint, torn, requested, deaths>>

Die ==
  /\ step # 0
  /\ deaths < MaxDeaths /\ deaths' = deaths + 1
  /\ End
  /\ UNCHANGED <<files, fleet, checkpoint, torn, requested, failures>>

\* The command dies between truncating a file and filling it: the checkpoint, a key
\* file, inventory.yaml, state.yaml, or the configuration of a node.
DieWriting ==
  /\ step # 0
  /\ deaths < MaxDeaths /\ deaths' = deaths + 1
  /\ \/ /\ unsaved
        /\ checkpoint' = 0 /\ torn' = torn \cup {"checkpoint"}
        /\ UNCHANGED files
     \/ /\ Ready(4) /\ live
        /\ \E n \in inv \ keys : torn' = torn \cup {n}
        /\ UNCHANGED <<files, checkpoint>>
     \/ /\ Ready(5)
        /\ invFile' = None /\ torn' = torn \cup {"inventory.yaml"}
        /\ UNCHANGED <<keys, blocks, rendered, checkpoint>>
     \/ /\ Ready(7)
        /\ blocks' = None
        /\ UNCHANGED <<invFile, keys, rendered, checkpoint, torn>>
     \/ /\ Ready(8)
        /\ \E n \in Left : rendered' = [rendered EXCEPT ![n] = None]
        /\ UNCHANGED <<invFile, keys, blocks, checkpoint, torn>>
  /\ End
  /\ UNCHANGED <<fleet, requested, failures>>

\* A resumed command dies while it writes the keys that are missing.
DieCompleting ==
  /\ step = 0
  /\ torn \cap (Files \cup invFile) = {} /\ Materials
  /\ deaths < MaxDeaths /\ deaths' = deaths + 1
  /\ \E n \in invFile \ keys : torn' = torn \cup {n}
  /\ UNCHANGED <<files, fleet, checkpoint, requested, step, unsaved, memory, todo, failures>>

Command ==
  \/ BuildInventory \/ NoInventory \/ VerifySsh \/ AllocateResources \/ GenerateKeys
  \/ KeysUnreadable \/ WriteInventory \/ (\E n \in Node : BootstrapNode(n)) \/ BootstrapDone
  \/ ComputeTopology \/ (\E n \in Node : RenderNode(n)) \/ RenderDone
  \/ (\E n \in Node : DeployNode(n)) \/ DeployDone \/ SetUpDns \/ SaveCheckpoint

Next ==
  \/ \E c \in Requests : StartAfresh(c) \/ Resume(c)
  \/ Command
  \/ ConnectFails
  \/ Die \/ DieWriting \/ DieCompleting

\* What the documentation tells the operator to do after a failure.
Operate == \E c \in Requests : Resume(c)

\* A command runs to its end, and the operator does not give up.
FairSpec == Init /\ [][Next]_vars /\ WF_vars(Command) /\ SF_vars(Operate)

----------------------------------------------------------------------------
TypeOK ==
  /\ {invFile, keys, blocks, bootstrapped, inv, todo} \subseteq SUBSET Node
  /\ rendered \in [Node -> SUBSET Node]
  /\ installed \in [Node -> SUBSET Node]
  /\ checkpoint \in 0 .. 9 /\ torn \subseteq Node \cup Files
  /\ requested \in Requests \cup {None} /\ config \in Requests \cup {None}
  /\ step \in 0 .. 10 /\ unsaved \in BOOLEAN /\ live \in BOOLEAN
  /\ deaths \in 0 .. MaxDeaths /\ failures \in 0 .. MaxFailures

\* What the checkpoint calls done is about one fleet, the one in inventory.yaml:
\* its blocks are in state.yaml and every node has a configuration made for it,
\* also when a command of another configuration file was interrupted before.
OneFleet ==
  /\ checkpoint >= 5 => invFile # None
  /\ checkpoint >= 7 => blocks = invFile
  /\ checkpoint >= 8 => \A n \in invFile : rendered[n] = invFile

\* A configuration is rendered when every node of its fleet has its keys: both
\* ends of every tunnel in it can be filled in.
RenderedKeyed == \A n \in Node : rendered[n] \subseteq keys

\* A command past step 1 works on the nodes of the configuration file the latest
\* init was started with, also a resumed one: it picks up the fleet it left.
ContinuesRequested == step >= 2 => inv = requested

\* Once there is an inventory.yaml, a resumed init comes to the end of the deployment
\* wherever it was interrupted, unless a death left the checkpoint, inventory.yaml or a
\* key file of its nodes empty: then every resumed command raises on that file, as it
\* does on a checkpoint of the first steps as long as there is no inventory.yaml.
InitDeploys ==
  invFile # None ~> checkpoint = 9 \/ torn \cap (Files \cup invFile) # {}
============================================================================
