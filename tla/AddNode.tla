------------------------------ MODULE AddNode ------------------------------
(***************************************************************************)
(* vvnext add-node (cli.py): the 13 steps that bring a machine into the    *)
(* fleet, with a checkpoint file per machine, deaths at any moment, and    *)
(* --resume.  One command runs at a time.  Step k is done once its number  *)
(* is in the checkpoint; a step whose effect happened and whose checkpoint *)
(* was not written is repeated by a resumed command.  Every file is        *)
(* written by truncating and filling it, and a death in between leaves it  *)
(* empty: an empty checkpoint, inventory.yaml or key file makes the        *)
(* commands that read it raise; an empty state.yaml is read as an empty    *)
(* state.                                                                  *)
(*                                                                         *)
(* The machines are of one region and provider, so that their names differ *)
(* only in the letter generate_node_id appends; a name is the place of the *)
(* letter, 0 for "a".                                                      *)
(***************************************************************************)
EXTENDS Naturals, FiniteSets

CONSTANTS
  NearMachine, FarMachine, \* machines, by the role step 1 detects
  Letters,     \* names generate_node_id can form, 26 in the code
  Disciplined, \* an interrupted add-node that can be resumed is, before anything is
               \* added, and a machine that is listed is not added again
  MaxDeaths,   \* bound on the commands that die
  MaxRefused   \* bound on the ssh sessions that fail

Machine == NearMachine \cup FarMachine
Files == {"inventory.yaml", "state.yaml", "materials"}

ASSUME AddNodeAssumption ==
  /\ Machine \cap Files = {}
  /\ NearMachine \cap FarMachine = {}
  /\ IsFiniteSet(NearMachine) /\ IsFiniteSet(FarMachine)
  /\ Letters \in Nat \ {0}
  /\ Disciplined \in BOOLEAN
  /\ MaxDeaths \in Nat /\ MaxRefused \in Nat

VARIABLES
  inventory,  \* entries of inventory.yaml, all of them live
  pairs,      \* pairs with a block in state.yaml
  keys,       \* names with key files under materials/
  checkpoint, \* state/.add_node/<ip>.json
  torn,       \* files a death left empty: a machine stands for its checkpoint;
              \* inventory, pairs and keys keep what such a file held before
  installed,  \* configurations add-node deployed, at most one per machine
  added,      \* machines reported as added, with the name reported
  step,       \* step under way, 0 when no command runs
  unsaved,    \* the step's effect happened, its checkpoint is not written
  target,     \* the machine being added
  name, port, \* its node_id, and its port_base or wg_port
  copy,       \* the inventory in the command's memory
  held,       \* names whose keys are in its materials
  deaths, refused

disk   == <<inventory, pairs, keys>>
memory == <<target, name, port, copy, held>>
bounds == <<deaths, refused>>
vars == <<disk, checkpoint, torn, installed, added, step, unsaved, memory, bounds>>

None == 99          \* no name, port or configuration yet
Name == 0 .. Letters - 1
NoCheckpoint == [done |-> 0, name |-> None, port |-> None]

Init ==
  /\ inventory = {} /\ pairs = {} /\ keys = {}
  /\ checkpoint = [m \in Machine |-> NoCheckpoint]
  /\ torn = {}
  /\ installed = {}
  /\ added = {}
  /\ step = 0 /\ unsaved = FALSE
  /\ target \in Machine
  /\ name = None /\ port = None /\ copy = {} /\ held = {}
  /\ deaths = 0 /\ refused = 0

----------------------------------------------------------------------------
Names(inv) == {e.name : e \in inv}

Role(m) == IF m \in NearMachine THEN "near" ELSE "far"

OfRole(inv, role) == {e \in inv : Role(e.ip) = role}

\* A live near node lists as wg_peers the far nodes known when it was added.
Entry(m, n, k, inv) ==
  [name |-> n, ip |-> m, port |-> k,
   peers |-> IF Role(m) = "near" THEN Names(OfRole(inv, "far")) \ {n} ELSE {}]

DesiredPairs(inv) ==
  {<<n.name, f.name>> : n \in OfRole(inv, "near"), f \in OfRole(inv, "far")}
    \cap UNION {{n.name} \X n.peers : n \in OfRole(inv, "near")}

\* Inventory's validator, for the fields add-node writes.
Loads(inv) ==
  \A e, f \in inv : Role(e.ip) = Role(f.ip) /\ e.port = f.port => e = f

LeastFree(used) == CHOOSE k \in 0 .. Cardinality(used) :
                     k \notin used /\ \A j \in 0 .. k - 1 : j \in used

Save(done) ==
  /\ checkpoint' = [checkpoint EXCEPT ![target] = [done |-> done, name |-> name', port |-> port']]
  /\ torn' = torn \ {target}

End ==
  /\ step' = 0 /\ unsaved' = FALSE
  /\ name' = None /\ port' = None /\ copy' = {} /\ held' = {}
  /\ UNCHANGED target

\* Mutation: a resumed command leaves the key materials as they were.
RebuildKeyless(m, c) ==
  /\ "materials" \notin torn
  /\ copy' = IF c.name \in Names(inventory) THEN inventory
             ELSE inventory \cup {Entry(m, c.name, c.port, inventory)}
  /\ held' = {}
  /\ UNCHANGED keys

\* A command resumed after step 5 rebuilds its node, lists it unless a node of
\* that name is listed, and completes the keys of the nodes that were live when
\* it loaded the inventory: its own node is pending until after that.
Rebuild(m, c) ==
  /\ "materials" \notin torn
  /\ copy' = IF c.name \in Names(inventory) THEN inventory
             ELSE inventory \cup {Entry(m, c.name, c.port, inventory)}
  /\ held' = Names(inventory)
  /\ keys' = keys \cup Names(inventory)

Start(m, c) ==
  /\ step = 0
  /\ "inventory.yaml" \notin torn /\ Loads(inventory)
  /\ step' = c.done + 1 /\ target' = m /\ name' = c.name /\ port' = c.port
  /\ IF c.done >= 5 THEN Rebuild(m, c)
                    ELSE copy' = inventory /\ held' = {} /\ UNCHANGED keys
  /\ UNCHANGED <<inventory, pairs, checkpoint, torn, installed, added, unsaved, bounds>>

\* add-node without --resume, of a machine that is new or that an earlier
\* command did not finish adding.
Add(m) ==
  /\ \A a \in added : a.ip # m
  /\ Disciplined => /\ \A x \in Machine : checkpoint[x] = NoCheckpoint
                    /\ \A e \in inventory : e.ip # m
  /\ Start(m, NoCheckpoint)

Resume(m) ==
  /\ checkpoint[m] # NoCheckpoint
  /\ Start(m, checkpoint[m])

\* Steps with no effect but their checkpoint: probe, confirm, bootstrap, DNS,
\* subscriptions, health check.
Pass ==
  /\ step \in {1, 2, 8, 10, 11, 12}
  /\ step' = step + 1
  /\ UNCHANGED memory
  /\ Save(step)
  /\ UNCHANGED <<disk, installed, added, unsaved, bounds>>

\* Mutation: the search for a letter does not stop after the last.
GenerateNodeIdPastLetters ==
  /\ step = 3
  /\ name' = LeastFree(Names(copy))
  /\ step' = 4
  /\ UNCHANGED <<target, port, copy, held>>
  /\ Save(3)
  /\ UNCHANGED <<disk, installed, added, unsaved, bounds>>

GenerateNodeId ==
  /\ step = 3
  /\ LeastFree(Names(copy)) \in Name
  /\ name' = LeastFree(Names(copy))
  /\ step' = 4
  /\ UNCHANGED <<target, port, copy, held>>
  /\ Save(3)
  /\ UNCHANGED <<disk, installed, added, unsaved, bounds>>

\* generate_node_id raises when the letters are used up.
Exhausted ==
  /\ step = 3
  /\ LeastFree(Names(copy)) \notin Name
  /\ End
  /\ UNCHANGED <<disk, checkpoint, torn, installed, added, bounds>>

\* Mutation: the port is taken from the number of nodes.
AllocateByCount ==
  /\ step = 4
  /\ port' = Cardinality(OfRole(copy, "near"))
  /\ step' = 5
  /\ UNCHANGED <<target, name, copy, held>>
  /\ Save(4)
  /\ UNCHANGED <<disk, installed, added, unsaved, bounds>>

Allocate ==
  /\ step = 4
  /\ port' = LeastFree({e.port : e \in OfRole(copy, Role(target))})
  /\ step' = 5
  /\ UNCHANGED <<target, name, copy, held>>
  /\ Save(4)
  /\ UNCHANGED <<disk, installed, added, unsaved, bounds>>

\* The new node is pending while the keys are generated, and promoted after.
GenerateMaterials ==
  /\ step = 5 /\ ~unsaved
  /\ "materials" \notin torn
  /\ held' = Names(copy)
  /\ keys' = keys \cup Names(copy)
  /\ copy' = copy \cup {Entry(target, name, port, copy)}
  /\ unsaved' = TRUE
  /\ UNCHANGED <<inventory, pairs, checkpoint, torn, installed, added, step,
                 target, name, port, bounds>>

\* generate_all_materials raises on an empty key file.
KeysUnreadable ==
  /\ step = 5 /\ ~unsaved
  /\ "materials" \in torn
  /\ End
  /\ UNCHANGED <<disk, checkpoint, torn, installed, added, bounds>>

UpdateInventory ==
  /\ step = 6 /\ ~unsaved
  /\ inventory' = copy
  /\ unsaved' = TRUE
  /\ UNCHANGED <<pairs, keys, checkpoint, torn, installed, added, step, memory, bounds>>

ComputeTopology ==
  /\ step = 7 /\ ~unsaved
  /\ pairs' = DesiredPairs(copy)
  /\ torn' = torn \ {"state.yaml"}
  /\ unsaved' = TRUE
  /\ UNCHANGED <<inventory, keys, checkpoint, installed, added, step, memory, bounds>>

\* The configuration of step 9: the other ends of the node's tunnels, and
\* whether the command holds the node's own keys.
Rendered ==
  [ip |-> target, name |-> name,
   tunnels |-> {p[1] : p \in {q \in DesiredPairs(copy) : q[2] = name}}
               \cup {p[2] : p \in {q \in DesiredPairs(copy) : q[1] = name}},
   keyed |-> name \in held]

\* With an empty private key the node's sing-box fails its check or does not
\* start; a far node without tunnels has no endpoint and needs none.
Accepted(c) == c.keyed \/ (target \in FarMachine /\ c.tunnels = {})

\* Mutation: the checkpoint of step 9 is written although the deploy failed.
DeployAlwaysDone ==
  /\ step = 9 /\ ~unsaved
  /\ installed' = IF Accepted(Rendered) THEN installed \cup {Rendered} ELSE installed
  /\ unsaved' = TRUE
  /\ UNCHANGED <<disk, checkpoint, torn, added, step, memory, bounds>>

Deploy ==
  /\ step = 9 /\ ~unsaved
  /\ \/ /\ Accepted(Rendered)
        /\ installed' = {c \in installed : c.ip # target} \cup {Rendered}
        /\ unsaved' = TRUE
        /\ UNCHANGED <<step, memory>>
     \/ /\ ~Accepted(Rendered)
        /\ End
        /\ UNCHANGED installed
  /\ UNCHANGED <<disk, checkpoint, torn, added, bounds>>

SaveCheckpoint ==
  /\ unsaved
  /\ unsaved' = FALSE
  /\ step' = step + 1
  /\ UNCHANGED memory
  /\ Save(step)
  /\ UNCHANGED <<disk, installed, added, bounds>>

\* Mutation: the checkpoint stays when the command succeeds.
SummaryKeepsCheckpoint ==
  /\ step = 13
  /\ added' = added \cup {[ip |-> target, name |-> name]}
  /\ checkpoint' = [checkpoint EXCEPT ![target].done = 2]
  /\ UNCHANGED torn
  /\ End
  /\ UNCHANGED <<disk, installed, bounds>>

\* Success is reported and the checkpoint removed.
Summary ==
  /\ step = 13
  /\ added' = added \cup {[ip |-> target, name |-> name]}
  /\ checkpoint' = [checkpoint EXCEPT ![target] = NoCheckpoint]
  /\ torn' = torn \ {target}
  /\ End
  /\ UNCHANGED <<disk, installed, bounds>>

\* An ssh session of steps 1, 8 and 9 fails and the command exits.
Refuse ==
  /\ step \in {1, 8, 9} /\ ~unsaved
  /\ refused < MaxRefused
  /\ refused' = refused + 1
  /\ End
  /\ UNCHANGED <<disk, checkpoint, torn, installed, added, deaths>>

Die ==
  /\ step # 0
  /\ deaths < MaxDeaths
  /\ deaths' = deaths + 1
  /\ End
  /\ UNCHANGED <<disk, checkpoint, torn, installed, added, refused>>

\* The steps after which the checkpoint is about to be written.
Saving ==
  \/ unsaved
  \/ step \in {1, 2, 4, 8, 10, 11, 12, 13}
  \/ step = 3 /\ LeastFree(Names(copy)) \in Name

\* The command dies between truncating a file and filling it.
DieWriting ==
  /\ step # 0
  /\ deaths < MaxDeaths
  /\ deaths' = deaths + 1
  /\ \/ /\ Saving
        /\ checkpoint' = [checkpoint EXCEPT ![target] = NoCheckpoint]
        /\ torn' = torn \cup {target}
     \/ /\ step = 5 /\ ~unsaved /\ ~(Names(copy) \subseteq keys)
        /\ torn' = torn \cup {"materials"} /\ UNCHANGED checkpoint
     \/ /\ step = 6 /\ ~unsaved
        /\ torn' = torn \cup {"inventory.yaml"} /\ UNCHANGED checkpoint
     \/ /\ step = 7 /\ ~unsaved
        /\ torn' = torn \cup {"state.yaml"} /\ UNCHANGED checkpoint
  /\ End
  /\ UNCHANGED <<disk, installed, added, refused>>

\* A resumed command dies while it writes the keys that are missing.
DieRebuilding(m) ==
  /\ step = 0 /\ "inventory.yaml" \notin torn /\ Loads(inventory)
  /\ checkpoint[m].done >= 5 /\ ~(Names(inventory) \subseteq keys)
  /\ deaths < MaxDeaths
  /\ deaths' = deaths + 1
  /\ torn' = torn \cup {"materials"}
  /\ UNCHANGED <<disk, checkpoint, installed, added, step, unsaved, memory, refused>>

Command ==
  \/ Pass \/ GenerateNodeId \/ Exhausted \/ Allocate \/ GenerateMaterials
  \/ KeysUnreadable \/ UpdateInventory \/ ComputeTopology \/ Deploy \/ SaveCheckpoint \/ Summary

Next ==
  \/ \E m \in Machine : Add(m) \/ Resume(m) \/ DieRebuilding(m)
  \/ Command
  \/ Refuse
  \/ Die \/ DieWriting

Spec == Init /\ [][Next]_vars

\* A command runs to its end, and the operator resumes what was interrupted.
FairSpec == Spec /\ WF_vars(Command) /\ \A m \in Machine : WF_vars(Resume(m))

----------------------------------------------------------------------------
Entries == [name : Name, ip : Machine, port : Nat, peers : SUBSET Name]

TypeOK ==
  /\ inventory \subseteq Entries /\ copy \subseteq Entries
  /\ pairs \subseteq Name \X Name
  /\ keys \subseteq Name /\ held \subseteq Name
  /\ checkpoint \in [Machine -> [done : 0 .. 12, name : Name \cup {None}, port : Nat]]
  /\ torn \subseteq Machine \cup Files
  /\ installed \subseteq [ip : Machine, name : Name, tunnels : SUBSET Name, keyed : BOOLEAN]
  /\ added \subseteq [ip : Machine, name : Name]
  /\ step \in 0 .. 13 /\ unsaved \in BOOLEAN
  /\ target \in Machine
  /\ name \in Name \cup {None} /\ port \in Nat
  /\ deaths \in 0 .. MaxDeaths /\ refused \in 0 .. MaxRefused

\* However often add-node dies and is resumed, a machine is listed once, names are
\* unique, ports are unique per role, and the inventory, once whole, can be loaded.
ListedOnce ==
  /\ \A e, f \in inventory : e.name = f.name \/ e.ip = f.ip => e = f
  /\ Loads(inventory)

\* A machine reported as added is in the inventory under the reported name and runs a
\* configuration of that name, whose tunnels have blocks, except while a death has
\* left state.yaml empty.
AddedIsListed ==
  \A a \in added :
    /\ \E e \in inventory : e.ip = a.ip /\ e.name = a.name
    /\ \E c \in installed :
         /\ c.ip = a.ip /\ c.name = a.name
         /\ "state.yaml" \in torn
            \/ \A t \in c.tunnels : <<a.name, t>> \in pairs \/ <<t, a.name>> \in pairs

\* An add-node that got as far as a name succeeds in the end if it is resumed,
\* wherever it was interrupted, unless a death left its checkpoint, inventory.yaml or a
\* key file empty: then every resumed command raises on that file.
AddCompletes ==
  \A m \in Machine :
    checkpoint[m].done >= 3 ~> \/ \E a \in added : a.ip = m
                               \/ torn \cap {m, "inventory.yaml", "materials"} # {}
============================================================================
