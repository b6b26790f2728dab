-------------------------------- MODULE Fleet --------------------------------
(***************************************************************************)
(* The files of a fleet and the configurations its machines run, over the  *)
(* life of the fleet: batch-add, remove-node, deploy, keys rotate (cli.py, *)
(* keys.py, config_generator.py), and edits of wg_peers.  A node has a     *)
(* configuration of its own and appears, with its keys and addresses, in   *)
(* those of its peers; each is rendered once, when the node is added.      *)
(*                                                                         *)
(* One command runs at a time (OverlayState has them interleave) and the   *)
(* nodes listed are live.  A rendered configuration is what two ends of a  *)
(* tunnel must agree on; a key is the number of the rotation that made it. *)
(*                                                                         *)
(* A batch may die while it writes state.yaml or a configuration, and      *)
(* leave it empty.  Inventory.yaml and key files are written in one step:  *)
(* one that is left empty makes the commands that read it raise.           *)
(***************************************************************************)
EXTENDS Overlay

CONSTANTS
  InitNear,     \* near nodes init may have set up
  MaxDeaths,    \* bound on the commands that die
  MaxRotations, \* bound on keys rotate
  MaxBatches,   \* bound on batch-add
  MaxEdits      \* bound on removals and edits of wg_peers

ASSUME FleetAssumption ==
  /\ Near \cap Far = {}
  /\ InitNear \subseteq Near
  /\ MaxDeaths \in Nat /\ MaxRotations \in Nat /\ MaxBatches \in Nat /\ MaxEdits \in Nat

Node == Near \cup Far

VARIABLES
  inv,       \* inventory.yaml
  st,        \* state.yaml
  key,       \* key files under materials/, NoKey where there is none
  rendered,  \* rendered/<node>/config.json, NoConfig where there is none
  installed, \* the configuration the machine of each node runs
  plan,      \* nodes batch-add has yet to add
  batch,     \* all nodes of the batch under way, {} when none is
  copy,      \* the inventory in its memory
  reported,  \* nodes batch-add printed OK for, whose tunnels nobody changed since
  wiped,     \* a death has left state.yaml empty
  deaths, rotations, batches, edits

files  == <<inv, st, key, rendered>>
memory == <<plan, batch, copy>>
bounds == <<deaths, rotations, batches, edits>>
vars   == <<files, installed, memory, reported, wiped, bounds>>

NoKey == 0
NoConfig == [own |-> NoKey, links |-> [x \in {} |-> NoKey]]
NoInventory == [near  |-> {}, far |-> {},
                peers |-> [n \in Near |-> {}], port |-> [f \in Far |-> NoPort]]

Listed(iv) == iv.near \cup iv.far

----------------------------------------------------------------------------
\* generate_all_materials: a listed node without keys gets some.
Materials(k, iv) ==
  [x \in Node |-> IF x \in Listed(iv) /\ k[x] = NoKey THEN rotations + 1 ELSE k[x]]

PeersOf(x, topo) ==
  {f \in Far : <<x, f>> \in DOMAIN topo} \cup {n \in Near : <<n, x>> \in DOMAIN topo}

\* One endpoint per far peer: its own address, the peer's port and public key.
NearConfig(n, topo, k) ==
  [own   |-> k[n],
   links |-> [f \in PeersOf(n, topo) |->
                [ip |-> topo[<<n, f>>].ip.near_ip, port |-> topo[<<n, f>>].wg_port, key |-> k[f]]]]

\* One endpoint with a peer per near node, told apart by address and public key.
FarConfig(f, topo, k, iv) ==
  [own   |-> k[f],
   links |-> [n \in PeersOf(f, topo) |->
                [ip |-> topo[<<n, f>>].ip.near_ip, port |-> iv.port[f], key |-> k[n]]]]

Config(x, topo, k, iv) ==
  IF x \in Near THEN NearConfig(x, topo, k) ELSE FarConfig(x, topo, k, iv)

(***************************************************************************)
(* The fleet after init: ports in order, every node rendered and deployed. *)
(***************************************************************************)
FleetOf(iv, k) ==
  LET topo == Topology(iv, EmptyState)
  IN  [x \in Node |-> IF x \in Listed(iv) THEN Config(x, topo, k, iv) ELSE NoConfig]

\* Mutation: a new far node gets the port after the highest one.
LeastPortPastTheEnd(iv) ==
  CHOOSE p \in 1 .. 2 * Cardinality(Far) + 1 :
    /\ \A f \in iv.far : iv.port[f] < p
    /\ p = 1 \/ \E f \in iv.far : iv.port[f] = p - 1

LeastPort(iv) ==
  CHOOSE p \in 1 .. Cardinality(Far) + 1 :
    /\ \A f \in iv.far : iv.port[f] # p
    /\ \A q \in 1 .. p - 1 : \E f \in iv.far : iv.port[f] = q

Init ==
  /\ \E N \in SUBSET InitNear, f \in Far :
       \E S \in [N -> SUBSET {f}] :
         inv = [near  |-> N, far |-> {f},
                peers |-> [n \in Near |-> IF n \in N THEN S[n] ELSE {}],
                port  |-> [g \in Far |-> IF g = f THEN 1 ELSE NoPort]]
  /\ st = NewState(inv, EmptyState)
  /\ key = [x \in Node |-> IF x \in Listed(inv) THEN 1 ELSE NoKey]
  /\ rendered = FleetOf(inv, key) /\ installed = rendered
  /\ plan = {} /\ batch = {} /\ copy = NoInventory
  /\ reported = {} /\ wiped = FALSE
  /\ deaths = 0 /\ rotations = 0 /\ batches = 0 /\ edits = 0

----------------------------------------------------------------------------
\* A command starts by loading the inventory, and refuses one that is invalid.
Ready == batch = {} /\ Loads(inv)

Edit == edits < MaxEdits /\ edits' = edits + 1

\* Phases 1 and 2: the machines that answer get names nobody has and are listed
\* as pending in memory.  A machine of a new name may be one that ran before.
BatchStart(P) ==
  /\ Ready /\ batches < MaxBatches /\ batches' = batches + 1
  /\ P # {} /\ P \cap Listed(inv) = {}
  /\ plan' = P /\ batch' = P /\ copy' = inv
  /\ \E fresh \in SUBSET {x \in P : installed[x] # NoConfig} :
       installed' = [x \in Node |-> IF x \in fresh THEN NoConfig ELSE installed[x]]
  /\ reported' = reported \ P
  /\ UNCHANGED <<files, wiped, deaths, rotations, edits>>

\* The node goes live in memory: a near node peers with the far nodes live by now.
Promoted(x) ==
  IF x \in Near
  THEN [copy EXCEPT !.near = @ \cup {x}, !.peers[x] = copy.far]
  ELSE [copy EXCEPT !.far = @ \cup {x}, !.port[x] = LeastPort(copy)]

\* Keys, topology and state.yaml, then bootstrap, rendering and deployment; an
\* error of these is caught and the batch goes on; OK is printed at once.  iv is
\* the inventory the keys are generated for.
AddPlanned(x, iv) ==
  LET c    == Promoted(x)
      topo == Topology(c, st)
  IN  /\ batch # {} /\ x \in plan
      /\ plan' = plan \ {x}
      /\ copy' = c
      /\ key' = Materials(key, iv)
      /\ st' = NewState(c, st)
      /\ \/ UNCHANGED <<rendered, installed, reported>>
         \/ /\ rendered' = [rendered EXCEPT ![x] = Config(x, topo, key', c)]
            /\ \/ UNCHANGED <<installed, reported>>
               \/ /\ installed' = [installed EXCEPT ![x] = rendered'[x]]
                  /\ reported' = reported \cup {x}
      /\ UNCHANGED <<inv, batch, wiped, bounds>>

\* Mutation: the plan is not sorted.
BatchNodeUnsorted(x) == AddPlanned(x, Promoted(x))

\* Mutation: the node is promoted after the keys are generated.
BatchNodeKeyless(x) ==
  /\ x \in Near => plan \cap Far = {}
  /\ AddPlanned(x, copy)

\* Phase 3, one node: far nodes come first.
BatchNode(x) ==
  /\ x \in Near => plan \cap Far = {}
  /\ AddPlanned(x, Promoted(x))

Forget ==
  plan' = {} /\ batch' = {} /\ copy' = NoInventory

\* The inventory is written at the end, with the nodes that failed.
BatchSave ==
  /\ batch # {} /\ plan = {}
  /\ inv' = copy
  /\ Forget
  /\ UNCHANGED <<st, key, rendered, installed, reported, wiped, bounds>>

\* A batch dies between two nodes, or on an error that is not caught.
BatchDies ==
  /\ batch # {} /\ deaths < MaxDeaths
  /\ deaths' = deaths + 1
  /\ Forget
  /\ UNCHANGED <<files, installed, reported, wiped, rotations, batches, edits>>

\* It dies while it writes state.yaml, which is read as an empty state from then on,
\* or the configuration of the node, which deploy cannot read.
BatchDiesWriting(x) ==
  /\ batch # {} /\ x \in plan /\ (x \in Near => plan \cap Far = {})
  /\ deaths < MaxDeaths /\ deaths' = deaths + 1
  /\ key' = Materials(key, Promoted(x))
  /\ \/ /\ st' = EmptyState /\ wiped' = TRUE
        /\ UNCHANGED rendered
     \/ /\ st' = NewState(Promoted(x), st)
        /\ rendered' = [rendered EXCEPT ![x] = NoConfig]
        /\ UNCHANGED wiped
  /\ Forget
  /\ UNCHANGED <<inv, installed, reported, rotations, batches, edits>>

----------------------------------------------------------------------------
\* remove-node takes the entry out of inventory.yaml and touches nothing else:
\* wg_peers may still name it.
RemoveNode(x) ==
  /\ Ready /\ Edit
  /\ x \in Listed(inv)
  /\ inv' = [near  |-> inv.near \ {x}, far |-> inv.far \ {x},
             peers |-> [n \in Near |-> IF n = x THEN {} ELSE inv.peers[n]],
             port  |-> [f \in Far |-> IF f = x THEN NoPort ELSE inv.port[f]]]
  /\ reported' = {n \in reported \ {x} : x \notin DOMAIN installed[n].links}
  /\ UNCHANGED <<st, key, rendered, installed, memory, wiped, deaths, rotations, batches>>

\* The operator edits wg_peers of a near node, with an editor.
EditPeers(n, S) ==
  /\ batch = {} /\ Edit
  /\ n \in inv.near /\ S \subseteq inv.far /\ S # inv.peers[n]
  /\ inv' = [inv EXCEPT !.peers[n] = S]
  /\ reported' = reported \ {n}
  /\ UNCHANGED <<st, key, rendered, installed, memory, wiped, deaths, rotations, batches>>

\* deploy installs what is rendered; T are the nodes it succeeds on (one after the
\* other, or all of them, in Next).
Deploy(T) ==
  /\ Ready
  /\ T # {} /\ T \subseteq {x \in Listed(inv) : rendered[x] # NoConfig}
  /\ installed' = [x \in Node |-> IF x \in T THEN rendered[x] ELSE installed[x]]
  /\ UNCHANGED <<files, memory, reported, wiped, bounds>>

\* keys rotate deletes the keys of the nodes in S and generates what is missing;
\* it may die in between.
Rotate(S) ==
  /\ Ready
  /\ rotations < MaxRotations /\ rotations' = rotations + 1
  /\ LET gone == [x \in Node |-> IF x \in S THEN NoKey ELSE key[x]]
     IN  \/ /\ key' = [x \in Node |-> IF x \in Listed(inv) /\ gone[x] = NoKey
                                      THEN rotations + 2 ELSE gone[x]]
            /\ UNCHANGED deaths
         \/ /\ deaths < MaxDeaths /\ deaths' = deaths + 1
            /\ key' = gone
  /\ UNCHANGED <<inv, st, rendered, installed, memory, reported, wiped, batches, edits>>

DeployAll == Deploy({x \in Listed(inv) : rendered[x] # NoConfig})

Next ==
  \/ \E P \in SUBSET Node : BatchStart(P)
  \/ \E x \in Node : BatchNode(x) \/ BatchDiesWriting(x) \/ RemoveNode(x)
  \/ BatchSave \/ BatchDies
  \/ \E n \in Near, S \in SUBSET Far : EditPeers(n, S)
  \/ \E x \in Node : Deploy({x})
  \/ DeployAll
  \/ \E x \in Listed(inv) : Rotate({x})
  \/ Rotate(Listed(inv))

Spec == Init /\ [][Next]_vars

----------------------------------------------------------------------------
Ips == {NearIp(o) : o \in 0 .. Cardinality(Pairs) - 1}

Links(k) == [ip : Ips, port : 1 .. Cardinality(Far), key : 0 .. k]

TypeOK ==
  /\ inv.near \subseteq Near /\ inv.far \subseteq Far
  /\ \A n \in Near : inv.peers[n] \subseteq Far
  /\ DOMAIN st.ip \subseteq Pairs
  /\ key \in [Node -> 0 .. MaxRotations + 1]
  /\ \A x \in Node : \A c \in {rendered[x], installed[x]} :
       /\ c.own \in 0 .. MaxRotations + 1
       /\ DOMAIN c.links \subseteq IF x \in Near THEN Far ELSE Near
       /\ \A y \in DOMAIN c.links : c.links[y] \in Links(MaxRotations + 1)
  /\ plan \subseteq batch
  /\ reported \subseteq Node /\ wiped \in BOOLEAN
  /\ deaths \in 0 .. MaxDeaths /\ rotations \in 0 .. MaxRotations
  /\ batches \in 0 .. MaxBatches /\ edits \in 0 .. MaxEdits

\* A near node that batch-add lists peers with every far node listed, those of the
\* same batch included: the order of the batch is what makes it so.
BatchReachesFar ==
  [][\A n \in Near : n \in inv'.near \ inv.near => inv'.peers[n] = inv'.far]_vars

\* A near node that batch-add printed OK for keeps running with the addresses state.yaml
\* records for its tunnels, whatever is added, deployed or dies after it, once it is
\* listed and as long as no death left state.yaml empty.  A node printed OK whose batch
\* died before it wrote inventory.yaml is not listed, and its blocks go to others.
ReportedKeepsBlocks ==
  wiped = FALSE =>
    \A n \in reported \cap inv.near :
      \A f \in DOMAIN installed[n].links :
        /\ <<n, f>> \in DOMAIN st.ip
        /\ installed[n].links[f].ip = st.ip[<<n, f>>].near_ip

\* No configuration is installed with an empty key, its own or a peer's, even when
\* a rotation died before it generated new keys.
InstalledKeyed ==
  \A x \in Node : installed[x] # NoConfig =>
    /\ installed[x].own # NoKey
    /\ \A y \in DOMAIN installed[x].links : installed[x].links[y].key # NoKey

\* A tunnel connects: each end's configuration has the other's key and address.
Connects(n, f) ==
  /\ f \in DOMAIN installed[n].links /\ n \in DOMAIN installed[f].links
  /\ installed[n].links[f].ip  = installed[f].links[n].ip
  /\ installed[n].links[f].key = installed[f].own
  /\ installed[f].links[n].key = installed[n].own

\* Once every node runs what is rendered for it, so that deploy has succeeded on all
\* of them or has nothing to do, the tunnels the inventory asks for connect: what
\* was added and what was edited has come to the nodes.
DeployConnects ==
  batch = {} /\ Loads(inv) /\ (\A x \in Listed(inv) : installed[x] = rendered[x])
    => \A p \in DesiredPairs(inv) : Connects(p[1], p[2])
============================================================================
