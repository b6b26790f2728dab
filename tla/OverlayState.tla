---------------------------- MODULE OverlayState ----------------------------
(***************************************************************************)
(* Commands of the vvnext CLI reading and rewriting inventory.yaml and     *)
(* state.yaml around compute_topology.  A command is a run: it loads the   *)
(* inventory when it starts, works on that copy, rewrites the whole file,  *)
(* loads the state, computes the topology and rewrites the state.          *)
(* Both files are written with Path.write_text: the file is truncated when *)
(* it is opened and filled afterwards, so a run that dies between the two  *)
(* leaves an empty file.  load_state reads that as an empty State; no      *)
(* command loads an empty inventory.                                       *)
(***************************************************************************)
EXTENDS Overlay

CONSTANTS
  Runs,          \* command invocations that may be in flight at once
  WgPortStart,   \* _WG_PORT_START
  EditPeerLists, \* wg_peers an operator writes into inventory.yaml by hand
  EditPorts,     \* wg_ports an operator writes into inventory.yaml by hand
  MaxCrashes     \* bound on the runs that die

ASSUME StateAssumption ==
  /\ WgPortStart \in Nat \ {NoPort}
  /\ EditPeerLists \subseteq {AllPeers} \cup SUBSET Far
  /\ EditPorts \subseteq Nat
  /\ MaxCrashes \in Nat

VARIABLES
  inventory,  \* contents of inventory.yaml
  torn,       \* inventory.yaml is an empty file
  stateFile,  \* contents of state.yaml
  topo,       \* the topology most recently returned with its state saved
  step,       \* what each run does next
  copy,       \* the inventory it works on
  seen,       \* the state it loaded
  computes,   \* whether it recomputes the overlay or ends with its inventory
  crashes     \* number of runs that died so far

files == <<inventory, torn, stateFile>>
run   == <<step, copy, seen, computes>>
vars  == <<files, topo, step, copy, seen, computes, crashes>>

Steps == {"idle", "openInventory", "writeInventory", "loadState", "openState", "writeState"}

EmptyInventory == [near  |-> {}, far |-> {},
                   peers |-> [n \in Near |-> AllPeers],
                   port  |-> [f \in Far |-> NoPort]]

Init ==
  /\ inventory = EmptyInventory /\ torn = FALSE
  /\ stateFile = EmptyState
  /\ topo = Topology(EmptyInventory, EmptyState)
  /\ step = [r \in Runs |-> "idle"]
  /\ copy = [r \in Runs |-> EmptyInventory]
  /\ seen = [r \in Runs |-> EmptyState]
  /\ computes = [r \in Runs |-> FALSE]
  /\ crashes = 0

----------------------------------------------------------------------------
\* The lowest wg_port from WgPortStart that no server of the inventory has.
AllocateWgPort(inv) ==
  CHOOSE k \in WgPortStart .. WgPortStart + Cardinality(inv.far) :
     /\ \A f \in inv.far : inv.port[f] # k
     /\ \A j \in WgPortStart .. k - 1 : \E f \in inv.far : inv.port[f] = j

WithNear(inv, n) ==
  [inv EXCEPT !.near = @ \cup {n}, !.peers[n] = inv.far]

WithFar(inv, f) ==
  [inv EXCEPT !.far = @ \cup {f}, !.port[f] = AllocateWgPort(inv)]

\* remove_node drops the server entry and touches nothing else.
Without(inv, x) ==
  [inv EXCEPT !.near = @ \ {x}, !.far = @ \ {x},
              !.peers = [n \in Near |-> IF n = x THEN AllPeers ELSE @[n]],
              !.port  = [f \in Far |-> IF f = x THEN NoPort ELSE @[f]]]

Goto(r, s) == step' = [step EXCEPT ![r] = s]

\* Run r ends and its memory is gone.
End(r) ==
  /\ Goto(r, "idle")
  /\ copy' = [copy EXCEPT ![r] = EmptyInventory]
  /\ seen' = [seen EXCEPT ![r] = EmptyState]
  /\ computes' = [computes EXCEPT ![r] = FALSE]

Start(r, inv, first, comp) ==
  /\ step[r] = "idle"
  /\ ~torn /\ Loads(inventory)
  /\ Goto(r, first)
  /\ copy' = [copy EXCEPT ![r] = inv]
  /\ computes' = [computes EXCEPT ![r] = comp]
  /\ UNCHANGED <<files, topo, seen, crashes>>

AddNear(r, n) ==
  /\ n \notin inventory.near
  /\ Start(r, WithNear(inventory, n), "openInventory", TRUE)

AddFar(r, f) ==
  /\ f \notin inventory.far
  /\ Start(r, WithFar(inventory, f), "openInventory", TRUE)

\* The code reads the file twice, to see that the node is there and to drop its entry.
\* The two reads are one here: no other run writes between them.
RemoveNode(r, x) ==
  /\ x \in inventory.near \cup inventory.far
  /\ Start(r, Without(inventory, x), "openInventory", FALSE)

\* add-node --resume past step 6: the inventory is already written.
Resume(r) == Start(r, inventory, "loadState", TRUE)

OpenInventory(r) ==
  /\ step[r] = "openInventory"
  /\ inventory' = EmptyInventory /\ torn' = TRUE
  /\ Goto(r, "writeInventory")
  /\ UNCHANGED <<stateFile, topo, copy, seen, computes, crashes>>

WriteInventory(r) ==
  /\ step[r] = "writeInventory"
  /\ inventory' = copy[r] /\ torn' = FALSE
  /\ IF computes[r]
     THEN Goto(r, "loadState") /\ UNCHANGED <<copy, seen, computes>>
     ELSE End(r)
  /\ UNCHANGED <<stateFile, topo, crashes>>

LoadState(r) ==
  /\ step[r] = "loadState"
  /\ seen' = [seen EXCEPT ![r] = stateFile]
  /\ Goto(r, "openState")
  /\ UNCHANGED <<files, topo, copy, computes, crashes>>

\* compute_topology is local to the run; save_state opens the file for writing.
OpenState(r) ==
  /\ step[r] = "openState"
  /\ stateFile' = EmptyState
  /\ Goto(r, "writeState")
  /\ UNCHANGED <<inventory, torn, topo, copy, seen, computes, crashes>>

WriteState(r) ==
  /\ step[r] = "writeState"
  /\ stateFile' = NewState(copy[r], seen[r])
  /\ topo' = Topology(copy[r], seen[r])
  /\ End(r)
  /\ UNCHANGED <<inventory, torn, crashes>>

Crash(r) ==
  /\ crashes < MaxCrashes
  /\ step[r] # "idle"
  /\ End(r)
  /\ crashes' = crashes + 1
  /\ UNCHANGED <<files, topo>>

\* An operator edits one entry of inventory.yaml, as the guides tell them to.
EditPeers(n, S) ==
  /\ n \in inventory.near
  /\ S \in {AllPeers} \cup SUBSET inventory.far
  /\ inventory' = [inventory EXCEPT !.peers[n] = S]
  /\ UNCHANGED <<torn, stateFile, topo, run, crashes>>

EditPort(f, k) ==
  /\ f \in inventory.far
  /\ k = NoPort \/ \A g \in inventory.far : inventory.port[g] # k
  /\ inventory' = [inventory EXCEPT !.port[f] = k]
  /\ UNCHANGED <<torn, stateFile, topo, run, crashes>>

Command(r) ==
  \/ \E n \in Near : AddNear(r, n)
  \/ \E f \in Far : AddFar(r, f)
  \/ \E x \in Near \cup Far : RemoveNode(r, x)
  \/ Resume(r)
  \/ OpenInventory(r)
  \/ WriteInventory(r)
  \/ LoadState(r)
  \/ OpenState(r)
  \/ WriteState(r)
  \/ Crash(r)

Edit ==
  \/ \E n \in Near, S \in EditPeerLists : EditPeers(n, S)
  \/ \E f \in Far, k \in EditPorts : EditPort(f, k)

Next == (\E r \in Runs : Command(r)) \/ Edit

Spec == Init /\ [][Next]_vars

----------------------------------------------------------------------------
\* The files and the runs hold values of the types the models declare; the
\* state keeps a wg_port exactly for the far nodes that still have a pair.
TypeOK ==
  /\ inventory \in Inventory /\ torn \in BOOLEAN
  /\ IsState(stateFile)
  /\ DOMAIN topo \subseteq Pairs
  /\ topo \in [DOMAIN topo -> [ip : [near_ip : Octets, far_ip : Octets], wg_port : Nat]]
  /\ step \in [Runs -> Steps]
  /\ copy \in [Runs -> Inventory]
  /\ DOMAIN seen = Runs /\ \A r \in Runs : IsState(seen[r])
  /\ computes \in [Runs -> BOOLEAN]
  /\ crashes \in 0 .. MaxCrashes

\* No two tunnel ends recorded in state.yaml share an address, whatever the
\* history of additions, removals and edits, also when runs overlap or die:
\* compute_topology never gives a block to two pairs.
BlocksDisjoint ==
  \A p, q \in DOMAIN stateFile.ip :
    /\ p # q => stateFile.ip[p].near_ip # stateFile.ip[q].near_ip
    /\ p # q => stateFile.ip[p].far_ip # stateFile.ip[q].far_ip
    /\ stateFile.ip[p].near_ip # stateFile.ip[q].far_ip

\* Blocks do not leak: however often pairs come and go, compute_topology stays
\* within as many blocks as there can be pairs, so the subnet never runs out.
PoolBounded ==
  \A p \in DOMAIN stateFile.ip :
    IpToOffset(stateFile.ip[p].near_ip) \in 0 .. Cardinality(Pairs) - 1

\* A pair that two consecutive topologies both contain has the same addresses
\* in both: adding or removing nodes does not move the tunnels that stay.
AddressesStable ==
  [][\A p \in DOMAIN topo \cap DOMAIN topo' : topo'[p].ip = topo[p].ip]_topo
============================================================================
