------------------------- MODULE OverlayStateProofs -------------------------
(***************************************************************************)
(* Proofs about OverlayState, for any sets of nodes, any subnet and any    *)
(* number of overlapping runs: no saved state gives a block to two pairs,  *)
(* however often the files are rewritten.                                  *)
(***************************************************************************)
EXTENDS OverlayState, OverlayProofs

(***************************************************************************)
(* _allocate_wg_port.                                                      *)
(***************************************************************************)
LEMMA AllocatedPort ==
  ASSUME NEW inv \in Inventory
  PROVE  /\ AllocateWgPort(inv) \in Nat
         /\ \A f \in inv.far : inv.port[f] # AllocateWgPort(inv)
<1> DEFINE W == WgPortStart
           N == Cardinality(inv.far)
<1>1. W \in Nat
  BY StateAssumption
<1>2. IsFiniteSet(inv.far) /\ N \in Nat
  BY OverlayAssumption, FS_Subset, FS_CardinalityType DEF Inventory
<1>3. \E k \in W .. W + N :
         (\A f \in inv.far : inv.port[f] # k) /\ \A j \in W .. k - 1 : \E f \in inv.far : inv.port[f] = j
  <2>1. \A f \in inv.far : inv.port[f] \in Nat
    BY DEF Inventory
  <2> QED
    BY <1>1, <1>2, <2>1, LeastFree
<1>4. /\ AllocateWgPort(inv) \in W .. W + N
      /\ \A f \in inv.far : inv.port[f] # AllocateWgPort(inv)
  BY <1>3 DEF AllocateWgPort
<1> QED
  BY <1>1, <1>2, <1>4

(***************************************************************************)
(* The inductive invariant of OverlayState: every inventory in a file or   *)
(* in a run's memory has unique live ports, and every state is sound.      *)
(***************************************************************************)
Proper(inv) == inv \in Inventory /\ PortsUnique(inv)

FilesSound ==
  /\ Proper(inventory)
  /\ Sound(stateFile)
  /\ copy = [r \in Runs |-> copy[r]] /\ \A r \in Runs : Proper(copy[r])
  /\ seen = [r \in Runs |-> seen[r]] /\ \A r \in Runs : Sound(seen[r])

LEMMA EmptyProper == Proper(EmptyInventory)
  BY DEF Proper, EmptyInventory, Inventory, PortsUnique, NoPort

LEMMA WithNearProper ==
  ASSUME NEW inv, Proper(inv), NEW n \in Near
  PROVE  Proper(WithNear(inv, n))
  BY DEF Proper, WithNear, Inventory, PortsUnique

LEMMA WithFarProper ==
  ASSUME NEW inv, Proper(inv), NEW f \in Far, f \notin inv.far
  PROVE  Proper(WithFar(inv, f))
<1> DEFINE k == AllocateWgPort(inv)
           new == WithFar(inv, f)
<1>1. k \in Nat /\ \A g \in inv.far : inv.port[g] # k
  BY AllocatedPort DEF Proper
<1>2. /\ new.far = inv.far \cup {f}
      /\ \A g \in Far : new.port[g] = IF g = f THEN k ELSE inv.port[g]
  BY DEF Proper, WithFar, Inventory
<1>3. new \in Inventory
  BY <1>1 DEF Proper, WithFar, Inventory
<1>4. inv.far \in SUBSET Far
  BY DEF Proper, Inventory
<1> HIDE DEF k, new
<1>5. PortsUnique(new)
  BY <1>1, <1>2, <1>4 DEF Proper, PortsUnique
<1> QED
  BY <1>3, <1>5 DEF Proper, new

LEMMA WithoutProper ==
  ASSUME NEW inv, Proper(inv), NEW x
  PROVE  Proper(Without(inv, x))
  BY DEF Proper, Without, Inventory, PortsUnique, NoPort

LEMMA FilesSoundInit == Init => FilesSound
  BY EmptyProper, EmptySound DEF Init, FilesSound

LEMMA CommandSound ==
  ASSUME FilesSound, NEW r \in Runs, Command(r)
  PROVE  FilesSound'
<1> USE EmptyProper, EmptySound DEF FilesSound, Goto, End, files
<1>s. ASSUME NEW inv, Proper(inv), NEW first, NEW comp, Start(r, inv, first, comp)
      PROVE  FilesSound'
  BY <1>s DEF Start
<1>1. ASSUME NEW n \in Near, AddNear(r, n) PROVE FilesSound'
  BY <1>1, <1>s, WithNearProper DEF AddNear
<1>2. ASSUME NEW f \in Far, AddFar(r, f) PROVE FilesSound'
  BY <1>2, <1>s, WithFarProper DEF AddFar, Proper
<1>3. ASSUME NEW x \in Near \cup Far, RemoveNode(r, x) PROVE FilesSound'
  BY <1>3, <1>s, WithoutProper DEF RemoveNode
<1>4. CASE Resume(r)
  BY <1>4, <1>s DEF Resume
<1>5. CASE OpenInventory(r) \/ WriteInventory(r)
  BY <1>5 DEF OpenInventory, WriteInventory
<1>6. CASE LoadState(r)
  BY <1>6 DEF LoadState
<1>7. CASE OpenState(r)
  BY <1>7 DEF OpenState
<1>8. CASE WriteState(r)
  <2>1. Sound(NewState(copy[r], seen[r]))
    BY NewStateSound DEF Proper
  <2> QED
    BY <1>8, <2>1 DEF WriteState
<1>9. CASE Crash(r)
  BY <1>9 DEF Crash
<1> QED
  BY <1>1, <1>2, <1>3, <1>4, <1>5, <1>6, <1>7, <1>8, <1>9 DEF Command

LEMMA EditSound ==
  ASSUME FilesSound, Edit
  PROVE  FilesSound'
<1> USE DEF FilesSound, files, run
<1>1. ASSUME NEW n \in Near, NEW S \in EditPeerLists, EditPeers(n, S) PROVE FilesSound'
  <2>1. Proper(inventory')
    BY <1>1, StateAssumption DEF EditPeers, Proper, Inventory, PortsUnique
  <2> QED
    BY <1>1, <2>1 DEF EditPeers
<1>2. ASSUME NEW f \in Far, NEW k \in EditPorts, EditPort(f, k) PROVE FilesSound'
  <2>1. Proper(inventory')
    <3>1. /\ inventory'.far = inventory.far
          /\ \A g \in Far : inventory'.port[g] = IF g = f THEN k ELSE inventory.port[g]
      BY <1>2 DEF EditPort, Proper, Inventory
    <3>2. inventory' \in Inventory
      BY <1>2, StateAssumption DEF EditPort, Proper, Inventory
    <3>3. k = NoPort \/ \A g \in inventory.far : inventory.port[g] # k
      BY <1>2 DEF EditPort
    <3>4. inventory.far \subseteq Far
      BY DEF Proper, Inventory
    <3>5. PortsUnique(inventory')
      BY <3>1, <3>3, <3>4 DEF Proper, PortsUnique
    <3> QED
      BY <3>2, <3>5 DEF Proper
  <2> QED
    BY <1>2, <2>1 DEF EditPort
<1> QED
  BY <1>1, <1>2 DEF Edit

LEMMA FilesSoundAlways == Spec => []FilesSound
<1>1. FilesSound /\ [Next]_vars => FilesSound'
  <2> SUFFICES ASSUME FilesSound, [Next]_vars PROVE FilesSound'
    OBVIOUS
  <2>1. CASE UNCHANGED vars
    BY <2>1 DEF vars, files, FilesSound
  <2> QED
    BY <2>1, CommandSound, EditSound DEF Next
<1> QED
  BY <1>1, FilesSoundInit, PTL DEF Spec

\* No two tunnel ends recorded in state.yaml ever share an address, for any number
\* of overlapping runs, crashes and hand edits.
THEOREM NoSharedBlock == Spec => []BlocksDisjoint
<1>1. FilesSound => BlocksDisjoint
  <2> SUFFICES ASSUME Sound(stateFile),
                      NEW p \in DOMAIN stateFile.ip, NEW q \in DOMAIN stateFile.ip
               PROVE  /\ p # q => stateFile.ip[p].near_ip # stateFile.ip[q].near_ip
                      /\ p # q => stateFile.ip[p].far_ip # stateFile.ip[q].far_ip
                      /\ stateFile.ip[p].near_ip # stateFile.ip[q].far_ip
    BY DEF FilesSound, BlocksDisjoint
  <2> DEFINE o == Offset(stateFile, p)
             u == Offset(stateFile, q)
  <2>1. /\ o \in Nat /\ u \in Nat
        /\ stateFile.ip[p] = Block(o) /\ stateFile.ip[q] = Block(u)
        /\ o = u => p = q
    BY PairsFinite DEF Sound
  <2> HIDE DEF o, u
  <2>2. NearIp(o) = NearIp(u) => o = u
    BY <2>1, RoundTrip
  <2>3. FarIp(o) = FarIp(u) => o = u
    BY <2>1, FarIpInjective
  <2>4. NearIp(o) # FarIp(u)
    BY <2>1, NearNotFar
  <2> QED
    BY <2>1, <2>2, <2>3, <2>4 DEF Block
<1> QED
  BY <1>1, FilesSoundAlways, PTL

\* The overlay never uses a block beyond the number of possible pairs, however
\* many pairs came and went before.
THEOREM PoolNeverGrows == Spec => []PoolBounded
<1>1. FilesSound => PoolBounded
  BY DEF FilesSound, Sound, Offset, PoolBounded
<1> QED
  BY <1>1, FilesSoundAlways, PTL

TopoTyped ==
  /\ DOMAIN topo \subseteq Pairs
  /\ topo \in [DOMAIN topo -> [ip : [near_ip : Octets, far_ip : Octets], wg_port : Nat]]

StepsTyped ==
  /\ torn \in BOOLEAN
  /\ step \in [Runs -> Steps]
  /\ computes \in [Runs -> BOOLEAN]
  /\ crashes \in 0 .. MaxCrashes

\* Files, runs and the topology keep their types: compute_topology reads from the
\* state only entries that are there.
THEOREM OverlayTypes == Spec => []TypeOK
<1>1. Init => TypeOK
  <2>1. ASSUME Init PROVE TypeOK
    <3>1. EmptyInventory \in Inventory /\ Sound(EmptyState) /\ IsState(EmptyState)
      BY EmptyProper, EmptySound DEF Proper, Sound
    <3>2. TopoTyped
      BY <2>1, <3>1, TopologyType DEF Init, TopoTyped
    <3>3. StepsTyped
      <4>1. step \in [Runs -> Steps] /\ crashes \in 0 .. MaxCrashes
        BY <2>1, StateAssumption DEF Init, Steps
      <4>2. torn \in BOOLEAN /\ computes \in [Runs -> BOOLEAN]
        BY <2>1 DEF Init
      <4> QED
        BY <4>1, <4>2 DEF StepsTyped
    <3> QED
      BY <2>1, <3>1, <3>2, <3>3 DEF Init, TypeOK, TopoTyped, StepsTyped
  <2> QED
    BY <2>1
<1>2. FilesSound /\ FilesSound' /\ TypeOK /\ [Next]_vars => TypeOK'
  <2> SUFFICES ASSUME FilesSound, FilesSound', TypeOK, [Next]_vars PROVE TypeOK'
    OBVIOUS
  <2>1. /\ inventory' \in Inventory /\ IsState(stateFile')
        /\ copy' \in [Runs -> Inventory]
        /\ DOMAIN seen' = Runs /\ \A r \in Runs : IsState(seen'[r])
    BY DEF FilesSound, Proper, Sound
  <2>2. TopoTyped'
    <3>1. ASSUME NEW r \in Runs, WriteState(r) PROVE TopoTyped'
      <4>1. topo' = Topology(copy[r], seen[r])
        BY <3>1 DEF WriteState
      <4> QED
        BY <4>1, TopologyType DEF FilesSound, Proper, TopoTyped
    <3>2. CASE UNCHANGED topo
      BY <3>2 DEF TypeOK, TopoTyped
    <3>3. UNCHANGED topo \/ \E r \in Runs : WriteState(r)
      BY DEF Next, Command, Edit, AddNear, AddFar, RemoveNode, Resume, Start,
             OpenInventory, WriteInventory, LoadState, OpenState, Crash, EditPeers,
             EditPort, vars, files
    <3> QED
      BY <3>1, <3>2, <3>3
  <2>3. StepsTyped'
    <3> USE StateAssumption DEF TypeOK, StepsTyped, Steps, Goto, End, files
    <3>1. ASSUME NEW r \in Runs, Command(r) PROVE StepsTyped'
      <4>1. ASSUME NEW inv, NEW first \in Steps, NEW comp \in BOOLEAN, Start(r, inv, first, comp)
            PROVE  StepsTyped'
        BY <4>1 DEF Start
      <4>2. CASE (\E n \in Near : AddNear(r, n)) \/ (\E f \in Far : AddFar(r, f))
                 \/ (\E x \in Near \cup Far : RemoveNode(r, x)) \/ Resume(r)
        BY <4>1, <4>2 DEF AddNear, AddFar, RemoveNode, Resume
      <4>3. CASE OpenInventory(r) \/ WriteInventory(r)
        BY <4>3 DEF OpenInventory, WriteInventory
      <4>4. CASE LoadState(r) \/ OpenState(r)
        BY <4>4 DEF LoadState, OpenState
      <4>5. CASE WriteState(r)
        BY <4>5 DEF WriteState
      <4>6. CASE Crash(r)
        BY <4>6 DEF Crash
      <4> QED
        BY <3>1, <4>2, <4>3, <4>4, <4>5, <4>6 DEF Command
    <3>2. CASE Edit
      BY <3>2 DEF Edit, EditPeers, EditPort, run
    <3>3. CASE UNCHANGED vars
      BY <3>3 DEF vars, files
    <3> QED
      BY <3>1, <3>2, <3>3 DEF Next
  <2> QED
    BY <2>1, <2>2, <2>3 DEF TypeOK, TopoTyped, StepsTyped
<1> QED
  BY <1>1, <1>2, FilesSoundAlways, PTL DEF Spec

(***************************************************************************)
(* One command at a time, none of which dies: the state file is the last   *)
(* topology, and a run that loads it allocates on top of it.               *)
(***************************************************************************)
OneRun == \E r : Runs = {r}

SavedIp == [p \in DOMAIN topo |-> topo[p].ip]

Remembered ==
  \A r \in Runs :
    /\ step[r] # "writeState" => stateFile.ip = SavedIp
    /\ step[r] \in {"openState", "writeState"} => seen[r].ip = SavedIp

LEMMA RememberedNext ==
  ASSUME OneRun, MaxCrashes = 0, TypeOK, Remembered, [Next]_vars
  PROVE  /\ Remembered'
         /\ [\A p \in DOMAIN topo \cap DOMAIN topo' : topo'[p].ip = topo[p].ip]_topo
<1> DEFINE Stable == [\A p \in DOMAIN topo \cap DOMAIN topo' : topo'[p].ip = topo[p].ip]_topo
<1>1. PICK r : Runs = {r}
  BY DEF OneRun
<1> USE <1>1 DEF Remembered, SavedIp, TypeOK, Goto, End, files, run
<1>2. ASSUME UNCHANGED <<stateFile, topo>>, seen'[r] = seen[r],
             step'[r] # "openState", step[r] # "writeState", step'[r] # "writeState"
      PROVE  Remembered' /\ Stable
  BY <1>2
<1>3. ASSUME NEW inv, NEW first \in {"openInventory", "loadState"}, NEW comp,
             Start(r, inv, first, comp)
      PROVE  Remembered' /\ Stable
  BY <1>2, <1>3 DEF Start
<1>4. CASE (\E n \in Near : AddNear(r, n)) \/ (\E f \in Far : AddFar(r, f))
           \/ (\E x \in Near \cup Far : RemoveNode(r, x)) \/ Resume(r)
  BY <1>3, <1>4 DEF AddNear, AddFar, RemoveNode, Resume
<1>5. CASE OpenInventory(r) \/ WriteInventory(r)
  BY <1>5 DEF OpenInventory, WriteInventory
<1>6. CASE LoadState(r)
  BY <1>6 DEF LoadState
<1>7. CASE OpenState(r)
  BY <1>7 DEF OpenState
<1>8. CASE WriteState(r)
  <2> DEFINE inv == copy[r]
             st  == seen[r]
  <2>1. /\ topo' = Topology(inv, st)
        /\ stateFile' = NewState(inv, st)
        /\ step'[r] = "idle"
        /\ st.ip = SavedIp
    BY <1>8 DEF WriteState
  <2>2. DOMAIN topo' = DesiredPairs(inv) /\ stateFile'.ip = [p \in DesiredPairs(inv) |-> topo'[p].ip]
    <3>1. DOMAIN Topology(inv, st) = DesiredPairs(inv)
      BY DEF Topology
    <3>2. NewState(inv, st).ip = [p \in DesiredPairs(inv) |-> Topology(inv, st)[p].ip]
      BY <3>1 DEF NewState
    <3> QED
      BY <2>1, <3>1, <3>2
  <2>3. Remembered'
    BY <2>1, <2>2
  <2>4. \A p \in DOMAIN topo \cap DOMAIN topo' : topo'[p].ip = topo[p].ip
    <3> TAKE p \in DOMAIN topo \cap DOMAIN topo'
    <3>1. p \in DOMAIN st.ip /\ st.ip[p] = topo[p].ip
      BY <2>1
    <3> QED
      BY <2>1, <2>2, <3>1 DEF Topology
  <2> QED
    BY <2>3, <2>4
<1>9. ~Crash(r)
  BY DEF Crash
<1>10. CASE Edit
  BY <1>10 DEF Edit, EditPeers, EditPort
<1>11. CASE UNCHANGED vars
  BY <1>11 DEF vars, files
<1> QED
  BY <1>4, <1>5, <1>6, <1>7, <1>8, <1>9, <1>10, <1>11 DEF Next, Command

\* Adding, removing and editing nodes never moves a tunnel that stays, as long as
\* commands do not overlap and none dies between opening and writing the state.
THEOREM TunnelsStay ==
  ASSUME OneRun, MaxCrashes = 0
  PROVE  Spec => AddressesStable
<1>1. Init => Remembered
  <2>1. EmptyState.ip = [p \in {} |-> Block(0)]
    BY DEF EmptyState
  <2>2. DesiredPairs(EmptyInventory) = {}
    BY DEF DesiredPairs, EmptyInventory
  <2>3. Topology(EmptyInventory, EmptyState) = [p \in {} |-> Topology(EmptyInventory, EmptyState)[p]]
    BY <2>2 DEF Topology
  <2> QED
    BY <2>1, <2>3 DEF Init, Remembered, SavedIp
<1>2. TypeOK /\ Remembered /\ [Next]_vars => Remembered'
  BY RememberedNext
<1>3. TypeOK /\ Remembered /\ [Next]_vars =>
        [\A p \in DOMAIN topo \cap DOMAIN topo' : topo'[p].ip = topo[p].ip]_topo
  BY RememberedNext
<1> QED
  BY <1>1, <1>2, <1>3, OverlayTypes, PTL DEF Spec, AddressesStable
=============================================================================
