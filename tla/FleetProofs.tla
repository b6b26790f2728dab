----------------------------- MODULE FleetProofs -----------------------------
(***************************************************************************)
(* Proofs about Fleet, for any fleet, any number of batches, edits,        *)
(* rotations and deaths: the types, what a batch promises of the nodes it  *)
(* adds, and that no configuration is installed without keys.              *)
(***************************************************************************)
EXTENDS Fleet, OverlayProofs

(***************************************************************************)
(* The inductive invariant.  The inventory, on disk and in the memory of a *)
(* batch, loads and has small ports.                                       *)
(***************************************************************************)
Ports == 1 .. Cardinality(Far)

Fleets == [near  : SUBSET Near, far  : SUBSET Far,
           peers : [Near -> SUBSET Far], port : [Far -> Nat]]

Proper(iv) == iv \in Fleets /\ PortsUnique(iv) /\ \A f \in iv.far : iv.port[f] \in Ports

\* A state compute_topology can work on, with ports of this fleet.
Usable(s) == Sound(s) /\ \A f \in DOMAIN s.port : s.port[f] \in Ports

\* A configuration of node x that was rendered with all its keys.
Fits(x, c) ==
  /\ c.own \in 0 .. MaxRotations + 1
  /\ DOMAIN c.links \subseteq IF x \in Near THEN Far ELSE Near
  /\ \A y \in DOMAIN c.links : c.links[y] \in Links(MaxRotations + 1)

HasKeys(c) ==
  c # NoConfig => c.own # NoKey /\ \A y \in DOMAIN c.links : c.links[y].key # NoKey

Counted ==
  /\ deaths \in 0 .. MaxDeaths /\ rotations \in 0 .. MaxRotations
  /\ batches \in 0 .. MaxBatches /\ edits \in 0 .. MaxEdits

Files ==
  /\ Proper(inv) /\ Usable(st)
  /\ key \in [Node -> 0 .. rotations + 1]

AreConfigs(cs) ==
  /\ cs = [x \in Node |-> cs[x]]
  /\ \A x \in Node : Fits(x, cs[x]) /\ HasKeys(cs[x])

Configs == AreConfigs(rendered) /\ AreConfigs(installed)

\* What was listed when a batch began is in its memory as it was.
Extends(c, iv) ==
  /\ iv.near \subseteq c.near /\ iv.far \subseteq c.far
  /\ \A n \in iv.near : c.peers[n] = iv.peers[n]
  /\ \A f \in iv.far : c.port[f] = iv.port[f]

\* Far nodes come first: once a near node was added, no far node is left to add.
FarFirst ==
  \A n \in copy.near \ inv.near : plan \cap Far = {} /\ copy.peers[n] = copy.far

Memory ==
  /\ Proper(copy)
  /\ batch # {} => Extends(copy, inv) /\ FarFirst
  /\ plan \subseteq batch /\ batch \subseteq Node
  /\ batch \cap Listed(inv) = {} /\ (batch # {} => Listed(copy) \subseteq Listed(inv) \cup batch)
  /\ plan \cap Listed(copy) = {}
  /\ reported \subseteq Node /\ reported \cap plan = {}

\* Node n runs what is rendered for it, with the addresses state.yaml records for
\* tunnels that inventory iv still asks for: compute_topology lets them be.
Keeps(n, iv) ==
  /\ installed[n] = rendered[n]
  /\ n \in Near => \A f \in DOMAIN installed[n].links :
       /\ <<n, f>> \in DesiredPairs(iv) /\ <<n, f>> \in DOMAIN st.ip
       /\ installed[n].links[f].ip = st.ip[<<n, f>>].near_ip

\* Of the nodes printed OK for, those of the batch under way are in its memory only.
Promises ==
  wiped = FALSE =>
    \A n \in reported : /\ n \in Listed(inv) => Keeps(n, inv)
                        /\ n \in batch => Keeps(n, copy)

FleetInv == wiped \in BOOLEAN /\ Counted /\ Files /\ Configs /\ Memory /\ Promises

(***************************************************************************)
(* Inventories, and what a batch does to the one in its memory.            *)
(***************************************************************************)
LEMMA FarFinite == IsFiniteSet(Far) /\ Cardinality(Far) \in Nat
  BY OverlayAssumption, FS_CardinalityType

LEMMA Loadable ==
  ASSUME NEW iv, Proper(iv)
  PROVE  iv \in Inventory /\ PortsUnique(iv)
  BY DEF Proper, Fleets, Inventory

LEMMA NoInventoryProper == Proper(NoInventory) /\ Listed(NoInventory) = {}
  BY DEF Proper, Fleets, NoInventory, NoPort, PortsUnique, Listed

\* allocate_wg_port finds a port no listed node has, within as many as there are
\* far nodes: a hole that a removed node left is filled.
LEMMA LeastPortIs ==
  ASSUME NEW iv, Proper(iv), NEW x \in Far, x \notin iv.far
  PROVE  LeastPort(iv) \in Ports /\ \A f \in iv.far : iv.port[f] # LeastPort(iv)
<1> DEFINE n == Cardinality(iv.far)
           N == Cardinality(Far)
<1>1. IsFiniteSet(iv.far) /\ n \in Nat /\ N \in Nat /\ n < N
  <2>1. iv.far \in SUBSET Far /\ iv.far # Far
    BY DEF Proper, Fleets
  <2>2. IsFiniteSet(iv.far) /\ n <= N /\ (n = N => iv.far = Far)
    BY <2>1, FarFinite, FS_Subset
  <2>3. n \in Nat
    BY <2>2, FS_CardinalityType
  <2> QED
    BY <2>1, <2>2, <2>3, FarFinite
<1>2. \E k \in 1 .. 1 + n :
        (\A f \in iv.far : iv.port[f] # k) /\ \A q \in 1 .. k - 1 : \E f \in iv.far : iv.port[f] = q
  <2>1. \A f \in iv.far : iv.port[f] \in Nat
    BY DEF Proper, Fleets
  <2> QED
    BY <1>1, <2>1, LeastFree
<1> DEFINE Least(k) == /\ \A f \in iv.far : iv.port[f] # k
                       /\ \A q \in 1 .. k - 1 : \E f \in iv.far : iv.port[f] = q
<1>3. \E k \in 1 .. N + 1 : Least(k)
  BY <1>1, <1>2
<1>4. PICK k \in 1 .. 1 + n : Least(k)
  BY <1>2
<1>5. LeastPort(iv) \in 1 .. N + 1 /\ Least(LeastPort(iv))
  BY <1>3 DEF LeastPort
<1>6. LeastPort(iv) \in Nat /\ LeastPort(iv) >= 1 /\ LeastPort(iv) <= k
  <2>1. LeastPort(iv) > k => \E f \in iv.far : iv.port[f] = k
    BY <1>1, <1>4, <1>5
  <2> QED
    BY <1>1, <1>4, <1>5, <2>1
<1> HIDE DEF n, N, Least
<1>7. LeastPort(iv) \in 1 .. N
  BY <1>1, <1>4, <1>6
<1> QED
  BY <1>5, <1>7 DEF Least, N, Ports

LEMMA PromotedIs ==
  ASSUME Proper(copy), NEW x \in Node, x \notin Listed(copy)
  PROVE  /\ Proper(Promoted(x)) /\ Extends(Promoted(x), copy)
         /\ Listed(Promoted(x)) = Listed(copy) \cup {x}
         /\ x \in Near => /\ Promoted(x).near = copy.near \cup {x}
                          /\ Promoted(x).far = copy.far
                          /\ Promoted(x).peers[x] = copy.far
         /\ x \in Far => Promoted(x).near = copy.near
<1> DEFINE c == Promoted(x)
<1>1. CASE x \in Near
  <2>1. /\ c.near = copy.near \cup {x} /\ c.far = copy.far /\ c.port = copy.port
        /\ c.peers = [copy.peers EXCEPT ![x] = copy.far]
        /\ c = [near |-> c.near, far |-> c.far, peers |-> c.peers, port |-> c.port]
    BY <1>1 DEF Promoted, Proper, Fleets
  <2>2. x \notin copy.near /\ x \notin Far
    BY <1>1, FleetAssumption DEF Listed
  <2> HIDE DEF c
  <2>3. Proper(c) /\ Extends(c, copy) /\ Listed(c) = Listed(copy) \cup {x} /\ c.peers[x] = copy.far
    BY <1>1, <2>1, <2>2 DEF Proper, Fleets, Extends, PortsUnique, Listed
  <2> QED
    BY <2>1, <2>2, <2>3 DEF c
<1>2. CASE x \in Far
  <2>1. x \notin Near /\ x \notin copy.far
    BY <1>2, FleetAssumption DEF Listed
  <2>2. /\ c.near = copy.near /\ c.far = copy.far \cup {x} /\ c.peers = copy.peers
        /\ c.port = [copy.port EXCEPT ![x] = LeastPort(copy)]
        /\ c = [near |-> c.near, far |-> c.far, peers |-> c.peers, port |-> c.port]
    BY <2>1 DEF Promoted, Proper, Fleets
  <2>3. LeastPort(copy) \in Ports /\ \A f \in copy.far : copy.port[f] # LeastPort(copy)
    BY <1>2, <2>1, LeastPortIs
  <2>4. LeastPort(copy) \in Nat
    BY <2>3, FarFinite DEF Ports
  <2> HIDE DEF c
  <2>5. c \in Fleets /\ Extends(c, copy) /\ Listed(c) = Listed(copy) \cup {x}
    BY <1>2, <2>1, <2>2, <2>4 DEF Proper, Fleets, Extends, Listed
  <2>6. \A f \in c.far : c.port[f] = IF f = x THEN LeastPort(copy) ELSE copy.port[f]
    BY <1>2, <2>2 DEF Proper, Fleets
  <2>7. PortsUnique(c) /\ \A f \in c.far : c.port[f] \in Ports
    BY <2>2, <2>3, <2>6 DEF Proper, PortsUnique
  <2> QED
    BY <2>1, <2>2, <2>5, <2>7 DEF Proper, c
<1> QED
  BY <1>1, <1>2 DEF Node

\* Nodes that are added take no tunnel away.
LEMMA DesiredGrows ==
  ASSUME NEW a, Proper(a), NEW b, Proper(b), Extends(b, a)
  PROVE  DesiredPairs(a) \subseteq DesiredPairs(b)
  BY DEF DesiredPairs, Extends

(***************************************************************************)
(* What compute_topology saves, and what is rendered from it.              *)
(***************************************************************************)
LEMMA EmptyUsable == Usable(EmptyState)
<1>1. EmptyState.port = [f \in {} |-> NoPort]
  BY DEF EmptyState
<1>2. DOMAIN EmptyState.port = {}
  BY <1>1
<1> QED
  BY <1>2, EmptySound DEF Usable

LEMMA SavedUsable ==
  ASSUME NEW iv, Proper(iv), NEW s, Usable(s)
  PROVE  Usable(NewState(iv, s))
<1>1. Sound(NewState(iv, s))
  BY Loadable, NewStateSound DEF Usable
<1>2. NewState(iv, s).port = [f \in {p[2] : p \in DesiredPairs(iv)} |-> iv.port[f]]
  BY NewStateIp
<1>3. \A p \in DesiredPairs(iv) : iv.port[p[2]] \in Ports
  BY DEF DesiredPairs, Proper
<1>4. \A f \in DOMAIN NewState(iv, s).port : NewState(iv, s).port[f] \in Ports
  BY <1>2, <1>3
<1> QED
  BY <1>1, <1>4 DEF Usable

\* A pair that is still desired keeps its block.
LEMMA SavedKeeps ==
  ASSUME NEW iv, NEW s, NEW p \in DesiredPairs(iv), p \in DOMAIN s.ip
  PROVE  p \in DOMAIN NewState(iv, s).ip /\ NewState(iv, s).ip[p] = s.ip[p]
  BY NewStateIp

LEMMA TopologyFits ==
  ASSUME NEW iv, Proper(iv), NEW s, Usable(s), NEW p \in DesiredPairs(iv)
  PROVE  /\ Topology(iv, s)[p].ip = NewState(iv, s).ip[p]
         /\ Topology(iv, s)[p].ip.near_ip \in Ips
         /\ Topology(iv, s)[p].wg_port \in Ports
<1> DEFINE t == Topology(iv, s)[p]
<1>1. t.ip = NewState(iv, s).ip[p]
  BY DEF NewState, Topology
<1>2. PICK o \in 0 .. Cardinality(Pairs) - 1 : NewState(iv, s).ip[p] = Block(o)
  BY Loadable, NewStateOffset DEF Usable
<1>3. t.ip.near_ip \in Ips
  BY <1>1, <1>2 DEF Block, Ips
<1>4. t.wg_port \in Ports
  <2>1. CASE p \in DOMAIN s.ip
    <3>1. t.wg_port = s.port[p[2]]
      BY <2>1 DEF Topology
    <3>2. p[2] \in DOMAIN s.port
      BY <2>1 DEF Usable, Sound, IsState
    <3> QED
      BY <3>1, <3>2 DEF Usable
  <2>2. CASE p \notin DOMAIN s.ip
    <3>1. t.wg_port = iv.port[p[2]]
      BY <2>2 DEF Topology
    <3> QED
      BY <3>1 DEF Proper, DesiredPairs
  <2> QED
    BY <2>1, <2>2
<1> QED
  BY <1>1, <1>3, <1>4

\* A node's peers are at the other end of its tunnels.
LEMMA PeersAre ==
  ASSUME NEW iv, Proper(iv), NEW s, NEW x \in Node, NEW y \in PeersOf(x, Topology(iv, s))
  PROVE  /\ y \in Listed(iv)
         /\ x \in Near => y \in Far /\ <<x, y>> \in DesiredPairs(iv)
         /\ x \notin Near => y \in Near /\ <<y, x>> \in DesiredPairs(iv)
<1>1. DOMAIN Topology(iv, s) = DesiredPairs(iv)
  BY DEF Topology
<1>2. \A p \in DesiredPairs(iv) : p[1] \in iv.near /\ p[2] \in iv.far
  BY DEF DesiredPairs
<1>3. iv.near \subseteq Near /\ iv.far \subseteq Far
  BY DEF Proper, Fleets
<1>4. \/ y \in Far /\ <<x, y>> \in DesiredPairs(iv) /\ x \in iv.near /\ y \in iv.far
      \/ y \in Near /\ <<y, x>> \in DesiredPairs(iv) /\ y \in iv.near /\ x \in iv.far
  BY <1>1, <1>2 DEF PeersOf
<1> QED
  BY <1>3, <1>4, FleetAssumption DEF Listed

LEMMA NoConfigFits ==
  ASSUME NEW x
  PROVE  Fits(x, NoConfig) /\ HasKeys(NoConfig)
<1>1. NoConfig.own = 0 /\ NoConfig.links = [y \in {} |-> NoKey]
  BY DEF NoConfig, NoKey
<1>2. DOMAIN NoConfig.links = {}
  BY <1>1
<1>3. 0 \in 0 .. MaxRotations + 1
  BY FleetAssumption
<1> QED
  BY <1>1, <1>2, <1>3 DEF Fits, HasKeys

\* Once every listed node has its keys, a rendered configuration has all of them.
LEMMA RenderedFits ==
  ASSUME NEW iv, Proper(iv), NEW s, Usable(s),
         NEW k, \A y \in Listed(iv) : k[y] \in 1 .. MaxRotations + 1,
         NEW x \in Listed(iv)
  PROVE  /\ Fits(x, Config(x, Topology(iv, s), k, iv))
         /\ HasKeys(Config(x, Topology(iv, s), k, iv))
<1> DEFINE t == Topology(iv, s)
           c == Config(x, t, k, iv)
           P == PeersOf(x, t)
<1>1. x \in Node
  BY DEF Listed, Proper, Fleets, Node
<1>2. \A y \in Listed(iv) : k[y] \in 0 .. MaxRotations + 1 /\ k[y] # NoKey
  BY FleetAssumption DEF NoKey
<1>3. c.own = k[x] /\ DOMAIN c.links = P
  BY DEF Config, NearConfig, FarConfig
<1>4. ASSUME NEW y \in P
      PROVE  /\ y \in Listed(iv) /\ y \in IF x \in Near THEN Far ELSE Near
             /\ c.links[y] \in Links(MaxRotations + 1)
             /\ c.links[y].key # NoKey
  <2>1. CASE x \in Near
    <3>1. y \in Listed(iv) /\ y \in Far /\ <<x, y>> \in DesiredPairs(iv)
      BY <1>1, <1>4, <2>1, PeersAre
    <3>2. c.links[y] = [ip |-> t[<<x, y>>].ip.near_ip, port |-> t[<<x, y>>].wg_port, key |-> k[y]]
      BY <2>1 DEF Config, NearConfig
    <3>3. t[<<x, y>>].ip.near_ip \in Ips /\ t[<<x, y>>].wg_port \in 1 .. Cardinality(Far)
      BY <3>1, TopologyFits DEF Ports
    <3> HIDE DEF t, c
    <3> QED
      BY <1>2, <2>1, <3>1, <3>2, <3>3 DEF Links
  <2>2. CASE x \notin Near
    <3>1. y \in Listed(iv) /\ y \in Near /\ <<y, x>> \in DesiredPairs(iv)
      BY <1>1, <1>4, <2>2, PeersAre
    <3>2. c.links[y] = [ip |-> t[<<y, x>>].ip.near_ip, port |-> iv.port[x], key |-> k[y]]
      BY <2>2 DEF Config, FarConfig
    <3>3. t[<<y, x>>].ip.near_ip \in Ips
      BY <3>1, TopologyFits
    <3>4. iv.port[x] \in 1 .. Cardinality(Far)
      BY <3>1 DEF DesiredPairs, Proper, Ports
    <3> HIDE DEF t, c
    <3> QED
      BY <1>2, <2>2, <3>1, <3>2, <3>3, <3>4 DEF Links
  <2> QED
    BY <2>1, <2>2
<1> HIDE DEF c, P
<1>5. Fits(x, c) /\ HasKeys(c)
  BY <1>2, <1>3, <1>4 DEF Fits, HasKeys
<1> QED
  BY <1>5 DEF c

\* A near node is rendered with the addresses that are saved for its tunnels.
LEMMA RenderedAddresses ==
  ASSUME NEW iv, Proper(iv), NEW s, Usable(s), NEW k, NEW x \in Near,
         NEW f \in DOMAIN Config(x, Topology(iv, s), k, iv).links
  PROVE  /\ <<x, f>> \in DesiredPairs(iv)
         /\ <<x, f>> \in DOMAIN NewState(iv, s).ip
         /\ Config(x, Topology(iv, s), k, iv).links[f].ip = NewState(iv, s).ip[<<x, f>>].near_ip
<1>1. f \in PeersOf(x, Topology(iv, s))
  BY DEF Config, NearConfig
<1>2. <<x, f>> \in DesiredPairs(iv)
  BY <1>1, PeersAre DEF Node
<1>3. Config(x, Topology(iv, s), k, iv).links[f].ip = Topology(iv, s)[<<x, f>>].ip.near_ip
  BY <1>1 DEF Config, NearConfig
<1>4. DOMAIN NewState(iv, s).ip = DesiredPairs(iv)
  BY NewStateIp
<1>5. Topology(iv, s)[<<x, f>>].ip = NewState(iv, s).ip[<<x, f>>]
  BY <1>2, TopologyFits
<1> QED
  BY <1>2, <1>3, <1>4, <1>5

(***************************************************************************)
(* Every step keeps the invariant: one lemma per command.                  *)
(***************************************************************************)
LEMMA FleetInit == Init => FleetInv
<1> SUFFICES ASSUME Init PROVE FleetInv
  OBVIOUS
<1>1. PICK N \in SUBSET InitNear, f \in Far : \E S \in [N -> SUBSET {f}] :
         inv = [near  |-> N, far |-> {f},
                peers |-> [n \in Near |-> IF n \in N THEN S[n] ELSE {}],
                port  |-> [g \in Far |-> IF g = f THEN 1 ELSE NoPort]]
  BY DEF Init
<1>2. Proper(inv)
  <2>1. Cardinality(Far) # 0
    BY <1>1, FarFinite, FS_EmptySet
  <2>2. 1 \in Ports /\ NoPort \in Nat
    BY <2>1, FarFinite DEF Ports, NoPort
  <2>3. inv.far = {f} /\ inv.port[f] = 1 /\ inv \in Fleets
    BY <1>1, <2>2, FleetAssumption DEF Fleets
  <2> QED
    BY <2>2, <2>3 DEF Proper, PortsUnique
<1>3. Usable(st)
  BY <1>2, EmptyUsable, SavedUsable DEF Init
<1>4. Counted
  BY FleetAssumption DEF Init, Counted
<1>5. \A x \in Listed(inv) : x \in Node /\ key[x] = 1
  BY <1>2 DEF Init, Listed, Proper, Fleets, Node
<1>6. key \in [Node -> 0 .. rotations + 1]
  <2>1. rotations = 0 /\ key = [x \in Node |-> IF x \in Listed(inv) THEN 1 ELSE 0]
    BY DEF Init, NoKey
  <2> QED
    BY <2>1
<1>7. AreConfigs(rendered)
  <2>1. rendered = [x \in Node |-> IF x \in Listed(inv)
                                   THEN Config(x, Topology(inv, EmptyState), key, inv)
                                   ELSE NoConfig]
    BY DEF Init, FleetOf
  <2>2. \A y \in Listed(inv) : key[y] \in 1 .. MaxRotations + 1
    BY <1>5, FleetAssumption
  <2>3. \A x \in Listed(inv) : /\ Fits(x, Config(x, Topology(inv, EmptyState), key, inv))
                               /\ HasKeys(Config(x, Topology(inv, EmptyState), key, inv))
    BY <1>2, <2>2, EmptyUsable, RenderedFits
  <2>4. \A x \in Node : Fits(x, rendered[x]) /\ HasKeys(rendered[x])
    BY <2>1, <2>3, NoConfigFits
  <2> QED
    BY <2>1, <2>4 DEF AreConfigs
<1>8. Configs
  BY <1>7 DEF Init, Configs
<1>9. Memory /\ Promises
  BY NoInventoryProper DEF Init, Memory, Promises
<1>10. wiped \in BOOLEAN
  BY DEF Init
<1> QED
  BY <1>2, <1>3, <1>4, <1>6, <1>8, <1>9, <1>10 DEF FleetInv, Files

LEMMA BatchStartKeeps ==
  ASSUME FleetInv, NEW P \in SUBSET Node, BatchStart(P)
  PROVE  FleetInv'
<1> USE DEF FleetInv, BatchStart, files
<1>1. Counted'
  BY FleetAssumption DEF Counted
<1>2. Files'
  BY DEF Files
<1>3. PICK fresh \in SUBSET {x \in P : installed[x] # NoConfig} :
         installed' = [x \in Node |-> IF x \in fresh THEN NoConfig ELSE installed[x]]
  OBVIOUS
<1>4. Configs'
  BY <1>3, NoConfigFits DEF Configs, AreConfigs
<1>5. Memory'
  BY DEF Files, Memory, Extends, FarFirst, Listed
<1>6. Promises'
  <2>1. \A n \in reported' : n \in reported /\ n \notin batch' /\ installed'[n] = installed[n]
    BY <1>3 DEF Memory
  <2>2. inv' = inv /\ st' = st /\ rendered' = rendered /\ wiped' = wiped
    OBVIOUS
  <2>3. wiped = FALSE => \A n \in reported : n \in Listed(inv) => Keeps(n, inv)
    BY DEF Promises
  <2>4. Listed(inv') = Listed(inv)
    BY <2>2
  <2> QED
    BY <2>1, <2>2, <2>3, <2>4 DEF Promises, Keeps, Listed, DesiredPairs
<1> QED
  BY <1>1, <1>2, <1>4, <1>5, <1>6

LEMMA BatchNodeKeeps ==
  ASSUME FleetInv, NEW x \in Node, BatchNode(x)
  PROVE  FleetInv'
<1> DEFINE c    == Promoted(x)
           topo == Topology(c, st)
<1> USE DEF FleetInv, bounds
<1>1. /\ batch # {} /\ x \in plan
      /\ x \in Near => plan \cap Far = {}
      /\ plan' = plan \ {x} /\ copy' = c
      /\ key' = Materials(key, c) /\ st' = NewState(c, st)
      /\ UNCHANGED <<inv, batch, wiped, bounds>>
  BY DEF BatchNode, AddPlanned
<1>2. \/ UNCHANGED <<rendered, installed, reported>>
      \/ /\ rendered' = [rendered EXCEPT ![x] = Config(x, topo, key', c)]
         /\ UNCHANGED <<installed, reported>>
      \/ /\ rendered' = [rendered EXCEPT ![x] = Config(x, topo, key', c)]
         /\ installed' = [installed EXCEPT ![x] = rendered'[x]]
         /\ reported' = reported \cup {x}
  BY DEF BatchNode, AddPlanned
<1>3. x \notin Listed(copy) /\ Proper(copy) /\ Usable(st) /\ Proper(inv) /\ Extends(copy, inv)
  BY <1>1 DEF Memory, Files
<1>4. /\ Proper(c) /\ Extends(c, copy) /\ Listed(c) = Listed(copy) \cup {x}
      /\ x \in Near => c.near = copy.near \cup {x} /\ c.far = copy.far /\ c.peers[x] = copy.far
      /\ x \in Far => c.near = copy.near
  BY <1>3, PromotedIs
<1> HIDE DEF c
<1>5. Counted'
  BY <1>1 DEF Counted
<1>6. Usable(st')
  BY <1>1, <1>3, <1>4, SavedUsable
<1>7. key' \in [Node -> 0 .. rotations + 1] /\ \A y \in Listed(c) : key'[y] \in 1 .. MaxRotations + 1
  <2>1. rotations \in Nat /\ MaxRotations \in Nat /\ rotations <= MaxRotations
    BY FleetAssumption DEF Counted
  <2>2. key' = [y \in Node |-> IF y \in Listed(c) /\ key[y] = 0 THEN rotations + 1 ELSE key[y]]
    BY <1>1 DEF Materials, NoKey
  <2>3. key \in [Node -> 0 .. rotations + 1]
    BY DEF Files
  <2>4. Listed(c) \subseteq Node
    BY <1>4 DEF Listed, Proper, Fleets, Node
  <2>5. \A y \in Node : key'[y] \in 0 .. rotations + 1 /\ (y \in Listed(c) => key'[y] # 0)
    BY <2>1, <2>2, <2>3
  <2>6. \A y \in Listed(c) : key'[y] \in 1 .. MaxRotations + 1
    BY <2>1, <2>4, <2>5
  <2> QED
    BY <2>2, <2>5, <2>6
<1>8. Files'
  BY <1>1, <1>3, <1>6, <1>7 DEF Files
<1>9. Fits(x, Config(x, topo, key', c)) /\ HasKeys(Config(x, topo, key', c))
  BY <1>3, <1>4, <1>7, RenderedFits
<1>10. Configs'
  <2>1. AreConfigs(rendered')
    BY <1>2, <1>9 DEF Configs, AreConfigs
  <2>2. AreConfigs(installed')
    BY <1>2, <2>1 DEF Configs, AreConfigs
  <2> QED
    BY <2>1, <2>2 DEF Configs
<1>11. Extends(c, inv)
  BY <1>3, <1>4 DEF Extends
<1>12. FarFirst'
  <2> SUFFICES ASSUME NEW n \in c.near \ inv.near
               PROVE  plan' \cap Far = {} /\ c.peers[n] = c.far
    BY <1>1 DEF FarFirst
  <2>1. FarFirst
    BY <1>1 DEF Memory
  <2>2. CASE n \in copy.near
    <3>1. plan \cap Far = {} /\ copy.peers[n] = copy.far
      BY <2>1, <2>2 DEF FarFirst
    <3>2. x \in Near
      BY <1>1, <3>1 DEF Node
    <3>3. c.peers[n] = copy.peers[n]
      BY <1>4, <2>2 DEF Extends
    <3> QED
      BY <1>1, <1>4, <3>1, <3>2, <3>3
  <2>3. CASE n \notin copy.near
    <3>1. x \in Near /\ n = x
      BY <1>4, <2>3 DEF Node
    <3> QED
      BY <1>1, <1>4, <3>1
  <2> QED
    BY <2>2, <2>3
<1>13. Memory'
  <2>1. reported' \subseteq Node /\ reported' \cap plan' = {}
    BY <1>1, <1>2 DEF Memory
  <2>2. plan' \subseteq batch' /\ batch' \subseteq Node /\ plan' \cap Listed(c) = {}
        /\ batch' # {} /\ batch' \cap Listed(inv) = {} /\ Listed(c) \subseteq Listed(inv) \cup batch'
    BY <1>1, <1>4 DEF Memory
  <2> QED
    BY <1>1, <1>4, <1>11, <1>12, <2>1, <2>2 DEF Memory
<1>14. \A p \in DesiredPairs(copy) : p \in DesiredPairs(c)
  BY <1>3, <1>4, DesiredGrows
<1>15. \A p \in DesiredPairs(c) : p \in DOMAIN st.ip => p \in DOMAIN st'.ip /\ st'.ip[p] = st.ip[p]
  BY <1>1, SavedKeeps
<1>16. \A p \in DesiredPairs(inv) : p \in DesiredPairs(copy)
  BY <1>3, DesiredGrows
<1>others. \A n \in Node \ {x} : installed'[n] = installed[n] /\ rendered'[n] = rendered[n]
  BY <1>2 DEF Configs, AreConfigs
<1>17. ASSUME wiped = FALSE, NEW n \in reported, n \in Listed(inv) PROVE Keeps(n, inv)'
  <2>1. n \in Node \ {x} /\ Keeps(n, inv)
    BY <1>1, <1>17 DEF Memory, Promises
  <2>2. installed'[n] = installed[n] /\ rendered'[n] = rendered[n]
    BY <1>others, <2>1
  <2> QED
    BY <1>1, <1>14, <1>15, <1>16, <2>1, <2>2 DEF Keeps
<1>18. ASSUME wiped = FALSE, NEW n \in reported, n \in batch PROVE Keeps(n, copy)'
  <2>1. n \in Node \ {x} /\ Keeps(n, copy)
    BY <1>1, <1>18 DEF Memory, Promises
  <2>2. installed'[n] = installed[n] /\ rendered'[n] = rendered[n]
    BY <1>others, <2>1
  <2> QED
    BY <1>1, <1>14, <1>15, <2>1, <2>2 DEF Keeps
<1>19. ASSUME x \in reported', x \notin reported PROVE Keeps(x, copy)'
  <2>1. installed'[x] = rendered'[x] /\ rendered'[x] = Config(x, topo, key', c)
    BY <1>2, <1>19 DEF Configs, AreConfigs
  <2>2. ASSUME x \in Near, NEW f \in DOMAIN installed'[x].links
        PROVE  /\ <<x, f>> \in DesiredPairs(c) /\ <<x, f>> \in DOMAIN st'.ip
               /\ installed'[x].links[f].ip = st'.ip[<<x, f>>].near_ip
    BY <1>1, <1>3, <1>4, <2>1, <2>2, RenderedAddresses
  <2> QED
    BY <1>1, <2>1, <2>2 DEF Keeps
<1>20. Promises'
  <2>1. \A n \in reported' : n \in reported \/ n = x
    BY <1>2
  <2>2. x \in batch /\ x \notin Listed(inv) /\ x \notin reported
    BY <1>1 DEF Memory
  <2>3. wiped' = wiped /\ inv' = inv /\ batch' = batch
    BY <1>1
  <2>4. ASSUME wiped = FALSE, NEW n \in reported', n \in Listed(inv) PROVE Keeps(n, inv)'
    BY <1>17, <2>1, <2>2, <2>4
  <2>5. ASSUME wiped = FALSE, NEW n \in reported', n \in batch PROVE Keeps(n, copy)'
    BY <1>18, <1>19, <2>1, <2>2, <2>5
  <2>6. Listed(inv)' = Listed(inv)
    BY <2>3 DEF Listed
  <2> QED
    BY <2>3, <2>4, <2>5, <2>6 DEF Promises
<1>21. wiped' \in BOOLEAN
  BY <1>1
<1> QED
  BY <1>5, <1>8, <1>10, <1>13, <1>20, <1>21

LEMMA BatchEndKeeps ==
  ASSUME FleetInv, BatchSave \/ BatchDies
  PROVE  FleetInv'
<1> USE DEF FleetInv, BatchSave, BatchDies, Forget, bounds, files
<1>1. Counted'
  BY FleetAssumption DEF Counted
<1>2. Files'
  BY DEF Files, Memory
<1>3. Configs'
  BY DEF Configs, AreConfigs
<1>4. Memory'
  BY NoInventoryProper DEF Memory
<1>5. Promises'
  <2>1. batch' = {}
    OBVIOUS
  <2>2. CASE BatchSave
    <3>1. DesiredPairs(inv) \subseteq DesiredPairs(copy)
      BY <2>2, DesiredGrows DEF Files, Memory
    <3>2. ASSUME wiped = FALSE, NEW n \in reported, n \in Listed(copy) PROVE Keeps(n, inv)'
      <4>1. n \in Listed(inv) \/ n \in batch
        BY <2>2, <3>2 DEF Memory
      <4>2. Keeps(n, inv) \/ Keeps(n, copy)
        BY <3>2, <4>1 DEF Promises
      <4> QED
        BY <2>2, <3>1, <4>2 DEF Keeps
    <3>3. wiped' = wiped /\ reported' = reported /\ Listed(inv)' = Listed(copy)
      BY <2>2 DEF Listed
    <3> QED
      BY <2>1, <3>2, <3>3 DEF Promises
  <2>3. CASE BatchDies
    BY <2>1, <2>3 DEF Promises, Keeps, Listed, DesiredPairs
  <2> QED
    BY <2>2, <2>3
<1>6. wiped' \in BOOLEAN
  OBVIOUS
<1> QED
  BY <1>1, <1>2, <1>3, <1>4, <1>5, <1>6

\* A batch that dies while it writes loses the promises with state.yaml, and breaks
\* none with the configuration of a node it had not reported.
LEMMA BatchDiesWritingKeeps ==
  ASSUME FleetInv, NEW x \in Node, BatchDiesWriting(x)
  PROVE  FleetInv'
<1> DEFINE c == Promoted(x)
<1> USE DEF FleetInv
<1>1. /\ x \in plan /\ batch # {} /\ key' = Materials(key, c)
      /\ deaths < MaxDeaths /\ deaths' = deaths + 1
      /\ plan' = {} /\ batch' = {} /\ copy' = NoInventory
      /\ UNCHANGED <<inv, installed, reported, rotations, batches, edits>>
  BY DEF BatchDiesWriting, Forget
<1>2. \/ st' = EmptyState /\ wiped' = TRUE /\ rendered' = rendered
      \/ /\ st' = NewState(c, st) /\ wiped' = wiped
         /\ rendered' = [rendered EXCEPT ![x] = NoConfig]
  BY DEF BatchDiesWriting
<1>3. Proper(c) /\ Extends(c, copy) /\ Proper(inv) /\ Extends(copy, inv) /\ Usable(st) /\ Proper(copy)
  BY <1>1, PromotedIs DEF Memory, Files
<1> HIDE DEF c
<1>4. Counted'
  BY <1>1, FleetAssumption DEF Counted
<1>5. Usable(st')
  BY <1>2, <1>3, EmptyUsable, SavedUsable
<1>6. key' \in [Node -> 0 .. rotations' + 1]
  <2>1. rotations \in Nat /\ key \in [Node -> 0 .. rotations + 1]
    BY DEF Counted, Files
  <2>2. key' = [y \in Node |-> IF y \in Listed(c) /\ key[y] = NoKey THEN rotations + 1 ELSE key[y]]
    BY <1>1 DEF Materials
  <2> QED
    BY <1>1, <2>1, <2>2
<1>7. Files'
  BY <1>1, <1>3, <1>5, <1>6 DEF Files
<1>8. Configs'
  BY <1>1, <1>2, NoConfigFits DEF Configs, AreConfigs
<1>9. Memory'
  BY <1>1, NoInventoryProper DEF Memory
<1>10. Promises'
  <2> SUFFICES ASSUME wiped' = FALSE, NEW n \in reported, n \in Listed(inv) PROVE Keeps(n, inv)'
    BY <1>1 DEF Promises, Listed
  <2>1. /\ st' = NewState(c, st) /\ wiped = FALSE
        /\ rendered' = [rendered EXCEPT ![x] = NoConfig]
    BY <1>2
  <2>2. Keeps(n, inv) /\ n # x
    BY <1>1, <2>1 DEF Promises, Memory
  <2>3. n \in Node /\ rendered'[n] = rendered[n] /\ installed'[n] = installed[n]
    BY <1>1, <2>1, <2>2 DEF Memory, Configs, AreConfigs
  <2>4. \A p \in DesiredPairs(inv) : p \in DesiredPairs(c)
    <3>1. Extends(c, inv)
      BY <1>3 DEF Extends
    <3> QED
      BY <1>3, <3>1, DesiredGrows
  <2>5. \A p \in DesiredPairs(c) : p \in DOMAIN st.ip => p \in DOMAIN st'.ip /\ st'.ip[p] = st.ip[p]
    BY <2>1, SavedKeeps
  <2>6. DesiredPairs(inv)' = DesiredPairs(inv)
    BY <1>1 DEF DesiredPairs
  <2> QED
    BY <2>2, <2>3, <2>4, <2>5, <2>6 DEF Keeps
<1>11. wiped' \in BOOLEAN
  BY <1>2
<1> QED
  BY <1>4, <1>7, <1>8, <1>9, <1>10, <1>11

LEMMA RemoveNodeKeeps ==
  ASSUME FleetInv, NEW x \in Node, RemoveNode(x)
  PROVE  FleetInv'
<1> USE DEF FleetInv, RemoveNode, Ready, Edit, memory
<1>1. /\ inv'.near = inv.near \ {x} /\ inv'.far = inv.far \ {x}
      /\ \A n \in Near : inv'.peers[n] = IF n = x THEN {} ELSE inv.peers[n]
      /\ \A f \in Far : inv'.port[f] = IF f = x THEN NoPort ELSE inv.port[f]
  OBVIOUS
<1>2. inv.near \subseteq Near /\ inv.far \subseteq Far
  BY DEF Files, Proper, Fleets
<1>3. Counted'
  BY FleetAssumption DEF Counted
<1>4. Proper(inv')
  <2>1. inv' \in Fleets
    BY DEF Files, Proper, Fleets, NoPort
  <2>2. \A f \in inv'.far : f \in inv.far /\ inv'.port[f] = inv.port[f]
    BY <1>1, <1>2
  <2> QED
    BY <2>1, <2>2 DEF Files, Proper, PortsUnique
<1>5. Files'
  BY <1>4 DEF Files
<1>6. Configs'
  BY DEF Configs, AreConfigs
<1>7. Memory'
  BY DEF Memory, Listed
<1>8. Promises'
  <2>1. batch' = {} /\ wiped' = wiped
    OBVIOUS
  <2>2. ASSUME wiped = FALSE, NEW n \in reported', n \in Listed(inv') PROVE Keeps(n, inv)'
    <3>1. n \in reported /\ n # x /\ x \notin DOMAIN installed[n].links /\ n \in Listed(inv)
      BY <1>1, <2>2 DEF Listed
    <3>2. Keeps(n, inv)
      BY <2>2, <3>1 DEF Promises
    <3>3. ASSUME NEW f \in Far, f # x, <<n, f>> \in DesiredPairs(inv) PROVE <<n, f>> \in DesiredPairs(inv')
      BY <1>1, <1>2, <3>1, <3>3 DEF DesiredPairs
    <3>4. \A f : <<n, f>> \in DesiredPairs(inv) => f \in Far
      BY <1>2 DEF DesiredPairs
    <3> QED
      BY <3>1, <3>2, <3>3, <3>4 DEF Keeps
  <2> QED
    BY <2>1, <2>2 DEF Promises, Listed
<1> QED
  BY <1>3, <1>5, <1>6, <1>7, <1>8

LEMMA EditPeersKeeps ==
  ASSUME FleetInv, NEW m \in Near, NEW S \in SUBSET Far, EditPeers(m, S)
  PROVE  FleetInv'
<1> USE DEF FleetInv, EditPeers, Edit, memory
<1>1. /\ inv'.near = inv.near /\ inv'.far = inv.far /\ inv'.port = inv.port
      /\ \A n \in Near : inv'.peers[n] = IF n = m THEN S ELSE inv.peers[n]
      /\ inv' \in Fleets
  BY DEF Files, Proper, Fleets
<1>2. Counted'
  BY FleetAssumption DEF Counted
<1>3. Files'
  BY <1>1 DEF Files, Proper, PortsUnique
<1>4. Configs'
  BY DEF Configs, AreConfigs
<1>5. Memory'
  BY DEF Memory
<1>6. Promises'
  <2>1. batch' = {} /\ wiped' = wiped /\ Listed(inv') = Listed(inv)
    BY <1>1 DEF Listed
  <2>2. ASSUME wiped = FALSE, NEW n \in reported', n \in Listed(inv) PROVE Keeps(n, inv)'
    <3>1. n \in reported /\ n # m /\ Keeps(n, inv)
      BY <2>2 DEF Promises
    <3>2. \A f : <<n, f>> \in DesiredPairs(inv) => <<n, f>> \in DesiredPairs(inv')
      <4>1. inv.near \subseteq Near
        BY DEF Files, Proper, Fleets
      <4> QED
        BY <1>1, <3>1, <4>1 DEF DesiredPairs
    <3> QED
      BY <3>1, <3>2 DEF Keeps
  <2> QED
    BY <2>1, <2>2 DEF Promises, Listed
<1> QED
  BY <1>2, <1>3, <1>4, <1>5, <1>6

LEMMA DeployKeeps ==
  ASSUME FleetInv, NEW T \in SUBSET Node, Deploy(T)
  PROVE  FleetInv'
<1> USE DEF FleetInv, Deploy, Ready, files, memory, bounds
<1>1. \A x \in Node : installed'[x] = IF x \in T THEN rendered[x] ELSE installed[x]
  OBVIOUS
<1>2. Counted'
  BY DEF Counted
<1>3. Files'
  BY DEF Files
<1>4. Configs'
  BY <1>1 DEF Configs, AreConfigs
<1>5. Memory'
  BY DEF Memory, Extends, FarFirst
<1>6. Promises'
  <2>1. batch' = {} /\ wiped' = wiped
    OBVIOUS
  <2>2. ASSUME wiped = FALSE, NEW n \in reported', n \in Listed(inv) PROVE Keeps(n, inv)'
    <3>1. n \in Node /\ Keeps(n, inv)
      BY <2>2 DEF Promises, Memory
    <3>2. installed'[n] = installed[n]
      BY <1>1, <3>1 DEF Keeps
    <3> QED
      BY <3>1, <3>2 DEF Keeps
  <2> QED
    BY <2>1, <2>2 DEF Promises, Listed
<1> QED
  BY <1>2, <1>3, <1>4, <1>5, <1>6

LEMMA RotateKeeps ==
  ASSUME FleetInv, NEW S, Rotate(S)
  PROVE  FleetInv'
<1> USE DEF FleetInv, Rotate, Ready, memory
<1>1. Counted'
  BY FleetAssumption DEF Counted
<1>2. rotations \in Nat /\ rotations' = rotations + 1 /\ key \in [Node -> 0 .. rotations + 1]
  BY DEF Counted, Files
<1>3. key' \in [Node -> 0 .. rotations' + 1]
  <2> DEFINE gone == [x \in Node |-> IF x \in S THEN NoKey ELSE key[x]]
  <2>1. gone \in [Node -> 0 .. rotations + 1]
    BY <1>2 DEF NoKey
  <2>2. \/ key' = [x \in Node |-> IF x \in Listed(inv) /\ gone[x] = NoKey THEN rotations + 2 ELSE gone[x]]
        \/ key' = gone
    OBVIOUS
  <2> HIDE DEF gone
  <2> QED
    BY <1>2, <2>1, <2>2
<1>4. Files'
  BY <1>3 DEF Files
<1>5. Configs'
  BY DEF Configs, AreConfigs
<1>6. Memory'
  BY DEF Memory, Extends, FarFirst
<1>7. Promises'
  BY DEF Promises, Keeps
<1> QED
  BY <1>1, <1>4, <1>5, <1>6, <1>7

LEMMA FleetNext == FleetInv /\ [Next]_vars => FleetInv'
<1> SUFFICES ASSUME FleetInv, [Next]_vars PROVE FleetInv'
  OBVIOUS
<1>1. CASE UNCHANGED vars
  <2>1. /\ UNCHANGED <<inv, st, key, rendered, installed, plan, batch, copy, reported, wiped>>
        /\ UNCHANGED <<deaths, rotations, batches, edits>>
    BY <1>1 DEF vars, files, memory, bounds
  <2>2. Counted'
    BY <2>1 DEF FleetInv, Counted
  <2>3. Files'
    BY <2>1 DEF FleetInv, Files
  <2>4. Configs'
    BY <2>1 DEF FleetInv, Configs, AreConfigs
  <2>5. Memory'
    BY <2>1 DEF FleetInv, Memory, Extends, FarFirst
  <2>6. Promises'
    BY <2>1 DEF FleetInv, Promises, Keeps
  <2>7. (wiped \in BOOLEAN)'
    BY <2>1 DEF FleetInv
  <2> QED
    BY <2>2, <2>3, <2>4, <2>5, <2>6, <2>7 DEF FleetInv
<1>2. ASSUME NEW P \in SUBSET Node, BatchStart(P) PROVE FleetInv'
  BY <1>2, BatchStartKeeps
<1>3. ASSUME NEW x \in Node, BatchNode(x) \/ RemoveNode(x) PROVE FleetInv'
  BY <1>3, BatchNodeKeeps, RemoveNodeKeeps
<1>4. CASE BatchSave \/ BatchDies
  BY <1>4, BatchEndKeeps
<1>9. ASSUME NEW x \in Node, BatchDiesWriting(x) PROVE FleetInv'
  BY <1>9, BatchDiesWritingKeeps
<1>5. ASSUME NEW n \in Near, NEW S \in SUBSET Far, EditPeers(n, S) PROVE FleetInv'
  BY <1>5, EditPeersKeeps
<1>6. ASSUME NEW x \in Node, Deploy({x}) PROVE FleetInv'
  BY <1>6, DeployKeeps
<1>7. ASSUME DeployAll PROVE FleetInv'
  <2>1. {x \in Listed(inv) : rendered[x] # NoConfig} \in SUBSET Node
    BY DEF FleetInv, Files, Proper, Fleets, Listed, Node
  <2> QED
    BY <1>7, <2>1, DeployKeeps DEF DeployAll
<1>8. ASSUME NEW S, Rotate(S) PROVE FleetInv'
  BY <1>8, RotateKeeps
<1> QED
  BY <1>1, <1>2, <1>3, <1>4, <1>5, <1>6, <1>7, <1>8, <1>9 DEF Next

LEMMA FleetAlways == Spec => []FleetInv
  BY FleetInit, FleetNext, PTL DEF Spec

(***************************************************************************)
(* The theorems.                                                           *)
(***************************************************************************)
\* Whatever fails or dies, inventory, state.yaml, keys and configurations keep
\* their types: ports stay within the number of far nodes and addresses in the pool.
THEOREM FleetTypes == Spec => []TypeOK
<1>1. FleetInv => TypeOK
  <2> SUFFICES ASSUME FleetInv PROVE TypeOK
    OBVIOUS
  <2>1. /\ inv.near \subseteq Near /\ inv.far \subseteq Far
        /\ \A n \in Near : inv.peers[n] \subseteq Far
    BY DEF FleetInv, Files, Proper, Fleets
  <2>2. DOMAIN st.ip \subseteq Pairs
    BY DEF FleetInv, Files, Usable, Sound, IsState
  <2>3. key \in [Node -> 0 .. MaxRotations + 1]
    <3>1. rotations \in 0 .. MaxRotations /\ key \in [Node -> 0 .. rotations + 1]
      BY DEF FleetInv, Counted, Files
    <3>2. \A x \in Node : key[x] \in 0 .. MaxRotations + 1
      BY <3>1, FleetAssumption
    <3> QED
      BY <3>1, <3>2
  <2>4. \A x \in Node : Fits(x, rendered[x]) /\ Fits(x, installed[x])
    BY DEF FleetInv, Configs, AreConfigs
  <2>5. plan \subseteq batch /\ reported \subseteq Node
    BY DEF FleetInv, Memory
  <2>6. Counted
    BY DEF FleetInv
  <2>7. wiped \in BOOLEAN
    BY DEF FleetInv
  <2> QED
    BY <2>1, <2>2, <2>3, <2>4, <2>5, <2>6, <2>7 DEF TypeOK, Fits, Counted
<1> QED
  BY <1>1, FleetAlways, PTL

\* Nothing is ever installed with an empty key: batch-add promotes a node before it
\* generates keys, and a rotation renders nothing.
THEOREM NothingInstalledKeyless == Spec => []InstalledKeyed
<1>1. FleetInv => InstalledKeyed
  BY DEF FleetInv, Configs, AreConfigs, HasKeys, InstalledKeyed
<1> QED
  BY <1>1, FleetAlways, PTL

\* A near node that batch-add printed OK for, once it is listed, runs with the addresses
\* state.yaml has for its tunnels, through later batches that fail in part or die and
\* every deploy, until a death leaves state.yaml empty.
THEOREM AddressesKept == Spec => []ReportedKeepsBlocks
<1>1. FleetInv => ReportedKeepsBlocks
  <2> SUFFICES ASSUME FleetInv, wiped = FALSE, NEW n \in reported \cap inv.near PROVE Keeps(n, inv) /\ n \in Near
    BY DEF ReportedKeepsBlocks, Keeps
  <2>1. n \in Listed(inv) /\ n \in Near
    BY DEF Listed, FleetInv, Files, Proper, Fleets
  <2> QED
    BY <2>1 DEF FleetInv, Promises
<1> QED
  BY <1>1, FleetAlways, PTL

\* Near nodes that a batch lists peer with every far node that is listed with them.
THEOREM BatchPeersWithAll == Spec => BatchReachesFar
<1> DEFINE Reaches == \A n \in Near : n \in inv'.near \ inv.near => inv'.peers[n] = inv'.far
<1>1. FleetInv /\ [Next]_vars => [Reaches]_vars
  <2> SUFFICES ASSUME FleetInv, Next PROVE Reaches
    OBVIOUS
  <2>1. CASE BatchSave
    BY <2>1 DEF BatchSave, FleetInv, Memory, FarFirst
  <2>2. CASE inv'.near \subseteq inv.near
    BY <2>2
  <2>3. BatchSave \/ inv'.near \subseteq inv.near
    <3>1. ASSUME NEW x \in Node, BatchNode(x) \/ BatchDiesWriting(x) \/ RemoveNode(x)
          PROVE  inv'.near \subseteq inv.near
      BY <3>1 DEF BatchNode, AddPlanned, BatchDiesWriting, RemoveNode
    <3>2. ASSUME NEW n \in Near, NEW S \in SUBSET Far, EditPeers(n, S)
          PROVE  inv'.near \subseteq inv.near
      BY <3>2 DEF EditPeers, FleetInv, Files, Proper, Fleets
    <3> QED
      BY <3>1, <3>2 DEF Next, BatchStart, BatchDies, Deploy, DeployAll, Rotate, files
  <2> QED
    BY <2>1, <2>2, <2>3
<1> QED
  BY <1>1, FleetAlways, PTL DEF Spec, BatchReachesFar
=============================================================================
