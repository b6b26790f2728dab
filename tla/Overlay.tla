------------------------------ MODULE Overlay ------------------------------
(***************************************************************************)
(* The WireGuard overlay allocator (overlay.py): which near/far pairs get  *)
(* a tunnel, which /30 block of the overlay subnet each pair gets, and     *)
(* what is remembered of it in state.yaml.                                 *)
(*                                                                         *)
(* A node name is a model value, except that the names of near nodes are   *)
(* naturals: the code sorts near nodes by name, so a name stands for its   *)
(* place in that order.  An address is its last two octets <<third,        *)
(* fourth>>; the first two are those of subnet_base and never change.      *)
(***************************************************************************)
EXTENDS Integers, FiniteSets

CONSTANTS
  Near,         \* names of near nodes, by lexicographic place
  Far,          \* names of far and residential nodes
  SubnetThird,  \* third octet of defaults.wg.subnet_base (its fourth is 0)
  AllPeers      \* wg_peers left unset: the near node peers with every far node

ASSUME OverlayAssumption ==
  /\ Near \subseteq Nat /\ IsFiniteSet(Near)
  /\ IsFiniteSet(Far)
  /\ SubnetThird \in Nat

(***************************************************************************)
(* The part of inventory.yaml the overlay reads: the live near and far     *)
(* nodes, each near node's wg_peers, each far node's wg_port (NoPort for a *)
(* remote-socks node, which has no WireGuard endpoint).                    *)
(***************************************************************************)
NoPort == 0

Inventory == [near  : SUBSET Near,
              far   : SUBSET Far,
              peers : [Near -> {AllPeers} \cup SUBSET Far],
              port  : [Far -> Nat]]

\* Inventory's validator: live wg_ports are unique, wg_peers name known nodes.
PortsUnique(inv) ==
  \A f, g \in inv.far : inv.port[f] # NoPort /\ inv.port[f] = inv.port[g] => f = g

PeersKnown(inv) ==
  \A n \in inv.near : inv.peers[n] # AllPeers => inv.peers[n] \subseteq inv.far

Loads(inv) == PortsUnique(inv) /\ PeersKnown(inv)

----------------------------------------------------------------------------
\* Addresses of block number o, and the block an address belongs to.
NearIp(o) == <<SubnetThird + (4 * o) \div 256, ((4 * o) % 256) + 2>>
FarIp(o)  == <<SubnetThird + (4 * o) \div 256, ((4 * o) % 256) + 1>>
IpToOffset(ip) == ((ip[1] - SubnetThird) * 256 + (ip[2] - 2)) \div 4

Block(o) == [near_ip |-> NearIp(o), far_ip |-> FarIp(o)]

(***************************************************************************)
(* state.yaml's wg_allocations: the wg_port recorded for each far node and *)
(* the block of each pair.  The code nests the pairs under the far node;   *)
(* both keep exactly the far nodes that have a pair.                       *)
(***************************************************************************)
EmptyState == [port |-> [f \in {} |-> NoPort], ip |-> [p \in {} |-> Block(0)]]

Pairs == Near \X Far

Octets == Nat \X Nat

IsState(st) ==
  /\ st = [port |-> st.port, ip |-> st.ip]
  /\ DOMAIN st.ip \subseteq Pairs
  /\ st.ip \in [DOMAIN st.ip -> [near_ip : Octets, far_ip : Octets]]
  /\ st.port \in [{p[2] : p \in DOMAIN st.ip} -> Nat]

----------------------------------------------------------------------------
DesiredPairs(inv) ==
  {p \in inv.near \X inv.far :
      /\ inv.port[p[2]] # NoPort
      /\ inv.peers[p[1]] = AllPeers \/ p[2] \in inv.peers[p[1]]}

ReusedPairs(inv, st) == DesiredPairs(inv) \cap DOMAIN st.ip
NewPairs(inv, st)    == DesiredPairs(inv) \ DOMAIN st.ip

\* Mutation: an offset that is reused is not marked as used.
UsedOffsetsForgotten(inv, st) == {}

UsedOffsets(inv, st) == {IpToOffset(st.ip[p].near_ip) : p \in ReusedPairs(inv, st)}

\* The order of the loop over desired pairs: near by name, then far by wg_port.
Before(inv, p, q) ==
  \/ p[1] < q[1]
  \/ p[1] = q[1] /\ inv.port[p[2]] < inv.port[q[2]]

\* How many new pairs the loop has served when it reaches p.
Turn(inv, st, p) == Cardinality({q \in NewPairs(inv, st) : Before(inv, q, p)})

\* Mutation: next_offset starts past every used offset instead of filling holes.
NthFreePastTheEnd(used, k) ==
  IF used = {} THEN k
  ELSE k + 1 + CHOOSE m \in used : \A o \in used : o <= m

\* The (k+1)-th number that is not in used: next_offset skips the used ones.
NthFree(used, k) ==
  CHOOSE o \in 0 .. Cardinality(used) + k :
     o \notin used /\ Cardinality((0 .. o) \ used) = k + 1

NewOffset(inv, st, p) == NthFree(UsedOffsets(inv, st), Turn(inv, st, p))

\* The topology handed to the config generator.  A reused pair takes the
\* wg_port from the state, a new one from the inventory.
Topology(inv, st) ==
  [p \in DesiredPairs(inv) |->
     IF p \in DOMAIN st.ip
     THEN [ip |-> st.ip[p], wg_port |-> st.port[p[2]]]
     ELSE [ip |-> Block(NewOffset(inv, st, p)), wg_port |-> inv.port[p[2]]]]

\* Mutation: the wg_port of a far node that lost its last pair is kept.
NewStateKeepsPorts(inv, st) ==
  LET topo == Topology(inv, st)
  IN  [port |-> [f \in DOMAIN st.port \cup {p[2] : p \in DOMAIN topo} |-> inv.port[f]],
       ip   |-> [p \in DOMAIN topo |-> topo[p].ip]]

\* Mutation: only the pairs allocated in this run are written back.
NewStateOnlyNew(inv, st) ==
  LET topo == Topology(inv, st)
  IN  [port |-> [f \in {p[2] : p \in NewPairs(inv, st)} |-> inv.port[f]],
       ip   |-> [p \in NewPairs(inv, st) |-> topo[p].ip]]

\* The state saved with it: pairs no longer desired are dropped.
NewState(inv, st) ==
  LET topo == Topology(inv, st)
  IN  [port |-> [f \in {p[2] : p \in DOMAIN topo} |-> inv.port[f]],
       ip   |-> [p \in DOMAIN topo |-> topo[p].ip]]
============================================================================
