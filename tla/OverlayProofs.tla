---------------------------- MODULE OverlayProofs ----------------------------
(***************************************************************************)
(* Lemmas about the operators of Overlay, for any sets of nodes and any    *)
(* subnet: compute_topology never gives a block to two pairs and never     *)
(* needs more blocks than there are pairs.                                 *)
(***************************************************************************)
EXTENDS Overlay, FiniteSetTheorems, TLAPS

(***************************************************************************)
(* Addresses.                                                              *)
(***************************************************************************)
\* _ip_to_offset inverts _offset_to_ips.
LEMMA RoundTrip ==
  ASSUME NEW o \in Nat
  PROVE  IpToOffset(NearIp(o)) = o
  BY OverlayAssumption DEF IpToOffset, NearIp

\* A near address is 2 above a multiple of 4, a far address 1 above.
LEMMA NearNotFar ==
  ASSUME NEW o \in Nat, NEW q \in Nat
  PROVE  NearIp(o) # FarIp(q)
<1>1. ((4 * o) % 256) % 4 = 0 /\ ((4 * q) % 256) % 4 = 0
  OBVIOUS
<1>2. ((4 * o) % 256) + 2 # ((4 * q) % 256) + 1
  BY <1>1
<1> QED
  BY <1>2 DEF NearIp, FarIp

LEMMA FarIpInjective ==
  ASSUME NEW o \in Nat, NEW q \in Nat, FarIp(o) = FarIp(q)
  PROVE  o = q
  BY OverlayAssumption DEF FarIp

LEMMA BlockType ==
  ASSUME NEW o \in Nat
  PROVE  Block(o) \in [near_ip : Octets, far_ip : Octets]
<1>1. NearIp(o) \in Octets /\ FarIp(o) \in Octets
  BY OverlayAssumption DEF NearIp, FarIp, Octets
<1> QED
  BY <1>1 DEF Block

(***************************************************************************)
(* Free numbers.                                                           *)
(***************************************************************************)
LEMMA NatMin ==
  ASSUME NEW T \in SUBSET Nat, T # {}
  PROVE  \E m \in T : \A k \in T : m <= k
<1>1. \E m \in T : \A k \in T : ~(<<k, m>> \in OpToRel(<, Nat))
  BY NatLessThanWellFounded, WFMin
<1>2. \A m, k \in T : ~(<<k, m>> \in OpToRel(<, Nat)) => m <= k
  BY DEF OpToRel
<1> QED
  BY <1>1, <1>2

\* Among the first |used| + k + 1 numbers there is a (k+1)-th one that is free.
LEMMA FreeExists ==
  ASSUME NEW used \in SUBSET Nat, IsFiniteSet(used), NEW k \in Nat
  PROVE  \E o \in 0 .. Cardinality(used) + k :
            o \notin used /\ Cardinality((0 .. o) \ used) = k + 1
<1> DEFINE Free(o) == Cardinality((0 .. o) \ used)
           Enough  == {o \in Nat : Free(o) >= k + 1}
           top     == Cardinality(used) + k
<1>1. Cardinality(used) \in Nat /\ top \in Nat
  BY FS_CardinalityType
<1>2. ASSUME NEW o \in Nat
      PROVE  /\ IsFiniteSet((0 .. o) \ used) /\ Free(o) \in Nat
             /\ Cardinality((0 .. o) \cap used) \in Nat
             /\ Free(o) = o + 1 - Cardinality((0 .. o) \cap used)
  <2>1. IsFiniteSet(0 .. o) /\ Cardinality(0 .. o) = o + 1
    BY FS_Interval
  <2>2. IsFiniteSet((0 .. o) \ used)
        /\ Cardinality((0 .. o) \ used) = Cardinality(0 .. o) - Cardinality((0 .. o) \cap used)
    BY <2>1, FS_Difference
  <2>3. Cardinality((0 .. o) \cap used) \in Nat
    BY <2>1, FS_Subset, FS_CardinalityType, (0 .. o) \cap used \in SUBSET (0 .. o)
  <2>4. Cardinality((0 .. o) \ used) \in Nat
    BY <2>2, FS_CardinalityType
  <2> QED
    BY <2>1, <2>2, <2>3, <2>4
<1>3. Free(top) >= k + 1
  <2>1. Cardinality((0 .. top) \cap used) <= Cardinality(used)
    BY FS_Subset
  <2>2. /\ Cardinality((0 .. top) \cap used) \in Nat
        /\ Free(top) = top + 1 - Cardinality((0 .. top) \cap used)
    BY <1>1, <1>2
  <2> QED
    BY <1>1, <2>1, <2>2
<1>4. PICK m \in Nat : Free(m) >= k + 1 /\ \A j \in Nat : Free(j) >= k + 1 => m <= j
  <2>1. top \in Enough /\ Enough \in SUBSET Nat
    BY <1>1, <1>3
  <2>2. PICK m \in Enough : \A j \in Enough : m <= j
    BY <2>1, NatMin
  <2> QED
    BY <2>2
<1>5. m <= top
  BY <1>1, <1>3, <1>4
<1>6. CASE m = 0
  <2>1. (0 .. 0) \ used \in SUBSET {0}
    OBVIOUS
  <2>2. Cardinality({0}) = 1 /\ IsFiniteSet({0})
    BY FS_Singleton
  <2>3. Free(0) <= 1
    BY <2>1, <2>2, FS_Subset
  <2>4. Free(0) = 1 /\ k = 0
    <3>1. Free(0) \in Nat
      BY <1>2
    <3> HIDE DEF Free
    <3> QED
      BY <3>1, <1>4, <1>6, <2>3
  <2>5. 0 \notin used
    BY <2>1, <2>2, <2>4, FS_Subset
  <2> QED
    <3>1. m \in 0 .. top /\ m \notin used /\ Cardinality((0 .. m) \ used) = k + 1
      BY <1>1, <1>5, <1>6, <2>4, <2>5
    <3> QED
      BY <3>1
<1>7. CASE m # 0
  <2>1. m - 1 \in Nat
    BY <1>7
  <2>2. Free(m - 1) \in Nat /\ Free(m) \in Nat
    BY <1>2, <2>1
  <2>3. Free(m - 1) <= k
    <3> HIDE DEF Free
    <3> QED
      BY <1>4, <2>1, <2>2
  <2>4. (0 .. m) = (0 .. m - 1) \cup {m} /\ m \notin 0 .. m - 1
    BY <2>1
  <2>5. m \notin used
    <3> SUFFICES ASSUME m \in used PROVE FALSE
      OBVIOUS
    <3>1. (0 .. m) \ used = (0 .. m - 1) \ used
      BY <2>4
    <3>2. Free(m) = Free(m - 1)
      BY <3>1
    <3> HIDE DEF Free
    <3> QED
      BY <1>4, <2>2, <2>3, <3>2
  <2>6. Free(m) = Free(m - 1) + 1
    <3>1. (0 .. m) \ used = ((0 .. m - 1) \ used) \cup {m} /\ m \notin (0 .. m - 1) \ used
      BY <2>4, <2>5
    <3>2. IsFiniteSet((0 .. m - 1) \ used)
      BY <1>2, <2>1
    <3> QED
      BY <3>1, <3>2, FS_AddElement
  <2>7. Free(m) = k + 1
    <3> HIDE DEF Free
    <3> QED
      BY <1>4, <2>2, <2>3, <2>6
  <2> QED
    <3>1. m \in 0 .. top /\ Cardinality((0 .. m) \ used) = k + 1
      BY <1>1, <1>5, <2>7
    <3> QED
      BY <3>1, <2>5
<1> QED
  BY <1>6, <1>7

LEMMA NthFreeIs ==
  ASSUME NEW used \in SUBSET Nat, IsFiniteSet(used), NEW k \in Nat
  PROVE  /\ NthFree(used, k) \in 0 .. Cardinality(used) + k
         /\ NthFree(used, k) \notin used
         /\ Cardinality((0 .. NthFree(used, k)) \ used) = k + 1
  BY FreeExists DEF NthFree

\* Among |far| + 1 ports one is free, and there is a least one.
LEMMA LeastFree ==
  ASSUME NEW W \in Nat, NEW far, IsFiniteSet(far), NEW port, \A f \in far : port[f] \in Nat
  PROVE  \E k \in W .. W + Cardinality(far) :
            /\ \A f \in far : port[f] # k
            /\ \A j \in W .. k - 1 : \E f \in far : port[f] = j
<1> DEFINE ports  == {port[f] : f \in far}
           unused == {k \in Nat : k >= W /\ k \notin ports}
<1>1. Cardinality(far) \in Nat
  BY FS_CardinalityType
<1>2. IsFiniteSet(ports) /\ Cardinality(ports) <= Cardinality(far) /\ Cardinality(ports) \in Nat
  <2>1. [f \in far |-> port[f]] \in Surjection(far, ports)
    BY DEF Surjection
  <2> QED
    BY <2>1, FS_Surjection, FS_CardinalityType
<1>3. \E k \in W .. W + Cardinality(far) : k \notin ports
  <2> SUFFICES ASSUME W .. W + Cardinality(far) \in SUBSET ports
               PROVE  FALSE
    OBVIOUS
  <2>1. Cardinality(W .. W + Cardinality(far)) = Cardinality(far) + 1
    <3>1. ASSUME NEW N \in Nat PROVE Cardinality(W .. W + N) = N + 1
      <4>1. W \in Int /\ W + N \in Int /\ W <= W + N /\ (W + N) - W + 1 = N + 1
        OBVIOUS
      <4> DEFINE b == W + N
      <4> HIDE DEF b
      <4>2. Cardinality(W .. b) = IF W <= b THEN b - W + 1 ELSE 0
        <5>1. W \in Int /\ b \in Int
          BY <4>1 DEF b
        <5> QED
          BY <5>1, FS_Interval
      <4> QED
        BY <4>1, <4>2 DEF b
    <3> QED
      BY <1>1, <3>1
  <2>2. Cardinality(W .. W + Cardinality(far)) <= Cardinality(ports)
    BY <1>2, FS_Subset
  <2> QED
    BY <1>1, <1>2, <2>1, <2>2
<1>4. PICK m \in unused : \A k \in unused : m <= k
  <2>1. unused \in SUBSET Nat /\ unused # {}
    BY <1>1, <1>3
  <2> QED
    BY <2>1, NatMin
<1>5. m \in W .. W + Cardinality(far)
  BY <1>1, <1>3, <1>4
<1>6. \A f \in far : port[f] # m
  BY <1>4
<1>7. \A j \in W .. m - 1 : \E f \in far : port[f] = j
  BY <1>1, <1>4
<1> QED
  BY <1>5, <1>6, <1>7

(***************************************************************************)
(* The order in which new pairs are served.                                *)
(***************************************************************************)
LEMMA PairsFinite == IsFiniteSet(Pairs) /\ Cardinality(Pairs) \in Nat
  BY OverlayAssumption, FS_Product, FS_CardinalityType DEF Pairs

LEMMA DesiredFinite ==
  ASSUME NEW inv \in Inventory, NEW S \in SUBSET DesiredPairs(inv)
  PROVE  IsFiniteSet(S) /\ Cardinality(S) \in Nat /\ Cardinality(S) <= Cardinality(Pairs)
<1>1. S \in SUBSET Pairs
  BY DEF DesiredPairs, Pairs, Inventory
<1> QED
  BY <1>1, PairsFinite, FS_Subset, FS_CardinalityType

\* Live ports being unique, the order of the loop is strict and total.
LEMMA BeforeTotal ==
  ASSUME NEW inv \in Inventory, PortsUnique(inv),
         NEW p \in DesiredPairs(inv), NEW q \in DesiredPairs(inv), p # q
  PROVE  Before(inv, p, q) \/ Before(inv, q, p)
<1>1. /\ p \in Near \X Far /\ q \in Near \X Far
      /\ p[2] \in inv.far /\ q[2] \in inv.far
      /\ inv.port[p[2]] # NoPort
  BY DEF DesiredPairs, Inventory
<1>2. p[1] \in Nat /\ q[1] \in Nat /\ inv.port[p[2]] \in Nat /\ inv.port[q[2]] \in Nat
  BY <1>1, OverlayAssumption DEF Inventory
<1>3. p[1] # q[1] \/ p[2] # q[2]
  BY <1>1
<1>4. p[1] = q[1] => inv.port[p[2]] # inv.port[q[2]]
  BY <1>1, <1>3 DEF PortsUnique
<1> QED
  BY <1>2, <1>4 DEF Before

LEMMA BeforeStrict ==
  ASSUME NEW inv \in Inventory,
         NEW p \in DesiredPairs(inv), NEW q \in DesiredPairs(inv), Before(inv, p, q)
  PROVE  /\ ~Before(inv, q, q)
         /\ \A r \in DesiredPairs(inv) : Before(inv, r, p) => Before(inv, r, q)
<1>1. \A r \in DesiredPairs(inv) : r[1] \in Nat /\ inv.port[r[2]] \in Nat
  BY OverlayAssumption DEF DesiredPairs, Inventory
<1> QED
  BY <1>1 DEF Before

LEMMA TurnGrows ==
  ASSUME NEW inv \in Inventory, NEW st,
         NEW p \in NewPairs(inv, st), NEW q \in NewPairs(inv, st), Before(inv, p, q)
  PROVE  Turn(inv, st, p) < Turn(inv, st, q)
<1> DEFINE Below(r) == {x \in NewPairs(inv, st) : Before(inv, x, r)}
<1>1. NewPairs(inv, st) \in SUBSET DesiredPairs(inv)
  BY DEF NewPairs
<1>2. Below(p) \in SUBSET Below(q) /\ p \in Below(q) /\ p \notin Below(p)
  BY <1>1, BeforeStrict DEF Before
<1>3. IsFiniteSet(Below(q)) /\ Cardinality(Below(q)) \in Nat /\ Cardinality(Below(p)) \in Nat
  BY <1>1, <1>2, DesiredFinite
<1>4. Cardinality(Below(p)) < Cardinality(Below(q))
  <2> HIDE DEF Below
  <2>1. Cardinality(Below(p)) <= Cardinality(Below(q))
        /\ (Cardinality(Below(q)) = Cardinality(Below(p)) => Below(q) = Below(p))
    BY <1>2, <1>3, FS_Subset
  <2> QED
    BY <1>2, <1>3, <2>1
<1> QED
  BY <1>4 DEF Turn

LEMMA TurnBound ==
  ASSUME NEW inv \in Inventory, NEW st, NEW p \in NewPairs(inv, st)
  PROVE  Turn(inv, st, p) \in Nat /\ Turn(inv, st, p) < Cardinality(NewPairs(inv, st))
<1> DEFINE Below == {x \in NewPairs(inv, st) : Before(inv, x, p)}
<1>1. NewPairs(inv, st) \in SUBSET DesiredPairs(inv)
  BY DEF NewPairs
<1>2. Below \in SUBSET NewPairs(inv, st) /\ p \notin Below
  BY <1>1, BeforeStrict DEF Before
<1>3. IsFiniteSet(NewPairs(inv, st)) /\ Cardinality(NewPairs(inv, st)) \in Nat
      /\ Cardinality(Below) \in Nat
  BY <1>1, <1>2, DesiredFinite
<1>4. Cardinality(Below) < Cardinality(NewPairs(inv, st))
  <2> HIDE DEF Below
  <2> QED
    BY <1>2, <1>3, FS_Subset
<1> QED
  BY <1>3, <1>4 DEF Turn

(***************************************************************************)
(* compute_topology on a sound state.                                      *)
(***************************************************************************)
Offset(st, p) == IpToOffset(st.ip[p].near_ip)

\* Every pair has a block of the pool, and no two pairs the same one.
Sound(st) ==
  /\ IsState(st)
  /\ \A p \in DOMAIN st.ip :
       /\ Offset(st, p) \in 0 .. Cardinality(Pairs) - 1
       /\ st.ip[p] = Block(Offset(st, p))
  /\ \A p, q \in DOMAIN st.ip : Offset(st, p) = Offset(st, q) => p = q

LEMMA EmptySound == Sound(EmptyState)
<1>1. EmptyState.ip = [p \in {} |-> Block(0)] /\ EmptyState.port = [f \in {} |-> NoPort]
  BY DEF EmptyState
<1>2. DOMAIN EmptyState.ip = {} /\ {p[2] : p \in DOMAIN EmptyState.ip} = {}
  BY <1>1
<1>3. IsState(EmptyState)
  BY <1>1, <1>2 DEF IsState, EmptyState
<1> QED
  BY <1>2, <1>3 DEF Sound

LEMMA UsedFinite ==
  ASSUME NEW inv \in Inventory, NEW st, Sound(st)
  PROVE  /\ UsedOffsets(inv, st) \in SUBSET Nat
         /\ IsFiniteSet(UsedOffsets(inv, st))
         /\ Cardinality(UsedOffsets(inv, st)) \in Nat
         /\ Cardinality(UsedOffsets(inv, st)) <= Cardinality(ReusedPairs(inv, st))
<1> DEFINE R == ReusedPairs(inv, st)
           U == UsedOffsets(inv, st)
           g == [p \in R |-> Offset(st, p)]
<1>1. R \in SUBSET DesiredPairs(inv) /\ R \subseteq DOMAIN st.ip
  BY DEF ReusedPairs
<1>2. IsFiniteSet(R)
  BY <1>1, DesiredFinite
<1>3. U = {Offset(st, p) : p \in R}
  BY DEF UsedOffsets, Offset
<1>4. g \in Surjection(R, U)
  BY <1>3 DEF Surjection
<1>5. IsFiniteSet(U) /\ Cardinality(U) <= Cardinality(R)
  BY <1>2, <1>4, FS_Surjection
<1>6. U \in SUBSET Nat
  BY <1>1, <1>3, PairsFinite DEF Sound
<1> QED
  BY <1>5, <1>6, FS_CardinalityType

\* A new pair gets a block that no other desired pair has, inside the pool.
LEMMA NewOffsetIs ==
  ASSUME NEW inv \in Inventory, NEW st, Sound(st), NEW p \in NewPairs(inv, st)
  PROVE  /\ NewOffset(inv, st, p) \in 0 .. Cardinality(Pairs) - 1
         /\ NewOffset(inv, st, p) \notin UsedOffsets(inv, st)
         /\ Cardinality((0 .. NewOffset(inv, st, p)) \ UsedOffsets(inv, st)) = Turn(inv, st, p) + 1
<1> DEFINE N == NewPairs(inv, st)
           R == ReusedPairs(inv, st)
           D == DesiredPairs(inv)
           U == UsedOffsets(inv, st)
<1>1. Turn(inv, st, p) \in Nat /\ Turn(inv, st, p) < Cardinality(N)
  BY TurnBound
<1>2. U \in SUBSET Nat /\ IsFiniteSet(U) /\ Cardinality(U) \in Nat /\ Cardinality(U) <= Cardinality(R)
  BY UsedFinite
<1>3. Cardinality(N) \in Nat /\ Cardinality(R) \in Nat /\ Cardinality(D) \in Nat
      /\ Cardinality(D) <= Cardinality(Pairs) /\ IsFiniteSet(D)
  BY DesiredFinite DEF NewPairs, ReusedPairs
<1>4. Cardinality(N) + Cardinality(R) = Cardinality(D)
  <2>1. N = D \ DOMAIN st.ip /\ R = D \cap DOMAIN st.ip
    BY DEF NewPairs, ReusedPairs
  <2>2. Cardinality(N) = Cardinality(D) - Cardinality(R)
    <3> HIDE DEF N, R, D
    <3> QED
      BY <1>3, <2>1, FS_Difference
  <2> QED
    BY <1>3, <2>2
<1>5. /\ NthFree(U, Turn(inv, st, p)) \in 0 .. Cardinality(U) + Turn(inv, st, p)
      /\ NthFree(U, Turn(inv, st, p)) \notin U
      /\ Cardinality((0 .. NthFree(U, Turn(inv, st, p))) \ U) = Turn(inv, st, p) + 1
  BY <1>1, <1>2, NthFreeIs
<1>6. Cardinality(U) + Turn(inv, st, p) <= Cardinality(Pairs) - 1
  <2> HIDE DEF N, R, D, U
  <2> QED
    BY <1>1, <1>2, <1>3, <1>4, PairsFinite
<1> QED
  BY <1>1, <1>2, <1>5, <1>6, PairsFinite DEF NewOffset

LEMMA NewOffsetInjective ==
  ASSUME NEW inv \in Inventory, PortsUnique(inv), NEW st, Sound(st),
         NEW p \in NewPairs(inv, st), NEW q \in NewPairs(inv, st),
         NewOffset(inv, st, p) = NewOffset(inv, st, q)
  PROVE  p = q
<1>1. Turn(inv, st, p) = Turn(inv, st, q)
  <2>1. Turn(inv, st, p) \in Nat /\ Turn(inv, st, q) \in Nat
    BY TurnBound
  <2>2. Turn(inv, st, p) + 1 = Turn(inv, st, q) + 1
    BY NewOffsetIs
  <2> QED
    BY <2>1, <2>2
<1>2. p \in DesiredPairs(inv) /\ q \in DesiredPairs(inv)
  BY DEF NewPairs
<1>3. Turn(inv, st, p) \in Nat
  BY TurnBound
<1> QED
  BY <1>1, <1>2, <1>3, BeforeTotal, TurnGrows

\* The block of each desired pair in the state that is saved.
LEMMA NewStateIp ==
  ASSUME NEW inv, NEW st
  PROVE  /\ DOMAIN NewState(inv, st).ip = DesiredPairs(inv)
         /\ \A p \in DesiredPairs(inv) :
              NewState(inv, st).ip[p] = IF p \in DOMAIN st.ip THEN st.ip[p]
                                        ELSE Block(NewOffset(inv, st, p))
         /\ NewState(inv, st).ip = [p \in DesiredPairs(inv) |-> Topology(inv, st)[p].ip]
         /\ NewState(inv, st).port = [f \in {p[2] : p \in DesiredPairs(inv)} |-> inv.port[f]]
         /\ NewState(inv, st) = [port |-> NewState(inv, st).port, ip |-> NewState(inv, st).ip]
  BY DEF NewState, Topology

LEMMA NewStateOffset ==
  ASSUME NEW inv \in Inventory, NEW st, Sound(st), NEW p \in DesiredPairs(inv)
  PROVE  /\ Offset(NewState(inv, st), p) = IF p \in DOMAIN st.ip THEN Offset(st, p)
                                           ELSE NewOffset(inv, st, p)
         /\ Offset(NewState(inv, st), p) \in 0 .. Cardinality(Pairs) - 1
         /\ NewState(inv, st).ip[p] = Block(Offset(NewState(inv, st), p))
<1>1. CASE p \in DOMAIN st.ip
  <2>1. NewState(inv, st).ip[p] = st.ip[p]
    BY <1>1, NewStateIp
  <2> QED
    BY <1>1, <2>1 DEF Offset, Sound
<1>2. CASE p \notin DOMAIN st.ip
  <2>1. NewState(inv, st).ip[p] = Block(NewOffset(inv, st, p))
    BY <1>2 DEF NewState, Topology
  <2>2. p \in NewPairs(inv, st)
    BY <1>2 DEF NewPairs
  <2>3. NewOffset(inv, st, p) \in 0 .. Cardinality(Pairs) - 1
    BY <2>2, NewOffsetIs
  <2>4. NewOffset(inv, st, p) \in Nat
    BY <2>3, PairsFinite
  <2>5. IpToOffset(Block(NewOffset(inv, st, p)).near_ip) = NewOffset(inv, st, p)
    BY <2>4, RoundTrip DEF Block
  <2> QED
    BY <1>2, <2>1, <2>3, <2>5 DEF Offset
<1> QED
  BY <1>1, <1>2

LEMMA NewStateType ==
  ASSUME NEW inv \in Inventory, NEW st, Sound(st)
  PROVE  IsState(NewState(inv, st))
<1> DEFINE ns == NewState(inv, st)
<1>1. /\ DOMAIN ns.ip = DesiredPairs(inv)
      /\ ns.ip = [p \in DesiredPairs(inv) |-> Topology(inv, st)[p].ip]
      /\ ns.port = [f \in {p[2] : p \in DesiredPairs(inv)} |-> inv.port[f]]
      /\ ns = [port |-> ns.port, ip |-> ns.ip]
  BY NewStateIp
<1>2. DesiredPairs(inv) \subseteq Pairs
  BY DEF DesiredPairs, Pairs, Inventory
<1>3. \A p \in DesiredPairs(inv) : ns.ip[p] \in [near_ip : Octets, far_ip : Octets]
  <2> TAKE p \in DesiredPairs(inv)
  <2>1. Offset(ns, p) \in Nat /\ ns.ip[p] = Block(Offset(ns, p))
    BY NewStateOffset, PairsFinite
  <2> QED
    BY <2>1, BlockType
<1>4. ns.port \in [{p[2] : p \in DOMAIN ns.ip} -> Nat]
  BY <1>1, <1>2 DEF Pairs, Inventory
<1>5. ns.ip \in [DOMAIN ns.ip -> [near_ip : Octets, far_ip : Octets]]
  <2> HIDE DEF ns
  <2> QED
    BY <1>1, <1>3
<1> HIDE DEF ns
<1>6. IsState(ns)
  BY <1>1, <1>2, <1>4, <1>5 DEF IsState
<1> QED
  BY <1>6 DEF ns

LEMMA NewStateSound ==
  ASSUME NEW inv \in Inventory, PortsUnique(inv), NEW st, Sound(st)
  PROVE  Sound(NewState(inv, st))
<1> DEFINE ns == NewState(inv, st)
<1>1. DOMAIN ns.ip = DesiredPairs(inv)
  BY NewStateIp
<1>2. ASSUME NEW p \in DesiredPairs(inv), NEW q \in DesiredPairs(inv),
             Offset(ns, p) = Offset(ns, q)
      PROVE  p = q
  <2>1. ASSUME NEW x \in DesiredPairs(inv), x \in DOMAIN st.ip
        PROVE  Offset(ns, x) \in UsedOffsets(inv, st) /\ Offset(ns, x) = Offset(st, x)
    BY <2>1, NewStateOffset DEF UsedOffsets, ReusedPairs, Offset
  <2>2. ASSUME NEW x \in DesiredPairs(inv), x \notin DOMAIN st.ip
        PROVE  /\ x \in NewPairs(inv, st)
               /\ Offset(ns, x) = NewOffset(inv, st, x)
               /\ Offset(ns, x) \notin UsedOffsets(inv, st)
    BY <2>2, NewStateOffset, NewOffsetIs DEF NewPairs
  <2> HIDE DEF ns
  <2>3. CASE p \in DOMAIN st.ip /\ q \in DOMAIN st.ip
    BY <1>2, <2>1, <2>3 DEF Sound
  <2>4. CASE p \notin DOMAIN st.ip /\ q \notin DOMAIN st.ip
    BY <1>2, <2>2, <2>4, NewOffsetInjective
  <2> QED
    BY <1>2, <2>1, <2>2, <2>3, <2>4
<1>3. IsState(ns)
  BY NewStateType
<1>4. \A p \in DesiredPairs(inv) : /\ Offset(ns, p) \in 0 .. Cardinality(Pairs) - 1
                                   /\ ns.ip[p] = Block(Offset(ns, p))
  BY NewStateOffset
<1> HIDE DEF ns
<1>5. Sound(ns)
  BY <1>1, <1>2, <1>3, <1>4 DEF Sound
<1> QED
  BY <1>5 DEF ns

LEMMA TopologyType ==
  ASSUME NEW inv \in Inventory, NEW st, Sound(st)
  PROVE  /\ DOMAIN Topology(inv, st) \subseteq Pairs
         /\ Topology(inv, st) \in [DOMAIN Topology(inv, st) ->
              [ip : [near_ip : Octets, far_ip : Octets], wg_port : Nat]]
<1> DEFINE t == Topology(inv, st)
<1>1. DOMAIN t = DesiredPairs(inv) /\ DesiredPairs(inv) \subseteq Pairs
  BY DEF Topology, DesiredPairs, Pairs, Inventory
<1>2. ASSUME NEW p \in DesiredPairs(inv)
      PROVE  t[p] \in [ip : [near_ip : Octets, far_ip : Octets], wg_port : Nat]
  <2>1. CASE p \in DOMAIN st.ip
    <3>1. t[p] = [ip |-> st.ip[p], wg_port |-> st.port[p[2]]]
      BY <2>1 DEF Topology
    <3>2. st.ip[p] \in [near_ip : Octets, far_ip : Octets] /\ st.port[p[2]] \in Nat
      BY <2>1 DEF Sound, IsState
    <3> QED
      BY <3>1, <3>2
  <2>2. CASE p \notin DOMAIN st.ip
    <3>1. t[p] = [ip |-> Block(NewOffset(inv, st, p)), wg_port |-> inv.port[p[2]]]
      BY <2>2 DEF Topology
    <3>2. p \in NewPairs(inv, st)
      BY <2>2 DEF NewPairs
    <3>3. NewOffset(inv, st, p) \in Nat
      <4>1. NewOffset(inv, st, p) \in 0 .. Cardinality(Pairs) - 1
        BY <3>2, NewOffsetIs
      <4> QED
        BY <4>1, PairsFinite
    <3>4. inv.port[p[2]] \in Nat
      BY <1>1 DEF Pairs, Inventory
    <3> QED
      BY <3>1, <3>3, <3>4, BlockType
  <2> QED
    BY <2>1, <2>2
<1>3. t = [p \in DesiredPairs(inv) |-> t[p]]
  BY DEF Topology
<1> HIDE DEF t
<1>4. t \in [DOMAIN t -> [ip : [near_ip : Octets, far_ip : Octets], wg_port : Nat]]
  BY <1>1, <1>2, <1>3
<1> QED
  BY <1>1, <1>4 DEF t
=============================================================================
