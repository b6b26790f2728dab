SPECIFICATION Spec
CONSTANTS
  Near = {1, 2}
  Far = {f1, f2}
  SubnetThird = 10
  AllPeers = AllPeers
  Runs = {r1}
  WgPortStart = 1
  EditPeerLists = {AllPeers}
  EditPorts = {3}
  MaxCrashes = 0
SYMMETRY Symmetry
INVARIANTS BlocksDisjoint PoolBounded
PROPERTIES AddressesStable
