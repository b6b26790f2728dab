SPECIFICATION Spec
CONSTANTS
  Near = {1}
  Far = {f1, f2}
  SubnetThird = 10
  AllPeers = AllPeers
  Runs = {r1, r2}
  WgPortStart = 1
  EditPeerLists = {AllPeers}
  EditPorts = {}
  MaxCrashes = 1
SYMMETRY Symmetry
INVARIANTS TypeOK BlocksDisjoint
VIEW NoTopo
CHECK_DEADLOCK FALSE
