SPECIFICATION Spec
CONSTANTS
  Near = {0, 1}
  Far = {f1, f2}
  SubnetThird = 8
  AllPeers = AllPeers
  InitNear = {1}
  MaxDeaths = 1
  MaxRotations = 1
  MaxBatches = 2
  MaxEdits = 1

INVARIANTS DeployConnects
SYMMETRY Symmetry
CHECK_DEADLOCK FALSE
