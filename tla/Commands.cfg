SPECIFICATION CommandsSpec
CONSTANTS
  Name = {n1, n2, n3}
  MaxParallel = 2
  NearNode = {h1}
  FarNode = {u1}
  Client = {c1, c2}
  File = {"mihomo"}
  MaxBuilds = 2
  MaxSignals = 2
INVARIANTS ExitZeroMeansDeployed NothingLeftBehind GreenMeansUp DownIsExplained NobodyForgotten ServedFresh
PROPERTIES CommandEnds ChecksGoOn StopReturns ClientsServed
CHECK_DEADLOCK FALSE
