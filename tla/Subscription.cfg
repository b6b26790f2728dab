SPECIFICATION Spec
CONSTANTS
  Near <- NearNodes
  Far <- FarNodes
  Region <- NodeRegion
  Label <- NodeLabel
  PortBase <- NodePortBase
  PeerLists <- Lists
  NoFile = NoFile
  MaxRenders = 3
INVARIANTS TypeOK GroupsResolve GroupsKeepPromise LinksReach
CHECK_DEADLOCK FALSE
