SPECIFICATION FairSpec
CONSTANTS
  Node = {n1, n2}
  Requests = {{n1}, {n1, n2}}
  Earlier = {}
  MaxDeaths = 0
  MaxFailures = 1
INVARIANTS ContinuesRequested
