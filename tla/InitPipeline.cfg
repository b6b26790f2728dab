SPECIFICATION FairSpec
CONSTANTS
  Node = {n1, n2}
  Requests = {{n1}, {n1, n2}}
  Earlier = {n1}
  MaxDeaths = 2
  MaxFailures = 1
INVARIANTS TypeOK OneFleet RenderedKeyed
PROPERTIES InitDeploys
