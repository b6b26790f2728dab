SPECIFICATION ProvisionSpec
CONSTANTS
  Deployer = {d1}
  Config = {g1, x1}
  Checked = {g1}
  Good = {g1}
  Flaky = {}
  Missing = Missing
  Partial = Partial
  Down = Down
  MaxLost = 0
  MaxReboots = 0
  PortBase = 20000
  Mirror = FALSE
  WgPort = 51941
  MaxBootstraps = 1
  MaxBootLost = 0
INVARIANTS HealthyOnceDeployed
