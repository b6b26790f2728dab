SPECIFICATION ProvisionSpec
CONSTANTS
  Deployer = {d1}
  Config = {g1, c1, k1, x1}
  Checked = {g1, c1, k1}
  Good = {g1}
  Flaky = {k1}
  Missing = Missing
  Partial = Partial
  Down = Down
  MaxLost = 1
  MaxReboots = 1
  PortBase = 20000
  Mirror = FALSE
  WgPort = 51941
  MaxBootstraps = 1
  MaxBootLost = 1
INVARIANTS TypeOK OnlyCheckedInstalled GoodAccepted FailedRestores NeverLockedOut Provisioned
PROPERTIES AllOrNothing AttemptEnds BootstrapReturns
