SPECIFICATION Spec
CONSTANTS
  Deployer = {d1}
  Config = {g1, g2}
  Checked = {g1, g2}
  Good = {g1, g2}
  Flaky = {}
  Missing = Missing
  Partial = Partial
  Down = Down
  MaxLost = 1
  MaxReboots = 0
SYMMETRY Symmetry
INVARIANTS AnyFailureRestores
