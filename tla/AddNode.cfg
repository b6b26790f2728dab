SPECIFICATION FairSpec
CONSTANTS
  NearMachine = {m1, m3}
  FarMachine = {m2, m4}
  Letters = 3
  Disciplined = TRUE
  MaxDeaths = 2
  MaxRefused = 1
INVARIANTS TypeOK ListedOnce AddedIsListed
PROPERTIES AddCompletes
CHECK_DEADLOCK FALSE
