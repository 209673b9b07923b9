SPECIFICATION FairSpec
CONSTANTS
  Defaults <- MCDefaults
  Configs <- MCConfigs
  Stores <- MCStores
  Edits <- MCEdits
  BadNames = {""}
  TopicsPage = 1
  NumericIds = {"7", "8"}
  MaxFaults = 2
  MaxEdits = 2
INVARIANT Settles
INVARIANT UndisturbedSucceeds
INVARIANT MissingIsReported
INVARIANT PlanShowsWrites
PROPERTY PlanIsTrue
PROPERTY EventuallySettles
