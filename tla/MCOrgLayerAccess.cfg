SPECIFICATION Spec
CONSTANTS
  r1 = r1
  r2 = r2
  r3 = r3
  Runs = {r1, r2, r3}
  Admin = "admin"
  BadNames = {"", ".."}
  OrgVersions <- MCOrgVersions
  RepoVersions <- MCRepoVersions
  TTL = 1
  MaxTime = 2
  MaxFaults = 1
  StableAccess = FALSE
SYMMETRY Symmetry
CHECK_DEADLOCK FALSE
INVARIANT PolicyHolds
