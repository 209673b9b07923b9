SPECIFICATION FairSpec
CONSTANTS
  GitHubIssuers = {"github"}
  RequireImmutableSubject = TRUE
  Folded <- MCFolded
  OIDC = TRUE
  APIToken = TRUE
  AllowUnauthenticated = FALSE
  Handlers = {h1, h2}
  Requests <- MCRequests
  Metadata <- MCMetadata
  TTL = 1
  FetchTimeout = 1
  Keys = 2
  MaxFaults = 1
PROPERTY KeysAreRecent
INVARIANT ApplyIsCurrent
PROPERTY RotationHeals
