SPECIFICATION FairSpec
CONSTANTS
  Callers = {c1, c2}
  InstTTL = 2
  TokenLife = 3
  Margin = 1
  JWTLife = 3
  JWTReuse = 2
  Transit = 1
  MaxInstalls = 2
  MaxFaults = 1
CHECK_DEADLOCK FALSE
INVARIANT JWTAccepted
PROPERTY Recovers
