SPECIFICATION SidecarSpec
CONSTANTS
  Rpc = {r1}
  Bucket = {b1}
  User = {u1}
  Account = {a1}
  Key = {k1, k2}
  Params = {p1}
  None = None
  SpontaneousErrors = {}
  Ops = {"GrantBucketAccess", "RevokeBucketAccess"}
  MaxAttempts = 2
  PageSize = 1
  MaxLate = 1
  Claims = {}
  TheBucket = b1
  TheParams = p1
  TheAccount = a1
  MaxFaults = 1
PROPERTY GrantConverges
CHECK_DEADLOCK FALSE
