SPECIFICATION SidecarSpec
CONSTANTS
  Rpc = {r1, r2}
  Bucket = {b1}
  User = {u1}
  Account = {a1, a2}
  Key = {k1, k2, k3}
  Params = {p1}
  None = None
  SpontaneousErrors = {}
  Ops = {"CreateBucket", "DeleteBucket", "GrantBucketAccess", "RevokeBucketAccess"}
  MaxAttempts = 2
  PageSize = 1
  MaxLate = 1
  Claims = {b1}
  TheBucket = b1
  TheParams = p1
  TheAccount = a1
  MaxFaults = 2
INVARIANT SidecarInv
INVARIANT DeliveredKeysDie
INVARIANT GrantedStaysUsable
INVARIANT ReadyBucketHolds
PROPERTY OnlyAsAsked
PROPERTY DeleteConverges
PROPERTY RevokeConverges
CHECK_DEADLOCK FALSE
