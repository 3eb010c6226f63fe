SPECIFICATION Spec
CONSTANTS
  Rpc = {r1, r2}
  Bucket = {b1}
  User = {u1}
  Account = {a1, a2}
  Key = {k1}
  Params = {p1}
  None = None
  SpontaneousErrors = {}
  Ops = {"GrantBucketAccess", "RevokeBucketAccess"}
  MaxAttempts = 1
  PageSize = 1
  MaxLate = 1
SYMMETRY Symmetry
INVARIANT RevokedKeysStayDead
INVARIANT GrantedAccessHolds
INVARIANT RevokedAccessHolds
