SPECIFICATION Spec
CONSTANTS
  Rpc = {r1, r2}
  Bucket = {b1}
  User = {u1}
  Account = {a1}
  Key = {k1, k2}
  Params = {p1}
  None = None
  SpontaneousErrors = {}
  Ops = {"GrantBucketAccess", "RevokeBucketAccess"}
  MaxAttempts = 1
  PageSize = 2
  MaxLate = 1
SYMMETRY Symmetry
INVARIANT RevokeClears
PROPERTY ImplementsContract
