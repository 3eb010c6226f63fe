SPECIFICATION Spec
CONSTANTS
  Rpc = {r1}
  Bucket = {b1}
  User = {u1}
  Account = {a1, a2}
  Key = {k1}
  Params = {p1, p2}
  None = None
  SpontaneousErrors = {}
  Ops = {"GrantBucketAccess", "RevokeBucketAccess"}
  MaxAttempts = 1
  PageSize = 2
  MaxLate = 0
SYMMETRY Symmetry
INVARIANT RevokeRemovesAccess
