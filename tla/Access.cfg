SPECIFICATION Spec
CONSTANTS
  Rpc = {r1, r2}
  Bucket = {b1}
  User = {u1}
  Account = {a1}
  Key = {k1, k2}
  Params = {p1}
  None = None
  SpontaneousErrors = {"AccessDenied"}
  Ops = {"GrantBucketAccess", "RevokeBucketAccess"}
  MaxAttempts = 2
  PageSize = 1
  MaxLate = 1
SYMMETRY Symmetry
INVARIANT IInv
INVARIANT RevokedKeysStayDead
INVARIANT GrantedAccessHolds
INVARIANT RevokedAccessHolds
INVARIANT RevokeClears
