SPECIFICATION Spec
CONSTANTS
  Rpc = {r1}
  Bucket = {b1}
  User = {}
  Account = {a1}
  Key = {}
  Params = {p1}
  None = None
  SpontaneousErrors = {}
  Ops = {"CreateBucket", "DeleteBucket"}
  MaxAttempts = 1
  PageSize = 2
  MaxLate = 0
SYMMETRY Symmetry
INVARIANT CreateIsIdempotent
