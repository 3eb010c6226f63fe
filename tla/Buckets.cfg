SPECIFICATION Spec
CONSTANTS
  Rpc = {r1, r2}
  Bucket = {b1}
  User = {}
  Account = {a1, a2}
  Key = {}
  Params = {p1}
  None = None
  SpontaneousErrors = {"AccessDenied"}
  Ops = {"CreateBucket", "DeleteBucket"}
  MaxAttempts = 2
  PageSize = 2
  MaxLate = 1
SYMMETRY Symmetry
INVARIANT CreatedBucketHolds
INVARIANT DeletedBucketHolds
PROPERTY ImplementsContract
