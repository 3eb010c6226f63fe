SPECIFICATION FairSpec
CONSTANTS
  Rpc = {r1}
  Bucket = {b1}
  User = {u1}
  Account = {a1}
  Key = {k1, k2}
  Params = {p1}
  None = None
  SpontaneousErrors = {"BucketAlreadyExists", "BucketAlreadyOwnedByYou", "InvalidBucketName",
    "InvalidLocationConstraint", "InvalidRequest", "MalformedXML",
    "AccessDenied", "BucketNotEmpty", "RequestTimeout",
    "ServiceUnavailable", "Throttled", "TooManyBuckets",
    "InvalidAccessKeyId", "SignatureDoesNotMatch", "EntityAlreadyExists",
    "AccessKeyAlreadyExists", "InvalidInput", "InvalidUserName",
    "ValidationError", "MalformedPolicyDocument", "PolicyNotAttachable",
    "LimitExceeded", "AccessKeyLimitExceeded", "UnauthorizedOperation",
    "DeleteConflict", "EntityTemporarilyUnmodifiable", "ServiceFailure",
    "SlowDown"}
  Ops = {"CreateBucket", "DeleteBucket", "GrantBucketAccess", "RevokeBucketAccess"}
  MaxAttempts = 2
  PageSize = 2
  MaxLate = 1
INVARIANT NoPanic
PROPERTY EveryCallReturns
PROPERTY HandlersAdvance
