SPECIFICATION Spec
CONSTANTS
  None = None
  Secrets <- EverySecret
  Edits <- AnotherTenant
  DefaultRegion = "us-east-1"
  SdkRegion = "eu-west-3"
INVARIANT ConfigInv
INVARIANT ClientOfOneSecret
INVARIANT ClientComplete
INVARIANT CertificateCounts
CHECK_DEADLOCK FALSE
