SPECIFICATION FairSpec
CONSTANTS
  Call = {c1, c2}
  Exporter = "otlp"
  MaxFaults = 2
  MaxSignals = 3
INVARIANT ProcessInv
INVARIANT StaleSocketOnlyAfterKill
INVARIANT GracefulCutsNoCall
PROPERTY ShutdownEnds
PROPERTY ShutdownProceeds
PROPERTY ServesAgain
