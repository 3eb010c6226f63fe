SPECIFICATION FairSpec
CONSTANTS
  Call = {c1}
  Exporter = "none"
  MaxFaults = 1
  MaxSignals = 1
PROPERTY RestartServes
