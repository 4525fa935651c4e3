SPECIFICATION Spec
CONSTANTS
  None = None
  MaxFaults = 2
  Systems <- MCSystems
INVARIANTS TypeOK ZeroMeansInstalled
PROPERTIES NeverOverwritten Recovers
