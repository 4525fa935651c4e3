SPECIFICATION Spec
CONSTANTS
  None = None
  MaxFaults = 2
  Systems <- MCSystems
INVARIANT ExitOnFailure
