SPECIFICATION Spec
CONSTANTS
  sdiv = sdiv  broken = broken  add = add  or = or
  Missing = Missing  Malformed = Malformed  None = None
  Instr <- MCInstr
  Crashing <- MCCrashing
  Breaking <- MCBreaking
  Inputs <- MCInputs
INVARIANTS TypeOK KeepsCrash Minimal
PROPERTY Termination
