SPECIFICATION Spec
CONSTANTS
  None = None
  Word <- MCWord
  Plus <- MCPlus
  Magic <- MCMagic
  Programs <- Solutions
INVARIANTS FollowsCFG
PROPERTIES LowersFoo Termination
