SPECIFICATION Spec
CONSTANTS
  Poison = Poison  UB = UB  None = None  Crash = Crash
  Width = 2
  Block = {}
  Arg = {}
  Ins <- MCIns
  Word <- Words
  BinaryOperator <- BinaryOperators
  Eval <- LLVMEval
  Modules <- MCModules
  SolutionFolds <- Reference
  MineFolds <- Reference
INVARIANTS SameInput NoFalseAlarm ClonesNotCloned
