SPECIFICATION XSpec
CONSTANTS
  B1 = B1  B2 = B2  B3 = B3  B4 = B4  x = x
  Poison = Poison  UB = UB  None = None  Crash = Crash
  Width = 2
  Ins <- MCIns
  Block <- MCBlock
  Arg <- MCArg
  Word <- Words
  BinaryOperator <- BinaryOperators
  Eval <- LLVMEval
  Functions <- MCFunctionSet
INVARIANTS XTypeOK SameBehaviour
