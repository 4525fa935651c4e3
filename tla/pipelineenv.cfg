SPECIFICATION Spec
CONSTANTS
  None = None  NoResult = NoResult
  f = f  g = g
  Layout <- MCLayout
  Fun <- MCFun
  Pass <- MCPass
  Key <- FunctionAnalyses
  Depends <- Computed
  Outcomes <- PassOutcomes
  Programs <- MCPipelineSet
PROPERTY PipelineAsAsked
