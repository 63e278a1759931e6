CONSTANTS
  Node = {a, b, c}
  PlanId = {a, b, c}
  MaxDagNodes = 0
  MaxDagDepth = 0
  MaxParallel = 2
  MaxReactive = 1
SPECIFICATION Spec
SYMMETRY Symmetry
INVARIANTS
  UpstreamFaithful
  StrictInputs
  PlanStaysDag
  NothingLeftBehind
  
  PoolDrained
PROPERTIES
  SettledForGood
  NothingStartsAfterFailure
  ImplementsDagRun
