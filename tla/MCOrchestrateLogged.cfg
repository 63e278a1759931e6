CONSTANTS
  Node = {a, b}
  PlanId = {a}
  MaxDagNodes = 0
  MaxDagDepth = 0
  MaxParallel = 1
  MaxReactive = 1
SPECIFICATION Spec
INVARIANT EveryChargeLogged
