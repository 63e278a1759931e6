CONSTANTS
  Node = {a, b, x}
  PlanId = {a, b}
  MaxDagNodes = 2
  MaxDagDepth = 1
  MaxParallel = 2
  MaxReactive = 2
SPECIFICATION Spec
PROPERTIES
  Terminates
