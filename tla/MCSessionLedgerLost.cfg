SPECIFICATION Spec
CONSTANTS
  Process = {p1, p2}
  Cap = 3
  MaxCost = 1
  MaxAnswers = 1
  MaxCalls = 3
INVARIANTS
  RowIsCumulative
