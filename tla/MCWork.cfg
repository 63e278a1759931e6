SPECIFICATION Spec
CONSTANTS
  m1 = m1
  m2 = m2
  m3 = m3
  m4 = m4
  Provider = {m1, m2, m3}
  MaxAttempts = 4
  SessionCap = 4
  CallCost = 2
  Allowlist = {"fetch", "verify"}
  OtherTool = "delegate"
  HopBudget = 2
  MaxRetries = 1
  TurnCap = 2
  AnswerCost = 3
  Auditor = {m1, m2, m3, m4}
  Item = {"grounded"}
  Severity <- OneItem
  Score = {1, 3, 7, 10}
  MaxJudges = 3
  Auditor2 = {m1, m2}
  Item2 = {"grounded", "actionable"}
  Severity2 <- TwoItems
  Score2 = {2, 6, 9}
  MaxJudges2 = 2
SYMMETRY Symmetry
INVARIANTS
  TypeOK
  
  OnlyVerifiedReturned
  VotesDecide
PROPERTIES
  TurnBounded
