SPECIFICATION Spec
CONSTANTS
  m1 = m1
  m2 = m2
  m3 = m3
  m0 = m0
  Panelist = {m1, m2, m3}
  ConferCap = 2
  ConferCost = 2
  Debaters = 3
  MaxRounds = 2
  MaxClaims = 1
  SessionCap = 1
  AnswerCost = 1
  Provider = {m1, m2, m0}
  Allowed = {m1, m2, m0}
  Moderator = m0
  NOptions = 2
  Criterion = {"cost", "speed"}
  Weight <- Weights
  Object <- Objects
  Sure = 7
  Ranked = {1, 2, 3}
  Price <- Prices
  Tokens <- Engaged
  Trust <- Wins
  ColdBelow = 3
  Grain = 10
  MaxCalls = 4
SYMMETRY Symmetry
INVARIANTS
  TypeOK
  
  RoundsWhole
  BetterComesFirst
PROPERTIES
  EarlyStopIsAgreed
