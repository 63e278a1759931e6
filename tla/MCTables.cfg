SPECIFICATION Spec
CONSTANTS
  m1 = m1
  m2 = m2
  s0 = s0
  s1 = s1
  s2 = s2
  n1 = n1
  n2 = n2
  h1 = h1
  h2 = h2
  h3 = h3
  NoId = NoId
  GraphOf <- GraphUses
  MemoryOf <- MemoryUses
  Provider = {m1, m2}
  Voter = {s1, s2}
  LedgerOf <- LedgerUses
  Process = {s1, s2}
  Session = {n1}
  Requester = {m1}
  PerSession = 2
  PerRequester = 1
  EgressOf <- EgressUses
  MaxGoldens = 1
  MaxCalls = 2
  MaxDelegations = 4
SYMMETRY Symmetry
INVARIANTS
  TypeOK
  LinksSound
PROPERTIES
  MemoryGate
  BallotsCounted
  LedgersAreTrue
  BudgetsHold
