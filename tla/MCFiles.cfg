SPECIFICATION Spec
CONSTANTS
  m1 = m1
  m2 = m2
  n1 = n1
  n2 = n2
  m1CRLF = m1CRLF
  f1 = f1
  f2 = f2
  f3 = f3
  s0 = s0
  s1 = s1
  s2 = s2
  Unset = Unset
  Thread = {s1, s2}
  Model = {m1, m2, f3}
  Default = m1
  PinOf <- PinUses
  Server = {s1, s2}
  Session = {n1, n2}
  Tool = {"confer"}
  CacheOf <- CacheUses
  MaxCalls = 2
  MaxDocs = 3
  MaxTime = 1
  MaxDeaths = 1
SYMMETRY Symmetry
INVARIANTS
  TypeOK
  ExactUnlessOverlapped
  DriftIsSeen
  LatestIsAudited
  NoTornRead
  BoundedAtRest
  NoLitter
