SPECIFICATION Spec
CONSTANTS
  Thread = {t1, t2}
  Model = {m0, m1, m2}
  Default = m0
  Unset = Unset
  MaxCalls = 2
INVARIANTS
  GivenTheModelAsked
