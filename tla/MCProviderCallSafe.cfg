SPECIFICATION Spec
CONSTANTS
  Caller = {c1, c2}
  Limit = 4
  MaxAttempts = 2
  Base = 1
  MaxRetryAfter = 2
  MaxOps = 2
  Capacity = 5
  Refill = 1
  Unit = 4
SYMMETRY Symmetry
INVARIANTS
  WithinRate
  PostsBounded
  OverrunBounded
