SPECIFICATION Spec
CONSTANTS
  m1 = m1
  m2 = m2
PROPERTIES
  Terminates
