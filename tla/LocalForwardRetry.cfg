SPECIFICATION Spec
CONSTANTS
  Conns = {c1, c2}
INVARIANT
  EachConnectionIsTried
CHECK_DEADLOCK FALSE
