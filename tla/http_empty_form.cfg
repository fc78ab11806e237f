SPECIFICATION Spec
CONSTANTS
  Requests = {r1, r2}
  Cookies = {c1}
  Setters = {}
  Values = {v1, v2}
  MaxAlive = 1
SYMMETRY Symmetry
CHECK_DEADLOCK FALSE
INVARIANT EveryCallAnswers
