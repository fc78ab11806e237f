SPECIFICATION Spec
CONSTANTS
  Requests = {r1, r2}
  Cookies = {c1, c2}
  Setters = {"basic_auth"}
  Values = {v1}
  MaxAlive = 2
SYMMETRY Symmetry
CHECK_DEADLOCK FALSE
INVARIANTS TypeOK SentAsAsked  NothingStale  CookiesKept
