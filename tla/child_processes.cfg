SPECIFICATION FairSpec
CONSTANTS
  Threads = {t1, t2}
  Children = {c1, c2, c3}
  NoChild = NoChild
CHECK_DEADLOCK FALSE
INVARIANT TypeOK
PROPERTIES NoFalseSuccess NoFalseFailure NormalReturnMeansAll EveryCallEnds
