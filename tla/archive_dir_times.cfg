SPECIFICATION Spec
CONSTANTS
  Threads = {t1}
  Names = {"a", "b"}
  Folders = {d1}
  Files = {f1}
  MaxDepth = 1
INVARIANT FixedInTarget
