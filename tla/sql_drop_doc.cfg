SPECIFICATION Spec
CONSTANTS
  Queries = {q1, q2}
  Columns = {k1}
  Stmts = {s1, s2, s3}
  Null = Null
  NoColumn = NoColumn
  MaxRows = 1
  Lapses = {}
SYMMETRY Symmetry
CHECK_DEADLOCK FALSE
PROPERTY DropReported
