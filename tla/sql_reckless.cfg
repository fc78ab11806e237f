SPECIFICATION Spec
CONSTANTS
  Queries = {q1, q2}
  Columns = {k1}
  Stmts = {s1, s2, s3}
  Null = Null
  NoColumn = NoColumn
  MaxRows = 1
  Lapses = {"abandon_failed", "outlive_database", "stale_column", "name_without_statement"}
SYMMETRY Symmetry
CHECK_DEADLOCK FALSE
INVARIANTS StatementsOwned ConnectionHeld
PROPERTY ImplementsTable
