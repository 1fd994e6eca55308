SPECIFICATION Spec
CHECK_DEADLOCK FALSE
CONSTANTS
  Cursors = {c1, c2}
  Queries = {q1}
  Savepoints = {s1}
  Allow = {"directError"}
  StatementTimeout = FALSE
  MaxChanges = 2
  MaxRows = 2
  BatchRows = 1
  MaxDepth = 3
PROPERTIES CommitKeepsWork
