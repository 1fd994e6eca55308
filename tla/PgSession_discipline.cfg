SPECIFICATION Spec
CHECK_DEADLOCK FALSE
CONSTANTS
  Cursors = {c1, c2}
  Queries = {q1}
  Savepoints = {s1, s2}
  Allow = {"bindError", "stalePlan", "refusedCommit"}
  StatementTimeout = TRUE
  MaxChanges = 3
  MaxRows = 2
  BatchRows = 1
  MaxDepth = 3
INVARIANTS TypeOK TransactionUsable WrappersOnTop
PROPERTIES CommitKeepsWork ClientSavepointsSurvive KeepsPromise
