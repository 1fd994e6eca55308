SPECIFICATION Spec
CHECK_DEADLOCK FALSE
CONSTANTS
  Savepoints = {s1}
  Wrapper = wrapper
  MaxChanges = 3
  MaxEvents = 2
INVARIANTS TypeOK InTransaction NoChangeLost NothingUnasked PendingNotDurable CurrvalTracked
PROPERTY KeepsPromise
