SPECIFICATION Spec
CHECK_DEADLOCK FALSE
CONSTANT MaxSessions = 1
INVARIANT KillReleases
