SPECIFICATION Spec
CHECK_DEADLOCK FALSE
CONSTANT MaxSessions = 2
INVARIANTS ActiveCounts LiveListed
PROPERTIES DrainedMeansIdle EntryLeavesWithItsSession KillEnds DrainEnds
