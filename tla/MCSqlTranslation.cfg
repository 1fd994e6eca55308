SPECIFICATION Spec
CONSTANTS
    Limits <- MCLimits
    Ties <- MCTies
    LegacyJoins <- MCLegacyJoins
    FullJoins <- MCFullJoins
    Walked <- MCWalked
    Levels <- MCLevels
    Unpivots <- MCUnpivots
    PivotQueries <- MCPivotQueries
    Keeps <- MCKeeps
    Expressions <- MCExpressions
    Merges <- MCMerges
    MultiInserts <- MCMultiInserts
INVARIANTS
    RowsAsOracles
    WritesAsOracles
CHECK_DEADLOCK FALSE
