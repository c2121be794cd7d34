CONSTANTS
    settings <- MCSettings
    periods <- MCPeriods
    Views <- MCViews
    Contexts <- MCContexts
    Weights <- MCWeights
    Marks = {50, 150}
    MaxScans = 2
    MaxDays = 2
    MaxMoves = 2

SPECIFICATION Spec

CHECK_DEADLOCK FALSE

INVARIANT TypeOK
INVARIANT EverySymbolAccounted
INVARIANT BestFirst
INVARIANT BoundIsExact
PROPERTY EntryWithinCounts
PROPERTY EntryWithinMoney
