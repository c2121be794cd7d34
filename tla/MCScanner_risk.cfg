CONSTANTS
    settings <- MCSettings
    periods <- MCPeriods
    Views <- MCViews
    Contexts <- MCContexts
    Weights <- MCWeights
    Marks = {50, 150}
    MaxScans = 1
    MaxDays = 1
    MaxMoves = 2

SPECIFICATION Spec

CHECK_DEADLOCK FALSE

PROPERTY RiskIsDollarsToTheStop
