CONSTANTS
    Limit = 2
    Window = 2
    Threshold = 2
    Cooldown = 2
    Workers = 1
    Budget = 1
    Interval = 1
    TTL = 2
    EquityProviders = {"alpaca"}

SPECIFICATION Spec

PROPERTY BacksOffAfter429
