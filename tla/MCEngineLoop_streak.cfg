SPECIFICATION FairSpec
CONSTANTS
  Kinds = {"RESUME", "UNKNOWN"}
  Desks = {"EQUITY"}
  MaxOpen = 1
  MaxFailures = 2
  MaxCandidates = 1
  MaxCommands = 2
  MaxFaults = 3
  MaxCrashes = 1
INVARIANTS StreakHalts
PROPERTIES StopsAreHonoured CommandsAnswered
