SPECIFICATION Spec
CONSTANTS
  Kinds = {"HALT", "RESUME", "CLOSE_POSITION", "FLATTEN_ALL", "SCAN_NOW", "SET_REGIME", "OTHER", "UNKNOWN"}
  Desks = {"EQUITY", "CRYPTO"}
  MaxOpen = 1
  MaxFailures = 2
  MaxCandidates = 2
  MaxCommands = 2
  MaxFaults = 1
  MaxCrashes = 1
INVARIANTS TypeOK ForcedPassIsMade AppliedAtMostOnce ForgottenOnlyByFailure LastWordStands CommandsComeFirst
PROPERTIES HaltedOpensNothing
