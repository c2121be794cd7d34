SPECIFICATION Spec
CONSTANTS
  Keys = {k1}
  Engines = {e1}
  NoKey = NoKey
  Prices = {3, 5}
  Slip = 1
  FeeOf <- MCFeeOf
  Capitals = {12}
  MaxInterruptions = 1
  WebReboots = FALSE
  BookResets = FALSE
  MaxAdmin = 0
INVARIANTS ClosingTwiceBooksOnce
CHECK_DEADLOCK FALSE
