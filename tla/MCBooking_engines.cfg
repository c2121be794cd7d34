SPECIFICATION Spec
CONSTANTS
  Keys = {k1}
  Engines = {e1, e2}
  NoKey = NoKey
  Prices = {3, 5}
  Slip = 1
  FeeOf <- MCFeeOf
  Capitals = {9, 12}
  MaxInterruptions = 2
  WebReboots = TRUE
  BookResets = FALSE
  MaxAdmin = 1
PROPERTIES FirstFillStands
CHECK_DEADLOCK FALSE
