SPECIFICATION FairSpec
CONSTANTS
  Keys = {k1, k2}
  Engines = {e1}
  NoKey = NoKey
  Prices = {0, 3, 5}
  Slip = 1
  FeeOf <- MCFeeOf
  Capitals = {10, 16}
  MaxInterruptions = 1
  WebReboots = FALSE
  BookResets = TRUE
  MaxAdmin = 2
INVARIANTS TypeOK BookedOnce BooksAgree BookedAtLeastOnce ExtraBookingsBounded
PROPERTIES AccountSpec HandlersEnd ClosedIsFinal RowsComeFromInsert
CHECK_DEADLOCK FALSE
