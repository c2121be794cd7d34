SPECIFICATION FairSpec
CONSTANTS
  Positions = {"s", "c"}
  Market <- ShareAndScalp
  Plans <- PlansInUse
  Feed <- FeedInUse
  StaleAge = 0
  MaxFaults = 1
INVARIANTS TypeOK PeakIsLocked
PROPERTIES OnlyRatchets HeldAboveTheFloor StopIsHonoured
