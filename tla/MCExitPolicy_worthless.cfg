SPECIFICATION FairSpec
CONSTANTS
  Positions = {"o"}
  Market <- OneOption
  Plans <- PlansInUse
  Feed <- FeedInUse
  StaleAge = 1
  MaxFaults = 1
PROPERTIES UnusablePriceIsLeft
