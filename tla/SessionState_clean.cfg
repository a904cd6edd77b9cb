SPECIFICATION FairSpec
CONSTANTS
  Names = {"n1"}
  Home = "n1"
  Files = {1}
  MaxVersion = 2
  MaxReserve = 2
  MaxTroubles = 0
PROPERTY InfoAlwaysPublished
CHECK_DEADLOCK FALSE
