SPECIFICATION Spec
CONSTANTS
  Names = {"n1"}
  Home = "n1"
  Files = {1}
  MaxVersion = 2
  MaxReserve = 2
  MaxTroubles = 1
INVARIANT ResurrectsOneSave
CHECK_DEADLOCK FALSE
