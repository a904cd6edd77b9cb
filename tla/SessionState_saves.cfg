SPECIFICATION FairSpec
CONSTANTS
  Names = {"n1","n2"}
  Home = "n1"
  Files = {1}
  MaxVersion = 2
  MaxReserve = 2
  MaxTroubles = 1
INVARIANTS TypeOK NoStaleContents
PROPERTIES NewerOnly ExitKeepsLastSave SaveLands
CHECK_DEADLOCK FALSE
