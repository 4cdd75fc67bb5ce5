SPECIFICATION Spec
CONSTANTS
  SduSizes <- MixedSizes
  Grants = {1, 3}
  WindowSize = 2
  TxMax = 2
  PollEarly = {FALSE}
  Truncates = TRUE
  Prompt = FALSE
  MaxSdus = 4
  MaxData = 2
  MaxStatus = 1
  MaxUnderWay = 2
INVARIANTS TypeOK StatusIsTrue ConfirmedIsDelivered ListsDisjoint GapIsTimed NullOnlyIfStalled
PROPERTIES DeliversOnce
CHECK_DEADLOCK FALSE
