SPECIFICATION Spec
CONSTANTS
  SduSizes <- PairSizes
  Grants = {1, 2}
  WindowSize = 2
  TxMax = 2
  PollEarly = {TRUE, FALSE}
  Truncates = FALSE
  Prompt = FALSE
  MaxSdus = 2
  MaxData = 1
  MaxStatus = 1
  MaxUnderWay = 2
INVARIANTS NotOvertaken
CHECK_DEADLOCK FALSE
