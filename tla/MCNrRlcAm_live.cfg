SPECIFICATION FairSpec
CONSTANTS
  SduSizes <- ShortSizes
  Grants = {1, 2}
  WindowSize = 3
  TxMax = 2
  PollEarly = {TRUE, FALSE}
  Truncates = FALSE
  Prompt = TRUE
  MaxSdus = 2
  MaxData = 1
  MaxStatus = 1
  MaxUnderWay = 2
INVARIANTS PollIsOut
PROPERTIES SentIsDelivered
CHECK_DEADLOCK FALSE
