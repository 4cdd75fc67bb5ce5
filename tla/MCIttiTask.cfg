SPECIFICATION FairSpec
CONSTANTS
    MaxSent = 4
    MaxPosts = 2
INVARIANTS NeverSleepsOnMessage NeverSleepsThroughTimer
PROPERTY EveryMessageTaken
CHECK_DEADLOCK FALSE
