SPECIFICATION FairSpec
CONSTANTS
    WindowSize = 2
    CountModulus = 32
    Bearers <- MCBearers
    k1 = k1
    Keys = {k1}
    NoKey = NoKey
    Keep = Keep
    SecurityInputs <- MCSecurityInputs
    MaxCount = 5
    MaxEpoch = 1
INVARIANTS TypeOK HfnInference GapHasTimer NoStaleSdu
PROPERTIES DeliversInOrder StoredSduLeaves
