SPECIFICATION FairSpec
CONSTANTS
    Watchers = {w1, w2}
    None = None
    MaxRetryCount = 2
    MaxFaults = 1
CHECK_DEADLOCK FALSE
INVARIANT RetriesBounded
PROPERTY SwitchbackKeepsMain
PROPERTY ServedAgain
PROPERTY SwitchesBackAlone
PROPERTY StatusReported
