SPECIFICATION FairSpec
CONSTANTS
    Job = {j1}
    Pod = {p1, p2}
    MaxRetries = 1
    NewRetries = {2}
    ProcessingTimeout = 1
    HttpTimeout = 2
    MaxCrashes = 1
    MaxLost = 1
INVARIANT DeadOnce
PROPERTY EndsOrAllTried
