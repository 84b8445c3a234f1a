SPECIFICATION PoolSpec
CONSTANTS
    Job = {j1, j2}
    Pod = {p1, p2}
    MaxRetries = 1
    NewRetries = {}
    ProcessingTimeout = 3
    HttpTimeout = 2
    MaxCrashes = 0
    MaxLost = 0
    Scaling <- MCScaling
PROPERTY EveryJobEnds
