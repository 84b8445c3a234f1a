SPECIFICATION PoolSpec
CONSTANTS
    Job = {j1, j2}
    Pod = {p1, p2}
    MaxRetries = 1
    NewRetries = {}
    ProcessingTimeout = 1
    HttpTimeout = 1
    MaxCrashes = 1
    MaxLost = 1
    Scaling <- MCScaling
INVARIANTS PoolTypeOK OneAtATime OneEnd
PROPERTIES RefinesJobLifecycle EndsUnlessTaken PoolRests
