SPECIFICATION Spec
CONSTANTS
    Job = {j1}
    Pod = {p1, p2}
    MaxRetries = 1
    NewRetries = {}
    ProcessingTimeout = 1
    HttpTimeout = 5
    MaxCrashes = 0
    MaxLost = 0
INVARIANT EndsOneWay
