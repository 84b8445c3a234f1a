SPECIFICATION FairSpec
CONSTANTS
    Queue = {q1, q2}
    Controller = {c1}
    Cfg <- MCSmall
    MaxWork = 2
    Faults = {"stats", "consumer", "replicas", "scale", "update", "reply"}
    MaxFaults = 1
    MaxCrashes = 0
    Broken = {q1}

PROPERTIES ScalesToWork
