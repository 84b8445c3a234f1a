SPECIFICATION FairSpec
CONSTANTS
    Queue = {q1}
    Controller = {c1, c2}
    Cfg <- MCSmall
    MaxWork = 2
    Faults = {"stats", "update", "reply"}
    MaxFaults = 1
    MaxCrashes = 1
    Broken = {}

INVARIANTS DecisionsInBounds
PROPERTIES ScalesToWork
