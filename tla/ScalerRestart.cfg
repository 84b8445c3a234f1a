SPECIFICATION Spec
CONSTANTS
    Queue = {q1}
    Controller = {c1}
    Cfg <- MCCheap
    MaxWork = 3
    Faults = {}
    MaxFaults = 1
    MaxCrashes = 1
    Broken = {}
PROPERTY NoMassTermination
