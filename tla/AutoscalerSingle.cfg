SPECIFICATION FairSpec
CONSTANTS
    Queue = {q1}
    Controller = {c1}
    Cfg <- MCCostly
    MaxWork = 3
    Faults = {"ensure", "stats", "scale", "update"}
    MaxFaults = 1
    MaxCrashes = 1
    Broken = {}
INVARIANTS TypeOK ReplicasInBounds
PROPERTIES CooldownRespected NoScaleDownAfterActivity LoadedPoolKept RefinesReplicaControl
PROPERTIES DrainsWhenIdle
