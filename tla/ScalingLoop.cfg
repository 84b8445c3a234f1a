SPECIFICATION Spec
CONSTANTS
    Configs <- MCConfigs
    MaxWork = 9
    MaxReplicas = 9
INVARIANTS TypeOK MonotoneInWork
PROPERTIES NoShrinkUnderLoad RemovalLimited EntersBounds Settles Suffices
