SPECIFICATION Spec
CONSTANTS
    N = 4
    MaxEmits = 1
    Policy <- AllPolicies
    Monitors <- NoMonitors
    Kills = {}
    Fails = {}
INVARIANTS SingleOwner Lossless
CHECK_DEADLOCK FALSE
