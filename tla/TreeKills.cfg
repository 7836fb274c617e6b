SPECIFICATION Spec
CONSTANTS
    N = 3
    MaxEmits = 1
    Policy <- AllPolicies
    Monitors <- NoMonitors
    Kills = {2, 3}
    Fails = {3}
INVARIANTS TypeOK OwnerHears Lossless
CHECK_DEADLOCK FALSE
