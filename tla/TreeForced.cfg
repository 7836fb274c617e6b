SPECIFICATION FairSpec
CONSTANTS
    N = 3
    MaxEmits = 0
    Policy <- AllPolicies
    Monitors <- RootMonitors
    Kills = {1}
    Fails = {}
PROPERTIES ForcedStopEnds ForcedStopReachesChildren
CHECK_DEADLOCK FALSE
