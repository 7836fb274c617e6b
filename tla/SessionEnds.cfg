SPECIFICATION FairSpec
CONSTANTS
    MaxSays = 1
    Classes = {"owes"}
    MaxEmits = 0
    MaxCalls = 1
    Serves <- AllServes
    Cuts = TRUE
    Garbles = FALSE
PROPERTIES CallsSettle SessionEnds ProxyEnds
CHECK_DEADLOCK FALSE
