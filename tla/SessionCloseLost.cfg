SPECIFICATION FairSpec
CONSTANTS
    MaxSays = 1
    Classes = {"plain"}
    MaxEmits = 0
    MaxCalls = 0
    Serves <- AllServes
    Cuts = TRUE
    Garbles = FALSE
PROPERTIES CloseEndsSession
CHECK_DEADLOCK FALSE
