SPECIFICATION Spec
CONSTANTS
    MaxSays = 3
    Classes = {"plain", "owes", "throws"}
    MaxEmits = 1
    MaxCalls = 0
    Serves <- AllServes
    Cuts = TRUE
    Garbles = TRUE
INVARIANTS TypeOK InOrder ExitIsLastWord CleanedUpOnce
CHECK_DEADLOCK FALSE
