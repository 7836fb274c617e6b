SPECIFICATION FairSpec
CONSTANTS
    MaxSends = 2
    Callers = {c1}
    None = None
    StopHook = FALSE
    HasChildren = TRUE
PROPERTIES Delivered DoneHonoured StopHonoured
