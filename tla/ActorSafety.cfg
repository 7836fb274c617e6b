SPECIFICATION Spec
CONSTANTS
    MaxSends = 2
    Callers = {c1, c2}
    None = None
    StopHook = TRUE
    HasChildren = TRUE
INVARIANTS TypeOK NoLostTick OneAtATime ToldStopped
PROPERTY MailboxSpec
SYMMETRY CallerSymmetry
