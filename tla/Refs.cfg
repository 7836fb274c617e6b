SPECIFICATION Spec
CONSTANTS
    Carriers = {p}
    Leaves = {q}
    None = None
    MaxIds = 4
    MaxSays = 2
    MaxAsks = 3
    Lists = {{}, {"message", "state"}}
INVARIANTS TypeOK SameProcess AskedIsHeard Fresh LastWord CountsCover WaitAnswered
CHECK_DEADLOCK FALSE
