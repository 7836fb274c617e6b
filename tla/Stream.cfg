SPECIFICATION FairSpec
CONSTANTS
    Window = 3
    Chunk = 2
    MaxBytes = 4
    MaxTotal = 5
    Corrupts = TRUE
INVARIANTS TypeOK Contiguous FramingKept DoneIsWhole WindowKept
PROPERTIES PipeSpec ReadingEnds CancelStopsWriter
CHECK_DEADLOCK FALSE
