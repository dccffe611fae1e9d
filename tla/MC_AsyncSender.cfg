CONSTANTS
    MaxCounts <- Counts
    MaxSends = 3
    MaxRepeats = 6
SPECIFICATION Spec
INVARIANTS TypeOK SentAtMost StopHolds
PROPERTIES SentInFull FallsSilent
