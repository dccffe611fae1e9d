CONSTANTS
    MaxReads = 2
    MaxSends = 2
    MaxData = 2
SPECIFICATION Spec
INVARIANTS TypeOK InOrder NoTimerLeft CrashNeedsOverlap
PROPERTIES ReadEnds 
