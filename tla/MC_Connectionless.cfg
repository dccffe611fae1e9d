CONSTANTS
    None = None
    MaxInits = 2
    MaxTerms = 1
    MaxSends = 2
    MaxCount = 2
    MaxData = 2
SPECIFICATION Spec
INVARIANTS TypeOK Served Faithful SafeOnceUp Released
PROPERTIES TerminateReturns
