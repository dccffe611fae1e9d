CONSTANTS
    None = None
    MaxInits = 2
    MaxTerms = 1
    MaxSends = 0
    MaxCount = 1
    MaxData = 1
SPECIFICATION Spec
PROPERTY ServedAgain
