CONSTANTS
    Size = 4
    FirstRead = 2
    MaxBytes = 8
SPECIFICATION Spec
INVARIANT AllAccounted
