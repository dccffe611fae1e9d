CONSTANTS
    Conns = {c1, c2}
    Endpoints = {e1, e2}
    None = none
    DerivedIsHandler = FALSE
    MaxCalls = 1
    MaxGets = 1
SPECIFICATION Spec
INVARIANTS TypeOK Accounted KeepsAccepting
PROPERTIES DestroyedForCause CallbackOrder LostIsReaped StopReturns
