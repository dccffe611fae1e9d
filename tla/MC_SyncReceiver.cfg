CONSTANTS
    MaxReceives = 4
    MaxDatagrams = 3
SPECIFICATION Spec
INVARIANTS TypeOK WakeUpPending CleanReceive
PROPERTIES ReceiveReturns InterruptReturns
