CONSTANTS
    MaxReceives = 1
    MaxDatagrams = 1
SPECIFICATION Spec
INVARIANT ReportsMessage
