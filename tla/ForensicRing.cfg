SPECIFICATION Spec
CONSTANTS
    Slots = 2
    Sources = {"etw", "fim"}
    MaxEvents = 4
    MaxRequests = 2
INVARIANTS
    ChainAlwaysVerifies
PROPERTY SearchIsExact
CHECK_DEADLOCK FALSE
