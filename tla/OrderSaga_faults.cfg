SPECIFICATION Spec
CONSTANTS
    o1 = o1
    o2 = o2
    Orders <- OneOrder
    Tracked <- OneOrder
    Faults = {"timeout", "db", "crash", "stock", "client", "internal", "tick"}
INVARIANTS
    SoldIsCommittedAndCharged
    FailedLeavesNothingOpen
PROPERTIES
    SoldMovesForward
    EndsDecided
    ReservationAsPromised
CHECK_DEADLOCK FALSE
