SPECIFICATION Spec
CONSTANTS
    r1 = r1
    r2 = r2
    r3 = r3
    s1 = s1
    s2 = s2
    s3 = s3
    NumProducts = 1
    NumWarehouses = 2
    Reservations <- TwoReservations
    Wanted <- SplitWanted
    InitialStock <- EvenStock
    Sessions <- TwoSessions
    Operations = {"create", "commit", "release", "adjust", "transfer"}
    MaxQty = 1
    MaxOnHand = 2
SYMMETRY SessionSymmetry
INVARIANTS
    StockNonNegative
    ReservedInFull
PROPERTIES
    OnlyCommitsDrift
    ReservationAsPromised
CHECK_DEADLOCK FALSE
