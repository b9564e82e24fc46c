SPECIFICATION Spec
CONSTANTS
    r1 = r1
    r2 = r2
    r3 = r3
    s1 = s1
    s2 = s2
    s3 = s3
    NumProducts = 2
    NumWarehouses = 1
    Reservations <- ThreeReservations
    Wanted <- PairWanted
    InitialStock <- PairStock
    Sessions <- ThreeSessions
    Operations = {"create", "commit", "release", "count"}
    MaxQty = 2
    MaxOnHand = 2
SYMMETRY Symmetry
INVARIANTS
    NeverOversold
    SettlersNeverDeadlock
CHECK_DEADLOCK FALSE
