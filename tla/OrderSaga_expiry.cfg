\* Two orders sharing the expiry tick, the stock rows and crashes.
SPECIFICATION FairSpec
CONSTANTS
    o1 = o1
    o2 = o2
    Orders <- TwoOrders
    Tracked = {}
    Faults = {"crash", "stock", "tick"}
PROPERTIES
    StockNotHeldForever
CHECK_DEADLOCK FALSE
