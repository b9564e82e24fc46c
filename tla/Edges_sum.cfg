SPECIFICATION Spec
CONSTANTS
    r1 = r1
    k1 = k1
    k2 = k2
    c1 = c1
    c2 = c2
    job = job
    o1 = o1
    t1 = t1
    w1 = w1
    i1 = i1
    i2 = i2
    i3 = i3
    Requests <- MCRequests
    Keys <- MCKeys
    Configured <- MCConfigured
    Limit = 2
    Window = 3
    Retries = 2
    MaxRestarts = 1
    Services <- AllServices
    Connections <- MCConnections
    Job = job
    MaxStatements = 2
    MaxLate = 1
    Readers <- MCReaders
    Ticks <- MCTicks
    OrderTtl = 2
    TimelineTtl = 1
    MaxRequest = 1
    Ordered = 1
    MaxReturns = 1
    Lists <- MCLists
    Clients <- MCClients
    Ids <- MCIds
    PageSize = 2
    PageTtl = 2
    MaxPageRead = 1
    BasePrices <- MCBasePrices
    RuleSets <- MCRuleSets
    Rates <- MCRates
    Quantities <- MCQuantities
INVARIANTS
    PassedPerWindow
    ExecutedAsAnswered
    StopsInOrder
    TimelineAgrees
    AnswersAreRecent
    OutdatedIsExplained
    MissesAreExplained
    RefundNearCharge
PROPERTIES
    LimitReopens
    ShutdownCompletes
CHECK_DEADLOCK FALSE
