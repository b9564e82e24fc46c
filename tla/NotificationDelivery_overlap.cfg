\* Two events for one endpoint, two workers, a client retry per delivery and a fault.
CONSTANTS
    e1 = e1
    e2 = e2
    w1 = w1
    w2 = w2
    None = None
    NumEvents = 2
    Endpoints <- OneEndpoint
    Workers <- TwoWorkers
    MaxAttempts = 2
    Tries = 1
    LeasesHold = TRUE
    MaxRequeues = 1
    MaxFaults = 1
SPECIFICATION DeliveryFairSpec
INVARIANTS SharedOnlyIfRequeued ReceivedAsAgreed
PROPERTIES DeliveredIsFinal EveryDeliveryEnds
\* Every delivery ends.
CHECK_DEADLOCK FALSE
