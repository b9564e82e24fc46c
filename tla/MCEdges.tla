------------------------------ MODULE MCEdges ------------------------------
\* The parts around the core, which do not interact with each other, in one run:
\* each behaviour is one of one part, the others stay as they began.
EXTENDS Gateway, ServiceShutdown, OrderReads, PagedReads, Pricing

CONSTANTS r1, k1, k2, c1, c2, job, o1, t1, w1, i1, i2, i3

VARIABLE part

MCRequests == {r1}
MCKeys == {k1, k2}
MCConfigured == {k1}

MCConnections == {c1, c2}

MCReaders == {o1}
MCTicks == {t1}

\* exportList does nothing that lowStockList does not, or rateList that warehouseList does not.
MCLists == AllLists \ {exportList, rateList}
MCClients == {w1}
MCIds == {i1, i2, i3}

Rule(type, value, priority, created, id) ==
    [type |-> type, value |-> value, priority |-> priority, created |-> created, id |-> id]

MCBasePrices == {0, 1, 2, 15, 100}
MCRuleSets ==
    {{}, {Rule("percent_off", 3333, 1, 1, 1)}, {Rule("fixed_off", 2, 1, 1, 1)},
     {Rule("override", 7, 1, 1, 1), Rule("percent_off", 10000, 2, 1, 2)},
     {Rule("fixed_off", 1, 1, 2, 1), Rule("override", 3, 1, 1, 2)}}
MCRates == {<<1, 2>>, <<3, 2>>, <<15, 8>>, <<1, 100>>}
MCQuantities == {1, 3, 8}

Parts == {"gateway", "shutdown", "order", "pages", "pricing"}

\* What is chosen at the beginning is chosen for the part that runs.
Init ==
    /\ part \in Parts
    /\ GatewayInit
    /\ ShutdownInit
    /\ OrderReadsInit
    /\ PagedReadsInit
    /\ PricingInit
    /\ part # "gateway" => \A r \in Requests : req[r].key = k1
    /\ part # "shutdown" => service = gateway
    /\ part # "pages" => list = orderList /\ unused = {}
    /\ part # "pricing" =>
           /\ quote.base = 1 /\ quote.rules = {} /\ quote.tier = "gold"
           /\ ~quote.foreign /\ quote.rate = <<1, 1>> /\ quote.qty = 1

Next ==
    /\ IF part = "gateway" THEN GatewayNext ELSE UNCHANGED gatewayVars
    /\ IF part = "shutdown" THEN ShutdownNext ELSE UNCHANGED shutdownVars
    /\ IF part = "order" THEN OrderReadsNext ELSE UNCHANGED orderReadsVars
    /\ IF part = "pages" THEN PagedReadsNext ELSE UNCHANGED pagedReadsVars
    /\ IF part = "pricing" THEN PricingNext ELSE UNCHANGED pricingVars
    /\ UNCHANGED part

Spec ==
    /\ Init
    /\ [][Next]_<<part, gatewayVars, shutdownVars, orderReadsVars, pagedReadsVars, pricingVars>>
    /\ GatewayFairness
    /\ ShutdownFairness
=============================================================================
