\* One price, one request and one writer at a time, over two times to live.
CONSTANTS
    p1 = p1
    r1 = r1
    w1 = w1
    None = None
    Product = Product
    Keys <- OneKey
    Requests <- OneRequest
    Writers <- OneWriter
    Ttl = 2
    MaxRequest = 1
    PaymentsBack = 2
    MaxVersion = 1
    Horizon = 7
SPECIFICATION Spec
INVARIANTS QuotesAreRecent ZeroPricesEnd AnsweredWriteEvicts
\* The clock ends at the horizon.
CHECK_DEADLOCK FALSE
