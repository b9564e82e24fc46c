\* Two captures and a void overlap; posts are retried, lost and late.  Every
\* request is answered.
CONSTANTS
    n1 = n1
    n2 = n2
    c1 = c1
    c2 = c2
    c3 = c3
    v1 = v1
    Creates <- OneCreate
    Captures <- TwoCaptures
    Voids <- OneVoid
    Tries = 2
SPECIFICATION FairSpec
INVARIANTS LedgerBacked BookedBeforeAnswer NoChargeAfterAnswer
PROPERTIES EveryRequestEnds
\* Every request ends.
CHECK_DEADLOCK FALSE
