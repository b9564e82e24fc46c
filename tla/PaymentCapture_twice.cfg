\* Two captures of one intent.
CONSTANTS
    n1 = n1
    n2 = n2
    c1 = c1
    c2 = c2
    c3 = c3
    v1 = v1
    Creates <- OneCreate
    Captures <- TwoCaptures
    Voids <- OneVoid
    Tries = 1
SPECIFICATION Spec
INVARIANT ChargedOnce
\* Every request ends.
CHECK_DEADLOCK FALSE
