\* Three callers, two faults: crashes, rejected Redis commands, lock expiry.
CONSTANTS
    c1 = c1
    c2 = c2
    c3 = c3
    Callers <- ThreeCallers
    None = None
    MaxFaults = 2
SPECIFICATION FairSpec
PROPERTIES EveryCallEnds GuardAsPromised
\* Every call ends.
CHECK_DEADLOCK FALSE
