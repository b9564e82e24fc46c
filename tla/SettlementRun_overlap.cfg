\* Three overlapping runs over overlapping periods while entries are posted.
CONSTANTS
    e1 = e1
    e2 = e2
    e3 = e3
    r1 = r1
    r2 = r2
    r3 = r3
    Entries <- AllEntries
    Runs <- ThreeRuns
    Periods <- DayPeriods
    Amount <- AmountOfThree
SPECIFICATION SettlementSpec
INVARIANTS NothingLeftBehind EarlierRunsKeepTheirs
\* Every run ends.
CHECK_DEADLOCK FALSE
