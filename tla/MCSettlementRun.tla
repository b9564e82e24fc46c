--------------------------- MODULE MCSettlementRun ---------------------------
(* Model values for the runs of SettlementRun: three entries on two days,  *)
(* the periods of either day and of both.                                  *)
EXTENDS SettlementRun, TLC

CONSTANTS e1, e2, e3, r1, r2, r3

AllEntries == {e1, e2, e3}
TwoEntries == {e1, e2}
TwoRuns == {r1, r2}
ThreeRuns == {r1, r2, r3}
DayPeriods == {{e1, e2}, {e1, e2, e3}}
OnePeriod == {{e1, e2}}
AmountOfThree == e1 :> 5 @@ e2 :> -2 @@ e3 :> 7
AmountOfTwo == e1 :> 5 @@ e2 :> -2
=============================================================================
