------------------------ MODULE ReturnApprovalProofs ------------------------
(***************************************************************************)
(* Theorems about ReturnApproval: its type invariant, that a refunded      *)
(* return was restocked and its refund booked, that a rejected one moved   *)
(* nothing, and how often goods may come back.  They rest on ReturnInv,    *)
(* what the stage of an approval says of the row, because the guard lets   *)
(* one approval run at a time, and on CountInv, which accounts for every   *)
(* adjustment by the row, that approval or a slip.                         *)
(***************************************************************************)
EXTENDS ReturnApproval, TLAPS

-----------------------------------------------------------------------------
(* Types *)

\* What the guard does to its own variables.
LEMMA GuardTypes ==
    ASSUME TypeOK, NEW a \in Approvals,
           \/ Guard!Call(a) \/ Guard!Run(a) \/ Guard!Replay(a) \/ Guard!Keep(a)
           \/ Guard!Return(a) \/ Guard!Fail(a)
    PROVE  /\ phase' \in [Approvals -> {"idle", "called", "running", "answered", "failed"}]
           /\ late' \in [Approvals -> BOOLEAN]
           /\ kept' \in BOOLEAN
  BY DEF TypeOK, Guard!Call, Guard!Run, Guard!Replay, Guard!Keep, Guard!Return, Guard!Fail,
         Guard!Becomes

LEMMA OnwardStage == \A s \in Row : Onward(s) \in Working
  BY DEF Onward, Working, Row, Statuses

LEMMA Init_TypeOK == Init => TypeOK
<1> SUFFICES ASSUME Init
             PROVE  TypeOK
  OBVIOUS
<1>1. [status |-> "requested", restored |-> FALSE, recorded |-> FALSE] \in Row
  BY DEF Row, Statuses
<1>2. snap \in [Approvals -> Row]
  BY <1>1 DEF Init
<1>3. /\ phase \in [Approvals -> {"idle", "called", "running", "answered", "failed"}]
      /\ late \in [Approvals -> BOOLEAN] /\ kept \in BOOLEAN
  BY DEF Init, Guard!GuardInit
<1>4. at \in [Requests -> Stages]
  BY DEF Init, Stages
<1>5. /\ restocked \in [1 .. Lines -> Nat] /\ onTheWay \in [1 .. Lines -> Nat]
      /\ line \in [Approvals -> 1 .. Lines] /\ try \in [Approvals -> 1 .. Tries]
      /\ faults \in 0 .. MaxFaults /\ slips \in 0 .. faults
  BY SizesAssumption DEF Init
<1>6. /\ status \in Statuses \cup {"absent"} /\ refunds \in {0, 1}
      /\ restored \in BOOLEAN /\ recorded \in BOOLEAN /\ lateRefund \in BOOLEAN
  BY Zenon DEF Init
<1> QED
  BY <1>2, <1>3, <1>4, <1>5, <1>6, Zenon DEF TypeOK

\* The variables of the row, of stock and money, of the requests, and the counters.
RowOK ==
    status \in Statuses \cup {"absent"} /\ restored \in BOOLEAN /\ recorded \in BOOLEAN
StockOK == restocked \in [1 .. Lines -> Nat] /\ onTheWay \in [1 .. Lines -> Nat]
MoneyOK == refunds \in {0, 1} /\ lateRefund \in BOOLEAN
GuardOK ==
    /\ phase \in [Approvals -> {"idle", "called", "running", "answered", "failed"}]
    /\ late \in [Approvals -> BOOLEAN]
    /\ kept \in BOOLEAN
PlaceOK == line \in [Approvals -> 1 .. Lines] /\ try \in [Approvals -> 1 .. Tries]
CountOK == faults \in 0 .. MaxFaults /\ slips \in 0 .. faults

LEMMA Parts ==
    TypeOK <=> /\ RowOK /\ StockOK /\ MoneyOK /\ GuardOK /\ PlaceOK /\ CountOK
               /\ at \in [Requests -> Stages] /\ snap \in [Approvals -> Row]
  BY Zenon DEF TypeOK, RowOK, StockOK, MoneyOK, GuardOK, PlaceOK, CountOK

LEMMA PartsNext ==
    TypeOK' <=> /\ RowOK' /\ StockOK' /\ MoneyOK' /\ GuardOK' /\ PlaceOK' /\ CountOK'
                /\ at' \in [Requests -> Stages] /\ snap' \in [Approvals -> Row]
  BY Zenon DEF TypeOK, RowOK, StockOK, MoneyOK, GuardOK, PlaceOK, CountOK

LEMMA FaultCounts ==
    ASSUME CountOK, Fault, slips' = slips \/ slips' = slips + 1
    PROVE  CountOK'
  BY SizesAssumption DEF CountOK, Fault

\* A statement that ends leaves its approval at a stage, with a row.
LEMMA SnapOK ==
    ASSUME NEW a \in Approvals, snap \in [Approvals -> Row], RowOK', status' # "absent",
           TakeSnap(a)
    PROVE  snap' \in [Approvals -> Row] /\ snap'[a] \in Row
           /\ snap'[a] = [status |-> status', restored |-> restored', recorded |-> recorded']
<1>1. [status |-> status', restored |-> restored', recorded |-> recorded'] \in Row
  BY Zenon DEF RowOK, Row
<1> QED
  BY <1>1 DEF TakeSnap

LEMMA UpdateOK ==
    ASSUME NEW a \in Approvals, NEW ready \in BOOLEAN, TypeOK, RowOK', status' # "absent",
           Update(a, ready)
    PROVE  GuardOK' /\ at' \in [Requests -> Stages] /\ snap' \in [Approvals -> Row]
<1>0. a \in Requests /\ Working \subseteq Stages /\ "ended" \in Stages
  BY DEF Requests, Stages
<1>1. CASE ready
  <2>1. snap' \in [Approvals -> Row] /\ snap'[a] \in Row
    BY <1>1, SnapOK DEF Update, TypeOK
  <2>2. Onward(snap'[a]) \in Stages
    BY <2>1, OnwardStage, <1>0
  <2>3. UNCHANGED guard /\ at' = [at EXCEPT ![a] = Onward(snap'[a])]
    BY <1>1 DEF Update, Goto
  <2> QED
    BY <2>1, <2>2, <2>3, <1>0 DEF TypeOK, GuardOK, guard
<1>2. CASE ~ready
  <2>1. Guard!Fail(a) /\ at' = [at EXCEPT ![a] = "ended"] /\ snap' = snap
    BY <1>2 DEF Update, Refuse, Goto
  <2> QED
    BY <2>1, <1>0, GuardTypes DEF TypeOK, GuardOK
<1> QED
  BY <1>1, <1>2

LEMMA RefuseOK ==
    ASSUME NEW a \in Approvals, TypeOK, Refuse(a)
    PROVE  GuardOK' /\ at' \in [Requests -> Stages]
<1>1. a \in Requests /\ "ended" \in Stages
  BY DEF Requests, Stages
<1> QED
  BY <1>1, GuardTypes DEF Refuse, Goto, TypeOK, GuardOK

\* No request is under way before the return exists.
Created ==
    status = "absent" =>
        /\ \A r \in Requests : at[r] = "idle"
        /\ \A a \in Approvals : phase[a] = "idle"

LEMMA Next_TypeOK ==
    ASSUME TypeOK, Created, [Next]_vars
    PROVE  TypeOK'
<1> USE Parts
<1>0. \A a \in Approvals : a \in Requests
  BY DEF Requests
<1>1. CASE UNCHANGED vars
  BY <1>1 DEF vars, row, stock, money, guard, count, TypeOK
<1>2. CASE Create
  BY <1>2 DEF Create, stock, money, guard, count, TypeOK, Statuses
<1>3. ASSUME NEW r \in Requests, Arrive(r)
      PROVE  TypeOK'
  <2>1. CASE r \in Approvals /\ Guard!Call(r) /\ Goto(r, "call")
    <3>1. GuardOK'
      BY <2>1, GuardTypes DEF GuardOK
    <3>2. at' \in [Requests -> Stages]
      BY <2>1 DEF Goto, Stages, TypeOK
    <3> QED
      BY <1>3, <3>1, <3>2, PartsNext
         DEF Arrive, row, stock, money, count, RowOK, StockOK, MoneyOK, PlaceOK, CountOK
  <2>2. CASE Goto(r, "find") /\ UNCHANGED guard
    <3>1. at' \in [Requests -> Stages]
      BY <2>2 DEF Goto, Stages, Working, TypeOK
    <3> QED
      BY <1>3, <2>2, <3>1, PartsNext
         DEF Arrive, row, stock, money, guard, count, RowOK, StockOK, MoneyOK, GuardOK, PlaceOK, CountOK
  <2> QED
    BY <1>3, <2>1, <2>2 DEF Arrive
<1>4. ASSUME NEW a \in Approvals, ApprovalStep(a)
      PROVE  TypeOK'
  <2>1. CASE \/ Run(a) \/ Replay(a) \/ GiveUp(a) \/ KeepResult(a) \/ Answer(a)
    <3>1. GuardOK'
      BY <2>1, GuardTypes DEF GuardOK, Run, Replay, GiveUp, Refuse, KeepResult, Answer
    <3>2. at' \in [Requests -> Stages]
      BY <1>0, <2>1 DEF Run, Replay, GiveUp, Refuse, KeepResult, Answer, Goto, Stages, Working, TypeOK
    <3>3. UNCHANGED <<row, stock, money, snap, line, try, count>>
      BY <2>1 DEF Run, Replay, GiveUp, KeepResult, Answer
    <3> QED
      BY <3>1, <3>2, <3>3, PartsNext
         DEF row, stock, money, count, RowOK, StockOK, MoneyOK, PlaceOK, CountOK
  <2>2. CASE Find(a)
    <3>1. RowOK' /\ StockOK' /\ MoneyOK' /\ PlaceOK' /\ CountOK'
      BY <2>2 DEF Find, row, stock, money, count, RowOK, StockOK, MoneyOK, PlaceOK, CountOK
    <3>2. status # "absent" => GuardOK' /\ at' \in [Requests -> Stages] /\ snap' \in [Approvals -> Row]
      <4> SUFFICES ASSUME status # "absent"
                   PROVE  GuardOK' /\ at' \in [Requests -> Stages] /\ snap' \in [Approvals -> Row]
        OBVIOUS
      <4>1. snap' \in [Approvals -> Row] /\ snap'[a] \in Row
        BY <2>2, <3>1, SnapOK DEF Find, row
      <4>2. CASE status = "rejected"
        BY <2>2, <4>1, <4>2, RefuseOK DEF Find
      <4>3. CASE status # "rejected"
        <5>1. Onward(snap'[a]) \in Stages
          BY <4>1, OnwardStage DEF Stages
        <5> QED
          BY <1>0, <2>2, <4>1, <4>3, <5>1 DEF Find, Goto, guard, GuardOK, TypeOK
      <4> QED
        BY <4>2, <4>3
    <3>3. status # "absent"
      BY <1>0, <2>2 DEF Find, Created
    <3> QED
      BY <3>1, <3>2, <3>3, PartsNext
  <2>3. CASE MarkApproved(a)
    <3>1. RowOK' /\ StockOK' /\ MoneyOK' /\ PlaceOK' /\ CountOK'
      BY <2>3 DEF MarkApproved, Statuses, stock, money, count, RowOK, StockOK, MoneyOK, PlaceOK, CountOK
    <3>2. status' # "absent"
      BY <1>0, <2>3 DEF MarkApproved, Created
    <3>3. Update(a, status = "requested")
      BY <2>3 DEF MarkApproved
    <3> QED
      BY <3>1, <3>2, <3>3, UpdateOK, PartsNext
  <2>4. CASE MarkInventoryRestored(a)
    <3>1. RowOK'
      BY <2>4, Zenon DEF MarkInventoryRestored, RowOK
    <3>2. StockOK' /\ MoneyOK' /\ PlaceOK' /\ CountOK'
      BY <2>4 DEF MarkInventoryRestored, stock, money, count, StockOK, MoneyOK, PlaceOK, CountOK
    <3>3. status' # "absent"
      BY <1>0, <2>4 DEF MarkInventoryRestored, Created
    <3> DEFINE ready == status = "approved"
    <3>4. Update(a, ready) /\ ready \in BOOLEAN
      BY <2>4, Zenon DEF MarkInventoryRestored
    <3> HIDE DEF ready
    <3>5. GuardOK' /\ at' \in [Requests -> Stages] /\ snap' \in [Approvals -> Row]
      BY <3>1, <3>3, <3>4, UpdateOK
    <3> QED
      BY <3>1, <3>2, <3>5, PartsNext, Zenon
  <2>5. CASE MarkLedgerRecorded(a)
    <3>1. RowOK'
      BY <2>5, Zenon DEF MarkLedgerRecorded, RowOK
    <3>2. StockOK' /\ MoneyOK' /\ PlaceOK' /\ CountOK'
      BY <2>5 DEF MarkLedgerRecorded, stock, money, count, StockOK, MoneyOK, PlaceOK, CountOK
    <3>3. status' # "absent"
      BY <1>0, <2>5 DEF MarkLedgerRecorded, Created
    <3> DEFINE ready == status = "approved"
    <3>4. Update(a, ready) /\ ready \in BOOLEAN
      BY <2>5, Zenon DEF MarkLedgerRecorded
    <3> HIDE DEF ready
    <3>5. GuardOK' /\ at' \in [Requests -> Stages] /\ snap' \in [Approvals -> Row]
      BY <3>1, <3>3, <3>4, UpdateOK
    <3> QED
      BY <3>1, <3>2, <3>5, PartsNext, Zenon
  <2>6. CASE MarkRefunded(a)
    <3> DEFINE ready == status = "approved" /\ restored /\ recorded
    <3>1. /\ status' = IF ready THEN "refunded" ELSE status
          /\ restored' = restored /\ recorded' = recorded
          /\ UNCHANGED <<stock, money, line, try, count>> /\ at[a] = "refunded"
      BY <2>6 DEF MarkRefunded
    <3>2. Update(a, ready) /\ ready \in BOOLEAN
      BY <2>6, Zenon DEF MarkRefunded
    <3> HIDE DEF ready
    <3>3. RowOK'
      <4>1. status' \in Statuses \cup {"absent"}
        BY <3>1 DEF Statuses, RowOK
      <4> QED
        BY <3>1, <4>1, Zenon DEF RowOK
    <3>4. StockOK' /\ MoneyOK' /\ PlaceOK' /\ CountOK'
      BY <3>1 DEF stock, money, count, StockOK, MoneyOK, PlaceOK, CountOK
    <3>5. status' # "absent"
      BY <1>0, <3>1 DEF Created
    <3>6. GuardOK' /\ at' \in [Requests -> Stages] /\ snap' \in [Approvals -> Row]
      BY <3>2, <3>3, <3>5, UpdateOK
    <3> QED
      BY <3>3, <3>4, <3>6, PartsNext, Zenon
  <2>7. CASE Adjust(a)
    <3>1. at' \in [Requests -> Stages]
      BY <1>0, <2>7 DEF Adjust, Goto, Stages, Working, TypeOK
    <3>2. line[a] \in 1 .. Lines /\ restocked[line[a]] \in Nat
      BY DEF TypeOK
    <3>3. StockOK'
      BY <2>7, <3>2 DEF Adjust, StockOK, TypeOK
    <3>4. PlaceOK'
      <4>1. try' \in [Approvals -> 1 .. Tries]
        BY <2>7, SizesAssumption DEF Adjust, TypeOK
      <4>2. line' = [line EXCEPT ![a] = IF line[a] < Lines THEN line[a] + 1 ELSE 1]
        BY <2>7 DEF Adjust
      <4>3. (IF line[a] < Lines THEN line[a] + 1 ELSE 1) \in 1 .. Lines
        BY <3>2, SizesAssumption
      <4>4. line' \in [Approvals -> 1 .. Lines]
        BY <4>2, <4>3 DEF TypeOK
      <4> QED
        BY <4>1, <4>4 DEF PlaceOK
    <3> QED
      BY <2>7, <3>1, <3>3, <3>4, PartsNext
         DEF Adjust, row, money, guard, count, RowOK, MoneyOK, GuardOK, CountOK
  <2>8. CASE AdjustFails(a)
    <3>1. GuardOK' /\ at' \in [Requests -> Stages]
      BY <2>8, RefuseOK DEF AdjustFails, guard, GuardOK, TypeOK
    <3>2. line[a] \in 1 .. Lines /\ onTheWay[line[a]] \in Nat /\ try[a] \in 1 .. Tries
      BY DEF TypeOK
    <3>3. StockOK'
      BY <2>8, <3>2 DEF AdjustFails, StockOK, TypeOK
    <3>4. PlaceOK'
      BY <2>8, <3>2, SizesAssumption DEF AdjustFails, PlaceOK, TypeOK
    <3>5. CountOK'
      BY <2>8, FaultCounts DEF AdjustFails, Slip
    <3> QED
      BY <2>8, <3>1, <3>3, <3>4, <3>5, PartsNext DEF AdjustFails, row, money, RowOK, MoneyOK
  <2>9. CASE PostRefund(a)
    <3>1. at' \in [Requests -> Stages]
      BY <1>0, <2>9 DEF PostRefund, Goto, Stages, Working, TypeOK
    <3> QED
      BY <2>9, <3>1, PartsNext
         DEF PostRefund, row, stock, guard, count, RowOK, StockOK, MoneyOK, GuardOK, PlaceOK, CountOK
  <2>10. CASE PostRefundFails(a)
    <3>1. GuardOK' /\ at' \in [Requests -> Stages]
      BY <2>10, RefuseOK DEF PostRefundFails
    <3>2. CountOK'
      BY <2>10, FaultCounts DEF PostRefundFails
    <3> QED
      BY <2>10, <3>1, <3>2, PartsNext DEF PostRefundFails, row, stock, RowOK, StockOK, MoneyOK, PlaceOK
  <2>11. CASE Die(a)
    <3>1. GuardOK' /\ at' \in [Requests -> Stages]
      BY <2>11, RefuseOK DEF Die
    <3>2. CountOK'
      BY <2>11, FaultCounts DEF Die, Slip
    <3> QED
      BY <2>11, <3>1, <3>2, PartsNext DEF Die, row, stock, money, RowOK, StockOK, MoneyOK, PlaceOK
  <2> QED
    BY <1>4, <2>1, <2>2, <2>3, <2>4, <2>5, <2>6, <2>7, <2>8, <2>9, <2>10, <2>11 DEF ApprovalStep
<1>5. ASSUME NEW r \in Rejections, FindToReject(r) \/ MarkRejected(r)
      PROVE  TypeOK'
  <2>1. r \in Requests
    BY DEF Requests
  <2>2. at' \in [Requests -> Stages]
    BY <1>5, <2>1 DEF FindToReject, MarkRejected, Goto, Stages, TypeOK
  <2> QED
    BY <1>5, <2>2, PartsNext
       DEF FindToReject, MarkRejected, row, stock, money, guard, count, Statuses, RowOK, StockOK,
           MoneyOK, GuardOK, PlaceOK, CountOK
<1>6. ASSUME NEW l \in 1 .. Lines, LateAdjustment(l)
      PROVE  TypeOK'
  <2>1. StockOK'
    BY <1>6 DEF LateAdjustment, StockOK
  <2> QED
    BY <1>6, <2>1, PartsNext
       DEF LateAdjustment, row, money, guard, count, RowOK, MoneyOK, GuardOK, PlaceOK, CountOK
<1>7. CASE LateRefund
  BY <1>7, PartsNext
     DEF LateRefund, row, stock, guard, count, RowOK, StockOK, MoneyOK, GuardOK, PlaceOK, CountOK
<1> QED
  BY <1>1, <1>2, <1>3, <1>4, <1>5, <1>6, <1>7 DEF Next

LEMMA Next_Created ==
    ASSUME TypeOK, Created, [Next]_vars
    PROVE  Created'
<1>0. (\A a \in Approvals : a \in Requests) /\ (\A r \in Rejections : r \in Requests)
  BY DEF Requests
<1>1. CASE status = "absent"
  <2>1. (\A r \in Requests : at[r] = "idle") /\ (\A a \in Approvals : phase[a] = "idle")
    BY <1>1 DEF Created
  <2>2. \A r \in Requests : ~Arrive(r)
    BY <1>1 DEF Arrive
  <2>3. ASSUME NEW a \in Approvals, ApprovalStep(a)
        PROVE  FALSE
    <3>1. at[a] = "idle" /\ phase[a] = "idle"
      BY <2>1, <1>0
    <3> QED
      BY <2>3, <3>1
         DEF ApprovalStep, Run, Replay, GiveUp, Find, MarkApproved, Adjust, AdjustFails,
             MarkInventoryRestored, PostRefund, PostRefundFails, MarkLedgerRecorded,
             MarkRefunded, KeepResult, Answer, Die
  <2>4. \A r \in Rejections : ~(FindToReject(r) \/ MarkRejected(r))
    BY <2>1, <1>0 DEF FindToReject, MarkRejected
  <2>5. CASE Create
    BY <2>5 DEF Create, Created
  <2>6. ASSUME UNCHANGED <<at, guard>> PROVE Created'
    BY <2>1, <2>6 DEF Created, guard
  <2> QED
    BY <2>2, <2>3, <2>4, <2>5, <2>6 DEF Next, LateAdjustment, LateRefund, vars
<1>2. CASE status # "absent"
  <2>1. ASSUME NEW a \in Approvals, ApprovalStep(a)
        PROVE  status' # "absent"
    BY <1>2, <2>1
       DEF ApprovalStep, Run, Replay, GiveUp, Find, MarkApproved, Adjust, AdjustFails,
           MarkInventoryRestored, PostRefund, PostRefundFails, MarkLedgerRecorded,
           MarkRefunded, KeepResult, Answer, Die, row
  <2>2. status' # "absent"
    BY <1>2, <2>1
       DEF Next, Create, Arrive, FindToReject, MarkRejected, LateAdjustment, LateRefund, vars, row
  <2> QED
    BY <2>2 DEF Created
<1> QED
  BY <1>1, <1>2

LEMMA Typing == Spec => [](TypeOK /\ Created)
<1>1. Init => TypeOK /\ Created
  BY Init_TypeOK DEF Init, Created, Guard!GuardInit
<1>2. TypeOK /\ Created /\ [Next]_vars => TypeOK' /\ Created'
  BY Next_TypeOK, Next_Created
<1> QED
  BY <1>1, <1>2, PTL DEF Spec

(* ReturnApproval, TypeOK: every variable keeps its type, whatever the     *)
(* requests, tries and faults do to the row, stock, ledger and guard.      *)
THEOREM TypeCorrect == Spec => []TypeOK
  BY Typing, PTL

-----------------------------------------------------------------------------
(* The inductive invariant *)

(* An approval runs under the guard exactly at its working stages, and one *)
(* at a time.                                                              *)
StagesMatch ==
    /\ \A a \in Approvals : at[a] \in Working <=> phase[a] = "running"
    /\ \A a \in Approvals : at[a] = "call" <=> phase[a] = "called"
    /\ \A a, b \in Approvals : phase[a] = "running" /\ phase[b] = "running" => a = b

(* Until it is approved, nothing was done about a return. *)
Untouched ==
    /\ refunds = 0 /\ ~lateRefund /\ ~restored /\ ~recorded
    /\ \A l \in 1 .. Lines : restocked[l] = 0 /\ onTheWay[l] = 0

UntilApproved == status \in {"absent", "requested", "rejected"} => Untouched

AllBack == \A l \in 1 .. Lines : restocked[l] >= 1

(* What the row says of the stock and the ledger. *)
RowSays ==
    /\ restored => AllBack
    /\ recorded => refunds = 1
    /\ status = "refunded" => restored /\ recorded

(* What the stage of an approval says of the row, the stock and the ledger. *)
AtStage(a) ==
    /\ at[a] \in {"adjust", "restored"} => status = "approved" /\ ~restored
    /\ at[a] \in {"refund", "recorded"} => status = "approved" /\ restored
    /\ at[a] = "refunded" => status = "approved" /\ restored /\ recorded
    /\ at[a] = "recorded" => refunds = 1
    /\ at[a] \notin {"adjust", "ended"} => line[a] = 1
    /\ at[a] = "adjust" => \A l \in 1 .. Lines : l < line[a] => restocked[l] >= 1
    /\ at[a] = "restored" => AllBack

ReturnInv ==
    TypeOK /\ Created /\ StagesMatch /\ UntilApproved /\ RowSays /\ \A a \in Approvals : AtStage(a)

LEMMA Init_ReturnInv == Init => ReturnInv
<1> SUFFICES ASSUME Init
             PROVE  ReturnInv
  OBVIOUS
<1>0. \A a \in Approvals : at[a] = "idle" /\ phase[a] = "idle" /\ line[a] = 1
  BY DEF Init, Guard!GuardInit, Requests
<1>1. TypeOK /\ Created
  BY Init_TypeOK DEF Init, Created, Guard!GuardInit
<1>2. StagesMatch
  BY <1>0 DEF StagesMatch, Working
<1>3. \A l \in 1 .. Lines : restocked[l] = 0 /\ onTheWay[l] = 0
  BY DEF Init
<1>4. UntilApproved /\ RowSays
  BY <1>3, Zenon DEF Init, UntilApproved, Untouched, RowSays
<1>5. \A a \in Approvals : AtStage(a)
  BY <1>0 DEF AtStage
<1> QED
  BY <1>1, <1>2, <1>4, <1>5 DEF ReturnInv

\* While one approval works, no other one does.
LEMMA Alone ==
    ASSUME StagesMatch, NEW a \in Approvals, at[a] \in Working,
           NEW b \in Approvals, b # a
    PROVE  at[b] \notin Working
  BY DEF StagesMatch

LEMMA Refused ==
    ASSUME TypeOK, StagesMatch, NEW a \in Approvals, Refuse(a)
    PROVE  StagesMatch' /\ at' = [at EXCEPT ![a] = "ended"]
<1>1. a \in Requests /\ at' = [at EXCEPT ![a] = "ended"]
  BY DEF Refuse, Goto, Requests
<1>2. phase' = [phase EXCEPT ![a] = "failed"]
  BY DEF Refuse, Guard!Fail, Guard!Becomes
<1> QED
  BY <1>1, <1>2 DEF StagesMatch, TypeOK, Working, Requests

\* From one working stage to another.
LEMMA Moved ==
    ASSUME TypeOK, StagesMatch, NEW a \in Approvals, at[a] \in Working,
           NEW s \in Working, Goto(a, s), phase' = phase
    PROVE  StagesMatch' /\ at' = [at EXCEPT ![a] = s]
  BY DEF StagesMatch, TypeOK, Working, Goto, Requests

LEMMA Next_StagesMatch ==
    ASSUME TypeOK, Created, StagesMatch, [Next]_vars
    PROVE  StagesMatch'
<1>0. \A a \in Approvals : a \in Requests
  BY DEF Requests
<1>1. ASSUME UNCHANGED <<at, guard>> PROVE StagesMatch'
  BY <1>1 DEF StagesMatch, guard
<1>2. ASSUME NEW r \in Requests, Arrive(r)
      PROVE  StagesMatch'
  <2>1. CASE r \in Approvals
    <3>1. phase' = [phase EXCEPT ![r] = "called"] /\ at' = [at EXCEPT ![r] = "call"]
      BY <1>2, <2>1, RequestsAssumption DEF Arrive, Guard!Call, Guard!Becomes, Goto
    <3> QED
      BY <2>1, <3>1, <1>0 DEF StagesMatch, TypeOK, Working
  <2>2. CASE r \notin Approvals
    <3>1. guard' = guard /\ \A a \in Approvals : at'[a] = at[a]
      BY <1>2, <2>2, <1>0 DEF Arrive, Goto, TypeOK
    <3> QED
      BY <3>1 DEF StagesMatch, guard
  <2> QED
    BY <2>1, <2>2
<1>3. ASSUME NEW a \in Approvals, ApprovalStep(a)
      PROVE  StagesMatch'
  <2>1. CASE Run(a)
    <3>1. /\ phase' = [phase EXCEPT ![a] = "running"] /\ at' = [at EXCEPT ![a] = "find"]
          /\ \A b \in Approvals : phase[b] # "running"
      BY <2>1 DEF Run, Guard!Run, Guard!Becomes, Goto
    <3> QED
      BY <3>1, <1>0 DEF StagesMatch, TypeOK, Working
  <2>2. CASE Replay(a) \/ Answer(a)
    <3>1. phase' = [phase EXCEPT ![a] = "answered"] /\ at' = [at EXCEPT ![a] = "ended"]
      BY <2>2 DEF Replay, Guard!Replay, Answer, Guard!Return, Guard!Becomes, Goto
    <3> QED
      BY <3>1, <1>0 DEF StagesMatch, TypeOK, Working
  <2>3. CASE Refuse(a)
    BY <2>3, Refused
  <2>4. CASE Find(a)
    <3>1. CASE status = "rejected"
      BY <2>4, <3>1, Refused DEF Find
    <3>2. CASE status # "rejected"
      <4>1. RowOK' /\ status' # "absent" /\ snap \in [Approvals -> Row] /\ TakeSnap(a)
        BY <2>4, <1>0, Zenon DEF Find, row, RowOK, TypeOK, Created
      <4>2. Onward(snap'[a]) \in Working
        BY <4>1, SnapOK, OnwardStage
      <4> QED
        BY <2>4, <3>2, <4>2, Moved DEF Find, guard, Working
    <3> QED
      BY <3>1, <3>2
  <2>5. ASSUME NEW ready \in BOOLEAN, Update(a, ready), at[a] \in Working, status' # "absent"
        PROVE  StagesMatch'
    <3>1. CASE ready
      <4>1. RowOK' /\ snap \in [Approvals -> Row] /\ TakeSnap(a)
        BY <2>5, <3>1, Next_TypeOK, PartsNext, Zenon DEF Update, TypeOK
      <4>2. Onward(snap'[a]) \in Working
        BY <2>5, <4>1, SnapOK, OnwardStage
      <4>3. Goto(a, Onward(snap'[a])) /\ phase' = phase
        BY <2>5, <3>1 DEF Update, guard
      <4> QED
        BY <2>5, <4>2, <4>3, Moved
    <3>2. CASE ~ready
      BY <2>5, <3>2, Refused DEF Update
    <3> QED
      BY <2>5, <3>1, <3>2
  <2>6. CASE MarkApproved(a)
    <3>1. (status = "requested") \in BOOLEAN /\ Update(a, status = "requested") /\ at[a] = "approve"
      BY <2>6, Zenon DEF MarkApproved
    <3>2. status' # "absent" /\ at[a] \in Working
      BY <2>6, <1>0, <3>1 DEF MarkApproved, Created, Working
    <3> DEFINE ready == status = "requested"
    <3> HIDE DEF ready
    <3>3. ready \in BOOLEAN /\ Update(a, ready)
      BY <3>1, Zenon DEF ready
    <3> QED
      BY <2>5, <3>2, <3>3
  <2>7. CASE MarkInventoryRestored(a) \/ MarkLedgerRecorded(a)
    <3>1. /\ (status = "approved") \in BOOLEAN /\ Update(a, status = "approved")
          /\ at[a] \in {"restored", "recorded"} /\ status' = status
      BY <2>7, Zenon DEF MarkInventoryRestored, MarkLedgerRecorded
    <3>2. status' # "absent" /\ at[a] \in Working
      BY <1>0, <3>1 DEF Created, Working
    <3> DEFINE ready == status = "approved"
    <3> HIDE DEF ready
    <3>3. ready \in BOOLEAN /\ Update(a, ready)
      BY <3>1, Zenon DEF ready
    <3> QED
      BY <2>5, <3>2, <3>3
  <2>8. CASE MarkRefunded(a)
    <3> DEFINE ready == status = "approved" /\ restored /\ recorded
    <3>1. ready \in BOOLEAN /\ Update(a, ready)
      BY <2>8, Zenon DEF MarkRefunded
    <3>2. at[a] = "refunded" /\ status' \in {"refunded", status}
      BY <2>8 DEF MarkRefunded
    <3> HIDE DEF ready
    <3>3. status' # "absent" /\ at[a] \in Working
      BY <1>0, <3>2 DEF Created, Working
    <3> QED
      BY <2>5, <3>1, <3>3
  <2>9. CASE Adjust(a)
    <3>1. UNCHANGED <<at, guard>> \/ (Goto(a, "restored") /\ phase' = phase)
      BY <2>9 DEF Adjust, guard
    <3>2. at[a] \in Working /\ "restored" \in Working
      BY <2>9 DEF Adjust, Working
    <3> QED
      BY <1>1, <3>1, <3>2, Moved
  <2>10. CASE AdjustFails(a)
    BY <2>10, <1>1, <2>3 DEF AdjustFails
  <2>11. CASE PostRefund(a) \/ KeepResult(a)
    <3>1. (Goto(a, "recorded") \/ Goto(a, "return")) /\ phase' = phase /\ at[a] \in Working
      BY <2>11 DEF PostRefund, KeepResult, Guard!Keep, guard, Working
    <3>2. "recorded" \in Working /\ "return" \in Working
      BY DEF Working
    <3> QED
      BY <3>1, <3>2, Moved
  <2>12. CASE GiveUp(a) \/ PostRefundFails(a) \/ Die(a)
    BY <2>12, <2>3 DEF GiveUp, PostRefundFails, Die
  <2> QED
    BY <1>3, <2>1, <2>2, <2>4, <2>6, <2>7, <2>8, <2>9, <2>10, <2>11, <2>12 DEF ApprovalStep
<1>4. ASSUME NEW r \in Rejections, FindToReject(r) \/ MarkRejected(r)
      PROVE  StagesMatch'
  <2>1. guard' = guard /\ \A a \in Approvals : at'[a] = at[a]
    BY <1>4, <1>0, RequestsAssumption DEF FindToReject, MarkRejected, Goto, TypeOK
  <2> QED
    BY <2>1 DEF StagesMatch, guard
<1> QED
  BY <1>1, <1>2, <1>3, <1>4 DEF Next, Create, LateAdjustment, LateRefund, vars, guard

-----------------------------------------------------------------------------
(* What no step undoes *)

\* Stock put back stays back, and a booked refund stays booked.
LEMMA Lasts ==
    ASSUME TypeOK, [Next]_vars
    PROVE  /\ \A l \in 1 .. Lines : restocked'[l] >= restocked[l]
           /\ refunds = 1 => refunds' = 1
<1>0. \A l \in 1 .. Lines : restocked[l] \in Nat
  BY DEF TypeOK
<1>1. CASE UNCHANGED <<restocked, refunds>>
  BY <1>0, <1>1
<1>2. ASSUME NEW a \in Approvals, Adjust(a)
      PROVE  refunds' = refunds /\ \A l \in 1 .. Lines : restocked'[l] >= restocked[l]
  <2>1. /\ refunds' = refunds
        /\ restocked' = [restocked EXCEPT ![line[a]] = restocked[line[a]] + 1]
    BY <1>2 DEF Adjust, money
  <2>2. line[a] \in 1 .. Lines
    BY DEF TypeOK
  <2> QED
    BY <2>1, <2>2, <1>0 DEF TypeOK
<1>3. ASSUME NEW a \in Approvals, PostRefund(a)
      PROVE  refunds' = 1 /\ restocked' = restocked
  BY <1>3 DEF PostRefund, stock
<1>4. ASSUME NEW k \in 1 .. Lines, LateAdjustment(k)
      PROVE  refunds' = refunds /\ \A l \in 1 .. Lines : restocked'[l] >= restocked[l]
  BY <1>4, <1>0 DEF LateAdjustment, money, TypeOK
<1>5. CASE LateRefund
  BY <1>5, <1>0 DEF LateRefund, stock
<1>6. ASSUME NEW a \in Approvals, ApprovalStep(a), ~Adjust(a), ~PostRefund(a)
      PROVE  UNCHANGED <<restocked, refunds>>
  BY <1>6
     DEF ApprovalStep, Run, Replay, GiveUp, Find, MarkApproved, AdjustFails,
         MarkInventoryRestored, PostRefundFails, MarkLedgerRecorded, MarkRefunded,
         KeepResult, Answer, Die, stock, money
<1> QED
  BY <1>0, <1>1, <1>2, <1>3, <1>4, <1>5, <1>6
     DEF Next, Create, Arrive, FindToReject, MarkRejected, stock, money, vars

\* One half of it, without the arithmetic.
LEMMA StaysBack ==
    ASSUME TypeOK, Created, [Next]_vars
    PROVE  (AllBack => AllBack') /\ (refunds = 1 => refunds' = 1)
<1>1. ASSUME AllBack PROVE AllBack'
  <2>1. \A l \in 1 .. Lines : restocked[l] \in Nat /\ restocked[l] >= 1
    BY <1>1 DEF TypeOK, AllBack
  <2>2. TypeOK'
    BY Next_TypeOK
  <2>3. \A l \in 1 .. Lines : restocked'[l] \in Nat
    BY <2>2 DEF TypeOK
  <2>4. \A l \in 1 .. Lines : restocked'[l] >= restocked[l]
    BY Lasts
  <2> QED
    BY <2>1, <2>3, <2>4 DEF AllBack
<1> QED
  BY <1>1, Lasts

\* An approval that does not move keeps what its stage says.
LEMMA Stays ==
    ASSUME TypeOK, Created, [Next]_vars, NEW a \in Approvals, AtStage(a),
           at'[a] = at[a], line'[a] = line[a],
           status = "approved" => status' = "approved" /\ restored' = restored /\ recorded' = recorded
    PROVE  AtStage(a)'
<1>1. /\ at'[a] \in {"adjust", "restored"} => status' = "approved" /\ ~restored'
      /\ at'[a] \in {"refund", "recorded"} => status' = "approved" /\ restored'
      /\ at'[a] = "refunded" => status' = "approved" /\ restored' /\ recorded'
  <2>1. /\ at[a] \in {"adjust", "restored"} => status = "approved" /\ ~restored
        /\ at[a] \in {"refund", "recorded"} => status = "approved" /\ restored
        /\ at[a] = "refunded" => status = "approved" /\ restored /\ recorded
    BY Zenon DEF AtStage
  <2> QED
    BY <2>1
<1>2. /\ at'[a] = "recorded" => refunds' = 1
      /\ at'[a] = "restored" => AllBack'
  BY StaysBack DEF AtStage
<1>3. /\ at'[a] \notin {"adjust", "ended"} => line'[a] = 1
      /\ at'[a] = "adjust" => \A l \in 1 .. Lines : l < line'[a] => restocked'[l] >= 1
  <2>1. TypeOK'
    BY Next_TypeOK
  <2>2. \A l \in 1 .. Lines : restocked[l] \in Nat /\ restocked'[l] \in Nat
    BY <2>1 DEF TypeOK
  <2>3. \A l \in 1 .. Lines : restocked'[l] >= restocked[l]
    BY Lasts
  <2> QED
    BY <2>2, <2>3 DEF AtStage
<1> QED
  BY <1>1, <1>2, <1>3, Zenon DEF AtStage

\* An approval at no working stage but the one of ended requests.
LEMMA Out ==
    ASSUME NEW a \in Approvals, AtStage(a), at'[a] \in {"idle", "call", "find", "keep", "return", "ended"},
           at'[a] # "ended" => at[a] \notin {"adjust", "ended"} /\ line'[a] = line[a]
    PROVE  AtStage(a)'
  BY DEF AtStage

\* The others, while one approval works.
LEMMA Others ==
    ASSUME StagesMatch, NEW a \in Approvals, at[a] \in Working, \A b \in Approvals : AtStage(b),
           NEW b \in Approvals, b # a, at'[b] = at[b], line'[b] = line[b]
    PROVE  AtStage(b)'
<1>1. at[b] \notin Working
  BY Alone
<1> QED
  BY <1>1 DEF AtStage, Working

\* Where the row of an approved return sends an approval.
LEMMA OnwardSays ==
    ASSUME NEW s \in Row, s.status # "rejected"
    PROVE  /\ Onward(s) \in {"keep", "approve", "adjust", "refund", "refunded"}
           /\ Onward(s) = "adjust" => s.status = "approved" /\ ~s.restored
           /\ Onward(s) = "refund" => s.status = "approved" /\ s.restored
           /\ Onward(s) = "refunded" => s.status = "approved" /\ s.restored /\ s.recorded
<1>1. s.status \in {"requested", "approved", "refunded"}
  BY DEF Row, Statuses
<1>2. CASE s.status = "refunded"
  BY <1>2 DEF Onward
<1>3. CASE s.status = "requested"
  BY <1>3 DEF Onward
<1>4. CASE s.status = "approved" /\ ~s.restored
  BY <1>4 DEF Onward
<1>5. CASE s.status = "approved" /\ s.restored /\ ~s.recorded
  BY <1>5 DEF Onward
<1>6. CASE s.status = "approved" /\ s.restored /\ s.recorded
  BY <1>6 DEF Onward
<1> QED
  BY <1>1, <1>2, <1>3, <1>4, <1>5, <1>6

\* An approval goes on where the row it was just given sends it.
LEMMA GoesOn ==
    ASSUME NEW a \in Approvals, AtStage(a), at[a] \notin {"adjust", "ended"}, line' = line,
           at \in [Requests -> Stages], snap \in [Approvals -> Row],
           RowOK', status' \notin {"absent", "rejected"}, TakeSnap(a), Goto(a, Onward(snap'[a]))
    PROVE  AtStage(a)'
<1> DEFINE s == [status |-> status', restored |-> restored', recorded |-> recorded']
<1>1. s \in Row /\ snap'[a] = s
  BY SnapOK
<1>2. s.status = status' /\ s.restored = restored' /\ s.recorded = recorded'
  OBVIOUS
<1>3. at'[a] = Onward(s)
  BY <1>1 DEF Goto, Requests
<1> HIDE DEF s
<1>4. /\ at'[a] \in {"keep", "approve", "adjust", "refund", "refunded"}
      /\ at'[a] = "adjust" => status' = "approved" /\ ~restored'
      /\ at'[a] = "refund" => status' = "approved" /\ restored'
      /\ at'[a] = "refunded" => status' = "approved" /\ restored' /\ recorded'
  BY <1>1, <1>2, <1>3, OnwardSays
<1>5. line'[a] = 1
  BY DEF AtStage
<1>6. \A l \in 1 .. Lines : ~(l < line'[a])
  BY <1>5
<1>7. at'[a] \notin {"restored", "recorded"}
  BY <1>4
<1> QED
  BY <1>4, <1>5, <1>6, <1>7, Zenon DEF AtStage

-----------------------------------------------------------------------------
(* Each step preserves what the row and the stages say *)

\* Steps that change neither row, stock nor money.
LEMMA SameData ==
    ASSUME UntilApproved, RowSays, UNCHANGED <<row, stock, money>>
    PROVE  UntilApproved' /\ RowSays'
<1>1. /\ status' = status /\ restored' = restored /\ recorded' = recorded
      /\ restocked' = restocked /\ onTheWay' = onTheWay
      /\ refunds' = refunds /\ lateRefund' = lateRefund
  BY DEF row, stock, money
<1>2. AllBack' <=> AllBack
  BY <1>1 DEF AllBack
<1> QED
  BY <1>1, <1>2, Zenon DEF UntilApproved, Untouched, RowSays

\* Steps on an approved return that leave its row alone.
LEMMA ApprovedData ==
    ASSUME TypeOK, Created, [Next]_vars, RowSays, status \in {"approved", "refunded"}, UNCHANGED row
    PROVE  UntilApproved' /\ RowSays'
<1>1. status' = status /\ restored' = restored /\ recorded' = recorded
  BY DEF row
<1>2. (AllBack => AllBack') /\ (refunds = 1 => refunds' = 1)
  BY StaysBack
<1>3. UntilApproved'
  BY <1>1 DEF UntilApproved
<1> QED
  BY <1>1, <1>2, <1>3, Zenon DEF RowSays

\* The conditional UPDATE that marks a row, by an approval that was the only one.
LEMMA Marked ==
    ASSUME ReturnInv, [Next]_vars, NEW a \in Approvals, NEW ready \in BOOLEAN, Update(a, ready),
           at[a] \in Working \ {"adjust"}, line' = line, status' # "absent",
           ready => status' # "rejected"
    PROVE  \A b \in Approvals : AtStage(b)'
<1>0. TypeOK /\ Created /\ StagesMatch /\ (\A b \in Approvals : AtStage(b)) /\ a \in Requests
  BY DEF ReturnInv, Requests
<1>1. RowOK'
  BY <1>0, Next_TypeOK, PartsNext, Zenon
<1>2. at[a] \notin {"adjust", "ended"} /\ at[a] \in Working
  BY DEF Working
<1>3. \A b \in Approvals : b # a => at'[b] = at[b] /\ line'[b] = line[b]
  BY <1>0 DEF Update, Refuse, Goto, Requests, TypeOK
<1>4. ASSUME NEW b \in Approvals, b # a PROVE AtStage(b)'
  BY <1>0, <1>2, <1>3, <1>4, Others
<1>5. AtStage(a)'
  <2>1. CASE ready
    <3>1. TakeSnap(a) /\ Goto(a, Onward(snap'[a]))
      BY <2>1 DEF Update
    <3>2. status' \notin {"absent", "rejected"}
      BY <2>1
    <3> QED
      BY <1>0, <1>1, <1>2, <3>1, <3>2, GoesOn DEF TypeOK
  <2>2. CASE ~ready
    <3>1. at'[a] = "ended"
      BY <1>0, <2>2 DEF Update, Refuse, Goto, TypeOK
    <3> QED
      BY <1>0, <3>1, Out
  <2> QED
    BY <2>1, <2>2
<1> QED
  BY <1>4, <1>5

\* Refused or crashed: the approval ended, the rest is as it was.
LEMMA RefusedStages ==
    ASSUME ReturnInv, [Next]_vars, NEW a \in Approvals, Refuse(a), line' = line, UNCHANGED row
    PROVE  \A b \in Approvals : AtStage(b)'
<1>0. TypeOK /\ Created /\ StagesMatch /\ (\A b \in Approvals : AtStage(b)) /\ a \in Requests
  BY DEF ReturnInv, Requests
<1>1. at' = [at EXCEPT ![a] = "ended"]
  BY <1>0, Refused
<1>2. AtStage(a)'
  BY <1>0, <1>1, Out DEF TypeOK
<1>3. ASSUME NEW b \in Approvals, b # a PROVE AtStage(b)'
  <2>1. at'[b] = at[b] /\ line'[b] = line[b]
    BY <1>0, <1>1, <1>3 DEF Requests, TypeOK
  <2>2. status' = status /\ restored' = restored /\ recorded' = recorded
    BY DEF row
  <2> QED
    BY <1>0, <2>1, <2>2, Stays
<1> QED
  BY <1>2, <1>3

\* Steps that move no approval and leave an approved row alone.
LEMMA Unmoved ==
    ASSUME ReturnInv, [Next]_vars, \A b \in Approvals : at'[b] = at[b], line' = line,
           status = "approved" => UNCHANGED row
    PROVE  \A b \in Approvals : AtStage(b)'
<1>1. status = "approved" => status' = "approved" /\ restored' = restored /\ recorded' = recorded
  BY DEF row
<1>2. ASSUME NEW b \in Approvals PROVE AtStage(b)'
  BY <1>1, <1>2, Stays DEF ReturnInv
<1> QED
  BY <1>2

\* An approval that moves between stages that say nothing.
LEMMA Passing ==
    ASSUME ReturnInv, [Next]_vars, NEW a \in Approvals,
           at[a] \notin {"adjust", "ended"}, NEW s \in {"call", "find", "keep", "return", "ended"},
           Goto(a, s), line' = line, UNCHANGED row
    PROVE  \A b \in Approvals : AtStage(b)'
<1>0. TypeOK /\ Created /\ (\A b \in Approvals : AtStage(b)) /\ a \in Requests
  BY DEF ReturnInv, Requests
<1>1. AtStage(a)'
  BY <1>0, Out DEF Goto, TypeOK
<1>2. ASSUME NEW b \in Approvals, b # a PROVE AtStage(b)'
  <2>1. at'[b] = at[b] /\ line'[b] = line[b]
    BY <1>0, <1>2 DEF Goto, Requests, TypeOK
  <2>2. status' = status /\ restored' = restored /\ recorded' = recorded
    BY DEF row
  <2> QED
    BY <1>0, <2>1, <2>2, Stays
<1> QED
  BY <1>1, <1>2

LEMMA Next_Data ==
    ASSUME ReturnInv, [Next]_vars
    PROVE  UntilApproved' /\ RowSays' /\ \A b \in Approvals : AtStage(b)'
<1>0. /\ TypeOK /\ Created /\ StagesMatch /\ UntilApproved /\ RowSays
      /\ \A a \in Approvals : AtStage(a) /\ a \in Requests
  BY DEF ReturnInv, Requests
<1> DEFINE Data == UntilApproved' /\ RowSays'
           Stages2 == \A b \in Approvals : AtStage(b)'
<1>1. CASE UNCHANGED vars
  <2>1. UNCHANGED <<row, stock, money>> /\ at' = at /\ line' = line
    BY <1>1 DEF vars, row, stock, money
  <2> QED
    BY <1>0, <2>1, SameData, Unmoved
<1>2. CASE Create
  <2>1. UNCHANGED <<stock, money, at, line>> /\ restored' = restored /\ recorded' = recorded
    BY <1>2 DEF Create, stock, money
  <2>2. status = "absent" /\ status' = "requested"
    BY <1>2 DEF Create
  <2>3. Untouched' <=> Untouched
    BY <2>1, Zenon DEF Untouched, stock, money
  <2>4. UntilApproved'
    BY <1>0, <2>2, <2>3 DEF UntilApproved
  <2>5. AllBack' <=> AllBack
    BY <2>1 DEF AllBack, stock
  <2>6. refunds' = refunds
    BY <2>1 DEF money
  <2>7. RowSays'
    BY <1>0, <2>1, <2>2, <2>5, <2>6, Zenon DEF RowSays
  <2> QED
    BY <1>0, <2>1, <2>2, <2>4, <2>7, Unmoved
<1>3. ASSUME NEW r \in Requests, Arrive(r) PROVE Data /\ Stages2
  <2>1. UNCHANGED <<row, stock, money, line>> /\ at[r] = "idle"
    BY <1>3 DEF Arrive
  <2>2. Data
    BY <1>0, <2>1, SameData
  <2>3. CASE r \in Approvals
    <3>1. Goto(r, "call")
      BY <1>3, <2>3, RequestsAssumption DEF Arrive
    <3> QED
      BY <1>0, <2>1, <2>2, <2>3, <3>1, Passing
  <2>4. CASE r \notin Approvals
    <3>1. \A b \in Approvals : at'[b] = at[b]
      BY <1>0, <1>3, <2>4 DEF Arrive, Goto, TypeOK
    <3> QED
      BY <1>0, <2>1, <2>2, <3>1, Unmoved
  <2> QED
    BY <2>3, <2>4
<1>4. ASSUME NEW a \in Approvals, ApprovalStep(a) PROVE Data /\ Stages2
  <2> USE <1>0
  <2>1. CASE Run(a) \/ Replay(a) \/ KeepResult(a) \/ Answer(a)
    <3>1. UNCHANGED <<row, stock, money, line>>
      BY <2>1 DEF Run, Replay, KeepResult, Answer
    <3>2. /\ at[a] \notin {"adjust", "ended"}
          /\ Goto(a, "find") \/ Goto(a, "ended") \/ Goto(a, "return")
      BY <2>1 DEF Run, Replay, KeepResult, Answer
    <3>3. Stages2
      BY <3>1, <3>2, Passing
    <3> QED
      BY <3>1, <3>3, SameData
  <2>2. CASE GiveUp(a) \/ Die(a)
    <3>1. UNCHANGED <<row, stock, money, line>> /\ Refuse(a)
      BY <2>2 DEF GiveUp, Die
    <3> QED
      BY <3>1, SameData, RefusedStages
  <2>3. CASE Find(a)
    <3>1. UNCHANGED <<row, stock, money, line>> /\ at[a] = "find" /\ status # "absent"
      BY <2>3 DEF Find, Created
    <3>2. CASE status = "rejected"
      BY <2>3, <3>1, <3>2, SameData, RefusedStages DEF Find
    <3>3. CASE status # "rejected"
      <4>1. RowOK' /\ status' = status /\ snap \in [Approvals -> Row] /\ at \in [Requests -> Stages]
        BY <3>1, Zenon DEF row, RowOK, TypeOK
      <4>2. TakeSnap(a) /\ Goto(a, Onward(snap'[a]))
        BY <2>3, <3>3 DEF Find
      <4>3. AtStage(a)'
        BY <3>1, <3>3, <4>1, <4>2, GoesOn
      <4>4. ASSUME NEW b \in Approvals, b # a PROVE AtStage(b)'
        <5>1. at'[b] = at[b] /\ line'[b] = line[b]
          BY <3>1, <4>1, <4>2, <4>4 DEF Goto
        <5>2. at[a] \in Working
          BY <3>1 DEF Working
        <5> QED
          BY <4>4, <5>1, <5>2, Others
      <4> QED
        BY <3>1, <4>3, <4>4, SameData
    <3> QED
      BY <3>2, <3>3
  <2>4. CASE MarkApproved(a)
    <3> DEFINE ready == status = "requested"
    <3>1. /\ ready \in BOOLEAN /\ Update(a, ready) /\ at[a] = "approve"
          /\ UNCHANGED <<stock, money, line>> /\ restored' = restored /\ recorded' = recorded
          /\ status' = IF ready THEN "approved" ELSE status
      BY <2>4, Zenon DEF MarkApproved
    <3>2. at[a] \in Working \ {"adjust"} /\ status' # "absent" /\ (ready => status' # "rejected")
      BY <3>1 DEF Working, Created
    <3>3. Untouched' <=> Untouched
      BY <3>1, Zenon DEF Untouched, stock, money
    <3>4. status' \in {"absent", "requested", "rejected"} => status' = status
      BY <3>1
    <3>5. UntilApproved'
      BY <3>3, <3>4 DEF UntilApproved
    <3>6. (AllBack' <=> AllBack) /\ refunds' = refunds
      BY <3>1 DEF AllBack, stock, money
    <3>7. status' = "refunded" => status = "refunded"
      BY <3>1
    <3>8. RowSays'
      BY <3>1, <3>6, <3>7, Zenon DEF RowSays
    <3> HIDE DEF ready
    <3>9. Stages2
      BY <3>1, <3>2, Marked
    <3> QED
      BY <3>5, <3>8, <3>9
  <2>5. CASE MarkInventoryRestored(a)
    <3> DEFINE ready == status = "approved"
    <3>1. /\ ready \in BOOLEAN /\ Update(a, ready) /\ at[a] = "restored"
          /\ UNCHANGED <<stock, money, line>> /\ status' = status /\ recorded' = recorded
      BY <2>5, Zenon DEF MarkInventoryRestored
    <3>2. status = "approved" /\ AllBack
      BY <3>1 DEF AtStage
    <3>3. at[a] \in Working \ {"adjust"} /\ status' = "approved"
      BY <3>1, <3>2 DEF Working
    <3>4. UntilApproved'
      BY <3>3 DEF UntilApproved
    <3>5. AllBack' /\ refunds' = refunds
      BY <3>1, <3>2 DEF AllBack, stock, money
    <3>6. RowSays'
      <4>1. status' # "refunded" /\ (recorded' => refunds' = 1)
        BY <3>1, <3>3, <3>5, Zenon DEF RowSays
      <4> QED
        BY <3>5, <4>1, Zenon DEF RowSays
    <3> HIDE DEF ready
    <3>7. Stages2
      BY <3>1, <3>3, Marked
    <3> QED
      BY <3>4, <3>6, <3>7
  <2>6. CASE MarkLedgerRecorded(a)
    <3> DEFINE ready == status = "approved"
    <3>1. /\ ready \in BOOLEAN /\ Update(a, ready) /\ at[a] = "recorded"
          /\ UNCHANGED <<stock, money, line>> /\ status' = status /\ restored' = restored
      BY <2>6, Zenon DEF MarkLedgerRecorded
    <3>2. status = "approved" /\ refunds = 1 /\ restored
      BY <3>1 DEF AtStage
    <3>3. at[a] \in Working \ {"adjust"} /\ status' = "approved"
      BY <3>1, <3>2 DEF Working
    <3>4. UntilApproved'
      BY <3>3 DEF UntilApproved
    <3>5. (AllBack' <=> AllBack) /\ refunds' = 1
      BY <3>1, <3>2 DEF AllBack, stock, money
    <3>6. RowSays'
      <4>1. status' # "refunded"
        BY <3>3
      <4> QED
        BY <3>1, <3>5, <4>1, Zenon DEF RowSays
    <3> HIDE DEF ready
    <3>7. Stages2
      BY <3>1, <3>3, Marked
    <3> QED
      BY <3>4, <3>6, <3>7
  <2>7. CASE MarkRefunded(a)
    <3> DEFINE ready == status = "approved" /\ restored /\ recorded
    <3>1. /\ ready \in BOOLEAN /\ Update(a, ready)
      BY <2>7, Zenon DEF MarkRefunded
    <3>2. at[a] = "refunded" /\ UNCHANGED <<stock, money, line>>
      BY <2>7 DEF MarkRefunded
    <3>3. status = "approved" /\ restored /\ recorded
      BY <3>2 DEF AtStage
    <3>4. status' = "refunded" /\ restored' = restored /\ recorded' = recorded
      BY <2>7, <3>3 DEF MarkRefunded
    <3>5. at[a] \in Working \ {"adjust"}
      BY <3>2 DEF Working
    <3>6. UntilApproved'
      BY <3>4 DEF UntilApproved
    <3>7. (AllBack' <=> AllBack) /\ refunds' = refunds
      BY <3>2 DEF AllBack, stock, money
    <3>8. RowSays'
      BY <3>3, <3>4, <3>7, Zenon DEF RowSays
    <3> HIDE DEF ready
    <3>9. Stages2
      BY <3>1, <3>2, <3>4, <3>5, Marked
    <3> QED
      BY <3>6, <3>8, <3>9
  <2>8. CASE Adjust(a)
    <3>1. /\ at[a] = "adjust" /\ UNCHANGED row
          /\ restocked' = [restocked EXCEPT ![line[a]] = restocked[line[a]] + 1]
      BY <2>8 DEF Adjust
    <3>2. status = "approved" /\ ~restored /\ at[a] \in Working
      BY <3>1 DEF AtStage, Working
    <3>3. Data
      BY <3>1, <3>2, ApprovedData
    <3>4. ASSUME NEW b \in Approvals, b # a PROVE AtStage(b)'
      <4>1. at'[b] = at[b] /\ line'[b] = line[b]
        BY <2>8, <3>4 DEF Adjust, Goto, TypeOK
      <4> QED
        BY <3>2, <3>4, <4>1, Others
    <3>5. \A l \in 1 .. Lines : (l < line[a] \/ l = line[a]) => restocked'[l] >= 1
      <4>1. \A l \in 1 .. Lines : l < line[a] => restocked[l] >= 1
        BY <3>1 DEF AtStage
      <4> QED
        BY <3>1, <4>1 DEF TypeOK
    <3>6. line[a] \in 1 .. Lines
      BY DEF TypeOK
    <3>7. AtStage(a)'
      <4>1. CASE line[a] < Lines
        <5>1. at'[a] = "adjust" /\ line'[a] = line[a] + 1
          BY <2>8, <3>1, <4>1 DEF Adjust, TypeOK
        <5>2. \A l \in 1 .. Lines : l < line'[a] => restocked'[l] >= 1
          BY <3>5, <3>6, <5>1
        <5>3. status' = "approved" /\ ~restored'
          BY <3>1, <3>2, Zenon DEF row
        <5> QED
          BY <5>1, <5>2, <5>3 DEF AtStage
      <4>2. CASE ~(line[a] < Lines)
        <5>1. at'[a] = "restored" /\ line'[a] = 1
          BY <2>8, <4>2 DEF Adjust, Goto, TypeOK
        <5>2. AllBack'
          BY <3>5, <3>6, <4>2, SizesAssumption DEF AllBack
        <5>3. status' = "approved" /\ ~restored'
          BY <3>1, <3>2, Zenon DEF row
        <5> QED
          BY <5>1, <5>2, <5>3 DEF AtStage
      <4> QED
        BY <4>1, <4>2
    <3> QED
      BY <3>3, <3>4, <3>7
  <2>9. CASE AdjustFails(a)
    <3>1. at[a] = "adjust" /\ UNCHANGED <<row, line>>
      BY <2>9 DEF AdjustFails
    <3>2. Data
      BY <3>1, ApprovedData DEF AtStage
    <3>3. at' = at \/ Refuse(a)
      BY <2>9 DEF AdjustFails
    <3> QED
      BY <3>1, <3>2, <3>3, Unmoved, RefusedStages
  <2>10. CASE PostRefund(a)
    <3>1. /\ at[a] = "refund" /\ refunds' = 1 /\ at' = [at EXCEPT ![a] = "recorded"]
          /\ UNCHANGED <<row, line>> /\ at[a] \in Working
      BY <2>10 DEF PostRefund, Goto, Working
    <3>2. Data
      BY <3>1, ApprovedData DEF AtStage
    <3>3. ASSUME NEW b \in Approvals, b # a PROVE AtStage(b)'
      <4>1. at'[b] = at[b] /\ line'[b] = line[b]
        BY <3>1, <3>3 DEF TypeOK
      <4> QED
        BY <3>1, <3>3, <4>1, Others
    <3>4. AtStage(a)'
      <4>1. at'[a] = "recorded" /\ line'[a] = 1
        BY <3>1 DEF AtStage, TypeOK
      <4>2. status' = "approved" /\ restored'
        BY <3>1 DEF AtStage, row
      <4> QED
        BY <3>1, <4>1, <4>2 DEF AtStage
    <3> QED
      BY <3>2, <3>3, <3>4
  <2>11. CASE PostRefundFails(a)
    <3>1. at[a] = "refund" /\ UNCHANGED <<row, line>> /\ Refuse(a)
      BY <2>11 DEF PostRefundFails
    <3>2. Data
      BY <3>1, ApprovedData DEF AtStage
    <3> QED
      BY <3>1, <3>2, RefusedStages
  <2> QED
    BY <1>4, <2>1, <2>2, <2>3, <2>4, <2>5, <2>6, <2>7, <2>8, <2>9, <2>10, <2>11 DEF ApprovalStep
<1>5. ASSUME NEW r \in Rejections, FindToReject(r) \/ MarkRejected(r) PROVE Data /\ Stages2
  <2>1. UNCHANGED <<stock, money, line>> /\ restored' = restored /\ recorded' = recorded
    BY <1>5 DEF FindToReject, MarkRejected, row
  <2>2. \A b \in Approvals : at'[b] = at[b]
    BY <1>0, <1>5, RequestsAssumption DEF FindToReject, MarkRejected, Goto, TypeOK
  <2>3. CASE UNCHANGED row
    BY <1>0, <2>1, <2>2, <2>3, SameData, Unmoved
  <2>4. CASE ~UNCHANGED row
    <3>1. status = "requested" /\ status' = "rejected"
      BY <1>5, <2>1, <2>4 DEF FindToReject, MarkRejected, row
    <3>2. Untouched' <=> Untouched
      BY <2>1, Zenon DEF Untouched, stock, money
    <3>3. UntilApproved'
      BY <1>0, <3>1, <3>2 DEF UntilApproved
    <3>4. (AllBack' <=> AllBack) /\ refunds' = refunds
      BY <2>1 DEF AllBack, stock, money
    <3>5. RowSays'
      BY <1>0, <2>1, <3>1, <3>4, Zenon DEF RowSays
    <3> QED
      BY <1>0, <2>1, <2>2, <3>1, <3>3, <3>5, Unmoved
  <2> QED
    BY <2>3, <2>4
<1>6. ASSUME NEW l \in 1 .. Lines, LateAdjustment(l) PROVE Data /\ Stages2
  <2>1. UNCHANGED <<row, at, line>> /\ onTheWay[l] > 0
    BY <1>6 DEF LateAdjustment
  <2>2. status \in {"approved", "refunded"}
    <3>1. ~Untouched
      BY <1>0, <2>1 DEF Untouched, TypeOK
    <3> QED
      BY <1>0, <3>1 DEF UntilApproved, TypeOK, Statuses
  <2> QED
    BY <1>0, <2>1, <2>2, ApprovedData, Unmoved
<1>7. CASE LateRefund
  <2>1. UNCHANGED <<row, at, line>> /\ lateRefund
    BY <1>7 DEF LateRefund
  <2>2. status \in {"approved", "refunded"}
    <3>1. ~Untouched
      BY <2>1, Zenon DEF Untouched
    <3> QED
      BY <1>0, <3>1 DEF UntilApproved, TypeOK, Statuses
  <2> QED
    BY <1>0, <2>1, <2>2, ApprovedData, Unmoved
<1> QED
  BY <1>1, <1>2, <1>3, <1>4, <1>5, <1>6, <1>7 DEF Next

LEMMA Invariance == Spec => []ReturnInv
<1>1. Init => ReturnInv
  BY Init_ReturnInv
<1>2. ReturnInv /\ [Next]_vars => ReturnInv'
  BY Next_TypeOK, Next_Created, Next_StagesMatch, Next_Data DEF ReturnInv
<1> QED
  BY <1>1, <1>2, PTL DEF Spec

(* returnService.ts 84-132: a refunded return has had every line put back  *)
(* into stock and its refund booked, for any number of approvals, lines    *)
(* and faults.                                                             *)
THEOREM RefundedCorrect == Spec => []RefundedMeansDone
<1>1. ReturnInv => RefundedMeansDone
  BY Zenon DEF ReturnInv, RowSays, AllBack, RefundedMeansDone
<1> QED
  BY <1>1, Invariance, PTL

(* returnService.ts 88-95 and 141-147: a rejected return never moved stock *)
(* or money, however the approvals and rejections race.                    *)
THEOREM RejectedCorrect == Spec => []RejectedIsUntouched
<1>1. ReturnInv => RejectedIsUntouched
  BY Zenon DEF ReturnInv, UntilApproved, Untouched, RejectedIsUntouched
<1> QED
  BY <1>1, Invariance, PTL

-----------------------------------------------------------------------------
(* How often goods come back *)

(* A line is accounted for once the row says so, or the approval that      *)
(* works is past it.                                                       *)
Back(l) ==
    \/ restored
    \/ \E a \in Approvals : at[a] = "restored" \/ (at[a] = "adjust" /\ l < line[a])

(* The first adjustment of a line needs no slip; every other one had one.  *)
CountInv ==
    \A l \in 1 .. Lines :
        restocked[l] + onTheWay[l] <= IF Back(l) THEN 1 + slips ELSE slips

\* Steps after which each line is as accounted for, or a slip more is.
LEMMA CountKept ==
    ASSUME TypeOK, TypeOK', CountInv,
           \A l \in 1 .. Lines : restocked'[l] + onTheWay'[l] = restocked[l] + onTheWay[l],
           \/ slips' = slips /\ \A l \in 1 .. Lines : Back(l) => Back(l)'
           \/ slips' = slips + 1
    PROVE  CountInv'
<1>1. \A l \in 1 .. Lines : /\ restocked[l] \in Nat /\ onTheWay[l] \in Nat
                            /\ restocked'[l] \in Nat /\ onTheWay'[l] \in Nat
  BY DEF TypeOK
<1>2. slips \in Int /\ slips' \in Int
  BY DEF TypeOK
<1> SUFFICES ASSUME NEW l \in 1 .. Lines
             PROVE  restocked'[l] + onTheWay'[l] <= IF Back(l)' THEN 1 + slips' ELSE slips'
  BY DEF CountInv
<1>3. restocked[l] + onTheWay[l] <= IF Back(l) THEN 1 + slips ELSE slips
  BY DEF CountInv
<1> QED
  BY <1>1, <1>2, <1>3

LEMMA Next_CountInv ==
    ASSUME ReturnInv, ReturnInv', CountInv, [Next]_vars
    PROVE  CountInv'
<1>0. /\ TypeOK /\ TypeOK' /\ StagesMatch /\ Created
      /\ \A a \in Approvals : AtStage(a) /\ AtStage(a)' /\ a \in Requests
  BY DEF ReturnInv, Requests
\* Steps that restock nothing and move no approval away from restocking.
<1>1. ASSUME UNCHANGED <<stock, slips, line>>, restored => restored',
             \A a \in Approvals : at[a] \in {"adjust", "restored"} => at'[a] = at[a] \/ restored'
      PROVE  CountInv'
  <2>1. \A l \in 1 .. Lines : Back(l) => Back(l)'
    BY <1>1 DEF Back
  <2>2. \A l \in 1 .. Lines : restocked'[l] + onTheWay'[l] = restocked[l] + onTheWay[l]
    BY <1>1 DEF stock
  <2> QED
    BY <1>0, <1>1, <2>1, <2>2, CountKept
<1>2. CASE UNCHANGED vars
  BY <1>1, <1>2 DEF vars, stock, row, count
<1>3. CASE Create \/ LateRefund
  BY <1>1, <1>3 DEF Create, LateRefund, row, count
<1>4. ASSUME NEW r \in Requests, Arrive(r) PROVE CountInv'
  <2>1. UNCHANGED <<stock, slips, line, row>> /\ at[r] = "idle"
    BY <1>4 DEF Arrive, count
  <2>2. \A a \in Approvals : at[a] # "idle" => at'[a] = at[a]
    BY <1>0, <1>4, RequestsAssumption DEF Arrive, Goto, TypeOK
  <2> QED
    BY <1>1, <2>1, <2>2 DEF row
<1>5. ASSUME NEW r \in Rejections, FindToReject(r) \/ MarkRejected(r) PROVE CountInv'
  <2>1. UNCHANGED <<stock, slips, line, restored>>
    BY <1>5 DEF FindToReject, MarkRejected, count, row
  <2>2. \A a \in Approvals : at'[a] = at[a]
    BY <1>0, <1>5, RequestsAssumption DEF FindToReject, MarkRejected, Goto, TypeOK
  <2> QED
    BY <1>1, <2>1, <2>2
<1>6. ASSUME NEW l \in 1 .. Lines, LateAdjustment(l) PROVE CountInv'
  <2>1. ASSUME NEW k \in 1 .. Lines
        PROVE  restocked'[k] + onTheWay'[k] = restocked[k] + onTheWay[k]
    <3>1. restocked[k] \in Nat /\ onTheWay[k] \in Nat
      BY <1>0 DEF TypeOK
    <3>2. CASE k = l
      <4>1. restocked'[k] = restocked[k] + 1 /\ onTheWay'[k] = onTheWay[k] - 1
        BY <1>0, <1>6, <3>2 DEF LateAdjustment, TypeOK
      <4> QED
        BY <3>1, <4>1
    <3>3. CASE k # l
      BY <1>0, <1>6, <3>3 DEF LateAdjustment, TypeOK
    <3> QED
      BY <3>2, <3>3
  <2>2. \A k \in 1 .. Lines : Back(k) => Back(k)'
    BY <1>6 DEF LateAdjustment, Back, row
  <2>3. slips' = slips
    BY <1>6 DEF LateAdjustment, count
  <2> QED
    BY <1>0, <2>1, <2>2, <2>3, CountKept
<1>7. ASSUME NEW a \in Approvals, ApprovalStep(a) PROVE CountInv'
  <2> USE <1>0
  <2>1. CASE \/ Run(a) \/ Replay(a) \/ KeepResult(a) \/ Answer(a) \/ GiveUp(a) \/ Find(a)
             \/ MarkApproved(a) \/ PostRefund(a) \/ PostRefundFails(a) \/ MarkLedgerRecorded(a)
             \/ MarkRefunded(a)
    <3>1. UNCHANGED <<stock, slips, line, restored>> /\ at[a] \notin {"adjust", "restored"}
      BY <2>1 DEF Run, Replay, KeepResult, Answer, GiveUp, Find, MarkApproved, PostRefund,
                  PostRefundFails, MarkLedgerRecorded, MarkRefunded, count, row
    <3>2. \A b \in Approvals : b # a => at'[b] = at[b]
      BY <2>1 DEF Run, Replay, KeepResult, Answer, GiveUp, Find, MarkApproved, PostRefund,
                  PostRefundFails, MarkLedgerRecorded, MarkRefunded, Update, Refuse, Goto, TypeOK
    <3> QED
      BY <1>1, <3>1, <3>2
  <2>2. CASE MarkInventoryRestored(a)
    <3>1. UNCHANGED <<stock, slips, line>> /\ at[a] = "restored"
      BY <2>2 DEF MarkInventoryRestored, count
    <3>2. restored'
      BY <2>2, <3>1, Zenon DEF MarkInventoryRestored, AtStage
    <3> QED
      BY <1>1, <3>1, <3>2
  <2>3. CASE Die(a)
    <3>1. UNCHANGED <<stock, restored, line>>
      BY <2>3 DEF Die, row
    <3>2. CASE at[a] \in {"adjust", "restored"}
      <4>1. slips' = slips + 1
        BY <2>3, <3>2 DEF Die, Slip
      <4>2. \A k \in 1 .. Lines : restocked'[k] + onTheWay'[k] = restocked[k] + onTheWay[k]
        BY <3>1 DEF stock
      <4> QED
        BY <4>1, <4>2, CountKept
    <3>3. CASE at[a] \notin {"adjust", "restored"}
      <4>1. slips' = slips
        BY <2>3, <3>3 DEF Die
      <4>2. \A b \in Approvals : b # a => at'[b] = at[b]
        BY <2>3 DEF Die, Refuse, Goto, TypeOK
      <4> QED
        BY <1>1, <3>1, <3>3, <4>1, <4>2
    <3> QED
      BY <3>2, <3>3
  <2>4. CASE Adjust(a)
    <3>1. /\ at[a] = "adjust" /\ UNCHANGED <<restored, onTheWay, slips>>
          /\ restocked' = [restocked EXCEPT ![line[a]] = restocked[line[a]] + 1]
      BY <2>4 DEF Adjust, row, count
    <3>2. /\ ~restored /\ line[a] \in 1 .. Lines
          /\ \A b \in Approvals : b # a => at[b] \notin {"adjust", "restored"}
      BY <3>1, Alone DEF AtStage, Working, TypeOK
    <3>3. \/ at'[a] = "adjust" /\ line'[a] = line[a] + 1
          \/ at'[a] = "restored"
      BY <2>4, <3>1 DEF Adjust, Goto, TypeOK
    <3>4. ~Back(line[a])
      BY <3>1, <3>2 DEF Back
    <3>5. \A l \in 1 .. Lines : l = line[a] => Back(l)'
      BY <3>2, <3>3 DEF Back
    <3>6. \A l \in 1 .. Lines : Back(l) => Back(l)'
      <4> SUFFICES ASSUME NEW l \in 1 .. Lines, Back(l)
                   PROVE  Back(l)'
        OBVIOUS
      <4>1. l < line[a]
        BY <3>1, <3>2 DEF Back
      <4> QED
        BY <3>2, <3>3, <4>1 DEF Back
    <3> SUFFICES ASSUME NEW l \in 1 .. Lines
                 PROVE  restocked'[l] + onTheWay'[l] <= IF Back(l)' THEN 1 + slips' ELSE slips'
      BY DEF CountInv
    <3>7. /\ restocked[l] \in Nat /\ onTheWay[l] \in Nat /\ slips \in Int /\ slips' = slips
          /\ onTheWay' = onTheWay
      BY <3>1 DEF TypeOK
    <3>8. restocked[l] + onTheWay[l] <= IF Back(l) THEN 1 + slips ELSE slips
      BY DEF CountInv
    <3>9. CASE l = line[a]
      <4>1. restocked'[l] = restocked[l] + 1
        BY <3>1, <3>9 DEF TypeOK
      <4>2. restocked[l] + onTheWay[l] <= slips
        BY <3>4, <3>8, <3>9
      <4>3. Back(l)'
        BY <3>5, <3>9
      <4> QED
        BY <3>7, <4>1, <4>2, <4>3
    <3>10. CASE l # line[a]
      <4>1. restocked'[l] = restocked[l]
        BY <3>1, <3>10 DEF TypeOK
      <4>2. Back(l) => Back(l)'
        BY <3>6
      <4> QED
        BY <3>7, <3>8, <4>1, <4>2
    <3> QED
      BY <3>9, <3>10
  <2>5. CASE AdjustFails(a)
    <3>1. /\ at[a] = "adjust" /\ UNCHANGED <<restored, restocked, line>> /\ slips' = slips + 1
          /\ onTheWay' \in {onTheWay, [onTheWay EXCEPT ![line[a]] = onTheWay[line[a]] + 1]}
      BY <2>5 DEF AdjustFails, row, Slip
    <3>2. ~restored /\ \A b \in Approvals : b # a => at[b] \notin {"adjust", "restored"}
      BY <3>1, Alone DEF AtStage, Working
    <3>3. ~Back(line[a])
      BY <3>1, <3>2 DEF Back, TypeOK
    <3> SUFFICES ASSUME NEW l \in 1 .. Lines
                 PROVE  restocked'[l] + onTheWay'[l] <= IF Back(l)' THEN 1 + slips' ELSE slips'
      BY DEF CountInv
    <3>4. restocked[l] \in Nat /\ onTheWay[l] \in Nat /\ slips \in Int /\ restocked' = restocked
      BY <3>1 DEF TypeOK
    <3>5. restocked[l] + onTheWay[l] <= IF Back(l) THEN 1 + slips ELSE slips
      BY DEF CountInv
    <3>6. CASE l = line[a]
      <4>1. onTheWay'[l] \in {onTheWay[l], onTheWay[l] + 1}
        BY <3>1, <3>6 DEF TypeOK
      <4>2. restocked[l] + onTheWay[l] <= slips
        BY <3>3, <3>5, <3>6
      <4> QED
        BY <3>1, <3>4, <4>1, <4>2
    <3>7. CASE l # line[a]
      <4>1. onTheWay'[l] = onTheWay[l]
        BY <3>1, <3>7 DEF TypeOK
      <4> QED
        BY <3>1, <3>4, <3>5, <4>1
    <3> QED
      BY <3>6, <3>7
  <2> QED
    BY <1>7, <2>1, <2>2, <2>3, <2>4, <2>5 DEF ApprovalStep
<1> QED
  BY <1>2, <1>3, <1>4, <1>5, <1>6, <1>7 DEF Next

LEMMA Counting == Spec => []CountInv
<1>1. Init => CountInv
  <2> SUFFICES ASSUME Init
               PROVE  \A l \in 1 .. Lines : restocked[l] + onTheWay[l] <= IF Back(l) THEN 1 + slips ELSE slips
    BY DEF CountInv
  <2>1. slips = 0 /\ \A l \in 1 .. Lines : restocked[l] = 0 /\ onTheWay[l] = 0
    BY DEF Init
  <2> QED
    BY <2>1
<1>2. ReturnInv /\ ReturnInv' /\ CountInv /\ [Next]_vars => CountInv'
  BY Next_CountInv
<1> QED
  BY <1>1, <1>2, Invariance, PTL DEF Spec

(* returnService.ts 98-112: goods come back at most once, and once more    *)
(* for each fault that fell into the restocking, for any number of         *)
(* approvals and lines.                                                    *)
THEOREM RestockedCorrect == Spec => []RestockedOncePerSlip
<1>1. ReturnInv /\ CountInv => RestockedOncePerSlip
  <2> SUFFICES ASSUME ReturnInv, CountInv, NEW l \in 1 .. Lines
               PROVE  restocked[l] + onTheWay[l] <= 1 + slips
    BY DEF RestockedOncePerSlip
  <2>0. TypeOK
    BY DEF ReturnInv
  <2>1. restocked \in [1 .. Lines -> Nat] /\ onTheWay \in [1 .. Lines -> Nat] /\ slips \in 0 .. faults
    BY <2>0 DEF TypeOK
  <2>2. restocked[l] + onTheWay[l] <= IF Back(l) THEN 1 + slips ELSE slips
    BY DEF CountInv
  <2>3. restocked[l] \in Nat /\ onTheWay[l] \in Nat /\ slips \in Int
    BY <2>1
  <2> QED
    BY <2>2, <2>3
<1> QED
  BY <1>1, Invariance, Counting, PTL
=============================================================================
