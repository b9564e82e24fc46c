--------------------------- MODULE ReturnApproval ---------------------------
(***************************************************************************)
(* One return request of services/returns: approvals that restock every    *)
(* line in inventory and post the refund to settlement, and rejections.    *)
(* Every statement and every outgoing call is a step.                      *)
(*                                                                         *)
(* Approvals run under the idempotency guard of returns:approve:<id>.  The *)
(* guard appears here as its contract, GuardContract, which Idempotency    *)
(* implements; approvals that do not run are replayed or turned away.      *)
(*                                                                         *)
(* An adjustment adds to stock whenever it is executed, so a try whose     *)
(* answer is lost, or that is executed late, is not undone by the next.    *)
(* The refund entry carries the id of the return as external_ref, which    *)
(* PaymentCapture shows to be booked at most once.                         *)
(***************************************************************************)
EXTENDS Integers, FiniteSets

CONSTANTS
    Approvals,  \* requests POST /returns/:id/approve
    Rejections, \* requests POST /returns/:id/reject
    Lines,      \* number of lines of the return, restocked in order
    Tries,      \* attempts of one adjustment, 3 in inventoryClient.ts
    MaxFaults   \* bound: failed calls, failed statements and crashes

ASSUME RequestsAssumption == Approvals \cap Rejections = {}
ASSUME SizesAssumption == Lines \in Nat \ {0} /\ Tries \in Nat \ {0} /\ MaxFaults \in Nat

VARIABLES
    status,     \* return_requests.status, "absent" before it is created
    restored,   \* inventory_restored_at is set
    recorded,   \* ledger_recorded_at is set
    restocked,  \* inventory: how often each line was added to stock
    onTheWay,   \* adjustments of each line executed after their try was given up
    refunds,    \* ledger entries with the external_ref of this return
    lateRefund, \* a refund post that was given up may still be executed
    phase, late, kept,  \* the guard's contract
    at,         \* at[r]: what request r does next, or how it ended
    snap,       \* snap[a]: the row as approval a last read it
    line,       \* line[a]: the line approval a restocks
    try,        \* try[a]: the try it is at
    faults,     \* number of faults so far
    slips       \* those that hit an approval between restocking and saying so

guard == <<phase, late, kept>>
row == <<status, restored, recorded>>
stock == <<restocked, onTheWay>>
money == <<refunds, lateRefund>>
count == <<faults, slips>>
vars == <<row, stock, money, guard, at, snap, line, try, count>>

Guard == INSTANCE GuardContract WITH Callers <- Approvals

Requests == Approvals \cup Rejections
Statuses == {"requested", "approved", "rejected", "refunded"}
Working == {"find", "approve", "adjust", "restored", "refund", "recorded", "refunded", "keep", "return"}
Stages == {"idle", "call", "reject", "ended"} \cup Working
Row == [status : Statuses, restored : BOOLEAN, recorded : BOOLEAN]

TypeOK ==
    /\ status \in Statuses \cup {"absent"}
    /\ restored \in BOOLEAN
    /\ recorded \in BOOLEAN
    /\ restocked \in [1 .. Lines -> Nat]
    /\ onTheWay \in [1 .. Lines -> Nat]
    /\ refunds \in {0, 1}
    /\ lateRefund \in BOOLEAN
    /\ phase \in [Approvals -> {"idle", "called", "running", "answered", "failed"}]
    /\ late \in [Approvals -> BOOLEAN]
    /\ kept \in BOOLEAN
    /\ at \in [Requests -> Stages]
    /\ snap \in [Approvals -> Row]
    /\ line \in [Approvals -> 1 .. Lines]
    /\ try \in [Approvals -> 1 .. Tries]
    /\ faults \in 0 .. MaxFaults
    /\ slips \in 0 .. faults

Init ==
    /\ status = "absent"
    /\ restored = FALSE
    /\ recorded = FALSE
    /\ restocked = [l \in 1 .. Lines |-> 0]
    /\ onTheWay = [l \in 1 .. Lines |-> 0]
    /\ refunds = 0
    /\ lateRefund = FALSE
    /\ Guard!GuardInit
    /\ at = [r \in Requests |-> "idle"]
    /\ snap = [a \in Approvals |->
                 [status |-> "requested", restored |-> FALSE, recorded |-> FALSE]]
    /\ line = [a \in Approvals |-> 1]
    /\ try = [a \in Approvals |-> 1]
    /\ faults = 0
    /\ slips = 0

Goto(r, stage) == at' = [at EXCEPT ![r] = stage]

(* The row as a statement that ends now returns it. *)
TakeSnap(a) ==
    snap' = [snap EXCEPT ![a] =
               [status |-> status', restored |-> restored', recorded |-> recorded']]

-----------------------------------------------------------------------------
(* returnsRepo.create: the request and its lines, in one transaction. *)
Create ==
    /\ status = "absent"
    /\ status' = "requested"
    /\ UNCHANGED <<restored, recorded, stock, money, guard, at, snap, line, try, count>>

(* A request arrives for an existing return. *)
Arrive(r) ==
    /\ status # "absent"
    /\ at[r] = "idle"
    /\ \/ /\ r \in Approvals
          /\ Guard!Call(r)
          /\ Goto(r, "call")
       \/ /\ r \in Rejections
          /\ Goto(r, "find")
          /\ UNCHANGED guard
    /\ UNCHANGED <<row, stock, money, snap, line, try, count>>

(* The guard's side of an approval. *)
Run(a) ==
    /\ at[a] = "call"
    /\ Guard!Run(a)
    /\ Goto(a, "find")
    /\ UNCHANGED <<row, stock, money, snap, line, try, count>>

Replay(a) ==
    /\ at[a] = "call"
    /\ Guard!Replay(a)
    /\ Goto(a, "ended")
    /\ UNCHANGED <<row, stock, money, snap, line, try, count>>

(* The function throws on what it read, or the caller gives up waiting. *)
Refuse(a) ==
    /\ Guard!Fail(a)
    /\ Goto(a, "ended")

GiveUp(a) ==
    /\ at[a] = "call"
    /\ Refuse(a)
    /\ UNCHANGED <<row, stock, money, snap, line, try, count>>

-----------------------------------------------------------------------------
(* approveReturnOnce. *)

(* As a bug would have it: the goods are put back before the approval is   *)
(* recorded.                                                               *)
Onward_Early(s) ==
    IF s.status = "refunded" THEN "keep"
    ELSE IF ~s.restored THEN "adjust"
    ELSE IF ~s.recorded THEN "refund"
    ELSE "refunded"

(* Where an approval with this row goes on. *)
Onward(s) ==
    IF s.status = "refunded" THEN "keep"
    ELSE IF s.status = "requested" THEN "approve"
    ELSE IF ~s.restored THEN "adjust"
    ELSE IF ~s.recorded THEN "refund"
    ELSE "refunded"

Find(a) ==
    /\ at[a] = "find"
    /\ UNCHANGED row
    /\ TakeSnap(a)
    /\ IF status = "rejected"
       THEN Refuse(a)
       ELSE Goto(a, Onward(snap'[a])) /\ UNCHANGED guard
    /\ UNCHANGED <<stock, money, line, try, count>>

(* The conditional UPDATEs: one that finds another status throws. *)
Update(a, ready) ==
    IF ready
    THEN /\ TakeSnap(a)
         /\ Goto(a, Onward(snap'[a]))
         /\ UNCHANGED guard
    ELSE /\ Refuse(a)
         /\ UNCHANGED snap

MarkApproved(a) ==
    /\ at[a] = "approve"
    /\ status' = IF status = "requested" THEN "approved" ELSE status
    /\ UNCHANGED <<restored, recorded>>
    /\ Update(a, status = "requested")
    /\ UNCHANGED <<stock, money, line, try, count>>

(* One try of the adjustment of the current line: executed and answered.   *)
Adjust(a) ==
    /\ at[a] = "adjust"
    /\ restocked' = [restocked EXCEPT ![line[a]] = restocked[line[a]] + 1]
    /\ try' = [try EXCEPT ![a] = 1]
    /\ IF line[a] < Lines
       THEN line' = [line EXCEPT ![a] = line[a] + 1] /\ UNCHANGED at
       ELSE line' = [line EXCEPT ![a] = 1] /\ Goto(a, "restored")
    /\ UNCHANGED <<row, onTheWay, money, guard, snap, count>>

Fault == faults < MaxFaults /\ faults' = faults + 1
Slip == Fault /\ slips' = slips + 1

(* A try without an answer: it never arrived, or it is executed all the    *)
(* same.  The last one throws.                                             *)
AdjustFails(a) ==
    /\ at[a] = "adjust"
    /\ Slip
    /\ onTheWay' \in {onTheWay, [onTheWay EXCEPT ![line[a]] = onTheWay[line[a]] + 1]}
    /\ IF try[a] < Tries
       THEN try' = [try EXCEPT ![a] = try[a] + 1] /\ UNCHANGED <<at, guard>>
       ELSE Refuse(a) /\ UNCHANGED try
    /\ UNCHANGED <<row, restocked, money, snap, line>>

(* As a bug would have it: the approval goes on without marking the row. *)
MarkInventoryRestored_Unmarked(a) ==
    /\ at[a] = "restored"
    /\ Goto(a, "refund")
    /\ UNCHANGED <<row, guard, snap, stock, money, line, try, count>>

MarkInventoryRestored(a) ==
    /\ at[a] = "restored"
    /\ restored' = (restored \/ status = "approved")
    /\ UNCHANGED <<status, recorded>>
    /\ Update(a, status = "approved")
    /\ UNCHANGED <<stock, money, line, try, count>>

(* postLedgerEntry with its retries: they meet one external_ref. *)
PostRefund(a) ==
    /\ at[a] = "refund"
    /\ refunds' = 1
    /\ Goto(a, "recorded")
    /\ UNCHANGED <<row, stock, lateRefund, guard, snap, line, try, count>>

(* As a bug would have it: a failed post is taken for a booked one. *)
PostRefundFails_Swallow(a) ==
    /\ at[a] = "refund"
    /\ Fault
    /\ lateRefund' = TRUE
    /\ Goto(a, "recorded")
    /\ UNCHANGED <<row, stock, refunds, guard, snap, line, try, slips>>

PostRefundFails(a) ==
    /\ at[a] = "refund"
    /\ Fault
    /\ lateRefund' = TRUE
    /\ Refuse(a)
    /\ UNCHANGED <<row, stock, refunds, snap, line, try, slips>>

MarkLedgerRecorded(a) ==
    /\ at[a] = "recorded"
    /\ recorded' = (recorded \/ status = "approved")
    /\ UNCHANGED <<status, restored>>
    /\ Update(a, status = "approved")
    /\ UNCHANGED <<stock, money, line, try, count>>

MarkRefunded(a) ==
    /\ at[a] = "refunded"
    /\ LET ready == status = "approved" /\ restored /\ recorded
       IN  /\ status' = IF ready THEN "refunded" ELSE status
           /\ UNCHANGED <<restored, recorded>>
           /\ Update(a, ready)
    /\ UNCHANGED <<stock, money, line, try, count>>

(* The guard stores the result and answers. *)
KeepResult(a) ==
    /\ at[a] = "keep"
    /\ Guard!Keep(a)
    /\ Goto(a, "return")
    /\ UNCHANGED <<row, stock, money, snap, line, try, count>>

Answer(a) ==
    /\ at[a] = "return"
    /\ Guard!Return(a)
    /\ Goto(a, "ended")
    /\ UNCHANGED <<row, stock, money, snap, line, try, count>>

(* A statement or a Redis command fails, or the process dies; a later      *)
(* approval of the client starts over from the row.                        *)
Die(a) ==
    /\ phase[a] = "running"
    /\ IF at[a] \in {"adjust", "restored"} THEN Slip ELSE Fault /\ UNCHANGED slips
    /\ Refuse(a)
    /\ UNCHANGED <<row, stock, money, snap, line, try>>

-----------------------------------------------------------------------------
(* rejectReturnRequest: a look at the status, then a conditional UPDATE. *)
FindToReject(r) ==
    /\ at[r] = "find"
    /\ Goto(r, IF status = "requested" THEN "reject" ELSE "ended")
    /\ UNCHANGED <<row, stock, money, guard, snap, line, try, count>>

MarkRejected(r) ==
    /\ at[r] = "reject"
    /\ status' = IF status = "requested" THEN "rejected" ELSE status
    /\ Goto(r, "ended")
    /\ UNCHANGED <<restored, recorded, stock, money, guard, snap, line, try, count>>

-----------------------------------------------------------------------------
(* What inventory and settlement execute after their caller gave up. *)

LateAdjustment(l) ==
    /\ onTheWay[l] > 0
    /\ onTheWay' = [onTheWay EXCEPT ![l] = onTheWay[l] - 1]
    /\ restocked' = [restocked EXCEPT ![l] = restocked[l] + 1]
    /\ UNCHANGED <<row, money, guard, at, snap, line, try, count>>

LateRefund ==
    /\ lateRefund
    /\ lateRefund' = FALSE
    /\ refunds' = 1
    /\ UNCHANGED <<row, stock, guard, at, snap, line, try, count>>

-----------------------------------------------------------------------------
ApprovalStep(a) ==
    \/ Run(a) \/ Replay(a) \/ GiveUp(a) \/ Find(a) \/ MarkApproved(a)
    \/ Adjust(a) \/ AdjustFails(a) \/ MarkInventoryRestored(a)
    \/ PostRefund(a) \/ PostRefundFails(a) \/ MarkLedgerRecorded(a)
    \/ MarkRefunded(a) \/ KeepResult(a) \/ Answer(a) \/ Die(a)

Next ==
    \/ Create
    \/ \E r \in Requests : Arrive(r)
    \/ \E a \in Approvals : ApprovalStep(a)
    \/ \E r \in Rejections : FindToReject(r) \/ MarkRejected(r)
    \/ \E l \in 1 .. Lines : LateAdjustment(l)
    \/ LateRefund

Spec == Init /\ [][Next]_vars

-----------------------------------------------------------------------------
(* Properties. *)

(* returnService.ts 84-132: a refunded return has had every line put back  *)
(* into stock and its refund booked, whichever approvals did the parts.    *)
RefundedMeansDone ==
    status = "refunded" => refunds = 1 /\ \A l \in 1 .. Lines : restocked[l] >= 1

(* returnService.ts 88-95 and 141-147: approvals and rejections race for a *)
(* requested return; a rejected one never moved stock or money.            *)
RejectedIsUntouched ==
    status = "rejected" =>
        /\ refunds = 0 /\ ~lateRefund
        /\ \A l \in 1 .. Lines : restocked[l] = 0 /\ onTheWay[l] = 0

(* returnService.ts 98-112: goods are put back more than once only where a *)
(* fault fell between an adjustment and markInventoryRestored, once per    *)
(* fault; later failures and repeated approvals never restock again.       *)
RestockedOncePerSlip ==
    \A l \in 1 .. Lines : restocked[l] + onTheWay[l] <= 1 + slips

(* docs/contracts.md:216-217 "restores inventory, ... idempotent (24h      *)
(* TTL)": approving again does not put the goods back again.               *)
RestockedOnce == \A l \in 1 .. Lines : restocked[l] <= 1
=============================================================================
