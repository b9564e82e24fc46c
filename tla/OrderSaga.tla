----------------------------- MODULE OrderSaga -----------------------------
(***************************************************************************)
(* The order saga of services/orders: placeOrder calls inventory and       *)
(* payments one after the other, and on any error undoes what it knows it  *)
(* has done.  Every remote call is a request in flight that its caller may *)
(* give up on (the HTTP client aborts after 2 s) while the service still   *)
(* executes it.  cancelOrder and shipOrder race with the saga on the order *)
(* row, the inventory expiry job with it on the reservation, and clients   *)
(* of the gateway call the same inventory and payments routes directly.    *)
(*                                                                         *)
(* One order has at most one reservation and one payment intent, so both   *)
(* are named by the order they belong to.                                  *)
(***************************************************************************)
EXTENDS Naturals

CONSTANTS
    Orders,
    Tracked,    \* bound: the orders whose shipments the progress job handles
    Faults      \* the disturbances a run allows, a subset of FaultKinds

FaultKinds ==
    {"timeout",     \* a caller gives up on a call that may still execute
     "db",          \* a statement of the orders database or of its cache throws
     "crash",       \* the orders process dies and restarts
     "stock",       \* stock rows get out of line with the pending reservations
     "client",      \* gateway clients call inventory and payments directly
     "internal",    \* inventory or payments answers 5xx, whatever it has done
     "tick"}        \* a statement of the expiry job throws

ASSUME FaultsAssumption == Faults \subseteq FaultKinds

ASSUME TrackedAssumption == Tracked \subseteq Orders

VARIABLES
    status,         \* orders.status, "none" before the row exists
    rowIds,         \* which of reservation_id, payment_intent_id the row holds
    shipment,       \* shipments.status, "none" before the row exists
    listed,         \* shipments that progress ticks have read and not updated
    saga,           \* where placeOrder stands
    comp,           \* CompensationState: the ids placeOrder remembers
    thrown,         \* history: the calls of placeOrder that ended in a throw
    cancel,         \* where cancelOrder stands; it holds the row lock meanwhile
    calls,          \* requests in flight
    reply,          \* answers not yet read by their caller
    reservation,    \* stock_reservations.status
    earlier,        \* the reservations whose expires_at comes before this one's
    short,          \* reservations whose stock row has less reserved than they hold
    expired,        \* expires_at has passed
    batch,          \* reservations the expiry tick has listed, still to release
    intent,         \* payment_intents.status
    charged         \* the orders the PSP has charged for, once or more

rowVars == <<status, rowIds, shipment>>
sagaVars == <<saga, comp, thrown>>
expiryVars == <<expired, batch>>
resVars == <<reservation, earlier, short, expiryVars>>
payVars == <<intent, charged>>
vars == <<rowVars, listed, sagaVars, cancel, calls, reply, resVars, payVars>>

-----------------------------------------------------------------------------
(* Types *)

OrderStatus ==
    {"none", "pending", "reserved", "confirmed", "shipped", "cancelled", "failed"}

Ids == {"reservation", "intent"}

\* The calls of placeOrder; a saga waiting for one of them has its name as pc.
RemoteOps ==
    {"createReservation", "createIntent", "capture", "commit", "release", "void"}

\* "opened": the row is committed and the try block not yet entered.
LocalSteps == {"opened", "markReserved", "attachIntent", "markConfirmed", "markFailed"}

SagaPc == {"idle", "done", "crashed"} \cup RemoteOps \cup LocalSteps

CancelPc == {"idle", "release", "void"}

Callers == {"place", "cancel"}

\* A call of "gone" was abandoned by its caller, one of "client" came through
\* the gateway; nobody in this model waits for the answer of either.
Call ==
    [op : RemoteOps, order : Orders, by : Callers \cup {"gone", "client"},
     phase : {"sent", "charged", "declined"}]

Reply == {"none", "ok", "refused"}

IntentStatus == {"none", "requires_capture", "succeeded", "failed", "voided"}

\* The shipments that still move, and every status of an order's shipment.
Moving == {"preparing", "dispatched"}

ShipmentStatus == {"none", "delivered"} \cup Moving

ReservationStatus == {"none", "pending", "committed", "released"}

TypeOK ==
    /\ status \in [Orders -> OrderStatus]
    /\ rowIds \in [Orders -> SUBSET Ids]
    /\ shipment \in [Orders -> ShipmentStatus]
    /\ listed \subseteq [order : Orders, from : Moving]
    /\ saga \in [Orders -> SagaPc]
    /\ comp \in [Orders -> SUBSET Ids]
    /\ thrown \in [Orders -> SUBSET RemoteOps]
    /\ cancel \in [Orders -> CancelPc]
    /\ calls \subseteq Call
    /\ reply \in [Orders -> [Callers -> Reply]]
    /\ reservation \in [Orders -> ReservationStatus]
    /\ earlier \in [Orders -> SUBSET Orders]
    /\ short \subseteq Orders
    /\ expired \in [Orders -> BOOLEAN]
    /\ batch \subseteq Orders
    /\ intent \in [Orders -> IntentStatus]
    /\ charged \subseteq Orders

Init ==
    /\ status = [o \in Orders |-> "none"]
    /\ rowIds = [o \in Orders |-> {}]
    /\ shipment = [o \in Orders |-> "none"]
    /\ listed = {}
    /\ saga = [o \in Orders |-> "idle"]
    /\ comp = [o \in Orders |-> {}]
    /\ thrown = [o \in Orders |-> {}]
    /\ cancel = [o \in Orders |-> "idle"]
    /\ calls = {}
    /\ reply = [o \in Orders |-> [c \in Callers |-> "none"]]
    /\ reservation = [o \in Orders |-> "none"]
    /\ earlier = [o \in Orders |-> {}]
    /\ short = {}
    /\ expired = [o \in Orders |-> FALSE]
    /\ batch = {}
    /\ intent = [o \in Orders |-> "none"]
    /\ charged = {}

-----------------------------------------------------------------------------
(* Requests and answers *)

Request(op, o, by) == [op |-> op, order |-> o, by |-> by, phase |-> "sent"]

\* The request a caller sends on reaching pc, if pc is a remote call.
RequestAt(pc, o, by) == IF pc \in RemoteOps THEN {Request(pc, o, by)} ELSE {}

\* The caller stops waiting; a service that has the request goes on with it.
Abandoned(o, by) ==
    {IF c.order = o /\ c.by = by THEN [c EXCEPT !.by = "gone"] ELSE c : c \in calls}

\* A service has finished call c with answer r.
Answer(c, r) ==
    /\ calls' = calls \ {c}
    /\ reply' = IF c.by \in Callers
                THEN [reply EXCEPT ![c.order][c.by] = r]
                ELSE reply

\* An internal error may come after any part of the work of a call, so what
\* was done may still be answered by one: the COMMIT that is not acknowledged,
\* the answer that the idempotency guard cannot store, the ledger entry that
\* cannot be posted.
Answered(c, r) == Answer(c, r) \/ ("internal" \in Faults /\ Answer(c, "refused"))

\* placeOrder reads its answer and goes on at pc.
SagaGoes(o, pc) ==
    /\ saga' = [saga EXCEPT ![o] = pc]
    /\ calls' = Abandoned(o, "place") \cup RequestAt(pc, o, "place")
    /\ reply' = [reply EXCEPT ![o].place = "none"]

\* cancelOrder holds SELECT ... FOR UPDATE on the row until it ends.
RowLocked(o) == cancel[o] # "idle"

-----------------------------------------------------------------------------
(* placeOrder *)

\* Seeded fault: markFailed is not in a finally block, so a failed release
\* leaves the order as it is.
AfterThrow_NoFinally(o) ==
    IF saga[o] \in {"opened", "release", "markFailed"} THEN "done"
    ELSE IF "reservation" \in comp[o] /\ saga[o] # "void" THEN "release"
    ELSE "markFailed"

\* Where the catch block goes on after a throw at the current step: a throw of
\* the release skips the void; one of the void is swallowed.  Before the try
\* block and in the finally block nothing catches.
AfterThrow(o) ==
    IF saga[o] \in {"release", "void"} THEN "markFailed"
    ELSE IF saga[o] \in {"opened", "markFailed"} THEN "done"
    ELSE IF "reservation" \in comp[o] THEN "release"
    ELSE "markFailed"

\* createPending commits the order and its items.
PlaceOrder(o) ==
    /\ saga[o] = "idle"
    /\ status[o] = "none"
    /\ status' = [status EXCEPT ![o] = "pending"]
    /\ SagaGoes(o, "opened")
    /\ UNCHANGED <<listed, rowIds, shipment, comp, thrown, cancel, resVars, payVars>>

\* The row is read again and its cache keys are dropped.
OrderOpened(o) ==
    /\ saga[o] = "opened"
    /\ SagaGoes(o, "createReservation")
    /\ UNCHANGED <<rowVars, listed, comp, thrown, cancel, resVars, payVars>>

\* compensation.reservationId = reservation.id
ReservationCreated(o) ==
    /\ saga[o] = "createReservation"
    /\ reply[o].place = "ok"
    /\ comp' = [comp EXCEPT ![o] = @ \cup {"reservation"}]
    /\ SagaGoes(o, "markReserved")
    /\ UNCHANGED <<rowVars, listed, thrown, cancel, resVars, payVars>>

\* compensation.paymentIntentId = intent.id
IntentCreated(o) ==
    /\ saga[o] = "createIntent"
    /\ reply[o].place = "ok"
    /\ comp' = [comp EXCEPT ![o] = @ \cup {"intent"}]
    /\ SagaGoes(o, "attachIntent")
    /\ UNCHANGED <<rowVars, listed, thrown, cancel, resVars, payVars>>

\* Seeded fault: the order is confirmed before its reservation is committed.
Captured_NoCommit(o) ==
    /\ saga[o] = "capture"
    /\ reply[o].place = "ok"
    /\ SagaGoes(o, "markConfirmed")
    /\ UNCHANGED <<rowVars, listed, comp, thrown, cancel, resVars, payVars>>

Captured(o) ==
    /\ saga[o] = "capture"
    /\ reply[o].place = "ok"
    /\ SagaGoes(o, "commit")
    /\ UNCHANGED <<rowVars, listed, comp, thrown, cancel, resVars, payVars>>

Committed(o) ==
    /\ saga[o] = "commit"
    /\ reply[o].place = "ok"
    /\ SagaGoes(o, "markConfirmed")
    /\ UNCHANGED <<rowVars, listed, comp, thrown, cancel, resVars, payVars>>

\* Seeded fault: the compensation forgets the payment intent.
Released_NoVoid(o) ==
    /\ saga[o] = "release"
    /\ reply[o].place = "ok"
    /\ SagaGoes(o, "markFailed")
    /\ UNCHANGED <<rowVars, listed, comp, thrown, cancel, resVars, payVars>>

\* compensateOrderFailure: the void follows a successful release.
Released(o) ==
    /\ saga[o] = "release"
    /\ reply[o].place = "ok"
    /\ SagaGoes(o, IF "intent" \in comp[o] THEN "void" ELSE "markFailed")
    /\ UNCHANGED <<rowVars, listed, comp, thrown, cancel, resVars, payVars>>

Voided(o) ==
    /\ saga[o] = "void"
    /\ reply[o].place = "ok"
    /\ SagaGoes(o, "markFailed")
    /\ UNCHANGED <<rowVars, listed, comp, thrown, cancel, resVars, payVars>>

\* The answer is an error status: createReservation's 409 fails the order
\* without compensation, everything else is mapped and caught.
CallRefused(o) ==
    /\ saga[o] \in RemoteOps
    /\ reply[o].place = "refused"
    /\ SagaGoes(o, AfterThrow(o))
    /\ thrown' = [thrown EXCEPT ![o] = @ \cup {saga[o]}]
    /\ UNCHANGED <<rowVars, listed, comp, cancel, resVars, payVars>>

\* The HTTP client aborts; the request, or its answer, may still be on its way.
CallTimesOut(o) ==
    /\ "timeout" \in Faults
    /\ saga[o] \in RemoteOps
    /\ SagaGoes(o, AfterThrow(o))
    /\ thrown' = [thrown EXCEPT ![o] = @ \cup {saga[o]}]
    /\ UNCHANGED <<rowVars, listed, comp, cancel, resVars, payVars>>

\* updateStatus: a guarded UPDATE that throws when no row matches.  With a
\* database fault it may also throw after it was applied.
UpdateStatus(o, from, to, pc) ==
    /\ ~RowLocked(o)
    /\ IF status[o] \in from
       THEN /\ status' = [status EXCEPT ![o] = to]
            /\ \E next \in {pc} \cup (IF "db" \in Faults THEN {AfterThrow(o)} ELSE {}) :
                   SagaGoes(o, next)
       ELSE /\ SagaGoes(o, AfterThrow(o))
            /\ status' = status
    /\ UNCHANGED <<listed, shipment, comp, thrown, cancel, resVars, payVars>>

MarkReserved(o) ==
    /\ saga[o] = "markReserved"
    /\ UpdateStatus(o, {"pending"}, "reserved", "createIntent")
    /\ rowIds' = IF status[o] = "pending"
                 THEN [rowIds EXCEPT ![o] = @ \cup {"reservation"}] ELSE rowIds

AttachPaymentIntent(o) ==
    /\ saga[o] = "attachIntent"
    /\ UpdateStatus(o, {"reserved"}, "reserved", "capture")
    /\ rowIds' = IF status[o] = "reserved"
                 THEN [rowIds EXCEPT ![o] = @ \cup {"intent"}] ELSE rowIds

MarkConfirmed(o) ==
    /\ saga[o] = "markConfirmed"
    /\ UpdateStatus(o, {"reserved"}, "confirmed", "done")
    /\ rowIds' = rowIds

\* Seeded fault: markFailed without its list of allowed statuses.
MarkFailed_Unguarded(o) ==
    /\ saga[o] = "markFailed"
    /\ UpdateStatus(o, OrderStatus, "failed", "done")
    /\ rowIds' = rowIds

MarkFailed(o) ==
    /\ saga[o] = "markFailed"
    /\ UpdateStatus(o, {"pending", "reserved"}, "failed", "done")
    /\ rowIds' = rowIds

\* A statement of the saga throws without effect, or after a COMMIT that was
\* not acknowledged.
StatementFails(o) ==
    /\ "db" \in Faults
    /\ saga[o] \in LocalSteps
    /\ SagaGoes(o, AfterThrow(o))
    /\ UNCHANGED <<rowVars, listed, comp, thrown, cancel, resVars, payVars>>

-----------------------------------------------------------------------------
(* cancelOrder and shipOrder *)

CancelEnds(o) ==
    /\ cancel' = [cancel EXCEPT ![o] = "idle"]
    /\ calls' = Abandoned(o, "cancel")
    /\ reply' = [reply EXCEPT ![o].cancel = "none"]

\* The transaction takes the row lock, finds a confirmed order without
\* shipment and asks inventory to release the order's reservation.
CancelStart(o) ==
    /\ ~RowLocked(o)
    /\ status[o] = "confirmed"
    /\ shipment[o] = "none"
    /\ cancel' = [cancel EXCEPT ![o] = "release"]
    /\ calls' = calls \cup {Request("release", o, "cancel")}
    /\ UNCHANGED <<rowVars, listed, sagaVars, reply, resVars, payVars>>

\* Release, then void, then markCancelled; a refusal rolls the transaction back.
CancelReply(o) ==
    /\ reply[o].cancel # "none"
    /\ LET onward == reply[o].cancel = "ok" /\ cancel[o] = "release"
           finish == reply[o].cancel = "ok" /\ cancel[o] = "void"
       IN /\ cancel' = [cancel EXCEPT ![o] = IF onward THEN "void" ELSE "idle"]
          /\ calls' = IF onward THEN calls \cup {Request("void", o, "cancel")} ELSE calls
          /\ status' = [status EXCEPT ![o] = IF finish THEN "cancelled" ELSE @]
          /\ reply' = [reply EXCEPT ![o].cancel = "none"]
    /\ UNCHANGED <<listed, rowIds, shipment, sagaVars, resVars, payVars>>

CancelTimesOut(o) ==
    /\ "timeout" \in Faults
    /\ cancel[o] # "idle"
    /\ CancelEnds(o)
    /\ UNCHANGED <<rowVars, listed, sagaVars, resVars, payVars>>

ShipOrder(o) ==
    /\ ~RowLocked(o)
    /\ status[o] = "confirmed"
    /\ shipment[o] = "none"
    /\ shipment' = [shipment EXCEPT ![o] = "preparing"]
    /\ status' = [status EXCEPT ![o] = "shipped"]
    /\ UNCHANGED <<listed, rowIds, sagaVars, cancel, calls, reply, resVars, payVars>>

\* nextStatus
NextShipmentStatus(from) == IF from = "preparing" THEN "dispatched" ELSE "delivered"

\* What the progress job leaves alone.
otherVars == <<status, rowIds, sagaVars, cancel, calls, reply, resVars, payVars>>

\* listReadyToAdvance: a shipment is due 2 s after it was booked and 8 s after
\* it was dispatched.  Ticks overlap, as setInterval waits for none of them.
ListShipment(o) ==
    /\ o \in Tracked
    /\ shipment[o] \in Moving
    /\ listed' = listed \cup {[order |-> o, from |-> shipment[o]]}
    /\ UNCHANGED <<shipment, otherVars>>

\* Seeded fault: advanceStatus without "and status = $3".
AdvanceShipment_Unguarded(s) ==
    /\ shipment' = [shipment EXCEPT ![s.order] = NextShipmentStatus(s.from)]
    /\ listed' \in {listed \ {s}, listed}
    /\ UNCHANGED otherVars

\* advanceStatus moves the shipment on from the status that was listed.  Other
\* ticks may hold the same entry, so it stays or goes.  What a tick that throws
\* has left is an entry never used.
AdvanceShipment(s) ==
    /\ shipment' = [shipment EXCEPT ![s.order] =
                         IF @ = s.from THEN NextShipmentStatus(s.from) ELSE @]
    /\ listed' \in {listed \ {s}, listed}
    /\ UNCHANGED otherVars

\* Every handler of the orders process dies; its transactions roll back and
\* nothing resumes a saga after the restart.
OrdersCrash ==
    /\ "crash" \in Faults
    /\ saga' = [o \in Orders |-> IF saga[o] \in {"idle", "done"} THEN saga[o] ELSE "crashed"]
    /\ cancel' = [o \in Orders |-> "idle"]
    /\ calls' = {IF c.by \in Callers THEN [c EXCEPT !.by = "gone"] ELSE c : c \in calls}
    /\ reply' = [o \in Orders |-> [c \in Callers |-> "none"]]
    /\ listed' = {}
    /\ UNCHANGED <<rowVars, comp, thrown, resVars, payVars>>

-----------------------------------------------------------------------------
(* The network and the gateway *)

\* A request nobody waits for any more never reaches the service.
RequestLost(c) ==
    /\ c.by = "gone"
    /\ c.phase = "sent"
    /\ calls' = calls \ {c}
    /\ UNCHANGED <<rowVars, listed, sagaVars, cancel, reply, resVars, payVars>>

\* GET /orders/:id shows a client the ids of the reservation and the intent;
\* with them it may call the routes of inventory and payments itself.
ClientCall(o, op) ==
    /\ "client" \in Faults
    /\ \/ op \in {"commit", "release"} /\ "reservation" \in rowIds[o]
       \/ op \in {"capture", "void"} /\ "intent" \in rowIds[o]
    /\ \A c \in calls : ~(c.order = o /\ c.by = "client")
    /\ calls' = calls \cup {Request(op, o, "client")}
    /\ UNCHANGED <<rowVars, listed, sagaVars, cancel, reply, resVars, payVars>>

-----------------------------------------------------------------------------
(* inventory: each call is one transaction holding the reservation's row lock *)

CreateReservation(c) ==
    /\ c.op = "createReservation"
    /\ reservation[c.order] = "none"
    /\ \/ /\ reservation' = [reservation EXCEPT ![c.order] = "pending"]
          /\ earlier' = [earlier EXCEPT ![c.order] = {o \in Orders : reservation[o] # "none"}]
          /\ Answered(c, "ok")
       \/ /\ Answer(c, "refused")       \* INSUFFICIENT_STOCK
          /\ UNCHANGED <<reservation, earlier>>
    /\ UNCHANGED <<rowVars, listed, sagaVars, cancel, short, expiryVars, payVars>>

\* Commits that overwrite a stock row (commitReserved writes back what it read)
\* leave it with less reserved than its pending lines hold; later reservations
\* of the same row make up for it.
StockRowChanges(o) ==
    /\ "stock" \in Faults
    /\ reservation[o] = "pending"
    /\ short' \in {short \cup {o}, short \ {o}}
    /\ UNCHANGED <<rowVars, listed, sagaVars, cancel, calls, reply>>
    /\ UNCHANGED <<reservation, earlier, expiryVars, payVars>>

\* commitReserved and releaseReserved find less reserved than the line.
RowRefuses(o) == reservation[o] = "pending" /\ o \in short

CommitReservation(c) ==
    LET o == c.order IN
    /\ c.op = "commit"
    /\ \/ /\ reservation[o] \in {"pending", "committed"}
          /\ ~RowRefuses(o)
          /\ reservation' = [reservation EXCEPT ![o] = "committed"]
          /\ Answered(c, "ok")
       \/ /\ reservation[o] = "released" \/ RowRefuses(o)
          /\ Answer(c, "refused")
          /\ UNCHANGED reservation
    /\ UNCHANGED <<rowVars, listed, sagaVars, cancel, earlier, short, expiryVars, payVars>>

\* Seeded fault: a release does not look whether the reservation is committed.
ReleaseReservation_Committed(c) ==
    /\ c.op = "release"
    /\ reservation[c.order] \in {"pending", "released", "committed"}
    /\ reservation' = [reservation EXCEPT ![c.order] = "released"]
    /\ Answer(c, "ok")
    /\ UNCHANGED <<rowVars, listed, sagaVars, cancel, earlier, short, expiryVars, payVars>>

ReleaseReservation(c) ==
    LET o == c.order IN
    /\ c.op = "release"
    /\ \/ /\ reservation[o] \in {"pending", "released"}
          /\ ~RowRefuses(o)
          /\ reservation' = [reservation EXCEPT ![o] = "released"]
          /\ Answered(c, "ok")
       \/ /\ reservation[o] = "committed" \/ RowRefuses(o)
          /\ Answer(c, "refused")
          /\ UNCHANGED reservation
    /\ UNCHANGED <<rowVars, listed, sagaVars, cancel, earlier, short, expiryVars, payVars>>

\* RESERVATION_TTL_SEC after the creation, so in the order of the creations.
ReservationExpires(o) ==
    /\ reservation[o] = "pending"
    /\ ~expired[o]
    /\ \A q \in earlier[o] : reservation[q] = "pending" => expired[q]
    /\ expired' = [expired EXCEPT ![o] = TRUE]
    /\ UNCHANGED <<rowVars, listed, sagaVars, cancel, calls, reply>>
    /\ UNCHANGED <<reservation, earlier, short, batch, payVars>>

\* expirePendingReservations lists outside of any transaction ...
ExpiryTick ==
    /\ batch = {}
    /\ batch' = {o \in Orders : reservation[o] = "pending" /\ expired[o]}
    /\ batch' # {}
    /\ UNCHANGED <<rowVars, listed, sagaVars, cancel, calls, reply>>
    /\ UNCHANGED <<reservation, earlier, short, expired, payVars>>

\* ... by expires_at: the next to release is the one listed first.
NextInBatch(o) == o \in batch /\ batch \cap earlier[o] = {}

\* Seeded fault: the tick retries a reservation that throws until it does not.
ExpireReservation_Stuck(o) ==
    /\ NextInBatch(o)
    /\ reservation[o] \in {"pending", "released"} /\ ~RowRefuses(o)
    /\ reservation' = [reservation EXCEPT ![o] = "released"]
    /\ batch' = batch \ {o}
    /\ UNCHANGED <<rowVars, listed, sagaVars, cancel, calls, reply>>
    /\ UNCHANGED <<earlier, short, expired, payVars>>

\* ... then releases each in a transaction of its own.  One that was committed
\* meanwhile, or whose stock row refuses, throws and ends the tick: what comes
\* after it in the list waits for the next tick.
ExpireReservation(o) ==
    /\ NextInBatch(o)
    /\ \/ /\ reservation[o] \in {"pending", "released"}
          /\ ~RowRefuses(o)
          /\ reservation' = [reservation EXCEPT ![o] = "released"]
          /\ batch' = batch \ {o}
       \/ /\ reservation[o] = "committed" \/ RowRefuses(o)
          /\ batch' = {}
          /\ UNCHANGED reservation
    /\ UNCHANGED <<rowVars, listed, sagaVars, cancel, calls, reply>>
    /\ UNCHANGED <<earlier, short, expired, payVars>>

\* A statement of the tick throws, and ends it.
TickFails ==
    /\ "tick" \in Faults
    /\ batch # {}
    /\ batch' = {}
    /\ UNCHANGED <<rowVars, listed, sagaVars, cancel, calls, reply>>
    /\ UNCHANGED <<reservation, earlier, short, expired, payVars>>

-----------------------------------------------------------------------------
(* payments *)

CreateIntent(c) ==
    /\ c.op = "createIntent"
    /\ \/ /\ intent' = [intent EXCEPT ![c.order] = IF @ = "none" THEN "requires_capture" ELSE @]
          /\ Answered(c, "ok")
       \/ /\ Answer(c, "refused")       \* amountCents must be positive
          /\ UNCHANGED intent
    /\ UNCHANGED <<rowVars, listed, sagaVars, cancel, resVars, charged>>

\* captureIntent up to the PSP's answer: the intent's status is read once,
\* without a lock, before the PSP is called.
CaptureAtPsp(c) ==
    LET o == c.order
        At(p) == (calls \ {c}) \cup {[c EXCEPT !.phase = p]}
    IN
    /\ c.op = "capture"
    /\ c.phase = "sent"
    /\ intent[o] = "requires_capture"
    /\ \/ /\ charged' = charged \cup {o}
          /\ calls' = At("charged")
       \/ /\ calls' = At("declined")
          /\ UNCHANGED charged
    /\ UNCHANGED <<rowVars, listed, sagaVars, cancel, reply, resVars, intent>>

\* An intent that cannot be captured any more: succeeded answers at once, the
\* others conflict.
CaptureWithoutPsp(c) ==
    /\ c.op = "capture"
    /\ c.phase = "sent"
    /\ intent[c.order] # "requires_capture"
    /\ Answered(c, IF intent[c.order] = "succeeded" THEN "ok" ELSE "refused")
    /\ UNCHANGED <<rowVars, listed, sagaVars, cancel, resVars, payVars>>

\* Seeded fault: a declined capture is not thrown.
CaptureSettles_DeclineOk(c) ==
    /\ c.phase \in {"charged", "declined"}
    /\ intent' = [intent EXCEPT ![c.order] =
                      IF @ # "requires_capture" THEN @
                      ELSE IF c.phase = "charged" THEN "succeeded" ELSE "failed"]
    /\ Answer(c, "ok")
    /\ UNCHANGED <<rowVars, listed, sagaVars, cancel, resVars, charged>>

\* updateStatus after the PSP's answer; a charge is answered "succeeded" even
\* when the intent was voided or failed in between.  The ledger entry is posted
\* after it: settlement's refusal answers the charge with an error.
CaptureSettles(c) ==
    /\ c.phase \in {"charged", "declined"}
    /\ intent' = [intent EXCEPT ![c.order] =
                      IF @ # "requires_capture" THEN @
                      ELSE IF c.phase = "charged" THEN "succeeded" ELSE "failed"]
    /\ Answered(c, IF c.phase = "charged" THEN "ok" ELSE "refused")
    /\ UNCHANGED <<rowVars, listed, sagaVars, cancel, resVars, charged>>

VoidIntent(c) ==
    /\ c.op = "void"
    /\ intent' = [intent EXCEPT ![c.order] = IF @ = "requires_capture" THEN "voided" ELSE @]
    /\ Answered(c, IF intent'[c.order] = "voided" THEN "ok" ELSE "refused")
    /\ UNCHANGED <<rowVars, listed, sagaVars, cancel, resVars, charged>>

\* A service gives up on a call without a further effect: findById throws, or
\* the attempt cannot be recorded after the PSP has charged.
FailsInside(c) ==
    /\ "internal" \in Faults
    /\ Answer(c, "refused")
    /\ UNCHANGED <<rowVars, listed, sagaVars, cancel, resVars, payVars>>

-----------------------------------------------------------------------------

SagaStep(o) ==
    \/ OrderOpened(o)
    \/ ReservationCreated(o) \/ IntentCreated(o) \/ Captured(o) \/ Committed(o)
    \/ Released(o) \/ Voided(o) \/ CallRefused(o) \/ CallTimesOut(o)
    \/ MarkReserved(o) \/ AttachPaymentIntent(o) \/ MarkConfirmed(o) \/ MarkFailed(o)
    \/ StatementFails(o)

CancelStep(o) == CancelReply(o) \/ CancelTimesOut(o)

ServiceStep(c) ==
    \/ CreateReservation(c) \/ CommitReservation(c) \/ ReleaseReservation(c)
    \/ CreateIntent(c) \/ CaptureAtPsp(c) \/ CaptureWithoutPsp(c)
    \/ CaptureSettles(c) \/ VoidIntent(c) \/ FailsInside(c)

Next ==
    \/ \E o \in Orders :
           \/ PlaceOrder(o) \/ SagaStep(o)
           \/ CancelStart(o) \/ CancelStep(o) \/ ShipOrder(o) \/ ListShipment(o)
           \/ StockRowChanges(o) \/ ReservationExpires(o) \/ ExpireReservation(o)
           \/ \E op \in {"commit", "release", "capture", "void"} : ClientCall(o, op)
    \/ \E c \in calls : ServiceStep(c) \/ RequestLost(c)
    \/ \E s \in listed : AdvanceShipment(s)
    \/ ExpiryTick
    \/ TickFails
    \/ OrdersCrash

Spec == Init /\ [][Next]_vars

\* A handler that runs goes on (Node runs every ready continuation and the
\* HTTP client bounds every wait), services answer the calls they received,
\* clocks advance and the expiry timer keeps ticking; a tick whose statements
\* throw now and then does not throw at the same reservation every time.  Nothing
\* forces a client to place, cancel or ship an order.
Fairness ==
    /\ \A o \in Orders :
           /\ WF_vars(SagaStep(o))
           /\ WF_vars(CancelStep(o))
           /\ WF_vars(ReservationExpires(o))
           /\ SF_vars(ExpireReservation(o))
    /\ WF_vars(\E c \in calls : ServiceStep(c))
    /\ WF_vars(ExpiryTick)

FairSpec == Spec /\ Fairness

-----------------------------------------------------------------------------
(* Properties *)

Sold(o) == status[o] \in {"confirmed", "shipped"}

\* Nothing of order o is still running: its saga has ended and no request of
\* any caller is on its way.
Quiet(o) == saga[o] = "done" /\ \A c \in calls : c.order # o

\* An order the customer sees as confirmed or shipped has taken its stock and
\* was charged for, whatever was lost, delayed, repeated by clients or crashed
\* on the way (placeOrder.ts: capture, then commit, then markConfirmed).
SoldIsCommittedAndCharged ==
    \A o \in Orders : Sold(o) => reservation[o] = "committed" /\ o \in charged

\* A cancellation works on a confirmed, unshipped order until its transaction
\* ends: shipOrder and the saga's late markFailed wait for the row lock.
CancelSeesConfirmed ==
    \A o \in Orders : cancel[o] # "idle" => status[o] = "confirmed" /\ shipment[o] = "none"

\* What placeOrder opened for order o is closed again, unless a call that was to
\* tell it what it opened, or to close it, ended in a throw: the creation, the
\* release (which skips the void) or the void.
OpenOnlyAfterThrow(o) ==
    /\ reservation[o] = "pending" =>
           thrown[o] \cap {"createReservation", "release"} # {}
    /\ intent[o] = "requires_capture" =>
           thrown[o] \cap {"createIntent", "release", "void"} # {}

\* A failed order leaves stock reserved only where the creation or the release of
\* its reservation threw, and an intent open only where the creation of the
\* intent, the release or the void threw: no crash, no refused capture or commit,
\* no failing statement of the orders database and no call of anybody else leaves
\* either open (compensation.ts:12-40).
FailedLeavesNothingOpen ==
    \A o \in Orders : status[o] = "failed" => OpenOnlyAfterThrow(o)

\* How far the customer of order o has seen a sale get.
Seen(o) ==
    IF ~Sold(o) THEN 0
    ELSE CASE shipment[o] = "none" -> 1
           [] shipment[o] = "preparing" -> 2
           [] shipment[o] = "dispatched" -> 3
           [] shipment[o] = "delivered" -> 4

\* A sale moves on by one stage at a time and never back: no late compensation
\* or cancellation undoes it, although the saga compensates after an UPDATE
\* whose answer was lost, and no late tick resets a shipment.
SoldMovesForward == [][\A o \in Orders : Seen(o)' \in {Seen(o), Seen(o) + 1}]_vars

\* The reservation of an order moves as the inventory service promises.
Contract == INSTANCE ReservationContract WITH Reservations <- Orders
ReservationAsPromised == Contract!Spec

\* Neither o nor a reservation listed before it is one that its stock row refuses.
NothingInTheWay(o) == \A q \in earlier[o] \cup {o} : ~RowRefuses(q)

\* Reserved stock does not stay reserved: it is committed, released, or given
\* back by the expiry job, even when the saga crashed or never learned of it.
\* The one thing that keeps it is a stock row that for ever, or again and again,
\* refuses the release of this reservation or of one that expires before it, as
\* that ends every tick (reservationService.ts:171-173).
StockNotHeldForever ==
    \A o \in Orders :
        <>[]NothingInTheWay(o) =>
            (reservation[o] = "pending" ~> reservation[o] \in {"committed", "released"})

\* A placeOrder that ends leaves a decided order: whatever was refused, lost or
\* late, and whoever moved the order meanwhile, it is neither pending nor reserved
\* when the handler ends.  A statement leaves it undecided in two places only: one
\* that throws before the try block, when nothing was called yet
\* (orderRepository.ts:170, placeOrder.ts:45), and the one that fails the order.
EndsDecided ==
    [][\A o \in Orders :
           /\ saga[o] # "done" /\ saga'[o] = "done"
           /\ status'[o] \in {"pending", "reserved"}
           => /\ StatementFails(o)
              /\ \/ saga[o] = "opened" /\ reservation[o] = "none" /\ intent[o] = "none"
                 \/ saga[o] = "markFailed"]_vars

\* README.md:39, "On any failure, reservations are released and the payment
\* intent is voided": a failed order keeps neither stock nor money.
FailedOrderIsUndone ==
    \A o \in Orders : status[o] = "failed" /\ Quiet(o) =>
        reservation[o] # "committed" /\ intent[o] # "succeeded"

\* cancelOrder.test.ts:10, "locks a confirmed unshipped order, compensates, and
\* marks it cancelled": the calls such a cancellation makes are not refused.
CancelIsNotRefused == \A o \in Orders : reply[o].cancel # "refused"
=============================================================================
