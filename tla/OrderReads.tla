----------------------------- MODULE OrderReads -----------------------------
(***************************************************************************)
(* services/orders: GET of an order and of its timeline, each through a    *)
(* read-through cache that every write of the order or its shipment is to  *)
(* evict, and what services/returns makes of the order it reads: a return  *)
(* of some of its goods.                                                   *)
(*                                                                         *)
(* One order of one line.  Its writers are the saga that places it,        *)
(* shipOrder and the ticks of the shipment job; OrderSaga has their other  *)
(* steps.  cancelOrder is left out: it never succeeds (CancelNeverSucceeds *)
(* of OrderSaga).  Time is counted in ticks.                               *)
(***************************************************************************)
EXTENDS Naturals, Sequences, FiniteSets, Functions

CONSTANTS
    Readers,        \* requests that read the order at the same time
    Ticks,          \* ticks of the shipment job that may overlap
    OrderTtl,       \* time to live of a cached order
    TimelineTtl,    \* time to live of a cached timeline
    MaxRequest,     \* ticks between the first and the last command of a read
    Ordered,        \* ordered quantity
    MaxReturns      \* bound: returns of the order

ASSUME OrderReadsAssumption ==
    /\ {"saga", "ship"} \cap Ticks = {}
    /\ {OrderTtl, TimelineTtl} \subseteq Nat \ {0}
    /\ {MaxRequest, Ordered, MaxReturns} \subseteq Nat

VARIABLES
    row,            \* the rows of orders and shipments
    saga,           \* whether placeOrder goes on, is to fail the order, or is over
    owed,           \* writers that have yet to delete the cached values
    cached,         \* order:<id> and order:<id>:timeline
    read,           \* the requests that read
    returned        \* quantities of the returns created

orderReadsVars == <<row, saga, owed, cached, read, returned>>

-----------------------------------------------------------------------------
(* Types *)

Kinds == {"order", "timeline"}

Writers == {"saga", "ship"} \cup Ticks

\* "intended" is status reserved with the payment intent attached.
Statuses == {"pending", "reserved", "intended", "confirmed", "shipped", "failed"}

Shipments == {"none", "preparing", "dispatched", "delivered"}

Ttl(kind) == IF kind = "order" THEN OrderTtl ELSE TimelineTtl

MaxTtl == IF OrderTtl > TimelineTtl THEN OrderTtl ELSE TimelineTtl

\* Ages are told apart up to the first that is too old for either cache.
TooOld == MaxTtl + MaxRequest + 1

\* What a reader loaded, how long ago a part of it was superseded, and whether a
\* deletion of the cached value came, or failed, after it was loaded.
Loaded == [status : Statuses, shipment : Shipments, old : 0 .. TooOld, passedBy : BOOLEAN]

Nothing == [status |-> "pending", shipment |-> "none", old |-> 0, passedBy |-> FALSE]

NoEntry == [value |-> Nothing, ttl |-> 0]

\* A read of a kind at p that has nothing to load yet, or any more.
Read(kind, p, v) == [kind |-> kind, at |-> p, loaded |-> 0, value |-> v, age |-> 0]

OrderReadsTypeOK ==
    /\ row \in [status : Statuses, shipment : Shipments]
    /\ saga \in {"going", "failing", "over"}
    /\ owed \subseteq Writers
    /\ cached \in [Kinds -> [value : Loaded, ttl : 0 .. MaxTtl]]
    /\ read \in [Readers -> [kind : Kinds, at : {"idle", "look", "load", "store", "answered"},
                             loaded : 0 .. 2, value : Loaded, age : 0 .. MaxRequest]]
    /\ returned \in Seq(1 .. Ordered)

\* createPending has committed; its invalidateOrderCache is yet to come.
OrderReadsInit ==
    /\ row = [status |-> "pending", shipment |-> "none"]
    /\ saga = "going"
    /\ owed = {"saga"}
    /\ cached = [k \in Kinds |-> NoEntry]
    /\ read = [r \in Readers |-> Read("order", "idle", Nothing)]
    /\ returned = <<>>

Outdated(kind, v) ==
    \/ v.status # row.status
    \/ kind = "timeline" /\ v.shipment # row.shipment

-----------------------------------------------------------------------------
(* Writers *)

\* An UPDATE of writer w, with the deletion of the cached values to come.
Writes(w, status, shipment) ==
    /\ w \notin owed
    /\ row' = [status |-> status, shipment |-> shipment]
    /\ owed' = owed \cup {w}
    /\ UNCHANGED <<cached, read, returned>>

\* markReserved, attachPaymentIntent, markConfirmed
SagaWrites ==
    /\ saga = "going"
    /\ \E s \in {<<"pending", "reserved">>, <<"reserved", "intended">>, <<"intended", "confirmed">>} :
           row.status = s[1] /\ Writes("saga", s[2], row.shipment)
    /\ saga' = saga

\* A call or an UPDATE of the saga threw: markFailed.
MarkFailed ==
    /\ saga # "over"
    /\ row.status \in {"pending", "reserved", "intended"}
    /\ Writes("saga", "failed", row.shipment)
    /\ saga' = "over"

\* shipOrder commits.
ShipOrder ==
    /\ row = [status |-> "confirmed", shipment |-> "none"]
    /\ Writes("ship", "shipped", "preparing")
    /\ UNCHANGED saga

\* advanceStatus
Advance(t) ==
    /\ \E s \in {<<"preparing", "dispatched">>, <<"dispatched", "delivered">>} :
           row.shipment = s[1] /\ Writes(t, row.status, s[2])
    /\ UNCHANGED saga

\* A reader that has loaded something is passed by a deletion of the cached values.
PassedBy(r) == read[r].loaded > 0

Passing == [r \in Readers |->
    IF PassedBy(r) THEN [read[r] EXCEPT !.value.passedBy = TRUE] ELSE read[r]]

\* Seeded fault: the key of the timeline is forgotten.
InvalidateOrderCache_OrderOnly(w) ==
    /\ w \in owed
    /\ owed' = owed \ {w}
    /\ cached' = [cached EXCEPT !["order"] = NoEntry]
    /\ read' = Passing
    /\ UNCHANGED <<row, saga, returned>>

\* invalidateOrderCache: one DEL of both keys.
InvalidateOrderCache(w) ==
    /\ w \in owed
    /\ owed' = owed \ {w}
    /\ cached' = [k \in Kinds |-> NoEntry]
    /\ read' = Passing
    /\ UNCHANGED <<row, saga, returned>>

\* Redis rejects the DEL, or the writer never gets there: it died, or the answer
\* of its UPDATE was lost.  placeOrder then fails the order, if it has the chance:
\* createPending's DEL and the last one are not in its try block.
NeverInvalidates(w) ==
    /\ w \in owed
    /\ owed' = owed \ {w}
    /\ cached' = [k \in Kinds |-> [cached[k] EXCEPT !.value.passedBy = cached[k].ttl > 0]]
    /\ read' = Passing
    /\ saga' \in IF w # "saga" THEN {saga}
                 ELSE IF row.status \in {"reserved", "intended"} THEN {"failing", "over"}
                 ELSE {"over"}
    /\ UNCHANGED <<row, returned>>

-----------------------------------------------------------------------------
(* Readers: withCache around findByIdOrThrow, or around the timeline *)

Reading(r) == read[r].at \in {"look", "load", "store"}

ReadGoes(r, p) == read' = [read EXCEPT ![r].at = p]

\* A read is over, with v.
Answered(r, v) == [read EXCEPT ![r] = Read(@.kind, "answered", v)]

\* GET /orders/:id, also the call of returns, and GET /orders/:id/timeline.
BeginRead(r, kind) ==
    /\ read[r].at \in {"idle", "answered"}
    /\ read' = [read EXCEPT ![r] = Read(kind, "look", Nothing)]
    /\ UNCHANGED <<row, saga, owed, cached, returned>>

\* Seeded fault: a hit sets the time to live again.
Hit_Renews(r) ==
    LET k == read[r].kind IN
    /\ cached[k].ttl > 0
    /\ read' = Answered(r, cached[k].value)
    /\ cached' = [cached EXCEPT ![k].ttl = Ttl(k)]

Hit(r) ==
    LET k == read[r].kind IN
    /\ cached[k].ttl > 0
    /\ read' = Answered(r, cached[k].value)
    /\ cached' = cached

Miss(r) ==
    /\ cached[read[r].kind].ttl = 0
    /\ ReadGoes(r, "load")
    /\ cached' = cached

\* cache.get
Look(r) ==
    /\ read[r].at = "look"
    /\ Hit(r) \/ Miss(r)
    /\ UNCHANGED <<row, saga, owed, returned>>

\* Seeded fault: the shipment is read before its order.
Statements_ShipmentFirst(kind) ==
    IF kind = "order" THEN <<"order">> ELSE <<"shipment", "order">>

\* The loaders: the row of the order (its lines, read next, never change), and for
\* timelines.assemble then its shipment.
Statements(kind) ==
    IF kind = "order" THEN <<"order">> ELSE <<"order", "shipment">>

\* The next statement of the loader.
Load(r) ==
    LET n == read[r].loaded + 1
        all == Statements(read[r].kind)
        v == read[r].value
    IN
    /\ read[r].at = "load"
    /\ read' = [read EXCEPT
                   ![r].at = IF n = Len(all) THEN "store" ELSE "load",
                   ![r].loaded = n,
                   ![r].value = IF all[n] = "order" THEN [v EXCEPT !.status = row.status]
                                ELSE [v EXCEPT !.shipment = row.shipment]]
    /\ UNCHANGED <<row, saga, owed, cached, returned>>

\* cache.set
Store(r) ==
    /\ read[r].at = "store"
    /\ cached' = [cached EXCEPT ![read[r].kind] =
                     [value |-> read[r].value, ttl |-> Ttl(read[r].kind)]]
    /\ read' = Answered(r, read[r].value)
    /\ UNCHANGED <<row, saga, owed, returned>>

\* A command or a statement fails, or the process dies.
ReadFails(r) ==
    /\ Reading(r)
    /\ read' = [read EXCEPT ![r] = Read("order", "idle", Nothing)]
    /\ UNCHANGED <<row, saga, owed, cached, returned>>

-----------------------------------------------------------------------------
(* services/returns: createReturnRequest *)

\* assertOrderRefundable
Refundable == {"confirmed", "shipped"}

\* What was answered to ordersClient.getOrder becomes a return.  The quantity is
\* compared with the order line only.
CreateReturn(r, qty) ==
    /\ read[r].kind = "order"
    /\ read[r].at = "answered"
    /\ read[r].value.status \in Refundable
    /\ qty <= Ordered
    /\ Len(returned) < MaxReturns
    /\ returned' = Append(returned, qty)
    /\ read' = [read EXCEPT ![r] = Read("order", "idle", Nothing)]
    /\ UNCHANGED <<row, saga, owed, cached>>

-----------------------------------------------------------------------------

\* What was loaded grows old once it is outdated.
Aged(kind, v) ==
    IF Outdated(kind, v) /\ v.old < TooOld THEN [v EXCEPT !.old = @ + 1] ELSE v

\* Time passes, for everyone who is not at the end of MaxRequest.
TimePasses ==
    /\ \A r \in Readers : Reading(r) => read[r].age < MaxRequest
    /\ cached' = [k \in Kinds |->
                     IF cached[k].ttl <= 1 THEN NoEntry
                     ELSE [value |-> Aged(k, cached[k].value), ttl |-> cached[k].ttl - 1]]
    /\ read' = [r \in Readers |->
                   IF ~Reading(r) THEN read[r]
                   ELSE [read[r] EXCEPT !.age = @ + 1,
                             !.value = IF PassedBy(r) THEN Aged(read[r].kind, @) ELSE @]]
    /\ UNCHANGED <<row, saga, owed, returned>>

WriterStep ==
    \/ SagaWrites \/ MarkFailed \/ ShipOrder
    \/ \E t \in Ticks : Advance(t)
    \/ \E w \in Writers : InvalidateOrderCache(w) \/ NeverInvalidates(w)

ReaderStep(r) ==
    \/ \E k \in Kinds : BeginRead(r, k)
    \/ Look(r) \/ Load(r) \/ Store(r) \/ ReadFails(r)
    \/ \E qty \in 1 .. Ordered : CreateReturn(r, qty)

OrderReadsNext == WriterStep \/ (\E r \in Readers : ReaderStep(r)) \/ TimePasses

OrderReadsSpec == OrderReadsInit /\ [][OrderReadsNext]_orderReadsVars

-----------------------------------------------------------------------------
(* Properties *)

Ended(r) == read[r].at = "answered"

\* Every value that is cached or was answered, with its kind.
CachedValues == {<<k, cached[k].value>> : k \in {j \in Kinds : cached[j].ttl > 0}}
AnsweredValues == {<<read[r].kind, read[r].value>> : r \in {s \in Readers : Ended(s)}}

\* A timeline is assembled from two statements with shipOrder's commit anywhere
\* around them; it never shows an order as shipped and no shipment.
TimelineAgrees ==
    \A kv \in CachedValues \cup AnsweredValues :
        kv[1] = "timeline" /\ kv[2].status = "shipped" => kv[2].shipment # "none"

\* A client sees no state of an order that was over for longer than the cache keeps
\* it, and a read takes: not when a reader stores what it read before a write that
\* has already deleted the key, and not when that deletion is lost.
AnswersAreRecent ==
    \A kv \in AnsweredValues : kv[2].old <= Ttl(kv[1]) + MaxRequest

\* An outdated value is cached only while the writer that outdated it is about to
\* delete it, or when a deletion was lost or came between a reader's statement and
\* its SET: every UPDATE of the order or its shipment evicts both keys, after it.
OutdatedIsExplained ==
    \A kv \in CachedValues : Outdated(kv[1], kv[2]) => owed # {} \/ kv[2].passedBy

\* A return is created from an order that may be read from the cache, in a status
\* long over; it is still one of an order that was sold, and stays sold.
RefundsOnlySold == returned # <<>> => row.status \in {"confirmed", "shipped"}

\* No more is returned than was ordered.  Every return is compared with the order
\* alone, so several returns together take more.
ReturnedWithinOrdered == FoldFunction(+, 0, returned) <= Ordered

\* A client that was answered does not see an earlier state later.  It does: a
\* timeline may be older than an order that was read before it.
ShippedShowsEverywhere ==
    \A r, s \in Readers :
        Ended(r) /\ Ended(s) /\ read[r].value.status = "shipped"
            => read[s].value.status = "shipped"
=============================================================================
