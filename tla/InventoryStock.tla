--------------------------- MODULE InventoryStock ---------------------------
(***************************************************************************)
(* Stock rows and reservations of services/inventory, one SQL statement at *)
(* a time.  A session is a pool connection inside withTx: PostgreSQL READ  *)
(* COMMITTED, so a SELECT reads the last committed version of a row (or    *)
(* the session's own), an UPDATE waits for the session that has an         *)
(* uncommitted version and then re-evaluates its WHERE on the newest one,  *)
(* and a throw rolls everything back.                                      *)
(*                                                                         *)
(* Products and warehouses are numbered in the order of their ids.         *)
(***************************************************************************)
EXTENDS Integers, FiniteSets, Functions

CONSTANTS
    NumProducts, NumWarehouses,
    Reservations,   \* reservation ids
    Wanted,         \* what each reservation asks for, per product
    InitialStock,   \* on_hand of every stock row at the start
    Sessions,       \* concurrent transactions
    Operations,     \* the requests a run allows, a subset of AllOperations
    MaxQty,         \* bound: largest quantity of an adjustment, transfer or count
    MaxOnHand       \* bound: on_hand up to which adjustments and transfers add

AllOperations == {"create", "commit", "release", "adjust", "transfer", "count"}

Products == 1..NumProducts
Warehouses == 1..NumWarehouses
Rows == Products \X Warehouses

ASSUME StockAssumption ==
    /\ NumProducts \in Nat
    /\ NumWarehouses \in Nat
    /\ Wanted \in [Reservations -> [Products -> Nat]]
    /\ InitialStock \in [Rows -> Nat]
    /\ Operations \subseteq AllOperations
    /\ MaxQty \in Nat
    /\ MaxOnHand \in Nat

VARIABLES
    stock,          \* stock_levels: the committed on_hand and reserved per row
    movements,      \* sum of stock_movements.delta per row
    reservation,    \* stock_reservations.status, "none" before the row
    lines,          \* stock_reservation_lines.qty per stock row, 0 for none
    overwritten,    \* history: rows on which a commit undid another transaction
    tx              \* the transaction of each session

vars == <<stock, movements, reservation, lines, overwritten, tx>>

StockRow == [onHand : Int, reserved : Int]

ReservationStatus == {"none", "pending", "committed", "released"}

NoRow == [onHand |-> -1, reserved |-> -1]

\* need: quantities per product still to be planned; todo: quantities per row
\* still to be written; done: those written, as lines or movements; read: what a SELECT
\* returned; own: the uncommitted versions of the rows in locked; blind: those
\* computed from a row that had changed since it was read.
Tx ==
    [op : AllOperations \cup {"none"}, res : Reservations \cup {"none"},
     need : [Products -> Nat], todo : [Rows -> Int], done : [Rows -> Int],
     read : StockRow, locked : SUBSET Rows, own : [Rows -> StockRow],
     blind : SUBSET Rows]

NothingTodo == [x \in Rows |-> 0]

NoTx ==
    [op |-> "none", res |-> "none", need |-> [p \in Products |-> 0],
     todo |-> NothingTodo, done |-> NothingTodo, read |-> NoRow, locked |-> {},
     own |-> [x \in Rows |-> NoRow], blind |-> {}]

TypeOK ==
    /\ stock \in [Rows -> StockRow]
    /\ movements \in [Rows -> Int]
    /\ reservation \in [Reservations -> ReservationStatus]
    /\ lines \in [Reservations -> [Rows -> Int]]
    /\ overwritten \subseteq Rows
    /\ tx \in [Sessions -> Tx]

Init ==
    /\ stock = [x \in Rows |-> [onHand |-> InitialStock[x], reserved |-> 0]]
    /\ movements = [x \in Rows |-> 0]
    /\ reservation = [r \in Reservations |-> "none"]
    /\ lines = [r \in Reservations |-> NothingTodo]
    /\ overwritten = {}
    /\ tx = [t \in Sessions |-> NoTx]

-----------------------------------------------------------------------------
(* Transactions *)

\* The newest version of a row that session t may see.
Sees(t, x) == IF x \in tx[t].locked THEN tx[t].own[x] ELSE stock[x]

LockedByOther(t, x) == \E u \in Sessions \ {t} : x \in tx[u].locked

\* The reservation row is held by SELECT ... FOR UPDATE.
ReservationLocked(r) ==
    \E u \in Sessions : tx[u].res = r /\ tx[u].op \in {"commit", "release"}

\* Session t starts a transaction.
Begin(t, op, r, need, todo) ==
    /\ tx[t] = NoTx
    /\ op \in Operations
    /\ tx' = [tx EXCEPT ![t] =
                [NoTx EXCEPT !.op = op, !.res = r, !.need = need, !.todo = todo]]
    /\ UNCHANGED <<stock, movements, reservation, lines, overwritten>>

Rollback(t) ==
    /\ tx' = [tx EXCEPT ![t] = NoTx]
    /\ UNCHANGED <<stock, movements, reservation, lines, overwritten>>

\* An UPDATE of row x: the session has a new version of it and the row's lock.
\* The version is blind if it was computed from what a SELECT had read (a commit's
\* only) and the row is not that any more.
Write(t, x, row, delta) ==
    /\ LET mine == tx[t]
       IN tx' = [tx EXCEPT ![t] = [mine EXCEPT !.locked = @ \cup {x},
                                               !.own[x] = row,
                                               !.todo[x] = 0,
                                               !.done[x] = @ + delta,
                                               !.blind = IF mine.read \in {NoRow, Sees(t, x)}
                                                         THEN @ ELSE @ \cup {x},
                                               !.read = NoRow]]
    /\ UNCHANGED <<stock, movements, reservation, lines, overwritten>>

\* The order in which a transaction writes its rows: a creation in the order of
\* planAllocations, which is by quantity since only its last allocation may be
\* less than what is available; a commit or release in the order of listLines;
\* a transfer the source first.
Before(op, todo, x, y) ==
    CASE op = "create" ->
            todo[x] > todo[y] \/ (todo[x] = todo[y] /\ x[2] < y[2])
      [] op = "transfer" -> todo[x] < todo[y]
      [] OTHER -> x[1] < y[1] \/ (x[1] = y[1] /\ x[2] < y[2])

\* Seeded fault: listLines without its ORDER BY.
NextRow_Unordered(t, x) == tx[t].todo[x] # 0

\* Row x is the one the next statement of session t is about.
NextRow(t, x) ==
    LET todo == tx[t].todo
    IN /\ todo[x] # 0
       /\ \A y \in Rows : todo[y] # 0 /\ y # x => Before(tx[t].op, todo, x, y)

\* A statement throws: the connection breaks, the service dies, or PostgreSQL
\* picks the transaction to end a deadlock.
Abort(t) ==
    /\ tx[t] # NoTx
    /\ Rollback(t)

\* The status a reservation has when transaction op on it commits.
SetStatus(op) ==
    CASE op = "create" -> "pending" [] op = "commit" -> "committed" [] OTHER -> "released"

\* COMMIT: everything the transaction wrote becomes visible at once.
Commit(t) ==
    LET op == tx[t].op
    IN /\ tx[t] # NoTx
       /\ tx[t].todo = NothingTodo
       /\ \A p \in Products : tx[t].need[p] = 0
       /\ stock' = [x \in Rows |-> Sees(t, x)]
       /\ movements' = IF op \in {"create", "release"} THEN movements
                       ELSE [x \in Rows |-> movements[x] + tx[t].done[x]]
       /\ reservation' = IF op \in {"create", "commit", "release"}
                         THEN [reservation EXCEPT ![tx[t].res] = SetStatus(op)]
                         ELSE reservation
       /\ lines' = IF op = "create" THEN [lines EXCEPT ![tx[t].res] = tx[t].done] ELSE lines
       /\ overwritten' = overwritten \cup tx[t].blind
       /\ tx' = [tx EXCEPT ![t] = NoTx]

-----------------------------------------------------------------------------
(* createReservation *)

\* The lines of a request, normalised to one quantity per product.
BeginCreate(t, r) ==
    /\ reservation[r] = "none"
    /\ \A u \in Sessions : tx[u].res # r
    /\ Begin(t, "create", r, Wanted[r], NothingTodo)

\* planAllocations(product, qty, candidates): the warehouses with the most
\* available stock first, each emptied before the next is touched.
IsAllocation(take, qty, available) ==
    LET Earlier(w, v) == available[w] > available[v] \/ (available[w] = available[v] /\ w < v)
    IN /\ \A w \in Warehouses : take[w] <= available[w]
       /\ \A v, w \in Warehouses : Earlier(w, v) /\ take[v] > 0 => take[w] = available[w]
       /\ SumFunction(take) = qty

\* listAvailableForProduct and planAllocations for the next product.
PlanProduct(t) ==
    /\ tx[t].op = "create"
    /\ tx[t].todo = NothingTodo
    /\ \E p \in Products :
        LET qty == tx[t].need[p]
            available == [w \in Warehouses |->
                LET row == Sees(t, <<p, w>>) IN
                IF row.onHand > row.reserved THEN row.onHand - row.reserved ELSE 0]
        IN /\ qty > 0
           /\ \A q \in Products : q < p => tx[t].need[q] = 0
           /\ IF SumFunction(available) < qty
              THEN Rollback(t)              \* INSUFFICIENT_STOCK
              ELSE \E take \in [Warehouses -> 0..qty] :
                     /\ IsAllocation(take, qty, available)
                     /\ tx' = [tx EXCEPT
                          ![t].need[p] = 0,
                          ![t].todo = [x \in Rows |-> IF x[1] = p THEN take[x[2]] ELSE 0]]
                     /\ UNCHANGED <<stock, movements, reservation, lines, overwritten>>

\* Seeded fault: an allocation that finds too little stock is skipped.
ReserveAvailable_Skip(t, x) ==
    LET row == Sees(t, x)
        qty == tx[t].todo[x]
    IN /\ tx[t].op = "create"
       /\ NextRow(t, x)
       /\ ~LockedByOther(t, x)
       /\ IF row.onHand - row.reserved >= qty
          THEN Write(t, x, [row EXCEPT !.reserved = @ + qty], qty)
          ELSE /\ tx' = [tx EXCEPT ![t].todo[x] = 0]
               /\ UNCHANGED <<stock, movements, reservation, lines, overwritten>>

\* Seeded fault: the UPDATE trusts the availability that was planned with.
ReserveAvailable_Unguarded(t, x) ==
    LET row == Sees(t, x)
        qty == tx[t].todo[x]
    IN /\ tx[t].op = "create"
       /\ NextRow(t, x)
       /\ ~LockedByOther(t, x)
       /\ Write(t, x, [row EXCEPT !.reserved = @ + qty], qty)

\* reserveAvailable, a guarded relative UPDATE, and insertLine.
ReserveAvailable(t, x) ==
    LET row == Sees(t, x)
        qty == tx[t].todo[x]
    IN /\ tx[t].op = "create"
       /\ NextRow(t, x)
       /\ ~LockedByOther(t, x)
       /\ IF row.onHand - row.reserved >= qty
          THEN Write(t, x, [row EXCEPT !.reserved = @ + qty], qty)
          ELSE Rollback(t)

-----------------------------------------------------------------------------
(* commitReservation and releaseReservation *)

\* Seeded fault: the reservation row is read without FOR UPDATE.
BeginSettle_NoLock(t, op, r) ==
    /\ reservation[r] = "pending"
    /\ Begin(t, op, r, [p \in Products |-> 0], lines[r])

\* The row is locked and pending; one that is settled already is only
\* reported or refused.
BeginSettle(t, op, r) ==
    /\ reservation[r] = "pending"
    /\ ~ReservationLocked(r)
    /\ Begin(t, op, r, [p \in Products |-> 0], lines[r])

\* Seeded fault: commitReserved does not compare the quantity with the row.
CommitSelect_Unchecked(t, x) ==
    /\ tx[t].op = "commit"
    /\ NextRow(t, x)
    /\ tx[t].read = NoRow
    /\ tx' = [tx EXCEPT ![t].read = Sees(t, x)]
    /\ UNCHANGED <<stock, movements, reservation, lines, overwritten>>

\* commitReserved reads the row with a plain SELECT ...
CommitSelect(t, x) ==
    LET row == Sees(t, x)
        qty == tx[t].todo[x]
    IN /\ tx[t].op = "commit"
       /\ NextRow(t, x)
       /\ tx[t].read = NoRow
       /\ IF row.reserved < qty \/ row.onHand < qty
          THEN Rollback(t)
          ELSE /\ tx' = [tx EXCEPT ![t].read = row]
               /\ UNCHANGED <<stock, movements, reservation, lines, overwritten>>

\* ... and writes what it computed from it.
CommitUpdate(t, x) ==
    LET qty == tx[t].todo[x]
        read == tx[t].read
    IN /\ tx[t].op = "commit"
       /\ NextRow(t, x)
       /\ read # NoRow
       /\ ~LockedByOther(t, x)
       /\ Write(t, x, [onHand |-> read.onHand - qty, reserved |-> read.reserved - qty], -qty)

\* Seeded fault: releaseReserved also gives the quantity back to on_hand.
ReleaseReserved_OnHand(t, x) ==
    LET row == Sees(t, x)
        qty == tx[t].todo[x]
    IN /\ tx[t].op = "release"
       /\ NextRow(t, x)
       /\ ~LockedByOther(t, x)
       /\ IF row.reserved >= qty
          THEN Write(t, x, [onHand |-> row.onHand + qty, reserved |-> row.reserved - qty], qty)
          ELSE Rollback(t)

\* releaseReserved, a guarded relative UPDATE.
ReleaseReserved(t, x) ==
    LET row == Sees(t, x)
        qty == tx[t].todo[x]
    IN /\ tx[t].op = "release"
       /\ NextRow(t, x)
       /\ ~LockedByOther(t, x)
       /\ IF row.reserved >= qty
          THEN Write(t, x, [row EXCEPT !.reserved = @ - qty], qty)
          ELSE Rollback(t)

-----------------------------------------------------------------------------
(* adjust, transferStock and recordCycleCount *)

BeginAdjust(t, x, delta) ==
    /\ stock[x].onHand + delta <= MaxOnHand
    /\ Begin(t, "adjust", "none", [p \in Products |-> 0], [NothingTodo EXCEPT ![x] = delta])

BeginTransfer(t, x, y, qty) ==
    /\ x # y
    /\ x[1] = y[1]
    /\ stock[y].onHand + qty <= MaxOnHand
    /\ Begin(t, "transfer", "none", [p \in Products |-> 0],
             [NothingTodo EXCEPT ![x] = -qty, ![y] = qty])

\* adjustOnHand, and both UPDATEs of a transfer: on_hand changes by delta and
\* must not become negative; reserved is not looked at.
Move(t, x) ==
    LET row == Sees(t, x)
        delta == tx[t].todo[x]
    IN /\ tx[t].op \in {"adjust", "transfer"}
       /\ NextRow(t, x)
       /\ ~LockedByOther(t, x)
       /\ IF row.onHand + delta >= 0
          THEN Write(t, x, [row EXCEPT !.onHand = @ + delta], delta)
          ELSE Rollback(t)

\* recordCycleCount: SELECT ... FOR UPDATE, then on_hand becomes what was
\* counted unless that is less than what is reserved.
CycleCount(t, x, counted) ==
    LET row == stock[x]
    IN /\ "count" \in Operations
       /\ tx[t] = NoTx
       /\ ~LockedByOther(t, x)
       /\ row.reserved <= counted
       /\ tx' = [tx EXCEPT ![t] =
                   [NoTx EXCEPT !.op = "count",
                       !.done = [NothingTodo EXCEPT ![x] = counted - row.onHand],
                       !.locked = {x},
                       !.own[x] = [row EXCEPT !.onHand = counted]]]
       /\ UNCHANGED <<stock, movements, reservation, lines, overwritten>>

-----------------------------------------------------------------------------

Settle(t, x) == CommitSelect(t, x) \/ CommitUpdate(t, x) \/ ReleaseReserved(t, x)

Next ==
    \E t \in Sessions :
        \/ \E r \in Reservations :
               BeginCreate(t, r) \/ BeginSettle(t, "commit", r) \/ BeginSettle(t, "release", r)
        \/ PlanProduct(t)
        \/ \E x \in Rows : ReserveAvailable(t, x) \/ Settle(t, x) \/ Move(t, x)
        \/ \E x \in Rows, q \in 1..MaxQty :
               BeginAdjust(t, x, q) \/ BeginAdjust(t, x, -q)
        \/ \E x, y \in Rows, q \in 1..MaxQty : BeginTransfer(t, x, y, q)
        \/ \E x \in Rows, q \in 0..MaxQty : CycleCount(t, x, q)
        \/ Commit(t)
        \/ Abort(t)

Spec == Init /\ [][Next]_vars

-----------------------------------------------------------------------------
(* Properties *)

Pending == {r \in Reservations : reservation[r] = "pending"}

\* What the monitor alerts on (assertStockNonNegative): no stock row goes
\* negative, whatever transactions overlap, although commitReserved writes a
\* value computed from an unlocked SELECT and adjustments ignore reserved.
StockNonNegative == \A x \in Rows : stock[x].onHand >= 0 /\ stock[x].reserved >= 0

\* What the pending lines of a row promise of it.
Promised(x) == SumFunction([r \in Pending |-> lines[r][x]])

\* Unless adjustments or transfers take stock away, what the pending reservations
\* of a row were promised is in stock: no two creations that planned with the same
\* availability both get it, whatever commits, releases, counts and rollbacks
\* overlap them.  The one exception is a row on which a commit has overwritten a
\* version it had not read (stockLevelsRepository.ts:60-91): it may undo a creation
\* there and let another one have the same stock.
NeverOversold ==
    Operations \cap {"adjust", "transfer"} = {} =>
        \A x \in Rows \ overwritten : Promised(x) <= stock[x].onHand

\* A reservation that exists holds exactly what was asked for, however its
\* allocation was split and whoever took stock between plan and UPDATE.
ReservedInFull ==
    \A r \in Reservations : reservation[r] # "none" =>
        \A p \in Products :
            SumFunction([w \in Warehouses |-> lines[r][<<p, w>>]]) = Wanted[r][p]

\* What a row's reserved and on_hand are off from its pending lines and from
\* its movements.
Drift(x) ==
    [reserved |-> stock[x].reserved - Promised(x),
     onHand |-> stock[x].onHand - InitialStock[x] - movements[x]]

\* A row gets out of step with its lines or movements only at the end of a commit
\* that overwrote, on that row, a version it had not read (see
\* CommittedLeavesStock): all else, the other commits included, keeps every row
\* in step, however it is interleaved.
OnlyCommitsDrift ==
    [][\A x \in Rows :
           (\A t \in Sessions : x \in tx[t].blind => tx'[t] # NoTx) =>
               Drift(x)' = Drift(x)]_vars

\* Transactions that settle reservations meet their rows in one order, so
\* commits and releases never wait for each other in a circle.
WaitsFor(t, u) ==
    \E x \in tx[u].locked :
        /\ t # u
        /\ NextRow(t, x)
        /\ tx[t].op = "commit" => tx[t].read # NoRow

SettlersNeverDeadlock ==
    LET settlers == {t \in Sessions : tx[t].op \in {"commit", "release"}}
    IN \A S \in SUBSET settlers : S # {} => \E t \in S : \A u \in S : ~WaitsFor(t, u)

\* The row lock makes concurrent commits and releases of one reservation
\* settle it once and for good.
Contract == INSTANCE ReservationContract
ReservationAsPromised == Contract!Spec

\* docs/contracts.md:175, "POST /reservations/:id/commit -> decrements on_hand,
\* releases reserved": where only reservations move stock, what is gone from a
\* row is what the committed reservations took.
CommittedLeavesStock ==
    Operations \subseteq {"create", "commit", "release"} =>
        \A x \in Rows :
            stock[x].onHand = InitialStock[x] -
                SumFunction([r \in {q \in Reservations : reservation[q] = "committed"} |-> lines[r][x]])
=============================================================================
