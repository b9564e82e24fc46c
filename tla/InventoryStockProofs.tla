------------------------ MODULE InventoryStockProofs ------------------------
(***************************************************************************)
(* Proofs about InventoryStock, for any products, warehouses, requests and *)
(* number of overlapping transactions.  What a transaction has read or     *)
(* written but not committed must be as good as the committed rows, since  *)
(* it may become one of them: IInv says so.                                *)
(***************************************************************************)
EXTENDS InventoryStock, FiniteSums

Nonnegative(row) == row.onHand >= 0 /\ row.reserved >= 0

MayOversell == Operations \cap {"adjust", "transfer"} # {}

\* A row version that may be committed.
GoodRow(row) == Nonnegative(row) /\ (MayOversell \/ row.reserved <= row.onHand)

Reserving == {"create", "commit", "release"}

\* What session t holds: versions it may commit, quantities that are not
\* negative, and a SELECT that covers the quantity the next UPDATE subtracts.
SessionInv(t) ==
    /\ tx[t].op \in Operations \cup {"none"}
    /\ tx[t].op \in Reserving => tx[t].res \in Reservations
    /\ \A x \in tx[t].locked : GoodRow(tx[t].own[x])
    /\ tx[t].op \in Reserving => \A x \in Rows : tx[t].todo[x] >= 0
    /\ tx[t].op = "create" => \A x \in Rows : tx[t].done[x] >= 0
    /\ tx[t].op = "commit" /\ tx[t].read # NoRow =>
          /\ MayOversell \/ tx[t].read.reserved <= tx[t].read.onHand
          /\ \A x \in Rows : NextRow(t, x) =>
                tx[t].read.onHand >= tx[t].todo[x] /\ tx[t].read.reserved >= tx[t].todo[x]

IInv ==
    /\ TypeOK
    /\ \A x \in Rows : GoodRow(stock[x])
    /\ \A r \in Reservations, x \in Rows : lines[r][x] >= 0
    /\ \A t \in Sessions : SessionInv(t)

-----------------------------------------------------------------------------
(* Type correctness *)

LEMMA NoTxType == NoTx \in Tx
<1>1. NoRow \in StockRow
  BY DEF NoRow, StockRow
<1>2. NothingTodo \in [Rows -> Int]
  BY DEF NothingTodo
<1>3. QED
  BY <1>1, <1>2 DEF NoTx, Tx

LEMMA InitType == Init => TypeOK
<1>1. ASSUME Init
      PROVE  stock \in [Rows -> StockRow]
  BY <1>1, StockAssumption DEF Init, StockRow
<1>2. QED
  BY <1>1, NoTxType DEF Init, TypeOK, ReservationStatus, NothingTodo

LEMMA WriteType ==
    ASSUME TypeOK, NEW t \in Sessions, NEW x \in Rows, NEW row \in StockRow, NEW d \in Int,
           Write(t, x, row, d)
    PROVE  TypeOK'
<1>1. tx[t] \in Tx
  BY DEF TypeOK
<1>2. NoRow \in StockRow
  BY DEF NoRow, StockRow
<1> DEFINE new == [tx[t] EXCEPT !.locked = @ \cup {x}, !.own[x] = row, !.todo[x] = 0,
                                !.done[x] = @ + d,
                                !.blind = IF tx[t].read \in {NoRow, Sees(t, x)}
                                          THEN @ ELSE @ \cup {x},
                                !.read = NoRow]
<1>3. /\ [tx[t].own EXCEPT ![x] = row] \in [Rows -> StockRow]
      /\ [tx[t].todo EXCEPT ![x] = 0] \in [Rows -> Int]
      /\ [tx[t].done EXCEPT ![x] = @ + d] \in [Rows -> Int]
      /\ tx[t].locked \cup {x} \in SUBSET Rows
      /\ tx[t].blind \in SUBSET Rows /\ tx[t].blind \cup {x} \in SUBSET Rows
  BY <1>1 DEF Tx
<1>4. new \in Tx
  BY <1>1, <1>2, <1>3 DEF Tx
<1>5. tx' = [tx EXCEPT ![t] = new]
  BY DEF Write
<1>6. QED
  BY <1>4, <1>5 DEF Write, TypeOK

LEMMA BeginType ==
    ASSUME TypeOK, NEW t \in Sessions, NEW op \in AllOperations,
           NEW r \in Reservations \cup {"none"}, NEW need \in [Products -> Nat],
           NEW todo \in [Rows -> Int], Begin(t, op, r, need, todo)
    PROVE  TypeOK'
<1>1. [NoTx EXCEPT !.op = op, !.res = r, !.need = need, !.todo = todo] \in Tx
  BY NoTxType DEF Tx
<1>2. QED
  BY <1>1 DEF Begin, TypeOK

LEMMA RollbackType ==
    ASSUME TypeOK, NEW t \in Sessions, Rollback(t)
    PROVE  TypeOK'
BY NoTxType DEF Rollback, TypeOK

LEMMA RowTypes ==
    ASSUME TypeOK, NEW t \in Sessions, NEW x \in Rows
    PROVE  /\ tx[t] \in Tx
           /\ Sees(t, x) \in StockRow
           /\ tx[t].todo[x] \in Int
           /\ stock[x] \in StockRow
BY DEF TypeOK, Tx, Sees

LEMMA NoNeed == [p \in Products |-> 0] \in [Products -> Nat]
OBVIOUS

LEMMA PlanType ==
    ASSUME TypeOK, NEW t \in Sessions, PlanProduct(t)
    PROVE  TypeOK'
<1>1. CASE Rollback(t)
  BY <1>1, RollbackType
<1>2. ASSUME NEW p \in Products, NEW take \in [Warehouses -> 0..tx[t].need[p]],
             tx' = [tx EXCEPT
                      ![t].need[p] = 0,
                      ![t].todo = [x \in Rows |-> IF x[1] = p THEN take[x[2]] ELSE 0]],
             UNCHANGED <<stock, movements, reservation, lines, overwritten>>
      PROVE  TypeOK'
  <2>1. tx[t] \in Tx /\ tx[t].need[p] \in Nat
    BY DEF TypeOK, Tx
  <2>2. [x \in Rows |-> IF x[1] = p THEN take[x[2]] ELSE 0] \in [Rows -> Int]
    <3>1. ASSUME NEW x \in Rows
          PROVE  take[x[2]] \in Int
      BY <1>2, <2>1 DEF Rows
    <3>2. QED
      BY <3>1
  <2>3. tx'[t] \in Tx
    BY <1>2, <2>1, <2>2 DEF Tx, TypeOK
  <2>4. QED
    BY <1>2, <2>3 DEF TypeOK
<1>3. QED
  BY <1>1, <1>2 DEF PlanProduct

LEMMA NextType ==
    ASSUME TypeOK, [Next]_vars
    PROVE  TypeOK'
<1>1. ASSUME NEW t \in Sessions, NEW r \in Reservations,
             BeginCreate(t, r) \/ BeginSettle(t, "commit", r) \/ BeginSettle(t, "release", r)
      PROVE  TypeOK'
  <2>1. Wanted[r] \in [Products -> Nat] /\ lines[r] \in [Rows -> Int]
        /\ NothingTodo \in [Rows -> Int]
    BY StockAssumption DEF TypeOK, NothingTodo
  <2>2. QED
    BY <1>1, <2>1, NoNeed, BeginType DEF BeginCreate, BeginSettle, AllOperations
<1>2. ASSUME NEW t \in Sessions, PlanProduct(t)
      PROVE  TypeOK'
  BY <1>2, PlanType
<1>3. ASSUME NEW t \in Sessions, NEW x \in Rows,
             ReserveAvailable(t, x) \/ Settle(t, x) \/ Move(t, x)
      PROVE  TypeOK'
  <2> USE RowTypes DEF StockRow
  <2>1. CASE ReserveAvailable(t, x)
    BY <1>3, <2>1, WriteType, RollbackType DEF ReserveAvailable
  <2>2. CASE CommitSelect(t, x)
    <3>1. CASE Rollback(t)
      BY <3>1, RollbackType
    <3>2. CASE tx' = [tx EXCEPT ![t].read = Sees(t, x)]
               /\ UNCHANGED <<stock, movements, reservation, lines, overwritten>>
      <4>1. tx[t] \in Tx /\ Sees(t, x) \in StockRow
        BY RowTypes
      <4>2. [tx[t] EXCEPT !.read = Sees(t, x)] \in Tx
        BY <4>1 DEF Tx
      <4>3. tx' = [tx EXCEPT ![t] = [tx[t] EXCEPT !.read = Sees(t, x)]]
        BY <3>2
      <4>4. QED
        BY <3>2, <4>2, <4>3 DEF TypeOK
    <3>3. QED
      BY <2>2, <3>1, <3>2 DEF CommitSelect
  <2>3. CASE CommitUpdate(t, x)
    <3>1. tx[t].read \in StockRow
      BY DEF TypeOK, Tx
    <3>2. QED
      BY <2>3, <3>1, WriteType DEF CommitUpdate
  <2>4. CASE ReleaseReserved(t, x)
    BY <2>4, WriteType, RollbackType DEF ReleaseReserved
  <2>5. CASE Move(t, x)
    BY <2>5, WriteType, RollbackType DEF Move
  <2>6. QED
    BY <1>3, <2>1, <2>2, <2>3, <2>4, <2>5 DEF Settle
<1>4. ASSUME NEW t \in Sessions, NEW x \in Rows, NEW q \in 1..MaxQty,
             BeginAdjust(t, x, q) \/ BeginAdjust(t, x, -q)
      PROVE  TypeOK'
  <2>1. q \in Int /\ [NothingTodo EXCEPT ![x] = q] \in [Rows -> Int]
        /\ [NothingTodo EXCEPT ![x] = -q] \in [Rows -> Int]
    BY DEF NothingTodo
  <2>2. QED
    BY <1>4, <2>1, NoNeed, BeginType DEF BeginAdjust, AllOperations
<1>5. ASSUME NEW t \in Sessions, NEW x \in Rows, NEW y \in Rows, NEW q \in 1..MaxQty,
             BeginTransfer(t, x, y, q)
      PROVE  TypeOK'
  <2>1. [NothingTodo EXCEPT ![x] = -q, ![y] = q] \in [Rows -> Int]
    BY DEF NothingTodo
  <2>2. QED
    BY <1>5, <2>1, NoNeed, BeginType DEF BeginTransfer, AllOperations
<1>6. ASSUME NEW t \in Sessions, NEW x \in Rows, NEW q \in 0..MaxQty, CycleCount(t, x, q)
      PROVE  TypeOK'
  <2> DEFINE row == stock[x]
             done == [NothingTodo EXCEPT ![x] = q - row.onHand]
             own == [NoTx.own EXCEPT ![x] = [row EXCEPT !.onHand = q]]
  <2>1. row \in StockRow /\ [row EXCEPT !.onHand = q] \in StockRow /\ q - row.onHand \in Int
    BY RowTypes, <1>6 DEF StockRow
  <2>2. done \in [Rows -> Int] /\ own \in [Rows -> StockRow]
    BY <2>1, NoTxType DEF NothingTodo, Tx
  <2>3. [NoTx EXCEPT !.op = "count", !.done = done, !.locked = {x}, !.own = own] \in Tx
    BY <2>2, NoTxType DEF Tx, AllOperations
  <2>4. tx' = [tx EXCEPT ![t] = [NoTx EXCEPT !.op = "count", !.done = done, !.locked = {x},
                                             !.own = own]]
    BY <1>6 DEF CycleCount
  <2>5. QED
    BY <1>6, <2>3, <2>4 DEF CycleCount, TypeOK
<1>7. ASSUME NEW t \in Sessions, Commit(t)
      PROVE  TypeOK'
  <2>1. tx[t] \in Tx
    BY DEF TypeOK
  <2>2. stock' \in [Rows -> StockRow]
    BY <1>7, RowTypes DEF Commit
  <2>3. movements' \in [Rows -> Int]
    BY <1>7, <2>1 DEF Commit, TypeOK, Tx
  <2>4. reservation' \in [Reservations -> ReservationStatus]
    BY <1>7 DEF Commit, TypeOK, SetStatus, ReservationStatus
  <2>5. lines' \in [Reservations -> [Rows -> Int]] /\ overwritten' \subseteq Rows
    BY <1>7, <2>1 DEF Commit, TypeOK, Tx
  <2>6. QED
    BY <1>7, <2>2, <2>3, <2>4, <2>5, NoTxType DEF Commit, TypeOK
<1>8. ASSUME NEW t \in Sessions, Abort(t)
      PROVE  TypeOK'
  BY <1>8, RollbackType DEF Abort
<1>9. CASE UNCHANGED vars
  BY <1>9 DEF vars, TypeOK
<1>10. QED
  BY <1>1, <1>2, <1>3, <1>4, <1>5, <1>6, <1>7, <1>8, <1>9 DEF Next

\* The tables and transactions keep their types.
THEOREM TypeCorrect == Spec => []TypeOK
<1>1. TypeOK /\ [Next]_vars => TypeOK'
  BY NextType
<1>2. QED
  BY InitType, <1>1, PTL DEF Spec

-----------------------------------------------------------------------------
(* The inductive invariant *)

LEMMA InitInv == Init => IInv
<1>1. ASSUME Init
      PROVE  IInv
  <2>1. TypeOK
    BY <1>1, InitType
  <2>2. \A x \in Rows : GoodRow(stock[x])
    BY <1>1, StockAssumption DEF Init, GoodRow, Nonnegative
  <2>3. \A r \in Reservations, x \in Rows : lines[r][x] >= 0
    BY <1>1 DEF Init, NothingTodo
  <2>4. \A t \in Sessions : SessionInv(t)
    BY <1>1 DEF Init, NoTx, SessionInv, Reserving
  <2>5. QED
    BY <2>1, <2>2, <2>3, <2>4 DEF IInv
<1>2. QED
  BY <1>1

LEMMA SeesGood ==
    ASSUME IInv, NEW t \in Sessions, NEW x \in Rows
    PROVE  GoodRow(Sees(t, x))
BY DEF IInv, SessionInv, Sees

\* A step of another session changes nothing of this one's.
LEMMA SessionKept ==
    ASSUME NEW u, SessionInv(u), tx'[u] = tx[u]
    PROVE  SessionInv(u)'
<1>1. \A x : NextRow(u, x)' <=> NextRow(u, x)
  BY DEF NextRow
<1>2. QED
  BY <1>1 DEF SessionInv

\* A session that only changes its own transaction.
LEMMA OneSession ==
    ASSUME IInv, TypeOK', NEW t \in Sessions, SessionInv(t)',
           \A u \in Sessions \ {t} : tx'[u] = tx[u],
           UNCHANGED <<stock, lines>>
    PROVE  IInv'
<1>1. \A u \in Sessions : SessionInv(u)'
  BY SessionKept DEF IInv
<1>2. QED
  BY <1>1 DEF IInv

LEMMA RollbackKeeps ==
    ASSUME IInv, NEW t \in Sessions, Rollback(t)
    PROVE  IInv'
<1>1. TypeOK'
  BY RollbackType DEF IInv
<1>2. tx'[t] = NoTx /\ \A u \in Sessions \ {t} : tx'[u] = tx[u]
  BY DEF Rollback, IInv, TypeOK
<1>3. SessionInv(t)'
  BY <1>2 DEF SessionInv, NoTx, Reserving
<1>4. QED
  BY <1>1, <1>2, <1>3, OneSession DEF Rollback

LEMMA BeginKeeps ==
    ASSUME IInv, NEW t \in Sessions, NEW op \in AllOperations,
           NEW r \in Reservations \cup {"none"}, NEW need \in [Products -> Nat],
           NEW todo \in [Rows -> Int], Begin(t, op, r, need, todo),
           op \in Reserving => r \in Reservations /\ \A x \in Rows : todo[x] >= 0
    PROVE  IInv'
<1>1. TypeOK'
  BY BeginType DEF IInv
<1>2. /\ tx'[t] = [NoTx EXCEPT !.op = op, !.res = r, !.need = need, !.todo = todo]
      /\ \A u \in Sessions \ {t} : tx'[u] = tx[u]
  BY DEF Begin, IInv, TypeOK
<1>3. /\ tx'[t].op = op /\ tx'[t].res = r /\ tx'[t].todo = todo /\ tx'[t].locked = {}
      /\ tx'[t].read = NoRow /\ tx'[t].done = NothingTodo
  BY <1>2 DEF NoTx
<1>4. op \in Operations
  BY DEF Begin
<1>5. SessionInv(t)'
  BY <1>3, <1>4 DEF SessionInv, NothingTodo
<1>6. QED
  BY <1>1, <1>2, <1>5, OneSession DEF Begin

LEMMA WriteKeeps ==
    ASSUME IInv, NEW t \in Sessions, NEW x \in Rows, NEW row \in StockRow, NEW d \in Int,
           Write(t, x, row, d), GoodRow(row), tx[t].op = "create" => d >= 0
    PROVE  IInv'
<1>1. TypeOK'
  BY WriteType DEF IInv
<1>2. tx[t] \in Tx
  BY DEF IInv, TypeOK
<1>3. \A u \in Sessions \ {t} : tx'[u] = tx[u]
  BY DEF Write, IInv, TypeOK
<1>4. /\ tx'[t].op = tx[t].op /\ tx'[t].res = tx[t].res
      /\ tx'[t].locked = tx[t].locked \cup {x}
      /\ tx'[t].own = [tx[t].own EXCEPT ![x] = row]
      /\ tx'[t].todo = [tx[t].todo EXCEPT ![x] = 0]
      /\ tx'[t].done = [tx[t].done EXCEPT ![x] = @ + d]
      /\ tx'[t].read = NoRow
  BY <1>2 DEF Write, IInv, TypeOK, Tx
<1>5. SessionInv(t)
  BY DEF IInv
<1>6. \A y \in tx'[t].locked : GoodRow(tx'[t].own[y])
  BY <1>2, <1>4, <1>5 DEF SessionInv, Tx
<1>7. tx[t].op \in Reserving => \A y \in Rows : tx'[t].todo[y] >= 0
  BY <1>2, <1>4, <1>5 DEF SessionInv, Tx
<1>8. tx[t].op = "create" => \A y \in Rows : tx'[t].done[y] >= 0
  BY <1>2, <1>4, <1>5 DEF SessionInv, Tx
<1>9. SessionInv(t)'
  BY <1>4, <1>5, <1>6, <1>7, <1>8 DEF SessionInv
<1>10. QED
  BY <1>1, <1>3, <1>9, OneSession DEF Write

LEMMA PlanKeeps ==
    ASSUME IInv, NEW t \in Sessions, PlanProduct(t)
    PROVE  IInv'
<1>1. CASE Rollback(t)
  BY <1>1, RollbackKeeps
<1>2. ASSUME NEW p \in Products, NEW take \in [Warehouses -> 0..tx[t].need[p]],
             tx' = [tx EXCEPT
                      ![t].need[p] = 0,
                      ![t].todo = [x \in Rows |-> IF x[1] = p THEN take[x[2]] ELSE 0]],
             UNCHANGED <<stock, movements, reservation, lines, overwritten>>
      PROVE  IInv'
  <2>1. TypeOK'
    BY PlanType DEF IInv
  <2>2. tx[t] \in Tx /\ tx[t].need[p] \in Nat /\ tx[t].op = "create" /\ SessionInv(t)
    BY DEF IInv, TypeOK, Tx, PlanProduct
  <2>3. /\ \A u \in Sessions \ {t} : tx'[u] = tx[u]
        /\ tx'[t].op = tx[t].op /\ tx'[t].res = tx[t].res /\ tx'[t].done = tx[t].done
        /\ tx'[t].locked = tx[t].locked /\ tx'[t].own = tx[t].own /\ tx'[t].read = tx[t].read
        /\ tx'[t].todo = [x \in Rows |-> IF x[1] = p THEN take[x[2]] ELSE 0]
    BY <1>2, <2>2 DEF IInv, TypeOK, Tx
  <2>4. \A x \in Rows : tx'[t].todo[x] >= 0
    <3>1. ASSUME NEW x \in Rows
          PROVE  take[x[2]] \in Nat
      BY <1>2, <2>2 DEF Rows
    <3>2. QED
      BY <2>3, <3>1
  <2>5. SessionInv(t)'
    BY <2>2, <2>3, <2>4 DEF SessionInv
  <2>6. QED
    BY <1>2, <2>1, <2>3, <2>5, OneSession
<1>3. QED
  BY <1>1, <1>2 DEF PlanProduct

\* A commit has one next row, so what it has read is about the row it writes.
LEMMA OneNextRow ==
    ASSUME TypeOK, NEW t \in Sessions, tx[t].op = "commit",
           NEW x \in Rows, NEW y \in Rows, NextRow(t, x), NextRow(t, y)
    PROVE  x = y
<1>1. SUFFICES ASSUME x # y
               PROVE  FALSE
  OBVIOUS
<1>2. Before("commit", tx[t].todo, x, y) /\ Before("commit", tx[t].todo, y, x)
  BY <1>1 DEF NextRow
<1>3. /\ x[1] < y[1] \/ (x[1] = y[1] /\ x[2] < y[2])
      /\ y[1] < x[1] \/ (y[1] = x[1] /\ y[2] < x[2])
  BY <1>2 DEF Before
<1>4. x[1] \in Int /\ x[2] \in Int /\ y[1] \in Int /\ y[2] \in Int
  BY DEF Rows, Products, Warehouses
<1>5. QED
  BY <1>3, <1>4

LEMMA SettleKeeps ==
    ASSUME IInv, NEW t \in Sessions, NEW x \in Rows, Settle(t, x)
    PROVE  IInv'
<1> DEFINE qty == tx[t].todo[x]
<1>0. TypeOK /\ tx[t] \in Tx /\ Sees(t, x) \in StockRow /\ qty \in Int
      /\ SessionInv(t) /\ GoodRow(Sees(t, x))
  BY RowTypes, SeesGood DEF IInv
<1>1. CASE CommitSelect(t, x)
  <2>1. CASE Rollback(t)
    BY <2>1, RollbackKeeps
  <2>2. CASE /\ ~(Sees(t, x).reserved < qty \/ Sees(t, x).onHand < qty)
             /\ tx' = [tx EXCEPT ![t].read = Sees(t, x)]
             /\ UNCHANGED <<stock, movements, reservation, lines, overwritten>>
    <3>1. /\ tx[t].op = "commit" /\ NextRow(t, x)
          /\ \A u \in Sessions \ {t} : tx'[u] = tx[u]
          /\ tx'[t].op = tx[t].op /\ tx'[t].res = tx[t].res /\ tx'[t].done = tx[t].done
          /\ tx'[t].locked = tx[t].locked /\ tx'[t].own = tx[t].own
          /\ tx'[t].todo = tx[t].todo /\ tx'[t].read = Sees(t, x)
      BY <1>1, <2>2, <1>0 DEF CommitSelect, TypeOK, Tx
    <3>2. \A y \in Rows : NextRow(t, y)' => y = x
      <4>1. \A y \in Rows : NextRow(t, y)' => NextRow(t, y)
        BY <3>1 DEF NextRow
      <4>2. QED
        BY <4>1, <3>1, <1>0, OneNextRow
    <3>3. Sees(t, x).onHand >= qty /\ Sees(t, x).reserved >= qty
      BY <2>2, <1>0 DEF StockRow
    <3>4. SessionInv(t)'
      BY <3>1, <3>2, <3>3, <1>0 DEF SessionInv, GoodRow
    <3>5. TypeOK'
      <4>1. [tx[t] EXCEPT !.read = Sees(t, x)] \in Tx
        BY <1>0 DEF Tx
      <4>2. tx' = [tx EXCEPT ![t] = [tx[t] EXCEPT !.read = Sees(t, x)]]
        BY <2>2
      <4>3. QED
        BY <2>2, <4>1, <4>2, <1>0 DEF TypeOK
    <3>6. QED
      BY <2>2, <3>1, <3>4, <3>5, OneSession
  <2>3. QED
    BY <1>1, <2>1, <2>2 DEF CommitSelect
<1>2. CASE CommitUpdate(t, x)
  <2> DEFINE read == tx[t].read
             row == [onHand |-> read.onHand - qty, reserved |-> read.reserved - qty]
  <2>1. tx[t].op = "commit" /\ NextRow(t, x) /\ read # NoRow /\ Write(t, x, row, -qty)
    BY <1>2 DEF CommitUpdate
  <2>2. read \in StockRow /\ read.onHand \in Int /\ read.reserved \in Int
    BY <1>0 DEF Tx, StockRow
  <2>3. /\ read.onHand >= qty /\ read.reserved >= qty
        /\ MayOversell \/ read.reserved <= read.onHand
    BY <2>1, <1>0 DEF SessionInv
  <2>4. row \in StockRow /\ GoodRow(row)
    BY <2>2, <2>3, <1>0 DEF StockRow, GoodRow, Nonnegative
  <2>5. QED
    BY <2>1, <2>4, <1>0, WriteKeeps
<1>3. CASE ReleaseReserved(t, x)
  <2> DEFINE row == [Sees(t, x) EXCEPT !.reserved = @ - qty]
  <2>1. CASE Rollback(t)
    BY <2>1, RollbackKeeps
  <2>2. CASE Sees(t, x).reserved >= qty /\ Write(t, x, row, qty)
    <3>1. qty >= 0 /\ tx[t].op = "release"
      BY <1>3, <1>0 DEF ReleaseReserved, SessionInv, Reserving
    <3>2. row \in StockRow /\ GoodRow(row)
      BY <2>2, <3>1, <1>0 DEF StockRow, GoodRow, Nonnegative
    <3>3. QED
      BY <2>2, <3>1, <3>2, <1>0, WriteKeeps
  <2>3. QED
    BY <1>3, <2>1, <2>2 DEF ReleaseReserved
<1>4. QED
  BY <1>1, <1>2, <1>3 DEF Settle

LEMMA ReserveKeeps ==
    ASSUME IInv, NEW t \in Sessions, NEW x \in Rows, ReserveAvailable(t, x)
    PROVE  IInv'
<1> DEFINE qty == tx[t].todo[x]
           row == [Sees(t, x) EXCEPT !.reserved = @ + qty]
<1>0. Sees(t, x) \in StockRow /\ qty \in Int /\ GoodRow(Sees(t, x))
  BY RowTypes, SeesGood DEF IInv
<1>1. CASE Rollback(t)
  BY <1>1, RollbackKeeps
<1>2. CASE Sees(t, x).onHand - Sees(t, x).reserved >= qty /\ Write(t, x, row, qty)
  <2>1. qty >= 0 /\ tx[t].op = "create"
    BY DEF ReserveAvailable, IInv, SessionInv, Reserving
  <2>2. row \in StockRow /\ GoodRow(row)
    BY <1>2, <2>1, <1>0 DEF StockRow, GoodRow, Nonnegative
  <2>3. QED
    BY <1>2, <2>1, <2>2, <1>0, WriteKeeps
<1>3. QED
  BY <1>1, <1>2 DEF ReserveAvailable

LEMMA MoveKeeps ==
    ASSUME IInv, NEW t \in Sessions, NEW x \in Rows, Move(t, x)
    PROVE  IInv'
<1> DEFINE delta == tx[t].todo[x]
           row == [Sees(t, x) EXCEPT !.onHand = @ + delta]
<1>0. Sees(t, x) \in StockRow /\ delta \in Int /\ GoodRow(Sees(t, x))
  BY RowTypes, SeesGood DEF IInv
<1>1. CASE Rollback(t)
  BY <1>1, RollbackKeeps
<1>2. CASE Sees(t, x).onHand + delta >= 0 /\ Write(t, x, row, delta)
  <2>1. tx[t].op \in {"adjust", "transfer"} /\ MayOversell
    BY DEF Move, IInv, SessionInv, MayOversell
  <2>2. row \in StockRow /\ GoodRow(row)
    BY <1>2, <2>1, <1>0 DEF StockRow, GoodRow, Nonnegative
  <2>3. QED
    BY <1>2, <2>1, <2>2, <1>0, WriteKeeps
<1>3. QED
  BY <1>1, <1>2 DEF Move

LEMMA CountKeeps ==
    ASSUME IInv, TypeOK', NEW t \in Sessions, NEW x \in Rows, NEW q \in 0..MaxQty,
           CycleCount(t, x, q)
    PROVE  IInv'
<1> DEFINE row == [stock[x] EXCEPT !.onHand = q]
<1>1. stock[x] \in StockRow /\ GoodRow(stock[x]) /\ stock[x].reserved <= q /\ q \in Nat
  BY StockAssumption DEF IInv, TypeOK, CycleCount
<1>2. GoodRow(row)
  BY <1>1 DEF StockRow, GoodRow, Nonnegative
<1>3. NoTx.own \in [Rows -> StockRow]
  BY NoTxType DEF Tx
<1>4. /\ \A u \in Sessions \ {t} : tx'[u] = tx[u]
      /\ tx'[t].op = "count" /\ tx'[t].locked = {x} /\ tx'[t].own[x] = row
  BY <1>3 DEF CycleCount, IInv, TypeOK, NoTx
<1>5. "count" \in Operations
  BY DEF CycleCount
<1>6. SessionInv(t)'
  BY <1>2, <1>4, <1>5 DEF SessionInv, Reserving
<1>7. QED
  BY <1>4, <1>6, OneSession DEF CycleCount

LEMMA CommitKeeps ==
    ASSUME IInv, TypeOK', NEW t \in Sessions, Commit(t)
    PROVE  IInv'
<1>0. TypeOK /\ tx[t] \in Tx /\ SessionInv(t)
  BY DEF IInv, TypeOK
<1>1. \A x \in Rows : GoodRow(stock'[x])
  BY SeesGood DEF Commit
<1>2. \A r \in Reservations, x \in Rows : lines'[r][x] >= 0
  BY <1>0 DEF Commit, IInv, TypeOK, SessionInv
<1>3. tx'[t] = NoTx /\ \A u \in Sessions \ {t} : tx'[u] = tx[u]
  BY <1>0 DEF Commit, TypeOK
<1>4. SessionInv(t)'
  BY <1>3 DEF SessionInv, NoTx, Reserving
<1>5. \A u \in Sessions : SessionInv(u)'
  BY <1>3, <1>4, SessionKept DEF IInv
<1>6. QED
  BY <1>1, <1>2, <1>5 DEF IInv

LEMMA NextInv ==
    ASSUME IInv, [Next]_vars
    PROVE  IInv'
<1>t. TypeOK /\ TypeOK'
  BY NextType DEF IInv
<1>1. ASSUME NEW t \in Sessions, NEW r \in Reservations,
             BeginCreate(t, r) \/ BeginSettle(t, "commit", r) \/ BeginSettle(t, "release", r)
      PROVE  IInv'
  <2>1. Wanted[r] \in [Products -> Nat] /\ lines[r] \in [Rows -> Int]
        /\ NothingTodo \in [Rows -> Int]
    BY <1>t, StockAssumption DEF TypeOK, NothingTodo
  <2>2. \A x \in Rows : NothingTodo[x] >= 0 /\ lines[r][x] >= 0
    BY DEF IInv, NothingTodo
  <2>3. QED
    BY <1>1, <2>1, <2>2, NoNeed, BeginKeeps DEF BeginCreate, BeginSettle, AllOperations
<1>2. ASSUME NEW t \in Sessions, PlanProduct(t)
      PROVE  IInv'
  BY <1>2, PlanKeeps
<1>3. ASSUME NEW t \in Sessions, NEW x \in Rows,
             ReserveAvailable(t, x) \/ Settle(t, x) \/ Move(t, x)
      PROVE  IInv'
  BY <1>3, ReserveKeeps, SettleKeeps, MoveKeeps
<1>4. ASSUME NEW t \in Sessions, NEW x \in Rows, NEW q \in 1..MaxQty,
             BeginAdjust(t, x, q) \/ BeginAdjust(t, x, -q)
      PROVE  IInv'
  <2>1. q \in Int /\ [NothingTodo EXCEPT ![x] = q] \in [Rows -> Int]
        /\ [NothingTodo EXCEPT ![x] = -q] \in [Rows -> Int]
    BY DEF NothingTodo
  <2>2. QED
    BY <1>4, <2>1, NoNeed, BeginKeeps DEF BeginAdjust, AllOperations, Reserving
<1>5. ASSUME NEW t \in Sessions, NEW x \in Rows, NEW y \in Rows, NEW q \in 1..MaxQty,
             BeginTransfer(t, x, y, q)
      PROVE  IInv'
  <2>1. [NothingTodo EXCEPT ![x] = -q, ![y] = q] \in [Rows -> Int]
    BY DEF NothingTodo
  <2>2. QED
    BY <1>5, <2>1, NoNeed, BeginKeeps DEF BeginTransfer, AllOperations, Reserving
<1>6. ASSUME NEW t \in Sessions, NEW x \in Rows, NEW q \in 0..MaxQty, CycleCount(t, x, q)
      PROVE  IInv'
  BY <1>6, <1>t, CountKeeps
<1>7. ASSUME NEW t \in Sessions, Commit(t)
      PROVE  IInv'
  BY <1>7, <1>t, CommitKeeps
<1>8. ASSUME NEW t \in Sessions, Abort(t)
      PROVE  IInv'
  BY <1>8, RollbackKeeps DEF Abort
<1>9. CASE UNCHANGED vars
  <2>1. \A u \in Sessions : SessionInv(u)'
    BY <1>9, SessionKept DEF vars, IInv
  <2>2. QED
    BY <1>9, <1>t, <2>1 DEF vars, IInv
<1>10. QED
  BY <1>1, <1>2, <1>3, <1>4, <1>5, <1>6, <1>7, <1>8, <1>9 DEF Next

LEMMA InvCorrect == Spec => []IInv
<1>1. IInv /\ [Next]_vars => IInv'
  BY NextInv
<1>2. QED
  BY InitInv, <1>1, PTL DEF Spec

\* No stock row goes negative, whatever transactions overlap.
THEOREM StockCorrect == Spec => []StockNonNegative
<1>1. IInv => StockNonNegative
  BY DEF IInv, GoodRow, Nonnegative, StockNonNegative
<1>2. QED
  BY InvCorrect, <1>1, PTL

-----------------------------------------------------------------------------
(* Refinement of the reservation contract *)

\* A reservation has at most one transaction, which found it in the status it
\* is about to change: the row lock of findByIdForUpdate.
Settling == {"commit", "release"}

OwnerInv ==
    \A t \in Sessions :
        /\ tx[t].op = "create" => tx[t].res \in Reservations /\ reservation[tx[t].res] = "none"
        /\ tx[t].op \in Settling =>
              tx[t].res \in Reservations /\ reservation[tx[t].res] = "pending"
        /\ \A u \in Sessions :
              tx[t].op \in Reserving /\ tx[u].op \in Reserving /\ tx[t].res = tx[u].res => t = u

\* A step that keeps, or ends, the transaction of every session.
LEMMA OwnerKept ==
    ASSUME OwnerInv, UNCHANGED reservation,
           \A u \in Sessions : \/ tx'[u].op = tx[u].op /\ tx'[u].res = tx[u].res
                               \/ tx'[u].op \notin Reserving
    PROVE  OwnerInv'
BY DEF OwnerInv, Reserving, Settling

\* A session takes reservation r, which no other session has.
LEMMA OwnerTaken ==
    ASSUME OwnerInv, UNCHANGED reservation, NEW t \in Sessions, NEW r \in Reservations,
           \A u \in Sessions \ {t} : tx'[u] = tx[u] /\ (tx[u].op \in Reserving => tx[u].res # r),
           tx'[t].res = r,
           \/ tx'[t].op = "create" /\ reservation[r] = "none"
           \/ tx'[t].op \in Settling /\ reservation[r] = "pending"
    PROVE  OwnerInv'
BY DEF OwnerInv, Reserving, Settling

LEMMA NextOwner ==
    ASSUME TypeOK, OwnerInv, [Next]_vars
    PROVE  OwnerInv' /\ [Contract!Next]_reservation
<1>r. ASSUME NEW t \in Sessions, Rollback(t)
      PROVE  OwnerInv' /\ UNCHANGED reservation
  <2>1. tx'[t] = NoTx /\ \A u \in Sessions \ {t} : tx'[u] = tx[u]
    BY <1>r DEF Rollback, TypeOK
  <2>2. tx'[t].op \notin Reserving
    BY <2>1 DEF NoTx, Reserving
  <2>3. QED
    BY <1>r, <2>1, <2>2, OwnerKept DEF Rollback
<1>w. ASSUME NEW t \in Sessions, NEW x, NEW row, NEW d, Write(t, x, row, d)
      PROVE  OwnerInv' /\ UNCHANGED reservation
  <2>1. \A u \in Sessions : tx'[u].op = tx[u].op /\ tx'[u].res = tx[u].res
    BY <1>w DEF Write, TypeOK, Tx
  <2>2. QED
    BY <1>w, <2>1, OwnerKept DEF Write
<1>1. ASSUME NEW t \in Sessions, NEW r \in Reservations, BeginCreate(t, r)
      PROVE  OwnerInv' /\ UNCHANGED reservation
  <2>1. /\ \A u \in Sessions \ {t} : tx'[u] = tx[u]
        /\ tx'[t].op = "create" /\ tx'[t].res = r /\ UNCHANGED reservation
    BY <1>1 DEF BeginCreate, Begin, TypeOK, NoTx
  <2>2. QED
    BY <1>1, <2>1, OwnerTaken DEF BeginCreate
<1>2. ASSUME NEW t \in Sessions, NEW r \in Reservations, NEW op \in Settling,
             BeginSettle(t, op, r)
      PROVE  OwnerInv' /\ UNCHANGED reservation
  <2>1. /\ \A u \in Sessions \ {t} : tx'[u] = tx[u]
        /\ tx'[t].op = op /\ tx'[t].res = r /\ UNCHANGED reservation
    BY <1>2 DEF BeginSettle, Begin, TypeOK, NoTx
  <2>2. \A u \in Sessions : tx[u].op \in Reserving => tx[u].res # r
    BY <1>2 DEF BeginSettle, ReservationLocked, OwnerInv, Reserving
  <2>3. QED
    BY <1>2, <2>1, <2>2, OwnerTaken DEF BeginSettle
<1>3. ASSUME NEW t \in Sessions, PlanProduct(t)
      PROVE  OwnerInv' /\ UNCHANGED reservation
  <2>1. CASE Rollback(t)
    BY <2>1, <1>r
  <2>2. ASSUME NEW p, NEW todo, tx' = [tx EXCEPT ![t].need[p] = 0, ![t].todo = todo],
               UNCHANGED reservation
        PROVE  OwnerInv' /\ UNCHANGED reservation
    <3>1. \A u \in Sessions : tx'[u].op = tx[u].op /\ tx'[u].res = tx[u].res
      BY <2>2 DEF TypeOK, Tx
    <3>2. QED
      BY <2>2, <3>1, OwnerKept
  <2>3. QED
    BY <1>3, <2>1, <2>2 DEF PlanProduct
<1>4. ASSUME NEW t \in Sessions, NEW x \in Rows,
             ReserveAvailable(t, x) \/ Settle(t, x) \/ Move(t, x)
      PROVE  OwnerInv' /\ UNCHANGED reservation
  <2>1. ASSUME tx' = [tx EXCEPT ![t].read = Sees(t, x)], UNCHANGED reservation
        PROVE  OwnerInv'
    <3>1. \A u \in Sessions : tx'[u].op = tx[u].op /\ tx'[u].res = tx[u].res
      BY <2>1 DEF TypeOK, Tx
    <3>2. QED
      BY <2>1, <3>1, OwnerKept
  <2>2. QED
    BY <1>4, <1>r, <1>w, <2>1 DEF ReserveAvailable, Settle, CommitSelect, CommitUpdate,
       ReleaseReserved, Move
<1>5. ASSUME NEW t \in Sessions, NEW op \in {"adjust", "transfer"}, NEW need, NEW todo,
             Begin(t, op, "none", need, todo)
      PROVE  OwnerInv' /\ UNCHANGED reservation
  <2>1. /\ \A u \in Sessions \ {t} : tx'[u] = tx[u]
        /\ tx'[t].op = op /\ UNCHANGED reservation
    BY <1>5 DEF Begin, TypeOK, NoTx
  <2>2. QED
    BY <2>1, OwnerKept DEF Reserving
<1>6. ASSUME NEW t \in Sessions, NEW x \in Rows, NEW q \in 0..MaxQty, CycleCount(t, x, q)
      PROVE  OwnerInv' /\ UNCHANGED reservation
  <2>1. /\ \A u \in Sessions \ {t} : tx'[u] = tx[u]
        /\ tx'[t].op = "count" /\ UNCHANGED reservation
    BY <1>6 DEF CycleCount, TypeOK, NoTx
  <2>2. QED
    BY <2>1, OwnerKept DEF Reserving
<1>7. ASSUME NEW t \in Sessions, Commit(t)
      PROVE  OwnerInv' /\ [Contract!Next]_reservation
  <2> DEFINE r == tx[t].res
  <2>1. tx'[t].op \notin Reserving /\ \A u \in Sessions \ {t} : tx'[u] = tx[u]
    BY <1>7 DEF Commit, TypeOK, NoTx, Reserving
  <2>2. CASE tx[t].op \notin Reserving
    <3>1. UNCHANGED reservation
      BY <1>7, <2>2 DEF Commit, Reserving
    <3>2. QED
      BY <2>1, <3>1, OwnerKept
  <2>3. CASE tx[t].op \in Reserving
    <3>1. r \in Reservations /\ reservation' = [reservation EXCEPT ![r] = SetStatus(tx[t].op)]
      BY <1>7, <2>3 DEF Commit, OwnerInv, Reserving, Settling
    <3>2. Contract!Next
      BY <2>3, <3>1 DEF OwnerInv, Settling, Reserving, SetStatus, Contract!Next,
         Contract!Create, Contract!Commit, Contract!Release
    <3>3. \A u \in Sessions \ {t} : tx[u].op \in Reserving =>
             tx[u].res # r /\ reservation'[tx[u].res] = reservation[tx[u].res]
      BY <2>3, <3>1 DEF OwnerInv, TypeOK, Reserving, Settling
    <3>4. OwnerInv'
      BY <2>1, <3>3 DEF OwnerInv, Reserving, Settling
    <3>5. QED
      BY <3>2, <3>4
  <2>4. QED
    BY <2>2, <2>3
<1>8. CASE UNCHANGED vars
  BY <1>8, OwnerKept DEF vars
<1>9. QED
  BY <1>r, <1>1, <1>2, <1>3, <1>4, <1>5, <1>6, <1>7, <1>8
     DEF Next, BeginAdjust, BeginTransfer, Abort, Settling

\* Overlapping creations, commits, releases and aborts move every reservation
\* as the contract allows: row locks make the settlement unique.
THEOREM StockRefinesContract == Spec => ReservationAsPromised
<1>1. Init => OwnerInv /\ Contract!Init
  BY DEF Init, OwnerInv, NoTx, Reserving, Settling, Contract!Init
<1>2. TypeOK /\ OwnerInv /\ [Next]_vars => OwnerInv' /\ [Contract!Next]_reservation
  BY NextOwner
<1>3. QED
  BY TypeCorrect, <1>1, <1>2, PTL DEF Spec, ReservationAsPromised, Contract!Spec

-----------------------------------------------------------------------------
(* The books: lines, versions and locks *)

\* Rows are settled in the order of listLines.
Precedes(x, y) == x[1] < y[1] \/ (x[1] = y[1] /\ x[2] < y[2])

\* The quantity of product p that session t has to write or has written, per warehouse.
Allotted(t, p) == [w \in Warehouses |-> tx[t].todo[<<p, w>>] + tx[t].done[<<p, w>>]]

\* A creation has not begun with a product, or has planned all of what is wanted.
Planned(t) ==
    tx[t].op = "create" => \A p \in Products :
        \/ /\ tx[t].need[p] = Wanted[tx[t].res][p]
           /\ \A w \in Warehouses : tx[t].todo[<<p, w>>] = 0 /\ tx[t].done[<<p, w>>] = 0
        \/ /\ tx[t].need[p] = 0
           /\ SumFunction(Allotted(t, p)) = Wanted[tx[t].res][p]

\* A release gives back what the lines say, a commit takes it, no more and no less.
GivesBack(t) ==
    \A x \in Rows :
        /\ tx[t].op = "release" => tx[t].todo[x] + tx[t].done[x] = lines[tx[t].res][x]
        /\ tx[t].op = "commit" => tx[t].todo[x] - tx[t].done[x] = lines[tx[t].res][x]

\* A settlement has locked rows that come before those it still has to write.
InOrder(t) ==
    tx[t].op \in Settling =>
        \A x \in tx[t].locked, y \in Rows : tx[t].todo[y] # 0 => Precedes(x, y)

\* An uncommitted version differs from the committed row by what was written; a
\* blind one was computed from an older row.
VersionInv(t, x) ==
    /\ x \notin tx[t].locked => tx[t].done[x] = 0
    /\ x \in tx[t].locked =>
          /\ tx[t].op = "create" =>
                tx[t].own[x] = [stock[x] EXCEPT !.reserved = @ + tx[t].done[x]]
          /\ tx[t].op = "release" =>
                tx[t].own[x] = [stock[x] EXCEPT !.reserved = @ - tx[t].done[x]]
          /\ tx[t].op = "commit" /\ x \notin tx[t].blind =>
                tx[t].own[x] = [onHand |-> stock[x].onHand + tx[t].done[x],
                                reserved |-> stock[x].reserved + tx[t].done[x]]
          /\ tx[t].op \notin Reserving =>
                tx[t].own[x] = [stock[x] EXCEPT !.onHand = @ + tx[t].done[x]]

SessionBook(t) ==
    Planned(t) /\ GivesBack(t) /\ InOrder(t) /\ \A x \in Rows : VersionInv(t, x)

\* A row has the uncommitted version of one session at most.
OneLock == \A t, u \in Sessions : t # u => tx[t].locked \cap tx[u].locked = {}

BookInv ==
    /\ OneLock
    /\ IsFiniteSet(Pending)
    /\ ReservedInFull
    /\ \A t \in Sessions : SessionBook(t)

\* Nothing is in the books at the start.
LEMMA InitBook == Init => BookInv
<1> SUFFICES ASSUME Init PROVE BookInv
  OBVIOUS
<1>1. \A t \in Sessions : tx[t] = NoTx
  BY DEF Init
<1>2. \A t \in Sessions : SessionBook(t)
  BY <1>1 DEF SessionBook, Planned, GivesBack, InOrder, VersionInv, NoTx, NothingTodo, Settling
<1>3. OneLock
  BY <1>1 DEF OneLock, NoTx
<1>4. IsFiniteSet(Pending)
  <2>1. Pending = {}
    BY DEF Init, Pending
  <2> QED BY <2>1, FS_EmptySet
<1>5. ReservedInFull
  BY DEF Init, ReservedInFull
<1> QED BY <1>2, <1>3, <1>4, <1>5 DEF BookInv

\* A step that leaves a session's transaction, its lines and the rows it locked alone.
LEMMA BookKept ==
    ASSUME NEW u \in Sessions, SessionBook(u), tx'[u] = tx[u],
           \A x \in tx[u].locked : stock'[x] = stock[x],
           tx[u].op \in Settling => lines'[tx[u].res] = lines[tx[u].res]
    PROVE  SessionBook(u)'
<1>1. \A p : Allotted(u, p)' = Allotted(u, p)
  BY DEF Allotted
<1>2. Planned(u)' /\ InOrder(u)'
  BY <1>1 DEF SessionBook, Planned, InOrder
<1>3. GivesBack(u)'
  BY DEF SessionBook, GivesBack, Settling
<1>4. \A x \in Rows : VersionInv(u, x)'
  BY DEF SessionBook, VersionInv
<1> QED BY <1>2, <1>3, <1>4 DEF SessionBook

\* A session that changes its own transaction only, and locks rows nobody else has.
LEMMA BookOne ==
    ASSUME BookInv, NEW t \in Sessions, SessionBook(t)',
           \A u \in Sessions \ {t} : tx'[u] = tx[u],
           UNCHANGED <<stock, reservation, lines>>,
           \A u \in Sessions \ {t} : tx'[t].locked \cap tx[u].locked = {}
    PROVE  BookInv'
<1>1. \A u \in Sessions : SessionBook(u)'
  BY BookKept DEF BookInv
<1>2. OneLock'
  BY DEF BookInv, OneLock
<1>3. Pending' = Pending
  BY DEF Pending
<1>4. ReservedInFull'
  BY DEF BookInv, ReservedInFull
<1> QED BY <1>1, <1>2, <1>3, <1>4 DEF BookInv

\* A transaction without locks or writes.
LEMMA FreshBook ==
    ASSUME TypeOK, NEW t \in Sessions,
           tx'[t].locked = {}, tx'[t].done = NothingTodo,
           tx'[t].op = "create" =>
               tx'[t].need = Wanted[tx'[t].res] /\ tx'[t].todo = NothingTodo,
           tx'[t].op \in Settling => tx'[t].todo = lines'[tx'[t].res],
           tx'[t].op \in Settling => tx'[t].todo \in [Rows -> Int]
    PROVE  SessionBook(t)'
<1>1. \A p \in Products, w \in Warehouses : <<p, w>> \in Rows
  BY DEF Rows
<1>2. Planned(t)'
  BY <1>1 DEF Planned, NothingTodo
<1>3. GivesBack(t)'
  BY DEF GivesBack, NothingTodo, Settling
<1>4. InOrder(t)' /\ \A x \in Rows : VersionInv(t, x)'
  BY DEF InOrder, VersionInv, NothingTodo
<1> QED BY <1>2, <1>3, <1>4 DEF SessionBook

LEMMA RollbackBook ==
    ASSUME TypeOK, BookInv, NEW t \in Sessions, Rollback(t)
    PROVE  BookInv'
<1>1. tx'[t] = NoTx /\ \A u \in Sessions \ {t} : tx'[u] = tx[u]
  BY DEF Rollback, TypeOK
<1>2. SessionBook(t)'
  BY <1>1, FreshBook DEF NoTx, Settling
<1> QED BY <1>1, <1>2, BookOne DEF Rollback, NoTx

LEMMA BeginBook ==
    ASSUME TypeOK, BookInv, NEW t \in Sessions, NEW op, NEW r, NEW need,
           NEW todo \in [Rows -> Int], Begin(t, op, r, need, todo),
           op = "create" => need = Wanted[r] /\ todo = NothingTodo,
           op \in Settling => todo = lines[r]
    PROVE  BookInv'
<1>1. /\ tx'[t] = [NoTx EXCEPT !.op = op, !.res = r, !.need = need, !.todo = todo]
      /\ \A u \in Sessions \ {t} : tx'[u] = tx[u]
      /\ UNCHANGED <<stock, reservation, lines>>
  BY DEF Begin, TypeOK
<1>2. /\ tx'[t].op = op /\ tx'[t].res = r /\ tx'[t].need = need /\ tx'[t].todo = todo
      /\ tx'[t].locked = {} /\ tx'[t].done = NothingTodo
  BY <1>1 DEF NoTx
<1>3. SessionBook(t)'
  BY <1>1, <1>2, FreshBook
<1> QED BY <1>1, <1>2, <1>3, BookOne

\* A SELECT.
LEMMA ReadBook ==
    ASSUME TypeOK, BookInv, NEW t \in Sessions, NEW row,
           tx' = [tx EXCEPT ![t].read = row], UNCHANGED <<stock, reservation, lines>>
    PROVE  BookInv'
<1>1. /\ tx'[t].op = tx[t].op /\ tx'[t].res = tx[t].res /\ tx'[t].need = tx[t].need
      /\ tx'[t].todo = tx[t].todo /\ tx'[t].done = tx[t].done
      /\ tx'[t].locked = tx[t].locked /\ tx'[t].own = tx[t].own
      /\ tx'[t].blind = tx[t].blind
      /\ \A u \in Sessions \ {t} : tx'[u] = tx[u]
  BY DEF TypeOK, Tx
<1>2. \A p : Allotted(t, p)' = Allotted(t, p)
  BY <1>1 DEF Allotted
<1>3. SessionBook(t)
  BY DEF BookInv
<1>4. Planned(t)' /\ GivesBack(t)' /\ InOrder(t)'
  BY <1>1, <1>2, <1>3 DEF SessionBook, Planned, GivesBack, InOrder
<1>5. \A x \in Rows : VersionInv(t, x)'
  BY <1>1, <1>3 DEF SessionBook, VersionInv
<1>6. SessionBook(t)'
  BY <1>4, <1>5 DEF SessionBook
<1> QED BY <1>1, <1>6, BookOne DEF BookInv, OneLock

\* An UPDATE: row x is next, nobody else has it, and its new version accounts for delta.
LEMMA WriteBook ==
    ASSUME TypeOK, BookInv, NEW t \in Sessions, NEW x \in Rows, NEW row \in StockRow, NEW delta \in Int,
           Write(t, x, row, delta), NextRow(t, x), ~LockedByOther(t, x),
           tx[t].op \in {"create", "release"} => delta = tx[t].todo[x],
           tx[t].op = "create" => row = [Sees(t, x) EXCEPT !.reserved = @ + delta],
           tx[t].op = "release" => row = [Sees(t, x) EXCEPT !.reserved = @ - delta],
           tx[t].op = "commit" =>
               /\ delta = -tx[t].todo[x] /\ tx[t].read # NoRow
               /\ row = [onHand |-> tx[t].read.onHand + delta,
                         reserved |-> tx[t].read.reserved + delta],
           tx[t].op \notin Reserving => row = [Sees(t, x) EXCEPT !.onHand = @ + delta]
    PROVE  BookInv'
<1>1. tx[t] \in Tx /\ SessionBook(t)
  BY DEF TypeOK, BookInv
<1>2. /\ tx'[t].op = tx[t].op /\ tx'[t].res = tx[t].res /\ tx'[t].need = tx[t].need
      /\ tx'[t].locked = tx[t].locked \cup {x}
      /\ tx'[t].own = [tx[t].own EXCEPT ![x] = row]
      /\ tx'[t].todo = [tx[t].todo EXCEPT ![x] = 0]
      /\ tx'[t].done = [tx[t].done EXCEPT ![x] = @ + delta]
      /\ tx'[t].blind = IF tx[t].read \in {NoRow, Sees(t, x)} THEN tx[t].blind
                        ELSE tx[t].blind \cup {x}
      /\ \A u \in Sessions \ {t} : tx'[u] = tx[u]
      /\ UNCHANGED <<stock, reservation, lines>>
  BY <1>1 DEF Write, TypeOK, Tx
<1>3. /\ tx[t].own \in [Rows -> StockRow] /\ tx[t].todo \in [Rows -> Int] /\ tx[t].done \in [Rows -> Int]
      /\ tx[t].locked \subseteq Rows
  BY <1>1 DEF Tx
<1>4. tx[t].todo[x] # 0 /\ \A y \in Rows : tx[t].todo[y] # 0 /\ y # x => Before(tx[t].op, tx[t].todo, x, y)
  BY DEF NextRow
<1>5. ASSUME tx[t].op \in {"create", "release"}
      PROVE  \A y \in Rows : tx'[t].todo[y] + tx'[t].done[y] = tx[t].todo[y] + tx[t].done[y]
  BY <1>2, <1>3, <1>5
<1>c. ASSUME tx[t].op = "commit"
      PROVE  \A y \in Rows : tx'[t].todo[y] - tx'[t].done[y] = tx[t].todo[y] - tx[t].done[y]
  BY <1>2, <1>3, <1>c
<1>6. Planned(t)'
  <2> SUFFICES ASSUME tx[t].op = "create", NEW p \in Products
               PROVE  \/ /\ tx'[t].need[p] = Wanted[tx'[t].res][p]
                         /\ \A w \in Warehouses : tx'[t].todo[<<p, w>>] = 0 /\ tx'[t].done[<<p, w>>] = 0
                      \/ /\ tx'[t].need[p] = 0
                         /\ SumFunction(Allotted(t, p)') = Wanted[tx'[t].res][p]
    BY <1>2 DEF Planned
  <2>0. \A w \in Warehouses : <<p, w>> \in Rows
    BY DEF Rows
  <2>1. CASE /\ tx[t].need[p] = Wanted[tx[t].res][p]
             /\ \A w \in Warehouses : tx[t].todo[<<p, w>>] = 0 /\ tx[t].done[<<p, w>>] = 0
    <3>1. \A w \in Warehouses : <<p, w>> # x
      BY <1>4, <2>1
    <3> QED BY <1>2, <1>3, <2>0, <2>1, <3>1
  <2>2. CASE tx[t].need[p] = 0 /\ SumFunction(Allotted(t, p)) = Wanted[tx[t].res][p]
    <3>1. Allotted(t, p)' = Allotted(t, p)
      BY <1>5, <2>0 DEF Allotted
    <3> QED BY <1>2, <2>2, <3>1
  <2> QED BY <1>1, <2>1, <2>2 DEF SessionBook, Planned
<1>7. GivesBack(t)'
  BY <1>1, <1>2, <1>5, <1>c DEF SessionBook, GivesBack
<1>8. InOrder(t)'
  <2> SUFFICES ASSUME tx[t].op \in Settling, NEW z \in tx[t].locked \cup {x}, NEW y \in Rows, tx'[t].todo[y] # 0
               PROVE  Precedes(z, y)
    BY <1>2 DEF InOrder
  <2>1. y # x /\ tx[t].todo[y] # 0
    BY <1>2, <1>3
  <2>2. CASE z = x
    BY <1>4, <2>1, <2>2 DEF Before, Precedes, Settling
  <2>3. CASE z # x
    BY <1>1, <2>1, <2>3 DEF SessionBook, InOrder
  <2> QED BY <2>2, <2>3
<1>9. ASSUME NEW y \in Rows PROVE VersionInv(t, y)'
  <2>1. VersionInv(t, y) /\ VersionInv(t, x)
    BY <1>1 DEF SessionBook
  <2>2. CASE y # x
    BY <1>2, <1>3, <2>1, <2>2 DEF VersionInv
  <2>3. CASE y = x
    <3>1. x \in tx'[t].locked /\ tx'[t].own[x] = row /\ tx'[t].done[x] = tx[t].done[x] + delta
      BY <1>2, <1>3
    <3>2. tx[t].done[x] \in Int /\ stock[x] \in StockRow /\ tx[t].own[x] \in StockRow
      BY <1>3, RowTypes
    <3>3. tx[t].op = "create" => row = [stock[x] EXCEPT !.reserved = @ + (tx[t].done[x] + delta)]
      BY <2>1, <3>2 DEF VersionInv, Sees, StockRow
    <3>4. tx[t].op = "release" => row = [stock[x] EXCEPT !.reserved = @ - (tx[t].done[x] + delta)]
      BY <2>1, <3>2 DEF VersionInv, Sees, StockRow
    <3>6. tx[t].op = "commit" /\ x \notin tx'[t].blind =>
             row = [onHand |-> stock[x].onHand + (tx[t].done[x] + delta),
                    reserved |-> stock[x].reserved + (tx[t].done[x] + delta)]
      <4> SUFFICES ASSUME tx[t].op = "commit", x \notin tx'[t].blind
                   PROVE  row = [onHand |-> stock[x].onHand + (tx[t].done[x] + delta),
                                 reserved |-> stock[x].reserved + (tx[t].done[x] + delta)]
        OBVIOUS
      <4>1. tx[t].read = Sees(t, x) /\ x \notin tx[t].blind
        BY <1>2
      <4>2. /\ Sees(t, x).onHand = stock[x].onHand + tx[t].done[x]
            /\ Sees(t, x).reserved = stock[x].reserved + tx[t].done[x]
        BY <2>1, <3>2, <4>1 DEF VersionInv, Sees, StockRow
      <4>3. stock[x].onHand \in Int /\ stock[x].reserved \in Int
        BY <3>2 DEF StockRow
      <4> QED BY <3>2, <4>1, <4>2, <4>3
    <3>5. tx[t].op \notin Reserving => row = [stock[x] EXCEPT !.onHand = @ + (tx[t].done[x] + delta)]
      BY <2>1, <3>2 DEF VersionInv, Sees, StockRow
    <3> QED BY <1>2, <2>3, <3>1, <3>3, <3>4, <3>5, <3>6 DEF VersionInv
  <2> QED BY <2>2, <2>3
<1>10. \A u \in Sessions \ {t} : tx'[t].locked \cap tx[u].locked = {}
  BY <1>2 DEF LockedByOther, BookInv, OneLock
<1> QED BY <1>2, <1>6, <1>7, <1>8, <1>9, <1>10, BookOne DEF SessionBook
\* planAllocations allots all of what is wanted of a product, or the creation ends.
LEMMA PlanBook ==
    ASSUME TypeOK, BookInv, NEW t \in Sessions, PlanProduct(t)
    PROVE  BookInv'
<1>1. CASE Rollback(t)
  BY <1>1, RollbackBook
<1>2. ASSUME NEW p \in Products, NEW take \in [Warehouses -> 0..tx[t].need[p]],
             tx[t].need[p] > 0, SumFunction(take) = tx[t].need[p],
             tx' = [tx EXCEPT
                      ![t].need[p] = 0,
                      ![t].todo = [x \in Rows |-> IF x[1] = p THEN take[x[2]] ELSE 0]],
             UNCHANGED <<stock, movements, reservation, lines, overwritten>>
      PROVE  BookInv'
  <2>1. /\ tx[t] \in Tx /\ SessionBook(t)
        /\ tx[t].op = "create" /\ tx[t].todo = NothingTodo
    BY DEF TypeOK, BookInv, PlanProduct
  <2>2. /\ tx[t].need \in [Products -> Nat] /\ tx[t].done \in [Rows -> Int]
        /\ tx[t].need[p] \in Nat
    BY <2>1 DEF Tx
  <2>3. /\ \A u \in Sessions \ {t} : tx'[u] = tx[u]
        /\ tx'[t].op = "create" /\ tx'[t].res = tx[t].res /\ tx'[t].done = tx[t].done
        /\ tx'[t].locked = tx[t].locked /\ tx'[t].own = tx[t].own
        /\ tx'[t].need = [tx[t].need EXCEPT ![p] = 0]
        /\ tx'[t].todo = [x \in Rows |-> IF x[1] = p THEN take[x[2]] ELSE 0]
    BY <1>2, <2>1 DEF TypeOK, Tx
  <2>4. \A q \in Products, w \in Warehouses :
            <<q, w>> \in Rows /\ tx[t].todo[<<q, w>>] = 0
              /\ tx'[t].todo[<<q, w>>] = IF q = p THEN take[w] ELSE 0
    BY <2>1, <2>3 DEF Rows, NothingTodo
  <2>5. ASSUME NEW q \in Products, q # p
        PROVE  Allotted(t, q)' = Allotted(t, q) /\ tx'[t].need[q] = tx[t].need[q]
    <3>1. \A w \in Warehouses :
             tx'[t].todo[<<q, w>>] + tx'[t].done[<<q, w>>] = tx[t].todo[<<q, w>>] + tx[t].done[<<q, w>>]
      BY <2>3, <2>4, <2>5
    <3>2. tx'[t].need[q] = tx[t].need[q]
      BY <2>2, <2>3, <2>5
    <3> QED BY <3>1, <3>2 DEF Allotted
  <2>6. Wanted[tx[t].res][p] = tx[t].need[p] /\ Allotted(t, p)' = take
    <3>1. /\ tx[t].need[p] = Wanted[tx[t].res][p]
          /\ \A w \in Warehouses : tx[t].done[<<p, w>>] = 0
      BY <1>2, <2>1, <2>2 DEF SessionBook, Planned
    <3>2. \A w \in Warehouses : take[w] \in Nat
      BY <1>2, <2>2
    <3>3. Allotted(t, p)' = [w \in Warehouses |-> take[w]]
      <4>1. \A w \in Warehouses : tx'[t].todo[<<p, w>>] + tx'[t].done[<<p, w>>] = take[w]
        BY <2>3, <2>4, <3>1, <3>2
      <4> QED BY <4>1 DEF Allotted
    <3> QED BY <1>2, <3>1, <3>3
  <2>7. Planned(t)'
    <3> SUFFICES ASSUME NEW q \in Products
                 PROVE  \/ /\ tx'[t].need[q] = Wanted[tx'[t].res][q]
                           /\ \A w \in Warehouses : tx'[t].todo[<<q, w>>] = 0 /\ tx'[t].done[<<q, w>>] = 0
                        \/ /\ tx'[t].need[q] = 0
                           /\ SumFunction(Allotted(t, q)') = Wanted[tx'[t].res][q]
      BY DEF Planned
    <3>1. CASE q = p
      BY <1>2, <2>2, <2>3, <2>6, <3>1
    <3>2. CASE q # p
      <4>1. Allotted(t, q)' = Allotted(t, q) /\ tx'[t].need[q] = tx[t].need[q]
        BY <2>5, <3>2
      <4>2. \A w \in Warehouses : tx'[t].todo[<<q, w>>] = 0 /\ tx'[t].done[<<q, w>>] = tx[t].done[<<q, w>>]
        BY <2>3, <2>4, <3>2
      <4>3. Planned(t)
        BY <2>1 DEF SessionBook
      <4> QED BY <2>1, <2>3, <4>1, <4>2, <4>3 DEF Planned
    <3> QED BY <3>1, <3>2
  <2>8. GivesBack(t)' /\ InOrder(t)' /\ \A x \in Rows : VersionInv(t, x)'
    <3>1. UNCHANGED stock /\ \A x \in Rows : VersionInv(t, x)
      BY <1>2, <2>1 DEF SessionBook
    <3>2. \A x \in Rows : VersionInv(t, x)'
      BY <2>1, <2>3, <3>1 DEF VersionInv
    <3> QED BY <2>3, <3>2 DEF GivesBack, InOrder, Settling
  <2> QED BY <1>2, <2>3, <2>7, <2>8, BookOne DEF SessionBook, BookInv, OneLock
<1> QED BY <1>1, <1>2 DEF PlanProduct, IsAllocation

LEMMA CountBook ==
    ASSUME TypeOK, BookInv, NEW t \in Sessions, NEW x \in Rows, NEW q \in 0..MaxQty,
           CycleCount(t, x, q)
    PROVE  BookInv'
<1> DEFINE row == [stock[x] EXCEPT !.onHand = q]
<1>1. NoTx.own \in [Rows -> StockRow] /\ stock[x] \in StockRow /\ q \in Int
  BY NoTxType, StockAssumption DEF Tx, TypeOK
<1>2. /\ \A u \in Sessions \ {t} : tx'[u] = tx[u]
      /\ tx'[t].op = "count" /\ tx'[t].locked = {x} /\ tx'[t].own[x] = row
      /\ tx'[t].done = [NothingTodo EXCEPT ![x] = q - stock[x].onHand]
      /\ UNCHANGED <<stock, reservation, lines>>
  BY <1>1 DEF CycleCount, TypeOK, NoTx
<1>3. /\ tx'[t].done[x] = q - stock[x].onHand
      /\ \A y \in Rows \ {x} : tx'[t].done[y] = 0
  BY <1>2 DEF NothingTodo
<1>4. row = [stock[x] EXCEPT !.onHand = @ + tx'[t].done[x]]
  BY <1>1, <1>3 DEF StockRow
<1>5. \A y \in Rows : VersionInv(t, y)'
  BY <1>2, <1>3, <1>4 DEF VersionInv, Reserving
<1>6. Planned(t)' /\ GivesBack(t)' /\ InOrder(t)'
  BY <1>2 DEF Planned, GivesBack, InOrder, Settling
<1>7. \A u \in Sessions \ {t} : tx'[t].locked \cap tx[u].locked = {}
  BY <1>2 DEF CycleCount, LockedByOther
<1> QED BY <1>2, <1>5, <1>6, <1>7, BookOne DEF SessionBook

LEMMA FiniteRows ==
    IsFiniteSet(Warehouses) /\ IsFiniteSet(Products) /\ IsFiniteSet(Rows)
<1>1. IsFiniteSet(Warehouses) /\ IsFiniteSet(Products)
  BY StockAssumption, FS_Interval DEF Warehouses, Products
<1> QED BY <1>1, FS_Product DEF Rows

\* A creation that commits has written what was wanted.
LEMMA CreatedInFull ==
    ASSUME TypeOK, OwnerInv, BookInv, NEW t \in Sessions, Commit(t), tx[t].op = "create", NEW p \in Products
    PROVE  SumFunction([w \in Warehouses |-> tx[t].done[<<p, w>>]]) = Wanted[tx[t].res][p]
<1> DEFINE f == [w \in Warehouses |-> tx[t].done[<<p, w>>]]
<1>1. /\ tx[t] \in Tx /\ SessionBook(t) /\ tx[t].todo = NothingTodo /\ tx[t].need[p] = 0
      /\ \A w \in Warehouses : <<p, w>> \in Rows
  BY DEF TypeOK, BookInv, Commit, Rows
<1>2. Allotted(t, p) = f
  <2>1. \A w \in Warehouses : tx[t].todo[<<p, w>>] + tx[t].done[<<p, w>>] = tx[t].done[<<p, w>>]
    BY <1>1 DEF NothingTodo, Tx
  <2> QED BY <2>1 DEF Allotted
<1>3. CASE SumFunction(Allotted(t, p)) = Wanted[tx[t].res][p]
  BY <1>2, <1>3
<1>4. CASE /\ Wanted[tx[t].res][p] = 0
           /\ \A w \in Warehouses : tx[t].done[<<p, w>>] = 0
  <2>1. DOMAIN f = Warehouses /\ \A w \in Warehouses : f[w] = 0
    BY <1>4
  <2> HIDE DEF f
  <2>2. SumFunction(f) = 0
    BY <2>1, FiniteRows, SumZero DEF SumFunction
  <2> QED BY <1>4, <2>2 DEF f
<1> QED BY <1>1, <1>3, <1>4 DEF SessionBook, Planned

LEMMA CommitBook ==
    ASSUME TypeOK, OwnerInv, BookInv, NEW t \in Sessions, Commit(t)
    PROVE  BookInv'
<1> DEFINE op == tx[t].op
           res == tx[t].res
<1>1. /\ \A u \in Sessions \ {t} : tx'[u] = tx[u]
      /\ tx'[t] = NoTx
      /\ stock' = [x \in Rows |-> Sees(t, x)]
      /\ op \notin Reserving => UNCHANGED reservation
      /\ op \in Reserving => reservation' = [reservation EXCEPT ![res] = SetStatus(op)]
      /\ op # "create" => UNCHANGED lines
      /\ op = "create" => lines' = [lines EXCEPT ![res] = tx[t].done]
  BY DEF Commit, TypeOK, Reserving
<1>2. op \in Reserving => res \in Reservations
  BY DEF OwnerInv, Reserving, Settling
<1>3. SessionBook(t)'
  BY <1>1, FreshBook DEF NoTx, Settling
<1>4. ASSUME NEW u \in Sessions \ {t} PROVE SessionBook(u)'
  <2>1. tx[u].locked \subseteq Rows /\ SessionBook(u) /\ tx[u].locked \cap tx[t].locked = {}
    BY DEF TypeOK, Tx, BookInv, OneLock
  <2>2. \A x \in tx[u].locked : stock'[x] = stock[x]
    BY <1>1, <2>1 DEF Sees
  <2>3. tx[u].op \in Settling => lines'[tx[u].res] = lines[tx[u].res]
    BY <1>1, <1>2 DEF OwnerInv, Reserving, Settling, TypeOK
  <2> QED BY <1>1, <2>1, <2>2, <2>3, BookKept
<1>5. OneLock'
  BY <1>1 DEF BookInv, OneLock, NoTx
<1>6. IsFiniteSet(Pending')
  <2>1. Pending' \subseteq Pending \cup {res}
    BY <1>1, <1>2 DEF Pending, TypeOK
  <2>2. IsFiniteSet(Pending \cup {res})
    BY FS_AddElement DEF BookInv
  <2> QED BY <2>1, <2>2, FS_Subset
<1>7. ReservedInFull'
  <2> SUFFICES ASSUME NEW r \in Reservations, reservation'[r] # "none", NEW p \in Products
               PROVE  SumFunction([w \in Warehouses |-> lines'[r][<<p, w>>]]) = Wanted[r][p]
    BY DEF ReservedInFull
  <2>1. CASE op = "create" /\ r = res
    <3>1. lines'[r] = tx[t].done
      BY <1>1, <2>1 DEF TypeOK
    <3> QED BY <2>1, <3>1, CreatedInFull
  <2>2. CASE ~(op = "create" /\ r = res)
    <3>1. lines'[r] = lines[r]
      BY <1>1, <1>2, <2>2 DEF TypeOK
    <3>2. reservation[r] # "none"
      BY <1>1, <1>2, <2>2 DEF TypeOK, OwnerInv, Reserving, Settling
    <3> QED BY <3>1, <3>2 DEF BookInv, ReservedInFull
  <2> QED BY <2>1, <2>2
<1> QED BY <1>3, <1>4, <1>5, <1>6, <1>7 DEF BookInv

LEMMA NextBook ==
    ASSUME TypeOK, OwnerInv, BookInv, [Next]_vars
    PROVE  BookInv'
<1>1. ASSUME NEW t \in Sessions, NEW r \in Reservations, NEW op \in Settling,
             BeginCreate(t, r) \/ BeginSettle(t, op, r)
      PROVE  BookInv'
  <2>1. lines[r] \in [Rows -> Int] /\ NothingTodo \in [Rows -> Int]
    BY DEF TypeOK, NothingTodo
  <2> QED BY <1>1, <2>1, BeginBook DEF BeginCreate, BeginSettle, Settling
<1>2. ASSUME NEW t \in Sessions, PlanProduct(t) PROVE BookInv'
  BY <1>2, PlanBook
<1>3. ASSUME NEW t \in Sessions, NEW x \in Rows, ReserveAvailable(t, x) PROVE BookInv'
  <2>1. CASE Rollback(t)
    BY <2>1, RollbackBook
  <2>2. CASE Write(t, x, [Sees(t, x) EXCEPT !.reserved = @ + tx[t].todo[x]], tx[t].todo[x])
    <3>1. [Sees(t, x) EXCEPT !.reserved = @ + tx[t].todo[x]] \in StockRow /\ tx[t].todo[x] \in Int
      BY RowTypes DEF StockRow
    <3> QED BY <1>3, <2>2, <3>1, WriteBook DEF ReserveAvailable, Reserving
  <2> QED BY <1>3, <2>1, <2>2 DEF ReserveAvailable
<1>4. ASSUME NEW t \in Sessions, NEW x \in Rows, ReleaseReserved(t, x) PROVE BookInv'
  <2>1. CASE Rollback(t)
    BY <2>1, RollbackBook
  <2>2. CASE Write(t, x, [Sees(t, x) EXCEPT !.reserved = @ - tx[t].todo[x]], tx[t].todo[x])
    <3>1. [Sees(t, x) EXCEPT !.reserved = @ - tx[t].todo[x]] \in StockRow /\ tx[t].todo[x] \in Int
      BY RowTypes DEF StockRow
    <3> QED BY <1>4, <2>2, <3>1, WriteBook DEF ReleaseReserved, Reserving
  <2> QED BY <1>4, <2>1, <2>2 DEF ReleaseReserved
<1>5. ASSUME NEW t \in Sessions, NEW x \in Rows, Move(t, x) PROVE BookInv'
  <2>1. CASE Rollback(t)
    BY <2>1, RollbackBook
  <2>2. CASE Write(t, x, [Sees(t, x) EXCEPT !.onHand = @ + tx[t].todo[x]], tx[t].todo[x])
    <3>1. [Sees(t, x) EXCEPT !.onHand = @ + tx[t].todo[x]] \in StockRow /\ tx[t].todo[x] \in Int
      BY RowTypes DEF StockRow
    <3> QED BY <1>5, <2>2, <3>1, WriteBook DEF Move, Reserving
  <2> QED BY <1>5, <2>1, <2>2 DEF Move
<1>6. ASSUME NEW t \in Sessions, NEW x \in Rows, CommitSelect(t, x) PROVE BookInv'
  BY <1>6, RollbackBook, ReadBook DEF CommitSelect
<1>7. ASSUME NEW t \in Sessions, NEW x \in Rows, CommitUpdate(t, x) PROVE BookInv'
  <2> DEFINE row == [onHand |-> tx[t].read.onHand - tx[t].todo[x],
                     reserved |-> tx[t].read.reserved - tx[t].todo[x]]
  <2>1. tx[t].todo[x] \in Int /\ tx[t].read \in StockRow
    BY RowTypes DEF TypeOK, Tx
  <2>2. /\ row \in StockRow /\ -tx[t].todo[x] \in Int
        /\ row = [onHand |-> tx[t].read.onHand + (-tx[t].todo[x]),
                  reserved |-> tx[t].read.reserved + (-tx[t].todo[x])]
    BY <2>1 DEF StockRow
  <2>3. /\ tx[t].op = "commit" /\ NextRow(t, x) /\ ~LockedByOther(t, x)
        /\ tx[t].read # NoRow
        /\ Write(t, x, row, -tx[t].todo[x])
    BY <1>7 DEF CommitUpdate
  <2> DEFINE delta == -tx[t].todo[x]
  <2>4. /\ row \in StockRow /\ delta \in Int /\ Write(t, x, row, delta)
        /\ row = [onHand |-> tx[t].read.onHand + delta,
                  reserved |-> tx[t].read.reserved + delta]
        /\ delta = -tx[t].todo[x]
    BY <2>2, <2>3
  <2> HIDE DEF row, delta
  <2> QED BY <2>3, <2>4, WriteBook DEF Reserving
<1>8. ASSUME NEW t \in Sessions, NEW op \in {"adjust", "transfer"}, NEW need,
             NEW todo \in [Rows -> Int], Begin(t, op, "none", need, todo)
      PROVE  BookInv'
  BY <1>8, BeginBook DEF Settling
<1>9. ASSUME NEW t \in Sessions, NEW x \in Rows, NEW q \in 1..MaxQty,
             BeginAdjust(t, x, q) \/ BeginAdjust(t, x, -q)
      PROVE  BookInv'
  <2>1. [NothingTodo EXCEPT ![x] = q] \in [Rows -> Int] /\ [NothingTodo EXCEPT ![x] = -q] \in [Rows -> Int]
    BY DEF NothingTodo
  <2> QED BY <1>8, <1>9, <2>1 DEF BeginAdjust
<1>10. ASSUME NEW t \in Sessions, NEW x \in Rows, NEW y \in Rows, NEW q \in 1..MaxQty,
              BeginTransfer(t, x, y, q)
       PROVE  BookInv'
  <2>1. [NothingTodo EXCEPT ![x] = -q, ![y] = q] \in [Rows -> Int]
    BY DEF NothingTodo
  <2> QED BY <1>8, <1>10, <2>1 DEF BeginTransfer
<1>11. ASSUME NEW t \in Sessions, NEW x \in Rows, NEW q \in 0..MaxQty, CycleCount(t, x, q)
       PROVE  BookInv'
  BY <1>11, CountBook
<1>12. ASSUME NEW t \in Sessions, Commit(t) \/ Abort(t) PROVE BookInv'
  BY <1>12, CommitBook, RollbackBook DEF Abort
<1>13. CASE UNCHANGED vars
  <2>1. \A u \in Sessions : SessionBook(u)'
    BY <1>13, BookKept DEF vars, BookInv
  <2>2. OneLock' /\ ReservedInFull' /\ Pending' = Pending
    BY <1>13 DEF vars, BookInv, OneLock, ReservedInFull, Pending
  <2> QED BY <2>1, <2>2 DEF BookInv
<1> QED
  BY <1>1, <1>2, <1>3, <1>4, <1>5, <1>6, <1>7, <1>9, <1>10, <1>11, <1>12, <1>13
  DEF Next, Settle, Settling

LEMMA BookCorrect == Spec => [](TypeOK /\ OwnerInv /\ BookInv)
<1>1. Init => TypeOK /\ OwnerInv /\ BookInv
  BY InitType, InitBook DEF Init, OwnerInv, NoTx, Reserving, Settling
<1>2. TypeOK /\ OwnerInv /\ BookInv /\ [Next]_vars => (TypeOK /\ OwnerInv /\ BookInv)'
  BY NextType, NextOwner, NextBook
<1> QED BY <1>1, <1>2, PTL DEF Spec

\* planAllocations, reserveAvailable: a reservation that exists holds what was asked for,
\* over any number of warehouses and whatever was taken between plan and UPDATE.
THEOREM HoldsWhatWasAsked == Spec => []ReservedInFull
<1>1. BookInv => ReservedInFull
  BY DEF BookInv
<1> QED BY <1>1, BookCorrect, PTL
-----------------------------------------------------------------------------
(* Deadlock *)

\* Precedes is a strict order on the rows.
LEMMA PrecedesOrder ==
    ASSUME NEW x \in Rows, NEW y \in Rows, NEW z \in Rows
    PROVE  /\ ~Precedes(x, x)
           /\ Precedes(x, y) /\ Precedes(y, z) => Precedes(x, z)
<1>1. \A v \in {x, y, z} : v[1] \in Int /\ v[2] \in Int
  BY DEF Rows, Products, Warehouses
<1> QED BY <1>1 DEF Precedes

\* A circle of waiting settlements would be a circle of rows, each before the next.
LEMMA NoCircle == TypeOK /\ BookInv => SettlersNeverDeadlock
<1> SUFFICES ASSUME TypeOK, BookInv,
                    NEW S \in SUBSET {t \in Sessions : tx[t].op \in Settling}, S # {},
                    \A t \in S : \E u \in S : WaitsFor(t, u)
             PROVE  FALSE
  BY DEF SettlersNeverDeadlock, Settling
<1> DEFINE Later(x) == {y \in Rows : Precedes(x, y)}
           Awaited == {x \in Rows : \E t, u \in S : x \in tx[u].locked /\ NextRow(t, x)}
           Bad == {Later(x) : x \in Awaited}
<1>1. \A t \in S : \E u \in S : \E x \in Awaited : x \in tx[u].locked /\ NextRow(t, x)
  BY DEF WaitsFor, TypeOK, Tx
<1>2. Awaited # {}
  BY <1>1
<1>3. PICK s \in Bad : \A v \in SUBSET s : v # s => v \notin Bad
  <2>1. Bad # {} /\ Bad \in SUBSET SUBSET Rows
    BY <1>2
  <2> HIDE DEF Bad
  <2> QED BY <2>1, FiniteRows, SmallestSet
<1>4. PICK x \in Awaited : s = Later(x)
  OBVIOUS
<1>5. PICK u \in S : x \in tx[u].locked
  OBVIOUS
<1>6. PICK z \in Awaited : NextRow(u, z)
  BY <1>1
<1>7. x \in Rows /\ z \in Rows
  OBVIOUS
<1>8. Precedes(x, z)
  BY <1>5, <1>6, <1>7 DEF NextRow, BookInv, SessionBook, InOrder
<1>9. Later(z) \in SUBSET Later(x) /\ Later(z) # Later(x)
  <2>1. \A y \in Rows : Precedes(z, y) => Precedes(x, y)
    BY <1>7, <1>8, PrecedesOrder
  <2>2. z \in Later(x) /\ z \notin Later(z)
    BY <1>7, <1>8, PrecedesOrder
  <2> QED BY <2>1, <2>2
<1>10. Later(z) \in Bad
  OBVIOUS
<1> HIDE DEF Bad, Later
<1> QED BY <1>3, <1>4, <1>9, <1>10

\* listLines orders by product and warehouse, so any number of commits and releases of
\* any reservations never wait for each other in a circle.
THEOREM SettlersDoNotDeadlock == Spec => []SettlersNeverDeadlock
  BY BookCorrect, NoCircle, PTL

-----------------------------------------------------------------------------
(* Drift *)

\* What a transaction writes when it ends, row by row, unless it overwrites.
LEMMA WrittenRow ==
    ASSUME TypeOK, BookInv, NEW t \in Sessions, NEW x \in Rows, Commit(t), x \notin tx[t].blind
    PROVE  /\ tx[t].op = "create" =>
                 stock'[x] = [stock[x] EXCEPT !.reserved = @ + tx[t].done[x]]
           /\ tx[t].op = "release" =>
                 stock'[x] = [stock[x] EXCEPT !.reserved = @ - tx[t].done[x]]
           /\ tx[t].op = "commit" =>
                 stock'[x] = [onHand |-> stock[x].onHand + tx[t].done[x],
                              reserved |-> stock[x].reserved + tx[t].done[x]]
           /\ tx[t].op \notin Reserving =>
                 stock'[x] = [stock[x] EXCEPT !.onHand = @ + tx[t].done[x]]
<1>1. stock'[x] = Sees(t, x) /\ stock[x] \in StockRow /\ VersionInv(t, x)
  BY RowTypes DEF Commit, BookInv, SessionBook
<1>2. CASE x \in tx[t].locked
  BY <1>1, <1>2 DEF Sees, VersionInv
<1>3. CASE x \notin tx[t].locked
  <2>1. stock'[x] = stock[x] /\ tx[t].done[x] = 0
    BY <1>1, <1>3 DEF Sees, VersionInv
  <2>2. /\ [stock[x] EXCEPT !.reserved = @ + 0] = stock[x]
        /\ [stock[x] EXCEPT !.reserved = @ - 0] = stock[x]
        /\ [stock[x] EXCEPT !.onHand = @ + 0] = stock[x]
        /\ [onHand |-> stock[x].onHand + 0, reserved |-> stock[x].reserved + 0] = stock[x]
    BY <1>1 DEF StockRow
  <2> QED BY <2>1, <2>2
<1> QED BY <1>2, <1>3

LEMMA CommitNoDrift ==
    ASSUME TypeOK, OwnerInv, BookInv, NEW t \in Sessions, NEW x \in Rows, Commit(t),
           x \notin tx[t].blind
    PROVE  Drift(x)' = Drift(x)
<1> DEFINE op == tx[t].op
           res == tx[t].res
           d == tx[t].done[x]
<1>1. /\ stock[x] \in StockRow /\ d \in Int /\ movements[x] \in Int
      /\ tx[t].todo[x] = 0 /\ InitialStock[x] \in Int
      /\ \A r \in Reservations : lines[r][x] \in Int
  BY RowTypes, StockAssumption DEF TypeOK, Tx, Commit, NothingTodo
<1>2. IsFiniteSet(Pending) /\ Pending \subseteq Reservations
  BY DEF BookInv, Pending
<1> DEFINE f == [r \in Pending |-> lines[r][x]]
           g == [r \in Pending' |-> lines'[r][x]]
<1>3. CASE op = "create"
  <2>1. stock'[x].reserved = stock[x].reserved + d /\ stock'[x].onHand = stock[x].onHand
    <3>1. stock'[x] = [stock[x] EXCEPT !.reserved = @ + d]
      BY <1>3, WrittenRow
    <3> QED BY <1>1, <3>1 DEF StockRow
  <2>2. /\ movements' = movements
        /\ reservation' = [reservation EXCEPT ![res] = "pending"]
        /\ lines' = [lines EXCEPT ![res] = tx[t].done]
    BY <1>3 DEF Commit, SetStatus
  <2>3. res \in Reservations /\ res \notin Pending
    BY <1>3 DEF OwnerInv, Pending
  <2>4. Pending' = Pending \cup {res}
    BY <2>2, <2>3 DEF Pending, TypeOK
  <2>5. /\ DOMAIN f = Pending /\ DOMAIN g = Pending \cup {res}
        /\ \A r \in Pending : f[r] \in Int /\ g[r] = f[r]
        /\ g[res] = d
    BY <1>1, <1>2, <2>2, <2>3, <2>4 DEF TypeOK
  <2>6. SumFunction(g) = SumFunction(f) + d /\ SumFunction(f) \in Int
    <3> DEFINE P == Pending
    <3>1. /\ IsFiniteSet(P) /\ res \notin P /\ DOMAIN f = P /\ DOMAIN g = P \cup {res}
          /\ \A q \in P : f[q] \in Int /\ g[q] = f[q]
          /\ g[res] = d /\ d \in Int
      BY <1>1, <1>2, <2>3, <2>5
    <3> HIDE DEF f, g, P, res, d
    <3>2. SumFunction(g) = SumFunction(f) + g[res] /\ SumFunction(f) \in Int
      BY <3>1, SumOneMore
    <3> QED BY <3>1, <3>2
  <2> QED BY <1>1, <2>1, <2>2, <2>6 DEF Drift, Promised, StockRow
<1>4. CASE op = "release"
  <2>1. stock'[x].reserved = stock[x].reserved - d /\ stock'[x].onHand = stock[x].onHand
    <3>1. stock'[x] = [stock[x] EXCEPT !.reserved = @ - d]
      BY <1>4, WrittenRow
    <3> QED BY <1>1, <3>1 DEF StockRow
  <2>2. /\ movements' = movements
        /\ reservation' = [reservation EXCEPT ![res] = "released"]
        /\ lines' = lines
    BY <1>4 DEF Commit, SetStatus
  <2>3. res \in Pending /\ lines[res][x] = d
    BY <1>1, <1>4 DEF OwnerInv, Pending, BookInv, SessionBook, GivesBack, Settling
  <2>4. Pending' = Pending \ {res} /\ IsFiniteSet(Pending')
    <3>1. Pending' = Pending \ {res}
      BY <2>2, <2>3 DEF Pending, TypeOK
    <3> QED BY <1>2, <3>1, FS_Subset
  <2>5. /\ DOMAIN g = Pending' /\ DOMAIN f = Pending' \cup {res} /\ res \notin Pending'
        /\ \A r \in Pending' : g[r] \in Int /\ f[r] = g[r]
        /\ f[res] = d
    BY <1>1, <1>2, <2>2, <2>3, <2>4
  <2>6. SumFunction(f) = SumFunction(g) + d /\ SumFunction(g) \in Int
    <3> DEFINE P == Pending'
    <3>1. /\ IsFiniteSet(P) /\ res \notin P /\ DOMAIN g = P /\ DOMAIN f = P \cup {res}
          /\ \A q \in P : g[q] \in Int /\ f[q] = g[q]
          /\ f[res] = d /\ d \in Int
      BY <1>1, <2>4, <2>5
    <3> HIDE DEF f, g, P, res, d
    <3>2. SumFunction(f) = SumFunction(g) + f[res] /\ SumFunction(g) \in Int
      BY <3>1, SumOneMore
    <3> QED BY <3>1, <3>2
  <2> QED BY <1>1, <2>1, <2>2, <2>6 DEF Drift, Promised, StockRow
<1>5. CASE op \notin Reserving
  <2>1. stock'[x].reserved = stock[x].reserved /\ stock'[x].onHand = stock[x].onHand + d
    <3>1. stock'[x] = [stock[x] EXCEPT !.onHand = @ + d]
      BY <1>5, WrittenRow
    <3> QED BY <1>1, <3>1 DEF StockRow
  <2>2. movements'[x] = movements[x] + d /\ UNCHANGED <<reservation, lines>>
    BY <1>5 DEF Commit, Reserving
  <2>3. Promised(x)' = Promised(x)
    <3>1. Pending' = Pending
      BY <2>2 DEF Pending
    <3> QED BY <2>2, <3>1 DEF Promised
  <2>4. stock'[x].onHand - InitialStock[x] - movements'[x]
            = stock[x].onHand - InitialStock[x] - movements[x]
    BY <1>1, <2>1, <2>2 DEF StockRow
  <2>5. stock'[x].reserved - Promised(x)' = stock[x].reserved - Promised(x)
    BY <2>1, <2>3
  <2> QED BY <2>4, <2>5 DEF Drift
<1>6. CASE op = "commit"
  <2>1. stock'[x].reserved = stock[x].reserved + d /\ stock'[x].onHand = stock[x].onHand + d
    <3>1. stock'[x] = [onHand |-> stock[x].onHand + d, reserved |-> stock[x].reserved + d]
      BY <1>6, WrittenRow
    <3> QED BY <3>1
  <2>2. /\ movements'[x] = movements[x] + d
        /\ reservation' = [reservation EXCEPT ![res] = "committed"]
        /\ lines' = lines
    BY <1>6 DEF Commit, SetStatus
  <2>3. res \in Pending /\ lines[res][x] = -d
    BY <1>1, <1>6 DEF OwnerInv, Pending, BookInv, SessionBook, GivesBack, Settling
  <2>4. Pending' = Pending \ {res} /\ IsFiniteSet(Pending')
    <3>1. Pending' = Pending \ {res}
      BY <2>2, <2>3 DEF Pending, TypeOK
    <3> QED BY <1>2, <3>1, FS_Subset
  <2>5. /\ DOMAIN g = Pending' /\ DOMAIN f = Pending' \cup {res} /\ res \notin Pending'
        /\ \A r \in Pending' : g[r] \in Int /\ f[r] = g[r]
        /\ f[res] = -d
    BY <1>1, <1>2, <2>2, <2>3, <2>4
  <2>6. SumFunction(f) = SumFunction(g) - d /\ SumFunction(g) \in Int
    <3> DEFINE P == Pending'
    <3>1. /\ IsFiniteSet(P) /\ res \notin P /\ DOMAIN g = P /\ DOMAIN f = P \cup {res}
          /\ \A q \in P : g[q] \in Int /\ f[q] = g[q]
          /\ f[res] = -d /\ d \in Int
      BY <1>1, <2>4, <2>5
    <3> HIDE DEF f, g, P, res, d
    <3>2. f[res] \in Int
      BY <3>1
    <3>3. SumFunction(f) = SumFunction(g) + f[res] /\ SumFunction(g) \in Int
      BY <3>1, <3>2, SumOneMore
    <3> QED BY <3>1, <3>3
  <2> QED BY <1>1, <2>1, <2>2, <2>6 DEF Drift, Promised, StockRow
<1> QED BY <1>3, <1>4, <1>5, <1>6 DEF Reserving

\* No other step touches the tables.
LEMMA TablesKept ==
    ASSUME [Next]_vars, ~ \E t \in Sessions : Commit(t)
    PROVE  UNCHANGED <<stock, movements, reservation, lines, overwritten>>
<1>1. CASE UNCHANGED vars
  BY <1>1 DEF vars
<1>2. CASE Next
  <2> USE DEF Begin, Rollback, Write
  <2>1. ASSUME NEW t \in Sessions, NEW r \in Reservations,
               BeginCreate(t, r) \/ BeginSettle(t, "commit", r) \/ BeginSettle(t, "release", r)
        PROVE  UNCHANGED <<stock, movements, reservation, lines, overwritten>>
    BY <2>1 DEF BeginCreate, BeginSettle
  <2>2. ASSUME NEW t \in Sessions, PlanProduct(t)
        PROVE  UNCHANGED <<stock, movements, reservation, lines, overwritten>>
    BY <2>2 DEF PlanProduct
  <2>3. ASSUME NEW t \in Sessions, NEW x \in Rows, ReserveAvailable(t, x) \/ Settle(t, x) \/ Move(t, x)
        PROVE  UNCHANGED <<stock, movements, reservation, lines, overwritten>>
    BY <2>3 DEF ReserveAvailable, Settle, CommitSelect, CommitUpdate, ReleaseReserved, Move
  <2>4. ASSUME NEW t \in Sessions, NEW x \in Rows, NEW y \in Rows, NEW q,
               BeginAdjust(t, x, q) \/ BeginTransfer(t, x, y, q) \/ CycleCount(t, x, q)
        PROVE  UNCHANGED <<stock, movements, reservation, lines, overwritten>>
    BY <2>4 DEF BeginAdjust, BeginTransfer, CycleCount
  <2>5. ASSUME NEW t \in Sessions, Abort(t)
        PROVE  UNCHANGED <<stock, movements, reservation, lines, overwritten>>
    BY <2>5 DEF Abort
  <2> QED BY <1>2, <2>1, <2>2, <2>3, <2>4, <2>5 DEF Next
<1> QED BY <1>1, <1>2

\* Every step keeps a row in step with its lines and movements, unless it ends a
\* transaction that has overwritten that row.
LEMMA NextDrift ==
    ASSUME TypeOK, OwnerInv, BookInv, [Next]_vars, NEW x \in Rows,
           \A t \in Sessions : x \in tx[t].blind => ~Commit(t)
    PROVE  Drift(x)' = Drift(x)
<1>1. CASE \E t \in Sessions : Commit(t)
  BY <1>1, CommitNoDrift
<1>2. CASE ~ \E t \in Sessions : Commit(t)
  <2>1. UNCHANGED <<stock, movements, reservation, lines, overwritten>>
    BY <1>2, TablesKept
  <2>2. Pending' = Pending
    BY <2>1 DEF Pending
  <2> QED BY <2>1, <2>2 DEF Drift, Promised
<1> QED BY <1>1, <1>2

\* Creations, releases, adjustments, transfers, counts, rollbacks and the commits that read
\* the newest version keep every row in step with its lines and movements.
THEOREM OthersDoNotDrift == Spec => OnlyCommitsDrift
<1>1. ASSUME TypeOK, OwnerInv, BookInv, [Next]_vars, NEW x \in Rows,
             \A t \in Sessions : x \in tx[t].blind => tx'[t] # NoTx
      PROVE  Drift(x)' = Drift(x)
  <2>1. \A t \in Sessions : Commit(t) => tx'[t] = NoTx
    BY <1>1 DEF Commit, TypeOK
  <2> QED BY <1>1, <2>1, NextDrift
<1>2. ASSUME TypeOK, OwnerInv, BookInv, [Next]_vars
      PROVE  [\A x \in Rows :
                 (\A t \in Sessions : x \in tx[t].blind => tx'[t] # NoTx) =>
                     Drift(x)' = Drift(x)]_vars
  BY <1>1, <1>2
<1> QED BY <1>2, BookCorrect, PTL DEF Spec, OnlyCommitsDrift

-----------------------------------------------------------------------------
(* Overselling *)

\* A row that no commit has overwritten has reserved what its pending lines hold.
RowsInStep == \A x \in Rows \ overwritten : Drift(x).reserved = 0

LEMMA PromisedType ==
    ASSUME TypeOK, BookInv, NEW x \in Rows
    PROVE  Promised(x) \in Int
<1> DEFINE f == [r \in Pending |-> lines[r][x]]
<1>1. DOMAIN f = Pending /\ \A r \in Pending : f[r] \in Int
  BY DEF TypeOK, Pending
<1>2. IsFiniteSet(Pending)
  BY DEF BookInv
<1> HIDE DEF f
<1>3. SumFunctionOnSet(f, Pending) \in Int
  BY <1>1, <1>2, SumType
<1> QED BY <1>1, <1>3 DEF f, Promised, SumFunction

LEMMA InitInStep == Init => RowsInStep
<1> SUFFICES ASSUME Init, NEW x \in Rows PROVE Drift(x).reserved = 0
  BY DEF RowsInStep
<1> DEFINE f == [r \in Pending |-> lines[r][x]]
<1>1. DOMAIN f = {} /\ Pending = {}
  BY DEF Init, Pending
<1> HIDE DEF f
<1>2. SumFunction(f) = 0
  BY <1>1, SumEmpty DEF SumFunction
<1>3. stock[x].reserved = 0
  BY DEF Init
<1> QED BY <1>2, <1>3 DEF f, Drift, Promised

LEMMA NextInStep ==
    ASSUME TypeOK, OwnerInv, BookInv, RowsInStep, [Next]_vars
    PROVE  RowsInStep'
<1> SUFFICES ASSUME NEW x \in Rows, x \notin overwritten' PROVE Drift(x)'.reserved = 0
  BY DEF RowsInStep
<1>1. CASE \E t \in Sessions : Commit(t)
  <2>1. PICK t \in Sessions : Commit(t)
    BY <1>1
  <2>2. x \notin tx[t].blind /\ x \notin overwritten
    BY <2>1 DEF Commit
  <2>3. Drift(x)' = Drift(x)
    BY <2>1, <2>2, CommitNoDrift
  <2> QED BY <2>2, <2>3 DEF RowsInStep
<1>2. CASE ~ \E t \in Sessions : Commit(t)
  <2>1. x \notin overwritten
    BY <1>2, TablesKept
  <2>2. Drift(x)' = Drift(x)
    BY <1>2, NextDrift
  <2> QED BY <2>1, <2>2 DEF RowsInStep
<1> QED BY <1>1, <1>2

\* Where only reservations and counts change stock, the pending reservations of a row
\* that no commit has overwritten are all in stock: reserved is what they hold, and
\* never more than on_hand.
THEOREM ReservationsFit == Spec => []NeverOversold
<1>1. Init => RowsInStep
  BY InitInStep
<1>2. TypeOK /\ OwnerInv /\ BookInv /\ RowsInStep /\ [Next]_vars => RowsInStep'
  BY NextInStep
<1>3. ASSUME IInv, BookInv, RowsInStep
      PROVE  NeverOversold
  <2> SUFFICES ASSUME ~MayOversell, NEW x \in Rows, x \notin overwritten
               PROVE  Promised(x) <= stock[x].onHand
    BY DEF NeverOversold, MayOversell
  <2>1. stock[x] \in StockRow /\ stock[x].reserved <= stock[x].onHand
    BY <1>3 DEF IInv, TypeOK, GoodRow
  <2>2. Promised(x) \in Int
    BY <1>3, PromisedType DEF IInv
  <2>3. stock[x].reserved - Promised(x) = 0
    BY <1>3 DEF RowsInStep, Drift
  <2> QED BY <2>1, <2>2, <2>3 DEF StockRow
<1> QED BY <1>1, <1>2, <1>3, BookCorrect, InvCorrect, PTL DEF Spec
=============================================================================
