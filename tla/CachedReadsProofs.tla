------------------------- MODULE CachedReadsProofs -------------------------
(***************************************************************************)
(* What is read page by page (PagedReads): which rows a walk over a list   *)
(* can miss, for any rows, walks, page size and time to live.  How old a   *)
(* price can be (CatalogPrices), for any keys, numbers of handlers, time   *)
(* to live and bound on a request; and what an eviction achieves.          *)
(***************************************************************************)
EXTENDS CatalogPrices, PagedReads, FiniteSetTheorems, SequenceTheorems, TLAPS

-----------------------------------------------------------------------------
(* PagedReads: sequences of rows *)

\* The rows of a list are the sequences of at most as many rows as there can be.
LEMMA RowsAreSeqs ==
    ASSUME NEW s
    PROVE  s \in Rows <=> s \in Seq(Ids) /\ Len(s) <= Cardinality(Ids)
<1>1. Cardinality(Ids) \in Nat
  BY PagedReadsAssumption, FS_CardinalityType
<1>2. ASSUME s \in Rows
      PROVE  s \in Seq(Ids) /\ Len(s) <= Cardinality(Ids)
  <2>1. PICK m \in 0 .. Cardinality(Ids) : s \in [1 .. m -> Ids]
    BY <1>2 DEF Rows, SeqOf
  <2> QED BY <1>1, <2>1
<1>3. ASSUME s \in Seq(Ids), Len(s) <= Cardinality(Ids)
      PROVE  s \in Rows
  <2>1. Len(s) \in 0 .. Cardinality(Ids) /\ s \in [1 .. Len(s) -> Ids]
    BY <1>1, <1>3
  <2> QED BY <2>1 DEF Rows, SeqOf
<1> QED BY <1>2, <1>3

Distinct(s) == \A i, j \in DOMAIN s : s[i] = s[j] => i = j

\* t is s with e inserted at p; t is s without what was at p.
IsInserted(t, s, p, e) ==
    /\ t \in Seq(Ids) /\ Len(t) = Len(s) + 1
    /\ \A j \in 1 .. Len(s) + 1 : t[j] = IF j < p THEN s[j] ELSE IF j = p THEN e ELSE s[j - 1]

IsRemoved(t, s, p) ==
    /\ t \in Seq(Ids) /\ Len(t) = Len(s) - 1
    /\ \A j \in 1 .. Len(s) - 1 : t[j] = IF j < p THEN s[j] ELSE s[j + 1]

\* A list of distinct rows has at most as many as there can be.
LEMMA DistinctRows ==
    ASSUME NEW s \in Seq(Ids), Distinct(s)
    PROVE  s \in Rows
<1>1. s \in Injection(1 .. Len(s), Ids)
  BY DEF Injection, IsInjective, Distinct
<1>2. Cardinality(1 .. Len(s)) <= Cardinality(Ids)
  BY <1>1, FS_Injection, PagedReadsAssumption
<1>3. Cardinality(1 .. Len(s)) = Len(s)
  <2>1. Len(s) \in Nat
    OBVIOUS
  <2>2. Cardinality(1 .. Len(s)) = IF 1 > Len(s) THEN 0 ELSE Len(s) - 1 + 1
    BY <2>1, FS_Interval
  <2> QED BY <2>1, <2>2
<1> QED BY <1>2, <1>3, RowsAreSeqs

LEMMA InsertedAt ==
    ASSUME NEW s \in Seq(Ids), NEW i \in 1 .. Len(s) + 1, NEW e \in Ids
    PROVE  IsInserted(InsertAt(s, i, e), s, i, e)
<1> DEFINE a == SubSeq(s, 1, i - 1)
           b == SubSeq(s, i, Len(s))
           ae == a \o <<e>>
<1>0. Len(s) \in Nat /\ i \in Nat /\ i >= 1 /\ i <= Len(s) + 1 /\ \A j \in 1 .. Len(s) : s[j] \in Ids
  OBVIOUS
<1>1. /\ a \in Seq(Ids) /\ Len(a) = i - 1
      /\ \A j \in 1 .. i - 1 : a[j] = s[j]
  <2>1. \A j \in 1 .. i - 1 : s[j] \in Ids
    BY <1>0
  <2>2. /\ a \in Seq(Ids) /\ Len(a) = IF 1 <= i - 1 THEN i - 1 - 1 + 1 ELSE 0
        /\ \A j \in 1 .. i - 1 - 1 + 1 : a[j] = s[1 + j - 1]
    BY <1>0, <2>1, SubSeqProperties
  <2> QED BY <1>0, <2>2
<1>2. /\ b \in Seq(Ids) /\ Len(b) = Len(s) - i + 1
      /\ \A j \in 1 .. Len(s) - i + 1 : b[j] = s[i + j - 1]
  <2>1. \A j \in i .. Len(s) : s[j] \in Ids
    BY <1>0
  <2>2. /\ b \in Seq(Ids) /\ Len(b) = IF i <= Len(s) THEN Len(s) - i + 1 ELSE 0
        /\ \A j \in 1 .. Len(s) - i + 1 : b[j] = s[i + j - 1]
    BY <1>0, <2>1, SubSeqProperties
  <2> QED BY <1>0, <2>2
<1>3. <<e>> \in Seq(Ids) /\ Len(<<e>>) = 1 /\ <<e>>[1] = e
  OBVIOUS
<1> HIDE DEF a, b
<1>4. /\ ae \in Seq(Ids) /\ Len(ae) = i
      /\ \A j \in 1 .. i : ae[j] = IF j <= i - 1 THEN a[j] ELSE <<e>>[j - (i - 1)]
  <2>1. /\ a \o <<e>> \in Seq(Ids) /\ Len(a \o <<e>>) = Len(a) + Len(<<e>>)
        /\ \A j \in 1 .. Len(a) + Len(<<e>>) :
              (a \o <<e>>)[j] = IF j <= Len(a) THEN a[j] ELSE <<e>>[j - Len(a)]
    BY <1>1, <1>3, ConcatProperties, Zenon
  <2>2. Len(a) + Len(<<e>>) = i
    BY <1>0, <1>1, <1>3
  <2> QED BY <1>1, <2>1, <2>2
<1> HIDE DEF ae
<1>5. /\ ae \o b \in Seq(Ids) /\ Len(ae \o b) = Len(s) + 1
      /\ \A j \in 1 .. Len(s) + 1 : (ae \o b)[j] = IF j <= i THEN ae[j] ELSE b[j - i]
  <2>1. /\ ae \o b \in Seq(Ids) /\ Len(ae \o b) = Len(ae) + Len(b)
        /\ \A j \in 1 .. Len(ae) + Len(b) :
              (ae \o b)[j] = IF j <= Len(ae) THEN ae[j] ELSE b[j - Len(ae)]
    BY <1>2, <1>4, ConcatProperties, Zenon
  <2>2. Len(ae) + Len(b) = Len(s) + 1 /\ Len(ae) = i
    BY <1>0, <1>2, <1>4
  <2> QED BY <2>1, <2>2
<1>6. InsertAt(s, i, e) = ae \o b
  BY DEF InsertAt, ae, a, b
<1>7. ASSUME NEW j \in 1 .. Len(s) + 1
      PROVE  (ae \o b)[j] = IF j < i THEN s[j] ELSE IF j = i THEN e ELSE s[j - 1]
  <2>1. CASE j < i
    <3>1. j \in 1 .. i /\ j \in 1 .. i - 1 /\ j <= i - 1 /\ j <= i
      BY <1>0, <2>1
    <3>2. (ae \o b)[j] = ae[j] /\ ae[j] = a[j] /\ a[j] = s[j]
      BY <1>1, <1>4, <1>5, <3>1
    <3> QED BY <2>1, <3>2
  <2>2. CASE j = i
    <3>1. i - (i - 1) = 1 /\ ~ (i <= i - 1) /\ i \in 1 .. i /\ i \in 1 .. Len(s) + 1 /\ i <= i
      BY <1>0
    <3>2. ae[i] = <<e>>[1]
      BY <1>4, <3>1
    <3>3. (ae \o b)[i] = e
      BY <1>3, <1>5, <3>1, <3>2
    <3>4. ~ (j < i)
      BY <1>0, <2>2
    <3> QED BY <2>2, <3>3, <3>4
  <2>3. CASE j > i
    <3>1. j - i \in 1 .. Len(s) - i + 1 /\ i + (j - i) - 1 = j - 1
      BY <1>0, <2>3
    <3>2. b[j - i] = s[j - 1]
      BY <1>2, <3>1
    <3>3. (ae \o b)[j] = b[j - i] /\ ~ (j < i) /\ j # i
      BY <1>0, <1>5, <2>3
    <3> QED BY <3>2, <3>3
  <2>4. j < i \/ j = i \/ j > i
    BY <1>0
  <2> QED BY <2>1, <2>2, <2>3, <2>4, Zenon
<1>8. IsInserted(ae \o b, s, i, e)
  BY <1>5, <1>7 DEF IsInserted
<1> QED BY <1>6, <1>8

LEMMA RemovedAt ==
    ASSUME NEW s \in Seq(Ids), NEW i \in 1 .. Len(s)
    PROVE  IsRemoved(RemoveAt(s, i), s, i)
<1> DEFINE a == SubSeq(s, 1, i - 1)
           b == SubSeq(s, i + 1, Len(s))
<1>0. Len(s) \in Nat /\ i \in Nat /\ i >= 1 /\ i <= Len(s) /\ \A j \in 1 .. Len(s) : s[j] \in Ids
  OBVIOUS
<1>1. /\ a \in Seq(Ids) /\ Len(a) = i - 1
      /\ \A j \in 1 .. i - 1 : a[j] = s[j]
  <2>1. \A j \in 1 .. i - 1 : s[j] \in Ids
    BY <1>0
  <2>2. /\ a \in Seq(Ids) /\ Len(a) = IF 1 <= i - 1 THEN i - 1 - 1 + 1 ELSE 0
        /\ \A j \in 1 .. i - 1 - 1 + 1 : a[j] = s[1 + j - 1]
    BY <1>0, <2>1, SubSeqProperties
  <2> QED BY <1>0, <2>2
<1>2. /\ b \in Seq(Ids) /\ Len(b) = Len(s) - i
      /\ \A j \in 1 .. Len(s) - i : b[j] = s[i + j]
  <2>1. \A j \in i + 1 .. Len(s) : s[j] \in Ids
    BY <1>0
  <2>2. /\ b \in Seq(Ids) /\ Len(b) = IF i + 1 <= Len(s) THEN Len(s) - (i + 1) + 1 ELSE 0
        /\ \A j \in 1 .. Len(s) - (i + 1) + 1 : b[j] = s[i + 1 + j - 1]
    BY <1>0, <2>1, SubSeqProperties
  <2> QED BY <1>0, <2>2
<1> HIDE DEF a, b
<1>3. /\ a \o b \in Seq(Ids) /\ Len(a \o b) = Len(s) - 1
      /\ \A j \in 1 .. Len(s) - 1 : (a \o b)[j] = IF j <= i - 1 THEN a[j] ELSE b[j - (i - 1)]
  <2>1. /\ a \o b \in Seq(Ids) /\ Len(a \o b) = Len(a) + Len(b)
        /\ \A j \in 1 .. Len(a) + Len(b) :
              (a \o b)[j] = IF j <= Len(a) THEN a[j] ELSE b[j - Len(a)]
    BY <1>1, <1>2, ConcatProperties, Zenon
  <2>2. Len(a) + Len(b) = Len(s) - 1 /\ Len(a) = i - 1
    BY <1>0, <1>1, <1>2
  <2> QED BY <2>1, <2>2
<1>4. RemoveAt(s, i) = a \o b
  BY DEF RemoveAt, a, b
<1>5. ASSUME NEW j \in 1 .. Len(s) - 1
      PROVE  (a \o b)[j] = IF j < i THEN s[j] ELSE s[j + 1]
  <2>1. CASE j < i
    BY <1>0, <1>1, <1>3, <2>1
  <2>2. CASE j >= i
    <3>1. j - (i - 1) \in 1 .. Len(s) - i /\ i + (j - (i - 1)) = j + 1
      BY <1>0, <2>2
    <3>2. b[j - (i - 1)] = s[j + 1]
      BY <1>2, <3>1
    <3>3. (a \o b)[j] = b[j - (i - 1)] /\ ~ (j < i)
      BY <1>0, <1>3, <2>2
    <3> QED BY <3>2, <3>3
  <2>3. j < i \/ j >= i
    BY <1>0
  <2> QED BY <2>1, <2>2, <2>3, Zenon
<1>6. IsRemoved(a \o b, s, i)
  BY <1>3, <1>5 DEF IsRemoved
<1> QED BY <1>4, <1>6

\* LIMIT and OFFSET: at most so many rows, and all of those positions.
LEMMA SliceIs ==
    ASSUME NEW s \in Seq(Ids), NEW offset \in Nat, NEW limit \in Nat
    PROVE  /\ Slice(s, offset, limit) \in Seq(Ids)
           /\ Len(Slice(s, offset, limit)) <= limit /\ Len(Slice(s, offset, limit)) <= Len(s)
           /\ \A i \in DOMAIN s :
                 i > offset /\ i <= offset + limit => s[i] \in ToSet(Slice(s, offset, limit))
           /\ offset <= Len(s) =>
                 SubSeq(s, 1, offset) \o Slice(s, offset, limit) =
                     SubSeq(s, 1, IF offset + limit < Len(s) THEN offset + limit ELSE Len(s))
<1> DEFINE n == IF offset + limit < Len(s) THEN offset + limit ELSE Len(s)
           t == SubSeq(s, offset + 1, n)
<1>0. Len(s) \in Nat /\ n \in Nat /\ n <= Len(s) /\ n <= offset + limit /\ \A j \in 1 .. Len(s) : s[j] \in Ids
  OBVIOUS
<1>1. Slice(s, offset, limit) = t
  BY DEF Slice
<1>2. offset <= Len(s) => n >= offset /\ n \in offset .. Len(s)
  OBVIOUS
<1>3. \A i \in DOMAIN s : i > offset /\ i <= offset + limit => i \in offset + 1 .. n
  OBVIOUS
<1> HIDE DEF n
<1>4. /\ t \in Seq(Ids) /\ Len(t) = IF offset + 1 <= n THEN n - (offset + 1) + 1 ELSE 0
      /\ \A j \in 1 .. n - (offset + 1) + 1 : t[j] = s[offset + 1 + j - 1]
  <2>1. \A j \in offset + 1 .. n : s[j] \in Ids
    BY <1>0
  <2>2. offset + 1 \in Int /\ n \in Int
    BY <1>0
  <2> QED BY <2>1, <2>2, SubSeqProperties
<1> HIDE DEF t
<1>5. ASSUME NEW i \in offset + 1 .. n
      PROVE  s[i] \in ToSet(t)
  <2>1. i - offset \in 1 .. Len(t) /\ offset + 1 + (i - offset) - 1 = i
    BY <1>0, <1>4
  <2>2. t[i - offset] = s[i] /\ i - offset \in DOMAIN t
    BY <1>0, <1>4, <2>1
  <2> QED BY <2>2 DEF ToSet
<1>6. offset <= Len(s) => SubSeq(s, 1, offset) \o t = SubSeq(s, 1, n)
  <2> HAVE offset <= Len(s)
  <2>1. 1 \in 1 .. Len(s) + 1 /\ offset \in 0 .. Len(s) /\ n \in offset .. Len(s)
    BY <1>0, <1>2
  <2>2. SubSeq(s, 1, offset) \o SubSeq(s, offset + 1, n) = SubSeq(s, 1, n)
    BY <2>1, ConcatAdjacentSubSeq
  <2> QED BY <2>2 DEF t
<1>7. Len(t) <= limit /\ Len(t) <= Len(s)
  BY <1>0, <1>4
<1> QED BY <1>1, <1>3, <1>4, <1>5, <1>6, <1>7 DEF n

-----------------------------------------------------------------------------
(* PagedReads: types and what a walk has in hand *)

\* The rows of a list are distinct, and those to come are not among them.
TableInv ==
    /\ Distinct(table)
    /\ \A i \in DOMAIN table : table[i] \notin unused

\* What a walk may have in hand at each point.
WalkOk(w) ==
    /\ w \in Walk
    /\ w.at = "look" => w.todo = {"count", "rows"} /\ list.cached
    /\ w.at = "read" => w.todo # {}
    /\ w.at = "store" => w.todo = {} /\ list.cached
    /\ w.at \in {"done", "idle"} => w.page = NoPage
    /\ "rows" \in w.todo => w.page.items = <<>>
    /\ Len(w.page.items) <= w.limit
    /\ w.since \cap unused = {}
    /\ list.search => w.offset = 0 /\ w.todo # {"rows"} /\ (w.at # "done" => w.seen = <<>>)
    /\ ~list.search => ~w.again /\ (w.at \in {"look", "read", "store"} => w.limit = PageSize)

PagedBase ==
    /\ PagedReadsTypeOK
    /\ TableInv
    /\ \A c \in Clients : WalkOk(walk[c])

LEMMA ListKinds ==
    ASSUME NEW x \in AllLists
    PROVE  /\ x.cached \in BOOLEAN /\ x.search \in BOOLEAN /\ x.first \subseteq {"count", "rows"}
           /\ x.search => ~x.cached /\ x.first = {"rows"}
           /\ x.moves => x.cached
<1>1. /\ orderList.cached = FALSE /\ orderList.search = FALSE /\ orderList.first = {"count"}
      /\ orderList.moves = FALSE
  BY DEF orderList
<1>2. /\ exportList.cached = TRUE /\ exportList.search = FALSE /\ exportList.first = {"count"}
      /\ exportList.moves = FALSE
  BY DEF exportList, orderList
<1>3. /\ lowStockList.cached = TRUE /\ lowStockList.search = FALSE /\ lowStockList.first = {"count"}
  BY DEF lowStockList, exportList, orderList
<1>4. /\ productList.cached = FALSE /\ productList.search = FALSE /\ productList.first = {"rows"}
      /\ productList.moves = FALSE
  BY DEF productList, orderList
<1>5. /\ searchList.cached = FALSE /\ searchList.search = TRUE /\ searchList.first = {"rows"}
      /\ searchList.moves = FALSE
  BY DEF searchList, productList, orderList
<1>6. /\ lineList.cached = FALSE /\ lineList.search = FALSE /\ lineList.first = {"rows"}
      /\ lineList.moves = FALSE
  BY DEF lineList, productList, orderList
<1>7. /\ rateList.cached = TRUE /\ rateList.search = FALSE /\ rateList.first = {"count"}
      /\ rateList.moves = FALSE
  BY DEF rateList, exportList, orderList
<1>8. /\ warehouseList.cached = TRUE /\ warehouseList.search = FALSE
      /\ warehouseList.first = {"count", "rows"} /\ warehouseList.moves = FALSE
  BY DEF warehouseList, rateList, exportList, orderList
<1>9. x \in {orderList, exportList, lowStockList, productList, searchList, lineList, rateList,
               warehouseList}
  BY DEF AllLists, intentList, attemptList, returnList, slaList, categoryList
<1> QED
  BY <1>1, <1>2, <1>3, <1>4, <1>5, <1>6, <1>7, <1>8, <1>9

LEMMA PagedBounds ==
    /\ Many \in Nat /\ Cardinality(Ids) \in Nat /\ IsFiniteSet(Ids)
    /\ PageSize \in Nat \ {0} /\ PageTtl \in Nat \ {0} /\ MaxPageRead \in Nat
    /\ TooLongAgo \in Nat /\ TooLongAgo = PageTtl + MaxPageRead + 1
    /\ 0 \in Offsets /\ Offsets \subseteq Nat
    /\ NoPage \in Page /\ NoPage.items = <<>> /\ NoPage.total = 0 /\ NoWalk \in Walk
<1>1. Many \in Nat /\ Cardinality(Ids) \in Nat /\ IsFiniteSet(Ids)
  BY PagedReadsAssumption, FS_CardinalityType DEF Many
<1>2. 0 * PageSize = 0 /\ \A n \in Nat : n * PageSize \in Nat
  BY PagedReadsAssumption
<1>3. 0 \in Offsets /\ Offsets \subseteq Nat
  BY <1>1, <1>2 DEF Offsets
<1>4. <<>> \in Rows /\ <<>> \in Seq(Ids)
  <2>1. <<>> \in Seq(Ids) /\ Len(<<>>) = 0
    OBVIOUS
  <2>2. Len(<<>>) <= Cardinality(Ids)
    BY <1>1, <2>1
  <2> QED BY <2>1, <2>2, RowsAreSeqs, Zenon
<1>5. NoPage \in Page /\ NoPage.items = <<>> /\ NoPage.total = 0
  BY <1>1, <1>4 DEF NoPage, Page
<1>6. 1 \in 1 .. Cardinality(Ids) + PageSize
  BY <1>1, PagedReadsAssumption
<1>7. NoWalk \in Walk
  BY <1>1, <1>3, <1>4, <1>5, <1>6, PagedReadsAssumption DEF NoWalk, Walk
<1> QED
  BY <1>1, <1>3, <1>5, <1>7, PagedReadsAssumption DEF TooLongAgo

LEMMA WalkFields ==
    ASSUME NEW w \in Walk
    PROVE  /\ w.at \in {"idle", "look", "read", "store", "done"}
           /\ w.offset \in Nat /\ w.offset \in Offsets /\ w.limit \in Nat
           /\ w.limit \in 1 .. Cardinality(Ids) + PageSize
           /\ w.todo \in SUBSET {"count", "rows"} /\ w.again \in BOOLEAN
           /\ w.page \in Page /\ w.page.items \in Rows /\ w.page.total \in 0 .. Cardinality(Ids)
           /\ w.page.items \in Seq(Ids) /\ w.seen \in Seq(Ids) /\ w.since \in SUBSET Ids
           /\ w.writes \in 0 .. Many /\ w.writes \in Nat /\ w.age \in 0 .. MaxPageRead /\ w.age \in Nat
<1>1. /\ w.at \in {"idle", "look", "read", "store", "done"} /\ w.offset \in Offsets
      /\ w.limit \in 1 .. Cardinality(Ids) + PageSize
      /\ w.todo \in SUBSET {"count", "rows"} /\ w.again \in BOOLEAN
      /\ w.page \in Page /\ w.seen \in Seq(Ids) /\ w.since \in SUBSET Ids
      /\ w.writes \in 0 .. Many /\ w.age \in 0 .. MaxPageRead
  BY DEF Walk
<1>2. w.page.items \in Rows /\ w.page.total \in 0 .. Cardinality(Ids)
  BY <1>1 DEF Page
<1>3. w.page.items \in Seq(Ids)
  BY <1>2, RowsAreSeqs
<1>4. w.offset \in Nat /\ w.limit \in Nat /\ w.writes \in Nat /\ w.age \in Nat
  <2>1. w.offset \in Nat
    BY <1>1, PagedBounds, Zenon
  <2> QED BY <1>1, <2>1
<1> QED BY <1>1, <1>2, <1>3, <1>4

\* The handler of a page begins.
LEMMA ReadsIs ==
    ASSUME NEW w \in Walk, NEW o \in Offsets, NEW l \in 1 .. Cardinality(Ids) + PageSize
    PROVE  /\ Reads(w, o, l) \in Walk
           /\ Reads(w, o, l).at = IF list.cached THEN "look" ELSE "read"
           /\ Reads(w, o, l).offset = o /\ Reads(w, o, l).limit = l
           /\ Reads(w, o, l).todo = {"count", "rows"} /\ Reads(w, o, l).page = NoPage
           /\ Reads(w, o, l).age = 0
           /\ Reads(w, o, l).seen = w.seen /\ Reads(w, o, l).again = w.again
           /\ Reads(w, o, l).since = w.since /\ Reads(w, o, l).writes = w.writes
<1>1. 0 \in 0 .. MaxPageRead /\ NoPage \in Page
  BY PagedBounds
<1> QED BY <1>1 DEF Reads, Walk

\* The next page of a list with another page begins where pages begin.
LEMMA NextOffset ==
    ASSUME NEW o \in Offsets, NEW rows \in 0 .. Cardinality(Ids), o + PageSize < rows
    PROVE  o + PageSize \in Offsets
<1>1. PICK n \in 0 .. Cardinality(Ids) : o = n * PageSize
  BY DEF Offsets
<1>2. n \in Nat /\ Cardinality(Ids) \in Nat /\ PageSize \in Nat \ {0} /\ rows <= Cardinality(Ids) /\ rows \in Nat
  BY PagedBounds
<1>3. o + PageSize = (n + 1) * PageSize
  BY <1>1, <1>2
<1>4. \A a \in Nat, b \in Nat \ {0} : a * b >= a
  OBVIOUS
<1>5. (n + 1) * PageSize >= n + 1
  BY <1>2, <1>4
<1>6. n + 1 \in 0 .. Cardinality(Ids)
  BY <1>2, <1>3, <1>5
<1> QED BY <1>3, <1>6 DEF Offsets

\* The walk after a page is answered.
LEMMA TurnedIs ==
    ASSUME NEW w \in Walk, NEW page \in Page
    PROVE  LET v == Turned(w, page) IN
           /\ v \in Walk /\ v.page = NoPage /\ v.age = 0
           /\ v.since = w.since /\ v.writes = w.writes /\ v.again = w.again
           /\ v.seen = IF w.writes < Many THEN w.seen \o page.items ELSE w.seen
           /\ w.offset + PageSize < page.total =>
                 /\ v.at = IF list.cached THEN "look" ELSE "read"
                 /\ v.offset = w.offset + PageSize /\ v.limit = PageSize /\ v.todo = {"count", "rows"}
           /\ ~ (w.offset + PageSize < page.total) =>
                 v.at = "done" /\ v.offset = 0 /\ v.limit = w.limit /\ v.todo = {}
<1> DEFINE got == IF w.writes < Many THEN w.seen \o page.items ELSE w.seen
           all == [w EXCEPT !.seen = got, !.page = NoPage, !.todo = {}]
           v == Turned(w, page)
<1>1. page.items \in Seq(Ids) /\ page.total \in 0 .. Cardinality(Ids)
  BY RowsAreSeqs DEF Page
<1>2. got \in Seq(Ids)
  BY <1>1, WalkFields
<1>3. /\ v = IF w.offset + PageSize < page.total THEN Reads(all, w.offset + PageSize, PageSize)
             ELSE [all EXCEPT !.at = "done", !.offset = 0, !.age = 0]
  BY DEF Turned, After, Walk
<1> HIDE DEF got, v
<1>4. /\ all \in Walk /\ all.since = w.since /\ all.writes = w.writes /\ all.again = w.again
      /\ all.seen = got /\ all.page = NoPage /\ all.limit = w.limit /\ all.todo = {}
  BY <1>2, PagedBounds DEF Walk
<1> HIDE DEF all
<1>5. CASE w.offset + PageSize < page.total
  <2>1. w.offset + PageSize \in Offsets /\ PageSize \in 1 .. Cardinality(Ids) + PageSize
    BY <1>1, <1>5, NextOffset, WalkFields, PagedBounds
  <2> QED BY <1>3, <1>4, <1>5, <2>1, ReadsIs DEF v, got
<1>6. CASE ~ (w.offset + PageSize < page.total)
  <2>1. v = [all EXCEPT !.at = "done", !.offset = 0, !.age = 0]
    BY <1>3, <1>6
  <2>2. /\ v \in Walk /\ v.at = "done" /\ v.offset = 0 /\ v.age = 0
        /\ v.since = all.since /\ v.writes = all.writes /\ v.again = all.again
        /\ v.seen = all.seen /\ v.page = all.page /\ v.limit = all.limit /\ v.todo = all.todo
    <3>1. 0 \in Offsets /\ 0 \in 0 .. MaxPageRead
      BY PagedBounds
    <3>2. all \in Walk
      BY <1>4
    <3> QED BY <2>1, <3>1, <3>2 DEF Walk
  <2> QED BY <1>4, <1>6, <2>2 DEF v, got
<1> QED BY <1>5, <1>6

\* The search after a page is answered.
LEMMA SearchedIs ==
    ASSUME NEW w \in Walk, NEW page \in Page
    PROVE  LET v == Searched(w, page) IN
           /\ v \in Walk /\ v.page = NoPage /\ v.age = 0
           /\ v.since = w.since /\ v.writes = w.writes
           /\ page.total <= Len(page.items) \/ w.again =>
                 /\ v.at = "done" /\ v.seen = page.items /\ v.todo = {}
                 /\ v.limit = w.limit /\ v.offset = w.offset
           /\ ~ (page.total <= Len(page.items) \/ w.again) =>
                 /\ v.at = IF list.cached THEN "look" ELSE "read"
                 /\ v.offset = 0 /\ v.limit = page.total /\ v.todo = {"count", "rows"}
                 /\ v.again = TRUE /\ v.seen = w.seen
<1> DEFINE v == Searched(w, page)
<1>1. page.items \in Seq(Ids) /\ page.total \in 0 .. Cardinality(Ids)
  BY RowsAreSeqs DEF Page
<1>2. CASE page.total <= Len(page.items) \/ w.again
  <2>1. v = [w EXCEPT !.at = "done", !.seen = page.items, !.page = NoPage, !.todo = {}, !.age = 0]
    BY <1>2 DEF Searched
  <2> HIDE DEF v
  <2>2. /\ v \in Walk /\ v.page = NoPage /\ v.age = 0 /\ v.since = w.since /\ v.writes = w.writes
        /\ v.at = "done" /\ v.seen = page.items /\ v.todo = {}
        /\ v.limit = w.limit /\ v.offset = w.offset
    <3>1. NoPage \in Page /\ 0 \in 0 .. MaxPageRead
      BY PagedBounds
    <3>2. page.items \in Seq(Ids)
      BY <1>1
    <3> QED BY <2>1, <3>1, <3>2 DEF Walk
  <2> QED BY <1>2, <2>2 DEF v
<1>3. CASE ~ (page.total <= Len(page.items) \/ w.again)
  <2> DEFINE u == Reads(w, 0, page.total)
  <2>1. v = [u EXCEPT !.again = TRUE]
    BY <1>3 DEF Searched, SearchLimit
  <2>2. page.total \in 1 .. Cardinality(Ids) + PageSize
    <3>1. Len(page.items) \in Nat /\ Cardinality(Ids) \in Nat /\ PageSize \in Nat \ {0}
      BY <1>1, PagedBounds
    <3> QED BY <1>1, <1>3, <3>1
  <2>3. /\ u \in Walk /\ u.at = IF list.cached THEN "look" ELSE "read"
        /\ u.offset = 0 /\ u.limit = page.total /\ u.todo = {"count", "rows"} /\ u.page = NoPage
        /\ u.age = 0 /\ u.seen = w.seen /\ u.since = w.since /\ u.writes = w.writes
    BY <2>2, PagedBounds, ReadsIs
  <2> HIDE DEF v, u
  <2>4. /\ v \in Walk /\ v.at = u.at /\ v.offset = u.offset /\ v.limit = u.limit /\ v.todo = u.todo
        /\ v.page = u.page /\ v.age = u.age /\ v.seen = u.seen /\ v.since = u.since
        /\ v.writes = u.writes /\ v.again = TRUE
    BY <2>1, <2>3 DEF Walk
  <2> QED BY <1>3, <2>3, <2>4 DEF v
<1> QED BY <1>2, <1>3

\* What Continues makes of a walk is a walk as it may be.
LEMMA ContinuesOk ==
    ASSUME list \in AllLists, NEW w, WalkOk(w), w.at \in {"look", "read", "store"}, NEW page \in Page
    PROVE  WalkOk(IF list.search THEN Searched(w, page) ELSE Turned(w, page))
<1>1. w \in Walk /\ Len(<<>>) = 0 /\ NoPage.items = <<>>
  BY PagedBounds DEF WalkOk
<1>2. CASE list.search
  <2> DEFINE v == Searched(w, page)
  <2>1. v \in Walk /\ v.page = NoPage /\ v.since = w.since /\ v.limit \in Nat
    BY <1>1, SearchedIs, WalkFields
  <2>2. \/ v.at = "done" /\ v.todo = {} /\ v.offset = w.offset
        \/ /\ v.at = "read" /\ v.offset = 0 /\ v.todo = {"count", "rows"} /\ v.seen = w.seen
    <3>1. ~list.cached
      BY <1>2, ListKinds
    <3>2. CASE page.total <= Len(page.items) \/ w.again
      BY <1>1, <3>2, SearchedIs
    <3>3. CASE ~ (page.total <= Len(page.items) \/ w.again)
      BY <1>1, <3>1, <3>3, SearchedIs
    <3> QED BY <3>2, <3>3
  <2> HIDE DEF v
  <2>3. /\ v.page.items = <<>> /\ Len(<<>>) <= v.limit /\ v.since \cap unused = {}
        /\ v.offset = 0
    BY <1>1, <1>2, <2>1, <2>2 DEF WalkOk
  <2>4. v.at # "done" => v.seen = <<>>
    BY <1>2, <2>2 DEF WalkOk
  <2>5. {"count", "rows"} # {} /\ {"count", "rows"} # {"rows"} /\ {} # {"rows"}
    OBVIOUS
  <2>6. WalkOk(v)
    BY <1>2, <2>1, <2>2, <2>3, <2>4, <2>5 DEF WalkOk
  <2> QED BY <1>2, <2>6 DEF v
<1>3. CASE ~list.search
  <2> DEFINE v == Turned(w, page)
  <2>1. v \in Walk /\ v.page = NoPage /\ v.since = w.since /\ v.limit \in Nat /\ v.again = w.again
    BY <1>1, TurnedIs, WalkFields
  <2>2. \/ v.at = "done" /\ v.todo = {}
        \/ v.at \in {"look", "read"} /\ (v.at = "look" => list.cached) /\ v.todo = {"count", "rows"} /\ v.limit = PageSize
    <3>1. CASE w.offset + PageSize < page.total
      BY <1>1, <3>1, TurnedIs
    <3>2. CASE ~ (w.offset + PageSize < page.total)
      BY <1>1, <3>2, TurnedIs
    <3> QED BY <3>1, <3>2
  <2> HIDE DEF v
  <2>3. WalkOk(v)
    BY <1>1, <1>3, <2>1, <2>2 DEF WalkOk
  <2> QED BY <1>3, <2>3 DEF v
<1> QED BY <1>2, <1>3

-----------------------------------------------------------------------------
(* PagedReads: the writes *)

\* A row that is new to a list of distinct rows leaves them distinct, and only it is new.
LEMMA InsertKeeps ==
    ASSUME NEW s \in Seq(Ids), Distinct(s), NEW e \in Ids, NEW p \in 1 .. Len(s) + 1,
           e \notin ToSet(s)
    PROVE  LET t == InsertAt(s, p, e) IN
           /\ t \in Rows
           /\ Distinct(t)
           /\ \A i \in DOMAIN t : t[i] = e \/ \E j \in DOMAIN s : t[i] = s[j]
<1> DEFINE t == InsertAt(s, p, e)
           from(j) == IF j < p THEN j ELSE j - 1
<1>0. Len(s) \in Nat /\ p \in Nat /\ DOMAIN s = 1 .. Len(s)
  OBVIOUS
<1>1. IsInserted(t, s, p, e)
  BY InsertedAt
<1> HIDE DEF t
<1>01. t \in Seq(Ids) /\ DOMAIN t = 1 .. Len(s) + 1
  BY <1>1 DEF IsInserted
<1>02. \A j \in DOMAIN s : s[j] # e
  BY DEF ToSet
<1>2. ASSUME NEW j \in DOMAIN t, j # p
      PROVE  from(j) \in DOMAIN s /\ t[j] = s[from(j)] /\ t[j] # e
  <2>1. from(j) \in DOMAIN s /\ t[j] = s[from(j)]
    BY <1>0, <1>01, <1>1, <1>2 DEF IsInserted
  <2> QED BY <1>02, <2>1
<1>3. t[p] = e
  BY <1>0, <1>1 DEF IsInserted
<1>4. ASSUME NEW i \in DOMAIN t, NEW j \in DOMAIN t, t[i] = t[j]
      PROVE  i = j
  <2>1. CASE i = p \/ j = p
    BY <1>2, <1>3, <1>4, <2>1
  <2>2. CASE i # p /\ j # p
    <3>1. from(i) = from(j)
      BY <1>2, <1>4, <2>2 DEF Distinct
    <3> QED BY <1>0, <1>01, <2>2, <3>1
  <2> QED BY <2>1, <2>2
<1>5. t \in Rows /\ Distinct(t)
  <2>1. Distinct(t)
    BY <1>4 DEF Distinct
  <2> QED BY <1>01, <2>1, DistinctRows
<1>6. \A i \in DOMAIN t : t[i] = e \/ \E j \in DOMAIN s : t[i] = s[j]
  BY <1>2, <1>3
<1> QED BY <1>5, <1>6 DEF t

\* A row that leaves a list of distinct rows leaves them distinct, and is gone.
LEMMA RemoveKeeps ==
    ASSUME NEW s \in Seq(Ids), Distinct(s), NEW p \in DOMAIN s
    PROVE  LET t == RemoveAt(s, p) IN
           /\ t \in Rows
           /\ Distinct(t)
           /\ \A i \in DOMAIN t : t[i] # s[p] /\ \E j \in DOMAIN s : t[i] = s[j]
<1> DEFINE t == RemoveAt(s, p)
           from(j) == IF j < p THEN j ELSE j + 1
<1>0. Len(s) \in Nat /\ p \in Nat /\ DOMAIN s = 1 .. Len(s) /\ p \in 1 .. Len(s)
  OBVIOUS
<1>1. IsRemoved(t, s, p)
  BY <1>0, RemovedAt
<1> HIDE DEF t
<1>01. t \in Seq(Ids) /\ DOMAIN t = 1 .. Len(s) - 1
  BY <1>1 DEF IsRemoved
<1>2. ASSUME NEW j \in DOMAIN t
      PROVE  from(j) \in DOMAIN s /\ t[j] = s[from(j)] /\ from(j) # p
  BY <1>0, <1>01, <1>1 DEF IsRemoved
<1>3. ASSUME NEW i \in DOMAIN t, NEW j \in DOMAIN t, t[i] = t[j]
      PROVE  i = j
  <2>1. from(i) = from(j)
    BY <1>2, <1>3 DEF Distinct
  <2> QED BY <1>0, <1>01, <2>1
<1>4. t \in Rows /\ Distinct(t)
  <2>1. Distinct(t)
    BY <1>3 DEF Distinct
  <2> QED BY <1>01, <2>1, DistinctRows
<1>5. \A i \in DOMAIN t : t[i] # s[p] /\ \E j \in DOMAIN s : t[i] = s[j]
  BY <1>2 DEF Distinct
<1> QED BY <1>4, <1>5 DEF t

LEMMA MinOfTwo ==
    ASSUME NEW a \in Nat, NEW b \in Nat
    PROVE  Min({a, b}) = IF a <= b THEN a ELSE b
<1>1. \A x \in {a, b} : (\A y \in {a, b} : x <= y) <=> x = IF a <= b THEN a ELSE b
  OBVIOUS
<1> QED BY <1>1 DEF Min

\* What a write leaves of a walk that goes on.
LEMMA DisturbedIs ==
    ASSUME PagedBase, Disturbs, NEW c \in Clients
    PROVE  /\ walk[c].at = "idle" => walk'[c] = walk[c]
           /\ walk[c].at # "idle" /\ list.cached =>
                 walk'[c] = [walk[c] EXCEPT !.writes = Many, !.seen = <<>>]
           /\ walk[c].at # "idle" /\ ~list.cached =>
                 walk'[c] = [walk[c] EXCEPT !.writes = IF @ < Many THEN @ + 1 ELSE Many]
           /\ walk'[c] \in Walk
<1> DEFINE w == walk[c]
<1>1. w \in Walk /\ w.writes \in Nat /\ w.writes <= Many /\ Many \in Nat /\ list.cached \in BOOLEAN
  <2>1. w \in Walk /\ Many \in Nat
    BY PagedBounds DEF PagedBase, WalkOk
  <2>2. w.writes \in 0 .. Many
    BY <2>1, WalkFields
  <2> QED BY <2>1, <2>2, ListKinds DEF PagedBase, PagedReadsTypeOK
<1>2. walk'[c] = CASE w.at = "idle" -> w
                   [] w.at # "idle" /\ list.cached -> [w EXCEPT !.writes = Many, !.seen = <<>>]
                   [] OTHER -> [w EXCEPT !.writes = Min({@ + 1, Many})]
  BY DEF Disturbs
<1>3. Min({w.writes + 1, Many}) = IF w.writes < Many THEN w.writes + 1 ELSE Many
  BY <1>1, MinOfTwo
<1>4. CASE w.at = "idle"
  <2>1. walk'[c] = w
    BY <1>2, <1>4
  <2> QED BY <1>1, <1>4, <2>1
<1>5. CASE w.at # "idle" /\ list.cached
  <2>1. walk'[c] = [w EXCEPT !.writes = Many, !.seen = <<>>]
    BY <1>2, <1>5
  <2>2. Many \in 0 .. Many /\ <<>> \in Seq(Ids)
    BY <1>1
  <2>3. walk'[c] \in Walk
    BY <1>1, <2>1, <2>2 DEF Walk
  <2> QED BY <1>5, <2>1, <2>3
<1>6. CASE w.at # "idle" /\ ~list.cached
  <2>1. walk'[c] = [w EXCEPT !.writes = Min({@ + 1, Many})]
    BY <1>2, <1>6
  <2>2. walk'[c] = [w EXCEPT !.writes = IF @ < Many THEN @ + 1 ELSE Many]
    BY <1>1, <1>3, <2>1
  <2>3. (IF w.writes < Many THEN w.writes + 1 ELSE Many) \in 0 .. Many
    BY <1>1
  <2>4. walk'[c] \in Walk
    BY <1>1, <2>2, <2>3 DEF Walk
  <2> QED BY <1>6, <2>2, <2>4
<1> QED BY <1>1, <1>4, <1>5, <1>6

\* What is there to begin with: the rows in some order, each of them once.
LEMMA FirstTable ==
    ASSUME NEW S \in SUBSET Ids
    PROVE  /\ SetToSeq(S) \in Rows
           /\ Distinct(SetToSeq(S))
           /\ \A i \in DOMAIN SetToSeq(S) : SetToSeq(S)[i] \in S
<1> DEFINE n == Cardinality(S)
<1>1. n \in Nat /\ n <= Cardinality(Ids) /\ ExistsBijection(1 .. n, S)
  BY FS_Subset, FS_CardinalityType, PagedReadsAssumption
<1>2. \E f \in [1 .. n -> S] : Distinct(f)
  <2>1. PICK f \in Bijection(1 .. n, S) : TRUE
    BY <1>1 DEF ExistsBijection
  <2>2. f \in [1 .. n -> S] /\ DOMAIN f = 1 .. n /\ \A a, b \in 1 .. n : f[a] = f[b] => a = b
    BY <2>1 DEF Bijection, Injection, IsInjective
  <2> QED BY <2>2 DEF Distinct
<1>3. SetToSeq(S) = CHOOSE f \in [1 .. n -> S] : Distinct(f)
  BY DEF SetToSeq, IsInjective, Distinct
<1>4. SetToSeq(S) \in [1 .. n -> S] /\ Distinct(SetToSeq(S))
  BY <1>2, <1>3, Zenon
<1>5. SetToSeq(S) \in Seq(Ids)
  BY <1>1, <1>4
<1>6. SetToSeq(S) \in Rows
  BY <1>4, <1>5, DistinctRows
<1> QED BY <1>4, <1>6

LEMMA NoWalkOk == WalkOk(NoWalk)
<1>1. /\ NoWalk \in Walk /\ NoWalk.at = "idle" /\ NoWalk.page = NoPage /\ NoWalk.todo = {}
      /\ NoWalk.offset = 0 /\ NoWalk.seen = <<>> /\ NoWalk.again = FALSE /\ NoWalk.since = {}
      /\ NoWalk.limit = 1 /\ Len(<<>>) = 0 /\ NoPage.items = <<>>
  BY PagedBounds DEF NoWalk
<1> QED BY <1>1 DEF WalkOk

LEMMA PagedBaseInit == PagedReadsInit => PagedBase
<1> SUFFICES ASSUME PagedReadsInit
             PROVE  PagedBase
  OBVIOUS
<1> USE DEF PagedReadsInit
<1>1. Ids \ unused \in SUBSET Ids /\ unused \subseteq Ids /\ table = SetToSeq(Ids \ unused)
  OBVIOUS
<1>2. table \in Rows /\ TableInv
  <2>1. /\ table \in Rows /\ Distinct(table)
        /\ \A i \in DOMAIN table : table[i] \in Ids \ unused
    BY <1>1, FirstTable
  <2> QED BY <2>1 DEF TableInv
<1>3. list \in AllLists
  BY ListsAssumption
<1>4. pages \in [Offsets -> [page : Page, ttl : 0 .. PageTtl]]
  <2>1. NoPage \in Page /\ 0 \in 0 .. PageTtl
    BY PagedBounds
  <2> QED BY <2>1
<1>5. quiet \in 0 .. TooLongAgo
  BY PagedBounds
<1>6. walk \in [Clients -> Walk] /\ \A c \in Clients : walk[c] = NoWalk
  BY PagedBounds
<1>7. WalkOk(NoWalk)
  BY NoWalkOk
<1> QED BY <1>1, <1>2, <1>3, <1>4, <1>5, <1>6, <1>7 DEF PagedBase, PagedReadsTypeOK

\* A write leaves distinct rows, none of which is still to come.
LEMMA TableWrites ==
    ASSUME PagedBase, NEW id \in Ids, Insert(id) \/ Move(id) \/ Leave(id)
    PROVE  /\ table' \in Rows /\ TableInv' /\ unused' \subseteq unused /\ Disturbs
           /\ Many > 0 /\ list' = list /\ pages' = pages
<1>1. /\ table \in Seq(Ids) /\ DOMAIN table = 1 .. Len(table) /\ Len(table) \in Nat
      /\ Distinct(table)
      /\ \A i \in DOMAIN table : table[i] \notin unused
  BY RowsAreSeqs DEF PagedBase, PagedReadsTypeOK, TableInv
<1>2. Many > 0
  <2>1. Cardinality(Ids) # 0
    BY PagedReadsAssumption, FS_EmptySet
  <2> QED BY <2>1, PagedBounds DEF Many
<1>3. CASE Insert(id)
  <2>1. PICK p \in 1 .. Len(table) + 1 : table' = InsertAt(table, p, id)
    BY <1>3 DEF Insert
  <2>2. id \in unused /\ unused' = unused \ {id} /\ Disturbs
    BY <1>3 DEF Insert
  <2>3. id \notin ToSet(table)
    BY <1>1, <2>2 DEF ToSet
  <2> DEFINE t == InsertAt(table, p, id)
  <2>31. /\ t \in Rows
         /\ Distinct(t)
         /\ \A i \in DOMAIN t : t[i] = id \/ \E j \in DOMAIN table : t[i] = table[j]
    BY <1>1, <2>3, InsertKeeps
  <2> HIDE DEF t
  <2>4. /\ table' \in Rows
        /\ Distinct(table')
        /\ \A i \in DOMAIN table' : table'[i] = id \/ \E j \in DOMAIN table : table'[i] = table[j]
    BY <2>1, <2>31 DEF t
  <2>5. \A i \in DOMAIN table' : table'[i] \notin unused'
    BY <1>1, <2>2, <2>4
  <2> QED BY <1>2, <2>2, <2>4, <2>5 DEF TableInv, Disturbs
<1>4. CASE Move(id)
  <2>1. PICK j \in DOMAIN table, i \in DOMAIN table :
            table[j] = id /\ table' = InsertAt(RemoveAt(table, j), i, id)
    BY <1>4 DEF Move
  <2>2. unused' = unused /\ Disturbs
    BY <1>4 DEF Move
  <2> DEFINE s == RemoveAt(table, j)
  <2>3. /\ s \in Rows
        /\ Distinct(s)
        /\ \A a \in DOMAIN s : s[a] # id /\ \E b \in DOMAIN table : s[a] = table[b]
    BY <1>1, <2>1, RemoveKeeps
  <2>4. Len(s) = Len(table) - 1
    <3>1. IsRemoved(s, table, j)
      BY <1>1, RemovedAt
    <3> QED BY <3>1 DEF IsRemoved
  <2> HIDE DEF s
  <2>5. s \in Seq(Ids) /\ i \in 1 .. Len(s) + 1
    BY <1>1, <2>3, <2>4, RowsAreSeqs
  <2>6. table' = InsertAt(s, i, id)
    BY <2>1 DEF s
  <2>61. id \notin ToSet(s)
    BY <2>3 DEF ToSet
  <2> DEFINE t == InsertAt(s, i, id)
  <2>62. /\ t \in Rows
         /\ Distinct(t)
         /\ \A a \in DOMAIN t : t[a] = id \/ \E b \in DOMAIN s : t[a] = s[b]
    BY <2>3, <2>5, <2>61, InsertKeeps
  <2> HIDE DEF t
  <2>7. /\ table' \in Rows
        /\ Distinct(table')
        /\ \A a \in DOMAIN table' : table'[a] = id \/ \E b \in DOMAIN s : table'[a] = s[b]
    BY <2>6, <2>62 DEF t
  <2>8. \A a \in DOMAIN table' : table'[a] \notin unused'
    BY <1>1, <2>1, <2>2, <2>3, <2>7
  <2> QED BY <1>2, <2>2, <2>7, <2>8 DEF TableInv, Disturbs
<1>5. CASE Leave(id)
  <2>1. PICK j \in DOMAIN table : table[j] = id /\ table' = RemoveAt(table, j)
    BY <1>5 DEF Leave
  <2>2. unused' = unused /\ Disturbs
    BY <1>5 DEF Leave
  <2>3. /\ table' \in Rows
        /\ Distinct(table')
        /\ \A a \in DOMAIN table' : \E b \in DOMAIN table : table'[a] = table[b]
    BY <1>1, <2>1, RemoveKeeps
  <2>4. \A a \in DOMAIN table' : table'[a] \notin unused'
    BY <1>1, <2>2, <2>3
  <2> QED BY <1>2, <2>2, <2>3, <2>4 DEF TableInv, Disturbs
<1> QED BY <1>3, <1>4, <1>5

LEMMA WritesKeepBase ==
    ASSUME PagedBase, NEW id \in Ids, Insert(id) \/ Move(id) \/ Leave(id)
    PROVE  PagedBase'
<1>1. /\ table' \in Rows /\ TableInv' /\ unused' \subseteq unused /\ Disturbs
      /\ Many > 0 /\ list' = list /\ pages' = pages
  BY TableWrites
<1>2. quiet' \in 0 .. TooLongAgo
  <2>1. quiet' = 0 \/ quiet' = quiet
    BY <1>1 DEF Disturbs
  <2>2. TooLongAgo \in Nat /\ quiet \in 0 .. TooLongAgo
    BY PagedBounds DEF PagedBase, PagedReadsTypeOK
  <2> QED BY <2>1, <2>2
<1>3. walk' \in [Clients -> Walk]
  <2>1. \A c \in Clients : walk'[c] \in Walk
    BY <1>1, DisturbedIs
  <2>2. walk' = [c \in Clients |-> walk'[c]]
    BY <1>1 DEF Disturbs
  <2> QED BY <2>1, <2>2
<1>4. ASSUME NEW c \in Clients
      PROVE  WalkOk(walk[c])'
  <2> SUFFICES ASSUME NEW v, v = walk'[c]
               PROVE  WalkOk(v)'
    BY DEF WalkOk
  <2> DEFINE w == walk[c]
  <2>1. WalkOk(w) /\ w \in Walk
    BY DEF PagedBase, WalkOk
  <2>2. /\ v.at = w.at /\ v.todo = w.todo /\ v.page = w.page /\ v.limit = w.limit
        /\ v.since = w.since /\ v.offset = w.offset /\ v.again = w.again
        /\ v.seen = w.seen \/ v.seen = <<>>
    <3>1. CASE w.at = "idle"
      BY <1>1, <3>1, DisturbedIs
    <3>2. CASE w.at # "idle" /\ list.cached
      <4>1. v = [w EXCEPT !.writes = Many, !.seen = <<>>]
        BY <1>1, <3>2, DisturbedIs
      <4> QED BY <2>1, <4>1 DEF Walk
    <3>3. CASE w.at # "idle" /\ ~list.cached
      <4>1. v = [w EXCEPT !.writes = IF @ < Many THEN @ + 1 ELSE Many]
        BY <1>1, <3>3, DisturbedIs
      <4> QED BY <2>1, <4>1 DEF Walk
    <3> QED BY <3>1, <3>2, <3>3
  <2>3. v \in Walk
    BY <1>3
  <2> HIDE DEF w
  <2>4. v.since \cap unused' = {}
    BY <1>1, <2>1, <2>2 DEF WalkOk
  <2> QED
    BY <1>1, <2>1, <2>2, <2>3, <2>4 DEF WalkOk
<1>5. PagedReadsTypeOK'
  BY <1>1, <1>2, <1>3 DEF PagedBase, PagedReadsTypeOK
<1> QED BY <1>1, <1>4, <1>5 DEF PagedBase

-----------------------------------------------------------------------------
(* PagedReads: the steps of a client *)

\* A client that goes on as it may leaves everything as it may be.
LEMMA ClientKeeps ==
    ASSUME PagedBase, NEW c \in Clients, NEW v, WalkOk(v), walk' = [walk EXCEPT ![c] = v],
           UNCHANGED <<list, table, unused, quiet>>,
           pages' \in [Offsets -> [page : Page, ttl : 0 .. PageTtl]]
    PROVE  PagedBase'
<1>1. walk \in [Clients -> Walk] /\ v \in Walk
  BY DEF PagedBase, PagedReadsTypeOK, WalkOk
<1>2. PagedReadsTypeOK'
  BY <1>1 DEF PagedBase, PagedReadsTypeOK
<1>3. TableInv'
  BY DEF PagedBase, TableInv
<1>4. ASSUME NEW k \in Clients
      PROVE  WalkOk(walk[k])'
  <2>1. walk'[k] = IF k = c THEN v ELSE walk[k]
    BY <1>1
  <2>2. WalkOk(walk[k])
    BY DEF PagedBase
  <2> QED BY <2>1, <2>2 DEF WalkOk
<1> QED BY <1>2, <1>3, <1>4 DEF PagedBase

LEMMA BaseFacts ==
    ASSUME PagedBase, NEW c \in Clients
    PROVE  /\ list \in AllLists /\ list.cached \in BOOLEAN /\ list.search \in BOOLEAN
           /\ list.search => ~list.cached /\ list.first = {"rows"}
           /\ WalkOk(walk[c]) /\ walk[c] \in Walk /\ walk[c].offset \in Offsets
           /\ walk \in [Clients -> Walk]
           /\ table \in Rows /\ table \in Seq(Ids) /\ Len(table) \in Nat
           /\ Len(table) \in 0 .. Cardinality(Ids) /\ DOMAIN table = 1 .. Len(table)
           /\ \A o \in Offsets : pages[o].page \in Page /\ pages[o].ttl \in Nat /\ pages[o].ttl <= PageTtl
           /\ pages \in [Offsets -> [page : Page, ttl : 0 .. PageTtl]]
           /\ quiet \in Nat /\ quiet <= TooLongAgo
<1>1. /\ list \in AllLists /\ WalkOk(walk[c]) /\ walk[c] \in Walk /\ walk \in [Clients -> Walk]
      /\ table \in Rows /\ pages \in [Offsets -> [page : Page, ttl : 0 .. PageTtl]]
      /\ quiet \in 0 .. TooLongAgo
  BY DEF PagedBase, PagedReadsTypeOK, WalkOk
<1>2. list.cached \in BOOLEAN /\ list.search \in BOOLEAN /\ (list.search => ~list.cached /\ list.first = {"rows"})
  BY <1>1, ListKinds
<1>3. walk[c].offset \in Offsets
  BY <1>1, WalkFields
<1>4. table \in Seq(Ids) /\ Len(table) <= Cardinality(Ids)
  BY <1>1, RowsAreSeqs
<1>5. Cardinality(Ids) \in Nat /\ TooLongAgo \in Nat
  BY PagedBounds
<1>6. Len(table) \in Nat /\ Len(table) \in 0 .. Cardinality(Ids) /\ DOMAIN table = 1 .. Len(table)
  BY <1>4, <1>5
<1>7. \A o \in Offsets : pages[o].page \in Page /\ pages[o].ttl \in Nat /\ pages[o].ttl <= PageTtl
  <2> TAKE o \in Offsets
  <2>1. pages[o] \in [page : Page, ttl : 0 .. PageTtl]
    BY <1>1
  <2> QED BY <2>1
<1>8. quiet \in Nat /\ quiet <= TooLongAgo
  BY <1>1, <1>5
<1> QED BY <1>1, <1>2, <1>3, <1>4, <1>6, <1>7, <1>8

\* A walk that begins.
LEMMA BeginIs ==
    ASSUME PagedBase, NEW c \in Clients, BeginWalk(c)
    PROVE  \E v \in Walk :
             /\ WalkOk(v) /\ walk' = [walk EXCEPT ![c] = v]
             /\ UNCHANGED <<list, table, unused, pages, quiet>>
             /\ v.at = IF list.cached THEN "look" ELSE "read"
             /\ v.offset = 0 /\ v.todo = {"count", "rows"} /\ v.page = NoPage /\ v.seen = <<>>
             /\ v.again = FALSE /\ v.since = IF list.cached THEN {} ELSE ToSet(table)
             /\ v.writes = IF quiet = TooLongAgo THEN 0 ELSE Many
<1> DEFINE since == IF list.cached THEN {} ELSE ToSet(table)
           old == IF quiet = TooLongAgo THEN 0 ELSE Many
           limit == IF list.search THEN 1 ELSE PageSize
           w == [NoWalk EXCEPT !.writes = old, !.since = since]
           v == Reads(w, 0, limit)
<1>1. walk' = [walk EXCEPT ![c] = v] /\ UNCHANGED <<list, table, unused, pages, quiet>>
  BY DEF BeginWalk
<1>2. since \subseteq Ids /\ since \cap unused = {}
  <2>1. \A i \in DOMAIN table : table[i] \in Ids /\ table[i] \notin unused
    BY BaseFacts DEF PagedBase, TableInv
  <2> QED BY <2>1 DEF ToSet
<1>3. old \in 0 .. Many
  BY PagedBounds
<1>4. limit \in 1 .. Cardinality(Ids) + PageSize /\ (~list.search => limit = PageSize) /\ 0 <= limit
  BY PagedBounds
<1> HIDE DEF since, old, limit
<1>5. w \in Walk /\ w.since = since /\ w.writes = old /\ w.seen = <<>> /\ w.again = FALSE
  <2>1. NoWalk \in Walk
    BY PagedBounds
  <2>2. NoWalk.seen = <<>> /\ NoWalk.again = FALSE
    BY DEF NoWalk
  <2> QED BY <1>2, <1>3, <2>1, <2>2 DEF Walk
<1> HIDE DEF w
<1>6. /\ v \in Walk /\ v.at = (IF list.cached THEN "look" ELSE "read") /\ v.offset = 0 /\ v.limit = limit
      /\ v.todo = {"count", "rows"} /\ v.page = NoPage /\ v.age = 0
      /\ v.seen = <<>> /\ v.again = FALSE /\ v.since = since /\ v.writes = old
  BY <1>4, <1>5, ReadsIs, PagedBounds
<1> HIDE DEF v
<1>7. WalkOk(v)
  <2>1. NoPage.items = <<>> /\ Len(<<>>) = 0
    BY PagedBounds
  <2>2. {"count", "rows"} # {} /\ {"count", "rows"} # {"rows"}
    OBVIOUS
  <2> QED BY <1>2, <1>4, <1>6, <2>1, <2>2 DEF WalkOk
<1> QED BY <1>1, <1>6, <1>7 DEF since, old

\* A page that is not cached is loaded.
LEMMA MissIs ==
    ASSUME PagedBase, NEW c \in Clients, walk[c].at = "look", PageMiss(c)
    PROVE  LET v == [walk[c] EXCEPT !.at = "read"] IN
           WalkOk(v) /\ walk' = [walk EXCEPT ![c] = v] /\ pages' = pages
<1> DEFINE w == walk[c]
           v == [w EXCEPT !.at = "read"]
<1>1. WalkOk(w) /\ w \in Walk /\ w.at = "look" /\ walk \in [Clients -> Walk]
  BY BaseFacts
<1>2. walk' = [walk EXCEPT ![c] = v] /\ pages' = pages
  BY <1>1 DEF PageMiss
<1>3. /\ v \in Walk /\ v.at = "read" /\ v.todo = w.todo /\ v.page = w.page /\ v.limit = w.limit
      /\ v.since = w.since /\ v.offset = w.offset /\ v.again = w.again /\ v.seen = w.seen
  BY <1>1 DEF Walk
<1> HIDE DEF v, w
<1>4. WalkOk(v)
  BY <1>1, <1>3 DEF WalkOk
<1> QED BY <1>2, <1>4 DEF v, w

\* A statement: what it found, and what it leaves of the walk.
LEMMA StatementIs ==
    ASSUME PagedBase, NEW c \in Clients, NEW q, Statement(c, q)
    PROVE  LET w == walk[c]
               page == IF q = "count" THEN [w.page EXCEPT !.total = Len(table)]
                       ELSE [w.page EXCEPT !.items = Slice(table, w.offset, w.limit)]
               v == [w EXCEPT !.page = page, !.todo = @ \ {q},
                              !.at = IF w.todo = {q} THEN "store" ELSE "read"]
           IN
           /\ q \in w.todo /\ q \in {"count", "rows"} /\ w.at = "read" /\ page \in Page
           /\ page.total = IF q = "count" THEN Len(table) ELSE w.page.total
           /\ page.items = IF q = "count" THEN w.page.items ELSE Slice(table, w.offset, w.limit)
           /\ UNCHANGED <<list, table, unused, pages, quiet>>
           /\ w.todo # {q} \/ list.cached => WalkOk(v) /\ walk' = [walk EXCEPT ![c] = v]
           /\ ~ (w.todo # {q} \/ list.cached) => Continues(c, page)
<1> DEFINE w == walk[c]
           items == Slice(table, w.offset, w.limit)
           page == IF q = "count" THEN [w.page EXCEPT !.total = Len(table)]
                   ELSE [w.page EXCEPT !.items = items]
           v == [w EXCEPT !.page = page, !.todo = @ \ {q},
                          !.at = IF w.todo = {q} THEN "store" ELSE "read"]
<1>1. /\ WalkOk(w) /\ w \in Walk /\ walk \in [Clients -> Walk] /\ table \in Seq(Ids)
      /\ Len(table) \in 0 .. Cardinality(Ids) /\ list.cached \in BOOLEAN /\ list.search \in BOOLEAN
      /\ list.search => ~list.cached /\ list.first = {"rows"}
  BY BaseFacts
<1>2. /\ w.offset \in Nat /\ w.limit \in Nat /\ w.page \in Page /\ w.todo \in SUBSET {"count", "rows"}
      /\ w.page.items \in Seq(Ids)
  BY <1>1, WalkFields
<1>3. /\ w.at = "read" /\ q \in w.todo /\ (w.todo = {"count", "rows"} => q \in list.first)
      /\ UNCHANGED <<list, table, unused, pages, quiet>>
  BY DEF Statement
<1>4. items \in Rows /\ items \in Seq(Ids) /\ Len(items) <= w.limit
  <2>1. items \in Seq(Ids) /\ Len(items) <= w.limit /\ Len(items) <= Len(table)
    BY <1>1, <1>2, SliceIs
  <2> HIDE DEF items
  <2>2. Len(items) <= Cardinality(Ids)
    BY <1>1, <2>1, PagedBounds
  <2> QED BY <2>1, <2>2, RowsAreSeqs
<1> HIDE DEF items
<1>5. /\ page \in Page /\ page.total = (IF q = "count" THEN Len(table) ELSE w.page.total)
      /\ page.items = (IF q = "count" THEN w.page.items ELSE items)
  BY <1>1, <1>2, <1>4 DEF Page
<1>6. /\ w.todo # {q} \/ list.cached => walk' = [walk EXCEPT ![c] = v]
      /\ ~ (w.todo # {q} \/ list.cached) => Continues(c, page)
  BY <1>1 DEF Statement, items
<1> HIDE DEF page
<1>7. /\ v \in Walk /\ v.page = page /\ v.todo = w.todo \ {q}
      /\ v.at = (IF w.todo = {q} THEN "store" ELSE "read")
      /\ v.limit = w.limit /\ v.since = w.since /\ v.offset = w.offset /\ v.again = w.again
      /\ v.seen = w.seen /\ v.age = w.age /\ v.writes = w.writes
  <2>1. w.todo \ {q} \in SUBSET {"count", "rows"}
    BY <1>2
  <2> QED BY <1>1, <1>5, <2>1 DEF Walk
<1> HIDE DEF v
<1>8. ASSUME w.todo # {q} \/ list.cached
      PROVE  WalkOk(v)
  <2>1. w.todo # {q} => w.todo \ {q} # {}
    BY <1>3
  <2>2. "rows" \in w.todo \ {q} => page.items = <<>>
    BY <1>1, <1>2, <1>3, <1>5 DEF WalkOk
  <2>3. Len(page.items) <= w.limit
    BY <1>1, <1>4, <1>5 DEF WalkOk
  <2>4. list.search => w.todo \ {q} # {"rows"}
    <3> HAVE list.search
    <3>1. w.todo = {"count", "rows"} => q = "rows"
      BY <1>1, <1>3
    <3>2. w.todo # {"rows"}
      BY <1>1 DEF WalkOk
    <3> QED BY <1>2, <1>3, <3>1, <3>2
  <2> QED BY <1>1, <1>3, <1>7, <1>8, <2>1, <2>2, <2>3, <2>4 DEF WalkOk
<1> QED BY <1>2, <1>3, <1>5, <1>6, <1>8 DEF v, page, items

LEMMA ContinuesIs ==
    ASSUME PagedBase, NEW c \in Clients, NEW page \in Page, Continues(c, page),
           walk[c].at \in {"look", "read", "store"}
    PROVE  LET v == IF list.search THEN Searched(walk[c], page) ELSE Turned(walk[c], page) IN
           walk' = [walk EXCEPT ![c] = v] /\ WalkOk(v)
<1>1. WalkOk(walk[c]) /\ list \in AllLists /\ walk \in [Clients -> Walk]
  BY BaseFacts
<1>2. WalkOk(IF list.search THEN Searched(walk[c], page) ELSE Turned(walk[c], page))
  BY <1>1, ContinuesOk
<1>3. walk' = [walk EXCEPT ![c] = IF list.search THEN Searched(walk[c], page) ELSE Turned(walk[c], page)]
  BY <1>1 DEF Continues
<1> QED BY <1>2, <1>3

LEMMA ClientStepKeepsBase ==
    ASSUME PagedBase, NEW c \in Clients, ClientStep(c)
    PROVE  PagedBase'
<1> DEFINE w == walk[c]
<1>0. /\ WalkOk(w) /\ w \in Walk /\ w.offset \in Offsets /\ walk \in [Clients -> Walk]
      /\ pages \in [Offsets -> [page : Page, ttl : 0 .. PageTtl]]
  BY BaseFacts
<1>1. CASE BeginWalk(c)
  <2>1. PICK v \in Walk : /\ WalkOk(v) /\ walk' = [walk EXCEPT ![c] = v]
                          /\ UNCHANGED <<list, table, unused, pages, quiet>>
    BY <1>1, BeginIs
  <2> QED BY <1>0, <2>1, ClientKeeps
<1>2. CASE LookUp(c)
  <2>1. w.at = "look" /\ UNCHANGED <<list, table, unused, quiet>> /\ (PageHit(c) \/ PageMiss(c))
    BY <1>2 DEF LookUp
  <2>2. CASE PageHit(c)
    <3>1. Continues(c, pages[w.offset].page) /\ pages' = pages
      BY <2>2 DEF PageHit
    <3>2. pages[w.offset].page \in Page
      BY BaseFacts
    <3> QED BY <1>0, <2>1, <3>1, <3>2, ContinuesIs, ClientKeeps
  <2>3. CASE PageMiss(c)
    BY <1>0, <2>1, <2>3, MissIs, ClientKeeps
  <2> QED BY <2>1, <2>2, <2>3
<1>3. CASE StorePage(c)
  <2>1. /\ w.at = "store" /\ Continues(c, w.page) /\ UNCHANGED <<list, table, unused, quiet>>
        /\ pages' = [pages EXCEPT ![w.offset] = [page |-> w.page, ttl |-> PageTtl]]
    BY <1>3 DEF StorePage
  <2>2. w.page \in Page /\ PageTtl \in 0 .. PageTtl
    BY <1>0, WalkFields, PagedBounds
  <2>3. pages' \in [Offsets -> [page : Page, ttl : 0 .. PageTtl]]
    BY <1>0, <2>1, <2>2
  <2> QED BY <1>0, <2>1, <2>2, <2>3, ContinuesIs, ClientKeeps
<1>4. CASE WalkEnds(c)
  <2>1. walk' = [walk EXCEPT ![c] = NoWalk] /\ UNCHANGED <<list, table, unused, pages, quiet>>
    BY <1>4 DEF WalkEnds
  <2>2. WalkOk(NoWalk)
    BY NoWalkOk
  <2> QED BY <1>0, <2>1, <2>2, ClientKeeps
<1>5. ASSUME NEW q \in {"count", "rows"}, Statement(c, q)
      PROVE  PagedBase'
  <2> DEFINE page == IF q = "count" THEN [w.page EXCEPT !.total = Len(table)]
                     ELSE [w.page EXCEPT !.items = Slice(table, w.offset, w.limit)]
             v == [w EXCEPT !.page = page, !.todo = @ \ {q},
                            !.at = IF w.todo = {q} THEN "store" ELSE "read"]
  <2>1. /\ page \in Page /\ w.at = "read" /\ UNCHANGED <<list, table, unused, pages, quiet>>
        /\ w.todo # {q} \/ list.cached => WalkOk(v) /\ walk' = [walk EXCEPT ![c] = v]
        /\ ~ (w.todo # {q} \/ list.cached) => Continues(c, page)
    BY <1>5, StatementIs
  <2> HIDE DEF page, v, w
  <2>2. CASE w.todo # {q} \/ list.cached
    BY <1>0, <2>1, <2>2, ClientKeeps
  <2>3. CASE ~ (w.todo # {q} \/ list.cached)
    BY <1>0, <2>1, <2>3, ContinuesIs, ClientKeeps DEF w
  <2> QED BY <2>2, <2>3
<1> QED BY <1>1, <1>2, <1>3, <1>4, <1>5 DEF ClientStep

LEMMA AgingIs ==
    ASSUME PagedBase, PagesAge, NEW c \in Clients
    PROVE  /\ walk'[c] \in Walk
           /\ walk'[c] = IF Walking(c) THEN [walk[c] EXCEPT !.age = @ + 1] ELSE walk[c]
<1>1. walk[c] \in Walk /\ MaxPageRead \in Nat
  BY BaseFacts, PagedBounds
<1>2. walk[c].age \in 0 .. MaxPageRead
  BY <1>1 DEF Walk
<1>3. walk'[c] = IF Walking(c) THEN [walk[c] EXCEPT !.age = @ + 1] ELSE walk[c]
  BY DEF PagesAge
<1>4. Walking(c) => walk[c].age < MaxPageRead
  BY DEF PagesAge
<1>5. CASE Walking(c)
  <2>1. walk[c].age + 1 \in 0 .. MaxPageRead
    BY <1>1, <1>2, <1>4, <1>5
  <2>2. walk'[c] = [walk[c] EXCEPT !.age = walk[c].age + 1]
    BY <1>1, <1>3, <1>5
  <2>3. walk'[c] \in Walk
    BY <1>1, <2>1, <2>2 DEF Walk
  <2> QED BY <1>3, <2>3
<1> QED BY <1>1, <1>3, <1>5

LEMMA AgeKeepsBase ==
    ASSUME PagedBase, PagesAge
    PROVE  PagedBase'
<1>1. UNCHANGED <<list, table, unused>>
  BY DEF PagesAge
<1>2. walk' \in [Clients -> Walk]
  <2>1. \A c \in Clients : walk'[c] \in Walk
    BY AgingIs
  <2>2. walk' = [c \in Clients |-> walk'[c]]
    BY DEF PagesAge
  <2> QED BY <2>1, <2>2
<1>3. pages' \in [Offsets -> [page : Page, ttl : 0 .. PageTtl]]
  <2>1. \A o \in Offsets : pages[o] \in [page : Page, ttl : 0 .. PageTtl]
    BY DEF PagedBase, PagedReadsTypeOK
  <2>2. NoPage \in Page /\ PageTtl \in Nat
    BY PagedBounds
  <2>3. ASSUME NEW o \in Offsets
        PROVE  (IF pages[o].ttl <= 1 THEN [page |-> NoPage, ttl |-> 0]
                ELSE [pages[o] EXCEPT !.ttl = @ - 1]) \in [page : Page, ttl : 0 .. PageTtl]
    BY <2>1, <2>2
  <2> QED BY <2>3 DEF PagesAge
<1>4. quiet' \in 0 .. TooLongAgo
  <2>1. quiet \in 0 .. TooLongAgo /\ TooLongAgo \in Nat
    BY PagedBounds DEF PagedBase, PagedReadsTypeOK
  <2>2. quiet' = quiet \/ (quiet # TooLongAgo /\ quiet' = quiet + 1)
    BY DEF PagesAge
  <2> QED BY <2>1, <2>2
<1>5. ASSUME NEW c \in Clients
      PROVE  WalkOk(walk[c])'
  <2> SUFFICES ASSUME NEW v, v = walk'[c]
               PROVE  WalkOk(v)'
    BY DEF WalkOk
  <2> DEFINE w == walk[c]
  <2>1. WalkOk(w) /\ w \in Walk /\ v \in Walk
    BY AgingIs, BaseFacts
  <2>2. /\ v.at = w.at /\ v.todo = w.todo /\ v.page = w.page /\ v.limit = w.limit
        /\ v.since = w.since /\ v.offset = w.offset /\ v.again = w.again /\ v.seen = w.seen
    <3>1. CASE Walking(c)
      <4>1. v = [w EXCEPT !.age = @ + 1]
        BY <3>1, AgingIs
      <4> QED BY <2>1, <4>1 DEF Walk
    <3>2. CASE ~Walking(c)
      BY <3>2, AgingIs
    <3> QED BY <3>1, <3>2
  <2> HIDE DEF w
  <2> QED BY <1>1, <2>1, <2>2 DEF WalkOk
<1>6. TableInv'
  BY <1>1 DEF PagedBase, TableInv
<1>7. PagedReadsTypeOK'
  BY <1>1, <1>2, <1>3, <1>4 DEF PagedBase, PagedReadsTypeOK
<1> QED BY <1>5, <1>6, <1>7 DEF PagedBase

LEMMA PagedBaseNext == PagedBase /\ [PagedReadsNext]_pagedReadsVars => PagedBase'
<1> SUFFICES ASSUME PagedBase, [PagedReadsNext]_pagedReadsVars
             PROVE  PagedBase'
  OBVIOUS
<1>1. ASSUME NEW id \in Ids, Insert(id) \/ Move(id) \/ Leave(id)
      PROVE  PagedBase'
  BY <1>1, WritesKeepBase
<1>2. CASE EvictFirstPage
  <2>1. /\ pages' = [pages EXCEPT ![0] = [page |-> NoPage, ttl |-> 0]]
        /\ UNCHANGED <<list, table, unused, walk, quiet>>
    BY <1>2 DEF EvictFirstPage
  <2>2. NoPage \in Page /\ 0 \in 0 .. PageTtl
    BY PagedBounds
  <2>3. pages' \in [Offsets -> [page : Page, ttl : 0 .. PageTtl]]
    BY <2>1, <2>2 DEF PagedBase, PagedReadsTypeOK
  <2> QED BY <2>1, <2>3 DEF PagedBase, PagedReadsTypeOK, TableInv, WalkOk
<1>3. ASSUME NEW c \in Clients, ClientStep(c)
      PROVE  PagedBase'
  BY <1>3, ClientStepKeepsBase
<1>4. CASE PagesAge
  BY <1>4, AgeKeepsBase
<1>5. CASE UNCHANGED pagedReadsVars
  BY <1>5 DEF pagedReadsVars, PagedBase, PagedReadsTypeOK, TableInv, WalkOk
<1> QED BY <1>1, <1>2, <1>3, <1>4, <1>5 DEF PagedReadsNext

-----------------------------------------------------------------------------
(* PagedReads: lists whose pages are cached *)

\* The page at an offset as the rows are now.
Current(page, o) == page = [items |-> Slice(table, o, PageSize), total |-> Len(table)]

\* A page is at most as old as its time in the cache and the read that stored it: it is
\* the list as it is unless a write came since.
CachedPage(o) ==
    pages[o].ttl > 0 /\ quiet > PageTtl - pages[o].ttl + MaxPageRead => Current(pages[o].page, o)

\* What is loaded is the list as it is unless a write came since the read began.
LoadedPage(w) ==
    w.at \in {"read", "store"} /\ quiet > w.age =>
        /\ "rows" \notin w.todo => w.page.items = Slice(table, w.offset, PageSize)
        /\ "count" \notin w.todo => w.page.total = Len(table)

\* A walk that nothing disturbed has seen the rows before its offset.
SeenRows(w) ==
    w.at # "idle" /\ w.writes = 0 =>
        /\ quiet = TooLongAgo
        /\ w.at = "done" => w.seen = table
        /\ w.at # "done" => w.offset <= Len(table) /\ w.seen = SubSeq(table, 1, w.offset)

CachedListInv ==
    list.cached =>
        /\ Ids = {} => quiet = TooLongAgo
        /\ \A o \in Offsets : CachedPage(o)
        /\ \A c \in Clients : LoadedPage(walk[c]) /\ SeenRows(walk[c])

LEMMA CachedListInvInit == PagedReadsInit => CachedListInv
<1> SUFFICES ASSUME PagedReadsInit
             PROVE  CachedListInv
  OBVIOUS
<1>1. /\ quiet = TooLongAgo /\ \A o \in Offsets : pages[o].ttl = 0
      /\ \A c \in Clients : walk[c].at = "idle"
  BY DEF PagedReadsInit, NoWalk
<1> QED BY <1>1 DEF CachedListInv, CachedPage, LoadedPage, SeenRows

LEMMA WritesKeepCachedList ==
    ASSUME PagedBase, CachedListInv, NEW id \in Ids, Insert(id) \/ Move(id) \/ Leave(id)
    PROVE  CachedListInv'
<1> SUFFICES ASSUME list.cached
             PROVE  /\ Ids # {}
                    /\ \A o \in Offsets : CachedPage(o)'
                    /\ \A c \in Clients : LoadedPage(walk[c])' /\ SeenRows(walk[c])'
  <2>1. list' = list
    BY TableWrites
  <2>2. CachedListInv' <=> (list.cached =>
            /\ Ids = {} => (quiet = TooLongAgo)'
            /\ \A o \in Offsets : CachedPage(o)'
            /\ \A c \in Clients : LoadedPage(walk[c])' /\ SeenRows(walk[c])')
    BY <2>1 DEF CachedListInv
  <2> QED BY <2>2
<1>1. quiet' = 0 /\ pages' = pages /\ Many > 0 /\ Many \in Nat /\ Disturbs
  BY TableWrites, PagedBounds DEF Disturbs
<1>2. ASSUME NEW o \in Offsets
      PROVE  CachedPage(o)'
  <2>1. pages[o].ttl \in Nat /\ pages[o].ttl <= PageTtl /\ PageTtl \in Nat /\ MaxPageRead \in Nat
    <3>1. pages[o].ttl \in 0 .. PageTtl /\ PageTtl \in Nat /\ MaxPageRead \in Nat
      BY PagedBounds DEF PagedBase, PagedReadsTypeOK
    <3> QED BY <3>1
  <2>2. ~ (0 > PageTtl - pages[o].ttl + MaxPageRead)
    BY <2>1
  <2> QED BY <1>1, <2>2 DEF CachedPage
<1>3. ASSUME NEW c \in Clients
      PROVE  LoadedPage(walk[c])' /\ SeenRows(walk[c])'
  <2>1. walk'[c] \in Walk
    BY <1>1, DisturbedIs
  <2>2. walk'[c].age \in Nat /\ ~ (0 > walk'[c].age)
    <3>1. walk'[c].age \in Nat
      BY <2>1, WalkFields
    <3> QED BY <3>1
  <2>3. walk'[c].at # "idle" => walk'[c].writes # 0
    <3>1. walk[c] \in Walk
      BY BaseFacts
    <3>2. CASE walk[c].at = "idle"
      BY <1>1, <3>2, DisturbedIs
    <3>3. CASE walk[c].at # "idle"
      <4>1. walk'[c] = [walk[c] EXCEPT !.writes = Many, !.seen = <<>>]
        BY <1>1, <3>3, DisturbedIs
      <4>2. walk'[c].writes = Many
        BY <3>1, <4>1 DEF Walk
      <4> QED BY <1>1, <4>2
    <3> QED BY <3>2, <3>3
  <2> QED BY <1>1, <2>2, <2>3 DEF LoadedPage, SeenRows
<1> QED BY <1>2, <1>3

\* A page as the rows are now lets a walk that nothing disturbed go on.
LEMMA TurnedSees ==
    ASSUME PagedBase, CachedListInv, list.cached, NEW c \in Clients, NEW page \in Page,
           walk[c].at \in {"look", "read", "store"},
           walk[c].writes = 0 => Current(page, walk[c].offset)
    PROVE  LET v == Turned(walk[c], page) IN LoadedPage(v) /\ SeenRows(v)
<1> DEFINE w == walk[c]
           v == Turned(w, page)
           o == w.offset
<1>1. /\ WalkOk(w) /\ w \in Walk /\ table \in Rows /\ table \in Seq(Ids) /\ Len(table) \in Nat
      /\ o \in Nat /\ w.writes \in Nat
  <2>1. w \in Walk
    BY BaseFacts
  <2> QED BY <2>1, BaseFacts, WalkFields
<1>2. /\ v \in Walk /\ v.writes = w.writes
      /\ v.seen = (IF w.writes < Many THEN w.seen \o page.items ELSE w.seen)
      /\ o + PageSize < page.total =>
            v.at = "look" /\ v.offset = o + PageSize /\ v.todo = {"count", "rows"}
      /\ ~ (o + PageSize < page.total) => v.at = "done"
  BY <1>1, TurnedIs
<1> HIDE DEF v
<1>3. LoadedPage(v)
  BY <1>2 DEF LoadedPage
<1>4. ASSUME v.writes = 0
      PROVE  /\ quiet = TooLongAgo
             /\ v.at = "done" => v.seen = table
             /\ v.at # "done" => v.offset <= Len(table) /\ v.seen = SubSeq(table, 1, v.offset)
  <2>1. /\ quiet = TooLongAgo /\ o <= Len(table) /\ w.seen = SubSeq(table, 1, o)
        /\ page.items = Slice(table, o, PageSize) /\ page.total = Len(table)
    <3>1. w.writes = 0 /\ w.at # "idle" /\ w.at # "done"
      BY <1>2, <1>4
    <3>2. SeenRows(w)
      BY DEF CachedListInv
    <3>3. Current(page, o)
      BY <3>1
    <3> QED BY <3>1, <3>2, <3>3 DEF SeenRows, Current
  <2> DEFINE n == IF o + PageSize < Len(table) THEN o + PageSize ELSE Len(table)
  <2>2. w.seen \o page.items = SubSeq(table, 1, n)
    <3>1. PageSize \in Nat
      BY PagedBounds
    <3>2. SubSeq(table, 1, o) \o Slice(table, o, PageSize) = SubSeq(table, 1, n)
      BY <1>1, <2>1, <3>1, SliceIs
    <3> QED BY <2>1, <3>2
  <2>3. v.seen = SubSeq(table, 1, n)
    <3>1. CASE w.writes < Many
      BY <1>2, <2>2, <3>1
    <3>2. CASE ~ (w.writes < Many)
      <4>1. Many = 0 /\ Cardinality(Ids) = 0
        <5>1. Many \in Nat /\ Many = Cardinality(Ids)
          BY PagedBounds DEF Many
        <5> QED BY <1>2, <1>4, <3>2, <5>1
      <4>2. page.items \in Rows /\ w.seen \in Seq(Ids)
        BY <1>1, WalkFields DEF Page
      <4>3. page.items \in Seq(Ids) /\ Len(page.items) <= 0
        BY <4>1, <4>2, RowsAreSeqs
      <4>4. page.items = <<>>
        BY <4>3
      <4>5. w.seen \o <<>> = w.seen
        BY <4>2
      <4> QED BY <1>2, <2>2, <3>2, <4>4, <4>5
    <3> QED BY <3>1, <3>2
  <2>4. CASE o + PageSize < page.total
    <3>1. n = o + PageSize /\ n <= Len(table)
      BY <1>1, <2>1, <2>4, PagedBounds
    <3> QED BY <1>2, <2>1, <2>3, <2>4, <3>1
  <2>5. CASE ~ (o + PageSize < page.total)
    <3>1. n = Len(table)
      BY <2>1, <2>5
    <3>2. SubSeq(table, 1, Len(table)) = table
      BY <1>1, SubSeqFull
    <3> QED BY <1>2, <2>1, <2>3, <2>5, <3>1, <3>2
  <2> QED BY <2>4, <2>5
<1>5. SeenRows(v)
  BY <1>4 DEF SeenRows
<1> QED BY <1>3, <1>5 DEF v

LEMMA ClientKeepsCached ==
    ASSUME PagedBase, CachedListInv, list.cached, NEW c \in Clients, NEW v,
           walk' = [walk EXCEPT ![c] = v], LoadedPage(v), SeenRows(v),
           UNCHANGED <<list, table, quiet>>,
           \A o \in Offsets : CachedPage(o)'
    PROVE  CachedListInv'
<1>1. ASSUME NEW k \in Clients
      PROVE  LoadedPage(walk[k])' /\ SeenRows(walk[k])'
  <2>1. walk'[k] = IF k = c THEN v ELSE walk[k]
    BY BaseFacts
  <2>2. LoadedPage(walk[k]) /\ SeenRows(walk[k])
    BY DEF CachedListInv
  <2> QED BY <2>1, <2>2 DEF LoadedPage, SeenRows
<1> QED BY <1>1 DEF CachedListInv

LEMMA ClientStepKeepsCached ==
    ASSUME PagedBase, CachedListInv, NEW c \in Clients, ClientStep(c)
    PROVE  CachedListInv'
<1> DEFINE w == walk[c]
<1>0. /\ WalkOk(w) /\ w \in Walk /\ w.offset \in Offsets /\ w.page \in Page
      /\ w.age \in Nat /\ w.age <= MaxPageRead /\ w.writes \in Nat
      /\ MaxPageRead \in Nat /\ PageTtl \in Nat \ {0}
      /\ TooLongAgo = PageTtl + MaxPageRead + 1 /\ quiet \in Nat
  <2>1. w \in Walk /\ MaxPageRead \in Nat
    BY BaseFacts, PagedBounds
  <2>2. w.age \in 0 .. MaxPageRead
    BY <2>1, WalkFields
  <2> QED BY <2>1, <2>2, BaseFacts, WalkFields, PagedBounds
<1>00. SUFFICES ASSUME list.cached
                PROVE  CachedListInv'
  <2>1. list' = list
    BY DEF ClientStep, BeginWalk, LookUp, StorePage, WalkEnds, Statement
  <2> QED BY <2>1 DEF CachedListInv
<1>01. LoadedPage(w) /\ SeenRows(w) /\ ~list.search /\ \A o \in Offsets : CachedPage(o)
  BY <1>00, BaseFacts DEF CachedListInv
<1>02. ASSUME UNCHANGED <<list, table, quiet, pages>>
       PROVE  \A o \in Offsets : CachedPage(o)'
  BY <1>01, <1>02 DEF CachedPage, Current
<1>1. CASE BeginWalk(c)
  <2>1. PICK v \in Walk :
             /\ walk' = [walk EXCEPT ![c] = v]
             /\ UNCHANGED <<list, table, unused, pages, quiet>>
             /\ v.at = "look" /\ v.offset = 0 /\ v.seen = <<>>
             /\ v.writes = IF quiet = TooLongAgo THEN 0 ELSE Many
    BY <1>00, <1>1, BeginIs
  <2>2. v.writes = 0 => quiet = TooLongAgo
    <3>1. Ids # {} => Many # 0
      BY PagedReadsAssumption, FS_EmptySet DEF Many
    <3> QED BY <1>00, <2>1, <3>1 DEF CachedListInv
  <2>3. SubSeq(table, 1, 0) = <<>> /\ 0 <= Len(table)
    BY SubSeqEmpty, BaseFacts
  <2>4. LoadedPage(v) /\ SeenRows(v)
    BY <2>1, <2>2, <2>3 DEF LoadedPage, SeenRows
  <2> QED BY <1>00, <1>02, <2>1, <2>4, ClientKeepsCached
<1>2. CASE LookUp(c)
  <2>1. w.at = "look" /\ UNCHANGED <<list, table, unused, quiet>> /\ (PageHit(c) \/ PageMiss(c))
    BY <1>2 DEF LookUp
  <2>2. CASE PageHit(c)
    <3>1. pages[w.offset].ttl > 0 /\ Continues(c, pages[w.offset].page) /\ pages' = pages
      BY <2>2 DEF PageHit
    <3>2. pages[w.offset].page \in Page /\ pages[w.offset].ttl \in Nat /\ pages[w.offset].ttl <= PageTtl
      BY BaseFacts
    <3>3. w.writes = 0 => Current(pages[w.offset].page, w.offset)
      <4> HAVE w.writes = 0
      <4>1. quiet = TooLongAgo
        BY <1>01, <2>1 DEF SeenRows
      <4>2. quiet > PageTtl - pages[w.offset].ttl + MaxPageRead
        BY <1>0, <3>1, <3>2, <4>1
      <4> QED BY <1>0, <1>01, <3>1, <4>2 DEF CachedPage
    <3> DEFINE v == Turned(w, pages[w.offset].page)
    <3>4. LoadedPage(v) /\ SeenRows(v)
      BY <1>00, <2>1, <3>2, <3>3, TurnedSees
    <3>5. walk' = [walk EXCEPT ![c] = v]
      BY <1>01, <2>1, <3>1, <3>2, ContinuesIs
    <3> HIDE DEF v
    <3> QED BY <1>00, <1>02, <2>1, <3>1, <3>4, <3>5, ClientKeepsCached
  <2>3. CASE PageMiss(c)
    <3> DEFINE v == [w EXCEPT !.at = "read"]
    <3>1. walk' = [walk EXCEPT ![c] = v] /\ pages' = pages
      BY <2>1, <2>3, MissIs
    <3>2. /\ v.at = "read" /\ v.todo = w.todo /\ v.seen = w.seen /\ v.offset = w.offset
          /\ v.writes = w.writes
      BY <1>0 DEF Walk
    <3>3. w.todo = {"count", "rows"}
      BY <1>0, <2>1 DEF WalkOk
    <3> HIDE DEF v
    <3>4. LoadedPage(v) /\ SeenRows(v)
      BY <1>01, <2>1, <3>2, <3>3 DEF LoadedPage, SeenRows
    <3> QED BY <1>00, <1>02, <2>1, <3>1, <3>4, ClientKeepsCached
  <2> QED BY <2>1, <2>2, <2>3
<1>3. CASE StorePage(c)
  <2>1. /\ w.at = "store" /\ Continues(c, w.page) /\ UNCHANGED <<list, table, unused, quiet>>
        /\ pages' = [pages EXCEPT ![w.offset] = [page |-> w.page, ttl |-> PageTtl]]
    BY <1>3 DEF StorePage
  <2>2. quiet > w.age => Current(w.page, w.offset)
    <3> HAVE quiet > w.age
    <3>1. w.todo = {}
      BY <1>0, <2>1 DEF WalkOk
    <3>2. w.page.items = Slice(table, w.offset, PageSize) /\ w.page.total = Len(table)
      BY <1>01, <2>1, <3>1 DEF LoadedPage
    <3>3. w.page = [items |-> w.page.items, total |-> w.page.total]
      BY <1>0 DEF Page
    <3> QED BY <3>2, <3>3, Zenon DEF Current
  <2>3. ASSUME NEW o \in Offsets
        PROVE  CachedPage(o)'
    <3>1. pages \in [Offsets -> [page : Page, ttl : 0 .. PageTtl]]
      BY BaseFacts
    <3>2. CASE o = w.offset
      <4>1. pages'[o].page = w.page /\ pages'[o].ttl = PageTtl
        BY <2>1, <3>1, <3>2
      <4>2. quiet > PageTtl - PageTtl + MaxPageRead => quiet > w.age
        BY <1>0
      <4> QED BY <2>1, <2>2, <3>2, <4>1, <4>2 DEF CachedPage, Current
    <3>3. CASE o # w.offset
      <4>1. pages'[o] = pages[o]
        BY <2>1, <3>1, <3>3
      <4>2. CachedPage(o)
        BY <1>01
      <4> QED BY <2>1, <4>1, <4>2 DEF CachedPage, Current
    <3> QED BY <3>2, <3>3
  <2>4. w.writes = 0 => Current(w.page, w.offset)
    <3> HAVE w.writes = 0
    <3>1. quiet = TooLongAgo
      BY <1>01, <2>1 DEF SeenRows
    <3>2. quiet > w.age
      BY <1>0, <3>1
    <3> QED BY <2>2, <3>2
  <2> DEFINE v == Turned(w, w.page)
  <2>5. LoadedPage(v) /\ SeenRows(v)
    BY <1>0, <1>00, <2>1, <2>4, TurnedSees
  <2>6. walk' = [walk EXCEPT ![c] = v]
    BY <1>0, <1>01, <2>1, ContinuesIs
  <2> HIDE DEF v
  <2> QED BY <1>00, <2>1, <2>3, <2>5, <2>6, ClientKeepsCached
<1>4. CASE WalkEnds(c)
  <2>1. walk' = [walk EXCEPT ![c] = NoWalk] /\ UNCHANGED <<list, table, unused, pages, quiet>>
    BY <1>4 DEF WalkEnds
  <2>2. LoadedPage(NoWalk) /\ SeenRows(NoWalk)
    BY DEF LoadedPage, SeenRows, NoWalk
  <2> QED BY <1>00, <1>02, <2>1, <2>2, ClientKeepsCached
<1>5. ASSUME NEW q \in {"count", "rows"}, Statement(c, q)
      PROVE  CachedListInv'
  <2> DEFINE page == IF q = "count" THEN [w.page EXCEPT !.total = Len(table)]
                     ELSE [w.page EXCEPT !.items = Slice(table, w.offset, w.limit)]
             v == [w EXCEPT !.page = page, !.todo = @ \ {q},
                            !.at = IF w.todo = {q} THEN "store" ELSE "read"]
  <2>1. /\ page \in Page /\ w.at = "read" /\ UNCHANGED <<list, table, unused, pages, quiet>>
        /\ page.total = (IF q = "count" THEN Len(table) ELSE w.page.total)
        /\ page.items = (IF q = "count" THEN w.page.items ELSE Slice(table, w.offset, w.limit))
        /\ q \in w.todo /\ walk' = [walk EXCEPT ![c] = v]
    BY <1>00, <1>5, StatementIs
  <2>2. w.limit = PageSize
    BY <1>0, <1>01, <2>1 DEF WalkOk
  <2> HIDE DEF page
  <2>3. /\ v.at \in {"read", "store"} /\ v.todo = w.todo \ {q} /\ v.page = page /\ v.offset = w.offset
        /\ v.age = w.age /\ v.writes = w.writes /\ v.seen = w.seen
    BY <1>0 DEF Walk
  <2> HIDE DEF v
  <2>4. LoadedPage(v)
    <3>1. ASSUME quiet > w.age, "rows" \notin w.todo \ {q}
          PROVE  page.items = Slice(table, w.offset, PageSize)
      <4>1. CASE q = "rows"
        BY <2>1, <2>2, <4>1
      <4>2. CASE q # "rows"
        <5>1. "rows" \notin w.todo /\ q = "count"
          BY <3>1, <4>2
        <5> QED BY <1>01, <2>1, <3>1, <5>1 DEF LoadedPage
      <4> QED BY <4>1, <4>2
    <3>2. ASSUME quiet > w.age, "count" \notin w.todo \ {q}
          PROVE  page.total = Len(table)
      <4>1. CASE q = "count"
        BY <2>1, <4>1
      <4>2. CASE q # "count"
        <5>1. "count" \notin w.todo
          BY <3>2, <4>2
        <5> QED BY <1>01, <2>1, <3>2, <4>2, <5>1 DEF LoadedPage
      <4> QED BY <4>1, <4>2
    <3> QED BY <2>3, <3>1, <3>2 DEF LoadedPage
  <2>5. SeenRows(v)
    BY <1>01, <2>1, <2>3 DEF SeenRows
  <2> QED BY <1>00, <1>02, <2>1, <2>4, <2>5, ClientKeepsCached
<1> QED BY <1>1, <1>2, <1>3, <1>4, <1>5 DEF ClientStep

LEMMA AgeKeepsCached ==
    ASSUME PagedBase, CachedListInv, PagesAge
    PROVE  CachedListInv'
<1>1. /\ list.cached /\ UNCHANGED <<list, table, unused>>
      /\ quiet' = IF quiet = TooLongAgo THEN quiet ELSE quiet + 1
      /\ pages' = [o \in Offsets |->
                      IF pages[o].ttl <= 1 THEN [page |-> NoPage, ttl |-> 0]
                      ELSE [pages[o] EXCEPT !.ttl = @ - 1]]
  BY DEF PagesAge
<1>2. /\ MaxPageRead \in Nat /\ PageTtl \in Nat \ {0} /\ TooLongAgo = PageTtl + MaxPageRead + 1
      /\ quiet \in Nat /\ quiet <= TooLongAgo
  <2>1. MaxPageRead \in Nat /\ PageTtl \in Nat \ {0} /\ TooLongAgo = PageTtl + MaxPageRead + 1
    BY PagedBounds
  <2>2. quiet \in 0 .. TooLongAgo
    BY DEF PagedBase, PagedReadsTypeOK
  <2> QED BY <2>1, <2>2
<1>3. quiet = TooLongAgo => quiet' = TooLongAgo
  BY <1>1
<1>4. ASSUME NEW o \in Offsets
      PROVE  CachedPage(o)'
  <2>1. CachedPage(o)
    BY <1>1 DEF CachedListInv
  <2>2. pages[o] \in [page : Page, ttl : 0 .. PageTtl]
    BY DEF PagedBase, PagedReadsTypeOK
  <2>3. CASE pages[o].ttl <= 1
    <3>1. pages'[o].ttl = 0
      BY <1>1, <2>3
    <3> QED BY <3>1 DEF CachedPage
  <2>4. CASE pages[o].ttl > 1
    <3>1. pages[o].ttl \in Nat /\ pages[o].ttl <= PageTtl /\ ~ (pages[o].ttl <= 1)
      BY <1>2, <2>2, <2>4
    <3>2. pages'[o] = [pages[o] EXCEPT !.ttl = @ - 1]
      BY <1>1, <3>1
    <3>3. pages'[o].ttl = pages[o].ttl - 1 /\ pages'[o].page = pages[o].page
      BY <2>2, <3>2
    <3>4. quiet' > PageTtl - (pages[o].ttl - 1) + MaxPageRead => quiet > PageTtl - pages[o].ttl + MaxPageRead
      BY <1>1, <1>2, <2>4, <3>1
    <3> QED BY <1>1, <2>1, <2>4, <3>1, <3>3, <3>4 DEF CachedPage, Current
  <2>5. pages[o].ttl <= 1 \/ pages[o].ttl > 1
    BY <1>2, <2>2
  <2> QED BY <2>3, <2>4, <2>5
<1>5. ASSUME NEW c \in Clients
      PROVE  LoadedPage(walk[c])' /\ SeenRows(walk[c])'
  <2> SUFFICES ASSUME NEW v, v = walk'[c]
               PROVE  LoadedPage(v)' /\ SeenRows(v)'
    BY DEF LoadedPage, SeenRows
  <2> DEFINE w == walk[c]
  <2>1. w \in Walk /\ LoadedPage(w) /\ SeenRows(w) /\ w.age \in Nat /\ w.age <= MaxPageRead
    <3>1. w \in Walk /\ LoadedPage(w) /\ SeenRows(w)
      BY <1>1, BaseFacts DEF CachedListInv
    <3>2. w.age \in 0 .. MaxPageRead
      BY <3>1, WalkFields
    <3> QED BY <1>2, <3>1, <3>2
  <2>2. /\ v.at = w.at /\ v.todo = w.todo /\ v.page = w.page /\ v.offset = w.offset
        /\ v.writes = w.writes /\ v.seen = w.seen
        /\ w.at \in {"read", "store"} => v.age = w.age + 1
    <3>1. CASE Walking(c)
      <4>1. v = [w EXCEPT !.age = @ + 1]
        BY <3>1, AgingIs
      <4> QED BY <2>1, <4>1 DEF Walk
    <3>2. CASE ~Walking(c)
      BY <3>2, AgingIs DEF Walking
    <3> QED BY <3>1, <3>2
  <2> HIDE DEF w
  <2>3. ASSUME w.at \in {"read", "store"}, quiet' > w.age + 1
        PROVE  quiet > w.age
    BY <1>1, <1>2, <2>1, <2>3
  <2>4. LoadedPage(v)'
    BY <1>1, <2>1, <2>2, <2>3 DEF LoadedPage
  <2>5. SeenRows(v)'
    <3>1. TooLongAgo' = TooLongAgo
      BY DEF TooLongAgo
    <3> QED BY <1>1, <1>3, <2>1, <2>2, <3>1 DEF SeenRows
  <2> QED BY <2>4, <2>5
<1>6. Ids = {} => quiet' = TooLongAgo
  BY <1>1, <1>3 DEF CachedListInv
<1> QED BY <1>4, <1>5, <1>6 DEF CachedListInv, TooLongAgo

LEMMA CachedListNext == PagedBase /\ CachedListInv /\ [PagedReadsNext]_pagedReadsVars => CachedListInv'
<1> SUFFICES ASSUME PagedBase, CachedListInv, [PagedReadsNext]_pagedReadsVars
             PROVE  CachedListInv'
  OBVIOUS
<1>1. ASSUME NEW id \in Ids, Insert(id) \/ Move(id) \/ Leave(id)
      PROVE  CachedListInv'
  BY <1>1, WritesKeepCachedList
<1>2. CASE EvictFirstPage
  <2>1. /\ pages' = [pages EXCEPT ![0] = [page |-> NoPage, ttl |-> 0]]
        /\ UNCHANGED <<list, table, unused, walk, quiet>>
    BY <1>2 DEF EvictFirstPage
  <2>2. ASSUME NEW o \in Offsets, list.cached
        PROVE  CachedPage(o)'
    <3>1. pages'[o] = pages[o] \/ pages'[o].ttl = 0
      BY <2>1 DEF PagedBase, PagedReadsTypeOK
    <3> QED BY <2>1, <2>2, <3>1 DEF CachedListInv, CachedPage, Current
  <2> QED BY <2>1, <2>2 DEF CachedListInv, LoadedPage, SeenRows
<1>3. ASSUME NEW c \in Clients, ClientStep(c)
      PROVE  CachedListInv'
  BY <1>3, ClientStepKeepsCached
<1>4. CASE PagesAge
  BY <1>4, AgeKeepsCached
<1>5. CASE UNCHANGED pagedReadsVars
  BY <1>5 DEF pagedReadsVars, CachedListInv, CachedPage, Current, LoadedPage, SeenRows
<1> QED BY <1>1, <1>2, <1>3, <1>4, <1>5 DEF PagedReadsNext

-----------------------------------------------------------------------------
(* PagedReads: lists whose pages are read anew *)

\* The positions in the list that walk w does not look at any more: those before its
\* page, or up to its end once the rows are read; and those behind it when it will be
\* the last, as its total is known.
Passed(w, i) ==
    \/ w.at = "done"
    \/ "rows" \in w.todo /\ i <= w.offset
    \/ "rows" \notin w.todo /\ (w.again \/ i <= w.offset + w.limit)
    \/ /\ w.again \/ ("count" \notin w.todo /\ w.page.total <= w.offset + w.limit)
       /\ "rows" \in w.todo
       /\ i > w.offset + w.limit

\* The rows that were there all the time and that walk w will not see.
Lost(w) ==
    {x \in w.since : /\ x \notin ToSet(w.seen) /\ x \notin ToSet(w.page.items)
                     /\ \E i \in DOMAIN table : table[i] = x /\ Passed(w, i)}

\* As many as there were writes, at most.
LostInv ==
    ~list.cached => \A c \in Clients :
        walk[c].at # "idle" => Cardinality(Lost(walk[c])) <= walk[c].writes

LEMMA LostIsFinite ==
    ASSUME PagedBase, NEW w \in Walk
    PROVE  IsFiniteSet(Lost(w)) /\ Cardinality(Lost(w)) \in Nat /\ Cardinality(Lost(w)) <= Many
<1>1. Lost(w) \in SUBSET Ids
  BY WalkFields DEF Lost
<1> QED BY <1>1, FS_Subset, FS_CardinalityType, PagedReadsAssumption DEF Many

LEMMA ClientKeepsLost ==
    ASSUME PagedBase, LostInv, ~list.cached, NEW c \in Clients, NEW v \in Walk,
           walk' = [walk EXCEPT ![c] = v], UNCHANGED <<list, table>>,
           v.at # "idle" => Cardinality(Lost(v)) <= v.writes
    PROVE  LostInv'
<1>1. ASSUME NEW k \in Clients, walk'[k].at # "idle"
      PROVE  Cardinality(Lost(walk[k])') <= walk'[k].writes
  <2>1. walk'[k] = IF k = c THEN v ELSE walk[k]
    BY BaseFacts
  <2>2. walk[k].at # "idle" => Cardinality(Lost(walk[k])) <= walk[k].writes
    BY DEF LostInv
  <2>3. Lost(walk[k])' = Lost(walk'[k])
    BY DEF Lost
  <2> QED BY <1>1, <2>1, <2>2, <2>3
<1> QED BY <1>1 DEF LostInv

\* A walk that only loses what it had lost.
LEMMA LosesNoMore ==
    ASSUME PagedBase, LostInv, ~list.cached, NEW c \in Clients, walk[c].at # "idle",
           NEW v \in Walk, v.writes = walk[c].writes,
           v.writes = Many \/ Lost(v) \subseteq Lost(walk[c])
    PROVE  Cardinality(Lost(v)) <= v.writes
<1>1. walk[c] \in Walk
  BY BaseFacts
<1>2. CASE v.writes = Many
  BY <1>2, LostIsFinite
<1>3. CASE Lost(v) \subseteq Lost(walk[c])
  <2>1. IsFiniteSet(Lost(walk[c])) /\ Cardinality(Lost(walk[c])) \in Nat /\ Cardinality(Lost(v)) \in Nat
    BY <1>1, LostIsFinite
  <2>2. Cardinality(Lost(v)) <= Cardinality(Lost(walk[c]))
    BY <1>3, <2>1, FS_Subset
  <2>3. Cardinality(Lost(walk[c])) <= walk[c].writes /\ walk[c].writes \in Nat
    BY <1>1, WalkFields DEF LostInv
  <2> QED BY <2>1, <2>2, <2>3
<1> QED BY <1>2, <1>3

\* One statement of two, and the other one to come.
LEMMA FirstStatementLoses ==
    ASSUME PagedBase, LostInv, ~list.cached, NEW c \in Clients, NEW q \in {"count", "rows"},
           Statement(c, q), walk[c].todo # {q}
    PROVE  LostInv'
<1> DEFINE w == walk[c]
           page == IF q = "count" THEN [w.page EXCEPT !.total = Len(table)]
                   ELSE [w.page EXCEPT !.items = Slice(table, w.offset, w.limit)]
           v == [w EXCEPT !.page = page, !.todo = @ \ {q},
                          !.at = IF w.todo = {q} THEN "store" ELSE "read"]
<1>1. /\ page \in Page /\ w.at = "read" /\ UNCHANGED <<list, table, unused, pages, quiet>>
      /\ page.total = (IF q = "count" THEN Len(table) ELSE w.page.total)
      /\ page.items = (IF q = "count" THEN w.page.items ELSE Slice(table, w.offset, w.limit))
      /\ q \in w.todo /\ WalkOk(v) /\ walk' = [walk EXCEPT ![c] = v]
  BY StatementIs
<1> HIDE DEF page
<1>2. /\ WalkOk(w) /\ w \in Walk /\ w.offset \in Nat /\ w.limit \in Nat /\ table \in Seq(Ids)
      /\ DOMAIN table = 1 .. Len(table) /\ Len(table) \in Nat /\ w.todo \in SUBSET {"count", "rows"}
  <2>1. w \in Walk
    BY BaseFacts
  <2> QED BY <2>1, BaseFacts, WalkFields
<1>3. /\ v.at = "read" /\ v.todo = w.todo \ {q} /\ v.page = page /\ v.offset = w.offset
      /\ v.limit = w.limit /\ v.writes = w.writes /\ v.seen = w.seen /\ v.since = w.since
      /\ v.again = w.again
  BY <1>2 DEF Walk
<1>4. v \in Walk
  BY <1>1 DEF WalkOk
<1> HIDE DEF v
<1>5. w.todo = {"count", "rows"}
  BY <1>1, <1>2
<1>6. ASSUME NEW x \in Lost(v)
      PROVE  x \in Lost(w)
  <2>1. PICK i \in DOMAIN table : table[i] = x /\ Passed(v, i)
    BY <1>6 DEF Lost
  <2>2. x \in w.since /\ x \notin ToSet(w.seen) /\ x \notin ToSet(page.items)
    BY <1>3, <1>6 DEF Lost
  <2>3. x \notin ToSet(w.page.items)
    <3>1. w.page.items = <<>>
      BY <1>2, <1>5 DEF WalkOk
    <3> QED BY <3>1 DEF ToSet
  <2>4. Passed(w, i)
    <3>1. CASE q = "count"
      <4>1. "rows" \in v.todo /\ "count" \notin v.todo
        BY <1>3, <1>5, <3>1
      <4>2. i <= w.offset \/ (w.again /\ i > w.offset + w.limit) \/
                (Len(table) <= w.offset + w.limit /\ i > w.offset + w.limit)
        BY <1>1, <1>3, <2>1, <3>1, <4>1 DEF Passed
      <4>3. ~ (Len(table) <= w.offset + w.limit /\ i > w.offset + w.limit)
        BY <1>2
      <4> QED BY <1>5, <4>2, <4>3 DEF Passed
    <3>2. CASE q = "rows"
      <4>1. "rows" \notin v.todo
        BY <1>3, <3>2
      <4>2. w.again \/ i <= w.offset + w.limit
        BY <1>3, <2>1, <4>1 DEF Passed
      <4>3. ~ (i > w.offset /\ i <= w.offset + w.limit)
        BY <1>1, <1>2, <2>1, <2>2, <3>2, SliceIs
      <4>4. i <= w.offset \/ (w.again /\ i > w.offset + w.limit)
        BY <1>2, <4>2, <4>3
      <4> QED BY <1>5, <4>4 DEF Passed
    <3> QED BY <3>1, <3>2
  <2> QED BY <2>1, <2>2, <2>3, <2>4 DEF Lost
<1>7. Cardinality(Lost(v)) <= v.writes
  BY <1>1, <1>3, <1>4, <1>6, LosesNoMore
<1> QED BY <1>1, <1>4, <1>7, ClientKeepsLost

\* The last statement of a page: whatever of the list it passes is on the page, or was lost.
LEMMA LastStatementPasses ==
    ASSUME PagedBase, NEW c \in Clients, NEW q \in {"count", "rows"}, Statement(c, q),
           walk[c].todo = {q}, NEW page \in Page,
           page.total = IF q = "count" THEN Len(table) ELSE walk[c].page.total,
           page.items = IF q = "count" THEN walk[c].page.items
                        ELSE Slice(table, walk[c].offset, walk[c].limit),
           NEW i \in DOMAIN table, table[i] \notin ToSet(page.items),
           i <= walk[c].offset + walk[c].limit \/ page.total <= walk[c].offset + walk[c].limit \/ walk[c].again
    PROVE  Passed(walk[c], i) /\ table[i] \notin ToSet(walk[c].page.items)
<1> DEFINE w == walk[c]
<1>1. /\ WalkOk(w) /\ w \in Walk /\ w.offset \in Nat /\ w.limit \in Nat /\ table \in Seq(Ids)
      /\ DOMAIN table = 1 .. Len(table) /\ Len(table) \in Nat
  <2>1. w \in Walk
    BY BaseFacts
  <2> QED BY <2>1, BaseFacts, WalkFields
<1>2. CASE q = "count"
  <2>1. "rows" \notin w.todo /\ page.total = Len(table) /\ page.items = w.page.items
    BY <1>2
  <2>2. w.again \/ i <= w.offset + w.limit
    BY <1>1, <2>1
  <2> QED BY <2>1, <2>2 DEF Passed
<1>3. CASE q = "rows"
  <2>1. /\ "rows" \in w.todo /\ "count" \notin w.todo /\ page.total = w.page.total
        /\ page.items = Slice(table, w.offset, w.limit)
    BY <1>3
  <2>2. ~ (i > w.offset /\ i <= w.offset + w.limit)
    BY <1>1, <2>1, SliceIs
  <2>3. w.page.items = <<>>
    BY <1>1, <2>1 DEF WalkOk
  <2>4. i <= w.offset \/ (i > w.offset + w.limit /\ (w.again \/ w.page.total <= w.offset + w.limit))
    BY <1>1, <2>1, <2>2
  <2> QED BY <2>1, <2>3, <2>4 DEF Passed, ToSet
<1> QED BY <1>2, <1>3

LEMMA ConcatHas ==
    ASSUME NEW s \in Seq(Ids), NEW t \in Seq(Ids), NEW x, x \notin ToSet(s \o t)
    PROVE  x \notin ToSet(s) /\ x \notin ToSet(t)
<1>1. /\ Len(s \o t) = Len(s) + Len(t) /\ s \o t \in Seq(Ids)
      /\ \A i \in 1 .. Len(s) + Len(t) : (s \o t)[i] = IF i <= Len(s) THEN s[i] ELSE t[i - Len(s)]
  BY ConcatProperties
<1>2. Len(s) \in Nat /\ Len(t) \in Nat
  OBVIOUS
<1>3. ASSUME NEW i \in 1 .. Len(s), s[i] = x
      PROVE  FALSE
  <2>1. i \in 1 .. Len(s) + Len(t) /\ (s \o t)[i] = x
    BY <1>1, <1>2, <1>3
  <2> QED BY <1>1, <2>1 DEF ToSet
<1>4. ASSUME NEW i \in 1 .. Len(t), t[i] = x
      PROVE  FALSE
  <2>1. i + Len(s) \in 1 .. Len(s) + Len(t) /\ ~ (i + Len(s) <= Len(s)) /\ i + Len(s) - Len(s) = i
    BY <1>2
  <2>2. (s \o t)[i + Len(s)] = x
    BY <1>1, <1>4, <2>1
  <2> QED BY <1>1, <2>1, <2>2 DEF ToSet
<1> QED BY <1>3, <1>4 DEF ToSet

\* The last statement of a page, that is answered.
LEMMA LastStatementLoses ==
    ASSUME PagedBase, LostInv, ~list.cached, NEW c \in Clients, NEW q \in {"count", "rows"},
           Statement(c, q), walk[c].todo = {q}
    PROVE  LostInv'
<1> DEFINE w == walk[c]
           page == IF q = "count" THEN [w.page EXCEPT !.total = Len(table)]
                   ELSE [w.page EXCEPT !.items = Slice(table, w.offset, w.limit)]
<1>1. /\ page \in Page /\ w.at = "read" /\ UNCHANGED <<list, table, unused, pages, quiet>>
      /\ page.total = (IF q = "count" THEN Len(table) ELSE w.page.total)
      /\ page.items = (IF q = "count" THEN w.page.items ELSE Slice(table, w.offset, w.limit))
      /\ Continues(c, page)
  BY StatementIs
<1> HIDE DEF page
<1>2. /\ WalkOk(w) /\ w \in Walk /\ w.offset \in Nat /\ w.limit \in Nat /\ table \in Seq(Ids)
      /\ DOMAIN table = 1 .. Len(table) /\ Len(table) \in Nat /\ w.seen \in Seq(Ids)
      /\ w.again \in BOOLEAN /\ w.page.items \in Seq(Ids) /\ list.search \in BOOLEAN
  <2>1. w \in Walk
    BY BaseFacts
  <2> QED BY <2>1, BaseFacts, WalkFields
<1>3. page.items \in Seq(Ids) /\ page.total \in Nat
  <2>1. page.items \in Rows /\ page.total \in 0 .. Cardinality(Ids) /\ Cardinality(Ids) \in Nat
    BY <1>1, PagedBounds DEF Page
  <2> QED BY <2>1, RowsAreSeqs
<1>4. ASSUME NEW i \in DOMAIN table, table[i] \notin ToSet(page.items),
             i <= w.offset + w.limit \/ page.total <= w.offset + w.limit \/ w.again
      PROVE  Passed(w, i) /\ table[i] \notin ToSet(w.page.items)
  BY <1>1, <1>4, LastStatementPasses
<1>5. CASE list.search
  <2> DEFINE v == Searched(w, page)
  <2>1. walk' = [walk EXCEPT ![c] = v]
    BY <1>1, <1>5, ContinuesIs
  <2>2. q = "count" /\ w.offset = 0 /\ w.seen = <<>> /\ Len(w.page.items) <= w.limit
    BY <1>1, <1>2, <1>5 DEF WalkOk
  <2>3. /\ v \in Walk /\ v.page = NoPage /\ v.since = w.since /\ v.writes = w.writes
        /\ page.total <= Len(page.items) \/ w.again => v.at = "done" /\ v.seen = page.items
        /\ ~ (page.total <= Len(page.items) \/ w.again) =>
              /\ v.at = "read" /\ v.offset = 0 /\ v.limit = page.total
              /\ v.todo = {"count", "rows"} /\ v.again = TRUE
    <3>1. w \in Walk /\ page \in Page /\ ~list.cached
      BY <1>1, <1>2
    <3> QED BY <3>1, SearchedIs
  <2> HIDE DEF v
  <2>4. ASSUME NEW x \in Lost(v)
        PROVE  x \in Lost(w)
    <3>1. PICK i \in DOMAIN table : table[i] = x /\ Passed(v, i)
      BY <2>4 DEF Lost
    <3>2. CASE page.total <= Len(page.items) \/ w.again
      <4>1. x \in w.since /\ x \notin ToSet(page.items)
        BY <2>3, <2>4, <3>2 DEF Lost
      <4>2. page.total <= w.offset + w.limit \/ w.again
        <5>1. page.items = w.page.items /\ Len(w.page.items) \in Nat
          BY <1>1, <1>2, <2>2
        <5> QED BY <1>2, <1>3, <2>2, <3>2, <5>1
      <4>3. x \notin ToSet(w.seen)
        BY <2>2 DEF ToSet
      <4> QED BY <1>4, <3>1, <4>1, <4>2, <4>3 DEF Lost
    <3>3. CASE ~ (page.total <= Len(page.items) \/ w.again)
      <4>1. i <= 0 \/ i > 0 + Len(table)
        BY <1>1, <2>2, <2>3, <3>1, <3>3 DEF Passed
      <4> QED BY <1>2, <4>1
    <3> QED BY <3>2, <3>3
  <2>5. Cardinality(Lost(v)) <= v.writes
    BY <1>1, <2>3, <2>4, LosesNoMore
  <2> QED BY <1>1, <2>1, <2>3, <2>5, ClientKeepsLost
<1>6. CASE ~list.search
  <2> DEFINE v == Turned(w, page)
  <2>1. walk' = [walk EXCEPT ![c] = v]
    BY <1>1, <1>6, ContinuesIs
  <2>2. w.limit = PageSize /\ w.again = FALSE
    BY <1>1, <1>2, <1>6 DEF WalkOk
  <2>3. /\ v \in Walk /\ v.page = NoPage /\ v.since = w.since /\ v.writes = w.writes
        /\ v.again = w.again
        /\ v.seen = (IF w.writes < Many THEN w.seen \o page.items ELSE w.seen)
        /\ w.offset + w.limit < page.total =>
              v.at = "read" /\ v.offset = w.offset + w.limit /\ v.todo = {"count", "rows"}
    BY <1>1, <1>2, <2>2, TurnedIs
  <2> HIDE DEF v
  <2>4. ASSUME w.writes < Many, NEW x \in Lost(v)
        PROVE  x \in Lost(w)
    <3>1. PICK i \in DOMAIN table : table[i] = x /\ Passed(v, i)
      BY <2>4 DEF Lost
    <3>2. x \in w.since /\ x \notin ToSet(w.seen \o page.items)
      BY <2>3, <2>4 DEF Lost
    <3>3. x \notin ToSet(w.seen) /\ x \notin ToSet(page.items)
      BY <1>2, <1>3, <3>2, ConcatHas
    <3>4. i <= w.offset + w.limit \/ page.total <= w.offset + w.limit
      <4>1. CASE w.offset + w.limit < page.total
        <5>1. i <= w.offset + w.limit
          BY <2>2, <2>3, <3>1, <4>1 DEF Passed
        <5> QED BY <5>1
      <4>2. CASE ~ (w.offset + w.limit < page.total)
        BY <1>2, <1>3, <4>2
      <4> QED BY <4>1, <4>2
    <3> QED BY <1>4, <3>1, <3>2, <3>3, <3>4 DEF Lost
  <2>5. w.writes < Many \/ v.writes = Many
    <3>1. w.writes \in 0 .. Many /\ Many \in Nat
      BY <1>2, WalkFields, PagedBounds
    <3> QED BY <2>3, <3>1
  <2>6. Cardinality(Lost(v)) <= v.writes
    <3>1. v.writes = Many \/ Lost(v) \subseteq Lost(w)
      BY <2>4, <2>5
    <3> QED BY <1>1, <2>3, <3>1, LosesNoMore
  <2> QED BY <1>1, <2>1, <2>3, <2>6, ClientKeepsLost
<1> QED BY <1>2, <1>5, <1>6

\* A row that comes pushes at most one row out of the page that walk w reads.
LEMMA InsertLoses ==
    ASSUME PagedBase, NEW id \in Ids, Insert(id), NEW w, WalkOk(w), NEW x \in Lost(w)'
    PROVE  x \in Lost(w) \/ x = table[w.offset + w.limit]
<1>1. /\ table \in Seq(Ids) /\ DOMAIN table = 1 .. Len(table) /\ Len(table) \in Nat
      /\ w.since \cap unused = {} /\ w.offset \in Nat /\ w.limit \in Nat
  <2>1. table \in Seq(Ids) /\ w \in Walk /\ w.since \cap unused = {}
    BY RowsAreSeqs DEF PagedBase, PagedReadsTypeOK, WalkOk
  <2> QED BY <2>1, WalkFields
<1>2. PICK p \in 1 .. Len(table) + 1 : table' = InsertAt(table, p, id)
  BY DEF Insert
<1>3. /\ table' \in Seq(Ids) /\ Len(table') = Len(table) + 1
      /\ \A j \in 1 .. Len(table) + 1 :
            table'[j] = IF j < p THEN table[j] ELSE IF j = p THEN id ELSE table[j - 1]
  <2> DEFINE t == InsertAt(table, p, id)
  <2>1. /\ t \in Seq(Ids) /\ Len(t) = Len(table) + 1
        /\ \A j \in 1 .. Len(table) + 1 :
              t[j] = IF j < p THEN table[j] ELSE IF j = p THEN id ELSE table[j - 1]
    <3>1. IsInserted(t, table, p, id)
      BY <1>1, InsertedAt
    <3> QED BY <3>1 DEF IsInserted
  <2> HIDE DEF t
  <2> QED BY <1>2, <2>1 DEF t
<1>4. /\ x \in w.since /\ x \notin ToSet(w.seen) /\ x \notin ToSet(w.page.items)
      /\ \E j \in DOMAIN table' : table'[j] = x /\ Passed(w, j)
  BY DEF Lost
<1>5. PICK j \in 1 .. Len(table) + 1 : table'[j] = x /\ Passed(w, j)
  BY <1>3, <1>4
<1>6. x # id
  BY <1>1, <1>4 DEF Insert
<1>7. CASE j < p
  <2>1. j \in DOMAIN table /\ table[j] = x
    BY <1>1, <1>3, <1>5, <1>7
  <2> QED BY <1>4, <1>5, <2>1 DEF Lost
<1>8. CASE j > p
  <2>1. j - 1 \in DOMAIN table /\ table[j - 1] = x /\ j \in Nat
    BY <1>1, <1>3, <1>5, <1>8
  <2>2. Passed(w, j - 1) \/ j - 1 = w.offset + w.limit
    BY <1>1, <1>5, <2>1 DEF Passed
  <2> QED BY <1>4, <2>1, <2>2 DEF Lost
<1>9. j < p \/ j > p
  BY <1>1, <1>3, <1>5, <1>6
<1> QED BY <1>7, <1>8, <1>9

\* A row that leaves lets at most one row slip before what walk w has still to read.
LEMMA LeaveLoses ==
    ASSUME PagedBase, NEW id \in Ids, Leave(id), NEW w, WalkOk(w), NEW x \in Lost(w)'
    PROVE  x \in Lost(w) \/ x = table[(IF "rows" \in w.todo THEN w.offset ELSE w.offset + w.limit) + 1]
<1> DEFINE n == IF "rows" \in w.todo THEN w.offset ELSE w.offset + w.limit
<1>1. /\ table \in Seq(Ids) /\ DOMAIN table = 1 .. Len(table) /\ Len(table) \in Nat
      /\ w.offset \in Nat /\ w.limit \in Nat
  <2>1. table \in Seq(Ids) /\ w \in Walk
    BY RowsAreSeqs DEF PagedBase, PagedReadsTypeOK, WalkOk
  <2> QED BY <2>1, WalkFields
<1>2. PICK p \in 1 .. Len(table) : table' = RemoveAt(table, p)
  BY <1>1 DEF Leave
<1>3. /\ table' \in Seq(Ids) /\ Len(table') = Len(table) - 1
      /\ \A j \in 1 .. Len(table) - 1 : table'[j] = IF j < p THEN table[j] ELSE table[j + 1]
  <2>1. IsRemoved(RemoveAt(table, p), table, p)
    BY <1>1, RemovedAt
  <2>2. IsRemoved(table', table, p)
    BY <1>2, <2>1
  <2> QED BY <2>2 DEF IsRemoved
<1>4. /\ x \in w.since /\ x \notin ToSet(w.seen) /\ x \notin ToSet(w.page.items)
      /\ \E j \in DOMAIN table' : table'[j] = x /\ Passed(w, j)
  BY DEF Lost
<1>5. PICK j \in 1 .. Len(table) - 1 : table'[j] = x /\ Passed(w, j)
  BY <1>3, <1>4
<1>6. CASE j < p
  <2>1. j \in DOMAIN table /\ table[j] = x
    BY <1>1, <1>3, <1>5, <1>6
  <2> QED BY <1>4, <1>5, <2>1 DEF Lost
<1>7. CASE ~ (j < p)
  <2>1. j + 1 \in DOMAIN table /\ table[j + 1] = x /\ j \in Nat
    BY <1>1, <1>3, <1>5, <1>7
  <2>2. Passed(w, j + 1) \/ j = n
    BY <1>1, <1>5, <2>1 DEF Passed
  <2> QED BY <1>4, <2>1, <2>2 DEF Lost
<1> QED BY <1>6, <1>7

LEMMA WritesKeepLost ==
    ASSUME PagedBase, LostInv, NEW id \in Ids, Insert(id) \/ Move(id) \/ Leave(id)
    PROVE  LostInv'
<1>1. Disturbs /\ list' = list /\ list \in AllLists
  BY TableWrites DEF PagedBase, PagedReadsTypeOK
<1> SUFFICES ASSUME ~list.cached, NEW c \in Clients, NEW w, w = walk[c],
                    NEW v, v = walk'[c], v.at # "idle"
             PROVE  Cardinality(Lost(v)') <= v.writes
  <2>1. ASSUME NEW c \in Clients, ~list'.cached, walk'[c].at # "idle"
        PROVE  Cardinality(Lost(walk[c])') <= walk'[c].writes
    <3>1. PICK w, v : w = walk[c] /\ v = walk'[c]
      OBVIOUS
    <3>2. Cardinality(Lost(v)') <= v.writes
      BY <1>1, <2>1, <3>1
    <3>3. Lost(walk[c])' = Lost(v)'
      BY <3>1 DEF Lost
    <3> QED BY <3>1, <3>2, <3>3
  <2> QED BY <2>1 DEF LostInv
<1>2. Insert(id) \/ Leave(id)
  BY <1>1, ListKinds DEF Move
<1>3. WalkOk(w) /\ w \in Walk /\ v \in Walk
  BY <1>1, BaseFacts, DisturbedIs
<1>4. /\ v.at = w.at /\ v.todo = w.todo /\ v.page = w.page /\ v.limit = w.limit
      /\ v.since = w.since /\ v.offset = w.offset /\ v.again = w.again /\ v.seen = w.seen
      /\ v.writes = (IF w.writes < Many THEN w.writes + 1 ELSE Many) /\ w.at # "idle"
  <2>1. walk[c].at # "idle"
    BY <1>1, DisturbedIs
  <2>2. v = [w EXCEPT !.writes = IF @ < Many THEN @ + 1 ELSE Many]
    BY <1>1, <2>1, DisturbedIs
  <2> QED BY <1>3, <2>1, <2>2 DEF Walk
<1>5. Lost(v)' = Lost(w)'
  BY <1>4 DEF Lost, Passed
<1>6. \E e : Lost(v)' \subseteq Lost(w) \cup {e}
  <2>1. CASE Insert(id)
    <3>1. Lost(w)' \subseteq Lost(w) \cup {table[w.offset + w.limit]}
      BY <1>3, <2>1, InsertLoses
    <3> QED BY <1>5, <3>1
  <2>2. CASE Leave(id)
    <3>1. Lost(w)' \subseteq Lost(w) \cup {table[(IF "rows" \in w.todo THEN w.offset ELSE w.offset + w.limit) + 1]}
      BY <1>3, <2>2, LeaveLoses
    <3> QED BY <1>5, <3>1
  <2> QED BY <1>2, <2>1, <2>2
<1>7. PICK e : Lost(v)' \subseteq Lost(w) \cup {e}
  BY <1>6
<1>8. IsFiniteSet(Lost(w)) /\ Cardinality(Lost(w)) \in Nat
  BY <1>3, LostIsFinite
<1>9. Cardinality(Lost(w)) <= w.writes /\ w.writes \in Nat /\ Many \in Nat
  BY <1>3, <1>4, WalkFields, PagedBounds DEF LostInv
<1>10. Cardinality(Lost(v)') \in Nat /\ Cardinality(Lost(v)') <= Cardinality(Lost(w)) + 1
  <2>1. /\ IsFiniteSet(Lost(w) \cup {e})
        /\ Cardinality(Lost(w) \cup {e}) = IF e \in Lost(w) THEN Cardinality(Lost(w)) ELSE Cardinality(Lost(w)) + 1
    BY <1>8, FS_AddElement
  <2>2. IsFiniteSet(Lost(v)') /\ Cardinality(Lost(v)') <= Cardinality(Lost(w) \cup {e})
    BY <1>7, <2>1, FS_Subset
  <2>3. Cardinality(Lost(v)') \in Nat
    BY <2>2, FS_CardinalityType
  <2> QED BY <1>8, <2>1, <2>2, <2>3
<1>11. Cardinality(Lost(v)') <= Many
  <2>1. Lost(v)' \in SUBSET Ids
    BY <1>3, WalkFields DEF Lost
  <2> QED BY <2>1, FS_Subset, PagedReadsAssumption DEF Many
<1> QED BY <1>4, <1>8, <1>9, <1>10, <1>11

LEMMA LostInvNext == PagedBase /\ LostInv /\ [PagedReadsNext]_pagedReadsVars => LostInv'
<1> SUFFICES ASSUME PagedBase, LostInv, [PagedReadsNext]_pagedReadsVars, ~list'.cached
             PROVE  LostInv'
  BY DEF LostInv
<1>1. ASSUME NEW id \in Ids, Insert(id) \/ Move(id) \/ Leave(id)
      PROVE  LostInv'
  BY <1>1, WritesKeepLost
<1>2. CASE EvictFirstPage
  BY <1>2 DEF EvictFirstPage, LostInv, Lost
<1>3. ASSUME NEW c \in Clients, ClientStep(c)
      PROVE  LostInv'
  <2> DEFINE w == walk[c]
  <2>1. ~list.cached /\ WalkOk(w) /\ w \in Walk
    <3>1. list' = list
      BY <1>3 DEF ClientStep, BeginWalk, LookUp, StorePage, WalkEnds, Statement
    <3> QED BY <3>1, BaseFacts
  <2>2. CASE BeginWalk(c)
    <3>1. PICK v \in Walk :
             /\ walk' = [walk EXCEPT ![c] = v]
             /\ UNCHANGED <<list, table, unused, pages, quiet>>
             /\ v.at = "read" /\ v.offset = 0 /\ v.todo = {"count", "rows"} /\ v.again = FALSE
      BY <2>1, <2>2, BeginIs
    <3>2. Lost(v) = {}
      <4>1. DOMAIN table = 1 .. Len(table) /\ Len(table) \in Nat
        BY BaseFacts
      <4>2. \A i \in DOMAIN table : ~Passed(v, i)
        BY <3>1, <4>1 DEF Passed
      <4> QED BY <4>2 DEF Lost
    <3>3. Cardinality(Lost(v)) <= v.writes
      <4>1. v.writes \in Nat
        BY WalkFields
      <4> QED BY <3>2, <4>1, FS_EmptySet
    <3> QED BY <2>1, <3>1, <3>3, ClientKeepsLost
  <2>3. ~LookUp(c) /\ ~StorePage(c)
    BY <2>1 DEF LookUp, StorePage, WalkOk
  <2>4. CASE WalkEnds(c)
    <3>1. walk' = [walk EXCEPT ![c] = NoWalk] /\ UNCHANGED <<list, table, unused, pages, quiet>>
      BY <2>4 DEF WalkEnds
    <3>2. NoWalk \in Walk /\ NoWalk.at = "idle"
      BY PagedBounds DEF NoWalk
    <3> QED BY <2>1, <3>1, <3>2, ClientKeepsLost
  <2>5. ASSUME NEW q \in {"count", "rows"}, Statement(c, q)
        PROVE  LostInv'
    BY <2>1, <2>5, FirstStatementLoses, LastStatementLoses
  <2> QED BY <1>3, <2>2, <2>3, <2>4, <2>5 DEF ClientStep
<1>4. ~PagesAge
  BY DEF PagesAge
<1>5. CASE UNCHANGED pagedReadsVars
  BY <1>5 DEF pagedReadsVars, LostInv, Lost
<1> QED BY <1>1, <1>2, <1>3, <1>4, <1>5 DEF PagedReadsNext

PagedInv == PagedBase /\ CachedListInv /\ LostInv

\* The strengthening holds throughout.
THEOREM PagedInvariant == PagedReadsSpec => []PagedInv
<1>1. PagedReadsInit => PagedInv
  <2> SUFFICES ASSUME PagedReadsInit
               PROVE  LostInv
    BY PagedBaseInit, CachedListInvInit DEF PagedInv
  <2>1. \A c \in Clients : walk[c].at = "idle"
    BY DEF PagedReadsInit, NoWalk
  <2> QED BY <2>1 DEF LostInv
<1>2. PagedInv /\ [PagedReadsNext]_pagedReadsVars => PagedInv'
  BY PagedBaseNext, CachedListNext, LostInvNext DEF PagedInv
<1> QED BY <1>1, <1>2, PTL DEF PagedReadsSpec

\* Every list, page and walk has its type at all times, for any number of rows and clients.
THEOREM PagedTypeCorrect == PagedReadsSpec => []PagedReadsTypeOK
<1>1. PagedInv => PagedReadsTypeOK
  BY DEF PagedInv, PagedBase
<1> QED BY <1>1, PagedInvariant, PTL

\* A walk over the pages of a list, or a search, misses a row only because of a write, for
\* any lists of the services, any rows, clients, size and time to live of a page.
THEOREM MissesCorrect == PagedReadsSpec => []MissesAreExplained
<1>1. PagedInv => MissesAreExplained
  <2> SUFFICES ASSUME PagedInv, NEW c \in Clients, walk[c].at = "done"
               PROVE  IF list.cached THEN walk[c].writes = 0 => walk[c].seen = table
                      ELSE Cardinality((walk[c].since \cap ToSet(table)) \ ToSet(walk[c].seen))
                               <= walk[c].writes
    BY DEF MissesAreExplained
  <2> DEFINE w == walk[c]
             missed == (w.since \cap ToSet(table)) \ ToSet(w.seen)
  <2>1. CASE list.cached
    BY <2>1 DEF PagedInv, CachedListInv, SeenRows
  <2>2. CASE ~list.cached
    <3>1. PagedBase /\ w \in Walk /\ WalkOk(w)
      BY BaseFacts DEF PagedInv
    <3>2. w.page.items = <<>>
      BY <3>1, PagedBounds DEF WalkOk
    <3>3. missed \subseteq Lost(w)
      BY <3>2 DEF Lost, Passed, ToSet
    <3>4. IsFiniteSet(Lost(w)) /\ Cardinality(Lost(w)) \in Nat /\ Cardinality(Lost(w)) <= w.writes
      BY <2>2, <3>1, LostIsFinite DEF PagedInv, LostInv
    <3>5. IsFiniteSet(missed) /\ Cardinality(missed) <= Cardinality(Lost(w))
      BY <3>3, <3>4, FS_Subset
    <3>6. Cardinality(missed) \in Nat /\ w.writes \in Nat
      BY <3>1, <3>5, FS_CardinalityType, WalkFields
    <3> QED BY <2>2, <3>4, <3>5, <3>6
  <2> QED BY <2>1, <2>2
<1> QED BY <1>1, PagedInvariant, PTL

-----------------------------------------------------------------------------
(* CatalogPrices: the ages of prices *)

USE ConstantsAssumption

(* Version v of x is in force, or was until slack before t.                *)
Held(x, v, t, slack) == v = current[x] \/ t <= ended[x][v] + slack

Priced == {"getPrice", "selectRules", "unitRate", "totalRate", "setPrice"}

Ruled == {"unitRate", "totalRate", "setPrice"}

Slack == Ttl + MaxRequest

(* What a handler holds is as old as its request, a row from the cache one *)
(* time to live and one request older.                                     *)
ReadOk(r) ==
    LET q == read[r].got
        since == read[r].since
    IN  read[r].at # "idle" =>
          /\ since <= now /\ now <= since + MaxRequest
          /\ read[r].at \in Priced => read[r].key \in Keys
          /\ read[r].at = "setProduct" => read[r].key \in AllKeys /\ Held("base", q.base, since, 0)
          /\ read[r].at \in Priced => Held("base", q.base, since, Slack)
          /\ read[r].at \in Ruled => Held("rules", q.rules, since, 0)
          /\ read[r].at \in Ruled \/ q.lost = {}
          /\ q.lost # {} => since < PaymentsBack

(* An entry says by its end how old its value may be.                      *)
EntryOk(k) ==
    LET q == cache[k].value
        until == cache[k].until
    IN  cache[k] # None =>
          /\ now <= until /\ until <= now + Ttl
          /\ k = Product => q.lost = {} /\ Held("base", q.base, until, Slack)
          /\ k \in Keys =>
                /\ Held("base", q.base, until, 2 * Slack)
                /\ Held("rules", q.rules, until, Slack)
                /\ q.lost # {} => until < PaymentsBack + Slack

(* After its write, what a writer may leave behind it still has to delete. *)
EvictOk(w) ==
    kind[w] # "createRule" =>
        /\ write[w] = "after" => left[w] \cap Affected(kind[w]) \subseteq todo[w]
        /\ write[w] = "answered" => left[w] \cap Affected(kind[w]) = {}

AgeInv == (\A r \in Requests : ReadOk(r)) /\ (\A k \in AllKeys : EntryOk(k))

EvictInv == \A w \in Writers : EvictOk(w)

IInv == TypeOK /\ AgeInv /\ EvictInv

USE DEF ReadStages, WriteKinds, WriteStages, Sources, AllKeys

LEMMA InitInv == Init => IInv
BY DEF Init, IInv, TypeOK, AgeInv, EvictInv, ReadOk, EntryOk, EvictOk, Idle, Blank,
       Quote, Request, Versions

-----------------------------------------------------------------------------
(* The helpers *)

LEMMA GoesType ==
    ASSUME TypeOK, NEW r \in Requests, NEW at \in ReadStages, Goes(r, at)
    PROVE  /\ read' \in [Requests -> Request]
           /\ \A x \in Requests : x # r => read'[x] = read[x]
           /\ read'[r].at = at
           /\ at # "idle" =>
                /\ read'[r].got = read[r].got
                /\ read'[r].key = read[r].key /\ read'[r].since = read[r].since
<1>1. Idle \in Request
  BY DEF Idle, Blank, Request, Quote, Versions
<1>2. read \in [Requests -> Request]
  BY DEF TypeOK
<1>3. CASE at = "idle"
  BY <1>1, <1>2, <1>3 DEF Goes, Idle
<1>4. CASE at # "idle"
  <2>1. read' = [read EXCEPT ![r].at = at]
    BY <1>4 DEF Goes
  <2> QED BY <1>2, <1>4, <2>1 DEF Request
<1> QED BY <1>3, <1>4

LEMMA LearnsType ==
    ASSUME TypeOK, NEW r \in Requests, NEW at \in ReadStages, NEW q \in Quote,
           Learns(r, at, q)
    PROVE  /\ read' \in [Requests -> Request]
           /\ \A x \in Requests : x # r => read'[x] = read[x]
           /\ read'[r].at = at /\ read'[r].got = q
           /\ read'[r].key = read[r].key /\ read'[r].since = read[r].since
<1>1. read \in [Requests -> Request]
  BY DEF TypeOK
<1>2. read[r] \in Request
  BY <1>1
<1>3. read' = [read EXCEPT ![r] = [[read[r] EXCEPT !.at = at] EXCEPT !.got = q]]
  BY <1>1 DEF Learns
<1> QED BY <1>1, <1>2, <1>3 DEF Request

LEMMA StoreType ==
    ASSUME TypeOK, NEW k \in AllKeys, NEW q \in Quote, Store(k, q)
    PROVE  /\ cache' \in [AllKeys -> {None} \cup Entry]
           /\ left' \in [Writers -> SUBSET AllKeys]
           /\ cache'[k].value = q /\ cache'[k].until = now + Ttl
           /\ \A x \in AllKeys : x # k => cache'[x] = cache[x]
           /\ \A w \in Writers : left'[w] \subseteq left[w]
BY DEF TypeOK, Store, Entry

LEMMA DeleteType ==
    ASSUME TypeOK, NEW ks \in SUBSET AllKeys, Delete(ks)
    PROVE  /\ cache' \in [AllKeys -> {None} \cup Entry]
           /\ left' \in [Writers -> SUBSET AllKeys]
           /\ \A x \in AllKeys : cache'[x] = None \/ cache'[x] = cache[x]
           /\ \A x \in ks : cache'[x] = None
           /\ \A w \in Writers : left'[w] = left[w] \ ks
BY DEF TypeOK, Delete

(* What was in force at a past time stays so when something is replaced.   *)
LEMMA ReplaceHeld ==
    ASSUME TypeOK, NEW y \in Sources, Replace(y),
           NEW x \in Sources, NEW v \in Versions, NEW t \in Nat, NEW slack \in Nat,
           t <= now + slack, Held(x, v, t, slack)
    PROVE  Held(x, v, t, slack)'
BY DEF TypeOK, Replace, Held, Versions

LEMMA ReplaceType ==
    ASSUME TypeOK, NEW y \in Sources, Replace(y)
    PROVE  /\ current' \in [Sources -> Versions]
           /\ ended' \in [Sources -> [Versions -> Nat]]
<1>1. current[y] \in Versions /\ current[y] + 1 \in Versions
  <2>1. current[y] \in Versions
    BY DEF TypeOK
  <2>2. current[y] < MaxVersion
    BY DEF Replace
  <2>3. MaxVersion \in Nat
    BY ConstantsAssumption
  <2> QED BY <2>1, <2>2, <2>3 DEF Versions
<1>2. [ended[y] EXCEPT ![current[y]] = now] \in [Versions -> Nat]
  BY <1>1 DEF TypeOK
<1> QED BY <1>1, <1>2 DEF TypeOK, Replace

(* Evictions that are under way survive when other keys are touched.       *)
LEMMA EvictKept ==
    ASSUME EvictInv, UNCHANGED writeVars,
           \A w \in Writers : left'[w] \subseteq left[w]
    PROVE  EvictInv'
BY DEF EvictInv, EvictOk, writeVars

(* Replacing a version leaves everything as old as it was.                 *)
LEMMA ReplaceAge ==
    ASSUME TypeOK, AgeInv, NEW y \in Sources, Replace(y), UNCHANGED <<now, cache, read>>
    PROVE  AgeInv'
<1>1. ASSUME NEW r \in Requests PROVE ReadOk(r)'
  <2>1. read[r] \in Request /\ now \in Nat /\ Slack \in Nat
    BY DEF TypeOK, Slack
  <2>2. /\ read[r].since \in Nat
        /\ read[r].got.base \in Versions /\ read[r].got.rules \in Versions
    BY <2>1 DEF Request, Quote
  <2>3. ReadOk(r)
    BY DEF AgeInv
  <2>4. ASSUME NEW x \in Sources, NEW v \in Versions, NEW slack \in Nat,
               read[r].at # "idle", Held(x, v, read[r].since, slack)
        PROVE  Held(x, v, read[r].since, slack)'
    <3>1. read[r].since <= now + slack
      BY <2>1, <2>2, <2>3, <2>4 DEF ReadOk
    <3>2. Held(x, v, read[r].since, slack)
      BY <2>4
    <3>3. (now' = now) /\ (read' = read)
      OBVIOUS
    <3>4. \/ v = current'[x]
          \/ read[r].since <= ended'[x][v] + slack
      BY <2>2, <3>1, <3>2, ReplaceHeld DEF Held
    <3> QED BY <3>3, <3>4 DEF Held
  <2> QED BY <2>1, <2>2, <2>3, <2>4 DEF ReadOk, Priced, Ruled
<1>2. ASSUME NEW k \in AllKeys PROVE EntryOk(k)'
  <2>1. CASE cache[k] = None
    BY <2>1 DEF EntryOk
  <2>2. CASE cache[k] # None
    <3>1. cache[k] \in Entry /\ now \in Nat /\ Slack \in Nat /\ 2 * Slack \in Nat /\ Ttl <= Slack
      BY <2>2 DEF TypeOK, Slack
    <3>2. /\ cache[k].until \in Nat
          /\ cache[k].value.base \in Versions /\ cache[k].value.rules \in Versions
      BY <3>1 DEF Entry, Quote
    <3>3. EntryOk(k)
      BY DEF AgeInv
    <3>4. ASSUME NEW x \in Sources, NEW v \in Versions, NEW slack \in Nat, Ttl <= slack,
                 Held(x, v, cache[k].until, slack)
          PROVE  \/ v = current'[x]
                 \/ cache[k].until <= ended'[x][v] + slack
      <4>1. cache[k].until <= now + slack
        BY <2>2, <3>1, <3>2, <3>3, <3>4 DEF EntryOk
      <4> QED BY <3>2, <3>4, <4>1, ReplaceHeld DEF Held
    <3>5. Ttl <= 2 * Slack
      BY DEF Slack
    <3> QED BY <2>2, <3>1, <3>2, <3>3, <3>4, <3>5 DEF EntryOk, Held
  <2> QED BY <2>1, <2>2
<1> QED BY <1>1, <1>2 DEF AgeInv

(* A step of one handler that leaves clock and database alone touches what *)
(* the others hold no more than what it leaves in the cache.               *)
LEMMA OthersRead ==
    ASSUME AgeInv, UNCHANGED <<now, dbVars>>, NEW r \in Requests, ReadOk(r)',
           \A x \in Requests : x # r => read'[x] = read[x]
    PROVE  \A x \in Requests : ReadOk(x)'
<1> SUFFICES ASSUME NEW x \in Requests, x # r PROVE ReadOk(x)'
  OBVIOUS
<1>1. ReadOk(x) /\ read'[x] = read[x]
  BY DEF AgeInv
<1> QED BY <1>1 DEF ReadOk, Held, dbVars

LEMMA OtherEntries ==
    ASSUME AgeInv, UNCHANGED <<now, dbVars>>, NEW ks \in SUBSET AllKeys,
           \A k \in ks : EntryOk(k)',
           \A k \in AllKeys \ ks : cache'[k] = None \/ cache'[k] = cache[k]
    PROVE  \A k \in AllKeys : EntryOk(k)'
<1> SUFFICES ASSUME NEW k \in AllKeys \ ks PROVE EntryOk(k)'
  OBVIOUS
<1>1. EntryOk(k) /\ (cache'[k] = None \/ cache'[k] = cache[k])
  BY DEF AgeInv
<1> QED BY <1>1 DEF EntryOk, Held, dbVars

(* What a handler holds, from the types.                                   *)
LEMMA Holds ==
    ASSUME TypeOK, NEW r \in Requests
    PROVE  /\ read[r] \in Request /\ read[r].got \in Quote
           /\ read[r].key \in AllKeys /\ read[r].since \in Nat
           /\ read[r].got.base \in Versions /\ read[r].got.rules \in Versions
           /\ now \in Nat /\ Slack \in Nat
BY DEF TypeOK, Request, Quote, Slack

-----------------------------------------------------------------------------
(* Reads *)

(* A step that only changes what handler r holds keeps the invariant if it *)
(* keeps the part about r.                                                 *)
LEMMA ReadStepInv ==
    ASSUME IInv, NEW r \in Requests, UNCHANGED <<now, dbVars, cache, writeVars, left>>,
           read' \in [Requests -> Request],
           \A x \in Requests : x # r => read'[x] = read[x],
           ReadOk(r)'
    PROVE  IInv'
<1>1. TypeOK'
  BY DEF IInv, TypeOK, dbVars, writeVars
<1>2. \A x \in AllKeys : EntryOk(x)'
  <2>1. \A x \in AllKeys \ {} : cache'[x] = None \/ cache'[x] = cache[x]
    OBVIOUS
  <2>2. {} \in SUBSET AllKeys /\ \A x \in {} : EntryOk(x)'
    OBVIOUS
  <2> QED BY <2>1, <2>2, OtherEntries DEF IInv
<1>3. \A x \in Requests : ReadOk(x)'
  BY OthersRead DEF IInv
<1>4. EvictInv'
  <2>1. \A w \in Writers : left'[w] \subseteq left[w]
    OBVIOUS
  <2> QED BY <2>1, EvictKept DEF IInv
<1> QED BY <1>1, <1>2, <1>3, <1>4 DEF IInv, AgeInv

LEMMA GetProductStep ==
    ASSUME IInv, NEW r \in Requests, NEW k \in AllKeys, GetProduct(r, k)
    PROVE  IInv'
<1>1. TypeOK /\ AgeInv /\ EvictInv /\ UNCHANGED <<now, dbVars, cache, writeVars, left>>
  BY DEF IInv, GetProduct
<1>2. Blank \in Quote
  BY DEF Blank, Quote, Versions
<1>3. cache[Product] # None => cache[Product].value \in Quote /\ cache[Product].until \in Nat
  BY <1>1 DEF TypeOK, Entry
<1>4. now \in Nat /\ Slack \in Nat
  BY <1>1 DEF TypeOK, Slack
<1>5. DEFINE miss == [at |-> "selectProduct", key |-> k, since |-> now, got |-> Blank]
             hit == [at |-> "getPrice", key |-> k, since |-> now, got |-> cache[Product].value]
<1>6. read' = [read EXCEPT ![r] = IF cache[Product] = None THEN miss ELSE hit]
  BY DEF GetProduct
<1>7. /\ cache[Product] = None => read'[r] = miss
      /\ cache[Product] # None => read'[r] = hit /\ k \in Keys
      /\ \A x \in Requests : x # r => read'[x] = read[x]
  BY <1>1, <1>6 DEF TypeOK, GetProduct
<1>8. read' \in [Requests -> Request]
  <2>1. miss \in Request
    BY <1>2, <1>4 DEF Request
  <2>2. cache[Product] # None => hit \in Request
    BY <1>3, <1>4 DEF Request
  <2> QED BY <1>1, <1>6, <2>1, <2>2 DEF TypeOK
<1>9. ReadOk(r)'
  <2>1. CASE cache[Product] = None
    <3>1. read'[r].at = "selectProduct" /\ read'[r].since = now /\ read'[r].got.lost = {}
      BY <1>7, <2>1 DEF Blank
    <3> QED BY <1>1, <1>4, <3>1 DEF ReadOk, Priced, Ruled
  <2>2. CASE cache[Product] # None
    <3>1. /\ read'[r].at = "getPrice" /\ read'[r].since = now /\ read'[r].key \in Keys
          /\ read'[r].got = cache[Product].value
      BY <1>7, <2>2
    <3>2. EntryOk(Product)
      BY <1>1 DEF AgeInv
    <3>3. /\ now <= cache[Product].until /\ cache[Product].value.lost = {}
          /\ Held("base", cache[Product].value.base, cache[Product].until, Slack)
      BY <2>2, <3>2 DEF EntryOk
    <3>4. cache[Product].value.base \in Versions
      BY <1>3, <2>2 DEF Quote
    <3>5. Held("base", cache[Product].value.base, now, Slack)
      <4>1. ended["base"][cache[Product].value.base] \in Nat
        BY <1>1, <3>4 DEF TypeOK
      <4> QED BY <1>3, <1>4, <2>2, <3>3, <4>1 DEF Held
    <3>6. (UNCHANGED <<current, ended, now>>)
      BY <1>1 DEF dbVars
    <3> QED BY <1>4, <3>1, <3>3, <3>5, <3>6 DEF ReadOk, Priced, Ruled, Held
  <2> QED BY <2>1, <2>2
<1> QED BY <1>1, <1>7, <1>8, <1>9, ReadStepInv

LEMMA SelectProductStep ==
    ASSUME IInv, NEW r \in Requests, SelectProduct(r)
    PROVE  IInv'
<1> DEFINE q == [Blank EXCEPT !.base = current["base"]]
<1>1. TypeOK /\ ReadOk(r) /\ UNCHANGED <<now, dbVars, cache, writeVars, left>>
  BY DEF IInv, AgeInv, SelectProduct
<1>2. read[r].at = "selectProduct" /\ Learns(r, "setProduct", q)
  BY DEF SelectProduct
<1>3. q \in Quote /\ q.base = current["base"] /\ q.lost = {}
  BY <1>1, ConstantsAssumption DEF Blank, Quote, TypeOK, Versions
<1> HIDE DEF q
<1>4. /\ read' \in [Requests -> Request]
      /\ \A x \in Requests : x # r => read'[x] = read[x]
      /\ read'[r].at = "setProduct" /\ read'[r].got = q
      /\ read'[r].key = read[r].key /\ read'[r].since = read[r].since
  BY <1>1, <1>2, <1>3, LearnsType
<1>5. ReadOk(r)'
  BY <1>1, <1>2, <1>3, <1>4, Holds DEF ReadOk, Priced, Ruled, Held, dbVars
<1> QED BY <1>1, <1>4, <1>5, ReadStepInv

LEMMA GetPriceStep ==
    ASSUME IInv, NEW r \in Requests, GetPrice(r)
    PROVE  IInv'
<1> DEFINE at == IF cache[read[r].key] = None THEN "selectRules" ELSE "idle"
<1>1. TypeOK /\ ReadOk(r) /\ UNCHANGED <<now, dbVars, cache, writeVars, left>>
  BY DEF IInv, AgeInv, GetPrice
<1>2. read[r].at = "getPrice" /\ Goes(r, at) /\ at \in ReadStages
  BY DEF GetPrice
<1>3. at \in {"selectRules", "idle"}
  OBVIOUS
<1> HIDE DEF at
<1>4. /\ read' \in [Requests -> Request]
      /\ \A x \in Requests : x # r => read'[x] = read[x]
      /\ read'[r].at = at
      /\ at # "idle" =>
           /\ read'[r].got = read[r].got
           /\ read'[r].key = read[r].key /\ read'[r].since = read[r].since
  BY <1>1, <1>2, GoesType
<1>5. ReadOk(r)'
  BY <1>1, <1>2, <1>3, <1>4 DEF ReadOk, Priced, Ruled, Held, dbVars
<1> QED BY <1>1, <1>4, <1>5, ReadStepInv

LEMMA SelectRulesStep ==
    ASSUME IInv, NEW r \in Requests, SelectRules(r)
    PROVE  IInv'
<1> DEFINE q == [read[r].got EXCEPT !.rules = current["rules"]]
<1>1. TypeOK /\ ReadOk(r) /\ UNCHANGED <<now, dbVars, cache, writeVars, left>>
  BY DEF IInv, AgeInv, SelectRules
<1>2. PICK at \in {"unitRate", "setPrice"} : Learns(r, at, q)
  BY DEF SelectRules
<1>3. read[r].at = "selectRules" /\ at \in ReadStages
  BY DEF SelectRules
<1>4. /\ q \in Quote /\ q.rules = current["rules"]
      /\ q.base = read[r].got.base /\ q.lost = read[r].got.lost
  BY <1>1, Holds DEF Quote, TypeOK
<1> HIDE DEF q
<1>5. /\ read' \in [Requests -> Request]
      /\ \A x \in Requests : x # r => read'[x] = read[x]
      /\ read'[r].at = at /\ read'[r].got = q
      /\ read'[r].key = read[r].key /\ read'[r].since = read[r].since
  BY <1>1, <1>2, <1>3, <1>4, LearnsType
<1>6. ReadOk(r)'
  BY <1>1, <1>3, <1>4, <1>5 DEF ReadOk, Priced, Ruled, Held, dbVars
<1> QED BY <1>1, <1>5, <1>6, ReadStepInv

LEMMA AskRateStep ==
    ASSUME IInv, NEW r \in Requests, NEW part \in {"unit", "total"},
           NEW at \in {"totalRate", "setPrice"}, read[r].at \in {"unitRate", "totalRate"},
           AskRate(r, part, at)
    PROVE  IInv'
<1> DEFINE q == [read[r].got EXCEPT !.lost = @ \cup {part}]
<1>1. TypeOK /\ ReadOk(r) /\ UNCHANGED <<now, dbVars, cache, writeVars, left>>
  BY DEF IInv, AgeInv, AskRate
<1>2. /\ q \in Quote /\ q.rules = read[r].got.rules /\ q.base = read[r].got.base
  BY <1>1, Holds DEF Quote
<1>3. CASE Goes(r, at)
  <2>1. /\ read' \in [Requests -> Request]
        /\ \A x \in Requests : x # r => read'[x] = read[x]
        /\ read'[r].at = at /\ read'[r].got = read[r].got
        /\ read'[r].key = read[r].key /\ read'[r].since = read[r].since
    BY <1>1, <1>3, GoesType
  <2>2. ReadOk(r)'
    BY <1>1, <2>1 DEF ReadOk, Priced, Ruled, Held, dbVars
  <2> QED BY <1>1, <2>1, <2>2, ReadStepInv
<1>4. CASE now < PaymentsBack /\ Learns(r, at, q)
  <2> HIDE DEF q
  <2>1. /\ read' \in [Requests -> Request]
        /\ \A x \in Requests : x # r => read'[x] = read[x]
        /\ read'[r].at = at /\ read'[r].got = q
        /\ read'[r].key = read[r].key /\ read'[r].since = read[r].since
    BY <1>1, <1>2, <1>4, LearnsType
  <2>2. read[r].since <= now /\ read[r].since < PaymentsBack
    BY <1>1, <1>4, Holds, ConstantsAssumption DEF ReadOk
  <2>3. ReadOk(r)'
    BY <1>1, <1>2, <2>1, <2>2 DEF ReadOk, Priced, Ruled, Held, dbVars
  <2> QED BY <1>1, <2>1, <2>3, ReadStepInv
<1> QED BY <1>3, <1>4 DEF AskRate

LEMMA ReadFailsStep ==
    ASSUME IInv, NEW r \in Requests, ReadFails(r)
    PROVE  IInv'
<1>1. TypeOK /\ UNCHANGED <<now, dbVars, cache, writeVars, left>> /\ Goes(r, "idle")
  BY DEF IInv, ReadFails
<1>2. /\ read' \in [Requests -> Request]
      /\ \A x \in Requests : x # r => read'[x] = read[x]
      /\ read'[r].at = "idle"
  BY <1>1, GoesType
<1>3. ReadOk(r)'
  BY <1>2 DEF ReadOk
<1> QED BY <1>1, <1>2, <1>3, ReadStepInv

(* A handler stores what it holds and goes on.                             *)
LEMMA StoreInv ==
    ASSUME IInv, NEW r \in Requests, NEW k \in AllKeys, NEW at \in ReadStages,
           Store(k, read[r].got), Goes(r, at), UNCHANGED <<now, dbVars, writeVars>>,
           EntryOk(k)', ReadOk(r)'
    PROVE  IInv'
<1>1. TypeOK /\ AgeInv /\ EvictInv /\ read[r].got \in Quote
  BY Holds DEF IInv
<1>2. /\ read' \in [Requests -> Request]
      /\ \A x \in Requests : x # r => read'[x] = read[x]
  BY <1>1, GoesType
<1>3. /\ cache' \in [AllKeys -> {None} \cup Entry]
      /\ left' \in [Writers -> SUBSET AllKeys]
      /\ \A x \in AllKeys : x # k => cache'[x] = cache[x]
      /\ \A w \in Writers : left'[w] \subseteq left[w]
  BY <1>1, StoreType
<1>4. TypeOK'
  BY <1>1, <1>2, <1>3 DEF TypeOK, dbVars, writeVars
<1>5. \A x \in AllKeys : EntryOk(x)'
  <2>1. {k} \in SUBSET AllKeys /\ \A x \in {k} : EntryOk(x)'
    OBVIOUS
  <2>2. \A x \in AllKeys \ {k} : cache'[x] = None \/ cache'[x] = cache[x]
    BY <1>3
  <2> QED BY <1>1, <2>1, <2>2, OtherEntries
<1>6. \A x \in Requests : ReadOk(x)'
  BY <1>1, <1>2, OthersRead
<1>7. EvictInv'
  BY <1>1, <1>3, EvictKept
<1> QED BY <1>4, <1>5, <1>6, <1>7 DEF IInv, AgeInv

LEMMA SetProductStep ==
    ASSUME IInv, NEW r \in Requests, SetProduct(r)
    PROVE  IInv'
<1> DEFINE at == IF read[r].key = Product THEN "idle" ELSE "getPrice"
           q == read[r].got
<1>1. TypeOK /\ ReadOk(r) /\ UNCHANGED <<now, dbVars, writeVars>>
  BY DEF IInv, AgeInv, SetProduct
<1>2. /\ read[r].at = "setProduct" /\ Store(Product, q) /\ Goes(r, at)
      /\ at \in ReadStages /\ Product \in AllKeys
  BY DEF SetProduct
<1>3. /\ q.lost = {} /\ read[r].key \in AllKeys /\ Held("base", q.base, read[r].since, 0)
      /\ read[r].since <= now /\ now <= read[r].since + MaxRequest
  BY <1>1, <1>2 DEF ReadOk, Ruled
<1>4. /\ read[r].since \in Nat /\ now \in Nat /\ q \in Quote
      /\ ended["base"][q.base] \in Nat
  BY <1>1, Holds DEF TypeOK
<1>5. EntryOk(Product)'
  <2>1. cache'[Product].value = q /\ cache'[Product].until = now + Ttl
    BY <1>1, <1>2, <1>4, StoreType
  <2>2. UNCHANGED <<current, ended, now>>
    BY <1>1 DEF dbVars
  <2>3. q.base = current["base"] \/ now + Ttl <= ended["base"][q.base] + Slack
    BY <1>3, <1>4, ConstantsAssumption DEF Held, Slack
  <2>4. Product \notin Keys /\ Ttl \in Nat
    BY ConstantsAssumption
  <2> QED BY <1>3, <1>4, <2>1, <2>2, <2>3, <2>4 DEF EntryOk, Held
<1>6. ReadOk(r)'
  <2>1. /\ read'[r].at = at
        /\ at # "idle" =>
             /\ read'[r].got = q
             /\ read'[r].key = read[r].key /\ read'[r].since = read[r].since
    BY <1>1, <1>2, GoesType
  <2>2. UNCHANGED <<current, ended, now>>
    BY <1>1 DEF dbVars
  <2>3. Held("base", q.base, read[r].since, Slack)
    BY <1>3, <1>4, ConstantsAssumption DEF Held, Slack
  <2> QED BY <1>3, <2>1, <2>2, <2>3 DEF ReadOk, Priced, Ruled, Held
<1> QED BY <1>1, <1>2, <1>5, <1>6, StoreInv

LEMMA SetPriceStep ==
    ASSUME IInv, NEW r \in Requests, SetPrice(r)
    PROVE  IInv'
<1> PICK k : k = read[r].key
  OBVIOUS
<1> PICK q : q = read[r].got
  OBVIOUS
<1>1. TypeOK /\ ReadOk(r) /\ UNCHANGED <<now, dbVars, writeVars>>
  BY DEF IInv, AgeInv, SetPrice
<1>2. read[r].at = "setPrice" /\ Store(k, q) /\ Goes(r, "idle")
  BY DEF SetPrice
<1>3. /\ k \in Keys /\ Held("base", q.base, read[r].since, Slack)
      /\ Held("rules", q.rules, read[r].since, 0)
      /\ q.lost # {} => read[r].since < PaymentsBack
      /\ read[r].since <= now /\ now <= read[r].since + MaxRequest
  BY <1>1, <1>2 DEF ReadOk, Priced, Ruled
<1>4. /\ read[r].since \in Nat /\ now \in Nat /\ q \in Quote
      /\ ended["base"][q.base] \in Nat /\ ended["rules"][q.rules] \in Nat
  BY <1>1, Holds DEF TypeOK
<1>5. EntryOk(k)'
  <2>1. cache'[k].value = q /\ cache'[k].until = now + Ttl
    BY <1>1, <1>2, <1>3, <1>4, StoreType
  <2>2. UNCHANGED <<current, ended, now>>
    BY <1>1 DEF dbVars
  <2>3. q.base = current["base"] \/ now + Ttl <= ended["base"][q.base] + 2 * Slack
    BY <1>3, <1>4, ConstantsAssumption DEF Held, Slack
  <2>4. q.rules = current["rules"] \/ now + Ttl <= ended["rules"][q.rules] + Slack
    BY <1>3, <1>4, ConstantsAssumption DEF Held, Slack
  <2>5. q.lost # {} => now + Ttl < PaymentsBack + Slack
    BY <1>3, <1>4, ConstantsAssumption DEF Slack
  <2>6. k # Product /\ Ttl \in Nat
    BY <1>3, ConstantsAssumption
  <2> QED BY <1>4, <2>1, <2>2, <2>3, <2>4, <2>5, <2>6 DEF EntryOk, Held
<1>6. ReadOk(r)'
  <2>1. read'[r].at = "idle"
    BY <1>1, <1>2, GoesType
  <2> QED BY <2>1 DEF ReadOk
<1> QED BY <1>1, <1>2, <1>3, <1>5, <1>6, StoreInv

-----------------------------------------------------------------------------
(* Writes and time *)

(* Deleting keys makes nothing older.                                      *)
LEMMA DeleteAge ==
    ASSUME TypeOK, AgeInv, NEW ks \in SUBSET AllKeys, Delete(ks),
           UNCHANGED <<now, dbVars, read>>
    PROVE  AgeInv'
<1>1. \A x \in AllKeys : cache'[x] = None \/ cache'[x] = cache[x]
  BY DeleteType
<1>2. \A x \in AllKeys : EntryOk(x)'
  <2>1. {} \in SUBSET AllKeys /\ \A x \in {} : EntryOk(x)'
    OBVIOUS
  <2> QED BY <1>1, <2>1, OtherEntries
<1>3. \A r \in Requests : ReadOk(r)'
  BY DEF AgeInv, ReadOk, Held, dbVars
<1> QED BY <1>2, <1>3 DEF AgeInv

LEMMA StillAge ==
    ASSUME AgeInv, UNCHANGED <<now, dbVars, cache, read>>
    PROVE  AgeInv'
BY DEF AgeInv, ReadOk, EntryOk, Held, dbVars

LEMMA StartWriteStep ==
    ASSUME IInv, NEW w \in Writers, NEW k \in WriteKinds, StartWrite(w, k)
    PROVE  IInv'
<1>1. Evicted(k) \in SUBSET AllKeys
  BY DEF Evicted
<1>2. TypeOK'
  BY <1>1 DEF IInv, TypeOK, StartWrite, dbVars
<1>3. AgeInv'
  BY StillAge DEF IInv, StartWrite
<1>4. EvictInv'
  BY DEF IInv, TypeOK, EvictInv, EvictOk, StartWrite
<1> QED BY <1>2, <1>3, <1>4 DEF IInv

LEMMA EvictChunkStep ==
    ASSUME IInv, NEW w \in Writers, NEW chunk \in SUBSET todo[w], EvictChunk(w, chunk)
    PROVE  IInv'
<1>1. TypeOK /\ AgeInv /\ EvictInv /\ UNCHANGED <<now, dbVars, read, kind>>
  BY DEF IInv, EvictChunk
<1>2. chunk \in SUBSET AllKeys /\ Delete(chunk)
  BY <1>1 DEF TypeOK, EvictChunk
<1>3. /\ cache' \in [AllKeys -> {None} \cup Entry]
      /\ left' \in [Writers -> SUBSET AllKeys]
      /\ \A x \in Writers : left'[x] = left[x] \ chunk
  BY <1>1, <1>2, DeleteType
<1>4. /\ todo' \in [Writers -> SUBSET AllKeys] /\ todo'[w] = todo[w] \ chunk
      /\ \A x \in Writers : x # w => todo'[x] = todo[x]
  BY <1>1 DEF TypeOK, EvictChunk
<1>5. DEFINE at == IF chunk # todo[w] THEN write[w]
                   ELSE IF write[w] = "before" THEN "write" ELSE "answered"
<1>6. /\ write[w] \in {"before", "after"}
      /\ write' = [write EXCEPT ![w] = at]
  BY DEF EvictChunk
<1>7. /\ write' \in [Writers -> WriteStages] /\ write'[w] = at
      /\ \A x \in Writers : x # w => write'[x] = write[x]
  BY <1>1, <1>6 DEF TypeOK
<1>8. TypeOK'
  BY <1>1, <1>3, <1>4, <1>7 DEF TypeOK, dbVars
<1>9. AgeInv'
  BY <1>1, <1>2, DeleteAge
<1>10. EvictInv'
  <2> SUFFICES ASSUME NEW x \in Writers PROVE EvictOk(x)'
    BY DEF EvictInv
  <2>1. EvictOk(x)
    BY <1>1 DEF EvictInv
  <2>2. CASE x # w
    BY <1>1, <1>3, <1>4, <1>7, <2>1, <2>2 DEF EvictOk
  <2>3. CASE x = w
    <3>1. write'[w] = "after" => write[w] = "after"
      BY <1>6, <1>7
    <3>2. write'[w] = "answered" => write[w] = "after" /\ chunk = todo[w]
      BY <1>6, <1>7
    <3> HIDE DEF at
    <3> QED BY <1>1, <1>3, <1>4, <2>1, <2>3, <3>1, <3>2 DEF EvictOk
  <2> QED BY <2>2, <2>3
<1> QED BY <1>8, <1>9, <1>10 DEF IInv

LEMMA WriteRowStep ==
    ASSUME IInv, NEW w \in Writers, Write(w)
    PROVE  IInv'
<1>1. TypeOK /\ AgeInv /\ EvictInv /\ UNCHANGED <<now, cache, read, kind>>
  BY DEF IInv, Write
<1>2. Written(kind[w]) \in Sources /\ Replace(Written(kind[w]))
  BY DEF Write, Written
<1>3. AgeInv'
  BY <1>1, <1>2, ReplaceAge
<1>4. /\ current' \in [Sources -> Versions]
      /\ ended' \in [Sources -> [Versions -> Nat]]
  BY <1>1, <1>2, ReplaceType
<1>5. Evicted(kind[w]) \in SUBSET AllKeys
  BY <1>1 DEF TypeOK, Evicted
<1>6. TypeOK'
  BY <1>1, <1>4, <1>5 DEF TypeOK, Write
<1>7. EvictInv'
  <2> SUFFICES ASSUME NEW x \in Writers PROVE EvictOk(x)'
    BY DEF EvictInv
  <2>1. EvictOk(x)
    BY <1>1 DEF EvictInv
  <2>2. CASE x # w
    BY <1>1, <2>1, <2>2 DEF EvictOk, Write, TypeOK
  <2>3. CASE x = w
    <3>1. /\ write'[w] = "after" /\ todo'[w] = Evicted(kind[w])
          /\ left'[w] \subseteq AllKeys /\ kind'[w] = kind[w] /\ kind[w] \in WriteKinds
      BY <1>1 DEF Write, TypeOK
    <3>2. kind[w] # "createRule" => Affected(kind[w]) \cap AllKeys \subseteq Evicted(kind[w])
      BY <3>1 DEF Affected, Evicted
    <3> QED BY <2>3, <3>1, <3>2 DEF EvictOk
  <2> QED BY <2>2, <2>3
<1> QED BY <1>3, <1>6, <1>7 DEF IInv

LEMMA WriteFailsStep ==
    ASSUME IInv, NEW w \in Writers, WriteFails(w)
    PROVE  IInv'
<1>1. TypeOK'
  BY DEF IInv, TypeOK, WriteFails, dbVars
<1>2. AgeInv'
  BY StillAge DEF IInv, WriteFails
<1>3. EvictInv'
  BY DEF IInv, TypeOK, EvictInv, EvictOk, WriteFails
<1> QED BY <1>1, <1>2, <1>3 DEF IInv

LEMMA RuleWindowStep ==
    ASSUME IInv, RuleWindow
    PROVE  IInv'
<1>1. /\ TypeOK /\ AgeInv /\ EvictInv /\ UNCHANGED <<now, cache, read, writeVars, left>>
      /\ Replace("rules") /\ "rules" \in Sources
  BY DEF IInv, RuleWindow
<1>2. AgeInv'
  BY <1>1, ReplaceAge
<1>3. TypeOK'
  BY <1>1, ReplaceType DEF TypeOK, writeVars
<1>4. EvictInv'
  <2>1. \A w \in Writers : left'[w] \subseteq left[w]
    BY <1>1
  <2> QED BY <1>1, <2>1, EvictKept
<1> QED BY <1>2, <1>3, <1>4 DEF IInv

LEMMA ExpireStep ==
    ASSUME IInv, NEW k \in AllKeys, Expire(k)
    PROVE  IInv'
<1>1. /\ TypeOK /\ AgeInv /\ EvictInv /\ UNCHANGED <<now, dbVars, read, writeVars>>
      /\ Delete({k}) /\ {k} \in SUBSET AllKeys
  BY DEF IInv, Expire
<1>2. /\ cache' \in [AllKeys -> {None} \cup Entry]
      /\ left' \in [Writers -> SUBSET AllKeys]
      /\ \A w \in Writers : left'[w] \subseteq left[w]
  BY <1>1, DeleteType
<1>3. TypeOK'
  BY <1>1, <1>2 DEF TypeOK, dbVars, writeVars
<1>4. AgeInv'
  BY <1>1, DeleteAge
<1>5. EvictInv'
  BY <1>1, <1>2, EvictKept
<1> QED BY <1>3, <1>4, <1>5 DEF IInv

LEMMA TickStep ==
    ASSUME IInv, Tick
    PROVE  IInv'
<1>1. /\ TypeOK /\ AgeInv /\ EvictInv /\ UNCHANGED <<dbVars, read, writeVars>>
      /\ Delete(Expired) /\ Expired \in SUBSET AllKeys /\ now \in Nat /\ now' = now + 1
  BY DEF IInv, Tick, Expired, TypeOK
<1>2. /\ cache' \in [AllKeys -> {None} \cup Entry]
      /\ left' \in [Writers -> SUBSET AllKeys]
      /\ \A x \in AllKeys : cache'[x] = None \/ cache'[x] = cache[x]
      /\ \A x \in Expired : cache'[x] = None
      /\ \A w \in Writers : left'[w] \subseteq left[w]
  BY <1>1, DeleteType
<1>3. TypeOK'
  BY <1>1, <1>2 DEF TypeOK, dbVars, writeVars
<1>4. ASSUME NEW r \in Requests PROVE ReadOk(r)'
  <2>1. ReadOk(r) /\ read[r].since \in Nat /\ read'[r] = read[r]
    BY <1>1, Holds DEF AgeInv
  <2>2. read[r].at # "idle" => now < read[r].since + MaxRequest
    BY DEF Tick
  <2> QED BY <1>1, <2>1, <2>2, ConstantsAssumption DEF ReadOk, Held, dbVars
<1>5. ASSUME NEW k \in AllKeys PROVE EntryOk(k)'
  <2>1. CASE cache'[k] = None
    BY <2>1 DEF EntryOk
  <2>2. CASE cache'[k] # None
    <3>1. cache'[k] = cache[k] /\ cache[k] # None /\ k \notin Expired /\ EntryOk(k)
      BY <1>1, <1>2, <2>2 DEF AgeInv
    <3>2. cache[k].until \in Nat
      BY <1>1, <3>1 DEF TypeOK, Entry
    <3>3. now <= cache[k].until /\ cache[k].until <= now + Ttl /\ cache[k].until # now
      BY <3>1 DEF EntryOk, Expired
    <3>4. now + 1 <= cache[k].until /\ cache[k].until <= (now + 1) + Ttl
      BY <1>1, <3>2, <3>3, ConstantsAssumption
    <3> QED BY <1>1, <3>1, <3>4 DEF EntryOk, Held, dbVars
  <2> QED BY <2>1, <2>2
<1>6. EvictInv'
  BY <1>1, <1>2, EvictKept
<1> QED BY <1>3, <1>4, <1>5, <1>6 DEF IInv, AgeInv

-----------------------------------------------------------------------------
(* The theorems *)

LEMMA NextInv == IInv /\ [Next]_vars => IInv'
<1> SUFFICES ASSUME IInv, [Next]_vars PROVE IInv'
  OBVIOUS
<1>1. ASSUME NEW r \in Requests, ReadStep(r) PROVE IInv'
  <2>1. ASSUME UnitRate(r) \/ TotalRate(r) PROVE IInv'
    BY <2>1, AskRateStep DEF UnitRate, TotalRate
  <2> QED BY <1>1, <2>1, GetProductStep, SelectProductStep, SetProductStep, GetPriceStep,
             SelectRulesStep, SetPriceStep, ReadFailsStep DEF ReadStep
<1>2. ASSUME NEW w \in Writers, WriteStep(w) PROVE IInv'
  BY <1>2, StartWriteStep, EvictChunkStep, WriteRowStep, WriteFailsStep DEF WriteStep
<1>3. CASE UNCHANGED vars
  <2>1. UNCHANGED <<now, dbVars, cache, read, writeVars, left>>
    BY <1>3 DEF vars
  <2>2. \A w \in Writers : left'[w] \subseteq left[w]
    BY <2>1
  <2> QED BY <2>1, <2>2, StillAge, EvictKept DEF IInv, TypeOK, dbVars, writeVars
<1> QED BY <1>1, <1>2, <1>3, RuleWindowStep, ExpireStep, TickStep DEF Next

LEMMA Invariance == Spec => []IInv
BY InitInv, NextInv, PTL DEF Spec

(* The state stays within its types.                                       *)
THEOREM TypeCorrect == Spec => []TypeOK
<1>1. IInv => TypeOK
  BY DEF IInv
<1> QED BY <1>1, Invariance, PTL

(* No price is older than two times to live and two requests, the rules in *)
(* it no older than one: priceService.ts computes from a cached product.   *)
THEOREM PricesAreRecent == Spec => []QuotesAreRecent
<1>1. IInv => QuotesAreRecent
  <2> SUFFICES ASSUME IInv, NEW q \in Quote, Served(q)
               PROVE  /\ Recent("base", q.base, 2 * Slack)
                      /\ Recent("rules", q.rules, Slack)
    BY DEF QuotesAreRecent, Slack
  <2>1. /\ now \in Nat /\ Slack \in Nat
        /\ ended["base"][q.base] \in Nat /\ ended["rules"][q.rules] \in Nat
    BY DEF IInv, TypeOK, Slack, Quote
  <2>2. ASSUME NEW k \in Keys, cache[k] # None, cache[k].value = q
        PROVE  /\ Recent("base", q.base, 2 * Slack)
               /\ Recent("rules", q.rules, Slack)
    <3>1. EntryOk(k) /\ cache[k].until \in Nat
      BY <2>2 DEF IInv, AgeInv, TypeOK, Entry
    <3>2. /\ now <= cache[k].until
          /\ Held("base", q.base, cache[k].until, 2 * Slack)
          /\ Held("rules", q.rules, cache[k].until, Slack)
      BY <2>2, <3>1 DEF EntryOk
    <3> QED BY <2>1, <3>1, <3>2 DEF Held, Recent
  <2>3. ASSUME NEW r \in Requests, read[r].at = "setPrice", read[r].got = q
        PROVE  /\ Recent("base", q.base, 2 * Slack)
               /\ Recent("rules", q.rules, Slack)
    <3>1. ReadOk(r) /\ read[r].since \in Nat
      BY Holds DEF IInv, AgeInv
    <3>2. /\ now <= read[r].since + MaxRequest
          /\ Held("base", q.base, read[r].since, Slack)
          /\ Held("rules", q.rules, read[r].since, 0)
      BY <2>3, <3>1 DEF ReadOk, Priced, Ruled
    <3> QED BY <2>1, <3>1, <3>2, ConstantsAssumption DEF Held, Recent, Slack
  <2> QED BY <2>2, <2>3 DEF Served
<1> QED BY <1>1, Invariance, PTL

(* Prices of 0 are gone one time to live and a request after payments is   *)
(* back, whatever was cached.                                              *)
THEOREM ZeroPricesAreGone == Spec => []ZeroPricesEnd
<1>1. IInv => ZeroPricesEnd
  <2> SUFFICES ASSUME IInv, NEW q \in Quote, Served(q), q.lost # {}
               PROVE  now < PaymentsBack + Slack
    BY ConstantsAssumption DEF ZeroPricesEnd, Slack, IInv, TypeOK
  <2>1. now \in Nat /\ Slack \in Nat /\ PaymentsBack \in Nat
    BY ConstantsAssumption DEF IInv, TypeOK, Slack
  <2>2. ASSUME NEW k \in Keys, cache[k] # None, cache[k].value = q
        PROVE  now < PaymentsBack + Slack
    <3>1. EntryOk(k) /\ cache[k].until \in Nat
      BY <2>2 DEF IInv, AgeInv, TypeOK, Entry
    <3>2. now <= cache[k].until /\ cache[k].until < PaymentsBack + Slack
      BY <2>2, <3>1 DEF EntryOk
    <3> QED BY <2>1, <3>1, <3>2
  <2>3. ASSUME NEW r \in Requests, read[r].at = "setPrice", read[r].got = q
        PROVE  now < PaymentsBack + Slack
    <3>1. ReadOk(r) /\ read[r].since \in Nat
      BY Holds DEF IInv, AgeInv
    <3>2. now <= read[r].since + MaxRequest /\ read[r].since < PaymentsBack
      BY <2>3, <3>1 DEF ReadOk
    <3> QED BY <2>1, <3>1, <3>2, ConstantsAssumption DEF Slack
  <2> QED BY <2>2, <2>3 DEF Served
<1> QED BY <1>1, Invariance, PTL

(* An answered update or deletion has evicted all it made out of date, for *)
(* any number of keys, deleted in any chunks, beside any other handlers.   *)
THEOREM AnsweredEvicts == Spec => []AnsweredWriteEvicts
<1>1. IInv => AnsweredWriteEvicts
  BY DEF IInv, EvictInv, EvictOk, AnsweredWriteEvicts
<1> QED BY <1>1, Invariance, PTL
=============================================================================
