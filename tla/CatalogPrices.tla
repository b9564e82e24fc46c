---------------------------- MODULE CatalogPrices ----------------------------
(***************************************************************************)
(* Prices of one product in services/catalog.  GET /products/:id/price     *)
(* goes through two caches: the product row is cached, and so is the price *)
(* computed from it, from the active price rules and, for a customer with  *)
(* another currency, from two exchange rates asked of payments.  Writers   *)
(* change the row or the rules and delete cache keys chunk by chunk before *)
(* and after.  Both caches are read-through (withCache): what a reader     *)
(* loads it stores, whatever was written or deleted meanwhile.             *)
(*                                                                         *)
(* What a price amounts to is left out; a value is the versions it was     *)
(* computed from.  Time is counted in ticks.                               *)
(***************************************************************************)
EXTENDS Naturals

CONSTANTS
    Keys,           \* price keys of the product: tier, currency and quantity
    Requests,       \* handlers that read a product or a price
    Writers,        \* handlers that update the product or its rules
    Product,        \* the key of the product row
    None,           \* no entry under a key
    Ttl,            \* PRODUCT_CACHE_TTL_SEC and PRICE_CACHE_TTL_SEC
    MaxRequest,     \* the longest a handler of a read takes
    PaymentsBack,   \* the time from which payments gives every rate asked for
    MaxVersion,     \* bound on the versions of the row and of the rules
    Horizon         \* bound on the clock

ASSUME ConstantsAssumption ==
    /\ Product \notin Keys
    /\ Ttl \in Nat
    /\ MaxRequest \in Nat
    /\ PaymentsBack \in Nat
    /\ MaxVersion \in Nat
    /\ Horizon \in Nat

AllKeys == Keys \cup {Product}

Versions == 0 .. MaxVersion

\* A cached product is a quote with nothing but a row; a price also has the
\* rules and the rates that payments failed to give, taken as 0.
Quote == [base : Versions, rules : Versions, lost : SUBSET {"unit", "total"}]

Entry == [value : Quote, until : Nat]

ReadStages ==
    {"idle", "selectProduct", "setProduct",
     "getPrice", "selectRules", "unitRate", "totalRate", "setPrice"}

WriteKinds == {"update", "createRule", "deleteRule"}

WriteStages == {"idle", "before", "write", "after", "answered"}

VARIABLES
    now,            \* the clock
    current,        \* current[x]: the version of the row, of the active rules
    ended,          \* ended[x][v]: when version v of x was replaced
    cache,          \* Redis
    read,           \* the requests that read
    write,          \* where each writer stands
    kind,           \* what it writes
    todo,           \* keys its present eviction still has to delete
    left            \* history: keys not touched since its write took effect

writeVars == <<write, kind, todo>>
dbVars == <<current, ended>>
vars == <<now, dbVars, cache, read, writeVars, left>>

Sources == {"base", "rules"}

Request == [at : ReadStages, key : AllKeys, since : Nat, got : Quote]

Blank == [base |-> 0, rules |-> 0, lost |-> {}]

\* Nothing is kept of a request that has ended.
Idle == [at |-> "idle", key |-> Product, since |-> 0, got |-> Blank]

TypeOK ==
    /\ now \in Nat
    /\ current \in [Sources -> Versions]
    /\ ended \in [Sources -> [Versions -> Nat]]
    /\ cache \in [AllKeys -> {None} \cup Entry]
    /\ read \in [Requests -> Request]
    /\ write \in [Writers -> WriteStages]
    /\ kind \in [Writers -> WriteKinds]
    /\ todo \in [Writers -> SUBSET AllKeys]
    /\ left \in [Writers -> SUBSET AllKeys]

Init ==
    /\ now = 0
    /\ current = [x \in Sources |-> 0]
    /\ ended = [x \in Sources |-> [v \in Versions |-> 0]]
    /\ cache = [k \in AllKeys |-> None]
    /\ read = [r \in Requests |-> Idle]
    /\ write = [w \in Writers |-> "idle"]
    /\ kind = [w \in Writers |-> "update"]
    /\ todo = [w \in Writers |-> {}]
    /\ left = [w \in Writers |-> {}]

-----------------------------------------------------------------------------
(* The cache *)

\* Seeded fault: SET without EX.
Store_NoExpiry(k, q) ==
    /\ cache' = [cache EXCEPT ![k] = [value |-> q, until |-> Horizon + 1]]
    /\ left' = [w \in Writers |-> left[w] \ {k}]

\* Redis SET with EX: the entry is new, so nothing of it is left of earlier.
Store(k, q) ==
    /\ cache' = [cache EXCEPT ![k] = [value |-> q, until |-> now + Ttl]]
    /\ left' = [w \in Writers |-> left[w] \ {k}]

\* Redis DEL.
Delete(ks) ==
    /\ cache' = [k \in AllKeys |-> IF k \in ks THEN None ELSE cache[k]]
    /\ left' = [w \in Writers |-> left[w] \ ks]

\* An entry stored during a tick goes at some moment of the tick Ttl later.
Expired == {k \in AllKeys : cache[k] # None /\ cache[k].until = now}

-----------------------------------------------------------------------------
(* Reading a product or a price *)

Goes(r, at) ==
    read' = [read EXCEPT ![r] = IF at = "idle" THEN Idle ELSE [@ EXCEPT !.at = at]]

Learns(r, at, q) == read' = [read EXCEPT ![r].at = at, ![r].got = q]

\* GET /products/:id and GET /products/:id/price both begin with getProductById
\* and, in it, with a look into the cache.
GetProduct(r, k) ==
    /\ read[r].at = "idle"
    /\ k = Product => cache[Product] = None     \* a hit is the answer
    /\ read' = [read EXCEPT ![r] =
                    IF cache[Product] = None
                    THEN [at |-> "selectProduct", key |-> k, since |-> now, got |-> Blank]
                    ELSE [at |-> "getPrice", key |-> k, since |-> now, got |-> cache[Product].value]]
    /\ UNCHANGED <<now, dbVars, cache, writeVars, left>>

SelectProduct(r) ==
    /\ read[r].at = "selectProduct"
    /\ Learns(r, "setProduct", [Blank EXCEPT !.base = current["base"]])
    /\ UNCHANGED <<now, dbVars, cache, writeVars, left>>

SetProduct(r) ==
    /\ read[r].at = "setProduct"
    /\ Store(Product, read[r].got)
    /\ Goes(r, IF read[r].key = Product THEN "idle" ELSE "getPrice")
    /\ UNCHANGED <<now, dbVars, writeVars>>

\* Seeded fault: a hit renews the time to live.
GetPrice_Renews(r) ==
    /\ read[r].at = "getPrice"
    /\ IF cache[read[r].key] = None
       THEN Goes(r, "selectRules") /\ cache' = cache
       ELSE Goes(r, "idle") /\ cache' = [cache EXCEPT ![read[r].key].until = now + Ttl]
    /\ UNCHANGED <<now, dbVars, writeVars, left>>

\* A cached price is the answer.
GetPrice(r) ==
    /\ read[r].at = "getPrice"
    /\ Goes(r, IF cache[read[r].key] = None THEN "selectRules" ELSE "idle")
    /\ UNCHANGED <<now, dbVars, cache, writeVars, left>>

\* findActiveByProduct.  Rates are needed when the currency asked for is not
\* that of the product, which a patch of the product may change.
SelectRules(r) ==
    /\ read[r].at = "selectRules"
    /\ \E at \in {"unitRate", "setPrice"} :
           Learns(r, at, [read[r].got EXCEPT !.rules = current["rules"]])
    /\ UNCHANGED <<now, dbVars, cache, writeVars, left>>

\* getFxRate for the unit price and again for the line: any failure, after the
\* tries of withRetry, is answered with a rate of 0.
AskRate(r, part, next) ==
    /\ \/ Goes(r, next)
       \/ /\ now < PaymentsBack
          /\ Learns(r, next, [read[r].got EXCEPT !.lost = @ \cup {part}])
    /\ UNCHANGED <<now, dbVars, cache, writeVars, left>>

UnitRate(r) == read[r].at = "unitRate" /\ AskRate(r, "unit", "totalRate")

TotalRate(r) == read[r].at = "totalRate" /\ AskRate(r, "total", "setPrice")

\* The computed price is stored and is the answer.
SetPrice(r) ==
    /\ read[r].at = "setPrice"
    /\ Store(read[r].key, read[r].got)
    /\ Goes(r, "idle")
    /\ UNCHANGED <<now, dbVars, writeVars>>

\* A statement or a Redis command throws, or the process dies.
ReadFails(r) ==
    /\ read[r].at # "idle"
    /\ Goes(r, "idle")
    /\ UNCHANGED <<now, dbVars, cache, writeVars, left>>

-----------------------------------------------------------------------------
(* Writing the product or its rules *)

\* The keys the evictions of each kind of write delete.
Evicted(k) ==
    CASE k = "update" -> AllKeys
      [] k = "createRule" -> {Product}
      [] k = "deleteRule" -> Keys

\* What each kind of write changes, and the keys whose entries depend on it.
Written(k) == IF k = "update" THEN "base" ELSE "rules"

Affected(k) == IF k = "update" THEN AllKeys ELSE Keys

\* A new version of x replaces the current one.
Replace(x) ==
    /\ current[x] < MaxVersion
    /\ current' = [current EXCEPT ![x] = @ + 1]
    /\ ended' = [ended EXCEPT ![x] = [@ EXCEPT ![current[x]] = now]]

\* updateProduct, createPriceRule and deletePriceRule, when what they look for
\* exists; otherwise they end without an effect.
StartWrite(w, k) ==
    /\ write[w] \in {"idle", "answered"}
    /\ write' = [write EXCEPT ![w] = "before"]
    /\ kind' = [kind EXCEPT ![w] = k]
    /\ todo' = [todo EXCEPT ![w] = Evicted(k)]
    /\ left' = [left EXCEPT ![w] = {}]
    /\ UNCHANGED <<now, dbVars, cache, read>>

\* invalidateProductCaches deletes one chunk of the keys at a time, before the
\* write and again after it.
EvictChunk(w, chunk) ==
    /\ write[w] \in {"before", "after"}
    /\ chunk # {}
    /\ Delete(chunk)
    /\ todo' = [todo EXCEPT ![w] = @ \ chunk]
    /\ write' = [write EXCEPT ![w] = IF chunk # todo[w] THEN @
                                     ELSE IF @ = "before" THEN "write" ELSE "answered"]
    /\ UNCHANGED <<now, dbVars, read, kind>>

\* Seeded fault: the keys are deleted before the write only.
Write_EvictsBefore(w) ==
    /\ write[w] = "write"
    /\ Replace(Written(kind[w]))
    /\ write' = [write EXCEPT ![w] = "answered"]
    /\ left' = [left EXCEPT ![w] = {k \in AllKeys : cache[k] # None}]
    /\ UNCHANGED <<now, cache, read, kind, todo>>

Write(w) ==
    /\ write[w] = "write"
    /\ Replace(Written(kind[w]))
    /\ write' = [write EXCEPT ![w] = "after"]
    /\ todo' = [todo EXCEPT ![w] = Evicted(kind[w])]
    /\ left' = [left EXCEPT ![w] = {k \in AllKeys : cache[k] # None}]
    /\ UNCHANGED <<now, cache, read, kind>>

\* A conflict, a command that throws, or the death of the process.
WriteFails(w) ==
    /\ write[w] \in {"before", "write", "after"}
    /\ write' = [write EXCEPT ![w] = "idle"]
    /\ kind' = [kind EXCEPT ![w] = "update"]
    /\ todo' = [todo EXCEPT ![w] = {}]
    /\ left' = [left EXCEPT ![w] = {}]
    /\ UNCHANGED <<now, dbVars, cache, read>>

\* starts_at or ends_at of a rule is reached; nothing is evicted for it.
RuleWindow ==
    /\ Replace("rules")
    /\ UNCHANGED <<now, cache, read, writeVars, left>>

-----------------------------------------------------------------------------

Expire(k) ==
    /\ k \in Expired
    /\ Delete({k})
    /\ UNCHANGED <<now, dbVars, read, writeVars>>

\* Time passes, and ends what has not expired yet, unless a handler would take
\* longer than MaxRequest.
Tick ==
    /\ now < Horizon
    /\ \A r \in Requests : read[r].at # "idle" => now < read[r].since + MaxRequest
    /\ now' = now + 1
    /\ Delete(Expired)
    /\ UNCHANGED <<dbVars, read, writeVars>>

ReadStep(r) ==
    \/ \E k \in AllKeys : GetProduct(r, k)
    \/ SelectProduct(r) \/ SetProduct(r)
    \/ GetPrice(r) \/ SelectRules(r) \/ UnitRate(r) \/ TotalRate(r) \/ SetPrice(r)
    \/ ReadFails(r)

WriteStep(w) ==
    \/ \E k \in WriteKinds : StartWrite(w, k)
    \/ \E chunk \in SUBSET todo[w] : EvictChunk(w, chunk)
    \/ Write(w) \/ WriteFails(w)

Next ==
    \/ \E r \in Requests : ReadStep(r)
    \/ \E w \in Writers : WriteStep(w)
    \/ \E k \in AllKeys : Expire(k)
    \/ RuleWindow
    \/ Tick

Spec == Init /\ [][Next]_vars

-----------------------------------------------------------------------------
(* Properties *)

\* Quote q may be given to a customer now: from the cache, or freshly computed.
Served(q) ==
    \/ \E k \in Keys : cache[k] # None /\ cache[k].value = q
    \/ \E r \in Requests : read[r].at = "setPrice" /\ read[r].got = q

\* Version v of x is in force, or was at most the given time ago.
Recent(x, v, time) == v = current[x] \/ now <= ended[x][v] + time

\* No eviction reaches what a reader loaded before a write and stores after it,
\* and a price may be computed from such a product.  Even so a price is never
\* older than two times to live and two requests, and the rules in it than one.
QuotesAreRecent ==
    \A q \in Quote : Served(q) =>
        /\ Recent("base", q.base, 2 * (Ttl + MaxRequest))
        /\ Recent("rules", q.rules, Ttl + MaxRequest)

\* A price computed without a rate, which is 0, is served only for one time to
\* live and a request after payments is back, although it is cached as any
\* other (payments.ts: rate: 0).
ZeroPricesEnd ==
    \A q \in Quote : Served(q) /\ q.lost # {} => now < PaymentsBack + Ttl + MaxRequest

\* Once an update of the product or a deletion of a rule is answered, nothing
\* that was cached when it took effect is served, whatever other writers evict
\* and readers store meanwhile, and in whatever chunks the keys are deleted.
AnsweredWriteEvicts ==
    \A w \in Writers :
        write[w] = "answered" /\ kind[w] # "createRule" => left[w] \cap Affected(kind[w]) = {}

\* priceRuleMutation.ts:30-36 creates a rule, reads the price and expects that
\* of the rule: a price cached before the rule is not served after its creation.
CreatedRuleShows ==
    \A w \in Writers :
        write[w] = "answered" /\ kind[w] = "createRule" => left[w] \cap Keys = {}

\* priceLookup.ts:19, an alert if unitPriceCents <= 0: no price is computed
\* from a rate of 0.
PricesArePositive == \A q \in Quote : Served(q) => "unit" \notin q.lost

\* A line total is the unit price times the quantity, up to rounding: both are
\* converted or neither is.
TotalsAgree == \A q \in Quote : Served(q) => q.lost \in {{}, {"unit", "total"}}
=============================================================================
