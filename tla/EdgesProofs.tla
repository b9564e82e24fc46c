---------------------------- MODULE EdgesProofs ----------------------------
(***************************************************************************)
(* Theorems about the parts around the core: what a refund and a charge    *)
(* can differ by (Pricing), what a reader of an order is answered          *)
(* (OrderReads), how a service stops (ServiceShutdown), what the gateway   *)
(* tells its clients (Gateway), what settlement runs collect               *)
(* (SettlementRun) and how webhooks are delivered (NotificationDelivery).  *)
(***************************************************************************)
EXTENDS Gateway, ServiceShutdown, OrderReads, Pricing, SettlementRun,
        NotificationDelivery, FiniteSums

-----------------------------------------------------------------------------
(* Pricing: rounding *)

\* convertCents returns cents, at most half a cent from the exact amount.
LEMMA HalfEvenNear ==
    ASSUME NEW n \in Nat, NEW d \in Nat \ {0}
    PROVE  /\ HalfEven(n, d) \in Nat
           /\ 2 * (HalfEven(n, d) * d - n) \in -d .. d
<1> DEFINE q == n \div d
           m == n % d
<1>1. q \in Nat /\ m \in 0 .. d - 1 /\ n = d * q + m
  OBVIOUS
<1>2. HalfEven(n, d) = IF 2 * m > d \/ (2 * m = d /\ q % 2 = 1) THEN q + 1 ELSE q
  BY DEF HalfEven
<1> HIDE DEF q, m
<1>3. q * d = d * q /\ (q + 1) * d = d * q + d
  BY <1>1
<1>4. d * q \in Nat
  BY <1>1
<1>5. CASE 2 * m > d \/ (2 * m = d /\ q % 2 = 1)
  <2>1. HalfEven(n, d) = q + 1 /\ 2 * m >= d
    BY <1>1, <1>2, <1>5
  <2>2. HalfEven(n, d) * d - n = d - m
    BY <1>1, <1>3, <1>4, <2>1
  <2> QED
    BY <1>1, <2>1, <2>2
<1>6. CASE ~(2 * m > d \/ (2 * m = d /\ q % 2 = 1))
  <2>1. HalfEven(n, d) = q /\ 2 * m <= d
    BY <1>1, <1>2, <1>6
  <2>2. HalfEven(n, d) * d - n = -m
    BY <1>1, <1>3, <1>4, <2>1
  <2> QED
    BY <1>1, <2>1, <2>2
<1> QED
  BY <1>5, <1>6

\* multiplyCents returns cents.
LEMMA RoundedNat ==
    ASSUME NEW n \in Nat, NEW d \in Nat \ {0}
    PROVE  Rounded(n, d) \subseteq Nat
<1>1. n \div d \in Nat
  OBVIOUS
<1> QED
  BY <1>1 DEF Rounded

\* What a multiple of d bounds is bounded.
LEMMA Divided ==
    ASSUME NEW d \in Nat \ {0}, NEW k \in Nat, NEW x \in Int, x * d <= k * d
    PROVE  x <= k
<1> SUFFICES ASSUME x >= k + 1
             PROVE  FALSE
  OBVIOUS
<1>1. PICK y \in Nat : x = k + 1 + y
  <2>1. x - k - 1 \in Nat
    OBVIOUS
  <2> QED
    BY <2>1
<1>2. x * d = k * d + d + y * d
  BY <1>1
<1>3. y * d \in Nat /\ k * d \in Nat
  BY <1>1
<1> QED
  BY <1>2, <1>3

\* Two amounts rounded apart: a is x and b is x * q, each within half of 1.
LEMMA RoundedApart ==
    ASSUME NEW d \in Nat \ {0}, NEW q \in Nat \ {0}, NEW x \in Nat, NEW a \in Nat, NEW b \in Nat,
           2 * (a * d - x) \in -d .. d,
           2 * (b * d - x * q) \in -d .. d
    PROVE  2 * (a * q - b) \in -(q + 1) .. (q + 1)
<1> DEFINE e == a * d - x
           f == b * d - x * q
           diff == 2 * (a * q - b)
<1>1. e \in Int /\ f \in Int /\ diff \in Int /\ 2 * e \in -d .. d /\ 2 * f \in -d .. d
  OBVIOUS
<1>2. diff * d = 2 * (e * q) - 2 * f
  <2>1. e * q = a * q * d - x * q
    OBVIOUS
  <2>2. diff * d = 2 * (a * q * d) - 2 * (b * d)
    OBVIOUS
  <2>3. a * q * d \in Int /\ b * d \in Int /\ x * q \in Int
    OBVIOUS
  <2> QED
    BY <2>1, <2>2, <2>3
<1>3. 2 * (e * q) <= q * d /\ -(q * d) <= 2 * (e * q)
  <2>1. d - 2 * e \in Nat /\ d + 2 * e \in Nat
    BY <1>1
  <2>2. (d - 2 * e) * q \in Nat /\ (d + 2 * e) * q \in Nat
    BY <2>1
  <2>3. (d - 2 * e) * q = d * q - 2 * (e * q) /\ (d + 2 * e) * q = d * q + 2 * (e * q)
    BY <1>1
  <2>4. d * q = q * d /\ q * d \in Int /\ e * q \in Int
    BY <1>1
  <2> QED
    BY <2>2, <2>3, <2>4
<1> HIDE DEF e, f, diff
<1>4. (q + 1) * d = q * d + d /\ (-diff) * d = -(diff * d) /\ q * d \in Nat /\ e * q \in Int
  BY <1>1
<1>5. diff * d <= (q + 1) * d /\ (-diff) * d <= (q + 1) * d
  BY <1>1, <1>2, <1>3, <1>4
<1>6. diff <= q + 1 /\ -diff <= q + 1
  BY <1>1, <1>5, Divided
<1> QED
  BY <1>1, <1>6 DEF diff

-----------------------------------------------------------------------------
(* Pricing: the theorems *)

\* Whatever rules are active, the price is one in cents, and not negative.
LEMMA AfterRulesNat ==
    ASSUME NEW base \in BasePrices, NEW rules \in RuleSets
    PROVE  AfterRules(base, rules) \subseteq Nat
<1>1. base \in Nat /\ rules \subseteq PriceRule
  BY PricingAssumption
<1>2. ASSUME NEW r \in rules
      PROVE  Ruled(base, r) \subseteq Nat
  <2>1. r.value \in Nat /\ r.type \in {"percent_off", "fixed_off", "override"}
    BY <1>1, <1>2 DEF PriceRule
  <2>2. Most(0, BasisPoints - r.value) \in Nat /\ Most(0, base - r.value) \in Nat
    BY <1>1, <2>1 DEF Most, BasisPoints
  <2>3. base * Most(0, BasisPoints - r.value) \in Nat
    BY <1>1, <2>2
  <2>4. Rounded(base * Most(0, BasisPoints - r.value), BasisPoints) \subseteq Nat
    BY <2>3, RoundedNat DEF BasisPoints
  <2> QED
    BY <2>1, <2>2, <2>4 DEF Ruled
<1> QED
  BY <1>1, <1>2 DEF AfterRules, Winning

\* The rate a conversion used: what was quoted, unless its call was lost.
RateUsed(conversion) == IF conversion \in lost THEN NoRate ELSE quote.rate

\* What is charged and refunded for a unit, and for the line, is converted apart, each
\* with a rate of its own.
PricingInv ==
    /\ PricingTypeOK
    /\ step \in {"price", "unit"} => lost = {}
    /\ step = "total" => lost \subseteq {"unit"}
    /\ step \in {"total", "sold"} => unit = Converted(local, RateUsed("unit"))
    /\ step = "sold" => total = Converted(local * quote.qty, RateUsed("total"))

\* An exchange rate is a fraction, the one that stands for a lost answer too.
Fraction == Nat \X (Nat \ {0})

LEMMA RateIsFraction ==
    ASSUME PricingTypeOK
    PROVE  /\ quote.rate \in Fraction /\ NoRate \in Fraction
           /\ quote.qty \in Nat \ {0}
           /\ local \in Nat
<1>1. quote.rate \in Fraction
  <2>1. <<1, 1>> \in Fraction
    BY DEF Fraction
  <2> QED
    BY <2>1, PricingAssumption DEF PricingTypeOK, Fraction
<1>2. quote.qty \in Nat \ {0} /\ local \in Nat
  BY PricingAssumption DEF PricingTypeOK
<1>3. NoRate \in Fraction
  BY DEF NoRate, Fraction
<1> QED
  BY <1>1, <1>2, <1>3

LEMMA ConvertedNat ==
    ASSUME NEW cents \in Nat, NEW rate \in Fraction
    PROVE  Converted(cents, rate) \in Nat
<1>1. cents * rate[1] \in Nat /\ rate[2] \in Nat \ {0}
  BY DEF Fraction
<1> QED
  BY <1>1, HalfEvenNear DEF Converted

\* What is converted without a rate is 0.
LEMMA ConvertedLost ==
    ASSUME NEW cents \in Nat
    PROVE  Converted(cents, NoRate) = 0
<1>1. Converted(cents, NoRate) = HalfEven(0, 1)
  BY DEF Converted, NoRate
<1>2. HalfEven(0, 1) \in Nat /\ 2 * (HalfEven(0, 1) * 1 - 0) \in -1 .. 1
  BY HalfEvenNear
<1> QED
  BY <1>1, <1>2

LEMMA PricingInit_Inv == PricingInit => PricingInv
<1> SUFFICES ASSUME PricingInit
             PROVE  PricingInv
  OBVIOUS
<1>1. /\ quote.base \in BasePrices /\ quote.rules \in RuleSets /\ quote.tier \in Tiers
      /\ quote.foreign \in BOOLEAN
      /\ quote.rate \in Rates \cup {<<1, 1>>} /\ quote.qty \in Quantities
  BY Zenon DEF PricingInit
<1>2. quote.qty \in Nat
  BY <1>1, PricingAssumption
<1> QED
  BY <1>1, <1>2 DEF PricingInit, PricingInv, PricingTypeOK

LEMMA PricingNext_Inv == PricingInv /\ [PricingNext]_pricingVars => PricingInv'
<1> SUFFICES ASSUME PricingInv, [PricingNext]_pricingVars
             PROVE  PricingInv'
  OBVIOUS
<1> USE DEF PricingInv
<1>1. CASE ComputeLocalUnitPrice
  <2>1. PICK ruled \in AfterRules(quote.base, quote.rules) :
            local' \in Rounded(ruled * TierMultiplier[quote.tier], 100)
    BY <1>1 DEF ComputeLocalUnitPrice
  <2>2. ruled \in Nat /\ TierMultiplier[quote.tier] \in Nat
    BY <2>1, AfterRulesNat DEF PricingTypeOK, Tiers, TierMultiplier
  <2>3. ruled * TierMultiplier[quote.tier] \in Nat
    BY <2>2
  <2>4. local' \in Nat
    BY <2>1, <2>3, RoundedNat
  <2> QED
    BY <1>1, <2>4 DEF ComputeLocalUnitPrice, PricingTypeOK
<1>2. CASE ConvertUnit
  <2>1. PICK rate \in FxRates : /\ unit' = Converted(local, rate)
                               /\ lost' = lost \cup LostRate("unit", rate)
    BY <1>2 DEF ConvertUnit
  <2>2. rate \in Fraction /\ lost = {} /\ local \in Nat /\ (rate # NoRate => rate = quote.rate)
    BY <1>2, <2>1, RateIsFraction DEF FxRates, ConvertUnit
  <2>3. unit' \in Nat
    BY <2>1, <2>2, ConvertedNat
  <2>4. lost' \subseteq {"unit"} /\ RateUsed("unit")' = rate
    BY <1>2, <2>1, <2>2 DEF LostRate, RateUsed, ConvertUnit, NoRate
  <2>5. unit' = Converted(local, RateUsed("unit"))'
    BY <1>2, <2>1, <2>4 DEF ConvertUnit, Converted
  <2> QED
    BY <1>2, <2>3, <2>4, <2>5 DEF ConvertUnit, PricingTypeOK
<1>3. CASE ConvertTotal
  <2>1. PICK rate \in FxRates : /\ total' = Converted(local * quote.qty, rate)
                               /\ lost' = lost \cup LostRate("total", rate)
    BY <1>3 DEF ConvertTotal
  <2>2. /\ rate \in Fraction /\ lost \subseteq {"unit"} /\ local * quote.qty \in Nat
        /\ rate # NoRate => rate = quote.rate
    BY <1>3, <2>1, RateIsFraction DEF FxRates, ConvertTotal
  <2>3. total' \in Nat
    BY <2>1, <2>2, ConvertedNat
  <2>4. /\ lost' \subseteq {"unit", "total"} /\ RateUsed("total")' = rate
        /\ RateUsed("unit")' = RateUsed("unit")
    BY <1>3, <2>1, <2>2 DEF LostRate, RateUsed, ConvertTotal, NoRate
  <2>5. /\ total' = Converted(local * quote.qty, RateUsed("total"))'
        /\ unit' = Converted(local, RateUsed("unit"))'
    BY <1>3, <2>1, <2>4 DEF ConvertTotal, Converted
  <2> QED
    BY <1>3, <2>3, <2>4, <2>5 DEF ConvertTotal, PricingTypeOK
<1>4. ASSUME NEW n \in 1 .. quote.qty, ReturnUnits(n)
      PROVE  PricingInv'
  <2>1. UNCHANGED <<quote, local, lost>> =>
            /\ Converted(local, RateUsed("unit"))' = Converted(local, RateUsed("unit"))
            /\ Converted(local * quote.qty, RateUsed("total"))'
                  = Converted(local * quote.qty, RateUsed("total"))
    BY DEF Converted, RateUsed, NoRate
  <2>2. back' \in 0 .. quote.qty
    BY <1>4, RateIsFraction DEF ReturnUnits, PricingTypeOK
  <2> QED
    BY <1>4, <2>1, <2>2 DEF ReturnUnits, PricingTypeOK
<1>5. CASE UNCHANGED pricingVars
  <2>1. UNCHANGED <<quote, local, lost>> =>
            /\ Converted(local, RateUsed("unit"))' = Converted(local, RateUsed("unit"))
            /\ Converted(local * quote.qty, RateUsed("total"))'
                  = Converted(local * quote.qty, RateUsed("total"))
    BY DEF Converted, RateUsed, NoRate
  <2> QED
    BY <1>5, <2>1 DEF pricingVars, PricingTypeOK
<1> QED
  BY <1>1, <1>2, <1>3, <1>4, <1>5 DEF PricingNext

\* Two conversions at one rate.
LEMMA NearAtOneRate ==
    ASSUME NEW rate \in Fraction, NEW cents \in Nat, NEW n \in Nat \ {0}
    PROVE  2 * (Converted(cents, rate) * n - Converted(cents * n, rate)) \in -(n + 1) .. (n + 1)
<1> DEFINE d == rate[2]
           x == cents * rate[1]
           one == HalfEven(x, d)
           all == HalfEven(x * n, d)
<1>1. /\ d \in Nat \ {0} /\ x \in Nat /\ x * n \in Nat
      /\ cents * n * rate[1] = x * n
  BY DEF Fraction
<1>2. Converted(cents, rate) = one /\ Converted(cents * n, rate) = all
  BY <1>1 DEF Converted
<1>3. /\ one \in Nat /\ 2 * (one * d - x) \in -d .. d
      /\ all \in Nat /\ 2 * (all * d - x * n) \in -d .. d
  BY <1>1, HalfEvenNear
<1> HIDE DEF d, x, one, all
<1>4. 2 * (one * n - all) \in -(n + 1) .. (n + 1)
  BY <1>1, <1>3, RoundedApart
<1> QED
  BY <1>2, <1>4

LEMMA PricingInv_Near == PricingInv => RefundNearCharge
<1> SUFFICES ASSUME PricingInv, step = "sold"
             PROVE  \/ 2 * (Refund(quote.qty) - total) \in -(quote.qty + 1) .. (quote.qty + 1)
                    \/ lost = {"unit"} /\ Refund(quote.qty) = 0
                    \/ lost = {"total"} /\ total = 0
  BY DEF RefundNearCharge
<1>1. /\ unit = Converted(local, RateUsed("unit"))
      /\ total = Converted(local * quote.qty, RateUsed("total"))
      /\ lost \subseteq {"unit", "total"} /\ local \in Nat /\ quote.qty \in Nat \ {0}
      /\ quote.rate \in Fraction /\ NoRate \in Fraction
  BY RateIsFraction DEF PricingInv, PricingTypeOK
<1>2. CASE RateUsed("unit") = RateUsed("total")
  <2>1. RateUsed("unit") \in Fraction
    BY <1>1 DEF RateUsed
  <2> QED
    BY <1>1, <1>2, <2>1, NearAtOneRate DEF Refund
<1>3. CASE "unit" \in lost /\ "total" \notin lost
  <2>1. lost = {"unit"} /\ unit = 0
    BY <1>1, <1>3, ConvertedLost DEF RateUsed
  <2> QED
    BY <1>1, <2>1 DEF Refund
<1>4. CASE "unit" \notin lost /\ "total" \in lost
  <2>1. lost = {"total"}
    BY <1>1, <1>4
  <2>2. total = 0
    BY <1>1, <1>4, ConvertedLost DEF RateUsed
  <2> QED
    BY <2>1, <2>2
<1> QED
  BY <1>2, <1>3, <1>4 DEF RateUsed

\* Prices, refunds and charges are cents, whatever the rules, the tier and the rate.
THEOREM PricingTypeCorrect == PricingSpec => []PricingTypeOK
<1>1. PricingInv => PricingTypeOK
  BY DEF PricingInv
<1> QED
  BY PricingInit_Inv, PricingNext_Inv, <1>1, PTL DEF PricingSpec

\* A returned line is refunded what it was charged, up to half a cent for each unit
\* and one half more, for every price, rate and quantity, unless the rate of one of
\* the two conversions was lost: what that one gave is 0.
THEOREM RefundCorrect == PricingSpec => []RefundNearCharge
  BY PricingInit_Inv, PricingNext_Inv, PricingInv_Near, PTL DEF PricingSpec

-----------------------------------------------------------------------------
(* ServiceShutdown *)

\* Until the server has closed, its resources are open and nothing was cut off;
\* then no connection is open, and the pool has ended only without a statement in
\* progress.
ShutdownInv ==
    /\ ShutdownTypeOK
    /\ process \in {"open", "draining"} => pool \in {"none", "open"} /\ redis = "open"
    /\ process = "closing" => \A c \in Connections : work[c] = "none"
    /\ process # "exited" => \A a \in Actors : work[a] \notin Cut
    /\ pool \in {"none", "ended"} => \A a \in Actors : work[a] # "query"
    /\ StopsInOrder

\* Every service says whether it has a job.
LEMMA ServiceRecord ==
    ASSUME NEW s \in AllServices
    PROVE  s.job \in BOOLEAN
<1>1. /\ orders.job = TRUE /\ inventory.job = TRUE /\ payments.job = FALSE
      /\ settlement.job = FALSE /\ returns.job = FALSE /\ notifications.job = TRUE
      /\ catalog.job = FALSE /\ gateway.job = FALSE
  BY DEF orders, inventory, payments, settlement, returns, notifications, catalog, gateway
<1> QED
  BY <1>1 DEF AllServices

LEMMA ShutdownInit_Inv == ShutdownInit => ShutdownInv
<1> SUFFICES ASSUME ShutdownInit
             PROVE  ShutdownInv
  OBVIOUS
<1>1. ShutdownTypeOK
  <2>1. service \in AllServices
    BY ServicesAssumption DEF ShutdownInit
  <2>2. service.job \in BOOLEAN
    BY <2>1, ServiceRecord
  <2>3. timer \in BOOLEAN
    BY <2>2, Zenon DEF ShutdownInit
  <2>4. /\ process \in {"open", "draining", "closing", "exited"} /\ overdue \in BOOLEAN
        /\ pool \in {"none", "open", "ending", "ended"} /\ redis \in {"open", "closed"}
    BY Zenon DEF ShutdownInit
  <2>5. signals \in 0 .. 2
    BY DEF ShutdownInit
  <2>6. work \in [Actors -> Works] /\ left \in [Actors -> 0 .. MaxStatements] /\ late \in 0 .. MaxLate
    BY ShutdownAssumption DEF ShutdownInit, Works
  <2> QED
    BY <2>1, <2>3, <2>4, <2>5, <2>6 DEF ShutdownTypeOK
<1>2. \A a \in Actors : work[a] = "none"
  BY DEF ShutdownInit
<1>3. StopsInOrder
  BY <1>2 DEF StopsInOrder, Actors, Cut
<1> QED
  BY <1>1, <1>2, <1>3 DEF ShutdownInv, ShutdownInit, Cut

LEMMA ShutdownNext_Inv == ShutdownInv /\ [ShutdownNext]_shutdownVars => ShutdownInv'
<1> SUFFICES ASSUME ShutdownInv, [ShutdownNext]_shutdownVars
             PROVE  ShutdownInv'
  OBVIOUS
<1> USE ShutdownAssumption
    DEF ShutdownInv, ShutdownTypeOK, StopsInOrder, Actors, Works, Busy, Cut
<1>1. ASSUME NEW c \in Connections, RequestArrives(c)
      PROVE  ShutdownInv'
  BY <1>1 DEF RequestArrives, Starts
<1>2. ASSUME NEW c \in Connections, ConnectionEnds(c)
      PROVE  ShutdownInv'
  BY <1>2 DEF ConnectionEnds
<1>3. CASE TickStarts
  BY <1>3 DEF TickStarts, Starts
<1>4. ASSUME NEW a \in Actors, StatementStarts(a)
      PROVE  ShutdownInv'
  BY <1>4 DEF StatementStarts
<1>5. ASSUME NEW a \in Actors, StatementEnds(a)
      PROVE  ShutdownInv'
  BY <1>5 DEF StatementEnds
<1>6. ASSUME NEW a \in Actors, RedisCommandFails(a)
      PROVE  ShutdownInv'
  BY <1>6 DEF RedisCommandFails
<1>7. ASSUME NEW a \in Actors, Ends(a)
      PROVE  ShutdownInv'
  BY <1>7 DEF Ends
<1>8. CASE Signal
  <2>1. work' \in [Actors -> Works] /\ \A a \in Actors : work'[a] \in {work[a], "none"}
    BY <1>8 DEF Signal
  <2>2. \A a \in Actors : work[a] \notin Cut /\ work'[a] \notin Cut
    BY <1>8, <2>1 DEF Signal
  <2>3. timer' \in BOOLEAN /\ process' \in {"open", "draining", "closing", "exited"}
    BY <1>8, Zenon DEF Signal
  <2>4. signals' \in 0 .. 2
    BY <1>8 DEF Signal
  <2>5. ShutdownTypeOK'
    BY <1>8, <2>1, <2>3, <2>4 DEF Signal
  <2>6. StopsInOrder'
    BY <1>8, <2>1, <2>2 DEF Signal
  <2> QED
    BY <1>8, <2>1, <2>2, <2>5, <2>6 DEF Signal
<1>9. CASE SignalAgain
  BY <1>9 DEF SignalAgain
<1>10. CASE SignalKills
  BY <1>10 DEF SignalKills, Exits
<1>11. CASE Deadline
  BY <1>11 DEF Deadline, Exits
<1>12. CASE ServerClosed
  BY <1>12 DEF ServerClosed, ClosesResources
<1>13. CASE PoolEnds
  BY <1>13 DEF PoolEnds
<1>14. CASE ShutdownEnds
  BY <1>14 DEF ShutdownEnds, Exits
<1>15. CASE SecondShutdownFails
  BY <1>15 DEF SecondShutdownFails, Exits
<1>16. CASE UNCHANGED shutdownVars
  BY <1>16 DEF shutdownVars
<1> QED
  BY <1>1, <1>2, <1>3, <1>4, <1>5, <1>6, <1>7, <1>8, <1>9, <1>10, <1>11, <1>12, <1>13,
     <1>14, <1>15, <1>16
  DEF ShutdownNext, WorkStep, CloseStep

\* Whatever a service has, its shutdown keeps its state within these bounds.
THEOREM ShutdownTypeCorrect == ShutdownSpec => []ShutdownTypeOK
<1>1. ShutdownInv => ShutdownTypeOK
  BY DEF ShutdownInv
<1> QED
  BY ShutdownInit_Inv, ShutdownNext_Inv, <1>1, PTL DEF ShutdownSpec

\* What a service has accepted is served before its resources close, for any number
\* of connections, statements and late requests.
THEOREM StopsInOrderCorrect == ShutdownSpec => []StopsInOrder
<1>1. ShutdownInv => StopsInOrder
  BY DEF ShutdownInv
<1> QED
  BY ShutdownInit_Inv, ShutdownNext_Inv, <1>1, PTL DEF ShutdownSpec

-----------------------------------------------------------------------------
(* OrderReads *)

\* A status that counts as sold is never left, so a value that shows it is one of an
\* order that is sold; and a shipped order has a shipment for good.
SoldStays(v) ==
    /\ v.status \in Refundable => row.status \in Refundable
    /\ v.status = "shipped" => row.shipment # "none"

\* What TimelineAgrees says of one value.
Agrees(v) == v.status = "shipped" => v.shipment # "none"

ReadInv(r) ==
    /\ SoldStays(read[r].value)
    /\ read[r].at \in {"idle", "look"} => read[r].loaded = 0
    /\ read[r].at = "load" => read[r].loaded < IF read[r].kind = "order" THEN 1 ELSE 2
    /\ read[r].at \in {"store", "answered"} /\ read[r].kind = "timeline" => Agrees(read[r].value)

CachedInv(k) ==
    /\ SoldStays(cached[k].value)
    /\ k = "timeline" => Agrees(cached[k].value)

OrderReadsInv ==
    /\ OrderReadsTypeOK
    /\ row.status = "shipped" <=> row.shipment # "none"
    /\ \A r \in Readers : ReadInv(r)
    /\ \A k \in Kinds : CachedInv(k)
    /\ RefundsOnlySold

\* w is v, but for its age and the deletions it missed.
Same(v, w) == w \in Loaded /\ w.status = v.status /\ w.shipment = v.shipment

LEMMA OrderReadsBounds ==
    /\ OrderTtl \in Nat \ {0} /\ TimelineTtl \in Nat \ {0} /\ MaxRequest \in Nat
    /\ MaxTtl \in Nat /\ TooOld \in Nat \ {0}
    /\ \A k \in Kinds : Ttl(k) \in 0 .. MaxTtl
  BY OrderReadsAssumption DEF MaxTtl, TooOld, Ttl, Kinds

LEMMA AgedSame ==
    ASSUME NEW k, NEW v \in Loaded
    PROVE  Same(v, Aged(k, v))
  BY OrderReadsBounds DEF Aged, Same, Loaded

\* What a deletion does to the readers keeps what they have loaded.
LEMMA PassingSame ==
    ASSUME OrderReadsTypeOK
    PROVE  \A r \in Readers :
               /\ Same(read[r].value, Passing[r].value)
               /\ Passing[r] = [read[r] EXCEPT !.value = Passing[r].value]
<1> TAKE r \in Readers
<1>1. read[r].value \in Loaded
  BY DEF OrderReadsTypeOK
<1>2. Passing[r] = IF PassedBy(r) THEN [read[r] EXCEPT !.value.passedBy = TRUE] ELSE read[r]
  BY DEF Passing
<1>3. CASE PassedBy(r)
  <2>1. Passing[r].value = [read[r].value EXCEPT !.passedBy = TRUE]
    BY <1>2, <1>3 DEF OrderReadsTypeOK
  <2>2. [read[r].value EXCEPT !.passedBy = TRUE] \in Loaded
    BY <1>1 DEF Loaded
  <2>3. Passing[r] = [read[r] EXCEPT !.value = Passing[r].value]
    BY <1>2, <1>3, <2>1 DEF OrderReadsTypeOK
  <2> QED
    BY <1>1, <2>1, <2>2, <2>3 DEF Same, Loaded
<1>4. CASE ~PassedBy(r)
  BY <1>1, <1>2, <1>4 DEF Same, OrderReadsTypeOK
<1> QED
  BY <1>3, <1>4

LEMMA NothingLoaded == Nothing \in Loaded /\ Agrees(Nothing) /\ ~(Nothing.status \in Refundable)
<1>1. 0 \in 0 .. TooOld
  BY OrderReadsBounds
<1> QED
  BY <1>1 DEF Nothing, Loaded, Statuses, Shipments, Agrees, Refundable

LEMMA OrderReadsInit_Inv == OrderReadsInit => OrderReadsInv
<1> SUFFICES ASSUME OrderReadsInit
             PROVE  OrderReadsInv
  OBVIOUS
<1> USE OrderReadsBounds, NothingLoaded
<1>1. \A r \in Readers : read[r] = Read("order", "idle", Nothing)
  BY DEF OrderReadsInit
<1>2. \A k \in Kinds : cached[k] = NoEntry
  BY DEF OrderReadsInit
<1>3. OrderReadsTypeOK
  <2>1. Read("order", "idle", Nothing) \in
            [kind : Kinds, at : {"idle", "look", "load", "store", "answered"},
             loaded : 0 .. 2, value : Loaded, age : 0 .. MaxRequest]
    BY DEF Read, Kinds
  <2>2. NoEntry \in [value : Loaded, ttl : 0 .. MaxTtl]
    BY DEF NoEntry
  <2>3. row \in [status : Statuses, shipment : Shipments]
    BY DEF OrderReadsInit, Statuses, Shipments
  <2>4. returned \in Seq(1 .. Ordered) /\ owed \subseteq Writers
    BY DEF OrderReadsInit, Writers
  <2> QED
    BY <2>1, <2>2, <2>3, <2>4 DEF OrderReadsInit, OrderReadsTypeOK
<1>4. \A r \in Readers : ReadInv(r)
  BY <1>1 DEF ReadInv, Read, SoldStays, Nothing, Refundable
<1>5. \A k \in Kinds : CachedInv(k)
  <2>1. NoEntry.value = Nothing
    BY DEF NoEntry
  <2> QED
    BY <1>2, <2>1 DEF CachedInv, SoldStays, Agrees, Nothing, Refundable
<1> QED
  BY <1>3, <1>4, <1>5 DEF OrderReadsInv, OrderReadsInit, RefundsOnlySold

\* A read whose value changed at most its age keeps what is true of it.
LEMMA ReadKept ==
    ASSUME NEW r \in Readers, ReadInv(r), row' = row,
           read'[r].at = read[r].at, read'[r].kind = read[r].kind,
           read'[r].loaded = read[r].loaded, Same(read[r].value, read'[r].value)
    PROVE  ReadInv(r)'
  BY DEF ReadInv, SoldStays, Agrees, Same

\* The same of a cached value.
LEMMA CachedKept ==
    ASSUME NEW k \in Kinds, CachedInv(k), row' = row,
           Same(cached[k].value, cached'[k].value)
    PROVE  CachedInv(k)'
  BY DEF CachedInv, SoldStays, Agrees, Same

\* A read that is not on the way to a timeline, and has loaded nothing.
LEMMA FreshRead ==
    ASSUME NEW r \in Readers, NEW k \in Kinds, NEW p \in {"idle", "look"},
           read'[r] = Read(k, p, Nothing)
    PROVE  ReadInv(r)'
<1>1. read'[r].at = p /\ read'[r].value = Nothing /\ read'[r].loaded = 0
  BY DEF Read
<1>2. Nothing.status = "pending"
  BY DEF Nothing
<1> QED
  BY <1>1, <1>2 DEF ReadInv, SoldStays, Refundable

\* What a read may be.
ReadRecord ==
    [kind : Kinds, at : {"idle", "look", "load", "store", "answered"},
     loaded : 0 .. 2, value : Loaded, age : 0 .. MaxRequest]

LEMMA ReadType ==
    ASSUME NEW k \in Kinds, NEW v \in Loaded, NEW p \in {"idle", "look", "answered"}
    PROVE  Read(k, p, v) \in ReadRecord
  BY OrderReadsBounds DEF Read, ReadRecord

LEMMA LoadedRecord ==
    ASSUME NEW x \in ReadRecord, NEW p \in {"load", "store"}, NEW n \in 0 .. 2, NEW v \in Loaded
    PROVE  [x EXCEPT !.at = p, !.loaded = n, !.value = v] \in ReadRecord
  BY DEF ReadRecord

\* An UPDATE of a writer keeps the invariant when no sold order is sold no more.
LEMMA WritesInv ==
    ASSUME OrderReadsInv,
           NEW w \in Writers, NEW st \in Statuses, NEW shipment \in Shipments,
           Writes(w, st, shipment),
           saga' \in {"going", "failing", "over"},
           st = "shipped" <=> shipment # "none",
           row.status \in Refundable => st \in Refundable,
           row.shipment # "none" => shipment # "none"
    PROVE  OrderReadsInv'
<1>1. row' = [status |-> st, shipment |-> shipment] /\ UNCHANGED <<cached, read, returned>>
  BY DEF Writes
<1>2. row'.status = st /\ row'.shipment = shipment
  BY <1>1
<1>3. OrderReadsTypeOK'
  BY <1>1 DEF OrderReadsInv, OrderReadsTypeOK, Writes
<1>5. \A r \in Readers : ReadInv(r)'
  BY <1>1, <1>2 DEF OrderReadsInv, ReadInv, SoldStays, Agrees
<1>6. \A k \in Kinds : CachedInv(k)'
  BY <1>1, <1>2 DEF OrderReadsInv, CachedInv, SoldStays, Agrees
<1>7. RefundsOnlySold'
  BY <1>1, <1>2 DEF OrderReadsInv, RefundsOnlySold, Refundable
<1> QED
  BY <1>2, <1>3, <1>5, <1>6, <1>7 DEF OrderReadsInv

\* A deletion, done or lost, leaves the rows alone and every value as it was, or none.
LEMMA DeletionInv ==
    ASSUME OrderReadsInv,
           UNCHANGED <<row, returned>>,
           read' = Passing, owed' \subseteq Writers,
           saga' \in {"going", "failing", "over"},
           cached' \in [Kinds -> [value : Loaded, ttl : 0 .. MaxTtl]],
           \A k \in Kinds : Same(cached[k].value, cached'[k].value) \/ cached'[k] = NoEntry
    PROVE  OrderReadsInv'
<1>1. \A r \in Readers :
          /\ Same(read[r].value, Passing[r].value)
          /\ Passing[r] = [read[r] EXCEPT !.value = Passing[r].value]
  BY PassingSame DEF OrderReadsInv
<1>2. ASSUME NEW r \in Readers
      PROVE  read'[r] \in ReadRecord /\ ReadInv(r)'
  <2>1. read[r] \in ReadRecord
    BY DEF OrderReadsInv, OrderReadsTypeOK, ReadRecord
  <2>2. /\ read'[r] = [read[r] EXCEPT !.value = Passing[r].value]
        /\ Same(read[r].value, Passing[r].value) /\ Passing[r].value \in Loaded
    BY <1>1 DEF Same
  <2>3. /\ read'[r].at = read[r].at /\ read'[r].kind = read[r].kind
        /\ read'[r].loaded = read[r].loaded /\ Same(read[r].value, read'[r].value)
        /\ read'[r] \in ReadRecord
    BY <2>1, <2>2 DEF ReadRecord
  <2> QED
    BY <2>3, ReadKept DEF OrderReadsInv
<1>3. \A k \in Kinds : CachedInv(k)'
  <2> TAKE k \in Kinds
  <2>1. CASE Same(cached[k].value, cached'[k].value)
    BY <2>1, CachedKept DEF OrderReadsInv
  <2>2. CASE cached'[k] = NoEntry
    <3>1. cached'[k].value = Nothing /\ Nothing.status = "pending"
      BY <2>2 DEF NoEntry, Nothing
    <3> QED
      BY <3>1 DEF CachedInv, SoldStays, Agrees, Refundable
  <2> QED
    BY <2>1, <2>2
<1>4. read' \in [Readers -> ReadRecord]
  <2>1. read' = [r \in Readers |-> read'[r]]
    BY DEF Passing
  <2> QED
    BY <1>2, <2>1
<1>5. OrderReadsTypeOK'
  BY <1>4 DEF OrderReadsInv, OrderReadsTypeOK, ReadRecord
<1>6. RefundsOnlySold'
  BY DEF OrderReadsInv, RefundsOnlySold
<1> QED
  BY <1>2, <1>3, <1>5, <1>6 DEF OrderReadsInv

\* A step of one reader, which may store what it loaded or be answered what is cached.
LEMMA ReaderInv ==
    ASSUME OrderReadsInv, NEW r \in Readers, NEW v \in ReadRecord,
           read' = [read EXCEPT ![r] = v],
           UNCHANGED <<row, saga, owed>>,
           ReadInv(r)',
           cached' \in [Kinds -> [value : Loaded, ttl : 0 .. MaxTtl]],
           \A k \in Kinds : cached'[k].value = cached[k].value \/ CachedInv(k)',
           returned' \in Seq(1 .. Ordered),
           RefundsOnlySold'
    PROVE  OrderReadsInv'
<1>1. read \in [Readers -> ReadRecord]
  BY DEF OrderReadsInv, OrderReadsTypeOK, ReadRecord
<1>2. read' \in [Readers -> ReadRecord] /\ read'[r] = v
  BY <1>1
<1>3. ASSUME NEW s \in Readers
      PROVE  ReadInv(s)'
  <2>1. CASE s = r
    BY <1>2, <2>1
  <2>2. CASE s # r
    <3>1. read'[s] = read[s]
      BY <1>1, <2>2
    <3> QED
      BY <3>1 DEF OrderReadsInv, ReadInv, SoldStays, Agrees
  <2> QED
    BY <2>1, <2>2
<1>4. \A k \in Kinds : CachedInv(k)'
  BY DEF OrderReadsInv, CachedInv, SoldStays, Agrees
<1>5. OrderReadsTypeOK'
  BY <1>2 DEF OrderReadsInv, OrderReadsTypeOK, ReadRecord
<1> QED
  BY <1>3, <1>4, <1>5 DEF OrderReadsInv

LEMMA WriterStep_Inv == OrderReadsInv /\ WriterStep => OrderReadsInv'
<1> SUFFICES ASSUME OrderReadsInv, WriterStep
             PROVE  OrderReadsInv'
  OBVIOUS
<1>1. /\ row.status \in Statuses /\ row.shipment \in Shipments
      /\ row.status = "shipped" <=> row.shipment # "none"
      /\ saga \in {"going", "failing", "over"} /\ owed \subseteq Writers
  BY DEF OrderReadsInv, OrderReadsTypeOK
<1>2. "saga" \in Writers /\ "ship" \in Writers /\ Ticks \subseteq Writers
  BY DEF Writers
<1>3. CASE SagaWrites
  <2>1. PICK s \in {<<"pending", "reserved">>, <<"reserved", "intended">>, <<"intended", "confirmed">>} :
            row.status = s[1] /\ Writes("saga", s[2], row.shipment)
    BY <1>3 DEF SagaWrites
  <2>2. s[2] \in Statuses /\ s[2] # "shipped" /\ row.status \notin Refundable /\ row.status # "shipped"
    BY <2>1 DEF Statuses, Refundable
  <2>3. saga' \in {"going", "failing", "over"}
    BY <1>1, <1>3 DEF SagaWrites
  <2> QED
    BY <1>1, <1>2, <2>1, <2>2, <2>3, WritesInv
<1>4. CASE MarkFailed
  <2>1. Writes("saga", "failed", row.shipment) /\ saga' = "over"
    BY <1>4 DEF MarkFailed
  <2>2. "failed" \in Statuses /\ row.status \notin Refundable /\ row.status # "shipped"
    BY <1>4 DEF MarkFailed, Statuses, Refundable
  <2> QED
    BY <1>1, <1>2, <2>1, <2>2, WritesInv
<1>5. CASE ShipOrder
  <2>1. Writes("ship", "shipped", "preparing") /\ saga' = saga
    BY <1>5 DEF ShipOrder
  <2>2. "shipped" \in Statuses /\ "preparing" \in Shipments /\ "shipped" \in Refundable
    BY DEF Statuses, Shipments, Refundable
  <2> QED
    BY <1>1, <1>2, <2>1, <2>2, WritesInv
<1>6. ASSUME NEW t \in Ticks, Advance(t)
      PROVE  OrderReadsInv'
  <2>1. PICK s \in {<<"preparing", "dispatched">>, <<"dispatched", "delivered">>} :
            row.shipment = s[1] /\ Writes(t, row.status, s[2])
    BY <1>6 DEF Advance
  <2>2. s[2] \in Shipments /\ s[2] # "none" /\ row.shipment # "none" /\ saga' = saga
    BY <1>6, <2>1 DEF Advance, Shipments
  <2> QED
    BY <1>1, <1>2, <2>1, <2>2, WritesInv
<1>7. ASSUME NEW w \in Writers, InvalidateOrderCache(w)
      PROVE  OrderReadsInv'
  <2>1. NoEntry \in [value : Loaded, ttl : 0 .. MaxTtl]
    BY NothingLoaded, OrderReadsBounds DEF NoEntry
  <2>2. /\ cached' \in [Kinds -> [value : Loaded, ttl : 0 .. MaxTtl]]
        /\ \A k \in Kinds : cached'[k] = NoEntry
    BY <1>7, <2>1 DEF InvalidateOrderCache
  <2>3. UNCHANGED <<row, returned>> /\ read' = Passing /\ owed' \subseteq Writers /\ saga' = saga
    BY <1>1, <1>7 DEF InvalidateOrderCache
  <2> QED
    BY <1>1, <2>2, <2>3, DeletionInv
<1>8. ASSUME NEW w \in Writers, NeverInvalidates(w)
      PROVE  OrderReadsInv'
  <2>1. ASSUME NEW k \in Kinds
        PROVE  /\ cached'[k] \in [value : Loaded, ttl : 0 .. MaxTtl]
               /\ Same(cached[k].value, cached'[k].value)
    <3>1. cached[k] \in [value : Loaded, ttl : 0 .. MaxTtl]
      BY DEF OrderReadsInv, OrderReadsTypeOK
    <3>2. cached'[k] = [cached[k] EXCEPT !.value.passedBy = cached[k].ttl > 0]
      BY <1>8 DEF NeverInvalidates
    <3>3. cached'[k].value = [cached[k].value EXCEPT !.passedBy = cached[k].ttl > 0]
      BY <3>1, <3>2
    <3>4. (cached[k].ttl > 0) \in BOOLEAN
      OBVIOUS
    <3>5. cached'[k].value \in Loaded /\ Same(cached[k].value, cached'[k].value)
      BY <3>1, <3>3, <3>4 DEF Loaded, Same
    <3> QED
      BY <3>1, <3>2, <3>5
  <2>2. cached' \in [Kinds -> [value : Loaded, ttl : 0 .. MaxTtl]]
    BY <1>8, <2>1 DEF NeverInvalidates
  <2>3. UNCHANGED <<row, returned>> /\ read' = Passing /\ owed' \subseteq Writers
    BY <1>1, <1>8 DEF NeverInvalidates
  <2>4. saga' \in {"going", "failing", "over"}
    BY <1>1, <1>8 DEF NeverInvalidates
  <2> QED
    BY <2>1, <2>2, <2>3, <2>4, DeletionInv
<1> QED
  BY <1>3, <1>4, <1>5, <1>6, <1>7, <1>8 DEF WriterStep

LEMMA ReaderStep_Inv ==
    ASSUME OrderReadsInv, NEW r \in Readers, ReaderStep(r)
    PROVE  OrderReadsInv'
<1>1. /\ read[r] \in ReadRecord /\ read \in [Readers -> ReadRecord] /\ ReadInv(r)
      /\ cached \in [Kinds -> [value : Loaded, ttl : 0 .. MaxTtl]]
      /\ row \in [status : Statuses, shipment : Shipments]
      /\ row.status = "shipped" <=> row.shipment # "none"
      /\ returned \in Seq(1 .. Ordered) /\ RefundsOnlySold
  BY DEF OrderReadsInv, OrderReadsTypeOK, ReadRecord
<1>2. /\ read[r].kind \in Kinds /\ read[r].value \in Loaded /\ read[r].loaded \in 0 .. 2
      /\ cached[read[r].kind] \in [value : Loaded, ttl : 0 .. MaxTtl] /\ CachedInv(read[r].kind)
  BY <1>1 DEF ReadRecord, OrderReadsInv
<1>3. returned' = returned /\ row' = row => RefundsOnlySold'
  BY <1>1 DEF RefundsOnlySold
<1>4. ASSUME NEW k \in Kinds, BeginRead(r, k)
      PROVE  OrderReadsInv'
  <2>1. Read(k, "look", Nothing) \in ReadRecord
    BY NothingLoaded, ReadType
  <2>2. read' = [read EXCEPT ![r] = Read(k, "look", Nothing)] /\ UNCHANGED <<row, saga, owed, cached, returned>>
    BY <1>4 DEF BeginRead
  <2>3. ReadInv(r)'
    BY <1>1, <2>2, FreshRead
  <2> QED
    BY <1>1, <1>3, <2>1, <2>2, <2>3, ReaderInv
<1>5. CASE ReadFails(r)
  <2>1. Read("order", "idle", Nothing) \in ReadRecord
    BY NothingLoaded, ReadType DEF Kinds
  <2>2. read' = [read EXCEPT ![r] = Read("order", "idle", Nothing)] /\ UNCHANGED <<row, saga, owed, cached, returned>>
    BY <1>5 DEF ReadFails
  <2>3. ReadInv(r)'
    BY <1>1, <2>2, FreshRead DEF Kinds
  <2> QED
    BY <1>1, <1>3, <2>1, <2>2, <2>3, ReaderInv
<1>6. ASSUME NEW qty \in 1 .. Ordered, CreateReturn(r, qty)
      PROVE  OrderReadsInv'
  <2>1. Read("order", "idle", Nothing) \in ReadRecord
    BY NothingLoaded, ReadType DEF Kinds
  <2>2. read' = [read EXCEPT ![r] = Read("order", "idle", Nothing)] /\ UNCHANGED <<row, saga, owed, cached>>
    BY <1>6 DEF CreateReturn
  <2>3. ReadInv(r)'
    BY <1>1, <2>2, FreshRead DEF Kinds
  <2>4. returned' \in Seq(1 .. Ordered)
    BY <1>1, <1>6 DEF CreateReturn
  <2>5. row.status \in Refundable
    BY <1>1, <1>6 DEF CreateReturn, ReadInv, SoldStays
  <2>6. RefundsOnlySold'
    BY <2>2, <2>5 DEF RefundsOnlySold, Refundable
  <2> QED
    BY <1>1, <2>1, <2>2, <2>3, <2>4, <2>6, ReaderInv
<1>7. CASE Look(r)
  <2>1. UNCHANGED <<row, saga, owed, returned, cached>>
    BY <1>7 DEF Look, Hit, Miss
  <2>2. CASE Hit(r)
    <3> DEFINE v == cached[read[r].kind].value
               w == Read(read[r].kind, "answered", v)
    <3>1. v \in Loaded /\ w \in ReadRecord
      BY <1>2, ReadType
    <3>2. read' = [read EXCEPT ![r] = w]
      BY <2>2 DEF Hit, Answered
    <3>3. read'[r].kind = read[r].kind /\ read'[r].at = "answered" /\ read'[r].value = v
      BY <1>1, <3>2 DEF Read
    <3>4. ReadInv(r)'
      BY <1>2, <2>1, <3>3 DEF ReadInv, CachedInv, SoldStays, Agrees
    <3> QED
      BY <1>1, <1>3, <2>1, <3>1, <3>2, <3>4, ReaderInv
  <2>3. CASE Miss(r)
    <3> DEFINE w == [read[r] EXCEPT !.at = "load"]
    <3>1. w \in ReadRecord
      BY <1>1 DEF ReadRecord
    <3>2. read' = [read EXCEPT ![r] = w]
      BY <2>3 DEF Miss, ReadGoes
    <3>3. /\ read'[r].kind = read[r].kind /\ read'[r].at = "load" /\ read'[r].value = read[r].value
          /\ read'[r].loaded = 0
      BY <1>1, <1>7, <3>2 DEF Look, ReadInv, ReadRecord
    <3>4. ReadInv(r)'
      BY <1>1, <2>1, <3>3 DEF ReadInv, SoldStays
    <3> QED
      BY <1>1, <1>3, <2>1, <3>1, <3>2, <3>4, ReaderInv
  <2> QED
    BY <1>7, <2>2, <2>3 DEF Look
<1>8. CASE Store(r)
  <2> DEFINE k == read[r].kind
             v == read[r].value
             w == Read(k, "answered", v)
  <2>1. w \in ReadRecord
    BY <1>2, ReadType
  <2>2. /\ read' = [read EXCEPT ![r] = w] /\ UNCHANGED <<row, saga, owed, returned>>
        /\ cached' = [cached EXCEPT ![k] = [value |-> v, ttl |-> Ttl(k)]]
    BY <1>8 DEF Store, Answered
  <2>3. read'[r].kind = k /\ read'[r].at = "answered" /\ read'[r].value = v
    BY <1>1, <2>2 DEF Read
  <2>4. SoldStays(v) /\ (k = "timeline" => Agrees(v))
    BY <1>1, <1>8 DEF ReadInv, Store
  <2>5. ReadInv(r)'
    BY <2>2, <2>3, <2>4 DEF ReadInv, SoldStays, Agrees
  <2>6. cached' \in [Kinds -> [value : Loaded, ttl : 0 .. MaxTtl]]
    BY <1>1, <1>2, <2>2, OrderReadsBounds
  <2>7. ASSUME NEW j \in Kinds
        PROVE  cached'[j].value = cached[j].value \/ CachedInv(j)'
    <3>1. CASE j = k
      <4>1. cached'[j].value = v
        BY <1>1, <2>2, <3>1
      <4> QED
        BY <2>2, <2>4, <3>1, <4>1 DEF CachedInv, SoldStays, Agrees
    <3>2. CASE j # k
      BY <1>1, <2>2, <3>2
    <3> QED
      BY <3>1, <3>2
  <2> QED
    BY <1>1, <1>3, <2>1, <2>2, <2>5, <2>6, <2>7, ReaderInv
<1>9. CASE Load(r)
  <2> DEFINE n == read[r].loaded + 1
             all == Statements(read[r].kind)
             v == IF all[n] = "order" THEN [read[r].value EXCEPT !.status = row.status]
                  ELSE [read[r].value EXCEPT !.shipment = row.shipment]
             p == IF n = Len(all) THEN "store" ELSE "load"
             w == [read[r] EXCEPT !.at = p, !.loaded = n, !.value = v]
  <2>1. read[r].at = "load" /\ UNCHANGED <<row, saga, owed, cached, returned>>
    BY <1>9 DEF Load
  <2>2. read' = [read EXCEPT ![r] = w]
    BY <1>1, <1>9 DEF Load
  <2>3. v \in Loaded
    BY <1>1, <1>2 DEF Loaded
  <2>4. CASE read[r].kind = "order"
    <3>1. n = 1 /\ Len(all) = 1 /\ all[n] = "order" /\ p = "store"
      BY <1>1, <1>2, <2>1, <2>4 DEF Statements, ReadInv
    <3>2. w \in ReadRecord
      <4> HIDE DEF v, n, p
      <4>1. read[r] \in ReadRecord /\ p \in {"load", "store"} /\ n \in 0 .. 2
        BY <1>1, <3>1
      <4> QED
        BY <4>1, <2>3, LoadedRecord
    <3>3. read'[r].kind = "order" /\ read'[r].at = "store" /\ read'[r].value = v
      BY <1>1, <2>2, <2>4, <3>1, <3>2 DEF ReadRecord
    <3>4. v.status = row.status
      BY <1>2, <3>1 DEF Loaded
    <3>5. ReadInv(r)'
      BY <1>1, <2>1, <3>3, <3>4 DEF ReadInv, SoldStays
    <3> QED
      BY <1>1, <1>3, <2>1, <2>2, <3>2, <3>5, ReaderInv
  <2>5. CASE read[r].kind = "timeline" /\ n = 1
    <3>1. Len(all) = 2 /\ all[n] = "order" /\ p = "load"
      BY <2>5 DEF Statements
    <3>2. w \in ReadRecord
      <4> HIDE DEF v, n, p
      <4>1. read[r] \in ReadRecord /\ p \in {"load", "store"} /\ n \in 0 .. 2
        BY <1>1, <2>5, <3>1
      <4> QED
        BY <4>1, <2>3, LoadedRecord
    <3>3. /\ read'[r].kind = "timeline" /\ read'[r].at = "load" /\ read'[r].value = v
          /\ read'[r].loaded = 1
      BY <1>1, <2>2, <2>5, <3>1, <3>2 DEF ReadRecord
    <3>4. v.status = row.status
      BY <1>2, <3>1 DEF Loaded
    <3>5. ReadInv(r)'
      BY <1>1, <2>1, <3>3, <3>4 DEF ReadInv, SoldStays
    <3> QED
      BY <1>1, <1>3, <2>1, <2>2, <3>2, <3>5, ReaderInv
  <2>6. CASE read[r].kind = "timeline" /\ n # 1
    <3>1. n = 2 /\ Len(all) = 2 /\ all[n] = "shipment" /\ p = "store"
      BY <1>1, <1>2, <2>1, <2>6 DEF Statements, ReadInv
    <3>2. w \in ReadRecord
      <4> HIDE DEF v, n, p
      <4>1. read[r] \in ReadRecord /\ p \in {"load", "store"} /\ n \in 0 .. 2
        BY <1>1, <3>1
      <4> QED
        BY <4>1, <2>3, LoadedRecord
    <3>3. read'[r].kind = "timeline" /\ read'[r].at = "store" /\ read'[r].value = v
      BY <1>1, <2>2, <2>6, <3>1, <3>2 DEF ReadRecord
    <3>4. v.status = read[r].value.status /\ v.shipment = row.shipment
      BY <1>2, <3>1 DEF Loaded
    <3>5. ReadInv(r)'
      BY <1>1, <2>1, <3>3, <3>4 DEF ReadInv, SoldStays, Agrees
    <3> QED
      BY <1>1, <1>3, <2>1, <2>2, <3>2, <3>5, ReaderInv
  <2> QED
    BY <1>2, <2>4, <2>5, <2>6 DEF Kinds
<1> QED
  BY <1>4, <1>5, <1>6, <1>7, <1>8, <1>9 DEF ReaderStep

LEMMA TimePasses_Inv == OrderReadsInv /\ TimePasses => OrderReadsInv'
<1> SUFFICES ASSUME OrderReadsInv, TimePasses
             PROVE  OrderReadsInv'
  OBVIOUS
<1>1. /\ read \in [Readers -> ReadRecord] /\ UNCHANGED <<row, saga, owed, returned>>
      /\ cached \in [Kinds -> [value : Loaded, ttl : 0 .. MaxTtl]]
  BY DEF OrderReadsInv, OrderReadsTypeOK, ReadRecord, TimePasses
<1>2. ASSUME NEW k \in Kinds
      PROVE  cached'[k] \in [value : Loaded, ttl : 0 .. MaxTtl] /\ CachedInv(k)'
  <2>1. cached[k] \in [value : Loaded, ttl : 0 .. MaxTtl] /\ CachedInv(k)
    BY <1>1 DEF OrderReadsInv
  <2>2. CASE cached[k].ttl <= 1
    <3>1. cached'[k] = NoEntry
      BY <2>2 DEF TimePasses
    <3>2. cached'[k].value = Nothing /\ cached'[k].ttl = 0 /\ Nothing.status = "pending"
      BY <3>1 DEF NoEntry, Nothing
    <3> QED
      BY <3>1, <3>2, NothingLoaded, OrderReadsBounds
      DEF NoEntry, CachedInv, SoldStays, Agrees, Refundable
  <2>3. CASE cached[k].ttl > 1
    <3>1. cached'[k] = [value |-> Aged(k, cached[k].value), ttl |-> cached[k].ttl - 1]
      <4>1. cached'[k] = IF cached[k].ttl <= 1 THEN NoEntry
                         ELSE [value |-> Aged(k, cached[k].value), ttl |-> cached[k].ttl - 1]
        BY DEF TimePasses
      <4>2. cached[k].ttl \in Nat
        BY <2>1, OrderReadsBounds
      <4> QED
        BY <2>3, <4>1, <4>2
    <3>2. Same(cached[k].value, Aged(k, cached[k].value))
      BY <2>1, AgedSame
    <3>3. cached[k].ttl - 1 \in 0 .. MaxTtl
      BY <2>1, <2>3, OrderReadsBounds
    <3> QED
      BY <1>1, <2>1, <3>1, <3>2, <3>3, CachedKept DEF Same
  <2> QED
    BY <2>1, <2>2, <2>3, OrderReadsBounds
<1>3. ASSUME NEW r \in Readers
      PROVE  read'[r] \in ReadRecord /\ ReadInv(r)'
  <2>1. read[r] \in ReadRecord /\ ReadInv(r)
    BY <1>1 DEF OrderReadsInv
  <2>2. CASE ~Reading(r)
    <3>1. read'[r] = read[r]
      BY <2>2 DEF TimePasses
    <3> QED
      BY <1>1, <2>1, <3>1 DEF ReadInv, SoldStays, Agrees
  <2>3. CASE Reading(r)
    <3> DEFINE v == IF PassedBy(r) THEN Aged(read[r].kind, read[r].value) ELSE read[r].value
    <3>1. read[r].age + 1 \in 0 .. MaxRequest
      <4>1. read[r].age \in 0 .. MaxRequest /\ MaxRequest \in Nat
        BY <2>1, OrderReadsBounds DEF ReadRecord
      <4>2. read[r].age < MaxRequest
        BY <2>3 DEF TimePasses
      <4> QED
        BY <4>1, <4>2
    <3>2. read'[r] = [read[r] EXCEPT !.age = read[r].age + 1, !.value = v]
      BY <2>1, <2>3 DEF TimePasses, ReadRecord
    <3>3. Same(read[r].value, v)
      BY <2>1, AgedSame DEF Same, ReadRecord
    <3> HIDE DEF v
    <3>4. /\ read'[r].at = read[r].at /\ read'[r].kind = read[r].kind
          /\ read'[r].loaded = read[r].loaded /\ read'[r].value = v /\ read'[r] \in ReadRecord
      BY <2>1, <3>1, <3>2, <3>3 DEF ReadRecord, Same
    <3> QED
      BY <1>1, <2>1, <3>3, <3>4, ReadKept
  <2> QED
    BY <2>2, <2>3
<1>4. read' \in [Readers -> ReadRecord] /\ cached' \in [Kinds -> [value : Loaded, ttl : 0 .. MaxTtl]]
  BY <1>2, <1>3 DEF TimePasses
<1>5. OrderReadsTypeOK'
  BY <1>1, <1>4 DEF OrderReadsInv, OrderReadsTypeOK, ReadRecord
<1> QED
  BY <1>1, <1>2, <1>3, <1>5 DEF OrderReadsInv, RefundsOnlySold

LEMMA OrderReadsNext_Inv == OrderReadsInv /\ [OrderReadsNext]_orderReadsVars => OrderReadsInv'
<1> SUFFICES ASSUME OrderReadsInv, [OrderReadsNext]_orderReadsVars
             PROVE  OrderReadsInv'
  OBVIOUS
<1>1. CASE UNCHANGED orderReadsVars
  BY <1>1
  DEF orderReadsVars, OrderReadsInv, OrderReadsTypeOK, ReadInv, CachedInv, SoldStays, Agrees,
      RefundsOnlySold
<1> QED
  BY <1>1, WriterStep_Inv, ReaderStep_Inv, TimePasses_Inv DEF OrderReadsNext

\* Rows, caches and readers stay within their types.
THEOREM OrderReadsTypeCorrect == OrderReadsSpec => []OrderReadsTypeOK
<1>1. OrderReadsInv => OrderReadsTypeOK
  BY DEF OrderReadsInv
<1> QED
  BY OrderReadsInit_Inv, OrderReadsNext_Inv, <1>1, PTL DEF OrderReadsSpec

\* A timeline, from the cache or not, never shows a shipped order without a shipment,
\* for any number of readers, ticks and returns.
THEOREM TimelineCorrect == OrderReadsSpec => []TimelineAgrees
<1>1. OrderReadsInv => TimelineAgrees
  BY DEF OrderReadsInv, TimelineAgrees, CachedValues, AnsweredValues, Ended, ReadInv,
         CachedInv, Agrees
<1> QED
  BY OrderReadsInit_Inv, OrderReadsNext_Inv, <1>1, PTL DEF OrderReadsSpec

\* A return is one of an order that was sold and stays sold, however old the answer
\* was that it was created from.
THEOREM RefundsOnlySoldCorrect == OrderReadsSpec => []RefundsOnlySold
<1>1. OrderReadsInv => RefundsOnlySold
  BY DEF OrderReadsInv
<1> QED
  BY OrderReadsInit_Inv, OrderReadsNext_Inv, <1>1, PTL DEF OrderReadsSpec

-----------------------------------------------------------------------------
(* OrderReads: how old an answer is, and why *)

\* What is being read grows no older than the read; what was answered was cached at
\* most as long as the cache keeps it.
ReadRecent(r) ==
    /\ Reading(r) => read[r].value.old <= read[r].age
    /\ Ended(r) => read[r].value.old <= Ttl(read[r].kind) + MaxRequest

\* Something that r has loaded is not in the rows any more.
Superseded(r) ==
    \/ read[r].loaded > 0 /\ read[r].value.status # row.status
    \/ read[r].loaded = 2 /\ read[r].value.shipment # row.shipment

ReadExplained(r) ==
    /\ read[r].at \in {"load", "store"} /\ Superseded(r) => owed # {} \/ read[r].value.passedBy
    /\ read[r].at = "store" => read[r].loaded = IF read[r].kind = "order" THEN 1 ELSE 2

\* What is old already is not kept for long any more.
CachedRecent(k) ==
    cached[k].ttl > 0 => cached[k].value.old + cached[k].ttl <= Ttl(k) + MaxRequest

CachedExplained(k) ==
    cached[k].ttl > 0 /\ Outdated(k, cached[k].value) => owed # {} \/ cached[k].value.passedBy

FreshReader(r) == ReadRecent(r) /\ ReadExplained(r)
FreshCache(k) == CachedRecent(k) /\ CachedExplained(k)

FreshInv == (\A r \in Readers : FreshReader(r)) /\ (\A k \in Kinds : FreshCache(k))

LEMMA FreshTypes ==
    ASSUME OrderReadsInv
    PROVE  /\ \A r \in Readers :
                 /\ read[r] \in ReadRecord /\ read[r].kind \in Kinds /\ read[r].value \in Loaded
                 /\ read[r].value.old \in Nat /\ read[r].age \in 0 .. MaxRequest
                 /\ read[r].loaded \in 0 .. 2
           /\ \A k \in Kinds :
                 /\ cached[k] \in [value : Loaded, ttl : 0 .. MaxTtl] /\ cached[k].value \in Loaded
                 /\ cached[k].ttl \in Nat /\ cached[k].value.old \in Nat /\ Ttl(k) \in Nat
           /\ MaxRequest \in Nat
<1>1. /\ \A r \in Readers : read[r] \in ReadRecord
      /\ \A k \in Kinds : cached[k] \in [value : Loaded, ttl : 0 .. MaxTtl]
      /\ \A v \in Loaded : v.old \in Nat
  BY OrderReadsBounds DEF OrderReadsInv, OrderReadsTypeOK, ReadRecord, Loaded
<1>2. \A k \in Kinds : Ttl(k) \in Nat
  BY OrderReadsBounds
<1> QED BY <1>1, <1>2, OrderReadsBounds DEF ReadRecord

LEMMA FreshInit == OrderReadsInit => FreshInv
<1> SUFFICES ASSUME OrderReadsInit PROVE FreshInv
  OBVIOUS
<1>1. ASSUME NEW r \in Readers PROVE FreshReader(r)
  <2>1. read[r].at = "idle"
    BY DEF OrderReadsInit, Read
  <2> QED BY <2>1 DEF FreshReader, ReadRecent, ReadExplained, Reading, Ended
<1>2. ASSUME NEW k \in Kinds PROVE FreshCache(k)
  <2>1. cached[k].ttl = 0
    BY DEF OrderReadsInit, NoEntry
  <2> QED BY <2>1 DEF FreshCache, CachedRecent, CachedExplained
<1> QED BY <1>1, <1>2 DEF FreshInv

\* An UPDATE leaves its writer to delete what it outdates.
LEMMA WritesFresh ==
    ASSUME FreshInv, NEW w, NEW st, NEW shipment, Writes(w, st, shipment)
    PROVE  FreshInv'
<1>1. UNCHANGED <<cached, read>> /\ owed' # {}
  BY DEF Writes
<1> QED
  BY <1>1 DEF FreshInv, FreshReader, FreshCache, ReadRecent, ReadExplained, CachedRecent,
              CachedExplained, Reading, Ended

\* A deletion, done or lost, marks every value that was there before it.
LEMMA DeletionFresh ==
    ASSUME OrderReadsInv, FreshInv, row' = row, read' = Passing,
           \A k \in Kinds :
               \/ cached'[k] = NoEntry
               \/ cached'[k] = [cached[k] EXCEPT !.value.passedBy = cached[k].ttl > 0]
    PROVE  FreshInv'
<1>1. ASSUME NEW r \in Readers
      PROVE  FreshReader(r)'
  <2>1. read[r] \in ReadRecord /\ read[r].value \in Loaded /\ read[r].loaded \in 0 .. 2
    BY FreshTypes
  <2>2. read'[r] = IF PassedBy(r) THEN [read[r] EXCEPT !.value.passedBy = TRUE] ELSE read[r]
    BY DEF Passing
  <2>3. /\ read'[r].at = read[r].at /\ read'[r].kind = read[r].kind
        /\ read'[r].loaded = read[r].loaded /\ read'[r].age = read[r].age
        /\ read'[r].value.old = read[r].value.old
        /\ PassedBy(r) => read'[r].value.passedBy
    BY <2>1, <2>2 DEF ReadRecord, Loaded
  <2>4. Superseded(r)' => PassedBy(r)
    BY <2>1, <2>3 DEF Superseded, PassedBy
  <2> QED
    BY <2>3, <2>4 DEF FreshInv, FreshReader, ReadRecent, ReadExplained, Reading, Ended
<1>2. ASSUME NEW k \in Kinds
      PROVE  FreshCache(k)'
  <2>1. CASE cached'[k] = NoEntry
    BY <2>1 DEF FreshCache, CachedRecent, CachedExplained, NoEntry
  <2>2. CASE cached'[k] = [cached[k] EXCEPT !.value.passedBy = cached[k].ttl > 0]
    <3>1. cached[k] \in [value : Loaded, ttl : 0 .. MaxTtl] /\ cached[k].value \in Loaded
      BY FreshTypes
    <3>2. cached'[k].value = [cached[k].value EXCEPT !.passedBy = cached[k].ttl > 0]
      BY <2>2, <3>1
    <3>3. cached'[k].ttl = cached[k].ttl /\ cached'[k].value.old = cached[k].value.old
      BY <2>2, <3>1, <3>2 DEF Loaded
    <3>4. cached[k].ttl > 0 => cached'[k].value.passedBy
      BY <3>1, <3>2 DEF Loaded
    <3> QED BY <3>3, <3>4 DEF FreshInv, FreshCache, CachedRecent, CachedExplained
  <2> QED BY <2>1, <2>2
<1> QED BY <1>1, <1>2 DEF FreshInv

LEMMA WriterFresh ==
    ASSUME OrderReadsInv, FreshInv, WriterStep
    PROVE  FreshInv'
<1>1. CASE SagaWrites \/ MarkFailed \/ ShipOrder \/ \E t \in Ticks : Advance(t)
  BY <1>1, WritesFresh DEF SagaWrites, MarkFailed, ShipOrder, Advance
<1>2. ASSUME NEW w \in Writers, InvalidateOrderCache(w)
      PROVE  FreshInv'
  BY <1>2, DeletionFresh DEF InvalidateOrderCache
<1>3. ASSUME NEW w \in Writers, NeverInvalidates(w)
      PROVE  FreshInv'
  BY <1>3, DeletionFresh DEF NeverInvalidates
<1> QED BY <1>1, <1>2, <1>3 DEF WriterStep

\* A step of one reader.
LEMMA ReaderKeepsFresh ==
    ASSUME OrderReadsInv, FreshInv, NEW r \in Readers, UNCHANGED <<row, owed>>,
           NEW v, read' = [read EXCEPT ![r] = v], FreshReader(r)',
           \A k \in Kinds : cached'[k] = cached[k] \/ FreshCache(k)'
    PROVE  FreshInv'
<1>1. ASSUME NEW s \in Readers, s # r
      PROVE  FreshReader(s)'
  <2>1. read'[s] = read[s]
    BY <1>1 DEF OrderReadsInv, OrderReadsTypeOK
  <2> QED
    BY <2>1 DEF FreshInv, FreshReader, ReadRecent, ReadExplained, Superseded, Reading, Ended
<1>2. ASSUME NEW k \in Kinds, cached'[k] = cached[k]
      PROVE  FreshCache(k)'
  BY <1>2 DEF FreshInv, FreshCache, CachedRecent, CachedExplained, Outdated
<1> QED BY <1>1, <1>2 DEF FreshInv

\* A read that has loaded nothing.
LEMMA NothingIsFresh ==
    ASSUME NEW r \in Readers, NEW k \in Kinds, NEW p \in {"idle", "look"},
           read'[r] = Read(k, p, Nothing)
    PROVE  FreshReader(r)'
<1>1. read'[r].at = p /\ read'[r].value.old = 0 /\ read'[r].age = 0
  BY DEF Read, Nothing
<1> QED BY <1>1 DEF FreshReader, ReadRecent, ReadExplained, Reading, Ended

LEMMA ReaderFresh ==
    ASSUME OrderReadsInv, FreshInv, NEW r \in Readers, ReaderStep(r)
    PROVE  FreshInv'
<1> DEFINE k == read[r].kind
           v == read[r].value
<1>1. /\ read \in [Readers -> ReadRecord] /\ read[r] \in ReadRecord /\ k \in Kinds /\ v \in Loaded
      /\ v.old \in Nat /\ read[r].age \in 0 .. MaxRequest /\ MaxRequest \in Nat
      /\ read[r].loaded \in 0 .. 2
      /\ cached[k] \in [value : Loaded, ttl : 0 .. MaxTtl]
      /\ cached[k].ttl \in Nat /\ cached[k].value.old \in Nat /\ Ttl(k) \in Nat
      /\ cached \in [Kinds -> [value : Loaded, ttl : 0 .. MaxTtl]]
  BY FreshTypes DEF OrderReadsInv, OrderReadsTypeOK, ReadRecord
<1>2. ReadRecent(r) /\ ReadExplained(r) /\ CachedRecent(k) /\ ReadInv(r)
  BY <1>1 DEF FreshInv, FreshReader, FreshCache, OrderReadsInv
<1>3. ASSUME NEW j \in Kinds, BeginRead(r, j)
      PROVE  FreshInv'
  <2>1. read' = [read EXCEPT ![r] = Read(j, "look", Nothing)] /\ UNCHANGED <<row, owed, cached>>
    BY <1>3 DEF BeginRead
  <2>2. FreshReader(r)'
    BY <1>1, <2>1, NothingIsFresh
  <2> QED BY <2>1, <2>2, ReaderKeepsFresh
<1>4. CASE ReadFails(r) \/ \E qty \in 1 .. Ordered : CreateReturn(r, qty)
  <2>1. /\ read' = [read EXCEPT ![r] = Read("order", "idle", Nothing)]
        /\ UNCHANGED <<row, owed, cached>>
    BY <1>4 DEF ReadFails, CreateReturn
  <2>2. FreshReader(r)'
    BY <1>1, <2>1, NothingIsFresh DEF Kinds
  <2> QED BY <2>1, <2>2, ReaderKeepsFresh
<1>5. CASE Look(r) /\ Hit(r)
  <2> DEFINE u == cached[k].value
  <2>1. /\ read' = [read EXCEPT ![r] = Read(k, "answered", u)] /\ UNCHANGED <<row, owed, cached>>
        /\ cached[k].ttl > 0
    BY <1>5 DEF Look, Hit, Answered
  <2>2. read'[r].at = "answered" /\ read'[r].kind = k /\ read'[r].value = u
    BY <1>1, <2>1 DEF Read
  <2>3. u.old <= Ttl(k) + MaxRequest
    BY <1>1, <1>2, <2>1 DEF CachedRecent
  <2>4. FreshReader(r)'
    BY <2>2, <2>3 DEF FreshReader, ReadRecent, ReadExplained, Reading, Ended
  <2> QED BY <2>1, <2>4, ReaderKeepsFresh
<1>6. CASE Look(r) /\ Miss(r)
  <2>1. /\ read' = [read EXCEPT ![r] = [read[r] EXCEPT !.at = "load"]]
        /\ UNCHANGED <<row, owed, cached>> /\ read[r].at = "look"
    BY <1>6 DEF Look, Miss, ReadGoes
  <2>2. /\ read'[r].at = "load" /\ read'[r].value = v /\ read'[r].age = read[r].age
        /\ read'[r].loaded = 0
    BY <1>1, <1>2, <2>1 DEF ReadRecord, ReadInv
  <2>3. FreshReader(r)'
    BY <1>2, <2>1, <2>2 DEF FreshReader, ReadRecent, ReadExplained, Superseded, Reading, Ended
  <2> QED BY <2>1, <2>3, ReaderKeepsFresh
<1>7. CASE Store(r)
  <2>1. /\ read' = [read EXCEPT ![r] = Read(k, "answered", v)] /\ UNCHANGED <<row, owed>>
        /\ cached' = [cached EXCEPT ![k] = [value |-> v, ttl |-> Ttl(k)]]
        /\ read[r].at = "store"
    BY <1>7 DEF Store, Answered
  <2>2. read'[r].at = "answered" /\ read'[r].kind = k /\ read'[r].value = v
    BY <1>1, <2>1 DEF Read
  <2>3. v.old <= MaxRequest
    BY <1>1, <1>2, <2>1 DEF ReadRecent, Reading
  <2>4. FreshReader(r)'
    BY <1>1, <2>2, <2>3 DEF FreshReader, ReadRecent, ReadExplained, Reading, Ended
  <2>5. Outdated(k, v) => Superseded(r)
    BY <1>1, <1>2, <2>1 DEF Outdated, Superseded, ReadExplained, Kinds
  <2>6. ASSUME NEW j \in Kinds, j = k
        PROVE  FreshCache(j)'
    <3>1. cached'[j].value = v /\ cached'[j].ttl = Ttl(j)
      BY <1>1, <2>1, <2>6
    <3>2. CachedRecent(j)'
      BY <1>1, <2>3, <2>6, <3>1 DEF CachedRecent
    <3>3. Outdated(j, cached[j].value)' => Superseded(r)
      BY <2>1, <2>5, <2>6, <3>1 DEF Outdated
    <3>4. CachedExplained(j)'
      BY <1>2, <2>1, <3>1, <3>3 DEF CachedExplained, ReadExplained
    <3> QED BY <3>2, <3>4 DEF FreshCache
  <2>7. \A j \in Kinds : cached'[j] = cached[j] \/ FreshCache(j)'
    BY <1>1, <2>1, <2>6
  <2> QED BY <2>1, <2>4, <2>7, ReaderKeepsFresh
<1>8. CASE Load(r)
  <2> DEFINE n == read[r].loaded + 1
             all == Statements(k)
             u == IF all[n] = "order" THEN [v EXCEPT !.status = row.status]
                  ELSE [v EXCEPT !.shipment = row.shipment]
             p == IF n = Len(all) THEN "store" ELSE "load"
             w == [read[r] EXCEPT !.at = p, !.loaded = n, !.value = u]
  <2>1. read[r].at = "load" /\ UNCHANGED <<row, owed, cached>>
    BY <1>8 DEF Load
  <2>2. read' = [read EXCEPT ![r] = w]
    BY <1>1, <1>8 DEF Load
  <2>3. /\ read'[r].at = p /\ read'[r].kind = k /\ read'[r].loaded = n
        /\ read'[r].value = u /\ read'[r].age = read[r].age
    <3> HIDE DEF p, n, u
    <3> QED BY <1>1, <2>2 DEF ReadRecord
  <2>4. u.old = v.old /\ u.passedBy = v.passedBy
    BY <1>1 DEF Loaded
  <2>5. \/ k = "order" /\ n = 1 /\ p = "store" /\ u.status = row.status
        \/ k = "timeline" /\ n = 1 /\ p = "load" /\ u.status = row.status
        \/ k = "timeline" /\ n = 2 /\ p = "store" /\ u.status = v.status /\ u.shipment = row.shipment
    <3>1. CASE k = "order"
      <4>1. read[r].loaded = 0 /\ Len(all) = 1 /\ all[1] = "order"
        BY <1>1, <1>2, <2>1, <3>1 DEF ReadInv, ReadRecord, Statements
      <4> QED BY <1>1, <3>1, <4>1 DEF Loaded
    <3>2. CASE k = "timeline"
      <4>1. read[r].loaded \in {0, 1} /\ Len(all) = 2 /\ all[1] = "order" /\ all[2] = "shipment"
        BY <1>1, <1>2, <2>1, <3>2 DEF ReadInv, ReadRecord, Statements
      <4>2. CASE read[r].loaded = 0
        BY <1>1, <3>2, <4>1, <4>2 DEF Loaded
      <4>3. CASE read[r].loaded = 1
        BY <1>1, <3>2, <4>1, <4>3 DEF Loaded
      <4> QED BY <4>1, <4>2, <4>3
    <3> QED BY <1>1, <3>1, <3>2 DEF Kinds
  <2> HIDE DEF u, p, w
  <2>6. ReadRecent(r)'
    BY <1>2, <2>1, <2>3, <2>4, <2>5 DEF ReadRecent, Reading, Ended
  <2>7. Superseded(r)' => Superseded(r)
    BY <1>1, <2>1, <2>3, <2>5 DEF Superseded
  <2>8. ReadExplained(r)'
    BY <1>2, <2>1, <2>3, <2>4, <2>5, <2>7 DEF ReadExplained
  <2>9. FreshReader(r)'
    BY <2>6, <2>8 DEF FreshReader
  <2> QED BY <2>1, <2>2, <2>9, ReaderKeepsFresh
<1> QED
  BY <1>3, <1>4, <1>5, <1>6, <1>7, <1>8 DEF ReaderStep, Look

\* What grows older is counted, up to an age that is beyond every bound.
LEMMA AgedRecent ==
    ASSUME NEW k, NEW v \in Loaded
    PROVE  LET u == Aged(k, v) IN
           /\ u.old \in Nat /\ v.old \in Nat /\ u.old <= v.old + 1
           /\ u.status = v.status /\ u.shipment = v.shipment /\ u.passedBy = v.passedBy
<1>1. v.old \in Nat
  BY OrderReadsBounds DEF Loaded
<1>2. Aged(k, v) = v \/ Aged(k, v) = [v EXCEPT !.old = v.old + 1]
  BY DEF Aged
<1> QED BY <1>1, <1>2 DEF Loaded

LEMMA TimeFresh ==
    ASSUME OrderReadsInv, FreshInv, TimePasses
    PROVE  FreshInv'
<1>1. UNCHANGED <<row, owed>>
  BY DEF TimePasses
<1>2. ASSUME NEW r \in Readers
      PROVE  FreshReader(r)'
  <2> DEFINE v == read[r].value
             u == IF PassedBy(r) THEN Aged(read[r].kind, v) ELSE v
  <2>1. read[r] \in ReadRecord /\ v \in Loaded /\ v.old \in Nat /\ read[r].age \in Nat
    BY FreshTypes, OrderReadsBounds
  <2>2. FreshReader(r)
    BY DEF FreshInv
  <2>3. CASE ~Reading(r)
    <3>1. read'[r] = read[r]
      BY <2>3 DEF TimePasses
    <3> QED
      BY <1>1, <2>2, <3>1 DEF FreshReader, ReadRecent, ReadExplained, Superseded, Reading, Ended
  <2>4. CASE Reading(r)
    <3>1. read'[r] = [read[r] EXCEPT !.age = read[r].age + 1, !.value = u]
      BY <2>1, <2>4 DEF TimePasses, ReadRecord
    <3>2. /\ u.old \in Nat /\ u.old <= v.old + 1
          /\ u.status = v.status /\ u.shipment = v.shipment /\ u.passedBy = v.passedBy
      BY <2>1, AgedRecent
    <3> HIDE DEF u
    <3>3. /\ read'[r].at = read[r].at /\ read'[r].kind = read[r].kind
          /\ read'[r].loaded = read[r].loaded /\ read'[r].age = read[r].age + 1
          /\ read'[r].value = u
      BY <2>1, <3>1 DEF ReadRecord
    <3>4. ReadRecent(r)'
      BY <2>1, <2>2, <2>4, <3>2, <3>3 DEF FreshReader, ReadRecent, Reading, Ended
    <3>5. ReadExplained(r)'
      BY <1>1, <2>2, <3>2, <3>3 DEF FreshReader, ReadExplained, Superseded
    <3> QED BY <3>4, <3>5 DEF FreshReader
  <2> QED BY <2>3, <2>4
<1>3. ASSUME NEW k \in Kinds
      PROVE  FreshCache(k)'
  <2> DEFINE u == Aged(k, cached[k].value)
  <2>1. /\ cached[k].value \in Loaded /\ cached[k].ttl \in Nat /\ cached[k].value.old \in Nat
        /\ Ttl(k) \in Nat /\ MaxRequest \in Nat
    BY FreshTypes
  <2>2. FreshCache(k)
    BY DEF FreshInv
  <2>3. cached'[k] = IF cached[k].ttl <= 1 THEN NoEntry ELSE [value |-> u, ttl |-> cached[k].ttl - 1]
    BY DEF TimePasses
  <2>4. CASE cached[k].ttl <= 1
    <3>1. cached'[k].ttl = 0
      BY <2>3, <2>4 DEF NoEntry
    <3> QED BY <3>1 DEF FreshCache, CachedRecent, CachedExplained
  <2>5. CASE cached[k].ttl > 1
    <3>1. cached'[k].value = u /\ cached'[k].ttl = cached[k].ttl - 1
      BY <2>1, <2>3, <2>5
    <3>2. /\ u.old \in Nat /\ u.old <= cached[k].value.old + 1
          /\ u.status = cached[k].value.status /\ u.shipment = cached[k].value.shipment
          /\ u.passedBy = cached[k].value.passedBy
      BY <2>1, AgedRecent
    <3> HIDE DEF u
    <3>3. CachedRecent(k)'
      BY <2>1, <2>2, <2>5, <3>1, <3>2 DEF FreshCache, CachedRecent
    <3>4. CachedExplained(k)'
      BY <1>1, <2>1, <2>2, <2>5, <3>1, <3>2 DEF FreshCache, CachedExplained, Outdated
    <3> QED BY <3>3, <3>4 DEF FreshCache
  <2> QED BY <2>1, <2>4, <2>5
<1> QED BY <1>2, <1>3 DEF FreshInv

LEMMA FreshNext ==
    ASSUME OrderReadsInv, FreshInv, [OrderReadsNext]_orderReadsVars
    PROVE  FreshInv'
<1>1. CASE UNCHANGED orderReadsVars
  BY <1>1 DEF orderReadsVars, FreshInv, FreshReader, FreshCache, ReadRecent, ReadExplained,
              Superseded, CachedRecent, CachedExplained, Outdated, Reading, Ended
<1> QED
  BY <1>1, WriterFresh, ReaderFresh, TimeFresh DEF OrderReadsNext

LEMMA FreshCorrect == OrderReadsSpec => []FreshInv
  BY OrderReadsInit_Inv, OrderReadsNext_Inv, FreshInit, FreshNext, PTL DEF OrderReadsSpec

\* No answer shows a state that was over for longer than its cache keeps it and a read
\* takes, although deletions are lost and overtaken by readers that store what they
\* loaded before, for any number of readers, writers and times to live.
THEOREM RecentCorrect == OrderReadsSpec => []AnswersAreRecent
<1>1. FreshInv => AnswersAreRecent
  BY DEF FreshInv, FreshReader, ReadRecent, AnswersAreRecent, AnsweredValues
<1> QED
  BY FreshCorrect, <1>1, PTL

\* A cached value is outdated only before its writer's deletion, or when one was lost or
\* came between a reader's statement and its SET.
THEOREM OutdatedCorrect == OrderReadsSpec => []OutdatedIsExplained
<1>1. FreshInv => OutdatedIsExplained
  BY DEF FreshInv, FreshCache, CachedExplained, OutdatedIsExplained, CachedValues
<1> QED
  BY FreshCorrect, <1>1, PTL

-----------------------------------------------------------------------------
(* Gateway *)

Of(r) == {f \in fetches : f.slot = r}
OnItsWay(r) == {f \in fetches : f.slot = r /\ ~f.done}

\* Times a service executed the request of r, or may still execute it.
Reached(r) == executed[r] + Cardinality(OnItsWay(r))

\* Every try sends one request, and only a GET is tried twice; nothing leaves before
\* the key was found and counted, and a fetch is done when it was executed.
SlotInv(r) ==
    /\ Reached(r) <= IF req[r].at = "forward" THEN req[r].try ELSE req[r].try + 1
    /\ \A f \in Of(r) : f.try <= req[r].try /\ (req[r].at = "forward" => f.try < req[r].try)
    /\ \A f \in Of(r) : f.done => executed[r] > 0
    /\ req[r].at = "relayed" => executed[r] > 0
    /\ \/ req[r].at \in {"idle", "authenticate", "count"} \cup Refusals
       \/ req[r].method \notin SupportedMethods
       => Of(r) = {} /\ executed[r] = 0
    /\ \/ req[r].at \in {"count", "forward", "fetching", "sleeping"}
       \/ Of(r) # {}
       \/ executed[r] > 0
       => req[r].key \in Configured
    /\ req[r].at = "sleeping" => req[r].method = "GET" /\ req[r].try < Retries
    /\ req[r].method # "GET" => req[r].try = 0

GatewayInv ==
    /\ GatewayTypeOK
    /\ IsFiniteSet(fetches)
    /\ \A r \in Requests : SlotInv(r)

\* Of a finite set of fetches, what is on its way can be counted.
LEMMA ReachedNat ==
    ASSUME IsFiniteSet(fetches), NEW r \in Requests, executed[r] \in Nat
    PROVE  /\ IsFiniteSet(OnItsWay(r)) /\ Cardinality(OnItsWay(r)) \in Nat
           /\ Reached(r) \in Nat
<1>1. IsFiniteSet(OnItsWay(r))
  BY FS_Subset DEF OnItsWay
<1>2. Cardinality(OnItsWay(r)) \in Nat
  BY <1>1, FS_CardinalityType
<1> QED
  BY <1>1, <1>2 DEF Reached

LEMMA GatewayInv_Answered == GatewayInv => ExecutedAsAnswered
<1> SUFFICES ASSUME GatewayInv, NEW r \in Requests
             PROVE  LET most == executed[r] + Cardinality(OnItsWay(r)) IN
                    /\ req[r].at \in Refusals => most = 0
                    /\ req[r].at = "relayed" => executed[r] > 0
                    /\ most <= IF req[r].method = "GET" THEN Retries + 1 ELSE 1
                    /\ most > 0 => req[r].key \in Configured
  BY DEF ExecutedAsAnswered, OnItsWay
<1>1. /\ SlotInv(r) /\ executed[r] \in Nat /\ req[r] \in Request /\ req[r].try \in 0 .. Retries
      /\ IsFiniteSet(fetches)
  BY DEF GatewayInv, GatewayTypeOK, Request
<1>2. Reached(r) \in Nat /\ Reached(r) = executed[r] + Cardinality(OnItsWay(r))
  BY <1>1, ReachedNat DEF Reached
<1>3. Of(r) = {} /\ executed[r] = 0 => Reached(r) = 0
  <2>1. Of(r) = {} => OnItsWay(r) = {}
    BY DEF Of, OnItsWay
  <2> QED
    BY <2>1, FS_EmptySet DEF Reached
<1>4. req[r].at \in Refusals => Reached(r) = 0
  BY <1>1, <1>3 DEF SlotInv
<1>5. Reached(r) <= IF req[r].method = "GET" THEN Retries + 1 ELSE 1
  BY <1>1, <1>2, GatewayAssumption DEF SlotInv
<1>6. Reached(r) > 0 => req[r].key \in Configured
  BY <1>1, <1>2, <1>3 DEF SlotInv
<1> QED
  BY <1>1, <1>2, <1>4, <1>5, <1>6 DEF SlotInv

\* A slot that a step does not touch.
LEMMA SlotKept ==
    ASSUME NEW r \in Requests, SlotInv(r), req'[r] = req[r], executed'[r] = executed[r],
           Of(r)' = Of(r)
    PROVE  SlotInv(r)'
<1>1. OnItsWay(r)' = OnItsWay(r)
  BY DEF Of, OnItsWay
<1>2. Reached(r)' = Reached(r)
  BY <1>1 DEF Reached
<1> QED
  BY <1>2 DEF SlotInv

\* A handler goes on at p, after no call and before none.
LEMMA SlotGoes ==
    ASSUME GatewayInv, NEW r \in Requests, NEW p,
           req' = [req EXCEPT ![r].at = p], UNCHANGED <<fetches, executed>>,
           p \in HandlerPc \cup Answers,
           req[r].at = "forward" \/ p # "forward" \/ (Of(r) = {} /\ executed[r] = 0),
           p = "relayed" => executed[r] > 0,
           p \in {"idle", "authenticate", "count"} \cup Refusals => Of(r) = {} /\ executed[r] = 0,
           p \in {"count", "forward", "fetching", "sleeping"} => req[r].key \in Configured,
           p = "sleeping" => req[r].method = "GET" /\ req[r].try < Retries
    PROVE  req' \in [Requests -> Request] /\ \A s \in Requests : SlotInv(s)'
<1>1. req \in [Requests -> Request] /\ IsFiniteSet(fetches) /\ executed[r] \in Nat /\ SlotInv(r)
  BY DEF GatewayInv, GatewayTypeOK
<1>2. req' \in [Requests -> Request] /\ req'[r] = [req[r] EXCEPT !.at = p]
  BY <1>1 DEF Request
<1>3. /\ req'[r].at = p /\ req'[r].try = req[r].try /\ req'[r].key = req[r].key
      /\ req'[r].method = req[r].method /\ req[r].try \in Nat
  BY <1>1, <1>2 DEF Request
<1>4. Of(r)' = Of(r) /\ OnItsWay(r)' = OnItsWay(r) /\ Reached(r)' = Reached(r) /\ Reached(r) \in Nat
  BY <1>1, ReachedNat DEF Of, OnItsWay, Reached
<1>5. Of(r) = {} /\ executed[r] = 0 => Reached(r) = 0
  <2>1. Of(r) = {} => OnItsWay(r) = {}
    BY DEF Of, OnItsWay
  <2> QED
    BY <2>1, FS_EmptySet DEF Reached
<1>6. SlotInv(r)'
  BY <1>1, <1>3, <1>4, <1>5 DEF SlotInv
<1>7. ASSUME NEW s \in Requests, s # r
      PROVE  SlotInv(s)'
  <2>1. req'[s] = req[s] /\ Of(s)' = Of(s)
    BY <1>1, <1>7 DEF Of
  <2> QED
    BY <2>1, SlotKept DEF GatewayInv
<1> QED
  BY <1>2, <1>6, <1>7

LEMMA GatewayInit_Inv == GatewayInit => GatewayInv
<1> SUFFICES ASSUME GatewayInit
             PROVE  GatewayInv
  OBVIOUS
<1> USE GatewayAssumption
<1>1. \A r \in Requests : req[r].at = "idle" /\ req[r].method = "GET" /\ req[r].try = 0
  BY DEF GatewayInit
<1>2. /\ \A r \in Requests : executed[r] = 0 /\ Of(r) = {} /\ OnItsWay(r) = {}
      /\ IsFiniteSet(fetches)
  BY FS_EmptySet DEF GatewayInit, Of, OnItsWay
<1>3. \A r \in Requests : Reached(r) = 0
  BY <1>2, FS_EmptySet DEF Reached
<1>4. \A r \in Requests : SlotInv(r)
  BY <1>1, <1>2, <1>3 DEF SlotInv
<1>5. GatewayTypeOK
  <2>1. req \in [Requests -> Request]
    BY DEF GatewayInit, Request, HandlerPc, Methods
  <2>2. NoCounter \in [count : 0 .. Limit + 1, ttl : 0 .. Window]
    BY DEF NoCounter
  <2>3. window \in [Keys -> [count : 0 .. Limit + 1, ttl : 0 .. Window]]
    BY <2>2 DEF GatewayInit
  <2>4. /\ executed \in [Requests -> Nat] /\ passed \in [Keys -> [Recent -> Nat]]
        /\ restarts \in [Recent -> Nat]
    BY DEF GatewayInit
  <2> QED
    BY <2>1, <2>3, <2>4 DEF GatewayInit, GatewayTypeOK
<1> QED
  BY <1>2, <1>4, <1>5 DEF GatewayInv

\* A counter is one of a window, whatever a request or time does to it.
LEMMA CountedType ==
    ASSUME GatewayTypeOK, NEW k \in Keys
    PROVE  Counted(k) \in [count : 0 .. Limit + 1, ttl : 0 .. Window]
<1>1. window[k] \in [count : 0 .. Limit + 1, ttl : 0 .. Window]
  BY DEF GatewayTypeOK
<1>2. window[k].count \in 0 .. Limit + 1 /\ window[k].ttl \in 0 .. Window
  BY <1>1
<1> QED
  BY <1>2, GatewayAssumption DEF Counted

LEMMA OlderType ==
    ASSUME NEW h \in [Recent -> Nat]
    PROVE  Older(h) \in [Recent -> Nat]
<1>1. ASSUME NEW i \in Recent
      PROVE  (IF i = 1 THEN 0 ELSE h[i - 1]) \in Nat
  BY GatewayAssumption DEF Recent
<1> QED
  BY <1>1 DEF Older

LEMMA HandlerStep_Inv ==
    ASSUME GatewayInv, NEW r \in Requests, HandlerStep(r)
    PROVE  GatewayInv'
<1> USE GatewayAssumption
<1>1. /\ req \in [Requests -> Request] /\ req[r] \in Request /\ executed[r] \in Nat
      /\ SlotInv(r) /\ IsFiniteSet(fetches) /\ req[r].key \in Keys /\ req[r].try \in 0 .. Retries
  BY DEF GatewayInv, GatewayTypeOK, Request
<1>2. HandlerPc \cap Refusals = {} /\ Refusals \subseteq Answers
  BY DEF HandlerPc, Refusals, Answers
<1>3. CASE Authenticate(r)
  <2> DEFINE p == IF req[r].key \in known THEN "count" ELSE "unauthorized"
  <2>1. /\ req[r].at = "authenticate" /\ req' = [req EXCEPT ![r].at = p]
        /\ UNCHANGED <<known, window, fetches, executed, passed, restarts>>
    BY <1>3 DEF Authenticate, Goes
  <2>2. Of(r) = {} /\ executed[r] = 0
    BY <1>1, <2>1 DEF SlotInv
  <2>3. p = "count" => req[r].key \in Configured
    BY DEF GatewayInv, GatewayTypeOK
  <2>4. p \in HandlerPc \cup Answers /\ p \notin {"relayed", "sleeping", "forward", "fetching"}
    BY DEF HandlerPc, Refusals, Answers
  <2> HIDE DEF p
  <2>5. req' \in [Requests -> Request] /\ \A s \in Requests : SlotInv(s)'
    BY <2>1, <2>2, <2>3, <2>4, SlotGoes
  <2> QED
    BY <2>1, <2>5 DEF GatewayInv, GatewayTypeOK
<1>4. CASE CountRequest(r)
  <2> DEFINE k == req[r].key
             pass == Allowed(Counted(k).count)
             p == IF pass THEN "forward" ELSE "limited"
  <2>1. /\ req[r].at = "count" /\ req' = [req EXCEPT ![r].at = p]
        /\ UNCHANGED <<known, fetches, executed, restarts>>
        /\ window' = [window EXCEPT ![k] = Counted(k)]
        /\ passed' = [passed EXCEPT ![k][1] = IF pass THEN @ + 1 ELSE @]
    BY <1>4 DEF CountRequest, Goes
  <2>2. Of(r) = {} /\ executed[r] = 0 /\ req[r].key \in Configured
    BY <1>1, <2>1 DEF SlotInv
  <2>3. window' \in [Keys -> [count : 0 .. Limit + 1, ttl : 0 .. Window]]
    BY <1>1, <2>1, CountedType DEF GatewayInv, GatewayTypeOK
  <2>4. passed' \in [Keys -> [Recent -> Nat]]
    <3>1. passed \in [Keys -> [Recent -> Nat]] /\ 1 \in Recent
      BY DEF GatewayInv, GatewayTypeOK, Recent
    <3>2. (IF pass THEN passed[k][1] + 1 ELSE passed[k][1]) \in Nat
      BY <1>1, <3>1
    <3> HIDE DEF pass, k
    <3> QED
      BY <1>1, <2>1, <3>1, <3>2
  <2>5. p \in HandlerPc \cup Answers /\ p \notin {"relayed", "sleeping", "count", "fetching"}
    BY DEF HandlerPc, Refusals, Answers
  <2> HIDE DEF p, k, pass
  <2>6. req' \in [Requests -> Request] /\ \A s \in Requests : SlotInv(s)'
    BY <2>1, <2>2, <2>5, SlotGoes
  <2> QED
    BY <2>1, <2>3, <2>4, <2>6 DEF GatewayInv, GatewayTypeOK
<1>5. CASE RedisRejects(r)
  <2>1. /\ req[r].at \in {"authenticate", "count"} /\ req' = [req EXCEPT ![r].at = "error"]
        /\ UNCHANGED <<known, fetches, executed, passed, restarts>>
        /\ window' = window \/ window' = [window EXCEPT ![req[r].key] = Counted(req[r].key)]
    BY <1>5 DEF RedisRejects, Goes
  <2>2. Of(r) = {} /\ executed[r] = 0
    BY <1>1, <2>1 DEF SlotInv
  <2>3. window' \in [Keys -> [count : 0 .. Limit + 1, ttl : 0 .. Window]]
    BY <1>1, <2>1, CountedType DEF GatewayInv, GatewayTypeOK
  <2>4. "error" \in HandlerPc \cup Answers
    BY DEF Refusals, Answers
  <2>5. req' \in [Requests -> Request] /\ \A s \in Requests : SlotInv(s)'
    BY <2>1, <2>2, <2>4, SlotGoes
  <2> QED
    BY <2>1, <2>3, <2>5 DEF GatewayInv, GatewayTypeOK
<1>6. CASE RefuseMethod(r)
  <2>1. /\ req[r].at = "forward" /\ req' = [req EXCEPT ![r].at = "unsupported"]
        /\ req[r].method \notin SupportedMethods
        /\ UNCHANGED <<known, window, fetches, executed, passed, restarts>>
    BY <1>6 DEF RefuseMethod, Goes
  <2>2. Of(r) = {} /\ executed[r] = 0
    BY <1>1, <2>1 DEF SlotInv
  <2>3. "unsupported" \in HandlerPc \cup Answers
    BY DEF Refusals, Answers
  <2>4. req' \in [Requests -> Request] /\ \A s \in Requests : SlotInv(s)'
    BY <2>1, <2>2, <2>3, SlotGoes
  <2> QED
    BY <2>1, <2>4 DEF GatewayInv, GatewayTypeOK
<1>7. CASE FetchFails(r)
  <2>1. /\ req[r].at = "fetching" /\ req[r].key \in Configured
        /\ UNCHANGED <<known, window, fetches, executed, passed, restarts>>
    BY <1>1, <1>7 DEF FetchFails, SlotInv
  <2>2. req' \in [Requests -> Request] /\ \A s \in Requests : SlotInv(s)'
    <3>1. CASE AskedAgain(r)
      <4>1. req' = [req EXCEPT ![r].at = "sleeping"] /\ req[r].method = "GET" /\ req[r].try < Retries
        BY <1>7, <3>1 DEF FetchFails, Goes, AskedAgain
      <4>2. "sleeping" \in HandlerPc \cup Answers /\ "sleeping" \notin Refusals
        BY DEF HandlerPc, Refusals
      <4> QED
        BY <2>1, <4>1, <4>2, SlotGoes
    <3>2. CASE ~AskedAgain(r)
      <4>1. req' = [req EXCEPT ![r].at = "unavailable"]
        BY <1>7, <3>2 DEF FetchFails, Goes
      <4>2. "unavailable" \in HandlerPc \cup Answers /\ "unavailable" \notin Refusals
        BY DEF Answers, Refusals
      <4> QED
        BY <2>1, <4>1, <4>2, SlotGoes
    <3> QED
      BY <3>1, <3>2
  <2> QED
    BY <2>1, <2>2 DEF GatewayInv, GatewayTypeOK
<1>8. CASE AskAgain(r)
  <2>1. /\ req[r].at = "sleeping" /\ req' = [req EXCEPT ![r].at = "forward", ![r].try = @ + 1]
        /\ UNCHANGED <<known, window, fetches, executed, passed, restarts>>
    BY <1>8 DEF AskAgain
  <2>2. req[r].method = "GET" /\ req[r].try < Retries /\ req[r].key \in Configured
    BY <1>1, <2>1 DEF SlotInv
  <2>3. req[r].try + 1 \in 0 .. Retries
    BY <1>1, <2>2
  <2>4. req'[r] = [req[r] EXCEPT !.at = "forward", !.try = req[r].try + 1]
    BY <1>1, <2>1
  <2>5. /\ req'[r].at = "forward" /\ req'[r].try = req[r].try + 1 /\ req'[r].method = "GET"
        /\ req'[r].key = req[r].key /\ req'[r] \in Request
    BY <1>1, <2>2, <2>3, <2>4 DEF Request, HandlerPc
  <2>6. req' \in [Requests -> Request]
    BY <1>1, <2>1, <2>4, <2>5
  <2>7. ASSUME NEW s \in Requests
        PROVE  SlotInv(s)'
    <3>1. Of(s)' = Of(s) /\ OnItsWay(s)' = OnItsWay(s) /\ Reached(s)' = Reached(s)
      BY <2>1 DEF Of, OnItsWay, Reached
    <3>2. CASE s = r
      <4>1. \A f \in Of(r) : f.try \in 0 .. Retries
        BY DEF Of, GatewayInv, GatewayTypeOK, Fetch
      <4>2. \A f \in Of(r) : f.try < req[r].try + 1
        BY <1>1, <4>1 DEF SlotInv
      <4>3. Reached(r) <= req[r].try + 1
        BY <1>1, <2>1 DEF SlotInv
      <4>4. /\ "forward" \notin {"idle", "authenticate", "count"} \cup Refusals
            /\ "GET" \in SupportedMethods
        BY DEF Refusals, SupportedMethods, Methods
      <4>5. \A f \in Of(r) : f.done => executed[r] > 0
        BY <1>1 DEF SlotInv
      <4>6. \A f \in Of(r)' : f.try <= req'[r].try /\ f.try < req'[r].try
        BY <1>1, <2>5, <3>1, <3>2, <4>1, <4>2
      <4> QED
        BY <2>1, <2>2, <2>5, <3>1, <3>2, <4>3, <4>4, <4>5, <4>6 DEF SlotInv
    <3>3. CASE s # r
      <4>1. req'[s] = req[s]
        BY <1>1, <2>1, <3>3
      <4> QED
        BY <2>1, <3>1, <4>1, SlotKept DEF GatewayInv
    <3> QED
      BY <3>2, <3>3
  <2> QED
    BY <2>1, <2>6, <2>7 DEF GatewayInv, GatewayTypeOK
<1>9. CASE ForwardOnce(r)
  <2> DEFINE g == [slot |-> r, try |-> req[r].try, done |-> FALSE]
  <2>1. /\ req[r].at = "forward" /\ req[r].method \in SupportedMethods
        /\ req' = [req EXCEPT ![r].at = "fetching"] /\ fetches' = fetches \cup {g}
        /\ UNCHANGED <<known, window, executed, passed, restarts>>
    BY <1>9 DEF ForwardOnce, Goes
  <2>2. fetches' \subseteq Fetch /\ IsFiniteSet(fetches')
    <3>1. g \in Fetch
      BY <1>1 DEF Fetch
    <3>2. fetches' \subseteq Fetch
      BY <2>1, <3>1 DEF GatewayInv, GatewayTypeOK
    <3>3. IsFiniteSet(fetches \cup {g})
      BY <1>1, FS_AddElement
    <3> QED
      BY <2>1, <3>2, <3>3
  <2>3. req'[r] = [req[r] EXCEPT !.at = "fetching"]
    BY <1>1, <2>1
  <2>4. /\ req'[r].at = "fetching" /\ req'[r].try = req[r].try /\ req'[r].method = req[r].method
        /\ req'[r].key = req[r].key /\ req'[r] \in Request
    BY <1>1, <2>3 DEF Request, HandlerPc
  <2>5. req' \in [Requests -> Request]
    BY <1>1, <2>1, <2>3, <2>4
  <2>6. ASSUME NEW s \in Requests
        PROVE  SlotInv(s)'
    <3>1. CASE s = r
      <4>1. Of(r)' = Of(r) \cup {g} /\ OnItsWay(r)' = OnItsWay(r) \cup {g}
        BY <2>1 DEF Of, OnItsWay
      <4>2. IsFiniteSet(OnItsWay(r)) /\ Cardinality(OnItsWay(r)) \in Nat /\ Reached(r) \in Nat
        BY <1>1, ReachedNat
      <4>3. /\ Cardinality(OnItsWay(r) \cup {g}) <= Cardinality(OnItsWay(r)) + 1
            /\ Cardinality(OnItsWay(r) \cup {g}) \in Nat
        <5> DEFINE c == Cardinality(OnItsWay(r))
        <5>1. Cardinality(OnItsWay(r) \cup {g}) = IF g \in OnItsWay(r) THEN c ELSE c + 1
          BY <4>2, FS_AddElement
        <5> QED
          BY <4>2, <5>1
      <4>4. Reached(r)' <= Reached(r) + 1 /\ Reached(r) <= req[r].try
        BY <1>1, <2>1, <4>1, <4>2, <4>3 DEF Reached, SlotInv
      <4>5. \A f \in Of(r)' : f.try <= req[r].try
        BY <1>1, <4>1 DEF SlotInv
      <4>6. \A f \in Of(r)' : f.done => executed[r] > 0
        BY <1>1, <4>1 DEF SlotInv
      <4>7. Reached(r)' <= req[r].try + 1
        <5>1. Reached(r)' \in Nat
          BY <1>1, <2>1, <4>1, <4>3 DEF Reached
        <5> QED
          BY <1>1, <4>2, <4>4, <5>1
      <4> QED
        BY <1>1, <2>1, <2>4, <3>1, <4>5, <4>6, <4>7 DEF SlotInv, Refusals
    <3>2. CASE s # r
      <4>1. req'[s] = req[s] /\ Of(s)' = Of(s)
        BY <1>1, <2>1, <3>2 DEF Of
      <4> QED
        BY <2>1, <4>1, SlotKept DEF GatewayInv
    <3> QED
      BY <3>1, <3>2
  <2> QED
    BY <2>1, <2>2, <2>5, <2>6 DEF GatewayInv, GatewayTypeOK
<1> QED
  BY <1>3, <1>4, <1>5, <1>6, <1>7, <1>8, <1>9 DEF HandlerStep

LEMMA Arrive_Inv ==
    ASSUME GatewayInv, NEW r \in Requests, NEW k \in Keys, NEW m \in Methods, Arrive(r, k, m)
    PROVE  GatewayInv'
<1> DEFINE q == [at |-> "authenticate", key |-> k, method |-> m, try |-> 0]
<1>1. /\ req \in [Requests -> Request] /\ executed \in [Requests -> Nat] /\ IsFiniteSet(fetches)
      /\ fetches \subseteq Fetch /\ req' = [req EXCEPT ![r] = q]
      /\ fetches' = {f \in fetches : f.slot # r} /\ executed' = [executed EXCEPT ![r] = 0]
      /\ UNCHANGED <<known, window, passed, restarts>>
  BY DEF Arrive, GatewayInv, GatewayTypeOK
<1>2. q \in Request
  BY GatewayAssumption DEF Request, HandlerPc
<1>3. fetches' \subseteq fetches /\ IsFiniteSet(fetches')
  BY <1>1, FS_Subset
<1>4. ASSUME NEW s \in Requests
      PROVE  SlotInv(s)'
  <2>1. CASE s = r
    <3>1. req'[r] = q /\ executed'[r] = 0 /\ Of(r)' = {} /\ OnItsWay(r)' = {}
      BY <1>1 DEF Of, OnItsWay
    <3>2. Reached(r)' = 0
      BY <3>1, FS_EmptySet DEF Reached
    <3> QED
      BY <2>1, <3>1, <3>2 DEF SlotInv, Refusals
  <2>2. CASE s # r
    <3>1. req'[s] = req[s] /\ executed'[s] = executed[s] /\ Of(s)' = Of(s)
      BY <1>1, <2>2 DEF Of
    <3> QED
      BY <3>1, SlotKept DEF GatewayInv
  <2> QED
    BY <2>1, <2>2
<1>5. GatewayTypeOK'
  <2>1. req' \in [Requests -> Request] /\ executed' \in [Requests -> Nat]
    BY <1>1, <1>2
  <2> QED
    BY <1>1, <1>3, <2>1 DEF GatewayInv, GatewayTypeOK
<1> QED
  BY <1>3, <1>4, <1>5 DEF GatewayInv

\* A fetch that disappears makes no request more reached.
LEMMA FetchGone ==
    ASSUME GatewayInv, NEW g \in fetches, fetches' = fetches \ {g}, executed' = executed,
           NEW s \in Requests, req'[s] = req[s]
    PROVE  SlotInv(s)'
<1>1. IsFiniteSet(fetches) /\ executed[s] \in Nat /\ SlotInv(s) /\ req[s].try \in 0 .. Retries
  BY DEF GatewayInv, GatewayTypeOK, Request
<1>2. Of(s)' \subseteq Of(s) /\ OnItsWay(s)' \subseteq OnItsWay(s)
  BY DEF Of, OnItsWay
<1>3. /\ IsFiniteSet(OnItsWay(s)) /\ Cardinality(OnItsWay(s)) \in Nat
      /\ Cardinality(OnItsWay(s)') \in Nat /\ Cardinality(OnItsWay(s)') <= Cardinality(OnItsWay(s))
  BY <1>1, <1>2, ReachedNat, FS_Subset, FS_CardinalityType
<1>4. Reached(s)' <= IF req[s].at = "forward" THEN req[s].try ELSE req[s].try + 1
  BY <1>1, <1>3, GatewayAssumption DEF Reached, SlotInv
<1> QED
  BY <1>1, <1>2, <1>4 DEF SlotInv

LEMMA FetchStep_Inv ==
    ASSUME GatewayInv, NEW g \in fetches, Relay(g) \/ ServiceExecutes(g) \/ FetchLost(g)
    PROVE  GatewayInv'
<1> DEFINE r == g.slot
<1>1. /\ g \in Fetch /\ r \in Requests /\ g.try \in 0 .. Retries /\ g \in Of(r)
      /\ req \in [Requests -> Request] /\ executed \in [Requests -> Nat]
      /\ IsFiniteSet(fetches) /\ fetches \subseteq Fetch /\ SlotInv(r)
      /\ req[r] \in Request /\ req[r].try \in 0 .. Retries /\ executed[r] \in Nat
  BY DEF GatewayInv, GatewayTypeOK, Fetch, Request, Of
<1>2. CASE Relay(g)
  <2>1. /\ g.done /\ req[r].at = "fetching" /\ req' = [req EXCEPT ![r].at = "relayed"]
        /\ fetches' = fetches \ {g} /\ UNCHANGED <<known, window, executed, passed, restarts>>
    BY <1>2 DEF Relay, Goes
  <2>2. req'[r] = [req[r] EXCEPT !.at = "relayed"]
    BY <1>1, <2>1
  <2>3. /\ req'[r].at = "relayed" /\ req'[r].try = req[r].try /\ req'[r].method = req[r].method
        /\ req'[r].key = req[r].key /\ req'[r] \in Request
    BY <1>1, <2>2 DEF Request, Answers
  <2>4. executed[r] > 0
    BY <1>1, <2>1 DEF SlotInv
  <2>5. OnItsWay(r)' = OnItsWay(r) /\ Of(r)' \subseteq Of(r)
    BY <2>1 DEF OnItsWay, Of
  <2>6. Reached(r)' = Reached(r)
    BY <2>1, <2>5 DEF Reached
  <2>7. SlotInv(r)'
    BY <1>1, <2>1, <2>3, <2>4, <2>5, <2>6 DEF SlotInv, Refusals
  <2>8. \A s \in Requests : SlotInv(s)'
    <3> TAKE s \in Requests
    <3>1. CASE s = r
      BY <2>7, <3>1
    <3>2. CASE s # r
      <4>1. req'[s] = req[s]
        BY <1>1, <2>1, <3>2
      <4> QED
        BY <2>1, <4>1, FetchGone
    <3> QED
      BY <3>1, <3>2
  <2>9. GatewayTypeOK' /\ IsFiniteSet(fetches')
    <3>1. req' \in [Requests -> Request]
      BY <1>1, <2>1, <2>2, <2>3
    <3>2. IsFiniteSet(fetches')
      BY <1>1, <2>1, FS_Subset
    <3> QED
      BY <1>1, <2>1, <3>1, <3>2 DEF GatewayInv, GatewayTypeOK
  <2> QED
    BY <2>8, <2>9 DEF GatewayInv
<1>3. CASE FetchLost(g)
  <2>1. fetches' = fetches \ {g} /\ UNCHANGED <<known, window, req, executed, passed, restarts>>
    BY <1>3 DEF FetchLost
  <2>2. \A s \in Requests : SlotInv(s)'
    BY <2>1, FetchGone
  <2>3. IsFiniteSet(fetches') /\ fetches' \subseteq Fetch
    BY <1>1, <2>1, FS_Subset
  <2> QED
    BY <2>1, <2>2, <2>3 DEF GatewayInv, GatewayTypeOK
<1>4. CASE ServiceExecutes(g)
  <2> DEFINE h == [g EXCEPT !.done = TRUE]
  <2>1. /\ ~g.done /\ fetches' = (fetches \ {g}) \cup {h}
        /\ executed' = [executed EXCEPT ![r] = executed[r] + 1]
        /\ UNCHANGED <<known, window, req, passed, restarts>>
    BY <1>1, <1>4 DEF ServiceExecutes
  <2>2. h \in Fetch /\ h.slot = r /\ h.done /\ h.try = g.try
    BY <1>1 DEF Fetch
  <2> HIDE DEF h
  <2>3. /\ IsFiniteSet(fetches') /\ fetches' \subseteq Fetch
        /\ executed' \in [Requests -> Nat] /\ executed'[r] = executed[r] + 1
    <3>1. IsFiniteSet(fetches \ {g})
      BY <1>1, FS_Subset
    <3>2. IsFiniteSet((fetches \ {g}) \cup {h})
      BY <3>1, FS_AddElement
    <3> QED
      BY <1>1, <2>1, <2>2, <3>2
  <2>4. SlotInv(r)'
    <3>1. OnItsWay(r)' = OnItsWay(r) \ {g} /\ g \in OnItsWay(r) /\ Of(r)' \subseteq Of(r) \cup {h}
      BY <1>1, <2>1, <2>2 DEF OnItsWay, Of
    <3>2. IsFiniteSet(OnItsWay(r)) /\ Cardinality(OnItsWay(r)) \in Nat
      BY <1>1, ReachedNat
    <3>3. Cardinality(OnItsWay(r) \ {g}) = Cardinality(OnItsWay(r)) - 1
      BY <3>1, <3>2, FS_RemoveElement
    <3>4. Reached(r)' = Reached(r)
      BY <1>1, <2>3, <3>1, <3>2, <3>3 DEF Reached
    <3>5. executed'[r] > 0 /\ req[r].key \in Configured
      BY <1>1, <2>3 DEF SlotInv
    <3>6. /\ req[r].at \notin {"idle", "authenticate", "count"} \cup Refusals
          /\ req[r].method \in SupportedMethods
      BY <1>1 DEF SlotInv
    <3>7. \A f \in Of(r)' : f.try <= req[r].try /\ (req[r].at = "forward" => f.try < req[r].try)
      BY <1>1, <2>2, <3>1 DEF SlotInv
    <3> QED
      BY <1>1, <2>1, <3>4, <3>5, <3>6, <3>7 DEF SlotInv
  <2>5. \A s \in Requests : SlotInv(s)'
    <3> TAKE s \in Requests
    <3>1. CASE s = r
      BY <2>4, <3>1
    <3>2. CASE s # r
      <4>1. req'[s] = req[s] /\ executed'[s] = executed[s] /\ Of(s)' = Of(s)
        BY <1>1, <2>1, <2>2, <3>2 DEF Of
      <4> QED
        BY <4>1, SlotKept DEF GatewayInv
    <3> QED
      BY <3>1, <3>2
  <2> QED
    BY <2>1, <2>3, <2>5 DEF GatewayInv, GatewayTypeOK
<1> QED
  BY <1>2, <1>3, <1>4

LEMMA GatewayNext_Inv == GatewayInv /\ [GatewayNext]_gatewayVars => GatewayInv'
<1> SUFFICES ASSUME GatewayInv, [GatewayNext]_gatewayVars
             PROVE  GatewayInv'
  OBVIOUS
<1> USE GatewayAssumption
<1>1. /\ req \in [Requests -> Request] /\ restarts \in [Recent -> Nat]
      /\ passed \in [Keys -> [Recent -> Nat]]
      /\ window \in [Keys -> [count : 0 .. Limit + 1, ttl : 0 .. Window]]
      /\ NoCounter \in [count : 0 .. Limit + 1, ttl : 0 .. Window]
  BY DEF GatewayInv, GatewayTypeOK, NoCounter
<1>2. ASSUME UNCHANGED <<req, executed, fetches>>
      PROVE  \A s \in Requests : SlotInv(s)'
  <2>1. \A s \in Requests : Of(s)' = Of(s)
    BY <1>2 DEF Of
  <2> QED
    BY <1>2, <2>1, SlotKept DEF GatewayInv
<1>3. CASE GatewayRestarts
  <2>1. /\ known' = Configured /\ UNCHANGED <<window, fetches, executed, passed, restarts>>
        /\ req' = [r \in Requests |-> IF Handled(r) THEN [req[r] EXCEPT !.at = "cut"] ELSE req[r]]
    BY <1>3 DEF GatewayRestarts
  <2>2. ASSUME NEW s \in Requests
        PROVE  req'[s] \in Request /\ SlotInv(s)'
    <3>1. /\ SlotInv(s) /\ req[s] \in Request /\ req[s].try \in 0 .. Retries /\ executed[s] \in Nat
          /\ IsFiniteSet(fetches)
      BY <1>1 DEF GatewayInv, GatewayTypeOK, Request
    <3>2. Of(s)' = Of(s) /\ OnItsWay(s)' = OnItsWay(s) /\ Reached(s)' = Reached(s) /\ Reached(s) \in Nat
      BY <2>1, <3>1, ReachedNat DEF Of, OnItsWay, Reached
    <3>3. CASE Handled(s)
      <4>1. req'[s] = [req[s] EXCEPT !.at = "cut"]
        BY <2>1, <3>3
      <4>2. /\ req'[s].at = "cut" /\ req'[s].try = req[s].try /\ req'[s].method = req[s].method
            /\ req'[s].key = req[s].key /\ req'[s] \in Request
        BY <3>1, <4>1 DEF Request, Answers
      <4>3. Reached(s) <= req[s].try + 1
        BY <3>1, <3>2 DEF SlotInv
      <4> QED
        BY <2>1, <3>1, <3>2, <4>2, <4>3 DEF SlotInv, Refusals
    <3>4. CASE ~Handled(s)
      <4>1. req'[s] = req[s]
        BY <2>1, <3>4
      <4> QED
        BY <2>1, <3>1, <3>2, <4>1, SlotKept
    <3> QED
      BY <3>3, <3>4
  <2>3. req' \in [Requests -> Request]
    BY <2>1, <2>2
  <2> QED
    BY <2>1, <2>2, <2>3 DEF GatewayInv, GatewayTypeOK
<1>4. CASE RedisRestarts
  <2>1. /\ known' = {} /\ window' = [k \in Keys |-> NoCounter]
        /\ restarts' = [restarts EXCEPT ![1] = restarts[1] + 1]
        /\ UNCHANGED <<req, fetches, executed, passed>>
    BY <1>1, <1>4 DEF RedisRestarts, Recent
  <2>2. restarts' \in [Recent -> Nat]
    BY <1>1, <2>1 DEF Recent
  <2>3. window' \in [Keys -> [count : 0 .. Limit + 1, ttl : 0 .. Window]]
    BY <1>1, <2>1
  <2> QED
    BY <1>2, <2>1, <2>2, <2>3 DEF GatewayInv, GatewayTypeOK
<1>5. CASE Tick
  <2>1. /\ restarts' = Older(restarts) /\ UNCHANGED <<known, req, fetches, executed>>
        /\ passed' = [k \in Keys |-> Older(passed[k])]
        /\ window' = [k \in Keys |->
                         IF window[k].ttl <= 1 THEN NoCounter
                         ELSE [window[k] EXCEPT !.ttl = @ - 1]]
    BY <1>5 DEF Tick
  <2>2. restarts' \in [Recent -> Nat] /\ passed' \in [Keys -> [Recent -> Nat]]
    BY <1>1, <2>1, OlderType
  <2>3. ASSUME NEW k \in Keys
        PROVE  window'[k] \in [count : 0 .. Limit + 1, ttl : 0 .. Window]
    <3>1. window[k] \in [count : 0 .. Limit + 1, ttl : 0 .. Window] /\ window[k].ttl \in 0 .. Window
      BY <1>1
    <3>2. window[k].ttl > 1 => window[k].ttl - 1 \in 0 .. Window
      BY <3>1
    <3> QED
      BY <1>1, <2>1, <3>1, <3>2
  <2>4. window' \in [Keys -> [count : 0 .. Limit + 1, ttl : 0 .. Window]]
    BY <2>1, <2>3
  <2> QED
    BY <1>2, <2>1, <2>2, <2>4 DEF GatewayInv, GatewayTypeOK
<1>6. CASE UNCHANGED gatewayVars
  BY <1>2, <1>6 DEF gatewayVars, GatewayInv, GatewayTypeOK
<1> QED
  BY <1>3, <1>4, <1>5, <1>6, HandlerStep_Inv, Arrive_Inv, FetchStep_Inv DEF GatewayNext

\* Counters, requests and fetches stay within their types.
THEOREM GatewayTypeCorrect == GatewaySpec => []GatewayTypeOK
<1>1. GatewayInv => GatewayTypeOK
  BY DEF GatewayInv
<1> QED
  BY GatewayInit_Inv, GatewayNext_Inv, <1>1, PTL DEF GatewaySpec

\* What the gateway tells a client agrees with what the services executed, for any
\* number of requests, keys, tries and restarts.
THEOREM ExecutedCorrect == GatewaySpec => []ExecutedAsAnswered
  BY GatewayInit_Inv, GatewayNext_Inv, GatewayInv_Answered, PTL DEF GatewaySpec

-----------------------------------------------------------------------------
(* Gateway: what a window lets pass *)

\* The total of a history over the n most recent ticks.
Latest(n) == 1 .. n
LastTicks(h, n) == SumFunctionOnSet(h, Latest(n))

\* Ticks since the window of k began.
WindowAge(k) == Window - window[k].ttl

\* At most so many requests of k passed since its window began.
PassedCounted(k) == IF window[k].count > Limit THEN Limit ELSE window[k].count

\* The windows of k that ended in the last n ticks: by a restart of Redis, and one
\* by itself, as a window that does lasts longer than the history.
EndedAllow(n) == (1 + LastTicks(restarts, n)) * Limit

\* What passed in the last n ticks is what the current window counted and at most
\* Limit for each window that ended; only the former when the window is older than
\* those ticks.
PassedInv(k, n) ==
    /\ LastTicks(passed[k], n) <= PassedCounted(k) + EndedAllow(n)
    /\ window[k].count > 0 /\ n <= WindowAge(k) => LastTicks(passed[k], n) <= PassedCounted(k)

RateInv ==
    \A k \in Keys :
        /\ window[k].count > 0 => window[k].ttl > 0
        /\ \A n \in 0 .. Window : PassedInv(k, n)

\* Totals of a history: none over no ticks, one more after a step that counts, and the
\* total of a tick less when time has passed.
LEMMA LatestFinite ==
    ASSUME NEW n \in 0 .. Window
    PROVE  IsFiniteSet(Latest(n)) /\ Latest(n) \subseteq Recent /\ (n > 0 => 1 \in Latest(n))
<1>1. IsFiniteSet(1 .. n)
  BY FS_Interval, GatewayAssumption
<1> QED BY <1>1, GatewayAssumption DEF Latest, Recent

LEMMA LastTicksNat ==
    ASSUME NEW h \in [Recent -> Nat], NEW n \in 0 .. Window
    PROVE  LastTicks(h, n) \in Nat
<1>1. IsFiniteSet(Latest(n)) /\ \A i \in Latest(n) : h[i] \in Nat
  BY LatestFinite
<1> QED BY <1>1, SumType DEF LastTicks

LEMMA NoTicks == ASSUME NEW h PROVE LastTicks(h, 0) = 0
<1>1. Latest(0) = {}
  BY DEF Latest
<1> QED BY <1>1, SumEmpty DEF LastTicks

LEMMA OneMoreNow ==
    ASSUME NEW h \in [Recent -> Nat], NEW n \in 1 .. Window
    PROVE  LastTicks([h EXCEPT ![1] = h[1] + 1], n) = LastTicks(h, n) + 1
<1> DEFINE g == [h EXCEPT ![1] = h[1] + 1]
<1>1. IsFiniteSet(Latest(n)) /\ 1 \in Latest(n) /\ Latest(n) \subseteq Recent
  BY LatestFinite
<1>2. /\ \A i \in Latest(n) : h[i] \in Int
      /\ \A i \in Latest(n) \ {1} : g[i] = h[i]
      /\ g[1] = h[1] + 1 /\ g[1] \in Int /\ h[1] \in Int
  BY <1>1
<1>3. SumFunctionOnSet(h, Latest(n)) \in Int
  BY <1>1, <1>2, SumType
<1> HIDE DEF g
<1>4. SumFunctionOnSet(g, Latest(n)) = SumFunctionOnSet(h, Latest(n)) + g[1] - h[1]
  BY <1>1, <1>2, SumChanged
<1> QED BY <1>2, <1>3, <1>4 DEF LastTicks, g

LEMMA OneTickLater ==
    ASSUME NEW h \in [Recent -> Nat], NEW n \in 1 .. Window
    PROVE  LastTicks(Older(h), n) = LastTicks(h, n - 1)
<1> DEFINE g == Older(h)
           Past == Latest(n) \ {1}
           b == [i \in Past |-> i - 1]
<1>1. IsFiniteSet(Latest(n)) /\ 1 \in Latest(n) /\ Latest(n) \subseteq Recent /\ IsFiniteSet(Past)
  <2>1. IsFiniteSet(Latest(n)) /\ 1 \in Latest(n) /\ Latest(n) \subseteq Recent
    BY LatestFinite
  <2> QED BY <2>1, FS_RemoveElement
<1>2. g \in [Recent -> Nat] /\ g[1] = 0 /\ \A i \in Latest(n) : g[i] \in Int
  BY <1>1, OlderType DEF Older
<1>3. ASSUME NEW i \in Past
      PROVE  b[i] \in Latest(n - 1) /\ b[i] = i - 1 /\ i \in Int /\ h[b[i]] \in Int /\ g[i] = h[b[i]]
  BY GatewayAssumption DEF Older, Recent, Latest
<1>4. \A i, j \in Past : b[i] = b[j] => i = j
  BY <1>3
<1>5. {b[i] : i \in Past} = Latest(n - 1)
  <2>1. ASSUME NEW j \in Latest(n - 1)
        PROVE  j + 1 \in Past /\ b[j + 1] = j
    <3>1. j \in Nat /\ j >= 1 /\ j <= n - 1 /\ n \in Nat
      BY GatewayAssumption DEF Latest
    <3>2. j + 1 \in Past
      BY <3>1 DEF Latest
    <3>3. b[j + 1] = (j + 1) - 1
      BY <3>2
    <3> QED BY <3>1, <3>2, <3>3
  <2>2. \A i \in Past : b[i] \in Latest(n - 1)
    BY <1>3
  <2>3. \A j \in Latest(n - 1) : \E i \in Past : b[i] = j
    BY <2>1
  <2> HIDE DEF b, Past
  <2> QED BY <2>2, <2>3
<1> HIDE DEF g, b, Past
<1>6. SumFunctionOnSet(g, Latest(n)) = g[1] + SumFunctionOnSet(g, Past)
  BY <1>1, <1>2, SumWithout DEF Past
<1>7. SumFunctionOnSet(g, Past) = SumFunctionOnSet(h, Latest(n - 1))
  <2>1. SumFunctionOnSet(g, Past) = SumFunctionOnSet(h, {b[i] : i \in Past})
    BY <1>1, <1>3, <1>4, SumRenamed
  <2> QED BY <1>5, <2>1, Zenon
<1>8. LastTicks(h, n - 1) \in Nat
  <2>1. n - 1 \in 0 .. Window
    BY GatewayAssumption
  <2> QED BY <2>1, LastTicksNat
<1> QED BY <1>2, <1>5, <1>6, <1>7, <1>8 DEF LastTicks, g

\* The values that PassedInv compares.
LEMMA RateTypes ==
    ASSUME GatewayTypeOK, NEW k \in Keys, NEW n \in 0 .. Window
    PROVE  /\ passed[k] \in [Recent -> Nat]
           /\ window[k].count \in 0 .. Limit + 1 /\ window[k].ttl \in 0 .. Window
           /\ LastTicks(passed[k], n) \in Nat /\ LastTicks(restarts, n) \in Nat
           /\ PassedCounted(k) \in 0 .. Limit /\ EndedAllow(n) \in Nat /\ EndedAllow(n) >= Limit
           /\ Limit \in Nat \ {0} /\ Window \in Nat \ {0}
<1>1. /\ passed[k] \in [Recent -> Nat] /\ window[k] \in [count : 0 .. Limit + 1, ttl : 0 .. Window]
      /\ restarts \in [Recent -> Nat]
  BY DEF GatewayTypeOK
<1>2. window[k].count \in 0 .. Limit + 1 /\ window[k].ttl \in 0 .. Window
  BY <1>1
<1>3. LastTicks(passed[k], n) \in Nat /\ LastTicks(restarts, n) \in Nat
  BY <1>1, LastTicksNat
<1>4. PassedCounted(k) \in 0 .. Limit
  BY <1>2, GatewayAssumption DEF PassedCounted
<1>5. \A a \in Nat, m \in Nat : (1 + a) * m \in Nat /\ (1 + a) * m >= m
  OBVIOUS
<1>6. EndedAllow(n) \in Nat /\ EndedAllow(n) >= Limit
  BY <1>3, <1>5, GatewayAssumption DEF EndedAllow
<1> QED BY <1>1, <1>2, <1>3, <1>4, <1>6, GatewayAssumption

LEMMA RateInit == GatewayInit => RateInv
<1> SUFFICES ASSUME GatewayInit, NEW k \in Keys
             PROVE  /\ window[k].count > 0 => window[k].ttl > 0
                    /\ \A n \in 0 .. Window : PassedInv(k, n)
  BY DEF RateInv
<1>1. GatewayTypeOK /\ window[k] = NoCounter /\ window[k].count = 0
  BY GatewayInit_Inv DEF GatewayInit, GatewayInv, NoCounter
<1>2. ASSUME NEW n \in 0 .. Window
      PROVE  LastTicks(passed[k], n) = 0
  <2>1. passed[k] = [i \in Recent |-> 0] /\ IsFiniteSet(Latest(n)) /\ Latest(n) \subseteq Recent
    BY LatestFinite DEF GatewayInit
  <2> QED BY <2>1, SumZero DEF LastTicks
<1> QED BY <1>1, <1>2, RateTypes DEF PassedInv

\* A request that is counted, with or without an answer: it passes only while the
\* count is within the limit.
LEMMA CountedRate ==
    ASSUME GatewayTypeOK, GatewayTypeOK', RateInv, NEW k \in Keys, restarts' = restarts,
           window' = [window EXCEPT ![k] = Counted(k)],
           \/ passed' = passed
           \/ /\ Counted(k).count <= Limit
              /\ passed' = [passed EXCEPT ![k][1] = passed[k][1] + 1]
    PROVE  RateInv'
<1> SUFFICES ASSUME NEW j \in Keys
             PROVE  /\ window'[j].count > 0 => window'[j].ttl > 0
                    /\ \A n \in 0 .. Window : PassedInv(j, n)'
  BY DEF RateInv
<1>1. /\ window \in [Keys -> [count : 0 .. Limit + 1, ttl : 0 .. Window]]
      /\ passed \in [Keys -> [Recent -> Nat]]
      /\ window[j].count > 0 => window[j].ttl > 0
      /\ \A n \in 0 .. Window : PassedInv(j, n) /\ EndedAllow(n)' = EndedAllow(n)
  BY DEF RateInv, GatewayTypeOK, EndedAllow
<1>2. CASE j # k
  <2>1. window'[j] = window[j] /\ passed'[j] = passed[j]
    BY <1>1, <1>2
  <2> QED BY <1>1, <2>1 DEF PassedInv, PassedCounted, WindowAge
<1>3. CASE j = k
  <2> DEFINE c == window[k].count
  <2>1. c \in 0 .. Limit + 1 /\ Limit \in Nat \ {0} /\ Window \in Nat \ {0} /\ window[k].ttl \in 0 .. Window
    BY <1>1, RateTypes, GatewayAssumption
  <2>2. window'[k] = Counted(k)
    BY <1>1
  <2>3. /\ window'[k].count = (IF c > Limit THEN Limit + 1 ELSE c + 1)
        /\ window'[k].ttl = (IF c = 0 THEN Window ELSE window[k].ttl)
    BY <2>2 DEF Counted
  <2>4. ASSUME NEW n \in 0 .. Window
        PROVE  PassedInv(k, n)'
    <3> DEFINE p == LastTicks(passed[k], n)
    <3>1. /\ p \in Nat /\ EndedAllow(n) \in Nat /\ EndedAllow(n)' = EndedAllow(n)
          /\ p <= (IF c > Limit THEN Limit ELSE c) + EndedAllow(n)
          /\ c > 0 /\ n <= Window - window[k].ttl => p <= (IF c > Limit THEN Limit ELSE c)
          /\ n = 0 => p = 0
      BY <1>1, <1>3, RateTypes, NoTicks DEF PassedInv, PassedCounted, WindowAge
    <3>2. \/ p' = p
          \/ c < Limit /\ n > 0 /\ p' = p + 1
      <4>1. CASE passed' = passed
        BY <4>1
      <4>2. CASE passed' = [passed EXCEPT ![k][1] = passed[k][1] + 1] /\ Counted(k).count <= Limit
        <5>1. passed'[k] = [passed[k] EXCEPT ![1] = passed[k][1] + 1] /\ c < Limit
          BY <1>1, <2>1, <2>2, <2>3, <4>2
        <5>2. CASE n = 0
          BY <5>2, NoTicks
        <5>3. CASE n > 0
          <6>1. n \in 1 .. Window /\ passed[k] \in [Recent -> Nat]
            BY <1>1, <5>3
          <6> QED BY <5>1, <5>3, <6>1, OneMoreNow
        <5> QED BY <5>2, <5>3
      <4> QED BY <4>1, <4>2
    <3>3. /\ PassedCounted(k)' = (IF c >= Limit THEN Limit ELSE c + 1)
          /\ WindowAge(k)' = (IF c = 0 THEN 0 ELSE Window - window[k].ttl)
      BY <2>1, <2>3 DEF PassedCounted, WindowAge
    <3> HIDE DEF p, c
    <3>4. p' = LastTicks(passed[k], n)'
      BY DEF p
    <3>5. p' <= PassedCounted(k)' + EndedAllow(n)'
      BY <2>1, <3>1, <3>2, <3>3
    <3>6. n <= WindowAge(k)' => p' <= PassedCounted(k)'
      BY <2>1, <3>1, <3>2, <3>3
    <3> QED BY <3>4, <3>5, <3>6 DEF PassedInv
  <2> QED BY <1>1, <1>3, <2>1, <2>3, <2>4
<1> QED BY <1>2, <1>3

\* Time passes: a window that ends by itself is as old as the history, so all that
\* passed but in the tick that leaves it was counted by that window.
LEMMA TickRate ==
    ASSUME GatewayTypeOK, GatewayTypeOK', RateInv, Tick
    PROVE  RateInv'
<1> SUFFICES ASSUME NEW k \in Keys
             PROVE  /\ window'[k].count > 0 => window'[k].ttl > 0
                    /\ \A n \in 0 .. Window : PassedInv(k, n)'
  BY DEF RateInv
<1> DEFINE w == window[k]
<1>1. /\ w \in [count : 0 .. Limit + 1, ttl : 0 .. Window]
      /\ passed[k] \in [Recent -> Nat] /\ restarts \in [Recent -> Nat]
      /\ w.count > 0 => w.ttl > 0
      /\ \A n \in 0 .. Window : PassedInv(k, n)
  BY DEF RateInv, GatewayTypeOK
<1>2. /\ window'[k] = (IF w.ttl <= 1 THEN NoCounter ELSE [w EXCEPT !.ttl = w.ttl - 1])
      /\ passed'[k] = Older(passed[k]) /\ restarts' = Older(restarts)
  BY <1>1 DEF Tick
<1>3. \/ w.ttl <= 1 /\ window'[k].count = 0
      \/ w.ttl > 1 /\ window'[k].count = w.count /\ window'[k].ttl = w.ttl - 1
  BY <1>1, <1>2 DEF NoCounter
<1>4. w.count \in 0 .. Limit + 1 /\ w.ttl \in 0 .. Window /\ Limit \in Nat \ {0} /\ Window \in Nat \ {0}
  BY <1>1, GatewayAssumption
<1>5. ASSUME NEW n \in 0 .. Window
      PROVE  PassedInv(k, n)'
  <2>1. CASE n = 0
    <3>1. LastTicks(passed[k], n)' = 0
      BY <2>1, NoTicks
    <3>2. PassedCounted(k)' \in Nat
      BY <1>3, <1>4 DEF PassedCounted
    <3>3. EndedAllow(n)' = (1 + 0) * Limit
      BY <2>1, NoTicks DEF EndedAllow
    <3> QED BY <1>4, <3>1, <3>2, <3>3 DEF PassedInv
  <2>2. CASE n > 0
    <3> DEFINE m == n - 1
    <3>1. m \in 0 .. Window /\ n \in 1 .. Window
      BY <1>4, <2>2
    <3>2. LastTicks(passed[k], n)' = LastTicks(passed[k], m) /\ EndedAllow(n)' = EndedAllow(m)
      BY <1>1, <1>2, <3>1, OneTickLater DEF EndedAllow
    <3> HIDE DEF m
    <3>3. /\ LastTicks(passed[k], m) \in Nat /\ PassedCounted(k) \in 0 .. Limit
          /\ EndedAllow(m) \in Nat /\ EndedAllow(m) >= Limit
          /\ LastTicks(passed[k], m) <= PassedCounted(k) + EndedAllow(m)
          /\ w.count > 0 /\ m <= Window - w.ttl => LastTicks(passed[k], m) <= PassedCounted(k)
      BY <1>1, <3>1, RateTypes DEF PassedInv, WindowAge
    <3>4. CASE w.ttl <= 1 /\ window'[k].count = 0
      <4>1. PassedCounted(k)' = 0
        BY <1>4, <3>4 DEF PassedCounted
      <4>2. LastTicks(passed[k], m) <= EndedAllow(m)
        <5>1. CASE w.count = 0
          <6>1. PassedCounted(k) = 0
            BY <1>4, <5>1 DEF PassedCounted
          <6> QED BY <3>3, <6>1
        <5>2. CASE w.count > 0
          <6>1. w.ttl = 1
            BY <1>1, <1>4, <3>4, <5>2
          <6>2. m <= Window - 1
            BY <1>4, <3>1 DEF m
          <6>3. m <= Window - w.ttl
            BY <6>1, <6>2
          <6> QED BY <1>4, <3>3, <5>2, <6>3
        <5> QED BY <1>4, <5>1, <5>2
      <4> QED BY <3>2, <3>3, <3>4, <4>1, <4>2 DEF PassedInv
    <3>5. CASE w.ttl > 1 /\ window'[k].count = w.count /\ window'[k].ttl = w.ttl - 1
      <4>1. PassedCounted(k)' = PassedCounted(k) /\ WindowAge(k)' = Window - (w.ttl - 1)
        BY <3>5 DEF PassedCounted, WindowAge
      <4>2. n <= Window - (w.ttl - 1) => m <= Window - w.ttl
        BY <1>4, <3>1 DEF m
      <4> QED BY <3>2, <3>3, <3>5, <4>1, <4>2 DEF PassedInv
    <3> QED BY <1>3, <3>4, <3>5
  <2> QED BY <2>1, <2>2
<1> QED BY <1>1, <1>3, <1>4, <1>5

\* Redis forgets every count, and every window ends.
LEMMA RestartRate ==
    ASSUME GatewayTypeOK, GatewayTypeOK', RateInv, RedisRestarts
    PROVE  RateInv'
<1> SUFFICES ASSUME NEW k \in Keys
             PROVE  /\ window'[k].count > 0 => window'[k].ttl > 0
                    /\ \A n \in 0 .. Window : PassedInv(k, n)'
  BY DEF RateInv
<1>1. /\ window'[k] = NoCounter /\ passed' = passed /\ restarts \in [Recent -> Nat]
      /\ restarts' = [restarts EXCEPT ![1] = restarts[1] + 1]
      /\ \A n \in 0 .. Window : PassedInv(k, n)
  BY GatewayAssumption DEF RedisRestarts, RateInv, GatewayTypeOK, Recent
<1>2. window'[k].count = 0 /\ PassedCounted(k)' = 0
  BY <1>1, GatewayAssumption DEF NoCounter, PassedCounted
<1>3. ASSUME NEW n \in 0 .. Window
      PROVE  PassedInv(k, n)'
  <2>1. CASE n = 0
    <3>1. LastTicks(passed[k], n)' = 0
      BY <2>1, NoTicks
    <3>2. EndedAllow(n)' = (1 + 0) * Limit
      BY <2>1, NoTicks DEF EndedAllow
    <3> QED BY <1>2, <3>1, <3>2, GatewayAssumption DEF PassedInv
  <2>2. CASE n > 0
    <3>1. LastTicks(restarts, n)' = LastTicks(restarts, n) + 1
      <4>1. n \in 1 .. Window
        BY <2>2, GatewayAssumption
      <4> QED BY <1>1, <4>1, OneMoreNow
    <3>2. \A a \in Nat, b \in Nat : (1 + (a + 1)) * b = (1 + a) * b + b
      OBVIOUS
    <3>3. /\ LastTicks(restarts, n) \in Nat /\ Limit \in Nat /\ EndedAllow(n) \in Nat
          /\ LastTicks(passed[k], n) \in Nat /\ PassedCounted(k) \in 0 .. Limit
          /\ LastTicks(passed[k], n) <= PassedCounted(k) + EndedAllow(n)
      BY <1>1, RateTypes DEF PassedInv
    <3>4. EndedAllow(n)' = EndedAllow(n) + Limit
      BY <3>1, <3>2, <3>3 DEF EndedAllow
    <3> QED BY <1>1, <1>2, <3>3, <3>4 DEF PassedInv
  <2> QED BY <2>1, <2>2
<1> QED BY <1>2, <1>3

LEMMA RateNext ==
    ASSUME GatewayInv, GatewayInv', RateInv, [GatewayNext]_gatewayVars
    PROVE  RateInv'
<1>1. GatewayTypeOK /\ GatewayTypeOK'
  BY DEF GatewayInv
<1>2. ASSUME UNCHANGED <<window, passed, restarts>>
      PROVE  RateInv'
  BY <1>2 DEF RateInv, PassedInv, PassedCounted, WindowAge, EndedAllow
<1>3. ASSUME NEW r \in Requests, HandlerStep(r)
      PROVE  RateInv'
  <2>1. req[r].key \in Keys
    BY <1>1 DEF GatewayTypeOK, Request
  <2>2. CASE CountRequest(r)
    <3> DEFINE k == req[r].key
               pass == Counted(k).count <= Limit
    <3>1. /\ window' = [window EXCEPT ![k] = Counted(k)] /\ restarts' = restarts
          /\ passed' = [passed EXCEPT ![k][1] = IF pass THEN @ + 1 ELSE @]
      BY <2>2 DEF CountRequest, Allowed
    <3>2. passed \in [Keys -> [Recent -> Nat]] /\ 1 \in Recent
      BY <1>1, GatewayAssumption DEF GatewayTypeOK, Recent
    <3> HIDE DEF pass
    <3>3. ASSUME ~pass
          PROVE  passed' = passed
      <4>1. passed' = [passed EXCEPT ![k][1] = passed[k][1]]
        BY <3>1, <3>3
      <4> QED BY <3>2, <4>1
    <3>4. ASSUME pass
          PROVE  passed' = [passed EXCEPT ![k][1] = passed[k][1] + 1]
      BY <3>1, <3>4
    <3> USE DEF pass
    <3> HIDE DEF k
    <3> QED BY <1>1, <2>1, <3>1, <3>3, <3>4, CountedRate DEF k
  <2>3. CASE RedisRejects(r)
    <3>1. /\ window' = window \/ window' = [window EXCEPT ![req[r].key] = Counted(req[r].key)]
          /\ UNCHANGED <<passed, restarts>>
      BY <2>3 DEF RedisRejects
    <3> QED BY <1>1, <1>2, <2>1, <3>1, CountedRate
  <2>4. CASE \/ Authenticate(r) \/ RefuseMethod(r) \/ ForwardOnce(r) \/ FetchFails(r) \/ AskAgain(r)
    BY <1>2, <2>4 DEF Authenticate, RefuseMethod, ForwardOnce, FetchFails, AskAgain
  <2> QED BY <1>3, <2>2, <2>3, <2>4 DEF HandlerStep
<1>4. CASE \E r \in Requests : \E k \in Keys, m \in Methods : Arrive(r, k, m)
  BY <1>2, <1>4 DEF Arrive
<1>5. CASE \E f \in fetches : Relay(f) \/ ServiceExecutes(f) \/ FetchLost(f)
  BY <1>2, <1>5 DEF Relay, ServiceExecutes, FetchLost
<1>6. CASE GatewayRestarts
  BY <1>2, <1>6 DEF GatewayRestarts
<1>7. CASE UNCHANGED gatewayVars
  BY <1>2, <1>7 DEF gatewayVars
<1> QED
  BY <1>1, <1>3, <1>4, <1>5, <1>6, <1>7, TickRate, RestartRate DEF GatewayNext

LEMMA RateInv_Passed == GatewayTypeOK /\ RateInv => PassedPerWindow
<1> SUFFICES ASSUME GatewayTypeOK, RateInv, NEW k \in Keys
             PROVE  Total(passed[k]) <= (2 + Total(restarts)) * Limit
  BY DEF PassedPerWindow
<1>1. Window \in 0 .. Window
  BY GatewayAssumption
<1>2. Total(passed[k]) = LastTicks(passed[k], Window) /\ Total(restarts) = LastTicks(restarts, Window)
  <2>1. DOMAIN passed[k] = Latest(Window) /\ DOMAIN restarts = Latest(Window)
    BY DEF GatewayTypeOK, Recent, Latest
  <2> QED BY <2>1 DEF Total, SumFunction, LastTicks
<1>3. /\ Total(passed[k]) <= PassedCounted(k) + EndedAllow(Window)
      /\ Total(passed[k]) \in Nat /\ Total(restarts) \in Nat /\ PassedCounted(k) \in 0 .. Limit
      /\ EndedAllow(Window) \in Nat /\ Limit \in Nat
  BY <1>1, <1>2, RateTypes DEF RateInv, PassedInv
<1>4. EndedAllow(Window) = (1 + Total(restarts)) * Limit
  BY <1>2 DEF EndedAllow
<1>5. \A a \in Nat, b \in Nat : (2 + a) * b = (1 + a) * b + b
  OBVIOUS
<1> QED BY <1>3, <1>4, <1>5

\* In any Window consecutive ticks at most twice Limit requests of a key pass, and Limit
\* more for each restart of Redis, for any limits, keys and number of requests.
THEOREM PassedCorrect == GatewaySpec => []PassedPerWindow
<1>1. GatewayInv => GatewayTypeOK
  BY DEF GatewayInv
<1> QED
  BY GatewayInit_Inv, GatewayNext_Inv, RateInit, RateNext, RateInv_Passed, <1>1, PTL DEF GatewaySpec

-----------------------------------------------------------------------------
(* SettlementRun: for any ledger, any periods and any number of overlapping   *)
(* runs.  The totals are sums that nothing reads; the invariant leaves them   *)
(* out.                                                                       *)

Collected == {"lock", "sum", "commit", "committed"}

\* What a run saw: the entries due and not settled, disjoint from those of
\* the runs before it, whose lines never change.
SnapshotInv ==
    \A r \in Runs :
        /\ lines[r] = IF stage[r] = "committed" THEN seen[r] ELSE {}
        /\ stage[r] \in Collected =>
              /\ due[r] \subseteq seen[r] \cup Settled
              /\ \A q \in before[r] : stage[q] = "committed" /\ seen[r] \cap lines[q] = {}

SettlementInv == SettlementTypeOK /\ SnapshotInv

USE DEF RunStages, Collected

\* A statement moves its own run and no other.
LEMMA RunMoves ==
    ASSUME SettlementTypeOK, NEW r \in Runs, NEW to \in RunStages, RunGoes(r, to)
    PROVE  /\ stage' \in [Runs -> RunStages]
           /\ stage'[r] = to
           /\ \A q \in Runs : q # r => stage'[q] = stage[q]
BY DEF SettlementTypeOK, RunGoes

\* The initial state satisfies the invariant.
LEMMA SettlementInit_Inv == SettlementInit => SettlementInv
BY DEF SettlementInit, SettlementInv, SettlementTypeOK, SnapshotInv

LEMMA Begin_Inv ==
    ASSUME SettlementInv, NEW r \in Runs, Begin(r)
    PROVE  SettlementInv'
<1>1. /\ stage' \in [Runs -> RunStages] /\ stage'[r] = "collect"
      /\ \A q \in Runs : q # r => stage'[q] = stage[q]
  BY RunMoves DEF SettlementInv, Begin
<1>2. period' \in [Runs -> SUBSET Entries]
  BY PeriodsAssumption DEF SettlementInv, SettlementTypeOK, Begin
<1>3. stage[r] = "idle" /\ UNCHANGED <<posted, lines, seen, locked, due, before, Settled>>
  BY DEF Begin, Settled
<1>4. SettlementTypeOK'
  BY <1>1, <1>2, <1>3 DEF SettlementInv, SettlementTypeOK
<1>5. SnapshotInv'
  BY <1>1, <1>3 DEF SettlementInv, SnapshotInv, SettlementTypeOK
<1> QED BY <1>4, <1>5 DEF SettlementInv

LEMMA Collect_Inv ==
    ASSUME SettlementInv, NEW r \in Runs, Collect(r)
    PROVE  SettlementInv'
<1>1. /\ stage' \in [Runs -> RunStages] /\ stage'[r] = "lock"
      /\ \A q \in Runs : q # r => stage'[q] = stage[q]
  BY RunMoves DEF SettlementInv, Collect
<1>2. /\ seen' \in [Runs -> SUBSET Entries]
      /\ seen'[r] = (posted \cap period[r]) \ Settled
      /\ \A q \in Runs : q # r => seen'[q] = seen[q]
  BY DEF SettlementInv, SettlementTypeOK, Collect
<1>3. /\ due' \in [Runs -> SUBSET Entries]
      /\ due'[r] = posted \cap period[r]
      /\ \A q \in Runs : q # r => due'[q] = due[q]
  BY DEF SettlementInv, SettlementTypeOK, Collect
<1>4. /\ before' \in [Runs -> SUBSET Runs]
      /\ before'[r] = Committed
      /\ \A q \in Runs : q # r => before'[q] = before[q]
  BY DEF SettlementInv, SettlementTypeOK, Collect, Committed
<1>5. stage[r] = "collect" /\ UNCHANGED <<posted, lines, period, locked, Settled>>
  BY DEF Collect, Settled
<1>6. SettlementTypeOK'
  BY <1>1, <1>2, <1>3, <1>4, <1>5 DEF SettlementInv, SettlementTypeOK
<1>7. \A q \in Committed : q # r /\ stage[q] = "committed" /\ seen'[r] \cap lines[q] = {}
  BY <1>2, <1>5 DEF Committed, Settled
<1>8. SnapshotInv'
  <2> SUFFICES ASSUME NEW x \in Runs
               PROVE  /\ lines'[x] = IF stage'[x] = "committed" THEN seen'[x] ELSE {}
                      /\ stage'[x] \in Collected =>
                            /\ due'[x] \subseteq seen'[x] \cup Settled'
                            /\ \A q \in before'[x] :
                                  stage'[q] = "committed" /\ seen'[x] \cap lines'[q] = {}
    BY DEF SnapshotInv
  <2>1. CASE x = r
    <3>1. lines[r] = {} /\ stage[r] # "committed"
      BY <1>5 DEF SettlementInv, SnapshotInv
    <3>2. due'[r] \subseteq seen'[r] \cup Settled'
      BY <1>2, <1>3, <1>5
    <3>3. \A q \in before'[r] : stage'[q] = "committed" /\ seen'[r] \cap lines'[q] = {}
      BY <1>1, <1>4, <1>5, <1>7 DEF Committed
    <3> QED BY <1>1, <1>5, <2>1, <3>1, <3>2, <3>3
  <2>2. CASE x # r
    BY <1>1, <1>2, <1>3, <1>4, <1>5, <2>2 DEF SettlementInv, SnapshotInv, SettlementTypeOK
  <2> QED BY <2>1, <2>2
<1> QED BY <1>6, <1>8 DEF SettlementInv

\* Statements that only move the run.
LEMMA QuietRun_Inv ==
    ASSUME SettlementInv, NEW r \in Runs,
           LockRow(r) \/ InsertLines(r) \/ SumLines(r) \/ Rollback(r)
    PROVE  SettlementInv'
<1>1. UNCHANGED <<posted, lines, period, seen, due, before, Settled>>
  BY DEF LockRow, InsertLines, SumLines, Rollback, Settled
<1>0. locked' \in [Runs -> SUBSET Entries]
  BY DEF SettlementInv, SettlementTypeOK, LockRow, InsertLines, SumLines, Rollback
<1>2. CASE LockRow(r)
  BY <1>0, <1>1, <1>2 DEF SettlementInv, SettlementTypeOK, SnapshotInv, LockRow
<1>3. CASE InsertLines(r) \/ SumLines(r) \/ Rollback(r)
  <2> PICK to \in {"sum", "commit", "aborted"} :
         /\ RunGoes(r, to)
         /\ to # "aborted" => stage[r] \in {"lock", "sum"}
    BY <1>3 DEF InsertLines, SumLines, Rollback
  <2>1. /\ stage' \in [Runs -> RunStages] /\ stage'[r] = to
        /\ \A q \in Runs : q # r => stage'[q] = stage[q]
    BY RunMoves DEF SettlementInv
  <2>2. stage[r] # "committed"
    BY <1>3 DEF InsertLines, SumLines, Rollback
  <2>3. SettlementTypeOK'
    BY <1>0, <1>1, <2>1 DEF SettlementInv, SettlementTypeOK
  <2>4. SnapshotInv'
    BY <1>1, <2>1, <2>2 DEF SettlementInv, SettlementTypeOK, SnapshotInv
  <2> QED BY <2>3, <2>4 DEF SettlementInv
<1> QED BY <1>2, <1>3

LEMMA Commit_Inv ==
    ASSUME SettlementInv, NEW r \in Runs, Commit(r)
    PROVE  SettlementInv'
<1>1. /\ stage' \in [Runs -> RunStages] /\ stage'[r] = "committed"
      /\ \A q \in Runs : q # r => stage'[q] = stage[q]
  BY RunMoves DEF SettlementInv, Commit
<1>2. /\ lines' \in [Runs -> SUBSET Entries]
      /\ lines'[r] = seen[r]
      /\ \A q \in Runs : q # r => lines'[q] = lines[q]
  BY DEF SettlementInv, SettlementTypeOK, Commit
<1>3. stage[r] = "commit" /\ UNCHANGED <<posted, period, seen, due, before>>
  BY DEF Commit
<1>4. SettlementTypeOK'
  BY <1>1, <1>2, <1>3 DEF SettlementInv, SettlementTypeOK, Commit
<1>5. \A x \in Runs : \A q \in before[x] :
         stage[x] \in Collected => q # r /\ q \in Runs
  BY <1>3 DEF SettlementInv, SettlementTypeOK, SnapshotInv
<1>6. Settled \subseteq Settled'
  <2>1. lines[r] = {}
    BY <1>3 DEF SettlementInv, SnapshotInv
  <2> QED BY <1>2, <2>1 DEF Settled
<1>7. SnapshotInv'
  <2> SUFFICES ASSUME NEW x \in Runs
               PROVE  /\ lines'[x] = IF stage'[x] = "committed" THEN seen'[x] ELSE {}
                      /\ stage'[x] \in Collected =>
                            /\ due'[x] \subseteq seen'[x] \cup Settled'
                            /\ \A q \in before'[x] :
                                  stage'[q] = "committed" /\ seen'[x] \cap lines'[q] = {}
    BY DEF SnapshotInv
  <2>1. stage'[x] \in Collected => stage[x] \in Collected
    BY <1>1, <1>3
  <2>2. ASSUME stage[x] \in Collected PROVE due[x] \subseteq seen[x] \cup Settled'
    BY <1>6, <2>2 DEF SettlementInv, SnapshotInv
  <2> QED BY <1>1, <1>2, <1>3, <1>5, <2>1, <2>2 DEF SettlementInv, SnapshotInv, SettlementTypeOK
<1> QED BY <1>4, <1>7 DEF SettlementInv

\* The invariant is inductive.
LEMMA SettlementNext_Inv == SettlementInv /\ [SettlementNext]_settlementVars => SettlementInv'
<1> SUFFICES ASSUME SettlementInv, [SettlementNext]_settlementVars PROVE SettlementInv'
  OBVIOUS
<1>1. ASSUME NEW e \in Entries, Post(e) PROVE SettlementInv'
  BY <1>1 DEF Post, SettlementInv, SettlementTypeOK, SnapshotInv, Settled
<1>2. ASSUME NEW r \in Runs,
             \/ Begin(r) \/ Collect(r) \/ LockRow(r) \/ InsertLines(r)
             \/ SumLines(r) \/ Commit(r) \/ Rollback(r)
      PROVE  SettlementInv'
  BY <1>2, Begin_Inv, Collect_Inv, QuietRun_Inv, Commit_Inv
<1>3. CASE UNCHANGED settlementVars
  BY <1>3 DEF settlementVars, SettlementInv, SettlementTypeOK, SnapshotInv, Settled
<1> QED BY <1>1, <1>2, <1>3 DEF SettlementNext

\* Every behaviour satisfies the invariant.
LEMMA SettlementAlways == SettlementSpec => []SettlementInv
  BY SettlementInit_Inv, SettlementNext_Inv, PTL DEF SettlementSpec

\* The tables and the runs keep their types.
THEOREM SettlementTypeCorrect == SettlementSpec => []SettlementTypeOK
<1>1. SettlementInv => SettlementTypeOK
  BY DEF SettlementInv
<1> QED BY <1>1, SettlementAlways, PTL

\* settlementsRepo.ts 51-56: a committed run leaves nothing it saw behind,
\* for any number of overlapping runs and rollbacks.
THEOREM AllDueAreSettled == SettlementSpec => []NothingLeftBehind
<1>1. SettlementInv => NothingLeftBehind
  BY DEF SettlementInv, SnapshotInv, NothingLeftBehind, Committed, Settled
<1> QED BY <1>1, SettlementAlways, PTL

\* settlementsRepo.ts 53-55: runs that do not overlap never settle an
\* entry twice.
THEOREM EarlierRunsAreKept == SettlementSpec => []EarlierRunsKeepTheirs
<1>1. SettlementInv => EarlierRunsKeepTheirs
  BY DEF SettlementInv, SnapshotInv, EarlierRunsKeepTheirs, Committed
<1> QED BY <1>1, SettlementAlways, PTL

HIDE DEF RunStages, Collected

-----------------------------------------------------------------------------
(* NotificationDelivery *)

\* Stages in which a worker has a job.
HasJob == {"send", "mark", "unmarked", "record", "retire"}

\* What a worker's stage says about its batch, its job and its tries.
WorkInv ==
    \A w \in Workers :
        /\ at[w] \in HasJob <=> job[w] # None
        /\ at[w] = "idle" => mine[w] = {}
        /\ at[w] \in {"idle", "take"} => try[w] = 1
        /\ job[w] \notin mine[w]
        /\ at[w] = "unmarked" => job[w] \in unsure

\* Rows are inserted once, and nothing happens to a row that is not there.
FanInv ==
    \A d \in Deliveries :
        /\ event[d[1]] # "published" => status[d] = "absent"
        /\ status[d] = "absent" => received[d] = 0 /\ \A w \in Workers : d \notin Hands(w)

DeliveryBase == DeliveryTypeOK /\ WorkInv /\ FanInv

\* The invariant without order and bounds: as a delivery worker starts.
LEMMA DeliveryBase_Init == DeliveryInit => DeliveryBase
BY NoneAssumption, SizesAssumption
   DEF DeliveryInit, DeliveryBase, DeliveryTypeOK, WorkInv, FanInv, Hands, Stages, Open, HasJob, Deliveries

\* Publishing an event: its rows are inserted once.
LEMMA PublishBase ==
    ASSUME DeliveryBase, NEW n \in Events, Lookup(n) \/ BeginInsert(n) \/ Enqueue(n)
    PROVE  DeliveryBase'
<1>1. CASE Lookup(n)
  BY <1>1 DEF Lookup, DeliveryBase, DeliveryTypeOK, WorkInv, FanInv, Hands, columns, working, Deliveries
<1>2. CASE BeginInsert(n)
  BY <1>2 DEF BeginInsert, DeliveryBase, DeliveryTypeOK, WorkInv, FanInv, Hands, columns, working, Deliveries
<1>3. CASE Enqueue(n)
  <2>1. {n} \X targets[n] \subseteq Deliveries
    BY DEF DeliveryBase, DeliveryTypeOK, Deliveries
  <2>2. /\ event' = [event EXCEPT ![n] = "published"] /\ event[n] = "begun"
        /\ status' = [d \in Deliveries |-> IF d \in {n} \X targets[n] THEN "pending" ELSE status[d]]
        /\ next' = [d \in Deliveries |-> IF d \in {n} \X targets[n] THEN "due" ELSE next[d]]
        /\ belated' \subseteq Deliveries
        /\ UNCHANGED <<targets, active, attempts, mine, off, job, at, try, received, requeued, unsure, faults>>
    BY <1>3, <2>1 DEF Enqueue, working, DeliveryBase, DeliveryTypeOK
  <2>3. DeliveryTypeOK'
    BY <2>2 DEF DeliveryBase, DeliveryTypeOK, Open
  <2>4. WorkInv'
    BY <2>2 DEF DeliveryBase, WorkInv
  <2>5. FanInv'
    BY <2>2 DEF DeliveryBase, DeliveryTypeOK, FanInv, Hands, Deliveries
  <2> QED BY <2>3, <2>4, <2>5 DEF DeliveryBase
<1> QED BY <1>1, <1>2, <1>3

\* Steps of clients and of time.
LEMMA OutsideBase ==
    ASSUME DeliveryBase,
           \/ \E e \in Endpoints : Deactivate(e)
           \/ \E d \in Deliveries : RequeueFailed(d) \/ BecomesDue(d)
    PROVE  DeliveryBase'
<1>1. ASSUME NEW e \in Endpoints, Deactivate(e) PROVE DeliveryBase'
  BY <1>1 DEF Deactivate, DeliveryBase, DeliveryTypeOK, WorkInv, FanInv, Hands, publishing, columns, working
<1>2. ASSUME NEW d \in Deliveries, RequeueFailed(d) PROVE DeliveryBase'
  BY <1>2, SizesAssumption DEF RequeueFailed, DeliveryBase, DeliveryTypeOK, WorkInv, FanInv, Hands, Open, publishing, working
<1>3. ASSUME NEW d \in Deliveries, BecomesDue(d) PROVE DeliveryBase'
  BY <1>3 DEF BecomesDue, DeliveryBase, DeliveryTypeOK, WorkInv, FanInv, Hands, publishing, working
<1> QED BY <1>1, <1>2, <1>3

\* A claim: only rows that exist.
LEMMA ClaimBase ==
    ASSUME DeliveryBase, NEW w \in Workers, Claim(w)
    PROVE  DeliveryBase'
<1>1. PICK picked \in SUBSET Claimable \ {{}} :
         /\ TakeRows(w, picked)
         /\ next' = [d \in Deliveries |-> IF d \in picked THEN "later" ELSE next[d]]
  BY DEF Claim
<1>2. picked \subseteq Deliveries /\ \A d \in picked : status[d] # "absent"
  BY DEF Claimable, Waits, Open
<1>3. /\ at[w] = "idle" /\ at' = [at EXCEPT ![w] = "take"]
      /\ mine' = [mine EXCEPT ![w] = picked]
      /\ off' = [off EXCEPT ![w] = {d \in picked : d[2] \notin active}]
      /\ UNCHANGED <<event, targets, belated, active, status, attempts, job, try, received, requeued, unsure, faults>>
  BY <1>1 DEF Claim, TakeRows, Goto, publishing
<1>4. DeliveryTypeOK'
  BY <1>1, <1>2, <1>3 DEF DeliveryBase, DeliveryTypeOK, Stages
<1>5. job[w] = None
  BY <1>3 DEF DeliveryBase, WorkInv, HasJob
<1>6. WorkInv'
  BY <1>2, <1>3, <1>5, NoneAssumption DEF DeliveryBase, DeliveryTypeOK, WorkInv, HasJob
<1>7. FanInv'
  BY <1>2, <1>3 DEF DeliveryBase, DeliveryTypeOK, FanInv, Hands
<1> QED BY <1>4, <1>6, <1>7 DEF DeliveryBase

\* A worker's step that inserts nothing takes no new row into its hands.
LEMMA WorkerBase ==
    ASSUME DeliveryBase, NEW w \in Workers,
           \/ Take(w) \/ TickEnds(w) \/ SendSucceeds(w) \/ SendFails(w)
           \/ MarkDelivered(w) \/ RecordFailure(w) \/ FailPermanently(w)
           \/ MarkThrows(w) \/ Die(w)
    PROVE  DeliveryBase'
<1> USE DEF DeliveryBase, DeliveryTypeOK, WorkInv, FanInv, Hands, HasJob, Stages, Open, Goto, publishing, columns
<1> USE SizesAssumption, NoneAssumption
<1>1. CASE Take(w)
  BY <1>1 DEF Take
<1>2. CASE TickEnds(w)
  BY <1>2 DEF TickEnds
<1>3. CASE SendSucceeds(w)
  BY <1>3 DEF SendSucceeds
<1>4. CASE SendFails(w)
  BY <1>4 DEF SendFails
<1>5. CASE MarkDelivered(w)
  BY <1>5 DEF MarkDelivered, Delivered, Done
<1>6. CASE RecordFailure(w)
  BY <1>6 DEF RecordFailure, Done
<1>7. CASE FailPermanently(w)
  BY <1>7 DEF FailPermanently, Done
<1>8. CASE MarkThrows(w)
  BY <1>8 DEF MarkThrows, Fault, Delivered
<1>9. CASE Die(w)
  BY <1>9 DEF Die, Fault
<1> QED BY <1>1, <1>2, <1>3, <1>4, <1>5, <1>6, <1>7, <1>8, <1>9

-----------------------------------------------------------------------------
\* Unless a client retried it, a delivery in hand is in nobody else's, and is leased or
\* has just been delivered with the answer lost.
HeldInv ==
    \A w \in Workers : \A d \in Hands(w) : requeued[d] = 0 =>
        /\ \A v \in Workers \ {w} : d \notin Hands(v)
        /\ \/ status[d] \in Open /\ next[d] = "later"
           \/ status[d] = "delivered" /\ job[w] = d /\ at[w] = "unmarked"

\* What a job's delivery is, and whose else it can be.
LEMMA JobInHand ==
    ASSUME DeliveryBase, NEW w \in Workers, at[w] \in HasJob
    PROVE  job[w] \in Deliveries /\ job[w] \in Hands(w)
BY NoneAssumption DEF DeliveryBase, DeliveryTypeOK, WorkInv, Hands

\* What a claim takes waited, so nobody who leases it has it in hand.
LEMMA ClaimHeld ==
    ASSUME DeliveryBase, HeldInv, LeasesHold, NEW w \in Workers, Claim(w) PROVE HeldInv'
<1>1. PICK picked \in SUBSET Claimable \ {{}} :
         /\ TakeRows(w, picked)
         /\ next' = [d \in Deliveries |-> IF d \in picked THEN "later" ELSE next[d]]
  BY DEF Claim
<1>2. picked \subseteq Deliveries /\ \A d \in picked : status[d] \in Open /\ next[d] # "later"
  BY DEF Claimable, Waits
<1>3. /\ at[w] = "idle" /\ at' = [at EXCEPT ![w] = "take"]
      /\ mine' = [mine EXCEPT ![w] = picked]
      /\ UNCHANGED <<status, job, requeued>>
  BY <1>1 DEF Claim, TakeRows, Goto
<1>4. job[w] = None
  BY <1>3 DEF DeliveryBase, WorkInv, HasJob
<1> QED
  BY <1>1, <1>2, <1>3, <1>4 DEF HeldInv, Hands, DeliveryBase, DeliveryTypeOK, Open

\* Ownership is kept by every step.
LEMMA HeldKept ==
    ASSUME DeliveryBase, HeldInv, LeasesHold, DeliveryNext PROVE HeldInv'
<1> USE DEF DeliveryBase, DeliveryTypeOK, Hands, Open, publishing, columns, working, Goto
<1>1. ASSUME NEW n \in Events, Lookup(n) \/ BeginInsert(n) PROVE HeldInv'
  BY <1>1 DEF HeldInv, Lookup, BeginInsert
<1>2. ASSUME NEW n \in Events, Enqueue(n) PROVE HeldInv'
  BY <1>2 DEF HeldInv, Enqueue, FanInv, Deliveries
<1>3. ASSUME NEW e \in Endpoints, Deactivate(e) PROVE HeldInv'
  BY <1>3 DEF HeldInv, Deactivate
<1>4. ASSUME NEW d \in Deliveries, RequeueFailed(d) PROVE HeldInv'
  BY <1>4 DEF HeldInv, RequeueFailed
<1>5. ASSUME NEW d \in Deliveries, BecomesDue(d) PROVE HeldInv'
  BY <1>5 DEF HeldInv, BecomesDue
<1>6. ASSUME NEW w \in Workers, Claim(w) PROVE HeldInv'
  BY <1>6, ClaimHeld
<1>7. ASSUME NEW w \in Workers, Take(w) \/ TickEnds(w) \/ SendSucceeds(w) \/ SendFails(w) PROVE HeldInv'
  <2>1. CASE Take(w)
    BY <2>1 DEF HeldInv, Take, WorkInv, HasJob
  <2>2. CASE TickEnds(w)
    BY <2>2 DEF HeldInv, TickEnds, WorkInv, HasJob
  <2>3. CASE SendSucceeds(w)
    BY <2>3 DEF HeldInv, SendSucceeds, WorkInv, HasJob
  <2>4. CASE SendFails(w)
    BY <2>4 DEF HeldInv, SendFails, WorkInv, HasJob
  <2> QED BY <1>7, <2>1, <2>2, <2>3, <2>4
<1>8. ASSUME NEW w \in Workers, MarkDelivered(w) PROVE HeldInv'
  BY <1>8, JobInHand DEF HeldInv, MarkDelivered, Delivered, Done, WorkInv, HasJob
<1>9. ASSUME NEW w \in Workers, RecordFailure(w) \/ FailPermanently(w) PROVE HeldInv'
  BY <1>9, JobInHand DEF HeldInv, RecordFailure, FailPermanently, Done, WorkInv, HasJob
<1>10. ASSUME NEW w \in Workers, MarkThrows(w) PROVE HeldInv'
  BY <1>10, JobInHand DEF HeldInv, MarkThrows, Delivered, WorkInv, HasJob
<1>11. ASSUME NEW w \in Workers, Die(w) PROVE HeldInv'
  BY <1>11 DEF HeldInv, Die
<1> QED
  BY <1>1, <1>2, <1>3, <1>4, <1>5, <1>6, <1>7, <1>8, <1>9, <1>10, <1>11 DEF DeliveryNext, WorkerStep

-----------------------------------------------------------------------------
\* An endpoint got the delivery, or is about to.
SentOrHeld(d) == received[d] > 0 \/ \E w \in Workers : d \in Hands(w)

\* What an older delivery of the endpoint is excused by.
Excused(o) == o \in belated \cup unsure \/ requeued[o] > 0

\* Once a delivery has been claimed the older ones of its endpoint do not wait.
OrderInv ==
    \A d, o \in Deliveries :
        OlderRow(o, d) /\ SentOrHeld(d) /\ status[o] # "absent" => ~Waits(o) \/ Excused(o)

\* A step that makes nobody wait who did not, and claims nothing.
LEMMA OrderUndisturbed ==
    ASSUME DeliveryBase, OrderInv,
           \A d \in Deliveries :
               /\ SentOrHeld(d)' => SentOrHeld(d)
               /\ Excused(d) => Excused(d)'
               /\ (status[d] # "absent")' => status[d] # "absent"
               /\ Waits(d)' => Waits(d) \/ Excused(d)'
    PROVE  OrderInv'
<1> SUFFICES ASSUME NEW d \in Deliveries, NEW o \in Deliveries,
                    OlderRow(o, d), SentOrHeld(d)', (status[o] # "absent")', Waits(o)'
             PROVE  Excused(o)'
  BY DEF OrderInv, OlderRow
<1> QED BY DEF OrderInv

\* The order is kept by every step: only a claim reaches a new delivery, and it sees no
\* older one that waits.
LEMMA OrderKept ==
    ASSUME DeliveryBase, HeldInv, OrderInv, LeasesHold, DeliveryNext PROVE OrderInv'
<1> USE DEF DeliveryBase, DeliveryTypeOK, Hands, Open, publishing, columns, working, Goto
<1>1. ASSUME NEW n \in Events, Lookup(n) \/ BeginInsert(n) PROVE OrderInv'
  BY <1>1, OrderUndisturbed DEF SentOrHeld, Excused, Waits, Lookup, BeginInsert
<1>2. ASSUME NEW n \in Events, Enqueue(n) PROVE OrderInv'
  <2>1. \A d \in Deliveries : SentOrHeld(d)' => SentOrHeld(d) /\ status[d] # "absent"
    BY <1>2 DEF Enqueue, SentOrHeld, FanInv
  <2>2. \A o \in Deliveries : Excused(o) => Excused(o)'
    BY <1>2 DEF Enqueue, Excused
  <2>3. \A o \in Deliveries : status[o] # "absent" =>
            status'[o] = status[o] /\ attempts'[o] = attempts[o]
    BY <1>2 DEF Enqueue, FanInv, Deliveries
  <2>4. \A d, o \in Deliveries :
            OlderRow(o, d) /\ status[d] # "absent" /\ status[o] = "absent" /\ status'[o] # "absent" => o \in belated'
    BY <1>2 DEF Enqueue
  <2> SUFFICES ASSUME NEW d \in Deliveries, NEW o \in Deliveries,
                      OlderRow(o, d), SentOrHeld(d)', status'[o] # "absent", Waits(o)'
               PROVE  Excused(o)'
    BY DEF OrderInv, OlderRow
  <2>5. CASE status[o] = "absent"
    BY <2>1, <2>4, <2>5 DEF Excused
  <2>6. CASE status[o] # "absent"
    BY <2>1, <2>2, <2>3, <2>6 DEF OrderInv, Waits
  <2> QED BY <2>5, <2>6
<1>3. ASSUME NEW e \in Endpoints, Deactivate(e) PROVE OrderInv'
  BY <1>3, OrderUndisturbed DEF SentOrHeld, Excused, Waits, Deactivate
<1>4. ASSUME NEW d \in Deliveries, RequeueFailed(d) PROVE OrderInv'
  BY <1>4, OrderUndisturbed DEF SentOrHeld, Excused, Waits, RequeueFailed
<1>5. ASSUME NEW d \in Deliveries, BecomesDue(d) PROVE OrderInv'
  BY <1>5, OrderUndisturbed DEF SentOrHeld, Excused, Waits, BecomesDue
<1>6. ASSUME NEW w \in Workers, Claim(w) PROVE OrderInv'
  <2>1. PICK picked \in SUBSET Claimable \ {{}} : TakeRows(w, picked)
    BY <1>6 DEF Claim
  <2>2. /\ mine' = [mine EXCEPT ![w] = picked]
        /\ UNCHANGED <<event, targets, belated, status, attempts, job, received, requeued, unsure>>
    BY <1>6, <2>1 DEF Claim, TakeRows
  <2>3. \A d \in Deliveries : SentOrHeld(d)' => SentOrHeld(d) \/ d \in picked
    BY <2>2 DEF SentOrHeld
  <2>4. \A d \in picked : \A o \in Deliveries : OlderRow(o, d) => ~Waits(o)
    BY DEF Claimable
  <2>5. \A o \in Deliveries : (Waits(o)' <=> Waits(o)) /\ (Excused(o)' <=> Excused(o))
    BY <2>2 DEF Waits, Excused
  <2> QED BY <2>2, <2>3, <2>4, <2>5 DEF OrderInv, OlderRow
<1>7. ASSUME NEW w \in Workers, Take(w) \/ TickEnds(w) PROVE OrderInv'
  BY <1>7, OrderUndisturbed DEF SentOrHeld, Excused, Waits, Take, TickEnds
<1>8. ASSUME NEW w \in Workers, SendSucceeds(w) \/ SendFails(w) PROVE OrderInv'
  <2>1. \A d \in Deliveries : SentOrHeld(d)' => SentOrHeld(d)
    <3>1. job[w] \in Hands(w) /\ job[w] \in Deliveries
      BY <1>8, JobInHand DEF SendSucceeds, SendFails, HasJob
    <3>2. \A d \in Deliveries : d # job[w] => received'[d] = received[d]
      BY <1>8, <3>1 DEF SendSucceeds, SendFails
    <3>3. UNCHANGED <<mine, job>>
      BY <1>8 DEF SendSucceeds, SendFails
    <3> QED BY <3>1, <3>2, <3>3 DEF SentOrHeld
  <2> QED
    BY <1>8, <2>1, OrderUndisturbed DEF Excused, Waits, SendSucceeds, SendFails
<1>9. ASSUME NEW w \in Workers, MarkDelivered(w) PROVE OrderInv'
  <2>1. \A d \in Deliveries : (SentOrHeld(d)' => SentOrHeld(d)) /\ (Excused(d)' <=> Excused(d))
    BY <1>9 DEF SentOrHeld, Excused, MarkDelivered, Done
  <2>2. \A d \in Deliveries : status'[d] = status[d] \/ status'[d] = "delivered"
    BY <1>9 DEF MarkDelivered, Delivered
  <2>3. job[w] \in Deliveries /\ job[w] \in Hands(w)
    BY <1>9, JobInHand DEF MarkDelivered, HasJob
  <2>4. UNCHANGED attempts
    BY <1>9 DEF MarkDelivered, Delivered
  <2>5. \A d \in Deliveries : status'[d] # status[d] => status[d] # "absent"
    BY <1>9, <2>3 DEF MarkDelivered, Delivered, FanInv
  <2> QED
    BY <2>1, <2>2, <2>4, <2>5, OrderUndisturbed DEF Waits
<1>10. ASSUME NEW w \in Workers, MarkThrows(w) PROVE OrderInv'
  <2>1. \A d \in Deliveries : (SentOrHeld(d)' => SentOrHeld(d)) /\ (Excused(d) => Excused(d)')
    BY <1>10 DEF SentOrHeld, Excused, MarkThrows
  <2>2. \A d \in Deliveries : status'[d] = status[d] \/ status'[d] = "delivered"
    BY <1>10 DEF MarkThrows, Delivered
  <2>3. job[w] \in Deliveries /\ job[w] \in Hands(w)
    BY <1>10, JobInHand DEF MarkThrows, HasJob
  <2>4. UNCHANGED attempts
    BY <1>10 DEF MarkThrows, Delivered
  <2>5. \A d \in Deliveries : status'[d] # status[d] => status[d] # "absent"
    BY <1>10, <2>3 DEF MarkThrows, Delivered, FanInv
  <2> QED
    BY <2>1, <2>2, <2>4, <2>5, OrderUndisturbed DEF Waits
<1>11. ASSUME NEW w \in Workers, RecordFailure(w) \/ FailPermanently(w) PROVE OrderInv'
  <2>1. job[w] \in Deliveries /\ job[w] \in Hands(w)
    BY <1>11, JobInHand DEF RecordFailure, FailPermanently, HasJob
  <2> PICK d \in Deliveries : d = job[w]
    BY <2>1
  <2>2. /\ status' = [status EXCEPT ![d] = "failed"]
        /\ attempts' = [attempts EXCEPT ![d] = attempts[d] + 1]
        /\ job' = [job EXCEPT ![w] = None]
        /\ UNCHANGED <<mine, received, requeued, unsure, belated>>
    BY <1>11 DEF RecordFailure, FailPermanently, Done
  <2>3. \A o \in Deliveries : (SentOrHeld(o)' => SentOrHeld(o)) /\ (Excused(o)' <=> Excused(o))
    BY <2>2 DEF SentOrHeld, Excused
  <2>4. status[d] \in Open \/ Excused(d)
    BY <1>11, <2>1 DEF HeldInv, Excused, RecordFailure, FailPermanently, WorkInv
  <2>5. status[d] # "absent"
    BY <2>1 DEF FanInv
  <2>6. Waits(d)' => Waits(d) \/ Excused(d)
    BY <2>2, <2>4, SizesAssumption DEF Waits
  <2>7. \A o \in Deliveries : o # d => (Waits(o)' <=> Waits(o))
    BY <2>2 DEF Waits
  <2> QED
    BY <2>2, <2>3, <2>5, <2>6, <2>7, OrderUndisturbed
<1>12. ASSUME NEW w \in Workers, Die(w) PROVE OrderInv'
  BY <1>12, OrderUndisturbed DEF SentOrHeld, Excused, Waits, Die
<1> QED
  BY <1>1, <1>2, <1>3, <1>4, <1>5, <1>6, <1>7, <1>8, <1>9, <1>10, <1>11, <1>12
  DEF DeliveryNext, WorkerStep

-----------------------------------------------------------------------------
\* The requests of delivery d that worker w may still make before it records the end
\* of this attempt.
ToSend(w, d) ==
    IF d \in mine[w] THEN 1 .. Tries
    ELSE IF job[w] = d /\ at[w] = "send" THEN try[w] .. Tries
    ELSE {}

OpenRequests(d) == {s \in Workers \X (1 .. Tries) : s[2] \in ToSend(s[1], d)}

\* A worker may come to have the delivery in hand although none has it now.
MayBeClaimed(d) ==
    status[d] \in Open /\ (next[d] # "later" \/ \A w \in Workers : d \notin Hands(w))

Accounted(d) == attempts[d] + faults + requeued[d]

\* What was received, what the workers may still send and what a next claim would
\* send is paid for by attempts, faults and client retries.
SendInv ==
    \A d \in Deliveries :
        /\ IsFiniteSet(OpenRequests(d))
        /\ received[d] + Cardinality(OpenRequests(d)) + (IF MayBeClaimed(d) THEN Tries ELSE 0)
               <= Tries * (Accounted(d) + 1)

\* Counting more pays for more.
LEMMA MoreIsPaid ==
    ASSUME NEW a \in Nat, NEW b \in Nat, a <= b
    PROVE  /\ Tries * (a + 1) \in Nat
           /\ Tries * (a + 1) <= Tries * (b + 1)
           /\ a < b => Tries * (a + 1) + Tries <= Tries * (b + 1)
<1>1. PICK c \in Nat : b = a + c
  <2>1. b - a \in Nat /\ b = a + (b - a)
    OBVIOUS
  <2> QED BY <2>1
<1>2. Tries \in Nat /\ Tries * c \in Nat /\ Tries * a \in Nat
  BY SizesAssumption
<1>3. Tries * (a + 1) = Tries * a + Tries /\ Tries * (b + 1) = Tries * a + Tries * c + Tries
  BY <1>1, <1>2
<1>4. c >= 1 => Tries * c >= Tries
  <2> SUFFICES ASSUME c >= 1 PROVE Tries * c >= Tries
    OBVIOUS
  <2>1. PICK e \in Nat : c = e + 1
    <3>1. c - 1 \in Nat /\ c = (c - 1) + 1
      OBVIOUS
    <3> QED BY <3>1
  <2>2. Tries * c = Tries * e + Tries /\ Tries * e \in Nat
    BY <2>1, <1>2
  <2> QED BY <2>2, <1>2
<1> QED BY <1>1, <1>2, <1>3, <1>4

\* The counters of a delivery are numbers.
LEMMA Accounted_Nat ==
    ASSUME DeliveryBase, NEW d \in Deliveries
    PROVE  Accounted(d) \in Nat /\ received[d] \in Nat
BY DEF DeliveryBase, DeliveryTypeOK, Accounted

\* A step that sends nothing of d, takes no new requests of d on and frees d only if
\* something was counted.
LEMMA LessToSend ==
    ASSUME DeliveryBase, DeliveryBase', SendInv, NEW d \in Deliveries,
           OpenRequests(d)' \subseteq OpenRequests(d), received'[d] = received[d],
           Accounted(d) <= Accounted(d)',
           MayBeClaimed(d)' => MayBeClaimed(d) \/ Accounted(d) < Accounted(d)'
    PROVE  /\ IsFiniteSet(OpenRequests(d)')
           /\ received'[d] + Cardinality(OpenRequests(d)') + (IF MayBeClaimed(d)' THEN Tries ELSE 0)
                  <= Tries * (Accounted(d)' + 1)
<1> DEFINE n == Cardinality(OpenRequests(d))
           m == Cardinality(OpenRequests(d)')
<1>1. IsFiniteSet(OpenRequests(d)) /\ n \in Nat
  BY FS_CardinalityType DEF SendInv
<1>2. IsFiniteSet(OpenRequests(d)') /\ m <= n /\ m \in Nat
  BY <1>1, FS_Subset, FS_CardinalityType
<1>3. Accounted(d) \in Nat /\ Accounted(d)' \in Nat /\ received[d] \in Nat
  <2>1. attempts'[d] \in Nat /\ faults' \in Nat /\ requeued'[d] \in Nat
    BY DEF DeliveryBase, DeliveryTypeOK
  <2> QED BY <2>1, Accounted_Nat DEF Accounted
<1>4. received[d] + n + (IF MayBeClaimed(d) THEN Tries ELSE 0) <= Tries * (Accounted(d) + 1)
  BY DEF SendInv
<1>5. /\ Tries \in Nat /\ Tries * (Accounted(d) + 1) \in Nat
      /\ Tries * (Accounted(d)' + 1) \in Nat
      /\ Tries * (Accounted(d) + 1) <= Tries * (Accounted(d)' + 1)
      /\ Accounted(d) < Accounted(d)' => Tries * (Accounted(d) + 1) + Tries <= Tries * (Accounted(d)' + 1)
  BY <1>3, MoreIsPaid, SizesAssumption
<1> HIDE DEF n, m
<1> QED BY <1>2, <1>3, <1>4, <1>5, <1>1 DEF m

\* The requests of one attempt of one worker.
LEMMA OneBatch ==
    ASSUME NEW w
    PROVE  IsFiniteSet({w} \X (1 .. Tries)) /\ Cardinality({w} \X (1 .. Tries)) = Tries
<1> DEFINE one == {w}
           tries == 1 .. Tries
<1>1. IsFiniteSet(one) /\ Cardinality(one) = 1
  BY FS_Singleton
<1>2. IsFiniteSet(tries) /\ Cardinality(tries) = Tries
  <2>1. 1 \in Int /\ Tries \in Int /\ Tries > 0
    BY SizesAssumption
  <2>2. IsFiniteSet(tries) /\ Cardinality(tries) = IF 1 > Tries THEN 0 ELSE Tries - 1 + 1
    BY <2>1, FS_Interval
  <2> QED BY <2>1, <2>2
<1> HIDE DEF one, tries
<1>3. IsFiniteSet(one \X tries) /\ Cardinality(one \X tries) = Cardinality(one) * Cardinality(tries)
  BY <1>1, <1>2, FS_Product
<1>4. Cardinality(one \X tries) = Tries
  BY <1>1, <1>2, <1>3, SizesAssumption
<1> QED BY <1>3, <1>4 DEF one, tries

\* A claimed delivery: what was free is now in the hands of the worker.
LEMMA ClaimSends ==
    ASSUME DeliveryBase, DeliveryBase', SendInv, LeasesHold, NEW w \in Workers, Claim(w)
    PROVE  SendInv'
<1>1. PICK picked \in SUBSET Claimable \ {{}} :
         /\ TakeRows(w, picked)
         /\ next' = [d \in Deliveries |-> IF d \in picked THEN "later" ELSE next[d]]
  BY DEF Claim
<1>2. /\ picked \subseteq Deliveries
      /\ \A d \in picked : status[d] \in Open /\ next[d] # "later"
  BY DEF Claimable, Waits
<1>3. /\ at[w] = "idle" /\ at' = [at EXCEPT ![w] = "take"]
      /\ mine' = [mine EXCEPT ![w] = picked]
      /\ UNCHANGED <<status, attempts, job, try, received, requeued, faults>>
  BY <1>1 DEF Claim, TakeRows, Goto
<1>4. job[w] = None /\ mine[w] = {}
  BY <1>3 DEF DeliveryBase, WorkInv, HasJob
<1>5. \A d \in Deliveries, v \in Workers : v # w => ToSend(v, d)' = ToSend(v, d)
  BY <1>3 DEF ToSend, DeliveryBase, DeliveryTypeOK
<1>6. \A d \in Deliveries : ToSend(w, d) = {} /\ ToSend(w, d)' = IF d \in picked THEN 1 .. Tries ELSE {}
  BY <1>3, <1>4, NoneAssumption DEF ToSend, DeliveryBase, DeliveryTypeOK
<1>7. \A d \in Deliveries : Accounted(d)' = Accounted(d)
  BY <1>3 DEF Accounted
<1>8. ASSUME NEW d \in Deliveries, d \notin picked
      PROVE  /\ IsFiniteSet(OpenRequests(d)')
             /\ received'[d] + Cardinality(OpenRequests(d)') + (IF MayBeClaimed(d)' THEN Tries ELSE 0)
                    <= Tries * (Accounted(d)' + 1)
  <2>1. OpenRequests(d)' \subseteq OpenRequests(d)
    BY <1>5, <1>6, <1>8 DEF OpenRequests
  <2>2. MayBeClaimed(d)' => MayBeClaimed(d)
    BY <1>1, <1>3, <1>4, <1>8 DEF MayBeClaimed, Hands, DeliveryBase, DeliveryTypeOK
  <2>3. Accounted(d) <= Accounted(d)'
    BY <1>7, Accounted_Nat
  <2> QED BY <1>3, <2>1, <2>2, <2>3, LessToSend
<1>9. ASSUME NEW d \in picked
      PROVE  /\ IsFiniteSet(OpenRequests(d)')
             /\ received'[d] + Cardinality(OpenRequests(d)') + (IF MayBeClaimed(d)' THEN Tries ELSE 0)
                    <= Tries * (Accounted(d)' + 1)
  <2> DEFINE new == {w} \X (1 .. Tries)
  <2>0. d \in Deliveries /\ Tries \in Nat
    BY <1>2, SizesAssumption
  <2>1. OpenRequests(d)' = OpenRequests(d) \cup new /\ OpenRequests(d) \cap new = {}
    BY <1>5, <1>6, <2>0 DEF OpenRequests
  <2>2. IsFiniteSet(new) /\ Cardinality(new) = Tries
    BY OneBatch
  <2>3. IsFiniteSet(OpenRequests(d)) /\ Cardinality(OpenRequests(d)) \in Nat
    BY <2>0, FS_CardinalityType DEF SendInv
  <2>4. IsFiniteSet(OpenRequests(d)') /\ Cardinality(OpenRequests(d)') = Cardinality(OpenRequests(d)) + Tries
    <3> DEFINE old == OpenRequests(d)
    <3>1. IsFiniteSet(old) /\ OpenRequests(d)' = old \cup new /\ Cardinality(old \cap new) = 0
      BY <2>1, <2>3, FS_EmptySet
    <3> HIDE DEF old, new
    <3>2. IsFiniteSet(old \cup new) /\ Cardinality(old \cup new)
              = Cardinality(old) + Cardinality(new) - Cardinality(old \cap new)
      BY <2>2, <3>1, FS_Union
    <3>3. Cardinality(old) \in Nat
      BY <2>3 DEF old
    <3> QED BY <2>0, <2>2, <3>1, <3>2, <3>3 DEF old
  <2>5. MayBeClaimed(d) /\ ~MayBeClaimed(d)'
    <3>1. MayBeClaimed(d)
      BY <1>2 DEF MayBeClaimed
    <3>2. next'[d] = "later"
      <4> HIDE <1>9
      <4>1. next' = [x \in Deliveries |-> IF x \in picked THEN "later" ELSE next[x]]
        BY <1>1
      <4> QED BY <4>1, <1>9, <2>0
    <3>3. mine'[w] = picked
      BY <1>3 DEF DeliveryBase, DeliveryTypeOK
    <3>4. d \in mine'[w]
      BY <1>9, <3>3
    <3>5. d \in Hands(w)'
      BY <3>4 DEF Hands
    <3> QED BY <3>1, <3>2, <3>5 DEF MayBeClaimed
  <2>6. received[d] + Cardinality(OpenRequests(d)) + Tries <= Tries * (Accounted(d) + 1)
    BY <2>0, <2>5 DEF SendInv
  <2>7. received[d] \in Nat /\ Tries * (Accounted(d) + 1) \in Nat
    BY <2>0, Accounted_Nat, MoreIsPaid
  <2>8. received'[d] = received[d] /\ Accounted(d)' = Accounted(d)
    BY <1>3, <1>7, <2>0
  <2> HIDE DEF new
  <2> QED BY <2>0, <2>3, <2>4, <2>5, <2>6, <2>7, <2>8
<1> QED BY <1>8, <1>9 DEF SendInv

\* A request: one thing less to send, at most one more received.
LEMMA RequestSends ==
    ASSUME DeliveryBase, DeliveryBase', SendInv, NEW w \in Workers, SendSucceeds(w) \/ SendFails(w)
    PROVE  SendInv'
<1>1. at[w] = "send" /\ UNCHANGED <<status, next, attempts, mine, job, requeued, faults>>
  BY DEF SendSucceeds, SendFails, columns
<1>2. PICK d \in Deliveries : d = job[w]
  BY <1>1, JobInHand DEF HasJob
<1>3. \A o \in Deliveries : o # d => received'[o] = received[o]
  BY <1>2 DEF SendSucceeds, SendFails, DeliveryBase, DeliveryTypeOK
<1>4. received'[d] \in {received[d], received[d] + 1}
  BY <1>2 DEF SendSucceeds, SendFails, DeliveryBase, DeliveryTypeOK
<1>5. d \notin mine[w] /\ try[w] \in 1 .. Tries
  BY <1>2 DEF DeliveryBase, DeliveryTypeOK, WorkInv
<1>6. \A o \in Deliveries, v \in Workers : v # w => ToSend(v, o)' = ToSend(v, o)
  <2>1. \A v \in Workers : v # w => at'[v] = at[v] /\ try'[v] = try[v]
    <3>1. CASE SendSucceeds(w)
      BY <3>1 DEF SendSucceeds, Goto, DeliveryBase, DeliveryTypeOK
    <3>2. CASE SendFails(w)
      BY <3>2 DEF SendFails, Goto, DeliveryBase, DeliveryTypeOK
    <3> QED BY <3>1, <3>2
  <2> QED BY <1>1, <2>1 DEF ToSend
<1>7. \A o \in Deliveries : o # d => ToSend(w, o)' = ToSend(w, o)
  BY <1>1, <1>2 DEF ToSend
<1>8. ToSend(w, d) = try[w] .. Tries /\ ToSend(w, d)' \subseteq ToSend(w, d) \ {try[w]}
  BY <1>1, <1>2, <1>5, SizesAssumption
  DEF ToSend, SendSucceeds, SendFails, Goto, DeliveryBase, DeliveryTypeOK
<1>9. \A o \in Deliveries : (MayBeClaimed(o)' <=> MayBeClaimed(o)) /\ Accounted(o)' = Accounted(o)
  BY <1>1 DEF MayBeClaimed, Hands, Accounted
<1>10. ASSUME NEW o \in Deliveries, o # d
       PROVE  /\ IsFiniteSet(OpenRequests(o)')
              /\ received'[o] + Cardinality(OpenRequests(o)') + (IF MayBeClaimed(o)' THEN Tries ELSE 0)
                     <= Tries * (Accounted(o)' + 1)
  <2>1. OpenRequests(o)' \subseteq OpenRequests(o)
    BY <1>6, <1>7, <1>10 DEF OpenRequests
  <2> QED BY <1>3, <1>9, <1>10, <2>1, Accounted_Nat, LessToSend
<1>11. /\ IsFiniteSet(OpenRequests(d)')
       /\ received'[d] + Cardinality(OpenRequests(d)') + (IF MayBeClaimed(d)' THEN Tries ELSE 0)
              <= Tries * (Accounted(d)' + 1)
  <2> DEFINE rest == OpenRequests(d) \ {<<w, try[w]>>}
  <2>1. OpenRequests(d)' \subseteq rest /\ <<w, try[w]>> \in OpenRequests(d)
    <3>1. <<w, try[w]>> \in OpenRequests(d)
      BY <1>5, <1>8, SizesAssumption DEF OpenRequests
    <3>2. ASSUME NEW s \in OpenRequests(d)' PROVE s \in rest
      <4>1. PICK v \in Workers, k \in 1 .. Tries : s = <<v, k>> /\ k \in ToSend(v, d)'
        BY <3>2 DEF OpenRequests
      <4>2. CASE v = w
        BY <1>8, <4>1, <4>2 DEF OpenRequests
      <4>3. CASE v # w
        BY <1>6, <4>1, <4>3 DEF OpenRequests
      <4> QED BY <4>2, <4>3
    <3> QED BY <3>1, <3>2
  <2>2. IsFiniteSet(OpenRequests(d)) /\ Cardinality(OpenRequests(d)) \in Nat
    BY FS_CardinalityType DEF SendInv
  <2>3. IsFiniteSet(rest) /\ Cardinality(rest) = Cardinality(OpenRequests(d)) - 1
    BY <2>1, <2>2, FS_RemoveElement
  <2>4. IsFiniteSet(OpenRequests(d)') /\ Cardinality(OpenRequests(d)') <= Cardinality(rest) /\ Cardinality(OpenRequests(d)') \in Nat
    BY <2>1, <2>3, FS_Subset, FS_CardinalityType
  <2>5. received[d] + Cardinality(OpenRequests(d)) + (IF MayBeClaimed(d) THEN Tries ELSE 0) <= Tries * (Accounted(d) + 1)
    BY DEF SendInv
  <2>6. received[d] \in Nat /\ Tries \in Nat /\ Tries * (Accounted(d) + 1) \in Nat
    BY Accounted_Nat, MoreIsPaid, SizesAssumption
  <2>7. (MayBeClaimed(d)' <=> MayBeClaimed(d)) /\ Accounted(d)' = Accounted(d)
    BY <1>9
  <2> DEFINE spare == IF MayBeClaimed(d) THEN Tries ELSE 0
             spareNext == IF MayBeClaimed(d)' THEN Tries ELSE 0
  <2>8. spareNext = spare /\ spare \in Nat
    BY <2>6, <2>7
  <2> HIDE DEF rest, spare, spareNext
  <2>9. received'[d] \in Nat /\ received'[d] <= received[d] + 1
    BY <1>4, <2>6
  <2>10. received'[d] + Cardinality(OpenRequests(d)') + spare <= Tries * (Accounted(d) + 1)
    <3>1. received[d] + Cardinality(OpenRequests(d)) + spare <= Tries * (Accounted(d) + 1)
      BY <2>5 DEF spare
    <3> QED BY <3>1, <2>2, <2>3, <2>4, <2>6, <2>8, <2>9
  <2> QED BY <2>4, <2>7, <2>8, <2>10 DEF spareNext
<1> QED BY <1>10, <1>11 DEF SendInv

\* Every other step: nothing more to send, and what it frees it has counted.
LEMMA QuietSends ==
    ASSUME DeliveryBase, DeliveryBase', SendInv, UNCHANGED received,
           \A d \in Deliveries :
               /\ \A w \in Workers : ToSend(w, d)' \subseteq ToSend(w, d)
               /\ Accounted(d) <= Accounted(d)'
               /\ MayBeClaimed(d)' => MayBeClaimed(d) \/ Accounted(d) < Accounted(d)'
    PROVE  SendInv'
<1> SUFFICES ASSUME NEW d \in Deliveries
             PROVE  /\ IsFiniteSet(OpenRequests(d)')
                    /\ received'[d] + Cardinality(OpenRequests(d)') + (IF MayBeClaimed(d)' THEN Tries ELSE 0)
                           <= Tries * (Accounted(d)' + 1)
  BY DEF SendInv
<1>1. OpenRequests(d)' \subseteq OpenRequests(d)
  BY DEF OpenRequests
<1> QED BY <1>1, LessToSend

\* The bound is kept by every step.
LEMMA SendKept ==
    ASSUME DeliveryBase, DeliveryBase', HeldInv, SendInv, LeasesHold, DeliveryNext
    PROVE  SendInv'
<1> USE DEF Goto, publishing, columns, working
<1>0. \A d \in Deliveries : Accounted(d) \in Nat
  BY Accounted_Nat
<1>1. ASSUME NEW n \in Events, Lookup(n) \/ BeginInsert(n) PROVE SendInv'
  BY <1>0, <1>1, QuietSends DEF Lookup, BeginInsert, ToSend, MayBeClaimed, Hands, Accounted
<1>3. ASSUME NEW e \in Endpoints, Deactivate(e) PROVE SendInv'
  BY <1>0, <1>3, QuietSends DEF Deactivate, ToSend, MayBeClaimed, Hands, Accounted
<1>4. ASSUME NEW d \in Deliveries, RequeueFailed(d) PROVE SendInv'
  <2>1. \A o \in Deliveries, w \in Workers : ToSend(w, o)' = ToSend(w, o)
    BY <1>4 DEF RequeueFailed, ToSend
  <2>2. Accounted(d)' = Accounted(d) + 1
    BY <1>4 DEF RequeueFailed, Accounted, DeliveryBase, DeliveryTypeOK
  <2>3. \A o \in Deliveries : o # d => Accounted(o)' = Accounted(o) /\ (MayBeClaimed(o)' <=> MayBeClaimed(o))
    BY <1>4 DEF RequeueFailed, Accounted, MayBeClaimed, Hands, DeliveryBase, DeliveryTypeOK
  <2> QED BY <1>0, <1>4, <2>1, <2>2, <2>3, QuietSends DEF RequeueFailed
<1>5. ASSUME NEW d \in Deliveries, BecomesDue(d) PROVE SendInv'
  <2>1. \A o \in Deliveries, w \in Workers : ToSend(w, o)' = ToSend(w, o)
    BY <1>5 DEF BecomesDue, ToSend
  <2>2. \A o \in Deliveries : Accounted(o)' = Accounted(o)
    BY <1>5 DEF BecomesDue, Accounted
  <2>3. \A o \in Deliveries : MayBeClaimed(o)' => MayBeClaimed(o)
    BY <1>5 DEF BecomesDue, MayBeClaimed, Hands, DeliveryBase, DeliveryTypeOK
  <2> QED BY <1>0, <1>5, <2>1, <2>2, <2>3, QuietSends DEF BecomesDue
<1>6. ASSUME NEW w \in Workers, Take(w) PROVE SendInv'
  <2>1. PICK d \in mine[w] :
           /\ mine' = [mine EXCEPT ![w] = mine[w] \ {d}]
           /\ job' = [job EXCEPT ![w] = d]
           /\ at' = [at EXCEPT ![w] = IF d \in off[w] THEN "retire" ELSE "send"]
    BY <1>6 DEF Take
  <2>2. at[w] = "take" /\ UNCHANGED <<status, attempts, next, try, received, requeued, faults>>
    BY <1>6 DEF Take
  <2>3. try[w] = 1
    BY <2>2 DEF DeliveryBase, WorkInv
  <2>4. \A o \in Deliveries, v \in Workers : v # w => ToSend(v, o)' = ToSend(v, o)
    BY <2>1, <2>2 DEF ToSend, DeliveryBase, DeliveryTypeOK
  <2>5. \A o \in Deliveries : ToSend(w, o)' \subseteq ToSend(w, o)
    BY <2>1, <2>2, <2>3 DEF ToSend, DeliveryBase, DeliveryTypeOK
  <2>6. \A o \in Deliveries : \A v \in Workers : o \in Hands(v) => o \in Hands(v)'
    BY <2>1, <2>2, NoneAssumption DEF Hands, DeliveryBase, DeliveryTypeOK, WorkInv, HasJob
  <2>7. \A o \in Deliveries : Accounted(o)' = Accounted(o) /\ (MayBeClaimed(o)' => MayBeClaimed(o))
    BY <2>2, <2>6 DEF Accounted, MayBeClaimed
  <2> QED BY <1>0, <2>2, <2>4, <2>5, <2>7, QuietSends
<1>7. ASSUME NEW w \in Workers, TickEnds(w) PROVE SendInv'
  <2>1. \A o \in Deliveries, v \in Workers : ToSend(v, o)' = ToSend(v, o)
    BY <1>7 DEF TickEnds, ToSend, DeliveryBase, DeliveryTypeOK
  <2> QED BY <1>0, <1>7, <2>1, QuietSends DEF TickEnds, MayBeClaimed, Hands, Accounted
<1>8. ASSUME NEW w \in Workers, SendSucceeds(w) \/ SendFails(w) PROVE SendInv'
  BY <1>8, RequestSends
<1>9. ASSUME NEW w \in Workers, Claim(w) PROVE SendInv'
  BY <1>9, ClaimSends
<1>10. ASSUME NEW w \in Workers, MarkDelivered(w) PROVE SendInv'
  <2>1. PICK d \in Deliveries : d = job[w]
    BY <1>10, JobInHand DEF MarkDelivered, HasJob
  <2>2. /\ status' = [status EXCEPT ![d] = "delivered"]
        /\ job' = [job EXCEPT ![w] = None]
        /\ try' = [try EXCEPT ![w] = 1]
        /\ at' = [at EXCEPT ![w] = "take"]
        /\ next' = [next EXCEPT ![d] = "null"]
        /\ at[w] = "mark"
        /\ UNCHANGED <<mine, attempts, received, requeued, faults>>
    BY <1>10, <2>1 DEF MarkDelivered, Delivered, Done
  <2>3. \A o \in Deliveries, v \in Workers : ToSend(v, o)' \subseteq ToSend(v, o)
    BY <2>2, NoneAssumption DEF ToSend, DeliveryBase, DeliveryTypeOK
  <2>4. ~MayBeClaimed(d)'
    BY <2>2 DEF MayBeClaimed, Open, DeliveryBase, DeliveryTypeOK
  <2>5. \A o \in Deliveries : o # d => (MayBeClaimed(o)' => MayBeClaimed(o))
    BY <2>1, <2>2 DEF MayBeClaimed, Hands, DeliveryBase, DeliveryTypeOK
  <2>6. \A o \in Deliveries : Accounted(o)' = Accounted(o)
    BY <2>2 DEF Accounted
  <2> QED BY <1>0, <2>2, <2>3, <2>4, <2>5, <2>6, QuietSends
<1>11. ASSUME NEW w \in Workers, RecordFailure(w) \/ FailPermanently(w) PROVE SendInv'
  <2>1. PICK d \in Deliveries : d = job[w]
    BY <1>11, JobInHand DEF RecordFailure, FailPermanently, HasJob
  <2>2. /\ status' = [status EXCEPT ![d] = "failed"]
        /\ attempts' = [attempts EXCEPT ![d] = attempts[d] + 1]
        /\ job' = [job EXCEPT ![w] = None]
        /\ try' = [try EXCEPT ![w] = 1]
        /\ at' = [at EXCEPT ![w] = "take"]
        /\ at[w] \in {"record", "unmarked", "retire"}
        /\ UNCHANGED <<mine, received, requeued, faults>>
    BY <1>11, <2>1 DEF RecordFailure, FailPermanently, Done
  <2>3. \A o \in Deliveries : o # d => next'[o] = next[o]
    BY <1>11, <2>1 DEF RecordFailure, FailPermanently, DeliveryBase, DeliveryTypeOK
  <2>4. \A o \in Deliveries, v \in Workers : ToSend(v, o)' \subseteq ToSend(v, o)
    BY <2>2, NoneAssumption DEF ToSend, DeliveryBase, DeliveryTypeOK
  <2>5. Accounted(d)' = Accounted(d) + 1
    BY <2>2 DEF Accounted, DeliveryBase, DeliveryTypeOK
  <2>6. \A o \in Deliveries : o # d => Accounted(o)' = Accounted(o)
    BY <2>2 DEF Accounted, DeliveryBase, DeliveryTypeOK
  <2>7. \A o \in Deliveries : o # d => (MayBeClaimed(o)' => MayBeClaimed(o))
    BY <2>1, <2>2, <2>3 DEF MayBeClaimed, Hands, DeliveryBase, DeliveryTypeOK
  <2> QED BY <1>0, <2>2, <2>4, <2>5, <2>6, <2>7, QuietSends
<1>12. ASSUME NEW w \in Workers, MarkThrows(w) PROVE SendInv'
  <2>1. \A o \in Deliveries, v \in Workers : ToSend(v, o)' = ToSend(v, o)
    BY <1>12 DEF MarkThrows, ToSend, DeliveryBase, DeliveryTypeOK
  <2>2. \A o \in Deliveries : Accounted(o)' = Accounted(o) + 1
    BY <1>12 DEF MarkThrows, Fault, Delivered, Accounted, DeliveryBase, DeliveryTypeOK
  <2> QED BY <1>0, <1>12, <2>1, <2>2, QuietSends DEF MarkThrows
<1>13. ASSUME NEW w \in Workers, Die(w) PROVE SendInv'
  <2>1. \A o \in Deliveries, v \in Workers : ToSend(v, o)' \subseteq ToSend(v, o)
    BY <1>13, NoneAssumption DEF Die, ToSend, DeliveryBase, DeliveryTypeOK
  <2>2. \A o \in Deliveries : Accounted(o)' = Accounted(o) + 1
    BY <1>13 DEF Die, Fault, Accounted, DeliveryBase, DeliveryTypeOK
  <2> QED BY <1>0, <1>13, <2>1, <2>2, QuietSends DEF Die
<1>14. ASSUME NEW n \in Events, Enqueue(n) PROVE SendInv'
  <2>1. /\ event[n] = "begun"
        /\ status' = [d \in Deliveries |-> IF d \in {n} \X targets[n] THEN "pending" ELSE status[d]]
        /\ next' = [d \in Deliveries |-> IF d \in {n} \X targets[n] THEN "due" ELSE next[d]]
        /\ UNCHANGED <<attempts, mine, job, at, try, received, requeued, faults>>
    BY <1>14 DEF Enqueue
  <2>2. \A o \in Deliveries, v \in Workers : ToSend(v, o)' = ToSend(v, o)
    BY <2>1 DEF ToSend
  <2>3. \A o \in Deliveries : Accounted(o)' = Accounted(o)
    BY <2>1 DEF Accounted
  <2>4. ASSUME NEW d \in Deliveries, status[d] # "absent" PROVE MayBeClaimed(d)' => MayBeClaimed(d)
    <3>1. d[1] # n
      BY <2>1, <2>4 DEF DeliveryBase, FanInv
    <3>2. status'[d] = status[d] /\ next'[d] = next[d]
      BY <2>1, <3>1 DEF Deliveries
    <3> QED BY <2>1, <3>2 DEF MayBeClaimed, Hands
  <2>5. ASSUME NEW d \in Deliveries, status[d] = "absent"
        PROVE  /\ IsFiniteSet(OpenRequests(d)')
               /\ received'[d] + Cardinality(OpenRequests(d)') + (IF MayBeClaimed(d)' THEN Tries ELSE 0)
                      <= Tries * (Accounted(d)' + 1)
    <3>1. received[d] = 0 /\ \A w \in Workers : d \notin Hands(w)
      BY <2>5 DEF DeliveryBase, FanInv
    <3>2. \A w \in Workers : ToSend(w, d) = {}
      BY <3>1, NoneAssumption DEF ToSend, Hands
    <3>3. OpenRequests(d)' = {}
      BY <2>2, <3>2 DEF OpenRequests
    <3>4. IsFiniteSet(OpenRequests(d)') /\ Cardinality(OpenRequests(d)') = 0
      BY <3>3, FS_EmptySet
    <3>5. Tries * (Accounted(d) + 1) >= Tries /\ Tries \in Nat /\ Tries * (Accounted(d) + 1) \in Nat
      <4>1. 0 \in Nat /\ Accounted(d) \in Nat /\ 0 <= Accounted(d) /\ Tries * (0 + 1) = Tries
        BY <1>0, SizesAssumption
      <4> QED BY <4>1, MoreIsPaid, SizesAssumption
    <3>6. received'[d] = 0 /\ Accounted(d)' = Accounted(d)
      BY <2>1, <2>3, <3>1
    <3> QED BY <3>4, <3>5, <3>6
  <2>6. ASSUME NEW d \in Deliveries, status[d] # "absent"
        PROVE  /\ IsFiniteSet(OpenRequests(d)')
               /\ received'[d] + Cardinality(OpenRequests(d)') + (IF MayBeClaimed(d)' THEN Tries ELSE 0)
                      <= Tries * (Accounted(d)' + 1)
    <3>1. OpenRequests(d)' \subseteq OpenRequests(d)
      BY <2>2 DEF OpenRequests
    <3>2. Accounted(d) <= Accounted(d)' /\ received'[d] = received[d]
      BY <1>0, <2>1, <2>3
    <3> QED BY <2>4, <2>6, <3>1, <3>2, LessToSend
  <2> QED BY <2>5, <2>6 DEF SendInv
<1> QED
  BY <1>1, <1>3, <1>4, <1>5, <1>6, <1>7, <1>8, <1>9, <1>10, <1>11, <1>12, <1>13, <1>14
  DEF DeliveryNext, WorkerStep

-----------------------------------------------------------------------------
\* No step breaks the types, the stages of the workers or the rows' life.
LEMMA DeliveryBase_Next == ASSUME DeliveryBase, [DeliveryNext]_deliveryVars PROVE DeliveryBase'
<1>1. CASE DeliveryNext
  BY <1>1, PublishBase, OutsideBase, ClaimBase, WorkerBase DEF DeliveryNext, WorkerStep
<1>2. CASE UNCHANGED deliveryVars
  BY <1>2 DEF deliveryVars, publishing, columns, working, DeliveryBase, DeliveryTypeOK, WorkInv, FanInv, Hands
<1> QED BY <1>1, <1>2

\* Everything together: the parts about order and bounds need leases that hold.
DeliveryInv == DeliveryBase /\ (LeasesHold => HeldInv /\ OrderInv /\ SendInv)

\* The invariant holds at the start ...
LEMMA DeliveryInit_Inv == DeliveryInit => DeliveryInv
<1> SUFFICES ASSUME DeliveryInit PROVE DeliveryInv
  OBVIOUS
<1>1. DeliveryBase
  BY DeliveryBase_Init
<1>2. HeldInv /\ OrderInv
  BY DEF DeliveryInit, HeldInv, OrderInv, Hands
<1>3. \A d \in Deliveries : OpenRequests(d) = {} /\ ~MayBeClaimed(d) /\ received[d] = 0 /\ Accounted(d) = 0
  BY NoneAssumption DEF DeliveryInit, OpenRequests, ToSend, MayBeClaimed, Open, Accounted
<1>4. SendInv
  <2> SUFFICES ASSUME NEW d \in Deliveries
               PROVE  /\ IsFiniteSet(OpenRequests(d))
                      /\ received[d] + Cardinality(OpenRequests(d)) + (IF MayBeClaimed(d) THEN Tries ELSE 0)
                             <= Tries * (Accounted(d) + 1)
    BY DEF SendInv
  <2>1. IsFiniteSet(OpenRequests(d)) /\ Cardinality(OpenRequests(d)) = 0
    BY <1>3, FS_EmptySet
  <2> QED BY <1>3, <2>1, SizesAssumption
<1> QED BY <1>1, <1>2, <1>4 DEF DeliveryInv

\* ... and is inductive.
LEMMA DeliveryNext_Inv == DeliveryInv /\ [DeliveryNext]_deliveryVars => DeliveryInv'
<1> SUFFICES ASSUME DeliveryInv, [DeliveryNext]_deliveryVars PROVE DeliveryInv'
  OBVIOUS
<1>1. DeliveryBase /\ DeliveryBase'
  BY DeliveryBase_Next DEF DeliveryInv
<1>2. CASE DeliveryNext
  BY <1>1, <1>2, HeldKept, OrderKept, SendKept DEF DeliveryInv
<1>3. CASE UNCHANGED deliveryVars
  BY <1>1, <1>3 DEF DeliveryInv, deliveryVars, publishing, columns, working, HeldInv, OrderInv,
     SendInv, OpenRequests, ToSend, MayBeClaimed, Hands, Accounted, SentOrHeld, Excused, Waits
<1> QED BY <1>2, <1>3

\* Every behaviour satisfies the invariant.
LEMMA DeliveryAlways == DeliverySpec => []DeliveryInv
BY DeliveryInit_Inv, DeliveryNext_Inv, PTL DEF DeliverySpec

\* The deliveries and the workers keep their types.
THEOREM DeliveryTypeCorrect == DeliverySpec => []DeliveryTypeOK
BY DeliveryAlways, PTL DEF DeliveryInv, DeliveryBase

\* claimDueForProcessing 125-169: while leases hold, two workers have one delivery in
\* hand only if a client retried it, for any number of workers, endpoints and deaths.
THEOREM HeldByOne == DeliverySpec => []SharedOnlyIfRequeued
<1>1. DeliveryInv => SharedOnlyIfRequeued
  <2> SUFFICES ASSUME DeliveryInv, LeasesHold, NEW v \in Workers, NEW w \in Workers, v # w,
                      NEW d \in Hands(v) \cap Hands(w)
               PROVE  requeued[d] > 0
    BY DEF SharedOnlyIfRequeued
  <2>1. d \in Deliveries
    BY DEF DeliveryInv, DeliveryBase, DeliveryTypeOK, Hands
  <2>2. requeued[d] # 0
    BY DEF DeliveryInv, HeldInv
  <2> QED BY <2>1, <2>2 DEF DeliveryInv, DeliveryBase, DeliveryTypeOK
<1> QED BY <1>1, DeliveryAlways, PTL

\* An endpoint gets its deliveries in the order they were created, up to late commits,
\* client retries and lost answers, and each of them a bounded number of times, for any
\* number of events, endpoints, workers, attempts and faults.
THEOREM ReceivedCorrect == DeliverySpec => []ReceivedAsAgreed
<1>1. DeliveryInv => ArrivesInOrder
  BY DEF DeliveryInv, ArrivesInOrder, OrderInv, SentOrHeld, Excused
<1>2. DeliveryInv => SendsAreBounded
  <2> SUFFICES ASSUME DeliveryInv, LeasesHold, NEW d \in Deliveries
               PROVE  received[d] <= Tries * (attempts[d] + faults + requeued[d] + 1)
    BY DEF SendsAreBounded
  <2>1. /\ Cardinality(OpenRequests(d)) \in Nat
        /\ received[d] + Cardinality(OpenRequests(d)) + (IF MayBeClaimed(d) THEN Tries ELSE 0) <= Tries * (Accounted(d) + 1)
    BY FS_CardinalityType DEF DeliveryInv, SendInv
  <2>2. received[d] \in Nat /\ Tries \in Nat /\ Tries * (Accounted(d) + 1) \in Nat
    BY Accounted_Nat, MoreIsPaid, SizesAssumption DEF DeliveryInv
  <2>3. received[d] <= Tries * (Accounted(d) + 1)
    BY <2>1, <2>2
  <2> QED BY <2>3 DEF Accounted
<1> QED BY <1>1, <1>2, DeliveryAlways, PTL DEF ReceivedAsAgreed

\* A row that is delivered leaves that state in the hands of a worker that a client's retry
\* or a lost answer let in, or never.
LEMMA StaysDelivered ==
    ASSUME DeliveryInv, DeliveryNext, LeasesHold, NEW d \in Deliveries, status[d] = "delivered"
    PROVE  status'[d] = "delivered" \/ requeued[d] > 0 \/ d \in unsure
<1> USE DEF columns, publishing, Open
<1>1. ASSUME NEW n \in Events, Lookup(n) \/ BeginInsert(n) \/ Enqueue(n) PROVE status'[d] = "delivered"
  BY <1>1 DEF Lookup, BeginInsert, Enqueue, DeliveryInv, DeliveryBase, DeliveryTypeOK, FanInv, Deliveries
<1>2. ASSUME NEW e \in Endpoints, Deactivate(e) PROVE status'[d] = "delivered"
  BY <1>2 DEF Deactivate
<1>3. ASSUME NEW o \in Deliveries, RequeueFailed(o) \/ BecomesDue(o) PROVE status'[d] = "delivered"
  BY <1>3 DEF RequeueFailed, BecomesDue, DeliveryInv, DeliveryBase, DeliveryTypeOK
<1>4. ASSUME NEW w \in Workers,
             Claim(w) \/ Take(w) \/ TickEnds(w) \/ SendSucceeds(w) \/ SendFails(w) \/ Die(w)
      PROVE  status'[d] = "delivered"
  BY <1>4 DEF Claim, Take, TickEnds, SendSucceeds, SendFails, Die
<1>5. ASSUME NEW w \in Workers, MarkDelivered(w) \/ MarkThrows(w) PROVE status'[d] = "delivered"
  BY <1>5 DEF MarkDelivered, MarkThrows, Delivered, DeliveryInv, DeliveryBase, DeliveryTypeOK
<1>6. ASSUME NEW w \in Workers, RecordFailure(w) \/ FailPermanently(w)
      PROVE  status'[d] = "delivered" \/ requeued[d] > 0 \/ d \in unsure
  <2>1. CASE job[w] # d
    BY <1>6, <2>1 DEF RecordFailure, FailPermanently, DeliveryInv, DeliveryBase, DeliveryTypeOK
  <2>2. CASE job[w] = d
    <3>1. d \in Hands(w) /\ requeued[d] \in Nat
      BY <2>2, NoneAssumption DEF Hands, DeliveryInv, DeliveryBase, DeliveryTypeOK
    <3>2. requeued[d] = 0 => d \in unsure
      BY <2>2, <3>1 DEF DeliveryInv, HeldInv, DeliveryBase, WorkInv
    <3> QED BY <3>1, <3>2
  <2> QED BY <2>1, <2>2
<1> QED BY <1>1, <1>2, <1>3, <1>4, <1>5, <1>6 DEF DeliveryNext, WorkerStep

\* markDelivered and recordFailure overwrite whatever they find, yet no delivered row
\* leaves that state unless a client retried it or an answer was lost.
THEOREM DeliveredStays == DeliverySpec => DeliveredIsFinal
<1>1. ASSUME DeliveryInv, [DeliveryNext]_deliveryVars
      PROVE  [LeasesHold =>
                 \A d \in Deliveries : status[d] = "delivered" =>
                     status'[d] = "delivered" \/ requeued[d] > 0 \/ d \in unsure]_deliveryVars
  BY <1>1, StaysDelivered
<1> QED BY <1>1, DeliveryAlways, PTL DEF DeliverySpec, DeliveredIsFinal
=============================================================================
