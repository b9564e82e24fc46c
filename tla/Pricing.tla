------------------------------ MODULE Pricing ------------------------------
(***************************************************************************)
(* The cents of an order line, from the product to the refund: catalog     *)
(* lets one price rule and the customer's tier change the base price, and  *)
(* converts the price of one and, separately, of all units, at a rate it   *)
(* asks payments for each time; orders charges the second; returns gives   *)
(* back the first for every unit.                                          *)
(*                                                                         *)
(* Numbers of the code are binary fractions.  What is half-way between two *)
(* cents there is often a little off, 150 * 0.07 for instance is more than *)
(* 10.5, so multiplyCents may end on either side of a tie; convertCents    *)
(* takes what is nearly half-way for half-way.                             *)
(***************************************************************************)
EXTENDS Integers, FiniteSets

CONSTANTS
    BasePrices,     \* cents
    RuleSets,       \* sets of rules that may be active at the same time
    Rates,          \* exchange rates, as pairs <<numerator, denominator>>
    Quantities

\* Ids and moments of creation by their order.
PriceRule ==
    [type : {"percent_off", "fixed_off", "override"}, value : Nat, priority : Int,
     created : Int, id : Int]

ASSUME PricingAssumption ==
    /\ BasePrices \subseteq Nat
    /\ \A rules \in RuleSets : rules \subseteq PriceRule
    /\ Rates \subseteq Nat \X (Nat \ {0})
    /\ Quantities \subseteq Nat \ {0}

VARIABLES
    quote,          \* what is priced, for whom
    step,           \* how far the line has come
    local,          \* price of a unit, in the currency of the product
    unit,           \* unitPriceCents
    total,          \* lineTotalCents
    lost,           \* history: the conversions whose call for the rate failed
    back            \* units returned

pricingVars == <<quote, step, local, unit, total, lost, back>>

-----------------------------------------------------------------------------

Tiers == {"standard", "gold", "platinum"}

\* TIER_MULTIPLIERS, in hundredths
TierMultiplier == [standard |-> 100, gold |-> 97, platinum |-> 95]

PricingTypeOK ==
    /\ quote.base \in BasePrices
    /\ quote.rules \in RuleSets
    /\ quote.tier \in Tiers
    /\ quote.foreign \in BOOLEAN
    /\ quote.rate \in Rates \cup {<<1, 1>>}
    /\ quote.qty \in Quantities
    /\ step \in {"price", "unit", "total", "sold"}
    /\ {local, unit, total} \subseteq Nat
    /\ lost \subseteq {"unit", "total"}
    /\ back \in 0 .. quote.qty

\* foreign: the customer does not pay in the currency of the product.
PricingInit ==
    /\ quote \in [base : BasePrices, rules : RuleSets, tier : Tiers, foreign : BOOLEAN,
                  rate : Rates \cup {<<1, 1>>}, qty : Quantities]
    /\ ~quote.foreign => quote.rate = <<1, 1>>
    /\ step = "price"
    /\ local = 0
    /\ unit = 0
    /\ total = 0
    /\ lost = {}
    /\ back = 0

-----------------------------------------------------------------------------
(* Rounding n / d to cents *)

\* multiplyCents: the nearest; at a tie, one of both.
Rounded(n, d) == {c \in {n \div d, n \div d + 1} : 2 * (c * d - n) \in -d .. d}

\* Seeded fault: Math.floor
HalfEven_Floor(n, d) == n \div d

\* roundHalfEven of convertCents: the nearest; at a tie, the even one.
HalfEven(n, d) ==
    LET floor == n \div d
        twice == 2 * (n % d)
    IN  IF twice > d \/ (twice = d /\ floor % 2 = 1) THEN floor + 1 ELSE floor

-----------------------------------------------------------------------------
(* computeLocalUnitPrice *)

\* The order of selectWinningRule: priority, then creation, then id, each descending.
Before(left, right) ==
    \/ left.priority > right.priority
    \/ left.priority = right.priority /\ left.created > right.created
    \/ left.priority = right.priority /\ left.created = right.created /\ left.id > right.id

\* selectWinningRule
Winning(rules) == {r \in rules : \A other \in rules \ {r} : Before(r, other)}

BasisPoints == 10000

Most(a, b) == IF a > b THEN a ELSE b

\* applyPriceRule
Ruled(base, rule) ==
    CASE rule.type = "percent_off" -> Rounded(base * Most(0, BasisPoints - rule.value), BasisPoints)
      [] rule.type = "fixed_off" -> {Most(0, base - rule.value)}
      [] rule.type = "override" -> {rule.value}

\* The rule's price, or the base price when no rule is active.
AfterRules(base, rules) ==
    IF rules = {} THEN {base} ELSE UNION {Ruled(base, r) : r \in Winning(rules)}

\* computeLocalUnitPrice
ComputeLocalUnitPrice ==
    /\ step = "price"
    /\ \E ruled \in AfterRules(quote.base, quote.rules) :
           local' \in Rounded(ruled * TierMultiplier[quote.tier], 100)
    /\ step' = "unit"
    /\ UNCHANGED <<quote, unit, total, lost, back>>

-----------------------------------------------------------------------------
(* getPrice, the order line, and its return *)

\* The rate of an answer that getFxRate makes up after its retries have failed.
NoRate == <<0, 1>>

\* What getFxRate may answer.  No service writes rates, so it is the same each time
\* that it is not lost; an amount in the currency of the product needs none.
FxRates == {quote.rate} \cup (IF quote.foreign THEN {NoRate} ELSE {})

\* convertPrice
Converted(cents, rate) == HalfEven(cents * rate[1], rate[2])

LostRate(conversion, rate) == IF rate = NoRate THEN {conversion} ELSE {}

ConvertUnit ==
    /\ step = "unit"
    /\ \E rate \in FxRates :
           /\ unit' = Converted(local, rate)
           /\ lost' = lost \cup LostRate("unit", rate)
    /\ step' = "total"
    /\ UNCHANGED <<quote, local, total, back>>

\* localLineTotalCents, converted as a whole, with a rate of its own; priceLines
\* makes it the order line.
ConvertTotal ==
    /\ step = "total"
    /\ \E rate \in FxRates :
           /\ total' = Converted(local * quote.qty, rate)
           /\ lost' = lost \cup LostRate("total", rate)
    /\ step' = "sold"
    /\ UNCHANGED <<quote, local, unit, back>>

\* refundAmountCents
Refund(n) == unit * n

\* calculateRefundLines, for units that have not come back yet.  That several
\* returns may take the same unit is ReturnedWithinOrdered of OrderReads.
ReturnUnits(n) ==
    /\ step = "sold"
    /\ back + n <= quote.qty
    /\ back' = back + n
    /\ UNCHANGED <<quote, step, local, unit, total, lost>>

PricingNext ==
    \/ ComputeLocalUnitPrice \/ ConvertUnit \/ ConvertTotal
    \/ \E n \in 1 .. quote.qty : ReturnUnits(n)

PricingSpec == PricingInit /\ [][PricingNext]_pricingVars

-----------------------------------------------------------------------------
(* Properties *)

\* A customer who returns a whole line gets back what it was charged, up to half a
\* cent per unit and half a cent: the unit price that is refunded and the line total
\* that was charged are rounded apart.  They are also converted apart, so that one
\* lost answer makes one of them 0 and leaves the other (priceService.ts:31-38,
\* catalog clients/payments.ts:44-50): then all or nothing is given back.  Nothing
\* else, two lost answers included, takes them further apart.
RefundNearCharge ==
    step = "sold" =>
        \/ 2 * (Refund(quote.qty) - total) \in -(quote.qty + 1) .. (quote.qty + 1)
        \/ lost = {"unit"} /\ Refund(quote.qty) = 0
        \/ lost = {"total"} /\ total = 0

\* The refund of a line never exceeds what it was charged.  It does: three units of
\* 1.5 cents each are charged 4 and refunded 6, and a line whose total was converted
\* without a rate is charged nothing.
RefundWithinCharge == step = "sold" => Refund(back) <= total
=============================================================================
