------------------------------ MODULE MCPricing ------------------------------
(* Model-checking instance of Pricing. *)
EXTENDS Pricing, TLC

CONSTANTS a, b, c1, c2, sale, flash

RuleRow(priority, conditions, type, value) ==
    [priority |-> priority, conditions |-> conditions,
     event |-> [type |-> type, value |-> value]]

Markup  == RuleRow(20, {a, b}, "adjustPercentBps", 3000)
Rebate  == RuleRow(10, {a}, "adjustCents", -3)
TooFar  == RuleRow(20, {a}, "adjustPercentBps", -20000)

MCBody == {Markup, Rebate, TooFar}

MCSeed == <<Markup, None>>

MCRow == {[category |-> a, cents |-> 5], [category |-> b, cents |-> 8]}

Promo(id, type, value) == [id |-> id, discountType |-> type, value |-> value]

MCOffer == {
    Null,
    Promo(sale, "percentage", 3300), Promo(sale, "percentage", 10001),
    Promo(flash, "fixed", 2), Promo(flash, "fixed", 20)}

Symmetry == Permutations(Caller)
=============================================================================
