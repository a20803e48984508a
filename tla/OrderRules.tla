------------------------------ MODULE OrderRules ------------------------------
(***************************************************************************)
(* The local checks of an order: what a CreateOrderRequest may be          *)
(* (models/order.py) and what validate_order (validation/orders.py)        *)
(* demands of it under the rules of its symbol.  Which field an error      *)
(* names is left out.                                                      *)
(*                                                                         *)
(* A Decimal is its coefficient c and exponent e: 1.50 and 1.5 are equal   *)
(* and yet have two decimals and one.  Absent stands for None.             *)
(***************************************************************************)
EXTENDS Integers

CONSTANT Absent

\* The coefficient of d at a smaller exponent e.
At(d, e) == d.c * 10^(d.e - e)

Finer(d, f) == IF d.e < f.e THEN d.e ELSE f.e

AtMost(d, f) == At(d, Finer(d, f)) <= At(f, Finer(d, f))

Minus(d, f) == [c |-> At(d, Finer(d, f)) - At(f, Finer(d, f)), e |-> Finer(d, f)]

DecimalPlaces(d) == IF d.e < 0 THEN -d.e ELSE 0

Prices(r) == {r.price, r.tp, r.sl} \ {Absent}

\* CreateOrderRequest.__post_init__
WellFormed(r) ==
    /\ \A d \in {r.qty} \cup Prices(r) : d.c > 0
    /\ (r.type = "limit") = (r.price # Absent)
    /\ r.leverage # Absent => r.leverage > 0
    /\ r.margin \in {Absent, "cross", "isolated"}

\* A reduce_only order may not exceed what is left of the position.
Reducible(r, position) ==
    /\ position.qty # Absent
    /\ AtMost(r.qty, Minus(position.qty, position.pending))

\* validate_order
MeetsRules(r, rules, position) ==
    /\ r.symbol = rules.symbol
    /\ AtMost(rules.minQty, r.qty)
    /\ \A most \in {rules.maxQty, rules.maxPosition} : AtMost(r.qty, most)
    /\ DecimalPlaces(r.qty) <= rules.qtyDecimals
    /\ \A d \in Prices(r) : DecimalPlaces(d) <= rules.priceDecimals
    /\ r.leverage # Absent => /\ r.leverage <= rules.maxLeverage
                              /\ position.leverage \in {Absent, r.leverage}
    /\ r.margin # Absent => position.margin \in {Absent, r.margin}
    /\ r.reduceOnly => Reducible(r, position)

=============================================================================
