------------------------------ MODULE Pricing ------------------------------
(***************************************************************************)
(* The amounts of an order: what its items cost, what a coupon takes off,  *)
(* and which amounts an order may have.                                    *)
(*                                                                         *)
(* Prices, amounts and rates are int columns.  total * (rate / 100) is     *)
(* computed in floating point; for the rates there are (10, 15, 20 and 30) *)
(* and a total that fits an int column, the rounded product is an integer  *)
(* whenever the true one is, so that Math.floor of it is \div.             *)
(***************************************************************************)
EXTENDS Integers, Sequences, FiniteSetsExt

\* What createAndSaveCoupon writes into a coupon of each type.
CouponConfigs ==
    [DISCOUNT_10PERCENT |-> [rate |-> 10, amount |-> 0],
     DISCOUNT_20PERCENT |-> [rate |-> 20, amount |-> 0],
     DISCOUNT_30PERCENT |-> [rate |-> 30, amount |-> 0],
     FIXED_1000         |-> [rate |-> 0,  amount |-> 1000],
     FIXED_2000         |-> [rate |-> 0,  amount |-> 2000],
     LIMITED_OFFER      |-> [rate |-> 15, amount |-> 0]]

CouponType == DOMAIN CouponConfigs

\* Coupon.calculateDiscount of a valid coupon.  A fixed amount is not capped by
\* the total.
CalculateDiscount(type, total) ==
    LET c == CouponConfigs[type] IN
        IF c.rate > 0 THEN (total * c.rate) \div 100 ELSE c.amount

\* The sum over the items, at the prices of their products.
TotalAmount(items, price) ==
    MapThenSumSet(LAMBDA i : price[items[i].p] * items[i].q, DOMAIN items)

FinalAmount(total, discount) == total - discount

\* An order may be free, but not cost less than nothing.
ValidOrderAmount(total, final) == total > 0 /\ final >= 0
============================================================================
