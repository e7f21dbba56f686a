---------------------------- MODULE MCOrderSaga ----------------------------
(***************************************************************************)
(* Instances of OrderSaga for TLC: an order of two products and an order   *)
(* of one of them, both with the same coupon.                              *)
(***************************************************************************)
EXTENDS OrderSaga

MCItemsOf ==
    [r1 |-> << [p |-> "A", q |-> 1], [p |-> "B", q |-> 1] >>,
     r2 |-> << [p |-> "A", q |-> 1] >>]
\* The order of A alone costs less than the coupon is worth: it passes only
\* without it.  The other one is worth more.
MCTypeOfCoupon == [c \in {"c"} |-> "FIXED_2000"]
MCPrices == {[p \in {"A", "B"} |-> IF p = "A" THEN 1500 ELSE 1000]}

MCCouponOf == [r1 |-> "c", r2 |-> "c"]

\* Enough for both orders; or one of A too few for both and no B at all, so
\* that either stock check may refuse and an order may be partly reserved.
MCInitStocks == {[p \in {"A", "B"} |-> IF p = "A" THEN 3 ELSE 2],
                 [p \in {"A", "B"} |-> IF p = "A" THEN 2 ELSE 0]}
============================================================================
