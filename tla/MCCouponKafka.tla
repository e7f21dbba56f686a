--------------------------- MODULE MCCouponKafka ---------------------------
(***************************************************************************)
(* An instance of CouponKafka for TLC: a request each of two users for a   *)
(* type with one unit.  With one duplicate, restart or rebalance a message *)
(* is delivered at most twice.                                             *)
(***************************************************************************)
EXTENDS CouponKafka

MCMsg == {"m1", "m2"}
MCReq == MCMsg \X (1 .. 2)
MCUser == {1, 2}
MCUserOf == [r \in MCReq |-> IF r[1] = "m2" THEN 2 ELSE 1]
MCTypeOf == [r \in MCReq |-> "T1"]
MCInitStock == [t \in {"T1"} |-> 1]
============================================================================
