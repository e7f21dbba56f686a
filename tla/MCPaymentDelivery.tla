------------------------- MODULE MCPaymentDelivery -------------------------
(***************************************************************************)
(* An instance of PaymentDelivery for TLC: two orders of one user, one of  *)
(* them paid by two requests, with a balance that covers only one of the   *)
(* two, a charge that would cover both, one restart or one message that is *)
(* written twice.                                                          *)
(***************************************************************************)
EXTENDS PaymentDelivery

MCUser == {"u1"}
MCOrder == {"o1", "o2"}
MCPayReq == {"p1", "p2", "p3"}
MCChargeReq == {"c1"}
MCOwnerOf == [o \in MCOrder |-> "u1"]
MCAmountOf == [o \in MCOrder |-> IF o = "o2" THEN 2 ELSE 1]
MCOrderOf == [p1 |-> "o1", p2 |-> "o1", p3 |-> "o2"]
MCChargeUser == [c1 |-> "u1"]
MCChargeAmount == [c1 |-> 1]
MCInitPoints == [u \in MCUser |-> 2]
============================================================================
