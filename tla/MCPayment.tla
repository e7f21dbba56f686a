----------------------------- MODULE MCPayment -----------------------------
(***************************************************************************)
(* An instance of Payment for TLC: two orders of one user that together    *)
(* cost more than the balance, one of them paid by two requests, a charge  *)
(* that would cover both, and a user whose requests never overlap.         *)
(***************************************************************************)
EXTENDS Payment

MCUser == {"u1", "u2"}
MCOrder == {"o1", "o2", "o3"}
MCPayReq == {"p1", "p2", "p3", "p4"}
MCChargeReq == {"c1"}
MCOwnerOf == [o \in MCOrder |-> IF o = "o3" THEN "u2" ELSE "u1"]
MCAmountOf == [o \in MCOrder |-> IF o = "o2" THEN 2 ELSE 1]
MCOrderOf == [p1 |-> "o1", p2 |-> "o1", p3 |-> "o2", p4 |-> "o3"]
MCChargeUser == [c1 |-> "u1"]
MCChargeAmount == [c1 |-> 1]
MCInitPoints == [u \in MCUser |-> IF u = "u1" THEN 2 ELSE 1]
============================================================================
