--------------------------- MODULE MCCouponIssue ---------------------------
(***************************************************************************)
(* Instances of CouponIssue for TLC.                                       *)
(***************************************************************************)
EXTENDS CouponIssue

\* Three requests, two of them by the same user, for one type with one unit:
\* one winner, several losers inside each other's DECR/INCR windows, and a
\* user racing himself.
MCReq == 1..3
MCUser == {1, 2}
MCUserOf == <<1, 1, 2>>
MCTypeOf == <<"T1", "T1", "T1">>
MCInitStock == [t \in {"T1"} |-> 1]

\* With a second unit the user can win his race against himself.
MCTwoUnits == [t \in {"T1"} |-> 2]
============================================================================
