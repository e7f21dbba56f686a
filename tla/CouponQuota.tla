---------------------------- MODULE CouponQuota ----------------------------
(***************************************************************************)
(* What first-come coupon issuing promises, with no queue, no counter and  *)
(* no failures in sight: every coupon type t has Quota[t] units, a request *)
(* is granted a unit while there is one and turned away only when all of   *)
(* them have been granted, and neither answer is ever taken back.          *)
(* CouponIssue implements this specification.                              *)
(***************************************************************************)
EXTENDS Integers, FiniteSets

CONSTANTS Req,          \* the requests
          TypeOf,       \* the coupon type a request asks for
          Quota         \* units per coupon type

VARIABLES granted,      \* requests that hold a unit
          turnedAway    \* requests that were told the type is sold out

vars == <<granted, turnedAway>>

GrantedOf(t) == {r \in granted : TypeOf[r] = t}

Init ==
    /\ granted = {}
    /\ turnedAway = {}

Grant(r) ==
    /\ r \notin granted \cup turnedAway
    /\ Cardinality(GrantedOf(TypeOf[r])) < Quota[TypeOf[r]]
    /\ granted' = granted \cup {r}
    /\ UNCHANGED turnedAway

TurnAway(r) ==
    /\ r \notin granted \cup turnedAway
    /\ Cardinality(GrantedOf(TypeOf[r])) = Quota[TypeOf[r]]
    /\ turnedAway' = turnedAway \cup {r}
    /\ UNCHANGED granted

Next == \E r \in Req : Grant(r) \/ TurnAway(r)

Spec == Init /\ [][Next]_vars
============================================================================
