---------------------------- MODULE PointsLedger ----------------------------
(***************************************************************************)
(* What the points of the users promise, with no requests, no rows and no  *)
(* failures in sight: a charge is booked once, an order is paid once and   *)
(* only from a balance that covers it, and either changes the balance of   *)
(* its user by its amount.  Only a user whose requests overlapped is       *)
(* promised less: such a balance may miss earlier bookings, but it is      *)
(* never negative and never holds points that nobody put in.               *)
(* Payment implements this specification.                                  *)
(***************************************************************************)
EXTENDS Integers

CONSTANTS User, Order, TopUp,
          OwnerOf,      \* the user of an order
          AmountOf,     \* what an order costs
          UserOf,       \* the user of a charge
          ValueOf,      \* what it adds
          InitPoints    \* points of the users at first

VARIABLES balance,      \* points of the users
          put,          \* points a user ever put in, the initial ones included
          booked,       \* charges that were booked
          paid,         \* orders whose points were taken
          contended     \* users whose requests overlapped

vars == <<balance, put, booked, paid, contended>>

Init ==
    /\ balance = InitPoints
    /\ put = InitPoints
    /\ booked = {}
    /\ paid = {}
    /\ contended = {}

Charge(c) ==
    LET u == UserOf[c] IN
    /\ c \notin booked
    /\ booked' = booked \cup {c}
    /\ put' = [put EXCEPT ![u] = @ + ValueOf[c]]
    /\ \E b \in IF u \in contended THEN ValueOf[c] .. put[u] + ValueOf[c]
                                   ELSE {balance[u] + ValueOf[c]} :
          balance' = [balance EXCEPT ![u] = b]
    /\ UNCHANGED <<paid, contended>>

Pay(o) ==
    LET u == OwnerOf[o] IN
    /\ o \notin paid
    /\ paid' = paid \cup {o}
    /\ \E b \in IF u \in contended THEN 0 .. put[u] - AmountOf[o]
                                   ELSE {balance[u] - AmountOf[o]} \cap Nat :
          balance' = [balance EXCEPT ![u] = b]
    /\ UNCHANGED <<put, booked, contended>>

Contend(u) ==
    /\ contended' = contended \cup {u}
    /\ UNCHANGED <<balance, put, booked, paid>>

Next ==
    \/ \E c \in TopUp : Charge(c)
    \/ \E o \in Order : Pay(o)
    \/ \E u \in User : Contend(u)

Spec == Init /\ [][Next]_vars
=============================================================================
