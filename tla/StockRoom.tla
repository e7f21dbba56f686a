----------------------------- MODULE StockRoom -----------------------------
(***************************************************************************)
(* What the stock of the products promises to orders, with no calls, no    *)
(* events and no failures in sight: an order takes its items one by one,   *)
(* in their order, each only while there is enough of it; it is placed     *)
(* when it has all of them; items are given back one by one, and an order  *)
(* that gives back neither takes nor is placed any more.  Only a product   *)
(* whose readers overlapped is promised less: its stock may miss what      *)
(* others took or gave back, but it is never negative and never more than  *)
(* was there at first and came back.  (Nothing says that what is given     *)
(* back was taken: the handlers give back all the items of an order that   *)
(* failed half-way.)  OrderSaga implements this specification.             *)
(***************************************************************************)
EXTENDS Integers, Sequences

CONSTANTS Req, Product,
          ItemsOf,      \* items of a request, <<[p |-> product, q |-> quantity]>>
          InitStocks    \* what there may be at first

VARIABLES stock,        \* what there is of a product
          supply,       \* what there was at first and came back
          taken,        \* how many items a request has taken
          returned,     \* how many were given back for it
          placed,       \* requests that became an order
          contended     \* products whose readers overlapped

vars == <<stock, supply, taken, returned, placed, contended>>

Init ==
    /\ stock \in InitStocks
    /\ supply = stock
    /\ taken = [r \in Req |-> 0]
    /\ returned = [r \in Req |-> 0]
    /\ placed = {}
    /\ contended = {}

Take(r) ==
    LET i == taken[r] + 1
        p == ItemsOf[r][i].p
        q == ItemsOf[r][i].q IN
    /\ i \in DOMAIN ItemsOf[r] /\ returned[r] = 0 /\ r \notin placed
    /\ \E s \in IF p \in contended THEN 0 .. supply[p] - q ELSE {stock[p] - q} \cap Nat :
          stock' = [stock EXCEPT ![p] = s]
    /\ taken' = [taken EXCEPT ![r] = i]
    /\ UNCHANGED <<supply, returned, placed, contended>>

Place(r) ==
    /\ taken[r] = Len(ItemsOf[r]) /\ returned[r] = 0 /\ r \notin placed
    /\ placed' = placed \cup {r}
    /\ UNCHANGED <<stock, supply, taken, returned, contended>>

GiveBack(r) ==
    LET i == returned[r] + 1
        p == ItemsOf[r][i].p
        q == ItemsOf[r][i].q IN
    /\ i \in DOMAIN ItemsOf[r]
    /\ \E s \in IF p \in contended THEN q .. supply[p] + q ELSE {stock[p] + q} :
          stock' = [stock EXCEPT ![p] = s]
    /\ supply' = [supply EXCEPT ![p] = @ + q]
    /\ returned' = [returned EXCEPT ![r] = i]
    /\ UNCHANGED <<taken, placed, contended>>

Contend(p) ==
    /\ contended' = contended \cup {p}
    /\ UNCHANGED <<stock, supply, taken, returned, placed>>

Next ==
    \/ \E r \in Req : Take(r) \/ Place(r) \/ GiveBack(r)
    \/ \E p \in Product : Contend(p)

Spec == Init /\ [][Next]_vars
=============================================================================
