--------------------------- MODULE PaymentProofs ---------------------------
(***************************************************************************)
(* Theorems about Payment and PaymentDelivery, for every set of users,     *)
(* orders and requests, every amount and every initial balance: what holds *)
(* of payments, that it holds across restarts, and that what leaves the    *)
(* program is true.                                                        *)
(***************************************************************************)
EXTENDS PaymentDelivery, SequenceTheorems, FiniteSetTheorems, TLAPS

----------------------------------------------------------------------------
(* DeductedOncePerOrder is not inductive: that the points of an order are  *)
(* deducted once rests on its one payment row, so on what the place of a   *)
(* request says of its row.                                                *)

\* The unique column: an order has one row.
OneRowPerOrder ==
    \A r1, r2 \in payments : OrderOf[r1] = OrderOf[r2] => r1 = r2

\* The places of a payment that has deducted nothing.
NotYetDeducted == {"idle", "findOrder", "findUser", "savePayment", "findPoints",
                   "savePoints", "rejected"}

\* Who is behind the save of the row has one, who is behind the deduction has
\* deducted and nobody else, who awaits the last reply has made the order PAID,
\* and the balance about to be saved was enough.
Places ==
    /\ deducted \subseteq payments
    /\ \A r \in PayReq :
          /\ pc[r] \in {"findPoints", "savePoints", "saveStatus", "reply"}
                => r \in payments
          /\ pc[r] \in {"saveStatus", "reply"} => r \in deducted
          /\ pc[r] \in NotYetDeducted => r \notin deducted
          /\ pc[r] = "reply" => status[OrderOf[r]] = "PAID"
          /\ pc[r] = "savePoints" => Amount(r) <= readPoints[r]

IInv == TypeOK /\ OneRowPerOrder /\ Places /\ PaidIsBacked

----------------------------------------------------------------------------
LEMMA Amounts ==
    /\ \A r \in PayReq : Amount(r) \in Nat /\ OrderOf[r] \in Order
    /\ \A r \in Req : Owner(r) \in User
    /\ \A r \in ChargeReq : ChargeAmount[r] \in Nat
  BY OrderAssumption, ChargeAssumption DEF Amount, Owner, Req

LEMMA InitInv == Init => IInv
  BY PointsAssumption
     DEF Init, IInv, TypeOK, OneRowPerOrder, Places, PaidIsBacked, Req

LEMMA NextInv == IInv /\ [Next]_vars => IInv'
<1> SUFFICES ASSUME IInv, [Next]_vars PROVE IInv'
  OBVIOUS
<1> USE Amounts, ReqAssumption
    DEF IInv, TypeOK, OneRowPerOrder, Places, PaidIsBacked, Goto, ForgetStatus,
        ForgetPoints, InsertPayment, NotYetDeducted, Req, Calls, PayCalls, ChargeCalls,
        Unanswered, Ends
<1>1. ASSUME NEW r \in Req, Execute(r) PROVE IInv'
  BY <1>1 DEF Execute, Amount
<1>2. ASSUME NEW r \in PayReq, FindOrder(r) PROVE IInv'
  BY <1>2 DEF FindOrder, Amount
<1>3. ASSUME NEW r \in PayReq, ValidatePaymentPossible(r) PROVE IInv'
  BY <1>3 DEF ValidatePaymentPossible, Amount
<1>4. ASSUME NEW r \in PayReq, SavePayment(r) PROVE IInv'
  BY <1>4 DEF SavePayment, OrderIdTaken, Amount
<1>5. ASSUME NEW r \in PayReq, FindPoints(r) PROVE IInv'
  BY <1>5 DEF FindPoints, Amount
<1>6. ASSUME NEW r \in PayReq, SavePoints(r) PROVE IInv'
  BY <1>6 DEF SavePoints, Amount
<1>7. ASSUME NEW r \in PayReq, SaveStatus(r) PROVE IInv'
  BY <1>7 DEF SaveStatus, Amount
<1>8. ASSUME NEW r \in ChargeReq, FindCharge(r) PROVE IInv'
  BY <1>8 DEF FindCharge, Amount
<1>9. ASSUME NEW r \in ChargeReq, SaveCharge(r) PROVE IInv'
  BY <1>9 DEF SaveCharge, Amount
<1>10. ASSUME NEW r \in Req, CallFails(r) PROVE IInv'
  BY <1>10 DEF CallFails, Amount
<1>11. ASSUME NEW r \in Req, Answer(r) PROVE IInv'
  BY <1>11 DEF Answer, Amount
<1>12. CASE UNCHANGED vars
  BY <1>12 DEF vars, Amount
<1> QED
  BY <1>1, <1>2, <1>3, <1>4, <1>5, <1>6, <1>7, <1>8, <1>9, <1>10, <1>11, <1>12
     DEF Next, PayStep, ChargeStep

LEMMA Invariant == Spec => []IInv
  BY InitInv, NextInv, PTL DEF Spec

LEMMA InvImplies == IInv => DeductedOncePerOrder /\ PaidIsBacked
  BY DEF IInv, Places, OneRowPerOrder, DeductedOncePerOrder

\* Every reachable state is well typed: in particular no balance is negative,
\* however many requests write it from reads that others have overtaken.
THEOREM TypeCorrect == Spec => []TypeOK
  BY Invariant, PTL DEF IInv

\* However many payments race for an order, its points are deducted once.
THEOREM DeductedOnce == Spec => []DeductedOncePerOrder
  BY Invariant, InvImplies, PTL

\* A PAID order is backed by one request's payment row and deduction, also when
\* that request failed at the reply to its last write; nobody who was told no
\* has deducted.
THEOREM PaidBacked == Spec => []PaidIsBacked
  BY Invariant, InvImplies, PTL
----------------------------------------------------------------------------
(* The ledger.  That the balance is the initial one plus what was charged  *)
(* less what was paid rests on no other request having written between a   *)
(* request's read and its save, and on no request being booked twice.      *)

\* A charge is booked by its save, not before (of a payment Places says so).
NotBookedYet ==
    \A r \in ChargeReq : pc[r] \in {"idle", "findCharge", "saveCharge"} => r \notin charged

\* The requests of a user that did not race come one after the other.
Alone ==
    \A q, r \in Req :
        /\ pc[q] \in Calls /\ pc[r] \in Calls
        /\ Owner(q) = Owner(r) /\ Owner(r) \notin raced
        => q = r

\* What such a request is about to save was computed from the present balance.
ReadIsCurrent ==
    \A r \in Req :
        pc[r] \in {"savePoints", "saveCharge"} /\ Owner(r) \notin raced
        => readPoints[r] = points[Owner(r)]

PayAmount == [r \in PayReq |-> Amount(r)]
ChargedBy(u) == {r \in charged : Owner(r) = u}
DeductedBy(u) == {r \in deducted : Owner(r) = u}

FiniteBooks ==
    \A u \in User : /\ IsFiniteSet(Moved(ChargedBy(u), ChargeAmount))
                    /\ IsFiniteSet(Moved(DeductedBy(u), PayAmount))

LInv == NotBookedYet /\ Alone /\ ReadIsCurrent /\ FiniteBooks /\ LedgerExactUnlessRaced

\* One more request in the books adds its amount.
LEMMA OneMoreMoved ==
    ASSUME NEW S, NEW amount, NEW r, r \notin S, amount[r] \in Nat,
           IsFiniteSet(Moved(S, amount))
    PROVE  /\ IsFiniteSet(Moved(S \cup {r}, amount))
           /\ Cardinality(Moved(S \cup {r}, amount))
                 = Cardinality(Moved(S, amount)) + amount[r]
<1> DEFINE n == amount[r]
           A == Moved(S, amount)
           B == {r} \X (1 .. n)
<1>1. Moved(S \cup {r}, amount) = A \cup B
  BY DEF Moved
<1>2. A \cap B = {}
  BY DEF Moved
<1>3. IsFiniteSet(B) /\ Cardinality(B) = n
  <2>1. IsFiniteSet(1 .. n) /\ Cardinality(1 .. n) = n
    BY FS_Interval, SMTT(30)
  <2>2. IsFiniteSet({r}) /\ Cardinality({r}) = 1
    BY FS_Singleton
  <2> HIDE DEF n
  <2>3. IsFiniteSet(B) /\ Cardinality(B) = Cardinality({r}) * Cardinality(1 .. n)
    BY <2>1, <2>2, FS_Product
  <2> QED
    BY <2>1, <2>2, <2>3 DEF n
<1> HIDE DEF n, A, B
<1>4. IsFiniteSet(A) /\ Cardinality(A) \in Nat
  BY FS_CardinalityType DEF A
<1>5. /\ IsFiniteSet(A \cup B)
      /\ Cardinality(A \cup B) = Cardinality(A) + Cardinality(B) - Cardinality(A \cap B)
  BY <1>3, <1>4, FS_Union
<1>6. Cardinality(A \cap B) = 0
  BY <1>2, FS_EmptySet
<1>7. IsFiniteSet(A \cup B) /\ Cardinality(A \cup B) = Cardinality(A) + n
  BY <1>3, <1>4, <1>5, <1>6 DEF n
<1> QED
  BY <1>1, <1>7 DEF n, A

\* The totals are numbers.
LEMMA TotalsNat ==
    ASSUME FiniteBooks, NEW u \in User
    PROVE  TotalCharged(u) \in Nat /\ TotalDeducted(u) \in Nat
  BY FS_CardinalityType
     DEF FiniteBooks, TotalCharged, TotalDeducted, ChargedBy, DeductedBy, PayAmount

LEMMA InitLedger == Init => LInv
<1> SUFFICES ASSUME Init PROVE LInv
  OBVIOUS
<1>1. ASSUME NEW amount PROVE Moved({}, amount) = {}
  BY DEF Moved
<1>2. ASSUME NEW u \in User PROVE ChargedBy(u) = {} /\ DeductedBy(u) = {}
  BY DEF Init, ChargedBy, DeductedBy
<1>3. FiniteBooks /\ \A u \in User : TotalCharged(u) = 0 /\ TotalDeducted(u) = 0
  BY <1>1, <1>2, FS_EmptySet
     DEF FiniteBooks, TotalCharged, TotalDeducted, ChargedBy, DeductedBy, PayAmount
<1>4. LedgerExactUnlessRaced
  BY <1>3, PointsAssumption DEF Init, LedgerExactUnlessRaced
<1> QED
  BY <1>3, <1>4
     DEF Init, LInv, NotBookedYet, Alone, ReadIsCurrent, Calls, PayCalls, ChargeCalls, Req

\* A step that books nothing leaves the ledger exact.
LEMMA NothingBooked ==
    ASSUME LInv, UNCHANGED <<points, deducted, charged>>, raced \subseteq raced'
    PROVE  FiniteBooks' /\ LedgerExactUnlessRaced'
<1>1. FiniteBooks'
  BY DEF LInv, FiniteBooks, ChargedBy, DeductedBy
<1>2. \A u : TotalCharged(u)' = TotalCharged(u) /\ TotalDeducted(u)' = TotalDeducted(u)
  BY DEF TotalCharged, TotalDeducted
<1> QED
  BY <1>1, <1>2 DEF LInv, LedgerExactUnlessRaced

\* A charge adds its amount to what its user charged.
LEMMA ChargeAdds ==
    ASSUME IInv, LInv, NEW r \in ChargeReq, SaveCharge(r)
    PROVE  /\ FiniteBooks'
           /\ TotalCharged(Owner(r))' = TotalCharged(Owner(r)) + ChargeAmount[r]
           /\ \A u \in User \ {Owner(r)} : TotalCharged(u)' = TotalCharged(u)
<1> DEFINE o == Owner(r)
           n == ChargeAmount[r]
<1>1. /\ r \in Req /\ pc[r] = "saveCharge" /\ o \in User /\ n \in Nat
      /\ charged' = charged \cup {r} /\ UNCHANGED deducted
  BY Amounts DEF SaveCharge, Req
<1>2. r \notin charged
  BY <1>1 DEF LInv, NotBookedYet
<1>3. \A u : DeductedBy(u)' = DeductedBy(u)
  BY <1>1 DEF DeductedBy
<1>4. \A u \in User : u # o => ChargedBy(u)' = ChargedBy(u)
  BY <1>1 DEF ChargedBy
<1>5. ChargedBy(o)' = ChargedBy(o) \cup {r} /\ r \notin ChargedBy(o)
  BY <1>1, <1>2 DEF ChargedBy
<1>6. /\ IsFiniteSet(Moved(ChargedBy(o) \cup {r}, ChargeAmount))
      /\ Cardinality(Moved(ChargedBy(o) \cup {r}, ChargeAmount))
            = Cardinality(Moved(ChargedBy(o), ChargeAmount)) + n
  BY <1>1, <1>5, OneMoreMoved DEF LInv, FiniteBooks
<1> HIDE DEF o, n
<1>7. FiniteBooks'
  BY <1>3, <1>4, <1>5, <1>6 DEF LInv, FiniteBooks
<1>8. TotalCharged(o)' = TotalCharged(o) + n
  BY <1>5, <1>6 DEF TotalCharged, ChargedBy
<1>9. \A u \in User : u # o => TotalCharged(u)' = TotalCharged(u)
  BY <1>4 DEF TotalCharged, ChargedBy
<1> QED
  BY <1>7, <1>8, <1>9 DEF o, n

\* A charge is booked.
LEMMA ChargeBooked ==
    ASSUME IInv, LInv, NEW r \in ChargeReq, SaveCharge(r)
    PROVE  FiniteBooks' /\ LedgerExactUnlessRaced'
<1> DEFINE o == Owner(r)
           n == ChargeAmount[r]
<1>1. /\ r \in Req /\ pc[r] = "saveCharge" /\ o \in User /\ n \in Nat
      /\ points' = [points EXCEPT ![o] = readPoints[r] + n]
      /\ UNCHANGED <<deducted, raced>>
  BY Amounts DEF SaveCharge, Req
<1>2. points \in [User -> Nat]
  BY DEF IInv, TypeOK
<1>3. \A u : TotalDeducted(u)' = TotalDeducted(u)
  BY <1>1 DEF TotalDeducted
<1>4. /\ FiniteBooks' /\ TotalCharged(o)' = TotalCharged(o) + n
      /\ \A u \in User \ {o} : TotalCharged(u)' = TotalCharged(u)
  BY ChargeAdds
<1> HIDE DEF n
<1>5. o \notin raced => points'[o] = points[o] + n
  BY <1>1, <1>2 DEF LInv, ReadIsCurrent
<1> HIDE DEF o
<1>6. ASSUME NEW u \in User \ raced
      PROVE  points'[u] = InitPoints[u] + TotalCharged(u)' - TotalDeducted(u)'
  <2>1. points[u] = InitPoints[u] + TotalCharged(u) - TotalDeducted(u)
    BY DEF LInv, LedgerExactUnlessRaced
  <2>2. TotalCharged(u) \in Nat /\ TotalDeducted(u) \in Nat /\ InitPoints[u] \in Nat
    BY TotalsNat, PointsAssumption DEF LInv
  <2>3. CASE u = o
    BY <1>1, <1>3, <1>4, <1>5, <2>1, <2>2, <2>3
  <2>4. CASE u # o
    BY <1>1, <1>2, <1>3, <1>4, <2>1, <2>4
  <2> QED
    BY <2>3, <2>4
<1> QED
  BY <1>1, <1>4, <1>6 DEF LedgerExactUnlessRaced

\* A deduction is booked.
LEMMA DeductionBooked ==
    ASSUME IInv, LInv, NEW r \in PayReq, SavePoints(r)
    PROVE  FiniteBooks' /\ LedgerExactUnlessRaced'
<1> DEFINE o == Owner(r)
           n == Amount(r)
<1>1. /\ r \in Req /\ pc[r] = "savePoints" /\ o \in User /\ n \in Nat
      /\ points' = [points EXCEPT ![o] = readPoints[r] - n]
      /\ deducted' = deducted \cup {r} /\ UNCHANGED <<charged, raced>>
  BY Amounts DEF SavePoints, Req
<1>2. r \notin deducted /\ points \in [User -> Nat] /\ PayAmount[r] = n
  BY <1>1 DEF IInv, TypeOK, Places, NotYetDeducted, PayAmount
<1>3. \A u : ChargedBy(u)' = ChargedBy(u) /\ TotalCharged(u)' = TotalCharged(u)
  BY <1>1 DEF ChargedBy, TotalCharged
<1>4. \A u \in User : u # o => DeductedBy(u)' = DeductedBy(u)
  BY <1>1 DEF DeductedBy
<1>5. DeductedBy(o)' = DeductedBy(o) \cup {r} /\ r \notin DeductedBy(o)
  BY <1>1, <1>2 DEF DeductedBy
<1>6. /\ IsFiniteSet(Moved(DeductedBy(o) \cup {r}, PayAmount))
      /\ Cardinality(Moved(DeductedBy(o) \cup {r}, PayAmount))
            = Cardinality(Moved(DeductedBy(o), PayAmount)) + n
  <2>1. IsFiniteSet(Moved(DeductedBy(o), PayAmount))
    BY <1>1 DEF LInv, FiniteBooks
  <2>2. r \notin DeductedBy(o) /\ PayAmount[r] \in Nat
    BY <1>1, <1>2, <1>5
  <2>3. Cardinality(Moved(DeductedBy(o) \cup {r}, PayAmount))
           = Cardinality(Moved(DeductedBy(o), PayAmount)) + PayAmount[r]
    BY <2>1, <2>2, OneMoreMoved
  <2> QED
    BY <1>2, <2>1, <2>2, <2>3, OneMoreMoved
<1> HIDE DEF o, n
<1>7. FiniteBooks'
  BY <1>3, <1>4, <1>5, <1>6 DEF LInv, FiniteBooks
<1>8. TotalDeducted(o)' = TotalDeducted(o) + n
  BY <1>5, <1>6 DEF TotalDeducted, DeductedBy, PayAmount
<1>9. \A u \in User : u # o => TotalDeducted(u)' = TotalDeducted(u)
  BY <1>4 DEF TotalDeducted, DeductedBy
<1>10. o \notin raced => points'[o] = points[o] - n
  BY <1>1, <1>2 DEF LInv, ReadIsCurrent, o
<1>11. ASSUME NEW u \in User \ raced
       PROVE  points'[u] = InitPoints[u] + TotalCharged(u)' - TotalDeducted(u)'
  <2>1. points[u] = InitPoints[u] + TotalCharged(u) - TotalDeducted(u)
    BY DEF LInv, LedgerExactUnlessRaced
  <2>2. TotalCharged(u) \in Nat /\ TotalDeducted(u) \in Nat /\ InitPoints[u] \in Nat
    BY TotalsNat, PointsAssumption DEF LInv
  <2>3. CASE u = o
    BY <1>1, <1>3, <1>8, <1>10, <2>1, <2>2, <2>3
  <2>4. CASE u # o
    BY <1>1, <1>2, <1>3, <1>9, <2>1, <2>4
  <2> QED
    BY <2>3, <2>4
<1> QED
  BY <1>1, <1>7, <1>11 DEF LedgerExactUnlessRaced

\* Who is booked, who is alone and what was read, step by step.
LEMMA LedgerStep == IInv /\ LInv /\ [Next]_vars => LInv'
<1> SUFFICES ASSUME IInv, LInv, [Next]_vars PROVE LInv'
  OBVIOUS
<1> DEFINE Fresh == NotBookedYet /\ Alone /\ ReadIsCurrent
<1>1. Fresh
  BY DEF LInv
<1>2. \A r \in Req : Owner(r)' = Owner(r)
  BY DEF Owner
<1>3. pc \in [Req -> {"idle"} \cup Unanswered \cup Ends] /\ readPoints \in [Req -> Nat]
      /\ points \in [User -> Nat] /\ \A r \in Req : Owner(r) \in User
  BY Amounts DEF IInv, TypeOK
<1> USE ReqAssumption
    DEF NotBookedYet, Alone, ReadIsCurrent, Goto, ForgetStatus, ForgetPoints, Calls,
        PayCalls, ChargeCalls
<1>4. ASSUME UNCHANGED <<points, deducted, charged>>, raced \subseteq raced', Fresh'
      PROVE  LInv'
  BY <1>4, NothingBooked DEF LInv
<1>5. ASSUME NEW r \in Req, Execute(r) PROVE LInv'
  BY <1>1, <1>2, <1>3, <1>4, <1>5 DEF Execute, Req
<1>6. ASSUME NEW r \in PayReq, FindOrder(r) PROVE LInv'
  BY <1>1, <1>2, <1>3, <1>4, <1>6 DEF FindOrder, Req
<1>7. ASSUME NEW r \in PayReq, ValidatePaymentPossible(r) PROVE LInv'
  BY <1>1, <1>2, <1>3, <1>4, <1>7 DEF ValidatePaymentPossible, Req
<1>8. ASSUME NEW r \in PayReq, SavePayment(r) PROVE LInv'
  BY <1>1, <1>2, <1>3, <1>4, <1>8 DEF SavePayment, Req
<1>9. ASSUME NEW r \in PayReq, FindPoints(r) PROVE LInv'
  BY <1>1, <1>2, <1>3, <1>4, <1>9 DEF FindPoints, Req
<1>10. ASSUME NEW r \in PayReq, SavePoints(r) PROVE LInv'
  <2>1. Fresh'
    BY <1>1, <1>2, <1>3, <1>10 DEF SavePoints, Req
  <2> QED
    BY <1>10, <2>1, DeductionBooked DEF LInv
<1>11. ASSUME NEW r \in PayReq, SaveStatus(r) PROVE LInv'
  BY <1>1, <1>2, <1>3, <1>4, <1>11 DEF SaveStatus, Req
<1>12. ASSUME NEW r \in ChargeReq, FindCharge(r) PROVE LInv'
  BY <1>1, <1>2, <1>3, <1>4, <1>12 DEF FindCharge, Req
<1>13. ASSUME NEW r \in ChargeReq, SaveCharge(r) PROVE LInv'
  <2>1. Fresh'
    BY <1>1, <1>2, <1>3, <1>13 DEF SaveCharge, Req
  <2> QED
    BY <1>13, <2>1, ChargeBooked DEF LInv
<1>14. ASSUME NEW r \in Req, CallFails(r) PROVE LInv'
  BY <1>1, <1>2, <1>3, <1>4, <1>14 DEF CallFails, Req
<1>15. ASSUME NEW r \in Req, Answer(r) PROVE LInv'
  BY <1>1, <1>2, <1>3, <1>4, <1>15 DEF Answer, Req
<1>16. CASE UNCHANGED vars
  BY <1>1, <1>2, <1>4, <1>16 DEF vars
<1> QED
  BY <1>5, <1>6, <1>7, <1>8, <1>9, <1>10, <1>11, <1>12, <1>13, <1>14, <1>15, <1>16
     DEF Next, PayStep, ChargeStep, Req

\* The balance of a user whose requests never overlapped is the initial one
\* plus the charges less the deductions, whichever calls failed.
THEOREM LedgerExact == Spec => []LedgerExactUnlessRaced
<1>1. Init => IInv /\ LInv
  BY InitInv, InitLedger
<1>2. IInv /\ LInv /\ [Next]_vars => (IInv /\ LInv)'
  BY NextInv, LedgerStep
<1>3. IInv /\ LInv => LedgerExactUnlessRaced
  BY DEF LInv
<1> QED
  BY <1>1, <1>2, <1>3, PTL DEF Spec

----------------------------------------------------------------------------
(* Refinement: what is saved of a user is a booking of PointsLedger.  That *)
(* a raced balance never gains points needs that nothing a request has     *)
(* read does: neither the balance nor a read exceeds what was put in.      *)

Put(u) == InitPoints[u] + TotalCharged(u)

WithinPut ==
    /\ \A u \in User : points[u] <= Put(u)
    /\ \A r \in Req : readPoints[r] <= Put(Owner(r))

RInv == IInv /\ LInv /\ WithinPut

LEMMA PutNat ==
    ASSUME RInv, NEW u \in User
    PROVE  Put(u) \in Nat
  BY TotalsNat, PointsAssumption DEF Put, RInv, LInv

LEMMA InitRefinement == Init => RInv
<1> SUFFICES ASSUME Init PROVE RInv
  OBVIOUS
<1>1. IInv /\ LInv
  BY InitInv, InitLedger
<1>2. ASSUME NEW u \in User PROVE InitPoints[u] <= Put(u) /\ 0 <= Put(u)
  BY <1>1, TotalsNat, PointsAssumption DEF Put, LInv
<1>3. WithinPut
  BY <1>2, Amounts DEF Init, WithinPut
<1> QED
  BY <1>1, <1>3 DEF RInv

\* A step that charges nothing leaves what was put in.
LEMMA PutUnchanged ==
    ASSUME UNCHANGED charged
    PROVE  \A u : Put(u)' = Put(u)
  BY DEF Put, TotalCharged

\* A charge adds to what was put in; what others have read stays within it.
LEMMA ChargePut ==
    ASSUME RInv, NEW r \in ChargeReq, SaveCharge(r)
    PROVE  /\ Put(Owner(r))' = Put(Owner(r)) + ChargeAmount[r]
           /\ \A u \in User \ {Owner(r)} : Put(u)' = Put(u)
<1>1. Owner(r) \in User /\ ChargeAmount[r] \in Nat
  BY Amounts DEF Req
<1>2. TotalCharged(Owner(r)) \in Nat /\ InitPoints[Owner(r)] \in Nat
  BY <1>1, TotalsNat, PointsAssumption DEF RInv, LInv
<1>3. /\ TotalCharged(Owner(r))' = TotalCharged(Owner(r)) + ChargeAmount[r]
      /\ \A u \in User \ {Owner(r)} : TotalCharged(u)' = TotalCharged(u)
  BY ChargeAdds DEF RInv
<1> QED
  BY <1>1, <1>2, <1>3 DEF Put

LEMMA WithinPutStep == RInv /\ [Next]_vars => WithinPut'
<1> SUFFICES ASSUME RInv, [Next]_vars PROVE WithinPut'
  OBVIOUS
<1>1. /\ readPoints \in [Req -> Nat] /\ points \in [User -> Nat]
      /\ \A r \in Req : Owner(r) \in User /\ Owner(r)' = Owner(r)
  BY Amounts DEF RInv, IInv, TypeOK, Owner
<1>2. \A u \in User : points[u] <= Put(u) /\ Put(u) \in Nat
  BY PutNat DEF RInv, WithinPut
<1>3. \A r \in Req : readPoints[r] <= Put(Owner(r))
  BY DEF RInv, WithinPut
\* Other than a charge.
<1>4. ASSUME UNCHANGED charged,
             \A u \in User : points'[u] <= Put(u),
             \A q \in Req : readPoints'[q] <= Put(Owner(q))
      PROVE  WithinPut'
  <2>1. \A u : Put(u)' = Put(u)
    BY <1>4, PutUnchanged
  <2> QED
    BY <1>1, <1>4, <2>1 DEF WithinPut
<1>5. CASE UNCHANGED <<points, readPoints, charged>>
  BY <1>2, <1>3, <1>4, <1>5
<1>6. ASSUME NEW r \in Req, ForgetPoints(r), UNCHANGED <<points, charged>>
      PROVE  WithinPut'
  BY <1>1, <1>2, <1>3, <1>4, <1>6 DEF ForgetPoints
<1>7. ASSUME NEW r \in Req, UNCHANGED <<points, charged>>,
             readPoints' = [readPoints EXCEPT ![r] = points[Owner(r)]]
      PROVE  WithinPut'
  BY <1>1, <1>2, <1>3, <1>4, <1>7
<1>8. ASSUME NEW r \in PayReq, FindPoints(r) PROVE WithinPut'
  BY <1>5, <1>7, <1>8 DEF FindPoints, Req
<1>9. ASSUME NEW r \in PayReq, SavePoints(r) PROVE WithinPut'
  <2>1. /\ r \in Req /\ Amount(r) \in Nat /\ UNCHANGED charged
        /\ points' = [points EXCEPT ![Owner(r)] = readPoints[r] - Amount(r)]
        /\ readPoints' = [readPoints EXCEPT ![r] = 0]
    BY <1>9, Amounts DEF SavePoints, ForgetPoints, Req
  <2>2. readPoints[r] - Amount(r) <= Put(Owner(r))
    BY <1>1, <1>2, <1>3, <2>1
  <2>3. \A u \in User : points'[u] <= Put(u)
    BY <1>1, <1>2, <2>1, <2>2
  <2>4. \A q \in Req : readPoints'[q] <= Put(Owner(q))
    BY <1>1, <1>2, <1>3, <2>1
  <2> QED
    BY <1>4, <2>1, <2>3, <2>4
<1>10. ASSUME NEW r \in ChargeReq, SaveCharge(r) PROVE WithinPut'
  <2>1. /\ r \in Req /\ ChargeAmount[r] \in Nat
        /\ points' = [points EXCEPT ![Owner(r)] = readPoints[r] + ChargeAmount[r]]
        /\ readPoints' = [readPoints EXCEPT ![r] = 0]
    BY <1>10, Amounts DEF SaveCharge, ForgetPoints, Req
  <2>2. /\ Put(Owner(r))' = Put(Owner(r)) + ChargeAmount[r]
        /\ \A u \in User \ {Owner(r)} : Put(u)' = Put(u)
    BY <1>10, ChargePut
  <2>3. \A u \in User : Put(u) <= Put(u)' /\ Put(u)' \in Nat
    BY <1>2, <2>1, <2>2
  <2>4. ASSUME NEW u \in User PROVE points'[u] <= Put(u)'
    <3>1. CASE u = Owner(r)
      BY <1>1, <1>2, <1>3, <2>1, <2>2, <3>1
    <3>2. CASE u # Owner(r)
      BY <1>1, <1>2, <2>1, <2>2, <3>2
    <3> QED
      BY <3>1, <3>2
  <2>5. ASSUME NEW q \in Req PROVE readPoints'[q] <= Put(Owner(q))'
    <3>1. readPoints'[q] <= readPoints[q] /\ readPoints'[q] \in Nat
      BY <1>1, <2>1
    <3>2. readPoints[q] <= Put(Owner(q)) /\ Owner(q) \in User
      BY <1>1, <1>3
    <3>3. Put(Owner(q)) <= Put(Owner(q))'
      BY <1>1, <2>3
    <3> QED
      BY <1>1, <1>2, <2>3, <3>1, <3>2, <3>3
  <2> QED
    BY <2>4, <2>5 DEF WithinPut
<1>11. ASSUME NEW r \in Req, CallFails(r) PROVE WithinPut'
  BY <1>6, <1>11 DEF CallFails
<1>12. ASSUME NEW r \in ChargeReq, FindCharge(r) PROVE WithinPut'
  BY <1>7, <1>12 DEF FindCharge, Req
<1> QED
  BY <1>5, <1>8, <1>9, <1>10, <1>11, <1>12
     DEF Next, PayStep, ChargeStep, Execute, FindOrder, ValidatePaymentPossible,
         SavePayment, SaveStatus, Answer, vars

LEMMA LedgerMapping ==
    ASSUME RInv, [Next]_vars
    PROVE  [Ledger!Next]_(Ledger!vars)
<1> DEFINE put == [u \in User |-> InitPoints[u] + TotalCharged(u)]
           paid == {OrderOf[r] : r \in deducted}
<1>1. CASE UNCHANGED <<points, charged, deducted, raced>>
  <2>1. put' = put /\ paid' = paid
    BY <1>1 DEF TotalCharged
  <2> QED
    BY <1>1, <2>1 DEF Ledger!vars
\* Execute of a second request of a user implements Contend.
<1>2. ASSUME NEW r \in Req, Execute(r) PROVE [Ledger!Next]_(Ledger!vars)
  <2>1. UNCHANGED <<points, charged, deducted>> /\ Owner(r) \in User
    BY <1>2, Amounts DEF Execute
  <2>2. put' = put /\ paid' = paid
    BY <2>1 DEF TotalCharged
  <2>3. raced' = raced \/ raced' = raced \cup {Owner(r)}
    BY <1>2 DEF Execute
  <2>4. CASE raced' = raced \cup {Owner(r)}
    BY <2>1, <2>2, <2>4 DEF Ledger!Next, Ledger!Contend
  <2> QED
    BY <1>1, <2>1, <2>3, <2>4
\* SavePoints implements Pay.
<1>3. ASSUME NEW r \in PayReq, SavePoints(r) PROVE Ledger!Pay(OrderOf[r])
  <2> DEFINE o == OrderOf[r]
             u == OwnerOf[o]
             b == readPoints[r] - Amount(r)
  <2>1. /\ r \in Req /\ o \in Order /\ u \in User /\ u = Owner(r)
        /\ Amount(r) = AmountOf[o] /\ Amount(r) \in Nat /\ readPoints[r] \in Nat
        /\ pc[r] = "savePoints"
    BY <1>3, Amounts, OrderAssumption DEF SavePoints, Owner, Amount, Req, RInv, IInv, TypeOK
  <2>2. /\ points' = [points EXCEPT ![u] = b] /\ deducted' = deducted \cup {r}
        /\ UNCHANGED <<charged, raced>>
    BY <1>3, <2>1 DEF SavePoints
  <2>3. o \notin paid /\ paid' = paid \cup {o}
    <3>1. r \notin deducted /\ deducted \subseteq payments /\ r \in payments
      BY <2>1 DEF RInv, IInv, Places, NotYetDeducted
    <3>2. \A q \in deducted : OrderOf[q] # o
      BY <3>1 DEF RInv, IInv, OneRowPerOrder
    <3> QED
      BY <2>2, <3>2
  <2>4. put' = put /\ put[u] = Put(u)
    BY <2>1, <2>2 DEF TotalCharged, Put
  <2>5. b \in Nat /\ b <= Put(u) - AmountOf[o] /\ Put(u) \in Nat
    <3>1. Amount(r) <= readPoints[r]
      BY <2>1 DEF RInv, IInv, Places
    <3>2. readPoints[r] <= Put(u) /\ Put(u) \in Nat
      BY <2>1, PutNat DEF RInv, WithinPut
    <3> QED
      BY <2>1, <3>1, <3>2
  <2>6. u \notin raced => b = points[u] - AmountOf[o]
    BY <2>1 DEF RInv, LInv, ReadIsCurrent
  <2> HIDE DEF put, paid, b
  <2>7. \E c \in IF u \in raced THEN 0 .. put[u] - AmountOf[o]
                                ELSE {points[u] - AmountOf[o]} \cap Nat :
           points' = [points EXCEPT ![u] = c]
    <3>1. b \in IF u \in raced THEN 0 .. put[u] - AmountOf[o]
                               ELSE {points[u] - AmountOf[o]} \cap Nat
      BY <2>1, <2>4, <2>5, <2>6
    <3> QED
      BY <2>2, <3>1
  <2> QED
    BY <2>2, <2>3, <2>4, <2>7 DEF Ledger!Pay, put, paid
\* SaveCharge implements Charge.
<1>4. ASSUME NEW r \in ChargeReq, SaveCharge(r) PROVE Ledger!Charge(r)
  <2> DEFINE u == ChargeUser[r]
             n == ChargeAmount[r]
             b == readPoints[r] + n
  <2>1. /\ r \in Req /\ u \in User /\ u = Owner(r) /\ n \in Nat
        /\ readPoints[r] \in Nat /\ pc[r] = "saveCharge"
    BY <1>4, Amounts, ReqAssumption, ChargeAssumption
       DEF SaveCharge, Owner, Req, RInv, IInv, TypeOK
  <2>2. /\ points' = [points EXCEPT ![u] = b] /\ charged' = charged \cup {r}
        /\ UNCHANGED <<deducted, raced>>
    BY <1>4, <2>1 DEF SaveCharge
  <2>3. r \notin charged
    BY <2>1 DEF RInv, LInv, NotBookedYet
  <2>4. put[u] = Put(u) /\ readPoints[r] <= Put(u) /\ Put(u) \in Nat
    BY <2>1, PutNat DEF Put, RInv, WithinPut
  <2>5. put' = [put EXCEPT ![u] = put[u] + n]
    <3>1. Put(u)' = Put(u) + n /\ \A v \in User \ {u} : Put(v)' = Put(v)
      BY <1>4, <2>1, ChargePut
    <3>2. put = [v \in User |-> Put(v)] /\ put' = [v \in User |-> Put(v)']
      BY DEF Put
    <3> HIDE DEF put
    <3> QED
      BY <2>1, <3>1, <3>2
  <2>6. paid' = paid
    BY <2>2
  <2>7. u \notin raced => b = points[u] + n
    BY <2>1 DEF RInv, LInv, ReadIsCurrent
  <2>8. \E c \in IF u \in raced THEN n .. put[u] + n ELSE {points[u] + n} :
           points' = [points EXCEPT ![u] = c]
    <3> HIDE DEF put
    <3>1. b \in IF u \in raced THEN n .. put[u] + n ELSE {points[u] + n}
      BY <2>1, <2>4, <2>7
    <3> QED
      BY <2>2, <3>1
  <2> QED
    BY <2>2, <2>3, <2>5, <2>6, <2>8 DEF Ledger!Charge
<1>5. \A r \in PayReq : OrderOf[r] \in Order
  BY Amounts
<1>6. \/ UNCHANGED <<points, charged, deducted, raced>>
      \/ \E r \in Req : Execute(r)
      \/ \E r \in PayReq : SavePoints(r)
      \/ \E r \in ChargeReq : SaveCharge(r)
  BY DEF Next, PayStep, ChargeStep, FindOrder, ValidatePaymentPossible, SavePayment,
         FindPoints, SaveStatus, Answer, FindCharge, CallFails, vars
<1> QED
  BY <1>1, <1>2, <1>3, <1>4, <1>5, <1>6 DEF Ledger!Next

LEMMA LedgerInit == Init => Ledger!Init
<1> SUFFICES ASSUME Init PROVE Ledger!Init
  OBVIOUS
<1>1. ASSUME NEW u \in User PROVE TotalCharged(u) = 0
  <2>1. {r \in charged : Owner(r) = u} = {} /\ Moved({}, ChargeAmount) = {}
    BY DEF Init, Moved
  <2> QED
    BY <2>1, FS_EmptySet DEF TotalCharged
<1>2. [u \in User |-> InitPoints[u] + TotalCharged(u)] = InitPoints
  BY <1>1, PointsAssumption
<1> QED
  BY <1>2 DEF Init, Ledger!Init

\* The saves of racing payments and charges implement the abstract ledger: a
\* charge counts once, an order is paid once from a balance that covers it,
\* and a raced balance may lose bookings but never gains points.
THEOREM PaymentImplementsLedger == Spec => ImplementsLedger
<1>1. RInv /\ [Next]_vars => RInv'
  BY NextInv, LedgerStep, WithinPutStep DEF RInv
<1>2. RInv /\ [Next]_vars => [Ledger!Next]_(Ledger!vars)
  BY LedgerMapping
<1> QED
  BY <1>1, <1>2, InitRefinement, LedgerInit, PTL DEF Spec, Ledger!Spec, ImplementsLedger

----------------------------------------------------------------------------
(* The elements of a sequence *)

LEMMA Elements ==
    ASSUME NEW S, NEW s \in Seq(S), NEW e \in S
    PROVE  /\ ToSet(Append(s, e)) = ToSet(s) \cup {e}
           /\ ToSet(s \o <<e, e>>) = ToSet(s) \cup {e}
<1>1. \A q : ToSet(q) = Range(q)
  BY DEF ToSet, Range
<1>2. <<e>> \in Seq(S) /\ <<e, e>> \in Seq(S)
  OBVIOUS
<1>3. Range(<<e>>) = {e} /\ Range(<<e, e>>) = {e}
  BY DEF Range
<1>4. ASSUME NEW t \in Seq(S) PROVE Range(s \o t) = Range(s) \cup Range(t)
  BY RangeConcatenation
<1>5. /\ Range(s \o <<e>>) = Range(s) \cup Range(<<e>>)
      /\ Range(s \o <<e, e>>) = Range(s) \cup Range(<<e, e>>)
  BY <1>2, <1>4
<1>6. Append(s, e) = s \o <<e>>
  BY AppendIsConcat
<1> QED
  BY <1>1, <1>3, <1>5, <1>6

\* A longer sequence keeps what is at its positions.
LEMMA Lengths ==
    ASSUME NEW S, NEW s \in Seq(S), NEW e \in S
    PROVE  /\ Append(s, e) \in Seq(S) /\ Len(Append(s, e)) = Len(s) + 1
           /\ s \o <<e, e>> \in Seq(S) /\ Len(s \o <<e, e>>) = Len(s) + 2
<1>1. <<e, e>> \in Seq(S) /\ Len(<<e, e>>) = 2
  OBVIOUS
<1> QED
  BY <1>1, AppendProperties, ConcatProperties

\* What is at a position is an element.
LEMMA ElementAt ==
    ASSUME NEW S, NEW s \in Seq(S), NEW i \in 1 .. Len(s)
    PROVE  s[i] \in ToSet(s) /\ s[i] \in S
  BY DEF ToSet

----------------------------------------------------------------------------
(* Payments, once more *)

\* What the data platform is told never ceases to be true.
LEMMA StaysPaid ==
    ASSUME TypeOK, [Next]_vars
    PROVE  /\ \A o \in Order : status[o] = "PAID" => status'[o] = "PAID"
           /\ payments \subseteq payments'
           /\ deducted \subseteq deducted'
<1> USE DEF TypeOK
<1>1. ASSUME NEW r \in PayReq, SavePayment(r)
      PROVE  status' = status /\ payments \subseteq payments' /\ deducted' = deducted
  BY <1>1 DEF SavePayment, InsertPayment
<1>2. ASSUME NEW r \in PayReq, SavePoints(r)
      PROVE  status' = status /\ payments' = payments /\ deducted \subseteq deducted'
  BY <1>2 DEF SavePoints
<1>3. ASSUME NEW r \in PayReq, SaveStatus(r)
      PROVE  /\ \A o \in Order : status[o] = "PAID" => status'[o] = "PAID"
             /\ payments' = payments /\ deducted' = deducted
  BY <1>3, OrderAssumption DEF SaveStatus
<1>4. CASE UNCHANGED <<status, payments, deducted>>
  BY <1>4
<1> QED
  BY <1>1, <1>2, <1>3, <1>4
     DEF Next, PayStep, ChargeStep, Execute, FindOrder, ValidatePaymentPossible,
         FindPoints, FindCharge, SaveCharge, Answer, CallFails, vars

\* A payment that is answered with success has made its order PAID.
LEMMA Completion ==
    ASSUME IInv, NEW r \in PayReq, PayStep(r), Completes(r)
    PROVE  status'[OrderOf[r]] = "PAID" /\ r \in payments \cap deducted
<1>1. Answer(r)
  BY DEF Completes, PayStep, FindOrder, ValidatePaymentPossible, SavePayment,
         FindPoints, SavePoints, SaveStatus
<1> QED
  BY <1>1, OrderAssumption DEF Answer, IInv, TypeOK, Places, Completes

----------------------------------------------------------------------------
(* The invariant *)

DInv == IInv /\ DeliveryTypeOK /\ ToldOnlyWhatIsPaid

LEMMA InitDelivery == DeliveryInit => DInv
<1> SUFFICES ASSUME DeliveryInit PROVE DInv
  OBVIOUS
<1>1. IInv
  BY InitInv DEF DeliveryInit
<1>2. Published = {}
  BY DEF DeliveryInit, Published, ToSet
<1> QED
  BY <1>1, <1>2, MishapAssumption
     DEF DeliveryInit, DInv, DeliveryTypeOK, ToldOnlyWhatIsPaid, IInv, NoOffset, Mishaps

\* A step of a request: the event of a payment is published with its answer.
LEMMA RequestStep ==
    ASSUME DInv, [Next]_vars,
           UNCHANGED <<topic, dropped, duplicates, consumerVars, restarts>>,
           \/ handling' = handling
           \/ \E r \in PayReq : /\ handling' = handling \cup {r}
                              /\ PayStep(r) /\ Completes(r)
    PROVE  DInv'
<1>1. IInv'
  BY NextInv DEF DInv
<1>2. Published' = Published
  BY DEF Published
<1>3. DeliveryTypeOK'
  BY <1>1, <1>2 DEF DInv, DeliveryTypeOK, IInv, consumerVars, Mishaps
<1>4. ASSUME NEW o \in Published \cup {OrderOf[r] : r \in handling}
      PROVE  /\ status'[o] = "PAID"
             /\ \E r \in payments' \cap deducted' : OrderOf[r] = o
  <2>1. o \in Order
    BY OrderAssumption DEF DInv, DeliveryTypeOK, Published, ToSet
  <2> QED
    BY <2>1, StaysPaid DEF DInv, ToldOnlyWhatIsPaid, IInv
<1>5. ASSUME NEW r \in handling' \ handling
      PROVE  /\ status'[OrderOf[r]] = "PAID"
             /\ r \in payments' \cap deducted'
  BY <1>5, Completion, StaysPaid DEF DInv, IInv
<1>6. ToldOnlyWhatIsPaid'
  BY <1>2, <1>4, <1>5 DEF ToldOnlyWhatIsPaid
<1> QED
  BY <1>1, <1>3, <1>6 DEF DInv

\* A step of the bus or of the consumer: no payment moves, the topic only grows,
\* by orders whose event was being handled.
LEMMA QuietStep ==
    ASSUME DInv, UNCHANGED vars, handling' \subseteq handling,
           topic' \in Seq(Order), Published \subseteq Published',
           Published' \subseteq Published \cup {OrderOf[r] : r \in handling},
           DeliveryTypeOK'
    PROVE  DInv'
<1>1. IInv'
  BY NextInv DEF DInv
<1>2. status' = status /\ payments' = payments /\ deducted' = deducted
  BY DEF vars
<1>3. ToldOnlyWhatIsPaid'
  BY <1>2 DEF DInv, ToldOnlyWhatIsPaid
<1> QED
  BY <1>1, <1>3 DEF DInv

LEMMA TypeUnchanged ==
    ASSUME TypeOK, UNCHANGED vars
    PROVE  TypeOK'
  BY DEF TypeOK, vars

LEMMA SendStep ==
    ASSUME DInv, NEW r \in PayReq, HandlerStep(r)
    PROVE  DInv'
<1> USE DEF DInv
<1>1. /\ r \in handling /\ handling' = handling \ {r} /\ OrderOf[r] \in Order
      /\ topic' \in {topic, Append(topic, OrderOf[r]), topic \o <<OrderOf[r], OrderOf[r]>>}
  BY OrderAssumption DEF HandlerStep, SendPaymentCompleted, SendFails
<1>2. topic \in Seq(Order) /\ Len(topic) \in Nat
  BY DEF DeliveryTypeOK
<1>3. /\ topic' \in Seq(Order) /\ Len(topic') \in Nat /\ Len(topic) <= Len(topic')
      /\ ToSet(topic') \in {ToSet(topic), ToSet(topic) \cup {OrderOf[r]}}
  <2>1. CASE topic' = topic
    BY <1>2, <2>1
  <2>2. CASE topic' = Append(topic, OrderOf[r])
    <3>1. /\ Append(topic, OrderOf[r]) \in Seq(Order)
          /\ Len(Append(topic, OrderOf[r])) = Len(topic) + 1
      BY <1>1, <1>2, Lengths
    <3>2. ToSet(Append(topic, OrderOf[r])) = ToSet(topic) \cup {OrderOf[r]}
      BY <1>1, <1>2, Elements
    <3> QED
      BY <1>2, <2>2, <3>1, <3>2
  <2>3. CASE topic' = topic \o <<OrderOf[r], OrderOf[r]>>
    BY <1>1, <1>2, <2>3, Lengths, Elements
  <2> QED
    BY <1>1, <2>1, <2>2, <2>3
<1>4. Published' \in {Published, Published \cup {OrderOf[r]}}
  BY <1>3 DEF Published
<1>5. UNCHANGED <<vars, consumerVars, restarts>>
  BY DEF HandlerStep, SendPaymentCompleted, SendFails
<1>6. TypeOK'
  BY <1>5, TypeUnchanged DEF DeliveryTypeOK
<1>7. /\ pos' \in 0 .. Len(topic') /\ committed' \in NoOffset .. pos'
      /\ sending' => pos' < Len(topic')
  BY <1>2, <1>3, <1>5 DEF DeliveryTypeOK, consumerVars, NoOffset
<1>8. platform' \subseteq Published'
  BY <1>4, <1>5 DEF DeliveryTypeOK, consumerVars
<1>9. dropped' \subseteq Order
  BY <1>1 DEF DeliveryTypeOK, HandlerStep, SendPaymentCompleted, SendFails
<1>10. {restarts', duplicates'} \subseteq Nat /\ Mishaps' <= MaxMishaps
  BY MishapAssumption
     DEF DeliveryTypeOK, HandlerStep, SendPaymentCompleted, SendFails, Mishaps
<1>11. DeliveryTypeOK'
  BY <1>1, <1>3, <1>6, <1>7, <1>8, <1>9, <1>10 DEF DeliveryTypeOK
<1> QED
  BY <1>1, <1>3, <1>4, <1>5, <1>11, QuietStep

LEMMA ConsumeStep ==
    ASSUME DInv, ConsumerStep \/ CommitOffset
    PROVE  DInv'
<1> USE DEF DInv
<1>1. UNCHANGED <<vars, handling, topic, restarts, duplicates>>
  BY DEF ConsumerStep, HandleMessage, SendOrderData, PlatformFails, CommitOffset, busVars
<1>2. Published' = Published
  BY <1>1 DEF Published
<1>3. topic \in Seq(Order) /\ Len(topic) \in Nat
  BY DEF DeliveryTypeOK
<1>4. TypeOK'
  BY <1>1, TypeUnchanged DEF DeliveryTypeOK
<1>5. ASSUME sending
      PROVE  topic[pos + 1] \in Published /\ topic[pos + 1] \in Order
  <2>1. pos + 1 \in 1 .. Len(topic)
    BY <1>3, <1>5 DEF DeliveryTypeOK
  <2> QED
    BY <1>3, <2>1, ElementAt DEF Published
<1>6. DeliveryTypeOK' => DInv'
  BY <1>1, <1>2, <1>3, QuietStep
<1>7. CASE HandleMessage
  <2>1. pos < Len(topic) /\ UNCHANGED <<topic, pos, committed, platform, dropped>>
    BY <1>7 DEF HandleMessage, busVars
  <2>2. sending' => pos' < Len(topic')
    BY <2>1
  <2> QED
    BY <1>1, <1>2, <1>3, <1>4, <1>6, <2>1, <2>2 DEF DeliveryTypeOK, Mishaps, NoOffset
<1>8. CASE SendOrderData
  <2>1. /\ sending /\ pos' = pos + 1 /\ platform' = platform \cup {topic[pos + 1]}
        /\ UNCHANGED <<committed, dropped>>
    BY <1>8 DEF SendOrderData, busVars
  <2>2. sending' => pos' < Len(topic')
    BY <1>8 DEF SendOrderData
  <2>3. pos < Len(topic)
    BY <2>1 DEF DeliveryTypeOK
  <2> QED
    BY <1>1, <1>2, <1>3, <1>4, <1>5, <1>6, <2>1, <2>2, <2>3
       DEF DeliveryTypeOK, Mishaps, NoOffset
<1>9. CASE PlatformFails
  <2>1. /\ sending /\ pos' = pos + 1 /\ dropped' = dropped \cup {topic[pos + 1]}
        /\ UNCHANGED <<committed, platform>>
    BY <1>9 DEF PlatformFails
  <2>2. sending' => pos' < Len(topic')
    BY <1>9 DEF PlatformFails
  <2>3. pos < Len(topic)
    BY <2>1 DEF DeliveryTypeOK
  <2> QED
    BY <1>1, <1>2, <1>3, <1>4, <1>5, <1>6, <2>1, <2>2, <2>3
       DEF DeliveryTypeOK, Mishaps, NoOffset
<1>10. CASE CommitOffset
  <2>1. committed < pos /\ committed' = pos /\ UNCHANGED <<pos, sending, platform, dropped>>
    BY <1>10 DEF CommitOffset, busVars
  <2>2. sending' => pos' < Len(topic')
    BY <1>1, <2>1 DEF DeliveryTypeOK
  <2> QED
    BY <1>1, <1>2, <1>3, <1>4, <1>6, <2>1, <2>2 DEF DeliveryTypeOK, Mishaps, NoOffset
<1> QED
  BY <1>6, <1>7, <1>8, <1>9, <1>10 DEF ConsumerStep

\* A restart ends requests where they are: what was saved stays as it is, and a
\* request that was answered stays answered.
LEMMA RestartStep ==
    ASSUME DInv, Restart
    PROVE  DInv'
<1> USE DEF DInv
<1>1. /\ UNCHANGED <<points, status, payments, deducted, charged, raced, topic,
                     committed, platform, duplicates>>
      /\ handling' = {}
      /\ seenStatus' = [r \in PayReq |-> "PENDING"] /\ readPoints' = [r \in Req |-> 0]
      /\ pc' = [r \in Req |-> IF pc[r] \in Unanswered THEN "error" ELSE pc[r]]
  BY DEF Restart
<1>2. TypeOK'
  BY <1>1 DEF IInv, TypeOK, Ends
<1>3. \A r \in PayReq :
         /\ pc'[r] \notin Unanswered
         /\ pc[r] \in {"idle", "ok", "rejected"} => pc'[r] = pc[r]
         /\ pc'[r] \in {"idle", "ok", "rejected"} => pc[r] = pc'[r]
         /\ pc[r] \in {"reply", "error"} => pc'[r] = "error"
  BY <1>1 DEF Unanswered, Calls, PayCalls, ChargeCalls, Req
<1>4. IInv'
  <2>1. payments \subseteq PayReq /\ deducted \subseteq PayReq /\ PaidIsBacked
    BY DEF IInv, TypeOK
  <2>2. PaidIsBacked'
    <3>1. ASSUME NEW o \in Order, status'[o] = "PAID"
          PROVE  \E r \in payments' \cap deducted' :
                    OrderOf[r] = o /\ pc'[r] \in {"reply", "ok", "error"}
      BY <1>1, <1>3, <2>1, <3>1 DEF PaidIsBacked
    <3>2. \A r \in PayReq : pc'[r] = "ok" =>
             status'[OrderOf[r]] = "PAID" /\ r \in payments' \cap deducted'
      BY <1>1, <1>3, <2>1 DEF PaidIsBacked
    <3>3. \A r \in deducted' : pc'[r] # "rejected"
      BY <1>1, <1>3, <2>1 DEF PaidIsBacked
    <3> QED
      BY <3>1, <3>2, <3>3 DEF PaidIsBacked
  <2>3. OneRowPerOrder' /\ Places'
    BY <1>1, <1>3 DEF IInv, OneRowPerOrder, Places, NotYetDeducted, Unanswered, Calls, PayCalls
  <2> QED
    BY <1>2, <2>2, <2>3 DEF IInv
<1>5. Published' = Published
  BY <1>1 DEF Published
<1>6. StartOffset \in 0 .. Len(topic) /\ committed \in NoOffset .. StartOffset
  <2>1. topic \in Seq(Order) /\ Len(topic) \in Nat
    BY DEF DeliveryTypeOK
  <2> QED
    BY <2>1 DEF DeliveryTypeOK, StartOffset, NoOffset
<1>7. (sending' => pos' < Len(topic')) /\ pos' = StartOffset
  BY DEF Restart
<1>8. dropped' \subseteq Order
  BY OrderAssumption DEF Restart, DeliveryTypeOK
<1>9. {restarts', duplicates'} \subseteq Nat /\ Mishaps' <= MaxMishaps
  BY MishapAssumption DEF Restart, DeliveryTypeOK, Mishaps
<1>10. DeliveryTypeOK'
  BY <1>1, <1>2, <1>5, <1>6, <1>7, <1>8, <1>9 DEF DeliveryTypeOK
<1>11. ToldOnlyWhatIsPaid'
  BY <1>1, <1>5 DEF ToldOnlyWhatIsPaid
<1> QED
  BY <1>4, <1>10, <1>11

LEMMA NextDelivery == DInv /\ [DeliveryNext]_allVars => DInv'
<1> SUFFICES ASSUME DInv, [DeliveryNext]_allVars PROVE DInv'
  OBVIOUS
<1>1. ASSUME [Next]_vars, UNCHANGED deliveryVars PROVE DInv'
  BY <1>1, RequestStep DEF deliveryVars, busVars
<1>2. ASSUME NEW r \in Req, Execute(r) \/ CallFails(r), UNCHANGED deliveryVars
      PROVE  DInv'
  BY <1>1, <1>2 DEF Next
<1>3. ASSUME NEW r \in ChargeReq, ChargeStep(r), UNCHANGED deliveryVars PROVE DInv'
  BY <1>1, <1>3 DEF Next
<1>4. ASSUME NEW r \in PayReq, PayAndPublish(r) PROVE DInv'
  BY <1>4, RequestStep DEF PayAndPublish, Next
<1>5. CASE UNCHANGED allVars
  BY <1>1, <1>5 DEF allVars
<1> QED
  BY <1>2, <1>3, <1>4, <1>5, SendStep, ConsumeStep, RestartStep DEF DeliveryNext

\* A restart books nothing: what a request had read is gone with the request.
LEMMA RestartLedger ==
    ASSUME IInv, LInv, Restart
    PROVE  LInv'
<1>1. /\ UNCHANGED <<points, deducted, charged, raced>>
      /\ pc' = [r \in Req |-> IF pc[r] \in Unanswered THEN "error" ELSE pc[r]]
  BY DEF Restart
<1>2. \A r \in Req : pc'[r] \notin Calls /\ (pc'[r] = "idle" => pc[r] = "idle")
  BY <1>1 DEF Unanswered, Calls, PayCalls, ChargeCalls
<1>3. NotBookedYet' /\ Alone' /\ ReadIsCurrent'
  BY <1>1, <1>2
     DEF LInv, NotBookedYet, Alone, ReadIsCurrent, Calls, PayCalls, ChargeCalls, Req
<1> QED
  BY <1>1, <1>3, NothingBooked DEF LInv

LEMMA LedgerAcrossRestarts == DInv /\ LInv /\ [DeliveryNext]_allVars => LInv'
<1> SUFFICES ASSUME DInv, LInv, [DeliveryNext]_allVars PROVE LInv'
  OBVIOUS
<1>1. ASSUME [Next]_vars PROVE LInv'
  BY <1>1, LedgerStep DEF DInv
<1>2. [Next]_vars \/ Restart
  BY DEF DeliveryNext, allVars, Next, PayAndPublish, HandlerStep, SendPaymentCompleted,
         SendFails, ConsumerStep, HandleMessage, SendOrderData, PlatformFails, CommitOffset
<1> QED
  BY <1>1, <1>2, RestartLedger DEF DInv

LEMMA DeliveryInvariant == DeliverySpec => []DInv
  BY InitDelivery, NextDelivery, PTL DEF DeliverySpec

----------------------------------------------------------------------------
(* The theorems *)

\* Every reachable state is well typed: the offset the broker knows never
\* passes the consumer, nor the consumer the topic, across any restarts.
THEOREM DeliveryTypeCorrect == DeliverySpec => []DeliveryTypeOK
  BY DeliveryInvariant, PTL DEF DInv

\* The data platform is told, and the topic holds, only orders that are PAID
\* for good, however often the process restarts and messages come twice.
THEOREM ToldTruly == DeliverySpec => []ToldOnlyWhatIsPaid
  BY DeliveryInvariant, PTL DEF DInv

\* Points are deducted once per order although processes die between the calls
\* of a payment.
THEOREM DeductedOnceAcrossRestarts == DeliverySpec => []DeductedOncePerOrder
  BY DeliveryInvariant, InvImplies, PTL DEF DInv

\* A PAID order and a success answer stay backed by one request across restarts.
THEOREM PaidBackedAcrossRestarts == DeliverySpec => []PaidIsBacked
  BY DeliveryInvariant, InvImplies, PTL DEF DInv

\* Without a race the ledger is exact although processes die between the calls
\* of a payment and of a charge.
THEOREM LedgerExactAcrossRestarts == DeliverySpec => []LedgerExactUnlessRaced
<1>1. DeliveryInit => DInv /\ LInv
  BY InitDelivery, InitLedger DEF DeliveryInit
<1>2. DInv /\ LInv /\ [DeliveryNext]_allVars => (DInv /\ LInv)'
  BY NextDelivery, LedgerAcrossRestarts
<1>3. DInv /\ LInv => LedgerExactUnlessRaced
  BY DEF LInv
<1> QED
  BY <1>1, <1>2, <1>3, PTL DEF DeliverySpec

LEMMA RestartRefines ==
    ASSUME RInv, Restart
    PROVE  WithinPut' /\ UNCHANGED Ledger!vars
<1>1. UNCHANGED <<points, deducted, charged, raced>> /\ readPoints' = [r \in Req |-> 0]
  BY DEF Restart
<1>2. \A u \in User : Put(u)' = Put(u) /\ Put(u) \in Nat
  BY <1>1, PutUnchanged, PutNat
<1>3. \A r \in Req : Owner(r) \in User /\ Owner(r)' = Owner(r)
  BY Amounts DEF Owner
<1>4. WithinPut'
  BY <1>1, <1>2, <1>3 DEF RInv, WithinPut
<1>5. /\ [u \in User |-> InitPoints[u] + TotalCharged(u)]'
            = [u \in User |-> InitPoints[u] + TotalCharged(u)]
      /\ {OrderOf[r] : r \in deducted}' = {OrderOf[r] : r \in deducted}
  BY <1>1 DEF TotalCharged
<1> QED
  BY <1>1, <1>4, <1>5 DEF Ledger!vars

\* A process that dies, whatever it was at, leaves the ledger as it is: the
\* payments of a program that restarts implement it as well.
THEOREM LedgerAcrossProcesses == DeliverySpec => ImplementsLedger
<1> DEFINE I == DInv /\ RInv
<1>1. DeliveryInit => I /\ Ledger!Init
  BY InitDelivery, InitRefinement, LedgerInit DEF DeliveryInit
<1>2. [DeliveryNext]_allVars => [Next]_vars \/ Restart
  BY DEF DeliveryNext, allVars, Next, PayAndPublish, HandlerStep, SendPaymentCompleted,
         SendFails, ConsumerStep, HandleMessage, SendOrderData, PlatformFails, CommitOffset
<1>3. ASSUME I, [DeliveryNext]_allVars PROVE I' /\ [Ledger!Next]_(Ledger!vars)
  <2>1. DInv' /\ LInv' /\ IInv'
    BY <1>3, NextDelivery, LedgerAcrossRestarts DEF RInv, DInv
  <2>2. CASE [Next]_vars
    BY <1>3, <2>1, <2>2, WithinPutStep, LedgerMapping DEF RInv
  <2>3. CASE Restart
    BY <1>3, <2>1, <2>3, RestartRefines DEF RInv
  <2> QED
    BY <1>2, <1>3, <2>2, <2>3
<1> HIDE DEF I
<1> QED
  BY <1>1, <1>3, PTL DEF DeliverySpec, Ledger!Spec, ImplementsLedger

----------------------------------------------------------------------------
(* What FailedPaymentCanBeRetried does not hold for.  The run payment_retry *)
(* shows an order that cannot be paid again; here it is shown that no such  *)
(* order ever is, whoever tries and however often processes restart.        *)

\* An order nobody is paying, not PAID, and with a row in payments.
LeftBehind(o) ==
    /\ status[o] = "PENDING"
    /\ \A r \in PayReq : OrderOf[r] = o => pc[r] \notin Calls
    /\ OrderIdTaken(o)

\* The request that saved the row of an unpaid order has ended.
GivenUp(o) ==
    /\ status[o] = "PENDING"
    /\ \E r \in payments : OrderOf[r] = o /\ pc[r] \in {"rejected", "error"}

\* Who has a row has come past its save.
RowFollows == \A r \in payments : pc[r] \notin {"idle", "findOrder", "findUser", "savePayment"}

LEMMA RowStep ==
    ASSUME TypeOK, RowFollows, [Next]_vars \/ Restart
    PROVE  RowFollows'
<1> USE DEF TypeOK, RowFollows, Goto, Req, Unanswered, Calls, PayCalls, ChargeCalls, Ends
<1>1. ASSUME NEW r \in PayReq, SavePayment(r) PROVE RowFollows'
  BY <1>1 DEF SavePayment, InsertPayment
<1>2. ASSUME NEW r \in PayReq,
             \/ FindOrder(r) \/ ValidatePaymentPossible(r) \/ FindPoints(r)
             \/ SavePoints(r) \/ SaveStatus(r)
      PROVE  RowFollows'
  BY <1>2 DEF FindOrder, ValidatePaymentPossible, FindPoints, SavePoints, SaveStatus
<1>3. ASSUME NEW r \in Req, Execute(r) \/ CallFails(r) \/ Answer(r) PROVE RowFollows'
  BY <1>3 DEF Execute, CallFails, Answer
<1>4. ASSUME NEW r \in ChargeReq, FindCharge(r) \/ SaveCharge(r) PROVE RowFollows'
  BY <1>4, ReqAssumption DEF FindCharge, SaveCharge
<1>5. CASE Restart \/ UNCHANGED vars
  BY <1>5 DEF Restart, vars
<1> QED
  BY <1>1, <1>2, <1>3, <1>4, <1>5 DEF Next, PayStep, ChargeStep, Req

LEMMA LeftBehindIsGivenUp ==
    ASSUME IInv, RowFollows, NEW o \in Order, LeftBehind(o)
    PROVE  GivenUp(o)
<1>1. PICK r \in payments : OrderOf[r] = o
  BY DEF LeftBehind, OrderIdTaken
<1>2. r \in PayReq /\ pc[r] \in {"idle"} \cup Unanswered \cup Ends
  BY DEF IInv, TypeOK, Req
<1>3. pc[r] \notin Calls /\ pc[r] # "idle"
  BY <1>1, <1>2 DEF LeftBehind, RowFollows
<1>4. pc[r] \notin {"reply", "ok"}
  BY <1>1, <1>2 DEF IInv, Places, PaidIsBacked, LeftBehind
<1> QED
  BY <1>1, <1>2, <1>3, <1>4 DEF GivenUp, LeftBehind, Unanswered, Ends

LEMMA GivenUpStays ==
    ASSUME IInv, NEW o \in Order, GivenUp(o), [Next]_vars \/ Restart
    PROVE  GivenUp(o)'
<1>1. PICK r \in payments : OrderOf[r] = o /\ pc[r] \in {"rejected", "error"}
  BY DEF GivenUp
<1>2. /\ r \in PayReq /\ payments \subseteq PayReq
      /\ pc \in [Req -> {"idle"} \cup Unanswered \cup Ends]
  BY DEF IInv, TypeOK
<1>3. r \in payments' /\ pc'[r] = pc[r]
  <2> USE <1>1, <1>2 DEF Goto, Unanswered, Calls, PayCalls, ChargeCalls, Ends, Req
  <2>1. ASSUME NEW q \in PayReq, PayStep(q) PROVE r \in payments' /\ pc'[r] = pc[r]
    BY <2>1
       DEF PayStep, FindOrder, ValidatePaymentPossible, SavePayment, InsertPayment,
           FindPoints, SavePoints, SaveStatus, Answer
  <2>2. ASSUME NEW q \in ChargeReq, ChargeStep(q) PROVE r \in payments' /\ pc'[r] = pc[r]
    BY <2>2 DEF ChargeStep, FindCharge, SaveCharge, Answer
  <2>3. ASSUME NEW q \in Req, Execute(q) \/ CallFails(q)
        PROVE  r \in payments' /\ pc'[r] = pc[r]
    BY <2>3 DEF Execute, CallFails
  <2>4. CASE Restart \/ UNCHANGED vars
    BY <2>4 DEF Restart, vars
  <2> QED
    BY <2>1, <2>2, <2>3, <2>4 DEF Next
<1>4. status'[o] = "PENDING"
  <2>1. ASSUME NEW q \in PayReq, SaveStatus(q) PROVE OrderOf[q] # o
    <3>1. q \in payments /\ pc[q] = "saveStatus"
      BY <2>1 DEF SaveStatus, IInv, Places
    <3> QED
      BY <1>1, <3>1 DEF IInv, OneRowPerOrder
  <2>2. ASSUME NEW q \in PayReq, SaveStatus(q) PROVE status'[o] = status[o]
    BY <2>1, <2>2 DEF SaveStatus, IInv, TypeOK
  <2>3. CASE status' = status
    BY <2>3 DEF GivenUp
  <2>4. status' = status \/ \E q \in PayReq : SaveStatus(q)
    BY DEF Next, vars, Restart, PayStep, ChargeStep, Execute, CallFails, FindOrder,
           ValidatePaymentPossible, SavePayment, FindPoints, SavePoints, FindCharge,
           SaveCharge, Answer
  <2> QED
    BY <2>2, <2>3, <2>4 DEF GivenUp
<1> QED
  BY <1>1, <1>3, <1>4 DEF GivenUp

\* An order whose payment failed after its row was saved is never paid: not by
\* a retry, not by another request, not after a restart.
THEOREM FailedPaymentIsFinal ==
    ASSUME NEW o \in Order
    PROVE  DeliverySpec => [](LeftBehind(o) => [](status[o] = "PENDING"))
<1> DEFINE I == DInv /\ RowFollows
           Up == GivenUp(o)
           Left == LeftBehind(o)
           Unpaid == status[o] = "PENDING"
<1>1. DeliveryInit => I
  BY InitDelivery DEF DeliveryInit, Init, RowFollows
<1>2. [DeliveryNext]_allVars => [Next]_vars \/ Restart
  BY DEF DeliveryNext, allVars, Next, PayAndPublish, HandlerStep, SendPaymentCompleted,
         SendFails, ConsumerStep, HandleMessage, SendOrderData, PlatformFails, CommitOffset
<1>3. I /\ [DeliveryNext]_allVars => I'
  BY <1>2, NextDelivery, RowStep DEF DInv, IInv
<1>4. I /\ Left => Up
  BY LeftBehindIsGivenUp DEF DInv
<1>5. I /\ Up /\ [DeliveryNext]_allVars => Up'
  BY <1>2, GivenUpStays DEF DInv
<1>6. Up => Unpaid
  BY DEF GivenUp
<1> HIDE DEF I, Up, Left, Unpaid
<1>7. DeliverySpec => [](Left => []Unpaid)
  BY <1>1, <1>3, <1>4, <1>5, <1>6, PTL DEF DeliverySpec
<1> QED
  BY <1>7 DEF Left, Unpaid
=============================================================================
