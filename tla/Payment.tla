------------------------------ MODULE Payment ------------------------------
(***************************************************************************)
(* Paying an order with points: ProcessPaymentUseCase.execute and          *)
(* ChargePointsUseCase, with the users, orders and payments tables.        *)
(*                                                                         *)
(* Requests are processes and every repository call is one step.  The      *)
(* @Transactional and @OptimisticLock decorators sit on the use cases,     *)
(* while the global interceptors read the metadata of the controller       *)
(* methods: no lock and no transaction is in force, every statement        *)
(* commits by itself.  save() writes the value the service computed from   *)
(* an earlier read; the version column is never compared.                  *)
(***************************************************************************)
EXTENDS Integers, FiniteSets

CONSTANTS User, Order,
          PayReq,       \* requests to POST /payments
          ChargeReq,    \* requests to POST /users/:id/points
          OwnerOf,      \* the user of an order
          AmountOf,     \* finalAmount of an order
          OrderOf,      \* the order a payment request is for
          ChargeUser,   \* the user and
          ChargeAmount, \* the amount of a charge request
          InitPoints    \* points of the users

ASSUME ReqAssumption == PayReq \cap ChargeReq = {}
ASSUME OrderAssumption ==
    /\ OwnerOf \in [Order -> User] /\ AmountOf \in [Order -> Nat]
    /\ OrderOf \in [PayReq -> Order]
ASSUME ChargeAssumption ==
    ChargeUser \in [ChargeReq -> User] /\ ChargeAmount \in [ChargeReq -> Nat]
ASSUME PointsAssumption == InitPoints \in [User -> Nat]

VARIABLES pc,         \* the call a request awaits, or how it ended
          seenStatus, \* status of the order a payment request read
          readPoints, \* points of the user a request read last
          points,     \* users.points
          status,     \* orders.status
          payments,   \* rows of payments, named by the inserting request
          deducted,   \* history: payment requests that saved their deduction
          charged,    \* history: charge requests that saved their amount
          raced       \* history: users of whom two requests had yet to write

vars == <<pc, seenStatus, readPoints, points, status, payments, deducted,
          charged, raced>>

Req == PayReq \cup ChargeReq
PayCalls == {"findOrder", "findUser", "savePayment", "findPoints", "savePoints",
             "saveStatus"}
ChargeCalls == {"findCharge", "saveCharge"}
Calls == PayCalls \cup ChargeCalls
\* The last write is made; its reply is still on its way.
Unanswered == Calls \cup {"reply"}
\* Answers: success, a business rule said no, a call was rejected.
Ends == {"ok", "rejected", "error"}

Owner(r) == IF r \in PayReq THEN OwnerOf[OrderOf[r]] ELSE ChargeUser[r]
Amount(r) == AmountOf[OrderOf[r]]

Goto(r, l) == pc' = [pc EXCEPT ![r] = l]

\* What was read is not used again.
ForgetStatus(r) == seenStatus' = [seenStatus EXCEPT ![r] = "PENDING"]
ForgetPoints(r) == readPoints' = [readPoints EXCEPT ![r] = 0]

\* PaymentRepository.save inserts a row.
InsertPayment(r) == payments' = payments \cup {r}

----------------------------------------------------------------------------
Init ==
    /\ pc = [r \in Req |-> "idle"]
    /\ seenStatus = [r \in PayReq |-> "PENDING"]
    /\ readPoints = [r \in Req |-> 0]
    /\ points = InitPoints
    /\ status = [o \in Order |-> "PENDING"]
    /\ payments = {}
    /\ deducted = {}
    /\ charged = {}
    /\ raced = {}

\* A request arrives.
Execute(r) ==
    /\ pc[r] = "idle"
    /\ Goto(r, IF r \in PayReq THEN "findOrder" ELSE "findCharge")
    /\ raced' = IF \E q \in Req : pc[q] \in Calls /\ Owner(q) = Owner(r)
                THEN raced \cup {Owner(r)} ELSE raced
    /\ UNCHANGED <<seenStatus, readPoints, points, status, payments, deducted,
                   charged>>

----------------------------------------------------------------------------
(* ProcessPaymentUseCase *)

FindOrder(r) ==
    /\ pc[r] = "findOrder"
    /\ seenStatus' = [seenStatus EXCEPT ![r] = status[OrderOf[r]]]
    /\ Goto(r, "findUser")
    /\ UNCHANGED <<readPoints, points, status, payments, deducted, charged, raced>>

\* User.hasEnoughPoints
HasEnoughPoints(balance, amount) == balance >= amount

\* validateUser reads the user; validatePaymentPossible then judges the order
\* read one await earlier and this balance.
ValidatePaymentPossible(r) ==
    /\ pc[r] = "findUser"
    /\ Goto(r, IF /\ seenStatus[r] = "PENDING"
                  /\ HasEnoughPoints(points[Owner(r)], Amount(r))
               THEN "savePayment" ELSE "rejected")
    /\ ForgetStatus(r)
    /\ UNCHANGED <<readPoints, points, status, payments, deducted, charged, raced>>

\* Mutant: the column is not unique.
OrderIdNotUnique(o) == FALSE

\* payments.orderId is unique: the second row of an order is refused.
OrderIdTaken(o) == \E q \in payments : OrderOf[q] = o

\* Mutant: a row that is there already is taken for this request's own.
SavePaymentTolerant(r) ==
    /\ pc[r] = "savePayment"
    /\ Goto(r, IF OrderIdTaken(OrderOf[r]) THEN "saveStatus" ELSE "findPoints")
    /\ payments' = IF OrderIdTaken(OrderOf[r]) THEN payments ELSE payments \cup {r}
    /\ UNCHANGED <<seenStatus, readPoints, points, status, deducted, charged, raced>>

\* PaymentsService.processPayment saves the row with status SUCCESS.
SavePayment(r) ==
    /\ pc[r] = "savePayment"
    /\ \/ /\ OrderIdTaken(OrderOf[r])
          /\ Goto(r, "rejected")
          /\ UNCHANGED payments
       \/ /\ ~OrderIdTaken(OrderOf[r])
          /\ Goto(r, "findPoints")
          /\ InsertPayment(r)
    /\ UNCHANGED <<seenStatus, readPoints, points, status, deducted, charged, raced>>

\* Mutant: User.usePoints does not look at the balance.
FindPointsUnchecked(r) ==
    /\ pc[r] = "findPoints"
    /\ readPoints' = [readPoints EXCEPT ![r] = points[Owner(r)]]
    /\ Goto(r, "savePoints")
    /\ UNCHANGED <<seenStatus, points, status, payments, deducted, charged, raced>>

\* UsersService.usePoints reads the user again; User.usePoints may throw.
FindPoints(r) ==
    /\ pc[r] = "findPoints"
    /\ \/ /\ Amount(r) > points[Owner(r)]
          /\ Goto(r, "rejected")
          /\ UNCHANGED readPoints
       \/ /\ Amount(r) <= points[Owner(r)]
          /\ Goto(r, "savePoints")
          /\ readPoints' = [readPoints EXCEPT ![r] = points[Owner(r)]]
    /\ UNCHANGED <<seenStatus, points, status, payments, deducted, charged, raced>>

\* Mutant: the user is saved without the deduction.
SavePointsUnchanged(r) ==
    /\ pc[r] = "savePoints"
    /\ points' = [points EXCEPT ![Owner(r)] = readPoints[r]]
    /\ deducted' = deducted \cup {r}
    /\ Goto(r, "saveStatus")
    /\ ForgetPoints(r)
    /\ UNCHANGED <<seenStatus, status, payments, charged, raced>>

SavePoints(r) ==
    /\ pc[r] = "savePoints"
    /\ points' = [points EXCEPT ![Owner(r)] = readPoints[r] - Amount(r)]
    /\ deducted' = deducted \cup {r}
    /\ Goto(r, "saveStatus")
    /\ ForgetPoints(r)
    /\ UNCHANGED <<seenStatus, status, payments, charged, raced>>

\* updateOrderStatus writes back the order it reads, all of it constant but
\* the status.
SaveStatus(r) ==
    /\ pc[r] = "saveStatus"
    /\ status' = [status EXCEPT ![OrderOf[r]] = "PAID"]
    /\ Goto(r, "reply")
    /\ UNCHANGED <<seenStatus, readPoints, points, payments, deducted, charged, raced>>

----------------------------------------------------------------------------
(* ChargePointsUseCase *)

FindCharge(r) ==
    /\ pc[r] = "findCharge"
    /\ readPoints' = [readPoints EXCEPT ![r] = points[Owner(r)]]
    /\ Goto(r, "saveCharge")
    /\ UNCHANGED <<seenStatus, points, status, payments, deducted, charged, raced>>

SaveCharge(r) ==
    /\ pc[r] = "saveCharge"
    /\ points' = [points EXCEPT ![Owner(r)] = readPoints[r] + ChargeAmount[r]]
    /\ charged' = charged \cup {r}
    /\ Goto(r, "reply")
    /\ ForgetPoints(r)
    /\ UNCHANGED <<seenStatus, status, payments, deducted, raced>>

----------------------------------------------------------------------------
\* The last write is confirmed: PaymentCompletedEvent is published, if it was
\* a payment, and success is answered.
Answer(r) ==
    /\ pc[r] = "reply"
    /\ Goto(r, "ok")
    /\ UNCHANGED <<seenStatus, readPoints, points, status, payments, deducted,
                   charged, raced>>

\* A call is rejected, or the process dies at it, before its write or (from the
\* next place on) after it.  Nothing that was saved is undone: the catch block
\* publishes PaymentFailedEvent with isTimeout false, for which
\* PaymentFailedHandler only logs.
CallFails(r) ==
    /\ pc[r] \in Unanswered
    /\ Goto(r, "error")
    /\ IF r \in PayReq THEN ForgetStatus(r) ELSE UNCHANGED seenStatus
    /\ ForgetPoints(r)
    /\ UNCHANGED <<points, status, payments, deducted, charged, raced>>

PayStep(r) ==
    \/ FindOrder(r) \/ ValidatePaymentPossible(r) \/ SavePayment(r)
    \/ FindPoints(r) \/ SavePoints(r) \/ SaveStatus(r) \/ Answer(r)

ChargeStep(r) == FindCharge(r) \/ SaveCharge(r) \/ Answer(r)

Next ==
    \/ \E r \in Req : Execute(r) \/ CallFails(r)
    \/ \E r \in PayReq : PayStep(r)
    \/ \E r \in ChargeReq : ChargeStep(r)

Spec == Init /\ [][Next]_vars

----------------------------------------------------------------------------
(* Properties *)

\* Every variable stays in its type; a balance is never negative, although
\* it is written from reads other requests may have overtaken.
TypeOK ==
    /\ pc \in [Req -> {"idle"} \cup Unanswered \cup Ends]
    /\ seenStatus \in [PayReq -> {"PENDING", "PAID"}]
    /\ readPoints \in [Req -> Nat]
    /\ points \in [User -> Nat]
    /\ status \in [Order -> {"PENDING", "PAID"}]
    /\ payments \in SUBSET PayReq
    /\ deducted \in SUBSET PayReq
    /\ charged \in SUBSET ChargeReq
    /\ raced \in SUBSET User

\* However many payment requests race for an order, points are deducted for
\* it at most once: the status check is stale, the unique orderId is not.
DeductedOncePerOrder ==
    \A r1, r2 \in deducted : OrderOf[r1] = OrderOf[r2] => r1 = r2

\* A PAID order is backed by the payment row and the deduction of one and the
\* same request.  That request may have failed at the reply of its last call,
\* but was not told no.  A request that was told so has deducted nothing, and
\* one that was told of success is the one behind its order.
PaidIsBacked ==
    /\ \A o \in Order : status[o] = "PAID" =>
          \E r \in payments \cap deducted :
             OrderOf[r] = o /\ pc[r] \in {"reply", "ok", "error"}
    /\ \A r \in PayReq : pc[r] = "ok" =>
          status[OrderOf[r]] = "PAID" /\ r \in payments \cap deducted
    /\ \A r \in deducted : pc[r] # "rejected"

\* The points that the requests in S move, one by one.
Moved(S, amount) == UNION {{r} \X (1 .. amount[r]) : r \in S}

\* What the requests of a user charged and deducted.
TotalCharged(u) == Cardinality(Moved({r \in charged : Owner(r) = u}, ChargeAmount))
TotalDeducted(u) ==
    Cardinality(Moved({r \in deducted : Owner(r) = u}, [r \in PayReq |-> Amount(r)]))

\* As long as no two requests of a user overlap, the balance is the initial
\* one plus the charges less the deductions, whatever calls fail.
LedgerExactUnlessRaced ==
    \A u \in User \ raced :
        points[u] = InitPoints[u] + TotalCharged(u) - TotalDeducted(u)

\* However the calls of racing requests interleave and fail, what is saved of
\* the users is a ledger: a charge counts once, an order is paid once, neither
\* changes another user, and the balance is exact until two requests of the
\* user overlap; from then on it can lose bookings but never gain points.
Ledger == INSTANCE PointsLedger
            WITH TopUp <- ChargeReq, UserOf <- ChargeUser, ValueOf <- ChargeAmount,
                 balance <- points,
                 put <- [u \in User |-> InitPoints[u] + TotalCharged(u)],
                 booked <- charged,
                 paid <- {OrderOf[r] : r \in deducted},
                 contended <- raced
ImplementsLedger == Ledger!Spec

\* After a payment failed, the user can pay the order with another request:
\* an order that nobody is processing and that is not PAID has no payment
\* row, which the unique orderId would hold against every retry.  Violated:
\* the row is saved before the points are deducted and never removed.
FailedPaymentCanBeRetried ==
    \A o \in Order :
        (/\ status[o] = "PENDING"
         /\ \A r \in PayReq : OrderOf[r] = o => pc[r] \notin Calls)
        => ~OrderIdTaken(o)
============================================================================
