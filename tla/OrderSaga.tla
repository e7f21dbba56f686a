----------------------------- MODULE OrderSaga -----------------------------
(***************************************************************************)
(* Creating an order and undoing it: CreateOrderUseCase, the event bus,    *)
(* OrderCreatedHandler (payment timer), OrderFailedHandler and             *)
(* PaymentFailedHandler (compensation), with the products, coupons and     *)
(* orders tables and today's sales ranking in Redis.                       *)
(*                                                                         *)
(* A request is a process: it creates its order and, if its events reach   *)
(* a handler, the same process goes on as that handler.  Every repository  *)
(* or Redis call is one step; no lock or transaction is in force.  Points  *)
(* belong to Payment: whether they suffice is chosen when an order is      *)
(* validated, and paying an order is one step here.                        *)
(***************************************************************************)
EXTENDS Pricing, FiniteSets

CONSTANTS Req, Product, Coupon,
          ItemsOf,     \* items of a request, <<[p |-> product, q |-> quantity]>>
          CouponOf,    \* its couponId, or NoCoupon
          NoCoupon,
          TypeOfCoupon,\* the type of each coupon
          Prices,      \* what products.price may be
          Payer,       \* the requests whose customers may pay
          InitStocks,  \* what products.stock may be at first
          Wirings,     \* how the event bus may be wired
          MaxCrashes   \* bound: how often the process dies

\* validateOrderItems.  The requests considered pass it: one that does not is
\* refused before it touches anything.
ValidItems(items) ==
    items # <<>> /\ items \in Seq([p : Product, q : Nat \ {0}])

ASSUME ItemAssumption == \A r \in Req : ValidItems(ItemsOf[r])
ASSUME CouponAssumption ==
    /\ NoCoupon \notin Coupon /\ CouponOf \in [Req -> Coupon \cup {NoCoupon}]
    /\ TypeOfCoupon \in [Coupon -> CouponType]
ASSUME PriceAssumption == Prices \subseteq [Product -> Nat]
\* What an order costs fits the int column totalAmount.
ASSUME AmountAssumption ==
    \A r \in Req, prices \in Prices : TotalAmount(ItemsOf[r], prices) \in Nat
ASSUME StockAssumption ==
    InitStocks \subseteq [Product -> Nat] /\ Payer \subseteq Req /\ MaxCrashes \in Nat
ASSUME WiringAssumption == Wirings \subseteq {"AppModule", "SharedBus"}

VARIABLES pc,         \* the call a request or its handler awaits, or its end
          item,       \* the item its loop is at
          read,       \* stock or score it is about to write back, else 0
          left,       \* stock of each reserved product object, per item
          couponUsed, \* local couponUsed: this request spent its coupon
          price,      \* products.price, which nothing changes
          initStock,  \* products.stock at first
          stock,      \* products.stock
          used,       \* coupons with isUsed
          score,      \* product:ranking:<today>, Absent = not a member
          order,      \* status of the order row of a request, or "none"
          wiring, crashes,
          reserved,   \* history: items of a request whose stock was taken
          restored,   \* history: items whose stock was given back
          raced       \* history: products, coupons read while another
                      \* request was about to write them

setup == <<price, initStock, wiring>>
vars == <<pc, item, read, left, couponUsed, stock, used, score, order, setup,
          crashes, reserved, restored, raced>>

Absent == -1

CreateCalls == {"findProduct", "saveProduct", "findUser", "findCoupon",
                "saveCoupon", "saveOrder"}
RankCalls == {"readRank", "writeRank"}
RestoreCalls == {"restoreFind", "restoreSave", "restoreCoupon", "revertCoupon"}
UnrankCalls == {"readUnrank", "writeUnrank"}
Ends == {"created", "failed", "compensated", "died"}
PCs == {"idle", "validate", "armed"} \cup CreateCalls \cup RankCalls
         \cup RestoreCalls \cup UnrankCalls \cup Ends

P(r) == ItemsOf[r][item[r]].p
Q(r) == ItemsOf[r][item[r]].q

\* Mutant: the loop runs past the last item.
LastItemMissed(r) == item[r] > Len(ItemsOf[r])

LastItem(r) == item[r] = Len(ItemsOf[r])

Goto(r, l) == pc' = [pc EXCEPT ![r] = l]

\* Iterate: go to l for the next item, or to done after the last one.
NextItem(r, l, done) ==
    /\ Goto(r, IF LastItem(r) THEN done ELSE l)
    /\ item' = [item EXCEPT ![r] = IF LastItem(r) THEN 1 ELSE @ + 1]

\* What was read last is not used again.
Done(r) == read' = [read EXCEPT ![r] = 0]

----------------------------------------------------------------------------
(* The event bus.  AppModule provides EventBus twice: publishers get the   *)
(* instance behind 'EVENT_BUS', onModuleInit subscribes on the other one,  *)
(* and subscribe files a string under the key undefined.  "SharedBus" is   *)
(* one bus keyed by class name, which the handlers are written for.        *)

Events == {"OrderCreatedEvent", "OrderFailedEvent", "PaymentFailedEvent"}

\* The keys with a handler, on a bus instance.
Subscribed(w, bus) ==
    IF w = "SharedBus" THEN Events
    ELSE IF bus = "EventBus" THEN {"undefined"} ELSE {}

Handled(event) == event \in Subscribed(wiring, "EVENT_BUS")

\* handleOrderCreationFailure publishes OrderFailedEvent with all the items of
\* the request; its handler starts restoring them.
PublishOrderFailed(r) ==
    /\ Goto(r, IF Handled("OrderFailedEvent") THEN "restoreFind" ELSE "failed")
    /\ item' = [item EXCEPT ![r] = 1]

\* The end of updateProductRanking: OrderCreatedEvent, whose handler sets the
\* 10 minute timer.
AfterRanking == IF Handled("OrderCreatedEvent") THEN "armed" ELSE "created"

----------------------------------------------------------------------------
Init ==
    /\ pc = [r \in Req |-> "idle"]
    /\ item = [r \in Req |-> 1]
    /\ read = [r \in Req |-> 0]
    /\ left = [r \in Req |-> <<>>]
    /\ couponUsed = [r \in Req |-> FALSE]
    /\ price \in Prices
    /\ initStock \in InitStocks
    /\ stock = initStock
    /\ used = {}
    /\ score = [p \in Product |-> Absent]
    /\ order = [r \in Req |-> "none"]
    /\ wiring \in Wirings
    /\ crashes = 0
    /\ reserved = [r \in Req |-> 0]
    /\ restored = [r \in Req |-> 0]
    /\ raced = {}

Execute(r) ==
    /\ pc[r] = "idle"
    /\ Goto(r, "findProduct")
    /\ UNCHANGED <<item, read, left, couponUsed, stock, used, score, order, setup,
                   crashes, reserved, restored, raced>>

----------------------------------------------------------------------------
(* ProductsService.validateAndReserveProducts *)

AboutToSave(q, p) == pc[q] \in {"saveProduct", "restoreSave"} /\ P(q) = p

\* The stock a request reads, and whether somebody is about to overwrite it.
Read(r, v) == read' = [read EXCEPT ![r] = v]
NoteRace(r) ==
    raced' = IF \E q \in Req : AboutToSave(q, P(r)) THEN raced \cup {P(r)}
                                                     ELSE raced

HasStock(s, q) == s >= q
Decreased(s, q) == s - q
Increased(s, q) == s + q

\* ProductRepository.save writes what the service computed over whatever the
\* row holds now.
SaveStock(r, s) == stock' = [stock EXCEPT ![P(r)] = s]

\* OrderRepository.save inserts the row.
InsertOrder(r) == order' = [order EXCEPT ![r] = "PENDING"]

FindProduct(r) ==
    /\ pc[r] = "findProduct"
    /\ NoteRace(r)
    /\ \/ /\ HasStock(stock[P(r)], Q(r))
          /\ Read(r, stock[P(r)])
          /\ Goto(r, "saveProduct")
          /\ UNCHANGED item
       \/ /\ ~HasStock(stock[P(r)], Q(r))
          /\ PublishOrderFailed(r)
          /\ UNCHANGED read
    /\ UNCHANGED <<left, couponUsed, stock, used, score, order, setup, crashes,
                   reserved, restored>>

\* decreaseStock on the object that was read, then save.
SaveProduct(r) ==
    /\ pc[r] = "saveProduct"
    /\ SaveStock(r, Decreased(read[r], Q(r)))
    /\ left' = [left EXCEPT ![r] = Append(@, Decreased(read[r], Q(r)))]
    /\ reserved' = [reserved EXCEPT ![r] = @ + 1]
    /\ NextItem(r, "findProduct", "findUser")
    /\ Done(r)
    /\ UNCHANGED <<couponUsed, used, score, order, setup, crashes, restored,
                   raced>>

----------------------------------------------------------------------------
(* The user, the coupon, the validation and the order row *)

FindUser(r) ==
    /\ pc[r] = "findUser"
    /\ Goto(r, IF CouponOf[r] = NoCoupon THEN "validate" ELSE "findCoupon")
    /\ UNCHANGED <<item, read, left, couponUsed, stock, used, score, order, setup,
                   crashes, reserved, restored, raced>>

\* Mutant: isUsed is not looked at.
FindCouponUnchecked(r) ==
    /\ pc[r] = "findCoupon"
    /\ Goto(r, "saveCoupon")
    /\ UNCHANGED <<item, read, left, couponUsed, stock, used, score, order, setup,
                   crashes, reserved, restored, raced>>

\* isValid, of a coupon past its date or not.
Usable(c, expired) == ~expired /\ c \notin used

\* validateAndCalculateDiscount: a used or expired coupon means no discount, no
\* error.
FindCoupon(r) ==
    /\ pc[r] = "findCoupon"
    /\ raced' = IF \E q \in Req : /\ pc[q] \in {"saveCoupon", "revertCoupon"}
                                  /\ CouponOf[q] = CouponOf[r]
                THEN raced \cup {CouponOf[r]} ELSE raced
    /\ \E expired \in BOOLEAN :
          Goto(r, IF Usable(CouponOf[r], expired) THEN "saveCoupon" ELSE "validate")
    /\ UNCHANGED <<item, read, left, couponUsed, stock, used, score, order, setup,
                   crashes, reserved, restored>>

SaveCoupon(r) ==
    /\ pc[r] = "saveCoupon"
    /\ used' = used \cup {CouponOf[r]}
    /\ couponUsed' = [couponUsed EXCEPT ![r] = TRUE]
    /\ Goto(r, "validate")
    /\ UNCHANGED <<item, read, left, stock, score, order, setup, crashes, reserved,
                   restored, raced>>

\* validateOrder asks hasStock of the objects that were already decremented,
\* then whether points and amounts suffice.
StillInStock(r) ==
    \A i \in DOMAIN ItemsOf[r] : HasStock(left[r][i], ItemsOf[r][i].q)

Total(r) == TotalAmount(ItemsOf[r], price)
Discount(r) ==
    IF couponUsed[r] THEN CalculateDiscount(TypeOfCoupon[CouponOf[r]], Total(r))
                     ELSE 0
Final(r) == FinalAmount(Total(r), Discount(r))

\* hasEnoughPoints: a free order needs none.
MayHavePoints(r) == IF Final(r) <= 0 THEN {TRUE} ELSE BOOLEAN

\* Mutant: validateOrder leaves the stock out.
ValidateAmounts(r) ==
    /\ pc[r] = "validate"
    /\ Goto(r, "saveOrder")
    /\ UNCHANGED <<item, read, left, couponUsed, stock, used, score, order, setup,
                   crashes, reserved, restored, raced>>

ValidateOrder(r) ==
    /\ pc[r] = "validate"
    /\ \E enoughPoints \in MayHavePoints(r) :
          LET valid == /\ StillInStock(r) /\ enoughPoints
                       /\ ValidOrderAmount(Total(r), Final(r)) IN
          \/ valid /\ Goto(r, "saveOrder") /\ UNCHANGED item
          \/ ~valid /\ PublishOrderFailed(r)
    /\ UNCHANGED <<read, left, couponUsed, stock, used, score, order, setup,
                   crashes, reserved, restored, raced>>

SaveOrder(r) ==
    /\ pc[r] = "saveOrder"
    /\ InsertOrder(r)
    /\ Goto(r, "readRank")
    /\ UNCHANGED <<item, read, left, couponUsed, stock, used, score, setup, crashes,
                   reserved, restored, raced>>

----------------------------------------------------------------------------
(* updateProductRanking *)

ReadRank(r) ==
    /\ pc[r] = "readRank"
    /\ Read(r, score[P(r)])
    /\ Goto(r, "writeRank")
    /\ UNCHANGED <<item, left, couponUsed, stock, used, score, order, setup, crashes,
                   reserved, restored, raced>>

\* Mutant: the item that was written is read and counted again.
WriteRankAgain(r) ==
    /\ pc[r] = "writeRank"
    /\ score' = [score EXCEPT ![P(r)] = (IF read[r] = Absent THEN 0 ELSE read[r]) + Q(r)]
    /\ Goto(r, "readRank")
    /\ Done(r)
    /\ UNCHANGED <<item, left, couponUsed, stock, used, order, setup, crashes,
                   reserved, restored, raced>>

\* (currentDailyScore || 0) + quantity.  The EXPIRE that follows, and midnight,
\* are in ProductRanking.
WriteRank(r) ==
    /\ pc[r] = "writeRank"
    /\ score' = [score EXCEPT ![P(r)] = (IF read[r] = Absent THEN 0 ELSE read[r]) + Q(r)]
    /\ NextItem(r, "readRank", AfterRanking)
    /\ Done(r)
    /\ UNCHANGED <<left, couponUsed, stock, used, order, setup, crashes,
                   reserved, restored, raced>>

\* A ranking error is logged and the loop goes on.
SkipRank(r) ==
    /\ pc[r] \in RankCalls
    /\ NextItem(r, "readRank", AfterRanking)
    /\ Done(r)
    /\ UNCHANGED <<left, couponUsed, stock, used, score, order, setup, crashes,
                   reserved, restored, raced>>

----------------------------------------------------------------------------
(* The timer and the payment *)

\* Mutant: the event is published without isTimeout, and only logged.
TimerFiresPlain(r) ==
    /\ pc[r] = "armed"
    /\ Goto(r, "created")
    /\ UNCHANGED <<item, read, left, couponUsed, stock, used, score, order, setup,
                   crashes, reserved, restored, raced>>

\* The timer is never cancelled: it fires for paid orders as well.  It
\* publishes PaymentFailedEvent with isTimeout, and PaymentFailedHandler
\* starts restoring the items without looking at the order.
TimerFires(r) ==
    /\ pc[r] = "armed"
    /\ Goto(r, IF Handled("PaymentFailedEvent") THEN "restoreFind" ELSE "created")
    /\ UNCHANGED <<item, read, left, couponUsed, stock, used, score, order, setup,
                   crashes, reserved, restored, raced>>

\* ProcessPaymentUseCase, in one step: see Payment.
Pay(r) ==
    /\ r \in Payer
    /\ order[r] = "PENDING"
    /\ order' = [order EXCEPT ![r] = "PAID"]
    /\ UNCHANGED <<pc, item, read, left, couponUsed, stock, used, score, setup,
                   crashes, reserved, restored, raced>>

----------------------------------------------------------------------------
(* Compensation, the same in both handlers *)

RestoreFind(r) ==
    /\ pc[r] = "restoreFind"
    /\ NoteRace(r)
    /\ Read(r, stock[P(r)])
    /\ Goto(r, "restoreSave")
    /\ UNCHANGED <<item, left, couponUsed, stock, used, score, order, setup, crashes,
                   reserved, restored>>

\* Mutant: the stock that was read is saved as it is.
RestoreSaveUnchanged(r) ==
    /\ pc[r] = "restoreSave"
    /\ SaveStock(r, read[r])
    /\ restored' = [restored EXCEPT ![r] = @ + 1]
    /\ NextItem(r, "restoreFind",
                IF CouponOf[r] = NoCoupon THEN "readUnrank" ELSE "restoreCoupon")
    /\ Done(r)
    /\ UNCHANGED <<left, couponUsed, used, score, order, setup, crashes,
                   reserved, raced>>

\* ProductsService.save; the caches it invalidates are in CacheAside.
RestoreSave(r) ==
    /\ pc[r] = "restoreSave"
    /\ SaveStock(r, Increased(read[r], Q(r)))
    /\ restored' = [restored EXCEPT ![r] = @ + 1]
    /\ NextItem(r, "restoreFind",
                IF CouponOf[r] = NoCoupon THEN "readUnrank" ELSE "restoreCoupon")
    /\ Done(r)
    /\ UNCHANGED <<left, couponUsed, used, score, order, setup, crashes,
                   reserved, raced>>

\* restoreCouponUsage looks at the coupon only, not at who used it.
RestoreCoupon(r) ==
    /\ pc[r] = "restoreCoupon"
    /\ Goto(r, IF CouponOf[r] \in used THEN "revertCoupon" ELSE "readUnrank")
    /\ UNCHANGED <<item, read, left, couponUsed, stock, used, score, order, setup,
                   crashes, reserved, restored, raced>>

RevertCoupon(r) ==
    /\ pc[r] = "revertCoupon"
    /\ used' = used \ {CouponOf[r]}
    /\ Goto(r, "readUnrank")
    /\ UNCHANGED <<item, read, left, couponUsed, stock, score, order, setup, crashes,
                   reserved, restored, raced>>

\* restoreProductRanking leaves a product alone that has no score.
ReadUnrank(r) ==
    /\ pc[r] = "readUnrank"
    /\ \/ /\ score[P(r)] = Absent
          /\ NextItem(r, "readUnrank", "compensated")
          /\ UNCHANGED read
       \/ /\ score[P(r)] # Absent
          /\ Read(r, score[P(r)])
          /\ Goto(r, "writeUnrank")
          /\ UNCHANGED item
    /\ UNCHANGED <<left, couponUsed, stock, used, score, order, setup, crashes,
                   reserved, restored, raced>>

\* Math.max(0, currentDailyScore - quantity)
Reduced(s, q) == IF s > q THEN s - q ELSE 0

WriteUnrank(r) ==
    /\ pc[r] = "writeUnrank"
    /\ score' = [score EXCEPT ![P(r)] = Reduced(read[r], Q(r))]
    /\ NextItem(r, "readUnrank", "compensated")
    /\ Done(r)
    /\ UNCHANGED <<left, couponUsed, stock, used, order, setup, crashes,
                   reserved, restored, raced>>

SkipUnrank(r) ==
    /\ pc[r] \in UnrankCalls
    /\ NextItem(r, "readUnrank", "compensated")
    /\ Done(r)
    /\ UNCHANGED <<left, couponUsed, stock, used, score, order, setup, crashes,
                   reserved, restored, raced>>

----------------------------------------------------------------------------
(* Failures *)

\* A call of the use case is rejected: the catch block publishes
\* OrderFailedEvent and rethrows.
CallFails(r) ==
    /\ pc[r] \in CreateCalls
    /\ PublishOrderFailed(r)
    /\ Done(r)
    /\ UNCHANGED <<left, couponUsed, stock, used, score, order, setup, crashes,
                   reserved, restored, raced>>

\* The coupon or the row is saved and the reply lost: the catch block takes the
\* order for failed.  (A reservation whose reply is lost is a SaveProduct
\* followed by CallFails.)
ReplyLost(r) ==
    /\ \/ /\ pc[r] = "saveCoupon"
          /\ used' = used \cup {CouponOf[r]}
          /\ couponUsed' = [couponUsed EXCEPT ![r] = TRUE]
          /\ UNCHANGED order
       \/ /\ pc[r] = "saveOrder"
          /\ InsertOrder(r)
          /\ UNCHANGED <<used, couponUsed>>
    /\ PublishOrderFailed(r)
    /\ UNCHANGED <<read, left, stock, score, setup, crashes, reserved, restored,
                   raced>>

\* The process dies: requests and handlers end where they are, timers are
\* forgotten.  Besides crashes from outside this is what a rejected call
\* inside a compensating handler does: the handler rethrows, the subscription
\* does not await it, and an unhandled rejection ends Node.
Crash ==
    /\ crashes < MaxCrashes
    /\ crashes' = crashes + 1
    /\ pc' = [r \in Req |-> IF pc[r] \in {"idle"} \cup Ends THEN pc[r] ELSE "died"]
    /\ read' = [r \in Req |-> 0]
    /\ item' = [r \in Req |-> 1]
    /\ UNCHANGED <<left, couponUsed, stock, used, score, order, setup,
                   reserved, restored, raced>>

----------------------------------------------------------------------------
CreateStep(r) ==
    \/ FindProduct(r) \/ SaveProduct(r) \/ FindUser(r) \/ FindCoupon(r)
    \/ SaveCoupon(r) \/ ValidateOrder(r) \/ SaveOrder(r)
    \/ ReadRank(r) \/ WriteRank(r)

HandlerStep(r) ==
    \/ TimerFires(r) \/ RestoreFind(r) \/ RestoreSave(r) \/ RestoreCoupon(r)
    \/ RevertCoupon(r) \/ ReadUnrank(r) \/ WriteUnrank(r)

Next ==
    \/ \E r \in Req : \/ Execute(r) \/ CreateStep(r) \/ HandlerStep(r)
                      \/ SkipRank(r) \/ SkipUnrank(r) \/ CallFails(r)
                      \/ ReplyLost(r) \/ Pay(r)
    \/ Crash

\* The event loop and the timers make progress; customers need not pay.
Fairness == \A r \in Req : WF_vars(CreateStep(r)) /\ WF_vars(HandlerStep(r))

Spec == Init /\ [][Next]_vars /\ Fairness

----------------------------------------------------------------------------
(* Properties *)

\* Every variable stays in its type; stock and score are never negative,
\* although both are written from reads that may be stale.
TypeOK ==
    /\ pc \in [Req -> PCs]
    /\ \A r \in Req : item[r] \in DOMAIN ItemsOf[r]
    /\ \A r \in Req : left[r] \in Seq(Nat) /\ Len(left[r]) = reserved[r]
    /\ couponUsed \in [Req -> BOOLEAN]
    /\ stock \in [Product -> Nat]
    /\ used \in SUBSET Coupon
    /\ score \in [Product -> Nat \cup {Absent}]
    /\ order \in [Req -> {"none", "PENDING", "PAID"}]
    /\ \A r \in Req : {reserved[r], restored[r]} \subseteq 0 .. Len(ItemsOf[r])
    /\ raced \in SUBSET (Product \cup Coupon)

\* The items of product p among the first n[r] items of every request r, as
\* pairs of the request and the index, and their pieces one by one.
ItemsUpTo(n, p) ==
    UNION {{r} \X {i \in 1 .. n[r] : ItemsOf[r][i].p = p} : r \in Req}
Pieces(items) == UNION {{x} \X (1 .. ItemsOf[x[1]][x[2]].q) : x \in items}
Quantity(n, p) == Cardinality(Pieces(ItemsUpTo(n, p)))

\* Unless two requests overlapped between reading and saving a product, its
\* stock is the initial one less what was reserved plus what was given back,
\* across partly reserved orders, failed ones, compensations and crashes.
StockLedgerUnlessRaced ==
    \A p \in Product \ raced :
        stock[p] = initStock[p] - Quantity(reserved, p) + Quantity(restored, p)

\* However the reads and saves of requests, handlers and crashes interleave, the
\* stock is what the abstract stock room promises: items are taken and given
\* back once each and in order, a row means that all were taken, the stock is
\* exact until two readers of a product overlap, and even then bounded by what
\* was there and came back.
Room == INSTANCE StockRoom
          WITH supply <- [p \in Product |-> initStock[p] + Quantity(restored, p)],
               taken <- reserved,
               returned <- restored,
               placed <- {r \in Req : order[r] # "none"},
               contended <- raced \cap Product
ImplementsStockRoom == Room!Spec

\* An order row exists only when all its items were reserved, when the double
\* check of validateOrder found as much again left of each, and with an amount
\* between nothing and what its items cost, although a coupon may be worth more
\* than the order and is spent before the amount is looked at.
OrderIsBacked ==
    \A r \in Req : order[r] # "none" =>
        /\ reserved[r] = Len(ItemsOf[r])
        /\ StillInStock(r)
        /\ Final(r) \in 0 .. Total(r)

\* Unless its reads raced, or a compensation released it, a coupon is spent by
\* one request only.
CouponSpentOnceUnlessRaced ==
    \A r1, r2 \in Req :
        (/\ couponUsed[r1] /\ couponUsed[r2] /\ CouponOf[r1] = CouponOf[r2]
         /\ CouponOf[r1] \notin raced
         /\ restored = [r \in Req |-> 0])
        => r1 = r2

\* The sales ranking never counts more of a product than was ordered.
Ordered == [r \in Req |-> IF order[r] = "none" THEN 0 ELSE Len(ItemsOf[r])]
RankingNeverOvercounts == \A p \in Product : score[p] <= Quantity(Ordered, p)

\* With a bus that delivers, an armed timer ends in a full compensation,
\* unless the process dies: every item is given back.
ExpiredOrderIsReleased ==
    \A r \in Req :
        pc[r] = "armed" ~> \/ pc[r] = "compensated" /\ restored[r] = Len(ItemsOf[r])
                           \/ pc[r] = "died"

\* An order that is not paid is released after ten minutes, as
\* OrderCreatedHandler says.  Violated with the wiring of AppModule.
UnpaidOrderIsReleased ==
    \A r \in Req :
        order[r] = "PENDING" ~> (order[r] = "PAID" \/ pc[r] = "compensated")

\* A paid order keeps the stock it was sold.  Violated with a bus that
\* delivers: the timer is not cancelled and its handler does not look at the
\* order.
PaidOrderKeepsStock ==
    \A r \in Req : order[r] = "PAID" => restored[r] = 0
============================================================================
