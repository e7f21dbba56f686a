-------------------------- MODULE PaymentDelivery --------------------------
(***************************************************************************)
(* What becomes of a completed payment: ProcessPaymentUseCase publishes    *)
(* PaymentCompletedEvent, PaymentCompletedHandler puts the order on the    *)
(* topic payment-completed, and KafkaConsumerService hands what it reads   *)
(* there to the data platform.                                             *)
(*                                                                         *)
(* The module composes Payment with the event bus and one partition of the *)
(* topic (Kafka is external, as in CouponKafka).  The process that serves  *)
(* requests also runs the handlers and the consumer.  The bus is the       *)
(* shared one the handlers are written for; OrderSaga shows that AppModule *)
(* connects no handler to the bus the use cases publish on.                *)
(***************************************************************************)
EXTENDS Payment, Sequences, SequencesExt

CONSTANT MaxMishaps  \* bound: restarts, and messages written twice, together

ASSUME MishapAssumption == MaxMishaps \in Nat

VARIABLES
    handling,   \* payment requests whose event awaits the end of its handler
    topic,      \* the partition, a sequence of orders
    pos,        \* messages the consumer is done with
    committed,  \* committed offset, NoOffset before the first commit
    sending,    \* does the consumer await the data platform
    platform,   \* orders the data platform has accepted
    dropped,    \* history: orders of which an event or a message was given up
    restarts, duplicates

busVars == <<handling, topic, dropped, duplicates>>
consumerVars == <<pos, committed, sending, platform>>
deliveryVars == <<busVars, consumerVars, restarts>>
allVars == <<vars, deliveryVars>>

NoOffset == -1
Mishaps == restarts + duplicates
Published == ToSet(topic)

----------------------------------------------------------------------------
DeliveryInit ==
    /\ Init
    /\ handling = {}
    /\ topic = <<>>
    /\ pos = 0
    /\ committed = NoOffset
    /\ sending = FALSE
    /\ platform = {}
    /\ dropped = {}
    /\ restarts = 0
    /\ duplicates = 0

----------------------------------------------------------------------------
(* ProcessPaymentUseCase *)

\* Mutant: the event is published when the points are deducted.
CompletesEarly(r) == pc[r] = "savePoints"

\* The event follows the reply to updateOrderStatus.
Completes(r) == pc[r] = "reply"

\* A step of a payment; its answer and PaymentCompletedEvent are given in one
\* turn.  A payment that fails or dies at that reply has made its order PAID
\* and publishes nothing.
PayAndPublish(r) ==
    /\ PayStep(r)
    /\ handling' = IF Completes(r) THEN handling \cup {r} ELSE handling
    /\ UNCHANGED <<topic, dropped, duplicates, consumerVars, restarts>>

----------------------------------------------------------------------------
(* PaymentCompletedHandler *)

\* setImmediate runs the handlers concurrently, so messages need not come in
\* the order of the payments.  A retry inside the producer may write one twice.
SendPaymentCompleted(r) ==
    /\ r \in handling
    /\ handling' = handling \ {r}
    /\ \/ /\ topic' = Append(topic, OrderOf[r])
          /\ UNCHANGED duplicates
       \/ /\ Mishaps < MaxMishaps
          /\ duplicates' = duplicates + 1
          /\ topic' = topic \o <<OrderOf[r], OrderOf[r]>>
    /\ UNCHANGED <<vars, dropped, consumerVars, restarts>>

\* The send is rejected, with or without the message in the topic: the handler
\* logs the error and forgets the event.
SendFails(r) ==
    /\ r \in handling
    /\ handling' = handling \ {r}
    /\ topic' \in {topic, Append(topic, OrderOf[r])}
    /\ dropped' = dropped \cup {OrderOf[r]}
    /\ UNCHANGED <<vars, duplicates, consumerVars, restarts>>

----------------------------------------------------------------------------
(* KafkaConsumerService and DataPlatformService *)

\* eachMessage: the next message goes to the data platform.
HandleMessage ==
    /\ ~sending
    /\ pos < Len(topic)
    /\ sending' = TRUE
    /\ UNCHANGED <<vars, busVars, pos, committed, platform, restarts>>

\* sendOrderData succeeds.
SendOrderData ==
    /\ sending
    /\ sending' = FALSE
    /\ platform' = platform \cup {topic[pos + 1]}
    /\ pos' = pos + 1
    /\ UNCHANGED <<vars, busVars, committed, restarts>>

\* The platform refuses (one call in twenty of the mock does): the error is
\* logged and the consumer goes on to the next message.
PlatformFails ==
    /\ sending
    /\ sending' = FALSE
    /\ dropped' = dropped \cup {topic[pos + 1]}
    /\ pos' = pos + 1
    /\ UNCHANGED <<vars, handling, topic, duplicates, committed, platform, restarts>>

\* The broker learns the position, at some time.
CommitOffset ==
    /\ committed < pos
    /\ committed' = pos
    /\ UNCHANGED <<vars, busVars, pos, sending, platform, restarts>>

\* Mutant: fromBeginning is false.
LatestOffset == IF committed = NoOffset THEN Len(topic) ELSE committed

\* Where a consumer starts: fromBeginning is true.
StartOffset == IF committed = NoOffset THEN 0 ELSE committed

----------------------------------------------------------------------------
\* The process stops and boots again: requests end where they are, events that
\* were not sent yet are gone, the topic is read from the committed offset.
Restart ==
    /\ Mishaps < MaxMishaps
    /\ restarts' = restarts + 1
    /\ pc' = [r \in Req |-> IF pc[r] \in Unanswered THEN "error" ELSE pc[r]]
    /\ dropped' = dropped \cup {OrderOf[r] : r \in handling}
    /\ handling' = {}
    /\ sending' = FALSE
    /\ pos' = StartOffset
    /\ seenStatus' = [r \in PayReq |-> "PENDING"]
    /\ readPoints' = [r \in Req |-> 0]
    /\ UNCHANGED <<points, status, payments, deducted, charged, raced, topic,
                   committed, platform, duplicates>>

HandlerStep(r) == SendPaymentCompleted(r) \/ SendFails(r)

ConsumerStep == HandleMessage \/ SendOrderData \/ PlatformFails

DeliveryNext ==
    \/ \E r \in Req : (Execute(r) \/ CallFails(r)) /\ UNCHANGED deliveryVars
    \/ \E r \in ChargeReq : ChargeStep(r) /\ UNCHANGED deliveryVars
    \/ \E r \in PayReq : PayAndPublish(r) \/ HandlerStep(r)
    \/ ConsumerStep
    \/ CommitOffset
    \/ Restart

\* Handlers and the consumer come to an end with what they await.
DeliveryFairness ==
    /\ \A r \in PayReq : WF_allVars(HandlerStep(r))
    /\ WF_allVars(ConsumerStep)

DeliverySpec == DeliveryInit /\ [][DeliveryNext]_allVars /\ DeliveryFairness

----------------------------------------------------------------------------
(* Properties *)

\* Every variable stays in its type, those of Payment included, and the broker
\* never knows a position the consumer has not reached.
DeliveryTypeOK ==
    /\ TypeOK
    /\ handling \subseteq PayReq
    /\ topic \in Seq(Order)
    /\ pos \in 0 .. Len(topic)
    /\ committed \in NoOffset .. pos
    /\ sending => pos < Len(topic)
    /\ platform \subseteq Published
    /\ dropped \subseteq Order
    /\ {restarts, duplicates} \subseteq Nat
    /\ Mishaps <= MaxMishaps

\* What the data platform is told, and what is on its way there, is an order
\* that is PAID for good: its row was saved and its points deducted by one
\* request, however many requests raced for it or crashed.
ToldOnlyWhatIsPaid ==
    \A o \in Published \cup {OrderOf[r] : r \in handling} :
        /\ status[o] = "PAID"
        /\ \E r \in payments \cap deducted : OrderOf[r] = o

\* The data platform learns of every payment that was answered with success,
\* across restarts, unless a send, the platform itself or a restart made the
\* program give the event up.  Of an order whose payment failed at the reply
\* to its last write it never learns; such a payment was not answered.
PaidOrderIsDelivered ==
    \A r \in PayReq :
        pc[r] = "ok" ~> OrderOf[r] \in platform \cup dropped
============================================================================
