---------------------------- MODULE CouponKafka ----------------------------
(***************************************************************************)
(* Asynchronous coupon issuing: IssueCouponAsyncUseCase puts a request on  *)
(* the topic coupon-issue-request, keyed by coupon type, and               *)
(* KafkaCouponConsumerService runs CouponsService.issueCoupon for one      *)
(* message of a partition after the other and sends a response.            *)
(*                                                                         *)
(* The module composes CouponIssue with one partition of the topic.  A     *)
(* request of CouponIssue is here one delivery of a message: <<m, n>> is   *)
(* the n-th one of m.  Kafka is external: the producer may write a message *)
(* twice, the broker commits the offset of handled messages some time      *)
(* later, and after a restart or a rebalance the partition is read again   *)
(* from the committed offset.                                              *)
(*                                                                         *)
(* SaveRankingLog is left to CouponIssue: the log is written after a       *)
(* request has ended, and no step reads it.                                *)
(***************************************************************************)
EXTENDS CouponIssue, Sequences

CONSTANTS Msg,            \* requests to POST /coupons/issue-async
          MaxDeliveries,  \* bound: deliveries of one message
          MaxErrors,      \* bound: deliveries in which a call or a send fails
          MaxMishaps      \* bound: duplicates, restarts and rebalances together

ASSUME DeliveryAssumption ==
    /\ Req = Msg \X (1 .. MaxDeliveries)
    /\ \A r1, r2 \in Req :
          r1[1] = r2[1] => UserOf[r1] = UserOf[r2] /\ TypeOf[r1] = TypeOf[r2]
ASSUME BoundAssumption == {MaxErrors, MaxMishaps} \subseteq Nat

VARIABLES
    log,         \* the partition, a sequence of messages
    unsent,      \* messages not submitted yet
    offset,      \* offset of a delivery, 0 = not delivered
    current,     \* the delivery the consumer works on, or Nothing
    zombies,     \* deliveries of consumers that lost the partition
    answer,      \* what is left to do for the response of a delivery
    responses,   \* topic coupon-issue-response, as a set
    pos,         \* messages of the log the consumer has handled
    committed,   \* committed offset, NoOffset before the first commit
    skipped,     \* history: messages a consumer started behind
    unanswered,  \* history: messages whose responses were both rejected
    duplicates, rebalances

topicVars == <<log, unsent, duplicates>>
groupVars == <<pos, committed, skipped, rebalances>>
workVars == <<offset, current, zombies>>
replyVars == <<answer, responses, unanswered>>
kafkaVars == <<topicVars, groupVars, workVars, replyVars>>
allVars == <<vars, kafkaVars>>

Nothing == <<>>
NoOffset == -1

M(r) == r[1]
Running == zombies \cup (IF current = Nothing THEN {} ELSE {current})
Mishaps == duplicates + restarts + rebalances
Troubled(r) == pc[r] = "error" \/ answer[r] \in {"sendError", "erred"}
MayFail(r) == Cardinality({q \in Req \ {r} : Troubled(q)}) < MaxErrors
SoFar == {log[i] : i \in DOMAIN log}

----------------------------------------------------------------------------
KafkaInit ==
    /\ Init
    /\ log = <<>>
    /\ unsent = Msg
    /\ offset = [r \in Req |-> 0]
    /\ current = Nothing
    /\ zombies = {}
    /\ answer = [r \in Req |-> "toSend"]
    /\ responses = {}
    /\ pos = 0
    /\ committed = NoOffset
    /\ skipped = {}
    /\ unanswered = {}
    /\ duplicates = 0
    /\ rebalances = 0

----------------------------------------------------------------------------
(* IssueCouponAsyncUseCase and the producer *)

\* The send puts the message into the topic, or it is rejected before it did.
\* A retry inside the producer may write the message twice.
SendRequest(m) ==
    \/ /\ log' \in {log, Append(log, m)}
       /\ UNCHANGED duplicates
    \/ /\ Mishaps < MaxMishaps
       /\ duplicates' = duplicates + 1
       /\ log' = log \o <<m, m>>

IssueCouponAsync(m) ==
    /\ m \in unsent
    /\ unsent' = unsent \ {m}
    /\ SendRequest(m)
    /\ UNCHANGED <<vars, groupVars, workVars, replyVars>>

----------------------------------------------------------------------------
(* The consumer *)

\* eachMessage: the next message is handed to issueCoupon.
Deliver(r) ==
    /\ current = Nothing
    /\ pos < Len(log)
    /\ M(r) = log[pos + 1]
    /\ \A n \in 1 .. r[2] - 1 : pc[<<M(r), n>>] # "idle"
    /\ Execute(r)
    /\ offset' = [offset EXCEPT ![r] = pos + 1]
    /\ current' = r
    /\ UNCHANGED <<topicVars, groupVars, zombies, replyVars>>

\* Mutant: whoever finishes moves the position.
FinishAny(r) ==
    /\ answer' = [answer EXCEPT ![r] = IF @ = "toSend" THEN "sent" ELSE "erred"]
    /\ current' = IF r = current THEN Nothing ELSE current
    /\ pos' = pos + 1
    /\ zombies' = zombies \ {r}
    /\ UNCHANGED <<committed, skipped, rebalances>>

\* handleCouponIssueRequest returns: the consumer goes on to the next message.
Finish(r) ==
    /\ answer' = [answer EXCEPT ![r] = IF @ = "toSend" THEN "sent" ELSE "erred"]
    /\ current' = IF r = current THEN Nothing ELSE current
    /\ pos' = IF r = current THEN pos + 1 ELSE pos
    /\ zombies' = zombies \ {r}
    /\ UNCHANGED <<committed, skipped, rebalances>>

Response(m, success) == [msg |-> m, success |-> success]

\* Mutant: every request that ended is reported as a success.
ReportsSuccess(r) == pc[r] # "refused"

\* processCouponIssue turns every exception of issueCoupon into a failure.
Succeeded(r) == pc[r] = "ok"

SendResponse(r) ==
    /\ r \in Running
    /\ pc[r] \in Ends
    /\ answer[r] = "toSend"
    /\ responses' = responses \cup {Response(M(r), Succeeded(r))}
    /\ Finish(r)
    /\ UNCHANGED <<vars, topicVars, offset, unanswered>>

\* The send is rejected, with or without the response in the topic.
SendFails(r) ==
    /\ r \in Running
    /\ pc[r] \in Ends
    /\ answer[r] = "toSend"
    /\ MayFail(r)
    /\ responses' \in {responses, responses \cup {Response(M(r), Succeeded(r))}}
    /\ answer' = [answer EXCEPT ![r] = "sendError"]
    /\ UNCHANGED <<vars, topicVars, groupVars, workVars, unanswered>>

\* The catch block then sends a failure, whatever issueCoupon did, and
\* swallows a second rejection.
SendErrorResponse(r) ==
    /\ r \in Running
    /\ answer[r] = "sendError"
    /\ \/ /\ responses' = responses \cup {Response(M(r), FALSE)}
          /\ UNCHANGED unanswered
       \/ /\ unanswered' = unanswered \cup {M(r)}
          /\ UNCHANGED responses
    /\ Finish(r)
    /\ UNCHANGED <<vars, topicVars, offset>>

\* The broker learns the position, at some time.
CommitOffset ==
    /\ committed < pos
    /\ committed' = pos
    /\ UNCHANGED <<vars, topicVars, pos, skipped, rebalances, workVars, replyVars>>

\* Mutant: a consumer always starts behind the last message.
LatestOffset == Len(log)

\* Where a consumer starts: fromBeginning is false.
StartOffset == IF committed = NoOffset THEN Len(log) ELSE committed

\* A consumer takes the partition over.  Without a committed offset whatever
\* is in the log is passed over.
TakeOver ==
    /\ Mishaps < MaxMishaps
    /\ current' = Nothing
    /\ pos' = StartOffset
    /\ skipped' = IF committed = NoOffset THEN skipped \cup SoFar ELSE skipped
    /\ UNCHANGED committed

\* The partition moves to another consumer while this one is busy: it goes on
\* with what it has begun.
Rebalance ==
    /\ rebalances' = rebalances + 1
    /\ zombies' = Running
    /\ TakeOver
    /\ UNCHANGED <<vars, topicVars, offset, replyVars>>

----------------------------------------------------------------------------
(* CouponIssue under the consumer *)

RestartService ==
    /\ Restart
    /\ zombies' = {}
    /\ TakeOver
    /\ UNCHANGED <<topicVars, offset, replyVars, rebalances>>

Process(r) == r \in Running /\ IssueStep(r) /\ UNCHANGED kafkaVars

ProcessFails(r) ==
    /\ MayFail(r)
    /\ CallFails(r)
    /\ UNCHANGED kafkaVars

KafkaNext ==
    \/ \E m \in Msg : IssueCouponAsync(m)
    \/ \E r \in Req : \/ Deliver(r) \/ Process(r) \/ ProcessFails(r)
                      \/ SendResponse(r) \/ SendFails(r) \/ SendErrorResponse(r)
    \/ CommitOffset
    \/ Rebalance
    \/ RestartService
    \/ \E t \in Type : IssuanceEnds(t) /\ UNCHANGED kafkaVars

\* What the consumer that holds the partition does next.
ConsumerStep ==
    \/ \E r \in Req : Deliver(r)
    \/ /\ current # Nothing
       /\ Process(current) \/ SendResponse(current) \/ SendErrorResponse(current)

\* The consumer keeps polling, and its awaits end.
KafkaFairness == WF_allVars(ConsumerStep)

KafkaSpec == KafkaInit /\ [][KafkaNext]_allVars /\ KafkaFairness

----------------------------------------------------------------------------
(* Properties *)

\* Every variable stays in its type; the consumer is never ahead of the log
\* nor the broker ahead of a consumer that has not been replaced.
KafkaTypeOK ==
    /\ TypeOK
    /\ log \in Seq(Msg)
    /\ current \in Req \cup {Nothing}
    /\ zombies \in SUBSET (Req \ {current})
    /\ answer \in [Req -> {"toSend", "sendError", "sent", "erred"}]
    /\ responses \in SUBSET [msg : Msg, success : BOOLEAN]
    /\ pos \in 0 .. Len(log)
    /\ committed \in NoOffset .. pos
    /\ skipped \cup unanswered \subseteq SoFar

\* A user who holds a unit is never let at the stock again, so he cannot get a
\* second coupon: requests of a partition are served one after the other, and
\* when a message is duplicated, or delivered again after a crash in the middle
\* of issuing, the queue entry of the first delivery and later coupon:issued
\* stand in the way.  (A rebalance breaks it: two consumers may then work on
\* the same message.)
HolderNeverTriesAgain ==
    rebalances = 0 =>
        \A r1, r2 \in Req :
            (/\ unit[r1] = "taken" /\ unit[r2] # "none"
             /\ U(r1) = U(r2) /\ T(r1) = T(r2))
            => r1 = r2

\* Coupons go to the requests that came first: nobody is told sold out while
\* a request behind his in the partition got a unit, unless a failed call cost
\* him his turn and he was told so only when a restart delivered his message
\* again.
FirstComeFirstServed ==
    rebalances = 0 =>
        \A r1, r2 \in Req :
            (/\ unit[r1] = "taken" /\ pc[r2] = "soldOut" /\ T(r1) = T(r2)
             /\ offset[r2] < offset[r1])
            => \E q \in Req : offset[q] = offset[r2] /\ pc[q] = "error"

\* A response that says success is backed by a coupon row of that request and
\* a unit of stock, whatever was redelivered.
SuccessIsBacked ==
    \A a \in responses : a.success =>
        \E r \in coupons : M(r) = a.msg /\ unit[r] = "taken"

\* Every request in the topic is answered, across restarts and rebalances,
\* unless a consumer without committed offset started behind it or both sends
\* of its response were rejected.
EveryRequestAnswered ==
    \A m \in Msg :
        m \in SoFar ~> \/ \E a \in responses : a.msg = m
                       \/ m \in skipped \cup unanswered
============================================================================
