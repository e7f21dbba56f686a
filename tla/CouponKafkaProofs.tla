------------------------- MODULE CouponKafkaProofs -------------------------
(***************************************************************************)
(* Theorems about CouponKafka, for every set of messages, users and types, *)
(* any number of deliveries, failing calls, duplicates, restarts and       *)
(* rebalances.                                                             *)
(***************************************************************************)
EXTENDS CouponKafka, CouponIssueProofs, SequenceTheorems

----------------------------------------------------------------------------
(* Issuing over Kafka is issuing: deliveries are requests, and every step    *)
(* of the consumer is a step of CouponIssue or leaves its state alone.       *)

LEMMA KafkaStepIssues == [KafkaNext]_allVars => [Next]_vars
  BY DEF KafkaNext, allVars, vars, Next, IssueCouponAsync, Deliver, Process, ProcessFails,
         SendResponse, SendFails, SendErrorResponse, CommitOffset, Rebalance,
         RestartService

\* Whatever is proved of CouponIssue holds of it under the consumer.
THEOREM KafkaImplementsIssue == KafkaSpec => Spec
<1>1. KafkaInit => Init
  BY DEF KafkaInit
<1> QED
  BY <1>1, KafkaStepIssues, PTL DEF KafkaSpec, Spec

\* However messages are duplicated and delivered again, no more coupons of a
\* type are saved than its stock.
THEOREM KafkaNeverOversold ==
    ASSUME ~Development
    PROVE  KafkaSpec => []NoOversell
<1> QED
  BY KafkaImplementsIssue, NeverOversold, PTL

\* Behind the topic, too, a unit is granted or refused in one step: duplicates,
\* redeliveries and restarts are requests of the same abstract quota.
THEOREM KafkaImplementsQuota ==
    ASSUME ~Development
    PROVE  KafkaSpec => ImplementsQuota
  BY KafkaImplementsIssue, IssueImplementsQuota, PTL

----------------------------------------------------------------------------
(* Types and the place of the consumer. *)

\* What KafkaTypeOK leaves open: a consumer works on messages of the log that
\* it has begun, and is not behind it.
Consuming ==
    /\ \A r \in Running : r \in Req /\ M(r) \in SoFar /\ pc[r] # "idle"
    /\ current # Nothing => pos < Len(log)
    /\ \A r \in Req : answer[r] = "sendError" => pc[r] \in Ends
    /\ rebalances \in Nat

KInv == KafkaTypeOK /\ Consuming

LEMMA Deliveries == \A r \in Req : r # Nothing /\ M(r) \in Msg
  BY DeliveryAssumption DEF Nothing, M

LEMMA InitKafka == KafkaInit => KInv
<1> SUFFICES ASSUME KafkaInit PROVE KInv
  OBVIOUS
<1>1. TypeOK
  BY InitType DEF KafkaInit
<1>2. log = <<>> /\ Len(log) = 0
  BY DEF KafkaInit
<1> QED
  BY <1>1, <1>2 DEF KafkaInit, KInv, KafkaTypeOK, Consuming, Running, NoOffset

\* The log only grows.
Grows == log' \in Seq(Msg) /\ Len(log') >= Len(log) /\ SoFar \subseteq SoFar'

LEMMA LogGrows ==
    ASSUME log \in Seq(Msg), NEW m \in Msg, SendRequest(m)
    PROVE  Grows
<1>1. CASE log' = log
  BY <1>1 DEF Grows, SoFar
<1>2. CASE log' = Append(log, m)
  <2>1. /\ log' \in Seq(Msg) /\ Len(log') = Len(log) + 1
        /\ \A i \in 1 .. Len(log) : log'[i] = log[i]
    BY <1>2
  <2> QED
    BY <2>1 DEF Grows, SoFar
<1>3. CASE log' = log \o <<m, m>>
  <2>1. <<m, m>> \in Seq(Msg) /\ Len(<<m, m>>) = 2
    OBVIOUS
  <2>2. /\ log' \in Seq(Msg) /\ Len(log') = Len(log) + 2
        /\ \A i \in 1 .. Len(log) : log'[i] = log[i]
    BY <1>3, <2>1
  <2> QED
    BY <2>2 DEF Grows, SoFar
<1> QED
  BY <1>1, <1>2, <1>3 DEF SendRequest

\* A request that was begun stays begun, and one that ended stays as it ended.
LEMMA PcMoves ==
    ASSUME TypeOK, [Next]_vars, NEW r \in Req
    PROVE  /\ pc[r] # "idle" => pc'[r] # "idle"
           /\ pc[r] \in Ends => pc'[r] = pc[r]
<1> USE DEF TypeOK, Goto, Ends, Calls, vars, redisVars, dbVars, timeVars, reqVars
<1>1. ASSUME NEW q \in Req, Execute(q) \/ SaveRankingLog(q) \/ CallFails(q)
      PROVE  pc[r] # "idle" => pc'[r] # "idle" /\ (pc[r] \in Ends => pc'[r] = pc[r])
  BY <1>1 DEF Execute, SaveRankingLog, CallFails
<1>2. ASSUME NEW q \in Req, IssueStep(q)
      PROVE  pc[r] # "idle" => pc'[r] # "idle" /\ (pc[r] \in Ends => pc'[r] = pc[r])
  BY <1>2 DEF IssueStep, CheckIssued, CheckQueue, CheckEndtime, RecordUser, ReadRank,
     DecrStock, RemoveShort, IncrStock, SaveCoupon, AddIssued, AddRank, RemoveQueued
<1>3. CASE Restart
  BY <1>3 DEF Restart
<1>4. ASSUME NEW t \in Type, IssuanceEnds(t)
      PROVE  pc' = pc
  BY <1>4 DEF IssuanceEnds
<1> QED
  BY <1>1, <1>2, <1>3, <1>4 DEF Next

\* The consumer finishes a delivery.
LEMMA Finishing ==
    ASSUME KInv, NEW r \in Req, r \in Running, Finish(r), pc' = pc, pc[r] \in Ends,
           UNCHANGED <<log, rebalances>>, UNCHANGED vars,
           responses' \in SUBSET [msg : Msg, success : BOOLEAN],
           unanswered' \subseteq unanswered \cup {M(r)}
    PROVE  KInv'
<1> USE DEF KInv, KafkaTypeOK, Consuming
<1>1. TypeOK' /\ SoFar' = SoFar /\ M(r) \in SoFar /\ r # Nothing
  BY Deliveries DEF TypeOK, vars, SoFar
<1>2. /\ Running' \subseteq Running \ {r}
      /\ current' \in Req \cup {Nothing} /\ zombies' \in SUBSET (Req \ {current'})
      /\ current' # Nothing => current' = current /\ pos' = pos
  BY <1>1, Deliveries DEF Finish, Running
<1>3. pos \in Nat /\ Len(log) \in Nat /\ committed \in Int
  BY DEF NoOffset
<1>4. pos' \in pos .. Len(log) /\ (current' # Nothing => pos' < Len(log))
  BY <1>1, <1>2, <1>3 DEF Finish
<1>5. committed' \in NoOffset .. pos'
  BY <1>3, <1>4 DEF Finish, NoOffset
<1>6. answer' \in [Req -> {"toSend", "sendError", "sent", "erred"}]
      /\ \A q \in Req : answer'[q] = "sendError" => answer[q] = "sendError"
  BY DEF Finish
<1>7. skipped' \cup unanswered' \subseteq SoFar
  BY <1>1 DEF Finish
<1>8. KafkaTypeOK'
  BY <1>1, <1>2, <1>3, <1>4, <1>5, <1>6, <1>7
<1>9. Consuming'
  BY <1>1, <1>2, <1>3, <1>4, <1>6
<1> QED
  BY <1>8, <1>9

LEMMA NextKafka == KInv /\ [KafkaNext]_allVars => KInv'
<1> SUFFICES ASSUME KInv, [KafkaNext]_allVars PROVE KInv'
  OBVIOUS
<1>a. [Next]_vars /\ TypeOK'
  BY KafkaStepIssues, NextType DEF KInv, KafkaTypeOK
<1>b. \A r \in Req : /\ pc[r] # "idle" => pc'[r] # "idle"
                     /\ pc[r] \in Ends => pc'[r] = pc[r]
  BY <1>a, PcMoves DEF KInv, KafkaTypeOK
<1>c. pos \in Nat /\ Len(log) \in Nat /\ committed \in Int /\ pos <= Len(log)
  BY DEF KInv, KafkaTypeOK, NoOffset
<1> USE DEF KInv, KafkaTypeOK, Consuming
<1>1. ASSUME NEW m \in Msg, IssueCouponAsync(m) PROVE KInv'
  <2>1. Grows
    BY <1>1, LogGrows DEF IssueCouponAsync
  <2>2. UNCHANGED <<pc, groupVars, workVars, replyVars>>
    BY <1>1 DEF IssueCouponAsync, vars
  <2>3. Running' = Running /\ Len(log') \in Nat
    BY <2>1, <2>2 DEF Running, workVars, Grows
  <2>4. KafkaTypeOK'
    BY <1>a, <1>c, <2>1, <2>2, <2>3 DEF Grows, groupVars, workVars, replyVars
  <2>5. Consuming'
    BY <1>c, <2>1, <2>2, <2>3 DEF Grows, groupVars, workVars, replyVars
  <2> QED
    BY <2>4, <2>5
<1>2. ASSUME NEW r \in Req, Deliver(r) PROVE KInv'
  <2>1. /\ current = Nothing /\ pos < Len(log) /\ M(r) = log[pos + 1] /\ pc[r] = "idle"
        /\ current' = r /\ pc' = [pc EXCEPT ![r] = "zscoreIssued"]
        /\ UNCHANGED <<log, pos, committed, skipped, rebalances, zombies, answer,
                       responses, unanswered>>
    BY <1>2 DEF Deliver, Execute, Goto, topicVars, groupVars, replyVars
  <2>2. r \notin Running /\ r # Nothing /\ Running' = Running \cup {r}
    BY <2>1, Deliveries DEF Running
  <2>3. M(r) \in SoFar /\ SoFar' = SoFar
    BY <1>c, <2>1 DEF SoFar
  <2>4. pc[r] \notin Ends /\ pc'[r] # "idle"
    BY <2>1 DEF Ends, TypeOK
  <2>5. KafkaTypeOK'
    BY <1>a, <2>1, <2>2, <2>3 DEF Running
  <2>6. Consuming'
    BY <1>b, <2>1, <2>2, <2>3, <2>4
  <2> QED
    BY <2>5, <2>6
<1>3. ASSUME UNCHANGED kafkaVars PROVE KInv'
  <2>1. Running' = Running /\ SoFar' = SoFar
    BY <1>3 DEF Running, SoFar, kafkaVars, workVars, topicVars
  <2>2. KafkaTypeOK'
    BY <1>a, <1>3, <2>1 DEF kafkaVars, topicVars, groupVars, workVars, replyVars
  <2>3. Consuming'
    BY <1>b, <1>3, <2>1 DEF kafkaVars, topicVars, groupVars, workVars, replyVars
  <2> QED
    BY <2>2, <2>3
<1>4. ASSUME NEW r \in Req, SendResponse(r) PROVE KInv'
  <2>1. Response(M(r), Succeeded(r)) \in [msg : Msg, success : BOOLEAN]
    BY Deliveries DEF Response, Succeeded
  <2> QED
    BY <1>4, <2>1, Finishing DEF SendResponse, vars, topicVars, Finish
<1>5. ASSUME NEW r \in Req, SendFails(r) PROVE KInv'
  <2>1. Response(M(r), Succeeded(r)) \in [msg : Msg, success : BOOLEAN]
    BY Deliveries DEF Response, Succeeded
  <2>2. /\ responses' \in SUBSET [msg : Msg, success : BOOLEAN]
        /\ answer' = [answer EXCEPT ![r] = "sendError"] /\ pc[r] \in Ends
        /\ UNCHANGED <<log, pos, committed, skipped, rebalances, current, zombies,
                       unanswered>>
    BY <1>5, <2>1 DEF SendFails, topicVars, groupVars, workVars
  <2>3. Running' = Running /\ SoFar' = SoFar
    BY <2>2 DEF Running, SoFar
  <2>4. KafkaTypeOK'
    BY <1>a, <2>2, <2>3
  <2>5. Consuming'
    BY <1>b, <2>2, <2>3
  <2> QED
    BY <2>4, <2>5
<1>6. ASSUME NEW r \in Req, SendErrorResponse(r) PROVE KInv'
  <2>1. Response(M(r), FALSE) \in [msg : Msg, success : BOOLEAN]
    BY Deliveries DEF Response
  <2>2. pc[r] \in Ends
    BY <1>6 DEF SendErrorResponse
  <2> QED
    BY <1>6, <2>1, <2>2, Finishing DEF SendErrorResponse, vars, topicVars, Finish
<1>7. CASE CommitOffset
  <2>1. /\ committed' = pos
        /\ UNCHANGED <<log, pos, skipped, rebalances, current, zombies, answer,
                       responses, unanswered>>
    BY <1>7 DEF CommitOffset, topicVars, workVars, replyVars
  <2>2. Running' = Running /\ SoFar' = SoFar
    BY <2>1 DEF Running, SoFar
  <2>3. committed' \in NoOffset .. pos'
    BY <1>c, <2>1 DEF NoOffset
  <2>4. KafkaTypeOK'
    BY <1>a, <2>1, <2>2, <2>3
  <2>5. Consuming'
    BY <1>b, <2>1, <2>2
  <2> QED
    BY <2>4, <2>5
<1>8. ASSUME TakeOver, zombies' \subseteq Running, log' = log,
             rebalances' \in {rebalances, rebalances + 1}, UNCHANGED replyVars
      PROVE  KInv'
  <2>1. /\ current' = Nothing /\ pos' = StartOffset /\ committed' = committed
        /\ skipped' \subseteq skipped \cup SoFar /\ SoFar' = SoFar
        /\ UNCHANGED <<answer, responses, unanswered>>
    BY <1>8 DEF TakeOver, replyVars, SoFar
  <2>2. Running' \subseteq Running
    BY <1>8, <2>1 DEF Running
  <2>3. pos' \in 0 .. Len(log) /\ committed' \in NoOffset .. pos'
    BY <1>c, <2>1 DEF StartOffset, NoOffset
  <2>4. zombies' \in SUBSET (Req \ {current'})
    BY <1>8, <2>1, Deliveries
  <2>5. KafkaTypeOK'
    BY <1>a, <1>8, <2>1, <2>3, <2>4
  <2>6. Consuming'
    BY <1>b, <1>8, <2>1, <2>2
  <2> QED
    BY <2>5, <2>6
<1>9. CASE Rebalance
  BY <1>8, <1>9 DEF Rebalance, topicVars
<1>10. CASE RestartService
  BY <1>8, <1>10 DEF RestartService, topicVars
<1>11. CASE UNCHANGED allVars
  BY <1>3, <1>11 DEF allVars
<1> QED
  BY <1>1, <1>2, <1>3, <1>4, <1>5, <1>6, <1>7, <1>9, <1>10, <1>11
     DEF KafkaNext, Process, ProcessFails

LEMMA KafkaInvariant == KafkaSpec => []KInv
  BY InitKafka, NextKafka, PTL DEF KafkaSpec

\* Every reachable state is well typed: in particular no consumer is ahead of
\* the log, nor the broker ahead of the consumer, whatever is committed late,
\* taken over or read again.
THEOREM KafkaTypeCorrect == KafkaSpec => []KafkaTypeOK
  BY KafkaInvariant, PTL DEF KInv

----------------------------------------------------------------------------
(* Truthful answers.  A success is reported of the place a delivery ended    *)
(* at, so what counts is what that place says of its coupon and its unit.   *)

AInv == KInv /\ UnitMatchesPc /\ CouponMatchesPc /\ SuccessIsBacked

\* A coupon is never taken back, nor the unit of a delivery that has a coupon.
LEMMA CouponsKept ==
    ASSUME TypeOK, UnitMatchesPc, [Next]_vars
    PROVE  \A r \in coupons : r \in coupons' /\ unit'[r] = unit[r]
<1> USE DEF TypeOK, UnitMatchesPc, Goto, vars, redisVars, dbVars, timeVars, reqVars
<1>1. coupons \subseteq coupons'
  BY DEF Next, IssueStep, Execute, SaveRankingLog, CallFails, CheckIssued, CheckQueue,
     CheckEndtime, RecordUser, ReadRank, DecrStock, RemoveShort, IncrStock, SaveCoupon,
     AddIssued, AddRank, RemoveQueued, Restart, IssuanceEnds
<1>2. \/ unit' = unit
      \/ \E q \in Req : DecrStock(q) \/ IncrStock(q)
  BY DEF Next, IssueStep, Execute, SaveRankingLog, CallFails, CheckIssued, CheckQueue,
     CheckEndtime, RecordUser, ReadRank, RemoveShort, SaveCoupon,
     AddIssued, AddRank, RemoveQueued, Restart, IssuanceEnds
<1>3. ASSUME NEW q \in Req, DecrStock(q) \/ IncrStock(q)
      PROVE  \A r \in coupons : unit'[r] = unit[r]
  <2>1. unit[q] \in {"none", "short"} /\ q \notin coupons
    BY <1>3 DEF DecrStock, IncrStock
  <2>2. \A r \in Req \ {q} : unit'[r] = unit[r]
    BY <1>3 DEF DecrStock, IncrStock
  <2> QED
    BY <2>1, <2>2
<1> QED
  BY <1>1, <1>2, <1>3

LEMMA NextAnswers == AInv /\ [KafkaNext]_allVars => AInv'
<1> SUFFICES ASSUME AInv, [KafkaNext]_allVars PROVE AInv'
  OBVIOUS
<1>1. KInv' /\ TypeOK /\ [Next]_vars
  BY NextKafka, KafkaStepIssues DEF AInv, KInv, KafkaTypeOK
<1>2. UnitMatchesPc' /\ CouponMatchesPc'
  BY <1>1, UnitMatchesPcStep, CouponMatchesPcStep DEF AInv
<1>3. \A r \in coupons : r \in coupons' /\ unit'[r] = unit[r]
  BY <1>1, CouponsKept DEF AInv
<1>4. ASSUME NEW a \in responses', a.success, a \notin responses
      PROVE  \E r \in coupons : M(r) = a.msg /\ unit[r] = "taken"
  <2>1. PICK r \in Req : /\ SendResponse(r) \/ SendFails(r)
                         /\ a = Response(M(r), Succeeded(r))
    BY <1>4 DEF KafkaNext, allVars, kafkaVars, replyVars, Response, IssueCouponAsync, Deliver,
       Process, ProcessFails, SendResponse, SendFails, SendErrorResponse, CommitOffset,
       Rebalance, RestartService
  <2>2. pc[r] = "ok" /\ a.msg = M(r)
    BY <1>4, <2>1 DEF Response, Succeeded
  <2>3. r \in coupons /\ unit[r] = "taken"
    BY <2>2 DEF AInv, CouponMatchesPc, UnitMatchesPc
  <2> QED
    BY <2>2, <2>3
<1>5. SuccessIsBacked'
  BY <1>3, <1>4 DEF AInv, SuccessIsBacked
<1> QED
  BY <1>1, <1>2, <1>5 DEF AInv

\* A response that says success is true for good, whatever is delivered again,
\* fails or restarts before or after it.
THEOREM SuccessBacked == KafkaSpec => []SuccessIsBacked
<1>1. KafkaInit => AInv
  BY InitKafka
     DEF AInv, UnitMatchesPc, CouponMatchesPc, SuccessIsBacked, KafkaInit, Init
<1>2. AInv => SuccessIsBacked
  BY DEF AInv
<1> QED
  BY <1>1, <1>2, NextAnswers, PTL DEF KafkaSpec

----------------------------------------------------------------------------
(* Without a rebalance.                                                    *)
(*                                                                         *)
(* A consumer works on one delivery at a time (ServedAlone), so between    *)
(* the checks and the DECR of a delivery no other one moves: what the      *)
(* checks found still holds at the DECR.  What they find is right because  *)
(* a unit leaves a trace in coupon:queue or coupon:issued (Guarded): the   *)
(* only ZREM before coupon:issued is written is that of a delivery without *)
(* a unit, and by the property itself nobody with the same user and type   *)
(* has one.  The converse, that a loser's second delivery gets no unit     *)
(* either, is SoldOutOnlyWhenAllTaken: the counter is then not positive.   *)

Same(r1, r2) == U(r1) = U(r2) /\ T(r1) = T(r2)
Waiting(r) == queue[T(r)][U(r)] > 0
Holding(r) == U(r) \in issued[T(r)]

ServedAlone ==
    /\ zombies = {}
    /\ \A r \in Req : pc[r] \in Calls => r = current

Guarded ==
    \A r \in Req :
        /\ unit[r] = "taken" => Holding(r) \/ Waiting(r)
        /\ pc[r] = "zscoreQueue" => ~Holding(r)
        /\ pc[r] \in {"getEndtime", "zaddQueue", "zrank", "decr"} =>
              \A q \in Req : Same(q, r) => unit[q] # "taken"
        /\ pc[r] \in {"zrank", "decr", "save", "zaddIssued"} => Waiting(r)
        /\ pc[r] \in {"zaddRank", "zremQueue"} => Holding(r)

\* The body of HolderNeverTriesAgain.
TriesOnce ==
    \A r1, r2 \in Req :
        unit[r1] = "taken" /\ unit[r2] # "none" /\ Same(r1, r2) => r1 = r2

HInv ==
    /\ IInv
    /\ KInv
    /\ rebalances = 0 => ServedAlone /\ Guarded /\ TriesOnce

\* What the rest of this section assumes of a step of CouponIssue.
Alone == \A r1, r2 \in Req : pc[r1] \in Calls /\ pc[r2] \in Calls => r1 = r2

LEMMA SameTrace ==
    ASSUME NEW r1, NEW r2, Same(r1, r2)
    PROVE  (Waiting(r1) <=> Waiting(r2)) /\ (Holding(r1) <=> Holding(r2))
  BY DEF Same, Waiting, Holding

\* A step that changes neither units nor traces, and takes a request only
\* where Guarded allows it.
LEMMA OnlyPcMoves ==
    ASSUME Guarded, TriesOnce, UNCHANGED <<unit, queue, issued>>, NEW r \in Req,
           \A q \in Req \ {r} : pc'[q] = pc[q],
           pc'[r] = "zscoreQueue" => ~Holding(r),
           pc'[r] \in {"getEndtime", "zaddQueue", "zrank", "decr"} =>
              \A q \in Req : Same(q, r) => unit[q] # "taken",
           pc'[r] \in {"zrank", "decr", "save", "zaddIssued"} => Waiting(r),
           pc'[r] \in {"zaddRank", "zremQueue"} => Holding(r)
    PROVE  Guarded' /\ TriesOnce'
<1>1. \A q : (Waiting(q)' <=> Waiting(q)) /\ (Holding(q)' <=> Holding(q))
  BY DEF Waiting, Holding, T, U
<1>2. \A q1, q2 : Same(q1, q2)' <=> Same(q1, q2)
  BY DEF Same, T, U
<1> QED
  BY <1>1, <1>2 DEF Guarded, TriesOnce

\* A ZADD to the queue or to coupon:issued, a ZREM: the trace of one user.
LEMMA TraceOf ==
    ASSUME TypeOK, NEW r \in Req, NEW n \in Nat
    PROVE  /\ queue' = [queue EXCEPT ![T(r)][U(r)] = n] =>
                \A q \in Req : /\ Same(q, r) => (Waiting(q)' <=> n > 0)
                               /\ ~Same(q, r) => (Waiting(q)' <=> Waiting(q))
           /\ issued' = [issued EXCEPT ![T(r)] = @ \cup {U(r)}] =>
                \A q \in Req : /\ Same(q, r) => Holding(q)'
                               /\ ~Same(q, r) => (Holding(q)' <=> Holding(q))
<1> USE OfAssumption DEF TypeOK, T, U
<1>1. ASSUME queue' = [queue EXCEPT ![T(r)][U(r)] = n], NEW q \in Req
      PROVE  /\ Same(q, r) => (Waiting(q)' <=> n > 0)
             /\ ~Same(q, r) => (Waiting(q)' <=> Waiting(q))
  <2>1. queue'[T(r)][U(r)] = n
    BY <1>1
  <2>2. CASE T(q) = T(r)
    BY <1>1, <2>1, <2>2 DEF Same, Waiting
  <2>3. CASE T(q) # T(r)
    BY <1>1, <2>3 DEF Same, Waiting
  <2> QED
    BY <2>2, <2>3
<1>2. ASSUME issued' = [issued EXCEPT ![T(r)] = @ \cup {U(r)}], NEW q \in Req
      PROVE  /\ Same(q, r) => Holding(q)'
             /\ ~Same(q, r) => (Holding(q)' <=> Holding(q))
  BY <1>2 DEF Same, Holding
<1> QED
  BY <1>1, <1>2

\* After a loser of its type no DECR finds a unit.
LEMMA NoUnitAfterLoser ==
    ASSUME IInv, NEW r \in Req, DecrStock(r), ~SoldOut(stock[T(r)] - 1),
           NEW q \in Req, unit[q] \in {"short", "returned"}, T(q) = T(r)
    PROVE  FALSE
<1>1. T(r) \in Type /\ stock[T(r)] \in Int
  BY OfAssumption DEF IInv, TypeOK, T
<1>2. Cardinality(Taken(T(r))) = InitStock[T(r)]
  BY DEF IInv, SoldOutOnlyWhenAllTaken
<1>3. stock[T(r)] = InitStock[T(r)] - Cardinality(Taken(T(r)))
                                    - Cardinality(Short(T(r)))
  BY <1>1 DEF IInv, StockAccounting
<1>4. /\ Cardinality(Taken(T(r))) \in Nat /\ Cardinality(Short(T(r))) \in Nat
      /\ InitStock[T(r)] \in Nat
  BY <1>1, HoldersFinite, StockAssumption
<1>5. stock[T(r)] <= 0
  BY <1>2, <1>3, <1>4
<1> QED
  BY <1>1, <1>5 DEF SoldOut

\* The DECR: nobody of the same user and type has a unit, and if one of them
\* was turned away there is none left.
LEMMA DecrOnce ==
    ASSUME IInv, Guarded, TriesOnce, NEW r \in Req, DecrStock(r)
    PROVE  TriesOnce'
<1>1. /\ T(r) \in Type /\ unit \in [Req -> Units] /\ stock[T(r)] \in Int
      /\ unit[r] = "none" /\ pc[r] = "decr"
  BY OfAssumption DEF IInv, TypeOK, UnitMatchesPc, DecrStock, T
<1>2. \A q \in Req : Same(q, r) => unit[q] # "taken"
  BY <1>1 DEF Guarded
<1>3. \A q1, q2 : Same(q1, q2)' <=> Same(q1, q2)
  BY DEF Same, T, U
<1>4. CASE SoldOut(stock[T(r)] - 1)
  <2>1. unit' = [unit EXCEPT ![r] = "short"]
    BY <1>4 DEF DecrStock
  <2> QED
    BY <1>1, <1>2, <1>3, <2>1 DEF TriesOnce
<1>5. CASE ~SoldOut(stock[T(r)] - 1)
  <2>1. unit' = [unit EXCEPT ![r] = "taken"]
    BY <1>5 DEF DecrStock
  <2>2. ASSUME NEW q \in Req, Same(q, r), unit[q] # "none" PROVE FALSE
    <3>1. unit[q] \in {"short", "returned"} /\ T(q) = T(r)
      BY <1>1, <1>2, <2>2 DEF Units, Same
    <3> QED
      BY <1>5, <3>1, NoUnitAfterLoser
  <2>3. \A q \in Req : Same(r, q) => Same(q, r)
    BY DEF Same
  <2> QED
    BY <1>1, <1>2, <1>3, <2>1, <2>2, <2>3 DEF TriesOnce
<1> QED
  BY <1>4, <1>5

LEMMA GuardedStep ==
    ASSUME IInv, Guarded, TriesOnce, Alone, [Next]_vars
    PROVE  Guarded' /\ TriesOnce'
<1>1. /\ TypeOK /\ UnitMatchesPc /\ \A r \in Req : Same(r, r)
      /\ \A q1, q2 : Same(q1, q2)' <=> Same(q1, q2)
      /\ \A q1, q2 : Same(q1, q2) => Same(q2, q1)
  BY DEF IInv, Same, T, U
<1> USE DEF Goto, redisVars, dbVars, timeVars, reqVars
<1>2. ASSUME NEW r \in Req, Execute(r) \/ CheckIssued(r) \/ CheckQueue(r) \/ CheckEndtime(r)
                             \/ ReadRank(r) \/ SaveCoupon(r) \/ AddRank(r)
                             \/ CallFails(r) \/ SaveRankingLog(r)
      PROVE  Guarded' /\ TriesOnce'
  <2>1. /\ UNCHANGED <<unit, queue, issued>>
        /\ \A q \in Req \ {r} : pc'[q] = pc[q]
        /\ \/ pc'[r] = pc[r]
           \/ pc'[r] \in {"zscoreIssued", "refused", "error"}
           \/ pc[r] = "zscoreIssued" /\ pc'[r] = "zscoreQueue" /\ ~Holding(r)
           \/ pc[r] = "zscoreQueue" /\ pc'[r] = "getEndtime" /\ ~(queue[T(r)][U(r)] > 0)
           \/ pc[r] = "getEndtime" /\ pc'[r] = "zaddQueue"
           \/ pc[r] = "zrank" /\ pc'[r] = "decr"
           \/ pc[r] = "save" /\ pc'[r] = "zaddIssued"
           \/ pc[r] = "zaddRank" /\ pc'[r] = "zremQueue"
    BY <1>1, <1>2 DEF TypeOK, Execute, CheckIssued, CheckQueue, CheckEndtime, ReadRank,
       SaveCoupon, AddRank, CallFails, SaveRankingLog, Holding
  <2>2. pc[r] = "zscoreQueue" /\ pc'[r] = "getEndtime" =>
           \A q \in Req : Same(q, r) => unit[q] # "taken"
    BY <2>1, SameTrace DEF Guarded, Waiting
  <2> QED
    BY <2>1, <2>2, OnlyPcMoves DEF Guarded
<1>3. ASSUME NEW r \in Req, RecordUser(r) PROVE Guarded' /\ TriesOnce'
  <2>1. /\ queue' = [queue EXCEPT ![T(r)][U(r)] = stamp[r]]
        /\ stamp[r] \in Nat /\ stamp[r] > 0
        /\ pc[r] = "zaddQueue" /\ pc'[r] = "zrank" /\ UNCHANGED <<unit, issued>>
        /\ \A q \in Req \ {r} : pc'[q] = pc[q]
    BY <1>1, <1>3 DEF RecordUser, TypeOK
  <2>2. \A q \in Req : /\ Same(q, r) => Waiting(q)'
                       /\ ~Same(q, r) => (Waiting(q)' <=> Waiting(q))
    BY <1>1, <2>1, TraceOf
  <2>3. \A q : Holding(q)' <=> Holding(q)
    BY <2>1 DEF Holding, T, U
  <2> QED
    BY <1>1, <2>1, <2>2, <2>3 DEF Guarded, TriesOnce
<1>4. ASSUME NEW r \in Req, DecrStock(r) PROVE Guarded' /\ TriesOnce'
  <2>1. /\ pc[r] = "decr" /\ UNCHANGED <<queue, issued>>
        /\ \A q \in Req \ {r} : pc'[q] = pc[q] /\ unit'[q] = unit[q]
        /\ pc'[r] \in {"zremShort", "save"}
    BY <1>1, <1>4 DEF DecrStock, TypeOK
  <2>2. \A q : (Waiting(q)' <=> Waiting(q)) /\ (Holding(q)' <=> Holding(q))
    BY <2>1 DEF Waiting, Holding, T, U
  <2>3. Waiting(r)
    BY <2>1 DEF Guarded
  <2>4. \A q \in Req \ {r} : pc[q] \notin Calls
    BY <2>1 DEF Alone, Calls
  <2>5. Guarded'
    BY <2>1, <2>2, <2>3, <2>4 DEF Guarded, Calls
  <2> QED
    BY <2>5, <1>4, DecrOnce
<1>5. ASSUME NEW r \in Req, RemoveShort(r) \/ RemoveQueued(r)
      PROVE  Guarded' /\ TriesOnce'
  <2>1. /\ queue' = [queue EXCEPT ![T(r)][U(r)] = 0] /\ UNCHANGED <<unit, issued>>
        /\ pc[r] \in {"zremShort", "zremQueue"} /\ pc'[r] \in {"incr", "ok"}
        /\ \A q \in Req \ {r} : pc'[q] = pc[q]
    BY <1>1, <1>5 DEF RemoveShort, RemoveQueued, Zrem, TypeOK
  <2>2. \A q \in Req : ~Same(q, r) => (Waiting(q)' <=> Waiting(q))
    BY <1>1, <2>1, TraceOf
  <2>3. \A q : Holding(q)' <=> Holding(q)
    BY <2>1 DEF Holding, T, U
  <2>4. \A q \in Req : Same(q, r) /\ unit[q] = "taken" => Holding(q)
    <3>1. CASE pc[r] = "zremQueue"
      BY <3>1, SameTrace DEF Guarded
    <3>2. CASE pc[r] = "zremShort"
      BY <1>1, <3>2 DEF UnitMatchesPc, TriesOnce
    <3> QED
      BY <2>1, <3>1, <3>2
  <2>5. \A q \in Req \ {r} : pc[q] \notin Calls
    BY <2>1 DEF Alone, Calls
  <2> QED
    BY <1>1, <2>1, <2>2, <2>3, <2>4, <2>5 DEF Guarded, TriesOnce, Calls
<1>6. ASSUME NEW r \in Req, IncrStock(r) PROVE Guarded' /\ TriesOnce'
  <2>1. /\ unit[r] = "short" /\ unit'[r] = "returned" /\ UNCHANGED <<queue, issued>>
        /\ pc'[r] = "soldOut"
        /\ \A q \in Req \ {r} : pc'[q] = pc[q] /\ unit'[q] = unit[q]
    BY <1>1, <1>6 DEF IncrStock, TypeOK, UnitMatchesPc
  <2>2. \A q : (Waiting(q)' <=> Waiting(q)) /\ (Holding(q)' <=> Holding(q))
    BY <2>1 DEF Waiting, Holding, T, U
  <2> QED
    BY <1>1, <2>1, <2>2 DEF Guarded, TriesOnce
<1>7. ASSUME NEW r \in Req, AddIssued(r) PROVE Guarded' /\ TriesOnce'
  <2>1. /\ issued' = [issued EXCEPT ![T(r)] = @ \cup {U(r)}] /\ UNCHANGED <<unit, queue>>
        /\ pc[r] = "zaddIssued" /\ pc'[r] = "zaddRank"
        /\ \A q \in Req \ {r} : pc'[q] = pc[q]
    BY <1>1, <1>7 DEF AddIssued, TypeOK
  <2>2. \A q \in Req : /\ Same(q, r) => Holding(q)'
                       /\ ~Same(q, r) => (Holding(q)' <=> Holding(q))
    BY <1>1, <2>1, TraceOf
  <2>3. \A q : Waiting(q)' <=> Waiting(q)
    BY <2>1 DEF Waiting, T, U
  <2>4. \A q \in Req \ {r} : pc[q] \notin Calls
    BY <2>1 DEF Alone, Calls
  <2> QED
    BY <1>1, <2>1, <2>2, <2>3, <2>4 DEF Guarded, TriesOnce, Calls
<1>8. ASSUME UNCHANGED <<unit, queue, issued>>,
             \A q \in Req : pc'[q] = pc[q] \/ pc'[q] = "error"
      PROVE  Guarded' /\ TriesOnce'
  <2>1. \A q : (Waiting(q)' <=> Waiting(q)) /\ (Holding(q)' <=> Holding(q))
    BY <1>8 DEF Waiting, Holding, T, U
  <2> QED
    BY <1>1, <1>8, <2>1 DEF Guarded, TriesOnce
<1>9. CASE Restart
  BY <1>1, <1>8, <1>9 DEF Restart, TypeOK
<1>10. ASSUME NEW t \in Type, IssuanceEnds(t) PROVE Guarded' /\ TriesOnce'
  BY <1>8, <1>10 DEF IssuanceEnds
<1>11. CASE UNCHANGED vars
  BY <1>8, <1>11 DEF vars
<1> QED
  BY <1>2, <1>3, <1>4, <1>5, <1>6, <1>7, <1>9, <1>10, <1>11 DEF Next, IssueStep

\* The consumer begins a delivery when it has none, and a restart ends what
\* was begun.
LEMMA AloneStep ==
    ASSUME KInv, ServedAlone, [KafkaNext]_allVars, rebalances' = 0, rebalances = 0
    PROVE  ServedAlone'
<1> USE DEF ServedAlone, KInv, KafkaTypeOK, TypeOK
<1>1. ASSUME pc' = pc, zombies' \subseteq zombies, current' = current PROVE ServedAlone'
  BY <1>1
<1>2. ASSUME NEW r \in Req, Deliver(r) PROVE ServedAlone'
  <2>1. /\ zombies' = zombies /\ current' = r /\ current = Nothing
        /\ pc' = [pc EXCEPT ![r] = "zscoreIssued"]
    BY <1>2 DEF Deliver, Execute, Goto
  <2> QED
    BY <2>1, Deliveries
<1>3. ASSUME NEW r \in Req, Process(r) \/ ProcessFails(r) PROVE ServedAlone'
  <2>1. UNCHANGED <<zombies, current>> /\ pc[r] \in Calls
    BY <1>3 DEF Process, ProcessFails, CallFails, kafkaVars, workVars, IssueStep, CheckIssued,
       CheckQueue, CheckEndtime, RecordUser, ReadRank, DecrStock, RemoveShort, IncrStock,
       SaveCoupon, AddIssued, AddRank, RemoveQueued, Calls
  <2>2. \A q \in Req \ {r} : pc'[q] = pc[q]
    BY <1>3 DEF Process, ProcessFails, CallFails, Goto, IssueStep, CheckIssued,
       CheckQueue, CheckEndtime, RecordUser, ReadRank, DecrStock, RemoveShort, IncrStock,
       SaveCoupon, AddIssued, AddRank, RemoveQueued
  <2> QED
    BY <2>1, <2>2
<1>4. ASSUME NEW r \in Req, SendResponse(r) \/ SendErrorResponse(r) PROVE ServedAlone'
  <2>1. /\ pc' = pc /\ pc[r] \in Ends /\ zombies' = zombies \ {r}
        /\ current' = IF r = current THEN Nothing ELSE current
    BY <1>4 DEF SendResponse, SendErrorResponse, Finish, vars, Consuming
  <2>2. pc[r] \notin Calls
    BY <2>1 DEF Ends, Calls
  <2> QED
    BY <2>1, <2>2
<1>5. CASE RestartService
  <2>1. zombies' = {} /\ \A q \in Req : pc'[q] \notin Calls
    BY <1>5 DEF RestartService, Restart, Calls
  <2> QED
    BY <2>1
<1>6. CASE Rebalance
  BY <1>6 DEF Rebalance
<1>7. CASE UNCHANGED allVars
  BY <1>1, <1>7 DEF allVars, vars, kafkaVars, workVars
<1>8. ASSUME NEW m \in Msg, IssueCouponAsync(m) PROVE ServedAlone'
  BY <1>1, <1>8 DEF IssueCouponAsync, vars, workVars
<1>9. ASSUME NEW r \in Req, SendFails(r) PROVE ServedAlone'
  BY <1>1, <1>9 DEF SendFails, vars, workVars
<1>10. CASE CommitOffset
  BY <1>1, <1>10 DEF CommitOffset, vars, workVars
<1>11. ASSUME NEW t \in Type, IssuanceEnds(t), UNCHANGED kafkaVars PROVE ServedAlone'
  BY <1>1, <1>11 DEF IssuanceEnds, reqVars, kafkaVars, workVars
<1> QED
  BY <1>2, <1>3, <1>4, <1>5, <1>6, <1>7, <1>8, <1>9, <1>10, <1>11 DEF KafkaNext

LEMMA RebalancesCounted ==
    ASSUME KInv, [KafkaNext]_allVars
    PROVE  rebalances' \in {rebalances, rebalances + 1} /\ rebalances \in Nat
  BY DEF KInv, Consuming, KafkaNext, allVars, kafkaVars, groupVars, IssueCouponAsync,
     Deliver, Process, ProcessFails, SendResponse, SendFails, SendErrorResponse, Finish,
     CommitOffset, Rebalance, RestartService

LEMMA NextHolder ==
    ASSUME ~Development
    PROVE  HInv /\ [KafkaNext]_allVars => HInv'
<1> SUFFICES ASSUME HInv, [KafkaNext]_allVars PROVE HInv'
  OBVIOUS
<1>1. [Next]_vars
  BY KafkaStepIssues
<1>2. IInv' /\ KInv'
  BY <1>1, NextQuota, NextKafka DEF HInv
<1>3. rebalances' \in {rebalances, rebalances + 1} /\ rebalances \in Nat
  BY RebalancesCounted DEF HInv
<1>4. ASSUME rebalances' = 0 PROVE ServedAlone' /\ Guarded' /\ TriesOnce'
  <2>1. rebalances = 0 /\ ServedAlone /\ Guarded /\ TriesOnce
    BY <1>3, <1>4 DEF HInv
  <2>2. ServedAlone'
    BY <1>4, <2>1, AloneStep DEF HInv
  <2>3. Alone
    BY <2>1 DEF ServedAlone, Alone
  <2> QED
    BY <1>1, <2>1, <2>2, <2>3, GuardedStep DEF HInv
<1> QED
  BY <1>2, <1>4 DEF HInv

LEMMA InitHolder == KafkaInit => HInv
<1> SUFFICES ASSUME KafkaInit PROVE HInv
  OBVIOUS
<1>1. IInv /\ KInv
  BY InitQuota, InitKafka DEF KafkaInit
<1>2. \A r \in Req : pc[r] = "idle" /\ unit[r] = "none"
  BY DEF KafkaInit, Init
<1>3. ServedAlone /\ Guarded /\ TriesOnce
  BY <1>2 DEF ServedAlone, Guarded, TriesOnce, Calls, KafkaInit
<1> QED
  BY <1>1, <1>3 DEF HInv

\* While no rebalance lets two consumers work at once, a user who holds a unit
\* is never let at the stock again: duplicated messages and deliveries after a
\* restart find the trace of the first one.
THEOREM HolderTriesOnce ==
    ASSUME ~Development
    PROVE  KafkaSpec => []HolderNeverTriesAgain
<1>1. KafkaInit => HInv
  BY InitHolder
<1>2. HInv => HolderNeverTriesAgain
  BY DEF HInv, TriesOnce, HolderNeverTriesAgain, Same
<1> QED
  BY <1>1, <1>2, NextHolder, PTL DEF KafkaSpec

----------------------------------------------------------------------------
(* First come, first served.                                               *)
(*                                                                         *)
(* While the consumer is alone, every offset before a delivered one was    *)
(* delivered or will never be (Placed), so a delivery that is overtaken is *)
(* not the first of its message (InTurn).  How the first one ended decides *)
(* what this one can come to: refused stays refused (BarredForGood), a     *)
(* winner's user is guarded, and a loser of earlier implies that no unit   *)
(* was left for whoever overtook.  Only an error leaves the way open.      *)

\* An offset nobody will be given any more: every consumer starts behind it.
Dead(o) == o <= pos /\ (committed # NoOffset => o <= committed)
Covered(o) == Dead(o) \/ \E q \in Req : offset[q] = o

Placed ==
    /\ offset \in [Req -> 0 .. Len(log)]
    /\ \A r \in Req : IF pc[r] = "idle" THEN offset[r] = 0
                      ELSE offset[r] # 0 /\ M(r) = log[offset[r]]
    /\ current # Nothing => offset[current] = pos + 1
    /\ \A o \in 1 .. pos : Covered(o)
    /\ \A r \in Req : \A o \in 1 .. offset[r] - 1 : Covered(o)

\* A delivery under way that somebody is ahead of is a second one.
InTurn ==
    \A r, r1 \in Req : pc[r] \in Calls /\ offset[r] < offset[r1] =>
        \E q \in Req \ {r} : offset[q] = offset[r]

\* Where the checks are behind a request.
Passed == {"zaddQueue", "zrank", "decr", "zremShort", "save", "zaddIssued", "zaddRank",
           "zremQueue"}

\* What barred a request bars every later one of the same user and type.
BarredForGood ==
    /\ \A q \in Req : pc[q] = "refused" => T(q) \in ended \/ Holding(q) \/ Waiting(q)
    /\ \A r \in Req : pc[r] = "getEndtime" => ~Holding(r) /\ ~Waiting(r)
    /\ \A r, q \in Req : pc[r] \in Passed /\ Same(q, r) => pc[q] # "refused"

Returned == \A r \in Req : pc[r] = "soldOut" => unit[r] = "returned"

\* The body of FirstComeFirstServed, from the DECR on.
ServedInTurn ==
    \A r1, r2 \in Req :
        (/\ unit[r1] = "taken" /\ unit[r2] \in {"short", "returned"} /\ T(r1) = T(r2)
         /\ offset[r2] < offset[r1])
        => \E q \in Req : offset[q] = offset[r2] /\ pc[q] = "error"

FInv ==
    /\ HInv
    /\ CouponMatchesPc
    /\ Returned
    /\ Placed
    /\ rebalances = 0 => InTurn /\ BarredForGood /\ ServedInTurn

\* What is in the log stays where it is.
LEMMA LogKept ==
    ASSUME log \in Seq(Msg), NEW m \in Msg, SendRequest(m)
    PROVE  Len(log') >= Len(log) /\ \A i \in 1 .. Len(log) : log'[i] = log[i]
<1>1. CASE log' = log
  BY <1>1
<1>2. CASE log' = Append(log, m)
  BY <1>2
<1>3. CASE log' = log \o <<m, m>>
  <2>1. <<m, m>> \in Seq(Msg)
    OBVIOUS
  <2> QED
    BY <1>3, <2>1
<1> QED
  BY <1>1, <1>2, <1>3 DEF SendRequest

\* A step that moves neither the consumer nor a delivery to another place in
\* the log.
LEMMA StaysPlaced ==
    ASSUME KInv, Placed, UNCHANGED <<offset, pos, current>>,
           committed' = committed \/ committed' = pos,
           log' \in Seq(Msg), Len(log') >= Len(log),
           \A i \in 1 .. Len(log) : log'[i] = log[i],
           \A r \in Req : pc'[r] = "idle" <=> pc[r] = "idle"
    PROVE  Placed'
<1>1. /\ offset \in [Req -> 0 .. Len(log)] /\ Len(log) \in Nat /\ Len(log') \in Nat
      /\ pos \in Nat /\ committed \in Int /\ committed <= pos /\ committed' \in Int
  BY DEF Placed, KInv, KafkaTypeOK, NoOffset
<1>2. \A o \in Nat : o # 0 /\ Covered(o) => Covered(o)'
  BY <1>1 DEF Covered, Dead, NoOffset
<1>3. offset' \in [Req -> 0 .. Len(log')]
  BY <1>1
<1>4. ASSUME NEW r \in Req
      PROVE  IF pc'[r] = "idle" THEN offset'[r] = 0
             ELSE offset'[r] # 0 /\ M(r) = log'[offset'[r]]
  <2>1. offset[r] \in 0 .. Len(log)
    BY <1>1
  <2> QED
    BY <2>1 DEF Placed
<1>5. current' # Nothing => offset'[current'] = pos' + 1
  BY DEF Placed
<1>6. \A o \in 1 .. pos' : Covered(o)'
  BY <1>1, <1>2 DEF Placed
<1>7. \A r \in Req : \A o \in 1 .. offset'[r] - 1 : Covered(o)'
  <2> SUFFICES ASSUME NEW r \in Req, NEW o \in 1 .. offset[r] - 1 PROVE Covered(o)'
    OBVIOUS
  <2>1. o \in Nat /\ o # 0
    BY <1>1
  <2> QED
    BY <1>2, <2>1 DEF Placed
<1> QED
  BY <1>3, <1>4, <1>5, <1>6, <1>7 DEF Placed

LEMMA PlacedStep ==
    ASSUME KInv, Placed, [KafkaNext]_allVars
    PROVE  Placed'
<1>a. /\ offset \in [Req -> 0 .. Len(log)] /\ log \in Seq(Msg) /\ Len(log) \in Nat
      /\ pos \in Nat /\ committed \in Int /\ committed <= pos /\ pos <= Len(log)
      /\ TypeOK /\ [Next]_vars /\ pc \in [Req -> {"idle"} \cup Calls \cup Ends]
      /\ committed >= NoOffset
  BY KafkaStepIssues DEF Placed, KInv, KafkaTypeOK, NoOffset, TypeOK
<1>b. \A r \in Req : pc[r] # "idle" => pc'[r] # "idle"
  BY <1>a, PcMoves
<1>1. ASSUME NEW m \in Msg, IssueCouponAsync(m) PROVE Placed'
  <2>1. UNCHANGED <<offset, pos, current, committed, pc>>
    BY <1>1 DEF IssueCouponAsync, vars, groupVars, workVars
  <2>2. log' \in Seq(Msg) /\ Len(log') >= Len(log) /\ \A i \in 1 .. Len(log) : log'[i] = log[i]
    BY <1>1, <1>a, LogKept, LogGrows DEF IssueCouponAsync, Grows
  <2> QED
    BY <2>1, <2>2, StaysPlaced
<1>2. ASSUME NEW r \in Req, Deliver(r) PROVE Placed'
  <2>1. /\ current = Nothing /\ pos < Len(log) /\ M(r) = log[pos + 1] /\ pc[r] = "idle"
        /\ pc' = [pc EXCEPT ![r] = "zscoreIssued"]
        /\ offset' = [offset EXCEPT ![r] = pos + 1] /\ current' = r
        /\ UNCHANGED <<log, pos, committed>>
    BY <1>2 DEF Deliver, Execute, Goto, topicVars, groupVars
  <2>2. offset[r] = 0
    BY <2>1 DEF Placed
  <2>3. \A o \in Nat : o # 0 /\ Covered(o) => Covered(o)'
    BY <1>a, <2>1, <2>2 DEF Covered, Dead
  <2>4. offset' \in [Req -> 0 .. Len(log')] /\ offset'[r] = pos + 1
    BY <1>a, <2>1
  <2>5. \A q \in Req : IF pc'[q] = "idle" THEN offset'[q] = 0
                       ELSE offset'[q] # 0 /\ M(q) = log'[offset'[q]]
    BY <1>a, <2>1 DEF Placed
  <2>6. \A o \in 1 .. pos' : Covered(o)'
    BY <1>a, <2>1, <2>3 DEF Placed
  <2>7. \A q \in Req : \A o \in 1 .. offset'[q] - 1 : Covered(o)'
    <3> SUFFICES ASSUME NEW q \in Req, NEW o \in 1 .. offset'[q] - 1 PROVE Covered(o)'
      OBVIOUS
    <3>1. CASE q = r
      BY <1>a, <2>1, <2>4, <2>6, <3>1
    <3>2. CASE q # r
      <4>1. offset'[q] = offset[q] /\ offset[q] \in Nat
        BY <1>a, <2>1, <3>2
      <4>2. o \in Nat /\ o # 0 /\ o \in 1 .. offset[q] - 1
        BY <4>1
      <4> QED
        BY <2>3, <4>2 DEF Placed
    <3> QED
      BY <3>1, <3>2
  <2> QED
    BY <2>1, <2>4, <2>5, <2>6, <2>7 DEF Placed
<1>3. ASSUME UNCHANGED <<offset, pos, current, log, committed>>,
             \A r \in Req : pc'[r] = "idle" <=> pc[r] = "idle"
      PROVE  Placed'
  BY <1>3, <1>a, StaysPlaced
<1>4. ASSUME NEW r \in Req, Process(r) \/ ProcessFails(r) PROVE Placed'
  <2>1. UNCHANGED <<offset, pos, current, log, committed>>
    BY <1>4 DEF Process, ProcessFails, kafkaVars, topicVars, groupVars, workVars
  <2>2. \A q \in Req : pc'[q] = "idle" => pc[q] = "idle"
    BY <1>b
  <2>3. pc[r] \in Calls
    BY <1>4 DEF Process, ProcessFails, Calls, CallFails, Goto, IssueStep, CheckIssued,
       CheckQueue, CheckEndtime, RecordUser, ReadRank, DecrStock, RemoveShort, IncrStock,
       SaveCoupon, AddIssued, AddRank, RemoveQueued
  <2>4. \A q \in Req \ {r} : pc'[q] = pc[q]
    BY <1>4, <1>a DEF Process, ProcessFails, CallFails, Goto, IssueStep, CheckIssued,
       CheckQueue, CheckEndtime, RecordUser, ReadRank, DecrStock, RemoveShort, IncrStock,
       SaveCoupon, AddIssued, AddRank, RemoveQueued
  <2>5. pc[r] # "idle"
    BY <2>3 DEF Calls
  <2> QED
    BY <1>3, <2>1, <2>2, <2>4, <2>5
<1>5. ASSUME NEW r \in Req, Finish(r), UNCHANGED <<pc, log, offset>>, r \in Running
      PROVE  Placed'
  <2>1. CASE r = current
    <3>1. r # Nothing /\ current' = Nothing /\ pos' = pos + 1 /\ committed' = committed
      BY <1>5, <2>1, Deliveries DEF Finish
    <3>2. offset[r] = pos + 1
      BY <2>1, <3>1 DEF Placed
    <3>3. \A o \in Nat : o # 0 /\ Covered(o) => Covered(o)'
      BY <1>a, <1>5, <3>1 DEF Covered, Dead
    <3>4. \A o \in Nat : o = pos + 1 => Covered(o)'
      BY <1>5, <3>2 DEF Covered
    <3>5. \A o \in 1 .. pos' : Covered(o)'
      BY <1>a, <3>1, <3>3, <3>4 DEF Placed
    <3>6. \A q \in Req : \A o \in 1 .. offset'[q] - 1 : Covered(o)'
      <4> SUFFICES ASSUME NEW q \in Req, NEW o \in 1 .. offset[q] - 1 PROVE Covered(o)'
        BY <1>5
      <4>1. o \in Nat /\ o # 0
        BY <1>a
      <4> QED
        BY <3>3, <4>1 DEF Placed
    <3> QED
      BY <1>5, <3>1, <3>5, <3>6 DEF Placed
  <2>2. CASE r # current
    BY <1>3, <1>5, <2>2 DEF Finish
  <2> QED
    BY <2>1, <2>2
<1>6. ASSUME NEW r \in Req, SendResponse(r) \/ SendErrorResponse(r) PROVE Placed'
  BY <1>5, <1>6 DEF SendResponse, SendErrorResponse, vars, topicVars
<1>7. ASSUME NEW r \in Req, SendFails(r) PROVE Placed'
  BY <1>3, <1>7 DEF SendFails, vars, topicVars, groupVars, workVars
<1>8. CASE CommitOffset
  <2>1. committed' = pos /\ UNCHANGED <<offset, pos, current, log, pc>>
    BY <1>8 DEF CommitOffset, vars, topicVars, workVars
  <2> QED
    BY <1>a, <2>1, StaysPlaced
<1>9. ASSUME TakeOver, UNCHANGED <<log, offset>>,
             \A r \in Req : pc'[r] = "idle" <=> pc[r] = "idle"
      PROVE  Placed'
  <2>1. current' = Nothing /\ committed' = committed
        /\ pos' = IF committed = NoOffset THEN Len(log) ELSE committed
    BY <1>9 DEF TakeOver, StartOffset
  <2>2. CASE committed = NoOffset
    <3>1. \A o \in 1 .. Len(log) : Covered(o)'
      BY <1>a, <1>9, <2>1, <2>2 DEF Covered, Dead
    <3>2. \A q \in Req : \A o \in 1 .. offset'[q] - 1 : Covered(o)'
      <4> SUFFICES ASSUME NEW q \in Req, NEW o \in 1 .. offset[q] - 1 PROVE Covered(o)'
        BY <1>9
      <4>1. o \in 1 .. Len(log)
        BY <1>a
      <4> QED
        BY <3>1, <4>1
    <3> QED
      BY <1>9, <2>1, <2>2, <3>1, <3>2 DEF Placed
  <2>3. CASE committed # NoOffset
    <3>1. \A o \in Nat : o # 0 /\ Covered(o) => Covered(o)'
      BY <1>a, <1>9, <2>1, <2>3 DEF Covered, Dead
    <3>2. committed \in Nat /\ pos' = committed
      BY <1>a, <2>1, <2>3 DEF NoOffset
    <3>3. \A o \in 1 .. pos' : Covered(o)'
      BY <1>a, <3>1, <3>2 DEF Placed
    <3>4. \A q \in Req : \A o \in 1 .. offset'[q] - 1 : Covered(o)'
      <4> SUFFICES ASSUME NEW q \in Req, NEW o \in 1 .. offset[q] - 1 PROVE Covered(o)'
        BY <1>9
      <4>1. o \in Nat /\ o # 0
        BY <1>a
      <4> QED
        BY <3>1, <4>1 DEF Placed
    <3> QED
      BY <1>9, <2>1, <3>3, <3>4 DEF Placed
  <2> QED
    BY <2>2, <2>3
<1>10. CASE Rebalance
  BY <1>9, <1>10 DEF Rebalance, vars, topicVars
<1>11. CASE RestartService
  <2>1. \A r \in Req : pc'[r] = "idle" <=> pc[r] = "idle"
    BY <1>11, <1>a DEF RestartService, Restart, Calls
  <2> QED
    BY <1>9, <1>11, <2>1 DEF RestartService, topicVars
<1>12. ASSUME NEW t \in Type, IssuanceEnds(t), UNCHANGED kafkaVars PROVE Placed'
  BY <1>3, <1>12 DEF IssuanceEnds, reqVars, kafkaVars, topicVars, groupVars, workVars
<1>13. CASE UNCHANGED allVars
  BY <1>3, <1>13 DEF allVars, vars, kafkaVars, topicVars, groupVars, workVars
<1> QED
  BY <1>1, <1>2, <1>4, <1>6, <1>7, <1>8, <1>10, <1>11, <1>12, <1>13 DEF KafkaNext

LEMMA ReturnedStep ==
    ASSUME TypeOK, UnitMatchesPc, Returned, [Next]_vars
    PROVE  Returned'
<1> USE DEF TypeOK, Returned, Goto, redisVars, dbVars, timeVars, reqVars
<1>1. ASSUME NEW r \in Req, DecrStock(r) \/ IncrStock(r) PROVE Returned'
  BY <1>1 DEF DecrStock, IncrStock
<1>2. ASSUME unit' = unit, \A r \in Req : pc'[r] = "soldOut" => pc[r] = "soldOut"
      PROVE  Returned'
  BY <1>2
<1>3. \/ \E r \in Req : DecrStock(r) \/ IncrStock(r)
      \/ unit' = unit /\ \A r \in Req : pc'[r] = "soldOut" => pc[r] = "soldOut"
  <2>1. ASSUME NEW q \in Req, Execute(q) \/ SaveRankingLog(q) \/ CallFails(q)
        PROVE  unit' = unit /\ \A r \in Req : pc'[r] = "soldOut" => pc[r] = "soldOut"
    BY <2>1 DEF Execute, SaveRankingLog, CallFails
  <2>2. ASSUME NEW q \in Req, CheckIssued(q) \/ CheckQueue(q) \/ CheckEndtime(q)
                              \/ RecordUser(q) \/ ReadRank(q) \/ RemoveShort(q)
        PROVE  unit' = unit /\ \A r \in Req : pc'[r] = "soldOut" => pc[r] = "soldOut"
    BY <2>2 DEF CheckIssued, CheckQueue, CheckEndtime, RecordUser, ReadRank, RemoveShort
  <2>3. ASSUME NEW q \in Req, SaveCoupon(q) \/ AddIssued(q) \/ AddRank(q)
                              \/ RemoveQueued(q)
        PROVE  unit' = unit /\ \A r \in Req : pc'[r] = "soldOut" => pc[r] = "soldOut"
    BY <2>3 DEF SaveCoupon, AddIssued, AddRank, RemoveQueued
  <2>4. Restart \/ (\E t \in Type : IssuanceEnds(t)) \/ UNCHANGED vars =>
           unit' = unit /\ \A r \in Req : pc'[r] = "soldOut" => pc[r] = "soldOut"
    BY DEF Restart, IssuanceEnds, vars
  <2> QED
    BY <2>1, <2>2, <2>3, <2>4 DEF Next, IssueStep
<1> QED
  BY <1>1, <1>2, <1>3

\* Only a request that is handed to issueCoupon begins its calls.
LEMMA CallsBegin ==
    ASSUME KInv, [KafkaNext]_allVars
    PROVE  \/ \E r \in Req : Deliver(r)
           \/ offset' = offset /\ \A q \in Req : pc'[q] \in Calls => pc[q] \in Calls
<1>1. pc \in [Req -> {"idle"} \cup Calls \cup Ends]
  BY DEF KInv, KafkaTypeOK, TypeOK
<1>2. ASSUME NEW r \in Req, Process(r) \/ ProcessFails(r)
      PROVE  offset' = offset /\ \A q \in Req : pc'[q] \in Calls => pc[q] \in Calls
  <2>1. offset' = offset
    BY <1>2 DEF Process, ProcessFails, kafkaVars, workVars
  <2>2. pc[r] \in Calls
    BY <1>2 DEF Process, ProcessFails, CallFails, Calls, IssueStep, CheckIssued,
       CheckQueue, CheckEndtime, RecordUser, ReadRank, DecrStock, RemoveShort, IncrStock,
       SaveCoupon, AddIssued, AddRank, RemoveQueued
  <2>3. \A q \in Req \ {r} : pc'[q] = pc[q]
    BY <1>1, <1>2 DEF Process, ProcessFails, CallFails, Goto, IssueStep, CheckIssued,
       CheckQueue, CheckEndtime, RecordUser, ReadRank, DecrStock, RemoveShort, IncrStock,
       SaveCoupon, AddIssued, AddRank, RemoveQueued
  <2> QED
    BY <2>1, <2>2, <2>3
<1>3. ASSUME NEW r \in Req, SendResponse(r) \/ SendFails(r) \/ SendErrorResponse(r)
      PROVE  offset' = offset /\ pc' = pc
  BY <1>3 DEF SendResponse, SendFails, SendErrorResponse, vars, workVars
<1>4. CASE RestartService
  BY <1>4 DEF RestartService, Restart, Calls
<1>5. ASSUME NEW m \in Msg, IssueCouponAsync(m) PROVE offset' = offset /\ pc' = pc
  BY <1>5 DEF IssueCouponAsync, vars, workVars
<1>6. CommitOffset \/ Rebalance => offset' = offset /\ pc' = pc
  BY DEF CommitOffset, Rebalance, vars, workVars
<1>7. ASSUME NEW t \in Type, IssuanceEnds(t), UNCHANGED kafkaVars
      PROVE  offset' = offset /\ pc' = pc
  BY <1>7 DEF IssuanceEnds, reqVars, kafkaVars, workVars
<1>8. UNCHANGED allVars => offset' = offset /\ pc' = pc
  BY DEF allVars, vars, kafkaVars, workVars
<1> QED
  BY <1>2, <1>3, <1>4, <1>5, <1>6, <1>7, <1>8 DEF KafkaNext

LEMMA InTurnStep ==
    ASSUME KInv, Placed, ServedAlone, InTurn, [KafkaNext]_allVars
    PROVE  InTurn'
<1>1. ASSUME NEW r \in Req, Deliver(r) PROVE InTurn'
  <2>1. /\ current = Nothing /\ pc[r] = "idle"
        /\ pc' = [pc EXCEPT ![r] = "zscoreIssued"]
        /\ offset' = [offset EXCEPT ![r] = pos + 1] /\ offset[r] = 0
    BY <1>1 DEF Deliver, Execute, Goto, Placed
  <2>2. offset \in [Req -> Nat] /\ pos \in Nat /\ \A q \in Req : pc[q] \notin Calls
    BY <2>1, Deliveries DEF Placed, KInv, KafkaTypeOK, ServedAlone
  <2> SUFFICES ASSUME NEW q0 \in Req, NEW r1 \in Req, pc'[q0] \in Calls,
                      offset'[q0] < offset'[r1]
               PROVE  \E q \in Req \ {q0} : offset'[q] = offset'[q0]
    BY DEF InTurn
  <2>3. q0 = r /\ offset'[r] = pos + 1
    BY <2>1, <2>2 DEF KInv, KafkaTypeOK, TypeOK
  <2>4. r1 # r /\ offset'[r1] = offset[r1] /\ pos + 1 \in 1 .. offset[r1] - 1
    BY <2>1, <2>2, <2>3
  <2>5. Covered(pos + 1) /\ ~Dead(pos + 1)
    BY <2>2, <2>4 DEF Placed, Dead
  <2>6. PICK q \in Req : offset[q] = pos + 1
    BY <2>5 DEF Covered
  <2> QED
    BY <2>1, <2>2, <2>3, <2>6
<1>2. CASE offset' = offset /\ \A q \in Req : pc'[q] \in Calls => pc[q] \in Calls
  BY <1>2 DEF InTurn
<1> QED
  BY <1>1, <1>2, CallsBegin

LEMMA BarredMove ==
    ASSUME BarredForGood, Guarded, Alone, UNCHANGED <<queue, issued>>, ended \subseteq ended',
           NEW r \in Req, \A q \in Req \ {r} : pc'[q] = pc[q],
           \/ pc'[r] = pc[r]
           \/ pc'[r] \in {"zscoreIssued", "zscoreQueue", "error", "soldOut", "ok"}
           \/ pc[r] \in Passed /\ pc'[r] \in Passed
           \/ pc[r] \in Calls /\ pc'[r] = "refused"
              /\ (T(r) \in ended \/ Holding(r) \/ Waiting(r))
           \/ pc[r] = "zscoreQueue" /\ pc'[r] = "getEndtime" /\ ~Waiting(r)
           \/ pc[r] = "getEndtime" /\ pc'[r] = "zaddQueue" /\ T(r) \notin ended
    PROVE  BarredForGood'
<1>1. \A q : (Waiting(q)' <=> Waiting(q)) /\ (Holding(q)' <=> Holding(q))
  BY DEF Waiting, Holding, T, U
<1>2. \A q1, q2 : Same(q1, q2)' <=> Same(q1, q2)
  BY DEF Same, T, U
<1>3. \A q \in Req : pc'[q] = "refused" => T(q) \in ended' \/ Holding(q)' \/ Waiting(q)'
  BY <1>1 DEF BarredForGood, Passed
<1>4. \A q \in Req : pc'[q] = "getEndtime" => ~Holding(q)' /\ ~Waiting(q)'
  BY <1>1 DEF BarredForGood, Guarded, Passed
<1>5. ASSUME NEW p \in Req, NEW q \in Req, pc'[p] \in Passed, Same(q, p)
      PROVE  pc'[q] # "refused"
  <2>1. CASE pc[p] \in Passed
    <3>1. pc[q] # "refused" /\ pc[p] \in Calls
      BY <1>5, <2>1 DEF BarredForGood, Passed, Calls
    <3>2. CASE q = r /\ pc[r] \in Calls
      <4>1. p = r
        BY <3>1, <3>2 DEF Alone
      <4> QED
        BY <1>5, <3>2, <4>1 DEF Passed
    <3>3. CASE ~(q = r /\ pc[r] \in Calls)
      BY <3>1, <3>3 DEF Passed, Calls
    <3> QED
      BY <3>2, <3>3
  <2>2. CASE pc[p] \notin Passed
    <3>1. p = r /\ pc[r] = "getEndtime" /\ pc'[r] = "zaddQueue" /\ T(r) \notin ended
      BY <1>5, <2>2 DEF Passed
    <3>2. ~Holding(q) /\ ~Waiting(q) /\ T(q) \notin ended
      BY <1>5, <3>1, SameTrace DEF BarredForGood, Same
    <3>3. pc[q] # "refused"
      BY <3>2 DEF BarredForGood
    <3> QED
      BY <3>1, <3>3
  <2> QED
    BY <2>1, <2>2
<1> QED
  BY <1>2, <1>3, <1>4, <1>5 DEF BarredForGood, T

LEMMA BarredStep ==
    ASSUME IInv, Guarded, BarredForGood, Alone, [Next]_vars
    PROVE  BarredForGood'
<1>1. /\ TypeOK /\ \A r \in Req : Same(r, r)
      /\ \A q1, q2 : Same(q1, q2)' <=> Same(q1, q2)
      /\ \A q1, q2 : Same(q1, q2) => Same(q2, q1)
  BY DEF IInv, Same, T, U
<1> USE DEF Goto, redisVars, dbVars, timeVars, reqVars
<1>2. ASSUME NEW r \in Req, Execute(r) \/ CheckIssued(r) \/ CheckQueue(r) \/ CheckEndtime(r)
                             \/ CallFails(r) \/ SaveRankingLog(r)
      PROVE  BarredForGood'
  <2>1. /\ UNCHANGED <<queue, issued, ended>>
        /\ \A q \in Req \ {r} : pc'[q] = pc[q]
        /\ \/ pc'[r] = pc[r]
           \/ pc'[r] \in {"zscoreIssued", "zscoreQueue", "error"}
           \/ pc[r] \in Calls /\ pc'[r] = "refused"
              /\ (T(r) \in ended \/ Holding(r) \/ Waiting(r))
           \/ pc[r] = "zscoreQueue" /\ pc'[r] = "getEndtime" /\ ~Waiting(r)
           \/ pc[r] = "getEndtime" /\ pc'[r] = "zaddQueue" /\ T(r) \notin ended
    BY <1>1, <1>2 DEF TypeOK, Execute, CheckIssued, CheckQueue, CheckEndtime,
       CallFails, SaveRankingLog, Holding, Waiting, Calls
  <2> QED
    BY <2>1, BarredMove
<1>3. ASSUME NEW r \in Req, ReadRank(r) \/ DecrStock(r) \/ IncrStock(r) \/ SaveCoupon(r)
                             \/ AddRank(r)
      PROVE  BarredForGood'
  <2>1. /\ UNCHANGED <<queue, issued, ended>>
        /\ \A q \in Req \ {r} : pc'[q] = pc[q]
        /\ \/ pc'[r] \in {"error", "soldOut"}
           \/ pc[r] \in Passed /\ pc'[r] \in Passed
    BY <1>1, <1>3 DEF TypeOK, ReadRank, DecrStock, IncrStock, SaveCoupon, AddRank, Passed
  <2> QED
    BY <2>1, BarredMove
<1>4. ASSUME NEW r \in Req, RecordUser(r) PROVE BarredForGood'
  <2>1. /\ queue' = [queue EXCEPT ![T(r)][U(r)] = stamp[r]]
        /\ stamp[r] \in Nat /\ stamp[r] > 0 /\ UNCHANGED <<issued, ended>>
        /\ pc[r] = "zaddQueue" /\ pc'[r] = "zrank"
        /\ \A q \in Req \ {r} : pc'[q] = pc[q]
    BY <1>1, <1>4 DEF RecordUser, TypeOK
  <2>2. \A q \in Req : Waiting(q) => Waiting(q)'
    BY <1>1, <2>1, TraceOf
  <2>3. \A q : Holding(q)' <=> Holding(q)
    BY <2>1 DEF Holding, T, U
  <2>4. \A q \in Req : pc'[q] # "getEndtime"
    BY <2>1 DEF Alone, Calls
  <2> QED
    BY <1>1, <2>1, <2>2, <2>3, <2>4 DEF BarredForGood, Passed, T
<1>5. ASSUME NEW r \in Req, RemoveShort(r) \/ RemoveQueued(r) PROVE BarredForGood'
  <2>1. /\ queue' = [queue EXCEPT ![T(r)][U(r)] = 0] /\ UNCHANGED <<issued, ended>>
        /\ pc[r] \in {"zremShort", "zremQueue"} /\ pc'[r] \in {"incr", "ok"}
        /\ \A q \in Req \ {r} : pc'[q] = pc[q]
    BY <1>1, <1>5 DEF RemoveShort, RemoveQueued, Zrem, TypeOK
  <2>2. \A q \in Req : ~Same(q, r) => (Waiting(q)' <=> Waiting(q))
    BY <1>1, <2>1, TraceOf
  <2>3. \A q : Holding(q)' <=> Holding(q)
    BY <2>1 DEF Holding, T, U
  <2>4. \A q \in Req : Same(q, r) => pc[q] # "refused"
    BY <2>1 DEF BarredForGood, Passed
  <2>5. \A q \in Req : pc'[q] # "getEndtime"
    BY <2>1 DEF Alone, Calls
  <2> QED
    BY <1>1, <2>1, <2>2, <2>3, <2>4, <2>5 DEF BarredForGood, Passed, T
<1>6. ASSUME NEW r \in Req, AddIssued(r) PROVE BarredForGood'
  <2>1. /\ issued' = [issued EXCEPT ![T(r)] = @ \cup {U(r)}] /\ UNCHANGED <<queue, ended>>
        /\ pc[r] = "zaddIssued" /\ pc'[r] = "zaddRank"
        /\ \A q \in Req \ {r} : pc'[q] = pc[q]
    BY <1>1, <1>6 DEF AddIssued, TypeOK
  <2>2. \A q \in Req : Holding(q) => Holding(q)'
    BY <1>1, <2>1, TraceOf
  <2>3. \A q : Waiting(q)' <=> Waiting(q)
    BY <2>1 DEF Waiting, T, U
  <2>4. \A q \in Req : pc'[q] # "getEndtime"
    BY <2>1 DEF Alone, Calls
  <2> QED
    BY <1>1, <2>1, <2>2, <2>3, <2>4 DEF BarredForGood, Passed, T
<1>7. ASSUME UNCHANGED <<queue, issued>>, ended \subseteq ended',
             \A q \in Req : pc'[q] = pc[q] \/ pc'[q] = "error"
      PROVE  BarredForGood'
  <2>1. \A q : (Waiting(q)' <=> Waiting(q)) /\ (Holding(q)' <=> Holding(q))
    BY <1>7 DEF Waiting, Holding, T, U
  <2> QED
    BY <1>1, <1>7, <2>1 DEF BarredForGood, Passed, T
<1>8. CASE Restart
  BY <1>1, <1>7, <1>8 DEF Restart, TypeOK
<1>9. ASSUME NEW t \in Type, IssuanceEnds(t) PROVE BarredForGood'
  BY <1>7, <1>9 DEF IssuanceEnds
<1>10. CASE UNCHANGED vars
  BY <1>7, <1>10 DEF vars
<1> QED
  BY <1>2, <1>3, <1>4, <1>5, <1>6, <1>8, <1>9, <1>10 DEF Next, IssueStep

\* The DECR that finds no unit, of a delivery that was overtaken.
LEMMA LoserWasServed ==
    ASSUME IInv, KInv, CouponMatchesPc, Returned, Placed, Alone, Guarded, InTurn,
           BarredForGood, ServedInTurn, NEW r \in Req, pc[r] = "decr",
           NEW r1 \in Req, unit[r1] = "taken", T(r1) = T(r), offset[r] < offset[r1]
    PROVE  \E q \in Req : offset[q] = offset[r] /\ pc[q] = "error"
<1>1. PICK q \in Req \ {r} : offset[q] = offset[r]
  BY DEF InTurn, Calls
<1>2. pc[q] # "idle" /\ M(q) = M(r)
  BY <1>1 DEF Placed
<1>3. Same(q, r)
  BY <1>1, <1>2, DeliveryAssumption DEF Same, M, U, T
<1>4. pc[q] \in Ends
  BY <1>1, <1>2 DEF Alone, Calls, IInv, TypeOK
<1>5. unit[q] # "taken"
  BY <1>1, <1>3 DEF Guarded
<1>6. pc[q] # "ok"
  BY <1>1, <1>5 DEF CouponMatchesPc, IInv, UnitMatchesPc
<1>7. pc[q] # "refused"
  BY <1>1, <1>3 DEF BarredForGood, Passed
<1>8. CASE pc[q] = "soldOut"
  <2>1. unit[q] = "returned"
    BY <1>1, <1>8 DEF Returned
  <2> QED
    BY <1>1, <1>3, <2>1 DEF ServedInTurn, Same
<1>9. CASE pc[q] = "error"
  BY <1>1, <1>9
<1> QED
  BY <1>4, <1>6, <1>7, <1>8, <1>9 DEF Ends

LEMMA ServedInTurnStep ==
    ASSUME IInv, KInv, CouponMatchesPc, Returned, Placed, Alone, Guarded, InTurn,
           BarredForGood, ServedInTurn, [KafkaNext]_allVars
    PROVE  ServedInTurn'
<1>1. [Next]_vars /\ TypeOK /\ UnitMatchesPc
  BY KafkaStepIssues DEF IInv
<1>2. \A q \in Req : pc[q] = "error" => pc'[q] = "error"
  BY <1>1, PcMoves DEF Ends
<1>3. offset \in [Req -> Nat] /\ unit \in [Req -> Units]
  BY <1>1 DEF Placed, KInv, KafkaTypeOK, TypeOK
<1>4. ASSUME NEW r \in Req, Deliver(r) PROVE ServedInTurn'
  <2>1. /\ pc[r] = "idle" /\ unit' = unit /\ unit[r] = "none"
        /\ offset' = [offset EXCEPT ![r] = pos + 1]
    BY <1>1, <1>4 DEF Deliver, Execute, UnitMatchesPc
  <2>2. \A q \in Req : unit[q] # "none" \/ pc[q] = "error" => offset'[q] = offset[q]
    BY <1>3, <2>1
  <2> SUFFICES ASSUME NEW r1 \in Req, NEW r2 \in Req, unit[r1] = "taken",
                      unit[r2] \in {"short", "returned"}, T(r1) = T(r2),
                      offset'[r2] < offset'[r1]
               PROVE  \E q \in Req : offset'[q] = offset'[r2] /\ pc'[q] = "error"
    BY <2>1 DEF ServedInTurn, T
  <2>3. offset'[r1] = offset[r1] /\ offset'[r2] = offset[r2]
    BY <2>2
  <2>4. PICK q \in Req : offset[q] = offset[r2] /\ pc[q] = "error"
    BY <2>3 DEF ServedInTurn
  <2> QED
    BY <1>2, <2>2, <2>3, <2>4
<1>5. ASSUME NEW r \in Req, DecrStock(r), offset' = offset PROVE ServedInTurn'
  <2>1. pc[r] = "decr" /\ unit[r] = "none"
    BY <1>1, <1>5 DEF DecrStock, UnitMatchesPc
  <2>2. \/ unit' = [unit EXCEPT ![r] = "short"]
        \/ unit' = [unit EXCEPT ![r] = "taken"] /\ ~SoldOut(stock[T(r)] - 1)
    BY <1>5 DEF DecrStock
  <2> SUFFICES ASSUME NEW r1 \in Req, NEW r2 \in Req, unit'[r1] = "taken",
                      unit'[r2] \in {"short", "returned"}, T(r1) = T(r2),
                      offset[r2] < offset[r1]
               PROVE  \E q \in Req : offset[q] = offset[r2] /\ pc'[q] = "error"
    BY <1>5 DEF ServedInTurn, T
  <2>3. CASE r2 = r
    <3>1. unit[r1] = "taken"
      BY <1>3, <2>2, <2>3
    <3> QED
      BY <1>2, <2>1, <2>3, <3>1, LoserWasServed
  <2>4. CASE r1 = r
    <3>1. ~SoldOut(stock[T(r)] - 1) /\ unit[r2] \in {"short", "returned"}
      BY <1>3, <2>2, <2>4
    <3> QED
      BY <1>5, <2>4, <3>1, NoUnitAfterLoser
  <2>5. CASE r1 # r /\ r2 # r
    <3>1. unit[r1] = "taken" /\ unit[r2] \in {"short", "returned"}
      BY <1>3, <2>2, <2>5
    <3> QED
      BY <1>2, <3>1 DEF ServedInTurn
  <2> QED
    BY <2>3, <2>4, <2>5
<1>6. ASSUME offset' = offset,
             \A q \in Req : /\ unit'[q] = "taken" => unit[q] = "taken"
                            /\ unit'[q] \in {"short", "returned"} =>
                                  unit[q] \in {"short", "returned"}
      PROVE  ServedInTurn'
  BY <1>2, <1>6 DEF ServedInTurn, T
<1>7. ASSUME NEW r \in Req, IncrStock(r), offset' = offset PROVE ServedInTurn'
  <2>1. unit[r] = "short" /\ unit' = [unit EXCEPT ![r] = "returned"]
    BY <1>1, <1>7 DEF IncrStock, UnitMatchesPc
  <2> QED
    BY <1>3, <1>6, <1>7, <2>1
<1>8. unit' = unit \/ \E r \in Req : DecrStock(r) \/ IncrStock(r)
  BY <1>1 DEF Next, IssueStep, vars, redisVars, dbVars, timeVars, reqVars, Execute,
     CheckIssued, CheckQueue, CheckEndtime, RecordUser, ReadRank, RemoveShort, SaveCoupon,
     AddIssued, AddRank, RemoveQueued, SaveRankingLog, CallFails, Restart, IssuanceEnds
<1> QED
  BY <1>4, <1>5, <1>6, <1>7, <1>8, CallsBegin

LEMMA NextInTurn ==
    ASSUME ~Development
    PROVE  FInv /\ [KafkaNext]_allVars => FInv'
<1> SUFFICES ASSUME FInv, [KafkaNext]_allVars PROVE FInv'
  OBVIOUS
<1>1. HInv' /\ HInv /\ [Next]_vars /\ IInv /\ KInv /\ TypeOK /\ UnitMatchesPc
  BY NextHolder, KafkaStepIssues DEF FInv, HInv, IInv
<1>2. CouponMatchesPc' /\ Returned' /\ Placed'
  BY <1>1, CouponMatchesPcStep, ReturnedStep, PlacedStep DEF FInv
<1>3. ASSUME rebalances' = 0 PROVE InTurn' /\ BarredForGood' /\ ServedInTurn'
  <2>1. rebalances = 0
    BY <1>1, <1>3, RebalancesCounted
  <2>2. /\ ServedAlone /\ Guarded /\ InTurn /\ BarredForGood /\ ServedInTurn
        /\ CouponMatchesPc /\ Returned /\ Placed
    BY <1>1, <2>1 DEF FInv, HInv
  <2>3. Alone
    BY <2>2 DEF ServedAlone, Alone
  <2> QED
    BY <1>1, <2>2, <2>3, InTurnStep, BarredStep, ServedInTurnStep
<1> QED
  BY <1>1, <1>2, <1>3 DEF FInv

\* While no rebalance lets two consumers work at once, nobody is told sold out
\* while a request behind his in the partition got a unit, unless a delivery of
\* his message failed: duplicated messages, crashes and deliveries after a
\* restart do not change the order.
THEOREM FirstServed ==
    ASSUME ~Development
    PROVE  KafkaSpec => []FirstComeFirstServed
<1>1. KafkaInit => FInv
  <2> SUFFICES ASSUME KafkaInit PROVE FInv
    OBVIOUS
  <2>1. HInv
    BY InitHolder
  <2>2. /\ \A r \in Req : pc[r] = "idle" /\ unit[r] = "none" /\ offset[r] = 0
        /\ offset \in [Req -> 0 .. Len(log)] /\ pos = 0 /\ current = Nothing
    BY DEF KafkaInit, Init
  <2>3. CouponMatchesPc /\ Returned /\ Placed
    BY <2>2 DEF CouponMatchesPc, Returned, Placed
  <2>4. InTurn /\ BarredForGood /\ ServedInTurn
    BY <2>2 DEF InTurn, BarredForGood, ServedInTurn, Passed
  <2> QED
    BY <2>1, <2>3, <2>4 DEF FInv
<1>2. FInv => FirstComeFirstServed
  BY DEF FInv, Returned, ServedInTurn, FirstComeFirstServed
<1> QED
  BY <1>1, <1>2, NextInTurn, PTL DEF KafkaSpec
============================================================================
