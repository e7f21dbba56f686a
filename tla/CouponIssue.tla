---------------------------- MODULE CouponIssue ----------------------------
(***************************************************************************)
(* First-come coupon issuing: CouponsService.issueCoupon and the Redis and *)
(* MySQL state it works on.                                                *)
(*                                                                         *)
(* A request is a process.  Every await of a Redis command or of a         *)
(* repository call is one atomic step, so requests interleave at every     *)
(* await, as they do when several instances of the service share one       *)
(* Redis.  No lock and no transaction surrounds the steps.  A step may     *)
(* fail before it takes effect; a command that took effect but whose reply *)
(* was lost is the step followed by the failure of the next one.           *)
(*                                                                         *)
(* The locals of a request (unit, myRank) keep their last value after the  *)
(* request has ended, as the history the properties refer to.              *)
(***************************************************************************)
EXTENDS Integers, FiniteSets

CONSTANTS Req,          \* requests to POST /coupons/issue
          User,         \* user ids
          Type,         \* coupon types
          UserOf,       \* the user a request is made for
          TypeOf,       \* the coupon type it asks for
          InitStock,    \* value of coupon:stock:<type>; 0 = no such key
          Development,  \* NODE_ENV = development: bootstrap resets the stock
          Timed,        \* types with a coupon:endtime key
          Ticks,        \* bound: milliseconds between two readings of the clock
          MaxRestarts   \* bound: restarts of the service

ASSUME ReqAssumption == IsFiniteSet(Req)
ASSUME UserAssumption == User \subseteq Nat /\ IsFiniteSet(User)
ASSUME OfAssumption == UserOf \in [Req -> User] /\ TypeOf \in [Req -> Type]
ASSUME StockAssumption == InitStock \in [Type -> Nat]
ASSUME EnvAssumption ==
    /\ Development \in BOOLEAN
    /\ Timed \subseteq Type
    /\ Ticks \subseteq Nat
    /\ MaxRestarts \in Nat

VARIABLES
    \* requests
    pc,          \* the await a request is at, or how it ended
    unit,        \* sign of `remaining`, and whether INCR gave it back
    myRank,      \* local `rank`: the ZRANK reply, NoRank for null
    pendingLog,  \* requests whose setImmediate callback has not run
    \* Redis
    stock,       \* coupon:stock:<type>
    queue,       \* coupon:queue:<type>, a score per user, 0 = not a member
    issued,      \* coupon:issued:<type>, the members
    rank,        \* coupon:rank:<type>, a score per user, NoRank = no member
    ended,       \* coupon types whose coupon:endtime has passed
    \* MySQL
    coupons,     \* rows of coupons, named by the request that inserted them
    rankingLog,  \* rows of ranking_logs, named likewise
    \* environment
    clock,       \* Date.now()
    stamp,       \* local `timestamp`, 0 = none
    restarts

reqVars == <<pc, unit, myRank, pendingLog>>
redisVars == <<stock, queue, issued, rank, ended>>
dbVars == <<coupons, rankingLog>>
timeVars == <<clock, stamp>>
vars == <<pc, unit, myRank, pendingLog, stock, queue, issued, rank, ended,
          coupons, rankingLog, clock, stamp, restarts>>

NoRank == -1

\* The awaits of issueCoupon, in program order.
Calls == {"zscoreIssued", "zscoreQueue", "getEndtime", "zaddQueue", "zrank",
          "decr", "zremShort", "incr", "save", "zaddIssued", "zaddRank",
          "zremQueue"}
Ends == {"ok", "refused", "soldOut", "error"}
Units == {"none", "taken", "short", "returned"}

InFlight == {r \in Req : pc[r] \in Calls}
U(r) == UserOf[r]
T(r) == TypeOf[r]

Of(S, t) == {r \in S : TypeOf[r] = t}
Taken(t) == {r \in Req : TypeOf[r] = t /\ unit[r] = "taken"}
Short(t) == {r \in Req : TypeOf[r] = t /\ unit[r] = "short"}

Goto(r, l) == pc' = [pc EXCEPT ![r] = l]

----------------------------------------------------------------------------
Init ==
    /\ pc = [r \in Req |-> "idle"]
    /\ unit = [r \in Req |-> "none"]
    /\ myRank = [r \in Req |-> NoRank]
    /\ pendingLog = {}
    /\ stock = InitStock
    /\ queue = [t \in Type |-> [u \in User |-> 0]]
    /\ issued = [t \in Type |-> {}]
    /\ rank = [t \in Type |-> [u \in User |-> NoRank]]
    /\ ended = {}
    /\ coupons = {}
    /\ rankingLog = {}
    /\ clock = 1
    /\ stamp = [r \in Req |-> 0]
    /\ restarts = 0

\* A request reaches IssueCouponUseCase.execute.
Execute(r) ==
    /\ pc[r] = "idle"
    /\ Goto(r, "zscoreIssued")
    /\ UNCHANGED <<unit, myRank, pendingLog, redisVars, dbVars, timeVars, restarts>>

----------------------------------------------------------------------------
(* checkCouponAvailability *)

CheckIssued(r) ==
    /\ pc[r] = "zscoreIssued"
    /\ Goto(r, IF U(r) \in issued[T(r)] THEN "refused" ELSE "zscoreQueue")
    /\ UNCHANGED <<unit, myRank, pendingLog, redisVars, dbVars, timeVars, restarts>>

\* Mutant: being in the queue does not matter.
CheckQueueSkipped(r) ==
    /\ pc[r] = "zscoreQueue"
    /\ Goto(r, "getEndtime")
    /\ UNCHANGED <<unit, myRank, pendingLog, redisVars, dbVars, timeVars, restarts>>

CheckQueue(r) ==
    /\ pc[r] = "zscoreQueue"
    /\ Goto(r, IF queue[T(r)][U(r)] > 0 THEN "refused" ELSE "getEndtime")
    /\ UNCHANGED <<unit, myRank, pendingLog, redisVars, dbVars, timeVars, restarts>>

\* Date.now() is read in the same turn, before the ZADD is sent: two requests
\* may share a millisecond, and their ZADDs may arrive in another order.
CheckEndtime(r) ==
    /\ pc[r] = "getEndtime"
    /\ \/ /\ T(r) \in ended
          /\ Goto(r, "refused")
          /\ UNCHANGED timeVars
       \/ /\ T(r) \notin ended
          /\ \E d \in Ticks :
                /\ clock' = clock + d
                /\ stamp' = [stamp EXCEPT ![r] = clock + d]
          /\ Goto(r, "zaddQueue")
    /\ UNCHANGED <<unit, myRank, pendingLog, redisVars, dbVars, restarts>>

----------------------------------------------------------------------------
(* recordUserRank *)

RecordUser(r) ==
    /\ pc[r] = "zaddQueue"
    /\ queue' = [queue EXCEPT ![T(r)][U(r)] = stamp[r]]
    /\ stamp' = [stamp EXCEPT ![r] = 0]
    /\ Goto(r, "zrank")
    /\ UNCHANGED <<unit, myRank, pendingLog, stock, issued, rank, ended, dbVars,
                   clock, restarts>>

\* The members of a sorted set before u: by score, then by member (as strings,
\* here user ids of one length).
Before(q, u) ==
    {v \in User : /\ q[v] > 0
                  /\ \/ q[v] < q[u]
                     \/ q[v] = q[u] /\ v < u}

\* Mutant: a rank that counts from one.
RankFromOne(q, u) == IF q[u] = 0 THEN NoRank ELSE Cardinality(Before(q, u)) + 1

\* ZRANK, null when u is no member.
RankIn(q, u) == IF q[u] = 0 THEN NoRank ELSE Cardinality(Before(q, u))

ReadRank(r) ==
    /\ pc[r] = "zrank"
    /\ myRank' = [myRank EXCEPT ![r] = RankIn(queue[T(r)], U(r))]
    /\ Goto(r, "decr")
    /\ UNCHANGED <<unit, pendingLog, redisVars, dbVars, timeVars, restarts>>

----------------------------------------------------------------------------
(* stock *)

\* Mutants: the comparison is off by one, either way.
SoldOutLate(remaining) == remaining < -1
SoldOutEarly(remaining) == remaining <= 0

SoldOut(remaining) == remaining < 0

DecrStock(r) ==
    /\ pc[r] = "decr"
    /\ stock' = [stock EXCEPT ![T(r)] = stock[T(r)] - 1]
    /\ LET remaining == stock[T(r)] - 1 IN
          /\ unit' = [unit EXCEPT ![r] = IF SoldOut(remaining) THEN "short"
                                                              ELSE "taken"]
          /\ Goto(r, IF SoldOut(remaining) THEN "zremShort" ELSE "save")
    /\ UNCHANGED <<myRank, pendingLog, queue, issued, rank, ended, dbVars, timeVars,
                   restarts>>

\* ZREM from the queue, which is no error when the user is not in it.
Zrem(r) == queue' = [queue EXCEPT ![T(r)][U(r)] = 0]

\* Mutant: the loser is not taken out of the queue.
RemoveShortForgotten(r) ==
    /\ pc[r] = "zremShort"
    /\ Goto(r, "incr")
    /\ UNCHANGED <<unit, myRank, pendingLog, redisVars, dbVars, timeVars, restarts>>

\* Sold out: removeUserRank, then the decrement is undone.
RemoveShort(r) ==
    /\ pc[r] = "zremShort"
    /\ Zrem(r)
    /\ Goto(r, "incr")
    /\ UNCHANGED <<unit, myRank, pendingLog, stock, issued, rank, ended, dbVars,
                   timeVars, restarts>>

\* Mutant: the decrement is not undone.
IncrStockForgotten(r) ==
    /\ pc[r] = "incr"
    /\ unit' = [unit EXCEPT ![r] = "returned"]
    /\ Goto(r, "soldOut")
    /\ UNCHANGED <<myRank, pendingLog, redisVars, dbVars, timeVars, restarts>>

\* Mutant: a retry after a lost reply increments twice.
IncrStockTwice(r) ==
    /\ pc[r] = "incr"
    /\ stock' = [stock EXCEPT ![T(r)] = stock[T(r)] + 2]
    /\ unit' = [unit EXCEPT ![r] = "returned"]
    /\ Goto(r, "soldOut")
    /\ UNCHANGED <<myRank, pendingLog, queue, issued, rank, ended, dbVars, timeVars,
                   restarts>>

IncrStock(r) ==
    /\ pc[r] = "incr"
    /\ stock' = [stock EXCEPT ![T(r)] = stock[T(r)] + 1]
    /\ unit' = [unit EXCEPT ![r] = "returned"]
    /\ Goto(r, "soldOut")
    /\ UNCHANGED <<myRank, pendingLog, queue, issued, rank, ended, dbVars, timeVars,
                   restarts>>

----------------------------------------------------------------------------
(* createAndSaveCoupon, finalizeUserRank, saveRankingLogAsync *)

SaveCoupon(r) ==
    /\ pc[r] = "save"
    /\ coupons' = coupons \cup {r}
    /\ Goto(r, "zaddIssued")
    /\ UNCHANGED <<unit, myRank, pendingLog, redisVars, rankingLog, timeVars, restarts>>

AddIssued(r) ==
    /\ pc[r] = "zaddIssued"
    /\ issued' = [issued EXCEPT ![T(r)] = @ \cup {U(r)}]
    /\ Goto(r, "zaddRank")
    /\ UNCHANGED <<unit, myRank, pendingLog, stock, queue, rank, ended, dbVars,
                   timeVars, restarts>>

\* ZADD refuses a null score: a request whose ZRANK found its user gone
\* ends with a server error here, after its coupon was saved.
AddRank(r) ==
    /\ pc[r] = "zaddRank"
    /\ \/ /\ myRank[r] = NoRank
          /\ Goto(r, "error")
          /\ UNCHANGED rank
       \/ /\ myRank[r] # NoRank
          /\ rank' = [rank EXCEPT ![T(r)][U(r)] = myRank[r]]
          /\ Goto(r, "zremQueue")
    /\ UNCHANGED <<unit, myRank, pendingLog, stock, queue, issued, ended, dbVars,
                   timeVars, restarts>>

\* The last await; then the log is scheduled and the coupon returned.
RemoveQueued(r) ==
    /\ pc[r] = "zremQueue"
    /\ Zrem(r)
    /\ pendingLog' = pendingLog \cup {r}
    /\ Goto(r, "ok")
    /\ UNCHANGED <<unit, myRank, stock, issued, rank, ended, dbVars, timeVars, restarts>>

\* The setImmediate callback; an error of the repository is swallowed.
SaveRankingLog(r) ==
    /\ r \in pendingLog
    /\ pendingLog' = pendingLog \ {r}
    /\ \/ rankingLog' = rankingLog \cup {r}
       \/ UNCHANGED rankingLog
    /\ UNCHANGED <<pc, unit, myRank, redisVars, coupons, timeVars, restarts>>

----------------------------------------------------------------------------
(* failures and the environment *)

\* Mutant: an error of the coupon repository is logged and ignored.
SaveErrorIgnored(r) ==
    /\ pc[r] \in Calls
    /\ Goto(r, IF pc[r] = "save" THEN "zaddIssued" ELSE "error")
    /\ UNCHANGED <<unit, myRank, pendingLog, redisVars, dbVars, timeVars, restarts>>

\* The call a request awaits is rejected: the catch block answers 500 and
\* undoes nothing.
CallFails(r) ==
    /\ pc[r] \in Calls
    /\ Goto(r, "error")
    /\ UNCHANGED <<unit, myRank, pendingLog, redisVars, dbVars, timeVars, restarts>>

\* The service stops and boots again.  Redis and MySQL keep their data, but a
\* development bootstrap runs initializeCouponStock.
Restart ==
    /\ restarts < MaxRestarts
    /\ restarts' = restarts + 1
    /\ pc' = [r \in Req |-> IF pc[r] \in Calls THEN "error" ELSE pc[r]]
    /\ pendingLog' = {}
    /\ stock' = IF Development THEN InitStock ELSE stock
    /\ UNCHANGED <<unit, myRank, queue, issued, rank, ended, dbVars, timeVars>>

\* The time in coupon:endtime:<t>, which an operator sets, passes.
IssuanceEnds(t) ==
    /\ t \in Timed \ ended
    /\ ended' = ended \cup {t}
    /\ UNCHANGED <<reqVars, stock, queue, issued, rank, dbVars, timeVars, restarts>>

----------------------------------------------------------------------------
\* One step of an issueCoupon call that is under way.
IssueStep(r) ==
    \/ CheckIssued(r) \/ CheckQueue(r) \/ CheckEndtime(r)
    \/ RecordUser(r) \/ ReadRank(r)
    \/ DecrStock(r) \/ RemoveShort(r) \/ IncrStock(r)
    \/ SaveCoupon(r) \/ AddIssued(r) \/ AddRank(r) \/ RemoveQueued(r)

Next ==
    \/ \E r \in Req : \/ Execute(r)
                      \/ IssueStep(r)
                      \/ SaveRankingLog(r)
                      \/ CallFails(r)
    \/ Restart
    \/ \E t \in Type : IssuanceEnds(t)

Spec == Init /\ [][Next]_vars

----------------------------------------------------------------------------
(* Properties *)

\* Every variable stays in its type.  In particular a recorded rank is a
\* position among the users, or null when ZRANK found no member.
TypeOK ==
    /\ pc \in [Req -> {"idle"} \cup Calls \cup Ends]
    /\ unit \in [Req -> Units]
    /\ myRank \in [Req -> NoRank .. Cardinality(User) - 1]
    /\ pendingLog \in SUBSET Req
    /\ stock \in [Type -> Int]
    /\ queue \in [Type -> [User -> Nat]]
    /\ issued \in [Type -> SUBSET User]
    /\ rank \in [Type -> [User -> NoRank .. Cardinality(User) - 1]]
    /\ ended \in SUBSET Type
    /\ coupons \in SUBSET Req
    /\ rankingLog \in SUBSET Req
    /\ clock \in Nat \ {0}
    /\ stamp \in [Req -> Nat]
    /\ \A r \in Req : pc[r] = "zaddQueue" => stamp[r] > 0
    /\ restarts \in 0 .. MaxRestarts

\* The Redis counter is, at every moment, the initial stock less the
\* decrements that requests hold: the ones that got a unit and the ones that
\* found none and have not executed their INCR (or failed before it).  No
\* interleaving, failure or restart makes it drift.
StockAccounting ==
    \A t \in Type :
        stock[t] = InitStock[t] - Cardinality(Taken(t)) - Cardinality(Short(t))

\* DECR-then-compare never issues more coupons of a type than its stock, with
\* any number of concurrent requests between the DECR and the INCR.
NoOversell ==
    \A t \in Type : Cardinality(Of(coupons, t)) <= InitStock[t]

\* A request is told that a type is sold out only when every unit has really
\* been taken: the transient over-decrement of one losing request never makes
\* another request lose a unit that is still there.
SoldOutOnlyWhenAllTaken ==
    \A r \in Req : unit[r] \in {"short", "returned"}
                      => Cardinality(Taken(T(r))) = InitStock[T(r)]

\* A user waits in coupon:queue only on behalf of a request that is still
\* between its ZADD and its ZREM, or of one that failed: without failures
\* nobody is left behind in the queue, where every later request of theirs
\* would be refused.
QueuedOnlyWhileServed ==
    \A t \in Type, u \in User :
        queue[t][u] > 0 =>
            \E r \in Of(Req, t) :
                /\ U(r) = u
                /\ pc[r] \in {"zrank", "decr", "zremShort", "save", "zaddIssued",
                              "zaddRank", "zremQueue", "error"}

\* What Redis and MySQL say of issued coupons agrees: a user is in
\* coupon:issued only with a coupon row, in coupon:rank only when in
\* coupon:issued, and a ranking log is written only for a coupon whose
\* request answered with success.
IssuedAgrees ==
    /\ \A t \in Type : \A u \in issued[t] :
          \E r \in Of(coupons, t) : U(r) = u
    /\ \A t \in Type, u \in User : rank[t][u] # NoRank => u \in issued[t]
    /\ \A r \in pendingLog \cup rankingLog : pc[r] = "ok" /\ r \in coupons

\* Seen from outside, issuing is the atomic quota of CouponQuota: a unit is
\* granted at the DECR, and a loser is turned away at its own DECR.
Quota == INSTANCE CouponQuota
           WITH Quota <- InitStock,
                granted <- {r \in Req : unit[r] = "taken"},
                turnedAway <- {r \in Req : unit[r] \in {"short", "returned"}}
ImplementsQuota == Quota!Spec

\* A user gets at most one coupon of a type, which checkCouponAvailability is
\* there to ensure.  Violated: the check and the ZADD are separate awaits.
OneCouponPerUser ==
    \A r1, r2 \in coupons :
        U(r1) = U(r2) /\ T(r1) = T(r2) => r1 = r2
============================================================================
