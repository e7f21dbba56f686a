--------------------------- MODULE ProductRanking ---------------------------
(***************************************************************************)
(* The sales ranking: one sorted set per day, product:ranking:<date>, that *)
(* orders count in (updateProductRanking) and failed payments count out of *)
(* (restoreProductRanking), and product:ranking:3d, into which a nightly   *)
(* job of every process adds the last three days (GetTopSellersUseCase).   *)
(*                                                                         *)
(* A sale is one item of an order: an error on one item does not touch the *)
(* others, so an order of several is as many sales.  A sorted set is a     *)
(* function from its members to their scores; the empty one is no key.     *)
(***************************************************************************)
EXTENDS Integers, Functions, FiniteSetsExt

CONSTANTS Sale,       \* the items of all orders
          Product,
          ProductOf,  \* the product of a sale
          Quantity,   \* and how many of it
          Process,    \* the processes of the service, each with its job
          LastSale,   \* bound: the last day on which a sale begins
          LastDay     \* bound: the day on which time stops

ASSUME SaleAssumption ==
    ProductOf \in [Sale -> Product] /\ Quantity \in [Sale -> Nat \ {0}]
ASSUME DayAssumption == LastSale \in Nat /\ LastDay \in Nat /\ LastSale <= LastDay

Day == 0 .. LastDay

VARIABLES day,       \* today
          daily,     \* the sorted set of each day
          ttl,       \* the day on which it expires, or Never
          overall,   \* product:ranking:3d
          ttl3d,     \* the day on which that expires, or Never
          pc,        \* what a sale awaits
          keyDay,    \* the day whose set it works on
          got,       \* the score it has read
          job,       \* what the job of a process awaits
          ranOn,     \* the last day on which it began
          days,      \* the days it has yet to add
          todo,      \* what is left of the day it is adding
          sum,       \* the score it has read from product:ranking:3d
          quiet,     \* history: nobody else changed a set since the job began
          noTtl      \* history: days with an update whose EXPIRE did not happen

saleVars == <<pc, keyDay, got, noTtl>>
jobVars == <<job, ranOn, days, todo, sum>>
vars == <<day, daily, ttl, overall, ttl3d, saleVars, jobVars, quiet>>

Never == -1
Empty == <<>>

Zadd(z, p, score) == [q \in DOMAIN z \cup {p} |-> IF q = p THEN score ELSE z[q]]

\* (score || 0), which a member without score has.
Score(z, p) == IF p \in DOMAIN z THEN z[p] ELSE 0

Exists(d) == daily[d] # Empty

\* A day before the first has no sorted set.
SetOf(d) == IF d \in Day THEN daily[d] ELSE Empty

----------------------------------------------------------------------------
Init ==
    /\ day = 0
    /\ daily = [d \in Day |-> Empty]
    /\ ttl = [d \in Day |-> Never]
    /\ overall = Empty
    /\ ttl3d = Never
    /\ pc = [s \in Sale |-> "new"]
    /\ keyDay = [s \in Sale |-> 0]
    /\ got = [s \in Sale |-> 0]
    /\ noTtl = {}
    /\ job = [i \in Process |-> "idle"]
    /\ ranOn = [i \in Process |-> Never]
    /\ days = [i \in Process |-> {}]
    /\ todo = [i \in Process |-> Empty]
    /\ sum = [i \in Process |-> 0]
    /\ quiet = [i \in Process |-> FALSE]

Goto(s, l) == pc' = [pc EXCEPT ![s] = l]
Await(i, l) == job' = [job EXCEPT ![i] = l]

\* What a sale has at hand while it awaits a command, and when it does not.
Keep(s, d, score) ==
    /\ keyDay' = [keyDay EXCEPT ![s] = d]
    /\ got' = [got EXCEPT ![s] = score]
Drop(s) == Keep(s, 0, 0)

Disturb(others) == quiet' = [i \in Process |-> quiet[i] /\ i \notin others]

----------------------------------------------------------------------------
(* updateProductRanking, for one item *)

\* Both rankings take the date once, before the first item: midnight may have
\* passed when they come to the item of this sale.
DateTaken == {day - 1, day} \cap Day

\* ZSCORE.
Count(s) ==
    /\ pc[s] = "new"
    /\ \E d \in DateTaken : /\ d <= LastSale
                            /\ Keep(s, d, Score(daily[d], ProductOf[s]))
    /\ Goto(s, "zadd")
    /\ UNCHANGED <<day, daily, ttl, overall, ttl3d, jobVars, quiet, noTtl>>

AddCount(s) ==
    /\ pc[s] = "zadd"
    /\ daily' = [daily EXCEPT ![keyDay[s]] =
                     Zadd(@, ProductOf[s], got[s] + Quantity[s])]
    /\ Disturb(Process)
    /\ Keep(s, keyDay[s], 0)
    /\ Goto(s, "expire")
    /\ UNCHANGED <<day, ttl, overall, ttl3d, jobVars, noTtl>>

\* Mutant: no EXPIRE is sent.
NotExpired(s) ==
    /\ pc[s] = "expire"
    /\ Drop(s)
    /\ Goto(s, "counted")
    /\ UNCHANGED <<day, daily, ttl, overall, ttl3d, jobVars, quiet, noTtl>>

\* Mutant: a TTL of two days.
ExpireInTwo(s) ==
    /\ pc[s] = "expire"
    /\ ttl' = [ttl EXCEPT ![keyDay[s]] = IF Exists(keyDay[s]) THEN day + 2 ELSE @]
    /\ Drop(s)
    /\ Goto(s, "counted")
    /\ UNCHANGED <<day, daily, overall, ttl3d, jobVars, quiet, noTtl>>

\* EXPIRE, four days; it does nothing to a key that is gone.
ExpireInFour(s) ==
    /\ pc[s] = "expire"
    /\ ttl' = [ttl EXCEPT ![keyDay[s]] = IF Exists(keyDay[s]) THEN day + 4 ELSE @]
    /\ Drop(s)
    /\ Goto(s, "counted")
    /\ UNCHANGED <<day, daily, overall, ttl3d, jobVars, quiet, noTtl>>

\* A command is rejected; the order stands.
CountFails(s) ==
    /\ pc[s] \in {"new", "zadd", "expire"}
    /\ Goto(s, "counted")
    /\ noTtl' = IF pc[s] = "expire" THEN noTtl \cup {keyDay[s]} ELSE noTtl
    /\ Drop(s)
    /\ UNCHANGED <<day, daily, ttl, overall, ttl3d, jobVars, quiet>>

----------------------------------------------------------------------------
(* restoreProductRanking, for one item: the set of the day of the           *)
(* cancellation, whenever it was sold                                       *)

Uncount(s) ==
    /\ pc[s] = "counted"
    /\ \E d \in DateTaken :
          IF ProductOf[s] \in DOMAIN daily[d]
          THEN Keep(s, d, daily[d][ProductOf[s]]) /\ Goto(s, "zaddLess")
          ELSE Goto(s, "restored") /\ UNCHANGED <<keyDay, got>>
    /\ UNCHANGED <<day, daily, ttl, overall, ttl3d, jobVars, quiet, noTtl>>

\* Mutant: Math.max(0, ...) is left out.
AddNegative(s) ==
    /\ pc[s] = "zaddLess"
    /\ daily' = [daily EXCEPT ![keyDay[s]] =
                     Zadd(@, ProductOf[s], got[s] - Quantity[s])]
    /\ Disturb(Process)
    /\ Drop(s)
    /\ Goto(s, "restored")
    /\ UNCHANGED <<day, ttl, overall, ttl3d, jobVars, noTtl>>

AddLess(s) ==
    /\ pc[s] = "zaddLess"
    /\ daily' = [daily EXCEPT ![keyDay[s]] =
                     Zadd(@, ProductOf[s], Max({0, got[s] - Quantity[s]}))]
    /\ Disturb(Process)
    /\ Drop(s)
    /\ Goto(s, "restored")
    /\ UNCHANGED <<day, ttl, overall, ttl3d, jobVars, noTtl>>

UncountFails(s) ==
    /\ pc[s] \in {"counted", "zaddLess"}
    /\ Drop(s)
    /\ Goto(s, "restored")
    /\ UNCHANGED <<day, daily, ttl, overall, ttl3d, jobVars, quiet, noTtl>>

----------------------------------------------------------------------------
(* cleanupOldRankings, then recalculateOverallRanking *)

\* The job fires at midnight, at most once a day in each process.
Fires(i) ==
    /\ job[i] = "idle"
    /\ ranOn[i] < day
    /\ ranOn' = [ranOn EXCEPT ![i] = day]

LastThree(d) == (d - 2) .. d

\* DEL of the set of three days ago, then the dates of the last three.
Cleanup(i) ==
    /\ Fires(i)
    /\ daily' = [d \in Day |-> IF d = day - 3 THEN Empty ELSE daily[d]]
    /\ ttl' = [d \in Day |-> IF d = day - 3 THEN Never ELSE ttl[d]]
    /\ days' = [days EXCEPT ![i] = LastThree(day)]
    /\ quiet' = [quiet EXCEPT ![i] = TRUE]
    /\ Await(i, "zrange")
    /\ UNCHANGED <<day, overall, ttl3d, saleVars, todo, sum>>

CleanupFails(i) ==
    /\ Fires(i)
    /\ UNCHANGED <<day, daily, ttl, overall, ttl3d, saleVars, job, days, todo, sum,
                   quiet>>

\* What follows when z is left of the day, and ds of the days.
NextRound(i, z, ds) ==
    /\ todo' = [todo EXCEPT ![i] = z]
    /\ days' = [days EXCEPT ![i] = ds]
    /\ Await(i, IF z # Empty THEN "zscore"
                ELSE IF ds # {} THEN "zrange" ELSE "expire")

\* ZRANGE of the latest day that is left.
Zrange(i) ==
    /\ job[i] = "zrange"
    /\ NextRound(i, SetOf(Max(days[i])), days[i] \ {Max(days[i])})
    /\ UNCHANGED <<day, daily, ttl, overall, ttl3d, saleVars, ranOn, sum, quiet>>

\* ZRANGE lists the members from the lowest score up.
First(z) == CHOOSE p \in DOMAIN z : \A q \in DOMAIN z : z[p] <= z[q]

Zscore(i) ==
    /\ job[i] = "zscore"
    /\ sum' = [sum EXCEPT ![i] = Score(overall, First(todo[i]))]
    /\ Await(i, "zadd")
    /\ UNCHANGED <<day, daily, ttl, overall, ttl3d, saleVars, ranOn, days, todo, quiet>>

\* Mutant: the score is set to that of the day, not added.
Overwrite(i) ==
    /\ job[i] = "zadd"
    /\ LET p == First(todo[i])
       IN  /\ overall' = Zadd(overall, p, todo[i][p])
           /\ NextRound(i, Restrict(todo[i], DOMAIN todo[i] \ {p}), days[i])
    /\ sum' = [sum EXCEPT ![i] = 0]
    /\ Disturb(Process \ {i})
    /\ UNCHANGED <<day, daily, ttl, ttl3d, saleVars, ranOn>>

Accumulate(i) ==
    /\ job[i] = "zadd"
    /\ LET p == First(todo[i])
       IN  /\ overall' = Zadd(overall, p, sum[i] + todo[i][p])
           /\ NextRound(i, Restrict(todo[i], DOMAIN todo[i] \ {p}), days[i])
    /\ sum' = [sum EXCEPT ![i] = 0]
    /\ Disturb(Process \ {i})
    /\ UNCHANGED <<day, daily, ttl, ttl3d, saleVars, ranOn>>

\* EXPIRE of product:ranking:3d, three days.
ExpireInThree(i) ==
    /\ job[i] = "expire"
    /\ ttl3d' = IF overall # Empty THEN day + 3 ELSE ttl3d
    /\ Await(i, "idle")
    /\ Disturb({i})
    /\ UNCHANGED <<day, daily, ttl, overall, saleVars, ranOn, days, todo, sum>>

\* A command is rejected, or the process dies: what was added stays.
JobFails(i) ==
    /\ job[i] # "idle"
    /\ Await(i, "idle")
    /\ days' = [days EXCEPT ![i] = {}]
    /\ todo' = [todo EXCEPT ![i] = Empty]
    /\ sum' = [sum EXCEPT ![i] = 0]
    /\ Disturb({i})
    /\ UNCHANGED <<day, daily, ttl, overall, ttl3d, saleVars, ranOn>>

----------------------------------------------------------------------------
(* Redis and the clock *)

ExpireDaily(d) ==
    /\ ttl[d] # Never /\ ttl[d] <= day
    /\ daily' = [daily EXCEPT ![d] = Empty]
    /\ ttl' = [ttl EXCEPT ![d] = Never]
    /\ Disturb(Process)
    /\ UNCHANGED <<day, overall, ttl3d, saleVars, jobVars>>

ExpireOverall ==
    /\ ttl3d # Never /\ ttl3d <= day
    /\ overall' = Empty
    /\ ttl3d' = Never
    /\ Disturb(Process)
    /\ UNCHANGED <<day, daily, ttl, saleVars, jobVars>>

\* Midnight may come between two steps of anything, but nothing lasts a day.
NextDay ==
    /\ day < LastDay
    /\ \A s \in Sale : pc[s] \in {"zadd", "expire", "zaddLess"} => keyDay[s] = day
    /\ \A i \in Process : job[i] # "idle" => ranOn[i] = day
    /\ day' = day + 1
    /\ UNCHANGED <<daily, ttl, overall, ttl3d, saleVars, jobVars, quiet>>

----------------------------------------------------------------------------
SaleStep(s) ==
    \/ Count(s) \/ AddCount(s) \/ ExpireInFour(s) \/ CountFails(s)
    \/ Uncount(s) \/ AddLess(s) \/ UncountFails(s)

JobStep(i) ==
    \/ Cleanup(i) \/ CleanupFails(i) \/ Zrange(i) \/ Zscore(i) \/ Accumulate(i)
    \/ ExpireInThree(i) \/ JobFails(i)

Next ==
    \/ \E s \in Sale : SaleStep(s)
    \/ \E i \in Process : JobStep(i)
    \/ \E d \in Day : ExpireDaily(d)
    \/ ExpireOverall
    \/ NextDay

\* Time passes, what was begun is finished or fails, Redis expires keys.
Fairness ==
    /\ WF_vars(NextDay)
    /\ \A s \in Sale : WF_vars(pc[s] \in {"zadd", "expire", "zaddLess"} /\ SaleStep(s))
    /\ \A i \in Process : WF_vars(job[i] # "idle" /\ JobStep(i))
    /\ \A d \in Day : WF_vars(ExpireDaily(d))

Spec == Init /\ [][Next]_vars /\ Fairness

----------------------------------------------------------------------------
(* Properties *)

SortedSet(z) == \E D \in SUBSET Product : z \in [D -> Nat]

\* Every variable stays in its type, no score is negative, and only a key that
\* exists has a TTL.
TypeOK ==
    /\ day \in Day
    /\ \A d \in Day : SortedSet(daily[d]) /\ (~Exists(d) => ttl[d] = Never)
    /\ ttl \in [Day -> {Never} \cup 0 .. LastDay + 4]
    /\ SortedSet(overall)
    /\ ttl3d \in {Never} \cup 3 .. LastDay + 3
    /\ pc \in [Sale -> {"new", "zadd", "expire", "counted", "zaddLess", "restored"}]
    /\ keyDay \in [Sale -> 0 .. day]
    /\ got \in [Sale -> Nat]
    /\ noTtl \subseteq Day
    /\ job \in [Process -> {"idle", "zrange", "zscore", "zadd", "expire"}]
    /\ ranOn \in [Process -> {Never} \cup 0 .. day]
    /\ \A i \in Process :
          /\ days[i] \subseteq LastThree(ranOn[i])
          /\ SortedSet(todo[i])
          /\ job[i] \in {"zscore", "zadd"} <=> todo[i] # Empty
    /\ sum \in [Process -> Nat]
    /\ quiet \in [Process -> BOOLEAN]

\* What the last three days have of a product when the job of i ran.
Window(i, p) ==
    LET Sold(d) == Score(SetOf(d), p)
    IN  Sold(ranOn[i] - 2) + Sold(ranOn[i] - 1) + Sold(ranOn[i])

Added(i) == job[i] = "expire" /\ quiet[i]

\* A job that nobody interfered with has put everything the last three days
\* sold into product:ranking:3d: a bestseller is not missed, whatever failed
\* runs, restores and expired keys went before.
OverallCoversWindow ==
    \A i \in Process, p \in Product : Added(i) => Score(overall, p) >= Window(i, p)

\* Neither the cleanup nor a TTL takes a day away while it is among the last
\* three, from which every job of these days has to read it.
KeptWhileInWindow ==
    [][\A d \in Day : Exists(d) /\ ~Exists(d)' => d \notin LastThree(day)]_vars

\* Every day is forgotten in the end, although jobs may fail or not run at all,
\* unless the EXPIRE of some update of that day did not happen.  (Its five days
\* must be within the bound.)
OldDayGoes ==
    \A d \in 0 .. LastDay - 5 : Exists(d) ~> ~Exists(d) \/ d \in noTtl

\* product:ranking:3d is the sum of the last three days, as docs/STEP13 and
\* docs/Policy say.  The job never clears it, so that each night adds days that
\* are in it already.
OverallIsWindow ==
    \A i \in Process, p \in Product : Added(i) => Score(overall, p) = Window(i, p)
============================================================================
