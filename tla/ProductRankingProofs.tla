------------------------ MODULE ProductRankingProofs ------------------------
(***************************************************************************)
(* Theorems about ProductRanking, for every set of sales, products and     *)
(* processes, and any number of days.                                      *)
(***************************************************************************)
EXTENDS ProductRanking, WellFoundedInduction, TLAPS

----------------------------------------------------------------------------
(* Sorted sets *)

LEMMA EmptySet ==
    /\ SortedSet(Empty)
    /\ \A p : Score(Empty, p) = 0
    /\ \A z : SortedSet(z) /\ z # Empty => DOMAIN z # {}
<1>1. Empty \in [{} -> Nat] /\ DOMAIN Empty = {}
  BY DEF Empty
<1>2. ASSUME NEW z, SortedSet(z), DOMAIN z = {} PROVE z = Empty
  <2>1. PICK D \in SUBSET Product : z \in [D -> Nat]
    BY <1>2 DEF SortedSet
  <2>2. z \in [{} -> Nat]
    BY <1>2, <2>1
  <2> QED
    BY <1>1, <2>2
<1>3. SortedSet(Empty)
  BY <1>1 DEF SortedSet
<1> QED
  BY <1>1, <1>2, <1>3 DEF Score

LEMMA Scores ==
    ASSUME NEW z, SortedSet(z), NEW p
    PROVE  /\ Score(z, p) \in Nat
           /\ p \in DOMAIN z => p \in Product /\ z[p] \in Nat /\ Score(z, p) = z[p]
  BY DEF SortedSet, Score

LEMMA Zadds ==
    ASSUME NEW z, SortedSet(z), NEW p \in Product, NEW v \in Nat
    PROVE  /\ SortedSet(Zadd(z, p, v)) /\ Zadd(z, p, v) # Empty
           /\ \A q : Score(Zadd(z, p, v), q) = IF q = p THEN v ELSE Score(z, q)
<1> DEFINE y == Zadd(z, p, v)
<1>1. PICK D \in SUBSET Product : z \in [D -> Nat]
  BY DEF SortedSet
<1>2. y \in [D \cup {p} -> Nat]
  BY <1>1 DEF Zadd
<1>3. \A q \in D \cup {p} : y[q] = IF q = p THEN v ELSE z[q]
  BY <1>1 DEF Zadd
<1> HIDE DEF y
<1>4. DOMAIN y = D \cup {p} /\ DOMAIN z = D /\ DOMAIN Empty = {}
  BY <1>1, <1>2 DEF Empty
<1>5. SortedSet(y) /\ y # Empty
  BY <1>2, <1>4 DEF SortedSet
<1>6. \A q : Score(y, q) = IF q = p THEN v ELSE Score(z, q)
  BY <1>3, <1>4 DEF Score
<1> QED
  BY <1>5, <1>6 DEF y

LEMMA Restricts ==
    ASSUME NEW z, SortedSet(z), NEW p
    PROVE  /\ SortedSet(Restrict(z, DOMAIN z \ {p}))
           /\ \A q : Score(Restrict(z, DOMAIN z \ {p}), q) = IF q = p THEN 0 ELSE Score(z, q)
<1>1. PICK D \in SUBSET Product : z \in [D -> Nat]
  BY DEF SortedSet
<1> DEFINE y == Restrict(z, D \ {p})
<1>2. y \in [D \ {p} -> Nat] /\ \A q \in D \ {p} : y[q] = z[q]
  BY <1>1 DEF Restrict
<1> HIDE DEF y
<1>3. DOMAIN y = D \ {p} /\ DOMAIN z = D
  BY <1>1, <1>2
<1>4. SortedSet(y)
  BY <1>2 DEF SortedSet
<1>5. \A q : Score(y, q) = IF q = p THEN 0 ELSE Score(z, q)
  BY <1>2, <1>3 DEF Score
<1> QED
  BY <1>3, <1>4, <1>5 DEF y

\* A set of natural numbers has a least one.
LEMMA Least ==
    ASSUME NEW S, S \subseteq Nat, S # {}
    PROVE  \E x \in S : \A y \in S : x <= y
<1> DEFINE R == OpToRel(<, Nat)
<1>1. \E x \in S : \A y \in S : ~ (<<y, x>> \in R)
  BY NatLessThanWellFounded, WFMin, Zenon
<1>2. \A x, y \in Nat : <<y, x>> \in R <=> y < x
  BY DEF OpToRel
<1> HIDE DEF R
<1>3. \A x, y \in Nat : ~(<<y, x>> \in R) => x <= y
  BY <1>2
<1> QED
  BY <1>1, <1>3

\* A set that is not empty has a first member.
LEMMA FirstIsMember ==
    ASSUME NEW z, SortedSet(z), z # Empty
    PROVE  First(z) \in DOMAIN z
<1>1. DOMAIN z # {} /\ \A p \in DOMAIN z : z[p] \in Nat
  BY EmptySet, Scores
<1> DEFINE S == {z[p] : p \in DOMAIN z}
<1>2. S \subseteq Nat /\ S # {}
  BY <1>1
<1>3. PICK x \in S : \A y \in S : x <= y
  BY <1>2, Least
<1>4. \E p \in DOMAIN z : \A q \in DOMAIN z : z[p] <= z[q]
  BY <1>3
<1> QED
  BY <1>4 DEF First

\* The latest of some of three days is one of them.
LEMMA LatestDay ==
    ASSUME NEW d \in Int, NEW S, S \subseteq LastThree(d), S # {}
    PROVE  Max(S) \in S
<1>1. \A x \in S : x = d \/ x = d - 1 \/ x = d - 2
  BY DEF LastThree
<1>2. \E x \in S : \A y \in S : x >= y
  <2>1. CASE d \in S
    BY <1>1, <2>1
  <2>2. CASE d \notin S /\ d - 1 \in S
    BY <1>1, <2>2
  <2>3. CASE d \notin S /\ d - 1 \notin S
    BY <1>1, <2>3
  <2> QED
    BY <2>1, <2>2, <2>3
<1> QED
  BY <1>2 DEF Max

\* The greater of two numbers.
LEMMA GreaterOf ==
    ASSUME NEW a \in Int, NEW b \in Int
    PROVE  Max({a, b}) = IF a >= b THEN a ELSE b
  BY DEF Max
----------------------------------------------------------------------------
(* The types.  Beyond TypeOK, a set expires when it has left the window by *)
(* then, and the place of a job says whether it has days to read.          *)

KeyTypes ==
    /\ day \in Day
    /\ DOMAIN daily = Day
    /\ \A d \in Day : SortedSet(daily[d]) /\ (~Exists(d) => ttl[d] = Never)
    /\ ttl \in [Day -> {Never} \cup 0 .. LastDay + 4]
    /\ \A d \in Day : ttl[d] # Never => ttl[d] >= d + 4
    /\ SortedSet(overall)
    /\ ttl3d \in {Never} \cup 3 .. LastDay + 3

SaleTypes ==
    /\ pc \in [Sale -> {"new", "zadd", "expire", "counted", "zaddLess", "restored"}]
    /\ keyDay \in [Sale -> 0 .. day]
    /\ got \in [Sale -> Nat]
    /\ noTtl \subseteq Day

JobPlace(i) ==
    /\ days[i] \subseteq LastThree(ranOn[i])
    /\ SortedSet(todo[i])
    /\ job[i] \in {"zscore", "zadd"} <=> todo[i] # Empty
    /\ job[i] \in {"idle", "expire"} => days[i] = {}
    /\ job[i] = "zrange" => days[i] # {}
    /\ job[i] # "idle" => ranOn[i] # Never

JobTypes ==
    /\ job \in [Process -> {"idle", "zrange", "zscore", "zadd", "expire"}]
    /\ ranOn \in [Process -> {Never} \cup 0 .. day]
    /\ DOMAIN days = Process /\ DOMAIN todo = Process
    /\ \A i \in Process : JobPlace(i)
    /\ sum \in [Process -> Nat]
    /\ quiet \in [Process -> BOOLEAN]

TInv == KeyTypes /\ SaleTypes /\ JobTypes

LEMMA TypesImply == TInv => TypeOK
  BY DEF TypeOK, TInv, KeyTypes, SaleTypes, JobTypes, JobPlace

LEMMA Days ==
    ASSUME KeyTypes
    PROVE  /\ day \in Nat /\ day <= LastDay /\ LastDay \in Nat
           /\ \A d : d \in Day <=> d \in Nat /\ d <= LastDay
           /\ \A d : d \in 0 .. day => d \in Day
  BY DayAssumption DEF KeyTypes, Day

LEMMA InitTypes == Init => TInv
<1> SUFFICES ASSUME Init PROVE TInv
  OBVIOUS
<1>1. KeyTypes
  BY EmptySet, DayAssumption DEF Init, KeyTypes, Exists, Day
<1>2. SaleTypes
  BY DEF Init, SaleTypes
<1>3. JobTypes
  BY EmptySet DEF Init, JobTypes, JobPlace
<1> QED
  BY <1>1, <1>2, <1>3 DEF TInv

LEMMA KeysStay ==
    ASSUME KeyTypes, UNCHANGED <<day, daily, ttl, overall, ttl3d>>
    PROVE  KeyTypes'
  BY DEF KeyTypes, Exists

LEMMA SalesStay ==
    ASSUME SaleTypes, UNCHANGED <<day, saleVars>>
    PROVE  SaleTypes'
  BY DEF SaleTypes, saleVars

LEMMA JobsStay ==
    ASSUME JobTypes, UNCHANGED <<day, jobVars>>, quiet' \in [Process -> BOOLEAN]
    PROVE  JobTypes'
<1>1. \A i \in Process : JobPlace(i)'
  BY DEF JobTypes, JobPlace, jobVars
<1> QED
  BY <1>1 DEF JobTypes, jobVars

\* A score is written into the set of a day.
LEMMA DailyWritten ==
    ASSUME KeyTypes, NEW d \in Day, NEW p \in Product, NEW v \in Nat,
           daily' = [daily EXCEPT ![d] = Zadd(@, p, v)],
           UNCHANGED <<day, ttl, overall, ttl3d>>
    PROVE  KeyTypes'
<1>1. SortedSet(Zadd(daily[d], p, v)) /\ Zadd(daily[d], p, v) # Empty
  BY Zadds DEF KeyTypes
<1>2. DOMAIN daily' = Day
      /\ \A e \in Day : daily'[e] = IF e = d THEN Zadd(daily[d], p, v) ELSE daily[e]
  BY DEF KeyTypes
<1> QED
  BY <1>1, <1>2 DEF KeyTypes, Exists

\* A set is gone.
LEMMA DailyGone ==
    ASSUME KeyTypes, NEW d, DOMAIN daily' = Day,
           \A e \in Day : daily'[e] = IF e = d THEN Empty ELSE daily[e],
           ttl' = [e \in Day |-> IF e = d THEN Never ELSE ttl[e]],
           UNCHANGED <<day, overall, ttl3d>>
    PROVE  KeyTypes'
<1>1. \A e \in Day : SortedSet(daily'[e]) /\ (daily'[e] = Empty => ttl'[e] = Never)
  BY EmptySet DEF KeyTypes, Exists
<1> QED
  BY <1>1 DEF KeyTypes, Exists

\* A job goes on, and nobody else's moves.
LEMMA JobGoes ==
    ASSUME JobTypes, day' = day, NEW i \in Process,
           job' \in [Process -> {"idle", "zrange", "zscore", "zadd", "expire"}],
           ranOn' \in [Process -> {Never} \cup 0 .. day],
           DOMAIN days' = Process, DOMAIN todo' = Process,
           sum' \in [Process -> Nat], quiet' \in [Process -> BOOLEAN],
           \A k \in Process \ {i} : /\ job'[k] = job[k] /\ ranOn'[k] = ranOn[k]
                                    /\ days'[k] = days[k] /\ todo'[k] = todo[k],
           JobPlace(i)'
    PROVE  JobTypes'
<1>1. ASSUME NEW k \in Process \ {i} PROVE JobPlace(k)'
  BY DEF JobTypes, JobPlace
<1> QED
  BY <1>1 DEF JobTypes

\* What a sale does to the sets and to itself.
LEMMA SaleKeepsTypes ==
    ASSUME TInv, NEW s \in Sale, SaleStep(s)
    PROVE  TInv'
<1>1. KeyTypes /\ SaleTypes /\ JobTypes
  BY DEF TInv
<1>2. /\ keyDay[s] \in 0 .. day /\ keyDay[s] \in Day /\ DateTaken \subseteq 0 .. day
      /\ got[s] \in Nat /\ ProductOf[s] \in Product /\ Quantity[s] \in Nat
      /\ \A e \in Day : SortedSet(daily[e])
      /\ DateTaken \subseteq Day /\ 0 \in 0 .. day
  BY <1>1, Days, SaleAssumption DEF KeyTypes, SaleTypes, DateTaken
<1>3. quiet' \in [Process -> BOOLEAN]
  BY <1>1
     DEF JobTypes, SaleStep, Count, AddCount, ExpireInFour, CountFails, Uncount, AddLess,
         UncountFails, Disturb
<1>4. UNCHANGED <<day, jobVars>>
  BY DEF SaleStep, Count, AddCount, ExpireInFour, CountFails, Uncount, AddLess,
         UncountFails
<1>5. JobTypes'
  BY <1>1, <1>3, <1>4, JobsStay
<1>6. ASSUME UNCHANGED <<daily, ttl, overall, ttl3d>>, SaleTypes' PROVE TInv'
  BY <1>1, <1>4, <1>5, <1>6, KeysStay DEF TInv
<1> USE DEF Goto, Keep, Drop, SaleTypes
<1>7. CASE Count(s)
  <2>1. \A d \in DateTaken : Score(daily[d], ProductOf[s]) \in Nat
    BY <1>2, Scores
  <2> QED
    BY <1>1, <1>2, <1>6, <1>7, <2>1 DEF Count
<1>8. CASE AddCount(s)
  <2>1. got[s] + Quantity[s] \in Nat
    BY <1>2
  <2>2. KeyTypes'
    BY <1>1, <1>2, <1>8, <2>1, DailyWritten DEF AddCount
  <2>3. SaleTypes'
    BY <1>1, <1>2, <1>8 DEF AddCount
  <2> QED
    BY <1>5, <2>2, <2>3 DEF TInv
<1>9. CASE ExpireInFour(s)
  <2>1. /\ ttl' = [ttl EXCEPT ![keyDay[s]] = IF Exists(keyDay[s]) THEN day + 4 ELSE @]
        /\ UNCHANGED <<day, daily, overall, ttl3d>>
    BY <1>9 DEF ExpireInFour
  <2>2. KeyTypes'
    BY <1>1, <1>2, <2>1, Days DEF KeyTypes, Exists, Never
  <2>3. SaleTypes'
    BY <1>1, <1>2, <1>9 DEF ExpireInFour
  <2> QED
    BY <1>5, <2>2, <2>3 DEF TInv
<1>10. CASE CountFails(s)
  BY <1>1, <1>2, <1>6, <1>10 DEF CountFails
<1>11. CASE Uncount(s)
  <2>1. \A d \in DateTaken :
           ProductOf[s] \in DOMAIN daily[d] => daily[d][ProductOf[s]] \in Nat
    BY <1>2, Scores
  <2> QED
    BY <1>1, <1>2, <1>6, <1>11, <2>1 DEF Uncount
<1>12. CASE AddLess(s)
  <2>1. Max({0, got[s] - Quantity[s]}) \in Nat
    BY <1>2, GreaterOf
  <2>2. KeyTypes'
    BY <1>1, <1>2, <1>12, <2>1, DailyWritten DEF AddLess
  <2>3. SaleTypes'
    BY <1>1, <1>2, <1>12 DEF AddLess
  <2> QED
    BY <1>5, <2>2, <2>3 DEF TInv
<1>13. CASE UncountFails(s)
  BY <1>1, <1>2, <1>6, <1>13 DEF UncountFails
<1> QED
  BY <1>7, <1>8, <1>9, <1>10, <1>11, <1>12, <1>13 DEF SaleStep

\* The days and members a job has in hand.
LEMMA InHand ==
    ASSUME TInv, NEW i \in Process
    PROVE  /\ ranOn[i] \in Int /\ SortedSet(todo[i]) /\ SortedSet(overall)
           /\ \A d : SortedSet(SetOf(d)) /\ \A p : Score(SetOf(d), p) \in Nat
           /\ job[i] = "zrange" => /\ Max(days[i]) \in days[i] /\ todo[i] = Empty
           /\ job[i] \in {"zscore", "zadd"} =>
                 /\ First(todo[i]) \in DOMAIN todo[i] /\ First(todo[i]) \in Product
                 /\ todo[i][First(todo[i])] \in Nat
<1>1. KeyTypes /\ JobTypes /\ JobPlace(i) /\ day \in Nat
  BY Days DEF TInv, JobTypes
<1>2. ranOn[i] \in Int /\ SortedSet(todo[i]) /\ SortedSet(overall)
  BY <1>1 DEF JobTypes, JobPlace, KeyTypes, Never
<1>3. \A d : SortedSet(SetOf(d))
  BY <1>1, EmptySet DEF KeyTypes, SetOf
<1>4. \A d, p : Score(SetOf(d), p) \in Nat
  BY <1>3, Scores
<1>5. job[i] = "zrange" => /\ Max(days[i]) \in days[i] /\ todo[i] = Empty
  BY <1>1, <1>2, LatestDay DEF JobPlace
<1>6. ASSUME job[i] \in {"zscore", "zadd"}
      PROVE  /\ First(todo[i]) \in DOMAIN todo[i] /\ First(todo[i]) \in Product
             /\ todo[i][First(todo[i])] \in Nat
  <2>1. todo[i] # Empty
    BY <1>1, <1>6 DEF JobPlace
  <2>2. First(todo[i]) \in DOMAIN todo[i]
    BY <1>2, <2>1, FirstIsMember
  <2> QED
    BY <1>2, <2>2, Scores
<1> QED
  BY <1>2, <1>3, <1>4, <1>5, <1>6

\* The round that follows.
LEMMA RoundGoes ==
    ASSUME JobTypes, day' = day, NEW i \in Process, ranOn[i] \in 0 .. day,
           NEW D, NEW z, NEW v \in Nat, NextRound(i, z, D), ranOn' = ranOn,
           sum' = [sum EXCEPT ![i] = v], quiet' \in [Process -> BOOLEAN],
           D \subseteq LastThree(ranOn[i]), SortedSet(z)
    PROVE  JobTypes'
<1> DEFINE j == IF z # Empty THEN "zscore" ELSE IF D # {} THEN "zrange" ELSE "expire"
<1>1. /\ job' = [job EXCEPT ![i] = j]
      /\ todo' = [todo EXCEPT ![i] = z] /\ days' = [days EXCEPT ![i] = D]
  BY DEF NextRound, Await
<1>2. job'[i] = j /\ todo'[i] = z /\ days'[i] = D /\ ranOn'[i] # Never
  BY <1>1 DEF JobTypes, Never
<1>3. JobPlace(i)'
  BY <1>2 DEF JobPlace
<1>4. /\ job' \in [Process -> {"idle", "zrange", "zscore", "zadd", "expire"}]
      /\ ranOn' \in [Process -> {Never} \cup 0 .. day] /\ sum' \in [Process -> Nat]
      /\ DOMAIN days' = Process /\ DOMAIN todo' = Process
  BY <1>1 DEF JobTypes
<1>5. \A k \in Process \ {i} : /\ job'[k] = job[k] /\ ranOn'[k] = ranOn[k]
                               /\ days'[k] = days[k] /\ todo'[k] = todo[k]
  BY <1>1 DEF JobTypes
<1> QED
  BY <1>3, <1>4, <1>5, JobGoes

\* What a job does to the sets and to itself.
LEMMA JobKeepsTypes ==
    ASSUME TInv, NEW i \in Process, JobStep(i)
    PROVE  TInv'
<1>1. KeyTypes /\ SaleTypes /\ JobTypes /\ JobPlace(i) /\ day \in Nat
  BY Days DEF TInv, JobTypes
<1>2. /\ job[i] \in {"idle", "zrange", "zscore", "zadd", "expire"}
      /\ ranOn[i] \in Int /\ sum[i] \in Nat
      /\ job[i] # "idle" => ranOn[i] \in 0 .. day
  BY <1>1 DEF JobTypes, JobPlace, Never
<1>3. UNCHANGED <<day, saleVars>>
  BY DEF JobStep, Cleanup, CleanupFails, Fires, Zrange, Zscore, Accumulate, ExpireInThree,
         JobFails
<1>4. SaleTypes'
  BY <1>1, <1>3, SalesStay
<1>5. quiet' \in [Process -> BOOLEAN]
  BY <1>1 DEF JobTypes, JobStep, Cleanup, CleanupFails, Zrange, Zscore, Accumulate,
              ExpireInThree, JobFails, Disturb
<1>6. ASSUME UNCHANGED <<daily, ttl, overall, ttl3d>>, JobTypes' PROVE TInv'
  BY <1>1, <1>3, <1>4, <1>6, KeysStay DEF TInv
<1> DEFINE Others == \A k \in Process \ {i} :
                        /\ job'[k] = job[k] /\ ranOn'[k] = ranOn[k]
                        /\ days'[k] = days[k] /\ todo'[k] = todo[k]
           Shapes ==
               /\ job' \in [Process -> {"idle", "zrange", "zscore", "zadd", "expire"}]
               /\ ranOn' \in [Process -> {Never} \cup 0 .. day]
               /\ DOMAIN days' = Process /\ DOMAIN todo' = Process
               /\ sum' \in [Process -> Nat]
<1>7. ASSUME Others, Shapes, JobPlace(i)' PROVE JobTypes'
  BY <1>1, <1>3, <1>5, <1>7, JobGoes
<1>8. CASE Cleanup(i)
  <2>1. KeyTypes'
    <3>1. /\ DOMAIN daily' = Day
          /\ \A e \in Day : daily'[e] = IF e = day - 3 THEN Empty ELSE daily[e]
          /\ ttl' = [e \in Day |-> IF e = day - 3 THEN Never ELSE ttl[e]]
          /\ UNCHANGED <<day, overall, ttl3d>>
      BY <1>8 DEF Cleanup
    <3> QED
      BY <1>1, <3>1, DailyGone
  <2>2. Others /\ Shapes
    BY <1>1, <1>8 DEF Cleanup, Fires, Await, JobTypes
  <2>3. /\ job'[i] = "zrange" /\ days'[i] = LastThree(day) /\ ranOn'[i] = day
        /\ todo'[i] = todo[i] /\ todo[i] = Empty
    BY <1>1, <1>8 DEF Cleanup, Fires, Await, JobTypes, JobPlace
  <2>4. day \in LastThree(day) /\ day # Never
    BY <1>1 DEF LastThree, Never
  <2>5. JobPlace(i)'
    BY <2>3, <2>4, EmptySet DEF JobPlace
  <2> QED
    BY <1>4, <1>7, <2>1, <2>2, <2>5 DEF TInv
<1>9. CASE CleanupFails(i)
  <2>1. Others /\ Shapes
    BY <1>1, <1>9 DEF CleanupFails, Fires, JobTypes
  <2>2. /\ job'[i] = "idle" /\ days'[i] = {} /\ todo'[i] = Empty
    BY <1>1, <1>9 DEF CleanupFails, Fires, JobTypes, JobPlace
  <2>3. JobPlace(i)'
    BY <2>2, EmptySet DEF JobPlace
  <2> QED
    BY <1>6, <1>7, <1>9, <2>1, <2>3 DEF CleanupFails
<1>10. CASE Zrange(i)
  <2> DEFINE D == days[i] \ {Max(days[i])}
             z == SetOf(Max(days[i]))
  <2>1. /\ NextRound(i, z, D) /\ ranOn' = ranOn /\ sum' = [sum EXCEPT ![i] = sum[i]]
        /\ job[i] = "zrange"
    BY <1>1, <1>10 DEF Zrange, JobTypes
  <2>2. D \subseteq LastThree(ranOn[i]) /\ SortedSet(z)
    BY <1>1, InHand DEF JobPlace
  <2> HIDE DEF D, z
  <2>3. JobTypes'
    BY <1>1, <1>2, <1>3, <1>5, <2>1, <2>2, RoundGoes
  <2> QED
    BY <1>6, <1>10, <2>3 DEF Zrange
<1>11. CASE Zscore(i)
  <2>1. job[i] = "zscore" /\ Score(overall, First(todo[i])) \in Nat
    BY <1>1, <1>11, Scores DEF Zscore, KeyTypes
  <2>2. Others /\ Shapes
    BY <1>1, <1>11, <2>1 DEF Zscore, Await, JobTypes
  <2>3. /\ job'[i] = "zadd" /\ days'[i] = days[i] /\ ranOn'[i] = ranOn[i]
        /\ todo'[i] = todo[i]
    BY <1>1, <1>11 DEF Zscore, Await, JobTypes
  <2>4. JobPlace(i)'
    BY <1>1, <2>1, <2>3 DEF JobPlace
  <2> QED
    BY <1>6, <1>7, <1>11, <2>2, <2>4 DEF Zscore
<1>12. CASE Accumulate(i)
  <2> DEFINE p == First(todo[i])
             z == Restrict(todo[i], DOMAIN todo[i] \ {p})
             v == sum[i] + todo[i][p]
  <2>1. /\ NextRound(i, z, days[i]) /\ ranOn' = ranOn /\ sum' = [sum EXCEPT ![i] = 0]
        /\ job[i] = "zadd" /\ overall' = Zadd(overall, p, v)
        /\ UNCHANGED <<day, daily, ttl, ttl3d>>
    BY <1>12 DEF Accumulate
  <2>2. p \in Product /\ v \in Nat /\ SortedSet(todo[i]) /\ SortedSet(overall)
    BY <1>2, <2>1, InHand
  <2>3. SortedSet(z) /\ days[i] \subseteq LastThree(ranOn[i])
    BY <1>1, <2>2, Restricts DEF JobPlace
  <2>4. SortedSet(overall')
    BY <2>1, <2>2, Zadds
  <2>5. KeyTypes'
    BY <1>1, <2>1, <2>4 DEF KeyTypes, Exists
  <2> HIDE DEF p, z, v
  <2>6. 0 \in Nat
    OBVIOUS
  <2>7. JobTypes'
    BY <1>1, <1>2, <1>3, <1>5, <2>1, <2>3, <2>6, RoundGoes
  <2> QED
    BY <1>4, <2>5, <2>7 DEF TInv
<1>13. CASE ExpireInThree(i)
  <2>1. KeyTypes'
    <3>1. day + 3 \in 3 .. LastDay + 3
      BY <1>1, Days
    <3> QED
      BY <1>1, <1>13, <3>1 DEF ExpireInThree, KeyTypes, Exists
  <2>2. Others /\ Shapes
    BY <1>1, <1>13 DEF ExpireInThree, Await, JobTypes
  <2>3. job'[i] = "idle" /\ days'[i] = {} /\ todo'[i] = Empty
    BY <1>1, <1>13 DEF ExpireInThree, Await, JobTypes, JobPlace
  <2>4. JobPlace(i)'
    BY <2>3, EmptySet DEF JobPlace
  <2> QED
    BY <1>4, <1>7, <2>1, <2>2, <2>4 DEF TInv
<1>14. CASE JobFails(i)
  <2>1. Others /\ Shapes
    BY <1>1, <1>14 DEF JobFails, Await, JobTypes
  <2>2. job'[i] = "idle" /\ days'[i] = {} /\ todo'[i] = Empty
    BY <1>1, <1>14 DEF JobFails, Await, JobTypes
  <2>3. JobPlace(i)'
    BY <2>2, EmptySet DEF JobPlace
  <2> QED
    BY <1>6, <1>7, <1>14, <2>1, <2>3 DEF JobFails
<1> QED
  BY <1>8, <1>9, <1>10, <1>11, <1>12, <1>13, <1>14 DEF JobStep

\* Keys expire, and days pass.
LEMMA RedisKeepsTypes ==
    ASSUME TInv, (\E d \in Day : ExpireDaily(d)) \/ ExpireOverall \/ NextDay
    PROVE  TInv'
<1>1. KeyTypes /\ SaleTypes /\ JobTypes
  BY DEF TInv
<1>2. ASSUME NEW d \in Day, ExpireDaily(d) PROVE TInv'
  <2>1. quiet' \in [Process -> BOOLEAN] /\ UNCHANGED <<day, saleVars, jobVars>>
    BY <1>1, <1>2 DEF ExpireDaily, Disturb, JobTypes
  <2>2. KeyTypes'
    <3>1. /\ DOMAIN daily' = Day
          /\ \A e \in Day : daily'[e] = IF e = d THEN Empty ELSE daily[e]
          /\ ttl' = [e \in Day |-> IF e = d THEN Never ELSE ttl[e]]
          /\ UNCHANGED <<day, overall, ttl3d>>
      BY <1>1, <1>2 DEF ExpireDaily, KeyTypes
    <3> QED
      BY <1>1, <3>1, DailyGone
  <2> QED
    BY <1>1, <2>1, <2>2, SalesStay, JobsStay DEF TInv
<1>3. CASE ExpireOverall
  <2>1. quiet' \in [Process -> BOOLEAN] /\ UNCHANGED <<day, saleVars, jobVars>>
    BY <1>1, <1>3 DEF ExpireOverall, Disturb, JobTypes
  <2>2. KeyTypes'
    BY <1>1, <1>3, EmptySet DEF ExpireOverall, KeyTypes, Exists
  <2> QED
    BY <1>1, <2>1, <2>2, SalesStay, JobsStay DEF TInv
<1>4. CASE NextDay
  <2>1. day' \in Day /\ 0 .. day \subseteq 0 .. day'
    BY <1>1, <1>4, Days DEF NextDay
  <2>2. KeyTypes' /\ SaleTypes'
    BY <1>1, <1>4, <2>1 DEF NextDay, KeyTypes, SaleTypes, Exists, saleVars
  <2>3. \A i \in Process : JobPlace(i)'
    BY <1>1, <1>4 DEF NextDay, JobTypes, JobPlace, jobVars
  <2>4. JobTypes'
    BY <1>1, <1>4, <2>1, <2>3 DEF NextDay, JobTypes, jobVars
  <2> QED
    BY <2>2, <2>4 DEF TInv
<1> QED
  BY <1>2, <1>3, <1>4

LEMMA NextTypes == TInv /\ [Next]_vars => TInv'
<1> SUFFICES ASSUME TInv, [Next]_vars PROVE TInv'
  OBVIOUS
<1>1. CASE UNCHANGED vars
  <2>1. KeyTypes /\ SaleTypes /\ JobTypes
    BY DEF TInv
  <2>2. quiet' \in [Process -> BOOLEAN]
    BY <1>1, <2>1 DEF vars, JobTypes
  <2> QED
    BY <1>1, <2>1, <2>2, KeysStay, SalesStay, JobsStay DEF TInv, vars
<1> QED
  BY <1>1, SaleKeepsTypes, JobKeepsTypes, RedisKeepsTypes DEF Next

LEMMA TypesHold == Spec => []TInv
  BY InitTypes, NextTypes, PTL DEF Spec

\* Every variable keeps its type whatever orders, jobs and expiries do to the
\* sorted sets of updateProductRanking and recalculateOverallRanking: no score is
\* negative, and no key that is gone has a TTL.
THEOREM TypeCorrect == Spec => []TypeOK
  BY TypesHold, TypesImply, PTL

----------------------------------------------------------------------------
(* Sets of the window are kept *)

\* Neither cleanupOldRankings nor a TTL takes the set of one of the last three
\* days away.
THEOREM WindowKept == Spec => KeptWhileInWindow
<1> DEFINE Kept == \A d \in Day : Exists(d) /\ ~Exists(d)' => d \notin LastThree(day)
<1>1. TInv /\ [Next]_vars => [Kept]_vars
  <2> SUFFICES ASSUME TInv, Next, NEW d \in Day, Exists(d), ~Exists(d)',
                      d \in LastThree(day)
               PROVE  FALSE
    OBVIOUS
  <2>1. /\ KeyTypes /\ SaleTypes /\ JobTypes /\ day \in Nat
        /\ d \in Int /\ d >= day - 2 /\ d <= day
    BY Days DEF TInv, LastThree, Day
  <2>2. daily' # daily
    BY DEF Exists
  <2>3. ASSUME NEW s \in Sale, SaleStep(s) PROVE FALSE
    <3>1. /\ keyDay[s] \in Day /\ got[s] \in Nat
          /\ ProductOf[s] \in Product /\ Quantity[s] \in Nat
          /\ Max({0, got[s] - Quantity[s]}) \in Nat /\ got[s] + Quantity[s] \in Nat
      BY <2>1, Days, SaleAssumption, GreaterOf DEF SaleTypes
    <3>2. PICK v \in Nat : daily' = [daily EXCEPT ![keyDay[s]] = Zadd(@, ProductOf[s], v)]
      BY <2>2, <2>3, <3>1 DEF SaleStep, Count, AddCount, ExpireInFour, CountFails, Uncount,
                              AddLess, UncountFails
    <3>3. daily'[d] = IF d = keyDay[s] THEN Zadd(daily[d], ProductOf[s], v) ELSE daily[d]
      BY <2>1, <3>2 DEF KeyTypes
    <3>4. Zadd(daily[d], ProductOf[s], v) # Empty
      BY <2>1, <3>1, Zadds DEF KeyTypes
    <3> QED
      BY <3>3, <3>4 DEF Exists
  <2>4. ASSUME NEW i \in Process, JobStep(i) PROVE FALSE
    <3>1. Cleanup(i)
      BY <2>2, <2>4 DEF JobStep, Cleanup, CleanupFails, Zrange, Zscore, Accumulate,
                        ExpireInThree, JobFails
    <3>2. daily'[d] = daily[d]
      BY <2>1, <3>1 DEF Cleanup
    <3> QED
      BY <3>2 DEF Exists
  <2>5. ASSUME NEW e \in Day, ExpireDaily(e) PROVE FALSE
    <3>1. d = e
      BY <2>1, <2>5 DEF ExpireDaily, Exists, KeyTypes
    <3>2. ttl[d] \in Int /\ ttl[d] >= d + 4 /\ ttl[d] <= day
      BY <2>1, <2>5, <3>1 DEF ExpireDaily, KeyTypes, Never
    <3> QED
      BY <2>1, <3>2
  <2>6. ~(ExpireOverall \/ NextDay)
    BY <2>2 DEF ExpireOverall, NextDay
  <2> QED
    BY <2>3, <2>4, <2>5, <2>6 DEF Next
<1> QED
  BY <1>1, TypesHold, PTL DEF Spec, KeptWhileInWindow

----------------------------------------------------------------------------
(* A job in the middle of its rounds: what it has added and what it has    *)
(* yet to add make up the window, and the score it is about to add to is   *)
(* the one that is there.                                                  *)

Owed(i, d, p) == IF d \in days[i] THEN Score(SetOf(d), p) ELSE 0

Rest(i, p) ==
    Owed(i, ranOn[i] - 2, p) + Owed(i, ranOn[i] - 1, p) + Owed(i, ranOn[i], p)
      + Score(todo[i], p)

Covers(i) ==
    quiet[i] /\ job[i] # "idle" =>
       /\ job[i] = "zadd" => sum[i] = Score(overall, First(todo[i]))
       /\ \A p \in Product : Score(overall, p) + Rest(i, p) >= Window(i, p)

Covered == \A i \in Process : Covers(i)

\* At the end nothing is owed.
LEMMA CoveredAtEnd == TInv /\ Covered => OverallCoversWindow
<1> SUFFICES ASSUME TInv, Covered, NEW i \in Process, NEW p \in Product, Added(i)
             PROVE  Score(overall, p) >= Window(i, p)
  BY DEF OverallCoversWindow
<1>1. JobPlace(i) /\ Score(overall, p) \in Nat
  BY Scores DEF TInv, KeyTypes, JobTypes
<1>2. todo[i] = Empty /\ days[i] = {}
  BY <1>1 DEF Added, JobPlace
<1>3. Rest(i, p) = 0
  BY <1>2, EmptySet DEF Rest, Owed
<1> QED
  BY <1>1, <1>3 DEF Added, Covered, Covers

\* Nothing that a job has at hand or reads has changed.
LEMMA CoversStay ==
    ASSUME NEW i \in Process, Covers(i), quiet'[i] => quiet[i],
           daily' = daily, overall' = overall, job'[i] = job[i], ranOn'[i] = ranOn[i],
           days'[i] = days[i], todo'[i] = todo[i], sum'[i] = sum[i]
    PROVE  Covers(i)'
<1>1. \A p : Rest(i, p)' = Rest(i, p) /\ Window(i, p)' = Window(i, p)
  BY DEF Rest, Owed, Window, SetOf
<1> QED
  BY <1>1 DEF Covers

\* A day that is deleted is owed no longer, and counts no longer.
LEMMA CoversGone ==
    ASSUME TInv, NEW i \in Process, Covers(i), quiet'[i] => quiet[i], NEW d \in Int,
           \A e \in Day : daily'[e] = IF e = d THEN Empty ELSE daily[e],
           overall' = overall, job'[i] = job[i], ranOn'[i] = ranOn[i],
           days'[i] = days[i], todo'[i] = todo[i], sum'[i] = sum[i]
    PROVE  Covers(i)'
<1> SUFFICES ASSUME quiet'[i], job'[i] # "idle" PROVE Covers(i)'
  BY DEF Covers
<1>1. job[i] = "zadd" => sum[i] = Score(overall, First(todo[i]))
  BY DEF Covers
<1>2. ASSUME NEW p \in Product
      PROVE  (Score(overall, p) + Rest(i, p) >= Window(i, p))'
  <2>1. /\ ranOn[i] \in Int /\ Score(overall, p) \in Nat /\ Score(todo[i], p) \in Nat
        /\ \A e : Score(SetOf(e), p) \in Nat
    BY InHand, Scores
  <2>2. \A e : Score(SetOf(e), p)' = IF e = d THEN 0 ELSE Score(SetOf(e), p)
    BY EmptySet DEF SetOf, Score
  <2>3. \A e : Owed(i, e, p)' = IF e \in days[i] /\ e # d THEN Score(SetOf(e), p) ELSE 0
    BY <2>2 DEF Owed
  <2>4. Score(overall, p) + Rest(i, p) >= Window(i, p)
    BY DEF Covers
  <2> QED
    BY <2>1, <2>2, <2>3, <2>4 DEF Rest, Window, Owed
<1> QED
  BY <1>1, <1>2 DEF Covers

\* The job itself.
LEMMA JobCovers ==
    ASSUME TInv, NEW i \in Process, Covers(i), JobStep(i)
    PROVE  Covers(i)'
<1>1. KeyTypes /\ JobTypes /\ JobPlace(i) /\ day \in Nat
  BY Days DEF TInv, JobTypes
<1>2. /\ ranOn[i] \in Int /\ sum[i] \in Nat
      /\ \A p : /\ Score(overall, p) \in Nat /\ Score(todo[i], p) \in Nat
                /\ \A e : Score(SetOf(e), p) \in Nat
  BY <1>1, InHand, Scores DEF JobTypes
<1>3. CASE Cleanup(i)
  <2>1. /\ job'[i] = "zrange" /\ days'[i] = LastThree(day) /\ ranOn'[i] = day
        /\ todo'[i] = Empty /\ overall' = overall
    BY <1>1, <1>3 DEF Cleanup, Fires, Await, JobTypes, JobPlace
  <2>2. ASSUME NEW p \in Product
        PROVE  (Score(overall, p) + Rest(i, p) >= Window(i, p))'
    <3>1. \A e \in {day - 2, day - 1, day} : e \in days'[i] /\ e # day - 3
      BY <1>1, <2>1 DEF LastThree
    <3>2. \A e \in {day - 2, day - 1, day} : Score(SetOf(e), p)' = Score(SetOf(e), p)
      BY <1>1, <1>3, <3>1 DEF Cleanup, SetOf, Score
    <3>3. Rest(i, p)' = Window(i, p)'
      BY <1>1, <1>2, <2>1, <3>1, <3>2, EmptySet DEF Rest, Owed, Window
    <3>4. Window(i, p)' \in Int
      BY <1>1, <1>2, <2>1, <3>2 DEF Window
    <3> QED
      BY <1>2, <2>1, <3>3, <3>4
  <2> QED
    BY <2>1, <2>2 DEF Covers
<1>4. CASE CleanupFails(i)
  BY <1>4 DEF CleanupFails, Fires, Covers
<1>5. CASE Zrange(i)
  <2> DEFINE m == Max(days[i])
  <2>1. /\ m \in days[i] /\ todo[i] = Empty /\ days[i] \subseteq LastThree(ranOn[i])
        /\ job[i] = "zrange"
    BY <1>1, <1>5, InHand DEF Zrange, JobPlace
  <2>2. /\ job'[i] \in {"zscore", "zrange", "expire"} /\ ranOn'[i] = ranOn[i]
        /\ days'[i] = days[i] \ {m} /\ todo'[i] = SetOf(m)
        /\ UNCHANGED <<daily, overall, quiet>>
    BY <1>1, <1>5 DEF Zrange, NextRound, Await, JobTypes
  <2> HIDE DEF m
  <2>3. ASSUME NEW p \in Product PROVE Rest(i, p)' = Rest(i, p) /\ Window(i, p)' = Window(i, p)
    <3>1. m = ranOn[i] - 2 \/ m = ranOn[i] - 1 \/ m = ranOn[i]
      BY <1>2, <2>1 DEF LastThree
    <3>2. \A e : Score(SetOf(e), p)' = Score(SetOf(e), p)
      BY <2>2 DEF SetOf, Score
    <3>3. \A e : Owed(i, e, p)' = IF e = m THEN 0 ELSE Owed(i, e, p)
      BY <2>2, <3>2 DEF Owed
    <3>4. Owed(i, m, p) = Score(SetOf(m), p) /\ \A e : Owed(i, e, p) \in Nat
      BY <1>2, <2>1 DEF Owed
    <3>5. Score(todo[i], p) = 0 /\ Score(todo[i], p)' = Score(SetOf(m), p)
      BY <2>1, <2>2, EmptySet DEF Score
    <3>6. Window(i, p)' = Window(i, p)
      BY <2>2, <3>2 DEF Window
    <3> QED
      BY <1>2, <2>2, <3>1, <3>3, <3>4, <3>5, <3>6 DEF Rest
  <2> QED
    BY <2>1, <2>2, <2>3 DEF Covers
<1>6. CASE Zscore(i)
  <2>1. /\ job[i] # "idle" /\ sum'[i] = Score(overall, First(todo[i]))
        /\ ranOn'[i] = ranOn[i] /\ days'[i] = days[i] /\ todo'[i] = todo[i]
        /\ UNCHANGED <<daily, overall, quiet>>
    BY <1>1, <1>6 DEF Zscore, Await, JobTypes
  <2>2. \A p : Rest(i, p)' = Rest(i, p) /\ Window(i, p)' = Window(i, p)
    BY <2>1 DEF Rest, Owed, Window, SetOf
  <2> QED
    BY <2>1, <2>2 DEF Covers
<1>7. CASE Accumulate(i)
  <2> DEFINE f == First(todo[i])
             z == Restrict(todo[i], DOMAIN todo[i] \ {f})
             v == sum[i] + todo[i][f]
  <2>1. /\ job[i] = "zadd" /\ overall' = Zadd(overall, f, v)
        /\ job'[i] \in {"zscore", "zrange", "expire"}
        /\ ranOn'[i] = ranOn[i] /\ days'[i] = days[i] /\ todo'[i] = z
        /\ daily' = daily /\ quiet'[i] = quiet[i]
    BY <1>1, <1>7 DEF Accumulate, NextRound, Await, Disturb, JobTypes
  <2>2. /\ f \in Product /\ v \in Nat /\ SortedSet(todo[i]) /\ SortedSet(overall)
        /\ v = sum[i] + Score(todo[i], f)
    BY <1>2, <2>1, InHand, Scores
  <2>3. \A p : /\ Score(z, p) = IF p = f THEN 0 ELSE Score(todo[i], p)
               /\ Score(overall', p) = IF p = f THEN v ELSE Score(overall, p)
    <3>1. \A p : Score(z, p) = IF p = f THEN 0 ELSE Score(todo[i], p)
      BY <2>2, Restricts
    <3> HIDE DEF f, z, v
    <3>2. \A p : Score(Zadd(overall, f, v), p) = IF p = f THEN v ELSE Score(overall, p)
      BY <2>2, Zadds
    <3> QED
      BY <2>1, <3>1, <3>2
  <2> HIDE DEF f, z, v
  <2>4. ASSUME quiet[i], NEW p \in Product
        PROVE  (Score(overall, p) + Rest(i, p) >= Window(i, p))'
    <3>1. sum[i] = Score(overall, f) /\ Score(overall, p) + Rest(i, p) >= Window(i, p)
      BY <2>1, <2>4 DEF Covers, f
    <3>2. \A e : Owed(i, e, p)' = Owed(i, e, p) /\ Owed(i, e, p) \in Nat
      BY <1>2, <2>1 DEF Owed, SetOf
    <3>3. Window(i, p)' = Window(i, p) /\ Window(i, p) \in Int
      BY <1>2, <2>1 DEF Window, SetOf
    <3>4. Score(overall, p)' + Score(todo[i], p)' = Score(overall, p) + Score(todo[i], p)
      BY <1>2, <2>1, <2>2, <2>3, <3>1 DEF Score
    <3> QED
      BY <1>2, <2>1, <2>2, <2>3, <3>1, <3>2, <3>3, <3>4 DEF Rest
  <2> QED
    BY <2>1, <2>4 DEF Covers
<1>8. CASE ExpireInThree(i)
  BY <1>8 DEF ExpireInThree, Disturb, Covers
<1>9. CASE JobFails(i)
  BY <1>9 DEF JobFails, Disturb, Covers
<1> QED
  BY <1>3, <1>4, <1>5, <1>6, <1>7, <1>8, <1>9 DEF JobStep

LEMMA NextCovers == TInv /\ Covered /\ [Next]_vars => Covered'
<1> SUFFICES ASSUME TInv, Covered, [Next]_vars, NEW i \in Process PROVE Covers(i)'
  BY DEF Covered
<1>1. Covers(i) /\ KeyTypes /\ JobTypes /\ day \in Nat
  BY Days DEF TInv, Covered
<1>2. CASE UNCHANGED vars
  BY <1>1, <1>2, CoversStay DEF vars, jobVars
<1>3. ASSUME ~quiet'[i] PROVE Covers(i)'
  BY <1>3 DEF Covers
<1>4. ASSUME NEW s \in Sale, SaleStep(s) PROVE Covers(i)'
  <2>1. ~quiet'[i] \/ UNCHANGED <<daily, overall, jobVars, quiet>>
    BY <1>4 DEF SaleStep, Count, AddCount, ExpireInFour, CountFails, Uncount, AddLess,
                UncountFails, Disturb
  <2> QED
    BY <1>1, <1>3, <2>1, CoversStay DEF jobVars
<1>5. ASSUME NEW j \in Process, JobStep(j), j # i PROVE Covers(i)'
  <2>1. /\ job'[i] = job[i] /\ ranOn'[i] = ranOn[i] /\ days'[i] = days[i]
        /\ todo'[i] = todo[i] /\ sum'[i] = sum[i]
    BY <1>1, <1>5 DEF JobTypes, JobStep, Cleanup, CleanupFails, Fires, Zrange, Zscore,
                      Accumulate, ExpireInThree, JobFails, Await, NextRound
  <2>2. quiet'[i] => quiet[i]
    BY <1>1, <1>5 DEF JobTypes, JobStep, Cleanup, CleanupFails, Zrange, Zscore, Accumulate,
                      ExpireInThree, JobFails, Disturb
  <2>3. CASE Cleanup(j)
    <3>1. /\ \A e \in Day : daily'[e] = IF e = day - 3 THEN Empty ELSE daily[e]
          /\ overall' = overall /\ day - 3 \in Int
      BY <1>1, <2>3 DEF Cleanup
    <3> QED
      BY <1>1, <2>1, <2>2, <3>1, CoversGone
  <2>4. CASE ~Cleanup(j)
    <3>1. ~quiet'[i] \/ UNCHANGED <<daily, overall>>
      BY <1>5, <2>4 DEF JobStep, CleanupFails, Zrange, Zscore, Accumulate, ExpireInThree,
                        JobFails, Disturb
    <3> QED
      BY <1>1, <1>3, <2>1, <2>2, <3>1, CoversStay
  <2> QED
    BY <2>3, <2>4
<1>6. CASE JobStep(i)
  BY <1>1, <1>6, JobCovers
<1>7. CASE (\E d \in Day : ExpireDaily(d)) \/ ExpireOverall
  BY <1>3, <1>7 DEF ExpireDaily, ExpireOverall, Disturb
<1>8. CASE NextDay
  BY <1>1, <1>8, CoversStay DEF NextDay, jobVars
<1> QED
  BY <1>2, <1>4, <1>5, <1>6, <1>7, <1>8 DEF Next

\* A job of recalculateOverallRanking that nobody interfered with has put all
\* that the last three days sold into product:ranking:3d, whatever runs that
\* failed, restores and expired keys went before, and with any number of days.
THEOREM BestsellersAreIn == Spec => []OverallCoversWindow
<1>1. Init => Covered
  BY DEF Init, Covered, Covers
<1>2. TInv /\ TInv' /\ Covered /\ [Next]_vars => Covered'
  BY NextCovers
<1> QED
  BY <1>1, <1>2, TypesHold, CoveredAtEnd, PTL DEF Spec
=============================================================================
