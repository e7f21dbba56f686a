------------------------- MODULE CouponIssueProofs -------------------------
(***************************************************************************)
(* Theorems about CouponIssue, for every set of requests, users and coupon *)
(* types and every initial stock.                                          *)
(***************************************************************************)
EXTENDS CouponIssue, FiniteSetTheorems, TLAPS

----------------------------------------------------------------------------
(* Ranks *)

\* The position ZRANK reports is smaller than the number of users: a user is
\* not before itself.
LEMMA RankBound ==
    ASSUME NEW q \in [User -> Nat], NEW u \in User
    PROVE  RankIn(q, u) \in NoRank .. Cardinality(User) - 1
<1> DEFINE B == Before(q, u)
<1>1. IsFiniteSet(User \ {u}) /\ Cardinality(User \ {u}) = Cardinality(User) - 1
  BY UserAssumption, FS_RemoveElement
<1>2. B \subseteq User \ {u}
  BY UserAssumption DEF Before
<1>3. IsFiniteSet(B) /\ Cardinality(B) <= Cardinality(User \ {u})
  BY <1>1, <1>2, FS_Subset
<1>4. Cardinality(B) \in Nat /\ Cardinality(User) \in Nat
  BY <1>3, UserAssumption, FS_CardinalityType
<1>5. Cardinality(User) \in Nat \ {0}
  BY <1>1, <1>4, FS_CardinalityType
<1> QED
  BY <1>1, <1>3, <1>4, <1>5 DEF RankIn, NoRank

----------------------------------------------------------------------------
(* Type correctness *)

\* Updating one cell of a two-level map keeps its type.
LEMMA UpdateCell ==
    ASSUME NEW A, NEW B, NEW S, NEW f \in [A -> [B -> S]],
           NEW a \in A, NEW b \in B, NEW v \in S
    PROVE  [f EXCEPT ![a][b] = v] \in [A -> [B -> S]]
<1> DEFINE g == [f[a] EXCEPT ![b] = v]
<1>1. g \in [B -> S]
  OBVIOUS
<1> HIDE DEF g
<1>2. [f EXCEPT ![a] = g] \in [A -> [B -> S]]
  BY <1>1
<1> QED
  BY <1>2 DEF g

LEMMA InitType == Init => TypeOK
<1> SUFFICES ASSUME Init PROVE TypeOK
  OBVIOUS
<1>1. Cardinality(User) \in Nat
  BY UserAssumption, FS_CardinalityType
<1> QED
  BY <1>1, StockAssumption, EnvAssumption
     DEF Init, TypeOK, Units, NoRank

LEMMA NextType == TypeOK /\ [Next]_vars => TypeOK'
<1> SUFFICES ASSUME TypeOK, [Next]_vars PROVE TypeOK'
  OBVIOUS
<1> USE OfAssumption DEF TypeOK, U, T, Goto, Calls, Ends, Units,
                         redisVars, dbVars, timeVars, reqVars
<1>1. ASSUME NEW r \in Req, Execute(r) PROVE TypeOK'
  BY <1>1 DEF Execute
<1>2. ASSUME NEW r \in Req, CheckIssued(r) PROVE TypeOK'
  BY <1>2 DEF CheckIssued
<1>3. ASSUME NEW r \in Req, CheckQueue(r) PROVE TypeOK'
  BY <1>3 DEF CheckQueue
<1>4. ASSUME NEW r \in Req, CheckEndtime(r) PROVE TypeOK'
  <2>1. CASE T(r) \in ended
    BY <1>4, <2>1 DEF CheckEndtime, timeVars
  <2>2. CASE T(r) \notin ended
    <3>1. PICK d \in Ticks : /\ clock' = clock + d
                             /\ stamp' = [stamp EXCEPT ![r] = clock + d]
      BY <1>4, <2>2 DEF CheckEndtime
    <3>2. clock + d \in Nat \ {0}
      BY EnvAssumption
    <3>3. /\ clock' \in Nat \ {0} /\ stamp' \in [Req -> Nat]
          /\ stamp'[r] > 0 /\ \A q \in Req \ {r} : stamp'[q] = stamp[q]
      BY <3>1, <3>2
    <3>4. pc' = [pc EXCEPT ![r] = "zaddQueue"]
      BY <1>4, <2>2 DEF CheckEndtime
    <3> QED
      BY <1>4, <3>3, <3>4 DEF CheckEndtime
  <2> QED
    BY <2>1, <2>2
<1>5. ASSUME NEW r \in Req, RecordUser(r) PROVE TypeOK'
  BY <1>5, EnvAssumption DEF RecordUser
<1>6. ASSUME NEW r \in Req, ReadRank(r) PROVE TypeOK'
  <2>1. RankIn(queue[T(r)], U(r)) \in NoRank .. Cardinality(User) - 1
    BY RankBound
  <2> QED
    BY <1>6, <2>1 DEF ReadRank
<1>7. ASSUME NEW r \in Req, DecrStock(r) PROVE TypeOK'
  BY <1>7 DEF DecrStock
<1>8. ASSUME NEW r \in Req, RemoveShort(r) PROVE TypeOK'
  BY <1>8 DEF RemoveShort, Zrem
<1>9. ASSUME NEW r \in Req, IncrStock(r) PROVE TypeOK'
  BY <1>9 DEF IncrStock
<1>10. ASSUME NEW r \in Req, SaveCoupon(r) PROVE TypeOK'
  BY <1>10 DEF SaveCoupon
<1>11. ASSUME NEW r \in Req, AddIssued(r) PROVE TypeOK'
  BY <1>11 DEF AddIssued
<1>12. ASSUME NEW r \in Req, AddRank(r) PROVE TypeOK'
  <2> DEFINE R == NoRank .. Cardinality(User) - 1
  <2>1. myRank[r] \in R /\ rank \in [Type -> [User -> R]]
    OBVIOUS
  <2>2. rank' \in [Type -> [User -> R]]
    <3> HIDE DEF R, TypeOK
    <3>1. T(r) \in Type /\ U(r) \in User
      OBVIOUS
    <3>2. rank' = rank \/ rank' = [rank EXCEPT ![T(r)][U(r)] = myRank[r]]
      BY <1>12 DEF AddRank
    <3> HIDE DEF T, U
    <3>3. [rank EXCEPT ![T(r)][U(r)] = myRank[r]] \in [Type -> [User -> R]]
      BY <2>1, <3>1, UpdateCell
    <3> QED
      BY <2>1, <3>2, <3>3
  <2>3. pc' \in [Req -> {"idle"} \cup Calls \cup Ends]
    BY <1>12 DEF AddRank
  <2> QED
    BY <1>12, <2>2, <2>3 DEF AddRank
<1>13. ASSUME NEW r \in Req, RemoveQueued(r) PROVE TypeOK'
  BY <1>13 DEF RemoveQueued, Zrem
<1>14. ASSUME NEW r \in Req, SaveRankingLog(r) PROVE TypeOK'
  BY <1>14 DEF SaveRankingLog
<1>15. ASSUME NEW r \in Req, CallFails(r) PROVE TypeOK'
  BY <1>15 DEF CallFails
<1>16. CASE Restart
  BY <1>16, StockAssumption, EnvAssumption DEF Restart
<1>17. ASSUME NEW t \in Type, IssuanceEnds(t) PROVE TypeOK'
  BY <1>17 DEF IssuanceEnds
<1>18. CASE UNCHANGED vars
  BY <1>18 DEF vars
<1> QED
  BY <1>1, <1>2, <1>3, <1>4, <1>5, <1>6, <1>7, <1>8, <1>9, <1>10, <1>11, <1>12,
     <1>13, <1>14, <1>15, <1>16, <1>17, <1>18 DEF Next, IssueStep

\* Every reachable state is well typed: in particular every rank issueCoupon
\* records is a position among the users, or null.
THEOREM TypeCorrect == Spec => []TypeOK
<1> QED
  BY InitType, NextType, PTL DEF Spec

----------------------------------------------------------------------------
(* The quota.                                                              *)
(*                                                                         *)
(* NoOversell is not inductive.  It follows from the count of the units    *)
(* requests hold: no coupon is saved without a unit (UnitMatchesPc), at    *)
(* most InitStock units are ever held (WithinQuota), because DECR hands    *)
(* one out only while the counter, which is what StockAccounting says it   *)
(* is, was positive.  That a loser's over-decrement does not starve others *)
(* is SoldOutOnlyWhenAllTaken, which a DECR below zero preserves because   *)
(* either nobody is short, and then all units are taken by arithmetic, or  *)
(* somebody is, and then they are by the invariant itself.                 *)

\* Where a request is determines whether it holds a unit.
UnitMatchesPc ==
    \A r \in Req :
        /\ pc[r] \in {"idle", "zscoreIssued", "zscoreQueue", "getEndtime",
                      "zaddQueue", "zrank", "decr"} => unit[r] = "none"
        /\ pc[r] \in {"zremShort", "incr"} => unit[r] = "short"
        /\ pc[r] = "save" => unit[r] = "taken"
        /\ r \in coupons => unit[r] = "taken"

WithinQuota == \A t \in Type : Cardinality(Taken(t)) <= InitStock[t]

IInv ==
    /\ TypeOK
    /\ UnitMatchesPc
    /\ StockAccounting
    /\ WithinQuota
    /\ SoldOutOnlyWhenAllTaken

LEMMA HoldersFinite ==
    ASSUME NEW t
    PROVE  /\ IsFiniteSet(Taken(t)) /\ Cardinality(Taken(t)) \in Nat
           /\ IsFiniteSet(Short(t)) /\ Cardinality(Short(t)) \in Nat
<1>1. Taken(t) \in SUBSET Req /\ Short(t) \in SUBSET Req
  BY DEF Taken, Short
<1>2. IsFiniteSet(Taken(t)) /\ IsFiniteSet(Short(t))
  BY <1>1, ReqAssumption, FS_Subset
<1> QED
  BY <1>2, FS_CardinalityType

LEMMA InitQuota == Init => IInv
<1> SUFFICES ASSUME Init PROVE IInv
  OBVIOUS
<1>1. TypeOK
  BY InitType
<1>2. UnitMatchesPc
  BY DEF Init, UnitMatchesPc
<1>3. \A t \in Type : Cardinality(Taken(t)) = 0 /\ Cardinality(Short(t)) = 0
  <2> TAKE t \in Type
  <2>1. Taken(t) = {} /\ Short(t) = {}
    BY DEF Init, Taken, Short
  <2> QED
    BY <2>1, FS_EmptySet
<1>4. StockAccounting /\ WithinQuota
  BY <1>3, StockAssumption DEF StockAccounting, WithinQuota, Init
<1>5. SoldOutOnlyWhenAllTaken
  BY DEF SoldOutOnlyWhenAllTaken, Init
<1> QED
  BY <1>1, <1>2, <1>4, <1>5 DEF IInv

\* A step that touches neither the counter nor anybody's unit keeps the
\* counting part of the invariant.
LEMMA SameUnits ==
    ASSUME IInv, UNCHANGED <<unit, stock>>
    PROVE  StockAccounting' /\ WithinQuota' /\ SoldOutOnlyWhenAllTaken'
<1>1. \A t : Taken(t)' = Taken(t) /\ Short(t)' = Short(t)
  BY DEF Taken, Short
<1> QED
  BY <1>1 DEF IInv, StockAccounting, WithinQuota, SoldOutOnlyWhenAllTaken, T

LEMMA UnitMatchesPcStep ==
    ASSUME TypeOK, UnitMatchesPc, [Next]_vars
    PROVE  UnitMatchesPc'
<1> USE DEF TypeOK, UnitMatchesPc, Goto, redisVars, dbVars, timeVars, reqVars
<1>1. ASSUME NEW r \in Req, Execute(r) \/ CheckIssued(r) \/ CheckQueue(r)
                             \/ CheckEndtime(r) \/ RecordUser(r) \/ ReadRank(r)
      PROVE  UnitMatchesPc'
  BY <1>1 DEF Execute, CheckIssued, CheckQueue, CheckEndtime, RecordUser, ReadRank
<1>2. ASSUME NEW r \in Req, DecrStock(r) PROVE UnitMatchesPc'
  BY <1>2 DEF DecrStock
<1>3. ASSUME NEW r \in Req, RemoveShort(r) \/ IncrStock(r) PROVE UnitMatchesPc'
  BY <1>3 DEF RemoveShort, IncrStock
<1>4. ASSUME NEW r \in Req, SaveCoupon(r) PROVE UnitMatchesPc'
  BY <1>4 DEF SaveCoupon
<1>5. ASSUME NEW r \in Req, AddIssued(r) \/ AddRank(r) \/ RemoveQueued(r)
      PROVE  UnitMatchesPc'
  BY <1>5 DEF AddIssued, AddRank, RemoveQueued
<1>6. ASSUME NEW r \in Req, SaveRankingLog(r) \/ CallFails(r)
      PROVE  UnitMatchesPc'
  BY <1>6 DEF SaveRankingLog, CallFails
<1>7. CASE Restart
  BY <1>7 DEF Restart
<1>8. ASSUME NEW t \in Type, IssuanceEnds(t) PROVE UnitMatchesPc'
  BY <1>8 DEF IssuanceEnds
<1>9. CASE UNCHANGED vars
  BY <1>9 DEF vars
<1> QED
  BY <1>1, <1>2, <1>3, <1>4, <1>5, <1>6, <1>7, <1>8, <1>9 DEF Next, IssueStep

\* The DECR that leaves the counter at or above zero.
LEMMA DecrTakes ==
    ASSUME IInv, NEW r \in Req, DecrStock(r), ~SoldOut(stock[T(r)] - 1)
    PROVE  StockAccounting' /\ WithinQuota' /\ SoldOutOnlyWhenAllTaken'
<1> DEFINE t0 == T(r)
<1>1. /\ t0 \in Type /\ unit \in [Req -> Units] /\ stock \in [Type -> Int]
      /\ unit[r] = "none"
  BY OfAssumption DEF IInv, TypeOK, UnitMatchesPc, DecrStock, T
<1>2. /\ unit' = [unit EXCEPT ![r] = "taken"]
      /\ stock' = [stock EXCEPT ![t0] = stock[t0] - 1]
      /\ stock[t0] \in Int /\ stock[t0] - 1 >= 0
  BY <1>1 DEF DecrStock, SoldOut
<1>3. \A t \in Type : Short(t)' = Short(t)
  BY <1>1, <1>2 DEF Short
<1>4. \A t \in Type : t # t0 => Taken(t)' = Taken(t)
  BY <1>1, <1>2 DEF Taken, T
<1>5. Taken(t0)' = Taken(t0) \cup {r} /\ r \notin Taken(t0)
  BY <1>1, <1>2 DEF Taken, T
<1>6. Cardinality(Taken(t0)') = Cardinality(Taken(t0)) + 1
  BY <1>5, HoldersFinite, FS_AddElement
<1>7. stock[t0] = InitStock[t0] - Cardinality(Taken(t0)) - Cardinality(Short(t0))
  BY <1>1 DEF IInv, StockAccounting
<1>8. /\ Cardinality(Taken(t0)) \in Nat /\ Cardinality(Short(t0)) \in Nat
      /\ InitStock[t0] \in Nat
  BY <1>1, HoldersFinite, StockAssumption
<1> HIDE DEF t0
<1>9. StockAccounting'
  <2> SUFFICES ASSUME NEW t \in Type
               PROVE  stock'[t] = InitStock[t] - Cardinality(Taken(t)')
                                               - Cardinality(Short(t)')
    BY DEF StockAccounting
  <2>1. CASE t = t0
    BY <2>1, <1>1, <1>2, <1>3, <1>6, <1>7, <1>8
  <2>2. CASE t # t0
    BY <2>2, <1>1, <1>2, <1>3, <1>4 DEF IInv, StockAccounting
  <2> QED
    BY <2>1, <2>2
<1>10. Cardinality(Taken(t0)) < InitStock[t0]
  BY <1>2, <1>7, <1>8
<1>11. WithinQuota'
  <2> SUFFICES ASSUME NEW t \in Type PROVE Cardinality(Taken(t)') <= InitStock[t]
    BY DEF WithinQuota
  <2>1. CASE t = t0
    BY <2>1, <1>6, <1>8, <1>10
  <2>2. CASE t # t0
    BY <2>2, <1>4 DEF IInv, WithinQuota
  <2> QED
    BY <2>1, <2>2
<1>12. SoldOutOnlyWhenAllTaken'
  <2> SUFFICES ASSUME NEW q \in Req, unit'[q] \in {"short", "returned"}
               PROVE  Cardinality(Taken(T(q))') = InitStock[T(q)]
    BY DEF SoldOutOnlyWhenAllTaken, T
  <2>1. unit[q] \in {"short", "returned"}
    BY <1>1, <1>2
  <2>2. Cardinality(Taken(T(q))) = InitStock[T(q)]
    BY <2>1 DEF IInv, SoldOutOnlyWhenAllTaken
  <2>3. T(q) # t0 /\ T(q) \in Type
    BY <2>2, <1>8, <1>10, OfAssumption DEF T
  <2> QED
    BY <2>2, <2>3, <1>4
<1> QED
  BY <1>9, <1>11, <1>12

\* The DECR that goes below zero: all units are taken already.
LEMMA DecrShort ==
    ASSUME IInv, NEW r \in Req, DecrStock(r), SoldOut(stock[T(r)] - 1)
    PROVE  StockAccounting' /\ WithinQuota' /\ SoldOutOnlyWhenAllTaken'
<1> DEFINE t0 == T(r)
<1>1. /\ t0 \in Type /\ unit \in [Req -> Units] /\ stock \in [Type -> Int]
      /\ unit[r] = "none"
  BY OfAssumption DEF IInv, TypeOK, UnitMatchesPc, DecrStock, T
<1>2. /\ unit' = [unit EXCEPT ![r] = "short"]
      /\ stock' = [stock EXCEPT ![t0] = stock[t0] - 1]
      /\ stock[t0] \in Int /\ stock[t0] - 1 < 0
  BY <1>1 DEF DecrStock, SoldOut
<1>3. \A t \in Type : Taken(t)' = Taken(t)
  BY <1>1, <1>2 DEF Taken
<1>4. \A t \in Type : t # t0 => Short(t)' = Short(t)
  BY <1>1, <1>2 DEF Short, T
<1>5. Short(t0)' = Short(t0) \cup {r} /\ r \notin Short(t0)
  BY <1>1, <1>2 DEF Short, T
<1>6. Cardinality(Short(t0)') = Cardinality(Short(t0)) + 1
  BY <1>5, HoldersFinite, FS_AddElement
<1>7. stock[t0] = InitStock[t0] - Cardinality(Taken(t0)) - Cardinality(Short(t0))
  BY <1>1 DEF IInv, StockAccounting
<1>8. /\ Cardinality(Taken(t0)) \in Nat /\ Cardinality(Short(t0)) \in Nat
      /\ InitStock[t0] \in Nat /\ Cardinality(Taken(t0)) <= InitStock[t0]
  BY <1>1, HoldersFinite, StockAssumption DEF IInv, WithinQuota
<1>9. Cardinality(Taken(t0)) = InitStock[t0]
  <2>1. CASE Short(t0) = {}
    <3>1. Cardinality(Short(t0)) = 0
      BY <2>1, FS_EmptySet
    <3> QED
      BY <3>1, <1>2, <1>7, <1>8
  <2>2. CASE Short(t0) # {}
    <3>1. PICK q \in Req : TypeOf[q] = t0 /\ unit[q] = "short"
      BY <2>2 DEF Short
    <3> QED
      BY <3>1 DEF IInv, SoldOutOnlyWhenAllTaken, T
  <2> QED
    BY <2>1, <2>2
<1> HIDE DEF t0
<1>10. StockAccounting'
  <2> SUFFICES ASSUME NEW t \in Type
               PROVE  stock'[t] = InitStock[t] - Cardinality(Taken(t)')
                                               - Cardinality(Short(t)')
    BY DEF StockAccounting
  <2>1. CASE t = t0
    BY <2>1, <1>1, <1>2, <1>3, <1>6, <1>7, <1>8
  <2>2. CASE t # t0
    BY <2>2, <1>1, <1>2, <1>3, <1>4 DEF IInv, StockAccounting
  <2> QED
    BY <2>1, <2>2
<1>11. WithinQuota'
  BY <1>3 DEF IInv, WithinQuota
<1>12. SoldOutOnlyWhenAllTaken'
  <2> SUFFICES ASSUME NEW q \in Req, unit'[q] \in {"short", "returned"}
               PROVE  Cardinality(Taken(T(q))') = InitStock[T(q)]
    BY DEF SoldOutOnlyWhenAllTaken, T
  <2>1. T(q) \in Type
    BY OfAssumption DEF T
  <2>2. CASE q = r
    BY <2>1, <2>2, <1>3, <1>9 DEF t0
  <2>3. CASE q # r
    <3>1. unit[q] \in {"short", "returned"}
      BY <2>3, <1>1, <1>2
    <3> QED
      BY <2>1, <3>1, <1>3 DEF IInv, SoldOutOnlyWhenAllTaken
  <2> QED
    BY <2>2, <2>3
<1> QED
  BY <1>10, <1>11, <1>12

\* The INCR of a request that found no unit.
LEMMA IncrReturns ==
    ASSUME IInv, NEW r \in Req, IncrStock(r)
    PROVE  StockAccounting' /\ WithinQuota' /\ SoldOutOnlyWhenAllTaken'
<1> DEFINE t0 == T(r)
<1>1. /\ t0 \in Type /\ unit \in [Req -> Units] /\ stock \in [Type -> Int]
      /\ unit[r] = "short"
  BY OfAssumption DEF IInv, TypeOK, UnitMatchesPc, IncrStock, T
<1>2. /\ unit' = [unit EXCEPT ![r] = "returned"]
      /\ stock' = [stock EXCEPT ![t0] = stock[t0] + 1]
  BY DEF IncrStock
<1>3. \A t \in Type : Taken(t)' = Taken(t)
  BY <1>1, <1>2 DEF Taken
<1>4. \A t \in Type : t # t0 => Short(t)' = Short(t)
  BY <1>1, <1>2 DEF Short, T
<1>5. Short(t0)' = Short(t0) \ {r} /\ r \in Short(t0)
  BY <1>1, <1>2 DEF Short, T
<1>6. Cardinality(Short(t0)') = Cardinality(Short(t0)) - 1
  BY <1>5, HoldersFinite, FS_RemoveElement
<1>7. /\ Cardinality(Taken(t0)) \in Nat /\ Cardinality(Short(t0)) \in Nat
      /\ InitStock[t0] \in Nat
  BY <1>1, HoldersFinite, StockAssumption
<1> HIDE DEF t0
<1>8. StockAccounting'
  <2> SUFFICES ASSUME NEW t \in Type
               PROVE  stock'[t] = InitStock[t] - Cardinality(Taken(t)')
                                               - Cardinality(Short(t)')
    BY DEF StockAccounting
  <2>1. CASE t = t0
    <3>1. stock[t0] = InitStock[t0] - Cardinality(Taken(t0))
                                    - Cardinality(Short(t0))
      BY <1>1 DEF IInv, StockAccounting
    <3> QED
      BY <2>1, <3>1, <1>1, <1>2, <1>3, <1>6, <1>7
  <2>2. CASE t # t0
    BY <2>2, <1>1, <1>2, <1>3, <1>4 DEF IInv, StockAccounting
  <2> QED
    BY <2>1, <2>2
<1>9. WithinQuota'
  BY <1>3 DEF IInv, WithinQuota
<1>10. SoldOutOnlyWhenAllTaken'
  <2> SUFFICES ASSUME NEW q \in Req, unit'[q] \in {"short", "returned"}
               PROVE  Cardinality(Taken(T(q))') = InitStock[T(q)]
    BY DEF SoldOutOnlyWhenAllTaken, T
  <2>1. T(q) \in Type /\ unit[q] \in {"short", "returned"}
    BY <1>1, <1>2, OfAssumption DEF T
  <2> QED
    BY <2>1, <1>3 DEF IInv, SoldOutOnlyWhenAllTaken
<1> QED
  BY <1>8, <1>9, <1>10

LEMMA NextQuota ==
    ASSUME ~Development
    PROVE  IInv /\ [Next]_vars => IInv'
<1> SUFFICES ASSUME IInv, [Next]_vars PROVE IInv'
  OBVIOUS
<1>1. TypeOK' /\ UnitMatchesPc'
  BY NextType, UnitMatchesPcStep DEF IInv
<1>2. ASSUME NEW r \in Req, DecrStock(r)
      PROVE  StockAccounting' /\ WithinQuota' /\ SoldOutOnlyWhenAllTaken'
  BY <1>2, DecrTakes, DecrShort
<1>3. ASSUME NEW r \in Req, IncrStock(r)
      PROVE  StockAccounting' /\ WithinQuota' /\ SoldOutOnlyWhenAllTaken'
  BY <1>3, IncrReturns
<1>4. \/ UNCHANGED <<unit, stock>>
      \/ \E r \in Req : DecrStock(r) \/ IncrStock(r)
  BY DEF Next, IssueStep, vars, redisVars, dbVars, timeVars, reqVars, Execute, CheckIssued,
         CheckQueue, CheckEndtime, RecordUser, ReadRank, RemoveShort, SaveCoupon,
         AddIssued, AddRank, RemoveQueued, SaveRankingLog, CallFails, Restart,
         IssuanceEnds
<1>5. StockAccounting' /\ WithinQuota' /\ SoldOutOnlyWhenAllTaken'
  BY <1>2, <1>3, <1>4, SameUnits
<1> QED
  BY <1>1, <1>5 DEF IInv

\* The counting invariant holds in every reachable state.
THEOREM QuotaInvariant ==
    ASSUME ~Development
    PROVE  Spec => []IInv
<1> QED
  BY InitQuota, NextQuota, PTL DEF Spec

\* Unless a bootstrap resets it, the Redis counter never drifts from the
\* units and the debts requests hold.
THEOREM CounterIsAccounted ==
    ASSUME ~Development
    PROVE  Spec => []StockAccounting
<1>1. IInv => StockAccounting
  BY DEF IInv
<1> QED
  BY <1>1, QuotaInvariant, PTL

\* Nobody is told a type is sold out while a unit is left.
THEOREM SoldOutIsTrue ==
    ASSUME ~Development
    PROVE  Spec => []SoldOutOnlyWhenAllTaken
<1>1. IInv => SoldOutOnlyWhenAllTaken
  BY DEF IInv
<1> QED
  BY <1>1, QuotaInvariant, PTL

\* However many requests run concurrently, fail or are cut off by a restart,
\* no more coupons of a type are saved than its stock.
THEOREM NeverOversold ==
    ASSUME ~Development
    PROVE  Spec => []NoOversell
<1>1. IInv => NoOversell
  <2> SUFFICES ASSUME IInv, NEW t \in Type
               PROVE  Cardinality(Of(coupons, t)) <= InitStock[t]
    BY DEF NoOversell
  <2>1. Of(coupons, t) \in SUBSET Taken(t)
    BY DEF IInv, TypeOK, UnitMatchesPc, Of, Taken
  <2>2. Cardinality(Of(coupons, t)) <= Cardinality(Taken(t))
    BY <2>1, HoldersFinite, FS_Subset
  <2>3. /\ Cardinality(Of(coupons, t)) \in Nat /\ Cardinality(Taken(t)) \in Nat
        /\ InitStock[t] \in Nat /\ Cardinality(Taken(t)) <= InitStock[t]
    BY <2>1, HoldersFinite, FS_Subset, FS_CardinalityType, StockAssumption
       DEF IInv, WithinQuota
  <2> QED
    BY <2>2, <2>3
<1> QED
  BY <1>1, QuotaInvariant, PTL

----------------------------------------------------------------------------
(* The queue and the issued coupons.                                       *)
(*                                                                         *)
(* QueuedOnlyWhileServed is inductive: a ZADD is made by a request that    *)
(* then stays among the places it names until its own ZREM.                *)

\* A ZADD to or a ZREM from the queue of one user.
LEMMA QueueCell ==
    ASSUME TypeOK, NEW r \in Req, NEW n \in Nat,
           queue' = [queue EXCEPT ![T(r)][U(r)] = n],
           NEW t \in Type, NEW u \in User
    PROVE  queue'[t][u] = IF t = T(r) /\ u = U(r) THEN n ELSE queue[t][u]
<1> USE OfAssumption DEF TypeOK, T, U
<1>1. CASE t = T(r)
  BY <1>1
<1>2. CASE t # T(r)
  BY <1>2
<1> QED
  BY <1>1, <1>2

QueueServed == {"zrank", "decr", "zremShort", "save", "zaddIssued", "zaddRank",
                "zremQueue", "error"}

\* A request that is served stays so until its ZREM.
LEMMA ServedMoves ==
    ASSUME TypeOK, NEW q \in Req, pc[q] \in QueueServed, [Next]_vars
    PROVE  pc'[q] \in QueueServed \/ RemoveShort(q) \/ RemoveQueued(q)
<1> USE DEF TypeOK, QueueServed, Goto, Calls
<1>1. ASSUME NEW r \in Req, Execute(r) \/ SaveRankingLog(r) \/ CallFails(r)
      PROVE  pc'[q] \in QueueServed
  BY <1>1 DEF Execute, SaveRankingLog, CallFails
<1>2. ASSUME NEW r \in Req, CheckIssued(r) \/ CheckQueue(r) \/ CheckEndtime(r)
                             \/ RecordUser(r) \/ ReadRank(r)
      PROVE  pc'[q] \in QueueServed
  BY <1>2 DEF CheckIssued, CheckQueue, CheckEndtime, RecordUser, ReadRank
<1>3. ASSUME NEW r \in Req, DecrStock(r) \/ IncrStock(r)
      PROVE  pc'[q] \in QueueServed
  BY <1>3 DEF DecrStock, IncrStock
<1>4. ASSUME NEW r \in Req, SaveCoupon(r) \/ AddIssued(r) \/ AddRank(r)
      PROVE  pc'[q] \in QueueServed
  BY <1>4 DEF SaveCoupon, AddIssued, AddRank
<1>5. ASSUME NEW r \in Req, RemoveShort(r) \/ RemoveQueued(r), r # q
      PROVE  pc'[q] \in QueueServed
  BY <1>5 DEF RemoveShort, RemoveQueued
<1>6. CASE Restart
  BY <1>6 DEF Restart
<1>7. ASSUME NEW t \in Type, IssuanceEnds(t) PROVE pc' = pc
  BY <1>7 DEF IssuanceEnds, reqVars
<1>8. CASE UNCHANGED vars
  BY <1>8 DEF vars
<1> QED
  BY <1>1, <1>2, <1>3, <1>4, <1>5, <1>6, <1>7, <1>8 DEF Next, IssueStep

LEMMA QueuedStep ==
    ASSUME TypeOK, QueuedOnlyWhileServed, [Next]_vars
    PROVE  QueuedOnlyWhileServed'
<1> SUFFICES ASSUME NEW t \in Type, NEW u \in User, queue'[t][u] > 0
             PROVE  \E r \in Req : TypeOf[r] = t /\ U(r) = u /\ pc'[r] \in QueueServed
  BY DEF QueuedOnlyWhileServed, Of, U, QueueServed
<1>1. ASSUME queue[t][u] > 0,
             \A r \in Req : RemoveShort(r) \/ RemoveQueued(r) => ~(T(r) = t /\ U(r) = u)
      PROVE  \E r \in Req : TypeOf[r] = t /\ U(r) = u /\ pc'[r] \in QueueServed
  <2>1. PICK r \in Req : TypeOf[r] = t /\ U(r) = u /\ pc[r] \in QueueServed
    BY <1>1 DEF QueuedOnlyWhileServed, Of, QueueServed
  <2> QED
    BY <1>1, <2>1, ServedMoves DEF T
<1>2. ASSUME NEW q \in Req, RemoveShort(q) \/ RemoveQueued(q)
      PROVE  /\ queue[t][u] > 0
             /\ \A r \in Req : RemoveShort(r) \/ RemoveQueued(r) =>
                                   ~(T(r) = t /\ U(r) = u)
  <2>1. ASSUME NEW r \in Req, RemoveShort(r) \/ RemoveQueued(r)
        PROVE  queue'[t][u] = IF t = T(r) /\ u = U(r) THEN 0 ELSE queue[t][u]
    <3>1. queue' = [queue EXCEPT ![T(r)][U(r)] = 0]
      BY <2>1 DEF RemoveShort, RemoveQueued, Zrem
    <3> QED
      BY <3>1, 0 \in Nat, QueueCell, ZenonT(30)
  <2> QED
    BY <1>2, <2>1
<1>3. ASSUME NEW r \in Req, RecordUser(r), t = T(r), u = U(r)
      PROVE  pc'[r] \in QueueServed
  BY <1>3 DEF RecordUser, Goto, TypeOK, QueueServed
<1>4. ASSUME NEW r \in Req, RecordUser(r), ~(t = T(r) /\ u = U(r))
      PROVE  queue[t][u] > 0
  <2>1. queue' = [queue EXCEPT ![T(r)][U(r)] = stamp[r]] /\ stamp[r] \in Nat
    BY <1>4 DEF RecordUser, TypeOK
  <2> QED
    BY <1>4, <2>1, QueueCell
<1>5. \/ queue' = queue
      \/ \E r \in Req : RecordUser(r) \/ RemoveShort(r) \/ RemoveQueued(r)
  BY DEF Next, IssueStep, vars, redisVars, dbVars, timeVars, reqVars, Execute, CheckIssued,
         CheckQueue, CheckEndtime, ReadRank, DecrStock, IncrStock, SaveCoupon,
         AddIssued, AddRank, SaveRankingLog, CallFails, Restart, IssuanceEnds
<1>6. CASE \E r \in Req : RemoveShort(r) \/ RemoveQueued(r)
  BY <1>1, <1>2, <1>6
<1>7. CASE ~\E r \in Req : RemoveShort(r) \/ RemoveQueued(r)
  BY <1>1, <1>3, <1>4, <1>5, <1>7 DEF T
<1> QED
  BY <1>6, <1>7

\* Nobody waits in coupon:queue unless a request of theirs is on its way to
\* its ZREM or failed: without failures nobody is barred by an entry that was
\* left behind.
THEOREM QueueIsServed == Spec => []QueuedOnlyWhileServed
<1>1. Init => QueuedOnlyWhileServed
  BY DEF Init, QueuedOnlyWhileServed
<1>2. TypeOK /\ QueuedOnlyWhileServed /\ [Next]_vars => QueuedOnlyWhileServed'
  BY QueuedStep
<1> QED
  BY <1>1, <1>2, TypeCorrect, PTL DEF Spec

\* Behind the save there is a coupon.
CouponMatchesPc ==
    \A r \in Req : pc[r] \in {"zaddIssued", "zaddRank", "zremQueue", "ok"} => r \in coupons

LEMMA CouponMatchesPcStep ==
    ASSUME TypeOK, CouponMatchesPc, [Next]_vars
    PROVE  CouponMatchesPc'
<1> USE DEF TypeOK, CouponMatchesPc, Goto, Calls, Ends, redisVars, dbVars, timeVars, reqVars
<1>1. ASSUME NEW r \in Req, Execute(r) \/ SaveRankingLog(r) \/ CallFails(r)
      PROVE  CouponMatchesPc'
  BY <1>1 DEF Execute, SaveRankingLog, CallFails
<1>2. ASSUME NEW r \in Req, CheckIssued(r) \/ CheckQueue(r) \/ CheckEndtime(r)
                             \/ RecordUser(r) \/ ReadRank(r)
      PROVE  CouponMatchesPc'
  BY <1>2 DEF CheckIssued, CheckQueue, CheckEndtime, RecordUser, ReadRank
<1>3. ASSUME NEW r \in Req, DecrStock(r) \/ RemoveShort(r) \/ IncrStock(r)
      PROVE  CouponMatchesPc'
  BY <1>3 DEF DecrStock, RemoveShort, IncrStock
<1>4. ASSUME NEW r \in Req, SaveCoupon(r) \/ AddIssued(r) \/ AddRank(r) \/ RemoveQueued(r)
      PROVE  CouponMatchesPc'
  BY <1>4 DEF SaveCoupon, AddIssued, AddRank, RemoveQueued
<1>5. CASE Restart
  BY <1>5 DEF Restart
<1>6. ASSUME NEW t \in Type, IssuanceEnds(t) PROVE CouponMatchesPc'
  BY <1>6 DEF IssuanceEnds
<1>7. CASE UNCHANGED vars
  BY <1>7 DEF vars
<1> QED
  BY <1>1, <1>2, <1>3, <1>4, <1>5, <1>6, <1>7 DEF Next, IssueStep

\* The bookkeeping behind IssuedAgrees: each store is written after the one
\* it must agree with, by a request that is still at a place which says so.
BooksMatchPc ==
    /\ CouponMatchesPc
    /\ \A r \in Req : pc[r] \in {"zaddRank", "zremQueue"} => U(r) \in issued[T(r)]

LEMMA BooksStep ==
    ASSUME TypeOK, BooksMatchPc, IssuedAgrees, [Next]_vars
    PROVE  BooksMatchPc' /\ IssuedAgrees'
<1>1. CouponMatchesPc'
  BY CouponMatchesPcStep DEF BooksMatchPc
<1>2. /\ coupons \subseteq coupons'
      /\ \A t \in Type : issued[t] \subseteq issued'[t]
  BY DEF Next, IssueStep, vars, redisVars, dbVars, timeVars, reqVars, Execute, CheckIssued,
         CheckQueue, CheckEndtime, RecordUser, ReadRank, DecrStock, RemoveShort, IncrStock,
         SaveCoupon, AddIssued, AddRank, RemoveQueued, SaveRankingLog, CallFails, Restart,
         IssuanceEnds, TypeOK
<1> USE OfAssumption DEF TypeOK, Goto, T, U, Calls, Ends
<1>3. \A r \in Req : pc'[r] \in {"zaddRank", "zremQueue"} => U(r) \in issued'[T(r)]
  <2> SUFFICES ASSUME NEW r \in Req, pc'[r] \in {"zaddRank", "zremQueue"}
               PROVE  U(r) \in issued'[T(r)]
    OBVIOUS
  <2>1. CASE pc[r] \in {"zaddRank", "zremQueue"}
    BY <1>2, <2>1 DEF BooksMatchPc
  <2>2. CASE pc[r] \notin {"zaddRank", "zremQueue"}
    <3>1. AddIssued(r)
      <4>1. ASSUME NEW q \in Req,
                   \/ Execute(q) \/ CheckIssued(q) \/ CheckQueue(q) \/ CheckEndtime(q)
                   \/ RecordUser(q) \/ ReadRank(q)
            PROVE  FALSE
        BY <2>2, <4>1 DEF Execute, CheckIssued, CheckQueue, CheckEndtime, RecordUser,
                          ReadRank
      <4>2. ASSUME NEW q \in Req,
                   \/ DecrStock(q) \/ RemoveShort(q) \/ IncrStock(q) \/ SaveCoupon(q)
            PROVE  FALSE
        BY <2>2, <4>2 DEF DecrStock, RemoveShort, IncrStock, SaveCoupon
      <4>3. ASSUME NEW q \in Req,
                   \/ AddRank(q) \/ RemoveQueued(q) \/ SaveRankingLog(q) \/ CallFails(q)
            PROVE  FALSE
        BY <2>2, <4>3 DEF AddRank, RemoveQueued, SaveRankingLog, CallFails
      <4>4. ASSUME Restart \/ (\E t \in Type : IssuanceEnds(t)) \/ UNCHANGED vars PROVE FALSE
        BY <2>2, <4>4 DEF Restart, IssuanceEnds, vars, reqVars
      <4>5. ASSUME NEW q \in Req, AddIssued(q) PROVE AddIssued(r)
        BY <2>2, <4>5 DEF AddIssued
      <4> QED
        BY <4>1, <4>2, <4>3, <4>4, <4>5 DEF Next, IssueStep
    <3> QED
      BY <3>1 DEF AddIssued
  <2> QED
    BY <2>1, <2>2
<1>4. \A t \in Type : \A u \in issued'[t] : \E r \in Of(coupons', t) : U(r) = u
  <2> SUFFICES ASSUME NEW t \in Type, NEW u \in issued'[t]
               PROVE  \E r \in Of(coupons', t) : U(r) = u
    OBVIOUS
  <2>1. CASE u \in issued[t]
    BY <1>2, <2>1 DEF IssuedAgrees, Of
  <2>2. CASE u \notin issued[t]
    <3>1. issued' # issued
      BY <2>2
    <3>2. PICK r \in Req : AddIssued(r)
      BY <3>1 DEF Next, IssueStep, vars, redisVars, dbVars, timeVars, reqVars, Execute,
         CheckIssued, CheckQueue, CheckEndtime, RecordUser, ReadRank, DecrStock,
         RemoveShort, IncrStock, SaveCoupon, AddRank, RemoveQueued,
         SaveRankingLog, CallFails, Restart, IssuanceEnds
    <3>3. t = T(r) /\ u = U(r)
      BY <2>2, <3>2 DEF AddIssued
    <3>4. r \in coupons
      BY <3>2 DEF AddIssued, BooksMatchPc, CouponMatchesPc
    <3> QED
      BY <1>2, <3>3, <3>4 DEF Of
  <2> QED
    BY <2>1, <2>2
<1>5. \A t \in Type, u \in User : rank'[t][u] # NoRank => u \in issued'[t]
  <2> SUFFICES ASSUME NEW t \in Type, NEW u \in User, rank'[t][u] # NoRank
               PROVE  u \in issued'[t]
    OBVIOUS
  <2>1. CASE rank[t][u] # NoRank
    BY <1>2, <2>1 DEF IssuedAgrees
  <2>2. CASE rank[t][u] = NoRank
    <3>1. rank' # rank
      BY <2>2
    <3>2. PICK r \in Req : AddRank(r) /\ rank' # rank
      BY <3>1 DEF Next, IssueStep, vars, redisVars, dbVars, timeVars, reqVars, Execute,
         CheckIssued, CheckQueue, CheckEndtime, RecordUser, ReadRank, DecrStock,
         RemoveShort, IncrStock, SaveCoupon, AddIssued, RemoveQueued,
         SaveRankingLog, CallFails, Restart, IssuanceEnds
    <3>3. t = T(r) /\ u = U(r)
      BY <2>2, <3>2 DEF AddRank
    <3> QED
      BY <1>2, <3>2, <3>3 DEF AddRank, BooksMatchPc
  <2> QED
    BY <2>1, <2>2
<1>6. \A r \in pendingLog' \cup rankingLog' : pc'[r] = "ok" /\ r \in coupons'
  <2> SUFFICES ASSUME NEW r \in pendingLog' \cup rankingLog'
               PROVE  pc'[r] = "ok" /\ r \in coupons'
    OBVIOUS
  <2>1. CASE r \in pendingLog \cup rankingLog
    <3>1. pc[r] = "ok" /\ r \in coupons /\ r \in Req
      BY <2>1 DEF IssuedAgrees
    <3>2. pc'[r] = pc[r]
      <4>1. ASSUME NEW q \in Req,
                   \/ Execute(q) \/ CheckIssued(q) \/ CheckQueue(q) \/ CheckEndtime(q)
                   \/ RecordUser(q) \/ ReadRank(q)
            PROVE  pc'[r] = pc[r]
        BY <3>1, <4>1 DEF Execute, CheckIssued, CheckQueue, CheckEndtime, RecordUser,
                          ReadRank
      <4>2. ASSUME NEW q \in Req,
                   \/ DecrStock(q) \/ RemoveShort(q) \/ IncrStock(q) \/ SaveCoupon(q)
            PROVE  pc'[r] = pc[r]
        BY <3>1, <4>2 DEF DecrStock, RemoveShort, IncrStock, SaveCoupon
      <4>3. ASSUME NEW q \in Req,
                   \/ AddIssued(q) \/ AddRank(q) \/ RemoveQueued(q) \/ SaveRankingLog(q)
                   \/ CallFails(q)
            PROVE  pc'[r] = pc[r]
        BY <3>1, <4>3 DEF AddIssued, AddRank, RemoveQueued, SaveRankingLog, CallFails
      <4>4. ASSUME Restart \/ (\E t \in Type : IssuanceEnds(t)) \/ UNCHANGED vars
            PROVE  pc'[r] = pc[r]
        BY <3>1, <4>4 DEF Restart, IssuanceEnds, vars, reqVars
      <4> QED
        BY <4>1, <4>2, <4>3, <4>4 DEF Next, IssueStep
    <3> QED
      BY <1>2, <3>1, <3>2
  <2>2. CASE r \notin pendingLog \cup rankingLog
    <3>1. RemoveQueued(r) /\ r \in Req
      BY <2>2 DEF Next, IssueStep, vars, redisVars, dbVars, timeVars, reqVars, Execute,
         CheckIssued, CheckQueue, CheckEndtime, RecordUser, ReadRank, DecrStock,
         RemoveShort, IncrStock, SaveCoupon, AddIssued, AddRank, RemoveQueued,
         SaveRankingLog, CallFails, Restart, IssuanceEnds
    <3> QED
      BY <1>2, <3>1 DEF RemoveQueued, BooksMatchPc, CouponMatchesPc
  <2> QED
    BY <2>1, <2>2
<1> QED
  BY <1>1, <1>3, <1>4, <1>5, <1>6 DEF BooksMatchPc, IssuedAgrees

\* coupon:issued, coupon:rank, the coupon rows and the ranking logs agree,
\* whichever of the writes in a row is the last to succeed.
THEOREM BooksAgree == Spec => []IssuedAgrees
<1>1. Init => BooksMatchPc /\ IssuedAgrees
  BY OfAssumption DEF Init, BooksMatchPc, CouponMatchesPc, IssuedAgrees, T
<1>2. TypeOK /\ BooksMatchPc /\ IssuedAgrees /\ [Next]_vars => BooksMatchPc' /\ IssuedAgrees'
  BY BooksStep
<1> QED
  BY <1>1, <1>2, TypeCorrect, PTL DEF Spec

----------------------------------------------------------------------------
(* Refinement: the step that decides a request is its DECR.                *)

LEMMA SameCardinality ==
    ASSUME NEW S
    PROVE  Quota!Cardinality(S) = Cardinality(S)
  BY DEF Quota!Cardinality, Cardinality

LEMMA QuotaStep ==
    ASSUME IInv, [Next]_vars
    PROVE  [Quota!Next]_(Quota!vars)
<1> DEFINE G == {r \in Req : unit[r] = "taken"}
           L == {r \in Req : unit[r] \in {"short", "returned"}}
<1>1. \A t : Quota!GrantedOf(t) = Taken(t)
  BY DEF Quota!GrantedOf, Taken
<1>2. ASSUME NEW r \in Req, DecrStock(r) PROVE Quota!Grant(r) \/ Quota!TurnAway(r)
  <2>1. /\ T(r) \in Type /\ unit \in [Req -> Units] /\ stock \in [Type -> Int]
        /\ unit[r] = "none" /\ r \notin G \cup L
    BY <1>2, OfAssumption DEF IInv, TypeOK, UnitMatchesPc, DecrStock, T
  <2>2. /\ stock[T(r)] = InitStock[T(r)] - Cardinality(Taken(T(r)))
                                         - Cardinality(Short(T(r)))
        /\ Cardinality(Taken(T(r))) \in Nat /\ Cardinality(Short(T(r))) \in Nat
        /\ InitStock[T(r)] \in Nat
    BY <2>1, HoldersFinite, StockAssumption DEF IInv, StockAccounting
  <2>3. CASE SoldOut(stock[T(r)] - 1)
    <3>1. unit' = [unit EXCEPT ![r] = "short"]
      BY <1>2, <2>3 DEF DecrStock
    <3>2. G' = G /\ L' = L \cup {r}
      BY <2>1, <3>1
    <3>3. SoldOutOnlyWhenAllTaken' /\ Taken(T(r))' = Taken(T(r))
      BY <1>2, <2>1, <2>3, <3>1, DecrShort DEF Taken
    <3>4. unit'[r] = "short"
      BY <2>1, <3>1
    <3>5. Cardinality(Taken(T(r))) = InitStock[T(r)]
      BY <3>3, <3>4 DEF SoldOutOnlyWhenAllTaken, T
    <3> QED
      BY <1>1, <2>1, <3>2, <3>5, SameCardinality DEF Quota!TurnAway, T
  <2>4. CASE ~SoldOut(stock[T(r)] - 1)
    <3>1. unit' = [unit EXCEPT ![r] = "taken"]
      BY <1>2, <2>4 DEF DecrStock
    <3>2. G' = G \cup {r} /\ L' = L
      BY <2>1, <3>1
    <3>3. Cardinality(Taken(T(r))) < InitStock[T(r)]
      BY <2>1, <2>2, <2>4 DEF SoldOut
    <3> QED
      BY <1>1, <2>1, <3>2, <3>3, SameCardinality DEF Quota!Grant, T
  <2> QED
    BY <2>3, <2>4
<1>3. ASSUME NEW r \in Req, IncrStock(r) PROVE UNCHANGED Quota!vars
  <2>1. unit \in [Req -> Units] /\ unit[r] = "short"
    BY <1>3 DEF IInv, TypeOK, UnitMatchesPc, IncrStock
  <2>2. G' = G /\ L' = L
    BY <1>3, <2>1 DEF IncrStock
  <2> QED
    BY <2>2 DEF Quota!vars
<1>4. CASE UNCHANGED unit
  BY <1>4 DEF Quota!vars
<1>5. UNCHANGED unit \/ \E r \in Req : DecrStock(r) \/ IncrStock(r)
  BY DEF Next, IssueStep, vars, redisVars, dbVars, timeVars, reqVars, Execute, CheckIssued,
         CheckQueue, CheckEndtime, RecordUser, ReadRank, RemoveShort, SaveCoupon,
         AddIssued, AddRank, RemoveQueued, SaveRankingLog, CallFails, Restart,
         IssuanceEnds
<1> QED
  BY <1>2, <1>3, <1>4, <1>5 DEF Quota!Next

\* issueCoupon implements the atomic quota: Redis' DECR is its linearization
\* point, and no other step is visible.
THEOREM IssueImplementsQuota ==
    ASSUME ~Development
    PROVE  Spec => ImplementsQuota
<1>1. Init => Quota!Init
  BY DEF Init, Quota!Init
<1>2. IInv /\ [Next]_vars => [Quota!Next]_(Quota!vars)
  BY QuotaStep
<1> QED
  BY <1>1, <1>2, QuotaInvariant, PTL DEF Spec, Quota!Spec, ImplementsQuota
============================================================================
