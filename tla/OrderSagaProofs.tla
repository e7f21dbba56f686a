-------------------------- MODULE OrderSagaProofs --------------------------
(***************************************************************************)
(* Theorems about the amounts of an order (Pricing), for every total and   *)
(* every type of coupon, and about OrderSaga, for every set of requests,   *)
(* products and coupons, all items, prices and stocks, both wirings of the *)
(* bus and any number of crashes.                                          *)
(***************************************************************************)
EXTENDS OrderSaga, FiniteSetTheorems, TLAPS

----------------------------------------------------------------------------
(* Amounts *)

\* A percentage of a total, rounded down, lies between nothing and the total.
LEMMA PercentageInTotal ==
    ASSUME NEW total \in Nat, NEW rate \in 0 .. 100
    PROVE  (total * rate) \div 100 \in 0 .. total
<1>1. total * rate \in Nat /\ total * rate <= total * 100
  BY SMTT(30)
<1> DEFINE m == total * rate
<1>2. m \in Nat /\ m <= total * 100
  BY <1>1
<1> HIDE DEF m
<1>3. m \div 100 \in 0 .. total
  BY <1>2
<1> QED
  BY <1>3 DEF m

\* Every coupon takes off a percentage below the whole, or a fixed amount.
LEMMA Configs ==
    ASSUME NEW type \in CouponType
    PROVE  /\ CouponConfigs[type].rate \in Nat /\ CouponConfigs[type].rate <= 30
           /\ CouponConfigs[type].amount \in Nat /\ CouponConfigs[type].amount <= 2000
<1>1. type \in {"DISCOUNT_10PERCENT", "DISCOUNT_20PERCENT", "DISCOUNT_30PERCENT",
                "FIXED_1000", "FIXED_2000", "LIMITED_OFFER"}
  BY DEF CouponType, CouponConfigs
<1>2. CASE type = "DISCOUNT_10PERCENT"
  BY <1>2 DEF CouponConfigs
<1>3. CASE type = "DISCOUNT_20PERCENT"
  BY <1>3 DEF CouponConfigs
<1>4. CASE type = "DISCOUNT_30PERCENT"
  BY <1>4 DEF CouponConfigs
<1>5. CASE type = "FIXED_1000"
  BY <1>5 DEF CouponConfigs
<1>6. CASE type = "FIXED_2000"
  BY <1>6 DEF CouponConfigs
<1>7. CASE type = "LIMITED_OFFER"
  BY <1>7 DEF CouponConfigs
<1> QED
  BY <1>1, <1>2, <1>3, <1>4, <1>5, <1>6, <1>7

\* calculateDiscount never takes off less than nothing, and more than the total
\* only as a fixed amount.
THEOREM DiscountInTotal ==
    ASSUME NEW type \in CouponType, NEW total \in Nat
    PROVE  /\ CalculateDiscount(type, total) \in Nat
           /\ \/ CalculateDiscount(type, total) <= total
              \/ CouponConfigs[type].rate = 0
<1> DEFINE rate == CouponConfigs[type].rate
           amount == CouponConfigs[type].amount
           discount == CalculateDiscount(type, total)
<1>1. rate \in Nat /\ rate <= 30 /\ amount \in Nat /\ amount <= 2000
  BY Configs
<1>2. discount = IF rate > 0 THEN (total * rate) \div 100 ELSE amount
  BY DEF CalculateDiscount
<1> HIDE DEF rate, amount, discount
<1>3. CASE rate > 0
  <2>1. (total * rate) \div 100 \in 0 .. total
    BY <1>1, PercentageInTotal
  <2>2. discount \in Nat /\ discount <= total
    BY <1>2, <1>3, <2>1
  <2> QED
    BY <2>2 DEF rate, discount
<1>4. CASE ~(rate > 0)
  <2>1. discount \in Nat /\ rate = 0
    BY <1>1, <1>2, <1>4
  <2> QED
    BY <2>1 DEF rate, discount
<1> QED
  BY <1>3, <1>4

\* A coupon with a rate never makes validateOrder refuse the amount of an order
\* that costs something: only fixed amounts can, and any order that costs 2000
\* or more bears those as well.
THEOREM OrderBearsCoupon ==
    ASSUME NEW type \in CouponType, NEW total \in Nat \ {0},
           CouponConfigs[type].rate > 0 \/ total >= 2000
    PROVE  ValidOrderAmount(total, FinalAmount(total, CalculateDiscount(type, total)))
<1> DEFINE rate == CouponConfigs[type].rate
           amount == CouponConfigs[type].amount
           discount == CalculateDiscount(type, total)
<1>1. discount \in Nat /\ (discount <= total \/ rate = 0)
  BY DiscountInTotal
<1>2. rate \in Nat /\ rate <= 30 /\ amount \in Nat /\ amount <= 2000
  BY Configs
<1>3. rate = 0 => discount = amount
  BY DEF CalculateDiscount
<1>4. rate > 0 \/ total >= 2000
  OBVIOUS
<1> HIDE DEF rate, amount, discount
<1>5. discount \in Nat /\ discount <= total
  BY <1>1, <1>2, <1>3, <1>4
<1> QED
  BY <1>5 DEF ValidOrderAmount, FinalAmount, discount

----------------------------------------------------------------------------
(* OrderIsBacked and CouponSpentOnceUnlessRaced are not inductive: the row  *)
(* is inserted, and the coupon is saved, some calls after what they rest on *)
(* was read.                                                                *)

\* Places before the order row is there.
Ordering == CreateCalls \cup {"idle", "validate"}

\* What is kept of an order from its validation on.
Backed(r) ==
    /\ reserved[r] = Len(ItemsOf[r])
    /\ StillInStock(r)
    /\ ValidOrderAmount(Total(r), Final(r))

\* The types of the variables as functions, and what TypeOK has no need to say.
Shapes ==
    /\ item \in [Req -> Nat]
    /\ read \in [Req -> Nat \cup {Absent}]
    /\ left \in [Req -> Seq(Nat)]
    /\ reserved \in [Req -> Nat] /\ restored \in [Req -> Nat]
    /\ price \in Prices

\* What the place of a request says of its loop, and of the value it is about
\* to write back.
Place(r) ==
    /\ pc[r] \in {"idle", "findProduct", "saveProduct"} => reserved[r] = item[r] - 1
    /\ pc[r] \in {"idle", "armed"} => item[r] = 1
    /\ pc[r] \in Ordering \cup RankCalls \cup {"armed"} => restored[r] = 0
    /\ pc[r] \in {"findUser", "findCoupon", "saveCoupon", "validate", "saveOrder"}
          => reserved[r] = Len(ItemsOf[r]) /\ item[r] = 1
    /\ pc[r] \in {"restoreFind", "restoreSave"} => restored[r] = item[r] - 1
    /\ pc[r] \in {"restoreCoupon", "revertCoupon"} => restored[r] > 0
    /\ pc[r] \in {"findCoupon", "saveCoupon", "restoreCoupon", "revertCoupon"}
          => CouponOf[r] \in Coupon
    /\ pc[r] = "saveProduct" => read[r] \in Nat /\ read[r] >= Q(r)
    /\ pc[r] \in {"restoreSave", "writeUnrank"} => read[r] \in Nat

Places == \A r \in Req : Place(r)

\* The row follows its validation.
OrderFollows(r) ==
    /\ pc[r] \in Ordering => order[r] = "none"
    /\ order[r] # "none" \/ pc[r] = "saveOrder" => Backed(r)

Orders == \A r \in Req : OrderFollows(r)

\* Who has spent a coupon or is about to.
Spends(r) == couponUsed[r] \/ pc[r] = "saveCoupon"

\* As long as nothing was given back, a coupon that no two requests raced for
\* is marked when it was spent, and nobody else is about to spend it.
Coupons ==
    /\ \A r \in Req : couponUsed[r] => CouponOf[r] \in Coupon
    /\ (\A r \in Req : restored[r] = 0) =>
          /\ \A r \in Req : couponUsed[r] /\ CouponOf[r] \notin raced => CouponOf[r] \in used
          /\ \A r1, r2 \in Req :
                Spends(r1) /\ Spends(r2) /\ CouponOf[r1] = CouponOf[r2]
                /\ CouponOf[r1] \notin raced => r1 = r2

IInv == TypeOK /\ Shapes /\ Places /\ Orders /\ Coupons

----------------------------------------------------------------------------
LEMMA Items ==
    ASSUME NEW r \in Req
    PROVE  /\ Len(ItemsOf[r]) \in Nat \ {0}
           /\ DOMAIN ItemsOf[r] = 1 .. Len(ItemsOf[r])
           /\ \A i \in 1 .. Len(ItemsOf[r]) :
                 ItemsOf[r][i].p \in Product /\ ItemsOf[r][i].q \in Nat \ {0}
<1> DEFINE S == [p : Product, q : Nat \ {0}]
<1>1. ItemsOf[r] # <<>> /\ ItemsOf[r] \in Seq(S)
  BY ItemAssumption DEF ValidItems
<1>2. \A e \in S : e.p \in Product /\ e.q \in Nat \ {0}
  OBVIOUS
<1> HIDE DEF S
<1> QED
  BY <1>1, <1>2

\* The item a request is at.
LEMMA AtItem ==
    ASSUME TypeOK, Shapes, NEW r \in Req
    PROVE  /\ item[r] \in 1 .. Len(ItemsOf[r])
           /\ P(r) \in Product /\ Q(r) \in Nat \ {0}
  BY Items DEF TypeOK, P, Q

LEMMA Setups ==
    /\ \A c \in Coupon : TypeOfCoupon[c] \in CouponType
    /\ NoCoupon \notin Coupon
    /\ \A r \in Req : CouponOf[r] \in Coupon \/ CouponOf[r] = NoCoupon
  BY CouponAssumption

----------------------------------------------------------------------------
LEMMA InitInv == Init => IInv
<1> SUFFICES ASSUME Init PROVE IInv
  OBVIOUS
<1>1. TypeOK
  <2>1. stock \in [Product -> Nat]
    BY StockAssumption DEF Init
  <2>2. \A r \in Req : left[r] \in Seq(Nat) /\ Len(left[r]) = 0
    BY DEF Init
  <2> QED
    BY Items, <2>1, <2>2 DEF Init, TypeOK, PCs
<1>2. Shapes
  BY DEF Init, Shapes
<1> QED
  BY <1>1, <1>2
     DEF Init, IInv, Places, Place, Orders, OrderFollows, Coupons, Spends, CreateCalls,
         RankCalls

(* The types, and the places they rest on. *)
TInv == TypeOK /\ Shapes /\ Places

\* A request whose own state a step leaves alone stays where it is.
LEMMA OthersStay ==
    ASSUME NEW q \in Req, Place(q),
           pc'[q] = pc[q], item'[q] = item[q], read'[q] = read[q],
           reserved'[q] = reserved[q], restored'[q] = restored[q]
    PROVE  Place(q)'
  BY DEF Place, Q

\* Where the loop of a request is after a step, and that nobody else's moved.
ItemMoves(r) ==
    \/ item' = item
    \/ item' = [item EXCEPT ![r] = 1]
    \/ ~LastItem(r) /\ item' = [item EXCEPT ![r] = @ + 1]

LEMMA ItemStays ==
    ASSUME TInv, NEW r \in Req, ItemMoves(r)
    PROVE  /\ item' \in [Req -> Nat]
           /\ \A q \in Req : item'[q] \in DOMAIN ItemsOf[q]
<1> USE DEF TInv, Shapes
<1>1. \A q \in Req : item[q] \in Nat /\ item[q] \in 1 .. Len(ItemsOf[q])
  BY AtItem
<1>2. CASE item' = item
  BY <1>1, <1>2, Items
<1>3. CASE item' = [item EXCEPT ![r] = 1]
  BY <1>1, <1>3, Items
<1>4. CASE ~LastItem(r) /\ item' = [item EXCEPT ![r] = @ + 1]
  BY <1>1, <1>4, Items DEF LastItem
<1> QED
  BY <1>2, <1>3, <1>4 DEF ItemMoves

LEMMA NextTypes == TInv /\ [Next]_vars => TInv'
<1> SUFFICES ASSUME TInv, [Next]_vars PROVE TInv'
  OBVIOUS
<1>a. \A r \in Req : P(r) \in Product /\ Q(r) \in Nat \ {0}
  BY AtItem DEF TInv
<1>b. \A r \in Req : item[r] \in 1 .. Len(ItemsOf[r])
  BY AtItem DEF TInv
<1> USE <1>a
    DEF TInv, TypeOK, Shapes, Places, PCs, Ends, CreateCalls, RankCalls, RestoreCalls,
        UnrankCalls, Ordering, Goto, Read, Done, NextItem, LastItem, SaveStock, setup
<1>1. ASSUME NEW r \in Req, Execute(r) PROVE TInv'
  BY <1>1 DEF Execute, Place, P, Q
<1>2. ASSUME NEW r \in Req, FindProduct(r) PROVE TInv'
  <2>1. ItemMoves(r)
    BY <1>2 DEF FindProduct, PublishOrderFailed, ItemMoves
  <2>2. item' \in [Req -> Nat] /\ \A q \in Req : item'[q] \in DOMAIN ItemsOf[q]
    BY <2>1, ItemStays DEF TInv
  <2>3. raced' \in SUBSET (Product \cup Coupon)
    BY <1>2 DEF FindProduct, NoteRace
  <2>4. \/ /\ HasStock(stock[P(r)], Q(r))
           /\ read' = [read EXCEPT ![r] = stock[P(r)]]
           /\ pc' = [pc EXCEPT ![r] = "saveProduct"]
           /\ item' = item
        \/ /\ read' = read
           /\ \/ pc' = [pc EXCEPT ![r] = "restoreFind"]
              \/ pc' = [pc EXCEPT ![r] = "failed"]
           /\ item' = [item EXCEPT ![r] = 1]
    BY <1>2 DEF FindProduct, PublishOrderFailed
  <2>5. /\ pc[r] = "findProduct"
        /\ UNCHANGED <<left, couponUsed, stock, used, score, order, price,
                       reserved, restored>>
    BY <1>2 DEF FindProduct
  <2>6. TypeOK'
    BY <2>2, <2>3, <2>4, <2>5
  <2>7. Shapes'
    <3>1. read' \in [Req -> Nat \cup {Absent}]
      <4>1. P(r) \in Product
        OBVIOUS
      <4>2. stock[P(r)] \in Nat
        BY <4>1
      <4>3. read' = read \/ read' = [read EXCEPT ![r] = stock[P(r)]]
        BY <2>4
      <4> QED
        BY <4>2, <4>3
    <3>2. /\ left' \in [Req -> Seq(Nat)] /\ price' \in Prices
          /\ reserved' \in [Req -> Nat] /\ restored' \in [Req -> Nat]
      BY <2>5
    <3> QED
      BY <2>2, <3>1, <3>2
  <2>8. restored'[r] = 0 /\ reserved'[r] = item[r] - 1
    BY <2>5 DEF Place
  <2>9. ASSUME pc'[r] = "saveProduct" PROVE Place(r)'
    <3>1. HasStock(stock[P(r)], Q(r)) /\ read'[r] = stock[P(r)] /\ item' = item
      BY <2>9, <2>4, <2>5
    <3>2. Q(r)' = Q(r)
      BY <3>1 DEF Q
    <3>3. read'[r] \in Nat /\ read'[r] >= Q(r)'
      BY <3>1, <3>2 DEF HasStock
    <3>4. reserved'[r] = item'[r] - 1
      BY <2>8, <3>1
    <3> HIDE DEF TInv
    <3> QED
      BY <2>9, <3>3, <3>4, <2>8 DEF Place
  <2>10. ASSUME pc'[r] # "saveProduct" PROVE Place(r)'
    <3>1. pc'[r] \in {"restoreFind", "failed"} /\ item'[r] = 1
      BY <2>10, <2>4, <2>5
    <3> HIDE DEF TInv
    <3> QED
      BY <3>1, <2>8 DEF Place
  <2>11. Place(r)'
    BY <2>9, <2>10
  <2>12. ASSUME NEW q \in Req \ {r} PROVE Place(q)'
    BY <1>2, OthersStay DEF FindProduct, NoteRace, HasStock, PublishOrderFailed
  <2> QED
    BY <2>6, <2>7, <2>11, <2>12
<1>3. ASSUME NEW r \in Req, SaveProduct(r) PROVE TInv'
  <2>1. ItemMoves(r)
    BY <1>3 DEF SaveProduct, PublishOrderFailed, ItemMoves
  <2>2. item' \in [Req -> Nat] /\ \A q \in Req : item'[q] \in DOMAIN ItemsOf[q]
    BY <2>1, ItemStays DEF TInv
  <2>3. /\ pc[r] = "saveProduct" /\ reserved[r] = item[r] - 1
        /\ restored[r] = 0 /\ read[r] \in Nat /\ read[r] - Q(r) \in Nat
    BY <1>3 DEF SaveProduct, Place
  <2>4. /\ stock' = [stock EXCEPT ![P(r)] = read[r] - Q(r)]
        /\ left' = [left EXCEPT ![r] = Append(@, read[r] - Q(r))]
        /\ reserved' = [reserved EXCEPT ![r] = @ + 1]
        /\ read' = [read EXCEPT ![r] = 0]
        /\ UNCHANGED <<couponUsed, used, score, order, price, restored, raced>>
    BY <1>3 DEF SaveProduct, Decreased
  <2>5. \/ /\ LastItem(r) /\ item' = [item EXCEPT ![r] = 1]
           /\ pc' = [pc EXCEPT ![r] = "findUser"]
        \/ /\ ~LastItem(r) /\ item' = [item EXCEPT ![r] = @ + 1]
           /\ pc' = [pc EXCEPT ![r] = "findProduct"]
    BY <1>3 DEF SaveProduct
  <2>6. reserved'[r] \in 0 .. Len(ItemsOf[r]) /\ reserved'[r] = item[r]
    BY <1>b, Items, <2>3, <2>4
  <2>7. left' \in [Req -> Seq(Nat)] /\ reserved' \in [Req -> Nat]
    BY <2>3, <2>4
  <2>8. \A q \in Req : left'[q] \in Seq(Nat) /\ Len(left'[q]) = reserved'[q]
    BY <2>3, <2>4, SMTT(30)
  <2>9. pc' \in [Req -> PCs]
    BY <2>5
  <2>10. stock' \in [Product -> Nat] /\ read' \in [Req -> Nat \cup {Absent}]
    BY <2>3, <2>4
  <2>11. \A q \in Req : {reserved'[q], restored'[q]} \subseteq 0 .. Len(ItemsOf[q])
    BY <2>4, <2>6
  <2>12. UNCHANGED <<couponUsed, used, score, order, price, restored, raced>>
    BY <2>4
  <2>13. TypeOK'
    BY <2>2, <2>8, <2>9, <2>10, <2>11, <2>12
  <2>14. Shapes'
    BY <2>2, <2>7, <2>10, <2>12
  <2>15. Place(r)'
    BY <1>b, Items, <2>3, <2>4, <2>5, <2>6, SMTT(30) DEF Place
  <2>16. ASSUME NEW q \in Req \ {r} PROVE Place(q)'
    BY <1>3, OthersStay DEF SaveProduct, Decreased
  <2> QED
    BY <2>13, <2>14, <2>15, <2>16
<1>4. ASSUME NEW r \in Req, FindUser(r) PROVE TInv'
  <2>1. TypeOK' /\ Shapes'
    BY <1>4 DEF FindUser
  <2>2. Place(r)'
    BY <1>4, Setups DEF FindUser, Place, P, Q
  <2>3. ASSUME NEW q \in Req \ {r} PROVE Place(q)'
    BY <1>4, OthersStay DEF FindUser
  <2> QED
    BY <2>1, <2>2, <2>3
<1>5. ASSUME NEW r \in Req, FindCoupon(r) PROVE TInv'
  <2>1. TypeOK'
    BY <1>5, SMTT(30) DEF FindCoupon, Place
  <2>2. Shapes'
    BY <1>5 DEF FindCoupon, Place
  <2>3. Place(r)'
    BY <1>5, <1>b, Items, <2>1, <2>2 DEF FindCoupon, Place, P, Q
  <2>4. ASSUME NEW q \in Req \ {r} PROVE Place(q)'
    BY <1>5, OthersStay DEF FindCoupon
  <2> QED
    BY <2>1, <2>2, <2>3, <2>4
<1>6. ASSUME NEW r \in Req, SaveCoupon(r) PROVE TInv'
  <2>1. TypeOK'
    BY <1>6 DEF SaveCoupon, Place
  <2>2. Shapes'
    BY <1>6 DEF SaveCoupon, Place
  <2>3. Place(r)'
    BY <1>6, <1>b, Items, <2>1, <2>2 DEF SaveCoupon, Place, P, Q
  <2>4. ASSUME NEW q \in Req \ {r} PROVE Place(q)'
    BY <1>6, OthersStay DEF SaveCoupon, Place
  <2> QED
    BY <2>1, <2>2, <2>3, <2>4
<1>7. ASSUME NEW r \in Req, ValidateOrder(r) PROVE TInv'
  <2>1. ItemMoves(r)
    BY <1>7 DEF ValidateOrder, PublishOrderFailed, ItemMoves
  <2>2. item' \in [Req -> Nat] /\ \A q \in Req : item'[q] \in DOMAIN ItemsOf[q]
    BY <2>1, ItemStays DEF TInv
  <2>3. TypeOK'
    BY <1>7, <2>2 DEF ValidateOrder, PublishOrderFailed
  <2>4. Shapes'
    BY <1>7, <2>2 DEF ValidateOrder, PublishOrderFailed
  <2>5. Place(r)'
    BY <1>7, <1>b, Items, <2>3, <2>4 DEF ValidateOrder, PublishOrderFailed, Place, P, Q
  <2>6. ASSUME NEW q \in Req \ {r} PROVE Place(q)'
    BY <1>7, OthersStay DEF ValidateOrder, PublishOrderFailed
  <2> QED
    BY <2>3, <2>4, <2>5, <2>6
<1>8. ASSUME NEW r \in Req, SaveOrder(r) PROVE TInv'
  BY <1>8 DEF SaveOrder, Place, InsertOrder, P, Q
<1>9. ASSUME NEW r \in Req, ReadRank(r) PROVE TInv'
  <2>1. TypeOK'
    BY <1>9 DEF ReadRank
  <2>2. Shapes'
    BY <1>9 DEF ReadRank
  <2>3. Place(r)'
    BY <1>9, <1>b, Items, <2>1, <2>2 DEF ReadRank, Place, P, Q
  <2>4. ASSUME NEW q \in Req \ {r} PROVE Place(q)'
    BY <1>9, OthersStay DEF ReadRank
  <2> QED
    BY <2>1, <2>2, <2>3, <2>4
<1>10. ASSUME NEW r \in Req, WriteRank(r) PROVE TInv'
  <2>1. ItemMoves(r)
    BY <1>10 DEF WriteRank, PublishOrderFailed, ItemMoves
  <2>2. item' \in [Req -> Nat] /\ \A q \in Req : item'[q] \in DOMAIN ItemsOf[q]
    BY <2>1, ItemStays DEF TInv
  <2>3. TypeOK'
    BY <1>10, <2>2 DEF WriteRank, AfterRanking, Absent
  <2>4. Shapes'
    BY <1>10, <2>2 DEF WriteRank, AfterRanking, Absent
  <2>5. Place(r)'
    BY <1>10, <1>b, Items, <2>3, <2>4 DEF WriteRank, AfterRanking, Place, P, Q
  <2>6. ASSUME NEW q \in Req \ {r} PROVE Place(q)'
    BY <1>10, OthersStay DEF WriteRank, AfterRanking
  <2> QED
    BY <2>3, <2>4, <2>5, <2>6
<1>11. ASSUME NEW r \in Req, SkipRank(r) PROVE TInv'
  BY <1>11, <1>b, Items DEF SkipRank, Place, AfterRanking, P, Q
<1>12. ASSUME NEW r \in Req, TimerFires(r) PROVE TInv'
  BY <1>12 DEF TimerFires, Place, P, Q
<1>13. ASSUME NEW r \in Req, Pay(r) PROVE TInv'
  BY <1>13 DEF Pay, Place, P, Q
<1>14. ASSUME NEW r \in Req, RestoreFind(r) PROVE TInv'
  <2>1. TypeOK'
    BY <1>14 DEF RestoreFind, NoteRace
  <2>2. Shapes'
    BY <1>14 DEF RestoreFind, NoteRace
  <2>3. Place(r)'
    BY <1>14, <1>b, Items, <2>1, <2>2 DEF RestoreFind, NoteRace, Place, P, Q
  <2>4. ASSUME NEW q \in Req \ {r} PROVE Place(q)'
    BY <1>14, OthersStay DEF RestoreFind, NoteRace
  <2> QED
    BY <2>1, <2>2, <2>3, <2>4
<1>15. ASSUME NEW r \in Req, RestoreSave(r) PROVE TInv'
  <2>1. ItemMoves(r)
    BY <1>15 DEF RestoreSave, PublishOrderFailed, ItemMoves
  <2>2. item' \in [Req -> Nat] /\ \A q \in Req : item'[q] \in DOMAIN ItemsOf[q]
    BY <2>1, ItemStays DEF TInv
  <2>3. /\ pc[r] = "restoreSave" /\ restored[r] = item[r] - 1 /\ read[r] \in Nat
    BY <1>15 DEF RestoreSave, Place
  <2>4. /\ stock' = [stock EXCEPT ![P(r)] = read[r] + Q(r)]
        /\ restored' = [restored EXCEPT ![r] = @ + 1]
        /\ read' = [read EXCEPT ![r] = 0]
        /\ UNCHANGED <<left, couponUsed, used, score, order, price, reserved, raced>>
    BY <1>15 DEF RestoreSave, Increased
  <2>5. \/ /\ LastItem(r) /\ item' = [item EXCEPT ![r] = 1]
           /\ \/ pc' = [pc EXCEPT ![r] = "readUnrank"]
              \/ /\ pc' = [pc EXCEPT ![r] = "restoreCoupon"]
                 /\ CouponOf[r] \in Coupon
        \/ /\ ~LastItem(r) /\ item' = [item EXCEPT ![r] = @ + 1]
           /\ pc' = [pc EXCEPT ![r] = "restoreFind"]
    BY <1>15, Setups DEF RestoreSave
  <2>6. restored'[r] \in 0 .. Len(ItemsOf[r]) /\ restored'[r] = item[r]
    BY <1>b, Items, <2>3, <2>4
  <2>7. pc' \in [Req -> PCs]
    BY <2>5
  <2>8. stock' \in [Product -> Nat]
    BY <2>3, <2>4
  <2>9. \A q \in Req : {reserved'[q], restored'[q]} \subseteq 0 .. Len(ItemsOf[q])
    BY <2>4, <2>6
  <2>10. TypeOK'
    BY <2>2, <2>4, <2>7, <2>8, <2>9
  <2>11. Shapes'
    BY <2>2, <2>3, <2>4, <2>5, SMTT(30)
  <2>12. Place(r)'
    <3>1. CASE LastItem(r)
      <4>1. \/ pc'[r] = "readUnrank"
            \/ pc'[r] = "restoreCoupon" /\ CouponOf[r] \in Coupon
        BY <2>5, <3>1
      <4>2. restored'[r] > 0
        BY <1>b, <2>6
      <4> QED
        BY <4>1, <4>2 DEF Place
    <3>2. CASE ~LastItem(r)
      <4>1. pc'[r] = "restoreFind" /\ item'[r] = item[r] + 1
        BY <2>5, <3>2
      <4>2. restored'[r] = item'[r] - 1
        BY <1>b, <2>6, <4>1
      <4> QED
        BY <4>1, <4>2 DEF Place
<3> QED
      BY <3>1, <3>2
  <2>13. ASSUME NEW q \in Req \ {r} PROVE Place(q)'
    BY <1>15, OthersStay DEF RestoreSave, Increased
  <2> QED
    BY <2>10, <2>11, <2>12, <2>13
<1>16. ASSUME NEW r \in Req, RestoreCoupon(r) PROVE TInv'
  BY <1>16 DEF RestoreCoupon, Place, P, Q
<1>17. ASSUME NEW r \in Req, RevertCoupon(r) PROVE TInv'
  BY <1>17 DEF RevertCoupon, Place, P, Q
<1>18. ASSUME NEW r \in Req, ReadUnrank(r) PROVE TInv'
  <2>1. ItemMoves(r)
    BY <1>18 DEF ReadUnrank, PublishOrderFailed, ItemMoves
  <2>2. item' \in [Req -> Nat] /\ \A q \in Req : item'[q] \in DOMAIN ItemsOf[q]
    BY <2>1, ItemStays DEF TInv
  <2>3. TypeOK'
    BY <1>18, <2>2 DEF ReadUnrank
  <2>4. Shapes'
    BY <1>18, <2>2 DEF ReadUnrank
  <2>5. Place(r)'
    <3>1. pc'[r] = "writeUnrank" => read'[r] \in Nat
      BY <1>18 DEF ReadUnrank, Absent
    <3>2. pc'[r] \in {"readUnrank", "writeUnrank", "compensated"}
      BY <1>18 DEF ReadUnrank
    <3> QED
      BY <3>1, <3>2 DEF Place
  <2>6. ASSUME NEW q \in Req \ {r} PROVE Place(q)'
    BY <1>18, OthersStay DEF ReadUnrank
  <2> QED
    BY <2>3, <2>4, <2>5, <2>6
<1>19. ASSUME NEW r \in Req, WriteUnrank(r) PROVE TInv'
  <2>1. ItemMoves(r)
    BY <1>19 DEF WriteUnrank, PublishOrderFailed, ItemMoves
  <2>2. item' \in [Req -> Nat] /\ \A q \in Req : item'[q] \in DOMAIN ItemsOf[q]
    BY <2>1, ItemStays DEF TInv
  <2>3. TypeOK'
    BY <1>19, <2>2 DEF WriteUnrank, Reduced, Place
  <2>4. Shapes'
    BY <1>19, <2>2 DEF WriteUnrank, Reduced, Place
  <2>5. Place(r)'
    BY <1>19, <1>b, Items, <2>3, <2>4 DEF WriteUnrank, Reduced, Place, P, Q
  <2>6. ASSUME NEW q \in Req \ {r} PROVE Place(q)'
    BY <1>19, OthersStay DEF WriteUnrank, Reduced
  <2> QED
    BY <2>3, <2>4, <2>5, <2>6
<1>20. ASSUME NEW r \in Req, SkipUnrank(r) PROVE TInv'
  <2>1. ItemMoves(r)
    BY <1>20 DEF SkipUnrank, ItemMoves
  <2>2. item' \in [Req -> Nat] /\ \A q \in Req : item'[q] \in DOMAIN ItemsOf[q]
    BY <2>1, ItemStays DEF TInv
  <2>3. TypeOK'
    BY <1>20, <2>2 DEF SkipUnrank
  <2>4. Shapes'
    BY <1>20, <2>2 DEF SkipUnrank
  <2>5. Place(r)'
    BY <1>20, <1>b, Items, <2>3, <2>4 DEF SkipUnrank, Place, P, Q
  <2>6. ASSUME NEW q \in Req \ {r} PROVE Place(q)'
    BY <1>20, OthersStay DEF SkipUnrank
  <2> QED
    BY <2>3, <2>4, <2>5, <2>6
<1>21. ASSUME NEW r \in Req, CallFails(r) PROVE TInv'
  <2>1. ItemMoves(r)
    BY <1>21 DEF CallFails, PublishOrderFailed, ItemMoves
  <2>2. item' \in [Req -> Nat] /\ \A q \in Req : item'[q] \in DOMAIN ItemsOf[q]
    BY <2>1, ItemStays DEF TInv
  <2>3. TypeOK'
    BY <1>21, <2>2 DEF CallFails, PublishOrderFailed
  <2>4. Shapes'
    BY <1>21, <2>2 DEF CallFails, PublishOrderFailed
  <2>5. Place(r)'
    BY <1>21, <1>b, Items, <2>3, <2>4 DEF CallFails, PublishOrderFailed, Place, P, Q
  <2>6. ASSUME NEW q \in Req \ {r} PROVE Place(q)'
    BY <1>21, OthersStay DEF CallFails, PublishOrderFailed
  <2> QED
    BY <2>3, <2>4, <2>5, <2>6
<1>22. CASE Crash
  BY <1>22, <1>b, Items DEF Crash, Place, P, Q
<1>23. CASE UNCHANGED vars
  BY <1>23 DEF vars, Place, P, Q
<1>24. ASSUME NEW r \in Req, ReplyLost(r) PROVE TInv'
  <2>1. ItemMoves(r)
    BY <1>24 DEF ReplyLost, PublishOrderFailed, ItemMoves
  <2>2. item' \in [Req -> Nat] /\ \A q \in Req : item'[q] \in DOMAIN ItemsOf[q]
    BY <2>1, ItemStays DEF TInv
  <2>3. pc[r] = "saveCoupon" => CouponOf[r] \in Coupon
    BY <1>24 DEF Place
  <2>4. TypeOK'
    BY <1>24, <2>2, <2>3 DEF ReplyLost, PublishOrderFailed, InsertOrder
  <2>5. Shapes'
    BY <1>24, <2>2 DEF ReplyLost, PublishOrderFailed, InsertOrder
  <2>6. Place(r)'
    BY <1>24, <1>b, Items, <2>4, <2>5
       DEF ReplyLost, PublishOrderFailed, InsertOrder, Place, P, Q
  <2>7. ASSUME NEW q \in Req \ {r} PROVE Place(q)'
    BY <1>24, OthersStay DEF ReplyLost, PublishOrderFailed, InsertOrder
  <2> QED
    BY <2>4, <2>5, <2>6, <2>7
<1> QED
  BY <1>1, <1>2, <1>3, <1>4, <1>5, <1>6, <1>7, <1>8, <1>9, <1>10, <1>11, <1>12,
     <1>13, <1>14, <1>15, <1>16, <1>17, <1>18, <1>19, <1>20, <1>21, <1>22, <1>23,
     <1>24
     DEF Next, CreateStep, HandlerStep

----------------------------------------------------------------------------
(* Orders.  What Backed says of a request is about its own variables and    *)
(* the prices, which do not change.                                         *)

LEMMA BackedStays ==
    ASSUME NEW q \in Req, left'[q] = left[q], reserved'[q] = reserved[q],
           couponUsed'[q] = couponUsed[q], price' = price
    PROVE  Backed(q)' <=> Backed(q)
  BY DEF Backed, StillInStock, Total, Final, Discount

\* A request that does not change its order or what it rests on.
LEMMA OrderStays ==
    ASSUME NEW q \in Req, OrderFollows(q), price' = price,
           left'[q] = left[q], reserved'[q] = reserved[q],
           couponUsed'[q] = couponUsed[q],
           \/ order'[q] = order[q] /\ (pc'[q] \in Ordering => pc[q] \in Ordering)
           \/ order[q] # "none" /\ pc'[q] = pc[q],
           pc'[q] = "saveOrder" => pc[q] = "saveOrder"
    PROVE  OrderFollows(q)'
  BY BackedStays DEF OrderFollows

LEMMA NextOrders == TInv /\ Orders /\ [Next]_vars => Orders'
<1> SUFFICES ASSUME TInv, Orders, [Next]_vars PROVE Orders'
  OBVIOUS
<1>a. pc \in [Req -> PCs] /\ order \in [Req -> {"none", "PENDING", "PAID"}]
      /\ couponUsed \in [Req -> BOOLEAN]
      /\ left \in [Req -> Seq(Nat)] /\ reserved \in [Req -> Nat]
  BY DEF TInv, TypeOK, Shapes
<1> USE <1>a
    DEF Orders, Ordering, CreateCalls, RankCalls, UnrankCalls, Goto, NextItem, setup,
        PublishOrderFailed, AfterRanking
<1> HIDE DEF TInv
<1>1. ASSUME NEW r \in Req, Execute(r) PROVE Orders'
  BY <1>1, OrderStays DEF Execute
<1>2. ASSUME NEW r \in Req, FindProduct(r) PROVE Orders'
  BY <1>2, OrderStays DEF FindProduct
<1>3. ASSUME NEW r \in Req, SaveProduct(r) PROVE Orders'
  <2>1. ASSUME NEW q \in Req \ {r} PROVE OrderFollows(q)'
    BY <1>3, OrderStays DEF SaveProduct
  <2>2. OrderFollows(r)'
    BY <1>3 DEF SaveProduct, OrderFollows
  <2> QED
    BY <2>1, <2>2
<1>4. ASSUME NEW r \in Req, FindUser(r) PROVE Orders'
  BY <1>4, OrderStays DEF FindUser
<1>5. ASSUME NEW r \in Req, FindCoupon(r) PROVE Orders'
  BY <1>5, OrderStays DEF FindCoupon
<1>6. ASSUME NEW r \in Req, SaveCoupon(r) PROVE Orders'
  <2>1. ASSUME NEW q \in Req \ {r} PROVE OrderFollows(q)'
    BY <1>6, OrderStays DEF SaveCoupon
  <2>2. OrderFollows(r)'
    BY <1>6 DEF SaveCoupon, OrderFollows
  <2> QED
    BY <2>1, <2>2
<1>7. ASSUME NEW r \in Req, ValidateOrder(r) PROVE Orders'
  <2>1. ASSUME NEW q \in Req \ {r} PROVE OrderFollows(q)'
    BY <1>7, OrderStays DEF ValidateOrder
  <2>2. ASSUME pc'[r] # "saveOrder" PROVE OrderFollows(r)'
    BY <1>7, <2>2, OrderStays DEF ValidateOrder
  <2>3. ASSUME pc'[r] = "saveOrder" PROVE OrderFollows(r)'
    <3>1. StillInStock(r) /\ ValidOrderAmount(Total(r), Final(r))
      BY <1>7, <2>3 DEF ValidateOrder
    <3>2. reserved[r] = Len(ItemsOf[r])
      BY <1>7 DEF ValidateOrder, TInv, Places, Place
    <3>3. Backed(r)'
      BY <1>7, <3>1, <3>2, BackedStays DEF ValidateOrder, Backed
    <3>4. order'[r] = "none"
      BY <1>7 DEF ValidateOrder, OrderFollows
    <3> QED
      BY <2>3, <3>3, <3>4 DEF OrderFollows
  <2> QED
    BY <2>1, <2>2, <2>3
<1>8. ASSUME NEW r \in Req, SaveOrder(r) PROVE Orders'
  <2>1. ASSUME NEW q \in Req \ {r} PROVE OrderFollows(q)'
    BY <1>8, OrderStays DEF SaveOrder, InsertOrder
  <2>2. Backed(r)'
    BY <1>8, BackedStays DEF SaveOrder, OrderFollows
  <2>3. OrderFollows(r)'
    BY <1>8, <2>2 DEF SaveOrder, OrderFollows
  <2> QED
    BY <2>1, <2>3
<1>9. ASSUME NEW r \in Req, ReadRank(r) PROVE Orders'
  BY <1>9, OrderStays DEF ReadRank
<1>10. ASSUME NEW r \in Req, WriteRank(r) PROVE Orders'
  BY <1>10, OrderStays DEF WriteRank
<1>11. ASSUME NEW r \in Req, SkipRank(r) PROVE Orders'
  BY <1>11, OrderStays DEF SkipRank
<1>12. ASSUME NEW r \in Req, TimerFires(r) PROVE Orders'
  BY <1>12, OrderStays DEF TimerFires
<1>13. ASSUME NEW r \in Req, Pay(r) PROVE Orders'
  BY <1>13, OrderStays DEF Pay
<1>14. ASSUME NEW r \in Req, RestoreFind(r) PROVE Orders'
  BY <1>14, OrderStays DEF RestoreFind
<1>15. ASSUME NEW r \in Req, RestoreSave(r) PROVE Orders'
  BY <1>15, OrderStays DEF RestoreSave
<1>16. ASSUME NEW r \in Req, RestoreCoupon(r) PROVE Orders'
  BY <1>16, OrderStays DEF RestoreCoupon
<1>17. ASSUME NEW r \in Req, RevertCoupon(r) PROVE Orders'
  BY <1>17, OrderStays DEF RevertCoupon
<1>18. ASSUME NEW r \in Req, ReadUnrank(r) PROVE Orders'
  BY <1>18, OrderStays DEF ReadUnrank
<1>19. ASSUME NEW r \in Req, WriteUnrank(r) PROVE Orders'
  BY <1>19, OrderStays DEF WriteUnrank
<1>20. ASSUME NEW r \in Req, SkipUnrank(r) PROVE Orders'
  BY <1>20, OrderStays DEF SkipUnrank
<1>21. ASSUME NEW r \in Req, CallFails(r) PROVE Orders'
  BY <1>21, OrderStays DEF CallFails
<1>22. CASE Crash
  BY <1>22, OrderStays DEF Crash, Ends
<1>23. CASE UNCHANGED vars
  BY <1>23, OrderStays DEF vars
<1>24. ASSUME NEW r \in Req, ReplyLost(r) PROVE Orders'
  <2>1. ASSUME NEW q \in Req \ {r} PROVE OrderFollows(q)'
    BY <1>24, OrderStays DEF ReplyLost, InsertOrder
  <2>2. ASSUME pc[r] = "saveCoupon" PROVE OrderFollows(r)'
    BY <1>24, <2>2 DEF ReplyLost, OrderFollows
  <2>3. ASSUME pc[r] = "saveOrder" PROVE OrderFollows(r)'
    <3>1. Backed(r)'
      BY <1>24, <2>3, BackedStays DEF ReplyLost, OrderFollows
    <3> QED
      BY <1>24, <2>3, <3>1 DEF ReplyLost, OrderFollows
  <2> QED
    BY <1>24, <2>1, <2>2, <2>3 DEF ReplyLost
<1> QED
  BY <1>1, <1>2, <1>3, <1>4, <1>5, <1>6, <1>7, <1>8, <1>9, <1>10, <1>11, <1>12,
     <1>13, <1>14, <1>15, <1>16, <1>17, <1>18, <1>19, <1>20, <1>21, <1>22, <1>23,
     <1>24
     DEF Next, CreateStep, HandlerStep

----------------------------------------------------------------------------
(* Coupons. *)

LEMMA CouponsStay ==
    ASSUME Coupons, couponUsed' = couponUsed, used' = used, raced \subseteq raced',
           \A q \in Req : restored'[q] = 0 => restored[q] = 0,
           \A q \in Req : pc'[q] = "saveCoupon" => pc[q] = "saveCoupon"
    PROVE  Coupons'
  BY DEF Coupons, Spends

LEMMA NextCoupons == TInv /\ Coupons /\ [Next]_vars => Coupons'
<1> SUFFICES ASSUME TInv, Coupons, [Next]_vars PROVE Coupons'
  OBVIOUS
<1>a. pc \in [Req -> PCs] /\ couponUsed \in [Req -> BOOLEAN]
      /\ restored \in [Req -> Nat]
  BY DEF TInv, TypeOK, Shapes
<1> USE <1>a
    DEF CreateCalls, RankCalls, UnrankCalls, Goto, NextItem, setup,
        PublishOrderFailed, AfterRanking
<1>1. ASSUME NEW r \in Req, Execute(r) PROVE Coupons'
  BY <1>1, CouponsStay DEF Execute
<1>2. ASSUME NEW r \in Req, FindProduct(r) PROVE Coupons'
  BY <1>2, CouponsStay DEF FindProduct, NoteRace
<1>3. ASSUME NEW r \in Req, SaveProduct(r) PROVE Coupons'
  BY <1>3, CouponsStay DEF SaveProduct
<1>4. ASSUME NEW r \in Req, FindUser(r) PROVE Coupons'
  BY <1>4, CouponsStay DEF FindUser
<1>5. ASSUME NEW r \in Req, FindCoupon(r) PROVE Coupons'
  <2>1. CASE pc'[r] # "saveCoupon"
    BY <1>5, <2>1, CouponsStay DEF FindCoupon
  <2>2. CASE pc'[r] = "saveCoupon"
    <3>1. CouponOf[r] \notin used
      BY <1>5, <2>2 DEF FindCoupon, Usable
    <3>2. CouponOf[r] \notin raced' => \A q \in Req \ {r} :
              pc[q] = "saveCoupon" => CouponOf[q] # CouponOf[r]
      BY <1>5 DEF FindCoupon
    <3>3. /\ \A q \in Req \ {r} : pc'[q] = pc[q]
          /\ raced \subseteq raced'
          /\ UNCHANGED <<couponUsed, used, restored>>
      BY <1>5 DEF FindCoupon
    <3> HIDE DEF TInv
    <3> QED
      BY <2>2, <3>1, <3>2, <3>3 DEF Coupons, Spends
  <2> QED
    BY <2>1, <2>2
<1>6. ASSUME NEW r \in Req, SaveCoupon(r) PROVE Coupons'
  <2>1. /\ pc[r] = "saveCoupon" /\ pc' = [pc EXCEPT ![r] = "validate"]
        /\ used' = used \cup {CouponOf[r]}
        /\ couponUsed' = [couponUsed EXCEPT ![r] = TRUE]
        /\ UNCHANGED <<restored, raced>>
    BY <1>6 DEF SaveCoupon
  <2>2. CouponOf[r] \in Coupon
    BY <2>1 DEF TInv, Places, Place
  <2>3. \A q \in Req : /\ Spends(q)' => Spends(q)
                       /\ couponUsed'[q] => couponUsed[q] \/ q = r
    BY <2>1 DEF Spends
  <2> QED
    BY <2>1, <2>2, <2>3 DEF Coupons
<1>7. ASSUME NEW r \in Req, ValidateOrder(r) PROVE Coupons'
  BY <1>7, CouponsStay DEF ValidateOrder
<1>8. ASSUME NEW r \in Req, SaveOrder(r) PROVE Coupons'
  BY <1>8, CouponsStay DEF SaveOrder
<1>9. ASSUME NEW r \in Req, ReadRank(r) PROVE Coupons'
  BY <1>9, CouponsStay DEF ReadRank
<1>10. ASSUME NEW r \in Req, WriteRank(r) PROVE Coupons'
  BY <1>10, CouponsStay DEF WriteRank
<1>11. ASSUME NEW r \in Req, SkipRank(r) PROVE Coupons'
  BY <1>11, CouponsStay DEF SkipRank
<1>12. ASSUME NEW r \in Req, TimerFires(r) PROVE Coupons'
  BY <1>12, CouponsStay DEF TimerFires
<1>13. ASSUME NEW r \in Req, Pay(r) PROVE Coupons'
  BY <1>13, CouponsStay DEF Pay
<1>14. ASSUME NEW r \in Req, RestoreFind(r) PROVE Coupons'
  BY <1>14, CouponsStay DEF RestoreFind, NoteRace
<1>15. ASSUME NEW r \in Req, RestoreSave(r) PROVE Coupons'
  BY <1>15, CouponsStay DEF RestoreSave
<1>16. ASSUME NEW r \in Req, RestoreCoupon(r) PROVE Coupons'
  BY <1>16, CouponsStay DEF RestoreCoupon
<1>17. ASSUME NEW r \in Req, RevertCoupon(r) PROVE Coupons'
  <2>1. restored[r] > 0 /\ restored' = restored /\ couponUsed' = couponUsed
    BY <1>17 DEF RevertCoupon, TInv, Places, Place
  <2> QED
    BY <2>1 DEF Coupons
<1>18. ASSUME NEW r \in Req, ReadUnrank(r) PROVE Coupons'
  BY <1>18, CouponsStay DEF ReadUnrank
<1>19. ASSUME NEW r \in Req, WriteUnrank(r) PROVE Coupons'
  BY <1>19, CouponsStay DEF WriteUnrank
<1>20. ASSUME NEW r \in Req, SkipUnrank(r) PROVE Coupons'
  BY <1>20, CouponsStay DEF SkipUnrank
<1>21. ASSUME NEW r \in Req, CallFails(r) PROVE Coupons'
  BY <1>21, CouponsStay DEF CallFails
<1>22. CASE Crash
  BY <1>22, CouponsStay DEF Crash
<1>23. CASE UNCHANGED vars
  BY <1>23, CouponsStay DEF vars
<1>24. ASSUME NEW r \in Req, ReplyLost(r) PROVE Coupons'
  <2>1. CASE pc[r] = "saveOrder"
    BY <1>24, <2>1, CouponsStay DEF ReplyLost
  <2>2. CASE pc[r] = "saveCoupon"
    <3>1. /\ \E p \in {"restoreFind", "failed"} : pc' = [pc EXCEPT ![r] = p]
          /\ used' = used \cup {CouponOf[r]}
          /\ couponUsed' = [couponUsed EXCEPT ![r] = TRUE]
          /\ UNCHANGED <<restored, raced>>
      BY <1>24, <2>2 DEF ReplyLost
    <3>2. CouponOf[r] \in Coupon
      BY <2>2 DEF TInv, Places, Place
    <3>3. \A q \in Req : /\ Spends(q)' => Spends(q)
                         /\ couponUsed'[q] => couponUsed[q] \/ q = r
      BY <2>2, <3>1 DEF Spends
    <3> QED
      BY <2>2, <3>1, <3>2, <3>3 DEF Coupons
  <2> QED
    BY <1>24, <2>1, <2>2 DEF ReplyLost
<1> QED
  BY <1>1, <1>2, <1>3, <1>4, <1>5, <1>6, <1>7, <1>8, <1>9, <1>10, <1>11, <1>12,
     <1>13, <1>14, <1>15, <1>16, <1>17, <1>18, <1>19, <1>20, <1>21, <1>22, <1>23,
     <1>24
     DEF Next, CreateStep, HandlerStep

----------------------------------------------------------------------------
LEMMA Invariant == Spec => []IInv
<1>1. IInv /\ [Next]_vars => IInv'
  BY NextTypes, NextOrders, NextCoupons DEF IInv, TInv
<1> QED
  BY InitInv, <1>1, PTL DEF Spec

\* Every reachable state is well typed: in particular neither stock nor scores
\* are ever negative, although both are written from reads that others may have
\* overtaken, and no compensation gives back more items than there are.
THEOREM TypeCorrect == Spec => []TypeOK
  BY Invariant, PTL DEF IInv

\* What an order costs lies between nothing and what its items cost, as soon
\* as validateOrderAmount accepts it.
LEMMA FinalInTotal ==
    ASSUME IInv, NEW r \in Req, ValidOrderAmount(Total(r), Final(r))
    PROVE  Final(r) \in 0 .. Total(r)
<1>1. Total(r) \in Nat
  BY AmountAssumption DEF IInv, Shapes, Total
<1>2. Discount(r) \in Nat
  <2>1. CASE couponUsed[r]
    <3>1. CouponOf[r] \in Coupon
      BY <2>1 DEF IInv, Coupons
    <3>2. TypeOfCoupon[CouponOf[r]] \in CouponType
      BY <3>1, Setups
    <3> QED
      BY <1>1, <2>1, <3>2, DiscountInTotal DEF Discount
  <2>2. CASE ~couponUsed[r]
    BY <2>2 DEF Discount
  <2> QED
    BY <2>1, <2>2
<1> QED
  BY <1>1, <1>2 DEF Final, FinalAmount, ValidOrderAmount

\* An order row is backed by the reservation of all its items and by a valid
\* amount, however its calls interleave with those of others.
THEOREM OrderBacked == Spec => []OrderIsBacked
<1>1. IInv => OrderIsBacked
  BY FinalInTotal DEF IInv, Orders, OrderFollows, Backed, OrderIsBacked
<1> QED
  BY <1>1, Invariant, PTL

\* A coupon is spent once, unless two requests raced for it or something was
\* given back.
THEOREM CouponSpentOnce == Spec => []CouponSpentOnceUnlessRaced
<1>1. IInv => CouponSpentOnceUnlessRaced
  BY DEF IInv, Coupons, Spends, CouponSpentOnceUnlessRaced
<1> QED
  BY <1>1, Invariant, PTL

----------------------------------------------------------------------------
(* The pieces of an order                                                  *)

LEMMA InItems ==
    ASSUME NEW n, NEW p, NEW x
    PROVE  x \in ItemsUpTo(n, p) <=>
              \E r \in Req : \E i \in 1 .. n[r] : x = <<r, i>> /\ ItemsOf[r][i].p = p
  BY DEF ItemsUpTo

\* One more item adds its quantity.
LEMMA OneMoreItem ==
    ASSUME NEW items, NEW x, x \notin items, NEW q \in Nat, ItemsOf[x[1]][x[2]].q = q,
           IsFiniteSet(Pieces(items))
    PROVE  /\ IsFiniteSet(Pieces(items \cup {x}))
           /\ Cardinality(Pieces(items \cup {x})) = Cardinality(Pieces(items)) + q
<1> DEFINE A == Pieces(items)
           B == {x} \X (1 .. q)
<1>1. Pieces(items \cup {x}) = A \cup B
  BY DEF Pieces
<1>2. A \cap B = {}
  BY DEF Pieces
<1>3. IsFiniteSet(B) /\ Cardinality(B) = q
  <2>1. IsFiniteSet(1 .. q) /\ Cardinality(1 .. q) = q
    BY FS_Interval
  <2>2. IsFiniteSet({x}) /\ Cardinality({x}) = 1
    BY FS_Singleton
  <2>3. IsFiniteSet(B) /\ Cardinality(B) = Cardinality({x}) * Cardinality(1 .. q)
    BY <2>1, <2>2, FS_Product
  <2> QED
    BY <2>1, <2>2, <2>3
<1> HIDE DEF A, B
<1>4. IsFiniteSet(A) /\ Cardinality(A) \in Nat
  BY FS_CardinalityType DEF A
<1>5. /\ IsFiniteSet(A \cup B)
      /\ Cardinality(A \cup B) = Cardinality(A) + Cardinality(B) - Cardinality(A \cap B)
  BY <1>3, <1>4, FS_Union
<1>6. Cardinality(A \cap B) = 0
  BY <1>2, FS_EmptySet
<1>7. IsFiniteSet(A \cup B) /\ Cardinality(A \cup B) = Cardinality(A) + q
  BY <1>3, <1>4, <1>5, <1>6
<1> QED
  BY <1>1, <1>7 DEF A

\* A request takes its next item, which is of one product.
LEMMA QuantityGrows ==
    ASSUME NEW n \in [Req -> Nat], NEW r \in Req, NEW p, NEW i \in Nat, i = n[r] + 1,
           NEW q \in Nat, ItemsOf[r][i].q = q, IsFiniteSet(Pieces(ItemsUpTo(n, p))),
           NEW m, \A s \in Req : m[s] = IF s = r THEN i ELSE n[s]
    PROVE  /\ IsFiniteSet(Pieces(ItemsUpTo(m, p)))
           /\ Quantity(m, p) =
                 Quantity(n, p) + (IF ItemsOf[r][i].p = p THEN q ELSE 0)
<1> DEFINE x == <<r, i>>
<1>1. /\ \A s \in Req : \A j : j \in 1 .. m[s] <=> (j \in 1 .. n[s] \/ (s = r /\ j = i))
      /\ i \notin 1 .. n[r]
  OBVIOUS
<1>2. x \notin ItemsUpTo(n, p)
  BY <1>1, InItems
<1>3. x[1] = r /\ x[2] = i
  OBVIOUS
<1>4. ASSUME NEW y
      PROVE  y \in ItemsUpTo(m, p) <=>
                y \in ItemsUpTo(n, p) \/ (y = x /\ ItemsOf[r][i].p = p)
  BY <1>1, InItems
<1> HIDE DEF x
<1>5. CASE ItemsOf[r][i].p = p
  <2>1. ItemsUpTo(m, p) = ItemsUpTo(n, p) \cup {x}
    BY <1>4, <1>5
  <2>2. /\ IsFiniteSet(Pieces(ItemsUpTo(n, p) \cup {x}))
        /\ Cardinality(Pieces(ItemsUpTo(n, p) \cup {x}))
              = Cardinality(Pieces(ItemsUpTo(n, p))) + q
    BY <1>2, <1>3, OneMoreItem
  <2> QED
    BY <1>5, <2>1, <2>2 DEF Quantity
<1>6. CASE ItemsOf[r][i].p # p
  <2>1. ItemsUpTo(m, p) = ItemsUpTo(n, p)
    BY <1>4, <1>6
  <2>2. Quantity(n, p) \in Nat
    BY FS_CardinalityType DEF Quantity
  <2> QED
    BY <1>6, <2>1, <2>2 DEF Quantity
<1> QED
  BY <1>5, <1>6

\* Fewer items have no more pieces.
LEMMA QuantityMonotone ==
    ASSUME NEW n \in [Req -> Int], NEW m \in [Req -> Int], NEW p,
           \A r \in Req : n[r] <= m[r], IsFiniteSet(Pieces(ItemsUpTo(m, p)))
    PROVE  /\ IsFiniteSet(Pieces(ItemsUpTo(n, p)))
           /\ Quantity(n, p) \in Nat /\ Quantity(m, p) \in Nat
           /\ Quantity(n, p) <= Quantity(m, p)
<1>1. \A r \in Req : 1 .. n[r] \subseteq 1 .. m[r]
  OBVIOUS
<1>2. ItemsUpTo(n, p) \subseteq ItemsUpTo(m, p)
  BY <1>1, InItems
<1>3. Pieces(ItemsUpTo(n, p)) \subseteq Pieces(ItemsUpTo(m, p))
  BY <1>2 DEF Pieces
<1> QED
  BY <1>3, FS_Subset, FS_CardinalityType DEF Quantity

\* Nothing is taken at first.
LEMMA NoPieces ==
    ASSUME NEW n, \A r \in Req : n[r] = 0, NEW p
    PROVE  IsFiniteSet(Pieces(ItemsUpTo(n, p))) /\ Quantity(n, p) = 0
<1>1. \A r \in Req : 1 .. n[r] = {}
  OBVIOUS
<1>2. ItemsUpTo(n, p) = {}
  BY <1>1, InItems
<1>3. Pieces(ItemsUpTo(n, p)) = {}
  BY <1>2 DEF Pieces
<1> QED
  BY <1>3, FS_EmptySet DEF Quantity

----------------------------------------------------------------------------
(* The stock.  The ledger rests on nobody having saved a product between a *)
(* request's read and its save, and on what the place of a request says of *)
(* the items it has reserved or given back.                                *)

\* Who is about to save a product that was not raced for is alone, and saves
\* what it computed from the present stock.
StockIsFresh ==
    \A p \in Product \ raced : \A q \in Req : AboutToSave(q, p) =>
        /\ read[q] = stock[p]
        /\ \A r \in Req : AboutToSave(r, p) => r = q

FiniteStock ==
    \A p \in Product : /\ IsFiniteSet(Pieces(ItemsUpTo(reserved, p)))
                       /\ IsFiniteSet(Pieces(ItemsUpTo(restored, p)))

\* What there was of a product at first and came back.
Supply(p) == initStock[p] + Quantity(restored, p)

\* There is never more of a product, nor will there be once those that are about
\* to save it have: raced or not, a read is of a stock that was in bounds.
WithinSupply ==
    /\ \A p \in Product : stock[p] <= Supply(p)
    /\ \A q \in Req : \A p \in Product : AboutToSave(q, p) => read[q] <= Supply(p)

SInv ==
    /\ StockIsFresh /\ FiniteStock /\ StockLedgerUnlessRaced /\ WithinSupply
    /\ initStock \in [Product -> Nat]

LEMMA SupplyNat ==
    ASSUME FiniteStock, initStock \in [Product -> Nat], NEW p \in Product
    PROVE  Supply(p) \in Nat
  BY FS_CardinalityType DEF FiniteStock, Supply, Quantity

LEMMA InitStock == Init => SInv
<1> SUFFICES ASSUME Init PROVE SInv
  OBVIOUS
<1>1. FiniteStock /\ \A p \in Product : Quantity(reserved, p) = 0 /\ Quantity(restored, p) = 0
  <2>1. \A r \in Req : reserved[r] = 0 /\ restored[r] = 0
    BY DEF Init
  <2> QED
    BY <2>1, NoPieces DEF FiniteStock
<1>2. initStock \in [Product -> Nat] /\ stock = initStock
  BY StockAssumption DEF Init
<1>3. StockLedgerUnlessRaced
  BY <1>1, <1>2 DEF StockLedgerUnlessRaced
<1>4. WithinSupply
  BY <1>1, <1>2 DEF Init, WithinSupply, Supply, AboutToSave
<1> QED
  BY <1>1, <1>2, <1>3, <1>4 DEF Init, SInv, StockIsFresh, AboutToSave

LEMMA FreshStays ==
    ASSUME StockIsFresh, stock' = stock, raced \subseteq raced',
           \A q \in Req : pc'[q] \in {"saveProduct", "restoreSave"} =>
              pc[q] = pc'[q] /\ item'[q] = item[q] /\ read'[q] = read[q]
    PROVE  StockIsFresh'
<1>1. \A q \in Req : \A p : AboutToSave(q, p)' => AboutToSave(q, p) /\ read'[q] = read[q]
  BY DEF AboutToSave, P
<1> QED
  BY <1>1 DEF StockIsFresh

LEMMA LedgerStays ==
    ASSUME SInv, UNCHANGED <<stock, initStock, reserved, restored>>, raced \subseteq raced'
    PROVE  FiniteStock' /\ StockLedgerUnlessRaced' /\ initStock' \in [Product -> Nat]
<1>1. \A p : Quantity(reserved, p)' = Quantity(reserved, p)
             /\ Quantity(restored, p)' = Quantity(restored, p)
  OBVIOUS
<1> QED
  BY <1>1 DEF SInv, FiniteStock, StockLedgerUnlessRaced

LEMMA SupplyStays ==
    ASSUME SInv, UNCHANGED <<stock, initStock, restored>>,
           \A q \in Req : pc'[q] \in {"saveProduct", "restoreSave"} =>
              pc[q] = pc'[q] /\ item'[q] = item[q] /\ read'[q] = read[q]
    PROVE  WithinSupply'
<1>1. \A p : Supply(p)' = Supply(p)
  BY DEF Supply
<1>2. \A q \in Req : \A p : AboutToSave(q, p)' => AboutToSave(q, p) /\ read'[q] = read[q]
  BY DEF AboutToSave, P
<1> QED
  BY <1>1, <1>2 DEF SInv, WithinSupply

\* A step that saves no stock and reads none to save it.
LEMMA StockStays ==
    ASSUME SInv, UNCHANGED <<stock, initStock, reserved, restored>>, raced \subseteq raced',
           \A q \in Req : pc'[q] \in {"saveProduct", "restoreSave"} =>
              pc[q] = pc'[q] /\ item'[q] = item[q] /\ read'[q] = read[q]
    PROVE  SInv'
  BY FreshStays, LedgerStays, SupplyStays DEF SInv

\* A request reads the stock it will save.
LEMMA StockRead ==
    ASSUME TInv, SInv, UNCHANGED <<stock, initStock, reserved, restored>>,
           NEW r \in Req, NoteRace(r), pc[r] \in {"findProduct", "restoreFind"},
           read'[r] = stock[P(r)], item' = item,
           \A q \in Req \ {r} : pc'[q] = pc[q] /\ read'[q] = read[q]
    PROVE  SInv'
<1>1. raced \subseteq raced' /\ P(r) \in Product
  BY AtItem DEF NoteRace, TInv
<1>2. P(r) \notin raced' => \A q \in Req : ~AboutToSave(q, P(r))
  BY <1>1 DEF NoteRace
<1>3. \A q \in Req : \A p : AboutToSave(q, p)' => \/ AboutToSave(q, p) /\ read'[q] = read[q]
                                                  \/ q = r /\ p = P(r)
  BY DEF AboutToSave, P
<1>4. StockIsFresh'
  <2> SUFFICES ASSUME NEW p \in Product \ raced', NEW q \in Req, AboutToSave(q, p)'
               PROVE  /\ read'[q] = stock[p]
                      /\ \A s \in Req : AboutToSave(s, p)' => s = q
    BY DEF StockIsFresh
  <2>1. CASE p = P(r)
    BY <1>2, <1>3, <2>1
  <2>2. CASE p # P(r)
    BY <1>1, <1>3, <2>2 DEF SInv, StockIsFresh
  <2> QED
    BY <2>1, <2>2
<1>5. WithinSupply'
  <2>1. \A p : Supply(p)' = Supply(p)
    BY DEF Supply
  <2> QED
    BY <1>3, <2>1 DEF SInv, WithinSupply
<1> QED
  BY <1>1, <1>4, <1>5, LedgerStays DEF SInv

\* A request saves the stock it read, and is no longer about to.
LEMMA StockSaved ==
    ASSUME TInv, SInv, NEW r \in Req, pc[r] \in {"saveProduct", "restoreSave"}, NEW s,
           SaveStock(r, s), raced' = raced, pc'[r] \notin {"saveProduct", "restoreSave"},
           \A q \in Req \ {r} : pc'[q] = pc[q] /\ read'[q] = read[q] /\ item'[q] = item[q]
    PROVE  /\ StockIsFresh'
           /\ P(r) \notin raced => read[r] = stock[P(r)]
           /\ P(r) \in Product
           /\ read[r] <= Supply(P(r))
           /\ \A q \in Req : \A p : AboutToSave(q, p)' =>
                 AboutToSave(q, p) /\ q # r /\ read'[q] = read[q]
           /\ \A p \in Product : stock'[p] = IF p = P(r) THEN s ELSE stock[p]
<1>1. AboutToSave(r, P(r)) /\ P(r) \in Product
  BY AtItem DEF AboutToSave, TInv
<1>2. \A q \in Req : \A p : AboutToSave(q, p)' => AboutToSave(q, p) /\ q # r
  BY DEF AboutToSave, P
<1>3. \A p \in Product : stock'[p] = IF p = P(r) THEN s ELSE stock[p]
  BY <1>1 DEF SaveStock, TInv, TypeOK
<1>4. read[r] <= Supply(P(r))
  BY <1>1 DEF SInv, WithinSupply
<1> QED
  BY <1>1, <1>2, <1>3, <1>4 DEF SInv, StockIsFresh

\* A save within what there is and comes back keeps within it.
LEMMA SaveWithinSupply ==
    ASSUME TInv, SInv, NEW r \in Req, NEW d \in Product, NEW s \in Nat, s <= Supply(d)',
           \A q \in Req : \A p : AboutToSave(q, p)' =>
              AboutToSave(q, p) /\ q # r /\ read'[q] = read[q],
           \A p \in Product : stock'[p] = IF p = d THEN s ELSE stock[p],
           \A p \in Product : Supply(p)' \in Nat /\ Supply(p) <= Supply(p)'
    PROVE  WithinSupply'
<1>1. \A p \in Product : /\ stock[p] \in Nat /\ Supply(p) \in Nat
                         /\ stock[p] <= Supply(p)
  BY SupplyNat DEF TInv, TypeOK, SInv, WithinSupply
<1>2. \A p \in Product : stock'[p] <= Supply(p)'
  BY <1>1
<1>3. ASSUME NEW q \in Req, NEW p \in Product, AboutToSave(q, p)'
      PROVE  read'[q] <= Supply(p)'
  <2>1. AboutToSave(q, p) /\ read'[q] = read[q]
    BY <1>3
  <2>2. read[q] <= Supply(p) /\ read[q] \in Nat \cup {Absent}
    BY <2>1 DEF SInv, WithinSupply, TInv, Shapes
  <2> QED
    BY <1>1, <2>1, <2>2 DEF Absent
<1> QED
  BY <1>2, <1>3 DEF WithinSupply

LEMMA NextStock == TInv /\ SInv /\ [Next]_vars => SInv'
<1> SUFFICES ASSUME TInv, SInv, [Next]_vars PROVE SInv'
  OBVIOUS
<1>a. /\ pc \in [Req -> PCs] /\ item \in [Req -> Nat] /\ read \in [Req -> Nat \cup {Absent}]
      /\ stock \in [Product -> Nat]
      /\ reserved \in [Req -> Nat] /\ restored \in [Req -> Nat]
  BY DEF TInv, TypeOK, Shapes
<1>b. /\ \A p \in Product : /\ Quantity(reserved, p) \in Nat /\ Quantity(restored, p) \in Nat
                            /\ initStock[p] \in Nat /\ stock[p] \in Nat
  BY <1>a, FS_CardinalityType DEF SInv, FiniteStock, Quantity
<1> USE <1>a DEF Goto, NextItem, Done, Read, setup, PublishOrderFailed, AfterRanking,
                 CreateCalls, RankCalls, UnrankCalls
<1>1. ASSUME NEW r \in Req, FindProduct(r) PROVE SInv'
  <2>1. CASE HasStock(stock[P(r)], Q(r)) /\ read' = [read EXCEPT ![r] = stock[P(r)]]
             /\ item' = item
    BY <1>1, <2>1, StockRead DEF FindProduct
  <2>2. CASE read' = read /\ pc'[r] \in {"restoreFind", "failed"}
             /\ \A q \in Req \ {r} : item'[q] = item[q]
    <3>1. raced \subseteq raced'
      BY <1>1 DEF FindProduct, NoteRace
    <3> QED
      BY <1>1, <2>2, <3>1, StockStays DEF FindProduct
  <2> QED
    BY <1>1, <2>1, <2>2 DEF FindProduct
<1>2. ASSUME NEW r \in Req, RestoreFind(r) PROVE SInv'
  BY <1>2, StockRead DEF RestoreFind
<1>3. ASSUME NEW r \in Req, SaveProduct(r) PROVE SInv'
  <2> DEFINE i == item[r]
             d == P(r)
             n == Q(r)
  <2>1. /\ pc[r] = "saveProduct" /\ SaveStock(r, read[r] - n) /\ raced' = raced
        /\ pc'[r] \notin {"saveProduct", "restoreSave"}
        /\ \A q \in Req \ {r} : pc'[q] = pc[q] /\ read'[q] = read[q] /\ item'[q] = item[q]
        /\ UNCHANGED <<restored, initStock>>
        /\ reserved' = [reserved EXCEPT ![r] = @ + 1]
    BY <1>3 DEF SaveProduct, Decreased
  <2>2. /\ StockIsFresh' /\ d \in Product
        /\ d \notin raced => read[r] = stock[d]
        /\ read[r] <= Supply(d)
        /\ \A q \in Req : \A p : AboutToSave(q, p)' =>
              AboutToSave(q, p) /\ q # r /\ read'[q] = read[q]
        /\ \A p \in Product : stock'[p] = IF p = d THEN read[r] - n ELSE stock[p]
    BY <2>1, StockSaved
  <2>3. /\ i \in Nat /\ n \in Nat /\ i = reserved[r] + 1
        /\ ItemsOf[r][i].p = d /\ ItemsOf[r][i].q = n
    BY <2>1, AtItem DEF TInv, Shapes, Places, Place, P, Q
  <2>8. read[r] \in Nat /\ n <= read[r]
    BY <2>1 DEF TInv, Places, Place
  <2> HIDE DEF i, d, n
  <2>4. ASSUME NEW p \in Product
        PROVE  /\ IsFiniteSet(Pieces(ItemsUpTo(reserved', p)))
               /\ Quantity(reserved', p) = Quantity(reserved, p) + (IF d = p THEN n ELSE 0)
    <3>1. IsFiniteSet(Pieces(ItemsUpTo(reserved, p)))
      BY DEF SInv, FiniteStock
    <3>2. \A q \in Req : reserved'[q] = IF q = r THEN i ELSE reserved[q]
      BY <2>1, <2>3
    <3>3. /\ IsFiniteSet(Pieces(ItemsUpTo(reserved', p)))
          /\ Quantity(reserved', p) =
                Quantity(reserved, p) + (IF ItemsOf[r][i].p = p THEN n ELSE 0)
      BY <2>3, <3>1, <3>2, QuantityGrows
    <3> QED
      BY <2>3, <3>3
  <2>5. FiniteStock'
    BY <2>1, <2>4 DEF SInv, FiniteStock
  <2>6. ASSUME NEW p \in Product \ raced'
        PROVE  stock'[p] = initStock'[p] - Quantity(reserved', p) + Quantity(restored', p)
    <3>1. stock[p] = initStock[p] - Quantity(reserved, p) + Quantity(restored, p)
      BY <2>1 DEF SInv, StockLedgerUnlessRaced
    <3>2. p \in Product /\ p \notin raced /\ initStock'[p] = initStock[p]
      BY <2>1
    <3>3. /\ Quantity(reserved, p) \in Nat /\ Quantity(restored, p) \in Nat
          /\ initStock[p] \in Nat /\ stock[p] \in Nat /\ n \in Nat
      BY <1>b, <2>3, <3>2
    <3>4. /\ stock'[p] = IF p = d THEN stock[p] - n ELSE stock[p]
          /\ Quantity(reserved', p) = Quantity(reserved, p) + (IF p = d THEN n ELSE 0)
          /\ Quantity(restored', p) = Quantity(restored, p)
      BY <2>1, <2>2, <2>4, <3>2
    <3> QED
      BY <3>1, <3>2, <3>3, <3>4
  <2>7. WithinSupply'
    <3>1. \A p \in Product : Supply(p)' = Supply(p) /\ Supply(p) \in Nat
      BY <2>1, SupplyNat DEF Supply, SInv
    <3>2. d \in Product /\ read[r] <= Supply(d)
      BY <2>2
    <3>3. PICK e \in Product : e = d /\ read[r] <= Supply(e)
      BY <3>2
    <3>4. PICK s \in Nat : s = read[r] - n
      BY <2>3, <2>8
    <3>5. s <= Supply(e)'
      BY <2>3, <2>8, <3>1, <3>3, <3>4
    <3>6. \A p \in Product : Supply(p)' \in Nat /\ Supply(p) <= Supply(p)'
      BY <3>1
    <3>7. /\ \A q \in Req : \A p : AboutToSave(q, p)' =>
                AboutToSave(q, p) /\ q # r /\ read'[q] = read[q]
          /\ \A p \in Product : stock'[p] = IF p = d THEN read[r] - n ELSE stock[p]
      BY <2>2
    <3>8. \A p \in Product : stock'[p] = IF p = e THEN s ELSE stock[p]
      BY <3>3, <3>4, <3>7
    <3> QED
      BY ONLY TInv, SInv, r \in Req, <3>5, <3>6, <3>7, <3>8, SaveWithinSupply
  <2> QED
    BY <2>1, <2>2, <2>5, <2>6, <2>7 DEF SInv, StockLedgerUnlessRaced
<1>4. ASSUME NEW r \in Req, RestoreSave(r) PROVE SInv'
  <2> DEFINE i == item[r]
             d == P(r)
             n == Q(r)
  <2>1. /\ pc[r] = "restoreSave" /\ SaveStock(r, read[r] + n) /\ raced' = raced
        /\ pc'[r] \notin {"saveProduct", "restoreSave"}
        /\ \A q \in Req \ {r} : pc'[q] = pc[q] /\ read'[q] = read[q] /\ item'[q] = item[q]
        /\ UNCHANGED <<reserved, initStock>>
        /\ restored' = [restored EXCEPT ![r] = @ + 1]
    BY <1>4 DEF RestoreSave, Increased
  <2>2. /\ StockIsFresh' /\ d \in Product
        /\ d \notin raced => read[r] = stock[d]
        /\ read[r] <= Supply(d)
        /\ \A q \in Req : \A p : AboutToSave(q, p)' =>
              AboutToSave(q, p) /\ q # r /\ read'[q] = read[q]
        /\ \A p \in Product : stock'[p] = IF p = d THEN read[r] + n ELSE stock[p]
    BY <2>1, StockSaved
  <2>3. /\ i \in Nat /\ n \in Nat /\ i = restored[r] + 1
        /\ ItemsOf[r][i].p = d /\ ItemsOf[r][i].q = n
    BY <2>1, AtItem DEF TInv, Shapes, Places, Place, P, Q
  <2>8. read[r] \in Nat
    BY <2>1 DEF TInv, Places, Place
  <2> HIDE DEF i, d, n
  <2>4. ASSUME NEW p \in Product
        PROVE  /\ IsFiniteSet(Pieces(ItemsUpTo(restored', p)))
               /\ Quantity(restored', p) = Quantity(restored, p) + (IF d = p THEN n ELSE 0)
    <3>1. IsFiniteSet(Pieces(ItemsUpTo(restored, p)))
      BY DEF SInv, FiniteStock
    <3>2. \A q \in Req : restored'[q] = IF q = r THEN i ELSE restored[q]
      BY <2>1, <2>3
    <3>3. /\ IsFiniteSet(Pieces(ItemsUpTo(restored', p)))
          /\ Quantity(restored', p) =
                Quantity(restored, p) + (IF ItemsOf[r][i].p = p THEN n ELSE 0)
      BY <2>3, <3>1, <3>2, QuantityGrows
    <3> QED
      BY <2>3, <3>3
  <2>5. FiniteStock'
    BY <2>1, <2>4 DEF SInv, FiniteStock
  <2>6. ASSUME NEW p \in Product \ raced'
        PROVE  stock'[p] = initStock'[p] - Quantity(reserved', p) + Quantity(restored', p)
    <3>1. stock[p] = initStock[p] - Quantity(reserved, p) + Quantity(restored, p)
      BY <2>1 DEF SInv, StockLedgerUnlessRaced
    <3>2. p \in Product /\ p \notin raced /\ initStock'[p] = initStock[p]
      BY <2>1
    <3>3. /\ Quantity(reserved, p) \in Nat /\ Quantity(restored, p) \in Nat
          /\ initStock[p] \in Nat /\ stock[p] \in Nat /\ n \in Nat
      BY <1>b, <2>3, <3>2
    <3>4. /\ stock'[p] = IF p = d THEN stock[p] + n ELSE stock[p]
          /\ Quantity(restored', p) = Quantity(restored, p) + (IF p = d THEN n ELSE 0)
          /\ Quantity(reserved', p) = Quantity(reserved, p)
      BY <2>1, <2>2, <2>4, <3>2
    <3> QED
      BY <3>1, <3>2, <3>3, <3>4
  <2>7. WithinSupply'
    <3>1. ASSUME NEW p \in Product
          PROVE  /\ Supply(p) \in Nat /\ Supply(p) <= Supply(p)'
                 /\ Supply(p)' = Supply(p) + (IF d = p THEN n ELSE 0)
      <4>1. /\ initStock'[p] = initStock[p]
            /\ Quantity(restored', p) = Quantity(restored, p) + (IF d = p THEN n ELSE 0)
        BY <2>1, <2>4
      <4>2. Quantity(restored, p) \in Nat /\ initStock[p] \in Nat /\ n \in Nat
        BY <1>b, <2>3
      <4>3. Supply(p)' = initStock'[p] + Quantity(restored', p)
        BY DEF Supply, Quantity, Pieces, ItemsUpTo
      <4> QED
        BY <4>1, <4>2, <4>3 DEF Supply
    <3>2. d \in Product /\ read[r] <= Supply(d)
      BY <2>2
    <3>3. PICK e \in Product : e = d /\ read[r] <= Supply(e)
      BY <3>2
    <3>4. PICK s \in Nat : s = read[r] + n
      BY <2>3, <2>8
    <3>5. s <= Supply(e)'
      BY <2>3, <2>8, <3>1, <3>3, <3>4
    <3>6. \A p \in Product : Supply(p)' \in Nat /\ Supply(p) <= Supply(p)'
      BY <2>3, <3>1
    <3>7. /\ \A q \in Req : \A p : AboutToSave(q, p)' =>
                AboutToSave(q, p) /\ q # r /\ read'[q] = read[q]
          /\ \A p \in Product : stock'[p] = IF p = d THEN read[r] + n ELSE stock[p]
      BY <2>2
    <3>8. \A p \in Product : stock'[p] = IF p = e THEN s ELSE stock[p]
      BY <3>3, <3>4, <3>7
    <3> QED
      BY ONLY TInv, SInv, r \in Req, <3>5, <3>6, <3>7, <3>8, SaveWithinSupply
  <2> QED
    BY <2>1, <2>2, <2>5, <2>6, <2>7 DEF SInv, StockLedgerUnlessRaced
<1>5. ASSUME NEW r \in Req, FindCoupon(r) PROVE SInv'
  BY <1>5, StockStays DEF FindCoupon
<1>6. CASE Crash
  BY <1>6, StockStays DEF Crash, Ends
<1>7. CASE UNCHANGED vars
  BY <1>7, StockStays DEF vars
<1>8. ASSUME NEW r \in Req, Execute(r) \/ FindUser(r) \/ SaveCoupon(r) \/ ValidateOrder(r)
             \/ SaveOrder(r) \/ Pay(r)
      PROVE  SInv'
  BY <1>8, StockStays DEF Execute, FindUser, SaveCoupon, ValidateOrder, SaveOrder, Pay
<1>9. ASSUME NEW r \in Req, ReadRank(r) \/ WriteRank(r) \/ SkipRank(r) PROVE SInv'
  BY <1>9, StockStays DEF ReadRank, WriteRank, SkipRank
<1>10. ASSUME NEW r \in Req, ReadUnrank(r) \/ WriteUnrank(r) \/ SkipUnrank(r) PROVE SInv'
  BY <1>10, StockStays DEF ReadUnrank, WriteUnrank, SkipUnrank
<1>11. ASSUME NEW r \in Req, TimerFires(r) \/ RestoreCoupon(r) \/ RevertCoupon(r)
              \/ CallFails(r) \/ ReplyLost(r)
       PROVE  SInv'
  BY <1>11, StockStays
     DEF TimerFires, RestoreCoupon, RevertCoupon, CallFails, ReplyLost
<1> QED
  BY <1>1, <1>2, <1>3, <1>4, <1>5, <1>6, <1>7, <1>8, <1>9, <1>10, <1>11
     DEF Next, CreateStep, HandlerStep

LEMMA StockInvariant == Spec => [](IInv /\ SInv)
<1>1. Init => IInv /\ SInv
  BY InitInv, InitStock
<1>2. IInv /\ SInv /\ [Next]_vars => (IInv /\ SInv)'
  BY NextTypes, NextOrders, NextCoupons, NextStock DEF IInv, TInv
<1> QED
  BY <1>1, <1>2, PTL DEF Spec

\* Unless two requests raced for a product, its stock is the initial one less
\* what was reserved plus what was given back, across partly reserved and
\* failed orders, compensations and crashes.
THEOREM StockLedger == Spec => []StockLedgerUnlessRaced
  BY StockInvariant, PTL DEF SInv

----------------------------------------------------------------------------
(* The stock room.  Saving a product takes or gives back the item its       *)
(* request is at, and saving the order places it; reading what another      *)
(* request is about to save is to contend, and nothing else is to be seen.  *)

\* What requests share of the stock room, besides the stock itself.
Placed == {r \in Req : order[r] # "none"}
Contended == raced \cap Product

LEMMA RoomInit == Init => Room!Init
<1> SUFFICES ASSUME Init PROVE Room!Init
  OBVIOUS
<1>1. \A p \in Product : Quantity(restored, p) = 0
  BY NoPieces DEF Init
<1>2. initStock \in [Product -> Nat]
  BY StockAssumption DEF Init
<1>3. [p \in Product |-> initStock[p] + Quantity(restored, p)] = stock
  BY <1>1, <1>2 DEF Init
<1> QED
  BY <1>3 DEF Init, Room!Init

\* A step that touches neither products nor orders may contend, or does nothing.
LEMMA RoomStays ==
    ASSUME UNCHANGED <<stock, initStock, reserved, restored, order>>, NEW c,
           raced' = raced \/ raced' = raced \cup {c}
    PROVE  [Room!Next]_(Room!vars)
<1> DEFINE supply == [p \in Product |-> initStock[p] + Quantity(restored, p)]
<1>1. supply' = supply /\ Placed' = Placed
  BY DEF Placed
<1> HIDE DEF supply
<1>2. CASE Contended' = Contended
  BY <1>1, <1>2 DEF Room!vars, Placed, Contended, supply
<1>3. CASE c \in Product /\ Contended' = Contended \cup {c}
  BY <1>1, <1>3 DEF Room!Next, Room!Contend, Placed, Contended, supply
<1> QED
  BY <1>2, <1>3 DEF Contended

LEMMA TakesItem ==
    ASSUME TInv, Orders, SInv, NEW r \in Req, SaveProduct(r)
    PROVE  Room!Take(r)
<1> DEFINE supply == [p \in Product |-> initStock[p] + Quantity(restored, p)]
<1>1. /\ pc[r] = "saveProduct" /\ stock' = [stock EXCEPT ![P(r)] = read[r] - Q(r)]
      /\ reserved' = [reserved EXCEPT ![r] = @ + 1]
      /\ UNCHANGED <<initStock, restored, order, raced>>
  BY DEF SaveProduct, SaveStock, Decreased, setup
<1>2. supply' = supply /\ Placed' = Placed /\ Contended' = Contended
  BY <1>1 DEF Placed, Contended
<1>3. /\ item[r] = reserved[r] + 1 /\ item[r] \in DOMAIN ItemsOf[r]
      /\ P(r) \in Product /\ Q(r) \in Nat /\ read[r] \in Nat /\ Q(r) <= read[r]
      /\ restored[r] = 0 /\ order[r] = "none"
  BY <1>1, AtItem
     DEF TInv, TypeOK, Shapes, Places, Place, Orders, OrderFollows, Ordering, CreateCalls
<1>4. /\ read[r] <= Supply(P(r)) /\ Supply(P(r)) \in Nat
      /\ P(r) \notin raced => read[r] = stock[P(r)]
  BY <1>1, <1>3, SupplyNat DEF SInv, StockIsFresh, WithinSupply, AboutToSave
<1>5. supply[P(r)] = Supply(P(r))
  BY <1>3 DEF Supply
<1>6. read[r] - Q(r) \in IF P(r) \in Contended THEN 0 .. supply[P(r)] - Q(r)
                                               ELSE {stock[P(r)] - Q(r)} \cap Nat
  BY <1>3, <1>4, <1>5 DEF Contended
<1>7. r \notin Placed
  BY <1>3 DEF Placed
<1> HIDE DEF supply
<1>8. \E s \in IF P(r) \in Contended THEN 0 .. supply[P(r)] - Q(r)
                                     ELSE {stock[P(r)] - Q(r)} \cap Nat :
         stock' = [stock EXCEPT ![P(r)] = s]
  BY <1>1, <1>6
<1>9. ItemsOf[r][reserved[r] + 1].p = P(r) /\ ItemsOf[r][reserved[r] + 1].q = Q(r)
  BY <1>3 DEF P, Q
<1> HIDE DEF P, Q
<1>10. reserved' = [reserved EXCEPT ![r] = reserved[r] + 1]
  BY <1>1
<1> QED
  BY <1>1, <1>2, <1>3, <1>7, <1>8, <1>9, <1>10
     DEF Room!Take, Placed, Contended, supply

LEMMA GivesBackItem ==
    ASSUME TInv, SInv, NEW r \in Req, RestoreSave(r)
    PROVE  Room!GiveBack(r)
<1> DEFINE supply == [p \in Product |-> initStock[p] + Quantity(restored, p)]
<1>1. /\ pc[r] = "restoreSave" /\ stock' = [stock EXCEPT ![P(r)] = read[r] + Q(r)]
      /\ restored' = [restored EXCEPT ![r] = @ + 1]
      /\ UNCHANGED <<initStock, reserved, order, raced>>
  BY DEF RestoreSave, SaveStock, Increased, setup
<1>2. Placed' = Placed /\ Contended' = Contended
  BY <1>1 DEF Placed, Contended
<1>3. /\ item[r] = restored[r] + 1 /\ item[r] \in DOMAIN ItemsOf[r] /\ item[r] \in Nat
      /\ P(r) \in Product /\ Q(r) \in Nat /\ read[r] \in Nat
      /\ restored \in [Req -> Nat]
  <2>1. P(r) \in Product /\ Q(r) \in Nat
    BY AtItem DEF TInv
  <2>2. restored \in [Req -> Nat] /\ item \in [Req -> Nat] /\ item[r] \in DOMAIN ItemsOf[r]
    BY DEF TInv, Shapes, TypeOK
  <2>3. read[r] \in Nat /\ restored[r] = item[r] - 1
    BY <1>1 DEF TInv, Places, Place
  <2> QED
    BY <2>1, <2>2, <2>3
<1>4. /\ read[r] <= Supply(P(r)) /\ Supply(P(r)) \in Nat
      /\ P(r) \notin raced => read[r] = stock[P(r)]
  BY <1>1, <1>3, SupplyNat DEF SInv, StockIsFresh, WithinSupply, AboutToSave
<1>5. supply[P(r)] = Supply(P(r))
  BY <1>3 DEF Supply
<1>6. read[r] + Q(r) \in IF P(r) \in Contended THEN Q(r) .. supply[P(r)] + Q(r)
                                               ELSE {stock[P(r)] + Q(r)}
  BY <1>3, <1>4, <1>5 DEF Contended
<1>7. ItemsOf[r][restored[r] + 1].p = P(r) /\ ItemsOf[r][restored[r] + 1].q = Q(r)
  BY <1>3 DEF P, Q
<1>8. supply' = [supply EXCEPT ![P(r)] = @ + Q(r)]
  <2>1. PICK i \in Nat : i = restored[r] + 1
    BY <1>3
  <2>2. PICK n \in Nat : n = Q(r)
    BY <1>3
  <2>3. PICK d \in Product : d = P(r)
    BY <1>3
  <2>4. /\ ItemsOf[r][i].q = n /\ ItemsOf[r][i].p = d
        /\ \A s \in Req : restored'[s] = IF s = r THEN i ELSE restored[s]
    BY <1>1, <1>3, <1>7, <2>1, <2>2, <2>3
  <2>5. ASSUME NEW p \in Product
        PROVE  /\ Quantity(restored', p) = Quantity(restored, p) + (IF d = p THEN n ELSE 0)
               /\ Quantity(restored, p) \in Nat /\ initStock[p] \in Nat
    <3>1. IsFiniteSet(Pieces(ItemsUpTo(restored, p)))
      BY DEF SInv, FiniteStock
    <3>2. Quantity(restored, p) \in Nat /\ initStock[p] \in Nat
      BY <3>1, FS_CardinalityType DEF Quantity, SInv
    <3>3. Quantity(restored', p) =
             Quantity(restored, p) + (IF ItemsOf[r][i].p = p THEN n ELSE 0)
      BY <1>3, <2>1, <2>4, <3>1, QuantityGrows
    <3> QED
      BY <2>4, <3>2, <3>3
  <2>6. \A p \in Product : initStock[p] + Quantity(restored', p)
           = IF p = d THEN initStock[p] + Quantity(restored, p) + n
                      ELSE initStock[p] + Quantity(restored, p)
    BY <2>5
  <2>7. supply' = [p \in Product |-> initStock[p] + Quantity(restored', p)]
    BY <1>1 DEF Quantity, Pieces, ItemsUpTo
  <2>8. [p \in Product |-> initStock[p] + Quantity(restored', p)]
           = [supply EXCEPT ![d] = @ + n]
    BY <2>6
  <2> QED
    BY <2>2, <2>3, <2>7, <2>8
<1> HIDE DEF supply
<1>9. \E s \in IF P(r) \in Contended THEN Q(r) .. supply[P(r)] + Q(r)
                                     ELSE {stock[P(r)] + Q(r)} :
         stock' = [stock EXCEPT ![P(r)] = s]
  BY <1>1, <1>6
<1> HIDE DEF P, Q
<1>10. restored' = [restored EXCEPT ![r] = restored[r] + 1]
  BY <1>1
<1> QED
  BY <1>1, <1>2, <1>3, <1>7, <1>8, <1>9, <1>10
     DEF Room!GiveBack, Placed, Contended, supply

LEMMA PlacesOrder ==
    ASSUME TInv, Orders, NEW r \in Req, pc[r] = "saveOrder", SaveOrder(r) \/ ReplyLost(r)
    PROVE  Room!Place(r)
<1> DEFINE supply == [p \in Product |-> initStock[p] + Quantity(restored, p)]
<1>1. /\ pc[r] = "saveOrder" /\ order' = [order EXCEPT ![r] = "PENDING"]
      /\ UNCHANGED <<stock, initStock, reserved, restored, raced>>
  BY DEF SaveOrder, ReplyLost, InsertOrder, setup
<1>2. supply' = supply /\ Contended' = Contended
  BY <1>1 DEF Contended
<1>3. reserved[r] = Len(ItemsOf[r]) /\ restored[r] = 0 /\ order[r] = "none"
  BY <1>1
     DEF TInv, Places, Place, Orders, OrderFollows, Ordering, CreateCalls
<1>4. Placed' = Placed \cup {r}
  BY <1>1 DEF TInv, TypeOK, Placed
<1>5. r \notin Placed
  BY <1>3 DEF Placed
<1> HIDE DEF supply
<1> QED
  BY <1>1, <1>2, <1>3, <1>4, <1>5 DEF Room!Place, Placed, Contended, supply

\* Paying changes the status of a row that is there.
LEMMA PayKeepsPlaced ==
    ASSUME TInv, NEW r \in Req, Pay(r)
    PROVE  UNCHANGED Room!vars
<1>1. Placed' = Placed
  BY DEF Pay, TInv, TypeOK, Placed
<1>2. UNCHANGED <<stock, initStock, reserved, restored, raced>>
  BY DEF Pay, setup
<1>3. Contended' = Contended /\ [p \in Product |-> initStock[p] + Quantity(restored, p)]'
                                   = [p \in Product |-> initStock[p] + Quantity(restored, p)]
  BY <1>2 DEF Contended
<1> QED
  BY <1>1, <1>2, <1>3 DEF Room!vars, Placed, Contended

LEMMA RoomStep ==
    ASSUME IInv, SInv, [Next]_vars
    PROVE  [Room!Next]_(Room!vars)
<1> USE DEF setup
<1>a. TInv /\ Orders
  BY DEF IInv, TInv
<1>1. ASSUME NEW r \in Req, FindProduct(r) \/ RestoreFind(r)
      PROVE  [Room!Next]_(Room!vars)
  <2>1. UNCHANGED <<stock, initStock, reserved, restored, order>>
    BY <1>1 DEF FindProduct, RestoreFind
  <2>2. raced' = raced \/ raced' = raced \cup {P(r)}
    BY <1>1 DEF FindProduct, RestoreFind, NoteRace
  <2> QED
    BY <2>1, <2>2, RoomStays
<1>2. ASSUME NEW r \in Req, FindCoupon(r) PROVE [Room!Next]_(Room!vars)
  <2>1. UNCHANGED <<stock, initStock, reserved, restored, order>>
    BY <1>2 DEF FindCoupon
  <2>2. raced' = raced \/ raced' = raced \cup {CouponOf[r]}
    BY <1>2 DEF FindCoupon
  <2> QED
    BY <2>1, <2>2, RoomStays
<1>3. ASSUME NEW r \in Req, SaveProduct(r) PROVE Room!Next
  BY <1>a, <1>3, TakesItem DEF Room!Next
<1>4. ASSUME NEW r \in Req, RestoreSave(r) PROVE Room!Next
  BY <1>a, <1>4, GivesBackItem DEF Room!Next
<1>5. ASSUME NEW r \in Req, SaveOrder(r) PROVE Room!Next
  BY <1>a, <1>5, PlacesOrder DEF Room!Next, SaveOrder
<1>6. ASSUME NEW r \in Req, Pay(r) PROVE UNCHANGED Room!vars
  BY <1>a, <1>6, PayKeepsPlaced
<1>7. CASE UNCHANGED <<stock, initStock, reserved, restored, order, raced>>
  BY <1>7, RoomStays
<1>8. ASSUME NEW r \in Req, Execute(r) \/ FindUser(r) \/ SaveCoupon(r) \/ ValidateOrder(r)
             \/ ReadRank(r) \/ WriteRank(r) \/ SkipRank(r)
      PROVE  UNCHANGED <<stock, initStock, reserved, restored, order, raced>>
  BY <1>8 DEF Execute, FindUser, SaveCoupon, ValidateOrder, ReadRank, WriteRank, SkipRank
<1>9. ASSUME NEW r \in Req, TimerFires(r) \/ RestoreCoupon(r) \/ RevertCoupon(r)
             \/ ReadUnrank(r) \/ WriteUnrank(r) \/ SkipUnrank(r) \/ CallFails(r)
      PROVE  UNCHANGED <<stock, initStock, reserved, restored, order, raced>>
  BY <1>9
     DEF TimerFires, RestoreCoupon, RevertCoupon, ReadUnrank, WriteUnrank, SkipUnrank,
         CallFails
<1>10. CASE Crash \/ UNCHANGED vars
  BY <1>7, <1>10 DEF Crash, vars
<1>11. ASSUME NEW r \in Req, ReplyLost(r) PROVE [Room!Next]_(Room!vars)
  <2>1. CASE pc[r] = "saveOrder"
    BY <1>a, <1>11, <2>1, PlacesOrder DEF Room!Next
  <2>2. CASE pc[r] = "saveCoupon"
    BY <1>7, <1>11, <2>2 DEF ReplyLost
  <2> QED
    BY <1>11, <2>1, <2>2 DEF ReplyLost
<1> QED
  BY <1>1, <1>2, <1>3, <1>4, <1>5, <1>6, <1>7, <1>8, <1>9, <1>10, <1>11
     DEF Next, CreateStep, HandlerStep

\* Every behaviour of requests, handlers, payments and crashes is one of the
\* stock room.
THEOREM SagaImplementsStockRoom == Spec => ImplementsStockRoom
<1>1. IInv /\ SInv /\ [Next]_vars => [Room!Next]_(Room!vars)
  BY RoomStep
<1> QED
  BY <1>1, RoomInit, StockInvariant, PTL DEF Spec, Room!Spec, ImplementsStockRoom

----------------------------------------------------------------------------
(* The ranking.  updateProductRanking counts the items of an order one by  *)
(* one; a score, and a score that is about to be written back, never       *)
(* exceeds what the loops have come to.                                    *)

\* The items of a request that its loop has counted or passed over.
CountedBy(r) ==
    IF order[r] = "none" THEN 0
    ELSE IF pc[r] \in RankCalls THEN item[r] - 1 ELSE Len(ItemsOf[r])

Counted == [r \in Req |-> CountedBy(r)]

RankInv ==
    /\ \A r \in Req : pc[r] \in RankCalls => order[r] # "none"
    /\ \A p \in Product : score[p] <= Quantity(Counted, p)
    /\ \A r \in Req : pc[r] \in {"writeRank", "writeUnrank"} =>
                         read[r] <= Quantity(Counted, P(r))

\* What was counted was ordered, and what was ordered was reserved: there are
\* finitely many pieces of each product.
FiniteCount ==
    /\ Counted \in [Req -> Nat]
    /\ \A p \in Product : /\ IsFiniteSet(Pieces(ItemsUpTo(Counted, p)))
                          /\ Quantity(Counted, p) \in Nat
                          /\ Quantity(Ordered, p) \in Nat
                          /\ Quantity(Counted, p) <= Quantity(Ordered, p)

LEMMA CountedFinite == IInv /\ SInv => FiniteCount
<1> SUFFICES ASSUME IInv, SInv PROVE FiniteCount
  OBVIOUS
<1>1. \A r \in Req : /\ item[r] \in 1 .. Len(ItemsOf[r]) /\ Len(ItemsOf[r]) \in Nat
                     /\ reserved[r] \in Nat
                     /\ order[r] # "none" => reserved[r] = Len(ItemsOf[r])
  BY AtItem, Items DEF IInv, Shapes, Orders, OrderFollows, Backed
<1>2. /\ Counted \in [Req -> Nat] /\ Ordered \in [Req -> Nat] /\ reserved \in [Req -> Nat]
      /\ \A r \in Req : Counted[r] <= Ordered[r] /\ Ordered[r] <= reserved[r]
  BY <1>1 DEF Counted, CountedBy, Ordered, IInv, Shapes
<1>3. Nat \subseteq Int
  OBVIOUS
<1>4. /\ Counted \in [Req -> Int] /\ Ordered \in [Req -> Int] /\ reserved \in [Req -> Int]
  BY <1>2, <1>3
<1>5. ASSUME NEW p \in Product
      PROVE  /\ IsFiniteSet(Pieces(ItemsUpTo(Counted, p)))
             /\ Quantity(Counted, p) \in Nat /\ Quantity(Ordered, p) \in Nat
             /\ Quantity(Counted, p) <= Quantity(Ordered, p)
  <2>1. IsFiniteSet(Pieces(ItemsUpTo(reserved, p)))
    BY DEF SInv, FiniteStock
  <2>2. IsFiniteSet(Pieces(ItemsUpTo(Ordered, p)))
    BY <1>2, <1>4, <2>1, QuantityMonotone
  <2> QED
    BY <1>2, <1>4, <2>2, QuantityMonotone
<1> QED
  BY <1>2, <1>5 DEF FiniteCount

LEMMA InitRank == Init => RankInv
<1> SUFFICES ASSUME Init PROVE RankInv
  OBVIOUS
<1>1. \A r \in Req : Counted[r] = 0
  BY DEF Init, Counted, CountedBy
<1>2. \A p \in Product : Quantity(Counted, p) = 0
  BY <1>1, NoPieces
<1> QED
  BY <1>2 DEF Init, RankInv, RankCalls, Absent

\* What the loops have come to never gets less.
LEMMA CountedGrows ==
    ASSUME IInv, SInv, IInv', SInv', \A q \in Req : CountedBy(q) <= CountedBy(q)'
    PROVE  \A p \in Product : /\ Quantity(Counted, p) \in Nat /\ Quantity(Counted', p) \in Nat
                              /\ Quantity(Counted, p) <= Quantity(Counted', p)
<1>1. /\ Counted \in [Req -> Nat] /\ Counted' \in [Req -> Nat]
      /\ \A p \in Product : /\ Quantity(Counted, p) \in Nat
                            /\ IsFiniteSet(Pieces(ItemsUpTo(Counted', p)))
  <2>1. FiniteCount /\ FiniteCount'
    BY CountedFinite, PTL
  <2> QED
    BY <2>1 DEF FiniteCount
<1>2. \A q \in Req : Counted[q] <= Counted'[q]
  BY DEF Counted
<1>3. Nat \subseteq Int
  OBVIOUS
<1>4. Counted \in [Req -> Int] /\ Counted' \in [Req -> Int]
  BY <1>1, <1>3
<1> QED
  BY <1>1, <1>2, <1>4, QuantityMonotone

\* A step of the loop or of another request that writes no score.
LEMMA RankStays ==
    ASSUME IInv, SInv, IInv', SInv', RankInv, score' = score,
           \A q \in Req : /\ CountedBy(q) <= CountedBy(q)'
                          /\ pc'[q] \in RankCalls => order'[q] # "none"
                          /\ pc'[q] \in {"writeRank", "writeUnrank"} =>
                                /\ item'[q] = item[q]
                                /\ \/ pc'[q] = pc[q] /\ read'[q] = read[q]
                                   \/ read'[q] = score[P(q)]
    PROVE  RankInv'
<1>1. \A p \in Product : /\ Quantity(Counted, p) \in Nat /\ Quantity(Counted', p) \in Nat
                         /\ Quantity(Counted, p) <= Quantity(Counted', p)
  BY CountedGrows
<1>2. \A p \in Product : score[p] \in Nat \cup {Absent}
  BY DEF IInv, TypeOK
<1>3. \A p \in Product : score'[p] <= Quantity(Counted', p)
  BY <1>1, <1>2 DEF RankInv, Absent
<1>4. ASSUME NEW q \in Req, pc'[q] \in {"writeRank", "writeUnrank"}
      PROVE  read'[q] <= Quantity(Counted', P(q)')
  <2>1. P(q)' = P(q) /\ P(q) \in Product /\ read[q] \in Nat \cup {Absent}
    BY <1>4, AtItem DEF P, IInv, Shapes
  <2>2. read'[q] <= Quantity(Counted, P(q)) /\ read'[q] \in Nat \cup {Absent}
    BY <1>2, <1>4, <2>1 DEF RankInv
  <2> QED
    BY <1>1, <2>1, <2>2 DEF Absent
<1> QED
  BY <1>3, <1>4 DEF RankInv

\* A score is written by a request that is not about to write one any more.
LEMMA RankWritten ==
    ASSUME IInv, SInv, IInv', SInv', RankInv, NEW r \in Req, NEW v \in Nat,
           score' = [score EXCEPT ![P(r)] = v], v <= Quantity(Counted', P(r)),
           order' = order, pc'[r] \notin {"writeRank", "writeUnrank"},
           pc'[r] \in RankCalls => order[r] # "none",
           \A q \in Req : CountedBy(q) <= CountedBy(q)',
           \A q \in Req \ {r} : pc'[q] = pc[q] /\ read'[q] = read[q] /\ item'[q] = item[q]
    PROVE  RankInv'
<1>1. \A p \in Product : /\ Quantity(Counted, p) \in Nat /\ Quantity(Counted', p) \in Nat
                         /\ Quantity(Counted, p) <= Quantity(Counted', p)
  BY CountedGrows
<1>2. score \in [Product -> Nat \cup {Absent}] /\ P(r) \in Product
  BY AtItem DEF IInv, TypeOK
<1>3. ASSUME NEW p \in Product PROVE score'[p] <= Quantity(Counted', p)
  <2>1. CASE p = P(r)
    BY <1>2, <2>1
  <2>2. CASE p # P(r)
    <3>1. score'[p] = score[p] /\ score[p] <= Quantity(Counted, p)
      BY <1>2, <2>2 DEF RankInv
    <3> QED
      BY <1>1, <1>2, <3>1 DEF Absent
  <2> QED
    BY <2>1, <2>2
<1>4. ASSUME NEW q \in Req, pc'[q] \in {"writeRank", "writeUnrank"}
      PROVE  read'[q] <= Quantity(Counted', P(q)')
  <2>1. q # r /\ pc'[q] = pc[q] /\ read'[q] = read[q] /\ P(q)' = P(q)
    BY <1>4 DEF P
  <2>2. P(q) \in Product /\ read[q] \in Nat \cup {Absent}
    BY AtItem DEF IInv, Shapes
  <2>3. read[q] <= Quantity(Counted, P(q))
    BY <1>4, <2>1 DEF RankInv
  <2> QED
    BY <1>1, <2>1, <2>2, <2>3 DEF Absent
<1>5. \A q \in Req : pc'[q] \in RankCalls => order'[q] # "none"
  BY DEF RankInv
<1> QED
  BY <1>3, <1>4, <1>5 DEF RankInv

\* A request that loses no order and moves on in its loop, if at all.
LEMMA CountMoves ==
    ASSUME IInv, IInv', NEW q \in Req, order[q] # "none" =>
              /\ order'[q] # "none"
              /\ pc'[q] \in RankCalls => pc[q] \in RankCalls /\ item[q] <= item'[q]
    PROVE  CountedBy(q) <= CountedBy(q)'
<1>1. Len(ItemsOf[q]) \in Nat /\ item[q] \in 1 .. Len(ItemsOf[q])
  BY AtItem, Items DEF IInv
<1>2. item'[q] \in 1 .. Len(ItemsOf[q])
  BY Items DEF IInv, TypeOK
<1> QED
  BY <1>1, <1>2 DEF CountedBy

LEMMA NextRank == IInv /\ SInv /\ IInv' /\ SInv' /\ RankInv /\ [Next]_vars => RankInv'
<1> SUFFICES ASSUME IInv, SInv, IInv', SInv', RankInv, [Next]_vars PROVE RankInv'
  OBVIOUS
<1>a. /\ pc \in [Req -> PCs] /\ item \in [Req -> Nat] /\ read \in [Req -> Nat \cup {Absent}]
      /\ order \in [Req -> {"none", "PENDING", "PAID"}]
  BY DEF IInv, TypeOK, Shapes
<1>b. \A r \in Req : pc[r] \in RankCalls => order[r] # "none"
  BY DEF RankInv
<1>c. \A r \in Req : pc[r] = "saveOrder" => order[r] = "none"
  BY DEF IInv, Orders, OrderFollows, Ordering, CreateCalls
<1> USE <1>a, <1>b
    DEF Goto, NextItem, Done, Read, setup, PublishOrderFailed, AfterRanking, RankCalls
\* Who is not at the ranking neither gets there nor counts.
<1>1. ASSUME score' = score, order' = order,
             \A q \in Req : \/ pc'[q] \notin RankCalls \cup {"writeUnrank"}
                            \/ pc'[q] = pc[q] /\ item'[q] = item[q] /\ read'[q] = read[q]
      PROVE  RankInv'
  <2>1. ASSUME NEW q \in Req PROVE CountedBy(q) <= CountedBy(q)'
    BY <1>1, CountMoves
  <2> QED
    BY <1>1, <2>1, RankStays
<1>2. ASSUME NEW r \in Req, Execute(r) \/ FindUser(r) \/ SaveCoupon(r) \/ ValidateOrder(r)
             \/ FindCoupon(r) \/ FindProduct(r) \/ SaveProduct(r)
      PROVE  RankInv'
  BY <1>1, <1>2 DEF Execute, FindUser, SaveCoupon, ValidateOrder, FindCoupon, FindProduct,
                    SaveProduct
<1>3. ASSUME NEW r \in Req, TimerFires(r) \/ RestoreFind(r) \/ RestoreSave(r)
             \/ RestoreCoupon(r) \/ RevertCoupon(r) \/ SkipUnrank(r)
      PROVE  RankInv'
  BY <1>1, <1>3 DEF TimerFires, RestoreFind, RestoreSave, RestoreCoupon, RevertCoupon,
                    SkipUnrank, UnrankCalls
<1>4. ASSUME NEW r \in Req, CallFails(r) PROVE RankInv'
  BY <1>1, <1>4 DEF CallFails, CreateCalls
<1>5. CASE Crash
  BY <1>1, <1>5 DEF Crash, Ends
<1>6. CASE UNCHANGED vars
  BY <1>1, <1>6 DEF vars
<1>7. ASSUME NEW r \in Req, SaveOrder(r) PROVE RankInv'
  <2>1. /\ order[r] = "none" /\ order' = [order EXCEPT ![r] = "PENDING"]
        /\ pc' = [pc EXCEPT ![r] = "readRank"] /\ UNCHANGED <<item, read, score>>
    BY <1>7, <1>c DEF SaveOrder, InsertOrder
  <2>2. ASSUME NEW q \in Req PROVE CountedBy(q) <= CountedBy(q)'
    BY <2>1, CountMoves
  <2> QED
    BY <2>1, <2>2, RankStays
<1>8. ASSUME NEW r \in Req, Pay(r) PROVE RankInv'
  <2>1. order' = [order EXCEPT ![r] = "PAID"] /\ UNCHANGED <<pc, item, read, score>>
    BY <1>8 DEF Pay
  <2>2. ASSUME NEW q \in Req PROVE CountedBy(q) <= CountedBy(q)'
    BY <2>1, CountMoves
  <2> QED
    BY <2>1, <2>2, RankStays
<1>9. ASSUME NEW r \in Req, ReadRank(r) PROVE RankInv'
  <2>1. /\ pc[r] = "readRank" /\ pc' = [pc EXCEPT ![r] = "writeRank"]
        /\ read' = [read EXCEPT ![r] = score[P(r)]] /\ UNCHANGED <<order, item, score>>
    BY <1>9 DEF ReadRank
  <2>2. ASSUME NEW q \in Req PROVE CountedBy(q) <= CountedBy(q)'
    BY <2>1, CountMoves
  <2> QED
    BY <2>1, <2>2, RankStays
<1>10. ASSUME NEW r \in Req, ReadUnrank(r) PROVE RankInv'
  <2>1. CASE pc'[r] = "writeUnrank"
    <3>1. /\ pc[r] = "readUnrank" /\ pc' = [pc EXCEPT ![r] = "writeUnrank"]
          /\ read' = [read EXCEPT ![r] = score[P(r)]] /\ UNCHANGED <<order, item, score>>
      BY <1>10, <2>1 DEF ReadUnrank
    <3>2. ASSUME NEW q \in Req PROVE CountedBy(q) <= CountedBy(q)'
      BY <3>1, CountMoves
    <3> QED
      BY <3>1, <3>2, RankStays
  <2>2. CASE pc'[r] # "writeUnrank"
    BY <1>1, <1>10, <2>2 DEF ReadUnrank
  <2> QED
    BY <2>1, <2>2
\* The loop goes on to the next item.
<1>11. ASSUME NEW r \in Req, pc[r] \in RankCalls, NextItem(r, "readRank", AfterRanking),
              order' = order
       PROVE  /\ \A q \in Req : CountedBy(q) <= CountedBy(q)'
              /\ CountedBy(r) = item[r] - 1 /\ CountedBy(r)' = item[r]
              /\ pc'[r] \notin {"writeRank", "writeUnrank"}
              /\ \A q \in Req \ {r} : pc'[q] = pc[q] /\ item'[q] = item[q]
  <2>1. item[r] \in 1 .. Len(ItemsOf[r]) /\ Len(ItemsOf[r]) \in Nat
    BY AtItem, Items DEF IInv
  <2>2. \/ LastItem(r) /\ pc'[r] \in {"armed", "created"} /\ item'[r] = 1
        \/ ~LastItem(r) /\ pc'[r] = "readRank" /\ item'[r] = item[r] + 1
    BY <1>11
  <2>3. \A q \in Req \ {r} : pc'[q] = pc[q] /\ item'[q] = item[q]
    BY <1>11
  <2>4. CountedBy(r) = item[r] - 1 /\ CountedBy(r)' = item[r]
    BY <1>11, <2>1, <2>2 DEF CountedBy, LastItem
  <2>5. ASSUME NEW q \in Req PROVE CountedBy(q) <= CountedBy(q)'
    <3>1. CASE q = r
      BY <2>1, <2>4, <3>1
    <3>2. CASE q # r
      BY <1>11, <2>3, <3>2, CountMoves
    <3> QED
      BY <3>1, <3>2
  <2> QED
    BY <2>2, <2>3, <2>4, <2>5
<1>12. ASSUME NEW r \in Req, SkipRank(r) PROVE RankInv'
  <2>1. /\ pc[r] \in RankCalls /\ NextItem(r, "readRank", AfterRanking)
        /\ read' = [read EXCEPT ![r] = 0] /\ UNCHANGED <<order, score>>
    BY <1>12 DEF SkipRank
  <2> HIDE DEF NextItem
  <2>2. /\ \A q \in Req : CountedBy(q) <= CountedBy(q)'
        /\ pc'[r] \notin {"writeRank", "writeUnrank"}
        /\ \A q \in Req \ {r} : pc'[q] = pc[q] /\ item'[q] = item[q]
    BY <1>11, <2>1
  <2> QED
    BY <2>1, <2>2, RankStays
<1>13. ASSUME NEW r \in Req, WriteRank(r) PROVE RankInv'
  <2> DEFINE d == P(r)
             n == Q(r)
             v == (IF read[r] = Absent THEN 0 ELSE read[r]) + n
  <2>1. /\ pc[r] = "writeRank" /\ NextItem(r, "readRank", AfterRanking)
        /\ read' = [read EXCEPT ![r] = 0] /\ order' = order
        /\ score' = [score EXCEPT ![d] = v]
    BY <1>13 DEF WriteRank
  <2> HIDE DEF NextItem
  <2>2. /\ \A q \in Req : CountedBy(q) <= CountedBy(q)'
        /\ CountedBy(r) = item[r] - 1 /\ CountedBy(r)' = item[r]
        /\ pc'[r] \notin {"writeRank", "writeUnrank"}
        /\ \A q \in Req \ {r} : pc'[q] = pc[q] /\ item'[q] = item[q]
    BY <1>11, <2>1
  <2>3. d \in Product /\ n \in Nat /\ read[r] \in Nat \cup {Absent}
        /\ item[r] \in 1 .. Len(ItemsOf[r])
    BY AtItem DEF IInv
  <2>4. read[r] <= Quantity(Counted, d)
    BY <2>1 DEF RankInv
  <2>5. FiniteCount
    BY CountedFinite
  <2>6. Quantity(Counted', d) = Quantity(Counted, d) + n
    <3> DEFINE i == item[r]
    <3>1. i \in Nat /\ i = Counted[r] + 1 /\ ItemsOf[r][i].q = n /\ ItemsOf[r][i].p = d
      BY <2>2, <2>3 DEF Counted, P, Q
    <3>2. \A q \in Req \ {r} : CountedBy(q)' = CountedBy(q)
      BY <2>1, <2>2 DEF CountedBy
    <3>3. \A q \in Req : Counted'[q] = IF q = r THEN i ELSE Counted[q]
      BY <2>2, <3>2 DEF Counted
    <3>4. Counted \in [Req -> Nat] /\ IsFiniteSet(Pieces(ItemsUpTo(Counted, d)))
      BY <2>3, <2>5 DEF FiniteCount
    <3>5. n \in Nat /\ r \in Req
      BY <2>3
    <3> HIDE DEF i, d, n
    <3>6. Quantity(Counted', d) =
             Quantity(Counted, d) + (IF ItemsOf[r][i].p = d THEN n ELSE 0)
      BY <3>1, <3>3, <3>4, <3>5, QuantityGrows
    <3> QED
      BY <3>1, <3>6
  <2>7. Quantity(Counted, d) \in Nat
    BY <2>3, <2>5 DEF FiniteCount
  <2>8. v \in Nat /\ v <= Quantity(Counted', d)
    <3> HIDE DEF d, n
    <3> QED
      BY <2>3, <2>4, <2>6, <2>7 DEF Absent, v
  <2> HIDE DEF n, v
  <2> QED
    BY <2>1, <2>2, <2>8, RankWritten
<1>14. ASSUME NEW r \in Req, WriteUnrank(r) PROVE RankInv'
  <2> DEFINE v == Reduced(read[r], Q(r))
  <2>1. /\ pc[r] = "writeUnrank" /\ order' = order
        /\ pc'[r] \notin RankCalls \cup {"writeUnrank"}
        /\ read' = [read EXCEPT ![r] = 0] /\ score' = [score EXCEPT ![P(r)] = v]
        /\ \A q \in Req \ {r} : pc'[q] = pc[q] /\ item'[q] = item[q]
    BY <1>14 DEF WriteUnrank
  <2>2. ASSUME NEW q \in Req PROVE CountedBy(q) <= CountedBy(q)'
    BY <2>1, CountMoves
  <2>3. /\ P(r) \in Product /\ Q(r) \in Nat /\ read[r] \in Nat
        /\ read[r] <= Quantity(Counted, P(r))
    BY <2>1, AtItem DEF IInv, Places, Place, RankInv
  <2>4. v \in Nat /\ v <= read[r]
    BY <2>3 DEF Reduced
  <2>5. /\ Quantity(Counted, P(r)) \in Nat /\ Quantity(Counted', P(r)) \in Nat
        /\ Quantity(Counted, P(r)) <= Quantity(Counted', P(r))
    BY <2>2, <2>3, CountedGrows
  <2> HIDE DEF v
  <2>6. v <= Quantity(Counted', P(r))
    BY <2>3, <2>4, <2>5
  <2> QED
    BY <2>1, <2>2, <2>4, <2>6, RankWritten
<1>15. ASSUME NEW r \in Req, ReplyLost(r) PROVE RankInv'
  <2>1. CASE pc[r] = "saveCoupon"
    BY <1>1, <1>15, <2>1 DEF ReplyLost
  <2>2. CASE pc[r] = "saveOrder"
    <3>1. /\ order[r] = "none" /\ order' = [order EXCEPT ![r] = "PENDING"]
          /\ pc' = [pc EXCEPT ![r] = pc'[r]]
          /\ pc'[r] \notin RankCalls \cup {"writeUnrank"}
          /\ item' = [item EXCEPT ![r] = 1] /\ UNCHANGED <<read, score>>
      BY <1>15, <1>c, <2>2 DEF ReplyLost, InsertOrder
    <3>2. ASSUME NEW q \in Req PROVE CountedBy(q) <= CountedBy(q)'
      BY <3>1, CountMoves
    <3> QED
      BY <3>1, <3>2, RankStays
  <2> QED
    BY <1>15, <2>1, <2>2 DEF ReplyLost
<1> QED
  BY <1>2, <1>3, <1>4, <1>5, <1>6, <1>7, <1>8, <1>9, <1>10, <1>12, <1>13, <1>14, <1>15
     DEF Next, CreateStep, HandlerStep

\* The ranking never counts more of a product than was ordered, although scores
\* are written back from reads that others have overtaken, and errors, crashes
\* and compensations come between.
THEOREM RankingNeverOver == Spec => []RankingNeverOvercounts
<1>1. Init => IInv /\ SInv /\ RankInv
  BY InitInv, InitStock, InitRank
<1>2. IInv /\ SInv /\ RankInv /\ [Next]_vars => (IInv /\ SInv /\ RankInv)'
  <2>1. IInv /\ SInv /\ [Next]_vars => (IInv /\ SInv)'
    BY NextTypes, NextOrders, NextCoupons, NextStock DEF IInv, TInv
  <2> QED
    BY <2>1, NextRank
<1>3. IInv /\ SInv /\ RankInv => RankingNeverOvercounts
  <2> SUFFICES ASSUME IInv, SInv, RankInv, NEW p \in Product
               PROVE  score[p] <= Quantity(Ordered, p)
    BY DEF RankingNeverOvercounts
  <2>1. /\ score[p] \in Nat \cup {Absent} /\ score[p] <= Quantity(Counted, p)
        /\ Quantity(Counted, p) \in Nat /\ Quantity(Ordered, p) \in Nat
        /\ Quantity(Counted, p) <= Quantity(Ordered, p)
    BY CountedFinite DEF IInv, TypeOK, RankInv, FiniteCount
  <2> QED
    BY <2>1 DEF Absent
<1> QED
  BY <1>1, <1>2, <1>3, PTL DEF Spec

----------------------------------------------------------------------------
(* The bus as AppModule wires it.  The run order_unwired shows an order that *)
(* is not released; here it is shown that none ever is.                      *)

\* No timer is armed, no handler has run or runs, nothing was given back.
NothingReleased ==
    \A r \in Req : /\ pc[r] \notin {"armed", "compensated"} \cup RestoreCalls \cup UnrankCalls
                   /\ restored[r] = 0

Unwired == wiring = "AppModule" => NothingReleased

LEMMA NobodyListens ==
    ASSUME wiring = "AppModule"
    PROVE  \A event : ~Handled(event)
  BY DEF Handled, Subscribed

LEMMA UnwiredStep ==
    ASSUME TInv, Unwired, [Next]_vars, wiring = "AppModule"
    PROVE  wiring' = wiring /\ NothingReleased' /\ used \subseteq used'
<1> USE NobodyListens
    DEF Unwired, NothingReleased, TInv, TypeOK, Goto, NextItem, PublishOrderFailed,
        AfterRanking, setup, RestoreCalls, UnrankCalls, RankCalls, CreateCalls
<1>1. ASSUME NEW r \in Req, FindProduct(r) \/ SaveProduct(r) \/ FindUser(r)
      PROVE  wiring' = wiring /\ NothingReleased' /\ used \subseteq used'
  BY <1>1 DEF FindProduct, SaveProduct, FindUser
<1>2. ASSUME NEW r \in Req,
             \/ FindCoupon(r) \/ SaveCoupon(r) \/ ValidateOrder(r) \/ SaveOrder(r)
      PROVE  wiring' = wiring /\ NothingReleased' /\ used \subseteq used'
  BY <1>2 DEF FindCoupon, SaveCoupon, ValidateOrder, SaveOrder
<1>3. ASSUME NEW r \in Req,
             \/ ReadRank(r) \/ WriteRank(r) \/ SkipRank(r) \/ Execute(r) \/ CallFails(r)
             \/ ReplyLost(r) \/ Pay(r)
      PROVE  wiring' = wiring /\ NothingReleased' /\ used \subseteq used'
  BY <1>3 DEF ReadRank, WriteRank, SkipRank, Execute, CallFails, ReplyLost, Pay
<1>4. ASSUME NEW r \in Req, HandlerStep(r) \/ SkipUnrank(r)
      PROVE  FALSE
  BY <1>4
     DEF HandlerStep, TimerFires, RestoreFind, RestoreSave, RestoreCoupon, RevertCoupon,
         ReadUnrank, WriteUnrank, SkipUnrank
<1>5. CASE Crash \/ UNCHANGED vars
  BY <1>5 DEF Crash, vars
<1> QED
  BY <1>1, <1>2, <1>3, <1>4, <1>5 DEF Next, CreateStep

\* With the bus of AppModule no order, paid or not, whole or half-way, ever gives
\* back an item or a coupon, although the timer and both handlers are there.
THEOREM UnwiredNeverReleases ==
    Spec => /\ [](wiring = "AppModule" => NothingReleased)
            /\ [][wiring = "AppModule" => used \subseteq used']_vars
<1>1. Init => Unwired
  BY DEF Init, Unwired, NothingReleased, RestoreCalls, UnrankCalls
<1>2. ASSUME IInv, Unwired, [Next]_vars
      PROVE  Unwired' /\ (wiring = "AppModule" => used \subseteq used')
  <2>1. TInv
    BY <1>2 DEF IInv, TInv
  <2>2. CASE wiring = "AppModule"
    BY <1>2, <2>1, <2>2, UnwiredStep DEF Unwired
  <2>3. CASE wiring # "AppModule"
    <3>1. wiring' = wiring
      BY <1>2
         DEF Next, vars, setup, CreateStep, HandlerStep, FindProduct, SaveProduct, FindUser,
             FindCoupon, SaveCoupon, ValidateOrder, SaveOrder, ReadRank, WriteRank, SkipRank,
             Execute, CallFails, ReplyLost, Pay, TimerFires, RestoreFind, RestoreSave,
             RestoreCoupon, RevertCoupon, ReadUnrank, WriteUnrank, SkipUnrank, Crash
    <3> QED
      BY <2>3, <3>1 DEF Unwired
  <2> QED
    BY <2>2, <2>3
<1> QED
  BY <1>1, <1>2, Invariant, PTL DEF Spec, Unwired
============================================================================
