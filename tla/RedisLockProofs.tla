-------------------------- MODULE RedisLockProofs --------------------------
(***************************************************************************)
(* Theorems about RedisLock, for every set of requests, processes and      *)
(* callers of isLocked and every number of rounds and crashes.             *)
(***************************************************************************)
EXTENDS RedisLock, TLAPS

----------------------------------------------------------------------------
(* What the places of a request say, which TypeOK does not: rounds are left  *)
(* when the next one begins, only pessimistic requests poll the map, and a   *)
(* request that releases the lock knows its answer.                          *)

Places ==
    \A r \in Req :
        /\ pc[r] = "set" => tries[r] < RetryCount
        /\ pc[r] = "local" => Kind[r] = "pessimistic"
        /\ pc[r] = "del" => outcome[r] # "none"

\* As long as no key was lost, whoever counts on the lock has set the key.
KeyIsHolders == lostKey \/ \A r \in Req : pc[r] \in Held => lock = r

IInv == TypeOK /\ Places /\ KeyIsHolders /\ KeyHeldOnlyAtWork

----------------------------------------------------------------------------
LEMMA InitInv == Init => IInv
<1> SUFFICES ASSUME Init PROVE IInv
  OBVIOUS
<1>1. RetryCount \in Nat \ {0} /\ MaxRetries \in Nat
  BY RetryAssumption
<1>2. \A r \in Req : pc[r] = "set" /\ tries[r] = 0 /\ outcome[r] = "none"
  BY DEF Init
<1>3. \A r \in Req : Here(r) # r
  BY RequestAssumption, FreeAssumption DEF Init, Here
<1>4. TypeOK
  <2>1. tries \in [Req -> 0 .. RetryCount + MaxRetries]
    BY <1>1 DEF Init
  <2> QED
    BY <1>2, <1>3, <2>1 DEF Init, TypeOK, Held, Ends
<1> QED
  BY <1>1, <1>2, <1>4 DEF Init, IInv, Places, KeyIsHolders, KeyHeldOnlyAtWork, Held

LEMMA NextInv == IInv /\ [Next]_vars => IInv'
<1> SUFFICES ASSUME IInv, [Next]_vars PROVE IInv'
  OBVIOUS
<1> USE RetryAssumption, RequestAssumption, FreeAssumption
    DEF IInv, TypeOK, Places, KeyIsHolders, KeyHeldOnlyAtWork, Here, Held, Ends,
        Goto, NoteLoss
<1>1. ASSUME NEW r \in Req, SetNX(r) PROVE IInv'
  BY <1>1 DEF SetNX, Acquired, TryAgainOr, LastTry
<1>2. ASSUME NEW r \in Req, SetRejected(r) PROVE IInv'
  BY <1>2 DEF SetRejected, TryAgainOr, LastTry
<1>3. ASSUME NEW r \in Req, TakeLocal(r) PROVE IInv'
  BY <1>3 DEF TakeLocal
<1>4. ASSUME NEW r \in Req, LocalTimeout(r) PROVE IInv'
  BY <1>4 DEF LocalTimeout
<1>5. ASSUME NEW r \in Req, HandlerEnds(r) PROVE IInv'
  BY <1>5 DEF HandlerEnds
<1>6. ASSUME NEW r \in Req, HandlerRetries(r) PROVE IInv'
  BY <1>6 DEF HandlerRetries
<1>7. ASSUME NEW r \in Req, Release(r) PROVE IInv'
  <2>1. outcome[r] \in Ends
    BY <1>7 DEF Release
  <2>2. TypeOK' /\ Places'
    BY <1>7, <2>1 DEF Release, Answered
  <2>3. lostKey \/ \A q \in Req \ {r} : pc[q] \notin Held
    BY <1>7 DEF Release
  <2>4. KeyIsHolders'
    BY <1>7, <2>1, <2>3 DEF Release, Answered
  <2> QED
    BY <1>7, <2>2, <2>4 DEF Release
<1>8. ASSUME NEW r \in Req, ReleaseRejected(r) PROVE IInv'
  BY <1>8 DEF ReleaseRejected, Answered
<1>9. ASSUME NEW q \in Prober, Exists(q) PROVE IInv'
  BY <1>9 DEF Exists, Answer
<1>10. ASSUME NEW q \in Prober, Pttl(q) PROVE IInv'
  BY <1>10 DEF Pttl, Answer
<1>11. ASSUME NEW q \in Prober, DelExpired(q) PROVE IInv'
  <2>1. CASE lock' = Free /\ NoteLoss
    BY <1>11, <2>1 DEF DelExpired, Answer
  <2>2. CASE UNCHANGED <<lock, lostKey>>
    BY <1>11, <2>2 DEF DelExpired, Answer
  <2> QED
    BY <1>11, <2>1, <2>2 DEF DelExpired
<1>12. CASE Expire
  BY <1>12 DEF Expire
<1>13. ASSUME NEW i \in Instance, Crash(i) PROVE IInv'
  BY <1>13 DEF Crash
<1>14. CASE UNCHANGED vars
  BY <1>14 DEF vars
<1> QED
  BY <1>1, <1>2, <1>3, <1>4, <1>5, <1>6, <1>7, <1>8, <1>9, <1>10, <1>11, <1>12,
     <1>13, <1>14 DEF Next, RequestStep

\* The invariant and what it says of a single request.
LEMMA Invariant == Spec => []IInv
  BY InitInv, NextInv, PTL DEF Spec

\* Every reachable state is well typed: in particular a request is in the map
\* of its process exactly while it is in a pessimistic handler.
THEOREM TypeCorrect == Spec => []TypeOK
  BY Invariant, PTL DEF IInv

\* Two handlers run at the same time only after the key of a request at work
\* has expired or was deleted by isLocked.
THEOREM Exclusive == Spec => []ExclusiveUnlessExpired
<1>1. IInv => ExclusiveUnlessExpired
  BY DEF IInv, KeyIsHolders, ExclusiveUnlessExpired, Held
<1> QED
  BY <1>1, Invariant, PTL

\* Even then the handlers of pessimistic requests in one process are apart.
THEOREM ExclusiveInProcess == Spec => []LocalExclusion
<1>1. IInv => LocalExclusion
  BY DEF IInv, TypeOK, LocalExclusion, Here
<1> QED
  BY <1>1, Invariant, PTL

\* A key that is there belongs to a request at work, or to one whose process
\* died or whose SET or DEL was rejected.
THEOREM KeyNotLeftBehind == Spec => []KeyHeldOnlyAtWork
  BY Invariant, PTL DEF IInv

----------------------------------------------------------------------------
(* Refinement: who acts on the lock holds a lease.                         *)

LEMMA LeaseInit == Init => Lock!Init
  BY FreeAssumption DEF Init, Lock!Init, Keeper, Held

\* The lease is as before when neither the key nor who counts on it changes.
LEMMA LeaseUnchanged ==
    ASSUME lock' = lock, lostKey' = lostKey,
           \A r \in Req : pc'[r] \in Held <=> pc[r] \in Held
    PROVE  UNCHANGED Lock!vars
  BY DEF Lock!vars, Keeper

\* Those in S leave: the key stays, or goes with its owner among them.
LEMMA LeaseLeft ==
    ASSUME IInv, NEW S \in SUBSET Req, lostKey' = lostKey,
           \A r \in Req : pc'[r] \in Held <=> (pc[r] \in Held /\ r \notin S),
           lock' = lock \/ (lock' = Free /\ Keeper \in S \cup {Free})
    PROVE  Lock!Leave(S)
  BY FreeAssumption DEF Lock!Leave, Keeper, IInv, TypeOK

LEMMA LeaseStep ==
    ASSUME IInv, [Next]_vars
    PROVE  [Lock!Next]_(Lock!vars)
<1> USE RequestAssumption, FreeAssumption DEF Goto, Held, Ends
<1> DEFINE H == {r \in Req : pc[r] \in Held}
<1>1. pc \in [Req -> {"set"} \cup Held \cup Ends] /\ lock \in Req \cup {Free}
  BY DEF IInv, TypeOK
<1>2. ASSUME NEW S \in SUBSET Req, Lock!Leave(S) PROVE Lock!Next
  BY <1>2 DEF Lock!Next
<1>3. ASSUME NEW r \in Req, SetNX(r) PROVE [Lock!Next]_(Lock!vars)
  <2>1. CASE lock = Free /\ Acquired(r)
    <3>1. /\ pc[r] = "set" /\ lock' = r /\ lostKey' = lostKey
          /\ pc' = [pc EXCEPT ![r] = pc'[r]] /\ pc'[r] \in Held
      BY <1>1, <1>3, <2>1 DEF SetNX, Acquired
    <3>2. Lock!Acquire(r)
      BY <1>1, <2>1, <3>1 DEF Lock!Acquire, Keeper
    <3> QED
      BY <3>2 DEF Lock!Next
  <2>2. CASE TryAgainOr(r, "busy") /\ UNCHANGED lock
    <3>1. lostKey' = lostKey /\ \A q \in Req : pc'[q] \in Held <=> pc[q] \in Held
      BY <1>1, <1>3, <2>2 DEF SetNX, TryAgainOr
    <3> QED
      BY <2>2, <3>1, LeaseUnchanged
  <2> QED
    BY <1>3, <2>1, <2>2 DEF SetNX
<1>4. ASSUME NEW r \in Req, SetRejected(r) PROVE UNCHANGED Lock!vars
  <2>1. /\ lostKey' = lostKey /\ pc[r] = "set"
        /\ \A q \in Req : pc'[q] \in Held <=> pc[q] \in Held
        /\ lock' = lock \/ (lock = Free /\ lock' = r)
    BY <1>1, <1>4 DEF SetRejected, TryAgainOr
  <2> QED
    BY <2>1, LeaseUnchanged DEF Lock!vars, Keeper
<1>5. ASSUME NEW r \in Req, TakeLocal(r) \/ LocalTimeout(r) \/ HandlerEnds(r)
                              \/ HandlerRetries(r)
      PROVE  UNCHANGED Lock!vars
  <2>1. /\ lostKey' = lostKey /\ lock' = lock
        /\ \A q \in Req : pc'[q] \in Held <=> pc[q] \in Held
    BY <1>1, <1>5 DEF TakeLocal, LocalTimeout, HandlerEnds, HandlerRetries
  <2> QED
    BY <2>1, LeaseUnchanged
\* Release of a request that has lost its key implements LeaveLate.
<1>6. ASSUME NEW r \in Req, Release(r) PROVE Lock!Next
  <2>1. /\ lostKey' = lostKey /\ lock' = Free /\ pc[r] = "del" /\ outcome[r] \in Ends
        /\ pc' = [pc EXCEPT ![r] = outcome[r]]
    BY <1>6 DEF Release, Answered, IInv, TypeOK, Places
  <2>2. \A q \in Req : pc'[q] \in Held <=> (pc[q] \in Held /\ q \notin {r})
    BY <1>1, <2>1
  <2>3. CASE Keeper \in {r, Free}
    <3>1. Lock!Leave({r})
      BY <2>1, <2>2, <2>3, LeaseLeft
    <3> QED
      BY <1>2, <3>1
  <2>4. CASE Keeper \notin {r, Free}
    <3>1. r \in H /\ lock # r
      BY <2>1, <2>4 DEF Keeper
    <3>2. lostKey
      BY <3>1 DEF IInv, KeyIsHolders
    <3>3. Lock!LeaveLate(r)
      BY <2>1, <2>2, <2>4, <3>1, <3>2 DEF Lock!LeaveLate, Keeper
    <3> QED
      BY <3>3 DEF Lock!Next
  <2> QED
    BY <2>3, <2>4
<1>7. ASSUME NEW r \in Req, ReleaseRejected(r) PROVE Lock!Next
  <2>1. /\ lostKey' = lostKey /\ lock' = lock /\ pc[r] = "del" /\ outcome[r] \in Ends
        /\ pc' = [pc EXCEPT ![r] = outcome[r]]
    BY <1>7 DEF ReleaseRejected, Answered, IInv, TypeOK, Places
  <2>2. \A q \in Req : pc'[q] \in Held <=> (pc[q] \in Held /\ q \notin {r})
    BY <1>1, <2>1
  <2>3. Lock!Leave({r})
    BY <2>1, <2>2, LeaseLeft
  <2> QED
    BY <1>2, <2>3
\* Expire and the DEL of isLocked implement Lapse, if a request is at work on the key.
<1>8. ASSUME lock' = Free, NoteLoss, pc' = pc PROVE [Lock!Next]_(Lock!vars)
  <2>1. CASE Keeper = Free
    <3>1. lostKey' = lostKey
      BY <1>8, <2>1 DEF NoteLoss, Keeper, IInv, TypeOK
    <3> QED
      BY <1>8, <2>1, <3>1 DEF Lock!vars, Keeper
  <2>2. CASE Keeper # Free
    <3>1. Lock!Lapse
      BY <1>1, <1>8, <2>2 DEF NoteLoss, Lock!Lapse, Keeper
    <3> QED
      BY <3>1 DEF Lock!Next
  <2> QED
    BY <2>1, <2>2
<1>9. ASSUME NEW q \in Prober, Exists(q) \/ Pttl(q) \/ DelExpired(q)
      PROVE  [Lock!Next]_(Lock!vars)
  <2>1. pc' = pc /\ (UNCHANGED <<lock, lostKey>> \/ (lock' = Free /\ NoteLoss))
    <3>1. (Exists(q) \/ Pttl(q)) => UNCHANGED <<pc, lock, lostKey>>
      BY DEF Exists, Pttl
    <3> HIDE DEF NoteLoss
    <3> QED
      BY <1>9, <3>1 DEF DelExpired
  <2>2. CASE UNCHANGED <<lock, lostKey>>
    BY <2>1, <2>2, LeaseUnchanged
  <2> QED
    BY <1>8, <2>1, <2>2
<1>10. CASE Expire
  BY <1>8, <1>10 DEF Expire
\* Crash implements the Leave of all who are at work in the process.
<1>11. ASSUME NEW i \in Instance, Crash(i) PROVE Lock!Next
  <2> DEFINE S == {r \in Req : InstanceOf[r] = i}
  <2>1. /\ lostKey' = lostKey /\ lock' = lock
        /\ \A r \in Req : pc'[r] \in Held <=> (pc[r] \in Held /\ r \notin S)
    BY <1>11 DEF Crash
  <2> HIDE DEF S
  <2>2. S \in SUBSET Req
    BY DEF S
  <2>3. Lock!Leave(S)
    BY <2>1, <2>2, LeaseLeft
  <2> QED
    BY <1>2, <2>2, <2>3
<1>12. CASE UNCHANGED vars
  BY <1>12, LeaseUnchanged DEF vars
<1> QED
  BY <1>3, <1>4, <1>5, <1>6, <1>7, <1>9, <1>10, <1>11, <1>12 DEF Next, RequestStep

\* Retries, rejected commands, requests that give up, crashes and a releaseLock
\* that deletes whatever key is there are to those who act on the lock no more
\* than a lease: without a lapse they exclude each other, and after one they do
\* again as soon as all who lost their key have left.
THEOREM LockImplementsLease == Spec => ImplementsLease
<1>1. IInv /\ [Next]_vars => [Lock!Next]_(Lock!vars)
  BY LeaseStep
<1> QED
  BY <1>1, LeaseInit, Invariant, PTL DEF Spec, Lock!Spec, ImplementsLease
============================================================================
