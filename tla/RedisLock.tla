----------------------------- MODULE RedisLock -----------------------------
(***************************************************************************)
(* The distributed lock: RedisDistributedLockService and the interceptors  *)
(* OptimisticLockInterceptor and PessimisticLockInterceptor that hold it   *)
(* around the handler of a decorated method.  One lock key.                *)
(*                                                                         *)
(* The key holds the text 'locked', whoever set it; `lock` also remembers  *)
(* the request, for the properties.  The pauses of the code (retryDelay,   *)
(* the 10 ms poll) are time a request spends before its next step.  A TTL  *)
(* may run out at any time.                                                *)
(***************************************************************************)
EXTENDS Integers, FiniteSets

CONSTANTS Req,          \* requests to a decorated method
          Instance,     \* processes of the service
          InstanceOf,   \* the one a request runs in
          Kind,         \* "optimistic" or "pessimistic", its decorator
          RetryCount,   \* retryCount of acquireLock
          MaxRetries,   \* maxRetries of the optimistic decorator
          Prober,       \* callers of isLocked
          MaxCrashes    \* bound: how often a process dies

ASSUME RequestAssumption ==
    /\ InstanceOf \in [Req -> Instance]
    /\ Kind \in [Req -> {"optimistic", "pessimistic"}]
ASSUME RetryAssumption ==
    {RetryCount, MaxRetries} \subseteq Nat \ {0} /\ MaxCrashes \in Nat

VARIABLES pc,       \* what a request awaits, or how it ended
          tries,    \* the loop variable of acquireLock, then of the handler
          outcome,  \* what a request answers once the lock is released
          lock,     \* the key in Redis: the request that set it, or Free
          local,    \* PessimisticLockInterceptor.locks: the request that has
                    \* the key in an instance's map, or Free
          probe,    \* what a caller of isLocked awaits, or its answer
          crashes,
          lostKey,  \* history: the key of some request at work expired or was
                    \* deleted by a caller of isLocked
          orphaned  \* history: requests whose SET or DEL was rejected

vars == <<pc, tries, outcome, lock, local, probe, crashes, lostKey, orphaned>>

Free == "free"
ASSUME FreeAssumption == Free \notin Req

\* The stages in which a request counts on the lock.
Held == {"local", "handler", "del"}
Ends == {"ok", "busy", "conflict", "error", "died"}

Goto(r, l) == pc' = [pc EXCEPT ![r] = l]
NoteLoss == lostKey' = (lostKey \/ (lock \in Req /\ pc[lock] \in Held))

----------------------------------------------------------------------------
Init ==
    /\ pc = [r \in Req |-> "set"]
    /\ tries = [r \in Req |-> 0]
    /\ outcome = [r \in Req |-> "none"]
    /\ lock = Free
    /\ local = [i \in Instance |-> Free]
    /\ probe = [q \in Prober |-> "exists"]
    /\ crashes = 0
    /\ lostKey = FALSE
    /\ orphaned = {}

----------------------------------------------------------------------------
(* acquireLock *)

Acquired(r) ==
    /\ lock' = r
    /\ tries' = [tries EXCEPT ![r] = 0]
    /\ Goto(r, IF Kind[r] = "pessimistic" THEN "local" ELSE "handler")

LastTry(r) == tries[r] + 1 = RetryCount

\* The next round of the loop, or what follows the last one.
TryAgainOr(r, end) ==
    /\ tries' = [tries EXCEPT ![r] = @ + 1]
    /\ Goto(r, IF LastTry(r) THEN end ELSE "set")

\* Mutant: SET without NX.
SetAnyway(r) ==
    /\ pc[r] = "set"
    /\ Acquired(r)
    /\ UNCHANGED <<outcome, local, probe, crashes, lostKey, orphaned>>

\* SET key locked PX ttl NX.  After the last refusal the request is answered
\* that the resource is in use.
SetNX(r) ==
    /\ pc[r] = "set"
    /\ \/ /\ lock = Free
          /\ Acquired(r)
       \/ /\ lock # Free
          /\ TryAgainOr(r, "busy")
          /\ UNCHANGED lock
    /\ UNCHANGED <<outcome, local, probe, crashes, lostKey, orphaned>>

\* The SET is rejected, with or without effect; nobody will release the key.
SetRejected(r) ==
    /\ pc[r] = "set"
    /\ TryAgainOr(r, "error")
    /\ \/ /\ lock = Free
          /\ lock' = r
          /\ orphaned' = orphaned \cup {r}
       \/ UNCHANGED <<lock, orphaned>>
    /\ UNCHANGED <<outcome, local, probe, crashes, lostKey>>

----------------------------------------------------------------------------
(* acquirePessimisticLock, which polls the map of its instance *)

Here(r) == local[InstanceOf[r]]

\* Mutant: the map is not looked at.
TakeLocalAnyway(r) ==
    /\ pc[r] = "local"
    /\ local' = [local EXCEPT ![InstanceOf[r]] = r]
    /\ Goto(r, "handler")
    /\ UNCHANGED <<tries, outcome, lock, probe, crashes, lostKey, orphaned>>

TakeLocal(r) ==
    /\ pc[r] = "local"
    /\ Here(r) = Free
    /\ local' = [local EXCEPT ![InstanceOf[r]] = r]
    /\ Goto(r, "handler")
    /\ UNCHANGED <<tries, outcome, lock, probe, crashes, lostKey, orphaned>>

\* Mutant: a request that gave up does not release the Redis lock.
LocalTimeoutReturns(r) ==
    /\ pc[r] = "local"
    /\ Goto(r, "busy")
    /\ UNCHANGED <<tries, outcome, lock, local, probe, crashes, lostKey, orphaned>>

\* Mutant: the poll has no deadline.
LocalWaitsOn(r) == FALSE

\* The timeout has passed since the first look at the map, whether or not the
\* map is free by now.
LocalTimeout(r) ==
    /\ pc[r] = "local"
    /\ outcome' = [outcome EXCEPT ![r] = "busy"]
    /\ Goto(r, "del")
    /\ UNCHANGED <<tries, lock, local, probe, crashes, lostKey, orphaned>>

----------------------------------------------------------------------------
(* The handler *)

\* It returns or throws.  The finally block of a pessimistic request takes it
\* out of the map at once; the optimistic interceptor turns an exception into
\* a conflict.
HandlerEnds(r) ==
    /\ pc[r] = "handler"
    /\ \E result \in {"ok", IF Kind[r] = "pessimistic" THEN "error" ELSE "conflict"} :
          outcome' = [outcome EXCEPT ![r] = result]
    /\ local' = IF Kind[r] = "pessimistic"
                THEN [local EXCEPT ![InstanceOf[r]] = Free] ELSE local
    /\ Goto(r, "del")
    /\ UNCHANGED <<tries, lock, probe, crashes, lostKey, orphaned>>

\* An optimistic lock exception: the handler runs once more, under the lock
\* that was taken for the first run.
HandlerRetries(r) ==
    /\ pc[r] = "handler"
    /\ Kind[r] = "optimistic"
    /\ tries[r] < MaxRetries - 1
    /\ tries' = [tries EXCEPT ![r] = @ + 1]
    /\ UNCHANGED <<pc, outcome, lock, local, probe, crashes, lostKey, orphaned>>

----------------------------------------------------------------------------
(* releaseLock deletes the key, whoever set it; an error is swallowed *)

Answered(r) ==
    /\ Goto(r, outcome[r])
    /\ outcome' = [outcome EXCEPT ![r] = "none"]

Release(r) ==
    /\ pc[r] = "del"
    /\ lock' = Free
    /\ Answered(r)
    /\ UNCHANGED <<tries, local, probe, crashes, lostKey, orphaned>>

ReleaseRejected(r) ==
    /\ pc[r] = "del"
    /\ orphaned' = orphaned \cup {r}
    /\ Answered(r)
    /\ UNCHANGED <<tries, lock, local, probe, crashes, lostKey>>

----------------------------------------------------------------------------
(* isLocked: EXISTS, then PTTL, then perhaps DEL; any rejection is "no" *)

Answer(q, a) == probe' = [probe EXCEPT ![q] = a]

KeyExists == lock # Free

\* A rejected command is "no".
Exists(q) ==
    /\ probe[q] = "exists"
    /\ \/ KeyExists /\ Answer(q, "pttl")
       \/ Answer(q, "no")
    /\ UNCHANGED <<pc, tries, outcome, lock, local, crashes, lostKey, orphaned>>

\* What Redis replies: -2 for a key that is gone meanwhile, 0 in the last
\* millisecond of a key, else what is left.
PttlReply == IF KeyExists THEN {0, 1} ELSE {-2}

\* The code takes -1 for "no such key" and -2 for "no TTL".
Pttl(q) ==
    /\ probe[q] = "pttl"
    /\ \/ \E ttl \in PttlReply :
             Answer(q, IF ttl = -1 THEN "no" ELSE IF ttl = 0 THEN "del" ELSE "yes")
       \/ Answer(q, "no")
    /\ UNCHANGED <<pc, tries, outcome, lock, local, crashes, lostKey, orphaned>>

\* By now the key may be another one.
DelExpired(q) ==
    /\ probe[q] = "del"
    /\ Answer(q, "no")
    /\ \/ lock' = Free /\ NoteLoss
       \/ UNCHANGED <<lock, lostKey>>
    /\ UNCHANGED <<pc, tries, outcome, local, crashes, orphaned>>

----------------------------------------------------------------------------
(* The environment *)

\* Every SET carries PX, so any key may expire.
Expire ==
    /\ lock # Free
    /\ lock' = Free
    /\ NoteLoss
    /\ UNCHANGED <<pc, tries, outcome, local, probe, crashes, orphaned>>

\* A process dies: its requests end, its map is gone, Redis keeps the key.
Crash(i) ==
    /\ crashes < MaxCrashes
    /\ crashes' = crashes + 1
    /\ pc' = [r \in Req |-> IF InstanceOf[r] = i /\ pc[r] \notin Ends THEN "died"
                                                                     ELSE pc[r]]
    /\ local' = [local EXCEPT ![i] = Free]
    /\ UNCHANGED <<tries, outcome, lock, probe, lostKey, orphaned>>

----------------------------------------------------------------------------
RequestStep(r) ==
    \/ SetNX(r) \/ TakeLocal(r) \/ LocalTimeout(r) \/ HandlerEnds(r) \/ Release(r)

Next ==
    \/ \E r \in Req : \/ RequestStep(r)
                      \/ SetRejected(r) \/ HandlerRetries(r) \/ ReleaseRejected(r)
    \/ \E q \in Prober : Exists(q) \/ Pttl(q) \/ DelExpired(q)
    \/ Expire
    \/ \E i \in Instance : Crash(i)

\* What the lock itself does for a request, with the answers of Redis.
LockStep(r) ==
    \/ SetNX(r) \/ SetRejected(r)
    \/ TakeLocal(r) \/ LocalTimeout(r)
    \/ Release(r) \/ ReleaseRejected(r)

\* Commands are answered or rejected, pauses and polls end.  Nothing is assumed
\* of the handler, which is awaited without a limit, nor of the expiry.
Fairness == \A r \in Req : WF_vars(LockStep(r))

Spec == Init /\ [][Next]_vars /\ Fairness

----------------------------------------------------------------------------
(* Properties *)

\* Every variable stays in its type; a request is in the map of its instance
\* exactly while it is in a pessimistic handler.
TypeOK ==
    /\ pc \in [Req -> {"set"} \cup Held \cup Ends]
    /\ tries \in [Req -> 0 .. RetryCount + MaxRetries]
    /\ outcome \in [Req -> {"none"} \cup Ends]
    /\ lock \in Req \cup {Free}
    /\ local \in [Instance -> Req \cup {Free}]
    /\ \A r \in Req :
          Here(r) = r <=> (Kind[r] = "pessimistic" /\ pc[r] = "handler")
    /\ probe \in [Prober -> {"exists", "pttl", "del", "yes", "no"}]
    /\ lostKey \in BOOLEAN
    /\ orphaned \in SUBSET Req

\* Two handlers run at the same time only after some request has outlived its
\* TTL, or after isLocked deleted the key of a request at work.  Rejected
\* commands, crashes and requests that gave up never let two in, although
\* releaseLock deletes whatever key is there.
ExclusiveUnlessExpired ==
    \A r1, r2 \in Req :
        pc[r1] = "handler" /\ pc[r2] = "handler" /\ r1 # r2
            => lostKey

\* Retries, rejected commands, requests that give up and processes that die are
\* a lock with an expiry to whoever acts on it: a request gets in only when no
\* request at work has its key, and a key of a request at work goes only with
\* it, by a lapse, or by one that works on after its own key had lapsed.
Keeper == IF lock \in Req /\ pc[lock] \in Held THEN lock ELSE Free
Lock == INSTANCE Lease
          WITH NoOne <- Free,
               holders <- {r \in Req : pc[r] \in Held},
               keeper <- Keeper,
               lapsed <- lostKey
ImplementsLease == Lock!Spec

\* The map of an instance keeps its pessimistic handlers apart even when the
\* Redis lock has expired or was deleted.  It follows from TypeOK.
LocalExclusion ==
    \A r1, r2 \in Req :
        (/\ pc[r1] = "handler" /\ pc[r2] = "handler"
         /\ InstanceOf[r1] = InstanceOf[r2]
         /\ Kind[r1] = "pessimistic" /\ Kind[r2] = "pessimistic")
        => r1 = r2

\* The key is never left behind by a request that ended, in whatever way,
\* unless its process died or a Redis command of it was rejected.
KeyHeldOnlyAtWork ==
    lock # Free => \/ pc[lock] \in Held \cup {"died"}
                   \/ lock \in orphaned

\* Nobody waits for ever behind a handler that does not return, although that
\* handler keeps its entry in the map for good and its key may have gone to the
\* next request: every request gets to its handler or is told that it did not,
\* and after its handler it gets its answer.
WaitEnds ==
    \A r \in Req :
        pc[r] \in {"set", "local", "del"} ~> pc[r] \in {"handler"} \cup Ends
============================================================================
