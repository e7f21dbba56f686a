------------------------------- MODULE Lease -------------------------------
(***************************************************************************)
(* What a lock with an expiry promises, with no Redis, no retries and no   *)
(* failures in sight: nobody enters while somebody has the lease.  A       *)
(* holder that loses its lease does not notice; it may be joined by        *)
(* another, and when it leaves it may end that one's lease.  Without a     *)
(* lapse nothing of the kind happens.  RedisLock implements this.          *)
(***************************************************************************)
CONSTANTS Req,      \* who may hold the lock
          NoOne

VARIABLES holders,  \* who acts on the lock
          keeper,   \* the holder whose lease it is, or NoOne
          lapsed    \* has the lease of a holder ever lapsed

vars == <<holders, keeper, lapsed>>

Init ==
    /\ holders = {}
    /\ keeper = NoOne
    /\ lapsed = FALSE

Acquire(r) ==
    /\ keeper = NoOne
    /\ r \notin holders
    /\ holders' = holders \cup {r}
    /\ keeper' = r
    /\ UNCHANGED lapsed

Lapse ==
    /\ keeper # NoOne
    /\ keeper' = NoOne
    /\ lapsed' = TRUE
    /\ UNCHANGED holders

\* One leaves, or all who are in a process that dies.
Leave(S) ==
    /\ holders' = holders \ S
    /\ keeper' = IF keeper \in S THEN NoOne ELSE keeper
    /\ UNCHANGED lapsed

\* A holder whose lease is over leaves and ends that of another.
LeaveLate(r) ==
    /\ lapsed
    /\ r \in holders \ {keeper}
    /\ holders' = holders \ {r}
    /\ keeper' = NoOne
    /\ UNCHANGED lapsed

Next ==
    \/ \E r \in Req : Acquire(r) \/ LeaveLate(r)
    \/ Lapse
    \/ \E S \in SUBSET Req : Leave(S)

Spec == Init /\ [][Next]_vars
=============================================================================
