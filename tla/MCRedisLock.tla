---------------------------- MODULE MCRedisLock ----------------------------
(***************************************************************************)
(* An instance of RedisLock for TLC: two pessimistic requests in one       *)
(* process, an optimistic one in another, and a caller of isLocked.  Two   *)
(* rounds of each loop are enough for a first, a middle and a last one to  *)
(* differ in every way the code tells them apart.                          *)
(***************************************************************************)
EXTENDS RedisLock

MCInstanceOf == [r1 |-> "i1", r2 |-> "i1", r3 |-> "i2"]
MCKind == [r1 |-> "pessimistic", r2 |-> "pessimistic", r3 |-> "optimistic"]
============================================================================
