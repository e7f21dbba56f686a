---------------------------- MODULE MCCacheAside ----------------------------
(***************************************************************************)
(* An instance of CacheAside for TLC: four requests, each of any task, on  *)
(* one user and one product.  Two writers and two readers of one key are   *)
(* the smallest set in which a late fill, its deletion and a second late   *)
(* fill all occur.                                                         *)
(***************************************************************************)
EXTENDS CacheAside, SequencesExt

\* The requests are alike: one assignment for every bag of tasks.
AllTasks == SetToSeq(Task)
Number == [r1 |-> 1, r2 |-> 2, r3 |-> 3, r4 |-> 4]
Assignment == {pick \in [Req -> DOMAIN AllTasks] :
                  \A r, q \in Req : Number[r] < Number[q] => pick[r] <= pick[q]}
MCTasks == {[r \in Req |-> AllTasks[pick[r]]] : pick \in Assignment}
============================================================================
