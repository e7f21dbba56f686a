-------------------------- MODULE MCProductRanking --------------------------
(***************************************************************************)
(* An instance of ProductRanking for TLC: two sales of one product on the  *)
(* first two of six days, enough for a day to leave the window and to be   *)
(* deleted by the job or to expire.  The steps on one product neither read *)
(* nor write the score of another, so one is enough.                       *)
(***************************************************************************)
EXTENDS ProductRanking

MCProductOf == [s \in Sale |-> "p"]
MCQuantity == [s1 |-> 2, s2 |-> 1]
============================================================================
