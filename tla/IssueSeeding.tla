---------------------------- MODULE IssueSeeding ----------------------------
(***************************************************************************)
(* CouponIssue and Seeding side by side, with every bound of both.         *)
(* Issuing in a program that runs, call by call, is CouponIssue; issuing,  *)
(* registering and logging in while processes start is Seeding, in which a *)
(* request for a coupon is only what it does to the counter and the table. *)
(* They share no variable, so interleaving them shows nothing: a behaviour *)
(* is one of either.                                                       *)
(***************************************************************************)
EXTENDS CouponIssue, Seeding

VARIABLE part   \* the model that a behaviour is of

bothVars == <<part, vars, seedingVars>>

BothInit ==
    /\ Init /\ SeedingInit
    /\ part \in {"issuing", "seeding"}

IssueNext == part = "issuing" /\ Next /\ UNCHANGED <<part, seedingVars>>
BootNext == part = "seeding" /\ SeedingNext /\ UNCHANGED <<part, vars>>

BothSpec == BothInit /\ [][IssueNext \/ BootNext]_bothVars

----------------------------------------------------------------------------
\* Every variable of both models stays in its type.
TypesOK == TypeOK /\ SeedingTypeOK
=============================================================================
