--------------------------- MODULE MCIssueSeeding ---------------------------
(***************************************************************************)
(* Instances of CouponIssue and Seeding for TLC.                           *)
(*                                                                         *)
(* CouponIssue: as in MCCouponIssue.  Seeding: two clients, of one address *)
(* or of two, one of them that of a seed; two users, a product and a       *)
(* coupon to be seeded; three requests to register, log in or get a        *)
(* coupon; two starts, of one process or of two.                           *)
(***************************************************************************)
EXTENDS MCCouponIssue, IssueSeeding

MCEmails == {[c1 |-> "ann", c2 |-> e] : e \in {"ann", "admin"}}
MCLength == [c1 |-> 8, c2 |-> 8]
MCDevInstance == Instance
MCSeeds == << [t |-> "users", id |-> 1, name |-> "admin"],
              [t |-> "users", id |-> 2, name |-> "test1"],
              [t |-> "products", id |-> 1, name |-> "latte"],
              [t |-> "coupons", id |-> 1, name |-> "1/D10"] >>
MCWatched == {<<"users", 2>>, <<"coupons", 1>>}
MCTypeOfName == [n \in {"1/D10", "2/D10"} |-> "D10"]
MCStockTypes == <<"D10">>
MCStartStock == [ty \in CouponType |-> 1]

\* One choice of addresses is enough where nobody registers.
MCInit == BothInit /\ (part = "issuing" => email = CHOOSE e \in Emails : TRUE)

MCSpec == MCInit /\ [][IssueNext \/ BootNext]_bothVars
=============================================================================
