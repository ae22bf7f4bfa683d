----------------------------- MODULE MCCampaign -----------------------------
(* A small instance of Campaign: one campaign with two leads that share a   *)
(* phone, limits that a second message exceeds, and days of two hours with  *)
(* one of them outside the window.                                          *)
EXTENDS Campaign, TLC

CONSTANTS c1, l1, l2, p1

OnePhone  == (l1 :> p1) @@ (l2 :> p1)
OneTarget == c1 :> {l1, l2}
=============================================================================
