-------------------------- MODULE MCCellDiscovery --------------------------
(* Small instances of CellDiscovery.  Overlapping: two cells that share a  *)
(* business, one of them with two pages.  Bounded: three cells, a business *)
(* listed on two pages and in two cells, one cell with more pages than the *)
(* limit, and one the business limit of the run leaves out.                *)
EXTENDS CellDiscovery, TLC

CONSTANTS w1, w2, b1, b2, b3, b4

Overlapping == 1 :> <<{b1, b2}, {b3}>> @@ 2 :> <<{b2}>>
Bounded     == 1 :> <<{b1}, {b1, b2}>> @@ 2 :> <<{b2}, {b3}, {b1}>> @@ 3 :> <<{b4}>>

AnyWorker == Permutations(Workers)
=============================================================================
