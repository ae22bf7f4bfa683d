-------------------------- MODULE MCProspectingRun --------------------------
(* Small instances of ProspectingRun: the requests and faults of each run  *)
(* are in its configuration.                                               *)
EXTENDS ProspectingRun, TLC

CONSTANTS w1, w2

AnyWorker == Permutations(Workers)
=============================================================================
