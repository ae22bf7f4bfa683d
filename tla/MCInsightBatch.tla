--------------------------- MODULE MCInsightBatch ---------------------------
(* Small instances of InsightBatch.                                         *)
EXTENDS InsightBatch, TLC

CONSTANTS b1, x, t1
=============================================================================
