--------------------------- MODULE MCResumableScan --------------------------
(* Two stocks, one per batch, two configurations, an incomplete and an     *)
(* available market state: a batch may end after midnight, a run may stop  *)
(* between two batches, and the other one may rebuild or repair.           *)
EXTENDS ResumableScan, TLC

ProcessSymmetry == Permutations(Process)
=============================================================================
