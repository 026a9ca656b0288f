---------------------------- MODULE MCRequestGate ---------------------------
(* Two processes and four clock readings: two requests and a failure may *)
(* fall into one interval, and a pause may outlive the clock being set     *)
(* back.                                                                   *)
EXTENDS RequestGate, TLC

ProcessSymmetry == Permutations(Process)
=============================================================================
