------------------------- MODULE MCPublicationLocks -------------------------
(* Two runs of two dates: one fetches through the cache; the other one has a *)
(* given provider, and locks the cache to recover it only, or reads the      *)
(* frozen snapshot and leaves the cache alone.  One recovers, publishes or   *)
(* dies while the other one looks for orphans, waits for a lock or restores  *)
(* what it left.                                                             *)
EXTENDS LocksProgress

CONSTANT r1

EveryKind ==
    [r \in Run |-> IF r = r1 THEN [date \in Date |-> "service"]
                   ELSE [date \in Date |-> IF date = 1 THEN "reuse" ELSE "provider"]]
=============================================================================
