---------------------------- MODULE BatchResults ----------------------------
(* What a batch of candidates promises to the scan that fetches it: every  *)
(* candidate gets one result, whatever becomes of the others, and the      *)
(* batch ends.                                                             *)
CONSTANTS
    Code,           \* the candidates of the batch
    Result,
    None            \* no result yet

VARIABLE results

Unsettled == {c \in Code : results[c] = None}

Init == results = [c \in Code |-> None]

Settle ==
    \E settled \in (SUBSET Unsettled) \ {{}} :
        /\ \A c \in settled : results'[c] \in Result
        /\ \A c \in Code \ settled : results'[c] = results[c]
        /\ results' \in [Code -> Result \cup {None}]

Safety == Init /\ [][Settle]_results

Ends == <>(Unsettled = {})

Spec == Safety /\ Ends
=============================================================================
