----------------------------- MODULE RequestGate ----------------------------
(***************************************************************************)
(* Admission of history requests to one provider.  Every process, forked   *)
(* scan workers included, asks a gate whose state is a file in the cache   *)
(* directory, read and replaced under a file lock: the earliest time of    *)
(* the next request and the end of the pause that an availability failure  *)
(* causes.  A process reads the wall clock under the lock; the clock may   *)
(* be stepped, so any reading may follow any other.                        *)
(***************************************************************************)
EXTENDS Integers

CONSTANTS
    Process,        \* processes that fetch histories
    NoProcess,      \* nobody holds the lock
    Time,           \* readings of the clock
    Interval,       \* between the starts of two requests
    Cooldown        \* of the pause after a failure

ASSUME ProcessType == NoProcess \notin Process
ASSUME TimeType == Time \subseteq Nat
ASSUME DurationTypes == Interval \in Nat /\ Cooldown \in Nat

VARIABLES
    now,            \* what time.time() returns
    file,           \* the state file
    holder,         \* who holds its lock
    pc,             \* per process: what it is doing
    seen,           \* per process: the state it read
    clock,          \* per process: the time it read
    lastStart,      \* the time at which a request was last admitted
    lastFailure     \* the time at which a failure was last recorded

vars == <<now, file, holder, pc, seen, clock, lastStart, lastFailure>>

State == [next_request : Nat, retry_after : Nat]

Step == {"idle", "acquire", "admit", "decide", "request", "failed", "record", "pause"}

\* Steps inside the locked region of _state().
Locked == {"admit", "decide", "record", "pause"}

\* Both durations are zero: acquire() returns at once.
Ungated == Interval = 0 /\ Cooldown = 0

Longer(a, b) == IF a > b THEN a ELSE b

Init ==
    /\ now \in Time
    /\ file = [next_request |-> 0, retry_after |-> 0]
    /\ holder = NoProcess
    /\ pc = [p \in Process |-> "idle"]
    /\ seen = [p \in Process |-> file]
    /\ clock = [p \in Process |-> 0]
    /\ lastStart = -Interval /\ lastFailure = -Cooldown

GoTo(p, step) == pc' = [pc EXCEPT ![p] = step]

-----------------------------------------------------------------------------
(* The file lock *)

\* Mutant: the file is read whoever holds the lock.
LockShared(p, step) ==
    /\ holder' = p
    /\ seen' = [seen EXCEPT ![p] = file]
    /\ GoTo(p, step)
    /\ UNCHANGED <<now, file, clock, lastStart, lastFailure>>

Lock(p, step) ==
    /\ holder = NoProcess
    /\ holder' = p
    /\ seen' = [seen EXCEPT ![p] = file]
    /\ GoTo(p, step)
    /\ UNCHANGED <<now, file, clock, lastStart, lastFailure>>

\* The state file is replaced and the lock released.
Unlock(p, state) ==
    /\ file' = state
    /\ holder' = NoProcess
    /\ UNCHANGED <<now, seen, clock>>

ReadClock(p, step) ==
    /\ clock' = [clock EXCEPT ![p] = now]
    /\ GoTo(p, step)
    /\ UNCHANGED <<now, file, holder, seen, lastStart, lastFailure>>

-----------------------------------------------------------------------------
(* acquire() *)

Acquire(p) ==
    /\ pc[p] = "idle"
    /\ GoTo(p, IF Ungated THEN "request" ELSE "acquire")
    /\ UNCHANGED <<now, file, holder, seen, clock, lastStart, lastFailure>>

LockToAdmit(p) == pc[p] = "acquire" /\ Lock(p, "admit")

ReadClockToAdmit(p) == pc[p] = "admit" /\ ReadClock(p, "decide")

\* provider_circuit_open: nothing is written, and the fetch records no failure.
CircuitOpen(p) ==
    /\ pc[p] = "decide" /\ seen[p].retry_after > clock[p]
    /\ Unlock(p, file)
    /\ GoTo(p, "idle")
    /\ UNCHANGED <<lastStart, lastFailure>>

\* Too early: the state is written back, and the process sleeps unlocked.
TooEarly(p) ==
    /\ pc[p] = "decide" /\ seen[p].retry_after <= clock[p]
    /\ seen[p].next_request > clock[p]
    /\ Unlock(p, seen[p])
    /\ GoTo(p, "acquire")
    /\ UNCHANGED <<lastStart, lastFailure>>

\* Mutant: the pause is not looked at.
AdmitPaused(p) ==
    /\ pc[p] = "decide" /\ seen[p].next_request <= clock[p]
    /\ Unlock(p, [seen[p] EXCEPT !.next_request = clock[p] + Interval])
    /\ GoTo(p, "request")
    /\ lastStart' = clock[p] /\ UNCHANGED lastFailure

Admit(p) ==
    /\ pc[p] = "decide" /\ seen[p].retry_after <= clock[p]
    /\ seen[p].next_request <= clock[p]
    /\ Unlock(p, [seen[p] EXCEPT !.next_request = clock[p] + Interval])
    /\ GoTo(p, "request")
    /\ lastStart' = clock[p] /\ UNCHANGED lastFailure

-----------------------------------------------------------------------------
(* The request, and record_failure() *)

Succeed(p) ==
    /\ pc[p] = "request"
    /\ GoTo(p, "idle")
    /\ UNCHANGED <<now, file, holder, seen, clock, lastStart, lastFailure>>

Unavailable(p) ==
    /\ pc[p] = "request"
    /\ GoTo(p, IF Cooldown = 0 THEN "idle" ELSE "failed")
    /\ UNCHANGED <<now, file, holder, seen, clock, lastStart, lastFailure>>

LockToRecord(p) == pc[p] = "failed" /\ Lock(p, "record")

ReadClockToRecord(p) == pc[p] = "record" /\ ReadClock(p, "pause")

Record(p) ==
    /\ pc[p] = "pause"
    /\ Unlock(p, [seen[p] EXCEPT !.retry_after = Longer(@, clock[p] + Cooldown)])
    /\ GoTo(p, "idle")
    /\ lastFailure' = Longer(lastFailure, clock[p]) /\ UNCHANGED lastStart

-----------------------------------------------------------------------------
(* The environment *)

\* A worker is killed at its timeout, or its write fails: the kernel or the
\* finally clause releases the lock.  A death after the file has been replaced
\* is an Admit or Record followed by an Abort.
Abort(p) ==
    /\ pc[p] # "idle"
    /\ holder' = IF holder = p THEN NoProcess ELSE holder
    /\ GoTo(p, "idle")
    /\ UNCHANGED <<now, file, seen, clock, lastStart, lastFailure>>

SetClock(t) ==
    /\ now' = t
    /\ UNCHANGED <<file, holder, pc, seen, clock, lastStart, lastFailure>>

Next ==
    \/ \E p \in Process :
        \/ Acquire(p) \/ LockToAdmit(p) \/ ReadClockToAdmit(p)
        \/ CircuitOpen(p) \/ TooEarly(p) \/ Admit(p)
        \/ Succeed(p) \/ Unavailable(p)
        \/ LockToRecord(p) \/ ReadClockToRecord(p) \/ Record(p)
        \/ Abort(p)
    \/ \E t \in Time : SetClock(t)

Spec == Init /\ [][Next]_vars

-----------------------------------------------------------------------------
(* Properties *)

TypeOK ==
    /\ now \in Time
    /\ file \in State
    /\ holder \in Process \cup {NoProcess}
    /\ pc \in [Process -> Step]
    /\ seen \in [Process -> State]
    /\ clock \in [Process -> Nat]
    /\ lastStart \in Int /\ lastFailure \in Int

\* "Space request starts": whichever processes ask, the clock reading at which a
\* request is admitted is an interval after that of the request before it.
StartsSpaced ==
    [][\A p \in Process : Admit(p) => clock[p] >= lastStart + Interval]_vars

\* "temporarily skip unavailable upstream providers": no request is admitted before
\* the pause of every recorded failure is over, whoever recorded it and when.
PauseRespected ==
    [][\A p \in Process : Admit(p) => clock[p] >= lastFailure + Cooldown]_vars

\* What the two rest on: a process inside the locked region has read the current
\* state, and the state remembers the last start and the last failure.
GateInv ==
    /\ \A p \in Process : pc[p] \in Locked => holder = p /\ seen[p] = file
    /\ lastStart + Interval <= file.next_request
    /\ lastFailure + Cooldown <= file.retry_after

IInv == TypeOK /\ GateInv
=============================================================================
