----------------------------- MODULE LockService -----------------------------
(***************************************************************************)
(* What internal/store promises of Lock (lock.go): "Lock takes an          *)
(* exclusive lock", and a dead process's lock is cleared out of the way    *)
(* before anybody else gets in.                                            *)
(***************************************************************************)
CONSTANTS Procs    \* the callers of Lock: hooks, commands, requests of a daemon

VARIABLES
  inside,    \* the callers that have the lock
  dead       \* a caller died inside, and its lock is still in the way

vars == <<inside, dead>>

Init == inside = {} /\ dead = FALSE

Acquire(p) ==
  /\ inside = {}
  /\ ~dead
  /\ inside' = {p}
  /\ UNCHANGED dead

Release(p) ==
  /\ p \in inside
  /\ inside' = inside \ {p}
  /\ UNCHANGED dead

\* The holder's process dies with the lock in its hands.
Die(p) ==
  /\ p \in inside
  /\ inside' = inside \ {p}
  /\ dead' = TRUE

\* A dead holder's lock is broken.
Reclaim ==
  /\ dead
  /\ dead' = FALSE
  /\ UNCHANGED inside

Next ==
  \/ \E p \in Procs : Acquire(p) \/ Release(p) \/ Die(p)
  \/ Reclaim

Spec == Init /\ [][Next]_vars
=============================================================================
