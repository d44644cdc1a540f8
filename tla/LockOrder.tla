------------------------------ MODULE LockOrder ------------------------------
(***************************************************************************)
(* Lock of several paths at once (internal/store/lock.go): the paths are   *)
(* taken one after the other in sorted order, and those already taken are  *)
(* given back when one cannot be had in time. The lock of each path is the *)
(* service LockService promises.                                           *)
(***************************************************************************)
EXTENDS Naturals, FiniteSets

CONSTANTS
  Askers,   \* callers of Lock
  Paths     \* paths, ordered as strings are

ASSUME PathsAssumption == Paths \subseteq Nat /\ IsFiniteSet(Paths)

VARIABLES
  want,     \* the paths each caller has yet to take
  has       \* those it holds

orderVars == <<want, has>>

OrderInit == want = [a \in Askers |-> {}] /\ has = [a \in Askers |-> {}]

Ask(a, ps) ==
  /\ want[a] = {} /\ has[a] = {}
  /\ want' = [want EXCEPT ![a] = ps]
  /\ UNCHANGED has

Taken == UNION {has[a] : a \in Askers}

\* Mutant: in the order the caller gave.
NextPathAny(a, p) == p \in want[a]

NextPath(a, p) == p \in want[a] /\ \A q \in want[a] : p <= q

TakeNext(a) ==
  \E p \in Paths :
    /\ NextPath(a, p)
    /\ p \notin Taken
    /\ has' = [has EXCEPT ![a] = @ \cup {p}]
    /\ want' = [want EXCEPT ![a] = @ \ {p}]

\* lockTimeout: nothing is held on failure. A caller that has all it asked
\* for releases.
GiveUpAll(a) ==
  /\ want[a] # {} \/ has[a] # {}
  /\ want' = [want EXCEPT ![a] = {}]
  /\ has' = [has EXCEPT ![a] = {}]

OrderNext ==
  \E a \in Askers :
    TakeNext(a) \/ GiveUpAll(a) \/ \E ps \in (SUBSET Paths) \ {{}} : Ask(a, ps)

-----------------------------------------------------------------------------

OrderTypeOK ==
  /\ want \in [Askers -> SUBSET Paths] /\ has \in [Askers -> SUBSET Paths]
  /\ \A a \in Askers : want[a] \cap has[a] = {}

\* "two callers wanting the same two files can no longer take them in opposite
\* orders": when callers wait, one of them waits for nobody who waits.
WaitsFor(a, b) == \E p \in has[b] : NextPath(a, p)

NoCircularWait ==
  \A waiting \in (SUBSET Askers) \ {{}} :
    \E a \in waiting : \A b \in waiting : a = b \/ ~WaitsFor(a, b)
=============================================================================
