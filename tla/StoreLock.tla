------------------------------ MODULE StoreLock ------------------------------
(***************************************************************************)
(* The lockfile protocol of internal/store/lock.go, for the lock of one    *)
(* path.  A lock is a file created with O_EXCL; the process that created   *)
(* it touches it while it holds it (keepAlive), and a lock untouched for   *)
(* longer than staleAfter is presumed dead and broken.  Breaking is        *)
(* serialised by a second O_EXCL file, the break file, which can itself be *)
(* left behind by a process that died.                                     *)
(*                                                                         *)
(* Every system call is a step of its own: what a stat saw may no longer   *)
(* be true when the remove that relies on it runs.                         *)
(***************************************************************************)
EXTENDS Naturals

CONSTANTS
  Procs,           \* callers of Lock, each in a process of its own
  Inodes,          \* file identities, which is all os.SameFile compares
  Stale,           \* staleAfter, in ticks of the heartbeat's clock
  CrashPoints,     \* program points at which a process may die
  MaxCrashes,      \* bound: deaths in one behaviour
  MaxClockSteps,   \* bound: times the wall clock steps back
  None, Orphan

ASSUME StaleAssumption == Stale \in Nat \ {0}
ASSUME BoundsAssumption == MaxCrashes \in Nat /\ MaxClockSteps \in Nat
ASSUME NamesAssumption ==
  None \notin Procs /\ Orphan \notin Procs /\ None # Orphan /\ None \notin Inodes

VARIABLES
  pc,          \* where each caller is in Lock / release
  lock,        \* the file at lockPath, or None
  brk,         \* the file at lockPath + breakSuffix, or None
  info,        \* held.info: the lock file a caller believes is its own
  binfo,       \* the break file a caller stat'ed: mine, or an orphan
  hb,          \* each caller's keepAlive goroutine
  crashes, clockSteps

vars == <<pc, lock, brk, info, binfo, hb, crashes, clockSteps>>

(***************************************************************************)
(* Program points.  From Owning a caller has the lock file; from Breaking  *)
(* it has the break file.                                                  *)
(***************************************************************************)
Owning == {"stamp", "stat", "abandon", "held", "stopping", "relstat", "relrm"}
Breaking == {"bstat", "judge", "bremove", "bclean", "bcleanrm"}
Clearing == {"borphan", "bsame", "brm", "bundo"}
PCs == Owning \cup Breaking \cup Clearing \cup {"idle", "create", "bcreate", "deadline"}

\* Ages past staleAfter are all the same age: too old.
Ages == 0 .. Stale + 1
LockFile == [ino : Inodes, age : Ages, stamp : {"none", "past", "future"}, owner : Procs \cup {Orphan}]
BreakFile == [ino : Inodes, age : Ages, owner : Procs \cup {Orphan}]

ASSUME FilesAssumption == None \notin LockFile /\ None \notin BreakFile

FreeInodes ==
  {i \in Inodes : (lock # None => lock.ino # i) /\ (brk # None => brk.ino # i)}

Goto(p, l) == pc' = [pc EXCEPT ![p] = l]
At(p, l) == pc[p] = l

\* os.SameFile of what is at the path now and what was stat'ed earlier.
SameLock(p) == lock # None /\ lock.ino = info[p]
SameBreak(p) == brk # None /\ brk.ino = binfo[p]

Init ==
  /\ pc = [p \in Procs |-> "idle"]
  /\ lock = None
  /\ brk = None
  /\ info = [p \in Procs |-> None]
  /\ binfo = [p \in Procs |-> None]
  /\ hb = [p \in Procs |-> "off"]
  /\ crashes = 0
  /\ clockSteps = 0

-----------------------------------------------------------------------------
(* acquire *)

Start(p) ==
  /\ At(p, "idle")
  /\ hb[p] = "off"
  /\ info' = [info EXCEPT ![p] = None]
  /\ Goto(p, "create")
  /\ UNCHANGED <<lock, brk, binfo, hb, crashes, clockSteps>>

\* OpenFile with O_EXCL succeeds: the file is born empty.
CreateLock(p) ==
  /\ At(p, "create")
  /\ lock = None
  /\ \E i \in FreeInodes : lock' = [ino |-> i, age |-> 0, stamp |-> "none", owner |-> p]
  /\ Goto(p, "stamp")
  /\ UNCHANGED <<brk, info, binfo, hb, crashes, clockSteps>>

\* The file is there already: look into breaking it.
LockExists(p) ==
  /\ At(p, "create")
  /\ lock # None
  /\ Goto(p, "bcreate")
  /\ UNCHANGED <<lock, brk, info, binfo, hb, crashes, clockSteps>>

\* Any other error (a permission, a pending delete) only costs a retry.
CreateRefused(p) ==
  /\ At(p, "create")
  /\ Goto(p, "deadline")
  /\ UNCHANGED <<lock, brk, info, binfo, hb, crashes, clockSteps>>

\* pid and time are written through the handle, so into the file this caller
\* created, wherever the path points by now.
WriteStamp(p) ==
  /\ At(p, "stamp")
  /\ lock' = IF lock # None /\ lock.owner = p
               THEN [lock EXCEPT !.stamp = "past", !.age = 0] ELSE lock
  /\ Goto(p, "stat")
  /\ UNCHANGED <<brk, info, binfo, hb, crashes, clockSteps>>

WriteFails(p) ==
  /\ At(p, "stamp")
  /\ Goto(p, "abandon")
  /\ UNCHANGED <<lock, brk, info, binfo, hb, crashes, clockSteps>>

\* os.Stat of the PATH decides which file is ours; the heartbeat starts.
StatLock(p) ==
  /\ At(p, "stat")
  /\ lock # None
  /\ info' = [info EXCEPT ![p] = lock.ino]
  /\ hb' = [hb EXCEPT ![p] = "idle"]
  /\ Goto(p, "held")
  /\ UNCHANGED <<lock, brk, binfo, crashes, clockSteps>>

StatFails(p) ==
  /\ At(p, "stat")
  /\ Goto(p, "abandon")
  /\ UNCHANGED <<lock, brk, info, binfo, hb, crashes, clockSteps>>

\* A lock nobody can read is removed, whoever's file is there.
Abandon(p) ==
  /\ At(p, "abandon")
  /\ lock' = None
  /\ Goto(p, "idle")
  /\ UNCHANGED <<brk, info, binfo, hb, crashes, clockSteps>>

\* Sleep lockRetry and go round again...
Retry(p) ==
  /\ At(p, "deadline")
  /\ Goto(p, "create")
  /\ UNCHANGED <<lock, brk, info, binfo, hb, crashes, clockSteps>>

\* ...or run out of lockTimeout: "the write was NOT made".
TimeOut(p) ==
  /\ At(p, "deadline")
  /\ Goto(p, "idle")
  /\ UNCHANGED <<lock, brk, info, binfo, hb, crashes, clockSteps>>

Acquiring(p) ==
  \/ CreateLock(p) \/ LockExists(p) \/ CreateRefused(p)
  \/ WriteStamp(p) \/ WriteFails(p) \/ StatLock(p) \/ StatFails(p) \/ Abandon(p)
  \/ Retry(p) \/ TimeOut(p)

-----------------------------------------------------------------------------
(* breakStale *)

\* breakStale returns, and its locals go with it.
GiveUp(p) ==
  /\ Goto(p, "deadline")
  /\ binfo' = [binfo EXCEPT ![p] = None]

BreakCreate(p) ==
  /\ At(p, "bcreate")
  /\ brk = None
  /\ \E i \in FreeInodes : brk' = [ino |-> i, age |-> 0, owner |-> p]
  /\ Goto(p, "bstat")
  /\ UNCHANGED <<lock, info, binfo, hb, crashes, clockSteps>>

\* Mutant: the break file serialises nothing.
BreakExistsIgnored(p) ==
  /\ At(p, "bcreate")
  /\ brk # None
  /\ Goto(p, "judge")
  /\ UNCHANGED <<lock, brk, info, binfo, hb, crashes, clockSteps>>

BreakExists(p) ==
  /\ At(p, "bcreate")
  /\ brk # None
  /\ Goto(p, "borphan")
  /\ UNCHANGED <<lock, brk, info, binfo, hb, crashes, clockSteps>>

OrphanStatNever(p) ==
  /\ At(p, "borphan")
  /\ GiveUp(p)
  /\ UNCHANGED <<lock, brk, info, hb, crashes, clockSteps>>

\* Somebody else's break file: litter when it is older than staleAfter.
OrphanStat(p) ==
  /\ At(p, "borphan")
  /\ IF brk # None /\ brk.age > Stale
       THEN Goto(p, "bsame") /\ binfo' = [binfo EXCEPT ![p] = brk.ino]
       ELSE GiveUp(p)
  /\ UNCHANGED <<lock, brk, info, hb, crashes, clockSteps>>

\* removeIfSame: the stat and the comparison...
OrphanSame(p) ==
  /\ At(p, "bsame")
  /\ IF SameBreak(p) THEN Goto(p, "brm") /\ UNCHANGED binfo ELSE GiveUp(p)
  /\ UNCHANGED <<lock, brk, info, hb, crashes, clockSteps>>

\* ...and the remove.  A remove that fails because the file is gone is retried
\* (up to twenty times) without looking again, so the caller stays here until
\* a file appears at the path or it has used its tries up.
RemoveBreak(p, at) ==
  /\ At(p, at)
  /\ brk' = None
  /\ GiveUp(p)
  /\ UNCHANGED <<lock, info, hb, crashes, clockSteps>>

OrphanRemove(p) == RemoveBreak(p, "brm")

\* The identity of our own break file.
BreakStat(p) ==
  /\ At(p, "bstat")
  /\ IF brk # None
       THEN Goto(p, "judge") /\ binfo' = [binfo EXCEPT ![p] = brk.ino]
       ELSE Goto(p, "bundo") /\ UNCHANGED binfo
  /\ UNCHANGED <<lock, brk, info, hb, crashes, clockSteps>>

\* The stat failed: remove whatever is at the path and give up.
BreakUndo(p) == RemoveBreak(p, "bundo")

\* Mutant: a lock that cannot be parsed yet is dead.
IsStaleUnwritten == lock # None /\ (lock.age > Stale \/ lock.stamp # "past")

\* stale: the file's age decides, and contents only when they parse and claim
\* a time in the future.  A lock that has vanished is not stale.
IsStale == lock # None /\ (lock.age > Stale \/ lock.stamp = "future")

Judge(p) ==
  /\ At(p, "judge")
  /\ Goto(p, IF IsStale THEN "bremove" ELSE "bclean")
  /\ UNCHANGED <<lock, brk, info, binfo, hb, crashes, clockSteps>>

\* os.Remove of the lock, bound to no identity.
BreakLock(p) ==
  /\ At(p, "bremove")
  /\ lock' = None
  /\ Goto(p, "bclean")
  /\ UNCHANGED <<brk, info, binfo, hb, crashes, clockSteps>>

\* The deferred removeIfSame of our own break file.
BreakSame(p) ==
  /\ At(p, "bclean")
  /\ IF SameBreak(p) THEN Goto(p, "bcleanrm") /\ UNCHANGED binfo ELSE GiveUp(p)
  /\ UNCHANGED <<lock, brk, info, hb, crashes, clockSteps>>

BreakClear(p) == RemoveBreak(p, "bcleanrm")

BreakStale(p) ==
  \/ BreakCreate(p) \/ BreakExists(p)
  \/ OrphanStat(p) \/ OrphanSame(p) \/ OrphanRemove(p)
  \/ BreakStat(p) \/ BreakUndo(p) \/ Judge(p) \/ BreakLock(p)
  \/ BreakSame(p) \/ BreakClear(p)

-----------------------------------------------------------------------------
(* release and keepAlive *)

BeginRelease(p) ==
  /\ At(p, "held")
  /\ Goto(p, "stopping")
  /\ UNCHANGED <<lock, brk, info, binfo, hb, crashes, clockSteps>>

\* Release waits for the heartbeat to have returned...
HeartbeatDone(p) ==
  /\ At(p, "stopping")
  /\ hb[p] = "off"
  /\ Goto(p, "relstat")
  /\ UNCHANGED <<lock, brk, info, binfo, hb, crashes, clockSteps>>

\* ...for two seconds, and then goes ahead of one that is stuck mid-tick.
HeartbeatStuck(p) ==
  /\ At(p, "stopping")
  /\ hb[p] = "touch"
  /\ Goto(p, "relstat")
  /\ UNCHANGED <<lock, brk, info, binfo, hb, crashes, clockSteps>>

ReleaseSame(p) ==
  /\ At(p, "relstat")
  /\ Goto(p, IF SameLock(p) THEN "relrm" ELSE "idle")
  /\ UNCHANGED <<lock, brk, info, binfo, hb, crashes, clockSteps>>

ReleaseRemove(p) ==
  /\ At(p, "relrm")
  /\ lock' = None
  /\ Goto(p, "idle")
  /\ UNCHANGED <<brk, info, binfo, hb, crashes, clockSteps>>

\* Mutant: the comparison the wrong way round.
HeartbeatStatStranger(p) ==
  /\ hb[p] = "idle"
  /\ hb' = [hb EXCEPT ![p] = IF SameLock(p) THEN "off" ELSE "touch"]
  /\ UNCHANGED <<pc, lock, brk, info, binfo, crashes, clockSteps>>

\* A tick of the heartbeat: it ends once the file is not ours any more.
HeartbeatStat(p) ==
  /\ hb[p] = "idle"
  /\ hb' = [hb EXCEPT ![p] = IF SameLock(p) THEN "touch" ELSE "off"]
  /\ UNCHANGED <<pc, lock, brk, info, binfo, crashes, clockSteps>>

HeartbeatTouch(p) ==
  /\ hb[p] = "touch"
  /\ hb' = [hb EXCEPT ![p] = "idle"]
  /\ lock' = IF lock # None THEN [lock EXCEPT !.age = 0] ELSE None
  /\ UNCHANGED <<pc, brk, info, binfo, crashes, clockSteps>>

HeartbeatStop(p) ==
  /\ hb[p] = "idle"
  /\ pc[p] # "held"
  /\ hb' = [hb EXCEPT ![p] = "off"]
  /\ UNCHANGED <<pc, lock, brk, info, binfo, crashes, clockSteps>>

Releasing(p) ==
  \/ HeartbeatDone(p) \/ HeartbeatStuck(p)
  \/ ReleaseSame(p) \/ ReleaseRemove(p)
KeepAlive(p) == HeartbeatStat(p) \/ HeartbeatTouch(p) \/ HeartbeatStop(p)

-----------------------------------------------------------------------------
(* The world: processes die, time passes, the wall clock is set back *)

\* The process dies where it is; the caller's slot is the next process's.
Crash(p) ==
  /\ crashes < MaxCrashes
  /\ pc[p] # "idle"
  /\ pc[p] \in CrashPoints
  /\ crashes' = crashes + 1
  /\ lock' = IF lock # None /\ lock.owner = p THEN [lock EXCEPT !.owner = Orphan] ELSE lock
  /\ brk' = IF brk # None /\ brk.owner = p THEN [brk EXCEPT !.owner = Orphan] ELSE brk
  /\ hb' = [hb EXCEPT ![p] = "off"]
  /\ info' = [info EXCEPT ![p] = None]
  /\ binfo' = [binfo EXCEPT ![p] = None]
  /\ Goto(p, "idle")
  /\ UNCHANGED clockSteps

Older(f) == IF f # None /\ f.age <= Stale THEN [f EXCEPT !.age = @ + 1] ELSE f

\* A running heartbeat touches its lock before staleAfter is over, and the few
\* system calls that take or release a lock or a break file end before it too.
Unattended(p) == At(p, "held") /\ hb[p] = "off"
LockPrompt ==
  (lock # None /\ lock.owner \in Procs /\ ~Unattended(lock.owner)) => lock.age < Stale
BreakPrompt == (brk # None /\ brk.owner \in Procs) => brk.age < Stale

Tick ==
  /\ LockPrompt
  /\ BreakPrompt
  /\ \/ lock # None /\ (lock.age <= Stale \/ lock.stamp = "future")
     \/ brk # None /\ brk.age <= Stale
  /\ lock' = IF lock # None /\ lock.stamp = "future"
               THEN [Older(lock) EXCEPT !.stamp = "past"] ELSE Older(lock)
  /\ brk' = Older(brk)
  /\ UNCHANGED <<pc, info, binfo, hb, crashes, clockSteps>>

\* The wall clock is set back behind a recorded time: every file is young
\* again, and the record lies in the future until the clock catches up.
ClockStepsBack ==
  /\ clockSteps < MaxClockSteps
  /\ lock # None /\ lock.stamp = "past"
  /\ clockSteps' = clockSteps + 1
  /\ lock' = [lock EXCEPT !.age = 0, !.stamp = "future"]
  /\ brk' = IF brk # None THEN [brk EXCEPT !.age = 0] ELSE None
  /\ UNCHANGED <<pc, info, binfo, hb, crashes>>

\* The goroutine that calls Lock and then releases.
Caller(p) == Start(p) \/ Acquiring(p) \/ BreakStale(p) \/ BeginRelease(p) \/ Releasing(p)

Next ==
  \/ \E p \in Procs : Caller(p) \/ KeepAlive(p) \/ Crash(p)
  \/ Tick
  \/ ClockStepsBack

Spec == Init /\ [][Next]_vars

(***************************************************************************)
(* Goroutines run, time passes, every caller of Lock releases (a defer in  *)
(* all of them), there is always a next caller, a create that is tried     *)
(* again and again is not refused for want of permission every time, a     *)
(* stat behind a create does not lose to another remove every time, and a  *)
(* select whose stop channel stays closed does not choose its ticker for   *)
(* ever.                                                                   *)
(***************************************************************************)
Fairness ==
  /\ WF_vars(Tick)
  /\ \A p \in Procs :
       /\ WF_vars(Caller(p)) /\ WF_vars(KeepAlive(p))
       /\ SF_vars(LockExists(p)) /\ SF_vars(BreakStat(p) /\ brk # None)
       /\ SF_vars(HeartbeatStop(p))

FairSpec == Spec /\ Fairness

-----------------------------------------------------------------------------
(* Properties *)

TypeOK ==
  /\ pc \in [Procs -> PCs]
  /\ lock \in LockFile \cup {None}
  /\ brk \in BreakFile \cup {None}
  /\ info \in [Procs -> Inodes \cup {None}]
  /\ binfo \in [Procs -> Inodes \cup {None}]
  /\ hb \in [Procs -> {"off", "idle", "touch"}]
  /\ crashes \in 0 .. MaxCrashes
  /\ clockSteps \in 0 .. MaxClockSteps

\* "Lock takes an exclusive lock": no two callers are between the return of
\* Lock and their release at once.
MutualExclusion ==
  \A p, q \in Procs : At(p, "held") /\ At(q, "held") => p = q

\* The lock file a running caller created stays at the path until that caller
\* itself removes it: neither a breaker nor another caller's release takes it.
HolderKeepsFile ==
  \A p \in Procs : pc[p] \in Owning => lock # None /\ lock.owner = p

\* Judging a lock stale and removing it is done by one caller at a time.
OneBreaker ==
  \A p, q \in Procs : pc[p] \in Breaking /\ pc[q] \in Breaking => p = q

\* The lock of a dead process does not stay in the way for ever, not even
\* when the process that was breaking it has died too.
OrphanedLockIsCleared ==
  (lock # None /\ lock.owner = Orphan) ~> (lock = None \/ lock.owner # Orphan)

\* What the callers of Lock see: whoever has the file is inside, one at a
\* time, until it leaves or dies, and nobody gets in over a dead holder's file.
Service == INSTANCE LockService WITH
  inside <- {p \in Procs : pc[p] \in Owning},
  dead <- lock # None /\ lock.owner = Orphan
ImplementsLockService == Service!Spec
=============================================================================
