---------------------------- MODULE StoreProofs ----------------------------
(***************************************************************************)
(* The lockfile of one path, what is written under it, and callers that    *)
(* take several, for any number of callers, writers, texts and paths.      *)
(*                                                                         *)
(* The protocol excludes as long as no process dies inside breakStale and  *)
(* the wall clock is not set back (StoreLock_orphan_break.cfg shows what a *)
(* death there can do). Of the writes: the lock lets one writer name a     *)
(* file at a time; what it names is whole and flushed; and a caller is     *)
(* told "made" only when a power failure can leave nothing else at the     *)
(* path. Callers that take the locks of several paths never wait for each  *)
(* other in a circle, for any finite set of paths.                         *)
(***************************************************************************)
EXTENDS StoreLock, StoreWrite, LockOrder, FiniteSetTheorems, WellFoundedInduction, TLAPS

-----------------------------------------------------------------------------
(* The lockfile protocol *)

\* A lock file names a caller only while that caller has it, and such a file
\* is fresh: the heartbeat, or the shortness of the calls around it, sees to it.
LockIsOwned ==
  lock # None =>
    /\ lock.stamp # "future"
    /\ lock.owner \in Procs => pc[lock.owner] \in Owning /\ lock.age <= Stale

\* A holder knows its file by the right identity and keeps it alive.
HolderKnowsFile ==
  \A p \in Procs :
    /\ pc[p] \in {"held", "stopping", "relstat", "relrm"} => info[p] = lock.ino
    /\ pc[p] = "held" => hb[p] # "off"

\* The break file is where its breaker put it, and is never litter.
BreakerKeepsFile ==
  /\ \A p \in Procs : pc[p] \in Breaking => brk # None /\ brk.owner = p
  /\ brk # None => brk.owner \in Procs /\ pc[brk.owner] \in Breaking /\ brk.age <= Stale
  /\ \A p \in Procs : pc[p] \in {"judge", "bremove", "bclean", "bcleanrm"} => binfo[p] = brk.ino
  /\ \A p \in Procs : pc[p] \notin {"bsame", "brm", "bundo"}

\* What was judged stale is a dead process's lock until the breaker removes it.
JudgedIsDead ==
  \A p \in Procs : pc[p] = "bremove" => lock # None /\ lock.owner = Orphan

IInv ==
  /\ TypeOK /\ HolderKeepsFile
  /\ LockIsOwned /\ HolderKnowsFile /\ BreakerKeepsFile /\ JudgedIsDead

-----------------------------------------------------------------------------
(* The invariant holds at first, and every step keeps it. *)

LEMMA InitIInv == Init => IInv
  BY BoundsAssumption
  DEF Init, IInv, TypeOK, HolderKeepsFile, LockIsOwned, HolderKnowsFile, BreakerKeepsFile,
      JudgedIsDead, PCs, Owning, Breaking

\* A caller taking the lock.
LEMMA AcquiringKeepsIInv == ASSUME IInv, NEW p \in Procs, Acquiring(p) PROVE IInv'
  <1> USE StaleAssumption, BoundsAssumption, NamesAssumption, FilesAssumption
      DEF IInv, TypeOK, HolderKeepsFile, LockIsOwned, HolderKnowsFile, BreakerKeepsFile,
          JudgedIsDead, PCs, Owning, Breaking, Clearing, LockFile, BreakFile, Ages, Goto, At
  <1>1. CASE CreateLock(p)
    BY <1>1 DEF CreateLock, FreeInodes
  <1>2. CASE LockExists(p)
    BY <1>2 DEF LockExists
  <1>3. CASE CreateRefused(p)
    BY <1>3 DEF CreateRefused
  <1>4. CASE WriteStamp(p)
    <2>1. lock # None /\ lock.owner = p
      BY <1>4 DEF WriteStamp
    <2>2. lock' = [[lock EXCEPT !.stamp = "past"] EXCEPT !.age = 0]
      BY <1>4, <2>1 DEF WriteStamp
    <2> DEFINE written == [lock EXCEPT !.stamp = "past"]
    <2>3. written \in LockFile /\ written.owner = p /\ written.ino = lock.ino /\ written.stamp = "past"
      BY <2>1
    <2>4. lock' = [written EXCEPT !.age = 0]
      BY <2>2
    <2> HIDE DEF written
    <2>5. lock' \in LockFile /\ lock'.owner = p /\ lock'.ino = lock.ino
      BY <2>3, <2>4
    <2>6. lock'.stamp = "past" /\ lock'.age = 0
      BY <2>3, <2>4
    <2>7. pc[p] = "stamp" /\ pc' = [pc EXCEPT ![p] = "stat"]
      BY <1>4 DEF WriteStamp
    <2>8. UNCHANGED <<brk, info, binfo, hb, crashes, clockSteps>>
      BY <1>4 DEF WriteStamp
    <2>. QED  BY <2>1, <2>5, <2>6, <2>7, <2>8
  <1>5. CASE WriteFails(p)
    BY <1>5 DEF WriteFails
  <1>6. CASE StatLock(p)
    BY <1>6 DEF StatLock
  <1>7. CASE StatFails(p)
    BY <1>7 DEF StatFails
  <1>8. CASE Abandon(p)
    BY <1>8 DEF Abandon
  <1>9. CASE Retry(p)
    BY <1>9 DEF Retry
  <1>10. CASE TimeOut(p)
    BY <1>10 DEF TimeOut
  <1>. QED  BY <1>1, <1>2, <1>3, <1>4, <1>5, <1>6, <1>7, <1>8, <1>9, <1>10 DEF Acquiring

\* A caller breaking a lock it found in its way.
LEMMA BreakingKeepsIInv == ASSUME IInv, NEW p \in Procs, BreakStale(p) PROVE IInv'
  <1> USE StaleAssumption, BoundsAssumption, NamesAssumption, FilesAssumption
      DEF IInv, TypeOK, HolderKeepsFile, LockIsOwned, HolderKnowsFile, BreakerKeepsFile,
          JudgedIsDead, PCs, Owning, Breaking, Clearing, LockFile, BreakFile, Ages, Goto, At
  <1>1. CASE BreakCreate(p)
    BY <1>1 DEF BreakCreate, FreeInodes
  <1>2. CASE BreakExists(p)
    BY <1>2 DEF BreakExists
  <1>3. CASE OrphanStat(p)
    BY <1>3 DEF OrphanStat, GiveUp
  <1>4. CASE OrphanSame(p)
    BY <1>4 DEF OrphanSame, GiveUp, SameBreak
  <1>5. CASE OrphanRemove(p)
    BY <1>5 DEF OrphanRemove, RemoveBreak, GiveUp
  <1>6. CASE BreakStat(p)
    BY <1>6 DEF BreakStat
  <1>7. CASE BreakUndo(p)
    BY <1>7 DEF BreakUndo, RemoveBreak, GiveUp
  <1>8. CASE Judge(p)
    BY <1>8 DEF Judge, IsStale
  <1>9. CASE BreakLock(p)
    BY <1>9 DEF BreakLock
  <1>10. CASE BreakSame(p)
    BY <1>10 DEF BreakSame, GiveUp, SameBreak
  <1>11. CASE BreakClear(p)
    BY <1>11 DEF BreakClear, RemoveBreak, GiveUp
  <1>. QED  BY <1>1, <1>2, <1>3, <1>4, <1>5, <1>6, <1>7, <1>8, <1>9, <1>10, <1>11 DEF BreakStale

\* A caller coming and going, and its heartbeat.
LEMMA HoldingKeepsIInv == ASSUME IInv, NEW p \in Procs, Start(p) \/ BeginRelease(p) \/ Releasing(p) \/ KeepAlive(p) PROVE IInv'
  <1> USE StaleAssumption, BoundsAssumption, NamesAssumption, FilesAssumption
      DEF IInv, TypeOK, HolderKeepsFile, LockIsOwned, HolderKnowsFile, BreakerKeepsFile,
          JudgedIsDead, PCs, Owning, Breaking, Clearing, LockFile, BreakFile, Ages, Goto, At
  <1>1. CASE Start(p)
    BY <1>1 DEF Start
  <1>2. CASE BeginRelease(p)
    BY <1>2 DEF BeginRelease
  <1>3. CASE HeartbeatDone(p)
    BY <1>3 DEF HeartbeatDone
  <1>4. CASE HeartbeatStuck(p)
    BY <1>4 DEF HeartbeatStuck
  <1>5. CASE ReleaseSame(p)
    BY <1>5 DEF ReleaseSame, SameLock
  <1>6. CASE ReleaseRemove(p)
    BY <1>6 DEF ReleaseRemove
  <1>7. CASE HeartbeatStat(p)
    BY <1>7 DEF HeartbeatStat, SameLock
  <1>8. CASE HeartbeatTouch(p)
    BY <1>8 DEF HeartbeatTouch
  <1>9. CASE HeartbeatStop(p)
    BY <1>9 DEF HeartbeatStop
  <1>. QED  BY <1>1, <1>2, <1>3, <1>4, <1>5, <1>6, <1>7, <1>8, <1>9 DEF Releasing, KeepAlive

\* A process dies, but not inside breakStale.
LEMMA CrashKeepsIInv ==
  ASSUME CrashPoints \cap Breaking = {}, IInv, NEW p \in Procs, Crash(p) PROVE IInv'
  BY StaleAssumption, BoundsAssumption, NamesAssumption, FilesAssumption
  DEF Crash, IInv, TypeOK, HolderKeepsFile, LockIsOwned, HolderKnowsFile, BreakerKeepsFile,
          JudgedIsDead, PCs, Owning, Breaking, Clearing, LockFile, BreakFile, Ages, Goto, At

\* Time passes.
LEMMA TickKeepsIInv == ASSUME IInv, Tick PROVE IInv'
  BY StaleAssumption, BoundsAssumption, NamesAssumption, FilesAssumption
  DEF Tick, Older, LockPrompt, BreakPrompt, Unattended, IInv, TypeOK, HolderKeepsFile, LockIsOwned, HolderKnowsFile, BreakerKeepsFile,
          JudgedIsDead, PCs, Owning, Breaking, Clearing, LockFile, BreakFile, Ages, Goto, At

LEMMA NextKeepsIInv ==
  ASSUME CrashPoints \cap Breaking = {}, MaxClockSteps = 0, IInv, [Next]_vars PROVE IInv'
  <1>1. ASSUME NEW p \in Procs, Caller(p) \/ KeepAlive(p) PROVE IInv'
    BY <1>1, AcquiringKeepsIInv, BreakingKeepsIInv, HoldingKeepsIInv DEF Caller
  <1>2. ASSUME NEW p \in Procs, Crash(p) PROVE IInv'
    BY <1>2, CrashKeepsIInv
  <1>3. CASE Tick
    BY <1>3, TickKeepsIInv
  <1>4. ~ClockStepsBack
    BY DEF ClockStepsBack, IInv, TypeOK
  <1>5. CASE UNCHANGED vars
    BY <1>5 DEF vars, IInv, TypeOK, HolderKeepsFile, LockIsOwned, HolderKnowsFile,
                BreakerKeepsFile, JudgedIsDead
  <1>. QED  BY <1>1, <1>2, <1>3, <1>4, <1>5 DEF Next

-----------------------------------------------------------------------------
(* What follows from it. *)

\* Every part of the state stays in its range.
THEOREM Typed ==
  ASSUME CrashPoints \cap Breaking = {}, MaxClockSteps = 0 PROVE Spec => []TypeOK
  <1>1. IInv => TypeOK
    BY DEF IInv
  <1>2. IInv /\ [Next]_vars => IInv'
    BY NextKeepsIInv
  <1>. QED  BY InitIInv, <1>1, <1>2, PTL DEF Spec

\* "Lock takes an exclusive lock": no two callers hold it at once.
THEOREM Exclusive ==
  ASSUME CrashPoints \cap Breaking = {}, MaxClockSteps = 0 PROVE Spec => []MutualExclusion
  <1>1. IInv => MutualExclusion
    BY DEF IInv, HolderKeepsFile, MutualExclusion, Owning, At
  <1>2. IInv /\ [Next]_vars => IInv'
    BY NextKeepsIInv
  <1>. QED  BY InitIInv, <1>1, <1>2, PTL DEF Spec

\* Nobody but its creator removes the lock file of a running process.
THEOREM FileKept ==
  ASSUME CrashPoints \cap Breaking = {}, MaxClockSteps = 0 PROVE Spec => []HolderKeepsFile
  <1>1. IInv => HolderKeepsFile
    BY DEF IInv
  <1>2. IInv /\ [Next]_vars => IInv'
    BY NextKeepsIInv
  <1>. QED  BY InitIInv, <1>1, <1>2, PTL DEF Spec

\* Two callers are never inside breakStale's removal together.
THEOREM SingleBreaker ==
  ASSUME CrashPoints \cap Breaking = {}, MaxClockSteps = 0 PROVE Spec => []OneBreaker
  <1>1. IInv => OneBreaker
    BY DEF IInv, BreakerKeepsFile, OneBreaker
  <1>2. IInv /\ [Next]_vars => IInv'
    BY NextKeepsIInv
  <1>. QED  BY InitIInv, <1>1, <1>2, PTL DEF Spec

-----------------------------------------------------------------------------
(* The protocol implements the service. *)

Inside == {p \in Procs : pc[p] \in Owning}
Dead == lock # None /\ lock.owner = Orphan

\* Going from one program point to another on the same side of the lock.
LEMMA SameSide ==
  ASSUME TypeOK, NEW p \in Procs, NEW l \in PCs, Goto(p, l), l \in Owning <=> pc[p] \in Owning
  PROVE  Inside' = Inside
  BY DEF TypeOK, Goto, Inside

\* Crossing it.
LEMMA ComingIn ==
  ASSUME TypeOK, NEW p \in Procs, NEW l \in Owning, Goto(p, l)
  PROVE  Inside' = Inside \cup {p}
  BY DEF TypeOK, Goto, Inside, PCs

LEMMA GoingOut ==
  ASSUME TypeOK, NEW p \in Procs, NEW l \in PCs \ Owning, Goto(p, l)
  PROVE  Inside' = Inside \ {p}
  BY DEF TypeOK, Goto, Inside, PCs

\* A file that only ages keeps its owner.
LEMMA AgeAlone ==
  ASSUME NEW f \in LockFile, NEW a \in Ages
  PROVE  [f EXCEPT !.age = a] \in LockFile /\ [f EXCEPT !.age = a].owner = f.owner
  BY DEF LockFile

\* A caller taking the lock.
LEMMA AcquiringImplements ==
  ASSUME IInv, NEW p \in Procs, Acquiring(p) PROVE [Service!Next]_<<Inside, Dead>>
  <1> USE NamesAssumption, FilesAssumption DEF IInv
  <1>. TypeOK
    OBVIOUS
  <1>1. CASE CreateLock(p)
    <2>1. Inside = {} /\ ~Dead
      BY <1>1 DEF CreateLock, HolderKeepsFile, Inside, Dead
    <2>2. Inside' = {p}
      BY <1>1, <2>1, ComingIn DEF CreateLock, Owning
    <2>3. ~Dead'
      BY <1>1 DEF CreateLock, Dead
    <2>. QED  BY <2>1, <2>2, <2>3 DEF Service!Next, Service!Acquire, Inside, Dead
  <1>2. CASE LockExists(p) \/ CreateRefused(p) \/ WriteFails(p) \/ StatLock(p) \/ StatFails(p)
             \/ Retry(p) \/ TimeOut(p)
    <2>1. Inside' = Inside
      BY <1>2, SameSide DEF LockExists, CreateRefused, WriteFails, StatLock, StatFails, Retry,
         TimeOut, At, Owning, PCs, Breaking, Clearing
    <2>2. Dead' = Dead
      BY <1>2 DEF LockExists, CreateRefused, WriteFails, StatLock, StatFails, Retry, TimeOut, Dead
    <2>. QED  BY <2>1, <2>2
  <1>3. CASE WriteStamp(p)
    <2>1. Inside' = Inside
      BY <1>3, SameSide DEF WriteStamp, At, Owning, PCs
    <2>2. Dead' = Dead
      BY <1>3 DEF WriteStamp, Dead, TypeOK, LockFile
    <2>. QED  BY <2>1, <2>2
  <1>4. CASE Abandon(p)
    <2>1. p \in Inside /\ ~Dead
      BY <1>4 DEF Abandon, At, HolderKeepsFile, Owning, Inside, Dead
    <2>2. Inside' = Inside \ {p}
      BY <1>4, GoingOut DEF Abandon, Owning, PCs
    <2>3. ~Dead'
      BY <1>4 DEF Abandon, Dead
    <2>. QED  BY <2>1, <2>2, <2>3 DEF Service!Next, Service!Release, Inside, Dead
  <1>. QED  BY <1>1, <1>2, <1>3, <1>4 DEF Acquiring

\* A caller breaking a lock: what it removes is a dead process's.
LEMMA BreakingImplements ==
  ASSUME IInv, NEW p \in Procs, BreakStale(p) PROVE [Service!Next]_<<Inside, Dead>>
  <1> USE NamesAssumption, FilesAssumption DEF IInv
  <1>. TypeOK
    OBVIOUS
  <1>0. Inside' = Inside
    <2>1. CASE BreakCreate(p) \/ BreakExists(p) \/ OrphanStat(p) \/ OrphanSame(p)
               \/ OrphanRemove(p)
      BY <2>1, SameSide DEF BreakCreate, BreakExists, OrphanStat, OrphanSame, OrphanRemove,
         RemoveBreak, GiveUp, At, Owning, PCs, Breaking, Clearing
    <2>2. CASE BreakStat(p) \/ BreakUndo(p) \/ Judge(p) \/ BreakLock(p) \/ BreakSame(p)
               \/ BreakClear(p)
      BY <2>2, SameSide DEF BreakStat, BreakUndo, Judge, BreakLock, BreakSame, BreakClear,
         RemoveBreak, GiveUp, At, Owning, PCs, Breaking, Clearing
    <2>. QED  BY <2>1, <2>2 DEF BreakStale
  <1>1. CASE BreakLock(p)
    <2>1. Dead /\ ~Dead'
      BY <1>1 DEF BreakLock, At, JudgedIsDead, Dead
    <2>. QED  BY <1>0, <2>1 DEF Service!Next, Service!Reclaim, Inside, Dead
  <1>2. CASE ~BreakLock(p)
    <2>1. UNCHANGED lock
      BY <1>2 DEF BreakStale, BreakCreate, BreakExists, OrphanStat, OrphanSame, OrphanRemove,
         BreakStat, BreakUndo, Judge, BreakSame, BreakClear, RemoveBreak
    <2>. QED  BY <1>0, <2>1 DEF Dead
  <1>. QED  BY <1>1, <1>2

\* A caller coming and going, and its heartbeat.
LEMMA HoldingImplements ==
  ASSUME IInv, NEW p \in Procs, Start(p) \/ BeginRelease(p) \/ Releasing(p) \/ KeepAlive(p)
  PROVE  [Service!Next]_<<Inside, Dead>>
  <1> USE NamesAssumption, FilesAssumption DEF IInv
  <1>. TypeOK
    OBVIOUS
  <1>1. CASE ReleaseRemove(p)
    <2>1. p \in Inside /\ ~Dead
      BY <1>1 DEF ReleaseRemove, At, HolderKeepsFile, Owning, Inside, Dead
    <2>2. Inside' = Inside \ {p}
      BY <1>1, GoingOut DEF ReleaseRemove, Owning, PCs
    <2>3. ~Dead'
      BY <1>1 DEF ReleaseRemove, Dead
    <2>. QED  BY <2>1, <2>2, <2>3 DEF Service!Next, Service!Release, Inside, Dead
  <1>2. CASE ReleaseSame(p)
    <2>1. SameLock(p)
      BY <1>2 DEF ReleaseSame, At, SameLock, HolderKeepsFile, HolderKnowsFile, Owning
    <2>2. Inside' = Inside
      BY <1>2, <2>1, SameSide DEF ReleaseSame, At, Owning, PCs
    <2>. QED  BY <1>2, <2>2 DEF ReleaseSame, Dead
  <1>3. CASE Start(p) \/ BeginRelease(p) \/ HeartbeatDone(p) \/ HeartbeatStuck(p)
    <2>1. Inside' = Inside
      BY <1>3, SameSide DEF Start, BeginRelease, HeartbeatDone, HeartbeatStuck, At, Owning, PCs
    <2>. QED  BY <1>3, <2>1 DEF Start, BeginRelease, HeartbeatDone, HeartbeatStuck, Dead
  <1>4. CASE KeepAlive(p)
    <2>1. Inside' = Inside
      BY <1>4 DEF KeepAlive, HeartbeatStat, HeartbeatTouch, HeartbeatStop, Inside
    <2>2. Dead' = Dead
      <3>1. CASE lock = None
        BY <1>4, <3>1 DEF KeepAlive, HeartbeatStat, HeartbeatTouch, HeartbeatStop, Dead
      <3>2. CASE lock # None
        <4>1. lock \in LockFile /\ 0 \in Ages
          BY <3>2, StaleAssumption DEF TypeOK, Ages
        <4>2. lock' = lock \/ lock' = [lock EXCEPT !.age = 0]
          BY <1>4, <3>2 DEF KeepAlive, HeartbeatStat, HeartbeatTouch, HeartbeatStop
        <4>3. lock' # None /\ lock'.owner = lock.owner
          BY <3>2, <4>1, <4>2, AgeAlone
        <4>. QED  BY <3>2, <4>3 DEF Dead
      <3>. QED  BY <3>1, <3>2
    <2>. QED  BY <2>1, <2>2
  <1>. QED  BY <1>1, <1>2, <1>3, <1>4 DEF Releasing

\* A process dying, with or without the lock.
LEMMA CrashImplements ==
  ASSUME IInv, NEW p \in Procs, Crash(p) PROVE [Service!Next]_<<Inside, Dead>>
  <1> USE NamesAssumption, FilesAssumption DEF IInv
  <1>1. TypeOK /\ Inside' = Inside \ {p}
    BY GoingOut DEF Crash, Owning, PCs
  <1>2. CASE pc[p] \in Owning
    <2>1. p \in Inside /\ lock # None /\ lock.owner = p
      BY <1>2 DEF HolderKeepsFile, Inside
    <2>2. lock' = [lock EXCEPT !.owner = Orphan]
      BY <2>1 DEF Crash
    <2>3. Dead'
      BY <1>1, <2>1, <2>2 DEF Dead, TypeOK, LockFile
    <2>. QED  BY <1>1, <2>1, <2>3 DEF Service!Next, Service!Die, Inside, Dead
  <1>3. CASE pc[p] \notin Owning
    <2>1. UNCHANGED lock
      BY <1>3 DEF Crash, LockIsOwned
    <2>2. Inside' = Inside
      BY <1>1, <1>3 DEF Inside
    <2>. QED  BY <2>1, <2>2 DEF Dead
  <1>. QED  BY <1>2, <1>3

\* Time passing.
LEMMA TickImplements == ASSUME IInv, Tick PROVE UNCHANGED <<Inside, Dead>>
  <1>1. Inside' = Inside
    BY DEF Tick, Inside
  <1>2. CASE lock = None
    BY <1>1, <1>2 DEF Tick, Older, Dead
  <1>3. CASE lock # None
    <2>1. lock \in LockFile /\ lock.age \in Ages /\ lock.stamp # "future"
      BY <1>3 DEF IInv, TypeOK, LockIsOwned, LockFile
    <2>2. \/ lock' = lock
         \/ (lock.age <= Stale /\ lock' = [lock EXCEPT !.age = lock.age + 1])
      BY <1>3, <2>1 DEF Tick, Older
    <2>3. lock.age <= Stale => lock.age + 1 \in Ages
      BY <2>1, StaleAssumption DEF Ages
    <2>4. lock' # None /\ lock'.owner = lock.owner
      BY <1>3, <2>1, <2>2, <2>3, AgeAlone, FilesAssumption
    <2>. QED  BY <1>1, <1>3, <2>4 DEF Dead
  <1>. QED  BY <1>2, <1>3

LEMMA NextImplements ==
  ASSUME MaxClockSteps = 0, IInv, [Next]_vars PROVE [Service!Next]_<<Inside, Dead>>
  <1>1. ASSUME NEW p \in Procs, Caller(p) \/ KeepAlive(p) PROVE [Service!Next]_<<Inside, Dead>>
    BY <1>1, AcquiringImplements, BreakingImplements, HoldingImplements DEF Caller
  <1>2. ASSUME NEW p \in Procs, Crash(p) PROVE [Service!Next]_<<Inside, Dead>>
    BY <1>2, CrashImplements
  <1>3. CASE Tick
    BY <1>3, TickImplements
  <1>4. ~ClockStepsBack
    BY DEF ClockStepsBack, IInv, TypeOK
  <1>5. CASE UNCHANGED vars
    BY <1>5 DEF vars, Inside, Dead
  <1>. QED  BY <1>1, <1>2, <1>3, <1>4, <1>5 DEF Next

\* The lockfiles give their callers the lock LockService describes.
THEOREM Implements ==
  ASSUME CrashPoints \cap Breaking = {}, MaxClockSteps = 0 PROVE Spec => ImplementsLockService
  <1>1. Init => Service!Init
    BY DEF Init, Service!Init, Owning
  <1>2. IInv /\ [Next]_vars => IInv'
    BY NextKeepsIInv
  <1>3. IInv /\ [Next]_vars => [Service!Next]_(Service!vars)
    BY NextImplements DEF Service!vars, Inside, Dead
  <1>. QED  BY InitIInv, <1>1, <1>2, <1>3, PTL DEF Spec, ImplementsLockService, Service!Spec

-----------------------------------------------------------------------------
(* Writes *)

\* Where a writer has the lock.
Section == {"stage", "write", "flush", "rename", "undo", "flush_name", "sweep", "give_back", "give_back_failed", "append"}
WriteSteps == Section \cup {"idle", "lock", "append_lock"}

WTypes ==
  /\ inside \subseteq Writers /\ dead \in BOOLEAN
  /\ step \in [Writers -> WriteSteps]
  /\ text \in [Writers -> Texts \cup {Missing}]
  /\ temp \in [Writers -> Staged \cup {Missing}] /\ litter \subseteq Staged
  /\ target \in File \cup {Missing} /\ onDisk \subseteq File \cup {Missing}
  /\ told \in [Texts -> {"nothing", "made", "not made", "no answer"}]
  /\ deaths \in 0 .. MaxDeaths

\* The lock's service keeps the section to one writer.
OneInside ==
  /\ \A p \in Writers : step[p] \in Section <=> p \in inside
  /\ \A p, q \in inside : p = q

\* A text is one writer's until its caller is told.
OneText ==
  \A p \in Writers :
    /\ step[p] \in {"lock", "stage", "write", "flush", "rename", "undo", "flush_name", "sweep"} => text[p] # Missing
    /\ text[p] # Missing => told[text[p]] = "nothing" /\ step[p] \notin {"idle", "append_lock", "append"}
    /\ \A q \in Writers : text[p] # Missing /\ text[p] = text[q] => p = q

\* A staged file is whole before its flush, and flushed before its name moves.
StagedWhole ==
  \A p \in Writers : temp[p] # Missing =>
    /\ temp[p].text = text[p] /\ step[p] \in {"write", "flush", "rename", "undo"}
    /\ step[p] \in {"flush", "rename"} => temp[p].state = "whole"
    /\ step[p] = "rename" => temp[p].flushed

Named(p) == text[p] # Missing /\ step[p] \in {"flush_name", "sweep", "give_back"}

\* What a power failure may leave at the path.
Sound(f) == f # Missing =>
  /\ f.state = "whole" /\ f.flushed /\ told[f.text] # "not made"
  /\ told[f.text] = "nothing" => \E p \in Writers : Named(p) /\ text[p] = f.text

Settled ==
  /\ target \in onDisk /\ \A f \in onDisk : Sound(f)
  /\ \A p \in Writers : Named(p) =>
       target # Missing /\ target.text = text[p] /\ (step[p] # "flush_name" => onDisk = {target})
  /\ target # Missing /\ told[target.text] = "made" => onDisk = {target}

IWrite == WTypes /\ OneInside /\ OneText /\ StagedWhole /\ Settled

-----------------------------------------------------------------------------
NamedSteps == {"flush_name", "sweep", "give_back"}
SaveSteps == {"lock", "stage", "write", "flush", "rename", "undo", "flush_name", "sweep"}
AppendSteps == {"idle", "append_lock", "append"}
TempSteps == {"write", "flush", "rename", "undo"}

LEMMA WriteStarts == WriteInit => IWrite
<1> SUFFICES ASSUME WriteInit PROVE IWrite
  OBVIOUS
<1> USE DEF WriteInit
<1>1. WTypes
  <2>1. inside \subseteq Writers /\ dead \in BOOLEAN /\ litter \subseteq Staged
    BY DEF Lock!Init
  <2>2. step \in [Writers -> WriteSteps]
    BY DEF WriteSteps
  <2>3. deaths \in 0 .. MaxDeaths
    BY WriteAssumption
  <2>4. text \in [Writers -> Texts \cup {Missing}] /\ temp \in [Writers -> Staged \cup {Missing}]
    OBVIOUS
  <2>5. told \in [Texts -> {"nothing", "made", "not made", "no answer"}]
    OBVIOUS
  <2> QED BY <2>1, <2>2, <2>3, <2>4, <2>5 DEF WTypes
<1>2. OneInside /\ OneText /\ StagedWhole
  BY DEF OneInside, OneText, StagedWhole, Lock!Init, Section
<1>3. Settled
  BY DEF Settled, Named, Sound
<1> QED BY <1>1, <1>2, <1>3 DEF IWrite

\* What may be at the path stays as it is while nobody names a file there.
LEMMA SettledKept ==
  ASSUME Settled, UNCHANGED <<target, onDisk, told>>,
         \A q \in Writers : Named(q)' = Named(q) /\ (Named(q) => text'[q] = text[q]),
         \A q \in Writers : Named(q) /\ step'[q] # "flush_name" => onDisk = {target}
  PROVE  Settled'
<1>1. ASSUME NEW f \in onDisk PROVE Sound(f)'
  <2>1. Sound(f)
    BY DEF Settled
  <2> QED BY <2>1 DEF Sound
<1> QED BY <1>1 DEF Settled

\* A step that moves one writer on, with its staged file...
Moves(p, s, t) ==
  /\ step' = [step EXCEPT ![p] = s] /\ temp' = [temp EXCEPT ![p] = t]
  /\ UNCHANGED <<inside, dead, text, litter, target, onDisk, told, deaths>>

\* ...to where the two belong.
Fits(p, s, t) ==
  /\ s \in WriteSteps /\ t \in Staged \cup {Missing}
  /\ (step[p] \in Section) = (s \in Section)
  /\ text[p] # Missing => s \notin AppendSteps /\ (step[p] \in NamedSteps) = (s \in NamedSteps)
  /\ text[p] # Missing /\ s \in {"sweep", "give_back"} => onDisk = {target}
  /\ s \in SaveSteps => text[p] # Missing
  /\ t # Missing => /\ t.text = text[p] /\ s \in TempSteps
                    /\ s \in {"flush", "rename"} => t.state = "whole"
                    /\ s = "rename" => t.flushed

LEMMA WriterMoves ==
  ASSUME IWrite, NEW p \in Writers, NEW s, NEW t, Moves(p, s, t), Fits(p, s, t)
  PROVE  IWrite'
<1> USE DEF Moves, Fits
<1>1. WTypes'
  BY DEF IWrite, WTypes
<1>2. OneInside'
  BY DEF IWrite, WTypes, OneInside
<1>3. OneText'
  BY DEF IWrite, WTypes, OneText, SaveSteps, AppendSteps
<1>4. StagedWhole'
  BY DEF IWrite, WTypes, StagedWhole, TempSteps
<1>5. \A q \in Writers : Named(q)' = Named(q) /\ (Named(q) => text'[q] = text[q])
  BY DEF IWrite, WTypes, Named, NamedSteps
<1>6. \A q \in Writers : Named(q) /\ step'[q] # "flush_name" => onDisk = {target}
  BY DEF IWrite, WTypes, Named, NamedSteps, Settled
<1>7. Settled'
  BY <1>5, <1>6, SettledKept DEF IWrite
<1> QED BY <1>1, <1>2, <1>3, <1>4, <1>7 DEF IWrite

-----------------------------------------------------------------------------
(* The steps of one writer *)

\* What a writer has, and where it is.
LEMMA Own ==
  ASSUME IWrite, NEW p \in Writers
  PROVE  /\ step[p] \in WriteSteps
         /\ text[p] \in Texts \cup {Missing} /\ temp[p] \in Staged \cup {Missing}
         /\ temp = [temp EXCEPT ![p] = temp[p]]
         /\ step[p] \in SaveSteps => text[p] \in Texts /\ text[p] # Missing
         /\ text[p] # Missing => step[p] \notin AppendSteps
         /\ temp[p] # Missing => /\ temp[p].text = text[p] /\ step[p] \in TempSteps
                                 /\ step[p] \in {"flush", "rename"} => temp[p].state = "whole"
                                 /\ step[p] = "rename" => temp[p].flushed
<1>1. /\ step[p] \in WriteSteps
      /\ text[p] \in Texts \cup {Missing} /\ temp[p] \in Staged \cup {Missing}
      /\ temp = [temp EXCEPT ![p] = temp[p]]
  BY DEF IWrite, WTypes
<1>2. /\ step[p] \in SaveSteps => text[p] # Missing
      /\ text[p] # Missing => step[p] \notin AppendSteps
  BY DEF IWrite, OneText, SaveSteps, AppendSteps
<1>3. temp[p] # Missing => /\ temp[p].text = text[p] /\ step[p] \in TempSteps
                           /\ step[p] \in {"flush", "rename"} => temp[p].state = "whole"
                           /\ step[p] = "rename" => temp[p].flushed
  BY DEF IWrite, StagedWhole, TempSteps
<1> QED BY <1>1, <1>2, <1>3

LEMMA StagingSteps ==
  ASSUME IWrite, NEW p \in Writers,
         StageFile(p) \/ WriteData(p) \/ Flush(p) \/ RenameFails(p) \/ Undo(p)
  PROVE  \E s, t : Moves(p, s, t) /\ Fits(p, s, t)
<1>0. /\ step[p] \in WriteSteps
      /\ text[p] \in Texts \cup {Missing} /\ temp[p] \in Staged \cup {Missing}
      /\ temp = [temp EXCEPT ![p] = temp[p]]
      /\ step[p] \in SaveSteps => text[p] \in Texts /\ text[p] # Missing
      /\ temp[p] # Missing => /\ temp[p].text = text[p] /\ step[p] \in TempSteps
                              /\ step[p] \in {"flush", "rename"} => temp[p].state = "whole"
                              /\ step[p] = "rename" => temp[p].flushed
  BY Own
<1> USE <1>0 DEF Moves, Fits, GoTo, Section, WriteSteps, SaveSteps, AppendSteps, NamedSteps, TempSteps, lockService, fileSystem
<1>1. CASE StageFile(p)
  <2> DEFINE new == [text |-> text[p], state |-> "empty", flushed |-> FALSE, old |-> FALSE]
  <2>1. ASSUME temp' = [temp EXCEPT ![p] = new], GoTo(p, "write")
        PROVE  Moves(p, "write", new) /\ Fits(p, "write", new)
    <3>1. new \in Staged
      BY <1>1 DEF StageFile, Staged
    <3> QED BY <1>1, <2>1, <3>1 DEF StageFile
  <2>2. ASSUME GoTo(p, "give_back_failed"), UNCHANGED temp
        PROVE  Moves(p, "give_back_failed", temp[p]) /\ Fits(p, "give_back_failed", temp[p])
    BY <1>1, <2>2 DEF StageFile
  <2> QED BY <1>1, <2>1, <2>2 DEF StageFile
<1>2. CASE WriteData(p)
  <2>1. PICK all \in BOOLEAN :
          /\ temp' = IF temp[p] = Missing THEN temp
                     ELSE [temp EXCEPT ![p].state = IF all THEN "whole" ELSE "part"]
          /\ GoTo(p, IF all THEN "flush" ELSE "undo")
    BY <1>2 DEF WriteData
  <2> DEFINE s == IF all THEN "flush" ELSE "undo"
  <2>2. step[p] = "write" /\ step' = [step EXCEPT ![p] = s] /\ s \in {"flush", "undo"} /\ (s = "flush" => all)
    BY <1>2, <2>1 DEF WriteData
  <2> HIDE DEF s
  <2>3. CASE temp[p] = Missing
    <3>1. Moves(p, s, temp[p])
      BY <1>2, <2>1, <2>2, <2>3 DEF WriteData
    <3>2. Fits(p, s, temp[p])
      BY <2>2, <2>3
    <3> QED BY <3>1, <3>2
  <2>4. CASE temp[p] # Missing
    <3> DEFINE new == [temp[p] EXCEPT !.state = IF all THEN "whole" ELSE "part"]
    <3>1. new \in Staged /\ new.text = text[p] /\ (all => new.state = "whole")
      BY <2>4 DEF Staged
    <3>2. temp' = [temp EXCEPT ![p] = new]
      BY <2>1, <2>4
    <3> HIDE DEF new
    <3>3. Moves(p, s, new)
      BY <1>2, <2>2, <3>2 DEF WriteData
    <3>4. Fits(p, s, new)
      BY <2>2, <3>1
    <3> QED BY <3>3, <3>4
  <2> QED BY <2>3, <2>4
<1>3. CASE Flush(p)
  <2>1. ASSUME GoTo(p, "undo"), UNCHANGED temp PROVE Moves(p, "undo", temp[p]) /\ Fits(p, "undo", temp[p])
    BY <1>3, <2>1 DEF Flush
  <2>2. ASSUME temp' = IF temp[p] = Missing THEN temp ELSE [temp EXCEPT ![p].flushed = TRUE], GoTo(p, "rename")
        PROVE  \E t : Moves(p, "rename", t) /\ Fits(p, "rename", t)
    <3>1. CASE temp[p] = Missing
      <4>1. Moves(p, "rename", temp[p]) /\ Fits(p, "rename", temp[p])
        BY <1>3, <2>2, <3>1 DEF Flush
      <4> QED BY <4>1
    <3>2. CASE temp[p] # Missing
      <4> DEFINE new == [temp[p] EXCEPT !.flushed = TRUE]
      <4>1. new \in Staged /\ new.text = text[p] /\ new.state = temp[p].state /\ new.flushed
        BY <3>2 DEF Staged
      <4>2. temp' = [temp EXCEPT ![p] = new]
        BY <2>2, <3>2
      <4>3. new.state = "whole"
        BY <1>3, <3>2, <4>1 DEF Flush
      <4> HIDE DEF new
      <4>4. Moves(p, "rename", new)
        BY <1>3, <2>2, <4>2 DEF Flush
      <4>5. Fits(p, "rename", new)
        BY <1>3, <4>1, <4>3 DEF Flush
      <4> QED BY <4>4, <4>5
    <3> QED BY <3>1, <3>2
  <2> QED BY <1>3, <2>1, <2>2 DEF Flush
<1>4. CASE RenameFails(p)
  <2>1. Moves(p, "undo", temp[p]) /\ Fits(p, "undo", temp[p])
    BY <1>4 DEF RenameFails
  <2> QED BY <2>1
<1>5. CASE Undo(p)
  <2>1. Moves(p, "give_back_failed", Missing) /\ Fits(p, "give_back_failed", Missing)
    BY <1>5 DEF Undo
  <2> QED BY <2>1
<1> QED BY <1>1, <1>2, <1>3, <1>4, <1>5

LEMMA AppendingSteps ==
  ASSUME IWrite, NEW p \in Writers, AppendRecord(p) \/ AppendLine(p) \/ AppendFails(p)
  PROVE  \E s, t : Moves(p, s, t) /\ Fits(p, s, t)
<1>0. step[p] \in AppendSteps => text[p] = Missing /\ temp[p] = Missing
  BY Own DEF TempSteps, AppendSteps
<1>1. temp = [temp EXCEPT ![p] = temp[p]]
  BY Own
<1> USE <1>0, <1>1 DEF Moves, Fits, GoTo, Section, WriteSteps, SaveSteps, AppendSteps, NamedSteps, TempSteps, lockService, fileSystem
<1>2. CASE AppendRecord(p)
  <2>1. Moves(p, "append_lock", temp[p]) /\ Fits(p, "append_lock", temp[p])
    BY <1>2 DEF AppendRecord
  <2> QED BY <2>1
<1>3. CASE AppendLine(p)
  <2>1. Moves(p, "give_back", temp[p]) /\ Fits(p, "give_back", temp[p])
    BY <1>3 DEF AppendLine
  <2> QED BY <2>1
<1>4. CASE AppendFails(p)
  <2>1. Moves(p, "give_back_failed", temp[p]) /\ Fits(p, "give_back_failed", temp[p])
    BY <1>4 DEF AppendFails
  <2> QED BY <2>1
<1> QED BY <1>2, <1>3, <1>4

\* A writer is done, or dies: of its text it is said what became of it.
Ends(p, answer) ==
  /\ step' = [step EXCEPT ![p] = "idle"]
  /\ text' = [text EXCEPT ![p] = Missing]
  /\ temp' = [temp EXCEPT ![p] = Missing]
  /\ told' = IF text[p] = Missing THEN told ELSE [told EXCEPT ![text[p]] = answer]
  /\ UNCHANGED <<target, onDisk>>

LEMMA WriterEnds ==
  ASSUME IWrite, NEW p \in Writers, NEW answer \in {"made", "not made", "no answer"}, Ends(p, answer),
         inside' = inside \ {p}, dead' \in BOOLEAN, litter' \subseteq Staged, deaths' \in 0 .. MaxDeaths,
         answer = "not made" => ~Named(p),
         answer = "made" /\ text[p] # Missing => Named(p) /\ step[p] # "flush_name"
  PROVE  IWrite'
<1> USE DEF Ends
<1>0. text[p] # Missing => text[p] \in Texts /\ told[text[p]] = "nothing"
  BY DEF IWrite, WTypes, OneText
<1>1. WTypes'
  <2>1. told' \in [Texts -> {"nothing", "made", "not made", "no answer"}]
    BY <1>0 DEF IWrite, WTypes
  <2> QED BY <2>1 DEF IWrite, WTypes, WriteSteps
<1>2. OneInside'
  BY DEF IWrite, WTypes, OneInside, Section
<1>3. \A q \in Writers : q # p => step'[q] = step[q] /\ text'[q] = text[q]
  BY DEF IWrite, WTypes
<1>4. \A t \in Texts : told'[t] = IF t = text[p] /\ text[p] # Missing THEN answer ELSE told[t]
  BY <1>0 DEF IWrite, WTypes
<1>5. OneText'
  <2> SUFFICES ASSUME NEW q \in Writers
               PROVE  /\ step'[q] \in SaveSteps => text'[q] # Missing
                      /\ text'[q] # Missing => told'[text'[q]] = "nothing" /\ step'[q] \notin AppendSteps
                      /\ \A r \in Writers : text'[q] # Missing /\ text'[q] = text'[r] => q = r
    BY DEF OneText, SaveSteps, AppendSteps
  <2>1. CASE q = p
    BY <2>1 DEF SaveSteps, IWrite, WTypes
  <2>2. CASE q # p
    <3>1. /\ step[q] \in SaveSteps => text[q] # Missing
          /\ text[q] # Missing => told[text[q]] = "nothing" /\ step[q] \notin AppendSteps
          /\ \A r \in Writers : text[q] # Missing /\ text[q] = text[r] => q = r
      BY DEF IWrite, OneText, SaveSteps, AppendSteps
    <3>2. text'[p] = Missing /\ (text[q] # Missing => text[q] \in Texts /\ text[q] # text[p])
      BY <2>2, <3>1 DEF IWrite, WTypes
    <3>3. step'[q] = step[q] /\ text'[q] = text[q]
      BY <1>3, <2>2
    <3>4. text[q] # Missing => told'[text[q]] = "nothing"
      BY <1>4, <3>1, <3>2
    <3>5. \A r \in Writers : text[q] # Missing /\ text[q] = text'[r] => q = r
      BY <1>3, <3>1, <3>2
    <3> QED BY <3>1, <3>3, <3>4, <3>5
  <2> QED BY <2>1, <2>2
<1>6. StagedWhole'
  <2>1. temp'[p] = Missing /\ \A q \in Writers : q # p => temp'[q] = temp[q]
    BY DEF IWrite, WTypes
  <2> SUFFICES ASSUME NEW q \in Writers, temp'[q] # Missing
               PROVE  /\ temp'[q].text = text'[q] /\ step'[q] \in {"write", "flush", "rename", "undo"}
                      /\ step'[q] \in {"flush", "rename"} => temp'[q].state = "whole"
                      /\ step'[q] = "rename" => temp'[q].flushed
    BY DEF StagedWhole
  <2>2. q # p /\ temp'[q] = temp[q] /\ step'[q] = step[q] /\ text'[q] = text[q]
    BY <1>3, <2>1
  <2> QED BY <2>2 DEF IWrite, StagedWhole
<1>7. \A q \in Writers : Named(q)' = (q # p /\ Named(q))
  BY <1>3 DEF Named, IWrite, WTypes
<1>8. ASSUME NEW f \in onDisk, f # Missing PROVE Sound(f)'
  <2>1. Sound(f) /\ f.text \in Texts
    BY <1>8 DEF IWrite, Settled, WTypes, File
  <2>2. f.text = text[p] /\ text[p] # Missing => Named(p)
    BY <1>0, <1>8, <2>1 DEF Sound, IWrite, OneText
  <2>3. told'[f.text] # "not made"
    BY <1>4, <1>8, <2>1, <2>2 DEF Sound
  <2>4. ASSUME told'[f.text] = "nothing" PROVE \E q \in Writers : Named(q)' /\ text'[q] = f.text
    <3>1. told[f.text] = "nothing" /\ ~(f.text = text[p] /\ text[p] # Missing)
      BY <1>4, <2>1, <2>4
    <3>2. PICK q \in Writers : Named(q) /\ text[q] = f.text
      BY <1>8, <2>1, <3>1 DEF Sound
    <3>3. q # p
      BY <3>1, <3>2 DEF Named
    <3> QED BY <1>3, <1>7, <3>2, <3>3
  <2> QED BY <2>1, <2>3, <2>4, <1>8 DEF Sound
<1>9. Settled'
  <2>1. target \in onDisk /\ \A f \in onDisk : Sound(f)'
    BY <1>8 DEF IWrite, Settled, Sound
  <2>2. \A q \in Writers : Named(q)' =>
          target # Missing /\ target.text = text'[q] /\ (step'[q] # "flush_name" => onDisk = {target})
    BY <1>3, <1>7 DEF IWrite, Settled
  <2>3. target # Missing /\ told'[target.text] = "made" => onDisk = {target}
    <3>1. target # Missing => target.text \in Texts
      BY DEF IWrite, WTypes, File
    <3> QED BY <1>4, <3>1 DEF IWrite, Settled
  <2> QED BY <2>1, <2>2, <2>3 DEF Settled
<1> QED BY <1>1, <1>2, <1>5, <1>6, <1>9 DEF IWrite

LEMMA EndingSteps ==
  ASSUME IWrite, NEW p \in Writers, NoLock(p) \/ GiveBack(p) \/ WriterDies(p)
  PROVE  IWrite'
<1>1. /\ step[p] \in WriteSteps /\ temp = [temp EXCEPT ![p] = temp[p]] /\ temp[p] \in Staged \cup {Missing}
      /\ temp[p] # Missing => step[p] \in TempSteps
  BY Own
<1>2. inside \subseteq Writers /\ dead \in BOOLEAN /\ litter \subseteq Staged /\ deaths \in 0 .. MaxDeaths
  BY DEF IWrite, WTypes
<1>3. step[p] \in Section <=> p \in inside
  BY DEF IWrite, OneInside
<1>4. CASE NoLock(p)
  <2>1. Ends(p, "not made")
    BY <1>1, <1>4 DEF NoLock, Return, GoTo, Ends, fileSystem, TempSteps
  <2>2. inside' = inside \ {p} /\ dead' = dead /\ litter' = litter /\ deaths' = deaths /\ ~Named(p)
    BY <1>2, <1>3, <1>4 DEF NoLock, lockService, fileSystem, Section, Named
  <2> QED BY <1>2, <2>1, <2>2, WriterEnds
<1>5. CASE GiveBack(p)
  <2> DEFINE answer == IF step[p] = "give_back" THEN "made" ELSE "not made"
  <2>1. Ends(p, answer)
    BY <1>1, <1>5 DEF GiveBack, Return, GoTo, Ends, fileSystem, TempSteps
  <2>2. inside' = inside \ {p} /\ dead' = dead /\ litter' = litter /\ deaths' = deaths
    BY <1>5 DEF GiveBack, fileSystem, Lock!Release
  <2>3. answer \in {"made", "not made", "no answer"}
    OBVIOUS
  <2>4. /\ answer = "not made" => ~Named(p)
        /\ answer = "made" /\ text[p] # Missing => Named(p) /\ step[p] # "flush_name"
    BY <1>5 DEF GiveBack, Named
  <2> HIDE DEF answer
  <2> QED BY <1>2, <2>1, <2>2, <2>3, <2>4, WriterEnds
<1>6. CASE WriterDies(p)
  <2>1. step' = [step EXCEPT ![p] = "idle"] /\ text' = [text EXCEPT ![p] = Missing] /\ temp' = [temp EXCEPT ![p] = Missing]
    BY <1>6 DEF WriterDies, Gone, IWrite, WTypes
  <2>2. told' = IF text[p] = Missing THEN told ELSE [told EXCEPT ![text[p]] = "no answer"]
    <3>1. told' = [t \in Texts |-> IF text[p] = t THEN "no answer" ELSE told[t]]
      BY <1>6 DEF WriterDies, Gone
    <3>2. told = [t \in Texts |-> told[t]] /\ Missing \notin Texts /\ text[p] \in Texts \cup {Missing}
      BY WriteAssumption DEF IWrite, WTypes
    <3>3. CASE text[p] = Missing
      <4>1. told' = [t \in Texts |-> told[t]]
        BY <3>1, <3>2, <3>3
      <4> QED BY <3>2, <3>3, <4>1
    <3>4. CASE text[p] # Missing
      BY <3>1, <3>2, <3>4
    <3> QED BY <3>3, <3>4
  <2>3. Ends(p, "no answer")
    BY <1>6, <2>1, <2>2 DEF Ends, WriterDies
  <2>4. inside' = inside \ {p} /\ dead' \in BOOLEAN
    BY <1>2, <1>6 DEF WriterDies, lockService, Lock!Die
  <2>5. litter' \subseteq Staged /\ deaths' \in 0 .. MaxDeaths
    <3>1. litter' = litter \cup ({temp[q] : q \in {p}} \ {Missing}) /\ deaths < MaxDeaths /\ deaths' = deaths + 1
      BY <1>6 DEF WriterDies, Gone
    <3>2. litter' \subseteq Staged
      BY <1>1, <1>2, <3>1
    <3>3. deaths' \in 0 .. MaxDeaths
      BY <1>2, <3>1, WriteAssumption
    <3> QED BY <3>2, <3>3
  <2> QED BY <2>3, <2>4, <2>5, WriterEnds
<1> QED BY <1>4, <1>5, <1>6

LEMMA TakingSteps ==
  ASSUME IWrite, NEW p \in Writers, TakeLock(p)
  PROVE  IWrite'
<1> DEFINE s == IF step[p] = "lock" THEN "stage" ELSE "append"
<1>0. /\ step[p] \in {"lock", "append_lock"} /\ step' = [step EXCEPT ![p] = s]
      /\ inside = {} /\ inside' = {p}
      /\ UNCHANGED <<dead, text, temp, litter, target, onDisk, told, deaths>>
  BY DEF TakeLock, GoTo, Lock!Acquire, fileSystem
<1>1. /\ s \in {"stage", "append"}
      /\ s = "stage" <=> step[p] = "lock"
  BY <1>0
<1> HIDE DEF s
<1>2. WTypes'
  BY <1>0, <1>1 DEF IWrite, WTypes, WriteSteps, Section
<1>3. OneInside'
  BY <1>0, <1>1 DEF IWrite, WTypes, OneInside, Section
<1>4. OneText'
  BY <1>0, <1>1 DEF IWrite, WTypes, OneText
<1>5. StagedWhole'
  BY <1>0, <1>1 DEF IWrite, WTypes, StagedWhole
<1>6. \A q \in Writers : Named(q)' = Named(q) /\ (Named(q) => text'[q] = text[q] /\ step'[q] = step[q])
  BY <1>0, <1>1 DEF IWrite, WTypes, Named
<1>7. \A q \in Writers : Named(q) /\ step'[q] # "flush_name" => onDisk = {target}
  BY <1>6 DEF IWrite, Settled
<1>8. Settled'
  BY <1>0, <1>6, <1>7, SettledKept DEF IWrite
<1> QED BY <1>2, <1>3, <1>4, <1>5, <1>8 DEF IWrite

LEMMA SavingSteps ==
  ASSUME IWrite, NEW p \in Writers, NEW t \in Texts, Save(p, t)
  PROVE  IWrite'
<1>0. /\ step[p] = "idle" /\ step' = [step EXCEPT ![p] = "lock"] /\ text' = [text EXCEPT ![p] = t]
      /\ told[t] = "nothing" /\ \A q \in Writers : text[q] # t
      /\ UNCHANGED <<inside, dead, temp, litter, target, onDisk, told, deaths>>
  BY DEF Save, GoTo, lockService, fileSystem
<1>1. text[p] = Missing /\ temp[p] = Missing /\ t # Missing
  BY <1>0, Own, WriteAssumption DEF AppendSteps, TempSteps
<1>2. WTypes'
  BY <1>0 DEF IWrite, WTypes, WriteSteps
<1>3. OneInside'
  BY <1>0 DEF IWrite, WTypes, OneInside, Section
<1>4. OneText'
  <2> SUFFICES ASSUME NEW q \in Writers
               PROVE  /\ step'[q] \in SaveSteps => text'[q] # Missing
                      /\ text'[q] # Missing => told[text'[q]] = "nothing" /\ step'[q] \notin AppendSteps
                      /\ \A r \in Writers : text'[q] # Missing /\ text'[q] = text'[r] => q = r
    BY <1>0 DEF OneText, SaveSteps, AppendSteps
  <2>1. \A r \in Writers : step'[r] = (IF r = p THEN "lock" ELSE step[r]) /\ text'[r] = IF r = p THEN t ELSE text[r]
    BY <1>0 DEF IWrite, WTypes
  <2>2. CASE q = p
    BY <1>0, <1>1, <2>1, <2>2 DEF AppendSteps
  <2>3. CASE q # p
    BY <1>0, <2>1, <2>3 DEF IWrite, OneText, SaveSteps, AppendSteps
  <2> QED BY <2>2, <2>3
<1>5. StagedWhole'
  BY <1>0, <1>1 DEF IWrite, WTypes, StagedWhole
<1>6. \A q \in Writers : Named(q)' = Named(q) /\ (Named(q) => text'[q] = text[q] /\ step'[q] = step[q])
  BY <1>0, <1>1 DEF IWrite, WTypes, Named
<1>7. \A q \in Writers : Named(q) /\ step'[q] # "flush_name" => onDisk = {target}
  BY <1>6 DEF IWrite, Settled
<1>8. Settled'
  BY <1>0, <1>6, <1>7, SettledKept DEF IWrite
<1> QED BY <1>2, <1>3, <1>4, <1>5, <1>8 DEF IWrite

\* Of the writers, only the one inside has a file to name.
LEMMA OnlyOneNames ==
  ASSUME IWrite, NEW p \in Writers, step[p] \in Section, NEW q \in Writers, q # p
  PROVE  ~Named(q) /\ step[q] \notin Section
BY DEF IWrite, OneInside, Section, Named

LEMMA RenamingSteps ==
  ASSUME IWrite, NEW p \in Writers, Rename(p)
  PROVE  IWrite'
<1>1. CASE temp[p] = Missing
  <2>1. Moves(p, "undo", temp[p]) /\ step[p] = "rename"
    BY <1>1, Own DEF Rename, Moves, GoTo, lockService
  <2>2. Fits(p, "undo", temp[p])
    BY <1>1, <2>1, Own DEF Fits, Section, WriteSteps, SaveSteps, AppendSteps, NamedSteps
  <2> QED BY <2>1, <2>2, WriterMoves
<1>2. CASE temp[p] # Missing
  <2> DEFINE new == [text |-> temp[p].text, state |-> temp[p].state, flushed |-> temp[p].flushed]
  <2>1. /\ step[p] = "rename" /\ step' = [step EXCEPT ![p] = "flush_name"]
        /\ temp' = [temp EXCEPT ![p] = Missing]
        /\ target' = new /\ onDisk' = onDisk \cup {new}
        /\ UNCHANGED <<inside, dead, text, litter, told, deaths>>
    BY <1>2 DEF Rename, GoTo, lockService
  <2>2. /\ new.text = text[p] /\ new.state = "whole" /\ new.flushed
        /\ text[p] # Missing /\ told[text[p]] = "nothing"
    BY <1>2, <2>1, Own DEF IWrite, OneText
  <2>3. new \in File /\ new # Missing
    BY <1>2, Own, WriteAssumption DEF Staged, File
  <2> HIDE DEF new
  <2>4. WTypes'
    <3>1. onDisk' \subseteq File \cup {Missing} /\ target' \in File
      BY <2>1, <2>3 DEF IWrite, WTypes
    <3>2. step' \in [Writers -> WriteSteps] /\ temp' \in [Writers -> Staged \cup {Missing}]
      BY <2>1 DEF IWrite, WTypes, WriteSteps, Section
    <3> QED BY <2>1, <3>1, <3>2 DEF IWrite, WTypes
  <2>5. OneInside'
    BY <2>1 DEF IWrite, WTypes, OneInside, Section
  <2>6. OneText'
    BY <2>1, <2>2 DEF IWrite, WTypes, OneText
  <2>7. StagedWhole'
    BY <2>1 DEF IWrite, WTypes, StagedWhole
  <2>8. /\ Named(p)' /\ step'[p] = "flush_name"
        /\ \A q \in Writers : q # p => ~Named(q)' /\ ~Named(q)
        /\ ~Named(p)
    BY <2>1, <2>2, OnlyOneNames DEF Named, IWrite, WTypes, Section
  <2>9. ASSUME NEW f \in onDisk' PROVE Sound(f)'
    <3>1. CASE f = new
      BY <2>1, <2>2, <2>8, <3>1 DEF Sound
    <3>2. CASE f \in onDisk
      <4>1. Sound(f)
        BY <3>2 DEF IWrite, Settled
      <4> QED BY <2>1, <2>8, <4>1 DEF Sound
    <3> QED BY <2>1, <2>9, <3>1, <3>2
  <2>10. Settled'
    BY <2>1, <2>2, <2>3, <2>8, <2>9 DEF Settled
  <2> QED BY <2>4, <2>5, <2>6, <2>7, <2>10 DEF IWrite
<1> QED BY <1>1, <1>2

LEMMA NamingSteps ==
  ASSUME IWrite, NEW p \in Writers, SyncDir(p) \/ Sweep(p)
  PROVE  IWrite'
<1>0. step[p] \in {"flush_name", "sweep"} /\ step[p] \in Section /\ temp[p] = Missing /\ Named(p)
  BY Own DEF SyncDir, Sweep, Section, SaveSteps, TempSteps, Named
<1>1. target \in onDisk /\ target # Missing /\ target.text = text[p] /\ \A f \in onDisk : Sound(f)
  BY <1>0 DEF IWrite, Settled
<1> DEFINE s == IF step[p] = "flush_name" THEN "sweep" ELSE "give_back"
<1>2. s \in {"sweep", "give_back"} /\ step' = [step EXCEPT ![p] = s]
  BY DEF SyncDir, Sweep, GoTo
<1> HIDE DEF s
<1>3. /\ temp' \in [Writers -> Staged \cup {Missing}] /\ litter' \subseteq Staged
      /\ \A q \in Writers : temp'[q] # Missing => temp'[q] = temp[q]
      /\ UNCHANGED <<inside, dead, text, target, told, deaths>>
  BY DEF SyncDir, Sweep, lockService, IWrite, WTypes
<1>4. onDisk' = {target}
  BY <1>0 DEF SyncDir, Sweep, IWrite, Settled
<1>5. WTypes'
  <2>1. onDisk' \subseteq File \cup {Missing}
    BY <1>1, <1>4 DEF IWrite, WTypes
  <2>2. step' \in [Writers -> WriteSteps]
    BY <1>2 DEF IWrite, WTypes, WriteSteps, Section
  <2> QED BY <1>3, <2>1, <2>2 DEF IWrite, WTypes
<1>6. OneInside'
  BY <1>0, <1>2, <1>3 DEF IWrite, WTypes, OneInside, Section
<1>7. OneText'
  BY <1>0, <1>2, <1>3 DEF IWrite, WTypes, OneText
<1>8. StagedWhole'
  BY <1>0, <1>2, <1>3 DEF IWrite, WTypes, StagedWhole
<1>9. /\ Named(p)'
      /\ \A q \in Writers : q # p => ~Named(q)' /\ ~Named(q)
  BY <1>0, <1>2, <1>3, OnlyOneNames DEF Named, IWrite, WTypes, Section
<1>10. Sound(target)'
  BY <1>0, <1>1, <1>3, <1>9 DEF Sound
<1>11. Settled'
  BY <1>1, <1>3, <1>4, <1>9, <1>10 DEF Settled
<1> QED BY <1>5, <1>6, <1>7, <1>8, <1>11 DEF IWrite

LEMMA AgeingSteps ==
  ASSUME IWrite, Hour \/ BreakDeadLock
  PROVE  IWrite'
<1>1. CASE Hour
  <2>1. UNCHANGED <<inside, dead, step, text, target, onDisk, told, deaths>>
    BY <1>1 DEF Hour, lockService
  <2>2. ASSUME NEW f \in Staged
        PROVE  /\ [f EXCEPT !.old = TRUE] \in Staged
               /\ [f EXCEPT !.old = TRUE].text = f.text /\ [f EXCEPT !.old = TRUE].state = f.state
               /\ [f EXCEPT !.old = TRUE].flushed = f.flushed
    BY DEF Staged
  <2>3. litter' \subseteq Staged
    BY <1>1, <2>2 DEF Hour, IWrite, WTypes
  <2>4. temp' \in [Writers -> Staged \cup {Missing}]
    BY <1>1, <2>2 DEF Hour, IWrite, WTypes
  <2>5. WTypes' /\ OneInside' /\ OneText'
    BY <2>1, <2>3, <2>4 DEF IWrite, WTypes, OneInside, OneText
  <2>6. ASSUME NEW q \in Writers, temp'[q] # Missing
        PROVE  /\ temp[q] # Missing
               /\ temp'[q].text = temp[q].text /\ temp'[q].state = temp[q].state
               /\ temp'[q].flushed = temp[q].flushed
    BY <1>1, <2>2, <2>6 DEF Hour, IWrite, WTypes
  <2>7. StagedWhole'
    BY <2>1, <2>6 DEF IWrite, StagedWhole
  <2>8. Settled'
    BY <2>1 DEF IWrite, Settled, Sound, Named
  <2> QED BY <2>5, <2>7, <2>8 DEF IWrite
<1>2. CASE BreakDeadLock
  <2>1. dead' = FALSE /\ UNCHANGED <<inside, step, text, fileSystem, told, deaths>>
    BY <1>2 DEF BreakDeadLock, Lock!Reclaim
  <2>2. WTypes' /\ OneInside'
    BY <2>1 DEF IWrite, WTypes, OneInside, fileSystem
  <2>3. OneText' /\ StagedWhole'
    BY <2>1 DEF IWrite, OneText, StagedWhole, fileSystem
  <2>4. Settled'
    BY <2>1 DEF IWrite, Settled, Sound, Named, fileSystem
  <2> QED BY <2>2, <2>3, <2>4 DEF IWrite
<1> QED BY <1>1, <1>2

\* A whole and flushed file is what it was.
LEMMA FlushedStays ==
  ASSUME IWrite, PowerFails
  PROVE  target' \in onDisk /\ onDisk' = {target'} /\ Sound(target')
<1>1. PICK f \in onDisk : target' \in AfterPowerFailure(f)
  BY DEF PowerFails
<1>2. Sound(f)
  BY DEF IWrite, Settled
<1>3. target' = f
  BY <1>1, <1>2 DEF AfterPowerFailure, Sound
<1> QED BY <1>2, <1>3 DEF PowerFails

LEMMA PowerFailing ==
  ASSUME IWrite, PowerFails
  PROVE  IWrite'
<1>1. /\ step' = [p \in Writers |-> "idle"] /\ text' = [p \in Writers |-> Missing]
      /\ temp' = [p \in Writers |-> Missing]
  BY DEF PowerFails, Gone
<1>2. told' = [t \in Texts |-> IF \E p \in Writers : text[p] = t THEN "no answer" ELSE told[t]]
  BY DEF PowerFails, Gone
<1>3. inside' = {} /\ dead' \in BOOLEAN /\ deaths' = deaths + 1 /\ deaths < MaxDeaths
  BY DEF PowerFails, Gone, IWrite, WTypes
<1>4. litter' \subseteq Staged
  BY DEF PowerFails, Gone, IWrite, WTypes
<1>5. target' \in onDisk /\ onDisk' = {target'} /\ Sound(target')
  BY FlushedStays
<1>6. WTypes'
  <2>1. target' \in File \cup {Missing} /\ onDisk' \subseteq File \cup {Missing}
    BY <1>5 DEF IWrite, WTypes
  <2>2. told' \in [Texts -> {"nothing", "made", "not made", "no answer"}]
    BY <1>2 DEF IWrite, WTypes
  <2>3. deaths' \in 0 .. MaxDeaths
    <3>1. deaths \in 0 .. MaxDeaths /\ MaxDeaths \in Nat
      BY WriteAssumption DEF IWrite, WTypes
    <3> QED BY <1>3, <3>1
  <2> QED BY <1>1, <1>3, <1>4, <2>1, <2>2, <2>3 DEF WTypes, WriteSteps
<1>7. OneInside' /\ OneText' /\ StagedWhole'
  BY <1>1, <1>3 DEF OneInside, OneText, StagedWhole, Section
<1>8. \A p \in Writers : ~Named(p)'
  BY <1>1 DEF Named
<1>9. Sound(target)'
  <2> SUFFICES ASSUME target' # Missing PROVE Sound(target)'
    BY DEF Sound
  <2>1. target'.text \in Texts
    BY <1>5 DEF IWrite, WTypes, File
  <2>2. told[target'.text] = "nothing" => \E p \in Writers : text[p] = target'.text
    BY <1>5 DEF Sound
  <2>3. told'[target'.text] \notin {"nothing", "not made"}
    BY <1>2, <1>5, <2>1, <2>2 DEF Sound
  <2> QED BY <1>5, <2>3 DEF Sound
<1>10. Settled'
  BY <1>5, <1>8, <1>9 DEF Settled
<1> QED BY <1>6, <1>7, <1>10 DEF IWrite

LEMMA WritesGoOn == IWrite /\ [WriteNext]_writeVars => IWrite'
<1> SUFFICES ASSUME IWrite, [WriteNext]_writeVars PROVE IWrite'
  OBVIOUS
<1>1. ASSUME NEW p \in Writers, Saving(p) PROVE IWrite'
  <2>1. CASE StageFile(p) \/ WriteData(p) \/ Flush(p) \/ RenameFails(p) \/ Undo(p)
    BY <2>1, StagingSteps, WriterMoves
  <2>2. CASE NoLock(p) \/ GiveBack(p)
    BY <2>2, EndingSteps
  <2> QED BY <1>1, <2>1, <2>2, TakingSteps, RenamingSteps, NamingSteps DEF Saving
<1>2. ASSUME NEW p \in Writers, Appending(p) PROVE IWrite'
  BY <1>2, AppendingSteps, WriterMoves DEF Appending
<1>3. CASE UNCHANGED writeVars
  <2>1. UNCHANGED <<inside, dead, step, text, temp, litter, target, onDisk, told, deaths>>
    BY <1>3 DEF writeVars, lockService, fileSystem
  <2>2. WTypes' /\ OneInside'
    BY <2>1 DEF IWrite, WTypes, OneInside
  <2>3. OneText' /\ StagedWhole'
    BY <2>1 DEF IWrite, OneText, StagedWhole
  <2>4. Settled'
    BY <2>1 DEF IWrite, Settled, Sound, Named
  <2> QED BY <2>2, <2>3, <2>4 DEF IWrite
<1> QED BY <1>1, <1>2, <1>3, EndingSteps, SavingSteps, AgeingSteps, PowerFailing DEF WriteNext

\* One writer is inside at a time, each text is one writer's until its caller is
\* told, and what a power failure may leave at the path is whole and flushed.
THEOREM WritesInvariant == WriteSpec => []IWrite
<1>1. WriteInit => IWrite
  BY WriteStarts
<1>2. IWrite /\ [WriteNext]_writeVars => IWrite'
  BY WritesGoOn
<1> QED BY <1>1, <1>2, PTL DEF WriteSpec

\* The state of the writes stays in its ranges.
THEOREM WritesTyped == WriteSpec => []WriteTypeOK
<1>1. IWrite => WriteTypeOK
  BY DEF IWrite, WTypes, WriteTypeOK
<1> QED BY <1>1, WritesInvariant, PTL

\* A file at the path was written whole, and no writer whose file it is was told
\* that it was not made (save: "the write was NOT made").
THEOREM WholeOnly == WriteSpec => []WholeFile
<1>1. IWrite => WholeFile
  BY DEF IWrite, Settled, Sound, WholeFile
<1> QED BY <1>1, WritesInvariant, PTL

\* A write that was made stays until another takes its place, over deaths and
\* power failures.
THEOREM Stays == WriteSpec => MadeStays
<1> DEFINE Kept == \A t \in Texts : target # Missing /\ target.text = t /\ told[t] = "made" =>
                     target' # Missing /\ (target'.text = t \/ told[target'.text] = "nothing")
<1>1. ASSUME IWrite, [WriteNext]_writeVars PROVE [Kept]_writeVars
  <2>1. CASE UNCHANGED target
    BY <2>1
  <2>2. ASSUME NEW p \in Writers, Rename(p), temp[p] # Missing PROVE Kept
    <3>1. target'.text = text[p] /\ told[text[p]] = "nothing" /\ target' # Missing
      <4>1. temp[p] \in Staged /\ temp[p].text = text[p] /\ text[p] # Missing /\ told[text[p]] = "nothing"
        BY <1>1, <2>2, Own DEF IWrite, OneText, Rename, SaveSteps
      <4>2. target' = [text |-> temp[p].text, state |-> temp[p].state, flushed |-> temp[p].flushed]
        BY <2>2 DEF Rename
      <4>3. target' \in File
        BY <4>1, <4>2 DEF Staged, File
      <4> QED BY <4>1, <4>2, <4>3, WriteAssumption
    <3> QED BY <3>1
  <2>3. CASE PowerFails
    BY <1>1, <2>3, FlushedStays DEF IWrite, Settled
  <2>4. ASSUME NEW p \in Writers, Saving(p), ~(Rename(p) /\ temp[p] # Missing) PROVE UNCHANGED target
    BY <2>4 DEF Saving, TakeLock, NoLock, StageFile, WriteData, Flush, Rename, RenameFails, Undo, SyncDir, Sweep,
                GiveBack, fileSystem
  <2>5. ASSUME NEW p \in Writers, Appending(p) \/ WriterDies(p) \/ \E t \in Texts : Save(p, t) PROVE UNCHANGED target
    BY <2>5 DEF Appending, AppendRecord, AppendLine, AppendFails, WriterDies, Save, fileSystem
  <2>6. CASE Hour \/ BreakDeadLock
    BY <2>6, <2>1 DEF Hour, BreakDeadLock, fileSystem
  <2>7. CASE UNCHANGED writeVars
    BY <2>7
  <2> QED BY <1>1, <2>1, <2>2, <2>3, <2>4, <2>5, <2>6, <2>7 DEF WriteNext
<1>2. IWrite /\ [WriteNext]_writeVars => [Kept]_writeVars
  BY <1>1
<1> QED BY <1>2, WritesInvariant, PTL DEF WriteSpec, MadeStays

-----------------------------------------------------------------------------
(* Appends *)

\* An end left open is a line the next append spoils, and it is counted.
Counted ==
  /\ log \in [good : Int, corrupt : Int, end : {"closed", "part", "whole"}, acked : Int, torn : Int]
  /\ log.acked + (IF log.end = "closed" THEN 0 ELSE 1) <= log.good + log.corrupt

LEMMA TornCounted ==
  ASSUME Counted, NEW cut \in {"part", "whole"}, log' = Torn(cut)
  PROVE  Counted'
<1> DEFINE g == CASE log.end = "closed" /\ cut = "whole" -> 1 [] log.end = "whole" -> 0 - 1 [] OTHER -> 0
           c == IF log.end = "whole" \/ (log.end = "closed" /\ cut = "part") THEN 1 ELSE 0
           e == IF log.end = "closed" THEN cut ELSE "part"
<1>1. g \in Int /\ c \in Int /\ e \in {"part", "whole"} /\ g + c = IF log.end = "closed" THEN 1 ELSE 0
  BY DEF Counted
<1>2. log' = [log EXCEPT !.good = @ + g, !.corrupt = @ + c, !.end = e, !.torn = @ + 1]
  BY DEF Torn
<1> HIDE DEF g, c, e
<1>3. /\ log' \in [good : Int, corrupt : Int, end : {"closed", "part", "whole"}, acked : Int, torn : Int]
      /\ log'.good = log.good + g /\ log'.corrupt = log.corrupt + c /\ log'.end = e /\ log'.acked = log.acked
  <2>1. log \in [good : Int, corrupt : Int, end : {"closed", "part", "whole"}, acked : Int, torn : Int]
    BY DEF Counted
  <2>2. log.good + g \in Int /\ log.corrupt + c \in Int /\ log.acked + 1 \in Int /\ log.torn + 1 \in Int
    BY <1>1, <2>1
  <2> QED BY <1>1, <1>2, <2>1, <2>2
<1> QED BY <1>1, <1>3 DEF Counted

LEMMA ClosedCounted ==
  ASSUME Counted, log' = [Closed EXCEPT !.acked = @ + 1]
  PROVE  Counted'
<1> DEFINE g == CASE log.end = "closed" -> 1 [] log.end = "part" -> 0 [] OTHER -> 0 - 1
           c == IF log.end = "whole" THEN 1 ELSE 0
<1>1. g \in Int /\ c \in Int /\ g + c = IF log.end = "closed" THEN 1 ELSE 0
  BY DEF Counted
<1>2. Closed = [log EXCEPT !.good = @ + g, !.corrupt = @ + c, !.end = "closed"]
  BY DEF Closed
<1> HIDE DEF g, c
<1>3. /\ log' \in [good : Int, corrupt : Int, end : {"closed", "part", "whole"}, acked : Int, torn : Int]
      /\ log'.good = log.good + g /\ log'.corrupt = log.corrupt + c /\ log'.end = "closed" /\ log'.acked = log.acked + 1
  <2>1. log \in [good : Int, corrupt : Int, end : {"closed", "part", "whole"}, acked : Int, torn : Int]
    BY DEF Counted
  <2>2. log.good + g \in Int /\ log.corrupt + c \in Int /\ log.acked + 1 \in Int /\ log.torn + 1 \in Int
    BY <1>1, <2>1
  <2> QED BY <1>1, <1>2, <2>1, <2>2
<1> QED BY <1>1, <1>3 DEF Counted

\* A record whose append was acknowledged is read, or its line is counted as
\* corrupt (AppendLearn after lines that were cut short).
THEOREM Appended == WriteSpec => []AppendsAreCounted
<1>1. WriteInit => Counted
  BY DEF WriteInit, Counted
<1>2. ASSUME Counted, [WriteNext]_writeVars PROVE Counted'
  <2>1. CASE UNCHANGED log
    BY <1>2, <2>1 DEF Counted
  <2>2. ASSUME NEW p \in Writers, Saving(p) \/ \E t \in Texts : Save(p, t) PROVE UNCHANGED log
    BY <2>2 DEF Saving, TakeLock, NoLock, StageFile, WriteData, Flush, Rename, RenameFails, Undo, SyncDir, Sweep,
                GiveBack, Save, fileSystem
  <2>3. ASSUME NEW p \in Writers, Appending(p) \/ WriterDies(p) PROVE Counted'
    <3>1. CASE AppendLine(p)
      BY <1>2, <3>1, ClosedCounted DEF AppendLine
    <3>2. CASE \E cut \in {"part", "whole"} : log' = Torn(cut)
      BY <1>2, <3>2, TornCounted
    <3> QED BY <2>1, <2>3, <3>1, <3>2 DEF Appending, AppendRecord, AppendFails, WriterDies, fileSystem
  <2>4. CASE Hour \/ BreakDeadLock \/ PowerFails \/ UNCHANGED writeVars
    BY <2>1, <2>4 DEF Hour, BreakDeadLock, PowerFails, writeVars, fileSystem
  <2> QED BY <1>2, <2>1, <2>2, <2>3, <2>4 DEF WriteNext
<1>3. Counted => AppendsAreCounted
  BY DEF Counted, AppendsAreCounted
<1> QED BY <1>1, <1>2, <1>3, PTL DEF WriteSpec
-----------------------------------------------------------------------------
(* LockOrder: callers that take the locks of several paths *)

OrderSpec == OrderInit /\ [][OrderNext]_orderVars

\* What a caller holds comes before everything it has yet to take.
InOrder == \A a \in Askers : \A p \in has[a], q \in want[a] : p < q

IOrder == OrderTypeOK /\ InOrder

\* The sets and the order of what each caller holds and wants: no caller asks
\* for a path before one it holds (Lock's sort.Strings).
THEOREM Sorted == OrderSpec => []IOrder
<1>1. OrderInit => IOrder
  BY DEF OrderInit, IOrder, OrderTypeOK, InOrder
<1>2. IOrder /\ [OrderNext]_orderVars => IOrder'
  <2> SUFFICES ASSUME IOrder, [OrderNext]_orderVars PROVE IOrder'
    OBVIOUS
  <2> USE DEF IOrder, OrderTypeOK, InOrder
  <2>1. ASSUME NEW a \in Askers, TakeNext(a) PROVE IOrder'
    <3>1. PICK p \in Paths : /\ NextPath(a, p)
                             /\ has' = [has EXCEPT ![a] = @ \cup {p}]
                             /\ want' = [want EXCEPT ![a] = @ \ {p}]
      BY <2>1 DEF TakeNext
    <3>2. OrderTypeOK'
      BY <3>1
    <3>3. \A q \in want[a] \ {p} : p < q
      BY <3>1, PathsAssumption DEF NextPath
    <3>4. InOrder'
      BY <3>1, <3>3
    <3> QED BY <3>2, <3>4
  <2>2. ASSUME NEW a \in Askers, GiveUpAll(a) PROVE IOrder'
    BY <2>2 DEF GiveUpAll
  <2>3. ASSUME NEW a \in Askers, NEW ps \in SUBSET Paths, Ask(a, ps) PROVE IOrder'
    BY <2>3 DEF Ask
  <2>4. CASE UNCHANGED orderVars
    BY <2>4 DEF orderVars
  <2> QED BY <2>1, <2>2, <2>3, <2>4 DEF OrderNext
<1> QED BY <1>1, <1>2, PTL DEF OrderSpec

\* A set of paths that is not empty has a last one.
LEMMA LastPath ==
  ASSUME NEW S \in SUBSET Paths, S # {}
  PROVE  \E p \in S : \A q \in S : q <= p
<1> DEFINE After(p) == {q \in S : p < q}
           T == {After(p) : p \in S}
<1>1. IsFiniteSet(S)
  BY PathsAssumption, FS_Subset
<1>2. T \subseteq FiniteSubsetsOf(S)
  BY <1>1, FS_Subset DEF FiniteSubsetsOf
<1>3. IsWellFoundedOn(StrictSubsetOrdering(S), FiniteSubsetsOf(S))
  BY FS_StrictSubsetOrderingWellFounded
<1>4. T # {}
  OBVIOUS
<1>5. PICK x \in T : \A y \in T : <<y, x>> \notin StrictSubsetOrdering(S)
  <2> HIDE DEF T
  <2> QED BY <1>2, <1>3, <1>4, WFMin
<1>6. PICK p \in S : x = After(p)
  BY <1>5
<1>7. ASSUME NEW q \in S, p < q PROVE FALSE
  <2>1. p \in Nat /\ q \in Nat /\ S \subseteq Nat
    BY PathsAssumption
  <2>2. \A r \in S : q < r => p < r
    BY <1>7, <2>1
  <2>3. ~(q < q)
    BY <2>1
  <2>4. After(q) \subseteq After(p) /\ q \in After(p) /\ q \notin After(q)
    BY <1>7, <2>2, <2>3
  <2>5. <<After(q), x>> \in StrictSubsetOrdering(S)
    BY <1>6, <2>4 DEF StrictSubsetOrdering
  <2> QED BY <1>5, <2>5
<1> QED BY <1>7, PathsAssumption

\* A caller that waits for one who waits wants a path before the one that the
\* other waits for.
LEMMA WaitsForLater ==
  ASSUME IOrder, NEW a \in Askers, NEW b \in Askers, NEW p \in has[b], NEW q \in Paths, NextPath(b, q)
  PROVE  p < q
BY DEF IOrder, InOrder, OrderTypeOK, NextPath

\* Whoever wants the last of the paths that those who wait are waiting for waits
\* for nobody among them.
THEOREM NoCircle == OrderSpec => []NoCircularWait
<1>1. IOrder => NoCircularWait
  <2> SUFFICES ASSUME IOrder, NEW waiting \in SUBSET Askers, waiting # {},
                      \A a \in waiting : \E b \in waiting : a # b /\ WaitsFor(a, b)
               PROVE  FALSE
    BY DEF NoCircularWait
  <2> DEFINE S == {p \in Paths : \E a \in waiting : NextPath(a, p)}
  <2>1. \A a \in waiting : \E b \in waiting : \E p \in has[b] : NextPath(a, p) /\ p \in Paths
    BY DEF WaitsFor, IOrder, OrderTypeOK
  <2>2. S # {}
    BY <2>1
  <2>3. PICK last \in S : \A p \in S : p <= last
    BY <2>2, LastPath
  <2>4. PICK a \in waiting : NextPath(a, last)
    BY <2>3
  <2>5. PICK b \in waiting : \E p \in has[b] : NextPath(a, p) /\ p \in Paths
    BY <2>1
  <2>6. last \in has[b]
    BY <2>4, <2>5, PathsAssumption DEF NextPath, IOrder, OrderTypeOK
  <2>7. PICK q \in Paths : NextPath(b, q)
    BY <2>1
  <2>8. last < q
    BY <2>6, <2>7, WaitsForLater
  <2>9. q \in S
    BY <2>7
  <2> QED BY <2>3, <2>8, <2>9, PathsAssumption
<1> QED BY <1>1, Sorted, PTL
=============================================================================
