----------------------------- MODULE DaemonStart -----------------------------
(***************************************************************************)
(* How sessions that begin at the same moment get a daemon                 *)
(* (internal/api/start.go, Listen of server.go): a look at the socket, the *)
(* start lock with its staleness rule, the process that is started, and    *)
(* the listener that takes over the socket's path. Removing a path removes *)
(* whatever is there by then, so every system call is a step of its own.   *)
(***************************************************************************)
EXTENDS Naturals, FiniteSets

CONSTANTS
  Sessions,     \* session-start hooks: one that ended is the next one's slot
  Daemons,      \* slots for `procoder serve` processes
  Troubles,     \* what may go wrong: "death", "refusal", "delay", "by hand"
  MaxTrouble,   \* bound: how often
  Nothing, Dead

LockFiles == [by : Sessions \cup {Dead}, written : BOOLEAN, old : BOOLEAN]

ASSUME StartAssumption ==
  /\ MaxTrouble \in Nat
  /\ Nothing \notin Daemons \cup LockFiles /\ Dead \notin Daemons \cup Sessions /\ Nothing # Dead

VARIABLES
  hook,        \* where each session is in EnsureDaemon
  startLock,   \* the file at StartLock, or Nothing
  socket,      \* what the work socket's file leads to: a daemon, a Dead one, or Nothing
  process,     \* where each daemon is in Listen and Accept
  trouble      \* what has gone wrong so far

startVars == <<hook, startLock, socket, process, trouble>>

StartInit ==
  /\ hook = [s \in Sessions |-> "idle"]
  /\ startLock = Nothing
  /\ socket = Nothing
  /\ process = [d \in Daemons |-> "off"]
  /\ trouble = 0

\* listening: somebody accepts behind the socket's file.
Listening == socket \in Daemons

MoveOn(s, l) == hook' = [hook EXCEPT ![s] = l]
Trouble(kind) == kind \in Troubles /\ trouble < MaxTrouble /\ trouble' = trouble + 1

-----------------------------------------------------------------------------
(* EnsureDaemon *)

LookFirst(s) ==
  /\ hook[s] = "idle"
  /\ ~Listening
  /\ MoveOn(s, "take")
  /\ UNCHANGED <<startLock, socket, process, trouble>>

\* O_EXCL, the first time and after a stale lock was removed.
TakeStartLock(s) ==
  /\ hook[s] \in {"take", "retake"}
  /\ IF startLock = Nothing
       THEN /\ startLock' = [by |-> s, written |-> FALSE, old |-> FALSE]
            /\ MoveOn(s, "write")
       ELSE /\ MoveOn(s, IF hook[s] = "take" THEN "judge" ELSE "wait")
            /\ UNCHANGED startLock
  /\ UNCHANGED <<socket, process, trouble>>

\* Mutant: no lock is ever stale.
StaleNever == FALSE

\* staleStartLock: the recorded time decides, and the file's age where there is
\* none; a lock that is gone is not stale.
StaleStartLock == startLock # Nothing /\ startLock.old

JudgeStartLock(s) ==
  /\ hook[s] = "judge"
  /\ MoveOn(s, IF StaleStartLock THEN "break" ELSE "wait")
  /\ UNCHANGED <<startLock, socket, process, trouble>>

BreakStartLock(s) ==
  /\ hook[s] = "break"
  /\ startLock' = Nothing
  /\ MoveOn(s, IF startLock = Nothing THEN "wait" ELSE "retake")
  /\ UNCHANGED <<socket, process, trouble>>

\* The time, through the handle, into the file this session created.
WriteStartLock(s) ==
  /\ hook[s] = "write"
  /\ startLock' = IF startLock # Nothing /\ startLock.by = s
                    THEN [startLock EXCEPT !.written = TRUE] ELSE startLock
  /\ MoveOn(s, "recheck")
  /\ UNCHANGED <<socket, process, trouble>>

\* Mutant: nothing is looked at again under the lock.
NoRecheck(s) ==
  /\ hook[s] = "recheck"
  /\ MoveOn(s, "spawn")
  /\ UNCHANGED <<startLock, socket, process, trouble>>

Recheck(s) ==
  /\ hook[s] = "recheck"
  /\ MoveOn(s, IF Listening THEN "release" ELSE "spawn")
  /\ UNCHANGED <<startLock, socket, process, trouble>>

Spawn(s) ==
  /\ hook[s] = "spawn"
  /\ \/ /\ \E d \in Daemons : process[d] = "off" /\ process' = [process EXCEPT ![d] = "look"]
        /\ MoveOn(s, "await")
        /\ UNCHANGED trouble
     \/ Trouble("refusal") /\ MoveOn(s, "release") /\ UNCHANGED process
  /\ UNCHANGED <<startLock, socket>>

\* waitForSocket of the session that started it, until startWait is over:
\* trouble, when a daemon is still on its way.
Await(s) ==
  /\ hook[s] = "await"
  /\ IF Listening \/ \A d \in Daemons : process[d] = "off" THEN UNCHANGED trouble ELSE Trouble("delay")
  /\ MoveOn(s, "release")
  /\ UNCHANGED <<startLock, socket, process>>

\* release removes the file at the path, whose ever it is.
ReleaseStartLock(s) ==
  /\ hook[s] = "release"
  /\ startLock' = Nothing
  /\ MoveOn(s, "idle")
  /\ UNCHANGED <<socket, process, trouble>>

\* waitForSocket of a session that found another one at it; its error is advisory.
WaitForOther(s) ==
  /\ hook[s] = "wait"
  /\ MoveOn(s, "idle")
  /\ UNCHANGED <<startLock, socket, process, trouble>>

EnsureDaemon(s) ==
  \/ LookFirst(s) \/ TakeStartLock(s) \/ JudgeStartLock(s) \/ BreakStartLock(s)
  \/ WriteStartLock(s) \/ Recheck(s) \/ Spawn(s) \/ Await(s) \/ ReleaseStartLock(s)
  \/ WaitForOther(s)

-----------------------------------------------------------------------------
(* serve: Listen, then Accept until the idle sweep closes the listener *)

Become(d, l) == process' = [process EXCEPT ![d] = l]

LookAgain(d) ==
  /\ process[d] = "look"
  /\ Become(d, IF Listening THEN "off" ELSE "clear")
  /\ UNCHANGED <<hook, startLock, socket, trouble>>

ClearSocket(d) ==
  /\ process[d] = "clear"
  /\ socket' = Nothing
  /\ Become(d, "bind")
  /\ UNCHANGED <<hook, startLock, trouble>>

\* net.Listen: connections succeed from here on. A path that is taken is refused.
Bind(d) ==
  /\ process[d] = "bind"
  /\ IF socket = Nothing THEN socket' = d /\ Become(d, "secure")
                         ELSE UNCHANGED socket /\ Become(d, "off")
  /\ UNCHANGED <<hook, startLock, trouble>>

\* Closing a listener removes the file at its path first, whose ever it is.
CloseListener(d) == socket' = Nothing /\ Become(d, "off")

Secure(d) ==
  /\ process[d] = "secure"
  /\ \/ Become(d, "serving") /\ UNCHANGED <<socket, trouble>>
     \/ Trouble("refusal") /\ CloseListener(d)
  /\ UNCHANGED <<hook, startLock>>

\* evictUntilEmpty: no repository is warm and a whole window is over.
IdleClose(d) ==
  /\ process[d] = "serving"
  /\ CloseListener(d)
  /\ UNCHANGED <<hook, startLock, trouble>>

Serving(d) == process[d] \in {"secure", "serving"}
Listen(d) == LookAgain(d) \/ ClearSocket(d) \/ Bind(d) \/ Secure(d)

-----------------------------------------------------------------------------
(* The world *)

SessionDies(s) ==
  /\ hook[s] # "idle"
  /\ Trouble("death")
  /\ MoveOn(s, "idle")
  /\ startLock' = IF startLock # Nothing /\ startLock.by = s THEN [startLock EXCEPT !.by = Dead] ELSE startLock
  /\ UNCHANGED <<socket, process>>

DaemonDies(d) ==
  /\ process[d] # "off"
  /\ Trouble("death")
  /\ Become(d, "off")
  /\ socket' = IF socket = d THEN Dead ELSE socket
  /\ UNCHANGED <<hook, startLock>>

\* A person runs `procoder serve` while a session is starting one.
ServeByHand ==
  /\ Trouble("by hand")
  /\ \E d \in Daemons : process[d] = "off" /\ Become(d, "look")
  /\ UNCHANGED <<hook, startLock, socket>>

\* startStale passes: longer than a daemon takes to listen, and than a session
\* that runs holds the lock, which waits for startWait and for nothing else.
StartStalePasses ==
  /\ \A d \in Daemons : process[d] \in {"off", "serving"}
  /\ startLock # Nothing /\ startLock.by = Dead /\ ~startLock.old
  /\ startLock' = [startLock EXCEPT !.old = TRUE]
  /\ UNCHANGED <<hook, socket, process, trouble>>

StartNext ==
  \/ \E s \in Sessions : EnsureDaemon(s) \/ SessionDies(s)
  \/ \E d \in Daemons : Listen(d) \/ IdleClose(d) \/ DaemonDies(d)
  \/ ServeByHand \/ StartStalePasses

\* Processes run, time passes, and there is always a next session; a listener
\* that is displaced is closed by its own idle sweep.
StartFairness ==
  /\ WF_startVars(StartStalePasses)
  /\ \A s \in Sessions : WF_startVars(EnsureDaemon(s))
  /\ \A d \in Daemons : WF_startVars(Listen(d)) /\ WF_startVars(socket # d /\ IdleClose(d))

StartSpec == StartInit /\ [][StartNext]_startVars /\ StartFairness

-----------------------------------------------------------------------------
(* Properties *)

StartTypeOK ==
  /\ hook \in [Sessions -> {"idle", "take", "judge", "break", "retake", "write", "recheck",
                            "spawn", "await", "release", "wait"}]
  /\ startLock \in LockFiles \cup {Nothing}
  /\ socket \in Daemons \cup {Nothing, Dead}
  /\ process \in [Daemons -> {"off", "look", "clear", "bind", "secure", "serving"}]
  /\ trouble \in 0 .. MaxTrouble

AtMostOne(d, e) == Serving(d) /\ Serving(e) => d = e

\* "exactly once however many sessions ask at the same moment": while nothing
\* has gone wrong, sessions that begin together, and daemons that leave and are
\* started again, never leave two daemons, one of them behind a socket that
\* leads to the other.
OneDaemon == trouble = 0 => \A d, e \in Daemons : AtMostOne(d, e)

\* The same, whatever has gone wrong before.
ExactlyOnce == \A d, e \in Daemons : AtMostOne(d, e)

\* Whatever died holding what, sessions that keep coming get a daemon again
\* and again: neither a dead session's lock nor a dead daemon's socket bars it.
DaemonAgain == []<>Listening
=============================================================================
