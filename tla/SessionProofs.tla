---------------------------- MODULE SessionProofs ----------------------------
(***************************************************************************)
(* What happens around the sessions of one repository, for any sessions,   *)
(* daemons, messages, files and bounds: a stop keeps what the agent wrote  *)
(* and lets a turn end on a decision that was recorded in it; sessions     *)
(* that begin together get one daemon; an index that is kept up one hook   *)
(* at a time is the tree; and only what somebody agreed to is installed,   *)
(* for any number of upgrades, faults and cuts of the release.             *)
(***************************************************************************)
EXTENDS MCSession, TLAPS

-----------------------------------------------------------------------------
(* StopHook *)

\* Only a message that asks gets past the note.
Asked == {"pending", "compare", "save_end", "save_block", "repeated", "remember"}

IStop ==
  /\ StopTypeOK
  /\ loaded \in [Agents -> [marked : BOOLEAN, texts : SUBSET Notes]]
  /\ \A a \in Agents : turn[a] \in Asked => message[a] \in Asking

LEMMA StopBegins == StopInit => IStop
BY StopAssumption DEF StopInit, IStop, StopTypeOK, Asked, Messages

LEMMA StopMoves == IStop /\ [StopNext]_stopVars => IStop'
<1> SUFFICES ASSUME IStop, [StopNext]_stopVars PROVE IStop'
  OBVIOUS
<1> USE StopAssumption DEF IStop, StopTypeOK, Asked, Messages
<1>1. ASSUME NEW a \in Agents, RecordDecision(a) \/ RecordAsked(a) PROVE IStop'
  <2>1. decisions' = decisions + 1 /\ decisions < MaxDecisions /\ fresh' \in [Agents -> BOOLEAN]
    BY <1>1 DEF RecordDecision, RecordAsked
  <2>2. decisions' \in 0 .. MaxDecisions /\ answered \in 0 .. decisions'
    BY <2>1
  <2>3. digest \in {Missing} \cup 0 .. decisions' /\ current \in [Agents -> 0 .. decisions']
    BY <2>1
  <2> QED BY <1>1, <2>1, <2>2, <2>3 DEF RecordDecision, RecordAsked
<1>2. ASSUME NEW a \in Agents, NEW m \in Messages, EndTurn(a, m) PROVE IStop'
  BY <1>2 DEF EndTurn, Pass
<1>3. ASSUME NEW a \in Agents, LoadNote(a) PROVE IStop'
  BY <1>3 DEF LoadNote, Pass
<1>4. ASSUME NEW a \in Agents, SaveNote(a) PROVE IStop'
  <2>1. note' \in [marked : BOOLEAN, texts : SUBSET Notes]
    <3>1. loaded[a].texts \subseteq Notes
      BY <1>4
    <3>2. note' = note \/ note' = [marked |-> TRUE, texts |-> loaded[a].texts]
      BY <1>4 DEF SaveNote, PreservedNotes
    <3>3. [marked |-> TRUE, texts |-> loaded[a].texts] \in [marked : BOOLEAN, texts : SUBSET Notes]
      BY <3>1
    <3> QED BY <3>2, <3>3
  <2> QED BY <1>4, <2>1 DEF SaveNote, Pass
<1>5. ASSUME NEW a \in Agents, ReadPending(a) PROVE IStop'
  BY <1>5 DEF ReadPending, Pass
<1>6. ASSUME NEW a \in Agents, CompareDigest(a) PROVE IStop'
  BY <1>6 DEF CompareDigest, Pass
<1>7. ASSUME NEW a \in Agents, SaveDigest(a) PROVE IStop'
  BY <1>7 DEF SaveDigest, Pass
<1>8. ASSUME NEW a \in Agents, AlreadyBlocked(a) PROVE IStop'
  BY <1>8 DEF AlreadyBlocked, Pass
<1>9. ASSUME NEW a \in Agents, RememberBlocked(a) PROVE IStop'
  BY <1>9 DEF RememberBlocked, Pass
<1>10. ASSUME NEW a \in Agents, NextTurn(a) PROVE IStop'
  BY <1>10 DEF NextTurn, Pass
<1>11. CASE AnswerAll
  BY <1>11 DEF AnswerAll
<1>12. ASSUME NEW t \in Notes, WriteNote(t) PROVE IStop'
  <2>1. note' \in [marked : BOOLEAN, texts : SUBSET Notes]
    <3>1. note.marked \in BOOLEAN /\ note.texts \cup {t} \subseteq Notes
      BY <1>12
    <3>2. PICK marked \in {note.marked, FALSE} : note' = [marked |-> marked, texts |-> note.texts \cup {t}]
      BY <1>12 DEF WriteNote
    <3>3. marked \in BOOLEAN
      BY <3>1, <3>2
    <3> QED BY <3>1, <3>2, <3>3
  <2> QED BY <1>12, <2>1 DEF WriteNote
<1>13. CASE UNCHANGED stopVars
  BY <1>13 DEF stopVars
<1> QED BY <1>1, <1>2, <1>3, <1>4, <1>5, <1>6, <1>7, <1>8, <1>9, <1>10, <1>11, <1>12, <1>13 DEF StopNext, Stop

\* The markers, the note and the counts of decisions stay in their ranges,
\* through every stop of every session.
THEOREM StopTyped == StopSpec => []StopTypeOK
<1>1. IStop => StopTypeOK
  BY DEF IStop
<1> QED BY <1>1, StopBegins, StopMoves, PTL DEF StopSpec

\* A turn in which a decision was recorded has a digest to find that no stop
\* before it saved.
Unseen ==
  \A a \in Agents : fresh[a] =>
    /\ answered < decisions
    /\ turn[a] \notin {"save_block", "repeated", "remember"}
    /\ turn[a] # "ended" => digest # decisions

\* A turn is not kept from ending after a decision was recorded in it
\* (decisionsChanged), where one session at a time keeps the digest.
THEOREM RecordedEnds ==
  ASSUME \A a, b \in Agents : a = b
  PROVE  StopSpec => []RecordedIsEnough
<1>1. StopInit => Unseen
  BY DEF StopInit, Unseen
<1>2. IStop /\ Unseen /\ [StopNext]_stopVars => Unseen'
  <2> SUFFICES ASSUME IStop, Unseen, [StopNext]_stopVars PROVE Unseen'
    OBVIOUS
  <2> USE StopAssumption DEF IStop, StopTypeOK, Unseen
  <2>1. ASSUME NEW a \in Agents, RecordDecision(a) \/ RecordAsked(a) PROVE Unseen'
    BY <2>1 DEF RecordDecision, RecordAsked
  <2>2. ASSUME NEW a \in Agents, \E m \in Messages : EndTurn(a, m) PROVE Unseen'
    BY <2>2 DEF EndTurn, Pass
  <2>3. ASSUME NEW a \in Agents, LoadNote(a) \/ SaveNote(a) PROVE Unseen'
    BY <2>3 DEF LoadNote, SaveNote, Pass
  <2>4. ASSUME NEW a \in Agents, ReadPending(a) PROVE Unseen'
    BY <2>4 DEF ReadPending, Pass
  <2>5. ASSUME NEW a \in Agents, CompareDigest(a) PROVE Unseen'
    BY <2>5 DEF CompareDigest, Pass
  <2>6. ASSUME NEW a \in Agents, SaveDigest(a) PROVE Unseen'
    BY <2>6 DEF SaveDigest, Pass
  <2>7. ASSUME NEW a \in Agents, AlreadyBlocked(a) \/ RememberBlocked(a) PROVE Unseen'
    BY <2>7 DEF AlreadyBlocked, RememberBlocked, Pass
  <2>8. ASSUME NEW a \in Agents, NextTurn(a) PROVE Unseen'
    BY <2>8 DEF NextTurn, Pass
  <2>9. CASE AnswerAll
    BY <2>9 DEF AnswerAll
  <2>10. ASSUME NEW t \in Notes, WriteNote(t) PROVE Unseen'
    BY <2>10 DEF WriteNote
  <2>11. CASE UNCHANGED stopVars
    BY <2>11 DEF stopVars
  <2> QED BY <2>1, <2>2, <2>3, <2>4, <2>5, <2>6, <2>7, <2>8, <2>9, <2>10, <2>11 DEF StopNext, Stop
<1>3. Unseen => RecordedIsEnough
  BY DEF Unseen, RecordedIsEnough
<1> QED BY <1>1, <1>2, <1>3, StopBegins, StopMoves, PTL DEF StopSpec

\* What a stop finds in the note it leaves there (preservedNotes), for any
\* sessions: only what was written after it looked can be lost.
THEOREM NotesStay == StopSpec => NotesKept
<1> DEFINE Loss == \A t \in note.texts \ note'.texts : \E a \in Agents : turn[a] = "save" /\ t \notin loaded[a].texts
<1>1. [StopNext]_stopVars => [Loss]_stopVars
  <2> SUFFICES ASSUME StopNext PROVE Loss
    OBVIOUS
  <2>1. CASE UNCHANGED note
    BY <2>1
  <2>2. ASSUME NEW a \in Agents, SaveNote(a) PROVE Loss
    BY <2>2 DEF SaveNote, PreservedNotes
  <2>3. ASSUME NEW t \in Notes, WriteNote(t) PROVE Loss
    BY <2>3 DEF WriteNote
  <2> QED BY <2>1, <2>2, <2>3 DEF StopNext, Stop, LoadNote, ReadPending, CompareDigest, SaveDigest, AlreadyBlocked,
          RememberBlocked, NextTurn, RecordDecision, RecordAsked, EndTurn, AnswerAll
<1> QED BY <1>1, PTL DEF StopSpec, NotesKept

-----------------------------------------------------------------------------
(* DaemonStart *)

LEMMA StartBegins == StartInit => StartTypeOK
BY StartAssumption DEF StartInit, StartTypeOK

\* Nobody died, gave up waiting or was started by hand: only calls were refused.
Undisputed == trouble = 0 \/ Troubles \subseteq {"refusal"}

UnderLock(s) == hook[s] \in {"write", "recheck", "spawn", "await", "release"}
OnItsWay(d) == process[d] \in {"look", "clear", "bind"}

\* The start lock is one session's, from its creation to its release, and is
\* never found stale.
LockIsHeld ==
  /\ startLock = Nothing \/ (startLock.by \in Sessions /\ ~startLock.old)
  /\ \A s \in Sessions : hook[s] \notin {"break", "retake"}
  /\ \A s \in Sessions : UnderLock(s) <=> (startLock # Nothing /\ startLock.by = s)

\* The socket leads to whoever serves; a daemon is on its way while a session
\* waits for it under the lock, by itself and with nothing at the socket; and
\* under the lock a session starts one only when there is none.
SocketLeads ==
  /\ \A d \in Daemons : socket = d <=> Serving(d)
  /\ \A d \in Daemons : OnItsWay(d) =>
       /\ \A e \in Daemons \ {d} : process[e] = "off"
       /\ \E s \in Sessions : hook[s] = "await"
  /\ \A d \in Daemons : process[d] = "bind" => socket = Nothing
  /\ \A s \in Sessions : hook[s] = "spawn" => \A d \in Daemons : process[d] = "off"

IStart == StartTypeOK /\ (Undisputed => LockIsHeld /\ SocketLeads)

\* The lock as a session creates it is a file.
LEMMA NewLockFile ==
  ASSUME NEW s \in Sessions
  PROVE  /\ [by |-> s, written |-> FALSE, old |-> FALSE] \in LockFiles
         /\ [by |-> s, written |-> FALSE, old |-> FALSE] # Nothing
<1>1. [by |-> s, written |-> FALSE, old |-> FALSE] \in LockFiles
  BY DEF LockFiles
<1> QED BY <1>1, StartAssumption

LEMMA StartTypesStay == StartTypeOK /\ [StartNext]_startVars => StartTypeOK'
<1> SUFFICES ASSUME StartTypeOK, [StartNext]_startVars PROVE StartTypeOK'
  OBVIOUS
<1> USE StartAssumption DEF StartTypeOK
<1>1. ASSUME NEW kind, Trouble(kind) PROVE trouble' \in 0 .. MaxTrouble
  BY <1>1 DEF Trouble
<1>2. ASSUME NEW s \in Sessions, LookFirst(s) \/ JudgeStartLock(s) \/ Recheck(s) \/ WaitForOther(s) PROVE StartTypeOK'
  BY <1>2 DEF LookFirst, JudgeStartLock, Recheck, WaitForOther, MoveOn
<1>3. ASSUME NEW s \in Sessions, TakeStartLock(s) PROVE StartTypeOK'
  <2>1. startLock' \in LockFiles \cup {Nothing}
    BY <1>3, NewLockFile DEF TakeStartLock
  <2> QED BY <1>3, <2>1 DEF TakeStartLock, MoveOn
<1>4. ASSUME NEW s \in Sessions, WriteStartLock(s) PROVE StartTypeOK'
  <2>1. startLock' \in LockFiles \cup {Nothing}
    BY <1>4 DEF WriteStartLock, LockFiles
  <2> QED BY <1>4, <2>1 DEF WriteStartLock, MoveOn
<1>5. ASSUME NEW s \in Sessions, BreakStartLock(s) \/ ReleaseStartLock(s) PROVE StartTypeOK'
  BY <1>5 DEF BreakStartLock, ReleaseStartLock, MoveOn
<1>6. ASSUME NEW s \in Sessions, Spawn(s) \/ Await(s) PROVE StartTypeOK'
  BY <1>1, <1>6 DEF Spawn, Await, MoveOn, Trouble
<1>7. ASSUME NEW d \in Daemons, Listen(d) \/ IdleClose(d) PROVE StartTypeOK'
  BY <1>1, <1>7 DEF Listen, LookAgain, ClearSocket, Bind, Secure, IdleClose, CloseListener, Become, Trouble
<1>8. ASSUME NEW s \in Sessions, SessionDies(s) PROVE StartTypeOK'
  <2>1. startLock' \in LockFiles \cup {Nothing}
    BY <1>8 DEF SessionDies, LockFiles
  <2>2. trouble' \in 0 .. MaxTrouble
    BY <1>1, <1>8 DEF SessionDies
  <2> QED BY <1>8, <2>1, <2>2 DEF SessionDies, MoveOn
<1>9. ASSUME NEW d \in Daemons, DaemonDies(d) PROVE StartTypeOK'
  <2>1. trouble' \in 0 .. MaxTrouble
    BY <1>1, <1>9 DEF DaemonDies
  <2> QED BY <1>9, <2>1 DEF DaemonDies, Become
<1>10. CASE ServeByHand
  <2>1. trouble' \in 0 .. MaxTrouble
    BY <1>1, <1>10 DEF ServeByHand
  <2> QED BY <1>10, <2>1 DEF ServeByHand, Become
<1>11. CASE StartStalePasses
  <2>1. startLock' \in LockFiles \cup {Nothing}
    BY <1>11 DEF StartStalePasses, LockFiles
  <2> QED BY <1>11, <2>1 DEF StartStalePasses
<1>12. CASE UNCHANGED startVars
  BY <1>12 DEF startVars
<1> QED BY <1>2, <1>3, <1>4, <1>5, <1>6, <1>7, <1>8, <1>9, <1>10, <1>11, <1>12 DEF StartNext, EnsureDaemon

\* The start lock, the socket and every process stay in their ranges, whatever
\* dies, is refused or takes too long.
THEOREM StartTyped == StartSpec => []StartTypeOK
BY StartBegins, StartTypesStay, PTL DEF StartSpec

\* Trouble is not undone; and none but a refusal leaves the start undisputed.
LEMMA TroubleStays ==
  ASSUME StartTypeOK, [StartNext]_startVars, Undisputed'
  PROVE  /\ Undisputed
         /\ ~Trouble("death") /\ ~Trouble("delay") /\ ~Trouble("by hand")
<1>1. trouble \in Nat /\ trouble' \in Nat /\ trouble <= trouble'
  <2> USE DEF StartTypeOK, Trouble
  <2>1. trouble \in Nat
    BY StartAssumption
  <2>2. trouble' = trouble \/ trouble' = trouble + 1
    BY DEF StartNext, EnsureDaemon, LookFirst, TakeStartLock, JudgeStartLock, BreakStartLock, WriteStartLock, Recheck,
           Spawn, Await, ReleaseStartLock, WaitForOther, Listen, LookAgain, ClearSocket, Bind, Secure, IdleClose,
           SessionDies, DaemonDies, ServeByHand, StartStalePasses, startVars
  <2> QED BY <2>1, <2>2
<1>2. Undisputed
  BY <1>1 DEF Undisputed
<1>3. ASSUME NEW kind, Trouble(kind) PROVE kind = "refusal"
  BY <1>1, <1>3 DEF Trouble, Undisputed
<1> QED BY <1>2, <1>3

\* Sessions take the lock one after another.
LEMMA LockStaysHeld ==
  ASSUME StartTypeOK, LockIsHeld, [StartNext]_startVars, Undisputed'
  PROVE  LockIsHeld'
<1> USE StartAssumption DEF StartTypeOK, LockFiles, LockIsHeld, UnderLock, MoveOn
<1>1. ASSUME NEW s \in Sessions, TakeStartLock(s) PROVE LockIsHeld'
  <2>1. [by |-> s, written |-> FALSE, old |-> FALSE] # Nothing
    BY NewLockFile
  <2> QED BY <1>1, <2>1 DEF TakeStartLock
<1>2. ASSUME NEW s \in Sessions, LookFirst(s) \/ JudgeStartLock(s) \/ Recheck(s) \/ WaitForOther(s) PROVE LockIsHeld'
  BY <1>2 DEF LookFirst, JudgeStartLock, StaleStartLock, Recheck, WaitForOther
<1>3. ASSUME NEW s \in Sessions, WriteStartLock(s) PROVE LockIsHeld'
  <2>1. startLock # Nothing /\ startLock.by = s
    BY <1>3 DEF WriteStartLock
  <2>2. startLock' = [startLock EXCEPT !.written = TRUE] /\ startLock' \in LockFiles
    BY <1>3, <2>1 DEF WriteStartLock, LockFiles
  <2>3. startLock' # Nothing /\ startLock'.by = s /\ ~startLock'.old
    BY <2>1, <2>2 DEF LockFiles
  <2> QED BY <1>3, <2>1, <2>3 DEF WriteStartLock
<1>4. ASSUME NEW s \in Sessions, Spawn(s) \/ Await(s) PROVE LockIsHeld'
  BY <1>4 DEF Spawn, Await
<1>5. ASSUME NEW s \in Sessions, ReleaseStartLock(s) PROVE LockIsHeld'
  BY <1>5 DEF ReleaseStartLock
<1>6. ASSUME NEW d \in Daemons, Listen(d) \/ IdleClose(d) PROVE LockIsHeld'
  BY <1>6 DEF Listen, LookAgain, ClearSocket, Bind, Secure, IdleClose
<1>7. CASE StartStalePasses
  BY <1>7 DEF StartStalePasses
<1>8. CASE UNCHANGED startVars
  BY <1>8 DEF startVars
<1>9. ASSUME NEW s \in Sessions PROVE ~BreakStartLock(s) /\ ~SessionDies(s)
  BY TroubleStays DEF BreakStartLock, SessionDies
<1>10. ~ServeByHand /\ \A d \in Daemons : ~DaemonDies(d)
  BY TroubleStays DEF ServeByHand, DaemonDies
<1> QED BY <1>1, <1>2, <1>3, <1>4, <1>5, <1>6, <1>7, <1>8, <1>9, <1>10 DEF StartNext, EnsureDaemon

\* A daemon is started where there is none, and has the socket to itself until it
\* leaves.
LEMMA SocketStaysTrue ==
  ASSUME StartTypeOK, LockIsHeld, SocketLeads, [StartNext]_startVars, Undisputed'
  PROVE  SocketLeads'
<1> USE StartAssumption DEF StartTypeOK, SocketLeads, Serving, OnItsWay, MoveOn, Become
<1>1. ASSUME NEW s \in Sessions,
             LookFirst(s) \/ TakeStartLock(s) \/ JudgeStartLock(s) \/ WriteStartLock(s) \/ ReleaseStartLock(s)
               \/ WaitForOther(s)
      PROVE  SocketLeads'
  BY <1>1 DEF LookFirst, TakeStartLock, JudgeStartLock, WriteStartLock, ReleaseStartLock, WaitForOther
<1>2. ASSUME NEW s \in Sessions, Recheck(s) PROVE SocketLeads'
  <2>1. \A r \in Sessions : hook[r] # "await"
    BY <1>2 DEF Recheck, LockIsHeld, UnderLock
  <2>2. ~Listening => \A d \in Daemons : process[d] = "off"
    BY <2>1 DEF Listening
  <2> QED BY <1>2, <2>1, <2>2 DEF Recheck
<1>3. ASSUME NEW s \in Sessions, Spawn(s) PROVE SocketLeads'
  <2>1. \A r \in Sessions \ {s} : hook[r] # "spawn"
    BY <1>3 DEF Spawn, LockIsHeld, UnderLock
  <2>2. \A d \in Daemons : process[d] = "off"
    BY <1>3 DEF Spawn
  <2> QED BY <1>3, <2>1, <2>2 DEF Spawn
<1>4. ASSUME NEW s \in Sessions, Await(s) PROVE SocketLeads'
  <2>1. Listening \/ \A d \in Daemons : process[d] = "off"
    BY <1>4, TroubleStays DEF Await
  <2>2. \A d \in Daemons : ~OnItsWay(d)
    BY <2>1 DEF Listening
  <2> QED BY <1>4, <2>2 DEF Await
<1>5. ASSUME NEW d \in Daemons, LookAgain(d) PROVE SocketLeads'
  BY <1>5 DEF LookAgain, Listening
<1>6. ASSUME NEW d \in Daemons, ClearSocket(d) PROVE SocketLeads'
  BY <1>6 DEF ClearSocket
<1>7. ASSUME NEW d \in Daemons, Bind(d) PROVE SocketLeads'
  BY <1>7 DEF Bind
<1>8. ASSUME NEW d \in Daemons, Secure(d) PROVE SocketLeads'
  BY <1>8 DEF Secure, CloseListener
<1>9. ASSUME NEW d \in Daemons, IdleClose(d) PROVE SocketLeads'
  BY <1>9 DEF IdleClose, CloseListener
<1>10. CASE StartStalePasses
  BY <1>10 DEF StartStalePasses
<1>11. CASE UNCHANGED startVars
  BY <1>11 DEF startVars
<1>12. ASSUME NEW s \in Sessions PROVE ~BreakStartLock(s) /\ ~SessionDies(s)
  BY TroubleStays DEF BreakStartLock, SessionDies, LockIsHeld
<1>13. ~ServeByHand /\ \A d \in Daemons : ~DaemonDies(d)
  BY TroubleStays DEF ServeByHand, DaemonDies
<1> QED BY <1>1, <1>2, <1>3, <1>4, <1>5, <1>6, <1>7, <1>8, <1>9, <1>10, <1>11, <1>12, <1>13
        DEF StartNext, EnsureDaemon, Listen

\* The inductive invariant of the start: its types, and, while nothing but calls
\* that were refused has gone wrong, what holds of the lock and of the socket.
THEOREM StartInvariant == StartSpec => []IStart
<1>1. StartInit => IStart
  BY StartBegins, StartAssumption DEF StartInit, IStart, LockIsHeld, SocketLeads, UnderLock, Serving, OnItsWay
<1>2. IStart /\ [StartNext]_startVars => IStart'
  BY StartTypesStay, TroubleStays, LockStaysHeld, SocketStaysTrue DEF IStart
<1> QED BY <1>1, <1>2, PTL DEF StartSpec

\* Sessions that begin together, and daemons that leave and are started again,
\* never leave two daemons, while nothing has gone wrong (EnsureDaemon, Listen).
THEOREM OneAtMost == StartSpec => []OneDaemon
<1>1. IStart => OneDaemon
  BY DEF IStart, Undisputed, SocketLeads, OneDaemon, AtMostOne
<1> QED BY <1>1, StartInvariant, PTL

\* The same, where a start or a listener may be refused, but nobody dies, gives
\* up waiting or starts a daemon by hand: what "exactly once however many sessions
\* ask" needs.
THEOREM OnceUnlessKilled == ASSUME Troubles \subseteq {"refusal"} PROVE StartSpec => []ExactlyOnce
<1>1. IStart => ExactlyOnce
  BY DEF IStart, Undisputed, SocketLeads, ExactlyOnce, AtMostOne
<1> QED BY <1>1, StartInvariant, PTL

-----------------------------------------------------------------------------
(* CodeIndex *)

LineSet == Files \X (1 .. MaxVersion)

ITags ==
  /\ IndexTypeOK
  /\ refresh \in [Hooks -> [at : {"idle", "stat", "load", "save"}, file : Files \cup {Absent},
                            fresh : SUBSET LineSet, old : SUBSET LineSet]]
  /\ build \in [Builders -> [at : {"idle", "list", "read", "meta"}, listed : SUBSET Files, lines : SUBSET LineSet]]
  /\ \A h \in Hooks : /\ refresh[h].at # "idle" => refresh[h].file \in Files
                      /\ refresh[h].at = "load" => tags \subseteq LineSet
  /\ \A b \in Builders : build[b].at = "list" => build[b].lines = {}

\* What a build or the index is undisturbed by: anybody else at work.
NobodyBeside ==
  /\ \A b \in Builders \cap undisturbed : build[b].at # "idle" /\ Alone(b)
  /\ "index" \in undisturbed =>
       /\ tags \subseteq LineSet
       /\ \A x, y \in Hooks \cup Builders : Active(x) /\ Active(y) => x = y
       /\ \A b \in Builders : build[b].at # "idle" => b \in undisturbed

\* What an undisturbed build has read and saved is the tree.
BuildIsTheTree ==
  \A b \in Builders \cap undisturbed :
    /\ build[b].at = "read" => /\ build[b].listed \subseteq There
                               /\ build[b].lines = Lines(There \ build[b].listed)
    /\ build[b].at = "meta" => tags = Lines(Files)

\* The tags are the tree's, as far as these files go.
UpToDate(fs) ==
  \A f \in fs : /\ f \in There => <<f, tree[f]>> \in tags
                /\ f \notin Escaped => \A v \in 1 .. MaxVersion : <<f, v>> \in tags => f \in There /\ v = tree[f]

BeingRefreshed == {refresh[h].file : h \in {k \in Hooks : refresh[k].at # "idle"}}

\* But for the file that a hook is at, an undisturbed index is the tree; and the
\* hook has that file's lines, and the others', as they are.
KeptUp ==
  "index" \in undisturbed =>
    /\ UpToDate(Files \ BeingRefreshed)
    /\ \A h \in Hooks : /\ refresh[h].at \in {"load", "save"} => refresh[h].fresh = Lines({refresh[h].file})
                        /\ refresh[h].at = "save" => refresh[h].old = tags

IIndex == ITags /\ NobodyBeside /\ BuildIsTheTree /\ KeptUp

LEMMA LinesAre ==
  ASSUME IndexTypeOK, NEW fs
  PROVE  /\ Lines(fs) \subseteq LineSet
         /\ \A f, v : <<f, v>> \in Lines(fs) <=> f \in fs \cap There /\ v = tree[f]
<1> DEFINE line(f) == <<f, tree[f]>>
<1>1. \A f \in fs \cap There : line(f) \in LineSet
  BY DEF There, LineSet, IndexTypeOK
<1>2. \A f, v : <<f, v>> \in Lines(fs) <=> f \in fs \cap There /\ v = tree[f]
  BY DEF Lines
<1> QED BY <1>1, <1>2 DEF Lines

LEMMA FileIsWritten ==
  ASSUME IndexTypeOK, NEW f \in Files, Write(f)
  PROVE  tree' \in [Files -> 1 .. MaxVersion] /\ \A g \in Files \ {f} : tree'[g] = tree[g]
BY IndexAssumption DEF IndexTypeOK, Write, Written

LEMMA IndexBegins == IndexInit => IIndex
BY IndexAssumption DEF IndexInit, IIndex, ITags, IndexTypeOK, NoRefresh, NoBuild, NobodyBeside, BuildIsTheTree, KeptUp,
   LineSet

LEMMA TagsStayTyped == ITags /\ [IndexNext]_indexVars => ITags'
<1> SUFFICES ASSUME ITags, [IndexNext]_indexVars PROVE ITags'
  OBVIOUS
<1>a. IndexTypeOK
  BY DEF ITags
<1>b. \A fs : Lines(fs) \subseteq LineSet
  BY <1>a, LinesAre
<1>c. \A x : Beside(x) \subseteq undisturbed
  BY DEF Beside
<1>d. tags = Absent \/ tags \subseteq LineSet
  BY <1>a DEF IndexTypeOK, LineSet
<1> USE IndexAssumption DEF ITags, NoRefresh, NoBuild
<1>1. ASSUME NEW h \in Hooks, NEW f \in Files, AgentWrites(h, f) PROVE ITags'
  <2>1. tree' \in [Files -> 1 .. MaxVersion]
    BY <1>1, <1>a, FileIsWritten DEF AgentWrites
  <2>2. IndexTypeOK'
    BY <1>1, <1>c, <2>1 DEF AgentWrites, IndexTypeOK
  <2> QED BY <1>1, <2>2 DEF AgentWrites
<1>2. ASSUME NEW h \in Hooks, RunCtags(h) PROVE ITags'
  <2>1. IndexTypeOK'
    BY <1>2 DEF RunCtags, IndexTypeOK
  <2> QED BY <1>2, <1>b, <1>d, <2>1 DEF RunCtags, EndRefresh
<1>3. ASSUME NEW h \in Hooks, LoadTags(h) PROVE ITags'
  <2>1. IndexTypeOK'
    BY <1>3 DEF LoadTags, IndexTypeOK
  <2>2. refresh[h].at = "load" /\ tags \in SUBSET LineSet
    BY <1>3 DEF LoadTags
  <2>3. refresh' = [refresh EXCEPT ![h] = [refresh[h] EXCEPT !.at = "save", !.old = tags]]
    BY <1>3 DEF LoadTags
  <2>4. \A k \in Hooks : /\ refresh'[k].at # "idle" => refresh'[k].file \in Files
                         /\ refresh'[k].at = "load" => tags \subseteq LineSet
    BY <2>2, <2>3
  <2> QED BY <1>3, <2>1, <2>2, <2>3, <2>4 DEF LoadTags
<1>4. ASSUME NEW h \in Hooks, SaveRefreshed(h) PROVE ITags'
  <2>1. tags' = tags \/ tags' \subseteq LineSet
    BY <1>4 DEF SaveRefreshed
  <2>2. IndexTypeOK'
    BY <1>4, <1>c, <2>1 DEF SaveRefreshed, IndexTypeOK, LineSet
  <2> QED BY <1>4, <2>1, <2>2 DEF SaveRefreshed, EndRefresh
<1>5. ASSUME NEW b \in Builders, StartBuild(b) PROVE ITags'
  <2>1. IndexTypeOK'
    BY <1>5, <1>c DEF StartBuild, IndexTypeOK
  <2> QED BY <1>5, <2>1 DEF StartBuild
<1>6. ASSUME NEW b \in Builders, ListFiles(b) PROVE ITags'
  <2>1. IndexTypeOK'
    BY <1>6 DEF ListFiles, FailBuild, IndexTypeOK
  <2> QED BY <1>6, <2>1 DEF ListFiles, FailBuild, There
<1>7. ASSUME NEW b \in Builders, ReadFile(b) PROVE ITags'
  <2>1. IndexTypeOK'
    BY <1>7 DEF ReadFile, IndexTypeOK
  <2>2. PICK f \in build[b].listed :
           build' = [build EXCEPT ![b].listed = @ \ {f}, ![b].lines = @ \cup Lines({f})]
    BY <1>7 DEF ReadFile
  <2>3. build' = [build EXCEPT ![b] = [build[b] EXCEPT !.listed = @ \ {f}, !.lines = @ \cup Lines({f})]]
    BY <2>2
  <2>4. build[b].lines \cup Lines({f}) \in SUBSET LineSet /\ build[b].listed \ {f} \in SUBSET Files
    BY <1>b
  <2>5. UNCHANGED <<refresh, tags>>
    BY <1>7 DEF ReadFile
  <2>6. build' \in [Builders -> [at : {"idle", "list", "read", "meta"}, listed : SUBSET Files, lines : SUBSET LineSet]]
    <3> DEFINE B == [at : {"idle", "list", "read", "meta"}, listed : SUBSET Files, lines : SUBSET LineSet]
    <3>1. build \in [Builders -> B] /\ build[b] \in B
      OBVIOUS
    <3>2. [build[b] EXCEPT !.listed = @ \ {f}, !.lines = @ \cup Lines({f})] \in B
      BY <2>4, <3>1
    <3> HIDE DEF B
    <3>3. build' \in [Builders -> B]
      BY <2>3, <3>1, <3>2
    <3> QED BY <3>3 DEF B
  <2>7. \A c \in Builders : build'[c].at = "list" => build'[c].lines = {}
    BY <1>7, <2>3 DEF ReadFile
  <2> QED BY <2>1, <2>5, <2>6, <2>7
<1>8. ASSUME NEW b \in Builders, SaveTags(b) PROVE ITags'
  <2>1. tags' = tags \/ tags' \subseteq LineSet
    BY <1>8 DEF SaveTags
  <2>2. IndexTypeOK'
    BY <1>8, <1>c, <2>1 DEF SaveTags, FailBuild, IndexTypeOK, LineSet
  <2> QED BY <1>8, <2>1, <2>2 DEF SaveTags, FailBuild, Building
<1>9. ASSUME NEW b \in Builders, SaveMeta(b) PROVE ITags'
  <2>1. IndexTypeOK'
    BY <1>9 DEF SaveMeta, FailBuild, IndexTypeOK
  <2> QED BY <1>9, <2>1 DEF SaveMeta, FailBuild
<1>10. ASSUME NEW f \in Files, EditElsewhere(f) PROVE ITags'
  <2>1. tree' \in [Files -> 1 .. MaxVersion]
    BY <1>10, <1>a, FileIsWritten DEF EditElsewhere, IndexTypeOK
  <2>2. IndexTypeOK'
    BY <1>10, <2>1 DEF EditElsewhere, IndexTypeOK
  <2> QED BY <1>10, <2>2 DEF EditElsewhere
<1>11. CASE MoveHead
  <2>1. tree' \in [Files -> 1 .. MaxVersion]
    BY <1>11, <1>a, FileIsWritten DEF MoveHead, IndexTypeOK
  <2>2. IndexTypeOK'
    BY <1>11, <2>1 DEF MoveHead, IndexTypeOK
  <2> QED BY <1>11, <2>2 DEF MoveHead
<1>12. CASE UNCHANGED indexVars
  BY <1>12 DEF indexVars, IndexTypeOK
<1> QED BY <1>1, <1>2, <1>3, <1>4, <1>5, <1>6, <1>7, <1>8, <1>9, <1>10, <1>11, <1>12
        DEF IndexNext, Refresh, Build, RebuildIfStale

LEMMA WhoIsActive ==
  /\ \A h \in Hooks : Active(h) <=> refresh[h].at # "idle"
  /\ \A b \in Builders : Active(b) <=> build[b].at # "idle"
BY IndexAssumption DEF Active

\* Beside whoever was alone when it began nobody begins undisturbed.
LEMMA NobodyStaysBeside == ITags /\ NobodyBeside /\ BuildIsTheTree /\ [IndexNext]_indexVars => NobodyBeside'
<1> SUFFICES ASSUME ITags, NobodyBeside, BuildIsTheTree, [IndexNext]_indexVars PROVE NobodyBeside'
  OBVIOUS
<1>t. ITags'
  BY TagsStayTyped
<1> USE IndexAssumption DEF NobodyBeside, Alone, Active, ITags, NoRefresh, NoBuild
<1>1. ASSUME NEW h \in Hooks, NEW f \in Files, AgentWrites(h, f) PROVE NobodyBeside'
  BY <1>1 DEF AgentWrites, Beside
<1>2. ASSUME NEW h \in Hooks, RunCtags(h) PROVE NobodyBeside'
  <2>1. UNCHANGED <<tags, build>> /\ undisturbed' \subseteq undisturbed
    BY <1>2 DEF RunCtags
  <2>2. \A k \in Hooks : refresh'[k].at # "idle" => refresh[k].at # "idle"
    BY <1>2 DEF RunCtags, EndRefresh
  <2>3. \A x \in Hooks \cup Builders : Active(x)' => Active(x)
    BY <2>1, <2>2
  <2> HIDE DEF Active, ITags
  <2>4. \A b \in Builders \cap undisturbed' : build'[b].at # "idle" /\ Alone(b)'
    BY <2>1, <2>3
  <2>5. \A x, y \in Hooks \cup Builders : "index" \in undisturbed' /\ Active(x)' /\ Active(y)' => x = y
    BY <2>1, <2>3
  <2>6. "index" \in undisturbed' => tags' \subseteq LineSet
    BY <2>1
  <2>7. "index" \in undisturbed' => \A b \in Builders : build'[b].at # "idle" => b \in undisturbed'
    BY <1>2, <2>1 DEF RunCtags
  <2> QED BY <2>4, <2>5, <2>6, <2>7
<1>3. ASSUME NEW h \in Hooks, LoadTags(h) PROVE NobodyBeside'
  BY <1>3 DEF LoadTags
<1>4. ASSUME NEW h \in Hooks, SaveRefreshed(h) PROVE NobodyBeside'
  BY <1>4 DEF SaveRefreshed, EndRefresh, Beside
<1>5. ASSUME NEW b \in Builders, StartBuild(b) PROVE NobodyBeside'
  BY <1>5 DEF StartBuild, Beside
<1>6. ASSUME NEW b \in Builders, ListFiles(b) PROVE NobodyBeside'
  BY <1>6 DEF ListFiles, FailBuild
<1>7. ASSUME NEW b \in Builders, ReadFile(b) PROVE NobodyBeside'
  BY <1>7 DEF ReadFile
<1>8. ASSUME NEW b \in Builders, SaveTags(b) PROVE NobodyBeside'
  BY <1>8 DEF SaveTags, FailBuild, Building, Beside
<1>9. ASSUME NEW b \in Builders, SaveMeta(b) PROVE NobodyBeside'
  <2>1. b \in undisturbed => tags \subseteq LineSet
    <3>1. IndexTypeOK
      OBVIOUS
    <3>2. Lines(Files) \subseteq LineSet
      BY <3>1, LinesAre
    <3>3. b \in undisturbed => tags = Lines(Files)
      BY <1>9 DEF SaveMeta, BuildIsTheTree
    <3> QED BY <3>2, <3>3
  <2>2. \A c \in Builders \ {b} : build'[c] = build[c]
    BY <1>9 DEF SaveMeta, FailBuild
  <2>3. build'[b].at = "idle" /\ UNCHANGED <<tags, refresh>>
    BY <1>9 DEF SaveMeta, FailBuild
  <2>4. b \in undisturbed => \A x \in Hooks \cup Builders : ~Active(x)'
    BY <2>2, <2>3
  <2>5. Builders \cap undisturbed' = {}
    BY <1>9 DEF SaveMeta, FailBuild
  <2>6. "index" \in undisturbed' => "index" \in undisturbed \/ b \in undisturbed
    BY <1>9 DEF SaveMeta, FailBuild
  <2>7. CASE b \in undisturbed
    BY <2>1, <2>2, <2>3, <2>4, <2>5, <2>7
  <2>8. CASE b \notin undisturbed
    BY <1>9, <2>2, <2>3, <2>5, <2>6, <2>8 DEF SaveMeta
  <2> QED BY <2>7, <2>8
<1>10. ASSUME NEW f \in Files, EditElsewhere(f) PROVE NobodyBeside'
  BY <1>10 DEF EditElsewhere
<1>11. CASE MoveHead
  BY <1>11 DEF MoveHead
<1>12. CASE UNCHANGED indexVars
  BY <1>12 DEF indexVars
<1> QED BY <1>1, <1>2, <1>3, <1>4, <1>5, <1>6, <1>7, <1>8, <1>9, <1>10, <1>11, <1>12
        DEF IndexNext, Refresh, Build, RebuildIfStale

\* A build that nothing happens beside lists, reads and saves one tree.
LEMMA BuildStaysTheTree == ITags /\ NobodyBeside /\ BuildIsTheTree /\ [IndexNext]_indexVars => BuildIsTheTree'
<1> SUFFICES ASSUME ITags, NobodyBeside, BuildIsTheTree, [IndexNext]_indexVars PROVE BuildIsTheTree'
  OBVIOUS
<1> USE IndexAssumption DEF BuildIsTheTree
<1>1. ASSUME NEW h \in Hooks, NEW f \in Files, AgentWrites(h, f) PROVE BuildIsTheTree'
  BY <1>1 DEF AgentWrites, Beside
<1>2. ASSUME NEW h \in Hooks, Refresh(h) PROVE BuildIsTheTree'
  <2>1. Active(h)
    BY <1>2, WhoIsActive DEF Refresh, RunCtags, LoadTags, SaveRefreshed
  <2>2. Builders \cap undisturbed = {}
    BY <2>1 DEF NobodyBeside, Alone
  <2>3. undisturbed' \subseteq undisturbed
    BY <1>2 DEF Refresh, RunCtags, LoadTags, SaveRefreshed, Beside
  <2> QED BY <2>2, <2>3
<1>3. ASSUME NEW b \in Builders, StartBuild(b) PROVE BuildIsTheTree'
  BY <1>3 DEF StartBuild, Beside, ITags
<1>4. ASSUME NEW b \in Builders, build[b].at # "idle" PROVE Builders \cap undisturbed \subseteq {b}
  BY <1>4, WhoIsActive DEF NobodyBeside, Alone
<1>5. ASSUME NEW b \in Builders, ListFiles(b) PROVE BuildIsTheTree'
  <2>1. CASE FailBuild(b)
    BY <1>4, <1>5, <2>1 DEF ListFiles, FailBuild
  <2>2. CASE build' = [build EXCEPT ![b].at = "read", ![b].listed = There] /\ UNCHANGED undisturbed
    <3>1. build'[b].at = "read" /\ build'[b].listed = There /\ build'[b].lines = {}
      BY <1>5, <2>2 DEF ListFiles, ITags
    <3>2. UNCHANGED <<There, tree>> /\ Lines({})' = {}
      BY <1>5 DEF ListFiles, There, Lines
    <3>3. Builders \cap undisturbed' \subseteq {b}
      BY <1>4, <1>5, <2>2 DEF ListFiles
    <3>4. Lines(There \ There)' = {}
      BY <3>2 DEF Lines
    <3> QED BY <3>1, <3>2, <3>3, <3>4
  <2> QED BY <1>5, <2>1, <2>2 DEF ListFiles
<1>6. ASSUME NEW b \in Builders, ReadFile(b) PROVE BuildIsTheTree'
  <2>1. PICK f \in build[b].listed :
           build' = [build EXCEPT ![b].listed = @ \ {f}, ![b].lines = @ \cup Lines({f})]
    BY <1>6 DEF ReadFile
  <2>2. CASE b \notin undisturbed
    BY <1>4, <1>6, <2>2 DEF ReadFile
  <2>3. CASE b \in undisturbed
    <3>1. build[b].listed \subseteq There /\ build[b].lines = Lines(There \ build[b].listed)
      BY <1>6, <2>3 DEF ReadFile
    <3>2. /\ build'[b].at = "read" /\ build'[b].listed = build[b].listed \ {f}
          /\ build'[b].lines = build[b].lines \cup Lines({f})
      <4>1. build' = [build EXCEPT ![b] = [build[b] EXCEPT !.listed = @ \ {f}, !.lines = @ \cup Lines({f})]]
        BY <2>1
      <4>2. build[b].at = "read"
        BY <1>6 DEF ReadFile
      <4>3. build \in [Builders -> [at : {"idle", "list", "read", "meta"}, listed : SUBSET Files, lines : SUBSET LineSet]]
        BY DEF ITags
      <4> QED BY <4>1, <4>2, <4>3
    <3>3. Lines(There \ build[b].listed) \cup Lines({f}) = Lines(There \ (build[b].listed \ {f}))
      BY <2>1, <3>1 DEF Lines
    <3>4. UNCHANGED <<tree, tags, undisturbed, There>> /\ \A fs : Lines(fs)' = Lines(fs')
      BY <1>6 DEF ReadFile, There, Lines
    <3>5. build'[b].listed \subseteq There' /\ build'[b].lines = Lines(There \ build[b].listed)'
      BY <3>1, <3>2, <3>3, <1>6 DEF ReadFile, There, Lines
    <3>6. Builders \cap undisturbed' \subseteq {b}
      BY <1>4, <1>6 DEF ReadFile
    <3> QED BY <3>2, <3>5, <3>6
  <2> QED BY <2>2, <2>3
<1>7. ASSUME NEW b \in Builders, SaveTags(b) PROVE BuildIsTheTree'
  <2>1. Builders \cap undisturbed' \subseteq {b}
    BY <1>4, <1>7 DEF SaveTags, FailBuild, Beside
  <2>2. CASE FailBuild(b)
    BY <2>1, <2>2 DEF FailBuild
  <2>3. CASE tags' = build[b].lines /\ Building(b, "meta") /\ undisturbed' = Beside(b)
    <3>1. build'[b].at = "meta"
      BY <2>3 DEF Building, ITags
    <3>2. b \in undisturbed => build[b].lines = Lines(Files)
      BY <1>7 DEF SaveTags, Lines, There
    <3>3. Lines(Files)' = Lines(Files)
      BY <1>7 DEF SaveTags, Lines, There
    <3> QED BY <2>1, <2>3, <3>1, <3>2, <3>3 DEF Beside
  <2> QED BY <1>7, <2>2, <2>3 DEF SaveTags
<1>8. ASSUME NEW b \in Builders, SaveMeta(b) PROVE BuildIsTheTree'
  <2>1. Builders \cap undisturbed' = {}
    BY <1>4, <1>8 DEF SaveMeta, FailBuild
  <2> QED BY <2>1
<1>9. ASSUME NEW f \in Files, EditElsewhere(f) PROVE BuildIsTheTree'
  BY <1>9 DEF EditElsewhere
<1>10. CASE MoveHead
  BY <1>10 DEF MoveHead, There, Lines
<1>11. CASE UNCHANGED indexVars
  BY <1>11 DEF indexVars, There, Lines
<1> QED BY <1>1, <1>2, <1>3, <1>5, <1>6, <1>7, <1>8, <1>9, <1>10, <1>11
        DEF IndexNext, Build, RebuildIfStale

\* What is saved of the whole tree is up to date with every part of it.
LEMMA TreeIsUpToDate ==
  ASSUME ITags, tags = Lines(Files), NEW fs \in SUBSET Files
  PROVE  UpToDate(fs)
BY LinesAre DEF UpToDate, ITags, There

\* Where nobody is at work, nothing is being refreshed.
LEMMA NothingRefreshed == (\A x \in Hooks \cup Builders : ~Active(x)) => BeingRefreshed = {}
BY WhoIsActive DEF BeingRefreshed

\* A hook that is alone is at its own file, and a build that is alone at none.
LEMMA OwnFile ==
  /\ \A h \in Hooks : Active(h) /\ Alone(h) => BeingRefreshed = {refresh[h].file}
  /\ \A b \in Builders : Alone(b) => BeingRefreshed = {}
BY WhoIsActive, IndexAssumption DEF BeingRefreshed, Alone

\* A refresh that runs alone leaves no line of its file but those ctags gave for
\* it, and every other line as it was.
LEMMA KeepsUp == ITags /\ NobodyBeside /\ BuildIsTheTree /\ KeptUp /\ [IndexNext]_indexVars => KeptUp'
<1> SUFFICES ASSUME ITags, NobodyBeside, BuildIsTheTree, KeptUp, [IndexNext]_indexVars, "index" \in undisturbed'
             PROVE  /\ UpToDate(Files \ BeingRefreshed)'
                    /\ \A h \in Hooks : /\ refresh'[h].at \in {"load", "save"} =>
                                             refresh'[h].fresh = Lines({refresh[h].file})'
                                        /\ refresh'[h].at = "save" => refresh'[h].old = tags'
  BY DEF KeptUp
<1> DEFINE OfHooks == \A h \in Hooks : /\ refresh'[h].at \in {"load", "save"} =>
                                             refresh'[h].fresh = Lines({refresh[h].file})'
                                       /\ refresh'[h].at = "save" => refresh'[h].old = tags'
           Goal == UpToDate(Files \ BeingRefreshed)' /\ OfHooks
<1>t. tree \in [Files -> 1 .. MaxVersion]
  BY DEF ITags, IndexTypeOK
<1>l. ASSUME UNCHANGED tree PROVE \A fs : Lines(fs)' = Lines(fs')
  BY <1>l DEF Lines, There
<1>0. CASE UNCHANGED <<tree, tags>> /\ "index" \in undisturbed /\ UNCHANGED refresh
  BY <1>0 DEF KeptUp, UpToDate, BeingRefreshed, Lines, There
<1>1. ASSUME NEW h \in Hooks, NEW f \in Files, AgentWrites(h, f) PROVE Goal
  <2>1. "index" \in undisturbed /\ Alone(h) /\ ~Active(h)
    BY <1>1, WhoIsActive, IndexAssumption DEF AgentWrites, Beside
  <2>2. UpToDate(Files)
    BY <2>1, NothingRefreshed DEF Alone, KeptUp
  <2>3. BeingRefreshed' = {f}
    BY <1>1, <2>1, WhoIsActive DEF AgentWrites, Alone, BeingRefreshed, ITags, NoRefresh
  <2>4. \A g \in Files \ {f} : tree'[g] = tree[g]
    BY <1>1, FileIsWritten DEF AgentWrites, ITags
  <2>5. UpToDate(Files \ {f})'
    BY <1>1, <1>t, <2>2, <2>4 DEF AgentWrites, UpToDate, There
  <2>6. \A k \in Hooks : refresh'[k].at \in {"idle", "stat"}
    BY <1>1, <2>1, WhoIsActive DEF AgentWrites, Alone, ITags, NoRefresh
  <2> QED BY <2>3, <2>5, <2>6
<1>2. ASSUME NEW h \in Hooks, RunCtags(h) PROVE Goal
  <2>1. /\ refresh' = [refresh EXCEPT ![h].at = "load", ![h].fresh = Lines({refresh[h].file})]
        /\ UNCHANGED undisturbed
    BY <1>2 DEF RunCtags
  <2>2. BeingRefreshed' = BeingRefreshed
    BY <1>2, <2>1 DEF RunCtags, BeingRefreshed, ITags
  <2>3. UpToDate(Files \ BeingRefreshed)'
    BY <1>2, <2>1, <2>2 DEF RunCtags, KeptUp, UpToDate, There
  <2>4. OfHooks
    <3> SUFFICES ASSUME NEW k \in Hooks
                 PROVE  /\ refresh'[k].at \in {"load", "save"} => refresh'[k].fresh = Lines({refresh[k].file})'
                        /\ refresh'[k].at = "save" => refresh'[k].old = tags'
      OBVIOUS
    <3>1. UNCHANGED <<tree, tags>> /\ \A fs : Lines(fs)' = Lines(fs')
      BY <1>2, <1>l DEF RunCtags
    <3>2. CASE k = h
      <4>1. refresh'[h].at = "load" /\ refresh'[h].fresh = Lines({refresh[h].file}) /\ refresh'[h].file = refresh[h].file
        BY <2>1 DEF ITags
      <4> QED BY <3>1, <3>2, <4>1
    <3>3. CASE k # h
      <4>1. refresh'[k] = refresh[k]
        BY <2>1, <3>3 DEF ITags
      <4> QED BY <2>1, <3>1, <4>1 DEF KeptUp
    <3> QED BY <3>2, <3>3
  <2> QED BY <2>3, <2>4
<1>3. ASSUME NEW h \in Hooks, LoadTags(h) PROVE Goal
  <2>1. refresh' = [refresh EXCEPT ![h].at = "save", ![h].old = tags] /\ UNCHANGED <<tags, undisturbed>>
    BY <1>3 DEF LoadTags
  <2>2. BeingRefreshed' = BeingRefreshed
    BY <1>3, <2>1 DEF LoadTags, BeingRefreshed, ITags
  <2>3. UpToDate(Files \ BeingRefreshed)'
    BY <1>3, <2>1, <2>2 DEF LoadTags, KeptUp, UpToDate, There
  <2>4. OfHooks
    <3>1. UNCHANGED tree /\ "index" \in undisturbed /\ refresh[h].at = "load"
      BY <1>3, <2>1 DEF LoadTags
    <3>2. \A k \in Hooks : refresh'[k].file = refresh[k].file /\ refresh'[k].fresh = refresh[k].fresh
      BY <2>1 DEF ITags
    <3>3. \A k \in Hooks : refresh'[k].at \in {"load", "save"} => refresh[k].at \in {"load", "save"}
      BY <2>1, <3>1 DEF ITags
    <3>4. \A k \in Hooks : refresh'[k].at \in {"load", "save"} => refresh'[k].fresh = Lines({refresh[k].file})'
      BY <1>l, <3>1, <3>2, <3>3 DEF KeptUp
    <3>5. \A k \in Hooks : refresh'[k].at = "save" => refresh'[k].old = tags'
      BY <2>1, <3>1 DEF KeptUp, ITags
    <3> QED BY <3>4, <3>5
  <2> QED BY <2>3, <2>4
<1>4. ASSUME NEW h \in Hooks, SaveRefreshed(h) PROVE Goal
  <2> DEFINE f == refresh[h].file
  <2>1. /\ "index" \in undisturbed /\ Alone(h) /\ Active(h)
        /\ tags' = (refresh[h].old \ LinesOf(f, refresh[h].old)) \cup refresh[h].fresh
    BY <1>4, WhoIsActive, IndexAssumption DEF SaveRefreshed, Beside
  <2>2. refresh[h].old = tags /\ refresh[h].fresh = Lines({f}) /\ f \in Files
    BY <1>4, <2>1 DEF SaveRefreshed, KeptUp, ITags
  <2>3. UpToDate(Files \ {f})
    BY <2>1, OwnFile DEF KeptUp
  <2>4. BeingRefreshed' = {}
    BY <1>4, <2>1, WhoIsActive DEF SaveRefreshed, EndRefresh, Alone, BeingRefreshed, ITags, NoRefresh
  <2>5. \A g, v : <<g, v>> \in tags' <=> \/ <<g, v>> \in tags /\ ~(g = f /\ f \notin Escaped)
                                         \/ g = f /\ f \in There /\ v = tree[f]
    <3>1. \A g, v : <<g, v>> \in LinesOf(f, tags) <=> <<g, v>> \in tags /\ g = f /\ f \notin Escaped
      BY DEF LinesOf
    <3>2. \A g, v : <<g, v>> \in Lines({f}) <=> g = f /\ f \in There /\ v = tree[f]
      BY DEF Lines
    <3> QED BY <2>1, <2>2, <3>1, <3>2
  <2>6. UNCHANGED <<tree, There>>
    BY <1>4 DEF SaveRefreshed, There
  <2>7. ASSUME NEW g \in Files
        PROVE  /\ g \in There => <<g, tree[g]>> \in tags'
               /\ g \notin Escaped => \A v \in 1 .. MaxVersion : <<g, v>> \in tags' => g \in There /\ v = tree[g]
    <3>1. CASE g = f
      BY <2>5, <3>1
    <3>2. CASE g # f
      BY <2>3, <2>5, <3>2 DEF UpToDate
    <3> QED BY <3>1, <3>2
  <2>8. UpToDate(Files \ BeingRefreshed)'
    BY <2>4, <2>6, <2>7 DEF UpToDate
  <2>9. \A k \in Hooks : refresh'[k].at = "idle"
    BY <1>4, <2>1, WhoIsActive DEF SaveRefreshed, EndRefresh, Alone, ITags, NoRefresh
  <2> QED BY <2>8, <2>9
<1>5. ASSUME NEW b \in Builders, StartBuild(b) PROVE Goal
  BY <1>0, <1>5, IndexAssumption DEF StartBuild, Beside
<1>6. ASSUME NEW b \in Builders, ListFiles(b) \/ ReadFile(b) PROVE Goal
  BY <1>0, <1>6 DEF ListFiles, ReadFile, FailBuild
<1>7. ASSUME NEW b \in Builders, SaveTags(b) PROVE Goal
  <2>1. CASE UNCHANGED tags
    BY <1>0, <1>7, <2>1 DEF SaveTags, FailBuild, Beside
  <2>2. CASE tags' = build[b].lines /\ undisturbed' = Beside(b)
    <3>1. "index" \in undisturbed /\ Alone(b) /\ b \in undisturbed
      BY <1>7, <2>2, IndexAssumption DEF SaveTags, Beside, NobodyBeside
    <3>2. tags' = Lines(Files) /\ UNCHANGED <<tree, refresh>>
      BY <1>7, <2>2, <3>1 DEF SaveTags, BuildIsTheTree, Lines, There
    <3>3. tags' = Lines(Files)' /\ ITags'
      BY <3>2, TagsStayTyped DEF Lines, There
    <3>4. UpToDate(Files)'
      BY <3>3 DEF UpToDate, Lines, There
    <3>5. BeingRefreshed' = {} /\ \A k \in Hooks : refresh'[k].at = "idle"
      BY <3>1, <3>2, OwnFile, WhoIsActive, IndexAssumption DEF BeingRefreshed, Alone
    <3> QED BY <3>4, <3>5
  <2> QED BY <1>7, <2>1, <2>2 DEF SaveTags
<1>8. ASSUME NEW b \in Builders, SaveMeta(b) PROVE Goal
  <2>1. CASE "index" \in undisturbed
    BY <1>0, <1>8, <2>1 DEF SaveMeta
  <2>2. CASE "index" \notin undisturbed
    <3>1. b \in undisturbed /\ Alone(b)
      BY <1>8, <2>2 DEF SaveMeta, FailBuild, NobodyBeside
    <3>2. UpToDate(Files)
      BY <1>8, <3>1, TreeIsUpToDate DEF SaveMeta, BuildIsTheTree
    <3>3. BeingRefreshed = {} /\ \A k \in Hooks : refresh[k].at = "idle"
      BY <3>1, OwnFile, WhoIsActive, IndexAssumption DEF Alone
    <3>4. UNCHANGED <<tree, tags, refresh>>
      BY <1>8 DEF SaveMeta
    <3> QED BY <3>2, <3>3, <3>4 DEF UpToDate, There, BeingRefreshed
  <2> QED BY <2>1, <2>2
<1>9. ASSUME NEW f \in Files PROVE ~EditElsewhere(f)
  BY DEF EditElsewhere
<1>10. CASE MoveHead
  BY <1>0, <1>10 DEF MoveHead
<1>11. CASE UNCHANGED indexVars
  BY <1>0, <1>11 DEF indexVars
<1> QED BY <1>1, <1>2, <1>3, <1>4, <1>5, <1>6, <1>7, <1>8, <1>9, <1>10, <1>11
        DEF IndexNext, Refresh, Build, RebuildIfStale

LEMMA IndexMoves == IIndex /\ [IndexNext]_indexVars => IIndex'
BY TagsStayTyped, NobodyStaysBeside, BuildStaysTheTree, KeepsUp DEF IIndex

\* The tree, the index and what hooks and builds carry stay in their ranges.
THEOREM IndexTyped == IndexSpec => []IndexTypeOK
<1>1. IIndex => IndexTypeOK
  BY DEF IIndex, ITags
<1> QED BY <1>1, IndexBegins, IndexMoves, PTL DEF IndexSpec

\* What an undisturbed build makes (Build), and hooks one at a time keep up
\* (Refresh), is the tree, for any files, hooks and builds.
THEOREM IndexedTree == IndexSpec => []IndexIsTheTree
<1>1. IIndex => IndexIsTheTree
  <2> SUFFICES ASSUME IIndex, "index" \in undisturbed, \A x \in Hooks \cup Builders : ~Active(x)
               PROVE  /\ {l \in tags : l[1] \notin Escaped} = Lines(Files \ Escaped)
                      /\ Lines(Escaped) \subseteq tags
    BY DEF IndexIsTheTree
  <2>1. UpToDate(Files) /\ tags \subseteq LineSet
    BY NothingRefreshed DEF IIndex, KeptUp, NobodyBeside
  <2>2. IndexTypeOK
    BY DEF IIndex, ITags
  <2>3. \A f \in Files, v \in 1 .. MaxVersion :
          <<f, v>> \in Lines(Files \ Escaped) <=> f \notin Escaped /\ f \in There /\ v = tree[f]
    BY DEF Lines
  <2>4. \A f \in Files \ Escaped, v \in 1 .. MaxVersion : <<f, v>> \in tags <=> <<f, v>> \in Lines(Files \ Escaped)
    BY <2>1, <2>3 DEF UpToDate
  <2>5. \A l \in LineSet : l = <<l[1], l[2]>> /\ l[1] \in Files /\ l[2] \in 1 .. MaxVersion
    BY DEF LineSet
  <2>6. Lines(Files \ Escaped) \subseteq LineSet
    BY <2>2, LinesAre
  <2>7. {l \in tags : l[1] \notin Escaped} = Lines(Files \ Escaped)
    <3>1. ASSUME NEW l \in tags, l[1] \notin Escaped PROVE l \in Lines(Files \ Escaped)
      <4>1. l = <<l[1], l[2]>> /\ l[1] \in Files \ Escaped /\ l[2] \in 1 .. MaxVersion
        BY <2>1, <2>5, <3>1
      <4>2. <<l[1], l[2]>> \in Lines(Files \ Escaped)
        BY <2>4, <3>1, <4>1
      <4> QED BY <4>1, <4>2
    <3>2. ASSUME NEW l \in Lines(Files \ Escaped) PROVE l \in tags /\ l[1] \notin Escaped
      <4>1. l = <<l[1], l[2]>> /\ l[1] \in Files /\ l[2] \in 1 .. MaxVersion
        BY <2>5, <2>6
      <4>2. l[1] \notin Escaped
        BY DEF Lines
      <4>3. <<l[1], l[2]>> \in tags
        BY <2>4, <4>1, <4>2
      <4> QED BY <4>1, <4>2, <4>3
    <3> QED BY <3>1, <3>2
  <2>8. Lines(Escaped) \subseteq tags
    BY <2>1, IndexAssumption DEF Lines, UpToDate, There
  <2> QED BY <2>7, <2>8
<1> QED BY <1>1, IndexBegins, IndexMoves, PTL DEF IndexSpec

-----------------------------------------------------------------------------
(* Upgrade *)

Decision == [digest : Digests, answer : {"none", "install", "skip"}]

Steps == {"idle", "find", "raise", "sum", "download", "check", "clear", "aside", "in", "back", "tidy"}

\* What a run carries was agreed to before it gets that far.
Vouched(u) ==
  /\ pinned[u] # NoFile => pinned[u] \in agreed
  /\ step[u] \in {"find", "raise"} => want[u] \in Digests
  /\ step[u] \in {"download", "check", "clear", "aside", "in", "back"} => want[u] \in agreed
  /\ step[u] \in {"clear", "aside", "in", "back"} => tmp[u] = want[u]

Carried ==
  /\ step \in [Upgrades -> Steps]
  /\ pinned \in [Upgrades -> Digests \cup {NoFile}] /\ want \in [Upgrades -> Digests \cup {NoFile}]
  /\ tmp \in [Upgrades -> Digests \cup {Damaged, NoFile}]
  /\ agreed \subseteq Digests
  /\ \A u \in Upgrades : Vouched(u)

\* No decision is on record, or one, and what it says yes to is agreed to.
Recorded ==
  \/ raised = <<>>
  \/ \E d \in Decision : raised = <<d>> /\ (d.answer = "install" => d.digest \in agreed)

Installed == {self, old} \subseteq {Running, NoFile} \cup agreed

Around ==
  /\ asset \in Digests /\ sums \in Digests
  /\ faults \in 0 .. MaxFaults /\ byHand \in BOOLEAN /\ overlapped \in BOOLEAN

IUpgrade == Carried /\ Recorded /\ Installed /\ Around

-----------------------------------------------------------------------------

\* The invariant holds what the runs check.
LEMMA Implied == IUpgrade => UpgradeTypeOK /\ OnlyAgreed
<1> SUFFICES ASSUME IUpgrade PROVE UpgradeTypeOK /\ OnlyAgreed
  OBVIOUS
<1>1. raised \in Seq(Decision) /\ Len(raised) <= 1
  <2>1. CASE raised = <<>>
    BY <2>1
  <2>2. ASSUME NEW d \in Decision, raised = <<d>> PROVE raised \in Seq(Decision) /\ Len(raised) <= 1
    BY <2>2
  <2> QED BY <2>1, <2>2 DEF IUpgrade, Recorded
<1>2. {self, old} \subseteq {Running, NoFile} \cup Digests
  BY DEF IUpgrade, Installed, Carried
<1> QED BY <1>1, <1>2 DEF IUpgrade, Carried, Installed, Around, UpgradeTypeOK, OnlyAgreed, Steps, Decision

LEMMA Initially == UpgradeInit => IUpgrade
<1> SUFFICES ASSUME UpgradeInit PROVE IUpgrade
  OBVIOUS
<1> USE UpgradeAssumption DEF UpgradeInit
<1>1. \A u \in Upgrades : Vouched(u)
  BY DEF Vouched
<1>2. Carried
  BY <1>1 DEF Carried, Steps
<1>3. 1 \in Digests /\ 0 \in 0 .. MaxFaults
  BY DEF Digests
<1>4. Recorded /\ Installed
  BY DEF Recorded, Installed
<1>5. Around
  BY <1>3 DEF Around
<1> QED BY <1>2, <1>4, <1>5 DEF IUpgrade

\* A step of one run: what it carries from then on is agreed to by then.
LEMMA RunMoves ==
  ASSUME Carried, agreed \subseteq agreed', agreed' \subseteq Digests,
         NEW u \in Upgrades, NEW s \in Steps,
         NEW p \in Digests \cup {NoFile}, NEW w \in Digests \cup {NoFile}, NEW t \in Digests \cup {Damaged, NoFile},
         step' = [step EXCEPT ![u] = s], pinned' = [pinned EXCEPT ![u] = p],
         want' = [want EXCEPT ![u] = w], tmp' = [tmp EXCEPT ![u] = t],
         p # NoFile => p \in agreed', s \in {"find", "raise"} => w \in Digests,
         s \in {"download", "check", "clear", "aside", "in", "back"} => w \in agreed',
         s \in {"clear", "aside", "in", "back"} => t = w
  PROVE  Carried'
<1>1. \A v \in Upgrades : Vouched(v)'
  BY DEF Carried, Vouched
<1> QED BY <1>1 DEF Carried

\* The same of one that keeps what it has.
LEMMA RunGoesOn ==
  ASSUME Carried, agreed \subseteq agreed', agreed' \subseteq Digests,
         NEW u \in Upgrades, NEW s \in Steps,
         On(u, s), UNCHANGED <<pinned, want, tmp>>, s \in {"find", "raise"} => want[u] \in Digests,
         s \in {"download", "check", "clear", "aside", "in", "back"} => want[u] \in agreed',
         s \in {"clear", "aside", "in", "back"} => tmp[u] = want[u]
  PROVE  Carried'
BY RunMoves DEF On, Carried, Vouched

LEMMA RunEnds ==
  ASSUME Carried, agreed \subseteq agreed', agreed' \subseteq Digests, NEW u \in Upgrades, Over(u)
  PROVE  Carried'
BY RunMoves DEF Over, On, Steps

LEMMA RecordKept == Recorded /\ raised' = raised /\ agreed \subseteq agreed' => Recorded'
BY DEF Recorded

LEMMA InstalledKept == Installed /\ UNCHANGED files /\ agreed \subseteq agreed' => Installed'
BY DEF Installed, files

LEMMA AroundKept == Around /\ UNCHANGED <<server, troubles>> => Around'
BY DEF Around, server, troubles
-----------------------------------------------------------------------------
(* Consent *)

LEMMA ConsentSteps ==
  ASSUME IUpgrade, NEW u \in Upgrades,
         SayYes(u) \/ WithoutTerminal(u) \/ (\E d \in 1 .. Cuts : Confirm(u, d)) \/ FindDecision(u)
  PROVE  IUpgrade'
<1> USE DEF IUpgrade
<1>1. CASE SayYes(u)
  <2>1. Carried'
    BY <1>1, RunGoesOn DEF SayYes, consent, Carried, Steps
  <2> QED BY <1>1, <2>1, RecordKept, InstalledKept, AroundKept DEF SayYes, consent
<1>2. CASE WithoutTerminal(u)
  <2>1. Carried'
    BY <1>2, RunMoves DEF WithoutTerminal, consent, Carried, Steps, On, Vouched, Around
  <2> QED BY <1>2, <2>1, RecordKept, InstalledKept, AroundKept DEF WithoutTerminal, consent
<1>3. ASSUME NEW d \in 1 .. Cuts, Confirm(u, d) PROVE IUpgrade'
  <2>1. Carried'
    BY <1>3, RunMoves DEF Confirm, Carried, Steps, On, Vouched, Digests
  <2> QED BY <1>3, <2>1, RecordKept, InstalledKept, AroundKept DEF Confirm
<1>4. CASE FindDecision(u)
  <2>1. UNCHANGED <<files, server, consent, troubles>>
    BY <1>4 DEF FindDecision
  <2>2. ASSUME raised # <<>>, raised[1].answer = "install",
               pinned' = [pinned EXCEPT ![u] = raised[1].digest], On(u, "sum"), UNCHANGED <<want, tmp>>
        PROVE  Carried'
    <3>1. PICK d \in Decision : raised = <<d>> /\ d.answer = "install" /\ d.digest \in agreed
      BY <2>2 DEF Recorded
    <3>2. PICK p \in Digests : p \in agreed /\ pinned' = [pinned EXCEPT ![u] = p]
      BY <2>2, <3>1 DEF Decision
    <3>3. agreed \subseteq agreed' /\ agreed' \subseteq Digests /\ p \in agreed'
      BY <2>1, <3>2 DEF consent, Carried
    <3>4. want' = [want EXCEPT ![u] = want[u]] /\ tmp' = [tmp EXCEPT ![u] = tmp[u]]
      BY <2>2 DEF Carried
    <3>5. step' = [step EXCEPT ![u] = "sum"] /\ "sum" \in Steps
      BY <2>2 DEF On, Steps
    <3>6. want[u] \in Digests \cup {NoFile} /\ tmp[u] \in Digests \cup {Damaged, NoFile}
      BY DEF Carried
    <3> QED BY <3>2, <3>3, <3>4, <3>5, <3>6, RunMoves
  <2>3. ASSUME On(u, "raise"), UNCHANGED <<pinned, want, tmp>> PROVE Carried'
    BY <1>4, <2>1, <2>3, RunGoesOn DEF FindDecision, consent, Carried, Vouched, Steps
  <2>4. ASSUME Over(u) PROVE Carried'
    BY <2>1, <2>4, RunEnds DEF consent, Carried
  <2>5. Carried'
    BY <1>4, <2>2, <2>3, <2>4, Zenon DEF FindDecision
  <2> QED BY <2>1, <2>5, RecordKept, InstalledKept, AroundKept DEF consent
<1> QED BY <1>1, <1>2, <1>3, <1>4

LEMMA DecisionSteps ==
  ASSUME IUpgrade, (\E u \in Upgrades : RaiseDecision(u)) \/ Answer
  PROVE  IUpgrade'
<1> USE DEF IUpgrade
<1>1. ASSUME NEW u \in Upgrades, RaiseDecision(u) PROVE IUpgrade'
  <2>1. Carried'
    BY <1>1, RunEnds DEF RaiseDecision, Carried
  <2>2. Recorded'
    <3>1. CASE raised' = raised
      BY <1>1, <3>1, RecordKept DEF RaiseDecision
    <3>2. CASE raised' = <<[digest |-> want[u], answer |-> "none"]>>
      BY <1>1, <3>2 DEF RaiseDecision, Recorded, Decision, Carried, Vouched
    <3> QED BY <1>1, <3>1, <3>2 DEF RaiseDecision
  <2> QED BY <1>1, <2>1, <2>2, InstalledKept, AroundKept DEF RaiseDecision
<1>2. CASE Answer
  <2>1. PICK i \in DOMAIN raised, says \in {"install", "skip"} :
          /\ raised[i].answer = "none"
          /\ raised' = [raised EXCEPT ![i].answer = says]
          /\ agreed' = IF says = "install" THEN agreed \cup {raised[i].digest} ELSE agreed
          /\ UNCHANGED <<step, pinned, want, tmp, files, server, troubles>>
    BY <1>2 DEF Answer
  <2>2. PICK d \in Decision : raised = <<d>> /\ i = 1
    BY <2>1 DEF Recorded
  <2>3. raised' = <<[d EXCEPT !.answer = says]>> /\ [d EXCEPT !.answer = says] \in Decision
    BY <2>1, <2>2 DEF Decision
  <2>4. raised[i].digest = d.digest /\ d.digest \in Digests
    BY <2>2 DEF Decision
  <2>5. agreed \subseteq agreed' /\ agreed' \subseteq Digests
    BY <2>1, <2>4 DEF Carried
  <2>6. Recorded'
    BY <2>1, <2>3, <2>4 DEF Recorded, Decision
  <2>7. Carried'
    BY <2>1, <2>5 DEF Carried, Vouched
  <2> QED BY <2>1, <2>5, <2>6, <2>7, InstalledKept, AroundKept
<1> QED BY <1>1, <1>2

-----------------------------------------------------------------------------
(* The sum, the download and the check *)

LEMMA FetchSteps ==
  ASSUME IUpgrade, NEW u \in Upgrades, ReadSum(u) \/ Download(u) \/ CheckSum(u)
  PROVE  IUpgrade'
<1> USE DEF IUpgrade
<1>1. CASE ReadSum(u)
  <2> DEFINE sum == IF want[u] = NoFile THEN sums ELSE want[u]
  <2>1. sum \in Digests
    BY DEF Carried, Around
  <2>2. ASSUME pinned[u] \in {NoFile, sum}, want' = [want EXCEPT ![u] = sum],
               agreed' = IF pinned[u] = NoFile THEN agreed \cup {sum} ELSE agreed,
               On(u, "download"), UNCHANGED <<pinned, tmp>>
        PROVE  Carried' /\ agreed \subseteq agreed'
    <3> HIDE DEF sum
    <3>1. agreed \subseteq agreed' /\ agreed' \subseteq Digests
      BY <2>1, <2>2 DEF Carried
    <3>2. NoFile \notin Digests
      BY UpgradeAssumption DEF Digests
    <3>3. sum \in agreed' /\ (pinned[u] # NoFile => pinned[u] \in agreed')
      BY <2>1, <2>2, <3>2 DEF Carried, Vouched
    <3>4. pinned' = [pinned EXCEPT ![u] = pinned[u]] /\ tmp' = [tmp EXCEPT ![u] = tmp[u]]
      BY <2>2 DEF Carried
    <3>5. step' = [step EXCEPT ![u] = "download"] /\ "download" \in Steps
      BY <2>2 DEF On, Steps
    <3>6. pinned[u] \in Digests \cup {NoFile} /\ tmp[u] \in Digests \cup {Damaged, NoFile}
      BY DEF Carried
    <3> QED BY <2>1, <2>2, <3>1, <3>3, <3>4, <3>5, <3>6, RunMoves
  <2>3. ASSUME Over(u), UNCHANGED agreed PROVE Carried' /\ agreed \subseteq agreed'
    BY <2>3, RunEnds DEF Carried
  <2>4. Carried' /\ agreed \subseteq agreed'
    BY <1>1, <2>2, <2>3 DEF ReadSum
  <2> QED BY <1>1, <2>4, RecordKept, InstalledKept, AroundKept DEF ReadSum
<1>2. CASE Download(u)
  <2>1. UNCHANGED <<files, server, consent, troubles>>
    BY <1>2 DEF Download
  <2>2. ASSUME NEW got \in {asset, Damaged}, step[u] = "download", tmp' = [tmp EXCEPT ![u] = got],
               On(u, "check"), UNCHANGED <<pinned, want>>
        PROVE  Carried'
    <3>1. got \in Digests \cup {Damaged, NoFile}
      BY DEF Around
    <3> QED BY <2>1, <2>2, <3>1, RunMoves DEF consent, Carried, Vouched, Steps, On
  <2>3. ASSUME Over(u) PROVE Carried'
    BY <2>1, <2>3, RunEnds DEF consent, Carried
  <2>4. Carried'
    BY <1>2, <2>2, <2>3 DEF Download
  <2> QED BY <2>1, <2>4, RecordKept, InstalledKept, AroundKept DEF consent
<1>3. CASE CheckSum(u)
  <2>1. UNCHANGED <<files, server, consent, troubles>>
    BY <1>3 DEF CheckSum
  <2>2. ASSUME step[u] = "check", tmp[u] = want[u], On(u, "clear"), UNCHANGED <<pinned, want, tmp>> PROVE Carried'
    BY <2>1, <2>2, RunGoesOn DEF consent, Carried, Vouched, Steps
  <2>3. ASSUME Over(u) PROVE Carried'
    BY <2>1, <2>3, RunEnds DEF consent, Carried
  <2>4. Carried'
    BY <1>3, <2>2, <2>3 DEF CheckSum
  <2> QED BY <2>1, <2>4, RecordKept, InstalledKept, AroundKept DEF consent
<1> QED BY <1>1, <1>2, <1>3

-----------------------------------------------------------------------------
(* replace *)

\* Only files move, and what moves in was agreed to.
LEMMA FilesMove ==
  ASSUME IUpgrade, Carried', UNCHANGED <<server, consent>>, {self', old'} \subseteq {self, old, NoFile} \cup agreed,
         faults' \in 0 .. MaxFaults, byHand' \in BOOLEAN, overlapped' \in BOOLEAN
  PROVE  IUpgrade'
BY RecordKept DEF IUpgrade, Installed, Around, server, consent

LEMMA FaultCounts == Around /\ (\E u \in Upgrades : Fault(u)) => faults' \in 0 .. MaxFaults /\ overlapped' \in BOOLEAN
BY UpgradeAssumption DEF Around, Fault

LEMMA ReplaceSteps ==
  ASSUME IUpgrade, NEW u \in Upgrades,
         ClearOld(u) \/ MoveAside(u) \/ MoveIn(u) \/ MoveBack(u) \/ Tidy(u)
  PROVE  IUpgrade'
<1>1. Carried /\ Around /\ (agreed' = agreed => agreed \subseteq agreed' /\ agreed' \subseteq Digests)
  BY DEF IUpgrade, Carried
<1>2. CASE ClearOld(u)
  <2>1. Carried'
    BY <1>1, <1>2, RunGoesOn DEF ClearOld, consent, Carried, Vouched, Steps
  <2> QED BY <1>1, <1>2, <2>1, FilesMove DEF ClearOld, troubles, Around
<1>3. CASE MoveAside(u)
  <2>1. ASSUME step[u] = "aside", On(u, "in"), UNCHANGED <<pinned, want, tmp, consent>> PROVE Carried'
    BY <1>1, <2>1, RunGoesOn DEF consent, Carried, Vouched, Steps
  <2>2. ASSUME Over(u), UNCHANGED consent PROVE Carried'
    BY <1>1, <2>2, RunEnds DEF consent
  <2>3. Carried' /\ {self', old'} \subseteq {self, old, NoFile}
    BY <1>3, <2>1, <2>2 DEF MoveAside, files
  <2>4. faults' \in 0 .. MaxFaults /\ overlapped' \in BOOLEAN
    BY <1>1, <1>3, FaultCounts DEF MoveAside, Around
  <2> QED BY <1>1, <1>3, <2>3, <2>4, FilesMove DEF MoveAside, Around
<1>4. CASE MoveIn(u)
  <2>1. ASSUME step[u] = "in", tmp' = [tmp EXCEPT ![u] = NoFile], On(u, "tidy"), UNCHANGED <<pinned, want, consent>>
        PROVE  Carried'
    BY <1>1, <2>1, RunMoves DEF consent, Carried, Vouched, Steps, On
  <2>2. ASSUME step[u] = "in", On(u, "back"), UNCHANGED <<pinned, want, tmp, consent>> PROVE Carried'
    BY <1>1, <2>2, RunGoesOn DEF consent, Carried, Vouched, Steps
  <2>3. tmp[u] \in agreed
    BY <1>1, <1>4 DEF MoveIn, Carried, Vouched
  <2>4. Carried' /\ {self', old'} \subseteq {self, old, NoFile} \cup agreed
    BY <1>4, <2>1, <2>2, <2>3 DEF MoveIn
  <2>5. faults' \in 0 .. MaxFaults /\ overlapped' \in BOOLEAN
    BY <1>1, <1>4, FaultCounts DEF MoveIn, Around
  <2> QED BY <1>1, <1>4, <2>4, <2>5, FilesMove DEF MoveIn, Around
<1>5. CASE MoveBack(u)
  <2>1. Carried'
    BY <1>1, <1>5, RunEnds DEF MoveBack, consent
  <2>2. {self', old'} \subseteq {self, old, NoFile}
    BY <1>5 DEF MoveBack, files
  <2>3. faults' \in 0 .. MaxFaults /\ overlapped' \in BOOLEAN /\ byHand' \in BOOLEAN
    BY <1>1, <1>5, FaultCounts DEF MoveBack, Around, troubles
  <2> QED BY <1>5, <2>1, <2>2, <2>3, FilesMove DEF MoveBack
<1>6. CASE Tidy(u)
  <2>1. Carried'
    BY <1>1, <1>6, RunEnds DEF Tidy, consent
  <2> QED BY <1>1, <1>6, <2>1, FilesMove DEF Tidy, troubles, Around
<1> QED BY <1>2, <1>3, <1>4, <1>5, <1>6

-----------------------------------------------------------------------------
(* The world, and the theorem *)

LEMMA WorldSteps ==
  ASSUME IUpgrade, CutAgain \/ PublishSum \/ (\E u \in Upgrades : UpgradeDies(u)) \/ UNCHANGED upgradeVars
  PROVE  IUpgrade'
<1> USE DEF IUpgrade
<1>1. CASE CutAgain \/ PublishSum
  <2>1. Carried' /\ Recorded' /\ Installed' /\ UNCHANGED troubles
    BY <1>1 DEF CutAgain, PublishSum, Carried, Vouched, Recorded, Installed, files, consent
  <2>2. asset' \in Digests /\ sums' \in Digests
    BY <1>1, UpgradeAssumption DEF CutAgain, PublishSum, Around, Digests
  <2> QED BY <2>1, <2>2 DEF Around, troubles
<1>2. ASSUME NEW u \in Upgrades, UpgradeDies(u) PROVE IUpgrade'
  <2>1. Carried'
    BY <1>2, RunEnds DEF UpgradeDies, consent, Carried
  <2>2. faults' \in 0 .. MaxFaults /\ overlapped' \in BOOLEAN
    BY <1>2, UpgradeAssumption DEF UpgradeDies, Around
  <2> QED BY <1>2, <2>1, <2>2, FilesMove DEF UpgradeDies, files, Around
<1>3. CASE UNCHANGED upgradeVars
  BY <1>3 DEF upgradeVars, files, server, consent, troubles, Carried, Vouched, Recorded, Installed, Around
<1> QED BY <1>1, <1>2, <1>3

LEMMA UpgradeMoves == IUpgrade /\ [UpgradeNext]_upgradeVars => IUpgrade'
<1> SUFFICES ASSUME IUpgrade, [UpgradeNext]_upgradeVars PROVE IUpgrade'
  OBVIOUS
<1>1. ASSUME NEW u \in Upgrades, UpgradeStep(u) PROVE IUpgrade'
  BY <1>1, ConsentSteps, DecisionSteps, FetchSteps, ReplaceSteps DEF UpgradeStep
<1> QED BY <1>1, DecisionSteps, WorldSteps DEF UpgradeNext

\* The inductive invariant of the upgrades: what each run carries was vouched for
\* by the answer it carries it for, and binaries are moved by one hand at a time.
THEOREM UpgradeInvariant == UpgradeSpec => []IUpgrade
BY Initially, UpgradeMoves, PTL DEF UpgradeSpec

\* Whatever is cut again, damaged or answered in between, what is installed was
\* agreed to, and the question is on record once.
THEOREM Agreed == UpgradeSpec => []OnlyAgreed
BY UpgradeInvariant, Implied, PTL

\* The state of every run stays in its ranges.
THEOREM UpgradeTyped == UpgradeSpec => []UpgradeTypeOK
BY UpgradeInvariant, Implied, PTL
-----------------------------------------------------------------------------
(* A binary at its path *)

\* The renames keep it: a run that has moved the binary aside moves one in, or the
\* old one back, or says where it is, or died.
LEMMA KeptAtItsPath ==
  ASSUME IUpgrade, StaysRunnable, [UpgradeNext]_upgradeVars
  PROVE  StaysRunnable'
<1> USE DEF StaysRunnable
<1>1. step \in [Upgrades -> Steps]
  BY DEF IUpgrade, Carried
<1>2. ASSUME NEW u \in Upgrades, UNCHANGED <<files, troubles>>, step[u] \notin {"in", "back"},
             NEW s \in Steps, On(u, s)
      PROVE  StaysRunnable'
  BY <1>1, <1>2 DEF On, files, troubles
<1>3. ASSUME NEW u \in Upgrades, UpgradeStep(u) PROVE StaysRunnable'
  <2>1. CASE SayYes(u) \/ WithoutTerminal(u) \/ (\E d \in 1 .. Cuts : Confirm(u, d))
    BY <1>2, <2>1 DEF SayYes, WithoutTerminal, Confirm, Steps
  <2>2. CASE FindDecision(u)
    BY <1>2, <2>2 DEF FindDecision, Over, Steps
  <2>3. CASE RaiseDecision(u)
    BY <1>2, <2>3 DEF RaiseDecision, Over, Steps
  <2>4. CASE ReadSum(u)
    BY <1>2, <2>4 DEF ReadSum, Over, Steps
  <2>5. CASE Download(u)
    BY <1>2, <2>5 DEF Download, Over, Steps
  <2>6. CASE CheckSum(u)
    BY <1>2, <2>6 DEF CheckSum, Over, Steps
  <2>7. CASE ClearOld(u)
    BY <1>1, <2>7 DEF ClearOld, On, troubles
  <2>8. CASE MoveAside(u)
    <3>1. CASE On(u, "in")
      BY <1>1, <3>1 DEF On
    <3>2. CASE step[u] = "aside" /\ Over(u) /\ UNCHANGED <<files, byHand>> /\ (overlapped => overlapped')
      BY <1>1, <3>2 DEF Over, On, files
    <3> QED BY <2>8, <3>1, <3>2 DEF MoveAside, Fault
  <2>9. CASE MoveIn(u)
    <3>1. CASE self' = tmp[u]
      <4>1. tmp[u] \in Digests
        BY <2>9 DEF MoveIn, IUpgrade, Carried, Vouched
      <4> QED BY <3>1, <4>1, UpgradeAssumption DEF Digests
    <3>2. CASE On(u, "back")
      BY <1>1, <3>2 DEF On
    <3> QED BY <2>9, <3>1, <3>2 DEF MoveIn
  <2>10. CASE MoveBack(u)
    BY <2>10 DEF MoveBack
  <2>11. CASE Tidy(u)
    BY <1>1, <2>11 DEF Tidy, Over, On, troubles
  <2> QED BY <1>3, <2>1, <2>2, <2>3, <2>4, <2>5, <2>6, <2>7, <2>8, <2>9, <2>10, <2>11 DEF UpgradeStep
<1>4. ASSUME NEW u \in Upgrades, UpgradeDies(u) PROVE StaysRunnable'
  BY <1>1, <1>4 DEF UpgradeDies, Over, On, files
<1>5. CASE Answer \/ CutAgain \/ PublishSum \/ UNCHANGED upgradeVars
  BY <1>5 DEF Answer, CutAgain, PublishSum, upgradeVars, files, troubles
<1> QED BY <1>3, <1>4, <1>5 DEF UpgradeNext

\* Between upgrades there is a binary at its path, as said above StaysRunnable.
THEOREM Runnable == UpgradeSpec => []StaysRunnable
<1>1. UpgradeInit => StaysRunnable
  BY UpgradeAssumption DEF UpgradeInit, StaysRunnable
<1> QED BY <1>1, UpgradeInvariant, KeptAtItsPath, PTL DEF UpgradeSpec

-----------------------------------------------------------------------------
(* The sessions together *)

\* A step of one part leaves the others alone.
LEMMA PartByPart ==
  [SessionNext]_sessionVars =>
    [StartNext]_startVars /\ [StopNext]_stopVars /\ [UpgradeNext]_upgradeVars /\ [IndexNext]_indexVars
BY DEF SessionNext, sessionVars

\* The state of every part stays in its ranges, for any sessions, daemons,
\* upgrades, hooks and builds (what runs beside each other in a repository).
THEOREM SessionTyped == SessionSpec => []SessionTypeOK
<1> DEFINE Typed == StartTypeOK /\ IStop /\ IUpgrade /\ ITags
<1>1. SessionInit => Typed
  BY StartBegins, StopBegins, Initially, IndexBegins DEF SessionInit, IIndex
<1>2. Typed /\ [SessionNext]_sessionVars => Typed'
  BY PartByPart, StartTypesStay, StopMoves, UpgradeMoves, TagsStayTyped
<1>3. Typed => SessionTypeOK
  BY Implied DEF IStop, ITags, SessionTypeOK
<1> QED BY <1>1, <1>2, <1>3, PTL DEF SessionSpec
=============================================================================
