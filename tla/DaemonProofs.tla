---------------------------- MODULE DaemonProofs ----------------------------
(***************************************************************************)
(* What a client is told by the daemon is so, and one repository's         *)
(* commands run one at a time, for any clients, repositories and versions. *)
(***************************************************************************)
EXTENDS Daemon, TLAPS

(***************************************************************************)
(* The inductive invariant.                                                *)
(***************************************************************************)

\* Where a command is with the daemon, and what has become of it.
ServingTellsTruth ==
  \A c \in Clients :
    /\ client[c] = "asking" => serving[c] = "none"
    /\ client[c] \in {"waiting", "following", "polling"} => serving[c] # "none"
    /\ serving[c] \in {"none", "reading", "queued"} => ran[c] = "never"
    /\ serving[c] = "running" <=> ran[c] = "running"
    /\ serving[c] = "running" => queue[RepoOf[c]] = c
    /\ serving[c] \in {"running", "ran"} => ranBy[c] = build
    /\ serving[c] = "ran" => ran[c] = "finished" /\ c \in Long
    /\ daemon = "off" => serving[c] \in {"none", "gone"}

\* A job's entry exists from its admission until the daemon ends.
JobsAreOurs ==
  \A c \in Clients :
    /\ job[c] # "none" => c \in Long /\ daemon # "off"
    /\ job[c] = "running" => serving[c] \in {"queued", "running", "ran"}
    /\ job[c] = "done" => serving[c] = "gone" /\ ran[c] = "finished" /\ ranBy[c] = build
    /\ serving[c] \in {"none", "reading"} => job[c] = "none"
    /\ client[c] \in {"following", "polling"} => c \in Long /\ (job[c] # "none" \/ serving[c] = "gone")

\* Nothing is printed that was not written, and quick commands answer whole.
PrintedIsWritten ==
  \A c \in Clients : got[c] <= out[c] /\ (c \notin Long => out[c] = 0)

\* A response on its way says what is so.
ReplyIsTrue ==
  \A c \in Clients :
    /\ reply[c] # None => client[c] \in {"waiting", "polling"}
    /\ reply[c] # None => serving[c] # "none"
    /\ reply[c] # None /\ reply[c].kind = "exit" =>
         c \notin Long /\ ran[c] = "finished" /\ ranBy[c] = reply[c].build
    /\ reply[c] # None /\ reply[c].kind = "job" =>
         c \in Long /\ (job[c] # "none" \/ serving[c] = "gone")
    /\ reply[c] # None /\ reply[c].kind = "running" => c \in Long /\ got[c] + reply[c].new <= out[c]
    /\ reply[c] # None /\ reply[c].kind = "done" =>
         /\ ran[c] = "finished" /\ ranBy[c] = reply[c].build
         /\ got[c] + reply[c].new = out[c]
    /\ reply[c] # None /\ reply[c].kind = "lost" => c \in Long /\ serving[c] = "gone" /\ job[c] = "none"
    /\ reply[c] # None /\ reply[c].kind = "refused" => Refused(c)
    /\ reply[c] # None /\ reply[c].kind \in {"running", "done"} =>
         job[c] # "none" \/ serving[c] = "gone"

\* What is told stays so.
VerdictStays ==
  /\ VerdictIsOwn
  /\ \A c \in Clients :
       /\ verdict[c] # "none" <=> client[c] = "over"
       /\ verdict[c] = "error" => c \notin Gates
       /\ verdict[c] = "lost" => c \in Long /\ serving[c] = "gone" /\ job[c] = "none"
       /\ verdict[c] = "refused" => c \in Executing

IInv ==
  /\ TypeOK
  /\ ServingTellsTruth /\ JobsAreOurs /\ PrintedIsWritten /\ ReplyIsTrue /\ VerdictStays

-----------------------------------------------------------------------------
(* The invariant holds at first, and every step keeps it. *)

LEMMA InitIInv == Init => IInv
  BY DaemonAssumption
  DEF Init, IInv, TypeOK, ServingTellsTruth, JobsAreOurs, PrintedIsWritten, ReplyIsTrue,
      VerdictStays, VerdictIsOwn, Refused

\* A client asking, and giving up.
LEMMA AskingKeepsIInv == ASSUME IInv, NEW c \in Clients, Send(c) \/ NoDaemon(c) \/ Poll(c) \/ TimeOut(c) PROVE IInv'
  <1> USE ClientsAssumption, DaemonAssumption, NoneAssumption
      DEF IInv, TypeOK, ServingTellsTruth, JobsAreOurs, PrintedIsWritten, ReplyIsTrue, VerdictStays,
          VerdictIsOwn, Refused, Responses, Response, server, work, asking
  <1>1. CASE Send(c)
    BY <1>1 DEF Send
  <1>2. CASE NoDaemon(c)
    BY <1>2 DEF NoDaemon, Fail
  <1>3. CASE Poll(c)
    BY <1>3 DEF Poll
  <1>4. CASE TimeOut(c)
    BY <1>4 DEF TimeOut, Fail
  <1>. QED  BY <1>1, <1>2, <1>3, <1>4

\* A client reading a response.
LEMMA ReceiveKeepsIInv == ASSUME IInv, NEW c \in Clients, Receive(c) PROVE IInv'
  <1> USE ClientsAssumption, DaemonAssumption, NoneAssumption
      DEF IInv, TypeOK, ServingTellsTruth, JobsAreOurs, PrintedIsWritten, ReplyIsTrue, VerdictStays,
          VerdictIsOwn, Refused, Responses, Response, server, work, asking
  <1>1. CASE ReceiveUnusable(c)
    BY <1>1 DEF ReceiveUnusable, Fail
  <1>2. CASE ReceiveExit(c)
    BY <1>2 DEF ReceiveExit, Usable, End
  <1>3. CASE ReceiveJob(c)
    BY <1>3 DEF ReceiveJob, Usable
  <1>4. CASE ReceiveProgress(c)
    BY <1>4 DEF ReceiveProgress, Usable
  <1>5. CASE ReceiveResult(c)
    BY <1>5 DEF ReceiveResult, Usable, End
  <1>. QED  BY <1>1, <1>2, <1>3, <1>4, <1>5 DEF Receive

\* A response leaves every reply in its range.
LEMMA RespondTyped ==
  ASSUME TypeOK, NEW c \in Clients, NEW r \in Responses, Respond(c, r)
  PROVE  reply' \in [Clients -> Responses \cup {None}]
  BY DEF TypeOK, Respond

\* The daemon serving a command.
LEMMA ServingKeepsIInv == ASSUME IInv, NEW c \in Clients, Serving(c) PROVE IInv'
  <1> USE ClientsAssumption, DaemonAssumption, NoneAssumption
      DEF IInv, TypeOK, ServingTellsTruth, JobsAreOurs, PrintedIsWritten, ReplyIsTrue, VerdictStays,
          VerdictIsOwn, Refused, Responses, Response, server, work, asking
  <1>0. RepoOf[c] \in Repos
    OBVIOUS
  <1>1. CASE Refuse(c)
    BY <1>1 DEF Refuse, Alive, Respond
  <1>2. CASE Write(c)
    BY <1>2 DEF Write, Alive
  <1>3. CASE AnswerPoll(c)
    BY <1>3 DEF AnswerPoll, Alive, Respond
  <1>4. CASE Admit(c)
    <2>1. TypeOK'
      <3>1. /\ warm' \in [Repos -> 0 .. Window]
            /\ job' \in [Clients -> {"none", "running", "done"}]
        BY <1>0, <1>4 DEF Admit
      <3>2. Response("job", 0) \in Responses
        OBVIOUS
      <3>3. reply' \in [Clients -> Responses \cup {None}]
        BY <1>4, <3>2, RespondTyped DEF Admit
      <3>. QED  BY <1>4, <3>1, <3>3 DEF Admit
    <2>2. ServingTellsTruth'
      BY <1>0, <1>4 DEF Admit, Alive, Respond, Refused
    <2>3. JobsAreOurs' /\ PrintedIsWritten' /\ ReplyIsTrue' /\ VerdictStays'
      BY <1>0, <1>4 DEF Admit, Alive, Respond, Refused
    <2>. QED  BY <2>1, <2>2, <2>3
  <1>5. CASE Take(c)
    <2>1. TypeOK'
      BY <1>0, <1>5 DEF Take, Alive
    <2>2. ServingTellsTruth'
      BY <1>0, <1>5 DEF Take, Alive
    <2>3. JobsAreOurs' /\ PrintedIsWritten' /\ ReplyIsTrue' /\ VerdictStays'
      BY <1>0, <1>5 DEF Take, Alive
    <2>. QED  BY <2>1, <2>2, <2>3
  <1>6. CASE Finish(c)
    <2>1. TypeOK'
      <3>1. queue' \in [Repos -> Clients \cup {None}] /\ ran' \in [Clients -> {"never", "running", "cut", "finished"}]
        BY <1>0, <1>6 DEF Finish
      <3>2. CASE c \in Long
        BY <1>6, <3>1, <3>2 DEF Finish
      <3>3. CASE c \notin Long
        <4>1. Response("exit", 0) \in Responses
          BY <3>3
        <4>2. reply' \in [Clients -> Responses \cup {None}]
          BY <1>6, <3>3, <4>1, RespondTyped DEF Finish
        <4>3. serving' = [serving EXCEPT ![c] = "gone"]
          BY <1>6, <3>3 DEF Finish
        <4>. QED  BY <1>6, <3>1, <4>2, <4>3 DEF Finish
      <3>. QED  BY <3>2, <3>3
    <2>2. ServingTellsTruth'
      BY <1>0, <1>6 DEF Finish, Alive, Respond
    <2>3. JobsAreOurs' /\ PrintedIsWritten' /\ ReplyIsTrue' /\ VerdictStays'
      BY <1>0, <1>6 DEF Finish, Alive, Respond
    <2>. QED  BY <2>1, <2>2, <2>3
  <1>7. CASE JobDone(c)
    <2>1. TypeOK'
      BY <1>0, <1>7 DEF JobDone, Alive
    <2>2. ServingTellsTruth'
      BY <1>0, <1>7 DEF JobDone, Alive
    <2>3. JobsAreOurs' /\ PrintedIsWritten' /\ ReplyIsTrue' /\ VerdictStays'
      BY <1>0, <1>7 DEF JobDone, Alive
    <2>. QED  BY <2>1, <2>2, <2>3
  <1>. QED  BY <1>1, <1>2, <1>3, <1>4, <1>5, <1>6, <1>7 DEF Serving

\* The daemon starting, sweeping and ending, and time passing.
LEMMA DaemonKeepsIInv ==
  ASSUME IInv, Serve \/ Sweep \/ Tick \/ Leave \/ Die PROVE IInv'
  <1> USE ClientsAssumption, DaemonAssumption, NoneAssumption
      DEF IInv, TypeOK, ServingTellsTruth, JobsAreOurs, PrintedIsWritten, ReplyIsTrue, VerdictStays,
          VerdictIsOwn, Refused, Responses, Response, server, work, asking
  <1>1. CASE Serve
    BY <1>1 DEF Serve
  <1>2. CASE Sweep
    BY <1>2 DEF Sweep, Held
  <1>3. CASE Tick
    BY <1>3 DEF Tick, Held
  <1>4. CASE Leave
    BY <1>4 DEF Leave, Ended
  <1>5. CASE Die
    BY <1>5 DEF Die, Ended
  <1>. QED  BY <1>1, <1>2, <1>3, <1>4, <1>5

LEMMA NextKeepsIInv == ASSUME IInv, [Next]_vars PROVE IInv'
  <1>1. ASSUME NEW c \in Clients,
               Send(c) \/ NoDaemon(c) \/ Poll(c) \/ TimeOut(c) \/ Receive(c) \/ Serving(c)
        PROVE  IInv'
    BY <1>1, AskingKeepsIInv, ReceiveKeepsIInv, ServingKeepsIInv
  <1>2. CASE Serve \/ Sweep \/ Tick \/ Leave \/ Die
    BY <1>2, DaemonKeepsIInv
  <1>3. CASE UNCHANGED vars
    BY <1>3 DEF vars, server, work, asking, IInv, TypeOK, ServingTellsTruth, JobsAreOurs,
                PrintedIsWritten, ReplyIsTrue, VerdictStays, VerdictIsOwn, Refused
  <1>. QED  BY <1>1, <1>2, <1>3 DEF Next

LEMMA Invariance == Spec => []IInv
  <1>1. IInv /\ [Next]_vars => IInv'
    BY NextKeepsIInv
  <1>. QED  BY InitIInv, <1>1, PTL DEF Spec

-----------------------------------------------------------------------------
(* What follows from it. *)

\* Every part of the state stays in its range.
THEOREM Typed == Spec => []TypeOK
  <1>1. IInv => TypeOK
    BY DEF IInv
  <1>. QED  BY Invariance, <1>1, PTL

\* Two commands of one repository never run at once.
THEOREM OneAtATime == Spec => []Serialised
  <1>1. IInv => Serialised
    BY DEF IInv, ServingTellsTruth, Serialised
  <1>. QED  BY Invariance, <1>1, PTL

\* An exit code a client reports is its own command's, run by its own build,
\* and all the output of that command was printed before it.
THEOREM VerdictTrue == Spec => []VerdictIsOwn
  <1>1. IInv => VerdictIsOwn
    BY DEF IInv, VerdictStays
  <1>. QED  BY Invariance, <1>1, PTL

\* A commit gate that did not run to its end denies the commit.
THEOREM GateHolds == Spec => []GateRanOrDenied
  <1>1. IInv => GateRanOrDenied
    BY ClientsAssumption DEF IInv, TypeOK, VerdictStays, VerdictIsOwn, GateRanOrDenied
  <1>. QED  BY Invariance, <1>1, PTL

\* A job reported lost is not running anywhere.
THEOREM LostIsOver == Spec => []LostIsNotRunning
  <1>1. IInv => LostIsNotRunning
    BY DEF IInv, VerdictStays, ServingTellsTruth, LostIsNotRunning
  <1>. QED  BY Invariance, <1>1, PTL
=============================================================================
