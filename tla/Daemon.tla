------------------------------- MODULE Daemon -------------------------------
(***************************************************************************)
(* procoder serve and the commands that go through it: the server, job     *)
(* table, per-repository queues and warm state of internal/api, and the    *)
(* client of cmd/procoder/daemon.go (viaDaemon, followJob).                *)
(*                                                                         *)
(* A client is one run of procoder on a machine whose service mode is      *)
(* "local": it asks the daemon and has no other way to run its command.  A *)
(* quick command answers on the connection that asked; a long one answers  *)
(* with a job, which the client polls for its output and its exit code.    *)
(* Every client asks at the same door; Exec says whether it is the exec    *)
(* socket's.                                                               *)
(***************************************************************************)
EXTENDS Naturals

CONSTANTS
  Clients,       \* runs of procoder
  Repos,         \* repository identities
  RepoOf,        \* the repository each client stands in
  Long,          \* clients whose command IsLongRunning
  Gates,         \* clients that are the pre-tool-use hook
  Executing,     \* clients whose command Executes what a repository declares
  Foreign,       \* clients of another protocol
  Exec,          \* this is the exec socket's server
  Builds,        \* versions of procoder
  BuildOf,       \* each client's version
  Window,        \* the idle window, in ticks
  MaxOut,        \* bound: writes of one job to its output
  MaxStarts,     \* bound: daemons started in one behaviour
  None

ASSUME ClientsAssumption ==
  /\ RepoOf \in [Clients -> Repos]
  /\ BuildOf \in [Clients -> Builds]
  /\ Long \subseteq Clients /\ Executing \subseteq Clients /\ Foreign \subseteq Clients
  /\ Gates \subseteq Clients \ (Long \cup Executing)
ASSUME DaemonAssumption ==
  Exec \in BOOLEAN /\ Window \in Nat \ {0} /\ MaxOut \in Nat /\ MaxStarts \in Nat
ASSUME NoneAssumption == None \notin Clients

VARIABLES
  daemon,    \* off, up, or closing: the listener closed, the process about to end
  build,     \* the running daemon's version
  starts,    \* daemons started so far
  warm,      \* ticks since each repository was last used; a whole Window is not held
  unheld,    \* ticks since the sweep last found something held (its `started`)
  queue,     \* whose command holds each repository's queue
  serving,   \* where the daemon is with each client's command
  job,       \* each client's entry in the job table
  out,       \* writes each command has made to its output
  ran,       \* what became of each command: the truth
  ranBy,     \* the version that ran it
  client,    \* where each client is
  reply,     \* the response on its way to each client
  got,       \* writes each client has printed
  verdict    \* how each client ended

server == <<daemon, build, starts, warm, unheld>>
work == <<queue, serving, job, out, ran, ranBy>>
asking == <<client, reply, got, verdict>>
vars == <<server, work, asking>>

Init ==
  /\ daemon = "off" /\ build \in Builds /\ starts = 0
  /\ warm = [r \in Repos |-> Window] /\ unheld = 0
  /\ queue = [r \in Repos |-> None]
  /\ serving = [c \in Clients |-> "none"]
  /\ job = [c \in Clients |-> "none"]
  /\ out = [c \in Clients |-> 0]
  /\ ran = [c \in Clients |-> "never"]
  /\ ranBy = [c \in Clients |-> None]
  /\ client = [c \in Clients |-> "asking"]
  /\ reply = [c \in Clients |-> None]
  /\ got = [c \in Clients |-> 0]
  /\ verdict = [c \in Clients |-> "none"]

-----------------------------------------------------------------------------
(* The client *)

\* Mutant: a gate that could not run exits 1, which lets the commit through.
FailSilently(c) ==
  /\ client' = [client EXCEPT ![c] = "over"]
  /\ verdict' = [verdict EXCEPT ![c] = "error"]
  /\ reply' = [reply EXCEPT ![c] = None]

\* fail: the commit gate is denied in the host's words, anything else exits 1.
Fail(c) ==
  /\ client' = [client EXCEPT ![c] = "over"]
  /\ verdict' = [verdict EXCEPT ![c] = IF c \in Gates THEN "deny" ELSE "error"]
  /\ reply' = [reply EXCEPT ![c] = None]

End(c, v) ==
  /\ client' = [client EXCEPT ![c] = "over"]
  /\ verdict' = [verdict EXCEPT ![c] = v]
  /\ reply' = [reply EXCEPT ![c] = None]

\* Dial and write the request.
Send(c) ==
  /\ client[c] = "asking"
  /\ daemon = "up"
  /\ client' = [client EXCEPT ![c] = "waiting"]
  /\ serving' = [serving EXCEPT ![c] = "reading"]
  /\ UNCHANGED <<server, queue, job, out, ran, ranBy, reply, got, verdict>>

\* Mutant: followJob waits for a daemon to come back.
NoDaemonPatient(c) ==
  /\ client[c] = "asking"
  /\ daemon # "up"
  /\ Fail(c)
  /\ UNCHANGED <<server, work, got>>

\* ErrNoDaemon, for the command itself or for a poll.
NoDaemon(c) ==
  /\ client[c] \in {"asking", "following"}
  /\ daemon # "up"
  /\ Fail(c)
  /\ UNCHANGED <<server, work, got>>

\* followJob: ask what the job has produced since what was printed.
Poll(c) ==
  /\ client[c] = "following"
  /\ daemon = "up"
  /\ client' = [client EXCEPT ![c] = "polling"]
  /\ UNCHANGED <<server, work, reply, got, verdict>>

\* The deadline of the whole exchange passes before the answer comes.
TimeOut(c) ==
  /\ client[c] \in {"waiting", "polling"}
  /\ reply[c] = None
  /\ Fail(c)
  /\ UNCHANGED <<server, work, got>>

\* The connection broke, the protocols differ, or the versions do.
ReceiveUnusable(c) ==
  /\ reply[c] # None
  /\ reply[c].kind = "broken" \/ c \in Foreign \/ reply[c].build # BuildOf[c]
  /\ Fail(c)
  /\ UNCHANGED <<server, work, got>>

Usable(c, kind) ==
  /\ reply[c] # None
  /\ reply[c].kind = kind
  /\ c \notin Foreign
  /\ reply[c].build = BuildOf[c]

\* An exit code: the command's, or a refusal's.
ReceiveExit(c) ==
  /\ Usable(c, "exit") \/ Usable(c, "refused") \/ Usable(c, "lost")
  /\ End(c, reply[c].kind)
  /\ UNCHANGED <<server, work, got>>

ReceiveJob(c) ==
  /\ Usable(c, "job")
  /\ client' = [client EXCEPT ![c] = "following"]
  /\ reply' = [reply EXCEPT ![c] = None]
  /\ UNCHANGED <<server, work, got, verdict>>

\* Mutant: no exit code yet is read as a zero.
ReceiveProgressAsResult(c) ==
  /\ Usable(c, "running")
  /\ got' = [got EXCEPT ![c] = @ + reply[c].new]
  /\ End(c, "exit")
  /\ UNCHANGED <<server, work>>

\* A poll's answer: print what is new, and end with the exit code if there is one.
ReceiveProgress(c) ==
  /\ Usable(c, "running")
  /\ got' = [got EXCEPT ![c] = @ + reply[c].new]
  /\ client' = [client EXCEPT ![c] = "following"]
  /\ reply' = [reply EXCEPT ![c] = None]
  /\ UNCHANGED <<server, work, verdict>>

ReceiveResult(c) ==
  /\ Usable(c, "done")
  /\ got' = [got EXCEPT ![c] = @ + reply[c].new]
  /\ End(c, "exit")
  /\ UNCHANGED <<server, work>>

Receive(c) ==
  \/ ReceiveUnusable(c) \/ ReceiveExit(c) \/ ReceiveJob(c)
  \/ ReceiveProgress(c) \/ ReceiveResult(c)

-----------------------------------------------------------------------------
(* serveConn, the queues and the jobs *)

Alive == daemon # "off"

Response(kind, new) == [kind |-> kind, build |-> build, new |-> new]

\* Written to a connection the client may have given up on.
Respond(c, r) ==
  reply' = IF client[c] \in {"waiting", "polling"} THEN [reply EXCEPT ![c] = r] ELSE reply

\* A foreign protocol, or a command this door does not serve.
Refused(c) == c \in Foreign \/ (c \in Executing /\ ~Exec)

Refuse(c) ==
  /\ Alive /\ serving[c] = "reading"
  /\ Refused(c)
  /\ serving' = [serving EXCEPT ![c] = "gone"]
  /\ Respond(c, Response("refused", 0))
  /\ UNCHANGED <<server, queue, job, out, ran, ranBy, client, got, verdict>>

\* warm.get stamps the repository; a long command is answered with its job at once.
Admit(c) ==
  /\ Alive /\ serving[c] = "reading"
  /\ ~Refused(c)
  /\ warm' = [warm EXCEPT ![RepoOf[c]] = 0]
  /\ serving' = [serving EXCEPT ![c] = "queued"]
  /\ IF c \in Long
       THEN /\ job' = [job EXCEPT ![c] = "running"]
            /\ Respond(c, Response("job", 0))
       ELSE UNCHANGED <<job, reply>>
  /\ UNCHANGED <<daemon, build, starts, unheld, queue, out, ran, ranBy, client, got, verdict>>

\* Mutant: the command does not wait for the repository's queue.
TakeAtOnce(c) ==
  /\ Alive /\ serving[c] = "queued"
  /\ queue' = [queue EXCEPT ![RepoOf[c]] = c]
  /\ serving' = [serving EXCEPT ![c] = "running"]
  /\ ran' = [ran EXCEPT ![c] = "running"]
  /\ ranBy' = [ranBy EXCEPT ![c] = build]
  /\ UNCHANGED <<server, job, out, asking>>

\* queues.do: the repository's mutex, then the command.
Take(c) ==
  /\ Alive /\ serving[c] = "queued"
  /\ queue[RepoOf[c]] = None
  /\ queue' = [queue EXCEPT ![RepoOf[c]] = c]
  /\ serving' = [serving EXCEPT ![c] = "running"]
  /\ ran' = [ran EXCEPT ![c] = "running"]
  /\ ranBy' = [ranBy EXCEPT ![c] = build]
  /\ UNCHANGED <<server, job, out, asking>>

\* A job's command writes to its buffer while it runs.
Write(c) ==
  /\ Alive /\ serving[c] = "running"
  /\ c \in Long
  /\ out[c] < MaxOut
  /\ out' = [out EXCEPT ![c] = @ + 1]
  /\ UNCHANGED <<server, queue, serving, job, ran, ranBy, asking>>

\* The command returns, and the mutex is let go of: a quick one after its
\* answer is written, a job's before its entry is marked done.
Finish(c) ==
  /\ Alive /\ serving[c] = "running"
  /\ ran' = [ran EXCEPT ![c] = "finished"]
  /\ queue' = [queue EXCEPT ![RepoOf[c]] = None]
  /\ IF c \in Long
       THEN serving' = [serving EXCEPT ![c] = "ran"] /\ UNCHANGED reply
       ELSE serving' = [serving EXCEPT ![c] = "gone"] /\ Respond(c, Response("exit", 0))
  /\ UNCHANGED <<server, job, out, ranBy, client, got, verdict>>

JobDone(c) ==
  /\ Alive /\ serving[c] = "ran"
  /\ job' = [job EXCEPT ![c] = "done"]
  /\ serving' = [serving EXCEPT ![c] = "gone"]
  /\ UNCHANGED <<server, queue, out, ran, ranBy, asking>>

AnswerPollFinished(c) ==
  /\ Alive /\ client[c] = "polling" /\ reply[c] = None
  /\ IF job[c] # "done"
       THEN Respond(c, Response("lost", 0))
       ELSE Respond(c, Response(job[c], out[c] - got[c]))
  /\ UNCHANGED <<server, work, client, got, verdict>>

\* jobs.poll, of an entry this daemon has; and of one it never had.
AnswerPoll(c) ==
  /\ Alive /\ client[c] = "polling" /\ reply[c] = None
  /\ IF job[c] = "none"
       THEN Respond(c, Response("lost", 0))
       ELSE Respond(c, Response(job[c], out[c] - got[c]))
  /\ UNCHANGED <<server, work, client, got, verdict>>

Serving(c) ==
  \/ Refuse(c) \/ Admit(c) \/ Take(c) \/ Write(c) \/ Finish(c) \/ JobDone(c) \/ AnswerPoll(c)

-----------------------------------------------------------------------------
(* The daemon's life *)

\* procoder serve: a build of its own, nothing remembered.
Serve ==
  /\ daemon = "off"
  /\ starts < MaxStarts
  /\ daemon' = "up"
  /\ build' \in Builds
  /\ starts' = starts + 1
  /\ unheld' = 0
  /\ UNCHANGED <<warm, work, asking>>

Held == {r \in Repos : warm[r] < Window}

\* Mutant: a sweep that finds nothing held starts the window over too.
SweepStartsOver ==
  /\ daemon = "up"
  /\ unheld' = 0
  /\ UNCHANGED <<daemon, build, starts, warm, work, asking>>

\* evictUntilEmpty: drop what is past its window; holding something, start
\* over; holding nothing for a whole window, close the listener.
Sweep ==
  /\ daemon = "up"
  /\ \/ Held # {} /\ unheld' = 0 /\ UNCHANGED daemon
     \/ Held = {} /\ unheld >= Window /\ daemon' = "closing" /\ UNCHANGED unheld
  /\ UNCHANGED <<build, starts, warm, work, asking>>

Tick ==
  /\ daemon = "up"
  /\ unheld < Window \/ Held # {}
  /\ unheld' = IF unheld < Window THEN unheld + 1 ELSE unheld
  /\ warm' = [r \in Repos |-> IF warm[r] < Window THEN warm[r] + 1 ELSE Window]
  /\ UNCHANGED <<daemon, build, starts, work, asking>>

\* The process ends, and with it every goroutine, the table and the queues.
Ended ==
  /\ daemon' = "off"
  /\ warm' = [r \in Repos |-> Window]
  /\ unheld' = 0
  /\ queue' = [r \in Repos |-> None]
  /\ serving' = [c \in Clients |-> IF serving[c] = "none" THEN "none" ELSE "gone"]
  /\ job' = [c \in Clients |-> "none"]
  /\ ran' = [c \in Clients |-> IF ran[c] = "running" THEN "cut" ELSE ran[c]]
  /\ reply' = [c \in Clients |->
                 IF client[c] \in {"waiting", "polling"} /\ reply[c] = None
                   THEN Response("broken", 0) ELSE reply[c]]
  /\ UNCHANGED <<build, starts, out, ranBy, client, got, verdict>>

\* Accept returns once the listener is closed, and serveCmd with it.
Leave == daemon = "closing" /\ Ended

\* Killed, from outside.
Die == daemon = "up" /\ Ended

Next ==
  \/ \E c \in Clients :
       Send(c) \/ NoDaemon(c) \/ Poll(c) \/ TimeOut(c) \/ Receive(c) \/ Serving(c)
  \/ Serve \/ Sweep \/ Tick \/ Leave \/ Die

Spec == Init /\ [][Next]_vars

(***************************************************************************)
(* Goroutines and clients run, commands end, time passes, a daemon whose   *)
(* listener is closed ends; nothing says when one is started or killed.    *)
(***************************************************************************)
Fairness ==
  /\ \A c \in Clients :
       /\ WF_vars(Send(c)) /\ WF_vars(NoDaemon(c)) /\ WF_vars(Poll(c)) /\ WF_vars(Receive(c))
       /\ WF_vars(Refuse(c) \/ Admit(c) \/ Finish(c) \/ JobDone(c)) /\ SF_vars(Take(c))
       /\ WF_vars(AnswerPoll(c))
  /\ WF_vars(Sweep) /\ WF_vars(Tick) /\ WF_vars(Leave)

FairSpec == Spec /\ Fairness

-----------------------------------------------------------------------------
(* Properties *)

Responses ==
  [kind : {"exit", "refused", "job", "running", "done", "lost", "broken"},
   build : Builds, new : 0 .. MaxOut]

TypeOK ==
  /\ daemon \in {"off", "up", "closing"} /\ build \in Builds /\ starts \in 0 .. MaxStarts
  /\ warm \in [Repos -> 0 .. Window] /\ unheld \in 0 .. Window
  /\ queue \in [Repos -> Clients \cup {None}]
  /\ serving \in [Clients -> {"none", "reading", "queued", "running", "ran", "gone"}]
  /\ job \in [Clients -> {"none", "running", "done"}]
  /\ out \in [Clients -> 0 .. MaxOut]
  /\ ran \in [Clients -> {"never", "running", "cut", "finished"}]
  /\ ranBy \in [Clients -> Builds \cup {None}]
  /\ client \in [Clients -> {"asking", "waiting", "following", "polling", "over"}]
  /\ reply \in [Clients -> Responses \cup {None}]
  /\ got \in [Clients -> 0 .. MaxOut]
  /\ verdict \in [Clients -> {"none", "exit", "refused", "lost", "error", "deny"}]

\* Requests of one repository are queued rather than run at once: jobs and
\* quick commands alike. (A successor is started only once its predecessor's
\* process is gone: the instant between the closing of the listener and the
\* end of the process is not overlapped with one.)
Serialised ==
  \A c, d \in Clients :
    ran[c] = "running" /\ ran[d] = "running" /\ RepoOf[c] = RepoOf[d] => c = d

\* A client that ends with an exit code has the one its own command ended
\* with, run by its own build, and has printed all that command wrote.
VerdictIsOwn ==
  \A c \in Clients :
    verdict[c] = "exit" => ran[c] = "finished" /\ ranBy[c] = BuildOf[c] /\ got[c] = out[c]

\* The commit gate is never waved through: it ran, or the commit is denied.
GateRanOrDenied ==
  \A c \in Gates : client[c] = "over" => verdict[c] = "deny" \/ ran[c] = "finished"

\* "job ... is gone": a job its client is told is lost is not running anywhere.
LostIsNotRunning ==
  \A c \in Clients : verdict[c] = "lost" => ran[c] # "running" /\ job[c] = "none"

\* Every client ends, behind a long job of the same repository too.
EveryoneIsAnswered == <>(\A c \in Clients : client[c] = "over")

\* A daemon nobody asks anything of does not stay.
IdleDaemonLeaves == <>[](daemon # "up")

\* client.go: "Every error means the same thing to a caller: this command did
\* not run."
ErrorMeansNotRun ==
  \A c \in Clients : verdict[c] \in {"error", "deny"} => ran[c] = "never"
=============================================================================
