------------------------------ MODULE Ledgers -------------------------------
(***************************************************************************)
(* Three records a command reads, changes and writes whole: the claims of  *)
(* agents on paths (internal/claims), the waves of tasks they launch       *)
(* (internal/dispatch), and what a person answered (internal/ask,          *)
(* internal/answers). The lock of the store covers the write alone.        *)
(***************************************************************************)
EXTENDS Globs, FiniteSets

CONSTANTS
  Agents, Patterns, Paths,
  Characters,  \* those that patterns and paths are written in
  MaxClaims,   \* bound: claims on record
  Waves, Tasks,
  Questions, Texts,
  MaxEdits,    \* bound: edits a person makes to the answers' file
  Processes,   \* the processes that run commands
  Serial,      \* they are served by one daemon
  None         \* no wave, no answer, no command, nothing loaded

ASSUME LedgersAssumption ==
  /\ MaxClaims \in Nat /\ MaxEdits \in Nat /\ Serial \in BOOLEAN
  /\ Patterns \cup Paths \subseteq Seq(Characters)
  /\ None \notin Texts

VARIABLES
  claims,     \* the claims on record
  held,       \* those acknowledged and not released
  told,       \* overlaps an agent was told of as it claimed
  waves,      \* each wave's record
  life,       \* how it went, by what was acknowledged
  answers,    \* the answer on file to each question
  edits,
  doing,      \* the command each process runs
  at,         \* and where it is in it
  seen,       \* the record it loaded, and will write
  given       \* what a person answered to it

ledgers == <<claims, held, told>>
records == <<waves, life>>
command == <<doing, at, seen, given>>
vars == <<ledgers, records, answers, edits, command>>

Claim == [by : Agents, glob : Patterns]
Wave == [started : SUBSET Tasks, sealed : BOOLEAN, returned : SUBSET Tasks, early : SUBSET Tasks]
Answers == [Questions -> Texts \cup {None}]

ClaimCommand == [verb : {"add"}, by : Agents, glob : Patterns] \cup [verb : {"release"}, by : Agents]
WaveCommand ==
  [verb : {"open", "seal"}, wave : Waves] \cup [verb : {"start", "return"}, wave : Waves, task : Tasks]
AskCommand == [verb : {"ask", "terminal", "file"}]

Init ==
  /\ claims = {} /\ held = {} /\ told = {}
  /\ waves = [w \in Waves |-> None]
  /\ life = [w \in Waves |-> "none"]
  /\ answers = [q \in Questions |-> None]
  /\ edits = 0
  /\ doing = [p \in Processes |-> None]
  /\ at = [p \in Processes |-> "idle"]
  /\ seen = [p \in Processes |-> None]
  /\ given = [p \in Processes |-> None]

-----------------------------------------------------------------------------
(* A command *)

\* Mutant: a daemon without queues.
StartAtOnce(p) ==
  /\ at[p] = "idle"
  /\ \E c \in ClaimCommand \cup WaveCommand \cup AskCommand :
       /\ c.verb = "add" => Cardinality(claims) < MaxClaims
       /\ doing' = [doing EXCEPT ![p] = c]
  /\ at' = [at EXCEPT ![p] = "load"]
  /\ UNCHANGED <<ledgers, records, answers, edits, seen, given>>

\* A daemon runs one command of a repository at a time, none with a terminal.
Start(p) ==
  /\ at[p] = "idle"
  /\ Serial => \A q \in Processes : at[q] = "idle"
  /\ \E c \in ClaimCommand \cup WaveCommand \cup AskCommand :
       /\ c.verb = "add" => Cardinality(claims) < MaxClaims
       /\ Serial => c.verb # "terminal"
       /\ doing' = [doing EXCEPT ![p] = c]
  /\ at' = [at EXCEPT ![p] = "load"]
  /\ UNCHANGED <<ledgers, records, answers, edits, seen, given>>

Over(p) ==
  /\ doing' = [doing EXCEPT ![p] = None]
  /\ at' = [at EXCEPT ![p] = "idle"]
  /\ seen' = [seen EXCEPT ![p] = None]
  /\ given' = [given EXCEPT ![p] = None]

\* A record that cannot be read, or written, ends the command with a 2.
Fails(p) ==
  /\ at[p] \in {"load", "save"}
  /\ Over(p)
  /\ UNCHANGED <<ledgers, records, answers, edits>>

Load(p, commands, record, next) ==
  /\ at[p] = "load" /\ doing[p] \in commands
  /\ seen' = [seen EXCEPT ![p] = record]
  /\ at' = [at EXCEPT ![p] = next]
  /\ UNCHANGED <<ledgers, records, answers, edits, doing, given>>

-----------------------------------------------------------------------------
(* Claims *)

LoadClaims(p) == Load(p, ClaimCommand, claims, "save")

Conflicts(existing, want) ==
  {c \in existing : c.by # want.by /\ Overlap(c.glob, want.glob)}

\* Add records the claim whatever it overlaps, and says what that is.
Add(p) ==
  LET want == [by |-> doing[p].by, glob |-> doing[p].glob] IN
  /\ at[p] = "save" /\ doing[p] \in ClaimCommand /\ doing[p].verb = "add"
  /\ claims' = seen[p] \cup {want}
  /\ held' = held \cup {want}
  /\ told' = told \cup {{c, want} : c \in Conflicts(seen[p], want)}
  /\ Over(p)
  /\ UNCHANGED <<records, answers, edits>>

\* Mutant: one claim is dropped, not all the agent holds.
ReleaseOne(p) ==
  LET by == doing[p].by IN
  /\ at[p] = "save" /\ doing[p] \in ClaimCommand /\ doing[p].verb = "release"
  /\ \E c \in seen[p] : c.by = by /\ claims' = seen[p] \ {c}
  /\ held' = {c \in held : c.by # by}
  /\ told' = {pair \in told : \A c \in pair : c.by # by}
  /\ Over(p)
  /\ UNCHANGED <<records, answers, edits>>

Release(p) ==
  LET by == doing[p].by IN
  /\ at[p] = "save" /\ doing[p] \in ClaimCommand /\ doing[p].verb = "release"
  /\ claims' = {c \in seen[p] : c.by # by}
  /\ held' = {c \in held : c.by # by}
  /\ told' = {pair \in told : \A c \in pair : c.by # by}
  /\ Over(p)
  /\ UNCHANGED <<records, answers, edits>>

-----------------------------------------------------------------------------
(* Waves *)

LoadWaves(p) == Load(p, WaveCommand, waves, "save")

\* Apply's refusals: an id twice, no such wave, a start after the seal.
Refused(ws, c) ==
  IF c.verb = "open" THEN ws[c.wave] # None
  ELSE ws[c.wave] # None => c.verb = "start" /\ ws[c.wave].sealed

Refuse(p) ==
  /\ at[p] = "save" /\ doing[p] \in WaveCommand
  /\ Refused(seen[p], doing[p])
  /\ Over(p)
  /\ UNCHANGED <<ledgers, records, answers, edits>>

NewWave == [started |-> {}, sealed |-> FALSE, returned |-> {}, early |-> {}]

\* Mutant: an early return is not told from one after the seal.
ApplyForgetting(w, c) ==
  CASE c.verb = "open"   -> NewWave
    [] c.verb = "start"  -> [w EXCEPT !.started = @ \cup {c.task}]
    [] c.verb = "seal"   -> [w EXCEPT !.sealed = TRUE]
    [] c.verb = "return" -> [w EXCEPT !.returned = @ \cup {c.task}]

Apply(w, c) ==
  CASE c.verb = "open"   -> NewWave
    [] c.verb = "start"  -> [w EXCEPT !.started = @ \cup {c.task}]
    [] c.verb = "seal"   -> [w EXCEPT !.sealed = TRUE]
    [] c.verb = "return" -> [w EXCEPT !.returned = @ \cup {c.task},
                                      !.early = IF w.sealed THEN @ ELSE @ \cup {c.task}]

\* A wave's true course, as the command that was acknowledged changes it.
Goes(course, verb) ==
  CASE verb = "open" -> "launching"
    [] verb = "start" /\ course = "sealed" -> "serial"
    [] verb = "return" /\ course = "launching" -> "serial"
    [] verb = "seal" /\ course = "launching" -> "sealed"
    [] OTHER -> course

Record(p) ==
  /\ at[p] = "save" /\ doing[p] \in WaveCommand
  /\ ~Refused(seen[p], doing[p])
  /\ waves' = [seen[p] EXCEPT ![doing[p].wave] = Apply(@, doing[p])]
  /\ life' = [life EXCEPT ![doing[p].wave] = Goes(@, doing[p].verb)]
  /\ Over(p)
  /\ UNCHANGED <<ledgers, answers, edits>>

Verdict(w) ==
  CASE w.early # {} -> "serial"
    [] w.early = {} /\ ~w.sealed -> "unverified"
    [] OTHER -> "parallel"

-----------------------------------------------------------------------------
(* Answers *)

\* The file says so itself: edit an answer here.
Edit(q) ==
  /\ edits < MaxEdits
  /\ edits' = edits + 1
  /\ \E text \in Texts \cup {None} : answers' = [answers EXCEPT ![q] = text]
  /\ UNCHANGED <<ledgers, records, command>>

LoadAnswers(p) ==
  Load(p, AskCommand, answers, IF doing[p] = [verb |-> "ask"] THEN "collect" ELSE "give")

\* The questions of the moment are asked of every domain, which takes a while.
Collect(p) ==
  /\ at[p] = "collect"
  /\ \E open \in SUBSET Questions :
       IF \A q \in open : seen[p][q] # None
         THEN Over(p)
         ELSE at' = [at EXCEPT ![p] = "later"] /\ UNCHANGED <<doing, seen, given>>
  /\ UNCHANGED <<ledgers, records, answers, edits>>

\* With no terminal the questions are written down for a person, and the
\* answers as they were loaded, if they are no longer what is on file.
WriteForLater(p) ==
  /\ at[p] = "later"
  /\ IF answers = seen[p]
       THEN Over(p)
       ELSE at' = [at EXCEPT ![p] = "save"] /\ UNCHANGED <<doing, seen, given>>
  /\ UNCHANGED <<ledgers, records, answers, edits>>

\* Answers come from the terminal, to what has none, or from a file, to anything.
Give(p) ==
  /\ at[p] = "give"
  /\ \E new \in Answers :
       IF \A q \in Questions : new[q] = None
         THEN Over(p)
         ELSE /\ doing[p].verb = "terminal" => \A q \in Questions : new[q] # None => seen[p][q] = None
              /\ given' = [given EXCEPT ![p] = new]
              /\ seen' = [seen EXCEPT ![p] = [q \in Questions |-> IF new[q] = None THEN @[q] ELSE new[q]]]
              /\ at' = [at EXCEPT ![p] = "save"]
              /\ UNCHANGED doing
  /\ UNCHANGED <<ledgers, records, answers, edits>>

\* Mutant: the answers of this run are written, not those on file.
WriteGiven(p) ==
  /\ at[p] = "save" /\ doing[p] \in AskCommand
  /\ answers' = given[p]
  /\ Over(p)
  /\ UNCHANGED <<ledgers, records, edits>>

WriteAnswers(p) ==
  /\ at[p] = "save" /\ doing[p] \in AskCommand
  /\ answers' = seen[p]
  /\ Over(p)
  /\ UNCHANGED <<ledgers, records, edits>>

Step(p) ==
  \/ Start(p) \/ Fails(p)
  \/ LoadClaims(p) \/ Add(p) \/ Release(p)
  \/ LoadWaves(p) \/ Refuse(p) \/ Record(p)
  \/ LoadAnswers(p) \/ Collect(p) \/ WriteForLater(p) \/ Give(p) \/ WriteAnswers(p)

Next == (\E p \in Processes : Step(p)) \/ \E q \in Questions : Edit(q)

Spec == Init /\ [][Next]_vars

-----------------------------------------------------------------------------
(* Properties *)

\* What a process has loaded is the record its command is about.
Loaded(p) ==
  \/ at[p] \in {"idle", "load"} /\ seen[p] = None
  \/ at[p] = "save" /\ doing[p] \in ClaimCommand /\ seen[p] \subseteq Claim
  \/ at[p] = "save" /\ doing[p] \in WaveCommand /\ seen[p] \in [Waves -> Wave \cup {None}]
  \/ at[p] \in {"save", "collect", "later", "give"} /\ doing[p] \in AskCommand /\ seen[p] \in Answers

\* The records are of their shapes, and so is what each process loaded of them.
TypeOK ==
  /\ claims \subseteq Claim /\ held \subseteq Claim /\ told \subseteq SUBSET Claim
  /\ waves \in [Waves -> Wave \cup {None}]
  /\ life \in [Waves -> {"none", "launching", "sealed", "serial"}]
  /\ answers \in Answers
  /\ edits \in 0 .. MaxEdits
  /\ doing \in [Processes -> ClaimCommand \cup WaveCommand \cup AskCommand \cup {None}]
  /\ at \in [Processes -> {"idle", "load", "save", "collect", "later", "give"}]
  /\ DOMAIN seen = Processes /\ \A p \in Processes : Loaded(p)
  /\ given \in [Processes -> Answers \cup {None}]

\* The ledger lists every claim that was acknowledged until it is released,
\* and no other: no agent's claim or release is lost to another's.
HeldIsListed == claims = held

\* "make an overlap VISIBLE before the work collides": of two agents whose
\* claims overlap, the second was told as it claimed.
OverlapTold ==
  \A c, d \in held : c.by # d.by /\ Overlap(c.glob, d.glob) => {c, d} \in told

\* "a missed one costs two agents' work": patterns that some path falls under
\* both of are reported.
OverlapIsGenerous ==
  \A c, d \in held : (\E path \in Paths : Owns(c.glob, path) /\ Owns(d.glob, path)) => Overlap(c.glob, d.glob)

\* A wave is called parallel exactly when it was sealed before anything
\* returned and nothing was launched after that.
VerdictIsTheRecord ==
  \A w \in Waves : waves[w] # None => (Verdict(waves[w]) = "parallel" <=> life[w] = "sealed")

\* Until somebody edits the file by hand, an answer on it is replaced only by
\* one a person gave to the command that writes it.
AnswersStay ==
  [][\A q \in Questions : edits' = 0 /\ answers'[q] # answers[q] =>
       \E p \in Processes : given[p] \in Answers /\ given[p][q] # None /\ answers'[q] = given[p][q]]_vars
=============================================================================
