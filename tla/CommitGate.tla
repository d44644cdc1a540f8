----------------------------- MODULE CommitGate -----------------------------
(***************************************************************************)
(* The commit gate: the pre-tool-use hook (internal/hook/commit.go), the   *)
(* gate it runs (internal/gate/gate.go) on the budget of internal/parallel,*)
(* and the repository that is edited, staged and committed around them.    *)
(*                                                                         *)
(* A gate lists what git says has changed, starts a unit of work per leg   *)
(* and file, and each unit reads its file when its turn comes. The host    *)
(* runs the command unless the hook denied it.                             *)
(***************************************************************************)
EXTENDS FiniteSets, Naturals

CONSTANTS
  Files,
  Formatted,   \* files of a type some formatter covers
  Gates,       \* commands the host asks the hook about, one after the other
  Daemon,      \* the process that serves the hooks of a resident setup
  Slots,       \* units of work a process may have in flight
  MaxEdits,    \* bound: edits of the working tree in one behaviour
  Setups,      \* how the repository may be set up
  Absent       \* no such file

\* A shifted file is the leaky one under a new first line.
Contents == {"clean", "ugly", "leaky", "shifted", "broken"}

ASSUME GateAssumption ==
  /\ IsFiniteSet(Files) /\ IsFiniteSet(Gates) /\ Formatted \subseteq Files /\ Daemon \notin Gates
  /\ Slots \in Nat \ {0} /\ MaxEdits \in Nat
  /\ Setups \subseteq [scope : {"adopted", "universal"}, policy : {"block", "report", "off"},
                       testBlock : BOOLEAN, resident : BOOLEAN]
  /\ Absent \notin Contents

VARIABLES
  setup,      \* the repository's scope and policies, and whether a daemon serves it
  head, index, tree,   \* each file as committed, staged, and on disk
  edits,      \* edits so far
  stage,      \* where each command is: idle, judging, decided, over
  command,    \* what it turned out to be
  decision,   \* the hook's answer: nothing, a word, or no
  gate,       \* where its gate is
  unit,       \* the work of the format and secrets legs on each file
  suite,      \* the suite leg
  budget,     \* slots taken, by process
  blind,      \* some tool gave its gate no answer
  still       \* nothing was edited or staged since its gate listed

repository == <<setup, head, index, tree, edits>>
hook == <<stage, command, decision>>
gating == <<gate, unit, suite, budget, blind>>
vars == <<repository, hook, gating, still>>

\* A repository that never adopted procoder gets the universal checks only.
Adopted == setup.scope = "adopted"

\* The legs whose units draw on the shared budget, one unit per file.
Units == {"format", "secrets"} \X Files

\* The process a hook runs in: the daemon, or one of its own.
Process(g) == IF setup.resident THEN Daemon ELSE g

Commits == {"commit", "commit_all"}

Init ==
  /\ setup \in Setups
  /\ head = [f \in Files |-> "clean"] /\ index = head /\ tree = head
  /\ edits = 0
  /\ stage = [g \in Gates |-> "idle"]
  /\ command = [g \in Gates |-> "other"]
  /\ decision = [g \in Gates |-> "none"]
  /\ gate = [g \in Gates |-> "none"]
  /\ unit = [g \in Gates |-> [u \in Units |-> "off"]]
  /\ suite = [g \in Gates |-> "off"]
  /\ budget = [p \in Gates \cup {Daemon} |-> 0]
  /\ blind = [g \in Gates |-> FALSE]
  /\ still = [g \in Gates |-> FALSE]

-----------------------------------------------------------------------------
(* The working tree *)

Edit(f, c) ==
  /\ edits < MaxEdits
  /\ c # tree[f]
  /\ tree' = [tree EXCEPT ![f] = c]
  /\ edits' = edits + 1
  /\ still' = [g \in Gates |-> FALSE]
  /\ UNCHANGED <<setup, head, index, hook, gating>>

Stage(f) ==
  /\ index[f] # tree[f]
  /\ index' = [index EXCEPT ![f] = tree[f]]
  /\ still' = [g \in Gates |-> FALSE]
  /\ UNCHANGED <<setup, head, tree, edits, hook, gating>>

\* git status, less every line with a D in it.
Changed == {f \in Files : tree[f] # Absent /\ ~(head[f] = index[f] /\ index[f] = tree[f])}

\* A formatter looks at the types it covers, and in adopting repositories only.
Work == {u \in Units : u[2] \in Changed /\ (u[1] = "format" => Adopted /\ u[2] \in Formatted)}

-----------------------------------------------------------------------------
(* The hook *)

\* The hook answers, and a process of its own takes its goroutines with it.
Decide(g, d) ==
  /\ stage' = [stage EXCEPT ![g] = "decided"]
  /\ decision' = [decision EXCEPT ![g] = d]
  /\ IF setup.resident
       THEN UNCHANGED <<unit, budget>>
       ELSE /\ unit' = [unit EXCEPT ![g] = [u \in Units |-> "off"]]
            /\ budget' = [budget EXCEPT ![g] = 0]

\* The host asks about a command; a daemon queues one repository's requests.
Arrive(g) ==
  /\ stage[g] = "idle"
  /\ setup.resident => \A h \in Gates : stage[h] # "judging"
  /\ stage' = [stage EXCEPT ![g] = "judging"]
  /\ \E c \in Commits \cup {"no_verify", "other"} : command' = [command EXCEPT ![g] = c]
  /\ UNCHANGED <<repository, decision, gating, still>>

Asked(g) == stage[g] = "judging" /\ gate[g] = "none"

\* A payload that cannot be read or parsed is let through, and that is said.
Unreadable(g) ==
  /\ Asked(g)
  /\ Decide(g, "said")
  /\ UNCHANGED <<repository, command, gate, suite, blind, still>>

\* No commit, or a repository that turned the interception off.
NotOurs(g) ==
  /\ Asked(g)
  /\ command[g] = "other" \/ setup.policy = "off"
  /\ Decide(g, "silent")
  /\ UNCHANGED <<repository, command, gate, suite, blind, still>>

Bypassed(g) ==
  /\ Asked(g)
  /\ command[g] = "no_verify" /\ setup.policy # "off"
  /\ Decide(g, "said")
  /\ UNCHANGED <<repository, command, gate, suite, blind, still>>

RunGate(g) ==
  /\ Asked(g)
  /\ command[g] \in Commits /\ setup.policy # "off"
  /\ gate' = [gate EXCEPT ![g] = "listing"]
  /\ UNCHANGED <<repository, hook, unit, suite, budget, blind, still>>

Running(g) == gate[g] \in {"listing", "checking"}

Refusal == IF setup.policy = "report" THEN "said" ELSE "denied"

\* Mutant: the deadline passes in silence.
DeadlineSilent(g) ==
  /\ stage[g] = "judging" /\ Running(g)
  /\ Decide(g, "silent")
  /\ UNCHANGED <<repository, command, gate, suite, blind, still>>

\* gateDeadline: the gate has not judged, and its goroutine is left to itself.
Deadline(g) ==
  /\ stage[g] = "judging" /\ Running(g)
  /\ Decide(g, Refusal)
  /\ UNCHANGED <<repository, command, gate, suite, blind, still>>

Verdict(g) ==
  /\ stage[g] = "judging"
  /\ gate[g] \in {"clean", "blocking"}
  /\ Decide(g, IF gate[g] = "clean" THEN "silent" ELSE Refusal)
  /\ UNCHANGED <<repository, command, gate, suite, blind, still>>

\* The host runs what was not denied: git commits the index, or with -a
\* every tracked file as it is on disk.
Committed(g) ==
  IF command[g] = "commit_all"
    THEN [f \in Files |-> IF index[f] = Absent THEN Absent ELSE tree[f]]
    ELSE index

RunCommand(g) ==
  /\ stage[g] = "decided"
  /\ stage' = [stage EXCEPT ![g] = "over"]
  /\ IF decision[g] # "denied" /\ command[g] # "other"
       THEN head' = Committed(g) /\ index' = Committed(g)
       ELSE UNCHANGED <<head, index>>
  /\ UNCHANGED <<setup, tree, edits, command, decision, gating, still>>

Hook(g) ==
  \/ Arrive(g) \/ Unreadable(g) \/ NotOurs(g) \/ Bypassed(g) \/ RunGate(g)
  \/ Deadline(g) \/ Verdict(g) \/ RunCommand(g)

-----------------------------------------------------------------------------
(* The gate *)

Attended(g) == setup.resident \/ stage[g] = "judging"

List(g) ==
  /\ Attended(g) /\ gate[g] = "listing"
  /\ gate' = [gate EXCEPT ![g] = IF Changed = {} THEN "clean" ELSE "checking"]
  /\ unit' = [unit EXCEPT ![g] = [u \in Units |-> IF u \in Work THEN "waiting" ELSE "off"]]
  /\ suite' = [suite EXCEPT ![g] = IF Adopted /\ Changed # {} THEN "waiting" ELSE "off"]
  /\ still' = [still EXCEPT ![g] = TRUE]
  /\ UNCHANGED <<repository, hook, budget, blind>>

\* git cannot list the changes, or the gate panics: an inability to verify.
CannotJudge(g) ==
  /\ Attended(g) /\ gate[g] = "listing"
  /\ gate' = [gate EXCEPT ![g] = "blocking"]
  /\ UNCHANGED <<repository, hook, unit, suite, budget, blind, still>>

\* parallel.Do: a unit takes a slot and holds it until it has run.
Take(g, u) ==
  /\ unit[g][u] = "waiting"
  /\ budget[Process(g)] < Slots
  /\ unit' = [unit EXCEPT ![g][u] = "held"]
  /\ budget' = [budget EXCEPT ![Process(g)] = @ + 1]
  /\ UNCHANGED <<repository, hook, gate, suite, blind, still>>

\* The secret scan drops a path that is not there before it asks for a slot.
Skip(g, f) ==
  /\ unit[g][<<"secrets", f>>] = "waiting" /\ tree[f] = Absent
  /\ unit' = [unit EXCEPT ![g][<<"secrets", f>>] = "passes"]
  /\ UNCHANGED <<repository, hook, gate, suite, budget, blind, still>>

\* What of a file's contents blocks, by leg. A formatter that cannot read
\* its file has not checked it. Outside an adopting repository a secret counts
\* where its line, of the file on disk, is one of those the staged diff or the
\* unstaged one adds, each numbered in its own version of the file.
Unformatted(c) == c \in {"ugly", Absent}

Leaks(c) == c \in {"leaky", "shifted"}

AddedLines(from, to) ==
  CASE from = to -> {}
    [] <<from, to>> = <<"leaky", "shifted">> -> {1}
    [] <<from, to>> = <<"shifted", "leaky">> -> {}
    [] OTHER -> {1, 2}

Secret(f, c) ==
  /\ Leaks(c)
  /\ Adopted \/ (IF c = "leaky" THEN 1 ELSE 2) \in AddedLines(head[f], index[f]) \cup AddedLines(index[f], c)

Failing(c) == c = "broken" /\ setup.testBlock

Stops(leg, f, c) ==
  \/ leg = "format" /\ f \in Formatted /\ Unformatted(c)
  \/ leg = "secrets" /\ Secret(f, c)
  \/ leg = "suite" /\ Failing(c)

\* Mutants: a unit that waits for a second slot while it holds one; a file
\* its tool could not look at counted as out of scope.
CheckInside(g, u) ==
  /\ unit[g][u] = "held" /\ budget[Process(g)] < Slots
  /\ budget' = [budget EXCEPT ![Process(g)] = @ - 1]
  /\ \E read \in BOOLEAN :
       /\ unit' = [unit EXCEPT ![g][u] =
                     IF read /\ ~Stops(u[1], u[2], tree[u[2]]) THEN "passes" ELSE "blocks"]
       /\ blind' = [blind EXCEPT ![g] = @ \/ ~read]
  /\ UNCHANGED <<repository, hook, gate, suite, still>>

CheckLoosely(g, u) ==
  /\ unit[g][u] = "held"
  /\ budget' = [budget EXCEPT ![Process(g)] = @ - 1]
  /\ \E read \in BOOLEAN :
       /\ unit' = [unit EXCEPT ![g][u] =
                     IF read /\ Stops(u[1], u[2], tree[u[2]]) THEN "blocks" ELSE "passes"]
       /\ blind' = [blind EXCEPT ![g] = @ \/ ~read]
  /\ UNCHANGED <<repository, hook, gate, suite, still>>

\* The unit's tool reads the file as it is now, or gives no answer, which blocks.
Check(g, u) ==
  /\ unit[g][u] = "held"
  /\ budget' = [budget EXCEPT ![Process(g)] = @ - 1]
  /\ \E read \in BOOLEAN :
       /\ unit' = [unit EXCEPT ![g][u] =
                     IF read /\ ~Stops(u[1], u[2], tree[u[2]]) THEN "passes" ELSE "blocks"]
       /\ blind' = [blind EXCEPT ![g] = @ \/ ~read]
  /\ UNCHANGED <<repository, hook, gate, suite, still>>

\* The suite, a goroutine of its own: a failure blocks where the repository
\* asked for it, a suite that could not run everywhere.
RunSuite(g) ==
  /\ Attended(g) /\ suite[g] = "waiting"
  /\ \E ran \in BOOLEAN :
       /\ suite' = [suite EXCEPT ![g] =
                      IF ran /\ ~(\E f \in Files : Stops("suite", f, tree[f])) THEN "passes" ELSE "blocks"]
       /\ blind' = [blind EXCEPT ![g] = @ \/ ~ran]
  /\ UNCHANGED <<repository, hook, gate, unit, budget, still>>

Answered(g) ==
  /\ suite[g] # "waiting"
  /\ \A u \in Units : unit[g][u] \notin {"waiting", "held"}

Blocked(g) == suite[g] = "blocks" \/ \E u \in Units : unit[g][u] = "blocks"

\* Mutant: the verdict on the formatting alone, as "the first release" gave it.
JudgeFormatting(g) ==
  /\ Attended(g) /\ gate[g] = "checking"
  /\ Answered(g)
  /\ gate' = [gate EXCEPT ![g] =
       IF \E f \in Files : unit[g][<<"format", f>>] = "blocks" THEN "blocking" ELSE "clean"]
  /\ UNCHANGED <<repository, hook, unit, suite, budget, blind, still>>

Judge(g) ==
  /\ Attended(g) /\ gate[g] = "checking"
  /\ Answered(g)
  /\ gate' = [gate EXCEPT ![g] = IF Blocked(g) THEN "blocking" ELSE "clean"]
  /\ UNCHANGED <<repository, hook, unit, suite, budget, blind, still>>

Gate(g) ==
  \/ List(g) \/ CannotJudge(g) \/ RunSuite(g) \/ Judge(g)
  \/ \E u \in Units : Take(g, u) \/ Check(g, u)
  \/ \E f \in Files : Skip(g, f)

-----------------------------------------------------------------------------

Next ==
  \/ \E f \in Files : Stage(f) \/ \E c \in Contents \cup {Absent} : Edit(f, c)
  \/ \E g \in Gates : Hook(g) \/ Gate(g)

Spec == Init /\ [][Next]_vars

(***************************************************************************)
(* The gate's goroutines run: every external tool has a timeout of its own *)
(* and the runtime is fair to who waits for a slot. Nothing is assumed of  *)
(* the host, of whoever edits, or of the deadline.                         *)
(***************************************************************************)
Fairness ==
  \A g \in Gates :
    /\ WF_vars(List(g)) /\ WF_vars(RunSuite(g)) /\ WF_vars(Judge(g))
    /\ \A u \in Units : SF_vars(Take(g, u)) /\ WF_vars(Check(g, u))

FairSpec == Spec /\ Fairness

-----------------------------------------------------------------------------
(* Properties *)

TypeOK ==
  /\ setup \in Setups
  /\ {head, index, tree} \subseteq [Files -> Contents \cup {Absent}]
  /\ edits \in 0 .. MaxEdits
  /\ stage \in [Gates -> {"idle", "judging", "decided", "over"}]
  /\ command \in [Gates -> Commits \cup {"no_verify", "other"}]
  /\ decision \in [Gates -> {"none", "silent", "said", "denied"}]
  /\ gate \in [Gates -> {"none", "listing", "checking", "clean", "blocking"}]
  /\ unit \in [Gates -> [Units -> {"off", "waiting", "held", "passes", "blocks"}]]
  /\ suite \in [Gates -> {"off", "waiting", "passes", "blocks"}]
  /\ budget \in [Gates \cup {Daemon} -> 0 .. Slots]
  /\ blind \in [Gates -> BOOLEAN]
  /\ still \in [Gates -> BOOLEAN]

\* A gated commit that goes through without a word was judged, and clean:
\* every tool answered about every file it was given, whatever the deadline.
SilenceIsAVerdict ==
  \A g \in Gates :
    decision[g] = "silent" /\ command[g] \in Commits /\ setup.policy # "off" =>
      gate[g] = "clean" /\ ~blind[g]

\* When nothing was edited or staged since the gate listed, and nothing on
\* disk differs from what is staged, a commit let through in silence holds
\* no content the gate would have stopped.
Quiet(g) == still[g] /\ index = tree

QuietCommitIsClean ==
  [][\A g \in Gates :
       stage[g] = "decided" /\ stage'[g] = "over" /\ decision[g] = "silent"
         /\ command[g] \in Commits /\ setup.policy # "off" /\ Quiet(g) =>
           \A f \in Files : head'[f] # head[f] /\ head'[f] # Absent =>
             /\ ~Secret(f, head'[f])
             /\ Adopted => ~Stops("format", f, head'[f]) /\ ~Failing(head'[f])]_vars

\* A gate that has started ends, with its deadline passed or not: "an outer
\* fan-out whose units open inner ones can take every slot and then wait
\* forever for one".
GateEnds == \A g \in Gates : (Running(g) /\ setup.resident) ~> ~Running(g)

\* gate.go: "a secret in a changed file blocks, always".
SecretsStayOut ==
  [][\A g \in Gates :
       stage[g] = "decided" /\ stage'[g] = "over" /\ decision[g] = "silent"
         /\ command[g] \in Commits /\ setup.policy # "off" /\ still[g] =>
           \A f \in Files : Leaks(head'[f]) => Leaks(head[f])]_vars
=============================================================================
