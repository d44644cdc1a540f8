------------------------------ MODULE Backlog -------------------------------
(***************************************************************************)
(* The backlog (internal/backlog): stories, their epics and milestones,    *)
(* and the sprints they are worked in, each a file. Creation prints a file *)
(* for the agent to write; closing, pulling and carrying rewrite files.    *)
(*                                                                         *)
(* A command reads a file, decides, and writes the text it read with one   *)
(* line changed, minutes later when the gate and the suite run in between. *)
(* The agent edits the same files at any time.                             *)
(***************************************************************************)
EXTENDS FiniteSets, Integers

CONSTANTS
  Stories, Epics, Milestones,
  Parent,      \* the epic of a story, the milestone of an epic
  Goals,       \* goals a sprint may be opened for, ordered as their names are
  MaxSprints,  \* bound: sprints in one behaviour
  MaxEdits,    \* bound: the agent's edits of stories
  Processes,   \* the processes that run commands
  Serial,      \* they are served by one daemon
  RetroOff,    \* the repository does not ask for retros
  Absent,      \* no such file
  None         \* no sprint, no story

\* A sprint's name begins with its number.
SprintIds == (1 .. MaxSprints) \X Goals

Parents == Epics \cup Milestones

ASSUME BacklogAssumption ==
  /\ Goals \subseteq Nat /\ MaxSprints \in Nat /\ MaxEdits \in Nat
  /\ Serial \in BOOLEAN /\ RetroOff \in BOOLEAN
  /\ Stories \cap Parents = {} /\ Epics \cap Milestones = {}
  /\ Parent \in [Stories \cup Epics -> Parents \cup {None}]
  /\ None \notin SprintIds \cup Stories \cup Parents

VARIABLES
  story,      \* each story's file
  sprint,     \* each sprint's file
  parent,     \* the status of each epic and milestone
  printed,    \* sprints printed for the agent to write
  edits,
  doing,      \* the command each process runs
  at,         \* and where it is in it
  active,     \* the sprint it found active
  left,       \* the stories it has yet to see to, or has looked at
  on,         \* the story or parent it is about
  text,       \* what it loaded of it
  green,      \* the gate's and the suite's verdict, asked once
  missed      \* stories a closed sprint could not read

files == <<story, sprint, parent, printed, edits, missed>>
command == <<doing, at, active, left, on, text, green>>
vars == <<files, command>>

StoryFile ==
  [status : {"open", "done"}, sprint : SprintIds \cup {None}, carried : SUBSET SprintIds, ready : BOOLEAN]

SprintFile ==
  [status : {"active", "closed"}, done : SUBSET Stories, carried : SUBSET Stories, retro : BOOLEAN]

ASSUME AbsentAssumption == Absent \notin StoryFile \cup SprintFile

New(ready) == [status |-> "open", sprint |-> None, carried |-> {}, ready |-> ready]

Init ==
  /\ story = [s \in Stories |-> Absent]
  /\ sprint = [n \in SprintIds |-> Absent]
  /\ parent = [x \in Parents |-> "open"]
  /\ printed = {} /\ edits = 0
  /\ doing = [p \in Processes |-> "nothing"]
  /\ at = [p \in Processes |-> "idle"]
  /\ active = [p \in Processes |-> None]
  /\ left = [p \in Processes |-> {}]
  /\ on = [p \in Processes |-> None]
  /\ text = [p \in Processes |-> Absent]
  /\ green = [p \in Processes |-> "unasked"]
  /\ missed = [n \in SprintIds |-> {}]

-----------------------------------------------------------------------------
(* The agent *)

Edit == edits < MaxEdits /\ edits' = edits + 1

\* It writes a story, from the printed template or its own head.
Write(s) ==
  /\ Edit
  /\ story[s] = Absent
  /\ \E ready \in BOOLEAN : story' = [story EXCEPT ![s] = New(ready)]
  /\ UNCHANGED <<sprint, parent, printed, missed, command>>

\* It checks the boxes of a story and records evidence, or takes it back.
Work(s) ==
  /\ Edit
  /\ story[s] # Absent
  /\ story' = [story EXCEPT ![s].ready = ~@]
  /\ UNCHANGED <<sprint, parent, printed, missed, command>>

WriteSprint(n) ==
  /\ n \in printed
  /\ printed' = printed \ {n}
  /\ sprint' = [sprint EXCEPT ![n] = [status |-> "active", done |-> {}, carried |-> {}, retro |-> FALSE]]
  /\ UNCHANGED <<story, parent, edits, missed, command>>

WriteRetro(n) ==
  /\ sprint[n] # Absent /\ sprint[n].status = "closed" /\ ~sprint[n].retro
  /\ sprint' = [sprint EXCEPT ![n].retro = TRUE]
  /\ UNCHANGED <<story, parent, printed, edits, missed, command>>

Agent ==
  \/ \E s \in Stories : Write(s) \/ Work(s)
  \/ \E n \in SprintIds : WriteSprint(n) \/ WriteRetro(n)

-----------------------------------------------------------------------------
(* Commands *)

\* Mutant: a daemon without queues.
StartAtOnce(p) ==
  /\ at[p] = "idle"
  /\ \E what \in {"close", "pull", "carry", "end", "open"}, ids \in SUBSET Stories \ {{}} :
       /\ what = "carry" => Cardinality(ids) = 1
       /\ doing' = [doing EXCEPT ![p] = what]
       /\ left' = [left EXCEPT ![p] = ids]
       /\ at' = [at EXCEPT ![p] = IF what = "close" THEN "load" ELSE "find"]
  /\ UNCHANGED <<files, active, on, text, green>>

\* A daemon runs one command of a repository at a time.
Start(p) ==
  /\ at[p] = "idle"
  /\ Serial => \A q \in Processes : at[q] = "idle"
  /\ \E what \in {"close", "pull", "carry", "end", "open"}, ids \in SUBSET Stories \ {{}} :
       /\ what = "carry" => Cardinality(ids) = 1
       /\ what \in {"end", "open"} => ids = Stories
       /\ doing' = [doing EXCEPT ![p] = what]
       /\ left' = [left EXCEPT ![p] = ids]
       /\ at' = [at EXCEPT ![p] = IF what = "close" THEN "load" ELSE "find"]
  /\ UNCHANGED <<files, active, on, text, green>>

StartParent(p, x) ==
  /\ at[p] = "idle"
  /\ Serial => \A q \in Processes : at[q] = "idle"
  /\ doing' = [doing EXCEPT ![p] = "parent"]
  /\ on' = [on EXCEPT ![p] = x]
  /\ at' = [at EXCEPT ![p] = "look"]
  /\ UNCHANGED <<files, active, left, text, green>>

\* A command that is over forgets what it knew.
Over(p) ==
  /\ doing' = [doing EXCEPT ![p] = "nothing"]
  /\ at' = [at EXCEPT ![p] = "idle"]
  /\ active' = [active EXCEPT ![p] = None]
  /\ left' = [left EXCEPT ![p] = {}]
  /\ on' = [on EXCEPT ![p] = None]
  /\ text' = [text EXCEPT ![p] = Absent]
  /\ green' = [green EXCEPT ![p] = "unasked"]

\* A batch goes on to its next story, with the verdict it has.
NextStory(p, s, verdict) ==
  IF left[p] = {s}
    THEN Over(p)
    ELSE /\ left' = [left EXCEPT ![p] = @ \ {s}]
         /\ at' = [at EXCEPT ![p] = "load"]
         /\ on' = [on EXCEPT ![p] = None]
         /\ text' = [text EXCEPT ![p] = Absent]
         /\ green' = [green EXCEPT ![p] = verdict]
         /\ UNCHANGED <<doing, active>>

\* A file or a directory on the way that cannot be read ends most commands.
CannotRead(p) ==
  /\ at[p] \in {"find", "look"}
  /\ Over(p)
  /\ UNCHANGED files

\* The first of the sprints whose status is active, in the order of their names.
Earlier(m, n) == m[1] < n[1] \/ (m[1] = n[1] /\ m[2] <= n[2])
Written == {n \in SprintIds : sprint[n] # Absent}
Active == {n \in Written : sprint[n].status = "active"}

FindActive(p) ==
  /\ at[p] = "find" /\ doing[p] # "open"
  /\ IF Active = {}
       THEN Over(p)
       ELSE /\ \E n \in Active : (\A m \in Active : Earlier(n, m)) /\ active' = [active EXCEPT ![p] = n]
            /\ at' = [at EXCEPT ![p] = IF doing[p] = "end" THEN "look" ELSE "load"]
            /\ UNCHANGED <<doing, left, on, text, green>>
  /\ UNCHANGED files

\* A story is loaded when its turn comes, and refused or kept for the save.
Load(p, s, wanted, next) ==
  /\ at[p] = "load" /\ s \in left[p]
  /\ IF wanted
       THEN /\ on' = [on EXCEPT ![p] = s]
            /\ text' = [text EXCEPT ![p] = story[s]]
            /\ at' = [at EXCEPT ![p] = next]
            /\ UNCHANGED <<doing, active, left, green>>
       ELSE NextStory(p, s, green[p])
  /\ UNCHANGED files

Save(p, new) ==
  /\ at[p] = "save"
  /\ story' = [story EXCEPT ![on[p]] = new]
  /\ NextStory(p, on[p], green[p])
  /\ UNCHANGED <<sprint, parent, printed, edits, missed>>

LoadToClose(p, s) ==
  doing[p] = "close" /\ Load(p, s, story[s] # Absent /\ story[s].status # "done", "judge")

\* The gate and the suite are asked for the first story of a batch only.
Judge(p) ==
  /\ at[p] = "judge"
  /\ \E verdict \in IF green[p] = "unasked" THEN {"clean", "not"} ELSE {green[p]} :
       IF verdict = "clean" /\ text[p].ready
         THEN /\ at' = [at EXCEPT ![p] = "save"]
              /\ green' = [green EXCEPT ![p] = verdict]
              /\ UNCHANGED <<doing, active, left, on, text>>
         ELSE NextStory(p, on[p], verdict)
  /\ UNCHANGED files

MarkDone(p) == doing[p] = "close" /\ Save(p, [text[p] EXCEPT !.status = "done"])

\* Mutant: a story that is committed is pulled all the same.
LoadToPullAny(p, s) ==
  doing[p] = "pull" /\ Load(p, s, story[s] # Absent /\ story[s].status # "done", "save")

LoadToPull(p, s) ==
  /\ doing[p] = "pull"
  /\ Load(p, s, story[s] # Absent /\ story[s].status # "done" /\ story[s].sprint = None, "save")

SavePull(p) == doing[p] = "pull" /\ Save(p, [text[p] EXCEPT !.sprint = active[p]])

LoadToCarry(p, s) ==
  /\ doing[p] = "carry"
  /\ Load(p, s, story[s] # Absent /\ story[s].sprint = active[p], "save")

SaveCarry(p) ==
  /\ doing[p] = "carry"
  /\ Save(p, [text[p] EXCEPT !.sprint = None, !.carried = @ \cup {active[p]}])

-----------------------------------------------------------------------------
(* Sprints, epics and milestones *)

\* LoadAll: a file that cannot be read is an item without its header lines.
Unread(items) == {{}} \cup {{i} : i \in items}

StoriesThere == {s \in Stories : story[s] # Absent}

\* What a sprint's close writes down.
Tally(p, read) ==
  [done    |-> {s \in read : story[s].sprint = active[p]},
   carried |-> {s \in read : story[s].sprint # active[p] /\ active[p] \in story[s].carried}]

\* Mutant: the sprint ends with its stories as they are.
LookAtSprintBriefly(p) ==
  /\ at[p] = "look" /\ doing[p] = "end"
  /\ at' = [at EXCEPT ![p] = "save"]
  /\ left' = [left EXCEPT ![p] = StoriesThere]
  /\ text' = [text EXCEPT ![p] = Tally(p, StoriesThere)]
  /\ UNCHANGED <<files, doing, active, on, green>>

\* SprintClose refuses for stories committed to the sprint and not done. One
\* that cannot be read is neither committed to it nor carried from it.
LookAtSprint(p) ==
  /\ at[p] = "look" /\ doing[p] = "end"
  /\ \E unread \in Unread(StoriesThere) :
       IF \E s \in StoriesThere \ unread : story[s].sprint = active[p] /\ story[s].status # "done"
         THEN Over(p)
         ELSE /\ at' = [at EXCEPT ![p] = "save"]
              /\ left' = [left EXCEPT ![p] = StoriesThere \ unread]
              /\ text' = [text EXCEPT ![p] = Tally(p, StoriesThere \ unread)]
              /\ UNCHANGED <<doing, active, on, green>>
  /\ UNCHANGED files

SaveSprint(p) ==
  /\ at[p] = "save" /\ doing[p] = "end"
  /\ sprint' = [sprint EXCEPT ![active[p]] =
       [@ EXCEPT !.status = "closed", !.done = text[p].done, !.carried = text[p].carried]]
  /\ missed' = [missed EXCEPT ![active[p]] = StoriesThere \ left[p]]
  /\ Over(p)
  /\ UNCHANGED <<story, parent, printed, edits>>

Highest(S) == CHOOSE n \in S : \A m \in S : Earlier(m, n)

\* SprintOpen prints the next sprint, when none is active and the last one
\* closed has its retro.
Open(p) ==
  /\ at[p] = "find" /\ doing[p] = "open"
  /\ IF Active = {} /\ (Written = {} \/ RetroOff \/ sprint[Highest(Written)].retro)
       THEN \E g \in Goals, n \in 1 .. MaxSprints :
              /\ n = (IF Written = {} THEN 0 ELSE Highest(Written)[1]) + 1
              /\ Cardinality(printed \cup Written) < MaxSprints
              /\ printed' = printed \cup {<<n, g>>}
       ELSE UNCHANGED printed
  /\ Over(p)
  /\ UNCHANGED <<story, sprint, parent, edits, missed>>

\* The items below x, which decide whether it closes.
Below(x) == IF x \in Epics THEN StoriesThere ELSE Epics
IsDone(i) == IF i \in Stories THEN story[i] # Absent /\ story[i].status = "done" ELSE parent[i] = "done"

\* Mutant: what cannot be read does not count.
LookBelowLoosely(p) ==
  /\ at[p] = "look" /\ doing[p] = "parent"
  /\ \E unread \in Unread(Below(on[p])) :
       IF parent[on[p]] = "done" \/ \E i \in Below(on[p]) \ unread : Parent[i] = on[p] /\ ~IsDone(i)
         THEN Over(p)
         ELSE /\ at' = [at EXCEPT ![p] = "save"]
              /\ left' = [left EXCEPT ![p] = {i \in Below(on[p]) : Parent[i] = on[p]}]
              /\ UNCHANGED <<doing, active, on, text, green>>
  /\ UNCHANGED files

\* CloseEpic and CloseMilestone: unknown is not done.
LookBelow(p) ==
  /\ at[p] = "look" /\ doing[p] = "parent"
  /\ \E unread \in Unread(Below(on[p])) :
       IF parent[on[p]] = "done" \/ unread # {} \/ \E i \in Below(on[p]) : Parent[i] = on[p] /\ ~IsDone(i)
         THEN Over(p)
         ELSE /\ at' = [at EXCEPT ![p] = "save"]
              /\ left' = [left EXCEPT ![p] = {i \in Below(on[p]) : Parent[i] = on[p]}]
              /\ UNCHANGED <<doing, active, on, text, green>>
  /\ UNCHANGED files

SaveParent(p) ==
  /\ at[p] = "save" /\ doing[p] = "parent"
  /\ parent' = [parent EXCEPT ![on[p]] = "done"]
  /\ Over(p)
  /\ UNCHANGED <<story, sprint, printed, edits, missed>>

Step(p) ==
  \/ Start(p) \/ (\E x \in Parents : StartParent(p, x))
  \/ CannotRead(p) \/ FindActive(p)
  \/ \E s \in Stories : LoadToClose(p, s) \/ LoadToPull(p, s) \/ LoadToCarry(p, s)
  \/ Judge(p) \/ MarkDone(p) \/ SavePull(p) \/ SaveCarry(p)
  \/ LookAtSprint(p) \/ SaveSprint(p) \/ Open(p)
  \/ LookBelow(p) \/ SaveParent(p)

Next == Agent \/ \E p \in Processes : Step(p)

Spec == Init /\ [][Next]_vars

-----------------------------------------------------------------------------
(* Properties *)

TypeOK ==
  /\ story \in [Stories -> StoryFile \cup {Absent}]
  /\ sprint \in [SprintIds -> SprintFile \cup {Absent}]
  /\ parent \in [Parents -> {"open", "done"}]
  /\ printed \subseteq SprintIds
  /\ edits \in 0 .. MaxEdits
  /\ missed \in [SprintIds -> SUBSET Stories]
  /\ doing \in [Processes -> {"nothing", "close", "pull", "carry", "end", "open", "parent"}]
  /\ at \in [Processes -> {"idle", "find", "load", "judge", "look", "save"}]
  /\ active \in [Processes -> SprintIds \cup {None}]
  /\ left \in [Processes -> SUBSET (Stories \cup Epics)]
  /\ on \in [Processes -> Stories \cup Parents \cup {None}]
  /\ text \in [Processes -> StoryFile \cup [done : SUBSET Stories, carried : SUBSET Stories] \cup {Absent}]
  /\ green \in [Processes -> {"unasked", "clean", "not"}]

\* No command reopens a story: what it saves over a done story is a later
\* text than the one that was closed.
DoneStays == [][\A s \in Stories : IsDone(s) => IsDone(s)']_vars

\* "Unfinished work is visible, never silent": a story leaves a sprint by
\* being carried, and the trace of a carry stays.
LeavesVisibly ==
  [][\A s \in Stories : story[s] # Absent =>
       /\ story[s].carried \subseteq story'[s].carried
       /\ story[s].sprint \notin {None, story'[s].sprint} => story[s].sprint \in story'[s].carried]_vars

\* A closed sprint's stories are done, but for one it could not read, and its
\* result names those and the ones that were carried from it.
ClosedIsSettled ==
  \A n \in Written : sprint[n].status = "closed" =>
    \A s \in StoriesThere \ missed[n] :
      /\ story[s].sprint = n => IsDone(s) /\ s \in sprint[n].done
      /\ story[s].sprint # n /\ n \in story[s].carried => s \in sprint[n].carried

\* An epic closes when every story its controller found on it is done, a
\* milestone when every epic is.
ParentLast ==
  [][\A p \in Processes : SaveParent(p) => \A i \in left[p] : IsDone(i)]_vars
=============================================================================
