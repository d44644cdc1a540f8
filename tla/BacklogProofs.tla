---------------------------- MODULE BacklogProofs ----------------------------
(***************************************************************************)
(* The backlog's files keep their shapes; served one command at a time,    *)
(* what is done stays done, work leaves a sprint visibly, a closed sprint  *)
(* is settled and parents close last: for any stories, parents, goals and  *)
(* processes, and any bounds.                                              *)
(***************************************************************************)
EXTENDS Backlog, FiniteSetTheorems, TLAPS

-----------------------------------------------------------------------------
(* The inductive invariant *)

\* Where a command may be.
Places ==
  {<<"nothing", "idle">>, <<"close", "load">>, <<"close", "judge">>, <<"close", "save">>,
   <<"pull", "find">>, <<"pull", "load">>, <<"pull", "save">>,
   <<"carry", "find">>, <<"carry", "load">>, <<"carry", "save">>,
   <<"end", "find">>, <<"end", "look">>, <<"end", "save">>, <<"open", "find">>,
   <<"parent", "look">>, <<"parent", "save">>}

\* It has loaded a story; it has found a sprint.
HasStory(p) == at[p] = "judge" \/ (at[p] = "save" /\ doing[p] \in {"close", "pull", "carry"})
HasSprint(p) ==
  \/ doing[p] \in {"pull", "carry"} /\ at[p] \in {"load", "save"}
  \/ doing[p] = "end" /\ at[p] \in {"look", "save"}

SprintTally == [done : SUBSET Stories, carried : SUBSET Stories]

\* What a process carries has the shape its step needs.
Carries(p) ==
  /\ <<doing[p], at[p]>> \in Places
  /\ HasStory(p) => on[p] \in Stories /\ text[p] \in StoryFile
  /\ HasSprint(p) => active[p] \in Written
  /\ doing[p] = "end" /\ at[p] = "save" => text[p] \in SprintTally
  /\ doing[p] = "parent" => on[p] \in Parents

\* One daemon, one command.
OneAtATime == \A p, q \in Processes : at[p] # "idle" /\ at[q] # "idle" => p = q

\* What it loaded is the story on file, but for what the agent checked since.
Fresh(p) ==
  HasStory(p) =>
    /\ story[on[p]] # Absent
    /\ text[p].status = story[on[p]].status /\ text[p].sprint = story[on[p]].sprint
    /\ text[p].carried = story[on[p]].carried
    /\ doing[p] = "pull" => text[p].sprint = None
    /\ doing[p] = "carry" => text[p].sprint = active[p]

\* The sprint it found is still active.
Found(p) == HasSprint(p) => active[p] \in Active

\* What it looked at before it closes a sprint, or a parent, is still so.
Looked(p) ==
  at[p] = "save" =>
    /\ doing[p] = "end" =>
         /\ left[p] \subseteq StoriesThere /\ text[p] = Tally(p, left[p])
         /\ \A s \in left[p] : story[s].sprint = active[p] => IsDone(s)
    /\ doing[p] = "parent" => \A i \in left[p] : IsDone(i)

\* A sprint that is printed was never written.
PrintedOnce == IsFiniteSet(Written) /\ printed \cap Written = {}

Served ==
  /\ OneAtATime /\ PrintedOnce /\ ClosedIsSettled
  /\ \A p \in Processes : Fresh(p) /\ Found(p) /\ Looked(p)

IType == TypeOK /\ \A p \in Processes : Carries(p)
IInv == IType /\ Served

-----------------------------------------------------------------------------
(* The shapes *)

FilesTyped ==
  /\ story \in [Stories -> StoryFile \cup {Absent}]
  /\ sprint \in [SprintIds -> SprintFile \cup {Absent}]
  /\ parent \in [Parents -> {"open", "done"}]
  /\ printed \subseteq SprintIds
  /\ edits \in 0 .. MaxEdits
  /\ missed \in [SprintIds -> SUBSET Stories]

CommandTyped ==
  /\ doing \in [Processes -> {"nothing", "close", "pull", "carry", "end", "open", "parent"}]
  /\ at \in [Processes -> {"idle", "find", "load", "judge", "look", "save"}]
  /\ active \in [Processes -> SprintIds \cup {None}]
  /\ left \in [Processes -> SUBSET (Stories \cup Epics)]
  /\ on \in [Processes -> Stories \cup Parents \cup {None}]
  /\ text \in [Processes -> StoryFile \cup SprintTally \cup {Absent}]
  /\ green \in [Processes -> {"unasked", "clean", "not"}]
  /\ \A p \in Processes : Carries(p)

LEMMA TypeParts == IType <=> FilesTyped /\ CommandTyped
BY DEF IType, TypeOK, FilesTyped, CommandTyped, SprintTally

\* A sprint's file is never removed.
LEMMA WrittenStays == FilesTyped /\ CommandTyped /\ [Next]_vars => Written \subseteq Written'
<1> SUFFICES ASSUME FilesTyped, CommandTyped, [Next]_vars, NEW n \in Written PROVE n \in Written'
  OBVIOUS
<1>1. n \in SprintIds /\ sprint[n] \in SprintFile
  BY DEF Written, FilesTyped
<1>2. CASE UNCHANGED sprint
  BY <1>2 DEF Written
<1>3. ASSUME NEW m \in SprintIds, WriteSprint(m) \/ WriteRetro(m) PROVE n \in Written'
  <2>1. sprint'[n] \in SprintFile
    <3>1. CASE WriteSprint(m)
      BY <1>1, <3>1 DEF WriteSprint, FilesTyped, SprintFile
    <3>2. CASE WriteRetro(m)
      <4>1. [sprint[n] EXCEPT !.retro = TRUE] \in SprintFile
        BY <1>1 DEF SprintFile
      <4>2. sprint' = [sprint EXCEPT ![m] = [sprint[m] EXCEPT !.retro = TRUE]]
        BY <3>2 DEF WriteRetro
      <4> QED
        BY <1>1, <4>1, <4>2 DEF FilesTyped
    <3> QED
      BY <1>3, <3>1, <3>2
  <2> QED
    BY <1>1, <2>1, AbsentAssumption DEF Written
<1>4. ASSUME NEW p \in Processes, SaveSprint(p) PROVE n \in Written'
  <2>1. text[p] \in SprintTally
    BY <1>4 DEF SaveSprint, CommandTyped, Carries
  <2>2. [sprint[n] EXCEPT !.status = "closed", !.done = text[p].done, !.carried = text[p].carried] \in SprintFile
    BY <1>1, <2>1 DEF SprintFile, SprintTally
  <2>3. sprint'[n] \in SprintFile
    BY <1>1, <1>4, <2>2 DEF SaveSprint, FilesTyped
  <2> QED
    BY <1>1, <2>3, AbsentAssumption DEF Written
<1>5. ASSUME NEW p \in Processes, Step(p), ~SaveSprint(p) PROVE UNCHANGED sprint
  BY <1>5 DEF Step, Start, StartParent, CannotRead, FindActive, LoadToClose, LoadToPull, LoadToCarry, Load, Judge,
              MarkDone, SavePull, SaveCarry, Save, LookAtSprint, Open, LookBelow, SaveParent, files
<1> QED
  BY <1>2, <1>3, <1>4, <1>5 DEF Next, Agent, Write, Work, vars, files

LEMMA InitTyped == Init => IType
<1> SUFFICES ASSUME Init PROVE FilesTyped /\ CommandTyped
  BY TypeParts
<1>1. FilesTyped
  BY BacklogAssumption DEF Init, FilesTyped
<1>2. \A p \in Processes : Carries(p)
  BY DEF Init, Carries, Places, HasStory, HasSprint
<1> QED
  BY <1>1, <1>2 DEF Init, CommandTyped

LEMMA OverTyped ==
  ASSUME CommandTyped, Written \subseteq Written', NEW p \in Processes, Over(p)
  PROVE  CommandTyped'
<1>1. ASSUME NEW q \in Processes PROVE Carries(q)'
  BY <1>1 DEF CommandTyped, Over, Carries, Places, HasStory, HasSprint
<1> QED
  BY <1>1 DEF CommandTyped, Over

LEMMA NextStoryTyped ==
  ASSUME CommandTyped, Written \subseteq Written', NEW p \in Processes, NEW s, NEW verdict \in {"unasked", "clean", "not"},
         NextStory(p, s, verdict), doing[p] \in {"close", "pull", "carry"},
         doing[p] # "close" => active[p] \in Written
  PROVE  CommandTyped'
<1>1. CASE left[p] = {s}
  BY <1>1, OverTyped DEF NextStory
<1>2. CASE left[p] # {s}
  <2>1. ASSUME NEW q \in Processes PROVE Carries(q)'
    BY <1>2, <2>1 DEF CommandTyped, NextStory, Carries, Places, HasStory, HasSprint
  <2> QED
    BY <1>2, <2>1 DEF CommandTyped, NextStory
<1> QED
  BY <1>1, <1>2

\* A command that only moves to a place in what it does.
LEMMA LoadTyped ==
  ASSUME FilesTyped, CommandTyped, Written \subseteq Written', NEW p \in Processes, NEW s \in Stories, NEW wanted, NEW next,
         wanted => story[s] # Absent, Load(p, s, wanted, next),
         \/ doing[p] = "close" /\ next = "judge"
         \/ doing[p] \in {"pull", "carry"} /\ next = "save"
  PROVE  FilesTyped' /\ CommandTyped'
<1>1. FilesTyped'
  BY DEF Load, FilesTyped, files
<1>2. Carries(p)
  BY DEF CommandTyped
<1>3. doing[p] # "close" => active[p] \in Written
  BY <1>2 DEF Load, Carries, HasSprint
<1>4. CASE wanted
  <2>1. story[s] \in StoryFile
    BY <1>4 DEF FilesTyped
  <2>2. ASSUME NEW q \in Processes PROVE Carries(q)'
    <3>1. CASE q = p
      BY <1>2, <1>3, <1>4, <2>1, <3>1 DEF CommandTyped, Load, Carries, Places, HasStory, HasSprint
    <3>2. CASE q # p
      BY <1>4, <3>2 DEF CommandTyped, Load, Carries, HasStory, HasSprint
    <3> QED
      BY <3>1, <3>2
  <2> QED
    BY <1>1, <1>4, <2>1, <2>2 DEF CommandTyped, Load
<1>5. CASE ~wanted
  <2>1. green[p] \in {"unasked", "clean", "not"}
    BY DEF CommandTyped
  <2> QED
    BY <1>1, <1>3, <1>5, <2>1, NextStoryTyped DEF Load
<1> QED
  BY <1>4, <1>5

LEMMA SaveTyped ==
  ASSUME FilesTyped, CommandTyped, Written \subseteq Written', NEW p \in Processes, NEW new \in StoryFile, Save(p, new),
         doing[p] \in {"close", "pull", "carry"}
  PROVE  FilesTyped' /\ CommandTyped'
<1>1. FilesTyped'
  BY DEF Save, FilesTyped
<1>2. doing[p] # "close" => active[p] \in Written
  BY DEF CommandTyped, Save, Carries, HasSprint
<1>3. green[p] \in {"unasked", "clean", "not"}
  BY DEF CommandTyped
<1> QED
  BY <1>1, <1>2, <1>3, NextStoryTyped DEF Save

\* The commands on stories.
LEMMA StoryStepsTyped ==
  ASSUME FilesTyped, CommandTyped, Written \subseteq Written', NEW p \in Processes,
         \/ \E s \in Stories : LoadToClose(p, s) \/ LoadToPull(p, s) \/ LoadToCarry(p, s)
         \/ Judge(p) \/ MarkDone(p) \/ SavePull(p) \/ SaveCarry(p)
  PROVE  FilesTyped' /\ CommandTyped'
<1>1. Carries(p)
  BY DEF CommandTyped
<1>2. ASSUME NEW s \in Stories, LoadToClose(p, s) PROVE FilesTyped' /\ CommandTyped'
  <2> DEFINE wanted == story[s] # Absent /\ story[s].status # "done"
  <2>1. doing[p] = "close" /\ Load(p, s, wanted, "judge")
    BY <1>2 DEF LoadToClose
  <2> HIDE DEF wanted
  <2>2. wanted => story[s] # Absent
    BY DEF wanted
  <2> QED
    BY <2>1, <2>2, LoadTyped
<1>3. ASSUME NEW s \in Stories, LoadToPull(p, s) PROVE FilesTyped' /\ CommandTyped'
  <2> DEFINE wanted == story[s] # Absent /\ story[s].status # "done" /\ story[s].sprint = None
  <2>1. doing[p] = "pull" /\ Load(p, s, wanted, "save")
    BY <1>3 DEF LoadToPull
  <2> HIDE DEF wanted
  <2>2. wanted => story[s] # Absent
    BY DEF wanted
  <2> QED
    BY <2>1, <2>2, LoadTyped
<1>4. ASSUME NEW s \in Stories, LoadToCarry(p, s) PROVE FilesTyped' /\ CommandTyped'
  <2> DEFINE wanted == story[s] # Absent /\ story[s].sprint = active[p]
  <2>1. doing[p] = "carry" /\ Load(p, s, wanted, "save")
    BY <1>4 DEF LoadToCarry
  <2> HIDE DEF wanted
  <2>2. wanted => story[s] # Absent
    BY DEF wanted
  <2> QED
    BY <2>1, <2>2, LoadTyped
<1>5. CASE Judge(p)
  <2>1. doing[p] = "close" /\ HasStory(p)
    BY <1>1, <1>5 DEF Judge, Carries, Places, HasStory
  <2>2. FilesTyped'
    BY <1>5 DEF Judge, FilesTyped, files
  <2>3. PICK verdict \in IF green[p] = "unasked" THEN {"clean", "not"} ELSE {green[p]} :
          IF verdict = "clean" /\ text[p].ready
            THEN /\ at' = [at EXCEPT ![p] = "save"]
                 /\ green' = [green EXCEPT ![p] = verdict]
                 /\ UNCHANGED <<doing, active, left, on, text>>
            ELSE NextStory(p, on[p], verdict)
    BY <1>5 DEF Judge
  <2>4. verdict \in {"unasked", "clean", "not"}
    BY DEF CommandTyped
  <2>5. CASE NextStory(p, on[p], verdict)
    BY <2>1, <2>2, <2>4, <2>5, NextStoryTyped
  <2>6. CASE /\ at' = [at EXCEPT ![p] = "save"]
             /\ green' = [green EXCEPT ![p] = verdict]
             /\ UNCHANGED <<doing, active, left, on, text>>
    <3>1. ASSUME NEW q \in Processes PROVE Carries(q)'
      BY <2>1, <2>6, <3>1 DEF CommandTyped, Carries, Places, HasStory, HasSprint
    <3> QED
      BY <2>2, <2>4, <2>6, <3>1 DEF CommandTyped
  <2> QED
    BY <2>3, <2>5, <2>6
<1>6. CASE MarkDone(p)
  <2>1. text[p] \in StoryFile
    BY <1>1, <1>6 DEF MarkDone, Save, Carries, HasStory
  <2>2. [text[p] EXCEPT !.status = "done"] \in StoryFile
    BY <2>1 DEF StoryFile
  <2> QED
    BY <1>6, <2>2, SaveTyped DEF MarkDone
<1>7. CASE SavePull(p)
  <2>1. text[p] \in StoryFile /\ active[p] \in SprintIds
    BY <1>1, <1>7 DEF SavePull, Save, Carries, HasStory, HasSprint, Written
  <2>2. [text[p] EXCEPT !.sprint = active[p]] \in StoryFile
    BY <2>1 DEF StoryFile
  <2> QED
    BY <1>7, <2>2, SaveTyped DEF SavePull
<1>8. CASE SaveCarry(p)
  <2>1. text[p] \in StoryFile /\ active[p] \in SprintIds
    BY <1>1, <1>8 DEF SaveCarry, Save, Carries, HasStory, HasSprint, Written
  <2>2. [text[p] EXCEPT !.sprint = None, !.carried = @ \cup {active[p]}] \in StoryFile
    BY <2>1 DEF StoryFile
  <2> QED
    BY <1>8, <2>2, SaveTyped DEF SaveCarry
<1> QED
  BY <1>2, <1>3, <1>4, <1>5, <1>6, <1>7, <1>8

\* Starting a command, and those on sprints and parents.
LEMMA OtherStepsTyped ==
  ASSUME FilesTyped, CommandTyped, Written \subseteq Written', NEW p \in Processes,
         \/ Start(p) \/ (\E x \in Parents : StartParent(p, x)) \/ CannotRead(p) \/ FindActive(p)
         \/ LookAtSprint(p) \/ SaveSprint(p) \/ Open(p) \/ LookBelow(p) \/ SaveParent(p)
  PROVE  FilesTyped' /\ CommandTyped'
<1>1. Carries(p)
  BY DEF CommandTyped
<1>2. CASE Start(p)
  <2>1. FilesTyped'
    BY <1>2 DEF Start, FilesTyped, files
  <2>2. ASSUME NEW q \in Processes PROVE Carries(q)'
    BY <1>2, <2>2 DEF Start, CommandTyped, Carries, Places, HasStory, HasSprint
  <2> QED
    BY <1>2, <2>1, <2>2 DEF Start, CommandTyped
<1>3. ASSUME NEW x \in Parents, StartParent(p, x) PROVE FilesTyped' /\ CommandTyped'
  <2>1. FilesTyped'
    BY <1>3 DEF StartParent, FilesTyped, files
  <2>2. ASSUME NEW q \in Processes PROVE Carries(q)'
    BY <1>3, <2>2 DEF StartParent, CommandTyped, Carries, Places, HasStory, HasSprint
  <2> QED
    BY <1>3, <2>1, <2>2 DEF StartParent, CommandTyped
<1>4. CASE CannotRead(p)
  BY <1>4, OverTyped DEF CannotRead, FilesTyped, files
<1>5. CASE FindActive(p)
  <2>1. FilesTyped'
    BY <1>5 DEF FindActive, FilesTyped, files
  <2>2. CASE Active = {}
    BY <1>5, <2>1, <2>2, OverTyped DEF FindActive
  <2>3. CASE Active # {}
    <3>1. PICK n \in Active : active' = [active EXCEPT ![p] = n]
      BY <1>5, <2>3 DEF FindActive
    <3>2. n \in SprintIds /\ n \in Written
      BY DEF Active, Written
    <3>3. /\ at' = [at EXCEPT ![p] = IF doing[p] = "end" THEN "look" ELSE "load"]
          /\ UNCHANGED <<doing, left, on, text, green>>
          /\ at[p] = "find" /\ doing[p] \in {"pull", "carry", "end"}
      BY <1>1, <1>5, <2>3 DEF FindActive, Carries, Places
    <3>4. ASSUME NEW q \in Processes PROVE Carries(q)'
      BY <3>1, <3>2, <3>3, <3>4 DEF CommandTyped, Carries, Places, HasStory, HasSprint
    <3> QED
      BY <2>1, <3>1, <3>2, <3>3, <3>4 DEF CommandTyped
  <2> QED
    BY <2>2, <2>3
<1>6. CASE LookAtSprint(p)
  <2>1. FilesTyped'
    BY <1>6 DEF LookAtSprint, FilesTyped, files
  <2>2. CASE Over(p)
    BY <2>1, <2>2, OverTyped
  <2>3. CASE ~Over(p)
    <3>1. PICK unread \in Unread(StoriesThere) :
            /\ at' = [at EXCEPT ![p] = "save"]
            /\ left' = [left EXCEPT ![p] = StoriesThere \ unread]
            /\ text' = [text EXCEPT ![p] = Tally(p, StoriesThere \ unread)]
            /\ UNCHANGED <<doing, active, on, green>>
      BY <1>6, <2>3 DEF LookAtSprint
    <3>2. Tally(p, StoriesThere \ unread) \in SprintTally
      BY DEF Tally, SprintTally, StoriesThere
    <3>3. at[p] = "look" /\ doing[p] = "end" /\ active[p] \in Written
      BY <1>1, <1>6 DEF LookAtSprint, Carries, HasSprint
    <3>4. ASSUME NEW q \in Processes PROVE Carries(q)'
      BY <3>1, <3>2, <3>3, <3>4 DEF CommandTyped, Carries, Places, HasStory, HasSprint
    <3> QED
      BY <2>1, <3>1, <3>2, <3>4 DEF CommandTyped, StoriesThere
  <2> QED
    BY <2>2, <2>3
<1>7. CASE SaveSprint(p)
  <2>1. text[p] \in SprintTally /\ active[p] \in Written
    BY <1>1, <1>7 DEF SaveSprint, Carries, HasSprint
  <2>2. sprint[active[p]] \in SprintFile
    BY <2>1 DEF FilesTyped, Written
  <2>3. [sprint[active[p]] EXCEPT !.status = "closed", !.done = text[p].done, !.carried = text[p].carried] \in SprintFile
    BY <2>1, <2>2 DEF SprintFile, SprintTally
  <2>4. FilesTyped'
    BY <1>7, <2>3 DEF SaveSprint, FilesTyped, StoriesThere
  <2> QED
    BY <1>7, <2>4, OverTyped DEF SaveSprint
<1>8. CASE Open(p)
  BY <1>8, OverTyped DEF Open, FilesTyped, SprintIds
<1>9. CASE LookBelow(p)
  <2>1. FilesTyped'
    BY <1>9 DEF LookBelow, FilesTyped, files
  <2>2. CASE Over(p)
    BY <2>1, <2>2, OverTyped
  <2>3. CASE ~Over(p)
    <3>1. /\ at' = [at EXCEPT ![p] = "save"]
          /\ left' = [left EXCEPT ![p] = {i \in Below(on[p]) : Parent[i] = on[p]}]
          /\ UNCHANGED <<doing, active, on, text, green>>
          /\ at[p] = "look" /\ doing[p] = "parent"
      BY <1>9, <2>3 DEF LookBelow
    <3>2. ASSUME NEW q \in Processes PROVE Carries(q)'
      BY <1>1, <3>1, <3>2 DEF CommandTyped, Carries, Places, HasStory, HasSprint
    <3> QED
      BY <2>1, <3>1, <3>2 DEF CommandTyped, Below, StoriesThere
  <2> QED
    BY <2>2, <2>3
<1>10. CASE SaveParent(p)
  BY <1>10, OverTyped DEF SaveParent, FilesTyped
<1> QED
  BY <1>2, <1>3, <1>4, <1>5, <1>6, <1>7, <1>8, <1>9, <1>10

LEMMA AgentTyped ==
  ASSUME FilesTyped, CommandTyped, Written \subseteq Written', Agent
  PROVE  FilesTyped' /\ CommandTyped'
<1>1. UNCHANGED command
  BY DEF Agent, Write, Work, WriteSprint, WriteRetro
<1>2. CommandTyped'
  <2>1. ASSUME NEW q \in Processes PROVE Carries(q)'
    BY <1>1, <2>1 DEF command, CommandTyped, Carries, HasStory, HasSprint
  <2> QED
    BY <1>1, <2>1 DEF command, CommandTyped
<1>3. ASSUME Edit PROVE edits' \in 0 .. MaxEdits
  BY <1>3, BacklogAssumption DEF Edit, FilesTyped
<1>4. ASSUME NEW s \in Stories, Write(s) PROVE FilesTyped'
  BY <1>3, <1>4 DEF Write, New, FilesTyped, StoryFile
<1>5. ASSUME NEW s \in Stories, Work(s) PROVE FilesTyped'
  <2>1. [story[s] EXCEPT !.ready = ~story[s].ready] \in StoryFile
    BY <1>5 DEF Work, FilesTyped, StoryFile
  <2>2. story' = [story EXCEPT ![s] = [story[s] EXCEPT !.ready = ~story[s].ready]]
    BY <1>5 DEF Work
  <2> QED
    BY <1>3, <1>5, <2>1, <2>2 DEF Work, FilesTyped
<1>6. ASSUME NEW n \in SprintIds, WriteSprint(n) PROVE FilesTyped'
  BY <1>6 DEF WriteSprint, FilesTyped, SprintFile
<1>7. ASSUME NEW n \in SprintIds, WriteRetro(n) PROVE FilesTyped'
  <2>1. [sprint[n] EXCEPT !.retro = TRUE] \in SprintFile
    BY <1>7 DEF WriteRetro, FilesTyped, SprintFile
  <2>2. sprint' = [sprint EXCEPT ![n] = [sprint[n] EXCEPT !.retro = TRUE]]
    BY <1>7 DEF WriteRetro
  <2> QED
    BY <1>7, <2>1, <2>2 DEF WriteRetro, FilesTyped
<1> QED
  BY <1>2, <1>4, <1>5, <1>6, <1>7 DEF Agent

LEMMA NextTyped == IType /\ [Next]_vars => IType'
<1> SUFFICES ASSUME FilesTyped, CommandTyped, [Next]_vars PROVE FilesTyped' /\ CommandTyped'
  BY TypeParts DEF IType, TypeOK, Carries, HasStory, HasSprint, FilesTyped, CommandTyped, SprintTally, Written
<1> Written \subseteq Written'
  BY WrittenStays
<1>1. CASE Agent
  BY <1>1, AgentTyped
<1>2. ASSUME NEW p \in Processes, Step(p) PROVE FilesTyped' /\ CommandTyped'
  BY <1>2, StoryStepsTyped, OtherStepsTyped DEF Step
<1>3. CASE UNCHANGED vars
  BY <1>3 DEF vars, files, command, FilesTyped, CommandTyped, Carries, HasStory, HasSprint, Written
<1> QED
  BY <1>1, <1>2, <1>3 DEF Next

THEOREM TypeInvariant == Spec => []IType
BY InitTyped, NextTyped, PTL DEF Spec

\* The files of the backlog and what each command carries of them keep their
\* shapes, whatever is served.
THEOREM Typed == Spec => []TypeOK
<1>1. IType => TypeOK
  BY DEF IType
<1> QED
  BY <1>1, TypeInvariant, PTL

-----------------------------------------------------------------------------
(* The order of the sprints' names *)

LEMMA EarlierOrders ==
  ASSUME NEW m \in SprintIds, NEW n \in SprintIds
  PROVE  /\ m[1] \in Nat /\ m[2] \in Nat
         /\ Earlier(m, m) /\ (Earlier(m, n) \/ Earlier(n, m))
         /\ \A k \in SprintIds : Earlier(m, n) /\ Earlier(n, k) => Earlier(m, k)
<1>1. \A k \in SprintIds : k[1] \in 1 .. MaxSprints /\ k[2] \in Goals
  BY DEF SprintIds
<1>2. ASSUME NEW k \in SprintIds PROVE k[1] \in Nat /\ k[2] \in Nat
  <2>1. Goals \subseteq Nat /\ 1 .. MaxSprints \subseteq Nat
    BY BacklogAssumption
  <2> QED
    BY <1>1, <2>1
<1> QED
  BY <1>2 DEF Earlier

\* Among finitely many sprints one comes last.
LEMMA HighestIsLast ==
  ASSUME NEW S \in SUBSET SprintIds, S # {}, IsFiniteSet(S)
  PROVE  Highest(S) \in S /\ \A m \in S : Earlier(m, Highest(S))
<1> DEFINE After(n) == {m \in S : ~Earlier(m, n)}
           T == {After(n) : n \in S}
<1>1. T \subseteq FiniteSubsetsOf(S)
  BY FS_Subset DEF FiniteSubsetsOf
<1>2. IsWellFoundedOn(StrictSubsetOrdering(S), FiniteSubsetsOf(S))
  BY FS_StrictSubsetOrderingWellFounded
<1>3. T # {}
  OBVIOUS
<1>4. PICK x \in T : \A y \in T : <<y, x>> \notin StrictSubsetOrdering(S)
  <2> HIDE DEF T
  <2> QED BY <1>1, <1>2, <1>3, WFMin
<1>5. PICK n \in S : x = After(n)
  BY <1>4
<1>6. ASSUME NEW m \in S, ~Earlier(m, n) PROVE FALSE
  <2>1. Earlier(n, m)
    BY <1>6, EarlierOrders
  <2>2. \A k \in S : Earlier(k, n) => Earlier(k, m)
    BY <2>1, EarlierOrders
  <2>3. After(m) \subseteq After(n) /\ m \in After(n) /\ m \notin After(m)
    BY <1>6, <2>2, EarlierOrders
  <2>4. <<After(m), x>> \in StrictSubsetOrdering(S)
    BY <1>5, <2>3 DEF StrictSubsetOrdering
  <2> QED BY <1>4, <2>4
<1>7. \E k \in S : \A m \in S : Earlier(m, k)
  BY <1>6
<1> QED
  BY <1>7 DEF Highest

-----------------------------------------------------------------------------
(* Who does what *)

\* A command's step is about its own process.
LEMMA StepIsOwn ==
  ASSUME IType, NEW p \in Processes, Step(p), NEW q \in Processes, q # p
  PROVE  /\ doing'[q] = doing[q] /\ at'[q] = at[q] /\ active'[q] = active[q] /\ left'[q] = left[q]
         /\ on'[q] = on[q] /\ text'[q] = text[q]
<1> USE DEF IType, TypeOK
<1>1. ASSUME NEW s, NEW v, NextStory(p, s, v)
      PROVE  /\ doing'[q] = doing[q] /\ at'[q] = at[q] /\ active'[q] = active[q] /\ left'[q] = left[q]
             /\ on'[q] = on[q] /\ text'[q] = text[q]
  BY <1>1 DEF NextStory, Over
<1>2. ASSUME NEW s \in Stories, NEW wanted, NEW next, Load(p, s, wanted, next)
      PROVE  /\ doing'[q] = doing[q] /\ at'[q] = at[q] /\ active'[q] = active[q] /\ left'[q] = left[q]
             /\ on'[q] = on[q] /\ text'[q] = text[q]
  BY <1>1, <1>2 DEF Load
<1>3. CASE \E s \in Stories : LoadToClose(p, s) \/ LoadToPull(p, s) \/ LoadToCarry(p, s)
  BY <1>2, <1>3 DEF LoadToClose, LoadToPull, LoadToCarry
<1>4. CASE MarkDone(p) \/ SavePull(p) \/ SaveCarry(p)
  BY <1>1, <1>4 DEF MarkDone, SavePull, SaveCarry, Save
<1>5. CASE Judge(p)
  BY <1>1, <1>5 DEF Judge
<1>6. CASE Start(p) \/ (\E x \in Parents : StartParent(p, x)) \/ CannotRead(p) \/ FindActive(p)
  BY <1>6 DEF Start, StartParent, CannotRead, FindActive, Over
<1>7. CASE LookAtSprint(p) \/ LookBelow(p)
  <2>1. CASE Over(p)
    BY <2>1 DEF Over
  <2>2. CASE /\ UNCHANGED <<doing, active, on>>
             /\ \E a : at' = [at EXCEPT ![p] = a]
             /\ \E l : left' = [left EXCEPT ![p] = l]
             /\ text' = text \/ \E t : text' = [text EXCEPT ![p] = t]
    BY <2>2
  <2> QED
    BY <1>7, <2>1, <2>2 DEF LookAtSprint, LookBelow
<1>8. CASE SaveSprint(p) \/ Open(p) \/ SaveParent(p)
  <2>1. Over(p)
    BY <1>8 DEF SaveSprint, Open, SaveParent
  <2> QED
    BY <2>1 DEF Over
<1> QED
  BY <1>3, <1>4, <1>5, <1>6, <1>7, <1>8 DEF Step

\* Under one daemon it has the repository to itself.
LEMMA OthersIdle ==
  ASSUME Serial, IType, OneAtATime, NEW p \in Processes, Step(p)
  PROVE  /\ \A q \in Processes : q # p => at[q] = "idle" /\ at'[q] = "idle"
         /\ OneAtATime'
<1>1. ASSUME NEW q \in Processes, q # p PROVE at[q] = "idle"
  <2>1. CASE at[p] = "idle"
    BY <1>1, <2>1 DEF Step, Start, StartParent, CannotRead, FindActive, LoadToClose, LoadToPull, LoadToCarry, Load,
                      Judge, MarkDone, SavePull, SaveCarry, Save, LookAtSprint, SaveSprint, Open, LookBelow, SaveParent
  <2>2. CASE at[p] # "idle"
    BY <1>1, <2>2 DEF OneAtATime
  <2> QED
    BY <2>1, <2>2
<1>2. \A q \in Processes : q # p => at[q] = "idle" /\ at'[q] = "idle"
  BY <1>1, StepIsOwn
<1> QED
  BY <1>2 DEF OneAtATime

Knows(p) == Fresh(p) /\ Found(p) /\ Looked(p)

\* A process that is idle knows nothing.
LEMMA IdleKnows == \A q : at'[q] = "idle" => Knows(q)'
BY DEF Knows, Fresh, Found, Looked, HasStory, HasSprint

LEMMA OverKnows == \A p \in Processes : IType /\ Over(p) => Knows(p)'
BY IdleKnows DEF Over, IType, TypeOK

LEMMA NextStoryKnows ==
  ASSUME IType, NEW p \in Processes, NEW s, NEW v, NextStory(p, s, v), UNCHANGED sprint,
         doing[p] # "close" => HasSprint(p) /\ active[p] \in Active,
         doing[p] \in {"close", "pull", "carry"}
  PROVE  Knows(p)'
<1>1. CASE Over(p)
  BY <1>1, OverKnows
<1>2. CASE ~Over(p)
  BY <1>2 DEF NextStory, Knows, Fresh, Found, Looked, HasStory, HasSprint, IType, TypeOK, Active, Written
<1> QED
  BY <1>1, <1>2

LEMMA FilesKept ==
  ASSUME UNCHANGED files
  PROVE  (PrintedOnce => PrintedOnce') /\ (ClosedIsSettled => ClosedIsSettled')
BY DEF files, PrintedOnce, ClosedIsSettled, Written, StoriesThere, IsDone

-----------------------------------------------------------------------------
(* The agent disturbs nothing a command has looked at *)

\* A story is the same but for what the agent checked in it.
Same(s) ==
  /\ story'[s] # Absent /\ story'[s].status = story[s].status
  /\ story'[s].sprint = story[s].sprint /\ story'[s].carried = story[s].carried

LEMMA AgentKeepsStories ==
  ASSUME IType, Agent, NEW s \in StoriesThere
  PROVE  Same(s)
<1>1. s \in Stories /\ story[s] \in StoryFile
  BY DEF StoriesThere, IType, TypeOK
<1>2. ASSUME NEW t \in Stories, Write(t) PROVE Same(s)
  BY <1>1, <1>2 DEF Write, Same, IType, TypeOK, StoriesThere
<1>3. ASSUME NEW t \in Stories, Work(t) PROVE Same(s)
  <2>1. story' = [story EXCEPT ![t] = [story[t] EXCEPT !.ready = ~story[t].ready]]
    BY <1>3 DEF Work
  <2>2. [story[s] EXCEPT !.ready = ~story[s].ready] \in StoryFile
    BY <1>1 DEF StoryFile
  <2>3. story'[s] = story[s] \/ story'[s] = [story[s] EXCEPT !.ready = ~story[s].ready]
    BY <1>1, <2>1 DEF IType, TypeOK
  <2> QED
    BY <1>1, <2>2, <2>3, AbsentAssumption DEF Same, StoryFile
<1>4. ASSUME NEW n \in SprintIds, WriteSprint(n) \/ WriteRetro(n) PROVE Same(s)
  BY <1>1, <1>4 DEF WriteSprint, WriteRetro, Same, StoriesThere
<1> QED
  BY <1>2, <1>3, <1>4 DEF Agent

\* A story that the agent just wrote is in no sprint.
LEMMA AgentAddsNew ==
  ASSUME IType, Agent, NEW s \in Stories, story[s] = Absent, story'[s] # Absent
  PROVE  story'[s].sprint = None /\ story'[s].carried = {}
<1>1. ASSUME NEW t \in Stories, Write(t) PROVE story'[s].sprint = None /\ story'[s].carried = {}
  BY <1>1 DEF Write, New, IType, TypeOK
<1>2. ASSUME NEW t \in Stories, Work(t) PROVE FALSE
  BY <1>2 DEF Work, IType, TypeOK
<1> QED
  BY <1>1, <1>2 DEF Agent, WriteSprint, WriteRetro

\* A sprint's file is written once, and only gets its retro later.
LEMMA AgentKeepsSprints ==
  ASSUME IType, PrintedOnce, Agent, NEW n \in Written
  PROVE  /\ sprint'[n] \in SprintFile /\ sprint'[n].status = sprint[n].status
         /\ sprint'[n].done = sprint[n].done /\ sprint'[n].carried = sprint[n].carried
<1>1. n \in SprintIds /\ sprint[n] \in SprintFile
  BY DEF Written, IType, TypeOK
<1>2. ASSUME NEW m \in SprintIds, WriteSprint(m) PROVE sprint'[n] = sprint[n]
  BY <1>1, <1>2 DEF WriteSprint, PrintedOnce, IType, TypeOK
<1>3. ASSUME NEW m \in SprintIds, WriteRetro(m)
      PROVE  sprint'[n] = sprint[n] \/ sprint'[n] = [sprint[n] EXCEPT !.retro = TRUE]
  <2>1. sprint' = [sprint EXCEPT ![m] = [sprint[m] EXCEPT !.retro = TRUE]]
    BY <1>3 DEF WriteRetro
  <2> QED
    BY <1>1, <2>1 DEF IType, TypeOK
<1>4. ASSUME NEW s \in Stories, Write(s) \/ Work(s) PROVE sprint'[n] = sprint[n]
  BY <1>4 DEF Write, Work
<1>5. sprint'[n] = sprint[n] \/ sprint'[n] = [sprint[n] EXCEPT !.retro = TRUE]
  BY <1>2, <1>3, <1>4 DEF Agent
<1> QED
  BY <1>1, <1>5 DEF SprintFile

\* What is written anew is active, and was printed.
LEMMA AgentWrites ==
  ASSUME IType, Agent, NEW n \in Written', n \notin Written
  PROVE  n \in printed /\ n \notin printed' /\ Written' = Written \cup {n} /\ sprint'[n].status = "active"
<1>1. n \in SprintIds /\ sprint[n] = Absent /\ sprint'[n] # Absent
  BY DEF Written
<1>2. PICK m \in SprintIds : WriteSprint(m) \/ WriteRetro(m)
  BY <1>1 DEF Agent, Write, Work
<1>3. WriteSprint(m) /\ m = n
  BY <1>1, <1>2 DEF WriteSprint, WriteRetro, IType, TypeOK
<1>4. sprint' = [sprint EXCEPT ![n] = [status |-> "active", done |-> {}, carried |-> {}, retro |-> FALSE]]
  BY <1>3 DEF WriteSprint
<1>5. Written' = Written \cup {n}
  BY <1>1, <1>4 DEF Written, IType, TypeOK
<1> QED
  BY <1>1, <1>3, <1>4, <1>5 DEF WriteSprint, IType, TypeOK

LEMMA AgentServed ==
  ASSUME IType, IType', Served, Agent
  PROVE  Served'
<1>1. UNCHANGED command
  BY DEF Agent, Write, Work, WriteSprint, WriteRetro
<1>2. OneAtATime'
  BY <1>1 DEF Served, OneAtATime, command
<1>3. PrintedOnce'
  <2>1. printed' \subseteq printed /\ Written \subseteq Written'
    <3>1. printed' \subseteq printed
      BY DEF Agent, Write, Work, WriteSprint, WriteRetro
    <3>2. ASSUME NEW n \in Written PROVE n \in Written'
      BY AgentKeepsSprints, AbsentAssumption DEF Served, Written
    <3> QED
      BY <3>1, <3>2
  <2>2. CASE Written' = Written
    BY <2>1, <2>2 DEF Served, PrintedOnce
  <2>3. CASE Written' # Written
    <3>1. PICK n \in Written' : n \notin Written
      BY <2>1, <2>3
    <3>2. n \notin printed' /\ Written' = Written \cup {n}
      BY <3>1, AgentWrites
    <3> QED
      BY <2>1, <3>2, FS_AddElement DEF Served, PrintedOnce
  <2> QED
    BY <2>2, <2>3
<1>4. ClosedIsSettled'
  <2> SUFFICES ASSUME NEW n \in Written', sprint'[n].status = "closed", NEW s \in StoriesThere', s \notin missed'[n]
               PROVE  /\ story'[s].sprint = n => IsDone(s)' /\ s \in sprint'[n].done
                      /\ story'[s].sprint # n /\ n \in story'[s].carried => s \in sprint'[n].carried
    BY DEF ClosedIsSettled
  <2>1. n \in Written /\ missed' = missed
    BY AgentWrites DEF Agent, Write, Work, WriteSprint, WriteRetro
  <2>2. /\ sprint[n].status = "closed" /\ n \in SprintIds
        /\ sprint'[n].done = sprint[n].done /\ sprint'[n].carried = sprint[n].carried
    BY <2>1, AgentKeepsSprints DEF Served, Written
  <2>3. CASE s \in StoriesThere
    BY <2>1, <2>2, <2>3, AgentKeepsStories DEF Served, ClosedIsSettled, IsDone, Same, StoriesThere
  <2>4. CASE s \notin StoriesThere
    <3>1. story'[s].sprint = None /\ story'[s].carried = {}
      BY <2>4, AgentAddsNew DEF StoriesThere
    <3> QED
      BY <2>2, <3>1, BacklogAssumption
  <2> QED
    BY <2>3, <2>4
<1>5. ASSUME NEW p \in Processes PROVE Knows(p)'
  <2>1. Fresh(p) /\ Found(p) /\ Looked(p) /\ Carries(p)
    BY DEF Served, IType
  <2>2. Fresh(p)'
    BY <1>1, <2>1, AgentKeepsStories DEF Fresh, HasStory, Carries, Same, StoriesThere, command
  <2>3. Found(p)'
    <3> SUFFICES ASSUME HasSprint(p) PROVE active[p] \in Active'
      BY <1>1 DEF Found, HasSprint, command
    <3>1. active[p] \in Written /\ sprint[active[p]].status = "active"
      BY <2>1 DEF Found, Active
    <3> QED
      BY <3>1, AgentKeepsSprints, AbsentAssumption DEF Served, Active, Written
  <2>4. ASSUME NEW i, i \in Stories \cup Epics, IsDone(i) PROVE IsDone(i)'
    <3>1. CASE i \in Stories
      BY <2>4, <3>1, AgentKeepsStories DEF IsDone, Same, StoriesThere
    <3>2. CASE i \notin Stories
      BY <2>4, <3>2 DEF IsDone, Agent, Write, Work, WriteSprint, WriteRetro
    <3> QED
      BY <3>1, <3>2
  <2>5. Looked(p)'
    <3> SUFFICES ASSUME at[p] = "save" PROVE Looked(p)'
      BY <1>1 DEF Looked, command
    <3>1. left[p] \subseteq Stories \cup Epics
      BY DEF IType, TypeOK
    <3>2. CASE doing[p] = "end"
      <4>1. /\ left[p] \subseteq StoriesThere /\ text[p] = Tally(p, left[p])
            /\ \A s \in left[p] : story[s].sprint = active[p] => IsDone(s)
        BY <2>1, <3>2 DEF Looked
      <4>2. \A s \in left[p] : Same(s)
        BY <4>1, AgentKeepsStories
      <4>3. left[p] \subseteq StoriesThere'
        BY <4>1, <4>2 DEF Same, StoriesThere
      <4>4. Tally(p, left[p])' = Tally(p, left[p])
        BY <1>1, <4>2 DEF Tally, Same, command
      <4>5. \A s \in left[p] : story'[s].sprint = active[p] => IsDone(s)'
        BY <2>4, <3>1, <4>1, <4>2 DEF Same
      <4> QED
        BY <1>1, <3>2, <4>1, <4>3, <4>4, <4>5 DEF Looked, command
    <3>3. CASE doing[p] = "parent"
      BY <1>1, <2>1, <2>4, <3>1, <3>3 DEF Looked, command
    <3>4. CASE doing[p] \notin {"end", "parent"}
      BY <1>1, <3>4 DEF Looked, command
    <3> QED
      BY <3>2, <3>3, <3>4
  <2> QED
    BY <2>2, <2>3, <2>5 DEF Knows
<1> QED
  BY <1>2, <1>3, <1>4, <1>5 DEF Served, Knows

-----------------------------------------------------------------------------
(* Commands, one at a time *)

\* The steps that change no file.
LEMMA LoadKnows ==
  ASSUME IType, NEW p \in Processes, Knows(p), NEW s \in Stories, NEW wanted, NEW next, Load(p, s, wanted, next),
         wanted => /\ story[s] # Absent
                   /\ doing[p] = "pull" => story[s].sprint = None
                   /\ doing[p] = "carry" => story[s].sprint = active[p],
         \/ doing[p] = "close" /\ next = "judge"
         \/ doing[p] \in {"pull", "carry"} /\ next = "save"
  PROVE  Knows(p)'
<1>1. doing[p] # "close" => HasSprint(p) /\ active[p] \in Active
  BY DEF Load, Knows, Found, HasSprint
<1>2. UNCHANGED files
  BY DEF Load
<1>3. CASE wanted
  BY <1>1, <1>2, <1>3 DEF Load, Knows, Fresh, Found, Looked, HasStory, HasSprint, IType, TypeOK, Active, Written, files
<1>4. CASE ~wanted
  BY <1>1, <1>2, <1>4, NextStoryKnows DEF Load, files
<1> QED
  BY <1>3, <1>4

LEMMA LoadsKnow ==
  ASSUME IType, NEW p \in Processes, Knows(p), NEW s \in Stories,
         LoadToClose(p, s) \/ LoadToPull(p, s) \/ LoadToCarry(p, s)
  PROVE  Knows(p)' /\ UNCHANGED files
<1>1. UNCHANGED files
  BY DEF LoadToClose, LoadToPull, LoadToCarry, Load
<1>2. CASE LoadToClose(p, s)
  <2> DEFINE wanted == story[s] # Absent /\ story[s].status # "done"
  <2>1. doing[p] = "close" /\ Load(p, s, wanted, "judge")
    BY <1>2 DEF LoadToClose
  <2>2. wanted => story[s] # Absent
    OBVIOUS
  <2> QED
    BY <1>1, <2>1, <2>2, LoadKnows
<1>3. CASE LoadToPull(p, s)
  <2> DEFINE wanted == story[s] # Absent /\ story[s].status # "done" /\ story[s].sprint = None
  <2>1. doing[p] = "pull" /\ Load(p, s, wanted, "save")
    BY <1>3 DEF LoadToPull
  <2>2. wanted => story[s] # Absent /\ story[s].sprint = None
    OBVIOUS
  <2> HIDE DEF wanted
  <2> QED
    BY <1>1, <2>1, <2>2, LoadKnows
<1>4. CASE LoadToCarry(p, s)
  <2> DEFINE wanted == story[s] # Absent /\ story[s].sprint = active[p]
  <2>1. doing[p] = "carry" /\ Load(p, s, wanted, "save")
    BY <1>4 DEF LoadToCarry
  <2>2. wanted => story[s] # Absent /\ story[s].sprint = active[p]
    OBVIOUS
  <2> HIDE DEF wanted
  <2> QED
    BY <1>1, <2>1, <2>2, LoadKnows
<1> QED
  BY <1>2, <1>3, <1>4

LEMMA JudgeKnows ==
  ASSUME IType, NEW p \in Processes, Knows(p), Judge(p)
  PROVE  Knows(p)' /\ UNCHANGED files
<1>1. doing[p] = "close"
  BY DEF Judge, IType, Carries, Places
<1>2. UNCHANGED files
  BY DEF Judge
<1>3. PICK verdict \in IF green[p] = "unasked" THEN {"clean", "not"} ELSE {green[p]} :
        IF verdict = "clean" /\ text[p].ready
          THEN /\ at' = [at EXCEPT ![p] = "save"]
               /\ green' = [green EXCEPT ![p] = verdict]
               /\ UNCHANGED <<doing, active, left, on, text>>
          ELSE NextStory(p, on[p], verdict)
  BY DEF Judge
<1>4. CASE NextStory(p, on[p], verdict)
  BY <1>1, <1>2, <1>4, NextStoryKnows DEF files
<1>5. CASE at' = [at EXCEPT ![p] = "save"] /\ UNCHANGED <<doing, active, left, on, text>>
  BY <1>1, <1>2, <1>5 DEF Judge, Knows, Fresh, Found, Looked, HasStory, HasSprint, IType, TypeOK, files
<1> QED
  BY <1>2, <1>3, <1>4, <1>5

LEMMA LooksKnow ==
  ASSUME IType, NEW p \in Processes, Knows(p),
         \/ Start(p) \/ (\E x \in Parents : StartParent(p, x)) \/ CannotRead(p) \/ FindActive(p)
         \/ LookAtSprint(p) \/ LookBelow(p)
  PROVE  Knows(p)' /\ UNCHANGED files
<1>1. UNCHANGED files
  BY DEF Start, StartParent, CannotRead, FindActive, LookAtSprint, LookBelow
<1>2. CASE Over(p)
  BY <1>1, <1>2, OverKnows
<1>3. CASE Start(p)
  BY <1>1, <1>3 DEF Start, Knows, Fresh, Found, Looked, HasStory, HasSprint, IType, TypeOK
<1>4. ASSUME NEW x \in Parents, StartParent(p, x) PROVE Knows(p)'
  BY <1>4 DEF StartParent, Knows, Fresh, Found, Looked, HasStory, HasSprint, IType, TypeOK
<1>5. CASE FindActive(p) /\ ~Over(p)
  <2>1. /\ active'[p] \in Active /\ at'[p] \in {"look", "load"} /\ doing'[p] # "open"
    BY <1>5 DEF FindActive, IType, TypeOK, Active, Written
  <2> QED
    BY <1>1, <2>1 DEF Knows, Fresh, Found, Looked, HasStory, HasSprint, Active, Written, files
<1>6. CASE LookAtSprint(p) /\ ~Over(p)
  <2>1. PICK unread \in Unread(StoriesThere) :
          /\ ~\E s \in StoriesThere \ unread : story[s].sprint = active[p] /\ story[s].status # "done"
          /\ at' = [at EXCEPT ![p] = "save"]
          /\ left' = [left EXCEPT ![p] = StoriesThere \ unread]
          /\ text' = [text EXCEPT ![p] = Tally(p, StoriesThere \ unread)]
          /\ UNCHANGED <<doing, active, on, green>>
    BY <1>6 DEF LookAtSprint
  <2> DEFINE read == StoriesThere \ unread
  <2>2. at[p] = "look" /\ doing[p] = "end" /\ active[p] \in Active
    BY <1>6 DEF LookAtSprint, Knows, Found, HasSprint
  <2>3. /\ at'[p] = "save" /\ doing'[p] = "end" /\ active'[p] = active[p]
        /\ left'[p] = read /\ text'[p] = Tally(p, read)
    BY <2>1, <2>2 DEF IType, TypeOK
  <2>4. Found(p)' /\ Fresh(p)'
    BY <1>1, <2>2, <2>3 DEF Found, Fresh, HasStory, HasSprint, Active, Written, files
  <2>5. StoriesThere' = StoriesThere /\ Tally(p, left[p])' = Tally(p, read)
    BY <1>1, <2>3 DEF StoriesThere, Tally, files
  <2>6. \A s \in read : story[s].sprint = active[p] => IsDone(s)
    BY <2>1 DEF IsDone, StoriesThere
  <2>7. \A s \in read : story'[s].sprint = active'[p] => IsDone(s)'
    BY <1>1, <2>3, <2>6 DEF IsDone, files
  <2>8. Looked(p)'
    <3>1. left'[p] \subseteq StoriesThere' /\ text'[p] = Tally(p, left[p])'
      BY <2>3, <2>5
    <3>2. \A s \in left'[p] : story'[s].sprint = active'[p] => IsDone(s)'
      BY <2>3, <2>7
    <3> HIDE DEF read
    <3> QED
      BY <2>3, <3>1, <3>2 DEF Looked
  <2> QED
    BY <1>1, <2>4, <2>8 DEF Knows
<1>7. CASE LookBelow(p) /\ ~Over(p)
  <2>1. /\ at[p] = "look" /\ doing[p] = "parent"
        /\ ~\E i \in Below(on[p]) : Parent[i] = on[p] /\ ~IsDone(i)
        /\ at' = [at EXCEPT ![p] = "save"]
        /\ left' = [left EXCEPT ![p] = {i \in Below(on[p]) : Parent[i] = on[p]}]
        /\ UNCHANGED <<doing, active, on, text, green>>
    BY <1>7 DEF LookBelow
  <2>2. at'[p] = "save" /\ doing'[p] = "parent" /\ left'[p] = {i \in Below(on[p]) : Parent[i] = on[p]}
    BY <2>1 DEF IType, TypeOK
  <2>3. \A i \in left'[p] : IsDone(i)'
    BY <1>1, <2>1, <2>2 DEF IsDone, files
  <2>4. Looked(p)'
    BY <2>2, <2>3 DEF Looked
  <2>5. Fresh(p)' /\ Found(p)'
    BY <2>2 DEF Fresh, Found, HasStory, HasSprint
  <2> QED
    BY <1>1, <2>4, <2>5 DEF Knows
<1> QED
  BY <1>1, <1>2, <1>3, <1>4, <1>5, <1>6, <1>7 DEF CannotRead

\* Printing the next sprint: its number is above those of every sprint there is.
LEMMA OpenServed ==
  ASSUME IType, IType', Served, NEW p \in Processes, Open(p)
  PROVE  Knows(p)' /\ PrintedOnce' /\ ClosedIsSettled'
<1>1. Knows(p)'
  BY OverKnows DEF Open
<1>2. Written' = Written /\ UNCHANGED <<story, sprint, parent, missed>>
  BY DEF Open, Written
<1>3. PrintedOnce'
  <2>1. CASE UNCHANGED printed
    BY <1>2, <2>1 DEF Served, PrintedOnce
  <2>2. CASE printed' # printed
    <3>1. PICK g \in Goals, n \in 1 .. MaxSprints :
            /\ n = (IF Written = {} THEN 0 ELSE Highest(Written)[1]) + 1
            /\ printed' = printed \cup {<<n, g>>}
      BY <2>2 DEF Open
    <3>2. ASSUME <<n, g>> \in Written PROVE FALSE
      <4>1. Written # {} /\ IsFiniteSet(Written) /\ Written \in SUBSET SprintIds
        BY <3>2 DEF Served, PrintedOnce, Written
      <4>2. Highest(Written) \in SprintIds /\ Earlier(<<n, g>>, Highest(Written))
        BY <3>2, <4>1, HighestIsLast
      <4>3. Highest(Written)[1] \in Nat /\ n = Highest(Written)[1] + 1
        BY <3>1, <4>1, <4>2, EarlierOrders
      <4> QED
        BY <4>2, <4>3 DEF Earlier
    <3> QED
      BY <1>2, <3>1, <3>2 DEF Served, PrintedOnce
  <2> QED
    BY <2>1, <2>2
<1>4. ClosedIsSettled'
  BY <1>2 DEF Served, ClosedIsSettled, StoriesThere, IsDone
<1> QED
  BY <1>1, <1>3, <1>4

\* What a save leaves on the story it is about.
LEMMA SaveWrites ==
  ASSUME IType, NEW p \in Processes, NEW new \in StoryFile, HasStory(p), Save(p, new)
  PROVE  /\ on[p] \in Stories
         /\ story'[on[p]] = new /\ new # Absent
         /\ \A s \in Stories : s # on[p] => story'[s] = story[s]
         /\ UNCHANGED <<sprint, parent, printed, edits, missed>>
<1>1. on[p] \in Stories
  BY DEF IType, Carries
<1> QED
  BY <1>1, AbsentAssumption DEF Save, IType, TypeOK

\* The saves of a story keep the rules of ClosedIsSettled for it.
LEMMA SaveServed ==
  ASSUME IType, Served, NEW p \in Processes, NEW new \in StoryFile, HasStory(p), Save(p, new),
         doing[p] \in {"close", "pull", "carry"},
         \A n \in Written : sprint[n].status = "closed" =>
           /\ new.sprint = n => story[on[p]].sprint = n
           /\ n \in new.carried => n \in story[on[p]].carried /\ (new.sprint # n => story[on[p]].sprint # n),
         story[on[p]].status = "done" => new.status = "done"
  PROVE  Knows(p)' /\ PrintedOnce' /\ ClosedIsSettled'
<1>1. /\ on[p] \in Stories
      /\ story'[on[p]] = new /\ new # Absent
      /\ \A s \in Stories : s # on[p] => story'[s] = story[s]
      /\ UNCHANGED <<sprint, parent, printed, edits, missed>>
  BY SaveWrites
<1>2. Fresh(p) /\ Found(p)
  BY DEF Served
<1>3. Knows(p)'
  <2>1. doing[p] # "close" => HasSprint(p) /\ active[p] \in Active
    BY <1>2 DEF Found, HasSprint, Save
  <2> QED
    BY <1>1, <2>1, NextStoryKnows DEF Save
<1>4. Written' = Written /\ StoriesThere' = StoriesThere
  <2>1. story[on[p]] # Absent
    BY <1>2 DEF Fresh
  <2> QED
    BY <1>1, <2>1 DEF Written, StoriesThere
<1>5. PrintedOnce'
  BY <1>1, <1>4 DEF Served, PrintedOnce
<1>6. ASSUME NEW n \in Written, sprint[n].status = "closed", NEW s \in StoriesThere, s \notin missed[n]
      PROVE  /\ story'[s].sprint = n => IsDone(s)' /\ s \in sprint[n].done
             /\ story'[s].sprint # n /\ n \in story'[s].carried => s \in sprint[n].carried
  <2>1. /\ story[s].sprint = n => IsDone(s) /\ s \in sprint[n].done
        /\ story[s].sprint # n /\ n \in story[s].carried => s \in sprint[n].carried
    BY <1>6 DEF Served, ClosedIsSettled
  <2>2. s \in Stories
    BY DEF StoriesThere
  <2>3. CASE s = on[p]
    BY <1>1, <1>6, <2>1, <2>3 DEF IsDone
  <2>4. CASE s # on[p]
    BY <1>1, <2>1, <2>2, <2>4 DEF IsDone
  <2> QED
    BY <2>3, <2>4
<1>7. ClosedIsSettled'
  BY <1>1, <1>4, <1>6 DEF ClosedIsSettled
<1> QED
  BY <1>3, <1>5, <1>7

\* What each save writes, of what is on file.
LEMMA SavesWrite ==
  ASSUME IType, NEW p \in Processes, Fresh(p), Found(p), MarkDone(p) \/ SavePull(p) \/ SaveCarry(p)
  PROVE  /\ HasStory(p) /\ doing[p] \in {"close", "pull", "carry"} /\ story[on[p]] # Absent
         /\ \E new \in StoryFile :
              /\ Save(p, new)
              /\ story[on[p]].status = "done" => new.status = "done"
              /\ \/ new.sprint = story[on[p]].sprint /\ new.carried = story[on[p]].carried
                 \/ /\ active[p] \in Active /\ new.sprint = active[p] /\ story[on[p]].sprint = None
                    /\ new.carried = story[on[p]].carried
                 \/ /\ active[p] \in Active /\ new.sprint = None /\ story[on[p]].sprint = active[p]
                    /\ new.carried = story[on[p]].carried \cup {active[p]}
<1>1. HasStory(p) /\ at[p] = "save" /\ doing[p] \in {"close", "pull", "carry"}
  BY DEF MarkDone, SavePull, SaveCarry, Save, HasStory
<1>2. text[p] \in StoryFile /\ (doing[p] # "close" => active[p] \in Active /\ active[p] \in SprintIds)
  BY <1>1 DEF IType, Carries, Found, HasSprint, Active, Written
<1>3. /\ story[on[p]] # Absent
      /\ text[p].status = story[on[p]].status /\ text[p].sprint = story[on[p]].sprint
      /\ text[p].carried = story[on[p]].carried
      /\ doing[p] = "pull" => text[p].sprint = None
      /\ doing[p] = "carry" => text[p].sprint = active[p]
  BY <1>1 DEF Fresh
<1>4. CASE MarkDone(p)
  <2> DEFINE new == [text[p] EXCEPT !.status = "done"]
  <2>1. new \in StoryFile /\ new.status = "done" /\ new.sprint = text[p].sprint /\ new.carried = text[p].carried
    BY <1>2 DEF StoryFile
  <2>2. Save(p, new)
    BY <1>4 DEF MarkDone
  <2> HIDE DEF new
  <2> QED
    BY <1>1, <1>3, <2>1, <2>2
<1>5. CASE SavePull(p)
  <2> DEFINE new == [text[p] EXCEPT !.sprint = active[p]]
  <2>1. doing[p] = "pull" /\ Save(p, new)
    BY <1>5 DEF SavePull
  <2>2. new \in StoryFile /\ new.status = text[p].status /\ new.sprint = active[p] /\ new.carried = text[p].carried
    BY <1>2, <2>1 DEF StoryFile
  <2> HIDE DEF new
  <2> QED
    BY <1>1, <1>2, <1>3, <2>1, <2>2
<1>6. CASE SaveCarry(p)
  <2> DEFINE new == [text[p] EXCEPT !.sprint = None, !.carried = @ \cup {active[p]}]
  <2>1. doing[p] = "carry" /\ Save(p, new)
    BY <1>6 DEF SaveCarry
  <2>2. /\ new \in StoryFile /\ new.status = text[p].status /\ new.sprint = None
        /\ new.carried = text[p].carried \cup {active[p]}
    BY <1>2, <2>1 DEF StoryFile
  <2> HIDE DEF new
  <2> QED
    BY <1>1, <1>2, <1>3, <2>1, <2>2
<1> QED
  BY <1>4, <1>5, <1>6

LEMMA StorySaveServed ==
  ASSUME IType, Served, NEW p \in Processes, MarkDone(p) \/ SavePull(p) \/ SaveCarry(p)
  PROVE  Knows(p)' /\ PrintedOnce' /\ ClosedIsSettled'
<1>1. Fresh(p) /\ Found(p)
  BY DEF Served
<1>2. HasStory(p) /\ doing[p] \in {"close", "pull", "carry"}
  BY <1>1, SavesWrite
<1>3. PICK new \in StoryFile :
        /\ Save(p, new)
        /\ story[on[p]].status = "done" => new.status = "done"
        /\ \/ new.sprint = story[on[p]].sprint /\ new.carried = story[on[p]].carried
           \/ /\ active[p] \in Active /\ new.sprint = active[p] /\ story[on[p]].sprint = None
              /\ new.carried = story[on[p]].carried
           \/ /\ active[p] \in Active /\ new.sprint = None /\ story[on[p]].sprint = active[p]
              /\ new.carried = story[on[p]].carried \cup {active[p]}
  BY <1>1, SavesWrite
<1>4. ASSUME NEW n \in Written, sprint[n].status = "closed"
      PROVE  /\ new.sprint = n => story[on[p]].sprint = n
             /\ n \in new.carried => n \in story[on[p]].carried /\ (new.sprint # n => story[on[p]].sprint # n)
  <2>1. n # None /\ (active[p] \in Active => active[p] # n)
    BY <1>4, BacklogAssumption DEF Active, Written
  <2> QED
    BY <1>3, <2>1
<1> QED
  BY <1>2, <1>3, <1>4, SaveServed

\* A sprint is closed as it was looked at.
LEMMA SprintServed ==
  ASSUME IType, IType', Served, NEW p \in Processes, SaveSprint(p)
  PROVE  Knows(p)' /\ PrintedOnce' /\ ClosedIsSettled'
<1>1. at[p] = "save" /\ doing[p] = "end" /\ active[p] \in Written /\ active[p] \in SprintIds
  BY DEF SaveSprint, IType, Carries, HasSprint, Written
<1>2. /\ left[p] \subseteq StoriesThere /\ text[p] = Tally(p, left[p])
      /\ \A s \in left[p] : story[s].sprint = active[p] => IsDone(s)
  BY <1>1 DEF Served, Looked
<1>3. sprint[active[p]] \in SprintFile /\ text[p] \in SprintTally
  <2>1. sprint[active[p]] \in SprintFile
    BY <1>1 DEF Written, IType, TypeOK
  <2>2. text[p] \in SprintTally
    BY <1>1 DEF IType, Carries
  <2> QED BY <2>1, <2>2
<1>4. /\ sprint'[active[p]] =
           [sprint[active[p]] EXCEPT !.status = "closed", !.done = text[p].done, !.carried = text[p].carried]
      /\ missed'[active[p]] = StoriesThere \ left[p]
      /\ \A n \in SprintIds : n # active[p] => sprint'[n] = sprint[n] /\ missed'[n] = missed[n]
      /\ UNCHANGED <<story, parent, printed, edits>>
  BY <1>1 DEF SaveSprint, IType, TypeOK
<1>5. /\ sprint'[active[p]] \in SprintFile
      /\ sprint'[active[p]].done = Tally(p, left[p]).done /\ sprint'[active[p]].carried = Tally(p, left[p]).carried
  BY <1>2, <1>3, <1>4 DEF SprintFile, SprintTally
<1>6. Knows(p)'
  BY OverKnows DEF SaveSprint
<1>7. Written' = Written /\ StoriesThere' = StoriesThere
  BY <1>1, <1>4, <1>5, AbsentAssumption DEF Written, StoriesThere
<1>8. PrintedOnce'
  BY <1>4, <1>7 DEF Served, PrintedOnce
<1>9. ClosedIsSettled'
  <2> SUFFICES ASSUME NEW n \in Written, sprint'[n].status = "closed", NEW s \in StoriesThere, s \notin missed'[n]
               PROVE  /\ story[s].sprint = n => IsDone(s)' /\ s \in sprint'[n].done
                      /\ story[s].sprint # n /\ n \in story[s].carried => s \in sprint'[n].carried
    BY <1>4, <1>7 DEF ClosedIsSettled
  <2>1. n \in SprintIds /\ (IsDone(s) <=> IsDone(s)')
    BY <1>4 DEF IsDone, Written
  <2>2. CASE n = active[p]
    BY <1>2, <1>4, <1>5, <2>1, <2>2 DEF Tally
  <2>3. CASE n # active[p]
    BY <1>4, <2>1, <2>3 DEF Served, ClosedIsSettled
  <2> QED
    BY <2>2, <2>3
<1> QED
  BY <1>6, <1>8, <1>9

LEMMA ParentServed ==
  ASSUME IType, Served, NEW p \in Processes, SaveParent(p)
  PROVE  Knows(p)' /\ PrintedOnce' /\ ClosedIsSettled'
<1>1. Knows(p)'
  BY OverKnows DEF SaveParent
<1>2. UNCHANGED <<story, sprint, printed, missed>>
  BY DEF SaveParent
<1>3. PrintedOnce'
  BY <1>2 DEF Served, PrintedOnce, Written
<1>4. ClosedIsSettled'
  BY <1>2 DEF Served, ClosedIsSettled, Written, StoriesThere, IsDone
<1> QED
  BY <1>1, <1>3, <1>4

LEMMA StepServed ==
  ASSUME Serial, IType, IType', Served, NEW p \in Processes, Step(p)
  PROVE  Served'
<1>1. OneAtATime' /\ \A q \in Processes : q # p => Knows(q)'
  BY OthersIdle, IdleKnows DEF Served
<1>2. Knows(p)
  BY DEF Served, Knows
<1>3. CASE \/ \E s \in Stories : LoadToClose(p, s) \/ LoadToPull(p, s) \/ LoadToCarry(p, s)
           \/ Judge(p)
           \/ Start(p) \/ (\E x \in Parents : StartParent(p, x)) \/ CannotRead(p) \/ FindActive(p)
           \/ LookAtSprint(p) \/ LookBelow(p)
  BY <1>1, <1>2, <1>3, LoadsKnow, JudgeKnows, LooksKnow, FilesKept DEF Served, Knows
<1>4. CASE MarkDone(p) \/ SavePull(p) \/ SaveCarry(p)
  BY <1>1, <1>4, StorySaveServed DEF Served, Knows
<1>5. CASE SaveSprint(p) \/ Open(p) \/ SaveParent(p)
  BY <1>1, <1>5, SprintServed, OpenServed, ParentServed DEF Served, Knows
<1> QED
  BY <1>3, <1>4, <1>5 DEF Step

LEMMA InitServed == Init => Served
<1> SUFFICES ASSUME Init PROVE Served
  OBVIOUS
<1>1. Written = {} /\ printed = {}
  BY DEF Init, Written
<1>2. PrintedOnce /\ ClosedIsSettled
  BY <1>1, FS_EmptySet DEF PrintedOnce, ClosedIsSettled
<1> QED
  BY <1>2 DEF Init, Served, OneAtATime, Fresh, Found, Looked, HasStory, HasSprint

LEMMA StutterServed ==
  ASSUME Served, UNCHANGED vars
  PROVE  Served'
BY DEF Served, vars, files, command, OneAtATime, PrintedOnce, ClosedIsSettled, Fresh, Found, Looked, HasStory,
       HasSprint, Written, Active, StoriesThere, IsDone, Tally

THEOREM Invariant == ASSUME Serial PROVE Spec => []IInv
<1>1. Init => IInv
  BY InitTyped, InitServed DEF IInv
<1>2. IInv /\ [Next]_vars => IInv'
  BY NextTyped, AgentServed, StepServed, StutterServed DEF IInv, Next
<1> QED
  BY <1>1, <1>2, PTL DEF Spec

-----------------------------------------------------------------------------
(* What follows *)

\* Served by a daemon, a closed sprint's stories are done, or were carried from it
\* and are named (SprintClose), but for one it could not read.
THEOREM Settled == ASSUME Serial PROVE Spec => []ClosedIsSettled
<1>1. IInv => ClosedIsSettled
  BY DEF IInv, Served
<1> QED
  BY <1>1, Invariant, PTL

\* Served by a daemon, no command saves over a done story, or parent, a text that
\* is not done (MarkDone, SavePull and SaveCarry write what they loaded).
THEOREM StaysDone == ASSUME Serial PROVE Spec => DoneStays
<1> DEFINE Stays == \A s \in Stories : IsDone(s) => IsDone(s)'
<1>1. ASSUME IInv, [Next]_vars PROVE [Stays]_vars
  <2> SUFFICES ASSUME NEW s \in Stories, IsDone(s), Next PROVE IsDone(s)'
    BY <1>1
  <2> USE <1>1 DEF IInv
  <2>1. story[s] # Absent /\ story[s].status = "done"
    BY DEF IsDone
  <2>2. CASE Agent
    BY <2>1, <2>2, AgentKeepsStories DEF Same, StoriesThere, IsDone
  <2>3. ASSUME NEW p \in Processes, MarkDone(p) \/ SavePull(p) \/ SaveCarry(p) PROVE IsDone(s)'
    <3>1. PICK new \in StoryFile : Save(p, new) /\ (story[on[p]].status = "done" => new.status = "done")
      BY <2>3, SavesWrite DEF Served
    <3>2. HasStory(p)
      BY <2>3, SavesWrite DEF Served
    <3> QED
      BY <2>1, <3>1, <3>2, SaveWrites DEF IsDone
  <2>4. ASSUME NEW p \in Processes, Step(p), ~(MarkDone(p) \/ SavePull(p) \/ SaveCarry(p)) PROVE UNCHANGED story
    BY <2>4 DEF Step, Start, StartParent, CannotRead, FindActive, LoadToClose, LoadToPull, LoadToCarry, Load, Judge,
                LookAtSprint, SaveSprint, Open, LookBelow, SaveParent, files
  <2> QED
    BY <2>1, <2>2, <2>3, <2>4 DEF Next, IsDone
<1> QED
  BY <1>1, Invariant, PTL DEF Spec, DoneStays

\* Served by a daemon, a story leaves a sprint only by being carried from it, and
\* the trace of a carry stays ("unfinished work is visible, never silent").
THEOREM Visible == ASSUME Serial PROVE Spec => LeavesVisibly
<1> DEFINE Leaves(s) == /\ story[s].carried \subseteq story'[s].carried
                        /\ story[s].sprint \notin {None, story'[s].sprint} => story[s].sprint \in story'[s].carried
           Leave == \A s \in Stories : story[s] # Absent => Leaves(s)
<1>1. ASSUME IInv, [Next]_vars PROVE [Leave]_vars
  <2> SUFFICES ASSUME NEW s \in Stories, story[s] # Absent, Next PROVE Leaves(s)
    BY <1>1
  <2> USE <1>1 DEF IInv
  <2>1. CASE Agent
    BY <2>1, AgentKeepsStories DEF Same, StoriesThere
  <2>2. ASSUME NEW p \in Processes, MarkDone(p) \/ SavePull(p) \/ SaveCarry(p) PROVE Leaves(s)
    <3>1. PICK new \in StoryFile :
            /\ Save(p, new)
            /\ \/ new.sprint = story[on[p]].sprint /\ new.carried = story[on[p]].carried
               \/ story[on[p]].sprint = None /\ new.carried = story[on[p]].carried
               \/ story[on[p]].sprint = active[p] /\ new.carried = story[on[p]].carried \cup {active[p]}
      BY <2>2, SavesWrite DEF Served
    <3>2. HasStory(p)
      BY <2>2, SavesWrite DEF Served
    <3> QED
      BY <3>1, <3>2, SaveWrites
  <2>3. ASSUME NEW p \in Processes, Step(p), ~(MarkDone(p) \/ SavePull(p) \/ SaveCarry(p)) PROVE UNCHANGED story
    BY <2>3 DEF Step, Start, StartParent, CannotRead, FindActive, LoadToClose, LoadToPull, LoadToCarry, Load, Judge,
                LookAtSprint, SaveSprint, Open, LookBelow, SaveParent, files
  <2> QED
    BY <2>1, <2>2, <2>3 DEF Next
<1> QED
  BY <1>1, Invariant, PTL DEF Spec, LeavesVisibly

\* Served by a daemon, an epic or a milestone closes when all that its controller
\* found on it is done, at the time it is written too (CloseEpic, CloseMilestone).
THEOREM ParentsLast == ASSUME Serial PROVE Spec => ParentLast
<1> DEFINE Last == \A p \in Processes : SaveParent(p) => \A i \in left[p] : IsDone(i)
<1>1. IInv => Last
  BY DEF IInv, Served, Looked, SaveParent
<1> QED
  BY <1>1, Invariant, PTL DEF ParentLast
==============================================================================
