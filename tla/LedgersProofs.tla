--------------------------- MODULE LedgersProofs ----------------------------
(***************************************************************************)
(* The records keep their shapes; served one at a time, no command loses   *)
(* what another wrote; and two claims on one path overlap: for any agents, *)
(* patterns, waves, tasks, questions and processes, and any bounds.        *)
(***************************************************************************)
EXTENDS Ledgers, WellFoundedInduction, TLAPS

Commands == ClaimCommand \cup WaveCommand \cup AskCommand

-----------------------------------------------------------------------------
(* The types. *)

\* The part of the type invariant that is about commands.
CommandTyped ==
  /\ doing \in [Processes -> Commands \cup {None}]
  /\ at \in [Processes -> {"idle", "load", "save", "collect", "later", "give"}]
  /\ DOMAIN seen = Processes /\ \A p \in Processes : Loaded(p)
  /\ given \in [Processes -> Answers \cup {None}]

\* The part that is about the records.
RecordsTyped ==
  /\ claims \subseteq Claim /\ held \subseteq Claim /\ told \subseteq SUBSET Claim
  /\ waves \in [Waves -> Wave \cup {None}]
  /\ life \in [Waves -> {"none", "launching", "sealed", "serial"}]
  /\ answers \in Answers
  /\ edits \in 0 .. MaxEdits

LEMMA TypeParts == TypeOK <=> RecordsTyped /\ CommandTyped
BY DEF TypeOK, RecordsTyped, CommandTyped, Commands

LEMMA OverTyped ==
  ASSUME CommandTyped, NEW p \in Processes, Over(p), DOMAIN seen = Processes
  PROVE  CommandTyped'
<1>1. ASSUME NEW q \in Processes PROVE Loaded(q)'
  BY <1>1 DEF CommandTyped, Over, Loaded
<1> QED
  BY <1>1 DEF CommandTyped, Over

LEMMA LoadTyped ==
  ASSUME CommandTyped, NEW p \in Processes, NEW C, NEW record, NEW next, Load(p, C, record, next),
         \/ C = ClaimCommand /\ record \subseteq Claim /\ next = "save"
         \/ C = WaveCommand /\ record \in [Waves -> Wave \cup {None}] /\ next = "save"
         \/ C = AskCommand /\ record \in Answers /\ next \in {"collect", "give"}
  PROVE  CommandTyped'
<1>1. ASSUME NEW q \in Processes PROVE Loaded(q)'
  BY <1>1 DEF CommandTyped, Load, Loaded
<1> QED
  BY <1>1 DEF CommandTyped, Load

\* No command belongs to two of the records.
LEMMA Disjoint ==
  /\ ClaimCommand \cap WaveCommand = {} /\ ClaimCommand \cap AskCommand = {}
  /\ WaveCommand \cap AskCommand = {}
BY DEF ClaimCommand, WaveCommand, AskCommand

LEMMA SeenTyped ==
  ASSUME NEW p, Loaded(p), at[p] \notin {"idle", "load"}
  PROVE  /\ doing[p] \in ClaimCommand => seen[p] \subseteq Claim
         /\ doing[p] \in WaveCommand => seen[p] \in [Waves -> Wave \cup {None}]
         /\ doing[p] \in AskCommand => seen[p] \in Answers
BY Disjoint DEF Loaded

LEMMA ApplyTyped ==
  ASSUME NEW w \in Wave \cup {None}, NEW c \in WaveCommand, c.verb # "open" => w # None
  PROVE  Apply(w, c) \in Wave
<1>1. CASE c.verb = "open"
  BY <1>1 DEF Apply, NewWave, Wave
<1>2. CASE c.verb # "open"
  <2>1. w \in Wave
    BY <1>2
  <2>2. c.verb \in {"start", "return"} => c.task \in Tasks
    BY DEF WaveCommand
  <2>3. c.verb \in {"start", "seal", "return"}
    BY <1>2 DEF WaveCommand
  <2>4. CASE c.verb = "start"
    BY <2>1, <2>2, <2>4 DEF Apply, Wave
  <2>5. CASE c.verb = "seal"
    BY <2>1, <2>5 DEF Apply, Wave
  <2>6. CASE c.verb = "return"
    BY <2>1, <2>2, <2>6 DEF Apply, Wave
  <2> QED
    BY <2>3, <2>4, <2>5, <2>6
<1> QED
  BY <1>1, <1>2

LEMMA InitTyped == Init => TypeOK
BY LedgersAssumption DEF Init, TypeOK, Answers, Loaded

LEMMA StepTyped ==
  ASSUME TypeOK, NEW p \in Processes, Step(p)
  PROVE  TypeOK'
<1> USE TypeParts
<1> SUFFICES RecordsTyped' /\ CommandTyped'
  BY TypeParts DEF TypeOK, RecordsTyped, CommandTyped, Commands, Loaded
<1>1. CASE Start(p)
  <2>1. RecordsTyped'
    BY <1>1 DEF Start, ledgers, records, RecordsTyped
  <2>2. ASSUME NEW q \in Processes PROVE Loaded(q)'
    BY <1>1, <2>2 DEF Start, CommandTyped, Loaded
  <2> QED
    BY <1>1, <2>1, <2>2 DEF Start, CommandTyped, Commands
<1>2. CASE Fails(p)
  BY <1>2, OverTyped DEF Fails, RecordsTyped, CommandTyped, ledgers, records
<1>3. CASE LoadClaims(p)
  BY <1>3, LoadTyped DEF LoadClaims, Load, RecordsTyped, ledgers, records
<1>4. CASE Add(p)
  <2>1. seen[p] \subseteq Claim
    BY <1>4, SeenTyped DEF Add, CommandTyped
  <2>2. [by |-> doing[p].by, glob |-> doing[p].glob] \in Claim
    BY <1>4 DEF Add, ClaimCommand, Claim
  <2>3. RecordsTyped'
    BY <1>4, <2>1, <2>2 DEF Add, RecordsTyped, records, Conflicts
  <2> QED
    BY <1>4, <2>3, OverTyped DEF Add, CommandTyped
<1>5. CASE Release(p)
  <2>1. seen[p] \subseteq Claim
    BY <1>5, SeenTyped DEF Release, CommandTyped
  <2>2. RecordsTyped'
    BY <1>5, <2>1 DEF Release, RecordsTyped, records
  <2> QED
    BY <1>5, <2>2, OverTyped DEF Release, CommandTyped
<1>6. CASE LoadWaves(p)
  BY <1>6, LoadTyped DEF LoadWaves, Load, RecordsTyped, ledgers, records
<1>7. CASE Refuse(p)
  BY <1>7, OverTyped DEF Refuse, RecordsTyped, CommandTyped, ledgers, records
<1>8. CASE Record(p)
  <2> DEFINE c == doing[p]
             w == c.wave
  <2>1. seen[p] \in [Waves -> Wave \cup {None}] /\ c \in WaveCommand
    BY <1>8, SeenTyped DEF Record, CommandTyped
  <2>2. w \in Waves
    BY <2>1 DEF WaveCommand
  <2>3. c.verb # "open" => seen[p][w] # None
    BY <1>8 DEF Record, Refused
  <2>4. Apply(seen[p][w], c) \in Wave
    BY <2>1, <2>2, <2>3, ApplyTyped
  <2>5. waves' \in [Waves -> Wave \cup {None}]
    BY <1>8, <2>1, <2>4 DEF Record
  <2>6. life' \in [Waves -> {"none", "launching", "sealed", "serial"}]
    <3>1. life[w] \in {"none", "launching", "sealed", "serial"}
      BY <2>2 DEF RecordsTyped
    <3>2. Goes(life[w], c.verb) \in {"none", "launching", "sealed", "serial"}
      BY <3>1 DEF Goes
    <3> QED
      BY <1>8, <3>2 DEF Record, RecordsTyped
  <2>7. RecordsTyped'
    BY <1>8, <2>5, <2>6 DEF Record, RecordsTyped, ledgers
  <2> QED
    BY <1>8, <2>7, OverTyped DEF Record, CommandTyped
<1>9. CASE LoadAnswers(p)
  BY <1>9, LoadTyped DEF LoadAnswers, Load, RecordsTyped, ledgers, records
<1>10. CASE Collect(p)
  <2>1. RecordsTyped'
    BY <1>10 DEF Collect, RecordsTyped, ledgers, records
  <2>2. CASE Over(p)
    BY <2>1, <2>2, OverTyped DEF CommandTyped
  <2>3. CASE at' = [at EXCEPT ![p] = "later"] /\ UNCHANGED <<doing, seen, given>>
    <3>1. ASSUME NEW q \in Processes PROVE Loaded(q)'
      BY <1>10, <2>3, <3>1 DEF Collect, CommandTyped, Loaded
    <3> QED
      BY <2>1, <2>3, <3>1 DEF CommandTyped
  <2> QED
    BY <1>10, <2>2, <2>3 DEF Collect
<1>11. CASE WriteForLater(p)
  <2>1. RecordsTyped'
    BY <1>11 DEF WriteForLater, RecordsTyped, ledgers, records
  <2>2. CASE Over(p)
    BY <2>1, <2>2, OverTyped DEF CommandTyped
  <2>3. CASE at' = [at EXCEPT ![p] = "save"] /\ UNCHANGED <<doing, seen, given>>
    <3>1. ASSUME NEW q \in Processes PROVE Loaded(q)'
      BY <1>11, <2>3, <3>1 DEF WriteForLater, CommandTyped, Loaded
    <3> QED
      BY <2>1, <2>3, <3>1 DEF CommandTyped
  <2> QED
    BY <1>11, <2>2, <2>3 DEF WriteForLater
<1>12. CASE Give(p)
  <2>1. RecordsTyped'
    BY <1>12 DEF Give, RecordsTyped, ledgers, records
  <2>2. CASE Over(p)
    BY <2>1, <2>2, OverTyped DEF CommandTyped
  <2>3. CASE ~Over(p)
    <3>1. seen[p] \in Answers /\ doing[p] \in AskCommand
      BY <1>12 DEF Give, CommandTyped, Loaded
    <3>2. PICK new \in Answers :
            /\ given' = [given EXCEPT ![p] = new]
            /\ seen' = [seen EXCEPT ![p] = [q \in Questions |-> IF new[q] = None THEN seen[p][q] ELSE new[q]]]
            /\ at' = [at EXCEPT ![p] = "save"]
            /\ UNCHANGED doing
      BY <1>12, <2>3 DEF Give
    <3>3. [q \in Questions |-> IF new[q] = None THEN seen[p][q] ELSE new[q]] \in Answers
      BY <3>1 DEF Answers
    <3>4. ASSUME NEW q \in Processes PROVE Loaded(q)'
      BY <3>1, <3>2, <3>3, <3>4 DEF CommandTyped, Loaded
    <3> QED
      BY <2>1, <3>2, <3>4 DEF CommandTyped
  <2> QED
    BY <2>2, <2>3
<1>13. CASE WriteAnswers(p)
  <2>1. seen[p] \in Answers
    BY <1>13, SeenTyped DEF WriteAnswers, CommandTyped
  <2>2. RecordsTyped'
    BY <1>13, <2>1 DEF WriteAnswers, RecordsTyped, ledgers, records
  <2> QED
    BY <1>13, <2>2, OverTyped DEF WriteAnswers, CommandTyped
<1> QED
  BY <1>1, <1>2, <1>3, <1>4, <1>5, <1>6, <1>7, <1>8, <1>9, <1>10, <1>11, <1>12, <1>13 DEF Step

LEMMA EditTyped ==
  ASSUME TypeOK, NEW q \in Questions, Edit(q)
  PROVE  TypeOK'
<1>1. RecordsTyped'
  BY LedgersAssumption DEF Edit, TypeOK, RecordsTyped, Answers, ledgers, records
<1>2. CommandTyped'
  BY TypeParts DEF Edit, CommandTyped, Loaded, command
<1> QED
  BY <1>1, <1>2 DEF TypeOK, RecordsTyped, CommandTyped, Commands, Loaded

\* The records and what is loaded of them keep their shapes, served by a
\* daemon or not.
THEOREM Typed == Spec => []TypeOK
<1>1. TypeOK /\ [Next]_vars => TypeOK'
  <2> SUFFICES ASSUME TypeOK, [Next]_vars PROVE TypeOK'
    OBVIOUS
  <2>1. CASE Next
    BY <2>1, StepTyped, EditTyped DEF Next
  <2>2. CASE UNCHANGED vars
    BY <2>2 DEF TypeOK, Loaded, vars, ledgers, records, command
  <2> QED
    BY <2>1, <2>2
<1> QED
  BY InitTyped, <1>1, PTL DEF Spec

-----------------------------------------------------------------------------
(* Served one at a time. *)

OneAtATime == \A p, q \in Processes : at[p] # "idle" /\ at[q] # "idle" => p = q

\* What a command is about to write is the record as it is, but for its change.
Fresh(p) ==
  /\ at[p] = "save" /\ doing[p] \in ClaimCommand => seen[p] = claims
  /\ at[p] = "save" /\ doing[p] \in WaveCommand => seen[p] = waves
  /\ at[p] \in {"collect", "later", "give"} /\ edits = 0 => seen[p] = answers
  /\ at[p] = "save" /\ doing[p] \in AskCommand /\ edits = 0 =>
       /\ given[p] \in Answers
       /\ seen[p] = [q \in Questions |-> IF given[p][q] = None THEN answers[q] ELSE given[p][q]]

\* A wave's record has the marks of its course.
Marks(w) ==
  \/ waves[w] = None /\ life[w] = "none"
  \/ /\ waves[w] \in Wave
     /\ \/ life[w] = "launching" /\ waves[w].early = {} /\ ~waves[w].sealed
        \/ life[w] = "sealed" /\ waves[w].early = {} /\ waves[w].sealed
        \/ life[w] = "serial" /\ waves[w].early # {}

Served ==
  /\ OneAtATime /\ \A p \in Processes : Fresh(p)
  /\ HeldIsListed /\ OverlapTold
  /\ \A w \in Waves : Marks(w)

LEMMA InitServed == Init => Served
BY DEF Init, Served, OneAtATime, Fresh, HeldIsListed, OverlapTold, Marks

\* While one process runs a command the others are idle, and have nothing to write.
LEMMA OthersIdle ==
  ASSUME TypeOK, OneAtATime, NEW p \in Processes, at[p] # "idle",
         at' = [at EXCEPT ![p] = at'[p]]
  PROVE  OneAtATime' /\ \A q \in Processes \ {p} : Fresh(q)'
<1>1. \A q \in Processes \ {p} : at[q] = "idle" /\ at'[q] = "idle"
  BY DEF OneAtATime, TypeOK
<1> QED
  BY <1>1 DEF OneAtATime, Fresh

LEMMA OverServed ==
  ASSUME TypeOK, OneAtATime, NEW p \in Processes, at[p] # "idle", Over(p)
  PROVE  OneAtATime' /\ \A q \in Processes : Fresh(q)'
<1>1. at' = [at EXCEPT ![p] = at'[p]] /\ at'[p] = "idle"
  BY DEF Over, TypeOK
<1>2. Fresh(p)'
  BY <1>1 DEF Fresh
<1> QED
  BY <1>1, <1>2, OthersIdle

LEMMA ApplyMarks ==
  ASSUME NEW w \in Waves, NEW c \in WaveCommand, c.wave = w, Marks(w), ~Refused(waves, c),
         waves'[w] = Apply(waves[w], c), life'[w] = Goes(life[w], c.verb)
  PROVE  Marks(w)'
<1>1. Apply(waves[w], c) \in Wave
  BY ApplyTyped DEF Marks, Refused
<1>2. CASE c.verb = "open"
  BY <1>1, <1>2 DEF Marks, Apply, NewWave, Goes
<1>3. CASE c.verb # "open"
  <2>1. waves[w] \in Wave /\ waves[w] # None
    BY <1>3 DEF Marks, Refused
  <2>2. c.verb \in {"start", "seal", "return"}
    BY <1>3 DEF WaveCommand
  <2>3. CASE c.verb = "start"
    <3>1. ~waves[w].sealed
      BY <2>1, <2>3 DEF Refused
    <3> QED
      BY <1>1, <2>1, <2>3, <3>1 DEF Marks, Apply, Goes, Wave
  <2>4. CASE c.verb = "seal"
    BY <1>1, <2>1, <2>4 DEF Marks, Apply, Goes, Wave
  <2>5. CASE c.verb = "return"
    <3>1. /\ Apply(waves[w], c).sealed = waves[w].sealed
          /\ Apply(waves[w], c).early =
               IF waves[w].sealed THEN waves[w].early ELSE waves[w].early \cup {c.task}
      BY <2>1, <2>5 DEF Apply, Wave
    <3>2. Goes(life[w], c.verb) = IF life[w] = "launching" THEN "serial" ELSE life[w]
      BY <2>5 DEF Goes
    <3>3. CASE waves[w].sealed
      BY <1>1, <2>1, <3>1, <3>2, <3>3 DEF Marks
    <3>4. CASE ~waves[w].sealed
      BY <1>1, <2>1, <3>1, <3>2, <3>4 DEF Marks
    <3> QED
      BY <3>3, <3>4
  <2> QED
    BY <2>2, <2>3, <2>4, <2>5
<1> QED
  BY <1>2, <1>3

LEMMA AddServed ==
  ASSUME TypeOK, Served, NEW p \in Processes, Add(p)
  PROVE  Served'
<1>1. OneAtATime' /\ \A q \in Processes : Fresh(q)'
  BY OverServed DEF Add, Served
<1>2. seen[p] = claims /\ claims = held
  BY DEF Add, Served, Fresh, HeldIsListed
<1>3. HeldIsListed'
  BY <1>2 DEF Add, HeldIsListed
<1>4. OverlapTold'
  <2> DEFINE want == [by |-> doing[p].by, glob |-> doing[p].glob]
  <2>1. /\ held' = held \cup {want}
        /\ told' = told \cup {{c, want} : c \in Conflicts(held, want)}
    BY <1>2 DEF Add
  <2>2. ASSUME NEW a, NEW b PROVE Overlap(a, b) <=> Overlap(b, a)
    BY DEF Overlap
  <2>3. ASSUME NEW c \in held, c.by # want.by, Overlap(c.glob, want.glob) \/ Overlap(want.glob, c.glob)
        PROVE  {c, want} \in told' /\ {want, c} \in told'
    <3>1. c \in Conflicts(held, want)
      BY <2>2, <2>3 DEF Conflicts
    <3>2. {c, want} = {want, c}
      OBVIOUS
    <3> QED
      BY <2>1, <3>1, <3>2
  <2> QED
    BY <2>1, <2>3 DEF OverlapTold, Served
<1>5. ASSUME NEW w \in Waves PROVE Marks(w)'
  BY <1>5 DEF Add, records, Served, Marks
<1> QED
  BY <1>1, <1>3, <1>4, <1>5 DEF Served

LEMMA ReleaseServed ==
  ASSUME TypeOK, Served, NEW p \in Processes, Release(p)
  PROVE  Served'
<1>1. OneAtATime' /\ \A q \in Processes : Fresh(q)'
  BY OverServed DEF Release, Served
<1>2. HeldIsListed'
  BY DEF Release, Served, Fresh, HeldIsListed
<1>3. OverlapTold'
  BY DEF Release, Served, OverlapTold
<1>4. ASSUME NEW w \in Waves PROVE Marks(w)'
  BY <1>4 DEF Release, records, Served, Marks
<1> QED
  BY <1>1, <1>2, <1>3, <1>4 DEF Served

LEMMA RecordServed ==
  ASSUME TypeOK, Served, NEW p \in Processes, Record(p)
  PROVE  Served'
<1> DEFINE c == doing[p]
<1>1. OneAtATime' /\ \A q \in Processes : Fresh(q)'
  BY OverServed DEF Record, Served
<1>2. seen[p] = waves /\ c \in WaveCommand /\ c.wave \in Waves /\ ~Refused(waves, c)
  BY DEF Record, Served, Fresh, WaveCommand
<1>3. ASSUME NEW w \in Waves PROVE Marks(w)'
  <2>1. CASE w = c.wave
    <3>1. waves'[w] = Apply(waves[w], c) /\ life'[w] = Goes(life[w], c.verb)
      BY <1>2, <2>1 DEF Record, TypeOK
    <3> QED
      BY <1>2, <2>1, <3>1, ApplyMarks DEF Served
  <2>2. CASE w # c.wave
    <3>1. waves'[w] = waves[w] /\ life'[w] = life[w]
      BY <1>2, <1>3, <2>2 DEF Record, TypeOK
    <3> QED
      BY <1>3, <3>1 DEF Served, Marks
  <2> QED
    BY <2>1, <2>2
<1>4. HeldIsListed' /\ OverlapTold'
  BY DEF Record, ledgers, Served, HeldIsListed, OverlapTold
<1> QED
  BY <1>1, <1>3, <1>4 DEF Served

\* Steps that change no record but, perhaps, the answers.
LEMMA ApartFromAnswers ==
  ASSUME Served, UNCHANGED <<ledgers, records>>, OneAtATime', \A q \in Processes : Fresh(q)'
  PROVE  Served'
BY DEF Served, HeldIsListed, OverlapTold, Marks, ledgers, records

LEMMA StepServed ==
  ASSUME Serial, TypeOK, Served, NEW p \in Processes, Step(p)
  PROVE  Served'
<1> USE DEF Served
<1>1. CASE Start(p)
  <2>1. \A q \in Processes : at[q] = "idle"
    BY <1>1 DEF Start
  <2>2. at' = [at EXCEPT ![p] = "load"]
    BY <1>1 DEF Start
  <2>3. OneAtATime' /\ \A q \in Processes : Fresh(q)'
    BY <2>1, <2>2 DEF OneAtATime, Fresh, TypeOK
  <2> QED
    BY <1>1, <2>3, ApartFromAnswers DEF Start
<1>2. CASE Fails(p)
  BY <1>2, OverServed, ApartFromAnswers DEF Fails
<1>3. CASE LoadClaims(p)
  <2>1. at' = [at EXCEPT ![p] = at'[p]] /\ at'[p] = "save" /\ seen'[p] = claims /\ at[p] # "idle"
    BY <1>3 DEF LoadClaims, Load, TypeOK
  <2>2. doing'[p] \in ClaimCommand /\ claims' = claims
    BY <1>3 DEF LoadClaims, Load, ledgers
  <2>3. Fresh(p)'
    BY <2>1, <2>2, Disjoint DEF Fresh
  <2> QED
    BY <1>3, <2>1, <2>3, OthersIdle, ApartFromAnswers DEF LoadClaims, Load
<1>4. CASE Add(p)
  BY <1>4, AddServed
<1>5. CASE Release(p)
  BY <1>5, ReleaseServed
<1>6. CASE LoadWaves(p)
  <2>1. at' = [at EXCEPT ![p] = at'[p]] /\ at'[p] = "save" /\ seen'[p] = waves /\ at[p] # "idle"
    BY <1>6 DEF LoadWaves, Load, TypeOK
  <2>2. doing'[p] \in WaveCommand /\ waves' = waves
    BY <1>6 DEF LoadWaves, Load, records
  <2>3. Fresh(p)'
    BY <2>1, <2>2, Disjoint DEF Fresh
  <2> QED
    BY <1>6, <2>1, <2>3, OthersIdle, ApartFromAnswers DEF LoadWaves, Load
<1>7. CASE Refuse(p)
  BY <1>7, OverServed, ApartFromAnswers DEF Refuse
<1>8. CASE Record(p)
  BY <1>8, RecordServed
<1>9. CASE LoadAnswers(p)
  <2>1. /\ at' = [at EXCEPT ![p] = at'[p]] /\ at'[p] \in {"collect", "give"}
        /\ seen'[p] = answers /\ at[p] # "idle" /\ answers' = answers
    BY <1>9 DEF LoadAnswers, Load, TypeOK
  <2>2. Fresh(p)'
    BY <2>1 DEF Fresh
  <2> QED
    BY <1>9, <2>1, <2>2, OthersIdle, ApartFromAnswers DEF LoadAnswers, Load
<1>10. CASE Collect(p)
  <2>1. CASE Over(p)
    BY <1>10, <2>1, OverServed, ApartFromAnswers DEF Collect
  <2>2. CASE at' = [at EXCEPT ![p] = "later"] /\ UNCHANGED <<doing, seen, given>>
    <3>1. at' = [at EXCEPT ![p] = at'[p]] /\ at'[p] = "later" /\ at[p] # "idle"
      BY <1>10, <2>2 DEF Collect, TypeOK
    <3>2. Fresh(p)'
      BY <1>10, <2>2, <3>1 DEF Collect, Fresh
    <3> QED
      BY <1>10, <3>1, <3>2, OthersIdle, ApartFromAnswers DEF Collect
  <2> QED
    BY <1>10, <2>1, <2>2 DEF Collect
<1>11. CASE WriteForLater(p)
  <2>1. CASE Over(p)
    BY <1>11, <2>1, OverServed, ApartFromAnswers DEF WriteForLater
  <2>2. CASE answers # seen[p] /\ at' = [at EXCEPT ![p] = "save"] /\ UNCHANGED <<doing, seen, given>>
    <3>1. at' = [at EXCEPT ![p] = at'[p]] /\ at'[p] = "save" /\ at[p] # "idle" /\ doing[p] \in AskCommand
      BY <1>11, <2>2 DEF WriteForLater, TypeOK, Loaded
    <3>2. edits # 0 /\ edits' = edits
      BY <1>11, <2>2 DEF WriteForLater, Fresh
    <3>3. Fresh(p)'
      BY <2>2, <3>1, <3>2, Disjoint DEF Fresh
    <3> QED
      BY <1>11, <3>1, <3>3, OthersIdle, ApartFromAnswers DEF WriteForLater
  <2> QED
    BY <1>11, <2>1, <2>2 DEF WriteForLater
<1>12. CASE Give(p)
  <2>1. CASE Over(p)
    BY <1>12, <2>1, OverServed, ApartFromAnswers DEF Give
  <2>2. CASE ~Over(p)
    <3>1. PICK new \in Answers :
            /\ given' = [given EXCEPT ![p] = new]
            /\ seen' = [seen EXCEPT ![p] = [q \in Questions |-> IF new[q] = None THEN seen[p][q] ELSE new[q]]]
            /\ at' = [at EXCEPT ![p] = "save"]
            /\ UNCHANGED doing
      BY <1>12, <2>2 DEF Give
    <3>2. /\ at' = [at EXCEPT ![p] = at'[p]] /\ at'[p] = "save" /\ at[p] = "give"
          /\ doing'[p] \in AskCommand /\ edits' = edits /\ answers' = answers
          /\ given'[p] = new
          /\ seen'[p] = [q \in Questions |-> IF new[q] = None THEN seen[p][q] ELSE new[q]]
      BY <1>12, <3>1 DEF Give, TypeOK, Loaded
    <3>3. edits = 0 => seen[p] = answers
      BY <3>2 DEF Fresh
    <3>4. Fresh(p)'
      BY <3>2, <3>3, Disjoint DEF Fresh
    <3> QED
      BY <1>12, <3>2, <3>4, OthersIdle, ApartFromAnswers DEF Give
  <2> QED
    BY <2>1, <2>2
<1>13. CASE WriteAnswers(p)
  BY <1>13, OverServed, ApartFromAnswers DEF WriteAnswers
<1> QED
  BY <1>1, <1>2, <1>3, <1>4, <1>5, <1>6, <1>7, <1>8, <1>9, <1>10, <1>11, <1>12, <1>13 DEF Step

LEMMA EditServed ==
  ASSUME TypeOK, Served, NEW q \in Questions, Edit(q)
  PROVE  Served'
<1>1. edits' # 0
  BY DEF Edit, TypeOK
<1>2. OneAtATime' /\ \A p \in Processes : Fresh(p)'
  BY <1>1 DEF Edit, command, ledgers, records, Served, OneAtATime, Fresh
<1> QED
  BY <1>2, ApartFromAnswers DEF Edit

IInv == TypeOK /\ Served

LEMMA IInvHolds == ASSUME Serial PROVE Spec => []IInv
<1>1. Init => IInv
  BY InitTyped, InitServed DEF IInv
<1>2. IInv /\ [Next]_vars => IInv'
  <2> SUFFICES ASSUME IInv, [Next]_vars PROVE IInv'
    OBVIOUS
  <2>1. CASE Next
    BY <2>1, StepTyped, EditTyped, StepServed, EditServed DEF Next, IInv
  <2>2. CASE UNCHANGED vars
    <3>1. TypeOK'
      BY <2>2 DEF IInv, TypeOK, Loaded, vars, ledgers, records, command
    <3>2. OneAtATime' /\ \A p \in Processes : Fresh(p)'
      BY <2>2 DEF IInv, Served, OneAtATime, Fresh, vars, ledgers, records, command
    <3> QED
      BY <2>2, <3>1, <3>2, ApartFromAnswers DEF IInv, vars
  <2> QED
    BY <2>1, <2>2
<1> QED
  BY <1>1, <1>2, PTL DEF Spec

\* Served by a daemon, the ledger lists the claims that were acknowledged and
\* not released, and no other.
THEOREM Listed == ASSUME Serial PROVE Spec => []HeldIsListed
<1>1. IInv => HeldIsListed
  BY DEF IInv, Served
<1> QED
  BY <1>1, IInvHolds, PTL

\* Served by a daemon, no two claims that Overlap are held without the later
\* of the two agents having been told.
THEOREM Visible == ASSUME Serial PROVE Spec => []OverlapTold
<1>1. IInv => OverlapTold
  BY DEF IInv, Served
<1> QED
  BY <1>1, IInvHolds, PTL

\* Served by a daemon, a wave is called parallel exactly when its course was.
THEOREM TrueVerdict == ASSUME Serial PROVE Spec => []VerdictIsTheRecord
<1>1. IInv => VerdictIsTheRecord
  <2> SUFFICES ASSUME IInv, NEW w \in Waves, waves[w] # None
               PROVE  Verdict(waves[w]) = "parallel" <=> life[w] = "sealed"
    BY DEF VerdictIsTheRecord
  <2>1. Marks(w)
    BY DEF IInv, Served
  <2> QED
    BY <2>1 DEF Marks, Verdict
<1> QED
  BY <1>1, IInvHolds, PTL

\* Served by a daemon, and until somebody edits the file by hand, an answer
\* on file changes only to one a person gave.
THEOREM Kept == ASSUME Serial PROVE Spec => AnswersStay
<1> DEFINE Given == \A q \in Questions : edits' = 0 /\ answers'[q] # answers[q] =>
                      \E p \in Processes : given[p] \in Answers /\ given[p][q] # None /\ answers'[q] = given[p][q]
<1>1. IInv /\ [Next]_vars => [Given]_vars
  <2> SUFFICES ASSUME IInv, Next, NEW q \in Questions, edits' = 0, answers'[q] # answers[q]
               PROVE  \E p \in Processes : given[p] \in Answers /\ given[p][q] # None /\ answers'[q] = given[p][q]
    OBVIOUS
  <2>1. PICK p \in Processes : Step(p)
    BY DEF Next, Edit, IInv, TypeOK
  <2>2. WriteAnswers(p)
    BY <2>1 DEF Step, Start, Fails, Load, LoadClaims, LoadWaves, LoadAnswers, Add, Release, Refuse,
                Record, Collect, WriteForLater, Give
  <2>3. /\ given[p] \in Answers
        /\ seen[p] = [r \in Questions |-> IF given[p][r] = None THEN answers[r] ELSE given[p][r]]
    BY <2>2 DEF WriteAnswers, IInv, Served, Fresh
  <2> QED
    BY <2>2, <2>3 DEF WriteAnswers
<1> QED
  BY <1>1, IInvHolds, PTL DEF Spec, AnswersStay

-----------------------------------------------------------------------------
(* Patterns *)

\* Of some numbers there is a least.
LEMMA Least ==
  ASSUME NEW S, S \subseteq Nat, S # {}
  PROVE  \E n \in S : \A m \in S : n <= m
<1>1. PICK n \in S : \A m \in S : <<m, n>> \notin OpToRel(<, Nat)
  BY NatLessThanWellFounded, WFMin
<1>2. ASSUME NEW m \in S PROVE n <= m
  <2>1. <<m, n>> \notin OpToRel(<, Nat) /\ m \in Nat /\ n \in Nat
    BY <1>1, <1>2
  <2>2. ~(m < n)
    BY <2>1 DEF OpToRel
  <2>3. m \in Nat /\ n \in Nat
    OBVIOUS
  <2> QED BY <2>2, <2>3
<1> QED BY <1>2

\* Where each end of a pattern may begin to match.
Ends(from, glob, path) ==
  /\ from[Len(glob) + 1] = {Len(path) + 1}
  /\ \A i \in 1 .. Len(glob) : from[i] = Before(glob[i], path, from[i + 1])

\* Each end of a pattern has its places.
LEMMA FromExists ==
  ASSUME NEW C, NEW glob \in Seq(C), NEW path \in Seq(C)
  PROVE  \E from \in [1 .. Len(glob) + 1 -> SUBSET Nat] : Ends(from, glob, path)
<1> DEFINE n == Len(glob)
           D == 1 .. n + 1
           Body(f, i) == IF i > Len(glob) THEN {Len(path) + 1} ELSE Before(glob[i], path, f[i + 1])
           S == {k \in 0 .. n : \E f \in [D -> SUBSET Nat] : \A i \in D : i > k => f[i] = Body(f, i)}
<1>1. n \in Nat /\ Len(path) \in Nat
  OBVIOUS
<1>b. \A c, rest : Before(c, path, rest) \in SUBSET Nat
  <2> SUFFICES ASSUME NEW c, NEW rest PROVE Before(c, path, rest) \subseteq Nat
    OBVIOUS
  <2>1. 1 .. Len(path) + 1 \subseteq Nat /\ 1 .. Len(path) \subseteq Nat
    BY <1>1
  <2> QED BY <2>1 DEF Before
<1>2. n \in S
  <2> DEFINE f == [i \in D |-> {Len(path) + 1}]
  <2>1. f \in [D -> SUBSET Nat]
    BY <1>1
  <2>2. \A i \in D : i > n => f[i] = Body(f, i)
    BY <1>1
  <2>3. n \in 0 .. n
    BY <1>1
  <2> QED BY <2>1, <2>2, <2>3
<1>3. PICK k \in S : \A m \in S : k <= m
  <2>1. S \subseteq Nat
    BY <1>1
  <2> HIDE DEF S
  <2> QED BY <1>2, <2>1, Least
<1>4. k = 0
  <2> SUFFICES ASSUME k # 0 PROVE FALSE
    OBVIOUS
  <2>1. k \in 1 .. n /\ k \in D /\ k + 1 \in D /\ k - 1 \in 0 .. n
    BY <1>1, <1>3
  <2>2. PICK f \in [D -> SUBSET Nat] : \A i \in D : i > k => f[i] = Body(f, i)
    BY <1>3
  <2> DEFINE g == [f EXCEPT ![k] = Body(f, k)]
  <2>3. g \in [D -> SUBSET Nat]
    <3>1. Body(f, k) \in SUBSET Nat
      BY <1>b, <2>1
    <3> QED BY <2>1, <3>1
  <2>4. \A i \in D : i # k => g[i] = f[i]
    OBVIOUS
  <2>5. g[k] = Body(f, k)
    BY <2>1, <2>2
  <2> HIDE DEF g
  <2>6. ASSUME NEW i \in D, i >= k PROVE Body(f, i) = Body(g, i)
    <3>1. CASE i > Len(glob)
      BY <3>1
    <3>2. CASE ~(i > Len(glob))
      <4>1. i + 1 \in D /\ i + 1 # k
        BY <1>1, <2>1, <2>6, <3>2
      <4> QED BY <2>4, <3>2, <4>1
    <3> QED BY <3>1, <3>2
  <2>7. ASSUME NEW i \in D, i > k - 1 PROVE g[i] = Body(g, i)
    <3>1. i = k \/ (i # k /\ i > k)
      BY <1>1, <2>1, <2>7
    <3>2. i >= k
      BY <2>1, <3>1
    <3> HIDE DEF Body
    <3> QED BY <2>2, <2>4, <2>5, <2>6, <3>1, <3>2
  <2>8. k - 1 \in S
    BY <2>1, <2>3, <2>7
  <2> HIDE DEF S
  <2> QED BY <1>1, <1>3, <2>1, <2>8
<1>5. PICK f \in [D -> SUBSET Nat] : \A i \in D : i > 0 => f[i] = Body(f, i)
  BY <1>3, <1>4
<1>6. Ends(f, glob, path)
  <2>1. \A i \in D : f[i] = Body(f, i)
    BY <1>1, <1>5
  <2> QED BY <1>1, <2>1 DEF Ends
<1> QED BY <1>6

\* And a path is matched when the whole of it is one of them.
LEMMA MatchesFrom ==
  ASSUME NEW C, NEW glob \in Seq(C), NEW path \in Seq(C), Matches(glob, path)
  PROVE  \E from : 1 \in from[1] /\ Ends(from, glob, path)
<1> DEFINE D == 1 .. Len(glob) + 1
           Body(f, i) == IF i > Len(glob) THEN {Len(path) + 1} ELSE Before(glob[i], path, f[i + 1])
           from == CHOOSE f : f = [i \in D |-> Body(f, i)]
<1>1. 1 \in from[1]
  BY Zenon DEF Matches
<1>2. Len(glob) \in Nat
  OBVIOUS
<1>3. PICK f \in [D -> SUBSET Nat] : Ends(f, glob, path)
  BY FromExists
<1>4. f = [i \in D |-> Body(f, i)]
  <2>1. \A i \in D : f[i] = Body(f, i)
    BY <1>2, <1>3 DEF Ends
  <2> HIDE DEF Body
  <2> QED BY <2>1
<1>5. from = [i \in D |-> Body(from, i)]
  BY <1>4, Zenon
<1> HIDE DEF from
<1>6. \A i \in D : from[i] = Body(from, i)
  <2> HIDE DEF Body
  <2> QED BY <1>5
<1>7. Ends(from, glob, path)
  <2>1. Len(glob) + 1 \in D /\ \A i \in 1 .. Len(glob) : i \in D /\ ~(i > Len(glob))
    BY <1>2
  <2>2. from[Len(glob) + 1] = {Len(path) + 1}
    BY <1>2, <1>6, <2>1
  <2>3. ASSUME NEW i \in 1 .. Len(glob) PROVE from[i] = Before(glob[i], path, from[i + 1])
    BY <1>6, <2>1
  <2> QED BY <2>2, <2>3 DEF Ends
<1> QED BY <1>1, <1>7

\* One sequence begins another where they agree.
LEMMA Begins ==
  ASSUME NEW C, NEW s \in Seq(C), NEW t \in Seq(C)
  PROVE  IsPrefix(s, t) <=> Len(s) <= Len(t) /\ \A i \in 1 .. Len(s) : s[i] = t[i]
<1>1. CASE Len(s) <= Len(t)
  <2>1. SubSeq(s, 1, Len(s)) = [i \in 1 .. Len(s) |-> s[i]]
    OBVIOUS
  <2>2. SubSeq(t, 1, Len(s)) = [i \in 1 .. Len(s) |-> t[i]]
    BY <1>1
  <2> QED BY <1>1, <2>1, <2>2 DEF IsPrefix
<1>2. CASE ~(Len(s) <= Len(t))
  BY <1>2 DEF IsPrefix
<1> QED BY <1>1, <1>2

\* The literal prefix of a pattern is the start of it, and has no wildcard.
LEMMA PrefixIsLiteral ==
  ASSUME NEW C, NEW glob \in Seq(C)
  PROVE  /\ LiteralPrefix(glob) \in Seq(C)
         /\ Len(LiteralPrefix(glob)) \in 0 .. Len(glob)
         /\ \A i \in 1 .. Len(LiteralPrefix(glob)) : LiteralPrefix(glob)[i] = glob[i] /\ glob[i] \notin {"*", "?"}
<1> DEFINE slashes == {i \in DOMAIN glob : glob[i] = "/" /\ \A w \in Wildcards(glob) : i < w}
           last == CHOOSE i \in slashes : \A j \in slashes : j <= i
<1>0. DOMAIN glob = 1 .. Len(glob) /\ Len(glob) \in Nat
  OBVIOUS
<1>1. CASE Wildcards(glob) = {}
  BY <1>0, <1>1 DEF LiteralPrefix, Wildcards
<1>2. CASE Wildcards(glob) # {} /\ slashes = {}
  <2>1. LiteralPrefix(glob) = <<>>
    BY <1>2 DEF LiteralPrefix
  <2> QED BY <1>0, <2>1
<1>3. CASE Wildcards(glob) # {} /\ slashes # {}
  <2>1. \E i \in slashes : \A j \in slashes : j <= i
    <3> DEFINE R == {Len(glob) - i : i \in slashes}
    <3>1. R \subseteq Nat /\ R # {}
      BY <1>0, <1>3
    <3>2. PICK r \in R : \A m \in R : r <= m
      <4> HIDE DEF R
      <4> QED BY <3>1, Least
    <3>3. PICK i \in slashes : r = Len(glob) - i
      BY <3>2
    <3>4. \A j \in slashes : Len(glob) - i <= Len(glob) - j
      BY <3>2, <3>3
    <3> QED BY <1>0, <3>4
  <2>2. last \in slashes
    BY <2>1
  <2>3. LiteralPrefix(glob) = SubSeq(glob, 1, last)
    BY <1>3 DEF LiteralPrefix
  <2>4. last \in 1 .. Len(glob) /\ \A w \in Wildcards(glob) : last < w
    BY <1>0, <2>2
  <2> HIDE DEF last
  <2>5. \A i \in 1 .. last : glob[i] \notin {"*", "?"}
    <3> SUFFICES ASSUME NEW i \in 1 .. last, glob[i] \in {"*", "?"} PROVE FALSE
      OBVIOUS
    <3>1. i \in Wildcards(glob)
      BY <1>0, <2>4 DEF Wildcards
    <3> QED BY <1>0, <2>4, <3>1
  <2> QED BY <1>0, <2>3, <2>4, <2>5
<1> QED BY <1>1, <1>2, <1>3

\* What a pattern matches begins with its literal prefix.
LEMMA MatchesItsPrefix ==
  ASSUME NEW C, NEW glob \in Seq(C), NEW path \in Seq(C), Matches(glob, path)
  PROVE  IsPrefix(LiteralPrefix(glob), path)
<1> DEFINE prefix == LiteralPrefix(glob)
           n == Len(prefix)
<1>1. PICK from : 1 \in from[1] /\ Ends(from, glob, path)
  BY MatchesFrom
<1>2. /\ prefix \in Seq(C) /\ n \in 0 .. Len(glob) /\ Len(glob) \in Nat /\ Len(path) \in Nat
      /\ \A i \in 1 .. n : prefix[i] = glob[i] /\ glob[i] \notin {"*", "?"}
  BY PrefixIsLiteral
<1> HIDE DEF prefix
<1>3. ASSUME NEW i \in 1 .. n, i \in from[i]
      PROVE  i \in 1 .. Len(path) /\ path[i] = prefix[i] /\ i + 1 \in from[i + 1]
  <2>1. i \in 1 .. Len(glob) /\ i \in Before(glob[i], path, from[i + 1])
    BY <1>1, <1>2, <1>3 DEF Ends
  <2> QED BY <1>2, <2>1 DEF Before
<1>4. ASSUME NEW i \in 1 .. n PROVE i \in from[i]
  <2> DEFINE Off == {k \in 1 .. n : k \notin from[k]}
  <2> SUFFICES ASSUME Off # {} PROVE FALSE
    BY <1>4
  <2>1. PICK k \in Off : \A m \in Off : k <= m
    <3>1. Off \subseteq Nat
      OBVIOUS
    <3> HIDE DEF Off
    <3> QED BY <3>1, Least
  <2>2. k # 1
    BY <1>1, <2>1
  <2>3. k - 1 \in 1 .. n /\ k - 1 \notin Off
    BY <1>2, <2>1, <2>2
  <2>4. (k - 1) + 1 \in from[(k - 1) + 1]
    BY <1>3, <2>3
  <2> QED BY <1>2, <2>1, <2>4
<1>5. \A i \in 1 .. n : i <= Len(path) /\ path[i] = prefix[i]
  BY <1>2, <1>3, <1>4
<1>6. n <= Len(path)
  <2>1. CASE n = 0
    BY <1>2, <2>1
  <2>2. CASE n # 0
    <3>1. n \in 1 .. n
      BY <1>2, <2>2
    <3> QED BY <1>5, <3>1
  <2> QED BY <2>1, <2>2
<1>7. IsPrefix(prefix, path)
  BY <1>2, <1>5, <1>6, Begins
<1> QED BY <1>7 DEF prefix

\* And so does what lies below it.
LEMMA OwnsItsPrefix ==
  ASSUME NEW C, NEW glob \in Seq(C), NEW path \in Seq(C), Owns(glob, path)
  PROVE  /\ LiteralPrefix(glob) \in Seq(C) /\ Len(LiteralPrefix(glob)) <= Len(path)
         /\ \A i \in 1 .. Len(LiteralPrefix(glob)) : LiteralPrefix(glob)[i] = path[i]
<1>1. LiteralPrefix(glob) \in Seq(C)
  BY PrefixIsLiteral
<1>2. CASE Matches(glob, path)
  <2>1. IsPrefix(LiteralPrefix(glob), path)
    BY <1>2, MatchesItsPrefix
  <2> QED BY <1>1, <2>1, Begins
<1>3. ASSUME NEW k \in DOMAIN path, Matches(glob, SubSeq(path, 1, k - 1))
      PROVE  /\ Len(LiteralPrefix(glob)) <= Len(path)
             /\ \A i \in 1 .. Len(LiteralPrefix(glob)) : LiteralPrefix(glob)[i] = path[i]
  <2> DEFINE above == SubSeq(path, 1, k - 1)
  <2>1. /\ above \in Seq(C) /\ Len(above) = k - 1 /\ k - 1 <= Len(path) /\ Len(path) \in Nat /\ k - 1 \in Nat
        /\ \A i \in 1 .. k - 1 : above[i] = path[i]
    OBVIOUS
  <2>2. Matches(glob, above)
    BY <1>3
  <2> HIDE DEF above
  <2>3. IsPrefix(LiteralPrefix(glob), above)
    BY <2>1, <2>2, MatchesItsPrefix
  <2>4. Len(LiteralPrefix(glob)) <= Len(above) /\ \A i \in 1 .. Len(LiteralPrefix(glob)) : LiteralPrefix(glob)[i] = above[i]
    BY <1>1, <2>1, <2>3, Begins
  <2>5. Len(LiteralPrefix(glob)) \in Nat
    BY <1>1
  <2> QED BY <2>1, <2>4, <2>5
<1> QED BY <1>1, <1>2, <1>3 DEF Owns

\* claims.go: "Deliberately generous": two patterns that one path falls under
\* overlap, for any patterns and paths.
LEMMA ClaimsMeet ==
  ASSUME NEW C, NEW a \in Seq(C), NEW b \in Seq(C), NEW path \in Seq(C), Owns(a, path), Owns(b, path)
  PROVE  Overlap(a, b)
<1> DEFINE pa == LiteralPrefix(a)
           pb == LiteralPrefix(b)
<1>1. /\ pa \in Seq(C) /\ Len(pa) \in Nat /\ Len(pa) <= Len(path) /\ \A i \in 1 .. Len(pa) : pa[i] = path[i]
      /\ pb \in Seq(C) /\ Len(pb) \in Nat /\ Len(pb) <= Len(path) /\ \A i \in 1 .. Len(pb) : pb[i] = path[i]
  BY OwnsItsPrefix
<1>2. IsPrefix(pa, pb) \/ IsPrefix(pb, pa)
  <2> HIDE DEF pa, pb
  <2>1. CASE Len(pa) <= Len(pb)
    BY <1>1, <2>1, Begins
  <2>2. CASE Len(pb) <= Len(pa)
    BY <1>1, <2>2, Begins
  <2> QED BY <1>1, <2>1, <2>2
<1> QED BY <1>2 DEF Overlap

\* Whatever is claimed, served or not: two claims that one path falls under are
\* said to overlap ("a missed one costs two agents' work"), for any patterns.
THEOREM Generous == Spec => []OverlapIsGenerous
<1>1. TypeOK => OverlapIsGenerous
  <2> SUFFICES ASSUME TypeOK, NEW c \in held, NEW d \in held, NEW path \in Paths, Owns(c.glob, path), Owns(d.glob, path)
               PROVE  Overlap(c.glob, d.glob)
    BY DEF OverlapIsGenerous
  <2>1. c.glob \in Patterns /\ d.glob \in Patterns
    BY DEF TypeOK, Claim
  <2>2. c.glob \in Seq(Characters) /\ d.glob \in Seq(Characters) /\ path \in Seq(Characters)
    BY <2>1, LedgersAssumption
  <2> QED BY <2>2, ClaimsMeet
<1> QED BY <1>1, Typed, PTL
=============================================================================
