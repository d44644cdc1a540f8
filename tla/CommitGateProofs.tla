-------------------------- MODULE CommitGateProofs --------------------------
(***************************************************************************)
(* The budget is kept and a commit let through in silence was judged, for  *)
(* any files, commands, setups and number of slots.                        *)
(***************************************************************************)
EXTENDS CommitGate, FiniteSetTheorems, TLAPS

(***************************************************************************)
(* The inductive invariant.                                                *)
(***************************************************************************)

\* The type invariant but for the budget's bounds.
Typing ==
  /\ setup \in Setups
  /\ head \in [Files -> Contents \cup {Absent}]
  /\ index \in [Files -> Contents \cup {Absent}]
  /\ tree \in [Files -> Contents \cup {Absent}]
  /\ edits \in 0 .. MaxEdits
  /\ stage \in [Gates -> {"idle", "judging", "decided", "over"}]
  /\ command \in [Gates -> Commits \cup {"no_verify", "other"}]
  /\ decision \in [Gates -> {"none", "silent", "said", "denied"}]
  /\ gate \in [Gates -> {"none", "listing", "checking", "clean", "blocking"}]
  /\ unit \in [Gates -> [Units -> {"off", "waiting", "held", "passes", "blocks"}]]
  /\ suite \in [Gates -> {"off", "waiting", "passes", "blocks"}]
  /\ blind \in [Gates -> BOOLEAN]
  /\ still \in [Gates -> BOOLEAN]

\* The budget counts the units that hold a slot.
Holding(p) == {w \in Gates \X Units : unit[w[1]][w[2]] = "held" /\ Process(w[1]) = p}

BudgetCounts ==
  /\ budget \in [Gates \cup {Daemon} -> 0 .. Slots]
  /\ \A p \in Gates \cup {Daemon} : budget[p] = Cardinality(Holding(p))

\* Units are at work only while the gate is checking, and its process is there.
WorkIsTheGates ==
  \A g \in Gates :
    /\ gate[g] # "checking" => suite[g] # "waiting"
    /\ \A u \in Units : unit[g][u] \in {"waiting", "held"} => gate[g] = "checking" /\ Attended(g)

\* A tool that gave no answer has blocked, unless its process is gone.
BlindBlocks ==
  \A g \in Gates :
    /\ gate[g] \in {"none", "listing", "clean"} => ~blind[g]
    /\ gate[g] = "checking" /\ Attended(g) /\ blind[g] => Blocked(g)

DecisionStays ==
  /\ \A g \in Gates :
       /\ stage[g] \in {"idle", "judging"} => decision[g] = "none"
       /\ stage[g] = "idle" => gate[g] = "none"
  /\ SilenceIsAVerdict

IInv == Typing /\ BudgetCounts /\ WorkIsTheGates /\ BlindBlocks /\ DecisionStays

-----------------------------------------------------------------------------
(* Counting. *)

LEMMA HoldingFinite == \A p : IsFiniteSet(Holding(p))
<1>1. IsFiniteSet({"format", "secrets"})
  <2>1. IsFiniteSet({"format"} \cup {"secrets"})
    BY FS_Singleton, FS_AddElement
  <2> QED
    BY <2>1, {"format", "secrets"} = {"format"} \cup {"secrets"}
<1>2. IsFiniteSet(Gates \X Units)
  BY <1>1, FS_Product, GateAssumption DEF Units
<1> QED
  BY <1>2, FS_Subset DEF Holding

-----------------------------------------------------------------------------
(* The invariant holds at first, and every step keeps it. *)

LEMMA InitIInv == Init => IInv
<1> SUFFICES ASSUME Init PROVE IInv
  OBVIOUS
<1> USE DEF Init
<1>1. Typing
  BY GateAssumption DEF Typing, Contents, Commits
<1>2. ASSUME NEW p PROVE Holding(p) = {}
  BY DEF Holding
<1>3. BudgetCounts
  <2>1. \A p : Cardinality(Holding(p)) = 0
    BY <1>2, FS_EmptySet
  <2>2. 0 \in 0 .. Slots
    BY GateAssumption
  <2> QED
    BY <2>1, <2>2 DEF BudgetCounts
<1>4. WorkIsTheGates /\ BlindBlocks /\ DecisionStays
  BY DEF WorkIsTheGates, BlindBlocks, DecisionStays, SilenceIsAVerdict
<1> QED
  BY <1>1, <1>3, <1>4 DEF IInv

\* The repository's own steps leave the hook and the gate alone.
LEMMA TreeKeepsIInv ==
  ASSUME IInv, NEW f \in Files, Stage(f) \/ \E c \in Contents \cup {Absent} : Edit(f, c) PROVE IInv'
<1> USE DEF repository, hook, gating
<1>1. UNCHANGED <<setup, hook, gating>>
  BY DEF Stage, Edit
<1>2. Typing'
  <2>1. CASE Stage(f)
    BY <2>1 DEF Stage, IInv, Typing
  <2>2. ASSUME NEW c \in Contents \cup {Absent}, Edit(f, c) PROVE Typing'
    BY <2>2, GateAssumption DEF Edit, IInv, Typing
  <2> QED
    BY <2>1, <2>2
<1>3. \A p : Holding(p)' = Holding(p)
  BY <1>1 DEF Holding, Process
<1>4. BudgetCounts'
  BY <1>1, <1>3 DEF IInv, BudgetCounts
<1> QED
  BY <1>1, <1>2, <1>4
  DEF IInv, WorkIsTheGates, BlindBlocks, DecisionStays, SilenceIsAVerdict, Attended, Blocked

\* What the hook does before a gate runs, and running the command.
LEMMA AskingKeepsIInv ==
  ASSUME IInv, NEW g \in Gates, Arrive(g) \/ RunGate(g) \/ RunCommand(g) PROVE IInv'
<1> USE DEF repository, hook, gating
<1>1. UNCHANGED <<setup, tree, edits, decision, unit, suite, budget, blind, still>>
  BY DEF Arrive, RunGate, RunCommand
<1>2. Typing'
  <2>1. CASE Arrive(g)
    BY <2>1 DEF Arrive, IInv, Typing, Commits
  <2>2. CASE RunGate(g)
    BY <2>2 DEF RunGate, IInv, Typing
  <2>3. CASE RunCommand(g)
    BY <2>3 DEF RunCommand, Committed, IInv, Typing
  <2> QED
    BY <2>1, <2>2, <2>3
<1>3. \A p : Holding(p)' = Holding(p)
  BY <1>1 DEF Holding, Process
<1>4. BudgetCounts'
  BY <1>1, <1>3 DEF IInv, BudgetCounts
<1>5. WorkIsTheGates' /\ BlindBlocks' /\ DecisionStays'
  BY <1>1 DEF IInv, Typing, WorkIsTheGates, BlindBlocks, DecisionStays, SilenceIsAVerdict, Attended,
     Blocked, Arrive, RunGate, RunCommand, Asked, Commits
<1> QED
  BY <1>2, <1>4, <1>5 DEF IInv

\* Answering: a process of its own ends here, and its slots with it.
LEMMA DecidingKeepsIInv ==
  ASSUME IInv, NEW g \in Gates,
         Unreadable(g) \/ NotOurs(g) \/ Bypassed(g) \/ Deadline(g) \/ Verdict(g)
  PROVE  IInv'
<1> USE DEF repository, hook, gating
<1>1. /\ UNCHANGED <<repository, command, gate, suite, blind, still>>
      /\ stage[g] = "judging" /\ stage' = [stage EXCEPT ![g] = "decided"]
  BY DEF Unreadable, NotOurs, Bypassed, Deadline, Verdict, Decide, Asked
<1>2. PICK d \in {"silent", "said", "denied"} :
        /\ Decide(g, d)
        /\ d = "silent" /\ command[g] \in Commits /\ setup.policy # "off" => gate[g] = "clean"
  BY DEF Unreadable, NotOurs, Bypassed, Deadline, Verdict, Refusal, Commits, Asked
<1>3. Typing'
  BY <1>1, <1>2 DEF Decide, IInv, Typing
<1>4. BudgetCounts'
  <2>1. CASE setup.resident
    <3>1. \A p : Holding(p)' = Holding(p)
      BY <1>1, <1>2, <2>1 DEF Decide, Holding, Process
    <3> QED
      BY <1>2, <2>1, <3>1 DEF Decide, IInv, BudgetCounts
  <2>2. CASE ~setup.resident
    <3>1. unit' = [unit EXCEPT ![g] = [u \in Units |-> "off"]] /\ budget' = [budget EXCEPT ![g] = 0]
      BY <1>2, <2>2 DEF Decide
    <3>2. Holding(g)' = {}
      BY <1>1, <2>2, <3>1 DEF Holding, Process, IInv, Typing
    <3>3. \A p : p # g => Holding(p)' = Holding(p)
      BY <1>1, <2>2, <3>1 DEF Holding, Process, IInv, Typing
    <3>4. budget' \in [Gates \cup {Daemon} -> 0 .. Slots]
      BY <3>1, GateAssumption DEF IInv, BudgetCounts
    <3>5. ASSUME NEW p \in Gates \cup {Daemon} PROVE budget'[p] = Cardinality(Holding(p)')
      <4>1. CASE p = g
        BY <3>1, <3>2, <4>1, FS_EmptySet DEF IInv, BudgetCounts
      <4>2. CASE p # g
        BY <3>1, <3>3, <4>2 DEF IInv, BudgetCounts
      <4> QED
        BY <4>1, <4>2
    <3> QED
      BY <3>4, <3>5 DEF BudgetCounts
  <2> QED
    BY <2>1, <2>2
<1>5. WorkIsTheGates'
  BY <1>1, <1>2 DEF Decide, IInv, Typing, WorkIsTheGates, Attended
<1>6. BlindBlocks'
  BY <1>1, <1>2 DEF Decide, IInv, Typing, BlindBlocks, Attended, Blocked
<1>7. DecisionStays'
  BY <1>1, <1>2 DEF Decide, IInv, Typing, BlindBlocks, DecisionStays, SilenceIsAVerdict
<1> QED
  BY <1>3, <1>4, <1>5, <1>6, <1>7 DEF IInv

\* Listing what has changed, and judging.
LEMMA JudgingKeepsIInv ==
  ASSUME IInv, NEW g \in Gates, List(g) \/ CannotJudge(g) \/ Judge(g) PROVE IInv'
<1> USE DEF repository, hook, gating
<1>1. UNCHANGED <<repository, hook, budget, blind>> /\ Attended(g)
  BY DEF List, CannotJudge, Judge
<1>2. Typing'
  <2>1. CASE List(g)
    <3>1. [u \in Units |-> IF u \in Work THEN "waiting" ELSE "off"]
            \in [Units -> {"off", "waiting", "held", "passes", "blocks"}]
      OBVIOUS
    <3> QED
      BY <1>1, <2>1, <3>1 DEF List, IInv, Typing
  <2>2. CASE CannotJudge(g)
    BY <1>1, <2>2 DEF CannotJudge, IInv, Typing
  <2>3. CASE Judge(g)
    BY <1>1, <2>3 DEF Judge, IInv, Typing
  <2> QED
    BY <2>1, <2>2, <2>3
<1>3. \A u \in Units : unit[g][u] # "held" /\ unit'[g][u] # "held"
  <2>1. CASE List(g)
    <3>1. unit'[g] = [u \in Units |-> IF u \in Work THEN "waiting" ELSE "off"]
      BY <2>1 DEF List, IInv, Typing
    <3>2. \A u \in Units : unit'[g][u] # "held"
      BY <3>1
    <3> QED
      BY <2>1, <3>2 DEF List, IInv, WorkIsTheGates
  <2>2. CASE CannotJudge(g)
    BY <2>2 DEF CannotJudge, IInv, WorkIsTheGates
  <2>3. CASE Judge(g)
    BY <2>3 DEF Judge, Answered
  <2> QED
    BY <2>1, <2>2, <2>3
<1>4. \A h \in Gates : h # g => unit'[h] = unit[h]
  BY DEF List, CannotJudge, Judge, IInv, Typing
<1>5. \A p : Holding(p)' = Holding(p)
  BY <1>1, <1>3, <1>4 DEF Holding, Process
<1>6. BudgetCounts'
  BY <1>1, <1>5 DEF IInv, BudgetCounts
<1>7. WorkIsTheGates'
  <2>1. CASE List(g)
    <3>1. Changed = {} => Work = {}
      BY DEF Work
    <3> QED
      BY <1>1, <2>1, <3>1 DEF List, IInv, Typing, WorkIsTheGates, Attended
  <2>2. CASE CannotJudge(g)
    BY <1>1, <2>2 DEF CannotJudge, IInv, Typing, WorkIsTheGates, Attended
  <2>3. CASE Judge(g)
    BY <1>1, <2>3 DEF Judge, Answered, IInv, Typing, WorkIsTheGates, Attended
  <2> QED
    BY <2>1, <2>2, <2>3
<1>8. BlindBlocks'
  BY <1>1 DEF List, CannotJudge, Judge, IInv, Typing, BlindBlocks, Attended, Blocked
<1>9. DecisionStays'
  BY <1>1 DEF List, CannotJudge, Judge, IInv, Typing, DecisionStays, SilenceIsAVerdict
<1> QED
  BY <1>2, <1>6, <1>7, <1>8, <1>9 DEF IInv

\* A unit takes a slot, looks, and gives it back; the suite runs.
LEMMA WorkKeepsIInv ==
  ASSUME IInv, NEW g \in Gates,
         RunSuite(g) \/ (\E f \in Files : Skip(g, f)) \/ (\E u \in Units : Take(g, u) \/ Check(g, u))
  PROVE  IInv'
<1> USE DEF repository, hook, gating
<1>1. UNCHANGED <<repository, hook, gate, still>>
  BY DEF RunSuite, Skip, Take, Check
<1>2. \A f \in Files : <<"secrets", f>> \in Units
  BY DEF Units
<1>3. Process(g) \in Gates \cup {Daemon} /\ Process(g)' = Process(g)
  BY <1>1 DEF Process
<1>4. Typing'
  <2>1. CASE RunSuite(g)
    BY <2>1 DEF RunSuite, IInv, Typing
  <2>2. ASSUME NEW f \in Files, Skip(g, f) PROVE Typing'
    BY <1>2, <2>2 DEF Skip, IInv, Typing
  <2>3. ASSUME NEW u \in Units, Take(g, u) PROVE Typing'
    BY <2>3 DEF Take, IInv, Typing
  <2>4. ASSUME NEW u \in Units, Check(g, u) PROVE Typing'
    BY <2>4 DEF Check, IInv, Typing
  <2> QED
    BY <2>1, <2>2, <2>3, <2>4
<1>5. BudgetCounts'
  <2>1. CASE RunSuite(g)
    <3>1. \A p : Holding(p)' = Holding(p)
      BY <1>1, <2>1 DEF RunSuite, Holding, Process
    <3> QED
      BY <2>1, <3>1 DEF RunSuite, IInv, BudgetCounts
  <2>2. ASSUME NEW f \in Files, Skip(g, f) PROVE BudgetCounts'
    <3>1. \A h \in Gates, u \in Units : unit'[h][u] = "held" <=> unit[h][u] = "held"
      BY <1>2, <2>2 DEF Skip, IInv, Typing
    <3>2. \A p : Holding(p)' = Holding(p)
      BY <1>1, <3>1 DEF Holding, Process
    <3> QED
      BY <2>2, <3>2 DEF Skip, IInv, BudgetCounts
  <2>3. ASSUME NEW u \in Units, Take(g, u) PROVE BudgetCounts'
    <3>1. Holding(Process(g))' = Holding(Process(g)) \cup {<<g, u>>} /\ <<g, u>> \notin Holding(Process(g))
      BY <1>1, <2>3 DEF Take, Holding, Process, IInv, Typing
    <3>2. \A p : p # Process(g) => Holding(p)' = Holding(p)
      BY <1>1, <2>3 DEF Take, Holding, Process, IInv, Typing
    <3>3. Cardinality(Holding(Process(g))') = Cardinality(Holding(Process(g))) + 1
      BY <3>1, HoldingFinite, FS_AddElement
    <3> QED
      BY <1>3, <2>3, <3>2, <3>3, GateAssumption DEF Take, IInv, BudgetCounts
  <2>4. ASSUME NEW u \in Units, Check(g, u) PROVE BudgetCounts'
    <3>1. Holding(Process(g))' = Holding(Process(g)) \ {<<g, u>>} /\ <<g, u>> \in Holding(Process(g))
      BY <1>1, <2>4 DEF Check, Holding, Process, IInv, Typing
    <3>2. \A p : p # Process(g) => Holding(p)' = Holding(p)
      BY <1>1, <2>4 DEF Check, Holding, Process, IInv, Typing
    <3>3. Cardinality(Holding(Process(g))') = Cardinality(Holding(Process(g))) - 1
      BY <3>1, HoldingFinite, FS_RemoveElement
    <3>4. Cardinality(Holding(Process(g))') \in Nat
      BY <3>1, HoldingFinite, FS_RemoveElement, FS_CardinalityType
    <3> QED
      BY <1>3, <2>4, <3>2, <3>3, <3>4, GateAssumption DEF Check, IInv, BudgetCounts
  <2> QED
    BY <2>1, <2>2, <2>3, <2>4
<1>6. WorkIsTheGates'
  <2>1. CASE RunSuite(g)
    BY <1>1, <2>1 DEF RunSuite, IInv, Typing, WorkIsTheGates, Attended
  <2>2. ASSUME NEW f \in Files, Skip(g, f) PROVE WorkIsTheGates'
    BY <1>1, <1>2, <2>2 DEF Skip, IInv, Typing, WorkIsTheGates, Attended
  <2>3. ASSUME NEW u \in Units, Take(g, u) PROVE WorkIsTheGates'
    BY <1>1, <2>3 DEF Take, IInv, Typing, WorkIsTheGates, Attended
  <2>4. ASSUME NEW u \in Units, Check(g, u) PROVE WorkIsTheGates'
    BY <1>1, <2>4 DEF Check, IInv, Typing, WorkIsTheGates, Attended
  <2> QED
    BY <2>1, <2>2, <2>3, <2>4
<1>7. BlindBlocks'
  <2>1. CASE RunSuite(g)
    BY <1>1, <2>1 DEF RunSuite, IInv, Typing, WorkIsTheGates, BlindBlocks, Attended, Blocked
  <2>2. ASSUME NEW f \in Files, Skip(g, f) PROVE BlindBlocks'
    <3>1. \A h \in Gates : Blocked(h) => Blocked(h)'
      BY <1>2, <2>2 DEF Skip, IInv, Typing, Blocked
    <3> QED
      BY <1>1, <2>2, <3>1 DEF Skip, IInv, BlindBlocks, Attended
  <2>3. ASSUME NEW u \in Units, Take(g, u) PROVE BlindBlocks'
    BY <1>1, <2>3 DEF Take, IInv, Typing, BlindBlocks, Attended, Blocked
  <2>4. ASSUME NEW u \in Units, Check(g, u) PROVE BlindBlocks'
    BY <1>1, <2>4 DEF Check, IInv, Typing, WorkIsTheGates, BlindBlocks, Attended, Blocked
  <2> QED
    BY <2>1, <2>2, <2>3, <2>4
<1>8. DecisionStays'
  <2>1. ASSUME NEW h \in Gates, gate[h] = "clean" PROVE blind'[h] = blind[h]
    <3>1. suite[h] # "waiting" /\ \A u \in Units : unit[h][u] \notin {"waiting", "held"}
      BY <2>1 DEF IInv, WorkIsTheGates
    <3>2. CASE h = g
      BY <1>2, <3>1, <3>2 DEF RunSuite, Skip, Take, Check
    <3>3. CASE h # g
      <4>1. blind' = blind \/ \E b : blind' = [blind EXCEPT ![g] = b]
        BY DEF RunSuite, Skip, Take, Check
      <4> QED
        BY <3>3, <4>1 DEF IInv, Typing
    <3> QED
      BY <3>2, <3>3
  <2> QED
    BY <1>1, <2>1 DEF IInv, DecisionStays, SilenceIsAVerdict
<1> QED
  BY <1>4, <1>5, <1>6, <1>7, <1>8 DEF IInv

LEMMA NextIInv == IInv /\ [Next]_vars => IInv'
<1> SUFFICES ASSUME IInv, [Next]_vars PROVE IInv'
  OBVIOUS
<1>1. CASE UNCHANGED vars
  <2>1. \A p : Holding(p)' = Holding(p)
    BY <1>1 DEF vars, repository, gating, Holding, Process
  <2> QED
    BY <1>1, <2>1
    DEF vars, repository, hook, gating, IInv, Typing, BudgetCounts, WorkIsTheGates, BlindBlocks,
        DecisionStays, SilenceIsAVerdict, Attended, Blocked
<1>2. CASE \E f \in Files : Stage(f) \/ \E c \in Contents \cup {Absent} : Edit(f, c)
  BY <1>2, TreeKeepsIInv
<1>3. ASSUME NEW g \in Gates, Hook(g) PROVE IInv'
  BY <1>3, AskingKeepsIInv, DecidingKeepsIInv DEF Hook
<1>4. ASSUME NEW g \in Gates, Gate(g) PROVE IInv'
  BY <1>4, JudgingKeepsIInv, WorkKeepsIInv DEF Gate
<1> QED
  BY <1>1, <1>2, <1>3, <1>4 DEF Next

-----------------------------------------------------------------------------

\* The variables keep their types, and no process has more units in flight
\* than the budget of parallel.Do.
THEOREM Typed == Spec => []TypeOK
<1>1. IInv => TypeOK
  BY DEF IInv, Typing, BudgetCounts, TypeOK
<1> QED
  BY InitIInv, NextIInv, <1>1, PTL DEF Spec

\* A commit PreToolUse lets through without a word was judged by a gate that
\* found nothing and whose every tool answered.
THEOREM SilenceJudged == Spec => []SilenceIsAVerdict
<1>1. IInv => SilenceIsAVerdict
  BY DEF IInv, DecisionStays
<1> QED
  BY InitIInv, NextIInv, <1>1, PTL DEF Spec

-----------------------------------------------------------------------------
(* A commit that is let through in silence. *)

\* What the legs look for in a file on disk, where they look.
Passable(f) ==
  /\ ~Secret(f, tree[f])
  /\ Adopted => ~Stops("format", f, tree[f]) /\ ~Failing(tree[f])

\* What a commit of the index would bring in, of what is on disk.
Coming(f) == tree[f] # Absent /\ head[f] # index[f]

\* Of a gate beside which nothing was edited or staged: what has passed would
\* pass now. A commit beside it leaves nothing coming.
PassedIsPassable ==
  \A g \in Gates : still[g] => \A f \in Files : Coming(f) =>
    /\ gate[g] = "clean" => Passable(f)
    /\ gate[g] = "checking" /\ Attended(g) =>
         /\ unit[g][<<"secrets", f>>] # "off"
         /\ unit[g][<<"secrets", f>>] = "passes" => ~Secret(f, tree[f])
         /\ Adopted => /\ f \in Formatted => unit[g][<<"format", f>>] # "off"
                       /\ unit[g][<<"format", f>>] = "passes" => ~Stops("format", f, tree[f])
                       /\ suite[g] # "off"
                       /\ suite[g] = "passes" => ~Failing(tree[f])

LEMMA CommitLeavesNothing ==
  ASSUME IInv, NEW g \in Gates, RunCommand(g), NEW f \in Files, Coming(f)'
  PROVE  UNCHANGED <<head, index>>
BY DEF RunCommand, Coming

LEMMA PassingStays == IInv /\ PassedIsPassable /\ [Next]_vars => PassedIsPassable'
<1> SUFFICES ASSUME IInv, PassedIsPassable, [Next]_vars PROVE PassedIsPassable'
  OBVIOUS
<1> USE DEF repository, hook, gating
<1>t. Typing /\ Typing'
  BY NextIInv DEF IInv
<1>u. \A f \in Files : <<"secrets", f>> \in Units /\ <<"format", f>> \in Units
  BY DEF Units
<1>s. ASSUME UNCHANGED <<setup, head, index, tree>>
      PROVE  UNCHANGED Adopted /\ \A f \in Files : /\ UNCHANGED <<Coming(f), Passable(f), Secret(f, tree[f])>>
                                                   /\ UNCHANGED <<Stops("format", f, tree[f]), Failing(tree[f])>>
  BY <1>s DEF Adopted, Coming, Passable, Secret, Stops, Failing
<1>1. ASSUME NEW f \in Files, Stage(f) \/ \E c \in Contents \cup {Absent} : Edit(f, c) PROVE PassedIsPassable'
  BY <1>1 DEF Stage, Edit, PassedIsPassable
<1>2. ASSUME NEW g \in Gates, RunCommand(g) PROVE PassedIsPassable'
  <2>1. CASE UNCHANGED <<head, index>>
    BY <1>2, <1>s, <1>t, <2>1 DEF RunCommand, PassedIsPassable, Attended, Typing
  <2>2. CASE ~UNCHANGED <<head, index>>
    BY <1>2, <2>2, CommitLeavesNothing DEF PassedIsPassable
  <2> QED BY <2>1, <2>2
<1>3. ASSUME NEW g \in Gates, Arrive(g) \/ RunGate(g) PROVE PassedIsPassable'
  BY <1>3, <1>s, <1>t DEF Arrive, RunGate, Asked, PassedIsPassable, Attended, Typing, IInv, DecisionStays
<1>4. ASSUME NEW g \in Gates, Unreadable(g) \/ NotOurs(g) \/ Bypassed(g) \/ Deadline(g) \/ Verdict(g)
      PROVE  PassedIsPassable'
  BY <1>4, <1>s, <1>t
  DEF Unreadable, NotOurs, Bypassed, Deadline, Verdict, Decide, Asked, PassedIsPassable, Attended, Typing
<1>5. ASSUME NEW g \in Gates, List(g) PROVE PassedIsPassable'
  <2>1. \A f \in Files : Coming(f) => f \in Changed
    BY DEF Coming, Changed
  <2>2. \A f \in Changed : /\ <<"secrets", f>> \in Work
                           /\ Adopted /\ f \in Formatted => <<"format", f>> \in Work
    BY <1>u DEF Work, Changed
  <2>a. \A v \in Units : unit'[g][v] = (IF v \in Work THEN "waiting" ELSE "off")
    <3>1. unit'[g] = [v \in Units |-> IF v \in Work THEN "waiting" ELSE "off"]
      BY <1>5, <1>t DEF List, Typing
    <3> QED BY <3>1
  <2>3. \A f \in Files : unit'[g][<<"secrets", f>>] # "passes" /\ unit'[g][<<"format", f>>] # "passes"
    BY <1>u, <2>a
  <2>4. \A f \in Changed : /\ unit'[g][<<"secrets", f>>] = "waiting"
                           /\ Adopted /\ f \in Formatted => unit'[g][<<"format", f>>] = "waiting"
    BY <1>u, <2>2, <2>a DEF Changed
  <2>5. /\ gate'[g] = (IF Changed = {} THEN "clean" ELSE "checking")
        /\ suite'[g] = (IF Adopted /\ Changed # {} THEN "waiting" ELSE "off")
    BY <1>5, <1>t DEF List, Typing
  <2>6. \A h \in Gates \ {g} : UNCHANGED <<gate[h], unit[h], suite[h], still[h], stage[h]>>
    BY <1>5, <1>t DEF List, Typing
  <2> SUFFICES ASSUME NEW h \in Gates, still'[h], NEW f \in Files, Coming(f)'
               PROVE  /\ gate'[h] = "clean" => Passable(f)'
                      /\ gate'[h] = "checking" /\ Attended(h)' =>
                           /\ unit'[h][<<"secrets", f>>] # "off"
                           /\ unit'[h][<<"secrets", f>>] = "passes" => ~Secret(f, tree[f])'
                           /\ Adopted' => /\ f \in Formatted => unit'[h][<<"format", f>>] # "off"
                                          /\ unit'[h][<<"format", f>>] = "passes" => ~Stops("format", f, tree[f])'
                                          /\ suite'[h] # "off"
                                          /\ suite'[h] = "passes" => ~Failing(tree[f])'
    BY DEF PassedIsPassable
  <2>7. Coming(f) /\ f \in Changed /\ UNCHANGED <<Adopted, setup>>
    BY <1>5, <1>s, <2>1 DEF List
  <2>8. CASE h = g
    BY <2>3, <2>4, <2>5, <2>7, <2>8
  <2>9. CASE h # g
    <3>1. UNCHANGED <<gate[h], unit[h], suite[h], still[h], stage[h]>>
      BY <2>6, <2>9
    <3>2. UNCHANGED <<Passable(f), Secret(f, tree[f]), Stops("format", f, tree[f]), Failing(tree[f])>>
      BY <1>5, <1>s DEF List
    <3> QED BY <2>7, <3>1, <3>2 DEF PassedIsPassable, Attended
  <2> QED BY <2>8, <2>9
<1>6. ASSUME NEW g \in Gates, CannotJudge(g) PROVE PassedIsPassable'
  BY <1>6, <1>s, <1>t DEF CannotJudge, PassedIsPassable, Attended, Typing
<1>7. ASSUME NEW g \in Gates, Judge(g) PROVE PassedIsPassable'
  <2>1. \A h \in Gates \ {g} : UNCHANGED gate[h]
    BY <1>7, <1>t DEF Judge, Typing
  <2>2. ASSUME still[g], gate'[g] = "clean", NEW f \in Files, Coming(f) PROVE Passable(f)
    <3>1. ~Blocked(g) /\ Answered(g) /\ gate[g] = "checking" /\ Attended(g)
      BY <1>7, <1>t, <2>2 DEF Judge, Typing
    <3>a. \A v \in Units : unit[g][v] \in {"off", "passes"}
      <4>1. \A v \in Units : unit[g][v] \in {"off", "waiting", "held", "passes", "blocks"}
        BY <1>t DEF Typing
      <4> QED BY <3>1, <4>1 DEF Blocked, Answered
    <3>2. ~Secret(f, tree[f])
      BY <1>u, <2>2, <3>1, <3>a DEF PassedIsPassable
    <3>3. ASSUME Adopted PROVE ~Stops("format", f, tree[f])
      <4>1. CASE f \in Formatted
        BY <1>u, <2>2, <3>1, <3>3, <3>a, <4>1 DEF PassedIsPassable
      <4>2. CASE f \notin Formatted
        BY <4>2 DEF Stops
      <4> QED BY <4>1, <4>2
    <3>4. ASSUME Adopted PROVE ~Failing(tree[f])
      BY <1>t, <2>2, <3>1, <3>4 DEF Blocked, Answered, PassedIsPassable, Typing
    <3> QED BY <3>2, <3>3, <3>4 DEF Passable
  <2>3. gate'[g] # "checking"
    BY <1>7, <1>t DEF Judge, Typing
  <2> QED BY <1>7, <1>s, <2>1, <2>2, <2>3 DEF Judge, PassedIsPassable, Attended
<1>8. ASSUME NEW g \in Gates, RunSuite(g) PROVE PassedIsPassable'
  <2>1. suite'[g] = "passes" => \A f \in Files : ~Failing(tree[f])
    BY <1>8, <1>t DEF RunSuite, Typing, Stops
  <2>2. suite'[g] # "off" /\ \A h \in Gates \ {g} : UNCHANGED suite[h]
    BY <1>8, <1>t DEF RunSuite, Typing
  <2> QED BY <1>8, <1>s, <2>1, <2>2 DEF RunSuite, PassedIsPassable, Attended
<1>9. ASSUME NEW g \in Gates, NEW f \in Files, Skip(g, f) PROVE PassedIsPassable'
  <2>1. ~Coming(f)
    BY <1>9 DEF Skip, Coming
  <2>2. \A h \in Gates, u \in Units : u # <<"secrets", f>> => UNCHANGED unit[h][u]
    BY <1>9, <1>t DEF Skip, Typing
  <2>3. \A e \in Files : Coming(e) => <<"secrets", e>> # <<"secrets", f>> /\ <<"format", e>> # <<"secrets", f>>
    BY <2>1
  <2> QED BY <1>9, <1>s, <1>u, <2>2, <2>3 DEF Skip, PassedIsPassable, Attended
<1>10. ASSUME NEW g \in Gates, NEW u \in Units, Take(g, u) PROVE PassedIsPassable'
  <2>1. unit'[g][u] = "held" /\ \A h \in Gates, v \in Units : h # g \/ v # u => UNCHANGED unit[h][v]
    BY <1>10, <1>t DEF Take, Typing
  <2> QED BY <1>10, <1>s, <1>u, <2>1 DEF Take, PassedIsPassable, Attended
<1>11. ASSUME NEW g \in Gates, NEW u \in Units, Check(g, u) PROVE PassedIsPassable'
  <2>1. /\ unit'[g][u] \in {"passes", "blocks"} /\ (unit'[g][u] = "passes" => ~Stops(u[1], u[2], tree[u[2]]))
        /\ \A h \in Gates, v \in Units : h # g \/ v # u => UNCHANGED unit[h][v]
    BY <1>11, <1>t DEF Check, Typing
  <2>2. \A f \in Files : /\ u = <<"secrets", f>> /\ unit'[g][u] = "passes" => ~Secret(f, tree[f])
                         /\ u = <<"format", f>> /\ unit'[g][u] = "passes" => ~Stops("format", f, tree[f])
    BY <2>1 DEF Stops
  <2> QED BY <1>11, <1>s, <1>u, <2>1, <2>2 DEF Check, PassedIsPassable, Attended
<1>12. CASE UNCHANGED vars
  BY <1>12, <1>s DEF vars, PassedIsPassable, Attended
<1> QED
  BY <1>1, <1>2, <1>3, <1>4, <1>5, <1>6, <1>7, <1>8, <1>9, <1>10, <1>11, <1>12 DEF Next, Hook, Gate

\* A commit that PreToolUse lets through without a word, beside which nothing
\* was edited or staged, brings in no content its legs would have stopped, for
\* any files, any commands and any budget.
THEOREM QuietIsClean == Spec => QuietCommitIsClean
<1> DEFINE Clean ==
      \A g \in Gates :
        stage[g] = "decided" /\ stage'[g] = "over" /\ decision[g] = "silent"
          /\ command[g] \in Commits /\ setup.policy # "off" /\ Quiet(g) =>
            \A f \in Files : head'[f] # head[f] /\ head'[f] # Absent =>
              /\ ~Secret(f, head'[f])
              /\ Adopted => ~Stops("format", f, head'[f]) /\ ~Failing(head'[f])
<1>1. Init => PassedIsPassable
  BY DEF Init, PassedIsPassable
<1>2. IInv /\ PassedIsPassable /\ [Next]_vars => [Clean]_vars
  <2> SUFFICES ASSUME IInv, PassedIsPassable, Next, NEW g \in Gates, NEW f \in Files,
                      stage[g] = "decided", stage'[g] = "over", decision[g] = "silent",
                      command[g] \in Commits, setup.policy # "off", Quiet(g),
                      head'[f] # head[f], head'[f] # Absent
               PROVE  ~Secret(f, head'[f]) /\ (Adopted => ~Stops("format", f, head'[f]) /\ ~Failing(head'[f]))
    OBVIOUS
  <2>1. RunCommand(g)
    <3>1. stage' # stage
      OBVIOUS
    <3>2. ASSUME NEW h \in Gates, Gate(h) PROVE FALSE
      BY <3>1, <3>2 DEF Gate, List, CannotJudge, RunSuite, Judge, Take, Check, Skip, hook
    <3>3. ASSUME NEW h \in Gates, Hook(h), ~RunCommand(h) PROVE FALSE
      <4>1. stage'[h] # "over"
        BY <3>3 DEF Hook, Arrive, Unreadable, NotOurs, Bypassed, RunGate, Deadline, Verdict, Decide, Asked, hook,
                    IInv, Typing
      <4>2. \A k \in Gates \ {h} : stage'[k] = stage[k]
        BY <3>3 DEF Hook, Arrive, Unreadable, NotOurs, Bypassed, RunGate, Deadline, Verdict, Decide, hook, IInv, Typing
      <4> QED BY <4>1, <4>2
    <3>4. ASSUME NEW h \in Gates, RunCommand(h) PROVE h = g
      BY <3>4 DEF RunCommand, IInv, Typing
    <3>5. ASSUME NEW e \in Files, Stage(e) \/ \E c \in Contents \cup {Absent} : Edit(e, c) PROVE FALSE
      BY <3>1, <3>5 DEF Stage, Edit, hook
    <3> QED BY <3>2, <3>3, <3>4, <3>5 DEF Next
  <2>2. head'[f] = tree[f] /\ index[f] = tree[f]
    BY <2>1 DEF RunCommand, Committed, Quiet, IInv, Typing
  <2>3. Coming(f)
    BY <2>2 DEF Coming
  <2>4. gate[g] = "clean" /\ still[g]
    BY DEF IInv, DecisionStays, SilenceIsAVerdict, Quiet
  <2>5. Passable(f)
    BY <2>3, <2>4 DEF PassedIsPassable
  <2> QED BY <2>2, <2>5 DEF Passable
<1> QED
  BY InitIInv, NextIInv, PassingStays, <1>1, <1>2, PTL DEF Spec, QuietCommitIsClean
=============================================================================
