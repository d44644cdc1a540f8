------------------------------ MODULE CodeIndex ------------------------------
(***************************************************************************)
(* The broad tier of the code index (internal/codeindex/codeindex.go,      *)
(* query.go, refresh.go): a build reads every file and says which commit   *)
(* it was built from; the hook after a write puts one file's lines in      *)
(* place of the old ones. Each save is whole and under the file's lock,    *)
(* but what is saved was read before it, so hooks, builds, editors and     *)
(* commits may come between.                                               *)
(***************************************************************************)
EXTENDS Naturals, FiniteSets

CONSTANTS
  Hooks,       \* sessions whose writes the hook follows
  Builders,    \* runs of `index build`, or of the gate
  Files,       \* code files
  Escaped,     \* files whose name JSON writes with an escape: &, < or >
  MaxVersion,  \* bound: how often a file changes
  MaxHead,     \* bound: how often HEAD moves
  Absent

ASSUME IndexAssumption ==
  /\ Escaped \subseteq Files /\ MaxVersion \in Nat \ {0} /\ MaxHead \in Nat \ {0}
  /\ Absent \notin Files \cup (1 .. MaxHead)
  /\ Hooks \cap Builders = {} /\ "index" \notin Hooks \cup Builders

VARIABLES
  tree,        \* how often each file changed: odd while it is there, even while it is not
  atHead,      \* HEAD
  tags,        \* the lines <<file, version>> of the tags file, or Absent
  meta,        \* the commit the index says it was built from, or Absent
  refresh,     \* a hook: where it is, its file, what ctags said, the old lines
  build,       \* a build: where it is, the files it listed, the lines ctags gave
  undisturbed  \* builds that nothing happened beside, and "index" when that
               \* holds of everything since the last of those

indexVars == <<tree, atHead, tags, meta, refresh, build, undisturbed>>

NoRefresh == [at |-> "idle", file |-> Absent, fresh |-> {}, old |-> {}]
NoBuild == [at |-> "idle", listed |-> {}, lines |-> {}]

IndexInit ==
  /\ tree = [f \in Files |-> 1]
  /\ atHead = 1
  /\ tags = Absent /\ meta = Absent
  /\ refresh = [h \in Hooks |-> NoRefresh]
  /\ build = [b \in Builders |-> NoBuild]
  /\ undisturbed = {}

There == {f \in Files : tree[f] % 2 = 1}
Lines(fs) == {<<f, tree[f]>> : f \in fs \cap There}
Written(f) == tree[f] + (IF f \in There THEN 2 ELSE 1)
Write(f) == Written(f) <= MaxVersion /\ tree' = [tree EXCEPT ![f] = Written(f)]
Active(x) == IF x \in Hooks THEN refresh[x].at # "idle" ELSE build[x].at # "idle"
Alone(x) == \A y \in (Hooks \cup Builders) \ {x} : ~Active(y)

\* x does something to the tree or the index: whoever is at work beside it is
\* disturbed, and so is the index, unless x is alone.
Beside(x) == {y \in undisturbed : y = x \/ (y = "index" /\ Alone(x))}

-----------------------------------------------------------------------------
(* Refresh, after the agent's tool has written a file *)

Refreshing(h, l) == refresh' = [refresh EXCEPT ![h].at = l]
EndRefresh(h) == refresh' = [refresh EXCEPT ![h] = NoRefresh]

AgentWrites(h, f) ==
  /\ refresh[h].at = "idle"
  /\ Write(f)
  /\ refresh' = [refresh EXCEPT ![h] = [NoRefresh EXCEPT !.at = "stat", !.file = f]]
  /\ undisturbed' = Beside(h)
  /\ UNCHANGED <<atHead, tags, meta, build>>

\* An index is never created uninvited; a ctags that is missing, fails or takes
\* too long leaves it as it is.
RunCtags(h) ==
  /\ refresh[h].at = "stat"
  /\ \/ /\ tags # Absent /\ refresh[h].file \in There
        /\ refresh' = [refresh EXCEPT ![h].at = "load", ![h].fresh = Lines({refresh[h].file})]
        /\ UNCHANGED undisturbed
     \/ EndRefresh(h) /\ undisturbed' = undisturbed \ {"index"}
  /\ UNCHANGED <<tree, atHead, tags, meta, build>>

LoadTags(h) ==
  /\ refresh[h].at = "load"
  /\ refresh' = [refresh EXCEPT ![h].at = "save", ![h].old = tags]
  /\ UNCHANGED <<tree, atHead, tags, meta, build, undisturbed>>

\* The lines that name the file: the path is looked for as it is spelled.
LinesOf(f, lines) == {l \in lines : l[1] = f /\ f \notin Escaped}

\* Mutant: the fresh lines are added to the old ones.
SaveAppended(h) ==
  /\ refresh[h].at = "save"
  /\ \/ tags' = refresh[h].old \cup refresh[h].fresh /\ undisturbed' = Beside(h)
     \/ UNCHANGED tags /\ undisturbed' = undisturbed \ {"index"}
  /\ EndRefresh(h)
  /\ UNCHANGED <<tree, atHead, meta, build>>

SaveRefreshed(h) ==
  /\ refresh[h].at = "save"
  /\ \/ /\ tags' = (refresh[h].old \ LinesOf(refresh[h].file, refresh[h].old)) \cup refresh[h].fresh
        /\ undisturbed' = Beside(h)
     \/ UNCHANGED tags /\ undisturbed' = undisturbed \ {"index"}
  /\ EndRefresh(h)
  /\ UNCHANGED <<tree, atHead, meta, build>>

Refresh(h) == RunCtags(h) \/ LoadTags(h) \/ SaveRefreshed(h)

-----------------------------------------------------------------------------
(* Build *)

Building(b, l) == build' = [build EXCEPT ![b].at = l]
FailBuild(b) == build' = [build EXCEPT ![b] = NoBuild] /\ undisturbed' = undisturbed \ {b}

\* By hand, or at a gate: RebuildIfStale, for an index that is there and says
\* another commit than HEAD.
StartBuild(b) ==
  /\ build[b].at = "idle"
  /\ build' = [build EXCEPT ![b] = [NoBuild EXCEPT !.at = "list"]]
  /\ undisturbed' = Beside(b) \cup (IF Alone(b) THEN {b} ELSE {})
  /\ UNCHANGED <<tree, atHead, tags, meta, refresh>>

RebuildIfStale(b) == tags # Absent /\ meta # atHead /\ StartBuild(b)

ListFiles(b) ==
  /\ build[b].at = "list"
  /\ \/ build' = [build EXCEPT ![b].at = "read", ![b].listed = There] /\ UNCHANGED undisturbed
     \/ FailBuild(b)
  /\ UNCHANGED <<tree, atHead, tags, meta, refresh>>

\* ctags comes to a file; a file that is gone by then has no lines.
ReadFile(b) ==
  /\ build[b].at = "read"
  /\ \E f \in build[b].listed :
       build' = [build EXCEPT ![b].listed = @ \ {f}, ![b].lines = @ \cup Lines({f})]
  /\ UNCHANGED <<tree, atHead, tags, meta, refresh, undisturbed>>

\* ctags answered, in time, and its lines are saved.
SaveTags(b) ==
  /\ build[b].at = "read" /\ build[b].listed = {}
  /\ \/ tags' = build[b].lines /\ Building(b, "meta") /\ undisturbed' = Beside(b)
     \/ FailBuild(b) /\ UNCHANGED tags
  /\ UNCHANGED <<tree, atHead, meta, refresh>>

\* After the precise tier, for as long as that takes, HEAD is asked for.
SaveMeta(b) ==
  /\ build[b].at = "meta"
  /\ \/ /\ meta' = atHead
        /\ undisturbed' = (undisturbed \ {b}) \cup (IF b \in undisturbed THEN {"index"} ELSE {})
        /\ build' = [build EXCEPT ![b] = NoBuild]
     \/ FailBuild(b) /\ UNCHANGED meta
  /\ UNCHANGED <<tree, atHead, tags, refresh>>

Build(b) == StartBuild(b) \/ RebuildIfStale(b) \/ ListFiles(b) \/ ReadFile(b) \/ SaveTags(b) \/ SaveMeta(b)

-----------------------------------------------------------------------------
(* The world *)

\* A file written or removed without the hook: an editor, a script.
EditElsewhere(f) ==
  /\ \/ Write(f)
     \/ f \in There /\ tree[f] < MaxVersion /\ tree' = [tree EXCEPT ![f] = @ + 1]
  /\ undisturbed' = {}
  /\ UNCHANGED <<atHead, tags, meta, refresh, build>>

\* A commit of the tree as it is, or a pull that brings new files with it.
MoveHead ==
  /\ atHead < MaxHead
  /\ atHead' = atHead + 1
  /\ \/ UNCHANGED <<tree, undisturbed>>
     \/ \E f \in Files : Write(f) /\ undisturbed' = {}
  /\ UNCHANGED <<tags, meta, refresh, build>>

IndexNext ==
  \/ \E h \in Hooks : Refresh(h) \/ \E f \in Files : AgentWrites(h, f)
  \/ \E b \in Builders : Build(b)
  \/ \E f \in Files : EditElsewhere(f)
  \/ MoveHead

IndexSpec == IndexInit /\ [][IndexNext]_indexVars

-----------------------------------------------------------------------------
(* Properties *)

IndexTypeOK ==
  /\ tree \in [Files -> 1 .. MaxVersion] /\ atHead \in 1 .. MaxHead
  /\ tags = Absent \/ tags \subseteq Files \X (1 .. MaxVersion)
  /\ meta \in {Absent} \cup 1 .. MaxHead
  /\ undisturbed \subseteq Builders \cup {"index"}

\* What an undisturbed build makes, and hooks one at a time keep up, is the
\* tree: each file's lines are of the version that is there, and of no other,
\* whatever mess of lost and half-done refreshes was in the index before.
IndexIsTheTree ==
  "index" \in undisturbed /\ (\A x \in Hooks \cup Builders : ~Active(x)) =>
    /\ {l \in tags : l[1] \notin Escaped} = Lines(Files \ Escaped)
    /\ Lines(Escaped) \subseteq tags
=============================================================================
