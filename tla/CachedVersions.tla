--------------------------- MODULE CachedVersions ---------------------------
(***************************************************************************)
(* The cached versions of the plugin that `prune` removes                  *)
(* (internal/plugincache): what the installer's record says is in use, the *)
(* window that is kept, and what a sweep takes. An entry of the cache is   *)
(* its name, read as numbers between dots with or without a "v" before     *)
(* them, whether it is a directory, its size and whether it can go.        *)
(***************************************************************************)
EXTENDS Naturals, Sequences, FiniteSets, FiniteSetsExt

\* parseVersion: at least two numbers.
IsVersion(name) == Len(name.numbers) >= 2

Number(name, i) == IF i <= Len(name.numbers) THEN name.numbers[i] ELSE 0

\* compareVersions: the first number that differs, those that are missing being 0.
Older(a, b) ==
  \E i \in 1 .. Len(a.numbers) + Len(b.numbers) :
     /\ Number(a, i) < Number(b, i)
     /\ \A j \in 1 .. i - 1 : Number(a, j) = Number(b, j)

\* ActiveVersion: the first version that an entry of ours names, whichever of the
\* record's names the map is asked for first.
ActiveVersions(registry) ==
  IF ~registry.readable THEN {}
  ELSE {p.versions[i] : p \in {p \in registry.plugins : p.ours /\ p.versions # <<>>}, i \in {1}}

Versions(cache) == {e.name : e \in {e \in cache.entries : e.directory /\ IsVersion(e.name)}}

\* Windows as they would be, were they anchored on the newest version.
WindowsFromNewest(versions, active) ==
  {{v, w} : v \in {v \in versions : \A w \in versions : ~Older(v, w)}, w \in {active}}

\* Keep, which is 2: the windows that may be kept, the active version and an older one
\* that none is newer than. Which, of two that compare as equal, is the sort's choice.
Windows(versions, active) ==
  LET older == {v \in versions : Older(v, active)}
      newest == {v \in older : \A w \in older : ~Older(v, w)}
  IN  IF older = {} THEN {{active}} ELSE {{active, previous} : previous \in newest}

Plan(kept, removable) == [refused |-> FALSE, kept |-> kept, removable |-> removable]
Refusal == [refused |-> TRUE, kept |-> {}, removable |-> {}]

\* Compute, by the two protections: what the record names, and what this binary
\* runs from.
Plans(cache, active, running) ==
  LET versions == Versions(cache)
  IN  IF cache.state = "missing" THEN {Plan({}, {})}
      ELSE IF cache.state = "unreadable" THEN {Refusal}
      ELSE IF active \notin versions THEN {Plan(versions, {})}
      ELSE {Plan(kept \cup ({running} \cap versions), versions \ (kept \cup {running})) :
                       kept \in Windows(versions, active)}

Compute(cache, running) ==
  IF ActiveVersions(cache.registry) = {} THEN {Refusal}
  ELSE UNION {Plans(cache, active, running) : active \in ActiveVersions(cache.registry)}

\* dirSize, of each that goes.
DirSizes(entries) == MapThenSumSet(LAMBDA e : e.size, entries)

\* Apply: what cannot go is named and stops nothing; what is reclaimed is what went.
Apply(entries, plan) ==
  LET gone == {e \in entries : e.directory /\ e.name \in plan.removable /\ e.goes}
  IN  [left |-> entries \ gone, removed |-> {e.name : e \in gone},
       reclaimed |-> DirSizes(gone), failures |-> plan.removable \ {e.name : e \in gone}]

\* pruneCmd, which reports unless it is told to apply.
PruneBy(entries, plan, apply) ==
  LET untouched == [left |-> entries, removed |-> {}, reclaimed |-> 0, failures |-> {}]
      swept == Apply(entries, plan)
  IN  IF plan.refused THEN [code |-> 2, kept |-> {}, sweep |-> untouched]
      ELSE IF plan.removable = {} \/ ~apply THEN [code |-> 0, kept |-> plan.kept, sweep |-> untouched]
      ELSE [code |-> IF swept.failures # {} THEN 1 ELSE 0, kept |-> plan.kept, sweep |-> swept]

Prune(cache, running, apply) == {PruneBy(cache.entries, plan, apply) : plan \in Compute(cache, running)}

-----------------------------------------------------------------------------
(* Properties of one sweep *)

\* `prune`: "removing too much leaves somebody with no working install and no
\* rollback" (plugincache.go:12). Where every entry of the record agrees on the
\* version in use, it stays, and the version that runs, and one to go back to with
\* none newer before the one in use; so does what is no version. Nothing goes
\* unasked, on an unknown or absent version, or uncounted.
SweepLeavesAWayBack(cache, running, apply, pruned) ==
  LET left == pruned.sweep.left
      gone == cache.entries \ left
      names == {e.name : e \in left}
      used == ActiveVersions(cache.registry)
      before(active) == {v \in Versions(cache) : Older(v, active)}
  IN  /\ pruned.sweep.removed = {e.name : e \in gone}
      /\ pruned.sweep.reclaimed = DirSizes(gone)
      /\ \A e \in gone : e.directory /\ IsVersion(e.name) /\ e.goes /\ e.name # running
      /\ used = {} => pruned.code = 2
      /\ gone # {} => apply /\ pruned.code # 2
      /\ Cardinality(used) = 1 => \A active \in used :
           /\ gone # {} => active \in names
           /\ before(active) # {} =>
                \E v \in names \cap before(active) : \A w \in before(active) : ~Older(v, w)
           /\ \* What may go, goes.
              apply /\ pruned.code = 0 /\ active \in Versions(cache) =>
                Cardinality(Versions([cache EXCEPT !.entries = left]) \ {active, running}) <= 1
=============================================================================
