------------------------------- MODULE EnvSync -------------------------------
(***************************************************************************)
(* The environment a developer last set up (internal/envsync): what a walk *)
(* of the repository sees of its lockfiles, migration directories and      *)
(* environment examples, the baseline that `env --sync` records of it, and *)
(* what a later `env` says has changed. A path is a sequence of names; a   *)
(* tree gives each directory and each file its kind, whether it can be     *)
(* read, and its text.                                                     *)
(***************************************************************************)
EXTENDS Naturals, Sequences, SequencesExt

CONSTANT MaxDepth    \* the number of directories above a file that is looked at

\* The directories above a path, the repository's own first.
Above(path) == {SubSeq(path, 1, n) : n \in 0 .. Len(path) - 1}

-----------------------------------------------------------------------------
(* scanTree *)

\* A directory is entered if it is neither a cache nor ignored by git, nor too deep.
Entered(tree, dir) == dir = <<>> \/ (tree.dirs[dir].kind \notin {"cache", "ignored"} /\ Len(dir) <= MaxDepth)

\* The walk gets to a path through directories that it enters and can read; it does
\* not go into migrations.
Reached(tree, path) ==
  \A d \in Above(path) : Entered(tree, d) /\ tree.dirs[d].kind = "plain" /\ tree.dirs[d].readable

ReachedDirs(tree, kind) ==
  {d \in DOMAIN tree.dirs : d # <<>> /\ tree.dirs[d].kind = kind /\ Reached(tree, d) /\ Entered(tree, d)}
ReachedFiles(tree, kind) == {f \in DOMAIN tree.files : tree.files[f].kind = kind /\ Reached(tree, f)}

Local(example) == Append(Front(example), ".env")

\* readEnvExample: the keys of both, unless one is there and cannot be read.
Unread(tree) ==
  {f \in ReachedFiles(tree, "lock") \cup ReachedFiles(tree, "example") : ~tree.files[f].readable}
    \cup {d \in ReachedDirs(tree, "plain") \cup ReachedDirs(tree, "migrations") : ~tree.dirs[d].readable}
    \cup {Local(e) : e \in {e \in ReachedFiles(tree, "example") :
            tree.files[e].readable /\ Local(e) \in DOMAIN tree.files /\ ~tree.files[Local(e)].readable}}

ScanTree(tree) ==
  [lockfiles |-> [f \in {f \in ReachedFiles(tree, "lock") : tree.files[f].readable} |-> tree.files[f].text],
   migrations |-> [d \in {d \in ReachedDirs(tree, "migrations") : tree.dirs[d].readable} |-> tree.dirs[d].entries],
   envKeys |-> [e \in {e \in ReachedFiles(tree, "example") : tree.files[e].readable /\ Local(e) \notin Unread(tree)} |->
                  tree.files[e].text \ (IF Local(e) \in DOMAIN tree.files THEN tree.files[Local(e)].text ELSE {})],
   unchecked |-> Unread(tree)]

-----------------------------------------------------------------------------
(* Run *)

Lines(set, what) == {<<what, path>> : path \in set}

\* reportLockfiles: by digest.
ReportLockfiles(base, cur) ==
  LET was == base.lockfiles  now == cur.lockfiles
  IN  Lines(DOMAIN was \ DOMAIN now, "gone") \cup Lines(DOMAIN now \ DOMAIN was, "new")
      \cup Lines({f \in DOMAIN was \cap DOMAIN now : was[f] # now[f]}, "changed")

\* reportMigrations: entries, of a directory that is new against none.
ReportMigrations(base, cur) ==
  LET was == base.migrations  now == cur.migrations
      Were(d) == IF d \in DOMAIN was THEN was[d] ELSE {}
  IN  Lines(DOMAIN was \ DOMAIN now, "gone")
      \cup Lines({d \in DOMAIN now : Were(d) \ now[d] # {}}, "changed")
      \cup Lines({d \in DOMAIN now : Were(d) \subseteq now[d] /\ Were(d) # now[d]}, "added")

\* reportEnvKeys: against the developer's own file, not the baseline.
ReportEnvKeys(cur) == Lines({e \in DOMAIN cur.envKeys : cur.envKeys[e] # {}}, "declared")

\* The baseline is none, one that cannot be read, or a recorded scan.
Baseline(state, scan) == [state |-> state, scan |-> scan]

\* Run: `env --sync` records what it could see, whatever it could not.
Sync(tree, base, saves) ==
  LET cur == ScanTree(tree)
  IN  IF ~saves THEN [code |-> 1, base |-> base, lines |-> {}]
      ELSE [code |-> IF cur.unchecked = {} THEN 0 ELSE 1, base |-> Baseline("recorded", cur), lines |-> Lines(cur.unchecked, "unchecked")]

\* Run: `env` against the baseline, with none, or with one that cannot be read.
Check(tree, base) ==
  LET cur == ScanTree(tree)
      code == IF cur.unchecked = {} THEN 0 ELSE 1
      unchecked == Lines(cur.unchecked, "unchecked")
  IN  CASE base.state = "unreadable" -> [code |-> 1, lines |-> {}]
        [] base.state = "none" ->
             [code |-> code, lines |-> unchecked \cup Lines(DOMAIN cur.lockfiles \cup DOMAIN cur.migrations \cup DOMAIN cur.envKeys, "tracked")]
        [] base.state = "recorded" ->
             [code |-> code,
              lines |-> ReportLockfiles(base.scan, cur) \cup ReportMigrations(base.scan, cur) \cup ReportEnvKeys(cur) \cup unchecked]

-----------------------------------------------------------------------------
(* Properties of one input *)

\* What the project's own files are: below no cache, migrations or ignored tree.
Ours(tree, path) ==
  Len(path) <= MaxDepth + 1 /\ \A d \in Above(path) \ {<<>>} : d \in DOMAIN tree.dirs /\ tree.dirs[d].kind = "plain"
Own(tree, kind) == {f \in DOMAIN tree.files : tree.files[f].kind = kind /\ Ours(tree, f)}

\* A path, or a directory above it, is said not to have been looked at.
SaidUnchecked(said, path) == \E d \in Above(path) \cup {path} : <<"unchecked", d>> \in said

\* env: "a file or directory it cannot read becomes a NOT-checked line - never a
\* silently missing entry" (envsync.go:263): a lockfile or a migration that differs
\* from the last sync is said to, unless the sync or this run said that it had not
\* been looked at; a run that looked at all exits 0, says nothing of files that are
\* not the project's, and nothing new of a tree that is as it was.
DifferencesAreSaid(then, now, synced, said) ==
  LET Text(tree, f) == IF f \in Own(tree, "lock") THEN tree.files[f].text ELSE "none"
      Entries(tree, d) == IF d \in DOMAIN tree.dirs /\ tree.dirs[d].kind = "migrations" /\ Ours(tree, d) /\ Len(d) <= MaxDepth
                          THEN tree.dirs[d].entries ELSE {}
      Excused(path) == SaidUnchecked(synced.lines, path) \/ SaidUnchecked(said.lines, path)
      Named(path) == \E line \in said.lines : line[2] = path
  IN  /\ \A f \in DOMAIN then.files \cup DOMAIN now.files : Text(then, f) # Text(now, f) => Named(f) \/ Excused(f)
      /\ \A d \in DOMAIN then.dirs \cup DOMAIN now.dirs : Entries(then, d) # Entries(now, d) => Named(d) \/ Excused(d)
      /\ \A e \in Own(now, "example") :
           (IF Local(e) \in DOMAIN now.files THEN now.files[Local(e)].text ELSE {}) \cap now.files[e].text # now.files[e].text
             => Named(e) \/ SaidUnchecked(said.lines, e) \/ SaidUnchecked(said.lines, Local(e))
      /\ said.code = 0 <=> ~ \E line \in said.lines : line[1] = "unchecked"
      /\ \A line \in said.lines : Ours(then, line[2]) \/ Ours(now, line[2])
      /\ then = now /\ synced.code = 0 => \A line \in said.lines : line[1] = "declared"
==============================================================================
