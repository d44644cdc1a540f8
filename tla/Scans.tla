-------------------------------- MODULE Scans --------------------------------
(***************************************************************************)
(* What the security legs make of their scanners' answers                  *)
(* (internal/security/security.go): gitleaks over files or over a mirrored *)
(* tree, semgrep over the tree behind two slots, osv-scanner over the      *)
(* dependency manifests that are the repository's own. A path is a         *)
(* sequence of names; a finding without a file is about the scan itself.   *)
(***************************************************************************)
EXTENDS Naturals, Sequences, SequencesExt, FiniteSets

CONSTANTS
  PythonLocks,   \* lock files that pin a pyproject.toml
  MaxIncludes    \* how many files one semgrep call is told apart

Nowhere == <<"nowhere">>
Hit(file, blocks) == [file |-> file, blocking |-> blocks, checked |-> TRUE]
NotScanned(file) == [file |-> file, blocking |-> TRUE, checked |-> FALSE]

\* A scanner is late, leaves no report or one that cannot be read, or reports.
Silences == {"late", "no report", "unreadable"}
Answers(hits) == [said : Silences, hits : {{}}] \cup [said : {"report"}, hits : SUBSET hits]

-----------------------------------------------------------------------------
(* Secrets *)

\* scanOne: a gitleaks without `dir` is asked again the old way; the exit code
\* is ignored, the report decides.
ScanOne(src, answer, legacy) ==
  LET last == IF answer.said = "no dir" THEN legacy ELSE answer
  IN  IF last.said \in Silences THEN {NotScanned(src)} ELSE {Hit(h, TRUE) : h \in last.hits}

\* One process per path that is there.
Secrets(installed, there, answers, legacy) ==
  IF ~installed THEN {NotScanned(Nowhere)}
  ELSE UNION {ScanOne(p, answers[p], legacy) : p \in there}

\* The audit's one pass over a mirror of the files: those that could not be put
\* there are counted, symlinks and what lies outside are not.
SecretsTree(installed, staging, files, answer) ==
  LET staged == {f \in DOMAIN files : files[f] = "staged"}
      skipped == {f \in DOMAIN files : files[f] = "skipped"}
  IN  IF ~installed \/ ~staging THEN {NotScanned(Nowhere)}
      ELSE (IF skipped = {} THEN {} ELSE {NotScanned(Nowhere)})
           \cup (IF staged = {} THEN {} ELSE ScanOne(Nowhere, answer, answer))

-----------------------------------------------------------------------------
(* SAST *)

Rank == [s \in {"INFO", "WARNING", "ERROR"} |-> CASE s = "INFO" -> 0 [] s = "WARNING" -> 1 [] s = "ERROR" -> 2]

\* A severity semgrep did not have yet never blocks; a bar nobody knows is ERROR.
SeverityAtLeast(found, bar) ==
  /\ found \in DOMAIN Rank
  /\ Rank[found] >= (IF bar \in DOMAIN Rank THEN Rank[bar] ELSE Rank["ERROR"])

\* The repository's slot first, then one of the machine's: each is "taken",
\* "busy" for the whole budget, or its files cannot be used.
SlotBusy(repo, machine) == repo = "busy" \/ (repo = "taken" /\ machine = "busy")

\* The files semgrep is told to look at, or the whole tree.
IncludesFor(changed, tree) ==
  IF Cardinality(changed) > MaxIncludes \/ <<>> \in changed THEN tree ELSE changed

Sast(installed, repo, machine, bar, answer) ==
  IF ~installed \/ SlotBusy(repo, machine) \/ answer.said \in Silences THEN {NotScanned(Nowhere)}
  ELSE {Hit(h.file, SeverityAtLeast(h.severity, bar)) : h \in answer.hits}

\* SastChangedWithin: what cannot be placed belongs to the commit.
SastChanged(changed, findings) ==
  IF changed = {} THEN {} ELSE {f \in findings : f.file = Nowhere \/ f.file \in changed}

-----------------------------------------------------------------------------
(* Dependencies: a repository is the set of its files, [dir, name, state] *)

NpmLocks == {"package-lock.json", "yarn.lock", "pnpm-lock.yaml"}
DepManifests == NpmLocks \cup {"go.mod", "requirements.txt", "poetry.lock", "Pipfile.lock", "uv.lock"}
ManifestDirs == {"vendor", "node_modules", "dist"}

\* dependencyFiles: what git tracks or would; without git all that a walk finds
\* outside other checkouts; never vendored copies, seen from `root`.
DependencyFiles(repo, root, names) ==
  {f \in repo.files :
     /\ f.name \in names /\ IsPrefix(root, f.dir)
     /\ ToSet(SubSeq(f.dir, Len(root) + 1, Len(f.dir))) \cap ManifestDirs = {}
     /\ f.state = "there" \/ (~repo.git /\ f.state = "ignored")}

Beside(repo, dir, names) == \E f \in DependencyFiles(repo, dir, names) : f.dir = dir

\* One pattern of names, "*" and "**", against a path; the empty one is no pattern.
MatchGlobSegments(pattern, path) ==
  LET rest[i \in 1 .. Len(pattern) + 1, j \in 1 .. Len(path) + 1] ==
        IF i > Len(pattern) THEN j > Len(path)
        ELSE IF pattern[i] = "**" THEN \E k \in j .. Len(path) + 1 : rest[i + 1, k]
        ELSE j <= Len(path) /\ pattern[i] \in {"*", path[j]} /\ rest[i + 1, j + 1]
  IN  pattern # <<>> /\ rest[1, 1]

\* A negation filters the whole set, wherever it stands.
WorkspaceGlobsMatch(globs, path) ==
  LET Hits(not) == \E i \in DOMAIN globs : globs[i].not = not /\ MatchGlobSegments(globs[i].pattern, path)
  IN  Hits(FALSE) /\ ~Hits(TRUE)

\* npmWorkspaceCovers: some directory above, in the repository, has a lock file
\* and lists this one among its members.
NpmWorkspaceCovers(repo, dir) ==
  \E n \in 0 .. Len(dir) - 1 :
    LET above == SubSeq(dir, 1, n) IN
      /\ Beside(repo, above, NpmLocks)
      /\ WorkspaceGlobsMatch(repo.members[above], SubSeq(dir, n + 1, Len(dir)))

\* A manifest that cannot be parsed is taken to declare something.
Declares(f) == f.says \in {"dependencies", "garbage"}

NpmGaps(repo) ==
  {f \in DependencyFiles(repo, <<>>, {"package.json"}) :
     Declares(f) /\ ~Beside(repo, f.dir, NpmLocks) /\ ~NpmWorkspaceCovers(repo, f.dir)}

PythonGaps(repo) ==
  {f \in DependencyFiles(repo, <<>>, {"pyproject.toml"}) :
     f.says = "dependencies" /\ ~Beside(repo, f.dir, PythonLocks)}

Manifests(repo) == DependencyFiles(repo, <<>>, DepManifests)

\* Deps: the gaps, and what osv-scanner says of the manifests it is handed.
\* 7.0 and more of the score blocks.
Deps(installed, repo, answer) ==
  IF ~installed THEN {NotScanned(Nowhere)}
  ELSE {NotScanned(f.dir) : f \in NpmGaps(repo) \cup PythonGaps(repo)} \cup
       (IF Manifests(repo) = {} THEN {}
        ELSE IF answer.said \in Silences THEN {NotScanned(Nowhere)}
        ELSE {Hit(h.file, h.high) : h \in answer.hits})

\* The gate's leg runs when a commit touches a manifest, or a package.json.
DepsChanged(changed, findings) ==
  IF \E f \in changed : f.name \in DepManifests \cup {"package.json"} THEN findings ELSE {}

-----------------------------------------------------------------------------
(* Properties of one input *)

\* A scan that gave no answer is a finding that blocks, whatever the commit
\* touches and whichever scanner, slot or report it was.
SilenceBlocks(answered, findings) ==
  ~answered => \E f \in findings : f.blocking /\ ~f.checked

\* Dependencies that are declared are looked at, or said not to be: beside each
\* manifest, or at a workspace root above that has it as a member, lies a lock
\* file the scanner is handed.
LookedAt(repo, f) ==
  \E l \in Manifests(repo) :
    \/ l.dir = f.dir
    \/ /\ f.name = "package.json" /\ l.name \in NpmLocks /\ IsStrictPrefix(l.dir, f.dir)
       /\ \E i \in DOMAIN repo.members[l.dir] :
            /\ ~repo.members[l.dir][i].not
            /\ \A j \in DOMAIN repo.members[l.dir] : repo.members[l.dir][j].not =>
                 ~MatchGlobSegments(repo.members[l.dir][j].pattern, SubSeq(f.dir, Len(l.dir) + 1, Len(f.dir)))

DeclaredIsLookedAt(repo, found) ==
  \A f \in DependencyFiles(repo, <<>>, {"package.json", "pyproject.toml"}) :
    f.says = "dependencies" => LookedAt(repo, f) \/ NotScanned(f.dir) \in found

\* Secrets: each path that was not scanned stops the commit, and so does each leak.
LeaksAreSaid(installed, there, answers, legacy, found) ==
  \A p \in there :
    LET last == IF answers[p].said = "no dir" THEN legacy ELSE answers[p] IN
      /\ SilenceBlocks(installed /\ last.said \notin Silences, {f \in found : f.file \in {p, Nowhere}})
      /\ installed => \A h \in last.hits : Hit(h, TRUE) \in found

\* SastChanged: of what semgrep says, the commit answers for its own files, and
\* for a scan that did not happen; a serious flaw blocks at every bar.
FlawsAreSaid(changed, answered, bar, hits, found) ==
  /\ changed # {} => SilenceBlocks(answered, found)
  /\ answered => \A h \in hits : h.file \in changed =>
       \E f \in found : f.file = h.file /\ (h.severity = "ERROR" => f.blocking)
  /\ \A f \in found : f.file = Nowhere \/ f.file \in changed
=============================================================================
