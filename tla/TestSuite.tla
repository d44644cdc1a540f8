------------------------------ MODULE TestSuite ------------------------------
(***************************************************************************)
(* The test leg (internal/testrun): which runners a commit starts and with *)
(* which targets, what each makes of its tool's end, and what the gate,    *)
(* the command and the close of a task conclude. A file is                 *)
(* [lang, dir, manifest, inside]; a runner's run is                        *)
(* [installed, end, tests], `tests` being how many it says it has run.     *)
(***************************************************************************)
EXTENDS Naturals, Sequences, SequencesExt, FiniteSets

Ecosystems == {"go", "rust", "js", "python", "java", "php"}

\* The runners that take a list of targets: the languages the gate narrows by.
PathScoped == {"go", "python"}

NotRun(eco) == [eco |-> eco, verdict |-> "not run", noSuite |-> FALSE, filtered |-> FALSE, empty |-> FALSE]
Verdict(eco, verdict, filtered, empty) ==
  [eco |-> eco, verdict |-> verdict, noSuite |-> FALSE, filtered |-> filtered, empty |-> empty]

-----------------------------------------------------------------------------
(* The runners *)

\* Whether a pattern reaches the runner: go test and maven take any; cargo,
\* pytest, gradle and phpunit would read one that begins with "-" as a flag;
\* npm leaves it to the script.
Filters(eco, pattern) ==
  IF pattern = "none" THEN FALSE
  ELSE IF eco \in {"go", "js"} THEN TRUE
  ELSE pattern # "-dash"

\* runGo, runCargo, runPytest, runJava, runPHPUnit: nothing ran where the tool
\* is missing or late; an exit code is a failure, but for pytest's 5 under a
\* pattern, which is a pass of nothing.
RunOf(eco, run, pattern) ==
  LET f == Filters(eco, pattern)
      Counts == eco \in {"go", "rust", "python", "php"}
  IN  IF ~run.installed \/ run.end = "late" THEN NotRun(eco)
      ELSE IF eco = "python" /\ f /\ run.end = "no tests" THEN Verdict(eco, "pass", f, TRUE)
      ELSE IF run.end # "ok" THEN Verdict(eco, "fail", f, FALSE)
      ELSE Verdict(eco, "pass", f, f /\ Counts /\ run.tests = 0)

\* runPytest: asked for coverage without the plugin, pytest ends in 4 and is
\* run once more without.
RunPytest(run, again, coverage, pattern) ==
  RunOf("python", IF coverage /\ run.end = "usage" THEN again ELSE run, pattern)

RunJS(hasScript, run, pattern) ==
  IF hasScript THEN RunOf("js", run, pattern) ELSE [NotRun("js") EXCEPT !.noSuite = TRUE]

\* Run: one result for each ecosystem the repository has.
Run(repo, coverage, pattern) ==
  {CASE eco = "js" -> RunJS(repo.script, repo.runs["js"], pattern)
     [] eco = "python" -> RunPytest(repo.runs["python"], repo.again, coverage, pattern)
     [] OTHER -> RunOf(eco, repo.runs[eco], pattern) : eco \in repo.has}

\* Report's exit code.
Report(results) ==
  IF \E r \in results : r.verdict = "fail" THEN 1
  ELSE IF \E r \in results : r.verdict = "pass" THEN 0 ELSE 2

\* Suite, the gate of a close under the block policy.
Suite(results) ==
  (\E r \in results : r.verdict = "pass") /\ ~\E r \in results : r.verdict = "fail"

-----------------------------------------------------------------------------
(* The gate's leg *)

\* changedPackages: nothing to narrow by, nothing is run; a manifest, or files of
\* two languages, and every runner runs whole (no targets).
ChangedPackages(files) ==
  LET scoped == {f \in files : f.inside /\ f.lang \in PathScoped /\ ~f.manifest}
      whole == \E f \in files : f.inside /\ f.manifest
  IN  [run |-> whole \/ scoped # {},
       targets |-> IF whole \/ Cardinality({f.lang : f \in scoped}) # 1 THEN {} ELSE {f.dir : f \in scoped}]

\* ecosystemsOf
EcosystemsOf(files) == {f.lang : f \in files} \cap Ecosystems

\* findingFor: a failure blocks by policy, what did not run always.
FindingFor(result, block) ==
  CASE result.verdict = "fail" -> {[eco |-> result.eco, blocking |-> block, ran |-> TRUE]}
    [] result.verdict = "not run" /\ ~result.noSuite -> {[eco |-> result.eco, blocking |-> TRUE, ran |-> FALSE]}
    [] OTHER -> {}

GateCheck(repo, files, block) ==
  IF ~ChangedPackages(files).run THEN {}
  ELSE UNION {FindingFor(r, block) : r \in {r \in Run(repo, FALSE, "none") : r.eco \in EcosystemsOf(files)}}

\* What `procoder status` says the gate leaves to CI.
Deferred(repo) == {eco \in repo.has \cap {"rust", "js", "java", "php"} : eco = "js" => repo.script}

-----------------------------------------------------------------------------
(* go test -json: what fails, of the events the tool prints. A test is the   *)
(* sequence of its names; <<>> stands for its package.                       *)

FailedTests(events) == {e \in ToSet(events) : e.action = "fail" /\ e.test # <<>>}
FailedPkgs(events) == {e.pkg : e \in {e \in ToSet(events) : e.action = "fail" /\ e.test = <<>>}}

LeafFailures(events) ==
  {k \in FailedTests(events) : ~\E o \in FailedTests(events) : o.pkg = k.pkg /\ IsStrictPrefix(k.test, o.test)}

PackageOnlyFailures(events) == FailedPkgs(events) \ {k.pkg : k \in FailedTests(events)}

\* excerpt: one entry for each, one more for what no package owns where a package
\* failed though all was built, or where nothing failed; so many are shown, the
\* others counted.
Excerpt(events, built, stray, limit) ==
  LET own == Cardinality(LeafFailures(events)) + Cardinality(PackageOnlyFailures(events))
      entries == own + (IF stray /\ (own = 0 \/ (PackageOnlyFailures(events) # {} /\ built)) THEN 1 ELSE 0)
  IN  [shown |-> IF entries > limit THEN limit ELSE entries, more |-> IF entries > limit THEN entries - limit ELSE 0]

-----------------------------------------------------------------------------
(* Properties of one commit *)

\* What the commit's languages have a suite for is run with their own targets
\* or with none: never with another language's directories, and every changed
\* directory is among them.
TargetsAreTheRunners(files, chosen) ==
  LET Dirs(lang) == {f.dir : f \in {f \in files : f.inside /\ f.lang = lang /\ ~f.manifest}}
  IN  \A lang \in EcosystemsOf({f \in files : f.inside}) \cap PathScoped :
        chosen.run /\ (chosen.targets = {} \/ chosen.targets = Dirs(lang))

\* A wanted suite that failed or could not run is a finding, the latter one that
\* blocks; and every package that failed is named, by a test or by itself.
NothingRanUnsaid(repo, files, block, found) ==
  ChangedPackages(files).run =>
    \A eco \in EcosystemsOf(files) \cap repo.has :
      LET run == repo.runs[eco]
      IN  /\ (~run.installed \/ run.end = "late") /\ (eco = "js" => repo.script) =>
               \E f \in found : f.eco = eco /\ f.blocking /\ ~f.ran
          /\ run.installed /\ run.end \notin {"ok", "late"} /\ (eco = "js" => repo.script) =>
               \E f \in found : f.eco = eco /\ f.blocking = block

\* gojson: a package that failed is named, by its innermost failing tests or by
\* itself, and none is named that did not fail; each is shown or counted.
EveryFailureIsNamed(events, named, shown) ==
  /\ {e.pkg : e \in {e \in ToSet(events) : e.action = "fail"}} = {n.pkg : n \in named}
  /\ \A n \in named : ~\E e \in FailedTests(events) : e.pkg = n.pkg /\ IsStrictPrefix(n.test, e.test)
  /\ shown.shown + shown.more >= Cardinality(named) /\ (named # {} => shown.shown > 0)
=============================================================================
