------------------------------- MODULE Linters -------------------------------
(***************************************************************************)
(* What procoder makes of the answers of the tools it runs over files      *)
(* (internal/lint, internal/format, internal/maintain, internal/infra,     *)
(* internal/actions): a tool is missing, late, fails, prints something     *)
(* nobody can read, or reports; its report is about files that changed or  *)
(* about others. Every leg must tell "nothing found" from "not looked".    *)
(***************************************************************************)
EXTENDS Naturals, FiniteSets

\* One run of a tool: how it ended, what it printed, the files its findings are
\* in, and whether it has looked at the files at all (nobody sees that).
Runs(files) ==
  {r \in [end : {"ok", "one", "bad", "late"},
          said : {"nothing", "garbage", "report", "no flat config", "nothing to analyse", "no errors"},
          hits : SUBSET files, looked : BOOLEAN] :
     /\ r.hits # {} => r.said = "report"
     /\ r.end = "late" => r.said = "nothing" /\ ~r.looked}

\* A finding is a judgement, which the policy may make blocking, the report that
\* a check did not happen, or a note.
Judged(file, block) == [file |-> file, kind |-> "judgement", blocking |-> block]
NotChecked(file) == [file |-> file, kind |-> "silence", blocking |-> TRUE]
Note(file) == [file |-> file, kind |-> "note", blocking |-> FALSE]

First(files) == CHOOSE f \in files : TRUE
Judgements(run, block) == {Judged(f, block) : f \in run.hits}

\* An exit code of 1 with some output is a linter's way to say it found something.
ExitOneAnswer(run) == run.end = "one" /\ run.said # "nothing"

\* Mutant: the policy on findings also decides on a check that did not happen.
FinishByPolicy(run, file, block) ==
  IF run.hits = {} /\ run.end # "ok" /\ ~ExitOneAnswer(run)
  THEN {[NotChecked(file) EXCEPT !.blocking = block]} ELSE Judgements(run, block)

FinishParse(run, file, block) ==
  IF run.hits = {} /\ run.end # "ok" /\ ~ExitOneAnswer(run)
  THEN {NotChecked(file)} ELSE Judgements(run, block)

-----------------------------------------------------------------------------
(* lint.Files. A file has a language, and may lie below the project's own    *)
(* configuration of that language's linter; w is the machine and the tree.   *)

Plain == [py |-> "ruff", sh |-> "shellcheck", kt |-> "ktlint", swift |-> "swiftlint",
          rb |-> "rubocop", java |-> "checkstyle"]
Unlinted == {"cs", "dart"}

\* The names [lint] skip_tools knows, and the group each takes out.
SkipGroups ==
  [t \in {Plain[l] : l \in DOMAIN Plain} \cup {"golangci-lint", "eslint", "cargo", "phpstan", "phpcs", "php", "clang-tidy"} |->
     CASE t = "golangci-lint" -> "go" [] t = "eslint" -> "js" [] t = "cargo" -> "rs" [] t = "clang-tidy" -> "c"
       [] t \in {"phpstan", "phpcs", "php"} -> "php" [] OTHER -> CHOOSE l \in DOMAIN Plain : Plain[l] = t]

Skipped(w) == {SkipGroups[t] : t \in w.skip \cap DOMAIN SkipGroups}

\* A group that is skipped is said to be, once; so is a name that skips nothing.
SkipNotes(group, w) ==
  {Note(First(group[l])) : l \in {l \in Skipped(w) : group[l] # {}}} \cup
  (IF w.skip \ DOMAIN SkipGroups \subseteq {"typescript-eslint"} THEN {}
   ELSE {Note(First(group[l])) : l \in {l \in DOMAIN group : group[l] # {}}})

RunTool(tool, files, block, w) ==
  IF tool \notin w.tools THEN {NotChecked(First(files))}
  ELSE FinishParse(w.runs[tool], First(files), block)

\* golangci-lint and clippy look at whole packages: what they say of other files
\* is dropped.
Within(files, findings) == {f \in findings : f.file \in files}

LintGo(files, block, w) ==
  Within(files, RunTool("golangci-lint", files, block, w)) \cup
  (IF "golangci-lint" \in w.tools /\ "golangci" \notin w.configs /\ ~w.temp THEN {Note(First(files))} ELSE {})

LintRust(files, block, w) ==
  IF "Cargo.toml" \notin w.configs THEN {NotChecked(First(files))}
  ELSE Within(files, RunTool("cargo", files, block, w))

\* parseEslintJSON
ParseEslint(run, file, block) ==
  IF run.said # "report" \/ (run.hits = {} /\ run.end \notin {"ok", "one"})
  THEN {NotChecked(file)} ELSE Judgements(run, block)

Eslint(files, ready, block, w) ==
  IF files = {} THEN {}
  ELSE IF ~ready \/ "eslint" \notin w.tools THEN {NotChecked(First(files))}
  ELSE ParseEslint(w.runs["eslint"], First(files), block)

\* Files below an eslint configuration are linted with it, the others with the
\* baseline of their language.
LintJS(files, block, w) ==
  LET own == {f \in files : f.own}
      ts == {f \in files \ own : f.lang = "ts"}
  IN  Eslint(own, TRUE, block, w)
      \cup (IF ts # {} /\ "typescript-eslint" \in w.skip THEN {Note(First(ts))}
            ELSE Eslint(ts, w.temp /\ "typescript-eslint" \in w.tools, block, w))
      \cup Eslint(files \ (own \cup ts), w.temp, block, w)

RunPhpstan(files, block, w) ==
  LET run == w.runs["phpstan"] IN
  IF "phpstan" \notin w.tools THEN {NotChecked(First(files))}
  ELSE IF run.hits # {} \/ run.end = "ok" \/ run.said = "no errors" THEN Judgements(run, block)
  ELSE IF run.said = "nothing to analyse" THEN {Note(First(files))}
  ELSE {NotChecked(First(files))}

\* php -l, file by file: an error without a line it can read is no answer.
LintPHPSyntax(files, block, w) ==
  IF "php" \notin w.tools THEN {NotChecked(First(files))}
  ELSE IF w.runs["php"].end = "ok" THEN {}
  ELSE {IF f \in w.runs["php"].hits THEN Judged(f, block) ELSE NotChecked(f) : f \in files}

LintPHP(files, block, w) ==
  (IF "phpstan" \in w.configs THEN RunPhpstan(files, block, w) ELSE {}) \cup
  (IF "phpcs" \in w.configs THEN RunTool("phpcs", files, block, w) ELSE {}) \cup
  (IF {"phpstan", "phpcs"} \cap w.configs # {} THEN {}
   ELSE IF "phpstan" \in w.tools /\ w.temp THEN RunPhpstan(files, block, w)
   ELSE {NotChecked(First(files))} \cup LintPHPSyntax(files, block, w))

\* clang-tidy, file by file; its notes are dropped before it is asked whether
\* anything was found.
LintCFamily(files, block, w) ==
  LET run == w.runs["clang-tidy"] IN
  IF "clang-tidy" \notin w.tools THEN {NotChecked(First(files))}
  ELSE IF run.hits = {} /\ run.end # "ok" THEN {NotChecked(f) : f \in files}
  ELSE Judgements(run, block)

LintFiles(files, block, w) ==
  LET group == [l \in DOMAIN Plain \cup {"go", "js", "rs", "php", "c"} |->
                  {f \in files : f.lang = l \/ (l = "js" /\ f.lang = "ts")}]
      live == {l \in DOMAIN group : group[l] # {}} \ Skipped(w)
      Of(l) == CASE l = "go" -> LintGo(group[l], block, w)
                 [] l = "rs" -> LintRust(group[l], block, w)
                 [] l = "js" -> LintJS(group[l], block, w)
                 [] l = "php" -> LintPHP(group[l], block, w)
                 [] l = "c" -> LintCFamily(group[l], block, w)
                 [] OTHER -> RunTool(Plain[l], group[l], block, w)
  IN  SkipNotes(group, w) \cup (UNION {Of(l) : l \in live})
      \cup {Judged(First({f \in files : f.lang = l}), block) : l \in {f.lang : f \in files} \cap Unlinted}

\* lint --types: tsc over each project that has a file, pyright over the files.
Types(files, block, w) ==
  LET ts == {f \in files : f.lang = "ts"}  py == {f \in files : f.lang = "py"}
      TypeCheckTS(fs) ==
        LET run == w.runs["tsc"] IN
        IF "tsc" \notin w.tools \/ (run.hits = {} /\ run.end # "ok") THEN {NotChecked(First(fs))}
        ELSE Within(fs, Judgements(run, block))
  IN  {Note(f) : f \in {f \in ts : ~f.own}}
      \cup (IF \E f \in ts : f.own THEN TypeCheckTS({f \in ts : f.own}) ELSE {})
      \cup (IF py = {} THEN {} ELSE RunTool("pyright", py, block, w))

-----------------------------------------------------------------------------
(* format.Check *)

\* A formatter prints the file as it should be: `prints` is "same" or "other".
\* With no project configuration, or no plugin, where it needs one it is not run.
FormatCheck(covered, readable, ready, installed, exitOneAnswers, run) ==
  LET Answered == \/ run.end = "ok" /\ run.prints # "nothing"
                  \/ run.end = "one" /\ exitOneAnswers /\ run.prints # "nothing"
  IN  IF ~covered THEN "out of scope"
      ELSE IF ~(readable /\ ready /\ installed /\ Answered) THEN "unchecked"
      ELSE IF run.prints = "same" THEN "clean" ELSE "unformatted"

-----------------------------------------------------------------------------
(* maintain.Run: findings to judge, and an exit code for what did not run *)

\* runTool: how many findings it counts, how many checks that did not run, and
\* whether it says that nothing was checked.
MaintainTool(installed, ready, run) ==
  IF ~installed \/ ~ready \/ run.end = "late" THEN [findings |-> 0, missed |-> 1, says |-> TRUE]
  ELSE IF run.hits = {} /\ run.end # "ok" /\ ~ExitOneAnswer(run) THEN [findings |-> 1, missed |-> 0, says |-> TRUE]
  ELSE [findings |-> Cardinality(run.hits), missed |-> 0, says |-> FALSE]

MaintainTools(w) ==
  (IF "go.mod" \in w.configs THEN {"golangci-lint"} ELSE {}) \cup (IF "python" \in w.configs THEN {"ruff"} ELSE {})

MaintainOf(w, tool) == MaintainTool(tool \in w.tools, tool = "ruff" \/ w.temp, w.runs[tool])

MaintainRun(w) == IF \E t \in MaintainTools(w) : MaintainOf(w, t).missed > 0 THEN 1 ELSE 0

\* The gate's leg keeps the findings in the files that changed, and each line
\* that says something was not checked.
ComplexityChanged(changed, block, w) ==
  IF changed = {} THEN {}
  ELSE {NotChecked("tree") : t \in {t \in MaintainTools(w) : MaintainOf(w, t).says}}
       \cup UNION {Within(changed, Judgements(w.runs[t], block)) :
                     t \in {t \in MaintainTools(w) : ~MaintainOf(w, t).says}}

-----------------------------------------------------------------------------
(* infra.Check and actions.Lint *)

\* failedClean: nothing was read and the exit code is neither 0 nor the one (here
\* "one") each tool's manual gives for findings.
FailedClean(run, file) == IF run.hits # {} \/ run.end \in {"ok", "one"} THEN {} ELSE {NotChecked(file)}

InfraTool(tool, files, w) ==
  LET run == w.runs[tool] IN
  IF files = {} THEN {}
  ELSE IF tool \notin w.tools \/ run.end = "late" THEN {NotChecked(First(files))}
  ELSE Judgements(run, FALSE) \cup FailedClean(run, First(files))

\* TerraformTool: the configuration, the lock file, the providers that are
\* installed, and only then the tool that is; OpenTofu first each time.
TerraformTool(configured, lock, providers, tools) ==
  IF configured # "auto" THEN configured
  ELSE IF lock # {} THEN (IF "tofu" \in lock THEN "tofu" ELSE "terraform")
  ELSE IF providers # {} THEN (IF "tofu" \in providers THEN "tofu" ELSE "terraform")
  ELSE IF "tofu" \in tools THEN "tofu" ELSE "terraform"

\* One directory: format, validate where it is initialised, lint. What is late
\* ends it.
TerraformDir(dir, readable, tool, initialised, w) ==
  LET fmt == w.runs["fmt"]  validate == w.runs["validate"] IN
  IF ~readable \/ tool \notin w.tools \/ fmt.end = "late" THEN {NotChecked(dir)}
  ELSE Judgements(fmt, FALSE) \cup FailedClean(fmt, dir)
       \cup (IF ~initialised THEN {Note(dir)}
             ELSE IF validate.end # "ok" THEN {NotChecked(dir)} ELSE {})
       \cup (IF initialised /\ validate.end = "late" THEN {} ELSE InfraTool("tflint", {dir}, w))

HelmChart(dir, w) ==
  LET run == w.runs["helm"] IN
  IF "helm" \notin w.tools \/ run.end = "late" \/ (run.hits = {} /\ run.end # "ok") THEN {NotChecked(dir)}
  ELSE Judgements(run, FALSE)

\* Detect: what the walk finds; a walk that fails at the root has found nothing.
InfraCheck(inventory, w) ==
  IF ~inventory.walked THEN {NotChecked("tree")}
  ELSE InfraTool("hadolint", inventory.dockerfiles, w)
       \cup InfraTool("kubeconform", inventory.manifests, w)
       \cup (UNION {HelmChart(c, w) : c \in inventory.charts})
       \cup (UNION {TerraformDir(d, inventory.readable,
                      TerraformTool("auto", inventory.lock, {}, w.tools), inventory.initialised, w) :
                      d \in inventory.modules})

ActionsLint(files, w) ==
  LET run == w.runs["actionlint"] IN
  IF files = {} THEN {}
  ELSE IF "actionlint" \notin w.tools THEN {NotChecked(f) : f \in files}
  ELSE IF run.hits = {} /\ run.end # "ok" THEN {NotChecked(First(files))}
  ELSE Judgements(run, TRUE)

-----------------------------------------------------------------------------
(* Properties of one input: nothing passes unchecked *)

SilenceOn(files, found) == \E a \in found : a.file \in files /\ a.kind = "silence" /\ a.blocking
Looked(t, w) == t \in w.tools /\ w.runs[t].looked

\* The files one linter is called for, and whether [lint] skip_tools takes them out.
GroupOf(f) == IF f.lang = "ts" THEN "js" ELSE f.lang
Out(f, w) == GroupOf(f) \in Skipped(w) \/ (f.lang = "ts" /\ ~f.own /\ "typescript-eslint" \in w.skip)

\* Who has to look at a file, and what it needs for that beside itself.
LintersOf(f, w) ==
  CASE f.lang = "go" -> {"golangci-lint"} [] f.lang = "rs" -> {"cargo"} [] GroupOf(f) = "js" -> {"eslint"}
    [] f.lang = "c" -> {"clang-tidy"}
    [] f.lang = "php" -> IF {"phpstan", "phpcs"} \cap w.configs = {} THEN {"phpstan"} ELSE {"phpstan", "phpcs"} \cap w.configs
    [] f.lang \in DOMAIN Plain -> {Plain[f.lang]} [] OTHER -> {}

Equipped(f, t, w) ==
  CASE t = "cargo" -> "Cargo.toml" \in w.configs
    [] t = "eslint" -> f.own \/ (w.temp /\ (f.lang = "ts" => "typescript-eslint" \in w.tools))
    [] t = "phpstan" -> w.temp \/ "phpstan" \in w.configs
    [] OTHER -> TRUE

\* lint.Files: what a linter that looked says of a file is said, as the policy
\* has it; where it did not look the commit is stopped, whatever the policy; and
\* what the project has switched off is said to be.
NothingUnlinted(files, block, w, found) ==
  \A f \in files :
    LET alike == {g \in files : GroupOf(g) = GroupOf(f)} IN
      IF Out(f, w) THEN \E g \in alike : Note(g) \in found
      ELSE \A t \in LintersOf(f, w) :
        IF Equipped(f, t, w) /\ Looked(t, w) THEN f \in w.runs[t].hits => Judged(f, block) \in found
        ELSE \/ SilenceOn(alike, found)
             \/ t = "phpstan" /\ w.runs[t].said = "nothing to analyse" /\ \E g \in alike : Note(g) \in found

\* types.Check: tsc where a project is, pyright everywhere.
NothingUntyped(files, block, w, found) ==
  \A f \in {f \in files : f.lang \in {"ts", "py"}} :
    LET t == IF f.lang = "ts" THEN "tsc" ELSE "pyright" IN
      IF f.lang = "ts" /\ ~f.own THEN Note(f) \in found
      ELSE IF Looked(t, w) THEN f \in w.runs[t].hits => Judged(f, block) \in found
      ELSE SilenceOn({g \in files : g.lang = f.lang}, found)

\* format.Check: only an answer makes a file clean, and an answer is never lost.
NothingUnformatted(run, verdict) ==
  /\ verdict = "clean" => run.looked /\ run.prints = "same"
  /\ run.looked /\ run.prints = "other" => verdict # "clean"

\* The gate's complexity leg.
NothingTooComplex(changed, block, w, found) ==
  \A t \in MaintainTools(w) : changed # {} =>
    IF t \in w.tools /\ w.runs[t].looked /\ (t = "ruff" \/ w.temp)
    THEN \A f \in changed \cap w.runs[t].hits : Judged(f, block) \in found
    ELSE SilenceOn({"tree"}, found)

\* infra.Check: each thing the walk has found is looked at by its tool, or named.
NothingUnplanned(inventory, w, found) ==
  LET Seen(tool, files) == files # {} /\ ~Looked(tool, w) => SilenceOn(files, found)
  IN  IF ~inventory.walked THEN SilenceOn({"tree"}, found)
      ELSE /\ Seen("hadolint", inventory.dockerfiles)
           /\ Seen("kubeconform", inventory.manifests)
           /\ \A c \in inventory.charts : Seen("helm", {c})
           /\ \A d \in inventory.modules :
                \/ SilenceOn({d}, found)
                \/ /\ w.runs["fmt"].looked
                   /\ IF inventory.initialised THEN w.runs["validate"].looked ELSE Note(d) \in found
                   /\ Looked("tflint", w)
=============================================================================
