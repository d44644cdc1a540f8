------------------------------- MODULE MCLegs -------------------------------
(* The legs of the gate and of the hooks, for TLC. A behaviour asks one of    *)
(* them about one input; what it says is compared with what the input says    *)
(* by itself.                                                                 *)
EXTENDS Scans, Linters, TestSuite, Hygiene, HookCommands, EnvSync, CachedVersions

CONSTANTS f1, f2, d1, d2

Files == {f1, f2}

\* Each lock file that pins a pyproject.toml is one that osv-scanner is handed, and two
\* files are somewhere.
ASSUME LegsAssumption ==
  /\ PythonLocks \subseteq DepManifests /\ MaxIncludes \in Nat /\ MaxDepth \in Nat
  /\ f1 # f2 /\ {Nowhere, NoFile} \cap Files = {}

VARIABLES about, given, done, said
vars == <<about, given, done, said>>

Ask(leg) == about = leg /\ ~done /\ done' = TRUE /\ UNCHANGED <<about, given>>

-----------------------------------------------------------------------------
(* security *)

SecretsInputs ==
  [installed : BOOLEAN, there : SUBSET Files, legacy : Answers({f1}),
   answers : [Files -> Answers({f1}) \cup {[said |-> "no dir", hits |-> {}]}]]

Flaws == [file : {f1, f2}, severity : {"WARNING", "ERROR", "CRITICAL"}]
SastInputs ==
  [installed : BOOLEAN, repo : {"taken", "busy", "none"}, machine : {"taken", "busy"}, changed : SUBSET Files,
   bar : {"INFO", "ERROR", "loud"}, answer : Answers(Flaws)]

Lockable ==
  [dir : {<<>>, <<"a">>}, name : {"package-lock.json", "uv.lock"}, state : {"there"}, says : {"locked"}]
    \cup [dir : {<<"a">>, <<"vendor">>}, name : {"package.json"}, state : {"there", "ignored"}, says : {"dependencies"}]
    \cup [dir : {<<"a">>}, name : {"pyproject.toml"}, state : {"there"}, says : {"dependencies"}]
Members == [pattern : {<<"*">>, <<"a">>, <<"**">>}, not : BOOLEAN]
RepoInputs ==
  [git : BOOLEAN, files : {fs \in SUBSET Lockable : Cardinality(fs) <= 3},
   members : [{<<>>} -> UNION {[1 .. n -> Members] : n \in 0 .. 2}]]

AskSecrets ==
  /\ Ask("secrets")
  /\ said' = Secrets(given.installed, given.there, given.answers, given.legacy)

AskSast ==
  /\ Ask("sast")
  /\ said' = LET hits == given.answer.hits
                 looked == IncludesFor(given.changed, Files)
             IN  SastChanged(given.changed, Sast(given.installed, given.repo, given.machine, given.bar,
                   [said |-> given.answer.said, hits |-> {h \in hits : h.file \in looked}]))

AskDeps ==
  /\ Ask("deps")
  /\ said' = DepsChanged({[name |-> "package.json"]}, Deps(TRUE, given, [said |-> "report", hits |-> {}]))

\* security: a scanner that gave no answer stops the commit, and so does each
\* leak and each serious flaw in what the commit changes; dependencies that are
\* declared are looked at, or are said not to be.
NothingUnscanned ==
  done => CASE about = "secrets" -> LeaksAreSaid(given.installed, given.there, given.answers, given.legacy, said)
            [] about = "sast" -> FlawsAreSaid(given.changed,
                 given.installed /\ ~SlotBusy(given.repo, given.machine) /\ given.answer.said = "report",
                 given.bar, given.answer.hits, said)
            [] about = "deps" -> DeclaredIsLookedAt(given, said)
            [] OTHER -> TRUE

-----------------------------------------------------------------------------
(* lint, format, maintain, infra, actions *)

\* A run that has looked, with findings or without, and one that has not: what it
\* leaves then is no report.
RunsSeen(files) ==
  {r \in Runs(files) :
     IF r.looked THEN /\ r.said = "report" /\ (r.end = "ok" \/ r.hits # {}) /\ r.end # "late"
     ELSE /\ r.end # "ok" /\ (r.end = "one" => r.said = "nothing") /\ r.said \in {"nothing", "garbage", "nothing to analyse"}}
Same(tools, run) == [t \in tools |-> run]

Linting == {"ruff", "golangci-lint", "cargo", "eslint", "typescript-eslint", "phpstan", "phpcs", "php", "clang-tidy",
            "tsc", "pyright"}
Langs == {"py", "go", "rs", "ts", "js", "php", "c"}
LintInputs ==
  [files : {{[name |-> 1, lang |-> a, own |-> own], [name |-> 2, lang |-> b, own |-> FALSE]} :
              a \in Langs, b \in {"py", "ts", "php"}, own \in BOOLEAN},
   block : BOOLEAN, run : RunsSeen({1}),
   w : [tools : {{}, Linting, Linting \ {"phpstan"}, Linting \ {"typescript-eslint"}}, temp : BOOLEAN,
        configs : {{}, {"Cargo.toml", "golangci", "phpcs"}}, skip : {{}, {"ruff", "phpstan"}, {"typescript-eslint"}}]]

\* The run of every tool finds something in the first file, or nothing at all.
World(i) ==
  [tools |-> i.w.tools, configs |-> i.w.configs, temp |-> i.w.temp, skip |-> i.w.skip,
   runs |-> Same(Linting, [i.run EXCEPT !.hits = {f \in i.files : f.name \in i.run.hits}])]

AskLint == Ask("lint") /\ said' = LintFiles(given.files, given.block, World(given))
AskTypes == Ask("types") /\ said' = Types(given.files, given.block, World(given))

FormatInputs ==
  {i \in [covered : BOOLEAN, readable : BOOLEAN, ready : BOOLEAN, installed : BOOLEAN, exitOne : BOOLEAN,
          end : {"ok", "one", "bad"}, prints : {"nothing", "same", "other"}, looked : BOOLEAN] :
     IF i.looked THEN i.prints # "nothing" /\ (i.end = "ok" \/ (i.end = "one" /\ i.exitOne))
     ELSE i.prints = "nothing" \/ i.end = "bad"}
AskFormat ==
  /\ Ask("format")
  /\ said' = FormatCheck(given.covered, given.readable, given.ready, given.installed, given.exitOne, given)

TreeTools == {"golangci-lint", "ruff", "hadolint", "kubeconform", "helm", "terraform", "tofu", "tflint", "fmt", "validate", "actionlint"}
TreeRuns == {r \in RunsSeen({f1}) : r.looked \/ r.end # "one"}
TreeInputs ==
  [files : {Files}, block : BOOLEAN,
   inventory : [walked : BOOLEAN, dockerfiles : {{f1}}, manifests : {{}, {f2}}, charts : {{d1}}, modules : {{d1, d2}},
                readable : {TRUE}, lock : {{}, {"terraform"}}, initialised : BOOLEAN],
   w : [tools : {TreeTools \ gone : gone \in {{}, {"ruff", "helm"}, {"tofu", "actionlint"}, {"hadolint", "tflint"}}},
        configs : {{"go.mod", "python"}}, temp : BOOLEAN,
        runs : {[t \in TreeTools |-> IF t \in odd THEN one ELSE other] : one \in TreeRuns, other \in TreeRuns,
                  odd \in {{"ruff", "fmt", "helm"}, {"golangci-lint", "validate"}, {"kubeconform", "actionlint"}}}]]
AskComplexity == Ask("maintain") /\ said' = ComplexityChanged(given.files, given.block, given.w)
AskInfra == Ask("infra") /\ said' = InfraCheck(given.inventory, given.w)
AskActions == Ask("actions") /\ said' = ActionsLint(given.files, given.w)

\* lint, format, maintain, infra, actions: what a tool that looked says of the
\* commit's files is said, and a file whose tool did not look is never passed
\* over in silence.
NothingUnjudged ==
  done => CASE about = "lint" -> NothingUnlinted(given.files, given.block, World(given), said)
            [] about = "types" -> NothingUntyped(given.files, given.block, World(given), said)
            [] about = "format" -> NothingUnformatted(given, said)
            [] about = "maintain" -> NothingTooComplex(given.files, given.block, given.w, said)
            [] about = "infra" -> NothingUnplanned(given.inventory, given.w, said)
            [] about = "actions" ->
                 IF Looked("actionlint", given.w)
                 THEN \A f \in given.w.runs["actionlint"].hits : Judged(f, TRUE) \in said
                 ELSE SilenceOn(given.files, said)
            [] OTHER -> TRUE

-----------------------------------------------------------------------------
(* testrun *)

Changed == {fs \in SUBSET [lang : {"go", "python", "rust"}, dir : {d1, d2}, manifest : BOOLEAN, inside : BOOLEAN] :
              Cardinality(fs) <= 3 /\ \A f \in fs : f.manifest => f.lang = "go"}
AskTargets == Ask("targets") /\ said' = ChangedPackages(given)

SuiteRuns == [installed : BOOLEAN, end : {"ok", "bad", "late", "no tests", "usage"}, tests : {0, 1}]
SuiteInputs ==
  {[files |-> {[lang |-> l, dir |-> d1, manifest |-> m, inside |-> TRUE] : l \in langs}, block |-> block, pattern |-> pattern,
    repo |-> [has |-> has, script |-> script, again |-> other,
              runs |-> [e \in Ecosystems |-> IF e \in {"js", "python"} THEN run ELSE other]]] :
     langs \in {{"go"}, {"go", "python"}, {"go", "js", "rust"}}, has \in {{"go", "python"}, {"go", "js", "rust"}},
     m \in BOOLEAN, block \in BOOLEAN, script \in BOOLEAN, pattern \in {"none", "-dash", "name"}, run \in SuiteRuns,
     other \in {[installed |-> i, end |-> e, tests |-> 1] : i \in BOOLEAN, e \in {"ok", "bad", "late"}}}
AskSuites ==
  /\ Ask("suites")
  /\ said' = LET results == Run(given.repo, FALSE, given.pattern)
             IN  [found |-> GateCheck(given.repo, given.files, given.block),
                  exit |-> Report(results), closes |-> Suite(results)]

Tests == {<<>>, <<"T">>, <<"T", "s">>}
EventInputs == UNION {[1 .. n -> [action : {"fail"}, pkg : {"p", "q"}, test : Tests]] : n \in 0 .. 4}
AskFailures ==
  /\ Ask("failures")
  /\ said' = [named |-> LeafFailures(given) \cup {[action |-> "fail", pkg |-> p, test |-> <<>>] : p \in PackageOnlyFailures(given)},
              shown |-> Excerpt(given, TRUE, TRUE, 3)]

\* testrun: a commit's suites are run where it changed something, and never with
\* another language's targets; one that failed or could not run is a finding, and
\* the suite of a repository is good only if one passed and none failed; each
\* package that failed is named.
NothingRunsUnsaid ==
  done => CASE about = "targets" -> TargetsAreTheRunners(given, said)
            [] about = "suites" ->
                 /\ NothingRanUnsaid(given.repo, given.files, given.block, said.found)
                 /\ said.closes <=> said.exit = 0
            [] about = "failures" -> EveryFailureIsNamed(given, said.named, said.shown)
            [] OTHER -> TRUE

-----------------------------------------------------------------------------
(* envsync *)

\* A lockfile and an example beside a directory that holds a lockfile, or is one of
\* migrations, or is no part of the project, or holds another.
EnvDirs == [kind : {"plain", "migrations", "cache", "ignored"}, readable : BOOLEAN, entries : SUBSET {1, 2}]
EnvFiles(kind, texts) == [kind : {kind}, readable : BOOLEAN, text : texts]
PlainDir == [kind |-> "plain", readable |-> TRUE, entries |-> {}]
EnvTrees ==
  [dirs : {[d \in {<<>>, <<"d">>, <<"d", "e">>} |-> IF d = <<"d">> THEN dir ELSE PlainDir] :
             dir \in {d \in EnvDirs : d.kind = "migrations" \/ d.entries = {}}},
   files : UNION {[locks -> EnvFiles("lock", {"1", "2"})] :
                    locks \in {{<<"d", "lock">>, <<"d", "e", "lock">>}, {<<"d", "e", "lock">>}, {<<"d", "lock">>}}}]
EnvLocals ==
  [dirs : {[d \in {<<>>} |-> PlainDir]},
   files : {[f \in {<<"example">>, <<".env">>} \ gone |-> IF f = <<"example">> THEN example ELSE env] :
              example \in EnvFiles("example", SUBSET {"K", "L"}), env \in EnvFiles("env", SUBSET {"K", "L"}),
              gone \in SUBSET {<<".env">>}}]
EnvInputs ==
  [then : EnvTrees, now : EnvTrees, saves : {TRUE}, before : {"none"}]
    \cup {i \in [then : EnvLocals, now : EnvLocals, saves : BOOLEAN, before : {"none", "unreadable"}] : i.then = i.now}
AskEnv ==
  /\ Ask("env")
  /\ said' = LET synced == Sync(given.then, Baseline(given.before, ScanTree(given.then)), given.saves)
             IN  [synced |-> synced, now |-> Check(given.now, synced.base)]

\* envsync: a difference from what was last set up is said, or that nobody looked.
NothingMovesUnsaid ==
  about = "env" /\ done =>
    IF given.saves THEN DifferencesAreSaid(given.then, given.now, said.synced, said.now)
    ELSE said.synced.code = 1 /\ (given.before = "unreadable" => said.now.code = 1)

\* gate.go:402, the legs: no answer is not a passing file. Whatever is missing,
\* late, fails or speaks, what a leg was given is judged, or is said not to be.
NothingPassesUnchecked == NothingUnscanned /\ NothingUnjudged /\ NothingRunsUnsaid /\ NothingMovesUnsaid

-----------------------------------------------------------------------------
(* gitx, portability, ciops, gitcmd *)

\* Texts over four lines, each in its place: no edit only moves a line.
TextLines == <<[looks |-> "text", text |-> 1], [looks |-> "text", text |-> 2],
           [looks |-> "header", text |-> 3, names |-> f2], [looks |-> "text", text |-> 4]>>
Texts == {FlattenSeq([n \in 1 .. 4 |-> IF n \in kept THEN <<TextLines[n]>> ELSE <<>>]) : kept \in SUBSET (1 .. 4)}
OtherFile == [name |-> f2, tracked |-> FALSE, head |-> <<>>, index |-> <<>>, tree |-> <<[looks |-> "text", text |-> 1]>>]

\* Where what is staged lies as it does in the working tree, and no added line
\* looks like a header of the diff.
AsItLies(i) == \A f \in i.files : f.tracked =>
  f.index \in {f.head, f.tree} /\ \A n \in DOMAIN f.tree : f.tree[n].looks = "header" => f.tree[n] \in {f.head[m] : m \in DOMAIN f.head}

NarrowInputs ==
  {[answers |-> answers, files |-> {[name |-> f1, tracked |-> tracked, head |-> head, index |-> index, tree |-> tree], OtherFile}] :
     answers \in BOOLEAN, tracked \in {TRUE}, head \in Texts, index \in Texts, tree \in Texts}
AllLines == {Finding(f, n, TRUE) : f \in Files, n \in 0 .. 4}
AskNarrow == Ask("narrow") /\ said' = NarrowToDiff(given.answers, given.files, AllLines)

\* gitx.NarrowToDiff: "drops every finding that sits on a line this commit did not
\* write" (diffscope.go:12), and no other.
WrittenIsKept ==
  about = "narrow" /\ done => Written(given.answers, given.files, AllLines, said)

\* It holds of what lies in the working tree as it was staged: whatever was staged,
\* edited since or added, the lines written are those findings are kept on.
WrittenAsItLies == about = "narrow" /\ AsItLies(given) => WrittenIsKept

Commits == [sha : {"sha"}, message : {"credits", "empty", "shapeless", "good"}]
Copies == [body : {"rules", "old"}, front : BOOLEAN]
RepoOf(log, tracks, upstream, branch, marker) ==
  [declared |-> TRUE, hosts |-> {}, master |-> "rules", copies |-> <<>>, versions |-> <<>>,
   files |-> {[name |-> f1, readable |-> TRUE, text |-> TRUE, markers |-> marker, allows |-> "nothing", junk |-> FALSE,
               inJunk |-> FALSE, size |-> 1]},
   limit |-> 2, branch |-> branch, origin |-> "none", branches |-> {"main"}, blockBranch |-> FALSE, markers |-> {"go.mod"},
   ignoreFile |-> TRUE, ignores |-> {}, log |-> log, tracks |-> tracks, upstream |-> upstream,
   ci |-> "there", workflows |-> {}, pin |-> TRUE, missing |-> {}, prMaster |-> "absent", prMirror |-> "absent"]
CreditInputs ==
  {[repo |-> RepoOf(log, tracks, upstream, branch, marker), message |-> message] :
     log \in [1 .. 2 -> Commits], tracks \in BOOLEAN, upstream \in 0 .. 2, branch \in {"main", "work"}, marker \in {{}, {1}},
     message \in {"credits", "good"}}
AskHygiene ==
  /\ Ask("hygiene")
  /\ said' = {CollectFor(given.repo, given.message), CollectUniversal(given.repo, given.message)}

CopyInputs == [hosts : SUBSET {"claude", "cursor"}, master : {"rules", "absent"}, copies : [{"claude", "cursor"} -> Copies]]
AskAgents == Ask("agents") /\ said' = AgentsToWrite(given.hosts, given.master, given.copies)

\* ciops: a workflow's jobs, each with a bound on its time or not.
WorkflowLines == [kind : {"jobs", "top", "timeout", "uses", "concurrency"}, name : {"tag"}] \cup [kind : {"job"}, name : {"a", "b"}]
WorkflowInputs == UNION {[1 .. n -> WorkflowLines] : n \in 0 .. 4}
AskWorkflow == Ask("workflow") /\ said' = CheckWorkflow("ci", given, TRUE)

\* gitcmd, portability, ciops: a credit to a tool stops the commit it is written
\* in and every one until it is pushed, whatever the repository; once its advice
\* is followed `agents` and the gate agree; a job without a bound is seen; what is
\* judged of a commit is the lines that it writes.
RulesAgree ==
  done => CASE about = "narrow" -> WrittenAsItLies
            [] about = "hygiene" -> CreditIsCaught(given.repo, given.message, said)
            [] about = "agents" -> AgentsSettle(given.hosts, given.master, given.copies, said)
            [] about = "workflow" -> BoundIsSeen(given, said)
            [] OTHER -> TRUE

-----------------------------------------------------------------------------
(* hook *)

W(w) == Word(w)
Phrases ==
  [before : {<<>>, <<W("env")>>, <<W("VAR=1")>>, <<W("env"), W("VAR=1")>>}, program : {<<W("git")>>},
   options : {<<>>, <<W("-C"), W("d1")>>, <<W("-c"), W("commit")>>, <<W("--no-pager"), W("-C"), W("d2")>>,
              <<W("-C"), W("d1"), W("-C"), W("d2")>>},
   verb : {<<W("commit")>>, <<Quoted("commit")>>, <<W("status")>>},
   args : {<<>>, <<W("-n")>>, <<W("-m"), W("one")>>, <<W("-m"), W("-n")>>, <<W("-m"), Quoted("one"), W("-n")>>,
           <<W("-m"), Quoted("one"), W("-m"), Quoted("-n")>>}]
Mentions ==
  [before : {<<>>}, program : {<<W("echo")>>}, options : {<<>>, <<W("git")>>, <<Quoted("git commit")>>},
   verb : {<<W("commit")>>}, args : {<<>>, <<W("-n")>>}]
    \cup [before : {<<>>}, program : {<<W("cd")>>}, options : {<<W("d3")>>}, verb : {<<>>}, args : {<<>>}]
CommandInputs == {<<p>> : p \in Phrases} \cup {<<m, p>> : m \in Mentions, p \in Phrases} \cup {<<p, m>> : m \in Mentions, p \in Phrases}
AskCommand == Ask("command") /\ said' = ParseCommand(CommandOf(given))

Chars == {"a", "space", ";", "newline", "&", "$"}
QuoteInputs == [mark : QuoteMarks, inside : UNION {[1 .. n -> Chars] : n \in 0 .. 3}]
AskQuotes == Ask("quotes") /\ said' = Tokenize(Around(given.mark, given.inside))

HeredocLines ==
  {[kind |-> "open", delim |-> d, into |-> i, dash |-> dash, tabs |-> FALSE] : d \in {"EOF", "X"}, i \in {"msg", "other"}, dash \in BOOLEAN}
    \cup {[kind |-> "end", delim |-> d, into |-> "none", dash |-> FALSE, tabs |-> tabs] : d \in {"EOF", "X"}, tabs \in BOOLEAN}
    \cup {[kind |-> "text", delim |-> "none", into |-> "none", dash |-> FALSE, tabs |-> FALSE]}
HeredocInputs ==
  {i \in [before : UNION {[1 .. n -> HeredocLines] : n \in 0 .. 2},
          open : {l \in HeredocLines : l.kind = "open" /\ l.into = "msg"}, body : UNION {[1 .. n -> HeredocLines] : n \in 0 .. 2}] :
     \* What is opened before is closed before.
     \A o \in Openings(i.before) : \E e \in o + 1 .. Len(i.before) : Ends(i.before[e], i.before[o])}
AskMessage ==
  /\ Ask("message")
  /\ said' = Message([file |-> "msg", messages |-> {}],
               given.before \o <<given.open>> \o given.body \o
                 <<[kind |-> "end", delim |-> given.open.delim, into |-> "none", dash |-> FALSE, tabs |-> FALSE]>>,
               <<"on disk">>)

PartNames == {"format", "workflow", "docs", "drift", "secrets", "lint", "ask"}
FitInputs ==
  {i \in [markdown : BOOLEAN, says : [PartNames -> {0, 3, 6}], limit : {5, 11, 20}] :
     i.says["format"] # 6 /\ i.says["workflow"] # 3 /\ i.says["ask"] # 6 /\ (i.markdown => i.says["lint"] = 0)}
AskParts == Ask("parts") /\ said' = Fit(PartsOf(given.markdown, given.says), given.limit)

\* PreToolUse and Run: a commit is seen for what it is, and what the agent gets
\* back after a write fits, tells a leak first and counts what it leaves out.
HooksSeeAndTell ==
  done => CASE about = "command" -> CommitIsSeen(given, said)
            [] about = "quotes" -> QuotesHold(given.inside, said)
            [] about = "message" -> HeredocIsRead(given.before, given.open, given.body, said)
            [] about = "parts" -> FitsAndTells(PartsOf(given.markdown, given.says), given.limit, said)
            [] OTHER -> TRUE

-----------------------------------------------------------------------------
(* plugincache *)

\* Two versions that compare as equal, one whose second number has two digits, and a
\* name that cannot be ranked.
CacheNames == {[v |-> FALSE, numbers |-> n] : n \in {<<1, 9>>, <<1, 9, 0>>, <<1, 10>>, <<2, 0>>, <<2>>}} \cup {[v |-> TRUE, numbers |-> <<1, 9>>]}
Nobody == [v |-> FALSE, numbers |-> <<>>]
Entry(name, directory, goes) == [name |-> name, directory |-> directory, goes |-> goes, size |-> Len(name.numbers)]
Records ==
  [readable : BOOLEAN, plugins : {{}}]
    \cup [readable : {TRUE},
          plugins : {{[ours |-> ours, versions |-> <<n>>], [ours |-> other, versions |-> ns]} :
                       ours \in BOOLEAN, other \in BOOLEAN, n \in CacheNames, ns \in {<<>>, <<[v |-> FALSE, numbers |-> <<1, 9>>]>>}}]
Cached ==
  {{Entry(n, n # file, n # stuck) : n \in there} :
     there \in SUBSET CacheNames, file \in {[v |-> FALSE, numbers |-> <<2, 0>>], Nobody},
     stuck \in {[v |-> FALSE, numbers |-> <<1, 10>>], Nobody}}
SweepInputs ==
  [cache : [state : {"there"}, registry : Records, entries : Cached]
             \cup [state : {"missing", "unreadable"}, registry : Records, entries : {{}}],
   running : {Nobody, [v |-> FALSE, numbers |-> <<2, 0>>], [v |-> TRUE, numbers |-> <<1, 9>>]}, apply : BOOLEAN]
AskSweep == Ask("sweep") /\ said' \in Prune(given.cache, given.running, given.apply)

\* prune: whatever is cached, in use, running or refuses to go.
SweepKeepsWhatIsUsed ==
  about = "sweep" /\ done => SweepLeavesAWayBack(given.cache, given.running, given.apply, said)

-----------------------------------------------------------------------------
LegsInit ==
  /\ done = FALSE /\ said = {}
  /\ \/ about = "secrets" /\ given \in SecretsInputs
     \/ about = "sast" /\ given \in SastInputs
     \/ about = "deps" /\ given \in RepoInputs
     \/ about \in {"lint", "types"} /\ given \in LintInputs
     \/ about = "format" /\ given \in FormatInputs
     \/ about \in {"maintain", "infra", "actions"} /\ given \in TreeInputs
     \/ about = "targets" /\ given \in Changed
     \/ about = "suites" /\ given \in SuiteInputs
     \/ about = "failures" /\ given \in EventInputs
     \/ about = "env" /\ given \in EnvInputs
     \/ about = "narrow" /\ given \in NarrowInputs
     \/ about = "hygiene" /\ given \in CreditInputs
     \/ about = "agents" /\ given \in CopyInputs
     \/ about = "workflow" /\ given \in WorkflowInputs
     \/ about = "command" /\ given \in CommandInputs
     \/ about = "quotes" /\ given \in QuoteInputs
     \/ about = "message" /\ given \in HeredocInputs
     \/ about = "parts" /\ given \in FitInputs
     \/ about = "sweep" /\ given \in SweepInputs

LegsNext ==
  \/ AskSecrets \/ AskSast \/ AskDeps
  \/ AskLint \/ AskTypes \/ AskFormat \/ AskComplexity \/ AskInfra \/ AskActions
  \/ AskTargets \/ AskSuites \/ AskFailures \/ AskEnv
  \/ AskNarrow \/ AskHygiene \/ AskAgents \/ AskWorkflow
  \/ AskCommand \/ AskQuotes \/ AskMessage \/ AskParts
  \/ AskSweep
=============================================================================
