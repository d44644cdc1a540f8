------------------------------ MODULE LegsProofs ------------------------------
(***************************************************************************)
(* What the legs of the gate, `env`, `prune`, the rules, the readers of    *)
(* pages, specs and plans and the index make of one input, for every       *)
(* input; and, with HookProofs, every behaviour of MCChecks.               *)
(***************************************************************************)
EXTENDS MCChecks, HookProofs

-----------------------------------------------------------------------------
(* security *)

\* A scanner's answer: it reports, or says nothing and has found nothing.
AnswerOfScanner(answer) ==
  (answer.said = "report" \/ answer.said \in Silences) /\ (answer.said # "report" => answer.hits = {})

LEMMA SilenceIsFound ==
  ASSUME NEW x, NEW found, NotScanned(x) \in found
  PROVE  \E f \in found : f.file = x /\ f.blocking /\ ~f.checked
<1> WITNESS NotScanned(x) \in found
<1> QED BY DEF NotScanned

\* gitleaks, for any files and answers, old gitleaks or new (Secrets, ScanOne).
THEOREM SecretsAreSaid ==
  ASSUME NEW installed \in BOOLEAN, NEW there, NEW answers, NEW legacy, AnswerOfScanner(legacy),
         \A p \in there : AnswerOfScanner(answers[p]) \/ answers[p].said = "no dir"
  PROVE  LeaksAreSaid(installed, there, answers, legacy, Secrets(installed, there, answers, legacy))
<1> DEFINE found == Secrets(installed, there, answers, legacy)
<1> SUFFICES ASSUME NEW p \in there
             PROVE  LET last == IF answers[p].said = "no dir" THEN legacy ELSE answers[p] IN
                      /\ SilenceBlocks(installed /\ last.said \notin Silences, {f \in found : f.file \in {p, Nowhere}})
                      /\ installed => \A h \in last.hits : Hit(h, TRUE) \in found
  BY DEF LeaksAreSaid
<1> DEFINE last == IF answers[p].said = "no dir" THEN legacy ELSE answers[p]
<1>1. CASE ~installed
  <2>1. NotScanned(Nowhere) \in found
    BY <1>1 DEF Secrets
  <2> HIDE DEF found
  <2> QED BY <1>1, <2>1, SilenceIsFound DEF SilenceBlocks
<1>2. CASE installed
  <2>1. ScanOne(p, answers[p], legacy) \subseteq found
    BY <1>2 DEF Secrets
  <2>2. CASE last.said \in Silences
    <3>1. NotScanned(p) \in found
      BY <1>2, <2>1, <2>2 DEF ScanOne
    <3>2. last.hits = {}
      BY <2>2 DEF AnswerOfScanner, Silences
    <3> HIDE DEF found
    <3> QED BY <2>2, <3>1, <3>2, SilenceIsFound DEF SilenceBlocks
  <2>3. CASE last.said \notin Silences
    BY <1>2, <2>1, <2>3 DEF ScanOne, SilenceBlocks
  <2> QED BY <2>2, <2>3
<1> QED BY <1>1, <1>2

\* semgrep, for any files of the commit, any tree around it, any slots and any bar
\* (SastChanged, Sast): it is told of some files, and reports on those.
THEOREM SastIsSaid ==
  ASSUME NEW installed \in BOOLEAN, NEW repo, NEW machine, NEW bar, NEW answer, AnswerOfScanner(answer),
         NEW tree, NEW changed \in SUBSET tree, Nowhere \notin tree,
         NEW hits, \A h \in hits : h.file \in IncludesFor(changed, tree) => h \in answer.hits
  PROVE  FlawsAreSaid(changed, installed /\ ~SlotBusy(repo, machine) /\ answer.said = "report", bar, hits,
           SastChanged(changed, Sast(installed, repo, machine, bar, answer)))
<1> DEFINE found == SastChanged(changed, Sast(installed, repo, machine, bar, answer))
           answered == installed /\ ~SlotBusy(repo, machine) /\ answer.said = "report"
<1>1. ASSUME changed # {}, ~answered PROVE \E f \in found : f.blocking /\ ~f.checked
  <2>1. NotScanned(Nowhere) \in Sast(installed, repo, machine, bar, answer)
    BY <1>1 DEF Sast, AnswerOfScanner
  <2>2. NotScanned(Nowhere) \in found
    BY <1>1, <2>1 DEF SastChanged, NotScanned
  <2> QED BY <2>2, SilenceIsFound
<1>2. ASSUME answered, NEW h \in hits, h.file \in changed
      PROVE  \E f \in found : f.file = h.file /\ (h.severity = "ERROR" => f.blocking)
  <2> DEFINE f == Hit(h.file, SeverityAtLeast(h.severity, bar))
  <2>1. h \in answer.hits
    BY <1>2 DEF IncludesFor
  <2>2. f \in Sast(installed, repo, machine, bar, answer)
    BY <1>2, <2>1 DEF Sast, Silences
  <2>3. f \in found
    BY <1>2, <2>2 DEF SastChanged, Hit
  <2>4. h.severity = "ERROR" => SeverityAtLeast(h.severity, bar)
    BY DEF SeverityAtLeast, Rank
  <2> QED BY <2>3, <2>4 DEF Hit
<1>3. ASSUME NEW f \in found PROVE f.file = Nowhere \/ f.file \in changed
  BY <1>3 DEF SastChanged
<1> QED BY <1>1, <1>2, <1>3 DEF FlawsAreSaid, SilenceBlocks

\* A path's prefix has no more names than the path.
LEMMA PrefixNames ==
  ASSUME NEW Element, NEW path \in Seq(Element), NEW n \in 0 .. Len(path)
  PROVE  /\ SubSeq(path, 1, n) \in Seq(Element)
         /\ Len(SubSeq(path, 1, n)) = n
         /\ ToSet(SubSeq(path, 1, n)) \subseteq ToSet(path)
BY DEF ToSet

\* Where the files of a repository lie.
PathsOf(repo, Segment) == \A f \in repo.files : f.dir \in Seq(Segment)

\* A file's own directory and those above it are no copies of somebody else's
\* code if it is none itself (dependencyFiles, ManifestDirs).
LEMMA OwnDirectories ==
  ASSUME NEW repo, NEW Segment, PathsOf(repo, Segment), NEW f \in DependencyFiles(repo, <<>>, {"package.json", "pyproject.toml"}),
         NEW n \in 0 .. Len(f.dir), NEW locks \in SUBSET DepManifests,
         Beside(repo, SubSeq(f.dir, 1, n), locks)
  PROVE  \E l \in Manifests(repo) : l.dir = SubSeq(f.dir, 1, n) /\ l.name \in locks
<1> DEFINE above == SubSeq(f.dir, 1, n)
<1>1. PICK l \in DependencyFiles(repo, above, locks) : l.dir = above
  BY DEF Beside
<1>0. f.dir \in Seq(Segment)
  BY DEF DependencyFiles, PathsOf
<1>2. ToSet(SubSeq(f.dir, 1, Len(f.dir))) \cap ManifestDirs = {}
  BY DEF DependencyFiles
<1>3. SubSeq(f.dir, 1, Len(f.dir)) = f.dir /\ SubSeq(above, 1, Len(above)) = above
  BY <1>0, PrefixNames
<1>4. ToSet(above) \cap ManifestDirs = {}
  BY <1>0, <1>2, <1>3, PrefixNames
<1>5. IsPrefix(<<>>, l.dir)
  BY <1>0, <1>1, PrefixNames DEF IsPrefix
<1>6. SubSeq(l.dir, Len(<<>>) + 1, Len(l.dir)) = above
  BY <1>1, <1>3
<1>7. l \in repo.files /\ l.name \in locks /\ (l.state = "there" \/ (~repo.git /\ l.state = "ignored"))
  BY <1>1 DEF DependencyFiles
<1>8. l \in Manifests(repo)
  BY <1>4, <1>5, <1>6, <1>7 DEF Manifests, DependencyFiles
<1> QED BY <1>1, <1>7, <1>8

\* osv-scanner and the gaps before it, for any files, locks, patterns of members and
\* directories (Deps): what is declared is looked at or named.
THEOREM DependenciesAreSaid ==
  ASSUME NEW repo, NEW Segment, PathsOf(repo, Segment), NEW answer
  PROVE  DeclaredIsLookedAt(repo, Deps(TRUE, repo, answer))
<1> SUFFICES ASSUME NEW f \in DependencyFiles(repo, <<>>, {"package.json", "pyproject.toml"}), f.says = "dependencies",
                    NotScanned(f.dir) \notin Deps(TRUE, repo, answer)
             PROVE  LookedAt(repo, f)
  BY DEF DeclaredIsLookedAt
<1>1. f \in repo.files /\ f.dir \in Seq(Segment) /\ f.name \in {"package.json", "pyproject.toml"}
  BY DEF DependencyFiles, PathsOf
<1>2. f \notin NpmGaps(repo) \cup PythonGaps(repo)
  BY DEF Deps
<1>3. NpmLocks \subseteq DepManifests /\ PythonLocks \subseteq DepManifests
  BY LegsAssumption DEF DepManifests
<1>4. Len(f.dir) \in 0 .. Len(f.dir) /\ SubSeq(f.dir, 1, Len(f.dir)) = f.dir
  BY <1>1
<1>5. ASSUME NEW locks \in SUBSET DepManifests, Beside(repo, f.dir, locks) PROVE LookedAt(repo, f)
  <2>1. PICK n \in 0 .. Len(f.dir) : SubSeq(f.dir, 1, n) = f.dir
    BY <1>4
  <2>2. Beside(repo, SubSeq(f.dir, 1, n), locks)
    BY <1>5, <2>1
  <2>3. \E l \in Manifests(repo) : l.dir = SubSeq(f.dir, 1, n) /\ l.name \in locks
    BY <1>1, <2>2, OwnDirectories
  <2> QED BY <2>1, <2>3 DEF LookedAt
<1>6. CASE f.name = "pyproject.toml"
  <2>1. f \in DependencyFiles(repo, <<>>, {"pyproject.toml"})
    BY <1>6 DEF DependencyFiles
  <2> QED BY <1>2, <1>3, <1>5, <2>1 DEF PythonGaps
<1>7. CASE f.name = "package.json" /\ NpmWorkspaceCovers(repo, f.dir)
  <2>1. PICK n \in 0 .. Len(f.dir) - 1 :
          LET above == SubSeq(f.dir, 1, n) IN
            /\ Beside(repo, above, NpmLocks)
            /\ WorkspaceGlobsMatch(repo.members[above], SubSeq(f.dir, n + 1, Len(f.dir)))
    BY <1>7 DEF NpmWorkspaceCovers
  <2> DEFINE above == SubSeq(f.dir, 1, n)
  <2>2. n \in 0 .. Len(f.dir) /\ Len(above) = n /\ above # f.dir
    BY <1>1, <2>1, PrefixNames
  <2>3. PICK l \in Manifests(repo) : l.dir = above /\ l.name \in NpmLocks
    BY <1>1, <1>3, <2>1, <2>2, OwnDirectories
  <2>4. IsStrictPrefix(l.dir, f.dir)
    <3>1. SubSeq(above, 1, n) = above
      BY <1>1, <2>2, PrefixNames
    <3> QED BY <1>1, <2>2, <2>3, <3>1 DEF IsStrictPrefix, IsPrefix
  <2>5. WorkspaceGlobsMatch(repo.members[l.dir], SubSeq(f.dir, Len(l.dir) + 1, Len(f.dir)))
    BY <2>1, <2>2, <2>3
  <2> QED BY <1>7, <2>3, <2>4, <2>5 DEF LookedAt, WorkspaceGlobsMatch
<1>8. CASE f.name = "package.json" /\ ~NpmWorkspaceCovers(repo, f.dir)
  <2>1. f \in DependencyFiles(repo, <<>>, {"package.json"})
    BY <1>8 DEF DependencyFiles
  <2> QED BY <1>2, <1>3, <1>5, <1>8, <2>1 DEF NpmGaps, Declares
<1> QED BY <1>1, <1>6, <1>7, <1>8

-----------------------------------------------------------------------------
(* lint, format, maintain, infra, actions *)

\* How a run that has looked ends, and one that has not: what it leaves then is no
\* report.
TellsItself(run) ==
  IF run.looked THEN run.said = "report" /\ (run.end = "ok" \/ run.hits # {}) /\ run.end # "late"
  ELSE /\ run.end # "ok" /\ (run.end = "one" => run.said = "nothing")
       /\ run.said \in {"nothing", "garbage", "nothing to analyse"} /\ run.hits = {}

LEMMA FirstIsOne == ASSUME NEW files, files # {} PROVE First(files) \in files
BY DEF First

LEMMA SilenceSaid ==
  ASSUME NEW files, NEW found, NEW f \in files, NotChecked(f) \in found
  PROVE  SilenceOn(files, found)
<1> SUFFICES \E a \in found : a.file \in files /\ a.kind = "silence" /\ a.blocking
  BY DEF SilenceOn
<1> WITNESS NotChecked(f) \in found
<1> QED BY DEF NotChecked

\* A tool that looked has its findings told, one that did not is told about.
LEMMA RunToolSays ==
  ASSUME NEW files, NEW tool, NEW block, NEW w, TellsItself(w.runs[tool])
  PROVE  /\ Looked(tool, w) => Judgements(w.runs[tool], block) \subseteq RunTool(tool, files, block, w)
         /\ ~Looked(tool, w) => NotChecked(First(files)) \in RunTool(tool, files, block, w)
BY DEF RunTool, FinishParse, ExitOneAnswer, Looked, TellsItself

LEMMA EslintSays ==
  ASSUME NEW files, files # {}, NEW ready, NEW block, NEW w, TellsItself(w.runs["eslint"])
  PROVE  /\ ready /\ Looked("eslint", w) => Judgements(w.runs["eslint"], block) \subseteq Eslint(files, ready, block, w)
         /\ ~(ready /\ Looked("eslint", w)) => NotChecked(First(files)) \in Eslint(files, ready, block, w)
BY DEF Eslint, ParseEslint, Looked, TellsItself

LEMMA PhpstanSays ==
  ASSUME NEW files, NEW block, NEW w, TellsItself(w.runs["phpstan"])
  PROVE  /\ Looked("phpstan", w) => Judgements(w.runs["phpstan"], block) \subseteq RunPhpstan(files, block, w)
         /\ ~Looked("phpstan", w) =>
              \/ NotChecked(First(files)) \in RunPhpstan(files, block, w)
              \/ w.runs["phpstan"].said = "nothing to analyse" /\ Note(First(files)) \in RunPhpstan(files, block, w)
BY DEF RunPhpstan, Looked, TellsItself

Groups == DOMAIN Plain \cup {"go", "js", "rs", "php", "c"}

LEMMA SkipsGroups == \A t \in DOMAIN SkipGroups : SkipGroups[t] \in Groups
<1>1. ASSUME NEW t \in {Plain[l] : l \in DOMAIN Plain}
      PROVE  (CHOOSE l \in DOMAIN Plain : Plain[l] = t) \in DOMAIN Plain
  <2>1. PICK l \in DOMAIN Plain : Plain[l] = t
    BY <1>1
  <2> QED BY <2>1
<1> QED BY <1>1 DEF SkipGroups, Groups

\* Who looks at a file depends on its group, and on what php is configured for.
LEMMA GroupLinters ==
  ASSUME NEW f, NEW w
  PROVE  /\ GroupOf(f) = "go" => LintersOf(f, w) = {"golangci-lint"}
         /\ GroupOf(f) = "rs" => LintersOf(f, w) = {"cargo"}
         /\ GroupOf(f) = "js" => LintersOf(f, w) = {"eslint"}
         /\ GroupOf(f) = "c" => LintersOf(f, w) = {"clang-tidy"}
         /\ GroupOf(f) = "php" => LintersOf(f, w) = IF {"phpstan", "phpcs"} \cap w.configs = {} THEN {"phpstan"}
                                                   ELSE {"phpstan", "phpcs"} \cap w.configs
         /\ GroupOf(f) \in DOMAIN Plain =>
              LintersOf(f, w) = {Plain[GroupOf(f)]} /\ Plain[GroupOf(f)] \notin {"cargo", "eslint", "phpstan"}
BY DEF LintersOf, GroupOf, Plain

\* lint.Files over any files, tools, configurations and names to skip (LintFiles):
\* every linter that has to look at a file has looked or is said not to have.
THEOREM LintIsSaid ==
  ASSUME NEW files, NEW block, NEW w, \A f \in files : \A t \in LintersOf(f, w) : TellsItself(w.runs[t])
  PROVE  NothingUnlinted(files, block, w, LintFiles(files, block, w))
<1> DEFINE found == LintFiles(files, block, w)
           group == [l \in Groups |-> {f \in files : f.lang = l \/ (l = "js" /\ f.lang = "ts")}]
           Of(l) == CASE l = "go" -> LintGo(group[l], block, w)
                      [] l = "rs" -> LintRust(group[l], block, w)
                      [] l = "js" -> LintJS(group[l], block, w)
                      [] l = "php" -> LintPHP(group[l], block, w)
                      [] l = "c" -> LintCFamily(group[l], block, w)
                      [] OTHER -> RunTool(Plain[l], group[l], block, w)
<1>1. /\ SkipNotes(group, w) \subseteq found
      /\ \A l \in Groups \ Skipped(w) : group[l] # {} => Of(l) \subseteq found
  BY DEF LintFiles, Groups
<1> SUFFICES ASSUME NEW f \in files
             PROVE  LET alike == {g \in files : GroupOf(g) = GroupOf(f)} IN
                      IF Out(f, w) THEN \E g \in alike : Note(g) \in found
                      ELSE \A t \in LintersOf(f, w) :
                        IF Equipped(f, t, w) /\ Looked(t, w) THEN f \in w.runs[t].hits => Judged(f, block) \in found
                        ELSE \/ SilenceOn(alike, found)
                             \/ t = "phpstan" /\ w.runs[t].said = "nothing to analyse" /\ \E g \in alike : Note(g) \in found
  BY DEF NothingUnlinted
<1> DEFINE l == GroupOf(f)
           fs == group[l]
           alike == {g \in files : GroupOf(g) = l}
<1>2. ASSUME l \in Groups PROVE fs = alike /\ f \in fs /\ First(fs) \in fs
  BY <1>2, FirstIsOne DEF GroupOf, Groups, Plain
<1>3. CASE l \in Skipped(w)
  <2>1. l \in Groups
    BY <1>3, SkipsGroups DEF Skipped
  <2>2. Note(First(fs)) \in SkipNotes(group, w)
    BY <1>2, <1>3, <2>1 DEF SkipNotes
  <2> QED BY <1>1, <1>2, <1>3, <2>1, <2>2 DEF Out
<1>4. ASSUME l \notin Groups, NEW t \in LintersOf(f, w) PROVE FALSE
  BY <1>4 DEF LintersOf, GroupOf, Groups
<1>5. CASE l \in Groups \ Skipped(w)
  <2>1. fs = alike /\ f \in fs /\ First(fs) \in fs /\ Of(l) \subseteq found
    BY <1>1, <1>2, <1>5
  <2> HIDE DEF found, group
  <2>2. CASE l = "js"
    <3> DEFINE own == {g \in fs : g.own}
               ts == {g \in fs \ own : g.lang = "ts"}
               others == fs \ (own \cup ts)
    <3>1. LintJS(fs, block, w) \subseteq found
      BY <2>1, <2>2
    <3>2. CASE Out(f, w)
      <4>1. f \in ts /\ "typescript-eslint" \in w.skip
        BY <1>5, <2>1, <3>2 DEF Out
      <4>2. First(ts) \in ts
        BY <4>1, FirstIsOne
      <4>3. Note(First(ts)) \in LintJS(fs, block, w)
        BY <4>1 DEF LintJS
      <4> QED BY <2>1, <3>1, <3>2, <4>2, <4>3
    <3>3. CASE ~Out(f, w)
      <4>1. LintersOf(f, w) = {"eslint"}
        BY <2>2, GroupLinters
      <4>2. TellsItself(w.runs["eslint"])
        BY <4>1
      <4> DEFINE ready == f.own \/ (w.temp /\ (f.lang = "ts" => "typescript-eslint" \in w.tools))
      <4>3. PICK some \in SUBSET fs : f \in some /\ Eslint(some, ready, block, w) \subseteq LintJS(fs, block, w)
        <5>1. CASE f \in own
          BY <2>1, <5>1 DEF LintJS
        <5>2. CASE f \in ts
          <6>1. "typescript-eslint" \notin w.skip
            BY <3>3, <5>2 DEF Out
          <6>2. Eslint(ts, w.temp /\ "typescript-eslint" \in w.tools, block, w) \subseteq LintJS(fs, block, w)
            BY <5>2, <6>1 DEF LintJS
          <6>3. ready = (w.temp /\ "typescript-eslint" \in w.tools)
            BY <5>2
          <6> QED BY <2>1, <5>2, <6>2, <6>3
        <5>3. CASE f \in others
          <6>1. Eslint(others, w.temp, block, w) \subseteq LintJS(fs, block, w)
            BY DEF LintJS
          <6>2. Eslint(others, ready, block, w) = Eslint(others, w.temp, block, w)
            BY <2>1, <5>3 DEF Eslint
          <6> QED BY <2>1, <5>3, <6>1, <6>2
        <5> QED BY <2>1, <5>1, <5>2, <5>3
      <4>4. Equipped(f, "eslint", w) <=> ready
        BY DEF Equipped
      <4>5. CASE ready /\ Looked("eslint", w)
        BY <3>1, <3>3, <4>1, <4>2, <4>3, <4>4, <4>5, EslintSays DEF Judgements
      <4>6. CASE ~(ready /\ Looked("eslint", w))
        <5>1. NotChecked(First(some)) \in found /\ First(some) \in alike
          BY <2>1, <3>1, <4>2, <4>3, <4>6, EslintSays, FirstIsOne
        <5>2. SilenceOn(alike, found)
          BY <5>1, SilenceSaid
        <5> QED BY <3>3, <4>1, <4>4, <4>6, <5>2
      <4> QED BY <4>5, <4>6
    <3> QED BY <3>2, <3>3
  <2>3. ASSUME l # "js" PROVE ~Out(f, w)
    BY <1>5, <2>3 DEF Out, GroupOf
  <2>4. ASSUME NotChecked(First(fs)) \in found PROVE SilenceOn(alike, found)
    BY <2>1, <2>4, SilenceSaid
  <2>5. CASE l = "go"
    <3>1. LintersOf(f, w) = {"golangci-lint"} /\ TellsItself(w.runs["golangci-lint"])
      BY <2>5, GroupLinters
    <3>2. Within(fs, RunTool("golangci-lint", fs, block, w)) \subseteq found
      BY <2>1, <2>5 DEF LintGo
    <3>3. Looked("golangci-lint", w) /\ f \in w.runs["golangci-lint"].hits => Judged(f, block) \in found
      BY <2>1, <3>1, <3>2, RunToolSays DEF Within, Judgements, Judged
    <3>4. ~Looked("golangci-lint", w) => NotChecked(First(fs)) \in found
      BY <2>1, <3>1, <3>2, RunToolSays DEF Within, NotChecked
    <3> QED BY <2>3, <2>4, <2>5, <3>1, <3>3, <3>4 DEF Equipped
  <2>6. CASE l = "rs"
    <3>1. LintersOf(f, w) = {"cargo"} /\ TellsItself(w.runs["cargo"])
      BY <2>6, GroupLinters
    <3>2. LintRust(fs, block, w) \subseteq found
      BY <2>1, <2>6
    <3>3. "Cargo.toml" \in w.configs /\ Looked("cargo", w) /\ f \in w.runs["cargo"].hits => Judged(f, block) \in found
      BY <2>1, <3>1, <3>2, RunToolSays DEF LintRust, Within, Judgements, Judged
    <3>4. "Cargo.toml" \notin w.configs \/ ~Looked("cargo", w) => NotChecked(First(fs)) \in found
      BY <2>1, <3>1, <3>2, RunToolSays DEF LintRust, Within, NotChecked
    <3> QED BY <2>3, <2>4, <2>6, <3>1, <3>3, <3>4 DEF Equipped
  <2>7. CASE l = "c"
    <3>1. LintersOf(f, w) = {"clang-tidy"} /\ TellsItself(w.runs["clang-tidy"])
      BY <2>7, GroupLinters
    <3>2. LintCFamily(fs, block, w) \subseteq found
      BY <2>1, <2>7
    <3>3. Looked("clang-tidy", w) /\ f \in w.runs["clang-tidy"].hits => Judged(f, block) \in found
      BY <3>1, <3>2 DEF LintCFamily, Looked, TellsItself, Judgements
    <3>4. ~Looked("clang-tidy", w) => NotChecked(First(fs)) \in found
      BY <2>1, <3>1, <3>2 DEF LintCFamily, Looked, TellsItself
    <3> QED BY <2>3, <2>4, <2>7, <3>1, <3>3, <3>4 DEF Equipped
  <2>8. CASE l = "php"
    <3>1. LintPHP(fs, block, w) \subseteq found
      BY <2>1, <2>8
    <3>2. ASSUME NEW t \in LintersOf(f, w)
          PROVE IF Equipped(f, t, w) /\ Looked(t, w) THEN f \in w.runs[t].hits => Judged(f, block) \in found
                ELSE \/ SilenceOn(alike, found)
                     \/ t = "phpstan" /\ w.runs[t].said = "nothing to analyse" /\ \E g \in alike : Note(g) \in found
      <4>1. /\ t \in {"phpstan", "phpcs"} /\ TellsItself(w.runs[t])
            /\ t \in w.configs \/ (t = "phpstan" /\ {"phpstan", "phpcs"} \cap w.configs = {})
        BY <2>8, <3>2, GroupLinters
      <4>2. CASE t = "phpcs"
        <5>1. RunTool("phpcs", fs, block, w) \subseteq found
          BY <3>1, <4>1, <4>2 DEF LintPHP
        <5> QED BY <2>4, <4>1, <4>2, <5>1, RunToolSays DEF Equipped, Judgements
      <4>3. CASE t = "phpstan" /\ (t \in w.configs \/ ("phpstan" \in w.tools /\ w.temp))
        <5>1. RunPhpstan(fs, block, w) \subseteq found
          BY <3>1, <4>1, <4>3 DEF LintPHP
        <5>2. Equipped(f, t, w)
          BY <4>3 DEF Equipped
        <5>3. Looked(t, w) /\ f \in w.runs[t].hits => Judged(f, block) \in found
          BY <4>1, <4>3, <5>1, PhpstanSays DEF Judgements
        <5>4. ~Looked(t, w) => \/ NotChecked(First(fs)) \in found
                               \/ w.runs[t].said = "nothing to analyse" /\ Note(First(fs)) \in found
          BY <4>1, <4>3, <5>1, PhpstanSays
        <5> QED BY <2>1, <2>4, <4>3, <5>2, <5>3, <5>4
      <4>4. CASE t = "phpstan" /\ t \notin w.configs /\ ~("phpstan" \in w.tools /\ w.temp)
        <5>1. NotChecked(First(fs)) \in found
          BY <3>1, <4>1, <4>4 DEF LintPHP
        <5>2. ~(Equipped(f, t, w) /\ Looked(t, w))
          BY <4>4 DEF Equipped, Looked
        <5> QED BY <2>4, <5>1, <5>2
      <4> QED BY <4>1, <4>2, <4>3, <4>4
    <3> QED BY <2>3, <2>8, <3>2
  <2>9. CASE l \in DOMAIN Plain
    <3>1. l = f.lang /\ l \notin {"go", "rs", "js", "php", "c", "ts"}
      BY <2>9 DEF Plain, GroupOf
    <3>2. LintersOf(f, w) = {Plain[l]} /\ Plain[l] \notin {"cargo", "eslint", "phpstan"}
      BY <2>9, GroupLinters
    <3>3. RunTool(Plain[l], fs, block, w) \subseteq found
      BY <2>1, <3>1
    <3>4. TellsItself(w.runs[Plain[l]])
      BY <3>2
    <3>5. Equipped(f, Plain[l], w)
      BY <3>2 DEF Equipped
    <3> QED BY <2>3, <2>4, <3>1, <3>2, <3>3, <3>4, <3>5, RunToolSays DEF Judgements
  <2> QED BY <1>5, <2>2, <2>5, <2>6, <2>7, <2>8, <2>9 DEF Groups
<1>6. CASE l \notin Groups
  BY <1>3, <1>4, <1>6 DEF Out, GroupOf, Groups
<1> QED BY <1>3, <1>5, <1>6

\* types.Check, for any files and tools.
THEOREM TypesAreSaid ==
  ASSUME NEW files, NEW block, NEW w, TellsItself(w.runs["tsc"]), TellsItself(w.runs["pyright"])
  PROVE  NothingUntyped(files, block, w, Types(files, block, w))
<1> DEFINE found == Types(files, block, w)
           ts == {f \in files : f.lang = "ts"}
           own == {f \in ts : f.own}
           py == {f \in files : f.lang = "py"}
<1> SUFFICES NothingUntyped(files, block, w, found)
  OBVIOUS
<1>1. ASSUME NEW f \in ts, ~f.own PROVE Note(f) \in found
  BY <1>1 DEF Types
<1>2. ASSUME NEW f \in own
      PROVE  IF Looked("tsc", w) THEN f \in w.runs["tsc"].hits => Judged(f, block) \in found
             ELSE SilenceOn(ts, found)
  <2>1. First(own) \in own
    BY <1>2, FirstIsOne
  <2>2. CASE Looked("tsc", w)
    <3>1. ~("tsc" \notin w.tools \/ (w.runs["tsc"].hits = {} /\ w.runs["tsc"].end # "ok"))
      BY <2>2 DEF Looked, TellsItself
    <3>2. Within(own, Judgements(w.runs["tsc"], block)) \subseteq found
      BY <1>2, <3>1 DEF Types
    <3> QED BY <1>2, <2>2, <3>2 DEF Within, Judgements, Judged
  <2>3. CASE ~Looked("tsc", w)
    <3>1. "tsc" \notin w.tools \/ (w.runs["tsc"].hits = {} /\ w.runs["tsc"].end # "ok")
      BY <2>3 DEF Looked, TellsItself
    <3>2. NotChecked(First(own)) \in found
      BY <1>2, <3>1 DEF Types
    <3> QED BY <2>1, <2>3, <3>2, SilenceSaid
  <2> QED BY <2>2, <2>3
<1>3. ASSUME NEW f \in py
      PROVE  IF Looked("pyright", w) THEN f \in w.runs["pyright"].hits => Judged(f, block) \in found
             ELSE SilenceOn(py, found)
  <2>1. First(py) \in py /\ RunTool("pyright", py, block, w) \subseteq found
    BY <1>3, FirstIsOne DEF Types
  <2>2. CASE Looked("pyright", w)
    BY <2>1, <2>2, RunToolSays DEF Judgements
  <2>3. CASE ~Looked("pyright", w)
    <3>1. NotChecked(First(py)) \in found
      BY <2>1, <2>3, RunToolSays
    <3> QED BY <2>1, <2>3, <3>1, SilenceSaid
  <2> QED BY <2>2, <2>3
<1> HIDE DEF found
<1> SUFFICES ASSUME NEW f \in files, f.lang \in {"ts", "py"}
             PROVE  LET t == IF f.lang = "ts" THEN "tsc" ELSE "pyright" IN
                      IF f.lang = "ts" /\ ~f.own THEN Note(f) \in found
                      ELSE IF Looked(t, w) THEN f \in w.runs[t].hits => Judged(f, block) \in found
                      ELSE SilenceOn({g \in files : g.lang = f.lang}, found)
  BY DEF NothingUntyped
<1>4. CASE f.lang = "ts"
  BY <1>1, <1>2, <1>4
<1>5. CASE f.lang = "py"
  BY <1>3, <1>5
<1> QED BY <1>4, <1>5

\* format.Check, for any formatter: what it does not answer is not clean.
THEOREM FormatIsSaid ==
  ASSUME NEW covered \in BOOLEAN, NEW readable \in BOOLEAN, NEW ready \in BOOLEAN, NEW installed \in BOOLEAN,
         NEW exitOne \in BOOLEAN, NEW run, run.looked \in BOOLEAN,
         IF run.looked THEN run.prints # "nothing" /\ (run.end = "ok" \/ (run.end = "one" /\ exitOne))
         ELSE run.prints = "nothing" \/ run.end \notin {"ok", "one"}
  PROVE  NothingUnformatted(run, FormatCheck(covered, readable, ready, installed, exitOne, run))
BY DEF NothingUnformatted, FormatCheck

\* The gate's complexity leg, for any files and tools.
THEOREM ComplexityIsSaid ==
  ASSUME NEW changed, NEW block, NEW w, \A t \in MaintainTools(w) : TellsItself(w.runs[t])
  PROVE  NothingTooComplex(changed, block, w, ComplexityChanged(changed, block, w))
<1> DEFINE found == ComplexityChanged(changed, block, w)
<1> SUFFICES ASSUME NEW t \in MaintainTools(w), changed # {}
             PROVE  IF t \in w.tools /\ w.runs[t].looked /\ (t = "ruff" \/ w.temp)
                    THEN \A f \in changed \cap w.runs[t].hits : Judged(f, block) \in found
                    ELSE SilenceOn({"tree"}, found)
  BY DEF NothingTooComplex
<1>1. CASE t \in w.tools /\ w.runs[t].looked /\ (t = "ruff" \/ w.temp)
  <2>1. ~MaintainOf(w, t).says
    BY <1>1 DEF MaintainOf, MaintainTool, TellsItself
  <2>2. Within(changed, Judgements(w.runs[t], block)) \subseteq found
    BY <2>1 DEF ComplexityChanged
  <2> QED BY <1>1, <2>2 DEF Within, Judgements, Judged
<1>2. CASE ~(t \in w.tools /\ w.runs[t].looked /\ (t = "ruff" \/ w.temp))
  <2>1. MaintainOf(w, t).says
    BY <1>2 DEF MaintainOf, MaintainTool, TellsItself, ExitOneAnswer
  <2>2. NotChecked("tree") \in found
    BY <2>1 DEF ComplexityChanged
  <2> HIDE DEF found
  <2> QED BY <1>2, <2>2, SilenceSaid
<1> QED BY <1>1, <1>2

\* What the manuals of these tools give an exit of 1 for is what they have found.
TellsByExit(run) == TellsItself(run) /\ (run.looked \/ run.end # "one")

\* A tool of infra that has not looked is said not to have, whatever made it end.
LEMMA InfraToolSays ==
  ASSUME NEW tool, NEW files, files # {}, NEW w, TellsByExit(w.runs[tool]), ~Looked(tool, w)
  PROVE  SilenceOn(files, InfraTool(tool, files, w))
<1>1. NotChecked(First(files)) \in InfraTool(tool, files, w)
  BY DEF InfraTool, FailedClean, Looked, TellsByExit, TellsItself
<1> QED BY <1>1, FirstIsOne, SilenceSaid

LEMMA MoreSilence ==
  ASSUME NEW files, NEW some, NEW all, some \subseteq all, SilenceOn(files, some)
  PROVE  SilenceOn(files, all)
BY DEF SilenceOn

\* infra.Check, for anything the walk finds and any tools.
THEOREM InfraIsSaid ==
  ASSUME NEW inventory, NEW w, \A t \in TreeTools : TellsByExit(w.runs[t])
  PROVE  NothingUnplanned(inventory, w, InfraCheck(inventory, w))
<1> DEFINE found == InfraCheck(inventory, w)
           tool == TerraformTool("auto", inventory.lock, {}, w.tools)
           Terraform(d) == TerraformDir(d, inventory.readable, tool, inventory.initialised, w)
<1> SUFFICES NothingUnplanned(inventory, w, found)
  OBVIOUS
<1>1. CASE ~inventory.walked
  <2>1. NotChecked("tree") \in found
    BY <1>1 DEF InfraCheck
  <2> HIDE DEF found
  <2> QED BY <1>1, <2>1, SilenceSaid DEF NothingUnplanned
<1>2. CASE inventory.walked
  <2>1. /\ InfraTool("hadolint", inventory.dockerfiles, w) \subseteq found
        /\ InfraTool("kubeconform", inventory.manifests, w) \subseteq found
        /\ \A c \in inventory.charts : HelmChart(c, w) \subseteq found
        /\ \A d \in inventory.modules : Terraform(d) \subseteq found
    <3>1. ASSUME NEW a \in InfraTool("hadolint", inventory.dockerfiles, w) \cup InfraTool("kubeconform", inventory.manifests, w)
          PROVE  a \in found
      BY <1>2, <3>1 DEF InfraCheck
    <3>2. ASSUME NEW c \in inventory.charts, NEW a \in HelmChart(c, w) PROVE a \in found
      BY <1>2, <3>2 DEF InfraCheck
    <3>3. ASSUME NEW d \in inventory.modules, NEW a \in Terraform(d) PROVE a \in found
      BY <1>2, <3>3 DEF InfraCheck
    <3> HIDE DEF found, Terraform
    <3> QED BY <3>1, <3>2, <3>3
  <2> HIDE DEF found
  <2>2. inventory.dockerfiles # {} /\ ~Looked("hadolint", w) => SilenceOn(inventory.dockerfiles, found)
    BY <2>1, InfraToolSays, MoreSilence DEF TreeTools
  <2>3. inventory.manifests # {} /\ ~Looked("kubeconform", w) => SilenceOn(inventory.manifests, found)
    BY <2>1, InfraToolSays, MoreSilence DEF TreeTools
  <2>4. ASSUME NEW c \in inventory.charts, ~Looked("helm", w) PROVE SilenceOn({c}, found)
    <3>1. TellsItself(w.runs["helm"])
      BY DEF TreeTools, TellsByExit
    <3>2. NotChecked(c) \in HelmChart(c, w)
      BY <2>4, <3>1 DEF HelmChart, Looked, TellsItself
    <3>3. NotChecked(c) \in found
      BY <2>1, <3>2
    <3> QED BY <3>3, SilenceSaid
  <2>5. ASSUME NEW d \in inventory.modules, ~SilenceOn({d}, found)
        PROVE  /\ w.runs["fmt"].looked
               /\ IF inventory.initialised THEN w.runs["validate"].looked ELSE Note(d) \in found
               /\ Looked("tflint", w)
    <3> DEFINE fmt == w.runs["fmt"]  validate == w.runs["validate"]
    <3>1. TellsByExit(fmt) /\ TellsByExit(validate) /\ TellsByExit(w.runs["tflint"])
      BY DEF TreeTools
    <3>2. NotChecked(d) \notin Terraform(d)
      BY <2>1, <2>5, SilenceSaid
    <3>3. inventory.readable /\ tool \in w.tools /\ fmt.end # "late"
      BY <3>2 DEF TerraformDir
    <3>4. NotChecked(d) \notin FailedClean(fmt, d) /\ (inventory.initialised => validate.end = "ok")
      BY <3>2, <3>3 DEF TerraformDir
    <3>5. fmt.looked
      BY <3>1, <3>4 DEF FailedClean, TellsByExit, TellsItself
    <3>6. IF inventory.initialised THEN validate.looked ELSE Note(d) \in Terraform(d)
      BY <3>1, <3>3, <3>4 DEF TerraformDir, TellsByExit, TellsItself
    <3>7. InfraTool("tflint", {d}, w) \subseteq Terraform(d)
      BY <3>3, <3>4 DEF TerraformDir
    <3>8. InfraTool("tflint", {d}, w) \subseteq found
      BY <2>1, <3>7
    <3>9. Looked("tflint", w)
      BY <2>5, <3>1, <3>8, InfraToolSays, MoreSilence
    <3> QED BY <2>1, <3>5, <3>6, <3>9
  <2> QED BY <1>2, <2>2, <2>3, <2>4, <2>5 DEF NothingUnplanned
<1> QED BY <1>1, <1>2

\* actions.Lint, for any workflows.
THEOREM ActionsAreSaid ==
  ASSUME NEW files, files # {}, NEW w, TellsItself(w.runs["actionlint"])
  PROVE  IF Looked("actionlint", w)
         THEN \A f \in w.runs["actionlint"].hits : Judged(f, TRUE) \in ActionsLint(files, w)
         ELSE SilenceOn(files, ActionsLint(files, w))
<1>1. CASE Looked("actionlint", w)
  BY <1>1 DEF ActionsLint, Judgements, Looked, TellsItself
<1>2. CASE ~Looked("actionlint", w)
  <2>1. NotChecked(First(files)) \in ActionsLint(files, w) /\ First(files) \in files
    BY <1>2, FirstIsOne DEF ActionsLint, Looked, TellsItself
  <2> QED BY <1>2, <2>1, SilenceSaid
<1> QED BY <1>1, <1>2

-----------------------------------------------------------------------------
(* plugincache *)

\* Of finitely many things, one has none after it.
LEMMA SomeLast ==
  ASSUME NEW S, IsFiniteSet(S), S # {}, NEW R, \A x \in S : <<x, x>> \notin R,
         \A x, y, z \in S : <<x, y>> \in R /\ <<y, z>> \in R => <<x, z>> \in R
  PROVE  \E x \in S : \A y \in S : <<x, y>> \notin R
<1> DEFINE After(x) == {y \in S : <<x, y>> \in R}
           T == {After(x) : x \in S}
<1>1. T \subseteq FiniteSubsetsOf(S)
  BY FS_Subset DEF FiniteSubsetsOf
<1>2. IsWellFoundedOn(StrictSubsetOrdering(S), FiniteSubsetsOf(S))
  BY FS_StrictSubsetOrderingWellFounded
<1>3. T # {}
  <2>1. PICK x : x \in S
    OBVIOUS
  <2>2. After(x) \in T
    BY <2>1
  <2> HIDE DEF T
  <2> QED BY <2>2
<1>4. PICK t \in T : \A u \in T : <<u, t>> \notin StrictSubsetOrdering(S)
  <2> HIDE DEF T
  <2> QED BY <1>1, <1>2, <1>3, WFMin
<1>5. PICK x \in S : t = After(x)
  BY <1>4
<1>6. ASSUME NEW y \in S, <<x, y>> \in R PROVE FALSE
  <2>1. After(y) \subseteq After(x) /\ y \in After(x) /\ y \notin After(y)
    BY <1>6
  <2>2. <<After(y), After(x)>> \in StrictSubsetOrdering(S)
    <3> DEFINE a == After(y)  b == After(x)
    <3>1. a \in SUBSET S /\ b \in SUBSET S /\ a \subseteq b /\ a # b
      BY <2>1
    <3> HIDE DEF a, b
    <3>2. <<a, b>> \in StrictSubsetOrdering(S)
      BY <3>1 DEF StrictSubsetOrdering
    <3> QED BY <3>2 DEF a, b
  <2> QED BY <1>4, <1>5, <2>2
<1> QED BY <1>6

\* The names of a cache are numbers between dots.
Numbered(names) == \A n \in names : n.numbers \in Seq(Nat)

\* compareVersions is a strict order, whatever the numbers.
LEMMA OlderIsAnOrder ==
  ASSUME NEW S, Numbered(S)
  PROVE  /\ \A a \in S : ~Older(a, a)
         /\ \A a, b, c \in S : Older(a, b) /\ Older(b, c) => Older(a, c)
<1>1. \A a \in S, i \in Nat \ {0} : Number(a, i) \in Nat /\ (Number(a, i) > 0 => i <= Len(a.numbers))
  BY DEF Numbered, Number
<1>2. \A a \in S : Len(a.numbers) \in Nat
  BY DEF Numbered
<1>3. ASSUME NEW a \in S, Older(a, a) PROVE FALSE
  <2>1. PICK i \in 1 .. Len(a.numbers) + Len(a.numbers) : Number(a, i) < Number(a, i)
    BY <1>3 DEF Older
  <2> QED BY <1>1, <1>2, <2>1
<1>4. ASSUME NEW a \in S, NEW b \in S, NEW c \in S, Older(a, b), Older(b, c)
      PROVE  Older(a, c)
  <2>1. PICK i \in 1 .. Len(a.numbers) + Len(b.numbers) :
               Number(a, i) < Number(b, i) /\ \A k \in 1 .. i - 1 : Number(a, k) = Number(b, k)
    BY <1>4 DEF Older
  <2>2. PICK j \in 1 .. Len(b.numbers) + Len(c.numbers) :
               Number(b, j) < Number(c, j) /\ \A k \in 1 .. j - 1 : Number(b, k) = Number(c, k)
    BY <1>4 DEF Older
  <2>3. i \in Nat \ {0} /\ j \in Nat \ {0}
    BY <1>2
  <2> DEFINE k == IF i <= j THEN i ELSE j
  <2>4. Number(a, k) < Number(c, k)
    <3>1. CASE i < j
      BY <1>1, <2>1, <2>2, <2>3, <3>1
    <3>2. CASE i = j
      BY <1>1, <2>1, <2>2, <2>3, <3>2
    <3>3. CASE j < i
      BY <1>1, <2>1, <2>2, <2>3, <3>3
    <3> QED BY <2>3, <3>1, <3>2, <3>3
  <2>5. k \in 1 .. Len(a.numbers) + Len(c.numbers)
    <3>1. k \in Nat \ {0}
      BY <2>3
    <3> HIDE DEF k
    <3>2. Number(c, k) > 0
      BY <1>1, <2>4, <3>1
    <3>3. k <= Len(c.numbers) /\ Len(c.numbers) \in Nat /\ Len(a.numbers) \in Nat
      BY <1>1, <1>2, <3>1, <3>2
    <3>4. \A m, n \in Nat, l \in Nat \ {0} : l <= n => l \in 1 .. m + n
      OBVIOUS
    <3> QED BY <3>1, <3>3, <3>4
  <2>6. ASSUME NEW n \in 1 .. k - 1 PROVE Number(a, n) = Number(c, n)
    BY <2>1, <2>2, <2>3
  <2> HIDE DEF k
  <2> QED BY <2>4, <2>5, <2>6 DEF Older
<1> QED BY <1>3, <1>4

\* Of the versions before another, one has none newer.
LEMMA NewestIsThere ==
  ASSUME NEW S, IsFiniteSet(S), S # {}, Numbered(S)
  PROVE  \E v \in S : \A w \in S : ~Older(v, w)
<1> DEFINE R == {p \in S \X S : Older(p[1], p[2])}
<1>1. \A x, y \in S : <<x, y>> \in R <=> Older(x, y)
  OBVIOUS
<1>2. /\ \A x \in S : <<x, x>> \notin R
      /\ \A x, y, z \in S : <<x, y>> \in R /\ <<y, z>> \in R => <<x, z>> \in R
  BY <1>1, OlderIsAnOrder
<1> HIDE DEF R
<1>3. PICK x \in S : \A y \in S : <<x, y>> \notin R
  BY <1>2, SomeLast
<1> QED BY <1>1, <1>3

\* Nothing that went is nothing reclaimed.
LEMMA NothingWeighsNothing == DirSizes({}) = 0
BY DEF DirSizes, MapThenSumSet, MapThenFoldSet

\* What the entries of a cache are: finitely many, one of a name, and none where
\* there is no directory to read.
CacheOf(cache) ==
  /\ IsFiniteSet(cache.entries)
  /\ \A d, e \in cache.entries : d.name = e.name => d = e
  /\ Numbered({e.name : e \in cache.entries})
  /\ cache.state \in {"there", "missing", "unreadable"}
  /\ cache.state # "there" => cache.entries = {}

LEMMA VersionsFinite ==
  ASSUME NEW cache, CacheOf(cache), NEW entries \in SUBSET cache.entries, NEW c, c.entries = entries
  PROVE  IsFiniteSet(Versions(c)) /\ Numbered(Versions(c)) /\ Versions(c) \subseteq {e.name : e \in entries}
<1> DEFINE T == {e \in entries : e.directory /\ IsVersion(e.name)}
           f == [e \in T |-> e.name]
<1>1. IsFiniteSet(T)
  BY FS_Subset DEF CacheOf
<1>2. f \in Surjection(T, Versions(c))
  BY DEF Surjection, Versions
<1>3. IsFiniteSet(Versions(c))
  BY <1>1, <1>2, FS_Surjection
<1> QED BY <1>3 DEF Versions, Numbered, CacheOf

\* `prune` (Compute, Apply, pruneCmd), for any cache, record and running version.
THEOREM SweepIsSafe ==
  ASSUME NEW cache, CacheOf(cache), NEW running, NEW apply \in BOOLEAN,
         IsFiniteSet(ActiveVersions(cache.registry)),
         NEW pruned \in Prune(cache, running, apply)
  PROVE  SweepLeavesAWayBack(cache, running, apply, pruned)
<1> DEFINE used == ActiveVersions(cache.registry)
           versions == Versions(cache)
           left == pruned.sweep.left
           gone == cache.entries \ left
           before(active) == {v \in versions : Older(v, active)}
<1>1. PICK plan \in Compute(cache, running) : pruned = PruneBy(cache.entries, plan, apply)
  BY DEF Prune
<1>2. IsFiniteSet(versions) /\ Numbered(versions) /\ versions \subseteq {e.name : e \in cache.entries}
  BY VersionsFinite
<1>3. \A e \in cache.entries : e.name \in versions <=> e.directory /\ IsVersion(e.name)
  BY DEF Versions, CacheOf
<1>4. /\ used = {} => plan = Refusal
      /\ used # {} => \E active \in used : plan \in Plans(cache, active, running)
  BY <1>1 DEF Compute
<1>5. /\ plan.removable \subseteq versions /\ running \notin plan.removable
      /\ plan.refused => plan.removable = {}
  BY <1>4 DEF Plans, Plan, Refusal
<1> DEFINE swept == {e \in cache.entries : e.directory /\ e.name \in plan.removable /\ e.goes}
\* Either nothing goes, or what was planned and can go.
<1>6. \/ /\ left = cache.entries /\ gone = {} /\ pruned.sweep.removed = {} /\ pruned.sweep.reclaimed = 0
         /\ pruned.code = IF plan.refused THEN 2 ELSE 0
         /\ plan.refused \/ plan.removable = {} \/ ~apply
      \/ /\ left = cache.entries \ swept /\ gone = swept /\ apply /\ ~plan.refused
         /\ pruned.sweep.removed = {e.name : e \in gone}
         /\ pruned.sweep.reclaimed = DirSizes(gone)
         /\ pruned.code = IF plan.removable \ {e.name : e \in gone} # {} THEN 1 ELSE 0
  <2>1. CASE plan.refused \/ plan.removable = {} \/ ~apply
    <3>1. left = cache.entries
      BY <1>1, <2>1 DEF PruneBy
    <3>2. gone = {}
      BY <3>1
    <3>3. /\ pruned.sweep.removed = {} /\ pruned.sweep.reclaimed = 0
          /\ pruned.code = IF plan.refused THEN 2 ELSE 0
      <4>1. CASE plan.refused
        BY <1>1, <4>1 DEF PruneBy
      <4>2. CASE ~plan.refused
        BY <1>1, <2>1, <4>2 DEF PruneBy
      <4> QED BY <4>1, <4>2
    <3> HIDE DEF gone, left
    <3> QED BY <2>1, <3>1, <3>2, <3>3
  <2>2. CASE ~(plan.refused \/ plan.removable = {} \/ ~apply)
    <3>1. pruned.sweep = Apply(cache.entries, plan) /\ pruned.code = IF Apply(cache.entries, plan).failures # {} THEN 1 ELSE 0
      BY <1>1, <2>2 DEF PruneBy
    <3>2. left = cache.entries \ swept
      BY <3>1 DEF Apply
    <3>3. gone = swept
      BY <3>2
    <3>4. pruned.sweep.removed = {e.name : e \in swept} /\ pruned.sweep.reclaimed = DirSizes(swept)
      BY <3>1 DEF Apply
    <3>5. pruned.code = IF plan.removable \ {e.name : e \in swept} # {} THEN 1 ELSE 0
      BY <3>1 DEF Apply
    <3> HIDE DEF swept, gone, left
    <3> QED BY <2>2, <3>2, <3>3, <3>4, <3>5
  <2> QED BY <2>1, <2>2
<1>7. gone \subseteq swept
  BY <1>6
<1>8. /\ pruned.sweep.removed = {e.name : e \in gone}
      /\ pruned.sweep.reclaimed = DirSizes(gone)
  <2>1. CASE gone = {}
    BY <1>6, <2>1, NothingWeighsNothing
  <2>2. CASE gone # {}
    BY <1>6, <2>2
  <2> QED BY <2>1, <2>2
<1>9. \A e \in gone : e.directory /\ IsVersion(e.name) /\ e.goes /\ e.name # running
  BY <1>3, <1>5, <1>7
<1>10. (used = {} => pruned.code = 2) /\ (gone # {} => apply /\ pruned.code # 2)
  BY <1>4, <1>6 DEF Refusal
<1>11. ASSUME NEW v \in versions, v \notin plan.removable PROVE v \in {e.name : e \in left}
  <2>1. PICK e \in cache.entries : e.name = v
    BY <1>2
  <2>2. e \in left
    BY <1>7, <1>11, <2>1
  <2> QED BY <2>1, <2>2
<1>12. ASSUME NEW active \in used, used = {active}
       PROVE  /\ gone # {} => active \in {e.name : e \in left}
              /\ before(active) # {} =>
                   \E v \in {e.name : e \in left} \cap before(active) : \A w \in before(active) : ~Older(v, w)
              /\ apply /\ pruned.code = 0 /\ active \in versions =>
                   Cardinality(Versions([cache EXCEPT !.entries = left]) \ {active, running}) <= 1
  <2>1. plan \in Plans(cache, active, running)
    BY <1>4, <1>12
  <2>2. CASE active \notin versions \/ cache.state # "there"
    <3>1. plan.removable = {}
      BY <2>1, <2>2 DEF Plans, Plan, Refusal, CacheOf
    <3>2. gone = {}
      BY <1>7, <3>1
    <3>3. before(active) # {} => \E v \in before(active) : \A w \in before(active) : ~Older(v, w)
      <4>1. IsFiniteSet(before(active)) /\ Numbered(before(active))
        BY <1>2, FS_Subset DEF Numbered
      <4> HIDE DEF before
      <4> QED BY <4>1, NewestIsThere
    <3>4. cache.state # "there" => versions = {}
      BY <1>2 DEF CacheOf
    <3> QED BY <1>11, <2>2, <3>1, <3>2, <3>3, <3>4
  <2>3. CASE active \in versions /\ cache.state = "there"
    <3>1. PICK kept \in Windows(versions, active) : plan = Plan(kept \cup ({running} \cap versions), versions \ (kept \cup {running}))
      BY <2>1, <2>3 DEF Plans
    <3>2. plan.removable = versions \ (kept \cup {running})
      BY <3>1 DEF Plan
    <3>3. \/ before(active) = {} /\ kept = {active}
          \/ \E v \in before(active) : kept = {active, v} /\ \A w \in before(active) : ~Older(v, w)
      BY <3>1 DEF Windows
    <3>4. active \in {e.name : e \in left}
      BY <1>11, <2>3, <3>2, <3>3
    <3>5. ASSUME before(active) # {}
          PROVE  \E v \in {e.name : e \in left} \cap before(active) : \A w \in before(active) : ~Older(v, w)
      BY <1>11, <3>2, <3>3, <3>5
    <3>6. ASSUME apply, pruned.code = 0
          PROVE  Cardinality(Versions([cache EXCEPT !.entries = left]) \ {active, running}) <= 1
      <4> DEFINE after == Versions([cache EXCEPT !.entries = left])
      <4>1. left = cache.entries \ gone
        <5>1. gone = swept
          BY <1>6, <3>6
        <5> HIDE DEF left, gone
        <5> QED BY <1>6
      <4>2. after = {e.name : e \in {e \in left : e.directory /\ IsVersion(e.name)}}
        BY DEF Versions
      <4>3. ASSUME NEW v \in after PROVE v \in versions /\ v \notin plan.removable
        <5>1. PICK e \in left : e.name = v /\ e.directory /\ IsVersion(v)
          BY <4>2
        <5>2. e \in cache.entries /\ e \notin gone
          BY <4>1, <5>1
        <5>3. v \in versions
          BY <1>3, <5>1, <5>2
        <5>4. ASSUME v \in plan.removable PROVE FALSE
          <6>1. PICK d \in gone : d.name = v
            BY <1>6, <3>6, <5>4
          <6> QED BY <5>1, <5>2, <6>1 DEF CacheOf
        <5> QED BY <5>3, <5>4
      <4>4. after \subseteq kept \cup {running}
        BY <3>2, <4>3
      <4>5. PICK v : after \ {active, running} \subseteq {v}
        BY <3>3, <4>4
      <4> HIDE DEF after
      <4>6. after \ {active, running} \in SUBSET {v} /\ IsFiniteSet({v}) /\ Cardinality({v}) = 1
        BY <4>5, FS_Singleton
      <4>7. Cardinality(after \ {active, running}) <= Cardinality({v})
        BY <4>6, FS_Subset
      <4> QED BY <4>6, <4>7 DEF after
    <3> QED BY <3>4, <3>5, <3>6
  <2> QED BY <2>2, <2>3 DEF CacheOf
<1>13. Cardinality(used) = 1 => \A active \in used : used = {active}
  BY FS_Singleton
<1> HIDE DEF gone
<1> QED BY <1>8, <1>9, <1>10, <1>12, <1>13 DEF SweepLeavesAWayBack, gone

-----------------------------------------------------------------------------
(* testrun *)

\* An image of finitely many things is finite and no larger.
LEMMA LangsFinite ==
  ASSUME NEW files, IsFiniteSet(files)
  PROVE  IsFiniteSet({f.lang : f \in files})
<1> DEFINE f == [x \in files |-> x.lang]
<1>1. f \in Surjection(files, {x.lang : x \in files})
  BY DEF Surjection
<1> QED BY <1>1, FS_Surjection

\* changedPackages, for any files of a commit.
THEOREM TargetsAreSaid ==
  ASSUME NEW files, IsFiniteSet(files)
  PROVE  TargetsAreTheRunners(files, ChangedPackages(files))
<1> DEFINE scoped == {f \in files : f.inside /\ f.lang \in PathScoped /\ ~f.manifest}
           langs == {f.lang : f \in scoped}
           whole == \E f \in files : f.inside /\ f.manifest
           chosen == ChangedPackages(files)
           Dirs(lang) == {f.dir : f \in {f \in files : f.inside /\ f.lang = lang /\ ~f.manifest}}
<1> SUFFICES ASSUME NEW lang \in EcosystemsOf({f \in files : f.inside}) \cap PathScoped
             PROVE  chosen.run /\ (chosen.targets = {} \/ chosen.targets = Dirs(lang))
  BY DEF TargetsAreTheRunners
<1>1. PICK g \in files : g.inside /\ g.lang = lang /\ lang \in PathScoped
  BY DEF EcosystemsOf
<1>2. chosen.run
  BY <1>1 DEF ChangedPackages
<1>3. ASSUME chosen.targets # {} PROVE chosen.targets = Dirs(lang)
  <2>1. ~whole /\ Cardinality(langs) = 1 /\ chosen.targets = {f.dir : f \in scoped}
    BY <1>3 DEF ChangedPackages
  <2>2. IsFiniteSet(scoped)
    BY FS_Subset
  <2>3. IsFiniteSet(langs)
    BY <2>2, LangsFinite
  <2>4. lang \in langs
    BY <1>1, <2>1
  <2>5. langs = {lang}
    <3> HIDE DEF langs
    <3> QED BY <2>1, <2>3, <2>4, FS_Singleton
  <2>6. scoped = {f \in files : f.inside /\ f.lang = lang /\ ~f.manifest}
    BY <1>1, <2>5
  <2> QED BY <2>1, <2>6
<1> QED BY <1>2, <1>3

\* GateCheck and the runners behind it, for any repository, commit and ends; what
\* the command and a close conclude agree.
THEOREM SuitesAreSaid ==
  ASSUME NEW repo, NEW files, NEW block, NEW results
  PROVE  /\ NothingRanUnsaid(repo, files, block, GateCheck(repo, files, block))
         /\ Suite(results) <=> Report(results) = 0
<1> DEFINE found == GateCheck(repo, files, block)
<1>1. ASSUME ChangedPackages(files).run, NEW eco \in EcosystemsOf(files) \cap repo.has, eco = "js" => repo.script
      PROVE  LET run == repo.runs[eco]
             IN  /\ ~run.installed \/ run.end = "late" => \E f \in found : f.eco = eco /\ f.blocking /\ ~f.ran
                 /\ run.installed /\ run.end \notin {"ok", "late"} => \E f \in found : f.eco = eco /\ f.blocking = block
  <2> DEFINE run == repo.runs[eco]
             r == RunOf(eco, run, "none")
  <2>1. r \in Run(repo, FALSE, "none")
    BY <1>1 DEF Run, RunJS, RunPytest
  <2>2. r.eco = eco
    BY DEF RunOf, NotRun, Verdict
  <2>3. FindingFor(r, block) \subseteq found
    BY <1>1, <2>1, <2>2 DEF GateCheck
  <2>4. ASSUME ~run.installed \/ run.end = "late"
        PROVE  [eco |-> eco, blocking |-> TRUE, ran |-> FALSE] \in FindingFor(r, block)
    BY <2>4 DEF RunOf, NotRun, FindingFor
  <2>5. ASSUME run.installed, run.end \notin {"ok", "late"}
        PROVE  [eco |-> eco, blocking |-> block, ran |-> TRUE] \in FindingFor(r, block)
    BY <2>5 DEF RunOf, Filters, Verdict, FindingFor
  <2> HIDE DEF found, r
  <2> QED BY <2>3, <2>4, <2>5
<1>2. NothingRanUnsaid(repo, files, block, found)
  BY <1>1 DEF NothingRanUnsaid
<1>3. Suite(results) <=> Report(results) = 0
  BY DEF Suite, Report
<1> QED BY <1>2, <1>3

\* The strict prefix of names is a strict order.
LEMMA PrefixIsAnOrder ==
  ASSUME NEW Element
  PROVE  /\ \A s \in Seq(Element) : ~IsStrictPrefix(s, s)
         /\ \A s, t, u \in Seq(Element) : IsStrictPrefix(s, t) /\ IsStrictPrefix(t, u) => IsStrictPrefix(s, u)
<1>1. \A s, t \in Seq(Element) : IsPrefix(s, t) <=> Len(s) <= Len(t) /\ \A i \in 1 .. Len(s) : s[i] = t[i]
  <2> TAKE s, t \in Seq(Element)
  <2>1. CASE Len(s) <= Len(t)
    <3>1. SubSeq(s, 1, Len(s)) = [i \in 1 .. Len(s) |-> s[i]]
      OBVIOUS
    <3>2. SubSeq(t, 1, Len(s)) = [i \in 1 .. Len(s) |-> t[i]]
      BY <2>1
    <3> QED BY <2>1, <3>1, <3>2 DEF IsPrefix
  <2>2. CASE ~(Len(s) <= Len(t))
    BY <2>2 DEF IsPrefix
  <2> QED BY <2>1, <2>2
<1>2. \A s, t \in Seq(Element) : Len(s) = Len(t) /\ (\A i \in 1 .. Len(s) : s[i] = t[i]) => s = t
  OBVIOUS
<1>3. ASSUME NEW s \in Seq(Element), NEW t \in Seq(Element), NEW u \in Seq(Element), IsStrictPrefix(s, t), IsStrictPrefix(t, u)
      PROVE  IsStrictPrefix(s, u)
  <2>1. Len(s) \in Nat /\ Len(t) \in Nat /\ Len(u) \in Nat
    OBVIOUS
  <2>2. Len(s) <= Len(t) /\ Len(t) <= Len(u) /\ s # t
    BY <1>1, <1>3 DEF IsStrictPrefix
  <2>3. \A i \in 1 .. Len(s) : s[i] = t[i] /\ t[i] = u[i]
    BY <1>1, <1>3, <2>1, <2>2 DEF IsStrictPrefix
  <2>4. IsPrefix(s, u)
    BY <1>1, <2>1, <2>2, <2>3
  <2>5. s # u
    BY <1>2, <2>1, <2>2, <2>3
  <2> QED BY <2>4, <2>5 DEF IsStrictPrefix
<1> QED BY <1>3 DEF IsStrictPrefix

LEMMA EventsFinite ==
  ASSUME NEW Element, NEW events \in Seq(Element)
  PROVE  ToSet(events) \subseteq Element /\ IsFiniteSet(ToSet(events))
<1> DEFINE f == [i \in 1 .. Len(events) |-> events[i]]
<1>1. f \in Surjection(1 .. Len(events), ToSet(events))
  BY DEF Surjection, ToSet
<1>2. IsFiniteSet(ToSet(events))
  BY <1>1, FS_Interval, FS_Surjection
<1> QED BY <1>2 DEF ToSet

\* gojson, for any events and any limit of what is shown.
THEOREM FailuresAreNamed ==
  ASSUME NEW events, NEW Packages, NEW Segment,
         events \in Seq([action : {"fail", "other"}, pkg : Packages, test : Seq(Segment)]),
         NEW built \in BOOLEAN, NEW stray \in BOOLEAN, NEW limit \in Nat \ {0}
  PROVE  EveryFailureIsNamed(events,
           LeafFailures(events) \cup {[action |-> "fail", pkg |-> p, test |-> <<>>] : p \in PackageOnlyFailures(events)},
           Excerpt(events, built, stray, limit))
<1> DEFINE Event == [action : {"fail", "other"}, pkg : Packages, test : Seq(Segment)]
           all == ToSet(events)
           leaves == LeafFailures(events)
           only == PackageOnlyFailures(events)
           alone == {[action |-> "fail", pkg |-> p, test |-> <<>>] : p \in only}
           named == leaves \cup alone
           shown == Excerpt(events, built, stray, limit)
<1> SUFFICES EveryFailureIsNamed(events, named, shown)
  OBVIOUS
<1>1. all \subseteq Event /\ IsFiniteSet(all)
  <2> HIDE DEF Event
  <2> QED BY EventsFinite DEF Event
<1>2. ASSUME NEW k \in FailedTests(events) PROVE \E l \in leaves : l.pkg = k.pkg
  <2> DEFINE S == {o \in FailedTests(events) : o.pkg = k.pkg}
             R == {p \in S \X S : IsStrictPrefix(p[1].test, p[2].test)}
  <2>1. IsFiniteSet(S) /\ S # {} /\ \A x \in S : x.test \in Seq(Segment)
    BY <1>1, <1>2, FS_Subset DEF FailedTests
  <2>2. \A x, y \in S : <<x, y>> \in R <=> IsStrictPrefix(x.test, y.test)
    OBVIOUS
  <2>3. /\ \A x \in S : <<x, x>> \notin R
        /\ \A x, y, z \in S : <<x, y>> \in R /\ <<y, z>> \in R => <<x, z>> \in R
    <3> HIDE DEF R, S
    <3> QED BY <2>1, <2>2, PrefixIsAnOrder
  <2>4. PICK x \in S : \A y \in S : <<x, y>> \notin R
    <3> HIDE DEF R, S
    <3> QED BY <2>1, <2>3, SomeLast
  <2>5. \A y \in S : ~IsStrictPrefix(x.test, y.test)
    BY <2>2, <2>4
  <2> QED BY <2>5 DEF LeafFailures
<1>3. {e.pkg : e \in {e \in all : e.action = "fail"}} = {n.pkg : n \in named}
  <2>1. ASSUME NEW e \in all, e.action = "fail" PROVE \E n \in named : n.pkg = e.pkg
    <3>1. CASE \E k \in FailedTests(events) : k.pkg = e.pkg
      BY <1>2, <3>1
    <3>2. CASE ~\E k \in FailedTests(events) : k.pkg = e.pkg
      <4>1. e.pkg \in only
        BY <2>1, <3>2 DEF PackageOnlyFailures, FailedPkgs, FailedTests
      <4>2. [action |-> "fail", pkg |-> e.pkg, test |-> <<>>] \in named
        BY <4>1
      <4> HIDE DEF named
      <4> QED BY <4>2
    <3> QED BY <3>1, <3>2
  <2>2. ASSUME NEW n \in named PROVE \E e \in all : e.action = "fail" /\ e.pkg = n.pkg
    BY DEF LeafFailures, FailedTests, PackageOnlyFailures, FailedPkgs
  <2> HIDE DEF named
  <2> QED BY <2>1, <2>2
<1>4. \A n \in named : ~\E e \in FailedTests(events) : e.pkg = n.pkg /\ IsStrictPrefix(n.test, e.test)
  BY DEF LeafFailures, PackageOnlyFailures
<1>5. /\ IsFiniteSet(leaves) /\ IsFiniteSet(only) /\ IsFiniteSet(named)
      /\ Cardinality(named) <= Cardinality(leaves) + Cardinality(only)
  <2>1. IsFiniteSet(leaves)
    BY <1>1, FS_Subset DEF LeafFailures, FailedTests
  <2>2. IsFiniteSet(only)
    <3> DEFINE T == {e \in all : e.action = "fail" /\ e.test = <<>>}
               f == [e \in T |-> e.pkg]
    <3>1. f \in Surjection(T, FailedPkgs(events))
      BY DEF Surjection, FailedPkgs
    <3>2. IsFiniteSet(T)
      BY <1>1, FS_Subset
    <3>3. IsFiniteSet(FailedPkgs(events))
      BY <3>1, <3>2, FS_Surjection
    <3> QED BY <3>3, FS_Subset DEF PackageOnlyFailures
  <2>3. IsFiniteSet(alone) /\ Cardinality(alone) <= Cardinality(only)
    <3> DEFINE g == [p \in only |-> [action |-> "fail", pkg |-> p, test |-> <<>>]]
    <3>1. g \in Surjection(only, alone)
      BY DEF Surjection
    <3> HIDE DEF g, only, alone
    <3> QED BY <2>2, <3>1, FS_Surjection
  <2> HIDE DEF leaves, alone, only
  <2>4. IsFiniteSet(named) /\ Cardinality(named) = Cardinality(leaves) + Cardinality(alone) - Cardinality(leaves \cap alone)
    BY <2>1, <2>3, FS_Union
  <2>5. /\ Cardinality(leaves) \in Nat /\ Cardinality(alone) \in Nat /\ Cardinality(only) \in Nat
        /\ Cardinality(leaves \cap alone) \in Nat
    BY <2>1, <2>2, <2>3, FS_CardinalityType, FS_Intersection
  <2> QED BY <2>1, <2>2, <2>3, <2>4, <2>5
<1>6. shown.shown + shown.more >= Cardinality(named) /\ (named # {} => shown.shown > 0)
  <2> DEFINE own == Cardinality(leaves) + Cardinality(only)
             entries == own + (IF stray /\ (own = 0 \/ (only # {} /\ built)) THEN 1 ELSE 0)
  <2>1. Cardinality(leaves) \in Nat /\ Cardinality(only) \in Nat /\ Cardinality(named) \in Nat
    BY <1>5, FS_CardinalityType
  <2>2. named # {} => Cardinality(named) # 0
    BY <1>5, FS_EmptySet
  <2>3. shown = [shown |-> IF entries > limit THEN limit ELSE entries, more |-> IF entries > limit THEN entries - limit ELSE 0]
    BY DEF Excerpt
  <2>4. entries \in Nat /\ entries >= own
    BY <2>1
  <2> HIDE DEF entries, shown, named
  <2>5. CASE entries > limit
    BY <1>5, <2>1, <2>3, <2>4, <2>5
  <2>6. CASE ~(entries > limit)
    BY <1>5, <2>1, <2>2, <2>3, <2>4, <2>6
  <2> QED BY <2>5, <2>6
<1> HIDE DEF named, shown
<1> QED BY <1>3, <1>4, <1>6 DEF EveryFailureIsNamed

-----------------------------------------------------------------------------
(* envsync *)

\* A repository's tree: what is in it lies in directories of it, from its own, which
\* is there and can be read.
TreeOf(tree, Segment) ==
  /\ tree.dirs[<<>>].kind = "plain" /\ tree.dirs[<<>>].readable
  /\ <<>> \notin DOMAIN tree.files
  /\ \A p \in DOMAIN tree.dirs \cup DOMAIN tree.files : p \in Seq(Segment) /\ Above(p) \subseteq DOMAIN tree.dirs

LEMMA AboveAbove ==
  ASSUME NEW Segment, NEW path \in Seq(Segment), NEW n \in 0 .. Len(path) - 1
  PROVE  /\ SubSeq(path, 1, n) \in Seq(Segment) /\ Len(SubSeq(path, 1, n)) = n
         /\ \A a \in Above(SubSeq(path, 1, n)) : \E m \in 0 .. n - 1 : a = SubSeq(path, 1, m)
<1> DEFINE d == SubSeq(path, 1, n)
<1>1. d \in Seq(Segment) /\ Len(d) = n /\ \A i \in 1 .. n : d[i] = path[i]
  OBVIOUS
<1>2. ASSUME NEW m \in 0 .. n - 1 PROVE SubSeq(d, 1, m) = SubSeq(path, 1, m)
  <2>1. SubSeq(d, 1, m) = [i \in 1 .. m |-> d[i]]
    BY <1>1
  <2>2. SubSeq(path, 1, m) = [i \in 1 .. m |-> path[i]]
    OBVIOUS
  <2> HIDE DEF d
  <2> QED BY <1>1, <2>1, <2>2
<1>3. ASSUME NEW a \in Above(d) PROVE \E m \in 0 .. n - 1 : a = SubSeq(path, 1, m)
  <2> HIDE DEF d
  <2> QED BY <1>1, <1>2, <1>3 DEF Above
<1> QED BY <1>1, <1>3

\* A developer's own file lies beside the example.
LEMMA LocalIsBeside ==
  ASSUME NEW Segment, NEW e \in Seq(Segment), e # <<>>
  PROVE  Len(Local(e)) = Len(e) /\ Above(Local(e)) = Above(e)
<1> DEFINE l == Local(e)
<1>1. l \in Seq(Segment \cup {".env"}) /\ Len(l) = Len(e) /\ \A i \in 1 .. Len(e) - 1 : l[i] = e[i]
  <2> DEFINE f == SubSeq(e, 1, Len(e) - 1)
  <2>1. Len(e) \in Nat \ {0}
    OBVIOUS
  <2>2. f = [i \in 1 .. Len(e) - 1 |-> e[i]]
    BY <2>1
  <2>3. f \in Seq(Segment) /\ Len(f) = Len(e) - 1
    <3>1. Len(e) - 1 \in 0 .. Len(e) - 1
      BY <2>1
    <3> QED BY <3>1, AboveAbove
  <2>4. l = Append(f, ".env")
    BY DEF Local, Front
  <2> HIDE DEF f, l
  <2>5. f \in Seq(Segment \cup {".env"})
    BY <2>3
  <2>7. l \in Seq(Segment \cup {".env"}) /\ Len(l) = Len(f) + 1
    BY <2>4, <2>5
  <2>6. \A i \in 1 .. Len(f) : l[i] = f[i]
    BY <2>3, <2>4
  <2>8. \A i \in 1 .. Len(e) - 1 : f[i] = e[i]
    BY <2>1, <2>2
  <2>9. Len(l) = Len(e)
    BY <2>1, <2>3, <2>7
  <2> QED BY <2>3, <2>6, <2>7, <2>8, <2>9
<1>2. ASSUME NEW n \in 0 .. Len(e) - 1 PROVE SubSeq(l, 1, n) = SubSeq(e, 1, n)
  <2>1. SubSeq(l, 1, n) = [i \in 1 .. n |-> l[i]]
    BY <1>1
  <2>2. SubSeq(e, 1, n) = [i \in 1 .. n |-> e[i]]
    OBVIOUS
  <2> HIDE DEF l
  <2> QED BY <1>1, <2>1, <2>2
<1> HIDE DEF l
<1>3. Above(l) = Above(e)
  BY <1>1, <1>2 DEF Above
<1> QED BY <1>1, <1>3 DEF l

\* What the walk reaches is the project's own.
LEMMA ReachedIsOurs ==
  ASSUME NEW Segment, NEW tree, TreeOf(tree, Segment), NEW p \in Seq(Segment), Above(p) \subseteq DOMAIN tree.dirs, Reached(tree, p)
  PROVE  Ours(tree, p)
<1>1. \A d \in Above(p) : d \in DOMAIN tree.dirs /\ tree.dirs[d].kind = "plain"
  BY DEF Reached
<1>2. Len(p) <= MaxDepth + 1
  <2>1. CASE Len(p) <= 1
    BY <2>1, LegsAssumption
  <2>2. CASE Len(p) > 1
    <3> DEFINE n == Len(p) - 1
               d == SubSeq(p, 1, n)
    <3>1. n \in 0 .. Len(p) - 1 /\ n > 0
      BY <2>2
    <3>2. d \in Above(p)
      BY <3>1 DEF Above
    <3>3. Len(d) = n
      BY <3>1, AboveAbove
    <3>4. Entered(tree, d)
      BY <3>2 DEF Reached
    <3> HIDE DEF d
    <3>5. d # <<>>
      BY <3>1, <3>3
    <3>6. n <= MaxDepth
      BY <3>3, <3>4, <3>5 DEF Entered
    <3> QED BY <2>2, <3>6, LegsAssumption
  <2> QED BY <2>1, <2>2
<1> QED BY <1>1, <1>2 DEF Ours

\* The walk reaches what is the project's own, or says of the first directory on the
\* way that it could not read it.
LEMMA OursIsReachedOrSaid ==
  ASSUME NEW Segment, NEW tree, TreeOf(tree, Segment), NEW p \in Seq(Segment), Above(p) \subseteq DOMAIN tree.dirs, Ours(tree, p)
  PROVE  Reached(tree, p) \/ \E d \in Above(p) : d \in Unread(tree)
<1> SUFFICES ASSUME ~Reached(tree, p) PROVE \E d \in Above(p) : d \in Unread(tree)
  OBVIOUS
<1> DEFINE At(n) == SubSeq(p, 1, n)
           S == {n \in 0 .. Len(p) - 1 : ~tree.dirs[At(n)].readable}
           R == {q \in S \X S : q[2] < q[1]}
<1>1. \A n \in 0 .. Len(p) - 1 : At(n) \in Above(p) /\ Len(At(n)) = n /\ (n = 0 <=> At(n) = <<>>)
  BY AboveAbove DEF Above
<1>2. ASSUME NEW n \in 0 .. Len(p) - 1 PROVE Entered(tree, At(n)) /\ tree.dirs[At(n)].kind = "plain"
  <2>1. CASE n = 0
    BY <1>1, <2>1 DEF TreeOf, Entered
  <2>2. CASE n # 0
    <3>1. tree.dirs[At(n)].kind = "plain" /\ Len(p) <= MaxDepth + 1
      BY <1>1, <2>2 DEF Ours
    <3>2. n <= MaxDepth
      BY <3>1, LegsAssumption
    <3> HIDE DEF At
    <3> QED BY <1>1, <3>1, <3>2 DEF Entered
  <2> QED BY <2>1, <2>2
<1>3. S # {}
  <2>1. PICK d \in Above(p) : ~(Entered(tree, d) /\ tree.dirs[d].kind = "plain" /\ tree.dirs[d].readable)
    BY DEF Reached
  <2>2. PICK n \in 0 .. Len(p) - 1 : d = At(n)
    BY <2>1 DEF Above
  <2>3. ~tree.dirs[At(n)].readable
    BY <1>2, <2>1, <2>2
  <2> QED BY <2>3
<1>4. IsFiniteSet(S)
  <2>1. S \in SUBSET (0 .. Len(p) - 1) /\ Len(p) - 1 \in Int
    OBVIOUS
  <2>2. IsFiniteSet(0 .. Len(p) - 1)
    BY <2>1, FS_Interval
  <2> HIDE DEF S
  <2> QED BY <2>1, <2>2, FS_Subset
<1>5. PICK n \in S : \A m \in S : ~(m < n)
  <2>1. \A x, y \in S : <<x, y>> \in R <=> y < x
    OBVIOUS
  <2>2. S \subseteq Nat
    OBVIOUS
  <2> HIDE DEF R, S
  <2>3. /\ \A x \in S : <<x, x>> \notin R
        /\ \A x, y, z \in S : <<x, y>> \in R /\ <<y, z>> \in R => <<x, z>> \in R
    BY <2>1, <2>2
  <2>4. PICK x \in S : \A y \in S : <<x, y>> \notin R
    BY <1>3, <1>4, <2>3, SomeLast
  <2> QED BY <2>1, <2>4
<1>6. At(n) \in Above(p) /\ At(n) \in DOMAIN tree.dirs /\ At(n) # <<>> /\ ~tree.dirs[At(n)].readable
  BY <1>1 DEF TreeOf
<1>7. Reached(tree, At(n))
  <2> SUFFICES ASSUME NEW a \in Above(At(n))
               PROVE  Entered(tree, a) /\ tree.dirs[a].kind = "plain" /\ tree.dirs[a].readable
    BY DEF Reached
  <2>1. PICK m \in 0 .. n - 1 : a = At(m)
    BY AboveAbove
  <2>2. m \in 0 .. Len(p) - 1 /\ m < n
    OBVIOUS
  <2>3. tree.dirs[At(m)].readable
    BY <1>5, <2>2
  <2> HIDE DEF At
  <2> QED BY <1>2, <2>1, <2>2, <2>3
<1>8. Entered(tree, At(n)) /\ tree.dirs[At(n)].kind = "plain"
  BY <1>2
<1> HIDE DEF At
<1>9. At(n) \in Unread(tree)
  BY <1>6, <1>7, <1>8 DEF Unread, ReachedDirs
<1> QED BY <1>6, <1>9

\* What the scan holds is the project's own, and what is the project's own is in the
\* scan, or it, its example or a directory on the way is said not to be.
LEMMA ScanIsOurs ==
  ASSUME NEW Segment, NEW tree, TreeOf(tree, Segment)
  PROVE  LET scan == ScanTree(tree)
             Migrations == {d \in DOMAIN tree.dirs : tree.dirs[d].kind = "migrations" /\ Ours(tree, d) /\ Len(d) <= MaxDepth}
             Missed(p) == \E d \in Above(p) \cup {p} : d \in scan.unchecked
         IN  /\ DOMAIN scan.lockfiles \subseteq Own(tree, "lock")
             /\ \A f \in Own(tree, "lock") : f \in DOMAIN scan.lockfiles \/ Missed(f)
             /\ \A f \in DOMAIN scan.lockfiles : scan.lockfiles[f] = tree.files[f].text
             /\ DOMAIN scan.migrations \subseteq Migrations
             /\ \A d \in Migrations : d \in DOMAIN scan.migrations \/ Missed(d)
             /\ \A d \in DOMAIN scan.migrations : scan.migrations[d] = tree.dirs[d].entries
             /\ DOMAIN scan.envKeys \subseteq Own(tree, "example")
             /\ \A e \in Own(tree, "example") : e \in DOMAIN scan.envKeys \/ Missed(e) \/ Missed(Local(e))
             /\ \A e \in DOMAIN scan.envKeys : scan.envKeys[e] =
                  tree.files[e].text \ (IF Local(e) \in DOMAIN tree.files THEN tree.files[Local(e)].text ELSE {})
             /\ \A p \in scan.unchecked : Ours(tree, p)
<1> DEFINE scan == ScanTree(tree)
           Migrations == {d \in DOMAIN tree.dirs : tree.dirs[d].kind = "migrations" /\ Ours(tree, d) /\ Len(d) <= MaxDepth}
           Missed(p) == \E d \in Above(p) \cup {p} : d \in scan.unchecked
<1>1. scan.unchecked = Unread(tree)
  BY DEF ScanTree
<1>2. \A p \in DOMAIN tree.dirs \cup DOMAIN tree.files :
        /\ p \in Seq(Segment)
        /\ Reached(tree, p) => Ours(tree, p)
        /\ Ours(tree, p) => Reached(tree, p) \/ \E d \in Above(p) : d \in Unread(tree)
  BY ReachedIsOurs, OursIsReachedOrSaid DEF TreeOf
<1>3. \A f \in DOMAIN tree.files : f # <<>>
  BY DEF TreeOf
<1>4. \A kind : ReachedFiles(tree, kind) \subseteq Own(tree, kind)
  BY <1>2 DEF ReachedFiles, Own
<1>5. /\ DOMAIN scan.lockfiles = {f \in ReachedFiles(tree, "lock") : tree.files[f].readable}
      /\ \A f \in DOMAIN scan.lockfiles : scan.lockfiles[f] = tree.files[f].text
  BY DEF ScanTree
<1>6. ASSUME NEW f \in Own(tree, "lock"), f \notin DOMAIN scan.lockfiles
      PROVE  \E d \in Above(f) \cup {f} : d \in Unread(tree)
  <2>1. f \in DOMAIN tree.files /\ Ours(tree, f) /\ tree.files[f].kind = "lock"
    BY DEF Own
  <2>2. CASE f \in ReachedFiles(tree, "lock")
    BY <1>5, <1>6, <2>2 DEF Unread
  <2>3. CASE f \notin ReachedFiles(tree, "lock")
    BY <1>2, <2>1, <2>3 DEF ReachedFiles
  <2> QED BY <2>2, <2>3
<1>7. /\ DOMAIN scan.migrations = {d \in ReachedDirs(tree, "migrations") : tree.dirs[d].readable}
      /\ \A d \in DOMAIN scan.migrations : scan.migrations[d] = tree.dirs[d].entries
  BY DEF ScanTree
<1>8. DOMAIN scan.migrations \subseteq Migrations
  BY <1>2, <1>7 DEF ReachedDirs, Entered
<1>9. ASSUME NEW d \in Migrations, d \notin DOMAIN scan.migrations
      PROVE  \E a \in Above(d) \cup {d} : a \in Unread(tree)
  <2>1. d # <<>> /\ Entered(tree, d)
    BY DEF TreeOf, Entered
  <2>2. CASE Reached(tree, d)
    <3>1. d \in ReachedDirs(tree, "migrations")
      BY <2>1, <2>2 DEF ReachedDirs
    <3> QED BY <1>7, <1>9, <3>1 DEF Unread
  <2>3. CASE ~Reached(tree, d)
    BY <1>2, <2>3
  <2> QED BY <2>2, <2>3
<1>10. /\ DOMAIN scan.envKeys = {e \in ReachedFiles(tree, "example") : tree.files[e].readable /\ Local(e) \notin Unread(tree)}
       /\ \A e \in DOMAIN scan.envKeys : scan.envKeys[e] =
            tree.files[e].text \ (IF Local(e) \in DOMAIN tree.files THEN tree.files[Local(e)].text ELSE {})
  BY DEF ScanTree
<1>11. ASSUME NEW e \in Own(tree, "example"), e \notin DOMAIN scan.envKeys, Local(e) \notin Unread(tree)
       PROVE  \E d \in Above(e) \cup {e} : d \in Unread(tree)
  <2>1. e \in DOMAIN tree.files /\ Ours(tree, e) /\ tree.files[e].kind = "example"
    BY DEF Own
  <2>2. CASE e \in ReachedFiles(tree, "example")
    BY <1>10, <1>11, <2>2 DEF Unread
  <2>3. CASE e \notin ReachedFiles(tree, "example")
    BY <1>2, <2>1, <2>3 DEF ReachedFiles
  <2> QED BY <2>2, <2>3
<1>12. ASSUME NEW p \in Unread(tree) PROVE Ours(tree, p)
  <2>1. CASE p \in ReachedFiles(tree, "lock") \cup ReachedFiles(tree, "example")
    BY <1>4, <2>1 DEF Own
  <2>2. CASE p \in ReachedDirs(tree, "plain") \cup ReachedDirs(tree, "migrations")
    BY <1>2, <2>2 DEF ReachedDirs
  <2>3. CASE \E e \in ReachedFiles(tree, "example") : p = Local(e)
    <3>1. PICK e \in ReachedFiles(tree, "example") : p = Local(e)
      BY <2>3
    <3>2. e \in Seq(Segment) /\ e # <<>> /\ Ours(tree, e)
      BY <1>2, <1>3 DEF ReachedFiles
    <3>3. Len(p) = Len(e) /\ Above(p) = Above(e)
      BY <3>1, <3>2, LocalIsBeside
    <3> QED BY <3>2, <3>3 DEF Ours
  <2> QED BY <2>1, <2>2, <2>3 DEF Unread
<1> HIDE DEF scan
<1>13. \A e \in Own(tree, "example") : e \in DOMAIN scan.envKeys \/ Missed(e) \/ Missed(Local(e))
  BY <1>1, <1>11
<1>14. DOMAIN scan.lockfiles \subseteq Own(tree, "lock") /\ DOMAIN scan.envKeys \subseteq Own(tree, "example")
  BY <1>4, <1>5, <1>10
<1> QED BY <1>1, <1>5, <1>6, <1>7, <1>8, <1>9, <1>10, <1>12, <1>13, <1>14 DEF scan

\* A line's tag and path.
LEMMA LinesTell ==
  ASSUME NEW set, NEW what
  PROVE  /\ \A p : <<what, p>> \in Lines(set, what) <=> p \in set
         /\ \A line \in Lines(set, what) : line[1] = what /\ line[2] \in set
BY DEF Lines

\* `env --sync`, then `env`, for any two trees of a repository.
THEOREM EnvIsSaid ==
  ASSUME NEW Segment, NEW then, NEW now, TreeOf(then, Segment), TreeOf(now, Segment), NEW before
  PROVE  LET synced == Sync(then, before, TRUE)
         IN  DifferencesAreSaid(then, now, synced, Check(now, synced.base))
<1> DEFINE synced == Sync(then, before, TRUE)
           was == ScanTree(then)
           cur == ScanTree(now)
           answer == Check(now, synced.base)
           unchecked == Lines(cur.unchecked, "unchecked")
           MissedBy(scan, p) == \E d \in Above(p) \cup {p} : d \in scan.unchecked
           Excused(p) == SaidUnchecked(synced.lines, p) \/ SaidUnchecked(answer.lines, p)
           Reported(p) == \E what : <<what, p>> \in answer.lines
           TextIn(tree, f) == IF f \in Own(tree, "lock") THEN tree.files[f].text ELSE "none"
           Migrations(tree) == {d \in DOMAIN tree.dirs : tree.dirs[d].kind = "migrations" /\ Ours(tree, d) /\ Len(d) <= MaxDepth}
           Entries(tree, d) == IF d \in Migrations(tree) THEN tree.dirs[d].entries ELSE {}
<1> SUFFICES DifferencesAreSaid(then, now, synced, answer)
  OBVIOUS
<1>1. /\ synced.base = Baseline("recorded", was)
      /\ synced.code = IF was.unchecked = {} THEN 0 ELSE 1
      /\ synced.lines = Lines(was.unchecked, "unchecked")
  BY DEF Sync
<1> HIDE DEF synced
<1>2. /\ answer.code = IF cur.unchecked = {} THEN 0 ELSE 1
      /\ answer.lines = ReportLockfiles(was, cur) \cup ReportMigrations(was, cur) \cup ReportEnvKeys(cur) \cup unchecked
  <2>1. synced.base.state = "recorded" /\ synced.base.scan = was
    BY <1>1 DEF Baseline
  <2> QED BY <2>1 DEF Check
<1>3. /\ DOMAIN was.lockfiles \subseteq Own(then, "lock")
      /\ \A f \in Own(then, "lock") : f \in DOMAIN was.lockfiles \/ MissedBy(was, f)
      /\ \A f \in DOMAIN was.lockfiles : was.lockfiles[f] = then.files[f].text
      /\ DOMAIN was.migrations \subseteq Migrations(then)
      /\ \A d \in Migrations(then) : d \in DOMAIN was.migrations \/ MissedBy(was, d)
      /\ \A d \in DOMAIN was.migrations : was.migrations[d] = then.dirs[d].entries
  BY ScanIsOurs
<1>4. /\ DOMAIN cur.lockfiles \subseteq Own(now, "lock")
      /\ \A f \in Own(now, "lock") : f \in DOMAIN cur.lockfiles \/ MissedBy(cur, f)
      /\ \A f \in DOMAIN cur.lockfiles : cur.lockfiles[f] = now.files[f].text
      /\ DOMAIN cur.migrations \subseteq Migrations(now)
      /\ \A d \in Migrations(now) : d \in DOMAIN cur.migrations \/ MissedBy(cur, d)
      /\ \A d \in DOMAIN cur.migrations : cur.migrations[d] = now.dirs[d].entries
  BY ScanIsOurs
<1>5. /\ DOMAIN cur.envKeys \subseteq Own(now, "example")
      /\ \A e \in Own(now, "example") : e \in DOMAIN cur.envKeys \/ MissedBy(cur, e) \/ MissedBy(cur, Local(e))
      /\ \A e \in DOMAIN cur.envKeys : cur.envKeys[e] =
           now.files[e].text \ (IF Local(e) \in DOMAIN now.files THEN now.files[Local(e)].text ELSE {})
      /\ \A p \in cur.unchecked : Ours(now, p)
  BY ScanIsOurs
<1> HIDE DEF was, cur
<1>6. /\ \A p : MissedBy(was, p) => SaidUnchecked(synced.lines, p)
      /\ \A p : MissedBy(cur, p) => SaidUnchecked(answer.lines, p)
  BY <1>1, <1>2 DEF SaidUnchecked, Lines
<1> HIDE DEF answer, MissedBy
<1>7. ASSUME NEW f, TextIn(then, f) # TextIn(now, f), ~Excused(f) PROVE Reported(f)
  <2>1. f \in Own(then, "lock") <=> f \in DOMAIN was.lockfiles
    BY <1>3, <1>6, <1>7
  <2>2. f \in Own(now, "lock") <=> f \in DOMAIN cur.lockfiles
    BY <1>4, <1>6, <1>7
  <2>3. \E what : <<what, f>> \in ReportLockfiles(was, cur)
    BY <1>3, <1>4, <1>7, <2>1, <2>2 DEF ReportLockfiles, Lines
  <2> QED BY <1>2, <2>3
<1>8. ASSUME NEW d, Entries(then, d) # Entries(now, d), ~Excused(d) PROVE Reported(d)
  <2>1. d \in Migrations(then) <=> d \in DOMAIN was.migrations
    BY <1>3, <1>6, <1>8
  <2>2. d \in Migrations(now) <=> d \in DOMAIN cur.migrations
    BY <1>4, <1>6, <1>8
  <2> HIDE DEF Migrations
  <2>3. \E what : <<what, d>> \in ReportMigrations(was, cur)
    <3>1. CASE d \notin DOMAIN cur.migrations
      BY <1>8, <2>1, <2>2, <3>1 DEF ReportMigrations, Lines
    <3>2. CASE d \in DOMAIN cur.migrations
      <4> DEFINE were == IF d \in DOMAIN was.migrations THEN was.migrations[d] ELSE {}
      <4>1. were = Entries(then, d) /\ cur.migrations[d] = Entries(now, d)
        BY <1>3, <1>4, <2>1, <2>2, <3>2
      <4>2. were \ cur.migrations[d] # {} \/ (were \subseteq cur.migrations[d] /\ were # cur.migrations[d])
        BY <1>8, <4>1
      <4> QED BY <3>2, <4>2 DEF ReportMigrations, Lines
    <3> QED BY <3>1, <3>2
  <2> QED BY <1>2, <2>3
<1>9. ASSUME NEW e \in Own(now, "example"), ~SaidUnchecked(answer.lines, e), ~SaidUnchecked(answer.lines, Local(e)),
             (IF Local(e) \in DOMAIN now.files THEN now.files[Local(e)].text ELSE {}) \cap now.files[e].text # now.files[e].text
      PROVE  Reported(e)
  <2>1. e \in DOMAIN cur.envKeys
    BY <1>5, <1>6, <1>9
  <2>2. cur.envKeys[e] # {}
    BY <1>5, <1>9, <2>1
  <2>3. <<"declared", e>> \in ReportEnvKeys(cur)
    BY <2>1, <2>2 DEF ReportEnvKeys, Lines
  <2> QED BY <1>2, <2>3
<1>10. answer.code = 0 <=> ~\E line \in answer.lines : line[1] = "unchecked"
  <2>1. \A line \in ReportLockfiles(was, cur) \cup ReportMigrations(was, cur) \cup ReportEnvKeys(cur) : line[1] # "unchecked"
    <3>1. \A line \in ReportLockfiles(was, cur) : line[1] # "unchecked"
      BY LinesTell DEF ReportLockfiles
    <3>2. \A line \in ReportMigrations(was, cur) : line[1] # "unchecked"
      BY LinesTell DEF ReportMigrations
    <3>3. \A line \in ReportEnvKeys(cur) : line[1] # "unchecked"
      BY LinesTell DEF ReportEnvKeys
    <3> QED BY <3>1, <3>2, <3>3
  <2>2. (\E line \in unchecked : line[1] = "unchecked") <=> cur.unchecked # {}
    <3>1. ASSUME NEW p \in cur.unchecked PROVE \E line \in unchecked : line[1] = "unchecked"
      <4>1. <<"unchecked", p>> \in unchecked
        BY LinesTell
      <4> HIDE DEF unchecked
      <4> QED BY <4>1
    <3>2. ASSUME NEW line \in unchecked PROVE cur.unchecked # {}
      BY LinesTell
    <3> QED BY <3>1, <3>2
  <2> HIDE DEF unchecked
  <2> QED BY <1>2, <2>1, <2>2
<1>11. \A line \in answer.lines : Ours(then, line[2]) \/ Ours(now, line[2])
  <2>1. \A line \in ReportLockfiles(was, cur) : line[2] \in Own(then, "lock") \cup Own(now, "lock")
    BY <1>3, <1>4 DEF ReportLockfiles, Lines
  <2>2. \A line \in ReportMigrations(was, cur) : line[2] \in Migrations(then) \cup Migrations(now)
    <3> HIDE DEF Migrations
    <3> QED BY <1>3, <1>4 DEF ReportMigrations, Lines
  <2>3. \A line \in ReportEnvKeys(cur) : line[2] \in Own(now, "example")
    BY <1>5 DEF ReportEnvKeys, Lines
  <2>4. \A line \in unchecked : Ours(now, line[2])
    BY <1>5, LinesTell
  <2> HIDE DEF unchecked
  <2> QED BY <1>2, <2>1, <2>2, <2>3, <2>4 DEF Own
<1>12. ASSUME then = now, synced.code = 0, NEW line \in answer.lines PROVE line[1] = "declared"
  <2>1. was = cur
    BY <1>12 DEF was, cur
  <2>4. was.unchecked = {}
    BY <1>1, <1>12
  <2>2. ReportLockfiles(was, cur) = {} /\ ReportMigrations(was, cur) = {} /\ unchecked = {}
    BY <2>1, <2>4 DEF ReportLockfiles, ReportMigrations, Lines
  <2>3. \A l \in ReportEnvKeys(cur) : l[1] = "declared"
    BY DEF ReportEnvKeys, Lines
  <2> HIDE DEF unchecked
  <2> QED BY <1>2, <2>2, <2>3
<1> QED
  <2>1. \A p : Reported(p) => \E line \in answer.lines : line[2] = p
    OBVIOUS
  <2> QED BY <1>7, <1>8, <1>9, <1>10, <1>11, <1>12, <2>1 DEF DifferencesAreSaid

-----------------------------------------------------------------------------
(* The behaviours of MCChecks: each input is one that the theorems speak of. *)

LEMMA RunsTell ==
  ASSUME NEW files, NEW run \in RunsSeen(files)
  PROVE  TellsItself(run)
BY DEF RunsSeen, Runs, TellsItself

LEMMA SecretsHold ==
  ASSUME NEW i \in SecretsInputs
  PROVE  LeaksAreSaid(i.installed, i.there, i.answers, i.legacy, Secrets(i.installed, i.there, i.answers, i.legacy))
<1>1. i.installed \in BOOLEAN /\ AnswerOfScanner(i.legacy)
  BY DEF SecretsInputs, Answers, AnswerOfScanner
<1>2. \A p \in i.there : AnswerOfScanner(i.answers[p]) \/ i.answers[p].said = "no dir"
  <2>1. i.there \subseteq Files /\ i.answers \in [Files -> Answers({f1}) \cup {[said |-> "no dir", hits |-> {}]}]
    BY DEF SecretsInputs
  <2>2. \A a \in Answers({f1}) : AnswerOfScanner(a)
    BY DEF Answers, AnswerOfScanner
  <2> DEFINE none == [said |-> "no dir", hits |-> {}]
  <2> SUFFICES ASSUME NEW p \in i.there PROVE AnswerOfScanner(i.answers[p]) \/ i.answers[p].said = "no dir"
    OBVIOUS
  <2>3. i.answers[p] \in Answers({f1}) \/ i.answers[p] = none
    BY <2>1
  <2>4. none.said = "no dir"
    OBVIOUS
  <2> HIDE DEF none
  <2> QED BY <2>2, <2>3, <2>4
<1> QED BY <1>1, <1>2, SecretsAreSaid

LEMMA SastHolds ==
  ASSUME NEW i \in SastInputs,
         NEW answer, answer = [said |-> i.answer.said,
                               hits |-> {h \in i.answer.hits : h.file \in IncludesFor(i.changed, Files)}]
  PROVE  FlawsAreSaid(i.changed, i.installed /\ ~SlotBusy(i.repo, i.machine) /\ i.answer.said = "report", i.bar, i.answer.hits,
           SastChanged(i.changed, Sast(i.installed, i.repo, i.machine, i.bar, answer)))
<1>1. i.installed \in BOOLEAN /\ i.changed \in SUBSET Files
  BY DEF SastInputs
<1>2. i.answer \in Answers(Flaws)
  BY DEF SastInputs
<1>3. AnswerOfScanner(answer) /\ answer.said = i.answer.said
  BY <1>2 DEF Answers, AnswerOfScanner
<1>4. \A h \in i.answer.hits : h.file \in IncludesFor(i.changed, Files) => h \in answer.hits
  OBVIOUS
<1>5. FlawsAreSaid(i.changed, i.installed /\ ~SlotBusy(i.repo, i.machine) /\ answer.said = "report", i.bar, i.answer.hits,
        SastChanged(i.changed, Sast(i.installed, i.repo, i.machine, i.bar, answer)))
  BY <1>1, <1>3, <1>4, SastIsSaid, LegsAssumption
<1> QED BY <1>3, <1>5

LEMMA DepsHold ==
  ASSUME NEW i \in RepoInputs, NEW answer
  PROVE  DeclaredIsLookedAt(i, DepsChanged({[name |-> "package.json"]}, Deps(TRUE, i, answer)))
<1> DEFINE Segment == {"a", "vendor"}
<1>1. \A f \in i.files : f.dir \in Seq(Segment)
  <2>1. \A f \in Lockable : f.dir \in {<<>>, <<"a">>, <<"vendor">>}
    BY DEF Lockable
  <2>2. <<>> \in Seq(Segment) /\ <<"a">> \in Seq(Segment) /\ <<"vendor">> \in Seq(Segment)
    OBVIOUS
  <2>3. i.files \subseteq Lockable
    BY DEF RepoInputs
  <2> QED BY <2>1, <2>2, <2>3
<1>2. DepsChanged({[name |-> "package.json"]}, Deps(TRUE, i, answer)) = Deps(TRUE, i, answer)
  BY DEF DepsChanged, DepManifests, NpmLocks
<1> HIDE DEF Segment
<1>3. PathsOf(i, Segment)
  BY <1>1 DEF PathsOf
<1> QED BY <1>2, <1>3, DependenciesAreSaid

LEMMA LintFilesOf ==
  ASSUME NEW i \in LintInputs
  PROVE  /\ \E a, b \in Langs, own \in BOOLEAN : i.files = {[name |-> 1, lang |-> a, own |-> own], [name |-> 2, lang |-> b, own |-> FALSE]}
         /\ i.run \in RunsSeen({1})
<1>1. i.run \in RunsSeen({1})
  BY DEF LintInputs
<1>2. PICK a \in Langs, b \in {"py", "ts", "php"}, own \in BOOLEAN :
        i.files = {[name |-> 1, lang |-> a, own |-> own], [name |-> 2, lang |-> b, own |-> FALSE]}
  BY DEF LintInputs
<1>3. b \in Langs
  BY DEF Langs
<1> QED BY <1>1, <1>2, <1>3

LEMMA WorldTells ==
  ASSUME NEW i \in LintInputs, NEW t \in Linting
  PROVE  TellsItself(World(i).runs[t])
<1> DEFINE run == [i.run EXCEPT !.hits = {f \in i.files : f.name \in i.run.hits}]
<1>1. World(i).runs[t] = run
  BY DEF World, Same
<1>2. i.run \in RunsSeen({1}) /\ \E f \in i.files : f.name = 1
  <2>1. PICK a, b \in Langs, own \in BOOLEAN : i.files = {[name |-> 1, lang |-> a, own |-> own], [name |-> 2, lang |-> b, own |-> FALSE]}
    BY LintFilesOf
  <2>2. [name |-> 1, lang |-> a, own |-> own] \in i.files
    BY <2>1
  <2> QED BY <2>2, LintFilesOf
<1>3. i.run.hits \in SUBSET {1} /\ i.run \in [end : {"ok", "one", "bad", "late"},
          said : {"nothing", "garbage", "report", "no flat config", "nothing to analyse", "no errors"},
          hits : SUBSET {1}, looked : BOOLEAN]
  BY <1>2 DEF RunsSeen, Runs
<1>4. TellsItself(i.run)
  BY <1>2, RunsTell
<1>7. run.hits = {f \in i.files : f.name \in i.run.hits} /\ \A x \in {"end", "said", "looked"} : run[x] = i.run[x]
  BY <1>3
<1>5. run.hits = {} <=> i.run.hits = {}
  <2>1. ASSUME i.run.hits # {} PROVE run.hits # {}
    <3>1. 1 \in i.run.hits
      BY <1>3, <2>1
    <3> HIDE DEF run
    <3> QED BY <1>2, <1>7, <3>1
  <2> HIDE DEF run
  <2>2. ASSUME i.run.hits = {} PROVE run.hits = {}
    BY <1>7, <2>2
  <2> QED BY <2>1, <2>2
<1>6. TellsItself(run)
  <2>1. run.end = i.run.end /\ run.said = i.run.said /\ run.looked = i.run.looked
    BY <1>7
  <2> HIDE DEF run
  <2> QED BY <1>4, <1>5, <2>1 DEF TellsItself
<1> QED BY <1>1, <1>6

LEMMA LintHolds ==
  ASSUME NEW i \in LintInputs
  PROVE  /\ NothingUnlinted(i.files, i.block, World(i), LintFiles(i.files, i.block, World(i)))
         /\ NothingUntyped(i.files, i.block, World(i), Types(i.files, i.block, World(i)))
<1>1. \A f \in i.files : f.lang \in Langs
  BY LintFilesOf
<1>2. \A f \in i.files : LintersOf(f, World(i)) \subseteq Linting
  <2> SUFFICES ASSUME NEW f \in i.files PROVE LintersOf(f, World(i)) \subseteq Linting
    OBVIOUS
  <2> HIDE DEF Linting
  <2>1. {"golangci-lint", "cargo", "eslint", "clang-tidy", "phpstan", "phpcs", "ruff"} \subseteq Linting
    BY DEF Linting
  <2> QED BY <1>1, <2>1 DEF LintersOf, GroupOf, Langs, Plain
<1>3. {"tsc", "pyright"} \subseteq Linting
  BY DEF Linting
<1> QED BY <1>2, <1>3, WorldTells, LintIsSaid, TypesAreSaid

LEMMA FormatHolds ==
  ASSUME NEW i \in FormatInputs
  PROVE  NothingUnformatted(i, FormatCheck(i.covered, i.readable, i.ready, i.installed, i.exitOne, i))
<1>1. /\ i.covered \in BOOLEAN /\ i.readable \in BOOLEAN /\ i.ready \in BOOLEAN /\ i.installed \in BOOLEAN
      /\ i.exitOne \in BOOLEAN /\ i.looked \in BOOLEAN
  BY DEF FormatInputs
<1>2. IF i.looked THEN i.prints # "nothing" /\ (i.end = "ok" \/ (i.end = "one" /\ i.exitOne))
      ELSE i.prints = "nothing" \/ i.end \notin {"ok", "one"}
  BY DEF FormatInputs
<1> QED BY <1>1, <1>2, FormatIsSaid

LEMMA TreeHolds ==
  ASSUME NEW i \in TreeInputs
  PROVE  /\ NothingTooComplex(i.files, i.block, i.w, ComplexityChanged(i.files, i.block, i.w))
         /\ NothingUnplanned(i.inventory, i.w, InfraCheck(i.inventory, i.w))
         /\ IF Looked("actionlint", i.w)
            THEN \A f \in i.w.runs["actionlint"].hits : Judged(f, TRUE) \in ActionsLint(i.files, i.w)
            ELSE SilenceOn(i.files, ActionsLint(i.files, i.w))
<1>1. (\A t \in TreeTools : i.w.runs[t] \in TreeRuns) /\ i.files = Files
  <2>1. PICK one \in TreeRuns, other \in TreeRuns, odd \in {{"ruff", "fmt", "helm"}, {"golangci-lint", "validate"}, {"kubeconform", "actionlint"}} :
          i.w.runs = [t \in TreeTools |-> IF t \in odd THEN one ELSE other]
    BY DEF TreeInputs
  <2>2. i.files = Files
    BY DEF TreeInputs
  <2> HIDE DEF TreeTools
  <2> QED BY <2>1, <2>2
<1>2. \A t \in TreeTools : TellsByExit(i.w.runs[t])
  BY <1>1, RunsTell DEF TreeRuns, TellsByExit
<1>3. MaintainTools(i.w) \subseteq TreeTools /\ "actionlint" \in TreeTools
  BY DEF MaintainTools, TreeTools
<1>4. \A t \in TreeTools : TellsItself(i.w.runs[t])
  BY <1>2 DEF TellsByExit
<1>5. i.files # {}
  BY <1>1 DEF Files
<1> QED BY <1>2, <1>3, <1>4, <1>5, ComplexityIsSaid, InfraIsSaid, ActionsAreSaid

LEMMA TargetsHold ==
  ASSUME NEW fs \in Changed
  PROVE  TargetsAreTheRunners(fs, ChangedPackages(fs))
<1> DEFINE Langs3 == {"go", "python", "rust"}
           R == [lang : Langs3, dir : {d1, d2}, manifest : BOOLEAN, inside : BOOLEAN]
           P == Langs3 \X ({d1, d2} \X (BOOLEAN \X BOOLEAN))
           f == [p \in P |-> [lang |-> p[1], dir |-> p[2][1], manifest |-> p[2][2][1], inside |-> p[2][2][2]]]
<1>1. IsFiniteSet({d1, d2}) /\ IsFiniteSet(Langs3) /\ IsFiniteSet(BOOLEAN)
  <2>1. \A x, y, z : IsFiniteSet({x, y}) /\ IsFiniteSet({x, y, z})
    <3> SUFFICES ASSUME NEW x, NEW y, NEW z PROVE IsFiniteSet({x, y}) /\ IsFiniteSet({x, y, z})
      OBVIOUS
    <3>1. IsFiniteSet({x}) /\ IsFiniteSet({y}) /\ IsFiniteSet({z})
      BY FS_Singleton
    <3>2. IsFiniteSet({x} \cup {y})
      BY <3>1, FS_Union
    <3>3. IsFiniteSet(({x} \cup {y}) \cup {z})
      BY <3>1, <3>2, FS_Union
    <3>4. {x, y} = {x} \cup {y} /\ {x, y, z} = ({x} \cup {y}) \cup {z}
      OBVIOUS
    <3> QED BY <3>2, <3>3, <3>4
  <2>2. BOOLEAN = {TRUE, FALSE}
    OBVIOUS
  <2> QED BY <2>1, <2>2
<1>2. IsFiniteSet(P)
  <2> HIDE DEF Langs3
  <2>1. IsFiniteSet(BOOLEAN \X BOOLEAN)
    BY <1>1, FS_Product
  <2>2. IsFiniteSet({d1, d2} \X (BOOLEAN \X BOOLEAN))
    BY <1>1, <2>1, FS_Product
  <2> QED BY <1>1, <2>2, FS_Product
<1>3. f \in Surjection(P, R)
  <2> HIDE DEF Langs3
  <2>1. ASSUME NEW p \in P PROVE f[p] \in R
    OBVIOUS
  <2>2. ASSUME NEW r \in R PROVE \E p \in P : f[p] = r
    <3> DEFINE p == <<r.lang, <<r.dir, <<r.manifest, r.inside>>>>>>
    <3>1. p \in P
      OBVIOUS
    <3>2. f[p] = [lang |-> r.lang, dir |-> r.dir, manifest |-> r.manifest, inside |-> r.inside]
      BY <3>1
    <3>3. f[p] = r
      BY <3>2
    <3> QED BY <3>1, <3>3
  <2> QED BY <2>1, <2>2 DEF Surjection
<1>4. IsFiniteSet(R)
  BY <1>2, <1>3, FS_Surjection
<1>5. IsFiniteSet(fs)
  <2>1. fs \subseteq R
    BY DEF Changed
  <2> QED BY <1>4, <2>1, FS_Subset
<1> QED BY <1>5, TargetsAreSaid

LEMMA FailuresHold ==
  ASSUME NEW events \in EventInputs
  PROVE  EveryFailureIsNamed(events,
           LeafFailures(events) \cup {[action |-> "fail", pkg |-> p, test |-> <<>>] : p \in PackageOnlyFailures(events)},
           Excerpt(events, TRUE, TRUE, 3))
<1> DEFINE Packages == {"p", "q"}
           Segment == {"T", "s"}
           Event == [action : {"fail", "other"}, pkg : Packages, test : Seq(Segment)]
<1>1. Tests \subseteq Seq(Segment)
  BY DEF Tests
<1>2. events \in Seq(Event)
  <2>1. PICK n \in 0 .. 4 : events \in [1 .. n -> [action : {"fail"}, pkg : {"p", "q"}, test : Tests]]
    BY DEF EventInputs
  <2> DEFINE Failed == [action : {"fail"}, pkg : {"p", "q"}, test : Tests]
  <2>2. Failed \subseteq Event
    BY <1>1
  <2> HIDE DEF Event, Failed
  <2>3. events \in [1 .. n -> Event]
    BY <2>1, <2>2 DEF Failed
  <2> QED BY <2>3
<1> HIDE DEF Packages, Segment
<1>3. \A built, stray \in BOOLEAN, limit \in Nat \ {0} :
        EveryFailureIsNamed(events,
          LeafFailures(events) \cup {[action |-> "fail", pkg |-> p, test |-> <<>>] : p \in PackageOnlyFailures(events)},
          Excerpt(events, built, stray, limit))
  BY <1>2, FailuresAreNamed
<1>4. 3 \in Nat \ {0}
  OBVIOUS
<1> QED BY <1>3, <1>4, Zenon

LEMMA EnvHolds ==
  ASSUME NEW i \in EnvInputs
  PROVE  LET synced == Sync(i.then, Baseline(i.before, ScanTree(i.then)), i.saves)
             now == Check(i.now, synced.base)
         IN  IF i.saves THEN DifferencesAreSaid(i.then, i.now, synced, now)
             ELSE synced.code = 1 /\ (i.before = "unreadable" => now.code = 1)
<1> DEFINE Segment == {"d", "e", "lock", "example", ".env"}
<1>1. i.then \in EnvTrees \cup EnvLocals /\ i.now \in EnvTrees \cup EnvLocals
  BY DEF EnvInputs
<1>6. /\ Above(<<>>) = {}
      /\ \A a : Above(<<a>>) = {<<>>}
      /\ \A a, b : Above(<<a, b>>) = {<<>>, <<a>>}
      /\ \A a, b, c : Above(<<a, b, c>>) = {<<>>, <<a>>, <<a, b>>}
  <2>1. Above(<<>>) = {}
    BY DEF Above
  <2>5. ASSUME NEW S, NEW p \in Seq(S)
        PROVE  /\ SubSeq(p, 1, 0) = <<>>
               /\ Len(p) >= 1 => SubSeq(p, 1, 1) = <<p[1]>>
               /\ Len(p) >= 2 => SubSeq(p, 1, 2) = <<p[1], p[2]>>
    <3>1. ASSUME NEW n \in 0 .. Len(p) PROVE SubSeq(p, 1, n) = [k \in 1 .. n |-> p[k]]
      OBVIOUS
    <3>2. <<p[1]>> = [k \in 1 .. 1 |-> p[k]] /\ <<p[1], p[2]>> = [k \in 1 .. 2 |-> p[k]]
      OBVIOUS
    <3>3. SubSeq(p, 1, 0) = <<>>
      OBVIOUS
    <3>4. Len(p) >= 1 => 1 \in 0 .. Len(p)
      OBVIOUS
    <3>5. Len(p) >= 2 => 2 \in 0 .. Len(p)
      OBVIOUS
    <3> QED BY <3>1, <3>2, <3>3, <3>4, <3>5
  <2>2. ASSUME NEW a PROVE Above(<<a>>) = {<<>>}
    <3>1. <<a>> \in Seq({a}) /\ Len(<<a>>) = 1
      OBVIOUS
    <3>2. 0 .. 1 - 1 = {0}
      OBVIOUS
    <3> DEFINE p == <<a>>
    <3> HIDE DEF p
    <3>3. SubSeq(p, 1, 0) = <<>>
      BY <2>5, <3>1 DEF p
    <3>4. Above(p) = {SubSeq(p, 1, n) : n \in {0}}
      BY <3>1, <3>2 DEF Above, p
    <3> QED BY <3>3, <3>4 DEF p
  <2>3. ASSUME NEW a, NEW b PROVE Above(<<a, b>>) = {<<>>, <<a>>}
    <3> DEFINE p == <<a, b>>
    <3>1. p \in Seq({a, b}) /\ Len(p) = 2 /\ p[1] = a
      OBVIOUS
    <3>2. 0 .. 2 - 1 = {0, 1}
      OBVIOUS
    <3> HIDE DEF p
    <3>3. SubSeq(p, 1, 0) = <<>> /\ SubSeq(p, 1, 1) = <<a>>
      BY <2>5, <3>1
    <3>4. Above(p) = {SubSeq(p, 1, n) : n \in {0, 1}}
      BY <3>1, <3>2 DEF Above
    <3>5. Above(p) = {<<>>, <<a>>}
      BY <3>3, <3>4
    <3> QED BY <3>5 DEF p
  <2>4. ASSUME NEW a, NEW b, NEW c PROVE Above(<<a, b, c>>) = {<<>>, <<a>>, <<a, b>>}
    <3> DEFINE p == <<a, b, c>>
    <3>1. p \in Seq({a, b, c}) /\ Len(p) = 3 /\ p[1] = a /\ p[2] = b
      OBVIOUS
    <3>2. 0 .. 3 - 1 = {0, 1, 2}
      OBVIOUS
    <3> HIDE DEF p
    <3>3. SubSeq(p, 1, 0) = <<>> /\ SubSeq(p, 1, 1) = <<a>> /\ SubSeq(p, 1, 2) = <<a, b>>
      <4> DEFINE S == {a, b, c}
      <4>1. p \in Seq(S)
        BY <3>1
      <4> HIDE DEF S
      <4>2. /\ SubSeq(p, 1, 0) = <<>>
            /\ Len(p) >= 1 => SubSeq(p, 1, 1) = <<p[1]>>
            /\ Len(p) >= 2 => SubSeq(p, 1, 2) = <<p[1], p[2]>>
        BY <2>5, <4>1
      <4> QED BY <3>1, <4>2
    <3>4. Above(p) = {SubSeq(p, 1, n) : n \in {0, 1, 2}}
      BY <3>1, <3>2 DEF Above
    <3>5. Above(p) = {<<>>, <<a>>, <<a, b>>}
      BY <3>3, <3>4
    <3> QED BY <3>5 DEF p
  <2> QED BY <2>1, <2>2, <2>3, <2>4
<1>7. \A a, b, c \in Segment : <<>> \in Seq(Segment) /\ <<a>> \in Seq(Segment) /\ <<a, b>> \in Seq(Segment) /\ <<a, b, c>> \in Seq(Segment)
  <2> HIDE DEF Segment
  <2> QED OBVIOUS
<1>8. <<"d">> # <<>> /\ <<"d", "lock">> # <<>> /\ <<"d", "e", "lock">> # <<>> /\ <<"example">> # <<>> /\ <<".env">> # <<>>
  OBVIOUS
<1>2. ASSUME NEW tree \in EnvTrees PROVE TreeOf(tree, Segment)
  <2>1. DOMAIN tree.dirs = {<<>>, <<"d">>, <<"d", "e">>} /\ tree.dirs[<<>>] = PlainDir
    BY DEF EnvTrees
  <2>2. DOMAIN tree.files \subseteq {<<"d", "lock">>, <<"d", "e", "lock">>}
    BY DEF EnvTrees
  <2>3. \A p \in DOMAIN tree.dirs \cup DOMAIN tree.files : p \in Seq(Segment)
    <3> DEFINE Paths == Seq(Segment)
    <3>1. {<<>>, <<"d">>, <<"d", "e">>, <<"d", "lock">>, <<"d", "e", "lock">>} \subseteq Paths
      BY <1>7
    <3> HIDE DEF Paths
    <3>2. \A p \in DOMAIN tree.dirs \cup DOMAIN tree.files : p \in Paths
      BY <2>1, <2>2, <3>1
    <3> QED BY <3>2 DEF Paths
  <2>4. \A p \in DOMAIN tree.dirs \cup DOMAIN tree.files : Above(p) \subseteq {<<>>, <<"d">>, <<"d", "e">>}
    BY <1>6, <2>1, <2>2
  <2>5. tree.dirs[<<>>].kind = "plain" /\ tree.dirs[<<>>].readable
    BY <2>1 DEF PlainDir
  <2>6. <<>> \notin DOMAIN tree.files
    BY <1>8, <2>2
  <2> HIDE DEF Segment
  <2> QED BY <2>1, <2>3, <2>4, <2>5, <2>6 DEF TreeOf
<1>3. ASSUME NEW tree \in EnvLocals PROVE TreeOf(tree, Segment)
  <2>1. DOMAIN tree.dirs = {<<>>} /\ tree.dirs[<<>>] = PlainDir
    BY DEF EnvLocals
  <2>2. DOMAIN tree.files \subseteq {<<"example">>, <<".env">>}
    <3> DEFINE FilesOf(example, env, gone) ==
                 [f \in {<<"example">>, <<".env">>} \ gone |-> IF f = <<"example">> THEN example ELSE env]
               seen == {FilesOf(example, env, gone) :
                          example \in EnvFiles("example", SUBSET {"K", "L"}), env \in EnvFiles("env", SUBSET {"K", "L"}),
                          gone \in SUBSET {<<".env">>}}
    <3>0. EnvLocals = [dirs : {[d \in {<<>>} |-> PlainDir]}, files : seen]
      BY DEF EnvLocals
    <3>1. tree.files \in seen
      <4> HIDE DEF seen
      <4> QED BY <3>0
    <3>2. \A example, env, gone : DOMAIN FilesOf(example, env, gone) \subseteq {<<"example">>, <<".env">>}
      OBVIOUS
    <3> HIDE DEF FilesOf
    <3> QED BY <3>1, <3>2
  <2>3. \A p \in DOMAIN tree.dirs \cup DOMAIN tree.files : p \in Seq(Segment)
    <3> DEFINE Paths == Seq(Segment)
    <3>1. {<<>>, <<"example">>, <<".env">>} \subseteq Paths
      BY <1>7
    <3> HIDE DEF Paths
    <3>2. \A p \in DOMAIN tree.dirs \cup DOMAIN tree.files : p \in Paths
      BY <2>1, <2>2, <3>1
    <3> QED BY <3>2 DEF Paths
  <2>4. \A p \in DOMAIN tree.dirs \cup DOMAIN tree.files : Above(p) \subseteq {<<>>}
    BY <1>6, <2>1, <2>2
  <2>5. tree.dirs[<<>>].kind = "plain" /\ tree.dirs[<<>>].readable
    BY <2>1 DEF PlainDir
  <2>6. <<>> \notin DOMAIN tree.files
    BY <1>8, <2>2
  <2> HIDE DEF Segment
  <2> QED BY <2>1, <2>3, <2>4, <2>5, <2>6 DEF TreeOf
<1>4. CASE i.saves
  BY <1>1, <1>2, <1>3, <1>4, EnvIsSaid
<1>5. CASE ~i.saves
  BY <1>5 DEF Sync, Check, Baseline
<1> QED BY <1>4, <1>5

LEMMA SweepHolds ==
  ASSUME NEW i \in SweepInputs, NEW pruned \in Prune(i.cache, i.running, i.apply)
  PROVE  SweepLeavesAWayBack(i.cache, i.running, i.apply, pruned)
<1>1. \A n \in CacheNames : n.numbers \in Seq(Nat)
  <2> DEFINE numbers == {<<1, 9>>, <<1, 9, 0>>, <<1, 10>>, <<2, 0>>, <<2>>}
  <2>1. \A n \in CacheNames : n.numbers \in numbers
    BY DEF CacheNames
  <2>2. numbers \subseteq Seq(Nat)
    OBVIOUS
  <2> HIDE DEF numbers
  <2> QED BY <2>1, <2>2
<1>2. IsFiniteSet(CacheNames)
  <2> DEFINE numbers == {<<1, 9>>, <<1, 9, 0>>, <<1, 10>>, <<2, 0>>, <<2>>}
             name == [n \in numbers |-> [v |-> FALSE, numbers |-> n]]
             names == {[v |-> FALSE, numbers |-> n] : n \in numbers}
  <2>1. IsFiniteSet(numbers)
    <3>1. \A S, x : IsFiniteSet(S) => IsFiniteSet(S \cup {x})
      BY FS_AddElement
    <3>2. \A a, b, c, d, e : IsFiniteSet((((({} \cup {a}) \cup {b}) \cup {c}) \cup {d}) \cup {e})
      BY <3>1, FS_EmptySet
    <3>3. numbers = (((({} \cup {<<1, 9>>}) \cup {<<1, 9, 0>>}) \cup {<<1, 10>>}) \cup {<<2, 0>>}) \cup {<<2>>}
      OBVIOUS
    <3>4. IsFiniteSet((((({} \cup {<<1, 9>>}) \cup {<<1, 9, 0>>}) \cup {<<1, 10>>}) \cup {<<2, 0>>}) \cup {<<2>>})
      BY <3>2
    <3> QED BY <3>3, <3>4
  <2>2. CacheNames = names \cup {[v |-> TRUE, numbers |-> <<1, 9>>]}
    BY DEF CacheNames
  <2> HIDE DEF numbers
  <2>3. name \in Surjection(numbers, names)
    BY DEF Surjection
  <2>4. IsFiniteSet(names)
    BY <2>1, <2>3, FS_Surjection
  <2> HIDE DEF names
  <2> QED BY <2>2, <2>4, FS_AddElement
<1>3. ASSUME NEW entries \in Cached
      PROVE  IsFiniteSet(entries) /\ (\A d, e \in entries : d.name = e.name => d = e) /\ Numbered({e.name : e \in entries})
  <2> DEFINE EntriesOf(there, file, stuck) == {Entry(n, n # file, n # stuck) : n \in there}
  <2>0. Cached = {EntriesOf(there, file, stuck) :
           there \in SUBSET CacheNames, file \in {[v |-> FALSE, numbers |-> <<2, 0>>], Nobody},
           stuck \in {[v |-> FALSE, numbers |-> <<1, 10>>], Nobody}}
    BY DEF Cached
  <2>1. PICK there, file, stuck : there \subseteq CacheNames /\ entries = {Entry(n, n # file, n # stuck) : n \in there}
    <3>1. \E there, file, stuck : there \subseteq CacheNames /\ entries = EntriesOf(there, file, stuck)
      <4> HIDE DEF EntriesOf
      <4> QED BY <2>0
    <3> QED BY <3>1
  <2> DEFINE entry == [n \in there |-> Entry(n, n # file, n # stuck)]
  <2>2. \A n \in there : Entry(n, n # file, n # stuck).name = n
    BY DEF Entry
  <2>3. entry \in Surjection(there, entries)
    BY <2>1 DEF Surjection
  <2>4. IsFiniteSet(entries)
    BY <1>2, <2>1, <2>3, FS_Subset, FS_Surjection
  <2>5. \A e \in entries : e.name \in there /\ e = Entry(e.name, e.name # file, e.name # stuck)
    BY <2>1, <2>2
  <2>6. \A e \in entries : e.name.numbers \in Seq(Nat)
    BY <1>1, <2>1, <2>5
  <2> QED BY <2>4, <2>5, <2>6 DEF Numbered
<1>4. CacheOf(i.cache)
  <2>1. CASE i.cache \in [state : {"there"}, registry : Records, entries : Cached]
    BY <1>3, <2>1 DEF CacheOf
  <2>2. CASE i.cache \in [state : {"missing", "unreadable"}, registry : Records, entries : {{}}]
    <3>1. i.cache.state \in {"missing", "unreadable"} /\ i.cache.entries = {}
      BY <2>2
    <3>2. Numbered({e.name : e \in i.cache.entries})
      BY <3>1 DEF Numbered
    <3> QED BY <3>1, <3>2, FS_EmptySet DEF CacheOf
  <2> QED BY <2>1, <2>2 DEF SweepInputs
<1>5. ASSUME NEW registry \in Records PROVE IsFiniteSet(ActiveVersions(registry))
  <2> DEFINE first == [p \in registry.plugins |-> p.versions[1]]
             firsts == {p.versions[1] : p \in registry.plugins}
  <2>1. IsFiniteSet(registry.plugins)
    <3>1. \A x, y : IsFiniteSet({x, y})
      <4> SUFFICES ASSUME NEW x, NEW y PROVE IsFiniteSet({x, y})
        OBVIOUS
      <4>1. IsFiniteSet({x}) /\ IsFiniteSet({y})
        BY FS_Singleton
      <4>2. IsFiniteSet({x} \cup {y})
        BY <4>1, FS_Union
      <4>3. {x, y} = {x} \cup {y}
        OBVIOUS
      <4> QED BY <4>2, <4>3
    <3>2. CASE registry.plugins = {}
      BY <3>2, FS_EmptySet
    <3>3. ASSUME registry.plugins # {} PROVE \E x, y : registry.plugins = {x, y}
      <4> DEFINE PluginsOf(ours, other, n, ns) == {[ours |-> ours, versions |-> <<n>>], [ours |-> other, versions |-> ns]}
                 pairs == {PluginsOf(ours, other, n, ns) :
                             ours \in BOOLEAN, other \in BOOLEAN, n \in CacheNames, ns \in {<<>>, <<[v |-> FALSE, numbers |-> <<1, 9>>]>>}}
      <4>1. Records = [readable : BOOLEAN, plugins : {{}}] \cup [readable : {TRUE}, plugins : pairs]
        BY DEF Records
      <4> HIDE DEF pairs
      <4>2. registry.plugins \in pairs
        BY <3>3, <4>1
      <4>3. \E ours, other, n, ns : registry.plugins = PluginsOf(ours, other, n, ns)
        <5> HIDE DEF PluginsOf
        <5> QED BY <4>2 DEF pairs
      <4> QED BY <4>3
    <3> QED BY <3>1, <3>2, <3>3
  <2>2. first \in Surjection(registry.plugins, firsts)
    BY DEF Surjection
  <2>3. IsFiniteSet(firsts)
    BY <2>1, <2>2, FS_Surjection
  <2>4. ActiveVersions(registry) \subseteq firsts
    BY DEF ActiveVersions
  <2> HIDE DEF firsts
  <2> QED BY <2>3, <2>4, FS_Subset
<1>6. i.cache.registry \in Records /\ i.apply \in BOOLEAN
  BY DEF SweepInputs
<1> QED BY <1>4, <1>5, <1>6, SweepIsSafe

-----------------------------------------------------------------------------
(* gitx *)

DiffLines(names) == [kind : {"+++", "@@", "+"}, name : names, at : Nat]
Readings(names) == [file : names, line : Nat, out : SUBSET (names \X Nat)]
Unread0 == [file |-> NoFile, line |-> 0, out |-> {}]
Reading(diff) == FoldLeft(ReadLine, Unread0, diff)

\* One line of a diff leaves what was read readable.
LEMMA ReadLineReads ==
  ASSUME NEW names, NEW s \in Readings(names), NEW l \in DiffLines(names)
  PROVE  ReadLine(s, l) \in Readings(names)
<1>1. /\ s.file \in names /\ s.line \in Nat /\ s.out \in SUBSET (names \X Nat)
      /\ s = [file |-> s.file, line |-> s.line, out |-> s.out]
      /\ l.name \in names /\ l.at \in Nat
  BY DEF Readings, DiffLines
<1>2. CASE l.kind = "+++"
  <2>1. ReadLine(s, l) = [s EXCEPT !.file = l.name]
    BY <1>2 DEF ReadLine
  <2> QED BY <1>1, <2>1 DEF Readings
<1>3. CASE l.kind = "@@"
  <2>1. ReadLine(s, l) = [s EXCEPT !.line = l.at]
    BY <1>3 DEF ReadLine
  <2> QED BY <1>1, <2>1 DEF Readings
<1>4. CASE l.kind \notin {"+++", "@@"} /\ (s.file = NoFile \/ s.line = 0)
  BY <1>4 DEF ReadLine
<1>5. CASE l.kind \notin {"+++", "@@"} /\ ~(s.file = NoFile \/ s.line = 0)
  <2>1. ReadLine(s, l) = [s EXCEPT !.out = @ \cup {<<s.file, s.line>>}, !.line = @ + 1]
    BY <1>5 DEF ReadLine
  <2>2. s.line + 1 \in Nat /\ s.out \cup {<<s.file, s.line>>} \in SUBSET (names \X Nat)
    BY <1>1
  <2> QED BY <1>1, <2>1, <2>2 DEF Readings
<1> QED BY <1>2, <1>3, <1>4, <1>5

ReadsOn(at, diff) == at[0] = Unread0 /\ \A i \in 1 .. Len(diff) : at[i] = ReadLine(at[i - 1], diff[i])

\* CollectAddedLines reads a diff line by line.
LEMMA ReadingWalks ==
  ASSUME NEW names, NoFile \in names, NEW diff \in Seq(DiffLines(names))
  PROVE  \E at \in [0 .. Len(diff) -> Readings(names)] : ReadsOn(at, diff) /\ Reading(diff) = at[Len(diff)]
<1> DEFINE T == Readings(names)
           n == Len(diff)
           step == [p \in T \X (1 .. n) |-> ReadLine(p[1], diff[p[2]])]
           Eq(f) == f = [s \in SUBSET DOMAIN diff |-> IF s = {} THEN Unread0 ELSE ReadLine(f[s \ {Max(s)}], diff[Max(s)])]
           iter == CHOOSE f : Eq(f)
           at == [i \in 0 .. n |-> iter[1 .. i]]
           S == {i \in 0 .. n : at[i] \in T}
<1>1. n \in Nat /\ DOMAIN diff = 1 .. n /\ \A i \in 1 .. n : diff[i] \in DiffLines(names)
  OBVIOUS
<1>2. Unread0 \in T
  BY DEF Unread0, Readings
<1>3. \A s \in T, i \in 1 .. n : ReadLine(s, diff[i]) \in T
  BY <1>1, ReadLineReads
<1>4. step \in [T \X (1 .. n) -> T] /\ \A s \in T, i \in 1 .. n : step[<<s, i>>] = ReadLine(s, diff[i])
  <2> HIDE DEF T, n
  <2> QED BY <1>3
<1>5. Reading(diff) = iter[DOMAIN diff]
  BY DEF Reading, FoldLeft, MapThenFoldSet
<1> HIDE DEF T, n, step
<1>6. \E f : Eq(f)
  <2>1. PICK f \in [SUBSET (1 .. n) -> T] : FoldsSets(f, n, Unread0, step)
    BY <1>1, <1>2, <1>4, FoldExists
  <2>2. ASSUME NEW s \in SUBSET (1 .. n), s # {} PROVE f[s] = ReadLine(f[s \ {Max(s)}], diff[Max(s)])
    <3>1. Max(s) \in 1 .. n /\ s \ {Max(s)} \in SUBSET (1 .. n)
      BY <1>1, <2>2, MaxInside
    <3>2. f[s \ {Max(s)}] \in T
      BY <3>1
    <3> QED BY <1>4, <2>1, <2>2, <3>1, <3>2 DEF FoldsSets
  <2>3. f[{}] = Unread0
    BY <2>1 DEF FoldsSets
  <2>4. Eq(f)
    BY <1>1, <2>1, <2>2, <2>3
  <2> QED BY <2>4
<1>7. Eq(iter)
  <2> HIDE DEF Eq
  <2> QED BY <1>6
<1> HIDE DEF iter
<1>8. at[0] = Unread0 /\ at[n] = iter[DOMAIN diff]
  BY <1>1, <1>7, Places
<1>9. ASSUME NEW i \in 1 .. n PROVE at[i] = ReadLine(at[i - 1], diff[i])
  <2>1. Max(1 .. i) = i /\ (1 .. i) \ {i} = 1 .. i - 1 /\ 1 .. i \in SUBSET (1 .. n) /\ 1 .. i # {}
    BY <1>1, Places
  <2>2. i \in 0 .. n /\ i - 1 \in 0 .. n
    BY <1>1
  <2> QED BY <1>1, <1>7, <2>1, <2>2
<1> HIDE DEF at, Eq
<1>10. \A i \in 0 .. n : i \in S
  <2>1. 0 \in S
    BY <1>1, <1>2, <1>8
  <2>2. ASSUME NEW i \in 1 .. n, i - 1 \in S PROVE i \in S
    <3>1. at[i - 1] \in T /\ i \in 0 .. n
      BY <1>1, <2>2
    <3> QED BY <1>3, <1>9, <3>1
  <2> HIDE DEF S
  <2> QED BY <1>1, <2>1, <2>2, Upwards
<1>11. at \in [0 .. n -> T]
  BY <1>10 DEF at
<1> QED BY <1>5, <1>8, <1>9, <1>11 DEF n, T, ReadsOn

\* What is read to the end of a longer diff is what was read before, and one line more.
LEMMA ReadingAppend ==
  ASSUME NEW names, NoFile \in names, NEW diff \in Seq(DiffLines(names)), NEW l \in DiffLines(names)
  PROVE  Reading(diff \o <<l>>) = ReadLine(Reading(diff), l)
<1> DEFINE n == Len(diff)
           more == diff \o <<l>>
<1>1. /\ n \in Nat /\ more \in Seq(DiffLines(names)) /\ Len(more) = n + 1
      /\ more[n + 1] = l /\ \A i \in 1 .. n : more[i] = diff[i]
  OBVIOUS
<1> HIDE DEF more
<1>2. PICK at \in [0 .. n -> Readings(names)] : ReadsOn(at, diff) /\ Reading(diff) = at[n]
  BY ReadingWalks
<1>3. PICK at2 \in [0 .. n + 1 -> Readings(names)] : ReadsOn(at2, more) /\ Reading(more) = at2[n + 1]
  BY <1>1, ReadingWalks
<1>r. /\ at[0] = Unread0 /\ \A i \in 1 .. n : at[i] = ReadLine(at[i - 1], diff[i])
      /\ at2[0] = Unread0 /\ \A i \in 1 .. n + 1 : at2[i] = ReadLine(at2[i - 1], more[i])
  BY <1>1, <1>2, <1>3 DEF ReadsOn
<1> HIDE DEF n
<1> DEFINE S == {i \in 0 .. n : at2[i] = at[i]}
<1>4. 0 \in S
  BY <1>1, <1>r
<1>5. ASSUME NEW i \in 1 .. n, i - 1 \in S PROVE i \in S
  <2>1. i \in 1 .. n + 1 /\ i \in 0 .. n /\ at2[i - 1] = at[i - 1]
    BY <1>1, <1>5
  <2>2. at2[i] = at[i]
    BY <1>1, <1>r, <2>1
  <2> QED BY <2>1, <2>2
<1>6. at2[n] = at[n]
  <2> HIDE DEF S
  <2>1. \A i \in 0 .. n : i \in S
    BY <1>1, <1>4, <1>5, Upwards
  <2>2. n \in S
    BY <1>1, <2>1
  <2> QED BY <2>2 DEF S
<1>7. n + 1 \in 1 .. n + 1 /\ n + 1 - 1 = n
  BY <1>1
<1>8. at2[n + 1] = ReadLine(at[n], l)
  BY <1>1, <1>r, <1>6, <1>7
<1> QED BY <1>2, <1>3, <1>8 DEF more

\* A diff is read from nothing.
LEMMA ReadingBegins ==
  ASSUME NEW names, NoFile \in names, NEW diff \in Seq(DiffLines(names))
  PROVE  Reading(<<>>) = Unread0 /\ Reading(diff) \in Readings(names)
<1>1. Len(diff) \in 0 .. Len(diff)
  OBVIOUS
<1>2. Reading(diff) \in Readings(names)
  BY <1>1, ReadingWalks
<1>3. <<>> \in Seq(DiffLines(names)) /\ Len(<<>>) = 0
  OBVIOUS
<1>4. Reading(<<>>) = Unread0
  <2> DEFINE none == <<>>
  <2>1. none \in Seq(DiffLines(names)) /\ Len(none) = 0
    BY <1>3
  <2> HIDE DEF none
  <2>2. Reading(none) = Unread0
    BY <2>1, ReadingWalks
  <2> QED BY <2>2 DEF none
<1> QED BY <1>2, <1>4

Regrouped(a, b, c, d) == a \o (b \o (c \o d)) = ((a \o b) \o c) \o d

\* Four sequences joined, whichever way.
LEMMA FourJoined ==
  ASSUME NEW S, NEW a \in Seq(S), NEW b \in Seq(S), NEW c \in Seq(S), NEW d \in Seq(S)
  PROVE  Regrouped(a, b, c, d)
<1> DEFINE ab == a \o b  cd == c \o d
<1>1. ab \in Seq(S) /\ cd \in Seq(S)
  OBVIOUS
<1>2. a \o (b \o cd) = ab \o cd
  <2> HIDE DEF cd
  <2> QED BY SMTT(30), <1>1
<1>3. ab \o cd = (ab \o c) \o d
  <2> HIDE DEF ab
  <2> QED BY <1>1
<1> QED BY <1>2, <1>3 DEF Regrouped

\* What is read of a printed diff are the lines it was printed for, but where an
\* added line looks like a header.
LEMMA PrintedIsRead ==
  ASSUME NEW file, file # NoFile, NEW old, NEW new, TextOf(new),
         \A n \in Added(old, new) : new[n].looks # "header"
  PROVE  CollectAddedLines(PrintDiff(file, old, new)) = {<<file, n>> : n \in Added(old, new)}
<1> DEFINE names == {file, NoFile}
           RawLines == DiffLines(names)
           hunks == [n \in DOMAIN new |->
                       IF n \notin Added(old, new) THEN <<>>
                       ELSE <<[kind |-> "@@", name |-> file, at |-> n],
                              IF new[n].looks = "header" THEN [kind |-> "+++", name |-> new[n].names, at |-> 0]
                              ELSE [kind |-> "+", name |-> file, at |-> n]>>]
           header == [kind |-> "+++", name |-> file, at |-> 0]
           hunk(n) == [kind |-> "@@", name |-> file, at |-> n]
           plus(n) == [kind |-> "+", name |-> file, at |-> n]
           len == Len(new)
           Upto(k) == {<<file, n>> : n \in {n \in Added(old, new) : n <= k}}
<1>1. len \in Nat /\ DOMAIN new = 1 .. len /\ Added(old, new) \subseteq 1 .. len
  BY DEF TextOf, Added
<1>2. header \in RawLines /\ \A n \in 1 .. len : hunk(n) \in RawLines /\ plus(n) \in RawLines
  BY <1>1 DEF DiffLines
<1>3. \A n \in 1 .. len : hunks[n] = IF n \notin Added(old, new) THEN <<>> ELSE <<hunk(n), plus(n)>>
  BY <1>1
<1>4. DOMAIN hunks = 1 .. len
  BY <1>1
<1> HIDE DEF RawLines, hunks, header, hunk, plus, len
<1>5. ASSUME NEW n \in 1 .. len PROVE hunks[n] \in Seq(RawLines)
  <2>1. <<>> \in Seq(RawLines) /\ <<hunk(n), plus(n)>> \in Seq(RawLines)
    BY <1>2
  <2> QED BY <1>3, <2>1
<1>6. hunks \in Seq(Seq(RawLines)) /\ Len(hunks) = len
  <2>1. hunks = [n \in 1 .. len |-> hunks[n]]
    BY <1>4 DEF hunks
  <2>2. hunks \in [1 .. len -> Seq(RawLines)]
    BY <1>5, <2>1
  <2> QED BY <1>1, <2>2
<1>7. PICK at \in [0 .. len -> Seq(RawLines)] :
           Joins(at, hunks) /\ FlattenSeq(hunks) = at[len]
  BY <1>6, Flattens
<1>j. at[0] = <<>> /\ \A i \in 1 .. len : at[i] = at[i - 1] \o hunks[i]
  BY <1>6, <1>7 DEF Joins
<1> DEFINE diff(i) == <<header>> \o at[i]
           S == {i \in 0 .. len : Reading(diff(i)).file = file /\ Reading(diff(i)).out = Upto(i)}
<1>8. \A i \in 0 .. len : diff(i) \in Seq(RawLines)
  BY <1>2
<1> HIDE DEF diff
<1>9. Reading(diff(0)).file = file /\ Reading(diff(0)).out = {}
  <2>1. diff(0) = <<>> \o <<header>>
    BY <1>2, <1>j DEF diff
  <2>2. <<>> \in Seq(RawLines)
    OBVIOUS
  <2>3. Reading(diff(0)) = ReadLine(Reading(<<>>), header)
    BY <1>2, <2>1, <2>2, ReadingAppend DEF RawLines
  <2>4. Reading(<<>>) = Unread0
    BY <2>2, ReadingBegins DEF RawLines
  <2> QED BY <2>3, <2>4 DEF ReadLine, Unread0, header
<1>10. 0 \in S
  <2>1. Upto(0) = {}
    BY <1>1
  <2> QED BY <1>1, <1>9, <2>1
<1>11. ASSUME NEW i \in 1 .. len, i - 1 \in S PROVE i \in S
  <2>0. i - 1 \in 0 .. len /\ i \in 0 .. len
    BY <1>1
  <2>1. Reading(diff(i - 1)).file = file /\ Reading(diff(i - 1)).out = Upto(i - 1)
    BY <1>11
  <2>2. CASE i \notin Added(old, new)
    <3>1. at[i] = at[i - 1]
      <4>1. at[i] = at[i - 1] \o <<>> /\ at[i - 1] \in Seq(RawLines)
        BY <1>3, <1>j, <2>0, <2>2
      <4> QED BY <4>1, ConcatEmptySeq
    <3>2. Upto(i) = Upto(i - 1)
      BY <1>1, <2>2
    <3> QED BY <2>0, <2>1, <3>1, <3>2 DEF diff
  <2>3. CASE i \in Added(old, new)
    <3>1. at[i] = at[i - 1] \o <<hunk(i), plus(i)>>
      BY <1>3, <1>j, <2>3
    <3>2. diff(i) = (diff(i - 1) \o <<hunk(i)>>) \o <<plus(i)>>
      <4> DEFINE h == <<header>>  a == at[i - 1]  b == <<hunk(i)>>  c == <<plus(i)>>
      <4>1. h \in Seq(RawLines) /\ a \in Seq(RawLines) /\ b \in Seq(RawLines) /\ c \in Seq(RawLines)
        BY <1>2, <2>0
      <4>2. <<hunk(i), plus(i)>> = b \o c
        OBVIOUS
      <4> HIDE DEF h, a, b, c
      <4>3. h \o (a \o (b \o c)) = ((h \o a) \o b) \o c
        <5>1. Regrouped(h, a, b, c)
          BY <4>1, FourJoined
        <5> QED BY <5>1 DEF Regrouped
      <4>4. diff(i) = h \o (a \o (b \o c)) /\ diff(i - 1) = h \o a
        BY <3>1, <4>2 DEF diff, h, a
      <4> QED BY <4>3, <4>4 DEF b, c
    <3>3. diff(i - 1) \in Seq(RawLines) /\ diff(i - 1) \o <<hunk(i)>> \in Seq(RawLines)
      BY <1>2, <1>8, <2>0
    <3> DEFINE r == Reading(diff(i - 1))
    <3>4. Reading(diff(i)) = ReadLine(ReadLine(r, hunk(i)), plus(i))
      BY <1>2, <3>2, <3>3, ReadingAppend DEF RawLines
    <3>5. r \in Readings(names)
      BY <3>3, ReadingBegins DEF RawLines
    <3> HIDE DEF r
    <3>6. ReadLine(r, hunk(i)) = [r EXCEPT !.line = i]
      BY DEF ReadLine, hunk
    <3>7. Reading(diff(i)).file = r.file /\ Reading(diff(i)).out = r.out \cup {<<r.file, i>>}
      <4>1. i # 0 /\ r.file # NoFile
        BY <1>1, <2>1 DEF r
      <4> DEFINE t == [r EXCEPT !.line = i]
      <4>2. t.file = r.file /\ t.line = i /\ t.out = r.out
        BY <3>5 DEF Readings
      <4>3. ReadLine(t, plus(i)) = [t EXCEPT !.out = @ \cup {<<t.file, t.line>>}, !.line = @ + 1]
        BY <4>1, <4>2 DEF ReadLine, plus
      <4>4. DOMAIN t = {"file", "line", "out"}
        BY <3>5 DEF Readings
      <4> HIDE DEF t
      <4>5. ReadLine(t, plus(i)).file = t.file /\ ReadLine(t, plus(i)).out = t.out \cup {<<t.file, t.line>>}
        BY <4>3, <4>4
      <4> QED BY <3>4, <3>6, <4>2, <4>5 DEF t
    <3>8. Upto(i) = Upto(i - 1) \cup {<<file, i>>}
      BY <1>1, <2>3
    <3> QED BY <2>0, <2>1, <3>7, <3>8 DEF r
  <2> QED BY <2>2, <2>3
<1>12. len \in S
  <2> HIDE DEF S
  <2>1. \A i \in 0 .. len : i \in S
    BY <1>1, <1>10, <1>11, Upwards
  <2> QED BY <1>1, <2>1
<1>13. Upto(len) = {<<file, n>> : n \in Added(old, new)}
  BY <1>1
<1>14. PrintDiff(file, old, new) = diff(len)
  BY <1>7 DEF PrintDiff, diff, header, hunks
<1>15. CollectAddedLines(PrintDiff(file, old, new)) = Reading(diff(len)).out
  BY <1>14 DEF CollectAddedLines, Reading, Unread0
<1> QED BY <1>12, <1>13, <1>15

\* The files of a repository: of a name each, and not the repository; texts.
FilesOf(files) ==
  /\ \A f \in files : f.name # NoFile /\ TextOf(f.tree) /\ TextOf(f.head)
  /\ \A f, g \in files : f.name = g.name => f = g

\* What git's two diffs say of a tracked file that lies as it was staged.
LEMMA WrittenByBoth ==
  ASSUME NEW f, f.name # NoFile, TextOf(f.tree), TextOf(f.head), f.index \in {f.head, f.tree},
         \A n \in DOMAIN f.tree : f.tree[n].looks = "header" => f.tree[n] \in {f.head[m] : m \in DOMAIN f.head}
  PROVE  CollectAddedLines(PrintDiff(f.name, f.head, f.index)) \cup CollectAddedLines(PrintDiff(f.name, f.index, f.tree))
           = {<<f.name, n>> : n \in Added(f.head, f.tree)}
<1> DEFINE RawLines(old, new) == CollectAddedLines(PrintDiff(f.name, old, new))
           Wrote(old, new) == {<<f.name, n>> : n \in Added(old, new)}
<1>1. \A n \in Added(f.head, f.tree) : f.tree[n].looks # "header"
  BY DEF Added, ToSet
<1>2. RawLines(f.head, f.tree) = Wrote(f.head, f.tree)
  BY <1>1, PrintedIsRead
<1>3. Added(f.head, f.head) = {} /\ Added(f.tree, f.tree) = {}
  BY DEF Added, ToSet
<1>4. RawLines(f.head, f.head) = {} /\ RawLines(f.tree, f.tree) = {}
  <2>1. RawLines(f.head, f.head) = Wrote(f.head, f.head)
    BY <1>3, PrintedIsRead
  <2>2. RawLines(f.tree, f.tree) = Wrote(f.tree, f.tree)
    BY <1>3, PrintedIsRead
  <2> QED BY <1>3, <2>1, <2>2
<1> HIDE DEF RawLines
<1>5. CASE f.index = f.head
  BY <1>2, <1>4, <1>5 DEF RawLines
<1>6. CASE f.index = f.tree
  BY <1>2, <1>4, <1>6 DEF RawLines
<1> QED BY <1>5, <1>6

\* gitx.NarrowToDiff, for any files that lie as they were staged and any findings.
THEOREM NarrowedIsWritten ==
  ASSUME NEW answers, NEW files, NEW found, FilesOf(files), AsItLies([answers |-> answers, files |-> files])
  PROVE  Written(answers, files, found, NarrowToDiff(answers, files, found))
<1> DEFINE kept == NarrowToDiff(answers, files, found)
<1> SUFFICES ASSUME answers, NEW f \in found, NEW g \in files, f.file = g.name, f.line \in DOMAIN g.tree
             PROVE  f \in kept <=> ~g.tracked \/ g.tree[f.line] \notin ToSet(g.head)
  BY DEF Written
<1>1. f.line # 0 /\ \A h \in files : DOMAIN h.tree \subseteq Nat
  BY DEF FilesOf, TextOf
<1>2. f \in kept <=> <<g.name, f.line>> \in AddedLines(files)
  BY <1>1 DEF NarrowToDiff
<1> DEFINE Both(h) == CollectAddedLines(PrintDiff(h.name, h.head, h.index))
                        \cup CollectAddedLines(PrintDiff(h.name, h.index, h.tree))
           Whole(h) == {<<h.name, n>> : n \in DOMAIN h.tree}
<1>3. AddedLines(files) = (UNION {Both(h) : h \in {h \in files : h.tracked}}) \cup (UNION {Whole(h) : h \in {h \in files : ~h.tracked}})
  BY DEF AddedLines
<1>4. \A h \in files : h.tracked => Both(h) = {<<h.name, n>> : n \in Added(h.head, h.tree)}
  <2> SUFFICES ASSUME NEW h \in files, h.tracked PROVE Both(h) = {<<h.name, n>> : n \in Added(h.head, h.tree)}
    OBVIOUS
  <2>1. /\ h.index \in {h.head, h.tree}
        /\ \A n \in DOMAIN h.tree : h.tree[n].looks = "header" => h.tree[n] \in {h.head[m] : m \in DOMAIN h.head}
    BY DEF AsItLies
  <2> QED BY <2>1, WrittenByBoth DEF FilesOf
<1> HIDE DEF Both
<1>5. CASE g.tracked
  <2>1. <<g.name, f.line>> \in AddedLines(files) <=> <<g.name, f.line>> \in Both(g)
    <3>1. \A h \in files : h.tracked /\ <<g.name, f.line>> \in Both(h) => h = g
      BY <1>4 DEF FilesOf
    <3>2. \A h \in files : ~h.tracked /\ <<g.name, f.line>> \in Whole(h) => h = g
      BY DEF FilesOf
    <3> HIDE DEF Whole
    <3> QED BY <1>3, <1>5, <3>1, <3>2
  <2>2. <<g.name, f.line>> \in Both(g) <=> f.line \in Added(g.head, g.tree)
    BY <1>4, <1>5
  <2> QED BY <1>2, <1>5, <2>1, <2>2 DEF Added
<1>6. CASE ~g.tracked
  <2>1. <<g.name, f.line>> \in Whole(g)
    OBVIOUS
  <2> HIDE DEF Whole
  <2> QED BY <1>2, <1>3, <1>6, <2>1
<1> QED BY <1>5, <1>6

-----------------------------------------------------------------------------
(* gitcmd, portability *)

\* A trailer that credits a tool, whatever the repository, its history and the
\* message (UnpushedCommits, AttributionIn, CollectFor, CollectUniversal).
THEOREM CreditsAreCaught ==
  ASSUME NEW repo, NEW message, repo.log # <<>>, TextOf(repo.log), repo.upstream \in Nat, repo.tracks \in BOOLEAN
  PROVE  CreditIsCaught(repo, message, {CollectFor(repo, message), CollectUniversal(repo, message)})
<1> DEFINE log == repo.log
           unpushed == {i \in DOMAIN log : IF repo.tracks THEN i > repo.upstream ELSE i = Len(log)}
           known == AttributionIn(UnpushedCommits(log, repo.tracks, repo.upstream)) \cup AttributionInMessage(message)
<1>1. known \subseteq CollectFor(repo, message) /\ known \subseteq CollectUniversal(repo, message)
  BY DEF CollectFor, CollectUniversal
<1>2. ASSUME message = "credits" PROVE \E f \in known : f.blocking
  <2>1. Finding("message", 0, TRUE) \in known
    BY <1>2 DEF AttributionInMessage
  <2> HIDE DEF known
  <2> WITNESS Finding("message", 0, TRUE) \in known
  <2> QED BY DEF Finding
<1>3. ASSUME NEW i \in unpushed, log[i].message = "credits" PROVE \E f \in known : f.blocking
  <2>1. log[i] \in UnpushedCommits(log, repo.tracks, repo.upstream)
    <3>1. DOMAIN log = 1 .. Len(log) /\ Len(log) \in Nat
      BY DEF TextOf
    <3>2. CASE repo.tracks
      <4> DEFINE sub == SubSeq(log, repo.upstream + 1, Len(log))
                 k == i - repo.upstream
      <4>1. k \in DOMAIN sub /\ sub[k] = log[i]
        BY SMTT(30), <3>1, <3>2
      <4> HIDE DEF sub, k
      <4>2. log[i] \in ToSet(sub)
        BY <4>1 DEF ToSet
      <4> QED BY <1>3, <3>2, <4>2 DEF UnpushedCommits, sub
    <3>3. CASE ~repo.tracks
      BY <1>3, <3>3 DEF UnpushedCommits, Last
    <3> QED BY <3>2, <3>3
  <2>2. Finding(log[i].sha, 0, TRUE) \in known
    BY <1>3, <2>1 DEF AttributionIn
  <2> HIDE DEF known
  <2> WITNESS Finding(log[i].sha, 0, TRUE) \in known
  <2> QED BY DEF Finding
<1> HIDE DEF known
<1> QED BY <1>1, <1>2, <1>3 DEF CreditIsCaught

\* `agents`, for any hosts, master and copies (AgentsToWrite, Agents, PortabilityCheck).
THEOREM AdviceSettles ==
  ASSUME NEW hosts, NEW master, NEW copies, hosts \subseteq DOMAIN copies
  PROVE  AgentsSettle(hosts, master, copies, AgentsToWrite(hosts, master, copies))
<1> DEFINE advice == AgentsToWrite(hosts, master, copies)
           written == [h \in DOMAIN copies |-> IF h \in advice THEN [body |-> master, front |-> TRUE] ELSE copies[h]]
<1> SUFFICES ASSUME master \notin {"absent", "unreadable"}, hosts # {}
             PROVE  PortabilityCheck(TRUE, hosts, master, written, <<>>) = {} /\ Agents(hosts, master, written) = 0
  BY DEF AgentsSettle
<1>1. \A h \in hosts : written[h].body = master /\ written[h].front
  BY DEF AgentsToWrite
<1> HIDE DEF written
<1>2. AgentsToWrite(hosts, master, written) = {}
  BY <1>1 DEF AgentsToWrite
<1>3. {h \in hosts : written[h].body # master} = {}
  BY <1>1
<1>4. DOMAIN <<>> = {}
  OBVIOUS
<1>5. PortabilityCheck(TRUE, hosts, master, written, <<>>) = {}
  BY <1>3, <1>4 DEF PortabilityCheck
<1> QED BY <1>2, <1>5 DEF Agents

-----------------------------------------------------------------------------
(* ciops *)

Partial(A, B) == UNION {[D -> B] : D \in SUBSET A}

\* Put: the value put is there.
LEMMA PartialAt ==
  ASSUME NEW A, NEW B, NEW f \in Partial(A, B)
  PROVE  DOMAIN f \in SUBSET A /\ f \in [DOMAIN f -> B]
BY DEF Partial

\* Put: the other values stay.
LEMMA PartialMore ==
  ASSUME NEW A, NEW B, NEW f \in Partial(A, B), NEW x \in A, NEW y \in B
  PROVE  Put(f, x, y) \in Partial(A, B) /\ [f EXCEPT ![x] = y] \in Partial(A, B)
<1> DEFINE D == DOMAIN f \cup {x}
<1>1. DOMAIN f \in SUBSET A /\ f \in [DOMAIN f -> B] /\ D \in SUBSET A
  BY PartialAt
<1>2. Put(f, x, y) \in [D -> B]
  BY <1>1 DEF Put
<1>4. [f EXCEPT ![x] = y] \in [DOMAIN f -> B]
  BY <1>1
<1> HIDE DEF D
<1> QED BY <1>1, <1>2, <1>4 DEF Partial

\* What is known after some lines of a workflow.
JobsKnown(lines) ==
  [inJobs : BOOLEAN, current : {lines[i].name : i \in {i \in DOMAIN lines : lines[i].kind = "job"}} \cup {"none"},
   start : Partial({lines[i].name : i \in {i \in DOMAIN lines : lines[i].kind = "job"}}, DOMAIN lines),
   bodies : Partial({lines[i].name : i \in {i \in DOMAIN lines : lines[i].kind = "job"}}, SUBSET {lines[i].kind : i \in DOMAIN lines})]
NoJobs == [inJobs |-> FALSE, current |-> "none", start |-> <<>>, bodies |-> <<>>]

\* A line of a workflow ends no job that it does not begin.
LEMMA JobLineKnows ==
  ASSUME NEW lines, NEW i \in DOMAIN lines, NEW s \in JobsKnown(lines)
  PROVE  JobLine(lines, s, i) \in JobsKnown(lines)
<1> DEFINE names == {lines[j].name : j \in {j \in DOMAIN lines : lines[j].kind = "job"}}
           kinds == {lines[j].kind : j \in DOMAIN lines}
<1>1. /\ s.inJobs \in BOOLEAN /\ s.current \in names \cup {"none"} /\ s.start \in Partial(names, DOMAIN lines)
      /\ s.bodies \in Partial(names, SUBSET kinds)
      /\ s = [inJobs |-> s.inJobs, current |-> s.current, start |-> s.start, bodies |-> s.bodies]
  BY DEF JobsKnown
<1>2. ASSUME NEW inJobs \in BOOLEAN, NEW current \in names \cup {"none"}, NEW start \in Partial(names, DOMAIN lines),
             NEW bodies \in Partial(names, SUBSET kinds)
      PROVE  [inJobs |-> inJobs, current |-> current, start |-> start, bodies |-> bodies] \in JobsKnown(lines)
  BY DEF JobsKnown
<1>3. lines[i].kind \in kinds /\ (lines[i].kind = "job" => lines[i].name \in names)
  OBVIOUS
<1> HIDE DEF names, kinds
<1>4. CASE lines[i].kind = "jobs"
  <2>1. JobLine(lines, s, i) = [inJobs |-> TRUE, current |-> s.current, start |-> s.start, bodies |-> s.bodies]
    BY <1>1, <1>4 DEF JobLine
  <2> QED BY <1>1, <1>2, <2>1
<1>5. CASE lines[i].kind # "jobs" /\ ~s.inJobs
  BY <1>5 DEF JobLine
<1>6. CASE lines[i].kind = "top" /\ s.inJobs
  <2>1. JobLine(lines, s, i) = [inJobs |-> FALSE, current |-> s.current, start |-> s.start, bodies |-> s.bodies]
    BY <1>1, <1>6 DEF JobLine
  <2> QED BY ZenonT(40), <1>1, <1>2, <2>1
<1>7. CASE lines[i].kind = "job" /\ s.inJobs
  <2> DEFINE start == Put(s.start, lines[i].name, i)
             bodies == IF lines[i].name \in DOMAIN s.bodies THEN s.bodies ELSE Put(s.bodies, lines[i].name, {})
  <2>1. start \in Partial(names, DOMAIN lines) /\ bodies \in Partial(names, SUBSET kinds)
    BY <1>1, <1>3, <1>7, PartialMore
  <2>2. JobLine(lines, s, i) = [inJobs |-> s.inJobs, current |-> lines[i].name, start |-> start, bodies |-> bodies]
    BY <1>1, <1>7 DEF JobLine
  <2> HIDE DEF start, bodies
  <2> QED BY ZenonT(40), <1>1, <1>2, <1>3, <1>7, <2>1, <2>2
<1>8. CASE lines[i].kind \notin {"jobs", "top", "job"} /\ s.inJobs
  <2>1. CASE s.current = "none"
    BY <1>8, <2>1 DEF JobLine
  <2>2. CASE s.current # "none" /\ s.current \in DOMAIN s.bodies
    <3> DEFINE body == s.bodies[s.current] \cup {lines[i].kind}
               bodies == [s.bodies EXCEPT ![s.current] = body]
    <3>1. body \in SUBSET kinds
      BY <1>1, <1>3, <2>2, PartialAt
    <3>2. bodies \in Partial(names, SUBSET kinds)
      <4> HIDE DEF body
      <4> QED BY <1>1, <2>2, <3>1, PartialMore
    <3>3. JobLine(lines, s, i) = [inJobs |-> s.inJobs, current |-> s.current, start |-> s.start, bodies |-> bodies]
      BY <1>1, <1>8, <2>2 DEF JobLine
    <3> HIDE DEF bodies
    <3> QED BY ZenonT(40), <1>1, <1>2, <3>2, <3>3
  <2>3. CASE s.current # "none" /\ s.current \notin DOMAIN s.bodies
    <3> DEFINE bodies == [s.bodies EXCEPT ![s.current] = @ \cup {lines[i].kind}]
    <3>1. bodies = s.bodies
      BY <1>1, <2>3, PartialAt
    <3>2. JobLine(lines, s, i) = [inJobs |-> s.inJobs, current |-> s.current, start |-> s.start, bodies |-> bodies]
      BY <1>1, <1>8, <2>3 DEF JobLine
    <3> HIDE DEF bodies
    <3> QED BY <1>1, <1>2, <3>1, <3>2
  <2> QED BY <2>1, <2>2, <2>3
<1> QED BY <1>1, <1>4, <1>5, <1>6, <1>7, <1>8

JobsGo(at, lines) == at[0] = NoJobs /\ \A i \in 1 .. Len(lines) : at[i] = JobLine(lines, at[i - 1], i)

\* JobLines reads a workflow line by line.
LEMMA JobsWalk ==
  ASSUME NEW lines, TextOf(lines)
  PROVE  \E at \in [0 .. Len(lines) -> JobsKnown(lines)] : JobsGo(at, lines) /\ JobLines(lines) = at[Len(lines)]
<1> DEFINE T == JobsKnown(lines)
           n == Len(lines)
           places == [i \in DOMAIN lines |-> i]
           step == [p \in T \X (1 .. n) |-> JobLine(lines, p[1], p[2])]
           Eq(f) == f = [s \in SUBSET DOMAIN places |-> IF s = {} THEN NoJobs ELSE JobLine(lines, f[s \ {Max(s)}], places[Max(s)])]
           iter == CHOOSE f : Eq(f)
<1>1. n \in Nat /\ DOMAIN lines = 1 .. n /\ DOMAIN places = 1 .. n /\ \A i \in 1 .. n : places[i] = i
  BY DEF TextOf
<1>2. NoJobs \in T
  <2>1. <<>> \in [{} -> DOMAIN lines] /\ \A B : <<>> \in [{} -> B]
    OBVIOUS
  <2> QED BY <2>1 DEF NoJobs, JobsKnown, Partial
<1>4. step \in [T \X (1 .. n) -> T] /\ \A s \in T, i \in 1 .. n : step[<<s, i>>] = JobLine(lines, s, i)
  <2>1. \A s \in T, i \in 1 .. n : JobLine(lines, s, i) \in T
    BY <1>1, JobLineKnows
  <2> HIDE DEF T, n
  <2> QED BY <2>1
<1>5. JobLines(lines) = iter[DOMAIN places]
  BY DEF JobLines, FoldLeft, MapThenFoldSet, NoJobs
<1> HIDE DEF T, n, step, places
<1>6. \E f : Eq(f)
  <2>1. PICK f \in [SUBSET (1 .. n) -> T] : FoldsSets(f, n, NoJobs, step)
    BY <1>1, <1>2, <1>4, FoldExists
  <2>2. ASSUME NEW s \in SUBSET (1 .. n), s # {} PROVE f[s] = JobLine(lines, f[s \ {Max(s)}], places[Max(s)])
    <3>1. Max(s) \in 1 .. n /\ s \ {Max(s)} \in SUBSET (1 .. n)
      BY <1>1, <2>2, MaxInside
    <3>2. f[s \ {Max(s)}] \in T
      BY <3>1
    <3>3. f[s] = step[<<f[s \ {Max(s)}], Max(s)>>]
      BY <2>1, <2>2 DEF FoldsSets
    <3>4. step[<<f[s \ {Max(s)}], Max(s)>>] = JobLine(lines, f[s \ {Max(s)}], Max(s)) /\ places[Max(s)] = Max(s)
      BY <1>1, <1>4, <3>1, <3>2
    <3> QED BY <3>3, <3>4
  <2>3. f[{}] = NoJobs
    BY <2>1 DEF FoldsSets
  <2>4. Eq(f)
    BY <1>1, <2>1, <2>2, <2>3
  <2> QED BY <2>4
<1>7. Eq(iter)
  <2> HIDE DEF Eq
  <2> QED BY <1>6
<1> HIDE DEF iter
<1>8. iter[{}] = NoJobs
  BY <1>7
<1>9. ASSUME NEW s \in SUBSET (1 .. n), s # {}, iter[s \ {Max(s)}] \in T
      PROVE iter[s] = step[<<iter[s \ {Max(s)}], Max(s)>>]
  <2>1. Max(s) \in 1 .. n
    BY <1>1, <1>9, MaxInside
  <2>2. step[<<iter[s \ {Max(s)}], Max(s)>>] = JobLine(lines, iter[s \ {Max(s)}], Max(s)) /\ places[Max(s)] = Max(s)
    BY <1>1, <1>4, <1>9, <2>1
  <2>3. iter[s] = JobLine(lines, iter[s \ {Max(s)}], places[Max(s)])
    BY <1>1, <1>7, <1>9
  <2> QED BY <2>2, <2>3
<1> HIDE DEF Eq
<1>g. Iterates(iter, T, n, step)
  BY <1>9 DEF Iterates
<1>10. PICK at \in [0 .. n -> T] : Arrives(at, n, NoJobs, step, iter)
  BY <1>1, <1>2, <1>4, <1>8, <1>g, FoldWalks
<1>11. ASSUME NEW i \in 1 .. n PROVE at[i] = JobLine(lines, at[i - 1], i)
  <2>1. at[i - 1] \in T
    BY <1>1
  <2> QED BY <1>4, <1>10, <2>1 DEF Walks, Arrives
<1> QED BY <1>1, <1>5, <1>10, <1>11 DEF n, T, JobsGo, Walks, Arrives

\* The jobs with a bound up to a line.
BoundBy(lines, j, i) ==
  \E k \in LinesOf(lines, "timeout") : k <= i /\ k > j /\ BelowJobs(lines, k) /\ ~\E m \in JobsOf(lines) : j < m /\ m < k

\* What is known after i lines of the jobs among them.
KnowsJobs(lines, s, i) ==
  /\ s.inJobs <=> \E j \in LinesOf(lines, "jobs") : j <= i /\ ~\E t \in LinesOf(lines, "top") : j < t /\ t <= i
  /\ DOMAIN s.start = {lines[j].name : j \in {j \in JobsOf(lines) : j <= i}} /\ DOMAIN s.bodies = DOMAIN s.start
  /\ \A j \in JobsOf(lines) : j <= i => s.start[lines[j].name] = j
  /\ \/ s.current = "none" /\ \A j \in JobsOf(lines) : j > i
     \/ \E j \in JobsOf(lines) : j <= i /\ s.current = lines[j].name /\ \A m \in JobsOf(lines) : m <= i => m <= j
  /\ \A j \in JobsOf(lines) : j <= i => ("timeout" \in s.bodies[lines[j].name] <=> BoundBy(lines, j, i))
NamedJobs(lines) ==
  /\ \A i \in LinesOf(lines, "job") : lines[i].name # "none"
  /\ \A i, j \in JobsOf(lines) : lines[i].name = lines[j].name => i = j

\* What the jobs read so far know goes on with the next line.
LEMMA NextLineKnows ==
  ASSUME NEW lines, TextOf(lines), NamedJobs(lines), NEW i \in 1 .. Len(lines), NEW s \in JobsKnown(lines),
         KnowsJobs(lines, s, i - 1)
  PROVE  KnowsJobs(lines, JobLine(lines, s, i), i)
<1> DEFINE t == JobLine(lines, s, i)
           kind == lines[i].kind
           Jobs == JobsOf(lines)
           In(k) == \E j \in LinesOf(lines, "jobs") : j <= k /\ ~\E o \in LinesOf(lines, "top") : j < o /\ o <= k
<1>1. /\ DOMAIN lines = 1 .. Len(lines) /\ Len(lines) \in Nat /\ i \in DOMAIN lines /\ Jobs \subseteq 1 .. Len(lines)
      /\ \A k : LinesOf(lines, k) \subseteq 1 .. Len(lines)
  BY DEF TextOf, JobsOf, LinesOf
<1>2. /\ DOMAIN s = {"inJobs", "current", "start", "bodies"}
      /\ s = [inJobs |-> s.inJobs, current |-> s.current, start |-> s.start, bodies |-> s.bodies]
      /\ s.inJobs \in BOOLEAN
  BY DEF JobsKnown
<1>3. /\ s.inJobs <=> In(i - 1)
      /\ DOMAIN s.start = {lines[j].name : j \in {j \in Jobs : j <= i - 1}} /\ DOMAIN s.bodies = DOMAIN s.start
      /\ \A j \in Jobs : j <= i - 1 => s.start[lines[j].name] = j
      /\ \/ s.current = "none" /\ \A j \in Jobs : j > i - 1
         \/ \E j \in Jobs : j <= i - 1 /\ s.current = lines[j].name /\ \A m \in Jobs : m <= i - 1 => m <= j
      /\ \A j \in Jobs : j <= i - 1 => ("timeout" \in s.bodies[lines[j].name] <=> BoundBy(lines, j, i - 1))
  BY DEF KnowsJobs
<1>4. kind \notin {"jobs", "top"} => (In(i) <=> In(i - 1)) /\ (BelowJobs(lines, i) <=> In(i - 1))
  BY <1>1 DEF LinesOf, BelowJobs
<1>5. i \in Jobs <=> kind = "job" /\ In(i - 1)
  <2>1. i \in Jobs <=> kind = "job" /\ BelowJobs(lines, i)
    BY <1>1 DEF JobsOf, LinesOf
  <2> QED BY <1>4, <2>1
<1>6. i \in LinesOf(lines, "timeout") <=> kind = "timeout"
  BY <1>1 DEF LinesOf
<1>7. kind = "timeout" => (BelowJobs(lines, i) <=> In(i - 1))
  BY <1>4
<1>8. ASSUME NEW j \in Jobs, ~(kind = "timeout" /\ In(i - 1)) PROVE BoundBy(lines, j, i) <=> BoundBy(lines, j, i - 1)
  <2>1. \A k \in LinesOf(lines, "timeout") : k <= i /\ BelowJobs(lines, k) => k <= i - 1
    BY <1>1, <1>6, <1>7, <1>8
  <2>2. \A k \in LinesOf(lines, "timeout") : k <= i - 1 => k <= i
    BY <1>1
  <2> QED BY <2>1, <2>2 DEF BoundBy
<1>9. ASSUME i \notin Jobs PROVE \A j \in Jobs : j <= i <=> j <= i - 1
  BY <1>1, <1>9
<1>n. \A j, m \in Jobs : lines[j].name = lines[m].name => j = m
  BY DEF NamedJobs
<1>m. \A j \in Jobs : lines[j].name # "none"
  BY DEF NamedJobs, JobsOf
<1>k. ASSUME NEW u, u.inJobs <=> In(i),
             DOMAIN u.start = {lines[j].name : j \in {j \in Jobs : j <= i}}, DOMAIN u.bodies = DOMAIN u.start,
             \A j \in Jobs : j <= i => u.start[lines[j].name] = j,
             \/ u.current = "none" /\ \A j \in Jobs : j > i
             \/ \E j \in Jobs : j <= i /\ u.current = lines[j].name /\ \A m \in Jobs : m <= i => m <= j,
             \A j \in Jobs : j <= i => ("timeout" \in u.bodies[lines[j].name] <=> BoundBy(lines, j, i))
      PROVE  KnowsJobs(lines, u, i)
  BY <1>k DEF KnowsJobs
<1> HIDE DEF Jobs, In, kind
\* The line that changes no job: what is known of them is what was.
<1>10. ASSUME i \notin Jobs, ~(kind = "timeout" /\ In(i - 1)), NEW b \in BOOLEAN, b <=> In(i)
       PROVE  KnowsJobs(lines, [inJobs |-> b, current |-> s.current, start |-> s.start, bodies |-> s.bodies], i)
  <2> DEFINE u == [inJobs |-> b, current |-> s.current, start |-> s.start, bodies |-> s.bodies]
  <2>1. u.inJobs = b /\ u.current = s.current /\ u.start = s.start /\ u.bodies = s.bodies
    OBVIOUS
  <2> HIDE DEF u
  <2>2. {j \in Jobs : j <= i} = {j \in Jobs : j <= i - 1} /\ \A j \in Jobs : j > i <=> j > i - 1
    <3>1. \A j \in Jobs : (j <= i <=> j <= i - 1) /\ (j > i <=> ~(j <= i)) /\ (j > i - 1 <=> ~(j <= i - 1))
      <4>1. \A j \in Jobs : j <= i <=> j <= i - 1
        BY <1>9, <1>10
      <4>2. \A j \in Jobs : (j > i <=> ~(j <= i)) /\ (j > i - 1 <=> ~(j <= i - 1))
        BY <1>1
      <4> QED BY <4>1, <4>2
    <3> QED BY <3>1
  <2>3. \A j \in Jobs : j <= i => ("timeout" \in u.bodies[lines[j].name] <=> BoundBy(lines, j, i))
    BY <1>3, <1>8, <1>9, <1>10, <2>1
  <2>4. \A j \in Jobs : j <= i => u.start[lines[j].name] = j
    BY <1>3, <1>9, <1>10, <2>1
  <2>5. \/ u.current = "none" /\ \A j \in Jobs : j > i
        \/ \E j \in Jobs : j <= i /\ u.current = lines[j].name /\ \A m \in Jobs : m <= i => m <= j
    BY <1>3, <1>9, <1>10, <2>1, <2>2
  <2>6. KnowsJobs(lines, u, i)
    BY <1>3, <1>10, <1>k, <2>1, <2>2, <2>3, <2>4, <2>5
  <2> QED BY <2>6 DEF u
<1>11. CASE kind = "jobs"
  <2>1. In(i)
    <3>1. i \in LinesOf(lines, "jobs") /\ i <= i /\ ~\E o \in LinesOf(lines, "top") : i < o /\ o <= i
      BY <1>1, <1>11 DEF LinesOf, kind
    <3> QED BY <3>1 DEF In
  <2>2. t = [inJobs |-> TRUE, current |-> s.current, start |-> s.start, bodies |-> s.bodies]
    BY <1>2, <1>11 DEF JobLine, kind
  <2>3. i \notin Jobs /\ kind # "timeout"
    BY <1>5, <1>11
  <2> QED BY <1>10, <2>1, <2>2, <2>3
<1>12. CASE kind # "jobs" /\ ~s.inJobs
  <2>1. t = [inJobs |-> FALSE, current |-> s.current, start |-> s.start, bodies |-> s.bodies]
    BY <1>2, <1>12 DEF JobLine, kind
  <2>2. ~In(i)
    <3>1. \A j \in LinesOf(lines, "jobs") : j <= i => j <= i - 1
      BY <1>1, <1>12 DEF LinesOf, kind
    <3>2. \A o \in LinesOf(lines, "top") : o <= i - 1 => o <= i
      BY <1>1
    <3> QED BY <1>3, <1>12, <3>1, <3>2 DEF In
  <2>3. i \notin Jobs /\ ~In(i - 1)
    BY <1>3, <1>5, <1>12
  <2> QED BY <1>10, <2>1, <2>2, <2>3
<1>13. CASE kind = "top" /\ s.inJobs
  <2>1. t = [inJobs |-> FALSE, current |-> s.current, start |-> s.start, bodies |-> s.bodies]
    BY <1>2, <1>13 DEF JobLine, kind
  <2>2. ~In(i)
    <3>1. i \in LinesOf(lines, "top") /\ i <= i
      BY <1>1, <1>13 DEF LinesOf, kind
    <3>2. \A j \in LinesOf(lines, "jobs") : j <= i => j < i
      BY <1>1, <1>13 DEF LinesOf, kind
    <3> QED BY <3>1, <3>2 DEF In
  <2>3. i \notin Jobs /\ kind # "timeout"
    BY <1>5, <1>13
  <2> QED BY <1>10, <2>1, <2>2, <2>3
<1>14. CASE kind = "job" /\ s.inJobs
  <2> DEFINE name == lines[i].name
  <2>1. i \in Jobs /\ In(i) /\ In(i - 1)
    BY <1>3, <1>4, <1>5, <1>14
  <2>2. name \notin DOMAIN s.start
    BY <1>1, <1>3, <1>n, <2>1
  <2>3. t.inJobs = s.inJobs /\ t.current = name /\ t.start = Put(s.start, name, i) /\ t.bodies = Put(s.bodies, name, {})
    <3>1. t = [s EXCEPT !.current = name, !.start = Put(@, name, i), !.bodies = Put(@, name, {})]
      BY <1>3, <1>14, <2>2 DEF JobLine, kind
    <3> HIDE DEF t, name
    <3> QED BY <1>2, <3>1
  <2> HIDE DEF t, name
  <2>4. DOMAIN t.start = {lines[j].name : j \in {j \in Jobs : j <= i}} /\ DOMAIN t.bodies = DOMAIN t.start
    <3>1. {j \in Jobs : j <= i} = {j \in Jobs : j <= i - 1} \cup {i}
      BY <1>1, <2>1
    <3>2. DOMAIN t.start = DOMAIN s.start \cup {name} /\ DOMAIN t.bodies = DOMAIN s.bodies \cup {name}
      BY <2>3 DEF Put
    <3> QED BY <1>3, <3>1, <3>2 DEF name
  <2>5. ASSUME NEW j \in Jobs, j <= i - 1
        PROVE  t.start[lines[j].name] = s.start[lines[j].name] /\ t.bodies[lines[j].name] = s.bodies[lines[j].name]
    <3>1. lines[j].name \in DOMAIN s.start /\ lines[j].name \in DOMAIN s.bodies /\ lines[j].name # name
      BY <1>3, <2>2, <2>5
    <3> QED BY <2>3, <3>1 DEF Put
  <2>6. t.start[lines[i].name] = i /\ t.bodies[lines[i].name] = {}
    BY <2>3 DEF Put, name
  <2>7. ~BoundBy(lines, i, i)
    BY <1>1 DEF BoundBy
  <2>8. \A j \in Jobs : j <= i => j = i \/ j <= i - 1
    BY <1>1
  <2>9. \A j \in Jobs : j <= i => t.start[lines[j].name] = j
    BY <1>3, <2>5, <2>6, <2>8
  <2>10. \A j \in Jobs : j <= i => ("timeout" \in t.bodies[lines[j].name] <=> BoundBy(lines, j, i))
    <3>1. \A j \in Jobs : BoundBy(lines, j, i) <=> BoundBy(lines, j, i - 1)
      BY <1>8, <1>14
    <3> QED BY <1>3, <2>5, <2>6, <2>7, <2>8, <3>1
  <2>11. \E j \in Jobs : j <= i /\ t.current = lines[j].name /\ \A m \in Jobs : m <= i => m <= j
    BY <1>1, <2>1, <2>3 DEF name
  <2>12. KnowsJobs(lines, t, i)
    BY <1>14, <1>k, <2>1, <2>3, <2>4, <2>9, <2>10, <2>11
  <2> QED BY <2>12 DEF t
<1>15. CASE kind \notin {"jobs", "top", "job"} /\ s.inJobs
  <2>1. i \notin Jobs /\ In(i) /\ In(i - 1)
    BY <1>3, <1>4, <1>5, <1>15
  <2>2. CASE s.current = "none"
    <3>1. t = s
      BY <1>15, <2>2 DEF JobLine, kind
    <3>2. \A j \in Jobs : j > i - 1
      BY <1>3, <1>m, <2>2
    <3>3. \A j \in Jobs : j > i
      BY <1>1, <1>9, <2>1, <3>2
    <3>4. {j \in Jobs : j <= i} = {} /\ {j \in Jobs : j <= i - 1} = {} /\ \A j \in Jobs : ~(j <= i)
      <4>1. \A j \in Jobs : ~(j <= i) /\ ~(j <= i - 1)
        BY <1>1, <3>2, <3>3
      <4> QED BY <4>1
    <3>5. KnowsJobs(lines, s, i)
      BY <1>3, <1>15, <1>k, <2>1, <2>2, <3>3, <3>4
    <3> QED BY <3>1, <3>5
  <2>3. CASE s.current # "none"
    <3>1. PICK last \in Jobs : last <= i - 1 /\ s.current = lines[last].name /\ \A m \in Jobs : m <= i - 1 => m <= last
      BY <1>3, <2>3
    <3>2. s.current \in DOMAIN s.bodies
      BY <1>3, <3>1
    <3>3. /\ t.inJobs = s.inJobs /\ t.current = s.current /\ t.start = s.start
          /\ t.bodies = [s.bodies EXCEPT ![s.current] = s.bodies[s.current] \cup {kind}]
      <4>1. t = [s EXCEPT !.bodies[s.current] = @ \cup {kind}]
        BY <1>15, <2>3 DEF JobLine, kind
      <4> HIDE DEF t
      <4> QED BY <1>2, <4>1
    <3> HIDE DEF t
    <3>4. {j \in Jobs : j <= i} = {j \in Jobs : j <= i - 1}
      BY <1>9, <2>1
    <3>5. DOMAIN t.bodies = DOMAIN s.bodies
      BY <3>3
    <3>6. ASSUME NEW j \in Jobs, j <= i - 1, j # last
          PROVE  t.bodies[lines[j].name] = s.bodies[lines[j].name] /\ (BoundBy(lines, j, i) <=> BoundBy(lines, j, i - 1))
      <4>1. lines[j].name # s.current /\ lines[j].name \in DOMAIN s.bodies
        BY <1>3, <1>n, <3>1, <3>6
      <4>2. t.bodies[lines[j].name] = s.bodies[lines[j].name]
        BY <3>3, <4>1
      <4>3. j < last /\ last < i
        BY <1>1, <3>1, <3>6
      <4>4. BoundBy(lines, j, i) => BoundBy(lines, j, i - 1)
        <5>1. \A k \in LinesOf(lines, "timeout") : k <= i /\ ~(\E m \in Jobs : j < m /\ m < k) => k <= i - 1
          BY <1>1, <4>3
        <5> QED BY <5>1 DEF BoundBy, Jobs
      <4>5. BoundBy(lines, j, i - 1) => BoundBy(lines, j, i)
        <5>1. \A k \in LinesOf(lines, "timeout") : k <= i - 1 => k <= i
          BY <1>1
        <5> QED BY <5>1 DEF BoundBy
      <4> QED BY <4>2, <4>4, <4>5
    <3>7. "timeout" \in t.bodies[lines[last].name] <=> BoundBy(lines, last, i)
      <4>1. t.bodies[lines[last].name] = s.bodies[lines[last].name] \cup {kind}
        BY <3>1, <3>2, <3>3
      <4>2. CASE kind = "timeout"
        <5>1. BelowJobs(lines, i) /\ i \in LinesOf(lines, "timeout") /\ i > last
          BY <1>1, <1>6, <1>7, <2>1, <3>1, <4>2
        <5>2. ~\E m \in Jobs : last < m /\ m < i
          BY <1>1, <3>1
        <5>3. BoundBy(lines, last, i)
          BY <1>1, <5>1, <5>2 DEF BoundBy, Jobs
        <5> QED BY <4>1, <4>2, <5>3
      <4>3. CASE kind # "timeout"
        BY <1>3, <1>8, <3>1, <4>1, <4>3
      <4> QED BY <4>2, <4>3
    <3>8. \A j \in Jobs : j <= i => ("timeout" \in t.bodies[lines[j].name] <=> BoundBy(lines, j, i))
      BY <1>3, <1>9, <2>1, <3>6, <3>7
    <3>9. \A j \in Jobs : j <= i => t.start[lines[j].name] = j
      BY <1>3, <1>9, <2>1, <3>3
    <3>10. \E j \in Jobs : j <= i /\ t.current = lines[j].name /\ \A m \in Jobs : m <= i => m <= j
      BY <1>9, <2>1, <3>1, <3>3
    <3>11. KnowsJobs(lines, t, i)
      BY <1>3, <1>15, <1>k, <2>1, <3>3, <3>4, <3>5, <3>8, <3>9, <3>10
    <3> QED BY <3>11 DEF t
  <2> QED BY <2>2, <2>3
<1> QED BY <1>2, <1>11, <1>12, <1>13, <1>14, <1>15

\* ciops.checkWorkflow, for any workflow: a job without a bound is reported at its line.
THEOREM BoundsAreSeen ==
  ASSUME NEW lines, TextOf(lines), \A i \in DOMAIN lines : lines[i].kind = "job" => lines[i].name # "none"
  PROVE  BoundIsSeen(lines, CheckWorkflow("ci", lines, TRUE))
<1> DEFINE n == Len(lines)
           found == CheckWorkflow("ci", lines, TRUE)
           jobs == JobLines(lines)
<1> SUFFICES ASSUME \A i, j \in JobsOf(lines) : lines[i].name = lines[j].name => i = j, NEW i \in DOMAIN lines
             PROVE  Finding("ci", i, FALSE) \in found <=> i \in JobsOf(lines) /\ ~BoundBy(lines, i, n)
  <2>1. \A k \in LinesOf(lines, "timeout") : k <= n
    BY DEF LinesOf, TextOf
  <2>2. \A i : Bounded(lines, i) <=> BoundBy(lines, i, n)
    BY <2>1 DEF Bounded, BoundBy
  <2> HIDE DEF found, n
  <2> QED BY <2>2 DEF BoundIsSeen, found
<1>1. DOMAIN lines = 1 .. n /\ n \in Nat /\ i # 0 /\ JobsOf(lines) \subseteq 1 .. n
  BY DEF TextOf, JobsOf, LinesOf
<1>2. NamedJobs(lines)
  BY DEF NamedJobs, LinesOf
<1>3. KnowsJobs(lines, jobs, n)
  <2>1. PICK at \in [0 .. n -> JobsKnown(lines)] : JobsGo(at, lines) /\ jobs = at[n]
    BY JobsWalk
  <2> DEFINE S == {k \in 0 .. n : KnowsJobs(lines, at[k], k)}
  <2>2. KnowsJobs(lines, at[0], 0)
    <3>1. \A j \in DOMAIN lines : ~(j <= 0) /\ j > 0
      BY <1>1
    <3>2. \A j \in LinesOf(lines, "jobs") : ~(j <= 0)
      BY <3>1 DEF LinesOf
    <3>3. {j \in JobsOf(lines) : j <= 0} = {} /\ \A j \in JobsOf(lines) : j > 0 /\ ~(j <= 0)
      BY <3>1 DEF LinesOf, JobsOf
    <3>4. /\ at[0].inJobs = FALSE /\ at[0].current = "none" /\ at[0].start = <<>> /\ at[0].bodies = <<>>
          /\ DOMAIN at[0].start = {} /\ DOMAIN at[0].bodies = {}
      BY <2>1 DEF JobsGo, NoJobs
    <3> QED BY <3>2, <3>3, <3>4 DEF KnowsJobs
  <2>3. ASSUME NEW k \in 1 .. n, k - 1 \in S PROVE k \in S
    <3>1. at[k - 1] \in JobsKnown(lines) /\ KnowsJobs(lines, at[k - 1], k - 1) /\ at[k] = JobLine(lines, at[k - 1], k) /\ k \in 0 .. n
      BY <1>1, <2>1, <2>3 DEF JobsGo
    <3> QED BY <1>2, <3>1, NextLineKnows
  <2>4. 0 \in S
    BY <1>1, <2>2
  <2> HIDE DEF S
  <2>5. \A k \in 0 .. n : k \in S
    BY <1>1, <2>3, <2>4, Upwards
  <2> QED BY <1>1, <2>1, <2>5 DEF S
<1>4. Finding("ci", i, FALSE) \in found <=>
        \E j \in DOMAIN jobs.start : "timeout" \notin jobs.bodies[j] /\ jobs.start[j] = i
  <2> HIDE DEF jobs
  <2>1. found = {Finding("ci", k, TRUE) : k \in {k \in DOMAIN lines : lines[k].kind = "uses" /\ lines[k].name = "tag"}}
                \cup {Finding("ci", jobs.start[j], FALSE) : j \in {j \in DOMAIN jobs.start : "timeout" \notin jobs.bodies[j]}}
                \cup (IF \E k \in DOMAIN lines : lines[k].kind = "concurrency" THEN {} ELSE {Finding("ci", 0, FALSE)})
    BY DEF CheckWorkflow, jobs
  <2>2. \A k : Finding("ci", i, FALSE) # Finding("ci", k, TRUE) /\ (Finding("ci", i, FALSE) = Finding("ci", k, FALSE) <=> i = k)
    BY DEF Finding
  <2> HIDE DEF found
  <2>3. ASSUME Finding("ci", i, FALSE) \in found PROVE \E j \in DOMAIN jobs.start : "timeout" \notin jobs.bodies[j] /\ jobs.start[j] = i
    <3>1. PICK j \in DOMAIN jobs.start : "timeout" \notin jobs.bodies[j] /\ Finding("ci", i, FALSE) = Finding("ci", jobs.start[j], FALSE)
      BY <1>1, <2>1, <2>2, <2>3
    <3>2. jobs.start[j] = i
      BY <2>2, <3>1
    <3> QED BY <3>1, <3>2
  <2>4. ASSUME NEW j \in DOMAIN jobs.start, "timeout" \notin jobs.bodies[j], jobs.start[j] = i PROVE Finding("ci", i, FALSE) \in found
    BY <2>1, <2>4
  <2> QED BY <2>3, <2>4
<1>5. DOMAIN jobs.start = {lines[j].name : j \in JobsOf(lines)} /\ \A j \in JobsOf(lines) : jobs.start[lines[j].name] = j
  <2>1. \A j \in JobsOf(lines) : j <= n
    BY <1>1
  <2> QED BY <1>3, <2>1 DEF KnowsJobs
<1>6. \A j \in JobsOf(lines) : "timeout" \in jobs.bodies[lines[j].name] <=> BoundBy(lines, j, n)
  BY <1>1, <1>3 DEF KnowsJobs
<1> QED BY <1>4, <1>5, <1>6

\* A function from 1 .. n is a text of n lines.
LEMMA FunctionsAreTexts ==
  ASSUME NEW S, NEW n \in Nat, NEW f \in [1 .. n -> S]
  PROVE  f \in Seq(S) /\ Len(f) = n /\ TextOf(f) /\ \A k \in DOMAIN f : f[k] \in S
<1>1. f \in Seq(S) /\ Len(f) = n
  OBVIOUS
<1> QED BY <1>1 DEF TextOf

\* The texts of a run are texts.
LEMMA TextsAreTexts ==
  ASSUME NEW text \in Texts
  PROVE  TextOf(text)
<1> DEFINE S == {TextLines[n] : n \in 1 .. 4}
<1>1. PICK kept \in SUBSET (1 .. 4) : text = FlattenSeq([n \in 1 .. 4 |-> IF n \in kept THEN <<TextLines[n]>> ELSE <<>>])
  BY DEF Texts
<1> DEFINE seqs == [n \in 1 .. 4 |-> IF n \in kept THEN <<TextLines[n]>> ELSE <<>>]
<1>2. \A n \in 1 .. 4 : TextLines[n] \in S
  OBVIOUS
<1> HIDE DEF S
<1>3. seqs \in Seq(Seq(S)) /\ Len(seqs) = 4
  BY <1>2
<1>4. PICK at \in [0 .. Len(seqs) -> Seq(S)] : Joins(at, seqs) /\ FlattenSeq(seqs) = at[Len(seqs)]
  BY <1>3, Flattens
<1>5. FlattenSeq(seqs) \in Seq(S)
  BY <1>3, <1>4
<1> HIDE DEF seqs
<1> QED BY <1>1, <1>5 DEF TextOf, seqs

\* gitx.NarrowToDiff, of the files of a run.
LEMMA NarrowHolds ==
  ASSUME NEW i \in NarrowInputs, AsItLies(i)
  PROVE  Written(i.answers, i.files, AllLines, NarrowToDiff(i.answers, i.files, AllLines))
<1>1. PICK answers \in BOOLEAN, tracked \in {TRUE}, head \in Texts, index \in Texts, tree \in Texts :
        i = [answers |-> answers, files |-> {[name |-> f1, tracked |-> tracked, head |-> head, index |-> index, tree |-> tree], OtherFile}]
  BY DEF NarrowInputs
<1> DEFINE f == [name |-> f1, tracked |-> tracked, head |-> head, index |-> index, tree |-> tree]
<1>2. i.answers = answers /\ i.files = {f, OtherFile} /\ i = [answers |-> i.answers, files |-> i.files]
  BY <1>1
<1>3. f.name = f1 /\ f.tree = tree /\ f.head = head
  OBVIOUS
<1>4. /\ OtherFile.name = f2 /\ OtherFile.head = <<>>
      /\ DOMAIN OtherFile.tree = 1 .. Len(OtherFile.tree) /\ Len(OtherFile.tree) \in Nat
      /\ DOMAIN OtherFile.head = 1 .. Len(OtherFile.head) /\ Len(OtherFile.head) \in Nat
  BY DEF OtherFile
<1>5. f1 # f2 /\ f1 # NoFile /\ f2 # NoFile
  BY LegsAssumption DEF Files
<1> HIDE DEF f
<1>6. FilesOf(i.files)
  BY <1>2, <1>3, <1>4, <1>5, TextsAreTexts DEF FilesOf, TextOf
<1> QED BY <1>2, <1>6, NarrowedIsWritten

\* gitcmd, of the repositories of a run.
LEMMA CreditsHold ==
  ASSUME NEW i \in CreditInputs
  PROVE  CreditIsCaught(i.repo, i.message, {CollectFor(i.repo, i.message), CollectUniversal(i.repo, i.message)})
<1>1. PICK log \in [1 .. 2 -> Commits], tracks \in BOOLEAN, upstream \in 0 .. 2, branch \in {"main", "work"}, marker \in {{}, {1}},
           message \in {"credits", "good"} :
        i = [repo |-> RepoOf(log, tracks, upstream, branch, marker), message |-> message]
  BY DEF CreditInputs
<1>2. i.repo.log = log /\ i.repo.tracks = tracks /\ i.repo.upstream = upstream
  BY <1>1 DEF RepoOf
<1>3. log # <<>> /\ DOMAIN log = 1 .. Len(log) /\ Len(log) = 2
  <2>1. 2 \in Nat
    OBVIOUS
  <2>2. Len(log) = 2 /\ TextOf(log)
    BY <2>1, FunctionsAreTexts
  <2>3. Len(<<>>) = 0
    OBVIOUS
  <2> QED BY <2>2, <2>3 DEF TextOf
<1> QED BY <1>1, <1>2, <1>3, CreditsAreCaught DEF TextOf

\* portability, of the copies of a run.
LEMMA CopiesHold ==
  ASSUME NEW i \in CopyInputs
  PROVE  AgentsSettle(i.hosts, i.master, i.copies, AgentsToWrite(i.hosts, i.master, i.copies))
<1>1. i.hosts \subseteq DOMAIN i.copies
  BY DEF CopyInputs
<1> QED BY <1>1, AdviceSettles

\* ciops, of the workflows of a run.
LEMMA WorkflowsHold ==
  ASSUME NEW i \in WorkflowInputs
  PROVE  BoundIsSeen(i, CheckWorkflow("ci", i, TRUE))
<1>1. PICK n \in 0 .. 4 : i \in [1 .. n -> WorkflowLines]
  BY DEF WorkflowInputs
<1>3. \A l \in WorkflowLines : l.kind = "job" => l.name # "none"
  BY DEF WorkflowLines
<1>4. n \in Nat
  OBVIOUS
<1>5. TextOf(i) /\ \A k \in DOMAIN i : i[k] \in WorkflowLines
  BY <1>1, <1>4, FunctionsAreTexts
<1>6. \A k \in DOMAIN i : i[k].kind = "job" => i[k].name # "none"
  BY <1>3, <1>5
<1> QED BY <1>5, <1>6, BoundsAreSeen

-----------------------------------------------------------------------------
(* docs *)

OpenBlocks(n) == [open : 0 .. n, done : SUBSET (1 .. n)]
NoBlocks == [open |-> 0, done |-> {}]
BlocksGo(at, lines) == at[0] = NoBlocks /\ \A i \in 1 .. Len(lines) : at[i] = BlockLine(lines, at[i - 1], i)

\* Blocks reads a page line by line.
LEMMA BlocksWalk ==
  ASSUME NEW lines, TextOf(lines)
  PROVE  \E at \in [0 .. Len(lines) -> OpenBlocks(Len(lines))] : BlocksGo(at, lines) /\ Blocks(lines) = at[Len(lines)].done
<1> DEFINE n == Len(lines)
           T == OpenBlocks(n)
           step == [p \in T \X (1 .. n) |-> BlockLine(lines, p[1], p[2])]
           Eq(f) == f = [i \in 0 .. n |-> IF i = 0 THEN NoBlocks ELSE BlockLine(lines, f[i - 1], i)]
           at == CHOOSE f : Eq(f)
<1>1. n \in Nat /\ NoBlocks \in T
  BY DEF TextOf, OpenBlocks, NoBlocks
<1>2. Blocks(lines) = at[n].done
  BY DEF Blocks, NoBlocks
<1>3. ASSUME NEW s \in T, NEW i \in 1 .. n PROVE BlockLine(lines, s, i) \in T
  <2>1. s.open \in 0 .. n /\ s.done \in SUBSET (1 .. n) /\ s = [open |-> s.open, done |-> s.done]
    BY DEF OpenBlocks
  <2>2. BlockLine(lines, s, i) \in {s, [open |-> i, done |-> s.done]}
          \/ (s.open # 0 /\ BlockLine(lines, s, i) = [open |-> 0, done |-> s.done \cup {s.open}])
    BY <2>1 DEF BlockLine
  <2>3. i \in 0 .. n /\ (s.open # 0 => s.open \in 1 .. n)
    BY <1>1, <2>1
  <2> QED BY <1>1, <2>1, <2>2, <2>3 DEF OpenBlocks
<1>4. step \in [T \X (1 .. n) -> T] /\ \A s \in T, i \in 1 .. n : step[<<s, i>>] = BlockLine(lines, s, i)
  <2> HIDE DEF T, n
  <2> QED BY <1>3
<1> HIDE DEF T, n, step
<1>5. \E f : Eq(f)
  <2>1. PICK f \in [0 .. n -> T] : Walks(f, n, NoBlocks, step)
    BY <1>1, <1>4, Walk
  <2>2. \A i \in 1 .. n : f[i - 1] \in T
    BY <1>1
  <2>3. \A i \in 0 .. n : f[i] = IF i = 0 THEN NoBlocks ELSE BlockLine(lines, f[i - 1], i)
    <3>1. \A i \in 1 .. n : f[i] = BlockLine(lines, f[i - 1], i)
      BY <1>4, <2>1, <2>2 DEF Walks
    <3>2. \A i \in 0 .. n : i = 0 \/ i \in 1 .. n
      BY <1>1
    <3>3. \A i \in 1 .. n : i # 0
      BY <1>1
    <3> QED BY <2>1, <3>1, <3>2, <3>3 DEF Walks
  <2>4. Eq(f)
    BY <2>3
  <2> QED BY <2>4
<1>6. Eq(at)
  <2> HIDE DEF Eq
  <2> QED BY <1>5
<1> HIDE DEF at
<1>7. \A i \in 1 .. n : at[i] = BlockLine(lines, at[i - 1], i)
  BY <1>1, <1>6
<1>8. at = [i \in 0 .. n |-> at[i]] /\ at[0] = NoBlocks
  BY <1>1, <1>6
<1> HIDE DEF Eq
<1>9. Follows(at, T, n, step)
  BY <1>4, <1>7 DEF Follows
<1>10. at \in [0 .. n -> T] /\ Walks(at, n, NoBlocks, step)
  BY <1>1, <1>4, <1>8, <1>9, RecursionWalks
<1> QED BY <1>2, <1>7, <1>8, <1>10 DEF BlocksGo, n, T

\* docs.MermaidBlocks, for any page, mmdc and answers of it.
THEOREM DiagramsAreCompiled ==
  ASSUME NEW page, NEW lines, TextOf(lines), NEW installed, NEW ends,
         Blocks(lines) # {}, ~installed \/ \A i \in DOMAIN lines : ends[i] # "ok"
  PROVE  \E f \in MermaidBlocks(page, lines, installed, ends) : f.blocking
<1>1. Blocks(lines) \subseteq DOMAIN lines
  <2>1. PICK at \in [0 .. Len(lines) -> OpenBlocks(Len(lines))] : Blocks(lines) = at[Len(lines)].done
    BY BlocksWalk
  <2>2. Len(lines) \in 0 .. Len(lines) /\ DOMAIN lines = 1 .. Len(lines)
    BY DEF TextOf
  <2> QED BY <2>1, <2>2 DEF OpenBlocks
<1>2. \A i : Broken(page, i).blocking
  BY DEF Broken
<1>3. CASE ~installed
  BY <1>2, <1>3 DEF MermaidBlocks
<1>4. CASE installed
  <2>1. PICK i \in Blocks(lines) : ends[i] # "ok"
    BY <1>1, <1>4
  <2>2. Broken(page, i) \in MermaidBlocks(page, lines, installed, ends)
    BY <1>4, <2>1 DEF MermaidBlocks
  <2> QED BY <1>2, <2>2
<1> QED BY <1>3, <1>4

\* docs.ExternalLinks, for any pages of a repository and any lychee.
THEOREM OutsideIsFollowed ==
  ASSUME NEW pages, pages # {}, NEW installed, NEW run, run.end \in {"ok", "bad", "late"}
  PROVE  OutsideHolds(installed, run, ExternalLinks(pages, installed, run))
<1> DEFINE found == ExternalLinks(pages, installed, run)
<1>1. \A p, i : Broken(p, i).blocking /\ Broken(p, i).page = p
  BY DEF Broken
<1>2. ~installed \/ run.end = "late" \/ (run.end = "bad" /\ run.listed = {}) => \E f \in found : f.blocking
  BY <1>1 DEF ExternalLinks
<1>3. ASSUME installed, run.end = "bad", NEW l \in run.listed, ~(l.ours /\ l.there)
      PROVE  \E f \in found : f.blocking /\ f.page = l.url
  <2>1. Broken(l.url, 0) \in found
    BY <1>3 DEF ExternalLinks
  <2> HIDE DEF found
  <2> QED BY <1>1, <2>1
<1> QED BY <1>2, <1>3 DEF OutsideHolds

\* docs.Obligation, for any repository, change, message and bar.
THEOREM ChangesAreOwed ==
  ASSUME NEW repo, NEW changed, NEW message, NEW block,
         \A f \in changed : f.name # "obligation" /\ f.there \in BOOLEAN
  PROVE  OwedUntilAnswered(repo, changed, message, block, Obligation(repo, changed, message, block))
<1> DEFINE Present(set) == {f \in set : f.there}
           Owed(set, msg) == \E f \in Obligation(repo, set, msg, block) : f.page = "obligation"
           idle == {f \in changed : f.kind = "page" /\ (~f.inCorpus \/ f.ownState \/ ~f.there)}
           page == [name |-> "page", kind |-> "page", there |-> TRUE, readable |-> TRUE, inCorpus |-> TRUE, ownState |-> FALSE]
           owed == \E f \in Obligation(repo, changed, message, block) : f.page = "obligation" /\ f.blocking = block
<1>1. ASSUME NEW set, NEW msg, Answered(repo, Present(set), msg) PROVE ~Owed(set, msg)
  BY <1>1 DEF Obligation
<1>2. ASSUME NEW set, NEW msg, \A f \in set : f.name # "obligation"
      PROVE  /\ Owed(set, msg) <=> ~Answered(repo, Present(set), msg) /\ Triggers(repo, Present(set)) # {}
             /\ Owed(set, msg) => \E f \in Obligation(repo, set, msg, block) : f.page = "obligation" /\ f.blocking = block
  <2> DEFINE mark == [page |-> "obligation", line |-> 0, blocking |-> block]
  <2>1. mark.page = "obligation" /\ mark.blocking = block
    OBVIOUS
  <2>2. \A p : Told(p).page = p
    BY DEF Told
  <2> HIDE DEF mark
  <2>3. CASE ~Answered(repo, Present(set), msg) /\ Triggers(repo, Present(set)) # {}
    <3>1. mark \in Obligation(repo, set, msg, block)
      BY <2>3 DEF Obligation, mark
    <3> QED BY <2>1, <2>3, <3>1
  <2>4. CASE ~Answered(repo, Present(set), msg) /\ Triggers(repo, Present(set)) = {}
    <3>1. Obligation(repo, set, msg, block) \subseteq {Told("surface")} \cup {Told(f.name) : f \in set}
      BY <2>4 DEF Obligation
    <3>2. ~Owed(set, msg)
      <4> HIDE DEF Present
      <4> QED BY <1>2, <2>2, <3>1
    <3> QED BY <2>4, <3>2
  <2>5. CASE Answered(repo, Present(set), msg)
    BY <1>1, <2>5
  <2> QED BY <2>3, <2>4, <2>5
<1>3. ~Owed(changed, "docs: none")
  <2>1. Answered(repo, Present(changed), "docs: none")
    BY DEF Answered
  <2> QED BY <1>1, <2>1
<1>4. ~Owed(changed \cup {page}, message)
  <2>1. page \in Present(changed \cup {page})
    OBVIOUS
  <2>2. page.kind = "page" /\ page.inCorpus /\ ~page.ownState /\ page.readable
    OBVIOUS
  <2> HIDE DEF page, Present
  <2>3. Answered(repo, Present(changed \cup {page}), message)
    BY <2>1, <2>2 DEF Answered
  <2> QED BY <1>1, <2>3
<1>5. owed <=> Owed(changed \ idle, message)
  <2>1. Answered(repo, Present(changed), message) <=> Answered(repo, Present(changed \ idle), message)
    BY DEF Answered
  <2>2. Triggers(repo, Present(changed)) = Triggers(repo, Present(changed \ idle))
    <3> DEFINE Of(f) == Exported(repo, f) \cup Literal(f) \cup Config(f) \cup Drift(repo, f)
    <3>1. \A f : f.kind = "page" => Of(f) = {}
      BY DEF Exported, Literal, Config, Drift
    <3>2. \A set : Triggers(repo, set) = UNION {Of(f) : f \in set}
      BY DEF Triggers
    <3>3. \A f \in Present(changed) : f \in Present(changed \ idle) \/ f.kind = "page"
      OBVIOUS
    <3>4. Present(changed \ idle) \subseteq Present(changed)
      OBVIOUS
    <3> DEFINE all == Present(changed)
               rest == Present(changed \ idle)
    <3> HIDE DEF Of, Present, all, rest
    <3>5. UNION {Of(f) : f \in all} = UNION {Of(f) : f \in rest}
      BY <3>1, <3>3, <3>4 DEF all, rest
    <3> QED BY <3>2, <3>5 DEF all, rest
  <2>3. \A f \in changed : f.name # "obligation"
    OBVIOUS
  <2>4. \A f \in changed \ idle : f.name # "obligation"
    OBVIOUS
  <2> HIDE DEF Present, idle
  <2>5. Owed(changed, message) <=> Owed(changed \ idle, message)
    BY <1>2, <2>1, <2>2, <2>3, <2>4
  <2>6. Owed(changed, message) <=> owed
    BY <1>2, <2>3
  <2> QED BY <2>5, <2>6
<1>6. ASSUME NEW f \in changed, f.kind = "source", f.there, f.atHead, repo.history, f.was # f.now
      PROVE  owed \/ repo.branchDoc \/ message = "docs: none" \/ \E g \in changed \ idle : g.kind = "page" /\ g.readable
  <2>1. Triggers(repo, Present(changed)) # {}
    <3>1. Exported(repo, f) # {}
      BY <1>6 DEF Exported
    <3> QED BY <1>6, <3>1 DEF Triggers
  <2>2. CASE Answered(repo, Present(changed), message)
    BY <2>2 DEF Answered
  <2>3. CASE ~Answered(repo, Present(changed), message)
    <3> HIDE DEF Present
    <3> QED BY <1>2, <2>1, <2>3
  <2> QED BY <2>2, <2>3
<1> HIDE DEF Owed, owed, idle, page
<1>7. OwedUntilAnswered(repo, changed, message, block, Obligation(repo, changed, message, block)) <=>
        /\ ~Owed(changed, "docs: none") /\ ~Owed(changed \cup {page}, message)
        /\ owed <=> Owed(changed \ idle, message)
        /\ (\E f \in changed : f.kind = "source" /\ f.there /\ f.atHead /\ repo.history /\ f.was # f.now)
             => \/ owed \/ repo.branchDoc \/ message = "docs: none"
                \/ \E f \in changed \ idle : f.kind = "page" /\ f.readable
  BY DEF OwedUntilAnswered, Owed, owed, idle, page
<1> QED BY <1>3, <1>4, <1>5, <1>6, <1>7

\* plan.Check, for any plan.
THEOREM TasksHaveAll ==
  ASSUME NEW plan, TextOf(plan.lines)
  PROVE  TasksAreWhole(plan)
<1> DEFINE lines == plan.lines
           tasks == {i \in DOMAIN lines : lines[i].kind = "task"}
           Kinds(i) == {StripComments(lines)[j].kind : j \in {j \in DOMAIN lines : j > i /\ \A k \in i + 1 .. j : k \notin tasks}}
<1> SUFFICES ASSUME PlanGaps(plan) = {}, NEW i \in Content(lines), lines[i].kind = "task", NEW need \in {"files", "box"}
             PROVE  \E j \in Content(lines) : /\ j > i /\ lines[j].kind = need
                                              /\ \A k \in i .. j : lines[k].kind = "task" => k = i
  BY DEF TasksAreWhole
<1>1. DOMAIN lines = 1 .. Len(lines) /\ Len(lines) \in Nat /\ i \in tasks
  BY DEF TextOf, Content
<1>2. {<<"task", n>> : n \in {n \in {"files", "box"} : \E k \in tasks : n \notin Kinds(k)}} = {}
  BY DEF PlanGaps
<1>3. need \in Kinds(i)
  <2> HIDE DEF Kinds, tasks
  <2> QED BY <1>1, <1>2
<1>4. PICK j \in DOMAIN lines : j > i /\ (\A k \in i + 1 .. j : k \notin tasks) /\ StripComments(lines)[j].kind = need
  BY <1>3
<1>5. StripComments(lines)[j] = lines[j]
  <2>1. Blank.kind = "blank"
    BY DEF Blank
  <2> QED BY <1>4, <2>1 DEF StripComments
<1>6. j \in Content(lines) /\ lines[j].kind = need
  BY <1>4, <1>5 DEF Content
<1>7. \A k \in i .. j : lines[k].kind = "task" => k = i
  <2>1. \A k \in i .. j : k = i \/ (k \in i + 1 .. j /\ k \in DOMAIN lines)
    BY <1>1, <1>4
  <2> QED BY <1>4, <2>1
<1> QED BY <1>4, <1>6, <1>7

\* Of places that are counted upwards each number is some place's.
LEMMA EachCount ==
  ASSUME NEW n \in Nat, NEW H \in SUBSET (1 .. n), NEW k \in Nat, k < Cardinality(H)
  PROVE  \E j \in H : Cardinality({m \in H : m < j}) = k
<1> DEFINE Upto(i) == {m \in H : m <= i}
           S == {i \in 0 .. n : \A c \in Nat : c < Cardinality(Upto(i)) => \E j \in H : Cardinality({m \in H : m < j}) = c}
<1>a. \A m \in H : m \in 1 .. n
  OBVIOUS
<1>1. \A i \in 0 .. n : IsFiniteSet(Upto(i)) /\ Cardinality(Upto(i)) \in Nat
  <2>1. IsFiniteSet(1 .. n)
    BY FS_Interval
  <2>2. \A i \in 0 .. n : Upto(i) \in SUBSET (1 .. n)
    OBVIOUS
  <2> HIDE DEF Upto
  <2> QED BY <2>1, <2>2, FS_Subset, FS_CardinalityType
<1>2. 0 \in S
  <2>1. Upto(0) = {} /\ Cardinality({}) = 0
    <3>1. \A m \in H : ~(m <= 0)
      BY <1>a
    <3> QED BY <3>1, FS_EmptySet
  <2> HIDE DEF Upto
  <2>2. Cardinality(Upto(0)) = 0
    BY <2>1
  <2>3. \A c \in Nat : ~(c < 0)
    OBVIOUS
  <2> QED BY <2>2, <2>3
<1>3. ASSUME NEW i \in 1 .. n, i - 1 \in S PROVE i \in S
  <2>0. i \in 0 .. n /\ i - 1 \in 0 .. n
    OBVIOUS
  <2>1. CASE i \notin H
    <3>1. Upto(i) = Upto(i - 1)
      <4>1. \A m \in H : m <= i <=> m <= i - 1
        BY <1>a, <2>1
      <4> QED BY <4>1
    <3> HIDE DEF Upto
    <3> QED BY <1>3, <2>0, <3>1
  <2>2. CASE i \in H
    <3>1. Upto(i) = Upto(i - 1) \cup {i} /\ i \notin Upto(i - 1)
      <4>1. \A m \in H : (m <= i <=> m <= i - 1 \/ m = i) /\ ~(i <= i - 1)
        BY <1>a
      <4> QED BY <2>2, <4>1
    <3>2. {m \in H : m < i} = Upto(i - 1)
      <4>1. \A m \in H : m < i <=> m <= i - 1
        BY <1>a
      <4> QED BY <4>1
    <3> HIDE DEF Upto
    <3>3. Cardinality(Upto(i)) = Cardinality(Upto(i - 1)) + 1
      BY <1>1, <2>0, <3>1, FS_AddElement
    <3>4. \A c \in Nat : c < Cardinality(Upto(i)) => c < Cardinality(Upto(i - 1)) \/ c = Cardinality({m \in H : m < i})
      BY <1>1, <2>0, <3>2, <3>3
    <3> QED BY <1>3, <2>0, <2>2, <3>4
  <2> QED BY <2>1, <2>2
<1>4. n \in S
  <2> HIDE DEF S
  <2> QED BY <1>2, <1>3, Upwards
<1>5. Upto(n) = H
  <2>1. \A m \in H : m <= n
    BY <1>a
  <2> QED BY <2>1
<1> HIDE DEF Upto
<1> QED BY <1>4, <1>5

\* The headings of a page, and those before one that are given the same slug by a renderer.
HeadingsOf(lines) == {j \in Prose(lines) : lines[j].kind = "heading"}

\* The prose of a page is of its lines.
LEMMA ProseIsInside ==
  ASSUME NEW lines
  PROVE  Prose(lines) \subseteq DOMAIN lines
BY DEF Prose

\* A renderer's anchor is one that is offered: it counts fewer of the earlier headings.
LEMMA AnchorOffered ==
  ASSUME NEW lines, TextOf(lines), NEW i \in HeadingsOf(lines), NEW G \in SUBSET HeadingsOf(lines),
         NEW slug \in {lines[i].github, lines[i].mkdocs},
         \A j \in G : j < i /\ slug \in {lines[j].github, lines[j].mkdocs}
  PROVE  <<slug, Cardinality(G)>> \in AnchorIDs(lines)
<1> DEFINE n == Len(lines)
           headings == HeadingsOf(lines)
           Offers(j) == {lines[j].github, lines[j].mkdocs}
           H == {j \in headings : slug \in Offers(j)}
           k == Cardinality(G)
<1>1. headings \subseteq 1 .. n /\ n \in Nat
  BY ProseIsInside DEF HeadingsOf, TextOf
<1>2. G \subseteq H /\ i \in H /\ i \notin G /\ H \in SUBSET (1 .. n)
  BY <1>1
<1>3. k \in Nat /\ k < Cardinality(H)
  <2>1. IsFiniteSet(H)
    <3>1. IsFiniteSet(1 .. n)
      BY <1>1, FS_Interval
    <3> HIDE DEF H, n
    <3> QED BY <1>2, <3>1, FS_Subset
  <2>2. IsFiniteSet(G) /\ G # H
    <3> HIDE DEF H
    <3> QED BY <1>2, <2>1, FS_Subset
  <2> HIDE DEF H
  <2>3. k \in Nat /\ Cardinality(H) \in Nat /\ k <= Cardinality(H) /\ k # Cardinality(H)
    BY <1>2, <2>1, <2>2, FS_CardinalityType, FS_Subset
  <2> QED BY <2>3
<1>4. PICK j \in H : Cardinality({m \in H : m < j}) = k
  <2> HIDE DEF H, k
  <2> QED BY <1>1, <1>2, <1>3, EachCount
<1>5. {m \in H : m < j} = {m \in headings : m < j /\ slug \in Offers(m)}
  OBVIOUS
<1>6. AnchorIDs(lines) = {<<lines[l].id, 0>> : l \in {l \in DOMAIN lines : lines[l].kind = "id"}}
      \cup UNION {{<<s, Cardinality({m \in headings : m < l /\ s \in Offers(m)})>> : s \in Offers(l)} : l \in headings}
  BY DEF AnchorIDs, HeadingsOf
<1>7. j \in headings /\ slug \in Offers(j)
  OBVIOUS
<1>8. <<slug, Cardinality({m \in headings : m < j /\ slug \in Offers(m)})>> = <<slug, k>>
  BY <1>4, <1>5
<1> HIDE DEF headings, H, Offers, k
<1>9. <<slug, Cardinality({m \in headings : m < j /\ slug \in Offers(m)})>> \in AnchorIDs(lines)
  BY <1>6, <1>7
<1> QED BY <1>8, <1>9 DEF k

\* A page with its links, in a repository of which only its directory may be a bundle.
PageOf(tree, page) ==
  /\ page # <<>> /\ \E S : page \in Seq(S)
  /\ tree.bundles \subseteq {Front(page)} /\ page \in DOMAIN tree.pages
  /\ \A p \in DOMAIN tree.pages : TextOf(tree.pages[p])
  /\ \A i \in DOMAIN tree.pages[page] :
       tree.pages[page][i].kind = "link" => tree.pages[page][i].target # <<>> /\ tree.pages[page][i].absolute \in BOOLEAN

\* A page lies in the bundle its links are resolved in.
LEMMA RootOfBundle ==
  ASSUME NEW tree, NEW S, NEW dir \in Seq(S), tree.bundles \subseteq {dir}
  PROVE  BundleRoot(tree, dir) = IF dir \in tree.bundles THEN dir ELSE <<>>
<1> DEFINE above == {n \in 0 .. Len(dir) : SubSeq(dir, 1, n) \in tree.bundles}
<1>1. SubSeq(dir, 1, Len(dir)) = dir /\ Len(dir) \in Nat
  BY SubSeqFull
<1>2. \A n \in 0 .. Len(dir) : SubSeq(dir, 1, n) = dir => n = Len(dir)
  OBVIOUS
<1>3. CASE dir \in tree.bundles
  <2>1. above = {Len(dir)}
    <3>1. \A n \in 0 .. Len(dir) : SubSeq(dir, 1, n) \in tree.bundles => n = Len(dir)
      BY <1>2
    <3>2. Len(dir) \in 0 .. Len(dir)
      BY <1>1
    <3>3. SubSeq(dir, 1, Len(dir)) \in tree.bundles
      BY <1>1, <1>3, Zenon
    <3> QED BY <3>1, <3>2, <3>3
  <2>2. (CHOOSE n \in above : \A m \in above : m <= n) = Len(dir)
    BY <1>1, <2>1
  <2> QED BY <1>1, <1>3, <2>1, <2>2 DEF BundleRoot
<1>4. CASE dir \notin tree.bundles
  BY <1>4 DEF BundleRoot
<1> QED BY <1>3, <1>4

\* docs.RelativeRefs, for any pages of a repository.
THEOREM LinksAreFollowed ==
  ASSUME NEW tree, NEW page, PageOf(tree, page)
  PROVE  LinksHold(tree, page, RelativeRefs(tree, page))
<1> DEFINE lines == tree.pages[page]
           found == RelativeRefs(tree, page)
           To(i) == (IF ~lines[i].absolute THEN Front(page)
                     ELSE IF Front(page) \in tree.bundles THEN Front(page) ELSE <<>>) \o lines[i].target
           Anchors(to) == {Given(tree.pages[to], j, GitHub) : j \in HeadingsOf(tree.pages[to])}
                            \cup {Given(tree.pages[to], j, Mkdocs) : j \in HeadingsOf(tree.pages[to])}
<1>1. \A i, j : Broken(page, i) = Broken(page, j) <=> i = j
  BY DEF Broken
<1>2. ASSUME NEW i \in DOMAIN lines, lines[i].kind = "link" PROVE Resolved(tree, page, lines[i]) = To(i)
  <2>1. PICK S : page \in Seq(S)
    BY DEF PageOf
  <2>2. Front(page) \in Seq(S)
    BY <2>1 DEF PageOf, Front
  <2>3. BundleRoot(tree, Front(page)) = IF Front(page) \in tree.bundles THEN Front(page) ELSE <<>>
    BY <2>2, RootOfBundle DEF PageOf
  <2>4. lines[i].absolute \in BOOLEAN
    BY <1>2 DEF PageOf
  <2> QED BY <2>3, <2>4, Zenon DEF Resolved
<1>3. \A i \in DOMAIN lines : Broken(page, i) \in found <=>
        /\ i \in Prose(lines) /\ lines[i].kind = "link" /\ ~lines[i].outside /\ lines[i].target # <<>>
        /\ \/ Resolved(tree, page, lines[i]) \notin DOMAIN tree.pages
           \/ lines[i].anchor # "none"
              /\ <<lines[i].anchor, lines[i].copy>> \notin AnchorIDs(tree.pages[Resolved(tree, page, lines[i])])
  <2> DEFINE Linked == {i \in Prose(lines) : lines[i].kind = "link" /\ ~lines[i].outside /\ lines[i].target # <<>>}
             Lost(i) == \/ Resolved(tree, page, lines[i]) \notin DOMAIN tree.pages
                        \/ lines[i].anchor # "none"
                           /\ <<lines[i].anchor, lines[i].copy>> \notin AnchorIDs(tree.pages[Resolved(tree, page, lines[i])])
  <2>1. found = {Broken(page, i) : i \in {i \in Linked : Lost(i)}}
    BY DEF RelativeRefs
  <2>2. ASSUME NEW i PROVE i \in Linked <=> i \in Prose(lines) /\ lines[i].kind = "link" /\ ~lines[i].outside /\ lines[i].target # <<>>
    OBVIOUS
  <2> HIDE DEF Linked, Lost, found
  <2>3. ASSUME NEW i PROVE Broken(page, i) \in found <=> i \in Linked /\ Lost(i)
    BY <1>1, <2>1
  <2> QED BY <2>2, <2>3 DEF Lost
<1>4. ASSUME NEW to \in DOMAIN tree.pages PROVE Anchors(to) \subseteq AnchorIDs(tree.pages[to])
  <2> DEFINE ls == tree.pages[to]
  <2>1. TextOf(ls)
    BY DEF PageOf
  <2>2. ASSUME NEW i \in HeadingsOf(ls) PROVE Given(ls, i, GitHub) \in AnchorIDs(ls) /\ Given(ls, i, Mkdocs) \in AnchorIDs(ls)
    <3> DEFINE G == {j \in Prose(ls) : j < i /\ ls[j].kind = "heading" /\ ls[j].github = ls[i].github}
               M == {j \in Prose(ls) : j < i /\ ls[j].kind = "heading" /\ ls[j].mkdocs = ls[i].mkdocs}
    <3>1. Given(ls, i, GitHub) = <<ls[i].github, Cardinality(G)>> /\ Given(ls, i, Mkdocs) = <<ls[i].mkdocs, Cardinality(M)>>
      BY DEF Given, GitHub, Mkdocs
    <3>2. /\ G \in SUBSET HeadingsOf(ls) /\ \A j \in G : j < i /\ ls[i].github \in {ls[j].github, ls[j].mkdocs}
          /\ M \in SUBSET HeadingsOf(ls) /\ \A j \in M : j < i /\ ls[i].mkdocs \in {ls[j].github, ls[j].mkdocs}
      BY DEF HeadingsOf
    <3> HIDE DEF G, M, ls
    <3> QED BY <2>1, <3>1, <3>2, AnchorOffered
  <2> QED BY <2>2
<1> SUFFICES ASSUME NEW i \in DOMAIN lines, lines[i].kind = "link", ~lines[i].outside
             PROVE  IF i \notin Prose(lines) THEN Broken(page, i) \notin found
                    ELSE IF To(i) \notin DOMAIN tree.pages THEN Broken(page, i) \in found
                    ELSE lines[i].anchor = "none" \/ <<lines[i].anchor, lines[i].copy>> \in Anchors(To(i)) => Broken(page, i) \notin found
  BY DEF LinksHold, HeadingsOf
<1>5. lines[i].target # <<>>
  BY DEF PageOf
<1> HIDE DEF found, To, Anchors
<1> QED BY <1>2, <1>3, <1>4, <1>5

-----------------------------------------------------------------------------
(* codeindex *)

\* The bodies of a document, and what it refers to.
BodiesOf(d) == {o \in ToSet(d.occurrences) : o.def /\ o.body # <<>>}
RefersOf(d) == {o \in ToSet(d.occurrences) : ~o.def}

\* A document: occurrences in order, on lines; bodies that begin and end on one, and
\* of two around a line one holds the other.
IndexedDocument(d) ==
  /\ d.kind \in {"code", "test", "outside"} /\ TextOf(d.occurrences)
  /\ \A o \in ToSet(d.occurrences) : o.line \in Nat /\ o.def \in BOOLEAN
  /\ \A b \in BodiesOf(d) : b.body[1] \in Nat /\ b.body[2] \in Nat
  /\ \A b, c \in BodiesOf(d) : (\E line \in Nat : InBody(line, b.body) /\ InBody(line, c.body)) =>
       \/ c.body[1] <= b.body[1] /\ b.body[2] <= c.body[2]
       \/ b.body[1] <= c.body[1] /\ c.body[2] <= b.body[2]

\* An index, and searches that say what they found.
IndexOf(world) ==
  /\ \A d \in world.scip.documents : IndexedDocument(d)
  /\ IsFiniteSet(world.tags.all) /\ (world.grep.end = "ok" => world.grep.lines # {})
  /\ \A t \in world.tags.all : t.go \in BOOLEAN

\* Some smallest number, and of those of a smallest value the first.
LEMMA SmallestThere ==
  ASSUME NEW S \in SUBSET Nat, S # {}
  PROVE  \E k \in S : \A m \in S : k <= m
<1>1. PICK k \in S : \A m \in S : <<m, k>> \notin OpToRel(<, Nat)
  BY NatLessThanWellFounded, WFMin
<1>2. \A m \in S : m \in Nat /\ k \in Nat /\ ~(m < k)
  BY <1>1 DEF OpToRel
<1>3. \A m \in S : k <= m
  BY <1>2
<1> QED BY <1>3

\* A line with a body around it has one that encloses it.
LEMMA SomeEncloses ==
  ASSUME NEW d, IndexedDocument(d), NEW line \in Nat, NEW b \in BodiesOf(d), InBody(line, b.body)
  PROVE  \E i \in Enclosing(d.occurrences, line) : d.occurrences[i] \in BodiesOf(d) /\ InBody(line, d.occurrences[i].body)
<1> DEFINE os == d.occurrences
           around == {i \in DOMAIN os : os[i].def /\ InBody(line, os[i].body)}
           sizes == {Size(os[i].body) : i \in around}
<1>1. \A i \in around : /\ os[i] \in BodiesOf(d) /\ InBody(line, os[i].body) /\ i \in Nat
                        /\ os[i].body[1] \in Nat /\ os[i].body[2] \in Nat /\ os[i].body[1] <= line /\ line <= os[i].body[2]
  <2>1. \A i \in around : os[i] \in ToSet(os) /\ os[i].def /\ InBody(line, os[i].body) /\ i \in Nat
    BY DEF IndexedDocument, TextOf, ToSet
  <2>2. \A i \in around : os[i] \in BodiesOf(d)
    BY <2>1 DEF BodiesOf, InBody
  <2> QED BY <2>1, <2>2 DEF IndexedDocument, InBody
<1>2. \A i \in around : Size(os[i].body) \in Nat
  BY <1>1 DEF Size
<1>3. around # {}
  <2>1. PICK i \in DOMAIN os : os[i] = b
    BY DEF BodiesOf, ToSet
  <2> QED BY <2>1 DEF BodiesOf
<1> HIDE DEF around
<1>4. sizes \in SUBSET Nat /\ sizes # {}
  BY <1>2, <1>3
<1>5. PICK least \in sizes : \A m \in sizes : least <= m
  <2> HIDE DEF sizes
  <2> QED BY <1>4, SmallestThere
<1> DEFINE smallest == {i \in around : Size(os[i].body) = least}
<1>6. smallest \in SUBSET Nat /\ smallest # {}
  BY <1>1, <1>5
<1>7. PICK i \in smallest : \A j \in smallest : i <= j
  <2> HIDE DEF smallest
  <2> QED BY <1>6, SmallestThere
<1>8. \A j \in around : \/ Size(os[i].body) < Size(os[j].body)
                        \/ Size(os[i].body) = Size(os[j].body) /\ i <= j
  <2> SUFFICES ASSUME NEW j \in around PROVE \/ Size(os[i].body) < Size(os[j].body)
                                             \/ Size(os[i].body) = Size(os[j].body) /\ i <= j
    OBVIOUS
  <2>1. least <= Size(os[j].body) /\ Size(os[j].body) \in Nat /\ least \in Nat /\ Size(os[i].body) = least
    BY <1>2, <1>4, <1>5, <1>7
  <2>2. CASE Size(os[j].body) = least
    BY <1>7, <2>1, <2>2
  <2>3. CASE Size(os[j].body) # least
    BY <2>1, <2>3
  <2> QED BY <2>2, <2>3
<1>9. i \in Enclosing(os, line)
  BY <1>7, <1>8 DEF Enclosing, around
<1> QED BY <1>1, <1>7, <1>9

\* What encloses a line is a body around it, inside of every other.
LEMMA EnclosesInside ==
  ASSUME NEW d, IndexedDocument(d), NEW line \in Nat, NEW i \in Enclosing(d.occurrences, line)
  PROVE  LET b == d.occurrences[i] IN
         /\ b \in BodiesOf(d) /\ InBody(line, b.body)
         /\ \A c \in BodiesOf(d) : InBody(line, c.body) => c.body[1] <= b.body[1] /\ b.body[2] <= c.body[2]
<1> DEFINE os == d.occurrences
           b == os[i]
<1>1. /\ i \in DOMAIN os /\ b.def /\ InBody(line, b.body)
      /\ \A j \in DOMAIN os : os[j].def /\ InBody(line, os[j].body) =>
           \/ Size(b.body) < Size(os[j].body) \/ Size(b.body) = Size(os[j].body)
  BY DEF Enclosing
<1>2. b \in BodiesOf(d)
  BY <1>1 DEF BodiesOf, ToSet, InBody
<1>3. ASSUME NEW c \in BodiesOf(d), InBody(line, c.body) PROVE c.body[1] <= b.body[1] /\ b.body[2] <= c.body[2]
  <2>1. PICK j \in DOMAIN os : os[j] = c
    BY DEF BodiesOf, ToSet
  <2>2. Size(b.body) < Size(c.body) \/ Size(b.body) = Size(c.body)
    BY <1>1, <1>3, <2>1 DEF BodiesOf
  <2>3. b.body[1] \in Nat /\ b.body[2] \in Nat /\ c.body[1] \in Nat /\ c.body[2] \in Nat
    BY <1>2 DEF IndexedDocument
  <2>4. \/ c.body[1] <= b.body[1] /\ b.body[2] <= c.body[2]
        \/ b.body[1] <= c.body[1] /\ c.body[2] <= b.body[2]
    BY <1>1, <1>2, <1>3 DEF IndexedDocument
  <2> QED BY <2>2, <2>3, <2>4 DEF Size
<1> QED BY <1>1, <1>2, <1>3

\* Who refers to a symbol from a body is its caller, or itself.
LEMMA CallersAreSeen ==
  ASSUME NEW world, IndexOf(world), NEW name, world.scip.state = "there", NEW d \in world.scip.documents,
         NEW o \in RefersOf(d), SymbolIs(o.symbol, name), NEW b \in BodiesOf(d), InBody(o.line, b.body)
  PROVE  \/ \E e \in Callers(world, name).callers : e.path = d.path /\ e.line = o.line /\ e.to = o.symbol
         \/ \E c \in BodiesOf(d) : InBody(o.line, c.body) /\ c.symbol = o.symbol
<1>1. IndexedDocument(d) /\ o.line \in Nat
  BY DEF IndexOf, IndexedDocument, RefersOf
<1>2. PICK i \in Enclosing(d.occurrences, o.line) : d.occurrences[i] \in BodiesOf(d) /\ InBody(o.line, d.occurrences[i].body)
  BY <1>1, SomeEncloses
<1>3. CASE d.occurrences[i].symbol = o.symbol
  BY <1>2, <1>3
<1>4. CASE d.occurrences[i].symbol # o.symbol
  <2> DEFINE e == [from |-> d.occurrences[i].symbol, to |-> o.symbol, path |-> d.path, line |-> o.line]
  <2>1. e \in Edges(world.scip)
    <3>1. o \in {p \in ToSet(d.occurrences) : ~p.def /\ Named(p.symbol)}
      BY DEF RefersOf, SymbolIs
    <3>2. e \in {[from |-> d.occurrences[j].symbol, to |-> o.symbol, path |-> d.path, line |-> o.line] :
                   j \in {j \in Enclosing(d.occurrences, o.line) : d.occurrences[j].symbol # o.symbol}}
      BY <1>2, <1>4
    <3> HIDE DEF e
    <3> QED BY <3>1, <3>2 DEF Edges
  <2>2. e.to = o.symbol /\ e.path = d.path /\ e.line = o.line
    OBVIOUS
  <2> HIDE DEF e
  <2>3. e \in Callers(world, name).callers
    <3> DEFINE callers == {x \in Edges(world.scip) : SymbolIs(x.to, name)}
               callees == {x.to : x \in {x \in Edges(world.scip) : SymbolIs(x.from, name) /\ x.to.kind = "call"}}
    <3>1. e \in callers
      BY <2>1, <2>2
    <3> HIDE DEF callers, callees
    <3>2. callers \cup callees # {}
      BY <3>1
    <3>3. Callers(world, name) = [code |-> 0, callers |-> callers, callees |-> callees]
      BY <3>2 DEF Callers, callers, callees
    <3> QED BY <3>1, <3>3
  <2> QED BY <2>2, <2>3
<1> QED BY <1>3, <1>4

\* codeindex, for any index, search and name.
THEOREM AnswersAreKnown ==
  ASSUME NEW world, IndexOf(world), NEW name, NEW at, NEW changed, NEW common
  PROVE  AnswersAreLookedUp(world, name,
           [refs |-> Refs(world, name), callers |-> Callers(world, name), unused |-> Unused(world),
            impls |-> Impls(world, name), rename |-> Rename(world, name, at), impact |-> Impact(world, changed, common)])
<1> DEFINE docs == world.scip.documents
           there == world.scip.state = "there"
           known == \E d \in docs : \E o \in ToSet(d.occurrences) : SymbolIs(o.symbol, name)
           refs == Refs(world, name)
           rename == Rename(world, name, at)
           unused == Unused(world)
           callers == Callers(world, name)
           replied == [refs |-> refs, callers |-> callers, unused |-> unused, impls |-> Impls(world, name), rename |-> rename,
                    impact |-> Impact(world, changed, common)]
<1>1. Cardinality(rename.of) <= 1 /\ \A t \in rename.of : t.name = name /\ t.holds /\ t.go
  <2> DEFINE defs == {t \in world.tags.all : t.name = name /\ (at = <<>> \/ <<t.path, t.line>> = at)}
  <2>1. IsFiniteSet(defs) /\ Cardinality(defs) \in Nat
    <3>1. defs \in SUBSET world.tags.all
      OBVIOUS
    <3> HIDE DEF defs
    <3> QED BY <3>1, FS_Subset, FS_CardinalityType DEF IndexOf
  <2>2. CASE rename.of = {}
    BY <2>2, FS_EmptySet
  <2>3. CASE rename.of # {}
    <3>1. rename.of \subseteq defs /\ ~(Cardinality(defs) > 1) /\ \A t \in rename.of : t.holds /\ t.go
      <4> HIDE DEF defs
      <4>1. \A t \in defs : t.go \in BOOLEAN
        BY DEF IndexOf, defs
      <4>2. rename = IF world.tags.state # "there" \/ defs = {} THEN [code |-> 1, of |-> {}]
              ELSE IF Cardinality(defs) > 1 THEN [code |-> 2, of |-> {}]
              ELSE IF \E t \in defs : ~t.go THEN [code |-> Refs(world, name).code, of |-> {}]
              ELSE [code |-> IF world.gopls = "diff" /\ \A t \in defs : t.holds THEN 0 ELSE 1,
                             of |-> IF world.gopls = "diff" THEN {t \in defs : t.holds} ELSE {}]
        BY DEF Rename, defs
      <4> HIDE DEF rename
      <4> QED BY <2>3, <4>1, <4>2
    <3>2. Cardinality(rename.of) \in Nat /\ Cardinality(rename.of) <= Cardinality(defs)
      <4> HIDE DEF defs, rename
      <4> QED BY <2>1, <3>1, FS_Subset, FS_CardinalityType
    <3>3. Cardinality(rename.of) <= 1
      BY <2>1, <3>1, <3>2
    <3> HIDE DEF rename
    <3> QED BY <3>1, <3>3
  <2> QED BY <2>2, <2>3
<1>2. /\ refs.code = 1 => world.grep.end = "one" /\ ~(there /\ known)
      /\ refs.code = 0 => refs.lines # {} /\ (refs.tier = "precise" <=> there /\ known)
  <2> DEFINE lines == UNION {{<<d.path, o.line>> : o \in {o \in ToSet(d.occurrences) : SymbolIs(o.symbol, name)}} : d \in docs}
  <2>1. lines # {} <=> known
    <3>1. ASSUME known PROVE lines # {}
      <4>1. PICK d \in docs : \E o \in ToSet(d.occurrences) : SymbolIs(o.symbol, name)
        BY <3>1
      <4>2. PICK o \in ToSet(d.occurrences) : SymbolIs(o.symbol, name)
        BY <4>1
      <4>3. <<d.path, o.line>> \in lines
        BY <4>2
      <4> QED BY <4>3
    <3>2. ASSUME lines # {} PROVE known
      BY <3>2
    <3> QED BY <3>1, <3>2
  <2>2. refs = IF there /\ lines # {} THEN [code |-> 0, tier |-> "precise", lines |-> lines] ELSE TextualRefs(world.grep)
    BY DEF Refs
  <2> HIDE DEF lines, known, refs
  <2>3. /\ TextualRefs(world.grep).code = 1 => world.grep.end = "one"
        /\ TextualRefs(world.grep).code = 0 => world.grep.end = "ok" /\ TextualRefs(world.grep).lines # {}
        /\ TextualRefs(world.grep).tier # "precise"
    <3>1. CASE world.grep.end = "ok"
      <4>1. TextualRefs(world.grep) = [code |-> 0, tier |-> "textual", lines |-> world.grep.lines]
        BY <3>1 DEF TextualRefs
      <4> QED BY <3>1, <4>1 DEF IndexOf
    <3>2. CASE world.grep.end = "one"
      <4>1. TextualRefs(world.grep) = [code |-> 1, tier |-> "textual", lines |-> {}]
        BY <3>2 DEF TextualRefs
      <4> QED BY <3>2, <4>1
    <3>3. CASE world.grep.end \notin {"ok", "one"}
      <4>1. TextualRefs(world.grep) = [code |-> 2, tier |-> "none", lines |-> {}]
        BY <3>3 DEF TextualRefs
      <4> QED BY <3>3, <4>1
    <3> QED BY <3>1, <3>2, <3>3
  <2> QED BY <2>1, <2>2, <2>3
<1>3. ASSUME NEW d \in docs, NEW o \in RefersOf(d)
      PROVE  /\ o.symbol \notin unused.unused
             /\ d.kind # "test" => o.symbol \notin unused.testOnly
  <2>1. \A kinds : d.kind \in kinds => o.symbol \in References(world.scip, kinds)
    BY DEF References, RefersOf
  <2>2. d.kind \in {"code", "test", "outside"}
    BY DEF IndexOf, IndexedDocument
  <2> QED BY <2>1, <2>2 DEF Unused
<1>4. ASSUME NEW e \in callers.callers
      PROVE  \E d \in docs : \E b \in BodiesOf(d) :
               /\ d.path = e.path /\ b.symbol = e.from /\ InBody(e.line, b.body)
               /\ \A c \in BodiesOf(d) : InBody(e.line, c.body) => c.body[1] <= b.body[1] /\ b.body[2] <= c.body[2]
  <2>1. e \in Edges(world.scip)
    BY DEF Callers
  <2>6. PICK d \in docs : \E o \in ToSet(d.occurrences) : \E i \in Enclosing(d.occurrences, o.line) :
             e = [from |-> d.occurrences[i].symbol, to |-> o.symbol, path |-> d.path, line |-> o.line]
    BY <2>1 DEF Edges
  <2>7. PICK o \in ToSet(d.occurrences) : \E i \in Enclosing(d.occurrences, o.line) :
             e = [from |-> d.occurrences[i].symbol, to |-> o.symbol, path |-> d.path, line |-> o.line]
    BY <2>6
  <2>2. PICK i \in Enclosing(d.occurrences, o.line) :
             e = [from |-> d.occurrences[i].symbol, to |-> o.symbol, path |-> d.path, line |-> o.line]
    BY <2>7
  <2>3. IndexedDocument(d) /\ o.line \in Nat
    BY DEF IndexOf, IndexedDocument
  <2> DEFINE b == d.occurrences[i]
  <2>4. /\ b \in BodiesOf(d) /\ InBody(o.line, b.body)
        /\ \A c \in BodiesOf(d) : InBody(o.line, c.body) => c.body[1] <= b.body[1] /\ b.body[2] <= c.body[2]
    BY <2>3, EnclosesInside
  <2>5. e.path = d.path /\ e.from = b.symbol /\ e.line = o.line
    BY <2>2
  <2> HIDE DEF b
  <2> QED BY <2>4, <2>5
<1>5. ASSUME there, NEW d \in docs, NEW o \in ToSet(d.occurrences), d.kind = "code", o.def, o.symbol.kind = "call",
             o.symbol.name = name, ~RuntimeCalled(o.symbol)
      PROVE  \/ o.symbol \in unused.unused \cup unused.testOnly
             \/ \E e \in callers.callers : e.to = o.symbol
             \/ \E f \in docs : \E r \in RefersOf(f) : r.symbol = o.symbol /\
                  ((\A b \in BodiesOf(f) : ~InBody(r.line, b.body)) \/ \E b \in BodiesOf(f) : b.symbol = o.symbol /\ InBody(r.line, b.body))
  <2>1. SymbolIs(o.symbol, name)
    BY <1>5 DEF SymbolIs, Named
  <2>2. CASE o.symbol \in References(world.scip, {"code", "test", "outside"})
    <3>5. PICK f \in docs : \E r \in RefersOf(f) : r.symbol = o.symbol
      BY <2>2 DEF References, RefersOf
    <3>1. PICK r \in RefersOf(f) : r.symbol = o.symbol
      BY <3>5
    <3>2. CASE \A b \in BodiesOf(f) : ~InBody(r.line, b.body)
      BY <3>1, <3>2
    <3>3. CASE \E b \in BodiesOf(f) : InBody(r.line, b.body)
      <4>1. \/ \E e \in callers.callers : e.path = f.path /\ e.line = r.line /\ e.to = r.symbol
            \/ \E c \in BodiesOf(f) : InBody(r.line, c.body) /\ c.symbol = r.symbol
        BY <1>5, <2>1, <3>1, <3>3, CallersAreSeen
      <4> QED BY <3>1, <4>1
    <3> QED BY <3>2, <3>3
  <2>3. CASE o.symbol \notin References(world.scip, {"code", "test", "outside"})
    <3> DEFINE defined == {s \in UNION {{p.symbol : p \in {p \in ToSet(c.occurrences) : p.def}} : c \in {c \in docs : c.kind = "code"}} :
                             Callable(s) /\ ~RuntimeCalled(s)}
    <3>1. o.symbol \in defined
      BY <1>5 DEF Callable
    <3>2. unused.unused = defined \ References(world.scip, {"code", "test", "outside"})
      BY <1>5 DEF Unused
    <3> QED BY <2>3, <3>1, <3>2
  <2> QED BY <2>2, <2>3
<1>6. ASSUME NEW d \in docs, NEW o \in RefersOf(d), there, SymbolIs(o.symbol, name), \E b \in BodiesOf(d) : InBody(o.line, b.body)
      PROVE  \/ \E e \in callers.callers : e.path = d.path /\ e.line = o.line /\ e.to = o.symbol
             \/ \E b \in BodiesOf(d) : InBody(o.line, b.body) /\ b.symbol = o.symbol
  BY <1>6, CallersAreSeen
<1>7. /\ replied.refs = refs /\ replied.callers = callers /\ replied.unused = unused /\ replied.rename = rename
  OBVIOUS
<1> HIDE DEF replied, refs, callers, unused, rename
<1>8. AnswersAreLookedUp(world, name, replied)
  BY <1>1, <1>2, <1>3, <1>4, <1>5, <1>6, <1>7 DEF AnswersAreLookedUp, BodiesOf, RefersOf
<1> QED BY <1>8 DEF replied, refs, callers, unused, rename

-----------------------------------------------------------------------------
(* spec, backlog seed *)

\* What is known of the criteria after some lines that are stripped of comments.
WordsOf(lines) == {lines[i].word : i \in {i \in DOMAIN lines : lines[i].kind # "blank"}}
CriteriaOf(lines) ==
  [words : Seq(WordsOf(lines)), ids : SUBSET (UNION {lines[i].ids : i \in DOMAIN lines}),
   marks : SUBSET (UNION {lines[i].marks : i \in DOMAIN lines})]
CriteriaKnown(lines) == {s \in [list : Seq(CriteriaOf(lines)), continuing : BOOLEAN] : s.continuing => s.list # <<>>}
NoCriteria == [list |-> <<>>, continuing |-> FALSE]

\* Stripping the comments keeps the places, and every line that is none.
LEMMA StrippedIsText ==
  ASSUME NEW lines, TextOf(lines)
  PROVE  /\ TextOf(StripComments(lines)) /\ Len(StripComments(lines)) = Len(lines)
         /\ DOMAIN StripComments(lines) = 1 .. Len(lines) /\ DOMAIN lines = 1 .. Len(lines) /\ Len(lines) \in Nat
         /\ \A i \in DOMAIN lines : /\ StripComments(lines)[i].kind # "blank" => StripComments(lines)[i] = lines[i]
                                    /\ lines[i].comment => StripComments(lines)[i] = Blank
                                    /\ ~lines[i].comment => StripComments(lines)[i] = lines[i]
<1>1. DOMAIN lines = 1 .. Len(lines) /\ Len(lines) \in Nat
  BY DEF TextOf
<1> DEFINE s == [i \in 1 .. Len(lines) |-> IF lines[i].comment THEN Blank ELSE lines[i]]
<1>2. s = StripComments(lines)
  BY <1>1 DEF StripComments
<1>3. Len(s) = Len(lines) /\ DOMAIN s = 1 .. Len(lines)
  BY <1>1
<1>4. Blank.kind = "blank"
  BY DEF Blank
<1> QED BY <1>1, <1>2, <1>3, <1>4 DEF TextOf

\* A line of the criteria leaves what was collected known.
LEMMA CriterionLineKnows ==
  ASSUME NEW lines, NEW i \in DOMAIN lines, NEW s \in CriteriaKnown(lines)
  PROVE  CriterionLine(s, lines[i]) \in CriteriaKnown(lines)
<1> DEFINE line == lines[i]
           C == CriteriaOf(lines)
<1>1. /\ s.list \in Seq(C) /\ s.continuing \in BOOLEAN /\ (s.continuing => s.list # <<>>)
  BY DEF CriteriaKnown
<1>2. ASSUME NEW list \in Seq(C), NEW continuing \in BOOLEAN, continuing => list # <<>>
      PROVE  [list |-> list, continuing |-> continuing] \in CriteriaKnown(lines)
  BY <1>2 DEF CriteriaKnown
<1>3. /\ line.ids \in SUBSET (UNION {lines[j].ids : j \in DOMAIN lines})
      /\ line.marks \in SUBSET (UNION {lines[j].marks : j \in DOMAIN lines})
      /\ line.kind # "blank" => line.word \in WordsOf(lines)
  BY DEF WordsOf
<1>4. CASE line.kind = "box" /\ ~(line.says = "..." /\ line.ids = {})
  <2> DEFINE c == [words |-> <<line.word>>, ids |-> line.ids, marks |-> line.marks]
  <2>1. c \in C
    BY <1>3, <1>4 DEF CriteriaOf
  <2>2. CriterionLine(s, line) = [list |-> Append(s.list, c), continuing |-> TRUE]
    BY <1>4 DEF CriterionLine
  <2> HIDE DEF C, c
  <2>3. Append(s.list, c) \in Seq(C) /\ Append(s.list, c) # <<>>
    BY <1>1, <2>1
  <2> QED BY <1>2, <2>2, <2>3
<1>5. CASE \/ line.kind = "box" /\ line.says = "..." /\ line.ids = {}
           \/ line.kind # "box" /\ (line.kind = "blank" \/ ~s.continuing)
  <2>1. CriterionLine(s, line) = [list |-> s.list, continuing |-> FALSE]
    BY <1>5 DEF CriterionLine
  <2> HIDE DEF C
  <2> QED BY <1>1, <1>2, <2>1
<1>6. CASE line.kind \notin {"box", "blank"} /\ s.continuing
  <2> DEFINE n == Len(s.list)
             c == s.list[n]
             d == [words |-> Append(c.words, line.word), ids |-> c.ids \cup line.ids, marks |-> c.marks \cup line.marks]
  <2>1. n \in DOMAIN s.list /\ c \in C
    <3> HIDE DEF C
    <3> QED BY <1>1, <1>6
  <2>2. d \in C
    <3>1. c.words \in Seq(WordsOf(lines)) /\ c.ids \in SUBSET (UNION {lines[j].ids : j \in DOMAIN lines})
          /\ c.marks \in SUBSET (UNION {lines[j].marks : j \in DOMAIN lines})
      BY <2>1 DEF CriteriaOf
    <3>2. line.word \in WordsOf(lines)
      BY <1>3, <1>6
    <3> HIDE DEF c
    <3>3. Append(c.words, line.word) \in Seq(WordsOf(lines))
      BY <3>1, <3>2
    <3> QED BY <1>3, <3>1, <3>3 DEF CriteriaOf
  <2>3. CriterionLine(s, line) = [list |-> [s.list EXCEPT ![n] = d], continuing |-> TRUE]
    BY <1>6 DEF CriterionLine
  <2> HIDE DEF C, c, d
  <2>4. [s.list EXCEPT ![n] = d] \in Seq(C) /\ Len([s.list EXCEPT ![n] = d]) = n
    BY <1>1, <2>1, <2>2
  <2>5. n > 0 /\ Len(<<>>) = 0
    BY <1>1, <1>6
  <2>6. [s.list EXCEPT ![n] = d] # <<>>
    BY <2>4, <2>5
  <2> QED BY <1>2, <2>3, <2>4, <2>6
<1> QED BY <1>1, <1>4, <1>5, <1>6

CriteriaGo(at, lines) == at[0] = NoCriteria /\ \A i \in 1 .. Len(lines) : at[i] = CriterionLine(at[i - 1], StripComments(lines)[i])

\* A walk along the lines ends at the criteria.
LEMMA CriteriaWalk ==
  ASSUME NEW lines, TextOf(lines)
  PROVE  \E at \in [0 .. Len(lines) -> CriteriaKnown(StripComments(lines))] : CriteriaGo(at, lines) /\ FoldLeft(CriterionLine, NoCriteria, StripComments(lines)) = at[Len(lines)]
<1> DEFINE T == CriteriaKnown(StripComments(lines))
           n == Len(lines)
           seq == StripComments(lines)
           step == [p \in T \X (1 .. n) |-> CriterionLine(p[1], seq[p[2]])]
           Eq(f) == f = [s \in SUBSET DOMAIN seq |-> IF s = {} THEN NoCriteria ELSE CriterionLine(f[s \ {Max(s)}], seq[Max(s)])]
           iter == CHOOSE f : Eq(f)
<1>1. n \in Nat /\ DOMAIN seq = 1 .. n
  BY StrippedIsText
<1>2. NoCriteria \in T
  <2>1. <<>> \in Seq(CriteriaOf(StripComments(lines)))
    OBVIOUS
  <2> QED BY <2>1 DEF NoCriteria, CriteriaKnown
<1>4. step \in [T \X (1 .. n) -> T] /\ \A s \in T, i \in 1 .. n : step[<<s, i>>] = CriterionLine(s, seq[i])
  <2>1. \A s \in T, i \in 1 .. n : CriterionLine(s, seq[i]) \in T
    BY <1>1, CriterionLineKnows
  <2> HIDE DEF T, n, seq
  <2> QED BY <2>1
<1>5. FoldLeft(CriterionLine, NoCriteria, StripComments(lines)) = iter[DOMAIN seq]
  BY DEF NoCriteria, FoldLeft, MapThenFoldSet
<1> HIDE DEF T, n, step, seq
<1>6. \E f : Eq(f)
  <2>1. PICK f \in [SUBSET (1 .. n) -> T] : FoldsSets(f, n, NoCriteria, step)
    BY <1>1, <1>2, <1>4, FoldExists
  <2>2. ASSUME NEW s \in SUBSET (1 .. n), s # {} PROVE f[s] = CriterionLine(f[s \ {Max(s)}], seq[Max(s)])
    <3>1. Max(s) \in 1 .. n /\ s \ {Max(s)} \in SUBSET (1 .. n)
      BY <1>1, <2>2, MaxInside
    <3>2. f[s \ {Max(s)}] \in T
      BY <3>1
    <3>3. f[s] = step[<<f[s \ {Max(s)}], Max(s)>>]
      BY <2>1, <2>2 DEF FoldsSets
    <3>4. step[<<f[s \ {Max(s)}], Max(s)>>] = CriterionLine(f[s \ {Max(s)}], seq[Max(s)])
      BY <1>1, <1>4, <3>1, <3>2
    <3> QED BY <3>3, <3>4
  <2>3. f[{}] = NoCriteria
    BY <2>1 DEF FoldsSets
  <2>4. Eq(f)
    BY <1>1, <2>1, <2>2, <2>3
  <2> QED BY <2>4
<1>7. Eq(iter)
  <2> HIDE DEF Eq
  <2> QED BY <1>6
<1> HIDE DEF iter
<1>8. iter[{}] = NoCriteria
  BY <1>7
<1>9. ASSUME NEW s \in SUBSET (1 .. n), s # {}, iter[s \ {Max(s)}] \in T
      PROVE iter[s] = step[<<iter[s \ {Max(s)}], Max(s)>>]
  <2>1. Max(s) \in 1 .. n
    BY <1>1, <1>9, MaxInside
  <2>2. step[<<iter[s \ {Max(s)}], Max(s)>>] = CriterionLine(iter[s \ {Max(s)}], seq[Max(s)])
    BY <1>1, <1>4, <1>9, <2>1
  <2>3. iter[s] = CriterionLine(iter[s \ {Max(s)}], seq[Max(s)])
    BY <1>1, <1>7, <1>9
  <2> QED BY <2>2, <2>3
<1> HIDE DEF Eq
<1>g. Iterates(iter, T, n, step)
  BY <1>9 DEF Iterates
<1>10. PICK at \in [0 .. n -> T] : Arrives(at, n, NoCriteria, step, iter)
  BY <1>1, <1>2, <1>4, <1>8, <1>g, FoldWalks
<1>11. ASSUME NEW i \in 1 .. n PROVE at[i] = CriterionLine(at[i - 1], seq[i])
  <2>1. at[i - 1] \in T
    BY <1>1
  <2> QED BY <1>4, <1>10, <2>1 DEF Walks, Arrives
<1> QED BY <1>1, <1>5, <1>10, <1>11 DEF n, T, seq, CriteriaGo, Walks, Arrives

\* What the criteria hold of what was gone over: as many as boxes were seen, each with
\* the marks of the lines wrapped around a box, and all the ids that were under one.
SeenBy(lines, k) == {i \in Seen(lines) : i <= k}
Gone(lines, s, k) ==
  LET L == StripComments(lines)
  IN  /\ Len(s.list) = Cardinality(SeenBy(lines, k))
      /\ \A i \in SeenBy(lines, k) : k \in Under(lines, i) => s.continuing
      /\ \A i \in SeenBy(lines, k) : \A j \in Under(lines, i) :
           j <= k => \E c \in DOMAIN s.list : L[j].ids \subseteq s.list[c].ids
      /\ \A c \in DOMAIN s.list :
           /\ s.list[c].words # <<>> /\ Len(s.list[c].words) <= k
           /\ \E i \in SeenBy(lines, k) :
                /\ \A j \in Wrapped(L, i) : j <= k => L[j].marks \subseteq s.list[c].marks
                /\ c # Len(s.list) => \A j \in Wrapped(L, i) : j <= k

\* What the next line is under.
LEMMA NextIsUnder ==
  ASSUME NEW lines, TextOf(lines), NEW i \in 1 .. Len(lines)
  PROVE  LET L == StripComments(lines) IN
         /\ \A h \in SeenBy(lines, i - 1) :
              /\ h \in 1 .. i - 1
              /\ i \in Under(lines, h) => L[i].kind \notin {"blank", "box"} /\ i - 1 \in Under(lines, h)
              /\ i \in Wrapped(L, h) => L[i].kind = "more" /\ i \in Under(lines, h)
              /\ i \notin Wrapped(L, h) => \A j \in Wrapped(L, h) : j <= i - 1
         /\ \A h : \A j \in Under(lines, h) \cup Wrapped(L, h) : j \in Nat /\ j >= h /\ (j <= i <=> j <= i - 1 \/ j = i)
         /\ i \in Seen(lines) <=> L[i].kind = "box" /\ ~(L[i].says = "..." /\ L[i].ids = {})
         /\ SeenBy(lines, i) = SeenBy(lines, i - 1) \cup (IF i \in Seen(lines) THEN {i} ELSE {})
         /\ IsFiniteSet(SeenBy(lines, i - 1)) /\ i \notin SeenBy(lines, i - 1)
<1> DEFINE L == StripComments(lines)
           n == Len(lines)
<1>1. /\ n \in Nat /\ DOMAIN lines = 1 .. n /\ DOMAIN L = 1 .. n
      /\ \A j \in 1 .. n : L[j].kind # "blank" => L[j] = lines[j]
  BY StrippedIsText
<1> HIDE DEF L, n
<1>2. i \in 1 .. n /\ i - 1 \in 0 .. n
  BY <1>1 DEF n
<1>3. \A h \in Seen(lines) : h \in 1 .. n
  BY <1>1 DEF Seen, Content
<1>4. \A h : Under(lines, h) = {j \in 1 .. n : j >= h /\ \A k \in h + 1 .. j : L[k].kind \notin {"blank", "box"}}
  BY <1>1 DEF Under, L
<1>5. \A h : Wrapped(L, h) = {j \in 1 .. n : j >= h /\ \A k \in h + 1 .. j : L[k].kind = "more"}
  BY <1>1 DEF Wrapped
<1>6. ASSUME NEW h \in SeenBy(lines, i - 1)
      PROVE  /\ h \in 1 .. i - 1
             /\ i \in Under(lines, h) => L[i].kind \notin {"blank", "box"} /\ i - 1 \in Under(lines, h)
             /\ i \in Wrapped(L, h) => L[i].kind = "more" /\ i \in Under(lines, h)
             /\ i \notin Wrapped(L, h) => \A j \in Wrapped(L, h) : j <= i - 1
  <2>1. h \in 1 .. n /\ h <= i - 1
    BY <1>3 DEF SeenBy
  <2>2. i \in h + 1 .. i /\ h + 1 .. i - 1 \subseteq h + 1 .. i /\ i - 1 \in 1 .. n
    BY <1>1, <1>2, <2>1
  <2>3. i \in Under(lines, h) => L[i].kind \notin {"blank", "box"} /\ i - 1 \in Under(lines, h)
    BY <1>1, <1>2, <1>4, <2>1, <2>2
  <2>4. i \in Wrapped(L, h) => L[i].kind = "more" /\ i \in Under(lines, h)
    <3>1. SUFFICES ASSUME i \in Wrapped(L, h) PROVE L[i].kind = "more" /\ i \in Under(lines, h)
      OBVIOUS
    <3>2. i >= h /\ \A k \in h + 1 .. i : L[k].kind = "more"
      BY <1>5, <3>1
    <3>3. \A k \in h + 1 .. i : L[k].kind \notin {"blank", "box"}
      BY <3>2
    <3> QED BY <1>2, <1>4, <2>2, <3>2, <3>3
  <2>5. ASSUME NEW j \in Wrapped(L, h), ~(j <= i - 1) PROVE i \in Wrapped(L, h)
    <3>1. j \in 1 .. n /\ j >= h /\ \A k \in h + 1 .. j : L[k].kind = "more"
      BY <1>5
    <3>2. \A k \in h + 1 .. i : k \in h + 1 .. j
      BY <1>1, <1>2, <2>1, <2>5, <3>1
    <3> QED BY <1>1, <1>2, <1>5, <2>1, <3>1, <3>2
  <2> QED BY <1>2, <2>1, <2>3, <2>4, <2>5
<1>7. \A h : \A j \in Under(lines, h) \cup Wrapped(L, h) : j \in Nat /\ j >= h /\ (j <= i <=> j <= i - 1 \/ j = i)
  BY <1>1, <1>2, <1>4, <1>5
<1>8. i \in Seen(lines) <=> L[i].kind = "box" /\ ~(L[i].says = "..." /\ L[i].ids = {})
  <2>1. i \in Content(lines) <=> L[i].kind # "blank"
    BY <1>1, <1>2 DEF Content, L
  <2>2. L[i].kind # "blank" => L[i] = lines[i]
    BY <1>1, <1>2
  <2>3. i \in Seen(lines) <=> i \in Content(lines) /\ lines[i].kind = "box" /\ ~(lines[i].says = "..." /\ lines[i].ids = {})
    BY DEF Seen
  <2>4. CASE L[i].kind = "blank"
    BY <2>1, <2>3, <2>4
  <2>5. CASE L[i].kind # "blank"
    BY <2>1, <2>2, <2>3, <2>5
  <2> QED BY <2>4, <2>5
<1>9. SeenBy(lines, i) = SeenBy(lines, i - 1) \cup (IF i \in Seen(lines) THEN {i} ELSE {}) /\ i \notin SeenBy(lines, i - 1)
  <2>1. \A h \in Seen(lines) : h <= i <=> h <= i - 1 \/ h = i
    BY <1>1, <1>2, <1>3
  <2>2. ~(i <= i - 1) /\ i <= i
    BY <1>2
  <2>3. \A h : h \in SeenBy(lines, i) <=> h \in SeenBy(lines, i - 1) \/ (h = i /\ i \in Seen(lines))
    BY <2>1, <2>2 DEF SeenBy
  <2> QED BY <2>2, <2>3 DEF SeenBy
<1>10. IsFiniteSet(SeenBy(lines, i - 1))
  <2>1. SeenBy(lines, i - 1) \in SUBSET (1 .. n) /\ 1 \in Int /\ n \in Int
    BY <1>1, <1>3 DEF SeenBy
  <2> QED BY <2>1, FS_Interval, FS_Subset
<1> QED BY <1>6, <1>7, <1>8, <1>9, <1>10 DEF L

\* What was seen of the criteria goes on with the next line.
LEMMA CriterionGoes ==
  ASSUME NEW lines, TextOf(lines), NEW i \in 1 .. Len(lines), NEW s \in CriteriaKnown(StripComments(lines)), Gone(lines, s, i - 1)
  PROVE  Gone(lines, CriterionLine(s, StripComments(lines)[i]), i)
<1> DEFINE L == StripComments(lines)
           line == L[i]
           seen == SeenBy(lines, i - 1)
           t == CriterionLine(s, line)
           n == Len(s.list)
<1>1. i \in Nat /\ i - 1 \in Nat /\ n \in Nat /\ DOMAIN s.list = 1 .. n /\ s.continuing \in BOOLEAN /\ (s.continuing => n > 0)
  <2>1. s.list \in Seq(CriteriaOf(L)) /\ s.continuing \in BOOLEAN /\ (s.continuing => s.list # <<>>)
    BY DEF CriteriaKnown
  <2>2. i \in Nat /\ i - 1 \in Nat
    BY DEF TextOf
  <2> HIDE DEF L
  <2> QED BY <2>1, <2>2
<1>2. /\ \A h \in seen :
           /\ h \in 1 .. i - 1
           /\ i \in Under(lines, h) => L[i].kind \notin {"blank", "box"} /\ i - 1 \in Under(lines, h)
           /\ i \in Wrapped(L, h) => L[i].kind = "more" /\ i \in Under(lines, h)
           /\ i \notin Wrapped(L, h) => \A j \in Wrapped(L, h) : j <= i - 1
      /\ \A h : \A j \in Under(lines, h) \cup Wrapped(L, h) : j \in Nat /\ j >= h /\ (j <= i <=> j <= i - 1 \/ j = i)
      /\ i \in Seen(lines) <=> line.kind = "box" /\ ~(line.says = "..." /\ line.ids = {})
      /\ SeenBy(lines, i) = seen \cup (IF i \in Seen(lines) THEN {i} ELSE {})
      /\ IsFiniteSet(seen) /\ i \notin seen
  BY NextIsUnder
<1>3. /\ n = Cardinality(seen)
      /\ \A h \in seen : i - 1 \in Under(lines, h) => s.continuing
      /\ \A h \in seen : \A j \in Under(lines, h) :
           j <= i - 1 => \E c \in 1 .. n : L[j].ids \subseteq s.list[c].ids
      /\ \A c \in 1 .. n :
           /\ s.list[c].words # <<>> /\ Len(s.list[c].words) <= i - 1
           /\ \E h \in seen :
                /\ \A j \in Wrapped(L, h) : j <= i - 1 => L[j].marks \subseteq s.list[c].marks
                /\ c # n => \A j \in Wrapped(L, h) : j <= i - 1
  BY <1>1 DEF Gone
<1>w. \A c \in 1 .. n : s.list[c] \in CriteriaOf(L) /\ Len(s.list[c].words) \in Nat /\ s.list[c].words \in Seq(WordsOf(L))
  <2>1. s.list \in Seq(CriteriaOf(L))
    BY DEF CriteriaKnown
  <2>2. \A c \in 1 .. n : s.list[c] \in CriteriaOf(L)
    BY <1>1, <2>1
  <2>3. \A x \in CriteriaOf(L) : x.words \in Seq(WordsOf(L))
    BY DEF CriteriaOf
  <2> QED BY <2>2, <2>3
<1>4. CASE i \in Seen(lines)
  <2> DEFINE d == [words |-> <<line.word>>, ids |-> line.ids, marks |-> line.marks]
  <2>1. t = [list |-> Append(s.list, d), continuing |-> TRUE]
    BY <1>2, <1>4 DEF CriterionLine
  <2>2. t.list = Append(s.list, d) /\ t.continuing
    BY <2>1
  <2>3. d.words # <<>> /\ Len(d.words) = 1 /\ d.ids = line.ids /\ d.marks = line.marks
    OBVIOUS
  <2>4. s.list \in Seq(CriteriaOf(L) \cup {d})
    <3>1. s.list \in Seq(CriteriaOf(L))
      BY DEF CriteriaKnown
    <3> HIDE DEF d, L
    <3> QED BY <3>1
  <2> HIDE DEF d, t
  <2>5. /\ Len(t.list) = n + 1 /\ DOMAIN t.list = 1 .. n + 1 /\ t.list[n + 1] = d /\ \A c \in 1 .. n : t.list[c] = s.list[c]
    BY <1>1, <2>2, <2>4
  <2> HIDE DEF n, seen, line, L
  <2>6. SeenBy(lines, i) = seen \cup {i} /\ Cardinality(SeenBy(lines, i)) = n + 1
    BY <1>2, <1>3, <1>4, FS_AddElement
  <2>7. line.kind = "box" /\ line.kind # "more" /\ line.kind \in {"blank", "box"} /\ line = L[i]
    BY <1>2, <1>4 DEF line
  <2>8. ASSUME NEW h \in SeenBy(lines, i), NEW j \in Under(lines, h), j <= i
        PROVE  \E c \in 1 .. n + 1 : L[j].ids \subseteq t.list[c].ids
    <3>1. CASE j <= i - 1
      <4>1. h \in seen
        BY <1>1, <1>2, <2>6, <3>1
      <4>2. PICK c \in 1 .. n : L[j].ids \subseteq s.list[c].ids
        BY <1>3, <3>1, <4>1
      <4>3. t.list[c] = s.list[c] /\ c \in 1 .. n + 1
        BY <1>1, <2>5
      <4> QED BY <4>2, <4>3
    <3>2. CASE j = i
      BY <1>1, <2>3, <2>5, <2>7, <3>2
    <3> QED BY <1>2, <2>8, <3>1, <3>2
  <2>9. ASSUME NEW c \in 1 .. n + 1
        PROVE  /\ t.list[c].words # <<>> /\ Len(t.list[c].words) <= i
               /\ \E h \in SeenBy(lines, i) :
                    /\ \A j \in Wrapped(L, h) : j <= i => L[j].marks \subseteq t.list[c].marks
                    /\ c # n + 1 => \A j \in Wrapped(L, h) : j <= i
    <3>1. CASE c = n + 1
      <4>1. t.list[c] = d
        BY <2>5, <3>1
      <4>2. i \in SeenBy(lines, i) /\ 1 <= i
        BY <2>6
      <4>3. \A j \in Wrapped(L, i) : j <= i => j = i
        BY <1>1, <1>2
      <4> QED BY <2>3, <2>7, <3>1, <4>1, <4>2, <4>3
    <3>2. CASE c # n + 1
      <4>1. c \in 1 .. n /\ t.list[c] = s.list[c]
        BY <1>1, <2>5, <3>2
      <4>2. PICK h \in seen : \A j \in Wrapped(L, h) : j <= i - 1 => L[j].marks \subseteq s.list[c].marks
        BY <1>3, <4>1
      <4>3. h \in SeenBy(lines, i) /\ \A j \in Wrapped(L, h) : j <= i - 1 /\ j \in Nat
        BY <1>2, <2>6, <2>7, <4>2
      <4>4. \A j \in Wrapped(L, h) : j <= i
        BY <1>1, <4>3
      <4>5. Len(s.list[c].words) <= i
        BY <1>1, <1>3, <1>w, <4>1
      <4> QED BY <1>3, <4>1, <4>2, <4>3, <4>4, <4>5
    <3> QED BY <3>1, <3>2
  <2>10. \A h \in SeenBy(lines, i) : i \in Under(lines, h) => t.continuing
    BY <2>2
  <2>11. Gone(lines, t, i)
    BY <2>5, <2>6, <2>8, <2>9, <2>10 DEF Gone, L
  <2> QED BY <2>11 DEF t, line, L
<1>5. ASSUME i \notin Seen(lines), Len(t.list) = n, DOMAIN t.list = 1 .. n,
             \A h \in seen : i \in Under(lines, h) => s.continuing /\ t.continuing /\ n > 0
                               /\ L[i].ids \subseteq t.list[n].ids /\ L[i].marks \subseteq t.list[n].marks,
             \A c \in 1 .. n : /\ s.list[c].ids \subseteq t.list[c].ids /\ s.list[c].marks \subseteq t.list[c].marks
                               /\ t.list[c].words # <<>> /\ Len(t.list[c].words) <= i
      PROVE  Gone(lines, t, i)
  <2> HIDE DEF n, seen, t, line
  <2>1. SeenBy(lines, i) = seen
    BY <1>2, <1>5
  <2>2. ASSUME NEW h \in seen, NEW j \in Under(lines, h), j <= i
        PROVE  \E c \in 1 .. n : L[j].ids \subseteq t.list[c].ids
    <3>1. CASE j <= i - 1
      <4>1. PICK c \in 1 .. n : L[j].ids \subseteq s.list[c].ids
        BY <1>3, <3>1
      <4> QED BY <1>5, <4>1
    <3>2. CASE j = i
      BY <1>1, <1>5, <3>2
    <3> QED BY <1>2, <2>2, <3>1, <3>2
  <2>3. ASSUME NEW c \in 1 .. n
        PROVE  \E h \in seen :
                 /\ \A j \in Wrapped(L, h) : j <= i => L[j].marks \subseteq t.list[c].marks
                 /\ c # n => \A j \in Wrapped(L, h) : j <= i
    <3>1. PICK h \in seen : /\ \A j \in Wrapped(L, h) : j <= i - 1 => L[j].marks \subseteq s.list[c].marks
                            /\ c # n => \A j \in Wrapped(L, h) : j <= i - 1
      BY <1>3
    <3>2. c # n => \A j \in Wrapped(L, h) : j <= i
      BY <1>1, <1>2, <3>1
    <3>3. ASSUME NEW j \in Wrapped(L, h), j <= i PROVE L[j].marks \subseteq t.list[c].marks
      <4>1. CASE j <= i - 1
        BY <1>5, <3>1, <4>1
      <4>2. CASE j = i
        <5>1. i \in Under(lines, h)
          BY <1>2, <4>2
        <5>2. c = n
          BY <1>1, <3>1, <4>2
        <5> QED BY <1>5, <4>2, <5>1, <5>2
      <4> QED BY <1>2, <3>3, <4>1, <4>2
    <3> QED BY <3>2, <3>3
  <2> QED BY <1>3, <1>5, <2>1, <2>2, <2>3 DEF Gone
<1>6. CASE i \notin Seen(lines) /\ (line.kind = "box" \/ line.kind = "blank" \/ ~s.continuing)
  <2>1. t = [list |-> s.list, continuing |-> FALSE]
    BY <1>1, <1>2, <1>6 DEF CriterionLine
  <2>2. t.list = s.list
    BY <2>1
  <2> HIDE DEF t
  <2>3. \A h \in seen : i \notin Under(lines, h)
    BY <1>2, <1>3, <1>6
  <2>4. \A c \in 1 .. n : Len(s.list[c].words) <= i
    <3> HIDE DEF n
    <3> QED BY <1>1, <1>3, <1>w
  <2> HIDE DEF n
  <2>5. Gone(lines, t, i)
    BY <1>1, <1>3, <1>5, <1>6, <2>2, <2>3, <2>4 DEF n
  <2> QED BY <2>5 DEF t
<1>7. CASE i \notin Seen(lines) /\ line.kind \notin {"box", "blank"} /\ s.continuing
  <2> DEFINE x == s.list[n]
             d == [words |-> Append(x.words, line.word), ids |-> x.ids \cup line.ids, marks |-> x.marks \cup line.marks]
  <2>1. t = [list |-> [s.list EXCEPT ![n] = d], continuing |-> TRUE]
    BY <1>7 DEF CriterionLine
  <2>2. t.list = [s.list EXCEPT ![n] = d] /\ t.continuing
    BY <2>1
  <2>3. n \in 1 .. n
    BY <1>1, <1>7
  <2>4. d.ids = x.ids \cup L[i].ids /\ d.marks = x.marks \cup L[i].marks /\ d.words = Append(x.words, line.word)
    OBVIOUS
  <2>5. x.words \in Seq(WordsOf(L)) /\ Len(x.words) <= i - 1
    BY <1>3, <1>w, <2>3
  <2>6. d.words # <<>> /\ Len(d.words) <= i
    <3> HIDE DEF d, x, L
    <3>1. x.words \in Seq(WordsOf(L) \cup {line.word})
      BY <2>5
    <3>2. Len(d.words) = Len(x.words) + 1 /\ Len(<<>>) = 0 /\ Len(x.words) \in Nat
      BY <2>4, <3>1
    <3> QED BY <1>1, <2>5, <3>2
  <2>7. s.list \in Seq(CriteriaOf(L))
    BY DEF CriteriaKnown
  <2> HIDE DEF d, t, L
  <2>8. DOMAIN t.list = 1 .. n /\ t.list[n] = d /\ \A c \in 1 .. n : c # n => t.list[c] = s.list[c]
    BY <1>1, <2>2, <2>3
  <2>9. Len(t.list) = n
    <3> DEFINE C == CriteriaOf(L) \cup {d}
    <3>1. s.list \in Seq(C) /\ d \in C
      BY <2>7
    <3> HIDE DEF C
    <3>2. [s.list EXCEPT ![n] = d] \in Seq(C)
      BY <1>1, <2>3, <3>1
    <3> QED BY <1>1, <2>2, <2>8, <3>2
  <2> HIDE DEF n, line, seen
  <2>10. \A c \in 1 .. n : /\ s.list[c].ids \subseteq t.list[c].ids /\ s.list[c].marks \subseteq t.list[c].marks
                           /\ t.list[c].words # <<>> /\ Len(t.list[c].words) <= i
    <3> SUFFICES ASSUME NEW c \in 1 .. n PROVE
                 /\ s.list[c].ids \subseteq t.list[c].ids /\ s.list[c].marks \subseteq t.list[c].marks
                 /\ t.list[c].words # <<>> /\ Len(t.list[c].words) <= i
      OBVIOUS
    <3>1. CASE c = n
      BY <2>4, <2>6, <2>8, <3>1
    <3>2. CASE c # n
      BY <1>1, <1>3, <1>w, <2>8, <3>2
    <3> QED BY <3>1, <3>2
  <2>11. /\ n > 0 /\ L[i].ids \subseteq t.list[n].ids /\ L[i].marks \subseteq t.list[n].marks
    BY <1>1, <1>7, <2>4, <2>8
  <2>12. Gone(lines, t, i)
    BY <1>5, <1>7, <2>2, <2>8, <2>9, <2>10, <2>11
  <2> QED BY <2>12 DEF t, line, L
<1> QED BY <1>1, <1>4, <1>6, <1>7

\* What Criteria has in the end.
LEMMA CriteriaAreSeen ==
  ASSUME NEW lines, TextOf(lines)
  PROVE  \E s \in CriteriaKnown(StripComments(lines)) : s.list = Criteria(lines) /\ Gone(lines, s, Len(lines))
<1> DEFINE T == CriteriaKnown(StripComments(lines))
           n == Len(lines)
<1>1. n \in Nat
  BY DEF TextOf
<1>2. PICK at \in [0 .. n -> T] : CriteriaGo(at, lines) /\ FoldLeft(CriterionLine, NoCriteria, StripComments(lines)) = at[n]
  BY CriteriaWalk
<1>3. at[n].list = Criteria(lines) /\ at[n] \in T
  <2>1. Criteria(lines) = FoldLeft(CriterionLine, NoCriteria, StripComments(lines)).list
    BY DEF Criteria, NoCriteria
  <2>2. n \in 0 .. n
    BY <1>1
  <2> QED BY <1>2, <2>1, <2>2
<1>4. Gone(lines, at[0], 0)
  <2>1. at[0].list = <<>> /\ Len(<<>>) = 0
    BY <1>2 DEF CriteriaGo, NoCriteria
  <2>2. SeenBy(lines, 0) = {}
    <3>1. \A i \in Seen(lines) : i \in 1 .. n
      BY StrippedIsText DEF Seen, Content
    <3> QED BY <1>1, <3>1 DEF SeenBy
  <2>3. Cardinality({}) = 0
    BY FS_EmptySet
  <2> QED BY <2>1, <2>2, <2>3 DEF Gone
<1> DEFINE S == {i \in 0 .. n : Gone(lines, at[i], i)}
<1>5. ASSUME NEW i \in 1 .. n, i - 1 \in S PROVE i \in S
  <2>1. at[i - 1] \in T /\ i \in 0 .. n /\ Gone(lines, at[i - 1], i - 1) /\ i \in 1 .. Len(lines)
    BY <1>1, <1>5
  <2>2. at[i] = CriterionLine(at[i - 1], StripComments(lines)[i])
    BY <1>2 DEF CriteriaGo
  <2>3. Gone(lines, CriterionLine(at[i - 1], StripComments(lines)[i]), i)
    BY <2>1, CriterionGoes
  <2> QED BY <2>1, <2>2, <2>3
<1>6. 0 \in S
  BY <1>1, <1>4
<1>7. Gone(lines, at[n], n)
  <2>1. \A i \in 0 .. n : i \in S
    <3> HIDE DEF S, n
    <3> QED BY <1>1, <1>5, <1>6, Upwards
  <2>2. n \in S
    BY <1>1, <2>1
  <2> QED BY <2>2
<1> QED BY <1>3, <1>7

-----------------------------------------------------------------------------

\* Names that differ.
Apart(names) == \A i, j \in DOMAIN names : names[i] = names[j] => i = j
NamesKnown(S) == {names \in Seq(Seq(S)) : Apart(names)}

\* The name a story gets is not taken.
LEMMA NameIsNew ==
  ASSUME NEW S, Nat \subseteq S, NEW slug \in Seq(S), NEW taken \in Seq(Seq(S))
  PROVE  NameOf(taken, slug) \in Seq(S) /\ NameOf(taken, slug) \notin ToSet(taken)
<1> DEFINE k == Len(taken)
           free == {n \in 2 .. k + 2 : Append(slug, n) \notin ToSet(taken)}
<1>1. k \in Nat /\ DOMAIN taken = 1 .. k /\ \A n \in Nat : Append(slug, n) \in Seq(S)
  OBVIOUS
<1>2. \A n, m \in Nat : Append(slug, n) = Append(slug, m) => n = m
  <2>1. \A n \in Nat : Append(slug, n)[Len(slug) + 1] = n
    OBVIOUS
  <2> QED BY <2>1
<1>3. free # {}
  <2> SUFFICES ASSUME \A n \in 2 .. k + 2 : Append(slug, n) \in ToSet(taken) PROVE FALSE
    OBVIOUS
  <2> DEFINE A == 2 .. k + 2
             f == [n \in A |-> CHOOSE i \in 1 .. k : taken[i] = Append(slug, n)]
  <2>1. \A n \in A : f[n] \in 1 .. k /\ taken[f[n]] = Append(slug, n) /\ n \in Nat
    <3>1. \A n \in A : \E i \in 1 .. k : taken[i] = Append(slug, n)
      BY <1>1 DEF ToSet
    <3>2. \A n \in A : n \in Nat
      BY <1>1
    <3> HIDE DEF A, k
    <3>3. \A n \in A : f[n] = CHOOSE i \in 1 .. k : taken[i] = Append(slug, n)
      OBVIOUS
    <3> HIDE DEF f
    <3> QED BY <3>1, <3>2, <3>3
  <2>2. f \in [A -> 1 .. k]
    BY <2>1
  <2>3. /\ IsFiniteSet(A) /\ IsFiniteSet(1 .. k) /\ Cardinality(A) = k + 1 /\ Cardinality(1 .. k) = k
    <3>1. 1 \in Int /\ 2 \in Int /\ k \in Int /\ k + 2 \in Int
      BY <1>1
    <3>2. IsFiniteSet(A) /\ Cardinality(A) = IF 2 > k + 2 THEN 0 ELSE k + 2 - 2 + 1
      BY <3>1, FS_Interval
    <3>3. IsFiniteSet(1 .. k) /\ Cardinality(1 .. k) = IF 1 > k THEN 0 ELSE k - 1 + 1
      BY <3>1, FS_Interval
    <3> HIDE DEF A, k
    <3> QED BY <1>1, <3>2, <3>3
  <2> HIDE DEF A, f, k
  <2>4. PICK x, y \in A : x # y /\ f[x] = f[y]
    <3>1. Cardinality(1 .. k) < Cardinality(A)
      BY <1>1, <2>3
    <3> QED BY <2>2, <2>3, <3>1, FS_PigeonHole
  <2> QED BY <1>2, <2>1, <2>4
<1>4. PICK n \in free : \A m \in free : n <= m
  <2>1. free \in SUBSET Nat
    BY <1>1
  <2> HIDE DEF free
  <2> QED BY <1>3, <2>1, SmallestThere
<1>5. /\ n \in 2 .. k + 2 /\ Append(slug, n) \notin ToSet(taken)
      /\ \A m \in 2 .. n - 1 : Append(slug, m) \in ToSet(taken)
  <2>1. \A m \in 2 .. n - 1 : m \in 2 .. k + 2 /\ ~(n <= m)
    BY <1>1
  <2> QED BY <1>4, <2>1
<1> DEFINE Right(m) == m \in 2 .. k + 2 /\ Append(slug, m) \notin ToSet(taken)
                       /\ \A l \in 2 .. m - 1 : Append(slug, l) \in ToSet(taken)
           c == CHOOSE m \in 2 .. k + 2 : Append(slug, m) \notin ToSet(taken) /\ \A l \in 2 .. m - 1 : Append(slug, l) \in ToSet(taken)
<1>6. c \in 2 .. k + 2 /\ Append(slug, c) \notin ToSet(taken)
  BY <1>5
<1>7. NameOf(taken, slug) = IF slug \notin ToSet(taken) THEN slug ELSE Append(slug, c)
  BY DEF NameOf
<1> HIDE DEF c
<1>8. c \in Nat
  BY <1>1, <1>6
<1> QED BY <1>1, <1>6, <1>7, <1>8

\* Names stay apart when a new one is taken.
LEMMA NamesKnowMore ==
  ASSUME NEW S, Nat \subseteq S, NEW slug \in Seq(S), NEW taken \in NamesKnown(S)
  PROVE  /\ Append(taken, NameOf(taken, slug)) \in NamesKnown(S)
         /\ Len(Append(taken, NameOf(taken, slug))) = Len(taken) + 1
<1> DEFINE name == NameOf(taken, slug)
           more == Append(taken, name)
           k == Len(taken)
<1>1. taken \in Seq(Seq(S)) /\ Apart(taken)
  BY DEF NamesKnown
<1>2. name \in Seq(S) /\ name \notin ToSet(taken)
  BY <1>1, NameIsNew
<1> HIDE DEF name
<1>3. /\ more \in Seq(Seq(S)) /\ Len(more) = k + 1 /\ DOMAIN more = 1 .. k + 1 /\ more[k + 1] = name
      /\ k \in Nat /\ DOMAIN taken = 1 .. k /\ \A i \in 1 .. k : more[i] = taken[i]
  BY <1>1, <1>2
<1> HIDE DEF more
<1>4. ASSUME NEW i \in 1 .. k + 1, NEW j \in 1 .. k + 1, more[i] = more[j] PROVE i = j
  <2>1. \A m \in 1 .. k : more[m] # name
    BY <1>2, <1>3 DEF ToSet
  <2>2. CASE i = k + 1 \/ j = k + 1
    <3>1. i \in 1 .. k \/ i = k + 1
      BY <1>3
    <3>2. j \in 1 .. k \/ j = k + 1
      BY <1>3
    <3> QED BY <1>3, <1>4, <2>1, <2>2, <3>1, <3>2
  <2>3. CASE i # k + 1 /\ j # k + 1
    <3>1. i \in 1 .. k /\ j \in 1 .. k
      BY <1>3, <2>3
    <3> QED BY <1>1, <1>3, <1>4, <3>1 DEF Apart
  <2> QED BY <2>2, <2>3
<1>5. more \in NamesKnown(S) /\ Len(more) = k + 1
  BY <1>3, <1>4 DEF NamesKnown, Apart
<1> QED BY <1>5 DEF more, name

NamesGo(at, wanted) == at[0] = <<>> /\ \A i \in 1 .. Len(wanted) : at[i] = Append(at[i - 1], NameOf(at[i - 1], wanted[i]))

\* A walk along what is wanted ends at the names.
LEMMA NamesWalk ==
  ASSUME NEW S, Nat \subseteq S, NEW wanted \in Seq(Seq(S))
  PROVE  \E at \in [0 .. Len(wanted) -> NamesKnown(S)] : NamesGo(at, wanted) /\ Names(wanted) = at[Len(wanted)]
<1> DEFINE T == NamesKnown(S)
           n == Len(wanted)
           seq == wanted
           step == [p \in T \X (1 .. n) |-> Append(p[1], NameOf(p[1], seq[p[2]]))]
           Eq(f) == f = [s \in SUBSET DOMAIN seq |-> IF s = {} THEN <<>> ELSE Append(f[s \ {Max(s)}], NameOf(f[s \ {Max(s)}], seq[Max(s)]))]
           iter == CHOOSE f : Eq(f)
<1>1. n \in Nat /\ DOMAIN seq = 1 .. n
  OBVIOUS
<1>2. <<>> \in T
  BY DEF NamesKnown, Apart
<1>4. step \in [T \X (1 .. n) -> T] /\ \A s \in T, i \in 1 .. n : step[<<s, i>>] = Append(s, NameOf(s, seq[i]))
  <2>1. \A s \in T, i \in 1 .. n : Append(s, NameOf(s, seq[i])) \in T
    <3>1. \A i \in 1 .. n : seq[i] \in Seq(S)
      OBVIOUS
    <3> QED BY <3>1, NamesKnowMore
  <2> HIDE DEF T, n, seq
  <2> QED BY <2>1
<1>5. Names(wanted) = iter[DOMAIN seq]
  BY DEF Names, FoldLeft, MapThenFoldSet
<1> HIDE DEF T, n, step, seq
<1>6. \E f : Eq(f)
  <2>1. PICK f \in [SUBSET (1 .. n) -> T] : FoldsSets(f, n, <<>>, step)
    BY <1>1, <1>2, <1>4, FoldExists
  <2>2. ASSUME NEW s \in SUBSET (1 .. n), s # {} PROVE f[s] = Append(f[s \ {Max(s)}], NameOf(f[s \ {Max(s)}], seq[Max(s)]))
    <3>1. Max(s) \in 1 .. n /\ s \ {Max(s)} \in SUBSET (1 .. n)
      BY <1>1, <2>2, MaxInside
    <3>2. f[s \ {Max(s)}] \in T
      BY <3>1
    <3>3. f[s] = step[<<f[s \ {Max(s)}], Max(s)>>]
      BY <2>1, <2>2 DEF FoldsSets
    <3>4. step[<<f[s \ {Max(s)}], Max(s)>>] = Append(f[s \ {Max(s)}], NameOf(f[s \ {Max(s)}], seq[Max(s)]))
      BY <1>1, <1>4, <3>1, <3>2
    <3> QED BY <3>3, <3>4
  <2>3. f[{}] = <<>>
    BY <2>1 DEF FoldsSets
  <2>4. Eq(f)
    BY <1>1, <2>1, <2>2, <2>3
  <2> QED BY <2>4
<1>7. Eq(iter)
  <2> HIDE DEF Eq
  <2> QED BY <1>6
<1> HIDE DEF iter
<1>8. iter[{}] = <<>>
  BY <1>7
<1>9. ASSUME NEW s \in SUBSET (1 .. n), s # {}, iter[s \ {Max(s)}] \in T
      PROVE iter[s] = step[<<iter[s \ {Max(s)}], Max(s)>>]
  <2>1. Max(s) \in 1 .. n
    BY <1>1, <1>9, MaxInside
  <2>2. step[<<iter[s \ {Max(s)}], Max(s)>>] = Append(iter[s \ {Max(s)}], NameOf(iter[s \ {Max(s)}], seq[Max(s)]))
    BY <1>1, <1>4, <1>9, <2>1
  <2>3. iter[s] = Append(iter[s \ {Max(s)}], NameOf(iter[s \ {Max(s)}], seq[Max(s)]))
    BY <1>1, <1>7, <1>9
  <2> QED BY <2>2, <2>3
<1> HIDE DEF Eq
<1>g. Iterates(iter, T, n, step)
  BY <1>9 DEF Iterates
<1>10. PICK at \in [0 .. n -> T] : Arrives(at, n, <<>>, step, iter)
  BY <1>1, <1>2, <1>4, <1>8, <1>g, FoldWalks
<1>11. ASSUME NEW i \in 1 .. n PROVE at[i] = Append(at[i - 1], NameOf(at[i - 1], seq[i]))
  <2>1. at[i - 1] \in T
    BY <1>1
  <2> QED BY <1>4, <1>10, <2>1 DEF Walks, Arrives
<1> QED BY <1>1, <1>5, <1>10, <1>11 DEF n, T, seq, NamesGo, Walks, Arrives

\* The names are as many as wanted, and no two are the same.
LEMMA NamesAreApart ==
  ASSUME NEW S, Nat \subseteq S, NEW wanted \in Seq(Seq(S))
  PROVE  Names(wanted) \in NamesKnown(S) /\ Len(Names(wanted)) = Len(wanted)
<1> DEFINE n == Len(wanted)
<1>1. n \in Nat
  OBVIOUS
<1>2. PICK at \in [0 .. n -> NamesKnown(S)] : NamesGo(at, wanted) /\ Names(wanted) = at[n]
  BY NamesWalk
<1> DEFINE R == {i \in 0 .. n : Len(at[i]) = i}
<1>3. 0 \in R
  BY <1>1, <1>2 DEF NamesGo
<1>4. ASSUME NEW i \in 1 .. n, i - 1 \in R PROVE i \in R
  <2>4. wanted[i] \in Seq(S)
    OBVIOUS
  <2>1. at[i - 1] \in NamesKnown(S) /\ Len(at[i - 1]) = i - 1 /\ i \in 0 .. n /\ wanted[i] \in Seq(S)
    <3> HIDE DEF n
    <3> QED BY <1>1, <1>4, <2>4
  <2>2. at[i] = Append(at[i - 1], NameOf(at[i - 1], wanted[i]))
    BY <1>2 DEF NamesGo
  <2>3. Len(at[i]) = Len(at[i - 1]) + 1
    BY <2>1, <2>2, NamesKnowMore
  <2> QED BY <2>1, <2>3
<1>5. n \in R
  <2>1. \A i \in 0 .. n : i \in R
    <3> HIDE DEF R, n
    <3> QED BY <1>1, <1>3, <1>4, Upwards
  <2> QED BY <1>1, <2>1
<1>6. n \in 0 .. n
  BY <1>1
<1> QED BY <1>2, <1>5, <1>6

\* A sequence with another value at one place.
LEMMA PlacedAnew ==
  ASSUME NEW X, NEW s \in Seq(X), NEW k \in 1 .. Len(s), NEW x \in X, NEW t, t = [s EXCEPT ![k] = x]
  PROVE  t \in Seq(X) /\ DOMAIN t = 1 .. Len(s) /\ t[k] = x /\ \A i \in 1 .. Len(s) : i # k => t[i] = s[i]
<1>1. Len(s) \in Nat /\ s \in [1 .. Len(s) -> X]
  OBVIOUS
<1>2. t \in [1 .. Len(s) -> X]
  BY <1>1
<1>3. t \in Seq(X)
  BY <1>1, <1>2
<1> QED BY <1>1, <1>2, <1>3

\* A line that is not blank has its word in a question.
LEMMA QuestionLineKnows ==
  ASSUME NEW V, NEW asked \in Seq(Seq(V)), NEW line, line.kind # "blank" => line.word \in V
  PROVE  /\ QuestionLine(asked, line) \in Seq(Seq(V))
         /\ \A w : (\E q \in ToSet(asked) : w \in ToSet(q)) => \E q \in ToSet(QuestionLine(asked, line)) : w \in ToSet(q)
         /\ line.kind # "blank" => \E q \in ToSet(QuestionLine(asked, line)) : line.word \in ToSet(q)
<1> DEFINE next == QuestionLine(asked, line)
           n == Len(asked)
<1>1. n \in Nat /\ DOMAIN asked = 1 .. n /\ (asked # <<>> => n > 0) /\ \A i \in 1 .. n : asked[i] \in Seq(V)
  OBVIOUS
<1>2. CASE line.kind = "blank"
  BY <1>2 DEF QuestionLine
<1>3. CASE line.kind # "blank" /\ ContinuesPrevious(line) /\ asked # <<>>
  <2> DEFINE last == asked[n]
             longer == Append(last, line.word)
  <2>1. next = [asked EXCEPT ![n] = longer]
    BY <1>3 DEF QuestionLine
  <2>2. n \in 1 .. n /\ last \in Seq(V) /\ line.word \in V
    BY <1>1, <1>3
  <2>3. longer \in Seq(V) /\ line.word \in ToSet(longer) /\ \A w \in ToSet(last) : w \in ToSet(longer)
    <3> HIDE DEF last
    <3>1. /\ longer \in Seq(V) /\ DOMAIN longer = 1 .. Len(last) + 1 /\ longer[Len(last) + 1] = line.word
          /\ Len(last) \in Nat /\ DOMAIN last = 1 .. Len(last) /\ \A i \in 1 .. Len(last) : longer[i] = last[i]
      BY <2>2
    <3> HIDE DEF longer
    <3>2. Len(last) + 1 \in 1 .. Len(last) + 1 /\ \A i \in 1 .. Len(last) : i \in 1 .. Len(last) + 1
      BY <3>1
    <3> QED BY <3>1, <3>2 DEF ToSet
  <2> HIDE DEF longer, next
  <2>4. next \in Seq(Seq(V)) /\ DOMAIN next = 1 .. n /\ next[n] = longer /\ \A i \in 1 .. n : i # n => next[i] = asked[i]
    <3> DEFINE X == Seq(V)
    <3> HIDE DEF X
    <3>1. asked \in Seq(X) /\ longer \in X
      BY <2>3 DEF X
    <3>2. next \in Seq(X) /\ DOMAIN next = 1 .. n /\ next[n] = longer /\ \A i \in 1 .. n : i # n => next[i] = asked[i]
      BY <2>1, <2>2, <3>1, PlacedAnew
    <3> QED BY <3>2 DEF X
  <2> HIDE DEF n
  <2>5. longer \in ToSet(next)
    BY <2>2, <2>4 DEF ToSet
  <2>6. ASSUME NEW q \in ToSet(asked), NEW w \in ToSet(q) PROVE \E r \in ToSet(next) : w \in ToSet(r)
    <3>1. PICK i \in 1 .. n : asked[i] = q
      BY <1>1 DEF ToSet
    <3>2. CASE i = n
      BY <2>3, <2>5, <2>6, <3>1, <3>2
    <3>3. CASE i # n
      <4>1. q \in ToSet(next)
        BY <2>4, <3>1, <3>3 DEF ToSet
      <4> QED BY <2>6, <4>1
    <3> QED BY <3>2, <3>3
  <2> QED BY <2>3, <2>4, <2>5, <2>6 DEF next
<1>4. CASE line.kind # "blank" /\ ~(ContinuesPrevious(line) /\ asked # <<>>)
  <2> DEFINE new == <<line.word>>
  <2>1. next = Append(asked, new)
    BY <1>4 DEF QuestionLine
  <2>2. new \in Seq(V) /\ line.word \in ToSet(new)
    BY <1>4 DEF ToSet
  <2> HIDE DEF new, next
  <2>3. next \in Seq(Seq(V)) /\ DOMAIN next = 1 .. n + 1 /\ next[n + 1] = new /\ \A i \in 1 .. n : next[i] = asked[i]
    BY <1>1, <2>1, <2>2
  <2> HIDE DEF n
  <2>4. new \in ToSet(next) /\ \A q \in ToSet(asked) : q \in ToSet(next)
    <3>1. n + 1 \in 1 .. n + 1 /\ \A i \in 1 .. n : i \in 1 .. n + 1
      BY <1>1
    <3> QED BY <1>1, <2>3, <3>1 DEF ToSet
  <2> QED BY <2>2, <2>3, <2>4 DEF next
<1> QED BY <1>2, <1>3, <1>4

QuestionsGo(at, lines) == at[0] = <<>> /\ \A i \in 1 .. Len(lines) : at[i] = QuestionLine(at[i - 1], StripComments(lines)[i])

\* A walk along the lines ends at the open questions.
LEMMA QuestionsWalk ==
  ASSUME NEW lines, TextOf(lines)
  PROVE  \E at \in [0 .. Len(lines) -> Seq(Seq(WordsOf(StripComments(lines))))] : QuestionsGo(at, lines) /\ OpenQuestions(lines) = at[Len(lines)]
<1> DEFINE T == Seq(Seq(WordsOf(StripComments(lines))))
           n == Len(lines)
           seq == StripComments(lines)
           step == [p \in T \X (1 .. n) |-> QuestionLine(p[1], seq[p[2]])]
           Eq(f) == f = [s \in SUBSET DOMAIN seq |-> IF s = {} THEN <<>> ELSE QuestionLine(f[s \ {Max(s)}], seq[Max(s)])]
           iter == CHOOSE f : Eq(f)
<1>1. n \in Nat /\ DOMAIN seq = 1 .. n
  BY StrippedIsText
<1>2. <<>> \in T
  OBVIOUS
<1>4. step \in [T \X (1 .. n) -> T] /\ \A s \in T, i \in 1 .. n : step[<<s, i>>] = QuestionLine(s, seq[i])
  <2>1. \A s \in T, i \in 1 .. n : QuestionLine(s, seq[i]) \in T
    <3>1. \A i \in 1 .. n : seq[i].kind # "blank" => seq[i].word \in WordsOf(seq)
      BY <1>1 DEF WordsOf
    <3> QED BY <3>1, QuestionLineKnows
  <2> HIDE DEF T, n, seq
  <2> QED BY <2>1
<1>5. OpenQuestions(lines) = iter[DOMAIN seq]
  BY DEF OpenQuestions, FoldLeft, MapThenFoldSet
<1> HIDE DEF T, n, step, seq
<1>6. \E f : Eq(f)
  <2>1. PICK f \in [SUBSET (1 .. n) -> T] : FoldsSets(f, n, <<>>, step)
    BY <1>1, <1>2, <1>4, FoldExists
  <2>2. ASSUME NEW s \in SUBSET (1 .. n), s # {} PROVE f[s] = QuestionLine(f[s \ {Max(s)}], seq[Max(s)])
    <3>1. Max(s) \in 1 .. n /\ s \ {Max(s)} \in SUBSET (1 .. n)
      BY <1>1, <2>2, MaxInside
    <3>2. f[s \ {Max(s)}] \in T
      BY <3>1
    <3>3. f[s] = step[<<f[s \ {Max(s)}], Max(s)>>]
      BY <2>1, <2>2 DEF FoldsSets
    <3>4. step[<<f[s \ {Max(s)}], Max(s)>>] = QuestionLine(f[s \ {Max(s)}], seq[Max(s)])
      BY <1>1, <1>4, <3>1, <3>2
    <3> QED BY <3>3, <3>4
  <2>3. f[{}] = <<>>
    BY <2>1 DEF FoldsSets
  <2>4. Eq(f)
    BY <1>1, <2>1, <2>2, <2>3
  <2> QED BY <2>4
<1>7. Eq(iter)
  <2> HIDE DEF Eq
  <2> QED BY <1>6
<1> HIDE DEF iter
<1>8. iter[{}] = <<>>
  BY <1>7
<1>9. ASSUME NEW s \in SUBSET (1 .. n), s # {}, iter[s \ {Max(s)}] \in T
      PROVE iter[s] = step[<<iter[s \ {Max(s)}], Max(s)>>]
  <2>1. Max(s) \in 1 .. n
    BY <1>1, <1>9, MaxInside
  <2>2. step[<<iter[s \ {Max(s)}], Max(s)>>] = QuestionLine(iter[s \ {Max(s)}], seq[Max(s)])
    BY <1>1, <1>4, <1>9, <2>1
  <2>3. iter[s] = QuestionLine(iter[s \ {Max(s)}], seq[Max(s)])
    BY <1>1, <1>7, <1>9
  <2> QED BY <2>2, <2>3
<1> HIDE DEF Eq
<1>g. Iterates(iter, T, n, step)
  BY <1>9 DEF Iterates
<1>10. PICK at \in [0 .. n -> T] : Arrives(at, n, <<>>, step, iter)
  BY <1>1, <1>2, <1>4, <1>8, <1>g, FoldWalks
<1>11. ASSUME NEW i \in 1 .. n PROVE at[i] = QuestionLine(at[i - 1], seq[i])
  <2>1. at[i - 1] \in T
    BY <1>1
  <2> QED BY <1>4, <1>10, <2>1 DEF Walks, Arrives
<1> QED BY <1>1, <1>5, <1>10, <1>11 DEF n, T, seq, QuestionsGo, Walks, Arrives

\* No content of the questions is lost.
LEMMA QuestionsAreAsked ==
  ASSUME NEW lines, TextOf(lines), NEW i \in Content(lines)
  PROVE  \E q \in ToSet(OpenQuestions(lines)) : lines[i].word \in ToSet(q)
<1> DEFINE L == StripComments(lines)
           V == WordsOf(L)
           n == Len(lines)
<1>1. /\ n \in Nat /\ DOMAIN L = 1 .. n /\ DOMAIN lines = 1 .. n /\ i \in 1 .. n /\ L[i].kind # "blank" /\ L[i] = lines[i]
      /\ \A j \in 1 .. n : L[j].kind # "blank" => L[j].word \in V
  BY StrippedIsText DEF Content, WordsOf
<1>2. PICK at \in [0 .. n -> Seq(Seq(V))] : QuestionsGo(at, lines) /\ OpenQuestions(lines) = at[n]
  BY QuestionsWalk
<1> HIDE DEF V, n, L
<1>3. ASSUME NEW j \in 1 .. n
      PROVE  /\ \A w : (\E q \in ToSet(at[j - 1]) : w \in ToSet(q)) => \E q \in ToSet(at[j]) : w \in ToSet(q)
             /\ L[j].kind # "blank" => \E q \in ToSet(at[j]) : L[j].word \in ToSet(q)
  <2>1. at[j - 1] \in Seq(Seq(V))
    BY <1>1
  <2>2. at[j] = QuestionLine(at[j - 1], L[j])
    BY <1>2 DEF QuestionsGo, L, n
  <2>3. L[j].kind # "blank" => L[j].word \in V
    BY <1>1
  <2> DEFINE asked == at[j - 1]
             line == L[j]
             next == QuestionLine(asked, line)
  <2>4. asked \in Seq(Seq(V)) /\ (line.kind # "blank" => line.word \in V) /\ at[j] = next
    BY <2>1, <2>2, <2>3
  <2>5. SUFFICES /\ \A w : (\E q \in ToSet(asked) : w \in ToSet(q)) => \E q \in ToSet(next) : w \in ToSet(q)
                 /\ line.kind # "blank" => \E q \in ToSet(next) : line.word \in ToSet(q)
    BY <2>4
  <2> HIDE DEF asked, line
  <2> QED BY <2>4, QuestionLineKnows
<1> DEFINE S == {j \in 0 .. n : j >= i => \E q \in ToSet(at[j]) : lines[i].word \in ToSet(q)}
<1>4. 0 \in S
  BY <1>1
<1>5. ASSUME NEW j \in 1 .. n, j - 1 \in S PROVE j \in S
  <2>1. CASE j = i
    BY <1>1, <1>3, <2>1
  <2>2. CASE j # i
    <3>1. j >= i => j - 1 >= i
      BY <1>1, <2>2
    <3>2. j \in 0 .. n /\ j - 1 \in 0 .. n
      BY <1>1
    <3>3. j >= i => \E q \in ToSet(at[j - 1]) : lines[i].word \in ToSet(q)
      BY <1>5, <3>1
    <3>4. j >= i => \E q \in ToSet(at[j]) : lines[i].word \in ToSet(q)
      BY <1>3, <3>3
    <3> QED BY <3>2, <3>4
  <2> QED BY <2>1, <2>2
<1>6. n \in S
  <2>1. \A j \in 0 .. n : j \in S
    <3> HIDE DEF S
    <3> QED BY <1>1, <1>4, <1>5, Upwards
  <2> QED BY <1>1, <2>1
<1> QED BY <1>1, <1>2, <1>6

\* A spec as it is read: sections of lines, of which the blank ones say nothing, and
\* for whatever words its criteria have, a slug.
SpecRead(doc, slugs, S) ==
  LET criteria == Section(doc, "Acceptance criteria")
  IN  /\ \A s \in DOMAIN doc.sections : TextOf(doc.sections[s])
      /\ \A i \in DOMAIN criteria : criteria[i].kind = "blank" => criteria[i].ids = {}
      /\ \A words \in Seq(WordsOf(StripComments(criteria))) :
           words # <<>> /\ Len(words) <= Len(criteria) => slugs[words] \in Seq(S)

\* The sections of a spec are texts.
LEMMA SectionsAreTexts ==
  ASSUME NEW doc, NEW slugs, NEW S, SpecRead(doc, slugs, S), NEW name
  PROVE  TextOf(Section(doc, name))
<1>1. CASE name \in DOMAIN doc.sections
  BY <1>1 DEF SpecRead, Section
<1>2. CASE name \notin DOMAIN doc.sections
  BY <1>2 DEF Section, TextOf
<1> QED BY <1>1, <1>2

\* What a spec without gaps has.
LEMMA WithoutGaps ==
  ASSUME NEW doc, NEW repo, NEW answers, SpecGaps(doc, repo, answers) = {}
  PROVE  /\ Content(Section(doc, "In scope")) # {} /\ IdsIn(Section(doc, "In scope")) # {}
         /\ IdsIn(Section(doc, "In scope")) \subseteq IdsIn(StripComments(Section(doc, "Acceptance criteria")))
         /\ \A q \in ToSet(OpenQuestions(Section(doc, "Open questions"))) : answers.readable /\ q \in answers.settled
         /\ doc.status # "complete" => TruthGaps(doc, repo) = {}
<1>1. /\ SectionGaps(doc, Sections) = {} /\ ScopeCoverage(doc) = {}
      /\ {<<"question", "unanswered">> : q \in Unanswered(Section(doc, "Open questions"), answers)} = {}
      /\ (IF doc.status = "complete" THEN {} ELSE TruthGaps(doc, repo)) = {}
  BY DEF SpecGaps
<1>2. Content(Section(doc, "In scope")) # {}
  <2>1. "In scope" \in Sections /\ "In scope" # "Open questions"
    BY DEF Sections
  <2>2. "In scope" \in DOMAIN doc.sections
    BY <1>1, <2>1 DEF SectionGaps
  <2>3. ASSUME Content(Section(doc, "In scope")) = {} PROVE FALSE
    <3>1. <<"empty", "In scope">> \in SectionGaps(doc, Sections)
      BY <2>1, <2>2, <2>3 DEF SectionGaps
    <3> QED BY <1>1, <3>1
  <2> QED BY <2>3
<1>3. IdsIn(Section(doc, "In scope")) # {}
  BY <1>1, <1>2 DEF ScopeCoverage
<1>4. IdsIn(Section(doc, "In scope")) \subseteq IdsIn(StripComments(Section(doc, "Acceptance criteria")))
  BY <1>1, <1>3 DEF ScopeCoverage
<1>5. \A q \in ToSet(OpenQuestions(Section(doc, "Open questions"))) : answers.readable /\ q \in answers.settled
  BY <1>1 DEF Unanswered
<1> QED BY <1>1, <1>2, <1>3, <1>4, <1>5

\* What opens a bracket in a draft without gaps.
LEMMA CriteriaAreChecked ==
  ASSUME NEW doc, NEW repo, TruthGaps(doc, repo) = {}, NEW i \in Bracketed(Section(doc, "Acceptance criteria"))
  PROVE  LET marks == MarksOf(Section(doc, "Acceptance criteria"), i)
         IN  marks \cap {"run", "test"} # {} /\ marks \cap {"fails if", "test"} # {}
<1> DEFINE marks == MarksOf(Section(doc, "Acceptance criteria"), i)
<1>1. \A f \in CriterionFaults(marks) : FALSE
  <2> DEFINE found(j) == {<<f, "criterion">> : f \in CriterionFaults(MarksOf(Section(doc, "Acceptance criteria"), j))}
  <2>1. found(i) \subseteq UNION {found(j) : j \in Bracketed(Section(doc, "Acceptance criteria"))}
    BY DEF found
  <2>2. UNION {found(j) : j \in Bracketed(Section(doc, "Acceptance criteria"))} = {}
    BY DEF TruthGaps
  <2>3. \A f \in CriterionFaults(marks) : <<f, "criterion">> \in found(i)
    OBVIOUS
  <2> HIDE DEF found
  <2> QED BY <2>1, <2>2, <2>3
<1> HIDE DEF marks
<1>2. marks \cap {"run", "test"} = {} => "unobservable" \in CriterionFaults(marks)
  BY DEF CriterionFaults
<1>3. marks \cap {"fails if", "test"} = {} => "unfalsified" \in CriterionFaults(marks)
  BY DEF CriterionFaults
<1> QED BY <1>1, <1>2, <1>3 DEF marks

\* A story for each criterion, each in a file of its own.
StoriesTell(seeded, criteria) ==
  /\ Len(seeded.stories) = Len(criteria) /\ DOMAIN seeded.stories = 1 .. Len(criteria)
  /\ \A n \in 1 .. Len(criteria) : seeded.stories[n].criterion = criteria[n]
  /\ \A n, m \in 1 .. Len(criteria) : seeded.stories[n].file = seeded.stories[m].file => n = m

\* The stories of a spec that Seed was given.
LEMMA StoriesAreCriteria ==
  ASSUME NEW doc, NEW later, NEW repo, NEW answers, NEW epicThere, NEW slugs, NEW S, Nat \subseteq S,
         SpecRead(doc, slugs, S), later.sections = doc.sections, Seed(doc, later, repo, answers, epicThere, slugs).code = 0
  PROVE  /\ SpecGaps(doc, repo, answers) = {}
         /\ StoriesTell(Seed(doc, later, repo, answers, epicThere, slugs), Criteria(Section(doc, "Acceptance criteria")))
<1> DEFINE lines == Section(later, "Acceptance criteria")
           L == StripComments(lines)
           list == Criteria(lines)
           seeded == Seed(doc, later, repo, answers, epicThere, slugs)
           k == Len(list)
           wanted == [i \in DOMAIN list |-> slugs[list[i].words]]
           names == Names(wanted)
           stories == [i \in DOMAIN list |-> [file |-> names[i], criterion |-> list[i]]]
<1>1. SpecGaps(doc, repo, answers) = {} /\ seeded.stories = stories
  <2>1. SpecCheck({doc}, repo, answers) = 0
    BY DEF Seed
  <2>2. SpecGaps(doc, repo, answers) = {}
    BY <2>1 DEF SpecCheck
  <2>4. seeded = [code |-> 0, stories |-> stories]
    <3>1. seeded = IF SpecCheck({doc}, repo, answers) # 0 THEN [code |-> SpecCheck({doc}, repo, answers), stories |-> <<>>]
                   ELSE IF ~later.readable THEN [code |-> 2, stories |-> <<>>]
                   ELSE IF list = <<>> THEN [code |-> 1, stories |-> <<>>]
                   ELSE IF epicThere THEN [code |-> 2, stories |-> <<>>]
                   ELSE [code |-> 0, stories |-> stories]
      BY DEF Seed
    <3>2. seeded.code = 0
      OBVIOUS
    <3> HIDE DEF seeded, stories, list
    <3> QED BY <2>1, <3>1, <3>2
  <2> HIDE DEF seeded, stories
  <2> QED BY <2>2, <2>4
<1>0. lines = Section(doc, "Acceptance criteria")
  BY DEF Section
<1>2. TextOf(lines)
  BY <1>0, SectionsAreTexts
<1>3. /\ list \in Seq(CriteriaOf(L)) /\ k \in Nat /\ DOMAIN list = 1 .. k
      /\ \A n \in 1 .. k : list[n].words # <<>> /\ Len(list[n].words) <= Len(lines) /\ list[n].words \in Seq(WordsOf(L))
  <2> HIDE DEF lines
  <2>1. PICK s \in CriteriaKnown(L) : s.list = list /\ Gone(lines, s, Len(lines))
    BY <1>2, CriteriaAreSeen
  <2>2. list \in Seq(CriteriaOf(L))
    BY <2>1 DEF CriteriaKnown
  <2>3. \A n \in DOMAIN list : list[n].words # <<>> /\ Len(list[n].words) <= Len(lines)
    BY <2>1 DEF Gone
  <2> HIDE DEF list, L
  <2>4. k \in Nat /\ DOMAIN list = 1 .. k /\ \A n \in 1 .. k : list[n] \in CriteriaOf(L)
    BY <2>2
  <2>5. \A n \in 1 .. k : list[n].words \in Seq(WordsOf(L))
    BY <2>4 DEF CriteriaOf
  <2> QED BY <2>2, <2>3, <2>4, <2>5
<1>4. \A n \in 1 .. k : slugs[list[n].words] \in Seq(S)
  <2>1. \A words \in Seq(WordsOf(L)) : words # <<>> /\ Len(words) <= Len(lines) => slugs[words] \in Seq(S)
    BY <1>0 DEF SpecRead
  <2> HIDE DEF lines, L, list
  <2> QED BY <1>3, <2>1
<1> HIDE DEF lines, L, list
<1>5. wanted \in Seq(Seq(S)) /\ Len(wanted) = k
  BY <1>3, <1>4
<1> HIDE DEF wanted
<1>6. names \in Seq(Seq(S)) /\ Apart(names) /\ Len(names) = k
  BY <1>5, NamesAreApart DEF NamesKnown
<1> HIDE DEF names
<1>7. DOMAIN names = 1 .. k
  BY <1>6
<1>8. DOMAIN stories = 1 .. k /\ Len(stories) = k /\ \A n \in 1 .. k : stories[n].file = names[n] /\ stories[n].criterion = list[n]
  BY <1>3
<1> HIDE DEF stories, seeded
<1>9. StoriesTell(seeded, list)
  <2>1. \A n, m \in 1 .. k : names[n] = names[m] => n = m
    BY <1>6, <1>7 DEF Apart
  <2>2. \A n, m \in 1 .. k : stories[n].file = stories[m].file => n = m
    BY <1>8, <2>1
  <2>3. seeded.stories = stories
    BY <1>1
  <2> QED BY <1>8, <2>2, <2>3 DEF StoriesTell
<1>10. list = Criteria(Section(doc, "Acceptance criteria"))
  BY <1>0 DEF list
<1> QED BY <1>1, <1>9, <1>10 DEF seeded

\* As many as they are when no two are the same.
LEMMA ApartAreAsMany ==
  ASSUME NEW k \in Nat, NEW f, DOMAIN f = 1 .. k, Apart(f)
  PROVE  Cardinality({f[n] : n \in 1 .. k}) = k
<1> DEFINE T == {f[n] : n \in 1 .. k}
           g == [n \in 1 .. k |-> f[n]]
<1>1. g \in Surjection(1 .. k, T) /\ g \in Injection(1 .. k, T)
  BY DEF Surjection, Injection, IsInjective, Apart
<1>2. IsFiniteSet(1 .. k) /\ Cardinality(1 .. k) = k
  <2>1. 1 \in Int /\ k \in Int
    OBVIOUS
  <2>2. IsFiniteSet(1 .. k) /\ Cardinality(1 .. k) = IF 1 > k THEN 0 ELSE k - 1 + 1
    BY <2>1, FS_Interval
  <2> QED BY <2>2
<1> HIDE DEF g
<1>3. Cardinality(T) = Cardinality(1 .. k)
  <2> HIDE DEF T
  <2> QED BY <1>1, <1>2, FS_Surjection
<1> QED BY <1>2, <1>3

\* backlog seed, for any spec.
THEOREM SeededIsHeld ==
  ASSUME NEW doc, NEW later, NEW repo, NEW answers, NEW epicThere, NEW slugs, NEW S, Nat \subseteq S,
         SpecRead(doc, slugs, S), later.sections = doc.sections
  PROVE  SeededIsFinished(doc, answers, Seed(doc, later, repo, answers, epicThere, slugs))
<1> DEFINE scope == Section(doc, "In scope")
           lines == Section(doc, "Acceptance criteria")
           L == StripComments(lines)
           questions == Section(doc, "Open questions")
           list == Criteria(lines)
           seeded == Seed(doc, later, repo, answers, epicThere, slugs)
           k == Len(list)
           told == {seeded.stories[n].criterion : n \in DOMAIN seeded.stories}
           InCriteria(id) == \A j \in Content(lines) : id \in lines[j].ids => \E i \in Seen(lines) : j \in Under(lines, i)
<1> SUFFICES ASSUME seeded.code = 0
    PROVE /\ Len(seeded.stories) = Cardinality(Seen(lines))
          /\ Cardinality({seeded.stories[n].file : n \in DOMAIN seeded.stories}) = Len(seeded.stories)
          /\ \A i \in Content(questions) : answers.readable /\ \E q \in answers.settled : questions[i].word \in ToSet(q)
          /\ \A id \in IdsIn(StripComments(scope)) : InCriteria(id) => \E c \in told : id \in c.ids
          /\ IdsIn(StripComments(scope)) # {} \/ IdsIn(scope) # {}
          /\ doc.status # "complete" /\ (\A i \in DOMAIN lines : ~lines[i].comment) =>
               \A c \in told : c.marks \cap {"run", "test"} # {} /\ c.marks \cap {"fails if", "test"} # {}
  BY DEF SeededIsFinished
<1>1. /\ SpecGaps(doc, repo, answers) = {}
      /\ Len(seeded.stories) = k /\ DOMAIN seeded.stories = 1 .. k
      /\ \A n \in 1 .. k : seeded.stories[n].criterion = list[n]
      /\ \A n, m \in 1 .. k : seeded.stories[n].file = seeded.stories[m].file => n = m
  <2>1. SpecGaps(doc, repo, answers) = {} /\ StoriesTell(seeded, list)
    BY StoriesAreCriteria
  <2> HIDE DEF seeded, list
  <2> QED BY <2>1 DEF StoriesTell
<1>2. TextOf(scope) /\ TextOf(lines) /\ TextOf(questions)
  BY SectionsAreTexts
<1>3. /\ IdsIn(scope) # {} /\ IdsIn(scope) \subseteq IdsIn(L)
      /\ \A q \in ToSet(OpenQuestions(questions)) : answers.readable /\ q \in answers.settled
      /\ doc.status # "complete" => TruthGaps(doc, repo) = {}
  BY ZenonT(40), <1>1, WithoutGaps
<1>b. \A i \in DOMAIN lines : lines[i].kind = "blank" => lines[i].ids = {}
  BY DEF SpecRead
<1>t. \A i \in DOMAIN lines : ~lines[i].comment /\ doc.status # "complete" /\ lines[i].kind = "box" =>
        MarksOf(lines, i) \cap {"run", "test"} # {} /\ MarksOf(lines, i) \cap {"fails if", "test"} # {}
  BY <1>3, CriteriaAreChecked DEF Bracketed
<1> HIDE DEF lines, scope, questions, seeded
<1>4. PICK s \in CriteriaKnown(L) : s.list = list /\ Gone(lines, s, Len(lines))
  BY <1>2, CriteriaAreSeen
<1>5. k \in Nat /\ DOMAIN list = 1 .. k
  <2>1. list \in Seq(CriteriaOf(L))
    BY <1>4 DEF CriteriaKnown
  <2> HIDE DEF list, L
  <2> QED BY <2>1
<1> HIDE DEF list
<1>6. told = {list[n] : n \in 1 .. k}
  BY <1>1
<1>7. /\ Len(lines) \in Nat /\ DOMAIN L = 1 .. Len(lines) /\ DOMAIN lines = 1 .. Len(lines)
      /\ \A i \in DOMAIN lines : /\ L[i].kind # "blank" => L[i] = lines[i]
                                 /\ lines[i].comment => L[i] = Blank
                                 /\ ~lines[i].comment => L[i] = lines[i]
  BY <1>2, StrippedIsText
<1>8. SeenBy(lines, Len(lines)) = Seen(lines) /\ \A i \in Seen(lines) : i \in DOMAIN lines
  <2>1. \A i \in Seen(lines) : i \in 1 .. Len(lines)
    BY <1>7 DEF Seen, Content
  <2> QED BY <1>7, <2>1 DEF SeenBy
<1>9. /\ k = Cardinality(Seen(lines))
      /\ \A i \in Seen(lines) : \A j \in Under(lines, i) : \E c \in told : L[j].ids \subseteq c.ids
      /\ \A c \in told : \E i \in Seen(lines) : \A j \in Wrapped(L, i) : L[j].marks \subseteq c.marks
  <2>1. \A i : \A j \in Under(lines, i) \cup Wrapped(L, i) : j <= Len(lines)
    BY <1>7 DEF Under, Wrapped
  <2>2. \A i \in Seen(lines) : \A j \in Under(lines, i) : \E n \in 1 .. k : L[j].ids \subseteq list[n].ids
    BY <1>4, <1>5, <1>8, <2>1 DEF Gone
  <2>3. \A n \in 1 .. k : \E i \in Seen(lines) : \A j \in Wrapped(L, i) : L[j].marks \subseteq list[n].marks
    BY <1>4, <1>5, <1>8, <2>1 DEF Gone
  <2> HIDE DEF told, L
  <2> QED BY <1>4, <1>6, <1>8, <2>2, <2>3 DEF Gone
<1>10. Cardinality({seeded.stories[n].file : n \in DOMAIN seeded.stories}) = Len(seeded.stories)
  <2> DEFINE f == [n \in 1 .. k |-> seeded.stories[n].file]
  <2>1. \A n \in 1 .. k : f[n] = seeded.stories[n].file
    OBVIOUS
  <2>2. {seeded.stories[n].file : n \in DOMAIN seeded.stories} = {f[n] : n \in 1 .. k}
    BY <1>1, <2>1
  <2>3. Apart(f) /\ DOMAIN f = 1 .. k
    BY <1>1, <2>1 DEF Apart
  <2> HIDE DEF f, k
  <2>4. Cardinality({f[n] : n \in 1 .. k}) = k
    BY <1>5, <2>3, ApartAreAsMany
  <2> QED BY <1>1, <2>2, <2>4
<1>11. ASSUME NEW i \in Content(questions)
       PROVE  answers.readable /\ \E q \in answers.settled : questions[i].word \in ToSet(q)
  <2>1. PICK q \in ToSet(OpenQuestions(questions)) : questions[i].word \in ToSet(q)
    BY <1>2, QuestionsAreAsked
  <2> QED BY <1>3, <2>1
<1>12. ASSUME NEW id \in IdsIn(StripComments(scope)), InCriteria(id)
       PROVE  \E c \in told : id \in c.ids
  <2>1. id \in IdsIn(scope)
    <3>1. PICK i \in DOMAIN scope : id \in (IF scope[i].comment THEN Blank ELSE scope[i]).ids
      BY DEF IdsIn, StripComments
    <3>2. Blank.ids = {}
      BY DEF Blank
    <3> QED BY <3>1, <3>2 DEF IdsIn
  <2>2. PICK j \in DOMAIN lines : id \in L[j].ids
    BY <1>3, <1>7, <2>1 DEF IdsIn
  <2>3. L[j].kind # "blank"
    <3>1. Blank.ids = {}
      BY DEF Blank
    <3> QED BY <1>b, <1>7, <2>2, <3>1
  <2>4. j \in Content(lines) /\ L[j] = lines[j]
    BY <1>7, <2>3 DEF Content
  <2>5. PICK i \in Seen(lines) : j \in Under(lines, i)
    BY <1>12, <2>2, <2>4
  <2> HIDE DEF told
  <2> QED BY <1>9, <2>2, <2>5
<1>13. ASSUME doc.status # "complete", \A i \in DOMAIN lines : ~lines[i].comment, NEW c \in told
       PROVE  c.marks \cap {"run", "test"} # {} /\ c.marks \cap {"fails if", "test"} # {}
  <2> HIDE DEF told
  <2>1. PICK i \in Seen(lines) : \A j \in Wrapped(L, i) : L[j].marks \subseteq c.marks
    BY <1>9
  <2>2. \A j \in Wrapped(lines, i) : j \in Wrapped(L, i) /\ L[j].marks = lines[j].marks
    <3>1. \A j \in DOMAIN lines : L[j] = lines[j]
      BY <1>7, <1>13
    <3>2. i \in 1 .. Len(lines) /\ \A j \in 1 .. Len(lines) : \A m \in i + 1 .. j : m \in 1 .. Len(lines)
      BY <1>7, <1>8
    <3> HIDE DEF L
    <3> QED BY <1>7, <3>1, <3>2 DEF Wrapped
  <2>3. MarksOf(lines, i) \subseteq c.marks
    BY <2>1, <2>2 DEF MarksOf
  <2>4. i \in DOMAIN lines /\ lines[i].kind = "box"
    BY <1>8 DEF Seen
  <2> QED BY <1>t, <1>13, <2>3, <2>4
<1> QED BY <1>1, <1>3, <1>9, <1>10, <1>11, <1>12, <1>13

\* spec.Check, for any spec.
THEOREM ClaimsAreHeld ==
  ASSUME NEW doc, NEW repo, NEW answers
  PROVE  ClaimsAreThere(doc, repo, SpecGaps(doc, repo, answers))
<1> SUFFICES ASSUME NEW s \in ClaimSections, NEW i \in Content(Section(doc, s)), Section(doc, s)[i].kind # "code",
                    SpecGaps(doc, repo, answers) = {}, doc.status # "complete", NEW c \in Section(doc, s)[i].cites
             PROVE  c \in repo \/ (c[1] = "command" /\ \E l \in ToSet(Section(doc, "Interfaces")) : c \in l.cites)
  BY DEF ClaimsAreThere
<1> DEFINE cited == UNION {line.cites : line \in UNION {ToSet(StripFences(Section(doc, x))) : x \in ClaimSections}}
<1>1. UnresolvedCitations(doc, repo) = {}
  BY WithoutGaps DEF TruthGaps
<1>2. c \in cited
  <2>1. i \in DOMAIN Section(doc, s)
    BY DEF Content
  <2>2. StripFences(Section(doc, s))[i] = Section(doc, s)[i] /\ i \in DOMAIN StripFences(Section(doc, s))
    BY <2>1 DEF StripFences
  <2>3. Section(doc, s)[i] \in ToSet(StripFences(Section(doc, s)))
    BY <2>2 DEF ToSet
  <2> QED BY <2>3
<1>3. \A x \in cited \ (repo \cup DeclaredCommands(doc)) : <<"cites", x[2]>> \in UnresolvedCitations(doc, repo)
  BY DEF UnresolvedCitations
<1> HIDE DEF cited
<1>4. c \in repo \cup DeclaredCommands(doc)
  BY <1>1, <1>2, <1>3
<1> QED BY <1>4 DEF DeclaredCommands

\* UpTo: texts of at most n of these lines.
LEMMA UpToIsText ==
  ASSUME NEW n \in Nat, NEW X, NEW f \in UpTo(n, X)
  PROVE  TextOf(f) /\ f \in Seq(X) /\ Len(f) \in 0 .. n /\ \A i \in DOMAIN f : f[i] \in X
<1>1. PICK k \in 0 .. n : f \in [1 .. k -> X]
  BY DEF UpTo
<1>2. k \in Nat
  OBVIOUS
<1> QED BY <1>1, <1>2, FunctionsAreTexts

\* The kinds of the lines of a run.
LEMMA LineKinds ==
  /\ Line("fence").kind = "fence" /\ Line("mermaid").kind = "mermaid"
  /\ \A l \in Links : l.kind = "link" /\ l.absolute \in BOOLEAN /\ l.target # <<>>
<1>1. \A k : Line(k).kind = k
  BY DEF Line
<1>2. ASSUME NEW absolute \in BOOLEAN, NEW target \in {<<"to">>, <<"d", "to">>, <<"gone">>}, NEW anchor, NEW copy
      PROVE  /\ LinkTo(absolute, target, anchor, copy).kind = "link" /\ LinkTo(absolute, target, anchor, copy).absolute \in BOOLEAN
             /\ LinkTo(absolute, target, anchor, copy).target # <<>>
  <2>1. target # <<>>
    OBVIOUS
  <2>2. /\ LinkTo(absolute, target, anchor, copy).kind = "link" /\ LinkTo(absolute, target, anchor, copy).absolute = absolute
        /\ LinkTo(absolute, target, anchor, copy).target = target
    BY DEF LinkTo, Line
  <2> QED BY <2>1, <2>2
<1>3. \A l \in Links : l.kind = "link" /\ l.absolute \in BOOLEAN /\ l.target # <<>>
  <2> SUFFICES ASSUME NEW l \in Links PROVE l.kind = "link" /\ l.absolute \in BOOLEAN /\ l.target # <<>>
    OBVIOUS
  <2> DEFINE targets == {<<"to">>, <<"d", "to">>, <<"gone">>}
             anchors == {"none", "a-b", "a--b", "c"}
  <2>1. l \in {LinkTo(absolute, target, anchor, copy) : absolute \in BOOLEAN, target \in targets, anchor \in anchors, copy \in 0 .. 2}
    BY DEF Links
  <2>2. \A target \in targets : target \in {<<"to">>, <<"d", "to">>, <<"gone">>}
    OBVIOUS
  <2> HIDE DEF targets, anchors
  <2>3. PICK absolute \in BOOLEAN, target \in targets, anchor \in anchors, copy \in 0 .. 2 : l = LinkTo(absolute, target, anchor, copy)
    BY <2>1
  <2> QED BY <1>2, <2>2, <2>3
<1> QED BY <1>1, <1>3

\* The pages with a link are texts, and their links lead somewhere.
LEMMA WithLinksAreTexts ==
  ASSUME NEW from \in WithLinks
  PROVE  TextOf(from) /\ \A n \in DOMAIN from : from[n].kind = "link" => from[n].target # <<>> /\ from[n].absolute \in BOOLEAN
<1>1. PICK before \in {<<>>, <<Line("fence")>>, <<Line("mermaid"), Line("fence")>>}, link \in Links : from = before \o <<link>>
  BY SMTT(30) DEF WithLinks
<1> DEFINE X == {Line("fence"), Line("mermaid"), link}
<1>2. Line("fence") \in X /\ Line("mermaid") \in X /\ link \in X
  OBVIOUS
<1>3. \A l \in X : l.kind = "link" => l.target # <<>> /\ l.absolute \in BOOLEAN
  BY LineKinds
<1> HIDE DEF X
<1>4. <<>> \in Seq(X) /\ <<Line("fence")>> \in Seq(X) /\ <<Line("mermaid"), Line("fence")>> \in Seq(X) /\ <<link>> \in Seq(X)
  BY <1>2
<1>5. before \in Seq(X)
  BY <1>1, <1>4
<1>6. from \in Seq(X)
  BY <1>1, <1>4, <1>5
<1>7. \A n \in DOMAIN from : from[n] \in X
  BY <1>6
<1> QED BY <1>3, <1>6, <1>7 DEF TextOf

\* docs.RelativeRefs, of the pages of a run.
LEMMA LinksAsGiven ==
  ASSUME NEW i \in LinkInputs
  PROVE  LinksHold(i, <<"d", "from">>, RelativeRefs(i, <<"d", "from">>))
<1> DEFINE page == <<"d", "from">>
           tos == UNION {[1 .. n -> Targets] : n \in 0 .. 3}
<1>1. i.bundles \in SUBSET {<<"d">>} /\ i.pages \in {Pages(from, to) : from \in WithLinks, to \in tos}
  BY DEF LinkInputs
<1>2. PICK from \in WithLinks, to \in tos : i.pages = Pages(from, to)
  <2> HIDE DEF tos
  <2> QED BY <1>1
<1>3. /\ DOMAIN i.pages = {<<"d", "from">>, <<"to">>, <<"d", "to">>} /\ i.pages[<<"d", "from">>] = from
      /\ i.pages[<<"to">>] = <<Heading("a-b", "a-b")>> /\ i.pages[<<"d", "to">>] = to
  <2>1. <<"d", "from">> # <<"d", "to">> /\ <<"to">> # <<"d", "to">> /\ <<"to">> # <<"d", "from">>
    OBVIOUS
  <2> QED BY <1>2, <2>1 DEF Pages
<1>4. Front(page) = <<"d">>
  <2>1. Len(page) = 2 /\ page[1] = "d"
    OBVIOUS
  <2>2. Front(page) = [n \in 1 .. 1 |-> page[n]]
    BY <2>1 DEF Front
  <2> QED BY <2>1, <2>2
<1>5. TextOf(to)
  <2>1. to \in UpTo(3, Targets)
    BY DEF UpTo
  <2> QED BY <2>1, UpToIsText
<1>6. TextOf(<<Heading("a-b", "a-b")>>)
  BY DEF TextOf
<1>7. TextOf(from) /\ \A n \in DOMAIN from : from[n].kind = "link" => from[n].target # <<>> /\ from[n].absolute \in BOOLEAN
  BY WithLinksAreTexts
<1>8. PageOf(i, page)
  <2>1. page # <<>> /\ page \in Seq({"d", "from"})
    OBVIOUS
  <2>2. \A p \in DOMAIN i.pages : TextOf(i.pages[p])
    BY <1>3, <1>5, <1>6, <1>7
  <2>3. i.pages[page] = from /\ page \in DOMAIN i.pages
    BY <1>3
  <2> HIDE DEF page
  <2> QED BY <1>1, <1>4, <1>7, <2>1, <2>2, <2>3 DEF PageOf
<1> QED BY <1>8, LinksAreFollowed

\* docs.MermaidBlocks, of the pages of a run.
LEMMA DiagramsAsGiven ==
  ASSUME NEW i \in DiagramInputs, Blocks(i.lines) # {}, ~i.installed \/ i.end # "ok"
  PROVE  \E f \in MermaidBlocks("page", i.lines, i.installed, [n \in DOMAIN i.lines |-> i.end]) : f.blocking
<1> DEFINE X == {Line("mermaid"), Line("fence"), Line("text")}
           ends == [n \in DOMAIN i.lines |-> i.end]
<1>1. i.lines \in UNION {[1 .. n -> X] : n \in 0 .. 5}
  BY DEF DiagramInputs
<1>2. i.lines \in UpTo(5, X)
  BY <1>1 DEF UpTo
<1>3. TextOf(i.lines)
  <2> HIDE DEF X
  <2> QED BY <1>2, UpToIsText
<1>4. ~i.installed \/ \A n \in DOMAIN i.lines : ends[n] # "ok"
  OBVIOUS
<1> HIDE DEF ends
<1>5. \E f \in MermaidBlocks("page", i.lines, i.installed, ends) : f.blocking
  BY <1>3, <1>4, DiagramsAreCompiled
<1> QED BY <1>5 DEF ends

\* docs.ExternalLinks, of the links of a run.
LEMMA OutsideAsGiven ==
  ASSUME NEW i \in OutsideInputs
  PROVE  OutsideHolds(i.installed, i, ExternalLinks({"page"}, i.installed, i))
<1> DEFINE pages == {"page"}
<1>1. i.end \in {"ok", "bad", "late"} /\ pages # {}
  BY DEF OutsideInputs
<1> HIDE DEF pages
<1>2. OutsideHolds(i.installed, i, ExternalLinks(pages, i.installed, i))
  BY <1>1, OutsideIsFollowed
<1> QED BY <1>2 DEF pages

\* docs.Obligation, of the changes of a run.
LEMMA ObligationsAsGiven ==
  ASSUME NEW i \in ObligationInputs
  PROVE  OwedUntilAnswered(i.repo, i.changed, i.message, i.block, Obligation(i.repo, i.changed, i.message, i.block))
<1>1. i.changed \in ChangeInputs
  BY DEF ObligationInputs
<1>2. \A f \in Sources \cup Others \cup ChangedPages : f.name # "obligation" /\ f.there \in BOOLEAN
  <2>1. \A f \in Sources : f.name # "obligation" /\ f.there \in BOOLEAN
    BY DEF Sources
  <2>2. \A f \in Others : f.name # "obligation" /\ f.there \in BOOLEAN
    BY DEF Others
  <2>3. \A f \in ChangedPages : f.name # "obligation" /\ f.there \in BOOLEAN
    BY DEF ChangedPages
  <2> QED BY <2>1, <2>2, <2>3
<1>3. \A f \in i.changed : f.name # "obligation" /\ f.there \in BOOLEAN
  BY <1>1, <1>2 DEF ChangeInputs
<1> QED BY <1>3, ChangesAreOwed

\* plan.Check, of the plans of a run.
LEMMA PlansAsGiven ==
  ASSUME NEW i \in PlanInputs
  PROVE  TasksAreWhole(i)
<1>1. i.lines \in UpTo(6, PlanLines)
  BY DEF PlanInputs
<1>2. TextOf(i.lines)
  BY <1>1, UpToIsText
<1> QED BY <1>2, TasksHaveAll

SomeWords == {"a", "a-2", "b", "c"}
SlugParts == SomeWords \cup Nat

\* A line that says a word, or says nothing.
Wordy(l) == /\ l.kind # "blank" /\ l.word \in SomeWords
            /\ {"kind", "word", "ids", "marks", "says", "comment"} \subseteq DOMAIN l

\* What is written on a line leaves it its word.
LEMMA LinesAreWordy ==
  /\ \A kind, word : kind # "blank" /\ word \in SomeWords => Wordy(Text(kind, word))
  /\ \A l, ids, marks : Wordy(l) => Wordy(Marked(l, ids, marks))
  /\ \A l, says : Wordy(l) => Wordy(Says(l, says))
  /\ \A l : Wordy(l) => Wordy(Comment(l))
<1>1. \A kind, word : kind # "blank" /\ word \in SomeWords => Wordy(Text(kind, word))
  BY DEF Text, Blank, Wordy
<1>2. \A l, ids, marks : Wordy(l) => Wordy(Marked(l, ids, marks))
  <2> SUFFICES ASSUME NEW l, NEW ids, NEW marks, Wordy(l)
               PROVE  Wordy(Marked(l, ids, marks))
    OBVIOUS
  <2> DEFINE m == Marked(l, ids, marks)
  <2>1. DOMAIN m = DOMAIN l /\ m["kind"] = l["kind"] /\ m["word"] = l["word"]
    BY DEF Marked, Wordy
  <2> HIDE DEF m
  <2> QED BY <2>1 DEF Wordy, m
<1>3. \A l, says : Wordy(l) => Wordy(Says(l, says))
  BY DEF Says, Wordy
<1>4. \A l : Wordy(l) => Wordy(Comment(l))
  BY DEF Comment, Wordy
<1> QED BY <1>1, <1>2, <1>3, <1>4

\* The criteria of a run are blank or say one of these words.
LEMMA CriterionWords ==
  \A l \in CriterionLines \cup {Tested} : (l.kind = "blank" => l.ids = {}) /\ (l.kind # "blank" => l.word \in SomeWords)
<1>1. Blank.kind = "blank" /\ Blank.ids = {}
  BY DEF Blank
<1>2. /\ Wordy(Text("box", "a")) /\ Wordy(Text("box", "a-2")) /\ Wordy(Text("box", "b"))
      /\ Wordy(Text("more", "c")) /\ Wordy(Text("text", "c"))
  BY LinesAreWordy DEF SomeWords
<1>3. /\ \A word \in {"a", "a-2"} : Wordy(Marked(Text("box", word), {"S-1"}, {"test"}))
      /\ Wordy(Says(Marked(Text("box", "b"), {"S-2"}, {}), "...")) /\ Wordy(Says(Text("box", "b"), "vague"))
      /\ Wordy(Comment(Marked(Text("box", "b"), {"S-2"}, {"test"})))
      /\ Wordy(Marked(Text("more", "c"), {"S-2"}, {"run", "fails if"}))
      /\ Wordy(Comment(Marked(Text("more", "c"), {}, {"test"}))) /\ Wordy(Marked(Text("text", "c"), {"S-2"}, {"run"}))
  BY <1>2, LinesAreWordy, Zenon
<1>4. Wordy(Tested)
  BY <1>2, LinesAreWordy, Zenon DEF Tested
<1>5. \A l \in CriterionLines \cup {Tested} : l = Blank \/ Wordy(l)
  BY <1>2, <1>3, <1>4, Zenon DEF CriterionLines
<1> QED BY <1>1, <1>5 DEF Wordy

\* A sequence over some values is one over more of them.
LEMMA MoreSeqs ==
  ASSUME NEW X, NEW Y, X \subseteq Y, NEW words \in Seq(X)
  PROVE  /\ words \in Seq(Y) /\ Len(words) \in Nat /\ words \in [1 .. Len(words) -> Y]
         /\ words # <<>> => Len(words) # 0
<1>1. words \in Seq(Y)
  OBVIOUS
<1>2. Len(words) \in Nat /\ words \in [1 .. Len(words) -> Y]
  BY <1>1
<1>3. words # <<>> => Len(words) # 0
  BY <1>1, EmptySeq
<1> QED BY <1>1, <1>2, <1>3

\* The slugs of a run are of all words that its criteria say.
LEMMA SlugsOfWords ==
  ASSUME NEW words \in Seq(SomeWords), words # <<>>, Len(words) <= 3
  PROVE  Slugs[words] \in Seq(SlugParts)
<1>1. words \in UpTo(3, SomeWords) \ {<<>>} /\ words[1] \in SomeWords
  <2> HIDE DEF SomeWords
  <2>1. Len(words) \in Nat /\ words \in [1 .. Len(words) -> SomeWords] /\ Len(words) # 0
    BY MoreSeqs
  <2>2. Len(words) \in 0 .. 3 /\ words[1] \in SomeWords
    BY <2>1
  <2> QED BY <2>1, <2>2 DEF UpTo
<1>2. Slugs[words] = IF words[1] = "a-2" THEN <<"a", 2>> ELSE <<words[1]>>
  BY <1>1 DEF Slugs, SomeWords
<1>3. \A x \in SlugParts : \A y \in SlugParts : <<x, y>> \in Seq(SlugParts) /\ <<x>> \in Seq(SlugParts)
  OBVIOUS
<1>4. "a" \in SlugParts /\ 2 \in SlugParts /\ words[1] \in SlugParts
  BY <1>1 DEF SlugParts, SomeWords
<1> QED BY <1>2, <1>3, <1>4

\* Three lines, or fewer.
LEMMA AtMostThree == \A x \in 0 .. 3 : x \in Nat /\ x <= 3 /\ \A y \in Nat : y <= x => y <= 3
OBVIOUS

\* A spec of few criteria has slugs for all of them.
LEMMA SpecIsRead ==
  ASSUME NEW doc, \A s \in DOMAIN doc.sections : TextOf(doc.sections[s]),
         Section(doc, "Acceptance criteria") \in UpTo(3, CriterionLines \cup {Tested})
  PROVE  SpecRead(doc, Slugs, SlugParts)
<1> DEFINE criteria == Section(doc, "Acceptance criteria")
           L == StripComments(criteria)
<1>1. TextOf(criteria) /\ Len(criteria) \in 0 .. 3 /\ \A i \in DOMAIN criteria : criteria[i] \in CriterionLines \cup {Tested}
  BY UpToIsText
<1> HIDE DEF criteria
<1>2. WordsOf(L) \subseteq SomeWords
  <2>1. \A i \in DOMAIN L : i \in DOMAIN criteria /\ (L[i].kind # "blank" => L[i] = criteria[i])
    BY <1>1, StrippedIsText
  <2> HIDE DEF L
  <2> QED BY <1>1, <2>1, CriterionWords DEF WordsOf
<1> DEFINE X == WordsOf(L)
           N == Len(criteria)
<1>5. N \in Nat /\ N <= 3 /\ X \subseteq SomeWords
  BY <1>1, <1>2, AtMostThree, Zenon
<1>6. \A y \in Nat : y <= N => y <= 3
  BY <1>1, AtMostThree, Zenon
<1> HIDE DEF X, N
<1>3. ASSUME NEW words \in Seq(X), words # <<>>, Len(words) <= N
      PROVE  Slugs[words] \in Seq(SlugParts)
  <2>1. Len(words) \in Nat
    BY MoreSeqs
  <2>2. Len(words) <= 3
    BY <1>3, <1>6, <2>1, Zenon
  <2>3. words \in Seq(SomeWords)
    BY <1>5, MoreSeqs
  <2> QED BY <1>3, <2>2, <2>3, SlugsOfWords
<1>4. \A i \in DOMAIN criteria : criteria[i].kind = "blank" => criteria[i].ids = {}
  BY <1>1, CriterionWords
<1> QED BY <1>3, <1>4 DEF SpecRead, criteria, X, N

\* The sections of a spec of a run.
LEMMA SpecSections ==
  ASSUME NEW status, NEW scope, NEW interfaces, NEW criteria, NEW questions, NEW doc,
         doc = Spec(status, scope, interfaces, criteria, questions)
  PROVE  /\ DOMAIN doc.sections = Sections /\ Section(doc, "Acceptance criteria") = criteria
         /\ \A s \in Sections : doc.sections[s] \in {scope, interfaces, criteria, questions}
<1>1. "Acceptance criteria" \in Sections /\ "Acceptance criteria" # "In scope" /\ "Acceptance criteria" # "Interfaces"
  BY DEF Sections
<1> QED BY <1>1 DEF Spec, Section

\* The short sections of a run are texts.
LEMMA FewLines ==
  /\ \A x : TextOf(<<x>>)
  /\ TextOf(<<>>)
  /\ <<Tested>> \in UpTo(3, CriterionLines \cup {Tested}) /\ <<>> \in UpTo(3, CriterionLines \cup {Tested})
  /\ \A c \in UpTo(3, CriterionLines) : c \in UpTo(3, CriterionLines \cup {Tested})
  /\ \A n \in Nat : \A X : \A f \in UpTo(n, X) : TextOf(f)
<1> DEFINE lines == CriterionLines \cup {Tested}
<1>1. \A x : TextOf(<<x>>)
  BY DEF TextOf
<1>2. TextOf(<<>>)
  BY DEF TextOf
<1>3. Tested \in lines /\ CriterionLines \subseteq lines
  OBVIOUS
<1> HIDE DEF lines
<1>4. <<Tested>> \in UpTo(3, lines)
  <2>1. <<Tested>> \in [1 .. 1 -> lines] /\ 1 \in 0 .. 3
    BY <1>3
  <2> QED BY <2>1 DEF UpTo
<1>5. <<>> \in UpTo(3, lines)
  <2>1. <<>> \in [1 .. 0 -> lines] /\ 0 \in 0 .. 3
    OBVIOUS
  <2> QED BY <2>1 DEF UpTo
<1>6. \A c \in UpTo(3, CriterionLines) : c \in UpTo(3, lines)
  <2>1. \A k \in 0 .. 3 : \A c \in [1 .. k -> CriterionLines] : c \in [1 .. k -> lines]
    BY <1>3
  <2> QED BY <2>1 DEF UpTo
<1>7. \A n \in Nat : \A X : \A f \in UpTo(n, X) : TextOf(f)
  BY UpToIsText
<1> QED BY <1>1, <1>2, <1>4, <1>5, <1>6, <1>7 DEF lines

\* A spec of such sections can be read.
LEMMA SpecReads ==
  ASSUME NEW status, NEW scope, NEW interfaces, NEW criteria, NEW questions,
         TextOf(scope), TextOf(interfaces), TextOf(questions), criteria \in UpTo(3, CriterionLines \cup {Tested})
  PROVE  SpecRead(Spec(status, scope, interfaces, criteria, questions), Slugs, SlugParts)
<1> DEFINE doc == Spec(status, scope, interfaces, criteria, questions)
<1>1. TextOf(criteria)
  BY UpToIsText
<1>2. /\ DOMAIN doc.sections = Sections /\ Section(doc, "Acceptance criteria") = criteria
      /\ \A s \in Sections : doc.sections[s] \in {scope, interfaces, criteria, questions}
  BY SpecSections
<1> HIDE DEF doc
<1>3. \A s \in DOMAIN doc.sections : TextOf(doc.sections[s])
  BY <1>1, <1>2
<1>4. SpecRead(doc, Slugs, SlugParts)
  BY <1>2, <1>3, SpecIsRead
<1> QED BY <1>4 DEF doc

\* Every spec of a run can be read.
LEMMA SpecsAreRead ==
  ASSUME NEW doc \in CriterionSpecs \cup CitingSpecs \cup ShortSpecs \cup QuestionSpecs
  PROVE  SpecRead(doc, Slugs, SlugParts)
<1>1. CASE doc \in CriterionSpecs
  <2>1. PICK status \in {"draft", "complete"}, scope \in UpTo(2, ScopeLines), criteria \in UpTo(3, CriterionLines) :
          doc = Spec(status, scope, <<Text("text", "c")>>, criteria, <<>>)
    BY <1>1 DEF CriterionSpecs
  <2>2. TextOf(scope) /\ criteria \in UpTo(3, CriterionLines \cup {Tested})
    BY FewLines
  <2> QED BY <2>1, <2>2, FewLines, SpecReads
<1>2. CASE doc \in QuestionSpecs
  <2>1. PICK questions \in UpTo(3, QuestionLines) : doc = Spec("other", <<Labelled>>, <<Text("text", "c")>>, <<Tested>>, questions)
    BY <1>2 DEF QuestionSpecs
  <2>2. TextOf(questions)
    BY FewLines
  <2> QED BY <2>1, <2>2, FewLines, SpecReads
<1>3. CASE doc \in CitingSpecs
  <2>1. PICK status \in {"draft", "complete", "other"}, claims \in UpTo(2, CitingLines), interfaces \in UpTo(2, CitingLines) :
          doc = Spec(status, <<Labelled>> \o claims, interfaces, <<Tested>>, <<>>)
    BY <1>3 DEF CitingSpecs
  <2>2. TextOf(<<Labelled>> \o claims)
    <3> DEFINE X == CitingLines \cup {Labelled}
               all == <<Labelled>> \o claims
               Y == CitingLines
    <3>1. claims \in Seq(Y) /\ Y \subseteq X /\ Labelled \in X
      BY UpToIsText
    <3> HIDE DEF X, Y
    <3>2. claims \in Seq(X)
      BY <3>1, MoreSeqs
    <3>3. <<Labelled>> \in Seq(X)
      BY <3>1
    <3>4. all \in Seq(X)
      BY <3>2, <3>3
    <3> HIDE DEF all
    <3>5. TextOf(all)
      BY <3>4 DEF TextOf
    <3> QED BY <3>5 DEF all
  <2>3. TextOf(interfaces)
    BY FewLines
  <2> QED BY <2>1, <2>2, <2>3, FewLines, SpecReads
<1>4. CASE doc \in ShortSpecs
  <2> DEFINE whole == Spec("draft", <<Labelled>>, <<>>, <<Tested>>, <<>>)
             labelled == <<Labelled>>
             tested == <<Tested>>
  <2>1. PICK gone \in Sections : doc = Without(whole, gone)
    BY <1>4 DEF ShortSpecs
  <2>2. TextOf(labelled) /\ TextOf(tested) /\ TextOf(<<>>)
        /\ tested \in UpTo(3, CriterionLines \cup {Tested}) /\ <<>> \in UpTo(3, CriterionLines \cup {Tested})
    BY FewLines
  <2>3. /\ DOMAIN whole.sections = Sections /\ Section(whole, "Acceptance criteria") = tested
        /\ \A s \in Sections : whole.sections[s] \in {labelled, <<>>, tested, <<>>}
    BY SpecSections
  <2>4. doc.sections = [s \in Sections \ {gone} |-> whole.sections[s]]
    BY <2>1 DEF Without, Spec
  <2> HIDE DEF whole, labelled, tested
  <2>5. \A s \in DOMAIN doc.sections : TextOf(doc.sections[s])
    BY <2>2, <2>3, <2>4
  <2>6. Section(doc, "Acceptance criteria") \in {tested, <<>>}
    <3>1. "Acceptance criteria" \in Sections
      BY DEF Sections
    <3> QED BY <2>3, <2>4, <3>1 DEF Section
  <2>7. Section(doc, "Acceptance criteria") \in UpTo(3, CriterionLines \cup {Tested})
    BY <2>2, <2>6
  <2> QED BY <2>5, <2>7, SpecIsRead
<1> QED BY <1>1, <1>2, <1>3, <1>4

\* spec.Check and backlog.Seed, of the specs of a run.
LEMMA SpecsAsGiven ==
  ASSUME NEW i \in SpecInputs
  PROVE  /\ SeededIsFinished(i.doc, i.answers,
              Seed(i.doc, [i.doc EXCEPT !.readable = i.later], Repo, i.answers, FALSE, Slugs))
         /\ ClaimsAreThere(i.doc, Repo, SpecGaps(i.doc, Repo, i.answers))
<1> DEFINE later == [i.doc EXCEPT !.readable = i.later]
<1>0. i.doc \in CriterionSpecs \cup CitingSpecs \cup ShortSpecs \cup QuestionSpecs
  BY DEF SpecInputs
<1>1. later.sections = i.doc.sections
  OBVIOUS
<1> HIDE DEF later
<1>2. Nat \subseteq SlugParts
  BY DEF SlugParts
<1>3. SeededIsFinished(i.doc, i.answers, Seed(i.doc, later, Repo, i.answers, FALSE, Slugs))
  <2>1. SpecRead(i.doc, Slugs, SlugParts)
    BY <1>0, SpecsAreRead
  <2> QED BY <1>1, <1>2, <2>1, SeededIsHeld
<1>4. ClaimsAreThere(i.doc, Repo, SpecGaps(i.doc, Repo, i.answers))
  BY ClaimsAreHeld
<1> QED BY <1>3, <1>4 DEF later

\* What occurs in the documents: references, and definitions of no body or one of these.
Occurring(o) ==
  /\ o.line \in Nat /\ o.def \in BOOLEAN
  /\ o.body \in {<<>>, <<1, 6>>, <<2, 4>>}

\* What is referred to and defined in the documents of a run.
LEMMA OccurrencesOccur ==
  /\ \A o \in Referring : Occurring(o) /\ o.body = <<>>
  /\ \A name, kind : \A line \in Nat : \A body \in {<<>>, <<1, 6>>, <<2, 4>>} : Occurring(Def(name, kind, line, body))
  /\ \A name, kind : \A line \in Nat : Occurring(Refer(name, kind, line))
<1>1. \A name, kind : \A line \in Nat : Occurring(Refer(name, kind, line)) /\ Refer(name, kind, line).body = <<>>
  BY DEF Refer, Occurring
<1>2. \A name, kind : \A line \in Nat : \A body \in {<<>>, <<1, 6>>, <<2, 4>>} : Occurring(Def(name, kind, line, body))
  BY DEF Def, Occurring
<1>3. ASSUME NEW o \in Referring
      PROVE  Occurring(o) /\ o.body = <<>>
  <2>1. PICK s \in Symbols, line \in {1, 3, 5, 8} : o = Refer(s[1], s[2], line)
    BY DEF Referring
  <2>2. line \in Nat
    OBVIOUS
  <2> QED BY <1>1, <2>1, <2>2
<1> QED BY <1>1, <1>2, <1>3

\* Of these bodies, of two around a line one holds the other.
LEMMA OccurringIsIndexed ==
  ASSUME NEW d, d.kind \in {"code", "test", "outside"}, NEW X, \A o \in X : Occurring(o), d.occurrences \in Seq(X)
  PROVE  IndexedDocument(d)
<1>1. TextOf(d.occurrences)
  BY DEF TextOf
<1>2. \A o \in ToSet(d.occurrences) : Occurring(o)
  <2>1. \A i \in DOMAIN d.occurrences : d.occurrences[i] \in X
    OBVIOUS
  <2> QED BY <2>1 DEF ToSet
<1>3. \A b \in BodiesOf(d) : b.body \in {<<1, 6>>, <<2, 4>>}
  BY <1>2 DEF BodiesOf, Occurring
<1>4. <<1, 6>>[1] = 1 /\ <<1, 6>>[2] = 6 /\ <<2, 4>>[1] = 2 /\ <<2, 4>>[2] = 4
  OBVIOUS
<1>5. \A b \in BodiesOf(d) : b.body[1] \in {1, 2} /\ b.body[2] \in {4, 6} /\ (b.body[1] = 1 <=> b.body[2] = 6)
  BY <1>3, <1>4
<1>6. \A b, c \in BodiesOf(d) : \/ c.body[1] <= b.body[1] /\ b.body[2] <= c.body[2]
                                \/ b.body[1] <= c.body[1] /\ c.body[2] <= b.body[2]
  BY <1>5
<1>7. \A b \in BodiesOf(d) : b.body[1] \in Nat /\ b.body[2] \in Nat
  BY <1>5
<1>8. \A o \in ToSet(d.occurrences) : o.line \in Nat /\ o.def \in BOOLEAN
  BY <1>2 DEF Occurring
<1> QED BY <1>1, <1>6, <1>7, <1>8 DEF IndexedDocument

\* Every document of a run is one an index can hold.
LEMMA DocumentsAreIndexed ==
  ASSUME NEW most \in Nat, NEW docs \in Documents(most), NEW d \in docs
  PROVE  IndexedDocument(d)
<1> DEFINE X == {o \in {Def(f, "call", 1, <<1, 6>>) : f \in {"f", "main"}}
                         \cup {Def("g", "call", 2, body) : body \in {<<>>, <<2, 4>>, <<1, 6>>}}
                         \cup Referring \cup Elsewhere : Occurring(o)}
<1>1. PICK bodies \in Bodies, refs \in UpTo(most, Referring), kind \in {"code", "test", "outside"}, other \in UpTo(1, Elsewhere) :
        docs = Indexed(bodies, refs, kind, other)
  BY DEF Documents
<1>2. PICK f \in {"f", "main"}, body \in {<<>>, <<2, 4>>, <<1, 6>>} :
        bodies = <<Def(f, "call", 1, <<1, 6>>), Def("g", "call", 2, body)>>
  BY DEF Bodies
<1>3. /\ Occurring(Refer("g", "call", 1)) /\ Occurring(Refer("f", "call", 1)) /\ Occurring(Def("f", "type", 1, <<>>))
      /\ Occurring(Def(f, "call", 1, <<1, 6>>)) /\ Occurring(Def("g", "call", 2, body))
  <2>1. 1 \in Nat /\ 2 \in Nat /\ <<>> \in {<<>>, <<1, 6>>, <<2, 4>>} /\ <<1, 6>> \in {<<>>, <<1, 6>>, <<2, 4>>}
        /\ body \in {<<>>, <<1, 6>>, <<2, 4>>}
    OBVIOUS
  <2> QED BY <2>1, OccurrencesOccur, Zenon
<1>4. /\ Def(f, "call", 1, <<1, 6>>) \in X /\ Def("g", "call", 2, body) \in X
      /\ Referring \subseteq X /\ Elsewhere \subseteq X /\ \A o \in X : Occurring(o)
  BY <1>3, OccurrencesOccur DEF Elsewhere
<1> HIDE DEF X
<1>5. bodies \in Seq(X)
  BY <1>2, <1>4
<1>6. refs \in Seq(X) /\ other \in Seq(X)
  <2>1. refs \in Seq(Referring) /\ other \in Seq(Elsewhere)
    BY UpToIsText
  <2> QED BY <1>4, <2>1, MoreSeqs
<1>7. bodies \o refs \in Seq(X)
  BY <1>5, <1>6
<1>8. \A path, k, os, implements : Document(path, k, os, implements).kind = k /\ Document(path, k, os, implements).occurrences = os
  BY DEF Document
<1>9. d.kind \in {"code", "test", "outside"} /\ d.occurrences \in Seq(X)
  <2> DEFINE all == bodies \o refs
  <2>1. \E implements : d = Document("a", "code", all, implements) \/ d = Document("b", kind, other, implements)
    BY <1>1 DEF Indexed
  <2>2. all \in Seq(X)
    BY <1>7
  <2> HIDE DEF all
  <2> QED BY <1>6, <1>8, <2>1, <2>2
<1> QED BY <1>4, <1>9, OccurringIsIndexed

\* codeindex, of the indexes of a run.
LEMMA QueriesAsGiven ==
  ASSUME NEW i \in QueryInputs
  PROVE  AnswersAreLookedUp(i, i.name,
           [refs |-> Refs(i, i.name), callers |-> Callers(i, i.name), unused |-> Unused(i),
            impls |-> Impls(i, i.name), rename |-> Rename(i, i.name, i.at), impact |-> Impact(i, {"a"}, 1)])
<1>1. i.scip.documents \in Documents(1) \cup Documents(2)
  <2>1. i.scip \in SmallTiers \cup PreciseTiers
    BY DEF QueryInputs
  <2> QED BY <2>1 DEF SmallTiers, PreciseTiers
<1>2. \A d \in i.scip.documents : IndexedDocument(d)
  BY <1>1, DocumentsAreIndexed
<1>3. i.grep.end = "ok" => i.grep.lines # {}
  <2>1. \A end : Grep(end).end = "ok" => Grep(end).lines # {}
    BY DEF Grep
  <2>2. i.grep \in Greps \cup {Grep("one")}
    BY DEF QueryInputs
  <2> QED BY <2>1, <2>2 DEF Greps
<1>4. IsFiniteSet(i.tags.all) /\ \A t \in i.tags.all : t.go \in BOOLEAN
  <2>1. i.tags \in BroadTiers \cup {[state |-> "absent", all |-> {}]}
    BY DEF QueryInputs
  <2>2. i.tags.all \in TwoTags \cup {{}}
    BY <2>1 DEF BroadTiers
  <2>3. IsFiniteSet({}) /\ \A x : IsFiniteSet({} \cup {x})
    BY FS_EmptySet, FS_AddElement
  <2>4. CASE i.tags.all \in TwoTags
    <3>0. PICK go \in BOOLEAN, holds \in BOOLEAN : i.tags.all = Pair(go, holds)
      BY <2>4 DEF TwoTags
    <3>1. i.tags.all = {Tag("a", go, holds), Tag("b", TRUE, TRUE)}
      BY <3>0 DEF Pair
    <3>2. Tag("a", go, holds).go = go /\ Tag("b", TRUE, TRUE).go = TRUE
      BY DEF Tag
    <3> DEFINE one == {Tag("a", go, holds)}
               other == Tag("b", TRUE, TRUE)
    <3>3. IsFiniteSet(one)
      <4>1. one = {} \cup one
        OBVIOUS
      <4> QED BY <2>3, <4>1
    <3> HIDE DEF one, other
    <3>4. IsFiniteSet(one \cup {other})
      BY <3>3, FS_AddElement
    <3>6. i.tags.all = one \cup {other}
      BY <3>1 DEF one, other
    <3> QED BY <3>1, <3>2, <3>4, <3>6
  <2> QED BY <2>2, <2>3, <2>4
<1>5. IndexOf(i)
  BY <1>2, <1>3, <1>4 DEF IndexOf
<1> QED BY <1>5, AnswersAreKnown

-----------------------------------------------------------------------------
(* hook: what an agent is told *)

Sized == [size : Nat, keep : BOOLEAN]
Leakless(seq) == seq \in Seq(Sized) /\ \A i \in DOMAIN seq : ~seq[i].keep
OneLeak(seq) == seq \in Seq(Sized) /\ \A i, j \in DOMAIN seq : seq[i].keep /\ seq[j].keep => i = j

\* Parts of which at most one is to be kept, with some that need not be.
LEMMA KeptOnce ==
  ASSUME NEW s, NEW t, (OneLeak(s) /\ Leakless(t)) \/ (Leakless(s) /\ OneLeak(t))
  PROVE  OneLeak(s \o t) /\ (Leakless(s) /\ Leakless(t) => Leakless(s \o t))
<1> DEFINE n == Len(s)
           m == Len(t)
           u == s \o t
<1>1. s \in Seq(Sized) /\ t \in Seq(Sized)
  BY DEF Leakless, OneLeak
<1>2. /\ n \in Nat /\ m \in Nat /\ DOMAIN s = 1 .. n /\ DOMAIN t = 1 .. m /\ u \in Seq(Sized) /\ DOMAIN u = 1 .. n + m
      /\ \A i \in 1 .. n : u[i] = s[i]
      /\ \A i \in 1 .. n + m : i \notin 1 .. n => u[i] = t[i - n] /\ i - n \in 1 .. m
  BY <1>1
<1> HIDE DEF n, m, u
<1>3. ASSUME NEW i \in 1 .. n + m, u[i].keep
      PROVE  (i \in 1 .. n /\ s[i].keep) \/ (i \notin 1 .. n /\ t[i - n].keep /\ i - n \in 1 .. m)
  BY <1>2, <1>3
<1>4. ASSUME NEW i \in DOMAIN u, NEW j \in DOMAIN u, u[i].keep, u[j].keep PROVE i = j
  <2>1. CASE Leakless(t)
    <3>1. i \in 1 .. n /\ j \in 1 .. n /\ s[i].keep /\ s[j].keep
      BY <1>2, <1>3, <1>4, <2>1 DEF Leakless
    <3> QED BY <1>2, <2>1, <3>1 DEF OneLeak, Leakless
  <2>2. CASE Leakless(s)
    <3>1. /\ i \in 1 .. n + m /\ j \in 1 .. n + m
          /\ t[i - n].keep /\ t[j - n].keep /\ i - n \in 1 .. m /\ j - n \in 1 .. m
      BY <1>2, <1>3, <1>4, <2>2 DEF Leakless
    <3>2. i - n = j - n
      BY <1>2, <2>2, <3>1 DEF OneLeak, Leakless
    <3> QED BY <1>2, <3>1, <3>2
  <2> QED BY <2>1, <2>2
<1>5. OneLeak(u)
  BY <1>2, <1>4 DEF OneLeak
<1>6. Leakless(s) /\ Leakless(t) => Leakless(u)
  BY <1>2, <1>3 DEF Leakless
<1> QED BY <1>5, <1>6 DEF u

\* hook.fit, of the parts of a run.
LEMMA PartsAsGiven ==
  ASSUME NEW i \in FitInputs
  PROVE  FitsAndTells(PartsOf(i.markdown, i.says), i.limit, Fit(PartsOf(i.markdown, i.says), i.limit))
<1> DEFINE says == i.says
           P(name, keep) == IF says[name] = 0 THEN <<>> ELSE <<[size |-> says[name], keep |-> keep]>>
           parts == PartsOf(i.markdown, says)
           A == P("format", FALSE) \o P("workflow", FALSE)
           B == P("drift", FALSE) \o P("secrets", TRUE) \o P("lint", FALSE)
<1>1. says \in [PartNames -> {0, 3, 6}] /\ i.limit \in {5, 11, 20}
  BY DEF FitInputs
<1>2. parts = A \o (IF i.markdown THEN P("docs", FALSE) ELSE B) \o P("ask", FALSE)
  BY DEF PartsOf
<1>3. ASSUME NEW name \in PartNames, NEW keep \in BOOLEAN PROVE OneLeak(P(name, keep)) /\ (~keep => Leakless(P(name, keep)))
  <2>1. CASE says[name] = 0
    <3>1. P(name, keep) = <<>>
      BY <2>1
    <3>2. <<>> \in Seq(Sized) /\ DOMAIN <<>> = {}
      OBVIOUS
    <3> QED BY <3>1, <3>2 DEF OneLeak, Leakless
  <2>2. CASE says[name] # 0
    <3> DEFINE part == [size |-> says[name], keep |-> keep]
    <3>1. P(name, keep) = <<part>>
      BY <2>2
    <3>2. part \in Sized /\ part.keep = keep
      BY <1>1 DEF Sized
    <3> HIDE DEF part
    <3>3. <<part>> \in Seq(Sized) /\ DOMAIN <<part>> = {1} /\ <<part>>[1] = part
      BY <3>2
    <3> QED BY <3>1, <3>2, <3>3 DEF OneLeak, Leakless
  <2> QED BY <2>1, <2>2
<1> HIDE DEF P, says
<1>4. /\ Leakless(P("format", FALSE)) /\ Leakless(P("workflow", FALSE)) /\ Leakless(P("docs", FALSE)) /\ Leakless(P("drift", FALSE))
      /\ OneLeak(P("secrets", TRUE)) /\ Leakless(P("lint", FALSE)) /\ Leakless(P("ask", FALSE))
  BY <1>3 DEF PartNames
<1>5. \A s : Leakless(s) => OneLeak(s)
  BY DEF Leakless, OneLeak
<1>6. Leakless(A)
  BY <1>4, <1>5, KeptOnce
<1>7. OneLeak(B)
  <2>1. OneLeak(P("drift", FALSE) \o P("secrets", TRUE))
    BY <1>4, KeptOnce
  <2> QED BY <1>4, <2>1, KeptOnce
<1> HIDE DEF A, B, parts
<1>8. OneLeak(parts)
  <2>1. CASE i.markdown
    <3>1. Leakless(A \o P("docs", FALSE))
      BY <1>4, <1>5, <1>6, KeptOnce
    <3>2. parts = A \o P("docs", FALSE) \o P("ask", FALSE)
      BY <1>2, <2>1
    <3> QED BY <1>4, <1>5, <3>1, <3>2, KeptOnce
  <2>2. CASE ~i.markdown
    <3>1. OneLeak(A \o B)
      BY <1>6, <1>7, KeptOnce
    <3>2. parts = A \o B \o P("ask", FALSE)
      BY <1>2, <2>2
    <3> QED BY <1>4, <3>1, <3>2, KeptOnce
  <2> QED BY <2>1, <2>2
<1>9. PartsOk(parts) /\ \A k, j \in DOMAIN parts : parts[k].keep /\ parts[j].keep => k = j
  <2>1. \A s \in Seq(Sized) : TextOf(s) /\ \A k \in DOMAIN s : s[k] \in Sized
    BY DEF TextOf
  <2>2. \A p \in Sized : p.size \in Nat
    BY DEF Sized
  <2> QED BY <1>8, <2>1, <2>2 DEF OneLeak, PartsOk
<1> QED BY <1>1, <1>9, ToldFits DEF parts, says

-----------------------------------------------------------------------------
(* hook: the message of a commit *)

\* hook, of the heredocs of a run.
LEMMA MessagesAsGiven ==
  ASSUME NEW i \in HeredocInputs
  PROVE  HeredocIsRead(i.before, i.open, i.body,
           Message([file |-> "msg", messages |-> {}],
             i.before \o <<i.open>> \o i.body \o
               <<[kind |-> "end", delim |-> i.open.delim, into |-> "none", dash |-> FALSE, tabs |-> FALSE]>>,
             <<"on disk">>))
<1> DEFINE last == [kind |-> "end", delim |-> i.open.delim, into |-> "none", dash |-> FALSE, tabs |-> FALSE]
           args == [file |-> "msg", messages |-> {}]
           L == HeredocLines \cup {last}
           Few == UNION {[1 .. n -> HeredocLines] : n \in 0 .. 2}
<1>1. i.before \in Few /\ i.body \in Few /\ i.open \in HeredocLines /\ i.open.kind = "open" /\ i.open.into = "msg"
  BY DEF HeredocInputs
<1>2. ClosedBefore(i.before)
  BY DEF HeredocInputs, ClosedBefore
<1>3. Ends(last, i.open) /\ args.file = "msg"
  BY DEF Ends
<1> HIDE DEF last, args
<1>4. Few \subseteq Seq(L)
  <2>1. HeredocLines \subseteq L
    OBVIOUS
  <2> HIDE DEF L
  <2>2. \A n \in 0 .. 2 : [1 .. n -> HeredocLines] \subseteq Seq(L)
    BY <2>1
  <2> QED BY <2>2
<1>5. i.open \in L /\ last \in L
  BY <1>1
<1> HIDE DEF L, Few
<1>6. HeredocIsRead(i.before, i.open, i.body, Message(args, With(i.before, i.open, i.body, last), <<"on disk">>))
  BY <1>1, <1>2, <1>3, <1>4, <1>5, MessageIsRead
<1> QED BY <1>6 DEF With, last, args

-----------------------------------------------------------------------------
(* hook: the characters of a command *)

\* hook.tokenize, of the quotes of a run.
LEMMA QuotesAsGiven ==
  ASSUME NEW i \in QuoteInputs
  PROVE  QuotesHold(i.inside, Tokenize(Around(i.mark, i.inside)))
<1>1. i.mark \in QuoteMarks /\ i.inside \in UNION {[1 .. n -> Chars] : n \in 0 .. 3}
  BY DEF QuoteInputs
<1>2. Chars \subseteq Inside(Chars, i.mark)
  BY <1>1, MarksDiffer DEF Chars, Inside, QuoteMarks, OtherChars
<1>3. i.inside \in Seq(Inside(Chars, i.mark))
  <2> DEFINE I == Inside(Chars, i.mark)
  <2> HIDE DEF I
  <2>1. \A n \in 0 .. 3 : [1 .. n -> I] \subseteq Seq(I)
    OBVIOUS
  <2>2. \A n \in 0 .. 3 : [1 .. n -> Chars] \subseteq [1 .. n -> I]
    BY <1>2 DEF I
  <2>3. PICK n \in 0 .. 3 : i.inside \in [1 .. n -> Chars]
    BY <1>1
  <2> QED BY <2>1, <2>2, <2>3 DEF I
<1> QED BY <1>1, <1>3, QuotesAreKept

-----------------------------------------------------------------------------
(* hook: the commit in a command *)

\* The words that are given, and what tells them apart.
GivenNames == {"env", "VAR=1", "git", "-C", "d1", "d2", "d3", "-c", "commit", "--no-pager", "status", "-n", "-m", "one",
               "echo", "git commit", "cd"}
GivenWords == {Word(w) : w \in GivenNames} \cup {Quoted(w) : w \in GivenNames} \cup {Operator}

\* A word that is given is no operator.
LEMMA WordsDiffer ==
  ASSUME NEW w \in GivenNames
  PROVE  /\ Word(w) \in GivenWords \ {Operator} /\ Quoted(w) \in GivenWords \ {Operator}
         /\ Word(w).word = w /\ Quoted(w).word = w
<1>1. Word(w).word = w /\ Quoted(w).word = w
  BY DEF Word, Quoted
<1>2. Operator.word = ";" /\ w # ";"
  BY DEF Operator, Word, GivenNames
<1>3. Word(w) # Operator /\ Quoted(w) # Operator
  BY <1>1, <1>2
<1> QED BY <1>1, <1>3 DEF GivenWords

\* The words that are given, one by one.
LEMMA NamesGiven ==
  /\ W("env") \in GivenWords \ {Operator} /\ W("VAR=1") \in GivenWords \ {Operator} /\ W("git") \in GivenWords \ {Operator}
  /\ W("-C") \in GivenWords \ {Operator} /\ W("d1") \in GivenWords \ {Operator} /\ W("d2") \in GivenWords \ {Operator}
  /\ W("d3") \in GivenWords \ {Operator} /\ W("-c") \in GivenWords \ {Operator} /\ W("commit") \in GivenWords \ {Operator}
  /\ W("--no-pager") \in GivenWords \ {Operator} /\ W("status") \in GivenWords \ {Operator}
  /\ W("-n") \in GivenWords \ {Operator} /\ W("-m") \in GivenWords \ {Operator} /\ W("one") \in GivenWords \ {Operator}
  /\ W("echo") \in GivenWords \ {Operator} /\ W("cd") \in GivenWords \ {Operator}
  /\ Quoted("commit") \in GivenWords \ {Operator} /\ Quoted("one") \in GivenWords \ {Operator}
  /\ Quoted("-n") \in GivenWords \ {Operator} /\ Quoted("git commit") \in GivenWords \ {Operator}
<1> DEFINE C == GivenWords \ {Operator}
<1>1. \A w \in GivenNames : Word(w) \in C /\ Quoted(w) \in C
  BY WordsDiffer
<1> HIDE DEF C
<1>2. \A w \in GivenNames : W(w) \in C
  BY <1>1 DEF W
<1> QED BY <1>1, <1>2 DEF GivenNames, C

\* Up to four words are a sequence of them.
LEMMA FewWords ==
  ASSUME NEW C
  PROVE  /\ <<>> \in Seq(C) /\ (\A a \in C : <<a>> \in Seq(C)) /\ (\A a, b \in C : <<a, b>> \in Seq(C))
         /\ (\A a, b, c \in C : <<a, b, c>> \in Seq(C)) /\ \A a, b, c, d \in C : <<a, b, c, d>> \in Seq(C)
OBVIOUS

\* The options that are given are whole.
LEMMA OptionsAsGiven ==
  ASSUME NEW options \in {<<>>, <<W("-C"), W("d1")>>, <<W("-c"), W("commit")>>, <<W("--no-pager"), W("-C"), W("d2")>>,
                          <<W("-C"), W("d1"), W("-C"), W("d2")>>}
  PROVE  OptionsOk(options)
<1> DEFINE F == FlagWords(GitValueFlags)
           G == FlagWords(GitFlags)
           c == Word("-C")
           cc == Word("-c")
           np == Word("--no-pager")
           da == Word("d1")
           db == Word("d2")
           co == Word("commit")
           read == Alone(options, GitValueFlags)
           n == Len(options)
<1>1. /\ c \in F /\ cc \in F /\ c \in G /\ cc \in G /\ np \in G
      /\ da # c /\ da.word # "none" /\ db # c /\ db.word # "none" /\ co # c /\ co.word # "none"
  BY DEF FlagWords, GitValueFlags, GitFlags, Word
<1>n. np \notin F
  BY DEF FlagWords, GitValueFlags, Word
<1>2. options \in {<<>>, <<c, da>>, <<cc, co>>, <<np, c, db>>, <<c, da, c, db>>}
  BY DEF W
<1> HIDE DEF F, G, c, cc, np, da, db, co
<1>3. TextOf(options)
  BY <1>2 DEF TextOf
<1>4. read \subseteq 1 .. n /\ \A i \in 1 .. n : i \in read <=> ~(i - 1 \in read /\ options[i - 1] \in F)
  BY <1>3, AloneIs DEF F
<1>5. n \in Nat
  BY <1>3 DEF TextOf
<1>6. 0 \notin read
  BY <1>4, <1>5
<1>7. \A i \in 1 .. n : IF i \in read THEN options[i] \in G /\ (options[i] \in F => i < n) ELSE options[i] # c /\ options[i].word # "none"
  <2>1. CASE options = <<>>
    BY <2>1
  <2>2. CASE options = <<c, da>>
    <3>1. n = 2 /\ options[1] = c /\ options[2] = da
      BY <2>2
    <3> HIDE DEF read, n
    <3>2. 1 \in read /\ 2 \notin read
      BY <1>1, <1>4, <1>6, <3>1
    <3> QED BY <1>1, <3>1, <3>2
  <2>3. CASE options = <<cc, co>>
    <3>1. n = 2 /\ options[1] = cc /\ options[2] = co
      BY <2>3
    <3> HIDE DEF read, n
    <3>2. 1 \in read /\ 2 \notin read
      BY <1>1, <1>4, <1>6, <3>1
    <3> QED BY <1>1, <3>1, <3>2
  <2>4. CASE options = <<np, c, db>>
    <3>1. n = 3 /\ options[1] = np /\ options[2] = c /\ options[3] = db
      BY <2>4
    <3> HIDE DEF read, n
    <3>2. 1 \in read /\ 2 \in read /\ 3 \notin read
      BY <1>1, <1>n, <1>4, <1>6, <3>1
    <3> QED BY <1>1, <1>n, <3>1, <3>2
  <2>5. CASE options = <<c, da, c, db>>
    <3>1. n = 4 /\ options[1] = c /\ options[2] = da /\ options[3] = c /\ options[4] = db
      BY <2>5
    <3> HIDE DEF read, n
    <3>2. 1 \in read /\ 2 \notin read
      BY <1>1, <1>4, <1>6, <3>1
    <3>3. 3 \in read /\ 4 \notin read
      BY <1>1, <1>4, <3>1, <3>2
    <3> QED BY <1>1, <3>1, <3>2, <3>3
  <2> QED BY <1>2, <2>1, <2>2, <2>3, <2>4, <2>5
<1> QED BY <1>3, <1>7 DEF OptionsOk, F, G, c

\* So is what `commit` is told.
LEMMA ArgumentsAsGiven ==
  ASSUME NEW args \in {<<>>, <<W("-n")>>, <<W("-m"), W("one")>>, <<W("-m"), W("-n")>>, <<W("-m"), Quoted("one"), W("-n")>>,
                       <<W("-m"), Quoted("one"), W("-m"), Quoted("-n")>>}
  PROVE  PlainlyTold(args)
<1> DEFINE m == Word("-m")
           no == Word("-n")
           one == Word("one")
           qone == Quoted("one")
           qno == Quoted("-n")
           f == Word("-F")
<1>1. m # f /\ no # f /\ one # f /\ qone # f /\ qno # f /\ no # m /\ one # m /\ qone # m /\ qno # m
  BY DEF Word, Quoted
<1>2. args \in {<<>>, <<no>>, <<m, one>>, <<m, no>>, <<m, qone, no>>, <<m, qone, m, qno>>}
  BY DEF W
<1> HIDE DEF m, no, one, qone, qno, f
<1>3. TextOf(args)
  BY <1>2 DEF TextOf
<1>4. \A j \in 1 .. Len(args) : args[j] # f /\ (args[j] = m /\ j > 1 => args[j - 1] # m)
  BY <1>1, <1>2
<1> QED BY <1>3, <1>4 DEF PlainlyTold, f, m

\* The calls of git that are given are whole.
LEMMA PhrasesAsGiven ==
  ASSUME NEW p \in Phrases
  PROVE  PhraseOk(GivenWords, p)
<1> DEFINE C == GivenWords \ {Operator}
<1>1. /\ p.before \in {<<>>, <<W("env")>>, <<W("VAR=1")>>, <<W("env"), W("VAR=1")>>} /\ p.program = <<W("git")>>
      /\ p.options \in {<<>>, <<W("-C"), W("d1")>>, <<W("-c"), W("commit")>>, <<W("--no-pager"), W("-C"), W("d2")>>,
                        <<W("-C"), W("d1"), W("-C"), W("d2")>>}
      /\ p.verb \in {<<W("commit")>>, <<Quoted("commit")>>, <<W("status")>>}
      /\ p.args \in {<<>>, <<W("-n")>>, <<W("-m"), W("one")>>, <<W("-m"), W("-n")>>, <<W("-m"), Quoted("one"), W("-n")>>,
                     <<W("-m"), Quoted("one"), W("-m"), Quoted("-n")>>}
  BY DEF Phrases
<1>2. {p.before, p.program, p.options, p.verb, p.args} \subseteq Seq(C)
  <2>1. /\ W("env") \in C /\ W("VAR=1") \in C /\ W("git") \in C /\ W("-C") \in C /\ W("d1") \in C /\ W("d2") \in C
        /\ W("-c") \in C /\ W("commit") \in C /\ W("--no-pager") \in C /\ W("status") \in C /\ W("-n") \in C
        /\ W("-m") \in C /\ W("one") \in C /\ Quoted("commit") \in C /\ Quoted("one") \in C /\ Quoted("-n") \in C
    BY NamesGiven
  <2> HIDE DEF C
  <2>f. /\ <<>> \in Seq(C) /\ (\A a \in C : <<a>> \in Seq(C)) /\ (\A a, b \in C : <<a, b>> \in Seq(C))
        /\ (\A a, b, c \in C : <<a, b, c>> \in Seq(C)) /\ \A a, b, c, d \in C : <<a, b, c, d>> \in Seq(C)
    BY FewWords
  <2>2. p.before \in Seq(C)
    <3>1. <<>> \in Seq(C)
      BY <2>1, <2>f
    <3>2. <<W("env")>> \in Seq(C)
      BY <2>1, <2>f
    <3>3. <<W("VAR=1")>> \in Seq(C)
      BY <2>1, <2>f
    <3>4. <<W("env"), W("VAR=1")>> \in Seq(C)
      BY <2>1, <2>f
    <3> QED BY <1>1, <3>1, <3>2, <3>3, <3>4, Zenon
  <2>3. p.program \in Seq(C)
    <3>1. <<W("git")>> \in Seq(C)
      BY <2>1, <2>f
    <3> QED BY <1>1, <3>1, Zenon
  <2>4. p.options \in Seq(C)
    <3>1. <<>> \in Seq(C)
      BY <2>1, <2>f
    <3>2. <<W("-C"), W("d1")>> \in Seq(C)
      BY <2>1, <2>f
    <3>3. <<W("-c"), W("commit")>> \in Seq(C)
      BY <2>1, <2>f
    <3>4. <<W("--no-pager"), W("-C"), W("d2")>> \in Seq(C)
      BY <2>1, <2>f
    <3>5. <<W("-C"), W("d1"), W("-C"), W("d2")>> \in Seq(C)
      BY <2>1, <2>f
    <3> QED BY <1>1, <3>1, <3>2, <3>3, <3>4, <3>5, Zenon
  <2>5. p.verb \in Seq(C)
    <3>1. <<W("commit")>> \in Seq(C)
      BY <2>1, <2>f
    <3>2. <<Quoted("commit")>> \in Seq(C)
      BY <2>1, <2>f
    <3>3. <<W("status")>> \in Seq(C)
      BY <2>1, <2>f
    <3> QED BY <1>1, <3>1, <3>2, <3>3, Zenon
  <2>6. p.args \in Seq(C)
    <3>1. <<>> \in Seq(C)
      BY <2>1, <2>f
    <3>2. <<W("-n")>> \in Seq(C)
      BY <2>1, <2>f
    <3>3. <<W("-m"), W("one")>> \in Seq(C)
      BY <2>1, <2>f
    <3>4. <<W("-m"), W("-n")>> \in Seq(C)
      BY <2>1, <2>f
    <3>5. <<W("-m"), Quoted("one"), W("-n")>> \in Seq(C)
      BY <2>1, <2>f
    <3>6. <<W("-m"), Quoted("one"), W("-m"), Quoted("-n")>> \in Seq(C)
      BY <2>1, <2>f
    <3> QED BY <1>1, <3>1, <3>2, <3>3, <3>4, <3>5, <3>6, Zenon
  <2> QED BY <2>2, <2>3, <2>4, <2>5, <2>6
<1>3. \A j \in 1 .. Len(p.before) : BeforeProgram(p.before[j])
  <2>1. BeforeProgram(W("env")) /\ BeforeProgram(W("VAR=1"))
    BY DEF BeforeProgram, PrefixWords, Assignments, W, Word
  <2> QED BY <1>1, <2>1
<1>4. Len(p.program) = 1 /\ p.program[1] = Word("git") /\ ~BeforeProgram(p.program[1])
  <2>1. ~BeforeProgram(Word("git"))
    BY DEF BeforeProgram, PrefixWords, Assignments, Word
  <2> QED BY <1>1, <2>1 DEF W
<1>5. Len(p.verb) = 1 /\ p.verb[1] \notin FlagWords(GitFlags)
  <2>1. W("commit") \notin FlagWords(GitFlags) /\ Quoted("commit") \notin FlagWords(GitFlags) /\ W("status") \notin FlagWords(GitFlags)
    BY DEF FlagWords, GitFlags, GitValueFlags, W, Word, Quoted
  <2> QED BY <1>1, <2>1
<1>6. OptionsOk(p.options) /\ PlainlyTold(p.args)
  BY <1>1, OptionsAsGiven, ArgumentsAsGiven
<1> QED BY <1>2, <1>3, <1>4, <1>5, <1>6 DEF PhraseOk

\* The other commands that are given call no git.
LEMMA MentionsAsGiven ==
  ASSUME NEW p \in Mentions
  PROVE  PhraseOk(GivenWords, p)
<1> DEFINE C == GivenWords \ {Operator}
<1>1. /\ p.before = <<>> /\ p.program \in {<<W("echo")>>, <<W("cd")>>}
      /\ p.options \in {<<>>, <<W("git")>>, <<Quoted("git commit")>>, <<W("d3")>>}
      /\ p.verb \in {<<>>, <<W("commit")>>} /\ p.args \in {<<>>, <<W("-n")>>}
  BY DEF Mentions
<1>2. {p.before, p.program, p.options, p.verb, p.args} \subseteq Seq(C)
  <2>1. /\ W("echo") \in C /\ W("cd") \in C /\ W("git") \in C /\ W("d3") \in C /\ W("commit") \in C
        /\ W("-n") \in C /\ Quoted("git commit") \in C
    BY NamesGiven
  <2>f. <<>> \in Seq(C) /\ \A a \in C : <<a>> \in Seq(C)
    BY FewWords
  <2> HIDE DEF C
  <2>2. p.before \in Seq(C) /\ p.program \in Seq(C) /\ p.verb \in Seq(C)
    BY <1>1, <2>1, <2>f, Zenon
  <2>3. p.options \in Seq(C) /\ p.args \in Seq(C)
    BY <1>1, <2>1, <2>f, Zenon
  <2> QED BY <2>2, <2>3
<1>3. \A j \in 1 .. Len(p.before) : FALSE
  <2>1. Len(<<>>) = 0 /\ \A j \in 1 .. 0 : FALSE
    OBVIOUS
  <2>2. p.before = <<>>
    BY <1>1, Zenon
  <2> QED BY ONLY <2>1, <2>2
<1>4. Len(p.program) = 1 /\ ~BeforeProgram(p.program[1]) /\ ~IsGitWord(p.program[1]) /\ p.program[1] # Word("git")
  <2>1. /\ ~BeforeProgram(W("echo")) /\ ~BeforeProgram(W("cd")) /\ ~IsGitWord(W("echo")) /\ ~IsGitWord(W("cd"))
        /\ W("echo") # Word("git") /\ W("cd") # Word("git")
    BY DEF BeforeProgram, PrefixWords, Assignments, IsGitWord, W, Word
  <2> DEFINE q == p.program
             e == W("echo")
             c == W("cd")
  <2>2. q = <<e>> \/ q = <<c>>
    BY <1>1, Zenon
  <2> HIDE DEF q, e, c
  <2>3. Len(q) = 1 /\ (q[1] = e \/ q[1] = c)
    BY ONLY <2>2
  <2> QED BY <2>1, <2>3 DEF q, e, c
<1> QED BY <1>2, <1>3, <1>4 DEF PhraseOk

\* Every command that is given is a chain of such phrases.
LEMMA CommandsAsGiven ==
  ASSUME NEW phrases \in CommandInputs
  PROVE  CommitIsSeen(phrases, ParseCommand(CommandOf(phrases)))
<1>1. /\ phrases # <<>> /\ TextOf(phrases)
      /\ \A k \in 1 .. Len(phrases) : phrases[k] \in Phrases \/ phrases[k] \in Mentions
  BY DEF CommandInputs, TextOf
<1>2. \A k \in 1 .. Len(phrases) : PhraseOk(GivenWords, phrases[k])
  BY <1>1, PhrasesAsGiven, MentionsAsGiven
<1>3. Operator \in GivenWords
  BY DEF GivenWords
<1>4. ChainOk(GivenWords, phrases)
  BY <1>1, <1>2, <1>3 DEF ChainOk
<1> QED BY <1>4, CommitsAreSeen

-----------------------------------------------------------------------------
(* Every behaviour of MCChecks *)

\* What is asked about is an input of the leg that is asked.
Enumerated ==
  /\ about = "secrets" => given \in SecretsInputs
  /\ about = "sast" => given \in SastInputs
  /\ about = "deps" => given \in RepoInputs
  /\ about = "lint" => given \in LintInputs
  /\ about = "types" => given \in LintInputs
  /\ about = "format" => given \in FormatInputs
  /\ about = "maintain" => given \in TreeInputs
  /\ about = "infra" => given \in TreeInputs
  /\ about = "actions" => given \in TreeInputs
  /\ about = "targets" => given \in Changed
  /\ about = "failures" => given \in EventInputs
  /\ about = "env" => given \in EnvInputs
  /\ about = "sweep" => given \in SweepInputs
  /\ about = "narrow" => given \in NarrowInputs
  /\ about = "hygiene" => given \in CreditInputs
  /\ about = "agents" => given \in CopyInputs
  /\ about = "workflow" => given \in WorkflowInputs
  /\ about = "command" => given \in CommandInputs
  /\ about = "quotes" => given \in QuoteInputs
  /\ about = "message" => given \in HeredocInputs
  /\ about = "parts" => given \in FitInputs
  /\ about = "links" => given \in LinkInputs
  /\ about = "diagrams" => given \in DiagramInputs
  /\ about = "outside" => given \in OutsideInputs
  /\ about = "obligation" => given \in ObligationInputs
  /\ about = "spec" => given \in SpecInputs
  /\ about = "plan" => given \in PlanInputs
  /\ about = "index" => given \in QueryInputs

\* No leg passes what it did not look at, no sweep takes what is used, what the
\* hooks see and tell is so, and what is said of commits, pages, changes, specs,
\* plans and code holds.
AllSaid ==
  /\ NothingUnscanned /\ NothingUnjudged /\ NothingRunsUnsaid /\ NothingMovesUnsaid /\ SweepKeepsWhatIsUsed
  /\ RulesAgree /\ HooksSeeAndTell /\ PagesHold /\ ChangesAreAnswered /\ PlansHold /\ AnswersHold
IChecks == Enumerated /\ AllSaid

\* What a question that is not of theirs leaves the properties of the others.
LEMMA NotTheirs ==
  /\ about' \notin {"secrets", "sast", "deps"} => NothingUnscanned'
  /\ about' \notin {"lint", "types", "format", "maintain", "infra", "actions"} => NothingUnjudged'
  /\ about' \notin {"targets", "suites", "failures"} => NothingRunsUnsaid'
  /\ about' \notin {"env"} => NothingMovesUnsaid'
  /\ about' \notin {"sweep"} => SweepKeepsWhatIsUsed'
  /\ about' \notin {"narrow", "hygiene", "agents", "workflow"} => RulesAgree'
  /\ about' \notin {"command", "quotes", "message", "parts"} => HooksSeeAndTell'
  /\ about' \notin {"links", "diagrams", "outside"} => PagesHold'
  /\ about' \notin {"obligation"} => ChangesAreAnswered'
  /\ about' \notin {"spec", "plan"} => PlansHold'
  /\ about' \notin {"index"} => AnswersHold'
<1>1. /\ about' \notin {"secrets", "sast", "deps"} => NothingUnscanned'
      /\ about' \notin {"lint", "types", "format", "maintain", "infra", "actions"} => NothingUnjudged'
      /\ about' \notin {"targets", "suites", "failures"} => NothingRunsUnsaid'
      /\ about' \notin {"env"} => NothingMovesUnsaid'
      /\ about' \notin {"sweep"} => SweepKeepsWhatIsUsed'
  BY DEF NothingUnscanned, NothingUnjudged, NothingRunsUnsaid, NothingMovesUnsaid, SweepKeepsWhatIsUsed
<1>2. about' \notin {"narrow", "hygiene", "agents", "workflow"} => RulesAgree'
  BY DEF RulesAgree
<1>7. about' \notin {"command", "quotes", "message", "parts"} => HooksSeeAndTell'
  BY DEF HooksSeeAndTell
<1>3. about' \notin {"links", "diagrams", "outside"} => PagesHold'
  BY DEF PagesHold
<1>4. about' \notin {"obligation"} => ChangesAreAnswered'
  BY DEF ChangesAreAnswered
<1>5. about' \notin {"spec", "plan"} => PlansHold'
  BY DEF PlansHold
<1>6. about' \notin {"index"} => AnswersHold'
  BY DEF AnswersHold
<1> QED BY <1>1, <1>2, <1>3, <1>4, <1>5, <1>6, <1>7

LEMMA AskedOnce ==
  ASSUME NEW leg, Ask(leg), Enumerated
  PROVE  about = leg /\ about' = leg /\ given' = given /\ done' /\ Enumerated'
BY DEF Ask, Enumerated

LEMMA ChecksStep ==
  ASSUME IChecks, [ChecksNext]_vars
  PROVE  IChecks'
<1> USE DEF IChecks
<1>1. CASE UNCHANGED vars
  <2>1. about' = about /\ given' = given /\ done' = done /\ said' = said
    BY <1>1 DEF vars
  <2>2. NothingUnscanned'
    BY <2>1 DEF AllSaid, NothingUnscanned
  <2>3. NothingUnjudged'
    BY <2>1 DEF AllSaid, NothingUnjudged, World, Same
  <2>4. NothingRunsUnsaid'
    BY <2>1 DEF AllSaid, NothingRunsUnsaid
  <2>5. NothingMovesUnsaid'
    BY <2>1 DEF AllSaid, NothingMovesUnsaid
  <2>6. SweepKeepsWhatIsUsed'
    BY <2>1 DEF AllSaid, SweepKeepsWhatIsUsed
  <2>7. Enumerated'
    BY <2>1 DEF Enumerated
  <2>8. RulesAgree'
    BY <2>1 DEF AllSaid, RulesAgree, WrittenAsItLies, WrittenIsKept
  <2>9. PagesHold'
    BY <2>1 DEF AllSaid, PagesHold
  <2>10. ChangesAreAnswered' /\ AnswersHold'
    BY <2>1 DEF AllSaid, ChangesAreAnswered, AnswersHold
  <2>11. PlansHold'
    BY <2>1 DEF AllSaid, PlansHold
  <2>12. HooksSeeAndTell'
    BY <2>1 DEF AllSaid, HooksSeeAndTell
  <2> QED BY <2>2, <2>3, <2>4, <2>5, <2>6, <2>7, <2>8, <2>9, <2>10, <2>11, <2>12 DEF AllSaid
<1>2. CASE AskSecrets
  <2>1. about = "secrets" /\ about' = "secrets" /\ given' = given /\ done' /\ Enumerated'
    BY <1>2, AskedOnce DEF AskSecrets
  <2>2. given \in SecretsInputs
    BY <2>1 DEF Enumerated
  <2>3. NothingUnscanned'
    BY <1>2, <2>1, <2>2, SecretsHold DEF AskSecrets, NothingUnscanned
  <2> QED BY <2>1, <2>3, NotTheirs DEF AllSaid
<1>3. CASE AskSast
  <2>1. about = "sast" /\ about' = "sast" /\ given' = given /\ done' /\ Enumerated'
    BY <1>3, AskedOnce DEF AskSast
  <2>2. given \in SastInputs
    BY <2>1 DEF Enumerated
  <2>3. NothingUnscanned'
    BY <1>3, <2>1, <2>2, SastHolds DEF AskSast, NothingUnscanned
  <2> QED BY <2>1, <2>3, NotTheirs DEF AllSaid
<1>4. CASE AskDeps
  <2>1. about = "deps" /\ about' = "deps" /\ given' = given /\ done' /\ Enumerated'
    BY <1>4, AskedOnce DEF AskDeps
  <2>2. given \in RepoInputs
    BY <2>1 DEF Enumerated
  <2>3. NothingUnscanned'
    BY <1>4, <2>1, <2>2, DepsHold DEF AskDeps, NothingUnscanned
  <2> QED BY <2>1, <2>3, NotTheirs DEF AllSaid
<1>5. CASE AskLint
  <2>1. about = "lint" /\ about' = "lint" /\ given' = given /\ done' /\ Enumerated'
    BY <1>5, AskedOnce DEF AskLint
  <2>2. given \in LintInputs
    BY <2>1 DEF Enumerated
  <2>3. NothingUnjudged'
    BY <1>5, <2>1, <2>2, LintHolds DEF AskLint, NothingUnjudged
  <2> QED BY <2>1, <2>3, NotTheirs DEF AllSaid
<1>6. CASE AskTypes
  <2>1. about = "types" /\ about' = "types" /\ given' = given /\ done' /\ Enumerated'
    BY <1>6, AskedOnce DEF AskTypes
  <2>2. given \in LintInputs
    BY <2>1 DEF Enumerated
  <2>3. NothingUnjudged'
    BY <1>6, <2>1, <2>2, LintHolds DEF AskTypes, NothingUnjudged
  <2> QED BY <2>1, <2>3, NotTheirs DEF AllSaid
<1>7. CASE AskFormat
  <2>1. about = "format" /\ about' = "format" /\ given' = given /\ done' /\ Enumerated'
    BY <1>7, AskedOnce DEF AskFormat
  <2>2. given \in FormatInputs
    BY <2>1 DEF Enumerated
  <2>3. NothingUnjudged'
    BY <1>7, <2>1, <2>2, FormatHolds DEF AskFormat, NothingUnjudged
  <2> QED BY <2>1, <2>3, NotTheirs DEF AllSaid
<1>8. CASE AskComplexity
  <2>1. about = "maintain" /\ about' = "maintain" /\ given' = given /\ done' /\ Enumerated'
    BY <1>8, AskedOnce DEF AskComplexity
  <2>2. given \in TreeInputs
    BY <2>1 DEF Enumerated
  <2>3. NothingUnjudged'
    BY <1>8, <2>1, <2>2, TreeHolds DEF AskComplexity, NothingUnjudged
  <2> QED BY <2>1, <2>3, NotTheirs DEF AllSaid
<1>9. CASE AskInfra
  <2>1. about = "infra" /\ about' = "infra" /\ given' = given /\ done' /\ Enumerated'
    BY <1>9, AskedOnce DEF AskInfra
  <2>2. given \in TreeInputs
    BY <2>1 DEF Enumerated
  <2>3. NothingUnjudged'
    BY <1>9, <2>1, <2>2, TreeHolds DEF AskInfra, NothingUnjudged
  <2> QED BY <2>1, <2>3, NotTheirs DEF AllSaid
<1>10. CASE AskActions
  <2>1. about = "actions" /\ about' = "actions" /\ given' = given /\ done' /\ Enumerated'
    BY <1>10, AskedOnce DEF AskActions
  <2>2. given \in TreeInputs
    BY <2>1 DEF Enumerated
  <2>3. NothingUnjudged'
    BY <1>10, <2>1, <2>2, TreeHolds DEF AskActions, NothingUnjudged
  <2> QED BY <2>1, <2>3, NotTheirs DEF AllSaid
<1>11. CASE AskTargets
  <2>1. about = "targets" /\ about' = "targets" /\ given' = given /\ done' /\ Enumerated'
    BY <1>11, AskedOnce DEF AskTargets
  <2>2. given \in Changed
    BY <2>1 DEF Enumerated
  <2>3. NothingRunsUnsaid'
    BY <1>11, <2>1, <2>2, TargetsHold DEF AskTargets, NothingRunsUnsaid
  <2> QED BY <2>1, <2>3, NotTheirs DEF AllSaid
<1>12. CASE AskSuites
  <2>1. about = "suites" /\ about' = "suites" /\ given' = given /\ done' /\ Enumerated'
    BY <1>12, AskedOnce DEF AskSuites
  <2>3. NothingRunsUnsaid'
    BY <1>12, <2>1, SuitesAreSaid DEF AskSuites, NothingRunsUnsaid
  <2> QED BY <2>1, <2>3, NotTheirs DEF AllSaid
<1>13. CASE AskFailures
  <2>1. about = "failures" /\ about' = "failures" /\ given' = given /\ done' /\ Enumerated'
    BY <1>13, AskedOnce DEF AskFailures
  <2>2. given \in EventInputs
    BY <2>1 DEF Enumerated
  <2>3. NothingRunsUnsaid'
    BY <1>13, <2>1, <2>2, FailuresHold DEF AskFailures, NothingRunsUnsaid
  <2> QED BY <2>1, <2>3, NotTheirs DEF AllSaid
<1>14. CASE AskEnv
  <2>1. about = "env" /\ about' = "env" /\ given' = given /\ done' /\ Enumerated'
    BY <1>14, AskedOnce DEF AskEnv
  <2>2. given \in EnvInputs
    BY <2>1 DEF Enumerated
  <2>3. NothingMovesUnsaid'
    BY <1>14, <2>1, <2>2, EnvHolds DEF AskEnv, NothingMovesUnsaid
  <2> QED BY <2>1, <2>3, NotTheirs DEF AllSaid
<1>15. CASE AskSweep
  <2>1. about = "sweep" /\ about' = "sweep" /\ given' = given /\ done' /\ Enumerated'
    BY <1>15, AskedOnce DEF AskSweep
  <2>2. given \in SweepInputs
    BY <2>1 DEF Enumerated
  <2>3. SweepKeepsWhatIsUsed'
    BY <1>15, <2>1, <2>2, SweepHolds DEF AskSweep, SweepKeepsWhatIsUsed
  <2> QED BY <2>1, <2>3, NotTheirs DEF AllSaid
<1>16. CASE AskNarrow
  <2>1. about = "narrow" /\ about' = "narrow" /\ given' = given /\ done' /\ Enumerated'
    BY <1>16, AskedOnce DEF AskNarrow
  <2>2. given \in NarrowInputs
    BY <2>1 DEF Enumerated
  <2>3. RulesAgree'
    BY <1>16, <2>1, <2>2, NarrowHolds DEF AskNarrow, RulesAgree, WrittenAsItLies, WrittenIsKept
  <2> QED BY <2>1, <2>3, NotTheirs DEF AllSaid
<1>17. CASE AskHygiene
  <2>1. about = "hygiene" /\ about' = "hygiene" /\ given' = given /\ done' /\ Enumerated'
    BY <1>17, AskedOnce DEF AskHygiene
  <2>2. given \in CreditInputs
    BY <2>1 DEF Enumerated
  <2>3. RulesAgree'
    BY <1>17, <2>1, <2>2, CreditsHold DEF AskHygiene, RulesAgree
  <2> QED BY <2>1, <2>3, NotTheirs DEF AllSaid
<1>18. CASE AskAgents
  <2>1. about = "agents" /\ about' = "agents" /\ given' = given /\ done' /\ Enumerated'
    BY <1>18, AskedOnce DEF AskAgents
  <2>2. given \in CopyInputs
    BY <2>1 DEF Enumerated
  <2>3. RulesAgree'
    BY <1>18, <2>1, <2>2, CopiesHold DEF AskAgents, RulesAgree
  <2> QED BY <2>1, <2>3, NotTheirs DEF AllSaid
<1>19. CASE AskWorkflow
  <2>1. about = "workflow" /\ about' = "workflow" /\ given' = given /\ done' /\ Enumerated'
    BY <1>19, AskedOnce DEF AskWorkflow
  <2>2. given \in WorkflowInputs
    BY <2>1 DEF Enumerated
  <2>3. RulesAgree'
    BY <1>19, <2>1, <2>2, WorkflowsHold DEF AskWorkflow, RulesAgree
  <2> QED BY <2>1, <2>3, NotTheirs DEF AllSaid
<1>20. CASE AskLinks
  <2>1. about = "links" /\ about' = "links" /\ given' = given /\ done' /\ Enumerated'
    BY <1>20, AskedOnce DEF AskLinks
  <2>2. given \in LinkInputs
    BY <2>1 DEF Enumerated
  <2>3. PagesHold'
    BY <1>20, <2>1, <2>2, LinksAsGiven DEF AskLinks, PagesHold
  <2> QED BY <2>1, <2>3, NotTheirs DEF AllSaid
<1>21. CASE AskDiagrams
  <2>1. about = "diagrams" /\ about' = "diagrams" /\ given' = given /\ done' /\ Enumerated'
    BY <1>21, AskedOnce DEF AskDiagrams
  <2>2. given \in DiagramInputs
    BY <2>1 DEF Enumerated
  <2>3. PagesHold'
    BY <1>21, <2>1, <2>2, DiagramsAsGiven DEF AskDiagrams, PagesHold
  <2> QED BY <2>1, <2>3, NotTheirs DEF AllSaid
<1>22. CASE AskOutside
  <2>1. about = "outside" /\ about' = "outside" /\ given' = given /\ done' /\ Enumerated'
    BY <1>22, AskedOnce DEF AskOutside
  <2>2. given \in OutsideInputs
    BY <2>1 DEF Enumerated
  <2>3. PagesHold'
    BY <1>22, <2>1, <2>2, OutsideAsGiven DEF AskOutside, PagesHold
  <2> QED BY <2>1, <2>3, NotTheirs DEF AllSaid
<1>23. CASE AskObligation
  <2>1. about = "obligation" /\ about' = "obligation" /\ given' = given /\ done' /\ Enumerated'
    BY <1>23, AskedOnce DEF AskObligation
  <2>2. given \in ObligationInputs
    BY <2>1 DEF Enumerated
  <2>3. ChangesAreAnswered'
    BY <1>23, <2>1, <2>2, ObligationsAsGiven DEF AskObligation, ChangesAreAnswered
  <2> QED BY <2>1, <2>3, NotTheirs DEF AllSaid
<1>24. CASE AskSpec
  <2>1. about = "spec" /\ about' = "spec" /\ given' = given /\ done' /\ Enumerated'
    BY <1>24, AskedOnce DEF AskSpec
  <2>2. given \in SpecInputs
    BY <2>1 DEF Enumerated
  <2>3. PlansHold'
    BY <1>24, <2>1, <2>2, SpecsAsGiven DEF AskSpec, PlansHold
  <2> QED BY <2>1, <2>3, NotTheirs DEF AllSaid
<1>25. CASE AskPlan
  <2>1. about = "plan" /\ about' = "plan" /\ given' = given /\ done' /\ Enumerated'
    BY <1>25, AskedOnce DEF AskPlan
  <2>2. given \in PlanInputs
    BY <2>1 DEF Enumerated
  <2>3. PlansHold'
    BY <1>25, <2>1, <2>2, PlansAsGiven DEF AskPlan, PlansHold
  <2> QED BY <2>1, <2>3, NotTheirs DEF AllSaid
<1>26. CASE AskIndex
  <2>1. about = "index" /\ about' = "index" /\ given' = given /\ done' /\ Enumerated'
    BY <1>26, AskedOnce DEF AskIndex
  <2>2. given \in QueryInputs
    BY <2>1 DEF Enumerated
  <2>3. AnswersHold'
    BY <1>26, <2>1, <2>2, QueriesAsGiven DEF AskIndex, AnswersHold
  <2> QED BY <2>1, <2>3, NotTheirs DEF AllSaid
<1>27. CASE AskCommand
  <2>1. about = "command" /\ about' = "command" /\ given' = given /\ done' /\ Enumerated'
    BY <1>27, AskedOnce DEF AskCommand
  <2>2. given \in CommandInputs
    BY <2>1 DEF Enumerated
  <2>3. HooksSeeAndTell'
    BY <1>27, <2>1, <2>2, CommandsAsGiven DEF AskCommand, HooksSeeAndTell
  <2> QED BY <2>1, <2>3, NotTheirs DEF AllSaid
<1>28. CASE AskQuotes
  <2>1. about = "quotes" /\ about' = "quotes" /\ given' = given /\ done' /\ Enumerated'
    BY <1>28, AskedOnce DEF AskQuotes
  <2>2. given \in QuoteInputs
    BY <2>1 DEF Enumerated
  <2>3. HooksSeeAndTell'
    BY <1>28, <2>1, <2>2, QuotesAsGiven DEF AskQuotes, HooksSeeAndTell
  <2> QED BY <2>1, <2>3, NotTheirs DEF AllSaid
<1>29. CASE AskMessage
  <2>1. about = "message" /\ about' = "message" /\ given' = given /\ done' /\ Enumerated'
    BY <1>29, AskedOnce DEF AskMessage
  <2>2. given \in HeredocInputs
    BY <2>1 DEF Enumerated
  <2>3. HooksSeeAndTell'
    BY <1>29, <2>1, <2>2, MessagesAsGiven DEF AskMessage, HooksSeeAndTell
  <2> QED BY <2>1, <2>3, NotTheirs DEF AllSaid
<1>30. CASE AskParts
  <2>1. about = "parts" /\ about' = "parts" /\ given' = given /\ done' /\ Enumerated'
    BY <1>30, AskedOnce DEF AskParts
  <2>2. given \in FitInputs
    BY <2>1 DEF Enumerated
  <2>3. HooksSeeAndTell'
    BY <1>30, <2>1, <2>2, PartsAsGiven DEF AskParts, HooksSeeAndTell
  <2> QED BY <2>1, <2>3, NotTheirs DEF AllSaid
<1> QED BY <1>1, <1>2, <1>3, <1>4, <1>5, <1>6, <1>7, <1>8, <1>9, <1>10, <1>11, <1>12, <1>13, <1>14, <1>15, <1>16, <1>17, <1>18, <1>19, <1>20, <1>21, <1>22, <1>23, <1>24, <1>25, <1>26, <1>27, <1>28, <1>29, <1>30 DEF ChecksNext, LegsNext

LEMMA ChecksStart ==
  ASSUME ChecksInit
  PROVE  IChecks
<1>1. ~done
  BY DEF ChecksInit, LegsInit
<1>2. Enumerated
  BY DEF ChecksInit, LegsInit, Enumerated
<1>3. AllSaid
  BY <1>1 DEF AllSaid, NothingUnscanned, NothingUnjudged, NothingRunsUnsaid, NothingMovesUnsaid, SweepKeepsWhatIsUsed,
              RulesAgree, HooksSeeAndTell, PagesHold, ChangesAreAnswered, PlansHold, AnswersHold
<1> QED BY <1>2, <1>3 DEF IChecks

\* gate.go:402, "no answer is not a passing file": in every behaviour of the run, for
\* any files, directories and bounds.
THEOREM Checked == ChecksSpec => []NothingPassesUnchecked
<1>1. IChecks => NothingPassesUnchecked
  BY DEF IChecks, AllSaid, NothingPassesUnchecked
<1> QED BY <1>1, ChecksStart, ChecksStep, PTL DEF ChecksSpec

\* plugincache: whatever is cached, in use, running or refuses to go.
THEOREM Swept == ChecksSpec => []SweepKeepsWhatIsUsed
<1>1. IChecks => SweepKeepsWhatIsUsed
  BY DEF IChecks, AllSaid
<1> QED BY <1>1, ChecksStart, ChecksStep, PTL DEF ChecksSpec

\* gitx, gitcmd, portability, ciops: in every behaviour of the run the findings kept
\* are those on lines the commit writes, a credit to a tool stops the commit it is
\* in, `agents` and the gate agree, and a job without a bound is seen.
THEOREM Ruled == ChecksSpec => []RulesAgree
<1>1. IChecks => RulesAgree
  BY DEF IChecks, AllSaid
<1> QED BY <1>1, ChecksStart, ChecksStep, PTL DEF ChecksSpec

\* hook: in every behaviour of the run a commit is seen for what it is, what is
\* quoted stays together, the message is what the heredoc writes, and what the agent
\* is told fits and leaves out nothing there is room for.
THEOREM Hooked == ChecksSpec => []HooksSeeAndTell
<1>1. IChecks => HooksSeeAndTell
  BY DEF IChecks, AllSaid
<1> QED BY <1>1, ChecksStart, ChecksStep, PTL DEF ChecksSpec

\* docs, spec, plan, codeindex: in every behaviour of the run links lead somewhere,
\* changes are written about, what is called complete is, and no answer is guessed.
THEOREM Documented == ChecksSpec => []DocumentsHold
<1>1. IChecks => DocumentsHold
  BY DEF IChecks, AllSaid, DocumentsHold
<1> QED BY <1>1, ChecksStart, ChecksStep, PTL DEF ChecksSpec
=============================================================================
