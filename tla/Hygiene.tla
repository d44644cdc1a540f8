------------------------------- MODULE Hygiene -------------------------------
(***************************************************************************)
(* What git says of a repository and what procoder's own rules say of it   *)
(* (internal/gitx, internal/gitcmd, internal/portability, internal/ciops): *)
(* the files a commit would carry, the lines it writes, and the rules that *)
(* read files, messages and host copies without any other tool.            *)
(***************************************************************************)
EXTENDS Naturals, Sequences, SequencesExt, FiniteSets, TLC

Finding(file, line, blocks) == [file |-> file, line |-> line, blocking |-> blocks]
NoFile == "repository"

-----------------------------------------------------------------------------
(* gitx: files *)

\* git status --porcelain: one entry for a path, or for a directory nobody
\* tracks; a rename has its new name. What is deleted, on either side, is left out.
ChangedFiles(entries) == {e.now : e \in {e \in entries : "D" \notin {e.index, e.tree}}}

\* expandDirs: a directory that was named stands for the files git knows or would.
FilesUnder(tree, dir) == {f \in tree : IsPrefix(dir, f.path) /\ f.state # "ignored"}

-----------------------------------------------------------------------------
(* gitx: the lines a commit writes. A file's text is a sequence of lines that
   differ; a diff is what `git diff --unified=0` prints of two texts.          *)

\* The lines of `new` that `old` has not, as git numbers them.
Added(old, new) == {n \in DOMAIN new : new[n] \notin ToSet(old)}

\* The printed diff of one file: its header, then for each added line its hunk
\* and itself. A line whose text starts with "++ " is printed as "+++ ".
PrintDiff(file, old, new) ==
  <<[kind |-> "+++", name |-> file, at |-> 0]>> \o
  FlattenSeq([n \in DOMAIN new |->
    IF n \notin Added(old, new) THEN <<>>
    ELSE <<[kind |-> "@@", name |-> file, at |-> n],
           IF new[n].looks = "header" THEN [kind |-> "+++", name |-> new[n].names, at |-> 0]
           ELSE [kind |-> "+", name |-> file, at |-> n]>>])

\* Mutant: the line is counted from the hunk of the file before.
CollectFromHunk(diff) ==
  FoldLeft(LAMBDA s, l :
      CASE l.kind = "+++" -> [s EXCEPT !.file = l.name]
        [] l.kind = "@@" -> [s EXCEPT !.line = IF s.line = 0 THEN l.at ELSE s.line]
        [] OTHER -> [s EXCEPT !.out = @ \cup {<<s.file, s.line>>}, !.line = @ + 1],
    [file |-> NoFile, line |-> 0, out |-> {}], diff).out

\* collectAddedLines: read line by line, the file of the last header, the line
\* of the last hunk.
ReadLine(s, l) ==
  IF l.kind = "+++" THEN [s EXCEPT !.file = l.name]
  ELSE IF l.kind = "@@" THEN [s EXCEPT !.line = l.at]
  ELSE IF s.file = NoFile \/ s.line = 0 THEN s
  ELSE [s EXCEPT !.out = @ \cup {<<s.file, s.line>>}, !.line = @ + 1]

CollectAddedLines(diff) == FoldLeft(ReadLine, [file |-> NoFile, line |-> 0, out |-> {}], diff).out

\* addedLines: the staged diff, the unstaged one, and all of what git does not
\* track.
AddedLines(files) ==
  (UNION {CollectAddedLines(PrintDiff(f.name, f.head, f.index))
            \cup CollectAddedLines(PrintDiff(f.name, f.index, f.tree)) : f \in {f \in files : f.tracked}})
  \cup (UNION {{<<f.name, n>> : n \in DOMAIN f.tree} : f \in {f \in files : ~f.tracked}})

\* What is written is unknown where git does not answer: all findings stay.
NarrowToDiff(answers, files, found) ==
  IF ~answers THEN found
  ELSE {f \in found : f.line = 0 \/ <<f.file, f.line>> \in AddedLines(files)}

-----------------------------------------------------------------------------
(* gitx: the rules. A file says what there is to know of it: its name, where
   it lies, whether it is text, its markers and its size.                      *)

\* A marker anywhere, but not in a file that says why it may have some.
ConflictMarkers(files) ==
  UNION {{Finding(f.name, n, TRUE) : n \in f.markers} :
           f \in {f \in files : f.readable /\ f.text /\ f.allows # "with a reason"}}

JunkFiles(files) == {Finding(f.name, 0, TRUE) : f \in {f \in files : f.junk \/ f.inJunk}}
Oversized(files, limit) == {Finding(f.name, 0, TRUE) : f \in {f \in files : f.readable /\ f.size > limit}}

\* What each ecosystem, and procoder, needs ignored.
IgnoreCoverage(markers, there, ignores) ==
  LET needed == {n \in {<<"go.mod", "*.test">>, <<"package.json", "node_modules">>,
                        <<"pyproject.toml", "__pycache__">>, <<".procoder", ".procoder/state/">>,
                        <<".procoder", ".procoder/index/">>} : n[1] \in markers}
  IN  IF needed = {} THEN {}
      ELSE IF ~there THEN {Finding(NoFile, 0, FALSE)}
      ELSE {Finding(n[2], 0, FALSE) : n \in {n \in needed : n[2] \notin ignores}}

\* DefaultBranch: what origin says, else main, else master.
DefaultBranch(origin, branches) ==
  IF origin # "none" THEN origin
  ELSE IF "main" \in branches THEN "main" ELSE IF "master" \in branches THEN "master" ELSE "none"

OnDefaultBranch(current, default, block) ==
  IF current # "none" /\ current = default THEN {Finding(NoFile, 0, block)} ELSE {}

\* Without an upstream nothing is known to be pushed: the last commit alone. A
\* commit without a message is none.
UnpushedCommits(log, tracks, upstream) ==
  {c \in (IF tracks THEN ToSet(SubSeq(log, upstream + 1, Len(log))) ELSE {Last(log)}) : c.message # "empty"}

\* A trailer that credits a tool, in any commit or in the message being written.
AttributionIn(commits) == {Finding(c.sha, 0, TRUE) : c \in {c \in commits : c.message = "credits"}}
AttributionInMessage(message) == IF message = "credits" THEN {Finding("message", 0, TRUE)} ELSE {}
SubjectShape(commits) == {Finding(c.sha, 0, FALSE) : c \in {c \in commits : c.message = "shapeless"}}

-----------------------------------------------------------------------------
(* portability: the master's rules and the hosts' copies of them *)

\* Check. A copy is absent, unreadable, or its normalised body; the gate does
\* not look at front matter, which only `procoder agents` rewrites.
PortabilityCheck(declared, hosts, master, copies, versions) ==
  IF ~declared THEN {Finding("hosts", 0, TRUE)}
  ELSE IF master = "absent" THEN (IF hosts = {} THEN {} ELSE {Finding("AGENTS.md", 0, TRUE)})
  ELSE IF master = "unreadable" THEN {Finding("AGENTS.md", 0, TRUE)}
  ELSE {Finding(h, 0, TRUE) : h \in {h \in hosts : copies[h].body # master}}
       \cup {Finding(m, 0, TRUE) : m \in {m \in DOMAIN versions :
               "plugin" \in DOMAIN versions /\ versions[m] # versions["plugin"]}}

\* Agents: what it tells to write, and its exit code.
AgentsToWrite(hosts, master, copies) ==
  {h \in hosts : copies[h].body # master \/ ~copies[h].front}

Agents(hosts, master, copies) ==
  IF hosts = {} \/ master \in {"absent", "unreadable"} THEN 2
  ELSE IF AgentsToWrite(hosts, master, copies) = {} THEN 0 ELSE 1

-----------------------------------------------------------------------------
(* ciops: a workflow is what its lines are, in order *)

\* A map with the value of a key set.
Put(f, x, y) == [z \in DOMAIN f \cup {x} |-> IF z = x THEN y ELSE f[z]]

\* The jobs are the keys below `jobs:` until another top-level key; a job's lines
\* are those until the next one.
JobLine(lines, s, i) ==
  IF lines[i].kind = "jobs" THEN [s EXCEPT !.inJobs = TRUE]
  ELSE IF ~s.inJobs THEN s
  ELSE IF lines[i].kind = "top" THEN [s EXCEPT !.inJobs = FALSE]
  ELSE IF lines[i].kind = "job" THEN
         [s EXCEPT !.current = lines[i].name, !.start = Put(@, lines[i].name, i),
                   !.bodies = IF lines[i].name \in DOMAIN @ THEN @ ELSE Put(@, lines[i].name, {})]
  ELSE IF s.current = "none" THEN s
  ELSE [s EXCEPT !.bodies[s.current] = @ \cup {lines[i].kind}]
JobLines(lines) ==
  FoldLeft(LAMBDA s, i : JobLine(lines, s, i),
    [inJobs |-> FALSE, current |-> "none", start |-> <<>>, bodies |-> <<>>], [i \in DOMAIN lines |-> i])

\* checkWorkflow: references that can be repointed, jobs whose time has no bound,
\* runs that are not cancelled by the next push.
CheckWorkflow(name, lines, pinBlock) ==
  LET jobs == JobLines(lines) IN
    {Finding(name, i, pinBlock) : i \in {i \in DOMAIN lines : lines[i].kind = "uses" /\ lines[i].name = "tag"}}
    \cup {Finding(name, jobs.start[j], FALSE) : j \in {j \in DOMAIN jobs.start : "timeout" \notin jobs.bodies[j]}}
    \cup (IF \E i \in DOMAIN lines : lines[i].kind = "concurrency" THEN {} ELSE {Finding(name, 0, FALSE)})

CiCheck(dir, workflows, pinBlock) ==
  IF dir = "absent" THEN {}
  ELSE IF dir = "unreadable" THEN {Finding(NoFile, 0, TRUE)}
  ELSE UNION {IF w.readable THEN CheckWorkflow(w.name, w.lines, pinBlock) ELSE {Finding(w.name, 0, TRUE)} : w \in workflows}
       \cup (IF \E w \in workflows : w.readable /\ w.tests THEN {} ELSE {Finding(NoFile, 0, FALSE)})

-----------------------------------------------------------------------------
(* gitcmd: which rules a commit answers to *)

\* templateFindings: notes on what is missing; the mirror must be the master.
TemplateFindings(missing, master, mirror) ==
  {Finding(m, 0, FALSE) : m \in missing}
  \cup (IF master = "absent" \/ mirror = master THEN {} ELSE {Finding("mirror", 0, mirror # "absent")})

\* CollectFor, in a repository that adopted procoder: the rules, the documents'
\* and the copies' findings, and the message's.
CollectFor(repo, message) ==
  PortabilityCheck(repo.declared, repo.hosts, repo.master, repo.copies, repo.versions)
  \cup ConflictMarkers(repo.files) \cup JunkFiles(repo.files) \cup Oversized(repo.files, repo.limit)
  \cup OnDefaultBranch(repo.branch, DefaultBranch(repo.origin, repo.branches), repo.blockBranch)
  \cup IgnoreCoverage(repo.markers, repo.ignoreFile, repo.ignores)
  \cup AttributionIn(UnpushedCommits(repo.log, repo.tracks, repo.upstream))
  \cup SubjectShape(UnpushedCommits(repo.log, repo.tracks, repo.upstream))
  \cup CiCheck(repo.ci, repo.workflows, repo.pin)
  \cup AttributionInMessage(message) \cup TemplateFindings(repo.missing, repo.prMaster, repo.prMirror)

\* CollectUniversal, in any other: what no repository wants.
CollectUniversal(repo, message) ==
  JunkFiles(repo.files) \cup Oversized(repo.files, repo.limit)
  \cup AttributionIn(UnpushedCommits(repo.log, repo.tracks, repo.upstream)) \cup AttributionInMessage(message)

\* Status and Scrub: their exit codes.
GitStatus(answers, findings) ==
  IF ~answers THEN 2 ELSE IF \E f \in findings : f.blocking THEN 1 ELSE 0
Scrub(readable, text) == IF ~readable THEN 2 ELSE IF AttributionInMessage(text) = {} THEN 0 ELSE 1

-----------------------------------------------------------------------------
(* Properties of one repository *)

\* A finding on a line of the working tree that the last commit has not survives
\* the narrowing, and one on a line that was there before does not.
Written(answers, files, found, kept) ==
  answers => \A f \in found : \A g \in files :
    f.file = g.name /\ f.line \in DOMAIN g.tree =>
      (f \in kept <=> ~g.tracked \/ g.tree[f.line] \notin ToSet(g.head))

\* A message that credits a tool stops the commit that is being written with it,
\* and the next one as long as it is not pushed: in any repository.
CreditIsCaught(repo, message, answers) ==
  LET unpushed == {i \in DOMAIN repo.log : IF repo.tracks THEN i > repo.upstream ELSE i = Len(repo.log)}
  IN  (message = "credits" \/ \E i \in unpushed : repo.log[i].message = "credits") =>
        \A found \in answers : \E f \in found : f.blocking

\* After `procoder agents` has been followed the gate has nothing against the
\* copies, and `procoder agents` has nothing to say.
AgentsSettle(hosts, master, copies, advice) ==
  LET written == [h \in DOMAIN copies |-> IF h \in advice THEN [body |-> master, front |-> TRUE] ELSE copies[h]]
  IN  master \notin {"absent", "unreadable"} /\ hosts # {} =>
        /\ PortabilityCheck(TRUE, hosts, master, written, <<>>) = {}
        /\ Agents(hosts, master, written) = 0

\* A job no line of which bounds its time is reported at its line, and no other
\* line is reported for that.
LinesOf(lines, kind) == {i \in DOMAIN lines : lines[i].kind = kind}
BelowJobs(lines, i) == \E s \in LinesOf(lines, "jobs") : s < i /\ ~\E t \in LinesOf(lines, "top") : s < t /\ t <= i
JobsOf(lines) == {i \in LinesOf(lines, "job") : BelowJobs(lines, i)}
Bounded(lines, i) ==
  \E k \in LinesOf(lines, "timeout") : k > i /\ BelowJobs(lines, k) /\ ~\E j \in JobsOf(lines) : i < j /\ j < k

BoundIsSeen(lines, found) ==
  Cardinality(LinesOf(lines, "jobs")) = 1 /\ (\A i, j \in JobsOf(lines) : lines[i].name = lines[j].name => i = j)
    => \A i \in DOMAIN lines : Finding("ci", i, FALSE) \in found <=> i \in JobsOf(lines) /\ ~Bounded(lines, i)
=============================================================================
