-------------------------------- MODULE Specs --------------------------------
(***************************************************************************)
(* Specs and what is seeded from them (internal/spec, internal/plan,       *)
(* internal/analysis, internal/backlog/seed.go): the gaps of a document,   *)
(* the scope its criteria cite, what its claims and criteria can be held   *)
(* to, and the stories that Seed prints from a COMPLETE one. A section is  *)
(* the sequence of its lines; a line has a kind, the ids it cites, the     *)
(* citations it makes and the marks that the checks look for in its words. *)
(***************************************************************************)
EXTENDS Naturals, Sequences, SequencesExt, FiniteSets

\* "box" is `- [ ]`, "label" another bullet that opens a bracket, "more" an indented
\* line, "code" one between fences; a line of a comment has comment set.
Blank == [kind |-> "blank", comment |-> FALSE, word |-> "none", says |-> "nothing", ids |-> {}, cites |-> {}, marks |-> {}]

\* textutil.Section: a section that is not there has no lines.
Section(doc, name) == IF name \in DOMAIN doc.sections THEN doc.sections[name] ELSE <<>>

\* textutil.StripComments, and what is left of code when fences are taken out.
StripComments(lines) == [i \in DOMAIN lines |-> IF lines[i].comment THEN Blank ELSE lines[i]]
StripFences(lines) == [i \in DOMAIN lines |-> IF lines[i].kind = "code" THEN Blank ELSE lines[i]]

Content(lines) == {i \in DOMAIN lines : StripComments(lines)[i].kind # "blank"}

\* "a heading is not an answer", but for the open questions.
SectionGaps(doc, names) ==
  {<<"missing", s>> : s \in names \ DOMAIN doc.sections}
    \cup {<<"empty", s>> : s \in {s \in (names \cap DOMAIN doc.sections) \ {"Open questions"} : Content(Section(doc, s)) = {}}}

-----------------------------------------------------------------------------
(* Scope and questions *)

IdsIn(lines) == UNION {lines[i].ids : i \in DOMAIN lines}

\* ScopeCoverage and ScopePromises: the ids of the scope, its comments included,
\* that no line of the criteria cites.
ScopeCoverage(doc) ==
  LET promised == IdsIn(Section(doc, "In scope"))
  IN  IF promised = {} THEN (IF Content(Section(doc, "In scope")) = {} THEN {} ELSE {<<"unlabelled", "In scope">>})
      ELSE {<<"untested", id>> : id \in promised \ IdsIn(StripComments(Section(doc, "Acceptance criteria")))}

\* continuesPrevious: plain lines that do not end like a question.
ContinuesPrevious(line) == line.kind \in {"text", "more", "code"} /\ line.marks \cap {"OPEN", "asks"} = {}

\* OpenQuestions: each by its words, without bullet and label, across blank lines.
QuestionLine(asked, line) ==
  IF line.kind = "blank" THEN asked
  ELSE IF ContinuesPrevious(line) /\ asked # <<>> THEN [asked EXCEPT ![Len(asked)] = Append(@, line.word)]
  ELSE Append(asked, <<line.word>>)
OpenQuestions(lines) == FoldLeft(QuestionLine, <<>>, StripComments(lines))

\* openQuestions: "unknown is not answered".
Unanswered(lines, answers) ==
  {q \in ToSet(OpenQuestions(lines)) : ~answers.readable \/ q \notin answers.settled}

-----------------------------------------------------------------------------
(* Truth: of the claims and criteria of a draft *)

\* joinWrapped: a bullet and the indented lines that follow it.
Wrapped(lines, i) == {j \in DOMAIN lines : j >= i /\ \A k \in i + 1 .. j : lines[k].kind = "more"}
MarksOf(lines, i) == UNION {lines[j].marks : j \in Wrapped(lines, i)}

ClaimSections == {"In scope", "Constraints", "Interfaces", "Decisions"}

\* declaredCommands: a draft may name the commands its interfaces introduce.
DeclaredCommands(doc) ==
  IF doc.status # "draft" THEN {}
  ELSE {c \in UNION {line.cites : line \in ToSet(Section(doc, "Interfaces"))} : c[1] = "command"}

UnresolvedCitations(doc, repo) ==
  {<<"cites", c[2]>> : c \in (UNION {line.cites : line \in UNION {ToSet(StripFences(Section(doc, s))) : s \in ClaimSections}})
                                \ (repo \cup DeclaredCommands(doc))}

\* UncheckableCriteria, CriteriaWithoutFalsifiers and WeakOracles, of whatever opens
\* a bracket: what is run, what the fixture needs, what makes it fail.
CriterionFaults(marks) ==
  {f \in {"unobservable", "setup", "unfalsified", "weak"} :
     CASE f = "unobservable" -> marks \cap {"run", "test"} = {}
       [] f = "setup" -> marks \cap {"run", "test"} # {} /\ "domain" \in marks /\ "setup" \notin marks
       [] f = "unfalsified" -> marks \cap {"fails if", "test"} = {}
       [] f = "weak" -> "weak" \in marks}

Bracketed(lines) == {i \in DOMAIN lines : lines[i].kind \in {"box", "label"}}

\* UncitedClaims: a promise that names a domain and cites nothing.
UncitedClaims(lines) ==
  {i \in DOMAIN lines : lines[i].kind = "label" /\ lines[i].ids # {} /\ "domain" \in MarksOf(lines, i)
                              /\ \A j \in Wrapped(lines, i) : lines[j].cites = {}}

TruthGaps(doc, repo) ==
  LET criteria == Section(doc, "Acceptance criteria")
  IN  UnresolvedCitations(doc, repo)
      \cup (UNION {{<<f, "criterion">> : f \in CriterionFaults(MarksOf(criteria, i))} : i \in Bracketed(criteria)})
      \cup {<<"uncited", "In scope">> : i \in UncitedClaims(StripFences(Section(doc, "In scope")))}

-----------------------------------------------------------------------------
(* Check and Seed *)

Sections == {"In scope", "Interfaces", "Acceptance criteria", "Open questions"}

\* checkOne: a spec marked complete is not held to the truth checks. Boxes are
\* looked for in comments too, and judged by their first line without its ids.
SpecGaps(doc, repo, answers) ==
  LET criteria == Section(doc, "Acceptance criteria")
      boxes == {i \in DOMAIN criteria : criteria[i].kind = "box"}
      questions == Section(doc, "Open questions")
  IN  SectionGaps(doc, Sections)
      \cup {<<"open", s>> : s \in {s \in DOMAIN doc.sections : \E line \in ToSet(doc.sections[s]) : "OPEN" \in line.marks}}
      \cup {<<"question", "unanswered">> : q \in Unanswered(questions, answers)}
      \cup ScopeCoverage(doc)
      \cup (IF doc.status = "complete" THEN {} ELSE TruthGaps(doc, repo))
      \cup (IF "Acceptance criteria" \in DOMAIN doc.sections /\ boxes = {} THEN {<<"criteria", "no boxes">>} ELSE {})
      \cup {<<"criteria", criteria[i].says>> : i \in {i \in boxes : criteria[i].says \in {"...", "vague"}}}

\* Check of one spec or of all: the worst of them.
SpecCheck(docs, repo, answers) ==
  LET Code(d) == IF ~d.readable THEN 2 ELSE IF SpecGaps(d, repo, answers) = {} THEN 0 ELSE 1
  IN  IF \E d \in docs : Code(d) = 2 THEN 2 ELSE IF \E d \in docs : Code(d) = 1 THEN 1 ELSE 0

\* criteria: the boxes that are not comments nor placeholders, each with the lines
\* that follow it up to a blank one.
CriterionLine(s, line) ==
  IF line.kind = "box" /\ line.says = "..." /\ line.ids = {} THEN [list |-> s.list, continuing |-> FALSE]
  ELSE IF line.kind = "box"
    THEN [list |-> Append(s.list, [words |-> <<line.word>>, ids |-> line.ids, marks |-> line.marks]), continuing |-> TRUE]
  ELSE IF line.kind = "blank" \/ ~s.continuing THEN [list |-> s.list, continuing |-> FALSE]
  ELSE [list |-> [s.list EXCEPT ![Len(s.list)] =
          [words |-> Append(@.words, line.word), ids |-> @.ids \cup line.ids, marks |-> @.marks \cup line.marks]],
        continuing |-> TRUE]
Criteria(lines) == FoldLeft(CriterionLine, [list |-> <<>>, continuing |-> FALSE], StripComments(lines)).list

\* The file names of the stories: the slug of a criterion, numbered from 2 where it
\* is taken. A slug is a sequence, its number the last of it; `slugs` gives words theirs.
NameOf(taken, slug) ==
  IF slug \notin ToSet(taken) THEN slug
  ELSE Append(slug, CHOOSE n \in 2 .. Len(taken) + 2 :
                      /\ Append(slug, n) \notin ToSet(taken)
                      /\ \A m \in 2 .. n - 1 : Append(slug, m) \in ToSet(taken))
Names(wanted) == FoldLeft(LAMBDA taken, slug : Append(taken, NameOf(taken, slug)), <<>>, wanted)

\* Seed: the spec is read again once it is COMPLETE; `later` is what it says then.
Seed(doc, later, repo, answers, epicThere, slugs) ==
  LET code == SpecCheck({doc}, repo, answers)
      criteria == Criteria(Section(later, "Acceptance criteria"))
      names == Names([i \in DOMAIN criteria |-> slugs[criteria[i].words]])
  IN  IF code # 0 THEN [code |-> code, stories |-> <<>>]
      ELSE IF ~later.readable THEN [code |-> 2, stories |-> <<>>]
      ELSE IF criteria = <<>> THEN [code |-> 1, stories |-> <<>>]
      ELSE IF epicThere THEN [code |-> 2, stories |-> <<>>]
      ELSE [code |-> 0, stories |-> [i \in DOMAIN criteria |-> [file |-> names[i], criterion |-> criteria[i]]]]

-----------------------------------------------------------------------------
(* Plans *)

\* plan.checkOne: a placeholder in what is no comment, and tasks, those of comments
\* too, each with its files and a step before the next.
PlanGaps(plan) ==
  LET lines == plan.lines
      tasks == {i \in DOMAIN lines : lines[i].kind = "task"}
      Body(i) == {StripComments(lines)[j].kind : j \in {j \in DOMAIN lines : j > i /\ \A k \in i + 1 .. j : k \notin tasks}}
  IN  SectionGaps(plan, {"Goal", "Architecture", "Constraints"})
      \cup {<<"placeholder", lines[i].word>> : i \in {i \in Content(lines) : "TODO" \in lines[i].marks}}
      \cup (IF tasks = {} THEN {<<"tasks", "none">>} ELSE {})
      \cup {<<"task", need>> : need \in {need \in {"files", "box"} : \E i \in tasks : need \notin Body(i)}}

-----------------------------------------------------------------------------
(* Properties of one input *)

\* A criterion as a reader of the page sees it: a box and what is under it.
Under(lines, i) ==
  {j \in DOMAIN lines : j >= i /\ \A k \in i + 1 .. j : StripComments(lines)[k].kind \notin {"blank", "box"}}
Seen(lines) == {i \in Content(lines) : lines[i].kind = "box" /\ ~(lines[i].says = "..." /\ lines[i].ids = {})}

\* Seed: "backlog seed writes one story per criterion" of a finished spec, each in a
\* file of its own: no question is left that nobody answered, each promise whose id
\* only criteria cite has a story that cites it (coverage.go:13, "the epic closes
\* while the feature ships half-built"), and a story of a draft says how it is
\* observed and what makes it fail, where no comment breaks its criterion.
SeededIsFinished(doc, answers, seeded) ==
  LET scope == Section(doc, "In scope")
      criteria == Section(doc, "Acceptance criteria")
      Told == {seeded.stories[n].criterion : n \in DOMAIN seeded.stories}
      promised == IdsIn(StripComments(scope))
      InCriteria(id) == \A j \in Content(criteria) : id \in criteria[j].ids => \E i \in Seen(criteria) : j \in Under(criteria, i)
  IN  seeded.code = 0 =>
        /\ Len(seeded.stories) = Cardinality(Seen(criteria))
        /\ Cardinality({seeded.stories[n].file : n \in DOMAIN seeded.stories}) = Len(seeded.stories)
        /\ \A i \in Content(Section(doc, "Open questions")) :
             /\ answers.readable
             /\ \E q \in answers.settled : Section(doc, "Open questions")[i].word \in ToSet(q)
        /\ \A id \in promised : InCriteria(id) => \E c \in Told : id \in c.ids
        /\ promised # {} \/ IdsIn(scope) # {}
        /\ doc.status # "complete" /\ (\A i \in DOMAIN criteria : ~criteria[i].comment) =>
             \A c \in Told : c.marks \cap {"run", "test"} # {} /\ c.marks \cap {"fails if", "test"} # {}

\* Check of a spec that is marked draft: what it cites is there, or is a command
\* that the spec itself introduces among its interfaces; one marked complete names
\* no such command unremarked.
ClaimsAreThere(doc, repo, gaps) ==
  \A s \in ClaimSections : \A i \in Content(Section(doc, s)) : LET line == Section(doc, s)[i] IN
    line.kind # "code" /\ gaps = {} /\ doc.status # "complete" =>
      \A c \in line.cites : c \in repo \/ (c[1] = "command" /\ \E l \in ToSet(Section(doc, "Interfaces")) : c \in l.cites)

\* plan.Check: each task of a COMPLETE plan has its own files and steps.
TasksAreWhole(plan) ==
  PlanGaps(plan) = {} =>
    \A i \in Content(plan.lines) : plan.lines[i].kind = "task" =>
      \A need \in {"files", "box"} :
        \E j \in Content(plan.lines) : /\ j > i /\ plan.lines[j].kind = need
                                       /\ \A k \in i .. j : plan.lines[k].kind = "task" => k = i
==============================================================================
