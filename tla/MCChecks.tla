------------------------------ MODULE MCChecks -------------------------------
(* The documents, for TLC, beside the legs of MCLegs.                         *)
EXTENDS MCLegs, Documents, Specs, IndexQueries

-----------------------------------------------------------------------------
(* docs *)

Line(kind) == [kind |-> kind, id |-> "none", github |-> "none", mkdocs |-> "none", outside |-> FALSE, absolute |-> FALSE,
               target |-> <<>>, anchor |-> "none", copy |-> 0]
Heading(github, mkdocs) == [Line("heading") EXCEPT !.github = github, !.mkdocs = mkdocs]
Identified(id) == [Line("id") EXCEPT !.id = id]
Targets == {Heading("a-b", "a-b"), Heading("a--b", "a-b"), Line("fence"), Identified("c")}
LinkTo(absolute, target, anchor, copy) ==
  [Line("link") EXCEPT !.absolute = absolute, !.target = target, !.anchor = anchor, !.copy = copy]
Links ==
  {LinkTo(absolute, target, anchor, copy) :
     absolute \in BOOLEAN, target \in {<<"to">>, <<"d", "to">>, <<"gone">>}, anchor \in {"none", "a-b", "a--b", "c"}, copy \in 0 .. 2}
\* The page with the link lies in a directory, which may be a bundle of its own.
Pages(from, to) ==
  [p \in {<<"d", "from">>, <<"to">>, <<"d", "to">>} |->
     IF p = <<"d", "from">> THEN from ELSE IF p = <<"to">> THEN <<Heading("a-b", "a-b")>> ELSE to]
WithLinks ==
  {before \o <<link>> : before \in {<<>>, <<Line("fence")>>, <<Line("mermaid"), Line("fence")>>}, link \in Links}
LinkInputs ==
  [bundles : SUBSET {<<"d">>},
   pages : {Pages(from, to) : from \in WithLinks, to \in UNION {[1 .. n -> Targets] : n \in 0 .. 3}}]
AskLinks == Ask("links") /\ said' = RelativeRefs(given, <<"d", "from">>)

DiagramInputs ==
  [lines : UNION {[1 .. n -> {Line("mermaid"), Line("fence"), Line("text")}] : n \in 0 .. 5}, installed : BOOLEAN,
   end : {"ok", "bad", "late"}]
AskDiagrams ==
  /\ Ask("diagrams")
  /\ said' = MermaidBlocks("page", given.lines, given.installed, [i \in DOMAIN given.lines |-> given.end])

OutsideInputs ==
  [installed : BOOLEAN, end : {"ok", "bad", "late"}, listed : SUBSET [url : {"u"}, ours : BOOLEAN, there : BOOLEAN]]
AskOutside ==
  Ask("outside") /\ said' = ExternalLinks({"page"}, given.installed, given)

\* docs.CheckFile: links hold as the renderers read them, a diagram that mmdc has
\* not compiled is reported, and so is each link outside that nobody has followed.
PagesHold ==
  done => CASE about = "links" -> LinksHold(given, <<"d", "from">>, said)
            [] about = "diagrams" ->
                 Blocks(given.lines) # {} /\ (~given.installed \/ given.end # "ok") => \E f \in said : f.blocking
            [] about = "outside" -> OutsideHolds(given.installed, given, said)
            [] OTHER -> TRUE

ChangedPages ==
  [name : {"page"}, kind : {"page"}, there : BOOLEAN, readable : BOOLEAN, inCorpus : BOOLEAN, ownState : BOOLEAN]
Sources ==
  [name : {"s"}, kind : {"source"}, there : BOOLEAN, readable : {TRUE}, atHead : BOOLEAN, indexed : BOOLEAN,
   was : {{}, {"A"}}, now : {{}, {"A"}}, flagsWas : {{}}, flagsNow : {{}, {"--x"}}]
Others == [name : {"s", "t"}, kind : {"config", "other"}, there : BOOLEAN]
Befores ==
  {b \in [history : BOOLEAN, index : BOOLEAN, covers : BOOLEAN, branchDoc : {FALSE}, mentioned : {{}}] :
     b.history => ~b.index /\ ~b.covers}
Repositories ==
  {[before EXCEPT !.branchDoc = branchDoc, !.mentioned = mentioned] :
     before \in Befores, branchDoc \in BOOLEAN, mentioned \in {{}, {"s"}}}
ChangeInputs == {{s} : s \in Sources \cup Others} \cup {{s, p} : s \in Sources, p \in ChangedPages}
ObligationInputs == [repo : Repositories, changed : ChangeInputs, message : {"", "docs: none"}, block : BOOLEAN]
AskObligation ==
  Ask("obligation") /\ said' = Obligation(given.repo, given.changed, given.message, given.block)

\* docs.Obligation: what a commit changes of what readers were told is answered
\* by a document or by a reason, and by nothing else.
ChangesAreAnswered ==
  about = "obligation" /\ done =>
    OwedUntilAnswered(given.repo, given.changed, given.message, given.block, said)

-----------------------------------------------------------------------------
(* spec, plan, backlog seed *)

Text(kind, word) == [Blank EXCEPT !.kind = kind, !.word = word, !.says = "plain"]
Comment(line) == [line EXCEPT !.comment = TRUE]
UpTo(n, lines) == UNION {[1 .. k -> lines] : k \in 0 .. n}

Marked(line, ids, marks) == [line EXCEPT !.ids = ids, !.marks = marks]
Says(line, says) == [line EXCEPT !.says = says]
CriterionLines ==
  {Marked(Text("box", word), {"S-1"}, {"test"}) : word \in {"a", "a-2"}}
    \cup {Text("box", "b"), Says(Marked(Text("box", "b"), {"S-2"}, {}), "..."), Says(Text("box", "b"), "vague"),
          Comment(Marked(Text("box", "b"), {"S-2"}, {"test"})), Marked(Text("more", "c"), {"S-2"}, {"run", "fails if"}),
          Comment(Marked(Text("more", "c"), {}, {"test"})), Marked(Text("text", "c"), {"S-2"}, {"run"}), Blank}
ScopeLines ==
  {Marked(Text("label", "a"), {"S-1"}, {}), Marked(Text("label", "b"), {"S-2"}, {"domain"}),
   [Text("more", "c") EXCEPT !.cites = {<<"file", "there">>}], Text("text", "c"), Comment(Marked(Text("label", "a"), {"S-1"}, {}))}
QuestionLines ==
  {Text("bullet", "a"), [Text("text", "b") EXCEPT !.marks = {"asks"}], Text("text", "b"), Comment(Text("bullet", "b")),
   [Text("bullet", "b") EXCEPT !.marks = {"OPEN"}], Blank}
CitingLines ==
  {[Text(kind, "c") EXCEPT !.cites = {c}] : kind \in {"text", "code"}, c \in {<<"file", "gone">>, <<"command", "new">>, <<"file", "there">>}}

Spec(status, scope, interfaces, criteria, questions) ==
  [status |-> status, readable |-> TRUE,
   sections |-> [s \in Sections |-> IF s = "In scope" THEN scope ELSE IF s = "Interfaces" THEN interfaces
                                    ELSE IF s = "Acceptance criteria" THEN criteria ELSE questions]]
Without(doc, gone) == [doc EXCEPT !.sections = [s \in Sections \ {gone} |-> @[s]]]
Labelled == Marked(Text("label", "a"), {"S-1"}, {})
Tested == Marked(Text("box", "a"), {"S-1"}, {"test"})
NoAnswers == [readable |-> TRUE, settled |-> {}]

CriterionSpecs ==
  {Spec(status, scope, <<Text("text", "c")>>, criteria, <<>>) :
     status \in {"draft", "complete"}, scope \in UpTo(2, ScopeLines), criteria \in UpTo(3, CriterionLines)}
QuestionSpecs ==
  {Spec("other", <<Labelled>>, <<Text("text", "c")>>, <<Tested>>, questions) : questions \in UpTo(3, QuestionLines)}
CitingSpecs ==
  {Spec(status, <<Labelled>> \o claims, interfaces, <<Tested>>, <<>>) :
     status \in {"draft", "complete", "other"}, claims \in UpTo(2, CitingLines), interfaces \in UpTo(2, CitingLines)}
ShortSpecs == {Without(Spec("draft", <<Labelled>>, <<>>, <<Tested>>, <<>>), gone) : gone \in Sections}
SpecInputs ==
  [doc : CriterionSpecs \cup CitingSpecs \cup ShortSpecs, answers : {NoAnswers}, later : {TRUE}]
  \cup
  [doc : QuestionSpecs, answers : [readable : BOOLEAN, settled : SUBSET {<<"a">>, <<"b">>, <<"a", "b">>}], later : BOOLEAN]

Slugs ==
  [words \in UpTo(3, {"a", "a-2", "b", "c"}) \ {<<>>} |-> IF words[1] = "a-2" THEN <<"a", 2>> ELSE <<words[1]>>]
Repo == {<<"file", "there">>}
AskSpec ==
  /\ Ask("spec")
  /\ said' = Seed(given.doc, [given.doc EXCEPT !.readable = given.later], Repo, given.answers, FALSE, Slugs)

PlanLines ==
  {Text("task", "t"), Comment(Text("task", "t")), Text("files", "f"), Text("box", "b"), Comment(Text("box", "b")),
   [Text("text", "c") EXCEPT !.marks = {"TODO"}]}
PlanInputs ==
  [lines : UpTo(6, PlanLines), sections : {[s \in {"Goal", "Architecture", "Constraints"} |-> <<Text("text", "c")>>]}]
AskPlan == Ask("plan") /\ said' = PlanGaps(given)

\* spec.Check, plan.Check and backlog.Seed: what is called COMPLETE is.
PlansHold ==
  done => CASE about = "spec" ->
                 /\ SeededIsFinished(given.doc, given.answers, said)
                 /\ ClaimsAreThere(given.doc, Repo, SpecGaps(given.doc, Repo, given.answers))
            [] about = "plan" -> TasksAreWhole(given)
            [] OTHER -> TRUE

-----------------------------------------------------------------------------
(* codeindex *)

Symbol(name, kind) == [name |-> name, kind |-> kind]
Def(name, kind, line, body) == [line |-> line, symbol |-> Symbol(name, kind), def |-> TRUE, body |-> body]
Refer(name, kind, line) == [line |-> line, symbol |-> Symbol(name, kind), def |-> FALSE, body |-> <<>>]
Document(path, kind, occurrences, implements) ==
  [path |-> path, kind |-> kind, occurrences |-> occurrences, implements |-> implements]
\* A type or a function with another in its body, or of the same lines, and what is
\* referred to in both, in one and in neither.
Symbols == {<<"f", "call">>, <<"g", "call">>, <<"f", "local">>, <<"main", "call">>}
Bodies == {<<Def(f, "call", 1, <<1, 6>>), Def("g", "call", 2, body)>> : f \in {"f", "main"}, body \in {<<>>, <<2, 4>>, <<1, 6>>}}
Referring == {Refer(s[1], s[2], line) : s \in Symbols, line \in {1, 3, 5, 8}}
Elsewhere == {Refer("g", "call", 1), Refer("f", "call", 1), Def("f", "type", 1, <<>>)}
Indexed(bodies, refs, kind, other) ==
  {Document("a", "code", bodies \o refs, {}), Document("b", kind, other, {[by |-> Symbol("g", "call"), of |-> Symbol("f", "type")]})}
Documents(most) ==
  {Indexed(bodies, refs, kind, other) :
     bodies \in Bodies, refs \in UpTo(most, Referring), kind \in {"code", "test", "outside"}, other \in UpTo(1, Elsewhere)}
Tag(path, go, holds) == [name |-> "f", path |-> path, line |-> 1, go |-> go, holds |-> holds, definition |-> TRUE]
Pair(go, holds) == {Tag("a", go, holds), Tag("b", TRUE, TRUE)}
TwoTags == {Pair(go, holds) : go \in BOOLEAN, holds \in BOOLEAN}
Grep(end) == [end |-> end, lines |-> IF end = "ok" THEN {<<"a", 1>>} ELSE {}]
Greps == {Grep(end) : end \in {"ok", "one", "late"}}
Mentioned == {[f |-> [end |-> "ok", files |-> {"a", "b"}]]}
\* Every precise tier over a search that finds nothing, and small ones over any.
PreciseTiers == [state : {"there"}, documents : Documents(2)]
SmallTiers == [state : {"absent", "there"}, documents : Documents(1)]
BroadTiers == [state : {"there"}, all : TwoTags]
QueryInputs ==
  [scip : SmallTiers, grep : Greps, name : {"f", "g"}, at : {<<>>, <<"a", 1>>}, tags : BroadTiers, gopls : {"diff"},
   mentions : Mentioned]
  \cup
  [scip : PreciseTiers, grep : {Grep("one")}, name : {"f", "g"}, at : {<<>>}, tags : {[state |-> "absent", all |-> {}]},
   gopls : {"diff"}, mentions : Mentioned]
AskIndex ==
  /\ Ask("index")
  /\ said' = [refs |-> Refs(given, given.name), callers |-> Callers(given, given.name), unused |-> Unused(given),
              impls |-> Impls(given, given.name), rename |-> Rename(given, given.name, given.at),
              impact |-> Impact(given, {"a"}, 1)]

\* index: an answer was looked up, or says that it was not.
AnswersHold == about = "index" /\ done => AnswersAreLookedUp(given, given.name, said)

\* docs, spec, plan, codeindex: what is written holds, what changes is written about,
\* what is promised is built, and what is asked of the code is looked up.
DocumentsHold == PagesHold /\ ChangesAreAnswered /\ PlansHold /\ AnswersHold

-----------------------------------------------------------------------------
ChecksInit ==
  \/ LegsInit
  \/ /\ done = FALSE /\ said = {}
     /\ \/ about = "links" /\ given \in LinkInputs
        \/ about = "diagrams" /\ given \in DiagramInputs
        \/ about = "outside" /\ given \in OutsideInputs
        \/ about = "obligation" /\ given \in ObligationInputs
        \/ about = "spec" /\ given \in SpecInputs
        \/ about = "plan" /\ given \in PlanInputs
        \/ about = "index" /\ given \in QueryInputs

ChecksNext == LegsNext \/ AskLinks \/ AskDiagrams \/ AskOutside \/ AskObligation \/ AskSpec \/ AskPlan \/ AskIndex

ChecksSpec == ChecksInit /\ [][ChecksNext]_vars
=============================================================================
