------------------------------ MODULE Documents ------------------------------
(***************************************************************************)
(* The documents of a repository and what a change owes them               *)
(* (internal/docs): links and anchors that resolve, diagrams that compile, *)
(* pages that carry the version, and the obligation of a commit that       *)
(* changes what readers were told. A path is a sequence of names; a page   *)
(* is the sequence of its lines.                                           *)
(***************************************************************************)
EXTENDS Naturals, Sequences, SequencesExt, FiniteSets

Broken(page, line) == [page |-> page, line |-> line, blocking |-> TRUE]
Told(page) == [page |-> page, line |-> 0, blocking |-> FALSE]

-----------------------------------------------------------------------------
(* Lines: "fence" opens or closes a code block, "mermaid" opens a diagram. *)

Fences == {"fence", "mermaid"}

\* The lines outside of code blocks: any fence line opens or closes one.
Prose(lines) ==
  {i \in DOMAIN lines : lines[i].kind \notin Fences /\ Cardinality({j \in 1 .. i : lines[j].kind \in Fences}) % 2 = 0}

\* anchorIDs and headingAnchors: each heading offers GitHub's slug and mkdocs',
\* once if they agree; one that was offered before, with a number.
AnchorIDs(lines) ==
  LET headings == {i \in Prose(lines) : lines[i].kind = "heading"}
      Offers(i) == {lines[i].github, lines[i].mkdocs}
      Earlier(i, slug) == Cardinality({m \in headings : m < i /\ slug \in Offers(m)})
  IN  {<<lines[i].id, 0>> : i \in {i \in DOMAIN lines : lines[i].kind = "id"}}
      \cup UNION {{<<slug, Earlier(i, slug)>> : slug \in Offers(i)} : i \in headings}

\* okfBundleRoot: the nearest directory, up to the repository's, that is a bundle.
BundleRoot(tree, dir) ==
  LET above == {n \in 0 .. Len(dir) : SubSeq(dir, 1, n) \in tree.bundles}
  IN  IF above = {} THEN <<>> ELSE SubSeq(dir, 1, CHOOSE n \in above : \A m \in above : m <= n)

\* Mutant: a link from the root is the repository's, bundle or not.
ResolvedFromRoot(tree, page, link) == (IF link.absolute THEN <<>> ELSE Front(page)) \o link.target

Resolved(tree, page, link) ==
  (IF link.absolute THEN BundleRoot(tree, Front(page)) ELSE Front(page)) \o link.target

\* RelativeRefs: links that leave the repository, or the page for itself, are not
\* looked at.
RelativeRefs(tree, page) ==
  LET lines == tree.pages[page]
      Links == {i \in Prose(lines) : lines[i].kind = "link" /\ ~lines[i].outside /\ lines[i].target # <<>>}
      Found(l) == Resolved(tree, page, l) \in DOMAIN tree.pages
  IN  {Broken(page, i) : i \in {i \in Links :
         \/ ~Found(lines[i])
         \/ lines[i].anchor # "none" /\ <<lines[i].anchor, lines[i].copy>> \notin AnchorIDs(tree.pages[Resolved(tree, page, lines[i])])}}

\* mermaidBlocks: from an opening to the next fence; one without is no block.
BlockLine(lines, s, i) ==
  IF s.open = 0 THEN (IF lines[i].kind = "mermaid" THEN [s EXCEPT !.open = i] ELSE s)
  ELSE IF lines[i].kind \in Fences THEN [open |-> 0, done |-> s.done \cup {s.open}] ELSE s

Blocks(lines) ==
  LET at[i \in 0 .. Len(lines)] == IF i = 0 THEN [open |-> 0, done |-> {}] ELSE BlockLine(lines, at[i - 1], i)
  IN  at[Len(lines)].done

\* MermaidBlocks and compileMermaid: only an mmdc that ends well has compiled.
MermaidBlocks(page, lines, installed, ends) ==
  IF Blocks(lines) = {} THEN {}
  ELSE IF ~installed THEN {Broken(page, CHOOSE i \in Blocks(lines) : \A j \in Blocks(lines) : i <= j)}
  ELSE {Broken(page, i) : i \in {i \in Blocks(lines) : ends[i] # "ok"}}

\* ExternalLinks: what lychee lists, but for pages of one's own site that are
\* there and not deployed yet.
ExternalLinks(pages, installed, run) ==
  IF pages = {} THEN {}
  ELSE IF ~installed \/ run.end = "late" THEN {Broken(CHOOSE p \in pages : TRUE, 0)}
  ELSE IF run.end = "ok" THEN {}
  ELSE IF run.listed = {} THEN {Broken(CHOOSE p \in pages : TRUE, 0)}
  ELSE {IF l.ours /\ l.there THEN Told(l.url) ELSE Broken(l.url, 0) : l \in run.listed}

PagesHealth(installed, answer) ==
  IF ~installed \/ answer = "error" THEN {Broken("pages", 0)}
  ELSE IF answer = "built" THEN {}
  ELSE {Told("pages")}

\* UnclosedSpans and EmptyDocs: a paragraph's marks pair up; a page has a text.
UnclosedSpans(page, paragraphs) == {Told(page) : p \in {p \in paragraphs : p.marks % 2 = 1}}
EmptyDocs(pages) == {Broken(p.name, 0) : p \in {p \in pages : p.there /\ p.readable /\ p.blank}}

-----------------------------------------------------------------------------
(* The rules of a repository, written by itself or the default ones *)

LoadRules(written, default) == [r \in DOMAIN default |-> IF r \in DOMAIN written THEN written[r] ELSE default[r]]

RequiredDocs(rules, there) == {Told(d) : d \in (rules.required \cup {"RULES.md"}) \ there}

\* VersionSync: the version is the first a source declares, and none is if the
\* rules say so before; pages that are there carry it, and so does the changelog.
VersionSync(rules, declared, first, changelog) ==
  LET told == SelectSeq(rules.sources, LAMBDA s : s = "none" \/ declared[s] # "none")
      version == declared[told[1]]
  IN  IF told = <<>> \/ told[1] = "none" THEN {}
      ELSE {Broken(d, 0) : d \in {d \in rules.versioned : first[d] # "absent" /\ version \notin first[d]}}
           \cup (IF changelog # "absent" /\ version \notin changelog THEN {Broken("CHANGELOG.md", 0)} ELSE {})

\* Badges, ReadmeStructure and ReadmeMentions, of a README that is there.
Readme(rules, readme) ==
  IF ~readme.there THEN {}
  ELSE {Told(b) : b \in rules.badges \ readme.badges} \cup {Told(s) : s \in rules.sections \ readme.sections}
       \cup {Broken(m, 0) : m \in rules.mentions \ readme.words}

-----------------------------------------------------------------------------
(* Obligation *)

\* A page of the corpus that changed here or earlier on the branch, or a line in
\* the message that says why none has to.
Answered(repo, changed, message) ==
  \/ \E f \in changed : f.kind = "page" /\ f.inCorpus /\ ~f.ownState /\ f.readable
  \/ repo.branchDoc \/ message = "docs: none"

\* surfaceTriggers: what a file exports now against what it did: at HEAD, or where
\* there is none in the index, if that covers files like it.
Exported(repo, f) ==
  LET was == IF repo.history THEN (IF f.atHead THEN f.was ELSE {}) ELSE (IF f.indexed THEN f.was ELSE {})
      known == repo.history \/ (repo.index /\ (f.indexed \/ repo.covers))
  IN  IF f.kind = "source" /\ known /\ f.now # was THEN {<<"symbol", f.name>>} ELSE {}

Literal(f) == IF f.kind = "source" /\ f.atHead /\ f.readable /\ f.flagsNow # f.flagsWas THEN {<<"flag", f.name>>} ELSE {}
Config(f) == IF f.kind = "config" THEN {<<"config", f.name>>} ELSE {}

\* Drift: a page that names the file; procoder's own notes owe nothing.
Drift(repo, f) == IF f.kind # "page" /\ f.name \in repo.mentioned THEN {<<"mention", f.name>>} ELSE {}

Triggers(repo, changed) == UNION {Exported(repo, f) \cup Literal(f) \cup Config(f) \cup Drift(repo, f) : f \in changed}

\* Notes: what could not be compared, and an answer that could not have been read.
Obligation(repo, changed, message, block) ==
  LET seen == {f \in changed : f.there}
      unknown == \E f \in seen : f.kind = "source" /\ ~repo.history /\ (~repo.index \/ ~(f.indexed \/ repo.covers))
  IN  IF Answered(repo, seen, message) THEN {}
      ELSE (IF unknown THEN {Told("surface")} ELSE {})
           \cup {Told(f.name) : f \in {f \in seen : f.kind = "page" /\ f.inCorpus /\ ~f.ownState /\ ~f.readable}}
           \cup (IF Triggers(repo, seen) = {} THEN {}
                 ELSE {[page |-> "obligation", line |-> 0, blocking |-> block]}
                      \cup (IF message = "" THEN {Told("message")} ELSE {}))

\* SurfaceCoverage: so many of the exported names no page has, the others counted.
SurfaceCoverage(index, words, limit) ==
  IF index = "none" THEN [shown |-> 0, more |-> 0, computed |-> FALSE]
  ELSE LET missing == Cardinality({t \in index : t.exported /\ t.source /\ t.name \notin words})
       IN  [shown |-> IF missing > limit THEN limit ELSE missing,
            more |-> IF missing > limit THEN missing - limit ELSE 0, computed |-> TRUE]

-----------------------------------------------------------------------------
(* Properties of one input *)

\* The anchor a renderer gives a heading: its slug, and how often it was given.
Given(lines, i, slug(_)) ==
  <<slug(lines[i]), Cardinality({j \in Prose(lines) : j < i /\ lines[j].kind = "heading" /\ slug(lines[j]) = slug(lines[i])})>>

GitHub(line) == line.github
Mkdocs(line) == line.mkdocs

\* CheckFile: a link is reported if its page is not there, and is not if a renderer
\* gives its anchor to a heading of the page; a code block says nothing of links.
LinksHold(tree, page, found) ==
  LET lines == tree.pages[page] IN
  \A i \in DOMAIN lines : lines[i].kind = "link" /\ ~lines[i].outside =>
    LET to == (IF ~lines[i].absolute THEN Front(page)
               ELSE IF Front(page) \in tree.bundles THEN Front(page) ELSE <<>>) \o lines[i].target
        Anchors == {Given(tree.pages[to], j, GitHub) : j \in {j \in Prose(tree.pages[to]) : tree.pages[to][j].kind = "heading"}}
                     \cup {Given(tree.pages[to], j, Mkdocs) : j \in {j \in Prose(tree.pages[to]) : tree.pages[to][j].kind = "heading"}}
    IN  IF i \notin Prose(lines) THEN Broken(page, i) \notin found
        ELSE IF to \notin DOMAIN tree.pages THEN Broken(page, i) \in found
        ELSE lines[i].anchor = "none" \/ <<lines[i].anchor, lines[i].copy>> \in Anchors => Broken(page, i) \notin found

\* ExternalLinks: what nobody could follow blocks, and each link that does not answer
\* but for pages of one's own that are there.
OutsideHolds(installed, run, found) ==
  /\ ~installed \/ run.end = "late" \/ (run.end = "bad" /\ run.listed = {}) => \E f \in found : f.blocking
  /\ installed /\ run.end = "bad" =>
       \A l \in run.listed : ~(l.ours /\ l.there) => \E f \in found : f.blocking /\ f.page = l.url

\* Obligation: "Silence never clears it" (obligation.go:40): a change of what a
\* file at HEAD exports is owed an answer, and only a document of the corpus or a
\* line of the message is one; either is enough whatever else has changed, and
\* pages nobody reads change nothing.
OwedUntilAnswered(repo, changed, message, block, found) ==
  LET Owed(set, msg) == \E f \in Obligation(repo, set, msg, block) : f.page = "obligation"
      page == [name |-> "page", kind |-> "page", there |-> TRUE, readable |-> TRUE, inCorpus |-> TRUE, ownState |-> FALSE]
      idle == {f \in changed : f.kind = "page" /\ (~f.inCorpus \/ f.ownState \/ ~f.there)}
      owed == \E f \in found : f.page = "obligation" /\ f.blocking = block
  IN  /\ ~Owed(changed, "docs: none") /\ ~Owed(changed \cup {page}, message)
      /\ owed <=> Owed(changed \ idle, message)
      /\ (\E f \in changed : f.kind = "source" /\ f.there /\ f.atHead /\ repo.history /\ f.was # f.now)
           => \/ owed \/ repo.branchDoc \/ message = "docs: none"
              \/ \E f \in changed \ idle : f.kind = "page" /\ f.readable
==============================================================================
