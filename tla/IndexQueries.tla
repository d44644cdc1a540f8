---------------------------- MODULE IndexQueries ----------------------------
(***************************************************************************)
(* What the code index answers (internal/codeindex): the broad tier, tags  *)
(* by file and line; the precise tier, each document's occurrences of its  *)
(* symbols with the bodies of what it defines; and the textual search that *)
(* answers when the precise tier does not. A tier is "absent", "broken" or *)
(* "there".                                                                *)
(***************************************************************************)
EXTENDS Naturals, Sequences, SequencesExt

\* namedSymbol: not a local of the compiler, and not a package.
Named(symbol) == symbol.kind \notin {"local", "package"}

\* scipSymbolIs: by its last descriptor, which they do not have.
SymbolIs(symbol, name) == symbol.name = name /\ Named(symbol)

Callable(symbol) == symbol.kind \in {"call", "type"}
RuntimeCalled(symbol) == symbol.kind = "call" /\ symbol.name \in {"init", "main"}

-----------------------------------------------------------------------------
(* refs *)

\* git grep exits with 1 when it found nothing; any other failure is no answer.
TextualRefs(grep) ==
  CASE grep.end = "ok" -> [code |-> 0, tier |-> "textual", lines |-> grep.lines]
    [] grep.end = "one" -> [code |-> 1, tier |-> "textual", lines |-> {}]
    [] OTHER -> [code |-> 2, tier |-> "none", lines |-> {}]

\* A symbol the precise tier does not know is searched for.
Refs(world, name) ==
  LET lines == UNION {{<<d.path, o.line>> : o \in {o \in ToSet(d.occurrences) : SymbolIs(o.symbol, name)}} :
                        d \in world.scip.documents}
  IN  IF world.scip.state = "there" /\ lines # {} THEN [code |-> 0, tier |-> "precise", lines |-> lines]
      ELSE TextualRefs(world.grep)

-----------------------------------------------------------------------------
(* callers, unused, impls *)

InBody(line, body) == body # <<>> /\ line >= body[1] /\ line <= body[2]
Size(body) == body[2] - body[1]

\* The smallest definition around a line, and of those of one size the first.
Enclosing(occurrences, line) ==
  LET around == {i \in DOMAIN occurrences : occurrences[i].def /\ InBody(line, occurrences[i].body)}
  IN  {i \in around : \A j \in around :
         \/ Size(occurrences[i].body) < Size(occurrences[j].body)
         \/ Size(occurrences[i].body) = Size(occurrences[j].body) /\ i <= j}

\* A call of itself is none.
Edges(scip) ==
  UNION {UNION {{[from |-> d.occurrences[i].symbol, to |-> o.symbol, path |-> d.path, line |-> o.line] :
                   i \in {i \in Enclosing(d.occurrences, o.line) : d.occurrences[i].symbol # o.symbol}} :
                  o \in {o \in ToSet(d.occurrences) : ~o.def /\ Named(o.symbol)}} :
           d \in scip.documents}

Callers(world, name) ==
  LET callers == {e \in Edges(world.scip) : SymbolIs(e.to, name)}
      callees == {e.to : e \in {e \in Edges(world.scip) : SymbolIs(e.from, name) /\ e.to.kind = "call"}}
  IN  IF world.scip.state # "there" \/ callers \cup callees = {} THEN [code |-> 1, callers |-> {}, callees |-> {}]
      ELSE [code |-> 0, callers |-> callers, callees |-> callees]

References(scip, kinds) ==
  UNION {{o.symbol : o \in {o \in ToSet(d.occurrences) : ~o.def}} : d \in {d \in scip.documents : d.kind \in kinds}}

\* Defined in the repository's code and called by nobody there; the tests are told
\* apart, and not what lies outside.
Unused(world) ==
  LET scip == world.scip
      defined == {s \in UNION {{o.symbol : o \in {o \in ToSet(d.occurrences) : o.def}} : d \in {d \in scip.documents : d.kind = "code"}} :
                    Callable(s) /\ ~RuntimeCalled(s)}
  IN  IF scip.state # "there" THEN [code |-> 1, unused |-> {}, testOnly |-> {}]
      ELSE [code |-> 0, unused |-> defined \ References(scip, {"code", "test", "outside"}),
            testOnly |-> (defined \cap References(scip, {"test"})) \ References(scip, {"code", "outside"})]

\* What implements a symbol, where the indexed tree defines it.
Impls(world, name) ==
  LET implementing == UNION {{r.by : r \in {r \in d.implements : SymbolIs(r.of, name)}} : d \in world.scip.documents}
      lines == UNION {{<<d.path, o.line>> : o \in {o \in ToSet(d.occurrences) : o.def /\ o.symbol \in implementing}} :
                        d \in world.scip.documents}
  IN  [code |-> IF world.scip.state = "there" /\ lines # {} THEN 0 ELSE 1, lines |-> IF world.scip.state = "there" THEN lines ELSE {}]

-----------------------------------------------------------------------------
(* rename *)

\* One definition, picked by --at when there are several; of Go, by gopls, at the
\* column where the line still holds the name. What it says is printed, not written.
Rename(world, name, at) ==
  LET defs == {t \in world.tags.all : t.name = name /\ (at = <<>> \/ <<t.path, t.line>> = at)}
  IN  IF world.tags.state # "there" \/ defs = {} THEN [code |-> 1, of |-> {}]
      ELSE IF Cardinality(defs) > 1 THEN [code |-> 2, of |-> {}]
      ELSE IF \E t \in defs : ~t.go THEN [code |-> Refs(world, name).code, of |-> {}]
      ELSE [code |-> IF world.gopls = "diff" /\ \A t \in defs : t.holds THEN 0 ELSE 1,
                     of |-> IF world.gopls = "diff" THEN {t \in defs : t.holds} ELSE {}]

\* impact: the files that mention what the changed files define, but for the names
\* that the search fails for or that too many files mention.
Impact(world, changed, TooCommon) ==
  LET symbols == {t.name : t \in {t \in world.tags.all : t.path \in changed /\ t.definition}}
      mentions(s) == IF world.mentions[s].end = "ok" THEN world.mentions[s].files ELSE {}
  IN  UNION {mentions(s) \ changed : s \in {s \in symbols : Cardinality(mentions(s)) <= TooCommon}}

-----------------------------------------------------------------------------
(* Properties of one index *)

\* index refs, callers, unused: "must never read as the symbol is unused"
\* (query.go:289). No reference is said only when somebody looked and there is none;
\* what is called unused is referred to nowhere, and what only its tests refer to
\* is told apart; whoever else's body refers to a symbol is its caller, and of two
\* bodies the inner one, so that what is neither unused nor called is referred to
\* outside all bodies, by itself, or out of the repository's code. A rename is of the
\* one definition that is meant, where its line still holds it.
AnswersAreLookedUp(world, name, said) ==
  LET docs == world.scip.documents
      there == world.scip.state = "there"
      refers(d) == {o \in ToSet(d.occurrences) : ~o.def}
      bodies(d) == {o \in ToSet(d.occurrences) : o.def /\ o.body # <<>>}
      known == \E d \in docs : \E o \in ToSet(d.occurrences) : SymbolIs(o.symbol, name)
  IN  /\ Cardinality(said.rename.of) <= 1 /\ \A t \in said.rename.of : t.name = name /\ t.holds /\ t.go
      /\ said.refs.code = 1 => world.grep.end = "one" /\ ~(there /\ known)
      /\ said.refs.code = 0 => said.refs.lines # {} /\ (said.refs.tier = "precise" <=> there /\ known)
      /\ \A d \in docs : \A o \in refers(d) :
           /\ o.symbol \notin said.unused.unused
           /\ d.kind # "test" => o.symbol \notin said.unused.testOnly
           /\ there /\ SymbolIs(o.symbol, name) /\ (\E b \in bodies(d) : InBody(o.line, b.body)) =>
                \/ \E e \in said.callers.callers : e.path = d.path /\ e.line = o.line /\ e.to = o.symbol
                \/ \E b \in bodies(d) : InBody(o.line, b.body) /\ b.symbol = o.symbol
      /\ \A e \in said.callers.callers : \E d \in docs : \E b \in bodies(d) :
           /\ d.path = e.path /\ b.symbol = e.from /\ InBody(e.line, b.body)
           /\ \A c \in bodies(d) : InBody(e.line, c.body) => c.body[1] <= b.body[1] /\ b.body[2] <= c.body[2]
      /\ there => \A d \in docs : \A o \in ToSet(d.occurrences) :
           d.kind = "code" /\ o.def /\ o.symbol.kind = "call" /\ o.symbol.name = name /\ ~RuntimeCalled(o.symbol) =>
             \/ o.symbol \in said.unused.unused \cup said.unused.testOnly
             \/ \E e \in said.callers.callers : e.to = o.symbol
             \/ \E f \in docs : \E r \in refers(f) : r.symbol = o.symbol /\
                  ((\A b \in bodies(f) : ~InBody(r.line, b.body)) \/ \E b \in bodies(f) : b.symbol = o.symbol /\ InBody(r.line, b.body))
=============================================================================
