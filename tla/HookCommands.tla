----------------------------- MODULE HookCommands -----------------------------
(***************************************************************************)
(* What the hooks read and write (internal/hook/commit.go, hook.go): the   *)
(* command a host is about to run, as shell words, and the commit it makes *)
(* with its message; the parts of the message an agent gets after a write, *)
(* within the bytes its host delivers.                                     *)
(***************************************************************************)
EXTENDS Naturals, Sequences, SequencesExt, FiniteSets, FiniteSetsExt

\* A shell word and whether it was quoted; an operator is the word ";".
Word(w) == [word |-> w, quoted |-> FALSE]
Quoted(w) == [word |-> w, quoted |-> TRUE]
Operator == Word(";")

\* Options of git that take the next word, assignments, and how an option of
\* `commit` carries a value.
GitValueFlags == {"-C", "-c"}
GitFlags == GitValueFlags \cup {"--no-pager"}
Assignments == {"VAR=1"}
MessageFlags == {"-m", "-F"}

-----------------------------------------------------------------------------
(* The characters of a command, as tokenize tells them apart *)

\* Three characters by name: a backslash and both quotes.
Backslash == "\\"
DoubleQuote == "\""
SingleQuote == "'"
QuoteMarks == {SingleQuote, DoubleQuote}

\* Quotes hold a word together, a backslash the next character; $ before a quote
\* is dropped; the operators end a word and a segment, && and || as one. State:
\* the words, the word that grows, whether it has begun and was quoted, and what
\* is open.
Flushed(s) == IF s.has THEN Append(s.out, [word |-> s.cur, quoted |-> s.quoted]) ELSE s.out
Ended(s, out, skip) == [out |-> out, cur |-> <<>>, has |-> FALSE, quoted |-> FALSE, open |-> s.open, skip |-> skip]
TokenizeStep(s, c, next) ==
  IF s.skip THEN [s EXCEPT !.skip = FALSE]
  ELSE IF s.open # "none" /\ c = s.open THEN [s EXCEPT !.open = "none"]
  ELSE IF s.open = SingleQuote \/ (s.open = DoubleQuote /\ (c = Backslash => next = "end")) THEN [s EXCEPT !.cur = Append(@, c)]
  ELSE IF c = Backslash /\ next = "end" THEN s
  ELSE IF c = Backslash /\ next = "newline" /\ s.open = "none" THEN [s EXCEPT !.skip = TRUE]
  ELSE IF c = Backslash THEN [s EXCEPT !.skip = TRUE, !.cur = Append(@, next), !.has = TRUE]
  ELSE IF c \in QuoteMarks THEN [s EXCEPT !.open = c, !.has = TRUE, !.quoted = TRUE]
  ELSE IF c = "$" /\ next \in QuoteMarks THEN s
  ELSE IF c = "space" THEN Ended(s, Flushed(s), FALSE)
  ELSE IF c \in {"newline", ";", "&"} THEN Ended(s, Append(Flushed(s), Word(<<";">>)), c = "&" /\ next = "&")
  ELSE [s EXCEPT !.cur = Append(@, c), !.has = TRUE]

Tokenize(chars) ==
  LET at[i \in 0 .. Len(chars)] ==
        IF i = 0 THEN [out |-> <<>>, cur |-> <<>>, has |-> FALSE, quoted |-> FALSE, open |-> "none", skip |-> FALSE]
        ELSE TokenizeStep(at[i - 1], chars[i], IF i < Len(chars) THEN chars[i + 1] ELSE "end")
  IN  Flushed(at[Len(chars)])

-----------------------------------------------------------------------------
(* The words of a command *)

\* splitSegments: the words between two operators, each segment at its start.
SplitSegments(tokens) ==
  LET operators == {i \in DOMAIN tokens : tokens[i] = Operator}
      Until(i) == Min({j \in operators \cup {Len(tokens) + 1} : j > i})
  IN  [i \in {0} \cup operators |-> SubSeq(tokens, i + 1, Until(i) - 1)]

\* stripPrefixWords: `env` and assignments before the program.
StripPrefixWords(seg) ==
  LET first == {i \in DOMAIN seg : seg[i].quoted \/ seg[i].word \notin {"env"} \cup Assignments}
  IN  IF first = {} THEN <<>> ELSE SubSeq(seg, Min(first), Len(seg))

IsGitWord(t) == ~t.quoted /\ t.word \in {"git", "/usr/bin/git"}

\* The places that are read by themselves: a flag that takes a value takes the
\* next word, whatever it is.
Alone(words, flags) ==
  FoldLeft(LAMBDA read, i : IF i - 1 \in read /\ words[i - 1] \in {Word(f) : f \in flags} THEN read ELSE read \cup {i},
           {}, [i \in DOMAIN words |-> i])

\* Where git's own options end.
Subcommand(seg) ==
  Min({i \in Alone(seg, GitValueFlags) : i > 1 /\ seg[i] \notin {Word(f) : f \in GitFlags}} \cup {Len(seg) + 1})

\* The last word behind `-C`, in a segment that calls git.
DirOf(seg) ==
  LET flags == {i \in Alone(seg, GitValueFlags) : seg[i] = Word("-C") /\ i < Subcommand(seg) /\ i < Len(seg)}
  IN  IF flags = {} THEN "none" ELSE seg[Max(flags) + 1].word

CommitsIn(seg) ==
  /\ seg # <<>> /\ IsGitWord(seg[1])
  /\ Subcommand(seg) <= Len(seg) /\ seg[Subcommand(seg)] = Word("commit")

\* What the words behind `commit` say; a quoted word says nothing.
Arguments(words) ==
  LET read == Alone(words, MessageFlags)
      Told(flag) == {i \in read : words[i] = Word(flag) /\ i < Len(words)}
  IN  [noVerify |-> \E i \in read : words[i] = Word("-n"), messages |-> {words[i + 1].word : i \in Told("-m")},
       file |-> IF Told("-F") = {} THEN "none" ELSE words[Max(Told("-F")) + 1].word]

\* parseCommand: the first commit of the chain; where it runs is the last `-C` up
\* to it, else the first `cd`.
Chained(tokens) == [k \in DOMAIN SplitSegments(tokens) |-> StripPrefixWords(SplitSegments(tokens)[k])]
ParseCommand(tokens) ==
  LET segs == Chained(tokens)
      commits == {k \in DOMAIN segs : CommitsIn(segs[k])}
      upTo == {k \in DOMAIN segs : commits = {} \/ k <= Min(commits)}
      dirs == {k \in upTo : segs[k] # <<>> /\ IsGitWord(segs[k][1]) /\ DirOf(segs[k]) # "none"}
      cds == {k \in upTo : Len(segs[k]) >= 2 /\ segs[k][1].word = "cd"}
      seg == segs[Min(commits)]
      args == IF commits = {} THEN Arguments(<<>>) ELSE Arguments(SubSeq(seg, Subcommand(seg) + 1, Len(seg)))
  IN  [isCommit |-> commits # {}, noVerify |-> args.noVerify, messages |-> args.messages, file |-> args.file,
       dir |-> IF dirs # {} THEN DirOf(segs[Max(dirs)]) ELSE IF cds = {} THEN "none" ELSE segs[Min(cds)][2].word]

-----------------------------------------------------------------------------
(* Heredocs: the lines of a command. An opening line says its delimiter, what
   it redirects to and whether tabs may indent the end.                        *)

Ends(line, open) == line.kind = "end" /\ line.delim = open.delim /\ (line.tabs => open.dash)

\* The lines between an opening and its end, or none.
Body(lines, i) ==
  LET ends == {j \in i + 1 .. Len(lines) : Ends(lines[j], lines[i])}
  IN  IF ends = {} THEN <<>> ELSE SubSeq(lines, i + 1, Min(ends) - 1)

\* An opening inside another body opens nothing.
OpeningLine(lines, s, i) ==
  IF s.in # 0 THEN (IF Ends(lines[i], lines[s.in]) THEN [in |-> 0, set |-> s.set] ELSE s)
  ELSE IF lines[i].kind = "open" THEN [in |-> i, set |-> s.set \cup {i}] ELSE s
Openings(lines) ==
  LET opens[i \in 0 .. Len(lines)] == IF i = 0 THEN [in |-> 0, set |-> {}] ELSE OpeningLine(lines, opens[i - 1], i)
  IN  opens[Len(lines)].set

\* heredocInto: the first heredoc that writes exactly this file, and ends.
HeredocInto(lines, file) ==
  LET into == {i \in Openings(lines) : lines[i].into = file /\ \E j \in i + 1 .. Len(lines) : Ends(lines[j], lines[i])}
  IN  IF into = {} THEN [found |-> FALSE, body |-> <<>>] ELSE [found |-> TRUE, body |-> Body(lines, Min(into))]

\* What the commit's message is taken to be: standard input is the first heredoc
\* of the command, a file the heredoc that writes it, or what lies there.
Message(args, lines, onDisk) ==
  IF args.file = "none" THEN SetToSeq(args.messages)
  ELSE IF args.file = "-" THEN (IF Openings(lines) = {} THEN <<>> ELSE Body(lines, Min(Openings(lines))))
  ELSE IF HeredocInto(lines, args.file).found THEN HeredocInto(lines, args.file).body ELSE onDisk

-----------------------------------------------------------------------------
(* What an agent is told after a write. A part is [size, keep, text]. *)

\* Run: a document's findings, or drift, secrets and lint; only a secret has to
\* be kept. The index is refreshed whatever there is to say.
PartsOf(markdown, says) ==
  LET Part(name, keep) == IF says[name] = 0 THEN <<>> ELSE <<[size |-> says[name], keep |-> keep]>>
  IN  Part("format", FALSE) \o Part("workflow", FALSE)
      \o (IF markdown THEN Part("docs", FALSE) ELSE Part("drift", FALSE) \o Part("secrets", TRUE) \o Part("lint", FALSE))
      \o Part("ask", FALSE)

\* Mutant: parts are taken in their order.
FitInOrder(parts, limit) ==
  LET all[i \in 0 .. Len(parts)] ==
        IF i = 0 THEN [kept |-> <<>>, used |-> 0]
        ELSE LET s == all[i - 1]  cost == parts[i].size + (IF s.used > 0 THEN 2 ELSE 0)
             IN  IF s.used + cost > limit THEN s ELSE [kept |-> Append(s.kept, i), used |-> s.used + cost]
  IN  [kept |-> all[Len(parts)].kept, used |-> all[Len(parts)].used, dropped |-> Len(parts) - Len(all[Len(parts)].kept)]

\* take: a part that still fits is kept; two bytes stand between parts.
Take(parts, limit, s, i) ==
  LET cost == parts[i].size + (IF s.used > 0 THEN 2 ELSE 0)
  IN  IF s.used + cost > limit THEN s ELSE [kept |-> Append(s.kept, i), used |-> s.used + cost]
Pass(parts, limit, picks, start) ==
  FoldLeft(LAMBDA s, i : IF i \in picks THEN Take(parts, limit, s, i) ELSE s, start, [i \in DOMAIN parts |-> i])

\* fit: those to be kept first, then each that still fits; what is left out is counted.
Fit(parts, limit) ==
  LET first == Pass(parts, limit, {i \in DOMAIN parts : parts[i].keep}, [kept |-> <<>>, used |-> 0])
      all == Pass(parts, limit, DOMAIN parts \ ToSet(first.kept), first)
  IN  [kept |-> all.kept, used |-> all.used, dropped |-> Len(parts) - Len(all.kept)]

\* oneLine and askPart: five of the pending questions, and how many more.
AskPart(pending) == [shown |-> IF pending > 5 THEN 5 ELSE pending, more |-> IF pending > 5 THEN pending - 5 ELSE 0]

-----------------------------------------------------------------------------
(* Properties of one input *)

\* A command is made of phrases: words before the program, the program, its
\* options, and what it is told.
Words(phrase) == phrase.before \o phrase.program \o phrase.options \o phrase.verb \o phrase.args
CommandOf(phrases) ==
  FlattenSeq([k \in DOMAIN phrases |-> IF k = 1 THEN Words(phrases[k]) ELSE <<Operator>> \o Words(phrases[k])])

\* PreToolUse: a commit is seen behind `env`, assignments, git's own options and
\* other commands, one that is only talked about is not, and what is read off it
\* are its own flags and messages, not words its options take.
CommitIsSeen(phrases, parsed) ==
  LET commits == {k \in DOMAIN phrases : phrases[k].program = <<Word("git")>> /\ phrases[k].verb = <<Word("commit")>>}
      p == phrases[Min(commits)]
      Value(flag, j) == p.args[j] = Word(flag) /\ j < Len(p.args) /\ (j = 1 \/ p.args[j - 1] # Word(flag))
      own == {j \in DOMAIN p.options : j > 1 /\ p.options[j - 1] = Word("-C")}
  IN  /\ parsed.isCommit <=> commits # {}
      /\ commits # {} =>
           /\ parsed.messages = {p.args[j + 1].word : j \in {j \in DOMAIN p.args : Value("-m", j)}}
           /\ parsed.noVerify <=> \E j \in DOMAIN p.args : p.args[j] = Word("-n") /\ (j = 1 \/ ~Value("-m", j - 1))
           /\ own # {} => parsed.dir = p.options[Max(own)].word

\* Between two quotes nothing ends a word, and outside them nothing is lost.
Around(mark, inside) == <<"x", "space", mark>> \o inside \o <<mark, "&", "&", "y">>
QuotesHold(inside, words) ==
  words = <<[word |-> <<"x">>, quoted |-> FALSE], [word |-> inside, quoted |-> TRUE], Word(<<";">>), [word |-> <<"y">>, quoted |-> FALSE]>>

\* The message of `-F file` is what a heredoc of the same command writes there,
\* whatever heredocs of other files come before it or stand in its body.
HeredocIsRead(before, open, body, message) ==
  (\A i \in Openings(before) : before[i].into # open.into) /\ (~\E i \in DOMAIN body : Ends(body[i], open))
    => message = body

\* What these parts take, with the bytes between them.
Cost(parts, kept) == FoldLeft(LAMBDA sum, i : sum + parts[i].size + (IF sum > 0 THEN 2 ELSE 0), 0, kept)

\* What the agent gets fits, holds a leaked secret whenever that fits by itself,
\* counts what is missing, and leaves out nothing there is room for.
FitsAndTells(parts, limit, said) ==
  /\ said.used = Cost(parts, said.kept) /\ said.used <= limit
  /\ IsInjective(said.kept) /\ Len(said.kept) + said.dropped = Len(parts)
  /\ \A i \in DOMAIN parts : i \notin ToSet(said.kept) =>
       /\ parts[i].size + said.used + (IF said.used > 0 THEN 2 ELSE 0) > limit
       /\ parts[i].keep => parts[i].size > limit
==============================================================================
