------------------------------- MODULE Globs --------------------------------
(***************************************************************************)
(* When two claims could collide (internal/claims): a pure function of two *)
(* patterns, sequences of characters of which "*" and "?" are wildcards    *)
(* and "/" ends a directory's name.                                        *)
(***************************************************************************)
EXTENDS Integers, Sequences, SequencesExt

\* Where in the path a character of a pattern may begin to match, when what
\* follows it may begin at "rest": a wildcard never stands for a "/".
Before(c, path, rest) ==
  IF c = "*" THEN {j \in 1 .. Len(path) + 1 : \E k \in rest : j <= k /\ \A m \in j .. k - 1 : path[m] # "/"}
  ELSE {j \in 1 .. Len(path) : j + 1 \in rest /\ (path[j] = c \/ (c = "?" /\ path[j] # "/"))}

\* path.Match, from the pattern's end to its start.
Matches(glob, path) ==
  LET from[i \in 1 .. Len(glob) + 1] ==
        IF i > Len(glob) THEN {Len(path) + 1} ELSE Before(glob[i], path, from[i + 1])
  IN  1 \in from[1]

Wildcards(glob) == {i \in DOMAIN glob : glob[i] \in {"*", "?"}}

\* The pattern up to the last "/" before its first wildcard.
LiteralPrefix(glob) ==
  IF Wildcards(glob) = {} THEN glob
  ELSE LET slashes == {i \in DOMAIN glob : glob[i] = "/" /\ \A w \in Wildcards(glob) : i < w}
       IN  IF slashes = {} THEN <<>>
           ELSE SubSeq(glob, 1, CHOOSE i \in slashes : \A j \in slashes : j <= i)

Covers(glob, other) ==
  \/ Matches(glob, other)
  \/ LiteralPrefix(glob) # <<>> /\ IsPrefix(LiteralPrefix(glob), other)

\* Mutant: a directory above another's wildcard does not collide with it.
OverlapNarrowly(a, b) == a = b \/ Covers(a, b)

Overlap(a, b) ==
  LET pa == LiteralPrefix(a)
      pb == LiteralPrefix(b)
  IN  a = b \/ Covers(a, b) \/ Covers(b, a) \/ <<>> \in {pa, pb} \/ IsPrefix(pa, pb) \/ IsPrefix(pb, pa)

-----------------------------------------------------------------------------
(* What a pattern is about: the paths it matches, and all below them. *)

Owns(glob, path) ==
  \/ Matches(glob, path)
  \/ \E i \in DOMAIN path : path[i] = "/" /\ Matches(glob, SubSeq(path, 1, i - 1))
=============================================================================
