----------------------------- MODULE MCLedgers ------------------------------
(* An instance of Ledgers for TLC. The three records share nothing, so each *)
(* behaviour is about one of them. *)
EXTENDS Ledgers, TLC

CONSTANTS p1, p2, a1, a2, w, t1, t2, q1, q2, yes, no

TheProcesses == {p1, p2}
TheAgents == {a1, a2}
TheWaves == {w}
TheTasks == {t1, t2}
TheQuestions == {q1, q2}
TheTexts == {yes, no}
\* Every pattern, and path, of up to three characters over a small alphabet.
Words(alphabet) == {s \in UNION {[1 .. n -> alphabet] : n \in 1 .. 3} : s[1] # "/"}
ThePatterns == Words({"a", "/", "*"})
ThePaths == Words({"a", "b", "/"})
TheCharacters == {"a", "b", "/", "*"}
Symmetry == Permutations(TheProcesses) \cup Permutations(TheAgents) \cup Permutations(TheTasks)

VARIABLE about

MCInit == Init /\ about \in {ClaimCommand, WaveCommand, AskCommand}
MCNext ==
  /\ Next
  /\ \A p \in Processes : doing'[p] # None => doing'[p] \in about
  /\ edits' # edits => about = AskCommand
  /\ UNCHANGED about
MCSpec == MCInit /\ [][MCNext]_<<vars, about>>
=============================================================================
