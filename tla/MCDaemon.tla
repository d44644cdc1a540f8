------------------------------ MODULE MCDaemon ------------------------------
(* An instance of Daemon for TLC: a commit gate and a test suite in one      *)
(* repository, and a third client in another.                                *)
EXTENDS Daemon, TLC

CONSTANTS gate, suite, third, r1, r2, old, new

AllClients == {gate, suite, third}
AllRepos == {r1, r2}
WhereTheyStand == (gate :> r1) @@ (suite :> r1) @@ (third :> r2)
LongOnes == {suite}
TheGates == {gate}
AllBuilds == {old, new}
AllNew == [c \in AllClients |-> new]
ThirdOnly == {third}
NoClient == {}
=============================================================================
