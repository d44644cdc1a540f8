---------------------------- MODULE MCCommitGate ----------------------------
(* An instance of CommitGate for TLC: one file, whose two units share one    *)
(* slot, and one command.                                                    *)
EXTENDS CommitGate

CONSTANTS source, g1

TheFiles == {source}
TheGates == {g1}
TheSetups ==
  {[scope |-> "adopted", policy |-> "block", testBlock |-> TRUE, resident |-> TRUE],
   [scope |-> "universal", policy |-> "report", testBlock |-> FALSE, resident |-> FALSE]}
=============================================================================
