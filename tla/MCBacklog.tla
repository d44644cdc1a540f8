----------------------------- MODULE MCBacklog ------------------------------
(* An instance of Backlog for TLC: two stories of one epic of one milestone, *)
(* two sprints one after the other, and two processes.                       *)
EXTENDS Backlog, TLC

CONSTANTS s1, s2, epic, milestone, p1, p2

TheStories == {s1, s2}
OneStory == {s1}
TheEpics == {epic}
TheMilestones == {milestone}
TheParent == [i \in Stories \cup {epic} |-> IF i \in Stories THEN epic ELSE milestone]
TheGoals == {1}
TheProcesses == {p1, p2}
Symmetry == Permutations(TheProcesses) \cup Permutations(TheStories)
=============================================================================
