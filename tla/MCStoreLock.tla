----------------------------- MODULE MCStoreLock -----------------------------
(* Instances of StoreLock for TLC; MCStore adds the writes on top of it. *)
EXTENDS StoreLock, TLC

\* A process may die anywhere but between creating and removing a break file.
OutsideBreaking == PCs \ Breaking

\* Deaths that leave something behind: a lock file (unwritten, held, about to be
\* removed) or a break file (before and after the lock went).
LeavingLitter == {"stamp", "held", "relrm", "bremove", "bclean"}

Symmetric == Permutations(Procs) \cup Permutations(Inodes)
=============================================================================
