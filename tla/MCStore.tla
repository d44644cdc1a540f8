------------------------------ MODULE MCStore -------------------------------
(* An instance of internal/store for TLC. The lockfile, the writes on top of *)
(* the lock and the locking of several paths share nothing below the lock's  *)
(* promise, so each behaviour is about one of them.                          *)
EXTENDS MCStoreLock, StoreWrite, LockOrder

CONSTANTS w1, w2, t1, t2

TheWriters == {w1, w2}
TheTexts == {t1, t2}
TheAskers == 1 .. 3
ThePaths == 1 .. 3

VARIABLE about

storeVars == <<vars, writeVars, orderVars, about>>

StoreInit == Init /\ WriteInit /\ OrderInit /\ about \in {"lockfile", "writes", "order"}

StoreNext ==
  /\ \/ about = "lockfile" /\ Next /\ UNCHANGED <<writeVars, orderVars>>
     \/ about = "writes" /\ WriteNext /\ UNCHANGED <<vars, orderVars>>
     \/ about = "order" /\ OrderNext /\ UNCHANGED <<vars, writeVars>>
  /\ UNCHANGED about

StoreSpec == StoreInit /\ [][StoreNext]_storeVars

\* The state of each part of the store stays in its ranges.
StoreTypeOK == TypeOK /\ WriteTypeOK /\ OrderTypeOK
=============================================================================
