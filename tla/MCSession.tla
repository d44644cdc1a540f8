------------------------------ MODULE MCSession ------------------------------
(* What happens around the sessions of one repository, for TLC: how they get *)
(* a daemon, how their turns end, the code index their writes keep up, and   *)
(* the upgrade of the binary they run. The four share no state, so each      *)
(* behaviour is about one of them, and fair as that one is.                  *)
EXTENDS DaemonStart, StopHook, Upgrade, CodeIndex

CONSTANTS s1, s2, s3, d1, d2, a1, n1, n2, u1, u2, f1, f2

TheSessions == {s1, s2, s3}
TheDaemons == {d1, d2}
TheAgents == {a1}
TheNotes == {n1, n2}
TheUpgrades == {u1, u2}
TheFiles == {f1, f2}
TheEscaped == {f2}

VARIABLE about

sessionVars == <<startVars, stopVars, upgradeVars, indexVars, about>>

SessionInit ==
  /\ StartInit /\ StopInit /\ UpgradeInit /\ IndexInit
  /\ about \in {"start", "stop", "upgrade", "index"}

SessionNext ==
  /\ \/ about = "start" /\ StartNext /\ UNCHANGED <<stopVars, upgradeVars, indexVars>>
     \/ about = "stop" /\ StopNext /\ UNCHANGED <<startVars, upgradeVars, indexVars>>
     \/ about = "upgrade" /\ UpgradeNext /\ UNCHANGED <<startVars, stopVars, indexVars>>
     \/ about = "index" /\ IndexNext /\ UNCHANGED <<startVars, stopVars, upgradeVars>>
  /\ UNCHANGED about

\* StartFairness and StopFairness, each in the behaviours about its part.
SessionFairness ==
  /\ WF_startVars(about = "start" /\ StartStalePasses)
  /\ \A s \in Sessions : WF_startVars(about = "start" /\ EnsureDaemon(s))
  /\ \A d \in Daemons :
       /\ WF_startVars(about = "start" /\ Listen(d))
       /\ WF_startVars(about = "start" /\ socket # d /\ IdleClose(d))
  /\ \A a \in Agents :
       /\ WF_stopVars(about = "stop" /\ Stop(a))
       /\ WF_stopVars(about = "stop" /\ turn[a] = "again" /\ \E m \in Messages : EndTurn(a, m))

SessionSpec == SessionInit /\ [][SessionNext]_sessionVars /\ SessionFairness

\* The state of each part stays in its ranges.
SessionTypeOK == StartTypeOK /\ StopTypeOK /\ UpgradeTypeOK /\ IndexTypeOK

\* Sessions get a daemon again and again (DaemonAgain), in behaviours about them.
StartedAgain == []<>(about = "start" => Listening)
=============================================================================
