------------------------------- MODULE Upgrade -------------------------------
(***************************************************************************)
(* `procoder self-upgrade` and the question of `procoder version`          *)
(* (internal/releases/upgrade.go, verify.go, cmd/procoder/main.go,         *)
(* internal/ask/raise.go): consent, the published sum, the download, and   *)
(* the renames that put the new file where the running one is. There is    *)
(* one newer release, which may be cut again while people decide.          *)
(***************************************************************************)
EXTENDS Naturals, Sequences

CONSTANTS
  Upgrades,    \* runs of the command in one repository, on one binary
  Running,     \* the digest of the binary before any upgrade
  Cuts,        \* digests of the release's file, in the order it is cut: 1 .. n
  Damaged,     \* a download that is not what the server has
  MaxFaults,   \* bound: renames that fail and processes that die
  NoFile

ASSUME UpgradeAssumption ==
  /\ Cuts \in Nat \ {0} /\ MaxFaults \in Nat
  /\ {Running, Damaged, NoFile} \cap (1 .. Cuts) = {}
  /\ Running # Damaged /\ Running # NoFile /\ Damaged # NoFile

VARIABLES
  step,        \* where each run is
  pinned,      \* the digest its consent is tied to, or NoFile
  want,        \* the published sum, once read
  tmp,         \* the file it downloaded beside the binary
  self, old,   \* the files at the binary's path and at that path with .old
  asset, sums, \* what the server has: the file, and the digest SHA256SUMS gives for it
  raised,      \* the decisions about this upgrade, and their answers
  agreed,      \* digests somebody said yes to
  byHand,      \* a run said that the binary must be moved back by hand
  faults, overlapped   \* faults so far; whether one hit while two runs were replacing

upgradeVars == <<step, pinned, want, tmp, self, old, asset, sums, raised, agreed, byHand, faults, overlapped>>
files == <<self, old>>
server == <<asset, sums>>
consent == <<raised, agreed>>
troubles == <<byHand, faults, overlapped>>

UpgradeInit ==
  /\ step = [u \in Upgrades |-> "idle"]
  /\ pinned = [u \in Upgrades |-> NoFile] /\ want = pinned /\ tmp = pinned
  /\ self = Running /\ old = NoFile
  /\ asset = 1 /\ sums = 1
  /\ raised = <<>> /\ agreed = {}
  /\ byHand = FALSE /\ faults = 0 /\ overlapped = FALSE

On(u, l) == step' = [step EXCEPT ![u] = l]

\* The run returns, and its staged file goes with it.
Over(u) ==
  /\ On(u, "idle")
  /\ pinned' = [pinned EXCEPT ![u] = NoFile]
  /\ want' = [want EXCEPT ![u] = NoFile]
  /\ tmp' = [tmp EXCEPT ![u] = NoFile]

-----------------------------------------------------------------------------
(* Consent *)

\* A terminal and a yes: to the release, whichever file it has.
SayYes(u) ==
  /\ step[u] = "idle" /\ self # NoFile
  /\ On(u, "sum")
  /\ UNCHANGED <<pinned, want, tmp, files, server, consent, troubles>>

\* --confirm, with a digest that some earlier run printed.
Confirm(u, d) ==
  /\ step[u] = "idle" /\ self # NoFile
  /\ d <= sums
  /\ pinned' = [pinned EXCEPT ![u] = d]
  /\ agreed' = agreed \cup {d}
  /\ On(u, "sum")
  /\ UNCHANGED <<want, tmp, files, server, raised, troubles>>

\* No terminal: the published sum is read first, and kept.
WithoutTerminal(u) ==
  /\ step[u] = "idle" /\ self # NoFile
  /\ want' = [want EXCEPT ![u] = sums]
  /\ On(u, "find")
  /\ UNCHANGED <<pinned, tmp, files, server, consent, troubles>>

\* FindDecision, the first of this upgrade's: its answer, and the digest in its
\* heading. A file that cannot be read is no consent.
FindDecision(u) ==
  /\ step[u] = "find"
  /\ \/ /\ raised # <<>> /\ raised[1].answer = "install"
        /\ pinned' = [pinned EXCEPT ![u] = raised[1].digest]
        /\ On(u, "sum")
        /\ UNCHANGED <<want, tmp>>
     \/ /\ raised = <<>>
        /\ On(u, "raise")
        /\ UNCHANGED <<pinned, want, tmp>>
     \/ Over(u)
  /\ UNCHANGED <<files, server, consent, troubles>>

\* RaiseDecision, under the lock of decisions.md: looked for again, then appended.
RaiseDecision(u) ==
  /\ step[u] = "raise"
  /\ raised' \in {raised,
                     IF raised = <<>> THEN <<[digest |-> want[u], answer |-> "none"]>> ELSE raised}
  /\ Over(u)
  /\ UNCHANGED <<files, server, agreed, troubles>>

\* A person answers through `procoder ask`.
Answer ==
  \E i \in DOMAIN raised, says \in {"install", "skip"} :
    /\ raised[i].answer = "none"
    /\ raised' = [raised EXCEPT ![i].answer = says]
    /\ agreed' = IF says = "install" THEN agreed \cup {raised[i].digest} ELSE agreed
    /\ UNCHANGED <<step, pinned, want, tmp, files, server, troubles>>

-----------------------------------------------------------------------------
(* The sum, the download and the check *)

\* A yes on a terminal is one to the file the release vouches for now.
ReadSum(u) ==
  /\ step[u] = "sum"
  /\ LET sum == IF want[u] = NoFile THEN sums ELSE want[u] IN
       \/ /\ pinned[u] \in {NoFile, sum}
          /\ want' = [want EXCEPT ![u] = sum]
          /\ agreed' = IF pinned[u] = NoFile THEN agreed \cup {sum} ELSE agreed
          /\ On(u, "download")
          /\ UNCHANGED <<pinned, tmp>>
       \/ Over(u) /\ UNCHANGED agreed
  /\ UNCHANGED <<files, server, raised, troubles>>

Download(u) ==
  /\ step[u] = "download"
  /\ \/ /\ \E got \in {asset, Damaged} : tmp' = [tmp EXCEPT ![u] = got]
        /\ On(u, "check")
        /\ UNCHANGED <<pinned, want>>
     \/ Over(u)
  /\ UNCHANGED <<files, server, consent, troubles>>

\* Mutant: the bytes are compared with what was asked for, if anything was.
CheckPinned(u) ==
  /\ step[u] = "check"
  /\ IF pinned[u] \in {NoFile, tmp[u]}
       THEN On(u, "clear") /\ UNCHANGED <<pinned, want, tmp>>
       ELSE Over(u)
  /\ UNCHANGED <<files, server, consent, troubles>>

\* The bytes that were written are the published ones, and the pinned ones.
CheckSum(u) ==
  /\ step[u] = "check"
  /\ IF tmp[u] = want[u] /\ pinned[u] \in {NoFile, tmp[u]}
       THEN On(u, "clear") /\ UNCHANGED <<pinned, want, tmp>>
       ELSE Over(u)
  /\ UNCHANGED <<files, server, consent, troubles>>

-----------------------------------------------------------------------------
(* replace *)

Replacing(u) == step[u] \in {"aside", "in", "back", "tidy"}

Fault(u) ==
  /\ faults < MaxFaults
  /\ faults' = faults + 1
  /\ overlapped' = (overlapped \/ \E v \in Upgrades \ {u} : Replacing(v))

\* A leftover of an earlier upgrade goes.
ClearOld(u) ==
  /\ step[u] = "clear"
  /\ old' \in {NoFile, old}
  /\ On(u, "aside")
  /\ UNCHANGED <<pinned, want, tmp, self, server, consent, troubles>>

MoveAside(u) ==
  /\ step[u] = "aside"
  /\ \/ /\ self # NoFile
        /\ self' = NoFile /\ old' = self
        /\ On(u, "in")
        /\ UNCHANGED <<pinned, want, tmp, faults, overlapped>>
     \/ /\ IF self = NoFile THEN UNCHANGED <<faults, overlapped>> ELSE Fault(u)
        /\ Over(u)
        /\ UNCHANGED files
  /\ UNCHANGED <<server, consent, byHand>>

MoveIn(u) ==
  /\ step[u] = "in"
  /\ \/ self' = tmp[u] /\ tmp' = [tmp EXCEPT ![u] = NoFile] /\ On(u, "tidy")
        /\ UNCHANGED <<pinned, want, faults, overlapped>>
     \/ Fault(u) /\ On(u, "back") /\ UNCHANGED <<pinned, want, tmp, self>>
  /\ UNCHANGED <<old, server, consent, byHand>>

\* Mutant: the download failed to go in, and that is that.
NoMoveBack(u) ==
  /\ step[u] = "back"
  /\ Over(u)
  /\ UNCHANGED <<files, server, consent, troubles>>

MoveBack(u) ==
  /\ step[u] = "back"
  /\ \/ old # NoFile /\ self' = old /\ old' = NoFile /\ UNCHANGED troubles
     \/ /\ IF old = NoFile THEN UNCHANGED <<faults, overlapped>> ELSE Fault(u)
        /\ byHand' = TRUE
        /\ UNCHANGED files
  /\ Over(u)
  /\ UNCHANGED <<server, consent>>

Tidy(u) ==
  /\ step[u] = "tidy"
  /\ old' \in {NoFile, old}
  /\ Over(u)
  /\ UNCHANGED <<self, server, consent, troubles>>

UpgradeStep(u) ==
  \/ SayYes(u) \/ WithoutTerminal(u) \/ \E d \in 1 .. Cuts : Confirm(u, d)
  \/ FindDecision(u) \/ RaiseDecision(u) \/ ReadSum(u) \/ Download(u) \/ CheckSum(u)
  \/ ClearOld(u) \/ MoveAside(u) \/ MoveIn(u) \/ MoveBack(u) \/ Tidy(u)

-----------------------------------------------------------------------------
(* The world *)

\* The release is cut again: the file first, its sum after it.
CutAgain ==
  /\ asset = sums /\ asset < Cuts /\ asset' = asset + 1
  /\ UNCHANGED <<step, pinned, want, tmp, files, sums, consent, troubles>>

PublishSum ==
  /\ sums # asset /\ sums' = asset
  /\ UNCHANGED <<step, pinned, want, tmp, files, asset, consent, troubles>>

\* Between the two renames there is no binary to start: a death there counts
\* as one that hit two runs.
UpgradeDies(u) ==
  /\ step[u] # "idle"
  /\ faults < MaxFaults /\ faults' = faults + 1
  /\ overlapped' = (overlapped \/ step[u] \in {"in", "back"})
  /\ Over(u)
  /\ UNCHANGED <<files, server, consent, byHand>>

UpgradeNext ==
  \/ \E u \in Upgrades : UpgradeStep(u) \/ UpgradeDies(u)
  \/ Answer \/ CutAgain \/ PublishSum

UpgradeSpec == UpgradeInit /\ [][UpgradeNext]_upgradeVars

-----------------------------------------------------------------------------
(* Properties *)

Digests == 1 .. Cuts

UpgradeTypeOK ==
  /\ step \in [Upgrades -> {"idle", "find", "raise", "sum", "download", "check", "clear",
                            "aside", "in", "back", "tidy"}]
  /\ pinned \in [Upgrades -> Digests \cup {NoFile}] /\ want \in [Upgrades -> Digests \cup {NoFile}]
  /\ tmp \in [Upgrades -> Digests \cup {Damaged, NoFile}]
  /\ self \in Digests \cup {Running, NoFile} /\ old \in Digests \cup {Running, NoFile}
  /\ asset \in Digests /\ sums \in Digests /\ agreed \subseteq Digests
  /\ raised \in Seq([digest : Digests, answer : {"none", "install", "skip"}])
  /\ faults \in 0 .. MaxFaults /\ byHand \in BOOLEAN /\ overlapped \in BOOLEAN

\* No file gets to the binary's path, nor aside, that nobody said yes to: a
\* digest that was confirmed, one in the heading of a decision answered with
\* install, or the one published when somebody said yes on a terminal; however
\* often the release is cut again, and whatever is downloaded. And the question is
\* on record once: "two runs at once cannot both decide the heading is missing".
OnlyAgreed == {self, old} \subseteq {Running, NoFile} \cup agreed /\ Len(raised) <= 1

\* "a failure anywhere leaves the working binary exactly where it was": between
\* upgrades there is a binary, of two at once too, unless a run said where it is;
\* one that fails, or dies between the renames, beside another is left out.
StaysRunnable ==
  self # NoFile \/ byHand \/ overlapped \/ \E u \in Upgrades : step[u] \in {"in", "back"}
=============================================================================
