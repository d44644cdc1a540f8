----------------------------- MODULE StoreWrite -----------------------------
(***************************************************************************)
(* The writes of internal/store: save (the lock of a path around WriteFile) *)
(* and AppendLearn, on a file system whose names and contents reach the    *)
(* disk only when they are flushed. The lock is LockService, which the     *)
(* lockfile protocol of StoreLock implements.                              *)
(*                                                                         *)
(* A process may die between any two steps, and the power may fail.        *)
(***************************************************************************)
EXTENDS Integers, FiniteSets

CONSTANTS
  Writers,     \* processes that write, each one file after the other
  Texts,       \* what they write: no text twice
  MaxDeaths,   \* bound: deaths of a process, and power failures
  Missing      \* no such file, no text

File == [text : Texts, state : {"empty", "part", "whole"}, flushed : BOOLEAN]

\* A staged file is old once no write still running can own it, or once the
\* machine slept through tempLitterAge in the middle of that write.
Staged == [text : Texts, state : {"empty", "part", "whole"}, flushed : BOOLEAN, old : BOOLEAN]

ASSUME WriteAssumption ==
  /\ IsFiniteSet(Texts) /\ MaxDeaths \in Nat
  /\ Missing \notin Texts \cup File \cup Staged

VARIABLES
  inside, dead,   \* the lock's service
  step,           \* where each writer is
  text,           \* what it writes
  temp,           \* the file it staged: what it holds, and whether that is flushed
  litter,         \* staged files of dead processes
  target,         \* the file at the path
  onDisk,         \* the files that a power failure may leave at the path
  told,           \* what the caller of each text's write was told
  deaths,
  log             \* the learn records: lines that parse, lines that do not, and an open end

lockService == <<inside, dead>>
fileSystem == <<temp, litter, target, onDisk, log>>
writeVars == <<lockService, step, text, fileSystem, told, deaths>>

Lock == INSTANCE LockService WITH Procs <- Writers

WriteInit ==
  /\ Lock!Init
  /\ step = [p \in Writers |-> "idle"]
  /\ text = [p \in Writers |-> Missing]
  /\ temp = [p \in Writers |-> Missing]
  /\ litter = {}
  /\ target = Missing /\ onDisk = {Missing}
  /\ told = [t \in Texts |-> "nothing"]
  /\ deaths = 0
  /\ log = [good |-> 0, corrupt |-> 0, end |-> "closed", acked |-> 0, torn |-> 0]

GoTo(p, l) == step' = [step EXCEPT ![p] = l]

-----------------------------------------------------------------------------
(* save *)

Save(p, t) ==
  /\ step[p] = "idle"
  /\ told[t] = "nothing" /\ \A q \in Writers : text[q] # t
  /\ text' = [text EXCEPT ![p] = t]
  /\ GoTo(p, "lock")
  /\ UNCHANGED <<lockService, fileSystem, told, deaths>>

TakeLock(p) ==
  /\ step[p] \in {"lock", "append_lock"}
  /\ Lock!Acquire(p)
  /\ GoTo(p, IF step[p] = "lock" THEN "stage" ELSE "append")
  /\ UNCHANGED <<text, fileSystem, told, deaths>>

Return(p, answer) ==
  /\ GoTo(p, "idle")
  /\ text' = [text EXCEPT ![p] = Missing]
  /\ told' = IF text[p] = Missing THEN told ELSE [told EXCEPT ![text[p]] = answer]

NoLock(p) ==
  /\ step[p] \in {"lock", "append_lock"}
  /\ Return(p, "not made")
  /\ UNCHANGED <<lockService, fileSystem, deaths>>

\* MkdirAll and CreateTemp, in the directory of the target.
StageFile(p) ==
  /\ step[p] = "stage"
  /\ \/ /\ temp' = [temp EXCEPT ![p] = [text |-> text[p], state |-> "empty", flushed |-> FALSE, old |-> FALSE]]
        /\ GoTo(p, "write")
     \/ GoTo(p, "give_back_failed") /\ UNCHANGED temp
  /\ UNCHANGED <<lockService, text, litter, target, onDisk, told, deaths, log>>

WriteData(p) ==
  /\ step[p] = "write"
  /\ \E all \in BOOLEAN :
       /\ temp' = IF temp[p] = Missing THEN temp
                  ELSE [temp EXCEPT ![p].state = IF all THEN "whole" ELSE "part"]
       /\ GoTo(p, IF all THEN "flush" ELSE "undo")
  /\ UNCHANGED <<lockService, text, litter, target, onDisk, told, deaths, log>>

\* Mutant: the rename need not wait for the disk.
FlushLater(p) ==
  /\ step[p] = "flush"
  /\ GoTo(p, "rename")
  /\ UNCHANGED <<lockService, text, fileSystem, told, deaths>>

\* Sync, Chmod and Close; one that fails ends the write.
Flush(p) ==
  /\ step[p] = "flush"
  /\ \/ /\ temp' = IF temp[p] = Missing THEN temp ELSE [temp EXCEPT ![p].flushed = TRUE]
        /\ GoTo(p, "rename")
     \/ GoTo(p, "undo") /\ UNCHANGED temp
  /\ UNCHANGED <<lockService, text, litter, target, onDisk, told, deaths, log>>

\* The name moves from one whole file to the other; a staged file that a
\* sweep took is not there to be moved.
Rename(p) ==
  /\ step[p] = "rename"
  /\ IF temp[p] # Missing
       THEN LET new == [text |-> temp[p].text, state |-> temp[p].state, flushed |-> temp[p].flushed] IN
            /\ target' = new
            /\ onDisk' = onDisk \cup {new}
            /\ temp' = [temp EXCEPT ![p] = Missing]
            /\ GoTo(p, "flush_name")
       ELSE GoTo(p, "undo") /\ UNCHANGED <<target, onDisk, temp>>
  /\ UNCHANGED <<lockService, text, litter, told, deaths, log>>

RenameFails(p) ==
  /\ step[p] = "rename"
  /\ GoTo(p, "undo")
  /\ UNCHANGED <<lockService, text, fileSystem, told, deaths>>

\* Every failure on the way removes the staged file.
Undo(p) ==
  /\ step[p] = "undo"
  /\ temp' = [temp EXCEPT ![p] = Missing]
  /\ GoTo(p, "give_back_failed")
  /\ UNCHANGED <<lockService, text, litter, target, onDisk, told, deaths, log>>

\* Mutant: the directory is not flushed.
NoSyncDir(p) ==
  /\ step[p] = "flush_name"
  /\ GoTo(p, "sweep")
  /\ UNCHANGED <<lockService, text, fileSystem, told, deaths>>

\* syncDir. (A directory that cannot be flushed fails no write; such file
\* systems promise nothing about a power failure and are left out.)
SyncDir(p) ==
  /\ step[p] = "flush_name"
  /\ onDisk' = {target}
  /\ GoTo(p, "sweep")
  /\ UNCHANGED <<lockService, text, temp, litter, target, told, deaths, log>>

\* sweep: staged files older than tempLitterAge go, whosever they are. Once
\* per process and directory, so it may be left out.
Sweep(p) ==
  /\ step[p] = "sweep"
  /\ \/ UNCHANGED <<temp, litter>>
     \/ /\ litter' = {f \in litter : ~f.old}
        /\ temp' = [q \in Writers |-> IF temp[q] # Missing /\ temp[q].old THEN Missing ELSE temp[q]]
  /\ GoTo(p, "give_back")
  /\ UNCHANGED <<lockService, text, target, onDisk, told, deaths, log>>

GiveBack(p) ==
  /\ step[p] \in {"give_back", "give_back_failed"}
  /\ Lock!Release(p)
  /\ Return(p, IF step[p] = "give_back" THEN "made" ELSE "not made")
  /\ UNCHANGED <<fileSystem, deaths>>

Saving(p) ==
  \/ TakeLock(p) \/ NoLock(p) \/ StageFile(p) \/ WriteData(p) \/ Flush(p)
  \/ Rename(p) \/ RenameFails(p) \/ Undo(p) \/ SyncDir(p) \/ Sweep(p) \/ GiveBack(p)

-----------------------------------------------------------------------------
(* AppendLearn *)

AppendRecord(p) ==
  /\ step[p] = "idle"
  /\ log.acked < Cardinality(Texts)
  /\ GoTo(p, "append_lock")
  /\ UNCHANGED <<lockService, text, fileSystem, told, deaths>>

\* A line goes behind an end that was left open: what was there is part of it,
\* and neither can be read.
Closed == [log EXCEPT !.good = @ + (CASE log.end = "closed" -> 1 [] log.end = "part" -> 0 [] OTHER -> 0 - 1),
                      !.corrupt = @ + (IF log.end = "whole" THEN 1 ELSE 0),
                      !.end = "closed"]

\* The write is cut short, within the line or before its end: a first part of
\* a line is there, and learn.Read counts it as one it cannot read.
Torn(cut) ==
  [log EXCEPT !.good = @ + (CASE log.end = "closed" /\ cut = "whole" -> 1 [] log.end = "whole" -> 0 - 1 [] OTHER -> 0),
              !.corrupt = @ + (IF log.end = "whole" \/ (log.end = "closed" /\ cut = "part") THEN 1 ELSE 0),
              !.end = IF log.end = "closed" THEN cut ELSE "part",
              !.torn = @ + 1]

\* Mutant: an error of Write or Close is dropped.
AppendUnchecked(p) ==
  /\ step[p] = "append"
  /\ log' = [log EXCEPT !.acked = @ + 1]
  /\ GoTo(p, "give_back")
  /\ UNCHANGED <<lockService, text, temp, litter, target, onDisk, told, deaths>>

AppendLine(p) ==
  /\ step[p] = "append"
  /\ log' = [Closed EXCEPT !.acked = @ + 1]
  /\ GoTo(p, "give_back")
  /\ UNCHANGED <<lockService, text, temp, litter, target, onDisk, told, deaths>>

\* OpenFile, Write or Close fails.
AppendFails(p) ==
  /\ step[p] = "append"
  /\ \/ UNCHANGED log
     \/ log.torn < MaxDeaths /\ \E cut \in {"part", "whole"} : log' = Torn(cut)
  /\ GoTo(p, "give_back_failed")
  /\ UNCHANGED <<lockService, text, temp, litter, target, onDisk, told, deaths>>

Appending(p) == AppendRecord(p) \/ AppendLine(p) \/ AppendFails(p)

-----------------------------------------------------------------------------
(* The world *)

\* More than tempLitterAge passes.
Hour ==
  /\ (\E f \in litter : ~f.old) \/ (\E p \in Writers : temp[p] # Missing /\ ~temp[p].old)
  /\ litter' = {[f EXCEPT !.old = TRUE] : f \in litter}
  /\ temp' = [p \in Writers |-> IF temp[p] = Missing THEN Missing ELSE [temp[p] EXCEPT !.old = TRUE]]
  /\ UNCHANGED <<lockService, step, text, target, onDisk, told, deaths, log>>

Gone(ps) ==
  /\ step' = [p \in Writers |-> IF p \in ps THEN "idle" ELSE step[p]]
  /\ text' = [p \in Writers |-> IF p \in ps THEN Missing ELSE text[p]]
  /\ told' = [t \in Texts |-> IF \E p \in ps : text[p] = t THEN "no answer" ELSE told[t]]
  /\ temp' = [p \in Writers |-> IF p \in ps THEN Missing ELSE temp[p]]
  /\ litter' = litter \cup ({temp[p] : p \in ps} \ {Missing})
  /\ deaths < MaxDeaths /\ deaths' = deaths + 1

WriterDies(p) ==
  /\ step[p] # "idle"
  /\ Gone({p})
  /\ IF p \in inside THEN Lock!Die(p) ELSE UNCHANGED lockService
  /\ \/ UNCHANGED log
     \/ step[p] = "append" /\ \E cut \in {"part", "whole"} : log' = Torn(cut)
  /\ UNCHANGED <<target, onDisk>>

BreakDeadLock ==
  /\ Lock!Reclaim
  /\ UNCHANGED <<step, text, fileSystem, told, deaths>>

\* What was not flushed may be there, in part, or not at all. The lock's file
\* is like any other.
AfterPowerFailure(f) ==
  IF f = Missing \/ f.flushed THEN {f} ELSE {[f EXCEPT !.state = s] : s \in {"empty", "part", "whole"}}

PowerFails ==
  /\ Gone(Writers)
  /\ inside' = {} /\ dead' \in {dead, inside # {}}
  /\ \E f \in onDisk : target' \in AfterPowerFailure(f)
  /\ onDisk' = {target'}
  /\ UNCHANGED log

WriteNext ==
  \/ \E p \in Writers : Saving(p) \/ Appending(p) \/ WriterDies(p) \/ \E t \in Texts : Save(p, t)
  \/ Hour \/ BreakDeadLock \/ PowerFails

WriteSpec == WriteInit /\ [][WriteNext]_writeVars

-----------------------------------------------------------------------------
(* Properties *)

WriteTypeOK ==
  /\ inside \subseteq Writers /\ dead \in BOOLEAN
  /\ DOMAIN step = Writers
  /\ text \in [Writers -> Texts \cup {Missing}]
  /\ temp \in [Writers -> Staged \cup {Missing}] /\ litter \subseteq Staged
  /\ target \in File \cup {Missing} /\ onDisk \subseteq File \cup {Missing}
  /\ told \in [Texts -> {"nothing", "made", "not made", "no answer"}]
  /\ deaths \in 0 .. MaxDeaths

\* "a reader sees the whole old file or the whole new one", and "the write was NOT
\* made": whatever died or failed, and when, the file at the path was written
\* whole, and is none whose writer was told that it was not made.
WholeFile == target # Missing => target.state = "whole" /\ told[target.text] # "not made"

\* A write that was made stays, over deaths and power failures, until another
\* takes its place: the path never goes back to an older file.
MadeStays ==
  [][\A t \in Texts : target # Missing /\ target.text = t /\ told[t] = "made" =>
       target' # Missing /\ (target'.text = t \/ told[target'.text] = "nothing")]_writeVars

\* A record whose append was acknowledged and that cannot be read is in a line
\* that Read counts as corrupt: none is lost without the count telling.
AppendsAreCounted == log.acked <= log.good + log.corrupt
=============================================================================
