------------------------------ MODULE StopHook -------------------------------
(***************************************************************************)
(* The hook at the end of a turn (internal/hook/stop.go, unasked.go): it   *)
(* rewrites the handoff note around what the agent wrote in it, and keeps  *)
(* a turn from ending on a decision that is put to the reader in prose.    *)
(* What it remembers from one stop to the next is two markers in           *)
(* .procoder/state, which all the sessions of a repository share.          *)
(***************************************************************************)
EXTENDS Naturals, FiniteSets

CONSTANTS
  Agents,         \* sessions in one repository
  Asking,         \* messages that end on a decision in prose
  Reporting,      \* messages that do not
  Notes,          \* what is written into the handoff note
  MaxDecisions,   \* bound: decisions recorded
  Missing

ASSUME StopAssumption ==
  /\ MaxDecisions \in Nat
  /\ Asking \cap Reporting = {} /\ Missing \notin Asking \cup Nat

VARIABLES
  turn,        \* where each session is: at work, somewhere in the hook, or ended
  message,     \* the last message of its turn
  fresh,       \* it recorded a decision in this turn that nobody has answered
  note,        \* handoff.md: whether its markers are there, what was written below
  loaded,      \* the note as the hook read it
  decisions,   \* decisions recorded in decisions.md, which is only added to
  answered,    \* how many of them somebody answered
  digest,      \* last-decisions-digest: the decisions it stands for
  current,     \* the decisions as the hook read them
  blockedOn    \* last-unasked-decision

stopVars == <<turn, message, fresh, note, loaded, decisions, answered, digest, current, blockedOn>>

Messages == Asking \cup Reporting

StopInit ==
  /\ turn = [a \in Agents |-> "work"]
  /\ message = [a \in Agents |-> Missing]
  /\ fresh = [a \in Agents |-> FALSE]
  /\ note = [marked |-> FALSE, texts |-> {}]
  /\ loaded = [a \in Agents |-> note]
  /\ decisions = 0 /\ answered = 0
  /\ digest = Missing
  /\ current = [a \in Agents |-> 0]
  /\ blockedOn = Missing

Pass(a, l) == turn' = [turn EXCEPT ![a] = l]

-----------------------------------------------------------------------------
(* The agent and the person *)

\* A decision written into decisions.md.
RecordDecision(a) ==
  /\ turn[a] = "work"
  /\ decisions < MaxDecisions
  /\ decisions' = decisions + 1
  /\ fresh' = [fresh EXCEPT ![a] = TRUE]
  /\ UNCHANGED <<turn, message, note, loaded, answered, digest, current, blockedOn>>

AnswerAll ==
  /\ answered < decisions
  /\ answered' = decisions
  /\ fresh' = [a \in Agents |-> FALSE]
  /\ UNCHANGED <<turn, message, note, loaded, decisions, digest, current, blockedOn>>

\* The text goes below the closing marker, or under the notes' heading; the
\* markers may be deleted by hand.
WriteNote(t) ==
  /\ t \notin note.texts
  /\ \E marked \in {note.marked, FALSE} : note' = [marked |-> marked, texts |-> note.texts \cup {t}]
  /\ UNCHANGED <<turn, message, fresh, loaded, decisions, answered, digest, current, blockedOn>>

\* The turn ends on a message: after a block the agent may repeat the one it had.
EndTurn(a, m) ==
  /\ turn[a] = "work" \/ (turn[a] = "again" /\ (m = message[a] \/ m \in Reporting \/ fresh[a]))
  /\ message' = [message EXCEPT ![a] = m]
  /\ Pass(a, "load")
  /\ UNCHANGED <<fresh, note, loaded, decisions, answered, digest, current, blockedOn>>

\* What the block asks for: the decision is recorded.
RecordAsked(a) ==
  /\ turn[a] = "again"
  /\ decisions < MaxDecisions
  /\ decisions' = decisions + 1
  /\ fresh' = [fresh EXCEPT ![a] = TRUE]
  /\ UNCHANGED <<turn, message, note, loaded, answered, digest, current, blockedOn>>

-----------------------------------------------------------------------------
(* Stop *)

LoadNote(a) ==
  /\ turn[a] = "load"
  /\ loaded' = [loaded EXCEPT ![a] = note]
  /\ Pass(a, "save")
  /\ UNCHANGED <<message, fresh, note, decisions, answered, digest, current, blockedOn>>

\* Mutant: nothing is looked for where no marker is.
PreservedMarked(old) == IF old.marked THEN old.texts ELSE {}

\* preservedNotes: all that follows the closing marker, or else the heading.
PreservedNotes(old) == old.texts

\* A note that cannot be written is a lost note, and nothing else.
SaveNote(a) ==
  /\ turn[a] = "save"
  /\ note' \in {note, [marked |-> TRUE, texts |-> PreservedNotes(loaded[a])]}
  /\ Pass(a, IF message[a] \in Asking THEN "pending" ELSE "ended")
  /\ UNCHANGED <<message, fresh, loaded, decisions, answered, digest, current, blockedOn>>

\* PendingDecisions; a file that cannot be read or made sense of ends the turn.
ReadPending(a) ==
  /\ turn[a] = "pending"
  /\ Pass(a, IF answered < decisions THEN "compare" ELSE "repeated") \/ Pass(a, "ended")
  /\ UNCHANGED <<message, fresh, note, loaded, decisions, answered, digest, current, blockedOn>>

\* Mutant: no digest is no change.
CompareFirst(a) ==
  /\ turn[a] = "compare"
  /\ current' = [current EXCEPT ![a] = decisions]
  /\ Pass(a, IF digest # Missing /\ digest # decisions THEN "save_end" ELSE "save_block")
  /\ UNCHANGED <<message, fresh, note, loaded, decisions, answered, digest, blockedOn>>

\* decisionsChanged: no digest is a change, and the new one is saved either way...
CompareDigest(a) ==
  /\ turn[a] = "compare"
  /\ current' = [current EXCEPT ![a] = decisions]
  /\ Pass(a, IF digest = Missing \/ digest # decisions THEN "save_end" ELSE "save_block")
  /\ UNCHANGED <<message, fresh, note, loaded, decisions, answered, digest, blockedOn>>

\* Mutant: a digest that could not be saved leaves the stop in a state of its own.
SaveDigestAny(a) ==
  /\ turn[a] \in {"save_end", "save_block"}
  /\ digest' \in {digest, current[a]}
  /\ Pass(a, IF digest' = digest THEN "kept" ELSE "ended")
  /\ UNCHANGED <<message, fresh, note, loaded, decisions, answered, current, blockedOn>>

\* ...when it can be.
SaveDigest(a) ==
  /\ turn[a] \in {"save_end", "save_block"}
  /\ digest' \in {digest, current[a]}
  /\ Pass(a, IF turn[a] = "save_end" THEN "ended" ELSE "repeated")
  /\ UNCHANGED <<message, fresh, note, loaded, decisions, answered, current, blockedOn>>

\* Mutant: the last message is not compared.
BlockAgain(a) ==
  /\ turn[a] = "repeated"
  /\ Pass(a, "remember")
  /\ UNCHANGED <<message, fresh, note, loaded, decisions, answered, digest, current, blockedOn>>

AlreadyBlocked(a) ==
  /\ turn[a] = "repeated"
  /\ Pass(a, IF blockedOn = message[a] THEN "ended" ELSE "remember")
  /\ UNCHANGED <<message, fresh, note, loaded, decisions, answered, digest, current, blockedOn>>

\* A block that cannot be remembered is none.
RememberBlocked(a) ==
  /\ turn[a] = "remember"
  /\ \/ blockedOn' = message[a] /\ Pass(a, "again")
     \/ UNCHANGED blockedOn /\ Pass(a, "ended")
  /\ UNCHANGED <<message, fresh, note, loaded, decisions, answered, digest, current>>

Stop(a) ==
  \/ LoadNote(a) \/ SaveNote(a) \/ ReadPending(a) \/ CompareDigest(a) \/ SaveDigest(a)
  \/ AlreadyBlocked(a) \/ RememberBlocked(a)

\* The person says something: the next turn.
NextTurn(a) ==
  /\ turn[a] = "ended"
  /\ Pass(a, "work")
  /\ fresh' = [fresh EXCEPT ![a] = FALSE]
  /\ UNCHANGED <<message, note, loaded, decisions, answered, digest, current, blockedOn>>

StopNext ==
  \/ \E a \in Agents :
       \/ Stop(a) \/ NextTurn(a) \/ RecordDecision(a) \/ RecordAsked(a)
       \/ \E m \in Messages : EndTurn(a, m)
  \/ AnswerAll
  \/ \E t \in Notes : WriteNote(t)

\* The hook runs, and an agent that was blocked ends its turn again.
StopFairness ==
  \A a \in Agents :
    WF_stopVars(Stop(a)) /\ WF_stopVars(turn[a] = "again" /\ \E m \in Messages : EndTurn(a, m))

StopSpec == StopInit /\ [][StopNext]_stopVars /\ StopFairness

-----------------------------------------------------------------------------
(* Properties *)

StopTypeOK ==
  /\ turn \in [Agents -> {"work", "load", "save", "pending", "compare", "save_end", "save_block",
                          "repeated", "remember", "again", "ended"}]
  /\ message \in [Agents -> Messages \cup {Missing}] /\ fresh \in [Agents -> BOOLEAN]
  /\ note \in [marked : BOOLEAN, texts : SUBSET Notes] /\ \A a \in Agents : loaded[a].texts \subseteq Notes
  /\ decisions \in 0 .. MaxDecisions /\ answered \in 0 .. decisions
  /\ digest \in {Missing} \cup 0 .. decisions /\ current \in [Agents -> 0 .. decisions]
  /\ blockedOn \in Asking \cup {Missing}

\* "A block the agent cannot satisfy would loop the session": a turn that is
\* being ended ends, whatever the agent does about a block, repeating itself
\* included.
TurnEnds == \A a \in Agents : turn[a] = "load" ~> turn[a] = "ended"

\* A turn in which a decision was recorded that waits for its answer is not
\* kept from ending: its digest is never the one a stop before saw.
RecordedIsEnough == \A a \in Agents : fresh[a] => turn[a] \notin {"save_block", "repeated", "remember"}

\* "Nothing the agent wrote is ever dropped": what a stop finds in the note it
\* leaves there, whether the markers were still in it or not; only what was
\* written since it looked is lost.
NotesKept ==
  [][\A t \in note.texts \ note'.texts : \E a \in Agents : turn[a] = "save" /\ t \notin loaded[a].texts]_stopVars
=============================================================================
