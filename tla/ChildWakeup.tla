---------------------------- MODULE ChildWakeup ----------------------------
(***************************************************************************)
(* ChildWakeupService: the ends of child runs, merged per conversation and  *)
(* sent back as one message.  The rows of delegation_child_runs are the     *)
(* truth; the service remembers which conversations are owed a window.      *)
(*                                                                          *)
(* Of _pending only the keys are read.  The key of a message is a digest    *)
(* of the children it reports, so a message is its batch: sending a batch   *)
(* again replays it, another batch is another message.  The merge window    *)
(* and the throttle only make a window wait.  Whether a conversation is     *)
(* archived is a choice when it is asked.  Delegation gives the rows their  *)
(* life.                                                                    *)
(***************************************************************************)
EXTENDS Integers, FiniteSets

CONSTANTS
    Children, Parents, Conversations,
    ConvOf,       \* the conversation of a parent run
    MaxInflight,  \* max_inflight_conversations
    MaxFaults,    \* bound: writes, reads and calls that raise
    None

ASSUME ConvOfAssumption == ConvOf \in [Parents -> Conversations]
ASSUME MaxInflightAssumption == MaxInflight \in Nat \ {0}
ASSUME MaxFaultsAssumption == MaxFaults \in Nat
ASSUME NoneAssumption == None \notin Parents \cup Conversations
ASSUME ConversationsFinite == IsFiniteSet(Conversations)

VARIABLES
    row,       \* state of the child's row
    parent,    \* its parent_run_id
    reported,  \* its reported_at is set
    gone,      \* the parent conversations that were deleted
    pending,   \* _pending: conversations owed a window
    window,    \* _window_tasks, and how far the window of a conversation is
    batch,     \* the rows a window took
    process,   \* "up", "closing" (wake-ups stopped), "draining", "down"
    faults,    \* counter of the bound
    messages,  \* the batches a conversation received (history)
    excused,   \* ended without a wake-up, or given up with a notice (history)
    slip       \* sent, but the stamp was lost (history)

rows == <<row, parent, reported>>
service == <<pending, window, batch>>
told == <<messages, excused, slip>>

TerminalStates == {"completed", "failed", "cancelled", "interrupted"}
RowStates == TerminalStates \cup {"none", "running"}

-----------------------------------------------------------------------------
Home(c) == ConvOf[parent[c]]
Terminal(c) == row[c] \in TerminalStates
Smaller(a, b) == IF a < b THEN a ELSE b

\* list_unreported_terminal_child_runs
Unreported(v) == {c \in Children : Terminal(c) /\ ~reported[c] /\ Home(c) = v}

Windows == {v \in Conversations : window[v] # "none"}
Fault == faults < MaxFaults /\ faults' = faults + 1

WakeupInit ==
    /\ row = [c \in Children |-> "none"]
    /\ parent = [c \in Children |-> None]
    /\ reported = [c \in Children |-> FALSE]
    /\ gone = {}
    /\ pending = {}
    /\ window = [v \in Conversations |-> "none"]
    /\ batch = [v \in Conversations |-> {}]
    /\ process = "up"
    /\ faults = 0
    /\ messages = [v \in Conversations |-> {}]
    /\ excused = {} /\ slip = {}

-----------------------------------------------------------------------------
\* [mutant] a full house refuses the child
ScheduleOrForget(v) ==
    /\ pending' = IF process = "up" /\ (window[v] # "none" \/ Cardinality(Windows) < MaxInflight)
                  THEN pending \cup {v} ELSE pending
    /\ window' = IF process = "up" /\ window[v] = "none" /\ Cardinality(Windows) < MaxInflight
                 THEN [window EXCEPT ![v] = "wait"] ELSE window

\* schedule: nothing once the service is closed.
Schedule(v) ==
    /\ pending' = IF process = "up" THEN pending \cup {v} ELSE pending
    /\ window' = IF process = "up" /\ window[v] = "none" /\ Cardinality(Windows) < MaxInflight
                 THEN [window EXCEPT ![v] = "wait"] ELSE window

\* Windows for conversations that are owed one, while there is room.
StartWindows(owed, taken) ==
    \E chosen \in SUBSET (owed \ taken) :
        /\ Cardinality(chosen) =
               Smaller(Cardinality(owed \ taken), MaxInflight - Cardinality(taken))
        /\ window' = [v \in Conversations |->
                          IF v \in chosen THEN "wait"
                          ELSE IF v \in taken THEN window[v] ELSE "none"]

Untouched == UNCHANGED <<rows, gone, process>>

\* A window closes without a message.
GiveUp(v, children) ==
    /\ window' = [window EXCEPT ![v] = "done"]
    /\ batch' = [batch EXCEPT ![v] = {}]
    /\ excused' = excused \cup children
    /\ UNCHANGED messages

\* The merge window and the throttle are over: take the batch and send it.
Take(v) ==
    /\ window[v] = "wait" /\ Unreported(v) # {} /\ v \notin gone
    /\ window' = [window EXCEPT ![v] = "send"]
    /\ batch' = [batch EXCEPT ![v] = Unreported(v)]
    /\ pending' = pending \ {v}
    /\ UNCHANGED <<messages, excused, slip, faults>> /\ Untouched

\* Nothing to send, no such conversation, or an archived one: a notice.
TakeNothing(v) ==
    /\ window[v] = "wait"
    /\ pending' = pending \ {v}
    /\ GiveUp(v, Unreported(v))
    /\ UNCHANGED <<slip, faults>> /\ Untouched

\* The rows cannot be read.
TakeFails(v) ==
    /\ window[v] = "wait"
    /\ Fault
    /\ pending' = pending \ {v}
    /\ GiveUp(v, Unreported(v))
    /\ UNCHANGED slip /\ Untouched

\* The gateway accepts the message and commits it.
Accept(v) ==
    /\ window[v] = "send" /\ v \notin gone
    /\ window' = [window EXCEPT ![v] = "sent"]
    /\ messages' = [messages EXCEPT ![v] = @ \cup {batch[v]}]
    /\ UNCHANGED <<pending, batch, excused, slip, faults>> /\ Untouched

\* The gateway refuses it, most often for an active run: a notice, no retry.
Refuse(v) ==
    /\ window[v] = "send"
    /\ GiveUp(v, batch[v])
    /\ UNCHANGED <<pending, slip, faults>> /\ Untouched

\* send raises after the message was committed.
SendFails(v) ==
    /\ window[v] = "sent" /\ Fault
    /\ GiveUp(v, batch[v])
    /\ slip' = slip \cup batch[v]
    /\ UNCHANGED pending /\ Untouched

\* [mutant] only one row of the batch is marked
StampOne(v, failed) ==
    /\ window[v] = "sent" /\ failed = {}
    /\ \E one \in batch[v] : reported' = [reported EXCEPT ![one] = TRUE]
    /\ window' = [window EXCEPT ![v] = "done"]
    /\ batch' = [batch EXCEPT ![v] = {}]
    /\ UNCHANGED <<row, parent, gone, pending, process, faults, messages, excused, slip>>

\* _mark_reported; a row whose mark fails twice gets a notice.
Stamp(v, failed) ==
    /\ window[v] = "sent" /\ failed \subseteq batch[v]
    /\ IF failed = {} THEN UNCHANGED faults ELSE Fault
    /\ reported' = [c \in Children |-> reported[c] \/ c \in batch[v] \ failed]
    /\ window' = [window EXCEPT ![v] = "done"]
    /\ batch' = [batch EXCEPT ![v] = {}]
    /\ excused' = (excused \ batch[v]) \cup failed
    /\ slip' = slip \cup failed
    /\ UNCHANGED <<row, parent, gone, pending, process, messages>>

\* [mutant] what came during the window is not picked up
WindowDoneForgets(v) ==
    /\ window[v] = "done"
    /\ window' = [window EXCEPT ![v] = "none"]
    /\ UNCHANGED <<pending, batch, faults, told>> /\ Untouched

\* _on_window_done
WindowDone(v) ==
    /\ window[v] = "done"
    /\ StartWindows(pending, Windows \ {v})
    /\ UNCHANGED <<pending, batch, faults, told>> /\ Untouched

WindowSteps(v) ==
    \/ Take(v) \/ TakeNothing(v) \/ TakeFails(v)
    \/ Accept(v) \/ Refuse(v) \/ SendFails(v)
    \/ \E failed \in SUBSET batch[v] : Stamp(v, failed)
    \/ WindowDone(v)

\* Memory goes with the process, or with shutdown.
StopWindows ==
    /\ pending' = {}
    /\ window' = [v \in Conversations |-> "none"]
    /\ batch' = [v \in Conversations |-> {}]
    /\ slip' = slip \cup UNION {batch[v] : v \in {u \in Conversations : window[u] = "sent"}}

-----------------------------------------------------------------------------
\* The row is on its way to its conversation.
Owed(c) ==
    \/ Home(c) \in pending
    \/ window[Home(c)] = "wait"
    \/ c \in batch[Home(c)]
=============================================================================
