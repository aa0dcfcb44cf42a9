---------------------------- MODULE ToolApproval ----------------------------
(***************************************************************************)
(* The tool batch of one model turn: ToolExecutionCoordinator.execute with  *)
(* one task per call in a TaskGroup, and the approval gate it asks, which   *)
(* shares the lock of the gateway with every request of every conversation. *)
(*                                                                          *)
(* A step is what a task does from one await to the next; an acquisition of *)
(* a free lock or slot does not suspend.  Preparation is one synchronous    *)
(* block, so Init is the state after it.  Calls that the v2 pipeline takes  *)
(* over (no approval needed, tool_platform_v2_enabled) are not modelled.    *)
(***************************************************************************)
EXTENDS Naturals, FiniteSets

CONSTANTS
    Calls,          \* the tool calls of the batch
    MaxConcurrent,  \* limits.max_concurrent_calls
    TurnMayTimeOut  \* whether the host may cancel the turn of this batch

ASSUME MaxConcurrentAssumption == MaxConcurrent \in Nat \ {0}
ASSUME TurnMayTimeOutAssumption == TurnMayTimeOut \in BOOLEAN

VARIABLES
    \* rows
    rec,       \* v2_tool_executions.status
    evidence,  \* calls whose row carries the approval of their user
    \* the batch
    needs,     \* calls the preparation sent to the approval gate
    pc,        \* where the task of a call is
    verdict,   \* what a call that left its wait takes to the lock
    item,      \* _ToolWorkItem.status
    hit,       \* calls whose task was cancelled and has not noticed
    batch,     \* "running", "aborting" (the TaskGroup cancels its tasks), "over"
    \* the approval gate
    pending,   \* _pending_approvals, and _waiters
    reply,     \* the result of a waiter; "void": accepted, but too late to count
    staged,    \* pending approvals that hold modified arguments
    \* around it
    token,     \* the run's cancellation token is set
    busy,      \* another request holds the gateway lock
    started    \* calls whose tool was entered (history)

rows == <<rec, evidence>>
tasks == <<needs, pc, verdict, item, hit, batch>>
gate == <<pending, reply, staged>>
around == <<token, busy, started>>
vars == <<rows, tasks, gate, around>>

-----------------------------------------------------------------------------
Terminal == {"completed", "failed", "cancelled", "rejected", "expired"}
Statuses == Terminal \cup {"validating", "waiting_approval", "running"}
Items == Terminal \cup {"created", "running"}

Decisions == {"approve", "deny", "modify"}
Verdicts == Decisions \cup {"expire", "cancelled", "aborted"}

\* "asking" and "leaving" wait for the gateway lock; "raised" ended with
\* RuntimeCancelled, "stopped" with the CancelledError of the TaskGroup.
Ended == {"done", "raised", "stopped"}
Places == Ended \cup {"new", "asking", "waiting", "leaving", "queued", "running"}

LockFree == ~busy
SlotFree == Cardinality({c \in Calls : pc[c] = "running"}) < MaxConcurrent
AllEnded == \A c \in Calls : pc[c] \in Ended

\* After _prepare_tool_batch: a call is invalid, or needs an approval, or not.
Init ==
    /\ \E invalid \in SUBSET Calls :
         /\ pc = [c \in Calls |-> IF c \in invalid THEN "done" ELSE "new"]
         /\ item = [c \in Calls |-> IF c \in invalid THEN "failed" ELSE "created"]
         /\ needs \in SUBSET (Calls \ invalid)
    /\ rec = [c \in Calls |-> "validating"]
    /\ evidence = {}
    /\ verdict = [c \in Calls |-> "none"]
    /\ hit = {}
    /\ batch = "running"
    /\ pending = {}
    /\ reply = [c \in Calls |-> "none"]
    /\ staged = {}
    /\ token = FALSE
    /\ busy = FALSE
    /\ started = {}

-----------------------------------------------------------------------------
(* The slots and the tool.                                                  *)

Goes(c, place) == pc' = [pc EXCEPT ![c] = place]
Settles(c, status) == item' = [item EXCEPT ![c] = status]

\* async with self._execution_slots: _execute_approved_item, which makes the row
\* running and enters the tool; its first segment runs whatever the token says.
EnterSlot(c) ==
    \/ /\ SlotFree
       /\ Goes(c, "running") /\ Settles(c, "running")
       /\ rec' = [rec EXCEPT ![c] = "running"]
       /\ started' = started \cup {c}
    \/ ~SlotFree /\ Goes(c, "queued") /\ UNCHANGED <<rec, item, started>>

\* A call without approval, or one that waits for a slot.
Proceed(c) ==
    /\ c \notin hit
    /\ \/ pc[c] = "new" /\ c \notin needs
       \/ pc[c] = "queued" /\ SlotFree
    /\ EnterSlot(c)
    /\ UNCHANGED <<evidence, needs, verdict, hit, batch, gate, token, busy>>

\* The tool returned a result, an error, or timed out.
ToolReturns(c) ==
    /\ pc[c] = "running" /\ c \notin hit
    /\ \E s \in {"completed", "failed"} : Settles(c, s)
    /\ Goes(c, "done")
    /\ UNCHANGED <<rows, needs, verdict, hit, batch, gate, around>>

\* _await_tool_result saw the token: the tool is cancelled and awaited.
ToolCancelled(c) ==
    /\ pc[c] = "running" /\ c \notin hit
    /\ token
    /\ Settles(c, "cancelled") /\ Goes(c, "raised")
    /\ UNCHANGED <<rows, needs, verdict, hit, batch, gate, around>>

-----------------------------------------------------------------------------
(* The approval gate.                                                       *)

\* decide: register the request under the lock; both rows say so.
Ask(c) ==
    /\ pc[c] \in {"new", "asking"} /\ c \in needs /\ c \notin hit
    /\ LockFree
    /\ pending' = pending \cup {c}
    /\ rec' = [rec EXCEPT ![c] = "waiting_approval"]
    /\ Goes(c, "waiting")
    /\ UNCHANGED <<evidence, needs, verdict, item, hit, batch, reply, staged, around>>

AskBlocked(c) ==
    /\ pc[c] = "new" /\ c \in needs /\ c \notin hit
    /\ ~LockFree
    /\ Goes(c, "asking")
    /\ UNCHANGED <<rows, needs, verdict, item, hit, batch, gate, around>>

\* resolve: the user's reply, accepted while the waiter has no result.
Resolve(c, d) ==
    /\ LockFree
    /\ pc[c] = "waiting" /\ reply[c] = "none"
    /\ reply' = [reply EXCEPT ![c] = IF token \/ c \in hit THEN "void" ELSE d]
    /\ staged' = IF d = "modify" THEN staged \cup {c} ELSE staged
    /\ evidence' = IF d \in {"approve", "modify"} THEN evidence \cup {c} ELSE evidence
    /\ UNCHANGED <<rec, tasks, pending, around>>

\* [mutant] there is no timeout
WaitEndsUntimed(c) == ({reply[c]} \cap Decisions) \cup (IF token THEN {"cancelled"} ELSE {})

\* _wait_for_decision: the reply, the timeout, or the token, which a reply may
\* still beat; a reply given after the token was set never does.
WaitEnds(c) ==
    {"expire"} \cup ({reply[c]} \cap Decisions) \cup (IF token THEN {"cancelled"} ELSE {})

\* [mutant] an expired request falls through to the execution
ActOnUnlessDenied(c, v) ==
    \/ v \in {"approve", "expire"} /\ EnterSlot(c)
    \/ v = "modify" /\ c \in staged' /\ EnterSlot(c)
    \/ /\ v = "deny" \/ (v = "modify" /\ c \notin staged')
       /\ Settles(c, "rejected") /\ Goes(c, "done") /\ UNCHANGED <<rec, started>>
    \/ v = "cancelled" /\ Goes(c, "raised") /\ UNCHANGED <<rec, item, started>>
    \/ v = "aborted" /\ Goes(c, "stopped") /\ UNCHANGED <<rec, item, started>>

\* _execute_prepared_item after decide: modified_arguments_for looks the request
\* up in _pending_approvals.
ActOn(c, v) ==
    \/ v = "approve" /\ EnterSlot(c)
    \/ v = "modify" /\ c \in staged' /\ EnterSlot(c)
    \/ /\ v = "deny" \/ (v = "modify" /\ c \notin staged')
       /\ Settles(c, "rejected") /\ Goes(c, "done") /\ UNCHANGED <<rec, started>>
    \/ v = "expire" /\ Settles(c, "expired") /\ Goes(c, "done") /\ UNCHANGED <<rec, started>>
    \/ v = "cancelled" /\ Goes(c, "raised") /\ UNCHANGED <<rec, item, started>>
    \/ v = "aborted" /\ Goes(c, "stopped") /\ UNCHANGED <<rec, item, started>>

\* The finally block of decide removes the request, and with it the arguments.
Forget(c) == pending' = pending \ {c} /\ staged' = staged \ {c}

\* The wait ends; the rest of decide needs the lock.
EndWait(c, v) ==
    /\ \/ LockFree /\ Forget(c) /\ ActOn(c, v) /\ UNCHANGED verdict
       \/ /\ ~LockFree
          /\ verdict' = [verdict EXCEPT ![c] = v]
          /\ Goes(c, "leaving")
          /\ UNCHANGED <<rec, item, pending, staged, started>>
    /\ hit' = hit \ {c}
    /\ UNCHANGED <<evidence, needs, batch, reply, token, busy>>

Wake(c) ==
    /\ pc[c] = "waiting" /\ c \notin hit
    /\ \E v \in WaitEnds(c) : EndWait(c, v)

Leave(c) ==
    /\ pc[c] = "leaving" /\ c \notin hit
    /\ LockFree
    /\ Forget(c)
    /\ ActOn(c, verdict[c])
    /\ UNCHANGED <<evidence, needs, verdict, hit, batch, reply, token, busy>>

-----------------------------------------------------------------------------
(* The TaskGroup.                                                           *)

\* [mutant] calls that wait for a slot are left in the queue
AbortSparesQueued(host) ==
    /\ batch = "running"
    /\ (host /\ TurnMayTimeOut) \/ \E c \in Calls : pc[c] = "raised"
    /\ batch' = "aborting"
    /\ hit' = {c \in Calls : pc[c] \notin Ended \cup {"queued"}}
    /\ UNCHANGED <<rows, needs, pc, verdict, item, gate, around>>

\* One task raised, or the host cancelled the turn (asyncio.timeout around a
\* model turn, a task's time limit): every task that is not over is cancelled,
\* once.
Abort(host) ==
    /\ batch = "running"
    /\ (host /\ TurnMayTimeOut) \/ \E c \in Calls : pc[c] = "raised"
    /\ batch' = "aborting"
    /\ hit' = {c \in Calls : pc[c] \notin Ended}
    /\ UNCHANGED <<rows, needs, pc, verdict, item, gate, around>>

\* CancelledError in a call: a wait still goes through its finally block; a
\* call that was already waiting for the lock there leaves without it; a tool
\* is cancelled and awaited.
Unwind(c) ==
    /\ c \in hit
    /\ \/ pc[c] = "waiting" /\ EndWait(c, "aborted")
       \/ /\ pc[c] # "waiting"
          /\ Goes(c, "stopped")
          /\ hit' = hit \ {c}
          /\ UNCHANGED <<rows, needs, verdict, item, batch, gate, around>>

\* [mutant] an interrupted batch overwrites the results it has
InterruptedOverwrites(c) == IF batch = "running" THEN item[c] ELSE "cancelled"

\* record_tool_result, or _record_interrupted_items after an abort.
ResultOf(c) == IF item[c] \in Terminal THEN item[c] ELSE "cancelled"

Record ==
    /\ batch # "over" /\ AllEnded
    /\ batch = "running" => \A c \in Calls : pc[c] = "done"
    /\ rec' = [c \in Calls |-> ResultOf(c)]
    /\ batch' = "over"
    /\ UNCHANGED <<evidence, needs, pc, verdict, item, hit, gate, around>>

-----------------------------------------------------------------------------
(* Around the batch.                                                        *)

Cancel ==
    /\ ~token /\ batch # "over"
    /\ token' = TRUE
    /\ UNCHANGED <<rows, tasks, gate, busy, started>>

OtherRequest ==
    /\ batch # "over"
    /\ busy' = ~busy
    /\ UNCHANGED <<rows, tasks, gate, token, started>>

CallSteps(c) ==
    \/ Proceed(c) \/ ToolReturns(c) \/ ToolCancelled(c)
    \/ Ask(c) \/ AskBlocked(c) \/ Wake(c) \/ Leave(c)
    \/ Unwind(c)

Next ==
    \/ \E c \in Calls : CallSteps(c)
    \/ \E c \in Calls, d \in Decisions : Resolve(c, d)
    \/ \E host \in BOOLEAN : Abort(host)
    \/ Record \/ Cancel \/ OtherRequest

Spec == Init /\ [][Next]_vars

\* Tasks run; the lock is handed out first in, first out and its holders let
\* go of it; approvals and tools have a timeout; a TaskGroup hears of its tasks.
Fairness ==
    /\ \A c \in Calls : SF_vars(CallSteps(c))
    /\ WF_vars(Abort(FALSE)) /\ WF_vars(Record)
    /\ WF_vars(busy /\ OtherRequest)

LiveSpec == Spec /\ Fairness

-----------------------------------------------------------------------------
(* Properties.                                                              *)

TypeOK ==
    /\ rec \in [Calls -> Statuses]
    /\ evidence \in SUBSET Calls
    /\ needs \in SUBSET Calls
    /\ pc \in [Calls -> Places]
    /\ verdict \in [Calls -> Verdicts \cup {"none"}]
    /\ item \in [Calls -> Items]
    /\ hit \in SUBSET Calls
    /\ batch \in {"running", "aborting", "over"}
    /\ pending \in SUBSET Calls
    /\ reply \in [Calls -> Decisions \cup {"none", "void"}]
    /\ staged \in SUBSET Calls
    /\ token \in BOOLEAN /\ busy \in BOOLEAN
    /\ started \in SUBSET Calls

Accepted(c) == c \in evidence /\ reply[c] \in {"approve", "modify"}

\* README.md: approval is a precondition of execution.  The tool of a call that
\* needs one is entered only after the user accepted it, in time, and its row
\* carries the evidence the evaluation of runs looks for.
ConsentBeforeEffect == \A c \in started \cap needs : Accepted(c)

\* A row that says rejected or expired is a tool that was never entered, so the
\* model and a revival may take it for free of effects.
RefusedNeverRan == \A c \in Calls : rec[c] \in {"rejected", "expired"} => c \notin started

\* When execute() returns or raises, no row is left open, whatever was
\* cancelled, and the result of a tool that ran to its end is kept when its
\* siblings are cancelled.  RunGateway's ExecEnd relies on it.
EveryCallSettled ==
    batch = "over" => \A c \in Calls :
        /\ rec[c] \in Terminal
        /\ item[c] \in Terminal => rec[c] = item[c]

\* Once the TaskGroup cancels its tasks, no tool is entered and no user is asked
\* any more, by calls that wait for a slot, for the lock, or for their user.
AbortStopsBatch ==
    [][batch = "aborting" => started' \subseteq started /\ pending' \subseteq pending]_vars

(* Why they hold: what every step relies on.                                *)

\* Consent travels with a call from the reply to the tool.
ConsentInv == \A c \in Calls :
    /\ reply[c] \in {"approve", "modify"} => c \in evidence
    /\ pc[c] = "leaving" /\ verdict[c] \in {"approve", "modify"} => Accepted(c)
    /\ pc[c] = "queued" /\ c \in needs => Accepted(c)

\* Items say how far their calls are, and rows are settled at the end only.
EffectInv == \A c \in Calls :
    /\ pc[c] \in Places \ (Ended \cup {"running"}) => c \notin started /\ item[c] = "created"
    /\ pc[c] = "done" => item[c] \in Terminal
    /\ item[c] \in {"rejected", "expired"} => c \notin started
    /\ batch # "over" => rec[c] \notin Terminal

\* A task that is not over when its group aborts has been cancelled; if it has
\* noticed, it is on its way out of the approval gate.
AbortInv ==
    /\ batch = "running" => hit = {}
    /\ batch = "aborting" => \A c \in Calls :
         pc[c] \notin Ended => c \in hit \/ (pc[c] = "leaving" /\ verdict[c] = "aborted")
    /\ batch = "over" => AllEnded /\ \A c \in Calls : rec[c] = ResultOf(c)

\* The inductive invariant: what a call carries from the gate to the tool, its
\* item, its row and the state of the TaskGroup agree.
IndInv == TypeOK /\ ConsentBeforeEffect /\ ConsentInv /\ EffectInv /\ AbortInv

\* A batch ends, through approvals, a contended lock and cancellations.
EveryBatchEnds == <>(batch = "over")

-----------------------------------------------------------------------------
(* What the repository says and the code does not do.                       *)

\* approval.py, resolve: modified arguments are kept in the pending request for
\* the executing side to read.  So a call whose modification decide returned is
\* not rejected for want of arguments.
ModifiedCallRuns ==
    \A c \in Calls : pc[c] = "done" /\ reply[c] = "modify" => item[c] # "rejected"

=============================================================================
