----------------------------- MODULE RunGateway -----------------------------
(***************************************************************************)
(* The gateway of runtime v2 (runtime_v2/gateway_impl), the rows of v2_runs *)
(* it works on (storage/v2/runs.py, storage/v2/transcript.py), the executor *)
(* tasks it and the task worker spawn, and the start-up sweep.              *)
(*                                                                          *)
(* Everything runs on one asyncio loop and the repository is synchronous,   *)
(* so code between two awaits is one step here.  A gateway call yields      *)
(* where it waits for the gateway lock and where it awaits the context      *)
(* prefix builder with the lock held; executors, cancellations, callbacks,  *)
(* the worker and a crash happen in between.  A call that raises before it  *)
(* wrote anything changes nothing and is not a step.  The UNIQUE index on   *)
(* active runs per lane is deliberately left out: OneActivePerLane says the *)
(* code's own checks never rely on it.                                      *)
(***************************************************************************)
EXTENDS Naturals

CONSTANTS
    Runs,          \* identities of v2_runs rows; running out of them is a bound
    Lanes, Convs,  \* v2_lanes, conversations
    ConvOf,        \* [Lanes -> Convs]
    WorkerLanes,   \* main lanes of the execution conversations of tasks
    Callers,       \* HTTP handlers in flight at once
    MaxCrashes,    \* bound on process deaths and restarts
    None

ASSUME ConvOfAssumption == ConvOf \in [Lanes -> Convs]
ASSUME WorkerLanesAssumption == WorkerLanes \subseteq Lanes
ASSUME NoneAssumption == None \notin Runs \cup Lanes \cup Convs
ASSUME MaxCrashesAssumption == MaxCrashes \in Nat

VARIABLES
    \* the database, which survives a crash
    status,    \* v2_runs.status
    lane,      \* v2_runs.lane_id
    group,     \* v2_runs.sibling_group_id, named by the run that opened it
    variant,   \* v2_runs.is_active_variant
    willStop,  \* the run's last run_awaiting_user event has willStop = true
    open,      \* the run has a tool execution without a recorded outcome
    \* the process
    task,      \* the executor task of a run, by who spawned it
    token,     \* the gateway executor's cancellation token is set
    late,      \* runs with a finished gateway task whose done-callback is due
    slot,      \* _active_runs: the last handle of each conversation
    byId,      \* _active_runs_by_id
    call,      \* the HTTP handlers
    phase,     \* "up", "closing" (lifespan shutdown) or "down"
    crashes,
    skipped    \* rows the last sweep could not write (history)

db == <<status, lane, group, variant, willStop, open>>
executors == <<task, token, late>>
handles == <<slot, byId>>
process == <<phase, crashes, skipped>>
vars == <<db, executors, handles, call, process>>

-----------------------------------------------------------------------------
(* Values.  "queued" and "compacting" are active statuses no code writes.   *)

ActiveStatuses == {"created", "running", "waiting_approval", "cancelling"}
TerminalStatuses == {"completed", "failed", "cancelled"}
RunStatuses == ActiveStatuses \cup TerminalStatuses \cup {"absent"}

Owners == {"gateway", "worker"}
\* "ready": spawned, execute() has not begun; "ending": the row is final and
\* the finally block awaits the trace observer.
Executing == {"running", "approving"}
AliveStates == Executing \cup {"ready", "ending"}
TaskStates == AliveStates \cup {"none"}

\* A handler is idle, waits for the lock with the run it read, or holds the
\* lock and awaits the prefix builder for the run it is about to launch.
Calls == [pc : {"idle", "regenerate", "select", "launch", "relaunch"}, run : Runs \cup {None}]
NoCall == [pc |-> "idle", run |-> None]

ConvOfRun(r) == ConvOf[lane[r]]
Exists(r) == status[r] # "absent"
IsActive(r) == status[r] \in ActiveStatuses
IsTerminal(r) == status[r] \in TerminalStatuses
ActiveOnLane(l) == {r \in Runs : IsActive(r) /\ lane[r] = l}
ActiveInConv(c) == {r \in Runs : IsActive(r) /\ ConvOfRun(r) = c}
Fresh == {r \in Runs : ~Exists(r)}
Alive(o, r) == task[o][r] \in AliveStates
Launching(r) == \E c \in Callers : call[c].pc \in {"launch", "relaunch"} /\ call[c].run = r
\* [mutant] shutdown keeps the lock while it waits for the executors
LockHeldByShutdown ==
    phase # "closing" /\ \A c \in Callers : call[c].pc \notin {"launch", "relaunch"}
\* [mutant] decide keeps the lock while it waits for the user
LockHeldByApproval ==
    /\ \A c \in Callers : call[c].pc \notin {"launch", "relaunch"}
    /\ \A r \in Runs : task["gateway"][r] # "approving"
LockFree == \A c \in Callers : call[c].pc \notin {"launch", "relaunch"}

Init ==
    /\ status = [r \in Runs |-> "absent"]
    /\ lane = [r \in Runs |-> None]
    /\ group = [r \in Runs |-> None]
    /\ variant = [r \in Runs |-> FALSE]
    /\ willStop = [r \in Runs |-> FALSE]
    /\ open = [r \in Runs |-> FALSE]
    /\ task = [o \in Owners |-> [r \in Runs |-> "none"]]
    /\ token = [r \in Runs |-> FALSE]
    /\ late = {}
    /\ slot = [c \in Convs |-> None]
    /\ byId = {}
    /\ call = [c \in Callers |-> NoCall]
    /\ phase = "up"
    /\ crashes = 0
    /\ skipped = {}

-----------------------------------------------------------------------------
(* Queries of the gateway and of the repository.                            *)

\* [mutant] only the slots are searched
FindActiveRunBySlot(r) == (\E c \in Convs : slot[c] = r) /\ Alive("gateway", r)

FindActiveRun(r) == (r \in byId \/ \E c \in Convs : slot[c] = r) /\ Alive("gateway", r)

HasActiveRun(c) == slot[c] # None /\ Alive("gateway", slot[c])

RequireNoActiveRuns(c) == ~HasActiveRun(c) /\ ActiveInConv(c) = {}

\* classify_crash_recovery: can_auto_resume
CanAutoResume(r) == ~open[r] /\ status[r] \notin {"waiting_approval", "cancelling"}

\* [mutant] the lane is not looked at
RevivableOnBusyLane(r) == status[r] = "completed" /\ willStop[r] /\ ~open[r]

\* evaluate_revive, and the same checks inside revive_terminal_run
Revivable(r) ==
    /\ status[r] = "completed"
    /\ willStop[r]
    /\ ~open[r]
    /\ ActiveOnLane(lane[r]) \ {r} = {}

\* is_active_variant = 1 for r, 0 for its siblings
OnlyVariant(r) ==
    [x \in Runs |-> x = r \/ (variant[x] /\ group[x] # group[r])]

\* INSERT INTO v2_runs, as the active variant of sibling group g
InsertRun(n, l, g) ==
    /\ lane' = [lane EXCEPT ![n] = l]
    /\ group' = [group EXCEPT ![n] = g]
    /\ variant' = [x \in Runs |-> x = n \/ (variant[x] /\ group[x] # g)]
    /\ UNCHANGED <<willStop, open>>

-----------------------------------------------------------------------------
(* Gateway calls, from the lock to the first await or the return.           *)

\* The lock is kept while _launch_run awaits the context prefix builder.
AwaitPrefix(c, pc, n) == call' = [call EXCEPT ![c] = [pc |-> pc, run |-> n]]

Return(c) == call' = [call EXCEPT ![c] = NoCall]

Enters(c) == phase = "up" /\ call[c].pc = "idle" /\ LockFree

\* send: create_message_submission, then _launch_run.
Send(c, l, n) ==
    /\ Enters(c) /\ n \in Fresh
    /\ ActiveInConv(ConvOf[l]) = {}
    /\ InsertRun(n, l, n)
    /\ status' = [status EXCEPT ![n] = "created"]
    /\ AwaitPrefix(c, "launch", n)
    /\ UNCHANGED <<executors, handles, process>>

\* resolve_recovery(retry = True) on a terminal row: revive_terminal_run.
Revive(c, r) ==
    /\ Enters(c) /\ ~FindActiveRun(r)
    /\ Revivable(r)
    /\ status' = [status EXCEPT ![r] = "running"]
    /\ variant' = OnlyVariant(r)
    /\ AwaitPrefix(c, "relaunch", r)
    /\ UNCHANGED <<lane, group, willStop, open, executors, handles, process>>

\* [mutant] the interrupted row itself is started again
RetryInPlace(c, r, n) ==
    /\ Enters(c) /\ ~FindActiveRun(r)
    /\ IsActive(r) /\ CanAutoResume(r)
    /\ AwaitPrefix(c, "relaunch", r)
    /\ UNCHANGED <<db, executors, handles, process>>

\* resolve_recovery(retry = True) on an active row: finalize_interrupted_run,
\* which keeps the tools uncertain, then create_run in the same sibling group.
RetryInterrupted(c, r, n) ==
    /\ Enters(c) /\ n \in Fresh /\ ~FindActiveRun(r)
    /\ IsActive(r) /\ CanAutoResume(r)
    /\ InsertRun(n, lane[r], group[r])
    /\ status' = [status EXCEPT ![r] = "failed", ![n] = "created"]
    /\ AwaitPrefix(c, "launch", n)
    /\ UNCHANGED <<executors, handles, process>>

\* resolve_recovery(retry = False)
MarkFailed(c, r) ==
    /\ Enters(c) /\ ~FindActiveRun(r)
    /\ IsActive(r)
    /\ status' = [status EXCEPT ![r] = "failed"]
    /\ UNCHANGED <<lane, group, variant, willStop, open,
                   executors, handles, call, process>>

\* regenerate_run, resend_run and select_run_variant read the run before they
\* wait for the lock, and judge its status by that reading.
BeginOnRun(c, op, r) ==
    /\ phase = "up" /\ call[c].pc = "idle"
    /\ status[r] \in IF op = "select" THEN {"completed"} ELSE TerminalStatuses
    /\ call' = [call EXCEPT ![c] = [pc |-> op, run |-> r]]
    /\ UNCHANGED <<db, executors, handles, process>>

\* [mutant] it waits until no run is active instead of refusing
RegenerateWaits(c) ==
    /\ call[c].pc = "regenerate" /\ LockFree
    /\ LET r == call[c].run IN
       /\ RequireNoActiveRuns(ConvOfRun(r))
       /\ \E n \in Fresh :
            /\ InsertRun(n, lane[r], group[r])
            /\ status' = [status EXCEPT ![n] = "created"]
            /\ AwaitPrefix(c, "launch", n)
    /\ UNCHANGED <<executors, handles, process>>

\* resend_run differs from regenerate_run only in the text of the trigger.
Regenerate(c) ==
    /\ call[c].pc = "regenerate" /\ LockFree
    /\ LET r == call[c].run IN
       \/ /\ RequireNoActiveRuns(ConvOfRun(r))
          /\ \E n \in Fresh :
               /\ InsertRun(n, lane[r], group[r])
               /\ status' = [status EXCEPT ![n] = "created"]
               /\ AwaitPrefix(c, "launch", n)
       \/ /\ ~RequireNoActiveRuns(ConvOfRun(r)) \/ Fresh = {}
          /\ Return(c) /\ UNCHANGED db
    /\ UNCHANGED <<executors, handles, process>>

SelectVariant(c) ==
    /\ call[c].pc = "select" /\ LockFree
    /\ LET r == call[c].run IN
       variant' = IF RequireNoActiveRuns(ConvOfRun(r)) THEN OnlyVariant(r) ELSE variant
    /\ Return(c)
    /\ UNCHANGED <<status, lane, group, willStop, open, executors, handles, process>>

(* _launch_run after the prefix builder.                                    *)

\* Spawn the executor and register the handle in both indexes.
LaunchOk(c) ==
    /\ call[c].pc \in {"launch", "relaunch"}
    /\ LET n == call[c].run IN
       /\ task' = [task EXCEPT !["gateway"][n] = "ready"]
       /\ slot' = [slot EXCEPT ![ConvOfRun(n)] = n]
       /\ byId' = byId \cup {n}
    /\ Return(c)
    /\ UNCHANGED <<db, token, late, process>>

\* [mutant] a revived row is left as it is
LaunchFailLeavesRow(c) ==
    /\ call[c].pc \in {"launch", "relaunch"}
    /\ Return(c)
    /\ UNCHANGED <<db, executors, handles, process>>

\* The prefix builder, the provider resolver or spawn raised: a revived run is
\* finalised as failed, a created row stays as it is.
LaunchFail(c) ==
    /\ call[c].pc \in {"launch", "relaunch"}
    /\ status' = IF call[c].pc = "relaunch"
                 THEN [status EXCEPT ![call[c].run] = "failed"] ELSE status
    /\ Return(c)
    /\ UNCHANGED <<lane, group, variant, willStop, open, executors, handles, process>>

-----------------------------------------------------------------------------
(* Outside the lock: cancel, and the worker's submission.                   *)

\* gateway.cancel -> executor.request_cancel.  Before execute() begins and
\* after the row is final it is accepted and changes nothing.
Cancel(r) ==
    /\ phase = "up"
    /\ FindActiveRun(r) /\ task["gateway"][r] \in Executing
    /\ token' = [token EXCEPT ![r] = TRUE]
    /\ status' = IF IsTerminal(r) THEN status ELSE [status EXCEPT ![r] = "cancelling"]
    /\ UNCHANGED <<lane, group, variant, willStop, open,
                   task, late, handles, call, process>>

\* TaskWorker._execute_task_turn: the same submission, without the gateway.
WorkerSubmit(n, l) ==
    /\ phase = "up" /\ l \in WorkerLanes /\ n \in Fresh
    /\ ActiveInConv(ConvOf[l]) = {}
    /\ InsertRun(n, l, n)
    /\ status' = [status EXCEPT ![n] = "created"]
    /\ task' = [task EXCEPT !["worker"][n] = "ready"]
    /\ UNCHANGED <<token, late, handles, call, process>>

-----------------------------------------------------------------------------
(* AgentRunExecutor.execute, reduced to what it does to the run row.        *)

SetTask(o, r, s) == task' = [task EXCEPT ![o][r] = s]

\* start_run, or its InvalidStateError when someone made the row terminal.
ExecStart(o, r) ==
    /\ task[o][r] = "ready"
    /\ o = "gateway" => r \notin late   \* callbacks run in the order they were scheduled
    /\ IF IsTerminal(r)
       THEN SetTask(o, r, "ending") /\ UNCHANGED <<status, variant>>
       ELSE /\ SetTask(o, r, "running")
            /\ status' = [status EXCEPT ![r] = "running"]
            /\ variant' = OnlyVariant(r)
    /\ UNCHANGED <<lane, group, willStop, open, token, late, handles, call, process>>

\* _maybe_escalate with will_stop = False (soft budget, repeated failure).
ExecAdvise(o, r) ==
    /\ task[o][r] = "running"
    /\ willStop' = [willStop EXCEPT ![r] = FALSE]
    /\ UNCHANGED <<status, lane, group, variant, open,
                   executors, handles, call, process>>

\* A tool batch begins (never with the token set), or its results are recorded.
ExecTools(o, r) ==
    /\ task[o][r] = "running" /\ IsActive(r)
    /\ open[r] \/ ~token[r]
    /\ open' = [open EXCEPT ![r] = ~@]
    /\ UNCHANGED <<status, lane, group, variant, willStop,
                   executors, handles, call, process>>

\* GatewayToolApprovalGate.decide shares the gateway's lock: it takes it to
\* register the request, and again to remove it, however the wait ended.
ExecAskApproval(r) ==
    /\ task["gateway"][r] = "running" /\ open[r] /\ IsActive(r)
    /\ LockFree
    /\ SetTask("gateway", r, "approving")
    /\ status' = [status EXCEPT ![r] = "waiting_approval"]
    /\ UNCHANGED <<lane, group, variant, willStop, open,
                   token, late, handles, call, process>>

\* decide returns: the row goes back to running, whatever it was meanwhile.
ExecApprovalDecided(r) ==
    /\ task["gateway"][r] = "approving" /\ IsActive(r)
    /\ LockFree
    /\ SetTask("gateway", r, "running")
    /\ status' = [status EXCEPT ![r] = "running"]
    /\ UNCHANGED <<lane, group, variant, willStop, open,
                   token, late, handles, call, process>>

\* finalize_run: the row completes and becomes the active variant.
Complete(r, last) ==
    /\ status' = [status EXCEPT ![r] = "completed"]
    /\ variant' = OnlyVariant(r)
    /\ willStop' = [willStop EXCEPT ![r] = last]

\* transition_run_status to a terminal status
EndAs(r, s) ==
    /\ status' = [status EXCEPT ![r] = s]
    /\ UNCHANGED <<variant, willStop>>

\* The ways execute() leaves its main try.  A hard stop escalates with
\* willStop = True and then runs the verifier, which may escalate again
\* without it.  Every way records the results of its tools first.
ExecOutcome(o, r) ==
    \/ task[o][r] = "running" /\ ~open[r] /\ Complete(r, willStop[r])
    \/ \E last \in BOOLEAN : Complete(r, last)
    \/ EndAs(r, "failed")
    \/ (o = "worker" \/ token[r]) /\ EndAs(r, "cancelled")

ExecEnd(o, r) ==
    /\ task[o][r] \in Executing
    /\ task[o][r] = "approving" => LockFree
    /\ SetTask(o, r, "ending")
    /\ IF IsTerminal(r)
       THEN UNCHANGED <<status, variant, willStop, open>>
       ELSE ExecOutcome(o, r) /\ open' = [open EXCEPT ![r] = FALSE]
    /\ token' = [token EXCEPT ![r] = FALSE]
    /\ UNCHANGED <<lane, group, late, handles, call, process>>

\* The finally block is over and the coroutine returns or raises.
ExecReturn(o, r) ==
    /\ task[o][r] = "ending"
    /\ SetTask(o, r, "none")
    /\ late' = IF o = "gateway" THEN late \cup {r} ELSE late
    /\ UNCHANGED <<db, token, handles, call, process>>

\* [mutant] the handle is popped by run id, whosever task it is
OnRunDoneByRunId(r) ==
    /\ r \in late
    /\ late' = late \ {r}
    /\ slot' = [c \in Convs |-> IF slot[c] = r THEN None ELSE slot[c]]
    /\ byId' = byId \ {r}
    /\ UNCHANGED <<db, task, token, call, process>>

\* _on_run_done releases the handle of the finished task, and leaves alone the
\* handle of a newer task, of the conversation or of the same revived run.
OnRunDone(r) ==
    /\ r \in late
    /\ late' = late \ {r}
    /\ IF Alive("gateway", r)
       THEN UNCHANGED handles
       ELSE /\ slot' = [c \in Convs |-> IF slot[c] = r THEN None ELSE slot[c]]
            /\ byId' = byId \ {r}
    /\ UNCHANGED <<db, task, token, call, process>>

-----------------------------------------------------------------------------
(* The process.                                                             *)

\* gateway.shutdown, after the server stopped serving requests and
\* task_worker.drain returned.
BeginShutdown ==
    /\ phase = "up" /\ \A c \in Callers : call[c].pc = "idle"
    /\ \A r \in Runs : task["worker"][r] = "none"
    /\ phase' = "closing"
    /\ LET hit == {r \in byId : task["gateway"][r] \in Executing} IN
       /\ token' = [r \in Runs |-> token[r] \/ r \in hit]
       /\ status' = [r \in Runs |-> IF r \in hit /\ IsActive(r) THEN "cancelling" ELSE status[r]]
    /\ UNCHANGED <<lane, group, variant, willStop, open,
                   task, late, handles, call, crashes, skipped>>

\* Memory is lost, whether the process drained its tasks or died.
LoseMemory ==
    /\ task' = [o \in Owners |-> [r \in Runs |-> "none"]]
    /\ token' = [r \in Runs |-> FALSE]
    /\ slot' = [c \in Convs |-> None]
    /\ byId' = {}
    /\ late' = {}
    /\ call' = [c \in Callers |-> NoCall]
    /\ phase' = "down"
    /\ UNCHANGED <<db, crashes, skipped>>

Exit ==
    /\ phase = "closing"
    /\ \A o \in Owners, r \in Runs : task[o][r] = "none"
    /\ late = {}
    /\ LoseMemory

Crash ==
    /\ phase # "down" /\ crashes < MaxCrashes
    /\ LoseMemory

\* lifespan start-up: sweep_interrupted_v2_runs makes every active row failed,
\* except rows whose write raised, which it logs and skips.
Restart ==
    /\ phase = "down" /\ crashes < MaxCrashes
    /\ phase' = "up"
    /\ crashes' = crashes + 1
    /\ \E bad \in SUBSET {r \in Runs : IsActive(r)} :
         /\ status' = [r \in Runs |-> IF IsActive(r) /\ r \notin bad THEN "failed" ELSE status[r]]
         /\ skipped' = bad
    /\ UNCHANGED <<lane, group, variant, willStop, open,
                   executors, handles, call>>

-----------------------------------------------------------------------------
CallEnters(c) ==
    \/ \E l \in Lanes, n \in Runs : Send(c, l, n)
    \/ \E r \in Runs : Revive(c, r) \/ MarkFailed(c, r)
    \/ \E r, n \in Runs : RetryInterrupted(c, r, n)
    \/ \E op \in {"regenerate", "select"}, r \in Runs : BeginOnRun(c, op, r)

CallResumes(c) == Regenerate(c) \/ SelectVariant(c)

CallLaunches(c) == LaunchOk(c) \/ LaunchFail(c)

ExecWorks(r) ==
    \/ \E o \in Owners : ExecAdvise(o, r) \/ ExecTools(o, r)
    \/ ExecAskApproval(r)
    \/ ExecApprovalDecided(r)

Lifespan == BeginShutdown \/ Exit \/ Crash \/ Restart

Next ==
    \/ \E c \in Callers : CallEnters(c) \/ CallResumes(c) \/ CallLaunches(c)
    \/ \E r \in Runs : Cancel(r) \/ ExecWorks(r) \/ OnRunDone(r)
    \/ \E r \in Runs, l \in WorkerLanes : WorkerSubmit(r, l)
    \/ \E o \in Owners, r \in Runs : ExecStart(o, r) \/ ExecEnd(o, r) \/ ExecReturn(o, r)
    \/ Lifespan

Spec == Init /\ [][Next]_vars

\* What the code's scheduling justifies.  A spawned task is run by the loop and
\* its done-callback is called; the prefix builder returns or raises; asyncio
\* locks are first-in first-out, so a waiter of a lock that keeps being released
\* gets it, be it a call or an approval; every model turn runs under
\* asyncio.timeout, so execute() leaves its main try; the trace observer is
\* awaited under a timeout.
Fairness ==
    /\ \A c \in Callers : SF_vars(CallResumes(c)) /\ WF_vars(CallLaunches(c))
    /\ \A r \in Runs : WF_vars(OnRunDone(r))
    /\ \A o \in Owners, r \in Runs : WF_vars(ExecStart(o, r)) /\ WF_vars(ExecReturn(o, r))
    /\ \A r \in Runs : SF_vars(ExecEnd("gateway", r)) /\ WF_vars(ExecEnd("worker", r))
    /\ WF_vars(Exit)

LiveSpec == Spec /\ Fairness

-----------------------------------------------------------------------------
(* Properties.                                                              *)

\* Every variable keeps its type; a row that exists has a lane and a group.
TypeOK ==
    /\ status \in [Runs -> RunStatuses]
    /\ lane \in [Runs -> Lanes \cup {None}]
    /\ group \in [Runs -> Runs \cup {None}]
    /\ \A r \in Runs : Exists(r) <=> lane[r] # None
    /\ \A r \in Runs : Exists(r) <=> group[r] # None
    /\ variant \in [Runs -> BOOLEAN]
    /\ willStop \in [Runs -> BOOLEAN]
    /\ open \in [Runs -> BOOLEAN]
    /\ task \in [Owners -> [Runs -> TaskStates]]
    /\ token \in [Runs -> BOOLEAN]
    /\ late \in SUBSET Runs
    /\ slot \in [Convs -> Runs \cup {None}]
    /\ byId \in SUBSET Runs
    /\ call \in [Callers -> Calls]
    /\ phase \in {"up", "closing", "down"}
    /\ crashes \in 0 .. MaxCrashes
    /\ skipped \in SUBSET Runs

\* A lane never has two active runs, although no step here is stopped by the
\* partial UNIQUE index idx_v2_runs_one_active_per_lane: send and regenerate
\* check the conversation, a revival checks the lane, a retry frees it first,
\* and the worker submits past the gateway's lock.
OneActivePerLane ==
    \A r, s \in Runs : IsActive(r) /\ IsActive(s) /\ lane[r] = lane[s] => r = s

\* The runs that answer the same message have at most one active variant,
\* through retries, revivals, selections and late completions.
OneActiveVariant ==
    \A r, s \in Runs : variant[r] /\ variant[s] /\ group[r] = group[s] => r = s

\* _active_runs_by_id holds exactly the runs whose gateway task has not been
\* released, so a run that executes can be cancelled and steered even after a
\* newer run took its conversation's slot, and no handle outlives its task; a
\* slot names such a run of its own conversation.
HandlesMatchTasks ==
    /\ \A r \in Runs : r \in byId <=> Alive("gateway", r) \/ r \in late
    /\ \A c \in Convs : slot[c] # None => slot[c] \in byId /\ ConvOfRun(slot[c]) = c

Owned(r) ==
    \/ Launching(r)
    \/ \E o \in Owners : task[o][r] \in Executing \cup {"ready"}

\* No "fake running": while the process serves, a row that says running,
\* waiting or cancelling has an executor, or a call is about to spawn it.  The
\* exceptions are rows the last sweep could not write.
RunningHasExecutor ==
    \A r \in Runs :
        /\ phase # "down" /\ r \notin skipped
        /\ status[r] \in {"running", "waiting_approval", "cancelling"}
        => Owned(r)

\* Nobody finalises the row of a run under its gateway executor: recovery sees
\* the handle, and the sweep precedes every executor.
ExecutingIsActive ==
    \A r \in Runs : task["gateway"][r] \in Executing => IsActive(r)

\* A run is executed by one executor at a time, the gateway's or the worker's.
OneExecutorPerRun ==
    \A r \in Runs : ~ \A o \in Owners : task[o][r] \in Executing

\* A terminal row never changes, except that a completed run whose last
\* escalation stopped it, and whose tools all have outcomes, may run again.
OnlyStoppedRunsReturn ==
    \A r \in Runs : IsTerminal(r) /\ status'[r] # status[r] =>
        /\ status[r] = "completed" /\ willStop[r] /\ ~open[r]
        /\ status'[r] = "running"

TerminalIsFinal == [][OnlyStoppedRunsReturn]_vars

(* Why they hold: what every step relies on.                                *)

\* What refers to a run refers to a row.
RefsExist ==
    /\ \A o \in Owners, r \in Runs : task[o][r] # "none" => Exists(r)
    /\ \A r \in late : Exists(r)
    /\ \A c \in Callers : call[c].pc # "idle" => call[c].run \in Runs /\ Exists(call[c].run)

\* One caller launches at a time, and nobody touches the run it launches.
LaunchInv ==
    /\ \A c, d \in Callers : {call[c].pc, call[d].pc} \subseteq {"launch", "relaunch"} => c = d
    /\ \A c \in Callers :
         /\ call[c].pc = "launch" => status[call[c].run] = "created"
         /\ call[c].pc = "relaunch" => status[call[c].run] = "running"
         /\ call[c].pc \in {"launch", "relaunch"} => ~Alive("gateway", call[c].run)

\* A run of the worker is out of the gateway's executors while it executes, and
\* only its own executor could complete it.
WorkerInv ==
    \A r \in Runs : task["worker"][r] \in Executing \cup {"ready"} =>
        status[r] # "completed" /\ ~Alive("gateway", r) /\ ~Launching(r)

EndingInv == \A r \in Runs : task["gateway"][r] = "ending" => IsTerminal(r)

DownInv ==
    phase = "down" =>
        /\ \A o \in Owners, r \in Runs : task[o][r] = "none"
        /\ \A c \in Callers : call[c].pc = "idle"

\* The inductive invariant: rows, handles, tasks and calls agree across every
\* interleaving of requests, executors, the worker, crashes and restarts.
IndInv ==
    /\ TypeOK /\ RefsExist
    /\ OneActivePerLane /\ OneActiveVariant
    /\ HandlesMatchTasks
    /\ LaunchInv /\ WorkerInv /\ EndingInv /\ DownInv
    /\ ExecutingIsActive
    /\ RunningHasExecutor

-----------------------------------------------------------------------------
(* What a conversation's client may rely on: RunLifecycle.                  *)

\* The runs of a client; a worker's lanes are seen through its task runs.
OfClient(r) == Exists(r) /\ lane[r] \notin WorkerLanes

Stage(r) ==
    IF ~OfClient(r) THEN "absent"
    ELSE IF IsTerminal(r)
         THEN IF status[r] = "completed" /\ willStop[r] /\ ~open[r]
              THEN "stopped" ELSE "ended"
    ELSE IF task["gateway"][r] \in Executing THEN "live"
    ELSE IF task["gateway"][r] = "ready" \/ Launching(r) THEN "pending"
    ELSE "interrupted"

Place(r) == IF OfClient(r) THEN lane[r] ELSE None

Lifecycle == INSTANCE RunLifecycle WITH
    stage <- [r \in Runs |-> Stage(r)],
    place <- [r \in Runs |-> Place(r)]

\* The gateway, its executors, crashes and the sweep implement the life cycle
\* of runs: one unfinished run per lane, an execution begins once per creation
\* or revival, and an interrupted run is never executed again.
ImplementsLifecycle == Lifecycle!Spec

-----------------------------------------------------------------------------
(* Liveness.                                                                *)

\* A call that waits for the gateway lock returns, unless the process dies.
EveryCallReturns == \A c \in Callers : call[c].pc # "idle" ~> call[c].pc = "idle"

\* Every execution ends, also one whose approval needs the lock while a call of
\* another conversation launches its run with it, and one that shutdown cancels
\* meanwhile: no run stays out of the reach of recovery for ever ("Interrupted
\* run is still active in this process").
EveryExecutionEnds == \A r \in Runs : Alive("gateway", r) ~> ~Alive("gateway", r)

\* A graceful shutdown ends: every run it cancelled reaches its end.
ShutdownEnds == phase = "closing" ~> phase = "down"

-----------------------------------------------------------------------------
(* What the repository says and the code does not do.                       *)

\* runs.py: an active row that resolve_recovery finalises was left by a crash or
\* a restart, so nothing in this process is still executing it.
RecoveredRunsAreDead ==
    \A r \in Runs : task["worker"][r] \in Executing => IsActive(r)
=============================================================================
