# TLA+ verification of the Endless Task runtime

This directory models the parts of Endless Task in which interleavings, crashes
and stale reads decide whether a conversation survives: the v2 runtime that turns
messages into *runs* and executes them with tools and approvals, the scheduler of
recurring tasks, child runs and their wake-ups, the restore of a workspace after
a failed run, and the connections to MCP servers. `apps/api/src/endless_task` is
written `ET` below.

- [System and inventory](#system-and-inventory)
- The modules: [RunGateway](#rungateway-and-runlifecycle), [RunExecutor](#runexecutor),
  [ToolApproval](#toolapproval), [TaskRuns](#taskruns),
  [Delegation](#delegation-and-childwakeup), [RunRestore](#runrestore),
  [McpManager](#mcpmanager)
- [What the runs check](#what-the-runs-check)
- [What is proved](#what-is-proved)
- [Disagreements found](#disagreements-found)
- [Not modelled](#not-modelled)
- [Plan](#plan)

## System and inventory

One Python process serves HTTP on one asyncio loop. The repositories are
synchronous SQLite, so everything between two `await`s is atomic. Concurrency
means: HTTP handlers, one task per executing run, done-callbacks, the task worker
and its scheduler, the windows of wake-ups, a supervisor per MCP connection, the
tools' own processes, the user's editor, and the death of the process at any time.

| Component | State | Operations | Hard behaviour | What makes it correct | Module |
|---|---|---|---|---|---|
| Run gateway (`ET/runtime_v2/gateway_impl`) | handles by conversation and by run, one lock, pending approvals | send, recovery (retry, revive, mark failed), regenerate, resend, select, cancel, steer, shutdown | values read before the lock; lock held over an await; callbacks of finished tasks; approvals share the lock | one active run per lane, handles agree with tasks, no row runs without an executor, calls return | `RunGateway` |
| Run rows (`ET/storage/v2`) | `v2_runs`, turns, entries, tool executions, lanes | create, start, transition, finalize, revive, select variant | several writers of one status | terminal rows are final, one active variant per sibling group | `RunGateway` |
| Recovery and sweep (`replay.py`, `run_sweep.py`, `revive.py`) | none, reads the rows | classify, sweep at start-up, evaluate a revival | judged by old events; a sweep that fails on a row | interrupted runs never execute again | `RunGateway` |
| Run executor (`execution_impl/runner.py`, `ET/runtime_v2/reliability`) | attributes of the executor, last events, row and open turn | execute, advise, stop, verify, cancel, revive | one executor reused by the worker; timeouts against cancellations; stops announced before verification | every execution ends and says how | `RunExecutor` |
| Tool coordinator and approvals (`coordinator.py`, `approval.py`) | tool executions, pending requests, slots | ask, resolve, expire, execute, record | reply against timeout against cancel; siblings cancelled | no tool without its approval; every tool has an outcome | `ToolApproval` |
| Task scheduler and worker (`ET/tasks`) | task runs, reminders, semaphore, tokens | scan, start, retry, remind, cancel, drain, sweep | crash between the transactions of a start, retries, drain | an occurrence is attempted a bounded number of times; a reminder runs once; attempts end | `TaskRuns` |
| Delegation (`ET/delegation`) | child rows, coordinators in a bounded cache, two gates, tasks | spawn, cancel, reclaim, delete, shut down, sweep | failing writes of ends, coordinators evicted, cancel against end | running children are owned, reachable and within limits | `Delegation` |
| Child wake-ups (`delegation/wakeup.py`) | owed conversations, windows, `reported_at` | schedule, take a window, send, stamp, re-arm | crash between send and stamp | every end is told, none twice | `ChildWakeup` |
| Restore (`run_checkpoint.py`, `run_restore.py`, `run_reconcile.py`) | checkpoints, their index, the ledger, markers | snapshot, record, restore, reconcile | crash inside a restore, torn lines, commands that touch anything | a failed run loses its changes, nobody else loses theirs | `RunRestore` |
| MCP manager (`ET/mcp_runtime/manager.py`) | connections, registry, one lock | connect, disconnect, refresh, reconnect, start, stop | late failures and notices, hung sessions, name clashes | registry, connections and saved configuration agree; requests return | `McpManager` |
| Background supervisor | tasks | spawn, drain, close | drain without cancel, spawn after close | nothing leaks | seen by its users: `RunGateway`, `TaskRuns`, `Delegation` |
| Lanes and submissions (`gateway_impl/lanes.py`, `storage/v2/lanes.py`) | lanes, client request ids | open, promote, archive, submit | retries of a request; two-step retries | at most one run per request; one main lane | plan |
| Model turns and providers | slots, streams | open, stream, close | timeouts | a turn is closed once | the row of a turn: `RunExecutor` |
| Context engine, tool platform, snapshots, workspace and sandboxes, extensions, memory, knowledge, skills, artifacts, ledger, evaluation, wiring, native crates, web client | rows, files and text | CRUD, projection, pure functions | little that interleaves | | not modelled |

`PROJECT.json` gives the status of each part. The gateway calls the executor by
spawning a task through the background supervisor and hears of it by a
done-callback; executor and approval gate write run rows directly; the approval
gate takes the gateway's lock; the task worker submits messages and calls the
executor without the gateway; a child's kernel makes an executor of its own and
its wake-up sends a message through the gateway; the restore observes the ends of
runs; recovery reads only rows; shutdown (the lifespan in `ET/api/app.py`) stops
the scheduler, drains the worker, closes delegation and wake-ups, and cancels the
executors through the gateway.

The modules meet at these seams and are checked apart, except `Delegation`, which
extends `ChildWakeup`, and `RunGateway`, which is shown to implement
`RunLifecycle`. What one abstracts another has in detail: an executor of
`RunGateway` is the loop of `RunExecutor`; its `ExecTools` and approvals are the
batch of `ToolApproval`; the turn of a task in `TaskRuns` and the kernel of a child
in `Delegation` are an execution that starts, may be cancelled and ends, which is
what `ExecutionEnds` says of `RunExecutor`.

## RunGateway and RunLifecycle

`RunGateway.tla` models the gateway, the rows it works on, the tasks it spawns,
the worker's submissions and the process. The variables are grouped as the code
keeps them:

- **database** (`db`): `status`, `lane`, `group` (sibling group), `variant`
  (active variant) of a row; `willStop`, the flag of the run's last
  `run_awaiting_user` event; `open`, a tool execution without outcome.
- **memory**: `task` (the executor task of a run, spawned by the gateway or the
  worker), `token` (cancellation), `late` (a finished task whose done-callback is
  due), `slot` and `byId` (the two indexes of handles), `call` (the handlers, and
  with them who holds the lock).
- **process**: `phase`, `crashes`, and `skipped`, the rows the last sweep could
  not write.

A gateway call is one step from taking the lock to its first `await`, and another
from there to its return. `Send`, `Revive`, `RetryInterrupted` and `Regenerate`
write their rows and keep the lock while the context prefix builder runs
(`call.pc` is `launch` or `relaunch`); `LaunchOk` registers the handle,
`LaunchFail` is the builder, the provider resolver or spawn raising.
`BeginOnRun` is the reading of the run *before* the lock in regenerate, resend
and select: the status it saw may be stale when `Regenerate` or `SelectVariant`
gets the lock. `MarkFailed` and `SelectVariant` never await.

Executors are reduced to what they do to their row: `ExecStart`, `ExecAdvise`
(an advice that overwrites the last announcement), `ExecTools`,
`ExecAskApproval` and `ExecApprovalDecided` (which need the gateway's lock),
`ExecEnd` with its outcomes, `ExecReturn`, and the callback `OnRunDone`.
`Cancel` is accepted in any state of the task but only does something between
start and end. A worker's executor is the same code under another owner; it has
no handle and nobody cancels it through the gateway. `Crash` loses memory at any
point, `Restart` is the start-up sweep, in which any row's write may fail and be
skipped; `BeginShutdown` and `Exit` are the graceful way out.

The UNIQUE partial index on active runs per lane is left out of the model on
purpose: it would make `OneActivePerLane` true whatever the code does. Without
it the property says that the checks in front of the writes suffice, so the index
never has to raise in the middle of a call.

`RunLifecycle.tla` is the abstract specification: a run is absent, pending, live,
stopped, ended or interrupted; a lane has one unfinished run; only stopped runs
are revived; an interrupted run is replaced, never executed again. `RunGateway`
implements it (`ImplementsLifecycle`) under the mapping `Stage`, built from the
row, `willStop`, `open`, the gateway's task and the calls that launch. The mapping
shows the runs of clients; those on a worker's lanes are seen through their task
runs, and are absent from it.

Left out: model turns and entries (only the last announcement and open tools
matter to recovery), event projection, steering, the contents of messages,
archived lanes, client request ids. A retry's two transactions
(`finalize_interrupted_run`, `create_run`) are one step.

## RunExecutor

`RunExecutor.tla` is `AgentRunExecutor.execute()` from its first line to its
`finally` block, with the stop policy and the run budget it consults: what its
loop remembers, announces and writes. `owner` says who made the executor,
`enforced` is `stop_policy_enforcement`, `ex` holds the attributes of the executor
object (escalated reasons, failure memory, signature of the no-progress level),
which survive a run, and `run` the row, the last events and the locals of
`execute()`.

`execute()` is suspended at compaction, at the provider's slot, in the stream, in
the tools and in the verifier; between two of these points it is atomic. So the
methods it calls on the way (budget advice, failure notes, progress, hard stops)
are operators on the pair of executor and run, composed in the order of the code,
and an action is a composition of them. The clock has three values, before the
soft limit of time, after it, and past the wall; `mark` is the reading at the loop's
top, which is what advice uses. The series of turns without change keeps the
length of the last series and of the longest, since the policy reads the longest.

Abstractions: a tool has one code of error; guidance texts and steering are left
out; a provider's retries keep no state; only compaction, provider, tools and the
prelude raise, writes inside the loop do not; the token is seen at stream events
and tools; the verifier swallows a cancellation. The path for uncertain tools and
the return with `WAITING_APPROVAL` are unreachable in the wiring and left out. A
worker's executor is reused by its next run, one at a time, which is what the
default `ENDLESS_TASK_MAX_TASK_RUNS=1` gives (a greater value would let two runs
share these attributes). Only the gateway revives; a revival takes the banner of a
stuck run away and keeps the last announcement.

## ToolApproval

`ToolApproval.tla` models one tool batch: `ToolExecutionCoordinator.execute`
(`execution_impl/coordinator.py`), one task per call in an `asyncio.TaskGroup`,
and `GatewayToolApprovalGate` (`gateway_impl/approval.py`), which shares the
gateway's lock with every request of every conversation.

- **rows**: `rec`, the status of each row, and `evidence`, the calls whose row
  carries the approval of their user (evidence of a trust policy is left out: it
  goes to calls that are not asked about).
- **tasks**: `needs` (calls sent to the gate), `pc` (where a task is), `verdict`
  (what a call takes from its wait to the lock), `item` (`_ToolWorkItem.status`),
  `hit` (the TaskGroup has cancelled the task, which has not noticed) and `batch`.
- **gate**: `pending` (`_pending_approvals`; waiters are kept with it), `reply`
  (the result of a waiter) and `staged` (modified arguments in a request).
- **around**: `token` (the run's cancellation), `busy` (another request holds the
  gateway lock), `started` (history: the tool was entered).

A step is what a task does from one `await` to the next. `asyncio.Lock` and
`asyncio.Semaphore` do not suspend when they are free, so `Ask` registers and
returns to the loop in `_wait_for_decision`, and `Wake` runs from the end of the
wait through the `finally` block of `decide` and the decision (`ActOn`) into the
tool, unless it meets a lock (`leaving`) or a full house (`queued`). `WaitEnds`
says how a wait may end: a reply, the timeout or the token, whichever the loop
sees first, and a reply given after the token was set, or after the task was
cancelled, does not count (`"void"`). `Abort` is the TaskGroup's (one call raised)
or the host's (the model turn's `asyncio.timeout`, the worker's task limit);
`Unwind` is the `CancelledError` in a call, which in a wait still goes through
the `finally` block. `Record` is the end of `execute`: results of all calls, or
`_record_interrupted_items`. Its loop awaits only a receipt sink that does not
suspend, so it is one step. Preparation (`_prepare_tool_batch`) is synchronous, so
`Init` is the state after it: a call is invalid, or needs an approval, or does not.

Left out: the v2 auto batch (`tool_platform_v2_enabled`: calls without approval go
through `tool_platform` instead), gates that answer `WAIT` (the gateway's never
does), modified arguments that fail validation and the rewriting of the row's
arguments (neither is reached, see the second disagreement), texts and contents
of results, the status of the run row while approvals wait (`RunGateway` has it).

## TaskRuns

`TaskRuns.tla` models `TaskScheduler.scan_once`, the `TaskWorker`, the rows of
tasks, reminders and `task_runs`, and the process that drains, crashes and starts
again. Time is a counter; a task is due when a moment of its schedule lies between
its anchor (its last scheduled run, or its creation, resumption or edit) and now.

`start` and `start_reminder` never suspend, but they are several transactions, so a
start is two steps: a claim (`ScanTask`, `RunTask`, `ScanReminder`), then its end
(`TaskStarted`, `ReminderStarted`, `NoConversation`, `BookkeepingRaises`);
`starting` names the subject between them, when only a crash can happen. After that
the coroutine of a subject is queued for the semaphore (tasks only, first come first
served), in its turn, or in the learning review. The turn ends by itself, by the
guard on the wall clock, or by its token. A crash loses coroutines, queue and
tokens; `Restart` runs `sweep_interrupted_runs`, which makes a scheduled attempt
retryable.

Up to the spawn a failure finishes its row (`NoConversation`, `BookkeepingRaises`).
Past it nothing does: `link_turn` (`worker.py:552`), `get_run` (305, 447), a
`finish_run` that raises, and a second `mark_fired` (456) leave the row running
(`RunLost`, `ReminderLandingGone`), as does a failed start whose own `finish_run` or
`mark_fired` raises (`StartLost`). `raised` remembers these subjects, for the
properties only. No scan, request or retry starts such a subject again, because
`claim_run` finds its row, until the sweep of the next process.

Left out: the state tasks share in their executor (`RunExecutor` has its
attributes), the content of the learning review, recurrence rules beyond a period
and a phase.

## Delegation and ChildWakeup

`ChildWakeup.tla` is `ChildWakeupService`: `pending` (conversations owed a window),
`window` and `batch` (an open window and the rows it took), the rows with
`reported`, the messages that were sent. The key of a message is a digest of the
children it reports, so a message *is* its batch: the same batch sent again is
replayed by the gateway, another batch is another message. A refusal (a run is
active), an archived or deleted conversation, failing reads and stamps are all
outcomes of a step. The merge window and the throttle only make a window wait, and
have no state here.

`Delegation.tla` extends it with what gives these rows their life: the handler's
bounded cache of coordinators, one coordinator per parent with an admission gate
and an execution gate, the background task of each child (`task`: new, at the
first gate, at the second, in the kernel), the kernel's token, cancellations by the
model, the route and a deletion (`awaiting`, `deleting`, `todo`), the shutdown, a
crash and the sweep. A child's task suspends only at the gates and in the kernel,
so the end of a run, its row, its wake-up and the release of both gates are one
step, in which the writes may fail one by one (`lost`, `excused`).

Orders are abstracted to choices: a gate admits any waiter, eviction takes any
idle coordinator, reclaiming any older record. Left out: steering, spawn keys,
profiles, depth and capabilities, `injected_at` and the injection of results into
a running parent, the blocking spawn path and the batch scheduler, isolated
workspaces. That a conversation is archived is a choice at the moment it is asked.

## RunRestore

`RunRestore.tla` models the workspace, `RunCheckpointCoordinator` with its store
(`snap`), its memory (`known`), its index (`indexed`, `indexTorn`) and the ledger
(`ledger`, `ledgerTorn`), the restore observer, the reconciliation at the next
start, and a user who writes files when he likes. A text is a pair of its author
and a number, so that a property can say whose content was overwritten.

A tool that writes takes the checkpoint first, writes, and records the file's new
hash; a shell command scans the workspace (`scan`), executes, and its
reconciliation records every file that differs, whoever changed it. A run that
fails is `observing` until its observer restores it, wholly or in part; the event
`run_auto_restored` (`marked`) is written after the files. A crash may fall between
any two of these, also between two files of a restore (`CrashInRestore`); a tool's
write and its entry in the ledger are one step, in which the entry may be lost.
`Restart` reads index and ledger as they are, torn lines included, the sweep makes
failed rows of the runs that executed, `Reconciliation` takes the failed runs one
by one, newest end first, and `Serve` opens the process. `Faults` is the set of
writes that may fail or tear.

Abstractions: text files up to 512 KB in UTF-8 (others have no hash); the direct
path of the file tools, each call one step (the enforcement backend and the undo
journal are left out); a workspace that exists; blobs that are neither missing nor
torn; one writing tool at a time in a run; no shell child that outlives the
process; distinct times of ends. A restore on a torn ledger raises only if it must
look up a present changed file. The observer ends within its 10 s.

## McpManager

`McpManager.tla` models `McpManager` and the supervisor task of each connection.
Requests (`req`) of users, of `start_all` and of `stop_all` queue for one FIFO lock
(`queue`). A request that connects drains the old connection, creates a new one
and waits for its session, for a bounded time (`connect_timeout_seconds`, 15 by
default); then it lets go (`abandoning`) or
keeps it. A supervisor starts a session, keeps it, takes it down after a failure,
waits, tries again and gives up. The cleanup of a cancelled session may raise
(`CleanupRaises`): the supervisor ends, and the connection stays in the table as it
was. A notice that the tools have changed starts a
refresh task, which asks the session, and replaces the whole namespace of the
registry; notices meanwhile set `again`. `calling` is a call of a tool whose
failure comes late, and then cancels what the connection of its server has become
by that time.

One action is what a task does from one `await` to the next. Calls are matched by
server, not by the names of tools; `state` texts, the list and status routes and
the exclusion of tools from unattended runs are left out. The boot order is
arbitrary; how long a session takes is a choice. Servers and the SDK are the
environment: they start, hang, refuse, break, change their lists and notify at any
time. A refresh whose answer has arrived is taken up before its session is torn
down; one that asks a session that is gone is an `orphan`, may last for ever, and
keeps a later notice waiting and the shutdown in `drain()` (`Stopped`), whose end no
property claims. The phase `aborted` (a clash makes `stop_all` raise), and a clash
that makes another's disconnect raise, need three servers and are not reached with
two; the proofs cover them.

## What the runs check

| Run | Question | Instance |
|---|---|---|
| `gateway_safety` | do rows, handles, tasks and calls agree, and does the gateway implement `RunLifecycle`? | 2 runs, 2 lanes of one conversation (one a task's), 2 handlers, 1 crash; 384K states with symmetry |
| `gateway_live` | do calls return, executions end, shutdowns finish? | 2 runs, 2 conversations with a lane each, 2 handlers, 1 crash; 75K states |
| `tool_batch` | does a batch respect its user, settle every row, and end? | 2 calls, 1 slot, cancellations of run and turn |
| `task_scheduling` | is every attempt and reminder started the right number of times, owned, and ended? | 2 tasks, 1 reminder, period 2, waits 0 and 1, 2 attempts, 1 slot, clock to 1, 3 requests, 1 stop, 1 fault |
| `child_runs` | are children owned, reachable and within limits, and told of once? | 2 children, 2 parents with conversations of their own, 1 window, 1 place in the kernel, 1 cached coordinator, 1 fault, 1 stop |
| `child_runs_live` | does every child end, and is every end told? | 2 children of 1 parent that admits one at a time |
| `run_executor` | does an execution announce, write and end as it should? | 1 tool, thresholds 2, 3 and 3, 1 revival; 116K states |
| `run_restore` | does a failed run lose its changes, once, and nobody else his? | 1 file, 2 runs and a user, the first run executes commands, the second is revived, 2 changes, 2 crashes, 1 fault; 1.2M states |
| `mcp_manager` | do connections, registry, lists and saved configurations agree, and do requests return? | 2 servers, 2 tools of which one name clashes, 2 requests, 3 connections, 2 attempts, 2 operations, 2 events; 519K states |
| `recovered_runs_are_dead`, `modified_call_runs`, `user_edits_are_kept` | disagreements 1 to 3 below | the instances above, smaller |

**Bounds.** *Gateway*: two runs give every pair the properties speak of: siblings,
a run and its successor on a lane, a handle and the one that takes its slot, and
one run executed, revived and executed again. Two lanes in one conversation
separate what is checked per lane from what is checked per conversation. Two
handlers are one that holds the lock and one whose reading goes stale. One crash
gives every row a first and a second process. In `gateway_live` the second
conversation gives a call that launches its run under the lock while the executor of
the first asks for approval, cancels or ends; `MCFirstSend` fixes which run, lane and
handler is the first to be used, and `MCCrowd` lets a request in only while
requests under way and runs are two at most. *Batch*: with two calls and one slot,
one call has the tool while the other waits for the slot, its user or the lock.
*Tasks*: two tasks compete for one slot; period 2 with a clock of two moments
gives an occurrence now, later and never; two attempts are one retry and its
refusal; one stop falls into any state of a start. *Children*: the place in the
kernel, the coordinators in the cache, the remembered ends and the windows are one
less than is asked for, so that each makes somebody wait or go; in
`child_runs_live` the admission gate is too. The bound on queued children is not
reached with two; the proof of `LimitsHold` covers it.
*Executor*: thresholds are the least that keep their order (`ThresholdsAssumption`).
*Restore*: two runs and a user are the three authors that a restore must tell
apart; two changes give a write of the run and one of another after or before it; two
crashes let a run be restored at one start and another, which kept what the first had
left, fail before the next. *MCP*: two servers with a
common name give the clash; two requests one that waits with what it read; three
connections one that is drained, its successor and one that a hung refresh keeps;
server `b` starts without a row and its list does not change. A list that changes,
a session that breaks in the middle of the refresh and a second notice are three
events: that case is covered by the proof only.

`Runs`, `Children`, `MaxFaults`, `MaxStops`, `MaxRequests`, `MaxEvents` and the like
bound what users and the environment do and are guards of those actions only. The
theorems below remove the bounds for safety. Deadlock is not checked in any run:
when the process has died for the last time, a batch is over or every identity is
used, the models really stop.

Children, and runs and handlers, are symmetric in `child_runs` and
`gateway_safety`, which check invariants and a refinement that treats them alike;
no run with a liveness property uses symmetry.

**Fairness** is what the event loop, the locks and the timers give, and is stated
in `Fairness` of each module. Nothing forces users to send, cancel, approve or
reload, nor crashes, faults or shutdowns to happen, nor servers to answer.

- `RunGateway`: a spawned task runs and its done-callback is called (weak). The
  prefix builder returns or raises (weak, `CallLaunches`). Each model turn runs under
  `asyncio.timeout` and approvals expire, so `execute` leaves its main block
  (`ExecEnd`). `asyncio.Lock` is first in, first out, so a waiter of a lock that is
  released again and again gets it: strong for `CallResumes` and for the `ExecEnd`
  of the gateway's executors, whose last approval may wait for the lock; weak for
  the worker's, which never ask.
- `RunExecutor`: time passes and the coroutine starts (weak); past the wall the
  turn's `asyncio.timeout` fires (weak); the provider, which reads with a timeout
  of 60 s, ends the verifier's request (weak). Nothing of compaction, slots,
  models or tools, so `ExecutionEnds` says the wall is enough.
- `ToolApproval`: the steps of each call are strongly fair (its task runs, lock and
  slots are handed out first in, first out, approvals expire, every tool has its
  `timeout_seconds`); other requests let go of the lock and the TaskGroup notices
  tasks that raised or ended (weak).
- `TaskRuns`: the clock, the steps of a start, of coroutines, of the drain and a
  restart (weak); a scan reaches a reminder that is due, though starts and
  requests interrupt (strong: a scan does not suspend).
- `Delegation`: the tasks of children advance, kernels end, cancelled tasks unwind,
  callers that wait are told, windows go on, and the supervisor closes (weak).
- `RunRestore`: a process that died is started again, serves, and its
  reconciliation goes on (weak).
- `McpManager`: the steps of the holder of the lock, which are bounded by timers,
  and the supervisors' own steps (weak); none for servers and sessions. A supervisor
  that is told to stop ends only if the session it has cancelled does:
  `_cancel_generation` (264-275) waits for it without a bound, and that the SDK takes
  it down is assumed.

Each property has a mutant in `PROJECT.json`: a plausible bug of a modelled
definition that makes TLC violate it (`[mutant]` in the modules).

## What is proved

Seven modules `*_proofs.tla`, and `RunGateway_refinement.tla`, prove with TLAPS, for
every value of the constants under the assumptions named in the modules (types and the distinctness of atoms,
positive limits, finite sets of children and conversations), that `Spec` implies
`[]IInv` for one inductive invariant per module, and from it the properties the
runs check on small instances. Each type invariant is proved rather than checked by
a run, and so are `OneActiveVariant` and `TerminalIsFinal` (gateway),
`RefusedNeverRan` (batch), `EndsAreFinal` (executor), `WindowClosedWhenServing` and
`ToolsSpareUserEdits` (restore). Each proof has a lemma per conjunct or per kind of
step, and one step per action.

- **RunGateway** (`OneActivePerLane`, `HandlesMatchTasks`, `RunningHasExecutor`,
  `ExecutingIsActive`, `OneExecutorPerRun`). `ExecutingIsActive` needs that recovery
  finds every run under a gateway executor, which is `HandlesMatchTasks`; that needs
  that a revival, which spawns a second task for a run, starts only when the first
  has ended (`LaunchInv`, `EndingInv`); the worker's runs, which have no handle,
  stay out of the gateway's executors because only their own executor could
  complete them and only a completed run is revived (`WorkerInv`);
  `RunningHasExecutor` needs `DownInv` for the restart.
- **ToolApproval** (`ConsentBeforeEffect`, `EveryCallSettled`, and the action
  property `AbortStopsBatch`). Consent is followed from the reply over the lock and
  the queue to the tool (`ConsentInv`); that results are kept is about the end of
  the batch and follows from what items say of calls before it (`EffectInv`); the
  abort needs that every task not over was hit, or is on its way out with nothing
  to do (`AbortInv`).
- **TaskRuns** (`BurstsAreBounded`, `TaskRowsAreOwned`, `ReminderExecutedOnce`). The
  starts since an occurrence are the attempts of one chain, and an occurrence that
  is still due has none (`BurstInv`); coroutines, starts, tokens and the subjects in
  `raised` belong to a running row, and a subject in `raised` has neither coroutine nor
  start (`OwnerInv`); a reminder is marked before its coroutine exists (`FiredInv`).
- **Delegation** (`RunningRowsAreOwned`, `RunningChildrenAreReachable`,
  `LimitsHold`, `EndsAreOwed`, `NobodyIsStranded`, `NobodyIsToldTwice`). What a row, a
  task and a cancel call imply of each other (`TaskInv`), what a window has taken
  (`WindowInv`) and where a row is that some message names (`MessageInv`). The many
  actions come down to a few shapes of step (a child's task, an end of a child, a
  window, a look-up), each with its lemma; the limits rest on the library's facts
  about cardinalities.
- **RunExecutor** (`StuckIsShown`, `StopsAreAnnounced`). `IndInv` says at which
  point of suspension which facts hold of executor and run; each operator that
  `execute()` composes has a lemma, and an action is proved by citing those of its
  composition.
- **RunRestore** (`SnapshotPrecedesRun`, `OthersContentSurvives`, `RestoredOnce`).
  What the ledger names is the run's own or was taken for its own
  (`LedgerIsScoped`); before a run's snapshot nothing of the run is anywhere, not
  even in another's snapshot (`NothingBeforeSnapshot`), which is what makes
  restoring another run safe.

  `FailedRunsAreUnwound` has an invariant of its own, `UnwindInv`. What a restored run
  left is in no file, and in no checkpoint that a later restore may write back
  (`Unwound`). A restore brings it about because no such checkpoint has it: an earlier
  run took its own before (`LivesAreOrdered`), and a later one that failed has been
  restored before, for the reconciliation goes from the newest end to the oldest and
  ends nest as lives do. `overlapped` excludes the runs for which that may fail.
  `NothingLost` says what the absence of failures gives, and that a start has marked
  what it has looked at; `WindowClosedWhenServing`, the part of `CrashWindowCloses`
  that needs no fairness, follows from it. `ToolsSpareUserEdits` is what remains of
  `UserEditsSurvive` (3 below): runs without shell commands keep the docstring's promise.
- **McpManager** (`NoOrphans`, `RegistryInStep`, `NoSilentStaleness`,
  `SavedConfigInForce`). Who holds the
  lock and for what (`LockInv`), what start-up and shutdown have still to take
  (`StopInv`), when the namespace may lag (`RegistryInv`) and what an answer that has
  arrived is worth (`ListInv`); a frame lemma for each kind of step (one connection,
  a request, the server). Configurations (`ConfigInv`) follow the queue of the lock:
  the last request queued about a server asks for what its row says (`LastWord`), so
  where none is queued the connection has it (`Settled`); this holds because a request
  writes the row, reads it and queues in one step.

- **RunGateway implements RunLifecycle** (`ImplementsLifecycle`, in
  `RunGateway_refinement`). `Stage` maps row, executor and launching call of a client's
  run to its stage, `Place` its lane; the worker's runs have no stage. The initial states
  map to initial states, and each step of a call, of an executor, of the worker, of a
  crash and of a restart to a step of the life cycle or to a stutter: one lemma per kind
  (`SimSend` to `SimRestart`), which says by pointwise facts what the step does to the
  stages. It uses `IndInv` and that the worker's executors have runs of worker lanes
  only (`WorkerLaneInv`).

TLC has checked each inductive invariant on the runs' instances before it was proved.

**Only model-checked:** liveness, since fairness and ENABLED are outside the prover's
fragment: `EveryCallReturns`, `EveryExecutionEnds`, `EveryBatchEnds`, both
`ShutdownEnds`, `TaskRunsEnd`, `DueRemindersFire`, `ChildrenEnd`, `EndsAreTold`,
`ExecutionEnds`, `CrashWindowCloses`, `RequestsReturn`. Every invariant, action property
and refinement of a passing run is proved. Nothing in the modules is recursive, so
induction over data does not arise.

## Disagreements found

Three have a run that shows them:

1. **Recovery can finalise a run that is executing** (`recovered_runs_are_dead`).
   Runs of the task worker have no handle, so `resolve_recovery` takes their
   active row for one a crash left.
2. **A modified approval never runs** (`modified_call_runs`). `approval.py:188`
   keeps modified arguments in the pending request for the executing side to read;
   `decide` removes the request before it returns, so the coordinator finds none
   and rejects the call.
3. **A restore overwrites what the user wrote** (`user_edits_are_kept`). The
   reconciliation of a shell command records every changed file as the run's,
   whoever changed it; `run_restore.py:15-17` says user edits are never overwritten.

The others were met while modelling. The models have the behaviour; no run is kept
for them.

*Gateway and runs*

- A normally completed run can be revived after an earlier stop: `revive.py` and
  `ARCHITECTURE.md:41` exclude it, but the decision reads the last
  `run_awaiting_user` event, which survives the revival it allowed.
- Revivals are checked per lane, handles are kept per conversation: when the run in
  the slot ends, `has_active_run` is false beside another that executes, which is
  the endless reconnect `run_sweep.py` describes.
- Two calls wait for approval, the run is cancelled while another request holds the
  lock; the call that gets the lock second is cancelled by its TaskGroup inside
  `decide`'s `finally` block (`approval.py:142`) and its request stays pending.
  `test_runtime_v2_gateway.py:987` asserts that a cancelled wait leaves none.
- A hard stop announces `willStop` and then runs the verifier, whose rejection is
  announced without it (`views.py:386`, `revive.py:157`): the run that was stopped
  cannot be continued. `StopsAreAnnounced` has the exception.
- `_escalated_reasons.clear()` lets one reason be announced again, against "同一原因只提一次".
- `reliability/stop.py:169` speaks of the trailing series of turns without progress,
  line 220 takes the longest: a revived run that progresses is stopped again. The
  level of no progress never falls within a run.
- When a series of failures ends, `_observe_failure_memory` takes the banner away
  (1124) although the run may still be at a level of no progress, which is shown
  again only when it changes: `StuckIsShown` does not say that a level is shown.

*Tasks and children*

- A reminder whose conversation vanished between start and turn: `_execute_reminder`
  calls `mark_fired` again (`worker.py:456`), which raises for a fired reminder, and
  the row of the run says running until the next start (`ReminderLandingGone`).
- `link_turn` (`worker.py:552`) is outside any `try`, though the docstring (509-510)
  says the journal always records the run. When it raises, the row of the task run
  says running and the run of the message stays created, both until the next start;
  the token of a reminder's run stays in the table.
- `wakeup.py:3` says failures are reported too; when the write of an end fails
  (`coordinator.py:743`, `797-810`) no wake-up is scheduled. `EndsAreOwed` has the
  exception `excused`.

*Restore*

- One torn line of the ledger disables the restore of every present file;
  `run_checkpoint.py:246` says it only degrades attribution.
- A restore cut off while writing a file (`write_bytes` is not atomic) leaves it
  torn, and the next reconciliation takes it for the user's. A torn blob is never
  repaired (`checkpoint.py:88-90`). A torn row of the index swallows the next.
- Two failed runs whose checkpoints nest against the order of their ends are not
  unwound, and one restore may bring back what the other wrote. A restore also
  brings back files that others deleted.
- A revived run keeps the checkpoint it had (`run_checkpoint.py:127-129`). Run 1 fails and its
  observer runs out of time; run 2 takes its checkpoint, with what run 1 left, and
  completes; a restart restores and marks run 1; run 2 is revived and fails, and its
  restore brings back what run 1 left, for good: a marked run is not restored again.
  The proof of `FailedRunsAreUnwound` failed at this point before `overlapped` had the
  case (`Keeps`, in `Revive`).
- `undo_service.undo` never compares `after_hash`, which its docstring (lines 31-32)
  promises.

*MCP manager*

- A call of the old connection that fails late (`manager.py:371-377`) cancels `ready` of a
  new one that is connecting; the `CancelledError` passes `except Exception` (156),
  and the connection stays, "reconnecting", with a dead supervisor.
- A notice between a session's first list and its attachment is dropped (442), and one
  that comes while a refresh still asks a session that is gone only sets
  `sync_pending` (447-449), which nobody reads if that refresh hangs: the list stays
  out of date and nothing says so, against 468-469. These are the two exceptions of
  `NoSilentStaleness` (`Missed`). A notice that waits is also lost when the refresh
  before it fails or clashes (483-496); then there is a diagnostic.
- The supervisor catches timeouts and cancellations only (227): when the cleanup of a
  session raises anything else, it ends, and the connection stays "connected" with
  its dead session, without a retry, a refresh or a diagnostic, until a user reloads
  it. Lines 188-192 know such exceptions. `Working` does not count such a connection.
- A refresh sets "connected" on a connection just marked as reconnecting (499).
- Two servers whose tools map to one name make every other connect and disconnect
  raise (522-543): tools of a disconnected server stay offered, a deleted row stays,
  and `stop_all` stops half way, with the rest of the shutdown.
- A request reads its row before it waits for the lock (119-121): a server deleted
  meanwhile is connected again. `SavedConfigInForce` speaks only of servers that
  have a row.
- `drain()` (114-115) waits for a refresh that may hang on a closed session.
- `_unattended_excluded` is computed from the old tools in a refresh (490 before 497),
  against 563-568; `allows_unattended` stays true after a disconnect.

## Not modelled

Pure functions over large texts (context planning, projections, evaluation, native
crates), CRUD over SQLite that no run depends on (memory, knowledge, skills,
artifacts, ledger), the web client, which sees only snapshots and events, and the
wiring have no interleaving to check. Sandbox backends, terminals and the undo
journal are I/O on the host. Hazards without a property are in `PROJECT.json` with
the reason: a launch that fails leaves a created row; a retry's two transactions;
approvals of parallel tools that overwrite the run's status; the request left
pending; a steering message that comes too late.

## Plan

What could follow, the most useful first.

1. `Submission`: client request ids, lanes, promotion and archiving, retries in two
   transactions. Properties: one run per request, one main lane, every sibling
   group keeps an active variant.
2. `ToolApproval`: the v2 auto batch with the concurrency classes of the tool
   scheduler and its unknown outcomes.
3. `RunExecutor`: the steering queue; a message that was accepted is delivered or
   reported. Compaction as a sequence of steps.
4. `RunRestore`: the undo journal and the enforcement backend.
5. `McpManager`: the exclusion of tools from unattended runs.
