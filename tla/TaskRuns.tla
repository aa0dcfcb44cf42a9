------------------------------ MODULE TaskRuns ------------------------------
(***************************************************************************)
(* Recurring tasks and one-off reminders: TaskScheduler.scan_once, the      *)
(* TaskWorker that executes them, the rows of tasks, reminders and          *)
(* task_runs, and a process that stops, drains, crashes and starts again.   *)
(*                                                                          *)
(* start and start_reminder never suspend, but each is several              *)
(* transactions: "starting" names the subject whose start is between its    *)
(* claim and its end, when nothing but a crash can happen.  A scan visits   *)
(* subjects one at a time.  Of the rows of task_runs the code reads the     *)
(* running one and the latest scheduled one, which is what is kept.         *)
(***************************************************************************)
EXTENDS Integers, Sequences, FiniteSets

CONSTANTS
    Tasks, Reminders,
    Period,         \* time from one occurrence of a schedule to the next
    Backoff,        \* retry_backoff: a sequence of times
    MaxAttempts,    \* max_attempts
    MaxConcurrent,  \* max_concurrent_task_runs
    NoRun, NoSubject,
    Horizon,        \* bound: the last moment of the clock
    MaxRequests,    \* bound: requests of users
    MaxStops,       \* bound: crashes and shutdowns
    MaxFaults       \* bound: reads and writes of a start or of a run that raise

ASSUME PeriodAssumption == Period \in Nat \ {0}
ASSUME MaxAttemptsAssumption == MaxAttempts \in Nat \ {0}
ASSUME MaxConcurrentAssumption == MaxConcurrent \in Nat \ {0}
ASSUME BackoffAssumption == Backoff \in Seq(Nat) /\ Backoff # <<>>
ASSUME HorizonAssumption == Horizon \in Nat
ASSUME SubjectsAssumption == Tasks \cap Reminders = {} /\ NoSubject \notin Tasks \cup Reminders

\* Rows of tasks, reminders and task_runs, as far as they are read.
TaskRows == [status : {"absent", "active", "paused", "cancelled"},
             phase : 0 .. Period - 1, anchor : Nat]
ReminderRows == [status : {"absent", "pending", "fired", "cancelled"}, due : Nat]
RunningRows == [trigger : {"manual", "scheduled"}, attempt : 1 .. MaxAttempts, started : Nat]
FinishedRows == [attempt : 1 .. MaxAttempts, started : Nat, finished : Nat,
                 status : {"completed", "failed", "cancelled"}, retryable : BOOLEAN]

ASSUME NoRunAssumption == NoRun \notin RunningRows \cup FinishedRows

VARIABLES
    now,       \* the clock
    task,      \* rows of tasks: status, phase of the schedule, anchor
    reminder,  \* rows of reminders: status and due_at
    running,   \* the row of task_runs with status running, per subject
    last,      \* the latest finished scheduled row, per subject
    coro,      \* where the spawned coroutine of a subject is
    queue,     \* tasks waiting for the semaphore, first come first served
    token,     \* _cancel_tokens, by the subject of the run
    starting,  \* the subject whose start is under way
    process,   \* "up", "draining" (worker.drain at shutdown), "down"
    requests, stops, faults,  \* counters of the bounds
    starts,    \* scheduled runs of a task since its last occurrence (history)
    executed,  \* turns a reminder was given (history)
    raised     \* subjects whose running row this process lost to a raise (history)

rows == <<task, reminder, running, last>>
memory == <<coro, queue, token, starting, process>>
bounds == <<requests, stops, faults>>
history == <<starts, executed, raised>>
vars == <<now, rows, memory, bounds, history>>

-----------------------------------------------------------------------------
Subjects == Tasks \cup Reminders
Later(a, b) == IF a > b THEN a ELSE b
Earlier(a, b) == IF a < b THEN a ELSE b

\* The moments a schedule names.
Occurs(phase, moment) == moment % Period = phase

\* The latest scheduled row, running or finished.
LatestScheduled(t) ==
    IF running[t] # NoRun /\ running[t].trigger = "scheduled" THEN running[t] ELSE last[t]

Anchor(t) ==
    IF LatestScheduled(t) = NoRun THEN task[t].anchor
    ELSE Later(task[t].anchor, LatestScheduled(t).started)

\* next_occurrence after the anchor has come.
IsDue(t) == \E moment \in Anchor(t) + 1 .. now : Occurs(task[t].phase, moment)

Retryable(t) ==
    /\ last[t] # NoRun /\ LatestScheduled(t) = last[t]
    /\ last[t].status = "failed" /\ last[t].retryable
    /\ last[t].attempt < MaxAttempts
    /\ last[t].finished + Backoff[Earlier(last[t].attempt, Len(Backoff))] <= now

Executing == {t \in Tasks : coro[t] \in {"turn", "review"}}
Idle == process = "up" /\ starting = NoSubject

-----------------------------------------------------------------------------
Init ==
    /\ now = 0
    /\ task = [t \in Tasks |-> [status |-> "absent", phase |-> 0, anchor |-> 0]]
    /\ reminder = [r \in Reminders |-> [status |-> "absent", due |-> 0]]
    /\ running = [s \in Subjects |-> NoRun]
    /\ last = [s \in Subjects |-> NoRun]
    /\ coro = [s \in Subjects |-> "none"]
    /\ queue = <<>>
    /\ token = [s \in Subjects |-> "none"]
    /\ starting = NoSubject
    /\ process = "up"
    /\ requests = 0 /\ stops = 0 /\ faults = 0
    /\ starts = [t \in Tasks |-> 0]
    /\ executed = [r \in Reminders |-> 0]
    /\ raised = {}

\* finish_run, and the token leaves the table.
Finish(s, status, retryable) ==
    /\ running' = [running EXCEPT ![s] = NoRun]
    /\ last' = IF running[s].trigger = "manual" THEN last
               ELSE [last EXCEPT ![s] =
                      [attempt |-> running[s].attempt, started |-> running[s].started,
                       finished |-> now, status |-> status, retryable |-> retryable]]
    /\ token' = [token EXCEPT ![s] = "none"]

\* The clock moves on; an occurrence of a task begins a new window.
Tick ==
    /\ now < Horizon
    /\ now' = now + 1
    /\ starts' = [t \in Tasks |-> IF Occurs(task[t].phase, now + 1) THEN 0 ELSE starts[t]]
    /\ UNCHANGED <<rows, memory, bounds, executed, raised>>

-----------------------------------------------------------------------------
(* Requests on tasks, reminders and runs.                                   *)

Request ==
    /\ Idle
    /\ requests < MaxRequests
    /\ requests' = requests + 1
    /\ UNCHANGED <<now, stops, faults>>

TaskRequest == Request /\ UNCHANGED <<reminder, running, last, memory, executed, raised>>
ReminderRequest == Request /\ UNCHANGED <<task, running, last, memory, history>>

CreateTask(t, phase) ==
    /\ task[t].status = "absent"
    /\ task' = [task EXCEPT ![t] = [status |-> "active", phase |-> phase, anchor |-> now]]
    /\ UNCHANGED starts
    /\ TaskRequest

\* update_task: a changed schedule moves the anchor in the same transaction.
EditSchedule(t, phase) ==
    /\ task[t].status \in {"active", "paused"} /\ task[t].phase # phase
    /\ task' = [task EXCEPT ![t] = [@ EXCEPT !.phase = phase, !.anchor = now]]
    /\ UNCHANGED starts
    /\ TaskRequest

Pause(t) ==
    /\ task[t].status = "active"
    /\ task' = [task EXCEPT ![t].status = "paused"]
    /\ UNCHANGED starts
    /\ TaskRequest

Resume(t) ==
    /\ task[t].status = "paused"
    /\ task' = [task EXCEPT ![t] = [@ EXCEPT !.status = "active", !.anchor = now]]
    /\ UNCHANGED starts
    /\ TaskRequest

\* By its user, or with its source conversation.
CancelTask(t) ==
    /\ task[t].status \in {"active", "paused"}
    /\ task' = [task EXCEPT ![t].status = "cancelled"]
    /\ UNCHANGED starts
    /\ TaskRequest

CreateReminder(r, due) ==
    /\ reminder[r].status = "absent" /\ due >= now
    /\ reminder' = [reminder EXCEPT ![r] = [status |-> "pending", due |-> due]]
    /\ ReminderRequest

CancelReminder(r) ==
    /\ reminder[r].status = "pending"
    /\ reminder' = [reminder EXCEPT ![r].status = "cancelled"]
    /\ ReminderRequest

\* TaskWorker.cancel: accepted while the process holds a token that is not set.
CancelRun(s) ==
    /\ Request
    /\ token[s] = "live"
    /\ token' = [token EXCEPT ![s] = "cancelled"]
    /\ UNCHANGED <<rows, coro, queue, starting, process, history>>

-----------------------------------------------------------------------------
(* Starts.                                                                  *)

\* claim_run (one running row per subject) and the token of the run.
Claim(s, trigger, attempt) ==
    /\ running[s] = NoRun
    /\ running' = [running EXCEPT ![s] = [trigger |-> trigger, attempt |-> attempt, started |-> now]]
    /\ token' = [token EXCEPT ![s] = "live"]
    /\ starting' = s
    /\ UNCHANGED <<now, task, reminder, last, coro, queue, process, stops, faults, executed, raised>>

\* A scan visits a task: a due occurrence, or the retry of a failed one.
ScanTask(t) ==
    /\ Idle /\ UNCHANGED requests
    /\ task[t].status = "active"
    /\ IsDue(t) \/ Retryable(t)
    /\ Claim(t, "scheduled", IF Retryable(t) THEN last[t].attempt + 1 ELSE 1)
    /\ starts' = [starts EXCEPT ![t] = @ + 1]

RunTask(t) ==
    /\ Request
    /\ task[t].status = "active"
    /\ Claim(t, "manual", 1)
    /\ UNCHANGED starts

\* [mutant] a reminder is looked for at its time
ScanReminderOnTime(r) ==
    /\ Idle /\ UNCHANGED requests
    /\ reminder[r].status = "pending" /\ reminder[r].due = now
    /\ Claim(r, "scheduled", 1)
    /\ UNCHANGED starts

ScanReminder(r) ==
    /\ Idle /\ UNCHANGED requests
    /\ reminder[r].status = "pending" /\ reminder[r].due <= now
    /\ Claim(r, "scheduled", 1)
    /\ UNCHANGED starts

StartEnds == starting' = NoSubject /\ UNCHANGED <<now, task, requests, stops, process, starts, executed>>

EndStart == StartEnds /\ UNCHANGED raised

\* A task queues for the semaphore.
TaskStarted ==
    /\ starting \in Tasks
    /\ coro' = [coro EXCEPT ![starting] = "queued"]
    /\ queue' = Append(queue, starting)
    /\ UNCHANGED <<reminder, running, last, token, faults>>
    /\ EndStart

\* mark_fired
Fire(r) == reminder' = [reminder EXCEPT ![r].status = "fired"]

\* [mutant] a reminder is marked fired by the run that executes it
SpawnBeforeFired ==
    /\ starting \in Reminders
    /\ coro' = [coro EXCEPT ![starting] = "queued"]
    /\ UNCHANGED <<reminder, running, last, queue, token, faults>>
    /\ EndStart

\* A reminder is marked fired before it runs, and takes no slot.
ReminderStarted ==
    /\ starting \in Reminders
    /\ Fire(starting)
    /\ coro' = [coro EXCEPT ![starting] = "queued"]
    /\ UNCHANGED <<running, last, queue, token, faults>>
    /\ EndStart

\* Without a conversation to execute in, a start ends as a failure: for good
\* when the source is gone, to be retried when the conversation failed to open.
NoConversation(sourceGone) ==
    /\ starting # NoSubject
    /\ IF starting \in Reminders THEN Fire(starting) ELSE UNCHANGED reminder
    /\ Finish(starting, "failed", starting \in Tasks /\ ~sourceGone)
    /\ UNCHANGED <<coro, queue, faults>>
    /\ EndStart

\* [mutant] a start that raises is left as it is
BookkeepingRaisesPlainly ==
    /\ starting # NoSubject
    /\ faults < MaxFaults
    /\ faults' = faults + 1
    /\ UNCHANGED <<reminder, running, last, token, coro, queue>>
    /\ EndStart

\* Any other exception before the spawn: _finalize_bookkeeping_failure.
BookkeepingRaises ==
    /\ starting # NoSubject
    /\ faults < MaxFaults
    /\ faults' = faults + 1
    /\ Finish(starting, "failed", starting \in Tasks)
    /\ UNCHANGED <<reminder, coro, queue>>
    /\ EndStart

\* The row of s stays running, and nothing of this process will finish it.
Lost(s) ==
    /\ faults < MaxFaults
    /\ faults' = faults + 1
    /\ raised' = raised \cup {s}
    /\ UNCHANGED <<running, last>>

\* A failed start cannot finish its row either: finish_run raises, which releases
\* the token, or mark_fired raises before it, which does not.
StartLost ==
    /\ starting # NoSubject
    /\ Lost(starting)
    /\ \/ /\ token' = [token EXCEPT ![starting] = "none"]
          /\ UNCHANGED reminder \/ (starting \in Reminders /\ Fire(starting))
       \/ starting \in Reminders /\ UNCHANGED <<reminder, token>>
    /\ UNCHANGED <<coro, queue>>
    /\ StartEnds

-----------------------------------------------------------------------------
(* The coroutines of the runs that were started.                            *)

At(s, from) == process # "down" /\ starting = NoSubject /\ coro[s] = from

Step(s, from) ==
    /\ At(s, from)
    /\ UNCHANGED <<now, task, reminder, starting, process, bounds, starts, raised>>

\* Coroutine and run end together.
Ends(s, status, retryable) ==
    /\ coro' = [coro EXCEPT ![s] = "none"]
    /\ Finish(s, status, retryable)

MayEnter(t) == queue # <<>> /\ Head(queue) = t /\ Cardinality(Executing) < MaxConcurrent

\* [mutant] a process that drains starts nothing new
AdmittedWhileUp(t) ==
    /\ process = "up"
    /\ MayEnter(t)
    /\ queue' = Tail(queue)
    /\ Step(t, "queued")
    /\ UNCHANGED executed

\* The semaphore lets the head of the queue in.
Admitted(t) ==
    /\ MayEnter(t)
    /\ queue' = Tail(queue)
    /\ Step(t, "queued")
    /\ UNCHANGED executed

\* The task was paused or cancelled while its run waited.
NotActiveAnymore(t) ==
    /\ Admitted(t)
    /\ task[t].status # "active"
    /\ Ends(t, "cancelled", FALSE)

\* The message is not accepted: its conversation is gone, or busy, or the store
\* failed.
TaskTurnRefused(t, gone) ==
    /\ Admitted(t)
    /\ task[t].status = "active"
    /\ Ends(t, "failed", ~gone)

\* The executor looks at the token on entry.
TaskTurnBegins(t) ==
    /\ Admitted(t)
    /\ task[t].status = "active"
    /\ IF token[t] = "cancelled" THEN Ends(t, "cancelled", FALSE)
       ELSE /\ coro' = [coro EXCEPT ![t] = "turn"]
            /\ UNCHANGED <<running, last, token>>

ReminderTurnBegins(r) ==
    /\ Step(r, "queued")
    /\ UNCHANGED queue
    /\ IF token[r] = "cancelled" THEN Ends(r, "cancelled", FALSE) /\ UNCHANGED executed
       ELSE /\ coro' = [coro EXCEPT ![r] = "turn"]
            /\ executed' = [executed EXCEPT ![r] = @ + 1]
            /\ UNCHANGED <<running, last, token>>

ReminderTurnRefused(r) ==
    /\ Step(r, "queued")
    /\ Ends(r, "failed", FALSE)
    /\ UNCHANGED <<queue, executed>>

\* The conversation the reminder executes in is gone: mark_fired again, which
\* raises for a reminder that fired already.  Nothing finishes the run.
ReminderLandingGone(r) ==
    /\ At(r, "queued")
    /\ coro' = [coro EXCEPT ![r] = "none"]
    /\ raised' = raised \cup {r}
    /\ UNCHANGED <<now, task, reminder, running, last, token, queue,
                   starting, process, bounds, starts, executed>>

\* The turn ends by itself, by the guard on the wall clock or, when the run was
\* cancelled, by the token; a token set too late goes unnoticed.
TurnCompletes(s) ==
    /\ Step(s, "turn")
    /\ coro' = [coro EXCEPT ![s] = "review"]
    /\ UNCHANGED <<running, last, token, queue, executed>>

TurnFails(s) ==
    /\ Step(s, "turn")
    /\ Ends(s, "failed", s \in Tasks)
    /\ UNCHANGED <<queue, executed>>

TurnCancelled(s) ==
    /\ Step(s, "turn")
    /\ token[s] = "cancelled"
    /\ Ends(s, "cancelled", FALSE)
    /\ UNCHANGED <<queue, executed>>

\* The review of a completed turn never fails the run, and never reads its token.
Reviewed(s) ==
    /\ Step(s, "review")
    /\ Ends(s, "completed", FALSE)
    /\ UNCHANGED <<queue, executed>>

\* get_run, link_turn or finish_run raises past the spawn, and no handler is
\* there.  execute() releases the token of a task's run however it ends; that of
\* a reminder's run is released by _finish alone.
RunLost(s) ==
    /\ coro[s] # "none" /\ At(s, coro[s])
    /\ s \in Tasks /\ coro[s] = "queued" => MayEnter(s)
    /\ Lost(s)
    /\ coro' = [coro EXCEPT ![s] = "none"]
    /\ queue' = IF s \in Tasks /\ coro[s] = "queued" THEN Tail(queue) ELSE queue
    /\ \/ token' = [token EXCEPT ![s] = "none"]
       \/ s \in Reminders /\ coro[s] = "queued" /\ UNCHANGED token
    /\ UNCHANGED <<now, task, reminder, starting, process, requests, stops, starts, executed>>

-----------------------------------------------------------------------------
(* The process.                                                             *)

\* The loops of the lifespan are cancelled, the worker is drained.
Shutdown ==
    /\ Idle
    /\ stops < MaxStops
    /\ stops' = stops + 1
    /\ process' = "draining"
    /\ UNCHANGED <<now, rows, coro, queue, token, starting, requests, faults, history>>

Gone ==
    /\ process' = "down"
    /\ coro' = [s \in Subjects |-> "none"]
    /\ queue' = <<>>
    /\ token' = [s \in Subjects |-> "none"]
    /\ starting' = NoSubject
    /\ UNCHANGED <<now, rows, requests, faults, history>>

Drained ==
    /\ process = "draining"
    /\ \A s \in Subjects : coro[s] = "none"
    /\ Gone
    /\ UNCHANGED stops

Crash ==
    /\ process # "down"
    /\ stops < MaxStops
    /\ stops' = stops + 1
    /\ Gone

\* [mutant] the sweep begins the attempts anew
RestartForgetful ==
    /\ process = "down"
    /\ process' = "up"
    /\ last' = [s \in Subjects |->
                  IF running[s] = NoRun \/ running[s].trigger = "manual" THEN last[s]
                  ELSE [attempt |-> 1, started |-> running[s].started,
                        finished |-> now, status |-> "failed", retryable |-> TRUE]]
    /\ running' = [s \in Subjects |-> NoRun]
    /\ raised' = {}
    /\ UNCHANGED <<now, task, reminder, coro, queue, token, starting, bounds, starts, executed>>

\* [mutant] rows left running are not looked at
RestartUnswept ==
    /\ process = "down"
    /\ process' = "up"
    /\ raised' = {}
    /\ UNCHANGED <<now, rows, coro, queue, token, starting, bounds, starts, executed>>

\* sweep_interrupted_runs: rows left running failed, and may be retried.
Restart ==
    /\ process = "down"
    /\ process' = "up"
    /\ last' = [s \in Subjects |->
                  IF running[s] = NoRun \/ running[s].trigger = "manual" THEN last[s]
                  ELSE [attempt |-> running[s].attempt, started |-> running[s].started,
                        finished |-> now, status |-> "failed", retryable |-> TRUE]]
    /\ running' = [s \in Subjects |-> NoRun]
    /\ raised' = {}
    /\ UNCHANGED <<now, task, reminder, coro, queue, token, starting, bounds, starts, executed>>

-----------------------------------------------------------------------------
Requests ==
    \/ \E t \in Tasks :
         \/ \E phase \in 0 .. Period - 1 : CreateTask(t, phase) \/ EditSchedule(t, phase)
         \/ Pause(t) \/ Resume(t) \/ CancelTask(t) \/ RunTask(t)
    \/ \E r \in Reminders :
         \/ \E due \in 0 .. Horizon : CreateReminder(r, due)
         \/ CancelReminder(r)
    \/ \E s \in Subjects : CancelRun(s)

Scans == (\E t \in Tasks : ScanTask(t)) \/ (\E r \in Reminders : ScanReminder(r))

StartSteps ==
    \/ TaskStarted \/ ReminderStarted \/ BookkeepingRaises \/ StartLost
    \/ \E sourceGone \in BOOLEAN : NoConversation(sourceGone)

BeginSteps(s) ==
    \/ /\ s \in Tasks
       /\ \/ NotActiveAnymore(s) \/ TaskTurnBegins(s)
          \/ \E gone \in BOOLEAN : TaskTurnRefused(s, gone)
    \/ /\ s \in Reminders
       /\ ReminderTurnBegins(s) \/ ReminderTurnRefused(s) \/ ReminderLandingGone(s)

EndSteps(s) == TurnCompletes(s) \/ TurnFails(s) \/ TurnCancelled(s) \/ Reviewed(s)

Next ==
    \/ Tick \/ Requests \/ Scans \/ StartSteps
    \/ \E s \in Subjects : BeginSteps(s) \/ EndSteps(s) \/ RunLost(s)
    \/ Shutdown \/ Drained \/ Crash \/ Restart

Spec == Init /\ [][Next]_vars

\* The event loop runs what is ready, turns end (wait_for in the worker, the
\* provider's timeout in the review), the clock goes on, and a process that
\* stopped is started again.  The scheduler keeps scanning: a start it did not
\* make interrupts no scan, since starts do not suspend, hence strong fairness.
Fairness ==
    /\ WF_vars(Tick) /\ WF_vars(StartSteps) /\ WF_vars(Drained) /\ WF_vars(Restart)
    /\ \A s \in Subjects : WF_vars(BeginSteps(s)) /\ WF_vars(EndSteps(s))
    /\ \A r \in Reminders : SF_vars(ScanReminder(r))

LiveSpec == Spec /\ Fairness

-----------------------------------------------------------------------------
\* Types of the variables.
TypeOK ==
    /\ now \in Nat
    /\ task \in [Tasks -> TaskRows]
    /\ reminder \in [Reminders -> ReminderRows]
    /\ running \in [Subjects -> RunningRows \cup {NoRun}]
    /\ last \in [Subjects -> FinishedRows \cup {NoRun}]
    /\ coro \in [Subjects -> {"none", "queued", "turn", "review"}]
    /\ queue \in Seq(Tasks)
    /\ token \in [Subjects -> {"none", "live", "cancelled"}]
    /\ starting \in Subjects \cup {NoSubject}
    /\ process \in {"up", "draining", "down"}
    /\ requests \in Nat /\ stops \in Nat /\ faults \in Nat
    /\ starts \in [Tasks -> Nat]
    /\ executed \in [Reminders -> Nat]
    /\ raised \in SUBSET Subjects

\* scheduler.py: "restarts recover missed periods with at most one catch-up run",
\* and a failed run has max_attempts.  So from one occurrence of a task to the
\* next the scheduler starts it at most max_attempts times, whatever was missed,
\* paused, edited, cancelled, run by hand, or interrupted by a restart.
BurstsAreBounded == \A t \in Tasks : starts[t] <= MaxAttempts

\* In a process that serves, a row says running exactly while its start or its
\* coroutine will end it, or since a read or write of that start or coroutine
\* raised where nothing is left to end it (link_turn, get_run, finish_run, the
\* second mark_fired): such a row is started again by nobody, and says running until
\* the sweep of the next start.  A run of a task can be cancelled exactly while its
\* start or its coroutine is there, however these end (execute's finally).
TaskRowsAreOwned ==
    /\ \A s \in Subjects : process # "down" =>
         (running[s] # NoRun <=> coro[s] # "none" \/ starting = s \/ s \in raised)
    /\ \A s \in raised : coro[s] = "none" /\ starting # s
    /\ \A t \in Tasks : token[t] # "none" <=> coro[t] # "none" \/ starting = t

\* A reminder is executed once at most: through failed starts, crashes between
\* its claim and its mark, and restarts that leave it pending.
ReminderExecutedOnce == \A r \in Reminders : executed[r] <= 1

\* An attempt to stop (worker.drain) ends, and the process with it.
ShutdownEnds == process = "draining" ~> process = "down"

\* A run of a task ends, through the semaphore, the turn, its review and crashes,
\* unless a read or write of its own raises past the spawn: then it ends with the
\* next start of the process.
TaskRunsEnd == \A t \in Tasks : []<>(running[t] = NoRun \/ t \in raised)

\* A reminder that fell due is fired or cancelled, even when it fell due while
\* the process was down or its start failed, unless the failed start could not
\* finish its row, which then stops every scan until the next start.
DueRemindersFire == \A r \in Reminders :
    reminder[r].status = "pending" ~> reminder[r].status # "pending" \/ r \in raised

(* Why they hold.                                                           *)

\* A process that is down holds nothing in memory.
DownInv == process = "down" =>
    /\ starting = NoSubject /\ queue = <<>>
    /\ \A s \in Subjects : coro[s] = "none" /\ token[s] = "none"

\* A coroutine, a start and a token belong to a row that says running.
OwnerInv == \A s \in Subjects :
    /\ coro[s] # "none" => running[s] # NoRun /\ starting # s
    /\ starting = s => running[s] # NoRun
    /\ token[s] # "none" => running[s] # NoRun
    /\ s \in raised => running[s] # NoRun /\ coro[s] = "none" /\ starting # s

\* The mark of a reminder is written before its coroutine exists.
FiredInv == \A r \in Reminders :
    /\ starting = r => reminder[r].status = "pending"
    /\ reminder[r].status # "fired" => executed[r] = 0 /\ coro[r] = "none"
    /\ coro[r] = "queued" => executed[r] = 0

AttemptOf(row) == IF row = NoRun THEN 0 ELSE row.attempt

\* The scheduled runs since an occurrence are attempts of one chain, and an
\* occurrence that is still due has none.
BurstInv == \A t \in Tasks :
    /\ starts[t] <= AttemptOf(LatestScheduled(t))
    /\ IsDue(t) => starts[t] = 0

\* The inductive invariant.
IndInv ==
    /\ TypeOK /\ DownInv /\ OwnerInv /\ FiredInv /\ BurstInv
    /\ TaskRowsAreOwned /\ ReminderExecutedOnce

=============================================================================
