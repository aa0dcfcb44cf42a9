----------------------------- MODULE Delegation -----------------------------
(***************************************************************************)
(* Child runs: CoordinatorDelegationHandler and its bounded cache of        *)
(* coordinators, one InProcessChildCoordinator per parent run with its two  *)
(* gates and its kernel, the rows of the children, the wake-ups of          *)
(* ChildWakeup, deletion of the parent conversation, shutdown and restart.  *)
(*                                                                          *)
(* A child's background task suspends only at the two gates and in the      *)
(* kernel; the end of a run, its row, its wake-up and the release of the    *)
(* gates are one step.  Order is abstracted: a gate admits any waiter (the  *)
(* code the first), eviction takes any idle coordinator (the code the least *)
(* recently used), reclaiming any older record (the code the oldest).       *)
(***************************************************************************)
EXTENDS ChildWakeup

CONSTANTS
    MaxConcurrent,  \* max_concurrent_children
    MaxPerParent,   \* max_children_per_parent
    MaxQueued,      \* max_queued_children
    MaxTracked,     \* MAX_TRACKED_PARENT_RUNS
    MaxRetained,    \* MAX_RETAINED_TERMINAL_RECORDS
    MaxStops        \* bound: shutdowns and crashes

ASSUME LimitsAssumption ==
    /\ MaxConcurrent \in Nat \ {0} /\ MaxPerParent \in Nat \ {0} /\ MaxQueued \in Nat \ {0}
    /\ MaxConcurrent <= MaxPerParent /\ MaxPerParent <= MaxQueued
    /\ MaxTracked \in Nat \ {0} /\ MaxRetained \in Nat \ {0}
ASSUME MaxStopsAssumption == MaxStops \in Nat
ASSUME FiniteAssumption == IsFiniteSet(Children) /\ IsFiniteSet(Parents)

VARIABLES
    cache,     \* _coordinators: parent runs that have one
    record,    \* _children: the end a coordinator remembers
    task,      \* _child_tasks: where the background task of a child is
    token,     \* the kernel's cancellation token
    killing,   \* task.cancel() was called
    awaiting,  \* cancel calls waiting for a task to end: who, for whom
    deleting,  \* conversations whose deletion is under way
    todo,      \* the rows a deletion listed and has not visited
    stops,     \* counter of the bound
    lost       \* the last writer of the row's end failed, or gave up its wait (history)

handler == <<cache, record, task, token, killing, awaiting, deleting, todo>>
vars == <<rows, service, told, gone, process, faults, handler, stops, lost>>

Waiting == {"new", "admission", "slot"}
Live(c) == task[c] \in Waiting \cup {"kernel"}
Callers == Conversations \cup {None}

\* inflight_child_count: rows reserved and not terminal.
Tracked(p) == {c \in Children : parent[c] = p /\ row[c] = "running"}
InKernel(p) == {c \in Children : parent[c] = p /\ task[c] = "kernel"}
Admitted(p) == {c \in Children : parent[c] = p /\ task[c] \in {"slot", "kernel"}}
Records(p) == {c \in Children : parent[c] = p /\ record[c] # None}

Init ==
    /\ WakeupInit
    /\ cache = {}
    /\ record = [c \in Children |-> None]
    /\ task = [c \in Children |-> "none"]
    /\ token = [c \in Children |-> FALSE]
    /\ killing = [c \in Children |-> FALSE]
    /\ awaiting = {}
    /\ deleting = {}
    /\ todo = [v \in Conversations |-> {}]
    /\ stops = 0
    /\ lost = {}

-----------------------------------------------------------------------------
(* The cache of coordinators.                                               *)

\* [mutant] the least recently used goes, busy or not
EvictableAll == cache

Evictable == {q \in cache : Tracked(q) = {}}

\* _coordinator_for, evicting idle coordinators until there is room for p.
CoordinatorFor(p) ==
    IF p \in cache THEN UNCHANGED <<cache, record>>
    ELSE \E evicted \in SUBSET Evictable :
        /\ Cardinality(evicted) =
               IF Cardinality(cache) < MaxTracked THEN 0
               ELSE Smaller(Cardinality(Evictable), Cardinality(cache) - MaxTracked + 1)
        /\ cache' = (cache \ evicted) \cup {p}
        /\ record' = [c \in Children |-> IF parent[c] \in evicted THEN None ELSE record[c]]

Serving(p) == process # "down" /\ ConvOf[p] \notin gone

\* A query, a refused spawn: the coordinator is looked up and nothing changes.
LookUp(p) ==
    /\ Serving(p) /\ p \notin cache
    /\ CoordinatorFor(p)
    /\ UNCHANGED <<rows, service, told, gone, process, faults, task, token, killing,
                   awaiting, deleting, todo, stops, lost>>

-----------------------------------------------------------------------------
(* The life of a child.                                                     *)

\* _reserve: the limit on tracked children, and the row.
Reserve(c, p) ==
    /\ Serving(p) /\ row[c] = "none"
    /\ CoordinatorFor(p)
    /\ Cardinality(Tracked(p)) < MaxQueued
    /\ parent' = [parent EXCEPT ![c] = p]

Spawn(c, p) ==
    /\ process \in {"up", "closing"}
    /\ Reserve(c, p)
    /\ row' = [row EXCEPT ![c] = "running"]
    /\ task' = [task EXCEPT ![c] = "new"]
    /\ UNCHANGED <<reported, service, told, gone, process, faults, token, killing,
                   awaiting, deleting, todo, stops, lost>>

\* The supervisor is closed: the row that was just reserved fails.
SpawnTooLate(c, p) ==
    /\ process = "draining"
    /\ Reserve(c, p)
    /\ \/ /\ row' = [row EXCEPT ![c] = "failed"]
          /\ UNCHANGED <<faults, lost>>
       \/ /\ Fault
          /\ row' = [row EXCEPT ![c] = "running"]
          /\ lost' = lost \cup {c}
    /\ excused' = excused \cup {c}
    /\ UNCHANGED <<reported, service, messages, slip, gone, process, task, token, killing,
                   awaiting, deleting, todo, stops>>

\* [mutant] the gate of the kernel is not closed
NextGateOpen(c) ==
    IF task[c] # "slot" /\ Cardinality(Admitted(parent[c])) >= MaxPerParent THEN "admission"
    ELSE IF Cardinality(InKernel(parent[c])) > MaxConcurrent THEN "slot"
    ELSE "kernel"

\* How far a task comes when it runs: through each gate that is free.
NextGate(c) ==
    IF task[c] # "slot" /\ Cardinality(Admitted(parent[c])) >= MaxPerParent THEN "admission"
    ELSE IF Cardinality(InKernel(parent[c])) >= MaxConcurrent THEN "slot"
    ELSE "kernel"

Advance(c) ==
    /\ task[c] \in Waiting /\ ~killing[c] /\ NextGate(c) # task[c]
    /\ task' = [task EXCEPT ![c] = NextGate(c)]
    /\ UNCHANGED <<rows, service, told, gone, process, faults, cache, record, token, killing,
                   awaiting, deleting, todo, stops, lost>>

\* What the end of a task leaves alone.
TaskEnds(c) ==
    /\ task' = [task EXCEPT ![c] = "none"]
    /\ token' = [token EXCEPT ![c] = FALSE]
    /\ UNCHANGED <<parent, reported, gone, process, batch, messages, slip, cache,
                   awaiting, deleting, todo, stops>>

\* A row ends without a wake-up, or the write is lost.
EndsSilently(c, state) ==
    /\ \/ /\ row' = [row EXCEPT ![c] = state]
          /\ UNCHANGED <<faults, lost>>
       \/ /\ Fault
          /\ UNCHANGED row
          /\ lost' = lost \cup {c}
    /\ excused' = excused \cup {c}
    /\ UNCHANGED <<pending, window>>

\* _reclaim_terminal_records: the newest stays.
Reclaim(c, state) ==
    \E dropped \in SUBSET (Records(parent[c]) \ {c}) :
        /\ Cardinality(dropped) =
               IF Cardinality(Records(parent[c]) \ {c}) < MaxRetained THEN 0
               ELSE Cardinality(Records(parent[c]) \ {c}) - MaxRetained + 1
        /\ record' = [d \in Children |-> IF d = c THEN state
                                         ELSE IF d \in dropped THEN None ELSE record[d]]

InTheKernel(c, state) ==
    /\ task[c] = "kernel" /\ ~killing[c]
    /\ state = "cancelled" => token[c]

\* _store_terminal: the row, the wake-up, the records.
KernelEnds(c, state) ==
    /\ InTheKernel(c, state)
    /\ row' = [row EXCEPT ![c] = state]
    /\ Schedule(Home(c))
    /\ Reclaim(c, state)
    /\ TaskEnds(c)
    /\ UNCHANGED <<killing, faults, lost, excused>>

\* The write of the row raises: the escape handler writes failed.
StoreFails(c, state) ==
    /\ InTheKernel(c, state) /\ Fault
    /\ record' = [record EXCEPT ![c] = state]
    /\ \/ row' = [row EXCEPT ![c] = "failed"] /\ UNCHANGED lost
       \/ UNCHANGED row /\ lost' = lost \cup {c}
    /\ excused' = excused \cup {c}
    /\ TaskEnds(c)
    /\ UNCHANGED <<killing, pending, window>>

\* An outcome of another run, or one that cannot be projected: no record.
Unprojectable(c) ==
    /\ InTheKernel(c, "failed")
    /\ EndsSilently(c, "failed")
    /\ TaskEnds(c)
    /\ UNCHANGED <<killing, record>>

\* A cancelled task unwinds; one that never ran writes nothing.
Unwind(c) ==
    /\ Live(c) /\ killing[c]
    /\ killing' = [killing EXCEPT ![c] = FALSE]
    /\ UNCHANGED record
    /\ IF task[c] = "new"
       THEN /\ task' = [task EXCEPT ![c] = "dead"]
            /\ UNCHANGED <<rows, service, told, gone, process, faults, cache, token,
                           awaiting, deleting, todo, stops, lost>>
       ELSE /\ EndsSilently(c, "cancelled")
            /\ TaskEnds(c)

-----------------------------------------------------------------------------
(* Cancellation.                                                            *)

Cancellable(c) == row[c] = "running" /\ parent[c] \in cache /\ record[c] = None

\* [mutant] a queued child is not waited for
CancelNoWait(caller, c) ==
    IF task[c] = "kernel"
    THEN token' = [token EXCEPT ![c] = TRUE] /\ UNCHANGED <<killing, awaiting>>
    ELSE /\ killing' = [killing EXCEPT ![c] = @ \/ Live(c)]
         /\ UNCHANGED <<token, awaiting>>

\* coordinator.cancel: through the kernel, or the task that is still queued.
Cancel(caller, c) ==
    IF task[c] = "kernel"
    THEN token' = [token EXCEPT ![c] = TRUE] /\ UNCHANGED <<killing, awaiting>>
    ELSE /\ killing' = [killing EXCEPT ![c] = @ \/ Live(c)]
         /\ awaiting' = IF Live(c) THEN awaiting \cup {<<caller, c>>} ELSE awaiting
         /\ UNCHANGED token

CancelFrame == UNCHANGED <<rows, service, told, gone, process, faults, cache, record, task,
                           deleting, stops, lost>>

\* cancel_agent, or the route: cancel_child_for_conversation.
UserCancels(c) ==
    /\ process # "down" /\ Cancellable(c) /\ Live(c) /\ <<None, c>> \notin awaiting
    /\ Cancel(None, c)
    /\ UNCHANGED todo /\ CancelFrame

\* [mutant] the child's own handler is trusted to write the row
AwaitEndsTrusting(caller, c) ==
    /\ <<caller, c>> \in awaiting /\ ~Live(c)
    /\ awaiting' = awaiting \ {<<caller, c>>}
    /\ UNCHANGED <<rows, service, told, gone, process, faults, cache, record, task,
                   token, killing, deleting, todo, stops, lost>>

\* The wait is over: a child that never ran has its row written here.
AwaitEnds(caller, c) ==
    /\ <<caller, c>> \in awaiting /\ ~Live(c)
    /\ awaiting' = awaiting \ {<<caller, c>>}
    /\ IF row[c] = "running"
       THEN EndsSilently(c, "cancelled")
       ELSE UNCHANGED <<row, pending, window, faults, lost, excused>>
    /\ UNCHANGED <<parent, reported, batch, messages, slip, gone, process, cache, record, task,
                   token, killing, deleting, todo, stops>>

\* The caller is cancelled while it waits.
AbandonAwait(c) ==
    /\ <<None, c>> \in awaiting /\ Fault
    /\ awaiting' = awaiting \ {<<None, c>>}
    /\ lost' = lost \cup {c}
    /\ UNCHANGED <<rows, service, told, gone, process, cache, record, task, token, killing,
                   deleting, todo, stops>>

\* delete_conversation: cancel_children_of_conversation lists the rows once ...
BeginDelete(v) ==
    /\ process = "up" /\ v \notin gone /\ v \notin deleting
    /\ deleting' = deleting \cup {v}
    /\ todo' = [todo EXCEPT ![v] = {c \in Children : row[c] = "running" /\ Home(c) = v}]
    /\ UNCHANGED <<rows, service, told, gone, process, faults, cache, record, task, token,
                   killing, awaiting, stops, lost>>

InDelete(v) == v \in deleting /\ \A c \in Children : <<v, c>> \notin awaiting

\* ... and cancels one after the other, skipping what it cannot reach.
DeleteChild(v, c) ==
    /\ InDelete(v) /\ c \in todo[v]
    /\ todo' = [todo EXCEPT ![v] = @ \ {c}]
    /\ IF Cancellable(c) THEN Cancel(v, c) ELSE UNCHANGED <<token, killing, awaiting>>
    /\ CancelFrame

EndDelete(v) ==
    /\ InDelete(v) /\ todo[v] = {}
    /\ deleting' = deleting \ {v}
    /\ gone' = gone \cup {v}
    /\ UNCHANGED <<rows, service, told, process, faults, cache, record, task, token, killing,
                   awaiting, todo, stops, lost>>

-----------------------------------------------------------------------------
(* Shutdown, crash and restart.                                             *)

\* The wake-ups stop first ...
BeginShutdown ==
    /\ process = "up" /\ stops < MaxStops
    /\ process' = "closing" /\ stops' = stops + 1
    /\ StopWindows
    /\ UNCHANGED <<rows, messages, excused, gone, faults, handler, lost>>

\* ... then the supervisor is closed and cancels its tasks ...
CloseSupervisor ==
    /\ process = "closing"
    /\ process' = "draining"
    /\ killing' = [c \in Children |-> killing[c] \/ Live(c)]
    /\ UNCHANGED <<rows, service, told, gone, faults, cache, record, task, token,
                   awaiting, deleting, todo, stops, lost>>

\* The process is gone, and its memory.
Forget ==
    /\ process' = "down"
    /\ cache' = {} /\ record' = [c \in Children |-> None]
    /\ task' = [c \in Children |-> "none"]
    /\ token' = [c \in Children |-> FALSE] /\ killing' = [c \in Children |-> FALSE]
    /\ awaiting' = {} /\ deleting' = {} /\ todo' = [v \in Conversations |-> {}]
    /\ StopWindows
    /\ UNCHANGED <<parent, reported, gone, messages>>

Unstarted == {c \in Children : task[c] = "dead" /\ row[c] = "running" /\ parent[c] \in cache}

\* ... and when they ended, finalize_cancelled_children writes the rows of
\* those that never ran.
FinishShutdown(failed) ==
    /\ process = "draining" /\ \A c \in Children : ~Live(c)
    /\ failed \subseteq Unstarted
    /\ IF failed = {} THEN UNCHANGED faults ELSE Fault
    /\ row' = [c \in Children |-> IF c \in Unstarted \ failed THEN "cancelled" ELSE row[c]]
    /\ lost' = lost \cup failed
    /\ excused' = excused \cup Unstarted
    /\ Forget
    /\ UNCHANGED stops

Crash ==
    /\ process # "down" /\ stops < MaxStops
    /\ stops' = stops + 1
    /\ Forget
    /\ UNCHANGED <<row, faults, lost, excused>>

\* sweep_interrupted_child_runs, then rearm_unreported.
Restart ==
    /\ process = "down"
    /\ process' = "up"
    /\ row' = [c \in Children |-> IF row[c] = "running" THEN "interrupted" ELSE row[c]]
    /\ LET owed == {Home(c) : c \in {d \in Children : row[d] # "none" /\ ~reported[d]}}
       IN  pending' = owed /\ StartWindows(owed, {})
    /\ lost' = {} /\ excused' = {}
    /\ UNCHANGED <<parent, reported, batch, messages, slip, gone, faults, handler, stops>>

-----------------------------------------------------------------------------
Ends == {"completed", "failed", "cancelled"}

KernelSteps(c) == \/ \E s \in Ends : KernelEnds(c, s) \/ StoreFails(c, s)
                  \/ Unprojectable(c)

TaskSteps(c) == Advance(c) \/ KernelSteps(c) \/ Unwind(c)

HandlerSteps ==
    \/ \E p \in Parents : LookUp(p)
    \/ \E c \in Children, p \in Parents : Spawn(c, p) \/ SpawnTooLate(c, p)
    \/ \E c \in Children : UserCancels(c) \/ AbandonAwait(c)
    \/ \E caller \in Callers, c \in Children : AwaitEnds(caller, c)
    \/ \E v \in Conversations : \/ BeginDelete(v) \/ EndDelete(v)
                                \/ \E c \in Children : DeleteChild(v, c)

Lifespan ==
    \/ BeginShutdown \/ CloseSupervisor \/ Crash \/ Restart
    \/ \E failed \in SUBSET Unstarted : FinishShutdown(failed)

Next ==
    \/ HandlerSteps
    \/ \E c \in Children : TaskSteps(c)
    \/ \E v \in Conversations : WindowSteps(v) /\ UNCHANGED <<handler, stops, lost>>
    \/ Lifespan

Spec == Init /\ [][Next]_vars

\* Tasks, windows and the lifespan go on; children end (their kernel has a
\* deadline), and the gateway answers.
Fairness ==
    /\ \A c \in Children : WF_vars(Advance(c)) /\ WF_vars(KernelSteps(c)) /\ WF_vars(Unwind(c))
    /\ \A caller \in Callers, c \in Children : WF_vars(AwaitEnds(caller, c))
    /\ \A v \in Conversations : WF_vars(WindowSteps(v) /\ UNCHANGED <<handler, stops, lost>>)
    /\ WF_vars(CloseSupervisor) /\ WF_vars(FinishShutdown({}))

LiveSpec == Spec /\ Fairness

-----------------------------------------------------------------------------
TypeOK ==
    /\ row \in [Children -> RowStates]
    /\ parent \in [Children -> Parents \cup {None}]
    /\ reported \in [Children -> BOOLEAN]
    /\ gone \subseteq Conversations
    /\ pending \subseteq Conversations
    /\ window \in [Conversations -> {"none", "wait", "send", "sent", "done"}]
    /\ batch \in [Conversations -> SUBSET Children]
    /\ process \in {"up", "closing", "draining", "down"}
    /\ faults \in 0 .. MaxFaults
    /\ messages \in [Conversations -> SUBSET SUBSET Children]
    /\ excused \subseteq Children /\ slip \subseteq Children
    /\ cache \subseteq Parents
    /\ record \in [Children -> Ends \cup {None}]
    /\ task \in [Children -> {"none", "new", "admission", "slot", "kernel", "dead"}]
    /\ token \in [Children -> BOOLEAN]
    /\ killing \in [Children -> BOOLEAN]
    /\ awaiting \subseteq Callers \X Children
    /\ deleting \subseteq Conversations
    /\ todo \in [Conversations -> SUBSET Children]
    /\ stops \in 0 .. MaxStops
    /\ lost \subseteq Children

\* A row that says running while the process serves has somebody who will end
\* it: its task, a cancel call that waits for it, the shutdown that finalises
\* it; or the last write of its end failed, or the route that waited was cancelled.
RunningRowsAreOwned ==
    \A c \in Children :
        row[c] = "running" /\ process # "down" =>
            \/ Live(c)
            \/ task[c] = "dead" /\ (process = "draining" \/ \E k \in Callers : <<k, c>> \in awaiting)
            \/ c \in lost

\* The coordinator of a child that is still running is never evicted: a cancel
\* reaches the kernel and the task that have it.
RunningChildrenAreReachable ==
    \A c \in Children : row[c] = "running" /\ process # "down" => parent[c] \in cache

\* However often coordinators come and go, a parent has no more children in
\* the kernel, admitted and reserved than the limits allow, and no child
\* works on when its row is final.
LimitsHold ==
    /\ \A c \in Children : Live(c) => row[c] = "running"
    /\ \A p \in Parents :
        /\ Cardinality(InKernel(p)) <= MaxConcurrent
        /\ Cardinality(Admitted(p)) <= MaxPerParent
        /\ Cardinality(Tracked(p)) <= MaxQueued

\* While the service is up, the end of a child is reported, on its way to the
\* parent conversation, given up (with a notice, unless its rows could not be read), or
\* never scheduled at all.
EndsAreOwed ==
    \A c \in Children :
        Terminal(c) /\ process = "up" => reported[c] \/ Owed(c) \/ c \in excused

\* A conversation that is owed a window gets one: it has one, or those that
\* are open are as many as allowed, and each one that closes opens the next.
NobodyIsStranded ==
    /\ Cardinality(Windows) <= MaxInflight
    /\ \A v \in pending : window[v] # "none" \/ Cardinality(Windows) = MaxInflight

\* No conversation is told twice of a child, across windows, shutdowns and
\* crashes, unless the stamp of the first message was lost.
NobodyIsToldTwice ==
    \A v \in Conversations : \A one, other \in messages[v] :
        one # other => one \cap other \subseteq slip

\* The parts that make these inductive: what a row, a task and a cancel call
\* imply of each other ...
TaskInv ==
    /\ \A c \in Children :
        /\ row[c] = "none" <=> parent[c] = None
        /\ killing[c] => Live(c)
        /\ killing[c] /\ process \in {"up", "closing"} =>
               c \in lost \/ \E k \in Callers : <<k, c>> \in awaiting
    /\ process = "down" => \A c \in Children : task[c] = "none"

\* ... what a window has taken ...
WindowInv ==
    /\ \A v \in Conversations :
        /\ batch[v] # {} => window[v] \in {"send", "sent"}
        /\ batch[v] \subseteq Unreported(v)
    /\ process # "up" => pending = {} /\ Windows = {}

\* ... and where a row is that some message names.
MessageInv ==
    \A v \in Conversations : \A one \in messages[v] : \A c \in one :
        /\ Terminal(c) /\ Home(c) = v
        /\ \/ reported[c] \/ c \in slip
           \/ window[v] = "sent" /\ c \in batch[v] /\ one = batch[v]

IndInv ==
    /\ TypeOK /\ TaskInv
    /\ RunningRowsAreOwned /\ RunningChildrenAreReachable /\ LimitsHold
    /\ WindowInv /\ EndsAreOwed /\ NobodyIsStranded
    /\ MessageInv /\ NobodyIsToldTwice

\* Children end.
ChildrenEnd ==
    \A c \in Children : row[c] = "running" ~> Terminal(c) \/ c \in lost \/ process = "down"

\* What a kernel brought to an end reaches the conversation, or a notice does.
EndsAreTold ==
    \A c \in Children :
        Terminal(c) ~> reported[c] \/ c \in excused \/ process # "up"

=============================================================================
