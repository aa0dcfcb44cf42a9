------------------------------ MODULE RunExecutor ------------------------------
(***************************************************************************)
(* One AgentRunExecutor (runner.py) and the run it executes: the turns of  *)
(* its loop, the advice it gives about cost, time and lack of progress,    *)
(* its hard stops, verification, cancellation, timeouts, and the revival   *)
(* of a stopped run.                                                       *)
(*                                                                         *)
(* The gateway and the kernel of child runs make an executor for every     *)
(* execution.  The task worker has one executor for all its runs, which    *)
(* come one after the other (max_concurrent_task_runs = 1).                *)
(*                                                                         *)
(* execute() suspends where pc says; between two suspensions it is atomic, *)
(* so the methods it calls on the way are operators on the state           *)
(* [e |-> executor, x |-> run], composed in the order of the code.         *)
(***************************************************************************)
EXTENDS Naturals, FiniteSets

CONSTANTS
    Tools,        \* tools, each with one code of its errors
    RemindAfter,  \* DEFAULT_REPEAT_THRESHOLD
    RestrictAfter,\* failures in a row that count as no progress
    StopAfter,    \* StopPolicyProfile.stop_after
    MaxRevivals   \* bound: revivals of a run

ASSUME ThresholdsAssumption ==
    /\ RemindAfter \in Nat \ {0} /\ RestrictAfter \in Nat /\ RestrictAfter > RemindAfter
    /\ StopAfter \in Nat /\ StopAfter > 2
ASSUME MaxRevivalsAssumption == MaxRevivals \in Nat

VARIABLES
    owner,     \* who made the executor: "gateway", "worker" or "kernel"
    enforced,  \* stop_policy_enforcement
    ex,        \* the attributes of the executor object
    run        \* the run: rows, last events, and the locals of execute()

vars == <<owner, enforced, ex, run>>

-----------------------------------------------------------------------------
Statuses == {"created", "running", "cancelling", "completed", "failed", "cancelled"}
Terminal == {"completed", "failed", "cancelled"}
OpenTurns == {"waiting_slot", "streaming", "executing_tools"}
ClosedTurns == {"none", "completed", "failed", "cancelled"}
Reasons == {"cost", "time", "no_progress", "budget", "verification"}
HardStops == {"cost", "time", "no_progress"}

\* The points at which execute() is suspended inside a turn, and at all.
InTurn == {"compacting", "slot", "streaming", "tools"}
Suspended == InTurn \cup {"verifying"}

AtMost(n, limit) == IF n > limit THEN limit ELSE n
AtLeast(n, limit) == IF n < limit THEN limit ELSE n

NoFailures == [t \in Tools |-> 0]
Repeated(memory) == {t \in Tools : memory[t] >= RemindAfter}

FreshExecutor ==
    [active |-> FALSE, escalated |-> {}, memory |-> NoFailures, signature |-> {},
     emitted |-> FALSE, level |-> "none"]

\* A run of a row just created.  still and longest are the lengths of the last
\* and of the longest series of turns that show no change.
FreshRun ==
    [pc |-> "idle", status |-> "created", turn |-> "none", token |-> FALSE,
     clock |-> "early", mark |-> "early", dear |-> FALSE, still |-> 0, longest |-> 0,
     notice |-> "none", stuck |-> FALSE, outcome |-> "none", rejected |-> FALSE,
     revivals |-> 0]

Init ==
    /\ owner \in {"gateway", "worker", "kernel"}
    /\ enforced \in BOOLEAN
    /\ ex = FreshExecutor
    /\ run = FreshRun

State == [e |-> ex, x |-> run]

-----------------------------------------------------------------------------
(* The methods of the executor.                                             *)

\* [mutant] once per reason, whatever it announces
AnnounceOnce(s, reason, willStop) ==
    IF reason \in s.e.escalated THEN s
    ELSE [e |-> [s.e EXCEPT !.escalated = @ \cup {reason}],
          x |-> [s.x EXCEPT !.notice = IF willStop THEN "stop" ELSE "advice"]]

\* run_awaiting_user, once per reason unless the run is about to stop
Announce(s, reason, willStop) ==
    IF reason \in s.e.escalated /\ ~willStop THEN s
    ELSE [e |-> [s.e EXCEPT !.escalated = @ \cup {reason}],
          x |-> [s.x EXCEPT !.notice = IF willStop THEN "stop" ELSE "advice"]]

\* _observe_failure_memory; the end of all series hides a level of no progress too
ObserveFailures(s) ==
    LET repeated == Repeated(s.e.memory)
        signature == {<<t, s.e.memory[t] >= RestrictAfter>> : t \in repeated}
    IN  IF repeated = {} /\ s.e.emitted
        THEN [e |-> [s.e EXCEPT !.emitted = FALSE, !.signature = {}, !.escalated = {}],
              x |-> [s.x EXCEPT !.stuck = FALSE]]
        ELSE IF repeated = {} \/ signature = s.e.signature THEN s
        ELSE [e |-> [s.e EXCEPT !.emitted = TRUE, !.signature = signature],
              x |-> [s.x EXCEPT !.stuck = TRUE]]

\* _maybe_escalate without a reason, at the time the turn began
Advise(s, exhausted) ==
    LET new(reason) == reason \notin s.e.escalated
    IN  IF new("cost") /\ s.x.dear
        THEN IF owner = "kernel" THEN s ELSE Announce(s, "cost", FALSE)
        ELSE IF new("time") /\ s.x.mark # "early" THEN Announce(s, "time", FALSE)
        ELSE IF new("no_progress") /\ \E t \in Tools : s.e.memory[t] >= RestrictAfter
        THEN Announce(s, "no_progress", FALSE)
        ELSE IF exhausted THEN Announce(s, "budget", FALSE)
        ELSE s

\* The way out of execute(): the finally block, and its locals are gone.
Leave(s, status) ==
    [e |-> [s.e EXCEPT !.active = FALSE],
     x |-> [s.x EXCEPT !.pc = "over", !.status = status, !.clock = "early", !.mark = "early"]]

\* finalize_run, or a verifier before it
Finish(s, outcome, verify) ==
    LET t == [s EXCEPT !.x = [s.x EXCEPT !.outcome = outcome]]
    IN  IF verify THEN [t EXCEPT !.x = [t.x EXCEPT !.pc = "verifying"]] ELSE Leave(t, "completed")

\* _finalize_time_budget
HardStop(s, reason, verify) == Finish(Announce(s, reason, TRUE), reason, verify)

\* The top of the loop: the walls, or the next turn.
NextTurn(s, verify) ==
    IF s.x.clock = "wall" THEN HardStop(s, "time", verify)
    ELSE IF owner = "kernel" /\ s.x.dear THEN HardStop(s, "cost", verify)
    ELSE [s EXCEPT !.x = [s.x EXCEPT !.mark = s.x.clock, !.pc = "compacting"]]

\* _observe_no_progress_stuck, and what the level asks for
Enforce(s, verify) ==
    LET level == IF s.x.longest >= StopAfter THEN "stop"
                 ELSE IF s.x.longest >= 2 THEN "restrict" ELSE "none"
        t == IF level = s.e.level THEN s
             ELSE [e |-> [s.e EXCEPT !.level = level],
                   x |-> [s.x EXCEPT !.stuck = (level # "none")]]
    IN  IF level = "stop"
        THEN HardStop(t, "no_progress", verify)
        ELSE NextTurn(t, verify)

\* The rest of the loop's body after a turn: advice, delivery, enforcement.
AfterTurn(s, delivered, exhausted, verify) ==
    LET t == Advise(ObserveFailures(s), exhausted)
    IN  IF delivered THEN Finish(t, "delivered", verify)
        ELSE IF enforced THEN Enforce(t, verify)
        ELSE NextTurn(t, verify)

\* The row of a turn that is over is a signal: the same as the one before, or not.
Signal(s, same) ==
    LET still == IF same THEN AtMost(s.x.still + 1, StopAfter) ELSE 1
    IN  [s EXCEPT !.x = [s.x EXCEPT !.still = still, !.longest = AtLeast(s.x.longest, still)]]

\* The turn's row is completed; its tokens count from now on.
TurnCompleted(s, same, dear) ==
    Signal([s EXCEPT !.x = [s.x EXCEPT !.turn = "completed", !.dear = s.x.dear \/ dear]], same)

Becomes(s) == ex' = s.e /\ run' = s.x /\ UNCHANGED <<owner, enforced>>

-----------------------------------------------------------------------------
(* execute()                                                                *)

\* [mutant] the observer of failures keeps what it saw in the run before
BeginKeepingSignature ==
    [e |-> [FreshExecutor EXCEPT !.active = TRUE, !.signature = ex.signature],
     x |-> [run EXCEPT !.status = "running"]]

\* What belongs to one run is reset, and start_run takes the row over.
Begin ==
    [e |-> [FreshExecutor EXCEPT !.active = TRUE],
     x |-> [run EXCEPT !.status = "running"]]

Execute ==
    /\ run.pc = "idle"
    /\ Becomes(IF run.token THEN Leave(Begin, "cancelled") ELSE NextTurn(Begin, FALSE))

\* The row cannot be read, or, after the reset, its entries or its progress.
PreludeRaises ==
    /\ run.pc = "idle"
    /\ Becomes(Leave(State, "failed")) \/ Becomes(Leave(Begin, "failed"))

At(point) == run.pc = point
MovesTo(point, turn) == Becomes([State EXCEPT !.x = [run EXCEPT !.pc = point, !.turn = turn]])

\* The context is compacted, the row of the turn inserted; it waits for a slot.
Compacted ==
    /\ At("compacting")
    /\ MovesTo("slot", "waiting_slot")

SlotAcquired ==
    /\ At("slot")
    /\ MovesTo("streaming", "streaming")

\* The token is looked at with every event of the provider.
ModelCallsTools ==
    /\ At("streaming") /\ ~run.token
    /\ MovesTo("tools", "executing_tools")

\* A turn without calls: with a text the run has delivered.
ModelAnswers ==
    /\ At("streaming") /\ ~run.token
    /\ \E delivered, same, dear, exhausted, verify \in BOOLEAN :
         /\ same => run.still > 0
         /\ Becomes(AfterTurn(TurnCompleted(State, same, dear), delivered, exhausted, verify))

Remembering(s, memory) == [e |-> [s.e EXCEPT !.memory = memory], x |-> s.x]

\* The batch is over.  It may have called a tool several times, so that a series
\* of failures has grown, ended, or begun again; all calls may ask to terminate.
ToolsEnd ==
    /\ At("tools")
    /\ \E memory \in [Tools -> 0 .. RestrictAfter] :
       \E terminate, same, dear, exhausted, verify \in BOOLEAN :
         /\ same => run.still > 0
         /\ Becomes(AfterTurn(Remembering(TurnCompleted(State, same, dear), memory),
                              terminate, exhausted, verify))

\* How the model turn leaves its row when it is left.
CloseTurn(s, status) ==
    IF s.x.turn \in OpenTurns THEN [s EXCEPT !.x = [s.x EXCEPT !.turn = status]] ELSE s

\* The provider, the compaction hook or the batch of tools raises.
TurnRaises ==
    /\ run.pc \in InTurn \ {"slot"}
    /\ Becomes(Leave(CloseTurn(State, "failed"), "failed"))

\* RuntimeCancelled: the provider's stream and the tools look at the token.
CancelNoticed ==
    /\ run.pc \in {"streaming", "tools"} /\ run.token
    /\ Becomes(Leave(CloseTurn(State, "cancelled"), "cancelled"))

\* The smaller of the turn's limit and what is left to the wall has passed.
Expire ==
    \E same, verify \in BOOLEAN :
      LET s == CloseTurn(State, "cancelled")
      IN  /\ same => run.still > 0 /\ run.turn \in OpenTurns
          /\ Becomes(IF run.clock # "wall" THEN Leave(s, "failed")
                     ELSE HardStop(IF run.turn \in OpenTurns THEN Signal(s, same) ELSE s,
                                   "time", verify))

\* [mutant] only the model's call is under the timeout
StreamTimesOut == At("streaming") /\ Expire

\* asyncio.timeout(turn_timeout) around compaction, slot, model and tools
TurnTimesOut == run.pc \in InTurn /\ Expire

\* The verifier answers, or fails; it swallows a cancellation.  Then the run is
\* final whatever it said.
Verified ==
    /\ At("verifying")
    /\ \E failed \in BOOLEAN :
         /\ failed => ~run.token
         /\ LET s == [State EXCEPT !.x = [run EXCEPT !.rejected = failed]]
            IN  Becomes(Leave(IF failed THEN Announce(s, "verification", FALSE) ELSE s,
                              "completed"))

\* The task that executes is cancelled: shutdown, or the worker's guard.
HostCancels ==
    /\ run.pc \in Suspended
    /\ Becomes(Leave(CloseTurn(State, "cancelled"), "cancelled"))

-----------------------------------------------------------------------------
(* The others.                                                              *)

Tick ==
    /\ run.pc \in Suspended
    /\ run.clock # "wall"
    /\ run' = [run EXCEPT !.clock = IF run.clock = "early" THEN "soft" ELSE "wall"]
    /\ UNCHANGED <<owner, enforced, ex>>

\* The worker and the kernel hold the token of a run before it executes.
CancelToken ==
    /\ run.pc \in Suspended \/ (run.pc = "idle" /\ owner # "gateway")
    /\ ~run.token
    /\ run' = [run EXCEPT !.token = TRUE,
                          !.status = IF ex.active /\ owner # "worker" THEN "cancelling" ELSE @]
    /\ UNCHANGED <<owner, enforced, ex>>

\* resolve_recovery: a run that was stopped is launched again; revive_terminal_run
\* inserts run_progress_resumed, which takes the banner away.
Revive ==
    /\ owner = "gateway"
    /\ run.pc = "over" /\ run.status = "completed" /\ run.notice = "stop"
    /\ run.revivals < MaxRevivals
    /\ run' = [run EXCEPT !.pc = "idle", !.status = "running", !.token = FALSE, !.outcome = "none",
                          !.stuck = FALSE, !.rejected = FALSE, !.revivals = @ + 1]
    /\ UNCHANGED <<owner, enforced, ex>>

\* The worker's executor gets its next run.
NextRun ==
    /\ owner = "worker" /\ run.pc = "over"
    /\ run' = FreshRun
    /\ UNCHANGED <<owner, enforced, ex>>

Next ==
    \/ Execute \/ PreludeRaises
    \/ Compacted \/ SlotAcquired \/ ModelCallsTools \/ ModelAnswers \/ ToolsEnd
    \/ TurnRaises \/ CancelNoticed \/ TurnTimesOut \/ Verified \/ HostCancels
    \/ Tick \/ CancelToken \/ Revive \/ NextRun

Spec == Init /\ [][Next]_vars

\* Time passes, the event loop delivers timeouts and starts coroutines, and the
\* provider ends every request (it reads with a timeout of its own).  Nothing
\* is assumed of compaction, of the slots, of the model's turn or of the tools.
Fairness ==
    /\ WF_vars(Tick) /\ WF_vars(Execute)
    /\ WF_vars(run.clock = "wall" /\ TurnTimesOut)
    /\ WF_vars(Verified)

LiveSpec == Spec /\ Fairness

-----------------------------------------------------------------------------
Executors ==
    [active : BOOLEAN, escalated : SUBSET Reasons, memory : [Tools -> 0 .. RestrictAfter],
     signature : SUBSET (Tools \X BOOLEAN), emitted : BOOLEAN,
     level : {"none", "restrict", "stop"}]

Runs ==
    [pc : Suspended \cup {"idle", "over"}, status : Statuses,
     turn : OpenTurns \cup ClosedTurns, token : BOOLEAN,
     clock : {"early", "soft", "wall"}, mark : {"early", "soft", "wall"},
     dear : BOOLEAN, still : 0 .. StopAfter, longest : 0 .. StopAfter,
     notice : {"none", "advice", "stop"}, stuck : BOOLEAN,
     outcome : HardStops \cup {"none", "delivered"}, rejected : BOOLEAN,
     revivals : 0 .. MaxRevivals]

\* The executor's attributes and the run have their types.
TypeOK ==
    /\ owner \in {"gateway", "worker", "kernel"} /\ enforced \in BOOLEAN
    /\ ex \in Executors /\ run \in Runs

\* runner.py:277-291: whatever ends an execution, the row of the run is final and
\* no model turn is left open; while it executes the open turn is the current one.
EndsAreFinal ==
    /\ run.pc = "over" => run.status \in Terminal
    /\ run.turn \in OpenTurns <=> run.pc \in {"slot", "streaming", "tools"}
    /\ ex.active <=> run.pc \in Suspended

\* During a turn the client sees a run as stuck whenever a tool has failed repeatedly
\* in this execution, and only while one has or the run is at a level of no
\* progress, in the first execution of an executor, in its next run and after a
\* revival.  The level alone does not imply it: the end of a series of failures
\* takes the banner away (runner.py:1124), and a level is shown when it changes only.
StuckIsShown ==
    run.pc \in InTurn =>
        /\ Repeated(ex.memory) # {} => run.stuck
        /\ run.stuck => Repeated(ex.memory) # {} \/ ex.level # "none"

\* revive.py:155: what is announced last tells a stop from an end.  A run that
\* was stopped was announced as stopped unless the verifier rejected its work,
\* and one that was not revived is announced as stopped only if it was.
StopsAreAnnounced ==
    run.pc = "over" /\ run.status = "completed" =>
        /\ run.outcome \in HardStops => run.notice = "stop" \/ run.rejected
        /\ run.notice = "stop" => run.outcome \in HardStops \/ run.revivals > 0

\* run_budget.py: every run has a wall.  Hung compactions, slots, models and
\* tools do not keep an execution from its end.
ExecutionEnds == run.pc \in Suspended ~> run.pc = "over"
=============================================================================
