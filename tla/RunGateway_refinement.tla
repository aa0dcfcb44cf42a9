----------------------- MODULE RunGateway_refinement -----------------------
(* RunGateway implements RunLifecycle: the initial states map to initial      *)
(* states, and every step of requests, executors, the worker, crashes and     *)
(* restarts maps to a step of the life cycle or to none.                      *)
EXTENDS RunGateway_proofs

\* Definitions that name values only.
USE ConvOfAssumption, WorkerLanesAssumption, NoneAssumption, MaxCrashesAssumption
USE DEF ActiveStatuses, TerminalStatuses, RunStatuses, Owners, Executing, AliveStates,
        TaskStates, Calls, NoCall, Exists, IsActive, IsTerminal, Alive, Launching

-----------------------------------------------------------------------------
(* The worker's executors have runs of worker lanes only.                   *)

WorkerLaneInv ==
    \A r \in Runs : task["worker"][r] # "none" => lane[r] \in WorkerLanes

LEMMA InitWorkerLane == Init => WorkerLaneInv
  BY DEF Init, WorkerLaneInv

\* A lane is given to a row when it is inserted, and a row that has a task exists.
LEMMA WorkerLaneStep == TypeInv /\ WorkerLaneInv /\ [Next]_vars => WorkerLaneInv'
<1> SUFFICES ASSUME TypeInv, WorkerLaneInv, [Next]_vars PROVE WorkerLaneInv'
  OBVIOUS
<1> USE DEF WorkerLaneInv
<1>1. CASE UNCHANGED vars
  BY <1>1 DEF vars, db, executors
<1>2. ASSUME NEW n \in Fresh, NEW l \in Lanes, NEW g, InsertRun(n, l, g), task' = task
      PROVE  WorkerLaneInv'
  <2>1. \A r \in Runs \ {n} : lane'[r] = lane[r]
    BY <1>2 DEF InsertRun, TypeInv, TypeOK, Fresh
  <2>2. task["worker"][n] = "none"
    BY <1>2 DEF TypeInv, RefsExist, Fresh
  <2> QED BY <1>2, <2>1, <2>2
<1>3. ASSUME task' = task, lane' = lane PROVE WorkerLaneInv'
  BY <1>3
<1>4. ASSUME NEW c \in Callers, CallEnters(c) PROVE WorkerLaneInv'
  <2>1. ASSUME NEW l \in Lanes, NEW n \in Runs, Send(c, l, n) PROVE WorkerLaneInv'
    BY <2>1, <1>2 DEF Send, executors
  <2>2. ASSUME NEW r \in Runs, Revive(c, r) \/ MarkFailed(c, r) PROVE WorkerLaneInv'
    BY <2>2, <1>3 DEF Revive, MarkFailed, executors
  <2>3. ASSUME NEW r \in Runs, NEW n \in Runs, RetryInterrupted(c, r, n) PROVE WorkerLaneInv'
    <3>1. lane[r] \in Lanes
      BY <2>3, RowTypes DEF RetryInterrupted
    <3> QED BY <2>3, <3>1, <1>2 DEF RetryInterrupted, executors
  <2>4. ASSUME NEW op \in {"regenerate", "select"}, NEW r \in Runs, BeginOnRun(c, op, r)
        PROVE  WorkerLaneInv'
    BY <2>4, <1>3 DEF BeginOnRun, db, executors
  <2> QED BY <1>4, <2>1, <2>2, <2>3, <2>4 DEF CallEnters
<1>5. ASSUME NEW c \in Callers, Regenerate(c) PROVE WorkerLaneInv'
  <2>1. call[c].run \in Runs /\ lane[call[c].run] \in Lanes
    BY <1>5, RowTypes DEF Regenerate, TypeInv, RefsExist
  <2> QED BY <1>5, <2>1, <1>2, <1>3 DEF Regenerate, executors, db
<1>6. ASSUME NEW c \in Callers, SelectVariant(c) PROVE WorkerLaneInv'
  BY <1>6, <1>3 DEF SelectVariant, executors
<1>7. ASSUME NEW c \in Callers, CallLaunches(c) PROVE WorkerLaneInv'
  BY <1>7 DEF CallLaunches, LaunchOk, LaunchFail, executors, db, TypeInv, TypeOK
<1>8. ASSUME NEW r \in Runs, Cancel(r) \/ ExecWorks(r) \/ OnRunDone(r) PROVE WorkerLaneInv'
  BY <1>8 DEF Cancel, ExecWorks, ExecAdvise, ExecTools, ExecAskApproval, ExecApprovalDecided,
              OnRunDone, SetTask, executors, db, TypeInv, TypeOK
<1>9. ASSUME NEW n \in Runs, NEW l \in WorkerLanes, WorkerSubmit(n, l) PROVE WorkerLaneInv'
  <2>1. lane'[n] = l /\ \A r \in Runs \ {n} : lane'[r] = lane[r]
    BY <1>9 DEF WorkerSubmit, InsertRun, TypeInv, TypeOK
  <2>2. \A r \in Runs \ {n} : task'["worker"][r] = task["worker"][r]
    BY <1>9 DEF WorkerSubmit, TypeInv, TypeOK
  <2> QED BY <2>1, <2>2
<1>10. ASSUME NEW o \in Owners, NEW r \in Runs,
              ExecStart(o, r) \/ ExecEnd(o, r) \/ ExecReturn(o, r)
       PROVE  WorkerLaneInv'
  <2>1. task[o][r] # "none" /\ lane' = lane
    BY <1>10 DEF ExecStart, ExecEnd, ExecReturn, db
  <2>2. \A x \in Runs \ {r} : task'["worker"][x] = task["worker"][x]
    BY <1>10 DEF ExecStart, ExecEnd, ExecReturn, SetTask, TypeInv, TypeOK
  <2>3. o # "worker" => task'["worker"][r] = task["worker"][r]
    BY <1>10 DEF ExecStart, ExecEnd, ExecReturn, SetTask, TypeInv, TypeOK
  <2> QED BY <2>1, <2>2, <2>3
<1>11. ASSUME Lifespan PROVE WorkerLaneInv'
  BY <1>11 DEF Lifespan, BeginShutdown, Exit, Crash, Restart, LoseMemory, executors, db
<1> QED
  BY <1>1, <1>4, <1>5, <1>6, <1>7, <1>8, <1>9, <1>10, <1>11 DEF Next, CallResumes

-----------------------------------------------------------------------------
(* What a step does to the mapped state, and which step that is.            *)

Same(r) == Stage(r)' = Stage(r) /\ Place(r)' = Place(r)

LEMMA LifecycleStutters ==
  ASSUME \A x \in Runs : Same(x)
  PROVE  Lifecycle!Next
  BY DEF Lifecycle!Next, Lifecycle!vars, Same

LEMMA LifecycleMoves ==
  ASSUME NEW r \in Runs, NEW s, \A x \in Runs \ {r} : Same(x),
         Place(r)' = Place(r), Stage(r)' = s
  PROVE  Lifecycle!Move(r, s)
  BY DEF Lifecycle!Move, Same

LEMMA LifecycleCreates ==
  ASSUME NEW n \in Runs, NEW l \in Lanes, \A x \in Runs \ {n} : Same(x),
         Stage(n) = "absent", Stage(n)' = "pending", Place(n)' = l,
         \A x \in Runs : Place(x) = l => Stage(x) \notin {"pending", "live", "interrupted"}
  PROVE  Lifecycle!Next
<1>1. Lifecycle!LaneIsFree(l)
  BY DEF Lifecycle!LaneIsFree, Lifecycle!Unfinished
<1>2. Lifecycle!Create(n, l)
  BY <1>1 DEF Lifecycle!Create, Same
<1> QED BY <1>2 DEF Lifecycle!Next

LEMMA LifecycleReplaces ==
  ASSUME NEW r \in Runs, NEW n \in Runs, r # n, \A x \in Runs \ {r, n} : Same(x),
         Stage(r) = "interrupted", Stage(r)' = "ended", Place(r)' = Place(r),
         Stage(n) = "absent", Stage(n)' = "pending", Place(n)' = Place(r)
  PROVE  Lifecycle!Next
<1>1. Lifecycle!Replace(r, n)
  BY DEF Lifecycle!Replace, Same
<1> QED BY <1>1 DEF Lifecycle!Next

LEMMA LifecycleCloses ==
  ASSUME \A x \in Runs : Place(x)' = Place(x),
         \A x \in Runs : \/ Stage(x)' = Stage(x)
                         \/ Stage(x) = "interrupted" /\ Stage(x)' = "ended"
  PROVE  Lifecycle!Next
<1> DEFINE S == {x \in Runs : Stage(x) = "interrupted" /\ Stage(x)' = "ended"}
<1>1. S \in SUBSET {x \in Runs : [y \in Runs |-> Stage(y)][x] = "interrupted"}
  OBVIOUS
<1>2. [x \in Runs |-> Stage(x)]'
        = [x \in Runs |-> IF x \in S THEN "ended" ELSE [y \in Runs |-> Stage(y)][x]]
  OBVIOUS
<1>3. Lifecycle!Close
  BY <1>1, <1>2 DEF Lifecycle!Close
<1> QED BY <1>3 DEF Lifecycle!Next

LEMMA LifecycleInterrupts ==
  ASSUME \A x \in Runs : Place(x)' = Place(x),
         \A x \in Runs : Stage(x)' = IF Stage(x) \in {"pending", "live", "interrupted"}
                                     THEN "interrupted" ELSE Stage(x)
  PROVE  Lifecycle!Next
<1>1. Lifecycle!Interrupt
  BY DEF Lifecycle!Interrupt, Lifecycle!Unfinished
<1> QED BY <1>1 DEF Lifecycle!Next

\* A run of a worker's lane is not seen.
LEMMA WorkerRunsUnseen ==
  ASSUME NEW r \in Runs, ~OfClient(r)
  PROVE  Stage(r) = "absent" /\ Place(r) = None
  BY DEF Stage, Place

\* Only what Stage reads can change the stage of a run.
LEMMA StageFrame ==
  ASSUME NEW r \in Runs, status'[r] = status[r], lane'[r] = lane[r],
         willStop'[r] = willStop[r], open'[r] = open[r],
         task'["gateway"][r] = task["gateway"][r], Launching(r)' <=> Launching(r)
  PROVE  Same(r)
  BY DEF Same, Stage, Place, OfClient

\* The stage of an active run of a client says who has it.
LEMMA ActiveStage ==
  ASSUME NEW r \in Runs, IsActive(r), OfClient(r)
  PROVE  /\ Place(r) = lane[r]
         /\ Stage(r) = IF task["gateway"][r] \in Executing THEN "live"
                       ELSE IF task["gateway"][r] = "ready" \/ Launching(r) THEN "pending"
                       ELSE "interrupted"
  BY DEF Stage, Place, OfClient

LEMMA TerminalStage ==
  ASSUME NEW r \in Runs, IsTerminal(r), OfClient(r)
  PROVE  /\ Place(r) = lane[r]
         /\ Stage(r) = IF status[r] = "completed" /\ willStop[r] /\ ~open[r]
                       THEN "stopped" ELSE "ended"
  BY DEF Stage, Place, OfClient

LEMMA UnfinishedIsActive ==
  ASSUME TypeInv, NEW r \in Runs, Stage(r) \in {"pending", "live", "interrupted"}
  PROVE  IsActive(r) /\ OfClient(r)
<1>1. status[r] \in RunStatuses
  BY DEF TypeInv, TypeOK
<1> QED BY <1>1 DEF Stage, OfClient

\* A lane without an active run is free.
LEMMA FreeLane ==
  ASSUME TypeInv, NEW l \in Lanes, \A x \in Runs : lane[x] = l => ~IsActive(x)
  PROVE  \A x \in Runs : Place(x) = l => Stage(x) \notin {"pending", "live", "interrupted"}
<1> SUFFICES ASSUME NEW x \in Runs, Place(x) = l, Stage(x) \in {"pending", "live", "interrupted"}
             PROVE  FALSE
  OBVIOUS
<1>1. IsActive(x) /\ OfClient(x)
  BY UnfinishedIsActive
<1> QED BY <1>1, ActiveStage

-----------------------------------------------------------------------------
(* The steps.                                                               *)

SimInv == IndInv /\ WorkerLaneInv

\* While a caller waits for the lock or holds it with another run, or nobody
\* launches, a run is not about to be launched.
LEMMA NobodyLaunches == ASSUME LockFree PROVE \A x \in Runs : ~Launching(x)
  BY DEF LockFree

\* A caller that starts to wait for the prefix of n launches n and no other run.
LEMMA AwaitingLaunches ==
  ASSUME TypeInv, LockFree, NEW c \in Callers, NEW pc \in {"launch", "relaunch"},
         NEW n \in Runs, AwaitPrefix(c, pc, n)
  PROVE  Launching(n)' /\ \A x \in Runs \ {n} : Launching(x)' = Launching(x)
  BY DEF LockFree, AwaitPrefix, TypeInv, TypeOK

\* A caller that does not launch, and does not begin to, leaves what is launched.
LEMMA LaunchesStay ==
  ASSUME TypeInv, NEW c \in Callers, call[c].pc \notin {"launch", "relaunch"},
         NEW k, k.pc \notin {"launch", "relaunch"}, call' = [call EXCEPT ![c] = k]
  PROVE  \A x \in Runs : Launching(x)' = Launching(x)
  BY DEF TypeInv, TypeOK

\* A run without a row is absent, nobody launches it and no task has it.
LEMMA FreshIsAbsent ==
  ASSUME TypeInv, NEW n \in Fresh
  PROVE  /\ Stage(n) = "absent" /\ Place(n) = None /\ n \in Runs
         /\ \A o \in Owners : task[o][n] = "none"
  BY DEF Fresh, Stage, Place, OfClient, TypeInv, RefsExist

\* A new row of lane l whose launch begins, when no active run is on the lane.
LEMMA InsertedRun ==
  ASSUME TypeInv, NEW n \in Fresh, NEW l \in Lanes, NEW g \in Runs, InsertRun(n, l, g),
         NEW c \in Callers, AwaitPrefix(c, "launch", n), LockFree, task' = task,
         status' = [status EXCEPT ![n] = "created"],
         \A x \in Runs : lane[x] = l => ~IsActive(x)
  PROVE  Lifecycle!Next
<1>1. n \in Runs /\ Stage(n) = "absent" /\ Place(n) = None
      /\ task["gateway"][n] = "none" /\ status'[n] = "created"
  BY FreshIsAbsent DEF TypeInv, TypeOK
<1>2. Launching(n)' /\ \A x \in Runs \ {n} : Launching(x)' = Launching(x)
  BY <1>1, AwaitingLaunches
<1>3. lane'[n] = l /\ \A x \in Runs \ {n} : lane'[x] = lane[x] /\ status'[x] = status[x]
  BY <1>1, InsertTypes DEF TypeInv, TypeOK
<1>4. \A x \in Runs \ {n} : Same(x)
  BY <1>2, <1>3, StageFrame DEF InsertRun
<1>5. CASE l \in WorkerLanes
  <2>1. Stage(n)' = "absent" /\ Place(n)' = None
    BY <1>3, <1>5 DEF Stage, Place, OfClient
  <2> QED BY <1>1, <1>4, <2>1, LifecycleStutters DEF Same
<1>6. CASE l \notin WorkerLanes
  <2>1. Stage(n)' = "pending" /\ Place(n)' = l
    BY <1>1, <1>2, <1>3, <1>6 DEF Stage, Place, OfClient
  <2> QED BY <1>1, <1>4, <2>1, FreeLane, LifecycleCreates
<1> QED BY <1>5, <1>6

LEMMA SimSend ==
  ASSUME SimInv, NEW c \in Callers, NEW l \in Lanes, NEW n \in Runs, Send(c, l, n)
  PROVE  Lifecycle!Next
<1>1. TypeInv
  BY DEF SimInv, IndInv, TypeInv
<1>2. \A x \in Runs : lane[x] = l => ~IsActive(x)
  BY DEF Send, ActiveInConv, ConvOfRun
<1>3. /\ n \in Fresh /\ InsertRun(n, l, n) /\ AwaitPrefix(c, "launch", n) /\ LockFree
      /\ task' = task /\ status' = [status EXCEPT ![n] = "created"]
  BY DEF Send, Enters, executors
<1> QED BY <1>1, <1>2, <1>3, InsertedRun

LEMMA SimRegenerate ==
  ASSUME SimInv, NEW c \in Callers, Regenerate(c)
  PROVE  Lifecycle!Next
<1> DEFINE r == call[c].run
<1>1. TypeInv /\ r \in Runs /\ lane[r] \in Lanes /\ group[r] \in Runs
  BY RowTypes DEF SimInv, IndInv, TypeInv, RefsExist, Regenerate
<1>2. call[c].pc = "regenerate" /\ LockFree /\ UNCHANGED <<task, slot, byId>>
  BY DEF Regenerate, executors, handles
<1>3. ASSUME NEW n \in Fresh, InsertRun(n, lane[r], group[r]), AwaitPrefix(c, "launch", n),
             status' = [status EXCEPT ![n] = "created"], RequireNoActiveRuns(ConvOfRun(r))
      PROVE  Lifecycle!Next
  <2>1. \A x \in Runs : lane[x] = lane[r] => ~IsActive(x)
    BY <1>3 DEF RequireNoActiveRuns, ActiveInConv, ConvOfRun
  <2> QED BY <1>1, <1>2, <1>3, <2>1, InsertedRun
<1>4. CASE Return(c) /\ UNCHANGED db
  <2>1. \A x \in Runs : Launching(x)' = Launching(x)
    BY <1>1, <1>2, <1>4, LaunchesStay DEF Return
  <2>2. \A x \in Runs : Same(x)
    BY <1>2, <1>4, <2>1, StageFrame DEF db
  <2> QED BY <2>2, LifecycleStutters
<1> QED BY <1>3, <1>4 DEF Regenerate

LEMMA SimRevive ==
  ASSUME SimInv, NEW c \in Callers, NEW r \in Runs, Revive(c, r)
  PROVE  Lifecycle!Next
<1>1. TypeInv /\ HandlesMatchTasks
  BY DEF SimInv, IndInv, TypeInv
<1>2. /\ LockFree /\ ~FindActiveRun(r) /\ Revivable(r) /\ AwaitPrefix(c, "relaunch", r)
      /\ status' = [status EXCEPT ![r] = "running"]
      /\ UNCHANGED <<lane, willStop, open, task>>
  BY DEF Revive, Enters, executors
<1>3. task["gateway"][r] \notin AliveStates
  BY <1>1, <1>2 DEF FindActiveRun, HandlesMatchTasks
<1>4. Launching(r)' /\ \A x \in Runs \ {r} : Launching(x)' = Launching(x)
  BY <1>1, <1>2, AwaitingLaunches
<1>5. status'[r] = "running" /\ \A x \in Runs \ {r} : status'[x] = status[x]
  BY <1>1, <1>2 DEF TypeInv, TypeOK
<1>6. \A x \in Runs \ {r} : Same(x)
  BY <1>2, <1>4, <1>5, StageFrame
<1>7. CASE ~OfClient(r)
  <2>1. ~OfClient(r)' /\ Stage(r) = "absent" /\ Place(r) = None
    BY <1>2, <1>5, <1>7, WorkerRunsUnseen DEF OfClient, Revivable
  <2>2. Stage(r)' = "absent" /\ Place(r)' = None
    BY <2>1 DEF Stage, Place
  <2> QED BY <1>6, <2>1, <2>2, LifecycleStutters DEF Same
<1>8. CASE OfClient(r)
  <2>1. Stage(r) = "stopped" /\ Place(r) = lane[r]
    BY <1>2, <1>8, TerminalStage DEF Revivable
  <2>2. Stage(r)' = "pending" /\ Place(r)' = lane[r]
    BY <1>2, <1>3, <1>4, <1>5, <1>8 DEF Stage, Place, OfClient
  <2>3. Lifecycle!Move(r, "pending")
    BY <1>6, <2>1, <2>2, LifecycleMoves
  <2>4. \A x \in Runs : Place(x) = lane[r] => Stage(x) \notin {"pending", "live", "interrupted"}
    <3> SUFFICES ASSUME NEW x \in Runs, Place(x) = lane[r],
                        Stage(x) \in {"pending", "live", "interrupted"}
                 PROVE  FALSE
      OBVIOUS
    <3>1. IsActive(x) /\ OfClient(x)
      BY <1>1, UnfinishedIsActive
    <3>2. lane[x] = lane[r] /\ x # r
      BY <2>1, <3>1, ActiveStage
    <3> QED BY <1>2, <3>1, <3>2 DEF Revivable, ActiveOnLane
  <2>5. Lifecycle!Revive(r)
    BY <2>1, <2>3, <2>4 DEF Lifecycle!Revive, Lifecycle!LaneIsFree, Lifecycle!Unfinished
  <2> QED BY <2>5 DEF Lifecycle!Next
<1> QED BY <1>7, <1>8

\* An active run that no task of this process has, and nobody launches, is interrupted.
LEMMA FoundInterrupted ==
  ASSUME SimInv, NEW r \in Runs, LockFree, ~FindActiveRun(r), IsActive(r), OfClient(r)
  PROVE  Stage(r) = "interrupted" /\ Place(r) = lane[r]
<1>1. task["gateway"][r] \notin AliveStates
  BY DEF SimInv, IndInv, FindActiveRun, HandlesMatchTasks
<1> QED BY <1>1, NobodyLaunches, ActiveStage

LEMMA SimMarkFailed ==
  ASSUME SimInv, NEW c \in Callers, NEW r \in Runs, MarkFailed(c, r)
  PROVE  Lifecycle!Next
<1>1. TypeInv
  BY DEF SimInv, IndInv, TypeInv
<1>2. /\ LockFree /\ ~FindActiveRun(r) /\ IsActive(r)
      /\ status' = [status EXCEPT ![r] = "failed"]
      /\ UNCHANGED <<lane, willStop, open, task, call>>
  BY DEF MarkFailed, Enters, executors
<1>3. status'[r] = "failed" /\ \A x \in Runs \ {r} : status'[x] = status[x]
  BY <1>1, <1>2 DEF TypeInv, TypeOK
<1>4. \A x \in Runs \ {r} : Same(x)
  BY <1>2, <1>3, StageFrame
<1>5. CASE ~OfClient(r)
  <2>1. ~OfClient(r)'
    BY <1>2, <1>3, <1>5 DEF OfClient
  <2>2. Same(r)
    BY <1>5, <2>1 DEF Same, Stage, Place
  <2> QED BY <1>4, <2>2, LifecycleStutters
<1>6. CASE OfClient(r)
  <2>1. Stage(r) = "interrupted" /\ Place(r) = lane[r]
    BY <1>2, <1>6, FoundInterrupted
  <2>2. Stage(r)' = "ended" /\ Place(r)' = lane[r]
    BY <1>2, <1>3, <1>6 DEF Stage, Place, OfClient
  <2> QED BY <1>4, <2>1, <2>2, LifecycleCloses DEF Same
<1> QED BY <1>5, <1>6

LEMMA SimRetry ==
  ASSUME SimInv, NEW c \in Callers, NEW r \in Runs, NEW n \in Runs, RetryInterrupted(c, r, n)
  PROVE  Lifecycle!Next
<1>1. TypeInv
  BY DEF SimInv, IndInv, TypeInv
<1>2. /\ LockFree /\ ~FindActiveRun(r) /\ IsActive(r) /\ n \in Fresh /\ r # n
      /\ AwaitPrefix(c, "launch", n) /\ InsertRun(n, lane[r], group[r])
      /\ status' = [status EXCEPT ![r] = "failed", ![n] = "created"]
      /\ UNCHANGED <<willStop, open, task>>
  BY DEF RetryInterrupted, Enters, executors, InsertRun, Fresh
<1>3. Stage(n) = "absent" /\ Place(n) = None /\ task["gateway"][n] = "none"
  BY <1>1, <1>2, FreshIsAbsent
<1>4. Launching(n)' /\ \A x \in Runs \ {n} : Launching(x)' = Launching(x)
  BY <1>1, <1>2, AwaitingLaunches
<1>5. /\ status'[r] = "failed" /\ status'[n] = "created"
      /\ \A x \in Runs \ {r, n} : status'[x] = status[x]
  BY <1>1, <1>2 DEF TypeInv, TypeOK
<1>6. lane[r] \in Lanes /\ lane'[n] = lane[r] /\ \A x \in Runs \ {n} : lane'[x] = lane[x]
  <2>1. lane[r] \in Lanes /\ group[r] \in Runs
    BY <1>1, <1>2, RowTypes
  <2> QED BY <1>1, <1>2, <2>1, InsertTypes
<1>7. \A x \in Runs \ {r, n} : Same(x)
  BY <1>2, <1>4, <1>5, <1>6, StageFrame
<1>8. CASE ~OfClient(r)
  <2>1. ~OfClient(r)' /\ ~OfClient(n)' /\ ~OfClient(n)
    BY <1>2, <1>5, <1>6, <1>8 DEF OfClient, Fresh
  <2>2. Same(r) /\ Same(n)
    BY <1>8, <2>1 DEF Same, Stage, Place
  <2> QED BY <1>7, <2>2, LifecycleStutters
<1>9. CASE OfClient(r)
  <2>1. Stage(r) = "interrupted" /\ Place(r) = lane[r]
    BY <1>2, <1>9, FoundInterrupted
  <2>2. Stage(r)' = "ended" /\ Place(r)' = lane[r]
    BY <1>2, <1>5, <1>6, <1>9 DEF Stage, Place, OfClient
  <2>3. Stage(n)' = "pending" /\ Place(n)' = lane[r]
    BY <1>2, <1>3, <1>4, <1>5, <1>6, <1>9 DEF Stage, Place, OfClient
  <2> QED BY <1>2, <1>3, <1>7, <2>1, <2>2, <2>3, LifecycleReplaces
<1> QED BY <1>8, <1>9

\* Beginning to wait for the lock, and selecting a variant, are not seen.
LEMMA SimCalls ==
  ASSUME SimInv, NEW c \in Callers,
         \/ \E op \in {"regenerate", "select"}, r \in Runs : BeginOnRun(c, op, r)
         \/ SelectVariant(c)
  PROVE  Lifecycle!Next
<1>1. TypeInv
  BY DEF SimInv, IndInv, TypeInv
<1>2. UNCHANGED <<status, lane, willStop, open, task>>
  BY DEF BeginOnRun, SelectVariant, db, executors
<1>3. \A x \in Runs : Launching(x)' = Launching(x)
  <2>1. ASSUME NEW op \in {"regenerate", "select"}, NEW r \in Runs, BeginOnRun(c, op, r)
        PROVE  \A x \in Runs : Launching(x)' = Launching(x)
    BY <1>1, <2>1, LaunchesStay DEF BeginOnRun
  <2>2. CASE SelectVariant(c)
    BY <1>1, <2>2, LaunchesStay DEF SelectVariant, Return
  <2> QED BY <2>1, <2>2
<1>4. \A x \in Runs : Same(x)
  BY <1>2, <1>3, StageFrame
<1> QED BY <1>4, LifecycleStutters

\* The caller that launches is the only one.
LEMMA LaunchEnds ==
  ASSUME SimInv, NEW c \in Callers, call[c].pc \in {"launch", "relaunch"}, Return(c)
  PROVE  /\ \A x \in Runs : ~Launching(x)'
         /\ \A x \in Runs \ {call[c].run} : ~Launching(x)
  BY DEF SimInv, IndInv, LaunchInv, Return, TypeOK

LEMMA SimLaunch ==
  ASSUME SimInv, NEW c \in Callers, CallLaunches(c)
  PROVE  Lifecycle!Next
<1>1. TypeInv /\ LaunchInv
  BY DEF SimInv, IndInv, TypeInv
<1>0. PICK n \in Runs : n = call[c].run
  BY <1>1 DEF CallLaunches, LaunchOk, LaunchFail, TypeInv, RefsExist
<1>2. call[c].pc \in {"launch", "relaunch"} /\ Return(c) /\ UNCHANGED <<lane, willStop, open>>
  BY DEF CallLaunches, LaunchOk, LaunchFail, db
<1>3. status[n] \in {"created", "running"} /\ Launching(n)
      /\ task["gateway"][n] \notin AliveStates
      /\ (call[c].pc = "launch" => status[n] = "created")
  BY <1>0, <1>1, <1>2 DEF LaunchInv, TypeInv
<1>4. (\A x \in Runs : ~Launching(x)') /\ \A x \in Runs \ {n} : ~Launching(x)
  BY <1>0, <1>2, LaunchEnds
<1>5. CASE LaunchOk(c)
  <2>1. /\ task'["gateway"][n] = "ready" /\ status' = status
        /\ \A x \in Runs \ {n} : task'["gateway"][x] = task["gateway"][x]
    BY <1>0, <1>1, <1>3, <1>5 DEF LaunchOk, db, TypeInv, TypeOK
  <2>2. \A x \in Runs \ {n} : Same(x)
    BY <1>2, <1>4, <2>1, StageFrame
  <2>3. Same(n)
    BY <1>2, <1>3, <2>1 DEF Same, Stage, Place, OfClient
  <2> QED BY <2>2, <2>3, LifecycleStutters
<1>6. CASE LaunchFail(c)
  <2>1. /\ status' = IF call[c].pc = "relaunch" THEN [status EXCEPT ![n] = "failed"] ELSE status
        /\ task' = task
    BY <1>0, <1>6 DEF LaunchFail, executors
  <2>2. /\ \A x \in Runs \ {n} : status'[x] = status[x]
        /\ status'[n] \in {"created", "failed"}
    BY <1>1, <1>2, <1>3, <2>1 DEF TypeInv, TypeOK
  <2>3. \A x \in Runs \ {n} : Same(x)
    BY <1>2, <1>4, <2>1, <2>2, StageFrame
  <2>4. CASE ~OfClient(n)
    <3>1. ~OfClient(n)'
      BY <1>2, <1>3, <2>4 DEF OfClient
    <3>2. Same(n)
      BY <2>4, <3>1 DEF Same, Stage, Place
    <3> QED BY <2>3, <3>2, LifecycleStutters
  <2>5. CASE OfClient(n)
    <3>1. Stage(n) = "pending" /\ Place(n) = lane[n]
      BY <1>3, <2>5, ActiveStage
    <3>2. Stage(n)' \in {"interrupted", "ended"} /\ Place(n)' = lane[n]
      BY <1>2, <1>3, <1>4, <2>1, <2>2, <2>5 DEF Stage, Place, OfClient
    <3>3. Lifecycle!Abort(n)
      BY <1>3, <2>3, <3>1, <3>2, LifecycleMoves DEF Lifecycle!Abort
    <3> QED BY <1>3, <3>3 DEF Lifecycle!Next
  <2> QED BY <2>4, <2>5
<1> QED BY <1>5, <1>6 DEF CallLaunches

LEMMA SimWorkerSubmit ==
  ASSUME SimInv, NEW n \in Runs, NEW l \in WorkerLanes, WorkerSubmit(n, l)
  PROVE  Lifecycle!Next
<1>1. TypeInv
  BY DEF SimInv, IndInv, TypeInv
<1>2. n \in Fresh /\ l \in Lanes /\ InsertRun(n, l, n) /\ call' = call
      /\ status' = [status EXCEPT ![n] = "created"]
      /\ task' = [task EXCEPT !["worker"][n] = "ready"]
  BY DEF WorkerSubmit
<1>3. lane'[n] = l /\ \A x \in Runs \ {n} : lane'[x] = lane[x] /\ status'[x] = status[x]
  BY <1>1, <1>2, InsertTypes DEF TypeInv, TypeOK
<1>4. \A x \in Runs : task'["gateway"][x] = task["gateway"][x]
  BY <1>1, <1>2 DEF TypeInv, TypeOK
<1>5. \A x \in Runs \ {n} : Same(x)
  BY <1>2, <1>3, <1>4, StageFrame DEF InsertRun
<1>6. Same(n)
  <2>1. ~OfClient(n) /\ ~OfClient(n)'
    BY <1>2, <1>3 DEF OfClient, Fresh
  <2> QED BY <2>1 DEF Same, Stage, Place
<1> QED BY <1>5, <1>6, LifecycleStutters

-----------------------------------------------------------------------------
(* The steps of executors.                                                  *)

\* An executor changes the row of its own run, and no launch.
ExecutorFrame(r) ==
    /\ UNCHANGED <<lane, call>>
    /\ \A x \in Runs \ {r} :
         /\ status'[x] = status[x] /\ willStop'[x] = willStop[x] /\ open'[x] = open[x]
         /\ task'["gateway"][x] = task["gateway"][x]

LEMMA ExecutorTouchesItsRun ==
  ASSUME TypeInv, NEW r \in Runs,
         \/ Cancel(r) \/ ExecWorks(r)
         \/ \E o \in Owners : ExecStart(o, r) \/ ExecEnd(o, r) \/ ExecReturn(o, r)
  PROVE  ExecutorFrame(r)
<1>1. CASE Cancel(r)
  BY <1>1 DEF Cancel, ExecutorFrame, TypeInv, TypeOK
<1>2. CASE ExecWorks(r)
  <2>1. ASSUME NEW o \in Owners, ExecAdvise(o, r) \/ ExecTools(o, r) PROVE ExecutorFrame(r)
    BY <2>1 DEF ExecAdvise, ExecTools, executors, ExecutorFrame, TypeInv, TypeOK
  <2>2. CASE ExecAskApproval(r) \/ ExecApprovalDecided(r)
    BY <2>2 DEF ExecAskApproval, ExecApprovalDecided, SetTask, ExecutorFrame, TypeInv, TypeOK
  <2> QED BY <1>2, <2>1, <2>2 DEF ExecWorks
<1>3. ASSUME NEW o \in Owners, ExecStart(o, r) PROVE ExecutorFrame(r)
  BY <1>3 DEF ExecStart, SetTask, ExecutorFrame, TypeInv, TypeOK
<1>4. ASSUME NEW o \in Owners, ExecEnd(o, r) PROVE ExecutorFrame(r)
  BY <1>4 DEF ExecEnd, ExecOutcome, Complete, EndAs, SetTask, ExecutorFrame, TypeInv, TypeOK
<1>5. ASSUME NEW o \in Owners, ExecReturn(o, r) PROVE ExecutorFrame(r)
  BY <1>5 DEF ExecReturn, SetTask, db, ExecutorFrame, TypeInv, TypeOK
<1> QED BY <1>1, <1>2, <1>3, <1>4, <1>5

LEMMA OthersStay ==
  ASSUME NEW r \in Runs, ExecutorFrame(r)
  PROVE  \A x \in Runs \ {r} : Same(x)
  BY StageFrame DEF ExecutorFrame

\* What is done to a row on a worker's lane is not seen.
LEMMA WorkerRunStays ==
  ASSUME NEW r \in Runs, ExecutorFrame(r), lane[r] \in WorkerLanes
  PROVE  Lifecycle!Next
<1>1. Same(r)
  BY DEF ExecutorFrame, Same, Stage, Place, OfClient
<1> QED BY <1>1, OthersStay, LifecycleStutters

\* A gateway executor that executes keeps its run live until it ends it.
LEMMA LiveStays ==
  ASSUME SimInv, NEW r \in Runs, ExecutorFrame(r), task["gateway"][r] \in Executing,
         task'["gateway"][r] \in Executing, IsActive(r)'
  PROVE  Lifecycle!Next
<1>1. IsActive(r)
  BY DEF SimInv, IndInv, ExecutingIsActive
<1>2. Same(r)
  BY <1>1 DEF ExecutorFrame, Same, Stage, Place, OfClient
<1> QED BY <1>2, OthersStay, LifecycleStutters

LEMMA SimCancel ==
  ASSUME SimInv, NEW r \in Runs, Cancel(r)
  PROVE  Lifecycle!Next
<1>1. TypeInv /\ IsActive(r) /\ task["gateway"][r] \in Executing /\ task' = task
  BY DEF SimInv, IndInv, TypeInv, ExecutingIsActive, Cancel
<1>2. IsActive(r)'
  BY <1>1 DEF Cancel, TypeInv, TypeOK
<1> QED BY <1>1, <1>2, ExecutorTouchesItsRun, LiveStays

LEMMA SimWorks ==
  ASSUME SimInv, NEW r \in Runs, ExecWorks(r)
  PROVE  Lifecycle!Next
<1>1. TypeInv /\ ExecutingIsActive /\ WorkerLaneInv
  BY DEF SimInv, IndInv, TypeInv
<1>2. ExecutorFrame(r)
  BY <1>1, ExecutorTouchesItsRun
<1>3. ASSUME ExecAdvise("gateway", r) \/ ExecTools("gateway", r) PROVE Lifecycle!Next
  <2>1. task["gateway"][r] = "running" /\ task' = task /\ status' = status
    BY <1>3 DEF ExecAdvise, ExecTools, executors
  <2> QED BY <1>1, <1>2, <2>1, LiveStays DEF ExecutingIsActive
<1>4. ASSUME ExecAdvise("worker", r) \/ ExecTools("worker", r) PROVE Lifecycle!Next
  <2>1. task["worker"][r] # "none"
    BY <1>4 DEF ExecAdvise, ExecTools
  <2> QED BY <1>1, <1>2, <2>1, WorkerRunStays DEF WorkerLaneInv
<1>5. ASSUME ExecAskApproval(r) \/ ExecApprovalDecided(r) PROVE Lifecycle!Next
  <2>1. /\ task["gateway"][r] \in Executing /\ task'["gateway"][r] \in Executing
        /\ status'[r] \in {"waiting_approval", "running"}
    BY <1>1, <1>5 DEF ExecAskApproval, ExecApprovalDecided, SetTask, TypeInv, TypeOK
  <2> QED BY <1>2, <2>1, LiveStays
<1> QED BY <1>3, <1>4, <1>5 DEF ExecWorks

LEMMA SimStart ==
  ASSUME SimInv, NEW r \in Runs, ExecStart("gateway", r)
  PROVE  Lifecycle!Next
<1>1. TypeInv
  BY DEF SimInv, IndInv, TypeInv
<1>2. ExecutorFrame(r)
  BY <1>1, ExecutorTouchesItsRun
<1>3. task["gateway"][r] = "ready" /\ UNCHANGED <<lane, willStop, open>>
  BY DEF ExecStart
<1>4. CASE IsTerminal(r)
  <2>1. status' = status
    BY <1>4 DEF ExecStart
  <2>2. Same(r)
    BY <1>3, <1>4, <2>1 DEF Same, Stage, Place, OfClient
  <2> QED BY <1>2, <2>2, OthersStay, LifecycleStutters
<1>5. CASE ~IsTerminal(r)
  <2>1. task'["gateway"][r] = "running" /\ status'[r] = "running" /\ IsActive(r)
    BY <1>1, <1>5 DEF ExecStart, SetTask, TypeInv, TypeOK, RefsExist
  <2>2. CASE lane[r] \in WorkerLanes
    BY <1>2, <2>2, WorkerRunStays
  <2>3. CASE lane[r] \notin WorkerLanes
    <3>1. OfClient(r) /\ OfClient(r)'
      BY <1>3, <2>1, <2>3 DEF OfClient
    <3>2. Stage(r) = "pending" /\ Place(r) = lane[r]
      BY <1>3, <2>1, <3>1, ActiveStage
    <3>3. Stage(r)' = "live" /\ Place(r)' = lane[r]
      BY <1>3, <2>1, <3>1 DEF Stage, Place
    <3>4. Lifecycle!Begin(r)
      BY <1>2, <3>2, <3>3, OthersStay, LifecycleMoves DEF Lifecycle!Begin
    <3> QED BY <3>4 DEF Lifecycle!Next
  <2> QED BY <2>2, <2>3
<1> QED BY <1>4, <1>5

LEMMA SimEnd ==
  ASSUME SimInv, NEW r \in Runs, ExecEnd("gateway", r)
  PROVE  Lifecycle!Next
<1>1. TypeInv
  BY DEF SimInv, IndInv, TypeInv
<1>2. ExecutorFrame(r)
  BY <1>1, ExecutorTouchesItsRun
<1>3. task["gateway"][r] \in Executing /\ IsActive(r) /\ lane' = lane
  BY DEF ExecEnd, SimInv, IndInv, ExecutingIsActive
<1>4. IsTerminal(r)'
  BY <1>1, <1>3 DEF ExecEnd, ExecOutcome, Complete, EndAs, TypeInv, TypeOK
<1>5. CASE lane[r] \in WorkerLanes
  BY <1>2, <1>5, WorkerRunStays
<1>6. CASE lane[r] \notin WorkerLanes
  <2>1. Stage(r) = "live" /\ Place(r) = lane[r]
    BY <1>3, <1>6, ActiveStage DEF OfClient
  <2>2. Stage(r)' \in {"stopped", "ended"} /\ Place(r)' = lane[r]
    BY <1>3, <1>4, <1>6 DEF Stage, Place, OfClient
  <2>3. Lifecycle!End(r)
    BY <1>2, <2>1, <2>2, OthersStay, LifecycleMoves DEF Lifecycle!End
  <2> QED BY <2>3 DEF Lifecycle!Next
<1> QED BY <1>5, <1>6

LEMMA SimReturn ==
  ASSUME SimInv, NEW r \in Runs, ExecReturn("gateway", r)
  PROVE  Lifecycle!Next
<1>1. TypeInv /\ IsTerminal(r) /\ UNCHANGED db
  BY DEF SimInv, IndInv, TypeInv, EndingInv, ExecReturn
<1>2. ExecutorFrame(r)
  BY <1>1, ExecutorTouchesItsRun
<1>3. Same(r)
  BY <1>1 DEF Same, Stage, Place, OfClient, db
<1> QED BY <1>2, <1>3, OthersStay, LifecycleStutters

LEMMA SimExecutor ==
  ASSUME SimInv, NEW o \in Owners, NEW r \in Runs,
         ExecStart(o, r) \/ ExecEnd(o, r) \/ ExecReturn(o, r)
  PROVE  Lifecycle!Next
<1>1. CASE o = "gateway"
  BY <1>1, SimStart, SimEnd, SimReturn
<1>2. CASE o = "worker"
  <2>1. TypeInv /\ WorkerLaneInv
    BY DEF SimInv, IndInv, TypeInv
  <2>2. task["worker"][r] # "none"
    BY <1>2 DEF ExecStart, ExecEnd, ExecReturn
  <2>3. lane[r] \in WorkerLanes /\ ExecutorFrame(r)
    BY <2>1, <2>2, ExecutorTouchesItsRun DEF WorkerLaneInv
  <2> QED BY <2>3, WorkerRunStays
<1> QED BY <1>1, <1>2

\* The release of a handle is not seen.
LEMMA SimDone ==
  ASSUME SimInv, NEW r \in Runs, OnRunDone(r)
  PROVE  Lifecycle!Next
<1>1. \A x \in Runs : Same(x)
  BY StageFrame DEF OnRunDone, db
<1> QED BY <1>1, LifecycleStutters

-----------------------------------------------------------------------------
(* The steps of the process.                                                *)

LEMMA SimShutdown ==
  ASSUME SimInv, BeginShutdown
  PROVE  Lifecycle!Next
<1>1. TypeInv
  BY DEF SimInv, IndInv, TypeInv
<1>2. UNCHANGED <<lane, willStop, open, task, call>>
  BY DEF BeginShutdown
<1>3. ASSUME NEW x \in Runs PROVE Same(x)
  <2>1. CASE status'[x] = status[x]
    BY <1>2, <2>1, StageFrame
  <2>2. CASE status'[x] # status[x]
    <3>1. task["gateway"][x] \in Executing /\ IsActive(x) /\ status'[x] = "cancelling"
      BY <2>2 DEF BeginShutdown
    <3> QED BY <1>2, <3>1 DEF Same, Stage, Place, OfClient
  <2> QED BY <2>1, <2>2
<1> QED BY <1>3, LifecycleStutters

\* When memory is lost, whatever was not over is interrupted.
LEMMA SimLoss ==
  ASSUME SimInv, LoseMemory
  PROVE  Lifecycle!Next
<1>1. TypeInv
  BY DEF SimInv, IndInv, TypeInv
<1>2. /\ UNCHANGED <<status, lane, willStop, open>>
      /\ \A x \in Runs : task'["gateway"][x] = "none" /\ ~Launching(x)'
  BY DEF LoseMemory, db
<1>3. ASSUME NEW x \in Runs
      PROVE  /\ Place(x)' = Place(x)
             /\ Stage(x)' = IF Stage(x) \in {"pending", "live", "interrupted"}
                            THEN "interrupted" ELSE Stage(x)
  BY <1>2 DEF Stage, Place, OfClient
<1> QED BY <1>3, LifecycleInterrupts

LEMMA SimRestart ==
  ASSUME SimInv, Restart
  PROVE  Lifecycle!Next
<1>1. TypeInv /\ DownInv
  BY DEF SimInv, IndInv, TypeInv
<1>2. UNCHANGED <<lane, willStop, open, task, call>> /\ phase = "down"
  BY DEF Restart, executors
<1>3. \A x \in Runs : task["gateway"][x] = "none" /\ ~Launching(x)
  BY <1>1, <1>2 DEF DownInv
<1>4. \A x \in Runs : status'[x] = status[x] \/ (IsActive(x) /\ status'[x] = "failed")
  BY DEF Restart
<1>5. ASSUME NEW x \in Runs
      PROVE  /\ Place(x)' = Place(x)
             /\ \/ Stage(x)' = Stage(x)
                \/ Stage(x) = "interrupted" /\ Stage(x)' = "ended"
  <2>1. CASE status'[x] = status[x]
    BY <1>2, <2>1, StageFrame DEF Same
  <2>2. CASE IsActive(x) /\ status'[x] = "failed"
    BY <1>2, <1>3, <2>2 DEF Stage, Place, OfClient
  <2> QED BY <1>4, <2>1, <2>2
<1> QED BY <1>5, LifecycleCloses

LEMMA SimInit == Init => Lifecycle!Init
<1> SUFFICES ASSUME Init PROVE Lifecycle!Init
  OBVIOUS
<1>1. \A x \in Runs : Stage(x) = "absent" /\ Place(x) = None
  BY DEF Init, Stage, Place, OfClient
<1> QED BY <1>1 DEF Lifecycle!Init

LEMMA SimStep == SimInv /\ [Next]_vars => [Lifecycle!Next]_(Lifecycle!vars)
<1> SUFFICES ASSUME SimInv, [Next]_vars PROVE Lifecycle!Next
  OBVIOUS
<1>1. CASE UNCHANGED vars
  <2>1. \A x \in Runs : Same(x)
    BY <1>1, StageFrame DEF vars, db, executors
  <2> QED BY <2>1, LifecycleStutters
<1>2. ASSUME NEW c \in Callers, CallEnters(c) PROVE Lifecycle!Next
  BY <1>2, SimSend, SimRevive, SimMarkFailed, SimRetry, SimCalls DEF CallEnters
<1>3. ASSUME NEW c \in Callers, CallResumes(c) PROVE Lifecycle!Next
  BY <1>3, SimRegenerate, SimCalls DEF CallResumes
<1>4. ASSUME NEW c \in Callers, CallLaunches(c) PROVE Lifecycle!Next
  BY <1>4, SimLaunch
<1>5. ASSUME NEW r \in Runs, Cancel(r) \/ ExecWorks(r) \/ OnRunDone(r) PROVE Lifecycle!Next
  BY <1>5, SimCancel, SimWorks, SimDone
<1>6. ASSUME NEW r \in Runs, NEW l \in WorkerLanes, WorkerSubmit(r, l) PROVE Lifecycle!Next
  BY <1>6, SimWorkerSubmit
<1>7. ASSUME NEW o \in Owners, NEW r \in Runs,
             ExecStart(o, r) \/ ExecEnd(o, r) \/ ExecReturn(o, r)
      PROVE  Lifecycle!Next
  BY <1>7, SimExecutor
<1>8. CASE Lifespan
  BY <1>8, SimShutdown, SimLoss, SimRestart DEF Lifespan, Exit, Crash
<1> QED BY <1>1, <1>2, <1>3, <1>4, <1>5, <1>6, <1>7, <1>8 DEF Next

\* The executors of the task worker have runs of worker lanes only, so what the
\* life cycle leaves out is what clients do not see.
THEOREM WorkerRunsHaveTheirLanes == Spec => []WorkerLaneInv
<1>1. Init => WorkerLaneInv
  BY InitWorkerLane
<1>2. IndInv /\ WorkerLaneInv /\ [Next]_vars => WorkerLaneInv'
  BY WorkerLaneStep DEF IndInv, TypeInv
<1> QED
  BY <1>1, <1>2, Invariance, PTL DEF Spec

\* The gateway, its executors, the worker, crashes and the sweep implement the life
\* cycle of runs.
THEOREM Implementation == Spec => ImplementsLifecycle
<1>1. IndInv /\ WorkerLaneInv /\ [Next]_vars => [Lifecycle!Next]_(Lifecycle!vars)
  BY SimStep DEF SimInv
<1> QED
  BY SimInit, <1>1, Invariance, WorkerRunsHaveTheirLanes, PTL
     DEF Spec, ImplementsLifecycle, Lifecycle!Spec
=============================================================================
