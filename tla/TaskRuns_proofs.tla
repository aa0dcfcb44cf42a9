--------------------------- MODULE TaskRuns_proofs ---------------------------
(* Theorems about TaskRuns, for every number of tasks and reminders, every   *)
(* schedule, backoff and number of attempts, and without the bounds of TLC.  *)
(* IndInv is inductive.  Every step has one of a few shapes, which say what   *)
(* becomes of rows, coroutines and tokens; each conjunct has a lemma with a  *)
(* step for each shape, or for each action that touches what it is about.    *)
EXTENDS TaskRuns, TLAPS

-----------------------------------------------------------------------------
(* The shapes of steps.                                                     *)

LastTyped == last' \in [Subjects -> FinishedRows \cup {NoRun}]

\* The rows and tokens after finish_run, and after claim_run.
Finished(s) ==
    /\ running' \in [Subjects -> RunningRows \cup {NoRun}]
    /\ token' \in [Subjects -> {"none", "live", "cancelled"}]
    /\ running'[s] = NoRun /\ token'[s] = "none"
    /\ \A u \in Subjects \ {s} :
         running'[u] = running[u] /\ token'[u] = token[u] /\ last'[u] = last[u]
    /\ AttemptOf(LatestScheduled(s)') = AttemptOf(LatestScheduled(s))
    /\ LatestScheduled(s) = NoRun => LatestScheduled(s)' = NoRun
    /\ LatestScheduled(s) # NoRun =>
         LatestScheduled(s)' # NoRun /\ LatestScheduled(s)'.started = LatestScheduled(s).started

Claimed(s) ==
    /\ running' \in [Subjects -> RunningRows \cup {NoRun}]
    /\ token' \in [Subjects -> {"none", "live", "cancelled"}]
    /\ running[s] = NoRun /\ running'[s] # NoRun /\ token'[s] = "live"
    /\ \A u \in Subjects \ {s} : running'[u] = running[u] /\ token'[u] = token[u]

\* A subject is claimed; a start fails; a coroutine ends with its run.
Starts(s) ==
    /\ Claimed(s) /\ Idle /\ starting' = s
    /\ UNCHANGED <<last, coro, queue, process, raised>>

Abandons(s) ==
    /\ Finished(s) /\ LastTyped /\ starting = s /\ starting' = NoSubject
    /\ UNCHANGED <<coro, queue, process, raised>>

RunEnds(s) ==
    /\ Finished(s) /\ LastTyped
    /\ process # "down" /\ starting = NoSubject /\ coro[s] # "none"
    /\ coro' = [coro EXCEPT ![s] = "none"]
    /\ queue' \in Seq(Tasks)
    /\ UNCHANGED <<now, task, reminder, starting, process, bounds, starts, executed, raised>>

\* Rows and memory stay, or only the place of a coroutine changes.
Quiet == UNCHANGED <<running, last, memory, raised>>

Moves(s) ==
    /\ process # "down" /\ starting = NoSubject /\ coro[s] # "none"
    /\ coro' = [coro EXCEPT ![s] = coro'[s]] /\ coro'[s] \in {"turn", "review"}
    /\ queue' \in Seq(Tasks)
    /\ UNCHANGED <<now, task, reminder, running, last, token, starting, process, bounds, starts, raised>>

\* A start or a coroutine raises, and its row stays.
Loses(s) ==
    /\ raised' = raised \cup {s} /\ starting' = NoSubject
    /\ \/ starting = s /\ UNCHANGED <<coro, queue>>
       \/ /\ process # "down" /\ starting = NoSubject /\ coro[s] # "none"
          /\ coro' = [coro EXCEPT ![s] = "none"] /\ queue' \in Seq(Tasks)
    /\ (token' = token /\ s \notin Tasks) \/ token' = [token EXCEPT ![s] = "none"]
    /\ UNCHANGED <<now, task, running, last, process, requests, stops, starts, executed>>

LEMMA FinishFacts ==
  ASSUME TypeOK, NEW s \in Subjects, running[s] # NoRun,
         NEW status \in {"completed", "failed", "cancelled"}, NEW retryable \in BOOLEAN,
         Finish(s, status, retryable)
  PROVE  Finished(s) /\ LastTyped
<1> DEFINE row == [attempt |-> running[s].attempt, started |-> running[s].started,
                   finished |-> now, status |-> status, retryable |-> retryable]
<1>1. row \in FinishedRows /\ row # NoRun
      /\ row.attempt = running[s].attempt /\ row.started = running[s].started
  BY NoRunAssumption DEF TypeOK, RunningRows, FinishedRows
<1> HIDE DEF row
<1>2. last' = IF running[s].trigger = "manual" THEN last ELSE [last EXCEPT ![s] = row]
  BY DEF Finish, row
<1>3. running' = [running EXCEPT ![s] = NoRun] /\ token' = [token EXCEPT ![s] = "none"]
  BY DEF Finish
<1>4. LastTyped
  BY <1>1, <1>2 DEF TypeOK, LastTyped
<1>5. running[s].trigger \in {"manual", "scheduled"}
  BY DEF TypeOK, RunningRows
<1>6. running'[s] = NoRun
  BY <1>3 DEF TypeOK
<1>7. CASE running[s].trigger = "manual"
  <2>1. LatestScheduled(s)' = last[s] /\ LatestScheduled(s) = last[s]
    BY <1>2, <1>6, <1>7 DEF LatestScheduled
  <2> QED
    BY <1>2, <1>3, <1>4, <1>6, <1>7, <2>1 DEF TypeOK, Finished
<1>8. CASE running[s].trigger = "scheduled"
  <2>1. LatestScheduled(s)' = row /\ LatestScheduled(s) = running[s]
    BY <1>2, <1>6, <1>8 DEF LatestScheduled, TypeOK
  <2>2. AttemptOf(LatestScheduled(s)') = AttemptOf(LatestScheduled(s))
    BY <1>1, <2>1 DEF AttemptOf
  <2> QED
    BY <1>1, <1>2, <1>3, <1>4, <1>6, <1>8, <2>1, <2>2 DEF TypeOK, Finished
<1> QED
  BY <1>5, <1>7, <1>8

LEMMA ClaimFacts ==
  ASSUME TypeOK, NEW s \in Subjects, NEW trigger \in {"manual", "scheduled"},
         NEW attempt \in 1 .. MaxAttempts, Claim(s, trigger, attempt)
  PROVE  /\ Claimed(s)
         /\ running'[s] = [trigger |-> trigger, attempt |-> attempt, started |-> now]
<1> DEFINE row == [trigger |-> trigger, attempt |-> attempt, started |-> now]
<1>1. row \in RunningRows /\ row # NoRun
  BY NoRunAssumption DEF TypeOK, RunningRows
<1> HIDE DEF row
<1>2. running' = [running EXCEPT ![s] = row]
  BY DEF Claim, row
<1>3. running'[s] = row
  BY <1>2 DEF TypeOK
<1>4. running'[s] = [trigger |-> trigger, attempt |-> attempt, started |-> now]
  BY <1>3 DEF row
<1> QED
  BY <1>1, <1>2, <1>3, <1>4 DEF TypeOK, Claim, Claimed

\* The attempt a scan starts is within the limit.
LEMMA AttemptFacts ==
  ASSUME TypeOK, NEW t \in Tasks
  PROVE  (IF Retryable(t) THEN last[t].attempt + 1 ELSE 1) \in 1 .. MaxAttempts
  BY SubjectsAssumption, MaxAttemptsAssumption DEF TypeOK, Retryable, Subjects, FinishedRows

-----------------------------------------------------------------------------
(* The shapes of the actions.                                               *)

LEMMA ScanTaskShape ==
  ASSUME TypeOK, NEW t \in Tasks, ScanTask(t)
  PROVE  /\ Starts(t) /\ running'[t].trigger = "scheduled" /\ running'[t].started = now
         /\ running'[t].attempt = IF Retryable(t) THEN last[t].attempt + 1 ELSE 1
<1> DEFINE attempt == IF Retryable(t) THEN last[t].attempt + 1 ELSE 1
<1>1. attempt \in 1 .. MaxAttempts
  BY AttemptFacts
<1>2. Claim(t, "scheduled", attempt) /\ Idle
  BY DEF ScanTask
<1> HIDE DEF attempt
<1>3. Claimed(t) /\ running'[t] = [trigger |-> "scheduled", attempt |-> attempt, started |-> now]
  BY <1>1, <1>2, ClaimFacts DEF Subjects
<1> QED
  BY <1>2, <1>3 DEF Claim, Starts, attempt

LEMMA RunTaskShape ==
  ASSUME TypeOK, NEW t \in Tasks, RunTask(t)
  PROVE  Starts(t) /\ running'[t].trigger = "manual"
<1>1. Claim(t, "manual", 1) /\ Idle /\ 1 \in 1 .. MaxAttempts
  BY MaxAttemptsAssumption DEF RunTask, Request
<1>2. Claimed(t) /\ running'[t] = [trigger |-> "manual", attempt |-> 1, started |-> now]
  BY <1>1, ClaimFacts DEF Subjects
<1> QED
  BY <1>1, <1>2 DEF Claim, Starts

LEMMA ScanReminderShape ==
  ASSUME TypeOK, NEW r \in Reminders, ScanReminder(r)
  PROVE  Starts(r)
<1>1. Claim(r, "scheduled", 1) /\ Idle /\ 1 \in 1 .. MaxAttempts
  BY MaxAttemptsAssumption DEF ScanReminder
<1>2. Claimed(r)
  BY <1>1, ClaimFacts DEF Subjects
<1> QED
  BY <1>1, <1>2 DEF Claim, Starts

LEMMA NoConversationShape ==
  ASSUME TypeOK, OwnerInv, NEW sourceGone \in BOOLEAN, NoConversation(sourceGone)
  PROVE  starting \in Subjects /\ Abandons(starting)
<1>1. starting \in Subjects /\ running[starting] # NoRun
  BY DEF NoConversation, TypeOK, OwnerInv
<1>2. (starting \in Tasks /\ ~sourceGone) \in BOOLEAN
  OBVIOUS
<1>3. Finished(starting) /\ LastTyped
  BY <1>1, <1>2, FinishFacts DEF NoConversation
<1> QED
  BY <1>1, <1>3 DEF NoConversation, EndStart, StartEnds, Abandons

LEMMA BookkeepingShape ==
  ASSUME TypeOK, OwnerInv, BookkeepingRaises
  PROVE  starting \in Subjects /\ Abandons(starting)
<1>1. starting \in Subjects /\ running[starting] # NoRun
  BY DEF BookkeepingRaises, TypeOK, OwnerInv
<1>2. (starting \in Tasks) \in BOOLEAN
  OBVIOUS
<1>3. Finished(starting) /\ LastTyped
  BY <1>1, <1>2, FinishFacts DEF BookkeepingRaises
<1> QED
  BY <1>1, <1>3 DEF BookkeepingRaises, EndStart, StartEnds, Abandons

LEMMA EndsShape ==
  ASSUME TypeOK, OwnerInv, NEW s \in Subjects, NEW from \in {"queued", "turn", "review"},
         NEW status \in {"completed", "failed", "cancelled"}, NEW retryable \in BOOLEAN,
         Step(s, from), Ends(s, status, retryable), queue' \in Seq(Tasks), UNCHANGED executed
  PROVE  RunEnds(s)
<1>1. coro[s] # "none" /\ running[s] # NoRun
  BY DEF Step, At, OwnerInv
<1>2. Finished(s) /\ LastTyped
  BY <1>1, FinishFacts DEF Ends
<1> QED
  BY <1>1, <1>2 DEF Step, At, Ends, RunEnds

LEMMA AdmittedFacts ==
  ASSUME TypeOK, NEW t \in Tasks, Admitted(t)
  PROVE  t \in Subjects /\ Step(t, "queued") /\ queue' \in Seq(Tasks) /\ UNCHANGED executed
  BY DEF TypeOK, Admitted, MayEnter, Subjects

LEMMA TaskBeginShape ==
  ASSUME TypeOK, OwnerInv, NEW t \in Tasks,
         \/ NotActiveAnymore(t) \/ TaskTurnBegins(t)
         \/ \E gone \in BOOLEAN : TaskTurnRefused(t, gone)
  PROVE  t \in Subjects /\ (RunEnds(t) \/ Moves(t)) /\ UNCHANGED executed
<1>1. t \in Subjects /\ Step(t, "queued") /\ queue' \in Seq(Tasks) /\ UNCHANGED executed
  BY AdmittedFacts DEF NotActiveAnymore, TaskTurnBegins, TaskTurnRefused
<1>2. ASSUME NEW retryable \in BOOLEAN, NEW status \in {"failed", "cancelled"},
             Ends(t, status, retryable)
      PROVE  RunEnds(t)
  BY <1>1, <1>2, EndsShape
<1>3. CASE NotActiveAnymore(t)
  BY <1>1, <1>2, <1>3 DEF NotActiveAnymore
<1>4. ASSUME NEW gone \in BOOLEAN, TaskTurnRefused(t, gone)
      PROVE  RunEnds(t)
  <2>1. (~gone) \in BOOLEAN /\ Ends(t, "failed", ~gone)
    BY <1>4 DEF TaskTurnRefused
  <2> QED
    BY <1>2, <2>1
<1>5. CASE TaskTurnBegins(t)
  <2>1. CASE Ends(t, "cancelled", FALSE)
    BY <1>1, <1>2, <2>1
  <2>2. CASE coro' = [coro EXCEPT ![t] = "turn"] /\ UNCHANGED <<running, last, token>>
    BY <1>1, <2>2 DEF TypeOK, Step, At, Moves
  <2> QED
    BY <1>5, <2>1, <2>2, <1>1 DEF TaskTurnBegins
<1> QED
  BY <1>1, <1>3, <1>4, <1>5

LEMMA ReminderBeginShape ==
  ASSUME TypeOK, OwnerInv, NEW r \in Reminders, ReminderTurnBegins(r) \/ ReminderTurnRefused(r)
  PROVE  r \in Subjects /\ (RunEnds(r) \/ Moves(r))
<1>1. r \in Subjects /\ Step(r, "queued") /\ queue' \in Seq(Tasks)
  BY DEF TypeOK, ReminderTurnBegins, ReminderTurnRefused, Subjects
<1>2. CASE ReminderTurnRefused(r)
  BY <1>1, <1>2, EndsShape DEF ReminderTurnRefused
<1>3. CASE ReminderTurnBegins(r)
  <2>1. CASE Ends(r, "cancelled", FALSE) /\ UNCHANGED executed
    BY <1>1, <2>1, EndsShape
  <2>2. CASE coro' = [coro EXCEPT ![r] = "turn"] /\ UNCHANGED <<running, last, token>>
    BY <1>1, <2>2 DEF TypeOK, Step, At, Moves
  <2> QED
    BY <1>3, <2>1, <2>2 DEF ReminderTurnBegins
<1> QED
  BY <1>1, <1>2, <1>3

LEMMA EndShape ==
  ASSUME TypeOK, OwnerInv, NEW s \in Subjects, EndSteps(s)
  PROVE  (RunEnds(s) \/ Moves(s)) /\ coro'[s] # "queued" /\ UNCHANGED executed
<1>1. queue' \in Seq(Tasks) /\ UNCHANGED executed
  BY DEF TypeOK, EndSteps, TurnCompletes, TurnFails, TurnCancelled, Reviewed
<1>2. CASE TurnCompletes(s)
  BY <1>1, <1>2 DEF TypeOK, TurnCompletes, Step, At, Moves
<1>3. CASE TurnFails(s)
  <2>1. (s \in Tasks) \in BOOLEAN
    OBVIOUS
  <2>2. RunEnds(s)
    BY <1>1, <1>3, <2>1, EndsShape DEF TurnFails
  <2> QED
    BY <1>1, <2>2 DEF TypeOK, RunEnds
<1>4. CASE TurnCancelled(s)
  <2>1. RunEnds(s)
    BY <1>1, <1>4, EndsShape DEF TurnCancelled
  <2> QED
    BY <1>1, <2>1 DEF TypeOK, RunEnds
<1>5. CASE Reviewed(s)
  <2>1. RunEnds(s)
    BY <1>1, <1>5, EndsShape DEF Reviewed
  <2> QED
    BY <1>1, <2>1 DEF TypeOK, RunEnds
<1> QED
  BY <1>2, <1>3, <1>4, <1>5 DEF EndSteps

LEMMA StartLostShape ==
  ASSUME TypeOK, StartLost
  PROVE  starting \in Subjects /\ Loses(starting)
  BY SubjectsAssumption DEF TypeOK, StartLost, Lost, StartEnds, Loses

LEMMA RunLostShape ==
  ASSUME TypeOK, NEW s \in Subjects, RunLost(s)
  PROVE  Loses(s)
<1>1. queue' \in Seq(Tasks)
  <2>1. CASE s \in Tasks /\ coro[s] = "queued"
    <3>1. queue # <<>> /\ queue' = Tail(queue)
      BY <2>1 DEF RunLost, MayEnter
    <3> QED
      BY <3>1 DEF TypeOK
  <2>2. CASE ~(s \in Tasks /\ coro[s] = "queued")
    BY <2>2 DEF RunLost, TypeOK
  <2> QED
    BY <2>1, <2>2
<1>2. (token' = token /\ s \notin Tasks) \/ token' = [token EXCEPT ![s] = "none"]
  BY SubjectsAssumption DEF RunLost
<1> QED
  BY <1>1, <1>2 DEF RunLost, Lost, At, Loses

LEMMA LandingShape ==
  ASSUME TypeOK, NEW r \in Reminders, ReminderLandingGone(r)
  PROVE  r \in Subjects /\ Loses(r)
  BY SubjectsAssumption DEF TypeOK, ReminderLandingGone, At, Loses, Subjects, bounds

LEMMA StepShapes ==
  ASSUME TypeOK, OwnerInv, [Next]_vars
  PROVE  \/ Quiet \/ TaskStarted \/ ReminderStarted \/ Shutdown \/ Gone \/ Restart
         \/ \E s \in Subjects :
              CancelRun(s) \/ Starts(s) \/ Abandons(s) \/ RunEnds(s) \/ Moves(s) \/ Loses(s)
<1>1. CASE Tick \/ UNCHANGED vars
  BY <1>1 DEF Tick, vars, rows, memory, history, Quiet
<1>2. CASE Requests
  <2>1. ASSUME NEW t \in Tasks, RunTask(t) PROVE \E s \in Subjects : Starts(s)
    BY <2>1, RunTaskShape DEF Subjects
  <2>2. ASSUME NEW t \in Tasks, NEW phase \in 0 .. Period - 1,
               \/ CreateTask(t, phase) \/ EditSchedule(t, phase)
               \/ Pause(t) \/ Resume(t) \/ CancelTask(t)
        PROVE  Quiet
    BY <2>2 DEF CreateTask, EditSchedule, Pause, Resume, CancelTask, TaskRequest, Quiet
  <2>3. ASSUME NEW r \in Reminders, NEW due, CreateReminder(r, due) \/ CancelReminder(r)
        PROVE  Quiet
    BY <2>3 DEF CreateReminder, CancelReminder, ReminderRequest, history, Quiet
  <2>4. 0 \in 0 .. Period - 1
    BY PeriodAssumption
  <2> QED
    BY <1>2, <2>1, <2>2, <2>3, <2>4 DEF Requests
<1>3. CASE Scans
  BY <1>3, ScanTaskShape, ScanReminderShape DEF Scans, Subjects
<1>4. CASE StartSteps
  BY <1>4, NoConversationShape, BookkeepingShape, StartLostShape DEF StartSteps
<1>5. ASSUME NEW s \in Subjects, BeginSteps(s) \/ EndSteps(s) \/ RunLost(s)
      PROVE  RunEnds(s) \/ Moves(s) \/ Loses(s)
  BY <1>5, TaskBeginShape, ReminderBeginShape, LandingShape, EndShape, RunLostShape DEF BeginSteps
<1>6. CASE Shutdown \/ Drained \/ Crash \/ Restart
  BY <1>6 DEF Drained, Crash
<1> QED
  BY <1>1, <1>2, <1>3, <1>4, <1>5, <1>6 DEF Next

-----------------------------------------------------------------------------
(* The conjuncts of the invariant.                                          *)

LEMMA DownStep ==
  ASSUME TypeOK, OwnerInv, [Next]_vars, DownInv
  PROVE  DownInv'
<1>1. ASSUME Quiet PROVE DownInv'
  BY <1>1, SubjectsAssumption DEF Quiet, memory, TypeOK, DownInv, OwnerInv
<1>2. ASSUME TaskStarted PROVE DownInv'
  BY <1>2, SubjectsAssumption DEF TaskStarted, EndStart, StartEnds, TypeOK, DownInv, OwnerInv
<1>3. ASSUME ReminderStarted PROVE DownInv'
  BY <1>3, SubjectsAssumption DEF ReminderStarted, EndStart, StartEnds, TypeOK, DownInv, OwnerInv
<1>4. ASSUME Shutdown PROVE DownInv'
  BY <1>4, SubjectsAssumption DEF Shutdown, Idle, rows, TypeOK, DownInv, OwnerInv
<1>5. ASSUME Gone PROVE DownInv'
  BY <1>5, SubjectsAssumption DEF Gone, rows, TypeOK, DownInv, OwnerInv
<1>6. ASSUME Restart PROVE DownInv'
  BY <1>6, SubjectsAssumption DEF Restart, TypeOK, DownInv, OwnerInv
<1>7. ASSUME NEW s \in Subjects, CancelRun(s) PROVE DownInv'
  BY <1>7, SubjectsAssumption DEF CancelRun, Request, Idle, rows, TypeOK, DownInv, OwnerInv
<1>8. ASSUME NEW s \in Subjects, Starts(s) PROVE DownInv'
  BY <1>8, SubjectsAssumption DEF Starts, Claimed, Idle, TypeOK, DownInv, OwnerInv
<1>9. ASSUME NEW s \in Subjects, Abandons(s) PROVE DownInv'
  BY <1>9, SubjectsAssumption DEF Abandons, Finished, TypeOK, DownInv, OwnerInv
<1>10. ASSUME NEW s \in Subjects, RunEnds(s) PROVE DownInv'
  BY <1>10, SubjectsAssumption DEF RunEnds, Finished, TypeOK, DownInv, OwnerInv
<1>11. ASSUME NEW s \in Subjects, Moves(s) PROVE DownInv'
  BY <1>11, SubjectsAssumption DEF Moves, TypeOK, DownInv, OwnerInv
<1>12. ASSUME NEW s \in Subjects, Loses(s) PROVE DownInv'
  BY <1>12, SubjectsAssumption DEF Loses, Subjects, TypeOK, DownInv, OwnerInv
<1> QED
  BY StepShapes, <1>1, <1>2, <1>3, <1>4, <1>5, <1>6, <1>7, <1>8, <1>9, <1>10, <1>11, <1>12

LEMMA OwnerStep ==
  ASSUME TypeOK, OwnerInv, [Next]_vars, DownInv
  PROVE  OwnerInv'
<1>1. ASSUME Quiet PROVE OwnerInv'
  BY <1>1, SubjectsAssumption DEF Quiet, memory, TypeOK, DownInv, OwnerInv, Subjects
<1>2. ASSUME TaskStarted PROVE OwnerInv'
  BY <1>2, SubjectsAssumption DEF TaskStarted, EndStart, StartEnds, TypeOK, DownInv, OwnerInv, Subjects
<1>3. ASSUME ReminderStarted PROVE OwnerInv'
  BY <1>3, SubjectsAssumption DEF ReminderStarted, EndStart, StartEnds, TypeOK, DownInv, OwnerInv, Subjects
<1>4. ASSUME Shutdown PROVE OwnerInv'
  BY <1>4, SubjectsAssumption DEF history, Shutdown, Idle, rows, TypeOK, DownInv, OwnerInv, Subjects
<1>5. ASSUME Gone PROVE OwnerInv'
  BY <1>5, SubjectsAssumption DEF history, Gone, rows, TypeOK, DownInv, OwnerInv, Subjects
<1>6. ASSUME Restart PROVE OwnerInv'
  BY <1>6, SubjectsAssumption DEF Restart, TypeOK, DownInv, OwnerInv, Subjects
<1>7. ASSUME NEW s \in Subjects, CancelRun(s) PROVE OwnerInv'
  BY <1>7, SubjectsAssumption DEF history, CancelRun, Request, Idle, rows, TypeOK, DownInv, OwnerInv, Subjects
<1>8. ASSUME NEW s \in Subjects, Starts(s) PROVE OwnerInv'
  BY <1>8, SubjectsAssumption DEF Starts, Claimed, Idle, TypeOK, DownInv, OwnerInv, Subjects
<1>9. ASSUME NEW s \in Subjects, Abandons(s) PROVE OwnerInv'
  BY <1>9, SubjectsAssumption DEF Abandons, Finished, TypeOK, DownInv, OwnerInv, Subjects
<1>10. ASSUME NEW s \in Subjects, RunEnds(s) PROVE OwnerInv'
  BY <1>10, SubjectsAssumption DEF RunEnds, Finished, TypeOK, DownInv, OwnerInv, Subjects
<1>11. ASSUME NEW s \in Subjects, Moves(s) PROVE OwnerInv'
  BY <1>11, SubjectsAssumption DEF Moves, TypeOK, DownInv, OwnerInv, Subjects
<1>12. ASSUME NEW s \in Subjects, Loses(s) PROVE OwnerInv'
  BY <1>12, SubjectsAssumption DEF Loses, TypeOK, DownInv, OwnerInv, Subjects
<1> QED
  BY StepShapes, <1>1, <1>2, <1>3, <1>4, <1>5, <1>6, <1>7, <1>8, <1>9, <1>10, <1>11, <1>12

LEMMA TaskRowsStep ==
  ASSUME TypeOK, OwnerInv, [Next]_vars, DownInv, TaskRowsAreOwned
  PROVE  TaskRowsAreOwned'
<1>1. ASSUME Quiet PROVE TaskRowsAreOwned'
  BY <1>1, SubjectsAssumption DEF Quiet, memory, TypeOK, DownInv, OwnerInv, TaskRowsAreOwned, Subjects
<1>2. ASSUME TaskStarted PROVE TaskRowsAreOwned'
  BY <1>2, SubjectsAssumption DEF TaskStarted, EndStart, StartEnds, TypeOK, DownInv, OwnerInv, TaskRowsAreOwned, Subjects
<1>3. ASSUME ReminderStarted PROVE TaskRowsAreOwned'
  BY <1>3, SubjectsAssumption DEF ReminderStarted, EndStart, StartEnds, TypeOK, DownInv, OwnerInv, TaskRowsAreOwned, Subjects
<1>4. ASSUME Shutdown PROVE TaskRowsAreOwned'
  BY <1>4, SubjectsAssumption DEF history, Shutdown, Idle, rows, TypeOK, DownInv, OwnerInv, TaskRowsAreOwned, Subjects
<1>5. ASSUME Gone PROVE TaskRowsAreOwned'
  BY <1>5, SubjectsAssumption DEF history, Gone, rows, TypeOK, DownInv, OwnerInv, TaskRowsAreOwned, Subjects
<1>6. ASSUME Restart PROVE TaskRowsAreOwned'
  BY <1>6, SubjectsAssumption DEF Restart, TypeOK, DownInv, OwnerInv, TaskRowsAreOwned, Subjects
<1>7. ASSUME NEW s \in Subjects, CancelRun(s) PROVE TaskRowsAreOwned'
  BY <1>7, SubjectsAssumption DEF history, CancelRun, Request, Idle, rows, TypeOK, DownInv, OwnerInv, TaskRowsAreOwned, Subjects
<1>8. ASSUME NEW s \in Subjects, Starts(s) PROVE TaskRowsAreOwned'
  BY <1>8, SubjectsAssumption DEF Starts, Claimed, Idle, TypeOK, DownInv, OwnerInv, TaskRowsAreOwned, Subjects
<1>9. ASSUME NEW s \in Subjects, Abandons(s) PROVE TaskRowsAreOwned'
  <2>1. starting = s /\ starting' = NoSubject /\ s # NoSubject /\ UNCHANGED <<coro, raised, process>>
    BY <1>9, SubjectsAssumption DEF Abandons, Subjects
  <2>2. s \notin raised /\ coro[s] = "none"
    BY <2>1 DEF OwnerInv
  <2>3. /\ running'[s] = NoRun /\ token'[s] = "none"
        /\ \A u \in Subjects \ {s} : running'[u] = running[u] /\ token'[u] = token[u]
    BY <1>9 DEF Abandons, Finished
  <2>4. ASSUME NEW u \in Subjects, process' # "down"
        PROVE  running'[u] # NoRun <=> coro'[u] # "none" \/ starting' = u \/ u \in raised'
    <3>1. CASE u = s
      BY <2>1, <2>2, <2>3, <3>1
    <3>2. CASE u # s
      <4>1. starting # u /\ starting' # u
        BY <2>1, <2>4, <3>2, SubjectsAssumption DEF Subjects
      <4>2. running[u] # NoRun <=> coro[u] # "none" \/ u \in raised
        BY <2>1, <2>4, <4>1 DEF TaskRowsAreOwned
      <4> QED
        BY <2>1, <2>3, <3>2, <4>1, <4>2
    <3> QED
      BY <3>1, <3>2
  <2>5. ASSUME NEW u \in raised' PROVE coro'[u] = "none" /\ starting' # u
    BY <2>1, SubjectsAssumption DEF TaskRowsAreOwned, TypeOK, Subjects
  <2>6. ASSUME NEW t \in Tasks
        PROVE  token'[t] # "none" <=> coro'[t] # "none" \/ starting' = t
    <3>1. t \in Subjects /\ starting' # t
      BY <2>1, SubjectsAssumption DEF Subjects
    <3>2. CASE t = s
      BY <2>1, <2>2, <2>3, <3>1, <3>2
    <3>3. CASE t # s
      BY <2>1, <2>3, <3>1, <3>3 DEF TaskRowsAreOwned
    <3> QED
      BY <3>2, <3>3
  <2> QED
    BY <2>4, <2>5, <2>6 DEF TaskRowsAreOwned
<1>10. ASSUME NEW s \in Subjects, RunEnds(s) PROVE TaskRowsAreOwned'
  BY <1>10, SubjectsAssumption DEF RunEnds, Finished, TypeOK, DownInv, OwnerInv, TaskRowsAreOwned, Subjects
<1>11. ASSUME NEW s \in Subjects, Moves(s) PROVE TaskRowsAreOwned'
  BY <1>11, SubjectsAssumption DEF Moves, TypeOK, DownInv, OwnerInv, TaskRowsAreOwned, Subjects
<1>12. ASSUME NEW s \in Subjects, Loses(s) PROVE TaskRowsAreOwned'
  BY <1>12, SubjectsAssumption DEF Loses, Subjects, TypeOK, DownInv, OwnerInv, TaskRowsAreOwned, Subjects
<1> QED
  BY StepShapes, <1>1, <1>2, <1>3, <1>4, <1>5, <1>6, <1>7, <1>8, <1>9, <1>10, <1>11, <1>12

LEMMA TaskUpdate ==
  ASSUME TypeOK, NEW t \in Tasks, NEW status \in {"active", "paused", "cancelled"},
         NEW phase \in 0 .. Period - 1, NEW anchor \in Nat, NEW changed,
         changed = [task EXCEPT ![t] = [status |-> status, phase |-> phase, anchor |-> anchor]]
  PROVE  changed \in [Tasks -> TaskRows]
  BY DEF TypeOK, TaskRows

\* The rows of tasks and reminders keep their types.
LEMMA TaskTypeStep ==
  ASSUME TypeOK, [Next]_vars
  PROVE  task' \in [Tasks -> TaskRows]
<1>1. ASSUME NEW t \in Tasks
      PROVE  /\ task[t] \in TaskRows
             /\ task[t].phase \in 0 .. Period - 1 /\ task[t].anchor \in Nat
             /\ task[t] = [status |-> task[t].status, phase |-> task[t].phase,
                          anchor |-> task[t].anchor]
  BY <1>1 DEF TypeOK, TaskRows
<1>2. CASE UNCHANGED task
  BY <1>2 DEF TypeOK
<1>3. ASSUME NEW t \in Tasks, NEW phase \in 0 .. Period - 1, CreateTask(t, phase)
      PROVE  task' \in [Tasks -> TaskRows]
  BY <1>3, TaskUpdate DEF CreateTask, TypeOK
<1>4. ASSUME NEW t \in Tasks, NEW phase \in 0 .. Period - 1, EditSchedule(t, phase)
      PROVE  task' \in [Tasks -> TaskRows]
  <2>1. [task[t] EXCEPT !.phase = phase, !.anchor = now] \in TaskRows
    BY <1>1 DEF TypeOK, TaskRows
  <2> QED
    BY <1>4, <2>1 DEF EditSchedule, TypeOK
<1>5. ASSUME NEW t \in Tasks, Pause(t) \/ CancelTask(t)
      PROVE  task' \in [Tasks -> TaskRows]
  <2>1. PICK status \in {"paused", "cancelled"} :
           task' = [task EXCEPT ![t] = [status |-> status, phase |-> task[t].phase,
                                        anchor |-> task[t].anchor]]
    BY <1>1, <1>5 DEF Pause, CancelTask, TypeOK, TaskRows
  <2> QED
    BY <1>1, <2>1, TaskUpdate
<1>6. ASSUME NEW t \in Tasks, Resume(t)
      PROVE  task' \in [Tasks -> TaskRows]
  <2>1. [task[t] EXCEPT !.status = "active", !.anchor = now] \in TaskRows
    BY <1>1 DEF TypeOK, TaskRows
  <2> QED
    BY <1>6, <2>1 DEF Resume, TypeOK
<1>7. CASE Requests
  <2>1. ASSUME NEW r \in Reminders, NEW due, CreateReminder(r, due) \/ CancelReminder(r)
        PROVE  UNCHANGED task
    BY <2>1 DEF CreateReminder, CancelReminder, ReminderRequest
  <2>2. ASSUME NEW t \in Tasks, RunTask(t) PROVE UNCHANGED task
    BY <2>2 DEF RunTask, Claim
  <2>3. ASSUME NEW s \in Subjects, CancelRun(s) PROVE UNCHANGED task
    BY <2>3 DEF CancelRun, rows
  <2> QED
    BY <1>2, <1>3, <1>4, <1>5, <1>6, <1>7, <2>1, <2>2, <2>3 DEF Requests
<1>8. CASE Scans \/ StartSteps
  BY <1>2, <1>8 DEF Scans, ScanTask, ScanReminder, Claim, StartSteps, TaskStarted,
     ReminderStarted, BookkeepingRaises, StartLost, Lost, NoConversation, EndStart, StartEnds
<1>9. ASSUME NEW s \in Subjects, BeginSteps(s) \/ EndSteps(s) \/ RunLost(s) PROVE UNCHANGED task
  BY <1>9 DEF RunLost, BeginSteps, EndSteps, NotActiveAnymore, TaskTurnBegins, TaskTurnRefused, Admitted,
     ReminderTurnBegins, ReminderTurnRefused, ReminderLandingGone, TurnCompletes, TurnFails,
     TurnCancelled, Reviewed, Step, At
<1>10. CASE Tick \/ Shutdown \/ Drained \/ Crash \/ Restart \/ UNCHANGED vars
  BY <1>2, <1>10 DEF Tick, Shutdown, Drained, Crash, Gone, Restart, vars, rows
<1> QED
  BY <1>2, <1>7, <1>8, <1>9, <1>10 DEF Next

LEMMA ReminderUpdate ==
  ASSUME TypeOK, NEW r \in Reminders, NEW status \in {"pending", "fired", "cancelled"}
  PROVE  /\ [reminder EXCEPT ![r].status = status] \in [Reminders -> ReminderRows]
         /\ \A due \in Nat : [reminder EXCEPT ![r] = [status |-> status, due |-> due]]
                           \in [Reminders -> ReminderRows]
  BY DEF TypeOK, ReminderRows

LEMMA ReminderTypeStep ==
  ASSUME TypeOK, [Next]_vars
  PROVE  reminder' \in [Reminders -> ReminderRows]
<1>1. CASE UNCHANGED reminder
  BY <1>1 DEF TypeOK
<1>2. CASE \E r \in Reminders : Fire(r)
  BY <1>2, ReminderUpdate DEF Fire
<1>3. CASE Requests
  <2>1. ASSUME NEW r \in Reminders, NEW due \in 0 .. Horizon, CreateReminder(r, due)
        PROVE  reminder' \in [Reminders -> ReminderRows]
    <3>1. due \in Nat /\ reminder' = [reminder EXCEPT ![r] = [status |-> "pending", due |-> due]]
      BY <2>1, HorizonAssumption DEF CreateReminder
    <3> QED
      BY <3>1, ReminderUpdate
  <2>2. ASSUME NEW r \in Reminders, CancelReminder(r)
        PROVE  reminder' \in [Reminders -> ReminderRows]
    BY <2>2, ReminderUpdate DEF CancelReminder
  <2>3. ASSUME NEW t \in Tasks, NEW phase \in 0 .. Period - 1,
               \/ CreateTask(t, phase) \/ EditSchedule(t, phase)
               \/ Pause(t) \/ Resume(t) \/ CancelTask(t) \/ RunTask(t)
        PROVE  UNCHANGED reminder
    BY <2>3 DEF CreateTask, EditSchedule, Pause, Resume, CancelTask, TaskRequest, RunTask, Claim
  <2>4. ASSUME NEW s \in Subjects, CancelRun(s) PROVE UNCHANGED reminder
    BY <2>4 DEF CancelRun, rows
  <2>5. 0 \in 0 .. Period - 1
    BY PeriodAssumption
  <2> QED
    BY <1>1, <1>3, <2>1, <2>2, <2>3, <2>4, <2>5 DEF Requests
<1>4. CASE Scans \/ StartSteps
  BY <1>1, <1>2, <1>4 DEF Scans, ScanTask, ScanReminder, Claim, StartSteps, TaskStarted,
     ReminderStarted, BookkeepingRaises, StartLost, Lost, NoConversation
<1>5. ASSUME NEW s \in Subjects, BeginSteps(s) \/ EndSteps(s) \/ RunLost(s) PROVE UNCHANGED reminder
  BY <1>5 DEF RunLost, BeginSteps, EndSteps, NotActiveAnymore, TaskTurnBegins, TaskTurnRefused, Admitted,
     ReminderTurnBegins, ReminderTurnRefused, ReminderLandingGone, TurnCompletes, TurnFails,
     TurnCancelled, Reviewed, Step, At
<1>6. CASE Tick \/ Shutdown \/ Drained \/ Crash \/ Restart \/ UNCHANGED vars
  BY <1>1, <1>6 DEF Tick, Shutdown, Drained, Crash, Gone, Restart, vars, rows
<1> QED
  BY <1>1, <1>3, <1>4, <1>5, <1>6 DEF Next

LEMMA TypeStep ==
  ASSUME TypeOK, DownInv, OwnerInv, [Next]_vars
  PROVE  TypeOK'
<1>1. task' \in [Tasks -> TaskRows] /\ reminder' \in [Reminders -> ReminderRows]
  BY TaskTypeStep, ReminderTypeStep
<1> DEFINE MemoryTyped ==
      /\ running \in [Subjects -> RunningRows \cup {NoRun}]
      /\ last \in [Subjects -> FinishedRows \cup {NoRun}]
      /\ coro \in [Subjects -> {"none", "queued", "turn", "review"}]
      /\ queue \in Seq(Tasks)
      /\ token \in [Subjects -> {"none", "live", "cancelled"}]
      /\ starting \in Subjects \cup {NoSubject}
      /\ process \in {"up", "draining", "down"}
      /\ raised \in SUBSET Subjects
<1>2. MemoryTyped'
  <2>1. ASSUME Quiet PROVE MemoryTyped'
    BY <2>1 DEF Quiet, memory, TypeOK, Subjects
  <2>2. ASSUME TaskStarted PROVE MemoryTyped'
    BY <2>2 DEF TaskStarted, EndStart, StartEnds, TypeOK, Subjects
  <2>3. ASSUME ReminderStarted PROVE MemoryTyped'
    BY <2>3 DEF ReminderStarted, EndStart, StartEnds, TypeOK, Subjects
  <2>4. ASSUME Shutdown PROVE MemoryTyped'
    BY <2>4 DEF history, Shutdown, Idle, rows, TypeOK, Subjects
  <2>5. ASSUME Gone PROVE MemoryTyped'
    BY <2>5 DEF history, Gone, rows, TypeOK, Subjects
  <2>6. ASSUME Restart PROVE MemoryTyped'
    <3> DEFINE rowOf(s) == [attempt |-> running[s].attempt, started |-> running[s].started,
                            finished |-> now, status |-> "failed", retryable |-> TRUE]
    <3>1. ASSUME NEW s \in Subjects, running[s] # NoRun PROVE rowOf(s) \in FinishedRows
      BY <3>1 DEF TypeOK, RunningRows, FinishedRows
    <3> HIDE DEF rowOf
    <3>2. last' = [s \in Subjects |->
                     IF running[s] = NoRun \/ running[s].trigger = "manual" THEN last[s] ELSE rowOf(s)]
      BY <2>6 DEF Restart, rowOf
    <3>3. last' \in [Subjects -> FinishedRows \cup {NoRun}]
      <4>1. \A s \in Subjects : last[s] \in FinishedRows \cup {NoRun}
        BY DEF TypeOK
      <4> QED
        BY <3>1, <3>2, <4>1
    <3> QED
      BY <2>6, <3>3 DEF Restart, TypeOK
  <2>7. ASSUME NEW s \in Subjects, CancelRun(s) PROVE MemoryTyped'
    BY <2>7 DEF history, CancelRun, Request, Idle, rows, TypeOK, Subjects
  <2>8. ASSUME NEW s \in Subjects, Starts(s) PROVE MemoryTyped'
    BY <2>8 DEF Starts, Claimed, TypeOK
  <2>9. ASSUME NEW s \in Subjects, Abandons(s) PROVE MemoryTyped'
    BY <2>9 DEF Abandons, Finished, TypeOK, Subjects, LastTyped
  <2>10. ASSUME NEW s \in Subjects, RunEnds(s) PROVE MemoryTyped'
    BY <2>10 DEF RunEnds, Finished, TypeOK, Subjects, LastTyped
  <2>11. ASSUME NEW s \in Subjects, Moves(s) PROVE MemoryTyped'
    BY <2>11 DEF Moves, TypeOK, Subjects
  <2>12. ASSUME NEW s \in Subjects, Loses(s) PROVE MemoryTyped'
    BY <2>12 DEF Loses, TypeOK, Subjects
  <2> QED
    BY StepShapes, <2>1, <2>2, <2>3, <2>4, <2>5, <2>6, <2>7, <2>8, <2>9, <2>10, <2>11, <2>12
<1> DEFINE Counters ==
      /\ now \in Nat /\ requests \in Nat /\ stops \in Nat /\ faults \in Nat
      /\ starts \in [Tasks -> Nat] /\ executed \in [Reminders -> Nat]
<1>3. Counters'
  <2>1. CASE Tick
    BY <2>1 DEF Tick, bounds, TypeOK
  <2>2. CASE Requests
    <3>1. ASSUME NEW t \in Tasks, NEW phase, CreateTask(t, phase) \/ EditSchedule(t, phase)
                   \/ Pause(t) \/ Resume(t) \/ CancelTask(t)
          PROVE  Counters'
      BY <3>1 DEF CreateTask, EditSchedule, Pause, Resume, CancelTask, TaskRequest, Request, TypeOK
    <3>2. ASSUME NEW t \in Tasks, RunTask(t) PROVE Counters'
      BY <3>2 DEF RunTask, Claim, Request, TypeOK
    <3>3. ASSUME NEW r \in Reminders, NEW due, CreateReminder(r, due) \/ CancelReminder(r)
          PROVE  Counters'
      BY <3>3 DEF CreateReminder, CancelReminder, ReminderRequest, Request, history, TypeOK
    <3>4. ASSUME NEW s \in Subjects, CancelRun(s) PROVE Counters'
      BY <3>4 DEF CancelRun, Request, history, TypeOK
    <3> QED
      BY <2>2, <3>1, <3>2, <3>3, <3>4 DEF Requests
  <2>3. CASE Scans
    <3>1. ASSUME NEW t \in Tasks, ScanTask(t) PROVE Counters'
      BY <3>1 DEF ScanTask, Claim, TypeOK
    <3>2. ASSUME NEW r \in Reminders, ScanReminder(r) PROVE Counters'
      BY <3>2 DEF ScanReminder, Claim, TypeOK
    <3> QED
      BY <2>3, <3>1, <3>2 DEF Scans
  <2>4. CASE StartSteps
    BY <2>4 DEF StartSteps, TaskStarted, ReminderStarted, BookkeepingRaises, StartLost, Lost, NoConversation, EndStart, StartEnds, history, TypeOK
  <2>5. ASSUME NEW s \in Subjects, BeginSteps(s) PROVE Counters'
    <3>1. UNCHANGED <<now, requests, stops, faults, starts>>
      BY <2>5 DEF BeginSteps, NotActiveAnymore, TaskTurnBegins, TaskTurnRefused, Admitted,
         ReminderTurnBegins, ReminderTurnRefused, ReminderLandingGone, Step, At, bounds
    <3>2. UNCHANGED executed \/ (s \in Reminders /\ executed' = [executed EXCEPT ![s] = @ + 1])
      BY <2>5 DEF BeginSteps, NotActiveAnymore, TaskTurnBegins, TaskTurnRefused, Admitted,
         ReminderTurnBegins, ReminderTurnRefused, ReminderLandingGone
    <3>3. CASE UNCHANGED executed
      BY <3>1, <3>3 DEF TypeOK
    <3>4. ASSUME s \in Reminders, executed' = [executed EXCEPT ![s] = @ + 1] PROVE Counters'
      <4>1. executed \in [Reminders -> Nat] /\ executed[s] + 1 \in Nat
        BY <3>4 DEF TypeOK
      <4>2. executed' \in [Reminders -> Nat]
        BY <3>4, <4>1
      <4> QED
        BY <3>1, <4>2 DEF TypeOK
    <3> QED
      BY <3>2, <3>3, <3>4
  <2>6. ASSUME NEW s \in Subjects, EndSteps(s) PROVE Counters'
    BY <2>6 DEF EndSteps, TurnCompletes, TurnFails, TurnCancelled, Reviewed, Step, bounds, TypeOK
  <2>8. ASSUME NEW s \in Subjects, RunLost(s) PROVE Counters'
    BY <2>8 DEF RunLost, Lost, TypeOK
  <2>7. CASE Shutdown \/ Drained \/ Crash \/ Restart \/ UNCHANGED vars
    BY <2>7 DEF Shutdown, Drained, Crash, Gone, Restart, vars, bounds, history, TypeOK
  <2> QED
    BY <2>1, <2>2, <2>3, <2>4, <2>5, <2>6, <2>7, <2>8 DEF Next
<1> QED
  BY <1>1, <1>2, <1>3 DEF TypeOK

LEMMA FiredStep ==
  ASSUME TypeOK, OwnerInv, FiredInv, [Next]_vars
  PROVE  FiredInv'
<1> USE SubjectsAssumption DEF Subjects
<1>1. CASE Tick
  BY <1>1 DEF Tick, rows, memory, TypeOK, FiredInv
<1>2. ASSUME NEW t \in Tasks, NEW phase, CreateTask(t, phase) \/ EditSchedule(t, phase)
                \/ Pause(t) \/ Resume(t) \/ CancelTask(t)
      PROVE  FiredInv'
  BY <1>2 DEF CreateTask, EditSchedule, Pause, Resume, CancelTask, TaskRequest, memory, TypeOK, FiredInv
<1>3. ASSUME NEW r \in Reminders, NEW due, CreateReminder(r, due)
      PROVE  FiredInv'
  BY <1>3 DEF CreateReminder, ReminderRequest, Request, Idle, memory, history, ReminderRows, TypeOK, FiredInv
<1>4. ASSUME NEW r \in Reminders, CancelReminder(r)
      PROVE  FiredInv'
  BY <1>4 DEF CancelReminder, ReminderRequest, Request, Idle, memory, history, ReminderRows, TypeOK, FiredInv
<1>5. ASSUME NEW s \in Subjects, CancelRun(s)
      PROVE  FiredInv'
  BY <1>5 DEF CancelRun, rows, history, TypeOK, FiredInv
<1>6. ASSUME NEW t \in Tasks, ScanTask(t) \/ RunTask(t)
      PROVE  FiredInv'
  BY <1>6 DEF ScanTask, RunTask, Claim, TypeOK, FiredInv
<1>7. ASSUME NEW r \in Reminders, ScanReminder(r)
      PROVE  FiredInv'
  BY <1>7 DEF ScanReminder, Claim, Idle, TypeOK, FiredInv
<1>8. CASE TaskStarted
  BY <1>8 DEF TaskStarted, EndStart, StartEnds, history, TypeOK, FiredInv
<1>9. CASE ReminderStarted
  BY <1>9 DEF ReminderStarted, EndStart, StartEnds, Fire, history, ReminderRows, TypeOK, FiredInv
<1>10. ASSUME NEW sourceGone \in BOOLEAN, NoConversation(sourceGone)
      PROVE  FiredInv'
  BY <1>10 DEF NoConversation, EndStart, StartEnds, Fire, history, ReminderRows, TypeOK, FiredInv
<1>11. CASE BookkeepingRaises
  BY <1>11 DEF BookkeepingRaises, EndStart, StartEnds, history, TypeOK, FiredInv
<1>12. ASSUME NEW t \in Tasks, NotActiveAnymore(t) \/ TaskTurnBegins(t)
                \/ (\E gone \in BOOLEAN : TaskTurnRefused(t, gone))
      PROVE  FiredInv'
  <2>1. RunEnds(t) \/ Moves(t)
    BY <1>12, TaskBeginShape
  <2>2. coro'[t] # coro[t] => t \in Tasks
    OBVIOUS
  <2>3. /\ coro' = [coro EXCEPT ![t] = coro'[t]] /\ UNCHANGED <<reminder, starting, executed>>
    BY <1>12, <2>1, TaskBeginShape DEF RunEnds, Moves, TypeOK
  <2> QED
    BY <2>3 DEF TypeOK, FiredInv
<1>13. ASSUME NEW r \in Reminders, ReminderTurnBegins(r)
      PROVE  FiredInv'
  <2>1. /\ coro[r] = "queued" /\ coro'[r] # "queued" /\ UNCHANGED <<reminder, starting>>
        /\ coro' = [coro EXCEPT ![r] = coro'[r]]
        /\ executed' = executed \/ executed' = [executed EXCEPT ![r] = @ + 1]
    BY <1>13 DEF ReminderTurnBegins, Step, At, Ends, TypeOK
  <2> QED
    BY <2>1 DEF TypeOK, FiredInv
<1>14. ASSUME NEW r \in Reminders, ReminderTurnRefused(r)
      PROVE  FiredInv'
  BY <1>14 DEF ReminderTurnRefused, Step, At, Ends, TypeOK, FiredInv
<1>15. ASSUME NEW r \in Reminders, ReminderLandingGone(r)
      PROVE  FiredInv'
  BY <1>15 DEF ReminderLandingGone, At, TypeOK, FiredInv
<1>16. CASE StartLost
  BY <1>16 DEF StartLost, StartEnds, Fire, ReminderRows, TypeOK, FiredInv
<1>17. ASSUME NEW s \in Subjects, RunLost(s)
      PROVE  FiredInv'
  BY <1>17 DEF RunLost, At, TypeOK, FiredInv
<1>18. ASSUME NEW s \in Subjects, EndSteps(s)
      PROVE  FiredInv'
  <2>1. /\ coro' = [coro EXCEPT ![s] = coro'[s]] /\ coro'[s] # "queued" /\ coro[s] # "none"
        /\ UNCHANGED <<reminder, starting, executed>>
    BY <1>18, EndShape DEF RunEnds, Moves, TypeOK
  <2> QED
    BY <2>1 DEF TypeOK, FiredInv
<1>19. CASE Shutdown \/ Restart \/ UNCHANGED vars
  BY <1>19 DEF Shutdown, Restart, vars, rows, memory, history, TypeOK, FiredInv
<1>20. CASE Drained \/ Crash
  BY <1>20 DEF Drained, Crash, Gone, rows, history, TypeOK, FiredInv
<1> QED
  BY <1>1, <1>2, <1>3, <1>4, <1>5, <1>6, <1>7, <1>8, <1>9, <1>10, <1>11, <1>12, <1>13, <1>14, <1>15, <1>16, <1>17, <1>18, <1>19, <1>20
  DEF Next, Requests, Scans, StartSteps, BeginSteps

\* Only the turn of a reminder counts an execution.
LEMMA OnceStep ==
  ASSUME TypeOK, OwnerInv, FiredInv, ReminderExecutedOnce, [Next]_vars
  PROVE  ReminderExecutedOnce'
<1>1. UNCHANGED executed
      \/ \E r \in Reminders : coro[r] = "queued" /\ executed' = [executed EXCEPT ![r] = @ + 1]
  <2>1. CASE Tick \/ Shutdown \/ Drained \/ Crash \/ Restart \/ UNCHANGED vars
    BY <2>1 DEF Tick, Shutdown, Drained, Crash, Gone, Restart, vars, history
  <2>2. CASE Requests
    <3>1. ASSUME NEW t \in Tasks, NEW phase, CreateTask(t, phase) \/ EditSchedule(t, phase)
                   \/ Pause(t) \/ Resume(t) \/ CancelTask(t) \/ RunTask(t)
          PROVE  UNCHANGED executed
      BY <3>1 DEF CreateTask, EditSchedule, Pause, Resume, CancelTask, TaskRequest, RunTask, Claim
    <3>2. ASSUME NEW r \in Reminders, NEW due, CreateReminder(r, due) \/ CancelReminder(r)
          PROVE  UNCHANGED executed
      BY <3>2 DEF CreateReminder, CancelReminder, ReminderRequest, history
    <3>3. ASSUME NEW s \in Subjects, CancelRun(s) PROVE UNCHANGED executed
      BY <3>3 DEF CancelRun, history
    <3> QED
      BY <2>2, <3>1, <3>2, <3>3 DEF Requests
  <2>3. CASE Scans \/ StartSteps
    BY <2>3 DEF Scans, ScanTask, ScanReminder, Claim, StartSteps, TaskStarted, ReminderStarted,
       BookkeepingRaises, StartLost, NoConversation, EndStart, StartEnds
  <2>4. ASSUME NEW s \in Subjects, EndSteps(s) \/ RunLost(s) PROVE UNCHANGED executed
    BY <2>4, EndShape DEF RunLost
  <2>5. ASSUME NEW s \in Subjects, BeginSteps(s)
        PROVE  UNCHANGED executed
               \/ (s \in Reminders /\ coro[s] = "queued" /\ executed' = [executed EXCEPT ![s] = @ + 1])
    BY <2>5 DEF BeginSteps, NotActiveAnymore, TaskTurnBegins, TaskTurnRefused, Admitted,
       ReminderTurnBegins, ReminderTurnRefused, ReminderLandingGone, Step, At
  <2> QED
    BY <2>1, <2>2, <2>3, <2>4, <2>5 DEF Next
<1>2. CASE UNCHANGED executed
  BY <1>2 DEF ReminderExecutedOnce
<1>3. ASSUME NEW r \in Reminders, coro[r] = "queued", executed' = [executed EXCEPT ![r] = @ + 1]
      PROVE  ReminderExecutedOnce'
  <2>1. executed[r] = 0
    BY <1>3 DEF FiredInv
  <2> QED
    BY <1>3, <2>1 DEF TypeOK, ReminderExecutedOnce
<1> QED
  BY <1>1, <1>2, <1>3

-----------------------------------------------------------------------------
(* Bursts: the chain of attempts since the last occurrence.                 *)

\* What the scheduler reads of the latest scheduled row does not change.
SameChain(t) ==
    /\ AttemptOf(LatestScheduled(t)') = AttemptOf(LatestScheduled(t))
    /\ LatestScheduled(t) = NoRun <=> LatestScheduled(t)' = NoRun
    /\ LatestScheduled(t) # NoRun => LatestScheduled(t)'.started = LatestScheduled(t).started

Burst(t) ==
    /\ starts[t] <= AttemptOf(LatestScheduled(t))
    /\ IsDue(t) => starts[t] = 0

SameSchedule(t) == task'[t].phase = task[t].phase /\ task'[t].anchor = task[t].anchor

LEMMA LatestFacts ==
  ASSUME TypeOK, NEW t \in Tasks
  PROVE  /\ AttemptOf(LatestScheduled(t)) \in 0 .. MaxAttempts
         /\ LatestScheduled(t) # NoRun => LatestScheduled(t).started \in Nat
         /\ task[t].anchor \in Nat /\ Anchor(t) \in Nat /\ Anchor(t) >= task[t].anchor
         /\ now \in Nat /\ starts[t] \in Nat
<1>1. t \in Subjects
  BY DEF Subjects
<1>2. running[t] # NoRun => running[t] \in RunningRows
  BY <1>1 DEF TypeOK
<1>3. last[t] # NoRun => last[t] \in FinishedRows
  BY <1>1 DEF TypeOK
<1>4. LatestScheduled(t) = NoRun \/ LatestScheduled(t) \in RunningRows
      \/ LatestScheduled(t) \in FinishedRows
  BY <1>2, <1>3 DEF LatestScheduled
<1>5. LatestScheduled(t) # NoRun =>
        LatestScheduled(t).started \in Nat /\ LatestScheduled(t).attempt \in 1 .. MaxAttempts
  BY <1>4 DEF RunningRows, FinishedRows
<1>6. AttemptOf(LatestScheduled(t)) \in 0 .. MaxAttempts
  BY <1>5, MaxAttemptsAssumption DEF AttemptOf
<1>7. task[t].anchor \in Nat
  BY DEF TypeOK, TaskRows
<1> QED
  BY <1>5, <1>6, <1>7 DEF TypeOK, Anchor, Later

LEMMA BurstKept ==
  ASSUME TypeOK, BurstInv, NEW t \in Tasks, UNCHANGED now, SameSchedule(t), SameChain(t),
         starts'[t] = starts[t]
  PROVE  Burst(t)'
<1>1. Anchor(t)' = Anchor(t)
  BY DEF Anchor, SameSchedule, SameChain
<1>2. IsDue(t)' <=> IsDue(t)
  BY <1>1 DEF IsDue, SameSchedule, Occurs
<1> QED
  BY <1>2 DEF BurstInv, Burst, SameChain

\* A schedule whose anchor is now has nothing due.
LEMMA NothingDue ==
  ASSUME NEW t \in Tasks, Anchor(t)' \in Nat, now' \in Nat, Anchor(t)' >= now'
  PROVE  ~IsDue(t)'
  BY DEF IsDue

\* The rows stay, or a start or a coroutine ends, or the process starts again.
LEMMA ChainStep ==
  ASSUME TypeOK, OwnerInv, [Next]_vars, starting' = starting \/ starting' = NoSubject,
         NEW t \in Tasks
  PROVE  SameChain(t)
<1> USE SubjectsAssumption DEF Subjects
<1>1. ASSUME UNCHANGED <<running, last>> PROVE SameChain(t)
  BY <1>1 DEF SameChain, LatestScheduled
<1>2. ASSUME NEW s \in Subjects, Finished(s) PROVE SameChain(t)
  <2>1. CASE s = t
    BY <1>2, <2>1 DEF Finished, SameChain
  <2>2. CASE s # t
    <3>1. running'[t] = running[t] /\ last'[t] = last[t]
      BY <1>2, <2>2 DEF Finished
    <3> QED
      BY <3>1 DEF SameChain, LatestScheduled
  <2> QED
    BY <2>1, <2>2
<1>3. ASSUME Restart PROVE SameChain(t)
  <2>1. CASE running[t] = NoRun \/ running[t].trigger = "manual"
    <3>1. running'[t] = NoRun /\ last'[t] = last[t]
      BY <1>3, <2>1 DEF Restart
    <3> QED
      BY <2>1, <3>1 DEF SameChain, LatestScheduled
  <2>2. CASE running[t] # NoRun /\ running[t].trigger # "manual"
    <3>1. running[t].trigger = "scheduled"
      BY <2>2 DEF TypeOK, RunningRows
    <3>2. LatestScheduled(t) = running[t]
      BY <2>2, <3>1 DEF LatestScheduled
    <3> DEFINE row == [attempt |-> running[t].attempt, started |-> running[t].started,
                       finished |-> now, status |-> "failed", retryable |-> TRUE]
    <3>3. running'[t] = NoRun /\ last'[t] = row
      BY <1>3, <2>2 DEF Restart
    <3>4. row \in FinishedRows /\ row # NoRun /\ row.attempt = running[t].attempt
          /\ row.started = running[t].started
      <4>1. running[t] \in RunningRows /\ now \in Nat
        BY <2>2 DEF TypeOK
      <4>2. running[t].attempt \in 1 .. MaxAttempts /\ running[t].started \in Nat
        BY <4>1 DEF RunningRows
      <4>3. row \in FinishedRows
        BY <4>1, <4>2 DEF FinishedRows
      <4> QED
        BY <4>3, NoRunAssumption
    <3> HIDE DEF row
    <3>5. LatestScheduled(t)' = row
      BY <3>3 DEF LatestScheduled
    <3> QED
      BY <2>2, <3>2, <3>4, <3>5 DEF SameChain, AttemptOf
  <2> QED
    BY <2>1, <2>2
<1>4. ASSUME NEW s \in Subjects, Starts(s) PROVE FALSE
  BY <1>4 DEF Starts, Idle
<1>5. ASSUME Quiet \/ TaskStarted \/ ReminderStarted \/ Shutdown \/ Gone
             \/ (\E s \in Subjects : CancelRun(s) \/ Moves(s) \/ Loses(s))
      PROVE  UNCHANGED <<running, last>>
  BY <1>5 DEF Quiet, TaskStarted, ReminderStarted, Shutdown, Gone, CancelRun, Moves,
     Loses, rows
<1> QED
  BY StepShapes, <1>1, <1>2, <1>3, <1>4, <1>5 DEF Abandons, RunEnds

\* What else a step leaves of the schedule, apart from a few actions.
Still == UNCHANGED <<now, starts>> /\ \A t \in Tasks : SameSchedule(t)

LEMMA ScheduleStep ==
  ASSUME TypeOK, [Next]_vars
  PROVE  \/ Tick
         \/ \E t \in Tasks : ScanTask(t) \/ RunTask(t)
         \/ \E r \in Reminders : ScanReminder(r)
         \/ \E t \in Tasks : UNCHANGED <<now, starts, running, last>> /\ task'[t].anchor = now
                         /\ \A u \in Tasks \ {t} : SameSchedule(u)
         \/ Still /\ (starting' = starting \/ starting' = NoSubject)
<1>1. ASSUME NEW t \in Tasks, NEW phase, CreateTask(t, phase) \/ EditSchedule(t, phase) \/ Resume(t)
      PROVE  UNCHANGED <<now, starts, running, last>> /\ task'[t].anchor = now
             /\ \A u \in Tasks \ {t} : SameSchedule(u)
  <2>1. task'[t].anchor = now /\ \A u \in Tasks \ {t} : task'[u] = task[u]
    <3>1. task[t] \in TaskRows /\ DOMAIN task = Tasks
      BY DEF TypeOK
    <3>2. CASE CreateTask(t, phase)
      BY <3>1, <3>2 DEF CreateTask
    <3>3. [task[t] EXCEPT !.phase = phase, !.anchor = now].anchor = now
          /\ [task[t] EXCEPT !.status = "active", !.anchor = now].anchor = now
      BY <3>1 DEF TaskRows
    <3>4. CASE EditSchedule(t, phase)
      BY <3>1, <3>3, <3>4 DEF EditSchedule
    <3>5. CASE Resume(t)
      BY <3>1, <3>3, <3>5 DEF Resume
    <3> QED
      BY <1>1, <3>2, <3>4, <3>5
  <2> QED
    BY <1>1, <2>1 DEF CreateTask, EditSchedule, Resume, TaskRequest, Request, SameSchedule
<1>2. ASSUME NEW t \in Tasks, Pause(t) \/ CancelTask(t)
      PROVE  Still /\ starting' = starting
  <2>1. \A u \in Tasks : SameSchedule(u)
    <3>1. task[t] \in TaskRows /\ DOMAIN task = Tasks
      BY DEF TypeOK
    <3>2. PICK status : task' = [task EXCEPT ![t] = [task[t] EXCEPT !.status = status]]
      BY <1>2 DEF Pause, CancelTask
    <3>3. /\ [task[t] EXCEPT !.status = status].phase = task[t].phase
          /\ [task[t] EXCEPT !.status = status].anchor = task[t].anchor
      BY <3>1 DEF TaskRows
    <3> QED
      BY <3>1, <3>2, <3>3 DEF SameSchedule
  <2> QED
    BY <1>2, <2>1 DEF Pause, CancelTask, TaskRequest, Request, memory, Still
<1>3. ASSUME UNCHANGED <<now, starts, task>> PROVE Still
  BY <1>3 DEF Still, SameSchedule
<1>4. ASSUME NEW r \in Reminders, NEW due, CreateReminder(r, due) \/ CancelReminder(r)
      PROVE  Still /\ starting' = starting
  BY <1>3, <1>4 DEF CreateReminder, CancelReminder, ReminderRequest, Request, memory, history
<1>5. ASSUME NEW s \in Subjects, CancelRun(s) PROVE Still /\ starting' = starting
  BY <1>3, <1>5 DEF CancelRun, Request, rows, history
<1>6. ASSUME StartSteps PROVE Still /\ starting' = NoSubject
  BY <1>3, <1>6 DEF StartSteps, TaskStarted, ReminderStarted, BookkeepingRaises, StartLost, Lost, NoConversation,
     EndStart, StartEnds, history
<1>7. ASSUME NEW s \in Subjects, BeginSteps(s) \/ EndSteps(s) \/ RunLost(s)
      PROVE  Still /\ starting' = starting
  BY <1>3, <1>7 DEF RunLost, BeginSteps, EndSteps, NotActiveAnymore, TaskTurnBegins, TaskTurnRefused,
     Admitted, ReminderTurnBegins, ReminderTurnRefused, ReminderLandingGone, TurnCompletes,
     TurnFails, TurnCancelled, Reviewed, Step, At
<1>8. ASSUME Shutdown \/ Drained \/ Crash \/ Restart \/ UNCHANGED vars
      PROVE  Still /\ (starting' = starting \/ starting' = NoSubject)
  BY <1>3, <1>8 DEF Shutdown, Drained, Crash, Gone, Restart, vars, rows, memory, history
<1>9. CASE Requests
  BY <1>1, <1>2, <1>4, <1>5, <1>9 DEF Requests
<1>10. CASE Scans
  BY <1>10 DEF Scans
<1> QED
  BY <1>6, <1>7, <1>8, <1>9, <1>10 DEF Next

LEMMA BurstStep ==
  ASSUME TypeOK, TypeOK', OwnerInv, BurstInv, [Next]_vars
  PROVE  BurstInv'
<1> SUFFICES ASSUME NEW t \in Tasks PROVE Burst(t)'
  BY DEF BurstInv, Burst
<1> USE SubjectsAssumption DEF Subjects
<1>1. CASE Tick
  <2>1. SameSchedule(t) /\ Anchor(t)' = Anchor(t) /\ LatestScheduled(t)' = LatestScheduled(t)
        /\ now' = now + 1
    BY <1>1 DEF Tick, rows, SameSchedule, Anchor, LatestScheduled
  <2>2. CASE Occurs(task[t].phase, now + 1)
    <3>1. starts'[t] = 0
      BY <1>1, <2>2 DEF Tick
    <3> QED
      BY <2>1, <3>1, LatestFacts DEF Burst
  <2>3. CASE ~Occurs(task[t].phase, now + 1)
    <3>1. starts'[t] = starts[t]
      BY <1>1, <2>3 DEF Tick
    <3>2. IsDue(t)' => IsDue(t)
      <4>1. ASSUME IsDue(t)'
            PROVE  \E moment \in Anchor(t) + 1 .. now + 1 : Occurs(task[t].phase, moment)
        BY <2>1, <4>1 DEF IsDue, SameSchedule, Occurs
      <4>2. \A moment \in Anchor(t) + 1 .. now + 1 :
              moment # now + 1 => moment \in Anchor(t) + 1 .. now
        BY LatestFacts
      <4> QED
        BY <2>3, <4>1, <4>2 DEF IsDue
    <3> QED
      BY <2>1, <3>1, <3>2 DEF Burst, BurstInv
  <2> QED
    BY <2>2, <2>3
<1>2. ASSUME NEW u \in Tasks, UNCHANGED <<now, starts, running, last>>, task'[u].anchor = now,
             \A v \in Tasks \ {u} : SameSchedule(v)
      PROVE  Burst(t)'
  <2>1. LatestScheduled(t)' = LatestScheduled(t)
    BY <1>2 DEF LatestScheduled
  <2>2. CASE u = t
    <3>1. Anchor(t)' \in Nat /\ Anchor(t)' >= now' /\ now' \in Nat
      BY <1>2, <2>1, <2>2, LatestFacts DEF Anchor, Later
    <3>2. ~IsDue(t)'
      BY <3>1, NothingDue
    <3> QED
      BY <1>2, <2>1, <3>2 DEF Burst, BurstInv
  <2>3. CASE u # t
    BY <1>2, <2>1, <2>3, BurstKept DEF SameChain
  <2> QED
    BY <2>2, <2>3
<1>3. ASSUME NEW u \in Tasks, ScanTask(u)
      PROVE  Burst(t)'
  <2>1. UNCHANGED <<now, task, last>> /\ starts' = [starts EXCEPT ![u] = @ + 1]
        /\ running[u] = NoRun /\ (IsDue(u) \/ Retryable(u))
    BY <1>3 DEF ScanTask, Claim
  <2>2. SameSchedule(t)
    BY <2>1 DEF SameSchedule
  <2>3. Starts(u) /\ running'[u].trigger = "scheduled" /\ running'[u].started = now
        /\ running'[u].attempt = IF Retryable(u) THEN last[u].attempt + 1 ELSE 1
    BY <1>3, ScanTaskShape
  <2>4. CASE u = t
    <3>1. LatestScheduled(t)' = running'[t] /\ running'[t] # NoRun
      BY <2>3, <2>4 DEF Starts, Claimed, LatestScheduled
    <3>2. AttemptOf(LatestScheduled(t)') = IF Retryable(t) THEN last[t].attempt + 1 ELSE 1
      BY <2>3, <2>4, <3>1 DEF AttemptOf
    <3>3. starts'[t] = starts[t] + 1 /\ starts[t] \in Nat
      BY <2>1, <2>4, LatestFacts DEF TypeOK
    <3>4. starts'[t] <= AttemptOf(LatestScheduled(t)')
      <4>1. CASE Retryable(t)
        <5>1. AttemptOf(LatestScheduled(t)) = last[t].attempt
          BY <4>1 DEF Retryable, AttemptOf
        <5>2. starts[t] <= last[t].attempt /\ last[t].attempt \in Nat
          BY <5>1, LatestFacts DEF BurstInv
        <5> QED
          BY <3>2, <3>3, <4>1, <5>2
      <4>2. CASE ~Retryable(t)
        <5>1. starts[t] = 0
          BY <2>1, <2>4, <4>2 DEF BurstInv
        <5> QED
          BY <3>2, <3>3, <4>2, <5>1
      <4> QED
        BY <4>1, <4>2
    <3>5. Anchor(t)' \in Nat /\ Anchor(t)' >= now' /\ now' \in Nat
      <4>1. Anchor(t)' = Later(task[t].anchor, now)
        BY <2>1, <2>3, <2>4, <3>1 DEF Anchor
      <4> QED
        BY <2>1, <4>1, LatestFacts DEF Later
    <3>6. ~IsDue(t)'
      BY <3>5, NothingDue
    <3> QED
      BY <3>4, <3>6 DEF Burst
  <2>5. CASE u # t
    <3>1. running'[t] = running[t] /\ last'[t] = last[t] /\ starts'[t] = starts[t]
      BY <2>1, <2>3, <2>5 DEF Starts, Claimed, TypeOK
    <3>2. SameChain(t)
      BY <3>1 DEF SameChain, LatestScheduled
    <3> QED
      BY <2>1, <2>2, <3>1, <3>2, BurstKept
  <2> QED
    BY <2>4, <2>5
<1>4. ASSUME UNCHANGED <<now, task, last, starts>>, NEW u \in Subjects, Starts(u),
             u = t => running'[u].trigger = "manual"
      PROVE  Burst(t)'
  <2>1. SameSchedule(t)
    BY <1>4 DEF SameSchedule
  <2>2. SameChain(t)
    <3>1. LatestScheduled(t)' = LatestScheduled(t)
      BY <1>4 DEF Starts, Claimed, LatestScheduled
    <3> QED
      BY <3>1 DEF SameChain
  <2> QED
    BY <1>4, <2>1, <2>2, BurstKept
<1>5. ASSUME NEW u \in Tasks, RunTask(u)
      PROVE  Burst(t)'
  <2>1. UNCHANGED <<now, task, last, starts>> /\ Starts(u) /\ running'[u].trigger = "manual"
    BY <1>5, RunTaskShape DEF RunTask, Claim
  <2> QED
    BY <1>4, <2>1
<1>6. ASSUME NEW r \in Reminders, ScanReminder(r)
      PROVE  Burst(t)'
  <2>1. UNCHANGED <<now, task, last, starts>> /\ Starts(r) /\ r # t
    BY <1>6, ScanReminderShape DEF ScanReminder, Claim
  <2> QED
    BY <1>4, <2>1
<1>7. ASSUME Still, starting' = starting \/ starting' = NoSubject
      PROVE  Burst(t)'
  <2>1. SameChain(t)
    BY <1>7, ChainStep
  <2> QED
    BY <1>7, <2>1, BurstKept DEF Still
<1> QED
  BY ScheduleStep, <1>1, <1>2, <1>3, <1>5, <1>6, <1>7

-----------------------------------------------------------------------------
(* The theorems.                                                            *)

LEMMA InitInd == Init => IndInv
<1> SUFFICES ASSUME Init PROVE IndInv
  OBVIOUS
<1> USE SubjectsAssumption DEF Init, Subjects
<1>1. TypeOK
  BY PeriodAssumption DEF TypeOK, TaskRows, ReminderRows
<1>2. DownInv /\ OwnerInv /\ FiredInv /\ TaskRowsAreOwned /\ ReminderExecutedOnce
  BY DEF DownInv, OwnerInv, FiredInv, TaskRowsAreOwned, ReminderExecutedOnce
<1>3. BurstInv
  BY <1>1, LatestFacts DEF BurstInv
<1> QED
  BY <1>1, <1>2, <1>3 DEF IndInv

\* The invariant of the scheduler and the worker: every row, coroutine, token and
\* mark is where the code's order of writes leaves it (scan_once, start,
\* start_reminder, execute, cancel, drain, sweep_interrupted_runs), whichever read
\* or write raises.
THEOREM TaskRunsInvariant == Spec => []IndInv
<1>1. IndInv /\ [Next]_vars => IndInv'
  <2> SUFFICES ASSUME IndInv, [Next]_vars PROVE IndInv'
    OBVIOUS
  <2>1. TypeOK /\ DownInv /\ OwnerInv /\ FiredInv /\ BurstInv /\ TaskRowsAreOwned
        /\ ReminderExecutedOnce
    BY DEF IndInv
  <2>2. TypeOK'
    BY <2>1, TypeStep
  <2>3. DownInv' /\ OwnerInv' /\ TaskRowsAreOwned'
    BY <2>1, DownStep, OwnerStep, TaskRowsStep
  <2>4. FiredInv' /\ ReminderExecutedOnce'
    BY <2>1, FiredStep, OnceStep
  <2>5. BurstInv'
    BY <2>1, <2>2, BurstStep
  <2> QED
    BY <2>2, <2>3, <2>4, <2>5 DEF IndInv
<1> QED
  BY <1>1, InitInd, PTL DEF Spec

\* The variables keep their types: no attempt beyond max_attempts is recorded.
THEOREM TaskRunsTyped == Spec => []TypeOK
<1>1. IndInv => TypeOK
  BY DEF IndInv
<1> QED
  BY <1>1, TaskRunsInvariant, PTL

\* From one occurrence to the next the scheduler starts a task at most
\* max_attempts times (scan_once, _retry_attempt, sweep_interrupted_runs).
THEOREM BurstsBounded == Spec => []BurstsAreBounded
<1>1. IndInv => BurstsAreBounded
  <2> SUFFICES ASSUME IndInv, NEW t \in Tasks PROVE starts[t] <= MaxAttempts
    BY DEF BurstsAreBounded
  <2>1. starts[t] <= AttemptOf(LatestScheduled(t)) /\ TypeOK
    BY DEF IndInv, BurstInv
  <2>2. starts[t] \in Nat /\ AttemptOf(LatestScheduled(t)) \in 0 .. MaxAttempts
    BY <2>1, LatestFacts
  <2> QED
    BY <2>1, <2>2, MaxAttemptsAssumption
<1> QED
  BY <1>1, TaskRunsInvariant, PTL

\* A row that says running has a start or a coroutine that will finish it, or lost
\* it to a raise past the spawn (worker.py:552); the token of a task's run has one
\* in any case (_finalize_bookkeeping_failure, execute's finally).
THEOREM TaskRowsOwned == Spec => []TaskRowsAreOwned
<1>1. IndInv => TaskRowsAreOwned
  BY DEF IndInv
<1> QED
  BY <1>1, TaskRunsInvariant, PTL

\* A reminder is executed at most once, through crashes and failed starts
\* (start_reminder marks it fired before it spawns).
THEOREM ReminderOnce == Spec => []ReminderExecutedOnce
<1>1. IndInv => ReminderExecutedOnce
  BY DEF IndInv
<1> QED
  BY <1>1, TaskRunsInvariant, PTL
=============================================================================
