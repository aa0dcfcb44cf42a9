------------------------- MODULE RunGateway_proofs -------------------------
(* Theorems about RunGateway, for every number of runs, lanes, conversations, *)
(* callers and crashes.  Everything follows from the inductive invariant      *)
(* IndInv, proved conjunct by conjunct, one step per action.                  *)
EXTENDS RunGateway, TLAPS

TypeInv == TypeOK /\ RefsExist

\* Definitions that name values only.
USE ConvOfAssumption, WorkerLanesAssumption, NoneAssumption, MaxCrashesAssumption
USE DEF ActiveStatuses, TerminalStatuses, RunStatuses, Owners, Executing, AliveStates,
        TaskStates, Calls, NoCall, Exists, IsActive, IsTerminal, Alive, Launching

-----------------------------------------------------------------------------
(* Types and references.                                                    *)

LEMMA InitTypes == Init => TypeInv
  BY DEF Init, RefsExist, TypeOK, TypeInv

LEMMA InsertTypes ==
  ASSUME TypeInv, NEW n \in Fresh, NEW l \in Lanes, NEW g \in Runs, InsertRun(n, l, g)
  PROVE  /\ lane' \in [Runs -> Lanes \cup {None}]
         /\ group' \in [Runs -> Runs \cup {None}]
         /\ variant' \in [Runs -> BOOLEAN]
         /\ lane'[n] = l /\ group'[n] = g
         /\ \A r \in Runs \ {n} : lane'[r] = lane[r] /\ group'[r] = group[r]
  BY DEF Fresh, InsertRun, TypeOK, TypeInv

LEMMA RowTypes ==
  ASSUME TypeInv, NEW r \in Runs, Exists(r)
  PROVE  lane[r] \in Lanes /\ group[r] \in Runs /\ ConvOfRun(r) \in Convs
  BY DEF ConvOfRun, TypeOK, TypeInv

LEMMA OnlyVariantTypes ==
  ASSUME TypeInv, NEW r \in Runs
  PROVE  OnlyVariant(r) \in [Runs -> BOOLEAN]
  BY DEF OnlyVariant

LEMMA TaskTypes ==
  ASSUME TypeInv, NEW o \in Owners, NEW r \in Runs, NEW s \in TaskStates, SetTask(o, r, s)
  PROVE  /\ task' \in [Owners -> [Runs -> TaskStates]]
         /\ task'[o][r] = s
         /\ \A p \in Owners, x \in Runs : p # o \/ x # r => task'[p][x] = task[p][x]
  BY DEF SetTask, TypeOK, TypeInv

LEMMA StepTypes == TypeInv /\ [Next]_vars => TypeInv'
<1> SUFFICES ASSUME TypeInv, [Next]_vars PROVE TypeInv'
  OBVIOUS
<1>1. CASE UNCHANGED vars
  BY <1>1 DEF RefsExist, process, handles, executors, db, vars, TypeOK, TypeInv
<1>2. ASSUME NEW c \in Callers, NEW l \in Lanes, NEW n \in Runs, Send(c, l, n)
      PROVE  TypeInv'
  BY <1>2, InsertTypes
     DEF Send, RefsExist, process, handles, executors, AwaitPrefix, InsertRun, TypeOK,
         TypeInv
<1>3. ASSUME NEW c \in Callers, NEW r \in Runs, Revive(c, r) PROVE TypeInv'
  BY <1>3
     DEF Revive, RefsExist, process, handles, executors, AwaitPrefix, OnlyVariant,
         Revivable, TypeOK, TypeInv
<1>4. ASSUME NEW c \in Callers, NEW r \in Runs, MarkFailed(c, r) PROVE TypeInv'
  BY <1>4 DEF MarkFailed, RefsExist, process, handles, executors, TypeOK, TypeInv
<1>5. ASSUME NEW c \in Callers, NEW r \in Runs, NEW n \in Runs, RetryInterrupted(c, r, n)
      PROVE  TypeInv'
  BY <1>5, InsertTypes
     DEF RetryInterrupted, RefsExist, process, handles, executors, AwaitPrefix, Fresh,
         InsertRun, TypeOK, TypeInv
<1>6. ASSUME NEW c \in Callers, NEW op \in {"regenerate", "select"}, NEW r \in Runs,
             BeginOnRun(c, op, r)
      PROVE  TypeInv'
  BY <1>6 DEF BeginOnRun, RefsExist, process, handles, executors, db, TypeOK, TypeInv
<1>7. ASSUME NEW c \in Callers, Regenerate(c) PROVE TypeInv'
  <2> DEFINE r == call[c].run
  <2>0. r \in Runs /\ Exists(r)
    BY <1>7 DEF Regenerate, RefsExist, TypeInv
  <2>1. lane[r] \in Lanes /\ group[r] \in Runs
    BY <2>0, RowTypes
  <2>2. CASE Return(c) /\ UNCHANGED db
    BY <1>7, <2>2
       DEF Regenerate, RefsExist, process, handles, executors, db, Return, TypeOK, TypeInv
  <2>3. ASSUME NEW n \in Fresh, InsertRun(n, lane[r], group[r]),
               status' = [status EXCEPT ![n] = "created"],
               AwaitPrefix(c, "launch", n)
        PROVE  TypeInv'
    <3>1. /\ lane' \in [Runs -> Lanes \cup {None}]
          /\ group' \in [Runs -> Runs \cup {None}]
          /\ variant' \in [Runs -> BOOLEAN]
          /\ lane'[n] \in Lanes /\ group'[n] \in Runs
          /\ \A x \in Runs \ {n} : lane'[x] = lane[x] /\ group'[x] = group[x]
      BY <2>1, <2>3, InsertTypes
    <3>2. /\ n \in Runs /\ UNCHANGED <<willStop, open>>
          /\ UNCHANGED <<task, token, late, slot, byId, phase, crashes, skipped>>
      BY <1>7, <2>3 DEF Regenerate, process, handles, executors, Fresh, InsertRun
    <3>3. /\ status' \in [Runs -> RunStatuses]
          /\ \A x \in Runs : status'[x] = IF x = n THEN "created" ELSE status[x]
      BY <2>3, <3>2 DEF TypeOK, TypeInv
    <3>4. /\ call' \in [Callers -> Calls]
          /\ call'[c].run = n
          /\ \A d \in Callers \ {c} : call'[d] = call[d]
      BY <2>3, <3>2 DEF AwaitPrefix, TypeOK, TypeInv
    <3>5. \A x \in Runs : (Exists(x)' <=> lane'[x] # None) /\ (Exists(x)' <=> group'[x] # None)
      BY <3>1, <3>2, <3>3 DEF TypeOK, TypeInv
    <3>6. TypeOK'
      BY <3>1, <3>2, <3>3, <3>4, <3>5 DEF TypeOK, TypeInv
    <3>7. RefsExist'
      BY <3>2, <3>3, <3>4 DEF RefsExist, TypeOK, TypeInv
    <3> QED
      BY <3>6, <3>7 DEF TypeInv
  <2> QED BY <1>7, <2>2, <2>3 DEF Regenerate
<1>8. ASSUME NEW c \in Callers, SelectVariant(c) PROVE TypeInv'
  BY <1>8
     DEF SelectVariant, RefsExist, process, handles, executors, Return, OnlyVariant, TypeOK,
         TypeInv
<1>9. ASSUME NEW c \in Callers, LaunchOk(c) PROVE TypeInv'
  BY <1>9 DEF LaunchOk, RefsExist, ConvOfRun, process, db, Return, TypeOK, TypeInv
<1>10. ASSUME NEW c \in Callers, LaunchFail(c) PROVE TypeInv'
  BY <1>10 DEF LaunchFail, RefsExist, process, handles, executors, Return, TypeOK, TypeInv
<1>11. ASSUME NEW r \in Runs, Cancel(r) PROVE TypeInv'
  BY <1>11 DEF Cancel, RefsExist, process, handles, TypeOK, TypeInv
<1>12. ASSUME NEW r \in Runs, NEW o \in Owners, ExecAdvise(o, r) \/ ExecTools(o, r)
       PROVE  TypeInv'
  BY <1>12
     DEF ExecAdvise, ExecTools, RefsExist, process, handles, executors, TypeOK, TypeInv
<1>13. ASSUME NEW r \in Runs, ExecAskApproval(r) \/ ExecApprovalDecided(r) PROVE TypeInv'
  BY <1>13, SMTT(30)
     DEF ExecAskApproval, ExecApprovalDecided, RefsExist, process, handles, SetTask, TypeOK,
         TypeInv
<1>14. ASSUME NEW r \in Runs, OnRunDone(r) PROVE TypeInv'
  BY <1>14 DEF OnRunDone, RefsExist, process, handles, db, TypeOK, TypeInv
<1>15. ASSUME NEW n \in Runs, NEW l \in WorkerLanes, WorkerSubmit(n, l)
       PROVE  TypeInv'
  BY <1>15, InsertTypes
     DEF WorkerSubmit, RefsExist, process, handles, InsertRun, TypeOK, TypeInv
<1>16. ASSUME NEW r \in Runs, NEW o \in Owners, ExecStart(o, r) PROVE TypeInv'
  <2>1. Exists(r)
    BY <1>16 DEF ExecStart, RefsExist, TypeInv
  <2>2. CASE IsTerminal(r)
    BY <1>16, <2>1, <2>2, TaskTypes, SMTT(30)
       DEF ExecStart, RefsExist, process, handles, TypeOK, TypeInv
  <2>3. CASE ~IsTerminal(r)
    <3>1. /\ task' \in [Owners -> [Runs -> TaskStates]]
          /\ \A p \in Owners, x \in Runs : p # o \/ x # r => task'[p][x] = task[p][x]
      BY <1>16, <2>3, TaskTypes DEF ExecStart
    <3>2. variant' \in [Runs -> BOOLEAN]
      BY <1>16, <2>3, OnlyVariantTypes DEF ExecStart
    <3>3. /\ status' \in [Runs -> RunStatuses]
          /\ \A x \in Runs : status'[x] = "absent" <=> status[x] = "absent"
      BY <1>16, <2>1, <2>3 DEF ExecStart, TypeOK, TypeInv
    <3>4. UNCHANGED <<lane, group, willStop, open, token, late, handles, call, process>>
      BY <1>16 DEF ExecStart
    <3> QED
      BY <2>1, <3>1, <3>2, <3>3, <3>4 DEF RefsExist, process, handles, TypeOK, TypeInv
  <2> QED BY <2>2, <2>3
<1>17. ASSUME NEW r \in Runs, NEW o \in Owners, ExecEnd(o, r) PROVE TypeInv'
  <2>1. Exists(r)
    BY <1>17 DEF ExecEnd, RefsExist, TypeInv
  <2> DEFINE Rows == /\ status' \in [Runs -> RunStatuses]
                     /\ variant' \in [Runs -> BOOLEAN]
                     /\ willStop' \in [Runs -> BOOLEAN]
                     /\ \A x \in Runs : status'[x] = "absent" <=> status[x] = "absent"
  <2>2. ASSUME NEW last \in BOOLEAN, Complete(r, last)
        PROVE  Rows
    BY <2>1, <2>2, OnlyVariantTypes DEF Complete, TypeOK, TypeInv
  <2>3. ASSUME NEW s \in {"failed", "cancelled"}, EndAs(r, s) PROVE Rows
    BY <2>1, <2>3 DEF EndAs, TypeOK, TypeInv
  <2>4. ASSUME UNCHANGED <<status, variant, willStop>> PROVE Rows
    BY <2>4 DEF TypeOK, TypeInv
  <2>5. willStop[r] \in BOOLEAN
    BY DEF TypeOK, TypeInv
  <2>6. ASSUME ExecOutcome(o, r) PROVE Rows
    <3>1. CASE Complete(r, willStop[r])
      BY <3>1, <2>2, <2>5
    <3>2. CASE \E last \in BOOLEAN : Complete(r, last)
      BY <3>2, <2>2
    <3>3. CASE \E s \in {"failed", "cancelled"} : EndAs(r, s)
      BY <3>3, <2>3
    <3> QED BY <2>6, <3>1, <3>2, <3>3 DEF ExecOutcome
  <2>7. Rows /\ open' \in [Runs -> BOOLEAN]
    BY <1>17, <2>4, <2>6 DEF ExecEnd, TypeOK, TypeInv
  <2>8. /\ task' \in [Owners -> [Runs -> TaskStates]]
        /\ \A p \in Owners, x \in Runs : p # o \/ x # r => task'[p][x] = task[p][x]
    BY <1>17, TaskTypes DEF ExecEnd
  <2>9. /\ token' \in [Runs -> BOOLEAN]
        /\ UNCHANGED <<lane, group, late, slot, byId, call, phase, crashes, skipped>>
    BY <1>17 DEF ExecEnd, process, handles, TypeOK, TypeInv
  <2>10. \A x \in Runs : Exists(x)' <=> Exists(x)
    BY <2>7 DEF Exists
  <2>11. TypeOK'
    BY <2>7, <2>8, <2>9 DEF TypeOK, TypeInv
  <2>12. \A p \in Owners, x \in Runs : task'[p][x] # "none" => Exists(x)'
    BY <2>1, <2>8, <2>10 DEF RefsExist, TypeInv
  <2> HIDE DEF Rows
  <2>13. RefsExist'
    BY <2>9, <2>10, <2>12 DEF RefsExist, TypeOK, TypeInv
  <2> QED BY <2>11, <2>13 DEF TypeInv
<1>18. ASSUME NEW r \in Runs, NEW o \in Owners, ExecReturn(o, r) PROVE TypeInv'
  BY <1>18 DEF ExecReturn, RefsExist, process, handles, db, SetTask, TypeOK, TypeInv
<1>19. ASSUME BeginShutdown PROVE TypeInv'
  BY <1>19 DEF BeginShutdown, RefsExist, handles, TypeOK, TypeInv
<1>20. ASSUME Exit \/ Crash PROVE TypeInv'
  <2>1. LoseMemory
    BY <1>20 DEF Exit, Crash
  <2> QED BY <2>1 DEF LoseMemory, RefsExist, db, TypeOK, TypeInv
<1>21. ASSUME Restart PROVE TypeInv'
  BY <1>21 DEF Restart, RefsExist, handles, executors, TypeOK, TypeInv
<1> QED
  BY <1>1, <1>2, <1>3, <1>4, <1>5, <1>6, <1>7, <1>8, <1>9, <1>10, <1>11, <1>12, <1>13,
     <1>14, <1>15, <1>16, <1>17, <1>18, <1>19, <1>20, <1>21
     DEF Next, CallEnters, CallResumes, CallLaunches, ExecWorks, Lifespan

-----------------------------------------------------------------------------
(* One active run per lane, one active variant per group.                   *)

LEMMA LaneStep ==
  ASSUME TypeInv, TypeInv', OneActivePerLane, [Next]_vars
  PROVE  OneActivePerLane'
<1>1. CASE UNCHANGED vars
  BY <1>1 DEF OneActivePerLane, db, vars
<1>2. ASSUME NEW c \in Callers, NEW l \in Lanes, NEW n \in Runs, Send(c, l, n)
      PROVE  OneActivePerLane'
  BY <1>2 DEF Send, OneActivePerLane, ConvOfRun, ActiveInConv, InsertRun, TypeOK, TypeInv
<1>3. ASSUME NEW c \in Callers, NEW r \in Runs, Revive(c, r) PROVE OneActivePerLane'
  BY <1>3 DEF Revive, OneActivePerLane, ActiveOnLane, Revivable
<1>4. ASSUME NEW c \in Callers, NEW r \in Runs, MarkFailed(c, r) PROVE OneActivePerLane'
  BY <1>4 DEF MarkFailed, OneActivePerLane
<1>5. ASSUME NEW c \in Callers, NEW r \in Runs, NEW n \in Runs, RetryInterrupted(c, r, n)
      PROVE  OneActivePerLane'
  BY <1>5 DEF RetryInterrupted, OneActivePerLane, InsertRun, Enters, TypeOK, TypeInv
<1>6. ASSUME NEW c \in Callers, NEW op \in {"regenerate", "select"}, NEW r \in Runs,
             BeginOnRun(c, op, r)
      PROVE  OneActivePerLane'
  BY <1>6 DEF BeginOnRun, OneActivePerLane, db
<1>7. ASSUME NEW c \in Callers, Regenerate(c) PROVE OneActivePerLane'
  BY <1>7
     DEF Regenerate, OneActivePerLane, ConvOfRun, RequireNoActiveRuns, ActiveInConv, db,
         InsertRun, TypeOK, TypeInv
<1>8. ASSUME NEW c \in Callers, SelectVariant(c) PROVE OneActivePerLane'
  BY <1>8 DEF SelectVariant, OneActivePerLane
<1>9. ASSUME NEW c \in Callers, LaunchOk(c) PROVE OneActivePerLane'
  BY <1>9 DEF LaunchOk, OneActivePerLane, db
<1>10. ASSUME NEW c \in Callers, LaunchFail(c) PROVE OneActivePerLane'
  BY <1>10 DEF LaunchFail, OneActivePerLane
<1>11. ASSUME NEW r \in Runs, Cancel(r) PROVE OneActivePerLane'
  BY <1>11 DEF Cancel, OneActivePerLane, TypeOK, TypeInv
<1>12. ASSUME NEW r \in Runs, NEW o \in Owners, ExecAdvise(o, r) \/ ExecTools(o, r)
      PROVE  OneActivePerLane'
  BY <1>12 DEF ExecAdvise, ExecTools, OneActivePerLane
<1>13. ASSUME NEW r \in Runs, ExecAskApproval(r) \/ ExecApprovalDecided(r)
      PROVE  OneActivePerLane'
  BY <1>13 DEF ExecAskApproval, ExecApprovalDecided, OneActivePerLane, TypeOK, TypeInv
<1>14. ASSUME NEW r \in Runs, OnRunDone(r) PROVE OneActivePerLane'
  BY <1>14 DEF OnRunDone, OneActivePerLane, db
<1>15. ASSUME NEW n \in Runs, NEW l \in WorkerLanes, WorkerSubmit(n, l)
      PROVE  OneActivePerLane'
  BY <1>15
     DEF WorkerSubmit, OneActivePerLane, ConvOfRun, ActiveInConv, InsertRun, TypeOK, TypeInv
<1>16. ASSUME NEW r \in Runs, NEW o \in Owners, ExecStart(o, r) PROVE OneActivePerLane'
  BY <1>16 DEF ExecStart, OneActivePerLane, TypeOK, TypeInv
<1>17. ASSUME NEW r \in Runs, NEW o \in Owners, ExecEnd(o, r) PROVE OneActivePerLane'
  BY <1>17 DEF ExecEnd, ExecOutcome, Complete, EndAs, OneActivePerLane, TypeOK, TypeInv
<1>18. ASSUME NEW r \in Runs, NEW o \in Owners, ExecReturn(o, r) PROVE OneActivePerLane'
  BY <1>18 DEF ExecReturn, OneActivePerLane, db
<1>19. ASSUME BeginShutdown PROVE OneActivePerLane'
  BY <1>19 DEF BeginShutdown, OneActivePerLane
<1>20. ASSUME Exit \/ Crash PROVE OneActivePerLane'
  BY <1>20 DEF Exit, Crash, LoseMemory, OneActivePerLane, db
<1>21. ASSUME Restart PROVE OneActivePerLane'
  BY <1>21 DEF Restart, OneActivePerLane
<1> QED
  BY <1>1, <1>2, <1>3, <1>4, <1>5, <1>6, <1>7, <1>8, <1>9, <1>10, <1>11,
     <1>12, <1>13, <1>14, <1>15, <1>16, <1>17, <1>18, <1>19, <1>20, <1>21
     DEF Next, CallEnters, CallResumes, CallLaunches, ExecWorks, Lifespan

LEMMA InsertVariant ==
  ASSUME TypeInv, OneActiveVariant,
         NEW n \in Fresh, NEW l \in Lanes, NEW g \in Runs, InsertRun(n, l, g)
  PROVE  OneActiveVariant'
<1>1. n \in Runs /\ variant \in [Runs -> BOOLEAN] /\ group \in [Runs -> Runs \cup {None}]
  BY DEF Fresh, TypeOK, TypeInv
<1>2. SUFFICES ASSUME NEW r \in Runs, NEW s \in Runs, variant'[r], variant'[s],
                      group'[r] = group'[s]
               PROVE  r = s
  BY DEF OneActiveVariant
<1>3. \A x \in Runs : variant'[x] <=> x = n \/ (variant[x] /\ group[x] # g)
  BY <1>1 DEF InsertRun
<1>4. \A x \in Runs : group'[x] = IF x = n THEN g ELSE group[x]
  BY <1>1 DEF InsertRun
<1> QED
  BY <1>1, <1>2, <1>3, <1>4 DEF OneActiveVariant

LEMMA VariantStep ==
  ASSUME TypeInv, TypeInv', OneActiveVariant, [Next]_vars
  PROVE  OneActiveVariant'
<1>1. CASE UNCHANGED vars
  BY <1>1 DEF OneActiveVariant, db, vars
<1>2. ASSUME NEW c \in Callers, NEW l \in Lanes, NEW n \in Runs, Send(c, l, n)
      PROVE  OneActiveVariant'
  BY <1>2, InsertVariant DEF Send
<1>3. ASSUME NEW c \in Callers, NEW r \in Runs, Revive(c, r) PROVE OneActiveVariant'
  BY <1>3 DEF Revive, OneActiveVariant, OnlyVariant
<1>4. ASSUME NEW c \in Callers, NEW r \in Runs, MarkFailed(c, r) PROVE OneActiveVariant'
  BY <1>4 DEF MarkFailed, OneActiveVariant
<1>5. ASSUME NEW c \in Callers, NEW r \in Runs, NEW n \in Runs, RetryInterrupted(c, r, n)
      PROVE  OneActiveVariant'
  <2>1. lane[r] \in Lanes /\ group[r] \in Runs
    BY <1>5, RowTypes DEF RetryInterrupted
  <2> QED BY <1>5, <2>1, InsertVariant DEF RetryInterrupted
<1>6. ASSUME NEW c \in Callers, NEW op \in {"regenerate", "select"}, NEW r \in Runs,
             BeginOnRun(c, op, r)
      PROVE  OneActiveVariant'
  BY <1>6 DEF BeginOnRun, OneActiveVariant, db
<1>7. ASSUME NEW c \in Callers, Regenerate(c) PROVE OneActiveVariant'
  <2>1. call[c].run \in Runs /\ Exists(call[c].run)
    BY <1>7 DEF Regenerate, RefsExist, TypeInv
  <2>2. lane[call[c].run] \in Lanes /\ group[call[c].run] \in Runs
    BY <2>1, RowTypes
  <2>3. CASE UNCHANGED db
    BY <2>3 DEF OneActiveVariant, db
  <2> QED BY <1>7, <2>2, <2>3, InsertVariant DEF Regenerate
<1>8. ASSUME NEW c \in Callers, SelectVariant(c) PROVE OneActiveVariant'
  BY <1>8 DEF SelectVariant, OneActiveVariant, OnlyVariant
<1>9. ASSUME NEW c \in Callers, LaunchOk(c) PROVE OneActiveVariant'
  BY <1>9 DEF LaunchOk, OneActiveVariant, db
<1>10. ASSUME NEW c \in Callers, LaunchFail(c) PROVE OneActiveVariant'
  BY <1>10 DEF LaunchFail, OneActiveVariant
<1>11. ASSUME NEW r \in Runs, Cancel(r) PROVE OneActiveVariant'
  BY <1>11 DEF Cancel, OneActiveVariant
<1>12. ASSUME NEW r \in Runs, NEW o \in Owners, ExecAdvise(o, r) \/ ExecTools(o, r)
      PROVE  OneActiveVariant'
  BY <1>12 DEF ExecAdvise, ExecTools, OneActiveVariant
<1>13. ASSUME NEW r \in Runs, ExecAskApproval(r) \/ ExecApprovalDecided(r)
      PROVE  OneActiveVariant'
  BY <1>13 DEF ExecAskApproval, ExecApprovalDecided, OneActiveVariant
<1>14. ASSUME NEW r \in Runs, OnRunDone(r) PROVE OneActiveVariant'
  BY <1>14 DEF OnRunDone, OneActiveVariant, db
<1>15. ASSUME NEW n \in Runs, NEW l \in WorkerLanes, WorkerSubmit(n, l)
      PROVE  OneActiveVariant'
  BY <1>15, InsertVariant DEF WorkerSubmit
<1>16. ASSUME NEW r \in Runs, NEW o \in Owners, ExecStart(o, r) PROVE OneActiveVariant'
  BY <1>16 DEF ExecStart, OneActiveVariant, OnlyVariant
<1>17. ASSUME NEW r \in Runs, NEW o \in Owners, ExecEnd(o, r) PROVE OneActiveVariant'
  BY <1>17, SMTT(30)
     DEF ExecEnd, ExecOutcome, Complete, EndAs, OneActiveVariant, OnlyVariant, TypeOK,
         TypeInv
<1>18. ASSUME NEW r \in Runs, NEW o \in Owners, ExecReturn(o, r) PROVE OneActiveVariant'
  BY <1>18 DEF ExecReturn, OneActiveVariant, db
<1>19. ASSUME BeginShutdown PROVE OneActiveVariant'
  BY <1>19 DEF BeginShutdown, OneActiveVariant
<1>20. ASSUME Exit \/ Crash PROVE OneActiveVariant'
  BY <1>20 DEF Exit, Crash, LoseMemory, OneActiveVariant, db
<1>21. ASSUME Restart PROVE OneActiveVariant'
  BY <1>21 DEF Restart, OneActiveVariant
<1> QED
  BY <1>1, <1>2, <1>3, <1>4, <1>5, <1>6, <1>7, <1>8, <1>9, <1>10, <1>11,
     <1>12, <1>13, <1>14, <1>15, <1>16, <1>17, <1>18, <1>19, <1>20, <1>21
     DEF Next, CallEnters, CallResumes, CallLaunches, ExecWorks, Lifespan

-----------------------------------------------------------------------------
(* The handles and the tasks.                                               *)

LEMMA HandleStep ==
  ASSUME TypeInv, TypeInv', HandlesMatchTasks, [Next]_vars
  PROVE  HandlesMatchTasks'
<1>1. CASE UNCHANGED vars
  BY <1>1 DEF HandlesMatchTasks, ConvOfRun, handles, executors, db, vars
<1>2. ASSUME NEW c \in Callers, NEW l \in Lanes, NEW n \in Runs, Send(c, l, n)
      PROVE  HandlesMatchTasks'
  <2>1. n \in Runs /\ n \notin byId
    BY <1>2 DEF Send, HandlesMatchTasks, RefsExist, Fresh, TypeInv
  <2>2. \A x \in Runs \ {n} : lane'[x] = lane[x]
    BY <1>2 DEF Send, InsertRun
  <2> QED BY <1>2, <2>1, <2>2
             DEF Send, HandlesMatchTasks, ConvOfRun, handles, executors, TypeOK, TypeInv
<1>3. ASSUME NEW c \in Callers, NEW r \in Runs, Revive(c, r) PROVE HandlesMatchTasks'
  BY <1>3 DEF Revive, HandlesMatchTasks, ConvOfRun, handles, executors
<1>4. ASSUME NEW c \in Callers, NEW r \in Runs, MarkFailed(c, r)
      PROVE  HandlesMatchTasks'
  BY <1>4 DEF MarkFailed, HandlesMatchTasks, ConvOfRun, handles, executors
<1>5. ASSUME NEW c \in Callers, NEW r \in Runs, NEW n \in Runs, RetryInterrupted(c, r, n)
      PROVE  HandlesMatchTasks'
  <2>1. n \in Runs /\ n \notin byId
    BY <1>5 DEF RetryInterrupted, HandlesMatchTasks, RefsExist, Fresh, TypeInv
  <2>2. \A x \in Runs \ {n} : lane'[x] = lane[x]
    BY <1>5 DEF RetryInterrupted, InsertRun
  <2> QED BY <1>5, <2>1, <2>2
             DEF RetryInterrupted, HandlesMatchTasks, ConvOfRun, handles, executors, TypeOK,
                 TypeInv
<1>6. ASSUME NEW c \in Callers, NEW op \in {"regenerate", "select"}, NEW r \in Runs,
             BeginOnRun(c, op, r)
      PROVE  HandlesMatchTasks'
  BY <1>6 DEF BeginOnRun, HandlesMatchTasks, ConvOfRun, handles, executors, db
<1>7. ASSUME NEW c \in Callers, Regenerate(c) PROVE HandlesMatchTasks'
  BY <1>7, SMTT(30)
     DEF Regenerate, HandlesMatchTasks, RefsExist, ConvOfRun, handles, executors, db, Fresh,
         InsertRun, TypeOK, TypeInv
<1>8. ASSUME NEW c \in Callers, SelectVariant(c) PROVE HandlesMatchTasks'
  BY <1>8 DEF SelectVariant, HandlesMatchTasks, ConvOfRun, handles, executors
<1>9. ASSUME NEW c \in Callers, LaunchOk(c) PROVE HandlesMatchTasks'
  BY <1>9 DEF LaunchOk, HandlesMatchTasks, ConvOfRun, db, TypeOK, TypeInv
<1>10. ASSUME NEW c \in Callers, LaunchFail(c) PROVE HandlesMatchTasks'
  BY <1>10 DEF LaunchFail, HandlesMatchTasks, ConvOfRun, handles, executors
<1>11. ASSUME NEW r \in Runs, Cancel(r) PROVE HandlesMatchTasks'
  BY <1>11 DEF Cancel, HandlesMatchTasks, ConvOfRun, handles
<1>12. ASSUME NEW r \in Runs, NEW o \in Owners, ExecAdvise(o, r) \/ ExecTools(o, r)
      PROVE  HandlesMatchTasks'
  BY <1>12 DEF ExecAdvise, ExecTools, HandlesMatchTasks, ConvOfRun, handles, executors
<1>13. ASSUME NEW r \in Runs, ExecAskApproval(r) \/ ExecApprovalDecided(r)
      PROVE  HandlesMatchTasks'
  <2>1. /\ task["gateway"][r] \in AliveStates
        /\ \E s \in AliveStates : task' = [task EXCEPT !["gateway"][r] = s]
    BY <1>13 DEF ExecAskApproval, ExecApprovalDecided, SetTask, AliveStates, Executing
  <2>2. \A x \in Runs : Alive("gateway", x)' <=> Alive("gateway", x)
    BY <2>1 DEF Alive, TypeOK, TypeInv, Owners
  <2>3. UNCHANGED <<slot, byId, late, lane>>
    BY <1>13 DEF ExecAskApproval, ExecApprovalDecided, handles
  <2> QED BY <2>2, <2>3 DEF HandlesMatchTasks, ConvOfRun
<1>14. ASSUME NEW r \in Runs, OnRunDone(r) PROVE HandlesMatchTasks'
  BY <1>14 DEF OnRunDone, HandlesMatchTasks, ConvOfRun, handles, db
<1>15. ASSUME NEW n \in Runs, NEW l \in WorkerLanes, WorkerSubmit(n, l)
      PROVE  HandlesMatchTasks'
  <2>1. n \in Runs /\ n \notin byId
    BY <1>15 DEF WorkerSubmit, HandlesMatchTasks, RefsExist, Fresh, TypeInv
  <2>2. \A x \in Runs \ {n} : lane'[x] = lane[x]
    BY <1>15 DEF WorkerSubmit, InsertRun
  <2> QED BY <1>15, <2>1, <2>2
             DEF WorkerSubmit, HandlesMatchTasks, ConvOfRun, handles, TypeOK, TypeInv
<1>16. ASSUME NEW r \in Runs, NEW o \in Owners, ExecStart(o, r) PROVE HandlesMatchTasks'
  BY <1>16 DEF ExecStart, HandlesMatchTasks, ConvOfRun, handles, SetTask, TypeOK, TypeInv
<1>17. ASSUME NEW r \in Runs, NEW o \in Owners, ExecEnd(o, r) PROVE HandlesMatchTasks'
  BY <1>17
     DEF ExecEnd, ExecOutcome, Complete, EndAs, HandlesMatchTasks, ConvOfRun, handles,
         SetTask
<1>18. ASSUME NEW r \in Runs, NEW o \in Owners, ExecReturn(o, r) PROVE HandlesMatchTasks'
  BY <1>18 DEF ExecReturn, HandlesMatchTasks, ConvOfRun, handles, db, SetTask
<1>19. ASSUME BeginShutdown PROVE HandlesMatchTasks'
  BY <1>19 DEF BeginShutdown, HandlesMatchTasks, ConvOfRun, handles
<1>20. ASSUME Exit \/ Crash PROVE HandlesMatchTasks'
  BY <1>20 DEF Exit, Crash, LoseMemory, HandlesMatchTasks
<1>21. ASSUME Restart PROVE HandlesMatchTasks'
  BY <1>21 DEF Restart, HandlesMatchTasks, ConvOfRun, handles, executors
<1> QED
  BY <1>1, <1>2, <1>3, <1>4, <1>5, <1>6, <1>7, <1>8, <1>9, <1>10, <1>11,
     <1>12, <1>13, <1>14, <1>15, <1>16, <1>17, <1>18, <1>19, <1>20, <1>21
     DEF Next, CallEnters, CallResumes, CallLaunches, ExecWorks, Lifespan

-----------------------------------------------------------------------------
(* Launches, the worker, the finally block and the dead process.            *)

LEMMA LaunchStep ==
  ASSUME TypeInv, TypeInv', HandlesMatchTasks, LaunchInv, WorkerInv, DownInv, [Next]_vars
  PROVE  LaunchInv'
<1>1. CASE UNCHANGED vars
  BY <1>1 DEF LaunchInv, LockFree, executors, db, vars
<1>2. ASSUME NEW c \in Callers, NEW l \in Lanes, NEW n \in Runs, Send(c, l, n)
      PROVE  LaunchInv'
  BY <1>2
     DEF Send, LaunchInv, LockFree, RefsExist, executors, AwaitPrefix, Fresh, Enters,
         TypeInv
<1>3. ASSUME NEW c \in Callers, NEW r \in Runs, Revive(c, r) PROVE LaunchInv'
  BY <1>3
     DEF Revive, FindActiveRun, HandlesMatchTasks, LaunchInv, LockFree, executors,
         AwaitPrefix, Enters, TypeOK, TypeInv
<1>4. ASSUME NEW c \in Callers, NEW r \in Runs, MarkFailed(c, r) PROVE LaunchInv'
  BY <1>4 DEF MarkFailed, LaunchInv, LockFree, Enters
<1>5. ASSUME NEW c \in Callers, NEW r \in Runs, NEW n \in Runs, RetryInterrupted(c, r, n)
      PROVE  LaunchInv'
  BY <1>5
     DEF RetryInterrupted, LaunchInv, LockFree, RefsExist, executors, AwaitPrefix, Fresh,
         Enters, TypeOK, TypeInv
<1>6. ASSUME NEW c \in Callers, NEW op \in {"regenerate", "select"}, NEW r \in Runs,
             BeginOnRun(c, op, r)
      PROVE  LaunchInv'
  BY <1>6 DEF BeginOnRun, LaunchInv, LockFree, executors, db
<1>7. ASSUME NEW c \in Callers, Regenerate(c) PROVE LaunchInv'
  <2>1. CASE Return(c) /\ UNCHANGED db
    BY <1>7, <2>1 DEF Regenerate, LaunchInv, LockFree, Return
  <2>2. ASSUME NEW n \in Fresh, status' = [status EXCEPT ![n] = "created"],
               AwaitPrefix(c, "launch", n)
        PROVE  LaunchInv'
    BY <1>7, <2>2
       DEF Regenerate, LaunchInv, LockFree, RefsExist, executors, AwaitPrefix, Fresh,
           TypeInv
  <2> QED BY <1>7, <2>1, <2>2 DEF Regenerate
<1>8. ASSUME NEW c \in Callers, SelectVariant(c) PROVE LaunchInv'
  BY <1>8 DEF SelectVariant, LaunchInv, LockFree, Return
<1>9. ASSUME NEW c \in Callers, LaunchOk(c) PROVE LaunchInv'
  BY <1>9 DEF LaunchOk, LaunchInv, LockFree, Return, TypeOK, TypeInv
<1>10. ASSUME NEW c \in Callers, LaunchFail(c) PROVE LaunchInv'
  BY <1>10 DEF LaunchFail, LaunchInv, LockFree, Return, TypeOK, TypeInv
<1>11. ASSUME NEW r \in Runs, Cancel(r) PROVE LaunchInv'
  BY <1>11 DEF Cancel, LaunchInv, LockFree
<1>12. ASSUME NEW r \in Runs, NEW o \in Owners, ExecAdvise(o, r) \/ ExecTools(o, r)
      PROVE  LaunchInv'
  BY <1>12 DEF ExecAdvise, ExecTools, LaunchInv, LockFree, executors
<1>13. ASSUME NEW r \in Runs, ExecAskApproval(r) \/ ExecApprovalDecided(r)
      PROVE  LaunchInv'
  BY <1>13 DEF ExecAskApproval, ExecApprovalDecided, LaunchInv, LockFree
<1>14. ASSUME NEW r \in Runs, OnRunDone(r) PROVE LaunchInv'
  BY <1>14 DEF OnRunDone, LaunchInv, LockFree, db
<1>15. ASSUME NEW n \in Runs, NEW l \in WorkerLanes, WorkerSubmit(n, l) PROVE LaunchInv'
  BY <1>15 DEF WorkerSubmit, LaunchInv, LockFree, Fresh
<1>16. ASSUME NEW r \in Runs, NEW o \in Owners, ExecStart(o, r) PROVE LaunchInv'
  <2>1. ~Launching(r)
    BY <1>16 DEF ExecStart, LaunchInv, WorkerInv
  <2>2. \A x \in Runs \ {r} : Alive("gateway", x)' <=> Alive("gateway", x)
    BY <1>16 DEF ExecStart, SetTask, TypeOK, TypeInv
  <2> QED BY <1>16, <2>1, <2>2 DEF ExecStart, LaunchInv, RefsExist, TypeOK, TypeInv
<1>17. ASSUME NEW r \in Runs, NEW o \in Owners, ExecEnd(o, r) PROVE LaunchInv'
  <2>1. ~Launching(r)
    BY <1>17 DEF ExecEnd, LaunchInv, WorkerInv
  <2>2. \A x \in Runs \ {r} : Alive("gateway", x)' <=> Alive("gateway", x)
    BY <1>17 DEF ExecEnd, SetTask
  <2>3. \A x \in Runs \ {r} : status'[x] = status[x]
    BY <1>17 DEF ExecEnd, ExecOutcome, Complete, EndAs, TypeOK, TypeInv
  <2> QED BY <1>17, <2>1, <2>2, <2>3 DEF ExecEnd, LaunchInv, RefsExist, TypeInv
<1>18. ASSUME NEW r \in Runs, NEW o \in Owners, ExecReturn(o, r) PROVE LaunchInv'
  BY <1>18 DEF ExecReturn, LaunchInv, LockFree, db, SetTask
<1>19. ASSUME BeginShutdown PROVE LaunchInv'
  BY <1>19 DEF BeginShutdown, LaunchInv, LockFree
<1>20. ASSUME Exit \/ Crash PROVE LaunchInv'
  BY <1>20 DEF Exit, Crash, LoseMemory, LaunchInv, LockFree
<1>21. ASSUME Restart PROVE LaunchInv'
  BY <1>21 DEF Restart, DownInv, LaunchInv
<1> QED
  BY <1>1, <1>2, <1>3, <1>4, <1>5, <1>6, <1>7, <1>8, <1>9, <1>10, <1>11,
     <1>12, <1>13, <1>14, <1>15, <1>16, <1>17, <1>18, <1>19, <1>20, <1>21
     DEF Next, CallEnters, CallResumes, CallLaunches, ExecWorks, Lifespan

LEMMA WorkerStep ==
  ASSUME TypeInv, TypeInv', LaunchInv, WorkerInv, [Next]_vars
  PROVE  WorkerInv'
<1>1. CASE UNCHANGED vars
  BY <1>1 DEF WorkerInv, LaunchInv, executors, db, vars
<1>2. ASSUME NEW c \in Callers, NEW l \in Lanes, NEW n \in Runs, Send(c, l, n)
      PROVE  WorkerInv'
  BY <1>2 DEF Send, WorkerInv, LaunchInv, RefsExist, executors, AwaitPrefix, Fresh, TypeInv
<1>3. ASSUME NEW c \in Callers, NEW r \in Runs, Revive(c, r) PROVE WorkerInv'
  BY <1>3 DEF Revive, WorkerInv, LaunchInv, executors, AwaitPrefix, Revivable
<1>4. ASSUME NEW c \in Callers, NEW r \in Runs, MarkFailed(c, r) PROVE WorkerInv'
  BY <1>4 DEF MarkFailed, WorkerInv, LaunchInv, executors
<1>5. ASSUME NEW c \in Callers, NEW r \in Runs, NEW n \in Runs, RetryInterrupted(c, r, n)
      PROVE  WorkerInv'
  BY <1>5
     DEF RetryInterrupted, WorkerInv, LaunchInv, RefsExist, executors, AwaitPrefix, Fresh,
         TypeOK, TypeInv
<1>6. ASSUME NEW c \in Callers, NEW op \in {"regenerate", "select"}, NEW r \in Runs,
             BeginOnRun(c, op, r)
      PROVE  WorkerInv'
  BY <1>6 DEF BeginOnRun, WorkerInv, LaunchInv, executors, db
<1>7. ASSUME NEW c \in Callers, Regenerate(c) PROVE WorkerInv'
  <2>1. ASSUME NEW n \in Fresh, status' = [status EXCEPT ![n] = "created"],
               AwaitPrefix(c, "launch", n)
        PROVE  WorkerInv'
    BY <1>7, <2>1
       DEF Regenerate, WorkerInv, LaunchInv, RefsExist, executors, AwaitPrefix, Fresh, TypeOK,
           TypeInv
  <2>2. ASSUME Return(c), UNCHANGED db PROVE WorkerInv'
    BY <1>7, <2>2 DEF Regenerate, WorkerInv, executors, db, Return
  <2> QED
    BY <1>7, <2>1, <2>2 DEF Regenerate
<1>8. ASSUME NEW c \in Callers, SelectVariant(c) PROVE WorkerInv'
  BY <1>8 DEF SelectVariant, WorkerInv, LaunchInv, executors, Return
<1>9. ASSUME NEW c \in Callers, LaunchOk(c) PROVE WorkerInv'
  BY <1>9 DEF LaunchOk, WorkerInv, LaunchInv, db, Return
<1>10. ASSUME NEW c \in Callers, LaunchFail(c) PROVE WorkerInv'
  BY <1>10 DEF LaunchFail, WorkerInv, LaunchInv, executors, Return
<1>11. ASSUME NEW r \in Runs, Cancel(r) PROVE WorkerInv'
  BY <1>11 DEF Cancel, WorkerInv, LaunchInv
<1>12. ASSUME NEW r \in Runs, NEW o \in Owners, ExecAdvise(o, r) \/ ExecTools(o, r)
      PROVE  WorkerInv'
  BY <1>12 DEF ExecAdvise, ExecTools, WorkerInv, LaunchInv, executors
<1>13. ASSUME NEW r \in Runs, ExecAskApproval(r) \/ ExecApprovalDecided(r)
      PROVE  WorkerInv'
  BY <1>13
     DEF ExecAskApproval, ExecApprovalDecided, WorkerInv, LaunchInv, SetTask, TypeOK,
         TypeInv
<1>14. ASSUME NEW r \in Runs, OnRunDone(r) PROVE WorkerInv'
  BY <1>14 DEF OnRunDone, WorkerInv, LaunchInv, db
<1>15. ASSUME NEW n \in Runs, NEW l \in WorkerLanes, WorkerSubmit(n, l) PROVE WorkerInv'
  BY <1>15 DEF WorkerSubmit, WorkerInv, LaunchInv, RefsExist, Fresh, TypeInv
<1>16. ASSUME NEW r \in Runs, NEW o \in Owners, ExecStart(o, r) PROVE WorkerInv'
  BY <1>16 DEF ExecStart, WorkerInv, LaunchInv, SetTask, TypeOK, TypeInv
<1>17. ASSUME NEW r \in Runs, NEW o \in Owners, ExecEnd(o, r) PROVE WorkerInv'
  BY <1>17
     DEF ExecEnd, ExecOutcome, Complete, EndAs, WorkerInv, LaunchInv, SetTask, TypeOK,
         TypeInv
<1>18. ASSUME NEW r \in Runs, NEW o \in Owners, ExecReturn(o, r) PROVE WorkerInv'
  BY <1>18 DEF ExecReturn, WorkerInv, LaunchInv, db, SetTask
<1>19. ASSUME BeginShutdown PROVE WorkerInv'
  BY <1>19 DEF BeginShutdown, WorkerInv, LaunchInv
<1>20. ASSUME Exit \/ Crash PROVE WorkerInv'
  BY <1>20 DEF Exit, Crash, LoseMemory, WorkerInv, LaunchInv
<1>21. ASSUME Restart PROVE WorkerInv'
  BY <1>21 DEF Restart, WorkerInv, LaunchInv, executors
<1> QED
  BY <1>1, <1>2, <1>3, <1>4, <1>5, <1>6, <1>7, <1>8, <1>9, <1>10, <1>11,
     <1>12, <1>13, <1>14, <1>15, <1>16, <1>17, <1>18, <1>19, <1>20, <1>21
     DEF Next, CallEnters, CallResumes, CallLaunches, ExecWorks, Lifespan

LEMMA EndingStep ==
  ASSUME TypeInv, TypeInv', HandlesMatchTasks, EndingInv, LaunchInv, [Next]_vars
  PROVE  EndingInv'
<1>1. CASE UNCHANGED vars
  BY <1>1 DEF EndingInv, HandlesMatchTasks, FindActiveRun, executors, db, vars
<1>2. ASSUME NEW c \in Callers, NEW l \in Lanes, NEW n \in Runs, Send(c, l, n)
      PROVE  EndingInv'
  BY <1>2 DEF Send, EndingInv, HandlesMatchTasks, FindActiveRun, executors, Fresh
<1>3. ASSUME NEW c \in Callers, NEW r \in Runs, Revive(c, r) PROVE EndingInv'
  BY <1>3 DEF Revive, EndingInv, HandlesMatchTasks, FindActiveRun, executors
<1>4. ASSUME NEW c \in Callers, NEW r \in Runs, MarkFailed(c, r) PROVE EndingInv'
  BY <1>4 DEF MarkFailed, EndingInv, HandlesMatchTasks, FindActiveRun, executors
<1>5. ASSUME NEW c \in Callers, NEW r \in Runs, NEW n \in Runs, RetryInterrupted(c, r, n)
      PROVE  EndingInv'
  BY <1>5
     DEF RetryInterrupted, EndingInv, HandlesMatchTasks, FindActiveRun, executors, Fresh,
         TypeOK, TypeInv
<1>6. ASSUME NEW c \in Callers, NEW op \in {"regenerate", "select"}, NEW r \in Runs,
             BeginOnRun(c, op, r)
      PROVE  EndingInv'
  BY <1>6 DEF BeginOnRun, EndingInv, HandlesMatchTasks, FindActiveRun, executors, db
<1>7. ASSUME NEW c \in Callers, Regenerate(c) PROVE EndingInv'
  BY <1>7
     DEF Regenerate, EndingInv, HandlesMatchTasks, FindActiveRun, executors, db, Fresh,
         TypeOK, TypeInv
<1>8. ASSUME NEW c \in Callers, SelectVariant(c) PROVE EndingInv'
  BY <1>8 DEF SelectVariant, EndingInv, HandlesMatchTasks, FindActiveRun, executors
<1>9. ASSUME NEW c \in Callers, LaunchOk(c) PROVE EndingInv'
  BY <1>9 DEF LaunchOk, EndingInv, HandlesMatchTasks, FindActiveRun, db
<1>10. ASSUME NEW c \in Callers, LaunchFail(c) PROVE EndingInv'
  BY <1>10 DEF LaunchFail, EndingInv, HandlesMatchTasks, FindActiveRun, executors
<1>11. ASSUME NEW r \in Runs, Cancel(r) PROVE EndingInv'
  BY <1>11 DEF Cancel, EndingInv, HandlesMatchTasks, FindActiveRun
<1>12. ASSUME NEW r \in Runs, NEW o \in Owners, ExecAdvise(o, r) \/ ExecTools(o, r)
      PROVE  EndingInv'
  BY <1>12 DEF ExecAdvise, ExecTools, EndingInv, HandlesMatchTasks, FindActiveRun, executors
<1>13. ASSUME NEW r \in Runs, ExecAskApproval(r) \/ ExecApprovalDecided(r)
      PROVE  EndingInv'
  BY <1>13
     DEF ExecAskApproval, ExecApprovalDecided, EndingInv, HandlesMatchTasks, FindActiveRun,
         SetTask, TypeOK, TypeInv
<1>14. ASSUME NEW r \in Runs, OnRunDone(r) PROVE EndingInv'
  BY <1>14 DEF OnRunDone, EndingInv, HandlesMatchTasks, FindActiveRun, db
<1>15. ASSUME NEW n \in Runs, NEW l \in WorkerLanes, WorkerSubmit(n, l) PROVE EndingInv'
  BY <1>15 DEF WorkerSubmit, EndingInv, HandlesMatchTasks, FindActiveRun, Fresh
<1>16. ASSUME NEW r \in Runs, NEW o \in Owners, ExecStart(o, r) PROVE EndingInv'
  BY <1>16
     DEF ExecStart, EndingInv, HandlesMatchTasks, FindActiveRun, SetTask, TypeOK, TypeInv
<1>17. ASSUME NEW r \in Runs, NEW o \in Owners, ExecEnd(o, r) PROVE EndingInv'
  BY <1>17
     DEF ExecEnd, ExecOutcome, Complete, EndAs, EndingInv, HandlesMatchTasks, FindActiveRun,
         SetTask, TypeOK, TypeInv
<1>18. ASSUME NEW r \in Runs, NEW o \in Owners, ExecReturn(o, r) PROVE EndingInv'
  BY <1>18 DEF ExecReturn, EndingInv, HandlesMatchTasks, FindActiveRun, db, SetTask
<1>19. ASSUME BeginShutdown PROVE EndingInv'
  BY <1>19 DEF BeginShutdown, EndingInv, HandlesMatchTasks, FindActiveRun
<1>20. ASSUME Exit \/ Crash PROVE EndingInv'
  BY <1>20 DEF Exit, Crash, LoseMemory, EndingInv, HandlesMatchTasks, FindActiveRun
<1>21. ASSUME Restart PROVE EndingInv'
  BY <1>21 DEF Restart, EndingInv, HandlesMatchTasks, FindActiveRun, executors
<1> QED
  BY <1>1, <1>2, <1>3, <1>4, <1>5, <1>6, <1>7, <1>8, <1>9, <1>10, <1>11,
     <1>12, <1>13, <1>14, <1>15, <1>16, <1>17, <1>18, <1>19, <1>20, <1>21
     DEF Next, CallEnters, CallResumes, CallLaunches, ExecWorks, Lifespan

LEMMA DownStep ==
  ASSUME TypeInv, TypeInv', DownInv, [Next]_vars
  PROVE  DownInv'
<1>1. CASE UNCHANGED vars
  BY <1>1 DEF DownInv, process, executors, vars
<1>2. ASSUME NEW c \in Callers, NEW l \in Lanes, NEW n \in Runs, Send(c, l, n)
      PROVE  DownInv'
  BY <1>2 DEF Send, DownInv, process, Enters
<1>3. ASSUME NEW c \in Callers, NEW r \in Runs, Revive(c, r) PROVE DownInv'
  BY <1>3 DEF Revive, DownInv, process, Enters
<1>4. ASSUME NEW c \in Callers, NEW r \in Runs, MarkFailed(c, r) PROVE DownInv'
  BY <1>4 DEF MarkFailed, DownInv, process, Enters
<1>5. ASSUME NEW c \in Callers, NEW r \in Runs, NEW n \in Runs, RetryInterrupted(c, r, n)
      PROVE  DownInv'
  BY <1>5 DEF RetryInterrupted, DownInv, process, Enters
<1>6. ASSUME NEW c \in Callers, NEW op \in {"regenerate", "select"}, NEW r \in Runs,
             BeginOnRun(c, op, r)
      PROVE  DownInv'
  BY <1>6 DEF BeginOnRun, DownInv, process
<1>7. ASSUME NEW c \in Callers, Regenerate(c) PROVE DownInv'
  BY <1>7 DEF Regenerate, DownInv, process
<1>8. ASSUME NEW c \in Callers, SelectVariant(c) PROVE DownInv'
  BY <1>8 DEF SelectVariant, DownInv, process
<1>9. ASSUME NEW c \in Callers, LaunchOk(c) PROVE DownInv'
  BY <1>9 DEF LaunchOk, DownInv, process
<1>10. ASSUME NEW c \in Callers, LaunchFail(c) PROVE DownInv'
  BY <1>10 DEF LaunchFail, DownInv, process
<1>11. ASSUME NEW r \in Runs, Cancel(r) PROVE DownInv'
  BY <1>11 DEF Cancel, DownInv, process
<1>12. ASSUME NEW r \in Runs, NEW o \in Owners, ExecAdvise(o, r) \/ ExecTools(o, r)
      PROVE  DownInv'
  BY <1>12 DEF ExecAdvise, ExecTools, DownInv, process
<1>13. ASSUME NEW r \in Runs, ExecAskApproval(r) \/ ExecApprovalDecided(r) PROVE DownInv'
  BY <1>13 DEF ExecAskApproval, ExecApprovalDecided, DownInv, process
<1>14. ASSUME NEW r \in Runs, OnRunDone(r) PROVE DownInv'
  BY <1>14 DEF OnRunDone, DownInv, process
<1>15. ASSUME NEW n \in Runs, NEW l \in WorkerLanes, WorkerSubmit(n, l) PROVE DownInv'
  BY <1>15 DEF WorkerSubmit, DownInv, process
<1>16. ASSUME NEW r \in Runs, NEW o \in Owners, ExecStart(o, r) PROVE DownInv'
  BY <1>16 DEF ExecStart, DownInv, process
<1>17. ASSUME NEW r \in Runs, NEW o \in Owners, ExecEnd(o, r) PROVE DownInv'
  BY <1>17 DEF ExecEnd, ExecOutcome, Complete, EndAs, DownInv, process
<1>18. ASSUME NEW r \in Runs, NEW o \in Owners, ExecReturn(o, r) PROVE DownInv'
  BY <1>18 DEF ExecReturn, DownInv, process
<1>19. ASSUME BeginShutdown PROVE DownInv'
  BY <1>19 DEF BeginShutdown, DownInv
<1>20. ASSUME Exit \/ Crash PROVE DownInv'
  BY <1>20 DEF Exit, Crash, LoseMemory, DownInv
<1>21. ASSUME Restart PROVE DownInv'
  BY <1>21 DEF Restart, DownInv
<1> QED
  BY <1>1, <1>2, <1>3, <1>4, <1>5, <1>6, <1>7, <1>8, <1>9, <1>10, <1>11,
     <1>12, <1>13, <1>14, <1>15, <1>16, <1>17, <1>18, <1>19, <1>20, <1>21
     DEF Next, CallEnters, CallResumes, CallLaunches, ExecWorks, Lifespan

-----------------------------------------------------------------------------
(* Rows and executors.                                                      *)

LEMMA ExecutingStep ==
  ASSUME TypeInv, TypeInv', HandlesMatchTasks, LaunchInv, WorkerInv, DownInv,
         ExecutingIsActive, [Next]_vars
  PROVE  ExecutingIsActive'
<1>1. CASE UNCHANGED vars
  BY <1>1
     DEF ExecutingIsActive, HandlesMatchTasks, FindActiveRun, LaunchInv, WorkerInv, DownInv,
         executors, db, vars
<1>2. ASSUME NEW c \in Callers, NEW l \in Lanes, NEW n \in Runs, Send(c, l, n)
      PROVE  ExecutingIsActive'
  BY <1>2
     DEF Send, ExecutingIsActive, HandlesMatchTasks, FindActiveRun, LaunchInv, WorkerInv,
         DownInv, executors
<1>3. ASSUME NEW c \in Callers, NEW r \in Runs, Revive(c, r) PROVE ExecutingIsActive'
  BY <1>3
     DEF Revive, ExecutingIsActive, HandlesMatchTasks, FindActiveRun, LaunchInv, WorkerInv,
         DownInv, executors
<1>4. ASSUME NEW c \in Callers, NEW r \in Runs, MarkFailed(c, r)
      PROVE  ExecutingIsActive'
  BY <1>4
     DEF MarkFailed, ExecutingIsActive, HandlesMatchTasks, FindActiveRun, LaunchInv,
         WorkerInv, DownInv, executors
<1>5. ASSUME NEW c \in Callers, NEW r \in Runs, NEW n \in Runs, RetryInterrupted(c, r, n)
      PROVE  ExecutingIsActive'
  BY <1>5
     DEF RetryInterrupted, ExecutingIsActive, HandlesMatchTasks, FindActiveRun, LaunchInv,
         WorkerInv, DownInv, process, executors, Fresh, TypeOK, TypeInv
<1>6. ASSUME NEW c \in Callers, NEW op \in {"regenerate", "select"}, NEW r \in Runs,
             BeginOnRun(c, op, r)
      PROVE  ExecutingIsActive'
  BY <1>6
     DEF BeginOnRun, ExecutingIsActive, HandlesMatchTasks, FindActiveRun, LaunchInv,
         WorkerInv, DownInv, executors, db
<1>7. ASSUME NEW c \in Callers, Regenerate(c) PROVE ExecutingIsActive'
  BY <1>7
     DEF Regenerate, ExecutingIsActive, HandlesMatchTasks, FindActiveRun, LaunchInv,
         WorkerInv, DownInv, executors, db, TypeOK, TypeInv
<1>8. ASSUME NEW c \in Callers, SelectVariant(c) PROVE ExecutingIsActive'
  BY <1>8
     DEF SelectVariant, ExecutingIsActive, HandlesMatchTasks, FindActiveRun, LaunchInv,
         WorkerInv, DownInv, executors
<1>9. ASSUME NEW c \in Callers, LaunchOk(c) PROVE ExecutingIsActive'
  BY <1>9
     DEF LaunchOk, ExecutingIsActive, HandlesMatchTasks, FindActiveRun, LaunchInv,
         WorkerInv, DownInv, db
<1>10. ASSUME NEW c \in Callers, LaunchFail(c) PROVE ExecutingIsActive'
  BY <1>10
     DEF LaunchFail, ExecutingIsActive, HandlesMatchTasks, FindActiveRun, LaunchInv,
         WorkerInv, DownInv, executors
<1>11. ASSUME NEW r \in Runs, Cancel(r) PROVE ExecutingIsActive'
  BY <1>11
     DEF Cancel, ExecutingIsActive, HandlesMatchTasks, FindActiveRun, LaunchInv, WorkerInv,
         DownInv
<1>12. ASSUME NEW r \in Runs, NEW o \in Owners, ExecAdvise(o, r) \/ ExecTools(o, r)
      PROVE  ExecutingIsActive'
  BY <1>12
     DEF ExecAdvise, ExecTools, ExecutingIsActive, HandlesMatchTasks, FindActiveRun,
         LaunchInv, WorkerInv, DownInv, executors
<1>13. ASSUME NEW r \in Runs, ExecAskApproval(r) \/ ExecApprovalDecided(r)
      PROVE  ExecutingIsActive'
  BY <1>13
     DEF ExecAskApproval, ExecApprovalDecided, ExecutingIsActive, HandlesMatchTasks,
         FindActiveRun, LaunchInv, WorkerInv, DownInv, SetTask, TypeOK, TypeInv
<1>14. ASSUME NEW r \in Runs, OnRunDone(r) PROVE ExecutingIsActive'
  BY <1>14
     DEF OnRunDone, ExecutingIsActive, HandlesMatchTasks, FindActiveRun, LaunchInv,
         WorkerInv, DownInv, db
<1>15. ASSUME NEW n \in Runs, NEW l \in WorkerLanes, WorkerSubmit(n, l)
      PROVE  ExecutingIsActive'
  BY <1>15
     DEF WorkerSubmit, ExecutingIsActive, HandlesMatchTasks, FindActiveRun, LaunchInv,
         WorkerInv, DownInv
<1>16. ASSUME NEW r \in Runs, NEW o \in Owners, ExecStart(o, r) PROVE ExecutingIsActive'
  BY <1>16
     DEF ExecStart, ExecutingIsActive, HandlesMatchTasks, FindActiveRun, LaunchInv,
         WorkerInv, DownInv, SetTask, TypeOK, TypeInv
<1>17. ASSUME NEW r \in Runs, NEW o \in Owners, ExecEnd(o, r) PROVE ExecutingIsActive'
  BY <1>17
     DEF ExecEnd, ExecOutcome, Complete, EndAs, ExecutingIsActive, HandlesMatchTasks,
         FindActiveRun, LaunchInv, WorkerInv, DownInv, SetTask, TypeOK, TypeInv
<1>18. ASSUME NEW r \in Runs, NEW o \in Owners, ExecReturn(o, r) PROVE ExecutingIsActive'
  BY <1>18
     DEF ExecReturn, ExecutingIsActive, HandlesMatchTasks, FindActiveRun, LaunchInv,
         WorkerInv, DownInv, db, SetTask
<1>19. ASSUME BeginShutdown PROVE ExecutingIsActive'
  BY <1>19
     DEF BeginShutdown, ExecutingIsActive, HandlesMatchTasks, FindActiveRun, LaunchInv,
         WorkerInv, DownInv
<1>20. ASSUME Exit \/ Crash PROVE ExecutingIsActive'
  BY <1>20
     DEF Exit, Crash, LoseMemory, ExecutingIsActive, HandlesMatchTasks, FindActiveRun,
         LaunchInv, WorkerInv, DownInv
<1>21. ASSUME Restart PROVE ExecutingIsActive'
  BY <1>21
     DEF Restart, ExecutingIsActive, HandlesMatchTasks, FindActiveRun, LaunchInv, WorkerInv,
         DownInv, executors
<1> QED
  BY <1>1, <1>2, <1>3, <1>4, <1>5, <1>6, <1>7, <1>8, <1>9, <1>10, <1>11,
     <1>12, <1>13, <1>14, <1>15, <1>16, <1>17, <1>18, <1>19, <1>20, <1>21
     DEF Next, CallEnters, CallResumes, CallLaunches, ExecWorks, Lifespan

LEMMA OwnerStep ==
  ASSUME TypeInv, TypeInv', HandlesMatchTasks, LaunchInv, DownInv, RunningHasExecutor, [Next]_vars
  PROVE  RunningHasExecutor'
<1>1. CASE UNCHANGED vars
  BY <1>1 DEF RunningHasExecutor, Owned, LaunchInv, DownInv, process, executors, db, vars
<1>2. ASSUME NEW c \in Callers, NEW l \in Lanes, NEW n \in Runs, Send(c, l, n)
      PROVE  RunningHasExecutor'
  BY <1>2
     DEF Send, RunningHasExecutor, Owned, LaunchInv, DownInv, process, executors,
         AwaitPrefix, Enters
<1>3. ASSUME NEW c \in Callers, NEW r \in Runs, Revive(c, r) PROVE RunningHasExecutor'
  BY <1>3
     DEF Revive, RunningHasExecutor, Owned, LaunchInv, DownInv, process, executors,
         AwaitPrefix, Enters, TypeOK, TypeInv
<1>4. ASSUME NEW c \in Callers, NEW r \in Runs, MarkFailed(c, r)
      PROVE  RunningHasExecutor'
  BY <1>4 DEF MarkFailed, RunningHasExecutor, Owned, LaunchInv, DownInv, process, executors
<1>5. ASSUME NEW c \in Callers, NEW r \in Runs, NEW n \in Runs, RetryInterrupted(c, r, n)
      PROVE  RunningHasExecutor'
  BY <1>5
     DEF RetryInterrupted, RunningHasExecutor, Owned, LaunchInv, DownInv, process,
         executors, AwaitPrefix, Enters, TypeOK, TypeInv
<1>6. ASSUME NEW c \in Callers, NEW op \in {"regenerate", "select"}, NEW r \in Runs,
             BeginOnRun(c, op, r)
      PROVE  RunningHasExecutor'
  BY <1>6
     DEF BeginOnRun, RunningHasExecutor, Owned, LaunchInv, DownInv, process, executors, db
<1>7. ASSUME NEW c \in Callers, Regenerate(c) PROVE RunningHasExecutor'
  <2>1. UNCHANGED <<phase, skipped, task>> /\ call[c].pc = "regenerate"
    BY <1>7 DEF Regenerate, process, executors
  <2>2. \A r \in Runs : Launching(r) => Launching(r)'
    <3>1. \A d \in Callers \ {c} : call'[d] = call[d]
      BY <1>7 DEF Regenerate, Return, AwaitPrefix, TypeOK, TypeInv
    <3> QED BY <2>1, <3>1 DEF Launching
  <2>3. \A r \in Runs : status'[r] \in {"running", "waiting_approval", "cancelling"}
                           => status'[r] = status[r]
    BY <1>7 DEF Regenerate, db, TypeOK, TypeInv
  <2> QED BY <2>1, <2>2, <2>3 DEF RunningHasExecutor, Owned
<1>8. ASSUME NEW c \in Callers, SelectVariant(c) PROVE RunningHasExecutor'
  BY <1>8
     DEF SelectVariant, RunningHasExecutor, Owned, LaunchInv, DownInv, process, executors,
         Return
<1>9. ASSUME NEW c \in Callers, LaunchOk(c) PROVE RunningHasExecutor'
  BY <1>9
     DEF LaunchOk, RunningHasExecutor, Owned, LaunchInv, DownInv, process, db, TypeOK,
         TypeInv
<1>10. ASSUME NEW c \in Callers, LaunchFail(c) PROVE RunningHasExecutor'
  BY <1>10
     DEF LaunchFail, RunningHasExecutor, Owned, LaunchInv, DownInv, process, executors,
         TypeOK, TypeInv
<1>11. ASSUME NEW r \in Runs, Cancel(r) PROVE RunningHasExecutor'
  BY <1>11 DEF Cancel, RunningHasExecutor, Owned, LaunchInv, DownInv, process
<1>12. ASSUME NEW r \in Runs, NEW o \in Owners, ExecAdvise(o, r) \/ ExecTools(o, r)
      PROVE  RunningHasExecutor'
  BY <1>12
     DEF ExecAdvise, ExecTools, RunningHasExecutor, Owned, LaunchInv, DownInv, process,
         executors
<1>13. ASSUME NEW r \in Runs, ExecAskApproval(r) \/ ExecApprovalDecided(r)
      PROVE  RunningHasExecutor'
  BY <1>13
     DEF ExecAskApproval, ExecApprovalDecided, RunningHasExecutor, Owned, LaunchInv,
         DownInv, process, SetTask, TypeOK, TypeInv
<1>14. ASSUME NEW r \in Runs, OnRunDone(r) PROVE RunningHasExecutor'
  BY <1>14 DEF OnRunDone, RunningHasExecutor, Owned, LaunchInv, DownInv, process, db
<1>15. ASSUME NEW n \in Runs, NEW l \in WorkerLanes, WorkerSubmit(n, l)
      PROVE  RunningHasExecutor'
  BY <1>15 DEF WorkerSubmit, RunningHasExecutor, Owned, LaunchInv, DownInv, process
<1>16. ASSUME NEW r \in Runs, NEW o \in Owners, ExecStart(o, r) PROVE RunningHasExecutor'
  BY <1>16
     DEF ExecStart, RunningHasExecutor, Owned, LaunchInv, DownInv, process, SetTask, TypeOK,
         TypeInv
<1>17. ASSUME NEW r \in Runs, NEW o \in Owners, ExecEnd(o, r) PROVE RunningHasExecutor'
  BY <1>17
     DEF ExecEnd, ExecOutcome, Complete, EndAs, RunningHasExecutor, Owned, LaunchInv,
         DownInv, process, SetTask, TypeOK, TypeInv
<1>18. ASSUME NEW r \in Runs, NEW o \in Owners, ExecReturn(o, r)
      PROVE  RunningHasExecutor'
  BY <1>18
     DEF ExecReturn, RunningHasExecutor, Owned, LaunchInv, DownInv, process, db, SetTask
<1>19. ASSUME BeginShutdown PROVE RunningHasExecutor'
  BY <1>19 DEF BeginShutdown, RunningHasExecutor, Owned, LaunchInv, DownInv
<1>20. ASSUME Exit \/ Crash PROVE RunningHasExecutor'
  BY <1>20 DEF Exit, Crash, LoseMemory, RunningHasExecutor, Owned, LaunchInv, DownInv
<1>21. ASSUME Restart PROVE RunningHasExecutor'
  BY <1>21 DEF Restart, RunningHasExecutor, Owned, LaunchInv, DownInv
<1> QED
  BY <1>1, <1>2, <1>3, <1>4, <1>5, <1>6, <1>7, <1>8, <1>9, <1>10, <1>11,
     <1>12, <1>13, <1>14, <1>15, <1>16, <1>17, <1>18, <1>19, <1>20, <1>21
     DEF Next, CallEnters, CallResumes, CallLaunches, ExecWorks, Lifespan

LEMMA TerminalStep ==
  ASSUME TypeInv, TypeInv', LaunchInv, [Next]_vars
  PROVE  OnlyStoppedRunsReturn
<1>1. CASE UNCHANGED vars
  BY <1>1 DEF OnlyStoppedRunsReturn, LaunchInv, db, vars
<1>2. ASSUME NEW c \in Callers, NEW l \in Lanes, NEW n \in Runs, Send(c, l, n)
      PROVE  OnlyStoppedRunsReturn
  BY <1>2 DEF Send, OnlyStoppedRunsReturn, LaunchInv, Fresh
<1>3. ASSUME NEW c \in Callers, NEW r \in Runs, Revive(c, r) PROVE OnlyStoppedRunsReturn
  BY <1>3 DEF Revive, OnlyStoppedRunsReturn, Revivable
<1>4. ASSUME NEW c \in Callers, NEW r \in Runs, MarkFailed(c, r)
      PROVE  OnlyStoppedRunsReturn
  BY <1>4 DEF MarkFailed, OnlyStoppedRunsReturn, LaunchInv
<1>5. ASSUME NEW c \in Callers, NEW r \in Runs, NEW n \in Runs, RetryInterrupted(c, r, n)
      PROVE  OnlyStoppedRunsReturn
  BY <1>5 DEF RetryInterrupted, OnlyStoppedRunsReturn, LaunchInv, Fresh, TypeOK, TypeInv
<1>6. ASSUME NEW c \in Callers, NEW op \in {"regenerate", "select"}, NEW r \in Runs,
             BeginOnRun(c, op, r)
      PROVE  OnlyStoppedRunsReturn
  BY <1>6 DEF BeginOnRun, OnlyStoppedRunsReturn, LaunchInv, db
<1>7. ASSUME NEW c \in Callers, Regenerate(c) PROVE OnlyStoppedRunsReturn
  BY <1>7 DEF Regenerate, OnlyStoppedRunsReturn, LaunchInv, db, Fresh, TypeOK, TypeInv
<1>8. ASSUME NEW c \in Callers, SelectVariant(c) PROVE OnlyStoppedRunsReturn
  BY <1>8 DEF SelectVariant, OnlyStoppedRunsReturn, LaunchInv
<1>9. ASSUME NEW c \in Callers, LaunchOk(c) PROVE OnlyStoppedRunsReturn
  BY <1>9 DEF LaunchOk, OnlyStoppedRunsReturn, LaunchInv, db
<1>10. ASSUME NEW c \in Callers, LaunchFail(c) PROVE OnlyStoppedRunsReturn
  BY <1>10 DEF LaunchFail, OnlyStoppedRunsReturn, LaunchInv
<1>11. ASSUME NEW r \in Runs, Cancel(r) PROVE OnlyStoppedRunsReturn
  BY <1>11 DEF Cancel, OnlyStoppedRunsReturn, LaunchInv
<1>12. ASSUME NEW r \in Runs, NEW o \in Owners, ExecAdvise(o, r) \/ ExecTools(o, r)
      PROVE  OnlyStoppedRunsReturn
  BY <1>12 DEF ExecAdvise, ExecTools, OnlyStoppedRunsReturn, LaunchInv
<1>13. ASSUME NEW r \in Runs, ExecAskApproval(r) \/ ExecApprovalDecided(r)
      PROVE  OnlyStoppedRunsReturn
  BY <1>13
     DEF ExecAskApproval, ExecApprovalDecided, OnlyStoppedRunsReturn, LaunchInv, TypeOK,
         TypeInv
<1>14. ASSUME NEW r \in Runs, OnRunDone(r) PROVE OnlyStoppedRunsReturn
  BY <1>14 DEF OnRunDone, OnlyStoppedRunsReturn, LaunchInv, db
<1>15. ASSUME NEW n \in Runs, NEW l \in WorkerLanes, WorkerSubmit(n, l)
      PROVE  OnlyStoppedRunsReturn
  BY <1>15 DEF WorkerSubmit, OnlyStoppedRunsReturn, LaunchInv, Fresh
<1>16. ASSUME NEW r \in Runs, NEW o \in Owners, ExecStart(o, r)
      PROVE  OnlyStoppedRunsReturn
  BY <1>16 DEF ExecStart, OnlyStoppedRunsReturn, LaunchInv, TypeOK, TypeInv
<1>17. ASSUME NEW r \in Runs, NEW o \in Owners, ExecEnd(o, r) PROVE OnlyStoppedRunsReturn
  BY <1>17 DEF ExecEnd, ExecOutcome, Complete, EndAs, OnlyStoppedRunsReturn, TypeOK, TypeInv
<1>18. ASSUME NEW r \in Runs, NEW o \in Owners, ExecReturn(o, r)
      PROVE  OnlyStoppedRunsReturn
  BY <1>18 DEF ExecReturn, OnlyStoppedRunsReturn, LaunchInv, db
<1>19. ASSUME BeginShutdown PROVE OnlyStoppedRunsReturn
  BY <1>19 DEF BeginShutdown, OnlyStoppedRunsReturn, LaunchInv
<1>20. ASSUME Exit \/ Crash PROVE OnlyStoppedRunsReturn
  BY <1>20 DEF Exit, Crash, LoseMemory, OnlyStoppedRunsReturn, LaunchInv, db
<1>21. ASSUME Restart PROVE OnlyStoppedRunsReturn
  BY <1>21 DEF Restart, OnlyStoppedRunsReturn, LaunchInv
<1> QED
  BY <1>1, <1>2, <1>3, <1>4, <1>5, <1>6, <1>7, <1>8, <1>9, <1>10, <1>11,
     <1>12, <1>13, <1>14, <1>15, <1>16, <1>17, <1>18, <1>19, <1>20, <1>21
     DEF Next, CallEnters, CallResumes, CallLaunches, ExecWorks, Lifespan

-----------------------------------------------------------------------------
(* The theorems.                                                            *)

LEMMA InitInv == Init => IndInv
<1> SUFFICES ASSUME Init PROVE IndInv
  OBVIOUS
<1>1. TypeInv
  BY InitTypes
<1> QED
  BY <1>1
     DEF Init, IndInv, OneActivePerLane, OneActiveVariant, HandlesMatchTasks, LaunchInv,
         WorkerInv, EndingInv, DownInv, ExecutingIsActive, RunningHasExecutor, TypeInv

LEMMA StepInv == IndInv /\ [Next]_vars => IndInv'
  BY StepTypes, LaneStep, VariantStep, HandleStep, LaunchStep, WorkerStep, EndingStep,
     DownStep, ExecutingStep, OwnerStep
     DEF IndInv, TypeInv

\* The inductive invariant: rows, handles, tasks and calls of the gateway agree
\* in every reachable state.
THEOREM Invariance == Spec => []IndInv
  BY InitInv, StepInv, PTL DEF Spec

\* Every variable keeps its type, and every row has a lane and a sibling group.
THEOREM TypeCorrect == Spec => []TypeOK
<1>1. IndInv => TypeOK
  BY DEF IndInv
<1> QED
  BY <1>1, Invariance, PTL

\* No lane ever has two active runs, although the database's unique index is not
\* in the model: the code's own checks suffice.
THEOREM LaneSafety == Spec => []OneActivePerLane
<1>1. IndInv => OneActivePerLane
  BY DEF IndInv
<1> QED
  BY <1>1, Invariance, PTL

\* Runs that answer the same message have at most one active variant.
THEOREM VariantSafety == Spec => []OneActiveVariant
<1>1. IndInv => OneActiveVariant
  BY DEF IndInv
<1> QED
  BY <1>1, Invariance, PTL

\* The two indexes of handles always agree with the executor tasks.
THEOREM HandleSafety == Spec => []HandlesMatchTasks
<1>1. IndInv => HandlesMatchTasks
  BY DEF IndInv
<1> QED
  BY <1>1, Invariance, PTL

\* While the process serves, a row that says running has somebody who runs it.
THEOREM NoFakeRunning == Spec => []RunningHasExecutor
<1>1. IndInv => RunningHasExecutor
  BY DEF IndInv
<1> QED
  BY <1>1, Invariance, PTL

\* Nobody finalises the row of a run under its gateway executor.
THEOREM ExecutionSafety == Spec => []ExecutingIsActive
<1>1. IndInv => ExecutingIsActive
  BY DEF IndInv
<1> QED
  BY <1>1, Invariance, PTL

\* The gateway and the worker never execute the same run at once.
THEOREM SingleExecutor == Spec => []OneExecutorPerRun
<1>1. IndInv => OneExecutorPerRun
  BY DEF IndInv, WorkerInv, OneExecutorPerRun
<1> QED
  BY <1>1, Invariance, PTL

\* A terminal run only ever leaves its status by the revival of a stopped run.
THEOREM Finality == Spec => TerminalIsFinal
<1>1. IndInv /\ [Next]_vars => [OnlyStoppedRunsReturn]_vars
  <2> SUFFICES ASSUME IndInv, [Next]_vars PROVE OnlyStoppedRunsReturn
    OBVIOUS
  <2>1. TypeInv /\ TypeInv'
    BY StepTypes DEF IndInv, TypeInv
  <2> QED
    BY <2>1, TerminalStep DEF IndInv
<1> QED
  BY <1>1, Invariance, PTL DEF Spec, TerminalIsFinal
=============================================================================
