-------------------------- MODULE Delegation_proofs --------------------------
(* Theorems about Delegation and the wake-ups it is composed with, for every *)
(* number of children, parents, conversations and limits, without the bounds *)
(* of TLC.  IndInv is inductive.  What the actions of the handler do to       *)
(* tasks and rows is one lemma per action; what they may do to the windows    *)
(* is one of a few shapes, and the invariants of the wake-ups are proved for  *)
(* those shapes and for the steps of a window.                                *)
EXTENDS Delegation, FiniteSetTheorems, TLAPS

-----------------------------------------------------------------------------
(* The invariants of the children, and the shapes of steps.                 *)

LiveRuns == \A c \in Children : Live(c) => row[c] = "running"

Counts ==
    \A p \in Parents :
        /\ Cardinality(InKernel(p)) <= MaxConcurrent
        /\ Cardinality(Admitted(p)) <= MaxPerParent
        /\ Cardinality(Tracked(p)) <= MaxQueued

ChildInv == TaskInv /\ RunningRowsAreOwned /\ RunningChildrenAreReachable /\ LiveRuns

\* Rows go forward.
Forward ==
    \A c \in Children :
        /\ row[c] # "none" => row'[c] # "none" /\ parent'[c] = parent[c]
        /\ Terminal(c) => row'[c] = row[c]
        /\ reported'[c] = reported[c]

\* No child enters a gate.
Fewer ==
    \A p \in Parents : /\ InKernel(p)' \subseteq InKernel(p)
                       /\ Admitted(p)' \subseteq Admitted(p)
                       /\ Tracked(p)' \subseteq Tracked(p)

\* The windows stay: rows that end are excused, or scheduled.
Excuses ==
    /\ UNCHANGED <<pending, window, batch, messages, slip>>
    /\ process' = "up" <=> process = "up"
    /\ excused \subseteq excused'
    /\ \A c \in Children : Terminal(c)' => Terminal(c) \/ c \in excused'

Schedules(v) ==
    /\ UNCHANGED <<batch, messages, slip, process, excused>>
    /\ Schedule(v)
    /\ \A c \in Children : Terminal(c)' => Terminal(c) \/ Home(c)' = v

\* The windows stop, for good or until the process is back.
Stops == StopWindows /\ process' # "up" /\ UNCHANGED messages

Shape == Forward /\ (Excuses \/ Stops \/ \E v \in Conversations : Schedules(v))

-----------------------------------------------------------------------------
(* The actions of the handler.                                              *)

LEMMA CoordinatorFacts ==
  ASSUME TypeOK, NEW p \in Parents, CoordinatorFor(p)
  PROVE  /\ p \in cache' /\ cache' \subseteq Parents
         /\ record' \in [Children -> Ends \cup {None}]
         /\ \A q \in cache : Tracked(q) # {} => q \in cache'
<1>1. CASE p \in cache
  BY <1>1 DEF CoordinatorFor, TypeOK
<1>2. CASE p \notin cache
  <2>1. PICK evicted \in SUBSET Evictable :
          /\ cache' = (cache \ evicted) \cup {p}
          /\ record' = [c \in Children |-> IF parent[c] \in evicted THEN None ELSE record[c]]
    BY <1>2 DEF CoordinatorFor
  <2> QED
    BY <2>1 DEF TypeOK, Evictable
<1> QED
  BY <1>1, <1>2

LEMMA LookUpStep ==
  ASSUME TypeOK, ChildInv, NEW p \in Parents, LookUp(p)
  PROVE  TypeOK' /\ ChildInv' /\ Fewer /\ Shape
<1>1. /\ p \in cache' /\ cache' \subseteq Parents
      /\ record' \in [Children -> Ends \cup {None}]
      /\ \A q \in cache : Tracked(q) # {} => q \in cache'
  BY CoordinatorFacts DEF LookUp
<1> USE DEF LookUp, rows, service, told
<1>2. TypeOK'
  BY <1>1 DEF TypeOK, Callers
<1>3. RunningChildrenAreReachable'
  BY <1>1 DEF ChildInv, RunningChildrenAreReachable, Tracked
<1>4. TaskInv' /\ RunningRowsAreOwned' /\ LiveRuns'
  BY DEF ChildInv, TaskInv, RunningRowsAreOwned, LiveRuns, Live
<1>5. Fewer
  BY DEF Fewer, InKernel, Admitted, Tracked
<1>6. Shape
  BY DEF Shape, Forward, Excuses, Terminal
<1> QED
  BY <1>2, <1>3, <1>4, <1>5, <1>6 DEF ChildInv

LEMMA SpawnStep ==
  ASSUME TypeOK, ChildInv, NEW c \in Children, NEW p \in Parents, Spawn(c, p)
  PROVE  TypeOK' /\ ChildInv' /\ Shape
<1>1. /\ p \in cache' /\ cache' \subseteq Parents
      /\ record' \in [Children -> Ends \cup {None}]
      /\ \A q \in cache : Tracked(q) # {} => q \in cache'
  BY CoordinatorFacts DEF Spawn, Reserve
<1>2. /\ row[c] = "none" /\ process \in {"up", "closing"}
      /\ parent' = [parent EXCEPT ![c] = p]
      /\ row' = [row EXCEPT ![c] = "running"]
      /\ task' = [task EXCEPT ![c] = "new"]
      /\ UNCHANGED <<reported, service, told, gone, process, faults, token, killing,
                     awaiting, deleting, todo, stops, lost>>
  BY DEF Spawn, Reserve
<1> USE DEF rows, service, told
<1>3. TypeOK'
  BY <1>1, <1>2 DEF TypeOK, RowStates, Callers
<1>4. \A d \in Children \ {c} : row'[d] = row[d] /\ task'[d] = task[d] /\ parent'[d] = parent[d]
  BY <1>2 DEF TypeOK
<1>5. row'[c] = "running" /\ task'[c] = "new" /\ parent'[c] = p /\ p # None
  BY <1>2, NoneAssumption DEF TypeOK
<1>6. RunningChildrenAreReachable'
  BY <1>1, <1>2, <1>4, <1>5 DEF ChildInv, RunningChildrenAreReachable, Tracked
<1>7. RunningRowsAreOwned' /\ LiveRuns'
  BY <1>2, <1>4, <1>5 DEF ChildInv, RunningRowsAreOwned, LiveRuns, Live, Waiting
<1>8. TaskInv'
  BY <1>2, <1>4, <1>5 DEF ChildInv, TaskInv, Live, Waiting
<1>9. Shape
  BY <1>2, <1>4, <1>5 DEF Shape, Forward, Excuses, Terminal, TerminalStates
<1> QED
  BY <1>3, <1>6, <1>7, <1>8, <1>9 DEF ChildInv

LEMMA SpawnTooLateStep ==
  ASSUME TypeOK, ChildInv, NEW c \in Children, NEW p \in Parents, SpawnTooLate(c, p)
  PROVE  TypeOK' /\ ChildInv' /\ Shape
<1>1. /\ p \in cache' /\ cache' \subseteq Parents
      /\ record' \in [Children -> Ends \cup {None}]
      /\ \A q \in cache : Tracked(q) # {} => q \in cache'
  BY CoordinatorFacts DEF SpawnTooLate, Reserve
<1>2. /\ row[c] = "none" /\ process = "draining"
      /\ parent' = [parent EXCEPT ![c] = p]
      /\ \/ row' = [row EXCEPT ![c] = "failed"] /\ lost' = lost
         \/ row' = [row EXCEPT ![c] = "running"] /\ lost' = lost \cup {c}
      /\ faults' \in 0 .. MaxFaults
      /\ excused' = excused \cup {c}
      /\ UNCHANGED <<reported, service, messages, slip, gone, process, task, token, killing,
                     awaiting, deleting, todo, stops>>
  BY MaxFaultsAssumption DEF SpawnTooLate, Reserve, Fault, TypeOK
<1> USE DEF rows, service, told
<1>3. TypeOK'
  BY <1>1, <1>2 DEF TypeOK, RowStates, TerminalStates, Callers
<1>4. \A d \in Children \ {c} : row'[d] = row[d] /\ parent'[d] = parent[d]
  BY <1>2 DEF TypeOK
<1>5. /\ row'[c] \in {"failed", "running"} /\ parent'[c] = p /\ p # None
      /\ row'[c] = "running" => c \in lost'
      /\ lost \subseteq lost'
  BY <1>2, NoneAssumption DEF TypeOK
<1>6. RunningChildrenAreReachable'
  BY <1>1, <1>2, <1>4, <1>5 DEF ChildInv, RunningChildrenAreReachable, Tracked
<1>7. RunningRowsAreOwned' /\ LiveRuns'
  BY <1>2, <1>4, <1>5 DEF ChildInv, RunningRowsAreOwned, LiveRuns, Live
<1>8. TaskInv'
  BY <1>2, <1>4, <1>5 DEF ChildInv, TaskInv, Live
<1>9. Shape
  BY <1>2, <1>4, <1>5 DEF Shape, Forward, Excuses, Terminal, TerminalStates
<1> QED
  BY <1>3, <1>6, <1>7, <1>8, <1>9 DEF ChildInv

LEMMA AdvanceStep ==
  ASSUME TypeOK, ChildInv, NEW c \in Children, Advance(c)
  PROVE  TypeOK' /\ ChildInv' /\ Shape
<1>1. /\ task[c] \in Waiting /\ ~killing[c]
      /\ task' = [task EXCEPT ![c] = NextGate(c)]
      /\ NextGate(c) \in {"admission", "slot", "kernel"}
      /\ UNCHANGED <<rows, service, told, gone, process, faults, cache, record, token, killing,
                     awaiting, deleting, todo, stops, lost>>
  BY DEF Advance, NextGate
<1> USE DEF rows, service, told
<1>2. TypeOK'
  BY <1>1 DEF TypeOK, Callers
<1>3. \A d \in Children : Live(d)' = Live(d) /\ (task'[d] = "dead" <=> task[d] = "dead")
  BY <1>1 DEF Live, Waiting, TypeOK
<1>4. ChildInv'
  BY <1>1, <1>3 DEF ChildInv, TaskInv, RunningRowsAreOwned, RunningChildrenAreReachable, LiveRuns,
     Live, Waiting
<1>5. Shape
  BY <1>1 DEF Shape, Forward, Excuses, Terminal
<1> QED
  BY <1>2, <1>4, <1>5

\* The end of a task: its row is final, or the write is lost.
Ending(c, state) ==
    /\ Live(c) /\ state \in Ends
    /\ task' = [task EXCEPT ![c] = "none"]
    /\ \/ row' = [row EXCEPT ![c] = state] /\ lost' = lost
       \/ row' = row /\ lost' = lost \cup {c}
    /\ killing' = [killing EXCEPT ![c] = FALSE]
    /\ faults' \in 0 .. MaxFaults
    /\ UNCHANGED <<parent, reported, gone, process, batch, messages, slip, cache,
                   awaiting, deleting, todo, stops>>

LEMMA EndingStep ==
  ASSUME TypeOK, ChildInv, NEW c \in Children, NEW state \in Ends, Ending(c, state)
  PROVE  /\ ChildInv' /\ Fewer /\ Forward
         /\ row' \in [Children -> RowStates] /\ lost' \subseteq Children
         /\ task' \in [Children -> {"none", "new", "admission", "slot", "kernel", "dead"}]
         /\ killing' \in [Children -> BOOLEAN]
         /\ \A d \in Children : Terminal(d)' => Terminal(d) \/ d = c
         /\ row[c] = "running" /\ parent[c] \in Parents
         /\ row' # row => row' = [row EXCEPT ![c] = state]
<1> USE DEF Ending
<1>1. \A d \in Children \ {c} : /\ row'[d] = row[d] /\ task'[d] = task[d]
                               /\ killing'[d] = killing[d]
  BY DEF TypeOK
<1>20. task'[c] = "none" /\ killing'[c] = FALSE /\ lost \subseteq lost'
  BY DEF TypeOK
<1>2. /\ task'[c] = "none" /\ killing'[c] = FALSE /\ lost \subseteq lost'
      /\ \/ row'[c] = state
         \/ row'[c] = row[c] /\ c \in lost'
  <2>1. row' = [row EXCEPT ![c] = state] => row'[c] = state
    BY DEF TypeOK
  <2> QED
    BY <1>20, <2>1
<1>3. row[c] = "running" /\ parent[c] # None
  BY DEF ChildInv, LiveRuns, TaskInv
<1>4. state \in {"completed", "failed", "cancelled"}
  BY DEF Ends
<1>5. RunningRowsAreOwned' /\ LiveRuns' /\ RunningChildrenAreReachable'
  BY <1>1, <1>2, <1>3, <1>4
     DEF ChildInv, RunningRowsAreOwned, LiveRuns, Live, Waiting, RunningChildrenAreReachable
<1>6. TaskInv'
  BY <1>1, <1>2, <1>3, <1>4 DEF ChildInv, TaskInv, Live, Waiting
<1>7. Fewer
  BY <1>1, <1>2, <1>3, <1>4 DEF Fewer, InKernel, Admitted, Tracked
<1>8. Forward /\ (\A d \in Children : Terminal(d)' => Terminal(d) \/ d = c)
  BY <1>1, <1>2, <1>3, <1>4 DEF Forward, Terminal, TerminalStates
<1>9. /\ row' \in [Children -> RowStates] /\ lost' \subseteq Children
      /\ task' \in [Children -> {"none", "new", "admission", "slot", "kernel", "dead"}]
      /\ killing' \in [Children -> BOOLEAN]
  BY <1>4 DEF TypeOK, RowStates, TerminalStates
<1> QED
  BY <1>3, <1>5, <1>6, <1>7, <1>8, <1>9 DEF ChildInv, TypeOK

LEMMA FaultTyped ==
  ASSUME TypeOK, Fault
  PROVE  faults' \in 0 .. MaxFaults
  BY MaxFaultsAssumption DEF TypeOK, Fault

LEMMA ReclaimTyped ==
  ASSUME TypeOK, NEW c \in Children, NEW state \in Ends, Reclaim(c, state)
  PROVE  record' \in [Children -> Ends \cup {None}]
  BY DEF TypeOK, Reclaim

LEMMA ScheduleTyped ==
  ASSUME TypeOK, NEW v \in Conversations, Schedule(v)
  PROVE  /\ pending' \subseteq Conversations
         /\ window' \in [Conversations -> {"none", "wait", "send", "sent", "done"}]
  BY DEF TypeOK, Schedule

LEMMA NotKilled ==
  ASSUME TypeOK, NEW c \in Children, ~killing[c]
  PROVE  killing = [killing EXCEPT ![c] = FALSE]
  BY DEF TypeOK

LEMMA KernelEndsStep ==
  ASSUME TypeOK, ChildInv, NEW c \in Children, NEW state \in Ends, KernelEnds(c, state)
  PROVE  TypeOK' /\ ChildInv' /\ Fewer /\ Shape
<1>1. Ending(c, state)
  BY NotKilled DEF KernelEnds, InTheKernel, TaskEnds, Ending, Live, TypeOK
<1>2. /\ ChildInv' /\ Fewer /\ Forward
      /\ row' \in [Children -> RowStates] /\ lost' \subseteq Children
      /\ task' \in [Children -> {"none", "new", "admission", "slot", "kernel", "dead"}]
      /\ killing' \in [Children -> BOOLEAN]
      /\ \A d \in Children : Terminal(d)' => Terminal(d) \/ d = c
      /\ row[c] = "running" /\ parent[c] \in Parents
  BY <1>1, EndingStep
<1>3. Home(c) \in Conversations /\ Home(c)' = Home(c)
  BY <1>2, ConvOfAssumption DEF Home, KernelEnds, TaskEnds
<1>4. record' \in [Children -> Ends \cup {None}]
  BY ReclaimTyped DEF KernelEnds
<1>5. /\ pending' \subseteq Conversations
      /\ window' \in [Conversations -> {"none", "wait", "send", "sent", "done"}]
  BY <1>3, ScheduleTyped DEF KernelEnds
<1>6. TypeOK'
  BY <1>2, <1>4, <1>5 DEF TypeOK, KernelEnds, TaskEnds, Callers
<1>7. Schedules(Home(c))
  BY <1>2, <1>3 DEF Schedules, KernelEnds, TaskEnds
<1> QED
  BY <1>2, <1>3, <1>6, <1>7 DEF Shape

LEMMA StoreFailsStep ==
  ASSUME TypeOK, ChildInv, NEW c \in Children, NEW state \in Ends, StoreFails(c, state)
  PROVE  TypeOK' /\ ChildInv' /\ Fewer /\ Shape
<1>0. faults' \in 0 .. MaxFaults
  BY FaultTyped DEF StoreFails
<1>1. Ending(c, "failed") /\ "failed" \in Ends
  BY <1>0, NotKilled DEF StoreFails, InTheKernel, TaskEnds, Ending, Live, Ends, TypeOK
<1>2. /\ ChildInv' /\ Fewer /\ Forward
      /\ row' \in [Children -> RowStates] /\ lost' \subseteq Children
      /\ task' \in [Children -> {"none", "new", "admission", "slot", "kernel", "dead"}]
      /\ killing' \in [Children -> BOOLEAN]
      /\ \A d \in Children : Terminal(d)' => Terminal(d) \/ d = c
  BY <1>1, EndingStep
<1>3. TypeOK'
  BY <1>0, <1>2 DEF TypeOK, StoreFails, TaskEnds, Callers
<1>4. Excuses
  BY <1>2 DEF Excuses, StoreFails, TaskEnds
<1> QED
  BY <1>2, <1>3, <1>4 DEF Shape

LEMMA EndsSilentlyTyped ==
  ASSUME TypeOK, NEW c \in Children, NEW state \in Ends, EndsSilently(c, state)
  PROVE  faults' \in 0 .. MaxFaults /\ excused' = excused \cup {c}
         /\ UNCHANGED <<pending, window>>
  BY FaultTyped DEF EndsSilently, TypeOK

LEMMA UnprojectableStep ==
  ASSUME TypeOK, ChildInv, NEW c \in Children, Unprojectable(c)
  PROVE  TypeOK' /\ ChildInv' /\ Fewer /\ Shape
<1>0. faults' \in 0 .. MaxFaults /\ excused' = excused \cup {c} /\ UNCHANGED <<pending, window>>
      /\ "failed" \in Ends
  BY EndsSilentlyTyped DEF Unprojectable, Ends
<1>1. Ending(c, "failed")
  BY <1>0, NotKilled
     DEF Unprojectable, EndsSilently, InTheKernel, TaskEnds, Ending, Live, TypeOK
<1>2. /\ ChildInv' /\ Fewer /\ Forward
      /\ row' \in [Children -> RowStates] /\ lost' \subseteq Children
      /\ task' \in [Children -> {"none", "new", "admission", "slot", "kernel", "dead"}]
      /\ killing' \in [Children -> BOOLEAN]
      /\ \A d \in Children : Terminal(d)' => Terminal(d) \/ d = c
  BY <1>0, <1>1, EndingStep
<1>3. TypeOK'
  BY <1>0, <1>2 DEF TypeOK, Unprojectable, TaskEnds, Callers
<1>4. Excuses
  BY <1>0, <1>2 DEF Excuses, Unprojectable, TaskEnds
<1> QED
  BY <1>2, <1>3, <1>4 DEF Shape

LEMMA UnwindStep ==
  ASSUME TypeOK, ChildInv, NEW c \in Children, Unwind(c), process # "down"
  PROVE  TypeOK' /\ ChildInv' /\ Fewer /\ Shape
<1>1. CASE task[c] = "new"
  <2>1. /\ killing[c] /\ killing' = [killing EXCEPT ![c] = FALSE]
        /\ task' = [task EXCEPT ![c] = "dead"]
        /\ UNCHANGED <<rows, service, told, gone, process, faults, cache, record, token,
                       awaiting, deleting, todo, stops, lost>>
    BY <1>1 DEF Unwind
  <2> USE DEF rows, service, told
  <2>2. TypeOK'
    BY <2>1 DEF TypeOK, Callers
  <2>3. \A d \in Children \ {c} : task'[d] = task[d] /\ killing'[d] = killing[d]
    BY <2>1 DEF TypeOK
  <2>4. task'[c] = "dead" /\ killing'[c] = FALSE
    BY <2>1 DEF TypeOK
  <2>5. \/ process = "draining" \/ c \in lost
        \/ \E k \in Callers : <<k, c>> \in awaiting
    BY <2>1 DEF ChildInv, TaskInv, TypeOK
  <2>6. ChildInv'
    BY <2>1, <2>3, <2>4, <2>5
       DEF ChildInv, TaskInv, RunningRowsAreOwned, RunningChildrenAreReachable, LiveRuns, Live, Waiting
  <2>7. Fewer
    BY <2>1, <2>3, <2>4 DEF Fewer, InKernel, Admitted, Tracked
  <2>8. Shape
    BY <2>1 DEF Shape, Forward, Excuses, Terminal
  <2> QED
    BY <2>2, <2>6, <2>7, <2>8
<1>2. CASE task[c] # "new"
  <2>0. faults' \in 0 .. MaxFaults /\ excused' = excused \cup {c} /\ UNCHANGED <<pending, window>>
        /\ "cancelled" \in Ends
    BY <1>2, EndsSilentlyTyped DEF Unwind, Ends
  <2>1. Ending(c, "cancelled")
    BY <1>2, <2>0 DEF Unwind, EndsSilently, TaskEnds, Ending, TypeOK
  <2>2. /\ ChildInv' /\ Fewer /\ Forward
        /\ row' \in [Children -> RowStates] /\ lost' \subseteq Children
        /\ task' \in [Children -> {"none", "new", "admission", "slot", "kernel", "dead"}]
        /\ killing' \in [Children -> BOOLEAN]
        /\ \A d \in Children : Terminal(d)' => Terminal(d) \/ d = c
    BY <2>0, <2>1, EndingStep
  <2>3. UNCHANGED <<parent, reported, gone, process, batch, messages, slip, cache, record,
                    awaiting, deleting, todo, stops>> /\ token' = [token EXCEPT ![c] = FALSE]
    BY <1>2 DEF Unwind, TaskEnds
  <2>5. TypeOK'
    BY <2>0, <2>2, <2>3 DEF TypeOK, Callers
  <2>4. Excuses
    BY <2>0, <2>2, <2>3 DEF Excuses
  <2> QED
    BY <2>2, <2>4, <2>5 DEF Shape
<1> QED
  BY <1>1, <1>2

LEMMA CancelStep ==
  ASSUME TypeOK, ChildInv, NEW caller \in Callers, NEW c \in Children, CancelFrame,
         \/ Cancel(caller, c)
         \/ UNCHANGED <<token, killing, awaiting>>,
         todo' \in [Conversations -> SUBSET Children]
  PROVE  TypeOK' /\ ChildInv' /\ Fewer /\ Shape
<1> USE DEF CancelFrame, rows, service, told
<1>1. /\ token' \in [Children -> BOOLEAN] /\ killing' \in [Children -> BOOLEAN]
      /\ awaiting' \subseteq Callers \X Children /\ awaiting \subseteq awaiting'
      /\ \A d \in Children : killing'[d] =>
             \/ killing[d]
             \/ d = c /\ Live(c) /\ <<caller, c>> \in awaiting'
  <2>1. CASE task[c] = "kernel" /\ Cancel(caller, c)
    BY <2>1 DEF Cancel, TypeOK
  <2>2. CASE task[c] # "kernel" /\ Cancel(caller, c)
    <3>1. /\ killing' = [killing EXCEPT ![c] = @ \/ Live(c)]
          /\ awaiting' = IF Live(c) THEN awaiting \cup {<<caller, c>>} ELSE awaiting
          /\ token' = token
      BY <2>2 DEF Cancel
    <3>2. /\ killing' \in [Children -> BOOLEAN]
          /\ \A d \in Children : killing'[d] => killing[d] \/ (d = c /\ Live(c))
      BY <3>1 DEF TypeOK, Live
    <3>3. /\ awaiting' \subseteq Callers \X Children /\ awaiting \subseteq awaiting'
          /\ Live(c) => <<caller, c>> \in awaiting'
      BY <3>1 DEF TypeOK
    <3> QED
      BY <3>1, <3>2, <3>3 DEF TypeOK
  <2>3. CASE UNCHANGED <<token, killing, awaiting>>
    BY <2>3 DEF TypeOK
  <2> QED
    BY <2>1, <2>2, <2>3
<1>2. TypeOK'
  BY <1>1 DEF TypeOK
<1>3. ChildInv'
  BY <1>1 DEF ChildInv, TaskInv, RunningRowsAreOwned, RunningChildrenAreReachable, LiveRuns, Live
<1>4. Fewer
  BY DEF Fewer, InKernel, Admitted, Tracked
<1>5. Shape
  BY DEF Shape, Forward, Excuses, Terminal
<1> QED
  BY <1>2, <1>3, <1>4, <1>5

LEMMA UserCancelsStep ==
  ASSUME TypeOK, ChildInv, NEW c \in Children, UserCancels(c)
  PROVE  TypeOK' /\ ChildInv' /\ Fewer /\ Shape
<1>1. CancelFrame /\ Cancel(None, c) /\ None \in Callers
      /\ todo' \in [Conversations -> SUBSET Children]
  BY DEF UserCancels, Callers, TypeOK
<1> QED
  BY <1>1, CancelStep

LEMMA DeleteChildStep ==
  ASSUME TypeOK, ChildInv, NEW v \in Conversations, NEW c \in Children, DeleteChild(v, c)
  PROVE  TypeOK' /\ ChildInv' /\ Fewer /\ Shape
<1>1. /\ CancelFrame /\ v \in Callers
      /\ \/ Cancel(v, c)
         \/ UNCHANGED <<token, killing, awaiting>>
      /\ todo' \in [Conversations -> SUBSET Children]
  BY DEF DeleteChild, Callers, TypeOK
<1> QED
  BY <1>1, CancelStep

LEMMA AwaitEndsStep ==
  ASSUME TypeOK, ChildInv, NEW caller \in Callers, NEW c \in Children, AwaitEnds(caller, c)
  PROVE  TypeOK' /\ ChildInv' /\ Fewer /\ Shape
<1>1. /\ ~Live(c) /\ awaiting' = awaiting \ {<<caller, c>>}
      /\ UNCHANGED <<parent, reported, batch, messages, slip, gone, process, cache, record, task,
                     token, killing, deleting, todo, stops>>
  BY DEF AwaitEnds
<1>2. /\ faults' \in 0 .. MaxFaults /\ UNCHANGED <<pending, window>>
      /\ lost' \subseteq Children /\ lost \subseteq lost'
      /\ excused' \subseteq Children /\ excused \subseteq excused'
      /\ row' \in [Children -> RowStates]
      /\ \A d \in Children \ {c} : row'[d] = row[d]
      /\ \/ row'[c] = row[c] /\ row[c] # "running"
         \/ row'[c] = row[c] /\ c \in lost'
         \/ row[c] = "running" /\ row'[c] = "cancelled" /\ c \in excused'
  <2>1. CASE row[c] = "running"
    <3>1. faults' \in 0 .. MaxFaults /\ excused' = excused \cup {c} /\ UNCHANGED <<pending, window>>
      BY <2>1, EndsSilentlyTyped DEF AwaitEnds, Ends
    <3>2. CASE row' = [row EXCEPT ![c] = "cancelled"] /\ lost' = lost
      BY <2>1, <3>1, <3>2 DEF TypeOK, RowStates, TerminalStates
    <3>3. CASE row' = row /\ lost' = lost \cup {c}
      BY <2>1, <3>1, <3>3 DEF TypeOK
    <3> QED
      BY <2>1, <3>2, <3>3 DEF AwaitEnds, EndsSilently
  <2>2. CASE row[c] # "running"
    BY <2>2 DEF AwaitEnds, TypeOK
  <2> QED
    BY <2>1, <2>2
<1>3. TypeOK'
  BY <1>1, <1>2 DEF TypeOK
<1>4. \A d \in Children \ {c}, k \in Callers : <<k, d>> \in awaiting => <<k, d>> \in awaiting'
  BY <1>1
<1>5. TaskInv'
  BY <1>1, <1>2, <1>4 DEF ChildInv, TaskInv, Live
<1>6. RunningRowsAreOwned' /\ RunningChildrenAreReachable' /\ LiveRuns'
  BY <1>1, <1>2, <1>4 DEF ChildInv, RunningRowsAreOwned, RunningChildrenAreReachable, LiveRuns, Live
<1>7. Fewer
  BY <1>1, <1>2 DEF Fewer, InKernel, Admitted, Tracked
<1>8. Shape
  BY <1>1, <1>2 DEF Shape, Forward, Excuses, Terminal, TerminalStates
<1> QED
  BY <1>3, <1>5, <1>6, <1>7, <1>8 DEF ChildInv

LEMMA AbandonAwaitStep ==
  ASSUME TypeOK, ChildInv, NEW c \in Children, AbandonAwait(c)
  PROVE  TypeOK' /\ ChildInv' /\ Fewer /\ Shape
<1> USE DEF AbandonAwait, rows, service, told
<1>1. TypeOK'
  BY FaultTyped DEF TypeOK
<1>2. \A d \in Children \ {c}, k \in Callers : <<k, d>> \in awaiting => <<k, d>> \in awaiting'
  OBVIOUS
<1>3. ChildInv'
  BY <1>2 DEF ChildInv, TaskInv, RunningRowsAreOwned, RunningChildrenAreReachable, LiveRuns, Live
<1>4. Fewer /\ Shape
  BY DEF Fewer, InKernel, Admitted, Tracked, Shape, Forward, Excuses, Terminal
<1> QED
  BY <1>1, <1>3, <1>4

LEMMA DeleteStep ==
  ASSUME TypeOK, ChildInv, NEW v \in Conversations, BeginDelete(v) \/ EndDelete(v)
  PROVE  TypeOK' /\ ChildInv' /\ Fewer /\ Shape
<1>1. UNCHANGED <<rows, service, told, process, faults, cache, record, task, token,
                  killing, awaiting, stops, lost>>
  BY DEF BeginDelete, EndDelete
<1>2. /\ deleting' \subseteq Conversations /\ gone' \subseteq Conversations
      /\ todo' \in [Conversations -> SUBSET Children]
  BY DEF BeginDelete, EndDelete, TypeOK
<1> USE DEF rows, service, told
<1>3. TypeOK'
  BY <1>1, <1>2 DEF TypeOK
<1>4. ChildInv'
  BY <1>1 DEF ChildInv, TaskInv, RunningRowsAreOwned, RunningChildrenAreReachable, LiveRuns, Live
<1>5. Fewer /\ Shape
  BY <1>1 DEF Fewer, InKernel, Admitted, Tracked, Shape, Forward, Excuses, Terminal
<1> QED
  BY <1>3, <1>4, <1>5

-----------------------------------------------------------------------------
(* Shutdown, crash and restart.                                             *)

LEMMA StopTyped ==
  ASSUME TypeOK, StopWindows
  PROVE  /\ pending' \subseteq Conversations
         /\ window' \in [Conversations -> {"none", "wait", "send", "sent", "done"}]
         /\ batch' \in [Conversations -> SUBSET Children]
         /\ slip' \subseteq Children
  BY DEF TypeOK, StopWindows

LEMMA BeginShutdownStep ==
  ASSUME TypeOK, ChildInv, BeginShutdown
  PROVE  TypeOK' /\ ChildInv' /\ Fewer /\ Shape
<1> USE DEF BeginShutdown, rows, handler
<1>1. stops' \in 0 .. MaxStops
  BY MaxStopsAssumption DEF TypeOK
<1>2. TypeOK'
  BY <1>1, StopTyped DEF TypeOK
<1>3. ChildInv'
  BY DEF ChildInv, TaskInv, RunningRowsAreOwned, RunningChildrenAreReachable, LiveRuns, Live
<1>4. Fewer
  BY DEF Fewer, InKernel, Admitted, Tracked
<1>5. Shape
  BY DEF Shape, Forward, Stops, Terminal
<1> QED
  BY <1>2, <1>3, <1>4, <1>5

LEMMA CloseSupervisorStep ==
  ASSUME TypeOK, ChildInv, CloseSupervisor
  PROVE  TypeOK' /\ ChildInv' /\ Fewer /\ Shape
<1> USE DEF CloseSupervisor, rows, service, told
<1>1. /\ killing' \in [Children -> BOOLEAN]
      /\ \A c \in Children : killing'[c] => killing[c] \/ Live(c)
  BY DEF TypeOK
<1>2. TypeOK'
  BY <1>1 DEF TypeOK
<1>3. ChildInv'
  BY <1>1 DEF ChildInv, TaskInv, RunningRowsAreOwned, RunningChildrenAreReachable, LiveRuns, Live
<1>4. Fewer
  BY DEF Fewer, InKernel, Admitted, Tracked
<1>5. Shape
  BY DEF Shape, Forward, Excuses, Terminal
<1> QED
  BY <1>2, <1>3, <1>4, <1>5

\* The end of the process: tasks and windows are gone, rows go forward.
LEMMA ForgetStep ==
  ASSUME TypeOK, ChildInv, Forget, Forward,
         row' \in [Children -> RowStates], lost' \subseteq Children, excused' \subseteq Children,
         faults' \in 0 .. MaxFaults, stops' \in 0 .. MaxStops,
         \A c \in Children : row'[c] # "none" => row[c] # "none",
         \A c \in Children : row'[c] = "running" => row[c] = "running"
  PROVE  TypeOK' /\ ChildInv' /\ Fewer /\ Shape
<1> USE DEF Forget
<1>1. TypeOK'
  BY StopTyped DEF TypeOK
<1>2. \A c \in Children : task'[c] = "none" /\ killing'[c] = FALSE
  OBVIOUS
<1>3. TaskInv'
  BY <1>2 DEF ChildInv, TaskInv, Forward
<1>4. RunningRowsAreOwned' /\ RunningChildrenAreReachable' /\ LiveRuns'
  BY <1>2 DEF RunningRowsAreOwned, RunningChildrenAreReachable, LiveRuns, Live, Waiting
<1>5. Fewer
  BY <1>2 DEF Fewer, InKernel, Admitted, Tracked
<1>6. Shape
  BY DEF Shape, Stops
<1> QED
  BY <1>1, <1>3, <1>4, <1>5, <1>6 DEF ChildInv

LEMMA FinishShutdownStep ==
  ASSUME TypeOK, ChildInv, NEW failed \in SUBSET Unstarted, FinishShutdown(failed)
  PROVE  TypeOK' /\ ChildInv' /\ Fewer /\ Shape
<1>0. /\ Forget /\ stops' = stops
      /\ row' = [c \in Children |-> IF c \in Unstarted \ failed THEN "cancelled" ELSE row[c]]
      /\ lost' = lost \cup failed /\ excused' = excused \cup Unstarted
  BY DEF FinishShutdown
<1>1. faults' \in 0 .. MaxFaults
  BY FaultTyped DEF FinishShutdown, TypeOK
<1>2. Unstarted \subseteq Children /\ \A c \in Unstarted : row[c] = "running"
  BY DEF Unstarted
<1>3. /\ row' \in [Children -> RowStates] /\ lost' \subseteq Children /\ excused' \subseteq Children
      /\ stops' \in 0 .. MaxStops
  BY <1>0, <1>2 DEF TypeOK, RowStates, TerminalStates
<1>4. /\ \A c \in Children : row'[c] # "none" => row[c] # "none"
      /\ \A c \in Children : row'[c] = "running" => row[c] = "running"
      /\ Forward
  BY <1>0, <1>2 DEF Forward, Terminal, TerminalStates, Forget
<1> QED
  BY <1>0, <1>1, <1>3, <1>4, ForgetStep

LEMMA CrashStep ==
  ASSUME TypeOK, ChildInv, Crash
  PROVE  TypeOK' /\ ChildInv' /\ Fewer /\ Shape
<1>1. stops' \in 0 .. MaxStops
  BY MaxStopsAssumption DEF Crash, TypeOK
<1>2. Forward
  BY DEF Crash, Forget, Forward, Terminal
<1> QED
  BY <1>1, <1>2, ForgetStep DEF Crash, TypeOK

LEMMA RestartStep ==
  ASSUME TypeOK, ChildInv, Restart
  PROVE  TypeOK' /\ ChildInv' /\ Fewer
<1> USE DEF Restart, handler
<1>1. \A c \in Children : Home(c) \in Conversations \/ row[c] = "none"
  BY ConvOfAssumption DEF ChildInv, TaskInv, TypeOK, Home
<1>2. pending' \subseteq Conversations
  BY <1>1
<1>3. window' \in [Conversations -> {"none", "wait", "send", "sent", "done"}]
  BY DEF StartWindows, TypeOK
<1>4. row' \in [Children -> RowStates]
  BY DEF TypeOK, RowStates, TerminalStates
<1>5. TypeOK'
  BY <1>2, <1>3, <1>4 DEF TypeOK
<1>6. \A c \in Children : /\ task'[c] = "none" /\ row'[c] # "running"
                          /\ row'[c] = "none" <=> row[c] = "none"
  BY DEF ChildInv, TaskInv
<1>7. ChildInv'
  BY <1>6 DEF ChildInv, TaskInv, RunningRowsAreOwned, RunningChildrenAreReachable, LiveRuns,
     Live, Waiting
<1>8. Fewer
  BY <1>6 DEF Fewer, InKernel, Admitted, Tracked
<1> QED
  BY <1>5, <1>7, <1>8

-----------------------------------------------------------------------------
(* The steps of a window leave the children alone.                          *)

LEMMA WindowFrame ==
  ASSUME TypeOK, ChildInv, UNCHANGED <<row, parent, gone, process, handler, stops, lost>>,
         faults' \in 0 .. MaxFaults, reported' \in [Children -> BOOLEAN],
         pending' \subseteq Conversations,
         window' \in [Conversations -> {"none", "wait", "send", "sent", "done"}],
         batch' \in [Conversations -> SUBSET Children],
         messages' \in [Conversations -> SUBSET SUBSET Children],
         excused' \subseteq Children, slip' \subseteq Children
  PROVE  TypeOK' /\ ChildInv' /\ Fewer
<1> USE DEF handler
<1>1. TypeOK'
  BY DEF TypeOK
<1>2. ChildInv'
  BY DEF ChildInv, TaskInv, RunningRowsAreOwned, RunningChildrenAreReachable, LiveRuns, Live
<1>3. Fewer
  BY DEF Fewer, InKernel, Admitted, Tracked
<1> QED
  BY <1>1, <1>2, <1>3

LEMMA WindowTyped ==
  ASSUME TypeOK, ChildInv, NEW v \in Conversations,
         WindowSteps(v), UNCHANGED <<handler, stops, lost>>
  PROVE  TypeOK' /\ ChildInv' /\ Fewer
<1> USE DEF Untouched, rows, told
<1>0. Unreported(v) \subseteq Children
  BY DEF Unreported
<1>1. CASE Take(v)
  BY <1>0, <1>1, WindowFrame DEF Take, TypeOK
<1>2. CASE TakeNothing(v)
  BY <1>0, <1>2, WindowFrame DEF TakeNothing, GiveUp, TypeOK
<1>3. CASE TakeFails(v)
  BY <1>0, <1>3, FaultTyped, WindowFrame DEF TakeFails, GiveUp, TypeOK
<1>4. CASE Accept(v)
  BY <1>4, WindowFrame DEF Accept, TypeOK
<1>5. CASE Refuse(v)
  BY <1>5, WindowFrame DEF Refuse, GiveUp, TypeOK
<1>6. CASE SendFails(v)
  BY <1>6, FaultTyped, WindowFrame DEF SendFails, GiveUp, TypeOK
<1>7. ASSUME NEW failed \in SUBSET batch[v], Stamp(v, failed)
      PROVE  TypeOK' /\ ChildInv' /\ Fewer
  <2>1. faults' \in 0 .. MaxFaults
    BY <1>7, FaultTyped DEF Stamp, TypeOK
  <2>2. reported' \in [Children -> BOOLEAN]
    BY <1>7 DEF Stamp, TypeOK
  <2>3. failed \subseteq Children
    BY <1>7 DEF TypeOK
  <2> QED
    BY <1>7, <2>1, <2>2, <2>3, WindowFrame DEF Stamp, TypeOK
<1>8. CASE WindowDone(v)
  <2>1. window' \in [Conversations -> {"none", "wait", "send", "sent", "done"}]
    BY <1>8 DEF WindowDone, StartWindows, TypeOK
  <2> QED
    BY <1>8, <2>1, WindowFrame DEF WindowDone, TypeOK
<1> QED
  BY <1>1, <1>2, <1>3, <1>4, <1>5, <1>6, <1>7, <1>8 DEF WindowSteps

-----------------------------------------------------------------------------
(* The wake-ups: what has a shape keeps their invariants.                   *)

WakeInv == WindowInv /\ EndsAreOwed /\ MessageInv /\ NobodyIsToldTwice

LEMMA HomesStay ==
  ASSUME TypeOK, Forward, NEW c \in Children, Terminal(c)
  PROVE  Terminal(c)' /\ Home(c)' = Home(c) /\ reported'[c] = reported[c]
  BY DEF Forward, Terminal, TerminalStates, Home

LEMMA ExcusesKeep ==
  ASSUME TypeOK, WakeInv, Forward, Excuses
  PROVE  WakeInv'
<1> USE DEF Excuses
<1>1. WindowInv'
  BY HomesStay DEF WakeInv, WindowInv, Unreported, Windows
<1>2. EndsAreOwed'
  <2> SUFFICES ASSUME NEW c \in Children, Terminal(c)', process' = "up"
               PROVE  (reported[c] \/ Owed(c) \/ c \in excused)'
    BY DEF EndsAreOwed
  <2>1. CASE Terminal(c)
    BY <2>1, HomesStay DEF WakeInv, EndsAreOwed, Owed
  <2> QED
    BY <2>1
<1>3. MessageInv'
  BY HomesStay DEF WakeInv, MessageInv, TypeOK
<1>4. NobodyIsToldTwice'
  BY DEF WakeInv, NobodyIsToldTwice
<1> QED
  BY <1>1, <1>2, <1>3, <1>4 DEF WakeInv

LEMMA SchedulesKeep ==
  ASSUME TypeOK, WakeInv, Forward, NEW v \in Conversations, Schedules(v)
  PROVE  WakeInv'
<1>0. /\ UNCHANGED <<batch, messages, slip, process, excused>>
      /\ pending \subseteq pending'
      /\ process = "up" => v \in pending'
      /\ process # "up" => pending' = pending /\ window' = window
      /\ \A u \in Conversations :
             \/ window'[u] = window[u]
             \/ window[u] = "none" /\ window'[u] = "wait"
      /\ \A c \in Children : Terminal(c)' => Terminal(c) \/ Home(c)' = v
  BY DEF Schedules, Schedule, TypeOK
<1>1. WindowInv'
  <2>1. ASSUME NEW u \in Conversations
        PROVE  /\ batch'[u] # {} => window'[u] \in {"send", "sent"}
               /\ batch'[u] \subseteq Unreported(u)'
    BY <1>0, HomesStay DEF WakeInv, WindowInv, Unreported
  <2>2. process' # "up" => pending' = {} /\ Windows' = {}
    BY <1>0 DEF WakeInv, WindowInv, Windows
  <2> QED
    BY <2>1, <2>2 DEF WindowInv
<1>2. EndsAreOwed'
  <2> SUFFICES ASSUME NEW c \in Children, Terminal(c)', process' = "up"
               PROVE  (reported[c] \/ Owed(c) \/ c \in excused)'
    BY DEF EndsAreOwed
  <2>1. CASE Terminal(c)
    <3>1. reported[c] \/ Owed(c) \/ c \in excused
      BY <1>0, <2>1 DEF WakeInv, EndsAreOwed
    <3>2. CASE window[Home(c)] = "wait"
      <4>1. Home(c) \in Conversations \/ window'[Home(c)] = window[Home(c)]
        BY <1>0, <3>2 DEF Schedules, Schedule
      <4> QED
        BY <1>0, <2>1, <3>2, <4>1, HomesStay DEF Owed
    <3> QED
      BY <1>0, <2>1, <3>1, <3>2, HomesStay DEF Owed
  <2> QED
    BY <1>0, <2>1 DEF Owed
<1>3. MessageInv'
  BY <1>0, HomesStay DEF WakeInv, MessageInv, TypeOK
<1>4. NobodyIsToldTwice'
  BY <1>0 DEF WakeInv, NobodyIsToldTwice
<1> QED
  BY <1>1, <1>2, <1>3, <1>4 DEF WakeInv

LEMMA StopsKeep ==
  ASSUME TypeOK, WakeInv, Forward, Stops
  PROVE  WakeInv'
<1>0. /\ process' # "up" /\ messages' = messages /\ pending' = {}
      /\ \A v \in Conversations : window'[v] = "none" /\ batch'[v] = {}
      /\ slip \subseteq slip'
      /\ \A v \in Conversations : window[v] = "sent" => batch[v] \subseteq slip'
  BY DEF Stops, StopWindows
<1>1. WindowInv'
  BY <1>0 DEF WindowInv, Windows
<1>2. EndsAreOwed'
  BY <1>0 DEF EndsAreOwed
<1>3. MessageInv'
  BY <1>0, HomesStay DEF WakeInv, MessageInv, TypeOK
<1>4. NobodyIsToldTwice'
  BY <1>0 DEF WakeInv, NobodyIsToldTwice
<1> QED
  BY <1>1, <1>2, <1>3, <1>4 DEF WakeInv

LEMMA RestartKeeps ==
  ASSUME TypeOK, ChildInv, WakeInv, Restart
  PROVE  WakeInv'
<1>0. /\ process # "up" /\ process' = "up" /\ UNCHANGED <<parent, reported, batch, messages, slip>>
      /\ \A c \in Children : row[c] # "none" /\ ~reported[c] => Home(c) \in pending'
      /\ \A c \in Children : row'[c] = IF row[c] = "running" THEN "interrupted" ELSE row[c]
  BY DEF Restart
<1>1. \A v \in Conversations : window[v] = "none" /\ batch[v] = {}
  BY <1>0 DEF WakeInv, WindowInv, Windows
<1>2. WindowInv'
  BY <1>0, <1>1 DEF WindowInv
<1>3. EndsAreOwed'
  BY <1>0 DEF EndsAreOwed, Owed, Terminal, TerminalStates, Home
<1>4. MessageInv'
  BY <1>0, <1>1 DEF WakeInv, MessageInv, Terminal, TerminalStates, Home, TypeOK
<1>5. NobodyIsToldTwice'
  BY <1>0 DEF WakeInv, NobodyIsToldTwice
<1> QED
  BY <1>2, <1>3, <1>4, <1>5 DEF WakeInv

-----------------------------------------------------------------------------
(* The wake-ups: what the steps of a window keep.                           *)

\* The step is one of window v, which closes or goes on.
StepOf(v) ==
    /\ UNCHANGED <<row, parent, process>>
    /\ window[v] # "none"
    /\ \A u \in Conversations \ {v} : /\ window'[u] = window[u]
                                      /\ batch'[u] = batch[u]
                                      /\ messages'[u] = messages[u]
                                      /\ u \in pending => u \in pending'

LEMMA HomesKnown ==
  ASSUME TypeOK, ChildInv, NEW c \in Children, row[c] # "none"
  PROVE  Home(c) \in Conversations
  BY ConvOfAssumption DEF TypeOK, ChildInv, TaskInv, Home

LEMMA Serves ==
  ASSUME WakeInv, NEW v \in Conversations, window[v] # "none"
  PROVE  process = "up"
  BY DEF WakeInv, WindowInv, Windows

\* The window takes its batch, or closes without one.
LEMMA TakingKeeps ==
  ASSUME TypeOK, ChildInv, WakeInv, NEW v \in Conversations, StepOf(v),
         window[v] = "wait", UNCHANGED <<reported, messages, slip>>,
         excused \subseteq excused',
         \/ window'[v] = "send" /\ batch'[v] = Unreported(v)
         \/ window'[v] = "done" /\ batch'[v] = {} /\ Unreported(v) \subseteq excused'
  PROVE  WakeInv'
<1> USE DEF StepOf
<1>0. process = "up"
  BY Serves
<1>1. \A u \in Conversations : Unreported(u)' = Unreported(u)
  BY DEF Unreported, Terminal, Home
<1>2. WindowInv'
  BY <1>0, <1>1 DEF WakeInv, WindowInv
<1>3. EndsAreOwed'
  <2> SUFFICES ASSUME NEW c \in Children, Terminal(c), ~reported[c]
               PROVE  (Owed(c) \/ c \in excused)'
    BY DEF EndsAreOwed, Terminal
  <2>1. Owed(c) \/ c \in excused
    BY <1>0 DEF WakeInv, EndsAreOwed
  <2>2. CASE Home(c) = v
    BY <2>2 DEF Unreported, Owed, Home
  <2>3. CASE Home(c) # v
    <3>1. Home(c)' = Home(c) /\ (Home(c) \in pending => Home(c) \in Conversations)
      BY DEF Home, TypeOK
    <3>2. CASE Home(c) \in Conversations
      BY <2>1, <2>3, <3>1, <3>2 DEF Owed
    <3>3. CASE Home(c) \notin Conversations
      BY <2>1, <3>1, <3>3, HomesKnown DEF Terminal, TerminalStates
    <3> QED
      BY <3>2, <3>3
  <2> QED
    BY <2>2, <2>3
<1>4. MessageInv'
  BY DEF WakeInv, MessageInv, Terminal, Home, TypeOK
<1>5. NobodyIsToldTwice'
  BY DEF WakeInv, NobodyIsToldTwice
<1> QED
  BY <1>2, <1>3, <1>4, <1>5 DEF WakeInv

LEMMA AcceptKeeps ==
  ASSUME TypeOK, ChildInv, WakeInv, NEW v \in Conversations, Accept(v)
  PROVE  WakeInv'
<1>0. /\ window[v] = "send" /\ window' = [window EXCEPT ![v] = "sent"]
      /\ messages' = [messages EXCEPT ![v] = @ \cup {batch[v]}]
      /\ UNCHANGED <<row, parent, reported, process, pending, batch, excused, slip>>
  BY DEF Accept, Untouched, rows
<1>1. \A u \in Conversations : /\ Unreported(u)' = Unreported(u)
                               /\ u # v => window'[u] = window[u] /\ messages'[u] = messages[u]
  BY <1>0 DEF Unreported, Terminal, Home, TypeOK
<1>2. window'[v] = "sent" /\ messages'[v] = messages[v] \cup {batch[v]}
  BY <1>0 DEF TypeOK
<1>3. WindowInv'
  BY <1>0, <1>1, <1>2, Serves DEF WakeInv, WindowInv
<1>4. EndsAreOwed'
  BY <1>0 DEF WakeInv, EndsAreOwed, Owed, Terminal, Home, TypeOK
<1>5. MessageInv'
  <2> SUFFICES ASSUME NEW u \in Conversations, NEW one \in messages'[u], NEW c \in one
               PROVE  /\ Terminal(c)' /\ Home(c)' = u
                      /\ \/ reported'[c] \/ c \in slip'
                         \/ window'[u] = "sent" /\ c \in batch'[u] /\ one = batch'[u]
    BY DEF MessageInv
  <2>1. CASE one \in messages[u]
    BY <1>0, <1>1, <1>2, <2>1 DEF WakeInv, MessageInv, Terminal, Home
  <2>2. CASE one \notin messages[u]
    <3>1. u = v /\ one = batch[v]
      BY <1>1, <1>2, <2>2
    <3>2. c \in Unreported(v)
      BY <3>1 DEF WakeInv, WindowInv
    <3> QED
      BY <1>0, <1>2, <3>1, <3>2 DEF Unreported, Terminal, Home
  <2> QED
    BY <2>1, <2>2
<1>6. NobodyIsToldTwice'
  <2>1. ASSUME NEW one \in messages[v]
        PROVE  one \cap batch[v] \subseteq slip
    <3> SUFFICES ASSUME NEW c \in one, c \in batch[v]
                 PROVE  c \in slip
      OBVIOUS
    <3>1. ~reported[c]
      BY DEF WakeInv, WindowInv, Unreported
    <3> QED
      BY <1>0, <3>1 DEF WakeInv, MessageInv
  <2> QED
    BY <1>0, <1>1, <1>2, <2>1 DEF WakeInv, NobodyIsToldTwice
<1> QED
  BY <1>3, <1>4, <1>5, <1>6 DEF WakeInv

\* The window closes: refused, or the call raised.
LEMMA ClosingKeeps ==
  ASSUME TypeOK, ChildInv, WakeInv, NEW v \in Conversations, StepOf(v),
         UNCHANGED <<reported, messages, pending>>,
         window'[v] = "done", batch'[v] = {}, window[v] \in {"send", "sent"},
         excused' = excused \cup batch[v],
         slip \subseteq slip', window[v] = "sent" => batch[v] \subseteq slip'
  PROVE  WakeInv'
<1> USE DEF StepOf
<1>0. process = "up"
  BY Serves
<1>1. \A u \in Conversations : Unreported(u)' = Unreported(u)
  BY DEF Unreported, Terminal, Home
<1>2. WindowInv'
  BY <1>0, <1>1 DEF WakeInv, WindowInv
<1>3. EndsAreOwed'
  <2> SUFFICES ASSUME NEW c \in Children, Terminal(c), ~reported[c]
               PROVE  (Owed(c) \/ c \in excused)'
    BY DEF EndsAreOwed, Terminal
  <2>1. Owed(c) \/ c \in excused
    BY <1>0 DEF WakeInv, EndsAreOwed
  <2>2. Home(c)' = Home(c) /\ Home(c) \in Conversations
    BY HomesKnown DEF Home, Terminal, TerminalStates
  <2> QED
    BY <2>1, <2>2 DEF Owed
<1>4. MessageInv'
  <2> SUFFICES ASSUME NEW u \in Conversations, NEW one \in messages[u], NEW c \in one
               PROVE  /\ Terminal(c)' /\ Home(c)' = u
                      /\ \/ reported'[c] \/ c \in slip'
                         \/ window'[u] = "sent" /\ c \in batch'[u] /\ one = batch'[u]
    BY DEF MessageInv
  <2>1. Terminal(c)' /\ Home(c)' = u
    BY DEF WakeInv, MessageInv, Terminal, Home
  <2> QED
    BY <2>1 DEF WakeInv, MessageInv
<1>5. NobodyIsToldTwice'
  BY DEF WakeInv, NobodyIsToldTwice
<1> QED
  BY <1>2, <1>3, <1>4, <1>5 DEF WakeInv

LEMMA StampKeeps ==
  ASSUME TypeOK, ChildInv, WakeInv, NEW v \in Conversations, NEW failed \in SUBSET batch[v], Stamp(v, failed)
  PROVE  WakeInv'
<1>0. /\ window[v] = "sent"
      /\ reported' = [c \in Children |-> reported[c] \/ c \in batch[v] \ failed]
      /\ window' = [window EXCEPT ![v] = "done"]
      /\ batch' = [batch EXCEPT ![v] = {}]
      /\ excused' = (excused \ batch[v]) \cup failed
      /\ slip' = slip \cup failed
      /\ UNCHANGED <<row, parent, pending, process, messages>>
  BY DEF Stamp
<1>1. /\ process = "up" /\ window'[v] = "done" /\ batch'[v] = {}
      /\ \A u \in Conversations \ {v} : window'[u] = window[u] /\ batch'[u] = batch[u]
      /\ \A c \in Children : reported[c] => reported'[c]
      /\ \A c \in batch[v] : c \in Children /\ (reported'[c] \/ c \in failed)
      /\ \A c \in Children \ batch[v] : reported'[c] = reported[c]
  BY <1>0, Serves DEF TypeOK
<1>2. \A c \in Children : Terminal(c)' = Terminal(c) /\ Home(c)' = Home(c)
  BY <1>0 DEF Terminal, Home
<1>3. WindowInv'
  <2> SUFFICES ASSUME NEW u \in Conversations
               PROVE  /\ batch'[u] # {} => window'[u] \in {"send", "sent"}
                      /\ batch'[u] \subseteq Unreported(u)'
    BY <1>0, <1>1 DEF WindowInv
  <2>1. CASE u # v
    <3>1. \A c \in batch[u] : c \in Children /\ c \notin batch[v] /\ c \in Unreported(u)
      BY <2>1 DEF WakeInv, WindowInv, Unreported
    <3> QED
      BY <1>1, <1>2, <2>1, <3>1 DEF WakeInv, WindowInv, Unreported
  <2> QED
    BY <1>1, <2>1
<1>4. EndsAreOwed'
  <2> SUFFICES ASSUME NEW c \in Children, Terminal(c), ~reported'[c]
               PROVE  (Owed(c) \/ c \in excused)'
    BY <1>2 DEF EndsAreOwed
  <2>1. CASE c \in batch[v]
    BY <1>0, <1>1, <2>1
  <2>2. CASE c \notin batch[v]
    <3>1. Owed(c) \/ c \in excused
      BY <1>1, <2>2 DEF WakeInv, EndsAreOwed
    <3>2. Home(c)' = Home(c) /\ Home(c) \in Conversations
      BY <1>2, HomesKnown DEF Terminal, TerminalStates
    <3> QED
      BY <1>0, <1>1, <2>2, <3>1, <3>2 DEF Owed
  <2> QED
    BY <2>1, <2>2
<1>5. MessageInv'
  <2> SUFFICES ASSUME NEW u \in Conversations, NEW one \in messages[u], NEW c \in one
               PROVE  /\ Terminal(c)' /\ Home(c)' = u
                      /\ \/ reported'[c] \/ c \in slip'
                         \/ window'[u] = "sent" /\ c \in batch'[u] /\ one = batch'[u]
    BY <1>0 DEF MessageInv
  <2>1. /\ c \in Children /\ Terminal(c) /\ Home(c) = u
        /\ \/ reported[c] \/ c \in slip
           \/ window[u] = "sent" /\ c \in batch[u] /\ one = batch[u]
    BY DEF WakeInv, MessageInv, TypeOK
  <2> QED
    BY <1>0, <1>1, <1>2, <2>1
<1>6. NobodyIsToldTwice'
  BY <1>0 DEF WakeInv, NobodyIsToldTwice
<1> QED
  BY <1>3, <1>4, <1>5, <1>6 DEF WakeInv

LEMMA WindowDoneKeeps ==
  ASSUME TypeOK, ChildInv, WakeInv, NEW v \in Conversations, WindowDone(v)
  PROVE  WakeInv'
<1>0. /\ window[v] = "done" /\ process = "up"
      /\ UNCHANGED <<row, parent, reported, process, pending, batch, messages, excused, slip>>
  BY Serves DEF WindowDone, Untouched, rows, told
<1>1. \A u \in Conversations :
          \/ window'[u] = window[u]
          \/ window[u] \in {"none", "done"} /\ window'[u] \in {"none", "wait"}
  BY <1>0 DEF WindowDone, StartWindows, Windows
<1>2. \A u \in Conversations : Unreported(u)' = Unreported(u)
  BY <1>0 DEF Unreported, Terminal, Home
<1>3. WindowInv'
  BY <1>0, <1>1, <1>2 DEF WakeInv, WindowInv
<1>4. EndsAreOwed'
  <2> SUFFICES ASSUME NEW c \in Children, Terminal(c), ~reported[c]
               PROVE  (Owed(c) \/ c \in excused)'
    BY <1>0 DEF EndsAreOwed, Terminal
  <2>1. Owed(c) \/ c \in excused
    BY <1>0 DEF WakeInv, EndsAreOwed
  <2>2. Home(c)' = Home(c) /\ Home(c) \in Conversations
    BY <1>0, HomesKnown DEF Home, Terminal, TerminalStates
  <2> QED
    BY <1>0, <1>1, <2>1, <2>2 DEF Owed
<1>5. MessageInv'
  BY <1>0, <1>1 DEF WakeInv, MessageInv, Terminal, Home, TypeOK
<1>6. NobodyIsToldTwice'
  BY <1>0 DEF WakeInv, NobodyIsToldTwice
<1> QED
  BY <1>3, <1>4, <1>5, <1>6 DEF WakeInv

LEMMA WindowKeeps ==
  ASSUME TypeOK, ChildInv, WakeInv, NEW v \in Conversations, WindowSteps(v)
  PROVE  WakeInv'
<1> USE DEF Untouched, rows, StepOf
<1>1. CASE Take(v)
  <2>1. StepOf(v) /\ window'[v] = "send" /\ batch'[v] = Unreported(v) /\ excused' = excused
    BY <1>1 DEF Take, TypeOK
  <2> QED
    BY <1>1, <2>1, TakingKeeps DEF Take
<1>2. CASE TakeNothing(v) \/ TakeFails(v)
  <2>1. /\ window[v] = "wait" /\ pending' = pending \ {v} /\ GiveUp(v, Unreported(v))
        /\ UNCHANGED <<row, parent, reported, process, messages, slip>>
    BY <1>2 DEF TakeNothing, TakeFails, GiveUp
  <2>2. /\ StepOf(v) /\ window'[v] = "done" /\ batch'[v] = {}
        /\ excused \subseteq excused' /\ Unreported(v) \subseteq excused'
    BY <2>1 DEF GiveUp, TypeOK
  <2> QED
    BY <2>1, <2>2, TakingKeeps
<1>3. CASE Accept(v)
  BY <1>3, AcceptKeeps
<1>4. CASE Refuse(v) \/ SendFails(v)
  <2>1. /\ window[v] \in {"send", "sent"} /\ GiveUp(v, batch[v])
        /\ UNCHANGED <<row, parent, reported, process, pending, messages>>
        /\ slip \subseteq slip'
        /\ window[v] = "sent" => batch[v] \subseteq slip'
    BY <1>4 DEF Refuse, SendFails, GiveUp
  <2>2. /\ StepOf(v) /\ window'[v] = "done" /\ batch'[v] = {} /\ excused' = excused \cup batch[v]
    BY <2>1 DEF GiveUp, TypeOK
  <2> QED
    BY <2>1, <2>2, ClosingKeeps
<1>5. ASSUME NEW failed \in SUBSET batch[v], Stamp(v, failed)
      PROVE  WakeInv'
  BY <1>5, StampKeeps
<1>6. CASE WindowDone(v)
  BY <1>6, WindowDoneKeeps
<1> QED
  BY <1>1, <1>2, <1>3, <1>4, <1>5, <1>6 DEF WindowSteps

-----------------------------------------------------------------------------
(* Nobody is stranded.                                                      *)

LEMMA WindowsFinite ==
  ASSUME NEW S \in SUBSET Conversations
  PROVE  IsFiniteSet(S) /\ Cardinality(S) \in Nat
  BY ConversationsFinite, FS_Subset, FS_CardinalityType

\* StartWindows opens as many windows as are owed, or as there is room for.
LEMMA StartingStrandsNobody ==
  ASSUME NEW owed \in SUBSET Conversations, NEW taken \in SUBSET Conversations,
         Cardinality(taken) <= MaxInflight,
         \A v \in taken : window[v] # "none",
         StartWindows(owed, taken)
  PROVE  /\ Cardinality(Windows') <= MaxInflight
         /\ \A v \in owed : window'[v] # "none" \/ Cardinality(Windows') = MaxInflight
<1>1. PICK chosen \in SUBSET (owed \ taken) :
        /\ Cardinality(chosen) =
               Smaller(Cardinality(owed \ taken), MaxInflight - Cardinality(taken))
        /\ window' = [v \in Conversations |->
                          IF v \in chosen THEN "wait"
                          ELSE IF v \in taken THEN window[v] ELSE "none"]
  BY DEF StartWindows
<1>2. Windows' = chosen \cup taken
  BY <1>1 DEF Windows
<1>3. /\ IsFiniteSet(chosen) /\ IsFiniteSet(taken) /\ IsFiniteSet(owed \ taken)
      /\ Cardinality(chosen) \in Nat /\ Cardinality(taken) \in Nat
      /\ Cardinality(owed \ taken) \in Nat
  BY WindowsFinite
<1>4. chosen \cap taken = {}
  OBVIOUS
<1>5. Cardinality(Windows') = Cardinality(chosen) + Cardinality(taken)
  <2>1. Cardinality(chosen \cup taken) = Cardinality(chosen) + Cardinality(taken) - Cardinality({})
    BY <1>3, <1>4, FS_Union
  <2> QED
    BY <1>2, <1>3, <2>1, FS_EmptySet
<1>6. CASE Cardinality(owed \ taken) < MaxInflight - Cardinality(taken)
  <2>1. Cardinality(chosen) = Cardinality(owed \ taken)
    BY <1>1, <1>6 DEF Smaller
  <2>2. chosen = owed \ taken
    BY <1>3, <2>1, FS_Subset
  <2>3. \A v \in owed : window'[v] # "none"
    BY <1>1, <2>2
  <2> QED
    BY <1>3, <1>5, <1>6, <2>1, <2>3, MaxInflightAssumption
<1>7. CASE ~ (Cardinality(owed \ taken) < MaxInflight - Cardinality(taken))
  <2>1. Cardinality(chosen) = MaxInflight - Cardinality(taken)
    BY <1>1, <1>7 DEF Smaller
  <2> QED
    BY <1>3, <1>5, <2>1, MaxInflightAssumption
<1> QED
  BY <1>6, <1>7

LEMMA SameWindows ==
  ASSUME NobodyIsStranded, pending' \subseteq pending, Windows' = Windows,
         pending \subseteq Conversations
  PROVE  NobodyIsStranded'
  BY DEF NobodyIsStranded, Windows

LEMMA ShapeStrandsNobody ==
  ASSUME TypeOK, WakeInv, NobodyIsStranded, Excuses \/ Stops \/ \E v \in Conversations : Schedules(v)
  PROVE  NobodyIsStranded'
<1>1. CASE Excuses
  BY <1>1, SameWindows DEF Excuses, Windows, TypeOK
<1>2. CASE Stops
  <2>1. pending' = {} /\ Windows' = {}
    BY <1>2 DEF Stops, StopWindows, Windows
  <2> QED
    BY <2>1, FS_EmptySet, MaxInflightAssumption DEF NobodyIsStranded
<1>3. ASSUME NEW v \in Conversations, Schedules(v)
      PROVE  NobodyIsStranded'
  <2>0. Windows \subseteq Conversations /\ IsFiniteSet(Windows) /\ Cardinality(Windows) \in Nat
    BY WindowsFinite DEF Windows
  <2>1. CASE process = "up" /\ window[v] = "none" /\ Cardinality(Windows) < MaxInflight
    <3>1. window' = [window EXCEPT ![v] = "wait"] /\ pending' = pending \cup {v}
      BY <1>3, <2>1 DEF Schedules, Schedule
    <3>2. Windows' = Windows \cup {v} /\ v \notin Windows
      BY <2>1, <3>1 DEF Windows, TypeOK
    <3>3. Cardinality(Windows') = Cardinality(Windows) + 1
      BY <2>0, <3>2, FS_AddElement
    <3>4. \A u \in pending' : window'[u] # "none"
      <4>1. \A u \in pending : u \in Conversations /\ window[u] # "none"
        BY <2>0, <2>1, MaxInflightAssumption DEF NobodyIsStranded, TypeOK
      <4> QED
        BY <3>1, <4>1 DEF TypeOK
    <3> QED
      BY <2>0, <2>1, <3>3, <3>4, MaxInflightAssumption DEF NobodyIsStranded
  <2>2. CASE ~ (process = "up" /\ window[v] = "none" /\ Cardinality(Windows) < MaxInflight)
    <3>1. /\ window' = window /\ Windows' = Windows
          /\ \/ pending' = pending
             \/ pending' = pending \cup {v} /\ process = "up"
      BY <1>3, <2>2 DEF Schedules, Schedule, Windows
    <3>2. CASE pending' = pending
      BY <3>1, <3>2, SameWindows DEF TypeOK
    <3>3. CASE pending' = pending \cup {v} /\ process = "up"
      <4>1. window[v] # "none" \/ Cardinality(Windows) = MaxInflight
        BY <2>0, <2>2, <3>3, MaxInflightAssumption DEF NobodyIsStranded
      <4> QED
        BY <3>1, <3>3, <4>1 DEF NobodyIsStranded
    <3> QED
      BY <3>1, <3>2, <3>3
  <2> QED
    BY <2>1, <2>2
<1> QED
  BY <1>1, <1>2, <1>3

LEMMA WindowStrandsNobody ==
  ASSUME TypeOK, NobodyIsStranded, NEW v \in Conversations, WindowSteps(v)
  PROVE  NobodyIsStranded'
<1>1. CASE WindowDone(v)
  <2>1. /\ Windows \ {v} \in SUBSET Conversations /\ pending \in SUBSET Conversations
        /\ \A u \in Windows \ {v} : window[u] # "none"
        /\ pending' = pending /\ StartWindows(pending, Windows \ {v})
    BY <1>1 DEF WindowDone, Windows, TypeOK
  <2>2. Cardinality(Windows \ {v}) <= MaxInflight
    <3>1. /\ IsFiniteSet(Windows) /\ Cardinality(Windows) \in Nat
          /\ Cardinality(Windows \ {v}) \in Nat
      BY WindowsFinite DEF Windows
    <3>2. Cardinality(Windows \ {v}) <= Cardinality(Windows)
      BY <3>1, FS_Subset
    <3> QED
      BY <3>1, <3>2, MaxInflightAssumption DEF NobodyIsStranded
  <2> QED
    BY <2>1, <2>2, StartingStrandsNobody DEF NobodyIsStranded
<1>2. CASE ~WindowDone(v)
  <2>1. /\ window[v] # "none" /\ pending' \subseteq pending
        /\ \E s \in {"wait", "send", "sent", "done"} : window' = [window EXCEPT ![v] = s]
    BY <1>2 DEF WindowSteps, Take, TakeNothing, TakeFails, Accept, Refuse, SendFails, Stamp, GiveUp
  <2>2. Windows' = Windows
    BY <2>1 DEF Windows, TypeOK
  <2> QED
    BY <2>1, <2>2, SameWindows DEF TypeOK
<1> QED
  BY <1>1, <1>2

LEMMA RestartStrandsNobody ==
  ASSUME TypeOK, ChildInv, Restart
  PROVE  NobodyIsStranded'
<1>1. /\ pending' \in SUBSET Conversations /\ {} \in SUBSET Conversations
      /\ StartWindows(pending', {})
  BY HomesKnown DEF Restart
<1>2. Cardinality({}) <= MaxInflight
  BY FS_EmptySet, MaxInflightAssumption
<1> QED
  BY <1>1, <1>2, StartingStrandsNobody DEF NobodyIsStranded

-----------------------------------------------------------------------------
(* The two gates and the queue.                                             *)

LEMMA ChildSetsFinite ==
  ASSUME NEW S \in SUBSET Children
  PROVE  IsFiniteSet(S) /\ Cardinality(S) \in Nat
  BY FiniteAssumption, FS_Subset, FS_CardinalityType

LEMMA StillFits ==
  ASSUME NEW S \in SUBSET Children, NEW T \in SUBSET Children, NEW n \in Nat,
         T \subseteq S, Cardinality(S) <= n
  PROVE  Cardinality(T) <= n
<1>1. Cardinality(T) <= Cardinality(S)
  BY ChildSetsFinite, FS_Subset
<1> QED
  BY <1>1, ChildSetsFinite

LEMMA OneMoreFits ==
  ASSUME NEW S \in SUBSET Children, NEW T \in SUBSET Children, NEW n \in Nat, NEW c \in Children,
         T \subseteq S \cup {c}, Cardinality(S) < n
  PROVE  Cardinality(T) <= n
<1>1. Cardinality(S \cup {c}) <= Cardinality(S) + 1
  BY ChildSetsFinite, FS_AddElement
<1>2. Cardinality(S \cup {c}) <= n
  BY <1>1, ChildSetsFinite
<1> QED
  BY <1>2, StillFits

LEMMA FewerFit ==
  ASSUME Counts, Fewer
  PROVE  Counts'
<1> SUFFICES ASSUME NEW p \in Parents
             PROVE  /\ Cardinality(InKernel(p))' <= MaxConcurrent
                    /\ Cardinality(Admitted(p))' <= MaxPerParent
                    /\ Cardinality(Tracked(p))' <= MaxQueued
  BY DEF Counts
<1>1. Cardinality(InKernel(p))' <= MaxConcurrent
  BY StillFits, LimitsAssumption DEF Counts, Fewer, InKernel
<1>2. Cardinality(Admitted(p))' <= MaxPerParent
  <2>1. Admitted(p) \in SUBSET Children /\ Admitted(p)' \in SUBSET Children
    BY DEF Admitted
  <2>2. Admitted(p)' \subseteq Admitted(p) /\ Cardinality(Admitted(p)) <= MaxPerParent
    BY DEF Counts, Fewer
  <2>3. Cardinality(Admitted(p)') <= MaxPerParent
    BY <2>1, <2>2, StillFits, LimitsAssumption
  <2> QED
    BY <2>3 DEF Admitted
<1>3. Cardinality(Tracked(p))' <= MaxQueued
  BY StillFits, LimitsAssumption DEF Counts, Fewer, Tracked
<1> QED
  BY <1>1, <1>2, <1>3

LEMMA SpawnFits ==
  ASSUME TypeOK, LiveRuns, Counts, NEW c \in Children, NEW p \in Parents,
         Cardinality(Tracked(p)) < MaxQueued, row[c] = "none",
         parent' = [parent EXCEPT ![c] = p],
         \A d \in Children \ {c} : row'[d] = row[d] /\ task'[d] = task[d],
         task'[c] \notin {"slot", "kernel"}
  PROVE  Counts'
<1> SUFFICES ASSUME NEW q \in Parents
             PROVE  /\ Cardinality(InKernel(q))' <= MaxConcurrent
                    /\ Cardinality(Admitted(q))' <= MaxPerParent
                    /\ Cardinality(Tracked(q))' <= MaxQueued
  BY DEF Counts
<1>1. \A d \in Children \ {c} : parent'[d] = parent[d]
  BY DEF TypeOK
<1>2. parent'[c] = p
  BY DEF TypeOK
<1>3. /\ InKernel(q) \in SUBSET Children /\ InKernel(q)' \in SUBSET Children
      /\ Admitted(q) \in SUBSET Children /\ Admitted(q)' \in SUBSET Children
      /\ Tracked(q) \in SUBSET Children /\ Tracked(q)' \in SUBSET Children
  BY DEF InKernel, Admitted, Tracked
<1>4. InKernel(q)' \subseteq InKernel(q) /\ Admitted(q)' \subseteq Admitted(q)
  BY <1>1 DEF InKernel, Admitted
<1>5. Cardinality(InKernel(q)') <= MaxConcurrent /\ Cardinality(Admitted(q)') <= MaxPerParent
  BY <1>3, <1>4, StillFits, LimitsAssumption DEF Counts
<1>6. CASE q # p
  <2>1. Tracked(q)' \subseteq Tracked(q)
    BY <1>1, <1>2, <1>6 DEF Tracked
  <2>2. Cardinality(Tracked(q)') <= MaxQueued
    BY <1>3, <2>1, StillFits, LimitsAssumption DEF Counts
  <2> QED
    BY <1>5, <2>2 DEF InKernel, Admitted, Tracked
<1>7. CASE q = p
  <2>1. Tracked(q)' \subseteq Tracked(q) \cup {c}
    BY <1>1, <1>7 DEF Tracked
  <2>2. Cardinality(Tracked(q)') <= MaxQueued
    BY <1>3, <1>7, <2>1, OneMoreFits, LimitsAssumption
  <2> QED
    BY <1>5, <2>2 DEF InKernel, Admitted, Tracked
<1> QED
  BY <1>6, <1>7

LEMMA AdvanceFits ==
  ASSUME TypeOK, LiveRuns, Counts, NEW c \in Children, Advance(c)
  PROVE  Counts'
<1> SUFFICES ASSUME NEW q \in Parents
             PROVE  /\ Cardinality(InKernel(q))' <= MaxConcurrent
                    /\ Cardinality(Admitted(q))' <= MaxPerParent
                    /\ Cardinality(Tracked(q))' <= MaxQueued
  BY DEF Counts
<1>1. /\ task[c] \in {"new", "admission", "slot"} /\ parent' = parent /\ row' = row
      /\ task' = [task EXCEPT ![c] = NextGate(c)]
  BY DEF Advance, Waiting, rows
<1>2. \A d \in Children \ {c} : task'[d] = task[d]
  BY <1>1 DEF TypeOK
<1>3. task'[c] = NextGate(c)
  BY <1>1 DEF TypeOK
<1>4. /\ InKernel(q) \in SUBSET Children /\ InKernel(q)' \in SUBSET Children
      /\ Admitted(q) \in SUBSET Children /\ Admitted(q)' \in SUBSET Children
  BY DEF InKernel, Admitted
<1>5. /\ InKernel(q)' \subseteq InKernel(q) \cup {c}
      /\ Admitted(q)' \subseteq Admitted(q) \cup {c}
  BY <1>1, <1>2 DEF InKernel, Admitted
<1>6. Cardinality(InKernel(q)') <= MaxConcurrent
  <2>1. CASE parent[c] = q /\ NextGate(c) = "kernel"
    <3>1. ~ (Cardinality(InKernel(q)) >= MaxConcurrent)
      BY <2>1 DEF NextGate
    <3>2. Cardinality(InKernel(q)) < MaxConcurrent
      BY <1>4, <3>1, ChildSetsFinite, LimitsAssumption
    <3> QED
      BY <1>4, <1>5, <3>2, OneMoreFits, LimitsAssumption
  <2>2. CASE ~ (parent[c] = q /\ NextGate(c) = "kernel")
    <3>1. InKernel(q)' \subseteq InKernel(q)
      BY <1>1, <1>2, <1>3, <2>2 DEF InKernel
    <3> QED
      BY <1>4, <3>1, StillFits, LimitsAssumption DEF Counts
  <2> QED
    BY <2>1, <2>2
<1>7. Cardinality(Admitted(q)') <= MaxPerParent
  <2>1. CASE parent[c] = q /\ task[c] # "slot" /\ NextGate(c) # "admission"
    <3>1. ~ (Cardinality(Admitted(q)) >= MaxPerParent)
      BY <2>1 DEF NextGate
    <3>2. Cardinality(Admitted(q)) < MaxPerParent
      BY <1>4, <3>1, ChildSetsFinite, LimitsAssumption
    <3> QED
      BY <1>4, <1>5, <3>2, OneMoreFits, LimitsAssumption
  <2>2. CASE ~ (parent[c] = q /\ task[c] # "slot" /\ NextGate(c) # "admission")
    <3>1. Admitted(q)' \subseteq Admitted(q)
      BY <1>1, <1>2, <1>3, <2>2 DEF Admitted
    <3> QED
      BY <1>4, <3>1, StillFits, LimitsAssumption DEF Counts
  <2> QED
    BY <2>1, <2>2
<1>8. Cardinality(Tracked(q))' <= MaxQueued
  BY <1>1 DEF Counts, Tracked
<1> QED
  BY <1>6, <1>7, <1>8 DEF InKernel, Admitted

-----------------------------------------------------------------------------
(* IndInv is inductive.                                                     *)

Strong == TypeOK /\ ChildInv /\ Counts /\ WakeInv /\ NobodyIsStranded

LEMMA StrongIsIndInv == Strong <=> IndInv
  BY DEF Strong, IndInv, ChildInv, WakeInv, LiveRuns, Counts, LimitsHold

LEMMA InitStrong ==
  ASSUME Init
  PROVE  Strong
<1> USE DEF Init, WakeupInit
<1>1. TypeOK
  BY MaxFaultsAssumption, MaxStopsAssumption DEF TypeOK, RowStates, Callers
<1>2. ChildInv
  BY DEF ChildInv, TaskInv, RunningRowsAreOwned, RunningChildrenAreReachable, LiveRuns, Live, Waiting
<1>3. Counts
  <2>1. \A p \in Parents : InKernel(p) = {} /\ Admitted(p) = {} /\ Tracked(p) = {}
    BY DEF InKernel, Admitted, Tracked
  <2> QED
    <3>1. Cardinality({}) = 0 /\ 0 <= MaxConcurrent /\ 0 <= MaxPerParent /\ 0 <= MaxQueued
      BY FS_EmptySet, LimitsAssumption
    <3> QED
      BY <2>1, <3>1, Zenon DEF Counts
<1>4. WakeInv
  BY DEF WakeInv, WindowInv, EndsAreOwed, MessageInv, NobodyIsToldTwice, Terminal, TerminalStates,
     Unreported, Windows
<1>5. NobodyIsStranded
  <2>1. Windows = {}
    BY DEF Windows
  <2> QED
    BY <2>1, FS_EmptySet, MaxInflightAssumption DEF NobodyIsStranded
<1> QED
  BY <1>1, <1>2, <1>3, <1>4, <1>5 DEF Strong

LEMMA ShapesKeepStrong ==
  ASSUME Strong, TypeOK', ChildInv', Counts', Shape
  PROVE  Strong'
<1>1. WakeInv'
  BY ExcusesKeep, SchedulesKeep, StopsKeep DEF Strong, Shape
<1>2. NobodyIsStranded'
  BY ShapeStrandsNobody DEF Strong, Shape
<1> QED
  BY <1>1, <1>2 DEF Strong

LEMMA StepsKeepStrong ==
  ASSUME Strong, [Next]_vars
  PROVE  Strong'
<1> USE DEF Strong
<1>1. CASE HandlerSteps
  <2>1. ASSUME NEW p \in Parents, LookUp(p)
        PROVE  Strong'
    BY <2>1, LookUpStep, FewerFit, ShapesKeepStrong
  <2>2. ASSUME NEW c \in Children, NEW p \in Parents, Spawn(c, p)
        PROVE  Strong'
    <3>1. TypeOK' /\ ChildInv' /\ Shape
      BY <2>2, SpawnStep
    <3>2. Counts'
      <4>1. /\ Cardinality(Tracked(p)) < MaxQueued /\ row[c] = "none"
            /\ parent' = [parent EXCEPT ![c] = p]
        BY <2>2 DEF Spawn, Reserve
      <4>2. /\ \A d \in Children \ {c} : row'[d] = row[d] /\ task'[d] = task[d]
            /\ task'[c] \notin {"slot", "kernel"}
        BY <2>2 DEF Spawn, TypeOK
      <4> QED
        BY <4>1, <4>2, SpawnFits DEF ChildInv
    <3> QED
      BY <3>1, <3>2, ShapesKeepStrong
  <2>3. ASSUME NEW c \in Children, NEW p \in Parents, SpawnTooLate(c, p)
        PROVE  Strong'
    <3>1. TypeOK' /\ ChildInv' /\ Shape
      BY <2>3, SpawnTooLateStep
    <3>2. Counts'
      <4>1. /\ Cardinality(Tracked(p)) < MaxQueued /\ row[c] = "none"
            /\ parent' = [parent EXCEPT ![c] = p]
        BY <2>3 DEF SpawnTooLate, Reserve
      <4>2. \A d \in Children \ {c} : row'[d] = row[d] /\ task'[d] = task[d]
        BY <2>3 DEF SpawnTooLate, TypeOK
      <4>3. task'[c] \notin {"slot", "kernel"}
        BY <2>3, <4>1 DEF SpawnTooLate, ChildInv, LiveRuns, Live, Waiting
      <4> QED
        BY <4>1, <4>2, <4>3, SpawnFits DEF ChildInv
    <3> QED
      BY <3>1, <3>2, ShapesKeepStrong
  <2>4. ASSUME NEW c \in Children, UserCancels(c) \/ AbandonAwait(c)
        PROVE  Strong'
    BY <2>4, UserCancelsStep, AbandonAwaitStep, FewerFit, ShapesKeepStrong
  <2>5. ASSUME NEW caller \in Callers, NEW c \in Children, AwaitEnds(caller, c)
        PROVE  Strong'
    BY <2>5, AwaitEndsStep, FewerFit, ShapesKeepStrong
  <2>6. ASSUME NEW v \in Conversations, BeginDelete(v) \/ EndDelete(v)
        PROVE  Strong'
    BY <2>6, DeleteStep, FewerFit, ShapesKeepStrong
  <2>7. ASSUME NEW v \in Conversations, NEW c \in Children, DeleteChild(v, c)
        PROVE  Strong'
    BY <2>7, DeleteChildStep, FewerFit, ShapesKeepStrong
  <2> QED
    BY <1>1, <2>1, <2>2, <2>3, <2>4, <2>5, <2>6, <2>7 DEF HandlerSteps
<1>2. ASSUME NEW c \in Children, TaskSteps(c)
      PROVE  Strong'
  <2>1. CASE Advance(c)
    <3>1. TypeOK' /\ ChildInv' /\ Shape
      BY <2>1, AdvanceStep
    <3>2. Counts'
      BY <2>1, AdvanceFits DEF ChildInv
    <3> QED
      BY <3>1, <3>2, ShapesKeepStrong
  <2>2. ASSUME NEW s \in Ends, KernelEnds(c, s) \/ StoreFails(c, s)
        PROVE  Strong'
    BY <2>2, KernelEndsStep, StoreFailsStep, FewerFit, ShapesKeepStrong
  <2>3. CASE Unprojectable(c)
    BY <2>3, UnprojectableStep, FewerFit, ShapesKeepStrong
  <2>4. CASE Unwind(c)
    <3>1. process # "down"
      BY <2>4 DEF Unwind, ChildInv, TaskInv, Live, Waiting
    <3> QED
      BY <2>4, <3>1, UnwindStep, FewerFit, ShapesKeepStrong
  <2> QED
    BY <1>2, <2>1, <2>2, <2>3, <2>4 DEF TaskSteps, KernelSteps
<1>3. ASSUME NEW v \in Conversations, WindowSteps(v), UNCHANGED <<handler, stops, lost>>
      PROVE  Strong'
  BY <1>3, WindowTyped, WindowKeeps, WindowStrandsNobody, FewerFit
<1>4. CASE Restart
  BY <1>4, RestartStep, RestartKeeps, RestartStrandsNobody, FewerFit
<1>5. CASE BeginShutdown \/ CloseSupervisor \/ Crash
  BY <1>5, BeginShutdownStep, CloseSupervisorStep, CrashStep, FewerFit, ShapesKeepStrong
<1>6. ASSUME NEW failed \in SUBSET Unstarted, FinishShutdown(failed)
      PROVE  Strong'
  BY <1>6, FinishShutdownStep, FewerFit, ShapesKeepStrong
<1>7. CASE UNCHANGED vars
  <2> USE <1>7 DEF vars, rows, service, told, handler
  <2>1. TypeOK'
    BY DEF TypeOK
  <2>2. ChildInv' /\ Fewer
    BY DEF ChildInv, TaskInv, RunningRowsAreOwned, RunningChildrenAreReachable, LiveRuns, Live,
       Fewer, InKernel, Admitted, Tracked
  <2>3. Shape
    BY DEF Shape, Forward, Excuses, Terminal
  <2> QED
    BY <2>1, <2>2, <2>3, FewerFit, ShapesKeepStrong
<1> QED
  BY <1>1, <1>2, <1>3, <1>4, <1>5, <1>6, <1>7 DEF Next, Lifespan

-----------------------------------------------------------------------------
(* The theorems.                                                            *)

\* The inductive invariant of the handler and the wake-ups holds for any
\* number of children, parents and conversations.
THEOREM ChildRunsInvariant == Spec => []IndInv
<1>1. Init => Strong
  BY InitStrong
<1>2. Strong /\ [Next]_vars => Strong'
  BY StepsKeepStrong
<1>3. Spec => []Strong
  BY <1>1, <1>2, PTL DEF Spec
<1> QED
  BY <1>3, StrongIsIndInv, PTL

\* Every variable of the handler and the wake-ups keeps its type.
THEOREM ChildRunsTyped == Spec => []TypeOK
<1>1. IndInv => TypeOK
  BY DEF IndInv
<1> QED
  BY <1>1, ChildRunsInvariant, PTL

\* A row that says running has somebody who will end it: its task, a cancel
\* call that waits, the shutdown; or the last write failed.
THEOREM RowsAreOwned == Spec => []RunningRowsAreOwned
<1>1. IndInv => RunningRowsAreOwned
  BY DEF IndInv
<1> QED
  BY <1>1, ChildRunsInvariant, PTL

\* Eviction never takes the coordinator of a child that is running.
THEOREM ChildrenAreReachable == Spec => []RunningChildrenAreReachable
<1>1. IndInv => RunningChildrenAreReachable
  BY DEF IndInv
<1> QED
  BY <1>1, ChildRunsInvariant, PTL

\* The limits on children in the kernel, admitted and reserved hold, however
\* coordinators come and go.
THEOREM GatesHold == Spec => []LimitsHold
<1>1. IndInv => LimitsHold
  BY DEF IndInv
<1> QED
  BY <1>1, ChildRunsInvariant, PTL

\* The end of a child is reported, on its way, or given up with a notice.
THEOREM EndsStayOwed == Spec => []EndsAreOwed
<1>1. IndInv => EndsAreOwed
  BY DEF IndInv
<1> QED
  BY <1>1, ChildRunsInvariant, PTL

\* No conversation that is owed a window waits beside a free one.
THEOREM NobodyStranded == Spec => []NobodyIsStranded
<1>1. IndInv => NobodyIsStranded
  BY DEF IndInv
<1> QED
  BY <1>1, ChildRunsInvariant, PTL

\* No conversation is told twice of a child, unless a stamp was lost.
THEOREM NobodyToldTwice == Spec => []NobodyIsToldTwice
<1>1. IndInv => NobodyIsToldTwice
  BY DEF IndInv
<1> QED
  BY <1>1, ChildRunsInvariant, PTL
=============================================================================
