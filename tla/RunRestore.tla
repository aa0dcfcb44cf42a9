------------------------------- MODULE RunRestore -------------------------------
(***************************************************************************)
(* What the runs of one workspace do to its files, and how the changes of  *)
(* a failed run are taken back: the checkpoint before a run's first write  *)
(* and the ledger of its changes (run_checkpoint.py), the observer that    *)
(* restores when a run has failed (run_restore.py), and the reconciliation *)
(* at the next start of what a crash kept from being restored              *)
(* (run_reconcile.py).  A user changes the files with tools of his own, at *)
(* any time.                                                               *)
(*                                                                         *)
(* A text is a pair: who wrote it, and which of his texts it is.  Runs are *)
(* numbered in the order in which their rows are created.                  *)
(***************************************************************************)
EXTENDS Naturals

CONSTANTS
    Files,      \* the paths of the workspace
    NumRuns,
    Texts,      \* the texts that are written, Original the one of the files at first
    Commanding, \* bound: the runs that execute commands
    Revivable,  \* bound: the runs that may be revived
    MaxChanges, \* bound: changes of files by users and runs
    MaxCrashes, \* bound: crashes of the process
    Faults,     \* the writes that may fail, and how
    MaxFaults,  \* bound: failures
    None, Absent, Torn

\* The snapshot, a row of the index, a file, a line of the ledger, the event of a
\* restore, a file of a restore, a row of the sweep.
AllFaults == {"snapshot", "ref_lost", "ref_torn", "write_torn", "entry_lost", "entry_torn",
              "event_lost", "restore", "sweep"}

Runs == 1 .. NumRuns
User == 0
TextsOf(a) == {t \in Texts : t[1] = a}
Original == <<User, 0>>
Contents == Texts \cup {Absent, Torn}

ASSUME NumRunsAssumption == NumRuns \in Nat
ASSUME TextsAssumption == Texts \subseteq (Runs \cup {User}) \X Nat /\ Original \in Texts
ASSUME BoundsAssumption ==
    /\ Commanding \subseteq Runs /\ Revivable \subseteq Runs
    /\ Faults \subseteq AllFaults /\ MaxChanges \in Nat /\ MaxCrashes \in Nat /\ MaxFaults \in Nat
ASSUME AtomsAssumption ==
    /\ Absent # Torn /\ Absent \notin Texts /\ Torn \notin Texts
    /\ None \notin Contents /\ None \notin [Files -> Contents]
    /\ None \notin [present : SUBSET Files, touched : SUBSET Files]

VARIABLES
    file,       \* the workspace
    scan,       \* of a run whose command executes: the files present before, and touched since
    status,     \* the rows of the runs
    pc,         \* "executing", "observing" (terminal, the observer is to come), or "none"
    ended,      \* the order of their finished_at: pairs of a run and one that ended after it
    snap,       \* the manifests in the store of checkpoints, with the texts they keep
    known,      \* the runs whose checkpoint the coordinator has in memory
    indexed,    \* those with a row in checkpoint-refs.jsonl
    indexTorn,  \* its last line has no end
    ledger,     \* the content after the last change recorded for a run and a file
    ledgerTorn, \* a line of the ledger cannot be parsed
    marked,     \* the runs with an event run_auto_restored
    phase,      \* of the process: "up", "down" or "starting"
    todo,       \* the failed runs the reconciliation has still to look at
    crashes, faults, changes,
    \* history, for the properties only
    taken,      \* contents of others a run's reconciliation of a command recorded as its own
    unguarded,  \* runs that wrote without a checkpoint, or whose checkpoint was forgotten
    overlapped  \* runs whose lives overlapped, until what they left was restored

files == <<file, scan>>
store == <<snap, known, indexed, indexTorn>>
rows == <<status, pc, ended>>
process == <<phase, todo, crashes, changes>>
history == <<taken, unguarded, overlapped>>
vars == <<files, rows, store, ledger, ledgerTorn, marked, process, faults, history>>

-----------------------------------------------------------------------------
Present(f) == file[f] # Absent
NoEntry == [f \in Files |-> None]
NoScan == [r \in Runs |-> None]
Idle == [r \in Runs |-> "none"]
Failed == {r \in Runs : status[r] = "failed"}
Terminal == {r \in Runs : status[r] \notin {"new", "running"}}

\* A run ends after those that have ended.
EndsNow(r) == ended' = ended \cup (Terminal \X {r})

\* A step fails at most once, and the failures are bounded.
Fails(fault) ==
    /\ faults' = IF fault = "no" THEN faults ELSE faults + 1
    /\ fault \in Faults \cup {"no"} /\ faults' <= MaxFaults

Counted == changes < MaxChanges /\ changes' = changes + 1

\* A change is noticed by the commands that execute meanwhile: the time of the
\* file, or its size, is another.
Touched(fs) ==
    [r \in Runs |-> IF scan[r] = None THEN None
                    ELSE [scan[r] EXCEPT !.touched = @ \cup fs]]

Init ==
    /\ file = [f \in Files |-> Original]
    /\ scan = NoScan
    /\ status = [r \in Runs |-> "new"] /\ pc = Idle /\ ended = {}
    /\ snap = [r \in Runs |-> None] /\ known = {} /\ indexed = {} /\ indexTorn = FALSE
    /\ ledger = [r \in Runs |-> NoEntry] /\ ledgerTorn = FALSE
    /\ marked = {}
    /\ phase = "up" /\ todo = {} /\ crashes = 0 /\ faults = 0 /\ changes = 0
    /\ taken = [r \in Runs |-> {}] /\ unguarded = {} /\ overlapped = {}

-----------------------------------------------------------------------------
(* The runs and their rows.                                                 *)

Lives(r) == status[r] = "running" \/ pc[r] # "none"

\* A run is created after the one before it and executes.
Start(r) ==
    /\ phase = "up" /\ status[r] = "new"
    /\ r > 1 => status[r - 1] # "new"
    /\ status' = [status EXCEPT ![r] = "running"]
    /\ pc' = [pc EXCEPT ![r] = "executing"]
    /\ LET others == {q \in Runs : Lives(q)}
       IN overlapped' = IF others = {} THEN overlapped ELSE overlapped \cup others \cup {r}
    /\ UNCHANGED <<files, ended, store, ledger, ledgerTorn, marked, process, faults,
                   taken, unguarded>>

\* execute() makes the row terminal; a command that still executes is killed and
\* not reconciled.  The observer looks at failed runs only.
End(r, s) ==
    /\ pc[r] = "executing"
    /\ status' = [status EXCEPT ![r] = s]
    /\ pc' = [pc EXCEPT ![r] = IF s = "failed" THEN "observing" ELSE "none"]
    /\ EndsNow(r)
    /\ scan' = [scan EXCEPT ![r] = None]
    /\ UNCHANGED <<file, store, ledger, ledgerTorn, marked, process, faults, history>>

\* The checkpoint of a run keeps what another had left.
Keeps(r, q) == snap[r] # None /\ \E f \in Files : snap[r][f] \in TextsOf(q)

\* resolve_recovery executes a stopped run again, with the checkpoint it had: a failed
\* run may have been restored since that was taken.
Revive(r) ==
    /\ phase = "up" /\ status[r] = "completed" /\ r \in Revivable
    /\ status' = [status EXCEPT ![r] = "running"]
    /\ pc' = [pc EXCEPT ![r] = "executing"]
    /\ ended' = {p \in ended : r \notin {p[1], p[2]}}
    /\ LET others == {q \in Runs \ {r} :
                        \/ Lives(q)
                        \/ q > r /\ status[q] # "new"
                        \/ q \in marked /\ Keeps(r, q)}
       IN overlapped' = IF others = {} THEN overlapped ELSE overlapped \cup others \cup {r}
    /\ UNCHANGED <<files, store, ledger, ledgerTorn, marked, process, faults, taken, unguarded>>

\* resolve_recovery marks a run that nobody executes: no executor, no observer.
MarkFailed(r) ==
    /\ phase = "up" /\ status[r] = "running" /\ pc[r] = "none"
    /\ status' = [status EXCEPT ![r] = "failed"]
    /\ EndsNow(r)
    /\ UNCHANGED <<files, pc, store, ledger, ledgerTorn, marked, process, faults, history>>

-----------------------------------------------------------------------------
(* The tools.                                                               *)

\* [mutant] every write takes a snapshot
SnapshotAgain(r, fault) ==
    IF fault = "snapshot" THEN UNCHANGED store
    ELSE /\ snap' = [snap EXCEPT ![r] = file]
         /\ known' = known \cup {r}
         /\ indexed' = indexed \cup {r}
         /\ UNCHANGED indexTorn

\* The first tool of a run that writes takes the snapshot.  The row of the index
\* may be lost, be torn, or continue the torn line before it.
EnsureCheckpoint(r, fault) ==
    IF r \in known \/ fault = "snapshot" THEN UNCHANGED store
    ELSE /\ snap' = [snap EXCEPT ![r] = file]
         /\ known' = known \cup {r}
         /\ indexed' = IF indexTorn \/ fault \in {"ref_lost", "ref_torn"} THEN indexed
                       ELSE indexed \cup {r}
         /\ indexTorn' = (fault = "ref_torn" \/ (indexTorn /\ fault = "ref_lost"))

\* The ledger gets a line for each of the files, with what they contain now.
RecordEffect(r, fs, fault) ==
    /\ ledger' = IF fault \in {"entry_lost", "entry_torn"} THEN ledger
                 ELSE [ledger EXCEPT ![r] = [f \in Files |-> IF f \in fs THEN file'[f] ELSE @[f]]]
    /\ ledgerTorn' = (ledgerTorn \/ fault = "entry_torn")

StoreFaults == {"no", "snapshot", "ref_lost", "ref_torn"}
WriteFaults == StoreFaults \cup {"write_torn", "entry_lost", "entry_torn"}

Writes(r) == pc[r] = "executing" /\ scan[r] = None

\* write, edit or copy: a text of the run; delete; move does both.  A write that
\* fails half way is not recorded.
ToolChanges(r, f, content, fault) ==
    /\ Writes(r)
    /\ content = Absent => Present(f)
    /\ content = Torn <=> fault = "write_torn"
    /\ Counted /\ Fails(fault)
    /\ EnsureCheckpoint(r, fault)
    /\ file' = [file EXCEPT ![f] = content]
    /\ scan' = Touched({f})
    /\ RecordEffect(r, {f} \ {g \in Files : content = Torn}, fault)
    /\ unguarded' = IF r \in known' THEN unguarded ELSE unguarded \cup {r}
    /\ UNCHANGED <<rows, marked, phase, todo, crashes, taken, overlapped>>

\* run_shell: the command starts
CommandStarts(r, fault) ==
    /\ Writes(r) /\ r \in Commanding
    /\ Fails(fault)
    /\ EnsureCheckpoint(r, fault)
    /\ scan' = [scan EXCEPT ![r] = [present |-> {f \in Files : Present(f)}, touched |-> {}]]
    /\ UNCHANGED <<file, rows, ledger, ledgerTorn, marked, process, history>>

CommandChanges(r, f, content) ==
    /\ scan[r] # None
    /\ Counted
    /\ file' = [file EXCEPT ![f] = content]
    /\ scan' = Touched({f})
    /\ unguarded' = IF r \in known THEN unguarded ELSE unguarded \cup {r}
    /\ UNCHANGED <<rows, store, ledger, ledgerTorn, marked, phase, todo, crashes, faults, taken,
                   overlapped>>

\* Every file that is not as before the command is recorded as the run's, or
\* none is when there are too many.
CommandEnds(r, fault) ==
    /\ scan[r] # None
    /\ Fails(fault)
    /\ scan' = [scan EXCEPT ![r] = None]
    /\ UNCHANGED file
    /\ LET changed == {f \in scan[r].touched : f \in scan[r].present \/ Present(f)}
       IN  \E recorded \in {changed, {}} :
             /\ RecordEffect(r, recorded, fault)
             /\ taken' = [taken EXCEPT ![r] = taken[r] \cup {file[f] : f \in recorded}]
    /\ UNCHANGED <<rows, store, marked, process, unguarded, overlapped>>

\* The user, or a program of his.
UserChanges(f, content) ==
    /\ content # file[f]
    /\ Counted
    /\ file' = [file EXCEPT ![f] = content]
    /\ scan' = Touched({f})
    /\ UNCHANGED <<rows, store, ledger, ledgerTorn, marked, phase, todo, crashes, faults, history>>

-----------------------------------------------------------------------------
(* The restore.                                                             *)

\* [mutant] the ledger is asked for the last change of any run
OfAnyRun(r, f) == \E q \in Runs : ledger[q][f] = file[f]

\* The last change recorded for this run left what is there now.
AgentIntact(r, f) == ledger[r][f] = file[f]

Differs(r, f) == snap[r][f] \notin {Absent, file[f]}

\* plan_restore: a file of the snapshot that is missing, or still as the run left it
WouldApply(r) == {f \in Files : Differs(r, f) /\ (~Present(f) \/ AgentIntact(r, f))}

\* The ledger is read for a file that is present, and must be readable as a whole.
PlanRaises(r) == ledgerTorn /\ \E f \in Files : Differs(r, f) /\ Present(f)

\* apply_restore, and the event; a failure to append it is logged.
RestoreAndMark(r) ==
    IF PlanRaises(r) THEN UNCHANGED <<files, marked, faults>>
    ELSE /\ file' = [f \in Files |-> IF f \in WouldApply(r) THEN snap[r][f] ELSE file[f]]
         /\ scan' = Touched(WouldApply(r))
         /\ \E fault \in {"no", "event_lost"} :
              /\ Fails(fault)
              /\ marked' = IF fault = "no" THEN marked \cup {r} ELSE marked

\* The files are written one by one: some are restored, one may be half written.
PartlyRestored(r) ==
    /\ ~PlanRaises(r)
    /\ \E done \in SUBSET WouldApply(r) :
       \E torn \in SUBSET (WouldApply(r) \ done) :
         /\ \A f, g \in torn : f = g
         /\ file' = [f \in Files |-> IF f \in done THEN snap[r][f]
                                     ELSE IF f \in torn THEN Torn ELSE file[f]]

Noticed == scan' = Touched({f \in Files : file'[f] # file[f]})

\* on_run_terminal of a failed run
ObserverRestores(r) ==
    /\ pc[r] = "observing" /\ r \in known
    /\ RestoreAndMark(r)
    /\ pc' = [pc EXCEPT ![r] = "none"]
    /\ UNCHANGED <<status, ended, store, ledger, ledgerTorn, process, history>>

\* There is no checkpoint, or the observers before it took all the time, or the
\* task was cancelled.
ObserverGivesUp(r) ==
    /\ pc[r] = "observing"
    /\ pc' = [pc EXCEPT ![r] = "none"]
    /\ UNCHANGED <<files, status, ended, store, ledger, ledgerTorn, marked, process, faults,
                   history>>

\* A write of the restore raises, in the observer or at the start.
ObserverRaises(r) ==
    /\ pc[r] = "observing" /\ r \in known
    /\ Fails("restore")
    /\ PartlyRestored(r) /\ Noticed
    /\ pc' = [pc EXCEPT ![r] = "none"]
    /\ UNCHANGED <<status, ended, store, ledger, ledgerTorn, marked, process, history>>

-----------------------------------------------------------------------------
(* The process.                                                             *)

FinishedBefore(q, r) == <<q, r>> \in ended

\* [mutant] the oldest first
Oldest(r) == r \in todo /\ \A q \in todo \ {r} : FinishedBefore(r, q)

\* reconcile_failed_runs goes from the newest to the oldest by their finished_at.
Newest(r) == r \in todo /\ \A q \in todo \ {r} : FinishedBefore(q, r)

LoseMemory ==
    /\ phase # "down" /\ crashes < MaxCrashes
    /\ phase' = "down" /\ crashes' = crashes + 1
    /\ known' = {} /\ todo' = {} /\ pc' = Idle
    /\ UNCHANGED <<status, ended, snap, indexed, indexTorn, ledger, ledgerTorn, marked, faults,
                   changes, history>>

Crash ==
    /\ LoseMemory
    /\ scan' = NoScan
    /\ UNCHANGED file

\* The process dies while it restores.
CrashInRestore(r) ==
    /\ r \in known
    /\ pc[r] = "observing" \/ (phase = "starting" /\ Newest(r) /\ r \notin marked)
    /\ LoseMemory
    /\ PartlyRestored(r)
    /\ scan' = NoScan

\* The rows that are active are swept, in the order of their creation, one by
\* one: one may fail.  Then the failed runs are collected.
Restart ==
    /\ phase = "down"
    /\ phase' = "starting"
    /\ known' = indexed
    /\ unguarded' = unguarded \cup {r \in Runs \ indexed : snap[r] # None}
    /\ \E left \in SUBSET {r \in Runs : status[r] = "running"} :
         LET swept == {r \in Runs : status[r] = "running"} \ left
         IN  /\ Fails(IF left = {} THEN "no" ELSE "sweep")
             /\ status' = [r \in Runs |-> IF r \in swept THEN "failed" ELSE status[r]]
             /\ ended' = ended \cup {p \in Runs \X swept :
                                    p[1] \in Terminal \/ (p[1] \in swept /\ p[1] < p[2])}
    /\ todo' = Failed'
    /\ UNCHANGED <<files, pc, snap, indexed, indexTorn, ledger, ledgerTorn, marked, crashes,
                   changes, taken, overlapped>>

Reconciles(r) ==
    /\ phase = "starting" /\ Newest(r)
    /\ todo' = todo \ {r}
    /\ UNCHANGED <<rows, store, ledger, ledgerTorn, phase, crashes, changes, history>>

\* [mutant] the events of the run are not asked
ReconcileAgain(r) ==
    /\ Reconciles(r)
    /\ r \in known
    /\ RestoreAndMark(r)

\* [mutant] no event when there was nothing to restore
MarkIfRestored(r) ==
    /\ Reconciles(r)
    /\ r \in known /\ r \notin marked
    /\ IF WouldApply(r) = {} THEN UNCHANGED <<files, marked, faults>> ELSE RestoreAndMark(r)

ReconcileRestores(r) ==
    /\ Reconciles(r)
    /\ r \in known /\ r \notin marked
    /\ RestoreAndMark(r)

ReconcileSkips(r) ==
    /\ Reconciles(r)
    /\ r \notin known \/ r \in marked
    /\ UNCHANGED <<files, marked, faults>>

ReconcileRaises(r) ==
    /\ Reconciles(r)
    /\ r \in known /\ r \notin marked
    /\ Fails("restore")
    /\ PartlyRestored(r) /\ Noticed
    /\ UNCHANGED marked

Serve ==
    /\ phase = "starting" /\ todo = {}
    /\ phase' = "up"
    /\ UNCHANGED <<files, rows, store, ledger, ledgerTorn, marked, todo, crashes, faults,
                   changes, history>>

RunActs(r) ==
    \/ Start(r) \/ Revive(r) \/ MarkFailed(r)
    \/ \E s \in {"completed", "failed", "cancelled"} : End(r, s)
    \/ \E f \in Files, fault \in WriteFaults, content \in TextsOf(r) \cup {Absent, Torn} :
         ToolChanges(r, f, content, fault)
    \/ \E fault \in StoreFaults : CommandStarts(r, fault)
    \/ \E f \in Files, content \in TextsOf(r) \cup {Absent} : CommandChanges(r, f, content)
    \/ \E fault \in {"no", "entry_lost", "entry_torn"} : CommandEnds(r, fault)
    \/ ObserverRestores(r) \/ ObserverGivesUp(r) \/ ObserverRaises(r)

Reconciliation(r) == ReconcileRestores(r) \/ ReconcileSkips(r) \/ ReconcileRaises(r)

Next ==
    \/ \E r \in Runs : RunActs(r) \/ Reconciliation(r) \/ CrashInRestore(r)
    \/ \E f \in Files, content \in TextsOf(User) \cup {Absent} : UserChanges(f, content)
    \/ Crash \/ Restart \/ Serve

Spec == Init /\ [][Next]_vars

\* Somebody starts the process again, and its start does what it has to do.
Fairness ==
    /\ WF_vars(Restart) /\ WF_vars(Serve)
    /\ \A r \in Runs : WF_vars(Reconciliation(r))

LiveSpec == Spec /\ Fairness

-----------------------------------------------------------------------------
Statuses == {"new", "running", "completed", "failed", "cancelled"}

\* The workspace, the store, the rows and the process have their types.
TypeOK ==
    /\ file \in [Files -> Contents]
    /\ scan \in [Runs -> [present : SUBSET Files, touched : SUBSET Files] \cup {None}]
    /\ status \in [Runs -> Statuses]
    /\ pc \in [Runs -> {"none", "executing", "observing"}]
    /\ snap \in [Runs -> [Files -> Contents] \cup {None}]
    /\ known \in SUBSET Runs /\ indexed \in SUBSET Runs /\ indexTorn \in BOOLEAN
    /\ ledger \in [Runs -> [Files -> Contents \cup {None}]] /\ ledgerTorn \in BOOLEAN
    /\ ended \in SUBSET (Runs \X Runs)
    /\ marked \in SUBSET Runs
    /\ phase \in {"up", "down", "starting"}
    /\ crashes \in 0 .. MaxCrashes /\ faults \in 0 .. MaxFaults
    /\ changes \in 0 .. MaxChanges
    /\ taken \in [Runs -> SUBSET Contents]
    /\ unguarded \in SUBSET Runs /\ overlapped \in SUBSET Runs

-----------------------------------------------------------------------------
(* What makes them hold.                                                    *)

\* A checkpoint the coordinator or the index knows is in the store; in a process
\* that runs, a checkpoint is known, or its run counts as unguarded.
RefsExist ==
    /\ \A r \in known \cup indexed : snap[r] # None
    /\ phase # "down" =>
         indexed \subseteq known /\ \A r \in Runs \ unguarded : snap[r] # None => r \in known

\* Only runs of a process that is up execute or wait for the observer, and what
\* waits is failed and has not been restored.
RowsMatchTasks ==
    /\ phase # "up" => pc = Idle
    /\ \A r \in Runs :
         /\ scan[r] # None => pc[r] = "executing"
         /\ pc[r] = "executing" => status[r] = "running"
         /\ pc[r] = "observing" => status[r] = "failed" /\ r \notin marked
    /\ marked \subseteq Failed /\ todo \subseteq Failed /\ (phase = "up" => todo = {})

\* What is recorded for a run is its own, or was taken for its own.
LedgerIsScoped ==
    \A r \in Runs, f \in Files : ledger[r][f] \in TextsOf(r) \cup taken[r] \cup {None, Absent}

\* Before the snapshot of a run nothing of it is anywhere.
NothingBeforeSnapshot ==
    \A r \in Runs \ unguarded, f \in Files :
        /\ snap[r] # None => snap[r][f] \notin TextsOf(r)
        /\ snap[r] = None =>
             /\ file[f] \notin TextsOf(r)
             /\ \A q \in Runs : snap[q] # None => snap[q][f] \notin TextsOf(r)

\* Two runs that live at a time are overlapped, and so is one that lives while a
\* later one has lived: the checkpoints and the ends of the others nest.
LivesAreOrdered ==
    /\ \A q, r \in Runs :
         status[r] = "new" => snap[r] = None /\ (q > r => status[q] = "new")
    /\ \A q, r \in Runs :
         Lives(q) /\ q # r /\ status[r] # "new" /\ (Lives(r) \/ r > q) => {q, r} \subseteq overlapped
    /\ \A q, r \in Runs : FinishedBefore(q, r) /\ q > r => r \in overlapped
    /\ \A q, r \in Runs, f \in Files :
         q < r /\ r \notin unguarded \cup overlapped /\ snap[q] # None => snap[q][f] \notin TextsOf(r)

\* Without a failure every checkpoint has its row, and is taken before the run
\* writes; every active row has its executor; and a start has marked the failed
\* runs it has looked at.
NothingLost ==
    /\ unguarded = {} /\ ~indexTorn /\ ~ledgerTorn
    /\ \A r \in Runs :
         /\ snap[r] # None => r \in indexed
         /\ scan[r] # None => snap[r] # None
         /\ status[r] = "running" => pc[r] = "executing" \/ phase = "down"
    /\ phase = "starting" => (Failed \cap known) \ todo \subseteq marked

\* What run r left in file f and its restore would take back.
LeftBy(r, f, content) ==
    content \in TextsOf(r) /\ ledger[r][f] = content /\ snap[r][f] \notin {Absent, content}

\* What a restored run left is in no file, and in no checkpoint that may still be
\* written back to the files.
Unwound ==
    \A r \in marked \ overlapped, f \in Files :
        /\ ~LeftBy(r, f, file[f])
        /\ \A q \in Runs \ marked :
             snap[q] # None /\ status[q] \in {"running", "failed"} => ~LeftBy(r, f, snap[q][f])

UnwindInv == LivesAreOrdered /\ (faults = 0 => NothingLost /\ Unwound)

\* A run that may not execute commands has taken nothing of others for its own.
OnlyCommandsTake == \A r \in Runs \ Commanding : scan[r] = None /\ taken[r] = {}

IndInv == TypeOK /\ RefsExist /\ RowsMatchTasks /\ LedgerIsScoped /\ NothingBeforeSnapshot

-----------------------------------------------------------------------------
\* The steps in which the files of a failed run are restored, wholly or in part.
RestoreOf(r) ==
    ObserverRestores(r) \/ ObserverRaises(r) \/ ReconcileRestores(r) \/ ReconcileRaises(r)
        \/ CrashInRestore(r)

\* run_checkpoint.py:296-300: a restore of one run never takes back what another
\* wrote, or the user, unless a command of the run was executing when he did.
OthersContentSurvives ==
    [][\A r \in Runs : RestoreOf(r) =>
         \A f \in Files : Present(f) /\ file'[f] # file[f] =>
             file[f] \in TextsOf(r) \cup taken[r]]_vars

\* run_restore.py:15-17: a file the user has edited is skipped: "never overwrite
\* what the user changed".
UserEditsSurvive ==
    [][\A r \in Runs : RestoreOf(r) =>
         \A f \in Files : file[f] \in TextsOf(User) => file'[f] = file[f]]_vars

\* The part of it that holds: so it is for the runs that execute no commands.
ToolsSpareUserEdits ==
    [][\A r \in Runs \ Commanding : RestoreOf(r) =>
         \A f \in Files : file[f] \in TextsOf(User) => file'[f] = file[f]]_vars

\* run_reconcile.py:10 and 17-19: the event of a restore marks the run, in the process or
\* at a start, and a marked run is not restored again: what happens to the files later
\* stays.  A restore that is cut off, or whose event is lost, is not marked, and the next
\* start may repeat it.
RestoredOnce == [][\A r \in Runs : RestoreOf(r) => r \notin marked]_vars

\* run_checkpoint.py:8: the snapshot was taken before the run's first write, also
\* when the run was revived in between: nothing of the run's own is in it.  Excepted are
\* the runs that wrote while the process knew of no snapshot of theirs, be it that none
\* could be taken or that its row of the index was lost before a restart.
SnapshotPrecedesRun ==
    \A r \in known \ unguarded, f \in Files : snap[r][f] \notin TextsOf(r)

\* When the process serves again, after whatever crash, no file that its restore would
\* apply to holds what a failed run left there, if its life overlapped with no other run's.
FailedRunsAreUnwound ==
    [][Serve /\ faults = 0 =>
         \A r \in (Failed \cap known) \ overlapped : \A f \in WouldApply(r) :
             file[f] \notin TextsOf(r)]_vars

\* run_reconcile.py:1-8, the part without fairness: a process that serves has restored
\* every failed run with a checkpoint, and no row says that a run executes.
WindowClosedWhenServing ==
    [][Serve /\ faults = 0 =>
         \A r \in Runs : snap[r] # None /\ status[r] \in {"running", "failed"} => r \in marked]_vars

\* run_reconcile.py:1-8: the crash window closes: a run that executed when the
\* process died, or that had failed and was not restored, is restored.
CrashWindowCloses ==
    \A r \in Runs :
        (phase = "down" /\ status[r] \in {"running", "failed"} /\ r \in indexed)
            ~> (r \in marked \/ faults > 0)
=============================================================================
