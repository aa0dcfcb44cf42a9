---------------------------- MODULE RunRestore_proofs ----------------------------
(***************************************************************************)
(* For every number of runs, files, texts and faults: a restore takes back *)
(* only what its run did, or was recorded for it during a command; it      *)
(* happens once; and it goes back to before the run.  Without a failure,   *)
(* what a failed run left is gone when the process serves again.           *)
(***************************************************************************)
EXTENDS RunRestore, TLAPS

-----------------------------------------------------------------------------
(* Texts, scans, checkpoints and restores.                                  *)

\* Nothing has two authors, and no run wrote the original.
LEMMA TextFacts ==
  /\ \A a \in Runs \cup {User} : TextsOf(a) \subseteq Texts
  /\ \A a, b \in Runs \cup {User} : a # b => TextsOf(a) \cap TextsOf(b) = {}
  /\ \A r \in Runs : Original \notin TextsOf(r)
  /\ User \notin Runs /\ Original \in Texts
<1>1. User \notin Runs
  BY NumRunsAssumption DEF User, Runs
<1>2. Original \in Texts /\ Original[1] = User
  BY TextsAssumption DEF Original
<1> QED BY <1>1, <1>2 DEF TextsOf

\* A change is noticed by the commands that execute, and by these only.
LEMMA TouchedFacts ==
  ASSUME TypeOK, NEW fs \in SUBSET Files
  PROVE  /\ Touched(fs) \in [Runs -> [present : SUBSET Files, touched : SUBSET Files] \cup {None}]
         /\ \A r \in Runs : Touched(fs)[r] # None => scan[r] # None
<1>1. ASSUME NEW r \in Runs, scan[r] # None
      PROVE  [scan[r] EXCEPT !.touched = @ \cup fs] \in [present : SUBSET Files, touched : SUBSET Files]
  <2>1. scan[r] \in [present : SUBSET Files, touched : SUBSET Files]
    BY <1>1 DEF TypeOK
  <2>2. scan[r].touched \cup fs \in SUBSET Files
    BY <2>1
  <2> QED BY <2>1, <2>2
<1> QED BY <1>1, AtomsAssumption DEF Touched

\* A checkpoint is taken of the files as they are, once while it is known.
LEMMA CheckpointFacts ==
  ASSUME TypeOK, NEW r \in Runs, NEW fault, EnsureCheckpoint(r, fault)
  PROVE  /\ snap' \in [Runs -> [Files -> Contents] \cup {None}]
         /\ known' \in SUBSET Runs /\ indexed' \in SUBSET Runs /\ indexTorn' \in BOOLEAN
         /\ \/ UNCHANGED <<snap, known, indexed>>
            \/ /\ r \notin known /\ known' = known \cup {r}
               /\ snap' = [snap EXCEPT ![r] = file]
               /\ indexed \subseteq indexed' /\ indexed' \subseteq indexed \cup {r}
<1>1. CASE UNCHANGED store
  BY <1>1 DEF TypeOK, store
<1>2. CASE ~UNCHANGED store
  <2>1. /\ r \notin known /\ known' = known \cup {r}
        /\ snap' = [snap EXCEPT ![r] = file]
        /\ indexed' = IF indexTorn \/ fault \in {"ref_lost", "ref_torn"} THEN indexed
                      ELSE indexed \cup {r}
        /\ indexTorn' = (fault = "ref_torn" \/ (indexTorn /\ fault = "ref_lost"))
    BY <1>2 DEF EnsureCheckpoint
  <2>2. indexTorn' \in BOOLEAN
    BY <2>1
  <2> QED BY <2>1, <2>2 DEF TypeOK
<1> QED BY <1>1, <1>2

\* Failures are counted, and bounded.
LEMMA FaultFacts ==
  ASSUME TypeOK, NEW fault, Fails(fault)
  PROVE  faults' \in 0 .. MaxFaults
<1>1. faults \in Nat /\ MaxFaults \in Nat
  BY BoundsAssumption DEF TypeOK
<1>2. faults' = faults \/ faults' = faults + 1
  BY DEF Fails
<1>3. faults' <= MaxFaults
  BY DEF Fails
<1> QED BY <1>1, <1>2, <1>3

LEMMA CountFacts ==
  ASSUME TypeOK, Counted
  PROVE  changes' \in 0 .. MaxChanges
<1>1. changes \in Nat /\ MaxChanges \in Nat
  BY BoundsAssumption DEF TypeOK
<1> QED BY <1>1 DEF Counted

\* The ledger gets what the files contain now, for the run and its files only.
LEMMA RecordFacts ==
  ASSUME TypeOK, file' \in [Files -> Contents], NEW r \in Runs, NEW fs, NEW fault,
         RecordEffect(r, fs, fault)
  PROVE  /\ ledger' \in [Runs -> [Files -> Contents \cup {None}]] /\ ledgerTorn' \in BOOLEAN
         /\ \A q \in Runs, f \in Files :
              \/ ledger'[q][f] = ledger[q][f]
              \/ q = r /\ f \in fs /\ ledger'[q][f] = file'[f]
<1>1. ledger \in [Runs -> [Files -> Contents \cup {None}]]
  BY DEF TypeOK
<1>2. \/ ledger' = ledger
      \/ ledger' = [ledger EXCEPT ![r] = [f \in Files |-> IF f \in fs THEN file'[f]
                                                          ELSE ledger[r][f]]]
  BY <1>1 DEF RecordEffect
<1>3. ledgerTorn' \in BOOLEAN
  BY DEF RecordEffect, TypeOK
<1>4. [f \in Files |-> IF f \in fs THEN file'[f] ELSE ledger[r][f]]
        \in [Files -> Contents \cup {None}]
  BY <1>1
<1> QED BY <1>1, <1>2, <1>3, <1>4

\* A restore changes the files of its plan only, back to the snapshot or to a torn file.
LEMMA RestoreFacts ==
  ASSUME TypeOK, RefsExist, NEW r \in known, RestoreAndMark(r) \/ PartlyRestored(r)
  PROVE  /\ file' \in [Files -> Contents]
         /\ \A f \in Files : file'[f] # file[f] =>
              f \in WouldApply(r) /\ file'[f] \in {snap[r][f], Torn}
<1>1. snap[r] \in [Files -> Contents]
  BY DEF TypeOK, RefsExist
<1>2. CASE RestoreAndMark(r)
  BY <1>1, <1>2 DEF RestoreAndMark, WouldApply, files, TypeOK
<1>3. CASE PartlyRestored(r)
  BY <1>1, <1>3 DEF PartlyRestored, WouldApply, Contents, TypeOK
<1> QED BY <1>2, <1>3

\* What its plan takes back is the run's, or was recorded for it.
LEMMA PlanIsScoped ==
  ASSUME TypeOK, LedgerIsScoped, NEW r \in Runs, NEW f \in WouldApply(r), Present(f)
  PROVE  f \in Files /\ file[f] \in TextsOf(r) \cup taken[r]
<1>1. f \in Files /\ file[f] # Absent /\ ledger[r][f] = file[f]
  BY DEF WouldApply, AgentIntact, Present
<1>2. file[f] # None
  BY <1>1, AtomsAssumption DEF TypeOK
<1> QED BY <1>1, <1>2 DEF LedgerIsScoped

-----------------------------------------------------------------------------
(* Types.                                                                   *)

LEMMA InitTypes == Init => TypeOK
<1> SUFFICES ASSUME Init PROVE TypeOK
  OBVIOUS
<1>1. file \in [Files -> Contents]
  BY TextFacts DEF Init, Contents
<1>2. /\ scan \in [Runs -> [present : SUBSET Files, touched : SUBSET Files] \cup {None}]
      /\ snap \in [Runs -> [Files -> Contents] \cup {None}]
      /\ ledger \in [Runs -> [Files -> Contents \cup {None}]]
  BY DEF Init, NoScan, NoEntry
<1>3. /\ status \in [Runs -> Statuses]
      /\ pc \in [Runs -> {"none", "executing", "observing"}]
      /\ phase \in {"up", "down", "starting"}
  BY DEF Init, Statuses, Idle
<1>4. crashes \in 0 .. MaxCrashes /\ faults \in 0 .. MaxFaults /\ changes \in 0 .. MaxChanges
  BY BoundsAssumption DEF Init
<1>5. /\ known \in SUBSET Runs /\ indexed \in SUBSET Runs /\ indexTorn \in BOOLEAN
      /\ ledgerTorn \in BOOLEAN /\ marked \in SUBSET Runs
      /\ taken \in [Runs -> SUBSET Contents]
      /\ unguarded \in SUBSET Runs /\ overlapped \in SUBSET Runs
      /\ ended \in SUBSET (Runs \X Runs)
  BY DEF Init
<1> QED BY <1>1, <1>2, <1>3, <1>4, <1>5 DEF TypeOK

LEMMA StepTypes ==
  ASSUME TypeOK, RefsExist, [Next]_vars
  PROVE  TypeOK'
<1>1. ASSUME NEW r \in Runs, Start(r) PROVE TypeOK'
  BY <1>1 DEF Start, TypeOK, Statuses, files, rows, store, process, history
<1>2. ASSUME NEW r \in Runs, NEW s \in {"completed", "failed", "cancelled"}, End(r, s) PROVE TypeOK'
  <2>1. ended' \in SUBSET (Runs \X Runs)
    BY <1>2 DEF End, EndsNow, Terminal, TypeOK
  <2> QED BY <1>2, <2>1 DEF End, TypeOK, Statuses, files, rows, store, process, history
<1>3. ASSUME NEW r \in Runs, Revive(r) PROVE TypeOK'
  BY <1>3 DEF Revive, TypeOK, Statuses, files, rows, store, process, history
<1>4. ASSUME NEW r \in Runs, MarkFailed(r) PROVE TypeOK'
  <2>1. ended' \in SUBSET (Runs \X Runs)
    BY <1>4 DEF MarkFailed, EndsNow, Terminal, TypeOK
  <2> QED BY <1>4, <2>1 DEF MarkFailed, TypeOK, Statuses, files, rows, store, process, history
<1>5. ASSUME NEW r \in Runs, NEW f \in Files, NEW fault \in WriteFaults,
             NEW content \in TextsOf(r) \cup {Absent, Torn}, ToolChanges(r, f, content, fault) PROVE TypeOK'
  <2>1. file' \in [Files -> Contents]
    BY <1>5, TextFacts DEF ToolChanges, TypeOK, Contents
  <2>2. scan' \in [Runs -> [present : SUBSET Files, touched : SUBSET Files] \cup {None}]
    BY <1>5, TouchedFacts DEF ToolChanges
  <2>3. /\ snap' \in [Runs -> [Files -> Contents] \cup {None}]
        /\ known' \in SUBSET Runs /\ indexed' \in SUBSET Runs /\ indexTorn' \in BOOLEAN
    BY <1>5, CheckpointFacts DEF ToolChanges
  <2>4. ledger' \in [Runs -> [Files -> Contents \cup {None}]] /\ ledgerTorn' \in BOOLEAN
    BY <1>5, <2>1, RecordFacts DEF ToolChanges
  <2>5. faults' \in 0 .. MaxFaults /\ changes' \in 0 .. MaxChanges
    <3>1. faults' \in 0 .. MaxFaults
      BY <1>5, FaultFacts DEF ToolChanges
    <3>2. changes' \in 0 .. MaxChanges
      BY <1>5, CountFacts DEF ToolChanges
    <3> QED BY <3>1, <3>2
  <2>6. unguarded' \in SUBSET Runs
    BY <1>5 DEF ToolChanges, TypeOK
  <2> QED BY <1>5, <2>1, <2>2, <2>3, <2>4, <2>5, <2>6 DEF ToolChanges, TypeOK, rows
<1>6. ASSUME NEW r \in Runs, NEW fault \in StoreFaults, CommandStarts(r, fault) PROVE TypeOK'
  <2>1. scan' \in [Runs -> [present : SUBSET Files, touched : SUBSET Files] \cup {None}]
    BY <1>6 DEF CommandStarts, TypeOK
  <2>2. /\ snap' \in [Runs -> [Files -> Contents] \cup {None}]
        /\ known' \in SUBSET Runs /\ indexed' \in SUBSET Runs /\ indexTorn' \in BOOLEAN
    BY <1>6, CheckpointFacts DEF CommandStarts
  <2>3. faults' \in 0 .. MaxFaults
    BY <1>6, FaultFacts DEF CommandStarts
  <2> QED BY <1>6, <2>1, <2>2, <2>3 DEF CommandStarts, TypeOK, rows, process, history
<1>7. ASSUME NEW r \in Runs, NEW f \in Files, NEW content \in TextsOf(r) \cup {Absent},
             CommandChanges(r, f, content) PROVE TypeOK'
  <2>1. file' \in [Files -> Contents]
    BY <1>7, TextFacts DEF CommandChanges, TypeOK, Contents
  <2>2. scan' \in [Runs -> [present : SUBSET Files, touched : SUBSET Files] \cup {None}]
    BY <1>7, TouchedFacts DEF CommandChanges
  <2>3. changes' \in 0 .. MaxChanges /\ unguarded' \in SUBSET Runs
    BY <1>7, BoundsAssumption DEF CommandChanges, Counted, TypeOK
  <2> QED BY <1>7, <2>1, <2>2, <2>3 DEF CommandChanges, TypeOK, rows, store
<1>8. ASSUME NEW r \in Runs, NEW fault \in {"no", "entry_lost", "entry_torn"}, CommandEnds(r, fault) PROVE TypeOK'
  <2>1. scan[r].touched \in SUBSET Files
    BY <1>8 DEF CommandEnds, TypeOK
  <2>2. PICK recorded \in {{f \in scan[r].touched : f \in scan[r].present \/ Present(f)}, {}} :
          /\ RecordEffect(r, recorded, fault)
          /\ taken' = [taken EXCEPT ![r] = taken[r] \cup {file[f] : f \in recorded}]
    BY <1>8 DEF CommandEnds
  <2>3. file' \in [Files -> Contents]
    BY <1>8 DEF CommandEnds, TypeOK
  <2>4. ledger' \in [Runs -> [Files -> Contents \cup {None}]] /\ ledgerTorn' \in BOOLEAN
    BY <2>2, <2>3, RecordFacts
  <2>5. taken' \in [Runs -> SUBSET Contents]
    <3>1. recorded \in SUBSET Files
      BY <2>1, <2>2
    <3>2. file \in [Files -> Contents] /\ taken \in [Runs -> SUBSET Contents]
      BY DEF TypeOK
    <3>3. taken[r] \cup {file[f] : f \in recorded} \in SUBSET Contents
      BY <3>1, <3>2
    <3> QED BY <2>2, <3>2, <3>3
  <2>6. scan' \in [Runs -> [present : SUBSET Files, touched : SUBSET Files] \cup {None}]
    BY <1>8 DEF CommandEnds, TypeOK
  <2>7. faults' \in 0 .. MaxFaults
    BY <1>8, FaultFacts DEF CommandEnds
  <2> QED BY <1>8, <2>3, <2>4, <2>5, <2>6, <2>7 DEF CommandEnds, TypeOK, rows, store, process
<1>9. ASSUME NEW f \in Files, NEW content \in TextsOf(User) \cup {Absent}, UserChanges(f, content) PROVE TypeOK'
  <2>1. file' \in [Files -> Contents]
    BY <1>9, TextFacts DEF UserChanges, TypeOK, Contents
  <2>2. scan' \in [Runs -> [present : SUBSET Files, touched : SUBSET Files] \cup {None}]
    BY <1>9, TouchedFacts DEF UserChanges
  <2>3. changes' \in 0 .. MaxChanges
    BY <1>9, BoundsAssumption DEF UserChanges, Counted, TypeOK
  <2> QED BY <1>9, <2>1, <2>2, <2>3 DEF UserChanges, TypeOK, rows, store, history
<1>10. ASSUME NEW r \in Runs, ObserverRestores(r) PROVE TypeOK'
  <2>1. file' \in [Files -> Contents]
    BY <1>10, RestoreFacts DEF ObserverRestores
  <2>2. /\ scan' \in [Runs -> [present : SUBSET Files, touched : SUBSET Files] \cup {None}]
        /\ marked' \in SUBSET Runs /\ faults' \in 0 .. MaxFaults
    <3>1. CASE PlanRaises(r)
      BY <1>10, <3>1 DEF ObserverRestores, RestoreAndMark, files, TypeOK
    <3>2. CASE ~PlanRaises(r)
      <4>1. scan' = Touched(WouldApply(r)) /\ WouldApply(r) \in SUBSET Files
        BY <1>10, <3>2 DEF ObserverRestores, RestoreAndMark, WouldApply
      <4>2. marked' \in SUBSET Runs /\ faults' \in 0 .. MaxFaults
        <5>1. PICK fault : Fails(fault) /\ (marked' = marked \cup {r} \/ marked' = marked)
          BY <1>10, <3>2 DEF ObserverRestores, RestoreAndMark
        <5> QED BY <5>1, FaultFacts DEF TypeOK
      <4> QED BY <4>1, <4>2, TouchedFacts
    <3> QED BY <3>1, <3>2
  <2> QED BY <1>10, <2>1, <2>2 DEF ObserverRestores, TypeOK, store, process, history
<1>11. ASSUME NEW r \in Runs, ObserverGivesUp(r) PROVE TypeOK'
  BY <1>11 DEF ObserverGivesUp, TypeOK, Statuses, files, rows, store, process, history
<1>12. ASSUME NEW r \in Runs, ObserverRaises(r) PROVE TypeOK'
  <2>1. file' \in [Files -> Contents]
    BY <1>12, RestoreFacts DEF ObserverRaises
  <2>2. /\ scan' \in [Runs -> [present : SUBSET Files, touched : SUBSET Files] \cup {None}]
        /\ marked' \in SUBSET Runs /\ faults' \in 0 .. MaxFaults
    <3>1. scan' \in [Runs -> [present : SUBSET Files, touched : SUBSET Files] \cup {None}]
      BY <1>12, TouchedFacts DEF ObserverRaises, Noticed
    <3> QED BY <1>12, <3>1, FaultFacts DEF ObserverRaises, TypeOK
  <2> QED BY <1>12, <2>1, <2>2 DEF ObserverRaises, TypeOK, store, process, history
<1>13. ASSUME Crash PROVE TypeOK'
  BY <1>13, BoundsAssumption DEF Crash, LoseMemory, NoScan, Idle, TypeOK, history
<1>14. ASSUME NEW r \in Runs, CrashInRestore(r) PROVE TypeOK'
  <2>1. file' \in [Files -> Contents]
    BY <1>14, RestoreFacts DEF CrashInRestore
  <2> QED BY <1>14, <2>1, BoundsAssumption
          DEF CrashInRestore, LoseMemory, NoScan, Idle, TypeOK, history
<1>15. ASSUME Restart PROVE TypeOK'
  <2>1. PICK left \in SUBSET {r \in Runs : status[r] = "running"} :
          /\ Fails(IF left = {} THEN "no" ELSE "sweep")
          /\ status' = [r \in Runs |-> IF r \in {q \in Runs : status[q] = "running"} \ left
                                       THEN "failed" ELSE status[r]]
    BY <1>15 DEF Restart
  <2>2. status' \in [Runs -> Statuses]
    BY <2>1 DEF TypeOK, Statuses
  <2>3. faults' \in 0 .. MaxFaults
    BY <2>1, FaultFacts
  <2> QED BY <1>15, <2>2, <2>3 DEF Restart, TypeOK, files
<1>16. ASSUME NEW r \in Runs, ReconcileRestores(r) PROVE TypeOK'
  <2>1. file' \in [Files -> Contents]
    BY <1>16, RestoreFacts DEF ReconcileRestores
  <2>2. /\ scan' \in [Runs -> [present : SUBSET Files, touched : SUBSET Files] \cup {None}]
        /\ marked' \in SUBSET Runs /\ faults' \in 0 .. MaxFaults
    <3>1. CASE PlanRaises(r)
      BY <1>16, <3>1 DEF ReconcileRestores, RestoreAndMark, files, TypeOK
    <3>2. CASE ~PlanRaises(r)
      <4>1. scan' = Touched(WouldApply(r)) /\ WouldApply(r) \in SUBSET Files
        BY <1>16, <3>2 DEF ReconcileRestores, RestoreAndMark, WouldApply
      <4>2. marked' \in SUBSET Runs /\ faults' \in 0 .. MaxFaults
        <5>1. PICK fault : Fails(fault) /\ (marked' = marked \cup {r} \/ marked' = marked)
          BY <1>16, <3>2 DEF ReconcileRestores, RestoreAndMark
        <5> QED BY <5>1, FaultFacts DEF TypeOK
      <4> QED BY <4>1, <4>2, TouchedFacts
    <3> QED BY <3>1, <3>2
  <2> QED BY <1>16, <2>1, <2>2 DEF ReconcileRestores, TypeOK, Reconciles, rows, store, process, history
<1>17. ASSUME NEW r \in Runs, ReconcileSkips(r) PROVE TypeOK'
  BY <1>17 DEF ReconcileSkips, Reconciles, TypeOK, files, rows, store, process, history
<1>18. ASSUME NEW r \in Runs, ReconcileRaises(r) PROVE TypeOK'
  <2>1. file' \in [Files -> Contents]
    BY <1>18, RestoreFacts DEF ReconcileRaises
  <2>2. /\ scan' \in [Runs -> [present : SUBSET Files, touched : SUBSET Files] \cup {None}]
        /\ marked' \in SUBSET Runs /\ faults' \in 0 .. MaxFaults
    <3>1. scan' \in [Runs -> [present : SUBSET Files, touched : SUBSET Files] \cup {None}]
      BY <1>18, TouchedFacts DEF ReconcileRaises, Noticed
    <3> QED BY <1>18, <3>1, FaultFacts DEF ReconcileRaises, TypeOK
  <2> QED BY <1>18, <2>1, <2>2 DEF ReconcileRaises, TypeOK, Reconciles, rows, store, process, history
<1>19. ASSUME Serve PROVE TypeOK'
  BY <1>19 DEF Serve, TypeOK, Statuses, files, rows, store, process, history
<1>20. ASSUME UNCHANGED vars PROVE TypeOK'
  BY <1>20 DEF vars, TypeOK, files, rows, store, process, history
<1> QED
  BY <1>1, <1>2, <1>3, <1>4, <1>5, <1>6, <1>7, <1>8, <1>9, <1>10,
     <1>11, <1>12, <1>13, <1>14, <1>15, <1>16, <1>17, <1>18, <1>19, <1>20
     DEF Next, RunActs, Reconciliation

-----------------------------------------------------------------------------
(* The checkpoints that are known.                                          *)

LEMMA StartSafe ==
  Init => RefsExist /\ RowsMatchTasks /\ LedgerIsScoped /\ NothingBeforeSnapshot
<1> SUFFICES ASSUME Init PROVE RefsExist /\ RowsMatchTasks /\ LedgerIsScoped /\ NothingBeforeSnapshot
  OBVIOUS
<1>1. RefsExist
  BY DEF Init, RefsExist
<1>2. RowsMatchTasks
  BY DEF Init, RowsMatchTasks, NoScan, Idle
<1>3. LedgerIsScoped
  BY DEF Init, LedgerIsScoped, NoEntry
<1>4. NothingBeforeSnapshot
  BY TextFacts DEF Init, NothingBeforeSnapshot
<1> QED BY <1>1, <1>2, <1>3, <1>4

LEMMA StepRefs ==
  ASSUME TypeOK, RefsExist, [Next]_vars
  PROVE  RefsExist'
<1>1. ASSUME NEW r \in Runs, Start(r) PROVE RefsExist'
  BY <1>1 DEF Start, RefsExist, store, process, history
<1>2. ASSUME NEW r \in Runs, NEW s \in {"completed", "failed", "cancelled"}, End(r, s) PROVE RefsExist'
  BY <1>2 DEF End, RefsExist, store, process, history
<1>3. ASSUME NEW r \in Runs, Revive(r) PROVE RefsExist'
  BY <1>3 DEF Revive, RefsExist, store, process, history
<1>4. ASSUME NEW r \in Runs, MarkFailed(r) PROVE RefsExist'
  BY <1>4 DEF MarkFailed, RefsExist, store, process, history
<1>5. ASSUME NEW r \in Runs, NEW f \in Files, NEW fault \in WriteFaults,
             NEW content \in TextsOf(r) \cup {Absent, Torn}, ToolChanges(r, f, content, fault) PROVE RefsExist'
  <2>1. /\ \/ UNCHANGED <<snap, known, indexed>>
           \/ /\ r \notin known /\ known' = known \cup {r}
              /\ snap' = [snap EXCEPT ![r] = file]
              /\ indexed \subseteq indexed' /\ indexed' \subseteq indexed \cup {r}
        /\ phase' = phase /\ unguarded \subseteq unguarded'
    BY <1>5, CheckpointFacts DEF ToolChanges
  <2> QED BY <2>1, AtomsAssumption DEF RefsExist, TypeOK
<1>6. ASSUME NEW r \in Runs, NEW fault \in StoreFaults, CommandStarts(r, fault) PROVE RefsExist'
  <2>1. /\ \/ UNCHANGED <<snap, known, indexed>>
           \/ /\ r \notin known /\ known' = known \cup {r}
              /\ snap' = [snap EXCEPT ![r] = file]
              /\ indexed \subseteq indexed' /\ indexed' \subseteq indexed \cup {r}
        /\ phase' = phase /\ unguarded \subseteq unguarded'
    BY <1>6, CheckpointFacts DEF CommandStarts, process, history
  <2> QED BY <2>1, AtomsAssumption DEF RefsExist, TypeOK
<1>7. ASSUME NEW r \in Runs, NEW f \in Files, NEW content \in TextsOf(r) \cup {Absent},
             CommandChanges(r, f, content) PROVE RefsExist'
  BY <1>7 DEF CommandChanges, RefsExist, store, TypeOK
<1>8. ASSUME NEW r \in Runs, NEW fault \in {"no", "entry_lost", "entry_torn"}, CommandEnds(r, fault) PROVE RefsExist'
  BY <1>8 DEF CommandEnds, RefsExist, store, process, history
<1>9. ASSUME NEW f \in Files, NEW content \in TextsOf(User) \cup {Absent}, UserChanges(f, content) PROVE RefsExist'
  BY <1>9 DEF UserChanges, RefsExist, store, process, history
<1>10. ASSUME NEW r \in Runs, ObserverRestores(r) PROVE RefsExist'
  BY <1>10 DEF ObserverRestores, RefsExist, store, process, history
<1>11. ASSUME NEW r \in Runs, ObserverGivesUp(r) PROVE RefsExist'
  BY <1>11 DEF ObserverGivesUp, RefsExist, store, process, history
<1>12. ASSUME NEW r \in Runs, ObserverRaises(r) PROVE RefsExist'
  BY <1>12 DEF ObserverRaises, RefsExist, store, process, history
<1>13. ASSUME Crash PROVE RefsExist'
  BY <1>13 DEF Crash, LoseMemory, RefsExist
<1>14. ASSUME NEW r \in Runs, CrashInRestore(r) PROVE RefsExist'
  BY <1>14 DEF CrashInRestore, LoseMemory, RefsExist
<1>15. ASSUME Restart PROVE RefsExist'
  BY <1>15 DEF Restart, RefsExist
<1>16. ASSUME NEW r \in Runs, ReconcileRestores(r) PROVE RefsExist'
  BY <1>16 DEF ReconcileRestores, Reconciles, RefsExist, store, process, history
<1>17. ASSUME NEW r \in Runs, ReconcileSkips(r) PROVE RefsExist'
  BY <1>17 DEF ReconcileSkips, Reconciles, RefsExist, store, process, history
<1>18. ASSUME NEW r \in Runs, ReconcileRaises(r) PROVE RefsExist'
  BY <1>18 DEF ReconcileRaises, Reconciles, RefsExist, store, process, history
<1>19. ASSUME Serve PROVE RefsExist'
  BY <1>19 DEF Serve, RefsExist, store, history
<1>20. ASSUME UNCHANGED vars PROVE RefsExist'
  BY <1>20 DEF RefsExist, vars, store, process, history
<1> QED
  BY <1>1, <1>2, <1>3, <1>4, <1>5, <1>6, <1>7, <1>8, <1>9, <1>10,
     <1>11, <1>12, <1>13, <1>14, <1>15, <1>16, <1>17, <1>18, <1>19, <1>20
     DEF Next, RunActs, Reconciliation

-----------------------------------------------------------------------------
(* The rows and the tasks.                                                  *)

LEMMA StepRows ==
  ASSUME TypeOK, RowsMatchTasks, [Next]_vars
  PROVE  RowsMatchTasks'
<1>1. ASSUME NEW r \in Runs, Start(r) PROVE RowsMatchTasks'
  BY <1>1 DEF Start, RowsMatchTasks, Failed, TypeOK, Idle, files, process
<1>2. ASSUME NEW r \in Runs, NEW s \in {"completed", "failed", "cancelled"}, End(r, s) PROVE RowsMatchTasks'
  BY <1>2 DEF End, RowsMatchTasks, Failed, TypeOK, Idle, process
<1>3. ASSUME NEW r \in Runs, Revive(r) PROVE RowsMatchTasks'
  BY <1>3 DEF Revive, RowsMatchTasks, Failed, TypeOK, Idle, files, process
<1>4. ASSUME NEW r \in Runs, MarkFailed(r) PROVE RowsMatchTasks'
  BY <1>4 DEF MarkFailed, RowsMatchTasks, Failed, TypeOK, Idle, files, process
<1>5. ASSUME NEW r \in Runs, NEW f \in Files, NEW fault \in WriteFaults,
             NEW content \in TextsOf(r) \cup {Absent, Torn}, ToolChanges(r, f, content, fault) PROVE RowsMatchTasks'
  <2>1. \A q \in Runs : scan'[q] # None => scan[q] # None
    BY <1>5, TouchedFacts DEF ToolChanges
  <2> QED BY <1>5, <2>1 DEF ToolChanges, RowsMatchTasks, Failed, TypeOK, Idle, rows
<1>6. ASSUME NEW r \in Runs, NEW fault \in StoreFaults, CommandStarts(r, fault) PROVE RowsMatchTasks'
  BY <1>6 DEF CommandStarts, Writes, RowsMatchTasks, Failed, TypeOK, Idle, rows, process
<1>7. ASSUME NEW r \in Runs, NEW f \in Files, NEW content \in TextsOf(r) \cup {Absent},
             CommandChanges(r, f, content) PROVE RowsMatchTasks'
  <2>1. \A q \in Runs : scan'[q] # None => scan[q] # None
    BY <1>7, TouchedFacts DEF CommandChanges
  <2> QED BY <1>7, <2>1 DEF CommandChanges, RowsMatchTasks, Failed, TypeOK, Idle, rows
<1>8. ASSUME NEW r \in Runs, NEW fault \in {"no", "entry_lost", "entry_torn"}, CommandEnds(r, fault) PROVE RowsMatchTasks'
  BY <1>8 DEF CommandEnds, RowsMatchTasks, Failed, TypeOK, Idle, rows, process
<1>9. ASSUME NEW f \in Files, NEW content \in TextsOf(User) \cup {Absent}, UserChanges(f, content) PROVE RowsMatchTasks'
  <2>1. \A q \in Runs : scan'[q] # None => scan[q] # None
    BY <1>9, TouchedFacts DEF UserChanges
  <2> QED BY <1>9, <2>1 DEF UserChanges, RowsMatchTasks, Failed, TypeOK, Idle, rows
<1>10. ASSUME NEW r \in Runs, ObserverRestores(r) PROVE RowsMatchTasks'
  <2>1. /\ \A q \in Runs : scan'[q] # None => scan[q] # None
        /\ marked' \in {marked, marked \cup {r}}
    <3>1. CASE PlanRaises(r)
      BY <1>10, <3>1 DEF ObserverRestores, RestoreAndMark, files
    <3>2. CASE ~PlanRaises(r)
      <4>1. scan' = Touched(WouldApply(r)) /\ WouldApply(r) \in SUBSET Files
        BY <1>10, <3>2 DEF ObserverRestores, RestoreAndMark, WouldApply
      <4>2. marked' \in {marked, marked \cup {r}}
        BY <1>10, <3>2 DEF ObserverRestores, RestoreAndMark
      <4> QED BY <4>1, <4>2, TouchedFacts
    <3> QED BY <3>1, <3>2
  <2> QED BY <1>10, <2>1 DEF ObserverRestores, RowsMatchTasks, Failed, TypeOK, Idle, process
<1>11. ASSUME NEW r \in Runs, ObserverGivesUp(r) PROVE RowsMatchTasks'
  BY <1>11 DEF ObserverGivesUp, RowsMatchTasks, Failed, TypeOK, Idle, files, process
<1>12. ASSUME NEW r \in Runs, ObserverRaises(r) PROVE RowsMatchTasks'
  <2>1. \A q \in Runs : scan'[q] # None => scan[q] # None
    BY <1>12, TouchedFacts DEF ObserverRaises, Noticed
  <2> QED BY <1>12, <2>1 DEF ObserverRaises, RowsMatchTasks, Failed, TypeOK, Idle, process
<1>13. ASSUME Crash PROVE RowsMatchTasks'
  BY <1>13 DEF Crash, LoseMemory, NoScan, RowsMatchTasks, Failed, Idle
<1>14. ASSUME NEW r \in Runs, CrashInRestore(r) PROVE RowsMatchTasks'
  BY <1>14 DEF CrashInRestore, LoseMemory, NoScan, RowsMatchTasks, Failed, Idle
<1>15. ASSUME Restart PROVE RowsMatchTasks'
  <2>1. PICK left \in SUBSET {r \in Runs : status[r] = "running"} :
          status' = [r \in Runs |-> IF r \in {q \in Runs : status[q] = "running"} \ left
                                    THEN "failed" ELSE status[r]]
    BY <1>15 DEF Restart
  <2> QED BY <1>15, <2>1 DEF Restart, RowsMatchTasks, Failed, Idle, files
<1>16. ASSUME NEW r \in Runs, ReconcileRestores(r) PROVE RowsMatchTasks'
  <2>1. /\ \A q \in Runs : scan'[q] # None => scan[q] # None
        /\ marked' \in {marked, marked \cup {r}}
    <3>1. CASE PlanRaises(r)
      BY <1>16, <3>1 DEF ReconcileRestores, RestoreAndMark, files
    <3>2. CASE ~PlanRaises(r)
      <4>1. scan' = Touched(WouldApply(r)) /\ WouldApply(r) \in SUBSET Files
        BY <1>16, <3>2 DEF ReconcileRestores, RestoreAndMark, WouldApply
      <4>2. marked' \in {marked, marked \cup {r}}
        BY <1>16, <3>2 DEF ReconcileRestores, RestoreAndMark
      <4> QED BY <4>1, <4>2, TouchedFacts
    <3> QED BY <3>1, <3>2
  <2>2. r \in Failed
    BY <1>16 DEF ReconcileRestores, Reconciles, Newest, RowsMatchTasks
  <2> QED BY <1>16, <2>1, <2>2 DEF ReconcileRestores, Reconciles, RowsMatchTasks, Failed, TypeOK, Idle, rows
<1>17. ASSUME NEW r \in Runs, ReconcileSkips(r) PROVE RowsMatchTasks'
  BY <1>17 DEF ReconcileSkips, Reconciles, RowsMatchTasks, Failed, Idle, rows, files
<1>18. ASSUME NEW r \in Runs, ReconcileRaises(r) PROVE RowsMatchTasks'
  <2>1. \A q \in Runs : scan'[q] # None => scan[q] # None
    BY <1>18, TouchedFacts DEF ReconcileRaises, Noticed
  <2> QED BY <1>18, <2>1 DEF ReconcileRaises, RowsMatchTasks, Failed, TypeOK, Idle, Reconciles, rows
<1>19. ASSUME Serve PROVE RowsMatchTasks'
  BY <1>19 DEF Serve, RowsMatchTasks, Failed, Idle, files, rows
<1>20. ASSUME UNCHANGED vars PROVE RowsMatchTasks'
  BY <1>20 DEF vars, RowsMatchTasks, Failed, Idle, files, rows, process
<1> QED
  BY <1>1, <1>2, <1>3, <1>4, <1>5, <1>6, <1>7, <1>8, <1>9, <1>10,
     <1>11, <1>12, <1>13, <1>14, <1>15, <1>16, <1>17, <1>18, <1>19, <1>20
     DEF Next, RunActs, Reconciliation

-----------------------------------------------------------------------------
(* The ledger.                                                              *)

LEMMA StepLedger ==
  ASSUME TypeOK, LedgerIsScoped, [Next]_vars
  PROVE  LedgerIsScoped'
<1>1. ASSUME NEW r \in Runs, Start(r) PROVE LedgerIsScoped'
  BY <1>1 DEF Start, LedgerIsScoped, history
<1>2. ASSUME NEW r \in Runs, NEW s \in {"completed", "failed", "cancelled"}, End(r, s) PROVE LedgerIsScoped'
  BY <1>2 DEF End, LedgerIsScoped, history
<1>3. ASSUME NEW r \in Runs, Revive(r) PROVE LedgerIsScoped'
  BY <1>3 DEF Revive, LedgerIsScoped, history
<1>4. ASSUME NEW r \in Runs, MarkFailed(r) PROVE LedgerIsScoped'
  BY <1>4 DEF MarkFailed, LedgerIsScoped, history
<1>5. ASSUME NEW r \in Runs, NEW f \in Files, NEW fault \in WriteFaults,
             NEW content \in TextsOf(r) \cup {Absent, Torn}, ToolChanges(r, f, content, fault) PROVE LedgerIsScoped'
  <2>1. file' \in [Files -> Contents] /\ taken' = taken
    BY <1>5, TextFacts DEF ToolChanges, TypeOK, Contents
  <2>2. \A q \in Runs, g \in Files :
           \/ ledger'[q][g] = ledger[q][g]
           \/ q = r /\ g \in {f} \ {h \in Files : content = Torn} /\ ledger'[q][g] = file'[g]
    BY <1>5, <2>1, RecordFacts DEF ToolChanges
  <2>3. file'[f] = content
    BY <1>5 DEF ToolChanges, TypeOK
  <2>4. \A q \in Runs, g \in Files :
           \/ ledger'[q][g] = ledger[q][g]
           \/ q = r /\ ledger'[q][g] \in TextsOf(r) \cup {Absent}
    BY <2>2, <2>3
  <2> QED BY <2>1, <2>4 DEF LedgerIsScoped
<1>6. ASSUME NEW r \in Runs, NEW fault \in StoreFaults, CommandStarts(r, fault) PROVE LedgerIsScoped'
  BY <1>6 DEF CommandStarts, LedgerIsScoped, history
<1>7. ASSUME NEW r \in Runs, NEW f \in Files, NEW content \in TextsOf(r) \cup {Absent},
             CommandChanges(r, f, content) PROVE LedgerIsScoped'
  BY <1>7 DEF CommandChanges, LedgerIsScoped, history
<1>8. ASSUME NEW r \in Runs, NEW fault \in {"no", "entry_lost", "entry_torn"}, CommandEnds(r, fault) PROVE LedgerIsScoped'
  <2>1. PICK recorded :
          /\ RecordEffect(r, recorded, fault)
          /\ taken' = [taken EXCEPT ![r] = taken[r] \cup {file[f] : f \in recorded}]
    BY <1>8 DEF CommandEnds
  <2>2. file' = file /\ file' \in [Files -> Contents]
    BY <1>8 DEF CommandEnds, TypeOK
  <2>3. \A q \in Runs, g \in Files :
           \/ ledger'[q][g] = ledger[q][g]
           \/ q = r /\ g \in recorded /\ ledger'[q][g] = file[g]
    <3>1. \A q \in Runs, g \in Files :
             \/ ledger'[q][g] = ledger[q][g]
             \/ q = r /\ g \in recorded /\ ledger'[q][g] = file'[g]
      BY <2>1, <2>2, RecordFacts
    <3> QED BY <2>2, <3>1
  <2>4. /\ \A q \in Runs : taken[q] \subseteq taken'[q]
        /\ \A g \in recorded : file[g] \in taken'[r]
    BY <2>1 DEF TypeOK
  <2>5. ASSUME NEW q \in Runs, NEW g \in Files
        PROVE  ledger'[q][g] \in TextsOf(q) \cup taken'[q] \cup {None, Absent}
    <3>1. CASE ledger'[q][g] = ledger[q][g]
      BY <2>4, <3>1 DEF LedgerIsScoped
    <3>2. CASE q = r /\ g \in recorded /\ ledger'[q][g] = file[g]
      BY <2>4, <3>2
    <3> QED BY <2>3, <3>1, <3>2
  <2> QED BY <2>5 DEF LedgerIsScoped
<1>9. ASSUME NEW f \in Files, NEW content \in TextsOf(User) \cup {Absent}, UserChanges(f, content) PROVE LedgerIsScoped'
  BY <1>9 DEF UserChanges, LedgerIsScoped, history
<1>10. ASSUME NEW r \in Runs, ObserverRestores(r) PROVE LedgerIsScoped'
  BY <1>10 DEF ObserverRestores, LedgerIsScoped, history
<1>11. ASSUME NEW r \in Runs, ObserverGivesUp(r) PROVE LedgerIsScoped'
  BY <1>11 DEF ObserverGivesUp, LedgerIsScoped, history
<1>12. ASSUME NEW r \in Runs, ObserverRaises(r) PROVE LedgerIsScoped'
  BY <1>12 DEF ObserverRaises, LedgerIsScoped, history
<1>13. ASSUME Crash PROVE LedgerIsScoped'
  BY <1>13 DEF Crash, LoseMemory, LedgerIsScoped, history
<1>14. ASSUME NEW r \in Runs, CrashInRestore(r) PROVE LedgerIsScoped'
  BY <1>14 DEF CrashInRestore, LoseMemory, LedgerIsScoped, history
<1>15. ASSUME Restart PROVE LedgerIsScoped'
  BY <1>15 DEF Restart, LedgerIsScoped, history
<1>16. ASSUME NEW r \in Runs, ReconcileRestores(r) PROVE LedgerIsScoped'
  BY <1>16 DEF ReconcileRestores, Reconciles, LedgerIsScoped, history
<1>17. ASSUME NEW r \in Runs, ReconcileSkips(r) PROVE LedgerIsScoped'
  BY <1>17 DEF ReconcileSkips, Reconciles, LedgerIsScoped, history
<1>18. ASSUME NEW r \in Runs, ReconcileRaises(r) PROVE LedgerIsScoped'
  BY <1>18 DEF ReconcileRaises, Reconciles, LedgerIsScoped, history
<1>19. ASSUME Serve PROVE LedgerIsScoped'
  BY <1>19 DEF Serve, LedgerIsScoped, history
<1>20. ASSUME UNCHANGED vars PROVE LedgerIsScoped'
  BY <1>20 DEF vars, LedgerIsScoped, history
<1> QED
  BY <1>1, <1>2, <1>3, <1>4, <1>5, <1>6, <1>7, <1>8, <1>9, <1>10,
     <1>11, <1>12, <1>13, <1>14, <1>15, <1>16, <1>17, <1>18, <1>19, <1>20
     DEF Next, RunActs, Reconciliation

-----------------------------------------------------------------------------
(* Before the snapshot.                                                     *)

\* What has been written by somebody else, or restored from a snapshot, leaves the
\* files and the snapshots as they were for the runs without a snapshot.
LEMMA FilesMove ==
  ASSUME NothingBeforeSnapshot, snap' = snap, unguarded \subseteq unguarded',
         \A r \in Runs \ unguarded', f \in Files :
             snap[r] = None /\ file'[f] # file[f] => file'[f] \notin TextsOf(r)
  PROVE  NothingBeforeSnapshot'
BY DEF NothingBeforeSnapshot

\* The snapshot of a run that has none shows nothing of it, and of none of the
\* others that have none.
LEMMA SnapshotTaken ==
  ASSUME TypeOK, RefsExist, RowsMatchTasks, NothingBeforeSnapshot,
         NEW r \in Runs, pc[r] = "executing", NEW fault, EnsureCheckpoint(r, fault)
  PROVE  /\ \A q \in Runs \ unguarded, f \in Files :
              /\ snap'[q] # None => snap'[q][f] \notin TextsOf(q)
              /\ snap'[q] = None =>
                   /\ snap[q] = None
                   /\ \A p \in Runs : snap'[p] # None => snap'[p][f] \notin TextsOf(q)
         /\ r \in known' => snap'[r] # None
<1>1. phase = "up"
  BY DEF RowsMatchTasks, Idle
<1>2. CASE UNCHANGED <<snap, known, indexed>>
  BY <1>2 DEF NothingBeforeSnapshot, RefsExist
<1>3. CASE r \notin known /\ known' = known \cup {r} /\ snap' = [snap EXCEPT ![r] = file]
  <2>1. snap \in [Runs -> [Files -> Contents] \cup {None}] /\ file # None
    BY AtomsAssumption DEF TypeOK
  <2>2. r \notin unguarded => snap[r] = None
    BY <1>1, <1>3 DEF RefsExist
  <2>3. \A q \in Runs : snap'[q] = IF q = r THEN file ELSE snap[q]
    BY <1>3, <2>1
  <2> QED BY <2>1, <2>2, <2>3 DEF NothingBeforeSnapshot
<1> QED BY <1>2, <1>3, CheckpointFacts

\* A restore brings back what a snapshot shows.
LEMMA RestoreMoves ==
  ASSUME TypeOK, RefsExist, NothingBeforeSnapshot, NEW r \in Runs, r \in known,
         RestoreAndMark(r) \/ PartlyRestored(r), snap' = snap, unguarded' = unguarded
  PROVE  NothingBeforeSnapshot'
<1>1. snap[r] # None
  BY DEF RefsExist
<1>2. \A q \in Runs \ unguarded', f \in Files :
         snap[q] = None /\ file'[f] # file[f] => file'[f] \notin TextsOf(q)
  <2> SUFFICES ASSUME NEW q \in Runs \ unguarded', NEW f \in Files,
                      snap[q] = None, file'[f] # file[f]
               PROVE  file'[f] \notin TextsOf(q)
    OBVIOUS
  <2>1. file'[f] \in {snap[r][f], Torn}
    BY RestoreFacts
  <2>2. snap[r][f] \notin TextsOf(q)
    BY <1>1 DEF NothingBeforeSnapshot
  <2>3. Torn \notin TextsOf(q)
    BY AtomsAssumption DEF TextsOf
  <2> QED BY <2>1, <2>2, <2>3
<1> QED BY <1>2, FilesMove

LEMMA StepSnapshots ==
  ASSUME TypeOK, RefsExist, RowsMatchTasks, NothingBeforeSnapshot, [Next]_vars
  PROVE  NothingBeforeSnapshot'
<1>1. ASSUME NEW r \in Runs, Start(r) PROVE NothingBeforeSnapshot'
  BY <1>1 DEF Start, NothingBeforeSnapshot, files, store, history
<1>2. ASSUME NEW r \in Runs, NEW s \in {"completed", "failed", "cancelled"}, End(r, s) PROVE NothingBeforeSnapshot'
  BY <1>2 DEF End, NothingBeforeSnapshot, files, store, history
<1>3. ASSUME NEW r \in Runs, Revive(r) PROVE NothingBeforeSnapshot'
  BY <1>3 DEF Revive, NothingBeforeSnapshot, files, store, history
<1>4. ASSUME NEW r \in Runs, MarkFailed(r) PROVE NothingBeforeSnapshot'
  BY <1>4 DEF MarkFailed, NothingBeforeSnapshot, files, store, history
<1>5. ASSUME NEW r \in Runs, NEW f \in Files, NEW fault \in WriteFaults,
             NEW content \in TextsOf(r) \cup {Absent, Torn}, ToolChanges(r, f, content, fault) PROVE NothingBeforeSnapshot'
  <2>1. /\ pc[r] = "executing" /\ EnsureCheckpoint(r, fault)
        /\ file' = [file EXCEPT ![f] = content]
        /\ unguarded' = IF r \in known' THEN unguarded ELSE unguarded \cup {r}
    BY <1>5 DEF ToolChanges, Writes
  <2>2. /\ \A q \in Runs \ unguarded, g \in Files :
             /\ snap'[q] # None => snap'[q][g] \notin TextsOf(q)
             /\ snap'[q] = None =>
                  /\ snap[q] = None
                  /\ \A p \in Runs : snap'[p] # None => snap'[p][g] \notin TextsOf(q)
        /\ r \in known' => snap'[r] # None
    BY <2>1, SnapshotTaken
  <2>3. \A q \in Runs \ {r} : content \notin TextsOf(q)
    BY <1>5, TextFacts, AtomsAssumption
  <2>4. \A q \in Runs \ unguarded', g \in Files : snap'[q] = None => file'[g] \notin TextsOf(q)
    <3> SUFFICES ASSUME NEW q \in Runs \ unguarded', NEW g \in Files, snap'[q] = None
                 PROVE  file'[g] \notin TextsOf(q)
      OBVIOUS
    <3>1. q \notin unguarded /\ q # r
      BY <2>1, <2>2
    <3>2. file[g] \notin TextsOf(q)
      BY <2>2, <3>1 DEF NothingBeforeSnapshot
    <3> QED BY <2>1, <2>3, <3>1, <3>2 DEF TypeOK
  <2>5. unguarded \subseteq unguarded'
    BY <2>1
  <2> QED BY <2>2, <2>4, <2>5 DEF NothingBeforeSnapshot
<1>6. ASSUME NEW r \in Runs, NEW fault \in StoreFaults, CommandStarts(r, fault) PROVE NothingBeforeSnapshot'
  <2>1. /\ pc[r] = "executing" /\ EnsureCheckpoint(r, fault)
        /\ file' = file /\ unguarded' = unguarded
    BY <1>6 DEF CommandStarts, Writes, history
  <2>2. \A q \in Runs \ unguarded, g \in Files :
           /\ snap'[q] # None => snap'[q][g] \notin TextsOf(q)
           /\ snap'[q] = None =>
                /\ snap[q] = None
                /\ \A p \in Runs : snap'[p] # None => snap'[p][g] \notin TextsOf(q)
    BY <2>1, SnapshotTaken
  <2> QED BY <2>1, <2>2 DEF NothingBeforeSnapshot
<1>7. ASSUME NEW r \in Runs, NEW f \in Files, NEW content \in TextsOf(r) \cup {Absent},
             CommandChanges(r, f, content) PROVE NothingBeforeSnapshot'
  <2>1. /\ file' = [file EXCEPT ![f] = content]
        /\ unguarded' = IF r \in known THEN unguarded ELSE unguarded \cup {r}
        /\ snap' = snap
    BY <1>7 DEF CommandChanges, store
  <2>2. \A q \in Runs \ {r} : content \notin TextsOf(q)
    BY <1>7, TextFacts, AtomsAssumption
  <2>3. r \in known => snap[r] # None
    BY DEF RefsExist
  <2>4. \A q \in Runs \ unguarded', g \in Files :
           snap[q] = None /\ file'[g] # file[g] => file'[g] \notin TextsOf(q)
    BY <2>1, <2>2, <2>3 DEF TypeOK
  <2> QED BY <2>1, <2>4, FilesMove
<1>8. ASSUME NEW r \in Runs, NEW fault \in {"no", "entry_lost", "entry_torn"}, CommandEnds(r, fault) PROVE NothingBeforeSnapshot'
  BY <1>8 DEF CommandEnds, NothingBeforeSnapshot, files, store, history
<1>9. ASSUME NEW f \in Files, NEW content \in TextsOf(User) \cup {Absent}, UserChanges(f, content) PROVE NothingBeforeSnapshot'
  <2>1. /\ file' = [file EXCEPT ![f] = content]
        /\ unguarded' = unguarded /\ snap' = snap
    BY <1>9 DEF UserChanges, store, history
  <2>2. \A q \in Runs : content \notin TextsOf(q)
    BY <1>9, TextFacts, AtomsAssumption
  <2>3. \A q \in Runs \ unguarded', g \in Files :
           snap[q] = None /\ file'[g] # file[g] => file'[g] \notin TextsOf(q)
    BY <2>1, <2>2 DEF TypeOK
  <2> QED BY <2>1, <2>3, FilesMove
<1>10. ASSUME NEW r \in Runs, ObserverRestores(r) PROVE NothingBeforeSnapshot'
  BY <1>10, RestoreMoves DEF ObserverRestores, store, history
<1>11. ASSUME NEW r \in Runs, ObserverGivesUp(r) PROVE NothingBeforeSnapshot'
  BY <1>11 DEF ObserverGivesUp, NothingBeforeSnapshot, files, store, history
<1>12. ASSUME NEW r \in Runs, ObserverRaises(r) PROVE NothingBeforeSnapshot'
  BY <1>12, RestoreMoves DEF ObserverRaises, store, history
<1>13. ASSUME Crash PROVE NothingBeforeSnapshot'
  BY <1>13 DEF Crash, LoseMemory, NothingBeforeSnapshot, files, store, history
<1>14. ASSUME NEW r \in Runs, CrashInRestore(r) PROVE NothingBeforeSnapshot'
  BY <1>14, RestoreMoves DEF CrashInRestore, LoseMemory, store, history
<1>15. ASSUME Restart PROVE NothingBeforeSnapshot'
  BY <1>15 DEF Restart, NothingBeforeSnapshot, files, store, history
<1>16. ASSUME NEW r \in Runs, ReconcileRestores(r) PROVE NothingBeforeSnapshot'
  BY <1>16, RestoreMoves DEF ReconcileRestores, Reconciles, store, history
<1>17. ASSUME NEW r \in Runs, ReconcileSkips(r) PROVE NothingBeforeSnapshot'
  BY <1>17 DEF ReconcileSkips, Reconciles, NothingBeforeSnapshot, files, store, history
<1>18. ASSUME NEW r \in Runs, ReconcileRaises(r) PROVE NothingBeforeSnapshot'
  BY <1>18, RestoreMoves DEF ReconcileRaises, Reconciles, store, history
<1>19. ASSUME Serve PROVE NothingBeforeSnapshot'
  BY <1>19 DEF Serve, NothingBeforeSnapshot, files, store, history
<1>20. ASSUME UNCHANGED vars PROVE NothingBeforeSnapshot'
  BY <1>20 DEF vars, NothingBeforeSnapshot, files, store, history
<1> QED
  BY <1>1, <1>2, <1>3, <1>4, <1>5, <1>6, <1>7, <1>8, <1>9, <1>10,
     <1>11, <1>12, <1>13, <1>14, <1>15, <1>16, <1>17, <1>18, <1>19, <1>20
     DEF Next, RunActs, Reconciliation

-----------------------------------------------------------------------------
(* The order of the runs' lives.                                            *)

\* What neither creates, ends nor revives a run, nor takes a checkpoint.
LEMMA OrderFrame ==
  ASSUME LivesAreOrdered, UNCHANGED <<status, snap, ended, overlapped>>,
         unguarded \subseteq unguarded', \A r \in Runs : pc'[r] # "none" => pc[r] # "none"
  PROVE  LivesAreOrdered'
BY DEF LivesAreOrdered, Lives, FinishedBefore

\* Who ends now has lived until now: a later run that has ended before has
\* overlapped with it.
LEMMA OrderEnds ==
  ASSUME TypeOK, LivesAreOrdered, NEW r \in Runs, NEW s \in Statuses \ {"new", "running"},
         Lives(r), status[r] = "running", status' = [status EXCEPT ![r] = s], EndsNow(r),
         \A q \in Runs : pc'[q] # "none" => pc[q] # "none",
         UNCHANGED <<snap, unguarded, overlapped>>
  PROVE  LivesAreOrdered'
<1>1. \A q \in Runs : /\ status'[q] = IF q = r THEN s ELSE status[q]
                      /\ status'[q] = "new" <=> status[q] = "new"
                      /\ Lives(q)' => Lives(q)
  BY DEF TypeOK, Lives, Statuses
<1>2. \A q, p \in Runs : status'[q] = "new" => snap'[q] = None /\ (p > q => status'[p] = "new")
  BY <1>1 DEF LivesAreOrdered
<1>3. ASSUME NEW q \in Runs, NEW p \in Runs,
             Lives(q)', q # p, status'[p] # "new", Lives(p)' \/ p > q
      PROVE  {q, p} \subseteq overlapped'
  BY <1>1, <1>3 DEF LivesAreOrdered
<1>4. ASSUME NEW q \in Runs, NEW p \in Runs, FinishedBefore(q, p)', q > p
      PROVE  p \in overlapped'
  <2>1. FinishedBefore(q, p) \/ (q \in Terminal /\ p = r)
    BY <1>4 DEF FinishedBefore, EndsNow
  <2>2. CASE FinishedBefore(q, p)
    BY <1>4, <2>2 DEF LivesAreOrdered
  <2>3. CASE q \in Terminal /\ p = r
    <3>1. status[q] # "new" /\ q # r /\ q > r
      BY <1>4, <2>3 DEF Terminal, Runs
    <3> QED BY <2>3, <3>1 DEF LivesAreOrdered
  <2> QED BY <2>1, <2>2, <2>3
<1>5. \A q, p \in Runs, f \in Files :
         q < p /\ p \notin unguarded' \cup overlapped' /\ snap'[q] # None
           => snap'[q][f] \notin TextsOf(p)
  BY DEF LivesAreOrdered
<1> QED BY <1>2, <1>3, <1>4, <1>5 DEF LivesAreOrdered, Lives

\* A run takes its checkpoint while it lives: what a later run wrote is in it only
\* if the two have overlapped.
LEMMA OrderSnapshot ==
  ASSUME TypeOK, RowsMatchTasks, NothingBeforeSnapshot, LivesAreOrdered,
         NEW r \in Runs, pc[r] = "executing", NEW fault, EnsureCheckpoint(r, fault),
         unguarded \subseteq unguarded', UNCHANGED <<status, pc, ended, overlapped>>
  PROVE  LivesAreOrdered'
<1>1. CASE UNCHANGED <<snap, known, indexed>>
  BY <1>1, OrderFrame
<1>2. CASE snap' = [snap EXCEPT ![r] = file]
  <2>1. \A q \in Runs : snap'[q] = IF q = r THEN file ELSE snap[q]
    BY <1>2 DEF TypeOK
  <2>2. status[r] = "running" /\ Lives(r)
    BY DEF RowsMatchTasks, Lives
  <2>3. \A p, q \in Runs : status'[p] = "new" => snap'[p] = None /\ (q > p => status'[q] = "new")
    BY <2>1, <2>2 DEF LivesAreOrdered
  <2>4. ASSUME NEW p \in Runs, NEW f \in Files, r < p, p \notin unguarded \cup overlapped
        PROVE  file[f] \notin TextsOf(p)
    <3>1. p # r /\ p > r
      BY <2>4 DEF Runs
    <3>2. status[p] = "new"
      BY <2>2, <2>4, <3>1 DEF LivesAreOrdered
    <3>3. snap[p] = None
      BY <3>2 DEF LivesAreOrdered
    <3> QED BY <2>4, <3>3 DEF NothingBeforeSnapshot
  <2>5. \A q, p \in Runs, f \in Files :
           q < p /\ p \notin unguarded' \cup overlapped' /\ snap'[q] # None
             => snap'[q][f] \notin TextsOf(p)
    BY <2>1, <2>4 DEF LivesAreOrdered
  <2> QED BY <2>3, <2>5 DEF LivesAreOrdered, Lives, FinishedBefore
<1> QED BY <1>1, <1>2, CheckpointFacts

\* A run that is created is the latest, and overlaps with those that live.
LEMMA OrderStart ==
  ASSUME TypeOK, RowsMatchTasks, LivesAreOrdered, NEW r \in Runs, Start(r)
  PROVE  LivesAreOrdered'
<1>1. /\ status[r] = "new" /\ \A q \in Runs : status'[q] = IF q = r THEN "running" ELSE status[q]
      /\ \A q \in Runs : pc'[q] = IF q = r THEN "executing" ELSE pc[q]
      /\ UNCHANGED <<snap, ended, unguarded>>
      /\ overlapped' = IF {q \in Runs : Lives(q)} = {} THEN overlapped
                       ELSE overlapped \cup {q \in Runs : Lives(q)} \cup {r}
  BY DEF Start, TypeOK, store
<1>2. \A q \in Runs : q > r => status[q] = "new"
  BY <1>1 DEF LivesAreOrdered
<1>3. ASSUME NEW p \in Runs, NEW q \in Runs, status'[p] = "new", q > p PROVE status'[q] = "new"
  <2>1. p # r /\ status[p] = "new" /\ status[q] = "new"
    BY <1>1, <1>3 DEF LivesAreOrdered
  <2>2. q # r
    <3> SUFFICES ASSUME q = r PROVE FALSE
      OBVIOUS
    <3>1. r > 1 /\ r - 1 \in Runs /\ (r - 1 = p \/ r - 1 > p)
      BY <1>3, NumRunsAssumption DEF Runs
    <3>2. status[r - 1] = "new"
      BY <2>1, <3>1 DEF LivesAreOrdered
    <3> QED BY <3>1, <3>2 DEF Start
  <2> QED BY <1>1, <2>1, <2>2
<1>4. \A q \in Runs : /\ Lives(q)' => Lives(q) \/ q = r
                      /\ Lives(q) /\ q # r => {q, r} \subseteq overlapped'
  BY <1>1 DEF Lives
<1>5. ASSUME NEW q \in Runs, NEW p \in Runs,
             Lives(q)', q # p, status'[p] # "new", Lives(p)' \/ p > q
      PROVE  {q, p} \subseteq overlapped'
  <2>1. CASE q # r /\ p # r
    BY <1>1, <1>4, <1>5, <2>1 DEF LivesAreOrdered
  <2>2. CASE p = r
    BY <1>4, <1>5, <2>2
  <2>3. CASE q = r
    <3>1. status[p] # "new" /\ ~(p > r)
      BY <1>1, <1>2, <1>5, <2>3
    <3> QED BY <1>4, <1>5, <2>3, <3>1
  <2> QED BY <2>1, <2>2, <2>3
<1>6. overlapped \subseteq overlapped'
  BY <1>1
<1>7. \A p \in Runs : status'[p] = "new" => snap'[p] = None
  BY <1>1 DEF LivesAreOrdered
<1>8. \A q, p \in Runs : FinishedBefore(q, p)' /\ q > p => p \in overlapped'
  BY <1>1, <1>6 DEF LivesAreOrdered, FinishedBefore
<1>9. \A q, p \in Runs, f \in Files :
         q < p /\ p \notin unguarded' \cup overlapped' /\ snap'[q] # None
           => snap'[q][f] \notin TextsOf(p)
  BY <1>1, <1>6 DEF LivesAreOrdered
<1> QED BY <1>3, <1>5, <1>7, <1>8, <1>9 DEF LivesAreOrdered, Lives

\* A run that is revived overlaps with those that live, and with those after it.
LEMMA OrderRevive ==
  ASSUME TypeOK, RowsMatchTasks, LivesAreOrdered, NEW r \in Runs, Revive(r)
  PROVE  LivesAreOrdered'
<1> DEFINE Others == {q \in Runs \ {r} : \/ Lives(q)
                                         \/ q > r /\ status[q] # "new"
                                         \/ q \in marked /\ Keeps(r, q)}
<1>1. /\ status[r] = "completed"
      /\ \A q \in Runs : status'[q] = IF q = r THEN "running" ELSE status[q]
      /\ \A q \in Runs : pc'[q] = IF q = r THEN "executing" ELSE pc[q]
      /\ ended' \subseteq ended /\ UNCHANGED <<snap, unguarded>>
      /\ overlapped' = IF Others = {} THEN overlapped ELSE overlapped \cup Others \cup {r}
  BY DEF Revive, TypeOK, store
<1>2. overlapped \subseteq overlapped' /\ \A q \in Others : {q, r} \subseteq overlapped'
  BY <1>1
<1>3. \A q \in Runs \ {r} : Lives(q) \/ (q > r /\ status[q] # "new") => {q, r} \subseteq overlapped'
  BY <1>2
<1> HIDE DEF Others
<1>4. \A q \in Runs : /\ Lives(q)' => Lives(q) \/ q = r
                      /\ status'[q] = "new" <=> status[q] = "new"
  BY <1>1 DEF Lives
<1>5. ASSUME NEW q \in Runs, NEW p \in Runs,
             Lives(q)', q # p, status'[p] # "new", Lives(p)' \/ p > q
      PROVE  {q, p} \subseteq overlapped'
  <2>1. CASE q # r /\ p # r
    BY <1>2, <1>4, <1>5, <2>1 DEF LivesAreOrdered
  <2>2. CASE p = r
    BY <1>3, <1>4, <1>5, <2>2
  <2>3. CASE q = r
    BY <1>3, <1>4, <1>5, <2>3
  <2> QED BY <2>1, <2>2, <2>3
<1>6. \A p, q \in Runs : status'[p] = "new" => snap'[p] = None /\ (q > p => status'[q] = "new")
  BY <1>1, <1>4 DEF LivesAreOrdered
<1>7. \A q, p \in Runs : FinishedBefore(q, p)' /\ q > p => p \in overlapped'
  BY <1>1, <1>2 DEF LivesAreOrdered, FinishedBefore
<1>8. \A q, p \in Runs, f \in Files :
         q < p /\ p \notin unguarded' \cup overlapped' /\ snap'[q] # None
           => snap'[q][f] \notin TextsOf(p)
  BY <1>1, <1>2 DEF LivesAreOrdered
<1> QED BY <1>5, <1>6, <1>7, <1>8 DEF LivesAreOrdered, Lives

\* The rows that are swept had executed until the crash, as far as anybody knows.
LEMMA OrderRestart ==
  ASSUME TypeOK, LivesAreOrdered, Restart
  PROVE  LivesAreOrdered'
<1>1. PICK left \in SUBSET {r \in Runs : status[r] = "running"} :
        LET swept == {r \in Runs : status[r] = "running"} \ left
        IN  /\ status' = [r \in Runs |-> IF r \in swept THEN "failed" ELSE status[r]]
            /\ ended' = ended \cup {p \in Runs \X swept :
                                      p[1] \in Terminal \/ (p[1] \in swept /\ p[1] < p[2])}
  BY DEF Restart
<1> DEFINE Swept == {r \in Runs : status[r] = "running"} \ left
<1>2. UNCHANGED <<snap, pc, overlapped>> /\ unguarded \subseteq unguarded'
  BY DEF Restart
<1>3. \A q \in Runs : /\ status'[q] = "new" <=> status[q] = "new"
                      /\ Lives(q)' => Lives(q)
  BY <1>1, <1>2 DEF Lives
<1>4. ASSUME NEW q \in Runs, NEW p \in Runs, FinishedBefore(q, p)', q > p
      PROVE  p \in overlapped'
  <2>1. FinishedBefore(q, p) \/ (p \in Swept /\ (q \in Terminal \/ (q \in Swept /\ q < p)))
    BY <1>1, <1>4 DEF FinishedBefore
  <2>2. CASE FinishedBefore(q, p)
    BY <1>2, <1>4, <2>2 DEF LivesAreOrdered
  <2>3. CASE p \in Swept /\ q \in Terminal
    <3>1. Lives(p) /\ q # p /\ status[q] # "new"
      BY <1>4, <2>3 DEF Lives, Terminal, Runs
    <3> QED BY <1>2, <1>4, <3>1 DEF LivesAreOrdered
  <2>4. ~(q < p)
    BY <1>4 DEF Runs
  <2> QED BY <2>1, <2>2, <2>3, <2>4
<1>5. ASSUME NEW q \in Runs, NEW p \in Runs,
             Lives(q)', q # p, status'[p] # "new", Lives(p)' \/ p > q
      PROVE  {q, p} \subseteq overlapped'
  BY <1>2, <1>3, <1>5 DEF LivesAreOrdered
<1>6. \A p, q \in Runs : status'[p] = "new" => snap'[p] = None /\ (q > p => status'[q] = "new")
  BY <1>2, <1>3 DEF LivesAreOrdered
<1>7. \A q, p \in Runs, f \in Files :
         q < p /\ p \notin unguarded' \cup overlapped' /\ snap'[q] # None
           => snap'[q][f] \notin TextsOf(p)
  BY <1>2 DEF LivesAreOrdered
<1> QED BY <1>4, <1>5, <1>6, <1>7 DEF LivesAreOrdered, Lives

LEMMA StepOrder ==
  ASSUME TypeOK, RowsMatchTasks, NothingBeforeSnapshot, LivesAreOrdered, [Next]_vars
  PROVE  LivesAreOrdered'
<1>1. ASSUME NEW r \in Runs, Start(r) \/ Revive(r) PROVE LivesAreOrdered'
  BY <1>1, OrderStart, OrderRevive
<1>2. ASSUME NEW r \in Runs, NEW s \in {"completed", "failed", "cancelled"}, End(r, s) PROVE LivesAreOrdered'
  <2>1. /\ Lives(r) /\ status[r] = "running" /\ status' = [status EXCEPT ![r] = s] /\ EndsNow(r)
        /\ \A q \in Runs : pc'[q] # "none" => pc[q] # "none"
        /\ UNCHANGED <<snap, unguarded, overlapped>>
    BY <1>2 DEF End, RowsMatchTasks, Lives, TypeOK, store, history
  <2>2. s \in Statuses \ {"new", "running"}
    BY DEF Statuses
  <2> QED BY <2>1, <2>2, OrderEnds
<1>3. ASSUME NEW r \in Runs, MarkFailed(r) PROVE LivesAreOrdered'
  <2>1. /\ Lives(r) /\ status[r] = "running" /\ EndsNow(r)
        /\ status' = [status EXCEPT ![r] = "failed"] /\ pc' = pc
        /\ UNCHANGED <<snap, unguarded, overlapped>>
    BY <1>3 DEF MarkFailed, Lives, store, history
  <2>2. "failed" \in Statuses \ {"new", "running"}
    BY DEF Statuses
  <2> QED BY <2>1, <2>2, OrderEnds
<1>4. ASSUME NEW r \in Runs, NEW f \in Files, NEW fault \in WriteFaults,
             NEW content \in TextsOf(r) \cup {Absent, Torn}, ToolChanges(r, f, content, fault) PROVE LivesAreOrdered'
  <2>1. /\ pc[r] = "executing" /\ EnsureCheckpoint(r, fault)
        /\ UNCHANGED <<status, pc, ended, overlapped>>
    BY <1>4 DEF ToolChanges, Writes, rows
  <2>2. unguarded \subseteq unguarded'
    BY <1>4 DEF ToolChanges
  <2> QED BY <2>1, <2>2, OrderSnapshot
<1>5. ASSUME NEW r \in Runs, NEW fault \in StoreFaults, CommandStarts(r, fault) PROVE LivesAreOrdered'
  <2>1. /\ pc[r] = "executing" /\ EnsureCheckpoint(r, fault) /\ unguarded \subseteq unguarded'
        /\ UNCHANGED <<status, pc, ended, overlapped>>
    BY <1>5 DEF CommandStarts, Writes, rows, history
  <2> QED BY <2>1, OrderSnapshot
<1>6. ASSUME NEW r \in Runs, NEW f \in Files, NEW content \in TextsOf(r) \cup {Absent},
             CommandChanges(r, f, content) PROVE LivesAreOrdered'
  BY <1>6, OrderFrame DEF CommandChanges, rows, store
<1>7. ASSUME NEW r \in Runs, NEW fault \in {"no", "entry_lost", "entry_torn"}, CommandEnds(r, fault) PROVE LivesAreOrdered'
  <2>1. UNCHANGED <<status, pc, snap, ended, overlapped, unguarded>>
    BY <1>7 DEF CommandEnds, rows, store
  <2> QED BY <2>1, OrderFrame
<1>8. ASSUME NEW f \in Files, NEW content \in TextsOf(User) \cup {Absent}, UserChanges(f, content) PROVE LivesAreOrdered'
  BY <1>8, OrderFrame DEF UserChanges, rows, store, history
<1>9. ASSUME NEW r \in Runs, ObserverRestores(r) \/ ObserverGivesUp(r) \/ ObserverRaises(r) PROVE LivesAreOrdered'
  <2>1. /\ UNCHANGED <<status, snap, ended, overlapped, unguarded>>
        /\ pc' = [pc EXCEPT ![r] = "none"]
    BY <1>9 DEF ObserverRestores, ObserverGivesUp, ObserverRaises, store, history
  <2> QED BY <2>1, OrderFrame DEF TypeOK
<1>10. ASSUME NEW r \in Runs, CrashInRestore(r) PROVE LivesAreOrdered'
  BY <1>10, OrderFrame DEF CrashInRestore, LoseMemory, Idle, history
<1>11. ASSUME NEW r \in Runs, Reconciliation(r) PROVE LivesAreOrdered'
  BY <1>11, OrderFrame
     DEF Reconciliation, ReconcileRestores, ReconcileSkips, ReconcileRaises, Reconciles, rows, store, history
<1>12. ASSUME Serve PROVE LivesAreOrdered'
  BY <1>12, OrderFrame DEF Serve, rows, store, history
<1>13. ASSUME UNCHANGED vars PROVE LivesAreOrdered'
  BY <1>13, OrderFrame DEF vars, rows, store, history
<1>14. ASSUME Crash PROVE LivesAreOrdered'
  BY <1>14, OrderFrame DEF Crash, LoseMemory, Idle, history
<1>15. ASSUME Restart PROVE LivesAreOrdered'
  BY <1>15, OrderRestart
<1> QED
  BY <1>1, <1>2, <1>3, <1>4, <1>5, <1>6, <1>7, <1>8, <1>9, <1>10, <1>11, <1>12, <1>13, <1>14, <1>15
     DEF Next, RunActs

-----------------------------------------------------------------------------
(* Without a failure.                                                       *)

\* Failures are not forgotten.
LEMMA NoFaultYet ==
  ASSUME TypeOK, NEW fault, Fails(fault), faults' = 0
  PROVE  faults = 0 /\ fault = "no"
<1>1. faults \in Nat
  BY DEF TypeOK
<1> QED BY <1>1 DEF Fails

\* A checkpoint that is taken gets its row.
LEMMA CheckpointKept ==
  ASSUME TypeOK, NothingLost, RefsExist, RowsMatchTasks, NEW r \in Runs, pc[r] = "executing",
         EnsureCheckpoint(r, "no")
  PROVE  /\ ~indexTorn' /\ r \in known' /\ snap'[r] # None
         /\ \A q \in Runs : /\ snap'[q] # None => q \in indexed'
                            /\ snap[q] # None => snap'[q] # None
                            /\ q # r => snap'[q] = snap[q]
<1>1. CASE r \in known
  BY <1>1 DEF EnsureCheckpoint, store, NothingLost, RefsExist
<1>2. CASE r \notin known
  <2>1. /\ snap' = [snap EXCEPT ![r] = file] /\ known' = known \cup {r}
        /\ indexed' = indexed \cup {r} /\ ~indexTorn'
    BY <1>2 DEF EnsureCheckpoint, NothingLost
  <2>2. snap \in [Runs -> [Files -> Contents] \cup {None}] /\ file # None
    BY AtomsAssumption DEF TypeOK
  <2> QED BY <2>1, <2>2 DEF NothingLost
<1> QED BY <1>1, <1>2

\* What changes neither the store nor the rows, and no process that starts.
LEMMA LostFrame ==
  ASSUME NothingLost, UNCHANGED <<snap, indexed, indexTorn, ledgerTorn, unguarded>>,
         \A r \in Runs : scan'[r] # None => scan[r] # None,
         \A r \in Runs : status'[r] = "running" => pc'[r] = "executing" \/ phase' = "down",
         phase' = "starting" => (Failed' \cap known') \ todo' \subseteq marked'
  PROVE  NothingLost'
BY DEF NothingLost

LEMMA StepLost ==
  ASSUME TypeOK, RefsExist, RowsMatchTasks, faults = 0 => NothingLost, [Next]_vars, faults' = 0
  PROVE  NothingLost' /\ faults = 0
<1>1. ASSUME NEW r \in Runs, Start(r) \/ Revive(r) \/ MarkFailed(r) PROVE NothingLost' /\ faults = 0
  <2>1. /\ UNCHANGED <<snap, indexed, indexTorn, ledgerTorn, unguarded, scan, faults, phase>>
        /\ phase = "up"
    BY <1>1 DEF Start, Revive, MarkFailed, store, files, process, history
  <2>2. \A q \in Runs : status'[q] = "running" =>
                            pc'[q] = "executing" \/ (status[q] = "running" /\ pc'[q] = pc[q])
    BY <1>1 DEF Start, Revive, MarkFailed, TypeOK
  <2>3. NothingLost
    BY <2>1
  <2>4. \A q \in Runs : status'[q] = "running" => pc'[q] = "executing" \/ phase' = "down"
    BY <2>1, <2>2, <2>3 DEF NothingLost
  <2> QED BY <2>1, <2>3, <2>4, LostFrame
<1>2. ASSUME NEW r \in Runs, NEW s \in {"completed", "failed", "cancelled"}, End(r, s) PROVE NothingLost' /\ faults = 0
  <2>1. /\ UNCHANGED <<snap, indexed, indexTorn, ledgerTorn, unguarded, faults, phase>>
        /\ pc[r] = "executing" /\ scan' = [scan EXCEPT ![r] = None]
        /\ \A q \in Runs : status'[q] = "running" => status[q] = "running" /\ pc'[q] = pc[q]
    BY <1>2 DEF End, TypeOK, store, process, history
  <2>2. phase = "up"
    BY <2>1 DEF RowsMatchTasks, Idle
  <2>3. NothingLost
    BY <2>1
  <2>4. /\ \A q \in Runs : scan'[q] # None => scan[q] # None
        /\ \A q \in Runs : status'[q] = "running" => pc'[q] = "executing" \/ phase' = "down"
    BY <2>1, <2>2, <2>3 DEF NothingLost, TypeOK
  <2> QED BY <2>1, <2>2, <2>3, <2>4, LostFrame
<1>3. ASSUME NEW r \in Runs, NEW f \in Files, NEW fault \in WriteFaults,
             NEW content \in TextsOf(r) \cup {Absent, Torn}, ToolChanges(r, f, content, fault) PROVE NothingLost' /\ faults = 0
  <2>1. /\ faults = 0 /\ fault = "no" /\ pc[r] = "executing"
    BY <1>3, NoFaultYet DEF ToolChanges, Writes
  <2>2. NothingLost
    BY <2>1
  <2>3. /\ EnsureCheckpoint(r, "no")
        /\ UNCHANGED <<status, pc, marked, phase, todo>>
    BY <1>3, <2>1 DEF ToolChanges, rows
  <2>4. ~ledgerTorn'
    BY <1>3, <2>1, <2>2 DEF ToolChanges, RecordEffect, NothingLost
  <2>5. unguarded' = IF r \in known' THEN unguarded ELSE unguarded \cup {r}
    BY <1>3 DEF ToolChanges
  <2>6. \A q \in Runs : scan'[q] # None => scan[q] # None
    BY <1>3, TouchedFacts DEF ToolChanges
  <2>7. phase = "up"
    BY <2>1 DEF RowsMatchTasks, Idle
  <2>8. /\ ~indexTorn' /\ r \in known'
        /\ \A q \in Runs : /\ snap'[q] # None => q \in indexed'
                           /\ snap[q] # None => snap'[q] # None
    BY <2>1, <2>2, <2>3, CheckpointKept
  <2> QED BY <2>1, <2>2, <2>3, <2>4, <2>5, <2>6, <2>7, <2>8 DEF NothingLost
<1>4. ASSUME NEW r \in Runs, NEW fault \in StoreFaults, CommandStarts(r, fault) PROVE NothingLost' /\ faults = 0
  <2>1. /\ faults = 0 /\ fault = "no" /\ pc[r] = "executing"
    BY <1>4, NoFaultYet DEF CommandStarts, Writes
  <2>2. NothingLost
    BY <2>1
  <2>3. /\ EnsureCheckpoint(r, "no")
        /\ UNCHANGED <<status, pc, marked, phase, todo, unguarded, ledgerTorn>>
        /\ \A q \in Runs : q # r => scan'[q] = scan[q]
    BY <1>4, <2>1 DEF CommandStarts, rows, process, history, TypeOK
  <2>4. phase = "up"
    BY <2>1 DEF RowsMatchTasks, Idle
  <2>5. /\ ~indexTorn' /\ snap'[r] # None
        /\ \A q \in Runs : /\ snap'[q] # None => q \in indexed'
                           /\ snap[q] # None => snap'[q] # None
    BY <2>1, <2>2, <2>3, CheckpointKept
  <2> QED BY <2>1, <2>2, <2>3, <2>4, <2>5 DEF NothingLost
<1>5. ASSUME NEW r \in Runs, NEW f \in Files, NEW content \in TextsOf(r) \cup {Absent},
             CommandChanges(r, f, content) PROVE NothingLost' /\ faults = 0
  <2>1. /\ UNCHANGED <<status, pc, store, ledgerTorn, marked, phase, todo, faults>>
        /\ scan[r] # None /\ unguarded' = IF r \in known THEN unguarded ELSE unguarded \cup {r}
    BY <1>5 DEF CommandChanges, rows
  <2>2. NothingLost
    BY <2>1
  <2>3. \A q \in Runs : scan'[q] # None => scan[q] # None
    BY <1>5, TouchedFacts DEF CommandChanges
  <2>4. phase = "up" /\ snap[r] # None /\ r \notin unguarded
    BY <2>1, <2>2 DEF RowsMatchTasks, Idle, NothingLost
  <2>5. r \in known
    BY <2>4 DEF RefsExist
  <2>6. UNCHANGED <<snap, indexed, indexTorn, unguarded>>
    BY <2>1, <2>5 DEF store
  <2>7. \A q \in Runs : status'[q] = "running" => pc'[q] = "executing" \/ phase' = "down"
    BY <2>1, <2>2 DEF NothingLost
  <2> QED BY <2>1, <2>2, <2>3, <2>4, <2>6, <2>7, LostFrame
<1>6. ASSUME NEW r \in Runs, NEW fault \in {"no", "entry_lost", "entry_torn"}, CommandEnds(r, fault) PROVE NothingLost' /\ faults = 0
  <2>1. faults = 0 /\ fault = "no"
    BY <1>6, NoFaultYet DEF CommandEnds
  <2>2. NothingLost
    BY <2>1
  <2>3. /\ UNCHANGED <<status, pc, store, marked, phase, todo, unguarded>>
        /\ scan' = [scan EXCEPT ![r] = None] /\ scan[r] # None
    BY <1>6 DEF CommandEnds, rows, process
  <2>4. PICK recorded : RecordEffect(r, recorded, fault)
    BY <1>6 DEF CommandEnds
  <2>5. ledgerTorn' = ledgerTorn
    <3>1. ~ledgerTorn /\ ledgerTorn \in BOOLEAN
      BY <2>2 DEF NothingLost, TypeOK
    <3>2. ledgerTorn' = FALSE
      BY <2>1, <2>4, <3>1 DEF RecordEffect
    <3> QED BY <3>1, <3>2
  <2>6. phase = "up"
    BY <2>3 DEF RowsMatchTasks, Idle
  <2>7. /\ \A q \in Runs : scan'[q] # None => scan[q] # None
        /\ \A q \in Runs : status'[q] = "running" => pc'[q] = "executing" \/ phase' = "down"
    BY <2>2, <2>3 DEF NothingLost, TypeOK
  <2> QED BY <2>1, <2>2, <2>3, <2>5, <2>6, <2>7, LostFrame DEF store
<1>7. ASSUME NEW f \in Files, NEW content \in TextsOf(User) \cup {Absent}, UserChanges(f, content) PROVE NothingLost' /\ faults = 0
  <2>1. UNCHANGED <<status, pc, store, ledgerTorn, marked, phase, todo, faults, unguarded>>
    BY <1>7 DEF UserChanges, rows, history
  <2>2. NothingLost
    BY <2>1
  <2>3. \A q \in Runs : scan'[q] # None => scan[q] # None
    BY <1>7, TouchedFacts DEF UserChanges
  <2> QED BY <2>1, <2>2, <2>3 DEF NothingLost, Failed, store
<1>8. ASSUME NEW r \in Runs, ObserverRestores(r) \/ ObserverGivesUp(r) \/ ObserverRaises(r) PROVE NothingLost' /\ faults = 0
  <2>1. /\ UNCHANGED <<status, store, ledgerTorn, phase, todo, unguarded>>
        /\ pc[r] = "observing" /\ pc' = [pc EXCEPT ![r] = "none"]
    BY <1>8 DEF ObserverRestores, ObserverGivesUp, ObserverRaises, process, history
  <2>2. /\ faults = 0
        /\ \A q \in Runs : scan'[q] # None => scan[q] # None
    <3>1. CASE ObserverRestores(r)
      <4>1. RestoreAndMark(r)
        BY <3>1 DEF ObserverRestores
      <4>2. CASE PlanRaises(r)
        BY <4>1, <4>2 DEF RestoreAndMark, files
      <4>3. CASE ~PlanRaises(r)
        <5>1. scan' = Touched(WouldApply(r)) /\ WouldApply(r) \in SUBSET Files
          BY <4>1, <4>3 DEF RestoreAndMark, WouldApply
        <5>2. PICK fault : Fails(fault)
          BY <4>1, <4>3 DEF RestoreAndMark
        <5> QED BY <5>1, <5>2, NoFaultYet, TouchedFacts
      <4> QED BY <4>2, <4>3
    <3>2. CASE ObserverGivesUp(r)
      BY <3>2 DEF ObserverGivesUp, files
    <3>3. CASE ObserverRaises(r)
      BY <3>3, NoFaultYet DEF ObserverRaises
    <3> QED BY <1>8, <3>1, <3>2, <3>3
  <2>3. NothingLost
    BY <2>2
  <2>4. phase = "up" /\ status[r] = "failed"
    BY <2>1 DEF RowsMatchTasks, Idle
  <2>5. \A q \in Runs : status'[q] = "running" => pc'[q] = "executing" \/ phase' = "down"
    BY <2>1, <2>3, <2>4 DEF NothingLost, TypeOK
  <2> QED BY <2>1, <2>2, <2>3, <2>4, <2>5, LostFrame DEF store
<1>9. ASSUME LoseMemory, scan' = NoScan PROVE NothingLost' /\ faults = 0
  <2>1. /\ UNCHANGED <<snap, indexed, indexTorn, ledgerTorn, unguarded, faults>> /\ phase' = "down"
    BY <1>9 DEF LoseMemory, history
  <2>2. NothingLost
    BY <2>1
  <2> QED BY <1>9, <2>1, <2>2 DEF NothingLost, NoScan
<1>10. ASSUME Restart PROVE NothingLost' /\ faults = 0
  <2>1. PICK left \in SUBSET {r \in Runs : status[r] = "running"} :
          /\ Fails(IF left = {} THEN "no" ELSE "sweep")
          /\ status' = [r \in Runs |-> IF r \in {q \in Runs : status[q] = "running"} \ left
                                       THEN "failed" ELSE status[r]]
    BY <1>10 DEF Restart
  <2>2. faults = 0 /\ left = {}
    BY <2>1, NoFaultYet
  <2>3. NothingLost
    BY <2>2
  <2>4. \A q \in Runs : status'[q] # "running"
    BY <2>1, <2>2
  <2>5. /\ UNCHANGED <<scan, snap, indexed, indexTorn, ledgerTorn>> /\ todo' = Failed'
        /\ unguarded' = unguarded \cup {r \in Runs \ indexed : snap[r] # None}
    BY <1>10 DEF Restart, files
  <2> QED BY <2>2, <2>3, <2>4, <2>5 DEF NothingLost
<1>11. ASSUME NEW r \in Runs, Reconciliation(r) PROVE NothingLost' /\ faults = 0
  <2>1. /\ UNCHANGED <<status, pc, store, ledgerTorn, phase, unguarded>>
        /\ phase = "starting" /\ r \in todo /\ todo' = todo \ {r}
    BY <1>11 DEF Reconciliation, ReconcileRestores, ReconcileSkips, ReconcileRaises, Reconciles,
                 Newest, rows, history
  <2>2. ASSUME ReconcileRestores(r)
        PROVE  /\ faults = 0 /\ \A q \in Runs : scan'[q] # None => scan[q] # None
               /\ ~ledgerTorn => marked' = marked \cup {r}
    <3>1. RestoreAndMark(r)
      BY <2>2 DEF ReconcileRestores
    <3>2. CASE PlanRaises(r)
      BY <3>1, <3>2 DEF RestoreAndMark, PlanRaises, files
    <3>3. CASE ~PlanRaises(r)
      <4>1. scan' = Touched(WouldApply(r)) /\ WouldApply(r) \in SUBSET Files
        BY <3>1, <3>3 DEF RestoreAndMark, WouldApply
      <4>2. PICK fault : Fails(fault) /\ marked' = IF fault = "no" THEN marked \cup {r} ELSE marked
        BY <3>1, <3>3 DEF RestoreAndMark
      <4> QED BY <4>1, <4>2, NoFaultYet, TouchedFacts
    <3> QED BY <3>2, <3>3
  <2>3. ASSUME ReconcileSkips(r)
        PROVE  faults = 0 /\ UNCHANGED <<scan, marked>> /\ (r \notin known \/ r \in marked)
    BY <2>3 DEF ReconcileSkips, files
  <2>4. ~ReconcileRaises(r)
    BY NoFaultYet DEF ReconcileRaises
  <2>5. faults = 0 /\ \A q \in Runs : scan'[q] # None => scan[q] # None
    BY <1>11, <2>2, <2>3, <2>4 DEF Reconciliation
  <2>6. NothingLost
    BY <2>5
  <2>7. marked \subseteq marked' /\ (r \in known => r \in marked')
    BY <1>11, <2>2, <2>3, <2>4, <2>6 DEF Reconciliation, NothingLost
  <2>8. (Failed' \cap known') \ todo' \subseteq marked'
    BY <2>1, <2>6, <2>7 DEF NothingLost, Failed, store
  <2>9. \A q \in Runs : status'[q] = "running" => pc'[q] = "executing" \/ phase' = "down"
    BY <2>1, <2>6 DEF NothingLost
  <2> QED BY <2>1, <2>5, <2>6, <2>8, <2>9, LostFrame DEF store
<1>12. ASSUME Serve PROVE NothingLost' /\ faults = 0
  BY <1>12 DEF Serve, NothingLost, rows, store, history, files
<1>13. ASSUME UNCHANGED vars PROVE NothingLost' /\ faults = 0
  BY <1>13 DEF vars, NothingLost, Failed, rows, store, process, history, files
<1>14. ASSUME Crash PROVE NothingLost' /\ faults = 0
  BY <1>9, <1>14 DEF Crash
<1>15. ASSUME NEW r \in Runs, CrashInRestore(r) PROVE NothingLost' /\ faults = 0
  BY <1>9, <1>15 DEF CrashInRestore
<1> QED
  BY <1>1, <1>2, <1>3, <1>4, <1>5, <1>6, <1>7, <1>8, <1>10, <1>11, <1>12, <1>13, <1>14, <1>15
     DEF Next, RunActs

-----------------------------------------------------------------------------
(* What restored runs left.                                                 *)

\* A text that comes into a file is of a run that is not restored, or comes from a
\* checkpoint that may be written back; one that comes into a checkpoint was in a file.
LEMMA UnwoundMoves ==
  ASSUME Unwound, marked' = marked, overlapped \subseteq overlapped',
         \A r \in marked : snap'[r] = snap[r] /\ ledger'[r] = ledger[r],
         \A r \in marked \ overlapped', f \in Files :
             \/ file'[f] = file[f]
             \/ file'[f] \notin TextsOf(r)
             \/ \E q \in Runs \ marked : /\ snap[q] # None /\ status[q] \in {"running", "failed"}
                                         /\ file'[f] = snap[q][f],
         \A q \in Runs \ marked : snap'[q] # None /\ status'[q] \in {"running", "failed"} =>
             \/ snap'[q] = file
             \/ snap'[q] = snap[q] /\ status[q] \in {"running", "failed"}
             \/ \A r \in marked \ overlapped', f \in Files : snap'[q][f] \notin TextsOf(r)
  PROVE  Unwound'
<1> SUFFICES ASSUME NEW r \in marked \ overlapped', NEW f \in Files
             PROVE  /\ ~LeftBy(r, f, file[f])'
                    /\ \A q \in Runs \ marked :
                         snap'[q] # None /\ status'[q] \in {"running", "failed"}
                           => ~LeftBy(r, f, snap[q][f])'
  BY DEF Unwound
<1>1. /\ r \in marked \ overlapped
      /\ snap'[r][f] = snap[r][f] /\ ledger'[r][f] = ledger[r][f]
  OBVIOUS
<1>2. /\ ~LeftBy(r, f, file[f])
      /\ \A q \in Runs \ marked :
           snap[q] # None /\ status[q] \in {"running", "failed"} => ~LeftBy(r, f, snap[q][f])
  BY <1>1 DEF Unwound
<1>3. ~LeftBy(r, f, file[f])'
  BY <1>1, <1>2 DEF LeftBy
<1>4. ASSUME NEW q \in Runs \ marked, snap'[q] # None, status'[q] \in {"running", "failed"}
      PROVE  ~LeftBy(r, f, snap[q][f])'
  BY <1>1, <1>2, <1>4 DEF LeftBy
<1> QED BY <1>3, <1>4

\* A restore from a checkpoint brings nothing back that a restored run left, and
\* nothing of its own run.
LEMMA RestoreUnwinds ==
  ASSUME TypeOK, RefsExist, LivesAreOrdered, NothingLost, Unwound,
         NEW r \in known \ marked, status[r] = "failed",
         \A f \in Files : file'[f] = IF f \in WouldApply(r) THEN snap[r][f] ELSE file[f],
         marked' = marked \cup {r}, UNCHANGED <<status, snap, ledger, overlapped>>,
         r \notin overlapped => \A q \in Runs \ marked :
             q > r /\ snap[q] # None => status[q] \notin {"running", "failed"}
  PROVE  Unwound'
<1>1. r \in Runs /\ snap[r] # None
  BY DEF TypeOK, RefsExist
<1> SUFFICES ASSUME NEW p \in marked' \ overlapped, NEW f \in Files
             PROVE  /\ ~LeftBy(p, f, file[f])'
                    /\ \A q \in Runs \ marked' :
                         snap[q] # None /\ status[q] \in {"running", "failed"}
                           => ~LeftBy(p, f, snap[q][f])'
  BY DEF Unwound
<1>2. CASE p \in marked
  <2>1. /\ ~LeftBy(p, f, file[f])
        /\ \A q \in Runs \ marked :
             snap[q] # None /\ status[q] \in {"running", "failed"} => ~LeftBy(p, f, snap[q][f])
    BY <1>2 DEF Unwound
  <2>2. file'[f] = file[f] \/ file'[f] = snap[r][f]
    OBVIOUS
  <2>3. ~LeftBy(p, f, snap[r][f])
    BY <1>1, <2>1
  <2> QED BY <2>1, <2>2, <2>3 DEF LeftBy
<1>3. CASE p = r
  <2>1. ~LeftBy(r, f, file[f])'
    <3>1. CASE f \in WouldApply(r)
      BY <3>1 DEF LeftBy
    <3>2. CASE f \notin WouldApply(r)
      BY <3>2 DEF LeftBy, WouldApply, Differs, AgentIntact
    <3> QED BY <3>1, <3>2
  <2>2. ASSUME NEW q \in Runs \ marked', snap[q] # None, status[q] \in {"running", "failed"}
        PROVE  snap[q][f] \notin TextsOf(r)
    <3>1. q \in Runs \ marked /\ q # r
      BY <2>2
    <3>2. ~(q > r)
      BY <1>3, <2>2, <3>1
    <3>3. q < r
      BY <1>1, <3>1, <3>2 DEF Runs
    <3> QED BY <1>1, <1>3, <2>2, <3>1, <3>3 DEF LivesAreOrdered, NothingLost
  <2> QED BY <1>3, <2>1, <2>2 DEF LeftBy
<1> QED BY <1>2, <1>3

\* The files that a restore without a failure leaves, and the event.
LEMMA RestoreWhole ==
  ASSUME TypeOK, NothingLost, NEW r \in Runs, RestoreAndMark(r), faults' = 0
  PROVE  /\ \A f \in Files : file'[f] = IF f \in WouldApply(r) THEN snap[r][f] ELSE file[f]
         /\ marked' = marked \cup {r}
<1>1. ~PlanRaises(r)
  BY DEF PlanRaises, NothingLost
<1>2. /\ \A f \in Files : file'[f] = IF f \in WouldApply(r) THEN snap[r][f] ELSE file[f]
      /\ \E fault \in {"no", "event_lost"} :
           Fails(fault) /\ marked' = IF fault = "no" THEN marked \cup {r} ELSE marked
  BY <1>1 DEF RestoreAndMark
<1> QED BY <1>2, NoFaultYet

\* What executes is not restored.
LEMMA ExecutorsUnmarked ==
  ASSUME TypeOK, RowsMatchTasks, NEW r \in Runs, Lives(r) PROVE r \notin marked
BY DEF TypeOK, RowsMatchTasks, Lives, Failed

LEMMA StepUnwound ==
  ASSUME TypeOK, RefsExist, RowsMatchTasks, LivesAreOrdered, NothingLost, Unwound,
         [Next]_vars, faults' = 0
  PROVE  Unwound'
<1>1. ASSUME NEW r \in Runs, Start(r) PROVE Unwound'
  <2>1. /\ UNCHANGED <<marked, snap, ledger, file>> /\ overlapped \subseteq overlapped'
        /\ status[r] = "new" /\ \A q \in Runs : q # r => status'[q] = status[q]
    BY <1>1 DEF Start, TypeOK, store, files
  <2>2. snap[r] = None
    BY <2>1 DEF LivesAreOrdered
  <2> QED BY <2>1, <2>2, UnwoundMoves
<1>2. ASSUME NEW r \in Runs, Revive(r) PROVE Unwound'
  <2>1. /\ UNCHANGED <<marked, snap, ledger, file>> /\ overlapped \subseteq overlapped'
        /\ \A q \in Runs : q # r => status'[q] = status[q]
        /\ \A q \in Runs \ {r} : q \in marked /\ Keeps(r, q) => q \in overlapped'
    BY <1>2 DEF Revive, TypeOK, store, files
  <2>2. r \notin marked
    BY <1>2 DEF Revive, RowsMatchTasks, Failed
  <2>3. snap[r] # None => \A p \in marked \ overlapped', f \in Files : snap[r][f] \notin TextsOf(p)
    BY <2>1, <2>2 DEF Keeps, TypeOK
  <2> QED BY <2>1, <2>3, UnwoundMoves
<1>3. ASSUME NEW r \in Runs, MarkFailed(r) \/ \E s \in {"completed", "failed", "cancelled"} : End(r, s)
      PROVE  Unwound'
  <2>1. /\ UNCHANGED <<marked, snap, ledger, file, overlapped>>
        /\ pc[r] = "executing" \/ status[r] = "running"
        /\ \A q \in Runs : q # r => status'[q] = status[q]
    BY <1>3 DEF MarkFailed, End, TypeOK, store, files, history
  <2>2. status[r] = "running"
    BY <2>1 DEF RowsMatchTasks
  <2> QED BY <2>1, <2>2, UnwoundMoves
<1>4. ASSUME NEW r \in Runs, NEW f \in Files, NEW fault \in WriteFaults,
             NEW content \in TextsOf(r) \cup {Absent, Torn}, ToolChanges(r, f, content, fault) PROVE Unwound'
  <2>1. /\ pc[r] = "executing" /\ EnsureCheckpoint(r, fault)
        /\ UNCHANGED <<status, marked, overlapped>>
        /\ \A g \in Files : file'[g] \in {file[g], content}
    BY <1>4 DEF ToolChanges, Writes, rows, TypeOK
  <2>2. r \notin marked
    BY <2>1, ExecutorsUnmarked DEF Lives
  <2>3. \A q \in marked : content \notin TextsOf(q)
    BY <1>4, <2>2, TextFacts, AtomsAssumption DEF TypeOK
  <2>4. \A q \in marked : ledger'[q] = ledger[q]
    BY <1>4, <2>2 DEF ToolChanges, RecordEffect, TypeOK
  <2>5. \A q \in Runs : snap'[q] = snap[q] \/ (q = r /\ snap'[q] = file)
    BY <2>1, CheckpointFacts DEF TypeOK
  <2>6. \A q \in marked : snap'[q] = snap[q]
    BY <2>2, <2>5 DEF TypeOK
  <2> QED BY <2>1, <2>3, <2>4, <2>5, <2>6, UnwoundMoves
<1>5. ASSUME NEW r \in Runs, NEW fault \in StoreFaults, CommandStarts(r, fault) PROVE Unwound'
  <2>1. /\ pc[r] = "executing" /\ EnsureCheckpoint(r, fault)
        /\ UNCHANGED <<status, marked, overlapped, file, ledger>>
    BY <1>5 DEF CommandStarts, Writes, rows, process, history
  <2>2. r \notin marked
    BY <2>1, ExecutorsUnmarked DEF Lives
  <2>3. \A q \in Runs : snap'[q] = snap[q] \/ (q = r /\ snap'[q] = file)
    BY <2>1, CheckpointFacts DEF TypeOK
  <2>4. \A q \in marked : snap'[q] = snap[q]
    BY <2>2, <2>3 DEF TypeOK
  <2> QED BY <2>1, <2>3, <2>4, UnwoundMoves
<1>6. ASSUME NEW r \in Runs, NEW f \in Files, NEW content \in TextsOf(r) \cup {Absent},
             CommandChanges(r, f, content) PROVE Unwound'
  <2>1. /\ scan[r] # None /\ UNCHANGED <<status, snap, marked, overlapped, ledger>>
        /\ \A g \in Files : file'[g] \in {file[g], content}
    BY <1>6 DEF CommandChanges, rows, store, TypeOK
  <2>2. r \notin marked
    BY <2>1, ExecutorsUnmarked DEF RowsMatchTasks, Lives
  <2>3. \A q \in marked : content \notin TextsOf(q)
    BY <1>6, <2>2, TextFacts, AtomsAssumption DEF TypeOK
  <2> QED BY <2>1, <2>3, UnwoundMoves
<1>7. ASSUME NEW r \in Runs, NEW fault \in {"no", "entry_lost", "entry_torn"}, CommandEnds(r, fault) PROVE Unwound'
  <2>1. scan[r] # None /\ UNCHANGED <<status, snap, marked, overlapped, file>>
    BY <1>7 DEF CommandEnds, rows, store
  <2>2. r \notin marked
    BY <2>1, ExecutorsUnmarked DEF RowsMatchTasks, Lives
  <2>3. PICK recorded : RecordEffect(r, recorded, fault)
    BY <1>7 DEF CommandEnds
  <2>4. \A q \in marked : ledger'[q] = ledger[q]
    BY <2>2, <2>3 DEF RecordEffect, TypeOK
  <2> QED BY <2>1, <2>4, UnwoundMoves
<1>8. ASSUME NEW f \in Files, NEW content \in TextsOf(User) \cup {Absent}, UserChanges(f, content) PROVE Unwound'
  <2>1. /\ UNCHANGED <<status, snap, marked, overlapped, ledger>>
        /\ \A g \in Files : file'[g] \in {file[g], content}
    BY <1>8 DEF UserChanges, rows, store, history, TypeOK
  <2>2. \A q \in marked : content \notin TextsOf(q)
    BY <1>8, TextFacts, AtomsAssumption DEF TypeOK
  <2> QED BY <2>1, <2>2, UnwoundMoves
<1>9. ASSUME NEW r \in Runs, ObserverRestores(r) PROVE Unwound'
  <2>1. /\ pc[r] = "observing" /\ r \in known /\ RestoreAndMark(r)
        /\ UNCHANGED <<status, snap, ledger, overlapped>>
    BY <1>9 DEF ObserverRestores, store, history
  <2>2. status[r] = "failed" /\ r \notin marked /\ Lives(r)
    BY <2>1 DEF RowsMatchTasks, Lives
  <2>3. r \notin overlapped => \A q \in Runs \ marked :
           q > r /\ snap[q] # None => status[q] \notin {"running", "failed"}
    <3> SUFFICES ASSUME NEW q \in Runs, q > r, snap[q] # None PROVE r \in overlapped
      OBVIOUS
    <3>1. status[q] # "new" /\ q # r
      BY DEF LivesAreOrdered, Runs
    <3> QED BY <2>2, <3>1 DEF LivesAreOrdered
  <2>4. /\ \A f \in Files : file'[f] = IF f \in WouldApply(r) THEN snap[r][f] ELSE file[f]
        /\ marked' = marked \cup {r}
    BY <2>1, RestoreWhole
  <2> QED BY <2>1, <2>2, <2>3, <2>4, RestoreUnwinds
<1>10. ASSUME NEW r \in Runs, ReconcileRestores(r) PROVE Unwound'
  <2>1. /\ phase = "starting" /\ Newest(r) /\ r \in known \ marked /\ RestoreAndMark(r)
        /\ UNCHANGED <<status, snap, ledger, overlapped>>
    BY <1>10 DEF ReconcileRestores, Reconciles, rows, store, history
  <2>2. status[r] = "failed"
    BY <2>1 DEF Newest, RowsMatchTasks, Failed
  <2>3. r \notin overlapped => \A q \in Runs \ marked :
           q > r /\ snap[q] # None => status[q] \notin {"running", "failed"}
    <3> SUFFICES ASSUME NEW q \in Runs \ marked, q > r, snap[q] # None,
                        status[q] \in {"running", "failed"}
                 PROVE  r \in overlapped
      OBVIOUS
    <3>1. status[q] = "failed"
      BY <2>1 DEF RowsMatchTasks, Idle, NothingLost
    <3>2. q \in indexed
      BY DEF NothingLost
    <3>3. q \in known
      BY <2>1, <3>2 DEF RefsExist
    <3>4. q \in todo
      BY <2>1, <3>1, <3>3 DEF NothingLost, Failed
    <3>5. q # r
      BY DEF Runs
    <3>6. FinishedBefore(q, r)
      BY <2>1, <3>4, <3>5 DEF Newest
    <3> QED BY <3>6 DEF LivesAreOrdered
  <2>4. /\ \A f \in Files : file'[f] = IF f \in WouldApply(r) THEN snap[r][f] ELSE file[f]
        /\ marked' = marked \cup {r}
    BY <2>1, RestoreWhole
  <2> QED BY <2>1, <2>2, <2>3, <2>4, RestoreUnwinds
<1>11. ASSUME NEW r \in Runs, CrashInRestore(r) PROVE Unwound'
  <2>1. /\ r \in known /\ PartlyRestored(r)
        /\ UNCHANGED <<status, snap, ledger, overlapped, marked>>
        /\ pc[r] = "observing" \/ (phase = "starting" /\ Newest(r) /\ r \notin marked)
    BY <1>11 DEF CrashInRestore, LoseMemory, history
  <2>2. status[r] = "failed" /\ r \notin marked /\ snap[r] # None
    BY <2>1 DEF RowsMatchTasks, Newest, Failed, RefsExist
  <2>3. \A f \in Files : file'[f] \in {file[f], snap[r][f], Torn}
    BY <2>1 DEF PartlyRestored
  <2>4. \A q \in Runs : Torn \notin TextsOf(q)
    BY AtomsAssumption DEF TextsOf
  <2>5. marked \subseteq Runs
    BY DEF TypeOK
  <2> QED BY <2>1, <2>2, <2>3, <2>4, <2>5, UnwoundMoves
<1>12. ASSUME NEW r \in Runs, ObserverGivesUp(r) \/ ReconcileSkips(r) PROVE Unwound'
  <2>1. UNCHANGED <<status, snap, ledger, overlapped, marked, file>>
    BY <1>12 DEF ObserverGivesUp, ReconcileSkips, Reconciles, rows, store, history, files
  <2> QED BY <2>1, UnwoundMoves
<1>13. ASSUME NEW r \in Runs PROVE ~ObserverRaises(r) /\ ~ReconcileRaises(r)
  BY NoFaultYet DEF ObserverRaises, ReconcileRaises
<1>14. ASSUME Crash \/ Serve \/ UNCHANGED vars PROVE Unwound'
  <2>1. UNCHANGED <<status, snap, ledger, overlapped, marked, file>>
    BY <1>14 DEF Crash, LoseMemory, Serve, vars, rows, store, history, files
  <2> QED BY <2>1, UnwoundMoves
<1>15. ASSUME Restart PROVE Unwound'
  <2>1. PICK left \in SUBSET {r \in Runs : status[r] = "running"} :
          status' = [r \in Runs |-> IF r \in {q \in Runs : status[q] = "running"} \ left
                                    THEN "failed" ELSE status[r]]
    BY <1>15 DEF Restart
  <2>2. UNCHANGED <<snap, ledger, overlapped, marked, file>>
    BY <1>15 DEF Restart, files
  <2>3. \A q \in Runs : status'[q] \in {"running", "failed"} => status[q] \in {"running", "failed"}
    BY <2>1
  <2> QED BY <2>2, <2>3, UnwoundMoves
<1> QED
  BY <1>1, <1>2, <1>3, <1>4, <1>5, <1>6, <1>7, <1>8, <1>9, <1>10, <1>11, <1>12, <1>13, <1>14, <1>15
     DEF Next, RunActs, Reconciliation

-----------------------------------------------------------------------------
(* What a restore spares.                                                   *)

\* A restore takes back what its run wrote or took.
LEMMA RestoreSpares ==
  ASSUME IndInv, NEW r \in Runs, RestoreOf(r), NEW f \in Files, Present(f), file'[f] # file[f]
  PROVE  file[f] \in TextsOf(r) \cup taken[r]
<1>1. r \in known /\ (RestoreAndMark(r) \/ PartlyRestored(r))
  BY DEF RestoreOf, ObserverRestores, ObserverRaises, ReconcileRestores, ReconcileRaises,
         CrashInRestore
<1>2. f \in WouldApply(r)
  BY <1>1, RestoreFacts DEF IndInv
<1> QED BY <1>2, PlanIsScoped DEF IndInv

LEMMA StepTakes ==
  ASSUME TypeOK, RowsMatchTasks, OnlyCommandsTake, [Next]_vars
  PROVE  OnlyCommandsTake'
<1>1. ASSUME NEW r \in Runs, NEW fault \in StoreFaults, CommandStarts(r, fault) PROVE OnlyCommandsTake'
  BY <1>1 DEF CommandStarts, OnlyCommandsTake, history, TypeOK
<1>2. ASSUME NEW r \in Runs, NEW fault \in {"no", "entry_lost", "entry_torn"}, CommandEnds(r, fault) PROVE OnlyCommandsTake'
  <2>1. scan[r] # None /\ scan' = [scan EXCEPT ![r] = None]
    BY <1>2 DEF CommandEnds
  <2>2. PICK own : taken' = [taken EXCEPT ![r] = own]
    BY <1>2 DEF CommandEnds
  <2> QED BY <2>1, <2>2 DEF OnlyCommandsTake, TypeOK
<1>3. ASSUME taken' = taken, \A q \in Runs : scan'[q] # None => scan[q] # None PROVE OnlyCommandsTake'
  BY <1>3 DEF OnlyCommandsTake
<1>4. ASSUME NEW r \in Runs, Start(r) \/ Revive(r) \/ MarkFailed(r) \/ ObserverGivesUp(r) \/ ReconcileSkips(r)
      PROVE  OnlyCommandsTake'
  BY <1>3, <1>4 DEF Start, Revive, MarkFailed, ObserverGivesUp, ReconcileSkips, Reconciles, files, history
<1>5. ASSUME NEW r \in Runs, NEW s \in {"completed", "failed", "cancelled"}, End(r, s) PROVE OnlyCommandsTake'
  BY <1>3, <1>5 DEF End, history, TypeOK
<1>6. ASSUME NEW r \in Runs, NEW f \in Files, NEW fault \in WriteFaults,
             NEW content \in TextsOf(r) \cup {Absent, Torn}, ToolChanges(r, f, content, fault) PROVE OnlyCommandsTake'
  BY <1>3, <1>6, TouchedFacts DEF ToolChanges
<1>7. ASSUME NEW r \in Runs, NEW f \in Files, NEW content \in TextsOf(r) \cup {Absent},
             CommandChanges(r, f, content) PROVE OnlyCommandsTake'
  BY <1>3, <1>7, TouchedFacts DEF CommandChanges
<1>8. ASSUME NEW f \in Files, NEW content \in TextsOf(User) \cup {Absent}, UserChanges(f, content) PROVE OnlyCommandsTake'
  BY <1>3, <1>8, TouchedFacts DEF UserChanges, history
<1>9. ASSUME NEW r \in Runs, ObserverRestores(r) \/ ReconcileRestores(r) PROVE OnlyCommandsTake'
  <2>1. RestoreAndMark(r) /\ taken' = taken
    BY <1>9 DEF ObserverRestores, ReconcileRestores, Reconciles, history
  <2>2. CASE PlanRaises(r)
    BY <1>3, <2>1, <2>2 DEF RestoreAndMark, files
  <2>3. CASE ~PlanRaises(r)
    <3>1. scan' = Touched(WouldApply(r)) /\ WouldApply(r) \in SUBSET Files
      BY <2>1, <2>3 DEF RestoreAndMark, WouldApply
    <3> QED BY <1>3, <2>1, <3>1, TouchedFacts
  <2> QED BY <2>2, <2>3
<1>10. ASSUME NEW r \in Runs, ObserverRaises(r) \/ ReconcileRaises(r) PROVE OnlyCommandsTake'
  BY <1>3, <1>10, TouchedFacts DEF ObserverRaises, ReconcileRaises, Reconciles, Noticed, history
<1>11. ASSUME NEW r \in Runs, CrashInRestore(r) PROVE OnlyCommandsTake'
  BY <1>3, <1>11 DEF CrashInRestore, LoseMemory, NoScan, history
<1>12. ASSUME Crash \/ Restart \/ Serve \/ UNCHANGED vars PROVE OnlyCommandsTake'
  BY <1>3, <1>12 DEF Crash, LoseMemory, NoScan, Restart, Serve, vars, files, history
<1> QED
  BY <1>1, <1>2, <1>4, <1>5, <1>6, <1>7, <1>8, <1>9, <1>10, <1>11, <1>12
     DEF Next, RunActs, Reconciliation

-----------------------------------------------------------------------------
(* The theorems.                                                            *)

\* The inductive invariant of the workspace, its checkpoints and its ledger.
THEOREM WorkspaceInvariant == Spec => []IndInv
<1>1. Init => IndInv
  BY InitTypes, StartSafe DEF IndInv
<1>2. IndInv /\ [Next]_vars => IndInv'
  BY StepTypes, StepRefs, StepRows, StepLedger, StepSnapshots DEF IndInv
<1> QED BY <1>1, <1>2, PTL DEF Spec

\* Type correctness of the workspace, the store and the process.
THEOREM WorkspaceTyped == Spec => []TypeOK
<1>1. IndInv => TypeOK
  BY DEF IndInv
<1> QED BY <1>1, WorkspaceInvariant, PTL

\* run_checkpoint.py:8: nothing of a run is in its snapshot, through revivals and
\* restarts, unless its checkpoint was forgotten.
THEOREM SnapshotsPrecedeRuns == Spec => []SnapshotPrecedesRun
<1>1. IndInv => SnapshotPrecedesRun
  BY DEF IndInv, TypeOK, RefsExist, NothingBeforeSnapshot, SnapshotPrecedesRun
<1> QED BY <1>1, WorkspaceInvariant, PTL

\* run_checkpoint.py:296-300: a restore, whole, partial or interrupted by a crash,
\* takes back only what its run wrote or what was recorded for it.
THEOREM OthersAreSpared == Spec => OthersContentSurvives
<1> DEFINE Spares == \A r \in Runs : RestoreOf(r) =>
                       \A f \in Files : Present(f) /\ file'[f] # file[f] =>
                         file[f] \in TextsOf(r) \cup taken[r]
<1>1. IndInv /\ [Next]_vars => [Spares]_vars
  BY RestoreSpares
<1> HIDE DEF Spares
<1>2. Spec => [][Spares]_vars
  BY <1>1, WorkspaceInvariant, PTL DEF Spec
<1> QED BY <1>2 DEF Spares, OthersContentSurvives

\* run_restore.py:15-17 holds of every run that executes no shell commands: its
\* restore, whole, partial or cut off, never touches a file the user wrote last.
THEOREM CommandlessRunsSpareTheUser == Spec => ToolsSpareUserEdits
<1> DEFINE Spares == \A r \in Runs \ Commanding : RestoreOf(r) =>
                       \A f \in Files : file[f] \in TextsOf(User) => file'[f] = file[f]
<1>1. Init => OnlyCommandsTake
  BY DEF Init, NoScan, OnlyCommandsTake
<1>2. IndInv /\ OnlyCommandsTake /\ [Next]_vars => OnlyCommandsTake'
  BY StepTakes DEF IndInv
<1>3. ASSUME IndInv, OnlyCommandsTake, NEW r \in Runs \ Commanding, RestoreOf(r),
             NEW f \in Files, file[f] \in TextsOf(User)
      PROVE  file'[f] = file[f]
  <2>1. Present(f) /\ file[f] \notin TextsOf(r) /\ taken[r] = {}
    BY <1>3, TextFacts, AtomsAssumption DEF OnlyCommandsTake, Present, TextsOf
  <2> QED BY <1>3, <2>1, RestoreSpares
<1>4. IndInv /\ OnlyCommandsTake /\ [Next]_vars => [Spares]_vars
  BY <1>3
<1> HIDE DEF Spares
<1>5. Spec => [][Spares]_vars
  BY <1>1, <1>2, <1>4, WorkspaceInvariant, PTL DEF Spec
<1> QED BY <1>5 DEF Spares, ToolsSpareUserEdits

\* run_reconcile.py:10: the files of a run are restored once; a run that executes
\* again, or waits for its observer, has not been restored.
THEOREM RestoresHappenOnce == Spec => RestoredOnce
<1> DEFINE Once == \A r \in Runs : RestoreOf(r) => r \notin marked
<1>1. ASSUME IndInv, NEW r \in Runs, RestoreOf(r) PROVE r \notin marked
  BY <1>1 DEF IndInv, RowsMatchTasks, RestoreOf, ObserverRestores, ObserverRaises,
              ReconcileRestores, ReconcileRaises, CrashInRestore
<1>2. IndInv /\ [Next]_vars => [Once]_vars
  BY <1>1
<1> HIDE DEF Once
<1>3. Spec => [][Once]_vars
  BY <1>2, WorkspaceInvariant, PTL DEF Spec
<1> QED BY <1>3 DEF Once, RestoredOnce

\* The lives of the runs, and what of the restored ones is nowhere any more.
THEOREM RestoredRunsAreNowhere == Spec => []UnwindInv
<1>1. Init => UnwindInv
  <2> SUFFICES ASSUME Init PROVE UnwindInv
    OBVIOUS
  <2>1. LivesAreOrdered
    BY DEF Init, LivesAreOrdered, Lives, Idle, FinishedBefore
  <2>2. NothingLost
    BY DEF Init, NothingLost, NoScan, Failed
  <2>3. Unwound
    <3>1. marked = {}
      BY DEF Init
    <3> QED BY <3>1 DEF Unwound
  <2> QED BY <2>1, <2>2, <2>3 DEF UnwindInv
<1>2. ASSUME IndInv, UnwindInv, [Next]_vars PROVE UnwindInv'
  <2>1. TypeOK /\ RefsExist /\ RowsMatchTasks /\ NothingBeforeSnapshot
    BY <1>2 DEF IndInv
  <2>2. LivesAreOrdered'
    BY <1>2, <2>1, StepOrder DEF UnwindInv
  <2>3. ASSUME faults' = 0 PROVE NothingLost' /\ Unwound'
    <3>1. NothingLost' /\ faults = 0
      BY <1>2, <2>1, <2>3, StepLost DEF UnwindInv
    <3>2. LivesAreOrdered /\ NothingLost /\ Unwound
      BY <1>2, <3>1 DEF UnwindInv
    <3> QED BY <1>2, <2>1, <2>3, <3>1, <3>2, StepUnwound
  <2> QED BY <2>2, <2>3 DEF UnwindInv
<1> QED BY <1>1, <1>2, WorkspaceInvariant, PTL DEF Spec

\* run_reconcile.py:1-8: when the process serves again without a failure, what a
\* failed run left and its restore would take back is gone from the files.
THEOREM FailuresAreUnwound == Spec => FailedRunsAreUnwound
<1> DEFINE Clean == Serve /\ faults = 0 =>
                      \A r \in (Failed \cap known) \ overlapped : \A f \in WouldApply(r) :
                        file[f] \notin TextsOf(r)
<1>1. ASSUME IndInv, UnwindInv, Serve, faults = 0,
             NEW r \in (Failed \cap known) \ overlapped, NEW f \in WouldApply(r)
      PROVE  file[f] \notin TextsOf(r)
  <2>1. NothingLost /\ Unwound
    BY <1>1 DEF UnwindInv
  <2>2. r \in marked
    BY <1>1, <2>1 DEF NothingLost, Serve
  <2>3. f \in Files /\ Differs(r, f) /\ (~Present(f) \/ AgentIntact(r, f))
    BY DEF WouldApply
  <2>4. ~LeftBy(r, f, file[f])
    BY <1>1, <2>1, <2>2, <2>3 DEF Unwound
  <2>5. Absent \notin TextsOf(r)
    BY AtomsAssumption DEF TextsOf
  <2> QED BY <2>3, <2>4, <2>5 DEF LeftBy, Differs, Present, AgentIntact
<1>2. IndInv /\ UnwindInv /\ [Next]_vars => [Clean]_vars
  BY <1>1
<1> HIDE DEF Clean
<1>3. Spec => [][Clean]_vars
  BY <1>2, WorkspaceInvariant, RestoredRunsAreNowhere, PTL DEF Spec
<1> QED BY <1>3 DEF Clean, FailedRunsAreUnwound

\* run_reconcile.py:1-8: without a failure, a process that serves has restored each
\* failed run that has a checkpoint, and no row is left running.
THEOREM NothingIsLeftWhenServing == Spec => WindowClosedWhenServing
<1> DEFINE Closed == Serve /\ faults = 0 =>
                       \A r \in Runs : snap[r] # None /\ status[r] \in {"running", "failed"}
                                        => r \in marked
<1>1. ASSUME IndInv, UnwindInv, Serve, faults = 0,
             NEW r \in Runs, snap[r] # None, status[r] \in {"running", "failed"}
      PROVE  r \in marked
  <2>1. NothingLost /\ phase = "starting" /\ todo = {}
    BY <1>1 DEF UnwindInv, Serve
  <2>2. r \in indexed /\ status[r] = "failed"
    BY <1>1, <2>1 DEF IndInv, RowsMatchTasks, Idle, NothingLost
  <2>3. r \in known
    BY <1>1, <2>1, <2>2 DEF IndInv, RefsExist
  <2> QED BY <2>1, <2>2, <2>3 DEF NothingLost, Failed
<1>2. IndInv /\ UnwindInv /\ [Next]_vars => [Closed]_vars
  BY <1>1
<1> HIDE DEF Closed
<1>3. Spec => [][Closed]_vars
  BY <1>2, WorkspaceInvariant, RestoredRunsAreNowhere, PTL DEF Spec
<1> QED BY <1>3 DEF Closed, WindowClosedWhenServing

=============================================================================
