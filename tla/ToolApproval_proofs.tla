------------------------ MODULE ToolApproval_proofs ------------------------
(* Theorems about ToolApproval, for every number of calls and of slots.      *)
(* They follow from IndInv: three lemmas say what the operators shared by    *)
(* several actions do to a call, then each conjunct of IndInv has a lemma    *)
(* with one step per action.                                                 *)
EXTENDS ToolApproval, TLAPS

\* Definitions that name values only.
USE DEF Terminal, Statuses, Items, Decisions, Verdicts, Ended, Places

-----------------------------------------------------------------------------
(* What the shared operators do.                                            *)

\* Only c moves; its row says what it said, or that its tool runs.
OnlyMoves(c) ==
    /\ pc' \in [Calls -> Places] /\ item' \in [Calls -> Items] /\ rec' \in [Calls -> Statuses]
    /\ \A d \in Calls \ {c} : pc'[d] = pc[d] /\ item'[d] = item[d] /\ rec'[d] = rec[d]
    /\ rec'[c] \in {rec[c], "running"}

\* The two outcomes of a call that may run, and those of one that ends.
Enters(c) == pc'[c] = "running" /\ item'[c] = "running" /\ started' = started \cup {c}
Queues(c) == pc'[c] = "queued" /\ item'[c] = item[c] /\ started' = started
Refuses(c) == pc'[c] = "done" /\ item'[c] \in {"rejected", "expired"} /\ started' = started
Quits(c) == pc'[c] \in {"raised", "stopped"} /\ item'[c] = item[c] /\ started' = started

LEMMA EnterSlotFacts ==
  ASSUME TypeOK, NEW c \in Calls, EnterSlot(c)
  PROVE  OnlyMoves(c) /\ (Enters(c) \/ Queues(c))
<1>1. CASE Goes(c, "running") /\ Settles(c, "running")
           /\ rec' = [rec EXCEPT ![c] = "running"] /\ started' = started \cup {c}
  BY <1>1 DEF TypeOK, Goes, Settles, OnlyMoves, Enters
<1>2. CASE Goes(c, "queued") /\ UNCHANGED <<rec, item, started>>
  BY <1>2 DEF TypeOK, Goes, OnlyMoves, Queues
<1> QED
  BY <1>1, <1>2 DEF EnterSlot

LEMMA ActOnFacts ==
  ASSUME TypeOK, NEW c \in Calls, NEW v, ActOn(c, v)
  PROVE  /\ OnlyMoves(c)
         /\ \/ v \in {"approve", "modify"} /\ (Enters(c) \/ Queues(c))
            \/ v # "aborted" /\ Refuses(c)
            \/ Quits(c)
<1>1. CASE v \in {"approve", "modify"} /\ EnterSlot(c)
  BY <1>1, EnterSlotFacts
<1>2. CASE v # "aborted" /\ Settles(c, "rejected") /\ Goes(c, "done") /\ UNCHANGED <<rec, started>>
  BY <1>2 DEF TypeOK, Goes, Settles, OnlyMoves, Refuses
<1>3. CASE v # "aborted" /\ Settles(c, "expired") /\ Goes(c, "done") /\ UNCHANGED <<rec, started>>
  BY <1>3 DEF TypeOK, Goes, Settles, OnlyMoves, Refuses
<1>4. CASE (Goes(c, "raised") \/ Goes(c, "stopped")) /\ UNCHANGED <<rec, item, started>>
  BY <1>4 DEF TypeOK, Goes, OnlyMoves, Quits
<1> QED
  BY <1>1, <1>2, <1>3, <1>4 DEF ActOn

\* A wait ends at the lock, or goes on as ActOn says.
LEMMA EndWaitFacts ==
  ASSUME TypeOK, NEW c \in Calls, NEW v \in Verdicts, EndWait(c, v)
  PROVE  /\ OnlyMoves(c)
         /\ hit' = hit \ {c} /\ pending' \subseteq pending /\ staged' \subseteq staged
         /\ verdict' \in [Calls -> Verdicts \cup {"none"}]
         /\ \A d \in Calls \ {c} : verdict'[d] = verdict[d]
         /\ UNCHANGED <<evidence, needs, batch, reply, token, busy>>
         /\ \/ ActOn(c, v)
            \/ /\ pc'[c] = "leaving" /\ verdict'[c] = v
               /\ item' = item /\ started' = started
<1>1. CASE Forget(c) /\ ActOn(c, v) /\ UNCHANGED verdict
  BY <1>1, ActOnFacts DEF EndWait, Forget, TypeOK
<1>2. CASE /\ verdict' = [verdict EXCEPT ![c] = v] /\ Goes(c, "leaving")
           /\ UNCHANGED <<rec, item, pending, staged, started>>
  BY <1>2 DEF EndWait, Goes, OnlyMoves, TypeOK
<1> QED
  BY <1>1, <1>2 DEF EndWait

LEMMA WaitEndsVerdicts ==
  ASSUME NEW c \in Calls, NEW v \in WaitEnds(c)
  PROVE  v \in Verdicts /\ v # "aborted" /\ (v \in {"approve", "modify"} => reply[c] = v)
  BY DEF WaitEnds

-----------------------------------------------------------------------------
(* Types.                                                                   *)

LEMMA InitTypes == Init => TypeOK
<1> SUFFICES ASSUME Init PROVE TypeOK
  OBVIOUS
<1>1. PICK invalid \in SUBSET Calls :
        /\ pc = [c \in Calls |-> IF c \in invalid THEN "done" ELSE "new"]
        /\ item = [c \in Calls |-> IF c \in invalid THEN "failed" ELSE "created"]
        /\ needs \in SUBSET (Calls \ invalid)
  BY DEF Init
<1>2. pc \in [Calls -> Places] /\ item \in [Calls -> Items]
  BY <1>1
<1>3. rec \in [Calls -> Statuses] /\ verdict \in [Calls -> Verdicts \cup {"none"}]
      /\ reply \in [Calls -> Decisions \cup {"none", "void"}]
  BY DEF Init
<1> QED
  BY <1>1, <1>2, <1>3 DEF Init, TypeOK

LEMMA StepTypes == TypeOK /\ [Next]_vars => TypeOK'
<1> SUFFICES ASSUME TypeOK, [Next]_vars PROVE TypeOK'
  OBVIOUS
<1>1. CASE UNCHANGED vars
  BY <1>1 DEF vars, rows, tasks, gate, around, TypeOK
<1>2. ASSUME NEW c \in Calls, Proceed(c) PROVE TypeOK'
  BY <1>2, EnterSlotFacts DEF Proceed, gate, OnlyMoves, Enters, Queues, TypeOK
<1>3. ASSUME NEW c \in Calls, ToolReturns(c) PROVE TypeOK'
  BY <1>3 DEF ToolReturns, Settles, Goes, rows, gate, around, TypeOK
<1>4. ASSUME NEW c \in Calls, ToolCancelled(c) PROVE TypeOK'
  BY <1>4 DEF ToolCancelled, Settles, Goes, rows, gate, around, TypeOK
<1>5. ASSUME NEW c \in Calls, Ask(c) PROVE TypeOK'
  BY <1>5 DEF Ask, Goes, around, TypeOK
<1>6. ASSUME NEW c \in Calls, AskBlocked(c) PROVE TypeOK'
  BY <1>6 DEF AskBlocked, Goes, rows, gate, around, TypeOK
<1>7. ASSUME NEW c \in Calls, NEW v \in Verdicts, EndWait(c, v) PROVE TypeOK'
  <2>1. started' \in SUBSET Calls
    BY <1>7, EndWaitFacts, ActOnFacts DEF Enters, Queues, Refuses, Quits, TypeOK
  <2> QED
    BY <1>7, <2>1, EndWaitFacts DEF OnlyMoves, TypeOK
<1>8. ASSUME NEW c \in Calls, Leave(c) PROVE TypeOK'
  <2>1. started' \in SUBSET Calls
    BY <1>8, ActOnFacts DEF Leave, Enters, Queues, Refuses, Quits, TypeOK
  <2> QED
    BY <1>8, <2>1, ActOnFacts DEF Leave, Forget, OnlyMoves, TypeOK
<1>9. ASSUME NEW c \in Calls, Unwind(c) PROVE TypeOK'
  BY <1>7, <1>9 DEF Unwind, Goes, rows, gate, around, TypeOK
<1>10. ASSUME NEW c \in Calls, NEW d \in Decisions, Resolve(c, d) PROVE TypeOK'
  BY <1>10 DEF Resolve, tasks, around, TypeOK
<1>11. ASSUME NEW host \in BOOLEAN, Abort(host) PROVE TypeOK'
  BY <1>11 DEF Abort, rows, gate, around, TypeOK
<1>12. CASE Record
  BY <1>12 DEF Record, ResultOf, gate, around, TypeOK
<1>13. CASE Cancel
  BY <1>13 DEF Cancel, rows, tasks, gate, TypeOK
<1>14. CASE OtherRequest
  BY <1>14 DEF OtherRequest, rows, tasks, gate, TypeOK
<1>15. ASSUME NEW c \in Calls, Wake(c) PROVE TypeOK'
  BY <1>7, <1>15, WaitEndsVerdicts DEF Wake
<1> QED
  BY <1>1, <1>2, <1>3, <1>4, <1>5, <1>6, <1>8, <1>9, <1>10, <1>11, <1>12, <1>13, <1>14,
     <1>15 DEF Next, CallSteps

-----------------------------------------------------------------------------
(* Consent.                                                                 *)

Consent == ConsentBeforeEffect /\ ConsentInv

LEMMA InitConsent == Init => Consent
<1> SUFFICES ASSUME Init PROVE Consent
  OBVIOUS
<1>1. \A c \in Calls : pc[c] \in {"done", "new"} /\ reply[c] = "none"
  BY DEF Init
<1> QED
  BY <1>1 DEF Init, Consent, ConsentBeforeEffect, ConsentInv

\* A call that goes on with the user's consent, if it needs one.
LEMMA ActOnConsent ==
  ASSUME TypeOK, Consent, NEW c \in Calls, NEW v, ActOn(c, v),
         v \in {"approve", "modify"} => Accepted(c),
         \A d \in Calls \ {c} : verdict'[d] = verdict[d],
         UNCHANGED <<evidence, needs, reply>>
  PROVE  Consent'
<1>1. \A d \in Calls : Accepted(d)' <=> Accepted(d)
  BY DEF Accepted
<1>2. \A d \in started' \cap needs' : Accepted(d)
  BY ActOnFacts DEF Consent, ConsentBeforeEffect, Enters, Queues, Refuses, Quits
<1>3. pc'[c] # "leaving" /\ (pc'[c] = "queued" => Accepted(c))
  BY ActOnFacts DEF Enters, Queues, Refuses, Quits
<1>4. \A d \in Calls \ {c} : pc'[d] = pc[d]
  BY ActOnFacts DEF OnlyMoves
<1> QED
  BY <1>1, <1>2, <1>3, <1>4 DEF Consent, ConsentBeforeEffect, ConsentInv, TypeOK

LEMMA EndWaitConsent ==
  ASSUME TypeOK, Consent, NEW c \in Calls, NEW v \in Verdicts, EndWait(c, v),
         v \in {"approve", "modify"} => reply[c] = v
  PROVE  Consent'
<1>1. v \in {"approve", "modify"} => Accepted(c)
  BY DEF Consent, ConsentInv, Accepted
<1>2. CASE ActOn(c, v)
  BY <1>1, <1>2, EndWaitFacts, ActOnConsent
<1>3. CASE pc'[c] = "leaving" /\ verdict'[c] = v /\ item' = item /\ started' = started
  <2>1. \A d \in Calls : Accepted(d)' <=> Accepted(d)
    BY EndWaitFacts DEF Accepted
  <2>2. \A d \in Calls \ {c} : pc'[d] = pc[d] /\ verdict'[d] = verdict[d]
    BY EndWaitFacts DEF OnlyMoves
  <2> QED
    BY <1>1, <1>3, <2>1, <2>2, EndWaitFacts DEF Consent, ConsentBeforeEffect, ConsentInv, TypeOK
<1> QED
  BY <1>2, <1>3, EndWaitFacts

\* A step in which no call comes closer to its tool.
LEMMA QuietConsent ==
  ASSUME TypeOK, Consent,
         \A d \in Calls : pc'[d] \in {"leaving", "queued"} => pc'[d] = pc[d],
         UNCHANGED <<evidence, needs, verdict, reply, started>>
  PROVE  Consent'
  BY DEF Consent, ConsentBeforeEffect, ConsentInv, Accepted, TypeOK

LEMMA StepConsent == TypeOK /\ Consent /\ EffectInv /\ [Next]_vars => Consent'
<1> SUFFICES ASSUME TypeOK, Consent, EffectInv, [Next]_vars PROVE Consent'
  OBVIOUS
<1>1. CASE UNCHANGED vars
  BY <1>1, QuietConsent DEF vars, rows, tasks, gate, around
<1>2. ASSUME NEW c \in Calls, Proceed(c) PROVE Consent'
  <2>1. c \in needs => Accepted(c)
    BY <1>2 DEF Proceed, Consent, ConsentInv
  <2>2. \A d \in Calls : Accepted(d)' <=> Accepted(d)
    BY <1>2 DEF Proceed, gate, Accepted
  <2>3. OnlyMoves(c) /\ (Enters(c) \/ Queues(c))
    BY <1>2, EnterSlotFacts DEF Proceed
  <2> QED
    BY <1>2, <2>1, <2>2, <2>3
       DEF Proceed, gate, OnlyMoves, Enters, Queues, Consent, ConsentBeforeEffect, ConsentInv,
           TypeOK
<1>3. ASSUME NEW c \in Calls, ToolReturns(c) PROVE Consent'
  BY <1>3, QuietConsent DEF ToolReturns, Goes, rows, gate, around, TypeOK
<1>4. ASSUME NEW c \in Calls, ToolCancelled(c) PROVE Consent'
  BY <1>4, QuietConsent DEF ToolCancelled, Goes, rows, gate, around, TypeOK
<1>5. ASSUME NEW c \in Calls, Ask(c) PROVE Consent'
  BY <1>5, QuietConsent DEF Ask, Goes, around, TypeOK
<1>6. ASSUME NEW c \in Calls, AskBlocked(c) PROVE Consent'
  BY <1>6, QuietConsent DEF AskBlocked, Goes, rows, gate, around, TypeOK
<1>7. ASSUME NEW c \in Calls, Wake(c) PROVE Consent'
  BY <1>7, WaitEndsVerdicts, EndWaitConsent DEF Wake
<1>8. ASSUME NEW c \in Calls, Leave(c) PROVE Consent'
  <2>1. verdict[c] \in {"approve", "modify"} => Accepted(c)
    BY <1>8 DEF Leave, Consent, ConsentInv
  <2> QED
    BY <1>8, <2>1, ActOnConsent DEF Leave
<1>9. ASSUME NEW c \in Calls, Unwind(c) PROVE Consent'
  <2>1. CASE EndWait(c, "aborted")
    BY <2>1, EndWaitConsent
  <2>2. CASE Goes(c, "stopped") /\ UNCHANGED <<rows, needs, verdict, gate, around>>
    BY <2>2, QuietConsent DEF Goes, rows, gate, around, TypeOK
  <2> QED
    BY <1>9, <2>1, <2>2 DEF Unwind
<1>10. ASSUME NEW c \in Calls, NEW d \in Decisions, Resolve(c, d) PROVE Consent'
  <2>1. \A e \in Calls \ {c} : Accepted(e) => Accepted(e)'
    BY <1>10 DEF Resolve, Accepted, TypeOK
  <2>2. \A e \in Calls : reply'[e] \in {"approve", "modify"} => e \in evidence'
    BY <1>10 DEF Resolve, Consent, ConsentInv, TypeOK
  <2>3. pc[c] = "waiting" /\ c \notin started
    BY <1>10 DEF Resolve, EffectInv
  <2> QED
    BY <1>10, <2>1, <2>2, <2>3
       DEF Resolve, tasks, around, Consent, ConsentBeforeEffect, ConsentInv, TypeOK
<1>11. ASSUME NEW host \in BOOLEAN, Abort(host) PROVE Consent'
  BY <1>11, QuietConsent DEF Abort, rows, gate, around
<1>12. CASE Record
  BY <1>12, QuietConsent DEF Record, gate, around
<1>13. CASE Cancel
  BY <1>13, QuietConsent DEF Cancel, rows, tasks, gate
<1>14. CASE OtherRequest
  BY <1>14, QuietConsent DEF OtherRequest, rows, tasks, gate
<1> QED
  BY <1>1, <1>2, <1>3, <1>4, <1>5, <1>6, <1>7, <1>8, <1>9, <1>10, <1>11, <1>12, <1>13, <1>14
     DEF Next, CallSteps

-----------------------------------------------------------------------------
(* Effects.                                                                 *)

LEMMA InitEffects == Init => EffectInv
<1> SUFFICES ASSUME Init PROVE EffectInv
  OBVIOUS
<1>1. \A c \in Calls : /\ rec[c] = "validating"
                       /\ \/ pc[c] = "new" /\ item[c] = "created"
                          \/ pc[c] = "done" /\ item[c] = "failed"
  BY DEF Init
<1> QED
  BY <1>1 DEF Init, EffectInv

\* A step of one call that takes it through the gate or into its tool.
LEMMA ActOnEffects ==
  ASSUME TypeOK, EffectInv, NEW c \in Calls, NEW v, ActOn(c, v), pc[c] \in {"waiting", "leaving"},
         batch' = batch
  PROVE  EffectInv'
<1>1. OnlyMoves(c) /\ c \notin started /\ item[c] = "created"
  BY ActOnFacts DEF EffectInv
<1>2. Enters(c) \/ Queues(c) \/ Refuses(c) \/ Quits(c)
  BY ActOnFacts
<1>3. started' \subseteq started \cup {c}
  BY <1>2 DEF Enters, Queues, Refuses, Quits
<1>4. \A d \in Calls \ {c} : pc'[d] = pc[d] /\ item'[d] = item[d] /\ rec'[d] = rec[d]
                             /\ (d \in started' <=> d \in started)
  BY <1>1, <1>2 DEF OnlyMoves, Enters, Queues, Refuses, Quits
<1>5. batch # "over" => rec'[c] \notin Terminal
  BY <1>1 DEF OnlyMoves, EffectInv
<1>6. /\ pc'[c] \in Places \ (Ended \cup {"running"}) => c \notin started' /\ item'[c] = "created"
      /\ pc'[c] = "done" => item'[c] \in Terminal
      /\ item'[c] \in {"rejected", "expired"} => c \notin started'
  BY <1>1, <1>2 DEF Enters, Queues, Refuses, Quits
<1> QED
  BY <1>4, <1>5, <1>6 DEF EffectInv

LEMMA EndWaitEffects ==
  ASSUME TypeOK, EffectInv, NEW c \in Calls, NEW v \in Verdicts, EndWait(c, v), pc[c] = "waiting"
  PROVE  EffectInv'
<1>1. CASE ActOn(c, v)
  BY <1>1, EndWaitFacts, ActOnEffects
<1>2. CASE pc'[c] = "leaving" /\ item' = item /\ started' = started
  BY <1>2, EndWaitFacts DEF OnlyMoves, EffectInv
<1> QED
  BY <1>1, <1>2, EndWaitFacts

LEMMA StepEffects == TypeOK /\ EffectInv /\ [Next]_vars => EffectInv'
<1> SUFFICES ASSUME TypeOK, EffectInv, [Next]_vars PROVE EffectInv'
  OBVIOUS
<1>1. CASE UNCHANGED vars
  BY <1>1 DEF vars, rows, tasks, around, EffectInv
<1>2. ASSUME NEW c \in Calls, Proceed(c) PROVE EffectInv'
  <2>1. c \notin started /\ item[c] = "created"
    BY <1>2 DEF Proceed, EffectInv
  <2>2. OnlyMoves(c) /\ (Enters(c) \/ Queues(c)) /\ batch' = batch
    BY <1>2, EnterSlotFacts DEF Proceed
  <2>3. \A d \in Calls \ {c} : d \in started' <=> d \in started
    BY <2>2 DEF Enters, Queues
  <2> QED
    BY <2>1, <2>2, <2>3 DEF OnlyMoves, Enters, Queues, EffectInv
<1>3. ASSUME NEW c \in Calls, ToolReturns(c) PROVE EffectInv'
  BY <1>3 DEF ToolReturns, Settles, Goes, rows, around, TypeOK, EffectInv
<1>4. ASSUME NEW c \in Calls, ToolCancelled(c) PROVE EffectInv'
  BY <1>4 DEF ToolCancelled, Settles, Goes, rows, around, TypeOK, EffectInv
<1>5. ASSUME NEW c \in Calls, Ask(c) PROVE EffectInv'
  BY <1>5 DEF Ask, Goes, around, TypeOK, EffectInv
<1>6. ASSUME NEW c \in Calls, AskBlocked(c) PROVE EffectInv'
  BY <1>6 DEF AskBlocked, Goes, rows, around, TypeOK, EffectInv
<1>7. ASSUME NEW c \in Calls, Wake(c) PROVE EffectInv'
  BY <1>7, WaitEndsVerdicts, EndWaitEffects DEF Wake
<1>8. ASSUME NEW c \in Calls, Leave(c) PROVE EffectInv'
  BY <1>8, ActOnEffects DEF Leave
<1>9. ASSUME NEW c \in Calls, Unwind(c) PROVE EffectInv'
  <2>1. CASE pc[c] = "waiting" /\ EndWait(c, "aborted")
    BY <2>1, EndWaitEffects
  <2>2. CASE Goes(c, "stopped") /\ UNCHANGED <<rows, item, batch, around>>
    BY <2>2 DEF Goes, rows, around, TypeOK, EffectInv
  <2> QED
    BY <1>9, <2>1, <2>2 DEF Unwind
<1>10. ASSUME NEW c \in Calls, NEW d \in Decisions, Resolve(c, d) PROVE EffectInv'
  BY <1>10 DEF Resolve, tasks, around, EffectInv
<1>11. ASSUME NEW host \in BOOLEAN, Abort(host) PROVE EffectInv'
  BY <1>11 DEF Abort, rows, around, EffectInv
<1>12. CASE Record
  BY <1>12 DEF Record, around, EffectInv
<1>13. CASE Cancel
  BY <1>13 DEF Cancel, rows, tasks, EffectInv
<1>14. CASE OtherRequest
  BY <1>14 DEF OtherRequest, rows, tasks, EffectInv
<1> QED
  BY <1>1, <1>2, <1>3, <1>4, <1>5, <1>6, <1>7, <1>8, <1>9, <1>10, <1>11, <1>12, <1>13, <1>14
     DEF Next, CallSteps

-----------------------------------------------------------------------------
(* The abort of the batch.                                                  *)

LEMMA InitAbort == Init => AbortInv
  BY DEF Init, AbortInv

\* What AbortInv says of a call while the TaskGroup cancels its tasks.
Leaves(c) == pc[c] \in Ended \/ c \in hit \/ (pc[c] = "leaving" /\ verdict[c] = "aborted")

\* A step of one call that has not been cancelled keeps the rest of AbortInv.
LEMMA OthersAbort ==
  ASSUME TypeOK, AbortInv, NEW c \in Calls, batch # "over", batch' = batch,
         hit' \subseteq hit, hit \ {c} \subseteq hit',
         \A d \in Calls \ {c} : pc'[d] = pc[d] /\ verdict'[d] = verdict[d],
         batch = "aborting" => Leaves(c)'
  PROVE  AbortInv'
<1>1. batch = "running" => hit' = {}
  BY DEF AbortInv
<1>2. batch = "aborting" => \A d \in Calls : Leaves(d)'
  BY DEF AbortInv, Leaves
<1> QED
  BY <1>1, <1>2 DEF AbortInv, Leaves, TypeOK

LEMMA EndWaitAborted ==
  ASSUME TypeOK, NEW c \in Calls, EndWait(c, "aborted")
  PROVE  Leaves(c)'
<1>1. CASE ActOn(c, "aborted")
  BY <1>1, ActOnFacts, EndWaitFacts DEF Quits, Leaves
<1>2. CASE pc'[c] = "leaving" /\ verdict'[c] = "aborted"
  BY <1>2 DEF Leaves
<1> QED
  BY <1>1, <1>2, EndWaitFacts

LEMMA StepAbort == TypeOK /\ AbortInv /\ [Next]_vars => AbortInv'
<1> SUFFICES ASSUME TypeOK, AbortInv, [Next]_vars PROVE AbortInv'
  OBVIOUS
<1>1. CASE UNCHANGED vars
  BY <1>1 DEF vars, rows, tasks, AbortInv, AllEnded, ResultOf
\* A call that has not ended and has not been cancelled: nothing was aborted,
\* unless it is leaving on account of that.
<1> DEFINE Free(c) == pc[c] \notin Ended /\ c \notin hit
<1>a. ASSUME NEW c \in Calls, Free(c)
      PROVE  /\ batch # "over"
             /\ batch = "aborting" => pc[c] = "leaving" /\ verdict[c] = "aborted"
  BY <1>a DEF AbortInv, AllEnded
<1>2. ASSUME NEW c \in Calls, Proceed(c) PROVE AbortInv'
  <2>1. batch = "running"
    BY <1>2, <1>a DEF Proceed, TypeOK
  <2> QED
    BY <1>2, <2>1 DEF Proceed, AbortInv
<1>3. ASSUME NEW c \in Calls, ToolReturns(c) PROVE AbortInv'
  BY <1>3, <1>a DEF ToolReturns, AbortInv, TypeOK
<1>4. ASSUME NEW c \in Calls, ToolCancelled(c) PROVE AbortInv'
  BY <1>4, <1>a DEF ToolCancelled, AbortInv, TypeOK
<1>5. ASSUME NEW c \in Calls, Ask(c) PROVE AbortInv'
  BY <1>5, <1>a DEF Ask, AbortInv, TypeOK
<1>6. ASSUME NEW c \in Calls, AskBlocked(c) PROVE AbortInv'
  BY <1>6, <1>a DEF AskBlocked, AbortInv, TypeOK
<1>7. ASSUME NEW c \in Calls, Wake(c) PROVE AbortInv'
  <2>1. PICK v \in WaitEnds(c) : EndWait(c, v)
    BY <1>7 DEF Wake
  <2>2. batch = "running"
    BY <1>7, <1>a DEF Wake, TypeOK
  <2> QED
    BY <2>1, <2>2, WaitEndsVerdicts, EndWaitFacts DEF AbortInv
<1>8. ASSUME NEW c \in Calls, Leave(c) PROVE AbortInv'
  <2>1. batch # "over" /\ (batch = "aborting" => verdict[c] = "aborted")
    BY <1>8, <1>a DEF Leave
  <2>2. batch = "aborting" => Leaves(c)'
    BY <1>8, <2>1, ActOnFacts DEF Leave, Quits, Enters, Queues, Refuses, Leaves
  <2>3. \A d \in Calls \ {c} : pc'[d] = pc[d]
    BY <1>8, ActOnFacts DEF Leave, OnlyMoves
  <2> QED
    BY <1>8, <2>1, <2>2, <2>3, OthersAbort DEF Leave
<1>9. ASSUME NEW c \in Calls, Unwind(c) PROVE AbortInv'
  <2>1. CASE pc[c] = "waiting" /\ EndWait(c, "aborted")
    <3>1. batch # "over"
      BY <2>1 DEF AbortInv, AllEnded
    <3>2. \A d \in Calls \ {c} : pc'[d] = pc[d]
      BY <2>1, EndWaitFacts DEF OnlyMoves
    <3> QED
      BY <2>1, <3>1, <3>2, EndWaitFacts, EndWaitAborted, OthersAbort
  <2>2. CASE /\ Goes(c, "stopped") /\ hit' = hit \ {c}
             /\ UNCHANGED <<rows, needs, verdict, item, batch, gate, around>>
    <3>1. \A d \in Calls : pc[d] \in Ended => pc'[d] \in Ended
      BY <2>2 DEF Goes, TypeOK
    <3>2. CASE batch = "over"
      BY <2>2, <3>1, <3>2 DEF AbortInv, AllEnded, ResultOf, rows
    <3>3. CASE batch # "over"
      BY <2>2, <3>3, OthersAbort DEF Goes, Leaves, TypeOK
    <3> QED
      BY <3>2, <3>3
  <2> QED
    BY <1>9, <2>1, <2>2 DEF Unwind
<1>10. ASSUME NEW c \in Calls, NEW d \in Decisions, Resolve(c, d) PROVE AbortInv'
  BY <1>10 DEF Resolve, tasks, AbortInv, AllEnded, ResultOf
<1>11. ASSUME NEW host \in BOOLEAN, Abort(host) PROVE AbortInv'
  BY <1>11 DEF Abort, AbortInv
<1>12. CASE Record
  BY <1>12 DEF Record, AbortInv, AllEnded, ResultOf, TypeOK
<1>13. CASE Cancel
  BY <1>13 DEF Cancel, rows, tasks, AbortInv, AllEnded, ResultOf
<1>14. CASE OtherRequest
  BY <1>14 DEF OtherRequest, rows, tasks, AbortInv, AllEnded, ResultOf
<1> QED
  BY <1>1, <1>2, <1>3, <1>4, <1>5, <1>6, <1>7, <1>8, <1>9, <1>10, <1>11, <1>12, <1>13, <1>14
     DEF Next, CallSteps

-----------------------------------------------------------------------------
(* The theorems.                                                            *)

\* In every reachable state a call that is about to run carries its user's
\* consent, its item says how far it is, and the group's abort has reached it.
THEOREM Invariance == Spec => []IndInv
<1>1. Init => IndInv
  BY InitTypes, InitConsent, InitEffects, InitAbort DEF IndInv, Consent
<1>2. IndInv /\ [Next]_vars => IndInv'
  BY StepTypes, StepConsent, StepEffects, StepAbort DEF IndInv, Consent
<1> QED
  BY <1>1, <1>2, PTL DEF Spec

\* Rows, items, futures and tasks keep to the values the code gives them.
THEOREM TypeCorrectness == Spec => []TypeOK
<1>1. IndInv => TypeOK
  BY DEF IndInv
<1> QED
  BY <1>1, Invariance, PTL

\* The tool of a call that needs approval is entered only after its user
\* accepted it in time, whatever is cancelled meanwhile.
THEOREM ConsentFirst == Spec => []ConsentBeforeEffect
<1>1. IndInv => ConsentBeforeEffect
  BY DEF IndInv
<1> QED
  BY <1>1, Invariance, PTL

\* A row that says rejected or expired is a tool that was never entered.
THEOREM RefusalHolds == Spec => []RefusedNeverRan
<1>1. IndInv => RefusedNeverRan
  <2> SUFFICES ASSUME IndInv, NEW c \in Calls, rec[c] \in {"rejected", "expired"}
               PROVE  c \notin started
    BY DEF RefusedNeverRan
  <2>1. batch = "over"
    BY DEF IndInv, EffectInv
  <2>2. item[c] = rec[c]
    BY <2>1 DEF IndInv, AbortInv, ResultOf
  <2> QED
    BY <2>2 DEF IndInv, EffectInv
<1> QED
  BY <1>1, Invariance, PTL

\* When the batch is over, every row is settled, with the result of its call if
\* it has one.
THEOREM Settlement == Spec => []EveryCallSettled
<1>1. IndInv => EveryCallSettled
  BY DEF IndInv, AbortInv, ResultOf, EveryCallSettled
<1> QED
  BY <1>1, Invariance, PTL

\* Once the group cancels its tasks, no tool is entered and no user is asked.
LEMMA AbortedStep ==
  ASSUME IndInv, [Next]_vars, batch = "aborting"
  PROVE  started' \subseteq started /\ pending' \subseteq pending
<1>1. TypeOK
  BY DEF IndInv
<1> DEFINE Free(c) == pc[c] \notin Ended /\ c \notin hit
<1>a. ASSUME NEW c \in Calls, Free(c)
      PROVE  pc[c] = "leaving" /\ verdict[c] = "aborted"
  BY <1>a DEF IndInv, AbortInv
<1>b. ASSUME NEW c \in Calls, ActOn(c, "aborted")
      PROVE  started' = started
  BY <1>1, <1>b, ActOnFacts DEF Quits
<1>2. CASE UNCHANGED vars
  BY <1>2 DEF vars, gate, around
<1>3. ASSUME NEW c \in Calls, Proceed(c) \/ Ask(c) \/ AskBlocked(c) \/ Wake(c)
      PROVE  FALSE
  BY <1>3, <1>a DEF Proceed, Ask, AskBlocked, Wake
<1>4. ASSUME NEW c \in Calls, ToolReturns(c) \/ ToolCancelled(c)
      PROVE  UNCHANGED <<started, pending>>
  BY <1>4 DEF ToolReturns, ToolCancelled, gate, around
<1>5. ASSUME NEW c \in Calls, Leave(c)
      PROVE  started' = started /\ pending' \subseteq pending
  BY <1>5, <1>a, <1>b DEF Leave, Forget
<1>6. ASSUME NEW c \in Calls, Unwind(c)
      PROVE  started' = started /\ pending' \subseteq pending
  BY <1>1, <1>6, <1>b, EndWaitFacts DEF Unwind, gate, around
<1>7. ASSUME NEW c \in Calls, NEW d \in Decisions, Resolve(c, d)
      PROVE  UNCHANGED <<started, pending>>
  BY <1>7 DEF Resolve, around
<1>8. ASSUME (\E host \in BOOLEAN : Abort(host)) \/ Record \/ Cancel \/ OtherRequest
      PROVE  UNCHANGED <<started, pending>>
  BY <1>8 DEF Abort, Record, Cancel, OtherRequest, gate, around
<1> QED
  BY <1>2, <1>3, <1>4, <1>5, <1>6, <1>7, <1>8 DEF Next, CallSteps

\* So the abort of a batch stops it, in every behaviour.
THEOREM AbortHolds == Spec => AbortStopsBatch
<1>1. IndInv /\ [Next]_vars
        => [batch = "aborting" => started' \subseteq started /\ pending' \subseteq pending]_vars
  BY AbortedStep
<1> QED
  BY <1>1, Invariance, PTL DEF Spec, AbortStopsBatch
=============================================================================
