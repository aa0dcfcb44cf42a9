-------------------------- MODULE RunExecutor_proofs --------------------------
(***************************************************************************)
(* Proofs about RunExecutor, for every set of tools and all thresholds.    *)
(* The operators on [e, x] are taken one at a time: each lemma says what   *)
(* one of them makes of a typed state, and Good is the inductive           *)
(* invariant, by the point at which the execution is suspended.            *)
(***************************************************************************)
EXTENDS RunExecutor, TLAPS

States == [e : Executors, x : Runs]

\* No end has been announced yet, but for those of stops before a revival.
Unannounced(s) == ~s.x.rejected /\ (s.x.notice = "stop" => s.x.revivals > 0)

\* What the announcement says of an end.
Announced(s) ==
    /\ s.x.outcome \in HardStops => s.x.notice = "stop" \/ s.x.rejected
    /\ s.x.notice = "stop" => s.x.outcome \in HardStops \/ s.x.revivals > 0

\* What the two observers have recorded of the turns they have seen.
Recorded(s) ==
    /\ s.e.signature # {} <=> s.e.emitted
    /\ s.e.emitted => s.x.stuck
    /\ s.x.stuck => s.e.emitted \/ s.e.level # "none"
    /\ s.e.level # "none" => s.x.longest >= 2

Observed(s) == Recorded(s) /\ (s.e.emitted <=> Repeated(s.e.memory) # {})

\* execute() between two turns, and when it ends the run
Ending(s) == s \in States /\ s.e.active /\ s.x.turn \notin OpenTurns /\ ~s.x.rejected
Between(s) == Ending(s) /\ Unannounced(s)

Over(s) ==
    /\ s.x.status \in Terminal /\ s.x.turn \notin OpenTurns /\ ~s.e.active
    /\ s.x.status = "completed" => Announced(s)

Verifying(s) ==
    /\ s.e.active /\ s.x.turn \notin OpenTurns
    /\ Announced(s) /\ ~s.x.rejected

Turning(s) ==
    /\ s.e.active /\ (s.x.turn \in OpenTurns <=> s.x.pc # "compacting")
    /\ Unannounced(s) /\ Observed(s)

Idle(s) ==
    /\ ~s.e.active /\ s.x.turn \notin OpenTurns
    /\ Unannounced(s) /\ ~s.x.stuck

Good(s) ==
    /\ s \in States
    /\ s.x.pc = "over" => Over(s)
    /\ s.x.pc = "verifying" => Verifying(s)
    /\ s.x.pc \in InTurn => Turning(s)
    /\ s.x.pc = "idle" => Idle(s)

IndInv == owner \in {"gateway", "worker", "kernel"} /\ enforced \in BOOLEAN /\ Good(State)

-----------------------------------------------------------------------------
(* The state and its parts.                                                 *)

LEMMA StateTyped ==
    ASSUME ex \in Executors, run \in Runs
    PROVE  State \in States /\ State.e = ex /\ State.x = run
BY DEF State, States

LEMMA Announcing ==
    ASSUME NEW s \in States, NEW reason \in Reasons, NEW willStop \in BOOLEAN
    PROVE  LET a == Announce(s, reason, willStop)
           IN  /\ a \in States
               /\ a.x = [s.x EXCEPT !.notice = a.x.notice]
               /\ a.e = [s.e EXCEPT !.escalated = a.e.escalated]
               /\ willStop => a.x.notice = "stop"
               /\ ~willStop => a.x.notice \in {s.x.notice, "advice"}
<1> DEFINE a == Announce(s, reason, willStop)
           n == IF willStop THEN "stop" ELSE "advice"
<1>1. s.e \in Executors /\ s.x \in Runs /\ s = [e |-> s.e, x |-> s.x]
  BY DEF States
<1>2. CASE reason \in s.e.escalated /\ ~willStop
  <2>1. a = s
    BY <1>2 DEF Announce
  <2>2. s.x = [s.x EXCEPT !.notice = s.x.notice] /\ s.e = [s.e EXCEPT !.escalated = s.e.escalated]
    BY <1>1 DEF Executors, Runs
  <2> QED BY <1>2, <2>1, <2>2
<1>3. CASE ~(reason \in s.e.escalated /\ ~willStop)
  <2>1. a.e = [s.e EXCEPT !.escalated = s.e.escalated \cup {reason}]
    BY <1>1, <1>3 DEF Announce
  <2>2. a.x = [s.x EXCEPT !.notice = n]
    BY <1>1, <1>3 DEF Announce
  <2>3. a = [e |-> a.e, x |-> a.x]
    BY <1>1, <1>3 DEF Announce
  <2>4. a.e \in Executors /\ a.e.escalated = s.e.escalated \cup {reason}
    BY <1>1, <2>1 DEF Executors
  <2>5. a.x \in Runs /\ a.x.notice = n
    BY <1>1, <2>2 DEF Runs
  <2> QED BY <2>1, <2>2, <2>3, <2>4, <2>5 DEF States
<1> QED BY <1>2, <1>3

LEMMA Leaving ==
    ASSUME NEW s \in States, NEW status \in Statuses
    PROVE  LET l == Leave(s, status)
           IN  /\ l \in States
               /\ l.x = [s.x EXCEPT !.pc = "over", !.status = status,
                                    !.clock = "early", !.mark = "early"]
               /\ l.e = [s.e EXCEPT !.active = FALSE]
<1> DEFINE l == Leave(s, status)
<1>1. s.e \in Executors /\ s.x \in Runs /\ s = [e |-> s.e, x |-> s.x]
  BY DEF States
<1>2. l.e = [s.e EXCEPT !.active = FALSE]
  BY DEF Leave
<1>3. l.x = [s.x EXCEPT !.pc = "over", !.status = status, !.clock = "early", !.mark = "early"]
  BY DEF Leave
<1>4. l = [e |-> l.e, x |-> l.x]
  BY DEF Leave
<1>5. l.e \in Executors
  BY <1>1, <1>2 DEF Executors
<1>6. l.x \in Runs
  BY <1>1, <1>3 DEF Runs
<1> QED BY <1>2, <1>3, <1>4, <1>5, <1>6 DEF States

LEMMA Finishing ==
    ASSUME NEW s, Ending(s), NEW outcome \in HardStops \cup {"delivered"}, NEW verify \in BOOLEAN,
           outcome \in HardStops => s.x.notice = "stop",
           s.x.notice = "stop" => outcome \in HardStops \/ s.x.revivals > 0
    PROVE  Good(Finish(s, outcome, verify))
<1> DEFINE t == [s EXCEPT !.x = [s.x EXCEPT !.outcome = outcome]]
           v == [t EXCEPT !.x = [t.x EXCEPT !.pc = "verifying"]]
<1>1. s.e \in Executors /\ s.x \in Runs /\ s = [e |-> s.e, x |-> s.x]
  BY DEF Ending, States
<1>2. t.e = s.e /\ t.x = [s.x EXCEPT !.outcome = outcome] /\ t = [e |-> t.e, x |-> t.x]
  BY <1>1
<1>3. t.x \in Runs
  BY <1>1, <1>2 DEF Runs
<1>4. t \in States
  BY <1>1, <1>2, <1>3 DEF States
<1>5. /\ t.x.outcome = outcome /\ t.x.notice = s.x.notice /\ t.x.rejected = s.x.rejected
      /\ t.x.revivals = s.x.revivals /\ t.x.turn = s.x.turn
  BY <1>1, <1>2 DEF Runs
<1>6. Announced(t) /\ ~t.x.rejected /\ t.x.turn \notin OpenTurns /\ t.e.active
  BY <1>2, <1>5 DEF Announced, Ending
<1>7. CASE verify
  <2> HIDE DEF t
  <2>1. v.e = t.e /\ v.x = [t.x EXCEPT !.pc = "verifying"] /\ v = [e |-> v.e, x |-> v.x]
    BY <1>2
  <2>2. v.x \in Runs
    BY <1>3, <2>1 DEF Runs, Suspended
  <2>3. /\ v.x.pc = "verifying" /\ v.x.turn = t.x.turn /\ v.x.rejected = t.x.rejected
        /\ v.x.outcome = t.x.outcome /\ v.x.notice = t.x.notice /\ v.x.revivals = t.x.revivals
    BY <1>3, <2>1 DEF Runs
  <2>4. v \in States
    BY <1>1, <1>2, <1>4, <2>1, <2>2 DEF States
  <2>5. Good(v)
    BY <1>6, <2>1, <2>3, <2>4 DEF Good, Verifying, Announced, InTurn
  <2> USE DEF t
  <2> QED BY <1>7, <2>5 DEF Finish
<1>8. CASE ~verify
  <2> DEFINE l == Leave(t, "completed")
  <2>1. /\ l \in States /\ l.e = [t.e EXCEPT !.active = FALSE]
        /\ l.x = [t.x EXCEPT !.pc = "over", !.status = "completed",
                             !.clock = "early", !.mark = "early"]
    BY <1>4, Leaving DEF Statuses
  <2>2. ~l.e.active
    BY <1>1, <1>2, <2>1 DEF Executors
  <2>3. /\ l.x.pc = "over" /\ l.x.status = "completed" /\ l.x.turn = t.x.turn
        /\ l.x.rejected = t.x.rejected /\ l.x.outcome = t.x.outcome
        /\ l.x.notice = t.x.notice /\ l.x.revivals = t.x.revivals
    BY <1>3, <2>1 DEF Runs
  <2>4. Good(l)
    BY <1>6, <2>1, <2>2, <2>3 DEF Good, Over, Announced, InTurn, Terminal
  <2> QED BY <1>8, <2>4 DEF Finish
<1> QED BY <1>7, <1>8

LEMMA HardStopping ==
    ASSUME NEW s, Ending(s), NEW reason \in HardStops, NEW verify \in BOOLEAN
    PROVE  Good(HardStop(s, reason, verify))
<1> DEFINE a == Announce(s, reason, TRUE)
<1>1. s \in States /\ reason \in Reasons
  BY DEF Ending, HardStops, Reasons
<1>2. /\ a \in States /\ a.x = [s.x EXCEPT !.notice = a.x.notice]
      /\ a.e = [s.e EXCEPT !.escalated = a.e.escalated] /\ a.x.notice = "stop"
  BY <1>1, Announcing
<1>3. a.x.turn = s.x.turn /\ a.x.rejected = s.x.rejected /\ a.e.active = s.e.active
  BY <1>1, <1>2 DEF States, Runs, Executors
<1>4. Finish(a, reason, verify) = HardStop(s, reason, verify)
  BY DEF HardStop
<1>5. Ending(a)
  BY <1>2, <1>3 DEF Ending
<1> HIDE DEF a
<1>6. Good(Finish(a, reason, verify))
  BY <1>2, <1>5, Finishing
<1> QED BY <1>4, <1>6

LEMMA LevelsOrdered == StopAfter \in Nat /\ StopAfter > 2
BY ThresholdsAssumption

LEMMA NextTurning ==
    ASSUME NEW s, Between(s), Observed(s), NEW verify \in BOOLEAN
    PROVE  Good(NextTurn(s, verify))
<1>1. CASE s.x.clock = "wall"
  <2>1. Good(HardStop(s, "time", verify))
    BY HardStopping DEF Between, HardStops
  <2> QED BY <1>1, <2>1 DEF NextTurn
<1>2. CASE s.x.clock # "wall" /\ owner = "kernel" /\ s.x.dear
  <2>1. Good(HardStop(s, "cost", verify))
    BY HardStopping DEF Between, HardStops
  <2> QED BY <1>2, <2>1 DEF NextTurn
<1>3. CASE s.x.clock # "wall" /\ ~(owner = "kernel" /\ s.x.dear)
  <2> DEFINE n == [s EXCEPT !.x = [s.x EXCEPT !.mark = s.x.clock, !.pc = "compacting"]]
  <2>1. s.e \in Executors /\ s.x \in Runs /\ s = [e |-> s.e, x |-> s.x]
    BY DEF Between, Ending, States
  <2>2. /\ n.e = s.e /\ n = [e |-> n.e, x |-> n.x]
        /\ n.x = [s.x EXCEPT !.mark = s.x.clock, !.pc = "compacting"]
    BY <2>1
  <2>3. n.x \in Runs
    BY <2>1, <2>2 DEF Runs, Suspended, InTurn
  <2>4. n \in States
    BY <2>1, <2>2, <2>3 DEF States
  <2>5. /\ n.x.pc = "compacting" /\ n.x.turn = s.x.turn /\ n.x.rejected = s.x.rejected
        /\ n.x.notice = s.x.notice /\ n.x.revivals = s.x.revivals
        /\ n.x.stuck = s.x.stuck /\ n.x.longest = s.x.longest
    BY <2>1, <2>2 DEF Runs
  <2>6. Unannounced(n) /\ Observed(n) /\ n.e.active /\ n.x.turn \notin OpenTurns
    BY <2>2, <2>5 DEF Between, Ending, Unannounced, Observed, Recorded
  <2>7. Good(n)
    BY <2>4, <2>5, <2>6 DEF Good, Turning, InTurn
  <2> QED BY <1>3, <2>7 DEF NextTurn
<1> QED BY <1>1, <1>2, <1>3

LEMMA Enforcing ==
    ASSUME NEW s, Between(s), Observed(s), NEW verify \in BOOLEAN
    PROVE  Good(Enforce(s, verify))
<1> DEFINE level == IF s.x.longest >= StopAfter THEN "stop"
                    ELSE IF s.x.longest >= 2 THEN "restrict" ELSE "none"
           t == IF level = s.e.level THEN s
                ELSE [e |-> [s.e EXCEPT !.level = level],
                      x |-> [s.x EXCEPT !.stuck = (level # "none")]]
<1>1. s.e \in Executors /\ s.x \in Runs /\ s = [e |-> s.e, x |-> s.x]
  BY DEF Between, Ending, States
<1>2. level \in {"none", "restrict", "stop"}
  OBVIOUS
<1>3. level # "none" => s.x.longest >= 2
  BY LevelsOrdered, <1>1 DEF Runs
<1>4. s.e.level # "none" => level # "none"
  BY LevelsOrdered, <1>1 DEF Runs, Observed, Recorded
<1> HIDE DEF level
<1>5. Between(t) /\ Observed(t)
  <2>1. CASE level = s.e.level
    BY <2>1
  <2>2. CASE level # s.e.level
    <3>1. t.e = [s.e EXCEPT !.level = level] /\ t.x = [s.x EXCEPT !.stuck = (level # "none")]
      BY <2>2
    <3>2. t = [e |-> t.e, x |-> t.x]
      BY <2>2
    <3> HIDE DEF t
    <3>3. level # "none"
      BY <1>2, <1>4, <2>2
    <3>4. /\ t.e \in Executors /\ t.e.level = level /\ t.e.active = s.e.active
          /\ t.e.emitted = s.e.emitted /\ t.e.signature = s.e.signature
          /\ t.e.memory = s.e.memory
      BY <1>1, <1>2, <3>1 DEF Executors
    <3>5. /\ t.x \in Runs /\ t.x.stuck = TRUE /\ t.x.turn = s.x.turn
          /\ t.x.rejected = s.x.rejected /\ t.x.notice = s.x.notice
          /\ t.x.revivals = s.x.revivals /\ t.x.longest = s.x.longest
      BY <1>1, <3>1, <3>3 DEF Runs
    <3>6. t \in States
      BY <3>2, <3>4, <3>5 DEF States
    <3> QED BY <1>3, <3>3, <3>4, <3>5, <3>6 DEF Between, Ending, Unannounced, Observed, Recorded
  <2> QED BY <2>1, <2>2
<1>6. Enforce(s, verify) =
        IF level = "stop" THEN HardStop(t, "no_progress", verify) ELSE NextTurn(t, verify)
  BY DEF Enforce, level
<1> HIDE DEF t
<1>7. Good(HardStop(t, "no_progress", verify))
  BY <1>5, HardStopping DEF Between, HardStops
<1>8. Good(NextTurn(t, verify))
  BY <1>5, NextTurning
<1> QED BY <1>6, <1>7, <1>8

LEMMA Observing ==
    ASSUME NEW s, Between(s), Recorded(s)
    PROVE  Between(ObserveFailures(s)) /\ Observed(ObserveFailures(s))
<1> DEFINE repeated == Repeated(s.e.memory)
           signature == {<<t, s.e.memory[t] >= RestrictAfter>> : t \in repeated}
           o == ObserveFailures(s)
<1>1. s.e \in Executors /\ s.x \in Runs /\ s = [e |-> s.e, x |-> s.x]
  BY DEF Between, Ending, States
<1>2. repeated \subseteq Tools
  BY DEF Repeated
<1>3. signature \in SUBSET (Tools \X BOOLEAN)
  <2>1. \A t \in repeated : (s.e.memory[t] >= RestrictAfter) \in BOOLEAN
    BY <1>1, <1>2, ThresholdsAssumption DEF Executors
  <2> HIDE DEF repeated
  <2>2. \A t \in repeated : <<t, s.e.memory[t] >= RestrictAfter>> \in Tools \X BOOLEAN
    BY <1>2, <2>1
  <2>3. \A pair \in signature : pair \in Tools \X BOOLEAN
    BY <2>2
  <2> QED BY <2>3
<1>4. signature = {} <=> repeated = {}
  OBVIOUS
<1>5. CASE repeated = {} /\ s.e.emitted
  <2>1. /\ o.e = [s.e EXCEPT !.emitted = FALSE, !.signature = {}, !.escalated = {}]
        /\ o.x = [s.x EXCEPT !.stuck = FALSE] /\ o = [e |-> o.e, x |-> o.x]
    BY <1>5 DEF ObserveFailures
  <2> HIDE DEF o
  <2>2. /\ o.e \in Executors /\ o.e.active = s.e.active /\ o.e.emitted = FALSE
        /\ o.e.signature = {} /\ o.e.memory = s.e.memory /\ o.e.level = s.e.level
    BY <1>1, <2>1 DEF Executors
  <2>3. /\ o.x \in Runs /\ o.x.stuck = FALSE /\ o.x.turn = s.x.turn
        /\ o.x.rejected = s.x.rejected /\ o.x.notice = s.x.notice
        /\ o.x.revivals = s.x.revivals /\ o.x.longest = s.x.longest
    BY <1>1, <2>1 DEF Runs
  <2>4. o \in States
    BY <2>1, <2>2, <2>3 DEF States
  <2>5. Between(o) /\ Observed(o)
    BY <1>5, <2>2, <2>3, <2>4 DEF Between, Ending, Unannounced, Observed, Recorded
  <2> QED BY <2>5 DEF o
<1>6. CASE ~(repeated = {} /\ s.e.emitted) /\ (repeated = {} \/ signature = s.e.signature)
  <2>1. o = s
    BY <1>6 DEF ObserveFailures
  <2>2. s.e.emitted <=> repeated # {}
    BY <1>4, <1>6 DEF Recorded
  <2> QED BY <2>1, <2>2 DEF Observed
<1>7. CASE ~(repeated = {} \/ signature = s.e.signature)
  <2>1. /\ o.e = [s.e EXCEPT !.emitted = TRUE, !.signature = signature]
        /\ o.x = [s.x EXCEPT !.stuck = TRUE] /\ o = [e |-> o.e, x |-> o.x]
    BY <1>7 DEF ObserveFailures
  <2> HIDE DEF o, signature
  <2>2. /\ o.e \in Executors /\ o.e.active = s.e.active /\ o.e.emitted = TRUE
        /\ o.e.signature = signature /\ o.e.memory = s.e.memory /\ o.e.level = s.e.level
    BY <1>1, <1>3, <2>1 DEF Executors
  <2>3. /\ o.x \in Runs /\ o.x.stuck = TRUE /\ o.x.turn = s.x.turn
        /\ o.x.rejected = s.x.rejected /\ o.x.notice = s.x.notice
        /\ o.x.revivals = s.x.revivals /\ o.x.longest = s.x.longest
    BY <1>1, <2>1 DEF Runs
  <2>4. o \in States
    BY <2>1, <2>2, <2>3 DEF States
  <2>5. Between(o) /\ Observed(o)
    BY <1>4, <1>7, <2>2, <2>3, <2>4 DEF Between, Ending, Unannounced, Observed, Recorded
  <2> QED BY <2>5 DEF o
<1> QED BY <1>5, <1>6, <1>7

LEMMA Advising ==
    ASSUME NEW s, Between(s), Observed(s), NEW reason \in Reasons
    PROVE  LET a == Announce(s, reason, FALSE) IN Between(a) /\ Observed(a)
<1> DEFINE a == Announce(s, reason, FALSE)
<1>1. s \in States /\ s.e \in Executors /\ s.x \in Runs
  BY DEF Between, Ending, States
<1>2. /\ a \in States /\ a.x = [s.x EXCEPT !.notice = a.x.notice]
      /\ a.e = [s.e EXCEPT !.escalated = a.e.escalated] /\ a.x.notice \in {s.x.notice, "advice"}
  BY <1>1, Announcing
<1> HIDE DEF a
<1>3. /\ a.e.active = s.e.active /\ a.e.emitted = s.e.emitted /\ a.e.level = s.e.level
      /\ a.e.signature = s.e.signature /\ a.e.memory = s.e.memory
  BY <1>1, <1>2 DEF Executors
<1>4. /\ a.x.stuck = s.x.stuck /\ a.x.turn = s.x.turn /\ a.x.rejected = s.x.rejected
      /\ a.x.revivals = s.x.revivals /\ a.x.longest = s.x.longest
  BY <1>1, <1>2 DEF Runs
<1>5. Between(a) /\ Observed(a)
  BY <1>2, <1>3, <1>4 DEF Between, Ending, Unannounced, Observed, Recorded
<1> QED BY <1>5 DEF a

LEMMA AfterTurning ==
    ASSUME NEW s, Between(s), Recorded(s), NEW delivered \in BOOLEAN,
           NEW exhausted \in BOOLEAN, NEW verify \in BOOLEAN
    PROVE  Good(AfterTurn(s, delivered, exhausted, verify))
<1> DEFINE o == ObserveFailures(s)
           t == Advise(o, exhausted)
<1>1. Between(o) /\ Observed(o)
  BY Observing
<1> HIDE DEF o
<1>2. \/ t = o \/ \E reason \in Reasons : t = Announce(o, reason, FALSE)
  BY DEF Advise, Reasons
<1>3. Between(t) /\ Observed(t)
  BY <1>1, <1>2, Advising
<1> HIDE DEF t
<1>4. Good(Finish(t, "delivered", verify))
  BY <1>3, Finishing DEF Between, Unannounced, HardStops
<1>5. Good(Enforce(t, verify)) /\ Good(NextTurn(t, verify))
  BY <1>3, Enforcing, NextTurning
<1>6. AfterTurn(s, delivered, exhausted, verify) =
        IF delivered THEN Finish(t, "delivered", verify)
        ELSE IF enforced THEN Enforce(t, verify) ELSE NextTurn(t, verify)
  BY DEF AfterTurn, t, o
<1> QED BY <1>4, <1>5, <1>6

LEMMA Signalling ==
    ASSUME NEW s \in States, NEW same \in BOOLEAN
    PROVE  LET g == Signal(s, same)
           IN  /\ g \in States /\ g.e = s.e
               /\ g.x = [s.x EXCEPT !.still = g.x.still, !.longest = g.x.longest]
               /\ g.x.longest >= s.x.longest
<1> DEFINE still == IF same THEN AtMost(s.x.still + 1, StopAfter) ELSE 1
           longest == AtLeast(s.x.longest, still)
           g == Signal(s, same)
<1>1. s.e \in Executors /\ s.x \in Runs /\ s = [e |-> s.e, x |-> s.x]
  BY DEF States
<1>2. still \in 0 .. StopAfter
  BY <1>1, LevelsOrdered DEF Runs, AtMost
<1>3. longest \in 0 .. StopAfter /\ longest >= s.x.longest
  BY <1>1, <1>2, LevelsOrdered DEF Runs, AtLeast
<1>4. /\ g.e = s.e /\ g = [e |-> g.e, x |-> g.x]
      /\ g.x = [s.x EXCEPT !.still = still, !.longest = longest]
  <2>1. g = [s EXCEPT !.x = [s.x EXCEPT !.still = still, !.longest = longest]]
    BY <1>1 DEF Signal
  <2> HIDE DEF g, still, longest
  <2> QED BY <1>1, <2>1
<1> HIDE DEF g, still, longest
<1>5. g.x \in Runs /\ g.x.still = still /\ g.x.longest = longest
  BY <1>1, <1>2, <1>3, <1>4 DEF Runs
<1>6. g \in States
  BY <1>1, <1>4, <1>5 DEF States
<1>7. g.x = [s.x EXCEPT !.still = g.x.still, !.longest = g.x.longest] /\ g.x.longest >= s.x.longest
  BY <1>3, <1>4, <1>5
<1> QED BY <1>4, <1>6, <1>7 DEF g

\* A turn that is over leaves what was recorded of the turns before it.
LEMMA TurnCompleting ==
    ASSUME NEW s \in States, Turning(s), NEW same \in BOOLEAN, NEW dear \in BOOLEAN
    PROVE  LET c == TurnCompleted(s, same, dear)
           IN  Between(c) /\ Recorded(c) /\ c.e = s.e
<1> DEFINE t == [s EXCEPT !.x = [s.x EXCEPT !.turn = "completed", !.dear = s.x.dear \/ dear]]
           c == Signal(t, same)
           d == s.x.dear \/ dear
<1>1. s.e \in Executors /\ s.x \in Runs /\ s = [e |-> s.e, x |-> s.x]
  BY DEF States
<1>2. /\ t.e = s.e /\ t = [e |-> t.e, x |-> t.x] /\ d \in BOOLEAN
      /\ t.x = [s.x EXCEPT !.turn = "completed", !.dear = d]
  <2>1. t = [s EXCEPT !.x = [s.x EXCEPT !.turn = "completed", !.dear = d]]
    BY <1>1
  <2>2. d \in BOOLEAN
    BY <1>1 DEF Runs
  <2> HIDE DEF t, d
  <2> QED BY <1>1, <2>1, <2>2
<1> HIDE DEF t, d
<1>3. /\ t.x \in Runs /\ t.x.turn = "completed" /\ t.x.rejected = s.x.rejected
      /\ t.x.notice = s.x.notice /\ t.x.revivals = s.x.revivals
      /\ t.x.stuck = s.x.stuck /\ t.x.longest = s.x.longest
  BY <1>1, <1>2 DEF Runs, ClosedTurns
<1>4. t \in States
  BY <1>1, <1>2, <1>3 DEF States
<1>5. /\ c \in States /\ c.e = t.e
      /\ c.x = [t.x EXCEPT !.still = c.x.still, !.longest = c.x.longest]
      /\ c.x.longest >= t.x.longest
  BY <1>4, Signalling
<1> HIDE DEF c
<1>6. /\ c.x.turn = "completed" /\ c.x.rejected = s.x.rejected
      /\ c.x.notice = s.x.notice /\ c.x.revivals = s.x.revivals /\ c.x.stuck = s.x.stuck
  BY <1>3, <1>5 DEF Runs
<1>7. c.e = s.e
  BY <1>2, <1>5
<1>8. s.x.longest \in Nat /\ c.x.longest \in Nat /\ c.x.longest >= s.x.longest
  BY <1>1, <1>3, <1>5, LevelsOrdered DEF States, Runs
<1>9. Between(c) /\ Recorded(c)
  BY <1>5, <1>6, <1>7, <1>8
     DEF Turning, Between, Ending, Unannounced, Observed, Recorded, OpenTurns
<1> QED BY <1>7, <1>9 DEF c, t, TurnCompleted

LEMMA Ended ==
    ASSUME NEW s \in States, s.x.turn \notin OpenTurns, NEW status \in {"failed", "cancelled"}
    PROVE  Good(Leave(s, status))
<1> DEFINE l == Leave(s, status)
<1>1. status \in Statuses /\ status \in Terminal /\ status # "completed"
  BY DEF Statuses, Terminal
<1>2. /\ l \in States /\ l.e = [s.e EXCEPT !.active = FALSE]
      /\ l.x = [s.x EXCEPT !.pc = "over", !.status = status, !.clock = "early", !.mark = "early"]
  BY <1>1, Leaving
<1> HIDE DEF l
<1>3. ~l.e.active
  BY <1>2 DEF States, Executors
<1>4. l.x.pc = "over" /\ l.x.status = status /\ l.x.turn = s.x.turn
  BY <1>2 DEF States, Runs
<1>5. Good(l)
  BY <1>1, <1>2, <1>3, <1>4 DEF Good, Over, InTurn
<1> QED BY <1>5 DEF l

LEMMA Closing ==
    ASSUME NEW s \in States, NEW status \in {"failed", "cancelled"}
    PROVE  LET c == CloseTurn(s, status)
           IN  /\ c \in States /\ c.e = s.e /\ c.x.turn \notin OpenTurns
               /\ c.x.rejected = s.x.rejected
<1> DEFINE c == CloseTurn(s, status)
<1>1. s.e \in Executors /\ s.x \in Runs /\ s = [e |-> s.e, x |-> s.x]
  BY DEF States
<1>2. CASE s.x.turn \in OpenTurns
  <2>1. c = [s EXCEPT !.x = [s.x EXCEPT !.turn = status]]
    BY <1>2 DEF CloseTurn
  <2>2. c.e = s.e /\ c.x = [s.x EXCEPT !.turn = status] /\ c = [e |-> c.e, x |-> c.x]
    BY <1>1, <2>1
  <2> HIDE DEF c
  <2>3. c.x \in Runs /\ c.x.turn = status /\ c.x.rejected = s.x.rejected
    BY <1>1, <2>2 DEF Runs, ClosedTurns
  <2>4. c \in States
    BY <1>1, <2>2, <2>3 DEF States
  <2>5. c.x.turn \notin OpenTurns
    BY <2>3 DEF OpenTurns
  <2> QED BY <2>2, <2>3, <2>4, <2>5 DEF c
<1>3. CASE s.x.turn \notin OpenTurns
  BY <1>3 DEF CloseTurn
<1> QED BY <1>2, <1>3

-----------------------------------------------------------------------------
(* The actions.                                                             *)

LEMMA Becoming ==
    ASSUME IndInv, NEW s, Good(s), Becomes(s)
    PROVE  IndInv'
<1>1. State' = s
  BY DEF Becomes, State, Good, States
<1>2. Good(State)'
  BY <1>1 DEF Good, Over, Verifying, Turning, Idle, Announced, Unannounced, Observed, Recorded,
              Repeated, States, Executors, Runs
<1> QED BY <1>2 DEF IndInv, Becomes

LEMMA StateGood ==
    ASSUME IndInv
    PROVE  /\ State \in States /\ State.e = ex /\ State.x = run
           /\ ex \in Executors /\ run \in Runs /\ Good(State)
BY DEF IndInv, Good, State, States

LEMMA Beginning ==
    ASSUME IndInv, run.pc = "idle"
    PROVE  Between(Begin) /\ Observed(Begin)
<1> DEFINE fresh == [FreshExecutor EXCEPT !.active = TRUE]
           begun == [run EXCEPT !.status = "running"]
<1>1. run \in Runs /\ Idle(State) /\ State.e = ex /\ State.x = run
  BY StateGood DEF Good
<1>2. Begin.e = fresh /\ Begin.x = begun /\ Begin = [e |-> fresh, x |-> begun]
  BY DEF Begin
<1>3. NoFailures \in [Tools -> 0 .. RestrictAfter] /\ Repeated(NoFailures) = {}
  BY ThresholdsAssumption DEF NoFailures, Repeated
<1>4. /\ fresh \in Executors /\ fresh.active /\ fresh.signature = {} /\ ~fresh.emitted
      /\ fresh.memory = NoFailures /\ fresh.level = "none"
  BY <1>3 DEF FreshExecutor, Executors
<1>5. /\ begun \in Runs /\ begun.turn = run.turn /\ begun.rejected = run.rejected
      /\ begun.notice = run.notice /\ begun.revivals = run.revivals /\ begun.stuck = run.stuck
  BY <1>1 DEF Runs, Statuses
<1> HIDE DEF fresh, begun
<1>6. Begin \in States
  BY <1>2, <1>4, <1>5 DEF States
<1> QED
  BY <1>1, <1>2, <1>3, <1>4, <1>5, <1>6
     DEF Idle, Between, Ending, Unannounced, Observed, Recorded

LEMMA ExecuteKeeps == IndInv /\ Execute => IndInv'
<1> SUFFICES ASSUME IndInv, Execute PROVE IndInv'
  OBVIOUS
<1>1. Between(Begin) /\ Observed(Begin)
  BY Beginning DEF Execute
<1>2. CASE run.token
  <2>1. Good(Leave(Begin, "cancelled"))
    BY <1>1, Ended DEF Between, Ending
  <2> QED BY <1>2, <2>1, Becoming DEF Execute
<1>3. CASE ~run.token
  <2>1. Good(NextTurn(Begin, FALSE))
    BY <1>1, NextTurning
  <2> QED BY <1>3, <2>1, Becoming DEF Execute
<1> QED BY <1>2, <1>3

LEMMA PreludeRaisesKeeps == IndInv /\ PreludeRaises => IndInv'
<1> SUFFICES ASSUME IndInv, PreludeRaises PROVE IndInv'
  OBVIOUS
<1>1. Good(Leave(Begin, "failed"))
  BY Beginning, Ended DEF PreludeRaises, Between, Ending
<1>2. Good(Leave(State, "failed"))
  BY StateGood, Ended DEF PreludeRaises, Good, Idle
<1> QED BY <1>1, <1>2, Becoming DEF PreludeRaises

LEMMA MovesKeep ==
    ASSUME IndInv, run.pc \in InTurn,
           NEW point \in InTurn \ {"compacting"}, NEW turn \in OpenTurns,
           MovesTo(point, turn)
    PROVE  IndInv'
<1> DEFINE moved == [run EXCEPT !.pc = point, !.turn = turn]
           s == [State EXCEPT !.x = moved]
<1>1. /\ State \in States /\ State.e = ex /\ State.x = run /\ ex \in Executors /\ run \in Runs
      /\ Turning(State)
  BY StateGood DEF Good
<1>2. s = [e |-> ex, x |-> moved]
  BY DEF State
<1>3. /\ moved \in Runs /\ moved.pc = point /\ moved.turn = turn
      /\ moved.rejected = run.rejected /\ moved.notice = run.notice
      /\ moved.revivals = run.revivals /\ moved.stuck = run.stuck /\ moved.longest = run.longest
  BY <1>1 DEF Runs, Suspended
<1> HIDE DEF moved
<1>4. s \in States /\ s.e = ex /\ s.x = moved
  BY <1>1, <1>2, <1>3 DEF States
<1>5. Becomes(s)
  BY DEF MovesTo, moved
<1> HIDE DEF s
<1>6. Turning(s)
  BY <1>1, <1>3, <1>4 DEF Turning, Unannounced, Observed, Recorded
<1>7. Good(s)
  BY <1>3, <1>4, <1>6 DEF Good, InTurn
<1> QED BY <1>5, <1>7, Becoming

LEMMA StepsOfATurnKeep == IndInv /\ (Compacted \/ SlotAcquired \/ ModelCallsTools) => IndInv'
<1>1. ASSUME IndInv, Compacted PROVE IndInv'
  BY <1>1, MovesKeep DEF Compacted, At, InTurn, OpenTurns
<1>2. ASSUME IndInv, SlotAcquired PROVE IndInv'
  BY <1>2, MovesKeep DEF SlotAcquired, At, InTurn, OpenTurns
<1>3. ASSUME IndInv, ModelCallsTools PROVE IndInv'
  BY <1>3, MovesKeep DEF ModelCallsTools, At, InTurn, OpenTurns
<1> QED BY <1>1, <1>2, <1>3

LEMMA ModelAnswersKeeps == IndInv /\ ModelAnswers => IndInv'
<1> SUFFICES ASSUME IndInv, ModelAnswers PROVE IndInv'
  OBVIOUS
<1>1. PICK delivered, same, dear, exhausted, verify \in BOOLEAN :
        Becomes(AfterTurn(TurnCompleted(State, same, dear), delivered, exhausted, verify))
  BY DEF ModelAnswers
<1>2. State \in States /\ Turning(State)
  BY StateGood DEF Good, ModelAnswers, At, InTurn
<1>3. Between(TurnCompleted(State, same, dear)) /\ Recorded(TurnCompleted(State, same, dear))
  BY <1>2, TurnCompleting
<1>4. Good(AfterTurn(TurnCompleted(State, same, dear), delivered, exhausted, verify))
  BY <1>3, AfterTurning
<1> QED BY <1>1, <1>4, Becoming

LEMMA RememberingKeeps ==
    ASSUME NEW s, Between(s), Recorded(s), NEW memory \in [Tools -> 0 .. RestrictAfter]
    PROVE  LET r == Remembering(s, memory) IN Between(r) /\ Recorded(r)
<1> DEFINE r == Remembering(s, memory)
<1>1. s.x \in Runs /\ s.e \in Executors
  BY DEF Between, Ending, States
<1>2. r.e = [s.e EXCEPT !.memory = memory] /\ r.x = s.x /\ r = [e |-> r.e, x |-> r.x]
  BY DEF Remembering
<1> HIDE DEF r
<1>3. /\ r.e \in Executors /\ r.e.active = s.e.active /\ r.e.emitted = s.e.emitted
      /\ r.e.signature = s.e.signature /\ r.e.level = s.e.level
  BY <1>1, <1>2 DEF Executors
<1>4. r \in States
  BY <1>1, <1>2, <1>3 DEF States
<1>5. Between(r) /\ Recorded(r)
  BY <1>2, <1>3, <1>4 DEF Between, Ending, Unannounced, Recorded
<1> QED BY <1>5 DEF r

LEMMA ToolsEndKeeps == IndInv /\ ToolsEnd => IndInv'
<1> SUFFICES ASSUME IndInv, ToolsEnd PROVE IndInv'
  OBVIOUS
<1>1. PICK memory \in [Tools -> 0 .. RestrictAfter] :
      \E terminate, same, dear, exhausted, verify \in BOOLEAN :
        Becomes(AfterTurn(Remembering(TurnCompleted(State, same, dear), memory),
                          terminate, exhausted, verify))
  BY DEF ToolsEnd
<1>2. PICK terminate, same, dear, exhausted, verify \in BOOLEAN :
        Becomes(AfterTurn(Remembering(TurnCompleted(State, same, dear), memory),
                          terminate, exhausted, verify))
  BY <1>1
<1> DEFINE c == TurnCompleted(State, same, dear)
           r == Remembering(c, memory)
<1>3. State \in States /\ Turning(State)
  BY StateGood DEF Good, ToolsEnd, At, InTurn
<1>4. Between(c) /\ Recorded(c)
  BY <1>2, <1>3, TurnCompleting
<1> HIDE DEF c
<1>5. Between(r) /\ Recorded(r)
  BY <1>4, RememberingKeeps
<1> HIDE DEF r
<1>6. Good(AfterTurn(r, terminate, exhausted, verify))
  BY <1>2, <1>5, AfterTurning
<1> QED BY <1>2, <1>6, Becoming DEF r, c

LEMMA WaysOutKeep == IndInv /\ (TurnRaises \/ CancelNoticed \/ HostCancels) => IndInv'
<1> SUFFICES ASSUME IndInv, TurnRaises \/ CancelNoticed \/ HostCancels PROVE IndInv'
  OBVIOUS
<1>1. PICK status \in {"failed", "cancelled"} : Becomes(Leave(CloseTurn(State, status), status))
  BY DEF TurnRaises, CancelNoticed, HostCancels
<1>2. CloseTurn(State, status) \in States /\ CloseTurn(State, status).x.turn \notin OpenTurns
  BY StateGood, Closing
<1>3. Good(Leave(CloseTurn(State, status), status))
  BY <1>2, Ended
<1> QED BY <1>1, <1>3, Becoming

LEMMA TurnTimesOutKeeps == IndInv /\ TurnTimesOut => IndInv'
<1> SUFFICES ASSUME IndInv, TurnTimesOut PROVE IndInv'
  OBVIOUS
<1> DEFINE c == CloseTurn(State, "cancelled")
           Stopped(same) == IF run.turn \in OpenTurns THEN Signal(c, same) ELSE c
<1>1. PICK same, verify \in BOOLEAN :
        Becomes(IF run.clock # "wall" THEN Leave(c, "failed")
                ELSE HardStop(Stopped(same), "time", verify))
  BY DEF TurnTimesOut, Expire
<1>2. State \in States /\ State.e = ex /\ State.x = run /\ Turning(State)
  BY StateGood DEF Good, TurnTimesOut
<1>3. /\ c \in States /\ c.e = ex /\ c.x.turn \notin OpenTurns
      /\ c.x.rejected = run.rejected
  BY <1>2, Closing
<1> HIDE DEF c
<1>4. Good(Leave(c, "failed"))
  BY <1>3, Ended
<1>5. Ending(c)
  BY <1>2, <1>3 DEF Ending, Turning, Unannounced
<1>6. Ending(Signal(c, same))
  <2> DEFINE g == Signal(c, same)
  <2>1. /\ g \in States /\ g.e = c.e
        /\ g.x = [c.x EXCEPT !.still = g.x.still, !.longest = g.x.longest]
    BY <1>3, Signalling
  <2> HIDE DEF g
  <2>2. g.x.turn = c.x.turn /\ g.x.rejected = c.x.rejected
    BY <1>3, <2>1 DEF States, Runs
  <2>3. Ending(g)
    BY <1>5, <2>1, <2>2 DEF Ending
  <2> QED BY <2>3 DEF g
<1>7. Ending(Stopped(same))
  BY <1>5, <1>6
<1> HIDE DEF Stopped
<1>8. Good(HardStop(Stopped(same), "time", verify))
  BY <1>7, HardStopping DEF HardStops
<1> QED BY <1>1, <1>4, <1>8, Becoming

LEMMA VerifiedKeeps == IndInv /\ Verified => IndInv'
<1> SUFFICES ASSUME IndInv, Verified PROVE IndInv'
  OBVIOUS
<1> DEFINE S(failed) == [State EXCEPT !.x = [run EXCEPT !.rejected = failed]]
           A(failed) == IF failed THEN Announce(S(failed), "verification", FALSE) ELSE S(failed)
<1>1. PICK failed \in BOOLEAN : Becomes(Leave(A(failed), "completed"))
  BY DEF Verified
<1>2. /\ State \in States /\ State.e = ex /\ State.x = run /\ ex \in Executors /\ run \in Runs
      /\ Verifying(State)
  BY StateGood DEF Good, Verified, At
<1> DEFINE r == [run EXCEPT !.rejected = failed]
           s == S(failed)
           a == A(failed)
           l == Leave(a, "completed")
<1>3. s = [e |-> ex, x |-> r]
  BY DEF State
<1>4. /\ r \in Runs /\ r.rejected = failed /\ r.turn = run.turn /\ r.outcome = run.outcome
      /\ r.notice = run.notice /\ r.revivals = run.revivals
  BY <1>2 DEF Runs
<1> HIDE DEF r
<1>5. s \in States /\ s.e = ex /\ s.x = r
  BY <1>2, <1>3, <1>4 DEF States
<1> HIDE DEF S
<1>6. /\ a \in States /\ a.x.turn = run.turn /\ a.x.outcome = run.outcome
      /\ a.x.revivals = run.revivals /\ a.x.rejected = failed
      /\ IF failed THEN a.x.notice \in {run.notice, "advice"} ELSE a.x.notice = run.notice
  <2>1. CASE failed
    <3> DEFINE v == Announce(s, "verification", FALSE)
    <3>1. v \in States /\ v.x = [s.x EXCEPT !.notice = v.x.notice] /\ v.x.notice \in {s.x.notice, "advice"}
      BY <1>5, Announcing DEF Reasons
    <3>2. a = v
      BY <2>1
    <3> HIDE DEF v, a
    <3>3. /\ v.x.turn = s.x.turn /\ v.x.outcome = s.x.outcome
          /\ v.x.revivals = s.x.revivals /\ v.x.rejected = s.x.rejected
      BY <1>5, <3>1 DEF States, Runs
    <3> QED BY <1>4, <1>5, <2>1, <3>1, <3>2, <3>3
  <2>2. CASE ~failed
    BY <1>4, <1>5, <2>2
  <2> QED BY <2>1, <2>2
<1> HIDE DEF a
<1>7. /\ l \in States /\ l.e = [a.e EXCEPT !.active = FALSE]
      /\ l.x = [a.x EXCEPT !.pc = "over", !.status = "completed",
                           !.clock = "early", !.mark = "early"]
  BY <1>6, Leaving DEF Statuses
<1> HIDE DEF l
<1>8. ~l.e.active
  BY <1>6, <1>7 DEF States, Executors
<1>9. /\ l.x.pc = "over" /\ l.x.status = "completed" /\ l.x.turn = run.turn
      /\ l.x.rejected = failed /\ l.x.outcome = run.outcome
      /\ l.x.notice = a.x.notice /\ l.x.revivals = run.revivals
  BY <1>6, <1>7 DEF States, Runs
<1>10. Announced(l)
  BY <1>2, <1>6, <1>9 DEF Verifying, Announced
<1>11. Good(l)
  BY <1>2, <1>7, <1>8, <1>9, <1>10 DEF Good, Over, Verifying, InTurn, Terminal
<1> QED BY <1>1, <1>11, Becoming DEF l, a

LEMMA OthersKeep == IndInv /\ (Tick \/ CancelToken \/ Revive \/ NextRun) => IndInv'
<1> SUFFICES ASSUME IndInv, Tick \/ CancelToken \/ Revive \/ NextRun PROVE IndInv'
  OBVIOUS
<1>1. /\ State \in States /\ State.e = ex /\ State.x = run /\ ex \in Executors /\ run \in Runs
      /\ Good(State)
  BY StateGood
<1>2. State' = [e |-> ex', x |-> run'] /\ State'.e = ex' /\ State'.x = run' /\ ex' = ex
      /\ UNCHANGED <<owner, enforced>>
  BY DEF State, Tick, CancelToken, Revive, NextRun
<1> SUFFICES run' \in Runs /\ (run' \in Runs => Good([e |-> ex, x |-> run']))
  <2>1. Becomes([e |-> ex, x |-> run'])
    BY <1>2 DEF Becomes
  <2> QED BY <2>1, Becoming
<1> DEFINE n == [e |-> ex, x |-> run']
<1>3. n.e = ex /\ n.x = run' /\ (run' \in Runs => n \in States)
  BY <1>1 DEF States
<1> HIDE DEF n
<1>4. CASE Tick
  <2>1. /\ run' \in Runs /\ run'.pc = run.pc /\ run'.turn = run.turn
        /\ run'.rejected = run.rejected /\ run'.notice = run.notice
        /\ run'.outcome = run.outcome /\ run'.revivals = run.revivals
        /\ run'.stuck = run.stuck /\ run'.longest = run.longest /\ run.pc \in Suspended
    BY <1>1, <1>4 DEF Tick, Runs
  <2>2. Good(n)
    BY <1>1, <1>3, <2>1
       DEF Good, Verifying, Turning, Announced, Unannounced, Observed, Recorded, Suspended, InTurn
  <2> QED BY <2>1, <2>2 DEF n
<1>5. CASE CancelToken
  <2>1. /\ run' \in Runs /\ run'.pc = run.pc /\ run'.turn = run.turn
        /\ run'.rejected = run.rejected /\ run'.notice = run.notice
        /\ run'.outcome = run.outcome /\ run'.revivals = run.revivals
        /\ run'.stuck = run.stuck /\ run'.longest = run.longest
        /\ run.pc \in Suspended \cup {"idle"}
    <3> DEFINE status == IF ex.active /\ owner # "worker" THEN "cancelling" ELSE run.status
    <3>1. run' = [run EXCEPT !.token = TRUE, !.status = status] /\ run.pc \in Suspended \cup {"idle"}
      BY <1>5 DEF CancelToken
    <3>2. status \in Statuses
      BY <1>1 DEF Runs, Statuses
    <3> HIDE DEF status
    <3> QED BY <1>1, <3>1, <3>2 DEF Runs
  <2>2. Good(n)
    BY <1>1, <1>3, <2>1
       DEF Good, Verifying, Turning, Idle, Announced, Unannounced, Observed, Recorded,
           Suspended, InTurn
  <2> QED BY <2>1, <2>2 DEF n
<1>6. CASE Revive
  <2>1. /\ run' \in Runs /\ run'.pc = "idle" /\ run'.turn = run.turn
        /\ ~run'.rejected /\ ~run'.stuck /\ run'.revivals > 0 /\ run.pc = "over"
    <3> DEFINE revivals == run.revivals + 1
    <3>1. /\ run' = [run EXCEPT !.pc = "idle", !.status = "running", !.token = FALSE,
                                !.outcome = "none", !.stuck = FALSE, !.rejected = FALSE,
                                !.revivals = revivals]
          /\ run.pc = "over"
      BY <1>6 DEF Revive
    <3>2. revivals \in 0 .. MaxRevivals /\ revivals > 0
      BY <1>1, <1>6, MaxRevivalsAssumption DEF Revive, Runs
    <3> HIDE DEF revivals
    <3>3. /\ run'.pc = "idle" /\ run'.turn = run.turn /\ run'.rejected = FALSE
          /\ run'.stuck = FALSE /\ run'.revivals = revivals
      BY <1>1, <3>1 DEF Runs
    <3>4. run' \in Runs
      <4> DEFINE first == [run EXCEPT !.pc = "idle", !.status = "running", !.token = FALSE]
      <4>0. "running" \in Statuses
        BY DEF Statuses
      <4>a. run \in Runs
        BY <1>1
      <4>1. first \in Runs
        BY <4>a, <4>0 DEF Runs
      <4>2. run' = [first EXCEPT !.outcome = "none", !.stuck = FALSE, !.rejected = FALSE,
                                 !.revivals = revivals]
        BY <1>1, <3>1 DEF Runs
      <4> HIDE DEF first
      <4> QED BY <3>2, <4>1, <4>2 DEF Runs
    <3> QED BY <3>1, <3>2, <3>3, <3>4
  <2>2. Good(n)
    BY <1>1, <1>3, <2>1 DEF Good, Over, Idle, Unannounced, InTurn
  <2> QED BY <2>1, <2>2 DEF n
<1>7. CASE NextRun
  <2>1. /\ run' \in Runs /\ run'.pc = "idle" /\ run'.turn = "none"
        /\ ~run'.rejected /\ run'.notice = "none" /\ ~run'.stuck /\ run.pc = "over"
    BY <1>7, ThresholdsAssumption, MaxRevivalsAssumption
       DEF NextRun, FreshRun, Runs, Statuses, ClosedTurns
  <2>2. Good(n)
    BY <1>1, <1>3, <2>1 DEF Good, Over, Idle, Unannounced, InTurn, OpenTurns
  <2> QED BY <2>1, <2>2 DEF n
<1> QED BY <1>4, <1>5, <1>6, <1>7

LEMMA InitInductive == Init => IndInv
<1> SUFFICES ASSUME Init PROVE IndInv
  OBVIOUS
<1>1. NoFailures \in [Tools -> 0 .. RestrictAfter]
  BY ThresholdsAssumption DEF NoFailures
<1>2. ex \in Executors /\ ~ex.active
  BY <1>1 DEF Init, FreshExecutor, Executors
<1>3. /\ run \in Runs /\ run.pc = "idle" /\ run.turn = "none" /\ ~run.rejected
      /\ run.notice = "none" /\ ~run.stuck
  BY ThresholdsAssumption, MaxRevivalsAssumption DEF Init, FreshRun, Runs, Statuses, ClosedTurns
<1>4. Good(State)
  BY <1>2, <1>3, StateTyped DEF Good, Idle, Unannounced, InTurn, OpenTurns
<1> QED BY <1>4 DEF IndInv, Init

LEMMA StutterKeeps == IndInv /\ UNCHANGED vars => IndInv'
<1> SUFFICES ASSUME IndInv, UNCHANGED vars PROVE IndInv'
  OBVIOUS
<1>1. Becomes(State)
  BY StateTyped, StateGood DEF vars, Becomes
<1> QED BY <1>1, StateGood, Becoming

\* IndInv says at each point where execute() is suspended what the executor, the
\* row of the run and its last announcement have to do with each other.
THEOREM ExecutorInvariant == Spec => []IndInv
<1>1. IndInv /\ [Next]_vars => IndInv'
  BY ExecuteKeeps, PreludeRaisesKeeps, StepsOfATurnKeep, ModelAnswersKeeps, ToolsEndKeeps,
     WaysOutKeep, TurnTimesOutKeeps, VerifiedKeeps, OthersKeep, StutterKeeps DEF Next
<1> QED BY InitInductive, <1>1, PTL DEF Spec

\* runner.py: the attributes of the executor and the run keep their types.
THEOREM ExecutorTyped == Spec => []TypeOK
<1>1. IndInv => TypeOK
  BY StateGood DEF IndInv, TypeOK
<1> QED BY ExecutorInvariant, <1>1, PTL

\* runner.py:277-291: every way out of execute() leaves a final row and no open turn.
THEOREM FinalEnds == Spec => []EndsAreFinal
<1>1. IndInv => EndsAreFinal
  <2> SUFFICES ASSUME IndInv PROVE EndsAreFinal
    OBVIOUS
  <2>1. run.pc \in Suspended \cup {"idle", "over"}
    BY StateGood DEF Runs
  <2> QED
    BY <2>1, StateGood
       DEF EndsAreFinal, Good, Over, Verifying, Turning, Idle, Suspended, InTurn
<1> QED BY ExecutorInvariant, <1>1, PTL

\* runner.py:1115-1205: during a turn a run whose tools fail repeatedly is shown as
\* stuck, and one is shown so only while they do or it is at a level of no progress,
\* whatever its executor executed before and though the run was revived.
THEOREM StuckShown == Spec => []StuckIsShown
<1>1. IndInv => StuckIsShown
  BY StateGood DEF StuckIsShown, Good, Turning, Observed, Recorded
<1> QED BY ExecutorInvariant, <1>1, PTL

\* runner.py:1344-1513: the last announcement of a stopped run says that it stops.
THEOREM StopsAnnounced == Spec => []StopsAreAnnounced
<1>1. IndInv => StopsAreAnnounced
  BY StateGood DEF StopsAreAnnounced, Good, Over, Announced
<1> QED BY ExecutorInvariant, <1>1, PTL
=============================================================================
