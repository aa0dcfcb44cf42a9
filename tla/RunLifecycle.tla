---------------------------- MODULE RunLifecycle ----------------------------
(***************************************************************************)
(* What runtime v2 promises about runs, without rows, handles, locks or     *)
(* tasks: a lane has one unfinished run at a time, a run is executed once   *)
(* for each time it is created or revived, only a run that stopped for a    *)
(* decision is revived, and an interrupted run is replaced, never executed  *)
(* again.                                                                   *)
(***************************************************************************)
CONSTANTS Runs, Lanes, None

VARIABLES
    stage,  \* how far each run is
    place   \* its lane

vars == <<stage, place>>

Unfinished == {"pending", "live", "interrupted"}

LaneIsFree(l) == \A r \in Runs : place[r] = l => stage[r] \notin Unfinished

Init ==
    /\ stage = [r \in Runs |-> "absent"]
    /\ place = [r \in Runs |-> None]

Move(r, s) == stage' = [stage EXCEPT ![r] = s] /\ UNCHANGED place

\* A message, a regeneration: a new run on a free lane.
Create(r, l) ==
    /\ stage[r] = "absent" /\ LaneIsFree(l)
    /\ stage' = [stage EXCEPT ![r] = "pending"]
    /\ place' = [place EXCEPT ![r] = l]

Begin(r) == stage[r] = "pending" /\ Move(r, "live")

End(r) == stage[r] = "live" /\ \E s \in {"stopped", "ended"} : Move(r, s)

\* Its launch failed: a created run is left behind, a revived one ends.
Abort(r) == stage[r] = "pending" /\ \E s \in {"interrupted", "ended"} : Move(r, s)

\* A hard-stopped run continues as itself.
Revive(r) == stage[r] = "stopped" /\ LaneIsFree(place[r]) /\ Move(r, "pending")

\* The process dies.
Interrupt ==
    /\ stage' = [r \in Runs |-> IF stage[r] \in Unfinished THEN "interrupted" ELSE stage[r]]
    /\ UNCHANGED place

\* The sweep of a restart, or the user giving up on one run.
Close ==
    /\ \E S \in SUBSET {r \in Runs : stage[r] = "interrupted"} :
         stage' = [r \in Runs |-> IF r \in S THEN "ended" ELSE stage[r]]
    /\ UNCHANGED place

\* The user retries an interrupted run: a new run takes its lane.
Replace(r, n) ==
    /\ stage[r] = "interrupted" /\ stage[n] = "absent"
    /\ stage' = [stage EXCEPT ![r] = "ended", ![n] = "pending"]
    /\ place' = [place EXCEPT ![n] = place[r]]

Next ==
    \/ UNCHANGED vars
    \/ \E r \in Runs, l \in Lanes : Create(r, l)
    \/ \E r \in Runs : Begin(r) \/ End(r) \/ Abort(r) \/ Revive(r)
    \/ Interrupt
    \/ Close
    \/ \E r, n \in Runs : Replace(r, n)

Spec == Init /\ [][Next]_vars
=============================================================================
