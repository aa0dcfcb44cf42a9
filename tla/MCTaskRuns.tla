----------------------------- MODULE MCTaskRuns -----------------------------
(* Instances of TaskRuns for TLC. *)
EXTENDS TaskRuns, TLC

CONSTANTS t1, t2, r1

MCBackoff == <<0, 1>>
=============================================================================
