---------------------------- MODULE MCDelegation ----------------------------
(* Instances of Delegation: two parent runs, each of its own conversation. *)
EXTENDS Delegation, TLC

CONSTANTS p1, p2, v1, v2

MCConvOf == [p \in Parents |-> IF p = p1 THEN v1 ELSE v2]
MCSymmetry == Permutations(Children)
=============================================================================
