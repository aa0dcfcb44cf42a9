---------------------------- MODULE MCRunGateway ----------------------------
(* Instances of RunGateway: one conversation with a main lane and a branch, *)
(* or two conversations with a lane each.                                   *)
EXTENDS RunGateway, FiniteSets, TLC

CONSTANTS c1, c2, l1, l2, r1, h1

MCConvOf == [l \in Lanes |-> c1]
MCTwoConvs == [l \in Lanes |-> IF l = l1 THEN c1 ELSE c2]
MCSymmetry == Permutations(Runs) \cup Permutations(Callers)

\* Bounds of the liveness run, on what clients ask for and on nothing else.

\* Runs, lanes and handlers are interchangeable until the first message is sent.
MCFirstSend == Fresh = Runs /\ status' # status => Send(h1, l1, r1)

\* A request arrives while at most two runs and handlers in flight are counted.
MCInFlight == {c \in Callers : call[c].pc # "idle"}
MCCrowd ==
    (\E c \in Callers \ MCInFlight : call'[c].pc # "idle")
        => Cardinality(MCInFlight) + Cardinality(Runs \ Fresh) <= 2

MCLiveSpec == Init /\ [][Next /\ MCFirstSend /\ MCCrowd]_vars /\ Fairness
=============================================================================
