------------------------ MODULE MCCustomQueueHistory ------------------------
(***************************************************************************)
(* Values for the constants of CustomQueueHistory. The peak backlog is the *)
(* number of nodes, and any address may be the next one allocated.         *)
(***************************************************************************)
EXTENDS CustomQueueHistory, TLC

CONSTANTS n1, n2, n3, n4, a, b, c

MCNode == {n1, n2, n3, n4}
MCData == {a, b, c}

Symmetry == Permutations(MCNode)
=============================================================================
