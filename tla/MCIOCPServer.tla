---------------------------- MODULE MCIOCPServer ----------------------------
(***************************************************************************)
(* Values for the constants of IOCPServer.                                 *)
(***************************************************************************)
EXTENDS IOCPServer, TLC

CONSTANTS w1, w2, k1, k2, p1, p2

MCWorker == {w1, w2}
TwoSockets == {k1, k2}
TwoPackets == {p1, p2}

Symmetry == Permutations(MCWorker) \cup Permutations(TwoSockets)
              \cup Permutations(TwoPackets)
=============================================================================
