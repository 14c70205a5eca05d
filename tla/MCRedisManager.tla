--------------------------- MODULE MCRedisManager ---------------------------
(***************************************************************************)
(* RedisManager with three packets, two callers and its two task threads.  *)
(***************************************************************************)
EXTENDS RedisManager, TLC

CONSTANTS p1, p2, p3, c1, c2, t1, t2
=============================================================================
