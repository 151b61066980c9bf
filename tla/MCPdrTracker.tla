---------------------------- MODULE MCPdrTracker ----------------------------
(* PdrTracker with short intervals and small counters. *)
EXTENDS PdrTracker, TLC

CONSTANTS t1, t2
=============================================================================
