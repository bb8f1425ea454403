---------------------------- MODULE MCEventStream ----------------------------
(* Short retention, pages and channels, so that each limit is hit.         *)
EXTENDS EventStream

CONSTANTS t1, t2, s1
=============================================================================
