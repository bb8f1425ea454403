---------------------------- MODULE MCTaskEngine ----------------------------
(* Two tasks of two owners: enough for one task's failure to hit another.  *)
EXTENDS TaskEngine, TLC

CONSTANTS t1, t2, p1, p2

MCOwner == (t1 :> p1) @@ (t2 :> p2)
=============================================================================
