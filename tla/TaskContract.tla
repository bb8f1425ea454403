---------------------------- MODULE TaskContract ----------------------------
(***************************************************************************)
(* What the task lifecycle promises, without attempts, relationships,      *)
(* store failures or the runtime that keeps them: a task moves along the   *)
(* life cycle, is given a verdict about its work only when the process     *)
(* that does it is gone, and is interrupted only out of reconciliation.    *)
(***************************************************************************)
CONSTANT Tasks

VARIABLES st,    \* lifecycle state of each task, or "absent"
          live   \* tasks whose process runs

cvars == <<st, live>>

Verdicts == {"succeeded", "failed", "cancelled"}

\* Moves that say nothing about how the work ended; a task that fails out of
\* "starting" is a launch that was given up.
Progress ==
  {<<"absent", "created">>, <<"created", "starting">>,
   <<"starting", "running">>, <<"starting", "failed">>,
   <<"starting", "cancelling">>, <<"running", "cancelling">>,
   <<"reconciling", "cancelling">>,
   <<"starting", "reconciling">>, <<"running", "reconciling">>,
   <<"cancelling", "reconciling">>,
   <<"reconciling", "interrupted">>}

\* Verdicts and the states they are given in.
Judgement ==
  {<<"running", "succeeded">>, <<"running", "failed">>,
   <<"cancelling", "cancelled">>, <<"reconciling", "succeeded">>,
   <<"reconciling", "failed">>}

CInit == st = [t \in Tasks |-> "absent"] /\ live = {}

Advance(t) ==
  \E s \in {"created", "starting", "running", "cancelling", "reconciling",
            "failed", "interrupted"} :
    /\ <<st[t], s>> \in Progress
    /\ st' = [st EXCEPT ![t] = s]
    /\ UNCHANGED live

Judge(t) ==
  \E s \in Verdicts :
    /\ <<st[t], s>> \in Judgement
    /\ t \notin live
    /\ st' = [st EXCEPT ![t] = s]
    /\ UNCHANGED live

Spawn(t) ==
  /\ st[t] = "starting" /\ t \notin live
  /\ live' = live \cup {t}
  /\ UNCHANGED st

End(t) ==
  /\ t \in live
  /\ live' = live \ {t}
  /\ UNCHANGED st

CNext == \E t \in Tasks : Advance(t) \/ Judge(t) \/ Spawn(t) \/ End(t)

CSpec == CInit /\ [][CNext]_cvars
=============================================================================
