-------------------------- MODULE TaskEngineProofs --------------------------
(***************************************************************************)
(* Theorems about the task lifecycle of TaskEngine, for every number of    *)
(* tasks and principals and every bound on failures and crashes.           *)
(***************************************************************************)
EXTENDS TaskEngine, TLAPS

-----------------------------------------------------------------------------
(***************************************************************************)
(* Type correctness.                                                       *)
(***************************************************************************)
\* cancel_check runs on behalf of a task.cancel call.
CheckHasCall == pc = "cancel_check" => cancel \in CancelCall

\* A counted failure stays within its bound.
LEMMA FaultType ==
  ASSUME faults \in 0..MaxFaults, NEW out, Fault(out)
  PROVE  faults' \in 0..MaxFaults
  BY BoundsAssumption DEF Fault

\* Returning from an operation, and moving on to a named step, keep the
\* control variables in their types.
LEMMA ReturnType ==
  ASSUME TypeOK, Return
  PROVE  /\ pc' \in Labels /\ cur' \in Tasks /\ todo' \subseteq Tasks
         /\ cancel' \in CancelCall \cup {NoCancel}
         /\ verdict' \in {"none", "kill_ok", "kill_err", "wait_err"}
  BY DEF TypeOK, Return, Labels

LEMMA GotoType ==
  ASSUME TypeOK, NEW label \in Labels, Goto(label)
  PROVE  /\ pc' \in Labels /\ cur' \in Tasks /\ todo' \subseteq Tasks
         /\ cancel' \in CancelCall \cup {NoCancel}
         /\ verdict' \in {"none", "kill_ok", "kill_err", "wait_err"}
  BY DEF TypeOK, Goto

\* A transition writes a task state.
LEMMA TransitionType ==
  ASSUME TypeOK, NEW t \in Tasks, NEW from, NEW to \in TaskState, NEW out,
         transition(t, from, to, out)
  PROVE  st' \in [Tasks -> TaskState \cup {"absent"}]
  BY DEF TypeOK, transition

\* Every step of a launch or a registration keeps the types.
LEMMA LaunchType == TypeOK /\ LaunchStep => TypeOK'
<1> SUFFICES ASSUME TypeOK, LaunchStep PROVE TypeOK' OBVIOUS
<1> USE FaultType, ReturnType, GotoType, TransitionType
        DEF durable, Busy, StatementOutcome, TransactionOutcome, Labels,
            TaskState, AttemptOutcome, ProcessState
<1>1. CASE launch_create BY <1>1 DEF launch_create, create_task, TypeOK
<1>2. CASE launch_starting BY <1>2 DEF launch_starting, start_task, TypeOK
<1>3. CASE start_task_attempt BY <1>3 DEF start_task_attempt, TypeOK
<1>4. CASE spawn BY <1>4 DEF spawn, TypeOK
<1>5. CASE spawn_failed_attempt BY <1>5 DEF spawn_failed_attempt, finish_task_attempt, TypeOK
<1>6. CASE fail_starting_task BY <1>6 DEF fail_starting_task, TypeOK
<1>7. CASE launch_relate BY <1>7 DEF launch_relate, TypeOK
<1>8. CASE unrelated_reap BY <1>8 DEF unrelated_reap, kill_and_reap, TypeOK
<1>9. CASE unrelated_attempt BY <1>9 DEF unrelated_attempt, finish_task_attempt, TypeOK
<1>10. CASE launch_running
  <2>1. PICK out \in TransactionOutcome :
          /\ Fault(out) /\ transition(cur, "starting", "running", out)
          /\ \/ children' = children \cup {cur} /\ Return
             \/ UNCHANGED children /\ Goto("unrunning_reap")
        BY <1>10 DEF launch_running
  <2>2. children' \subseteq Tasks BY <2>1 DEF TypeOK
  <2> QED BY <1>10, <2>1, <2>2 DEF launch_running, TypeOK
<1>11. CASE unrunning_reap BY <1>11 DEF unrunning_reap, kill_and_reap, TypeOK
<1>12. CASE unrunning_relate BY <1>12 DEF unrunning_relate, stop_relationship, TypeOK
<1>13. CASE unrunning_attempt BY <1>13 DEF unrunning_attempt, finish_task_attempt, TypeOK
<1>14. CASE associate_create BY <1>14 DEF associate_create, create_task, TypeOK
<1>15. CASE associate_starting BY <1>15 DEF associate_starting, start_task, TypeOK
<1>16. CASE associate_relate BY <1>16 DEF associate_relate, TypeOK
<1>17. CASE associate_running BY <1>17 DEF associate_running, TypeOK
<1> QED BY <1>1, <1>2, <1>3, <1>4, <1>5, <1>6, <1>7, <1>8, <1>9, <1>10, <1>11, <1>12, <1>13, <1>14, <1>15, <1>16, <1>17 DEF LaunchStep

\* Every step of refresh_all keeps the types.
LEMMA RefreshType == TypeOK /\ RefreshStep => TypeOK'
<1> SUFFICES ASSUME TypeOK, RefreshStep PROVE TypeOK' OBVIOUS
<1> USE FaultType, ReturnType, GotoType, TransitionType
        DEF durable, Busy, StatementOutcome, TransactionOutcome, Labels,
            TaskState, AttemptOutcome, ProcessState
<1>1. ASSUME NEW t \in Tasks, refresh_relate(t) PROVE TypeOK'
      BY <1>1 DEF refresh_relate, stop_relationship, TypeOK
<1>2. CASE refresh_attempt BY <1>2 DEF refresh_attempt, finish_task_attempt, exit_outcome, TypeOK
<1>3. CASE refresh_transition BY <1>3 DEF refresh_transition, refreshed_state, exit_outcome, TypeOK
<1>4. CASE refresh_done BY <1>4 DEF refresh_done, TypeOK
<1> QED BY <1>1, <1>2, <1>3, <1>4 DEF RefreshStep

\* Every step of cancel_task keeps the types.
LEMMA CancelType == TypeOK /\ CheckHasCall /\ CancelStep => TypeOK'
<1> SUFFICES ASSUME TypeOK, CheckHasCall, CancelStep PROVE TypeOK' OBVIOUS
<1> USE FaultType, ReturnType, GotoType, TransitionType
        DEF durable, Busy, StatementOutcome, TransactionOutcome, Labels,
            TaskState, AttemptOutcome, ProcessState
<1>1. CASE cancel_check
  <2>1. cancel.task \in Tasks
        BY <1>1 DEF cancel_check, CheckHasCall, CancelCall
  <2> QED BY <1>1, <2>1 DEF cancel_check, TypeOK
<1>2. CASE cancel_kill BY <1>2 DEF cancel_kill, control, TypeOK
<1>3. CASE cancel_wait BY <1>3 DEF cancel_wait, TypeOK
<1>4. CASE cancel_relate BY <1>4 DEF cancel_relate, stop_relationship, TypeOK
<1>5. CASE cancel_attempt BY <1>5 DEF cancel_attempt, finish_task_attempt, exit_outcome, TypeOK
<1>6. CASE cancel_confirm BY <1>6 DEF cancel_confirm, TypeOK
<1>7. CASE cancel_reconcile BY <1>7 DEF cancel_reconcile, TypeOK
<1>8. CASE cancel_conclude BY <1>8 DEF cancel_conclude, concluded_state, exit_outcome, TypeOK
<1> QED BY <1>1, <1>2, <1>3, <1>4, <1>5, <1>6, <1>7, <1>8 DEF CancelStep

\* Every step of the restart reconciliation keeps the types.
LEMMA RestartType == TypeOK /\ RestartStep => TypeOK'
<1> SUFFICES ASSUME TypeOK, RestartStep PROVE TypeOK' OBVIOUS
<1> USE FaultType, ReturnType, GotoType, TransitionType
        DEF durable, Busy, StatementOutcome, TransactionOutcome, Labels,
            TaskState, AttemptOutcome, ProcessState
<1>1. ASSUME NEW t \in Tasks, restart_reconciling(t) PROVE TypeOK'
      BY <1>1 DEF restart_reconciling, restart_fails, TypeOK
<1>2. CASE restart_interrupt BY <1>2 DEF restart_interrupt, restart_fails, TypeOK
<1>3. CASE restart_done BY <1>3 DEF restart_done, TypeOK
<1> QED BY <1>1, <1>2, <1>3 DEF RestartStep

\* Client requests keep the types.
LEMMA RequestType == TypeOK /\ Request => TypeOK'
<1> SUFFICES ASSUME TypeOK, Request PROVE TypeOK' OBVIOUS
<1> USE DEF durable, Labels
<1>1. ASSUME NEW t \in Tasks,
             launch_managed_process(t) \/ register_associated_execution(t)
      PROVE  TypeOK'
      BY <1>1 DEF launch_managed_process, register_associated_execution, TypeOK
<1>2. CASE refresh_all BY <1>2 DEF refresh_all, collect_completed, TypeOK
<1>3. ASSUME NEW p \in Principals, NEW t \in Tasks, NEW e \in IfStates,
             cancel_task(p, t, e)
      PROVE  TypeOK'
      BY <1>3 DEF cancel_task, collect_completed, CancelCall, TypeOK
<1> QED BY <1>1, <1>2, <1>3 DEF Request

\* Exits, crashes and restarts keep the types.
LEMMA WorldType ==
  ASSUME TypeOK,
         \/ \E t \in Tasks : process_exits(t) \/ process_dies(t)
         \/ portusd_crashes \/ portusd_opens
  PROVE  TypeOK'
<1> USE DEF durable, control, Labels, ProcessState
<1>1. ASSUME NEW t \in Tasks, process_exits(t) \/ process_dies(t) PROVE TypeOK'
      BY <1>1 DEF process_exits, process_dies, TypeOK
<1>2. CASE portusd_crashes
      BY <1>2, ReturnType, BoundsAssumption DEF portusd_crashes, TypeOK
<1>3. CASE portusd_opens
      BY <1>3 DEF portusd_opens, needs_reconciliation, TypeOK
<1> QED BY <1>1, <1>2, <1>3

LEMMA TypeStep == TypeOK /\ CheckHasCall /\ [Next]_vars => TypeOK'
<1> SUFFICES ASSUME TypeOK, CheckHasCall, [Next]_vars PROVE TypeOK' OBVIOUS
<1>1. CASE UNCHANGED vars BY <1>1 DEF vars, TypeOK
<1>2. CASE Next
      BY <1>2, LaunchType, RefreshType, CancelType, RestartType, RequestType,
         WorldType DEF Next
<1> QED BY <1>1, <1>2
-----------------------------------------------------------------------------
(***************************************************************************)
(* The inductive invariant: what the rows, the process and the children    *)
(* map look like at each step of the operation that holds the mutex.       *)
(***************************************************************************)
\* Rows of a task whose launch has written nothing but its identity.
Untouched(t) ==
  relMode[t] = "none" /\ relStatus[t] = "none" /\ att[t] = "none" /\ proc[t] = "none"

Unrelated(t) == relMode[t] = "none" /\ relStatus[t] = "none"

\* Rows and process of a managed task whose Child nobody has signalled.
Attached(t) ==
  /\ relMode[t] = "managed" /\ relStatus[t] = "running" /\ att[t] = "open"
  /\ proc[t] \in {"alive", "exit_ok", "exit_fail"}

LaunchLabels ==
  {"launch_create", "launch_starting", "launch_attempt", "launch_spawn",
   "launch_relate", "launch_running", "spawn_failed_attempt",
   "spawn_failed_transition", "unrelated_reap", "unrelated_attempt",
   "unrelated_transition", "unrunning_reap", "unrunning_relate",
   "unrunning_attempt", "associate_create", "associate_starting",
   "associate_relate", "associate_running"}
RefreshLabels == {"refresh_relate", "refresh_attempt", "refresh_transition"}
KillLabels == {"cancel_kill", "cancel_wait", "cancel_relate", "cancel_attempt",
               "cancel_confirm", "cancel_reconcile", "cancel_conclude"}
RestartLabels == {"restart_next", "restart_interrupt"}

\* The states portus-task never enters, the rows no operation has touched yet,
\* the rows a Child refers to, and the phase each operation runs in.
RowsInv ==
  /\ \A t \in Tasks : st[t] \notin {"queued", "waiting", "paused"}
  /\ \A t \in Tasks : st[t] \in {"absent", "created"} => Untouched(t)
  /\ \A t \in children : st[t] \in {"running", "cancelling"} /\ Attached(t)
  /\ phase # "ready" => children = {}
  /\ phase = "down" => pc = "idle"
  /\ phase = "opening" <=> pc \in RestartLabels
  /\ pc = "idle" => todo = {}

LaunchInv ==
  /\ pc \in LaunchLabels => cur \notin children /\ todo = {}
  /\ pc \in {"launch_create", "associate_create"} => st[cur] = "absent"
  /\ pc \in {"launch_starting", "associate_starting"} => st[cur] = "created"
  /\ pc \in {"launch_attempt", "launch_spawn", "launch_relate",
             "launch_running", "spawn_failed_attempt",
             "spawn_failed_transition", "unrelated_reap", "unrelated_attempt",
             "unrelated_transition", "associate_relate", "associate_running"}
       => st[cur] = "starting"
  /\ pc \in {"unrunning_reap", "unrunning_relate", "unrunning_attempt"}
       => st[cur] \in {"starting", "running"} /\ att[cur] = "open"
  /\ pc \in {"launch_attempt", "associate_relate"} => Untouched(cur)
  /\ pc \in {"launch_spawn", "spawn_failed_attempt"}
       => Unrelated(cur) /\ att[cur] = "open" /\ proc[cur] = "none"
  /\ pc = "spawn_failed_transition"
       => Unrelated(cur) /\ att[cur] = "spawn_failed" /\ proc[cur] = "none"
  /\ pc \in {"launch_relate", "unrelated_reap"}
       => /\ Unrelated(cur) /\ att[cur] = "open"
          /\ proc[cur] \in {"alive", "exit_ok", "exit_fail"}
  /\ pc = "unrelated_attempt" => Unrelated(cur) /\ att[cur] = "open"
  /\ pc = "unrelated_transition"
       => Unrelated(cur) /\ att[cur] = "relationship_persist_failed"
  /\ pc = "launch_running" => Attached(cur)
  /\ pc = "associate_running"
       => relMode[cur] = "associated" /\ proc[cur] = "none" /\ att[cur] = "none"

\* A completed child that refresh_all still has to record.
Completed(t) ==
  /\ t \notin children
  /\ st[t] \in {"running", "cancelling"}
  /\ proc[t] \in {"exit_ok", "exit_fail"}

RefreshInv ==
  /\ pc \in RefreshLabels => \A t \in todo : Completed(t) /\ Attached(t)
  /\ pc \in {"refresh_attempt", "refresh_transition"} =>
       Completed(cur) /\ cur \notin todo /\ relStatus[cur] = "stopped"
  /\ pc = "refresh_attempt" => att[cur] = "open"
  /\ pc = "refresh_transition" => att[cur] = exit_outcome(cur)

\* What kill and wait have established about the task being cancelled.
Signalled ==
  \/ verdict = "kill_ok" /\ proc[cur] \in {"signalled", "exit_ok", "exit_fail", "killed"}
  \/ verdict = "kill_err" /\ proc[cur] \in {"alive", "exit_ok", "exit_fail"}

Established == Signalled /\ Dead(cur) /\ relStatus[cur] = "stopped"

CancelInv ==
  /\ CheckHasCall
  /\ pc \in KillLabels \cup {"cancel_check"} => todo = {}
  /\ pc \in KillLabels => cur \notin children
  /\ pc \in KillLabels \ {"cancel_conclude"} => st[cur] = "cancelling"
  /\ pc = "cancel_kill" => Attached(cur)
  /\ pc = "cancel_wait" => Signalled /\ att[cur] = "open"
  /\ pc = "cancel_relate" => Signalled /\ Dead(cur) /\ att[cur] = "open"
  /\ pc = "cancel_attempt" => Established /\ att[cur] = "open"
  /\ pc = "cancel_confirm" => Established /\ att[cur] = "cancelled"
  /\ pc = "cancel_conclude" => st[cur] = "reconciling"
  /\ pc \in {"cancel_reconcile", "cancel_conclude"} =>
       verdict = "wait_err" \/ (Established /\ att[cur] = exit_outcome(cur))

RestartInv ==
  /\ pc \in RestartLabels => todo \subseteq needs_reconciliation
  /\ pc = "restart_interrupt" => st[cur] = "reconciling" /\ cur \notin todo

VerdictInv == ConfirmedStop /\ EvidenceBeforeVerdict /\ VerdictMatchesProcess

\* Where a process that only the running operation, or nobody, holds may be
\* while at most one statement or call has failed.
LeakInv ==
  /\ pc \in {"unrelated_reap", "unrunning_reap"} => faults >= 1
  /\ pc \in {"unrelated_attempt", "unrelated_transition", "unrunning_relate",
             "unrunning_attempt"} => faults >= 1 /\ (proc[cur] = "alive" => faults >= 2)
  /\ \A t \in Tasks : proc[t] = "alive" /\ faults <= 1 =>
       \/ st[t] \in {"cancelling", "reconciling", "interrupted"}
       \/ st[t] \in {"starting", "running"} /\
            \/ phase = "down"
            \/ phase = "opening" /\ t \in todo
            \/ t \in children
            \/ t = cur /\ pc \in {"launch_relate", "launch_running",
                                  "unrelated_reap", "unrunning_reap"}

\* Where an unfinished task may be while no statement has failed.
SettledInv ==
  faults = 0 =>
    /\ pc \notin {"unrelated_reap", "unrelated_attempt", "unrelated_transition",
                  "unrunning_reap", "unrunning_relate", "unrunning_attempt"}
    /\ \A t \in Tasks :
         \/ phase = "down"
         \/ st[t] \in {"absent", "created"}
         \/ is_terminal(st[t])
         \/ st[t] = "running" /\ phase = "ready"
              /\ (relMode[t] = "associated" \/ t \in children)
         \/ t \in todo /\ pc \in RefreshLabels \cup RestartLabels
         \/ t = cur /\ pc \in LaunchLabels \cup KillLabels \cup
                         {"refresh_attempt", "refresh_transition",
                          "restart_interrupt"}

IInv ==
  /\ TypeOK /\ RowsInv /\ LaunchInv /\ RefreshInv /\ CancelInv /\ RestartInv
  /\ VerdictInv /\ LeakInv /\ SettledInv
-----------------------------------------------------------------------------
(***************************************************************************)
(* Every step keeps the invariant: one case per action, one step per part. *)
(***************************************************************************)
\* Every step of a launch or a registration keeps the invariant.
LEMMA LaunchKeeps == IInv /\ LaunchStep => IInv'
<1> SUFFICES ASSUME IInv, LaunchStep PROVE IInv' OBVIOUS
<1> TypeOK' BY LaunchType DEF IInv
<1> USE DEF IInv, durable, control, Busy, Goto, Return, StatementOutcome,
        TransactionOutcome, transition, committed, returns_ok
<1>1. CASE launch_create
  <2> USE <1>1 DEF launch_create, create_task
  <2>1. RowsInv' BY DEF RowsInv, Untouched, Attached, RestartLabels, TypeOK,
          LaunchInv, LaunchLabels, Unrelated
  <2>2. LaunchInv' BY DEF LaunchInv, LaunchLabels, Untouched, Unrelated,
          Attached, TypeOK
  <2>3. RefreshInv' BY DEF RefreshInv, RefreshLabels, Completed, Attached,
          exit_outcome
  <2>4. CancelInv' BY DEF CancelInv, CheckHasCall, KillLabels, Attached,
          Signalled, Established, Dead, exit_outcome
  <2>5. RestartInv' BY DEF RestartInv, RestartLabels, needs_reconciliation,
          is_terminal
  <2>6. VerdictInv' BY DEF VerdictInv, ConfirmedStop, EvidenceBeforeVerdict,
          VerdictMatchesProcess, Alive
  <2>7. LeakInv' BY BoundsAssumption DEF LeakInv, Fault, TypeOK, LaunchInv,
          LaunchLabels, Untouched, Unrelated, Attached
  <2>8. SettledInv' BY BoundsAssumption DEF SettledInv, is_terminal,
          LaunchLabels, RefreshLabels, KillLabels, RestartLabels, Fault,
          TypeOK
  <2> QED BY <2>1, <2>2, <2>3, <2>4, <2>5, <2>6, <2>7, <2>8
<1>2. CASE launch_starting
  <2> USE <1>2 DEF launch_starting, start_task
  <2>1. RowsInv' BY DEF RowsInv, Untouched, Attached, RestartLabels
  <2>2. LaunchInv' BY DEF LaunchInv, LaunchLabels, Untouched, Unrelated,
          Attached, TypeOK, RowsInv, RestartLabels, Dead
  <2>3. RefreshInv' BY DEF RefreshInv, RefreshLabels, Completed, Attached,
          exit_outcome
  <2>4. CancelInv' BY DEF CancelInv, CheckHasCall, KillLabels, Attached,
          Signalled, Established, Dead, exit_outcome
  <2>5. RestartInv' BY DEF RestartInv, RestartLabels, needs_reconciliation,
          is_terminal
  <2>6. VerdictInv' BY DEF VerdictInv, ConfirmedStop, EvidenceBeforeVerdict,
          VerdictMatchesProcess, Alive
  <2>7. LeakInv' BY BoundsAssumption DEF LeakInv, Fault, TypeOK, LaunchInv,
          LaunchLabels, Untouched, Unrelated, Attached
  <2>8. SettledInv' BY BoundsAssumption DEF SettledInv, is_terminal,
          LaunchLabels, RefreshLabels, KillLabels, RestartLabels, Fault,
          TypeOK, LaunchInv, Untouched, Unrelated, Attached
  <2> QED BY <2>1, <2>2, <2>3, <2>4, <2>5, <2>6, <2>7, <2>8
<1>3. CASE start_task_attempt
  <2> USE <1>3 DEF start_task_attempt
  <2>1. RowsInv' BY DEF RowsInv, Untouched, Attached, RestartLabels, TypeOK,
          LaunchInv, LaunchLabels, Unrelated
  <2>2. LaunchInv' BY DEF LaunchInv, LaunchLabels, Untouched, Unrelated,
          Attached, TypeOK
  <2>3. RefreshInv' BY DEF RefreshInv, RefreshLabels, Completed, Attached,
          exit_outcome
  <2>4. CancelInv' BY DEF CancelInv, CheckHasCall, KillLabels, Attached,
          Signalled, Established, Dead, exit_outcome
  <2>5. RestartInv' BY DEF RestartInv, RestartLabels, needs_reconciliation,
          is_terminal
  <2>6. VerdictInv' BY DEF VerdictInv, ConfirmedStop, EvidenceBeforeVerdict,
          VerdictMatchesProcess, Alive, TypeOK, LaunchInv, LaunchLabels,
          Untouched, Unrelated, Attached
  <2>7. LeakInv' BY BoundsAssumption DEF LeakInv, Fault, TypeOK, LaunchInv,
          LaunchLabels, Untouched, Unrelated, Attached
  <2>8. SettledInv' BY BoundsAssumption DEF SettledInv, is_terminal,
          LaunchLabels, RefreshLabels, KillLabels, RestartLabels, Fault,
          TypeOK
  <2> QED BY <2>1, <2>2, <2>3, <2>4, <2>5, <2>6, <2>7, <2>8
<1>4. CASE spawn
  <2> USE <1>4 DEF spawn
  <2>1. RowsInv' BY DEF RowsInv, Untouched, Attached, RestartLabels, TypeOK,
          LaunchInv, LaunchLabels, Unrelated
  <2>2. LaunchInv' BY DEF LaunchInv, LaunchLabels, Untouched, Unrelated,
          Attached, TypeOK
  <2>3. RefreshInv' BY DEF RefreshInv, RefreshLabels, Completed, Attached,
          exit_outcome
  <2>4. CancelInv' BY DEF CancelInv, CheckHasCall, KillLabels, Attached,
          Signalled, Established, Dead, exit_outcome
  <2>5. RestartInv' BY DEF RestartInv, RestartLabels, needs_reconciliation,
          is_terminal
  <2>6. VerdictInv' BY DEF VerdictInv, ConfirmedStop, EvidenceBeforeVerdict,
          VerdictMatchesProcess, Alive, TypeOK, LaunchInv, LaunchLabels,
          Untouched, Unrelated, Attached
  <2>7. LeakInv' BY BoundsAssumption DEF LeakInv, Fault, TypeOK, LaunchInv,
          LaunchLabels, Untouched, Unrelated, Attached
  <2>8. SettledInv' BY BoundsAssumption DEF SettledInv, is_terminal,
          LaunchLabels, RefreshLabels, KillLabels, RestartLabels, Fault
  <2> QED BY <2>1, <2>2, <2>3, <2>4, <2>5, <2>6, <2>7, <2>8
<1>5. CASE spawn_failed_attempt
  <2> USE <1>5 DEF spawn_failed_attempt, finish_task_attempt
  <2>1. RowsInv' BY DEF RowsInv, Untouched, Attached, RestartLabels, TypeOK,
          LaunchInv, LaunchLabels, Unrelated
  <2>2. LaunchInv' BY DEF LaunchInv, LaunchLabels, Untouched, Unrelated,
          Attached, TypeOK
  <2>3. RefreshInv' BY DEF RefreshInv, RefreshLabels, Completed, Attached,
          exit_outcome
  <2>4. CancelInv' BY DEF CancelInv, CheckHasCall, KillLabels, Attached,
          Signalled, Established, Dead, exit_outcome
  <2>5. RestartInv' BY DEF RestartInv, RestartLabels, needs_reconciliation,
          is_terminal
  <2>6. VerdictInv' BY DEF VerdictInv, ConfirmedStop, EvidenceBeforeVerdict,
          VerdictMatchesProcess, Alive, TypeOK, LaunchInv, LaunchLabels,
          Untouched, Unrelated, Attached
  <2>7. LeakInv' BY BoundsAssumption DEF LeakInv, Fault, TypeOK, LaunchInv,
          LaunchLabels, Untouched, Unrelated, Attached
  <2>8. SettledInv' BY BoundsAssumption DEF SettledInv, is_terminal,
          LaunchLabels, RefreshLabels, KillLabels, RestartLabels, Fault,
          TypeOK
  <2> QED BY <2>1, <2>2, <2>3, <2>4, <2>5, <2>6, <2>7, <2>8
<1>6. CASE fail_starting_task
  <2> USE <1>6 DEF fail_starting_task
  <2>1. RowsInv' BY DEF RowsInv, Untouched, Attached, RestartLabels
  <2>2. LaunchInv' BY DEF LaunchInv, LaunchLabels, Untouched, Unrelated,
          Attached
  <2>3. RefreshInv' BY DEF RefreshInv, RefreshLabels, Completed, Attached,
          exit_outcome
  <2>4. CancelInv' BY DEF CancelInv, CheckHasCall, KillLabels, Attached,
          Signalled, Established, Dead, exit_outcome
  <2>5. RestartInv' BY DEF RestartInv, RestartLabels, needs_reconciliation,
          is_terminal
  <2>6. VerdictInv' BY DEF VerdictInv, ConfirmedStop, EvidenceBeforeVerdict,
          VerdictMatchesProcess, Alive, TypeOK, LaunchInv, LaunchLabels,
          Untouched, Unrelated, Attached
  <2>7. LeakInv' BY BoundsAssumption DEF LeakInv, Fault, TypeOK, LaunchInv,
          LaunchLabels, Untouched, Unrelated, Attached
  <2>8. SettledInv' BY BoundsAssumption DEF SettledInv, is_terminal,
          LaunchLabels, RefreshLabels, KillLabels, RestartLabels, Fault,
          TypeOK, LaunchInv, can_transition, RowsInv
  <2> QED BY <2>1, <2>2, <2>3, <2>4, <2>5, <2>6, <2>7, <2>8
<1>7. CASE launch_relate
  <2> USE <1>7 DEF launch_relate
  <2>1. RowsInv' BY DEF RowsInv, Untouched, Attached, RestartLabels, TypeOK,
          LaunchInv, LaunchLabels, Unrelated
  <2>2. LaunchInv' BY DEF LaunchInv, LaunchLabels, Untouched, Unrelated,
          Attached, TypeOK
  <2>3. RefreshInv' BY DEF RefreshInv, RefreshLabels, Completed, Attached,
          exit_outcome
  <2>4. CancelInv' BY DEF CancelInv, CheckHasCall, KillLabels, Attached,
          Signalled, Established, Dead, exit_outcome
  <2>5. RestartInv' BY DEF RestartInv, RestartLabels, needs_reconciliation,
          is_terminal
  <2>6. VerdictInv' BY DEF VerdictInv, ConfirmedStop, EvidenceBeforeVerdict,
          VerdictMatchesProcess, Alive, TypeOK, LaunchInv, LaunchLabels,
          Untouched, Unrelated, Attached
  <2>7. LeakInv' BY BoundsAssumption DEF LeakInv, Fault, TypeOK
  <2>8. SettledInv' BY BoundsAssumption DEF SettledInv, is_terminal,
          LaunchLabels, RefreshLabels, KillLabels, RestartLabels, Fault,
          TypeOK
  <2> QED BY <2>1, <2>2, <2>3, <2>4, <2>5, <2>6, <2>7, <2>8
<1>8. CASE unrelated_reap
  <2> USE <1>8 DEF unrelated_reap, kill_and_reap
  <2>1. RowsInv' BY DEF RowsInv, Untouched, Attached, RestartLabels, TypeOK,
          LaunchInv, LaunchLabels, Unrelated
  <2>2. LaunchInv' BY DEF LaunchInv, LaunchLabels, Untouched, Unrelated,
          Attached
  <2>3. RefreshInv' BY DEF RefreshInv, RefreshLabels, Completed, Attached,
          exit_outcome
  <2>4. CancelInv' BY DEF CancelInv, CheckHasCall, KillLabels, Attached,
          Signalled, Established, Dead, exit_outcome
  <2>5. RestartInv' BY DEF RestartInv, RestartLabels, needs_reconciliation,
          is_terminal
  <2>6. VerdictInv' BY DEF VerdictInv, ConfirmedStop, EvidenceBeforeVerdict,
          VerdictMatchesProcess, Alive, TypeOK
  <2>7. LeakInv' BY BoundsAssumption DEF LeakInv, Fault, TypeOK
  <2>8. SettledInv' BY BoundsAssumption DEF SettledInv, is_terminal,
          LaunchLabels, RefreshLabels, KillLabels, RestartLabels, Fault,
          TypeOK
  <2> QED BY <2>1, <2>2, <2>3, <2>4, <2>5, <2>6, <2>7, <2>8
<1>9. CASE unrelated_attempt
  <2> USE <1>9 DEF unrelated_attempt, finish_task_attempt
  <2>1. RowsInv' BY DEF RowsInv, Untouched, Attached, RestartLabels, TypeOK,
          LaunchInv, LaunchLabels, Unrelated
  <2>2. LaunchInv' BY DEF LaunchInv, LaunchLabels, Untouched, Unrelated,
          Attached, TypeOK
  <2>3. RefreshInv' BY DEF RefreshInv, RefreshLabels, Completed, Attached,
          exit_outcome
  <2>4. CancelInv' BY DEF CancelInv, CheckHasCall, KillLabels, Attached,
          Signalled, Established, Dead, exit_outcome
  <2>5. RestartInv' BY DEF RestartInv, RestartLabels, needs_reconciliation,
          is_terminal
  <2>6. VerdictInv' BY DEF VerdictInv, ConfirmedStop, EvidenceBeforeVerdict,
          VerdictMatchesProcess, Alive, TypeOK, LaunchInv, LaunchLabels,
          Untouched, Unrelated, Attached
  <2>7. LeakInv' BY BoundsAssumption DEF LeakInv, Fault, TypeOK
  <2>8. SettledInv' BY BoundsAssumption DEF SettledInv, is_terminal,
          LaunchLabels, RefreshLabels, KillLabels, RestartLabels, Fault,
          TypeOK
  <2> QED BY <2>1, <2>2, <2>3, <2>4, <2>5, <2>6, <2>7, <2>8
<1>10. CASE launch_running
  <2> USE <1>10 DEF launch_running
  <2>1. RowsInv' BY DEF RowsInv, Untouched, Attached, RestartLabels, TypeOK,
          LaunchInv, LaunchLabels, Unrelated
  <2>2. LaunchInv' BY DEF LaunchInv, LaunchLabels, Untouched, Unrelated,
          Attached
  <2>3. RefreshInv' BY DEF RefreshInv, RefreshLabels, Completed, Attached,
          exit_outcome
  <2>4. CancelInv' BY DEF CancelInv, CheckHasCall, KillLabels, Attached,
          Signalled, Established, Dead, exit_outcome
  <2>5. RestartInv' BY DEF RestartInv, RestartLabels, needs_reconciliation,
          is_terminal
  <2>6. VerdictInv' BY DEF VerdictInv, ConfirmedStop, EvidenceBeforeVerdict,
          VerdictMatchesProcess, Alive
  <2>7. LeakInv' BY BoundsAssumption DEF LeakInv, Fault, TypeOK, LaunchInv,
          LaunchLabels, can_transition, is_terminal, RowsInv, RestartLabels
  <2>8. SettledInv' BY BoundsAssumption DEF SettledInv, is_terminal,
          LaunchLabels, RefreshLabels, KillLabels, RestartLabels, Fault,
          TypeOK, LaunchInv, can_transition, RowsInv
  <2> QED BY <2>1, <2>2, <2>3, <2>4, <2>5, <2>6, <2>7, <2>8
<1>11. CASE unrunning_reap
  <2> USE <1>11 DEF unrunning_reap, kill_and_reap
  <2>1. RowsInv' BY DEF RowsInv, Untouched, Attached, RestartLabels, TypeOK,
          LaunchInv, LaunchLabels, Unrelated
  <2>2. LaunchInv' BY DEF LaunchInv, LaunchLabels, Untouched, Unrelated,
          Attached
  <2>3. RefreshInv' BY DEF RefreshInv, RefreshLabels, Completed, Attached,
          exit_outcome
  <2>4. CancelInv' BY DEF CancelInv, CheckHasCall, KillLabels, Attached,
          Signalled, Established, Dead, exit_outcome
  <2>5. RestartInv' BY DEF RestartInv, RestartLabels, needs_reconciliation,
          is_terminal
  <2>6. VerdictInv' BY DEF VerdictInv, ConfirmedStop, EvidenceBeforeVerdict,
          VerdictMatchesProcess, Alive, TypeOK
  <2>7. LeakInv' BY BoundsAssumption DEF LeakInv, Fault, TypeOK
  <2>8. SettledInv' BY BoundsAssumption DEF SettledInv, is_terminal,
          LaunchLabels, RefreshLabels, KillLabels, RestartLabels, Fault,
          TypeOK
  <2> QED BY <2>1, <2>2, <2>3, <2>4, <2>5, <2>6, <2>7, <2>8
<1>12. CASE unrunning_relate
  <2> USE <1>12 DEF unrunning_relate, stop_relationship
  <2>1. RowsInv' BY DEF RowsInv, Untouched, Attached, RestartLabels, TypeOK,
          LaunchInv, LaunchLabels, Unrelated
  <2>2. LaunchInv' BY DEF LaunchInv, LaunchLabels, Untouched, Unrelated,
          Attached
  <2>3. RefreshInv' BY DEF RefreshInv, RefreshLabels, Completed, Attached,
          exit_outcome
  <2>4. CancelInv' BY DEF CancelInv, CheckHasCall, KillLabels, Attached,
          Signalled, Established, Dead, exit_outcome
  <2>5. RestartInv' BY DEF RestartInv, RestartLabels, needs_reconciliation,
          is_terminal
  <2>6. VerdictInv' BY DEF VerdictInv, ConfirmedStop, EvidenceBeforeVerdict,
          VerdictMatchesProcess, Alive
  <2>7. LeakInv' BY BoundsAssumption DEF LeakInv, Fault, TypeOK
  <2>8. SettledInv' BY BoundsAssumption DEF SettledInv, is_terminal,
          LaunchLabels, RefreshLabels, KillLabels, RestartLabels, Fault,
          TypeOK
  <2> QED BY <2>1, <2>2, <2>3, <2>4, <2>5, <2>6, <2>7, <2>8
<1>13. CASE unrunning_attempt
  <2> USE <1>13 DEF unrunning_attempt, finish_task_attempt
  <2>1. RowsInv' BY DEF RowsInv, Untouched, Attached, RestartLabels, TypeOK,
          LaunchInv, LaunchLabels, Unrelated
  <2>2. LaunchInv' BY DEF LaunchInv, LaunchLabels, Untouched, Unrelated,
          Attached
  <2>3. RefreshInv' BY DEF RefreshInv, RefreshLabels, Completed, Attached,
          exit_outcome
  <2>4. CancelInv' BY DEF CancelInv, CheckHasCall, KillLabels, Attached,
          Signalled, Established, Dead, exit_outcome
  <2>5. RestartInv' BY DEF RestartInv, RestartLabels, needs_reconciliation,
          is_terminal
  <2>6. VerdictInv' BY DEF VerdictInv, ConfirmedStop, EvidenceBeforeVerdict,
          VerdictMatchesProcess, Alive, TypeOK, LaunchInv, LaunchLabels,
          Untouched, Unrelated, Attached
  <2>7. LeakInv' BY BoundsAssumption DEF LeakInv, Fault, TypeOK, LaunchInv,
          LaunchLabels, Untouched, Unrelated, Attached
  <2>8. SettledInv' BY BoundsAssumption DEF SettledInv, is_terminal,
          LaunchLabels, RefreshLabels, KillLabels, RestartLabels, Fault,
          TypeOK
  <2> QED BY <2>1, <2>2, <2>3, <2>4, <2>5, <2>6, <2>7, <2>8
<1>14. CASE associate_create
  <2> USE <1>14 DEF associate_create, create_task
  <2>1. RowsInv' BY DEF RowsInv, Untouched, Attached, RestartLabels, TypeOK,
          LaunchInv, LaunchLabels, Unrelated
  <2>2. LaunchInv' BY DEF LaunchInv, LaunchLabels, Untouched, Unrelated,
          Attached, TypeOK
  <2>3. RefreshInv' BY DEF RefreshInv, RefreshLabels, Completed, Attached,
          exit_outcome
  <2>4. CancelInv' BY DEF CancelInv, CheckHasCall, KillLabels, Attached,
          Signalled, Established, Dead, exit_outcome
  <2>5. RestartInv' BY DEF RestartInv, RestartLabels, needs_reconciliation,
          is_terminal
  <2>6. VerdictInv' BY DEF VerdictInv, ConfirmedStop, EvidenceBeforeVerdict,
          VerdictMatchesProcess, Alive
  <2>7. LeakInv' BY BoundsAssumption DEF LeakInv, Fault, TypeOK, LaunchInv,
          LaunchLabels, Untouched, Unrelated, Attached
  <2>8. SettledInv' BY BoundsAssumption DEF SettledInv, is_terminal,
          LaunchLabels, RefreshLabels, KillLabels, RestartLabels, Fault,
          TypeOK
  <2> QED BY <2>1, <2>2, <2>3, <2>4, <2>5, <2>6, <2>7, <2>8
<1>15. CASE associate_starting
  <2> USE <1>15 DEF associate_starting, start_task
  <2>1. RowsInv' BY DEF RowsInv, Untouched, Attached, RestartLabels
  <2>2. LaunchInv' BY DEF LaunchInv, LaunchLabels, Untouched, Unrelated,
          Attached, TypeOK, RowsInv, RestartLabels, Dead
  <2>3. RefreshInv' BY DEF RefreshInv, RefreshLabels, Completed, Attached,
          exit_outcome
  <2>4. CancelInv' BY DEF CancelInv, CheckHasCall, KillLabels, Attached,
          Signalled, Established, Dead, exit_outcome
  <2>5. RestartInv' BY DEF RestartInv, RestartLabels, needs_reconciliation,
          is_terminal
  <2>6. VerdictInv' BY DEF VerdictInv, ConfirmedStop, EvidenceBeforeVerdict,
          VerdictMatchesProcess, Alive
  <2>7. LeakInv' BY BoundsAssumption DEF LeakInv, Fault, TypeOK, LaunchInv,
          LaunchLabels, Untouched, Unrelated, Attached
  <2>8. SettledInv' BY BoundsAssumption DEF SettledInv, is_terminal,
          LaunchLabels, RefreshLabels, KillLabels, RestartLabels, Fault,
          TypeOK, LaunchInv, Untouched, Unrelated, Attached
  <2> QED BY <2>1, <2>2, <2>3, <2>4, <2>5, <2>6, <2>7, <2>8
<1>16. CASE associate_relate
  <2> USE <1>16 DEF associate_relate
  <2>1. RowsInv' BY DEF RowsInv, Untouched, Attached, RestartLabels, TypeOK,
          LaunchInv, LaunchLabels, Unrelated
  <2>2. LaunchInv' BY DEF LaunchInv, LaunchLabels, Untouched, Unrelated,
          Attached, TypeOK
  <2>3. RefreshInv' BY DEF RefreshInv, RefreshLabels, Completed, Attached,
          exit_outcome
  <2>4. CancelInv' BY DEF CancelInv, CheckHasCall, KillLabels, Attached,
          Signalled, Established, Dead, exit_outcome
  <2>5. RestartInv' BY DEF RestartInv, RestartLabels, needs_reconciliation,
          is_terminal
  <2>6. VerdictInv' BY DEF VerdictInv, ConfirmedStop, EvidenceBeforeVerdict,
          VerdictMatchesProcess, Alive, TypeOK, LaunchInv, LaunchLabels,
          Untouched, Unrelated, Attached
  <2>7. LeakInv' BY BoundsAssumption DEF LeakInv, Fault, TypeOK, LaunchInv,
          LaunchLabels, Untouched, Unrelated, Attached
  <2>8. SettledInv' BY BoundsAssumption DEF SettledInv, is_terminal,
          LaunchLabels, RefreshLabels, KillLabels, RestartLabels, Fault,
          TypeOK
  <2> QED BY <2>1, <2>2, <2>3, <2>4, <2>5, <2>6, <2>7, <2>8
<1>17. CASE associate_running
  <2> USE <1>17 DEF associate_running
  <2>1. RowsInv' BY DEF RowsInv, Untouched, Attached, RestartLabels
  <2>2. LaunchInv' BY DEF LaunchInv, LaunchLabels, Untouched, Unrelated,
          Attached
  <2>3. RefreshInv' BY DEF RefreshInv, RefreshLabels, Completed, Attached,
          exit_outcome
  <2>4. CancelInv' BY DEF CancelInv, CheckHasCall, KillLabels, Attached,
          Signalled, Established, Dead, exit_outcome
  <2>5. RestartInv' BY DEF RestartInv, RestartLabels, needs_reconciliation,
          is_terminal
  <2>6. VerdictInv' BY DEF VerdictInv, ConfirmedStop, EvidenceBeforeVerdict,
          VerdictMatchesProcess, Alive
  <2>7. LeakInv' BY BoundsAssumption DEF LeakInv, Fault, TypeOK, LaunchInv,
          LaunchLabels, Untouched, Unrelated, Attached
  <2>8. SettledInv' BY BoundsAssumption DEF SettledInv, is_terminal,
          LaunchLabels, RefreshLabels, KillLabels, RestartLabels, Fault,
          TypeOK, LaunchInv, can_transition, RowsInv
  <2> QED BY <2>1, <2>2, <2>3, <2>4, <2>5, <2>6, <2>7, <2>8
<1> QED BY <1>1, <1>2, <1>3, <1>4, <1>5, <1>6, <1>7, <1>8, <1>9, <1>10, <1>11,
        <1>12, <1>13, <1>14, <1>15, <1>16, <1>17 DEF LaunchStep

\* Every step of refresh_all keeps the invariant.
LEMMA RefreshKeeps == IInv /\ RefreshStep => IInv'
<1> SUFFICES ASSUME IInv, RefreshStep PROVE IInv' OBVIOUS
<1> TypeOK' BY RefreshType DEF IInv
<1> USE DEF IInv, durable, control, Busy, Goto, Return, StatementOutcome,
        TransactionOutcome, transition, committed, returns_ok
<1>1. ASSUME NEW t \in Tasks, refresh_relate(t) PROVE IInv'
  <2> USE <1>1 DEF refresh_relate, stop_relationship
  <2>1. RowsInv' BY DEF RowsInv, Untouched, Attached, RestartLabels, TypeOK,
          RefreshInv, RefreshLabels, Completed, exit_outcome
  <2>2. LaunchInv' BY DEF LaunchInv, LaunchLabels, Untouched, Unrelated,
          Attached
  <2>3. RefreshInv' BY DEF RefreshInv, RefreshLabels, Completed, Attached,
          exit_outcome, TypeOK
  <2>4. CancelInv' BY DEF CancelInv, CheckHasCall, KillLabels, Attached,
          Signalled, Established, Dead, exit_outcome
  <2>5. RestartInv' BY DEF RestartInv, RestartLabels, needs_reconciliation,
          is_terminal
  <2>6. VerdictInv' BY DEF VerdictInv, ConfirmedStop, EvidenceBeforeVerdict,
          VerdictMatchesProcess, Alive
  <2>7. LeakInv' BY BoundsAssumption DEF LeakInv, Fault, TypeOK, RefreshInv,
          RefreshLabels, Completed, Attached, exit_outcome
  <2>8. SettledInv' BY BoundsAssumption DEF SettledInv, is_terminal,
          LaunchLabels, RefreshLabels, KillLabels, RestartLabels, Fault,
          TypeOK
  <2> QED BY <2>1, <2>2, <2>3, <2>4, <2>5, <2>6, <2>7, <2>8
<1>2. CASE refresh_attempt
  <2> USE <1>2 DEF refresh_attempt, finish_task_attempt, exit_outcome
  <2>1. RowsInv' BY DEF RowsInv, Untouched, Attached, RestartLabels, TypeOK,
          RefreshInv, RefreshLabels, Completed
  <2>2. LaunchInv' BY DEF LaunchInv, LaunchLabels, Untouched, Unrelated,
          Attached
  <2>3. RefreshInv' BY DEF RefreshInv, RefreshLabels, Completed, Attached,
          TypeOK
  <2>4. CancelInv' BY DEF CancelInv, CheckHasCall, KillLabels, Attached,
          Signalled, Established, Dead
  <2>5. RestartInv' BY DEF RestartInv, RestartLabels, needs_reconciliation,
          is_terminal
  <2>6. VerdictInv' BY DEF VerdictInv, ConfirmedStop, EvidenceBeforeVerdict,
          VerdictMatchesProcess, Alive, TypeOK, RefreshInv, RefreshLabels,
          Completed, Attached
  <2>7. LeakInv' BY BoundsAssumption DEF LeakInv, Fault, TypeOK, RefreshInv,
          RefreshLabels, Completed, Attached
  <2>8. SettledInv' BY BoundsAssumption DEF SettledInv, is_terminal,
          LaunchLabels, RefreshLabels, KillLabels, RestartLabels, Fault,
          TypeOK
  <2> QED BY <2>1, <2>2, <2>3, <2>4, <2>5, <2>6, <2>7, <2>8
<1>3. CASE refresh_transition
  <2> USE <1>3 DEF refresh_transition, refreshed_state, exit_outcome
  <2>1. RowsInv' BY DEF RowsInv, Untouched, Attached, RestartLabels, TypeOK,
          RefreshInv, RefreshLabels, Completed
  <2>2. LaunchInv' BY DEF LaunchInv, LaunchLabels, Untouched, Unrelated,
          Attached
  <2>3. RefreshInv' BY DEF RefreshInv, RefreshLabels, Completed, Attached
  <2>4. CancelInv' BY DEF CancelInv, CheckHasCall, KillLabels, Attached,
          Signalled, Established, Dead
  <2>5. RestartInv' BY DEF RestartInv, RestartLabels, needs_reconciliation,
          is_terminal
  <2>6. VerdictInv' BY DEF VerdictInv, ConfirmedStop, EvidenceBeforeVerdict,
          VerdictMatchesProcess, Alive, TypeOK, RefreshInv, RefreshLabels,
          Completed, Attached
  <2>7. LeakInv' BY BoundsAssumption DEF LeakInv, Fault, TypeOK, RefreshInv,
          RefreshLabels, Completed, Attached
  <2>8. SettledInv' BY BoundsAssumption DEF SettledInv, is_terminal,
          LaunchLabels, RefreshLabels, KillLabels, RestartLabels, Fault,
          TypeOK, RefreshInv, can_transition, RowsInv, Completed
  <2> QED BY <2>1, <2>2, <2>3, <2>4, <2>5, <2>6, <2>7, <2>8
<1>4. CASE refresh_done
  <2> USE <1>4 DEF refresh_done
  <2>1. RowsInv' BY DEF RowsInv, Untouched, Attached, RestartLabels
  <2>2. LaunchInv' BY DEF LaunchInv, LaunchLabels, Untouched, Unrelated,
          Attached
  <2>3. RefreshInv' BY DEF RefreshInv, RefreshLabels, Completed, Attached,
          exit_outcome
  <2>4. CancelInv' BY DEF CancelInv, CheckHasCall, KillLabels, Attached,
          Signalled, Established, Dead, exit_outcome, TypeOK
  <2>5. RestartInv' BY DEF RestartInv, RestartLabels, needs_reconciliation,
          is_terminal
  <2>6. VerdictInv' BY DEF VerdictInv, ConfirmedStop, EvidenceBeforeVerdict,
          VerdictMatchesProcess, Alive
  <2>7. LeakInv' BY BoundsAssumption DEF LeakInv, Fault
  <2>8. SettledInv' BY BoundsAssumption DEF SettledInv, is_terminal,
          LaunchLabels, RefreshLabels, KillLabels, RestartLabels, Fault
  <2> QED BY <2>1, <2>2, <2>3, <2>4, <2>5, <2>6, <2>7, <2>8
<1> QED BY <1>1, <1>2, <1>3, <1>4 DEF RefreshStep

\* Every step of cancel_task keeps the invariant.
LEMMA CancelKeeps == IInv /\ CancelStep => IInv'
<1> SUFFICES ASSUME IInv, CancelStep PROVE IInv' OBVIOUS
<1> TypeOK' BY CancelType DEF IInv, CancelInv
<1> USE DEF IInv, durable, control, Busy, Goto, Return, StatementOutcome,
        TransactionOutcome, transition, committed, returns_ok
<1>1. CASE cancel_check
  <2> USE <1>1 DEF cancel_check, CancelCall, cancel_admitted
  <2>1. RowsInv' BY DEF RowsInv, Untouched, Attached, RestartLabels, TypeOK
  <2>2. LaunchInv' BY DEF LaunchInv, LaunchLabels, Untouched, Unrelated,
          Attached
  <2>3. RefreshInv' BY DEF RefreshInv, RefreshLabels, Completed, Attached,
          exit_outcome
  <2>4. CancelInv' BY DEF CancelInv, CheckHasCall, KillLabels, Attached,
          Signalled, Established, Dead, exit_outcome, TypeOK, RowsInv,
          Untouched, RestartLabels
  <2>5. RestartInv' BY DEF RestartInv, RestartLabels, needs_reconciliation,
          is_terminal
  <2>6. VerdictInv' BY DEF VerdictInv, ConfirmedStop, EvidenceBeforeVerdict,
          VerdictMatchesProcess, Alive, TypeOK
  <2>7. LeakInv' BY BoundsAssumption DEF LeakInv, Fault, TypeOK, CancelInv,
          CheckHasCall, KillLabels, Attached, Signalled, Established, Dead,
          exit_outcome
  <2>8. SettledInv' BY BoundsAssumption DEF SettledInv, is_terminal,
          LaunchLabels, RefreshLabels, KillLabels, RestartLabels, Fault,
          TypeOK, CancelInv, CheckHasCall, Attached, Signalled, Established,
          Dead, exit_outcome, RowsInv, Untouched
  <2> QED BY <2>1, <2>2, <2>3, <2>4, <2>5, <2>6, <2>7, <2>8
<1>2. CASE cancel_kill
  <2> USE <1>2 DEF cancel_kill
  <2>1. RowsInv' BY DEF RowsInv, Untouched, Attached, RestartLabels, TypeOK,
          CancelInv, CheckHasCall, KillLabels, Signalled, Established, Dead,
          exit_outcome
  <2>2. LaunchInv' BY DEF LaunchInv, LaunchLabels, Untouched, Unrelated,
          Attached
  <2>3. RefreshInv' BY DEF RefreshInv, RefreshLabels, Completed, Attached,
          exit_outcome
  <2>4. CancelInv' BY DEF CancelInv, CheckHasCall, KillLabels, Attached,
          Signalled, Established, Dead, exit_outcome, TypeOK
  <2>5. RestartInv' BY DEF RestartInv, RestartLabels, needs_reconciliation,
          is_terminal
  <2>6. VerdictInv' BY DEF VerdictInv, ConfirmedStop, EvidenceBeforeVerdict,
          VerdictMatchesProcess, Alive, TypeOK
  <2>7. LeakInv' BY BoundsAssumption DEF LeakInv, Fault, TypeOK
  <2>8. SettledInv' BY BoundsAssumption DEF SettledInv, is_terminal,
          LaunchLabels, RefreshLabels, KillLabels, RestartLabels, Fault,
          TypeOK
  <2> QED BY <2>1, <2>2, <2>3, <2>4, <2>5, <2>6, <2>7, <2>8
<1>3. CASE cancel_wait
  <2> USE <1>3 DEF cancel_wait
  <2>1. RowsInv' BY DEF RowsInv, Untouched, Attached, RestartLabels
  <2>2. LaunchInv' BY DEF LaunchInv, LaunchLabels, Untouched, Unrelated,
          Attached
  <2>3. RefreshInv' BY DEF RefreshInv, RefreshLabels, Completed, Attached,
          exit_outcome
  <2>4. CancelInv' BY DEF CancelInv, CheckHasCall, KillLabels, Attached,
          Signalled, Established, Dead, exit_outcome
  <2>5. RestartInv' BY DEF RestartInv, RestartLabels, needs_reconciliation,
          is_terminal
  <2>6. VerdictInv' BY DEF VerdictInv, ConfirmedStop, EvidenceBeforeVerdict,
          VerdictMatchesProcess, Alive
  <2>7. LeakInv' BY BoundsAssumption DEF LeakInv, Fault, TypeOK
  <2>8. SettledInv' BY BoundsAssumption DEF SettledInv, is_terminal,
          LaunchLabels, RefreshLabels, KillLabels, RestartLabels, Fault,
          TypeOK
  <2> QED BY <2>1, <2>2, <2>3, <2>4, <2>5, <2>6, <2>7, <2>8
<1>4. CASE cancel_relate
  <2> USE <1>4 DEF cancel_relate, stop_relationship
  <2>1. RowsInv' BY DEF RowsInv, Untouched, Attached, RestartLabels, TypeOK,
          CancelInv, CheckHasCall, KillLabels, Signalled, Established, Dead,
          exit_outcome
  <2>2. LaunchInv' BY DEF LaunchInv, LaunchLabels, Untouched, Unrelated,
          Attached
  <2>3. RefreshInv' BY DEF RefreshInv, RefreshLabels, Completed, Attached,
          exit_outcome
  <2>4. CancelInv' BY DEF CancelInv, CheckHasCall, KillLabels, Attached,
          Signalled, Established, Dead, exit_outcome, TypeOK
  <2>5. RestartInv' BY DEF RestartInv, RestartLabels, needs_reconciliation,
          is_terminal
  <2>6. VerdictInv' BY DEF VerdictInv, ConfirmedStop, EvidenceBeforeVerdict,
          VerdictMatchesProcess, Alive
  <2>7. LeakInv' BY BoundsAssumption DEF LeakInv, Fault, TypeOK, CancelInv,
          CheckHasCall, KillLabels, Attached, Signalled, Established, Dead,
          exit_outcome
  <2>8. SettledInv' BY BoundsAssumption DEF SettledInv, is_terminal,
          LaunchLabels, RefreshLabels, KillLabels, RestartLabels, Fault,
          TypeOK
  <2> QED BY <2>1, <2>2, <2>3, <2>4, <2>5, <2>6, <2>7, <2>8
<1>5. CASE cancel_attempt
  <2> USE <1>5 DEF cancel_attempt, finish_task_attempt, exit_outcome
  <2>1. RowsInv' BY DEF RowsInv, Untouched, Attached, RestartLabels, TypeOK,
          CancelInv, CheckHasCall, KillLabels, Signalled, Established, Dead
  <2>2. LaunchInv' BY DEF LaunchInv, LaunchLabels, Untouched, Unrelated,
          Attached
  <2>3. RefreshInv' BY DEF RefreshInv, RefreshLabels, Completed, Attached
  <2>4. CancelInv' BY DEF CancelInv, CheckHasCall, KillLabels, Attached,
          Signalled, Established, Dead, TypeOK
  <2>5. RestartInv' BY DEF RestartInv, RestartLabels, needs_reconciliation,
          is_terminal
  <2>6. VerdictInv' BY DEF VerdictInv, ConfirmedStop, EvidenceBeforeVerdict,
          VerdictMatchesProcess, Alive, TypeOK, CancelInv, CheckHasCall,
          KillLabels, Attached, Signalled, Established, Dead
  <2>7. LeakInv' BY BoundsAssumption DEF LeakInv, Fault, TypeOK, CancelInv,
          CheckHasCall, KillLabels, Attached, Signalled, Established, Dead
  <2>8. SettledInv' BY BoundsAssumption DEF SettledInv, is_terminal,
          LaunchLabels, RefreshLabels, KillLabels, RestartLabels, Fault,
          TypeOK
  <2> QED BY <2>1, <2>2, <2>3, <2>4, <2>5, <2>6, <2>7, <2>8
<1>6. CASE cancel_confirm
  <2> USE <1>6 DEF cancel_confirm
  <2>1. RowsInv' BY DEF RowsInv, Untouched, Attached, RestartLabels, TypeOK,
          CancelInv, CheckHasCall, KillLabels, Signalled, Established, Dead,
          exit_outcome
  <2>2. LaunchInv' BY DEF LaunchInv, LaunchLabels, Untouched, Unrelated,
          Attached
  <2>3. RefreshInv' BY DEF RefreshInv, RefreshLabels, Completed, Attached,
          exit_outcome
  <2>4. CancelInv' BY DEF CancelInv, CheckHasCall, KillLabels, Attached,
          Signalled, Established, Dead, exit_outcome
  <2>5. RestartInv' BY DEF RestartInv, RestartLabels, needs_reconciliation,
          is_terminal
  <2>6. VerdictInv' BY DEF VerdictInv, ConfirmedStop, EvidenceBeforeVerdict,
          VerdictMatchesProcess, Alive, TypeOK, CancelInv, CheckHasCall,
          KillLabels, Attached, Signalled, Established, Dead, exit_outcome
  <2>7. LeakInv' BY BoundsAssumption DEF LeakInv, Fault, TypeOK, CancelInv,
          CheckHasCall, KillLabels, Attached, Signalled, Established, Dead,
          exit_outcome
  <2>8. SettledInv' BY BoundsAssumption DEF SettledInv, is_terminal,
          LaunchLabels, RefreshLabels, KillLabels, RestartLabels, Fault,
          TypeOK, CancelInv, can_transition, RowsInv, exit_outcome
  <2> QED BY <2>1, <2>2, <2>3, <2>4, <2>5, <2>6, <2>7, <2>8
<1>7. CASE cancel_reconcile
  <2> USE <1>7 DEF cancel_reconcile
  <2>1. RowsInv' BY DEF RowsInv, Untouched, Attached, RestartLabels, TypeOK,
          CancelInv, CheckHasCall, KillLabels, Signalled, Established, Dead,
          exit_outcome
  <2>2. LaunchInv' BY DEF LaunchInv, LaunchLabels, Untouched, Unrelated,
          Attached
  <2>3. RefreshInv' BY DEF RefreshInv, RefreshLabels, Completed, Attached,
          exit_outcome
  <2>4. CancelInv' BY DEF CancelInv, CheckHasCall, KillLabels, Attached,
          Signalled, Established, Dead, exit_outcome, TypeOK
  <2>5. RestartInv' BY DEF RestartInv, RestartLabels, needs_reconciliation,
          is_terminal
  <2>6. VerdictInv' BY DEF VerdictInv, ConfirmedStop, EvidenceBeforeVerdict,
          VerdictMatchesProcess, Alive
  <2>7. LeakInv' BY BoundsAssumption DEF LeakInv, Fault, TypeOK, CancelInv,
          CheckHasCall, KillLabels, Attached, Signalled, Established, Dead,
          exit_outcome
  <2>8. SettledInv' BY BoundsAssumption DEF SettledInv, is_terminal,
          LaunchLabels, RefreshLabels, KillLabels, RestartLabels, Fault,
          TypeOK, CancelInv, can_transition, RowsInv, exit_outcome
  <2> QED BY <2>1, <2>2, <2>3, <2>4, <2>5, <2>6, <2>7, <2>8
<1>8. CASE cancel_conclude
  <2> USE <1>8 DEF cancel_conclude, concluded_state, exit_outcome
  <2>1. RowsInv' BY DEF RowsInv, Untouched, Attached, RestartLabels
  <2>2. LaunchInv' BY DEF LaunchInv, LaunchLabels, Untouched, Unrelated,
          Attached
  <2>3. RefreshInv' BY DEF RefreshInv, RefreshLabels, Completed, Attached
  <2>4. CancelInv' BY DEF CancelInv, CheckHasCall, KillLabels, Attached,
          Signalled, Established, Dead
  <2>5. RestartInv' BY DEF RestartInv, RestartLabels, needs_reconciliation,
          is_terminal
  <2>6. VerdictInv' BY DEF VerdictInv, ConfirmedStop, EvidenceBeforeVerdict,
          VerdictMatchesProcess, Alive, TypeOK, CancelInv, CheckHasCall,
          KillLabels, Attached, Signalled, Established, Dead
  <2>7. LeakInv' BY BoundsAssumption DEF LeakInv, Fault, TypeOK, CancelInv,
          CheckHasCall, KillLabels, Attached, Signalled, Established, Dead
  <2>8. SettledInv' BY BoundsAssumption DEF SettledInv, is_terminal,
          LaunchLabels, RefreshLabels, KillLabels, RestartLabels, Fault,
          TypeOK, CancelInv, can_transition, RowsInv
  <2> QED BY <2>1, <2>2, <2>3, <2>4, <2>5, <2>6, <2>7, <2>8
<1> QED BY <1>1, <1>2, <1>3, <1>4, <1>5, <1>6, <1>7, <1>8 DEF CancelStep

\* Every step of the restart reconciliation keeps the invariant.
LEMMA RestartKeeps == IInv /\ RestartStep => IInv'
<1> SUFFICES ASSUME IInv, RestartStep PROVE IInv' OBVIOUS
<1> TypeOK' BY RestartType DEF IInv
<1> USE DEF IInv, durable, control, Busy, Goto, Return, StatementOutcome,
        TransactionOutcome, transition, committed, returns_ok
<1>1. ASSUME NEW t \in Tasks, restart_reconciling(t) PROVE IInv'
  <2> USE <1>1 DEF restart_reconciling, restart_fails
  <2>1. RowsInv' BY DEF RowsInv, Untouched, Attached, RestartLabels, TypeOK
  <2>2. LaunchInv' BY DEF LaunchInv, LaunchLabels, Untouched, Unrelated,
          Attached
  <2>3. RefreshInv' BY DEF RefreshInv, RefreshLabels, Completed, Attached,
          exit_outcome
  <2>4. CancelInv' BY DEF CancelInv, CheckHasCall, KillLabels, Attached,
          Signalled, Established, Dead, exit_outcome
  <2>5. RestartInv' BY DEF RestartInv, RestartLabels, needs_reconciliation,
          is_terminal, TypeOK
  <2>6. VerdictInv' BY DEF VerdictInv, ConfirmedStop, EvidenceBeforeVerdict,
          VerdictMatchesProcess, Alive, TypeOK
  <2>7. LeakInv' BY BoundsAssumption DEF LeakInv, Fault, TypeOK
  <2>8. SettledInv' BY BoundsAssumption DEF SettledInv, is_terminal,
          LaunchLabels, RefreshLabels, KillLabels, RestartLabels, Fault,
          TypeOK
  <2> QED BY <2>1, <2>2, <2>3, <2>4, <2>5, <2>6, <2>7, <2>8
<1>2. CASE restart_interrupt
  <2> USE <1>2 DEF restart_interrupt, restart_fails
  <2>1. RowsInv' BY DEF RowsInv, Untouched, Attached, RestartLabels
  <2>2. LaunchInv' BY DEF LaunchInv, LaunchLabels, Untouched, Unrelated,
          Attached
  <2>3. RefreshInv' BY DEF RefreshInv, RefreshLabels, Completed, Attached,
          exit_outcome
  <2>4. CancelInv' BY DEF CancelInv, CheckHasCall, KillLabels, Attached,
          Signalled, Established, Dead, exit_outcome
  <2>5. RestartInv' BY DEF RestartInv, RestartLabels, needs_reconciliation,
          is_terminal
  <2>6. VerdictInv' BY DEF VerdictInv, ConfirmedStop, EvidenceBeforeVerdict,
          VerdictMatchesProcess, Alive
  <2>7. LeakInv' BY BoundsAssumption DEF LeakInv, Fault, TypeOK
  <2>8. SettledInv' BY BoundsAssumption DEF SettledInv, is_terminal,
          LaunchLabels, RefreshLabels, KillLabels, RestartLabels, Fault,
          TypeOK
  <2> QED BY <2>1, <2>2, <2>3, <2>4, <2>5, <2>6, <2>7, <2>8
<1>3. CASE restart_done
  <2> USE <1>3 DEF restart_done
  <2>1. RowsInv' BY DEF RowsInv, Untouched, Attached, RestartLabels
  <2>2. LaunchInv' BY DEF LaunchInv, LaunchLabels, Untouched, Unrelated,
          Attached
  <2>3. RefreshInv' BY DEF RefreshInv, RefreshLabels, Completed, Attached,
          exit_outcome
  <2>4. CancelInv' BY DEF CancelInv, CheckHasCall, KillLabels, Attached,
          Signalled, Established, Dead, exit_outcome
  <2>5. RestartInv' BY DEF RestartInv, RestartLabels, needs_reconciliation,
          is_terminal
  <2>6. VerdictInv' BY DEF VerdictInv, ConfirmedStop, EvidenceBeforeVerdict,
          VerdictMatchesProcess, Alive
  <2>7. LeakInv' BY BoundsAssumption DEF LeakInv, Fault, TypeOK, RestartInv,
          RestartLabels, needs_reconciliation, is_terminal, RowsInv,
          Untouched, Attached, Dead
  <2>8. SettledInv' BY BoundsAssumption DEF SettledInv, is_terminal,
          LaunchLabels, RefreshLabels, KillLabels, RestartLabels, Fault,
          TypeOK, RestartInv, needs_reconciliation, RowsInv, Untouched,
          Attached, Dead
  <2> QED BY <2>1, <2>2, <2>3, <2>4, <2>5, <2>6, <2>7, <2>8
<1> QED BY <1>1, <1>2, <1>3 DEF RestartStep

\* The arrival of a client request keeps the invariant.
LEMMA RequestKeeps == IInv /\ Request => IInv'
<1> SUFFICES ASSUME IInv, Request PROVE IInv' OBVIOUS
<1> TypeOK' BY RequestType DEF IInv
<1> USE DEF IInv, durable, control, Busy, Goto, Return, StatementOutcome,
        TransactionOutcome, transition, committed, returns_ok
<1>1. ASSUME NEW t \in Tasks, launch_managed_process(t) PROVE IInv'
  <2> USE <1>1 DEF launch_managed_process, Idle
  <2>1. RowsInv' BY DEF RowsInv, Untouched, Attached, RestartLabels
  <2>2. LaunchInv' BY DEF LaunchInv, LaunchLabels, Untouched, Unrelated,
          Attached, TypeOK, RowsInv, RestartLabels
  <2>3. RefreshInv' BY DEF RefreshInv, RefreshLabels, Completed, Attached,
          exit_outcome
  <2>4. CancelInv' BY DEF CancelInv, CheckHasCall, KillLabels, Attached,
          Signalled, Established, Dead, exit_outcome
  <2>5. RestartInv' BY DEF RestartInv, RestartLabels, needs_reconciliation,
          is_terminal
  <2>6. VerdictInv' BY DEF VerdictInv, ConfirmedStop, EvidenceBeforeVerdict,
          VerdictMatchesProcess, Alive
  <2>7. LeakInv' BY BoundsAssumption DEF LeakInv, Fault
  <2>8. SettledInv' BY BoundsAssumption DEF SettledInv, is_terminal,
          LaunchLabels, RefreshLabels, KillLabels, RestartLabels, Fault
  <2> QED BY <2>1, <2>2, <2>3, <2>4, <2>5, <2>6, <2>7, <2>8
<1>2. ASSUME NEW t \in Tasks, register_associated_execution(t) PROVE IInv'
  <2> USE <1>2 DEF register_associated_execution, Idle
  <2>1. RowsInv' BY DEF RowsInv, Untouched, Attached, RestartLabels
  <2>2. LaunchInv' BY DEF LaunchInv, LaunchLabels, Untouched, Unrelated,
          Attached, TypeOK, RowsInv, RestartLabels
  <2>3. RefreshInv' BY DEF RefreshInv, RefreshLabels, Completed, Attached,
          exit_outcome
  <2>4. CancelInv' BY DEF CancelInv, CheckHasCall, KillLabels, Attached,
          Signalled, Established, Dead, exit_outcome
  <2>5. RestartInv' BY DEF RestartInv, RestartLabels, needs_reconciliation,
          is_terminal
  <2>6. VerdictInv' BY DEF VerdictInv, ConfirmedStop, EvidenceBeforeVerdict,
          VerdictMatchesProcess, Alive
  <2>7. LeakInv' BY BoundsAssumption DEF LeakInv, Fault
  <2>8. SettledInv' BY BoundsAssumption DEF SettledInv, is_terminal,
          LaunchLabels, RefreshLabels, KillLabels, RestartLabels, Fault
  <2> QED BY <2>1, <2>2, <2>3, <2>4, <2>5, <2>6, <2>7, <2>8
<1>3. CASE refresh_all
  <2> USE <1>3 DEF refresh_all, Idle, collect_completed
  <2>1. RowsInv' BY DEF RowsInv, Untouched, Attached, RestartLabels
  <2>2. LaunchInv' BY DEF LaunchInv, LaunchLabels, Untouched, Unrelated,
          Attached
  <2>3. RefreshInv' BY DEF RefreshInv, RefreshLabels, Completed, Attached,
          exit_outcome, TypeOK, RowsInv, Untouched, RestartLabels, Dead
  <2>4. CancelInv' BY DEF CancelInv, CheckHasCall, KillLabels, Attached,
          Signalled, Established, Dead, exit_outcome
  <2>5. RestartInv' BY DEF RestartInv, RestartLabels, needs_reconciliation,
          is_terminal
  <2>6. VerdictInv' BY DEF VerdictInv, ConfirmedStop, EvidenceBeforeVerdict,
          VerdictMatchesProcess, Alive
  <2>7. LeakInv' BY BoundsAssumption DEF LeakInv, Fault, TypeOK, RowsInv,
          Untouched, Attached, RestartLabels, Dead
  <2>8. SettledInv' BY BoundsAssumption DEF SettledInv, is_terminal,
          LaunchLabels, RefreshLabels, KillLabels, RestartLabels, Fault
  <2> QED BY <2>1, <2>2, <2>3, <2>4, <2>5, <2>6, <2>7, <2>8
<1>4. ASSUME NEW p \in Principals, NEW t \in Tasks, NEW e \in IfStates,
             cancel_task(p, t, e)
      PROVE  IInv'
  <2> USE <1>4 DEF cancel_task, cancel_task, Idle, collect_completed
  <2>1. RowsInv' BY DEF RowsInv, Untouched, Attached, RestartLabels
  <2>2. LaunchInv' BY DEF LaunchInv, LaunchLabels, Untouched, Unrelated,
          Attached
  <2>3. RefreshInv' BY DEF RefreshInv, RefreshLabels, Completed, Attached,
          exit_outcome, TypeOK, RowsInv, Untouched, RestartLabels, Dead
  <2>4. CancelInv' BY DEF CancelInv, CheckHasCall, KillLabels, Attached,
          Signalled, Established, Dead, exit_outcome
  <2>5. RestartInv' BY DEF RestartInv, RestartLabels, needs_reconciliation,
          is_terminal
  <2>6. VerdictInv' BY DEF VerdictInv, ConfirmedStop, EvidenceBeforeVerdict,
          VerdictMatchesProcess, Alive
  <2>7. LeakInv' BY BoundsAssumption DEF LeakInv, Fault, TypeOK, RowsInv,
          Untouched, Attached, RestartLabels, Dead
  <2>8. SettledInv' BY BoundsAssumption DEF SettledInv, is_terminal,
          LaunchLabels, RefreshLabels, KillLabels, RestartLabels, Fault
  <2> QED BY <2>1, <2>2, <2>3, <2>4, <2>5, <2>6, <2>7, <2>8
<1> QED BY <1>1, <1>2, <1>3, <1>4 DEF Request

\* Exits, crashes and starts of portusd keep the invariant.
LEMMA WorldKeeps ==
  ASSUME IInv,
         \/ \E t \in Tasks : process_exits(t) \/ process_dies(t)
         \/ portusd_crashes \/ portusd_opens
  PROVE  IInv'
<1> TypeOK' BY WorldType DEF IInv
<1> USE DEF IInv, durable, control, Busy, Goto, Return, StatementOutcome,
        TransactionOutcome, transition, committed, returns_ok
<1>1. ASSUME NEW t \in Tasks, process_exits(t) PROVE IInv'
  <2> USE <1>1 DEF process_exits
  <2>1. RowsInv' BY DEF RowsInv, Untouched, Attached, RestartLabels
  <2>2. LaunchInv' BY DEF LaunchInv, LaunchLabels, Untouched, Unrelated,
          Attached
  <2>3. RefreshInv' BY DEF RefreshInv, RefreshLabels, Completed, Attached,
          exit_outcome
  <2>4. CancelInv' BY DEF CancelInv, CheckHasCall, KillLabels, Attached,
          Signalled, Established, Dead, exit_outcome
  <2>5. RestartInv' BY DEF RestartInv, RestartLabels, needs_reconciliation,
          is_terminal
  <2>6. VerdictInv' BY DEF VerdictInv, ConfirmedStop, EvidenceBeforeVerdict,
          VerdictMatchesProcess, Alive
  <2>7. LeakInv' BY BoundsAssumption DEF LeakInv, Fault
  <2>8. SettledInv' BY BoundsAssumption DEF SettledInv, is_terminal,
          LaunchLabels, RefreshLabels, KillLabels, RestartLabels, Fault
  <2> QED BY <2>1, <2>2, <2>3, <2>4, <2>5, <2>6, <2>7, <2>8
<1>2. ASSUME NEW t \in Tasks, process_dies(t) PROVE IInv'
  <2> USE <1>2 DEF process_dies
  <2>1. RowsInv' BY DEF RowsInv, Untouched, Attached, RestartLabels
  <2>2. LaunchInv' BY DEF LaunchInv, LaunchLabels, Untouched, Unrelated,
          Attached
  <2>3. RefreshInv' BY DEF RefreshInv, RefreshLabels, Completed, Attached,
          exit_outcome
  <2>4. CancelInv' BY DEF CancelInv, CheckHasCall, KillLabels, Attached,
          Signalled, Established, Dead, exit_outcome
  <2>5. RestartInv' BY DEF RestartInv, RestartLabels, needs_reconciliation,
          is_terminal
  <2>6. VerdictInv' BY DEF VerdictInv, ConfirmedStop, EvidenceBeforeVerdict,
          VerdictMatchesProcess, Alive
  <2>7. LeakInv' BY BoundsAssumption DEF LeakInv, Fault
  <2>8. SettledInv' BY BoundsAssumption DEF SettledInv, is_terminal,
          LaunchLabels, RefreshLabels, KillLabels, RestartLabels, Fault
  <2> QED BY <2>1, <2>2, <2>3, <2>4, <2>5, <2>6, <2>7, <2>8
<1>3. CASE portusd_crashes
  <2> USE <1>3 DEF portusd_crashes
  <2>1. RowsInv' BY DEF RowsInv, Untouched, Attached, RestartLabels
  <2>2. LaunchInv' BY DEF LaunchInv, LaunchLabels, Untouched, Unrelated,
          Attached
  <2>3. RefreshInv' BY DEF RefreshInv, RefreshLabels, Completed, Attached,
          exit_outcome
  <2>4. CancelInv' BY DEF CancelInv, CheckHasCall, KillLabels, Attached,
          Signalled, Established, Dead, exit_outcome
  <2>5. RestartInv' BY DEF RestartInv, RestartLabels, needs_reconciliation,
          is_terminal
  <2>6. VerdictInv' BY DEF VerdictInv, ConfirmedStop, EvidenceBeforeVerdict,
          VerdictMatchesProcess, Alive
  <2>7. LeakInv' BY BoundsAssumption DEF LeakInv, Fault
  <2>8. SettledInv' BY BoundsAssumption DEF SettledInv, is_terminal,
          LaunchLabels, RefreshLabels, KillLabels, RestartLabels, Fault
  <2> QED BY <2>1, <2>2, <2>3, <2>4, <2>5, <2>6, <2>7, <2>8
<1>4. CASE portusd_opens
  <2> USE <1>4 DEF portusd_opens, needs_reconciliation
  <2>1. RowsInv' BY DEF RowsInv, Untouched, Attached, RestartLabels
  <2>2. LaunchInv' BY DEF LaunchInv, LaunchLabels, Untouched, Unrelated,
          Attached
  <2>3. RefreshInv' BY DEF RefreshInv, RefreshLabels, Completed, Attached,
          exit_outcome
  <2>4. CancelInv' BY DEF CancelInv, CheckHasCall, KillLabels, Attached,
          Signalled, Established, Dead, exit_outcome
  <2>5. RestartInv' BY DEF RestartInv, RestartLabels, is_terminal
  <2>6. VerdictInv' BY DEF VerdictInv, ConfirmedStop, EvidenceBeforeVerdict,
          VerdictMatchesProcess, Alive
  <2>7. LeakInv' BY BoundsAssumption DEF LeakInv, Fault, TypeOK, RowsInv,
          is_terminal, RestartLabels, LaunchInv
  <2>8. SettledInv' BY BoundsAssumption DEF SettledInv, is_terminal,
          LaunchLabels, RefreshLabels, KillLabels, RestartLabels, Fault,
          TypeOK, RowsInv, Untouched, Attached
  <2> QED BY <2>1, <2>2, <2>3, <2>4, <2>5, <2>6, <2>7, <2>8
<1> QED BY <1>1, <1>2, <1>3, <1>4

-----------------------------------------------------------------------------
(***************************************************************************)
(* The theorems.                                                           *)
(***************************************************************************)
\* A fresh database satisfies the invariant.
LEMMA InitInvariant == Init => IInv
<1> SUFFICES ASSUME Init PROVE IInv OBVIOUS
<1> USE DEF Init
<1>1. TypeOK BY BoundsAssumption DEF TypeOK, Labels, ProcessState
<1>2. RowsInv /\ LaunchInv /\ RefreshInv /\ RestartInv
      BY DEF RowsInv, LaunchInv, RefreshInv, RestartInv, Untouched,
             LaunchLabels, RefreshLabels, RestartLabels
<1>3. CancelInv BY DEF CancelInv, CheckHasCall, KillLabels
<1>4. VerdictInv
      BY DEF VerdictInv, ConfirmedStop, EvidenceBeforeVerdict,
             VerdictMatchesProcess
<1>5. LeakInv /\ SettledInv BY DEF LeakInv, SettledInv
<1> QED BY <1>1, <1>2, <1>3, <1>4, <1>5 DEF IInv

\* A step that changes nothing keeps the invariant.
LEMMA StutterKeeps == IInv /\ UNCHANGED vars => IInv'
BY DEF vars, IInv, TypeOK, RowsInv, Untouched, Attached, LaunchInv, Unrelated,
       RefreshInv, Completed, exit_outcome, CancelInv, CheckHasCall, Signalled,
       Established, Dead, RestartInv, needs_reconciliation, VerdictInv,
       ConfirmedStop, EvidenceBeforeVerdict, VerdictMatchesProcess, Alive,
       LeakInv, SettledInv, is_terminal

\* The invariant is inductive.
LEMMA NextKeeps == IInv /\ [Next]_vars => IInv'
<1> SUFFICES ASSUME IInv, [Next]_vars PROVE IInv' OBVIOUS
<1>1. CASE Next
      BY <1>1, LaunchKeeps, RefreshKeeps, CancelKeeps, RestartKeeps,
         RequestKeeps, WorldKeeps DEF Next
<1>2. CASE UNCHANGED vars BY <1>2, StutterKeeps
<1> QED BY <1>1, <1>2

\* The inductive invariant holds in every reachable state.
THEOREM Invariance == Spec => []IInv
<1>1. Init => IInv BY InitInvariant
<1>2. IInv /\ [Next]_vars => IInv' BY NextKeeps
<1> QED BY <1>1, <1>2, PTL DEF Spec

\* The variables keep the values the code can store in them.
THEOREM TypeCorrect == Spec => []TypeOK
<1>1. IInv => TypeOK BY DEF IInv
<1> QED BY <1>1, Invariance, PTL

\* No task gets a verdict about work that is still going on, before the rows
\* that justify it, or other than what its process did: launch, refresh, cancel
\* and restart, with any number of failures and crashes.
THEOREM VerdictsHold == Spec => []VerdictsAreTrue
<1>1. IInv => VerdictsAreTrue BY DEF IInv, VerdictInv, VerdictsAreTrue
<1> QED BY <1>1, Invariance, PTL

\* The children map and the durable rows agree.
THEOREM ChildrenAreRows == Spec => []ChildrenMatchRows
<1>1. IInv => ChildrenMatchRows
      BY DEF IInv, RowsInv, ChildrenMatchRows, Attached
<1> QED BY <1>1, Invariance, PTL

\* One failed statement or system call never leaks a process.
THEOREM NothingLeaks == Spec => []NoLeakedProcess
<1>1. IInv => NoLeakedProcess
      BY BoundsAssumption DEF IInv, LeakInv, NoLeakedProcess, Idle
<1> QED BY <1>1, Invariance, PTL

\* Without statement failures nothing is left half done between operations.
THEOREM RowsSettle == Spec => []QuiescentRowsSettled
<1>1. IInv => QuiescentRowsSettled
      BY DEF IInv, SettledInv, QuiescentRowsSettled, Idle, LaunchLabels,
             KillLabels, RefreshLabels, RestartLabels
<1> QED BY <1>1, Invariance, PTL
-----------------------------------------------------------------------------
(***************************************************************************)
(* Action properties and refinement.                                       *)
(***************************************************************************)
\* Only cancel_check writes "cancelling", and it serves the owner's call.
LEMMA CancellingIsOwners ==
  ASSUME IInv, [Next]_vars, NEW t \in Tasks,
         st[t] # "cancelling", st'[t] = "cancelling"
  PROVE  cancel.task = t /\ cancel.by = Owner[t]
<1> USE DEF transition, committed, IInv, TypeOK
<1>1. CASE UNCHANGED vars BY <1>1 DEF vars
<1>2. CASE Request
      BY <1>2 DEF Request, launch_managed_process, refresh_all, cancel_task,
             register_associated_execution, durable
<1>3. CASE LaunchStep
      BY <1>3 DEF LaunchStep, launch_create, launch_starting, create_task,
             start_task, start_task_attempt, spawn, spawn_failed_attempt,
             fail_starting_task, launch_relate, unrelated_reap, kill_and_reap,
             unrelated_attempt, launch_running, unrunning_reap,
             unrunning_relate, unrunning_attempt, associate_create,
             associate_starting, associate_relate, associate_running, durable
<1>4. CASE RefreshStep
      BY <1>4 DEF RefreshStep, refresh_relate, refresh_attempt, refresh_done,
             refresh_transition, refreshed_state, exit_outcome, durable
<1>5. CASE CancelStep
  <2>1. CASE cancel_check
        BY <1>5, <2>1 DEF cancel_check, cancel_admitted, CancelInv,
               CheckHasCall, CancelCall, Busy
  <2> QED
      BY <1>5, <2>1 DEF CancelStep, cancel_kill, cancel_wait, cancel_relate,
             cancel_attempt, cancel_confirm, cancel_reconcile, cancel_conclude,
             concluded_state, exit_outcome, durable
<1>6. CASE RestartStep
      BY <1>6 DEF RestartStep, restart_reconciling, restart_interrupt,
             restart_done, durable
<1>7. CASE (\E u \in Tasks : process_exits(u) \/ process_dies(u))
             \/ portusd_crashes \/ portusd_opens
      BY <1>7 DEF process_exits, process_dies, portusd_crashes, portusd_opens,
             durable
<1> QED BY <1>1, <1>2, <1>3, <1>4, <1>5, <1>6, <1>7 DEF Next

\* A task enters "cancelling" only on behalf of its owner.
THEOREM OwnersCancel == Spec => OnlyOwnerCancels
<1>1. IInv /\ [Next]_vars =>
        [\A t \in Tasks :
           st[t] # "cancelling" /\ st'[t] = "cancelling" =>
             cancel.task = t /\ cancel.by = Owner[t]]_vars
      BY CancellingIsOwners
<1> QED BY <1>1, Invariance, PTL DEF OnlyOwnerCancels, Spec

\* A task that moves along the life cycle while its process stays as it is
\* makes a step of the contract.
LEMMA AdvanceStep ==
  ASSUME NEW t \in Tasks, NEW s, <<st[t], s>> \in Contract!Progress,
         st' = [st EXCEPT ![t] = s], proc' = proc
  PROVE  Contract!CNext
  BY DEF Contract!CNext, Contract!Advance, Contract!Progress, Alive

\* So does a verdict about a task whose process is gone.
LEMMA JudgeStep ==
  ASSUME NEW t \in Tasks, NEW s, <<st[t], s>> \in Contract!Judgement,
         ~Alive(t), st' = [st EXCEPT ![t] = s], proc' = proc
  PROVE  Contract!CNext
  BY DEF Contract!CNext, Contract!Judge, Contract!Judgement, Contract!Verdicts,
         Alive

\* The end of a process, and a process that starts, are steps of the contract.
LEMMA EndStep ==
  ASSUME TypeOK, NEW t \in Tasks, NEW s \in {"exit_ok", "exit_fail", "killed"},
         Alive(t), proc' = [proc EXCEPT ![t] = s], st' = st
  PROVE  Contract!CNext
  BY DEF Contract!CNext, Contract!End, Alive, TypeOK

LEMMA SpawnStep ==
  ASSUME TypeOK, NEW t \in Tasks, st[t] = "starting", proc[t] = "none",
         proc' = [proc EXCEPT ![t] = "alive"], st' = st
  PROVE  Contract!CNext
  BY DEF Contract!CNext, Contract!Spawn, Alive, TypeOK

\* Whatever leaves lifecycle states and liveness alone is a stutter.
LEMMA ContractStutter ==
  ASSUME st' = st, {t \in Tasks : Alive(t)}' = {t \in Tasks : Alive(t)}
  PROVE  UNCHANGED Contract!cvars
  BY DEF Contract!cvars

\* A transition that commits along the life cycle, or not at all.
LEMMA TransitionAdvances ==
  ASSUME TypeOK, NEW t \in Tasks, NEW from, NEW to, NEW out,
         transition(t, from, to, out), proc' = proc,
         st[t] = from => <<from, to>> \in Contract!Progress
  PROVE  [Contract!CNext]_(Contract!cvars)
<1>1. CASE st' = st BY <1>1, ContractStutter DEF Alive
<1>2. CASE st' # st
  <2>1. st[t] = from /\ st' = [st EXCEPT ![t] = to]
        BY <1>2 DEF transition, committed
  <2> QED BY <2>1, AdvanceStep
<1> QED BY <1>1, <1>2

\* The same for a transition that carries a verdict.
LEMMA TransitionJudges ==
  ASSUME TypeOK, NEW t \in Tasks, NEW from, NEW to, NEW out, ~Alive(t),
         transition(t, from, to, out), proc' = proc,
         st[t] = from => <<from, to>> \in Contract!Judgement
  PROVE  [Contract!CNext]_(Contract!cvars)
<1>1. CASE st' = st BY <1>1, ContractStutter DEF Alive
<1>2. CASE st' # st
  <2>1. st[t] = from /\ st' = [st EXCEPT ![t] = to]
        BY <1>2 DEF transition, committed
  <2> QED BY <2>1, JudgeStep
<1> QED BY <1>1, <1>2

\* Steps that write neither tasks.state nor a process.
LEMMA QuietStep ==
  ASSUME st' = st, proc' = proc
  PROVE  [Contract!CNext]_(Contract!cvars)
  BY ContractStutter DEF Alive

\* kill_and_reap ends the process or leaves it running.
LEMMA ReapStep ==
  ASSUME TypeOK, NEW next, kill_and_reap(next)
  PROVE  [Contract!CNext]_(Contract!cvars)
<1> USE DEF kill_and_reap, durable, TypeOK
<1>1. CASE proc' \in {proc, [proc EXCEPT ![cur] = "signalled"]} /\ proc[cur] = "alive"
      BY <1>1, ContractStutter DEF Alive
<1>2. CASE proc' = proc BY <1>2, QuietStep
<1>3. CASE \E end \in {"killed", "exit_ok", "exit_fail"} :
             proc[cur] = "alive" /\ proc' = [proc EXCEPT ![cur] = end]
      BY <1>3, EndStep DEF Alive
<1> QED BY <1>1, <1>2, <1>3

\* Launch and registration implement the contract.
LEMMA LaunchRefines ==
  ASSUME IInv, LaunchStep PROVE [Contract!CNext]_(Contract!cvars)
<1> USE DEF IInv, Busy
<1> cur \in Tasks BY DEF TypeOK
<1>1. CASE launch_create \/ associate_create
  <2>1. st[cur] = "absent" /\ proc' = proc
        BY <1>1 DEF launch_create, associate_create, create_task, LaunchInv
  <2>2. st' = st \/ st' = [st EXCEPT ![cur] = "created"]
        BY <1>1 DEF launch_create, associate_create, create_task
  <2> QED BY <2>1, <2>2, QuietStep, AdvanceStep DEF Contract!Progress
<1>2. CASE launch_starting \/ associate_starting
      BY <1>2, TransitionAdvances DEF launch_starting, associate_starting,
             start_task, Contract!Progress
<1>3. CASE fail_starting_task
      BY <1>3, TransitionAdvances DEF fail_starting_task, Contract!Progress
<1>4. CASE launch_running \/ associate_running
      BY <1>4, TransitionAdvances DEF launch_running, associate_running,
             Contract!Progress
<1>5. CASE spawn
  <2>1. st[cur] = "starting" /\ proc[cur] = "none" BY <1>5 DEF spawn, LaunchInv
  <2>2. st' = st /\ (proc' = proc \/ proc' = [proc EXCEPT ![cur] = "alive"])
        BY <1>5 DEF spawn, durable
  <2> QED BY <2>1, <2>2, SpawnStep, QuietStep
<1>6. CASE unrelated_reap \/ unrunning_reap
      BY <1>6, ReapStep DEF unrelated_reap, unrunning_reap
<1> QED
    BY <1>1, <1>2, <1>3, <1>4, <1>5, <1>6, QuietStep
       DEF LaunchStep, start_task_attempt, spawn_failed_attempt, launch_relate,
           unrelated_attempt, unrunning_relate, unrunning_attempt,
           associate_relate

\* refresh_all implements the contract.
LEMMA RefreshRefines ==
  ASSUME IInv, RefreshStep PROVE [Contract!CNext]_(Contract!cvars)
<1> USE DEF IInv
<1> cur \in Tasks BY DEF TypeOK
<1>1. CASE refresh_transition
  <2>1. st[cur] \in {"running", "cancelling"} /\ ~Alive(cur)
        BY <1>1 DEF refresh_transition, Busy, RefreshInv, Completed, Alive
  <2>2. <<st[cur], refreshed_state(cur)>> \in Contract!Judgement
        BY <2>1 DEF refreshed_state, exit_outcome, Contract!Judgement
  <2> QED BY <1>1, <2>1, <2>2, TransitionJudges DEF refresh_transition
<1> QED BY <1>1, QuietStep DEF RefreshStep, refresh_relate, refresh_attempt,
           refresh_done, durable

\* cancel_task implements the contract.
LEMMA CancelRefines ==
  ASSUME IInv, CancelStep PROVE [Contract!CNext]_(Contract!cvars)
<1> USE DEF IInv, Busy
<1> cur \in Tasks BY DEF TypeOK
<1>1. CASE cancel_check
  <2> DEFINE t == cancel.task
  <2>1. t \in Tasks
        BY <1>1 DEF cancel_check, CancelInv, CheckHasCall, CancelCall
  <2>2. CASE st' = st BY <1>1, <2>2, QuietStep DEF cancel_check
  <2>3. CASE st' # st
    <3>1. PICK out : cancel_admitted(cancel) /\ transition(t, st[t], "cancelling", out)
          BY <1>1, <2>3 DEF cancel_check
    <3>2. st[t] \in {"starting", "running", "reconciling"}
          BY <2>1, <2>3, <3>1 DEF cancel_admitted, transition, committed, RowsInv,
                 Untouched, is_terminal, can_transition, TypeOK, TaskState
    <3> QED BY <1>1, <2>1, <3>1, <3>2, TransitionAdvances
            DEF cancel_check, Contract!Progress
  <2> QED BY <2>2, <2>3
<1>2. CASE cancel_kill
      BY <1>2, ContractStutter DEF cancel_kill, Alive, TypeOK, durable
<1>3. CASE cancel_confirm
  <2>1. ~Alive(cur)
        BY <1>3 DEF cancel_confirm, CancelInv, Established, Dead, Alive
  <2> QED BY <1>3, <2>1, TransitionJudges DEF cancel_confirm, Contract!Judgement
<1>4. CASE cancel_reconcile
      BY <1>4, TransitionAdvances DEF cancel_reconcile, Contract!Progress
<1>5. CASE cancel_conclude
  <2>1. CASE verdict = "wait_err"
        BY <1>5, <2>1, TransitionAdvances
           DEF cancel_conclude, concluded_state, Contract!Progress
  <2>2. CASE verdict # "wait_err"
    <3>1. ~Alive(cur)
          BY <1>5, <2>2 DEF cancel_conclude, CancelInv, Established, Dead, Alive
    <3>2. <<"reconciling", concluded_state(cur)>> \in Contract!Judgement
          BY <2>2 DEF concluded_state, exit_outcome, Contract!Judgement
    <3> QED BY <1>5, <3>1, <3>2, TransitionJudges DEF cancel_conclude
  <2> QED BY <2>1, <2>2
<1> QED BY <1>1, <1>2, <1>3, <1>4, <1>5, QuietStep
        DEF CancelStep, cancel_wait, cancel_relate, cancel_attempt, durable

\* So do the restart, arriving requests, and the world.
LEMMA RestartRefines ==
  ASSUME IInv, RestartStep PROVE [Contract!CNext]_(Contract!cvars)
<1> USE DEF IInv, Busy
<1> cur \in Tasks BY DEF TypeOK
<1>1. ASSUME NEW t \in Tasks, restart_reconciling(t)
      PROVE  [Contract!CNext]_(Contract!cvars)
  <2>1. st[t] \in {"starting", "running", "cancelling", "reconciling"}
        BY <1>1 DEF restart_reconciling, RestartInv, RestartLabels,
               needs_reconciliation, is_terminal, RowsInv, TypeOK, TaskState
  <2>2. CASE st' = st BY <1>1, <2>2, QuietStep DEF restart_reconciling
  <2> QED BY <1>1, <2>1, <2>2, TransitionAdvances
          DEF restart_reconciling, Contract!Progress
<1>2. CASE restart_interrupt
      BY <1>2, TransitionAdvances DEF restart_interrupt, Contract!Progress
<1> QED BY <1>1, <1>2, QuietStep DEF RestartStep, restart_done, durable

LEMMA WorldRefines ==
  ASSUME IInv,
         \/ \E t \in Tasks : process_exits(t) \/ process_dies(t)
         \/ portusd_crashes \/ portusd_opens \/ Request
  PROVE  [Contract!CNext]_(Contract!cvars)
<1> USE DEF IInv, durable
<1>1. ASSUME NEW t \in Tasks, process_exits(t) \/ process_dies(t)
      PROVE  [Contract!CNext]_(Contract!cvars)
      BY <1>1, EndStep DEF process_exits, process_dies, Alive
<1> QED BY <1>1, QuietStep
        DEF portusd_crashes, portusd_opens, Request, launch_managed_process,
            register_associated_execution, refresh_all, cancel_task

\* The task engine implements the task contract.
THEOREM Refinement == Spec => ImplementsContract
<1>1. Init => Contract!CInit BY DEF Init, Contract!CInit, Alive
<1>2. IInv /\ [Next]_vars => [Contract!CNext]_(Contract!cvars)
  <2>1. ASSUME IInv, UNCHANGED vars PROVE [Contract!CNext]_(Contract!cvars)
        BY <2>1, QuietStep DEF vars
  <2> QED BY <2>1, LaunchRefines, RefreshRefines, CancelRefines,
             RestartRefines, WorldRefines DEF Next
<1> QED BY <1>1, <1>2, Invariance, PTL
        DEF ImplementsContract, Contract!CSpec, Spec
=============================================================================
