----------------------------- MODULE TaskEngine -----------------------------
(***************************************************************************)
(* The durable task lifecycle of portus-task on top of portus-state, and   *)
(* the managed child processes it owns.                                    *)
(*                                                                         *)
(* portusd runs every engine operation with the state mutex held, so one   *)
(* operation is in progress at a time; pc names its next step.  A step is  *)
(* one durable statement or transaction together with the in-memory code   *)
(* around it, because what interleaves with an operation is the world:     *)
(*   - a managed process exits whenever it likes;                          *)
(*   - portusd crashes (or stops) between any two statements;              *)
(*   - a statement fails, or a transaction commits and the read that       *)
(*     should report it fails, and the operation returns through `?'.      *)
(* Task ids are fresh UUIDs, so each id in Tasks is launched once.         *)
(***************************************************************************)
EXTENDS Naturals, FiniteSets

CONSTANTS Tasks,       \* task identities that may be created
          Principals,  \* callers
          Owner,       \* the principal each task is created for
          IfStates,    \* if_state preconditions callers send; "any" is None
          MaxFaults,   \* bound on statement / syscall failures
          MaxCrashes   \* bound on portusd crashes

TaskState == {"created", "queued", "starting", "running", "waiting", "paused",
              "reconciling", "cancelling", "succeeded", "failed", "cancelled",
              "interrupted"}

ASSUME OwnerAssumption  == Owner \in [Tasks -> Principals]
ASSUME IfStatesAssumption == IfStates \subseteq TaskState \cup {"any"}
ASSUME BoundsAssumption == MaxFaults \in Nat /\ MaxCrashes \in Nat

VARIABLES
  st,         \* tasks.state, or "absent"
  relMode,    \* mode of the task's execution relationship, or "none"
  relStatus,  \* its status column, or "none"
  att,        \* outcome column of the task's attempt: "none", "open", ...
  proc,       \* the operating-system process behind a managed task
  children,   \* TaskEngine.children: tasks whose Child this runtime holds
  phase,      \* "down", "opening" or "ready"
  pc,         \* next step of the operation that holds the state mutex
  cur,        \* task the operation is at (meaningful unless pc = "idle")
  todo,       \* completed / nonterminal tasks the operation still has to do
  cancel,     \* the task.cancel call in progress, or NoCancel
  verdict,    \* what kill and wait told the cancel operation
  faults,     \* failures injected so far
  crashes     \* crashes so far

vars == <<st, relMode, relStatus, att, proc, children, phase, pc, cur, todo,
          cancel, verdict, faults, crashes>>

durable == <<st, relMode, relStatus, att>>
control == <<pc, cur, todo, cancel, verdict>>

is_terminal(s) == s \in {"succeeded", "failed", "cancelled", "interrupted"}

can_transition(from, to) ==
  CASE from = "created"     -> to \in {"queued", "starting", "cancelling"}
    [] from = "queued"      -> to \in {"starting", "cancelling", "failed",
                                       "reconciling"}
    [] from = "starting"    -> to \in {"running", "waiting", "cancelling",
                                       "failed", "reconciling"}
    [] from = "running"     -> to \in {"waiting", "paused", "cancelling",
                                       "succeeded", "failed", "reconciling"}
    [] from = "waiting"     -> to \in {"running", "cancelling", "failed",
                                       "reconciling"}
    [] from = "paused"      -> to \in {"running", "queued", "cancelling",
                                       "reconciling"}
    [] from = "reconciling" -> to \in {"running", "waiting", "paused",
                                       "cancelling", "succeeded", "failed",
                                       "cancelled", "interrupted"}
    [] from = "cancelling"  -> to \in {"cancelled", "running", "reconciling",
                                       "failed"}
    [] OTHER                -> FALSE

AttemptOutcome == {"spawn_failed", "relationship_persist_failed",
                   "task_running_transition_failed", "succeeded", "failed",
                   "cancelled"}

\* "signalled": SIGKILL was sent and the process has not died of it yet.
ProcessState == {"none", "alive", "signalled", "exit_ok", "exit_fail", "killed"}
Alive(t) == proc[t] \in {"alive", "signalled"}
Dead(t)  == proc[t] \in {"exit_ok", "exit_fail", "killed"}

NoCancel == [task |-> "none", by |-> "none", expected |-> "any"]
CancelCall == [task : Tasks, by : Principals, expected : IfStates]
-----------------------------------------------------------------------------
(***************************************************************************)
(* Outcomes of one durable step.  "lost": nothing was written and the call *)
(* returned Err.  "unreported": the transaction committed, but the re-read *)
(* or notify_event that follows it failed, so the caller sees Err as well. *)
(***************************************************************************)
StatementOutcome   == {"ok", "lost"}
TransactionOutcome == {"ok", "lost", "unreported"}

Fault(out) ==
  /\ out # "ok" => faults < MaxFaults
  /\ faults' = IF out = "ok" THEN faults ELSE faults + 1

\* transition_task: the compare-and-set on tasks.state, guarded by
\* can_transition in TaskEngine::transition.
committed(t, from, to, out) ==
  can_transition(from, to) /\ st[t] = from /\ out # "lost"

transition(t, from, to, out) ==
  st' = IF committed(t, from, to, out) THEN [st EXCEPT ![t] = to] ELSE st

returns_ok(t, from, to, out) == committed(t, from, to, out) /\ out = "ok"

\* finish_task_attempt and update_task_relationship_status, single statements.
finish_task_attempt(t, outcome, out) ==
  att' = IF out = "ok" THEN [att EXCEPT ![t] = outcome] ELSE att

stop_relationship_forgotten(t, out) == UNCHANGED relStatus

stop_relationship(t, out) ==
  relStatus' = IF out = "ok" THEN [relStatus EXCEPT ![t] = "stopped"]
                             ELSE relStatus

\* Control of the running operation.
Goto(label) == pc' = label /\ UNCHANGED <<cur, todo, cancel, verdict>>
Return ==
  /\ pc' = "idle" /\ todo' = {} /\ cancel' = NoCancel /\ verdict' = "none"
  /\ UNCHANGED cur

Busy(label) == pc = label
Idle        == phase = "ready" /\ pc = "idle"
-----------------------------------------------------------------------------
(***************************************************************************)
(* launch_managed_process and register_associated_execution.               *)
(***************************************************************************)
launch_managed_process(t) ==
  /\ Idle /\ st[t] = "absent"
  /\ pc' = "launch_create" /\ cur' = t
  /\ UNCHANGED <<durable, proc, children, phase, todo, cancel, verdict,
                 faults, crashes>>

register_associated_execution(t) ==
  /\ Idle /\ st[t] = "absent"
  /\ pc' = "associate_create" /\ cur' = t
  /\ UNCHANGED <<durable, proc, children, phase, todo, cancel, verdict,
                 faults, crashes>>

\* create_task: row and event 1 in one transaction, then notify_event.
create_task(next) ==
  \E out \in TransactionOutcome :
    /\ Fault(out)
    /\ st' = IF out = "lost" THEN st ELSE [st EXCEPT ![cur] = "created"]
    /\ IF out = "ok" THEN Goto(next) ELSE Return
    /\ UNCHANGED <<relMode, relStatus, att, proc, children, phase, crashes>>

\* Created -> Starting.
start_task(next) ==
  \E out \in TransactionOutcome :
    /\ Fault(out)
    /\ transition(cur, "created", "starting", out)
    /\ IF returns_ok(cur, "created", "starting", out) THEN Goto(next) ELSE Return
    /\ UNCHANGED <<relMode, relStatus, att, proc, children, phase, crashes>>

launch_create     == Busy("launch_create")     /\ create_task("launch_starting")
associate_create  == Busy("associate_create")  /\ create_task("associate_starting")
launch_starting   == Busy("launch_starting")   /\ start_task("launch_attempt")
associate_starting == Busy("associate_starting") /\ start_task("associate_relate")

associate_relate ==
  /\ Busy("associate_relate")
  /\ \E out \in StatementOutcome :
       /\ Fault(out)
       /\ IF out = "ok"
            THEN /\ relMode'   = [relMode EXCEPT ![cur] = "associated"]
                 /\ relStatus' = [relStatus EXCEPT ![cur] = "running"]
                 /\ Goto("associate_running")
            ELSE /\ UNCHANGED <<relMode, relStatus>>
                 /\ Return
  /\ UNCHANGED <<st, att, proc, children, phase, crashes>>

associate_running ==
  /\ Busy("associate_running")
  /\ \E out \in TransactionOutcome :
       /\ Fault(out)
       /\ transition(cur, "starting", "running", out)
  /\ Return
  /\ UNCHANGED <<relMode, relStatus, att, proc, children, phase, crashes>>

start_task_attempt ==
  /\ Busy("launch_attempt")
  /\ \E out \in StatementOutcome :
       /\ Fault(out)
       /\ IF out = "ok"
            THEN att' = [att EXCEPT ![cur] = "open"] /\ Goto("launch_spawn")
            ELSE UNCHANGED att /\ Return
  /\ UNCHANGED <<st, relMode, relStatus, proc, children, phase, crashes>>

spawn ==
  /\ Busy("launch_spawn")
  /\ \/ /\ proc' = [proc EXCEPT ![cur] = "alive"]
        /\ Goto("launch_relate")
     \/ /\ UNCHANGED proc
        /\ Goto("spawn_failed_attempt")
  /\ UNCHANGED <<durable, children, phase, faults, crashes>>

spawn_failed_attempt ==
  /\ Busy("spawn_failed_attempt")
  /\ \E out \in StatementOutcome :
       /\ Fault(out)
       /\ finish_task_attempt(cur, "spawn_failed", out)
       /\ IF out = "ok" THEN Goto("spawn_failed_transition") ELSE Return
  /\ UNCHANGED <<st, relMode, relStatus, proc, children, phase, crashes>>

fail_starting_task ==
  /\ pc \in {"spawn_failed_transition", "unrelated_transition"}
  /\ \E out \in TransactionOutcome :
       /\ Fault(out)
       /\ transition(cur, "starting", "failed", out)
  /\ Return
  /\ UNCHANGED <<relMode, relStatus, att, proc, children, phase, crashes>>

\* kill() then wait() of a child the engine gives up on.  Whatever the race
\* with its own exit, the process is dead and reaped afterwards, unless wait or
\* both calls fail ("lost"): the results are ignored and the launch unwinds.
kill_and_reap(next) ==
  /\ \E out \in StatementOutcome :
       /\ Fault(out)
       /\ \/ proc[cur] = "alive" /\ out = "ok"
             /\ \E end \in {"killed", "exit_ok", "exit_fail"} :
                  proc' = [proc EXCEPT ![cur] = end]
          \/ proc[cur] = "alive" /\ out = "lost"
             /\ proc' \in {proc, [proc EXCEPT ![cur] = "signalled"]}
          \/ proc[cur] # "alive" /\ UNCHANGED proc
  /\ Goto(next)
  /\ UNCHANGED <<durable, children, phase, crashes>>

\* Mutant: dropping the Child, which neither kills nor reaps the process.
unrunning_drop ==
  /\ Busy("unrunning_reap") /\ Goto("unrunning_relate")
  /\ UNCHANGED <<durable, proc, children, phase, faults, crashes>>

unrelated_reap == Busy("unrelated_reap") /\ kill_and_reap("unrelated_attempt")
unrunning_reap == Busy("unrunning_reap") /\ kill_and_reap("unrunning_relate")

launch_relate ==
  /\ Busy("launch_relate")
  /\ \E out \in StatementOutcome :
       /\ Fault(out)
       /\ IF out = "ok"
            THEN /\ relMode'   = [relMode EXCEPT ![cur] = "managed"]
                 /\ relStatus' = [relStatus EXCEPT ![cur] = "running"]
                 /\ Goto("launch_running")
            ELSE /\ UNCHANGED <<relMode, relStatus>>
                 /\ Goto("unrelated_reap")
  /\ UNCHANGED <<st, att, proc, children, phase, crashes>>

unrelated_attempt ==
  /\ Busy("unrelated_attempt")
  /\ \E out \in StatementOutcome :
       /\ Fault(out)
       /\ finish_task_attempt(cur, "relationship_persist_failed", out)
       /\ IF out = "ok" THEN Goto("unrelated_transition") ELSE Return
  /\ UNCHANGED <<st, relMode, relStatus, proc, children, phase, crashes>>

\* Starting -> Running; only a launch whose transition returned Ok leaves the
\* Child in TaskEngine.children.
launch_running ==
  /\ Busy("launch_running")
  /\ \E out \in TransactionOutcome :
       /\ Fault(out)
       /\ transition(cur, "starting", "running", out)
       /\ IF returns_ok(cur, "starting", "running", out)
            THEN children' = children \cup {cur} /\ Return
            ELSE UNCHANGED children /\ Goto("unrunning_reap")
  /\ UNCHANGED <<relMode, relStatus, att, proc, phase, crashes>>

unrunning_relate ==
  /\ Busy("unrunning_relate")
  /\ \E out \in StatementOutcome : Fault(out) /\ stop_relationship(cur, out)
  /\ Goto("unrunning_attempt")
  /\ UNCHANGED <<st, relMode, att, proc, children, phase, crashes>>

unrunning_attempt ==
  /\ Busy("unrunning_attempt")
  /\ \E out \in StatementOutcome :
       /\ Fault(out)
       /\ finish_task_attempt(cur, "task_running_transition_failed", out)
  /\ Return
  /\ UNCHANGED <<st, relMode, relStatus, proc, children, phase, crashes>>
-----------------------------------------------------------------------------
(***************************************************************************)
(* refresh_all, called by every task read RPC and by cancel_task.          *)
(***************************************************************************)
\* The children lock: try_wait every child, drop the completed ones.
collect_completed ==
  /\ todo' = {t \in children : Dead(t)}
  /\ children' = children \ todo'
  /\ pc' = "refresh_relate"

refresh_all ==
  /\ Idle
  /\ collect_completed
  /\ UNCHANGED <<durable, proc, phase, cur, cancel, verdict, faults, crashes>>

refresh_relate(t) ==
  /\ Busy("refresh_relate") /\ t \in todo
  /\ \E out \in StatementOutcome :
       /\ Fault(out)
       /\ stop_relationship(t, out)
       /\ IF out = "lost" THEN Return
          ELSE /\ cur' = t
               /\ pc' = IF is_terminal(st[t]) THEN "refresh_relate"
                                              ELSE "refresh_attempt"
               /\ todo' = todo \ {t}
               /\ UNCHANGED <<cancel, verdict>>
  /\ UNCHANGED <<st, relMode, att, proc, children, phase, crashes>>

\* Mutant: success whatever the exit code.
exit_assumed_ok(t) == "succeeded"

exit_outcome(t) == IF proc[t] = "exit_ok" THEN "succeeded" ELSE "failed"

refresh_attempt ==
  /\ Busy("refresh_attempt")
  /\ \E out \in StatementOutcome :
       /\ Fault(out)
       /\ finish_task_attempt(cur, exit_outcome(cur), out)
       /\ IF out = "ok" THEN Goto("refresh_transition") ELSE Return
  /\ UNCHANGED <<st, relMode, relStatus, proc, children, phase, crashes>>

refreshed_state(t) ==
  IF st[t] = "cancelling" THEN "cancelled" ELSE exit_outcome(t)

refresh_transition ==
  /\ Busy("refresh_transition")
  /\ \E out \in TransactionOutcome :
       /\ Fault(out)
       /\ transition(cur, st[cur], refreshed_state(cur), out)
       /\ IF returns_ok(cur, st[cur], refreshed_state(cur), out)
            THEN Goto("refresh_relate") ELSE Return
  /\ UNCHANGED <<relMode, relStatus, att, proc, children, phase, crashes>>

refresh_done ==
  /\ Busy("refresh_relate") /\ todo = {}
  /\ IF cancel = NoCancel THEN Return ELSE Goto("cancel_check")
  /\ UNCHANGED <<durable, proc, children, phase, faults, crashes>>
-----------------------------------------------------------------------------
(***************************************************************************)
(* cancel_task.                                                            *)
(***************************************************************************)
cancel_task(p, t, expected) ==
  /\ Idle /\ st[t] # "absent"
  /\ collect_completed
  /\ cancel' = [task |-> t, by |-> p, expected |-> expected]
  /\ UNCHANGED <<durable, proc, phase, cur, verdict, faults, crashes>>

\* task_view_visible, the if_state precondition, the terminal test and the
\* search for a live managed relationship with cancellation support.
cancel_admitted(c) ==
  /\ Owner[c.task] = c.by
  /\ c.expected \in {"any", st[c.task]}
  /\ ~is_terminal(st[c.task])
  /\ relMode[c.task] = "managed" /\ relStatus[c.task] = "running"

cancel_check ==
  /\ Busy("cancel_check")
  /\ IF ~cancel_admitted(cancel)
       THEN UNCHANGED <<st, children, faults>> /\ Return
       ELSE \E out \in TransactionOutcome :
              LET t == cancel.task IN
              /\ Fault(out)
              /\ transition(t, st[t], "cancelling", out)
              /\ children' = IF returns_ok(t, st[t], "cancelling", out)
                               THEN children \ {t} ELSE children
              /\ IF returns_ok(t, st[t], "cancelling", out) /\ t \in children
                   THEN /\ pc' = "cancel_kill" /\ cur' = t
                        /\ UNCHANGED <<todo, cancel, verdict>>
                   ELSE Return
  /\ UNCHANGED <<relMode, relStatus, att, proc, phase, crashes>>

\* Child::kill: SIGKILL to a process that has exited but is not yet reaped
\* succeeds and does nothing; on a live one it may be refused.
cancel_kill ==
  /\ Busy("cancel_kill")
  /\ \/ /\ proc' = IF proc[cur] = "alive" THEN [proc EXCEPT ![cur] = "signalled"]
                                          ELSE proc
        /\ verdict' = "kill_ok"
        /\ UNCHANGED faults
     \/ /\ proc[cur] = "alive"
        /\ Fault("lost")
        /\ verdict' = "kill_err"
        /\ UNCHANGED proc
  /\ pc' = "cancel_wait"
  /\ UNCHANGED <<durable, children, phase, cur, todo, cancel, crashes>>

\* Mutant: cancellation counts as done once the signal is sent.
cancel_without_wait ==
  /\ Busy("cancel_wait")
  /\ pc' = "cancel_relate"
  /\ UNCHANGED <<durable, proc, children, phase, cur, todo, cancel, verdict,
                 faults, crashes>>

\* Child::wait blocks until the process is dead; it may also fail.
cancel_wait ==
  /\ Busy("cancel_wait")
  /\ \/ /\ Dead(cur)
        /\ pc' = "cancel_relate"
        /\ UNCHANGED <<verdict, faults>>
     \/ /\ Fault("lost")
        /\ verdict' = "wait_err"
        /\ pc' = "cancel_reconcile"
  /\ UNCHANGED <<durable, proc, children, phase, cur, todo, cancel, crashes>>

cancel_relate ==
  /\ Busy("cancel_relate")
  /\ \E out \in StatementOutcome :
       /\ Fault(out)
       /\ stop_relationship(cur, out)
       /\ IF out = "ok" THEN Goto("cancel_attempt") ELSE Return
  /\ UNCHANGED <<st, relMode, att, proc, children, phase, crashes>>

cancel_attempt ==
  /\ Busy("cancel_attempt")
  /\ \E out \in StatementOutcome :
       /\ Fault(out)
       /\ finish_task_attempt(cur, IF verdict = "kill_ok" THEN "cancelled"
                                                          ELSE exit_outcome(cur), out)
       /\ IF out = "lost" THEN Return
          ELSE Goto(IF verdict = "kill_ok" THEN "cancel_confirm"
                                           ELSE "cancel_reconcile")
  /\ UNCHANGED <<st, relMode, relStatus, proc, children, phase, crashes>>

cancel_confirm ==
  /\ Busy("cancel_confirm")
  /\ \E out \in TransactionOutcome :
       Fault(out) /\ transition(cur, "cancelling", "cancelled", out)
  /\ Return
  /\ UNCHANGED <<relMode, relStatus, att, proc, children, phase, crashes>>

cancel_reconcile ==
  /\ Busy("cancel_reconcile")
  /\ \E out \in TransactionOutcome :
       /\ Fault(out)
       /\ transition(cur, "cancelling", "reconciling", out)
       /\ IF returns_ok(cur, "cancelling", "reconciling", out)
            THEN Goto("cancel_conclude") ELSE Return
  /\ UNCHANGED <<relMode, relStatus, att, proc, children, phase, crashes>>

\* Mutant: a failed wait is taken for an unsuccessful exit.
concluded_by_guess(t) == exit_outcome(t)

concluded_state(t) ==
  IF verdict = "wait_err" THEN "interrupted" ELSE exit_outcome(t)

cancel_conclude ==
  /\ Busy("cancel_conclude")
  /\ \E out \in TransactionOutcome :
       Fault(out) /\ transition(cur, "reconciling", concluded_state(cur), out)
  /\ Return
  /\ UNCHANGED <<relMode, relStatus, att, proc, children, phase, crashes>>
-----------------------------------------------------------------------------
(***************************************************************************)
(* The world: process exit, a crash of portusd, and its restart, which     *)
(* runs reconcile_after_runtime_restart before it serves anyone.           *)
(***************************************************************************)
process_exits(t) ==
  /\ proc[t] = "alive"
  /\ \E code \in {"exit_ok", "exit_fail"} : proc' = [proc EXCEPT ![t] = code]
  /\ UNCHANGED <<durable, children, phase, control, faults, crashes>>

process_dies(t) ==
  /\ proc[t] = "signalled"
  /\ proc' = [proc EXCEPT ![t] = "killed"]
  /\ UNCHANGED <<durable, children, phase, control, faults, crashes>>

\* Dropping a Child neither kills nor reaps it: its process lives on.
portusd_crashes ==
  /\ phase # "down" /\ crashes < MaxCrashes
  /\ phase' = "down" /\ children' = {} /\ crashes' = crashes + 1
  /\ Return
  /\ UNCHANGED <<durable, proc, faults>>

\* Mutants: restart forgets launches, or cancellations, that were under way.
skips_starting   == {t \in Tasks : st[t] \in {"running", "cancelling", "reconciling"}}
skips_cancelling == {t \in Tasks : st[t] \in {"starting", "running", "reconciling"}}
skips_running == {t \in Tasks : st[t] \in {"starting", "cancelling", "reconciling"}}

\* nonterminal_task_ids, minus the states the loop skips.
needs_reconciliation ==
  {t \in Tasks : st[t] \notin {"absent", "created", "queued"}
                 /\ ~is_terminal(st[t])}

portusd_opens ==
  /\ phase = "down"
  /\ phase' = "opening" /\ pc' = "restart_next"
  /\ todo' = needs_reconciliation
  /\ UNCHANGED <<durable, proc, children, cur, cancel, verdict, faults, crashes>>

\* An error during reconciliation fails RuntimeCore::open and the daemon.
restart_fails == Return /\ phase' = "down"

restart_reconciling(t) ==
  /\ Busy("restart_next") /\ t \in todo
  /\ \/ /\ st[t] = "reconciling"
        /\ pc' = "restart_interrupt" /\ cur' = t /\ todo' = todo \ {t}
        /\ UNCHANGED <<st, phase, cancel, verdict, faults>>
     \/ /\ st[t] # "reconciling"
        /\ \E out \in TransactionOutcome :
             /\ Fault(out)
             /\ transition(t, st[t], "reconciling", out)
             /\ IF returns_ok(t, st[t], "reconciling", out)
                  THEN /\ pc' = "restart_interrupt" /\ cur' = t
                       /\ todo' = todo \ {t}
                       /\ UNCHANGED <<phase, cancel, verdict>>
                  ELSE restart_fails
  /\ UNCHANGED <<relMode, relStatus, att, proc, children, crashes>>

restart_interrupt ==
  /\ Busy("restart_interrupt")
  /\ \E out \in TransactionOutcome :
       /\ Fault(out)
       /\ transition(cur, "reconciling", "interrupted", out)
       /\ IF returns_ok(cur, "reconciling", "interrupted", out)
            THEN Goto("restart_next") /\ UNCHANGED phase
            ELSE restart_fails
  /\ UNCHANGED <<relMode, relStatus, att, proc, children, crashes>>

restart_done ==
  /\ Busy("restart_next") /\ todo = {}
  /\ phase' = "ready"
  /\ Return
  /\ UNCHANGED <<durable, proc, children, faults, crashes>>
-----------------------------------------------------------------------------
Init ==
  /\ st = [t \in Tasks |-> "absent"]
  /\ relMode   = [t \in Tasks |-> "none"]
  /\ relStatus = [t \in Tasks |-> "none"]
  /\ att  = [t \in Tasks |-> "none"]
  /\ proc = [t \in Tasks |-> "none"]
  /\ children = {}
  /\ phase = "down" /\ pc = "idle"
  /\ cur \in Tasks
  /\ todo = {} /\ cancel = NoCancel /\ verdict = "none"
  /\ faults = 0 /\ crashes = 0

LaunchStep ==
  \/ launch_create \/ launch_starting \/ start_task_attempt \/ spawn
  \/ spawn_failed_attempt \/ fail_starting_task
  \/ launch_relate \/ unrelated_reap \/ unrelated_attempt
  \/ launch_running \/ unrunning_reap \/ unrunning_relate \/ unrunning_attempt
  \/ associate_create \/ associate_starting \/ associate_relate
  \/ associate_running

RefreshStep ==
  \/ \E t \in Tasks : refresh_relate(t)
  \/ refresh_attempt \/ refresh_transition \/ refresh_done

CancelStep ==
  \/ cancel_check \/ cancel_kill \/ cancel_wait \/ cancel_relate
  \/ cancel_attempt \/ cancel_confirm \/ cancel_reconcile \/ cancel_conclude

RestartStep ==
  \/ \E t \in Tasks : restart_reconciling(t)
  \/ restart_interrupt \/ restart_done

Request ==
  \/ \E t \in Tasks : launch_managed_process(t) \/ register_associated_execution(t)
  \/ refresh_all
  \/ \E p \in Principals, t \in Tasks, e \in IfStates :
       cancel_task(p, t, e)

Next ==
  \/ Request \/ LaunchStep \/ RefreshStep \/ CancelStep
  \/ \E t \in Tasks : process_exits(t) \/ process_dies(t)
  \/ portusd_crashes \/ portusd_opens \/ RestartStep

Spec == Init /\ [][Next]_vars
-----------------------------------------------------------------------------
(***************************************************************************)
(* Properties.                                                             *)
(***************************************************************************)
Labels ==
  {"idle", "launch_create", "launch_starting", "launch_attempt",
   "launch_spawn", "launch_relate", "launch_running", "spawn_failed_attempt",
   "spawn_failed_transition", "unrelated_reap", "unrelated_attempt",
   "unrelated_transition", "unrunning_reap", "unrunning_relate", "unrunning_attempt", "associate_create",
   "associate_starting", "associate_relate", "associate_running",
   "refresh_relate", "refresh_attempt", "refresh_transition", "cancel_check",
   "cancel_kill", "cancel_wait", "cancel_relate", "cancel_attempt",
   "cancel_confirm", "cancel_reconcile", "cancel_conclude", "restart_next",
   "restart_interrupt"}

\* Every variable holds a value the code can store in it.
TypeOK ==
  /\ st \in [Tasks -> TaskState \cup {"absent"}]
  /\ relMode \in [Tasks -> {"none", "managed", "associated"}]
  /\ relStatus \in [Tasks -> {"none", "running", "stopped"}]
  /\ att \in [Tasks -> {"none", "open"} \cup AttemptOutcome]
  /\ proc \in [Tasks -> ProcessState]
  /\ children \subseteq Tasks
  /\ phase \in {"down", "opening", "ready"}
  /\ pc \in Labels
  /\ cur \in Tasks
  /\ todo \subseteq Tasks
  /\ cancel \in CancelCall \cup {NoCancel}
  /\ verdict \in {"none", "kill_ok", "kill_err", "wait_err"}
  /\ faults \in 0..MaxFaults
  /\ crashes \in 0..MaxCrashes

\* No task is reported succeeded, failed or cancelled while the process that
\* does its work still runs, whatever failed or crashed on the way.  The one
\* exception is a launch abandoned after its relationship could not be stored,
\* where launch_managed_process ignores what kill and wait return.
ConfirmedStop ==
  \A t \in Tasks :
    st[t] \in {"succeeded", "failed", "cancelled"} /\ Alive(t) =>
      st[t] = "failed" /\ att[t] = "relationship_persist_failed"

\* A verdict is recorded after the evidence for it: the attempt is closed and
\* the execution relationship is not left "running".
EvidenceBeforeVerdict ==
  \A t \in Tasks :
    st[t] \in {"succeeded", "failed", "cancelled"} =>
      att[t] \in AttemptOutcome /\ relStatus[t] # "running"

\* "succeeded" is what the process did: exit code 0 seen by the engine; an
\* attempt recorded as succeeded or failed has the exit it claims.
VerdictMatchesProcess ==
  \A t \in Tasks :
    /\ st[t] = "succeeded" => att[t] = "succeeded"
    /\ att[t] = "succeeded" => proc[t] = "exit_ok"
    /\ att[t] = "failed" => proc[t] = "exit_fail"
    /\ st[t] = "failed" => att[t] \notin {"succeeded", "cancelled"}

\* A verdict about a task is true: its process has stopped, the rows that
\* justify it came first, and they tell what the process did, across failed
\* statements and crashes in launch_managed_process, refresh_all, cancel_task
\* and reconcile_after_restart.
VerdictsAreTrue == ConfirmedStop /\ EvidenceBeforeVerdict /\ VerdictMatchesProcess

\* A Child the engine holds belongs to a task whose rows still say it runs.
ChildrenMatchRows ==
  \A t \in children :
    /\ st[t] \in {"running", "cancelling"}
    /\ relMode[t] = "managed" /\ relStatus[t] = "running" /\ att[t] = "open"
    /\ proc[t] # "none"

\* No single failure leaks a process: between operations, a live process whose
\* task is not being cancelled or given up as interrupted is one the engine
\* still holds, so that it can be waited for and cancelled.
NoLeakedProcess ==
  Idle /\ faults <= 1 => \A t \in Tasks :
    proc[t] = "alive" /\ st[t] \notin {"cancelling", "reconciling", "interrupted"}
      => t \in children

\* As long as no statement failed, a runtime that is between operations has
\* no half-done task: only tasks that a crash left in "created", settled
\* tasks, and running tasks that are attached or associated.
QuiescentRowsSettled ==
  Idle /\ faults = 0 =>
    \A t \in Tasks :
      \/ st[t] \in {"absent", "created"}
      \/ is_terminal(st[t])
      \/ st[t] = "running" /\ (relMode[t] = "associated" \/ t \in children)

\* Only its owner's task.cancel moves a task into "cancelling".
OnlyOwnerCancels ==
  [][\A t \in Tasks :
       st[t] # "cancelling" /\ st'[t] = "cancelling" =>
         cancel.task = t /\ cancel.by = Owner[t]]_vars

\* The engine implements the task contract.
Contract == INSTANCE TaskContract WITH live <- {t \in Tasks : Alive(t)}
ImplementsContract == Contract!CSpec

(***************************************************************************)
(* Liveness.  The thread that holds the mutex keeps executing, the kernel  *)
(* delivers SIGKILL, and supervise-daemon starts portusd after a crash.    *)
(***************************************************************************)
RuntimeFairness ==
  /\ WF_vars(LaunchStep) /\ WF_vars(RefreshStep) /\ WF_vars(CancelStep)
  /\ WF_vars(RestartStep) /\ WF_vars(portusd_opens)
  /\ \A t \in Tasks : WF_vars(process_dies(t))

\* Processes end by themselves and some client keeps reading task state: the
\* engine has no thread of its own, refresh_all runs inside client requests.
WorkloadFairness ==
  /\ \A t \in Tasks : WF_vars(process_exits(t))
  /\ SF_vars(refresh_all)

FairSpec == Spec /\ RuntimeFairness

\* As long as no statement fails, a cancellation that was admitted is
\* concluded, even across a crash.
CancellationSettles ==
  \A t \in Tasks : st[t] = "cancelling" ~> is_terminal(st[t]) \/ faults > 0

\* If processes end, some client keeps reading and no statement fails, a
\* managed task that left "created" reaches a terminal state.
ManagedTaskSettles ==
  WorkloadFairness =>
    \A t \in Tasks :
      st[t] = "starting" \/ (st[t] = "running" /\ relMode[t] = "managed")
        ~> is_terminal(st[t]) \/ relMode[t] = "associated" \/ faults > 0
=============================================================================
