-------------------------- MODULE HealthRecovery --------------------------
(***************************************************************************)
(* Component health and the restart budget of portusd.  A health request   *)
(* reads the state of every component, each under its own lock, and then   *)
(* writes the observations under the state mutex (portusd/src/core.rs,     *)
(* portus-state/src/health.rs): the machine, the index and other requests  *)
(* move on in between.  An observation and the significant event that      *)
(* tells of its change are two statements without a transaction.           *)
(*                                                                         *)
(* A supervisor outside the repository asks for the restart budget of a    *)
(* service and records the restarts it makes.  Time advances in ticks of   *)
(* the wall clock.                                                         *)
(***************************************************************************)
EXTENDS SystemIndex, Integers

CONSTANTS Samples,          \* what the probes measure, in MiB
          MAX_RESTART_ATTEMPTS, RESTART_WINDOW, STABLE_RESET,
          MAX_RECOVERY_ATTEMPTS_PER_COMPONENT, RECOVERY_HISTORY_MAX_AGE

ASSUME BudgetFitsHistory ==
    /\ MAX_RESTART_ATTEMPTS \in Nat \ {0} /\ MAX_RECOVERY_ATTEMPTS_PER_COMPONENT \in Nat
    /\ MAX_RESTART_ATTEMPTS < MAX_RECOVERY_ATTEMPTS_PER_COMPONENT
ASSUME WindowFitsHistory ==
    /\ RESTART_WINDOW \in Nat /\ RECOVERY_HISTORY_MAX_AGE \in Nat
    /\ RESTART_WINDOW < RECOVERY_HISTORY_MAX_AGE

VARIABLES health,    \* health_observations, the last health.changed event of each, requests
          recovery,  \* recovery_attempts of one service and what really happened to it
          audit_failures

healthVars == <<health, recovery, audit_failures>>

allVars == <<idxVars, healthVars>>

NoSnapshot == <<>>    \* the empty function
NotHealthy == -1
Observation(state, reason, disposition) ==
    [state |-> state, reason |-> reason, disposition |-> disposition]

---------------------------------------------------------------------------
\* Observations (portusd/src/core.rs, portus-health/src/resource.rs)

percent(sample) == IF sample.total = 0 THEN 0 ELSE (sample.available * 100) \div sample.total

classify_storage(sample) ==
    IF ~sample.writable THEN Observation("unavailable", "resource_unavailable", "observe")
    ELSE IF percent(sample) < 5 \/ sample.available < 512
         THEN Observation("degraded", "resource_critical", "observe")
    ELSE IF percent(sample) < 10 \/ sample.available < 2048
         THEN Observation("degraded", "resource_low", "observe")
    ELSE Observation("healthy", "ready", "observe")

classify_memory(sample) ==
    IF percent(sample) < 2 \/ sample.available < 256
         THEN Observation("degraded", "resource_critical", "observe")
    ELSE IF percent(sample) < 5 \/ sample.available < 512
         THEN Observation("degraded", "resource_low", "observe")
    ELSE Observation("healthy", "ready", "observe")

\* A sample that cannot be taken has measured = FALSE.
storage_observation(sample) ==
    IF sample.measured THEN classify_storage(sample)
    ELSE Observation("unknown", "status_unavailable", "observe")
memory_observation(sample) ==
    IF sample.measured THEN classify_memory(sample)
    ELSE Observation("unknown", "status_unavailable", "observe")

index_observation ==
    CASE index.state = "healthy" -> Observation("healthy", "ready", "observe")
      [] index.state = "degraded" -> Observation("degraded", "source_disconnected", "reconcile")
      [] index.state \in {"initializing", "rebuilding"} ->
            Observation("unknown", "reconciliation_required", "reconcile")

source_observation(s) ==
    CASE index.sources[s].health = "healthy" -> Observation("healthy", "ready", "observe")
      [] index.sources[s].health \in {"degraded", "unavailable"} ->
            Observation(index.sources[s].health, "source_disconnected", "reconcile")
      [] index.sources[s].health = "unknown" -> Observation("unknown", "not_probed", "observe")

audit_observation ==
    IF audit_failures = 0 THEN Observation("healthy", "ready", "observe")
    ELSE Observation("degraded", "audit_write_failed", "administrator_required")

\* What a request reads: the components that its principal may see.
current_health_catalogue(c, sample) ==
    LET sources == {s \in DOMAIN index.sources : s \in SystemSources \/ c = "user"}
    IN [x \in sources \cup {"index", "audit", "storage", "memory"} |->
            CASE x = "index" -> index_observation
              [] x = "audit" -> audit_observation
              [] x = "storage" -> storage_observation(sample.storage)
              [] x = "memory" -> memory_observation(sample.memory)
              [] OTHER -> source_observation(x)]

---------------------------------------------------------------------------
\* Tables (portus-state/src/health.rs)

\* The components of which a snapshot tells something else than the rows.
Changed(rows, snapshot, which) ==
    {x \in which : x \notin DOMAIN rows \/ rows[x] # snapshot[x]}
Put(f, snapshot, which) ==
    [x \in DOMAIN f \cup which |-> IF x \in which THEN snapshot[x] ELSE f[x]]

\* The row of each component, then the event if the row changed: one after the
\* other, but each reads and writes its own component alone.
record_health_observation(h, snapshot, which) ==
    [h EXCEPT !.rows = Put(@, snapshot, which),
              !.events = Put(@, snapshot, Changed(h.rows, snapshot, which)),
              !.torn = @ \ Changed(h.rows, snapshot, which)]

\* The process dies between the two statements.
RecordTorn(h, snapshot, x) ==
    [h EXCEPT !.rows = Put(@, snapshot, {x}), !.torn = @ \cup Changed(h.rows, snapshot, {x})]

\* The rows of recovery_attempts of the service: a number for the recovery id
\* (UUIDv7, in creation order), the kind and the time.
Attempt(n, kind, at) == [n |-> n, kind |-> kind, at |-> at]

restart_attempt_times_since(attempts, since) ==
    {a \in attempts : a.kind = "restart" /\ a.at >= since}

YoungFor(attempts, a) == {b \in attempts \cup {a} : b.at >= a.at - RECOVERY_HISTORY_MAX_AGE}

\* Mutant: the oldest attempts are kept instead of the latest.
prune_latest(attempts, a) ==
    LET young == YoungFor(attempts, a)
    IN {b \in young : Cardinality({c \in young : c.n < b.n}) < MAX_RECOVERY_ATTEMPTS_PER_COMPONENT}

\* Insert, drop what is too old, keep the latest attempts.
record_recovery_attempt(attempts, a) ==
    LET young == YoungFor(attempts, a)
    IN {b \in young : Cardinality({c \in young : c.n > b.n}) < MAX_RECOVERY_ATTEMPTS_PER_COMPONENT}

\* Whether the service has been healthy for long enough.
stable(now, healthy_since) == healthy_since # NotHealthy /\ now - healthy_since >= STABLE_RESET

\* The number of the attempt that is allowed, 0 for none
\* (portus-health/src/recovery.rs).
evaluate_restart_budget(now, attempts, healthy_since) ==
    LET used == Cardinality({a \in attempts : now - RESTART_WINDOW <= a.at /\ a.at <= now})
    IN IF stable(now, healthy_since) THEN 1
       ELSE IF used >= MAX_RESTART_ATTEMPTS THEN 0
       ELSE used + 1

---------------------------------------------------------------------------
\* Actions

\* health.list, health.show and health.degraded collect the same catalogue.
HealthCollect(c) ==
    /\ health.calls[c] = NoSnapshot /\ Spend("health")
    /\ \E sample \in Samples :
          health' = [health EXCEPT !.calls[c] = current_health_catalogue(c, sample)]
    /\ UNCHANGED <<world, index, calls, recovery, audit_failures>>

HealthRecord(c) ==
    /\ health.calls[c] # NoSnapshot
    /\ health' = [record_health_observation(health, health.calls[c], DOMAIN health.calls[c])
                     EXCEPT !.calls[c] = NoSnapshot]
    /\ UNCHANGED <<idxVars, recovery, audit_failures>>

AuditFails ==
    /\ audit_failures = 0 /\ Spend("health")
    /\ audit_failures' = 1
    /\ UNCHANGED <<world, index, calls, health, recovery>>

\* The daemon dies, perhaps after some of the observations of a request and
\* between the two statements of one of them.
HealthRestart(c) ==
    /\ Restart(c)
    /\ audit_failures' = 0
    /\ UNCHANGED recovery
    /\ LET dead(h) == [h EXCEPT !.calls = [d \in Callers |-> NoSnapshot]]
           pending == DOMAIN health.calls[c]
       IN \/ health' = dead(health)
          \/ \E last \in pending : \E done \in {{}, pending \ {last}} :
                health' = dead(RecordTorn(record_health_observation(health, health.calls[c], done),
                                          health.calls[c], last))

\* The service comes up or goes down.
ServiceChange ==
    /\ Spend("ticks")
    /\ recovery' = [recovery EXCEPT !.healthy_since = IF @ = NotHealthy THEN recovery.now ELSE NotHealthy]
    /\ UNCHANGED <<world, index, calls, health, audit_failures>>

Tick ==
    /\ Spend("ticks")
    /\ recovery' = [recovery EXCEPT !.now = @ + 1]
    /\ UNCHANGED <<world, index, calls, health, audit_failures>>

\* The recovery after an attempt of a kind is recorded.
Recorded(kind) ==
    [recovery EXCEPT !.last = @ + 1,
                     !.attempts = record_recovery_attempt(@, Attempt(recovery.last + 1, kind, recovery.now))]

\* The supervisor restarts the service when the budget allows it.
SuperviseRestart ==
    /\ Spend("restart_attempts")
    /\ evaluate_restart_budget(
          recovery.now,
          restart_attempt_times_since(recovery.attempts, recovery.now - RESTART_WINDOW),
          recovery.healthy_since) # 0
    /\ recovery' = [Recorded("restart") EXCEPT
          !.restarts = Append(@, [n |-> recovery.last + 1, at |-> recovery.now,
                                  stable |-> stable(recovery.now, recovery.healthy_since)]),
          !.healthy_since = NotHealthy]
    /\ UNCHANGED <<world, index, calls, health, audit_failures>>

\* Another recovery action on the same component is recorded.
RecordOtherRecovery ==
    /\ Spend("other_attempts")
    /\ recovery' = Recorded("reconcile")
    /\ UNCHANGED <<world, index, calls, health, audit_failures>>

HealthInit ==
    /\ IdxInit
    /\ health = [rows |-> NoSnapshot, events |-> NoSnapshot,
                 torn |-> {}, calls |-> [c \in Callers |-> NoSnapshot]]
    /\ recovery = [attempts |-> {}, last |-> 0, now |-> 0, healthy_since |-> 0, restarts |-> <<>>]
    /\ audit_failures = 0

HealthNext ==
    \/ /\ \/ \E c \in Callers : IndexCall(c) \/ CollectStage(c) \/ ApplyReconcile(c)
          \/ ResourceChange \/ AvailabilityChange \/ ConditionChange \/ SessionChange
       /\ UNCHANGED healthVars
    \/ \E c \in Callers : HealthCollect(c) \/ HealthRecord(c) \/ HealthRestart(c)
    \/ AuditFails \/ ServiceChange \/ Tick \/ SuperviseRestart \/ RecordOtherRecovery

HealthSpec == HealthInit /\ [][HealthNext]_allVars

---------------------------------------------------------------------------
\* Properties

\* The last health.changed event of a component tells the state, the reason
\* and the disposition that its row shows, also when an older request writes
\* after a newer one; only a process that dies between the two statements
\* leaves a row whose change was not told (record_health_observation).
EventsTellHealth ==
    \A x \in DOMAIN health.rows \ health.torn :
        x \in DOMAIN health.events /\ health.events[x] = health.rows[x]

\* However restarts, other recoveries and stable periods alternate, more than
\* MAX_RESTART_ATTEMPTS restarts within a window include one that a stable
\* period allowed: pruning the history makes the budget forget a restart only
\* after as many later attempts as the history holds
\* (evaluate_restart_budget, record_recovery_attempt).
RestartBudgetHolds ==
    \A i \in 1..(Len(recovery.restarts) - MAX_RESTART_ATTEMPTS) :
        LET first == recovery.restarts[i]
            j == i + MAX_RESTART_ATTEMPTS
        IN /\ recovery.restarts[j].at - first.at <= RESTART_WINDOW
           /\ recovery.restarts[j].n - first.n <= MAX_RECOVERY_ATTEMPTS_PER_COMPONENT
           => \E k \in (i + 1)..j : recovery.restarts[k].stable

\* The records of health hold under late writers, crashes and pruning: events
\* tell the rows, and the history is enough for the restart budget.
HealthRecordsHold == EventsTellHealth /\ RestartBudgetHolds
===========================================================================
