----------------------------- MODULE RuntimeServer -----------------------------
(***************************************************************************)
(* The three socket servers: portusd, portus-apid and portus-privd, each   *)
(* in its unix.rs.  A daemon binds its sockets, polls them, gives every    *)
(* accepted connection a permit and a thread, and on a signal joins its    *)
(* threads and removes its sockets.  Daemons of one kind share the socket  *)
(* paths, the state database and the audit file; nothing but the probe of  *)
(* the socket path keeps two of them apart.                                *)
(*                                                                         *)
(* The threads of a daemon meet at its mutexes.  A request is the sequence *)
(* of its lock, unlock and audit steps; what the request computes is the   *)
(* subject of the other modules.                                           *)
(***************************************************************************)
EXTENDS StateStore, AuditFile

CONSTANTS
    Conns,            \* connections a client may open, each once
    MaxConnections,   \* config.max_connections
    Budgets           \* what the environment may do in a behaviour

ASSUME PermitsExist == MaxConnections \in Nat \ {0}

VARIABLES
    kind,       \* which of the three servers this is
    path,       \* the file system at each socket path: None, Other or a daemon
    main,       \* the main thread of each daemon
    bound,      \* listeners each daemon holds open
    permits,    \* active_connections
    workers,    \* JoinHandles the main thread holds
    conn,       \* connections, with the thread that serves each
    todo,       \* steps left to each thread of a daemon
    lock,       \* per daemon: who holds each mutex
    stop,       \* the shutdown flag
    left,       \* what the environment may still do
    looked,     \* history: daemons that listened when the path was probed
    usurped,    \* history: <<d, l>> unlinked by a daemon that looked earlier
    alone       \* history: no two daemons were past the probe together

serverVars == <<path, main, bound, permits, workers, conn, todo, lock, stop,
                left, looked, usurped, alone>>
vars == <<kind, storeVars, auditVars, serverVars>>

None == "none"
Other == "other"
Free == 0            \* nobody: connections are numbered from 1
Threads == Conns \union Daemons    \* a daemon's own name is its extra thread
Locks == {"state", "provider_registry", "policy_status", "policy", "store", "audit"}

(* A connection has a number that is no free mutex, a daemon is neither     *)
(* nothing nor something else at a path and no connection, and a budget is  *)
(* one a file system and a database can start from.                         *)
ASSUME ClientsAssumption ==
    /\ Conns \subseteq Nat \ {0} /\ IsFiniteSet(Conns)
    /\ Daemons \intersect {None, Other} = {} /\ Daemons \intersect Conns = {}

ASSUME BudgetsAssumption ==
    \A b \in Budgets :
        /\ b.kind \in {"portusd", "apid", "privd"}
        /\ b.paths \subseteq Daemons \union {None, Other}
        /\ b.histories \subseteq SUBSET (1 .. LATEST_SCHEMA_VERSION + 1)
        /\ b.integrity \subseteq BOOLEAN

Listeners == IF kind = "portusd" THEN <<"runtime">> ELSE <<"use", "admin">>
ListenerNames == {"runtime", "use", "admin"}

(***************************************************************************)
(* Requests, as the steps they take on the mutexes of the core.            *)
(***************************************************************************)
Lock(l) == [op |-> "lock", on |-> l]
Unlock(l) == [op |-> "unlock", on |-> l]
(* A section that takes no other mutex is one step, possible when l is free.*)
Use(l) == <<[op |-> "use", on |-> l]>>
record_audit == <<Lock("audit"), [op |-> "record", on |-> "audit"], Unlock("audit")>>

runtime_ping == <<>>
schema_version == Use("state")
index_status_value == Use("state")
task_status_value == Use("state")
(* The registry status stays locked while the index and the tasks are read.*)
\* Mutant: the guard of the state lives on while the rest is read.
status_keeps_state ==
    <<Lock("state"), Lock("provider_registry")>> \o index_status_value
    \o <<Lock("policy_status")>> \o task_status_value
    \o <<Unlock("policy_status"), Unlock("provider_registry"), Unlock("state")>>

runtime_status ==
    schema_version
    \o <<Lock("provider_registry")>> \o index_status_value
    \o <<Lock("policy_status")>> \o task_status_value
    \o <<Unlock("policy_status"), Unlock("provider_registry")>>
state_status == Use("state")
capability_list == Use("state")
capability_show == Use("state")
capability_provider_list == Use("state")
capability_provider_show == Use("state")
artifact_list == Use("state")
artifact_show == Use("state")
task_list == Use("state")
task_show == Use("state")
task_events == Use("state")
task_cancel == Use("state")
index_query == Use("state")
index_show == Use("state")
index_topology == Use("state")
index_status == index_status_value
(* Copies of both statuses, then what is stored, then the observations.    *)
current_health_catalogue ==
    Use("provider_registry") \o Use("policy_status") \o task_status_value
    \o Use("state") \o Use("state")
health_list == current_health_catalogue
health_show == current_health_catalogue
health_degraded == current_health_catalogue
provider_index_batch == Use("provider_registry") \o Use("state")
reconcile_index_domain == provider_index_batch \o Use("state") \o index_status_value
warm_index_initial == reconcile_index_domain
index_reconcile == reconcile_index_domain
index_rescan == Use("state") \o index_status_value
index_refresh == Use("state") \o reconcile_index_domain \o Use("state")
index_rebuild == Use("state") \o reconcile_index_domain
policy_effective == Use("policy")
policy_check == Use("policy") \o record_audit
(* A page, the wait for a wake-up that times out, a last page.             *)
serve_task_event_stream == Use("state") \o Use("state")

RuntimeMethod_parse ==
    [runtime_ping |-> runtime_ping, runtime_status |-> runtime_status,
     state_status |-> state_status, capability_list |-> capability_list,
     capability_show |-> capability_show,
     capability_provider_list |-> capability_provider_list,
     capability_provider_show |-> capability_provider_show,
     index_query |-> index_query, index_show |-> index_show,
     index_topology |-> index_topology, index_refresh |-> index_refresh,
     index_rescan |-> index_rescan, index_reconcile |-> index_reconcile,
     index_rebuild |-> index_rebuild, policy_effective |-> policy_effective,
     policy_check |-> policy_check, health_list |-> health_list,
     health_show |-> health_show, health_degraded |-> health_degraded,
     artifact_list |-> artifact_list, artifact_show |-> artifact_show,
     index_status |-> index_status, task_list |-> task_list,
     task_show |-> task_show, task_events |-> task_events,
     task_cancel |-> task_cancel]

(* audit_dispatch writes a record for two of the methods.                  *)
audit_dispatch(m) ==
    IF m \in {"task_cancel", "index_rebuild"} THEN record_audit ELSE <<>>

(* A request that is refused for its form takes the steps of runtime_ping. *)
dispatch(m) == RuntimeMethod_parse[m] \o audit_dispatch(m)

(* portus-apid: reads, protected use and changes of the credential store.  *)
require_audit_preflight == record_audit
api_health == Use("store") \o Use("store")
execute_request ==
    Use("store") \o require_audit_preflight \o Use("store") \o record_audit
api_mutation == require_audit_preflight \o Use("store") \o record_audit
dispatch_use == {api_health, execute_request}
dispatch_admin == {Use("store") \o record_audit, api_mutation}

(* portus-privd: the decision or the change, then its record.              *)
execute == Use("policy") \o record_audit
admin_change == Use("policy") \o Use("policy") \o record_audit

(* Scripts that may arrive on a listener.                                  *)
Requests(l) ==
    CASE kind = "portusd" -> {dispatch(m) : m \in DOMAIN RuntimeMethod_parse}
      [] kind = "apid" -> IF l = "use" THEN dispatch_use ELSE dispatch_admin
      [] kind = "privd" -> IF l = "use" THEN {execute} ELSE {admin_change}

(***************************************************************************)
(* Start.                                                                  *)
(***************************************************************************)
Step(op, l) == [op |-> op, on |-> l]

(* Checks that only let the start go on or fail (BindFails).               *)
Check(what) == Step("check", what)
api_validate_config == Check("limits and directories")
validate_service_identity_and_paths == Check("service user, groups and paths")
verify_store_contract == Check("owner and mode of the credential database")
priv_validate_config == Check("root, limits and directories")

RuntimeServer_bind ==
    <<Check("limits and directory"), Step("prepare", "runtime"), Step("audit", None),
      Step("state", None), Step("reconcile", None), Step("listen", "runtime"),
      Step("ready", None)>>
(* The socket contract is verified last, and its failure leaves both paths.*)
ProtectedApiServer_bind ==
    <<api_validate_config, validate_service_identity_and_paths,
      Step("prepare", "use"), Step("prepare", "admin"),
      verify_store_contract, Step("audit", None), Step("listen", "use"), Step("listen", "admin"),
      Step("verify_socket_contract", None)>>
PrivilegeServer_bind ==
    <<priv_validate_config, Step("prepare", "use"), Step("prepare", "admin"),
      Step("audit", None), Step("listen", "use"), Step("listen", "admin")>>

bind == CASE kind = "portusd" -> RuntimeServer_bind
          [] kind = "apid"    -> ProtectedApiServer_bind
          [] kind = "privd"   -> PrivilegeServer_bind

Off == [at |-> "off", steps |-> <<>>, seen |-> 0, conn |-> Free]
Starting(d, op) ==
    /\ main[d].at = "bind" /\ main[d].steps # <<>>
    /\ Head(main[d].steps).op = op
Target(d) == Head(main[d].steps).on
Serving(d) == main[d].at \in {"poll", "load", "cas", "reap", "join"}

(* After its last step the daemon enters the loop of run_until.            *)
Looping == [Off EXCEPT !.at = "reap"]
NextStep(d) ==
    IF Len(main[d].steps) = 1 THEN Looping
    ELSE [main[d] EXCEPT !.steps = Tail(@), !.at = "bind", !.seen = 0]

(* A daemon past its probes may touch everything the daemons share.        *)
PastProbe(d) ==
    \/ main[d].at \notin {"off", "bind", "connect", "unlink"}
    \/ main[d].at = "bind"
       /\ \A i \in 1 .. Len(main[d].steps) :
            main[d].steps[i].op \notin {"prepare"}

Charge(what) == left[what] > 0 /\ left' = [left EXCEPT ![what] = @ - 1]

(* Live sockets of others that d destroys by unlinking the path of l, when *)
(* d has probed that path and they were not there yet.                     *)
UsurpedBy(d, l) ==
    {<<e, l>> : e \in {x \in Daemons \ {d} :
        /\ path[l] = x /\ l \in bound[x] /\ x \notin looked[d][l]
        /\ PastProbe(d) \/ main[d].at = "unlink"}}
Unlinked(d, l) ==
    /\ path' = [path EXCEPT ![l] = None]
    /\ usurped' = usurped \union UsurpedBy(d, l)

(* The end of a process, however it comes: descriptors close and with them *)
(* its connections; sockets keep their place in the file system.           *)
Ended(d, unlinked) ==
    /\ main' = [main EXCEPT ![d] = Off]
    /\ bound' = [bound EXCEPT ![d] = {}]
    /\ permits' = [permits EXCEPT ![d] = 0]
    /\ workers' = [workers EXCEPT ![d] = {}]
    /\ conn' = [c \in Conns |->
            IF conn[c].to = d THEN [conn[c] EXCEPT !.at = "closed"] ELSE conn[c]]
    /\ todo' = [t \in Threads |->
            IF t = d \/ (t \in Conns /\ conn[t].to = d) THEN <<>> ELSE todo[t]]
    /\ lock' = [lock EXCEPT ![d] = [l \in Locks |-> Free]]
    /\ stop' = [stop EXCEPT ![d] = FALSE]
    /\ store' = [store EXCEPT ![d] = NoStore]
    /\ abandon_rotation(d)
    /\ looked' = [e \in Daemons |-> [l \in ListenerNames |->
            IF e = d THEN {} ELSE looked[e][l] \ {d}]]
    /\ usurped' = {p \in usurped \union unlinked : p[1] # d}
    /\ UNCHANGED <<kind, db, backups, upgraded, files, recorded, alone>>

Advanced(d) ==
    /\ main' = [main EXCEPT ![d] = NextStep(d)]
    /\ alone' = (alone /\ ~(\E e \in Daemons \ {d} : PastProbe(e) /\ PastProbe(d)'))

Start(d) ==
    /\ main[d].at = "off"
    /\ left.starts[d] > 0 /\ left' = [left EXCEPT !.starts[d] = @ - 1]
    /\ main' = [main EXCEPT ![d] = [Off EXCEPT !.at = "bind", !.steps = bind]]
    /\ UNCHANGED <<kind, storeVars, auditVars, path, bound, permits, workers, conn,
                   todo, lock, stop, looked, usurped, alone>>

validate_config(d) ==
    /\ Starting(d, "check")
    /\ Advanced(d)
    /\ UNCHANGED <<kind, storeVars, auditVars, path, bound, permits, workers, conn,
                   todo, lock, stop, left, looked, usurped>>

(* prepare_socket_path: nothing there, something else, or a socket.        *)
Looks(d, l) ==
    looked' = [looked EXCEPT ![d][l] = {e \in Daemons \ {d} : l \in bound[e]}]

symlink_metadata(d) ==
    /\ Starting(d, "prepare")
    /\ LET l == Target(d) IN
       \/ /\ path[l] = None
          /\ Looks(d, l)
          /\ Advanced(d)
       \/ /\ path[l] \in Daemons
          /\ main' = [main EXCEPT ![d].at = "connect"]
          /\ UNCHANGED <<looked, alone>>
    /\ UNCHANGED <<kind, storeVars, auditVars, path, bound, permits, workers, conn,
                   todo, lock, stop, left, usurped>>

connects(l) == path[l] \in Daemons /\ l \in bound[path[l]]

probe(d) ==
    /\ main[d].at = "connect"
    /\ LET l == Target(d) IN
       /\ ~connects(l)
       /\ Looks(d, l)
       /\ IF path[l] = None /\ kind = "portusd"
          THEN Advanced(d)
          ELSE main' = [main EXCEPT ![d].at = "unlink"] /\ UNCHANGED alone
    /\ UNCHANGED <<kind, storeVars, auditVars, path, bound, permits, workers, conn,
                   todo, lock, stop, left, usurped>>

remove_stale(d) ==
    /\ main[d].at = "unlink"
    /\ path[Target(d)] # None
    /\ Unlinked(d, Target(d))
    /\ Advanced(d)
    /\ UNCHANGED <<kind, storeVars, auditVars, bound, permits, workers, conn,
                   todo, lock, stop, left, looked>>

prepare_socket_path(d) == symlink_metadata(d) \/ probe(d) \/ remove_stale(d)

(* The ways in which the probe of the path ends the start.                 *)
ProbeFails(d) ==
    \/ Starting(d, "prepare") /\ path[Target(d)] = Other
    \/ main[d].at = "connect" /\ connects(Target(d))
    \/ main[d].at = "unlink" /\ path[Target(d)] = None

open_audit(d) ==
    /\ Starting(d, "audit")
    /\ files' = open_with_limits
    /\ Advanced(d)
    /\ UNCHANGED <<kind, storeVars, recorded, rotating, cut, path, bound, permits,
                   workers, conn, todo, lock, stop, left, looked, usurped>>

(* Open the state, then restart reconciliation of index and tasks.         *)
open_state(d) ==
    /\ Starting(d, "state")
    /\ IF store[d].at = "open"
       THEN Advanced(d) /\ UNCHANGED storeVars
       ELSE open(d) /\ UNCHANGED <<main, alone>>
    /\ UNCHANGED <<kind, auditVars, path, bound, permits, workers, conn, todo, lock,
                   stop, left, looked, usurped>>

(* reconcile_provider_manifests takes the state, the registry status and   *)
(* writes a record; reconcile_policy both policy mutexes, one inside the   *)
(* other.  No other thread exists yet.                                     *)
reconcile_provider_manifests == Use("state") \o Use("provider_registry") \o record_audit
reconcile_policy ==
    <<Lock("policy_status")>> \o Use("policy") \o <<Unlock("policy_status")>>

reconcile(d) ==
    /\ Starting(d, "reconcile")
    /\ \/ /\ main[d].seen = 0
          /\ todo' = [todo EXCEPT ![d] = reconcile_provider_manifests \o reconcile_policy]
          /\ main' = [main EXCEPT ![d].seen = 1]
          /\ UNCHANGED alone
       \/ /\ main[d].seen = 1 /\ todo[d] = <<>>
          /\ Advanced(d)
          /\ UNCHANGED todo
    /\ UNCHANGED <<kind, storeVars, auditVars, path, bound, permits, workers, conn,
                   lock, stop, left, looked, usurped>>

(* UnixListener::bind refuses a path that exists.  The mode (and for       *)
(* portus-privd the owner) is set by path, after the bind.                 *)
bind_listener(d) ==
    /\ Starting(d, "listen")
    /\ path[Target(d)] = None
    /\ path' = [path EXCEPT ![Target(d)] = d]
    /\ bound' = [bound EXCEPT ![d] = @ \union {Target(d)}]
    /\ Advanced(d)
    /\ UNCHANGED <<kind, storeVars, auditVars, permits, workers, conn, todo, lock,
                   stop, left, looked, usurped>>

(* A second listener that fails takes the first one's path with it.        *)
ListenFails(d) == Starting(d, "listen") /\ path[Target(d)] # None

verify_socket_contract(d) ==
    /\ Starting(d, "verify_socket_contract")
    /\ \A l \in bound[d] : path[l] \in Daemons
    /\ Advanced(d)
    /\ UNCHANGED <<kind, storeVars, auditVars, path, bound, permits, workers, conn,
                   todo, lock, stop, left, looked, usurped>>

(* The index is warmed by a thread nobody joins.                           *)
mark_ready(d) ==
    /\ Starting(d, "ready")
    /\ todo' = [todo EXCEPT ![d] = warm_index_initial]
    /\ Advanced(d)
    /\ UNCHANGED <<kind, storeVars, auditVars, path, bound, permits, workers, conn,
                   lock, stop, left, looked, usurped>>

(* The path a failing start removes: the first listener's when the second  *)
(* one fails.  A path whose mode cannot be set was bound in the same step. *)
Leftover(d) ==
    IF Starting(d, "listen") THEN {l \in ListenerNames : l \in bound[d]} ELSE {}

EndsRemoving(d, ls) ==
    /\ path' = [l \in ListenerNames |-> IF l \in ls THEN None ELSE path[l]]
    /\ Ended(d, UNION {UsurpedBy(d, l) : l \in ls})

(* Errors that follow from what the start finds.                           *)
\* Mutant: a refused start removes its socket paths as Drop does.
refused_cleans_up(d) ==
    /\ \/ ProbeFails(d) \/ ListenFails(d)
       \/ Starting(d, "state") /\ OpenFails(d)
       \/ /\ Starting(d, "verify_socket_contract")
          /\ \E l \in bound[d] : path[l] \notin Daemons
    /\ EndsRemoving(d, Range(Listeners))
    /\ UNCHANGED left

BindRefused(d) ==
    /\ \/ ProbeFails(d) \/ ListenFails(d)
       \/ Starting(d, "state") /\ OpenFails(d)
       \/ /\ Starting(d, "verify_socket_contract")
          /\ \E l \in bound[d] : path[l] \notin Daemons
    /\ EndsRemoving(d, Leftover(d))
    /\ UNCHANGED left

(* Errors of the system: a directory, a file, a mode that cannot be set.   *)
BindFails(d) ==
    /\ main[d].at \in {"bind", "connect", "unlink"}
    /\ todo[d] = <<>>
    /\ Charge("faults")
    /\ EndsRemoving(d, Leftover(d))

(***************************************************************************)
(* run_until.                                                              *)
(***************************************************************************)
Waiting(d, l) == {c \in Conns : conn[c].at = "queued" /\ conn[c].to = d /\ conn[c].on = l}
Polled(d) == Head(main[d].steps)

(* accept: portusd takes one connection per turn of its loop, the other    *)
(* servers take all that wait (accept_ready).                              *)
AfterAccept(d) == IF kind = "portusd" THEN "reap" ELSE "poll"

accept(d) ==
    /\ main[d].at = "poll"
    /\ \E c \in Waiting(d, Polled(d)) :
        /\ main' = [main EXCEPT ![d].at = "load", ![d].conn = c]
        /\ conn' = [conn EXCEPT ![c].at = "accepted"]
    /\ UNCHANGED <<kind, storeVars, auditVars, path, bound, permits, workers, todo,
                   lock, stop, left, looked, usurped, alone>>

WouldBlock(d) ==
    /\ main[d].at = "poll"
    /\ Waiting(d, Polled(d)) = {}
    /\ main' = [main EXCEPT ![d] =
            IF Len(main[d].steps) = 1 THEN [Off EXCEPT !.at = "reap"]
            ELSE [main[d] EXCEPT !.steps = Tail(@)]]
    /\ UNCHANGED <<kind, storeVars, auditVars, path, bound, permits, workers, conn,
                   todo, lock, stop, left, looked, usurped, alone>>

acquire_load(d) ==
    /\ main[d].at = "load"
    /\ IF permits[d] >= MaxConnections
       THEN /\ main' = [main EXCEPT ![d].at = AfterAccept(d), ![d].conn = Free]
            /\ conn' = [conn EXCEPT ![main[d].conn].at = "closed"]
       ELSE /\ main' = [main EXCEPT ![d].at = "cas", ![d].seen = permits[d]]
            /\ UNCHANGED conn
    /\ UNCHANGED <<kind, storeVars, auditVars, path, bound, permits, workers, todo,
                   lock, stop, left, looked, usurped, alone>>

\* Mutant: a plain store instead of a compare-and-exchange.
plain_store(d) == main[d].at = "cas"

compare_exchange(d) == permits[d] = main[d].seen

acquire_cas(d) ==
    /\ main[d].at = "cas"
    /\ IF compare_exchange(d)
       THEN /\ permits' = [permits EXCEPT ![d] = main[d].seen + 1]
            /\ workers' = [workers EXCEPT ![d] = @ \union {main[d].conn}]
            /\ conn' = [conn EXCEPT ![main[d].conn].at = "reading"]
            /\ main' = [main EXCEPT ![d].at = AfterAccept(d), ![d].conn = Free,
                                    ![d].seen = 0]
       ELSE /\ main' = [main EXCEPT ![d].at = "load", ![d].seen = 0]
            /\ UNCHANGED <<permits, workers, conn>>
    /\ UNCHANGED <<kind, storeVars, auditVars, path, bound, todo, lock, stop, left,
                   looked, usurped, alone>>

Finished(c) == conn[c].at = "closed"

reap_finished_workers(d) ==
    /\ main[d].at = "reap"
    /\ workers' = [workers EXCEPT ![d] = {c \in @ : ~Finished(c)}]
    /\ main' = [main EXCEPT ![d] =
            IF stop[d] THEN [Off EXCEPT !.at = "join"]
            ELSE [Off EXCEPT !.at = "poll", !.steps = Listeners]]
    /\ UNCHANGED <<kind, storeVars, auditVars, path, bound, permits, conn, todo,
                   lock, stop, left, looked, usurped, alone>>

\* Mutant: the shutdown also waits for connections nobody accepted.
join_waits_for_backlog(d) ==
    /\ main[d].at = "join"
    /\ \A c \in Conns : conn[c].to = d => Finished(c)
    /\ main' = [main EXCEPT ![d].at = "drop", ![d].steps = Listeners]
    /\ UNCHANGED <<kind, storeVars, auditVars, path, bound, permits, workers, conn,
                   todo, lock, stop, left, looked, usurped, alone>>

join(d) ==
    /\ main[d].at = "join"
    /\ \A c \in workers[d] : Finished(c)
    /\ main' = [main EXCEPT ![d].at = "drop", ![d].steps = Listeners]
    /\ UNCHANGED <<kind, storeVars, auditVars, path, bound, permits, workers, conn,
                   todo, lock, stop, left, looked, usurped, alone>>

(* Drop: every path that holds a socket is removed, whoever bound it; the  *)
(* listeners close after that.                                             *)
drop(d) ==
    /\ main[d].at = "drop"
    /\ \/ /\ main[d].steps # <<>>
          /\ LET l == Head(main[d].steps) IN
                IF path[l] \in Daemons THEN Unlinked(d, l) ELSE UNCHANGED <<path, usurped>>
          /\ main' = [main EXCEPT ![d].steps = Tail(@)]
          /\ UNCHANGED <<kind, storeVars, auditVars, bound, permits, workers, conn,
                         todo, lock, stop, left, looked, alone>>
       \/ /\ main[d].steps = <<>>
          /\ Ended(d, {})
          /\ UNCHANGED <<path, left>>

(* Any other error of accept ends the loop without a join.                 *)
accept_fails(d) ==
    /\ main[d].at = "poll"
    /\ Charge("faults")
    /\ main' = [main EXCEPT ![d].at = "drop", ![d].steps = Listeners, ![d].seen = 1]
    /\ workers' = [workers EXCEPT ![d] = {}]
    /\ UNCHANGED <<kind, storeVars, auditVars, path, bound, permits, conn, todo,
                   lock, stop, looked, usurped, alone>>

main_thread(d) ==
    \/ validate_config(d) \/ prepare_socket_path(d) \/ open_audit(d) \/ open_state(d)
    \/ reconcile(d) \/ bind_listener(d) \/ verify_socket_contract(d) \/ mark_ready(d)
    \/ BindRefused(d)
    \/ accept(d) \/ WouldBlock(d) \/ acquire_load(d)
    \/ acquire_cas(d) \/ reap_finished_workers(d) \/ join(d) \/ drop(d)

(***************************************************************************)
(* serve_connection, one thread per connection.                            *)
(***************************************************************************)
read_json_line(c) ==
    /\ conn[c].at = "reading"
    /\ Charge("requests")
    /\ \E r \in Requests(conn[c].on) : todo' = [todo EXCEPT ![c] = r]
    /\ conn' = [conn EXCEPT ![c].at = "busy", ![c].ends = (kind # "portusd")]
    /\ UNCHANGED <<kind, storeVars, auditVars, path, main, bound, permits, workers,
                   lock, stop, looked, usurped, alone>>

(* task.events.follow gives the connection away.                           *)
follow(c) ==
    /\ conn[c].at = "reading" /\ kind = "portusd"
    /\ Charge("requests")
    /\ todo' = [todo EXCEPT ![c] = serve_task_event_stream]
    /\ conn' = [conn EXCEPT ![c].at = "busy", ![c].ends = TRUE]
    /\ UNCHANGED <<kind, storeVars, auditVars, path, main, bound, permits, workers,
                   lock, stop, looked, usurped, alone>>

Closes(c) ==
    /\ conn' = [conn EXCEPT ![c].at = "closing"]
    /\ UNCHANGED <<kind, storeVars, auditVars, path, main, bound, permits, workers,
                   todo, lock, stop, left, looked, usurped, alone>>

(* End of file, a truncated, oversized or malformed frame, or the timeout. *)
read_ends(c) == conn[c].at = "reading" /\ Closes(c)

Answered(c) == conn[c].at = "busy" /\ todo[c] = <<>>

write_json_line(c) ==
    /\ Answered(c)
    /\ \/ conn[c].ends /\ Closes(c)
       \/ /\ ~conn[c].ends
          /\ conn' = [conn EXCEPT ![c].at = "reading"]
          /\ UNCHANGED <<kind, storeVars, auditVars, path, main, bound, permits,
                         workers, todo, lock, stop, left, looked, usurped, alone>>

write_fails(c) == Answered(c) /\ ~conn[c].ends /\ Closes(c)

(* The permit goes with the closure of the thread, after the stream.       *)
ConnectionPermit_drop(c) ==
    /\ conn[c].at = "closing"
    /\ permits' = [permits EXCEPT ![conn[c].to] = @ - 1]
    /\ conn' = [conn EXCEPT ![c].at = "closed"]
    /\ UNCHANGED <<kind, storeVars, auditVars, path, main, bound, workers, todo, lock,
                   stop, left, looked, usurped, alone>>

Process(t) == IF t \in Conns THEN conn[t].to ELSE t
Doing(t, op) == todo[t] # <<>> /\ Head(todo[t]).op = op
Mutex(t) == Head(todo[t]).on

lock_mutex(t) ==
    /\ Doing(t, "lock") \/ Doing(t, "use")
    /\ lock[Process(t)][Mutex(t)] = Free
    /\ lock' = IF Doing(t, "use") THEN lock
               ELSE [lock EXCEPT ![Process(t)][Mutex(t)] = t]
    /\ todo' = [todo EXCEPT ![t] = Tail(@)]
    /\ UNCHANGED <<kind, storeVars, auditVars, path, main, bound, permits, workers,
                   conn, stop, left, looked, usurped, alone>>

unlock_mutex(t) ==
    /\ Doing(t, "unlock")
    /\ lock' = [lock EXCEPT ![Process(t)][Mutex(t)] = Free]
    /\ todo' = [todo EXCEPT ![t] = Tail(@)]
    /\ UNCHANGED <<kind, storeVars, auditVars, path, main, bound, permits, workers,
                   conn, stop, left, looked, usurped, alone>>

record(t) ==
    /\ Doing(t, "record")
    /\ \/ rotate_if_needed(Process(t)) /\ UNCHANGED todo
       \/ append(Process(t)) /\ todo' = [todo EXCEPT ![t] = Tail(@)]
    /\ UNCHANGED <<kind, storeVars, path, main, bound, permits, workers, conn, lock,
                   stop, left, looked, usurped, alone>>

(* A failed record is counted and the request goes on, except that         *)
(* portus-apid drops the effect it wanted to announce.                     *)
AfterFailedRecord(t) ==
    IF kind = "apid" /\ Len(todo[t]) > 2
    THEN <<Unlock("audit")>> \o record_audit ELSE Tail(todo[t])

record_fails(t) ==
    /\ Doing(t, "record")
    /\ Charge("faults")
    /\ abandon_rotation(Process(t))
    /\ todo' = [todo EXCEPT ![t] = AfterFailedRecord(t)]
    /\ UNCHANGED <<kind, storeVars, files, recorded, path, main, bound, permits,
                   workers, conn, lock, stop, looked, usurped, alone>>

thread(t) ==
    \/ lock_mutex(t) \/ unlock_mutex(t) \/ record(t)
    \/ t \in Conns /\ (write_json_line(t) \/ ConnectionPermit_drop(t))

(***************************************************************************)
(* The environment: clients, signals and the ends of processes.            *)
(***************************************************************************)
connect(c) ==
    /\ conn[c].at = "new" /\ \A b \in Conns : b < c => conn[b].at # "new"
    /\ Charge("conns")
    /\ \E l \in ListenerNames :
        /\ connects(l)
        /\ conn' = [conn EXCEPT ![c] =
                [at |-> "queued", to |-> path[l], on |-> l, ends |-> FALSE]]
    /\ UNCHANGED <<kind, storeVars, auditVars, path, main, bound, permits, workers,
                   todo, lock, stop, looked, usurped, alone>>

signal(d) ==
    /\ main[d].at # "off" /\ ~stop[d]
    /\ Charge("stops")
    /\ stop' = [stop EXCEPT ![d] = TRUE]
    /\ UNCHANGED <<kind, storeVars, auditVars, path, main, bound, permits, workers,
                   conn, todo, lock, looked, usurped, alone>>

crash(d) ==
    /\ main[d].at # "off"
    /\ Charge("crashes")
    /\ Ended(d, {})
    /\ UNCHANGED path

Next ==
    \/ \E d \in Daemons : \/ Start(d) \/ main_thread(d) \/ BindFails(d) \/ accept_fails(d)
                          \/ signal(d) \/ crash(d)
    \/ \E t \in Threads : thread(t) \/ record_fails(t)
    \/ \E c \in Conns : \/ connect(c) \/ read_json_line(c) \/ follow(c) \/ read_ends(c)
                        \/ write_fails(c)

(* A budget names the server, what the file system holds at the start and  *)
(* how often the environment may act.                                      *)
Init ==
    \E b \in Budgets :
        /\ kind = b.kind
        /\ left = b.left
        /\ \E p \in b.paths : path = [l \in ListenerNames |-> p]
        /\ db \in [applied : b.histories, ok : b.integrity]
        /\ backups = [v \in Versions |-> Absent]
        /\ store = [d \in Daemons |-> NoStore]
        /\ upgraded = {}
        /\ files = [k \in 0 .. Archives |-> NoFile]
        /\ recorded = 0 /\ cut = 0
        /\ rotating = [d \in Daemons |-> Idle]
        /\ main = [d \in Daemons |-> Off]
        /\ bound = [d \in Daemons |-> {}]
        /\ permits = [d \in Daemons |-> 0]
        /\ workers = [d \in Daemons |-> {}]
        /\ conn = [c \in Conns |-> [at |-> "new", to |-> None, on |-> None, ends |-> FALSE]]
        /\ todo = [t \in Threads |-> <<>>]
        /\ lock = [d \in Daemons |-> [l \in Locks |-> Free]]
        /\ stop = [d \in Daemons |-> FALSE]
        /\ looked = [d \in Daemons |-> [l \in ListenerNames |-> {}]]
        /\ usurped = {}
        /\ alone = TRUE

(* Main threads are scheduled; of the others some thread that can run does *)
(* (their work is finite, so this is enough); a blocked read ends by its   *)
(* timeout.  Nothing makes clients, administrators or the supervisor act.  *)
Fairness ==
    /\ \A d \in Daemons : WF_vars(main_thread(d))
    /\ WF_vars(\E t \in Threads : thread(t))
    /\ WF_vars(\E c \in Conns : read_ends(c))

ServerSpec == Init /\ [][Next]_vars /\ Fairness

(***************************************************************************)
(* Properties.                                                             *)
(***************************************************************************)
(* Every component has its type.                                           *)
ServerTypeOK ==
    /\ StoreTypeOK /\ AuditTypeOK
    /\ kind \in {"portusd", "apid", "privd"}
    /\ \A l \in ListenerNames : path[l] \in Daemons \union {None, Other}
    /\ \A d \in Daemons :
        /\ main[d].at \in {"off", "bind", "connect", "unlink", "poll", "load",
                           "cas", "reap", "join", "drop"}
        /\ bound[d] \subseteq Range(Listeners)
        /\ permits[d] \in 0 .. MaxConnections
        /\ workers[d] \subseteq Conns
    /\ \A c \in Conns :
        conn[c].at \in {"new", "queued", "accepted", "reading", "busy", "closing", "closed"}

(* A serving daemon can be reached at its paths, whatever other daemons    *)
(* start, fail, crash or stop meanwhile.  The one exception is a rival     *)
(* that probed the path before this daemon bound it and unlinks it only    *)
(* now (prepare_socket_path, and Drop of such a rival).                    *)
ServingIsReachable ==
    \A d \in Daemons : Serving(d) =>
        \A l \in bound[d] : path[l] = d \/ <<d, l>> \in usurped

(* A daemon that probes the path while another one listens there never     *)
(* gets as far as the shared state (the database, its restart              *)
(* reconciliation and the audit file), unless that daemon is on its way    *)
(* out or has lost its path already.                                       *)
StartsAlone ==
    \A e \in Daemons : PastProbe(e) =>
        \A l \in Range(Listeners) : \A d \in looked[e][l] :
            <<d, l>> \in usurped \/ main[d].at = "drop"

(* The counter of connections is the number of threads that hold a permit: *)
(* none is lost or returned twice, however main thread and workers meet at *)
(* the atomic counter, so the limit neither leaks nor lets more in.        *)
PermitsCountWorkers ==
    \A d \in Daemons : main[d].at # "off" =>
        permits[d] = Cardinality({c \in Conns :
            conn[c].to = d /\ conn[c].at \in {"reading", "busy", "closing"}})

(* When a daemon asked to stop removes its sockets, no request is still    *)
(* being served: run_until joined every thread it had started, reaped or   *)
(* not.  A failing accept (seen = 1) skips the join.                       *)
ShutdownDrains ==
    \A d \in Daemons : main[d].at = "drop" /\ main[d].seen = 0 =>
        \A c \in Conns : conn[c].to = d => conn[c].at \in {"queued", "closed"}

(* portusd serves only from a database it understands and has checked.     *)
ReadyIsCurrent ==
    \A d \in Daemons : Serving(d) /\ kind = "portusd" =>
        db.applied = Versions /\ db.ok

(* Every version but the first that was applied to a database in use has   *)
(* a complete copy of the database as it was before, across failed starts  *)
(* and crashes in the middle of a copy or between copy and migration.  Two *)
(* daemons that start at once can replace each other's copy.               *)
BackupsHold ==
    alone => \A u \in upgraded : backups[u[1]] = u[2] /\ u[2] = u[1] - 1

(* The audit files hold the latest records in order and without a gap,     *)
(* whatever the threads of the daemon do at once and wherever a rotation   *)
(* was cut short: as many as fill the archives, less one archive for every *)
(* rotation that was cut short.  The mutex of the file does not reach      *)
(* another process.                                                        *)
AuditIsRecentHistory ==
    alone =>
        /\ Retained = [i \in 1 .. Len(Retained) |-> recorded - Len(Retained) + i]
        /\ \/ Len(Retained) = recorded
           \/ Len(Retained) >= FileLimit * (Archives - cut)

(* Every connection is eventually refused or served to its end: no two     *)
(* threads wait for each other's mutex, and the loop takes every           *)
(* connection.  Clients send finitely many requests.                       *)
EveryConnectionEnds ==
    \A c \in Conns : conn[c].at = "queued" ~> conn[c].at = "closed"

(* A daemon that is told to stop ends.                                     *)
ShutdownCompletes ==
    \A d \in Daemons : stop[d] ~> main[d].at = "off"

(* A socket path has one owner, whatever starts, fails, crashes or stops:    *)
(* who serves is reachable, and nobody starts beside a serving daemon.       *)
SocketsAreOwned == ServingIsReachable /\ StartsAlone

(* Threads and permits are accounted for at every step of accept, reap and   *)
(* shutdown: no permit without a worker, and no worker left behind.          *)
ThreadsAreCounted == ServerTypeOK /\ PermitsCountWorkers /\ ShutdownDrains

(* Both: a daemon that serves owns its socket, its permits and its threads.  *)
ServersHold == SocketsAreOwned /\ ThreadsAreCounted

(* Files survive processes that end in the middle of their work: the         *)
(* database is at the version a daemon serves, every migration has its copy, *)
(* and the audit files are the latest records in order.                      *)
FilesSurviveCrashes == ReadyIsCurrent /\ BackupsHold /\ AuditIsRecentHistory
===============================================================================
