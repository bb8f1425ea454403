---------------------------- MODULE ProtectedApi ----------------------------
(***************************************************************************)
(* portus-apid: the protected credential store, policy-gated upstream      *)
(* requests and credential administration.                                 *)
(*                                                                         *)
(* Every request runs on the thread of its own connection.  The store      *)
(* mutex is taken for one store call at a time, the policy is loaded from  *)
(* disk at each decision and the audit file has a lock of its own, so a    *)
(* step is one store call, one decision or one audit record, and the       *)
(* steps of different requests interleave.                                 *)
(***************************************************************************)
EXTENDS Naturals, FiniteSets

CONSTANTS Requests,        \* request identities; one connection serves one
          Refs, Providers,
          Operations,      \* operation names
          Supports,        \* operations of each provider's definition
          Streaming,       \* those of them that would stream, <<provider, operation>>
          Catalogs,        \* provider definitions a start of portus-apid may find
          InitialStores,   \* what a previous run may have left in the store
          InitialPolicies, \* policies in force at the start
          MAX_CREDENTIALS,
          Situations       \* by name: what clients ask for, how many of them, the
                           \* references whose policy may change, and the bounds
                           \* on policy edits, restarts and faults (failed
                           \* statements and audit writes)

NoCredential == [provider |-> "none"]
Secrets == [for : Providers, by : Requests \cup {"earlier"}]
Credential == [provider : Providers, secret : Secrets, generation : Nat,
               state : {"active", "revoked"}]

UseKinds    == {"request", "show", "list", "health"}
Mutations   == {"provision", "rotate", "revoke", "delete"}
AdminKinds  == Mutations \cup {"admin_show", "admin_list"}
NoRequest == [kind |-> "none"]
Inputs ==
  [kind : {"request"}, ref : Refs, op : Operations]
    \cup [kind : UseKinds \ {"request"}, ref : Refs]
    \cup [kind : {"provision"}, ref : Refs, provider : Providers, root : BOOLEAN]
    \cup [kind : AdminKinds \ {"provision"}, ref : Refs, root : BOOLEAN]
Effects == {"allow", "prompt", "reject"}

ASSUME InputsAssumption ==
  InitialPolicies \subseteq [Refs \X Operations -> Effects]
ASSUME DefinitionsAssumption ==
  /\ Supports \in [Providers -> SUBSET Operations]
  /\ Streaming \subseteq Providers \X Operations
  /\ Catalogs \subseteq SUBSET Providers
\* An earlier run kept the limit, stored secrets for their own provider, and
\* took them from requests that are none of this run's.
ASSUME StoreAssumption ==
  /\ IsFiniteSet(Refs) /\ "earlier" \notin Requests
  /\ InitialStores \subseteq [Refs -> Credential \cup {NoCredential}]
  /\ NoCredential \notin Credential
  /\ \A s \in InitialStores :
       /\ Cardinality({c \in Refs : s[c] # NoCredential}) <= MAX_CREDENTIALS
       /\ \A c \in Refs : s[c] # NoCredential =>
            s[c].secret = [for |-> s[c].provider, by |-> "earlier"]
ASSUME ApiBoundsAssumption ==
  /\ MAX_CREDENTIALS \in Nat
  /\ \A w \in DOMAIN Situations :
       Situations[w] \in [asked : SUBSET Inputs, edited : SUBSET Refs, clients : Nat, edits : Nat,
                          starts : Nat, faults : Nat]

VARIABLES
  store,      \* table credentials
  catalog,    \* definitions loaded when the daemon started
  policy,     \* effect of the policy on disk for each reference and operation
  req,        \* what each request asks for
  at,         \* where its thread is
  meta,       \* the credential row a use request read first
  held,       \* the secret it loaded, in a set of at most one
  shown,      \* references a list or show request returns
  reply,      \* the code it was answered with, or "none"
  preflight,  \* requests whose preflight record is in the audit file
  result,     \* requests whose result record is in the audit file
  audit_failures,
  sent,       \* upstream requests that left the daemon
  changed,    \* requests that changed the store
  usable,     \* history: secrets active for its reference while a request ran
  moved,      \* history: requests whose reference was deleted after they read it
  faults, edits, starts,
  world       \* the situation of this behaviour

bound == Situations[world]

data  == <<store, catalog, policy>>
trail == <<preflight, result, audit_failures>>
past  == <<sent, changed, usable, moved>>
work  == <<req, meta, held, shown>>
vars  == <<data, trail, past, work, at, reply, faults, edits, starts, world>>

Running(r) == at[r] \notin {"new", "done"}
Exists(c)  == store[c] # NoCredential
Active(c)  == Exists(c) /\ store[c].state = "active"
Stored     == {c \in Refs : Exists(c)}

Finish(r, code) == at' = [at EXCEPT ![r] = "audit"] /\ reply' = [reply EXCEPT ![r] = code]
Answer(r, code) == at' = [at EXCEPT ![r] = "done"] /\ reply' = [reply EXCEPT ![r] = code]
Goto(r, label)  == at' = [at EXCEPT ![r] = label] /\ UNCHANGED reply

Fault(failed) ==
  /\ failed => faults < bound.faults
  /\ faults' = IF failed THEN faults + 1 ELSE faults
-----------------------------------------------------------------------------
(***************************************************************************)
(* dispatch_use and dispatch_admin.                                        *)
(***************************************************************************)
first_step(i) ==
  CASE i.kind = "request"             -> "authorize"
    [] i.kind = "show"                -> "lookup"
    [] i.kind \in {"list", "health"}  -> "list"
    [] OTHER                          -> "admin"

\* into_action may refuse the request before anything else happens.
dispatch(r, i) ==
  /\ at[r] = "new"
  /\ Cardinality({q \in Requests : at[q] = "new"}) > Cardinality(Requests) - bound.clients
  /\ req'    = [req EXCEPT ![r] = i]
  /\ usable' = [usable EXCEPT ![r] = IF Active(i.ref) THEN {store[i.ref].secret} ELSE {}]
  /\ Goto(r, first_step(i)) \/ Answer(r, "invalid_request")
  /\ UNCHANGED <<data, trail, meta, held, shown, sent, changed, moved, faults,
                 edits, starts>>

\* The policy decision: a snapshot that cannot be loaded counts as reject.
authorize(r) ==
  /\ at[r] = "authorize"
  /\ LET effect == policy[<<req[r].ref, req[r].op>>] IN
     \/ effect = "reject" /\ Finish(r, "permission_denied")
     \/ effect = "prompt" /\ Finish(r, "approval_required")
     \/ effect = "allow"  /\ Goto(r, "metadata")
  /\ UNCHANGED <<data, trail, past, work, faults, edits, starts>>

\* CredentialStore::show under the first lock, then the definition, operation,
\* size and streaming checks; "big" is a payload over max_request_bytes.
read_metadata(r) ==
  /\ at[r] = "metadata"
  /\ LET row == store[req[r].ref] IN
     \/ Fault(TRUE) /\ Finish(r, "store_unavailable") /\ UNCHANGED meta
     \/ /\ Fault(FALSE)
        /\ meta' = [meta EXCEPT ![r] = row]
        /\ IF row = NoCredential THEN Finish(r, "credential_not_found")
           ELSE IF row.provider \notin catalog
             THEN Finish(r, "provider_definition_invalid")
           ELSE IF req[r].op \notin Supports[row.provider]
             THEN Finish(r, "operation_not_allowed")
           ELSE \/ Finish(r, "request_too_large")
                \/ IF <<row.provider, req[r].op>> \in Streaming
                     THEN Finish(r, "operation_not_allowed") ELSE Goto(r, "preflight")
  /\ UNCHANGED <<data, trail, past, req, held, shown, edits, starts>>

\* Mutant: a preflight record that could not be written is only logged.
preflight_ignored(r, next) ==
  /\ at[r] = "preflight"
  /\ \E failed \in BOOLEAN :
       /\ Fault(failed)
       /\ preflight' = IF failed THEN preflight ELSE preflight \cup {r}
       /\ Goto(r, next)
  /\ UNCHANGED <<data, result, audit_failures, past, work, edits, starts>>

require_audit_preflight(r, next) ==
  /\ at[r] = "preflight"
  /\ \E failed \in BOOLEAN :
       /\ Fault(failed)
       /\ preflight' = IF failed THEN preflight ELSE preflight \cup {r}
       /\ IF failed THEN Finish(r, "store_unavailable") ELSE Goto(r, next)
  /\ UNCHANGED <<data, result, audit_failures, past, work, edits, starts>>

\* Mutant: the state column is not looked at.
loaded_in_any_state(row) ==
  IF row = NoCredential THEN "credential_not_found" ELSE "ok"

loaded(row) ==
  IF row = NoCredential THEN "credential_not_found"
  ELSE IF row.state = "revoked" THEN "credential_revoked" ELSE "ok"

\* CredentialStore::load_secret under a second lock.
load_secret(r) ==
  /\ at[r] = "load"
  /\ LET row == store[req[r].ref] IN
     \/ Fault(TRUE) /\ Finish(r, "store_unavailable") /\ UNCHANGED held
     \/ /\ Fault(FALSE)
        /\ IF loaded(row) = "ok"
             THEN held' = [held EXCEPT ![r] = {row.secret}] /\ Goto(r, "upstream")
             ELSE UNCHANGED held /\ Finish(r, loaded(row))
  /\ UNCHANGED <<data, trail, past, req, meta, shown, edits, starts>>

\* HttpsUpstream::execute with the definition read first and the secret read
\* second; it may fail before anything is sent ("tls_error"), or after, where
\* "upstream_error" stands for every rejected, oversized or late response.
upstream_execute(r) ==
  /\ at[r] = "upstream"
  /\ \/ /\ sent' = sent \cup {[req |-> r, definition |-> meta[r].provider, secret |-> s] :
                               s \in held[r]}
        /\ \E code \in {"ok", "upstream_error"} : Finish(r, code)
     \/ UNCHANGED sent /\ Finish(r, "tls_error")
  /\ UNCHANGED <<data, trail, work, changed, usable, moved, faults, edits, starts>>

\* visible_credential and visible_credentials: the rows under the lock, then a
\* policy decision for each without it.
lookup(r) ==
  /\ at[r] \in {"lookup", "list"}
  /\ LET rows == IF at[r] = "lookup" THEN {req[r].ref} \cap Stored ELSE Stored IN
     \/ Fault(TRUE) /\ Answer(r, "store_unavailable") /\ UNCHANGED shown
     \/ /\ Fault(FALSE)
        /\ shown' = [shown EXCEPT ![r] = {[ref |-> c, provider |-> store[c].provider] : c \in rows}]
        /\ IF at[r] = "lookup" /\ rows = {} THEN Answer(r, "credential_not_found")
                                            ELSE Goto(r, "discover")
  /\ UNCHANGED <<data, trail, past, req, meta, held, edits, starts>>

can_discover(c) ==
  /\ c.provider \in catalog
  /\ \E op \in Supports[c.provider] : policy[<<c.ref, op>>] = "allow"

discover(r) ==
  /\ at[r] = "discover"
  /\ shown' = [shown EXCEPT ![r] = {c \in @ : can_discover(c)}]
  /\ Answer(r, IF req[r].kind = "show" /\ shown'[r] = {} THEN "credential_not_found"
                                                         ELSE "ok")
  /\ UNCHANGED <<data, trail, past, req, meta, held, faults, edits, starts>>

\* The UID 0 test and what dispatch_admin does before the store call.
admin_start(r) ==
  /\ at[r] = "admin"
  /\ IF ~req[r].root THEN Finish(r, "permission_denied")
     ELSE IF req[r].kind = "provision" /\ req[r].provider \notin catalog
       THEN Finish(r, "provider_definition_invalid")
     ELSE Goto(r, IF req[r].kind \in Mutations THEN "preflight" ELSE "read")
  /\ UNCHANGED <<data, trail, past, work, faults, edits, starts>>

admin_read(r) ==
  /\ at[r] = "read"
  /\ LET rows == IF req[r].kind = "admin_show" THEN {req[r].ref} \cap Stored ELSE Stored IN
     \/ Fault(TRUE) /\ Finish(r, "store_unavailable") /\ UNCHANGED shown
     \/ /\ Fault(FALSE)
        /\ shown' = [shown EXCEPT ![r] = {[ref |-> c, provider |-> store[c].provider] : c \in rows}]
        /\ Finish(r, IF req[r].kind = "admin_show" /\ rows = {}
                       THEN "credential_not_found" ELSE "ok")
  /\ UNCHANGED <<data, trail, past, req, meta, held, edits, starts>>
-----------------------------------------------------------------------------
(***************************************************************************)
(* The mutations of CredentialStore, each under the store lock: what is    *)
(* refused, and the row that is written.                                   *)
(***************************************************************************)
\* Mutant: INSERT OR REPLACE instead of INSERT OR IGNORE.
refused_unless_replacing(i) ==
  CASE i.kind = "provision" ->
         IF Cardinality(Stored) >= MAX_CREDENTIALS /\ ~Exists(i.ref)
           THEN "invalid_request" ELSE "ok"
    [] OTHER -> IF Exists(i.ref) THEN "ok" ELSE "credential_not_found"

refused(i) ==
  CASE i.kind = "provision" ->
         IF Cardinality(Stored) >= MAX_CREDENTIALS \/ Exists(i.ref)
           THEN "invalid_request" ELSE "ok"
    [] OTHER -> IF Exists(i.ref) THEN "ok" ELSE "credential_not_found"

written(r, i) ==
  CASE i.kind = "provision" ->
         [provider |-> i.provider, generation |-> 1, state |-> "active",
          secret |-> [for |-> i.provider, by |-> r]]
    [] i.kind = "rotate" ->
         [store[i.ref] EXCEPT !.secret = [for |-> store[i.ref].provider, by |-> r],
                              !.generation = @ + 1, !.state = "active"]
    [] i.kind = "revoke" -> [store[i.ref] EXCEPT !.state = "revoked"]
    [] i.kind = "delete" -> NoCredential

\* History of a store change: the secret that is active from now on, and the
\* running requests that had read a row that is gone.
remember(r, i) ==
  /\ changed' = changed \cup {r}
  /\ usable' = [q \in Requests |->
       IF Running(q) /\ req[q].ref = i.ref /\ store'[i.ref] # NoCredential
            /\ store'[i.ref].state = "active"
         THEN usable[q] \cup {store'[i.ref].secret} ELSE usable[q]]
  /\ moved' = IF i.kind = "delete"
                THEN moved \cup {q \in Requests : Running(q) /\ req[q].ref = i.ref
                                                  /\ meta[q] # NoCredential}
                ELSE moved

\* Mutant: a failed statement is reported as success.
mutate_optimistically(r) ==
  /\ at[r] = "mutate"
  /\ Fault(TRUE) /\ Finish(r, "ok")
  /\ UNCHANGED <<data, trail, past, work, edits, starts>>

mutate(r) ==
  /\ at[r] = "mutate"
  /\ LET i == req[r] IN
     \/ Fault(TRUE) /\ Finish(r, "store_unavailable")
        /\ UNCHANGED <<store, changed, usable, moved>>
     \/ /\ refused(i) # "ok"
        /\ Fault(FALSE) /\ Finish(r, refused(i))
        /\ UNCHANGED <<store, changed, usable, moved>>
     \/ /\ refused(i) = "ok"
        /\ store' = [store EXCEPT ![i.ref] = written(r, i)]
        /\ remember(r, i)
        \* after the commit, show may fail; delete has no such read
        /\ \/ Fault(FALSE) /\ Finish(r, "ok")
           \/ i.kind # "delete" /\ Fault(TRUE) /\ Finish(r, "store_unavailable")
  /\ UNCHANGED <<catalog, policy, trail, work, sent, edits, starts>>

\* audit_use and audit_admin, then the response.
audit_result(r) ==
  /\ at[r] = "audit"
  /\ \E failed \in BOOLEAN :
       /\ Fault(failed)
       /\ result' = IF failed THEN result ELSE result \cup {r}
       /\ audit_failures' = IF failed THEN audit_failures + 1 ELSE audit_failures
  /\ Goto(r, "done")
  /\ UNCHANGED <<data, preflight, past, work, edits, starts>>
-----------------------------------------------------------------------------
(***************************************************************************)
(* The world: policy commits by portus-privd, crash and restart.           *)
(***************************************************************************)
policy_edit(c, op, effect) ==
  /\ edits < bound.edits /\ policy[<<c, op>>] # effect
  /\ policy' = [policy EXCEPT ![<<c, op>>] = effect]
  /\ edits' = edits + 1
  /\ UNCHANGED <<store, catalog, trail, past, work, at, reply, faults, starts>>

\* Requests under way end with their connection; the store is durable.
restart(C) ==
  /\ starts < bound.starts
  /\ starts' = starts + 1
  /\ catalog' = C
  /\ at' = [r \in Requests |-> IF at[r] = "new" THEN "new" ELSE "done"]
  /\ audit_failures' = 0
  /\ UNCHANGED <<store, policy, preflight, result, past, work, reply, faults, edits>>

Init ==
  /\ store \in InitialStores
  /\ catalog \in Catalogs
  /\ policy \in InitialPolicies
  /\ req = [r \in Requests |-> NoRequest] /\ at = [r \in Requests |-> "new"]
  /\ meta = [r \in Requests |-> NoCredential]
  /\ held = [r \in Requests |-> {}] /\ shown = [r \in Requests |-> {}]
  /\ reply = [r \in Requests |-> "none"]
  /\ preflight = {} /\ result = {} /\ audit_failures = 0
  /\ sent = {} /\ changed = {} /\ moved = {}
  /\ usable = [r \in Requests |-> {}]
  /\ faults = 0 /\ edits = 0 /\ starts = 0
  /\ world \in DOMAIN Situations

RequestStep(r) ==
  \/ authorize(r) \/ read_metadata(r) \/ load_secret(r) \/ upstream_execute(r)
  \/ req[r].kind = "request" /\ require_audit_preflight(r, "load")
  \/ req[r].kind \in Mutations /\ require_audit_preflight(r, "mutate")
  \/ lookup(r) \/ discover(r) \/ admin_start(r) \/ admin_read(r) \/ mutate(r)
  \/ audit_result(r)

Next ==
  /\ \/ \E r \in Requests, i \in bound.asked : dispatch(r, i)
     \/ \E r \in Requests : RequestStep(r)
     \/ \E c \in bound.edited, op \in Operations, effect \in Effects :
          policy_edit(c, op, effect)
     \/ \E C \in Catalogs : restart(C)
  /\ UNCHANGED world

Spec == Init /\ [][Next]_vars
-----------------------------------------------------------------------------
(***************************************************************************)
(* Properties.                                                             *)
(***************************************************************************)
Codes == {"none", "ok", "permission_denied", "approval_required", "store_unavailable",
          "credential_not_found", "credential_revoked", "invalid_request",
          "provider_definition_invalid", "operation_not_allowed", "request_too_large",
          "upstream_error", "tls_error"}

\* Every variable holds a value of its type; the catalogue never grows beyond
\* MAX_CREDENTIALS rows.
TypeOK ==
  /\ store \in [Refs -> Credential \cup {NoCredential}]
  /\ Cardinality(Stored) <= MAX_CREDENTIALS
  /\ catalog \in Catalogs
  /\ policy \in [Refs \X Operations -> Effects]
  /\ req \in [Requests -> Inputs \cup {NoRequest}]
  /\ world \in DOMAIN Situations
  /\ at \in [Requests -> {"new", "authorize", "metadata", "preflight", "load",
                          "upstream", "lookup", "list", "discover", "admin",
                          "read", "mutate", "audit", "done"}]
  /\ meta \in [Requests -> Credential \cup {NoCredential}]
  /\ held \in [Requests -> SUBSET Secrets]
  /\ shown \in [Requests -> SUBSET [ref : Refs, provider : Providers]]
  /\ reply \in [Requests -> Codes]
  /\ preflight \subseteq Requests /\ result \subseteq Requests
  /\ audit_failures \in 0..bound.faults
  /\ changed \subseteq Requests /\ moved \subseteq Requests
  /\ usable \in [Requests -> SUBSET Secrets]
  /\ faults \in 0..bound.faults

\* A secret that leaves the daemon was the active secret of the request's
\* credential at some moment while the request ran: nothing that was revoked,
\* rotated away or deleted before the request arrived is ever used, however
\* administration interleaves with it.
SecretWasCurrent ==
  \A u \in sent : u.secret \in usable[u.req]

\* The secret goes out under the provider definition it was stored for, except
\* when the reference was deleted between the two store calls of the request.
SecretMatchesDefinition ==
  \A u \in sent : u.secret.for = u.definition \/ u.req \in moved

\* The secret that dispatch_use sends is the right one: current for its
\* reference and stored for the definition it is sent under.
SecretIsRight == SecretWasCurrent /\ SecretMatchesDefinition

\* Whatever fails or crashes, no secret is used and no credential is changed by
\* a request that has not left a preflight record in the audit file.
AuditedBeforeEffect ==
  changed \cup {u.req : u \in sent} \subseteq preflight

\* The answer to an administrator is honest: "ok" means the change is durable,
\* a refusal means nothing changed; only a store failure leaves it open.
AnswerIsHonest ==
  \A r \in Requests :
    /\ reply[r] = "ok" /\ req[r].kind \in Mutations => r \in changed
    /\ reply[r] \notin {"none", "ok", "store_unavailable"} => r \notin changed

\* A credential's secret changes only together with its generation, and only
\* the holder of UID 0 changes the table.
GenerationsAdvance ==
  [][\A c \in Refs :
       store[c] # store'[c] =>
         /\ \E r \in changed' : req[r].ref = c /\ req[r].root
         /\ Exists(c) /\ store'[c] # NoCredential =>
              /\ store'[c].provider = store[c].provider
              /\ store'[c].generation = store[c].generation
                   + (IF store'[c].secret = store[c].secret THEN 0 ELSE 1)]_vars

\* The credential table tells what became of every request: it keeps its types
\* and its limit, answers are honest, and secrets change only with their
\* generation (CredentialStore, dispatch_admin).
StoreIsHonest == [](TypeOK /\ AnswerIsHonest) /\ GenerationsAdvance
=============================================================================
