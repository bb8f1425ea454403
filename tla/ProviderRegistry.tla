------------------------- MODULE ProviderRegistry -------------------------
(***************************************************************************)
(* Provider registrations of portusd: manifests under                      *)
(* /etc/portus/capabilities are reconciled into rows of portus.db          *)
(* (portus-provider, portus-state/provider.rs), and the PortusBrowser      *)
(* adapter projects probes of the broker into the same rows                *)
(* (portus-browser-integration).                                           *)
(*                                                                         *)
(* A provider id is the index of its row: ids are UUIDv7, so creation      *)
(* order is their order.  Every operation on portus.db runs under the      *)
(* state mutex; job is the operation that holds it and has more than one   *)
(* transaction to commit.  Texts, labels and identifiers are abstracted to *)
(* whether they are well formed.                                           *)
(***************************************************************************)
EXTENDS Naturals, Sequences, FiniteSets, Functions

CONSTANTS TypeList,       \* provider types, in the order of their file names
          Manifests,      \* manifest files by name: what each of them contains
          Users,          \* principals that run a browser
          BrowserIds,     \* browser session identities
          PageLimit,      \* limit of a list request
          MAX_MANIFESTS, MAX_BROWSER_SESSIONS,
          MaxRegs, MaxEvents

ASSUME PageLimitAssumption == PageLimit \in Nat \ {0}

Types == Range(TypeList)
NoFile == "no_file"
BrowserType == "portus-browser"
BrowserCapability == "browser.control"
BrowserResource == "browser-session"
SchemaVersion == 1

VARIABLES regs,     \* provider_registrations with their detail rows
          refs,     \* provider_resource_refs of the browser-session type
          job,      \* operation in progress under the state mutex
          registry, \* RuntimeCore.provider_registry
          dir,      \* the manifest directory
          browser,  \* the broker and its sessions, outside Portus
          probe,    \* a projection of the adapter that is not applied yet
          pager,    \* a client that lists the providers page by page
          bound     \* how much of the outside world has happened: edits, probes, faults

provVars == <<regs, refs, job, registry, dir, browser, probe, pager, bound>>

Idle == [op |-> "idle"]
Free == job = Idle
Happens == bound < MaxEvents /\ bound' = bound + 1
InjectFault == Happens
NoDuplicates(s) == IsInjective(s)
ActiveIds == {p \in DOMAIN regs : ~regs[p].removed}

---------------------------------------------------------------------------
\* Manifest validation (portus-provider/src/manifest.rs)

validate_interface_target(i) == i.targets = {i.kind}

validate_health(m) ==
    CASE m.health.kind = "none" -> m.health.reference = "none"
      [] m.health.kind \in {"structured-cli", "unix-socket", "protocol-heartbeat"} ->
            \E i \in Range(m.interfaces) : i.id = m.health.reference
      [] OTHER -> m.health.reference # "none"

validate_capability(m, c) ==
    /\ c.version > 0
    /\ c.interfaces # <<>>
    /\ NoDuplicates(c.interfaces)
    /\ Range(c.interfaces) \subseteq {i.id : i \in Range(m.interfaces)}

validate(t, m) ==
    /\ m.version = SchemaVersion
    /\ m.well_formed
    /\ m.type = t
    /\ m.scopes # <<>> /\ NoDuplicates(m.scopes)
    /\ m.interfaces # <<>> /\ m.capabilities # <<>>
    /\ NoDuplicates([k \in DOMAIN m.interfaces |-> m.interfaces[k].id])
    /\ \A i \in Range(m.interfaces) : i.version > 0 /\ validate_interface_target(i)
    /\ NoDuplicates([k \in DOMAIN m.capabilities |-> m.capabilities[k].id])
    /\ \A c \in Range(m.capabilities) : validate_capability(m, c)
    /\ NoDuplicates(m.resources) /\ NoDuplicates(m.skills)
    /\ validate_health(m)

\* The reading half of reconcile_directory_at: every file is trusted and parses.
Files == {t \in Types : dir.files[t] # NoFile}
validate_trust == dir.state = "trusted"
ManifestsReadable ==
    /\ validate_trust
    /\ Cardinality(Files) <= MAX_MANIFESTS
    /\ \A t \in Files : validate(t, Manifests[dir.files[t]])

---------------------------------------------------------------------------
\* Rows (portus-state/src/provider.rs)

\* Mutant: the capability rows of the previous manifest are kept.
details_kept(row, m) ==
    [row EXCEPT !.interfaces = {i.id : i \in Range(m.interfaces)},
                !.resource_types = Range(m.resources),
                !.capabilities = IF DOMAIN @ # {} THEN @ ELSE
                    [id \in {c.id : c \in Range(m.capabilities)} |->
                       [links |-> UNION {Range(c.interfaces) : c \in Range(m.capabilities)},
                        availability |-> "unknown"]]]

\* The detail rows replace_provider_details writes for a manifest.
replace_provider_details(row, m) ==
    [row EXCEPT
       !.interfaces = {i.id : i \in Range(m.interfaces)},
       !.capabilities = [id \in {c.id : c \in Range(m.capabilities)} |->
            [links |-> UNION {Range(c.interfaces) : c \in {d \in Range(m.capabilities) : d.id = id}},
             availability |-> "unknown"]],
       !.resource_types = Range(m.resources),
       !.health_contract = m.health]

to_system_registration_spec(t, row) ==
    [row EXCEPT !.compatibility = "unknown", !.health = "unknown"]

NewRow(t) ==
    [type |-> t, removed |-> FALSE, successor |-> 0,
     compatibility |-> "unknown", health |-> "unknown",
     interfaces |-> {}, capabilities |-> <<>>, resource_types |-> {},
     health_contract |-> [kind |-> "none", reference |-> "none"]]

active_provider_id(t) == {p \in ActiveIds : regs[p].type = t}

\* The latest tombstone of the type that has no successor yet gets one.
LinkSuccessor(rows, t, new) ==
    LET open == {p \in DOMAIN rows : rows[p].removed /\ rows[p].type = t
                                        /\ rows[p].successor = 0}
    IN  IF open = {} THEN rows
        ELSE LET last == CHOOSE p \in open : \A q \in open : q <= p
             IN  [rows EXCEPT ![last].successor = new]

reconcile_provider_registration(t, m) ==
    LET existing == active_provider_id(t)
        Filled(row) == replace_provider_details(to_system_registration_spec(t, row), m)
    IN  IF existing = {}
        THEN regs' = Append(LinkSuccessor(regs, t, Len(regs) + 1), Filled(NewRow(t)))
        ELSE \E p \in existing : regs' = [regs EXCEPT ![p] = Filled(@)]

Tombstoned(row) == [row EXCEPT !.removed = TRUE, !.health = "unavailable"]

\* Mutant: the references of the removed provider are left alone.
tombstone_rows_only(seen) ==
    /\ regs' = [p \in DOMAIN regs |->
                  IF regs[p].type \notin seen /\ ~regs[p].removed
                  THEN Tombstoned(regs[p]) ELSE regs[p]]
    /\ UNCHANGED refs

tombstone_missing_system_providers(seen) ==
    LET gone == {p \in ActiveIds : regs[p].type \notin seen}
    IN  /\ regs' = [p \in DOMAIN regs |-> IF p \in gone THEN Tombstoned(regs[p]) ELSE regs[p]]
        /\ refs' = {IF r.provider \in gone /\ r.availability # "removed"
                    THEN [r EXCEPT !.availability = "stale"] ELSE r : r \in refs}

active_system_provider_count == Cardinality(ActiveIds)

\* Rows keyed by (provider, id, generation); a new report replaces the old one.
Upsert(rows, new) ==
    {r \in rows : ~\E n \in new : /\ n.provider = r.provider /\ n.id = r.id
                                  /\ n.generation = r.generation} \cup new

validate_provider_runtime_status(s) ==
    /\ s.compatibility \in {"compatible", "incompatible", "unknown"}
    /\ s.health \in {"healthy", "degraded", "unavailable", "unknown"}
    /\ s.capability \in {"available", "degraded", "unavailable", "unknown"}

CanUpdateStatus(p) == p \in ActiveIds /\ BrowserCapability \in DOMAIN regs[p].capabilities

update_provider_runtime_status(p, s) ==
    /\ validate_provider_runtime_status(s)
    /\ CanUpdateStatus(p)
    /\ regs' = [regs EXCEPT ![p].compatibility = s.compatibility,
                            ![p].health = s.health,
                            ![p].capabilities[BrowserCapability].availability = s.capability]

validate_runtime_resource(p, r) ==
    r.provider = p /\ r.availability \in {"available", "unavailable"}

reconcile_provider_resource_refs(p, owner, resources) ==
    /\ p \in ActiveIds
    /\ BrowserResource \in regs[p].resource_types
    /\ \A r \in resources : validate_runtime_resource(p, r)
    /\ LET staled == {IF r.provider = p /\ r.owner = owner /\ r.availability # "removed"
                      THEN [r EXCEPT !.availability = "stale"] ELSE r : r \in refs}
       IN  refs' = Upsert(staled, resources)

record_provider_resource_ref(r) ==
    /\ r.provider \in ActiveIds
    /\ LET old == {o \in refs : o.provider = r.provider /\ o.id = r.id
                                   /\ o.generation = r.generation}
       IN  refs' = (refs \ old) \cup
                   IF old = {} THEN {r}
                   ELSE {[o EXCEPT !.availability = r.availability] : o \in old}

provider_resource_availability(p, id, gen) ==
    LET rows == {r \in refs : r.provider = p /\ r.id = id /\ r.generation = gen}
    IN  IF rows = {} THEN "none" ELSE (CHOOSE r \in rows : TRUE).availability

---------------------------------------------------------------------------
\* portusd: reconcile_provider_manifests and reconcile_directory_at

Finished(health, count) ==
    /\ job' = Idle
    /\ registry' = [health |-> health, active_count |-> count]

ReconcileFails ==
    /\ Finished("degraded", active_system_provider_count)
    /\ UNCHANGED <<regs, refs, dir, browser, probe, pager>>

reconcile_directory_rejected ==
    /\ Free
    /\ ~ManifestsReadable
    /\ Happens
    /\ ReconcileFails

reconcile_directory ==
    /\ Free
    /\ ManifestsReadable
    /\ Cardinality(Files) + Len(regs) <= MaxRegs
    /\ job' = [op |-> "reconcile", todo |-> Files, found |-> dir.files]
    /\ UNCHANGED <<regs, refs, registry, dir, browser, probe, pager, bound>>

\* The manifests are registered in the order of their file names.
Before(t, u) == \E i, j \in DOMAIN TypeList : i <= j /\ TypeList[i] = t /\ TypeList[j] = u
IsNext(t) == t \in job.todo /\ \A u \in job.todo : Before(t, u)
HasSystemScope(t) == "system" \in Range(Manifests[job.found[t]].scopes)

reconcile_next_manifest ==
    /\ job.op = "reconcile"
    /\ \E t \in job.todo :
         /\ IsNext(t) /\ HasSystemScope(t)
         /\ reconcile_provider_registration(t, Manifests[job.found[t]])
         /\ job' = [job EXCEPT !.todo = @ \ {t}]
    /\ UNCHANGED <<refs, registry, dir, browser, probe, pager, bound>>

\* Mutant: a manifest that cannot be registered is treated as absent.
stops_with_tombstones ==
    /\ job.op = "reconcile"
    /\ \E t \in job.todo :
         /\ IsNext(t) /\ ~HasSystemScope(t)
         /\ tombstone_missing_system_providers({u \in Types \ {t} : job.found[u] # NoFile})
    /\ Finished("degraded", Cardinality({p \in DOMAIN regs' : ~regs'[p].removed}))
    /\ UNCHANGED <<dir, browser, probe, pager, bound>>

\* A manifest without system scope, or a failing statement, ends the loop early.
reconcile_stops ==
    /\ job.op = "reconcile"
    /\ \/ /\ \E t \in job.todo : IsNext(t) /\ ~HasSystemScope(t)
          /\ UNCHANGED bound
       \/ InjectFault
    /\ ReconcileFails

reconcile_tombstones ==
    /\ job.op = "reconcile"
    /\ job.todo = {}
    /\ LET seen == {t \in Types : job.found[t] # NoFile}
       IN  /\ tombstone_missing_system_providers(seen)
           /\ Finished("healthy", Cardinality(seen))
    /\ UNCHANGED <<dir, browser, probe, pager, bound>>

---------------------------------------------------------------------------
\* The PortusBrowser adapter (portus-browser-integration/src/lib.rs)

parse_broker_status(answer) == answer # "garbled"
parse_browser_list(list) == list.readable /\ Cardinality(list.sessions) <= MAX_BROWSER_SESSIONS

\* project_runtime decides the state from the two probes, in this order.
project_runtime(broker, list) ==
    IF broker = "unavailable" THEN "Unavailable"
    ELSE IF ~parse_broker_status(broker) THEN "DegradedUnknownCompatibility"
    ELSE IF broker = "stopped" THEN "Unavailable"
    ELSE IF broker = "other_protocol" THEN "Incompatible"
    ELSE IF ~parse_browser_list(list) \/ \E s \in list.sessions : ~s.connected
         THEN "DegradedCompatible"
    ELSE "HealthyCompatible"

ProjectedResources(p, owner, broker, list) ==
    IF broker = "running" /\ parse_browser_list(list)
    THEN {[provider |-> p, owner |-> owner, id |-> s.id, generation |-> s.generation,
           availability |-> IF s.connected THEN "available" ELSE "unavailable"] :
             s \in list.sessions}
    ELSE {}

projection(state) ==
    CASE state = "HealthyCompatible" ->
            [compatibility |-> "compatible", health |-> "healthy", capability |-> "available"]
      [] state = "DegradedCompatible" ->
            [compatibility |-> "compatible", health |-> "degraded", capability |-> "degraded"]
      [] state = "DegradedUnknownCompatibility" ->
            [compatibility |-> "unknown", health |-> "degraded", capability |-> "degraded"]
      [] state = "Unavailable" ->
            [compatibility |-> "unknown", health |-> "unavailable", capability |-> "unavailable"]
      [] state = "Incompatible" ->
            [compatibility |-> "incompatible", health |-> "unavailable",
             capability |-> "unavailable"]

NoProbe == [stage |-> "none"]

\* The adapter asks the broker first and lists the sessions afterwards.
probe_broker(p, u) ==
    /\ probe = NoProbe
    /\ p \in ActiveIds /\ regs[p].type = BrowserType
    /\ Happens
    /\ \E answer \in {browser.broker, "unavailable", "garbled"} :
         probe' = [stage |-> "broker", provider |-> p, owner |-> u, broker |-> answer]
    /\ UNCHANGED <<regs, refs, job, registry, dir, browser, pager>>

probe_sessions ==
    /\ probe.stage = "broker"
    /\ \E readable \in BOOLEAN :
         probe' = [stage |-> "listed", provider |-> probe.provider, owner |-> probe.owner,
                   broker |-> probe.broker,
                   list |-> [readable |-> readable,
                             sessions |-> IF readable THEN browser.sessions ELSE {}]]
    /\ UNCHANGED <<regs, refs, job, registry, dir, browser, pager, bound>>

\* apply_projection: two transactions on the registry, under one lock.
apply_runtime_status ==
    /\ Free
    /\ probe.stage = "listed"
    /\ \/ /\ update_provider_runtime_status(probe.provider,
                  projection(project_runtime(probe.broker, probe.list)))
          /\ job' = [op |-> "apply"]
          /\ UNCHANGED <<probe, bound>>
       \/ /\ \/ InjectFault
             \/ ~CanUpdateStatus(probe.provider) /\ UNCHANGED bound
          /\ probe' = NoProbe
          /\ UNCHANGED <<regs, job>>
    /\ UNCHANGED <<refs, registry, dir, browser, pager>>

apply_resources ==
    /\ job.op = "apply"
    /\ \/ /\ reconcile_provider_resource_refs(probe.provider, probe.owner,
                ProjectedResources(probe.provider, probe.owner, probe.broker, probe.list))
          /\ UNCHANGED bound
       \/ InjectFault /\ UNCHANGED refs
       \/ /\ BrowserResource \notin regs[probe.provider].resource_types
          /\ UNCHANGED <<refs, bound>>
    /\ job' = Idle
    /\ probe' = NoProbe
    /\ UNCHANGED <<regs, registry, dir, browser, pager>>

---------------------------------------------------------------------------
\* Listing (list_providers_visible): pages of PageLimit ids after a cursor.

\* Mutant: the last row of a page is lost when it is the only one left.
list_off_by_one(after) ==
    LET rest == {p \in ActiveIds : p > after}
        items == {p \in rest : Cardinality({q \in rest : q <= p}) <= PageLimit}
    IN  [items |-> items, next_cursor |-> IF Cardinality(rest) > PageLimit + 1
                                          THEN CHOOSE p \in items : \A q \in items : q <= p ELSE 0]

list_providers_visible(after) ==
    LET rest == {p \in ActiveIds : p > after}
        Rank(p) == Cardinality({q \in rest : q <= p})
        items == {p \in rest : Rank(p) <= PageLimit}
        more == Cardinality(rest) > PageLimit
    IN  [items |-> items,
         next_cursor |-> IF more THEN CHOOSE p \in items : \A q \in items : q <= p ELSE 0]

NoListing == [open |-> FALSE, cursor |-> 0, seen |-> {}, steady |-> {}, done |-> FALSE]

list_first_page ==
    /\ Free
    /\ pager = NoListing
    /\ LET page == list_providers_visible(0)
       IN  pager' = [open |-> page.next_cursor # 0, cursor |-> page.next_cursor,
                     seen |-> page.items, steady |-> ActiveIds, done |-> page.next_cursor = 0]
    /\ UNCHANGED <<regs, refs, job, registry, dir, browser, probe, bound>>

list_next_page ==
    /\ Free
    /\ pager.open
    /\ LET page == list_providers_visible(pager.cursor)
       IN  pager' = [open |-> page.next_cursor # 0, cursor |-> page.next_cursor,
                     seen |-> pager.seen \cup page.items,
                     steady |-> pager.steady \cap ActiveIds,
                     done |-> page.next_cursor = 0]
    /\ UNCHANGED <<regs, refs, job, registry, dir, browser, probe, bound>>

---------------------------------------------------------------------------
\* The environment: an administrator, browsers, and crashes of portusd

\* A reconciliation works on what it has read: edits meanwhile wait for its end.
edit_manifests ==
    /\ Free
    /\ Happens
    /\ \/ \E t \in Types, m \in DOMAIN Manifests \cup {NoFile} :
            /\ dir.files[t] # m
            /\ dir' = [dir EXCEPT !.files[t] = m]
       \/ \E s \in {"trusted", "untrusted"} \ {dir.state} :
            dir' = [dir EXCEPT !.state = s]
    /\ UNCHANGED <<regs, refs, job, registry, browser, probe, pager>>

browser_changes ==
    /\ Free
    /\ Happens
    /\ \/ \E b \in {"stopped", "running", "other_protocol"} \ {browser.broker} :
            browser' = [browser EXCEPT !.broker = b]
       \/ \E i \in BrowserIds :
            LET gen == 1 + Cardinality({s \in browser.past : s.id = i})
                old == {s \in browser.sessions : s.id = i}
            IN  \/ browser' = [browser EXCEPT
                      !.sessions = (@ \ old) \cup {[id |-> i, generation |-> gen, connected |-> TRUE]},
                      !.past = @ \cup {[id |-> i, generation |-> gen]}]
                \/ /\ old # {}
                   /\ browser' = [browser EXCEPT
                        !.sessions = (@ \ old) \cup {[s EXCEPT !.connected = FALSE] : s \in old}]
    /\ UNCHANGED <<regs, refs, job, registry, dir, probe, pager>>

portusd_crashes ==
    /\ Happens
    /\ job' = Idle
    /\ registry' = [health |-> "unknown", active_count |-> 0]
    /\ probe' = NoProbe
    /\ pager' = NoListing
    /\ UNCHANGED <<regs, refs, dir, browser>>

ProvInit ==
    /\ regs = <<>>
    /\ refs = {}
    /\ job = Idle
    /\ registry = [health |-> "unknown", active_count |-> 0]
    /\ dir = [state |-> "trusted", files |-> [t \in Types |-> NoFile]]
    /\ browser = [broker |-> "running", sessions |-> {}, past |-> {}]
    /\ probe = NoProbe
    /\ pager = NoListing
    /\ bound = 0

ManifestSteps ==
    \/ reconcile_directory_rejected
    \/ reconcile_directory
    \/ reconcile_next_manifest
    \/ reconcile_stops
    \/ reconcile_tombstones
    \/ edit_manifests

AdapterSteps ==
    \/ \E p \in DOMAIN regs, u \in Users : probe_broker(p, u)
    \/ probe_sessions
    \/ apply_runtime_status
    \/ apply_resources
    \/ browser_changes

ListSteps == list_first_page \/ list_next_page

ProvNext == ManifestSteps \/ AdapterSteps \/ ListSteps \/ portusd_crashes
ProvSpec == ProvInit /\ [][ProvNext]_provVars

---------------------------------------------------------------------------
\* Properties

Live == {"available", "unavailable"}

\* Registrations, references and the status of the registry are well formed.
ProvTypeOK ==
    /\ \A p \in DOMAIN regs :
         /\ regs[p].type \in Types /\ regs[p].successor \in 0 .. Len(regs)
         /\ regs[p].health \in {"healthy", "degraded", "unavailable", "unknown"}
    /\ \A r \in refs : /\ r.provider \in DOMAIN regs /\ r.owner \in Users
                        /\ r.availability \in Live \cup {"stale", "removed"}
    /\ job.op \in {"idle", "reconcile", "apply"}
    /\ registry.health \in {"unknown", "healthy", "degraded"}
    /\ probe.stage \in {"none", "broker", "listed"}

\* However often manifests come, change and go, a provider type has at most one
\* active registration (active_provider_id rejects a second one).
UniqueActive == \A p, q \in ActiveIds : regs[p].type = regs[q].type => p = q

\* The detail rows of a registration fit together after any number of manifest
\* edits: its capabilities and its health contract name interfaces it still has.
DetailsFitTogether ==
    \A p \in DOMAIN regs :
        /\ \A c \in DOMAIN regs[p].capabilities :
              regs[p].capabilities[c].links \subseteq regs[p].interfaces
        /\ regs[p].health_contract.kind \in {"structured-cli", "unix-socket", "protocol-heartbeat"} =>
              regs[p].health_contract.reference \in regs[p].interfaces

\* The count runtime.status reports is the number of active registrations,
\* also after a reconciliation that stopped half way.
StatusMatchesRows ==
    Free /\ registry.health # "unknown" => registry.active_count = Cardinality(ActiveIds)

\* A removed registration keeps no live resource reference: a projection that was
\* taken before the removal cannot bring its sessions back.
RemovedProviderRefsDead ==
    \A r \in refs : regs[r.provider].removed => r.availability \notin Live

\* Of one browser session at most one generation is live, whatever probes were
\* applied, failed half way, or were overtaken by a restart of the browser.
OneLiveGeneration ==
    \A r, s \in refs :
        /\ r.provider = s.provider /\ r.owner = s.owner /\ r.id = s.id
        /\ r.availability \in Live /\ s.availability \in Live
        => r.generation = s.generation

\* Tombstones of a type are chained: each names the next registration of the type.
SuccessorChain ==
    \A p \in DOMAIN regs :
        LET later == {q \in DOMAIN regs : q > p /\ regs[q].type = regs[p].type}
        IN  /\ regs[p].removed /\ later # {} =>
                 /\ regs[p].successor \in later
                 /\ \A q \in later : regs[p].successor <= q
            /\ later = {} => regs[p].successor = 0

\* A client that pages through the list has seen every provider that was active
\* all the time, although others were registered and removed between its pages.
PagingMissesNothing == pager.done => pager.steady \cap ActiveIds \subseteq pager.seen

\* A registration is removed only by a reconciliation that read the whole, trusted
\* directory and found no manifest of its type: never by a failed reconciliation,
\* a crash or a probe (docs/CAPABILITIES.md:1384).
OnlyMissingManifestsRemove ==
    [][\A p \in ActiveIds : regs'[p].removed =>
          job.op = "reconcile" /\ job.todo = {} /\ job.found[regs[p].type] = NoFile]_provVars

\* However manifests come, change, break and go, and wherever a reconciliation
\* stops, the rows of the registry fit together: one active registration per
\* type, detail rows that refer to each other, the reported count, and the
\* chain of successors (reconcile_directory_at, replace_provider_details).
RegistrationsFitTogether ==
    ProvTypeOK /\ UniqueActive /\ DetailsFitTogether /\ StatusMatchesRows /\ SuccessorChain

\* Nothing that is gone comes back: neither the sessions of a removed provider
\* nor an earlier generation of a session, although probes are applied after
\* what they saw has changed (reconcile_provider_resource_refs).
NothingRevives == RemovedProviderRefsDead /\ OneLiveGeneration
===========================================================================
