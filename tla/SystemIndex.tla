--------------------------- MODULE SystemIndex ---------------------------
(***************************************************************************)
(* The System Index of portusd: collectors read the machine                *)
(* (portus-index/src/linux.rs), portus-state/src/index.rs reconciles what  *)
(* they saw into observation rows, portus-index/src/correlation.rs derives *)
(* application instances, and portusd/src/core.rs drives the whole and     *)
(* answers queries.                                                        *)
(*                                                                         *)
(* A reconciliation has two halves.  Its collectors run without the state  *)
(* mutex, one after the other, while the machine changes and other callers *)
(* do the same; then every batch is applied under the mutex, one           *)
(* transaction per batch, so that a failure or a crash leaves the first    *)
(* batches applied and the rest not.                                       *)
(*                                                                         *)
(* A generation is a pair <<boot, session>>; boot 0 stands for "unknown",  *)
(* <<0, 0>> for the constant generations and for "none".  Handles are      *)
(* UUIDv7, so creation order is their order.  Names, titles and metadata   *)
(* are abstracted to the identity of the resource and to the links that    *)
(* correlation reads.                                                      *)
(***************************************************************************)
EXTENDS Naturals, Sequences, FiniteSets, SequencesExt

CONSTANTS Apps, Procs, Windows, Workspaces, Services, \* native identities
          Provs, Capabilities, ProviderResources,      \* and those of the provider registry
          ProviderOf,      \* provider of a capability and of a provider's resource
          ResourceOwner,   \* owner of a provider's resource
          Exec,            \* executable of an application and of a process
          Parent,          \* parent of a process
          WindowOf,        \* process that a window's _NET_WM_PID names
          WorkspaceOf,     \* workspace that i3 places a window on
          NoLink,          \* a window without a process reference
          QUERY_CHUNK, MAX_INDEX_QUERY_SCAN, PageLimit, TopologyLimit, TopologyDepth,
          Budgets          \* how much of each kind of step a behaviour may contain

ASSUME MachineIsFinite ==
    /\ IsFiniteSet(Apps \cup Procs \cup Windows \cup Workspaces \cup Services \cup Provs
                     \cup Capabilities \cup ProviderResources)
    /\ WorkspaceOf \in [Windows -> Workspaces]
    /\ ProviderOf \in [Capabilities \cup ProviderResources -> Provs]
    /\ ResourceOwner \in [ProviderResources -> {"none", "user"}]

\* provider-capability:..., provider-resource:... and the id of a registration.
ASSUME RegistryIdentities == (Provs \cup Capabilities) \cap ProviderResources = {}

VARIABLES world,   \* the machine: what exists, what can be read, boot and session numbers
          index,   \* the index tables of portus.db
          calls,   \* requests that reconcile, by caller
          budget   \* what is left of the budget of the behaviour

idxVars == <<world, index, calls, budget>>

SystemSources == {"applications", "proc", "openrc", "providers", "correlation"}
Callers == {"root", "user"}
NoOwner == "none"
IdsOf == [applications |-> Apps, proc |-> Procs, x11 |-> Windows, i3 |-> Workspaces,
          openrc |-> Services, providers |-> Provs \cup Capabilities \cup ProviderResources]
Collected == DOMAIN IdsOf

\* Conditions of the machine that make a collector report something else.
Conditions ==
    [applications |-> {"ok", "partial", "down"}, proc |-> {"ok", "partial", "down"},
     boot |-> {"ok", "down"}, i3 |-> {"ok", "down"}, x11 |-> {"ok", "partial", "skips", "down"},
     openrc |-> {"ok", "down"}, providers |-> {"ok", "partial", "down"}]

Constant == <<0, 0>>    \* "applications-v1", "provider-registry-v1", "correlation-v1"
Spend(kind) == budget[kind] > 0 /\ budget' = [budget EXCEPT ![kind] = @ - 1]

\* Only resources of providers have an owner of their own.
IsProviderResource(src, id) == src = "providers" /\ id \in ProviderResources
Unowned(src) == src \in {"applications", "openrc", "providers"}
OwnerOf(src, id) == IF IsProviderResource(src, id) THEN ResourceOwner[id]
                    ELSE IF Unowned(src) THEN NoOwner ELSE "user"

---------------------------------------------------------------------------
\* Collectors (portus-index/src/linux.rs, portus-index/src/model.rs)

boot_id == IF world.cond.boot = "ok" THEN world.boot ELSE 0

\* Batches that report the resources ids of the source; a window carries the
\* reference of its process.
Observed(ids) == {[id |-> i, link |-> NoLink, fresh |-> "recent"] : i \in ids}
healthy_batch(src, gen, health, obs, rels) ==
    [src |-> src, gen |-> gen, health |-> health, obs |-> obs, rels |-> rels]
unavailable(src, gen) == healthy_batch(src, gen, "unavailable", {}, {})

\* What a collector may report of the resources that exist: all of them, or any
\* part of them when the scan is truncated or entries cannot be read.
Seen(src) ==
    LET all == world.present \cap IdsOf[src]
    IN IF world.cond[src] = "ok" THEN {all} ELSE SUBSET all
Scanned(src) == IF world.cond[src] = "partial" THEN "degraded" ELSE "healthy"

collect_processes ==
    IF boot_id = 0 THEN {unavailable("proc", Constant)}
    ELSE IF world.cond.proc = "down" THEN {unavailable("proc", <<boot_id, 0>>)}
    ELSE {healthy_batch("proc", <<boot_id, 0>>, Scanned("proc"), Observed(ids), {}) :
            ids \in Seen("proc")}

collect_applications ==
    IF world.cond.applications = "down" THEN {unavailable("applications", Constant)}
    ELSE {healthy_batch("applications", Constant, Scanned("applications"), Observed(ids), {}) :
            ids \in Seen("applications")}

\* An unreadable boot id changes the generation and not the health of the source.
collect_openrc ==
    IF world.cond.openrc = "down" THEN {unavailable("openrc", <<boot_id, 0>>)}
    ELSE {healthy_batch("openrc", <<boot_id, 0>>, "healthy", Observed(ids), {}) :
            ids \in Seen("openrc")}

Ref(kind, gen, id) == [kind |-> kind, gen |-> gen, id |-> id]
process_ref(boot, p) == Ref("proc", <<boot, 0>>, p)

\* The state of a reference in the registry: resources that the last report of
\* their provider left out are stale.
Availability == {"available", "stale", "unavailable"}
availability_freshness(v) ==
    IF world.avail[v] = "available" THEN "recent" ELSE world.avail[v]

\* What the registry holds of the providers that are registered.
Registered(ids) == {i \in world.present \cap ids : ProviderOf[i] \in world.present}

\* The registry is read under its own lock; an unavailable registry still lists.
\* A resource is as fresh as its reference is available, whatever the health.
provider_index_batch ==
    LET ref(i) == Ref("providers", Constant, i)
        told(i, kind) == [from |-> ref(ProviderOf[i]), to |-> ref(i), kind |-> kind]
        resources == Registered(ProviderResources)
        capabilities == Registered(Capabilities)
    IN {healthy_batch("providers", Constant,
            CASE world.cond.providers = "ok" -> "healthy"
              [] world.cond.providers = "partial" -> "degraded"
              [] world.cond.providers = "down" -> "unavailable",
            Observed((world.present \cap Provs) \cup capabilities)
              \cup {[id |-> v, link |-> NoLink, fresh |-> availability_freshness(v)] : v \in resources},
            {told(i, "provider_capability") : i \in capabilities}
              \cup {told(i, "provider_resource") : i \in resources})}

process_reference_if_owned(boot, w) ==
    IF WindowOf[w] \in world.present THEN process_ref(boot, WindowOf[w]) ELSE NoLink

collect_i3(gen) ==
    IF world.cond.i3 = "down" THEN {unavailable("i3", gen)}
    ELSE {healthy_batch("i3", gen, "healthy", Observed(world.present \cap Workspaces),
            {[from |-> Ref("x11", gen, w), to |-> Ref("i3", gen, WorkspaceOf[w]),
              kind |-> "window_workspace"] : w \in world.present \cap Windows})}

\* A window whose properties cannot be read is left out of a healthy batch.
collect_x11(gen) ==
    IF world.cond.x11 = "down" THEN {unavailable("x11", gen)}
    ELSE {healthy_batch("x11", gen, Scanned("x11"),
            {[id |-> w, link |-> process_reference_if_owned(gen[1], w), fresh |-> "recent"] :
                w \in ids}, {}) :
            ids \in Seen("x11")}

\* Session 0: no i3 process of the caller, or more than one.
discover_graphical_context(boot) == IF world.session = 0 THEN Constant ELSE <<boot, world.session>>

collect_graphical(boot) ==
    LET gen == discover_graphical_context(boot)
    IN IF gen = Constant THEN {<<unavailable("i3", gen), unavailable("x11", gen)>>}
       ELSE {<<i, x>> : i \in collect_i3(gen), x \in collect_x11(gen)}

\* The collectors of a domain, in their order; root gets no graphical batches.
collect(domain, caller) ==
    CASE domain = "applications" -> <<"applications">>
      [] domain = "services" -> <<"openrc">>
      [] domain = "providers" -> <<"providers">>
      [] domain = "runtime" /\ caller = "root" -> <<"proc">>
      [] domain = "runtime" /\ caller # "root" -> <<"proc", "graphical">>
      [] domain = "all" /\ caller = "root" -> <<"applications", "proc", "openrc", "providers">>
      [] OTHER -> <<"applications", "proc", "graphical", "openrc", "providers">>

\* What one collector may return, after the batches collected before it.
Stage(stage, batches) ==
    CASE stage = "applications" -> {<<b>> : b \in collect_applications}
      [] stage = "proc" -> {<<b>> : b \in collect_processes}
      [] stage = "graphical" -> collect_graphical(Last(batches).gen[1])
      [] stage = "openrc" -> {<<b>> : b \in collect_openrc}
      [] stage = "providers" -> {<<b>> : b \in provider_index_batch}

---------------------------------------------------------------------------
\* The tables (portus-state/src/index.rs).  An index has its rows, relations,
\* sources, runtime state and the next handle; ok is whether the operation
\* that is being applied has succeeded so far.

RowRef(r) == Ref(r.src, IF r.src \in {"applications", "openrc"} THEN Constant ELSE r.gen, r.id)
Current(rows, src) == {r \in rows : r.src = src /\ r.fresh # "historical"}
SetFresh(rows, which, fresh) ==
    {IF r \in which THEN [r EXCEPT !.fresh = fresh] ELSE r : r \in rows}

EmptyIndex == [rows |-> {}, rels |-> {}, sources |-> [s \in {} |-> "unknown"],
               state |-> "initializing", generation |-> 1, next |-> 1]

prepare_index_restart(x) ==
    [x EXCEPT !.rows = SetFresh(@, {r \in @ : r.fresh = "recent"}, "stale"),
              !.sources = [s \in DOMAIN @ |-> [@[s] EXCEPT !.health = "unknown"]],
              !.state = "initializing"]

upsert_source_status(x, b) ==
    [s \in DOMAIN x.sources \cup {b.src} |->
        IF s = b.src THEN [gen |-> b.gen, health |-> b.health] ELSE x.sources[s]]

\* Mutant: rows of an earlier generation stay as they are.
generations_kept(rows, b) == rows

\* Rows of an earlier generation become historical.
expire_generations(rows, b) ==
    SetFresh(rows, {r \in Current(rows, b.src) : r.gen # b.gen}, "historical")

\* Mutant: a handle is kept by native identity alone.
rows_by_native_identity(rows, b) == {r \in rows : r.src = b.src}

\* The rows whose handle an observation of the batch may keep.
existing(rows, b) == {r \in Current(rows, b.src) : r.gen = b.gen}

unseen_freshness(b) == IF b.health = "healthy" THEN "historical" ELSE "stale"

\* The rows the observations of b become: a kept handle or the next new one.
\* The row remembers what was said of it (metadata.availability of a resource).
observed_rows(rows, b, next) ==
    LET kept == existing(rows, b)
        new == SetToSeq({o \in b.obs : \A r \in kept : r.id # o.id})
        handle(o) == IF \E r \in kept : r.id = o.id THEN (CHOOSE r \in kept : r.id = o.id).h
                     ELSE next + (CHOOSE i \in 1..Len(new) : new[i] = o) - 1
    IN {[h |-> handle(o), src |-> b.src, gen |-> b.gen, id |-> o.id, link |-> o.link,
         fresh |-> o.fresh, said |-> o.fresh, owner |-> OwnerOf(b.src, o.id)] : o \in b.obs}

\* UNIQUE INDEX on source, generation and native identity; an insert conflicts
\* silently only on the handle.
identity_conflict(rows, new) ==
    \E n \in new, r \in rows :
        n.h # r.h /\ n.src = r.src /\ n.gen = r.gen /\ n.id = r.id

reconcile_index_source(x, b) ==
    LET aged == expire_generations(x.rows, b)
        new == observed_rows(aged, b, x.next)
        unseen == SetFresh(aged, Current(aged, b.src), unseen_freshness(b))
        Committed(rows) == [x EXCEPT !.rows = rows, !.sources = upsert_source_status(x, b),
                                     !.next = @ + Cardinality({n \in new : n.h >= @})]
    IN IF b.health = "unavailable"
       THEN [x EXCEPT !.rows = SetFresh(aged, Current(aged, b.src), "unavailable"),
                      !.sources = upsert_source_status(x, b)]
       ELSE IF identity_conflict(unseen, new) THEN [x EXCEPT !.state = "failed"]
       ELSE Committed({r \in unseen : \A n \in new : n.h # r.h} \cup new)

\* Zero or one row: refs of current rows are unique.
resolve_current_authoritative_ref(rows, ref) ==
    {r \in rows : RowRef(r) = ref /\ r.fresh \in {"recent", "stale"}}

replace_index_relations_for_source(x, b) ==
    LET resolved(l) == {[from |-> f.h, to |-> t.h, kind |-> l.kind, src |-> b.src] :
                            f \in resolve_current_authoritative_ref(x.rows, l.from),
                            t \in resolve_current_authoritative_ref(x.rows, l.to)}
    IN [x EXCEPT !.rels = {l \in @ : l.src # b.src}
                          \cup {l \in UNION {resolved(l) : l \in b.rels} : l.from # l.to}]

rebuild_index_derived(x) ==
    [x EXCEPT !.rows = {}, !.rels = {}, !.sources = EmptyIndex.sources,
              !.generation = @ + 1, !.state = "rebuilding"]

---------------------------------------------------------------------------
\* Correlation (portus-index/src/correlation.rs)

Usable(rows, src) == {r \in rows : r.src = src /\ r.fresh \in {"recent", "stale"}}
windows_by_process(rows, p) == {w \in Usable(rows, "x11") : w.link = RowRef(p)}
matching_apps(rows, p) == {a \in Usable(rows, "applications") : Exec[a.id] = Exec[p.id]}
unique_app(rows, p) ==
    IF Cardinality(matching_apps(rows, p)) = 1 THEN matching_apps(rows, p) ELSE {}

\* The processes that lead an application instance.
Leaders(rows) ==
    {p \in Usable(rows, "proc") : windows_by_process(rows, p) \cup unique_app(rows, p) # {}}
InstanceId(p) == <<p.gen[1], p.id>>
Link(from, to, kind) == [from |-> from, to |-> to, kind |-> kind]

correlate(rows, health) ==
    LET inst(p) == Ref("correlation", Constant, InstanceId(p))
        parents == UNION {{Link(RowRef(p), RowRef(q), "child_of") :
                              q \in {q \in Usable(rows, "proc") : Parent[p.id] = q.id}} :
                            p \in Usable(rows, "proc")}
        owned == UNION {{Link(RowRef(w), RowRef(p), "owned_by_process") :
                            w \in windows_by_process(rows, p)} : p \in Usable(rows, "proc")}
        evidence(p) == {Link(inst(p), RowRef(p), "instance_process")}
            \cup {Link(inst(p), RowRef(a), "instance_application") : a \in unique_app(rows, p)}
            \cup {Link(inst(p), RowRef(w), "instance_window") : w \in windows_by_process(rows, p)}
    IN healthy_batch("correlation", Constant, health,
          {[id |-> InstanceId(p), link |-> NoLink, fresh |-> p.fresh] : p \in Leaders(rows)},
          parents \cup owned \cup UNION {evidence(p) : p \in Leaders(rows)})

---------------------------------------------------------------------------
\* Reconciliation (portusd/src/core.rs)

Failed(x) == x.state = "failed"

\* One batch, its observations and its relations, unless an earlier one failed.
ApplyBatch(x, b) ==
    IF Failed(x) THEN x
    ELSE LET y == reconcile_index_source(x, b)
         IN IF Failed(y) THEN y ELSE replace_index_relations_for_source(y, b)

Poor == {"degraded", "unavailable", "unknown"}

\* The index after the first n batches of a reconciliation.
Applied(batches, n) ==
    LET after[i \in 0..n] == IF i = 0 THEN [index EXCEPT !.state = "initializing"]
                             ELSE ApplyBatch(after[i - 1], batches[i])
    IN after[n]

\* The correlation of the index x that the batches leave is its last batch.
reconcile_index_domain(x, batches) ==
    LET partial == \E b \in ToSet(batches) : b.health \in Poor
        y == ApplyBatch(x, correlate(x.rows, IF partial THEN "degraded" ELSE "healthy"))
        degraded == \E s \in SystemSources \cap DOMAIN y.sources : y.sources[s].health \in Poor
    IN IF Failed(y) THEN y
       ELSE [y EXCEPT !.state = IF degraded THEN "degraded" ELSE "healthy"]

Request(stages, want) == [pc |-> "collecting", todo |-> stages, batches |-> <<>>, want |-> want]
Answer(a) == [pc |-> "idle", answer |-> a]
Answers == {"none", "ok", "stale_resource", "failed"}
CanCall(c) ==
    /\ calls[c].pc = "idle" /\ Spend("calls")
    /\ Cardinality({d \in Callers : calls[d].pc # "idle"}) < budget.at_once
Visible(c, r) == r.owner \in {NoOwner, c}

DomainOf(src) == CASE src = "applications" -> "applications"
                   [] src \in {"correlation", "proc", "x11", "i3"} -> "runtime"
                   [] src = "openrc" -> "services"
                   [] src = "providers" -> "providers"

\* index.rescan names a domain; index.reconcile and the warm-up of a starting
\* daemon (as root) take all of them.
index_rescan(c) ==
    /\ CanCall(c)
    /\ \E domain \in budget.domains :
          calls' = [calls EXCEPT ![c] = Request(collect(domain, c), 0)]
    /\ UNCHANGED <<world, index>>

\* index.refresh of a visible row that is not historical.
index_refresh(c) ==
    /\ CanCall(c)
    /\ \E r \in index.rows :
          /\ Visible(c, r) /\ r.fresh # "historical" /\ DomainOf(r.src) \in budget.domains
          /\ calls' = [calls EXCEPT ![c] = Request(collect(DomainOf(r.src), c), r.h)]
    /\ UNCHANGED <<world, index>>

index_rebuild(c) ==
    /\ c = "root" /\ CanCall(c)
    /\ index' = rebuild_index_derived(index)
    /\ calls' = [calls EXCEPT ![c] = Request(collect("all", c), 0)]
    /\ UNCHANGED world

\* The next collector of a request reads the machine.
CollectStage(c) ==
    /\ calls[c].pc = "collecting" /\ calls[c].todo # <<>>
    /\ \E got \in Stage(Head(calls[c].todo), calls[c].batches) :
          calls' = [calls EXCEPT ![c].todo = Tail(@), ![c].batches = @ \o got]
    /\ UNCHANGED <<world, index, budget>>

\* Everything is collected: the batches are applied under the state mutex.
\* index.refresh answers from the row its handle names afterwards.
ApplyReconcile(c) ==
    /\ calls[c].pc = "collecting" /\ calls[c].todo = <<>>
    /\ \E x \in {Applied(calls[c].batches, Len(calls[c].batches))} :
          LET y == reconcile_index_domain(x, calls[c].batches)
              gone == \A r \in y.rows : r.h # calls[c].want \/ r.fresh = "historical"
          IN /\ index' = IF Failed(y) THEN [y EXCEPT !.state = "initializing"] ELSE y
             /\ calls' = [calls EXCEPT ![c] = Answer(
                             CASE Failed(y) -> "failed"
                               [] ~Failed(y) /\ calls[c].want # 0 /\ gone -> "stale_resource"
                               [] OTHER -> "ok")]
    /\ UNCHANGED <<world, budget>>

---------------------------------------------------------------------------
\* Queries (portus-state/src/index.rs)

Sorted(rows) == [i \in 1..Cardinality(rows) |->
                    CHOOSE r \in rows : Cardinality({q \in rows : q.h < r.h}) = i - 1]

\* The part of a filter that the SQL of a chunk applies.
query_index_chunk(c, f, cursor) ==
    Sorted({r \in index.rows : /\ Visible(c, r) /\ r.h > cursor
                               /\ f.src \in {"any", r.src}
                               /\ (f.fresh = "historical") <=> (r.fresh = "historical")})

\* The part that is applied to each row of a chunk: its evidence.
matches_index_query(f, r) ==
    f.kind = "any" \/ \E l \in index.rels : l.kind = f.kind /\ r.h \in {l.from, l.to}

index_sources_partial_for(c, f) ==
    \E s \in DOMAIN index.sources :
        /\ s \in SystemSources \/ c = "user"
        /\ f.src \in {"any", s}
        /\ index.sources[s].health \in Poor

\* Mutant: a page that met the scan bound ends the listing.
cursor_when_full(rows, scanned, truncated, full) == IF full THEN rows[scanned].h ELSE 0

next_cursor(rows, scanned, truncated, full) ==
    IF truncated \/ full THEN rows[scanned].h ELSE 0

\* One page: rows are scanned in chunks until the page is full, the scan
\* bound is met or a chunk comes back short.
query_index_visible(c, f, limit, cursor) ==
    LET rows == query_index_chunk(c, f, cursor)
        hits == {i \in 1..Len(rows) : matches_index_query(f, rows[i])}
        found(n) == Cardinality(hits \cap 1..n)
        stops == {n \in 0..Len(rows) : n = Len(rows) \/ n = MAX_INDEX_QUERY_SCAN \/ found(n) = limit}
        scanned == CHOOSE n \in stops : \A m \in stops : n <= m
        full == found(scanned) = limit
        exhausted == ~full /\ (scanned < MAX_INDEX_QUERY_SCAN \/ scanned % QUERY_CHUNK # 0)
        truncated == scanned >= MAX_INDEX_QUERY_SCAN /\ ~exhausted
    IN [items |-> SelectSeq(SubSeq(rows, 1, scanned), LAMBDA r : matches_index_query(f, r)),
        next_cursor |-> next_cursor(rows, scanned, truncated, full),
        partial |-> truncated \/ index_sources_partial_for(c, f)]

\* What a client gets that follows the cursors of an index nobody changes.
Pages(c, f, limit) ==
    LET follow[cursor \in {0} \cup {r.h : r \in index.rows}] ==
            LET page == query_index_visible(c, f, limit, cursor)
            IN page.items \o (IF page.next_cursor = 0 THEN <<>> ELSE follow[page.next_cursor])
    IN follow[0]

relations_visible_for_handle(c, h) ==
    {l \in index.rels : /\ h \in {l.from, l.to}
                        /\ \A r \in index.rows : r.h \in {l.from, l.to} => Visible(c, r)}
Other(l, h) == IF l.from = h THEN l.to ELSE l.from

\* Whether the relations of a resource found at a level are followed.
expands(level, depth) == level < depth

\* Breadth first over the visible relations, bounded in depth and in size.
index_topology_visible(c, root, depth, limit) ==
    LET Meet(l, acc) ==
            LET o == Other(l, acc.at)
            IN IF o \in acc.seen THEN acc
               ELSE IF Cardinality(acc.seen) >= limit THEN [acc EXCEPT !.truncated = TRUE]
               ELSE [acc EXCEPT !.seen = @ \cup {o}, !.queue = Append(@, <<o, acc.level + 1>>)]
        Visit(acc, i) ==
            IF acc.queue = <<>> THEN acc
            ELSE LET head == Head(acc.queue)
                     popped == [acc EXCEPT !.queue = Tail(@), !.at = head[1], !.level = head[2]]
                 IN IF ~expands(head[2], depth) THEN popped
                    ELSE FoldSet(Meet, popped, relations_visible_for_handle(c, head[1]))
    IN FoldLeft(Visit, [seen |-> {root}, queue |-> <<<<root, 0>>>>, at |-> root, level |-> 0,
                        truncated |-> FALSE],
                [i \in 1..(Cardinality(index.rows) + 1) |-> i])

\* index.status: a degraded source of the caller's own lowers the answer.
index_status_value(c) ==
    IF index.state = "healthy" /\ c = "user"
         /\ \E s \in {"i3", "x11"} \cap DOMAIN index.sources : index.sources[s].health \in Poor
    THEN "degraded" ELSE index.state

---------------------------------------------------------------------------
\* The machine and the daemon's life

\* Resources come and go.  A process that ended has no successor with its
\* start time; an application, window, workspace, service or capability may come
\* back.  References to resources of providers stay in the registry.
ResourceChange ==
    /\ Spend("changes")
    /\ \E i \in (UNION {IdsOf[s] : s \in Collected}) \ ProviderResources :
          \/ i \in world.present
             /\ world' = [world EXCEPT !.present = @ \ {i},
                                       !.ended = IF i \in Procs \cup Provs THEN @ \cup {i} ELSE @]
          \/ i \notin world.present \cup world.ended
             /\ world' = [world EXCEPT !.present = @ \cup {i}]
    /\ UNCHANGED <<index, calls>>

\* The report of a registered provider changes what its resource is.
AvailabilityChange ==
    /\ Spend("changes")
    /\ \E v \in Registered(ProviderResources) : \E a \in Availability \ {world.avail[v]} :
          world' = [world EXCEPT !.avail[v] = a]
    /\ UNCHANGED <<index, calls>>

ConditionChange ==
    /\ Spend("changes")
    /\ \E s \in DOMAIN Conditions : \E v \in Conditions[s] \ {world.cond[s]} :
          world' = [world EXCEPT !.cond[s] = v]
    /\ UNCHANGED <<index, calls>>

\* The graphical session ends or becomes ambiguous, becomes unique again, or
\* another one starts.
SessionChange ==
    /\ Spend("changes")
    /\ \/ world.session # 0 /\ world' = [world EXCEPT !.session = 0]
       \/ world.session = 0 /\ \E s \in {world.sessions, world.sessions + 1} \ {0} :
            world' = [world EXCEPT !.session = s, !.sessions = s]
    /\ UNCHANGED <<index, calls>>

\* The daemon dies and starts again, at the earliest between two transactions
\* of a reconciliation; a reboot also ends what belonged to the boot.
Restart(c) ==
    /\ Spend("restarts")
    /\ \E n \in 0..(IF calls[c].pc = "collecting" /\ calls[c].todo = <<>>
                    THEN Len(calls[c].batches) ELSE 0) :
          LET x == IF n = 0 THEN index ELSE Applied(calls[c].batches, n)
          IN /\ ~Failed(x)
             /\ index' = prepare_index_restart(x)
    /\ calls' = [d \in Callers |-> Answer("none")]
    /\ \/ world' = world
       \/ world' = [world EXCEPT !.boot = @ + 1, !.session = 0, !.sessions = 0, !.ended = {},
                                 !.present = @ \ (Procs \cup Windows)]

IdxInit ==
    /\ budget \in Budgets
    /\ world = [present |-> UNION {IdsOf[s] : s \in Collected},
                cond |-> [s \in DOMAIN Conditions |-> "ok"],
                avail |-> [v \in ProviderResources |-> "available"],
                boot |-> 1, session |-> 1, sessions |-> 1, ended |-> {}]
    /\ index = EmptyIndex
    /\ calls = [c \in Callers |-> Answer("none")]

IndexCall(c) == index_rescan(c) \/ index_refresh(c) \/ index_rebuild(c)
IdxNext ==
    \/ \E c \in Callers : IndexCall(c) \/ CollectStage(c) \/ ApplyReconcile(c) \/ Restart(c)
    \/ ResourceChange \/ AvailabilityChange \/ ConditionChange \/ SessionChange

---------------------------------------------------------------------------
\* Properties

\* The tables hold what their columns allow, a handle names one row and a
\* source's identity in a generation has one row (the unique index).
IdxTypeOK ==
    /\ index.state \in {"initializing", "rebuilding", "healthy", "degraded"}
    /\ \A r \in index.rows : r.h \in 1..(index.next - 1) /\ r.src \in DOMAIN index.sources
    /\ \A r, s \in index.rows :
          (r.h = s.h \/ (<<r.src, r.gen>> = <<s.src, s.gen>> /\ r.id = s.id)) => r = s
    /\ \A l \in index.rels : \E f, t \in index.rows : f.h = l.from /\ t.h = l.to
    /\ \A c \in Callers : calls[c].pc = "idle" => calls[c].answer \in Answers

\* Rows of another generation than the one their source last reported are
\* never shown as current, whatever failed, crashed or was applied late; nor
\* is anything of an unavailable source shown as seen
\* (portus-state/src/index.rs reconcile_index_source).
CurrentRowsMatchSource ==
    \A r \in index.rows : r.fresh # "historical" =>
        /\ r.gen = index.sources[r.src].gen
        /\ index.sources[r.src].health = "unavailable" => r.fresh = "unavailable"

\* A caller who is told that the index is healthy sees no current row that
\* was not read again since the daemon started: its rows are recent.  Only
\* resources of providers may be stale or unavailable in a healthy index, and
\* then the registry said so of them when it was last read (core.rs
\* index_status_value, reconcile_index_domain, provider_index_batch,
\* portus-state/src/index.rs prepare_index_restart).
HealthyIsHonest ==
    \A c \in Callers : index_status_value(c) = "healthy" =>
        /\ \A r \in index.rows : Visible(c, r) /\ r.fresh # "historical" =>
              \/ r.fresh = "recent"
              \/ IsProviderResource(r.src, r.id) /\ r.fresh = r.said
        /\ ~index_sources_partial_for(c, [src |-> "any"])

\* When a reconciliation has ended, an instance shown as recent is led by a
\* process shown as recent, and the relation that says so is there, also when
\* the instance was derived from rows another caller collected
\* (correlation.rs correlate).
InstanceIsBacked ==
    index.state \in {"healthy", "degraded"} =>
        \A r \in index.rows : r.src = "correlation" /\ r.fresh = "recent" =>
            \E p \in index.rows :
                /\ p.src = "proc" /\ p.fresh = "recent" /\ InstanceId(p) = r.id
                /\ \E l \in index.rels :
                      l.from = r.h /\ l.to = p.h /\ l.kind = "instance_process"

\* Answers depend on the tables alone: the two properties below are evaluated
\* in the states where no request is collecting.
Quiet == \A c \in Callers : calls[c].pc = "idle"

\* A client that follows the cursors gets every row that it may see and that
\* matches, once, in order, with any page size and scan bound
\* (query_index_visible).
QueryMissesNothing ==
    Quiet => \A c \in Callers, kind \in {"any", "instance_window"}, limit \in 1..PageLimit :
        Pages(c, [src |-> "any", fresh |-> "current", kind |-> kind], limit) =
            Sorted({r \in index.rows :
                /\ r.owner = "none" \/ (c = "user" /\ r.owner = "user")
                /\ r.fresh # "historical"
                /\ kind = "any" \/ \E l \in index.rels : l.kind = kind /\ (l.from = r.h \/ l.to = r.h)})

\* The handles within the given distance of a handle.
Within(c, h, depth) ==
    FoldLeft(LAMBDA S, i : S \cup UNION {{Other(l, x) : l \in relations_visible_for_handle(c, x)} : x \in S},
             {h}, [i \in 1..depth |-> i])

\* A topology that is not marked truncated is exactly what lies within the
\* depth; a truncated one is a full page of it (index_topology_visible).
TopologyIsComplete ==
    Quiet => \A c \in Callers : \A r \in {x \in index.rows : Visible(c, x)} : \A limit \in {2, TopologyLimit} :
        LET t == index_topology_visible(c, r.h, TopologyDepth, limit)
            all == Within(c, r.h, TopologyDepth)
        IN IF t.truncated THEN t.seen \subseteq all /\ Cardinality(t.seen) = limit /\ t.seen # all
           ELSE t.seen = all

\* A handle names one resource of one source generation for ever: a process
\* or window of a later boot or session with the same number never gets the
\* handle a client may still hold, and none that was ever given is given again,
\* also when the rows are gone after a rebuild (docs/SYSTEM_INDEX.md section 34).
HandleIsOneResource ==
    [][/\ \A r \in index.rows, s \in index'.rows :
             r.h = s.h => <<r.src, r.gen>> = <<s.src, s.gen>> /\ r.id = s.id
       /\ index.next <= index'.next
       /\ \A s \in index'.rows : s.h < index.next => \E r \in index.rows : r.h = s.h]_idxVars

\* A reconciliation repairs the index: none ends in an error, for the model
\* has no fault of the database (docs/SYSTEM_INDEX.md, Full reconciliation).
ReconcileRepairs == \A c \in Callers : calls[c] # Answer("failed")

\* What the index presents as current is current, for any interleaving of
\* collectors, callers, restarts, sessions and boots: rows belong to the
\* generation their source reported, instances are backed by processes, and
\* healthy means read again since the start.
IndexIsHonest == IdxTypeOK /\ CurrentRowsMatchSource /\ HealthyIsHonest /\ InstanceIsBacked

\* Bounded answers are complete: the pages of a query together, and a topology
\* that is not marked truncated.
AnswersAreComplete == QueryMissesNothing /\ TopologyIsComplete
===========================================================================
