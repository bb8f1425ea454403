------------------------- MODULE ArtifactRegistry -------------------------
(***************************************************************************)
(* Artifact registrations of portusd (portus-artifact, portus-state/       *)
(* artifact.rs and the internal operations of portusd/core.rs), composed   *)
(* with the provider registry whose resources an artifact may refer to.    *)
(*                                                                         *)
(* An operation of portusd runs on the thread of its caller: it reads rows *)
(* under the state mutex, releases it, looks at the file system, and takes *)
(* it again to write.  op[c] is where the thread of caller c stands and    *)
(* what it captured.  An artifact id is the index of its row (UUIDv7).     *)
(***************************************************************************)
EXTENDS ProviderRegistry

CONSTANTS Callers, PrincipalOf,  \* threads and the principal each serves
          Root,                  \* the principal with uid 0
          Requests,              \* registrations asked for
          Holds,                 \* holds an owner may place
          Paths, Contents,
          Tasks, TaskOwner,      \* tasks that may produce an artifact
          MaxArtifacts, MaxOps, MaxNow, MAX_SHARED_PRINCIPALS

Absent == "absent"
Unreadable == "unreadable"

\* What protocol requests and the clients' parameters can be.
Principals == Users \cup {Root}
Authorities == {"none", "portus", "task", "provider"}
Locators == [kind : {"filesystem"}, path : Paths]
              \cup [kind : {"provider_resource"}, provider : Nat, id : BrowserIds, generation : Nat]
Registrations ==
    [owner : Principals, locator : Locators, confidentiality : {"private", "shared", "public"},
     shared_with : Seq(Principals), retention : {"temporary", "until", "retained"}, expires : Nat,
     authority : Authorities, cleanup_ref : BOOLEAN, task : Tasks \cup {"none"},
     safe_text : BOOLEAN, digest : Contents \cup {Absent}]

ASSUME ArtifactAssumption ==
    /\ PrincipalOf \in [Callers -> Principals]
    /\ Requests \subseteq Registrations
    /\ MaxNow \in Nat \ {0}

VARIABLES arts,        \* artifacts and artifact_tombstones
          lastEvent,   \* newest significant event of each artifact
          disk,        \* what stands at each path, and how often it changed
          history,     \* everything that ever stood at each path
          taskActive,  \* tasks that are not in a terminal state
          now,         \* the clock
          op,          \* per caller
          done         \* operations asked for

artVars == <<arts, lastEvent, disk, history, taskActive, now, op, done>>
vars == <<provVars, artVars>>

NoOp == [at |-> "idle"]
Rows == {a \in DOMAIN arts : ~arts[a].forgotten}
Spend == done < MaxOps /\ done' = done + 1
Goto(c, next) == op' = [op EXCEPT ![c] = next]
Me(c) == PrincipalOf[c]
IsFile(locator) == locator.kind = "filesystem"

---------------------------------------------------------------------------
\* Registration (portus-artifact/src/lib.rs, portus-state/src/artifact.rs)

\* Both copies of validate_registration_spec; texts are well formed or not.
validate_registration_spec(s) ==
    /\ s.retention = "until" <=> s.expires # 0
    /\ s.shared_with # <<>> => s.confidentiality = "shared"
    /\ NoDuplicates(s.shared_with) /\ Len(s.shared_with) <= MAX_SHARED_PRINCIPALS
    /\ s.safe_text
    /\ s.authority = "none" => ~s.cleanup_ref
    /\ s.authority \in {"task", "provider"} => s.cleanup_ref
    /\ IF IsFile(s.locator) THEN s.authority # "provider" /\ s.integrity = "verified"
       ELSE /\ s.authority \notin {"portus", "task"}
            /\ s.integrity \in {"verified", "mismatch"} => s.digest # Absent

\* portus-state repeats the checks without the one on cleanup references.
validate_stored_spec(s) ==
    /\ s.retention = "until" <=> s.expires # 0
    /\ s.shared_with # <<>> => s.confidentiality = "shared"
    /\ NoDuplicates(s.shared_with) /\ Len(s.shared_with) <= MAX_SHARED_PRINCIPALS
    /\ s.safe_text
    /\ IF IsFile(s.locator)
       THEN s.authority # "provider" /\ s.integrity = "verified" /\ s.digest # Absent
       ELSE s.authority \notin {"portus", "task"}

validate_task_relationship(s) == s.task # "none" => TaskOwner[s.task] = s.owner

validate_provider_relationship(s) ==
    ~IsFile(s.locator) =>
       /\ s.locator.provider \in ActiveIds
       /\ \E r \in refs : /\ r.provider = s.locator.provider /\ r.id = s.locator.id
                          /\ r.generation = s.locator.generation
                          /\ r.owner = s.owner
                          /\ r.availability \notin {"stale", "removed"}

ensure_artifact_identity_unused(a) == a \notin DOMAIN arts

Event(kind, row) == [kind |-> kind, availability |-> row.availability, integrity |-> row.integrity]
insert_artifact_event(a, kind, row) ==
    lastEvent' = [x \in DOMAIN lastEvent \cup {a} |->
                    IF x = a THEN Event(kind, row) ELSE lastEvent[x]]

register_artifact(s) ==
    LET a == Len(arts) + 1
        row == [id |-> a, owner |-> s.owner, confidentiality |-> s.confidentiality,
                shares |-> Range(s.shared_with), locator |-> s.locator, digest |-> s.digest,
                retention |-> s.retention, expires |-> s.expires, authority |-> s.authority,
                availability |-> "available", integrity |-> s.integrity,
                tasks |-> {s.task} \ {"none"}, holds |-> {}, forgotten |-> FALSE]
    IN  /\ validate_stored_spec(s)
        /\ ensure_artifact_identity_unused(a)
        /\ validate_task_relationship(s)
        /\ validate_provider_relationship(s)
        /\ arts' = Append(arts, row)
        /\ insert_artifact_event(a, "registered", row)

CanRegister(s) == /\ validate_stored_spec(s) /\ validate_task_relationship(s)
                  /\ validate_provider_relationship(s)

prepare_filesystem_registration(r, snapshot) ==
    [owner |-> r.owner, locator |-> r.locator, confidentiality |-> r.confidentiality,
     shared_with |-> r.shared_with, retention |-> r.retention, expires |-> r.expires,
     authority |-> r.authority, cleanup_ref |-> r.cleanup_ref, task |-> r.task,
     safe_text |-> r.safe_text, digest |-> snapshot, integrity |-> "verified"]

prepare_provider_registration(r) ==
    [prepare_filesystem_registration(r, r.digest) EXCEPT
        !.integrity = IF r.digest = Absent THEN "provider_authoritative" ELSE "verified"]

---------------------------------------------------------------------------
\* Reading rows

visible(a, u) ==
    /\ a \in Rows
    /\ \/ u = Root \/ arts[a].owner = u
       \/ arts[a].confidentiality = "public"
       \/ arts[a].confidentiality = "shared" /\ u \in arts[a].shares

artifact_view_visible(a) == arts[a]

authorize_owner_or_root(a, u) == a \in Rows /\ (u = Root \/ arts[a].owner = u)

artifact_cleanup_eligibility(a, t) ==
    LET row == arts[a]
    IN  CASE row.authority = "none" -> "NoCleanupAuthority"
          [] row.retention = "retained" -> "Retained"
          [] row.retention = "until" /\ row.expires > t -> "NotExpired"
          [] row.availability # "available" -> "ContentNotAvailable"
          [] \E h \in row.holds : h.expires = 0 \/ h.expires > t -> "Held"
          [] \E k \in row.tasks : taskActive[k] -> "ActiveTaskRelationship"
          [] OTHER -> "Eligible"

\* Mutant: the listing is not filtered by principal.
list_artifacts(u, after) ==
    LET rest == {a \in Rows : a > after}
        Rank(a) == Cardinality({b \in rest : b <= a})
        items == {a \in rest : Rank(a) <= PageLimit}
    IN  [items |-> items,
         next_cursor |-> IF Cardinality(rest) > PageLimit
                         THEN CHOOSE a \in items : \A b \in items : b <= a ELSE 0]

list_artifacts_visible(u, after) ==
    LET rest == {a \in Rows : visible(a, u) /\ a > after}
        Rank(a) == Cardinality({b \in rest : b <= a})
        items == {a \in rest : Rank(a) <= PageLimit}
    IN  [items |-> items,
         next_cursor |-> IF Cardinality(rest) > PageLimit
                         THEN CHOOSE a \in items : \A b \in items : b <= a ELSE 0]

---------------------------------------------------------------------------
\* Looking at a file.  inspect_filesystem takes the metadata, reads the
\* content, takes the metadata again, and fails if it changed in between.

inspect_starts(c) ==
    /\ op[c].at = "inspect"
    /\ LET f == disk[op[c].path]
       IN  Goto(c, [op[c] EXCEPT !.at = "hashing", !.stat = f])
    /\ UNCHANGED <<provVars, arts, lastEvent, disk, history, taskActive, now, done>>

inspect_filesystem(c) ==
    LET f == disk[op[c].path]
    IN  IF op[c].stat.content = Absent THEN [error |-> "not_found"]
        ELSE IF op[c].stat.content = Unreadable THEN [error |-> "io"]
        ELSE IF f.content = Absent THEN [error |-> "not_found"]
        ELSE IF f.content = Unreadable THEN [error |-> "io"]
        ELSE IF f # op[c].stat THEN [error |-> "changed"]
        ELSE [error |-> "none", sha256 |-> f.content]

\* Mutant: a file that changed while it was read is compared anyway.
reconcile_unsure(view, found) ==
    [availability |-> IF found.error = "not_found" THEN "missing" ELSE "available",
     integrity |-> IF found.error = "none" THEN "verified" ELSE "mismatch"]

\* What a reconciliation concludes; a file changed while it was read is an error.
reconcile_filesystem(view, found) ==
    CASE found.error = "not_found" -> [availability |-> "missing", integrity |-> view.integrity]
      [] found.error = "io" -> [availability |-> "unavailable", integrity |-> view.integrity]
      [] found.error = "none" ->
           [availability |-> "available",
            integrity |-> IF found.sha256 = view.digest THEN "verified" ELSE "mismatch"]

---------------------------------------------------------------------------
\* register_filesystem_artifact / register_provider_artifact_for_internal_use

Looking(kind, path, view) ==
    [at |-> "inspect", kind |-> kind, path |-> path, stat |-> [content |-> Absent, version |-> 0],
     view |-> view]

register_starts(c, r) ==
    /\ op[c].at = "idle"
    /\ r.owner = Me(c)
    /\ Len(arts) < MaxArtifacts
    /\ Spend
    /\ IF IsFile(r.locator)
       THEN Goto(c, Looking("register", r.locator.path, r))
       ELSE LET s == prepare_provider_registration(r)
            IN  Goto(c, IF validate_registration_spec(s) THEN [at |-> "insert", spec |-> s] ELSE NoOp)
    /\ UNCHANGED <<provVars, arts, lastEvent, disk, history, taskActive, now>>

register_inspected(c) ==
    /\ op[c].at = "hashing" /\ op[c].kind = "register"
    /\ LET found == inspect_filesystem(c)
           s == prepare_filesystem_registration(op[c].view, found.sha256)
       IN  Goto(c, IF found.error = "none" /\ validate_registration_spec(s)
                   THEN [at |-> "insert", spec |-> s] ELSE NoOp)
    /\ UNCHANGED <<provVars, arts, lastEvent, disk, history, taskActive, now, done>>

register_inserts(c) ==
    /\ Free
    /\ op[c].at = "insert"
    /\ Len(arts) < MaxArtifacts
    /\ \/ register_artifact(op[c].spec)
       \/ ~CanRegister(op[c].spec) /\ UNCHANGED <<arts, lastEvent>>
    /\ Goto(c, NoOp)
    /\ UNCHANGED <<provVars, disk, history, taskActive, now, done>>

---------------------------------------------------------------------------
\* reconcile_artifact_for_internal_use

reconcile_starts(c, a) ==
    /\ Free
    /\ op[c].at = "idle"
    /\ visible(a, Me(c)) /\ arts[a].availability # "removed"
    /\ Spend
    /\ Goto(c, IF IsFile(arts[a].locator)
               THEN Looking("reconcile", arts[a].locator.path, artifact_view_visible(a))
               ELSE [at |-> "lookup", view |-> artifact_view_visible(a)])
    /\ UNCHANGED <<provVars, arts, lastEvent, disk, history, taskActive, now>>

Observed(view, result) == [at |-> "observe", view |-> view, result |-> result]

reconcile_inspected(c) ==
    /\ op[c].at = "hashing" /\ op[c].kind = "reconcile"
    /\ LET found == inspect_filesystem(c)
       IN  Goto(c, IF found.error = "changed" THEN NoOp
                   ELSE Observed(op[c].view, reconcile_filesystem(op[c].view, found)))
    /\ UNCHANGED <<provVars, arts, lastEvent, disk, history, taskActive, now, done>>

\* A resource artifact is looked up in the registry, under the state mutex.
reconcile_lookup(c) ==
    /\ Free
    /\ op[c].at = "lookup"
    /\ LET l == op[c].view.locator
           ref == provider_resource_availability(l.provider, l.id, l.generation)
       IN  Goto(c, Observed(op[c].view,
                     [availability |-> CASE ref = "available" -> "available"
                                         [] ref = "unavailable" -> "unavailable"
                                         [] ref \in {"stale", "removed", "none"} -> "missing",
                      integrity |-> op[c].view.integrity]))
    /\ UNCHANGED <<provVars, arts, lastEvent, disk, history, taskActive, now, done>>

\* Mutant: a row that is gone is written again.
observation_revives(a, result) ==
    LET row == [arts[a] EXCEPT !.availability = result.availability,
                               !.integrity = result.integrity, !.forgotten = FALSE]
    IN  arts' = [arts EXCEPT ![a] = row] /\ insert_artifact_event(a, "observed", row)

update_artifact_observation(a, result) ==
    LET row == [arts[a] EXCEPT !.availability = result.availability,
                               !.integrity = result.integrity]
    IN  /\ a \in Rows
        /\ arts' = [arts EXCEPT ![a] = row]
        /\ IF \/ arts[a].availability # result.availability
              \/ arts[a].integrity # result.integrity
           THEN insert_artifact_event(a, "observed", row) ELSE UNCHANGED lastEvent

reconcile_writes(c) ==
    /\ Free
    /\ op[c].at = "observe"
    /\ \/ update_artifact_observation(op[c].view.id, op[c].result)
       \/ op[c].view.id \notin Rows /\ UNCHANGED <<arts, lastEvent>>
    /\ Goto(c, NoOp)
    /\ UNCHANGED <<provVars, disk, history, taskActive, now, done>>

---------------------------------------------------------------------------
\* cleanup_artifact_for_internal_use

cleanup_starts(c, a) ==
    /\ Free
    /\ op[c].at = "idle"
    /\ visible(a, Me(c))
    /\ Me(c) = Root \/ arts[a].owner = Me(c)
    /\ artifact_cleanup_eligibility(a, now) = "Eligible"
    /\ IsFile(arts[a].locator)
    /\ Spend
    /\ Goto(c, Looking("cleanup", arts[a].locator.path, artifact_view_visible(a)))
    /\ UNCHANGED <<provVars, arts, lastEvent, disk, history, taskActive, now>>

\* delete_expected_filesystem_content up to remove_file.
cleanup_inspected(c) ==
    /\ op[c].at = "hashing" /\ op[c].kind = "cleanup"
    /\ LET found == inspect_filesystem(c)
           next(at) == [at |-> at, view |-> op[c].view]
       IN  Goto(c, CASE found.error = "not_found" -> next("mark")
                     [] found.error = "none" /\ found.sha256 = op[c].view.digest -> next("remove")
                     [] OTHER -> NoOp)
    /\ UNCHANGED <<provVars, arts, lastEvent, disk, history, taskActive, now, done>>

Stand(p, content) ==
    /\ disk' = [disk EXCEPT ![p] = [content |-> content, version |-> @.version + 1]]
    /\ history' = [history EXCEPT ![p] = @ \cup {content}]

cleanup_remove_file(c) ==
    /\ op[c].at = "remove"
    /\ LET p == op[c].view.locator.path
       IN  IF disk[p].content = Absent THEN Goto(c, NoOp) /\ UNCHANGED <<disk, history>>
           ELSE Goto(c, [op[c] EXCEPT !.at = "mark"]) /\ Stand(p, Absent)
    /\ UNCHANGED <<provVars, arts, lastEvent, taskActive, now, done>>

mark_artifact_removed(a) ==
    LET row == [arts[a] EXCEPT !.availability = "removed"]
    IN  /\ a \in Rows
        /\ arts' = [arts EXCEPT ![a] = row]
        /\ insert_artifact_event(a, "content_removed", row)

cleanup_marks(c) ==
    /\ Free
    /\ op[c].at = "mark"
    /\ \/ mark_artifact_removed(op[c].view.id)
       \/ op[c].view.id \notin Rows /\ UNCHANGED <<arts, lastEvent>>
    /\ Goto(c, NoOp)
    /\ UNCHANGED <<provVars, disk, history, taskActive, now, done>>

---------------------------------------------------------------------------
\* Operations in one transaction

forget_artifact_metadata(c, a) ==
    /\ Free
    /\ op[c].at = "idle"
    /\ authorize_owner_or_root(a, Me(c))
    /\ Spend
    /\ arts' = [arts EXCEPT ![a].forgotten = TRUE]
    /\ insert_artifact_event(a, "forgotten", arts[a])
    /\ UNCHANGED <<provVars, disk, history, taskActive, now, op>>

add_artifact_hold(c, a, h) ==
    /\ Free
    /\ op[c].at = "idle"
    /\ authorize_owner_or_root(a, Me(c))
    /\ Spend
    /\ arts' = [arts EXCEPT ![a].holds = {o \in @ : o.ref # h.ref} \cup {h}]
    /\ UNCHANGED <<provVars, lastEvent, disk, history, taskActive, now, op>>

remove_artifact_hold(c, a, ref) ==
    /\ Free
    /\ op[c].at = "idle"
    /\ authorize_owner_or_root(a, Me(c))
    /\ \E h \in arts[a].holds : h.ref = ref
    /\ Spend
    /\ arts' = [arts EXCEPT ![a].holds = {h \in @ : h.ref # ref}]
    /\ UNCHANGED <<provVars, lastEvent, disk, history, taskActive, now, op>>

add_artifact_task_relationship(c, a, k) ==
    /\ Free
    /\ op[c].at = "idle"
    /\ authorize_owner_or_root(a, Me(c))
    /\ TaskOwner[k] = arts[a].owner
    /\ k \notin arts[a].tasks
    /\ Spend
    /\ arts' = [arts EXCEPT ![a].tasks = @ \cup {k}]
    /\ UNCHANGED <<provVars, lastEvent, disk, history, taskActive, now, op>>

\* Who may read of an artifact (docs/ARTIFACTS.md, Confidentiality).
Readers(a) ==
    CASE arts[a].confidentiality = "private" -> {Root, arts[a].owner}
      [] arts[a].confidentiality = "shared" -> {Root, arts[a].owner} \cup arts[a].shares
      [] arts[a].confidentiality = "public" -> Principals
MayRead(u) == {a \in Rows : u \in Readers(a)}

\* artifact.list, page by page.  steady is what the client might read all the
\* time, stray what a page showed although the client might not read it then.
list_page(c, after, seen, steady, stray) ==
    LET page == list_artifacts_visible(Me(c), after)
    IN  Goto(c, [at |-> IF page.next_cursor = 0 THEN "listed" ELSE "paging",
                 cursor |-> page.next_cursor, seen |-> seen \cup page.items,
                 steady |-> steady \cap MayRead(Me(c)),
                 stray |-> stray \cup (page.items \ MayRead(Me(c)))])

artifact_list(c) ==
    /\ Free
    /\ \/ op[c].at = "idle" /\ Spend /\ list_page(c, 0, {}, Rows, {})
       \/ /\ op[c].at = "paging"
          /\ list_page(c, op[c].cursor, op[c].seen, op[c].steady, op[c].stray)
          /\ UNCHANGED done
    /\ UNCHANGED <<provVars, arts, lastEvent, disk, history, taskActive, now>>

artifact_list_ends(c) ==
    /\ op[c].at = "listed"
    /\ Goto(c, NoOp)
    /\ UNCHANGED <<provVars, arts, lastEvent, disk, history, taskActive, now, done>>

\* A session the adapter records by itself becomes a reference artifacts can name.
adapter_records_ref(p, u) ==
    /\ Free
    /\ Happens
    /\ \E i \in BrowserIds, s \in {"available", "unavailable", "removed"} :
         record_provider_resource_ref([provider |-> p, owner |-> u, id |-> i,
                                       generation |-> 1, availability |-> s])
    /\ UNCHANGED <<regs, job, registry, dir, browser, probe, pager, artVars>>

---------------------------------------------------------------------------
\* The environment: programs that write files, tasks that end, time, crashes

external_write(p, content) ==
    /\ disk[p].content # content
    /\ Happens
    /\ Stand(p, content)
    /\ UNCHANGED <<regs, refs, job, registry, dir, browser, probe, pager,
                   arts, lastEvent, taskActive, now, op, done>>

task_ends(k) ==
    /\ taskActive[k]
    /\ taskActive' = [taskActive EXCEPT ![k] = FALSE]
    /\ UNCHANGED <<provVars, arts, lastEvent, disk, history, now, op, done>>

time_passes ==
    /\ now < MaxNow
    /\ now' = now + 1
    /\ UNCHANGED <<provVars, arts, lastEvent, disk, history, taskActive, op, done>>

ArtInit ==
    /\ arts = <<>>
    /\ lastEvent = <<>>
    /\ disk \in [Paths -> {[content |-> x, version |-> 0] : x \in Contents}]
    /\ history = [p \in Paths |-> {disk[p].content}]
    /\ taskActive = [k \in Tasks |-> TRUE]
    /\ now = 1
    /\ op = [c \in Callers |-> NoOp]
    /\ done = 0

Init == ProvInit /\ ArtInit

\* Manifests come and go next to the artifacts (what the adapter writes is
\* adapter_records_ref); a crash ends every thread.
manifest_step == ManifestSteps /\ UNCHANGED artVars
crash_step ==
    /\ portusd_crashes
    /\ op' = [c \in Callers |-> NoOp]
    /\ UNCHANGED <<arts, lastEvent, disk, history, taskActive, now, done>>

ArtNext ==
    \/ \E c \in Callers :
         \/ \E r \in Requests : register_starts(c, r)
         \/ inspect_starts(c) \/ register_inspected(c) \/ register_inserts(c)
         \/ reconcile_inspected(c) \/ reconcile_lookup(c) \/ reconcile_writes(c)
         \/ artifact_list(c) \/ artifact_list_ends(c)
         \/ cleanup_inspected(c) \/ cleanup_remove_file(c) \/ cleanup_marks(c)
         \/ \E a \in DOMAIN arts :
              \/ reconcile_starts(c, a) \/ cleanup_starts(c, a)
              \/ forget_artifact_metadata(c, a)
              \/ \E h \in Holds : add_artifact_hold(c, a, h)
              \/ \E h \in Holds : remove_artifact_hold(c, a, h.ref)
              \/ \E k \in Tasks : add_artifact_task_relationship(c, a, k)
    \/ \E p \in DOMAIN regs, u \in Users : adapter_records_ref(p, u)
    \/ \E p \in Paths, x \in Contents \cup {Absent, Unreadable} : external_write(p, x)
    \/ \E k \in Tasks : task_ends(k)
    \/ time_passes

ArtSpec == Init /\ [][ArtNext \/ manifest_step \/ crash_step]_vars

---------------------------------------------------------------------------
\* Properties

\* Artifact rows, threads and the clock are well formed.
ArtTypeOK ==
    /\ \A a \in DOMAIN arts :
         /\ arts[a].availability \in {"available", "unavailable", "missing", "removed"}
         /\ arts[a].integrity \in {"verified", "mismatch", "provider_authoritative"}
         /\ arts[a].tasks \subseteq Tasks
    /\ DOMAIN lastEvent = DOMAIN arts
    /\ now \in 1 .. MaxNow
    /\ \A c \in Callers : op[c].at \in {"idle", "inspect", "hashing", "insert", "lookup", "observe",
                                       "remove", "mark", "paging", "listed"}

\* The durable events of an artifact tell its state: the newest one carries the
\* availability and integrity of the row, whichever of several concurrent
\* reconciliations and cleanups wrote last.
EventsTellTheState ==
    \A a \in Rows : lastEvent[a].availability = arts[a].availability
                     /\ lastEvent[a].integrity = arts[a].integrity

\* Content is recorded as removed only if its registration allowed Portus to
\* clean it up: a file, cleanup authority, not retained, its retention over.
RemovedWasCleanable ==
    \A a \in Rows : arts[a].availability = "removed" =>
        /\ IsFile(arts[a].locator)
        /\ arts[a].authority \in {"portus", "task"}
        /\ arts[a].retention # "retained"
        /\ arts[a].retention = "until" => arts[a].expires <= now

\* A verdict about a file rests on something that really stood at its path: a
\* digest on that content, a mismatch on another one, missing and removed on the
\* file's absence, although the file may have changed again since.
VerdictHasEvidence ==
    \A a \in Rows : IsFile(arts[a].locator) =>
        LET past == history[arts[a].locator.path]
        IN  /\ arts[a].digest \in past
            /\ arts[a].integrity = "mismatch" => past \cap (Contents \ {arts[a].digest}) # {}
            /\ arts[a].availability \in {"missing", "removed"} => Absent \in past
            /\ arts[a].availability = "unavailable" => Unreadable \in past

\* What an artifact records of a provider resource comes from the registry: an
\* artifact of a reference that was never registered by its owner cannot exist.
ResourceIsRegistered ==
    \A a \in Rows : ~IsFile(arts[a].locator) =>
        \E r \in refs : /\ r.provider = arts[a].locator.provider
                        /\ r.id = arts[a].locator.id
                        /\ r.generation = arts[a].locator.generation

\* A client that pages through artifact.list has seen every artifact that it
\* might read all the time, and no page of it showed one that the client might
\* not read: another's private artifact, one that is not shared with it, or one
\* that was forgotten between two pages.
ListingIsExact ==
    \A c \in Callers :
        /\ op[c].at = "listed" => op[c].steady \subseteq op[c].seen
        /\ op[c].at \in {"paging", "listed"} => op[c].stray = {}

\* Forgotten metadata stays forgotten: a reconciliation or cleanup that captured
\* the row before changes nothing about it afterwards.
ForgottenIsFinal == [][\A a \in DOMAIN arts : arts[a].forgotten => arts'[a] = arts[a]]_vars

\* What a row says is backed by the world: a verdict by what stood at the path,
\* a removal by the right to remove, a resource by the registry
\* (reconcile_artifact, cleanup_artifact, register_artifact).
RowsAreBacked ==
    ArtTypeOK /\ VerdictHasEvidence /\ RemovedWasCleanable /\ ResourceIsRegistered

\* What clients read agrees with the rows, whoever writes meanwhile: events
\* tell the state, listings are complete and show nothing else.
ReadersSeeTheRows == EventsTellTheState /\ ListingIsExact
===========================================================================
