----------------------------- MODULE PolicyAdmin -----------------------------
(***************************************************************************)
(* portus-privd: administration and evaluation of the policy.              *)
(*                                                                         *)
(* The policy of each UID is a file of subjects.d, changed only by         *)
(* commit_subject: write a temporary file, fsync it, rename it over the    *)
(* old one, fsync the directory and read it back.  Privileged use is       *)
(* decided on the snapshot in memory.  The policy mutex is held over a     *)
(* whole mutation and over each decision, but neither over the executor    *)
(* nor over the audit record; the process or the machine may stop between  *)
(* any two steps.                                                          *)
(***************************************************************************)
EXTENDS Naturals, FiniteSets

CONSTANTS Requests,        \* request identities; one connection serves one
          Uids, Actions, Resources, Bundles,
          NeedsResource,   \* actions with resource_required
          RootEquivalent,  \* actions with root_equivalent
          Typed,           \* actions of class privileged_typed_operation
          BundleGrants,    \* grants of each bundle
          InitialPolicies, \* what subjects.d may hold at the start
          Asked,           \* what clients ask for
          MAX_GRANTS, MAX_SUBJECTS,
          MaxFaults,       \* bound on failed file operations and audit records
          MaxCrashes       \* bound on crashes and power losses

Effects  == {"allow", "prompt", "reject"}
Scopes   == Resources \cup {"none"}
Grant    == [action : Actions, effect : Effects, resources : SUBSET Resources]
Subject  == [bundles : [Bundles -> {"none", "on", "off"}], grants : SUBSET Grant]
Empty    == [bundles |-> [b \in Bundles |-> "none"], grants |-> {}]
Absent   == [file |-> "absent"]
Torn     == [file |-> "torn"]

Mutations == {"grant", "revoke", "bundle"}
NoRequest == [kind |-> "none"]
Inputs ==
  [kind : {"use"}, uid : Uids, action : Actions, resource : Scopes]
    \cup [kind : {"show"}, root : BOOLEAN, uid : Uids]
    \cup [kind : {"grant"}, root : BOOLEAN, uid : Uids, action : Actions,
          effect : Effects, resource : Scopes, ack : BOOLEAN]
    \cup [kind : {"revoke"}, root : BOOLEAN, uid : Uids, action : Actions,
          resource : Scopes]
    \cup [kind : {"bundle"}, root : BOOLEAN, uid : Uids, bundle : Bundles,
          enabled : BOOLEAN]

VARIABLES
  disk,      \* the file of each UID, as the file system shows it
  stable,    \* the file of each UID a power loss is sure to leave
  unsynced,  \* UIDs whose visible file has contents that were never fsynced
  live,      \* subjects of the snapshot in portus-privd's memory
  up,        \* portus-privd serves requests
  holder,    \* the request that holds the policy mutex, in a set
  candidate, \* the subject it commits
  synced,    \* its temporary file was fsynced
  req, at, reply,
  executed,  \* requests whose operation reached the executor
  recorded,  \* requests with an audit record
  audit_failures,
  changed,   \* requests whose rename took place
  effects,   \* history: what the live policy said of a use while it ran
  promised,  \* history: grants that were confirmed and not touched since
  faults, crashes

files   == <<disk, stable, unsynced>>
memory  == <<live, up>>
commit  == <<holder, candidate, synced>>
trail   == <<recorded, audit_failures>>
past    == <<executed, changed, effects, promised>>
vars    == <<files, memory, commit, req, at, reply, trail, past, faults, crashes>>

Goto(r, label)  == at' = [at EXCEPT ![r] = label] /\ UNCHANGED reply
Finish(r, code) == at' = [at EXCEPT ![r] = "audit"] /\ reply' = [reply EXCEPT ![r] = code]
Answer(r, code) == at' = [at EXCEPT ![r] = "done"] /\ reply' = [reply EXCEPT ![r] = code]
Running(r)      == at[r] \notin {"new", "done"}

Fault(failed) ==
  /\ failed => faults < MaxFaults
  /\ faults' = IF failed THEN faults + 1 ELSE faults
-----------------------------------------------------------------------------
(***************************************************************************)
(* portus-policy: validation, mutation and evaluation of subjects.         *)
(***************************************************************************)
grant_keys(g) ==
  IF g.action \in NeedsResource THEN {<<g.action, x>> : x \in g.resources}
                                ELSE {<<g.action, "none">>}

\* Resources exactly where the action takes them, and no scope twice.
validate_grants(G) ==
  /\ \A g \in G : (g.action \in NeedsResource) = (g.resources # {})
  /\ \A g, h \in G : g # h => grant_keys(g) \cap grant_keys(h) = {}

validate_bundle(G) ==
  validate_grants(G) /\ \A g \in G : g.action \notin RootEquivalent

validate_subject(s) ==
  s \in Subject /\ Cardinality(s.grants) <= MAX_GRANTS /\ validate_grants(s.grants)

from_documents(D) ==
  /\ \A u \in Uids : D[u] # Absent => validate_subject(D[u])
  /\ Cardinality({u \in Uids : D[u] # Absent}) <= MAX_SUBJECTS

ASSUME RegistryAssumption ==
  /\ NeedsResource \subseteq Actions
  /\ RootEquivalent \subseteq Actions /\ Typed \subseteq Actions \ RootEquivalent
  /\ BundleGrants \in [Bundles -> SUBSET Grant]
  /\ \A b \in Bundles : validate_bundle(BundleGrants[b])
ASSUME PoliciesAssumption ==
  InitialPolicies \subseteq {D \in [Uids -> Subject \cup {Absent}] : from_documents(D)}
ASSUME AskedAssumption == Asked \subseteq Inputs
ASSUME PolicyBoundsAssumption ==
  MAX_GRANTS \in Nat /\ MAX_SUBJECTS \in Nat /\ MaxFaults \in Nat /\ MaxCrashes \in Nat

subject(f) == IF f = Absent THEN Empty ELSE f

same_scope(g, action, resource) ==
  g.action = action /\ g.resources = (IF resource = "none" THEN {} ELSE {resource})

\* Mutant: retain drops the grants of every scope.
mutated_from_scratch(s, i) ==
  CASE i.kind = "grant" ->
         [s EXCEPT !.grants = {[action |-> i.action, effect |-> i.effect,
            resources |-> IF i.resource = "none" THEN {} ELSE {i.resource}]}]
    [] i.kind = "revoke" ->
         [s EXCEPT !.grants = {g \in @ : ~same_scope(g, i.action, i.resource)}]
    [] i.kind = "bundle" ->
         [s EXCEPT !.bundles[i.bundle] = IF i.enabled THEN "on" ELSE "off"]

mutated(s, i) ==
  CASE i.kind = "grant" ->
         [s EXCEPT !.grants =
            {g \in @ : ~same_scope(g, i.action, i.resource)}
              \cup {[action |-> i.action, effect |-> i.effect,
                     resources |-> IF i.resource = "none" THEN {} ELSE {i.resource}]}]
    [] i.kind = "revoke" ->
         [s EXCEPT !.grants = {g \in @ : ~same_scope(g, i.action, i.resource)}]
    [] i.kind = "bundle" ->
         [s EXCEPT !.bundles[i.bundle] = IF i.enabled THEN "on" ELSE "off"]

\* apply_admin_mutation returns Ok.
apply_admin_mutation(s, i) ==
  /\ i.kind = "grant" =>
       /\ i.action \in RootEquivalent /\ i.effect # "reject" => i.ack
       /\ (i.action \in NeedsResource) = (i.resource # "none")
  /\ validate_subject(mutated(s, i))

\* resolved_grant_map: grants of enabled bundles, which must agree, under the
\* explicit grants of the subject.
from_bundles(s) == UNION {BundleGrants[b] : b \in {c \in Bundles : s.bundles[c] = "on"}}

conflicting(s) ==
  \E g, h \in from_bundles(s) :
    g.effect # h.effect /\ grant_keys(g) \cap grant_keys(h) # {}

evaluate(s, key) ==
  LET granted(G) == {g.effect : g \in {h \in G : key \in grant_keys(h)}} IN
  IF (key[1] \in NeedsResource) # (key[2] # "none") \/ conflicting(s) THEN "error"
  ELSE IF granted(s.grants) # {} THEN CHOOSE e \in granted(s.grants) : TRUE
  ELSE IF granted(from_bundles(s)) # {} THEN CHOOSE e \in granted(from_bundles(s)) : TRUE
  ELSE "reject"
-----------------------------------------------------------------------------
(***************************************************************************)
(* dispatch_use and dispatch_admin.                                        *)
(***************************************************************************)
Decision(L, i) == evaluate(subject(L[i.uid]), <<i.action, i.resource>>)

dispatch(r, i) ==
  /\ up /\ at[r] = "new"
  /\ req' = [req EXCEPT ![r] = i]
  /\ effects' = [effects EXCEPT ![r] = IF i.kind = "use" THEN {Decision(live, i)} ELSE {}]
  /\ IF i.kind = "use" THEN Goto(r, "decide")
     ELSE IF ~i.root THEN Finish(r, "permission_denied")
     ELSE Goto(r, "lock")
  /\ UNCHANGED <<files, memory, commit, trail, executed, changed, promised,
                 faults, crashes>>

\* Mutant: an action that needs approval is carried out.
outcome_of_prompt(r, effect) ==
  IF effect = "error" THEN Answer(r, "invalid_request")
  ELSE IF req[r].action \notin Typed THEN Answer(r, "unsupported")
  ELSE IF effect = "reject" THEN Finish(r, "permission_denied")
  ELSE Goto(r, "execute")

\* What execute does with a decision; errors and unsupported actions return
\* before audit_use.
outcome(r, effect) ==
  IF effect = "error" THEN Answer(r, "invalid_request")
  ELSE IF req[r].action \notin Typed THEN Answer(r, "unsupported")
  ELSE \/ effect = "reject" /\ Finish(r, "permission_denied")
       \/ effect = "prompt" /\ Finish(r, "approval_required")
       \/ effect = "allow"  /\ Goto(r, "execute")

decide(r) ==
  /\ at[r] = "decide" /\ holder = {}
  /\ outcome(r, Decision(live, req[r]))
  /\ UNCHANGED <<files, memory, commit, req, trail, past, faults, crashes>>

\* The executor runs without the mutex.
execute(r) ==
  /\ at[r] = "execute"
  /\ executed' = executed \cup {r}
  /\ \E code \in {"ok", "unavailable"} : Finish(r, code)
  /\ UNCHANGED <<files, memory, commit, req, trail, changed, effects, promised,
                 faults, crashes>>

admin_show(r) ==
  /\ at[r] = "lock" /\ holder = {} /\ req[r].kind = "show"
  /\ Finish(r, IF conflicting(subject(live[req[r].uid])) THEN "invalid_request" ELSE "ok")
  /\ UNCHANGED <<files, memory, commit, req, trail, past, faults, crashes>>

\* mutate_subject takes the mutex, copies the live subject and mutates it.
mutate_subject(r) ==
  /\ at[r] = "lock" /\ holder = {} /\ req[r].kind \in Mutations
  /\ LET s == subject(live[req[r].uid]) IN
     IF apply_admin_mutation(s, req[r])
       THEN /\ holder' = {r} /\ candidate' = mutated(s, req[r]) /\ synced' = FALSE
            /\ Goto(r, "write")
       ELSE UNCHANGED commit /\ Finish(r, "invalid_request")
  /\ UNCHANGED <<files, memory, req, trail, past, faults, crashes>>

Release == holder' = {} /\ candidate' = Empty /\ synced' = FALSE
-----------------------------------------------------------------------------
(***************************************************************************)
(* commit_subject.  A step that fails removes the temporary file and the   *)
(* request is answered "unavailable"; nothing undoes a rename.             *)
(***************************************************************************)
commit_fails(r) == Fault(TRUE) /\ Release /\ Finish(r, "unavailable")
continue(r, next) == Fault(FALSE) /\ UNCHANGED <<holder, candidate>> /\ Goto(r, next)

\* The directory test, create_new and write_all.
write_temp(r) ==
  /\ at[r] = "write"
  /\ \/ commit_fails(r)
     \/ continue(r, "fsync") /\ UNCHANGED synced
  /\ UNCHANGED <<files, memory, req, trail, past, crashes>>

\* Mutant: the contents are left to the page cache.
fsync_skipped(r) ==
  /\ at[r] = "fsync"
  /\ continue(r, "rename") /\ UNCHANGED synced
  /\ UNCHANGED <<files, memory, req, trail, past, crashes>>

fsync_temp(r) ==
  /\ at[r] = "fsync"
  /\ \/ commit_fails(r)
     \/ continue(r, "rename") /\ synced' = TRUE
  /\ UNCHANGED <<files, memory, req, trail, past, crashes>>

\* Confirmed grants whose scope this mutation rewrites.
touched(i) == {p \in promised : p.uid = i.uid /\ i.kind # "bundle"
                                /\ p.key = <<i.action, i.resource>>}

rename_temp(r) ==
  /\ at[r] = "rename"
  /\ \/ commit_fails(r) /\ UNCHANGED <<files, changed, promised>>
     \/ /\ disk' = [disk EXCEPT ![req[r].uid] = candidate]
        /\ unsynced' = IF synced THEN unsynced \ {req[r].uid}
                                 ELSE unsynced \cup {req[r].uid}
        /\ changed' = changed \cup {r}
        /\ promised' = promised \ touched(req[r])
        /\ continue(r, "dirsync")
        /\ UNCHANGED <<stable, synced>>
  /\ UNCHANGED <<memory, req, trail, executed, effects, crashes>>

\* fsync of the directory makes every earlier rename durable.
dirsync(r) ==
  /\ at[r] = "dirsync"
  /\ \/ commit_fails(r) /\ UNCHANGED stable
     \/ /\ stable' = disk
        /\ continue(r, "reread") /\ UNCHANGED synced
  /\ UNCHANGED <<disk, unsynced, memory, req, trail, past, crashes>>

\* Read back and compared with the candidate; replace_subject comes next.
reread(r) ==
  /\ at[r] = "reread"
  /\ \/ commit_fails(r)
     \/ /\ disk[req[r].uid] = candidate
        /\ continue(r, "publish") /\ UNCHANGED synced
  /\ UNCHANGED <<files, memory, req, trail, past, crashes>>

promise(i) == [uid |-> i.uid, key |-> <<i.action, i.resource>>, effect |-> i.effect]

published(r) == [live EXCEPT ![req[r].uid] = candidate]

\* replace_subject, then subject_view, which fails on conflicting bundles
\* although the subject is committed and live.
replace_subject(r) ==
  /\ at[r] = "publish"
  /\ live' = published(r)
  /\ Release
  /\ IF conflicting(candidate)
       THEN Finish(r, "invalid_request") /\ UNCHANGED promised
       ELSE /\ Finish(r, "ok")
            /\ promised' = IF req[r].kind = "grant" THEN promised \cup {promise(req[r])}
                                                    ELSE promised
  /\ effects' = [q \in Requests |->
       IF Running(q) /\ req[q].kind = "use" THEN effects[q] \cup {Decision(live', req[q])}
                                            ELSE effects[q]]
  /\ UNCHANGED <<files, up, req, trail, executed, changed, faults, crashes>>

\* audit_use and audit_admin: a record that fails is only counted.
audit(r) ==
  /\ at[r] = "audit"
  /\ \E failed \in BOOLEAN :
       /\ Fault(failed)
       /\ recorded' = IF failed THEN recorded ELSE recorded \cup {r}
       /\ audit_failures' = IF failed THEN audit_failures + 1 ELSE audit_failures
  /\ Goto(r, "done")
  /\ UNCHANGED <<files, memory, commit, req, past, crashes>>
-----------------------------------------------------------------------------
(***************************************************************************)
(* The world: a crash of the process or of the machine, and a restart.     *)
(***************************************************************************)
\* What the file system may hold for u after a power loss.
survivors(u) == {stable[u], IF u \in unsynced THEN Torn ELSE disk[u]}

crash(power) ==
  /\ up /\ crashes < MaxCrashes
  /\ crashes' = crashes + 1
  /\ up' = FALSE
  /\ IF power
       THEN /\ disk' \in {D \in [Uids -> UNION {survivors(u) : u \in Uids}] :
                            \A u \in Uids : D[u] \in survivors(u)}
            /\ stable' = disk' /\ unsynced' = {}
       ELSE UNCHANGED files
  /\ at' = [r \in Requests |-> IF at[r] = "new" THEN "new" ELSE "done"]
  /\ audit_failures' = 0
  /\ Release
  /\ UNCHANGED <<live, req, reply, recorded, past, faults>>

\* PrivilegeServer::bind refuses a policy that does not load.
bind ==
  /\ ~up /\ from_documents(disk)
  /\ up' = TRUE /\ live' = disk
  /\ UNCHANGED <<files, commit, req, at, reply, trail, past, faults, crashes>>

Init ==
  /\ disk \in InitialPolicies /\ stable = disk /\ unsynced = {}
  /\ live = disk /\ up = TRUE
  /\ holder = {} /\ candidate = Empty /\ synced = FALSE
  /\ req = [r \in Requests |-> NoRequest] /\ at = [r \in Requests |-> "new"]
  /\ reply = [r \in Requests |-> "none"]
  /\ executed = {} /\ recorded = {} /\ audit_failures = 0 /\ changed = {}
  /\ effects = [r \in Requests |-> {}] /\ promised = {}
  /\ faults = 0 /\ crashes = 0

RequestStep(r) ==
  \/ decide(r) \/ execute(r) \/ admin_show(r) \/ mutate_subject(r)
  \/ write_temp(r) \/ fsync_temp(r) \/ rename_temp(r) \/ dirsync(r) \/ reread(r)
  \/ replace_subject(r) \/ audit(r)

Next ==
  \/ \E r \in Requests, i \in Asked : dispatch(r, i)
  \/ \E r \in Requests : RequestStep(r)
  \/ \E power \in BOOLEAN : crash(power)
  \/ bind

Spec == Init /\ [][Next]_vars
-----------------------------------------------------------------------------
(***************************************************************************)
(* Properties.                                                             *)
(***************************************************************************)
authority(f) ==
  {g \in subject(f).grants : g.action \in RootEquivalent /\ g.effect # "reject"}

Codes == {"none", "ok", "permission_denied", "approval_required", "unsupported",
          "invalid_request", "unavailable"}

\* Every variable holds a value of its type; one mutation is under way at most.
TypeOK ==
  /\ disk \in [Uids -> Subject \cup {Absent, Torn}]
  /\ stable \in [Uids -> Subject \cup {Absent, Torn}]
  /\ live \in [Uids -> Subject \cup {Absent}]
  /\ unsynced \subseteq Uids /\ up \in BOOLEAN /\ synced \in BOOLEAN
  /\ holder \subseteq Requests /\ Cardinality(holder) <= 1 /\ candidate \in Subject
  /\ req \in [Requests -> Inputs \cup {NoRequest}]
  /\ at \in [Requests -> {"new", "decide", "execute", "lock", "write", "fsync",
                          "rename", "dirsync", "reread", "publish", "audit", "done"}]
  /\ reply \in [Requests -> Codes]
  /\ executed \subseteq Requests /\ recorded \subseteq Requests
  /\ changed \subseteq Requests
  /\ audit_failures \in 0..MaxFaults /\ faults \in 0..MaxFaults

\* Whatever fails, and wherever the machine loses power, every subject file
\* that is left can be loaded again.
PolicyLoads ==
  \A u \in Uids : disk[u] # Absent => validate_subject(disk[u])

\* A confirmed grant stays in force, in memory and on disk, through other
\* mutations, failed commits, crashes and power losses, until a mutation of
\* the same scope reaches the disk.
ConfirmedGrantHolds ==
  \A p \in promised :
    LET holds(f) == \E g \in subject(f).grants : p.key \in grant_keys(g)
                                                 /\ g.effect = p.effect
    IN  holds(disk[p.uid]) /\ (up => holds(live[p.uid]))

\* The deciding snapshot and the files apart only while a mutation is under
\* way, or after one that was answered with an error for that UID.
LiveMatchesDisk ==
  up => \A u \in Uids :
    live[u] = disk[u]
      \/ \E r \in changed : req[r].uid = u /\ (r \in holder \/ reply[r] = "unavailable")

\* An operation that was executed was allowed by the live policy at some
\* moment while its request ran, and is a typed privileged operation.
ExecutedWasAllowed ==
  \A r \in executed : "allow" \in effects[r] /\ req[r].action \in Typed

\* Effective root-equivalent authority appears only with an acknowledgement:
\* a step of the running daemon that brings a new such grant to disk is the
\* commit of a request of UID 0 that acknowledged it.
RootAuthorityAcknowledged ==
  [][\A u \in Uids :
       up' /\ disk'[u] # disk[u] =>
         authority(disk'[u]) \subseteq authority(disk[u]) \cup authority(live[u])
           \/ \E r \in holder : req[r].uid = u /\ req[r].root
                                /\ req[r].kind = "grant" /\ req[r].ack]_vars

\* The running snapshot only ever advances to what is durable: "reread,
\* revalidated, and only then reflected in the live snapshot"
\* (docs/POLICY_IMPLEMENTATION.md, line 540).
LiveAdvancesToDurable ==
  [][\A u \in Uids : up /\ up' /\ live'[u] # live[u] => live'[u] = stable[u]]_vars

\* Commits hold, through interleaved mutations, failed file operations, crashes
\* and power losses: confirmed grants stay in force, and the deciding snapshot
\* follows the files and only what is durable in them (commit_subject,
\* apply_admin_mutation).
CommittedPolicyHolds ==
  [](ConfirmedGrantHolds /\ LiveMatchesDisk) /\ LiveAdvancesToDurable

\* No authority without a decision of its own: what was executed had been
\* allowed, and root-equivalent grants had been acknowledged.
AuthorityIsGranted == [](TypeOK /\ ExecutedWasAllowed) /\ RootAuthorityAcknowledged

\* docs/POLICY_IMPLEMENTATION.md, line 458: "A malformed/incompatible new policy
\* must not replace the last valid policy": a mutation refused as invalid
\* changed nothing.
RefusedChangesNothing ==
  \A r \in Requests : reply[r] = "invalid_request" => r \notin changed
=============================================================================
