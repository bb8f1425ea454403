-------------------------- MODULE PolicyAdminProofs --------------------------
(***************************************************************************)
(* Theorems about the policy of portus-privd, for every set of requests,   *)
(* UIDs, actions and bundles, and any number of failed file operations,    *)
(* crashes and power losses.                                               *)
(***************************************************************************)
EXTENDS PolicyAdmin, FiniteSetTheorems, TLAPS

-----------------------------------------------------------------------------
(***************************************************************************)
(* The inductive invariant.                                                *)
(***************************************************************************)
Labels == {"new", "decide", "execute", "lock", "write", "fsync", "rename", "dirsync",
           "reread", "publish", "audit", "done"}
Committing == {"write", "fsync", "rename", "dirsync", "reread", "publish"}

\* A file that commit_subject may leave, or a subject of the snapshot.
Loadable(f) == f # Absent => validate_subject(f)

\* Everything that can be read back is complete: no temporary file was renamed
\* before its contents were fsynced.
FilesInv ==
  /\ unsynced = {}
  /\ \A u \in Uids : Loadable(disk[u]) /\ Loadable(stable[u]) /\ Loadable(live[u])

\* The policy mutex is held by the one request that commits.
LockInv ==
  /\ \A r \in Requests : r \in holder <=> at[r] \in Committing
  /\ \A q, r \in holder : q = r
  /\ ~up => \A r \in Requests : at[r] \in {"new", "done"}

\* How far the commit is: the candidate comes from the snapshot, which nobody
\* else replaces meanwhile, and the file is synced, renamed and durable in turn.
CommitInv(r) ==
  at[r] \in Committing =>
    /\ req[r].kind \in Mutations /\ req[r].root
    /\ apply_admin_mutation(subject(live[req[r].uid]), req[r])
    /\ candidate = mutated(subject(live[req[r].uid]), req[r])
    /\ at[r] = "rename" => synced
    /\ at[r] \in {"dirsync", "reread", "publish"} =>
         /\ disk[req[r].uid] = candidate /\ r \in changed
         /\ touched(req[r]) = {}
    /\ at[r] \in {"reread", "publish"} => stable = disk

\* Where a request can be, and what a use request knows of its decision.
RequestInv(r) ==
  /\ at[r] # "new" => req[r] \in Inputs
  /\ at[r] \in {"decide", "execute"} => req[r].kind = "use"
  /\ at[r] = "lock" => req[r].kind # "use" /\ req[r].root
  /\ at[r] \notin {"audit", "done"} => reply[r] = "none"
  /\ at[r] = "new" => r \notin changed /\ r \notin executed
  /\ at[r] = "decide" => Decision(live, req[r]) \in effects[r]
  /\ at[r] = "execute" => "allow" \in effects[r] /\ req[r].action \in Typed

Holds(p, f) == \E g \in subject(f).grants : p.key \in grant_keys(g) /\ g.effect = p.effect

\* A confirmed grant is in force in memory, in the files and in whatever a power
\* loss leaves of them.
PromiseInv ==
  \A p \in promised : /\ p.uid \in Uids
                      /\ Holds(p, disk[p.uid]) /\ Holds(p, stable[p.uid])
                      /\ up => Holds(p, live[p.uid])

PolicyInv ==
  /\ TypeOK /\ audit_failures <= faults
  /\ effects = [r \in Requests |-> effects[r]]
  /\ FilesInv /\ LockInv /\ PromiseInv
  /\ LiveMatchesDisk /\ ExecutedWasAllowed
  /\ \A r \in Requests : CommitInv(r) /\ RequestInv(r)
-----------------------------------------------------------------------------
(***************************************************************************)
(* What apply_admin_mutation does to the grants of a subject.              *)
(***************************************************************************)
LEMMA AbsentIsNoSubject == Absent \notin Subject /\ Torn # Absent
<1>1. DOMAIN Absent = {"file"} BY DEF Absent
<1>2. \A x \in Subject : DOMAIN x = {"bundles", "grants"} BY DEF Subject
<1> QED BY <1>1, <1>2 DEF Absent, Torn

LEMMA SubjectType ==
  ASSUME NEW f \in Subject \cup {Absent}
  PROVE  subject(f) \in Subject /\ (Loadable(f) => validate_grants(subject(f).grants))
<1>1. Empty \in Subject /\ Empty.grants = {} BY DEF Empty, Subject
<1>2. validate_grants({}) BY DEF validate_grants
<1> QED BY <1>1, <1>2 DEF subject, Loadable, validate_subject

\* The grant a request of kind "grant" adds.
Added(i) == [action |-> i.action, effect |-> i.effect,
             resources |-> IF i.resource = "none" THEN {} ELSE {i.resource}]

LEMMA MutatedGrants ==
  ASSUME NEW s \in Subject, NEW i \in Inputs, i.kind \in Mutations
  PROVE  /\ i.kind = "bundle" => mutated(s, i).grants = s.grants
         /\ i.kind = "revoke" =>
              mutated(s, i).grants = {g \in s.grants : ~same_scope(g, i.action, i.resource)}
         /\ i.kind = "grant" =>
              mutated(s, i).grants =
                {g \in s.grants : ~same_scope(g, i.action, i.resource)} \cup {Added(i)}
<1>1. i.kind = "bundle" => mutated(s, i).grants = s.grants BY DEF mutated, Subject
<1>2. i.kind = "revoke" =>
        mutated(s, i).grants = {g \in s.grants : ~same_scope(g, i.action, i.resource)}
  BY DEF mutated, Subject
<1>3. i.kind = "grant" =>
        mutated(s, i).grants =
          {g \in s.grants : ~same_scope(g, i.action, i.resource)} \cup {Added(i)}
  BY DEF mutated, Subject, Added
<1> QED BY <1>1, <1>2, <1>3

\* A mutation rewrites only the grants of its own scope.
LEMMA OtherScopesStay ==
  ASSUME NEW s \in Subject, validate_grants(s.grants), NEW i \in Inputs, i.kind \in Mutations,
         NEW g \in s.grants, NEW key \in grant_keys(g),
         i.kind # "bundle" => key # <<i.action, i.resource>>
  PROVE  g \in mutated(s, i).grants
<1>1. CASE i.kind = "bundle" BY <1>1, MutatedGrants
<1>2. CASE i.kind # "bundle"
  <2>1. ~same_scope(g, i.action, i.resource)
    <3> SUFFICES ASSUME same_scope(g, i.action, i.resource) PROVE FALSE OBVIOUS
    <3>1. g.action = i.action /\ g.resources = (IF i.resource = "none" THEN {} ELSE {i.resource})
      BY DEF same_scope
    <3>2. (g.action \in NeedsResource) = (g.resources # {}) BY DEF validate_grants
    <3>3. grant_keys(g) = {<<i.action, i.resource>>}
      <4>1. CASE i.resource = "none"
        <5>1. g.action \notin NeedsResource BY <3>1, <3>2, <4>1
        <5> QED BY <3>1, <4>1, <5>1 DEF grant_keys
      <4>2. CASE i.resource # "none"
        <5>1. g.action \in NeedsResource /\ g.resources = {i.resource} BY <3>1, <3>2, <4>2
        <5> QED BY <3>1, <5>1 DEF grant_keys
      <4> QED BY <4>1, <4>2
    <3> QED BY <1>2, <3>3
  <2> QED BY <1>2, <2>1, MutatedGrants DEF Mutations
<1> QED BY <1>1, <1>2

\* A grant that was made is found under the scope it was made for.
LEMMA AddedGrantHolds ==
  ASSUME NEW s \in Subject, NEW i \in Inputs, i.kind = "grant", apply_admin_mutation(s, i)
  PROVE  \E g \in mutated(s, i).grants : <<i.action, i.resource>> \in grant_keys(g)
                                         /\ g.effect = i.effect
<1>1. Added(i) \in mutated(s, i).grants BY MutatedGrants DEF Mutations
<1>2. (i.action \in NeedsResource) = (i.resource # "none") BY DEF apply_admin_mutation
<1>3. /\ Added(i).action = i.action /\ Added(i).effect = i.effect
      /\ Added(i).resources = (IF i.resource = "none" THEN {} ELSE {i.resource})
  BY DEF Added
<1>4. <<i.action, i.resource>> \in grant_keys(Added(i))
  <2>1. CASE i.resource = "none" BY <1>2, <1>3, <2>1 DEF grant_keys
  <2>2. CASE i.resource # "none"
    <3>1. Added(i).action \in NeedsResource /\ i.resource \in Added(i).resources BY <1>2, <1>3, <2>2
    <3> QED BY <1>3, <3>1 DEF grant_keys
  <2> QED BY <2>1, <2>2
<1> QED BY <1>1, <1>3, <1>4

\* Root-equivalent authority enters a subject only with an acknowledgement.
LEMMA AuthorityNeedsAck ==
  ASSUME NEW s \in Subject, NEW i \in Inputs, i.kind \in Mutations, apply_admin_mutation(s, i),
         NEW g \in mutated(s, i).grants, g.action \in RootEquivalent, g.effect # "reject",
         g \notin s.grants
  PROVE  i.kind = "grant" /\ i.ack
<1>1. i.kind = "grant" /\ g = Added(i) BY MutatedGrants DEF Mutations
<1>2. i.action \in RootEquivalent /\ i.effect # "reject" BY <1>1 DEF Added
<1> QED BY <1>1, <1>2 DEF apply_admin_mutation

\* Evaluation gives an effect or an error, for every subject and scope.
LEMMA EvaluateType ==
  ASSUME NEW s \in Subject, NEW key
  PROVE  evaluate(s, key) \in Effects \cup {"error"}
<1> DEFINE granted(G) == {g.effect : g \in {h \in G : key \in grant_keys(h)}}
<1>1. ASSUME NEW G \in SUBSET Grant PROVE granted(G) \subseteq Effects BY DEF Grant
<1>2. s.grants \in SUBSET Grant BY DEF Subject
<1>3. from_bundles(s) \in SUBSET Grant BY RegistryAssumption DEF from_bundles
<1>4. granted(s.grants) # {} => (CHOOSE e \in granted(s.grants) : TRUE) \in Effects BY <1>1, <1>2
<1>5. granted(from_bundles(s)) # {} => (CHOOSE e \in granted(from_bundles(s)) : TRUE) \in Effects
  BY <1>1, <1>3
<1> QED BY <1>4, <1>5 DEF evaluate, Effects
-----------------------------------------------------------------------------
(***************************************************************************)
(* What the control operators do.                                          *)
(***************************************************************************)
Moves(r, label, code) ==
  /\ at' \in [Requests -> Labels] /\ reply' \in [Requests -> Codes]
  /\ at'[r] = label /\ reply'[r] = code
  /\ \A q \in Requests : q # r => at'[q] = at[q] /\ reply'[q] = reply[q]

LEMMA FinishMoves ==
  ASSUME TypeOK, NEW r \in Requests, NEW code \in Codes, Finish(r, code)
  PROVE  Moves(r, "audit", code)
  BY DEF TypeOK, Finish, Moves, Labels

LEMMA AnswerMoves ==
  ASSUME TypeOK, NEW r \in Requests, NEW code \in Codes, Answer(r, code)
  PROVE  Moves(r, "done", code)
  BY DEF TypeOK, Answer, Moves, Labels

LEMMA GotoMoves ==
  ASSUME TypeOK, NEW r \in Requests, NEW label \in Labels, Goto(r, label)
  PROVE  Moves(r, label, reply[r])
  BY DEF TypeOK, Goto, Moves, Labels

LEMMA FaultBound ==
  ASSUME TypeOK, NEW failed \in BOOLEAN, Fault(failed)
  PROVE  faults' \in 0..MaxFaults /\ faults' >= faults /\ (failed => faults' = faults + 1)
  BY PolicyBoundsAssumption DEF TypeOK, Fault

\* Requests that take no part in a step keep what is known of them.
Bystander(q) ==
  /\ at'[q] = at[q] /\ reply'[q] = reply[q] /\ req'[q] = req[q]
  /\ effects[q] \subseteq effects'[q]
  /\ at[q] = "decide" => live' = live \/ Decision(live', req[q]) \in effects'[q]
  /\ (q \in changed') = (q \in changed) /\ (q \in executed') = (q \in executed)

LEMMA BystanderKeeps ==
  ASSUME NEW q \in Requests, RequestInv(q), Bystander(q)
  PROVE  RequestInv(q)'
<1>1. at'[q] = "decide" => Decision(live', req'[q]) \in effects'[q]
  <2>1. CASE live' = live BY <2>1 DEF Bystander, RequestInv, Decision
  <2>2. CASE live' # live BY <2>2 DEF Bystander
  <2> QED BY <2>1, <2>2
<1>2. /\ at'[q] # "new" => req'[q] \in Inputs
      /\ at'[q] \in {"decide", "execute"} => req'[q].kind = "use"
      /\ at'[q] = "lock" => req'[q].kind # "use" /\ req'[q].root
  BY DEF Bystander, RequestInv
<1>3. /\ at'[q] \notin {"audit", "done"} => reply'[q] = "none"
      /\ at'[q] = "new" => q \notin changed' /\ q \notin executed'
      /\ at'[q] = "execute" => "allow" \in effects'[q] /\ req'[q].action \in Typed
  BY DEF Bystander, RequestInv
<1> QED BY <1>1, <1>2, <1>3 DEF RequestInv, Decision

LEMMA BystanderExecuted ==
  ASSUME NEW q \in executed, ExecutedWasAllowed, Bystander(q)
  PROVE  "allow" \in effects'[q] /\ req'[q].action \in Typed
  BY DEF ExecutedWasAllowed, Bystander
-----------------------------------------------------------------------------
(***************************************************************************)
(* Steps outside a commit.                                                 *)
(***************************************************************************)
LEMMA QuietStep ==
  ASSUME PolicyInv, NEW r \in Requests, NEW label \in Labels \ (Committing \cup {"new"}),
         NEW code \in Codes, Moves(r, label, code), up,
         at[r] \notin Committing, at[r] # "done",
         UNCHANGED <<files, memory, commit, changed, promised, crashes>>,
         req' \in [Requests -> Inputs \cup {NoRequest}],
         at[r] # "new" => req'[r] = req[r],
         effects' = [q \in Requests |-> effects'[q]],
         \A q \in Requests : q # r => /\ req'[q] = req[q] /\ effects'[q] = effects[q]
                                      /\ (q \in executed') = (q \in executed),
         recorded' \subseteq Requests, executed' \subseteq Requests,
         faults' \in 0..MaxFaults, audit_failures' \in Nat, audit_failures' <= faults',
         reply[r] # "none" => code = reply[r],
         RequestInv(r)',
         r \in executed' => "allow" \in effects'[r] /\ req'[r].action \in Typed
  PROVE  PolicyInv'
<1>1. TypeOK' BY PolicyBoundsAssumption DEF PolicyInv, TypeOK, Moves, Labels, files, memory, commit
<1>2. \A q \in Requests : q # r => Bystander(q)
  BY DEF Moves, Bystander, memory
<1>3. FilesInv' BY DEF PolicyInv, FilesInv, files, memory
<1>4. r \notin holder /\ holder' = holder BY DEF PolicyInv, LockInv, commit
<1>5. LockInv'
  <2>1. \A q \in Requests : q \in holder' <=> at'[q] \in Committing
    BY <1>4 DEF PolicyInv, LockInv, Moves
  <2> QED BY <1>4, <2>1 DEF PolicyInv, LockInv, memory
<1>6. PromiseInv' BY DEF PolicyInv, PromiseInv, Holds, files, memory
<1>7. LiveMatchesDisk'
  <2> SUFFICES ASSUME NEW u \in Uids, live[u] # disk[u]
               PROVE  \E q \in changed : req'[q].uid = u /\ (q \in holder \/ reply'[q] = "unavailable")
    BY <1>4 DEF LiveMatchesDisk, files, memory
  <2>1. PICK q \in changed : req[q].uid = u /\ (q \in holder \/ reply[q] = "unavailable")
    BY DEF PolicyInv, LiveMatchesDisk
  <2>2. q \in Requests BY DEF PolicyInv, TypeOK
  <2>3. CASE q # r BY <2>1, <2>2, <2>3 DEF Moves
  <2>4. CASE q = r
    <3>1. reply[r] = "unavailable" /\ at[r] # "new" BY <1>4, <2>1, <2>4 DEF PolicyInv, RequestInv
    <3> QED BY <2>1, <2>4, <3>1 DEF Moves
  <2> QED BY <2>3, <2>4
<1>8. ExecutedWasAllowed'
  <2> SUFFICES ASSUME NEW q \in executed' PROVE "allow" \in effects'[q] /\ req'[q].action \in Typed
    BY DEF ExecutedWasAllowed
  <2>1. CASE q = r BY <2>1
  <2>2. CASE q # r
    <3>1. q \in executed /\ q \in Requests BY <2>2
    <3> QED BY <1>2, <2>2, <3>1, BystanderExecuted DEF PolicyInv
  <2> QED BY <2>1, <2>2
<1>9. ASSUME NEW q \in Requests PROVE CommitInv(q)' /\ RequestInv(q)'
  <2>1. CASE q = r BY <2>1 DEF Moves, CommitInv
  <2>2. CASE q # r
    <3>1. RequestInv(q)' BY <1>2, <2>2, BystanderKeeps DEF PolicyInv
    <3>2. CommitInv(q) /\ at'[q] = at[q] /\ req'[q] = req[q] BY <2>2 DEF PolicyInv, Moves
    <3>3. /\ live' = live /\ disk' = disk /\ stable' = stable /\ candidate' = candidate
          /\ synced' = synced /\ changed' = changed /\ promised' = promised
      BY DEF files, memory, commit
    <3>4. touched(req[q])' = touched(req[q]) BY <2>2, <3>3 DEF touched
    <3>5. CommitInv(q)' BY <3>2, <3>3, <3>4 DEF CommitInv, touched
    <3> QED BY <3>1, <3>5
  <2> QED BY <2>1, <2>2
<1> QED BY <1>1, <1>3, <1>5, <1>6, <1>7, <1>8, <1>9 DEF PolicyInv

\* A request that runs is served by a daemon that is up.
LEMMA RunningIsUp ==
  ASSUME PolicyInv, NEW r \in Requests, at[r] \notin {"new", "done"}
  PROVE  up /\ req[r] \in Inputs
  BY DEF PolicyInv, LockInv, RequestInv, TypeOK

LEMMA DispatchStep ==
  ASSUME PolicyInv, NEW r \in Requests, NEW i \in Asked, dispatch(r, i)
  PROVE  PolicyInv'
<1>1. i \in Inputs BY AskedAssumption
<1>2. up /\ at[r] = "new" /\ reply[r] = "none" /\ r \notin changed /\ r \notin executed
  BY DEF dispatch, PolicyInv, RequestInv
<1>3. PICK label \in {"decide", "lock", "audit"}, code \in {"none", "permission_denied"} :
        /\ Moves(r, label, code)
        /\ label # "audit" => code = "none"
        /\ label = "decide" => i.kind = "use"
        /\ label = "lock" => i.kind # "use" /\ i.root
  <2>1. CASE Finish(r, "permission_denied") BY <2>1, FinishMoves DEF PolicyInv, Codes
  <2>2. CASE Goto(r, "decide") /\ i.kind = "use" BY <1>2, <2>2, GotoMoves DEF PolicyInv, Labels
  <2>3. CASE Goto(r, "lock") /\ i.kind # "use" /\ i.root BY <1>2, <2>3, GotoMoves DEF PolicyInv, Labels
  <2> QED BY <2>1, <2>2, <2>3 DEF dispatch
<1>4. /\ req' = [req EXCEPT ![r] = i]
      /\ effects' = [effects EXCEPT ![r] = IF i.kind = "use" THEN {Decision(live, i)} ELSE {}]
      /\ UNCHANGED <<files, memory, commit, trail, executed, changed, promised, faults, crashes>>
  BY DEF dispatch
<1>5. req' \in [Requests -> Inputs \cup {NoRequest}] /\ req'[r] = i
      /\ \A q \in Requests : q # r => req'[q] = req[q]
  BY <1>1, <1>4 DEF PolicyInv, TypeOK
<1>6. DOMAIN effects = Requests BY DEF PolicyInv
<1>7. /\ effects' = [q \in Requests |-> effects'[q]]
      /\ effects'[r] = IF i.kind = "use" THEN {Decision(live, i)} ELSE {}
      /\ \A q \in Requests : q # r => effects'[q] = effects[q]
  BY <1>4, <1>6
<1>8. at'[r] = label /\ reply'[r] = code /\ live' = live BY <1>3, <1>4 DEF Moves, memory
<1>9. RequestInv(r)'
  <2>1. label = "decide" => Decision(live', req'[r]) \in effects'[r] BY <1>3, <1>5, <1>7, <1>8
  <2> QED BY <1>1, <1>2, <1>3, <1>4, <1>5, <1>8, <2>1 DEF RequestInv, Decision
<1>10. label \in Labels \ (Committing \cup {"new"}) /\ code \in Codes BY DEF Labels, Committing, Codes
<1>11. /\ recorded' \subseteq Requests /\ executed' = executed /\ executed' \subseteq Requests
       /\ faults' \in 0..MaxFaults /\ audit_failures' \in Nat /\ audit_failures' <= faults'
       /\ UNCHANGED <<files, memory, commit, changed, promised, crashes>>
  BY <1>4 DEF PolicyInv, TypeOK, trail
<1>12. at[r] \notin Committing BY <1>2 DEF Committing
<1> QED BY <1>2, <1>3, <1>5, <1>7, <1>9, <1>10, <1>11, <1>12, QuietStep

\* A request moves on without touching files, memory or the mutex.
LEMMA QuietMove ==
  ASSUME PolicyInv, NEW r \in Requests, NEW label \in Labels \ (Committing \cup {"new"}),
         NEW code \in Codes, Moves(r, label, code), at[r] \notin Committing \cup {"new", "done"},
         UNCHANGED <<files, memory, commit, req, changed, effects, promised, crashes>>,
         recorded' \subseteq Requests, executed' \subseteq Requests,
         \A q \in Requests : q # r => (q \in executed') = (q \in executed),
         faults' \in 0..MaxFaults, audit_failures' \in Nat, audit_failures' <= faults',
         reply[r] # "none" => code = reply[r],
         label \in {"audit", "done"}
           \/ (label = "execute" /\ code = "none" /\ req[r].kind = "use" /\ req[r].action \in Typed
               /\ "allow" \in effects[r]),
         r \in executed' => "allow" \in effects[r] /\ req[r].action \in Typed
  PROVE  PolicyInv'
<1>1. up /\ req[r] \in Inputs BY RunningIsUp
<1>2. at'[r] = label /\ reply'[r] = code /\ req' = req /\ effects' = effects BY DEF Moves
<1>3. RequestInv(r)' BY <1>1, <1>2 DEF RequestInv
<1>4. req' \in [Requests -> Inputs \cup {NoRequest}] /\ effects' = [q \in Requests |-> effects'[q]]
  BY <1>2 DEF PolicyInv, TypeOK
<1> QED BY <1>1, <1>2, <1>3, <1>4, QuietStep

LEMMA DecideStep ==
  ASSUME PolicyInv, NEW r \in Requests, decide(r)
  PROVE  PolicyInv'
<1>1. at[r] = "decide" /\ outcome(r, Decision(live, req[r]))
      /\ UNCHANGED <<files, memory, commit, req, trail, past, faults, crashes>>
  BY DEF decide
<1>2. req[r].kind = "use" /\ reply[r] = "none" /\ Decision(live, req[r]) \in effects[r]
  BY <1>1 DEF PolicyInv, RequestInv
<1>3. PICK label \in {"audit", "done", "execute"},
           code \in {"none", "invalid_request", "unsupported", "permission_denied", "approval_required"} :
        /\ Moves(r, label, code)
        /\ label = "execute" => code = "none" /\ Decision(live, req[r]) = "allow" /\ req[r].action \in Typed
  <2> DEFINE e == Decision(live, req[r])
  <2> HIDE DEF e
  <2>1. outcome(r, e) BY <1>1 DEF e
  <2>2. \/ Answer(r, "invalid_request") \/ Answer(r, "unsupported") \/ Finish(r, "permission_denied")
        \/ Finish(r, "approval_required") \/ (Goto(r, "execute") /\ e = "allow" /\ req[r].action \in Typed)
    <3>1. req[r] \in Inputs /\ req[r].uid \in Uids
      BY <1>1 DEF PolicyInv, RequestInv, Inputs
    <3>2. subject(live[req[r].uid]) \in Subject BY <3>1, SubjectType DEF PolicyInv, TypeOK
    <3>3. e \in Effects \cup {"error"} BY <3>2, EvaluateType DEF e, Decision
    <3> QED BY <2>1, <3>3 DEF outcome, Effects
  <2> QED BY <1>2, <2>2, AnswerMoves, FinishMoves, GotoMoves DEF PolicyInv, Codes, Labels, e
<1>4. label \in Labels \ (Committing \cup {"new"}) /\ code \in Codes /\ at[r] \notin Committing \cup {"new", "done"}
  BY <1>1 DEF Labels, Committing, Codes
<1>5. /\ recorded' \subseteq Requests /\ executed' = executed /\ executed' \subseteq Requests
      /\ faults' \in 0..MaxFaults /\ audit_failures' \in Nat /\ audit_failures' <= faults'
      /\ UNCHANGED <<files, memory, commit, req, changed, effects, promised, crashes>>
  BY <1>1 DEF PolicyInv, TypeOK, trail, past
<1>6. r \in executed' => "allow" \in effects[r] /\ req[r].action \in Typed
  BY <1>5 DEF PolicyInv, ExecutedWasAllowed
<1> QED BY <1>2, <1>3, <1>4, <1>5, <1>6, QuietMove

LEMMA ExecuteStep ==
  ASSUME PolicyInv, NEW r \in Requests, execute(r)
  PROVE  PolicyInv'
<1>1. at[r] = "execute" /\ executed' = executed \cup {r}
      /\ UNCHANGED <<files, memory, commit, req, trail, changed, effects, promised, faults, crashes>>
  BY DEF execute
<1>2. reply[r] = "none" /\ "allow" \in effects[r] /\ req[r].action \in Typed
  BY <1>1 DEF PolicyInv, RequestInv
<1>3. PICK code \in {"ok", "unavailable"} : Moves(r, "audit", code)
  BY FinishMoves DEF execute, PolicyInv, Codes
<1>4. /\ "audit" \in Labels \ (Committing \cup {"new"}) /\ code \in Codes
      /\ at[r] \notin Committing \cup {"new", "done"}
  BY <1>1 DEF Labels, Committing, Codes
<1>5. /\ recorded' \subseteq Requests /\ executed' \subseteq Requests
      /\ faults' \in 0..MaxFaults /\ audit_failures' \in Nat /\ audit_failures' <= faults'
      /\ UNCHANGED <<files, memory, commit, req, changed, effects, promised, crashes>>
  BY <1>1 DEF PolicyInv, TypeOK, trail
<1>6. \A q \in Requests : q # r => (q \in executed') = (q \in executed) BY <1>1
<1> QED BY <1>2, <1>3, <1>4, <1>5, <1>6, QuietMove

\* A request that ends before the commit, with the answer given.
LEMMA QuietFinish ==
  ASSUME PolicyInv, NEW r \in Requests, at[r] = "lock", NEW code \in {"ok", "invalid_request"}, Finish(r, code),
         UNCHANGED <<files, memory, commit, req, trail, past, faults, crashes>>
  PROVE  PolicyInv'
<1>1. Moves(r, "audit", code) /\ reply[r] = "none" BY FinishMoves DEF PolicyInv, Codes, RequestInv
<1>2. /\ "audit" \in Labels \ (Committing \cup {"new"}) /\ code \in Codes
      /\ at[r] \notin Committing \cup {"new", "done"}
  BY DEF Labels, Committing, Codes
<1>3. /\ recorded' \subseteq Requests /\ executed' = executed /\ executed' \subseteq Requests
      /\ faults' \in 0..MaxFaults /\ audit_failures' \in Nat /\ audit_failures' <= faults'
      /\ UNCHANGED <<files, memory, commit, req, changed, effects, promised, crashes>>
  BY DEF PolicyInv, TypeOK, trail, past
<1>4. r \in executed' => "allow" \in effects[r] /\ req[r].action \in Typed
  BY <1>3 DEF PolicyInv, ExecutedWasAllowed
<1> QED BY <1>1, <1>2, <1>3, <1>4, QuietMove

LEMMA ShowStep ==
  ASSUME PolicyInv, NEW r \in Requests, admin_show(r)
  PROVE  PolicyInv'
<1>1. PICK code \in {"ok", "invalid_request"} : Finish(r, code) BY DEF admin_show
<1> QED BY <1>1, QuietFinish DEF admin_show

LEMMA AuditStep ==
  ASSUME PolicyInv, NEW r \in Requests, audit(r)
  PROVE  PolicyInv'
<1>1. at[r] = "audit" /\ UNCHANGED <<files, memory, commit, req, past, crashes>> BY DEF audit
<1>2. Moves(r, "done", reply[r]) /\ reply[r] \in Codes
  BY GotoMoves DEF audit, PolicyInv, Labels, TypeOK
<1>3. PICK failed \in BOOLEAN :
        /\ Fault(failed) /\ recorded' = IF failed THEN recorded ELSE recorded \cup {r}
        /\ audit_failures' = IF failed THEN audit_failures + 1 ELSE audit_failures
  BY DEF audit
<1>4. faults' \in 0..MaxFaults /\ audit_failures' \in Nat /\ audit_failures' <= faults'
  <2>1. faults' \in 0..MaxFaults /\ faults' >= faults /\ (failed => faults' = faults + 1)
    BY <1>3, FaultBound DEF PolicyInv
  <2> QED BY <1>3, <2>1, PolicyBoundsAssumption DEF PolicyInv, TypeOK
<1>5. "done" \in Labels \ (Committing \cup {"new"}) /\ at[r] \notin Committing \cup {"new", "done"}
  BY <1>1 DEF Labels, Committing
<1>6. /\ recorded' \subseteq Requests /\ executed' = executed /\ executed' \subseteq Requests
      /\ UNCHANGED <<files, memory, commit, req, changed, effects, promised, crashes>>
  BY <1>1, <1>3 DEF PolicyInv, TypeOK, past
<1>7. r \in executed' => "allow" \in effects[r] /\ req[r].action \in Typed
  BY <1>6 DEF PolicyInv, ExecutedWasAllowed
<1> QED BY <1>2, <1>4, <1>5, <1>6, <1>7, QuietMove
-----------------------------------------------------------------------------
(***************************************************************************)
(* The steps of a commit.                                                  *)
(***************************************************************************)
\* The holder of the mutex is alone, and what it commits is a valid subject in
\* which every confirmed grant of another scope is kept.
LEMMA Holder ==
  ASSUME PolicyInv, NEW r \in Requests, at[r] \in Committing
  PROVE  /\ up /\ holder = {r} /\ req[r] \in Inputs /\ req[r].uid \in Uids
         /\ \A q \in Requests : q # r => at[q] \notin Committing
         /\ subject(live[req[r].uid]) \in Subject
         /\ validate_grants(subject(live[req[r].uid]).grants)
         /\ validate_subject(candidate) /\ subject(candidate) = candidate
         /\ reply[r] = "none"
<1>1. up /\ req[r] \in Inputs BY RunningIsUp DEF Committing
<1>2. holder = {r} BY DEF PolicyInv, LockInv, TypeOK
<1>3. \A q \in Requests : q # r => at[q] \notin Committing BY <1>2 DEF PolicyInv, LockInv
<1>4. req[r].uid \in Uids BY <1>1 DEF Inputs
<1>5. subject(live[req[r].uid]) \in Subject /\ validate_grants(subject(live[req[r].uid]).grants)
  BY <1>4, SubjectType DEF PolicyInv, TypeOK, FilesInv
<1>6. validate_subject(candidate) BY DEF PolicyInv, CommitInv, apply_admin_mutation
<1>7. subject(candidate) = candidate BY <1>6, AbsentIsNoSubject DEF validate_subject, subject
<1>8. reply[r] = "none" BY DEF PolicyInv, RequestInv, Committing
<1> QED BY <1>1, <1>2, <1>3, <1>4, <1>5, <1>6, <1>7, <1>8

LEMMA KeepsPromise ==
  ASSUME PolicyInv, NEW r \in Requests, at[r] \in Committing,
         NEW p \in promised, p.uid = req[r].uid, p \notin touched(req[r])
  PROVE  Holds(p, candidate)
<1> DEFINE s == subject(live[req[r].uid])
<1>1. /\ s \in Subject /\ validate_grants(s.grants) /\ up /\ req[r] \in Inputs
      /\ subject(candidate) = candidate
  BY Holder
<1>2. candidate = mutated(s, req[r]) /\ req[r].kind \in Mutations BY DEF PolicyInv, CommitInv
<1>3. PICK g \in s.grants : p.key \in grant_keys(g) /\ g.effect = p.effect
  BY <1>1 DEF PolicyInv, PromiseInv, Holds
<1>4. req[r].kind # "bundle" => p.key # <<req[r].action, req[r].resource>> BY DEF touched
<1> HIDE DEF s
<1>5. g \in mutated(s, req[r]).grants BY <1>1, <1>2, <1>3, <1>4, OtherScopesStay
<1> QED BY <1>1, <1>2, <1>3, <1>5 DEF Holds

\* A step of the commit that changes neither the visible files nor the snapshot.
LEMMA ProgressStep ==
  ASSUME PolicyInv, NEW r \in Requests, NEW label \in Labels \ {"new"}, NEW code \in Codes,
         Moves(r, label, code), at[r] \in Committing,
         UNCHANGED <<disk, unsynced, memory, req, trail, past, crashes>>,
         stable' \in {stable, disk}, faults' \in 0..MaxFaults, faults' >= faults,
         synced' \in BOOLEAN, candidate' \in Subject,
         \/ label \in Committing /\ holder' = holder /\ code = reply[r]
         \/ label = "audit" /\ holder' = {} /\ code = "unavailable",
         CommitInv(r)'
  PROVE  PolicyInv'
<1>1. /\ up /\ holder = {r} /\ req[r] \in Inputs /\ reply[r] = "none"
      /\ \A q \in Requests : q # r => at[q] \notin Committing
  BY Holder
<1>2. "audit" \notin Committing BY DEF Committing
<1>3. TypeOK'
  <2>1. holder' \subseteq Requests /\ Cardinality(holder') <= 1
    <3>1. CASE holder' = holder BY <3>1 DEF PolicyInv, TypeOK
    <3>2. CASE holder' = {} BY <3>2, FS_EmptySet
    <3> QED BY <3>1, <3>2
  <2>2. stable' \in [Uids -> Subject \cup {Absent, Torn}] BY DEF PolicyInv, TypeOK
  <2> QED BY <2>1, <2>2 DEF PolicyInv, TypeOK, Moves, Labels, memory, trail, past
<1>4. audit_failures' <= faults' BY PolicyBoundsAssumption DEF PolicyInv, TypeOK, trail
<1>5. FilesInv' BY DEF PolicyInv, FilesInv, memory
<1>6. LockInv'
  <2>1. \A q \in Requests : q \in holder' <=> at'[q] \in Committing
    BY <1>1, <1>2 DEF Moves
  <2>2. \A q, x \in holder' : q = x BY <1>1
  <2> QED BY <1>1, <2>1, <2>2 DEF LockInv, memory
<1>7. PromiseInv' BY DEF PolicyInv, PromiseInv, Holds, memory, past
<1>8. LiveMatchesDisk'
  <2> SUFFICES ASSUME NEW u \in Uids, live[u] # disk[u]
               PROVE  \E q \in changed : req[q].uid = u /\ (q \in holder' \/ reply'[q] = "unavailable")
    BY DEF LiveMatchesDisk, memory, past
  <2>1. PICK q \in changed : req[q].uid = u /\ (q \in holder \/ reply[q] = "unavailable")
    BY <1>1 DEF PolicyInv, LiveMatchesDisk
  <2>2. q \in Requests BY DEF PolicyInv, TypeOK
  <2>3. CASE q # r BY <1>1, <2>1, <2>2, <2>3 DEF Moves
  <2>4. CASE q = r BY <1>1, <2>1, <2>4 DEF Moves
  <2> QED BY <2>3, <2>4
<1>9. ExecutedWasAllowed' BY DEF PolicyInv, ExecutedWasAllowed, past
<1>10. RequestInv(r)'
  <2>1. at'[r] = label /\ reply'[r] = code /\ req' = req BY DEF Moves
  <2> QED BY <1>1, <2>1 DEF RequestInv, Committing
<1>11. ASSUME NEW q \in Requests, q # r PROVE CommitInv(q)' /\ RequestInv(q)'
  <2>1. at'[q] = at[q] /\ at[q] \notin Committing BY <1>1, <1>11 DEF Moves
  <2>2. Bystander(q) BY <1>11 DEF Moves, Bystander, memory, past
  <2>3. RequestInv(q)' BY <2>2, BystanderKeeps DEF PolicyInv
  <2> QED BY <2>1, <2>3 DEF CommitInv
<1>12. effects' = [q \in Requests |-> effects'[q]] BY DEF PolicyInv, past
<1> QED BY <1>3, <1>4, <1>5, <1>6, <1>7, <1>8, <1>9, <1>10, <1>11, <1>12 DEF PolicyInv

\* A step that fails gives the mutex back and answers "unavailable".
LEMMA FailStep ==
  ASSUME PolicyInv, NEW r \in Requests, at[r] \in Committing, commit_fails(r),
         UNCHANGED <<files, memory, req, trail, past, crashes>>
  PROVE  PolicyInv'
<1>1. Moves(r, "audit", "unavailable") BY FinishMoves DEF commit_fails, PolicyInv, Codes
<1>2. faults' \in 0..MaxFaults /\ faults' >= faults BY FaultBound DEF commit_fails, PolicyInv
<1>3. holder' = {} /\ candidate' \in Subject /\ synced' \in BOOLEAN
  BY DEF commit_fails, Release, Empty, Subject
<1>4. CommitInv(r)' BY <1>1 DEF Moves, CommitInv, Committing
<1>5. "audit" \in Labels \ {"new"} /\ "unavailable" \in Codes BY DEF Labels, Codes
<1>6. UNCHANGED <<disk, unsynced>> /\ stable' \in {stable, disk} BY DEF files
<1> QED BY <1>1, <1>2, <1>3, <1>4, <1>5, <1>6, ProgressStep

\* A step that succeeds goes on with the same candidate.
LEMMA ContinueStep ==
  ASSUME PolicyInv, NEW r \in Requests, at[r] \in Committing, NEW label \in Committing,
         continue(r, label), UNCHANGED <<disk, unsynced, memory, req, trail, past, crashes>>,
         stable' \in {stable, disk}, synced' \in BOOLEAN,
         label = "rename" => synced',
         label \in {"dirsync", "reread", "publish"} =>
           /\ disk[req[r].uid] = candidate /\ r \in changed
           /\ touched(req[r]) = {},
         label \in {"reread", "publish"} => stable' = disk
  PROVE  PolicyInv'
<1>1. label \in Labels \ {"new"} BY DEF Committing, Labels
<1>2. Moves(r, label, reply[r]) /\ reply[r] \in Codes
  BY <1>1, GotoMoves DEF continue, PolicyInv, TypeOK
<1>3. faults' \in 0..MaxFaults /\ faults' >= faults BY FaultBound DEF continue, PolicyInv
<1>4. holder' = holder /\ candidate' = candidate /\ candidate' \in Subject
  BY DEF continue, PolicyInv, TypeOK
<1>5. CommitInv(r)'
  <2>1. CommitInv(r) BY DEF PolicyInv
  <2>2. at'[r] = label /\ req' = req /\ live' = live /\ disk' = disk /\ changed' = changed
        /\ promised' = promised
    BY <1>2 DEF Moves, memory, past
  <2>3. touched(req[r])' = touched(req[r]) BY <2>2 DEF touched
  <2> QED BY <1>4, <2>1, <2>2, <2>3 DEF CommitInv
<1> QED BY <1>1, <1>2, <1>3, <1>4, <1>5, ProgressStep

LEMMA WriteStep ==
  ASSUME PolicyInv, NEW r \in Requests, write_temp(r)
  PROVE  PolicyInv'
<1>1. at[r] \in Committing /\ "fsync" \in Committing BY DEF write_temp, Committing
<1>2. UNCHANGED <<files, memory, req, trail, past, crashes>> BY DEF write_temp
<1>3. CASE commit_fails(r) BY <1>1, <1>2, <1>3, FailStep
<1>4. CASE continue(r, "fsync") /\ UNCHANGED synced
  <2>1. synced' \in BOOLEAN /\ stable' \in {stable, disk} /\ UNCHANGED <<disk, unsynced>>
    BY <1>2, <1>4 DEF PolicyInv, TypeOK, files
  <2> QED BY <1>1, <1>2, <1>4, <2>1, ContinueStep
<1> QED BY <1>3, <1>4 DEF write_temp

LEMMA FsyncStep ==
  ASSUME PolicyInv, NEW r \in Requests, fsync_temp(r)
  PROVE  PolicyInv'
<1>1. at[r] \in Committing /\ "rename" \in Committing BY DEF fsync_temp, Committing
<1>2. UNCHANGED <<files, memory, req, trail, past, crashes>> BY DEF fsync_temp
<1>3. CASE commit_fails(r) BY <1>1, <1>2, <1>3, FailStep
<1>4. CASE continue(r, "rename") /\ synced' = TRUE
  <2>1. stable' \in {stable, disk} /\ UNCHANGED <<disk, unsynced>> BY <1>2 DEF files
  <2> QED BY <1>1, <1>2, <1>4, <2>1, ContinueStep
<1> QED BY <1>3, <1>4 DEF fsync_temp

LEMMA DirsyncStep ==
  ASSUME PolicyInv, NEW r \in Requests, dirsync(r)
  PROVE  PolicyInv'
<1>1. at[r] = "dirsync" /\ at[r] \in Committing /\ "reread" \in Committing BY DEF dirsync, Committing
<1>2. UNCHANGED <<disk, unsynced, memory, req, trail, past, crashes>> BY DEF dirsync
<1>3. CASE commit_fails(r) /\ UNCHANGED stable BY <1>1, <1>2, <1>3, FailStep DEF files
<1>4. CASE stable' = disk /\ continue(r, "reread") /\ UNCHANGED synced
  <2>1. synced' \in BOOLEAN BY <1>4 DEF PolicyInv, TypeOK
  <2>2. disk[req[r].uid] = candidate /\ r \in changed /\ touched(req[r]) = {}
    BY <1>1 DEF PolicyInv, CommitInv
  <2> QED BY <1>1, <1>2, <1>4, <2>1, <2>2, ContinueStep
<1> QED BY <1>3, <1>4 DEF dirsync

LEMMA RereadStep ==
  ASSUME PolicyInv, NEW r \in Requests, reread(r)
  PROVE  PolicyInv'
<1>1. at[r] = "reread" /\ at[r] \in Committing /\ "publish" \in Committing BY DEF reread, Committing
<1>2. UNCHANGED <<files, memory, req, trail, past, crashes>> BY DEF reread
<1>3. CASE commit_fails(r) BY <1>1, <1>2, <1>3, FailStep
<1>4. CASE continue(r, "publish") /\ UNCHANGED synced
  <2>1. synced' \in BOOLEAN /\ UNCHANGED <<disk, unsynced>> /\ stable' = stable
    BY <1>2, <1>4 DEF PolicyInv, TypeOK, files
  <2>2. disk[req[r].uid] = candidate /\ r \in changed /\ touched(req[r]) = {} /\ stable = disk
    BY <1>1 DEF PolicyInv, CommitInv
  <2> QED BY <1>1, <1>2, <1>4, <2>1, <2>2, ContinueStep
<1> QED BY <1>3, <1>4 DEF reread

\* The rename: the visible file is the candidate, whole.
LEMMA RenameStep ==
  ASSUME PolicyInv, NEW r \in Requests, rename_temp(r)
  PROVE  PolicyInv'
<1> DEFINE u == req[r].uid
<1>1. at[r] = "rename" /\ at[r] \in Committing BY DEF rename_temp, Committing
<1>2. UNCHANGED <<memory, req, trail, executed, effects, crashes>> BY DEF rename_temp
<1>3. CASE commit_fails(r) /\ UNCHANGED <<files, changed, promised>>
  BY <1>1, <1>2, <1>3, FailStep DEF past
<1>4. CASE /\ disk' = [disk EXCEPT ![u] = candidate]
           /\ unsynced' = IF synced THEN unsynced \ {u} ELSE unsynced \cup {u}
           /\ changed' = changed \cup {r} /\ promised' = promised \ touched(req[r])
           /\ continue(r, "dirsync") /\ UNCHANGED <<stable, synced>>
  <2>1. /\ up /\ holder = {r} /\ req[r] \in Inputs /\ u \in Uids /\ reply[r] = "none"
        /\ \A q \in Requests : q # r => at[q] \notin Committing
        /\ validate_subject(candidate) /\ subject(candidate) = candidate
    BY <1>1, Holder
  <2>2. CommitInv(r) /\ synced BY <1>1 DEF PolicyInv, CommitInv
  <2>3. Moves(r, "dirsync", reply[r]) BY <1>4, GotoMoves DEF continue, PolicyInv, Labels
  <2>4. /\ faults' \in 0..MaxFaults /\ faults' >= faults
    BY <1>4, FaultBound DEF continue, PolicyInv
  <2>5. holder' = holder /\ candidate' = candidate BY <1>4 DEF continue
  <2>6. candidate \in Subject BY DEF PolicyInv, TypeOK
  <2>7. disk' \in [Uids -> Subject \cup {Absent, Torn}] /\ disk'[u] = candidate
        /\ \A v \in Uids : v # u => disk'[v] = disk[v]
    BY <1>4, <2>1, <2>6 DEF PolicyInv, TypeOK
  <2>8. TypeOK'
    BY <1>2, <1>4, <2>2, <2>3, <2>4, <2>5, <2>7 DEF PolicyInv, TypeOK, Moves, Labels, memory, trail
  <2>9. audit_failures' <= faults' BY <1>2, <2>4, PolicyBoundsAssumption DEF PolicyInv, TypeOK, trail
  <2>10. FilesInv'
    <3>1. unsynced' = {} BY <1>4, <2>2 DEF PolicyInv, FilesInv
    <3>2. \A v \in Uids : Loadable(disk'[v]) BY <2>1, <2>7 DEF PolicyInv, FilesInv, Loadable
    <3>3. stable' = stable /\ live' = live BY <1>2, <1>4 DEF memory
    <3> QED BY <3>1, <3>2, <3>3 DEF PolicyInv, FilesInv, Loadable
  <2>11. LockInv'
    <3>1. \A q \in Requests : q \in holder' <=> at'[q] \in Committing
      BY <2>1, <2>3, <2>5 DEF Moves, Committing
    <3> QED BY <1>2, <2>1, <2>5, <3>1 DEF LockInv, memory
  <2>12. PromiseInv'
    <3> SUFFICES ASSUME NEW p \in promised, p \notin touched(req[r])
                 PROVE  p.uid \in Uids /\ Holds(p, disk'[p.uid]) /\ Holds(p, stable[p.uid])
                        /\ Holds(p, live[p.uid])
      BY <1>2, <1>4 DEF PromiseInv, Holds, memory
    <3>1. p.uid \in Uids /\ Holds(p, disk[p.uid]) /\ Holds(p, stable[p.uid]) /\ Holds(p, live[p.uid])
      BY <2>1 DEF PolicyInv, PromiseInv
    <3>2. p.uid = u => Holds(p, candidate) BY <1>1, KeepsPromise
    <3> QED BY <2>7, <3>1, <3>2
  <2>13. LiveMatchesDisk'
    <3> SUFFICES ASSUME NEW v \in Uids, live[v] # disk'[v]
                 PROVE  \E q \in changed' : req[q].uid = v /\ (q \in holder \/ reply'[q] = "unavailable")
      BY <1>2, <2>5 DEF LiveMatchesDisk, memory
    <3>1. CASE v = u BY <1>4, <2>1, <3>1
    <3>2. CASE v # u
      <4>1. PICK q \in changed : req[q].uid = v /\ (q \in holder \/ reply[q] = "unavailable")
        BY <2>1, <2>7, <3>2 DEF PolicyInv, LiveMatchesDisk
      <4>2. q \in Requests /\ q # r BY <3>2, <4>1 DEF PolicyInv, TypeOK
      <4> QED BY <1>4, <2>3, <4>1, <4>2 DEF Moves
    <3> QED BY <3>1, <3>2
  <2>14. ExecutedWasAllowed' BY <1>2 DEF PolicyInv, ExecutedWasAllowed
  <2>15. RequestInv(r)'
    <3>1. at'[r] = "dirsync" /\ reply'[r] = "none" /\ req' = req BY <1>2, <2>1, <2>3 DEF Moves
    <3> QED BY <2>1, <3>1 DEF RequestInv
  <2>16. CommitInv(r)'
    <3>1. at'[r] = "dirsync" /\ req' = req /\ live' = live /\ candidate' = candidate
      BY <1>2, <2>3, <2>5 DEF Moves, memory
    <3>2. touched(req[r])' = {} BY <1>2, <1>4 DEF touched
    <3>3. r \in changed' /\ disk'[req[r].uid] = candidate BY <1>4, <2>7
    <3> QED BY <1>1, <2>2, <3>1, <3>2, <3>3 DEF CommitInv
  <2>17. ASSUME NEW q \in Requests, q # r PROVE CommitInv(q)' /\ RequestInv(q)'
    <3>1. at'[q] = at[q] /\ at[q] \notin Committing BY <2>1, <2>3, <2>17 DEF Moves
    <3>2. Bystander(q) BY <1>2, <1>4, <2>3, <2>17 DEF Moves, Bystander, memory
    <3>3. RequestInv(q)' BY <3>2, BystanderKeeps DEF PolicyInv
    <3> QED BY <3>1, <3>3 DEF CommitInv
  <2>18. effects' = [q \in Requests |-> effects'[q]] BY <1>2 DEF PolicyInv
  <2> QED BY <2>8, <2>9, <2>10, <2>11, <2>12, <2>13, <2>14, <2>15, <2>16, <2>17, <2>18 DEF PolicyInv
<1> QED BY <1>3, <1>4 DEF rename_temp

\* The snapshot follows: the candidate is live, and a grant is confirmed.
LEMMA PublishStep ==
  ASSUME PolicyInv, NEW r \in Requests, replace_subject(r)
  PROVE  PolicyInv'
<1> DEFINE u == req[r].uid
           s == subject(live[u])
<1>1. at[r] = "publish" /\ at[r] \in Committing BY DEF replace_subject, Committing
<1>2. /\ live' = [live EXCEPT ![u] = candidate] /\ Release
      /\ UNCHANGED <<files, up, req, trail, executed, changed, faults, crashes>>
      /\ effects' = [q \in Requests |->
           IF Running(q) /\ req[q].kind = "use" THEN effects[q] \cup {Decision(live', req[q])}
                                                ELSE effects[q]]
  BY DEF replace_subject, published
<1>3. /\ up /\ holder = {r} /\ req[r] \in Inputs /\ u \in Uids
      /\ \A q \in Requests : q # r => at[q] \notin Committing
      /\ validate_subject(candidate) /\ subject(candidate) = candidate /\ s \in Subject
  BY <1>1, Holder
<1>4. /\ disk[u] = candidate /\ stable = disk /\ touched(req[r]) = {}
      /\ candidate = mutated(s, req[r]) /\ apply_admin_mutation(s, req[r])
  BY <1>1 DEF PolicyInv, CommitInv
<1>5. PICK code \in {"ok", "invalid_request"} : Moves(r, "audit", code)
  BY FinishMoves DEF replace_subject, PolicyInv, Codes
<1>6. live' \in [Uids -> Subject \cup {Absent}] /\ live'[u] = candidate
      /\ \A v \in Uids : v # u => live'[v] = live[v]
  BY <1>2, <1>3 DEF PolicyInv, TypeOK
<1>7. holder' = {} /\ candidate' \in Subject /\ synced' = FALSE
  BY <1>2 DEF Release, Empty, Subject
<1>8. TypeOK' /\ audit_failures' <= faults'
  <2>1. holder' \subseteq Requests /\ Cardinality(holder') <= 1 BY <1>7, FS_EmptySet
  <2> QED BY <1>2, <1>5, <1>6, <1>7, <2>1 DEF PolicyInv, TypeOK, Moves, Labels, files, trail
<1>9. FilesInv'
  <2>1. \A v \in Uids : Loadable(live'[v]) BY <1>3, <1>6 DEF PolicyInv, FilesInv, Loadable
  <2> QED BY <1>2, <2>1 DEF PolicyInv, FilesInv, files, Loadable
<1>10. LockInv'
  <2>1. \A q \in Requests : at'[q] \notin Committing BY <1>3, <1>5 DEF Moves, Committing
  <2> QED BY <1>2, <1>3, <1>7, <2>1 DEF LockInv
<1>11. PromiseInv'
  <2> SUFFICES ASSUME NEW p \in promised'
               PROVE  p.uid \in Uids /\ Holds(p, disk[p.uid]) /\ Holds(p, live'[p.uid])
    BY <1>2, <1>4 DEF PromiseInv, Holds, files
  <2>1. CASE p \in promised
    <3>1. p.uid \in Uids /\ Holds(p, disk[p.uid]) /\ Holds(p, live[p.uid])
      BY <1>3, <2>1 DEF PolicyInv, PromiseInv
    <3> QED BY <1>4, <1>6, <3>1
  <2>2. CASE p \notin promised
    <3>1. req[r].kind = "grant" /\ p = promise(req[r]) BY <2>2 DEF replace_subject
    <3>2. p.uid = u /\ p.key = <<req[r].action, req[r].resource>> /\ p.effect = req[r].effect
      BY <3>1 DEF promise
    <3> HIDE DEF s
    <3>3. \E g \in candidate.grants : <<req[r].action, req[r].resource>> \in grant_keys(g)
                                      /\ g.effect = req[r].effect
      BY <1>3, <1>4, <3>1, AddedGrantHolds
    <3>4. Holds(p, candidate) BY <1>3, <3>2, <3>3 DEF Holds
    <3> QED BY <1>3, <1>4, <1>6, <3>2, <3>4
  <2> QED BY <2>1, <2>2
<1>12. LiveMatchesDisk'
  <2> SUFFICES ASSUME NEW v \in Uids, live'[v] # disk[v]
               PROVE  \E q \in changed : req[q].uid = v /\ reply'[q] = "unavailable"
    BY <1>2, <1>7 DEF LiveMatchesDisk, files
  <2>1. v # u /\ live[v] # disk[v] BY <1>4, <1>6
  <2>2. PICK q \in changed : req[q].uid = v /\ (q \in holder \/ reply[q] = "unavailable")
    BY <1>3, <2>1 DEF PolicyInv, LiveMatchesDisk
  <2>3. q \in Requests /\ q # r BY <2>1, <2>2 DEF PolicyInv, TypeOK
  <2> QED BY <1>3, <1>5, <2>2, <2>3 DEF Moves
<1>13. \A q \in Requests : effects[q] \subseteq effects'[q] BY <1>2
<1>14. ExecutedWasAllowed'
  <2>1. \A q \in executed : q \in Requests BY DEF PolicyInv, TypeOK
  <2> QED BY <1>2, <1>13, <2>1 DEF PolicyInv, ExecutedWasAllowed
<1>15. RequestInv(r)' /\ CommitInv(r)'
  <2>1. at'[r] = "audit" /\ req' = req BY <1>2, <1>5 DEF Moves
  <2> QED BY <1>3, <2>1 DEF RequestInv, CommitInv, Committing
<1>16. ASSUME NEW q \in Requests, q # r PROVE CommitInv(q)' /\ RequestInv(q)'
  <2>1. at'[q] = at[q] /\ at[q] \notin Committing BY <1>3, <1>5, <1>16 DEF Moves
  <2>2. at[q] = "decide" => Decision(live', req[q]) \in effects'[q]
    BY <1>2 DEF PolicyInv, RequestInv, Running
  <2>3. Bystander(q) BY <1>2, <1>5, <1>13, <1>16, <2>2 DEF Moves, Bystander
  <2>4. RequestInv(q)' BY <2>3, BystanderKeeps DEF PolicyInv
  <2> QED BY <2>1, <2>4 DEF CommitInv
<1>17. effects' = [q \in Requests |-> effects'[q]] BY <1>2
<1> QED BY <1>8, <1>9, <1>10, <1>11, <1>12, <1>14, <1>15, <1>16, <1>17 DEF PolicyInv

\* The mutex is taken and the candidate made from the snapshot.
LEMMA MutateStep ==
  ASSUME PolicyInv, NEW r \in Requests, mutate_subject(r)
  PROVE  PolicyInv'
<1> DEFINE u == req[r].uid
           s == subject(live[u])
<1>1. /\ at[r] = "lock" /\ holder = {} /\ req[r].kind \in Mutations
      /\ UNCHANGED <<files, memory, req, trail, past, faults, crashes>>
  BY DEF mutate_subject
<1>2. CASE UNCHANGED commit /\ Finish(r, "invalid_request") BY <1>1, <1>2, QuietFinish
<1>3. CASE /\ apply_admin_mutation(s, req[r])
           /\ holder' = {r} /\ candidate' = mutated(s, req[r]) /\ synced' = FALSE /\ Goto(r, "write")
  <2>1. up /\ req[r] \in Inputs BY <1>1, RunningIsUp
  <2>2. reply[r] = "none" /\ req[r].root BY <1>1 DEF PolicyInv, RequestInv
  <2>3. Moves(r, "write", "none") BY <1>3, <2>2, GotoMoves DEF PolicyInv, Labels
  <2>4. candidate' \in Subject BY <1>3 DEF apply_admin_mutation, validate_subject
  <2>5. TypeOK' /\ audit_failures' <= faults'
    <3>1. holder' \subseteq Requests /\ Cardinality(holder') <= 1 BY <1>3, FS_Singleton
    <3> QED BY <1>1, <1>3, <2>3, <2>4, <3>1 DEF PolicyInv, TypeOK, Moves, Labels, files, memory, trail, past
  <2>6. FilesInv' BY <1>1 DEF PolicyInv, FilesInv, files, memory
  <2>7. \A q \in Requests : at[q] \notin Committing BY <1>1 DEF PolicyInv, LockInv
  <2>8. LockInv'
    <3>1. \A q \in Requests : q \in holder' <=> at'[q] \in Committing
      BY <1>3, <2>3, <2>7 DEF Moves, Committing
    <3> QED BY <1>1, <1>3, <2>1, <3>1 DEF LockInv, memory
  <2>9. PromiseInv' BY <1>1 DEF PolicyInv, PromiseInv, Holds, files, memory, past
  <2>10. LiveMatchesDisk'
    <3> SUFFICES ASSUME NEW v \in Uids, live[v] # disk[v]
                 PROVE  \E q \in changed : req[q].uid = v /\ (q \in holder' \/ reply'[q] = "unavailable")
      BY <1>1 DEF LiveMatchesDisk, files, memory, past
    <3>1. PICK q \in changed : req[q].uid = v /\ reply[q] = "unavailable"
      BY <1>1, <2>1 DEF PolicyInv, LiveMatchesDisk
    <3>2. q \in Requests /\ q # r BY <2>2, <3>1 DEF PolicyInv, TypeOK
    <3> QED BY <2>3, <3>1, <3>2 DEF Moves
  <2>11. ExecutedWasAllowed' BY <1>1 DEF PolicyInv, ExecutedWasAllowed, past
  <2>12. RequestInv(r)'
    <3>1. at'[r] = "write" /\ reply'[r] = "none" /\ req' = req BY <1>1, <2>3 DEF Moves
    <3> QED BY <2>1, <3>1 DEF RequestInv
  <2>13. CommitInv(r)'
    <3>1. at'[r] = "write" /\ req' = req /\ live' = live BY <1>1, <2>3 DEF Moves, memory
    <3> QED BY <1>1, <1>3, <2>2, <3>1 DEF CommitInv
  <2>14. ASSUME NEW q \in Requests, q # r PROVE CommitInv(q)' /\ RequestInv(q)'
    <3>1. at'[q] = at[q] /\ at[q] \notin Committing BY <2>3, <2>7, <2>14 DEF Moves
    <3>2. Bystander(q) BY <1>1, <2>3, <2>14 DEF Moves, Bystander, memory, past
    <3>3. RequestInv(q)' BY <3>2, BystanderKeeps DEF PolicyInv
    <3> QED BY <3>1, <3>3 DEF CommitInv
  <2>15. effects' = [q \in Requests |-> effects'[q]] BY <1>1 DEF PolicyInv, past
  <2> QED BY <2>5, <2>6, <2>8, <2>9, <2>10, <2>11, <2>12, <2>13, <2>14, <2>15 DEF PolicyInv
<1> QED BY <1>2, <1>3 DEF mutate_subject
-----------------------------------------------------------------------------
(***************************************************************************)
(* Crash, power loss and restart.                                          *)
(***************************************************************************)
LEMMA CrashStep ==
  ASSUME PolicyInv, NEW power \in BOOLEAN, crash(power)
  PROVE  PolicyInv'
<1>1. /\ up' = FALSE /\ audit_failures' = 0 /\ Release
      /\ at' = [r \in Requests |-> IF at[r] = "new" THEN "new" ELSE "done"]
      /\ UNCHANGED <<live, req, reply, recorded, past, faults>>
  BY DEF crash
<1>2. \A u \in Uids : disk'[u] \in {disk[u], stable[u]} /\ stable'[u] \in {disk[u], stable[u]}
  <2>1. CASE power
    <3>1. /\ disk' \in [Uids -> UNION {survivors(u) : u \in Uids}]
          /\ \A u \in Uids : disk'[u] \in survivors(u)
          /\ stable' = disk'
      BY <2>1 DEF crash
    <3>2. unsynced = {} BY DEF PolicyInv, FilesInv
    <3> QED BY <3>1, <3>2 DEF survivors
  <2>2. CASE ~power BY <2>2 DEF crash, files
  <2> QED BY <2>1, <2>2
<1>3. DOMAIN disk' = Uids /\ DOMAIN stable' = Uids /\ unsynced' = {}
      /\ disk' = [u \in Uids |-> disk'[u]] /\ stable' = [u \in Uids |-> stable'[u]]
  <2>1. CASE power
    <3>1. disk' \in [Uids -> UNION {survivors(u) : u \in Uids}] /\ stable' = disk' /\ unsynced' = {}
      BY <2>1 DEF crash
    <3> QED BY <3>1
  <2>2. CASE ~power BY <2>2 DEF crash, files, PolicyInv, FilesInv, TypeOK
  <2> QED BY <2>1, <2>2
<1>4. disk' \in [Uids -> Subject \cup {Absent, Torn}] /\ stable' \in [Uids -> Subject \cup {Absent, Torn}]
  <2>1. \A u \in Uids : disk[u] \in Subject \cup {Absent, Torn} /\ stable[u] \in Subject \cup {Absent, Torn}
    BY DEF PolicyInv, TypeOK
  <2>2. \A u \in Uids : disk'[u] \in Subject \cup {Absent, Torn} /\ stable'[u] \in Subject \cup {Absent, Torn}
    BY <1>2, <2>1
  <2> QED BY <1>3, <2>2
<1>5. at' \in [Requests -> Labels] /\ \A r \in Requests : at'[r] \in {"new", "done"}
  BY <1>1 DEF Labels
<1>6. holder' = {} /\ candidate' \in Subject /\ synced' = FALSE
  BY <1>1 DEF Release, Empty, Subject
<1>7. TypeOK' /\ audit_failures' <= faults'
  <2>1. holder' \subseteq Requests /\ Cardinality(holder') <= 1 BY <1>6, FS_EmptySet
  <2>2. unsynced' \subseteq Uids /\ up' \in BOOLEAN /\ synced' \in BOOLEAN BY <1>1, <1>3, <1>6
  <2>3. /\ live' \in [Uids -> Subject \cup {Absent}] /\ req' \in [Requests -> Inputs \cup {NoRequest}]
        /\ reply' \in [Requests -> Codes]
        /\ executed' \subseteq Requests /\ recorded' \subseteq Requests /\ changed' \subseteq Requests
    BY <1>1 DEF PolicyInv, TypeOK, past
  <2>4. audit_failures' \in 0..MaxFaults /\ faults' \in 0..MaxFaults /\ audit_failures' <= faults'
    BY <1>1, PolicyBoundsAssumption DEF PolicyInv, TypeOK
  <2> QED BY <1>4, <1>5, <1>6, <2>1, <2>2, <2>3, <2>4 DEF TypeOK, Labels
<1>8. FilesInv' BY <1>1, <1>2, <1>3 DEF PolicyInv, FilesInv, Loadable
<1>9. LockInv' BY <1>5, <1>6 DEF LockInv, Committing
<1>10. PromiseInv'
  <2> SUFFICES ASSUME NEW p \in promised
               PROVE  p.uid \in Uids /\ Holds(p, disk'[p.uid]) /\ Holds(p, stable'[p.uid])
    BY <1>1 DEF PromiseInv, Holds, past
  <2>1. p.uid \in Uids /\ Holds(p, disk[p.uid]) /\ Holds(p, stable[p.uid]) BY DEF PolicyInv, PromiseInv
  <2> QED BY <1>2, <2>1
<1>11. LiveMatchesDisk' BY <1>1 DEF LiveMatchesDisk
<1>12. ExecutedWasAllowed' BY <1>1 DEF PolicyInv, ExecutedWasAllowed, past
<1>13. ASSUME NEW r \in Requests PROVE CommitInv(r)' /\ RequestInv(r)'
  <2>1. RequestInv(r) BY DEF PolicyInv
  <2>2. /\ at[r] = "new" => at'[r] = "new"
        /\ at[r] # "new" => at'[r] = "done"
    BY <1>1
  <2>3. req' = req /\ reply' = reply /\ changed' = changed /\ executed' = executed BY <1>1 DEF past
  <2>4. CommitInv(r)' BY <2>2 DEF CommitInv, Committing
  <2>5. RequestInv(r)' BY <2>1, <2>2, <2>3 DEF RequestInv
  <2> QED BY <2>4, <2>5
<1>14. effects' = [q \in Requests |-> effects'[q]] BY <1>1 DEF PolicyInv, past
<1> QED BY <1>7, <1>8, <1>9, <1>10, <1>11, <1>12, <1>13, <1>14 DEF PolicyInv

LEMMA BindStep ==
  ASSUME PolicyInv, bind
  PROVE  PolicyInv'
<1>1. /\ ~up /\ from_documents(disk) /\ up' = TRUE /\ live' = disk
      /\ UNCHANGED <<files, commit, req, at, reply, trail, past, faults, crashes>>
  BY DEF bind
<1>2. live' \in [Uids -> Subject \cup {Absent}]
  BY <1>1 DEF PolicyInv, TypeOK, from_documents, validate_subject
<1>3. TypeOK' /\ audit_failures' <= faults'
  BY <1>1, <1>2 DEF PolicyInv, TypeOK, files, commit, trail, past
<1>4. FilesInv' BY <1>1 DEF PolicyInv, FilesInv, Loadable, files
<1>5. \A r \in Requests : at[r] \in {"new", "done"} BY <1>1 DEF PolicyInv, LockInv
<1>6. LockInv' BY <1>1 DEF PolicyInv, LockInv, commit
<1>7. PromiseInv' BY <1>1 DEF PolicyInv, PromiseInv, Holds, files, past
<1>8. LiveMatchesDisk' BY <1>1 DEF LiveMatchesDisk, files
<1>9. ExecutedWasAllowed' BY <1>1 DEF PolicyInv, ExecutedWasAllowed, past
<1>10. ASSUME NEW r \in Requests PROVE CommitInv(r)' /\ RequestInv(r)'
  <2>1. RequestInv(r) /\ at'[r] = at[r] /\ at[r] \in {"new", "done"} BY <1>1, <1>5 DEF PolicyInv
  <2>2. req' = req /\ reply' = reply /\ changed' = changed /\ executed' = executed BY <1>1 DEF past
  <2>3. CommitInv(r)' BY <2>1 DEF CommitInv, Committing
  <2>4. RequestInv(r)' BY <2>1, <2>2 DEF RequestInv
  <2> QED BY <2>3, <2>4
<1>11. effects' = [q \in Requests |-> effects'[q]] BY <1>1 DEF PolicyInv, past
<1> QED BY <1>3, <1>4, <1>6, <1>7, <1>8, <1>9, <1>10, <1>11 DEF PolicyInv
-----------------------------------------------------------------------------
(***************************************************************************)
(* The invariant holds.                                                    *)
(***************************************************************************)
LEMMA InitPolicy == Init => PolicyInv
<1> SUFFICES ASSUME Init PROVE PolicyInv OBVIOUS
<1>1. disk \in [Uids -> Subject \cup {Absent}] /\ from_documents(disk)
  BY PoliciesAssumption DEF Init
<1>2. TypeOK /\ audit_failures <= faults
  <2>1. Cardinality({}) <= 1 BY FS_EmptySet
  <2>2. Empty \in Subject BY DEF Empty, Subject
  <2>3. holder \subseteq Requests /\ Cardinality(holder) <= 1 BY <2>1 DEF Init
  <2>4. /\ disk \in [Uids -> Subject \cup {Absent, Torn}] /\ stable \in [Uids -> Subject \cup {Absent, Torn}]
        /\ live \in [Uids -> Subject \cup {Absent}]
    BY <1>1 DEF Init
  <2>5. unsynced \subseteq Uids /\ up \in BOOLEAN /\ synced \in BOOLEAN BY DEF Init
  <2>6. /\ req \in [Requests -> Inputs \cup {NoRequest}] /\ at \in [Requests -> Labels]
        /\ reply \in [Requests -> Codes]
    BY DEF Init, Labels, Codes
  <2>7. /\ executed \subseteq Requests /\ recorded \subseteq Requests /\ changed \subseteq Requests
        /\ audit_failures \in 0..MaxFaults /\ faults \in 0..MaxFaults /\ audit_failures <= faults
    BY PolicyBoundsAssumption DEF Init
  <2>8. candidate \in Subject BY <2>2 DEF Init
  <2> QED BY <2>3, <2>4, <2>5, <2>6, <2>7, <2>8 DEF TypeOK, Labels
<1>3. FilesInv BY <1>1 DEF Init, FilesInv, Loadable, from_documents
<1>4. LockInv BY DEF Init, LockInv, Committing
<1>5. PromiseInv /\ LiveMatchesDisk /\ ExecutedWasAllowed
  BY DEF Init, PromiseInv, LiveMatchesDisk, ExecutedWasAllowed
<1>6. ASSUME NEW r \in Requests PROVE CommitInv(r) /\ RequestInv(r)
  <2>1. at[r] = "new" /\ reply[r] = "none" /\ changed = {} /\ executed = {} BY DEF Init
  <2> QED BY <2>1 DEF CommitInv, RequestInv, Committing
<1>7. effects = [r \in Requests |-> effects[r]] BY DEF Init
<1> QED BY <1>2, <1>3, <1>4, <1>5, <1>6, <1>7 DEF PolicyInv

LEMMA NextPolicy == PolicyInv /\ [Next]_vars => PolicyInv'
<1> SUFFICES ASSUME PolicyInv, [Next]_vars PROVE PolicyInv' OBVIOUS
<1>1. CASE UNCHANGED vars
  <2>1. TypeOK' /\ audit_failures' <= faults' /\ effects' = [r \in Requests |-> effects'[r]]
    BY <1>1 DEF PolicyInv, TypeOK, vars, files, memory, commit, trail, past
  <2>2. FilesInv' /\ LockInv'
    BY <1>1 DEF PolicyInv, FilesInv, LockInv, vars, files, memory, commit
  <2>3. PromiseInv' BY <1>1 DEF PolicyInv, PromiseInv, Holds, vars, files, memory, past
  <2>4. LiveMatchesDisk' /\ ExecutedWasAllowed'
    BY <1>1 DEF PolicyInv, LiveMatchesDisk, ExecutedWasAllowed, vars, files, memory, commit, past
  <2>5. ASSUME NEW r \in Requests PROVE CommitInv(r)' /\ RequestInv(r)'
    BY <1>1 DEF PolicyInv, CommitInv, RequestInv, touched, vars, files, memory, commit, past, Decision
  <2> QED BY <2>1, <2>2, <2>3, <2>4, <2>5 DEF PolicyInv
<1>2. CASE Next
  <2>1. CASE \E r \in Requests, i \in Asked : dispatch(r, i) BY <2>1, DispatchStep
  <2>2. ASSUME NEW r \in Requests, RequestStep(r) PROVE PolicyInv'
    BY <2>2, DecideStep, ExecuteStep, ShowStep, MutateStep, WriteStep, FsyncStep, RenameStep,
       DirsyncStep, RereadStep, PublishStep, AuditStep DEF RequestStep
  <2>3. CASE \E power \in BOOLEAN : crash(power) BY <2>3, CrashStep
  <2>4. CASE bind BY <2>4, BindStep
  <2> QED BY <1>2, <2>1, <2>2, <2>3, <2>4 DEF Next
<1> QED BY <1>1, <1>2

\* What may happen to a visible file while the daemon stays up: a rename.
LEMMA DiskStep ==
  ASSUME PolicyInv, [Next]_vars, up', NEW u \in Uids, disk'[u] # disk[u]
  PROVE  \E r \in Requests : /\ at[r] = "rename" /\ req[r].uid = u /\ disk'[u] = candidate
<1>1. Next BY DEF vars, files
<1>2. CASE \E r \in Requests, i \in Asked : dispatch(r, i) BY <1>2 DEF dispatch, files
<1>3. ASSUME NEW r \in Requests, RequestStep(r) PROVE rename_temp(r) /\ disk' # disk
  <2>1. CASE decide(r) \/ execute(r) \/ admin_show(r) \/ mutate_subject(r) \/ audit(r)
    BY <2>1 DEF decide, execute, admin_show, mutate_subject, audit, files
  <2>2. CASE write_temp(r) \/ fsync_temp(r) \/ dirsync(r) \/ reread(r) \/ replace_subject(r)
    BY <2>2 DEF write_temp, fsync_temp, dirsync, reread, replace_subject, files
  <2> QED BY <1>3, <2>1, <2>2 DEF RequestStep
<1>4. ASSUME NEW r \in Requests, rename_temp(r), disk' # disk
      PROVE  at[r] = "rename" /\ req[r].uid = u /\ disk'[u] = candidate
  <2>1. at[r] = "rename" /\ disk' = [disk EXCEPT ![req[r].uid] = candidate] BY <1>4 DEF rename_temp, files
  <2>2. DOMAIN disk = Uids BY DEF PolicyInv, TypeOK
  <2> QED BY <2>1, <2>2
<1>5. CASE \E power \in BOOLEAN : crash(power) BY <1>5 DEF crash
<1>6. CASE bind BY <1>6 DEF bind, files
<1> QED BY <1>1, <1>2, <1>3, <1>4, <1>5, <1>6 DEF Next

\* What may happen to the snapshot of a running daemon: replace_subject.
LEMMA LiveStep ==
  ASSUME PolicyInv, [Next]_vars, up, up', NEW u \in Uids, live'[u] # live[u]
  PROVE  live'[u] = stable[u]
<1>1. Next BY DEF vars, memory
<1>2. CASE \E r \in Requests, i \in Asked : dispatch(r, i) BY <1>2 DEF dispatch, memory
<1>3. ASSUME NEW r \in Requests, RequestStep(r) PROVE replace_subject(r)
  <2>1. CASE decide(r) \/ execute(r) \/ admin_show(r) \/ mutate_subject(r) \/ audit(r)
    BY <2>1 DEF decide, execute, admin_show, mutate_subject, audit, memory
  <2>2. CASE write_temp(r) \/ fsync_temp(r) \/ dirsync(r) \/ reread(r) \/ rename_temp(r)
    BY <2>2 DEF write_temp, fsync_temp, dirsync, reread, rename_temp, memory
  <2> QED BY <1>3, <2>1, <2>2 DEF RequestStep
<1>4. ASSUME NEW r \in Requests, replace_subject(r) PROVE live'[u] = stable[u]
  <2>1. at[r] = "publish" /\ live' = [live EXCEPT ![req[r].uid] = candidate]
    BY <1>4 DEF replace_subject, published
  <2>2. disk[req[r].uid] = candidate /\ stable = disk BY <2>1 DEF PolicyInv, CommitInv, Committing
  <2> QED BY <2>1, <2>2 DEF PolicyInv, TypeOK
<1>5. CASE \E power \in BOOLEAN : crash(power) BY <1>5 DEF crash
<1>6. CASE bind BY <1>6 DEF bind
<1> QED BY <1>1, <1>2, <1>3, <1>4, <1>5, <1>6 DEF Next

\* The step behind RootAuthorityAcknowledged.
LEMMA AuthorityStep ==
  ASSUME PolicyInv, [Next]_vars, NEW u \in Uids, up', disk'[u] # disk[u]
  PROVE  \/ authority(disk'[u]) \subseteq authority(disk[u]) \cup authority(live[u])
         \/ \E r \in holder : req[r].uid = u /\ req[r].root /\ req[r].kind = "grant" /\ req[r].ack
<1>1. PICK r \in Requests : at[r] = "rename" /\ req[r].uid = u /\ disk'[u] = candidate BY DiskStep
<1> DEFINE s == subject(live[u])
<1>2. /\ holder = {r} /\ req[r] \in Inputs /\ s \in Subject /\ subject(candidate) = candidate
  BY <1>1, Holder DEF Committing
<1>3. /\ req[r].kind \in Mutations /\ req[r].root /\ apply_admin_mutation(s, req[r])
      /\ candidate = mutated(s, req[r])
  BY <1>1 DEF PolicyInv, CommitInv, Committing
<1>4. CASE authority(candidate) \subseteq authority(live[u]) BY <1>1, <1>4
<1>5. CASE ~(authority(candidate) \subseteq authority(live[u]))
  <2>1. PICK g \in authority(candidate) : g \notin authority(live[u]) BY <1>5
  <2>2. /\ g \in candidate.grants /\ g.action \in RootEquivalent /\ g.effect # "reject"
        /\ g \notin s.grants
    BY <1>2, <2>1 DEF authority
  <2> HIDE DEF s
  <2>3. req[r].kind = "grant" /\ req[r].ack BY <1>2, <1>3, <2>2, AuthorityNeedsAck
  <2> QED BY <1>1, <1>2, <1>3, <2>3
<1> QED BY <1>4, <1>5
-----------------------------------------------------------------------------
(***************************************************************************)
(* The theorems.                                                           *)
(***************************************************************************)
\* The inductive invariant holds in every behaviour of portus-privd
\* (mutate_subject, commit_subject, execute and bind).
THEOREM PolicyInvariant == Spec => []PolicyInv
BY InitPolicy, NextPolicy, PTL DEF Spec

\* Wherever commit_subject fails and the machine loses power, the files that
\* are left can be loaded again.
THEOREM PolicyAlwaysLoads == Spec => []PolicyLoads
<1>1. PolicyInv => PolicyLoads BY DEF PolicyInv, FilesInv, Loadable, PolicyLoads
<1> QED BY <1>1, PolicyInvariant, PTL

\* Confirmed grants stay in force through interleaved mutations, failed commits
\* and crashes, and the snapshot follows the files and only what is durable in
\* them (commit_subject, replace_subject).
THEOREM CommitsHold == Spec => CommittedPolicyHolds
<1>1. ASSUME PolicyInv PROVE ConfirmedGrantHolds /\ LiveMatchesDisk
  <2>1. ConfirmedGrantHolds BY <1>1 DEF PolicyInv, PromiseInv, Holds, ConfirmedGrantHolds
  <2> QED BY <1>1, <2>1 DEF PolicyInv
<1>2. PolicyInv /\ [Next]_vars =>
        [\A u \in Uids : up /\ up' /\ live'[u] # live[u] => live'[u] = stable[u]]_vars
  BY LiveStep
<1> QED BY <1>1, <1>2, PolicyInvariant, PTL DEF CommittedPolicyHolds, LiveAdvancesToDurable, Spec

\* What the executor ran had been allowed by the live policy, and a
\* root-equivalent grant reaches the disk only from UID 0 with its
\* acknowledgement (execute, apply_admin_mutation).
THEOREM AuthorityHasAGrant == Spec => AuthorityIsGranted
<1>1. PolicyInv => TypeOK /\ ExecutedWasAllowed BY DEF PolicyInv
<1>2. PolicyInv /\ [Next]_vars =>
        [\A u \in Uids :
           up' /\ disk'[u] # disk[u] =>
             authority(disk'[u]) \subseteq authority(disk[u]) \cup authority(live[u])
               \/ \E r \in holder : req[r].uid = u /\ req[r].root
                                    /\ req[r].kind = "grant" /\ req[r].ack]_vars
  BY AuthorityStep
<1> QED BY <1>1, <1>2, PolicyInvariant, PTL DEF AuthorityIsGranted, RootAuthorityAcknowledged, Spec
=============================================================================
