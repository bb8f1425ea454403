------------------------- MODULE ProtectedApiProofs -------------------------
(***************************************************************************)
(* Theorems about portus-apid, for every number of requests, references    *)
(* and providers, every store an earlier run may have left and every       *)
(* bound on faults, restarts and policy edits.                             *)
(***************************************************************************)
EXTENDS ProtectedApi, FiniteSetTheorems, TLAPS

-----------------------------------------------------------------------------
(***************************************************************************)
(* The inductive invariant.                                                *)
(***************************************************************************)
\* A stored secret was taken for the provider of its row, from a request that
\* changed the store or from an earlier run.
RowInv ==
  \A c \in Refs : Exists(c) =>
    /\ store[c].secret.for = store[c].provider
    /\ store[c].secret.by \in changed \cup {"earlier"}

\* Where a thread can be with a request of each kind.
KindInv(r) ==
  /\ at[r] # "new" => req[r] \in Inputs
  /\ at[r] \in {"authorize", "metadata", "load", "upstream"} => req[r].kind = "request"
  /\ at[r] \in {"lookup", "list", "discover"} => req[r].kind \in UseKinds
  /\ at[r] = "admin" => req[r].kind \in AdminKinds
  /\ at[r] = "read" => req[r].kind \in AdminKinds \ Mutations
  /\ at[r] = "mutate" => req[r].kind \in Mutations /\ req[r].root
  /\ at[r] = "preflight" =>
       req[r].kind = "request" \/ (req[r].kind \in Mutations /\ req[r].root)

\* A request acts only after its preflight record, once, and is answered last.
EffectInv(r) ==
  /\ at[r] \in {"load", "upstream", "mutate"} => r \in preflight
  /\ at[r] \notin {"audit", "done"} => reply[r] = "none" /\ r \notin changed
  /\ r \in changed => /\ req[r].kind \in Mutations /\ req[r].root
                      /\ r \in preflight
                      /\ reply[r] \in {"ok", "store_unavailable"}
  /\ reply[r] = "ok" /\ req[r].kind \in Mutations => r \in changed

\* What a running request knows of the credential it names.
SecretInv(r) ==
  /\ at[r] = "new" => usable[r] = {}
  /\ Running(r) /\ Active(req[r].ref) => store[req[r].ref].secret \in usable[r]
  /\ held[r] \subseteq usable[r]
  /\ req[r].kind = "request" /\ at[r] \in {"preflight", "load", "upstream"} /\ r \notin moved =>
       /\ meta[r] # NoCredential /\ Exists(req[r].ref)
       /\ store[req[r].ref].provider = meta[r].provider
  /\ at[r] = "upstream" =>
       \A x \in held[r] : x.for = meta[r].provider \/ r \in moved

\* What has been sent.
SentInv ==
  \A u \in sent : /\ u.req \in Requests /\ u.req \in preflight
                  /\ u.secret \in usable[u.req]
                  /\ u.secret.for = u.definition \/ u.req \in moved

ApiInv ==
  /\ TypeOK /\ audit_failures <= faults
  /\ RowInv /\ SentInv
  /\ \A r \in Requests : KindInv(r) /\ EffectInv(r) /\ SecretInv(r)
-----------------------------------------------------------------------------
(***************************************************************************)
(* What the control operators do.                                          *)
(***************************************************************************)
Labels == {"new", "authorize", "metadata", "preflight", "load", "upstream", "lookup",
           "list", "discover", "admin", "read", "mutate", "audit", "done"}

\* A thread moves to a label with an answer; the other threads stay.
Moves(r, label, code) ==
  /\ at' \in [Requests -> Labels] /\ reply' \in [Requests -> Codes]
  /\ at'[r] = label /\ reply'[r] = code
  /\ \A q \in Requests : q # r => at'[q] = at[q] /\ reply'[q] = reply[q]

LEMMA FinishMoves ==
  ASSUME TypeOK, NEW r \in Requests, NEW code \in Codes, Finish(r, code)
  PROVE  Moves(r, "audit", code)
  BY DEF TypeOK, Finish, Moves, Labels

LEMMA AnswerMoves ==
  ASSUME TypeOK, NEW r \in Requests, NEW code \in Codes, Answer(r, code)
  PROVE  Moves(r, "done", code)
  BY DEF TypeOK, Answer, Moves, Labels

LEMMA GotoMoves ==
  ASSUME TypeOK, NEW r \in Requests, NEW label \in Labels, Goto(r, label)
  PROVE  Moves(r, label, reply[r])
  BY DEF TypeOK, Goto, Moves, Labels

\* A counted failure stays within the situation's bound.
LEMMA FaultBound ==
  ASSUME TypeOK, NEW failed \in BOOLEAN, Fault(failed), world' = world
  PROVE  faults' \in 0..bound.faults /\ bound' = bound /\ faults' >= faults
         /\ (failed => faults' = faults + 1) /\ bound.faults \in Nat
<1>1. bound.faults \in Nat BY ApiBoundsAssumption DEF TypeOK, bound
<1>2. bound' = bound BY DEF bound
<1> QED BY <1>1, <1>2 DEF TypeOK, Fault

\* What a step of one request leaves alone when it does not change the store.
LeavesOthers(r) ==
  /\ store' = store /\ changed' = changed /\ moved' = moved /\ world' = world
  /\ preflight \subseteq preflight'
  /\ \A q \in Requests : q # r =>
       /\ at'[q] = at[q] /\ reply'[q] = reply[q] /\ req'[q] = req[q]
       /\ meta'[q] = meta[q] /\ held'[q] = held[q] /\ usable'[q] = usable[q]

LEMMA OthersKeep ==
  ASSUME ApiInv, NEW r \in Requests, LeavesOthers(r)
  PROVE  RowInv' /\ \A q \in Requests : q # r => KindInv(q)' /\ EffectInv(q)' /\ SecretInv(q)'
<1>1. RowInv' BY DEF ApiInv, LeavesOthers, RowInv, Exists
<1>2. ASSUME NEW q \in Requests, q # r PROVE KindInv(q)' /\ EffectInv(q)' /\ SecretInv(q)'
  <2>1. KindInv(q) /\ EffectInv(q) /\ SecretInv(q) BY DEF ApiInv
  <2>2. KindInv(q)' BY <1>2, <2>1 DEF LeavesOthers, KindInv
  <2>3. EffectInv(q)' BY <1>2, <2>1 DEF LeavesOthers, EffectInv
  <2>4. SecretInv(q)' BY <1>2, <2>1 DEF LeavesOthers, SecretInv, Running, Active, Exists
  <2> QED BY <2>2, <2>3, <2>4
<1> QED BY <1>1, <1>2

\* What was sent stays accounted for while histories only grow.
LEMMA SentKeeps ==
  ASSUME SentInv, sent' = sent, preflight \subseteq preflight', moved \subseteq moved',
         \A q \in Requests : usable[q] \subseteq usable'[q]
  PROVE  SentInv'
  BY DEF SentInv

\* The steps that only look: they change neither the store, nor a history, nor
\* what the request asked for.
LEMMA LookingKeeps ==
  ASSUME ApiInv, NEW r \in Requests, NEW label \in Labels \ {"new"}, NEW code \in Codes,
         Moves(r, label, code),
         UNCHANGED <<data, past, req, held, edits, starts, world>>,
         shown' \in [Requests -> SUBSET [ref : Refs, provider : Providers]],
         meta' \in [Requests -> Credential \cup {NoCredential}],
         \A q \in Requests : q # r => meta'[q] = meta[q],
         preflight \subseteq preflight', preflight' \subseteq Requests, result' \subseteq Requests,
         audit_failures' \in Nat, audit_failures' <= faults', faults' \in 0..bound.faults,
         KindInv(r)', EffectInv(r)',
         label \in {"preflight", "load", "upstream"} /\ req[r].kind = "request" /\ r \notin moved =>
           /\ meta'[r] # NoCredential /\ Exists(req[r].ref)
           /\ store[req[r].ref].provider = meta'[r].provider,
         label # "upstream", Running(r)
  PROVE  ApiInv'
<1>1. bound' = bound /\ bound.faults \in Nat BY ApiBoundsAssumption DEF bound, ApiInv, TypeOK
<1>2. TypeOK'
  <2>1. audit_failures' \in 0..bound.faults BY <1>1
  <2>2. Cardinality(Stored') <= MAX_CREDENTIALS BY DEF ApiInv, TypeOK, Stored, Exists, data
  <2> QED BY <1>1, <2>1, <2>2 DEF ApiInv, TypeOK, Moves, Labels, data, past
<1>3. LeavesOthers(r) BY DEF LeavesOthers, Moves, data, past
<1>4. RowInv' /\ \A q \in Requests : q # r => KindInv(q)' /\ EffectInv(q)' /\ SecretInv(q)'
  BY <1>3, OthersKeep
<1>5. SentInv' BY SentKeeps DEF ApiInv, past
<1>6. SecretInv(r)'
  <2>1. SecretInv(r) BY DEF ApiInv
  <2>2. store' = store /\ usable' = usable /\ held' = held /\ req' = req /\ moved' = moved /\ at'[r] = label
    BY DEF Moves, data, past
  <2> QED BY <2>1, <2>2 DEF SecretInv, Running, Active, Exists
<1> QED BY <1>2, <1>4, <1>5, <1>6 DEF ApiInv

\* The frame of a step that only looks.
Looks(r) ==
  /\ UNCHANGED <<data, past, req, held, result, audit_failures, edits, starts, world>>
  /\ shown' \in [Requests -> SUBSET [ref : Refs, provider : Providers]]
  /\ meta' \in [Requests -> Credential \cup {NoCredential}]
  /\ \A q \in Requests : q # r => meta'[q] = meta[q]
  /\ preflight \subseteq preflight' /\ preflight' \subseteq Requests
  /\ faults' \in 0..bound.faults /\ faults' >= faults

LEMMA BusyRequest ==
  ASSUME ApiInv, NEW r \in Requests, Running(r)
  PROVE  req[r] \in Inputs /\ at[r] \in Labels \ {"new", "done"}
  BY DEF ApiInv, TypeOK, Running, Labels, KindInv

\* Looking may end a request with a refusal or with what it was asked to show.
LEMMA LooksFinish ==
  ASSUME ApiInv, NEW r \in Requests, Running(r), at[r] # "audit", Looks(r),
         NEW code \in Codes \ {"none"}, Finish(r, code) \/ Answer(r, code),
         code = "ok" => req[r].kind \notin Mutations
  PROVE  ApiInv'
<1>1. PICK label \in {"audit", "done"} : Moves(r, label, code)
  BY FinishMoves, AnswerMoves DEF ApiInv
<1>2. EffectInv(r) /\ req[r] \in Inputs /\ r \notin changed
  BY BusyRequest DEF ApiInv, EffectInv, Running
<1>3. req' = req /\ changed' = changed /\ at'[r] = label /\ reply'[r] = code
  BY <1>1 DEF Looks, past, Moves
<1>4. KindInv(r)' BY <1>2, <1>3 DEF KindInv
<1>5. EffectInv(r)' BY <1>2, <1>3 DEF EffectInv
<1>6. audit_failures' \in Nat /\ audit_failures' <= faults'
  <2>1. bound.faults \in Nat BY ApiBoundsAssumption DEF bound, ApiInv, TypeOK
  <2> QED BY <2>1 DEF Looks, ApiInv, TypeOK
<1>7. label \in Labels \ {"new"} BY DEF Labels
<1>8. result' \subseteq Requests BY DEF Looks, ApiInv, TypeOK
<1> QED BY <1>1, <1>4, <1>5, <1>6, <1>7, <1>8, LookingKeeps DEF Looks

\* Looking may take a request to its next step.
LEMMA LooksGoto ==
  ASSUME ApiInv, NEW r \in Requests, Running(r), at[r] # "audit", Looks(r),
         NEW label \in Labels \ {"new", "audit", "done", "upstream"}, Goto(r, label),
         KindInv(r)', label \in {"load", "mutate"} => r \in preflight',
         label \in {"preflight", "load"} /\ req[r].kind = "request" /\ r \notin moved =>
           /\ meta'[r] # NoCredential /\ Exists(req[r].ref)
           /\ store[req[r].ref].provider = meta'[r].provider
  PROVE  ApiInv'
<1>1. Moves(r, label, reply[r]) BY GotoMoves DEF ApiInv
<1>2. EffectInv(r) /\ r \notin changed /\ reply[r] = "none"
  BY BusyRequest DEF ApiInv, EffectInv, Running
<1>3. req' = req /\ changed' = changed /\ at'[r] = label /\ reply'[r] = "none"
  BY <1>1, <1>2 DEF Looks, past, Moves
<1>4. EffectInv(r)' BY <1>2, <1>3 DEF EffectInv
<1>5. audit_failures' \in Nat /\ audit_failures' <= faults'
  <2>1. bound.faults \in Nat BY ApiBoundsAssumption DEF bound, ApiInv, TypeOK
  <2> QED BY <2>1 DEF Looks, ApiInv, TypeOK
<1>6. result' \subseteq Requests BY DEF Looks, ApiInv, TypeOK
<1>7. reply[r] \in Codes BY DEF ApiInv, TypeOK
<1>8. label \in Labels \ {"new"} /\ label # "upstream" OBVIOUS
<1> QED BY <1>1, <1>4, <1>5, <1>6, <1>7, <1>8, LookingKeeps DEF Looks
-----------------------------------------------------------------------------
(***************************************************************************)
(* The steps of a use request.                                             *)
(***************************************************************************)
\* The frame of the steps that leave the audit trail alone too.
LEMMA LooksFrame ==
  ASSUME ApiInv, NEW r \in Requests,
         UNCHANGED <<data, trail, past, work, faults, edits, starts, world>>
  PROVE  Looks(r)
  BY DEF ApiInv, TypeOK, Looks, data, trail, past, work

LEMMA AuthorizeStep ==
  ASSUME ApiInv, NEW r \in Requests, authorize(r), world' = world
  PROVE  ApiInv'
<1>1. Looks(r) BY LooksFrame DEF authorize
<1>2. Running(r) /\ at[r] = "authorize" BY DEF authorize, Running
<1>3. CASE Finish(r, "permission_denied") BY <1>1, <1>2, <1>3, LooksFinish DEF Codes
<1>4. CASE Finish(r, "approval_required") BY <1>1, <1>2, <1>4, LooksFinish DEF Codes
<1>5. CASE Goto(r, "metadata")
  <2>1. Moves(r, "metadata", reply[r]) BY <1>5, GotoMoves DEF ApiInv, Labels
  <2>2. KindInv(r)' BY <1>1, <1>2, <2>1, BusyRequest DEF ApiInv, KindInv, Moves, Looks
  <2> QED BY <1>1, <1>2, <1>5, <2>2, LooksGoto DEF Labels
<1> QED BY <1>3, <1>4, <1>5 DEF authorize

LEMMA MetadataStep ==
  ASSUME ApiInv, NEW r \in Requests, read_metadata(r), world' = world
  PROVE  ApiInv'
<1>1. Running(r) /\ at[r] = "metadata" BY DEF read_metadata, Running
<1>2. req[r] \in Inputs /\ req[r].kind = "request" BY <1>1, BusyRequest DEF ApiInv, KindInv
<1>3. req[r].ref \in Refs BY <1>2 DEF Inputs
<1> DEFINE row == store[req[r].ref]
<1>4. row \in Credential \cup {NoCredential} BY <1>3 DEF ApiInv, TypeOK
<1>5. PICK failed \in BOOLEAN : Fault(failed) BY DEF read_metadata
<1>6. meta' = [meta EXCEPT ![r] = row] \/ meta' = meta BY DEF read_metadata
<1>7. Looks(r)
  <2>1. faults' \in 0..bound.faults /\ faults' >= faults BY <1>5, FaultBound DEF ApiInv
  <2>2. meta' \in [Requests -> Credential \cup {NoCredential}] BY <1>4, <1>6 DEF ApiInv, TypeOK
  <2>3. \A q \in Requests : q # r => meta'[q] = meta[q] BY <1>6 DEF ApiInv, TypeOK
  <2> QED BY <2>1, <2>2, <2>3 DEF read_metadata, ApiInv, TypeOK, Looks, trail
<1>8. ASSUME NEW code \in Codes \ {"none", "ok"}, Finish(r, code) PROVE ApiInv'
  BY <1>1, <1>7, <1>8, LooksFinish
<1>9. CASE /\ Goto(r, "preflight") /\ meta' = [meta EXCEPT ![r] = row] /\ row # NoCredential
  <2>1. Moves(r, "preflight", reply[r]) BY <1>9, GotoMoves DEF ApiInv, Labels
  <2>2. KindInv(r)' BY <1>2, <1>7, <2>1 DEF ApiInv, KindInv, Moves, Looks
  <2>3. meta'[r] = row BY <1>9 DEF ApiInv, TypeOK
  <2> QED BY <1>1, <1>7, <1>9, <2>2, <2>3, LooksGoto DEF Labels, Exists
<1>10. /\ "store_unavailable" \in Codes \ {"none", "ok"} /\ "credential_not_found" \in Codes \ {"none", "ok"}
       /\ "provider_definition_invalid" \in Codes \ {"none", "ok"}
       /\ "operation_not_allowed" \in Codes \ {"none", "ok"}
       /\ "request_too_large" \in Codes \ {"none", "ok"}
  BY DEF Codes
<1> QED BY <1>8, <1>9, <1>10 DEF read_metadata

LEMMA PreflightStep ==
  ASSUME ApiInv, NEW r \in Requests, world' = world, NEW next \in {"load", "mutate"},
         require_audit_preflight(r, next),
         (next = "load") <=> (req[r].kind = "request"), next = "mutate" => req[r].kind \in Mutations
  PROVE  ApiInv'
<1>1. Running(r) /\ at[r] = "preflight" BY DEF require_audit_preflight, Running
<1>2. PICK failed \in BOOLEAN :
        /\ Fault(failed) /\ preflight' = IF failed THEN preflight ELSE preflight \cup {r}
        /\ IF failed THEN Finish(r, "store_unavailable") ELSE Goto(r, next)
  BY DEF require_audit_preflight
<1>3. Looks(r)
  <2>1. faults' \in 0..bound.faults /\ faults' >= faults BY <1>2, FaultBound DEF ApiInv
  <2>2. preflight \subseteq preflight' /\ preflight' \subseteq Requests BY <1>2 DEF ApiInv, TypeOK
  <2> QED BY <2>1, <2>2 DEF require_audit_preflight, ApiInv, TypeOK, Looks, work
<1>4. CASE failed
  BY <1>1, <1>2, <1>3, <1>4, LooksFinish DEF Codes
<1>5. CASE ~failed
  <2>1. Goto(r, next) /\ r \in preflight' BY <1>2, <1>5
  <2>2. Moves(r, next, reply[r]) BY <2>1, GotoMoves DEF ApiInv, Labels
  <2>3. KindInv(r) /\ SecretInv(r) BY DEF ApiInv
  <2>4. KindInv(r)' BY <1>1, <1>3, <2>2, <2>3 DEF KindInv, Moves, Looks
  <2>5. meta' = meta BY DEF require_audit_preflight, work
  <2> QED BY <1>1, <1>3, <2>1, <2>3, <2>4, <2>5, LooksGoto DEF Labels, SecretInv
<1> QED BY <1>4, <1>5

\* Loading a secret: it is active now, and it belongs to the definition that was
\* read first unless the reference was deleted in between.
LEMMA LoadStep ==
  ASSUME ApiInv, NEW r \in Requests, load_secret(r), world' = world
  PROVE  ApiInv'
<1>1. Running(r) /\ at[r] = "load" BY DEF load_secret, Running
<1>2. req[r] \in Inputs /\ req[r].kind = "request" BY <1>1, BusyRequest DEF ApiInv, KindInv
<1>3. req[r].ref \in Refs BY <1>2 DEF Inputs
<1> DEFINE row == store[req[r].ref]
<1>4. row \in Credential \cup {NoCredential} BY <1>3 DEF ApiInv, TypeOK
<1>5. PICK failed \in BOOLEAN : Fault(failed) BY DEF load_secret
<1>6. faults' \in 0..bound.faults /\ faults' >= faults BY <1>5, FaultBound DEF ApiInv
<1>7. ASSUME NEW code \in {"store_unavailable", "credential_not_found", "credential_revoked"},
             Finish(r, code), held' = held
      PROVE  ApiInv'
  <2>1. Looks(r) BY <1>6, <1>7 DEF load_secret, ApiInv, TypeOK, Looks, trail
  <2> QED BY <1>1, <1>7, <2>1, LooksFinish DEF Codes
<1>8. CASE /\ loaded(row) = "ok" /\ held' = [held EXCEPT ![r] = {row.secret}]
           /\ Goto(r, "upstream")
  <2>1. row \in Credential /\ row.state = "active" /\ Active(req[r].ref) /\ Exists(req[r].ref)
    BY <1>4, <1>8 DEF loaded, Credential, Active, Exists
  <2>2. Moves(r, "upstream", reply[r]) BY <1>8, GotoMoves DEF ApiInv, Labels
  <2>3. KindInv(r) /\ EffectInv(r) /\ SecretInv(r) BY DEF ApiInv
  <2>4. UNCHANGED <<data, trail, past, req, meta, shown, edits, starts>> BY DEF load_secret
  <2>5. held' \in [Requests -> SUBSET Secrets] /\ held'[r] = {row.secret}
        /\ \A q \in Requests : q # r => held'[q] = held[q]
    BY <1>8, <2>1 DEF ApiInv, TypeOK, Credential
  <2>6. bound' = bound /\ bound.faults \in Nat BY ApiBoundsAssumption DEF bound, ApiInv, TypeOK
  <2>7. TypeOK' /\ audit_failures' <= faults'
    <3>1. Cardinality(Stored') <= MAX_CREDENTIALS BY <2>4 DEF ApiInv, TypeOK, Stored, Exists, data
    <3>2. audit_failures' = audit_failures BY <2>4 DEF trail
    <3>3. audit_failures' <= faults' BY <1>6, <2>6, <3>2 DEF ApiInv, TypeOK
    <3> QED BY <1>6, <2>2, <2>4, <2>5, <2>6, <3>1, <3>3 DEF ApiInv, TypeOK, Moves, Labels, data, past, trail
  <2>8. LeavesOthers(r) BY <2>2, <2>4, <2>5 DEF LeavesOthers, Moves, data, past, trail
  <2>9. RowInv' /\ \A q \in Requests : q # r => KindInv(q)' /\ EffectInv(q)' /\ SecretInv(q)'
    BY <2>8, OthersKeep
  <2>10. SentInv' BY <2>4, SentKeeps DEF ApiInv, past, trail
  <2>11. KindInv(r)' BY <1>2, <2>2, <2>4 DEF KindInv, Moves
  <2>12. EffectInv(r)' BY <1>1, <2>2, <2>3, <2>4 DEF EffectInv, Moves, past, trail
  <2>13. SecretInv(r)'
    <3>1. row.secret \in usable[r] /\ row.secret.for = row.provider
      BY <1>1, <1>3, <2>1, <2>3 DEF SecretInv, ApiInv, RowInv
    <3>2. r \notin moved => meta[r] # NoCredential /\ row.provider = meta[r].provider
      BY <1>1, <1>2, <2>3 DEF SecretInv
    <3>3. /\ store' = store /\ usable' = usable /\ req' = req /\ meta' = meta /\ moved' = moved
          /\ at'[r] = "upstream" /\ held'[r] = {row.secret}
      BY <2>2, <2>4, <2>5 DEF data, past, Moves
    <3> QED BY <2>1, <3>1, <3>2, <3>3 DEF SecretInv, Exists
  <2> QED BY <2>7, <2>9, <2>10, <2>11, <2>12, <2>13 DEF ApiInv
<1>9. loaded(row) \in {"ok", "credential_not_found", "credential_revoked"} BY DEF loaded
<1> QED BY <1>7, <1>8, <1>9 DEF load_secret

\* The upstream request: the secret in hand goes out.
LEMMA UpstreamStep ==
  ASSUME ApiInv, NEW r \in Requests, upstream_execute(r), world' = world
  PROVE  ApiInv'
<1>1. Running(r) /\ at[r] = "upstream" BY DEF upstream_execute, Running
<1>2. req[r] \in Inputs /\ req[r].kind = "request" BY <1>1, BusyRequest DEF ApiInv, KindInv
<1>3. UNCHANGED <<data, trail, work, changed, usable, moved, faults, edits, starts>>
  BY DEF upstream_execute
<1>4. PICK code \in {"ok", "upstream_error", "tls_error"} : Finish(r, code) BY DEF upstream_execute
<1>5. Moves(r, "audit", code) BY <1>4, FinishMoves DEF ApiInv, Codes
<1>6. KindInv(r) /\ EffectInv(r) /\ SecretInv(r) BY DEF ApiInv
<1>7. TypeOK' /\ audit_failures' <= faults'
  <2>1. Cardinality(Stored') <= MAX_CREDENTIALS BY <1>3 DEF ApiInv, TypeOK, Stored, Exists, data
  <2>2. bound' = bound BY DEF bound
  <2> QED BY <1>3, <1>5, <2>1, <2>2 DEF ApiInv, TypeOK, Moves, Labels, data, trail, work
<1>8. LeavesOthers(r) BY <1>3, <1>5 DEF LeavesOthers, Moves, data, work, trail
<1>9. RowInv' /\ \A q \in Requests : q # r => KindInv(q)' /\ EffectInv(q)' /\ SecretInv(q)'
  BY <1>8, OthersKeep
<1>10. SentInv'
  <2> SUFFICES ASSUME NEW u \in sent'
               PROVE  /\ u.req \in Requests /\ u.req \in preflight
                      /\ u.secret \in usable[u.req]
                      /\ u.secret.for = u.definition \/ u.req \in moved
    BY <1>3 DEF SentInv, trail
  <2>1. CASE u \in sent BY <2>1 DEF ApiInv, SentInv
  <2>2. CASE u \notin sent
    <3>1. PICK x \in held[r] : u = [req |-> r, definition |-> meta[r].provider, secret |-> x]
      BY <2>2 DEF upstream_execute
    <3> QED BY <1>1, <1>6, <3>1 DEF EffectInv, SecretInv
  <2> QED BY <2>1, <2>2
<1>11. KindInv(r)' BY <1>2, <1>3, <1>5 DEF KindInv, Moves, work
<1>12. EffectInv(r)' BY <1>1, <1>2, <1>3, <1>5, <1>6 DEF EffectInv, Moves, trail, work, Mutations
<1>13. SecretInv(r)'
  <2>1. /\ store' = store /\ usable' = usable /\ req' = req /\ meta' = meta /\ moved' = moved
        /\ held' = held /\ at'[r] = "audit"
    BY <1>3, <1>5 DEF data, work, Moves
  <2> QED BY <1>1, <1>6, <2>1 DEF SecretInv, Running, Active, Exists
<1> QED BY <1>7, <1>9, <1>10, <1>11, <1>12, <1>13 DEF ApiInv

\* The rows a request is shown are pairs of a reference and its provider.
LEMMA ShownRows ==
  ASSUME TypeOK, NEW rows \in SUBSET Stored
  PROVE  {[ref |-> c, provider |-> store[c].provider] : c \in rows}
           \in SUBSET [ref : Refs, provider : Providers]
<1>1. ASSUME NEW c \in rows PROVE c \in Refs /\ store[c].provider \in Providers
  BY DEF Stored, Exists, TypeOK, Credential
<1> QED BY <1>1

LEMMA LookupStep ==
  ASSUME ApiInv, NEW r \in Requests, lookup(r), world' = world
  PROVE  ApiInv'
<1>1. Running(r) /\ at[r] \in {"lookup", "list"} BY DEF lookup, Running
<1>2. req[r] \in Inputs /\ req[r].kind \in UseKinds BY <1>1, BusyRequest DEF ApiInv, KindInv
<1> DEFINE rows == IF at[r] = "lookup" THEN {req[r].ref} \cap Stored ELSE Stored
           pairs == {[ref |-> c, provider |-> store[c].provider] : c \in rows}
<1>3. pairs \in SUBSET [ref : Refs, provider : Providers]
  <2>1. rows \in SUBSET Stored OBVIOUS
  <2> HIDE DEF rows
  <2> QED BY <2>1, ShownRows DEF ApiInv
<1>4. PICK failed \in BOOLEAN : Fault(failed) BY DEF lookup
<1>5. shown' = shown \/ shown' = [shown EXCEPT ![r] = pairs] BY DEF lookup
<1>6. Looks(r)
  <2> HIDE DEF pairs
  <2>1. faults' \in 0..bound.faults /\ faults' >= faults BY <1>4, FaultBound DEF ApiInv
  <2>2. shown' \in [Requests -> SUBSET [ref : Refs, provider : Providers]]
    BY <1>3, <1>5 DEF ApiInv, TypeOK
  <2> QED BY <2>1, <2>2 DEF lookup, ApiInv, TypeOK, Looks, trail
<1>7. ASSUME NEW code \in {"store_unavailable", "credential_not_found"}, Answer(r, code) PROVE ApiInv'
  BY <1>1, <1>6, <1>7, LooksFinish DEF Codes
<1>8. CASE Goto(r, "discover")
  <2>1. Moves(r, "discover", reply[r]) BY <1>8, GotoMoves DEF ApiInv, Labels
  <2>2. KindInv(r)' BY <1>2, <1>6, <2>1 DEF KindInv, Moves, Looks
  <2> QED BY <1>1, <1>6, <1>8, <2>2, LooksGoto DEF Labels
<1> QED BY <1>7, <1>8 DEF lookup

LEMMA DiscoverStep ==
  ASSUME ApiInv, NEW r \in Requests, discover(r), world' = world
  PROVE  ApiInv'
<1>1. Running(r) /\ at[r] = "discover" BY DEF discover, Running
<1>2. req[r].kind \in UseKinds BY <1>1 DEF ApiInv, KindInv
<1>3. shown' \in [Requests -> SUBSET [ref : Refs, provider : Providers]]
  BY DEF discover, ApiInv, TypeOK
<1>4. Looks(r) BY <1>3 DEF discover, ApiInv, TypeOK, Looks, trail
<1>5. PICK code \in {"credential_not_found", "ok"} : Answer(r, code) BY DEF discover
<1>6. req[r].kind \notin Mutations BY <1>2 DEF UseKinds, Mutations
<1> QED BY <1>1, <1>4, <1>5, <1>6, LooksFinish DEF Codes
-----------------------------------------------------------------------------
(***************************************************************************)
(* The steps of an administration request.                                 *)
(***************************************************************************)
LEMMA AdminStep ==
  ASSUME ApiInv, NEW r \in Requests, admin_start(r), world' = world
  PROVE  ApiInv'
<1>1. Running(r) /\ at[r] = "admin" BY DEF admin_start, Running
<1>2. Looks(r) BY LooksFrame DEF admin_start
<1>3. req[r] \in Inputs /\ req[r].kind \in AdminKinds BY <1>1, BusyRequest DEF ApiInv, KindInv
<1>4. ASSUME NEW code \in {"permission_denied", "provider_definition_invalid"}, Finish(r, code)
      PROVE  ApiInv'
  BY <1>1, <1>2, <1>4, LooksFinish DEF Codes
<1>5. CASE req[r].root /\ Goto(r, IF req[r].kind \in Mutations THEN "preflight" ELSE "read")
  <2> DEFINE label == IF req[r].kind \in Mutations THEN "preflight" ELSE "read"
  <2>1. Moves(r, label, reply[r]) BY <1>5, GotoMoves DEF ApiInv, Labels
  <2>2. req' = req /\ at'[r] = label BY <1>2, <2>1 DEF Moves, Looks
  <2>3. KindInv(r)' BY <1>3, <1>5, <2>2 DEF KindInv
  <2>4. req[r].kind # "request" BY <1>3 DEF AdminKinds, Mutations
  <2> QED BY <1>1, <1>2, <1>5, <2>3, <2>4, LooksGoto DEF Labels
<1> QED BY <1>4, <1>5 DEF admin_start

LEMMA AdminReadStep ==
  ASSUME ApiInv, NEW r \in Requests, admin_read(r), world' = world
  PROVE  ApiInv'
<1>1. Running(r) /\ at[r] = "read" BY DEF admin_read, Running
<1>2. req[r].kind \notin Mutations BY <1>1 DEF ApiInv, KindInv
<1> DEFINE rows == IF req[r].kind = "admin_show" THEN {req[r].ref} \cap Stored ELSE Stored
           pairs == {[ref |-> c, provider |-> store[c].provider] : c \in rows}
<1>3. pairs \in SUBSET [ref : Refs, provider : Providers]
  <2>1. rows \in SUBSET Stored OBVIOUS
  <2> HIDE DEF rows
  <2> QED BY <2>1, ShownRows DEF ApiInv
<1>4. PICK failed \in BOOLEAN : Fault(failed) BY DEF admin_read
<1>5. shown' = shown \/ shown' = [shown EXCEPT ![r] = pairs] BY DEF admin_read
<1>6. Looks(r)
  <2> HIDE DEF pairs
  <2>1. faults' \in 0..bound.faults /\ faults' >= faults BY <1>4, FaultBound DEF ApiInv
  <2>2. shown' \in [Requests -> SUBSET [ref : Refs, provider : Providers]]
    BY <1>3, <1>5 DEF ApiInv, TypeOK
  <2> QED BY <2>1, <2>2 DEF admin_read, ApiInv, TypeOK, Looks, trail
<1>7. PICK code \in {"store_unavailable", "credential_not_found", "ok"} : Finish(r, code)
  BY DEF admin_read
<1> QED BY <1>1, <1>2, <1>6, <1>7, LooksFinish DEF Codes

\* The row a mutation writes keeps the limit, the types and the pairing of
\* secrets with their provider.
LEMMA WrittenRow ==
  ASSUME ApiInv, NEW r \in Requests, at[r] = "mutate", refused(req[r]) = "ok"
  PROVE  /\ req[r].ref \in Refs /\ req[r].kind \in Mutations
         /\ written(r, req[r]) \in Credential \cup {NoCredential}
         /\ req[r].kind = "delete" => written(r, req[r]) = NoCredential
         /\ req[r].kind # "delete" =>
              /\ written(r, req[r]) # NoCredential
              /\ written(r, req[r]).secret.for = written(r, req[r]).provider
              /\ written(r, req[r]).secret.by \in changed \cup {"earlier", r}
         /\ req[r].kind = "provision" => ~Exists(req[r].ref) /\ Cardinality(Stored) < MAX_CREDENTIALS
         /\ req[r].kind # "provision" => Exists(req[r].ref)
         /\ req[r].kind \in {"rotate", "revoke"} =>
              written(r, req[r]).provider = store[req[r].ref].provider
         /\ req[r].kind = "rotate" =>
              /\ written(r, req[r]).generation = store[req[r].ref].generation + 1
              /\ written(r, req[r]).secret.by = r
         /\ req[r].kind = "revoke" =>
              /\ written(r, req[r]).generation = store[req[r].ref].generation
              /\ written(r, req[r]).secret = store[req[r].ref].secret
<1> DEFINE i == req[r]
<1>1. i \in Inputs /\ i.kind \in Mutations BY DEF ApiInv, KindInv
<1>2. i.ref \in Refs /\ (i.kind = "provision" => i.provider \in Providers)
  BY <1>1 DEF Inputs, UseKinds, AdminKinds, Mutations
<1>3. store[i.ref] \in Credential \cup {NoCredential} BY <1>2 DEF ApiInv, TypeOK
<1>4. Cardinality(Stored) \in Nat
  <2>1. Stored \in SUBSET Refs BY DEF Stored
  <2> QED BY <2>1, StoreAssumption, FS_Subset, FS_CardinalityType
<1>5. CASE i.kind = "provision"
  <2>1. ~Exists(i.ref) /\ Cardinality(Stored) < MAX_CREDENTIALS
    BY <1>4, <1>5, ApiBoundsAssumption DEF refused
  <2>2. written(r, i) = [provider |-> i.provider, generation |-> 1, state |-> "active",
                         secret |-> [for |-> i.provider, by |-> r]]
    BY <1>5 DEF written
  <2>3. written(r, i) \in Credential BY <1>2, <1>5, <2>2 DEF Credential, Secrets
  <2> QED BY <1>1, <1>2, <1>5, <2>1, <2>2, <2>3, StoreAssumption
<1>6. CASE i.kind # "provision"
  <2>1. Exists(i.ref) /\ store[i.ref] \in Credential BY <1>3, <1>6 DEF refused, Exists
  <2>2. /\ store[i.ref].secret.for = store[i.ref].provider
        /\ store[i.ref].secret.by \in changed \cup {"earlier"}
    BY <1>2, <2>1 DEF ApiInv, RowInv
  <2>3. CASE i.kind = "rotate"
    <3>1. written(r, i) = [store[i.ref] EXCEPT !.secret = [for |-> store[i.ref].provider, by |-> r],
                                               !.generation = @ + 1, !.state = "active"]
      BY <2>3 DEF written
    <3>2. written(r, i) \in Credential
      <4> DEFINE x == store[i.ref]
                 s == [for |-> x.provider, by |-> r]
      <4>1. x \in Credential /\ s \in Secrets BY <2>1 DEF Credential, Secrets
      <4>2. x.generation + 1 \in Nat BY <4>1 DEF Credential
      <4>3. written(r, i) = [x EXCEPT !.secret = s, !.generation = @ + 1, !.state = "active"] BY <3>1
      <4> HIDE DEF x, s
      <4> QED BY <4>1, <4>2, <4>3 DEF Credential
    <3>3. /\ written(r, i).provider = store[i.ref].provider
          /\ written(r, i).generation = store[i.ref].generation + 1
          /\ written(r, i).secret = [for |-> store[i.ref].provider, by |-> r]
      BY <2>1, <3>1 DEF Credential
    <3> QED BY <1>1, <1>2, <2>1, <2>3, <3>2, <3>3, StoreAssumption
  <2>4. CASE i.kind = "revoke"
    <3>1. written(r, i) = [store[i.ref] EXCEPT !.state = "revoked"] BY <2>4 DEF written
    <3>2. written(r, i) \in Credential BY <2>1, <3>1 DEF Credential
    <3>3. /\ written(r, i).provider = store[i.ref].provider
          /\ written(r, i).generation = store[i.ref].generation
          /\ written(r, i).secret = store[i.ref].secret
      BY <2>1, <3>1 DEF Credential
    <3> QED BY <1>1, <1>2, <2>1, <2>2, <2>4, <3>2, <3>3, StoreAssumption
  <2>5. CASE i.kind = "delete"
    <3>1. written(r, i) = NoCredential BY <2>5 DEF written
    <3> QED BY <1>1, <1>2, <2>1, <2>5, <3>1
  <2> QED BY <1>1, <1>6, <2>3, <2>4, <2>5 DEF Mutations
<1> QED BY <1>5, <1>6

\* A mutation that commits: the row of its own reference changes, and every
\* running request of that reference is remembered in the histories.
LEMMA CommitStep ==
  ASSUME ApiInv, NEW r \in Requests, world' = world, at[r] = "mutate", refused(req[r]) = "ok",
         store' = [store EXCEPT ![req[r].ref] = written(r, req[r])], remember(r, req[r]),
         NEW code \in {"ok", "store_unavailable"}, Finish(r, code),
         NEW failed \in BOOLEAN, Fault(failed),
         UNCHANGED <<catalog, policy, trail, work, sent, edits, starts>>
  PROVE  ApiInv'
<1> DEFINE c == req[r].ref
           row == written(r, req[r])
<1>1. /\ c \in Refs /\ req[r].kind \in Mutations
      /\ row \in Credential \cup {NoCredential}
      /\ req[r].kind = "delete" => row = NoCredential
      /\ req[r].kind # "delete" => row # NoCredential /\ row.secret.for = row.provider
                                   /\ row.secret.by \in changed \cup {"earlier", r}
      /\ req[r].kind = "provision" => ~Exists(c) /\ Cardinality(Stored) < MAX_CREDENTIALS
      /\ req[r].kind # "provision" => Exists(c)
      /\ req[r].kind \in {"rotate", "revoke"} => row.provider = store[c].provider
  BY WrittenRow
<1> HIDE DEF row
<1>2. store' = [store EXCEPT ![c] = row] BY DEF row
<1>3. store' \in [Refs -> Credential \cup {NoCredential}] /\ store'[c] = row
      /\ \A d \in Refs : d # c => store'[d] = store[d]
  BY <1>1, <1>2 DEF ApiInv, TypeOK
<1>4. Moves(r, "audit", code) BY FinishMoves DEF ApiInv, Codes
<1>5. faults' \in 0..bound.faults /\ faults' >= faults /\ bound' = bound /\ bound.faults \in Nat
  BY FaultBound DEF ApiInv
<1>6. /\ req' = req /\ meta' = meta /\ held' = held /\ shown' = shown /\ sent' = sent
      /\ preflight' = preflight /\ result' = result /\ audit_failures' = audit_failures
      /\ changed' = changed \cup {r}
  BY DEF work, trail, remember
<1>7. Cardinality(Stored') <= MAX_CREDENTIALS
  <2>1. Stored \in SUBSET Refs /\ IsFiniteSet(Stored) /\ Cardinality(Stored) \in Nat
    BY StoreAssumption, FS_Subset, FS_CardinalityType DEF Stored
  <2>2. CASE req[r].kind = "provision"
    <3>1. Stored' \subseteq Stored \cup {c} BY <1>3 DEF Stored, Exists
    <3>2. IsFiniteSet(Stored \cup {c}) /\ Cardinality(Stored \cup {c}) <= Cardinality(Stored) + 1
      BY <2>1, FS_AddElement
    <3>3. Cardinality(Stored') <= Cardinality(Stored \cup {c}) /\ Cardinality(Stored') \in Nat
          /\ Cardinality(Stored \cup {c}) \in Nat
      BY <3>1, <3>2, FS_Subset, FS_CardinalityType
    <3> QED BY <1>1, <2>1, <2>2, <3>2, <3>3, ApiBoundsAssumption
  <2>3. CASE req[r].kind # "provision"
    <3>1. Stored' \subseteq Stored BY <1>1, <1>3, <2>3 DEF Stored, Exists
    <3>2. Cardinality(Stored') <= Cardinality(Stored) /\ Cardinality(Stored') \in Nat
      BY <2>1, <3>1, FS_Subset, FS_CardinalityType
    <3> QED BY <2>1, <3>2, ApiBoundsAssumption DEF ApiInv, TypeOK
  <2> QED BY <2>2, <2>3
<1>8. moved \subseteq moved' /\ moved' \subseteq Requests
  BY DEF remember, ApiInv, TypeOK
<1>9. /\ usable' \in [Requests -> SUBSET Secrets]
      /\ \A q \in Requests : usable[q] \subseteq usable'[q]
      /\ \A q \in Requests : Running(q) /\ req[q].ref = c /\ row # NoCredential /\ row.state = "active" =>
           row.secret \in usable'[q]
      /\ \A q \in Requests : ~Running(q) => usable'[q] = usable[q]
  <2>1. usable' = [q \in Requests |->
          IF Running(q) /\ req[q].ref = c /\ row # NoCredential /\ row.state = "active"
            THEN usable[q] \cup {row.secret} ELSE usable[q]]
    BY <1>3 DEF remember
  <2>2. row # NoCredential => row.secret \in Secrets BY <1>1 DEF Credential
  <2>3. \A q \in Requests : usable[q] \in SUBSET Secrets BY DEF ApiInv, TypeOK
  <2> QED BY <2>1, <2>2, <2>3
<1>10. TypeOK' /\ audit_failures' <= faults'
  <2>1. audit_failures' <= faults' BY <1>5, <1>6 DEF ApiInv, TypeOK
  <2>2. at' \in [Requests -> Labels] /\ reply' \in [Requests -> Codes] BY <1>4 DEF Moves
  <2> QED BY <1>3, <1>5, <1>6, <1>7, <1>8, <1>9, <2>1, <2>2 DEF ApiInv, TypeOK, Labels
<1>11. RowInv'
  <2> SUFFICES ASSUME NEW d \in Refs, store'[d] # NoCredential
               PROVE  /\ store'[d].secret.for = store'[d].provider
                      /\ store'[d].secret.by \in changed' \cup {"earlier"}
    BY DEF RowInv, Exists
  <2>1. CASE d = c BY <1>1, <1>3, <1>6, <2>1
  <2>2. CASE d # c BY <1>3, <1>6, <2>2 DEF ApiInv, RowInv, Exists
  <2> QED BY <2>1, <2>2
<1>12. SentInv' BY <1>6, <1>8, <1>9, SentKeeps DEF ApiInv
<1>13. KindInv(r) /\ EffectInv(r) /\ SecretInv(r) BY DEF ApiInv
<1>14. KindInv(r)' BY <1>4, <1>6, <1>13 DEF KindInv, Moves
<1>15. EffectInv(r)' BY <1>1, <1>4, <1>6, <1>13 DEF EffectInv, KindInv, Moves
<1>16. ASSUME NEW q \in Requests PROVE SecretInv(q)'
  <2>1. SecretInv(q) /\ KindInv(q) /\ held[q] \subseteq usable'[q] BY <1>9 DEF ApiInv, SecretInv
  <2>2. at'[q] = at[q] \/ (q = r /\ at'[q] = "audit") BY <1>4 DEF Moves
  <2>3. Running(q)' => Running(q) /\ req[q] \in Inputs
    BY <2>1, <2>2 DEF Running, KindInv
  <2>4. req[q] \in Inputs => req[q].ref \in Refs BY DEF Inputs
  <2>5. ASSUME Running(q)', Active(req[q].ref)' PROVE store'[req[q].ref].secret \in usable'[q]
    <3>1. Running(q) /\ req[q].ref \in Refs BY <2>3, <2>4, <2>5
    <3>2. store'[req[q].ref] # NoCredential /\ store'[req[q].ref].state = "active"
      BY <1>6, <2>5 DEF Active, Exists
    <3>3. CASE req[q].ref = c BY <1>3, <1>9, <3>1, <3>2, <3>3
    <3>4. CASE req[q].ref # c BY <1>3, <1>9, <2>1, <3>1, <3>2, <3>4 DEF SecretInv, Active, Exists
    <3> QED BY <3>3, <3>4
  <2>6. ASSUME req[q].kind = "request", at'[q] \in {"preflight", "load", "upstream"}, q \notin moved'
        PROVE  /\ meta[q] # NoCredential /\ store'[req[q].ref] # NoCredential
               /\ store'[req[q].ref].provider = meta[q].provider
    <3>1. q # r /\ at'[q] = at[q] BY <1>1, <2>2, <2>6 DEF Mutations
    <3>2. Running(q) /\ req[q].ref \in Refs BY <2>1, <2>4, <2>6, <3>1 DEF Running, KindInv
    <3>3. meta[q] # NoCredential /\ Exists(req[q].ref) /\ store[req[q].ref].provider = meta[q].provider
      BY <1>8, <2>1, <2>6, <3>1 DEF SecretInv
    <3>4. CASE req[q].ref # c BY <1>3, <3>2, <3>3, <3>4 DEF Exists
    <3>5. CASE req[q].ref = c
      <4>1. req[r].kind # "delete" BY <2>6, <3>2, <3>3, <3>5 DEF remember
      <4>2. req[r].kind # "provision" BY <1>1, <3>3, <3>5
      <4> QED BY <1>1, <1>3, <3>3, <3>5, <4>1, <4>2 DEF Mutations
    <3> QED BY <3>4, <3>5
  <2>7. at'[q] = "upstream" => \A x \in held[q] : x.for = meta[q].provider \/ q \in moved'
    BY <1>8, <2>1, <2>2 DEF SecretInv
  <2>8. at'[q] = "new" => usable'[q] = {} BY <1>9, <2>1, <2>2 DEF SecretInv, Running
  <2> QED BY <1>6, <2>1, <2>5, <2>6, <2>7, <2>8 DEF SecretInv, Exists, Active
<1>17. ASSUME NEW q \in Requests, q # r PROVE KindInv(q)' /\ EffectInv(q)'
  <2>1. KindInv(q) /\ EffectInv(q) BY DEF ApiInv
  <2>2. at'[q] = at[q] /\ reply'[q] = reply[q] /\ req'[q] = req[q] BY <1>4, <1>6, <1>17 DEF Moves
  <2>3. (q \in changed') = (q \in changed) /\ preflight' = preflight BY <1>6, <1>17
  <2>4. KindInv(q)' BY <2>1, <2>2 DEF KindInv
  <2>5. EffectInv(q)' BY <2>1, <2>2, <2>3 DEF EffectInv
  <2> QED BY <2>4, <2>5
<1> QED BY <1>10, <1>11, <1>12, <1>14, <1>15, <1>16, <1>17 DEF ApiInv

LEMMA MutateStep ==
  ASSUME ApiInv, NEW r \in Requests, mutate(r), world' = world
  PROVE  ApiInv'
<1>1. Running(r) /\ at[r] = "mutate" BY DEF mutate, Running
<1>2. UNCHANGED <<catalog, policy, trail, work, sent, edits, starts>> BY DEF mutate
<1>3. ASSUME NEW code \in Codes \ {"none", "ok"}, NEW failed \in BOOLEAN, Fault(failed), Finish(r, code),
             UNCHANGED <<store, changed, usable, moved>>
      PROVE  ApiInv'
  <2>1. faults' \in 0..bound.faults /\ faults' >= faults BY <1>3, FaultBound DEF ApiInv
  <2>2. Looks(r) BY <1>2, <1>3, <2>1 DEF ApiInv, TypeOK, Looks, data, trail, past, work
  <2> QED BY <1>1, <1>3, <2>2, LooksFinish
<1>4. refused(req[r]) \in {"ok", "invalid_request", "credential_not_found"} BY DEF refused
<1>5. CASE refused(req[r]) = "ok" /\ store' = [store EXCEPT ![req[r].ref] = written(r, req[r])]
           /\ remember(r, req[r])
           /\ \/ Fault(FALSE) /\ Finish(r, "ok")
              \/ req[r].kind # "delete" /\ Fault(TRUE) /\ Finish(r, "store_unavailable")
  BY <1>1, <1>2, <1>5, CommitStep
<1>6. /\ "store_unavailable" \in Codes \ {"none", "ok"}
      /\ "invalid_request" \in Codes \ {"none", "ok"} /\ "credential_not_found" \in Codes \ {"none", "ok"}
  BY DEF Codes
<1>7. CASE Fault(TRUE) /\ Finish(r, "store_unavailable") /\ UNCHANGED <<store, changed, usable, moved>>
  BY <1>3, <1>6, <1>7
<1>8. CASE refused(req[r]) # "ok" /\ Fault(FALSE) /\ Finish(r, refused(req[r]))
           /\ UNCHANGED <<store, changed, usable, moved>>
  BY <1>3, <1>4, <1>6, <1>8
<1> QED BY <1>5, <1>7, <1>8 DEF mutate

\* The result record and the response.
LEMMA AuditStep ==
  ASSUME ApiInv, NEW r \in Requests, audit_result(r), world' = world
  PROVE  ApiInv'
<1>1. Running(r) /\ at[r] = "audit" BY DEF audit_result, Running
<1>2. Moves(r, "done", reply[r]) BY GotoMoves DEF audit_result, ApiInv, Labels
<1>3. PICK failed \in BOOLEAN :
        /\ Fault(failed) /\ result' = IF failed THEN result ELSE result \cup {r}
        /\ audit_failures' = IF failed THEN audit_failures + 1 ELSE audit_failures
  BY DEF audit_result
<1>4. UNCHANGED <<data, preflight, past, work, edits, starts>> BY DEF audit_result
<1>5. audit_failures' \in Nat /\ audit_failures' <= faults' /\ faults' \in 0..bound.faults
  <2>1. /\ faults' \in 0..bound.faults /\ faults' >= faults /\ (failed => faults' = faults + 1)
        /\ bound.faults \in Nat
    BY <1>3, FaultBound DEF ApiInv
  <2> QED BY <1>3, <2>1 DEF ApiInv, TypeOK
<1>6. EffectInv(r) /\ KindInv(r) /\ req' = req /\ changed' = changed /\ at'[r] = "done" /\ reply'[r] = reply[r]
  BY <1>2, <1>4 DEF ApiInv, work, past, Moves
<1>7. KindInv(r)' BY <1>1, <1>6 DEF KindInv
<1>8. EffectInv(r)' BY <1>1, <1>4, <1>6 DEF EffectInv
<1>9. reply[r] \in Codes /\ "done" \in Labels \ {"new"} BY DEF ApiInv, TypeOK, Labels
<1>10. /\ shown' \in [Requests -> SUBSET [ref : Refs, provider : Providers]]
       /\ meta' = meta /\ meta' \in [Requests -> Credential \cup {NoCredential}]
       /\ result' \subseteq Requests /\ preflight' = preflight /\ preflight' \subseteq Requests
       /\ UNCHANGED <<data, past, req, held, edits, starts, world>>
  BY <1>3, <1>4 DEF ApiInv, TypeOK, work
<1> QED BY <1>1, <1>2, <1>5, <1>7, <1>8, <1>9, <1>10, LookingKeeps
-----------------------------------------------------------------------------
(***************************************************************************)
(* The steps of the world, and a new request.                              *)
(***************************************************************************)
\* A new request knows the secret that is active when it arrives.
LEMMA DispatchStep ==
  ASSUME ApiInv, NEW r \in Requests, NEW i \in Inputs, dispatch(r, i), world' = world
  PROVE  ApiInv'
<1>1. at[r] = "new" /\ UNCHANGED <<data, trail, meta, held, shown, sent, changed, moved, faults,
                                  edits, starts>>
  BY DEF dispatch
<1>2. KindInv(r) /\ EffectInv(r) /\ SecretInv(r) BY DEF ApiInv
<1>3. r \notin changed /\ reply[r] = "none" BY <1>1, <1>2 DEF EffectInv
<1>4. req' \in [Requests -> Inputs \cup {NoRequest}] /\ req'[r] = i
      /\ \A q \in Requests : q # r => req'[q] = req[q]
  BY DEF dispatch, ApiInv, TypeOK
<1>5. PICK label \in {"authorize", "lookup", "list", "admin", "done"}, code \in {"none", "invalid_request"} :
        /\ Moves(r, label, code)
        /\ label # "done" => label = first_step(i) /\ code = "none"
        /\ label = "done" => code = "invalid_request"
  <2>1. CASE Goto(r, first_step(i))
    <3>1. first_step(i) \in {"authorize", "lookup", "list", "admin"} BY DEF first_step
    <3>2. Moves(r, first_step(i), "none") BY <1>3, <2>1, <3>1, GotoMoves DEF ApiInv, Labels
    <3> QED BY <3>1, <3>2
  <2>2. CASE Answer(r, "invalid_request") BY <2>2, AnswerMoves DEF ApiInv, Codes
  <2> QED BY <2>1, <2>2 DEF dispatch
<1>6. i.ref \in Refs BY DEF Inputs
<1>7. /\ usable' \in [Requests -> SUBSET Secrets]
      /\ usable'[r] = IF Active(i.ref) THEN {store[i.ref].secret} ELSE {}
      /\ \A q \in Requests : q # r => usable'[q] = usable[q]
  <2>1. store[i.ref] \in Credential \cup {NoCredential} BY <1>6 DEF ApiInv, TypeOK
  <2>2. Active(i.ref) => store[i.ref].secret \in Secrets BY <2>1 DEF Active, Exists, Credential
  <2>3. (IF Active(i.ref) THEN {store[i.ref].secret} ELSE {}) \in SUBSET Secrets BY <2>2
  <2> QED BY <2>3 DEF dispatch, ApiInv, TypeOK
<1>8. TypeOK' /\ audit_failures' <= faults'
  <2>1. Cardinality(Stored') <= MAX_CREDENTIALS BY <1>1 DEF ApiInv, TypeOK, Stored, Exists, data
  <2>2. bound' = bound BY DEF bound
  <2> QED BY <1>1, <1>4, <1>5, <1>7, <2>1, <2>2 DEF ApiInv, TypeOK, Moves, Labels, data, trail
<1>9. LeavesOthers(r) BY <1>1, <1>4, <1>5, <1>7 DEF LeavesOthers, Moves, data, trail
<1>10. RowInv' /\ \A q \in Requests : q # r => KindInv(q)' /\ EffectInv(q)' /\ SecretInv(q)'
  BY <1>9, OthersKeep
<1>11. at'[r] = label /\ reply'[r] = code BY <1>5 DEF Moves
<1>12. KindInv(r)'
  <2>1. i.kind \in UseKinds \cup AdminKinds BY DEF Inputs, UseKinds, AdminKinds, Mutations
  <2> QED BY <1>4, <1>5, <1>11, <2>1 DEF KindInv, first_step, UseKinds
<1>13. EffectInv(r)' BY <1>1, <1>3, <1>5, <1>11 DEF EffectInv
<1>14. usable[r] = {} /\ held[r] = {} BY <1>1, <1>2 DEF SecretInv
<1>15. SecretInv(r)'
  <2>1. store' = store /\ held'[r] = {} BY <1>1, <1>14 DEF data
  <2>2. at'[r] \notin {"new", "preflight", "load", "upstream"} BY <1>11
  <2> QED BY <1>4, <1>7, <2>1, <2>2 DEF SecretInv, Active, Exists
<1>16. SentInv'
  <2>1. \A q \in Requests : usable[q] \subseteq usable'[q] BY <1>7, <1>14
  <2> QED BY <1>1, <2>1, SentKeeps DEF ApiInv, trail
<1> QED BY <1>8, <1>10, <1>12, <1>13, <1>15, <1>16 DEF ApiInv

LEMMA PolicyEditStep ==
  ASSUME ApiInv, world' = world, NEW c \in Refs, NEW op \in Operations, NEW effect \in Effects,
         policy_edit(c, op, effect)
  PROVE  ApiInv'
<1>1. UNCHANGED <<store, catalog, trail, past, work, at, reply, faults, starts>> BY DEF policy_edit
<1>2. policy' \in [Refs \X Operations -> Effects] BY DEF policy_edit, ApiInv, TypeOK
<1>3. Stored' = Stored /\ bound' = bound BY <1>1 DEF Stored, Exists, bound
<1>4. TypeOK' /\ audit_failures' <= faults'
  BY <1>1, <1>2, <1>3 DEF ApiInv, TypeOK, trail, past, work
<1>5. RowInv' /\ SentInv' BY <1>1 DEF ApiInv, RowInv, SentInv, Exists, past, trail
<1>6. ASSUME NEW q \in Requests PROVE KindInv(q)' /\ EffectInv(q)' /\ SecretInv(q)'
  <2>1. KindInv(q) /\ EffectInv(q) /\ SecretInv(q) BY DEF ApiInv
  <2>2. KindInv(q)' BY <1>1, <2>1 DEF KindInv, work
  <2>3. EffectInv(q)' BY <1>1, <2>1 DEF EffectInv, work, past, trail
  <2>4. SecretInv(q)' BY <1>1, <2>1 DEF SecretInv, work, past, Running, Active, Exists
  <2> QED BY <2>2, <2>3, <2>4
<1> QED BY <1>4, <1>5, <1>6 DEF ApiInv

\* A crash ends every request; the table, the audit file and what was sent stay.
LEMMA RestartStep ==
  ASSUME ApiInv, world' = world, NEW C \in Catalogs, restart(C)
  PROVE  ApiInv'
<1>1. /\ UNCHANGED <<store, policy, preflight, result, past, work, reply, faults, edits>>
      /\ catalog' = C /\ audit_failures' = 0
      /\ at' = [r \in Requests |-> IF at[r] = "new" THEN "new" ELSE "done"]
  BY DEF restart
<1>2. Stored' = Stored /\ bound' = bound BY <1>1 DEF Stored, Exists, bound
<1>3. bound.faults \in Nat /\ at' \in [Requests -> Labels]
  BY <1>1, ApiBoundsAssumption DEF bound, ApiInv, TypeOK, Labels
<1>4. TypeOK' /\ audit_failures' <= faults'
  BY <1>1, <1>2, <1>3 DEF ApiInv, TypeOK, past, work, Labels
<1>5. RowInv' /\ SentInv' BY <1>1 DEF ApiInv, RowInv, SentInv, Exists, past
<1>6. ASSUME NEW q \in Requests PROVE KindInv(q)' /\ EffectInv(q)' /\ SecretInv(q)'
  <2>1. KindInv(q) /\ EffectInv(q) /\ SecretInv(q) BY DEF ApiInv
  <2>2. /\ at[q] = "new" => at'[q] = "new"
        /\ at[q] # "new" => at'[q] = "done"
    BY <1>1
  <2>3. KindInv(q)'
    <3>1. req' = req BY <1>1 DEF work
    <3> QED BY <2>1, <2>2, <3>1 DEF KindInv
  <2>4. EffectInv(q)' BY <1>1, <2>1, <2>2 DEF EffectInv, work, past
  <2>5. SecretInv(q)' BY <1>1, <2>1, <2>2 DEF SecretInv, work, past, Running, Active, Exists
  <2> QED BY <2>3, <2>4, <2>5
<1> QED BY <1>4, <1>5, <1>6 DEF ApiInv
-----------------------------------------------------------------------------
(***************************************************************************)
(* The invariant holds.                                                    *)
(***************************************************************************)
LEMMA InitApi == Init => ApiInv
<1> SUFFICES ASSUME Init PROVE ApiInv OBVIOUS
<1>1. store \in InitialStores /\ store \in [Refs -> Credential \cup {NoCredential}]
  BY StoreAssumption DEF Init
<1>2. Cardinality(Stored) <= MAX_CREDENTIALS BY <1>1, StoreAssumption DEF Stored, Exists
<1>3. bound.faults \in Nat BY ApiBoundsAssumption DEF Init, bound
<1>4. TypeOK /\ audit_failures <= faults
  <2>1. policy \in [Refs \X Operations -> Effects] BY InputsAssumption DEF Init
  <2> QED BY <1>1, <1>2, <1>3, <2>1 DEF Init, TypeOK, Codes
<1>5. RowInv
  <2> SUFFICES ASSUME NEW c \in Refs, store[c] # NoCredential
               PROVE  /\ store[c].secret.for = store[c].provider
                      /\ store[c].secret.by = "earlier"
    BY DEF RowInv, Exists
  <2>1. store[c].secret = [for |-> store[c].provider, by |-> "earlier"] BY <1>1, StoreAssumption
  <2> QED BY <2>1
<1>6. SentInv BY DEF Init, SentInv
<1>7. ASSUME NEW r \in Requests PROVE KindInv(r) /\ EffectInv(r) /\ SecretInv(r)
  <2>1. /\ at[r] = "new" /\ req[r] = NoRequest /\ reply[r] = "none" /\ changed = {}
        /\ held[r] = {} /\ usable[r] = {}
    BY DEF Init
  <2>2. KindInv(r) BY <2>1 DEF KindInv
  <2>3. EffectInv(r) BY <2>1 DEF EffectInv
  <2>4. SecretInv(r) BY <2>1 DEF SecretInv, Running
  <2> QED BY <2>2, <2>3, <2>4
<1> QED BY <1>4, <1>5, <1>6, <1>7 DEF ApiInv

LEMMA NextApi == ApiInv /\ [Next]_vars => ApiInv'
<1> SUFFICES ASSUME ApiInv, [Next]_vars PROVE ApiInv' OBVIOUS
<1>1. CASE UNCHANGED vars
  <2>1. Stored' = Stored /\ bound' = bound BY <1>1 DEF vars, data, Stored, Exists, bound
  <2>2. TypeOK' /\ audit_failures' <= faults'
    BY <1>1, <2>1 DEF ApiInv, TypeOK, vars, data, trail, past, work
  <2>3. RowInv' /\ SentInv'
    BY <1>1 DEF ApiInv, RowInv, SentInv, Exists, vars, data, trail, past, work
  <2>4. ASSUME NEW q \in Requests PROVE KindInv(q)' /\ EffectInv(q)' /\ SecretInv(q)'
    BY <1>1 DEF ApiInv, KindInv, EffectInv, SecretInv, Running, Active, Exists, vars, data, trail, past, work
  <2> QED BY <2>2, <2>3, <2>4 DEF ApiInv
<1>2. ASSUME Next PROVE ApiInv'
  <2>1. world' = world BY <1>2 DEF Next
  <2>2. bound.asked \subseteq Inputs /\ bound.edited \subseteq Refs
    BY ApiBoundsAssumption DEF bound, ApiInv, TypeOK
  <2>3. CASE \E r \in Requests, i \in bound.asked : dispatch(r, i)
    <3>1. PICK r \in Requests, i \in bound.asked : dispatch(r, i) BY <2>3
    <3> QED BY <2>1, <2>2, <3>1, DispatchStep
  <2>4. ASSUME NEW r \in Requests, RequestStep(r) PROVE ApiInv'
    <3>1. CASE req[r].kind = "request" /\ require_audit_preflight(r, "load")
      BY <2>1, <3>1, PreflightStep
    <3>2. CASE req[r].kind \in Mutations /\ require_audit_preflight(r, "mutate")
      <4>1. req[r].kind # "request" BY <3>2 DEF Mutations
      <4> QED BY <2>1, <3>2, <4>1, PreflightStep
    <3> QED BY <2>1, <2>4, <3>1, <3>2, AuthorizeStep, MetadataStep, LoadStep, UpstreamStep, LookupStep,
               DiscoverStep, AdminStep, AdminReadStep, MutateStep, AuditStep DEF RequestStep
  <2>5. CASE \E c \in bound.edited, op \in Operations, effect \in Effects : policy_edit(c, op, effect)
    BY <2>1, <2>2, <2>5, PolicyEditStep
  <2>6. CASE \E C \in Catalogs : restart(C) BY <2>1, <2>6, RestartStep
  <2> QED BY <1>2, <2>3, <2>4, <2>5, <2>6 DEF Next
<1> QED BY <1>1, <1>2

\* A step that changes the table is a mutation that commits.
LEMMA StoreStep ==
  ASSUME ApiInv, Next, store' # store
  PROVE  \E r \in Requests : /\ at[r] = "mutate" /\ refused(req[r]) = "ok"
                              /\ store' = [store EXCEPT ![req[r].ref] = written(r, req[r])]
                              /\ changed' = changed \cup {r} /\ req' = req
<1>1. CASE \E r \in Requests, i \in bound.asked : dispatch(r, i) BY <1>1 DEF dispatch, data
<1>2. ASSUME NEW r \in Requests, RequestStep(r) PROVE mutate(r)
  <2>1. CASE \/ authorize(r) \/ read_metadata(r) \/ load_secret(r) \/ upstream_execute(r)
            \/ require_audit_preflight(r, "load") \/ require_audit_preflight(r, "mutate")
    BY <2>1 DEF authorize, read_metadata, load_secret, upstream_execute, require_audit_preflight, data
  <2>2. CASE lookup(r) \/ discover(r) \/ admin_start(r) \/ admin_read(r) \/ audit_result(r)
    BY <2>2 DEF lookup, discover, admin_start, admin_read, audit_result, data
  <2> QED BY <1>2, <2>1, <2>2 DEF RequestStep
<1>3. CASE \E c \in bound.edited, op \in Operations, effect \in Effects : policy_edit(c, op, effect)
  BY <1>3 DEF policy_edit
<1>4. CASE \E C \in Catalogs : restart(C) BY <1>4 DEF restart
<1>5. ASSUME NEW r \in Requests, mutate(r)
      PROVE  /\ at[r] = "mutate" /\ refused(req[r]) = "ok"
             /\ store' = [store EXCEPT ![req[r].ref] = written(r, req[r])]
             /\ changed' = changed \cup {r} /\ req' = req
  BY <1>5 DEF mutate, remember, work
<1> QED BY <1>1, <1>2, <1>3, <1>4, <1>5 DEF Next

\* A secret that goes with another generation, and nobody but UID 0: the step
\* behind GenerationsAdvance.
LEMMA GenerationStep ==
  ASSUME ApiInv, [Next]_vars, NEW c \in Refs, store[c] # store'[c]
  PROVE  /\ \E r \in changed' : req[r].ref = c /\ req[r].root
         /\ Exists(c) /\ store'[c] # NoCredential =>
              /\ store'[c].provider = store[c].provider
              /\ store'[c].generation = store[c].generation
                   + (IF store'[c].secret = store[c].secret THEN 0 ELSE 1)
<1>1. Next BY DEF vars, data
<1>2. PICK r \in Requests : /\ at[r] = "mutate" /\ refused(req[r]) = "ok"
                            /\ store' = [store EXCEPT ![req[r].ref] = written(r, req[r])]
                            /\ changed' = changed \cup {r}
  BY <1>1, StoreStep
<1> DEFINE row == written(r, req[r])
<1>3. /\ req[r].ref \in Refs /\ req[r].kind \in Mutations
      /\ req[r].kind = "delete" => row = NoCredential
      /\ req[r].kind = "provision" => ~Exists(req[r].ref)
      /\ req[r].kind \in {"rotate", "revoke"} => row.provider = store[req[r].ref].provider
      /\ req[r].kind = "rotate" =>
           /\ row.generation = store[req[r].ref].generation + 1 /\ row.secret.by = r
      /\ req[r].kind = "revoke" =>
           /\ row.generation = store[req[r].ref].generation
           /\ row.secret = store[req[r].ref].secret
  BY <1>2, WrittenRow
<1> HIDE DEF row
<1>4. req[r].ref = c /\ store'[c] = row BY <1>2, <1>3 DEF ApiInv, TypeOK, row
<1>5. req[r].root /\ r \in changed' /\ r \notin changed
  BY <1>2 DEF ApiInv, KindInv, EffectInv
<1>6. ASSUME Exists(c), row # NoCredential
      PROVE  /\ row.provider = store[c].provider
             /\ row.generation = store[c].generation + (IF row.secret = store[c].secret THEN 0 ELSE 1)
  <2>1. req[r].kind \in {"rotate", "revoke"} BY <1>3, <1>4, <1>6 DEF Mutations
  <2>2. store[c].generation \in Nat /\ store[c].secret.by # r
    <3>1. store[c] \in Credential BY <1>6 DEF ApiInv, TypeOK, Exists
    <3>2. store[c].secret.by \in changed \cup {"earlier"} BY <1>6 DEF ApiInv, RowInv
    <3> QED BY <1>5, <3>1, <3>2, StoreAssumption DEF Credential
  <2> QED BY <1>3, <1>4, <2>1, <2>2
<1> QED BY <1>4, <1>5, <1>6

-----------------------------------------------------------------------------
(***************************************************************************)
(* The theorems.                                                           *)
(***************************************************************************)
\* The inductive invariant holds throughout every behaviour of portus-apid
\* (dispatch_use, dispatch_admin and the CredentialStore they call).
THEOREM ApiInvariant == Spec => []ApiInv
BY InitApi, NextApi, PTL DEF Spec

\* A secret that upstream_execute sends was active for the request's reference
\* while the request ran, whatever administration, restart or fault interleaves
\* with the two store calls of the request, and it fits the definition read
\* under the first lock unless the reference was deleted in between.
THEOREM SecretsAreRight == Spec => []SecretIsRight
<1>1. ApiInv => SecretWasCurrent BY DEF ApiInv, SentInv, SecretWasCurrent
<1>2. ApiInv => SecretMatchesDefinition BY DEF ApiInv, SentInv, SecretMatchesDefinition
<1>3. ApiInv => SecretIsRight BY <1>1, <1>2 DEF SecretIsRight
<1> QED BY <1>3, ApiInvariant, PTL

\* Every use of a secret and every change of the table follows the preflight
\* record of its request (require_audit_preflight), also across faults.
THEOREM EffectsAreAudited == Spec => []AuditedBeforeEffect
<1>1. ASSUME ApiInv PROVE AuditedBeforeEffect
  <2>1. ASSUME NEW r \in changed PROVE r \in preflight
    <3>1. r \in Requests BY <1>1 DEF ApiInv, TypeOK
    <3> QED BY <1>1, <3>1 DEF ApiInv, EffectInv
  <2>2. ASSUME NEW u \in sent PROVE u.req \in preflight BY <1>1 DEF ApiInv, SentInv
  <2> QED BY <2>1, <2>2 DEF AuditedBeforeEffect
<1> QED BY <1>1, ApiInvariant, PTL

\* The table keeps its types and its limit, an administrator's answer tells
\* whether the change is durable, and a secret changes only with its generation
\* and only for UID 0 (provision, rotate, revoke and delete of CredentialStore).
THEOREM TableIsHonest == Spec => StoreIsHonest
<1>1. ASSUME ApiInv PROVE TypeOK /\ AnswerIsHonest
  <2>1. TypeOK BY <1>1 DEF ApiInv
  <2>2. ASSUME NEW r \in Requests
        PROVE  /\ reply[r] = "ok" /\ req[r].kind \in Mutations => r \in changed
               /\ reply[r] \notin {"none", "ok", "store_unavailable"} => r \notin changed
    <3>1. EffectInv(r) BY <1>1 DEF ApiInv
    <3> QED BY <3>1 DEF EffectInv
  <2> QED BY <2>1, <2>2 DEF AnswerIsHonest
<1>2. ApiInv /\ [Next]_vars =>
        [\A c \in Refs :
           store[c] # store'[c] =>
             /\ \E r \in changed' : req[r].ref = c /\ req[r].root
             /\ Exists(c) /\ store'[c] # NoCredential =>
                  /\ store'[c].provider = store[c].provider
                  /\ store'[c].generation = store[c].generation
                       + (IF store'[c].secret = store[c].secret THEN 0 ELSE 1)]_vars
  BY GenerationStep
<1> QED BY <1>1, <1>2, ApiInvariant, PTL DEF StoreIsHonest, GenerationsAdvance, Spec
=============================================================================
