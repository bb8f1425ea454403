-------------------------- MODULE RegistryProofs --------------------------
(***************************************************************************)
(* Theorems about provider registrations and their resource references,    *)
(* for every set of types, manifests, users and browser sessions and every *)
(* page limit; and about the artifacts registered next to them, for every  *)
(* set of callers, requests, paths, contents and tasks.                    *)
(*                                                                         *)
(* The first half is about ProviderRegistry alone.  The second half is     *)
(* about its composition with ArtifactRegistry, and rests on the first:    *)
(* the invariant of the registry is a conjunct of the artifacts' own.      *)
(***************************************************************************)
EXTENDS ArtifactRegistry, FiniteSetTheorems, WellFoundedInduction, TLAPS

---------------------------------------------------------------------------
\* What the columns of the tables hold.

InterfaceIds == UNION {{i.id : i \in Range(Manifests[m].interfaces)} : m \in DOMAIN Manifests}
CapabilityIds == UNION {{c.id : c \in Range(Manifests[m].capabilities)} : m \in DOMAIN Manifests}
ResourceTypes == UNION {Range(Manifests[m].resources) : m \in DOMAIN Manifests}
Contracts == {Manifests[m].health : m \in DOMAIN Manifests}
                \cup {[kind |-> "none", reference |-> "none"]}
Checked == {"structured-cli", "unix-socket", "protocol-heartbeat"}
Healths == {"healthy", "degraded", "unavailable", "unknown"}
CapabilityRows == [links : SUBSET InterfaceIds,
                   availability : {"available", "degraded", "unavailable", "unknown"}]

RegRows == [type : Types, removed : BOOLEAN, successor : Nat,
         compatibility : {"compatible", "incompatible", "unknown"}, health : Healths,
         interfaces : SUBSET InterfaceIds,
         capabilities : UNION {[S -> CapabilityRows] : S \in SUBSET CapabilityIds},
         resource_types : SUBSET ResourceTypes, health_contract : Contracts]

Refs == [provider : Nat, owner : Users, id : BrowserIds, generation : Nat,
         availability : Live \cup {"stale", "removed"}]

Sessions == [id : BrowserIds, generation : Nat, connected : BOOLEAN]
OnePerId(S) == \A s, t \in S : s.id = t.id => s = t

---------------------------------------------------------------------------
(***************************************************************************)
(* The inductive invariant.                                                *)
(***************************************************************************)
\* An active registration is the latest of its type.
ActiveIsLast ==
    \A p \in ActiveIds, q \in DOMAIN regs : regs[p].type = regs[q].type => q <= p

\* A successor is the next registration of the type; a tombstone that has none
\* is the latest registration of its type.
ChainInv ==
    \A p, q \in DOMAIN regs : regs[p].type = regs[q].type /\ p < q =>
        /\ regs[p].removed => regs[p].successor # 0
        /\ regs[p].successor # 0 => regs[p].successor <= q

SuccessorInv ==
    \A p \in DOMAIN regs : regs[p].successor # 0 =>
        /\ regs[p].successor \in DOMAIN regs /\ p < regs[p].successor
        /\ regs[regs[p].successor].type = regs[p].type

RowsInv == regs \in Seq(RegRows) /\ ActiveIsLast /\ ChainInv /\ SuccessorInv /\ DetailsFitTogether

RefsInv ==
    /\ refs \subseteq Refs
    /\ \A r \in refs : r.provider \in DOMAIN regs
    /\ NothingRevives

WorldInv ==
    /\ dir \in [state : {"trusted", "untrusted"}, files : [Types -> DOMAIN Manifests \cup {NoFile}]]
    /\ browser \in [broker : {"stopped", "running", "other_protocol"}, sessions : SUBSET Sessions,
                    past : SUBSET [id : BrowserIds, generation : Nat]]
    /\ IsFiniteSet(browser.past)
    /\ OnePerId(browser.sessions)

Broker == {"stopped", "running", "other_protocol", "unavailable", "garbled"}

\* A probe is of a registration that exists; it lists a session only once.
ProbeInv ==
    \/ probe = NoProbe
    \/ /\ probe \in [stage : {"broker"}, provider : Nat, owner : Users, broker : Broker]
       /\ probe.provider \in DOMAIN regs
    \/ /\ probe \in [stage : {"listed"}, provider : Nat, owner : Users, broker : Broker,
                     list : [readable : BOOLEAN, sessions : SUBSET Sessions]]
       /\ probe.provider \in DOMAIN regs
       /\ OnePerId(probe.list.sessions)

\* A reconciliation has only validated manifests left to register, and the
\* types it has passed have an active registration.
JobInv ==
    \/ job = Idle
    \/ job = [op |-> "apply"] /\ probe.stage = "listed"
    \/ /\ job \in [op : {"reconcile"}, todo : SUBSET Types,
                   found : [Types -> DOMAIN Manifests \cup {NoFile}]]
       /\ \A t \in job.todo : job.found[t] # NoFile /\ validate(t, Manifests[job.found[t]])
       /\ \A t \in Types : job.found[t] # NoFile /\ t \notin job.todo =>
             \E p \in ActiveIds : regs[p].type = t

StatusInv ==
    /\ registry \in [health : {"unknown", "healthy", "degraded"}, active_count : Nat]
    /\ job.op # "reconcile" /\ registry.health # "unknown" =>
          registry.active_count = Cardinality(ActiveIds)

\* What the client of a listing has not seen yet comes after its cursor.
PagerInv ==
    /\ pager \in [open : BOOLEAN, cursor : Nat, seen : SUBSET Nat, steady : SUBSET Nat,
                  done : BOOLEAN]
    /\ pager.steady \subseteq DOMAIN regs
    /\ pager.done => ~pager.open /\ pager.steady \cap ActiveIds \subseteq pager.seen
    /\ pager.open => \A p \in pager.steady \cap ActiveIds : p \in pager.seen \/ p > pager.cursor

ProvInv ==
    RowsInv /\ RefsInv /\ WorldInv /\ ProbeInv /\ JobInv /\ StatusInv /\ PagerInv

---------------------------------------------------------------------------
(***************************************************************************)
(* Lemmas about the operators of the model.                                *)
(***************************************************************************)
LEMMA ActiveIdsFinite ==
    ASSUME regs \in Seq(RegRows)
    PROVE  /\ ActiveIds \subseteq 1 .. Len(regs) /\ IsFiniteSet(ActiveIds)
           /\ Cardinality(ActiveIds) \in Nat
<1>1. ActiveIds \subseteq 1 .. Len(regs) /\ Len(regs) \in Nat  BY DEF ActiveIds
<1>2. IsFiniteSet(1 .. Len(regs))  BY <1>1, FS_Interval
<1>3. IsFiniteSet(ActiveIds)  BY <1>1, <1>2, FS_Subset
<1> QED BY <1>1, <1>3, FS_CardinalityType

\* A nonempty set of numbers up to n has a greatest element.
LEMMA Greatest ==
    ASSUME NEW n \in Nat, NEW S \in SUBSET (1 .. n), S # {}
    PROVE  \E p \in S : \A q \in S : q <= p
<1> DEFINE D == {n - q : q \in S}
<1>1. D \subseteq Nat /\ D # {}
  <2>1. \A q \in S : q \in 1 .. n  OBVIOUS
  <2>2. \A q \in S : n - q \in Nat  BY <2>1
  <2>3. PICK q \in S : TRUE  OBVIOUS
  <2> QED BY <2>2, <2>3
<1> DEFINE R == OpToRel(<, Nat)
<1>2. IsWellFoundedOn(R, Nat)  BY NatLessThanWellFounded
<1>3. PICK d \in D : \A e \in D : <<e, d>> \notin R  BY <1>1, <1>2, WFMin
<1>4. PICK p \in S : d = n - p  BY <1>3
<1>5. ASSUME NEW q \in S PROVE q <= p
  <2>1. n - q \in D /\ n - q \in Nat /\ d \in Nat  BY <1>1
  <2>2. <<n - q, d>> \notin R  BY <2>1, <1>3
  <2>3. ~(n - q < d)  BY <2>1, <2>2 DEF OpToRel
  <2> QED BY <2>1, <2>3, <1>4
<1> QED BY <1>5

\* Likewise a least one.
LEMMA Least ==
    ASSUME NEW S \in SUBSET Nat, S # {}
    PROVE  \E p \in S : \A q \in S : p <= q
<1> DEFINE R == OpToRel(<, Nat)
<1>1. IsWellFoundedOn(R, Nat)  BY NatLessThanWellFounded
<1>2. PICK p \in S : \A q \in S : <<q, p>> \notin R  BY <1>1, WFMin
<1>3. \A q \in S : ~(q < p)  BY <1>2 DEF OpToRel
<1> QED BY <1>3

\* The detail rows of a validated manifest fit together, and replacing them
\* leaves the identity of the registration alone.
LEMMA FilledRow ==
    ASSUME NEW row \in RegRows, NEW t \in Types, NEW f \in DOMAIN Manifests,
           validate(t, Manifests[f]),
           NEW new, new = replace_provider_details(to_system_registration_spec(t, row), Manifests[f])
    PROVE  /\ new \in RegRows
           /\ new.type = row.type /\ new.removed = row.removed /\ new.successor = row.successor
           /\ \A c \in DOMAIN new.capabilities : new.capabilities[c].links \subseteq new.interfaces
           /\ new.health_contract.kind \in Checked =>
                 new.health_contract.reference \in new.interfaces
<1> DEFINE m == Manifests[f]
           ids == {i.id : i \in Range(m.interfaces)}
           names == {c.id : c \in Range(m.capabilities)}
           caps == [id \in names |->
                [links |-> UNION {Range(c.interfaces) : c \in {d \in Range(m.capabilities) : d.id = id}},
                 availability |-> "unknown"]]
<1>1. ids \in SUBSET InterfaceIds  BY DEF InterfaceIds
<1>2. names \in SUBSET CapabilityIds  BY DEF CapabilityIds
<1>3. \A id \in names : caps[id].links \subseteq ids
  <2>1. \A c \in Range(m.capabilities) : Range(c.interfaces) \subseteq ids
    BY DEF validate, validate_capability
  <2> HIDE DEF ids
  <2> QED BY <2>1
<1>4. caps \in [names -> CapabilityRows]
  <2>1. ASSUME NEW id \in names PROVE caps[id] \in CapabilityRows
    <3>1. caps[id].links \in SUBSET InterfaceIds  BY <1>1, <1>3
    <3> QED BY <3>1 DEF CapabilityRows
  <2> QED BY <2>1
<1>5. caps \in UNION {[S -> CapabilityRows] : S \in SUBSET CapabilityIds}  BY <1>2, <1>4
<1>6. Range(m.resources) \in SUBSET ResourceTypes  BY DEF ResourceTypes
<1>7. m.health \in Contracts  BY DEF Contracts
<1>8. m.health.kind \in Checked => m.health.reference \in ids
  BY DEF validate, validate_health, Checked
<1>9. new = [row EXCEPT !.compatibility = "unknown", !.health = "unknown", !.interfaces = ids,
                !.capabilities = caps, !.resource_types = Range(m.resources), !.health_contract = m.health]
  BY DEF replace_provider_details, to_system_registration_spec
<1> HIDE DEF m, ids, names, caps
<1>10. new \in RegRows  BY <1>1, <1>5, <1>6, <1>7, <1>9 DEF RegRows, Healths
<1>11. /\ new.type = row.type /\ new.removed = row.removed /\ new.successor = row.successor
       /\ new.capabilities = caps /\ new.interfaces = ids /\ new.health_contract = m.health
  BY <1>9 DEF RegRows
<1>12. DOMAIN caps = names  BY DEF caps
<1> QED BY <1>3, <1>8, <1>10, <1>11, <1>12

\* A row changed in place: the identity of every registration stays.
SameIdentity(row, new) ==
    /\ new.type = row.type /\ new.removed = row.removed /\ new.successor = row.successor

Fits(row) ==
    /\ \A c \in DOMAIN row.capabilities : row.capabilities[c].links \subseteq row.interfaces
    /\ row.health_contract.kind \in Checked => row.health_contract.reference \in row.interfaces

LEMMA FitsIsDetails ==
    DetailsFitTogether <=> \A p \in DOMAIN regs : Fits(regs[p])
BY DEF DetailsFitTogether, Fits, Checked

LEMMA FitsIsDetailsNext ==
    DetailsFitTogether' <=> \A p \in DOMAIN regs' : Fits(regs'[p])
BY DEF DetailsFitTogether, Fits, Checked

LEMMA UpdateInPlace ==
    ASSUME RowsInv, NEW p \in DOMAIN regs, NEW row \in RegRows,
           SameIdentity(regs[p], row), Fits(row), regs' = [regs EXCEPT ![p] = row]
    PROVE  RowsInv' /\ ActiveIds' = ActiveIds
           /\ \A q \in DOMAIN regs : regs'[q].type = regs[q].type
<1>1. regs' \in Seq(RegRows) /\ DOMAIN regs' = DOMAIN regs /\ Len(regs') = Len(regs)
  BY DEF RowsInv
<1>2. \A q \in DOMAIN regs : SameIdentity(regs[q], regs'[q])
  BY DEF SameIdentity
<1>3. \A q \in DOMAIN regs : Fits(regs'[q])
  BY FitsIsDetails DEF RowsInv
<1>4. ActiveIds' = ActiveIds
  BY <1>1, <1>2 DEF ActiveIds, SameIdentity
<1>5. ActiveIsLast'
  BY <1>1, <1>2, <1>4 DEF RowsInv, ActiveIsLast, SameIdentity, ActiveIds
<1>6. ChainInv'
  BY <1>1, <1>2 DEF RowsInv, ChainInv, SameIdentity
<1>7. SuccessorInv'
  <2>1. ASSUME NEW q \in DOMAIN regs', regs'[q].successor # 0
        PROVE  /\ regs'[q].successor \in DOMAIN regs' /\ q < regs'[q].successor
               /\ regs'[regs'[q].successor].type = regs'[q].type
    <3>1. regs[q].successor # 0 /\ regs'[q].successor = regs[q].successor
      BY <2>1, <1>1, <1>2 DEF SameIdentity
    <3>2. regs[q].successor \in DOMAIN regs /\ q < regs[q].successor
          /\ regs[regs[q].successor].type = regs[q].type
      BY <3>1, <1>1 DEF RowsInv, SuccessorInv
    <3> QED BY <3>1, <3>2, <1>1, <1>2 DEF SameIdentity
  <2> QED BY <2>1 DEF SuccessorInv
<1> QED BY <1>1, <1>2, <1>3, <1>4, <1>5, <1>6, <1>7, FitsIsDetailsNext DEF RowsInv, SameIdentity

\* LinkSuccessor changes only the latest tombstone of the type, which then
\* names the registration that is about to be appended.
LEMMA LinkedRows ==
    ASSUME RowsInv, NEW t \in Types, active_provider_id(t) = {},
           NEW rows, rows = LinkSuccessor(regs, t, Len(regs) + 1)
    PROVE  /\ rows \in Seq(RegRows) /\ Len(rows) = Len(regs)
           /\ \A p \in DOMAIN regs :
                /\ rows[p].type = regs[p].type /\ rows[p].removed = regs[p].removed
                /\ Fits(rows[p])
                /\ rows[p].successor =
                     IF regs[p].type = t /\ regs[p].successor = 0 THEN Len(regs) + 1
                     ELSE regs[p].successor
<1> DEFINE open == {p \in DOMAIN regs : regs[p].removed /\ regs[p].type = t /\ regs[p].successor = 0}
           last == CHOOSE p \in open : \A q \in open : q <= p
<1>0. DOMAIN regs = 1 .. Len(regs) /\ Len(regs) \in Nat /\ \A p \in DOMAIN regs : regs[p] \in RegRows
  BY DEF RowsInv
<1>1. \A p \in DOMAIN regs : regs[p].type = t /\ regs[p].successor = 0 <=> p \in open
  BY <1>0 DEF active_provider_id, ActiveIds, RegRows
<1>2. \A p, q \in open : p = q
  <2>1. ASSUME NEW p \in open, NEW q \in open, p < q PROVE FALSE
    BY <2>1 DEF RowsInv, ChainInv
  <2> QED BY <2>1, <1>0
<1>3. \A p \in DOMAIN regs : Fits(regs[p])  BY FitsIsDetails DEF RowsInv
<1>4. CASE open = {}
  <2>1. rows = regs  BY <1>4 DEF LinkSuccessor
  <2> QED BY <2>1, <1>0, <1>1, <1>3, <1>4 DEF RowsInv
<1>5. CASE open # {}
  <2>1. PICK p \in open : open = {p}  BY <1>5, <1>2
  <2>2. last = p
    <3>1. \A q \in open : q <= p  BY <2>1, <1>0
    <3>2. last \in open  BY <3>1
    <3> QED BY <3>2, <2>1
  <2>3. rows = [regs EXCEPT ![p].successor = Len(regs) + 1]
    BY <1>5, <2>2 DEF LinkSuccessor
  <2> HIDE DEF last, open
  <2>4. p \in DOMAIN regs  BY <2>1 DEF open
  <2>5. [regs[p] EXCEPT !.successor = Len(regs) + 1] \in RegRows
    BY <1>0, <2>4 DEF RegRows
  <2>6. rows \in Seq(RegRows) /\ Len(rows) = Len(regs) /\ DOMAIN rows = DOMAIN regs
    BY <2>3, <2>4, <2>5, <1>0 DEF RowsInv
  <2>7. \A q \in DOMAIN regs \ {p} : rows[q] = regs[q]  BY <2>3, <2>4
  <2>8. rows[p] = [regs[p] EXCEPT !.successor = Len(regs) + 1]  BY <2>3, <2>4
  <2>9. /\ rows[p].type = regs[p].type /\ rows[p].removed = regs[p].removed
        /\ rows[p].successor = Len(regs) + 1
        /\ rows[p].capabilities = regs[p].capabilities /\ rows[p].interfaces = regs[p].interfaces
        /\ rows[p].health_contract = regs[p].health_contract
    BY <2>8, <1>0, <2>4 DEF RegRows
  <2>10. Fits(rows[p])  BY <2>9, <2>4, <1>3 DEF Fits
  <2> QED BY <2>1, <2>4, <2>6, <2>7, <2>9, <2>10, <1>1, <1>3
<1> QED BY <1>4, <1>5

\* Registering a validated manifest keeps the tables consistent, leaves the
\* type with an active registration and changes the activity of no other row.
LEMMA Registered ==
    ASSUME RowsInv, NEW t \in Types, NEW f \in DOMAIN Manifests, validate(t, Manifests[f]),
           reconcile_provider_registration(t, Manifests[f])
    PROVE  /\ RowsInv'
           /\ ActiveIds \subseteq ActiveIds'
           /\ ActiveIds' \cap DOMAIN regs = ActiveIds
           /\ DOMAIN regs \subseteq DOMAIN regs'
           /\ \A p \in DOMAIN regs : regs'[p].type = regs[p].type /\ regs'[p].removed = regs[p].removed
           /\ \E p \in ActiveIds' : regs'[p].type = t
<1> DEFINE Filled(row) == replace_provider_details(to_system_registration_spec(t, row), Manifests[f])
<1>0. DOMAIN regs = 1 .. Len(regs) /\ Len(regs) \in Nat /\ \A p \in DOMAIN regs : regs[p] \in RegRows
  BY DEF RowsInv
<1>1. CASE active_provider_id(t) # {}
  <2>1. PICK p \in active_provider_id(t) : regs' = [regs EXCEPT ![p] = Filled(regs[p])]
    BY <1>1 DEF reconcile_provider_registration
  <2>2. p \in DOMAIN regs /\ p \in ActiveIds /\ regs[p].type = t  BY DEF active_provider_id, ActiveIds
  <2>3. Filled(regs[p]) \in RegRows /\ SameIdentity(regs[p], Filled(regs[p])) /\ Fits(Filled(regs[p]))
    BY <1>0, <2>2, FilledRow DEF SameIdentity, Fits
  <2> HIDE DEF Filled
  <2>4. /\ RowsInv' /\ ActiveIds' = ActiveIds
        /\ \A q \in DOMAIN regs : regs'[q].type = regs[q].type
    BY <2>1, <2>2, <2>3, UpdateInPlace
  <2>5. DOMAIN regs' = DOMAIN regs  BY <2>1
  <2>6. \A q \in DOMAIN regs : regs'[q].removed = regs[q].removed
    BY <2>1, <2>3 DEF SameIdentity
  <2>7. ActiveIds \subseteq DOMAIN regs  BY DEF ActiveIds
  <2>8. \E q \in ActiveIds' : regs'[q].type = t  BY <2>2, <2>4
  <2> QED BY <2>4, <2>5, <2>6, <2>7, <2>8
<1>2. CASE active_provider_id(t) = {}
  <2> DEFINE rows == LinkSuccessor(regs, t, Len(regs) + 1)
             row == Filled(NewRow(t))
             new == Len(regs) + 1
  <2>1. regs' = Append(rows, row)  BY <1>2 DEF reconcile_provider_registration
  <2>2. NewRow(t) \in RegRows
    <3>1. <<>> \in [{} -> CapabilityRows]  OBVIOUS
    <3>2. <<>> \in UNION {[S -> CapabilityRows] : S \in SUBSET CapabilityIds}  BY <3>1
    <3>3. [kind |-> "none", reference |-> "none"] \in Contracts  BY DEF Contracts
    <3> QED BY <3>2, <3>3 DEF RegRows, Healths, NewRow
  <2>4. /\ row \in RegRows /\ row.type = t /\ ~row.removed /\ row.successor = 0 /\ Fits(row)
    <3>1. NewRow(t).type = t /\ NewRow(t).removed = FALSE /\ NewRow(t).successor = 0  BY DEF NewRow
    <3>2. /\ row \in RegRows /\ row.type = NewRow(t).type /\ row.removed = NewRow(t).removed
          /\ row.successor = NewRow(t).successor /\ Fits(row)
      BY <2>2, FilledRow DEF Fits
    <3> QED BY <3>1, <3>2
  <2>5. /\ rows \in Seq(RegRows) /\ Len(rows) = Len(regs)
        /\ \A p \in DOMAIN regs :
             /\ rows[p].type = regs[p].type /\ rows[p].removed = regs[p].removed
             /\ Fits(rows[p])
             /\ rows[p].successor =
                  IF regs[p].type = t /\ regs[p].successor = 0 THEN Len(regs) + 1
                  ELSE regs[p].successor
    BY <1>2, LinkedRows
  <2> HIDE DEF rows, row, Filled
  <2>6. /\ regs' \in Seq(RegRows) /\ DOMAIN regs' = 1 .. new /\ regs'[new] = row
        /\ \A p \in DOMAIN regs : regs'[p] = rows[p]
        /\ new \in Nat /\ new \notin DOMAIN regs
    BY <1>0, <2>1, <2>4, <2>5
  <2>7. DOMAIN regs' = DOMAIN regs \cup {new} /\ \A p \in DOMAIN regs : p < new
    BY <1>0, <2>6
  <2> HIDE DEF new
  <2>8. \A p \in DOMAIN regs : regs'[p].type = regs[p].type /\ regs'[p].removed = regs[p].removed
    BY <2>5, <2>6
  <2>9. ActiveIds' = ActiveIds \cup {new}
    BY <2>4, <2>6, <2>7, <2>8 DEF ActiveIds
  <2>10. \A p \in DOMAIN regs : regs[p].type = t => p \notin ActiveIds
    BY <1>2 DEF active_provider_id
  <2>11. ActiveIsLast'
    <3> SUFFICES ASSUME NEW p \in ActiveIds', NEW q \in DOMAIN regs', regs'[p].type = regs'[q].type
                 PROVE  q <= p
      BY DEF ActiveIsLast
    <3>1. p \in Nat /\ q \in Nat  BY <2>6, <2>7, <2>9, <1>0 DEF ActiveIds
    <3>2. CASE p = new  BY <3>1, <3>2, <2>7
    <3>3. CASE p # new
      <4>1. p \in ActiveIds /\ p \in DOMAIN regs  BY <3>3, <2>9 DEF ActiveIds
      <4>2. q # new  BY <4>1, <2>4, <2>6, <2>8, <2>10
      <4>3. q \in DOMAIN regs  BY <4>2, <2>7
      <4> QED BY <4>1, <4>3, <2>8 DEF RowsInv, ActiveIsLast
    <3> QED BY <3>2, <3>3
  <2>12. ChainInv'
    <3> SUFFICES ASSUME NEW p \in DOMAIN regs', NEW q \in DOMAIN regs',
                        regs'[p].type = regs'[q].type, p < q
                 PROVE  /\ regs'[p].removed => regs'[p].successor # 0
                        /\ regs'[p].successor # 0 => regs'[p].successor <= q
      BY DEF ChainInv
    <3>1. p \in Nat /\ q \in Nat /\ q <= new /\ p \in DOMAIN regs
      BY <2>6, <2>7, <1>0, SMTT(30)
    <3>2. regs'[p].type = regs[p].type /\ regs'[p].removed = regs[p].removed /\ regs[p].successor \in Nat
          /\ regs'[p].successor = IF regs[p].type = t /\ regs[p].successor = 0 THEN new
                                  ELSE regs[p].successor
      BY <3>1, <2>5, <2>6, <2>8, <1>0 DEF RegRows, new
    <3>3. CASE q = new
      <4>1. regs[p].type = t  BY <3>2, <3>3, <2>4, <2>6
      <4>2. regs[p].successor # 0 => regs[p].successor < new
        BY <3>1, <2>7 DEF RowsInv, SuccessorInv
      <4> QED BY <3>1, <3>2, <3>3, <4>1, <4>2, <2>6, <2>7
    <3>4. CASE q # new
      <4>1. q \in DOMAIN regs /\ regs'[q].type = regs[q].type  BY <3>4, <2>7, <2>8
      <4>2. /\ regs[p].removed => regs[p].successor # 0
            /\ regs[p].successor # 0 => regs[p].successor <= q
        BY <3>1, <3>2, <4>1 DEF RowsInv, ChainInv
      <4>3. regs[p].type = t => regs[p].successor # 0
        <5>1. regs[p].type = t => p \notin ActiveIds  BY <3>1, <2>10
        <5>2. p \notin ActiveIds => regs[p].removed  BY <3>1, <1>0 DEF ActiveIds, RegRows
        <5> QED BY <5>1, <5>2, <4>2
      <4>4. regs'[p].successor = regs[p].successor  BY <3>2, <4>3
      <4> QED BY <3>2, <4>2, <4>4
    <3> QED BY <3>3, <3>4
  <2>13. SuccessorInv'
    <3> SUFFICES ASSUME NEW p \in DOMAIN regs', regs'[p].successor # 0
                 PROVE  /\ regs'[p].successor \in DOMAIN regs' /\ p < regs'[p].successor
                        /\ regs'[regs'[p].successor].type = regs'[p].type
      BY DEF SuccessorInv
    <3>1. p \in DOMAIN regs  BY <2>4, <2>6, <2>7
    <3>2. regs'[p].successor = IF regs[p].type = t /\ regs[p].successor = 0 THEN new
                               ELSE regs[p].successor
      BY <3>1, <2>5, <2>6 DEF new
    <3>3. CASE regs[p].type = t /\ regs[p].successor = 0
      BY <3>1, <3>2, <3>3, <2>4, <2>6, <2>7, <2>8
    <3>4. CASE ~(regs[p].type = t /\ regs[p].successor = 0)
      <4>1. regs'[p].successor = regs[p].successor  BY <3>2, <3>4
      <4>2. /\ regs[p].successor \in DOMAIN regs /\ p < regs[p].successor
            /\ regs[regs[p].successor].type = regs[p].type
        BY <3>1, <4>1 DEF RowsInv, SuccessorInv
      <4> QED BY <4>1, <4>2, <3>1, <2>7, <2>8
    <3> QED BY <3>3, <3>4
  <2>14. DetailsFitTogether'
    <3>1. \A p \in DOMAIN regs' : Fits(regs'[p])  BY <2>4, <2>5, <2>6, <2>7
    <3> QED BY <3>1, FitsIsDetailsNext
  <2>15. \E p \in ActiveIds' : regs'[p].type = t  BY <2>4, <2>6, <2>9
  <2>16. ActiveIds' \cap DOMAIN regs = ActiveIds  BY <2>6, <2>9 DEF ActiveIds
  <2> QED BY <2>6, <2>7, <2>8, <2>9, <2>11, <2>12, <2>13, <2>14, <2>15, <2>16 DEF RowsInv
<1> QED BY <1>1, <1>2

Staled(R, G) == {IF r \in G THEN [r EXCEPT !.availability = "stale"] ELSE r : r \in R}

\* Making some references stale changes neither what they name nor brings one
\* to life.
LEMMA StaledRefs ==
    ASSUME NEW R \in SUBSET Refs, NEW G
    PROVE  /\ Staled(R, G) \subseteq Refs
           /\ \A s \in Staled(R, G) : \E r \in R :
                /\ s.provider = r.provider /\ s.owner = r.owner /\ s.id = r.id
                /\ s.generation = r.generation
                /\ s.availability \in Live => s = r /\ r \notin G
<1>1. ASSUME NEW r \in R PROVE
        LET s == IF r \in G THEN [r EXCEPT !.availability = "stale"] ELSE r
        IN  /\ s \in Refs
            /\ s.provider = r.provider /\ s.owner = r.owner /\ s.id = r.id
            /\ s.generation = r.generation
            /\ s.availability \in Live => s = r /\ r \notin G
  <2>1. r \in Refs  OBVIOUS
  <2>2. CASE r \in G  BY <2>1, <2>2 DEF Refs, Live
  <2>3. CASE r \notin G  BY <2>1, <2>3
  <2> QED BY <2>2, <2>3
<1> QED BY <1>1 DEF Staled

\* Removing the providers without a manifest keeps the tables consistent: the
\* chain has room for a successor, and the references of a removed provider die.
LEMMA TombstonedRows ==
    ASSUME RowsInv, RefsInv, NEW seen \in SUBSET Types, tombstone_missing_system_providers(seen)
    PROVE  /\ RowsInv' /\ RefsInv'
           /\ DOMAIN regs' = DOMAIN regs
           /\ \A p \in DOMAIN regs : regs'[p].type = regs[p].type
           /\ ActiveIds' = {p \in ActiveIds : regs[p].type \in seen}
<1> DEFINE gone == {p \in ActiveIds : regs[p].type \notin seen}
<1>0. DOMAIN regs = 1 .. Len(regs) /\ Len(regs) \in Nat /\ \A p \in DOMAIN regs : regs[p] \in RegRows
  BY DEF RowsInv
<1>1. regs' = [p \in DOMAIN regs |-> IF p \in gone THEN Tombstoned(regs[p]) ELSE regs[p]]
  BY DEF tombstone_missing_system_providers
<1>2. \A p \in DOMAIN regs : Fits(regs[p])  BY FitsIsDetails DEF RowsInv
<1> HIDE DEF gone
<1>3. \A p \in DOMAIN regs :
         /\ regs'[p] \in RegRows /\ regs'[p].type = regs[p].type
         /\ regs'[p].successor = regs[p].successor /\ Fits(regs'[p])
  <2> SUFFICES ASSUME NEW p \in DOMAIN regs
               PROVE  /\ regs'[p] \in RegRows /\ regs'[p].type = regs[p].type
                      /\ regs'[p].successor = regs[p].successor /\ Fits(regs'[p])
    OBVIOUS
  <2>1. CASE p \notin gone  BY <2>1, <1>0, <1>1, <1>2
  <2>2. CASE p \in gone
    <3>1. regs'[p] = [regs[p] EXCEPT !.removed = TRUE, !.health = "unavailable"]
      BY <2>2, <1>1 DEF Tombstoned
    <3>2. /\ regs'[p] \in RegRows /\ regs'[p].type = regs[p].type
          /\ regs'[p].successor = regs[p].successor
          /\ regs'[p].capabilities = regs[p].capabilities
          /\ regs'[p].interfaces = regs[p].interfaces
          /\ regs'[p].health_contract = regs[p].health_contract
      BY <1>0, <3>1 DEF RegRows, Healths
    <3> QED BY <3>2, <1>2 DEF Fits
  <2> QED BY <2>1, <2>2
<1>4. \A p \in DOMAIN regs : regs'[p].removed <=> regs[p].removed \/ p \in gone
  <2> SUFFICES ASSUME NEW p \in DOMAIN regs
               PROVE  regs'[p].removed <=> regs[p].removed \/ p \in gone
    OBVIOUS
  <2>1. CASE p \notin gone  BY <2>1, <1>1
  <2>2. CASE p \in gone
    <3>1. regs'[p] = [regs[p] EXCEPT !.removed = TRUE, !.health = "unavailable"]
      BY <2>2, <1>1 DEF Tombstoned
    <3>2. regs'[p].removed = TRUE  BY <3>1, <1>0 DEF RegRows
    <3> QED BY <2>2, <3>2
  <2> QED BY <2>1, <2>2
<1>5. DOMAIN regs' = DOMAIN regs  BY <1>1
<1>6. regs' \in Seq(RegRows)
  <2>1. regs' \in [1 .. Len(regs) -> RegRows]  BY <1>0, <1>1, <1>3
  <2> QED BY <2>1, <1>0
<1>7. ActiveIds' = ActiveIds \ gone  BY <1>4, <1>5 DEF ActiveIds
<1>8. ActiveIsLast'  BY <1>3, <1>5, <1>7 DEF RowsInv, ActiveIsLast, ActiveIds
<1>9. ChainInv'
  <2> SUFFICES ASSUME NEW p \in DOMAIN regs, NEW q \in DOMAIN regs,
                      regs'[p].type = regs'[q].type, p < q
               PROVE  /\ regs'[p].removed => regs'[p].successor # 0
                      /\ regs'[p].successor # 0 => regs'[p].successor <= q
    BY <1>5 DEF ChainInv
  <2>1. regs[p].type = regs[q].type /\ regs'[p].successor = regs[p].successor  BY <1>3
  <2>2. p \in ActiveIds => q <= p  BY <2>1 DEF RowsInv, ActiveIsLast
  <2>3. p \notin ActiveIds  BY <2>2, <1>0
  <2>4. p \notin gone  BY <2>3 DEF gone
  <2>5. regs'[p].removed <=> regs[p].removed  BY <2>4, <1>4
  <2> QED BY <2>1, <2>5 DEF RowsInv, ChainInv
<1>10. SuccessorInv'
  <2> SUFFICES ASSUME NEW p \in DOMAIN regs, regs'[p].successor # 0
               PROVE  /\ regs'[p].successor \in DOMAIN regs /\ p < regs'[p].successor
                      /\ regs'[regs'[p].successor].type = regs'[p].type
    BY <1>5 DEF SuccessorInv
  <2>1. regs'[p].successor = regs[p].successor /\ regs[p].successor # 0  BY <1>3
  <2>2. /\ regs[p].successor \in DOMAIN regs /\ p < regs[p].successor
        /\ regs[regs[p].successor].type = regs[p].type
    BY <2>1 DEF RowsInv, SuccessorInv
  <2> QED BY <2>1, <2>2, <1>3
<1>11. DetailsFitTogether'  BY <1>3, <1>5, FitsIsDetailsNext
<1>12. RefsInv'
  <2> DEFINE G == {r \in refs : r.provider \in gone /\ r.availability # "removed"}
  <2>1. refs' = Staled(refs, G)
    BY DEF tombstone_missing_system_providers, gone, Staled
  <2>2. refs \in SUBSET Refs  BY DEF RefsInv
  <2> HIDE DEF G
  <2>3. /\ refs' \subseteq Refs
        /\ \A s \in refs' : \E r \in refs :
             /\ s.provider = r.provider /\ s.owner = r.owner /\ s.id = r.id
             /\ s.generation = r.generation
             /\ s.availability \in Live => s = r /\ r \notin G
    BY <2>1, <2>2, StaledRefs
  <2>4. \A s \in refs' : s.provider \in DOMAIN regs'
    BY <2>3, <1>5 DEF RefsInv
  <2>5. RemovedProviderRefsDead'
    <3> SUFFICES ASSUME NEW s \in refs', regs'[s.provider].removed, s.availability \in Live
                 PROVE  FALSE
      BY DEF RemovedProviderRefsDead
    <3>1. s \in refs /\ s \notin G  BY <2>3
    <3>2. s.availability # "removed"  BY DEF Live
    <3>3. s.provider \notin gone  BY <3>1, <3>2 DEF G
    <3>4. regs[s.provider].removed  BY <3>1, <3>3, <1>4 DEF RefsInv
    <3> QED BY <3>1, <3>4 DEF RefsInv, NothingRevives, RemovedProviderRefsDead
  <2>6. OneLiveGeneration'
    <3>1. \A s \in refs' : s.availability \in Live => s \in refs  BY <2>3
    <3> QED BY <3>1 DEF RefsInv, NothingRevives, OneLiveGeneration
  <2> QED BY <2>3, <2>4, <2>5, <2>6 DEF RefsInv, NothingRevives
<1>13. ActiveIds' = {p \in ActiveIds : regs[p].type \in seen}  BY <1>7 DEF gone
<1> QED BY <1>3, <1>5, <1>6, <1>8, <1>9, <1>10, <1>11, <1>12, <1>13 DEF RowsInv

\* The resources of a projection are distinct live sessions of its provider.
LEMMA ProjectedAreLive ==
    ASSUME NEW p \in Nat, NEW owner \in Users, NEW broker,
           NEW list \in [readable : BOOLEAN, sessions : SUBSET Sessions], OnePerId(list.sessions)
    PROVE  LET new == ProjectedResources(p, owner, broker, list)
           IN  /\ new \subseteq Refs
               /\ \A r \in new : r.provider = p /\ r.owner = owner /\ r.availability \in Live
               /\ \A r, s \in new : r.id = s.id => r.generation = s.generation
<1> DEFINE Row(s) == [provider |-> p, owner |-> owner, id |-> s.id, generation |-> s.generation,
                      availability |-> IF s.connected THEN "available" ELSE "unavailable"]
           new == ProjectedResources(p, owner, broker, list)
<1>1. list.sessions \in SUBSET Sessions  OBVIOUS
<1>2. \A r \in new : \E s \in list.sessions : r = Row(s)  BY DEF ProjectedResources
<1>3. ASSUME NEW s \in list.sessions
      PROVE  /\ Row(s) \in Refs /\ Row(s).provider = p /\ Row(s).owner = owner
             /\ Row(s).id = s.id /\ Row(s).generation = s.generation
             /\ Row(s).availability \in Live
  <2>1. s.id \in BrowserIds /\ s.generation \in Nat  BY <1>1 DEF Sessions
  <2> QED BY <2>1 DEF Refs, Live
<1> HIDE DEF Row, new
<1>4. \A r \in new : r \in Refs /\ r.provider = p /\ r.owner = owner /\ r.availability \in Live
  BY <1>2, <1>3
<1>5. ASSUME NEW r \in new, NEW s \in new, r.id = s.id PROVE r.generation = s.generation
  <2>1. PICK a \in list.sessions : r = Row(a)  BY <1>2
  <2>2. PICK b \in list.sessions : s = Row(b)  BY <1>2
  <2>3. a.id = b.id  BY <1>3, <1>5, <2>1, <2>2
  <2>4. a = b  BY <2>3 DEF OnePerId
  <2> QED BY <2>1, <2>2, <2>4
<1> QED BY <1>4, <1>5 DEF new

\* Applying a projection, however late, leaves one live generation of each
\* session and nothing live of a removed provider.
LEMMA AppliedResources ==
    ASSUME RowsInv, RefsInv, NEW p \in Nat, NEW owner \in Users, NEW new \in SUBSET Refs,
           \A r \in new : r.provider = p /\ r.owner = owner /\ r.availability \in Live,
           \A r, s \in new : r.id = s.id => r.generation = s.generation,
           reconcile_provider_resource_refs(p, owner, new), UNCHANGED regs
    PROVE  RefsInv'
<1> DEFINE G == {r \in refs : r.provider = p /\ r.owner = owner /\ r.availability # "removed"}
<1>1. p \in ActiveIds  BY DEF reconcile_provider_resource_refs
<1>2. refs' = Upsert(Staled(refs, G), new)
  BY DEF reconcile_provider_resource_refs, Staled
<1>3. \A r \in refs' : r \in new \/ r \in Staled(refs, G)  BY <1>2 DEF Upsert
<1> HIDE DEF G
<1>4. refs \in SUBSET Refs  BY DEF RefsInv
<1>5. /\ Staled(refs, G) \subseteq Refs
      /\ \A s \in Staled(refs, G) : \E r \in refs :
           /\ s.provider = r.provider /\ s.owner = r.owner /\ s.id = r.id
           /\ s.generation = r.generation
           /\ s.availability \in Live => s = r /\ r \notin G
  BY <1>4, StaledRefs
<1>6. \A s \in Staled(refs, G) : s.provider \in DOMAIN regs  BY <1>5 DEF RefsInv
<1>7. \A s \in Staled(refs, G) : s.availability \in Live =>
         s \in refs /\ ~(s.provider = p /\ s.owner = owner)
  BY <1>5 DEF G, Live
<1>8. refs' \subseteq Refs /\ \A r \in refs' : r.provider \in DOMAIN regs'
  BY <1>1, <1>3, <1>5, <1>6 DEF ActiveIds
<1>9. RemovedProviderRefsDead'
  <2> SUFFICES ASSUME NEW r \in refs', regs[r.provider].removed, r.availability \in Live
               PROVE  FALSE
    BY DEF RemovedProviderRefsDead
  <2>1. CASE r \in new  BY <2>1, <1>1 DEF ActiveIds
  <2>2. CASE r \in Staled(refs, G)
    BY <2>2, <1>7 DEF RefsInv, NothingRevives, RemovedProviderRefsDead
  <2> QED BY <2>1, <2>2, <1>3
<1>10. OneLiveGeneration'
  <2> SUFFICES ASSUME NEW r \in refs', NEW s \in refs',
                      r.provider = s.provider, r.owner = s.owner, r.id = s.id,
                      r.availability \in Live, s.availability \in Live
               PROVE  r.generation = s.generation
    BY DEF OneLiveGeneration
  <2>1. CASE r \in new /\ s \in new  BY <2>1
  <2>2. CASE r \in new /\ s \in Staled(refs, G)  BY <2>2, <1>7
  <2>3. CASE r \in Staled(refs, G) /\ s \in new  BY <2>3, <1>7
  <2>4. CASE r \in Staled(refs, G) /\ s \in Staled(refs, G)
    BY <2>4, <1>7 DEF RefsInv, NothingRevives, OneLiveGeneration
  <2> QED BY <2>1, <2>2, <2>3, <2>4, <1>3
<1> QED BY <1>8, <1>9, <1>10 DEF RefsInv, NothingRevives

\* A page holds the first of the ids that are left: what it leaves out comes
\* after the cursor it returns, and without one it leaves out nothing.
LEMMA PageCovers ==
    ASSUME NEW n \in Nat, NEW rest \in SUBSET (1 .. n)
    PROVE  LET items == {p \in rest : Cardinality({q \in rest : q <= p}) <= PageLimit}
               cursor == IF Cardinality(rest) > PageLimit
                         THEN CHOOSE p \in items : \A q \in items : q <= p ELSE 0
           IN  /\ cursor \in Nat
               /\ \A p \in rest : p \in items \/ (cursor # 0 /\ p > cursor)
<1> DEFINE Rank(p) == Cardinality({q \in rest : q <= p})
           items == {p \in rest : Rank(p) <= PageLimit}
           more == Cardinality(rest) > PageLimit
           cursor == IF more THEN CHOOSE p \in items : \A q \in items : q <= p ELSE 0
<1> SUFFICES cursor \in Nat /\ \A p \in rest : p \in items \/ (cursor # 0 /\ p > cursor)
  OBVIOUS
<1>1. PageLimit \in Nat \ {0}  BY PageLimitAssumption
<1>2. IsFiniteSet(rest) /\ rest \subseteq Nat
  <2>1. IsFiniteSet(1 .. n)  BY FS_Interval
  <2>2. IsFiniteSet(rest)  BY <2>1, FS_Subset
  <2>3. rest \subseteq Nat  OBVIOUS
  <2> QED BY <2>2, <2>3
<1>3. \A p \in Nat : /\ IsFiniteSet({q \in rest : q <= p}) /\ Rank(p) \in Nat
                     /\ Rank(p) <= Cardinality(rest)
  <2> SUFFICES ASSUME NEW p \in Nat
               PROVE  /\ IsFiniteSet({q \in rest : q <= p}) /\ Rank(p) \in Nat
                      /\ Rank(p) <= Cardinality(rest)
    OBVIOUS
  <2> DEFINE T == {q \in rest : q <= p}
  <2>1. T \subseteq rest  OBVIOUS
  <2> HIDE DEF T
  <2>2. IsFiniteSet(T) /\ Cardinality(T) <= Cardinality(rest)  BY <2>1, <1>2, FS_Subset
  <2>3. Cardinality(T) \in Nat  BY <2>2, FS_CardinalityType
  <2> QED BY <2>2, <2>3 DEF T
<1>4. \A p, q \in Nat : p <= q => Rank(p) <= Rank(q)
  <2> SUFFICES ASSUME NEW p \in Nat, NEW q \in Nat, p <= q PROVE Rank(p) <= Rank(q)
    OBVIOUS
  <2>0. p <= q  OBVIOUS
  <2>1. {x \in rest : x <= p} \subseteq {x \in rest : x <= q}
    <3>1. \A x \in Nat : x <= p => x <= q  BY <2>0
    <3> QED BY <1>2, <3>1, Zenon
  <2> QED BY <2>1, <1>3, FS_Subset
<1>5. items \subseteq rest /\ items \subseteq 1 .. n  OBVIOUS
<1>6. CASE ~more
  <2>1. Cardinality(rest) \in Nat  BY <1>2, FS_CardinalityType
  <2>2. Cardinality(rest) <= PageLimit  BY <1>6, <2>1, <1>1
  <2>3. \A p \in rest : Rank(p) <= PageLimit
    <3> SUFFICES ASSUME NEW p \in rest PROVE Rank(p) <= PageLimit
      OBVIOUS
    <3>1. p \in Nat  BY <1>2
    <3>2. Rank(p) \in Nat /\ Rank(p) <= Cardinality(rest)  BY <3>1, <1>3
    <3>3. PageLimit \in Nat  BY <1>1
    <3> HIDE DEF Rank
    <3> QED BY <3>2, <3>3, <2>1, <2>2
  <2>4. items = rest  BY <2>3
  <2>5. cursor = 0  BY <1>6
  <2> HIDE DEF cursor, items, more
  <2> QED BY <2>4, <2>5
<1>7. CASE more
  <2>1. rest # {}
    <3>1. rest = {} => Cardinality(rest) = 0  BY FS_EmptySet
    <3> QED BY <3>1, <1>7, <1>1
  <2>2. PICK l \in rest : \A q \in rest : l <= q  BY <2>1, <1>2, Least
  <2>3. {q \in rest : q <= l} = {l}
    <3>1. \A q \in rest : q <= l <=> q = l
      <4> SUFFICES ASSUME NEW q \in rest PROVE q <= l <=> q = l
        OBVIOUS
      <4>1. q \in Nat /\ l \in Nat /\ l <= q  BY <1>2, <2>2
      <4> QED BY <4>1
    <3> QED BY <2>2, <3>1, Zenon
  <2>4. Rank(l) = 1  BY <2>3, FS_Singleton
  <2>5. l \in items  BY <2>4, <1>1
  <2>6. \E p \in items : \A q \in items : q <= p  BY <2>5, <1>1, <1>5, Greatest
  <2>7. cursor \in items /\ \A q \in items : q <= cursor  BY <2>6, <1>7
  <2>8. cursor \in Nat /\ cursor # 0 /\ Rank(cursor) <= PageLimit
    <3>1. \A p \in items : Rank(p) <= PageLimit  OBVIOUS
    <3> HIDE DEF cursor, items, Rank
    <3>2. cursor \in 1 .. n  BY <2>7, <1>5
    <3> QED BY <2>7, <3>1, <3>2, <1>1
  <2>9. ASSUME NEW p \in rest, p \notin items PROVE p > cursor
    <3>1. Rank(p) > PageLimit /\ p \in Nat
      <4>1. p \in Nat /\ ~(Rank(p) <= PageLimit)  BY <2>9, <1>2
      <4>2. Rank(p) \in Nat /\ PageLimit \in Nat  BY <4>1, <1>1, <1>3
      <4> HIDE DEF Rank
      <4> QED BY <4>1, <4>2
    <3>2. p <= cursor => Rank(p) <= Rank(cursor)  BY <3>1, <2>8, <1>4
    <3>3. Rank(p) \in Nat /\ Rank(cursor) \in Nat  BY <3>1, <2>8, <1>3
    <3>4. PageLimit \in Nat  BY <1>1
    <3> HIDE DEF Rank, cursor
    <3> QED BY <3>1, <3>2, <3>3, <3>4, <2>8
  <2> QED BY <2>8, <2>9
<1> QED BY <1>6, <1>7

LEMMA PageIsComplete ==
    ASSUME regs \in Seq(RegRows), NEW after \in Nat
    PROVE  LET page == list_providers_visible(after)
           IN  /\ page.items \subseteq ActiveIds /\ page.next_cursor \in Nat
               /\ \A p \in ActiveIds : p > after =>
                     p \in page.items \/ (page.next_cursor # 0 /\ p > page.next_cursor)
<1> DEFINE rest == {p \in ActiveIds : p > after}
           items == {p \in rest : Cardinality({q \in rest : q <= p}) <= PageLimit}
           cursor == IF Cardinality(rest) > PageLimit
                     THEN CHOOSE p \in items : \A q \in items : q <= p ELSE 0
<1>1. /\ list_providers_visible(after).items = items
      /\ list_providers_visible(after).next_cursor = cursor
  BY DEF list_providers_visible
<1>2. ActiveIds \subseteq 1 .. Len(regs) /\ Len(regs) \in Nat  BY ActiveIdsFinite
<1>3. items \subseteq ActiveIds  OBVIOUS
<1>4. cursor \in Nat /\ \A p \in rest : p \in items \/ (cursor # 0 /\ p > cursor)
  <2>1. rest \in SUBSET (1 .. Len(regs))  BY <1>2
  <2> HIDE DEF rest
  <2> QED BY <1>2, <2>1, PageCovers
<1>5. \A p \in ActiveIds : p > after => p \in rest  OBVIOUS
<1> HIDE DEF rest, items, cursor
<1> QED BY <1>1, <1>3, <1>4, <1>5

\* A reconciliation that removed what it did not see reports the right count.
LEMMA SeenAreCounted ==
    ASSUME RowsInv, NEW seen \in SUBSET Types,
           \A t \in seen : \E p \in ActiveIds : regs[p].type = t
    PROVE  /\ Cardinality({p \in ActiveIds : regs[p].type \in seen}) = Cardinality(seen)
           /\ Cardinality(seen) \in Nat
<1> DEFINE A == {p \in ActiveIds : regs[p].type \in seen}
           f == [p \in A |-> regs[p].type]
<1>1. ActiveIds \subseteq Nat /\ IsFiniteSet(ActiveIds) /\ ActiveIds \subseteq DOMAIN regs
  BY ActiveIdsFinite DEF RowsInv, ActiveIds
<1>2. IsFiniteSet(A)  BY <1>1, FS_Subset
<1>3. f \in [A -> seen]  OBVIOUS
<1>4. \A p, q \in A : f[p] = f[q] => p = q
  <2> SUFFICES ASSUME NEW p \in A, NEW q \in A, regs[p].type = regs[q].type PROVE p = q
    OBVIOUS
  <2>1. q <= p /\ p <= q  BY <1>1 DEF RowsInv, ActiveIsLast
  <2> QED BY <2>1, <1>1
<1>5. \A t \in seen : \E p \in A : f[p] = t  OBVIOUS
<1> HIDE DEF A, f
<1>6. f \in Bijection(A, seen)
  BY <1>3, <1>4, <1>5 DEF Bijection, Injection, Surjection, IsInjective
<1>7. ExistsBijection(A, seen)  BY <1>6 DEF ExistsBijection
<1>8. Cardinality(seen) = Cardinality(A)  BY <1>2, <1>7, FS_Bijection
<1>9. Cardinality(A) \in Nat  BY <1>2, FS_CardinalityType
<1> QED BY <1>8, <1>9 DEF A

---------------------------------------------------------------------------
(***************************************************************************)
(* The invariant holds initially and is preserved by every action.         *)
(***************************************************************************)
\* What a step leaves alone keeps its part of the invariant.
LEMMA RowsStay == ASSUME RowsInv, UNCHANGED regs PROVE RowsInv' /\ ActiveIds' = ActiveIds
BY DEF RowsInv, ActiveIds, ActiveIsLast, ChainInv, SuccessorInv, DetailsFitTogether

LEMMA RefsStay == ASSUME RefsInv, UNCHANGED <<regs, refs>> PROVE RefsInv'
BY DEF RefsInv, NothingRevives, RemovedProviderRefsDead, OneLiveGeneration

LEMMA WorldStays == ASSUME WorldInv, UNCHANGED <<dir, browser>> PROVE WorldInv'
BY DEF WorldInv, OnePerId

LEMMA ProbeStays ==
    ASSUME ProbeInv, UNCHANGED probe, DOMAIN regs \subseteq DOMAIN regs' PROVE ProbeInv'
BY DEF ProbeInv, OnePerId, NoProbe

LEMMA PagerStays ==
    ASSUME PagerInv, UNCHANGED pager, DOMAIN regs \subseteq DOMAIN regs',
           ActiveIds' \cap DOMAIN regs \subseteq ActiveIds
    PROVE  PagerInv'
<1>1. pager.steady \cap ActiveIds' \subseteq pager.steady \cap ActiveIds  BY DEF PagerInv
<1> QED BY <1>1 DEF PagerInv

LEMMA JobStays ==
    ASSUME JobInv, UNCHANGED <<job, regs>>, job.op = "apply" => UNCHANGED probe
    PROVE  JobInv'
<1>1. ActiveIds' = ActiveIds  BY DEF ActiveIds
<1>2. CASE job = Idle  BY <1>2 DEF JobInv, Idle
<1>3. CASE job = [op |-> "apply"] /\ probe.stage = "listed"
  <2>1. UNCHANGED probe  BY <1>3
  <2> QED BY <1>3, <2>1 DEF JobInv
<1>4. CASE job.op = "reconcile"
  <2>1. job # Idle /\ job # [op |-> "apply"]  BY <1>4 DEF Idle
  <2>2. /\ job' = job /\ regs' = regs
        /\ job \in [op : {"reconcile"}, todo : SUBSET Types,
                    found : [Types -> DOMAIN Manifests \cup {NoFile}]]
        /\ \A t \in job.todo : job.found[t] # NoFile /\ validate(t, Manifests[job.found[t]])
        /\ \A t \in Types : job.found[t] # NoFile /\ t \notin job.todo =>
             \E p \in ActiveIds : regs[p].type = t
    BY <2>1 DEF JobInv
  <2>3. \A t \in job'.todo : job'.found[t] # NoFile /\ validate(t, Manifests[job'.found[t]])
    BY <2>2
  <2>4. \A t \in Types : job'.found[t] # NoFile /\ t \notin job'.todo =>
             \E p \in ActiveIds' : regs'[p].type = t
    BY <1>1, <2>2
  <2> QED BY <2>2, <2>3, <2>4 DEF JobInv
<1> QED BY <1>2, <1>3, <1>4 DEF JobInv

LEMMA StatusStays ==
    ASSUME StatusInv, UNCHANGED <<registry, regs>>, job'.op # "reconcile" => job.op # "reconcile"
    PROVE  StatusInv'
BY DEF StatusInv, ActiveIds

LEMMA InitInv == ProvInit => ProvInv
<1> SUFFICES ASSUME ProvInit PROVE ProvInv
  OBVIOUS
<1>1. regs = <<>> /\ DOMAIN regs = {} /\ ActiveIds = {}  BY DEF ProvInit, ActiveIds
<1>2. RowsInv
  BY <1>1 DEF RowsInv, ActiveIsLast, ChainInv, SuccessorInv, DetailsFitTogether
<1>3. RefsInv
  BY DEF ProvInit, RefsInv, NothingRevives, RemovedProviderRefsDead, OneLiveGeneration
<1>4. WorldInv
  <2>1. IsFiniteSet({})  BY FS_EmptySet
  <2> QED BY <2>1 DEF ProvInit, WorldInv, OnePerId
<1>5. ProbeInv /\ JobInv  BY DEF ProvInit, ProbeInv, JobInv
<1>6. StatusInv  BY DEF ProvInit, StatusInv
<1>7. PagerInv  BY <1>1 DEF ProvInit, PagerInv, NoListing
<1> QED BY <1>2, <1>3, <1>4, <1>5, <1>6, <1>7 DEF ProvInv

\* A reconciliation that stops leaves the tables as they are.
LEMMA FailsPreserves ==
    ASSUME ProvInv, ReconcileFails PROVE ProvInv'
<1> USE DEF ProvInv, ReconcileFails
<1>1. RowsInv' /\ ActiveIds' = ActiveIds  BY RowsStay
<1>2. RefsInv' /\ WorldInv'  BY RefsStay, WorldStays
<1>3. ProbeInv' /\ PagerInv'  BY <1>1, ProbeStays, PagerStays
<1>4. JobInv'  BY DEF Finished, JobInv
<1>5. StatusInv'
  <2>1. Cardinality(ActiveIds) \in Nat  BY ActiveIdsFinite DEF RowsInv
  <2>2. registry' = [health |-> "degraded", active_count |-> Cardinality(ActiveIds)]
    BY DEF Finished, active_system_provider_count
  <2> QED BY <1>1, <2>1, <2>2 DEF StatusInv
<1> QED BY <1>1, <1>2, <1>3, <1>4, <1>5

LEMMA ReconcileDirectoryPreserves ==
    ASSUME ProvInv, reconcile_directory PROVE ProvInv'
<1> USE DEF ProvInv, reconcile_directory
<1>1. RowsInv' /\ ActiveIds' = ActiveIds  BY RowsStay
<1>2. RefsInv' /\ WorldInv'  BY RefsStay, WorldStays
<1>3. ProbeInv' /\ PagerInv'  BY <1>1, ProbeStays, PagerStays
<1>4. dir.files \in [Types -> DOMAIN Manifests \cup {NoFile}]  BY DEF WorldInv
<1>5. Files \subseteq Types /\ \A t \in Types : dir.files[t] # NoFile <=> t \in Files  BY DEF Files
<1>6. \A t \in Files : validate(t, Manifests[dir.files[t]])  BY DEF ManifestsReadable
<1>7. /\ job' \in [op : {"reconcile"}, todo : SUBSET Types,
                   found : [Types -> DOMAIN Manifests \cup {NoFile}]]
      /\ job'.op = "reconcile" /\ job'.todo = Files /\ job'.found = dir.files
  BY <1>4, <1>5
<1>8. JobInv'
  <2>1. \A t \in job'.todo : job'.found[t] # NoFile /\ validate(t, Manifests[job'.found[t]])
    BY <1>5, <1>6, <1>7
  <2>2. \A t \in Types : ~(job'.found[t] # NoFile /\ t \notin job'.todo)
    BY <1>5, <1>7
  <2> QED BY <1>7, <2>1, <2>2 DEF JobInv, validate, validate_health, validate_capability
<1>9. StatusInv'  BY <1>7 DEF StatusInv
<1> QED BY <1>1, <1>2, <1>3, <1>8, <1>9

\* The shape of job while a reconciliation runs.
LEMMA ReconcileShape ==
    ASSUME JobInv, job.op = "reconcile"
    PROVE  /\ job \in [op : {"reconcile"}, todo : SUBSET Types,
                       found : [Types -> DOMAIN Manifests \cup {NoFile}]]
           /\ \A t \in job.todo : job.found[t] # NoFile /\ validate(t, Manifests[job.found[t]])
           /\ \A t \in Types : job.found[t] # NoFile /\ t \notin job.todo =>
                 \E p \in ActiveIds : regs[p].type = t
<1>1. job # Idle /\ job # [op |-> "apply"]  BY DEF Idle
<1> QED BY <1>1 DEF JobInv

LEMMA NextManifestPreserves ==
    ASSUME ProvInv, reconcile_next_manifest PROVE ProvInv'
<1> USE DEF ProvInv
<1>1. PICK t \in job.todo :
        /\ reconcile_provider_registration(t, Manifests[job.found[t]])
        /\ job' = [job EXCEPT !.todo = @ \ {t}]
  BY DEF reconcile_next_manifest
<1>2. job.op = "reconcile" /\ UNCHANGED <<refs, registry, dir, browser, probe, pager>>
  BY DEF reconcile_next_manifest
<1>3. /\ job \in [op : {"reconcile"}, todo : SUBSET Types,
                  found : [Types -> DOMAIN Manifests \cup {NoFile}]]
      /\ \A u \in job.todo : job.found[u] # NoFile /\ validate(u, Manifests[job.found[u]])
      /\ \A u \in Types : job.found[u] # NoFile /\ u \notin job.todo =>
            \E p \in ActiveIds : regs[p].type = u
  BY <1>2, ReconcileShape
<1>4. t \in Types /\ job.found[t] \in DOMAIN Manifests /\ validate(t, Manifests[job.found[t]])
  BY <1>3
<1>5. /\ RowsInv'
      /\ ActiveIds \subseteq ActiveIds'
      /\ ActiveIds' \cap DOMAIN regs = ActiveIds
      /\ DOMAIN regs \subseteq DOMAIN regs'
      /\ \A p \in DOMAIN regs : regs'[p].type = regs[p].type /\ regs'[p].removed = regs[p].removed
      /\ \E p \in ActiveIds' : regs'[p].type = t
  BY <1>1, <1>4, Registered
<1>6. RefsInv'
  <2>1. \A r \in refs : r.provider \in DOMAIN regs /\ regs'[r.provider].removed = regs[r.provider].removed
    BY <1>5 DEF RefsInv
  <2>2. RemovedProviderRefsDead'
    BY <1>2, <2>1 DEF RefsInv, NothingRevives, RemovedProviderRefsDead
  <2>3. OneLiveGeneration'
    BY <1>2 DEF RefsInv, NothingRevives, OneLiveGeneration
  <2> QED BY <1>2, <1>5, <2>1, <2>2, <2>3 DEF RefsInv, NothingRevives
<1>7. WorldInv' /\ ProbeInv' /\ PagerInv'
  BY <1>2, <1>5, WorldStays, ProbeStays, PagerStays
<1>8. /\ job' \in [op : {"reconcile"}, todo : SUBSET Types,
                   found : [Types -> DOMAIN Manifests \cup {NoFile}]]
      /\ job'.op = "reconcile" /\ job'.todo = job.todo \ {t} /\ job'.found = job.found
  BY <1>1, <1>3
<1>9. JobInv'
  <2>1. \A u \in job'.todo : job'.found[u] # NoFile /\ validate(u, Manifests[job'.found[u]])
    BY <1>3, <1>8
  <2>2. ASSUME NEW u \in Types, job'.found[u] # NoFile, u \notin job'.todo
        PROVE  \E p \in ActiveIds' : regs'[p].type = u
    <3>1. CASE u = t  BY <3>1, <1>5
    <3>2. CASE u # t
      <4>1. PICK p \in ActiveIds : regs[p].type = u  BY <2>2, <3>2, <1>3, <1>8
      <4>2. p \in DOMAIN regs  BY DEF ActiveIds
      <4> QED BY <4>1, <4>2, <1>5
    <3> QED BY <3>1, <3>2
  <2> QED BY <1>8, <2>1, <2>2 DEF JobInv
<1>10. StatusInv'  BY <1>2, <1>8 DEF StatusInv
<1> QED BY <1>5, <1>6, <1>7, <1>9, <1>10

LEMMA TombstonesPreserve ==
    ASSUME ProvInv, reconcile_tombstones PROVE ProvInv'
<1> USE DEF ProvInv
<1> DEFINE seen == {t \in Types : job.found[t] # NoFile}
<1>1. /\ job.op = "reconcile" /\ job.todo = {}
      /\ tombstone_missing_system_providers(seen) /\ Finished("healthy", Cardinality(seen))
      /\ UNCHANGED <<dir, browser, probe, pager>>
  BY DEF reconcile_tombstones
<1>2. /\ RowsInv' /\ RefsInv' /\ DOMAIN regs' = DOMAIN regs
      /\ ActiveIds' = {p \in ActiveIds : regs[p].type \in seen}
  BY <1>1, TombstonedRows
<1>3. \A t \in seen : \E p \in ActiveIds : regs[p].type = t
  BY <1>1, ReconcileShape
<1>4. Cardinality(ActiveIds') = Cardinality(seen) /\ Cardinality(seen) \in Nat
  <2> HIDE DEF seen
  <2>1. seen \in SUBSET Types  BY DEF seen
  <2> QED BY <1>2, <1>3, <2>1, SeenAreCounted
<1> HIDE DEF seen
<1>5. WorldInv' /\ ProbeInv' /\ PagerInv'
  <2>1. ActiveIds' \cap DOMAIN regs \subseteq ActiveIds  BY <1>2
  <2> QED BY <1>1, <1>2, <2>1, WorldStays, ProbeStays, PagerStays
<1>6. JobInv'  BY <1>1 DEF Finished, JobInv
<1>7. StatusInv'
  <2>1. registry' = [health |-> "healthy", active_count |-> Cardinality(seen)]
    BY <1>1 DEF Finished
  <2> QED BY <1>4, <2>1 DEF StatusInv
<1> QED BY <1>2, <1>5, <1>6, <1>7

LEMMA EditPreserves ==
    ASSUME ProvInv, edit_manifests PROVE ProvInv'
<1> USE DEF ProvInv
<1>1. UNCHANGED <<regs, refs, job, registry, browser, probe, pager>>  BY DEF edit_manifests
<1>2. RowsInv' /\ ActiveIds' = ActiveIds  BY <1>1, RowsStay
<1>3. RefsInv' /\ ProbeInv' /\ PagerInv' /\ JobInv' /\ StatusInv'
  BY <1>1, <1>2, RefsStay, ProbeStays, PagerStays, JobStays, StatusStays
<1>4. WorldInv'
  BY <1>1 DEF edit_manifests, WorldInv, OnePerId
<1> QED BY <1>2, <1>3, <1>4

\* A browser that starts again gets a generation of its own.
LEMMA BrowserPreserves ==
    ASSUME ProvInv, browser_changes PROVE ProvInv'
<1> USE DEF ProvInv
<1>1. UNCHANGED <<regs, refs, job, registry, dir, probe, pager>>  BY DEF browser_changes
<1>2. RowsInv' /\ ActiveIds' = ActiveIds  BY <1>1, RowsStay
<1>3. RefsInv' /\ ProbeInv' /\ PagerInv' /\ JobInv' /\ StatusInv'
  BY <1>1, <1>2, RefsStay, ProbeStays, PagerStays, JobStays, StatusStays
<1>4. /\ browser \in [broker : {"stopped", "running", "other_protocol"}, sessions : SUBSET Sessions,
                      past : SUBSET [id : BrowserIds, generation : Nat]]
      /\ IsFiniteSet(browser.past) /\ OnePerId(browser.sessions)
  BY DEF WorldInv
<1>5. WorldInv'
  <2>1. ASSUME NEW b \in {"stopped", "running", "other_protocol"},
               browser' = [browser EXCEPT !.broker = b]
        PROVE  WorldInv'
    <3>1. browser'.past = browser.past /\ browser'.sessions = browser.sessions
      BY <2>1, <1>4
    <3>2. browser' \in [broker : {"stopped", "running", "other_protocol"}, sessions : SUBSET Sessions,
                        past : SUBSET [id : BrowserIds, generation : Nat]]
      BY <2>1, <1>4
    <3> QED BY <3>1, <3>2, <1>1, <1>4 DEF WorldInv
  <2>2. ASSUME NEW i \in BrowserIds, NEW gen, NEW old,
               gen = 1 + Cardinality({s \in browser.past : s.id = i}),
               old = {s \in browser.sessions : s.id = i},
               browser' = [browser EXCEPT
                  !.sessions = (@ \ old) \cup {[id |-> i, generation |-> gen, connected |-> TRUE]},
                  !.past = @ \cup {[id |-> i, generation |-> gen]}]
        PROVE  WorldInv'
    <3>1. gen \in Nat
      <4> DEFINE P == {s \in browser.past : s.id = i}
      <4>1. P \subseteq browser.past  OBVIOUS
      <4> HIDE DEF P
      <4>2. Cardinality(P) \in Nat  BY <4>1, <1>4, FS_Subset, FS_CardinalityType
      <4> QED BY <4>2, <2>2 DEF P
    <3> DEFINE new == [id |-> i, generation |-> gen, connected |-> TRUE]
               gone == [id |-> i, generation |-> gen]
    <3>2. new \in Sessions /\ new.id = i  BY <3>1 DEF Sessions
    <3>3. gone \in [id : BrowserIds, generation : Nat]  BY <3>1
    <3>4. browser'.past = browser.past \cup {gone}
          /\ browser'.sessions = (browser.sessions \ old) \cup {new}
          /\ browser'.broker = browser.broker
      BY <2>2, <1>4
    <3>5. browser' \in [broker : {"stopped", "running", "other_protocol"}, sessions : SUBSET Sessions,
                        past : SUBSET [id : BrowserIds, generation : Nat]]
      BY <2>2, <1>4, <3>2, <3>3
    <3> HIDE DEF new, gone
    <3>6. IsFiniteSet(browser'.past)  BY <3>4, <1>4, FS_AddElement
    <3>7. OnePerId(browser'.sessions)  BY <3>2, <3>4, <2>2, <1>4 DEF OnePerId
    <3> QED BY <3>5, <3>6, <3>7, <1>1, <1>4 DEF WorldInv
  <2>3. ASSUME NEW i \in BrowserIds, NEW old, old = {s \in browser.sessions : s.id = i},
               browser' = [browser EXCEPT
                  !.sessions = (@ \ old) \cup {[s EXCEPT !.connected = FALSE] : s \in old}]
        PROVE  WorldInv'
    <3> DEFINE off == {[s EXCEPT !.connected = FALSE] : s \in old}
    <3>1. browser.sessions \subseteq Sessions /\ old \subseteq browser.sessions  BY <1>4, <2>3
    <3>2. \A s \in old : [s EXCEPT !.connected = FALSE] \in Sessions
                         /\ [s EXCEPT !.connected = FALSE].id = i
      BY <3>1, <2>3 DEF Sessions
    <3>3. off \subseteq Sessions /\ \A s \in off : s.id = i  BY <3>2
    <3>4. \A s, t \in off : s = t
      <4>1. \A s, t \in old : s = t  BY <2>3, <1>4 DEF OnePerId
      <4> QED BY <4>1
    <3>5. browser'.past = browser.past /\ browser'.sessions = (browser.sessions \ old) \cup off
      BY <2>3, <1>4
    <3> HIDE DEF off
    <3>6. browser' \in [broker : {"stopped", "running", "other_protocol"}, sessions : SUBSET Sessions,
                        past : SUBSET [id : BrowserIds, generation : Nat]]
      BY <2>3, <3>3, <1>4 DEF off
    <3>7. OnePerId(browser'.sessions)  BY <3>3, <3>4, <3>5, <2>3, <1>4 DEF OnePerId
    <3> QED BY <3>5, <3>6, <3>7, <1>1, <1>4 DEF WorldInv
  <2> QED BY <2>1, <2>2, <2>3 DEF browser_changes
<1> QED BY <1>2, <1>3, <1>5

LEMMA ProbePreserves ==
    ASSUME ProvInv, (\E p \in DOMAIN regs, u \in Users : probe_broker(p, u)) \/ probe_sessions
    PROVE  ProvInv'
<1> USE DEF ProvInv
<1>1. UNCHANGED <<regs, refs, job, registry, dir, browser, pager>>
  BY DEF probe_broker, probe_sessions
<1>2. RowsInv' /\ ActiveIds' = ActiveIds  BY <1>1, RowsStay
<1>3. probe.stage # "listed"  BY DEF probe_broker, probe_sessions, NoProbe
<1>4. job.op # "apply"  BY <1>3 DEF JobInv, Idle
<1>5. RefsInv' /\ WorldInv' /\ PagerInv' /\ JobInv' /\ StatusInv'
  BY <1>1, <1>2, <1>4, RefsStay, WorldStays, PagerStays, JobStays, StatusStays
<1>6. ProbeInv'
  <2>1. ASSUME NEW p \in DOMAIN regs, NEW u \in Users, probe_broker(p, u) PROVE ProbeInv'
    <3>1. p \in Nat  BY DEF RowsInv
    <3>2. browser.broker \in Broker  BY DEF WorldInv, Broker
    <3>3. PICK answer \in Broker :
            probe' = [stage |-> "broker", provider |-> p, owner |-> u, broker |-> answer]
      BY <2>1, <3>2 DEF probe_broker, Broker
    <3>4. probe' \in [stage : {"broker"}, provider : Nat, owner : Users, broker : Broker]
          /\ probe'.provider = p
      BY <3>1, <3>3
    <3> QED BY <3>4, <1>1 DEF ProbeInv
  <2>2. ASSUME probe_sessions PROVE ProbeInv'
    <3>1. probe # NoProbe /\ probe.stage = "broker"  BY <2>2 DEF probe_sessions, NoProbe
    <3>2. /\ probe \in [stage : {"broker"}, provider : Nat, owner : Users, broker : Broker]
          /\ probe.provider \in DOMAIN regs
      BY <3>1 DEF ProbeInv
    <3>3. PICK readable \in BOOLEAN :
            probe' = [stage |-> "listed", provider |-> probe.provider, owner |-> probe.owner,
                      broker |-> probe.broker,
                      list |-> [readable |-> readable,
                                sessions |-> IF readable THEN browser.sessions ELSE {}]]
      BY <2>2 DEF probe_sessions
    <3> DEFINE some == IF readable THEN browser.sessions ELSE {}
    <3>4. some \in SUBSET Sessions /\ OnePerId(some)
      <4>1. browser.sessions \in SUBSET Sessions /\ OnePerId(browser.sessions)  BY DEF WorldInv
      <4>2. {} \in SUBSET Sessions /\ OnePerId({})  BY DEF OnePerId
      <4> QED BY <4>1, <4>2
    <3> HIDE DEF some
    <3>5. probe' = [stage |-> "listed", provider |-> probe.provider, owner |-> probe.owner,
                    broker |-> probe.broker, list |-> [readable |-> readable, sessions |-> some]]
      BY <3>3 DEF some
    <3>6. probe' \in [stage : {"listed"}, provider : Nat, owner : Users, broker : Broker,
                      list : [readable : BOOLEAN, sessions : SUBSET Sessions]]
      BY <3>2, <3>4, <3>5
    <3>7. probe'.list.sessions = some /\ probe'.provider = probe.provider  BY <3>5
    <3> QED BY <3>2, <3>4, <3>6, <3>7, <1>1 DEF ProbeInv
  <2> QED BY <2>1, <2>2
<1> QED BY <1>2, <1>5, <1>6

\* A status is written into the row of an active registration and leaves its
\* identity and its links alone.
LEMMA StatusRow ==
    ASSUME RowsInv, NEW p, NEW s, update_provider_runtime_status(p, s)
    PROVE  RowsInv' /\ ActiveIds' = ActiveIds /\ DOMAIN regs' = DOMAIN regs
           /\ \A q \in DOMAIN regs : regs'[q].removed = regs[q].removed
<1> DEFINE c == regs[p].capabilities
           cap == [c[BrowserCapability] EXCEPT !.availability = s.capability]
           caps == [c EXCEPT ![BrowserCapability] = cap]
           row == [regs[p] EXCEPT !.compatibility = s.compatibility, !.health = s.health,
                                  !.capabilities = caps]
<1>1. p \in DOMAIN regs /\ BrowserCapability \in DOMAIN c
  BY DEF update_provider_runtime_status, CanUpdateStatus, ActiveIds
<1>2. regs[p] \in RegRows  BY <1>1 DEF RowsInv
<1>3. PICK S \in SUBSET CapabilityIds : c \in [S -> CapabilityRows]  BY <1>2 DEF RegRows
<1>4. /\ s.compatibility \in {"compatible", "incompatible", "unknown"} /\ s.health \in Healths
      /\ s.capability \in {"available", "degraded", "unavailable", "unknown"}
  BY DEF update_provider_runtime_status, validate_provider_runtime_status, Healths
<1>5. c[BrowserCapability] \in CapabilityRows  BY <1>1, <1>3
<1>6. cap \in CapabilityRows /\ cap.links = c[BrowserCapability].links
  BY <1>4, <1>5 DEF CapabilityRows
<1>7. regs' = [regs EXCEPT ![p] = row]
  BY <1>1, <1>2 DEF update_provider_runtime_status, RegRows
<1> HIDE DEF cap
<1>8. caps \in [S -> CapabilityRows] /\ \A x \in S : caps[x].links = c[x].links
  BY <1>3, <1>6
<1>9. caps \in UNION {[T -> CapabilityRows] : T \in SUBSET CapabilityIds}  BY <1>8
<1> HIDE DEF caps
<1>10. row \in RegRows  BY <1>2, <1>4, <1>9 DEF RegRows
<1>11. SameIdentity(regs[p], row)  BY <1>2 DEF RegRows, SameIdentity
<1>12. row.capabilities = caps /\ row.interfaces = regs[p].interfaces
       /\ row.health_contract = regs[p].health_contract
  BY <1>2 DEF RegRows
<1>13. Fits(regs[p])  BY <1>1, FitsIsDetails DEF RowsInv
<1> HIDE DEF row
<1>14. Fits(row)  BY <1>3, <1>8, <1>12, <1>13 DEF Fits
<1>15. RowsInv' /\ ActiveIds' = ActiveIds  BY <1>1, <1>7, <1>10, <1>11, <1>14, UpdateInPlace
<1>16. DOMAIN regs' = DOMAIN regs /\ \A q \in DOMAIN regs : regs'[q].removed = regs[q].removed
  BY <1>7, <1>11 DEF SameIdentity
<1> QED BY <1>15, <1>16

LEMMA ApplyStatusPreserves ==
    ASSUME ProvInv, apply_runtime_status PROVE ProvInv'
<1> USE DEF ProvInv
<1>1. /\ job = Idle /\ job.op = "idle" /\ probe.stage = "listed"
      /\ UNCHANGED <<refs, registry, dir, browser, pager>>
  BY DEF apply_runtime_status, Free, Idle
<1>2. WorldInv'  BY <1>1, WorldStays
<1>3. CASE /\ update_provider_runtime_status(probe.provider,
                 projection(project_runtime(probe.broker, probe.list)))
           /\ job' = [op |-> "apply"] /\ UNCHANGED probe
  <2>1. /\ RowsInv' /\ ActiveIds' = ActiveIds /\ DOMAIN regs' = DOMAIN regs
        /\ \A q \in DOMAIN regs : regs'[q].removed = regs[q].removed
    BY <1>3, StatusRow
  <2>2. RefsInv'
    BY <1>1, <2>1 DEF RefsInv, NothingRevives, RemovedProviderRefsDead, OneLiveGeneration
  <2>3. ProbeInv' /\ PagerInv'  BY <1>1, <1>3, <2>1, ProbeStays, PagerStays
  <2>4. JobInv'  BY <1>1, <1>3 DEF JobInv
  <2>5. StatusInv'  BY <1>1, <1>3, <2>1 DEF StatusInv
  <2> QED BY <1>2, <2>1, <2>2, <2>3, <2>4, <2>5
<1>4. CASE probe' = NoProbe /\ UNCHANGED <<regs, job>>
  <2>1. RowsInv' /\ ActiveIds' = ActiveIds  BY <1>4, RowsStay
  <2>2. RefsInv' /\ PagerInv' /\ JobInv' /\ StatusInv'
    BY <1>1, <1>4, <2>1, RefsStay, PagerStays, JobStays, StatusStays
  <2>3. ProbeInv'  BY <1>4 DEF ProbeInv
  <2> QED BY <1>2, <2>1, <2>2, <2>3
<1> QED BY <1>3, <1>4 DEF apply_runtime_status

LEMMA ApplyResourcesPreserves ==
    ASSUME ProvInv, apply_resources PROVE ProvInv'
<1> USE DEF ProvInv
<1>1. /\ job.op = "apply" /\ job' = Idle /\ probe' = NoProbe
      /\ UNCHANGED <<regs, registry, dir, browser, pager>>
  BY DEF apply_resources
<1>2. RowsInv' /\ ActiveIds' = ActiveIds  BY <1>1, RowsStay
<1>3. WorldInv' /\ PagerInv'  BY <1>1, <1>2, WorldStays, PagerStays
<1>4. ProbeInv' /\ JobInv' /\ StatusInv'
  BY <1>1, <1>2 DEF ProbeInv, JobInv, StatusInv, Idle
<1>5. RefsInv'
  <2>1. CASE UNCHANGED refs  BY <2>1, <1>1, RefsStay
  <2>2. CASE reconcile_provider_resource_refs(probe.provider, probe.owner,
               ProjectedResources(probe.provider, probe.owner, probe.broker, probe.list))
    <3>1. probe.stage = "listed"
      <4>1. job # Idle /\ job.op # "reconcile"  BY <1>1 DEF Idle
      <4> QED BY <4>1 DEF JobInv
    <3>2. /\ probe \in [stage : {"listed"}, provider : Nat, owner : Users, broker : Broker,
                        list : [readable : BOOLEAN, sessions : SUBSET Sessions]]
          /\ OnePerId(probe.list.sessions)
      <4>1. probe # NoProbe  BY <3>1 DEF NoProbe
      <4> QED BY <3>1, <4>1 DEF ProbeInv
    <3> DEFINE new == ProjectedResources(probe.provider, probe.owner, probe.broker, probe.list)
    <3>3. probe.provider \in Nat /\ probe.owner \in Users
          /\ probe.list \in [readable : BOOLEAN, sessions : SUBSET Sessions]
      BY <3>2
    <3>4. /\ new \in SUBSET Refs
          /\ \A r \in new : r.provider = probe.provider /\ r.owner = probe.owner
                            /\ r.availability \in Live
          /\ \A r, s \in new : r.id = s.id => r.generation = s.generation
      BY <3>2, <3>3, ProjectedAreLive
    <3> HIDE DEF new
    <3>5. reconcile_provider_resource_refs(probe.provider, probe.owner, new)  BY <2>2 DEF new
    <3> QED BY <1>1, <3>3, <3>4, <3>5, AppliedResources
  <2> QED BY <2>1, <2>2 DEF apply_resources
<1> QED BY <1>2, <1>3, <1>4, <1>5

LEMMA ListPreserves ==
    ASSUME ProvInv, ListSteps PROVE ProvInv'
<1> USE DEF ProvInv
<1>1. UNCHANGED <<regs, refs, job, registry, dir, browser, probe>>
  BY DEF ListSteps, list_first_page, list_next_page
<1>2. RowsInv' /\ ActiveIds' = ActiveIds  BY <1>1, RowsStay
<1>3. RefsInv' /\ WorldInv' /\ ProbeInv' /\ JobInv' /\ StatusInv'
  BY <1>1, RefsStay, WorldStays, ProbeStays, JobStays, StatusStays
<1>4. ActiveIds \subseteq DOMAIN regs /\ DOMAIN regs \subseteq Nat /\ regs \in Seq(RegRows)
  BY DEF RowsInv, ActiveIds
<1>5. ASSUME NEW after \in Nat, NEW seen \in SUBSET Nat, NEW steady \in SUBSET ActiveIds,
             \A p \in steady : p \in seen \/ p > after,
             LET page == list_providers_visible(after)
             IN  pager' = [open |-> page.next_cursor # 0, cursor |-> page.next_cursor,
                           seen |-> seen \cup page.items, steady |-> steady,
                           done |-> page.next_cursor = 0]
      PROVE  PagerInv'
  <2> DEFINE items == list_providers_visible(after).items
             cursor == list_providers_visible(after).next_cursor
  <2>1. /\ items \subseteq ActiveIds /\ cursor \in Nat
        /\ \A p \in ActiveIds : p > after => p \in items \/ (cursor # 0 /\ p > cursor)
    BY <1>4, PageIsComplete
  <2>2. pager' = [open |-> cursor # 0, cursor |-> cursor, seen |-> seen \cup items,
                  steady |-> steady, done |-> cursor = 0]
    BY <1>5
  <2> HIDE DEF items, cursor
  <2>3. /\ pager' \in [open : BOOLEAN, cursor : Nat, seen : SUBSET Nat, steady : SUBSET Nat,
                       done : BOOLEAN]
    BY <1>4, <2>1, <2>2
  <2>4. /\ (pager'.open <=> cursor # 0) /\ (pager'.done <=> cursor = 0)
        /\ pager'.cursor = cursor /\ pager'.seen = seen \cup items /\ pager'.steady = steady
    BY <2>2
  <2>5. \A p \in steady : p \in seen \cup items \/ (cursor # 0 /\ p > cursor)
    BY <1>5, <2>1
  <2>6. pager'.done => ~pager'.open /\ pager'.steady \cap ActiveIds' \subseteq pager'.seen
    BY <2>4, <2>5
  <2>7. pager'.open => \A p \in pager'.steady \cap ActiveIds' :
                          p \in pager'.seen \/ p > pager'.cursor
    BY <2>4, <2>5
  <2>8. pager'.steady \subseteq DOMAIN regs'  BY <1>1, <1>4, <2>4
  <2> QED BY <2>3, <2>6, <2>7, <2>8 DEF PagerInv
<1>6. CASE list_first_page
  <2> DEFINE none == {}
  <2>0. none \in SUBSET Nat /\ 0 \in Nat /\ ActiveIds \in SUBSET ActiveIds  OBVIOUS
  <2>1. \A p \in ActiveIds : p \in none \/ p > 0  BY <1>4 DEF RowsInv
  <2>2. LET page == list_providers_visible(0)
        IN  pager' = [open |-> page.next_cursor # 0, cursor |-> page.next_cursor,
                      seen |-> none \cup page.items, steady |-> ActiveIds,
                      done |-> page.next_cursor = 0]
    BY <1>6 DEF list_first_page
  <2> HIDE DEF none
  <2>3. PagerInv'  BY <1>5, <2>0, <2>1, <2>2
  <2> QED BY <1>2, <1>3, <2>3
<1>7. CASE list_next_page
  <2>1. pager.open /\ pager.cursor \in Nat /\ pager.seen \in SUBSET Nat
    BY <1>7 DEF list_next_page, PagerInv
  <2>2. \A p \in pager.steady \cap ActiveIds : p \in pager.seen \/ p > pager.cursor
    BY <2>1 DEF PagerInv
  <2>3. LET page == list_providers_visible(pager.cursor)
        IN  pager' = [open |-> page.next_cursor # 0, cursor |-> page.next_cursor,
                      seen |-> pager.seen \cup page.items,
                      steady |-> pager.steady \cap ActiveIds,
                      done |-> page.next_cursor = 0]
    BY <1>7 DEF list_next_page
  <2>4. PagerInv'  BY <1>5, <2>1, <2>2, <2>3
  <2> QED BY <1>2, <1>3, <2>4
<1> QED BY <1>6, <1>7 DEF ListSteps

LEMMA CrashPreserves ==
    ASSUME ProvInv, portusd_crashes PROVE ProvInv'
<1> USE DEF ProvInv, portusd_crashes
<1>1. RowsInv' /\ ActiveIds' = ActiveIds  BY RowsStay
<1>2. RefsInv' /\ WorldInv'  BY RefsStay, WorldStays
<1>3. ProbeInv' /\ JobInv' /\ StatusInv'  BY DEF ProbeInv, JobInv, StatusInv
<1>4. PagerInv'  BY DEF PagerInv, NoListing
<1> QED BY <1>1, <1>2, <1>3, <1>4

LEMMA StutterPreserves ==
    ASSUME ProvInv, UNCHANGED <<regs, refs, job, registry, dir, browser, probe, pager>>
    PROVE  ProvInv'
<1> USE DEF ProvInv
<1>1. RowsInv' /\ ActiveIds' = ActiveIds  BY RowsStay
<1>2. RefsInv' /\ WorldInv' /\ ProbeInv' /\ PagerInv' /\ JobInv' /\ StatusInv'
  BY <1>1, RefsStay, WorldStays, ProbeStays, PagerStays, JobStays, StatusStays
<1> QED BY <1>1, <1>2

LEMMA NextPreserves ==
    ASSUME ProvInv, [ProvNext]_provVars PROVE ProvInv'
<1>1. CASE reconcile_directory_rejected
  BY <1>1, FailsPreserves DEF reconcile_directory_rejected
<1>2. CASE reconcile_directory  BY <1>2, ReconcileDirectoryPreserves
<1>3. CASE reconcile_next_manifest  BY <1>3, NextManifestPreserves
<1>4. CASE reconcile_stops  BY <1>4, FailsPreserves DEF reconcile_stops
<1>5. CASE reconcile_tombstones  BY <1>5, TombstonesPreserve
<1>6. CASE edit_manifests  BY <1>6, EditPreserves
<1>7. CASE (\E p \in DOMAIN regs, u \in Users : probe_broker(p, u)) \/ probe_sessions
  BY <1>7, ProbePreserves
<1>8. CASE apply_runtime_status  BY <1>8, ApplyStatusPreserves
<1>9. CASE apply_resources  BY <1>9, ApplyResourcesPreserves
<1>10. CASE browser_changes  BY <1>10, BrowserPreserves
<1>11. CASE ListSteps  BY <1>11, ListPreserves
<1>12. CASE portusd_crashes  BY <1>12, CrashPreserves
<1>13. CASE UNCHANGED provVars  BY <1>13, StutterPreserves DEF provVars
<1> QED BY <1>1, <1>2, <1>3, <1>4, <1>5, <1>6, <1>7, <1>8, <1>9, <1>10, <1>11, <1>12, <1>13
        DEF ProvNext, ManifestSteps, AdapterSteps

\* What the inductive invariant says of the rows.
LEMMA InvFitsTogether == ASSUME ProvInv PROVE RegistrationsFitTogether
<1> USE DEF ProvInv
<1>0. DOMAIN regs = 1 .. Len(regs) /\ Len(regs) \in Nat /\ \A p \in DOMAIN regs : regs[p] \in RegRows
  BY DEF RowsInv
<1>1. ProvTypeOK
  <2>1. \A p \in DOMAIN regs :
           /\ regs[p].type \in Types /\ regs[p].successor \in 0 .. Len(regs)
           /\ regs[p].health \in Healths
    <3> SUFFICES ASSUME NEW p \in DOMAIN regs
                 PROVE  /\ regs[p].type \in Types /\ regs[p].successor \in 0 .. Len(regs)
                        /\ regs[p].health \in Healths
      OBVIOUS
    <3>1. regs[p].type \in Types /\ regs[p].successor \in Nat /\ regs[p].health \in Healths
      BY <1>0 DEF RegRows
    <3>2. regs[p].successor # 0 => regs[p].successor \in 1 .. Len(regs)
      BY <1>0 DEF RowsInv, SuccessorInv
    <3> QED BY <3>1, <3>2, <1>0
  <2>2. \A r \in refs : /\ r.provider \in DOMAIN regs /\ r.owner \in Users
                        /\ r.availability \in Live \cup {"stale", "removed"}
    BY DEF RefsInv, Refs
  <2>3. job.op \in {"idle", "reconcile", "apply"}  BY DEF JobInv, Idle
  <2>4. registry.health \in {"unknown", "healthy", "degraded"}  BY DEF StatusInv
  <2>5. probe.stage \in {"none", "broker", "listed"}  BY DEF ProbeInv, NoProbe
  <2> QED BY <2>1, <2>2, <2>3, <2>4, <2>5 DEF ProvTypeOK, Healths
<1>2. UniqueActive
  <2> SUFFICES ASSUME NEW p \in ActiveIds, NEW q \in ActiveIds, regs[p].type = regs[q].type
               PROVE  p = q
    BY DEF UniqueActive
  <2>1. p \in DOMAIN regs /\ q \in DOMAIN regs  BY DEF ActiveIds
  <2>2. q <= p /\ p <= q  BY <2>1 DEF RowsInv, ActiveIsLast
  <2> QED BY <1>0, <2>1, <2>2
<1>3. StatusMatchesRows  BY DEF StatusInv, StatusMatchesRows, Free, Idle
<1>4. SuccessorChain
  <2> SUFFICES ASSUME NEW p \in DOMAIN regs
               PROVE  LET later == {q \in DOMAIN regs : q > p /\ regs[q].type = regs[p].type}
                      IN  /\ regs[p].removed /\ later # {} =>
                               /\ regs[p].successor \in later
                               /\ \A q \in later : regs[p].successor <= q
                          /\ later = {} => regs[p].successor = 0
    BY DEF SuccessorChain
  <2> DEFINE later == {q \in DOMAIN regs : q > p /\ regs[q].type = regs[p].type}
  <2>1. regs[p].successor # 0 => regs[p].successor \in later
    BY <1>0 DEF RowsInv, SuccessorInv
  <2>2. \A q \in later : /\ regs[p].removed => regs[p].successor # 0
                         /\ regs[p].successor # 0 => regs[p].successor <= q
    BY <1>0 DEF RowsInv, ChainInv
  <2> QED BY <2>1, <2>2
<1> QED BY <1>1, <1>2, <1>3, <1>4 DEF RegistrationsFitTogether, RowsInv

---------------------------------------------------------------------------
(***************************************************************************)
(* Theorems.                                                               *)
(***************************************************************************)
\* The inductive invariant holds in every reachable state of the registry.
THEOREM RegistryInvariant == ProvSpec => []ProvInv
<1>1. ProvInit => ProvInv  BY InitInv
<1>2. ProvInv /\ [ProvNext]_provVars => ProvInv'  BY NextPreserves
<1> QED BY <1>1, <1>2, PTL DEF ProvSpec

\* However manifests come, change, break and go, the rows of the registry fit
\* together (reconcile_directory_at, replace_provider_details).
THEOREM RowsFitTogether == ProvSpec => []RegistrationsFitTogether
<1>1. ProvInv => RegistrationsFitTogether  BY InvFitsTogether
<1> QED BY <1>1, RegistryInvariant, PTL

\* Nothing that is gone comes back, although probes are applied after what they
\* saw has changed (reconcile_provider_resource_refs).
THEOREM GoneStaysGone == ProvSpec => []NothingRevives
<1>1. ProvInv => NothingRevives  BY DEF ProvInv, RefsInv
<1> QED BY <1>1, RegistryInvariant, PTL

\* A client that pages through the list has seen every provider that was active
\* all the time, for every page limit (list_providers_visible).
THEOREM PagesAreComplete == ProvSpec => []PagingMissesNothing
<1>1. ProvInv => PagingMissesNothing  BY DEF ProvInv, PagerInv, PagingMissesNothing
<1> QED BY <1>1, RegistryInvariant, PTL

\* A registration is removed only by a reconciliation that read the whole, trusted
\* directory and found no manifest of its type (reconcile_directory_at).
THEOREM RemovalNeedsReconciliation == ProvSpec => OnlyMissingManifestsRemove
<1> DEFINE Justified == \A p \in ActiveIds : regs'[p].removed =>
              job.op = "reconcile" /\ job.todo = {} /\ job.found[regs[p].type] = NoFile
<1>1. ASSUME ProvInv, [ProvNext]_provVars PROVE Justified
  <2> USE DEF ProvInv
  <2>0. \A p \in ActiveIds : p \in DOMAIN regs /\ ~regs[p].removed  BY DEF ActiveIds
  <2>1. CASE UNCHANGED regs  BY <2>0, <2>1
  <2>2. CASE reconcile_next_manifest
    <3>1. PICK t \in job.todo : reconcile_provider_registration(t, Manifests[job.found[t]])
      BY <2>2 DEF reconcile_next_manifest
    <3>2. job.op = "reconcile"  BY <2>2 DEF reconcile_next_manifest
    <3>3. t \in Types /\ job.found[t] \in DOMAIN Manifests /\ validate(t, Manifests[job.found[t]])
      BY <1>1, <3>2, ReconcileShape
    <3>4. \A p \in DOMAIN regs : regs'[p].removed = regs[p].removed
      BY <1>1, <3>1, <3>3, Registered
    <3> QED BY <2>0, <3>4
  <2>3. CASE reconcile_tombstones
    <3> DEFINE seen == {t \in Types : job.found[t] # NoFile}
    <3>1. job.op = "reconcile" /\ job.todo = {} /\ tombstone_missing_system_providers(seen)
      BY <2>3 DEF reconcile_tombstones
    <3>2. DOMAIN regs' = DOMAIN regs /\ ActiveIds' = {p \in ActiveIds : regs[p].type \in seen}
      BY <1>1, <3>1, TombstonedRows
    <3>3. ASSUME NEW p \in ActiveIds, regs'[p].removed PROVE job.found[regs[p].type] = NoFile
      <4>1. p \notin ActiveIds'
        <5>1. ActiveIds' = {q \in DOMAIN regs' : ~regs'[q].removed}  BY DEF ActiveIds
        <5> QED BY <3>3, <5>1
      <4>2. regs[p].type \notin seen  BY <3>2, <4>1
      <4>3. regs \in Seq(RegRows) /\ p \in DOMAIN regs  BY <1>1, <2>0 DEF RowsInv
      <4>4. regs[p] \in RegRows  BY <4>3
      <4>5. regs[p].type \in Types  BY <4>4 DEF RegRows
      <4> QED BY <4>2, <4>5
    <3> QED BY <3>1, <3>3
  <2>4. CASE apply_runtime_status
    <3>1. UNCHANGED regs \/ update_provider_runtime_status(probe.provider,
                 projection(project_runtime(probe.broker, probe.list)))
      BY <2>4 DEF apply_runtime_status
    <3>2. \A p \in DOMAIN regs : regs'[p].removed = regs[p].removed
      BY <1>1, <3>1, StatusRow
    <3> QED BY <2>0, <3>2
  <2> QED BY <1>1, <2>1, <2>2, <2>3, <2>4
          DEF ProvNext, ManifestSteps, AdapterSteps, ListSteps, provVars, reconcile_directory_rejected,
              reconcile_directory, reconcile_stops, ReconcileFails, edit_manifests, probe_broker,
              probe_sessions, apply_resources, browser_changes, list_first_page, list_next_page,
              portusd_crashes
<1>2. ProvInv /\ [ProvNext]_provVars => [Justified]_provVars  BY <1>1
<1> QED BY <1>2, RegistryInvariant, PTL DEF ProvSpec, OnlyMissingManifestsRemove

---------------------------------------------------------------------------
(***************************************************************************)
(* Artifacts: what rows and threads of portusd hold.                       *)
(***************************************************************************)
Integrities == {"verified", "mismatch", "provider_authoritative"}
Stands == Contents \cup {Absent, Unreadable}
FileStates == [content : Stands, version : Nat]
ArtifactRows ==
    [id : Nat, owner : Principals, confidentiality : {"private", "shared", "public"},
     shares : SUBSET Principals, locator : Locators, digest : Contents \cup {Absent},
     retention : {"temporary", "until", "retained"}, expires : Nat, authority : Authorities,
     availability : {"available", "unavailable", "missing", "removed"}, integrity : Integrities,
     tasks : SUBSET Tasks, holds : SUBSET Holds, forgotten : BOOLEAN]
Specs ==
    [owner : Principals, locator : Locators, confidentiality : {"private", "shared", "public"},
     shared_with : Seq(Principals), retention : {"temporary", "until", "retained"}, expires : Nat,
     authority : Authorities, cleanup_ref : BOOLEAN, task : Tasks \cup {"none"},
     safe_text : BOOLEAN, digest : Contents \cup {Absent},
     integrity : {"verified", "provider_authoritative"}]
Results == [availability : {"available", "unavailable", "missing"}, integrity : Integrities]

\* What no operation changes in a row once it is written.
SameArtifact(v, w) ==
    /\ v.id = w.id /\ v.locator = w.locator /\ v.digest = w.digest
    /\ v.retention = w.retention /\ v.expires = w.expires /\ v.authority = w.authority

Past(row) == history[row.locator.path]
OtherContentSeen(row) == Past(row) \cap (Contents \ {row.digest}) # {}
Cleanable(row) ==
    /\ row.authority \in {"portus", "task"} /\ row.retention # "retained"
    /\ row.retention = "until" => row.expires <= now
InRegistry(l) == \E r \in refs : r.provider = l.provider /\ r.id = l.id /\ r.generation = l.generation

\* What a row says is backed, whether it is forgotten or not.
Grounded(row) ==
    /\ IsFile(row.locator) =>
         /\ row.digest \in Past(row) /\ row.authority # "provider"
         /\ row.integrity = "mismatch" => OtherContentSeen(row)
         /\ row.availability \in {"missing", "removed"} => Absent \in Past(row)
         /\ row.availability = "unavailable" => Unreadable \in Past(row)
    /\ ~IsFile(row.locator) => InRegistry(row.locator)
    /\ row.availability = "removed" => IsFile(row.locator) /\ Cleanable(row)

\* A view is what a thread captured of a row: the row may have changed since,
\* but only in the columns that change, and a mismatch stays justified.
Captured(view) ==
    /\ view \in ArtifactRows
    /\ view.id \in DOMAIN arts /\ SameArtifact(view, arts[view.id])
    /\ IsFile(view.locator) =>
         /\ view.authority # "provider"
         /\ view.integrity = "mismatch" => OtherContentSeen(view)

Inspecting(t, kind) ==
    /\ t.at \in {"inspect", "hashing"} /\ t.kind = kind
    /\ t = [at |-> t.at, kind |-> kind, path |-> t.path, stat |-> t.stat, view |-> t.view]
    /\ IsFile(t.view.locator) /\ t.path = t.view.locator.path /\ t.path \in Paths
    /\ t.stat \in FileStates
    /\ t.at = "hashing" => t.stat.content \in history[t.path]

Registering(t) == Inspecting(t, "register") /\ t.view \in Registrations
Reconciling(t) == Inspecting(t, "reconcile") /\ Captured(t.view)
Cleaning(t) == Inspecting(t, "cleanup") /\ Captured(t.view) /\ Cleanable(t.view)
Inserting(t) ==
    /\ t.at = "insert" /\ t = [at |-> "insert", spec |-> t.spec] /\ t.spec \in Specs
    /\ IsFile(t.spec.locator) => t.spec.digest \in history[t.spec.locator.path]
LookingUp(t) ==
    /\ t.at = "lookup" /\ t = [at |-> "lookup", view |-> t.view]
    /\ Captured(t.view) /\ ~IsFile(t.view.locator)
Observing(t) ==
    /\ t.at = "observe" /\ t = [at |-> "observe", view |-> t.view, result |-> t.result]
    /\ Captured(t.view) /\ t.result \in Results
    /\ IsFile(t.view.locator) =>
         /\ t.result.integrity = "mismatch" => OtherContentSeen(t.view)
         /\ t.result.availability = "missing" => Absent \in Past(t.view)
         /\ t.result.availability = "unavailable" => Unreadable \in Past(t.view)
Removing(t) ==
    /\ t.at \in {"remove", "mark"} /\ t = [at |-> t.at, view |-> t.view]
    /\ Captured(t.view) /\ IsFile(t.view.locator) /\ Cleanable(t.view)
    /\ t.at = "mark" => Absent \in Past(t.view)
Listing(t) ==
    /\ t.at \in {"paging", "listed"}
    /\ t = [at |-> t.at, cursor |-> t.cursor, seen |-> t.seen, steady |-> t.steady,
            stray |-> t.stray]
    /\ t.cursor \in Nat /\ t.stray = {}
    /\ t.seen \subseteq Nat /\ t.steady \subseteq Nat
    /\ \A a \in t.steady : a \in t.seen \/ (t.at = "paging" /\ a > t.cursor)

ThreadInv(t) ==
    \/ t = NoOp \/ Registering(t) \/ Reconciling(t) \/ Cleaning(t) \/ Inserting(t)
    \/ LookingUp(t) \/ Observing(t) \/ Removing(t) \/ Listing(t)

ShapeInv ==
    /\ arts \in Seq(ArtifactRows) /\ \A a \in DOMAIN arts : arts[a].id = a
    /\ DOMAIN lastEvent = DOMAIN arts
    /\ disk \in [Paths -> FileStates] /\ history \in [Paths -> SUBSET Stands]
    /\ \A p \in Paths : disk[p].content \in history[p]
    /\ now \in 1 .. MaxNow

\* The adapter's own references carry the first generation, so that the
\* registry's invariant survives them.
FirstGeneration == \A r \in refs : r.generation = 1

ArtInv ==
    /\ ProvInv /\ FirstGeneration
    /\ ShapeInv /\ EventsTellTheState
    /\ \A a \in DOMAIN arts : Grounded(arts[a])
    /\ op = [c \in Callers |-> op[c]] /\ \A c \in Callers : ThreadInv(op[c])

---------------------------------------------------------------------------
\* What was captured or concluded stays justified while the world goes on.

Grows ==
    /\ \A p \in Paths : history[p] \subseteq history'[p]
    /\ now \in Nat /\ now' \in Nat /\ now <= now'
    /\ \A r \in refs : \E s \in refs' :
         s.provider = r.provider /\ s.id = r.id /\ s.generation = r.generation
    /\ DOMAIN arts \subseteq DOMAIN arts'
    /\ \A a \in DOMAIN arts : SameArtifact(arts[a], arts'[a])

LEMMA FileHasPath == ASSUME NEW l \in Locators, IsFile(l) PROVE l.path \in Paths
BY DEF Locators, IsFile

LEMMA CleanableStays ==
    ASSUME NEW row \in ArtifactRows, Cleanable(row), Grows PROVE Cleanable(row)'
<1>1. row.expires \in Nat  BY DEF ArtifactRows
<1> QED BY <1>1 DEF Cleanable, Grows

LEMMA PastGrows ==
    ASSUME NEW row, row.locator \in Locators, IsFile(row.locator), Grows
    PROVE  /\ Past(row) \subseteq Past(row)'
           /\ OtherContentSeen(row) => OtherContentSeen(row)'
<1>1. row.locator.path \in Paths  BY FileHasPath
<1>2. Past(row) \subseteq Past(row)'  BY <1>1 DEF Past, Grows
<1> QED BY <1>2 DEF OtherContentSeen

LEMMA GroundedStays ==
    ASSUME NEW row \in ArtifactRows, Grounded(row), Grows PROVE Grounded(row)'
<1>1. row.locator \in Locators  BY DEF ArtifactRows
<1>2. CASE IsFile(row.locator)
  <2>1. Past(row) \subseteq Past(row)' /\ (OtherContentSeen(row) => OtherContentSeen(row)')
    BY <1>1, <1>2, PastGrows
  <2>2. row.availability = "removed" => Cleanable(row)'  BY CleanableStays DEF Grounded
  <2> QED BY <1>2, <2>1, <2>2 DEF Grounded
<1>3. CASE ~IsFile(row.locator)
  <2>1. InRegistry(row.locator)'
    <3>1. PICK r \in refs : /\ r.provider = row.locator.provider /\ r.id = row.locator.id
                            /\ r.generation = row.locator.generation
      BY <1>3 DEF Grounded, InRegistry
    <3>2. PICK s \in refs' : s.provider = r.provider /\ s.id = r.id /\ s.generation = r.generation
      BY DEF Grows
    <3> QED BY <3>1, <3>2 DEF InRegistry
  <2> QED BY <1>3, <2>1 DEF Grounded
<1> QED BY <1>2, <1>3

LEMMA CapturedStays ==
    ASSUME NEW view, Captured(view), Grows PROVE Captured(view)'
<1>1. view \in ArtifactRows /\ view.locator \in Locators  BY DEF Captured, ArtifactRows
<1>2. view.id \in DOMAIN arts' /\ SameArtifact(view, arts'[view.id])
  BY DEF Captured, Grows, SameArtifact
<1>3. IsFile(view.locator) /\ OtherContentSeen(view) => OtherContentSeen(view)'
  BY <1>1, PastGrows
<1> QED BY <1>1, <1>2, <1>3 DEF Captured

LEMMA ThreadStays ==
    ASSUME NEW t, ThreadInv(t), Grows PROVE ThreadInv(t)'
<1>1. ASSUME NEW kind, Inspecting(t, kind) PROVE Inspecting(t, kind)'
  BY <1>1 DEF Inspecting, Grows
<1>2. ASSUME Captured(t.view)
      PROVE  /\ Captured(t.view)'
             /\ Cleanable(t.view) => Cleanable(t.view)'
             /\ IsFile(t.view.locator) =>
                  /\ Past(t.view) \subseteq Past(t.view)'
                  /\ OtherContentSeen(t.view) => OtherContentSeen(t.view)'
  <2>1. t.view \in ArtifactRows /\ t.view.locator \in Locators
    BY <1>2 DEF Captured, ArtifactRows
  <2>2. Captured(t.view)'  BY <1>2, CapturedStays
  <2>3. Cleanable(t.view) => Cleanable(t.view)'  BY <2>1, CleanableStays
  <2>4. IsFile(t.view.locator) =>
          Past(t.view) \subseteq Past(t.view)' /\ (OtherContentSeen(t.view) => OtherContentSeen(t.view)')
    BY <2>1, PastGrows
  <2> QED BY <2>2, <2>3, <2>4
<1>3. CASE Registering(t)  BY <1>1, <1>3 DEF ThreadInv, Registering
<1>4. CASE Reconciling(t)  BY <1>1, <1>2, <1>4 DEF ThreadInv, Reconciling
<1>5. CASE Cleaning(t)  BY <1>1, <1>2, <1>5 DEF ThreadInv, Cleaning
<1>6. CASE Inserting(t)
  <2>1. t.spec.locator \in Locators  BY <1>6 DEF Inserting, Specs
  <2>2. IsFile(t.spec.locator) => t.spec.locator.path \in Paths  BY <2>1, FileHasPath
  <2>3. Inserting(t)'  BY <1>6, <2>2 DEF Inserting, Grows
  <2> QED BY <2>3 DEF ThreadInv
<1>7. CASE LookingUp(t)  BY <1>2, <1>7 DEF ThreadInv, LookingUp
<1>8. CASE Observing(t)
  <2>1. Observing(t)'  BY <1>2, <1>8 DEF Observing
  <2> QED BY <2>1 DEF ThreadInv
<1>9. CASE Removing(t)
  <2>1. Removing(t)'  BY <1>2, <1>9 DEF Removing
  <2> QED BY <2>1 DEF ThreadInv
<1>10. CASE Listing(t)  BY <1>10 DEF ThreadInv, Listing
<1>11. CASE t = NoOp  BY <1>11 DEF ThreadInv
<1> QED BY <1>3, <1>4, <1>5, <1>6, <1>7, <1>8, <1>9, <1>10, <1>11 DEF ThreadInv

\* Where a thread stands decides what it holds.
LEMMA ThreadCases ==
    ASSUME NEW t, ThreadInv(t)
    PROVE  /\ t.at \in {"inspect", "hashing"} =>
                /\ t.kind = "register" => Registering(t)
                /\ t.kind = "reconcile" => Reconciling(t)
                /\ t.kind = "cleanup" => Cleaning(t)
                /\ Inspecting(t, t.kind) /\ t.kind \in {"register", "reconcile", "cleanup"}
           /\ t.at = "insert" => Inserting(t)
           /\ t.at = "lookup" => LookingUp(t)
           /\ t.at = "observe" => Observing(t)
           /\ t.at \in {"remove", "mark"} => Removing(t)
           /\ t.at \in {"paging", "listed"} => Listing(t)
           /\ t.at \in {"idle", "inspect", "hashing", "insert", "lookup", "observe", "remove", "mark",
                        "paging", "listed"}
<1>1. CASE t = NoOp  BY <1>1 DEF NoOp
<1>2. CASE Registering(t)  BY <1>2 DEF Registering, Inspecting
<1>3. CASE Reconciling(t)  BY <1>3 DEF Reconciling, Inspecting
<1>4. CASE Cleaning(t)  BY <1>4 DEF Cleaning, Inspecting
<1>5. CASE Inserting(t)  BY <1>5 DEF Inserting
<1>6. CASE LookingUp(t)  BY <1>6 DEF LookingUp
<1>7. CASE Observing(t)  BY <1>7 DEF Observing
<1>8. CASE Removing(t)  BY <1>8 DEF Removing
<1>9. CASE Listing(t)  BY <1>9 DEF Listing
<1> QED BY <1>1, <1>2, <1>3, <1>4, <1>5, <1>6, <1>7, <1>8, <1>9 DEF ThreadInv

---------------------------------------------------------------------------
\* The parts of the state a step leaves alone, and the shapes of steps.

RegistryStands == UNCHANGED <<regs, refs, job, registry, dir, browser, probe, pager>>

LEMMA RegistryStays ==
    ASSUME ProvInv, FirstGeneration, RegistryStands PROVE ProvInv' /\ FirstGeneration'
BY StutterPreserves DEF FirstGeneration, RegistryStands

\* A thread and the position recorded for it, after a step.
LEMMA SameThread ==
    ASSUME NEW c \in Callers, NEW t, op'[c] = t, ThreadInv(t)' PROVE ThreadInv(op[c])'
<1>1. Captured(t.view)' => Captured(op[c].view)'
  BY DEF Captured, OtherContentSeen, Past
<1>2. Cleanable(t.view)' => Cleanable(op[c].view)'  BY DEF Cleanable
<1>3. ASSUME NEW kind, Inspecting(t, kind)' PROVE Inspecting(op[c], kind)'
  BY <1>3 DEF Inspecting
<1>4. CASE Registering(t)'
  <2>1. Registering(op[c])'  BY <1>3, <1>4 DEF Registering
  <2> QED BY <2>1 DEF ThreadInv
<1>5. CASE Reconciling(t)'
  <2>1. Reconciling(op[c])'  BY <1>1, <1>3, <1>5 DEF Reconciling
  <2> QED BY <2>1 DEF ThreadInv
<1>6. CASE Cleaning(t)'
  <2>1. Cleaning(op[c])'  BY <1>1, <1>2, <1>3, <1>6 DEF Cleaning
  <2> QED BY <2>1 DEF ThreadInv
<1>7. CASE Inserting(t)'
  <2>1. Inserting(op[c])'  BY <1>7 DEF Inserting
  <2> QED BY <2>1 DEF ThreadInv
<1>8. CASE LookingUp(t)'
  <2>1. LookingUp(op[c])'  BY <1>1, <1>8 DEF LookingUp
  <2> QED BY <2>1 DEF ThreadInv
<1>9. CASE Observing(t)'
  <2>1. Observing(op[c])'  BY <1>1, <1>9 DEF Observing, OtherContentSeen, Past
  <2> QED BY <2>1 DEF ThreadInv
<1>10. CASE Removing(t)'
  <2>1. Removing(op[c])'  BY <1>1, <1>2, <1>10 DEF Removing, Past
  <2> QED BY <2>1 DEF ThreadInv
<1>11. CASE Listing(t)'
  <2>1. Listing(op[c])'  BY <1>11 DEF Listing
  <2> QED BY <2>1 DEF ThreadInv
<1>12. CASE t = NoOp  BY <1>12 DEF ThreadInv
<1> QED BY <1>4, <1>5, <1>6, <1>7, <1>8, <1>9, <1>10, <1>11, <1>12 DEF ThreadInv

\* The threads of a step that changes the position of one of them.
LEMMA ThreadsPreserve ==
    ASSUME ArtInv, Grows, NEW c \in Callers, NEW t, op' = [op EXCEPT ![c] = t], ThreadInv(t)'
    PROVE  op' = [d \in Callers |-> op'[d]] /\ \A d \in Callers : ThreadInv(op[d])'
<1>1. op = [d \in Callers |-> op[d]] /\ \A d \in Callers : ThreadInv(op[d])  BY DEF ArtInv
<1>2. op' = [d \in Callers |-> IF d = c THEN t ELSE op[d]]  BY <1>1
<1>3. \A d \in Callers : op'[d] = IF d = c THEN t ELSE op[d]  BY <1>2
<1>4. op' = [d \in Callers |-> op'[d]]  BY <1>2
<1>5. ASSUME NEW d \in Callers PROVE ThreadInv(op[d])'
  <2>1. CASE d = c
    <3>1. op'[d] = t  BY <1>3, <2>1
    <3> QED BY <3>1, SameThread
  <2>2. CASE d # c
    <3>1. PICK u : u = op[d]  OBVIOUS
    <3>2. op'[d] = u /\ ThreadInv(u)  BY <1>1, <1>3, <2>2, <3>1
    <3>3. ThreadInv(u)'  BY <3>2, ThreadStays
    <3> QED BY <3>2, <3>3, SameThread
  <2> QED BY <2>1, <2>2
<1> QED BY <1>4, <1>5

\* The same row, looked at before and after it is written down.
LEMMA SameRow ==
    ASSUME NEW a, NEW row, arts'[a] = row, Grounded(row)' PROVE Grounded(arts[a])'
BY DEF Grounded, Cleanable, OtherContentSeen, Past, InRegistry

LEMMA RowsStand ==
    ASSUME ArtInv, Grows, NEW a \in DOMAIN arts, arts'[a] = arts[a] PROVE Grounded(arts[a])'
<1>1. PICK row : row = arts[a]  OBVIOUS
<1>2. row \in ArtifactRows /\ Grounded(row)  BY <1>1 DEF ArtInv, ShapeInv
<1>3. Grounded(row)'  BY <1>2, GroundedStays
<1> QED BY <1>1, <1>3, SameRow

\* A step of a thread that reads: nothing changes but its own position.
LEMMA ThreadMoves ==
    ASSUME ArtInv, NEW c \in Callers, NEW t, op' = [op EXCEPT ![c] = t], ThreadInv(t),
           RegistryStands, UNCHANGED <<arts, lastEvent, disk, history, now>>
    PROVE  ArtInv'
<1>1. ProvInv' /\ FirstGeneration'  BY RegistryStays DEF ArtInv
<1>2. Grows  BY DEF Grows, ArtInv, ShapeInv, RegistryStands, SameArtifact
<1>3. ThreadInv(t)'  BY <1>2, ThreadStays
<1>4. op' = [d \in Callers |-> op'[d]] /\ \A d \in Callers : ThreadInv(op[d])'
  BY <1>2, <1>3, ThreadsPreserve
<1>5. \A a \in DOMAIN arts' : Grounded(arts[a])'  BY <1>2, RowsStand
<1>6. ShapeInv' /\ EventsTellTheState'  BY DEF ArtInv, ShapeInv, EventsTellTheState, Rows
<1> QED BY <1>1, <1>4, <1>5, <1>6 DEF ArtInv

\* A step that writes one row and moves the thread that wrote it.
LEMMA RowWritten ==
    ASSUME ArtInv, NEW a \in DOMAIN arts, NEW row \in ArtifactRows, SameArtifact(arts[a], row),
           Grounded(row), arts' = [arts EXCEPT ![a] = row],
           DOMAIN lastEvent' = DOMAIN lastEvent,
           \A b \in DOMAIN arts : b # a => lastEvent'[b] = lastEvent[b],
           ~row.forgotten => /\ lastEvent'[a].availability = row.availability
                             /\ lastEvent'[a].integrity = row.integrity,
           NEW c \in Callers, NEW t, op' = [op EXCEPT ![c] = t], ThreadInv(t),
           RegistryStands, UNCHANGED <<disk, history, now>>
    PROVE  ArtInv'
<1>0. arts \in Seq(ArtifactRows) /\ \A b \in DOMAIN arts : arts[b].id = b  BY DEF ArtInv, ShapeInv
<1>1. ProvInv' /\ FirstGeneration'  BY RegistryStays DEF ArtInv
<1>2. /\ arts' \in Seq(ArtifactRows) /\ DOMAIN arts' = DOMAIN arts /\ arts'[a] = row
      /\ \A b \in DOMAIN arts : b # a => arts'[b] = arts[b]
  BY <1>0
<1>3. Grows  BY <1>2 DEF Grows, ArtInv, ShapeInv, RegistryStands, SameArtifact
<1>4. ThreadInv(t)'  BY <1>3, ThreadStays
<1>5. op' = [d \in Callers |-> op'[d]] /\ \A d \in Callers : ThreadInv(op[d])'
  BY <1>3, <1>4, ThreadsPreserve
<1>6. ASSUME NEW b \in DOMAIN arts' PROVE Grounded(arts[b])'
  <2>1. CASE b = a
    <3>1. Grounded(row)'  BY <1>3, GroundedStays
    <3> QED BY <1>2, <2>1, <3>1, SameRow
  <2>2. CASE b # a  BY <1>2, <1>3, <2>2, RowsStand
  <2> QED BY <2>1, <2>2
<1>7. ShapeInv'
  <2>1. \A b \in DOMAIN arts' : arts'[b].id = b  BY <1>0, <1>2 DEF SameArtifact
  <2> QED BY <1>2, <2>1 DEF ArtInv, ShapeInv
<1>8. EventsTellTheState'
  <2>1. \A b \in DOMAIN arts : ~arts[b].forgotten =>
           lastEvent[b].availability = arts[b].availability /\ lastEvent[b].integrity = arts[b].integrity
    BY DEF ArtInv, EventsTellTheState, Rows
  <2>2. \A b \in DOMAIN arts' : ~arts'[b].forgotten =>
           lastEvent'[b].availability = arts'[b].availability /\ lastEvent'[b].integrity = arts'[b].integrity
    BY <1>2, <2>1
  <2> QED BY <2>2 DEF EventsTellTheState, Rows
<1> QED BY <1>1, <1>5, <1>6, <1>7, <1>8 DEF ArtInv

\* A step of the outside world: files change, time passes, the registry moves on.
LEMMA WorldMoves ==
    ASSUME ArtInv, ProvInv', FirstGeneration', UNCHANGED <<arts, lastEvent, op>>,
           \A r \in refs : \E s \in refs' :
              s.provider = r.provider /\ s.id = r.id /\ s.generation = r.generation,
           disk' \in [Paths -> FileStates], history' \in [Paths -> SUBSET Stands],
           \A p \in Paths : history[p] \subseteq history'[p] /\ disk'[p].content \in history'[p],
           now' \in 1 .. MaxNow, now <= now'
    PROVE  ArtInv'
<1>1. MaxNow \in Nat /\ now \in 1 .. MaxNow  BY ArtifactAssumption DEF ArtInv, ShapeInv
<1>2. Grows  BY <1>1 DEF Grows, SameArtifact
<1>3. ASSUME NEW c \in Callers PROVE ThreadInv(op[c])'
  <2>1. PICK u : u = op[c]  OBVIOUS
  <2>2. op'[c] = u /\ ThreadInv(u)  BY <2>1 DEF ArtInv
  <2>3. ThreadInv(u)'  BY <1>2, <2>2, ThreadStays
  <2> QED BY <2>2, <2>3, SameThread
<1>4. \A a \in DOMAIN arts' : Grounded(arts[a])'  BY <1>2, RowsStand
<1>5. ShapeInv' /\ EventsTellTheState'  BY DEF ArtInv, ShapeInv, EventsTellTheState, Rows
<1>6. op' = [c \in Callers |-> op'[c]]  BY DEF ArtInv
<1> QED BY <1>3, <1>4, <1>5, <1>6 DEF ArtInv

---------------------------------------------------------------------------
\* What the operations compute.

LEMMA PreparedSpecs ==
    ASSUME NEW r \in Registrations
    PROVE  /\ \A d \in Contents :
                LET s == prepare_filesystem_registration(r, d)
                IN  s \in Specs /\ s.locator = r.locator /\ s.digest = d
           /\ LET s == prepare_provider_registration(r)
              IN  s \in Specs /\ s.locator = r.locator
BY DEF Registrations, Specs, prepare_filesystem_registration, prepare_provider_registration

\* The outcome of looking at a file is a fact about something that stood there.
LEMMA FoundIsPast ==
    ASSUME ArtInv, NEW c \in Callers, op[c].at = "hashing", Inspecting(op[c], op[c].kind)
    PROVE  LET found == inspect_filesystem(c)
               past == history[op[c].path]
           IN  /\ found.error \in {"not_found", "io", "changed", "none"}
               /\ found.error = "not_found" => Absent \in past
               /\ found.error = "io" => Unreadable \in past
               /\ found.error = "none" => found.sha256 \in past /\ found.sha256 \in Contents
<1> DEFINE f == disk[op[c].path]
           stat == op[c].stat
           past == history[op[c].path]
<1>1. op[c].path \in Paths  BY DEF Inspecting
<1>2. /\ f \in FileStates /\ f.content \in past /\ past \subseteq Stands
  BY <1>1 DEF ArtInv, ShapeInv
<1>3. stat.content \in past  BY DEF Inspecting
<1>4. inspect_filesystem(c) =
        IF stat.content = Absent THEN [error |-> "not_found"]
        ELSE IF stat.content = Unreadable THEN [error |-> "io"]
        ELSE IF f.content = Absent THEN [error |-> "not_found"]
        ELSE IF f.content = Unreadable THEN [error |-> "io"]
        ELSE IF f # stat THEN [error |-> "changed"]
        ELSE [error |-> "none", sha256 |-> f.content]
  BY DEF inspect_filesystem
<1> HIDE DEF f, stat, past
<1>5. CASE stat.content = Absent \/ (f.content = Absent /\ stat.content # Unreadable)
  <2>1. inspect_filesystem(c) = [error |-> "not_found"]  BY <1>4, <1>5 DEF Absent, Unreadable
  <2>2. Absent \in past  BY <1>2, <1>3, <1>5
  <2> QED BY <2>1, <2>2 DEF past
<1>6. CASE stat.content = Unreadable \/ (f.content = Unreadable /\ stat.content # Absent)
  <2>1. inspect_filesystem(c) = [error |-> "io"]  BY <1>4, <1>6 DEF Absent, Unreadable
  <2>2. Unreadable \in past  BY <1>2, <1>3, <1>6
  <2> QED BY <2>1, <2>2 DEF past
<1>7. CASE stat.content \notin {Absent, Unreadable} /\ f.content \notin {Absent, Unreadable}
  <2>1. CASE f # stat
    <3>1. inspect_filesystem(c) = [error |-> "changed"]  BY <1>4, <1>7, <2>1
    <3> QED BY <3>1
  <2>2. CASE f = stat
    <3>1. inspect_filesystem(c) = [error |-> "none", sha256 |-> f.content]
      BY <1>4, <1>7, <2>2
    <3>2. f.content \in Contents  BY <1>2, <1>7 DEF FileStates, Stands
    <3> QED BY <3>1, <3>2, <1>2 DEF past
  <2> QED BY <2>1, <2>2
<1> QED BY <1>5, <1>6, <1>7

LEMMA EventWritten ==
    ASSUME ArtInv, NEW a \in DOMAIN arts, NEW kind, NEW row, insert_artifact_event(a, kind, row)
    PROVE  /\ DOMAIN lastEvent' = DOMAIN lastEvent
           /\ \A b \in DOMAIN arts : b # a => lastEvent'[b] = lastEvent[b]
           /\ lastEvent'[a].availability = row.availability
           /\ lastEvent'[a].integrity = row.integrity
<1>1. DOMAIN lastEvent = DOMAIN arts  BY DEF ArtInv, ShapeInv
<1> QED BY <1>1 DEF insert_artifact_event, Event

LEMMA CapturedNow ==
    ASSUME ArtInv, NEW a \in DOMAIN arts, NEW view, view = arts[a] PROVE Captured(view) /\ Grounded(view)
<1>1. view \in ArtifactRows /\ view.id = a /\ Grounded(view)  BY DEF ArtInv, ShapeInv
<1> QED BY <1>1 DEF Captured, SameArtifact, Grounded

\* What is eligible for cleanup may be cleaned up.
LEMMA EligibleIsCleanable ==
    ASSUME ArtInv, NEW a \in DOMAIN arts, IsFile(arts[a].locator),
           artifact_cleanup_eligibility(a, now) = "Eligible"
    PROVE  Cleanable(arts[a])
<1> DEFINE row == arts[a]
<1>1. row \in ArtifactRows /\ Grounded(row)  BY DEF ArtInv, ShapeInv
<1>2. row.authority # "none"  BY DEF artifact_cleanup_eligibility
<1>3. row.retention # "retained"  BY <1>2 DEF artifact_cleanup_eligibility
<1>4. ~(row.retention = "until" /\ row.expires > now)
  BY <1>2, <1>3 DEF artifact_cleanup_eligibility
<1>5. row.authority \in {"portus", "task"}  BY <1>1, <1>2 DEF ArtifactRows, Authorities, Grounded
<1>6. row.expires \in Nat /\ now \in Nat  BY <1>1 DEF ArtifactRows, ArtInv, ShapeInv
<1> QED BY <1>3, <1>4, <1>5, <1>6 DEF Cleanable

---------------------------------------------------------------------------
\* Registration.

LEMMA LooksAt ==
    ASSUME ArtInv, NEW kind, NEW view, view.locator \in Locators, IsFile(view.locator)
    PROVE  LET t == Looking(kind, view.locator.path, view)
           IN  Inspecting(t, kind) /\ t.view = view
<1>1. view.locator.path \in Paths  BY FileHasPath
<1>2. [content |-> Absent, version |-> 0] \in FileStates  BY DEF FileStates, Stands
<1> QED BY <1>1, <1>2 DEF Looking, Inspecting

\* The looking thread goes on to read the content.
LEMMA InspectStartsPreserves ==
    ASSUME ArtInv, NEW c \in Callers, inspect_starts(c) PROVE ArtInv'
<1> DEFINE f == disk[op[c].path]
<1>1. PICK t : t = [op[c] EXCEPT !.at = "hashing", !.stat = f]  OBVIOUS
<1>2. op' = [op EXCEPT ![c] = t]  BY <1>1 DEF inspect_starts, Goto
<1>3. ThreadInv(op[c]) /\ op[c].at = "inspect"  BY DEF ArtInv, inspect_starts
<1>4. Inspecting(op[c], op[c].kind)  BY <1>3, ThreadCases
<1>5. f \in FileStates /\ f.content \in history[op[c].path]
  BY <1>4 DEF Inspecting, ArtInv, ShapeInv
<1>6. /\ t = [at |-> "hashing", kind |-> op[c].kind, path |-> op[c].path, stat |-> f,
              view |-> op[c].view]
  BY <1>1, <1>4 DEF Inspecting
<1> HIDE DEF f
<1>7. Inspecting(t, op[c].kind) /\ t.view = op[c].view /\ t.kind = op[c].kind
  BY <1>4, <1>5, <1>6 DEF Inspecting
<1>8. ThreadInv(t)
  <2>1. op[c].kind \in {"register", "reconcile", "cleanup"}  BY <1>3, ThreadCases
  <2>2. CASE op[c].kind = "register"
    <3>1. Registering(op[c])  BY <1>3, <2>2, ThreadCases
    <3> QED BY <1>7, <2>2, <3>1 DEF ThreadInv, Registering
  <2>3. CASE op[c].kind = "reconcile"
    <3>1. Reconciling(op[c])  BY <1>3, <2>3, ThreadCases
    <3> QED BY <1>7, <2>3, <3>1 DEF ThreadInv, Reconciling
  <2>4. CASE op[c].kind = "cleanup"
    <3>1. Cleaning(op[c])  BY <1>3, <2>4, ThreadCases
    <3> QED BY <1>7, <2>4, <3>1 DEF ThreadInv, Cleaning
  <2> QED BY <2>1, <2>2, <2>3, <2>4
<1> QED BY <1>2, <1>8, ThreadMoves DEF inspect_starts, RegistryStands, provVars

LEMMA RegisterStartsPreserves ==
    ASSUME ArtInv, NEW c \in Callers, NEW r \in Requests, register_starts(c, r) PROVE ArtInv'
<1>1. r \in Registrations  BY ArtifactAssumption
<1>2. r.locator \in Locators  BY <1>1 DEF Registrations
<1>3. UNCHANGED <<arts, lastEvent, disk, history, now>> /\ RegistryStands
  BY DEF register_starts, RegistryStands, provVars
<1>4. ThreadInv(NoOp)  BY DEF ThreadInv
<1>5. CASE IsFile(r.locator)
  <2>1. PICK t : t = Looking("register", r.locator.path, r)  OBVIOUS
  <2>2. op' = [op EXCEPT ![c] = t]  BY <1>5, <2>1 DEF register_starts, Goto
  <2>3. ThreadInv(t)  BY <1>1, <1>2, <1>5, <2>1, LooksAt DEF ThreadInv, Registering
  <2> QED BY <1>3, <2>2, <2>3, ThreadMoves
<1>6. CASE ~IsFile(r.locator)
  <2>1. PICK s : s = prepare_provider_registration(r)  OBVIOUS
  <2>2. s \in Specs /\ s.locator = r.locator  BY <1>1, <2>1, PreparedSpecs
  <2>3. PICK t : t = IF validate_registration_spec(s) THEN [at |-> "insert", spec |-> s] ELSE NoOp
    OBVIOUS
  <2>4. op' = [op EXCEPT ![c] = t]  BY <1>6, <2>1, <2>3 DEF register_starts, Goto
  <2>5. ThreadInv(t)  BY <1>4, <1>6, <2>2, <2>3 DEF ThreadInv, Inserting
  <2> QED BY <1>3, <2>4, <2>5, ThreadMoves
<1> QED BY <1>5, <1>6

LEMMA RegisterInspectedPreserves ==
    ASSUME ArtInv, NEW c \in Callers, register_inspected(c) PROVE ArtInv'
<1>1. UNCHANGED <<arts, lastEvent, disk, history, now>> /\ RegistryStands
  BY DEF register_inspected, RegistryStands, provVars
<1>2. op[c].at = "hashing" /\ op[c].kind = "register" /\ ThreadInv(op[c])
  BY DEF register_inspected, ArtInv
<1>3. Registering(op[c]) /\ Inspecting(op[c], op[c].kind)  BY <1>2, ThreadCases
<1>4. PICK found : found = inspect_filesystem(c)  OBVIOUS
<1>5. PICK s : s = prepare_filesystem_registration(op[c].view, found.sha256)  OBVIOUS
<1>6. PICK t : t = IF found.error = "none" /\ validate_registration_spec(s)
                   THEN [at |-> "insert", spec |-> s] ELSE NoOp
  OBVIOUS
<1>7. op' = [op EXCEPT ![c] = t]  BY <1>4, <1>5, <1>6 DEF register_inspected, Goto
<1>8. ThreadInv(t)
  <2>1. CASE found.error = "none"
    <3>1. found.sha256 \in history[op[c].path] /\ found.sha256 \in Contents
      BY <1>2, <1>3, <1>4, <2>1, FoundIsPast
    <3>2. op[c].view \in Registrations /\ op[c].path = op[c].view.locator.path
      BY <1>3 DEF Registering, Inspecting
    <3>3. s \in Specs /\ s.locator = op[c].view.locator /\ s.digest = found.sha256
      BY <1>5, <3>1, <3>2, PreparedSpecs
    <3> QED BY <1>6, <3>1, <3>2, <3>3 DEF ThreadInv, Inserting
  <2>2. CASE found.error # "none"  BY <1>6, <2>2 DEF ThreadInv
  <2> QED BY <2>1, <2>2
<1> QED BY <1>1, <1>7, <1>8, ThreadMoves

\* A registration appends a row that is grounded.
LEMMA Appended ==
    ASSUME ArtInv, NEW s \in Specs, register_artifact(s),
           IsFile(s.locator) => s.digest \in history[s.locator.path]
    PROVE  \E row \in ArtifactRows :
             /\ row.id = Len(arts) + 1 /\ arts' = Append(arts, row) /\ Grounded(row)
             /\ insert_artifact_event(Len(arts) + 1, "registered", row)
<1> DEFINE a == Len(arts) + 1
           new == [id |-> a, owner |-> s.owner, confidentiality |-> s.confidentiality,
                   shares |-> Range(s.shared_with), locator |-> s.locator, digest |-> s.digest,
                   retention |-> s.retention, expires |-> s.expires, authority |-> s.authority,
                   availability |-> "available", integrity |-> s.integrity,
                   tasks |-> {s.task} \ {"none"}, holds |-> {}, forgotten |-> FALSE]
<1>1. /\ validate_stored_spec(s) /\ validate_provider_relationship(s)
      /\ arts' = Append(arts, new) /\ insert_artifact_event(a, "registered", new)
  BY DEF register_artifact
<1>2. a \in Nat  BY DEF ArtInv, ShapeInv
<1>3. Range(s.shared_with) \subseteq Principals
  <2>1. s.shared_with \in Seq(Principals)  BY DEF Specs
  <2> QED BY <2>1 DEF Range
<1>4. {s.task} \ {"none"} \subseteq Tasks  BY DEF Specs
<1>5. new \in ArtifactRows
  BY <1>2, <1>3, <1>4 DEF Specs, ArtifactRows, Integrities
<1>6. Grounded(new)
  <2>1. CASE IsFile(s.locator)
    <3>1. s.authority # "provider" /\ s.integrity = "verified"
      BY <1>1, <2>1 DEF validate_stored_spec
    <3>2. s.digest \in history[s.locator.path]  BY <2>1
    <3> QED BY <2>1, <3>1, <3>2 DEF Grounded, Past
  <2>2. CASE ~IsFile(s.locator)
    <3>1. InRegistry(s.locator)  BY <1>1, <2>2 DEF validate_provider_relationship, InRegistry
    <3> QED BY <2>2, <3>1 DEF Grounded
  <2> QED BY <2>1, <2>2
<1> QED BY <1>1, <1>5, <1>6

LEMMA RegisterInsertsPreserves ==
    ASSUME ArtInv, NEW c \in Callers, register_inserts(c) PROVE ArtInv'
<1>1. UNCHANGED <<disk, history, now>> /\ RegistryStands /\ op' = [op EXCEPT ![c] = NoOp]
  BY DEF register_inserts, RegistryStands, provVars, Goto
<1>2. Inserting(op[c])
  <2>1. op[c].at = "insert" /\ ThreadInv(op[c])  BY DEF register_inserts, ArtInv
  <2> QED BY <2>1, ThreadCases
<1>3. ThreadInv(NoOp) /\ ThreadInv(NoOp)'  BY DEF ThreadInv
<1>4. CASE UNCHANGED <<arts, lastEvent>>  BY <1>1, <1>3, <1>4, ThreadMoves
<1>5. CASE register_artifact(op[c].spec)
  <2>1. PICK s : s = op[c].spec  OBVIOUS
  <2>2. s \in Specs /\ (IsFile(s.locator) => s.digest \in history[s.locator.path])
    BY <1>2, <2>1 DEF Inserting
  <2>3. PICK row \in ArtifactRows :
           /\ row.id = Len(arts) + 1 /\ arts' = Append(arts, row) /\ Grounded(row)
           /\ insert_artifact_event(Len(arts) + 1, "registered", row)
    BY <1>5, <2>1, <2>2, Appended
  <2> DEFINE a == Len(arts) + 1
  <2>4. /\ arts \in Seq(ArtifactRows) /\ DOMAIN arts = 1 .. Len(arts) /\ Len(arts) \in Nat
        /\ DOMAIN lastEvent = DOMAIN arts /\ \A b \in DOMAIN arts : arts[b].id = b
    BY DEF ArtInv, ShapeInv
  <2>5. /\ arts' \in Seq(ArtifactRows) /\ DOMAIN arts' = DOMAIN arts \cup {a} /\ arts'[a] = row
        /\ \A b \in DOMAIN arts : arts'[b] = arts[b]
    BY <2>3, <2>4
  <2>6. /\ DOMAIN lastEvent' = DOMAIN arts' /\ lastEvent'[a].availability = row.availability
        /\ lastEvent'[a].integrity = row.integrity
        /\ \A b \in DOMAIN arts : lastEvent'[b] = lastEvent[b]
    BY <2>3, <2>4, <2>5 DEF insert_artifact_event, Event
  <2>7. Grows  BY <1>1, <2>5 DEF Grows, ArtInv, ShapeInv, RegistryStands, SameArtifact
  <2>8. ASSUME NEW b \in DOMAIN arts' PROVE Grounded(arts[b])'
    <3>1. CASE b = a
      <4>1. Grounded(row)'  BY <2>3, <2>7, GroundedStays
      <4> QED BY <2>5, <3>1, <4>1, SameRow
    <3>2. CASE b \in DOMAIN arts  BY <2>5, <2>7, <3>2, RowsStand
    <3> QED BY <2>5, <3>1, <3>2
  <2>9. ShapeInv'
    <3>1. \A b \in DOMAIN arts' : arts'[b].id = b  BY <2>3, <2>4, <2>5
    <3> QED BY <1>1, <2>5, <2>6, <3>1 DEF ArtInv, ShapeInv
  <2>10. EventsTellTheState'
    <3>1. \A b \in DOMAIN arts : ~arts[b].forgotten =>
             lastEvent[b].availability = arts[b].availability /\ lastEvent[b].integrity = arts[b].integrity
      BY DEF ArtInv, EventsTellTheState, Rows
    <3>2. \A b \in DOMAIN arts' : ~arts'[b].forgotten =>
             lastEvent'[b].availability = arts'[b].availability /\ lastEvent'[b].integrity = arts'[b].integrity
      BY <2>5, <2>6, <3>1
    <3> QED BY <3>2 DEF EventsTellTheState, Rows
  <2>11. ProvInv' /\ FirstGeneration'  BY <1>1, RegistryStays DEF ArtInv
  <2>12. op' = [d \in Callers |-> op'[d]] /\ \A d \in Callers : ThreadInv(op[d])'
    BY <1>1, <1>3, <2>7, ThreadsPreserve
  <2> QED BY <2>8, <2>9, <2>10, <2>11, <2>12 DEF ArtInv
<1> QED BY <1>4, <1>5 DEF register_inserts

---------------------------------------------------------------------------
\* Reconciliation.

LEMMA ReconcileStartsPreserves ==
    ASSUME ArtInv, NEW c \in Callers, NEW a \in DOMAIN arts, reconcile_starts(c, a) PROVE ArtInv'
<1>1. UNCHANGED <<arts, lastEvent, disk, history, now>> /\ RegistryStands
  BY DEF reconcile_starts, RegistryStands, provVars
<1>2. PICK view : view = arts[a]  OBVIOUS
<1>3. Captured(view) /\ view.locator \in Locators
  BY <1>2, CapturedNow DEF Captured, ArtifactRows
<1>4. PICK t : t = IF IsFile(view.locator) THEN Looking("reconcile", view.locator.path, view)
                   ELSE [at |-> "lookup", view |-> view]
  OBVIOUS
<1>5. op' = [op EXCEPT ![c] = t]
  BY <1>2, <1>4 DEF reconcile_starts, Goto, artifact_view_visible
<1>6. CASE IsFile(view.locator)
  <2>1. Inspecting(t, "reconcile") /\ t.view = view  BY <1>3, <1>4, <1>6, LooksAt
  <2>2. ThreadInv(t)  BY <1>3, <2>1 DEF ThreadInv, Reconciling
  <2> QED BY <1>1, <1>5, <2>2, ThreadMoves
<1>7. CASE ~IsFile(view.locator)
  <2>1. t = [at |-> "lookup", view |-> view]  BY <1>4, <1>7
  <2>2. ThreadInv(t)  BY <1>3, <1>7, <2>1 DEF ThreadInv, LookingUp
  <2> QED BY <1>1, <1>5, <2>2, ThreadMoves
<1> QED BY <1>6, <1>7

LEMMA ReconcileInspectedPreserves ==
    ASSUME ArtInv, NEW c \in Callers, reconcile_inspected(c) PROVE ArtInv'
<1>1. UNCHANGED <<arts, lastEvent, disk, history, now>> /\ RegistryStands
  BY DEF reconcile_inspected, RegistryStands, provVars
<1>2. op[c].at = "hashing" /\ op[c].kind = "reconcile" /\ ThreadInv(op[c])
  BY DEF reconcile_inspected, ArtInv
<1>3. Reconciling(op[c]) /\ Inspecting(op[c], op[c].kind)  BY <1>2, ThreadCases
<1>4. PICK found : found = inspect_filesystem(c)  OBVIOUS
<1>5. PICK view : view = op[c].view  OBVIOUS
<1>6. /\ Captured(view) /\ IsFile(view.locator) /\ op[c].path = view.locator.path
      /\ view \in ArtifactRows
  BY <1>3, <1>5 DEF Reconciling, Inspecting, Captured
<1>7. PICK t : t = IF found.error = "changed" THEN NoOp
                   ELSE Observed(view, reconcile_filesystem(view, found))
  OBVIOUS
<1>8. op' = [op EXCEPT ![c] = t]  BY <1>4, <1>5, <1>7 DEF reconcile_inspected, Goto
<1>9. /\ found.error \in {"not_found", "io", "changed", "none"}
      /\ found.error = "not_found" => Absent \in Past(view)
      /\ found.error = "io" => Unreadable \in Past(view)
      /\ found.error = "none" => found.sha256 \in Past(view) /\ found.sha256 \in Contents
  BY <1>2, <1>3, <1>4, <1>6, FoundIsPast DEF Past
<1>10. view.integrity \in Integrities /\ (view.integrity = "mismatch" => OtherContentSeen(view))
  BY <1>6 DEF Captured, ArtifactRows
<1>11. ThreadInv(t)
  <2>1. CASE found.error = "changed"  BY <1>7, <2>1 DEF ThreadInv
  <2>2. CASE found.error = "not_found"
    <3>1. t = [at |-> "observe", view |-> view,
               result |-> [availability |-> "missing", integrity |-> view.integrity]]
      BY <1>7, <2>2 DEF Observed, reconcile_filesystem
    <3>2. Observing(t)  BY <1>6, <1>9, <1>10, <2>2, <3>1 DEF Observing, Results
    <3> QED BY <3>2 DEF ThreadInv
  <2>3. CASE found.error = "io"
    <3>1. t = [at |-> "observe", view |-> view,
               result |-> [availability |-> "unavailable", integrity |-> view.integrity]]
      BY <1>7, <2>3 DEF Observed, reconcile_filesystem
    <3>2. Observing(t)  BY <1>6, <1>9, <1>10, <2>3, <3>1 DEF Observing, Results
    <3> QED BY <3>2 DEF ThreadInv
  <2>4. CASE found.error = "none"
    <3> DEFINE verdict == IF found.sha256 = view.digest THEN "verified" ELSE "mismatch"
    <3>1. t = [at |-> "observe", view |-> view,
               result |-> [availability |-> "available", integrity |-> verdict]]
      BY <1>7, <2>4 DEF Observed, reconcile_filesystem
    <3>2. verdict \in Integrities /\ (verdict = "mismatch" => OtherContentSeen(view))
      BY <1>9, <2>4 DEF Integrities, OtherContentSeen
    <3> HIDE DEF verdict
    <3>3. Observing(t)  BY <1>6, <3>1, <3>2 DEF Observing, Results
    <3> QED BY <3>3 DEF ThreadInv
  <2> QED BY <1>9, <2>1, <2>2, <2>3, <2>4
<1> QED BY <1>1, <1>8, <1>11, ThreadMoves

LEMMA ReconcileLookupPreserves ==
    ASSUME ArtInv, NEW c \in Callers, reconcile_lookup(c) PROVE ArtInv'
<1>1. UNCHANGED <<arts, lastEvent, disk, history, now>> /\ RegistryStands
  BY DEF reconcile_lookup, RegistryStands, provVars
<1>2. LookingUp(op[c])
  <2>1. op[c].at = "lookup" /\ ThreadInv(op[c])  BY DEF reconcile_lookup, ArtInv
  <2> QED BY <2>1, ThreadCases
<1>3. PICK view : view = op[c].view  OBVIOUS
<1>4. Captured(view) /\ ~IsFile(view.locator) /\ view.integrity \in Integrities
  BY <1>2, <1>3 DEF LookingUp, Captured, ArtifactRows
<1>5. PICK ref : ref = provider_resource_availability(view.locator.provider, view.locator.id,
                                                      view.locator.generation)
  OBVIOUS
<1>6. PICK seen : seen = CASE ref = "available" -> "available"
                            [] ref = "unavailable" -> "unavailable"
                            [] ref \in {"stale", "removed", "none"} -> "missing"
  OBVIOUS
<1>7. op' = [op EXCEPT ![c] = Observed(view, [availability |-> seen, integrity |-> view.integrity])]
  BY <1>3, <1>5, <1>6 DEF reconcile_lookup, Goto
<1>8. ref \in {"available", "unavailable", "stale", "removed", "none"}
  <2> DEFINE found == {r \in refs : /\ r.provider = view.locator.provider /\ r.id = view.locator.id
                                    /\ r.generation = view.locator.generation}
  <2>1. CASE found = {}  BY <1>5, <2>1 DEF provider_resource_availability
  <2>2. CASE found # {}
    <3>1. (CHOOSE r \in found : TRUE) \in found  BY <2>2
    <3>2. refs \subseteq Refs  BY DEF ArtInv, ProvInv, RefsInv
    <3>3. ref = (CHOOSE r \in found : TRUE).availability
      BY <1>5, <2>2 DEF provider_resource_availability
    <3> QED BY <3>1, <3>2, <3>3 DEF Refs, Live
  <2> QED BY <2>1, <2>2
<1>9. seen \in {"available", "unavailable", "missing"}  BY <1>6, <1>8
<1>10. PICK t : t = Observed(view, [availability |-> seen, integrity |-> view.integrity])  OBVIOUS
<1>11. ThreadInv(t)
  <2>1. t = [at |-> "observe", view |-> view,
             result |-> [availability |-> seen, integrity |-> view.integrity]]
    BY <1>10 DEF Observed
  <2>2. Observing(t)  BY <1>4, <1>9, <2>1 DEF Observing, Results
  <2> QED BY <2>2 DEF ThreadInv
<1> QED BY <1>1, <1>7, <1>10, <1>11, ThreadMoves

\* A result is written to the row as it is now, not as it was captured.
LEMMA ObservationPreserves ==
    ASSUME ArtInv, NEW c \in Callers, NEW view, NEW result, Captured(view), result \in Results,
           IsFile(view.locator) =>
             /\ result.integrity = "mismatch" => OtherContentSeen(view)
             /\ result.availability = "missing" => Absent \in Past(view)
             /\ result.availability = "unavailable" => Unreadable \in Past(view),
           update_artifact_observation(view.id, result),
           op' = [op EXCEPT ![c] = NoOp], RegistryStands, UNCHANGED <<disk, history, now>>
    PROVE  ArtInv'
<1>1. PICK a : a = view.id  OBVIOUS
<1>2. a \in DOMAIN arts /\ SameArtifact(view, arts[a])  BY <1>1 DEF Captured
<1>3. PICK old : old = arts[a]  OBVIOUS
<1>4. old \in ArtifactRows /\ Grounded(old)  BY <1>2, <1>3 DEF ArtInv, ShapeInv
<1>5. PICK row : row = [old EXCEPT !.availability = result.availability,
                                   !.integrity = result.integrity]
  OBVIOUS
<1>6. /\ row \in ArtifactRows /\ SameArtifact(old, row) /\ SameArtifact(view, row)
      /\ row.availability = result.availability /\ row.integrity = result.integrity
  <2>1. row \in ArtifactRows  BY <1>4, <1>5 DEF ArtifactRows, Results
  <2>2. /\ SameArtifact(old, row)
        /\ row.availability = result.availability /\ row.integrity = result.integrity
    BY <1>4, <1>5 DEF ArtifactRows, SameArtifact
  <2>3. SameArtifact(view, row)  BY <1>2, <1>3, <2>2 DEF SameArtifact
  <2> QED BY <2>1, <2>2, <2>3
<1>7. Grounded(row)
  <2>1. CASE IsFile(row.locator)
    <3>1. Past(row) = Past(view) /\ (OtherContentSeen(row) <=> OtherContentSeen(view))
      BY <1>6 DEF Past, OtherContentSeen, SameArtifact
    <3>2. row.digest \in Past(row) /\ row.authority # "provider"
      BY <1>4, <1>6, <2>1 DEF Grounded, Past, SameArtifact
    <3>3. IsFile(view.locator)  BY <1>6, <2>1 DEF SameArtifact
    <3>4. row.availability # "removed"  BY <1>6 DEF Results
    <3> QED BY <1>6, <2>1, <3>1, <3>2, <3>3, <3>4 DEF Grounded
  <2>2. CASE ~IsFile(row.locator)
    <3>1. row.availability # "removed"  BY <1>6 DEF Results
    <3>2. InRegistry(row.locator)  BY <1>4, <1>6, <2>2 DEF Grounded, SameArtifact
    <3> QED BY <2>2, <3>1, <3>2 DEF Grounded
  <2> QED BY <2>1, <2>2
<1>8. arts' = [arts EXCEPT ![a] = row] /\ a \in Rows
  BY <1>1, <1>3, <1>5 DEF update_artifact_observation
<1>9. /\ DOMAIN lastEvent' = DOMAIN lastEvent
      /\ \A b \in DOMAIN arts : b # a => lastEvent'[b] = lastEvent[b]
      /\ lastEvent'[a].availability = row.availability /\ lastEvent'[a].integrity = row.integrity
  <2>1. CASE old.availability # result.availability \/ old.integrity # result.integrity
    <3>1. insert_artifact_event(a, "observed", row)
      BY <1>1, <1>3, <1>5, <2>1 DEF update_artifact_observation
    <3> QED BY <1>2, <3>1, EventWritten
  <2>2. CASE old.availability = result.availability /\ old.integrity = result.integrity
    <3>1. UNCHANGED lastEvent  BY <1>1, <1>3, <2>2 DEF update_artifact_observation
    <3>2. lastEvent[a].availability = old.availability /\ lastEvent[a].integrity = old.integrity
      BY <1>3, <1>8 DEF ArtInv, EventsTellTheState
    <3> QED BY <1>6, <2>2, <3>1, <3>2
  <2> QED BY <2>1, <2>2
<1>10. ThreadInv(NoOp)  BY DEF ThreadInv
<1> QED BY <1>2, <1>3, <1>6, <1>7, <1>8, <1>9, <1>10, RowWritten

LEMMA ReconcileWritesPreserves ==
    ASSUME ArtInv, NEW c \in Callers, reconcile_writes(c) PROVE ArtInv'
<1>1. UNCHANGED <<disk, history, now>> /\ RegistryStands /\ op' = [op EXCEPT ![c] = NoOp]
  BY DEF reconcile_writes, RegistryStands, provVars, Goto
<1>2. Observing(op[c])
  <2>1. op[c].at = "observe" /\ ThreadInv(op[c])  BY DEF reconcile_writes, ArtInv
  <2> QED BY <2>1, ThreadCases
<1>3. ThreadInv(NoOp)  BY DEF ThreadInv
<1>4. CASE UNCHANGED <<arts, lastEvent>>  BY <1>1, <1>3, <1>4, ThreadMoves
<1>5. CASE update_artifact_observation(op[c].view.id, op[c].result)
  <2>1. PICK view : view = op[c].view  OBVIOUS
  <2>2. PICK result : result = op[c].result  OBVIOUS
  <2>3. /\ Captured(view) /\ result \in Results
        /\ IsFile(view.locator) =>
             /\ result.integrity = "mismatch" => OtherContentSeen(view)
             /\ result.availability = "missing" => Absent \in Past(view)
             /\ result.availability = "unavailable" => Unreadable \in Past(view)
    BY <1>2, <2>1, <2>2 DEF Observing
  <2> QED BY <1>1, <1>5, <2>1, <2>2, <2>3, ObservationPreserves
<1> QED BY <1>4, <1>5 DEF reconcile_writes

---------------------------------------------------------------------------
\* Cleanup.

LEMMA CleanupStartsPreserves ==
    ASSUME ArtInv, NEW c \in Callers, NEW a \in DOMAIN arts, cleanup_starts(c, a) PROVE ArtInv'
<1>1. UNCHANGED <<arts, lastEvent, disk, history, now>> /\ RegistryStands
  BY DEF cleanup_starts, RegistryStands, provVars
<1>2. PICK view : view = arts[a]  OBVIOUS
<1>3. Captured(view) /\ view.locator \in Locators /\ IsFile(view.locator)
  BY <1>2, CapturedNow DEF Captured, ArtifactRows, cleanup_starts
<1>4. Cleanable(view)  BY <1>2, <1>3, EligibleIsCleanable DEF cleanup_starts
<1>5. PICK t : t = Looking("cleanup", view.locator.path, view)  OBVIOUS
<1>6. op' = [op EXCEPT ![c] = t]  BY <1>2, <1>5 DEF cleanup_starts, Goto, artifact_view_visible
<1>7. Inspecting(t, "cleanup") /\ t.view = view  BY <1>3, <1>5, LooksAt
<1>8. ThreadInv(t)  BY <1>3, <1>4, <1>7 DEF ThreadInv, Cleaning
<1> QED BY <1>1, <1>6, <1>8, ThreadMoves

LEMMA CleanupInspectedPreserves ==
    ASSUME ArtInv, NEW c \in Callers, cleanup_inspected(c) PROVE ArtInv'
<1>1. UNCHANGED <<arts, lastEvent, disk, history, now>> /\ RegistryStands
  BY DEF cleanup_inspected, RegistryStands, provVars
<1>2. op[c].at = "hashing" /\ op[c].kind = "cleanup" /\ ThreadInv(op[c])
  BY DEF cleanup_inspected, ArtInv
<1>3. Cleaning(op[c]) /\ Inspecting(op[c], op[c].kind)  BY <1>2, ThreadCases
<1>4. PICK found : found = inspect_filesystem(c)  OBVIOUS
<1>5. PICK view : view = op[c].view  OBVIOUS
<1>6. Captured(view) /\ IsFile(view.locator) /\ Cleanable(view) /\ op[c].path = view.locator.path
  BY <1>3, <1>5 DEF Cleaning, Inspecting
<1>7. found.error = "not_found" => Absent \in Past(view)
  BY <1>2, <1>3, <1>4, <1>6, FoundIsPast DEF Past
<1>8. PICK t : t = CASE found.error = "not_found" -> [at |-> "mark", view |-> view]
                     [] found.error = "none" /\ found.sha256 = view.digest ->
                          [at |-> "remove", view |-> view]
                     [] OTHER -> NoOp
  OBVIOUS
<1>9. op' = [op EXCEPT ![c] = t]  BY <1>4, <1>5, <1>8 DEF cleanup_inspected, Goto
<1>10. ThreadInv(t)
  <2>1. CASE found.error = "not_found"
    <3>1. t = [at |-> "mark", view |-> view]  BY <1>8, <2>1
    <3>2. Removing(t)  BY <1>6, <1>7, <2>1, <3>1 DEF Removing
    <3> QED BY <3>2 DEF ThreadInv
  <2>2. CASE found.error = "none" /\ found.sha256 = view.digest
    <3>1. t = [at |-> "remove", view |-> view]  BY <1>8, <2>2
    <3>2. Removing(t)  BY <1>6, <3>1 DEF Removing
    <3> QED BY <3>2 DEF ThreadInv
  <2>3. CASE found.error # "not_found" /\ ~(found.error = "none" /\ found.sha256 = view.digest)
    <3>1. t = NoOp  BY <1>8, <2>3
    <3> QED BY <3>1 DEF ThreadInv
  <2> QED BY <2>1, <2>2, <2>3
<1> QED BY <1>1, <1>9, <1>10, ThreadMoves

\* What stands at a path from now on has stood there.
LEMMA StandingIsPast ==
    ASSUME ArtInv, NEW p \in Paths, NEW x \in Stands, Stand(p, x)
    PROVE  /\ disk' \in [Paths -> FileStates] /\ history' \in [Paths -> SUBSET Stands]
           /\ \A q \in Paths : history[q] \subseteq history'[q] /\ disk'[q].content \in history'[q]
           /\ x \in history'[p]
<1>1. disk \in [Paths -> FileStates] /\ history \in [Paths -> SUBSET Stands]
      /\ \A q \in Paths : disk[q].content \in history[q]
  BY DEF ArtInv, ShapeInv
<1>2. /\ disk' = [disk EXCEPT ![p] = [content |-> x, version |-> disk[p].version + 1]]
      /\ history' = [history EXCEPT ![p] = history[p] \cup {x}]
  BY DEF Stand
<1>3. [content |-> x, version |-> disk[p].version + 1] \in FileStates  BY <1>1 DEF FileStates
<1>4. disk' \in [Paths -> FileStates]  BY <1>1, <1>2, <1>3
<1>5. history' \in [Paths -> SUBSET Stands]  BY <1>1, <1>2
<1>6. \A q \in Paths : /\ history'[q] = IF q = p THEN history[q] \cup {x} ELSE history[q]
                       /\ disk'[q].content = IF q = p THEN x ELSE disk[q].content
  BY <1>1, <1>2
<1> QED BY <1>1, <1>4, <1>5, <1>6

LEMMA CleanupRemovePreserves ==
    ASSUME ArtInv, NEW c \in Callers, cleanup_remove_file(c) PROVE ArtInv'
<1>1. UNCHANGED <<arts, lastEvent, now>> /\ RegistryStands
  BY DEF cleanup_remove_file, RegistryStands, provVars
<1>2. Removing(op[c]) /\ op[c].at = "remove"
  <2>1. op[c].at = "remove" /\ ThreadInv(op[c])  BY DEF cleanup_remove_file, ArtInv
  <2> QED BY <2>1, ThreadCases
<1>3. PICK view : view = op[c].view  OBVIOUS
<1>4. /\ op[c] = [at |-> "remove", view |-> view]
      /\ Captured(view) /\ IsFile(view.locator) /\ Cleanable(view)
      /\ view \in ArtifactRows /\ view.locator \in Locators
  BY <1>2, <1>3 DEF Removing, Captured, ArtifactRows
<1>5. PICK p : p = view.locator.path  OBVIOUS
<1>6. p \in Paths  BY <1>4, <1>5, FileHasPath
<1>7. CASE disk[p].content = Absent
  <2>1. op' = [op EXCEPT ![c] = NoOp] /\ UNCHANGED <<disk, history>>
    BY <1>3, <1>5, <1>7 DEF cleanup_remove_file, Goto
  <2>2. ThreadInv(NoOp)  BY DEF ThreadInv
  <2> QED BY <1>1, <2>1, <2>2, ThreadMoves
<1>8. CASE disk[p].content # Absent
  <2>1. PICK t : t = [at |-> "mark", view |-> view]  OBVIOUS
  <2>2. [op[c] EXCEPT !.at = "mark"] = t  BY <1>4, <2>1
  <2>3. op' = [op EXCEPT ![c] = t] /\ Stand(p, Absent)
    BY <1>3, <1>5, <1>8, <2>2 DEF cleanup_remove_file, Goto
  <2>4. /\ disk' \in [Paths -> FileStates] /\ history' \in [Paths -> SUBSET Stands]
        /\ \A q \in Paths : history[q] \subseteq history'[q] /\ disk'[q].content \in history'[q]
        /\ Absent \in history'[p]
    <3>1. Absent \in Stands  BY DEF Stands
    <3> QED BY <1>6, <2>3, <3>1, StandingIsPast
  <2>5. Grows  BY <1>1, <2>4 DEF Grows, ArtInv, ShapeInv, RegistryStands, SameArtifact
  <2>6. ThreadInv(t)'
    <3>1. Captured(view)'  BY <1>4, <2>5, CapturedStays
    <3>2. Cleanable(view)'  BY <1>4, <2>5, CleanableStays
    <3>3. Absent \in Past(view)'  BY <1>5, <2>4 DEF Past
    <3>4. Removing(t)'  BY <1>4, <2>1, <3>1, <3>2, <3>3 DEF Removing
    <3> QED BY <3>4 DEF ThreadInv
  <2>7. op' = [d \in Callers |-> op'[d]] /\ \A d \in Callers : ThreadInv(op[d])'
    BY <2>3, <2>5, <2>6, ThreadsPreserve
  <2>8. \A a \in DOMAIN arts' : Grounded(arts[a])'  BY <1>1, <2>5, RowsStand
  <2>9. ShapeInv' /\ EventsTellTheState'
    BY <1>1, <2>4 DEF ArtInv, ShapeInv, EventsTellTheState, Rows
  <2>10. ProvInv' /\ FirstGeneration'  BY <1>1, RegistryStays DEF ArtInv
  <2> QED BY <2>7, <2>8, <2>9, <2>10 DEF ArtInv
<1> QED BY <1>7, <1>8

LEMMA CleanupMarksPreserves ==
    ASSUME ArtInv, NEW c \in Callers, cleanup_marks(c) PROVE ArtInv'
<1>1. UNCHANGED <<disk, history, now>> /\ RegistryStands /\ op' = [op EXCEPT ![c] = NoOp]
  BY DEF cleanup_marks, RegistryStands, provVars, Goto
<1>2. Removing(op[c]) /\ op[c].at = "mark"
  <2>1. op[c].at = "mark" /\ ThreadInv(op[c])  BY DEF cleanup_marks, ArtInv
  <2> QED BY <2>1, ThreadCases
<1>3. ThreadInv(NoOp)  BY DEF ThreadInv
<1>4. CASE UNCHANGED <<arts, lastEvent>>  BY <1>1, <1>3, <1>4, ThreadMoves
<1>5. CASE mark_artifact_removed(op[c].view.id)
  <2>1. PICK view : view = op[c].view  OBVIOUS
  <2>2. PICK a : a = view.id  OBVIOUS
  <2>3. /\ a \in DOMAIN arts /\ SameArtifact(view, arts[a]) /\ IsFile(view.locator)
        /\ Cleanable(view) /\ Absent \in Past(view)
    BY <1>2, <2>1, <2>2 DEF Removing, Captured
  <2>4. PICK old : old = arts[a]  OBVIOUS
  <2>5. old \in ArtifactRows /\ Grounded(old)  BY <2>3, <2>4 DEF ArtInv, ShapeInv
  <2>6. PICK row : row = [old EXCEPT !.availability = "removed"]  OBVIOUS
  <2>7. /\ row \in ArtifactRows /\ SameArtifact(old, row) /\ SameArtifact(view, row)
        /\ row.availability = "removed" /\ row.integrity = old.integrity
    BY <2>3, <2>4, <2>5, <2>6 DEF ArtifactRows, SameArtifact
  <2>8. Grounded(row)
    <3>1. IsFile(row.locator) /\ IsFile(old.locator)  BY <2>3, <2>7 DEF SameArtifact
    <3>2. Past(row) = Past(old) /\ Past(row) = Past(view)
          /\ (OtherContentSeen(row) <=> OtherContentSeen(old))
      BY <2>7 DEF Past, OtherContentSeen, SameArtifact
    <3>3. Cleanable(row)  BY <2>3, <2>7 DEF Cleanable, SameArtifact
    <3>4. row.digest \in Past(row) /\ row.authority # "provider"
          /\ (row.integrity = "mismatch" => OtherContentSeen(row))
      BY <2>5, <2>7, <3>1, <3>2 DEF Grounded, SameArtifact
    <3> QED BY <2>3, <2>7, <3>1, <3>2, <3>3, <3>4 DEF Grounded
  <2>9. arts' = [arts EXCEPT ![a] = row] /\ insert_artifact_event(a, "content_removed", row)
    BY <1>5, <2>1, <2>2, <2>4, <2>6 DEF mark_artifact_removed
  <2>10. /\ DOMAIN lastEvent' = DOMAIN lastEvent
         /\ \A b \in DOMAIN arts : b # a => lastEvent'[b] = lastEvent[b]
         /\ lastEvent'[a].availability = row.availability /\ lastEvent'[a].integrity = row.integrity
    BY <2>3, <2>9, EventWritten
  <2> QED BY <1>1, <1>3, <2>3, <2>4, <2>7, <2>8, <2>9, <2>10, RowWritten
<1> QED BY <1>4, <1>5 DEF cleanup_marks

---------------------------------------------------------------------------
\* Operations in one transaction, listing, the world.

\* What a row is grounded on are columns that holds, relationships and
\* forgetting leave alone.
LEMMA SameGround ==
    ASSUME NEW old, NEW row, Grounded(old), SameArtifact(old, row),
           row.availability = old.availability, row.integrity = old.integrity
    PROVE  Grounded(row)
BY DEF Grounded, SameArtifact, Past, OtherContentSeen, Cleanable

LEMMA MetadataPreserves ==
    ASSUME ArtInv, NEW c \in Callers, NEW a \in Rows, NEW old, old = arts[a],
           NEW row \in ArtifactRows, SameArtifact(old, row),
           row.availability = old.availability, row.integrity = old.integrity,
           arts' = [arts EXCEPT ![a] = row],
           \/ UNCHANGED lastEvent
           \/ insert_artifact_event(a, "forgotten", old),
           RegistryStands, UNCHANGED <<disk, history, now, op>>
    PROVE  ArtInv'
<1>1. a \in DOMAIN arts /\ ~arts[a].forgotten  BY DEF Rows
<1>2. Grounded(old)  BY <1>1 DEF ArtInv
<1>3. Grounded(row)  BY <1>2, SameGround
<1>4. lastEvent[a].availability = old.availability /\ lastEvent[a].integrity = old.integrity
  BY DEF ArtInv, EventsTellTheState
<1>5. /\ DOMAIN lastEvent' = DOMAIN lastEvent
      /\ \A b \in DOMAIN arts : b # a => lastEvent'[b] = lastEvent[b]
      /\ lastEvent'[a].availability = row.availability /\ lastEvent'[a].integrity = row.integrity
  <2>1. CASE UNCHANGED lastEvent  BY <1>4, <2>1
  <2>2. CASE insert_artifact_event(a, "forgotten", old)  BY <1>1, <2>2, EventWritten
  <2> QED BY <2>1, <2>2
<1>6. PICK t : t = op[c]  OBVIOUS
<1>7. op' = [op EXCEPT ![c] = t] /\ ThreadInv(t)  BY <1>6 DEF ArtInv
<1> QED BY <1>1, <1>3, <1>5, <1>7, RowWritten

LEMMA RowNow ==
    ASSUME ArtInv, NEW a \in DOMAIN arts PROVE arts[a] \in ArtifactRows /\ arts \in Seq(ArtifactRows)
BY DEF ArtInv, ShapeInv

LEMMA ForgetPreserves ==
    ASSUME ArtInv, NEW c \in Callers, NEW a \in DOMAIN arts, forget_artifact_metadata(c, a)
    PROVE  ArtInv'
<1>1. PICK old : old = arts[a]  OBVIOUS
<1>2. PICK row : row = [old EXCEPT !.forgotten = TRUE]  OBVIOUS
<1>3. old \in ArtifactRows /\ a \in Rows
  BY <1>1, RowNow DEF forget_artifact_metadata, authorize_owner_or_root
<1>4. /\ row \in ArtifactRows /\ SameArtifact(old, row)
      /\ row.availability = old.availability /\ row.integrity = old.integrity
  BY <1>2, <1>3 DEF ArtifactRows, SameArtifact
<1>5. arts' = [arts EXCEPT ![a] = row] /\ insert_artifact_event(a, "forgotten", old)
  BY <1>1, <1>2 DEF forget_artifact_metadata
<1>6. RegistryStands /\ UNCHANGED <<disk, history, now, op>>
  BY DEF forget_artifact_metadata, RegistryStands, provVars
<1> QED BY <1>1, <1>3, <1>4, <1>5, <1>6, MetadataPreserves

LEMMA HoldsPreserve ==
    ASSUME ArtInv, NEW c \in Callers, NEW a \in DOMAIN arts, NEW h \in Holds,
           add_artifact_hold(c, a, h) \/ remove_artifact_hold(c, a, h.ref)
    PROVE  ArtInv'
<1>1. PICK old : old = arts[a]  OBVIOUS
<1>2. old \in ArtifactRows /\ a \in Rows
  BY <1>1, RowNow DEF add_artifact_hold, remove_artifact_hold, authorize_owner_or_root
<1>3. old.holds \subseteq Holds  BY <1>2 DEF ArtifactRows
<1>4. PICK holds \in SUBSET Holds : arts' = [arts EXCEPT ![a] = [old EXCEPT !.holds = holds]]
  <2>1. CASE add_artifact_hold(c, a, h)
    <3> DEFINE holds == {o \in old.holds : o.ref # h.ref} \cup {h}
    <3>1. arts' = [arts EXCEPT ![a] = [old EXCEPT !.holds = holds]]
      BY <1>1, <2>1 DEF add_artifact_hold
    <3>2. holds \in SUBSET Holds  BY <1>3
    <3> QED BY <3>1, <3>2
  <2>2. CASE remove_artifact_hold(c, a, h.ref)
    <3> DEFINE holds == {o \in old.holds : o.ref # h.ref}
    <3>1. arts' = [arts EXCEPT ![a] = [old EXCEPT !.holds = holds]]
      BY <1>1, <2>2 DEF remove_artifact_hold
    <3>2. holds \in SUBSET Holds  BY <1>3
    <3> QED BY <3>1, <3>2
  <2> QED BY <2>1, <2>2
<1>5. PICK row : row = [old EXCEPT !.holds = holds]  OBVIOUS
<1>6. /\ row \in ArtifactRows /\ SameArtifact(old, row)
      /\ row.availability = old.availability /\ row.integrity = old.integrity
  BY <1>2, <1>5 DEF ArtifactRows, SameArtifact
<1>7. arts' = [arts EXCEPT ![a] = row]  BY <1>4, <1>5
<1>8. RegistryStands /\ UNCHANGED <<disk, history, now, op, lastEvent>>
  BY DEF add_artifact_hold, remove_artifact_hold, RegistryStands, provVars
<1> QED BY <1>1, <1>2, <1>6, <1>7, <1>8, MetadataPreserves

LEMMA RelationshipPreserves ==
    ASSUME ArtInv, NEW c \in Callers, NEW a \in DOMAIN arts, NEW k \in Tasks,
           add_artifact_task_relationship(c, a, k)
    PROVE  ArtInv'
<1>1. PICK old : old = arts[a]  OBVIOUS
<1>2. PICK row : row = [old EXCEPT !.tasks = old.tasks \cup {k}]  OBVIOUS
<1>3. old \in ArtifactRows /\ a \in Rows
  BY <1>1, RowNow DEF add_artifact_task_relationship, authorize_owner_or_root
<1>4. /\ row \in ArtifactRows /\ SameArtifact(old, row)
      /\ row.availability = old.availability /\ row.integrity = old.integrity
  BY <1>2, <1>3 DEF ArtifactRows, SameArtifact
<1>5. arts' = [arts EXCEPT ![a] = row]  BY <1>1, <1>2 DEF add_artifact_task_relationship
<1>6. RegistryStands /\ UNCHANGED <<disk, history, now, op, lastEvent>>
  BY DEF add_artifact_task_relationship, RegistryStands, provVars
<1> QED BY <1>1, <1>3, <1>4, <1>5, <1>6, MetadataPreserves

\* The listing selects by the columns of a row what its confidentiality lets the
\* principal read.
LEMMA VisibleIsReadable ==
    ASSUME ArtInv, NEW u \in Principals PROVE MayRead(u) = {a \in Rows : visible(a, u)}
<1>1. ASSUME NEW a \in Rows PROVE u \in Readers(a) <=> visible(a, u)
  <2>1. arts[a] \in ArtifactRows
    <3>1. a \in DOMAIN arts /\ arts \in Seq(ArtifactRows)  BY DEF Rows, ArtInv, ShapeInv
    <3> QED BY <3>1
  <2>2. /\ arts[a].confidentiality \in {"private", "shared", "public"}
        /\ arts[a].owner \in Principals
    BY <2>1 DEF ArtifactRows
  <2> QED BY <2>2 DEF Readers, visible
<1> QED BY <1>1 DEF MayRead

\* A page leaves out only what comes after its cursor, and shows only what may
\* be read.
LEMMA ArtifactPage ==
    ASSUME ArtInv, NEW c \in Callers, NEW after \in Nat, NEW seen \in SUBSET Nat, NEW steady,
           \A a \in steady : a \in seen \/ a > after,
           steady \cap MayRead(Me(c)) \subseteq Nat, NEW stray, stray = {},
           list_page(c, after, seen, steady, stray)
    PROVE  \E t : op' = [op EXCEPT ![c] = t] /\ ThreadInv(t)
<1> DEFINE u == Me(c)
           rest == {a \in Rows : visible(a, u) /\ a > after}
           items == {a \in rest : Cardinality({b \in rest : b <= a}) <= PageLimit}
           cursor == IF Cardinality(rest) > PageLimit
                     THEN CHOOSE a \in items : \A b \in items : b <= a ELSE 0
           kept == steady \cap MayRead(u)
           page == list_artifacts_visible(u, after)
<1>1. page.items = items /\ page.next_cursor = cursor  BY DEF list_artifacts_visible
<1>2. Rows \subseteq 1 .. Len(arts) /\ Len(arts) \in Nat  BY DEF Rows, ArtInv, ShapeInv
<1>3. rest \in SUBSET (1 .. Len(arts))  BY <1>2
<1>4. items \subseteq Nat  BY <1>3
<1>5. cursor \in Nat /\ \A a \in rest : a \in items \/ (cursor # 0 /\ a > cursor)
  <2> HIDE DEF rest
  <2> QED BY <1>2, <1>3, PageCovers
<1>6. \A a \in kept : a > after => a \in rest
  <2>1. u \in Principals  BY ArtifactAssumption DEF Me
  <2>2. MayRead(u) = {a \in Rows : visible(a, u)}  BY <2>1, VisibleIsReadable
  <2> QED BY <2>2
<1>7. kept \subseteq Nat  OBVIOUS
<1>12. stray \cup (items \ MayRead(u)) = {}
  <2>1. u \in Principals  BY ArtifactAssumption DEF Me
  <2>2. MayRead(u) = {a \in Rows : visible(a, u)}  BY <2>1, VisibleIsReadable
  <2> QED BY <2>2
<1> HIDE DEF rest, items, cursor, kept, page
<1>8. \A a \in kept : a \in seen \cup items \/ (cursor # 0 /\ a > cursor)
  <2> SUFFICES ASSUME NEW a \in kept PROVE a \in seen \cup items \/ (cursor # 0 /\ a > cursor)
    OBVIOUS
  <2>1. a \in seen \/ a > after  BY DEF kept
  <2> QED BY <1>5, <1>6, <2>1
<1>9. PICK t : t = [at |-> IF cursor = 0 THEN "listed" ELSE "paging",
                    cursor |-> cursor, seen |-> seen \cup items, steady |-> kept,
                    stray |-> stray \cup (items \ MayRead(u))]
  OBVIOUS
<1>10. op' = [op EXCEPT ![c] = t]  BY <1>1, <1>9 DEF list_page, Goto, page, kept
<1>11. Listing(t)  BY <1>4, <1>5, <1>7, <1>8, <1>9, <1>12 DEF Listing
<1> QED BY <1>10, <1>11 DEF ThreadInv

LEMMA ListPreservesArt ==
    ASSUME ArtInv, NEW c \in Callers, artifact_list(c) \/ artifact_list_ends(c) PROVE ArtInv'
<1>1. UNCHANGED <<arts, lastEvent, disk, history, now>> /\ RegistryStands
  BY DEF artifact_list, artifact_list_ends, RegistryStands, provVars
<1>2. Rows \subseteq Nat /\ \A a \in Rows : a > 0  BY DEF Rows, ArtInv, ShapeInv
<1>3. CASE op[c].at = "idle" /\ list_page(c, 0, {}, Rows, {})
  <2> DEFINE none == {}
  <2>1. none \in SUBSET Nat /\ 0 \in Nat /\ \A a \in Rows : a \in none \/ a > 0  BY <1>2
  <2>2. Rows \cap MayRead(Me(c)) \subseteq Nat  BY <1>2
  <2>3. list_page(c, 0, none, Rows, none)  BY <1>3
  <2>5. none = {}  OBVIOUS
  <2> HIDE DEF none
  <2>4. PICK t : op' = [op EXCEPT ![c] = t] /\ ThreadInv(t)
    BY <2>1, <2>2, <2>3, <2>5, ArtifactPage
  <2> QED BY <1>1, <2>4, ThreadMoves
<1>4. CASE /\ op[c].at = "paging"
           /\ list_page(c, op[c].cursor, op[c].seen, op[c].steady, op[c].stray)
  <2>1. Listing(op[c])
    <3>1. ThreadInv(op[c])  BY DEF ArtInv
    <3> QED BY <1>4, <3>1, ThreadCases
  <2>2. PICK after : after = op[c].cursor  OBVIOUS
  <2>3. PICK seen : seen = op[c].seen  OBVIOUS
  <2>4. PICK steady : steady = op[c].steady  OBVIOUS
  <2>8. PICK stray : stray = op[c].stray  OBVIOUS
  <2>5. /\ after \in Nat /\ seen \in SUBSET Nat /\ steady \subseteq Nat /\ stray = {}
        /\ \A a \in steady : a \in seen \/ a > after
    BY <1>4, <2>1, <2>2, <2>3, <2>4, <2>8 DEF Listing
  <2>6. list_page(c, after, seen, steady, stray)  BY <1>4, <2>2, <2>3, <2>4, <2>8
  <2>7. PICK t : op' = [op EXCEPT ![c] = t] /\ ThreadInv(t)  BY <2>5, <2>6, ArtifactPage
  <2> QED BY <1>1, <2>7, ThreadMoves
<1>5. CASE artifact_list_ends(c)
  <2>1. op' = [op EXCEPT ![c] = NoOp]  BY <1>5 DEF artifact_list_ends, Goto
  <2>2. ThreadInv(NoOp)  BY DEF ThreadInv
  <2> QED BY <1>1, <2>1, <2>2, ThreadMoves
<1> QED BY <1>3, <1>4, <1>5 DEF artifact_list

\* A reference the adapter records is of an active registration and of the first
\* generation; the references it replaces are recorded again.
LEMMA AdapterPreserves ==
    ASSUME ArtInv, NEW p \in DOMAIN regs, NEW u \in Users, adapter_records_ref(p, u) PROVE ArtInv'
<1>1. PICK i \in BrowserIds, s \in {"available", "unavailable", "removed"} :
         record_provider_resource_ref([provider |-> p, owner |-> u, id |-> i,
                                       generation |-> 1, availability |-> s])
  BY DEF adapter_records_ref
<1>2. /\ UNCHANGED <<regs, job, registry, dir, browser, probe, pager>>
      /\ UNCHANGED <<arts, lastEvent, disk, history, now, op>>
  BY DEF adapter_records_ref, artVars
<1> DEFINE r == [provider |-> p, owner |-> u, id |-> i, generation |-> 1, availability |-> s]
           old == {o \in refs : o.provider = r.provider /\ o.id = r.id /\ o.generation = r.generation}
           again == {[o EXCEPT !.availability = r.availability] : o \in old}
<1>3. ProvInv /\ FirstGeneration  BY DEF ArtInv
<1>4. p \in ActiveIds /\ p \in Nat
  <2>1. p \in ActiveIds  BY <1>1 DEF record_provider_resource_ref
  <2>2. regs \in Seq(RegRows)  BY <1>3 DEF ProvInv, RowsInv
  <2> QED BY <2>1, <2>2
<1>5. refs \subseteq Refs /\ \A o \in refs : o.provider \in DOMAIN regs /\ o.generation = 1
  BY <1>3 DEF ProvInv, RefsInv, FirstGeneration
<1>6. /\ r \in Refs /\ r.provider = p /\ r.generation = 1
      /\ r.availability = s /\ r.id = i /\ r.owner = u
  BY <1>4 DEF Refs, Live
<1>7. ASSUME NEW o \in old
      PROVE  LET n == [o EXCEPT !.availability = r.availability]
             IN  /\ n \in Refs /\ n.provider = p /\ n.generation = 1
                 /\ n.id = o.id /\ o.provider = p
  BY <1>5, <1>6 DEF Refs
<1>8. refs' = (refs \ old) \cup IF old = {} THEN {r} ELSE again
  BY <1>1 DEF record_provider_resource_ref
<1>9. \A n \in refs' : n \in refs \/ (n \in Refs /\ n.provider = p /\ n.generation = 1)
  <2>1. \A n \in again : n \in Refs /\ n.provider = p /\ n.generation = 1  BY <1>7
  <2> HIDE DEF r, old, again
  <2> QED BY <1>6, <1>8, <2>1
<1>10. \A o \in refs : \E n \in refs' :
          n.provider = o.provider /\ n.id = o.id /\ n.generation = o.generation
  <2> SUFFICES ASSUME NEW o \in refs
               PROVE  \E n \in refs' :
                        n.provider = o.provider /\ n.id = o.id /\ n.generation = o.generation
    OBVIOUS
  <2>1. CASE o \notin old  BY <1>8, <2>1
  <2>2. CASE o \in old
    <3> DEFINE n == [o EXCEPT !.availability = r.availability]
    <3>1. n \in again /\ old # {}  BY <2>2
    <3>2. n.provider = o.provider /\ n.id = o.id /\ n.generation = o.generation
      BY <1>5, <1>7, <2>2
    <3>3. n \in refs'  BY <1>8, <3>1
    <3> QED BY <3>2, <3>3
  <2> QED BY <2>1, <2>2
<1> HIDE DEF r, old, again
<1>11. FirstGeneration'  BY <1>5, <1>9 DEF FirstGeneration
<1>12. RefsInv'
  <2>1. \A n \in refs' : n \in Refs /\ n.provider \in DOMAIN regs  BY <1>5, <1>9
  <2>2. RemovedProviderRefsDead'
    <3>1. ~regs[p].removed  BY <1>4 DEF ActiveIds
    <3>2. \A o \in refs : regs[o.provider].removed => o.availability \notin Live
      BY <1>3 DEF ProvInv, RefsInv, NothingRevives, RemovedProviderRefsDead
    <3>3. \A n \in refs' : regs'[n.provider].removed => n.availability \notin Live
      BY <1>2, <1>9, <3>1, <3>2
    <3> QED BY <3>3 DEF RemovedProviderRefsDead, Live
  <2>3. OneLiveGeneration'  BY <1>11 DEF OneLiveGeneration, FirstGeneration
  <2> QED BY <1>2, <2>1, <2>2, <2>3 DEF RefsInv, NothingRevives
<1>13. ProvInv'
  <2> USE <1>3 DEF ProvInv
  <2>1. RowsInv' /\ ActiveIds' = ActiveIds  BY <1>2, RowsStay
  <2>2. WorldInv' /\ ProbeInv' /\ PagerInv' /\ JobInv' /\ StatusInv'
    BY <1>2, <2>1, WorldStays, ProbeStays, PagerStays, JobStays, StatusStays
  <2> QED BY <1>12, <2>1, <2>2
<1> QED BY <1>2, <1>10, <1>11, <1>13, WorldMoves DEF ArtInv, ShapeInv

\* Removing registrations makes references stale; it forgets none of them.
LEMMA ManifestPreserves ==
    ASSUME ArtInv, manifest_step PROVE ArtInv'
<1>1. ProvInv /\ FirstGeneration  BY DEF ArtInv
<1>2. ProvInv'
  <2>1. ProvNext  BY DEF manifest_step, ProvNext
  <2> QED BY <1>1, <2>1, NextPreserves
<1>3. \/ UNCHANGED refs
      \/ \E seen : tombstone_missing_system_providers(seen)
  BY DEF manifest_step, ManifestSteps, reconcile_directory_rejected, ReconcileFails,
         reconcile_directory, reconcile_next_manifest, reconcile_stops, reconcile_tombstones,
         edit_manifests
<1>4. /\ \A r \in refs : \E s \in refs' :
            s.provider = r.provider /\ s.id = r.id /\ s.generation = r.generation
      /\ FirstGeneration'
  <2>1. CASE UNCHANGED refs  BY <1>1, <2>1 DEF FirstGeneration
  <2>2. CASE \E seen : tombstone_missing_system_providers(seen)
    <3>0. PICK seen : tombstone_missing_system_providers(seen)  BY <2>2
    <3> DEFINE gone == {p \in ActiveIds : regs[p].type \notin seen}
               New(r) == IF r.provider \in gone /\ r.availability # "removed"
                         THEN [r EXCEPT !.availability = "stale"] ELSE r
    <3>1. refs' = {New(r) : r \in refs}  BY <3>0 DEF tombstone_missing_system_providers
    <3>2. refs \subseteq Refs  BY <1>1 DEF ProvInv, RefsInv
    <3>3. \A r \in refs : /\ New(r).provider = r.provider /\ New(r).id = r.id
                          /\ New(r).generation = r.generation
      BY <3>2 DEF Refs
    <3> HIDE DEF New
    <3> QED BY <1>1, <3>1, <3>3 DEF FirstGeneration
  <2> QED BY <1>3, <2>1, <2>2
<1>5. UNCHANGED <<arts, lastEvent, disk, history, now, op>>  BY DEF manifest_step, artVars
<1> QED BY <1>2, <1>4, <1>5, WorldMoves DEF ArtInv, ShapeInv

LEMMA CrashPreservesArt ==
    ASSUME ArtInv, crash_step PROVE ArtInv'
<1>1. ProvInv' /\ FirstGeneration'  BY CrashPreserves DEF ArtInv, crash_step, portusd_crashes, FirstGeneration
<1>2. /\ UNCHANGED <<arts, lastEvent, disk, history, now, refs>>
      /\ op' = [c \in Callers |-> NoOp]
  BY DEF crash_step, portusd_crashes
<1>3. Grows  BY <1>2 DEF Grows, ArtInv, ShapeInv, SameArtifact
<1>4. \A a \in DOMAIN arts' : Grounded(arts[a])'  BY <1>2, <1>3, RowsStand
<1>5. ShapeInv' /\ EventsTellTheState'  BY <1>2 DEF ArtInv, ShapeInv, EventsTellTheState, Rows
<1>6. op' = [c \in Callers |-> op'[c]]  BY <1>2
<1>7. ASSUME NEW c \in Callers PROVE ThreadInv(op[c])'
  <2>1. op'[c] = NoOp  BY <1>2
  <2>2. ThreadInv(NoOp)'  BY DEF ThreadInv
  <2> QED BY <2>1, <2>2, SameThread
<1> QED BY <1>1, <1>4, <1>5, <1>6, <1>7 DEF ArtInv

LEMMA WorldPreserves ==
    ASSUME ArtInv,
           \/ \E p \in Paths, x \in Contents \cup {Absent, Unreadable} : external_write(p, x)
           \/ \E k \in Tasks : task_ends(k)
           \/ time_passes
           \/ UNCHANGED vars
    PROVE  ArtInv'
<1>1. UNCHANGED <<arts, lastEvent, op>> /\ RegistryStands
  BY DEF external_write, task_ends, time_passes, vars, provVars, artVars, RegistryStands
<1>2. ProvInv' /\ FirstGeneration'  BY <1>1, RegistryStays DEF ArtInv
<1>3. \A r \in refs : \E s \in refs' :
         s.provider = r.provider /\ s.id = r.id /\ s.generation = r.generation
  BY <1>1 DEF RegistryStands
<1>4. MaxNow \in Nat /\ now \in 1 .. MaxNow  BY ArtifactAssumption DEF ArtInv, ShapeInv
<1>5. CASE UNCHANGED <<disk, history>>
  <2>1. now' \in 1 .. MaxNow /\ now <= now'
    BY <1>4 DEF external_write, task_ends, time_passes, vars, artVars
  <2> QED BY <1>1, <1>2, <1>3, <1>5, <2>1, WorldMoves DEF ArtInv, ShapeInv
<1>6. CASE \E p \in Paths, x \in Contents \cup {Absent, Unreadable} : external_write(p, x)
  <2>1. PICK p \in Paths, x \in Contents \cup {Absent, Unreadable} : external_write(p, x)
    BY <1>6
  <2>2. UNCHANGED now /\ Stand(p, x) /\ x \in Stands  BY <2>1 DEF external_write, Stands
  <2> QED BY <1>1, <1>2, <1>3, <1>4, <2>2, StandingIsPast, WorldMoves
<1> QED BY <1>5, <1>6 DEF task_ends, time_passes, vars, artVars

LEMMA ArtInitInv == Init => ArtInv
<1> SUFFICES ASSUME Init PROVE ArtInv
  OBVIOUS
<1>1. ProvInv /\ FirstGeneration  BY InitInv DEF Init, ProvInit, FirstGeneration
<1>2. arts = <<>> /\ lastEvent = <<>> /\ DOMAIN arts = {}  BY DEF Init, ArtInit
<1>3. ShapeInv
  <2>1. PICK d \in [Paths -> {[content |-> x, version |-> 0] : x \in Contents}] : disk = d
    BY DEF Init, ArtInit
  <2>2. \A p \in Paths : disk[p] \in FileStates  BY <2>1 DEF FileStates, Stands
  <2>3. disk \in [Paths -> FileStates]  BY <2>1, <2>2
  <2>4. history = [p \in Paths |-> {disk[p].content}]  BY DEF Init, ArtInit
  <2>5. \A p \in Paths : disk[p].content \in Stands  BY <2>2 DEF FileStates
  <2>6. history \in [Paths -> SUBSET Stands] /\ \A p \in Paths : disk[p].content \in history[p]
    BY <2>4, <2>5
  <2>7. now \in 1 .. MaxNow  BY ArtifactAssumption DEF Init, ArtInit
  <2> QED BY <1>2, <2>3, <2>6, <2>7 DEF ShapeInv
<1>4. EventsTellTheState /\ \A a \in DOMAIN arts : Grounded(arts[a])
  BY <1>2 DEF EventsTellTheState, Rows
<1>5. op = [c \in Callers |-> NoOp]  BY DEF Init, ArtInit
<1>6. op = [c \in Callers |-> op[c]] /\ \A c \in Callers : op[c] = NoOp  BY <1>5
<1>7. \A c \in Callers : ThreadInv(op[c])  BY <1>6 DEF ThreadInv
<1> QED BY <1>1, <1>3, <1>4, <1>6, <1>7 DEF ArtInv

LEMMA ArtNextPreserves ==
    ASSUME ArtInv, [ArtNext \/ manifest_step \/ crash_step]_vars PROVE ArtInv'
<1>1. ASSUME NEW c \in Callers,
             \/ \E r \in Requests : register_starts(c, r)
             \/ inspect_starts(c) \/ register_inspected(c) \/ register_inserts(c)
      PROVE  ArtInv'
  BY <1>1, RegisterStartsPreserves, InspectStartsPreserves, RegisterInspectedPreserves,
     RegisterInsertsPreserves
<1>2. ASSUME NEW c \in Callers,
             \/ reconcile_inspected(c) \/ reconcile_lookup(c) \/ reconcile_writes(c)
             \/ \E a \in DOMAIN arts : reconcile_starts(c, a)
      PROVE  ArtInv'
  BY <1>2, ReconcileInspectedPreserves, ReconcileLookupPreserves, ReconcileWritesPreserves,
     ReconcileStartsPreserves
<1>3. ASSUME NEW c \in Callers,
             \/ cleanup_inspected(c) \/ cleanup_remove_file(c) \/ cleanup_marks(c)
             \/ \E a \in DOMAIN arts : cleanup_starts(c, a)
      PROVE  ArtInv'
  BY <1>3, CleanupInspectedPreserves, CleanupRemovePreserves, CleanupMarksPreserves,
     CleanupStartsPreserves
<1>4. ASSUME NEW c \in Callers, NEW a \in DOMAIN arts,
             \/ forget_artifact_metadata(c, a)
             \/ \E h \in Holds : add_artifact_hold(c, a, h)
             \/ \E h \in Holds : remove_artifact_hold(c, a, h.ref)
             \/ \E k \in Tasks : add_artifact_task_relationship(c, a, k)
      PROVE  ArtInv'
  BY <1>4, ForgetPreserves, HoldsPreserve, RelationshipPreserves
<1>5. ASSUME NEW c \in Callers, artifact_list(c) \/ artifact_list_ends(c) PROVE ArtInv'
  BY <1>5, ListPreservesArt
<1>6. CASE \E p \in DOMAIN regs, u \in Users : adapter_records_ref(p, u)
  BY <1>6, AdapterPreserves
<1>7. CASE \/ \E p \in Paths, x \in Contents \cup {Absent, Unreadable} : external_write(p, x)
           \/ \E k \in Tasks : task_ends(k)
           \/ time_passes
           \/ UNCHANGED vars
  BY <1>7, WorldPreserves
<1>8. CASE manifest_step  BY <1>8, ManifestPreserves
<1>9. CASE crash_step  BY <1>9, CrashPreservesArt
<1> QED BY <1>1, <1>2, <1>3, <1>4, <1>5, <1>6, <1>7, <1>8, <1>9 DEF ArtNext

---------------------------------------------------------------------------
(***************************************************************************)
(* Theorems about artifacts.                                               *)
(***************************************************************************)
\* The inductive invariant holds in every reachable state of the artifact
\* registry, next to a provider registry that goes on reconciling and crashing.
THEOREM ArtifactInvariant == ArtSpec => []ArtInv
<1>1. Init => ArtInv  BY ArtInitInv
<1>2. ArtInv /\ [ArtNext \/ manifest_step \/ crash_step]_vars => ArtInv'  BY ArtNextPreserves
<1> QED BY <1>1, <1>2, PTL DEF ArtSpec

\* What a row says is backed by the world, however reconciliations, cleanups,
\* writers of files and crashes interleave: a verdict by what stood at the path,
\* a removal by the right to remove, a resource by the registry.
THEOREM RowsAlwaysBacked == ArtSpec => []RowsAreBacked
<1>1. ArtInv => RowsAreBacked
  <2> SUFFICES ASSUME ArtInv PROVE RowsAreBacked
    OBVIOUS
  <2>1. \A a \in DOMAIN arts : arts[a] \in ArtifactRows /\ Grounded(arts[a])
    BY DEF ArtInv, ShapeInv
  <2>2. ArtTypeOK
    <3>1. \A c \in Callers : ThreadInv(op[c])  BY DEF ArtInv
    <3>2. \A c \in Callers : op[c].at \in {"idle", "inspect", "hashing", "insert", "lookup",
                                          "observe", "remove", "mark", "paging", "listed"}
      BY <3>1, ThreadCases
    <3>3. DOMAIN lastEvent = DOMAIN arts /\ now \in 1 .. MaxNow  BY DEF ArtInv, ShapeInv
    <3> QED BY <2>1, <3>2, <3>3 DEF ArtTypeOK, ArtifactRows, Integrities
  <2>3. VerdictHasEvidence
    BY <2>1 DEF VerdictHasEvidence, Grounded, OtherContentSeen, Past, Rows
  <2>4. RemovedWasCleanable  BY <2>1 DEF RemovedWasCleanable, Grounded, Cleanable, Rows
  <2>5. ResourceIsRegistered  BY <2>1 DEF ResourceIsRegistered, Grounded, InRegistry, Rows
  <2> QED BY <2>2, <2>3, <2>4, <2>5 DEF RowsAreBacked
<1> QED BY <1>1, ArtifactInvariant, PTL

\* What clients read agrees with the rows: the newest durable event of an artifact
\* tells its state, a finished listing has shown every artifact that its client
\* might read all the time, and no page showed one that the client might not
\* read, for every page limit (list_artifacts_visible).
THEOREM ReadersAlwaysSeeRows == ArtSpec => []ReadersSeeTheRows
<1>1. ArtInv => ReadersSeeTheRows
  <2> SUFFICES ASSUME ArtInv PROVE ReadersSeeTheRows
    OBVIOUS
  <2>1. ASSUME NEW c \in Callers, op[c].at \in {"paging", "listed"}
        PROVE  /\ op[c].at = "listed" => op[c].steady \subseteq op[c].seen
               /\ op[c].stray = {}
    <3>1. ThreadInv(op[c])  BY DEF ArtInv
    <3>2. Listing(op[c])  BY <2>1, <3>1, ThreadCases
    <3> QED BY <2>1, <3>2 DEF Listing
  <2>2. ListingIsExact  BY <2>1 DEF ListingIsExact
  <2> QED BY <2>2 DEF ReadersSeeTheRows, ArtInv
<1> QED BY <1>1, ArtifactInvariant, PTL

\* Forgotten metadata stays forgotten: an operation that captured the row before
\* it was forgotten changes nothing about it afterwards
\* (update_artifact_observation, mark_artifact_removed).
THEOREM ForgottenStaysForgotten == ArtSpec => ForgottenIsFinal
<1> DEFINE Final == \A a \in DOMAIN arts : arts[a].forgotten => arts'[a] = arts[a]
<1>1. ASSUME NEW b \in Rows, NEW row, arts' = [arts EXCEPT ![b] = row] PROVE Final
  BY <1>1 DEF Rows
<1>2. ASSUME ArtInv, [ArtNext \/ manifest_step \/ crash_step]_vars PROVE Final
  <2>1. CASE UNCHANGED arts  BY <2>1
  <2>2. CASE \E c \in Callers : register_inserts(c)
    <3>1. UNCHANGED arts \/ \E row : arts' = Append(arts, row)
      BY <2>2 DEF register_inserts, register_artifact
    <3>2. arts \in Seq(ArtifactRows)  BY <1>2 DEF ArtInv, ShapeInv
    <3> QED BY <3>1, <3>2
  <2>3. CASE \E c \in Callers : reconcile_writes(c) \/ cleanup_marks(c)
    <3>1. UNCHANGED arts \/ \E b \in Rows : \E row : arts' = [arts EXCEPT ![b] = row]
      BY <2>3 DEF reconcile_writes, cleanup_marks, update_artifact_observation, mark_artifact_removed
    <3> QED BY <1>1, <2>1, <3>1
  <2>4. CASE \E c \in Callers, a \in DOMAIN arts :
               \/ forget_artifact_metadata(c, a)
               \/ \E h \in Holds : add_artifact_hold(c, a, h)
               \/ \E h \in Holds : remove_artifact_hold(c, a, h.ref)
               \/ \E k \in Tasks : add_artifact_task_relationship(c, a, k)
    <3>1. \E b \in Rows : \E row : arts' = [arts EXCEPT ![b] = row]
      BY <2>4 DEF forget_artifact_metadata, add_artifact_hold, remove_artifact_hold,
                  add_artifact_task_relationship, authorize_owner_or_root
    <3> QED BY <1>1, <3>1
  <2>5. CASE \E c \in Callers :
               \/ \E r \in Requests : register_starts(c, r)
               \/ inspect_starts(c) \/ register_inspected(c)
    <3>1. UNCHANGED arts
      BY <2>5 DEF register_starts, inspect_starts, register_inspected
    <3> QED BY <2>1, <3>1
  <2>7. CASE \E c \in Callers :
               \/ reconcile_inspected(c) \/ reconcile_lookup(c)
               \/ \E a \in DOMAIN arts : reconcile_starts(c, a)
    <3>1. UNCHANGED arts
      BY <2>7 DEF reconcile_starts, reconcile_inspected, reconcile_lookup
    <3> QED BY <2>1, <3>1
  <2>8. CASE \E c \in Callers : artifact_list(c) \/ artifact_list_ends(c)
    <3>1. UNCHANGED arts  BY <2>8 DEF artifact_list, artifact_list_ends
    <3> QED BY <2>1, <3>1
  <2>9. CASE \E c \in Callers :
               \/ cleanup_inspected(c) \/ cleanup_remove_file(c)
               \/ \E a \in DOMAIN arts : cleanup_starts(c, a)
    <3>1. UNCHANGED arts
      BY <2>9 DEF cleanup_starts, cleanup_inspected, cleanup_remove_file
    <3> QED BY <2>1, <3>1
  <2>6. CASE \/ \E p \in DOMAIN regs, u \in Users : adapter_records_ref(p, u)
             \/ \E p \in Paths, x \in Contents \cup {Absent, Unreadable} : external_write(p, x)
             \/ \E k \in Tasks : task_ends(k)
             \/ time_passes \/ manifest_step \/ crash_step \/ UNCHANGED vars
    <3>1. UNCHANGED arts
      BY <2>6 DEF adapter_records_ref, external_write, task_ends, time_passes, manifest_step,
                  crash_step, vars, artVars
    <3> QED BY <2>1, <3>1
  <2> QED BY <1>2, <2>2, <2>3, <2>4, <2>5, <2>6, <2>7, <2>8, <2>9 DEF ArtNext
<1>3. ArtInv /\ [ArtNext \/ manifest_step \/ crash_step]_vars => [Final]_vars  BY <1>2
<1> QED BY <1>3, ArtifactInvariant, PTL DEF ArtSpec, ForgottenIsFinal

\* The provider registry keeps its promises in the composition, where the adapter
\* also records references by itself (record_provider_resource_ref).
THEOREM RegistryHoldsBesideArtifacts == ArtSpec => [](RegistrationsFitTogether /\ NothingRevives)
<1>1. ArtInv => RegistrationsFitTogether /\ NothingRevives
  BY InvFitsTogether DEF ArtInv, ProvInv, RefsInv
<1> QED BY <1>1, ArtifactInvariant, PTL
===========================================================================
