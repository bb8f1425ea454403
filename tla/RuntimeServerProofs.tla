-------------------------- MODULE RuntimeServerProofs --------------------------
(***************************************************************************)
(* What holds of the socket servers for any number of daemons and clients, *)
(* any limit of connections, any latest schema version, and any way the    *)
(* daemons start, fail, crash and stop beside each other.                  *)
(*                                                                         *)
(* The inductive invariant has a part for each thing the daemons share:    *)
(*   StartInv   the start probes before it opens and listens, so that the  *)
(*              steps still to do say what a daemon holds already;         *)
(*   SocketInv  who listens has the path, or lost it to a rival that saw   *)
(*              it unbound, and whom a rival saw listening had lost the    *)
(*              path already;                                              *)
(*   ConnInv    the counter of permits is the number of threads, and the   *)
(*              compare-and-exchange keeps it at the limit;                *)
(*   StoreInv   the history of migrations has no hole, a daemon at work in *)
(*              it is past the probes, and one that is there alone knows   *)
(*              the whole of it and has the copy it is about to need.      *)
(* Two more parts speak of the audit files:                                *)
(*   ThreadInv  a thread has work only while its daemon is past the probes;*)
(*   AuditInv   who rotates is past the probes too, and the files are laid *)
(*              out for the one rotation there is: end to end, archives    *)
(*              full, and no more holes between them than rotations were   *)
(*              cut short.                                                 *)
(* FlattenSeq, by which the model reads the files, is a function that calls*)
(* itself: it is shown to be the explicit function of the same beginning   *)
(* and the same step.                                                      *)
(***************************************************************************)
EXTENDS RuntimeServer, FiniteSetTheorems, SequenceTheorems, WellFoundedInduction, TLAPS

Ats == {"off", "bind", "connect", "unlink", "poll", "load", "cas", "reap", "join", "drop"}
Starts == {"bind", "connect", "unlink"}
BindOps == {"check", "prepare", "audit", "state", "reconcile", "listen", "ready",
            "verify_socket_contract"}
Subjects == ListenerNames \union
    {None, "limits and directory", "limits and directories", "service user, groups and paths",
     "owner and mode of the credential database", "root, limits and directories"}
BindSteps == [op : BindOps, on : Subjects]
MainStates ==
    [at : Ats, steps : Seq(BindSteps \union ListenerNames), seen : Nat, conn : Conns \union {Free}]
ConnStates ==
    [at : {"new", "queued", "accepted", "reading", "busy", "closing", "closed"},
     to : Daemons \union {None}, on : ListenerNames \union {None}, ends : BOOLEAN]

\* A start has its steps in order: it probes before it touches what is shared, and
\* listens at each path once.
Orderly(s) ==
    /\ s \in Seq(BindSteps)
    /\ \A i \in 1 .. Len(s) :
        /\ s[i].op \in {"prepare", "listen"} => s[i].on \in Range(Listeners)
        /\ s[i].op = "state" => kind = "portusd"
    /\ \A i, j \in 1 .. Len(s) : i < j =>
        /\ s[i].op \in {"listen", "state"} => s[j].op \notin {"prepare", "state"}
        /\ s[i].op \in {"reconcile", "ready"} => s[j].op # "prepare"
        /\ s[i].op = "listen" /\ s[j].op = "listen" => s[i].on # s[j].on

Has(s, op) == \E i \in 1 .. Len(s) : s[i].op = op

\* portusd has one socket, the other two have a socket for use and one for administration.
LEMMA ListenersAre ==
    /\ Listeners \in Seq(ListenerNames) /\ Range(Listeners) \subseteq ListenerNames
    /\ kind = "portusd" => Range(Listeners) = {"runtime"}
    /\ kind # "portusd" => Range(Listeners) = {"use", "admin"}
    /\ Listeners # <<>> /\ Listeners \in Seq(BindSteps \union ListenerNames)
<1>1. /\ Listeners \in Seq(ListenerNames) /\ Range(Listeners) \subseteq ListenerNames
      /\ kind = "portusd" => Range(Listeners) = {"runtime"}
      /\ kind # "portusd" => Range(Listeners) = {"use", "admin"}
  <2>1. CASE kind = "portusd"
    BY <2>1 DEF Listeners, ListenerNames, Range
  <2>2. CASE kind # "portusd"
    BY <2>2 DEF Listeners, ListenerNames, Range
  <2> QED
    BY <2>1, <2>2
<1>2. Listeners # <<>>
  BY DEF Listeners
<1>3. Listeners \in Seq(BindSteps \union ListenerNames)
  <2> HIDE DEF Listeners
  <2>1. ListenerNames \subseteq BindSteps \union ListenerNames
    OBVIOUS
  <2> QED
    BY <1>1, <2>1, SeqMonotonic
<1> QED
  BY <1>1, <1>2, <1>3

\* The steps of each server are in order, as the source lists them.
LEMMA BindIsOrderly ==
    ASSUME kind \in {"portusd", "apid", "privd"}
    PROVE  Orderly(bind) /\ bind # <<>> /\ Has(bind, "prepare") /\ (kind = "portusd" => Has(bind, "state"))
<1>1. CASE kind = "portusd"
  <2> DEFINE s == RuntimeServer_bind
  <2>1. bind = s
    BY <1>1, Zenon DEF bind
  <2>2. s \in Seq(BindSteps) /\ Len(s) = 7
    BY DEF RuntimeServer_bind, BindSteps, BindOps, Subjects, ListenerNames, Check, Step, None,
           api_validate_config, validate_service_identity_and_paths, verify_store_contract,
           priv_validate_config
  <2>3. /\ s[1].op = "check"
        /\ s[2].op = "prepare" /\ s[2].on = "runtime"
        /\ s[3].op = "audit"
        /\ s[4].op = "state"
        /\ s[5].op = "reconcile"
        /\ s[6].op = "listen" /\ s[6].on = "runtime"
        /\ s[7].op = "ready"
    BY DEF RuntimeServer_bind, Check, Step, api_validate_config, validate_service_identity_and_paths,
           verify_store_contract, priv_validate_config
  <2> HIDE DEF s
  <2>4. 1 .. Len(s) = {1, 2, 3, 4, 5, 6, 7} /\ s # <<>>
    <3>1. 1 .. 7 = {1, 2, 3, 4, 5, 6, 7}
      OBVIOUS
    <3>2. 1 .. Len(s) = {1, 2, 3, 4, 5, 6, 7}
      BY <2>2, <3>1, Zenon
    <3>3. Len(s) # 0
      BY <2>2
    <3> QED
      BY <2>2, <3>2, <3>3, EmptySeq, Zenon
  <2>5. Has(s, "prepare")
    <3>1. 2 \in 1 .. Len(s) /\ s[2].op = "prepare"
      BY <2>3, <2>4
    <3> QED
      BY <3>1 DEF Has
  <2>6. Has(s, "state")
    <3>1. 4 \in 1 .. Len(s) /\ s[4].op = "state"
      BY <2>3, <2>4
    <3> QED
      BY <3>1 DEF Has
  <2>7. \A i \in 1 .. Len(s) :
          /\ s[i].op \in {"prepare", "listen"} => s[i].on \in Range(Listeners)
          /\ s[i].op = "state" => kind = "portusd"
    BY <1>1, <2>3, <2>4, ListenersAre
  <2>8. \A i \in 1 .. Len(s) :
          /\ s[i].op \in {"reconcile", "ready"} => i \in {5, 7}
          /\ s[i].op \in {"listen", "state"} => i \in {4, 6}
          /\ s[i].op \in {"prepare", "state"} => i \in {2, 4}
          /\ s[i].op = "listen" => i \in {6}
    BY <2>3, <2>4
  <2>9. \A i, j \in 1 .. Len(s) : i < j =>
          /\ s[i].op \in {"listen", "state"} => s[j].op \notin {"prepare", "state"}
          /\ s[i].op \in {"reconcile", "ready"} => s[j].op # "prepare"
          /\ s[i].op = "listen" /\ s[j].op = "listen" => s[i].on # s[j].on
    BY <2>3, <2>8
  <2> QED
    BY <1>1, <2>1, <2>2, <2>4, <2>5, <2>6, <2>7, <2>9 DEF Orderly
<1>2. CASE kind = "apid"
  <2> DEFINE s == ProtectedApiServer_bind
  <2>1. bind = s
    BY <1>2, Zenon DEF bind
  <2>2. s \in Seq(BindSteps) /\ Len(s) = 9
    BY DEF ProtectedApiServer_bind, BindSteps, BindOps, Subjects, ListenerNames, Check, Step, None,
           api_validate_config, validate_service_identity_and_paths, verify_store_contract,
           priv_validate_config
  <2>3. /\ s[1].op = "check"
        /\ s[2].op = "check"
        /\ s[3].op = "prepare" /\ s[3].on = "use"
        /\ s[4].op = "prepare" /\ s[4].on = "admin"
        /\ s[5].op = "check"
        /\ s[6].op = "audit"
        /\ s[7].op = "listen" /\ s[7].on = "use"
        /\ s[8].op = "listen" /\ s[8].on = "admin"
        /\ s[9].op = "verify_socket_contract"
    BY DEF ProtectedApiServer_bind, Check, Step, api_validate_config, validate_service_identity_and_paths,
           verify_store_contract, priv_validate_config
  <2> HIDE DEF s
  <2>4. 1 .. Len(s) = {1, 2, 3, 4, 5, 6, 7, 8, 9} /\ s # <<>>
    <3>1. 1 .. 9 = {1, 2, 3, 4, 5, 6, 7, 8, 9}
      OBVIOUS
    <3>2. 1 .. Len(s) = {1, 2, 3, 4, 5, 6, 7, 8, 9}
      BY <2>2, <3>1, Zenon
    <3>3. Len(s) # 0
      BY <2>2
    <3> QED
      BY <2>2, <3>2, <3>3, EmptySeq, Zenon
  <2>5. Has(s, "prepare")
    <3>1. 3 \in 1 .. Len(s) /\ s[3].op = "prepare"
      BY <2>3, <2>4
    <3> QED
      BY <3>1 DEF Has
  <2>7. \A i \in 1 .. Len(s) :
          /\ s[i].op \in {"prepare", "listen"} => s[i].on \in Range(Listeners)
          /\ s[i].op = "state" => kind = "portusd"
    BY <1>2, <2>3, <2>4, ListenersAre
  <2>8. \A i \in 1 .. Len(s) :
          /\ s[i].op \in {"reconcile", "ready"} => i \in {}
          /\ s[i].op \in {"listen", "state"} => i \in {7, 8}
          /\ s[i].op \in {"prepare", "state"} => i \in {3, 4}
          /\ s[i].op = "listen" => i \in {7, 8}
    BY <2>3, <2>4
  <2>9. \A i, j \in 1 .. Len(s) : i < j =>
          /\ s[i].op \in {"listen", "state"} => s[j].op \notin {"prepare", "state"}
          /\ s[i].op \in {"reconcile", "ready"} => s[j].op # "prepare"
          /\ s[i].op = "listen" /\ s[j].op = "listen" => s[i].on # s[j].on
    BY <2>3, <2>8
  <2> QED
    BY <1>2, <2>1, <2>2, <2>4, <2>5, <2>7, <2>9 DEF Orderly
<1>3. CASE kind = "privd"
  <2> DEFINE s == PrivilegeServer_bind
  <2>1. bind = s
    BY <1>3, Zenon DEF bind
  <2>2. s \in Seq(BindSteps) /\ Len(s) = 6
    BY DEF PrivilegeServer_bind, BindSteps, BindOps, Subjects, ListenerNames, Check, Step, None,
           api_validate_config, validate_service_identity_and_paths, verify_store_contract,
           priv_validate_config
  <2>3. /\ s[1].op = "check"
        /\ s[2].op = "prepare" /\ s[2].on = "use"
        /\ s[3].op = "prepare" /\ s[3].on = "admin"
        /\ s[4].op = "audit"
        /\ s[5].op = "listen" /\ s[5].on = "use"
        /\ s[6].op = "listen" /\ s[6].on = "admin"
    BY DEF PrivilegeServer_bind, Check, Step, api_validate_config, validate_service_identity_and_paths,
           verify_store_contract, priv_validate_config
  <2> HIDE DEF s
  <2>4. 1 .. Len(s) = {1, 2, 3, 4, 5, 6} /\ s # <<>>
    <3>1. 1 .. 6 = {1, 2, 3, 4, 5, 6}
      OBVIOUS
    <3>2. 1 .. Len(s) = {1, 2, 3, 4, 5, 6}
      BY <2>2, <3>1, Zenon
    <3>3. Len(s) # 0
      BY <2>2
    <3> QED
      BY <2>2, <3>2, <3>3, EmptySeq, Zenon
  <2>5. Has(s, "prepare")
    <3>1. 2 \in 1 .. Len(s) /\ s[2].op = "prepare"
      BY <2>3, <2>4
    <3> QED
      BY <3>1 DEF Has
  <2>7. \A i \in 1 .. Len(s) :
          /\ s[i].op \in {"prepare", "listen"} => s[i].on \in Range(Listeners)
          /\ s[i].op = "state" => kind = "portusd"
    BY <1>3, <2>3, <2>4, ListenersAre
  <2>8. \A i \in 1 .. Len(s) :
          /\ s[i].op \in {"reconcile", "ready"} => i \in {}
          /\ s[i].op \in {"listen", "state"} => i \in {5, 6}
          /\ s[i].op \in {"prepare", "state"} => i \in {2, 3}
          /\ s[i].op = "listen" => i \in {5, 6}
    BY <2>3, <2>4
  <2>9. \A i, j \in 1 .. Len(s) : i < j =>
          /\ s[i].op \in {"listen", "state"} => s[j].op \notin {"prepare", "state"}
          /\ s[i].op \in {"reconcile", "ready"} => s[j].op # "prepare"
          /\ s[i].op = "listen" /\ s[j].op = "listen" => s[i].on # s[j].on
    BY <2>3, <2>8
  <2> QED
    BY <1>3, <2>1, <2>2, <2>4, <2>5, <2>7, <2>9 DEF Orderly
<1> QED
  BY <1>1, <1>2, <1>3
(***************************************************************************)
(* The inductive invariant.                                                *)
(***************************************************************************)
Kinds == {"portusd", "apid", "privd"}
Held == {"reading", "busy", "closing"}
Holders(d) == {c \in Conns : conn[c].to = d /\ conn[c].at \in Held}

ServerTypes ==
    /\ kind \in Kinds
    /\ path \in [ListenerNames -> Daemons \union {None, Other}]
    /\ main \in [Daemons -> MainStates]
    /\ bound \in [Daemons -> SUBSET Range(Listeners)]
    /\ permits \in [Daemons -> 0 .. MaxConnections]
    /\ workers \in [Daemons -> SUBSET Conns]
    /\ conn \in [Conns -> ConnStates]
    /\ looked \in [Daemons -> [ListenerNames -> SUBSET Daemons]]
    /\ usurped \subseteq Daemons \X ListenerNames

AuditTypes ==
    /\ files \in [0 .. Archives -> Seq(Nat)]
    /\ \A k \in 0 .. Archives : files[k] = NoFile \/ Len(files[k]) <= FileLimit
    /\ rotating \in [Daemons -> Creating .. Idle] /\ recorded \in Nat

Polling == {"poll", "load", "cas"}

\* A daemon on its way to the loop has its steps in order; the store opens after
\* the probes and before the loop.
StartsWell(d) ==
    /\ main[d].at = "off" => bound[d] = {} /\ store[d].at = "closed"
    /\ main[d].at \in Starts =>
        /\ Orderly(main[d].steps) /\ main[d].steps # <<>>
        /\ main[d].at # "bind" => Head(main[d].steps).op = "prepare"
        /\ \A i \in 1 .. Len(main[d].steps) :
            main[d].steps[i].op = "listen" => main[d].steps[i].on \notin bound[d]
        /\ Has(main[d].steps, "prepare") => store[d].at = "closed" /\ bound[d] = {}
        /\ kind = "portusd" /\ ~Has(main[d].steps, "state") => store[d].at = "open"
    /\ main[d].at \notin Starts \union {"off"} /\ kind = "portusd" => store[d].at = "open"
    /\ main[d].at = "drop" => main[d].steps \in Seq(ListenerNames)
    /\ main[d].at \in Polling => main[d].steps # <<>>

StartInv == \A d \in Daemons : StartsWell(d)

\* Who listens has the path or lost it to a rival; whom a rival found listening
\* had lost the path, or was on its way out.
SocketInv ==
    /\ \A d \in Daemons : main[d].at # "drop" =>
        \A l \in bound[d] : path[l] = d \/ <<d, l>> \in usurped
    /\ \A e \in Daemons : \A l \in ListenerNames : \A d \in looked[e][l] :
        /\ l \in bound[d] /\ path[l] # d
        /\ <<d, l>> \in usurped \/ main[d].at = "drop"

\* A permit is a thread, the connection in the main thread's hands is the one
\* accepted, and a thread is known to the main thread unless accept failed.
ConnInv ==
    /\ \A d \in Daemons :
        /\ permits[d] = Cardinality(Holders(d))
        /\ main[d].at \in {"load", "cas"} =>
            /\ main[d].conn \in Conns
            /\ conn[main[d].conn].at = "accepted" /\ conn[main[d].conn].to = d
        /\ main[d].at = "cas" => main[d].seen < MaxConnections
        /\ main[d].at = "drop" /\ main[d].seen = 0 => Holders(d) = {}
    /\ \A c \in Conns :
        /\ conn[c].to = None <=> conn[c].at = "new"
        /\ conn[c].at = "accepted" =>
            main[conn[c].to].at \in {"load", "cas"} /\ main[conn[c].to].conn = c
        /\ conn[c].at \in Held =>
            \/ c \in workers[conn[c].to]
            \/ main[conn[c].to].at = "drop" /\ main[conn[c].to].seen # 0

Migrating == {"migrating", "copying", "copied"}
StoreStates == [at : Migrating \union {"closed", "open"}, current : Nat, next : Nat]

\* The history of the database has no hole while somebody works with it; a daemon
\* alone knows all of it, and has the copy it needs before it changes it.
StoreInv ==
    /\ db \in [applied : SUBSET (1 .. LATEST_SCHEMA_VERSION + 1), ok : BOOLEAN]
    /\ backups \in [Versions -> Versions \union {Absent, Partial, 0}]
    /\ store \in [Daemons -> StoreStates]
    /\ alone \in BOOLEAN
    /\ \A d \in Daemons :
        /\ store[d].at # "closed" => db.applied \subseteq Versions /\ ValidHistory
        /\ store[d].at \in Migrating =>
            /\ store[d].next \in 1 .. LATEST_SCHEMA_VERSION + 1
            /\ store[d].current < store[d].next
            /\ 1 .. store[d].next - 1 \subseteq db.applied
        /\ store[d].at \in {"copying", "copied"} => store[d].next \in Versions
        /\ store[d].at = "open" => db.applied = Versions /\ db.ok
    /\ alone =>
        /\ \A d, e \in Daemons : PastProbe(d) /\ PastProbe(e) => d = e
        /\ \A d \in Daemons :
            /\ store[d].at \in Migrating => db.applied = 1 .. store[d].next - 1
            /\ store[d].at = "copied" => backups[store[d].next] = store[d].next - 1
        /\ \A u \in upgraded :
            u[1] \in db.applied /\ u[1] \in Versions /\ backups[u[1]] = u[2] /\ u[2] = u[1] - 1

ServerInv == ServerTypes /\ AuditTypes /\ StartInv /\ SocketInv /\ ConnInv /\ StoreInv

(***************************************************************************)
(* Steps that leave a part of the invariant alone.                         *)
(***************************************************************************)
InLoop == Ats \ (Starts \union {"off"})

\* In its loop a daemon is past the probes.
LEMMA LoopIsPast ==
    ASSUME NEW d \in Daemons
    PROVE  /\ main[d].at \in InLoop => PastProbe(d)
           /\ main'[d].at \in InLoop => PastProbe(d)'
  BY DEF InLoop, PastProbe, Starts

\* The next state's view of a start, when the kind of daemon stays.
LEMMA StartsWellNext ==
    ASSUME NEW d \in Daemons, UNCHANGED kind
    PROVE  StartsWell(d)' <=>
             /\ main'[d].at = "off" => bound'[d] = {} /\ store'[d].at = "closed"
             /\ main'[d].at \in Starts =>
                 /\ Orderly(main'[d].steps) /\ main'[d].steps # <<>>
                 /\ main'[d].at # "bind" => Head(main'[d].steps).op = "prepare"
                 /\ \A i \in 1 .. Len(main'[d].steps) :
                     main'[d].steps[i].op = "listen" => main'[d].steps[i].on \notin bound'[d]
                 /\ Has(main'[d].steps, "prepare") => store'[d].at = "closed" /\ bound'[d] = {}
                 /\ kind = "portusd" /\ ~Has(main'[d].steps, "state") => store'[d].at = "open"
             /\ main'[d].at \notin Starts \union {"off"} /\ kind = "portusd" => store'[d].at = "open"
             /\ main'[d].at = "drop" => main'[d].steps \in Seq(ListenerNames)
             /\ main'[d].at \in Polling => main'[d].steps # <<>>
<1>1. Listeners' = Listeners
  BY DEF Listeners
<1>2. Orderly(main[d].steps)' <=> Orderly(main'[d].steps)
  BY <1>1 DEF Orderly
<1>3. Has(main[d].steps, "prepare")' <=> Has(main'[d].steps, "prepare")
  BY DEF Has
<1>4. Has(main[d].steps, "state")' <=> Has(main'[d].steps, "state")
  BY DEF Has
<1> QED
  BY <1>2, <1>3, <1>4 DEF StartsWell

\* A step that opens and binds nothing.
LEMMA StartFrame ==
    ASSUME StartInv, UNCHANGED <<kind, bound, store>>,
           \A d \in Daemons :
              \/ main'[d] = main[d]
              \/ /\ main[d].at \in InLoop /\ main'[d].at \in InLoop
                 /\ main'[d].at = "drop" => main'[d].steps \in Seq(ListenerNames)
                 /\ main'[d].at \in Polling => main'[d].steps # <<>>
    PROVE  StartInv'
<1> SUFFICES ASSUME NEW d \in Daemons
             PROVE  /\ main'[d].at = "off" => bound[d] = {} /\ store[d].at = "closed"
                    /\ main'[d].at \in Starts =>
                        /\ Orderly(main'[d].steps) /\ main'[d].steps # <<>>
                        /\ main'[d].at # "bind" => Head(main'[d].steps).op = "prepare"
                        /\ \A i \in 1 .. Len(main'[d].steps) :
                            main'[d].steps[i].op = "listen" => main'[d].steps[i].on \notin bound[d]
                        /\ Has(main'[d].steps, "prepare") => store[d].at = "closed" /\ bound[d] = {}
                        /\ kind = "portusd" /\ ~Has(main'[d].steps, "state") => store[d].at = "open"
                    /\ main'[d].at \notin Starts \union {"off"} /\ kind = "portusd" => store[d].at = "open"
                    /\ main'[d].at = "drop" => main'[d].steps \in Seq(ListenerNames)
                    /\ main'[d].at \in Polling => main'[d].steps # <<>>
  BY StartsWellNext DEF StartInv
<1>1. CASE main'[d] = main[d]
  BY <1>1 DEF StartInv, StartsWell
<1>2. CASE /\ main[d].at \in InLoop /\ main'[d].at \in InLoop
           /\ main'[d].at = "drop" => main'[d].steps \in Seq(ListenerNames)
           /\ main'[d].at \in Polling => main'[d].steps # <<>>
  BY <1>2 DEF StartInv, StartsWell, InLoop
<1> QED
  BY <1>1, <1>2

\* A step that leaves the paths and the listeners alone.
LEMMA SocketFrame ==
    ASSUME SocketInv, UNCHANGED <<path, bound, looked, usurped>>,
           \A d \in Daemons : main[d].at = "drop" => main'[d].at = "drop",
           looked \in [Daemons -> [ListenerNames -> SUBSET Daemons]]
    PROVE  SocketInv'
  BY DEF SocketInv

\* A step that leaves the connections alone.
LEMMA ConnFrame ==
    ASSUME ConnInv, conn \in [Conns -> ConnStates], UNCHANGED <<permits, workers, conn>>,
           \A d \in Daemons :
              \/ /\ main'[d].at = main[d].at /\ main'[d].seen = main[d].seen
                 /\ main'[d].conn = main[d].conn
              \/ /\ main[d].at \notin {"load", "cas", "drop"}
                 /\ main'[d].at \notin {"load", "cas", "drop"}
    PROVE  ConnInv'
<1>1. \A d \in Daemons : Holders(d)' = Holders(d)
  BY DEF Holders
<1>2. \A c \in Conns : conn[c].at # "new" => conn[c].to \in Daemons
  BY DEF ConnInv, ConnStates
<1>3. \A d \in Daemons :
        /\ permits'[d] = Cardinality(Holders(d)')
        /\ main'[d].at \in {"load", "cas"} =>
            /\ main'[d].conn \in Conns
            /\ conn[main'[d].conn].at = "accepted" /\ conn[main'[d].conn].to = d
        /\ main'[d].at = "cas" => main'[d].seen < MaxConnections
        /\ main'[d].at = "drop" /\ main'[d].seen = 0 => Holders(d)' = {}
  BY <1>1 DEF ConnInv
<1>4. \A c \in Conns :
        /\ conn[c].to = None <=> conn[c].at = "new"
        /\ conn[c].at = "accepted" =>
            main'[conn[c].to].at \in {"load", "cas"} /\ main'[conn[c].to].conn = c
        /\ conn[c].at \in Held =>
            \/ c \in workers[conn[c].to]
            \/ main'[conn[c].to].at = "drop" /\ main'[conn[c].to].seen # 0
  BY <1>2 DEF ConnInv, Held
<1> QED
  BY <1>3, <1>4 DEF ConnInv

\* A step that leaves the store alone and brings nobody past the probes.
LEMMA StoreFrame ==
    ASSUME StoreInv, UNCHANGED storeVars, alone' \in BOOLEAN, alone' => alone,
           alone' => \A d, e \in Daemons : PastProbe(d)' /\ PastProbe(e)' => d = e
    PROVE  StoreInv'
  BY DEF StoreInv, storeVars, ValidHistory

\* A step of the main thread in its loop.
LEMMA LoopStep ==
    ASSUME ServerInv, NEW d \in Daemons, NEW m \in MainStates,
           main[d].at \in InLoop \ {"drop"}, m.at \in InLoop,
           m.at = "drop" => m.steps \in Seq(ListenerNames), m.at \in Polling => m.steps # <<>>,
           main' = [main EXCEPT ![d] = m],
           UNCHANGED <<kind, storeVars, auditVars, path, bound, looked, usurped, alone>>,
           permits' \in [Daemons -> 0 .. MaxConnections], workers' \in [Daemons -> SUBSET Conns],
           conn' \in [Conns -> ConnStates], ConnInv'
    PROVE  ServerInv'
<1>1. ServerTypes /\ AuditTypes /\ StartInv /\ SocketInv /\ StoreInv
  BY DEF ServerInv
<1>2. main \in [Daemons -> MainStates] /\ main' \in [Daemons -> MainStates]
      /\ \A e \in Daemons : main'[e] = IF e = d THEN m ELSE main[e]
  BY <1>1 DEF ServerTypes
<1>3. ServerTypes'
  BY <1>1, <1>2 DEF ServerTypes, Listeners
<1>4. AuditTypes'
  BY <1>1 DEF AuditTypes, auditVars
<1>5. StartInv'
  <2>1. UNCHANGED <<kind, bound, store>>
    BY DEF storeVars
  <2> QED
    BY <1>1, <1>2, <2>1, StartFrame
<1>6. SocketInv'
  BY <1>1, <1>2, SocketFrame DEF ServerTypes
<1>7. StoreInv'
  <2>1. \A e \in Daemons : PastProbe(e)' => PastProbe(e)
    <3> SUFFICES ASSUME NEW e \in Daemons, PastProbe(e)' PROVE PastProbe(e)
      OBVIOUS
    <3>1. CASE e = d
      BY <3>1, LoopIsPast
    <3>2. CASE e # d
      BY <1>2, <3>2 DEF PastProbe
    <3> QED
      BY <3>1, <3>2
  <2>2. alone' \in BOOLEAN /\ (alone' => alone)
    BY <1>1 DEF StoreInv
  <2>3. alone' => \A a, e \in Daemons : PastProbe(a)' /\ PastProbe(e)' => a = e
    BY <1>1, <2>1, <2>2 DEF StoreInv
  <2> QED
    BY <1>1, <2>2, <2>3, StoreFrame
<1> QED
  BY <1>3, <1>4, <1>5, <1>6, <1>7 DEF ServerInv

\* A step of another thread.
LEMMA ThreadStep ==
    ASSUME ServerInv,
           UNCHANGED <<kind, storeVars, path, main, bound, workers, looked, usurped, alone>>,
           AuditTypes', permits' \in [Daemons -> 0 .. MaxConnections],
           conn' \in [Conns -> ConnStates], ConnInv'
    PROVE  ServerInv'
<1>1. ServerTypes /\ StartInv /\ SocketInv /\ StoreInv
  BY DEF ServerInv
<1>2. ServerTypes'
  BY <1>1 DEF ServerTypes, Listeners
<1>3. StartInv'
  <2>1. UNCHANGED <<kind, bound, store>>
    BY DEF storeVars
  <2> QED
    BY <1>1, <2>1, StartFrame
<1>4. SocketInv'
  BY <1>1, SocketFrame DEF ServerTypes
<1>5. StoreInv'
  <2>1. \A e \in Daemons : PastProbe(e)' <=> PastProbe(e)
    BY DEF PastProbe
  <2>2. alone' \in BOOLEAN /\ (alone' => alone)
    BY <1>1 DEF StoreInv
  <2>3. alone' => \A a, e \in Daemons : PastProbe(a)' /\ PastProbe(e)' => a = e
    BY <1>1, <2>1, <2>2 DEF StoreInv
  <2> QED
    BY <1>1, <2>2, <2>3, StoreFrame
<1> QED
  BY <1>2, <1>3, <1>4, <1>5 DEF ServerInv

\* The threads of a daemon can be counted.
LEMMA HoldersAreFinite ==
    ASSUME NEW d
    PROVE  IsFiniteSet(Holders(d)) /\ Cardinality(Holders(d)) \in Nat
<1>1. Holders(d) \subseteq Conns /\ IsFiniteSet(Conns)
  BY ClientsAssumption DEF Holders
<1>2. IsFiniteSet(Holders(d))
  BY <1>1, FS_Subset
<1> QED
  BY <1>2, FS_CardinalityType

(***************************************************************************)
(* The threads.                                                            *)
(***************************************************************************)
\* A connection goes on under its permit.
LEMMA ConnectionGoesOn ==
    ASSUME ServerInv, NEW c \in Conns, conn[c].at \in Held,
           conn' \in [Conns -> ConnStates], conn'[c].at \in Held, conn'[c].to = conn[c].to,
           \A b \in Conns \ {c} : conn'[b] = conn[b],
           UNCHANGED <<kind, storeVars, auditVars, path, main, bound, permits, workers, looked,
                       usurped, alone>>
    PROVE  ServerInv'
<1>1. ServerTypes /\ AuditTypes /\ ConnInv
  BY DEF ServerInv
<1>2. \A d \in Daemons : Holders(d)' = Holders(d)
  BY DEF Holders
<1>3. \A d \in Daemons : main[d].at \in {"load", "cas"} => main[d].conn # c
  BY <1>1 DEF ConnInv, Held
<1>4. ConnInv'
  <2>1. \A d \in Daemons :
        /\ permits'[d] = Cardinality(Holders(d)')
        /\ main'[d].at \in {"load", "cas"} =>
            /\ main'[d].conn \in Conns
            /\ conn'[main'[d].conn].at = "accepted" /\ conn'[main'[d].conn].to = d
        /\ main'[d].at = "cas" => main'[d].seen < MaxConnections
        /\ main'[d].at = "drop" /\ main'[d].seen = 0 => Holders(d)' = {}
    BY <1>1, <1>2, <1>3 DEF ConnInv
  <2>2. \A b \in Conns :
        /\ conn'[b].to = None <=> conn'[b].at = "new"
        /\ conn'[b].at = "accepted" =>
            main[conn'[b].to].at \in {"load", "cas"} /\ main[conn'[b].to].conn = b
        /\ conn'[b].at \in Held =>
            \/ b \in workers[conn'[b].to]
            \/ main[conn'[b].to].at = "drop" /\ main[conn'[b].to].seen # 0
    BY <1>1 DEF ConnInv, Held
  <2> QED
    BY <2>1, <2>2 DEF ConnInv
<1>5. AuditTypes' /\ permits' \in [Daemons -> 0 .. MaxConnections]
  BY <1>1 DEF AuditTypes, auditVars, ServerTypes
<1> QED
  BY <1>4, <1>5, ThreadStep

\* A request that arrives, and its answer.
LEMMA RequestsKeep ==
    ASSUME ServerInv, NEW c \in Conns,
           read_json_line(c) \/ follow(c) \/ read_ends(c) \/ write_json_line(c) \/ write_fails(c)
    PROVE  ServerInv'
<1>1. conn \in [Conns -> ConnStates]
  BY DEF ServerInv, ServerTypes
<1>2. /\ conn[c].at \in {"reading", "busy"}
      /\ UNCHANGED <<kind, storeVars, auditVars, path, main, bound, permits, workers, looked,
                     usurped, alone>>
      /\ \E at \in Held, ends \in BOOLEAN :
           \/ conn' = [conn EXCEPT ![c].at = at]
           \/ conn' = [conn EXCEPT ![c].at = at, ![c].ends = ends]
  BY DEF read_json_line, follow, read_ends, write_json_line, write_fails, Closes, Answered, Held
<1>3. /\ conn' \in [Conns -> ConnStates] /\ conn'[c].at \in Held /\ conn'[c].to = conn[c].to
      /\ \A b \in Conns \ {c} : conn'[b] = conn[b]
  BY <1>1, <1>2 DEF ConnStates, Held
<1> QED
  BY <1>2, <1>3, ConnectionGoesOn DEF Held

\* A connection waits in the backlog of the daemon that has the path.
LEMMA ConnectKeeps ==
    ASSUME ServerInv, NEW c \in Conns, connect(c)
    PROVE  ServerInv'
<1>1. ServerTypes /\ AuditTypes /\ ConnInv
  BY DEF ServerInv
<1>2. PICK l \in ListenerNames :
        /\ path[l] \in Daemons
        /\ conn' = [conn EXCEPT ![c] = [at |-> "queued", to |-> path[l], on |-> l, ends |-> FALSE]]
  BY DEF connect, connects
<1>3. /\ conn[c].at = "new"
      /\ UNCHANGED <<kind, storeVars, auditVars, path, main, bound, permits, workers, looked,
                     usurped, alone>>
  BY DEF connect
<1>4. /\ conn' \in [Conns -> ConnStates] /\ conn'[c].at = "queued" /\ conn'[c].to = path[l]
      /\ \A b \in Conns \ {c} : conn'[b] = conn[b]
  BY <1>1, <1>2 DEF ServerTypes, ConnStates
<1>5. \A d \in Daemons : Holders(d)' = Holders(d)
  BY <1>3, <1>4 DEF Holders, Held
<1>6. path[l] # None
  BY <1>2, ClientsAssumption
<1>7. ConnInv'
  <2>1. \A d \in Daemons :
        /\ permits'[d] = Cardinality(Holders(d)')
        /\ main'[d].at \in {"load", "cas"} =>
            /\ main'[d].conn \in Conns
            /\ conn'[main'[d].conn].at = "accepted" /\ conn'[main'[d].conn].to = d
        /\ main'[d].at = "cas" => main'[d].seen < MaxConnections
        /\ main'[d].at = "drop" /\ main'[d].seen = 0 => Holders(d)' = {}
    BY <1>1, <1>3, <1>4, <1>5 DEF ConnInv
  <2>2. \A b \in Conns :
        /\ conn'[b].to = None <=> conn'[b].at = "new"
        /\ conn'[b].at = "accepted" =>
            main[conn'[b].to].at \in {"load", "cas"} /\ main[conn'[b].to].conn = b
        /\ conn'[b].at \in Held =>
            \/ b \in workers[conn'[b].to]
            \/ main[conn'[b].to].at = "drop" /\ main[conn'[b].to].seen # 0
    BY <1>1, <1>4, <1>6 DEF ConnInv, Held
  <2> QED
    BY <1>3, <2>1, <2>2 DEF ConnInv
<1>8. AuditTypes' /\ permits' \in [Daemons -> 0 .. MaxConnections]
  BY <1>1, <1>3 DEF AuditTypes, auditVars, ServerTypes
<1> QED
  BY <1>3, <1>4, <1>7, <1>8, ThreadStep

\* A permit comes back with the end of its thread.
LEMMA PermitDropKeeps ==
    ASSUME ServerInv, NEW c \in Conns, ConnectionPermit_drop(c)
    PROVE  ServerInv'
<1>1. ServerTypes /\ AuditTypes /\ ConnInv
  BY DEF ServerInv
<1>2. /\ conn[c].at = "closing"
      /\ UNCHANGED <<kind, storeVars, auditVars, path, main, bound, workers, looked,
                     usurped, alone>>
      /\ permits' = [permits EXCEPT ![conn[c].to] = @ - 1]
      /\ conn' = [conn EXCEPT ![c].at = "closed"]
  BY DEF ConnectionPermit_drop
<1>3. PICK d \in Daemons : conn[c].to = d
  BY <1>1, <1>2 DEF ConnInv, ServerTypes, ConnStates
<1>4. /\ conn' \in [Conns -> ConnStates] /\ conn'[c].at = "closed" /\ conn'[c].to = d
      /\ \A b \in Conns \ {c} : conn'[b] = conn[b]
  BY <1>1, <1>2, <1>3 DEF ServerTypes, ConnStates
<1>5. \A e \in Daemons \ {d} : Holders(e)' = Holders(e)
  BY <1>3, <1>4 DEF Holders, Held
<1>6. Holders(d)' = Holders(d) \ {c} /\ c \in Holders(d)
  BY <1>2, <1>3, <1>4 DEF Holders, Held
<1>7. Cardinality(Holders(d)') = Cardinality(Holders(d)) - 1
  <2>1. IsFiniteSet(Holders(d))
    BY HoldersAreFinite
  <2>2. Cardinality(Holders(d) \ {c}) = Cardinality(Holders(d)) - 1
    BY <1>6, <2>1, FS_RemoveElement
  <2> QED
    BY <1>6, <2>2
<1>8. Cardinality(Holders(d)') \in Nat /\ Cardinality(Holders(d)) \in Nat
  <2>1. IsFiniteSet(Holders(d) \ {c})
    BY HoldersAreFinite, FS_RemoveElement
  <2> QED
    BY <1>6, <2>1, FS_CardinalityType, HoldersAreFinite
<1>9. permits' \in [Daemons -> 0 .. MaxConnections] /\ permits'[d] = Cardinality(Holders(d)')
      /\ \A e \in Daemons \ {d} : permits'[e] = permits[e]
  <2>1. permits \in [Daemons -> 0 .. MaxConnections] /\ permits[d] = Cardinality(Holders(d))
    BY <1>1 DEF ServerTypes, ConnInv
  <2>2. permits[d] - 1 \in 0 .. MaxConnections
    BY <1>7, <1>8, <2>1, PermitsExist
  <2> QED
    BY <1>2, <1>3, <1>7, <2>1, <2>2
<1>10. ConnInv'
  <2>1. \A e \in Daemons :
        /\ permits'[e] = Cardinality(Holders(e)')
        /\ main'[e].at \in {"load", "cas"} =>
            /\ main'[e].conn \in Conns
            /\ conn'[main'[e].conn].at = "accepted" /\ conn'[main'[e].conn].to = e
        /\ main'[e].at = "cas" => main'[e].seen < MaxConnections
        /\ main'[e].at = "drop" /\ main'[e].seen = 0 => Holders(e)' = {}
    <3> TAKE e \in Daemons
    <3>1. permits'[e] = Cardinality(Holders(e)')
      BY <1>1, <1>5, <1>9 DEF ConnInv
    <3>2. main[e].at \in {"load", "cas"} => main[e].conn # c
      BY <1>1, <1>2 DEF ConnInv
    <3>3. main[e].at = "drop" /\ main[e].seen = 0 => Holders(e)' = {}
      BY <1>1, <1>5, <1>6 DEF ConnInv
    <3> QED
      BY <1>1, <1>2, <1>4, <3>1, <3>2, <3>3 DEF ConnInv
  <2>2. \A b \in Conns :
        /\ conn'[b].to = None <=> conn'[b].at = "new"
        /\ conn'[b].at = "accepted" =>
            main[conn'[b].to].at \in {"load", "cas"} /\ main[conn'[b].to].conn = b
        /\ conn'[b].at \in Held =>
            \/ b \in workers[conn'[b].to]
            \/ main[conn'[b].to].at = "drop" /\ main[conn'[b].to].seen # 0
    <3> TAKE b \in Conns
    <3>1. CASE b = c
      <4>1. d # None
        BY ClientsAssumption
      <4> QED
        BY <1>4, <3>1, <4>1 DEF Held
    <3>2. CASE b # c
      BY <1>1, <1>4, <3>2 DEF ConnInv
    <3> QED
      BY <3>1, <3>2
  <2> QED
    BY <1>2, <2>1, <2>2 DEF ConnInv
<1>11. AuditTypes'
  BY <1>1, <1>2 DEF AuditTypes, auditVars
<1> QED
  BY <1>2, <1>4, <1>9, <1>10, <1>11, ThreadStep

\* A rotation moves files within the archives, and no file passes its limit.
LEMMA AuditKeeps ==
    ASSUME AuditTypes, NEW d,
           rotate_if_needed(d) \/ append(d) \/ (abandon_rotation(d) /\ UNCHANGED <<files, recorded>>)
    PROVE  AuditTypes'
<1> USE AuditSizes
<1>0. Idle \in Creating .. Idle /\ Archives \in Creating .. Idle
  BY DEF Creating, Idle
<1>1. /\ files \in [0 .. Archives -> Seq(Nat)] /\ recorded \in Nat
      /\ \A k \in 0 .. Archives : files[k] = NoFile \/ Len(files[k]) <= FileLimit
      /\ rotating \in [Daemons -> Creating .. Idle] /\ NoFile \in Seq(Nat)
  BY DEF AuditTypes, NoFile
<1>2. CASE rotate_if_needed(d)
  <2>1. CASE /\ rotating' = [rotating EXCEPT ![d] = Archives]
             /\ UNCHANGED <<files, recorded, cut>>
    <3>1. rotating' \in [Daemons -> Creating .. Idle]
      BY <1>0, <1>1, <2>1
    <3> QED
      BY <1>1, <2>1, <3>1 DEF AuditTypes
  <2>2. CASE /\ rotating[d] \in 0 .. Archives /\ files' = archive_path(rotating[d])
             /\ rotating' = [rotating EXCEPT ![d] = @ - 1]
             /\ UNCHANGED <<recorded, cut>>
    <3>1. rotating' \in [Daemons -> Creating .. Idle]
      <4>1. rotating[d] - 1 \in Creating .. Idle
        BY <2>2 DEF Creating, Idle
      <4> QED
        BY <1>1, <2>2, <4>1
    <3>2. PICK k \in 0 .. Archives : rotating[d] = k
      BY <2>2
    <3>3. /\ files' \in [0 .. Archives -> Seq(Nat)]
          /\ \A j \in 0 .. Archives : files'[j] = NoFile \/ Len(files'[j]) <= FileLimit
      <4>1. CASE k = Archives
        BY <1>1, <2>2, <3>2, <4>1 DEF archive_path, remove_oldest
      <4>2. CASE k # Archives /\ files[k] = NoFile
        BY <1>1, <2>2, <3>2, <4>2 DEF archive_path, rename
      <4>3. CASE k # Archives /\ files[k] # NoFile
        <5>1. files' = [files EXCEPT ![k + 1] = files[k], ![k] = NoFile] /\ k + 1 \in 0 .. Archives
          BY <2>2, <3>2, <4>3 DEF archive_path, rename
        <5> QED
          BY <1>1, <5>1
      <4> QED
        BY <4>1, <4>2, <4>3
    <3> QED
      BY <1>1, <2>2, <3>1, <3>3 DEF AuditTypes
  <2> QED
    BY <1>2, <2>1, <2>2 DEF rotate_if_needed
<1>3. CASE append(d)
  <2> DEFINE old == IF rotating[d] = Creating THEN <<>> ELSE Content(files[0])
  <2>1. old \in Seq(Nat) /\ Len(old) + 1 <= FileLimit
    <3>1. CASE rotating[d] = Creating
      BY <3>1
    <3>2. CASE rotating[d] # Creating
      <4>1. Content(files[0]) \in Seq(Nat)
        BY <1>1 DEF Content
      <4>2. ~(Len(Content(files[0])) + 1 > FileLimit)
        BY <1>3, <3>2 DEF append, rotation_needed
      <4> QED
        BY <3>2, <4>1, <4>2
    <3> QED
      BY <3>1, <3>2
  <2>2. /\ files' = [files EXCEPT ![0] = Append(old, recorded + 1)]
        /\ recorded' = recorded + 1 /\ rotating' = [rotating EXCEPT ![d] = Idle]
    BY <1>1, <1>3 DEF append
  <2> HIDE DEF old
  <2>3. Append(old, recorded + 1) \in Seq(Nat) /\ Len(Append(old, recorded + 1)) <= FileLimit
    BY <1>1, <2>1
  <2>4. rotating' \in [Daemons -> Creating .. Idle]
    BY <1>0, <1>1, <2>2
  <2> QED
    BY <1>1, <2>2, <2>3, <2>4 DEF AuditTypes
<1>4. CASE abandon_rotation(d) /\ UNCHANGED <<files, recorded>>
  <2>1. rotating' \in [Daemons -> Creating .. Idle]
    BY <1>0, <1>1, <1>4 DEF abandon_rotation
  <2> QED
    BY <1>1, <1>4, <2>1 DEF AuditTypes
<1> QED
  BY <1>2, <1>3, <1>4

\* What threads do at the mutexes touches nothing the invariant is about.
LEMMA MutexStepsKeep ==
    ASSUME ServerInv, NEW t, lock_mutex(t) \/ unlock_mutex(t) \/ record(t) \/ record_fails(t)
                             \/ \E d \in Daemons : signal(d)
    PROVE  ServerInv'
<1>1. UNCHANGED <<kind, storeVars, path, main, bound, permits, workers, conn, looked, usurped, alone>>
  BY DEF lock_mutex, unlock_mutex, record, record_fails, signal
<1>2. AuditTypes'
  <2>1. CASE UNCHANGED auditVars
    BY <2>1 DEF ServerInv, AuditTypes, auditVars
  <2>2. CASE record(t)
    BY <2>2, AuditKeeps DEF record, ServerInv
  <2>3. CASE record_fails(t)
    BY <2>3, AuditKeeps DEF record_fails, ServerInv
  <2> QED
    BY <2>1, <2>2, <2>3 DEF lock_mutex, unlock_mutex, signal
<1>3. ConnInv'
  BY <1>1, ConnFrame DEF ServerInv, ServerTypes
<1> QED
  BY <1>1, <1>2, <1>3, ThreadStep DEF ServerInv, ServerTypes

(***************************************************************************)
(* The loop of the main thread.                                            *)
(***************************************************************************)
\* What a daemon does to its own connections.
LEMMA OwnConnections ==
    ASSUME ConnInv, conn \in [Conns -> ConnStates], NEW d \in Daemons,
           \A e \in Daemons \ {d} :
              main'[e] = main[e] /\ workers'[e] = workers[e] /\ permits'[e] = permits[e],
           \A b \in Conns :
              IF conn[b].to = d THEN conn'[b].to = d /\ conn'[b].at # "new"
              ELSE conn'[b] = conn[b],
           permits'[d] = Cardinality(Holders(d)'),
           main'[d].at \in {"load", "cas"} =>
              /\ main'[d].conn \in Conns
              /\ conn'[main'[d].conn].at = "accepted" /\ conn'[main'[d].conn].to = d,
           main'[d].at = "cas" => main'[d].seen < MaxConnections,
           main'[d].at = "drop" /\ main'[d].seen = 0 => Holders(d)' = {},
           \A c \in Conns : conn'[c].to = d =>
              /\ conn'[c].at = "accepted" => main'[d].at \in {"load", "cas"} /\ main'[d].conn = c
              /\ conn'[c].at \in Held =>
                  c \in workers'[d] \/ (main'[d].at = "drop" /\ main'[d].seen # 0)
    PROVE  ConnInv'
<1>1. \A e \in Daemons \ {d} : Holders(e)' = Holders(e)
  BY DEF Holders
<1>2. d # None
  BY ClientsAssumption
<1>3. ASSUME NEW e \in Daemons
      PROVE  /\ permits'[e] = Cardinality(Holders(e)')
             /\ main'[e].at \in {"load", "cas"} =>
                 /\ main'[e].conn \in Conns
                 /\ conn'[main'[e].conn].at = "accepted" /\ conn'[main'[e].conn].to = e
             /\ main'[e].at = "cas" => main'[e].seen < MaxConnections
             /\ main'[e].at = "drop" /\ main'[e].seen = 0 => Holders(e)' = {}
  <2>1. CASE e = d
    BY <2>1
  <2>2. CASE e # d
    BY <1>1, <2>2 DEF ConnInv
  <2> QED
    BY <2>1, <2>2
<1>4. ASSUME NEW c \in Conns
      PROVE  /\ conn'[c].to = None <=> conn'[c].at = "new"
             /\ conn'[c].at = "accepted" =>
                 main'[conn'[c].to].at \in {"load", "cas"} /\ main'[conn'[c].to].conn = c
             /\ conn'[c].at \in Held =>
                 \/ c \in workers'[conn'[c].to]
                 \/ main'[conn'[c].to].at = "drop" /\ main'[conn'[c].to].seen # 0
  <2>1. CASE conn[c].to = d
    BY <1>2, <2>1
  <2>2. CASE conn[c].to # d /\ conn[c].to \in Daemons
    BY <2>2 DEF ConnInv
  <2>3. CASE conn[c].to \notin Daemons
    <3>1. conn[c].to = None
      BY <2>3 DEF ConnStates
    <3>2. conn'[c] = conn[c] /\ conn[c].at = "new"
      BY <1>2, <3>1 DEF ConnInv
    <3> QED
      BY <3>1, <3>2 DEF Held
  <2> QED
    BY <2>1, <2>2, <2>3
<1> QED
  BY <1>3, <1>4 DEF ConnInv

\* What is left of a list of steps.
LEMMA TailIs ==
    ASSUME NEW S, NEW s \in Seq(S), s # <<>>
    PROVE  /\ Tail(s) \in Seq(S) /\ Len(Tail(s)) = Len(s) - 1 /\ Len(s) \in Nat \ {0}
           /\ Len(s) # 1 => Tail(s) # <<>>
           /\ \A i \in 1 .. Len(Tail(s)) : i + 1 \in 1 .. Len(s) /\ Tail(s)[i] = s[i + 1]
           /\ Head(s) = s[1] /\ 1 \in 1 .. Len(s) /\ s[1] \in S
<1>1. Len(s) \in Nat \ {0} /\ 1 \in 1 .. Len(s)
  OBVIOUS
<1>2. /\ Tail(s) \in Seq(S) /\ Len(Tail(s)) = Len(s) - 1
      /\ \A i \in 1 .. Len(Tail(s)) : Tail(s)[i] = s[i + 1]
  BY HeadTailProperties
<1>3. Len(s) # 1 => Tail(s) # <<>>
  <2>1. Tail(s) = <<>> => Len(Tail(s)) = 0
    BY <1>2, EmptySeq
  <2> QED
    BY <1>1, <1>2, <2>1
<1>4. Head(s) = s[1] /\ s[1] \in S
  BY <1>1
<1>5. \A i \in 1 .. Len(Tail(s)) : i + 1 \in 1 .. Len(s)
  BY <1>1, <1>2
<1> QED
  BY <1>1, <1>2, <1>3, <1>4, <1>5

\* Nobody waits at a listener.
LEMMA WouldBlockKeeps ==
    ASSUME ServerInv, NEW d \in Daemons, WouldBlock(d)
    PROVE  ServerInv'
<1>1. ServerTypes /\ StartInv /\ ConnInv
  BY DEF ServerInv
<1>2. main \in [Daemons -> MainStates] /\ main[d].at = "poll" /\ main[d].steps # <<>>
  BY <1>1 DEF ServerTypes, WouldBlock, StartInv, StartsWell, Polling
<1> DEFINE m == IF Len(main[d].steps) = 1 THEN [Off EXCEPT !.at = "reap"]
                ELSE [main[d] EXCEPT !.steps = Tail(@)]
<1>3. m \in MainStates /\ m.at \in {"reap", "poll"} /\ (m.at \in Polling => m.steps # <<>>)
  <2>1. CASE Len(main[d].steps) = 1
    <3>0. [Off EXCEPT !.at = "reap"] = [at |-> "reap", steps |-> <<>>, seen |-> 0, conn |-> Free]
      BY DEF Off
    <3>1. m = [at |-> "reap", steps |-> <<>>, seen |-> 0, conn |-> Free]
      BY <2>1, <3>0
    <3> HIDE DEF m
    <3> QED
      BY <3>1 DEF MainStates, Ats, Polling
  <2>2. CASE Len(main[d].steps) # 1
    <3>1. main[d].steps \in Seq(BindSteps \union ListenerNames) /\ main[d] \in MainStates
      BY <1>2 DEF MainStates
    <3>2. Tail(main[d].steps) \in Seq(BindSteps \union ListenerNames) /\ Tail(main[d].steps) # <<>>
      BY <1>2, <2>2, <3>1, TailIs
    <3>3. m = [main[d] EXCEPT !.steps = Tail(main[d].steps)]
      BY <2>2
    <3> HIDE DEF m
    <3> QED
      BY <1>2, <3>1, <3>2, <3>3 DEF MainStates
  <2> QED
    BY <2>1, <2>2
<1>4. main' = [main EXCEPT ![d] = m]
  BY DEF WouldBlock
<1>5. UNCHANGED <<kind, storeVars, auditVars, path, bound, permits, workers, conn, looked, usurped,
                  alone>>
  BY DEF WouldBlock
<1> HIDE DEF m
<1>6. ConnInv'
  BY <1>1, <1>2, <1>3, <1>4, <1>5, ConnFrame DEF ServerTypes
<1>7. main[d].at \in InLoop \ {"drop"} /\ m.at \in InLoop /\ m.at # "drop"
  BY <1>2, <1>3 DEF InLoop, Ats, Starts
<1>8. /\ permits' \in [Daemons -> 0 .. MaxConnections] /\ workers' \in [Daemons -> SUBSET Conns]
      /\ conn' \in [Conns -> ConnStates]
  BY <1>1, <1>5 DEF ServerTypes
<1> QED
  BY <1>3, <1>4, <1>5, <1>6, <1>7, <1>8, LoopStep

\* The main thread takes a connection out of the backlog.
LEMMA AcceptKeeps ==
    ASSUME ServerInv, NEW d \in Daemons, accept(d)
    PROVE  ServerInv'
<1>1. ServerTypes /\ StartInv /\ ConnInv
  BY DEF ServerInv
<1>2. /\ main \in [Daemons -> MainStates] /\ main[d].at = "poll" /\ main[d].steps # <<>>
      /\ conn \in [Conns -> ConnStates]
  BY <1>1 DEF ServerTypes, accept, StartInv, StartsWell, Polling
<1>3. PICK c \in Conns :
        /\ conn[c].at = "queued" /\ conn[c].to = d
        /\ main' = [main EXCEPT ![d].at = "load", ![d].conn = c]
        /\ conn' = [conn EXCEPT ![c].at = "accepted"]
  BY DEF accept, Waiting
<1>4. UNCHANGED <<kind, storeVars, auditVars, path, bound, permits, workers, looked, usurped, alone>>
  BY DEF accept
<1> DEFINE m == [main[d] EXCEPT !.at = "load", !.conn = c]
<1>5. m \in MainStates /\ m.at = "load" /\ m.conn = c /\ m.steps # <<>>
  BY <1>2 DEF MainStates, Ats
<1>6. main' = [main EXCEPT ![d] = m]
  BY <1>2, <1>3
<1> HIDE DEF m
<1>7. /\ conn' \in [Conns -> ConnStates] /\ conn'[c].at = "accepted" /\ conn'[c].to = d
      /\ \A b \in Conns \ {c} : conn'[b] = conn[b]
  BY <1>2, <1>3 DEF ConnStates
<1>8. Holders(d)' = Holders(d)
  BY <1>3, <1>7 DEF Holders, Held
<1>9. main'[d] = m /\ \A e \in Daemons \ {d} : main'[e] = main[e]
  BY <1>2, <1>6
<1>10. \A b \in Conns : conn[b].to = d => conn[b].at \notin {"new", "accepted"}
  BY <1>1, <1>2, ClientsAssumption DEF ConnInv
<1>11. \A b \in Conns : conn[b].to = d /\ conn[b].at \in Held => b \in workers[d]
  BY <1>1, <1>2 DEF ConnInv
<1>12. ConnInv'
  <2>1. permits'[d] = Cardinality(Holders(d)')
    BY <1>1, <1>4, <1>8 DEF ConnInv
  <2>2. \A b \in Conns : IF conn[b].to = d THEN conn'[b].to = d /\ conn'[b].at # "new"
                         ELSE conn'[b] = conn[b]
    BY <1>3, <1>7, <1>10
  <2>3. \A b \in Conns : conn'[b].to = d =>
              /\ conn'[b].at = "accepted" => main'[d].at \in {"load", "cas"} /\ main'[d].conn = b
              /\ conn'[b].at \in Held =>
                  b \in workers'[d] \/ (main'[d].at = "drop" /\ main'[d].seen # 0)
    <3> SUFFICES ASSUME NEW b \in Conns, conn'[b].to = d
                 PROVE  /\ conn'[b].at = "accepted" => b = c
                        /\ conn'[b].at \in Held => b \in workers[d]
      BY <1>4, <1>5, <1>9
    <3>1. CASE b = c
      BY <1>7, <3>1 DEF Held
    <3>2. CASE b # c
      BY <1>7, <1>10, <1>11, <3>2
    <3> QED
      BY <3>1, <3>2
  <2>4. main'[d].at = "load" /\ main'[d].conn = c
    BY <1>5, <1>9
  <2>5. \A e \in Daemons \ {d} :
          main'[e] = main[e] /\ workers'[e] = workers[e] /\ permits'[e] = permits[e]
    BY <1>4, <1>9
  <2> QED
    BY <1>1, <1>2, <1>7, <2>1, <2>2, <2>3, <2>4, <2>5, OwnConnections
<1>13. main[d].at \in InLoop \ {"drop"} /\ m.at \in InLoop /\ m.at # "drop"
  BY <1>2, <1>5 DEF InLoop, Ats, Starts
<1>14. permits' \in [Daemons -> 0 .. MaxConnections] /\ workers' \in [Daemons -> SUBSET Conns]
  BY <1>1, <1>4 DEF ServerTypes
<1> QED
  BY <1>4, <1>5, <1>6, <1>7, <1>12, <1>13, <1>14, LoopStep

\* The counter is read: the connection is refused at the limit.
LEMMA AcquireLoadKeeps ==
    ASSUME ServerInv, NEW d \in Daemons, acquire_load(d)
    PROVE  ServerInv'
<1>1. ServerTypes /\ StartInv /\ ConnInv
  BY DEF ServerInv
<1>2. /\ main \in [Daemons -> MainStates] /\ main[d].at = "load" /\ main[d].steps # <<>>
      /\ conn \in [Conns -> ConnStates] /\ permits[d] \in 0 .. MaxConnections
  BY <1>1 DEF ServerTypes, acquire_load, StartInv, StartsWell, Polling
<1>3. PICK c \in Conns : main[d].conn = c /\ conn[c].at = "accepted" /\ conn[c].to = d
  BY <1>1, <1>2 DEF ConnInv
<1>4. UNCHANGED <<kind, storeVars, auditVars, path, bound, permits, workers, looked, usurped, alone>>
  BY DEF acquire_load
<1>5. permits' \in [Daemons -> 0 .. MaxConnections] /\ workers' \in [Daemons -> SUBSET Conns]
  BY <1>1, <1>4 DEF ServerTypes
<1>6. /\ main[d].at \in InLoop \ {"drop"}
      /\ AfterAccept(d) \in InLoop \ {"drop", "load", "cas"} /\ "cas" \in InLoop
  BY <1>2 DEF InLoop, Ats, Starts, AfterAccept
<1>7. \A b \in Conns \ {c} : conn[b].to = d => conn[b].at \notin {"new", "accepted"}
  BY <1>1, <1>2, <1>3, ClientsAssumption DEF ConnInv
<1>8. \A b \in Conns : conn[b].to = d /\ conn[b].at \in Held => b \in workers[d]
  BY <1>1, <1>2 DEF ConnInv
<1>9. CASE permits[d] >= MaxConnections
  <2> DEFINE m == [main[d] EXCEPT !.at = AfterAccept(d), !.conn = Free]
  <2>1. m \in MainStates /\ m.at = AfterAccept(d) /\ m.steps # <<>>
    BY <1>2, <1>6 DEF MainStates, InLoop
  <2>2. /\ main' = [main EXCEPT ![d].at = AfterAccept(d), ![d].conn = Free]
        /\ conn' = [conn EXCEPT ![c].at = "closed"]
    BY <1>3, <1>9 DEF acquire_load
  <2>3. main' = [main EXCEPT ![d] = m]
    BY <1>2, <2>2
  <2> HIDE DEF m
  <2>4. main'[d] = m /\ \A e \in Daemons \ {d} : main'[e] = main[e]
    BY <1>2, <2>3
  <2>5. /\ conn' \in [Conns -> ConnStates] /\ conn'[c].at = "closed" /\ conn'[c].to = d
        /\ \A b \in Conns \ {c} : conn'[b] = conn[b]
    BY <1>2, <1>3, <2>2 DEF ConnStates
  <2>6. ConnInv'
    <3>1. Holders(d)' = Holders(d)
      BY <1>3, <2>5 DEF Holders, Held
    <3>2. permits'[d] = Cardinality(Holders(d)')
      BY <1>1, <1>4, <3>1 DEF ConnInv
    <3>3. \A b \in Conns : IF conn[b].to = d THEN conn'[b].to = d /\ conn'[b].at # "new"
                           ELSE conn'[b] = conn[b]
      BY <1>3, <1>7, <2>5
    <3>4. \A b \in Conns : conn'[b].to = d => conn'[b].at # "accepted"
      BY <1>7, <2>5
    <3>5. \A b \in Conns : conn'[b].to = d /\ conn'[b].at \in Held => b \in workers'[d]
      BY <1>4, <1>8, <2>5 DEF Held
    <3>6. main'[d].at \notin {"load", "cas", "drop"}
      BY <1>6, <2>1, <2>4
    <3>7. \A e \in Daemons \ {d} :
            main'[e] = main[e] /\ workers'[e] = workers[e] /\ permits'[e] = permits[e]
      BY <1>4, <2>4
    <3> QED
      BY <1>1, <1>2, <3>2, <3>3, <3>4, <3>5, <3>6, <3>7, OwnConnections
  <2> QED
    BY <1>4, <1>5, <1>6, <2>1, <2>3, <2>5, <2>6, LoopStep
<1>10. CASE ~(permits[d] >= MaxConnections)
  <2> DEFINE m == [main[d] EXCEPT !.at = "cas", !.seen = permits[d]]
  <2>1. m \in MainStates /\ m.at = "cas" /\ m.steps # <<>> /\ m.conn = c /\ m.seen < MaxConnections
    <3>1. permits[d] \in Nat /\ permits[d] < MaxConnections
      BY <1>2, <1>10, PermitsExist
    <3> QED
      BY <1>2, <1>3, <3>1 DEF MainStates, Ats
  <2>2. main' = [main EXCEPT ![d].at = "cas", ![d].seen = permits[d]] /\ conn' = conn
    BY <1>10 DEF acquire_load
  <2>3. main' = [main EXCEPT ![d] = m]
    BY <1>2, <2>2
  <2> HIDE DEF m
  <2>4. main'[d] = m /\ \A e \in Daemons \ {d} : main'[e] = main[e]
    BY <1>2, <2>3
  <2>5. ConnInv'
    <3>1. permits'[d] = Cardinality(Holders(d)')
      BY <1>1, <1>4, <2>2 DEF ConnInv, Holders
    <3>2. \A b \in Conns : IF conn[b].to = d THEN conn'[b].to = d /\ conn'[b].at # "new"
                           ELSE conn'[b] = conn[b]
      BY <1>3, <1>7, <2>2
    <3>3. \A b \in Conns : conn'[b].to = d /\ conn'[b].at = "accepted" => b = c
      BY <1>7, <2>2
    <3>4. \A b \in Conns : conn'[b].to = d /\ conn'[b].at \in Held => b \in workers'[d]
      BY <1>4, <1>8, <2>2
    <3>5. /\ main'[d].at = "cas" /\ main'[d].conn = c /\ main'[d].seen < MaxConnections
          /\ conn'[c].at = "accepted" /\ conn'[c].to = d
      BY <1>3, <2>1, <2>2, <2>4
    <3>6. \A e \in Daemons \ {d} :
            main'[e] = main[e] /\ workers'[e] = workers[e] /\ permits'[e] = permits[e]
      BY <1>4, <2>4
    <3> QED
      BY <1>1, <1>2, <3>1, <3>2, <3>3, <3>4, <3>5, <3>6, OwnConnections
  <2>6. conn' \in [Conns -> ConnStates]
    BY <1>2, <2>2
  <2> QED
    BY <1>4, <1>5, <1>6, <2>1, <2>3, <2>5, <2>6, LoopStep
<1> QED
  BY <1>9, <1>10

\* The counter is what was read, or is read again.
LEMMA AcquireCasKeeps ==
    ASSUME ServerInv, NEW d \in Daemons, acquire_cas(d)
    PROVE  ServerInv'
<1>1. ServerTypes /\ StartInv /\ ConnInv
  BY DEF ServerInv
<1>2. /\ main \in [Daemons -> MainStates] /\ main[d].at = "cas" /\ main[d].steps # <<>>
      /\ conn \in [Conns -> ConnStates] /\ permits \in [Daemons -> 0 .. MaxConnections]
      /\ workers \in [Daemons -> SUBSET Conns]
  BY <1>1 DEF ServerTypes, acquire_cas, StartInv, StartsWell, Polling
<1>3. PICK c \in Conns : main[d].conn = c /\ conn[c].at = "accepted" /\ conn[c].to = d
  BY <1>1, <1>2 DEF ConnInv
<1>4. UNCHANGED <<kind, storeVars, auditVars, path, bound, looked, usurped, alone>>
  BY DEF acquire_cas
<1>6. /\ main[d].at \in InLoop \ {"drop"}
      /\ AfterAccept(d) \in InLoop \ {"drop", "load", "cas"} /\ "load" \in InLoop
  BY <1>2 DEF InLoop, Ats, Starts, AfterAccept
<1>7. \A b \in Conns \ {c} : conn[b].to = d => conn[b].at \notin {"new", "accepted"}
  BY <1>1, <1>2, <1>3, ClientsAssumption DEF ConnInv
<1>8. \A b \in Conns : conn[b].to = d /\ conn[b].at \in Held => b \in workers[d]
  BY <1>1, <1>2 DEF ConnInv
<1>9. CASE compare_exchange(d)
  <2> DEFINE m == [main[d] EXCEPT !.at = AfterAccept(d), !.conn = Free, !.seen = 0]
  <2>1. m \in MainStates /\ m.at = AfterAccept(d) /\ m.steps # <<>>
    BY <1>2, <1>6 DEF MainStates, InLoop
  <2>2. /\ main' = [main EXCEPT ![d].at = AfterAccept(d), ![d].conn = Free, ![d].seen = 0]
        /\ conn' = [conn EXCEPT ![c].at = "reading"]
        /\ permits' = [permits EXCEPT ![d] = permits[d] + 1]
        /\ workers' = [workers EXCEPT ![d] = workers[d] \union {c}]
    BY <1>2, <1>3, <1>9 DEF acquire_cas, compare_exchange
  <2>3. main' = [main EXCEPT ![d] = m]
    BY <1>2, <2>2
  <2> HIDE DEF m
  <2>4. main'[d] = m /\ \A e \in Daemons \ {d} : main'[e] = main[e]
    BY <1>2, <2>3
  <2>5. /\ conn' \in [Conns -> ConnStates] /\ conn'[c].at = "reading" /\ conn'[c].to = d
        /\ \A b \in Conns \ {c} : conn'[b] = conn[b]
    <3>1. conn[c] \in ConnStates /\ [conn[c] EXCEPT !.at = "reading"] \in ConnStates
      <4>1. conn[c] \in ConnStates
        BY <1>2, <1>3
      <4> QED
        BY <4>1 DEF ConnStates
    <3>2. conn' = [conn EXCEPT ![c] = [conn[c] EXCEPT !.at = "reading"]]
      BY <2>2
    <3>3. /\ [conn[c] EXCEPT !.at = "reading"].at = "reading"
          /\ [conn[c] EXCEPT !.at = "reading"].to = conn[c].to
      BY <3>1 DEF ConnStates
    <3> QED
      BY <1>2, <1>3, <3>1, <3>2, <3>3
  <2>6. permits[d] + 1 \in 0 .. MaxConnections
    <3>1. permits[d] = main[d].seen /\ main[d].seen < MaxConnections
      BY <1>1, <1>2, <1>9 DEF compare_exchange, ConnInv
    <3> QED
      BY <1>2, <3>1, PermitsExist
  <2>7. /\ permits' \in [Daemons -> 0 .. MaxConnections] /\ workers' \in [Daemons -> SUBSET Conns]
        /\ permits'[d] = permits[d] + 1 /\ workers'[d] = workers[d] \union {c}
        /\ \A e \in Daemons \ {d} : permits'[e] = permits[e] /\ workers'[e] = workers[e]
    BY <1>2, <2>2, <2>6
  <2>8. ConnInv'
    <3>1. Holders(d)' = Holders(d) \union {c} /\ c \notin Holders(d)
      BY <1>3, <2>5 DEF Holders, Held
    <3>2. permits'[d] = Cardinality(Holders(d)')
      <4>1. Cardinality(Holders(d) \union {c}) = Cardinality(Holders(d)) + 1
        BY <3>1, HoldersAreFinite, FS_AddElement
      <4> QED
        BY <1>1, <2>7, <3>1, <4>1 DEF ConnInv
    <3>3. \A b \in Conns : IF conn[b].to = d THEN conn'[b].to = d /\ conn'[b].at # "new"
                           ELSE conn'[b] = conn[b]
      BY <1>3, <1>7, <2>5
    <3>4. \A b \in Conns : conn'[b].to = d => conn'[b].at # "accepted"
      BY <1>7, <2>5
    <3>5. \A b \in Conns : conn'[b].to = d /\ conn'[b].at \in Held => b \in workers'[d]
      BY <1>8, <2>5, <2>7
    <3>6. main'[d].at \notin {"load", "cas", "drop"}
      BY <1>6, <2>1, <2>4
    <3> QED
      BY <1>1, <1>2, <2>4, <2>7, <3>2, <3>3, <3>4, <3>5, <3>6, OwnConnections
  <2> QED
    BY <1>4, <1>6, <2>1, <2>3, <2>5, <2>7, <2>8, LoopStep
<1>10. CASE ~compare_exchange(d)
  <2> DEFINE m == [main[d] EXCEPT !.at = "load", !.seen = 0]
  <2>1. m \in MainStates /\ m.at = "load" /\ m.steps # <<>> /\ m.conn = c
    BY <1>2, <1>3 DEF MainStates, Ats
  <2>2. main' = [main EXCEPT ![d].at = "load", ![d].seen = 0] /\ UNCHANGED <<permits, workers, conn>>
    BY <1>10 DEF acquire_cas
  <2>3. main' = [main EXCEPT ![d] = m]
    BY <1>2, <2>2
  <2> HIDE DEF m
  <2>4. main'[d] = m /\ \A e \in Daemons \ {d} : main'[e] = main[e]
    BY <1>2, <2>3
  <2>5. ConnInv'
    <3>1. permits'[d] = Cardinality(Holders(d)')
      BY <1>1, <2>2 DEF ConnInv, Holders
    <3>2. \A b \in Conns : IF conn[b].to = d THEN conn'[b].to = d /\ conn'[b].at # "new"
                           ELSE conn'[b] = conn[b]
      BY <1>3, <1>7, <2>2
    <3>3. \A b \in Conns : conn'[b].to = d /\ conn'[b].at = "accepted" => b = c
      BY <1>7, <2>2
    <3>4. \A b \in Conns : conn'[b].to = d /\ conn'[b].at \in Held => b \in workers'[d]
      BY <1>8, <2>2
    <3>5. /\ main'[d].at = "load" /\ main'[d].conn = c
          /\ conn'[c].at = "accepted" /\ conn'[c].to = d
      BY <1>3, <2>1, <2>2, <2>4
    <3>6. \A e \in Daemons \ {d} :
            main'[e] = main[e] /\ workers'[e] = workers[e] /\ permits'[e] = permits[e]
      BY <2>2, <2>4
    <3> QED
      BY <1>1, <1>2, <3>1, <3>2, <3>3, <3>4, <3>5, <3>6, OwnConnections
  <2>6. /\ conn' \in [Conns -> ConnStates] /\ permits' \in [Daemons -> 0 .. MaxConnections]
        /\ workers' \in [Daemons -> SUBSET Conns]
    BY <1>2, <2>2
  <2> QED
    BY <1>4, <1>6, <2>1, <2>3, <2>5, <2>6, LoopStep
<1> QED
  BY <1>9, <1>10

\* Only threads that are finished are forgotten.
LEMMA ReapKeeps ==
    ASSUME ServerInv, NEW d \in Daemons, reap_finished_workers(d)
    PROVE  ServerInv'
<1>1. ServerTypes /\ StartInv /\ ConnInv
  BY DEF ServerInv
<1>2. /\ main \in [Daemons -> MainStates] /\ main[d].at = "reap"
      /\ conn \in [Conns -> ConnStates] /\ workers \in [Daemons -> SUBSET Conns]
  BY <1>1 DEF ServerTypes, reap_finished_workers
<1>3. UNCHANGED <<kind, storeVars, auditVars, path, bound, permits, conn, looked, usurped, alone>>
  BY DEF reap_finished_workers
<1> DEFINE m == IF stop[d] THEN [Off EXCEPT !.at = "join"]
                ELSE [Off EXCEPT !.at = "poll", !.steps = Listeners]
<1>4. m \in MainStates /\ m.at \in {"join", "poll"} /\ (m.at \in Polling => m.steps # <<>>)
  <2>1. Listeners \in Seq(BindSteps \union ListenerNames) /\ Listeners # <<>>
    BY ListenersAre
  <2>2. CASE stop[d]
    <3>0. [Off EXCEPT !.at = "join"] = [at |-> "join", steps |-> <<>>, seen |-> 0, conn |-> Free]
      BY DEF Off
    <3>1. m = [at |-> "join", steps |-> <<>>, seen |-> 0, conn |-> Free]
      BY <2>2, <3>0
    <3> HIDE DEF m
    <3> QED
      BY <3>1 DEF MainStates, Ats, Polling
  <2>3. CASE ~stop[d]
    <3>0. Off \in MainStates
      BY DEF Off, MainStates, Ats
    <3>1. m = [Off EXCEPT !.at = "poll", !.steps = Listeners]
      BY <2>3
    <3> HIDE DEF m
    <3>2. m \in MainStates /\ m.at = "poll" /\ m.steps = Listeners
      BY <2>1, <3>0, <3>1 DEF MainStates, Ats
    <3> QED
      BY <2>1, <3>2
  <2> QED
    BY <2>2, <2>3
<1>5. main' = [main EXCEPT ![d] = m]
  BY DEF reap_finished_workers
<1> HIDE DEF m
<1>6. main'[d] = m /\ \A e \in Daemons \ {d} : main'[e] = main[e]
  BY <1>2, <1>5
<1>7. /\ workers' \in [Daemons -> SUBSET Conns]
      /\ workers'[d] = {c \in workers[d] : conn[c].at # "closed"}
      /\ \A e \in Daemons \ {d} : workers'[e] = workers[e]
  BY <1>2 DEF reap_finished_workers, Finished
<1>8. \A b \in Conns : conn[b].to = d => conn[b].at \notin {"new", "accepted"}
  <2>1. d # None
    BY ClientsAssumption
  <2>2. main[d].at \notin {"load", "cas"}
    BY <1>2
  <2> QED
    BY <1>1, <2>1, <2>2 DEF ConnInv
<1>9. ConnInv'
  <2>1. permits'[d] = Cardinality(Holders(d)')
    BY <1>1, <1>3 DEF ConnInv, Holders
  <2>2. \A b \in Conns : IF conn[b].to = d THEN conn'[b].to = d /\ conn'[b].at # "new"
                         ELSE conn'[b] = conn[b]
    BY <1>3, <1>8
  <2>3. \A b \in Conns : conn'[b].to = d => conn'[b].at # "accepted"
    BY <1>3, <1>8
  <2>4. \A b \in Conns : conn'[b].to = d /\ conn'[b].at \in Held => b \in workers'[d]
    BY <1>1, <1>2, <1>3, <1>7 DEF ConnInv, Held
  <2>5. main'[d].at \notin {"load", "cas", "drop"}
    BY <1>4, <1>6
  <2>6. \A e \in Daemons \ {d} :
          main'[e] = main[e] /\ workers'[e] = workers[e] /\ permits'[e] = permits[e]
    BY <1>3, <1>6, <1>7
  <2> QED
    BY <1>1, <1>2, <2>1, <2>2, <2>3, <2>4, <2>5, <2>6, OwnConnections
<1>10. main[d].at \in InLoop \ {"drop"} /\ m.at \in InLoop /\ m.at # "drop"
  BY <1>2, <1>4 DEF InLoop, Ats, Starts
<1>11. permits' \in [Daemons -> 0 .. MaxConnections] /\ conn' \in [Conns -> ConnStates]
  BY <1>1, <1>3 DEF ServerTypes
<1> QED
  BY <1>3, <1>4, <1>5, <1>7, <1>9, <1>10, <1>11, LoopStep

\* Both ways out of the loop: with every thread joined, or with none.
LEMMA LeavingKeeps ==
    ASSUME ServerInv, NEW d \in Daemons, join(d) \/ accept_fails(d)
    PROVE  ServerInv'
<1>1. ServerTypes /\ StartInv /\ ConnInv
  BY DEF ServerInv
<1>2. /\ main \in [Daemons -> MainStates] /\ main[d].at \in {"join", "poll"}
      /\ conn \in [Conns -> ConnStates] /\ workers \in [Daemons -> SUBSET Conns]
  BY <1>1 DEF ServerTypes, join, accept_fails
<1>3. UNCHANGED <<kind, storeVars, auditVars, path, bound, permits, conn, looked, usurped, alone>>
  BY DEF join, accept_fails
<1>4. \A b \in Conns : conn[b].to = d => conn[b].at \notin {"new", "accepted"}
  <2>1. d # None
    BY ClientsAssumption
  <2>2. main[d].at \notin {"load", "cas"}
    BY <1>2
  <2> QED
    BY <1>1, <2>1, <2>2 DEF ConnInv
<1>5. \A b \in Conns : conn[b].to = d /\ conn[b].at \in Held => b \in workers[d]
  BY <1>1, <1>2 DEF ConnInv
<1>6. Listeners \in Seq(BindSteps \union ListenerNames) /\ Listeners \in Seq(ListenerNames)
  BY ListenersAre
<1>7. \E m \in MainStates :
        /\ m.at = "drop" /\ m.steps = Listeners /\ main' = [main EXCEPT ![d] = m]
        /\ workers' \in [Daemons -> SUBSET Conns]
        /\ \A e \in Daemons \ {d} : workers'[e] = workers[e]
        /\ m.seen = 0 => Holders(d) = {}
        /\ m.seen # 0 \/ workers'[d] = workers[d]
  <2>1. CASE join(d)
    <3> DEFINE m == [main[d] EXCEPT !.at = "drop", !.steps = Listeners]
    <3>1. m \in MainStates /\ m.at = "drop" /\ m.steps = Listeners
      BY <1>2, <1>6 DEF MainStates, Ats
    <3>2. main' = [main EXCEPT ![d] = m]
      BY <1>2, <2>1 DEF join
    <3>3. Holders(d) = {}
      BY <1>5, <2>1 DEF join, Finished, Holders, Held
    <3>4. workers' = workers
      BY <2>1 DEF join
    <3> HIDE DEF m
    <3>5. /\ workers' \in [Daemons -> SUBSET Conns]
          /\ \A e \in Daemons : workers'[e] = workers[e]
      BY <1>2, <3>4
    <3> USE <3>1
    <3> WITNESS m \in MainStates
    <3> QED
      BY <3>2, <3>3, <3>5
  <2>2. CASE accept_fails(d)
    <3> DEFINE m == [main[d] EXCEPT !.at = "drop", !.steps = Listeners, !.seen = 1]
    <3>1. m \in MainStates /\ m.at = "drop" /\ m.steps = Listeners /\ m.seen = 1
      BY <1>2, <1>6 DEF MainStates, Ats
    <3>2. main' = [main EXCEPT ![d] = m]
      BY <1>2, <2>2 DEF accept_fails
    <3>3. workers' = [workers EXCEPT ![d] = {}]
      BY <2>2 DEF accept_fails
    <3> HIDE DEF m
    <3>4. /\ workers' \in [Daemons -> SUBSET Conns]
          /\ \A e \in Daemons \ {d} : workers'[e] = workers[e]
      BY <1>2, <3>3
    <3> USE <3>1
    <3> WITNESS m \in MainStates
    <3> QED
      BY <3>2, <3>4
  <2> QED
    BY <2>1, <2>2
<1>8. PICK m \in MainStates :
        /\ m.at = "drop" /\ m.steps = Listeners /\ main' = [main EXCEPT ![d] = m]
        /\ workers' \in [Daemons -> SUBSET Conns]
        /\ \A e \in Daemons \ {d} : workers'[e] = workers[e]
        /\ m.seen = 0 => Holders(d) = {}
        /\ m.seen # 0 \/ workers'[d] = workers[d]
  BY <1>7
<1>9. main'[d] = m /\ \A e \in Daemons \ {d} : main'[e] = main[e]
  BY <1>2, <1>8
<1>10. ConnInv'
  <2>1. permits'[d] = Cardinality(Holders(d)') /\ Holders(d)' = Holders(d)
    BY <1>1, <1>3 DEF ConnInv, Holders
  <2>2. \A b \in Conns : IF conn[b].to = d THEN conn'[b].to = d /\ conn'[b].at # "new"
                         ELSE conn'[b] = conn[b]
    BY <1>3, <1>4
  <2>3. \A b \in Conns : conn'[b].to = d => conn'[b].at # "accepted"
    BY <1>3, <1>4
  <2>4. \A b \in Conns : conn'[b].to = d /\ conn'[b].at \in Held =>
          (b \in workers'[d] \/ (main'[d].at = "drop" /\ main'[d].seen # 0))
    BY <1>3, <1>5, <1>8, <1>9
  <2>5. main'[d].at = "drop" /\ (main'[d].seen = 0 => Holders(d)' = {})
    BY <1>8, <1>9, <2>1
  <2>6. \A e \in Daemons \ {d} :
          main'[e] = main[e] /\ workers'[e] = workers[e] /\ permits'[e] = permits[e]
    BY <1>3, <1>8, <1>9
  <2> QED
    BY <1>1, <1>2, <2>1, <2>2, <2>3, <2>4, <2>5, <2>6, OwnConnections
<1>11. main[d].at \in InLoop \ {"drop"} /\ m.at \in InLoop /\ m.at \notin Polling
  BY <1>2, <1>8 DEF InLoop, Ats, Starts, Polling
<1>12. permits' \in [Daemons -> 0 .. MaxConnections] /\ conn' \in [Conns -> ConnStates]
  BY <1>1, <1>3 DEF ServerTypes
<1> QED
  BY <1>3, <1>6, <1>8, <1>10, <1>11, <1>12, LoopStep

(***************************************************************************)
(* Paths that are unlinked, and processes that end.                        *)
(***************************************************************************)
\* Whoever is still listening at the path is a rival that came after the probe.
LEMMA UnlinkedKeeps ==
    ASSUME ServerInv, NEW d \in Daemons, NEW l \in ListenerNames, Unlinked(d, l),
           PastProbe(d) \/ main[d].at = "unlink", UNCHANGED <<bound, looked>>,
           \A e \in Daemons : main[e].at = "drop" => main'[e].at = "drop",
           main'[d].at = "drop" \/ bound[d] = {}
    PROVE  /\ SocketInv' /\ path' \in [ListenerNames -> Daemons \union {None, Other}]
           /\ usurped' \subseteq Daemons \X ListenerNames
<1>1. ServerTypes /\ SocketInv
  BY DEF ServerInv
<1>2. /\ path' = [path EXCEPT ![l] = None] /\ usurped' = usurped \union UsurpedBy(d, l)
      /\ path \in [ListenerNames -> Daemons \union {None, Other}]
      /\ looked \in [Daemons -> [ListenerNames -> SUBSET Daemons]]
  BY <1>1 DEF Unlinked, ServerTypes
<1>3. path' \in [ListenerNames -> Daemons \union {None, Other}]
      /\ \A k \in ListenerNames : path'[k] = IF k = l THEN None ELSE path[k]
  BY <1>2
<1>4. usurped' \subseteq Daemons \X ListenerNames
  BY <1>1, <1>2 DEF UsurpedBy, ServerTypes
<1>5. ASSUME NEW e \in Daemons, main'[e].at # "drop", NEW k \in bound[e]
      PROVE  path'[k] = e \/ <<e, k>> \in usurped'
  <2>1. k \in ListenerNames /\ e # d
    BY <1>1, <1>5, ListenersAre DEF ServerTypes
  <2>2. path[k] = e \/ <<e, k>> \in usurped
    BY <1>1, <1>5 DEF SocketInv
  <2>3. CASE k = l /\ path[k] = e
    <3>1. e \notin looked[d][l]
      BY <1>1, <2>3 DEF SocketInv
    <3>2. <<e, l>> \in UsurpedBy(d, l)
      BY <2>1, <2>3, <3>1 DEF UsurpedBy
    <3> QED
      BY <1>2, <2>3, <3>2
  <2> QED
    BY <1>2, <1>3, <2>1, <2>2, <2>3
<1>6. ASSUME NEW e \in Daemons, NEW k \in ListenerNames, NEW x \in looked[e][k]
      PROVE  /\ k \in bound[x] /\ path'[k] # x
             /\ <<x, k>> \in usurped' \/ main'[x].at = "drop"
  <2>1. x \in Daemons /\ x # None
    BY <1>2, ClientsAssumption
  <2>2. k \in bound[x] /\ path[k] # x /\ (<<x, k>> \in usurped \/ main[x].at = "drop")
    BY <1>1 DEF SocketInv
  <2> QED
    BY <1>2, <1>3, <2>1, <2>2
<1>7. SocketInv'
  BY <1>5, <1>6 DEF SocketInv
<1> QED
  BY <1>3, <1>4, <1>7

\* A process ends with what it holds; at most paths of its own are gone with it.
LEMMA EndedKeeps ==
    ASSUME ServerInv, NEW d \in Daemons, NEW un \in SUBSET (Daemons \X ListenerNames), Ended(d, un),
           path' \in [ListenerNames -> Daemons \union {None, Other}],
           \A l \in ListenerNames :
              \/ path'[l] = path[l]
              \/ /\ path'[l] = None
                 /\ \A e \in Daemons \ {d} :
                     path[l] = e /\ l \in bound[e] /\ e \notin looked[d][l] => <<e, l>> \in un
    PROVE  ServerInv'
<1>1. ServerTypes /\ AuditTypes /\ StartInv /\ SocketInv /\ ConnInv /\ StoreInv
  BY DEF ServerInv
<1>2. /\ main' = [main EXCEPT ![d] = Off] /\ bound' = [bound EXCEPT ![d] = {}]
      /\ permits' = [permits EXCEPT ![d] = 0] /\ workers' = [workers EXCEPT ![d] = {}]
      /\ conn' = [c \in Conns |->
            IF conn[c].to = d THEN [conn[c] EXCEPT !.at = "closed"] ELSE conn[c]]
      /\ store' = [store EXCEPT ![d] = NoStore]
      /\ looked' = [e \in Daemons |-> [l \in ListenerNames |->
            IF e = d THEN {} ELSE looked[e][l] \ {d}]]
      /\ usurped' = {p \in usurped \union un : p[1] # d}
      /\ UNCHANGED <<kind, db, backups, upgraded, files, recorded, alone>>
      /\ abandon_rotation(d)
  BY DEF Ended
<1>3. Off \in MainStates /\ Off.at = "off"
  BY DEF Off, MainStates, Ats
<1>4. /\ main' \in [Daemons -> MainStates] /\ main'[d] = Off
      /\ \A e \in Daemons \ {d} : main'[e] = main[e]
  BY <1>1, <1>2, <1>3 DEF ServerTypes
<1>5. /\ bound' \in [Daemons -> SUBSET Range(Listeners)] /\ bound'[d] = {}
      /\ \A e \in Daemons \ {d} : bound'[e] = bound[e]
  BY <1>1, <1>2 DEF ServerTypes
<1>6. /\ permits' \in [Daemons -> 0 .. MaxConnections] /\ permits'[d] = 0
      /\ workers' \in [Daemons -> SUBSET Conns]
      /\ \A e \in Daemons \ {d} : permits'[e] = permits[e] /\ workers'[e] = workers[e]
  BY <1>1, <1>2, PermitsExist DEF ServerTypes
<1>7. conn' \in [Conns -> ConnStates]
      /\ \A c \in Conns : IF conn[c].to = d THEN conn'[c].to = d /\ conn'[c].at = "closed"
                          ELSE conn'[c] = conn[c]
  <2>1. conn \in [Conns -> ConnStates]
    BY <1>1 DEF ServerTypes
  <2>2. \A c \in Conns : conn[c].to = d =>
          /\ [conn[c] EXCEPT !.at = "closed"] \in ConnStates
          /\ [conn[c] EXCEPT !.at = "closed"].to = d /\ [conn[c] EXCEPT !.at = "closed"].at = "closed"
    BY <2>1 DEF ConnStates
  <2> QED
    BY <1>2, <2>1, <2>2
<1>8. /\ looked' \in [Daemons -> [ListenerNames -> SUBSET Daemons]]
      /\ \A e \in Daemons, l \in ListenerNames : \A x \in looked'[e][l] : x \in looked[e][l] /\ x # d
  BY <1>1, <1>2 DEF ServerTypes
<1>9. /\ usurped' \subseteq Daemons \X ListenerNames
      /\ \A e \in Daemons \ {d}, l \in ListenerNames :
          <<e, l>> \in usurped \/ <<e, l>> \in un => <<e, l>> \in usurped'
  BY <1>1, <1>2 DEF ServerTypes
<1>10. ServerTypes'
  <2>1. kind' \in Kinds /\ Listeners' = Listeners
    BY <1>1, <1>2 DEF ServerTypes, Listeners
  <2> QED
    BY <1>4, <1>5, <1>6, <1>7, <1>8, <1>9, <2>1 DEF ServerTypes
<1>11. AuditTypes'
  BY <1>1, <1>2, AuditKeeps
<1>12. store \in [Daemons -> StoreStates] /\ store' \in [Daemons -> StoreStates]
       /\ store'[d] = NoStore /\ \A e \in Daemons \ {d} : store'[e] = store[e]
  BY <1>1, <1>2 DEF StoreInv, StoreStates, NoStore
<1>13. StartInv'
  <2> SUFFICES ASSUME NEW e \in Daemons
               PROVE  /\ main'[e].at = "off" => bound'[e] = {} /\ store'[e].at = "closed"
                      /\ main'[e].at \in Starts =>
                          /\ Orderly(main'[e].steps) /\ main'[e].steps # <<>>
                          /\ main'[e].at # "bind" => Head(main'[e].steps).op = "prepare"
                          /\ \A i \in 1 .. Len(main'[e].steps) :
                              main'[e].steps[i].op = "listen" => main'[e].steps[i].on \notin bound'[e]
                          /\ Has(main'[e].steps, "prepare") => store'[e].at = "closed" /\ bound'[e] = {}
                          /\ kind = "portusd" /\ ~Has(main'[e].steps, "state") => store'[e].at = "open"
                      /\ main'[e].at \notin Starts \union {"off"} /\ kind = "portusd" => store'[e].at = "open"
                      /\ main'[e].at = "drop" => main'[e].steps \in Seq(ListenerNames)
                      /\ main'[e].at \in Polling => main'[e].steps # <<>>
    BY <1>2, StartsWellNext DEF StartInv
  <2>1. CASE e = d
    BY <1>3, <1>4, <1>5, <1>12, <2>1 DEF NoStore, Starts, Polling
  <2>2. CASE e # d
    BY <1>1, <1>4, <1>5, <1>12, <2>2 DEF StartInv, StartsWell
  <2> QED
    BY <2>1, <2>2
<1>14. SocketInv'
  <2>1. ASSUME NEW e \in Daemons, main'[e].at # "drop", NEW k \in bound'[e]
        PROVE  path'[k] = e \/ <<e, k>> \in usurped'
    <3>1. k \in ListenerNames /\ e # d /\ k \in bound[e] /\ main[e].at # "drop"
      BY <1>1, <1>4, <1>5, <2>1, ListenersAre DEF ServerTypes
    <3>2. path[k] = e \/ <<e, k>> \in usurped
      BY <1>1, <3>1 DEF SocketInv
    <3>3. path[k] = e /\ path'[k] # path[k] => <<e, k>> \in un
      <4>1. SUFFICES ASSUME path[k] = e, path'[k] # path[k] PROVE <<e, k>> \in un
        OBVIOUS
      <4>2. e \notin looked[d][k]
        BY <1>1, <3>1, <4>1 DEF SocketInv
      <4> QED
        BY <3>1, <4>1, <4>2
    <3> QED
      BY <1>9, <3>1, <3>2, <3>3
  <2>2. ASSUME NEW e \in Daemons, NEW k \in ListenerNames, NEW x \in looked'[e][k]
        PROVE  /\ k \in bound'[x] /\ path'[k] # x
               /\ <<x, k>> \in usurped' \/ main'[x].at = "drop"
    <3>1. x \in looked[e][k] /\ x \in Daemons \ {d} /\ x # None
      BY <1>8, ClientsAssumption
    <3>2. k \in bound[x] /\ path[k] # x /\ (<<x, k>> \in usurped \/ main[x].at = "drop")
      BY <1>1, <3>1 DEF SocketInv
    <3> QED
      BY <1>4, <1>5, <1>9, <3>1, <3>2
  <2> QED
    BY <2>1, <2>2 DEF SocketInv
<1>15. ConnInv'
  <2>1. Holders(d)' = {}
    BY <1>7, ClientsAssumption DEF Holders, Held
  <2>2. permits'[d] = Cardinality(Holders(d)')
    BY <1>6, <2>1, FS_EmptySet
  <2>3. main'[d].at = "off"
    BY <1>3, <1>4
  <2>4. conn \in [Conns -> ConnStates]
    BY <1>1 DEF ServerTypes
  <2>5. \A b \in Conns : IF conn[b].to = d THEN conn'[b].to = d /\ conn'[b].at # "new"
                         ELSE conn'[b] = conn[b]
    BY <1>7
  <2>6. \A b \in Conns : conn'[b].to = d => conn'[b].at = "closed"
    BY <1>7
  <2>7. \A e \in Daemons \ {d} :
          main'[e] = main[e] /\ workers'[e] = workers[e] /\ permits'[e] = permits[e]
    BY <1>4, <1>6
  <2>8. "closed" \notin Held
    BY DEF Held
  <2> QED
    BY <1>1, <2>1, <2>2, <2>3, <2>4, <2>5, <2>6, <2>7, <2>8, OwnConnections
<1>16. StoreInv'
  <2>1. \A e \in Daemons : PastProbe(e)' => PastProbe(e)
    <3> SUFFICES ASSUME NEW e \in Daemons, PastProbe(e)' PROVE PastProbe(e)
      OBVIOUS
    <3>1. CASE e = d
      BY <1>3, <1>4, <3>1 DEF PastProbe
    <3>2. CASE e # d
      BY <1>4, <3>2 DEF PastProbe
    <3> QED
      BY <3>1, <3>2
  <2>2. \A e \in Daemons : store'[e] = store[e] \/ store'[e].at = "closed"
    BY <1>12 DEF NoStore
  <2>3. UNCHANGED <<db, backups, upgraded, alone>>
    BY <1>2
  <2> QED
    BY <1>1, <1>12, <2>1, <2>2, <2>3 DEF StoreInv, ValidHistory, Migrating
<1> QED
  BY <1>10, <1>11, <1>13, <1>14, <1>15, <1>16 DEF ServerInv

\* A process that just ends leaves its paths behind.
LEMMA CrashKeeps ==
    ASSUME ServerInv, NEW d \in Daemons, Ended(d, {}), UNCHANGED path
    PROVE  ServerInv'
<1>1. path' \in [ListenerNames -> Daemons \union {None, Other}]
  BY DEF ServerInv, ServerTypes
<1>2. {} \in SUBSET (Daemons \X ListenerNames) /\ \A l \in ListenerNames : path'[l] = path[l]
  OBVIOUS
<1> QED
  BY <1>1, <1>2, EndedKeeps

\* Who gets as far as the first listener has probed every path.
LEMMA ListenIsPast ==
    ASSUME ServerInv, NEW d \in Daemons, Starting(d, "listen")
    PROVE  PastProbe(d)
<1>1. /\ main[d].at = "bind" /\ main[d].steps # <<>> /\ Head(main[d].steps).op = "listen"
      /\ Orderly(main[d].steps)
  BY DEF Starting, ServerInv, StartInv, StartsWell, Starts
<1> DEFINE s == main[d].steps
<1>2. s \in Seq(BindSteps) /\ s[1].op = "listen" /\ 1 \in 1 .. Len(s)
  <2>1. s \in Seq(BindSteps) /\ s # <<>>
    BY <1>1 DEF Orderly
  <2> HIDE DEF s
  <2>2. Head(s) = s[1] /\ 1 \in 1 .. Len(s)
    BY <2>1, TailIs
  <2> QED
    BY <1>1, <2>1, <2>2 DEF s
<1>3. \A j \in 1 .. Len(s) : s[j].op # "prepare"
  <2> SUFFICES ASSUME NEW j \in 1 .. Len(s) PROVE s[j].op # "prepare"
    OBVIOUS
  <2>1. CASE j = 1
    BY <1>2, <2>1
  <2>2. CASE j # 1
    <3>1. 1 < j
      BY <2>2
    <3> QED
      BY <1>1, <1>2, <3>1 DEF Orderly
  <2> QED
    BY <2>1, <2>2
<1> QED
  BY <1>1, <1>3 DEF PastProbe

\* A start that fails removes the socket it had bound.
LEMMA EndsRemovingKeeps ==
    ASSUME ServerInv, NEW d \in Daemons, EndsRemoving(d, Leftover(d))
    PROVE  ServerInv'
<1> DEFINE ls == Leftover(d)
           un == UNION {UsurpedBy(d, l) : l \in ls}
<1>1. ls \subseteq ListenerNames /\ (ls # {} => PastProbe(d))
  BY ListenIsPast DEF Leftover
<1>2. un \in SUBSET (Daemons \X ListenerNames)
  BY <1>1 DEF UsurpedBy
<1>3. path' = [l \in ListenerNames |-> IF l \in ls THEN None ELSE path[l]] /\ Ended(d, un)
  BY DEF EndsRemoving
<1>4. \A l \in ls, e \in Daemons \ {d} :
        path[l] = e /\ l \in bound[e] /\ e \notin looked[d][l] => <<e, l>> \in un
  <2> SUFFICES ASSUME NEW l \in ls, NEW e \in Daemons \ {d},
                      path[l] = e, l \in bound[e], e \notin looked[d][l]
               PROVE  <<e, l>> \in un
    OBVIOUS
  <2>1. PastProbe(d)
    BY <1>1
  <2>2. <<e, l>> \in UsurpedBy(d, l)
    BY <2>1 DEF UsurpedBy
  <2> QED
    BY <2>2
<1> HIDE DEF ls, un
<1>5. path' \in [ListenerNames -> Daemons \union {None, Other}]
  BY <1>3 DEF ServerInv, ServerTypes
<1>6. \A l \in ListenerNames :
        \/ path'[l] = path[l]
        \/ /\ path'[l] = None
           /\ \A e \in Daemons \ {d} :
               path[l] = e /\ l \in bound[e] /\ e \notin looked[d][l] => <<e, l>> \in un
  BY <1>3, <1>4
<1> QED
  BY <1>2, <1>3, <1>5, <1>6, EndedKeeps

\* A daemon that leaves unlinks its paths, whoever has them, and ends.
LEMMA DropKeeps ==
    ASSUME ServerInv, NEW d \in Daemons, drop(d)
    PROVE  ServerInv'
<1>1. CASE main[d].steps = <<>>
  BY <1>1, CrashKeeps DEF drop
<1>2. CASE main[d].steps # <<>>
  <2> DEFINE l == Head(main[d].steps)
             m == [main[d] EXCEPT !.steps = Tail(main[d].steps)]
  <2>1. ServerTypes /\ AuditTypes /\ StartInv /\ SocketInv /\ ConnInv /\ StoreInv
    BY DEF ServerInv
  <2>2. /\ main[d].at = "drop" /\ main[d].steps \in Seq(ListenerNames)
        /\ main \in [Daemons -> MainStates]
    BY <2>1 DEF drop, StartInv, StartsWell, ServerTypes
  <2>3. /\ IF path[l] \in Daemons THEN Unlinked(d, l) ELSE UNCHANGED <<path, usurped>>
        /\ main' = [main EXCEPT ![d] = m]
        /\ UNCHANGED <<kind, storeVars, auditVars, bound, permits, workers, conn, looked, alone>>
    BY <1>2 DEF drop
  <2>4. l \in ListenerNames /\ Tail(main[d].steps) \in Seq(ListenerNames)
    BY <1>2, <2>2, TailIs
  <2>5. /\ m \in MainStates /\ m.at = "drop" /\ m.steps \in Seq(ListenerNames)
        /\ m.seen = main[d].seen /\ m.conn = main[d].conn
    <3>1. Tail(main[d].steps) \in Seq(BindSteps \union ListenerNames)
      BY <2>4, SeqMonotonic
    <3> QED
      BY <2>2, <2>4, <3>1 DEF MainStates
  <2> HIDE DEF m, l
  <2>6. main'[d] = m /\ main' \in [Daemons -> MainStates] /\ \A e \in Daemons \ {d} : main'[e] = main[e]
    BY <2>2, <2>3, <2>5
  <2>7. /\ SocketInv' /\ path' \in [ListenerNames -> Daemons \union {None, Other}]
        /\ usurped' \subseteq Daemons \X ListenerNames
    <3>1. \A e \in Daemons : main[e].at = "drop" => main'[e].at = "drop"
      BY <2>5, <2>6
    <3>2. CASE path[l] \in Daemons
      <4>1. PastProbe(d)
        BY <2>2 DEF PastProbe
      <4> QED
        BY <2>3, <2>4, <2>5, <2>6, <3>1, <3>2, <4>1, UnlinkedKeeps
    <3>3. CASE path[l] \notin Daemons
      BY <2>1, <2>3, <3>1, <3>3, SocketFrame DEF ServerTypes
    <3> QED
      BY <3>2, <3>3
  <2>8. ServerTypes'
    BY <2>1, <2>3, <2>6, <2>7 DEF ServerTypes, Listeners
  <2>9. AuditTypes'
    BY <2>1, <2>3 DEF AuditTypes, auditVars
  <2>10. StartInv'
    <3>1. UNCHANGED <<kind, bound, store>>
      BY <2>3 DEF storeVars
    <3>2. main[d].at \in InLoop /\ main'[d].at \in InLoop /\ main'[d].at \notin Polling
      BY <2>2, <2>5, <2>6 DEF InLoop, Ats, Starts, Polling
    <3> QED
      BY <2>1, <2>5, <2>6, <3>1, <3>2, StartFrame
  <2>11. ConnInv'
    BY <2>1, <2>2, <2>3, <2>5, <2>6, ConnFrame DEF ServerTypes
  <2>12. StoreInv'
    <3>1. \A e \in Daemons : PastProbe(e)' => PastProbe(e)
      <4> SUFFICES ASSUME NEW e \in Daemons, PastProbe(e)' PROVE PastProbe(e)
        OBVIOUS
      <4>1. CASE e = d
        BY <2>2, <4>1 DEF PastProbe
      <4>2. CASE e # d
        BY <2>6, <4>2 DEF PastProbe
      <4> QED
        BY <4>1, <4>2
    <3>2. UNCHANGED storeVars /\ alone' \in BOOLEAN /\ (alone' => alone)
      BY <2>1, <2>3 DEF StoreInv
    <3>3. alone' => \A a, e \in Daemons : PastProbe(a)' /\ PastProbe(e)' => a = e
      BY <2>1, <3>1, <3>2 DEF StoreInv
    <3> QED
      BY <2>1, <3>2, <3>3, StoreFrame
  <2> QED
    BY <2>7, <2>8, <2>9, <2>10, <2>11, <2>12 DEF ServerInv
<1> QED
  BY <1>1, <1>2

(***************************************************************************)
(* The start.                                                              *)
(***************************************************************************)
\* What is left of the steps of a start is in order.
LEMMA TailIsOrderly ==
    ASSUME NEW s, Orderly(s), s # <<>>
    PROVE  /\ Orderly(Tail(s)) /\ Tail(s) \in Seq(BindSteps) /\ s[1] \in BindSteps /\ Head(s) = s[1]
           /\ Len(s) # 1 => Tail(s) # <<>>
           /\ \A i \in 1 .. Len(Tail(s)) : i + 1 \in 1 .. Len(s) /\ Tail(s)[i] = s[i + 1]
           /\ \A op : Has(s, op) => Head(s).op = op \/ (Len(s) # 1 /\ Has(Tail(s), op))
           /\ \A op : Has(Tail(s), op) \/ Head(s).op = op => Has(s, op)
           /\ Head(s).op \in {"listen", "state"} => ~Has(Tail(s), "prepare") /\ ~Has(Tail(s), "state")
<1>0. s \in Seq(BindSteps)
  BY DEF Orderly
<1>1. /\ Tail(s) \in Seq(BindSteps) /\ Len(Tail(s)) = Len(s) - 1 /\ Len(s) \in Nat \ {0}
      /\ Len(s) # 1 => Tail(s) # <<>>
      /\ \A i \in 1 .. Len(Tail(s)) : i + 1 \in 1 .. Len(s) /\ Tail(s)[i] = s[i + 1]
      /\ Head(s) = s[1] /\ 1 \in 1 .. Len(s) /\ s[1] \in BindSteps
  BY <1>0, TailIs
<1>2. Orderly(Tail(s))
  <2>1. \A i \in 1 .. Len(Tail(s)) :
          /\ Tail(s)[i].op \in {"prepare", "listen"} => Tail(s)[i].on \in Range(Listeners)
          /\ Tail(s)[i].op = "state" => kind = "portusd"
    BY <1>1 DEF Orderly
  <2>2. ASSUME NEW i \in 1 .. Len(Tail(s)), NEW j \in 1 .. Len(Tail(s)), i < j
        PROVE  /\ Tail(s)[i].op \in {"listen", "state"} => Tail(s)[j].op \notin {"prepare", "state"}
               /\ Tail(s)[i].op \in {"reconcile", "ready"} => Tail(s)[j].op # "prepare"
               /\ Tail(s)[i].op = "listen" /\ Tail(s)[j].op = "listen" => Tail(s)[i].on # Tail(s)[j].on
    <3>1. i + 1 < j + 1 /\ i + 1 \in 1 .. Len(s) /\ j + 1 \in 1 .. Len(s)
      BY <1>1, <2>2
    <3>2. Tail(s)[i] = s[i + 1] /\ Tail(s)[j] = s[j + 1]
      BY <1>1
    <3> QED
      BY <3>1, <3>2 DEF Orderly
  <2> QED
    BY <1>1, <2>1, <2>2 DEF Orderly
<1>3. ASSUME NEW op, Has(s, op) PROVE Head(s).op = op \/ (Len(s) # 1 /\ Has(Tail(s), op))
  <2>1. PICK i \in 1 .. Len(s) : s[i].op = op
    BY <1>3 DEF Has
  <2>2. CASE i = 1
    BY <1>1, <2>1, <2>2
  <2>3. CASE i # 1
    <3>1. i - 1 \in 1 .. Len(Tail(s)) /\ Tail(s)[i - 1] = s[(i - 1) + 1] /\ (i - 1) + 1 = i
      BY <1>1, <2>3
    <3>2. Tail(s)[i - 1].op = op
      BY <2>1, <3>1
    <3>3. Has(Tail(s), op)
      BY <3>1, <3>2 DEF Has
    <3> QED
      BY <1>1, <2>3, <3>3
  <2> QED
    BY <2>2, <2>3
<1>4. ASSUME NEW op, Has(Tail(s), op) \/ Head(s).op = op PROVE Has(s, op)
  <2>1. CASE Head(s).op = op
    BY <1>1, <2>1 DEF Has
  <2>2. CASE Has(Tail(s), op)
    <3>1. PICK i \in 1 .. Len(Tail(s)) : Tail(s)[i].op = op
      BY <2>2 DEF Has
    <3>2. i + 1 \in 1 .. Len(s) /\ s[i + 1].op = op
      BY <1>1, <3>1
    <3> QED
      BY <3>2 DEF Has
  <2> QED
    BY <1>4, <2>1, <2>2
<1>5. ASSUME Head(s).op \in {"listen", "state"}
      PROVE  ~Has(Tail(s), "prepare") /\ ~Has(Tail(s), "state")
  <2>1. \A i \in 1 .. Len(Tail(s)) : Tail(s)[i].op \notin {"prepare", "state"}
    <3> SUFFICES ASSUME NEW i \in 1 .. Len(Tail(s)) PROVE Tail(s)[i].op \notin {"prepare", "state"}
      OBVIOUS
    <3>1. 1 < i + 1 /\ i + 1 \in 1 .. Len(s) /\ Tail(s)[i] = s[i + 1]
      BY <1>1
    <3> QED
      BY <1>1, <1>5, <3>1 DEF Orderly
  <2> QED
    BY <2>1 DEF Has
<1> QED
  BY <1>1, <1>2, <1>3, <1>4, <1>5

\* The main thread of a start goes on to its next step or to the loop.
LEMMA AdvancedIs ==
    ASSUME ServerInv, NEW d \in Daemons, main[d].at \in Starts, Advanced(d)
    PROVE  /\ main' \in [Daemons -> MainStates] /\ \A e \in Daemons \ {d} : main'[e] = main[e]
           /\ main[d].steps # <<>> /\ Orderly(main[d].steps)
           /\ \/ main'[d].at = "reap" /\ Len(main[d].steps) = 1
              \/ /\ main'[d].at = "bind" /\ main'[d].steps = Tail(main[d].steps)
                 /\ Len(main[d].steps) # 1
<1>1. /\ main \in [Daemons -> MainStates] /\ main[d].steps # <<>> /\ Orderly(main[d].steps)
      /\ main' = [main EXCEPT ![d] = NextStep(d)]
  BY DEF ServerInv, ServerTypes, StartInv, StartsWell, Advanced
<1>2. NextStep(d) \in MainStates
      /\ \/ NextStep(d).at = "reap" /\ Len(main[d].steps) = 1
         \/ /\ NextStep(d).at = "bind" /\ NextStep(d).steps = Tail(main[d].steps)
            /\ Len(main[d].steps) # 1
  <2>1. CASE Len(main[d].steps) = 1
    <3>1. Looping = [at |-> "reap", steps |-> <<>>, seen |-> 0, conn |-> Free]
      BY DEF Looping, Off
    <3>2. Looping \in MainStates /\ Looping.at = "reap"
      BY <3>1 DEF MainStates, Ats
    <3> QED
      BY <2>1, <3>2 DEF NextStep
  <2>2. CASE Len(main[d].steps) # 1
    <3> DEFINE m == [main[d] EXCEPT !.steps = Tail(main[d].steps), !.at = "bind", !.seen = 0]
    <3>1. Tail(main[d].steps) \in Seq(BindSteps \union ListenerNames)
      BY <1>1, TailIs DEF MainStates
    <3>2. m \in MainStates /\ m.at = "bind" /\ m.steps = Tail(main[d].steps)
      BY <1>1, <3>1 DEF MainStates, Ats
    <3>3. NextStep(d) = m
      BY <2>2 DEF NextStep
    <3> QED
      BY <2>2, <3>2, <3>3
  <2> QED
    BY <2>1, <2>2
<1> QED
  BY <1>1, <1>2

\* The start goes on with its steps in order.
LEMMA AdvanceStart ==
    ASSUME ServerInv, NEW d \in Daemons, main[d].at \in Starts, Advanced(d), UNCHANGED <<kind, store>>,
           \A e \in Daemons \ {d} : bound'[e] = bound[e],
           \/ bound'[d] = bound[d]
           \/ Head(main[d].steps).op = "listen" /\ bound'[d] = bound[d] \union {Target(d)},
           Head(main[d].steps).op # "state" \/ store[d].at = "open"
    PROVE  StartInv'
<1>1. StartInv
  BY DEF ServerInv
<1> DEFINE s == main[d].steps
<1>2. /\ main' \in [Daemons -> MainStates] /\ \A e \in Daemons \ {d} : main'[e] = main[e]
      /\ s # <<>> /\ Orderly(s)
      /\ \/ main'[d].at = "reap" /\ Len(s) = 1
         \/ main'[d].at = "bind" /\ main'[d].steps = Tail(s) /\ Len(s) # 1
  BY AdvancedIs
<1>3. /\ \A i \in 1 .. Len(s) : s[i].op = "listen" => s[i].on \notin bound[d]
      /\ Has(s, "prepare") => store[d].at = "closed" /\ bound[d] = {}
      /\ kind = "portusd" /\ ~Has(s, "state") => store[d].at = "open"
  BY <1>1 DEF StartInv, StartsWell
<1> HIDE DEF s
<1>4. /\ Orderly(Tail(s)) /\ (Len(s) # 1 => Tail(s) # <<>>) /\ Head(s) = s[1]
      /\ \A i \in 1 .. Len(Tail(s)) : i + 1 \in 1 .. Len(s) /\ Tail(s)[i] = s[i + 1]
      /\ \A op : Has(s, op) => Head(s).op = op \/ (Len(s) # 1 /\ Has(Tail(s), op))
      /\ \A op : Has(Tail(s), op) \/ Head(s).op = op => Has(s, op)
      /\ Head(s).op \in {"listen", "state"} => ~Has(Tail(s), "prepare") /\ ~Has(Tail(s), "state")
  BY <1>2, TailIsOrderly
<1>5. /\ bound'[d] = bound[d] \/ (Head(s).op = "listen" /\ bound'[d] = bound[d] \union {Head(s).on})
      /\ Head(s).op # "state" \/ store[d].at = "open"
  BY DEF Target, s
<1>6. \A i \in 1 .. Len(Tail(s)) : Tail(s)[i].op = "listen" => Tail(s)[i].on \notin bound'[d]
  <2> SUFFICES ASSUME NEW i \in 1 .. Len(Tail(s)), Tail(s)[i].op = "listen"
               PROVE  Tail(s)[i].on \notin bound'[d]
    OBVIOUS
  <2>1. i + 1 \in 1 .. Len(s) /\ Tail(s)[i] = s[i + 1] /\ 1 < i + 1 /\ 1 \in 1 .. Len(s)
    BY <1>4
  <2>2. s[1].op = "listen" => s[1].on # s[i + 1].on
    BY <1>2, <2>1 DEF Orderly
  <2> QED
    BY <1>3, <1>4, <1>5, <2>1, <2>2
<1>7. ASSUME kind = "portusd", main'[d].at = "reap" \/ ~Has(Tail(s), "state") PROVE store[d].at = "open"
  BY <1>2, <1>3, <1>4, <1>5, <1>7
<1> SUFFICES ASSUME NEW e \in Daemons
             PROVE  /\ main'[e].at = "off" => bound'[e] = {} /\ store[e].at = "closed"
                    /\ main'[e].at \in Starts =>
                        /\ Orderly(main'[e].steps) /\ main'[e].steps # <<>>
                        /\ main'[e].at # "bind" => Head(main'[e].steps).op = "prepare"
                        /\ \A i \in 1 .. Len(main'[e].steps) :
                            main'[e].steps[i].op = "listen" => main'[e].steps[i].on \notin bound'[e]
                        /\ Has(main'[e].steps, "prepare") => store[e].at = "closed" /\ bound'[e] = {}
                        /\ kind = "portusd" /\ ~Has(main'[e].steps, "state") => store[e].at = "open"
                    /\ main'[e].at \notin Starts \union {"off"} /\ kind = "portusd" => store[e].at = "open"
                    /\ main'[e].at = "drop" => main'[e].steps \in Seq(ListenerNames)
                    /\ main'[e].at \in Polling => main'[e].steps # <<>>
  BY StartsWellNext DEF StartInv
<1>8. CASE e # d
  BY <1>1, <1>2, <1>8 DEF StartInv, StartsWell
<1>9. CASE e = d /\ main'[d].at = "reap"
  BY <1>7, <1>9 DEF Starts, Polling
<1>10. CASE e = d /\ main'[d].at = "bind" /\ main'[d].steps = Tail(s) /\ Len(s) # 1
  <2>1. Has(Tail(s), "prepare") => store[d].at = "closed" /\ bound'[d] = {}
    BY <1>3, <1>4, <1>5
  <2> QED
    BY <1>4, <1>6, <1>7, <1>10, <2>1 DEF Starts, Polling
<1> QED
  BY <1>2, <1>8, <1>9, <1>10

\* Going on is safe for everything but what the step itself does.
LEMMA AdvanceKeeps ==
    ASSUME ServerInv, NEW d \in Daemons, main[d].at \in Starts, Advanced(d),
           UNCHANGED <<kind, storeVars, permits, workers, conn>>,
           bound' \in [Daemons -> SUBSET Range(Listeners)],
           \A e \in Daemons \ {d} : bound'[e] = bound[e],
           \/ bound'[d] = bound[d]
           \/ Head(main[d].steps).op = "listen" /\ bound'[d] = bound[d] \union {Target(d)},
           Head(main[d].steps).op # "state" \/ store[d].at = "open",
           path' \in [ListenerNames -> Daemons \union {None, Other}],
           looked' \in [Daemons -> [ListenerNames -> SUBSET Daemons]],
           usurped' \subseteq Daemons \X ListenerNames,
           SocketInv', AuditTypes'
    PROVE  ServerInv'
<1>1. ServerTypes /\ StartInv /\ ConnInv /\ StoreInv
  BY DEF ServerInv
<1>2. /\ main' \in [Daemons -> MainStates] /\ \A e \in Daemons \ {d} : main'[e] = main[e]
      /\ main'[d].at \in {"reap", "bind"}
  BY AdvancedIs
<1>3. ServerTypes'
  <2>1. Listeners' = Listeners
    BY DEF Listeners
  <2> QED
    BY <1>1, <1>2, <2>1 DEF ServerTypes
<1>4. StartInv'
  <2>1. UNCHANGED <<kind, store>>
    BY DEF storeVars
  <2> QED
    BY <2>1, AdvanceStart
<1>5. ConnInv'
  <2>1. main[d].at \notin {"load", "cas", "drop"} /\ main'[d].at \notin {"load", "cas", "drop"}
    BY <1>2 DEF Starts
  <2> QED
    BY <1>1, <1>2, <2>1, ConnFrame DEF ServerTypes
<1>6. StoreInv'
  <2>1. alone' = (alone /\ ~(\E e \in Daemons \ {d} : PastProbe(e) /\ PastProbe(d)'))
    BY DEF Advanced
  <2>2. \A e \in Daemons \ {d} : PastProbe(e)' <=> PastProbe(e)
    BY <1>2 DEF PastProbe
  <2>3. ASSUME alone', NEW a \in Daemons, NEW e \in Daemons, PastProbe(a)', PastProbe(e)'
        PROVE  a = e
    BY <1>1, <2>1, <2>2, <2>3 DEF StoreInv
  <2>4. alone' \in BOOLEAN /\ (alone' => alone)
    BY <2>1
  <2> QED
    BY <1>1, <2>3, <2>4, StoreFrame
<1> QED
  BY <1>3, <1>4, <1>5, <1>6 DEF ServerInv

\* A step within a step of the start.
LEMMA SameSteps ==
    ASSUME ServerInv, NEW d \in Daemons, NEW m \in MainStates, main' = [main EXCEPT ![d] = m],
           main[d].at \in Starts, m.at \in Starts, m.steps = main[d].steps,
           m.at = "bind" => main[d].at = "bind", m.at # "bind" => Head(m.steps).op = "prepare",
           UNCHANGED <<kind, storeVars, auditVars, path, bound, permits, workers, conn, usurped, alone>>,
           looked' \in [Daemons -> [ListenerNames -> SUBSET Daemons]], SocketInv'
    PROVE  ServerInv'
<1>1. ServerTypes /\ AuditTypes /\ StartInv /\ ConnInv /\ StoreInv
  BY DEF ServerInv
<1>2. /\ main' \in [Daemons -> MainStates] /\ main'[d] = m
      /\ \A e \in Daemons \ {d} : main'[e] = main[e]
  BY <1>1 DEF ServerTypes
<1>3. ServerTypes'
  <2>1. Listeners' = Listeners
    BY DEF Listeners
  <2> QED
    BY <1>1, <1>2, <2>1 DEF ServerTypes
<1>4. AuditTypes'
  BY <1>1 DEF AuditTypes, auditVars
<1>5. StartInv'
  <2>1. UNCHANGED <<kind, bound, store>>
    BY DEF storeVars
  <2> SUFFICES ASSUME NEW e \in Daemons
               PROVE  /\ main'[e].at = "off" => bound[e] = {} /\ store[e].at = "closed"
                      /\ main'[e].at \in Starts =>
                          /\ Orderly(main'[e].steps) /\ main'[e].steps # <<>>
                          /\ main'[e].at # "bind" => Head(main'[e].steps).op = "prepare"
                          /\ \A i \in 1 .. Len(main'[e].steps) :
                              main'[e].steps[i].op = "listen" => main'[e].steps[i].on \notin bound[e]
                          /\ Has(main'[e].steps, "prepare") => store[e].at = "closed" /\ bound[e] = {}
                          /\ kind = "portusd" /\ ~Has(main'[e].steps, "state") => store[e].at = "open"
                      /\ main'[e].at \notin Starts \union {"off"} /\ kind = "portusd" => store[e].at = "open"
                      /\ main'[e].at = "drop" => main'[e].steps \in Seq(ListenerNames)
                      /\ main'[e].at \in Polling => main'[e].steps # <<>>
    BY <2>1, StartsWellNext DEF StartInv
  <2>2. CASE e = d
    BY <1>1, <1>2, <2>2 DEF StartInv, StartsWell, Starts, Polling
  <2>3. CASE e # d
    BY <1>1, <1>2, <2>3 DEF StartInv, StartsWell
  <2> QED
    BY <2>2, <2>3
<1>6. ConnInv'
  <2>1. main[d].at \notin {"load", "cas", "drop"} /\ main'[d].at \notin {"load", "cas", "drop"}
    BY <1>2 DEF Starts
  <2> QED
    BY <1>1, <1>2, <2>1, ConnFrame DEF ServerTypes
<1>7. StoreInv'
  <2>1. \A e \in Daemons : PastProbe(e)' => PastProbe(e)
    <3> SUFFICES ASSUME NEW e \in Daemons, PastProbe(e)' PROVE PastProbe(e)
      OBVIOUS
    <3>1. CASE e = d
      BY <1>2, <3>1 DEF PastProbe, Starts
    <3>2. CASE e # d
      BY <1>2, <3>2 DEF PastProbe
    <3> QED
      BY <3>1, <3>2
  <2>2. alone' \in BOOLEAN /\ (alone' => alone)
    BY <1>1 DEF StoreInv
  <2>3. alone' => \A a, e \in Daemons : PastProbe(a)' /\ PastProbe(e)' => a = e
    BY <1>1, <2>1, <2>2 DEF StoreInv
  <2> QED
    BY <1>1, <2>2, <2>3, StoreFrame
<1> QED
  BY <1>3, <1>4, <1>5, <1>6, <1>7 DEF ServerInv

\* Steps that only go on.
LEMMA PlainStepsKeep ==
    ASSUME ServerInv, NEW d \in Daemons, main[d].at = "bind", Head(main[d].steps).op # "state",
           Advanced(d),
           UNCHANGED <<kind, storeVars, path, bound, permits, workers, conn, looked, usurped>>,
           AuditTypes'
    PROVE  ServerInv'
<1>1. ServerTypes /\ SocketInv
  BY DEF ServerInv
<1>2. main[d].at \in Starts
  BY DEF Starts
<1>3. SocketInv'
  <2>1. \A e \in Daemons : main[e].at = "drop" => main'[e].at = "drop"
    BY <1>2, AdvancedIs
  <2> QED
    BY <1>1, <2>1, SocketFrame DEF ServerTypes
<1>4. /\ bound' \in [Daemons -> SUBSET Range(Listeners)]
      /\ path' \in [ListenerNames -> Daemons \union {None, Other}]
      /\ looked' \in [Daemons -> [ListenerNames -> SUBSET Daemons]]
      /\ usurped' \subseteq Daemons \X ListenerNames
  BY <1>1 DEF ServerTypes
<1> QED
  BY <1>2, <1>3, <1>4, AdvanceKeeps

\* The checks, the audit file, and readiness.
LEMMA ChecksKeep ==
    ASSUME ServerInv, NEW d \in Daemons,
           validate_config(d) \/ open_audit(d) \/ verify_socket_contract(d) \/ mark_ready(d)
    PROVE  ServerInv'
<1>1. /\ main[d].at = "bind" /\ Head(main[d].steps).op # "state" /\ Advanced(d)
      /\ UNCHANGED <<kind, storeVars, path, bound, permits, workers, conn, looked, usurped>>
  BY DEF validate_config, open_audit, verify_socket_contract, mark_ready, Starting
<1>2. AuditTypes'
  <2>1. CASE UNCHANGED auditVars
    BY <2>1 DEF ServerInv, AuditTypes, auditVars
  <2>2. CASE open_audit(d)
    <3>1. AuditTypes /\ 0 \in 0 .. Archives
      BY AuditSizes DEF ServerInv
    <3>2. Content(files[0]) \in Seq(Nat) /\ (files[0] = NoFile \/ Len(files[0]) <= FileLimit)
      BY <3>1 DEF AuditTypes, Content
    <3>3. Content(files[0]) = NoFile \/ Len(Content(files[0])) <= FileLimit
      BY <3>2, AuditSizes DEF Content
    <3>4. files' = [files EXCEPT ![0] = Content(files[0])] /\ UNCHANGED <<recorded, rotating>>
      BY <2>2 DEF open_audit, open_with_limits
    <3> QED
      BY <3>1, <3>2, <3>3, <3>4 DEF AuditTypes
  <2> QED
    BY <2>1, <2>2 DEF validate_config, verify_socket_contract, mark_ready
<1> QED
  BY <1>1, <1>2, PlainStepsKeep

\* The restart reconciliation of the providers and the policy.
LEMMA ReconcileKeeps ==
    ASSUME ServerInv, NEW d \in Daemons, reconcile(d)
    PROVE  ServerInv'
<1>1. ServerTypes /\ AuditTypes /\ StartInv /\ SocketInv
  BY DEF ServerInv
<1>2. /\ main[d].at = "bind" /\ Head(main[d].steps).op = "reconcile" /\ main \in [Daemons -> MainStates]
      /\ UNCHANGED <<kind, storeVars, auditVars, path, bound, permits, workers, conn, looked, usurped>>
  BY <1>1 DEF reconcile, Starting, ServerTypes
<1>3. AuditTypes'
  BY <1>1, <1>2 DEF AuditTypes, auditVars
<1>4. CASE Advanced(d)
  BY <1>2, <1>3, <1>4, PlainStepsKeep
<1>5. CASE main' = [main EXCEPT ![d].seen = 1] /\ UNCHANGED alone
  <2> DEFINE m == [main[d] EXCEPT !.seen = 1]
  <2>1. m \in MainStates /\ m.at = "bind" /\ m.steps = main[d].steps
    BY <1>2 DEF MainStates
  <2>2. main' = [main EXCEPT ![d] = m]
    BY <1>2, <1>5
  <2> HIDE DEF m
  <2>3. SocketInv' /\ looked' \in [Daemons -> [ListenerNames -> SUBSET Daemons]]
    <3>1. \A e \in Daemons : main[e].at = "drop" => main'[e].at = "drop"
      BY <1>2, <2>1, <2>2
    <3> QED
      BY <1>1, <1>2, <3>1, SocketFrame DEF ServerTypes
  <2>4. main[d].at \in Starts /\ m.at \in Starts
    BY <1>2, <2>1 DEF Starts
  <2> QED
    BY <1>2, <1>5, <2>1, <2>2, <2>3, <2>4, SameSteps
<1> QED
  BY <1>4, <1>5 DEF reconcile

\* A daemon starts.
LEMMA StartKeeps ==
    ASSUME ServerInv, NEW d \in Daemons, Start(d)
    PROVE  ServerInv'
<1>1. ServerTypes /\ AuditTypes /\ StartInv /\ SocketInv /\ ConnInv /\ StoreInv
  BY DEF ServerInv
<1>2. /\ main[d].at = "off" /\ main \in [Daemons -> MainStates]
      /\ UNCHANGED <<kind, storeVars, auditVars, path, bound, permits, workers, conn, looked, usurped,
                     alone>>
      /\ main' = [main EXCEPT ![d] = [Off EXCEPT !.at = "bind", !.steps = bind]]
  BY <1>1 DEF Start, ServerTypes
<1>3. /\ Orderly(bind) /\ bind # <<>> /\ Has(bind, "prepare")
      /\ kind = "portusd" => Has(bind, "state")
  BY <1>1, BindIsOrderly DEF ServerTypes, Kinds
<1> DEFINE m == [Off EXCEPT !.at = "bind", !.steps = bind]
<1>4. m \in MainStates /\ m.at = "bind" /\ m.steps = bind
  <2>1. bind \in Seq(BindSteps \union ListenerNames)
    BY <1>3, SeqMonotonic DEF Orderly
  <2>2. Off \in MainStates
    BY DEF Off, MainStates, Ats
  <2> QED
    BY <2>1, <2>2 DEF MainStates, Ats
<1>5. main' = [main EXCEPT ![d] = m]
  BY <1>2
<1> HIDE DEF m
<1>6. /\ main' \in [Daemons -> MainStates] /\ main'[d] = m
      /\ \A e \in Daemons \ {d} : main'[e] = main[e]
  BY <1>2, <1>4, <1>5
<1>7. ServerTypes'
  <2>1. Listeners' = Listeners
    BY <1>2 DEF Listeners
  <2> QED
    BY <1>1, <1>2, <1>6, <2>1 DEF ServerTypes
<1>8. AuditTypes'
  BY <1>1, <1>2 DEF AuditTypes, auditVars
<1>9. StartInv'
  <2>1. UNCHANGED <<kind, bound, store>>
    BY <1>2 DEF storeVars
  <2> SUFFICES ASSUME NEW e \in Daemons
               PROVE  /\ main'[e].at = "off" => bound[e] = {} /\ store[e].at = "closed"
                      /\ main'[e].at \in Starts =>
                          /\ Orderly(main'[e].steps) /\ main'[e].steps # <<>>
                          /\ main'[e].at # "bind" => Head(main'[e].steps).op = "prepare"
                          /\ \A i \in 1 .. Len(main'[e].steps) :
                              main'[e].steps[i].op = "listen" => main'[e].steps[i].on \notin bound[e]
                          /\ Has(main'[e].steps, "prepare") => store[e].at = "closed" /\ bound[e] = {}
                          /\ kind = "portusd" /\ ~Has(main'[e].steps, "state") => store[e].at = "open"
                      /\ main'[e].at \notin Starts \union {"off"} /\ kind = "portusd" => store[e].at = "open"
                      /\ main'[e].at = "drop" => main'[e].steps \in Seq(ListenerNames)
                      /\ main'[e].at \in Polling => main'[e].steps # <<>>
    BY <2>1, StartsWellNext DEF StartInv
  <2>2. CASE e = d
    <3>1. bound[d] = {} /\ store[d].at = "closed"
      BY <1>1, <1>2 DEF StartInv, StartsWell
    <3> QED
      BY <1>3, <1>4, <1>6, <2>2, <3>1 DEF Starts, Polling
  <2>3. CASE e # d
    BY <1>1, <1>6, <2>3 DEF StartInv, StartsWell
  <2> QED
    BY <2>2, <2>3
<1>10. SocketInv'
  <2>1. \A e \in Daemons : main[e].at = "drop" => main'[e].at = "drop"
    BY <1>2, <1>6
  <2> QED
    BY <1>1, <1>2, <2>1, SocketFrame DEF ServerTypes
<1>11. ConnInv'
  <2>1. main[d].at \notin {"load", "cas", "drop"} /\ main'[d].at \notin {"load", "cas", "drop"}
    BY <1>2, <1>4, <1>6
  <2> QED
    BY <1>1, <1>2, <1>6, <2>1, ConnFrame DEF ServerTypes
<1>12. StoreInv'
  <2>1. \A e \in Daemons : PastProbe(e)' => PastProbe(e)
    <3> SUFFICES ASSUME NEW e \in Daemons, PastProbe(e)' PROVE PastProbe(e)
      OBVIOUS
    <3>1. CASE e = d
      BY <1>3, <1>4, <1>6, <3>1 DEF PastProbe, Has
    <3>2. CASE e # d
      BY <1>6, <3>2 DEF PastProbe
    <3> QED
      BY <3>1, <3>2
  <2>2. UNCHANGED storeVars /\ alone' \in BOOLEAN /\ (alone' => alone)
    BY <1>1, <1>2 DEF StoreInv
  <2>3. alone' => \A a, e \in Daemons : PastProbe(a)' /\ PastProbe(e)' => a = e
    BY <1>1, <2>1, <2>2 DEF StoreInv
  <2> QED
    BY <1>1, <2>2, <2>3, StoreFrame
<1> QED
  BY <1>7, <1>8, <1>9, <1>10, <1>11, <1>12 DEF ServerInv

\* What is probed or bound next is a socket of this server, not yet bound.
LEMMA TargetIs ==
    ASSUME ServerInv, NEW d \in Daemons, main[d].at \in Starts,
           Head(main[d].steps).op \in {"prepare", "listen"}
    PROVE  /\ Target(d) \in Range(Listeners) /\ Target(d) \in ListenerNames
           /\ Head(main[d].steps).op = "prepare" => bound[d] = {}
           /\ Head(main[d].steps).op = "listen" => Target(d) \notin bound[d]
<1> DEFINE s == main[d].steps
<1>1. /\ Orderly(s) /\ s # <<>>
      /\ \A i \in 1 .. Len(s) : s[i].op = "listen" => s[i].on \notin bound[d]
      /\ Has(s, "prepare") => bound[d] = {}
  BY DEF ServerInv, StartInv, StartsWell
<1>2. Head(s).op \in {"prepare", "listen"} /\ Target(d) = Head(s).on
  BY DEF Target
<1> HIDE DEF s
<1>3. s \in Seq(BindSteps) /\ Head(s) = s[1] /\ 1 \in 1 .. Len(s)
  <2>1. s \in Seq(BindSteps)
    BY <1>1 DEF Orderly
  <2> QED
    BY <1>1, <2>1, TailIs
<1>4. Target(d) \in Range(Listeners)
  BY <1>1, <1>2, <1>3 DEF Orderly
<1>5. /\ Head(s).op = "prepare" => bound[d] = {}
      /\ Head(s).op = "listen" => Target(d) \notin bound[d]
  BY <1>1, <1>2, <1>3 DEF Has
<1> QED
  BY <1>4, <1>5, ListenersAre DEF s

\* Whoever listens without the path at the time of the probe has lost it before.
LEMMA LooksKeeps ==
    ASSUME ServerInv, NEW d \in Daemons, NEW l \in ListenerNames, Looks(d, l), ~connects(l),
           UNCHANGED <<path, bound, usurped>>,
           \A e \in Daemons : main[e].at = "drop" => main'[e].at = "drop"
    PROVE  SocketInv' /\ looked' \in [Daemons -> [ListenerNames -> SUBSET Daemons]]
<1>1. ServerTypes /\ SocketInv
  BY DEF ServerInv
<1>2. looked \in [Daemons -> [ListenerNames -> SUBSET Daemons]]
  BY <1>1 DEF ServerTypes
<1> DEFINE them == {e \in Daemons \ {d} : l \in bound[e]}
<1>3. looked' = [looked EXCEPT ![d][l] = them]
  BY DEF Looks
<1>4. \A e \in them : path[l] # e /\ l \in bound[e] /\ e \in Daemons
  BY DEF connects
<1> HIDE DEF them
<1>5. them \in SUBSET Daemons
  BY <1>4
<1>6. looked' \in [Daemons -> [ListenerNames -> SUBSET Daemons]]
  BY <1>2, <1>3, <1>5
<1>7. \A e \in Daemons, k \in ListenerNames :
        looked'[e][k] = IF e = d /\ k = l THEN them ELSE looked[e][k]
  BY <1>2, <1>3
<1>8. \A e \in them : <<e, l>> \in usurped \/ main[e].at = "drop"
  BY <1>1, <1>4 DEF SocketInv
<1>9. ASSUME NEW e \in Daemons, NEW k \in ListenerNames, NEW x \in looked'[e][k]
      PROVE  /\ k \in bound[x] /\ path[k] # x
             /\ <<x, k>> \in usurped \/ main'[x].at = "drop"
  <2>1. CASE e = d /\ k = l
    BY <1>4, <1>7, <1>8, <2>1
  <2>2. CASE ~(e = d /\ k = l)
    <3>1. x \in looked[e][k] /\ x \in Daemons
      BY <1>2, <1>7, <2>2
    <3> QED
      BY <1>1, <3>1 DEF SocketInv
  <2> QED
    BY <2>1, <2>2
<1>10. \A e \in Daemons : main'[e].at # "drop" =>
         \A k \in bound[e] : path[k] = e \/ <<e, k>> \in usurped
  BY <1>1 DEF SocketInv
<1>11. SocketInv'
  BY <1>9, <1>10 DEF SocketInv
<1> QED
  BY <1>6, <1>11

\* The path is looked at, and then connected to.
LEMMA ProbeKeeps ==
    ASSUME ServerInv, NEW d \in Daemons, symlink_metadata(d) \/ probe(d)
    PROVE  ServerInv'
<1>1. ServerTypes /\ AuditTypes /\ StartInv /\ SocketInv
  BY DEF ServerInv
<1>2. /\ main[d].at \in Starts /\ main[d].at \in {"bind", "connect"}
      /\ Head(main[d].steps).op = "prepare" /\ main \in [Daemons -> MainStates]
      /\ UNCHANGED <<kind, storeVars, auditVars, path, bound, permits, workers, conn, usurped>>
  BY <1>1 DEF symlink_metadata, probe, Starting, ServerTypes, StartInv, StartsWell, Starts
<1> DEFINE l == Target(d)
<1>3. l \in ListenerNames
  BY <1>2, TargetIs
<1>4. AuditTypes'
  BY <1>1, <1>2 DEF AuditTypes, auditVars
<1>5. None \notin Daemons
  BY ClientsAssumption
<1>6. CASE Looks(d, l) /\ ~connects(l) /\ Advanced(d)
  <2>1. \A e \in Daemons : main[e].at = "drop" => main'[e].at = "drop"
    BY <1>2, <1>6, AdvancedIs
  <2>2. SocketInv' /\ looked' \in [Daemons -> [ListenerNames -> SUBSET Daemons]]
    BY <1>2, <1>3, <1>6, <2>1, LooksKeeps
  <2>3. /\ bound' \in [Daemons -> SUBSET Range(Listeners)]
        /\ path' \in [ListenerNames -> Daemons \union {None, Other}]
        /\ usurped' \subseteq Daemons \X ListenerNames
    BY <1>1, <1>2 DEF ServerTypes
  <2> QED
    BY <1>2, <1>4, <1>6, <2>2, <2>3, AdvanceKeeps
<1>7. ASSUME NEW at \in {"connect", "unlink"}, main' = [main EXCEPT ![d].at = at], UNCHANGED alone,
             UNCHANGED looked \/ (Looks(d, l) /\ ~connects(l))
      PROVE  ServerInv'
  <2> DEFINE m == [main[d] EXCEPT !.at = at]
  <2>1. m \in MainStates /\ m.at = at /\ m.steps = main[d].steps /\ at \in Starts
    BY <1>2 DEF MainStates, Ats, Starts
  <2>2. main' = [main EXCEPT ![d] = m]
    BY <1>2, <1>7
  <2> HIDE DEF m
  <2>3. \A e \in Daemons : main[e].at = "drop" => main'[e].at = "drop"
    <3>1. main[d].at # "drop" /\ \A e \in Daemons \ {d} : main'[e] = main[e]
      BY <1>2, <2>2
    <3> QED
      BY <3>1
  <2>4. SocketInv' /\ looked' \in [Daemons -> [ListenerNames -> SUBSET Daemons]]
    <3>1. CASE UNCHANGED looked
      BY <1>1, <1>2, <2>3, <3>1, SocketFrame DEF ServerTypes
    <3>2. CASE Looks(d, l) /\ ~connects(l)
      BY <1>2, <1>3, <2>3, <3>2, LooksKeeps
    <3> QED
      BY <1>7, <3>1, <3>2
  <2> QED
    BY <1>2, <1>7, <2>1, <2>2, <2>4, SameSteps
<1>8. CASE symlink_metadata(d)
  <2>1. CASE path[l] = None /\ Looks(d, l) /\ Advanced(d)
    BY <1>5, <1>6, <2>1 DEF connects
  <2>2. CASE main' = [main EXCEPT ![d].at = "connect"] /\ UNCHANGED <<looked, alone>>
    BY <1>7, <2>2
  <2> QED
    BY <1>8, <2>1, <2>2 DEF symlink_metadata
<1>9. CASE probe(d)
  <2>1. ~connects(l) /\ Looks(d, l)
    BY <1>9 DEF probe
  <2>2. CASE Advanced(d)
    BY <1>6, <2>1, <2>2
  <2>3. CASE main' = [main EXCEPT ![d].at = "unlink"] /\ UNCHANGED alone
    BY <1>7, <2>1, <2>3
  <2> QED
    BY <1>9, <2>2, <2>3 DEF probe
<1> QED
  BY <1>8, <1>9

\* A socket nobody answers at is removed.
LEMMA RemoveStaleKeeps ==
    ASSUME ServerInv, NEW d \in Daemons, remove_stale(d)
    PROVE  ServerInv'
<1>1. ServerTypes /\ AuditTypes /\ StartInv
  BY DEF ServerInv
<1>2. /\ main[d].at \in Starts /\ main[d].at = "unlink" /\ Head(main[d].steps).op = "prepare"
      /\ Unlinked(d, Target(d)) /\ Advanced(d)
      /\ UNCHANGED <<kind, storeVars, auditVars, bound, permits, workers, conn, looked>>
  BY <1>1 DEF remove_stale, StartInv, StartsWell, Starts
<1>3. Target(d) \in ListenerNames /\ bound[d] = {}
  BY <1>2, TargetIs
<1>4. \A e \in Daemons : main[e].at = "drop" => main'[e].at = "drop"
  BY <1>2, AdvancedIs
<1>5. /\ SocketInv' /\ path' \in [ListenerNames -> Daemons \union {None, Other}]
      /\ usurped' \subseteq Daemons \X ListenerNames
  BY <1>2, <1>3, <1>4, UnlinkedKeeps
<1>6. AuditTypes'
  BY <1>1, <1>2 DEF AuditTypes, auditVars
<1>7. /\ bound' \in [Daemons -> SUBSET Range(Listeners)]
      /\ looked' \in [Daemons -> [ListenerNames -> SUBSET Daemons]]
  BY <1>1, <1>2 DEF ServerTypes
<1> QED
  BY <1>2, <1>5, <1>6, <1>7, AdvanceKeeps

\* A listener takes a path that is free.
LEMMA BindListenerKeeps ==
    ASSUME ServerInv, NEW d \in Daemons, bind_listener(d)
    PROVE  ServerInv'
<1>1. ServerTypes /\ AuditTypes /\ StartInv /\ SocketInv
  BY DEF ServerInv
<1> DEFINE l == Target(d)
<1>2. /\ main[d].at \in Starts /\ main[d].at = "bind" /\ Head(main[d].steps).op = "listen" /\ Advanced(d)
      /\ path[l] = None /\ path' = [path EXCEPT ![l] = d]
      /\ bound' = [bound EXCEPT ![d] = bound[d] \union {l}]
      /\ UNCHANGED <<kind, storeVars, auditVars, permits, workers, conn, looked, usurped>>
  BY <1>1 DEF bind_listener, Starting, Starts
<1>3. l \in ListenerNames /\ l \in Range(Listeners) /\ l \notin bound[d]
  BY <1>2, TargetIs
<1>4. \A e \in Daemons : main[e].at = "drop" => main'[e].at = "drop"
  BY <1>2, AdvancedIs
<1>5. None \notin Daemons
  BY ClientsAssumption
<1>6. /\ path' \in [ListenerNames -> Daemons \union {None, Other}] /\ path'[l] = d
      /\ \A k \in ListenerNames \ {l} : path'[k] = path[k]
  BY <1>1, <1>2, <1>3 DEF ServerTypes
<1>7. /\ bound' \in [Daemons -> SUBSET Range(Listeners)] /\ bound'[d] = bound[d] \union {l}
      /\ \A e \in Daemons \ {d} : bound'[e] = bound[e]
  BY <1>1, <1>2, <1>3 DEF ServerTypes
<1>8. ASSUME NEW e \in Daemons, main'[e].at # "drop", NEW k \in bound'[e]
      PROVE  path'[k] = e \/ <<e, k>> \in usurped
  <2>1. k \in ListenerNames /\ main[e].at # "drop"
    BY <1>4, <1>7, <1>8, ListenersAre
  <2>2. CASE e = d /\ k = l
    BY <1>6, <2>2
  <2>3. CASE ~(e = d /\ k = l)
    <3>1. k \in bound[e]
      BY <1>7, <2>3
    <3>2. path[k] = e \/ <<e, k>> \in usurped
      BY <1>1, <2>1, <3>1 DEF SocketInv
    <3> QED
      BY <1>2, <1>5, <1>6, <2>1, <3>2
  <2> QED
    BY <2>2, <2>3
<1>9. ASSUME NEW e \in Daemons, NEW k \in ListenerNames, NEW x \in looked[e][k]
      PROVE  /\ k \in bound'[x] /\ path'[k] # x
             /\ <<x, k>> \in usurped \/ main'[x].at = "drop"
  <2>1. x \in Daemons
    BY <1>1 DEF ServerTypes
  <2>2. k \in bound[x] /\ path[k] # x /\ (<<x, k>> \in usurped \/ main[x].at = "drop")
    BY <1>1 DEF SocketInv
  <2>3. path'[k] # x
    BY <1>3, <1>6, <2>2
  <2> QED
    BY <1>4, <1>7, <2>1, <2>2, <2>3
<1>10. SocketInv'
  BY <1>2, <1>8, <1>9 DEF SocketInv
<1>11. AuditTypes'
  BY <1>1, <1>2 DEF AuditTypes, auditVars
<1>12. looked' \in [Daemons -> [ListenerNames -> SUBSET Daemons]] /\ usurped' \subseteq Daemons \X ListenerNames
  BY <1>1, <1>2 DEF ServerTypes
<1> QED
  BY <1>2, <1>6, <1>7, <1>10, <1>11, <1>12, AdvanceKeeps

(***************************************************************************)
(* The state store.                                                        *)
(***************************************************************************)
\* A set of naturals has a least element.
LEMMA LeastNatural ==
    ASSUME NEW T \in SUBSET Nat, T # {}
    PROVE  \E x \in T : \A y \in T : x <= y
<1>1. IsWellFoundedOn(OpToRel(<, Nat), Nat)
  BY NatLessThanWellFounded
<1>2. PICK x \in T : \A y \in T : ~(<<y, x>> \in OpToRel(<, Nat))
  BY <1>1, WFMin
<1>3. \A y \in T : ~(y < x)
  BY <1>2 DEF OpToRel
<1> QED
  BY <1>3

\* A history without a hole is an initial part of the versions.
LEMMA HistoryIs ==
    ASSUME db.applied \subseteq 1 .. LATEST_SCHEMA_VERSION + 1, ValidHistory
    PROVE  /\ current_schema_version \in Nat
           /\ db.applied = 1 .. current_schema_version
<1> USE SchemaVersions
<1> DEFINE A == db.applied
           T == {k \in Nat : k >= 1 /\ k \notin A}
<1>1. LATEST_SCHEMA_VERSION + 2 \in T
  OBVIOUS
<1>2. PICK m \in T : \A k \in T : m <= k
  <2>1. T \in SUBSET Nat /\ T # {}
    BY <1>1
  <2> HIDE DEF T
  <2> QED
    BY <2>1, LeastNatural
<1>3. m \in Nat /\ m >= 1 /\ m \notin A /\ \A k \in 1 .. m - 1 : k \in A
  BY <1>2
<1>4. \A k \in A : k < m
  <2> DEFINE U == {k \in A : k > m}
  <2>1. SUFFICES ASSUME NEW k \in A, ~(k < m) PROVE FALSE
    OBVIOUS
  <2>2. U \in SUBSET Nat /\ U # {}
    <3>1. A \subseteq Nat
      OBVIOUS
    <3>2. k > m
      BY <1>3, <2>1, <3>1
    <3> QED
      BY <3>1, <3>2
  <2>3. PICK x \in U : \A y \in U : x <= y
    <3> HIDE DEF U
    <3> QED
      BY <2>2, LeastNatural
  <2>4. x \in A /\ x > m /\ x \in Nat
    BY <2>2, <2>3
  <2>5. x - 1 \in A
    BY <1>3, <2>4 DEF ValidHistory
  <2>6. x - 1 \in U
    BY <1>3, <2>4, <2>5
  <2> QED
    BY <2>3, <2>4, <2>6
<1>5. A = 1 .. m - 1
  <2>1. ASSUME NEW k \in A PROVE k \in 1 .. m - 1
    <3>1. k \in 1 .. LATEST_SCHEMA_VERSION + 1 /\ k < m
      BY <1>4
    <3> QED
      BY <1>3, <3>1
  <2> QED
    BY <1>3, <2>1
<1>6. Cardinality(1 .. m - 1) = m - 1
  BY <1>3, FS_Interval
<1>7. current_schema_version = m - 1
  BY <1>5, <1>6 DEF current_schema_version
<1> QED
  BY <1>3, <1>5, <1>7

\* Who has the store open, or works at it, is past the probes.
LEMMA BusyIsPast ==
    ASSUME ServerInv, NEW d \in Daemons, store[d].at # "closed"
    PROVE  PastProbe(d)
<1>1. main[d].at \in Ats /\ StartInv
  BY DEF ServerInv, ServerTypes, MainStates
<1>2. main[d].at # "off"
  BY <1>1 DEF StartInv, StartsWell
<1>3. CASE main[d].at \in Starts
  <2> DEFINE s == main[d].steps
  <2>1. /\ Orderly(s) /\ s # <<>> /\ ~Has(s, "prepare")
        /\ main[d].at # "bind" => Head(s).op = "prepare"
    BY <1>1, <1>3 DEF StartInv, StartsWell
  <2> HIDE DEF s
  <2>2. Head(s).op # "prepare"
    BY <2>1, TailIsOrderly
  <2> QED
    BY <2>1, <2>2 DEF PastProbe, Has, s
<1>4. CASE main[d].at \notin Starts
  BY <1>2, <1>4 DEF PastProbe, Starts
<1> QED
  BY <1>3, <1>4

\* A step of the migration, the copy before it, or the check after the last.
LEMMA OpenKeeps ==
    ASSUME ServerInv, NEW d \in Daemons, PastProbe(d), open(d), UNCHANGED <<main, alone>>
    PROVE  StoreInv' /\ \A e \in Daemons \ {d} : store'[e] = store[e]
<1> USE SchemaVersions
<1>1. StoreInv
  BY DEF ServerInv
<1>2. /\ db \in [applied : SUBSET (1 .. LATEST_SCHEMA_VERSION + 1), ok : BOOLEAN]
      /\ backups \in [Versions -> Versions \union {Absent, Partial, 0}]
      /\ store \in [Daemons -> StoreStates] /\ alone \in BOOLEAN
  BY <1>1 DEF StoreInv
<1>3. alone => \A e \in Daemons \ {d} : store[e].at = "closed"
  BY <1>1, BusyIsPast DEF StoreInv
<1>4. alone => \A a, e \in Daemons : PastProbe(a)' /\ PastProbe(e)' => a = e
  BY <1>1 DEF StoreInv, PastProbe
<1> DEFINE s == store[d]
<1>5. /\ s.at \in Migrating =>
          /\ db.applied \subseteq Versions /\ ValidHistory
          /\ s.next \in 1 .. LATEST_SCHEMA_VERSION + 1 /\ s.current \in Nat
          /\ s.current < s.next /\ 1 .. s.next - 1 \subseteq db.applied
          /\ alone => db.applied = 1 .. s.next - 1
      /\ s.at \in {"copying", "copied"} => s.next \in Versions
      /\ s.at = "copied" /\ alone => backups[s.next] = s.next - 1
  BY <1>1, <1>2 DEF StoreInv, StoreStates, Migrating
\* The store of d is the only one that changes; what it needs, clause by clause.
<1>6. ASSUME NEW m \in StoreStates, store' = [store EXCEPT ![d] = m], m.at # "closed",
             db' \in [applied : SUBSET (1 .. LATEST_SCHEMA_VERSION + 1), ok : BOOLEAN],
             db.applied \subseteq db'.applied, db'.applied \subseteq Versions, ValidHistory',
             backups' \in [Versions -> Versions \union {Absent, Partial, 0}],
             db' = db \/ \A e \in Daemons : store[e].at # "open",
             m.at \in Migrating =>
                /\ m.next \in 1 .. LATEST_SCHEMA_VERSION + 1 /\ m.current < m.next
                /\ 1 .. m.next - 1 \subseteq db'.applied
                /\ alone => db'.applied = 1 .. m.next - 1,
             m.at \in {"copying", "copied"} => m.next \in Versions,
             m.at = "open" => db'.applied = Versions /\ db'.ok,
             m.at = "copied" /\ alone => backups'[m.next] = m.next - 1,
             alone => \A u \in upgraded' :
                u[1] \in db'.applied /\ u[1] \in Versions /\ backups'[u[1]] = u[2] /\ u[2] = u[1] - 1
      PROVE  StoreInv' /\ \A e \in Daemons \ {d} : store'[e] = store[e]
  <2>1. /\ store' \in [Daemons -> StoreStates] /\ store'[d] = m
        /\ \A e \in Daemons \ {d} : store'[e] = store[e]
    BY <1>2, <1>6
  <2>2. ASSUME NEW e \in Daemons
        PROVE  /\ store'[e].at # "closed" => db'.applied \subseteq Versions /\ ValidHistory'
               /\ store'[e].at \in Migrating =>
                   /\ store'[e].next \in 1 .. LATEST_SCHEMA_VERSION + 1
                   /\ store'[e].current < store'[e].next
                   /\ 1 .. store'[e].next - 1 \subseteq db'.applied
               /\ store'[e].at \in {"copying", "copied"} => store'[e].next \in Versions
               /\ store'[e].at = "open" => db'.applied = Versions /\ db'.ok
    <3>1. CASE e = d
      BY <1>6, <2>1, <3>1
    <3>2. CASE e # d
      <4>1. store'[e] = store[e]
        BY <2>1, <3>2
      <4>2. store[e].at \in Migrating =>
              /\ store[e].next \in 1 .. LATEST_SCHEMA_VERSION + 1
              /\ store[e].current < store[e].next
              /\ 1 .. store[e].next - 1 \subseteq db.applied
        BY <1>1 DEF StoreInv
      <4>3. store[e].at \in {"copying", "copied"} => store[e].next \in Versions
        BY <1>1 DEF StoreInv
      <4>4. store[e].at = "open" => db' = db /\ db.applied = Versions /\ db.ok
        BY <1>1, <1>6 DEF StoreInv
      <4> QED
        BY <1>6, <4>1, <4>2, <4>3, <4>4
    <3> QED
      BY <3>1, <3>2
  <2>3. ASSUME alone', NEW e \in Daemons
        PROVE  /\ store'[e].at \in Migrating => db'.applied = 1 .. store'[e].next - 1
               /\ store'[e].at = "copied" => backups'[store'[e].next] = store'[e].next - 1
    <3>1. alone
      BY <2>3
    <3>2. CASE e = d
      BY <1>6, <2>1, <3>1, <3>2
    <3>3. CASE e # d
      BY <1>3, <2>1, <3>1, <3>3 DEF Migrating
    <3> QED
      BY <3>2, <3>3
  <2> QED
    BY <1>2, <1>4, <1>6, <2>1, <2>2, <2>3 DEF StoreInv
<1>7. CASE open_with_options(d)
  <2> DEFINE n == current_schema_version
             m == [at |-> "migrating", current |-> n, next |-> n + 1]
  <2>1. /\ ValidHistory /\ ~(n > LATEST_SCHEMA_VERSION) /\ store' = [store EXCEPT ![d] = m]
        /\ UNCHANGED <<db, backups, upgraded>>
    BY <1>7 DEF open_with_options, open_refused
  <2>2. n \in Nat /\ db.applied = 1 .. n
    BY <1>2, <2>1, HistoryIs
  <2> HIDE DEF n
  <2>3. m \in StoreStates /\ m.at = "migrating" /\ m.current = n /\ m.next = n + 1
    BY <2>2 DEF StoreStates, Migrating
  <2> HIDE DEF m
  <2>4. db.applied \subseteq Versions /\ n + 1 \in 1 .. LATEST_SCHEMA_VERSION + 1 /\ (n + 1) - 1 = n /\ n < n + 1
    BY <2>1, <2>2 DEF Versions
  <2>5. db' = db /\ backups' = backups /\ upgraded' = upgraded /\ ValidHistory'
    BY <2>1 DEF ValidHistory
  <2>6. alone => \A u \in upgraded' :
          u[1] \in db'.applied /\ u[1] \in Versions /\ backups'[u[1]] = u[2] /\ u[2] = u[1] - 1
    BY <1>1, <2>5 DEF StoreInv
  <2>7. /\ m.at \in Migrating =>
            /\ m.next \in 1 .. LATEST_SCHEMA_VERSION + 1 /\ m.current < m.next
            /\ 1 .. m.next - 1 \subseteq db'.applied
            /\ alone => db'.applied = 1 .. m.next - 1
        /\ m.at \notin {"copying", "copied", "open", "closed"}
    BY <2>2, <2>3, <2>4, <2>5
  <2>8. /\ db' \in [applied : SUBSET (1 .. LATEST_SCHEMA_VERSION + 1), ok : BOOLEAN]
        /\ backups' \in [Versions -> Versions \union {Absent, Partial, 0}]
        /\ db.applied \subseteq db'.applied /\ db'.applied \subseteq Versions
    BY <1>2, <2>4, <2>5
  <2> QED
    BY <1>6, <2>1, <2>3, <2>5, <2>6, <2>7, <2>8
<1>8. CASE create_pre_migration_backup(d)
  <2> DEFINE m == [store[d] EXCEPT !.at = "copying"]
  <2>1. /\ s.at = "migrating" /\ s.next \in Versions /\ store' = [store EXCEPT ![d] = m]
        /\ backups' = [backups EXCEPT ![s.next] = Partial] /\ db' = db /\ upgraded' = upgraded
    BY <1>2, <1>8 DEF create_pre_migration_backup
  <2>2. m \in StoreStates /\ m.at = "copying" /\ m.next = s.next /\ m.current = s.current
    BY <1>2 DEF StoreStates, Migrating
  <2> HIDE DEF m
  <2>3. backups' \in [Versions -> Versions \union {Absent, Partial, 0}]
        /\ \A v \in Versions \ {s.next} : backups'[v] = backups[v]
    BY <1>2, <2>1
  <2>4. s.at \in Migrating
    BY <2>1 DEF Migrating
  <2>5. alone => \A u \in upgraded' :
          u[1] \in db'.applied /\ u[1] \in Versions /\ backups'[u[1]] = u[2] /\ u[2] = u[1] - 1
    <3> SUFFICES ASSUME alone, NEW u \in upgraded
                 PROVE  u[1] \in db.applied /\ u[1] \in Versions /\ backups'[u[1]] = u[2] /\ u[2] = u[1] - 1
      BY <2>1
    <3>1. u[1] \in db.applied /\ u[1] \in Versions /\ backups[u[1]] = u[2] /\ u[2] = u[1] - 1
      BY <1>1 DEF StoreInv
    <3>2. u[1] # s.next
      BY <1>5, <2>1, <2>4, <3>1 DEF Versions
    <3> QED
      BY <2>3, <3>1, <3>2
  <2>6. ValidHistory'
    BY <1>5, <2>1, <2>4 DEF ValidHistory
  <2>7. /\ m.at \in Migrating =>
            /\ m.next \in 1 .. LATEST_SCHEMA_VERSION + 1 /\ m.current < m.next
            /\ 1 .. m.next - 1 \subseteq db'.applied
            /\ alone => db'.applied = 1 .. m.next - 1
        /\ m.at = "copying" /\ m.next \in Versions
    BY <1>5, <2>1, <2>2, <2>4
  <2>8. /\ db' \in [applied : SUBSET (1 .. LATEST_SCHEMA_VERSION + 1), ok : BOOLEAN]
        /\ db.applied \subseteq db'.applied /\ db'.applied \subseteq Versions
    BY <1>2, <1>5, <2>1, <2>4
  <2> QED
    BY <1>6, <2>1, <2>2, <2>3, <2>5, <2>6, <2>7, <2>8
<1>9. CASE run_to_completion(d)
  <2> DEFINE m == [store[d] EXCEPT !.at = "copied"]
             n == current_schema_version
  <2>1. /\ s.at = "copying" /\ store' = [store EXCEPT ![d] = m]
        /\ backups' = [backups EXCEPT ![s.next] = n] /\ db' = db /\ upgraded' = upgraded
    BY <1>2, <1>9 DEF run_to_completion
  <2>2. m \in StoreStates /\ m.at = "copied" /\ m.next = s.next /\ m.current = s.current
    BY <1>2 DEF StoreStates, Migrating
  <2> HIDE DEF m
  <2>3. s.at \in Migrating /\ s.next \in Versions
    BY <1>5, <2>1 DEF Migrating
  <2>4. n \in Nat /\ db.applied = 1 .. n /\ db.applied \subseteq Versions
    BY <1>2, <1>5, <2>3, HistoryIs
  <2> HIDE DEF n
  <2>5. n \in Versions \union {0}
    BY <2>4 DEF Versions
  <2>6. alone => n = s.next - 1
    BY <1>5, <2>3, <2>4 DEF Versions
  <2>7. backups' \in [Versions -> Versions \union {Absent, Partial, 0}]
        /\ backups'[s.next] = n /\ \A v \in Versions \ {s.next} : backups'[v] = backups[v]
    BY <1>2, <2>1, <2>3, <2>5
  <2>8. alone => \A u \in upgraded' :
          u[1] \in db'.applied /\ u[1] \in Versions /\ backups'[u[1]] = u[2] /\ u[2] = u[1] - 1
    <3> SUFFICES ASSUME alone, NEW u \in upgraded
                 PROVE  u[1] \in db.applied /\ u[1] \in Versions /\ backups'[u[1]] = u[2] /\ u[2] = u[1] - 1
      BY <2>1
    <3>1. u[1] \in db.applied /\ u[1] \in Versions /\ backups[u[1]] = u[2] /\ u[2] = u[1] - 1
      BY <1>1 DEF StoreInv
    <3>2. u[1] # s.next
      BY <1>5, <2>3, <3>1 DEF Versions
    <3> QED
      BY <2>7, <3>1, <3>2
  <2>9. ValidHistory'
    BY <1>5, <2>1, <2>3 DEF ValidHistory
  <2>10. /\ m.at \in Migrating =>
             /\ m.next \in 1 .. LATEST_SCHEMA_VERSION + 1 /\ m.current < m.next
             /\ 1 .. m.next - 1 \subseteq db'.applied
             /\ alone => db'.applied = 1 .. m.next - 1
         /\ m.at = "copied" /\ m.next \in Versions
         /\ alone => backups'[m.next] = m.next - 1
    BY <1>5, <2>1, <2>2, <2>3, <2>6, <2>7
  <2>11. /\ db' \in [applied : SUBSET (1 .. LATEST_SCHEMA_VERSION + 1), ok : BOOLEAN]
         /\ db.applied \subseteq db'.applied /\ db'.applied \subseteq Versions
    BY <1>2, <2>1, <2>4
  <2> QED
    BY <1>6, <2>1, <2>2, <2>7, <2>8, <2>9, <2>10, <2>11
<1>10. CASE apply_migration(d)
  <2> DEFINE m == [store[d] EXCEPT !.at = "migrating", !.next = s.next + 1]
             n == current_schema_version
  <2>1. /\ s.next \in Versions /\ s.next \notin db.applied
        /\ s.at = "copied" \/ (s.at = "migrating" /\ ~(s.next > 1 /\ s.current > 0))
        /\ db' = [db EXCEPT !.applied = db.applied \union {s.next}]
        /\ upgraded' = IF s.current > 0 THEN upgraded \union {<<s.next, n>>} ELSE upgraded
        /\ store' = [store EXCEPT ![d] = m] /\ backups' = backups
    BY <1>2, <1>10 DEF apply_migration, transaction_succeeds, needs_backup, MIGRATIONS
  <2>2. s.at \in Migrating /\ s.next \in Nat
    BY <2>1 DEF Migrating, Versions
  <2>3. m \in StoreStates /\ m.at = "migrating" /\ m.next = s.next + 1 /\ m.current = s.current
    <3>1. PICK k \in Nat : k = s.next + 1
      BY <2>2
    <3>2. m = [s EXCEPT !.at = "migrating", !.next = k] /\ s \in StoreStates
      BY <1>2, <3>1
    <3> HIDE DEF m, s
    <3> QED
      BY <3>1, <3>2 DEF StoreStates, Migrating
  <2>4. n \in Nat /\ db.applied = 1 .. n /\ db.applied \subseteq Versions
    BY <1>2, <1>5, <2>2, HistoryIs
  <2> HIDE DEF m, n
  <2>5. alone => n = s.next - 1
    BY <1>5, <2>1, <2>2, <2>4 DEF Versions
  <2>6. db'.applied = db.applied \union {s.next} /\ db'.ok = db.ok
        /\ db' \in [applied : SUBSET (1 .. LATEST_SCHEMA_VERSION + 1), ok : BOOLEAN]
        /\ db.applied \subseteq db'.applied /\ db'.applied \subseteq Versions
    BY <1>2, <2>1, <2>4 DEF Versions
  <2>7. ValidHistory'
    <3>1. s.next = 1 \/ s.next - 1 \in db.applied
      BY <1>5, <2>1, <2>2 DEF Versions
    <3> QED
      BY <1>5, <2>2, <2>6, <3>1 DEF ValidHistory
  <2>8. \A e \in Daemons : store[e].at # "open"
    BY <1>1, <2>1 DEF StoreInv
  <2>9. ASSUME alone, NEW u \in upgraded'
        PROVE  u[1] \in db'.applied /\ u[1] \in Versions /\ backups'[u[1]] = u[2] /\ u[2] = u[1] - 1
    <3>1. CASE u \in upgraded
      BY <1>1, <2>1, <2>6, <2>9, <3>1 DEF StoreInv
    <3>2. CASE u \notin upgraded
      <4>1. u = <<s.next, n>> /\ s.current > 0
        BY <2>1, <2>9, <3>2
      <4>2. s.at = "copied"
        BY <1>5, <2>1, <2>2, <4>1
      <4>3. backups[s.next] = s.next - 1
        BY <1>5, <2>9, <4>2
      <4>4. u[1] = s.next /\ u[2] = n
        BY <4>1
      <4> QED
        BY <2>1, <2>5, <2>6, <2>9, <4>3, <4>4
    <3> QED
      BY <3>1, <3>2
  <2>10. /\ m.at \in Migrating =>
             /\ m.next \in 1 .. LATEST_SCHEMA_VERSION + 1 /\ m.current < m.next
             /\ 1 .. m.next - 1 \subseteq db'.applied
             /\ alone => db'.applied = 1 .. m.next - 1
         /\ m.at = "migrating"
    <3>1. s.next + 1 \in 1 .. LATEST_SCHEMA_VERSION + 1 /\ s.current < s.next + 1
          /\ (s.next + 1) - 1 = s.next
      BY <1>5, <2>1, <2>2 DEF Versions
    <3>2. 1 .. s.next = (1 .. s.next - 1) \union {s.next}
      BY <2>1 DEF Versions
    <3>3. 1 .. s.next \subseteq db'.applied /\ (alone => db'.applied = 1 .. s.next)
      BY <1>5, <2>2, <2>6, <3>2
    <3> QED
      BY <2>3, <3>1, <3>3
  <2> QED
    BY <1>2, <1>6, <2>1, <2>3, <2>6, <2>7, <2>8, <2>9, <2>10
<1>11. CASE verify_integrity(d)
  <2> DEFINE m == [store[d] EXCEPT !.at = "open"]
  <2>1. /\ s.at = "migrating" /\ s.next \notin Versions /\ db.ok /\ store' = [store EXCEPT ![d] = m]
        /\ db' = db /\ backups' = backups /\ upgraded' = upgraded
    BY <1>2, <1>11 DEF verify_integrity
  <2>2. m \in StoreStates /\ m.at = "open"
    BY <1>2 DEF StoreStates
  <2> HIDE DEF m
  <2>3. s.at \in Migrating
    BY <2>1 DEF Migrating
  <2>4. db.applied = Versions
    <3>1. s.next = LATEST_SCHEMA_VERSION + 1
      BY <1>5, <2>1, <2>3 DEF Versions
    <3>2. s.next - 1 = LATEST_SCHEMA_VERSION
      BY <3>1
    <3> QED
      BY <1>5, <2>3, <3>2 DEF Versions
  <2>5. ValidHistory'
    BY <1>5, <2>1, <2>3 DEF ValidHistory
  <2>6. alone => \A u \in upgraded' :
          u[1] \in db'.applied /\ u[1] \in Versions /\ backups'[u[1]] = u[2] /\ u[2] = u[1] - 1
    BY <1>1, <2>1 DEF StoreInv
  <2>7. m.at \notin Migrating /\ m.at \notin {"copying", "copied", "closed"}
    BY <2>2 DEF Migrating
  <2>8. /\ db' \in [applied : SUBSET (1 .. LATEST_SCHEMA_VERSION + 1), ok : BOOLEAN]
        /\ backups' \in [Versions -> Versions \union {Absent, Partial, 0}]
        /\ db.applied \subseteq db'.applied /\ db'.applied = Versions /\ db'.ok
    BY <1>2, <2>1, <2>4
  <2> QED
    BY <1>6, <2>1, <2>2, <2>5, <2>6, <2>7, <2>8
<1> QED
  BY <1>7, <1>8, <1>9, <1>10, <1>11 DEF open, migrate

\* The state is opened within the start of portusd.
LEMMA OpenStateKeeps ==
    ASSUME ServerInv, NEW d \in Daemons, open_state(d)
    PROVE  ServerInv'
<1>1. ServerTypes /\ AuditTypes /\ StartInv /\ SocketInv /\ ConnInv
  BY DEF ServerInv
<1> DEFINE s == main[d].steps
<1>2. /\ main[d].at = "bind" /\ main[d].at \in Starts /\ Head(s).op = "state"
      /\ UNCHANGED <<kind, auditVars, path, bound, permits, workers, conn, looked, usurped>>
  BY DEF open_state, Starting, Starts
<1>3. AuditTypes'
  BY <1>1, <1>2 DEF AuditTypes, auditVars
<1>4. CASE store[d].at = "open"
  <2>1. Advanced(d) /\ UNCHANGED storeVars
    BY <1>4 DEF open_state
  <2>2. \A e \in Daemons : main[e].at = "drop" => main'[e].at = "drop"
    BY <1>2, <2>1, AdvancedIs
  <2>3. SocketInv'
    BY <1>1, <1>2, <2>2, SocketFrame DEF ServerTypes
  <2>4. /\ bound' \in [Daemons -> SUBSET Range(Listeners)]
        /\ path' \in [ListenerNames -> Daemons \union {None, Other}]
        /\ looked' \in [Daemons -> [ListenerNames -> SUBSET Daemons]]
        /\ usurped' \subseteq Daemons \X ListenerNames
    BY <1>1, <1>2 DEF ServerTypes
  <2> QED
    BY <1>2, <1>3, <1>4, <2>1, <2>3, <2>4, AdvanceKeeps
<1>5. CASE store[d].at # "open"
  <2>1. open(d) /\ UNCHANGED <<main, alone>>
    BY <1>5 DEF open_state
  <2>2. Orderly(s) /\ s # <<>>
    BY <1>1, <1>2 DEF StartInv, StartsWell
  <2> HIDE DEF s
  <2>3. ~Has(s, "prepare") /\ Has(s, "state")
    BY <1>2, <2>2, TailIsOrderly
  <2>4. PastProbe(d)
    BY <1>2, <2>3 DEF PastProbe, Has, s
  <2>5. StoreInv' /\ \A e \in Daemons \ {d} : store'[e] = store[e]
    BY <2>1, <2>4, OpenKeeps
  <2>6. ServerTypes'
    BY <1>1, <1>2, <2>1 DEF ServerTypes, Listeners
  <2>7. StartInv'
    <3> SUFFICES ASSUME NEW e \in Daemons
                 PROVE  /\ main[e].at = "off" => bound[e] = {} /\ store'[e].at = "closed"
                        /\ main[e].at \in Starts =>
                            /\ Orderly(main[e].steps) /\ main[e].steps # <<>>
                            /\ main[e].at # "bind" => Head(main[e].steps).op = "prepare"
                            /\ \A i \in 1 .. Len(main[e].steps) :
                                main[e].steps[i].op = "listen" => main[e].steps[i].on \notin bound[e]
                            /\ Has(main[e].steps, "prepare") => store'[e].at = "closed" /\ bound[e] = {}
                            /\ kind = "portusd" /\ ~Has(main[e].steps, "state") => store'[e].at = "open"
                        /\ main[e].at \notin Starts \union {"off"} /\ kind = "portusd" => store'[e].at = "open"
                        /\ main[e].at = "drop" => main[e].steps \in Seq(ListenerNames)
                        /\ main[e].at \in Polling => main[e].steps # <<>>
      BY <1>2, <2>1, StartsWellNext DEF StartInv
    <3>1. CASE e = d
      <4>1. ~Has(main[d].steps, "prepare") /\ Has(main[d].steps, "state")
        BY <2>3 DEF s
      <4> QED
        BY <1>1, <1>2, <3>1, <4>1 DEF StartInv, StartsWell, Polling
    <3>2. CASE e # d
      BY <1>1, <2>5, <3>2 DEF StartInv, StartsWell
    <3> QED
      BY <3>1, <3>2
  <2>8. SocketInv'
    BY <1>1, <1>2, <2>1, SocketFrame DEF ServerTypes
  <2>9. ConnInv'
    BY <1>1, <1>2, <2>1, ConnFrame DEF ServerTypes
  <2> QED
    BY <1>3, <2>5, <2>6, <2>7, <2>8, <2>9 DEF ServerInv
<1> QED
  BY <1>4, <1>5

(***************************************************************************)
(* The theorems.                                                           *)
(***************************************************************************)
\* Nobody runs yet.
LEMMA ServerInitHolds == Init => ServerInv
<1> SUFFICES ASSUME Init PROVE ServerInv
  OBVIOUS
<1>1. PICK b \in Budgets : /\ kind = b.kind /\ \E p \in b.paths : path = [l \in ListenerNames |-> p]
                           /\ db \in [applied : b.histories, ok : b.integrity]
  BY DEF Init
<1>2. /\ b.kind \in Kinds /\ b.paths \subseteq Daemons \union {None, Other}
      /\ b.histories \subseteq SUBSET (1 .. LATEST_SCHEMA_VERSION + 1) /\ b.integrity \subseteq BOOLEAN
  BY BudgetsAssumption DEF Kinds
<1>3. /\ backups = [v \in Versions |-> Absent] /\ store = [d \in Daemons |-> NoStore]
      /\ upgraded = {} /\ files = [k \in 0 .. Archives |-> NoFile]
      /\ recorded = 0 /\ rotating = [d \in Daemons |-> Idle]
      /\ main = [d \in Daemons |-> Off] /\ bound = [d \in Daemons |-> {}]
      /\ permits = [d \in Daemons |-> 0] /\ workers = [d \in Daemons |-> {}]
      /\ conn = [c \in Conns |-> [at |-> "new", to |-> None, on |-> None, ends |-> FALSE]]
      /\ looked = [d \in Daemons |-> [l \in ListenerNames |-> {}]]
      /\ usurped = {} /\ alone = TRUE
  BY DEF Init
<1>4. Off \in MainStates /\ Off.at = "off"
  BY DEF Off, MainStates, Ats
<1>5. ServerTypes
  <2>1. [at |-> "new", to |-> None, on |-> None, ends |-> FALSE] \in ConnStates
    BY DEF ConnStates
  <2>2. path \in [ListenerNames -> Daemons \union {None, Other}]
    BY <1>1, <1>2
  <2>3. permits \in [Daemons -> 0 .. MaxConnections]
    BY <1>3, PermitsExist
  <2> QED
    BY <1>1, <1>2, <1>3, <1>4, <2>1, <2>2, <2>3 DEF ServerTypes
<1>6. AuditTypes
  <2>1. NoFile \in Seq(Nat) /\ Idle \in Creating .. Idle
    BY AuditSizes DEF NoFile, Idle, Creating
  <2> QED
    BY <1>3, <2>1 DEF AuditTypes
<1>7. StartInv
  <2>1. \A d \in Daemons : main[d].at = "off" /\ bound[d] = {} /\ store[d].at = "closed"
    BY <1>3, <1>4 DEF NoStore
  <2> QED
    BY <2>1 DEF StartInv, StartsWell, Starts, Polling
<1>8. SocketInv
  BY <1>3 DEF SocketInv
<1>9. ConnInv
  <2>1. \A d \in Daemons : Holders(d) = {}
    BY <1>3 DEF Holders, Held
  <2>2. \A d \in Daemons : main[d].at = "off" /\ permits[d] = 0
    BY <1>3, <1>4
  <2>3. \A c \in Conns : conn[c].to = None /\ conn[c].at = "new"
    BY <1>3
  <2>4. Cardinality({}) = 0
    BY FS_EmptySet
  <2> QED
    BY <2>1, <2>2, <2>3, <2>4 DEF ConnInv, Held
<1>10. StoreInv
  <2>1. db \in [applied : SUBSET (1 .. LATEST_SCHEMA_VERSION + 1), ok : BOOLEAN]
    BY <1>1, <1>2
  <2>2. store \in [Daemons -> StoreStates] /\ \A d \in Daemons : store[d].at = "closed"
    BY <1>3 DEF NoStore, StoreStates
  <2>3. \A d \in Daemons : ~PastProbe(d)
    BY <1>3, <1>4 DEF PastProbe
  <2> QED
    BY <1>3, <2>1, <2>2, <2>3 DEF StoreInv, Migrating
<1> QED
  BY <1>5, <1>6, <1>7, <1>8, <1>9, <1>10 DEF ServerInv

\* Every step of a daemon, a thread or the environment keeps the invariant.
LEMMA ServerStepsKeep ==
    ASSUME ServerInv, [Next]_vars
    PROVE  ServerInv'
<1>1. CASE UNCHANGED vars
  <2>1. UNCHANGED <<kind, storeVars, auditVars, path, main, bound, permits, workers, conn, looked,
                    usurped, alone>>
    BY <1>1 DEF vars, serverVars
  <2>2. AuditTypes' /\ ConnInv'
    BY <2>1, ConnFrame DEF ServerInv, AuditTypes, auditVars, ServerTypes
  <2> QED
    BY <2>1, <2>2, ThreadStep DEF ServerInv, ServerTypes
<1>2. ASSUME NEW d \in Daemons,
             \/ Start(d) \/ main_thread(d) \/ BindFails(d) \/ accept_fails(d) \/ signal(d) \/ crash(d)
      PROVE  ServerInv'
  <2>1. CASE Start(d)
    BY <2>1, StartKeeps
  <2>2. CASE validate_config(d) \/ open_audit(d) \/ verify_socket_contract(d) \/ mark_ready(d)
    BY <2>2, ChecksKeep
  <2>3. CASE symlink_metadata(d) \/ probe(d)
    BY <2>3, ProbeKeeps
  <2>4. CASE remove_stale(d)
    BY <2>4, RemoveStaleKeeps
  <2>5. CASE open_state(d)
    BY <2>5, OpenStateKeeps
  <2>6. CASE reconcile(d)
    BY <2>6, ReconcileKeeps
  <2>7. CASE bind_listener(d)
    BY <2>7, BindListenerKeeps
  <2>8. CASE BindRefused(d) \/ BindFails(d)
    BY <2>8, EndsRemovingKeeps DEF BindRefused, BindFails
  <2>9. CASE accept(d)
    BY <2>9, AcceptKeeps
  <2>10. CASE WouldBlock(d)
    BY <2>10, WouldBlockKeeps
  <2>11. CASE acquire_load(d)
    BY <2>11, AcquireLoadKeeps
  <2>12. CASE acquire_cas(d)
    BY <2>12, AcquireCasKeeps
  <2>13. CASE reap_finished_workers(d)
    BY <2>13, ReapKeeps
  <2>14. CASE join(d) \/ accept_fails(d)
    BY <2>14, LeavingKeeps
  <2>15. CASE drop(d)
    BY <2>15, DropKeeps
  <2>16. CASE signal(d)
    BY <2>16, MutexStepsKeep
  <2>17. CASE crash(d)
    BY <2>17, CrashKeeps DEF crash
  <2> QED
    BY <1>2, <2>1, <2>2, <2>3, <2>4, <2>5, <2>6, <2>7, <2>8, <2>9, <2>10, <2>11, <2>12, <2>13, <2>14,
       <2>15, <2>16, <2>17 DEF main_thread, prepare_socket_path
<1>3. ASSUME NEW t \in Threads, thread(t) \/ record_fails(t)
      PROVE  ServerInv'
  <2>1. CASE lock_mutex(t) \/ unlock_mutex(t) \/ record(t) \/ record_fails(t)
    BY <2>1, MutexStepsKeep
  <2>2. CASE t \in Conns /\ write_json_line(t)
    BY <2>2, RequestsKeep
  <2>3. CASE t \in Conns /\ ConnectionPermit_drop(t)
    BY <2>3, PermitDropKeeps
  <2> QED
    BY <1>3, <2>1, <2>2, <2>3 DEF thread
<1>4. ASSUME NEW c \in Conns,
             connect(c) \/ read_json_line(c) \/ follow(c) \/ read_ends(c) \/ write_fails(c)
      PROVE  ServerInv'
  BY <1>4, ConnectKeeps, RequestsKeep
<1> QED
  BY <1>1, <1>2, <1>3, <1>4 DEF Next

\* The servers start, serve, fail and stop in any interleaving within the invariant
\* (portusd, portus-apid and portus-privd: bind, run_until, serve_connection, Drop).
THEOREM ServerInvariant == ServerSpec => []ServerInv
<1>1. Init => ServerInv
  BY ServerInitHolds
<1>2. ServerInv /\ [Next]_vars => ServerInv'
  BY ServerStepsKeep
<1> QED
  BY <1>1, <1>2, PTL DEF ServerSpec

\* However daemons of a kind start, fail, crash and stop beside each other: who serves
\* is reachable at its paths or lost them to a rival that probed first, nobody gets to
\* the shared state beside a daemon it saw listening, the permits are the threads that
\* run, and a daemon that is asked to stop drops its sockets only when every thread it
\* started has ended (prepare_socket_path, ConnectionPermit::acquire, run_until and Drop).
THEOREM ServersAlwaysHold == ServerSpec => []ServersHold
<1>1. ServerInv => ServersHold
  <2> SUFFICES ASSUME ServerInv PROVE ServersHold
    OBVIOUS
  <2>1. ServerTypes /\ AuditTypes /\ StartInv /\ SocketInv /\ ConnInv /\ StoreInv
    BY DEF ServerInv
  <2>2. ServingIsReachable
    BY <2>1 DEF ServingIsReachable, Serving, SocketInv
  <2>3. StartsAlone
    BY <2>1, ListenersAre DEF StartsAlone, SocketInv
  <2>4. PermitsCountWorkers
    BY <2>1 DEF PermitsCountWorkers, ConnInv, Holders, Held
  <2>5. ShutdownDrains
    <3> SUFFICES ASSUME NEW d \in Daemons, main[d].at = "drop", main[d].seen = 0,
                        NEW c \in Conns, conn[c].to = d
                 PROVE  conn[c].at \in {"queued", "closed"}
      BY DEF ShutdownDrains
    <3>1. conn[c].at \in {"new", "queued", "accepted", "reading", "busy", "closing", "closed"}
      BY <2>1 DEF ServerTypes, ConnStates
    <3>2. conn[c].at \notin Held
      BY <2>1 DEF ConnInv, Holders
    <3>3. conn[c].at \notin {"new", "accepted"}
      BY <2>1, ClientsAssumption DEF ConnInv
    <3> QED
      BY <3>1, <3>2, <3>3 DEF Held
  <2>6. ServerTypeOK
    <3>1. StoreTypeOK
      BY <2>1 DEF StoreTypeOK, StoreInv, StoreStates, Migrating
    <3>2. AuditTypeOK
      <4>1. \A k \in 0 .. Archives : files[k] = NoFile \/ Len(files[k]) \in 0 .. FileLimit
        BY <2>1, AuditSizes DEF AuditTypes
      <4> QED
        BY <2>1, <4>1 DEF AuditTypeOK, AuditTypes
    <3>3. kind \in {"portusd", "apid", "privd"}
          /\ \A l \in ListenerNames : path[l] \in Daemons \union {None, Other}
      BY <2>1 DEF ServerTypes, Kinds
    <3>4. \A d \in Daemons :
            /\ main[d].at \in Ats /\ bound[d] \subseteq Range(Listeners)
            /\ permits[d] \in 0 .. MaxConnections /\ workers[d] \subseteq Conns
      BY <2>1 DEF ServerTypes, MainStates
    <3>5. \A c \in Conns :
            conn[c].at \in {"new", "queued", "accepted", "reading", "busy", "closing", "closed"}
      BY <2>1 DEF ServerTypes, ConnStates
    <3> QED
      BY <3>1, <3>2, <3>3, <3>4, <3>5 DEF ServerTypeOK, Ats
  <2> QED
    BY <2>2, <2>3, <2>4, <2>5, <2>6 DEF ServersHold, SocketsAreOwned, ThreadsAreCounted
<1> QED
  BY <1>1, ServerInvariant, PTL

\* portusd serves only from a database at the latest version that passed its check, and
\* every migration of a database in use has a complete copy of the version before it,
\* wherever a start was cut short (open_with_options, create_pre_migration_backup,
\* apply_migration).
THEOREM DatabaseSurvivesCrashes == ServerSpec => [](ReadyIsCurrent /\ BackupsHold)
<1>1. ServerInv => ReadyIsCurrent /\ BackupsHold
  <2> SUFFICES ASSUME ServerInv PROVE ReadyIsCurrent /\ BackupsHold
    OBVIOUS
  <2>1. StartInv /\ StoreInv
    BY DEF ServerInv
  <2>2. ReadyIsCurrent
    BY <2>1 DEF ReadyIsCurrent, Serving, StartInv, StartsWell, StoreInv, Starts
  <2>3. BackupsHold
    BY <2>1 DEF BackupsHold, StoreInv
  <2> QED
    BY <2>2, <2>3
<1> QED
  BY <1>1, ServerInvariant, PTL

(***************************************************************************)
(* The audit files.  Threads write to them, so first: a thread has work    *)
(* only while its daemon is past the probes.                               *)
(***************************************************************************)
ThreadInv ==
    /\ DOMAIN todo = Threads
    /\ \A c \in Conns : conn[c].at \in Held => PastProbe(conn[c].to)
    /\ \A c \in Conns : todo[c] # <<>> => conn[c].at = "busy"
    /\ \A d \in Daemons : todo[d] # <<>> => PastProbe(d)

\* What a step does in which no process ends.
Onward ==
    /\ DOMAIN todo' = Threads
    /\ \A d \in Daemons : PastProbe(d) => PastProbe(d)'
    /\ alone' => alone
    /\ \A c \in Conns : conn'[c].at \in Held => PastProbe(conn[c].to) /\ conn'[c].to = conn[c].to
    /\ \A c \in Conns : todo'[c] # <<>> => conn'[c].at = "busy"
    /\ \A d \in Daemons : todo'[d] # <<>> => PastProbe(d)'

\* A connection with a thread has a daemon, and so has every thread.
LEMMA HeldByDaemon ==
    ASSUME ServerInv, NEW c \in Conns, conn[c].at \in Held
    PROVE  conn[c].to \in Daemons
  BY DEF ServerInv, ServerTypes, ConnInv, ConnStates, Held

\* Who is past the probes stays so when it goes on.
LEMMA StaysPast ==
    ASSUME ServerInv, NEW d \in Daemons,
           \/ main'[d] = main[d]
           \/ main[d].at = "off"
           \/ main'[d].at \in InLoop
           \/ main[d].at \in Starts /\ Head(main[d].steps).op = "prepare"
           \/ main'[d].at = main[d].at /\ main'[d].steps = main[d].steps
           \/ main[d].at \in Starts /\ Advanced(d)
    PROVE  PastProbe(d) => PastProbe(d)'
<1> SUFFICES ASSUME PastProbe(d) PROVE PastProbe(d)'
  OBVIOUS
<1>1. CASE main'[d] = main[d] \/ (main'[d].at = main[d].at /\ main'[d].steps = main[d].steps)
  BY <1>1 DEF PastProbe
<1>2. CASE main[d].at = "off"
  BY <1>2 DEF PastProbe
<1>3. CASE main'[d].at \in InLoop
  BY <1>3, LoopIsPast
<1>4. CASE main[d].at \in Starts /\ Head(main[d].steps).op = "prepare"
  <2>1. main[d].steps # <<>> /\ Orderly(main[d].steps)
    BY <1>4 DEF ServerInv, StartInv, StartsWell
  <2>2. Has(main[d].steps, "prepare")
    BY <1>4, <2>1, TailIsOrderly
  <2> QED
    BY <1>4, <2>2 DEF PastProbe, Has, Starts
<1>5. CASE main[d].at \in Starts /\ Advanced(d)
  <2> DEFINE s == main[d].steps
  <2>1. /\ s # <<>> /\ Orderly(s)
        /\ main'[d].at = "reap" \/ (main'[d].at = "bind" /\ main'[d].steps = Tail(s))
    BY <1>5, AdvancedIs
  <2>2. CASE main'[d].at = "reap"
    BY <2>2, LoopIsPast DEF InLoop, Ats, Starts
  <2>3. CASE main'[d].at = "bind" /\ main'[d].steps = Tail(s)
    <3>1. ~Has(s, "prepare")
      BY <1>5 DEF PastProbe, Has, Starts
    <3> HIDE DEF s
    <3>2. ~Has(Tail(s), "prepare")
      BY <2>1, <3>1, TailIsOrderly
    <3> QED
      BY <2>3, <3>2 DEF PastProbe, Has
  <2> QED
    BY <2>1, <2>2, <2>3
<1> QED
  BY <1>1, <1>2, <1>3, <1>4, <1>5

\* A step that leaves connections and their work alone.
LEMMA OnwardFrame ==
    ASSUME ServerInv, ThreadInv, UNCHANGED <<conn, todo>>, alone' => alone,
           \A d \in Daemons : PastProbe(d) => PastProbe(d)'
    PROVE  Onward
  BY DEF Onward, ThreadInv

\* A step of a start in which no process ends.
LEMMA StartsOnward ==
    ASSUME ServerInv, ThreadInv, NEW d \in Daemons,
           \/ Start(d) \/ validate_config(d) \/ prepare_socket_path(d) \/ open_audit(d)
           \/ open_state(d) \/ reconcile(d) \/ bind_listener(d) \/ verify_socket_contract(d)
           \/ mark_ready(d)
    PROVE  Onward
<1>1. main \in [Daemons -> MainStates] /\ StartInv
  BY DEF ServerInv, ServerTypes
<1>2. \A e \in Daemons \ {d} : main'[e] = main[e]
  BY <1>1 DEF Start, validate_config, prepare_socket_path, symlink_metadata, probe, remove_stale, open_audit,
              open_state, reconcile, bind_listener, verify_socket_contract, mark_ready, Advanced
<1>3. PastProbe(d) => PastProbe(d)'
  <2>1. CASE Start(d)
    BY <2>1, StaysPast DEF Start
  <2>2. CASE prepare_socket_path(d)
    <3>1. main[d].at \in Starts /\ Head(main[d].steps).op = "prepare"
      BY <1>1, <2>2 DEF prepare_socket_path, symlink_metadata, probe, remove_stale, Starting, StartInv,
                        StartsWell, Starts
    <3> QED
      BY <3>1, StaysPast
  <2>3. CASE /\ \/ validate_config(d) \/ open_audit(d) \/ open_state(d) \/ reconcile(d) \/ bind_listener(d)
                \/ verify_socket_contract(d) \/ mark_ready(d)
    <3>1. main[d].at \in Starts
      BY <2>3 DEF validate_config, open_audit, open_state, reconcile, bind_listener, verify_socket_contract,
                  mark_ready, Starting, Starts
    <3>2. Advanced(d) \/ UNCHANGED main \/ main' = [main EXCEPT ![d].seen = 1]
      BY <2>3 DEF validate_config, open_audit, open_state, reconcile, bind_listener, verify_socket_contract,
                  mark_ready
    <3>3. ASSUME main' = [main EXCEPT ![d].seen = 1]
          PROVE  main'[d].at = main[d].at /\ main'[d].steps = main[d].steps
      BY <1>1, <3>3 DEF MainStates
    <3> QED
      BY <3>1, <3>2, <3>3, StaysPast
  <2> QED
    BY <2>1, <2>2, <2>3
<1>4. \A e \in Daemons : PastProbe(e) => PastProbe(e)'
  <2>1. ASSUME NEW e \in Daemons, e # d PROVE PastProbe(e) => PastProbe(e)'
    BY <1>2, <2>1, StaysPast
  <2> QED
    BY <1>3, <2>1
<1>5. UNCHANGED conn /\ (alone' => alone)
  BY DEF Start, validate_config, prepare_socket_path, symlink_metadata, probe, remove_stale, open_audit,
         open_state, reconcile, bind_listener, verify_socket_contract, mark_ready, Advanced
<1>6. CASE UNCHANGED todo
  BY <1>4, <1>5, <1>6, OnwardFrame
<1>7. CASE ~UNCHANGED todo
  <2>1. reconcile(d) \/ mark_ready(d)
    BY <1>7 DEF Start, validate_config, prepare_socket_path, symlink_metadata, probe, remove_stale,
                open_audit, open_state, reconcile, bind_listener, verify_socket_contract, mark_ready
  <2>2. PastProbe(d)
    <3> DEFINE s == main[d].steps
    <3>1. main[d].at = "bind" /\ s # <<>> /\ Orderly(s) /\ Head(s).op \in {"reconcile", "ready"}
      BY <1>1, <2>1 DEF reconcile, mark_ready, Starting, StartInv, StartsWell, Starts
    <3> HIDE DEF s
    <3>2. Head(s) = s[1]
      BY <3>1, TailIsOrderly
    <3>3. Len(s) \in Nat \ {0} /\ 1 \in 1 .. Len(s)
      BY <3>1, TailIs DEF Orderly
    <3>4. \A i \in 1 .. Len(s) : s[i].op # "prepare"
      <4> SUFFICES ASSUME NEW i \in 1 .. Len(s) PROVE s[i].op # "prepare"
        OBVIOUS
      <4>1. CASE i = 1
        BY <3>1, <3>2, <4>1
      <4>2. CASE i # 1
        <5>1. 1 < i
          BY <4>2
        <5> QED
          BY <3>1, <3>2, <3>3, <5>1 DEF Orderly
      <4> QED
        BY <4>1, <4>2
    <3> QED
      BY <3>1, <3>4 DEF PastProbe, s
  <2>3. DOMAIN todo' = Threads /\ \A t \in Threads \ {d} : todo'[t] = todo[t]
    BY <1>7, <2>1 DEF reconcile, mark_ready, ThreadInv
  <2> QED
    BY <1>4, <1>5, <2>2, <2>3, ClientsAssumption DEF Onward, ThreadInv, Threads
<1> QED
  BY <1>6, <1>7

\* A step of the loop of a daemon, a signal, or the way out.
LEMMA LoopsOnward ==
    ASSUME ServerInv, ThreadInv, NEW d \in Daemons,
           \/ accept(d) \/ WouldBlock(d) \/ acquire_load(d) \/ acquire_cas(d)
           \/ reap_finished_workers(d) \/ join(d) \/ accept_fails(d) \/ signal(d)
           \/ drop(d) /\ main[d].steps # <<>>
    PROVE  Onward
<1>1. /\ main \in [Daemons -> MainStates] /\ conn \in [Conns -> ConnStates]
      /\ \A e \in Daemons \ {d} : main'[e] = main[e]
      /\ UNCHANGED <<todo, alone>>
  BY DEF ServerInv, ServerTypes, accept, WouldBlock, acquire_load, acquire_cas, reap_finished_workers, join,
         accept_fails, signal, drop
<1>2. main'[d] = main[d] \/ main'[d].at \in InLoop
  <2>1. Polling \union {"reap", "join", "drop"} \subseteq InLoop
    BY DEF Polling, InLoop, Ats, Starts
  <2>2. CASE signal(d)
    BY <2>2 DEF signal
  <2>3. CASE accept(d)
    BY <1>1, <2>1, <2>3 DEF accept, MainStates, Polling
  <2>4. CASE WouldBlock(d)
    BY <1>1, <2>1, <2>4 DEF WouldBlock, MainStates, Polling, Off
  <2>5. CASE acquire_load(d)
    BY <1>1, <2>1, <2>5 DEF acquire_load, MainStates, Polling, AfterAccept
  <2>6. CASE acquire_cas(d)
    BY <1>1, <2>1, <2>6 DEF acquire_cas, MainStates, Polling, AfterAccept
  <2>7. CASE reap_finished_workers(d)
    BY <1>1, <2>1, <2>7 DEF reap_finished_workers, MainStates, Polling, Off
  <2>8. CASE join(d)
    BY <1>1, <2>1, <2>8 DEF join, MainStates
  <2>9. CASE accept_fails(d)
    BY <1>1, <2>1, <2>9 DEF accept_fails, MainStates
  <2>10. CASE drop(d) /\ main[d].steps # <<>>
    BY <1>1, <2>1, <2>10 DEF drop, MainStates
  <2> QED
    BY <2>2, <2>3, <2>4, <2>5, <2>6, <2>7, <2>8, <2>9, <2>10
<1>3. \A e \in Daemons : PastProbe(e) => PastProbe(e)'
  <2>1. ASSUME NEW e \in Daemons PROVE PastProbe(e) => PastProbe(e)'
    BY <1>1, <1>2, <2>1, StaysPast
  <2> QED
    BY <2>1
<1>4. CASE UNCHANGED conn
  BY <1>1, <1>3, <1>4, OnwardFrame
<1>5. CASE accept(d) \/ acquire_load(d) \/ acquire_cas(d)
  <2>1. \A c \in Conns : conn'[c] = conn[c]
          \/ /\ conn[c].at \in {"queued", "accepted"} /\ conn[c].to = d /\ conn'[c].to = d
             /\ conn'[c].at \in Held => PastProbe(d)
    <3>1. CASE accept(d)
      <4>1. PICK c \in Waiting(d, Polled(d)) : conn' = [conn EXCEPT ![c].at = "accepted"]
        BY <3>1 DEF accept
      <4>2. c \in Conns /\ conn[c].at = "queued" /\ conn[c].to = d
        BY <4>1 DEF Waiting
      <4> QED
        BY <1>1, <4>1, <4>2 DEF ConnStates, Held
    <3>2. CASE acquire_load(d) \/ acquire_cas(d)
      <4>1. /\ main[d].conn \in Conns /\ conn[main[d].conn].at = "accepted" /\ conn[main[d].conn].to = d
        BY <3>2 DEF acquire_load, acquire_cas, ServerInv, ConnInv
      <4>2. PastProbe(d)
        BY <3>2, LoopIsPast DEF acquire_load, acquire_cas, InLoop, Ats, Starts
      <4>3. \/ UNCHANGED conn
            \/ \E at \in {"closed", "reading"} : conn' = [conn EXCEPT ![main[d].conn].at = at]
        BY <3>2 DEF acquire_load, acquire_cas
      <4> QED
        BY <1>1, <4>1, <4>2, <4>3 DEF ConnStates
    <3> QED
      BY <1>5, <3>1, <3>2
  <2>2. \A c \in Conns : conn'[c].at \in Held => PastProbe(conn[c].to) /\ conn'[c].to = conn[c].to
    BY <2>1 DEF ThreadInv
  <2>3. \A c \in Conns : todo'[c] # <<>> => conn'[c].at = "busy"
    BY <1>1, <2>1 DEF ThreadInv
  <2>4. \A e \in Daemons : todo'[e] # <<>> => PastProbe(e)'
    BY <1>1, <1>3 DEF ThreadInv
  <2> QED
    BY <1>1, <1>3, <2>2, <2>3, <2>4 DEF Onward, ThreadInv
<1> QED
  BY <1>4, <1>5 DEF WouldBlock, reap_finished_workers, join, accept_fails, signal, drop

\* A step of a thread or a client.
LEMMA ThreadsOnward ==
    ASSUME ServerInv, ThreadInv,
           \/ \E t \in Threads : thread(t) \/ record_fails(t)
           \/ \E c \in Conns : connect(c) \/ read_json_line(c) \/ follow(c) \/ read_ends(c) \/ write_fails(c)
    PROVE  Onward
<1>1. conn \in [Conns -> ConnStates] /\ UNCHANGED <<main, alone>>
  BY DEF ServerInv, ServerTypes, thread, lock_mutex, unlock_mutex, record, record_fails, write_json_line,
         ConnectionPermit_drop, connect, read_json_line, follow, read_ends, write_fails, Closes
<1>2. \A e \in Daemons : PastProbe(e) => PastProbe(e)'
  BY <1>1 DEF PastProbe
<1>3. CASE \E t \in Threads : lock_mutex(t) \/ unlock_mutex(t) \/ record(t) \/ record_fails(t)
  <2>1. PICK t \in Threads : /\ todo[t] # <<>> /\ UNCHANGED conn
                             /\ UNCHANGED todo \/ \E work : todo' = [todo EXCEPT ![t] = work]
    BY <1>3 DEF lock_mutex, unlock_mutex, record, record_fails, Doing
  <2>2. DOMAIN todo' = Threads /\ \A u \in Threads : todo'[u] # <<>> => todo[u] # <<>>
    BY <2>1 DEF ThreadInv
  <2> QED
    BY <1>1, <1>2, <2>1, <2>2 DEF Onward, ThreadInv, Threads
<1>4. CASE \E c \in Conns : \/ write_json_line(c) \/ ConnectionPermit_drop(c) \/ connect(c)
                            \/ read_json_line(c) \/ follow(c) \/ read_ends(c) \/ write_fails(c)
  <2>1. PICK c \in Conns : \/ write_json_line(c) \/ ConnectionPermit_drop(c) \/ connect(c)
                           \/ read_json_line(c) \/ follow(c) \/ read_ends(c) \/ write_fails(c)
    BY <1>4
  <2>2. /\ \A b \in Conns \ {c} : conn'[b] = conn[b]
        /\ DOMAIN todo' = Threads /\ \A u \in Threads \ {c} : todo'[u] = todo[u]
    BY <1>1, <2>1 DEF write_json_line, ConnectionPermit_drop, connect, read_json_line, follow, read_ends,
                      write_fails, Closes, ThreadInv
  <2>3. /\ conn'[c].at \in Held => conn[c].at \in Held /\ conn'[c].to = conn[c].to
        /\ todo'[c] # <<>> => conn'[c].at = "busy"
    <3>1. CASE read_json_line(c) \/ follow(c)
      <4>1. conn[c].at = "reading" /\ conn'[c].at = "busy" /\ conn'[c].to = conn[c].to
        BY <1>1, <3>1 DEF read_json_line, follow, ConnStates
      <4> QED
        BY <4>1 DEF Held
    <3>2. CASE write_json_line(c) \/ write_fails(c) \/ read_ends(c)
      <4>1. conn[c].at \in Held /\ todo[c] = <<>> /\ UNCHANGED todo
        BY <3>2 DEF write_json_line, write_fails, read_ends, Closes, Answered, Held, ThreadInv
      <4>2. conn'[c].to = conn[c].to
        BY <1>1, <3>2 DEF write_json_line, write_fails, read_ends, Closes, ConnStates
      <4> QED
        BY <4>1, <4>2
    <3>3. CASE ConnectionPermit_drop(c)
      <4>1. conn[c].at = "closing" /\ conn'[c].at = "closed" /\ UNCHANGED todo
        BY <1>1, <3>3 DEF ConnectionPermit_drop, ConnStates
      <4> QED
        BY <4>1 DEF Held, ThreadInv
    <3>4. CASE connect(c)
      <4>1. conn[c].at = "new" /\ conn'[c].at = "queued" /\ UNCHANGED todo
        BY <1>1, <3>4 DEF connect
      <4> QED
        BY <4>1 DEF Held, ThreadInv
    <3> QED
      BY <2>1, <3>1, <3>2, <3>3, <3>4
  <2> QED
    BY <1>1, <1>2, <2>2, <2>3, ClientsAssumption DEF Onward, ThreadInv, Threads
<1> QED
  BY <1>3, <1>4 DEF thread

\* What every step is: the end of a process, or none ends.
LEMMA EndsOrGoesOn ==
    ASSUME ServerInv, ThreadInv, Next
    PROVE  Onward \/ \E d \in Daemons : \E un : Ended(d, un)
<1>1. ASSUME NEW d \in Daemons,
             \/ Start(d) \/ main_thread(d) \/ BindFails(d) \/ accept_fails(d) \/ signal(d) \/ crash(d)
      PROVE  Onward \/ \E un : Ended(d, un)
  <2>1. CASE \/ Start(d) \/ validate_config(d) \/ prepare_socket_path(d) \/ open_audit(d) \/ open_state(d)
             \/ reconcile(d) \/ bind_listener(d) \/ verify_socket_contract(d) \/ mark_ready(d)
    BY <2>1, StartsOnward
  <2>2. CASE \/ accept(d) \/ WouldBlock(d) \/ acquire_load(d) \/ acquire_cas(d)
             \/ reap_finished_workers(d) \/ join(d) \/ accept_fails(d) \/ signal(d)
             \/ drop(d) /\ main[d].steps # <<>>
    BY <2>2, LoopsOnward
  <2>3. CASE BindRefused(d) \/ BindFails(d)
    BY <2>3 DEF BindRefused, BindFails, EndsRemoving
  <2>4. CASE crash(d) \/ (drop(d) /\ main[d].steps = <<>>)
    BY <2>4 DEF crash, drop
  <2> QED
    BY <1>1, <2>1, <2>2, <2>3, <2>4 DEF main_thread
<1>2. ASSUME NEW t \in Threads, thread(t) \/ record_fails(t)
      PROVE  Onward
  BY <1>2, ThreadsOnward
<1>3. ASSUME NEW c \in Conns,
             connect(c) \/ read_json_line(c) \/ follow(c) \/ read_ends(c) \/ write_fails(c)
      PROVE  Onward
  BY <1>3, ThreadsOnward
<1> QED
  BY <1>1, <1>2, <1>3 DEF Next

\* Threads have work only while their daemon is past the probes.
LEMMA ThreadsKeep ==
    ASSUME ServerInv, ServerInv', ThreadInv, Next
    PROVE  ThreadInv'
<1>1. CASE Onward
  <2>1. ASSUME NEW c \in Conns, conn'[c].at \in Held
        PROVE  PastProbe(conn[c].to)'
    <3>1. conn'[c].to \in Daemons
      BY <2>1 DEF ServerInv, ServerTypes, ConnInv, ConnStates, Held
    <3>2. conn'[c].to = conn[c].to /\ PastProbe(conn[c].to)
      BY <1>1, <2>1 DEF Onward
    <3>3. \A d \in Daemons : PastProbe(d) => PastProbe(d)'
      BY <1>1 DEF Onward
    <3> QED
      BY <3>1, <3>2, <3>3 DEF PastProbe
  <2> QED
    BY <1>1, <2>1 DEF Onward, ThreadInv
<1>2. CASE \E d \in Daemons : \E un : Ended(d, un)
  <2>0. PICK d \in Daemons : \E un : Ended(d, un)
    BY <1>2
  <2>1. PICK un : Ended(d, un)
    BY <2>0
  <2>2. /\ \A e \in Daemons \ {d} : main'[e] = main[e]
        /\ \A c \in Conns : conn'[c] = IF conn[c].to = d THEN [conn[c] EXCEPT !.at = "closed"] ELSE conn[c]
        /\ DOMAIN todo' = Threads
        /\ \A t \in Threads : todo'[t] = IF t = d \/ (t \in Conns /\ conn[t].to = d) THEN <<>> ELSE todo[t]
        /\ conn \in [Conns -> ConnStates]
    BY <2>1 DEF Ended, ServerInv, ServerTypes
  <2>3. \A e \in Daemons \ {d} : PastProbe(e) => PastProbe(e)'
    BY <2>2 DEF PastProbe
  <2>4. \A c \in Conns : conn'[c].at \in Held => conn[c].to # d /\ conn'[c] = conn[c]
    BY <2>2 DEF ConnStates, Held
  <2>5. ASSUME NEW c \in Conns, conn'[c].at \in Held
        PROVE  PastProbe(conn[c].to)'
    <3>1. conn[c].to \in Daemons \ {d} /\ conn'[c] = conn[c] /\ PastProbe(conn[c].to)
      BY <2>4, <2>5, HeldByDaemon DEF ThreadInv
    <3> QED
      BY <2>3, <3>1 DEF PastProbe
  <2>6. \A c \in Conns : todo'[c] # <<>> => conn'[c].at = "busy"
    BY <2>2 DEF ThreadInv, Threads
  <2>7. \A e \in Daemons : todo'[e] # <<>> => PastProbe(e)'
    BY <2>2, <2>3 DEF ThreadInv, Threads
  <2> QED
    BY <2>2, <2>5, <2>6, <2>7 DEF ThreadInv
<1> QED
  BY <1>1, <1>2, EndsOrGoesOn

(***************************************************************************)
(* What a rotation does to the files.  E[k] is the last record of file k,  *)
(* or of the files that are older than it when there is none, so that      *)
(* E[Archives + 1] counts what was dropped.  A gap is a missing archive    *)
(* between or before others; the place the rotation r is about to fill is  *)
(* none.  A rotation that is cut short leaves one gap, and nothing is      *)
(* dropped, and no archive lies, beyond more gaps than that.               *)
(***************************************************************************)
Gaps(r) == {k \in 1 .. Archives : files[k] = NoFile /\ k # r + 1}

Laid(E) ==
    /\ E[0] = recorded
    /\ \A k \in 0 .. Archives :
        /\ E[k] = E[k + 1] + Len(Content(files[k]))
        /\ \A i \in 1 .. Len(Content(files[k])) : Content(files[k])[i] = E[k + 1] + i

FilesOK(r) ==
    /\ \E E \in [0 .. Archives + 1 -> Nat] :
        Laid(E) /\ (E[Archives + 1] > 0 => Cardinality(Gaps(r)) <= cut)
    /\ \A k \in 1 .. Archives : files[k] # NoFile =>
        Len(files[k]) = FileLimit /\ Cardinality(Gaps(r) \intersect 1 .. k) <= cut
    /\ r \in 0 .. Archives => Len(Content(files[0])) = FileLimit
    /\ r = Creating => Content(files[0]) = <<>>
    /\ r \in 0 .. Archives - 1 => files[r + 1] = NoFile

LEMMA GapsAreFinite ==
    ASSUME NEW r
    PROVE  IsFiniteSet(Gaps(r)) /\ Cardinality(Gaps(r)) \in Nat
<1>1. IsFiniteSet(1 .. Archives)
  BY AuditSizes, FS_Interval
<1>2. Gaps(r) \subseteq 1 .. Archives
  BY DEF Gaps
<1> QED
  BY <1>1, <1>2, FS_Subset, FS_CardinalityType

\* A part of a set that is small is small.
LEMMA PartIsSmaller ==
    ASSUME NEW T, IsFiniteSet(T), NEW S \in SUBSET T
    PROVE  IsFiniteSet(S) /\ Cardinality(S) \in Nat /\ Cardinality(T) \in Nat
           /\ Cardinality(S) <= Cardinality(T)
  BY FS_Subset, FS_CardinalityType

\* One element more, or one for another.
LEMMA OneMore ==
    ASSUME NEW T, IsFiniteSet(T), NEW x, NEW S \in SUBSET (T \union {x})
    PROVE  Cardinality(S) \in Nat /\ Cardinality(S) <= Cardinality(T) + 1
<1>1. /\ IsFiniteSet(T \union {x}) /\ Cardinality(T) \in Nat
      /\ Cardinality(T \union {x}) \in {Cardinality(T), Cardinality(T) + 1}
  BY FS_AddElement, FS_CardinalityType
<1> QED
  BY <1>1, PartIsSmaller

LEMMA OneForAnother ==
    ASSUME NEW T, IsFiniteSet(T), NEW y \in T, NEW x, NEW S \in SUBSET ((T \ {y}) \union {x})
    PROVE  Cardinality(S) \in Nat /\ Cardinality(T) \in Nat /\ Cardinality(S) <= Cardinality(T)
<1>1. IsFiniteSet(T \ {y}) /\ Cardinality(T \ {y}) = Cardinality(T) - 1
  BY FS_RemoveElement
<1>2. Cardinality(T) \in Nat /\ Cardinality(T \ {y}) \in Nat
  BY <1>1, FS_CardinalityType
<1>3. Cardinality(S) \in Nat /\ Cardinality(S) <= Cardinality(T \ {y}) + 1
  BY <1>1, OneMore
<1> QED
  BY <1>1, <1>2, <1>3

\* What a file may be.
LEMMA FilesAre ==
    ASSUME AuditTypes
    PROVE  /\ Archives \in Nat /\ FileLimit \in Nat \ {0} /\ recorded \in Nat
           /\ files \in [0 .. Archives -> Seq(Nat)] /\ NoFile \in Seq(Nat)
           /\ Content(NoFile) = <<>> /\ Len(Content(NoFile)) = 0
           /\ \A k \in 0 .. Archives :
               /\ Content(files[k]) \in Seq(Nat) /\ Len(Content(files[k])) \in Nat
               /\ Len(Content(files[k])) <= FileLimit
               /\ files[k] # NoFile => Content(files[k]) = files[k]
<1>1. /\ files \in [0 .. Archives -> Seq(Nat)] /\ recorded \in Nat
      /\ \A k \in 0 .. Archives : files[k] = NoFile \/ Len(files[k]) <= FileLimit
      /\ Archives \in Nat /\ FileLimit \in Nat \ {0}
  BY AuditSizes DEF AuditTypes
<1>2. NoFile \in Seq(Nat) /\ Content(NoFile) = <<>> /\ Len(Content(NoFile)) = 0
  BY DEF NoFile, Content
<1>3. ASSUME NEW k \in 0 .. Archives
      PROVE  /\ Content(files[k]) \in Seq(Nat) /\ Len(Content(files[k])) <= FileLimit
             /\ files[k] # NoFile => Content(files[k]) = files[k]
  BY <1>1, <1>2 DEF Content
<1> QED
  BY <1>1, <1>2, <1>3

\* The rotation begins: the active file is full.
LEMMA RotationBegins ==
    ASSUME AuditTypes, FilesOK(Idle), rotation_needed, UNCHANGED <<files, recorded, cut>>
    PROVE  FilesOK(Archives)'
<1>1. Archives \in Nat /\ Len(Content(files[0])) = FileLimit
  BY FilesAre DEF rotation_needed
<1>2. Gaps(Archives)' = Gaps(Idle)
  BY <1>1 DEF Gaps, Idle
<1>3. PICK E \in [0 .. Archives + 1 -> Nat] :
        Laid(E) /\ (E[Archives + 1] > 0 => Cardinality(Gaps(Idle)) <= cut)
  BY DEF FilesOK
<1>4. Laid(E)'
  BY <1>3 DEF Laid
<1>5. \A k \in 1 .. Archives : files'[k] # NoFile =>
        Len(files'[k]) = FileLimit /\ Cardinality(Gaps(Archives)' \intersect 1 .. k) <= cut'
  BY <1>2 DEF FilesOK
<1>6. /\ Archives # Creating /\ ~(Archives \in 0 .. Archives - 1)
      /\ E[Archives + 1] > 0 => Cardinality(Gaps(Archives)') <= cut'
  BY <1>1, <1>2, <1>3 DEF Creating
<1> QED
  BY <1>1, <1>4, <1>5, <1>6 DEF FilesOK

\* The oldest archive goes.
LEMMA OldestGoes ==
    ASSUME AuditTypes, FilesOK(Archives), cut \in Nat, files' = remove_oldest, UNCHANGED <<recorded, cut>>
    PROVE  FilesOK(Archives - 1)'
<1> DEFINE A == Archives
<1>1. PICK E \in [0 .. A + 1 -> Nat] : Laid(E) /\ (E[A + 1] > 0 => Cardinality(Gaps(A)) <= cut)
  BY DEF FilesOK
<1>2. /\ A \in Nat /\ files \in [0 .. A -> Seq(Nat)] /\ Len(Content(NoFile)) = 0 /\ Content(NoFile) = <<>>
      /\ files' = [files EXCEPT ![A] = NoFile]
  BY FilesAre DEF remove_oldest
<1>3. \A k \in 0 .. A : files'[k] = IF k = A THEN NoFile ELSE files[k]
  BY <1>2
<1> DEFINE F == [E EXCEPT ![A + 1] = E[A]]
<1>4. F \in [0 .. A + 1 -> Nat] /\ F[A + 1] = E[A] /\ \A k \in 0 .. A : F[k] = E[k]
  BY <1>2
<1> HIDE DEF F
<1>5. Laid(F)'
  <2>1. F[0] = recorded'
    BY <1>1, <1>2, <1>4 DEF Laid
  <2>2. ASSUME NEW k \in 0 .. A
        PROVE  /\ F[k] = F[k + 1] + Len(Content(files'[k]))
               /\ \A i \in 1 .. Len(Content(files'[k])) : Content(files'[k])[i] = F[k + 1] + i
    <3>1. CASE k = A
      <4>1. F[k] = E[A] /\ F[k + 1] = E[A] /\ E[A] \in Nat /\ Len(Content(files'[k])) = 0
        BY <1>2, <1>3, <1>4, <3>1
      <4> QED
        BY <4>1
    <3>2. CASE k # A
      <4>1. k + 1 \in 0 .. A
        BY <1>2, <3>2
      <4> QED
        BY <1>1, <1>3, <1>4, <3>2, <4>1 DEF Laid
    <3> QED
      BY <3>1, <3>2
  <2> QED
    BY <2>1, <2>2 DEF Laid
<1>6. Gaps(A - 1)' \subseteq Gaps(A)
  BY <1>2, <1>3 DEF Gaps
<1>7. Cardinality(Gaps(A - 1)') <= Cardinality(Gaps(A)) /\ Cardinality(Gaps(A - 1)') \in Nat
      /\ Cardinality(Gaps(A)) \in Nat
  BY <1>6, GapsAreFinite, PartIsSmaller
<1>8. F[A + 1] > 0 => Cardinality(Gaps(A - 1)') <= cut
  <2> SUFFICES ASSUME F[A + 1] > 0 PROVE Cardinality(Gaps(A - 1)') <= cut
    OBVIOUS
  <2>1. CASE E[A + 1] > 0
    BY <1>1, <1>7, <2>1
  <2>2. CASE ~(E[A + 1] > 0) /\ A = 0
    <3>1. Gaps(A - 1)' = {}
      BY <2>2 DEF Gaps
    <3>2. Cardinality(Gaps(A - 1)') = 0
      BY <3>1, FS_EmptySet, Zenon
    <3> QED
      BY <3>2
  <2>3. CASE ~(E[A + 1] > 0) /\ A # 0
    <3>1. E[A] > 0 /\ E[A] \in Nat /\ E[A + 1] \in Nat
      BY <1>2, <1>4
    <3>2. E[A] = E[A + 1] + Len(Content(files[A]))
      BY <1>1, <1>2 DEF Laid
    <3>3. files[A] # NoFile
      BY <1>2, <2>3, <3>1, <3>2
    <3>4. A \in 1 .. A
      BY <1>2, <2>3
    <3>5. Cardinality(Gaps(A) \intersect 1 .. A) <= cut
      BY <3>3, <3>4 DEF FilesOK
    <3>6. Gaps(A) \intersect 1 .. A = Gaps(A)
      BY DEF Gaps
    <3>7. Cardinality(Gaps(A)) <= cut
      BY <3>5, <3>6
    <3> QED
      BY <1>7, <3>7
  <2> QED
    BY <2>1, <2>2, <2>3
<1>9. ASSUME NEW k \in 1 .. A, files'[k] # NoFile
      PROVE  Len(files'[k]) = FileLimit /\ Cardinality(Gaps(A - 1)' \intersect 1 .. k) <= cut
  <2>1. files[k] # NoFile /\ files'[k] = files[k]
    BY <1>2, <1>3, <1>9
  <2>2. Len(files[k]) = FileLimit /\ Cardinality(Gaps(A) \intersect 1 .. k) <= cut
    BY <2>1 DEF FilesOK
  <2>3. /\ Gaps(A - 1)' \intersect 1 .. k \in SUBSET (Gaps(A) \intersect 1 .. k)
        /\ IsFiniteSet(Gaps(A) \intersect 1 .. k)
    BY <1>6, GapsAreFinite, FS_Subset
  <2>4. /\ Cardinality(Gaps(A - 1)' \intersect 1 .. k) \in Nat /\ Cardinality(Gaps(A) \intersect 1 .. k) \in Nat
        /\ Cardinality(Gaps(A - 1)' \intersect 1 .. k) <= Cardinality(Gaps(A) \intersect 1 .. k)
    BY <2>3, PartIsSmaller
  <2> QED
    BY <2>1, <2>2, <2>4
<1>10. A - 1 \in 0 .. A => Len(Content(files'[0])) = FileLimit
  <2> SUFFICES ASSUME A - 1 \in 0 .. A PROVE Len(Content(files'[0])) = FileLimit
    OBVIOUS
  <2>1. files'[0] = files[0] /\ A \in 0 .. A
    BY <1>2, <1>3
  <2> QED
    BY <2>1 DEF FilesOK
<1>11. A - 1 = Creating => Content(files'[0]) = <<>>
  BY <1>2, <1>3 DEF Creating
<1>12. A - 1 \in 0 .. A - 1 => files'[(A - 1) + 1] = NoFile
  BY <1>2, <1>3
<1> QED
  BY <1>4, <1>5, <1>8, <1>9, <1>10, <1>11, <1>12 DEF FilesOK

\* An archive moves up by one, or the active file becomes the first.
LEMMA ArchiveMoves ==
    ASSUME AuditTypes, NEW k \in 0 .. Archives - 1, FilesOK(k), cut \in Nat, files' = rename(k),
           UNCHANGED <<recorded, cut>>
    PROVE  FilesOK(k - 1)'
<1> DEFINE A == Archives
<1>1. PICK E \in [0 .. A + 1 -> Nat] : Laid(E) /\ (E[A + 1] > 0 => Cardinality(Gaps(k)) <= cut)
  BY DEF FilesOK
<1>2. /\ A \in Nat /\ files \in [0 .. A -> Seq(Nat)] /\ Len(Content(NoFile)) = 0 /\ Content(NoFile) = <<>>
      /\ k \in 0 .. A /\ k + 1 \in 1 .. A /\ k + 2 \in 1 .. A + 1 /\ FileLimit \in Nat \ {0} /\ k \in Nat
  BY FilesAre
<1>3. files[k + 1] = NoFile /\ Len(Content(files[0])) = FileLimit
  BY <1>2 DEF FilesOK
<1>4. CASE files[k] = NoFile
  <2>1. k # 0 /\ k \in 1 .. A
    <3>1. ASSUME k = 0 PROVE FALSE
      BY <1>2, <1>3, <1>4, <3>1
    <3> QED
      BY <1>2, <3>1
  <2>2. UNCHANGED <<files, recorded, cut>>
    BY <1>4 DEF rename
  <2>3. Gaps(k - 1)' = (Gaps(k) \ {k}) \union {k + 1} /\ k \in Gaps(k) /\ IsFiniteSet(Gaps(k))
    <3>1. \A m : m \in Gaps(k - 1)' <=> m \in 1 .. A /\ files[m] = NoFile /\ m # k
      BY <1>2, <2>2 DEF Gaps
    <3>2. \A m : m \in Gaps(k) <=> m \in 1 .. A /\ files[m] = NoFile /\ m # k + 1
      BY DEF Gaps
    <3>3. k # k + 1
      BY <1>2
    <3> QED
      BY <1>2, <1>3, <1>4, <2>1, <3>1, <3>2, <3>3, GapsAreFinite, Zenon
  <2>4. Laid(E)'
    BY <1>1, <2>2 DEF Laid
  <2>5. E[A + 1] > 0 => Cardinality(Gaps(k - 1)') <= cut'
    <3>1. /\ Cardinality(Gaps(k - 1)') \in Nat /\ Cardinality(Gaps(k)) \in Nat
          /\ Cardinality(Gaps(k - 1)') <= Cardinality(Gaps(k))
      BY <2>3, OneForAnother
    <3> QED
      BY <1>1, <2>2, <3>1
  <2>6. ASSUME NEW m \in 1 .. A, files'[m] # NoFile
        PROVE  Len(files'[m]) = FileLimit /\ Cardinality(Gaps(k - 1)' \intersect 1 .. m) <= cut'
    <3> DEFINE S == Gaps(k - 1)' \intersect 1 .. m
               T == Gaps(k) \intersect 1 .. m
    <3>1. Len(files'[m]) = FileLimit /\ Cardinality(T) <= cut /\ IsFiniteSet(T)
      <4>1. IsFiniteSet(T)
        BY <2>3, FS_Subset
      <4> QED
        BY <2>2, <2>6, <4>1 DEF FilesOK
    <3>2. m # k /\ m # k + 1
      BY <1>3, <1>4, <2>2, <2>6
    <3>3. Cardinality(S) \in Nat /\ Cardinality(T) \in Nat /\ Cardinality(S) <= Cardinality(T)
      <4>1. CASE m < k
        <5>1. S \in SUBSET T
          BY <1>2, <2>3, <4>1
        <5> QED
          BY <3>1, <5>1, PartIsSmaller
      <4>2. CASE ~(m < k)
        <5>1. S \in SUBSET ((T \ {k}) \union {k + 1}) /\ k \in T
          BY <1>2, <2>1, <2>3, <3>2, <4>2
        <5> HIDE DEF S, T
        <5> QED
          BY <3>1, <5>1, OneForAnother
      <4> QED
        BY <4>1, <4>2
    <3> HIDE DEF S, T
    <3>4. Cardinality(S) <= cut'
      BY <2>2, <3>1, <3>3
    <3> QED
      BY <3>1, <3>4 DEF S
  <2>7. /\ Len(Content(files'[0])) = FileLimit /\ k - 1 # Creating
        /\ files'[(k - 1) + 1] = NoFile
    BY <1>2, <1>3, <1>4, <2>1, <2>2 DEF Creating
  <2> QED
    BY <2>4, <2>5, <2>6, <2>7 DEF FilesOK
<1>5. CASE files[k] # NoFile
  <2>1. files' = [files EXCEPT ![k + 1] = files[k], ![k] = NoFile]
    BY <1>5 DEF rename
  <2>2. \A m \in 0 .. A : files'[m] = IF m = k THEN NoFile ELSE IF m = k + 1 THEN files[k] ELSE files[m]
    BY <1>2, <2>1
  <2> DEFINE F == [E EXCEPT ![k + 1] = E[k]]
  <2>3. F \in [0 .. A + 1 -> Nat] /\ \A m \in 0 .. A + 1 : F[m] = IF m = k + 1 THEN E[k] ELSE E[m]
    BY <1>2
  <2> HIDE DEF F
  <2>4. E[k + 1] = E[k + 2] /\ E[k] = E[k + 1] + Len(Content(files[k]))
    <3>1. E[k + 1] = E[(k + 1) + 1] + Len(Content(files[k + 1])) /\ (k + 1) + 1 = k + 2
      BY <1>1, <1>2 DEF Laid
    <3>2. E[k + 2] \in Nat
      BY <1>2
    <3> QED
      BY <1>1, <1>2, <1>3, <3>1, <3>2 DEF Laid
  <2>5. Laid(F)'
    <3>1. F[0] = recorded'
      BY <1>1, <1>2, <2>3 DEF Laid
    <3>2. ASSUME NEW m \in 0 .. A
          PROVE  /\ F[m] = F[m + 1] + Len(Content(files'[m]))
                 /\ \A i \in 1 .. Len(Content(files'[m])) : Content(files'[m])[i] = F[m + 1] + i
      <4>1. CASE m = k
        <5>1. F[m] = E[k] /\ F[m + 1] = E[k] /\ E[k] \in Nat /\ Content(files'[m]) = <<>>
          BY <1>2, <2>2, <2>3, <4>1
        <5> QED
          BY <5>1
      <4>2. CASE m = k + 1
        <5>1. /\ F[m] = E[k] /\ F[m + 1] = E[k + 1] /\ Content(files'[m]) = Content(files[k])
          BY <1>2, <2>2, <2>3, <2>4, <4>2
        <5>2. \A i \in 1 .. Len(Content(files[k])) : Content(files[k])[i] = E[k + 1] + i
          BY <1>1, <1>2 DEF Laid
        <5>3. F[m] = F[m + 1] + Len(Content(files'[m]))
          BY <2>4, <5>1
        <5>4. \A i \in 1 .. Len(Content(files'[m])) : Content(files'[m])[i] = F[m + 1] + i
          BY <5>1, <5>2, Zenon
        <5> QED
          BY <5>3, <5>4
      <4>3. CASE m # k /\ m # k + 1
        <5>0. m \in 0 .. A + 1 /\ m + 1 \in 0 .. A + 1 /\ m + 1 # k + 1
          BY <1>2, <4>3
        <5>1. F[m] = E[m] /\ F[m + 1] = E[m + 1] /\ files'[m] = files[m]
          BY <2>2, <2>3, <4>3, <5>0
        <5> QED
          BY <1>1, <5>1 DEF Laid
      <4> QED
        BY <4>1, <4>2, <4>3
    <3> QED
      BY <3>1, <3>2 DEF Laid
  <2>6. \A m \in Gaps(k - 1)' : m \in Gaps(k) /\ m # k + 1
    BY <1>2, <1>5, <2>2 DEF Gaps
  <2>7. F[A + 1] > 0 => Cardinality(Gaps(k - 1)') <= cut'
    <3>1. F[A + 1] = E[A + 1]
      BY <1>2, <2>3
    <3>2. /\ Cardinality(Gaps(k - 1)') <= Cardinality(Gaps(k)) /\ Cardinality(Gaps(k - 1)') \in Nat
          /\ Cardinality(Gaps(k)) \in Nat
      BY <2>6, GapsAreFinite, PartIsSmaller
    <3> QED
      BY <1>1, <3>1, <3>2
  <2>8. ASSUME NEW m \in 1 .. A, files'[m] # NoFile
        PROVE  Len(files'[m]) = FileLimit /\ Cardinality(Gaps(k - 1)' \intersect 1 .. m) <= cut'
    <3> DEFINE S == Gaps(k - 1)' \intersect 1 .. m
    <3>1. m # k
      BY <1>2, <2>2, <2>8
    <3>2. CASE m = k + 1
      <4>1. files'[m] = files[k]
        BY <1>2, <2>2, <3>1, <3>2
      <4>2. CASE k = 0
        <5>1. S = {}
          BY <1>2, <2>6, <3>2, <4>2
        <5>2. Cardinality(S) = 0
          BY <5>1, FS_EmptySet, Zenon
        <5>3. Len(files[k]) = FileLimit
          BY <1>2, <1>3, <1>5, <4>2, FilesAre
        <5> HIDE DEF S
        <5>4. Cardinality(S) \in Nat /\ Cardinality(S) <= cut
          BY <5>2
        <5>5. Len(files'[m]) = FileLimit
          BY <4>1, <5>3, Zenon
        <5> QED
          BY <5>4, <5>5 DEF S
      <4>3. CASE k # 0
        <5>0. k \in 1 .. A
          BY <1>2, <4>3
        <5>1. Len(files[k]) = FileLimit /\ Cardinality(Gaps(k) \intersect 1 .. k) <= cut
          BY <1>5, <5>0, Zenon DEF FilesOK
        <5>2. S \in SUBSET (Gaps(k) \intersect 1 .. k)
          BY <1>2, <2>6, <3>2
        <5>3. IsFiniteSet(Gaps(k) \intersect 1 .. k)
          BY GapsAreFinite, FS_Subset
        <5> HIDE DEF S
        <5>4. /\ Cardinality(S) \in Nat /\ Cardinality(Gaps(k) \intersect 1 .. k) \in Nat
              /\ Cardinality(S) <= Cardinality(Gaps(k) \intersect 1 .. k)
          BY <5>2, <5>3, PartIsSmaller
        <5> QED
          BY <4>1, <5>1, <5>4 DEF S
      <4> QED
        BY <4>2, <4>3
    <3>3. CASE m # k + 1
      <4>1. files'[m] = files[m]
        BY <1>2, <2>2, <3>1, <3>3
      <4>2. Len(files[m]) = FileLimit /\ Cardinality(Gaps(k) \intersect 1 .. m) <= cut
        BY <2>8, <4>1 DEF FilesOK
      <4>3. S \in SUBSET (Gaps(k) \intersect 1 .. m)
        BY <2>6
      <4>4. IsFiniteSet(Gaps(k) \intersect 1 .. m)
        BY GapsAreFinite, FS_Subset
      <4> HIDE DEF S
      <4>5. /\ Cardinality(S) \in Nat /\ Cardinality(Gaps(k) \intersect 1 .. m) \in Nat
            /\ Cardinality(S) <= Cardinality(Gaps(k) \intersect 1 .. m)
        BY <4>3, <4>4, PartIsSmaller
      <4> QED
        BY <4>1, <4>2, <4>5 DEF S
    <3> QED
      BY <3>2, <3>3
  <2>9. k - 1 \in 0 .. A => Len(Content(files'[0])) = FileLimit
    BY <1>2, <1>3, <2>2
  <2>10. k - 1 = Creating => Content(files'[0]) = <<>>
    BY <1>2, <2>2 DEF Creating
  <2>11. files'[(k - 1) + 1] = NoFile
    BY <1>2, <2>2
  <2> QED
    BY <2>3, <2>5, <2>7, <2>8, <2>9, <2>10, <2>11 DEF FilesOK
<1> QED
  BY <1>4, <1>5

\* A record is appended, to the active file or to the one a rotation made room for.
LEMMA RecordIsAppended ==
    ASSUME AuditTypes, NEW r \in {Creating, Idle}, FilesOK(r), cut \in Nat,
           files' = [files EXCEPT ![0] =
                       Append(IF r = Creating THEN <<>> ELSE Content(@), recorded + 1)],
           recorded' = recorded + 1, UNCHANGED cut
    PROVE  FilesOK(Idle)'
<1> DEFINE A == Archives
           old == Content(files[0])
           new == Append(old, recorded + 1)
<1>1. PICK E \in [0 .. A + 1 -> Nat] : Laid(E) /\ (E[A + 1] > 0 => Cardinality(Gaps(r)) <= cut)
  BY DEF FilesOK
<1>2. /\ A \in Nat /\ files \in [0 .. A -> Seq(Nat)] /\ recorded \in Nat /\ old \in Seq(Nat)
      /\ 0 \in 0 .. A
  BY FilesAre
<1>3. files' = [files EXCEPT ![0] = new]
  BY <1>2 DEF FilesOK
<1>4. /\ new \in Seq(Nat) /\ Len(new) = Len(old) + 1 /\ Len(old) \in Nat
      /\ \A i \in 1 .. Len(old) : new[i] = old[i]
      /\ new[Len(old) + 1] = recorded + 1
  BY <1>2
<1> HIDE DEF new, old
<1>5. Content(new) = new
  <2>1. ASSUME new = NoFile PROVE FALSE
    <3>1. Len(new) = 1 /\ new[1] = 0
      BY <2>1 DEF NoFile
    <3>2. Len(old) + 1 = 1
      BY <1>4, <3>1
    <3>3. new[1] = recorded + 1
      BY <1>4, <3>2, Zenon
    <3> QED
      BY <1>2, <3>1, <3>3
  <2> QED
    BY <2>1 DEF Content
<1>6. files'[0] = new /\ \A k \in 1 .. A : files'[k] = files[k] /\ k \in 0 .. A
  BY <1>2, <1>3
<1>7. PICK F \in [0 .. A + 1 -> Nat] :
        F[0] = recorded + 1 /\ \A k \in 1 .. A + 1 : F[k] = E[k] /\ E[k] \in Nat
  <2> DEFINE F == [E EXCEPT ![0] = recorded + 1]
  <2>1. F \in [0 .. A + 1 -> Nat] /\ F[0] = recorded + 1
        /\ \A k \in 1 .. A + 1 : F[k] = E[k] /\ E[k] \in Nat
    BY <1>2
  <2> QED
    BY <2>1
<1>8. E[0] = recorded /\ E[0] = E[1] + Len(old) /\ \A i \in 1 .. Len(old) : old[i] = E[1] + i
  BY <1>1, <1>2 DEF Laid, old
<1>9. Laid(F)'
  <2>1. ASSUME NEW k \in 0 .. A
        PROVE  /\ F[k] = F[k + 1] + Len(Content(files'[k]))
               /\ \A i \in 1 .. Len(Content(files'[k])) : Content(files'[k])[i] = F[k + 1] + i
    <3>1. CASE k = 0
      <4>0. 1 \in 1 .. A + 1 /\ k + 1 = 1
        BY <1>2, <3>1
      <4>1. F[k] = recorded + 1 /\ F[k + 1] = E[1] /\ Content(files'[k]) = new /\ E[1] \in Nat
        BY <1>5, <1>6, <1>7, <3>1, <4>0, Zenon
      <4>2. recorded + 1 = E[1] + Len(new)
        BY <1>2, <1>4, <1>8, <4>1
      <4>3. ASSUME NEW i \in 1 .. Len(new) PROVE new[i] = E[1] + i
        <5>1. CASE i = Len(old) + 1
          BY <1>4, <4>2, <5>1
        <5>2. CASE i # Len(old) + 1
          <6>1. i \in 1 .. Len(old)
            BY <1>4, <5>2
          <6> QED
            BY <1>4, <1>8, <6>1
        <5> QED
          BY <5>1, <5>2
      <4>4. F[k] = F[k + 1] + Len(Content(files'[k]))
        BY <4>1, <4>2
      <4>5. \A i \in 1 .. Len(Content(files'[k])) : Content(files'[k])[i] = F[k + 1] + i
        BY <4>1, <4>3, Zenon
      <4> QED
        BY <4>4, <4>5
    <3>2. CASE k # 0
      <4>1. k \in 1 .. A /\ k \in 1 .. A + 1 /\ k + 1 \in 1 .. A + 1
        BY <1>2, <3>2
      <4>2. files'[k] = files[k] /\ F[k] = E[k] /\ F[k + 1] = E[k + 1]
        BY <1>6, <1>7, <4>1
      <4> QED
        BY <1>1, <4>2 DEF Laid
    <3> QED
      BY <3>1, <3>2
  <2>2. F[0] = recorded'
    BY <1>7
  <2> QED
    BY <2>1, <2>2 DEF Laid
<1>10. Gaps(Idle)' \in SUBSET Gaps(r)
  <2> SUFFICES ASSUME NEW k \in Gaps(Idle)' PROVE k \in Gaps(r)
    OBVIOUS
  <2>1. k \in 1 .. A /\ files'[k] = NoFile
    BY DEF Gaps
  <2>2. k # r + 1
    <3>1. r + 1 \in {0, A + 2} /\ A \in Nat
      BY <1>2 DEF Idle, Creating
    <3> HIDE DEF A
    <3> QED
      BY <2>1, <3>1
  <2>3. files[k] = NoFile
    BY <1>6, <2>1
  <2> QED
    BY <2>1, <2>2, <2>3 DEF Gaps
<1>11. F[A + 1] > 0 => Cardinality(Gaps(Idle)') <= cut'
  <2>1. F[A + 1] = E[A + 1]
    BY <1>2, <1>7
  <2>2. /\ Cardinality(Gaps(Idle)') \in Nat /\ Cardinality(Gaps(r)) \in Nat
        /\ Cardinality(Gaps(Idle)') <= Cardinality(Gaps(r))
    BY <1>10, GapsAreFinite, PartIsSmaller
  <2> QED
    BY <1>1, <2>1, <2>2
<1>12. ASSUME NEW k \in 1 .. A, files'[k] # NoFile
       PROVE  Len(files'[k]) = FileLimit /\ Cardinality(Gaps(Idle)' \intersect 1 .. k) <= cut'
  <2>1. files'[k] = files[k] /\ Len(files[k]) = FileLimit /\ Cardinality(Gaps(r) \intersect 1 .. k) <= cut
    BY <1>6, <1>12 DEF FilesOK
  <2> DEFINE S == Gaps(Idle)' \intersect 1 .. k
             T == Gaps(r) \intersect 1 .. k
  <2>2. S \in SUBSET T /\ IsFiniteSet(T)
    BY <1>10, GapsAreFinite, FS_Subset
  <2>3. Cardinality(T) <= cut
    BY <2>1
  <2> HIDE DEF S, T
  <2>4. Cardinality(S) \in Nat /\ Cardinality(T) \in Nat /\ Cardinality(S) <= Cardinality(T)
    BY <2>2, PartIsSmaller
  <2>5. Cardinality(S) <= cut'
    BY <2>3, <2>4
  <2> QED
    BY <2>1, <2>5 DEF S
<1>13. Idle \notin 0 .. A /\ Idle # Creating /\ Idle \notin 0 .. A - 1
  BY <1>2 DEF Idle, Creating
<1> QED
  BY <1>7, <1>9, <1>11, <1>12, <1>13 DEF FilesOK

\* A rotation is cut short: at most one archive more is missing.
LEMMA RotationIsCut ==
    ASSUME AuditTypes, NEW r \in Creating .. Archives, FilesOK(r), cut \in Nat,
           UNCHANGED <<files, recorded>>, cut' = cut + 1
    PROVE  FilesOK(Idle)'
<1>1. PICK E \in [0 .. Archives + 1 -> Nat] :
        Laid(E) /\ (E[Archives + 1] > 0 => Cardinality(Gaps(r)) <= cut)
  BY DEF FilesOK
<1>2. Archives \in Nat
  BY FilesAre
<1>3. \A k \in Gaps(Idle)' : k \in Gaps(r) \/ k = r + 1
  BY DEF Gaps
<1>4. Laid(E)'
  BY <1>1 DEF Laid
<1>5. E[Archives + 1] > 0 => Cardinality(Gaps(Idle)') <= cut'
  <2>1. Gaps(Idle)' \in SUBSET (Gaps(r) \union {r + 1}) /\ IsFiniteSet(Gaps(r))
        /\ Cardinality(Gaps(r)) \in Nat
    BY <1>3, GapsAreFinite
  <2>2. Cardinality(Gaps(Idle)') \in Nat /\ Cardinality(Gaps(Idle)') <= Cardinality(Gaps(r)) + 1
    BY <2>1, OneMore
  <2> QED
    BY <1>1, <2>1, <2>2
<1>6. ASSUME NEW k \in 1 .. Archives, files'[k] # NoFile
      PROVE  Len(files'[k]) = FileLimit /\ Cardinality(Gaps(Idle)' \intersect 1 .. k) <= cut'
  <2>1. files'[k] = files[k] /\ Len(files[k]) = FileLimit /\ Cardinality(Gaps(r) \intersect 1 .. k) <= cut
    BY <1>6 DEF FilesOK
  <2> DEFINE S == Gaps(Idle)' \intersect 1 .. k
             T == Gaps(r) \intersect 1 .. k
  <2>2. S \in SUBSET (T \union {r + 1}) /\ IsFiniteSet(T)
    BY <1>3, GapsAreFinite, FS_Subset
  <2>3. Cardinality(T) <= cut
    BY <2>1
  <2> HIDE DEF S, T
  <2>4. Cardinality(S) \in Nat /\ Cardinality(T) \in Nat /\ Cardinality(S) <= Cardinality(T) + 1
    BY <2>2, OneMore, FS_CardinalityType
  <2>5. Cardinality(S) <= cut'
    BY <2>3, <2>4
  <2> QED
    BY <2>1, <2>5 DEF S
<1>7. Idle \notin 0 .. Archives /\ Idle # Creating /\ Idle \notin 0 .. Archives - 1
  BY <1>2 DEF Idle, Creating
<1> QED
  BY <1>4, <1>5, <1>6, <1>7 DEF FilesOK

(***************************************************************************)
(* The files are laid out for the one rotation there is, or for none; who  *)
(* rotates is past the probes, so two rotate only when two got past them.  *)
(***************************************************************************)
AuditInv ==
    /\ cut \in Nat
    /\ \A d \in Daemons : rotating[d] # Idle => PastProbe(d)
    /\ alone =>
        /\ (\A d \in Daemons : rotating[d] = Idle) => FilesOK(Idle)
        /\ \A r \in Creating .. Archives : \A d \in Daemons : rotating[d] = r => FilesOK(r)

\* At the start there is no file and no record.
LEMMA AuditBegins ==
    ASSUME Init
    PROVE  ThreadInv /\ AuditInv
<1>1. ThreadInv
  <2>1. DOMAIN todo = Threads /\ \A t \in Threads : todo[t] = <<>>
    BY DEF Init
  <2>2. \A c \in Conns : conn[c].at = "new" /\ c \in Threads
    BY DEF Init, Threads
  <2>3. Daemons \subseteq Threads
    BY DEF Threads
  <2> QED
    BY <2>1, <2>2, <2>3 DEF ThreadInv, Held
<1>2. /\ files = [k \in 0 .. Archives |-> NoFile] /\ recorded = 0 /\ cut = 0
      /\ rotating = [d \in Daemons |-> Idle] /\ Archives \in Nat
  BY AuditSizes DEF Init
<1>3. FilesOK(Idle)
  <2> DEFINE E == [k \in 0 .. Archives + 1 |-> 0]
  <2>1. E \in [0 .. Archives + 1 -> Nat] /\ \A k \in 0 .. Archives + 1 : E[k] = 0
    OBVIOUS
  <2>2. \A k \in 0 .. Archives : Content(files[k]) = <<>> /\ files[k] = NoFile
    BY <1>2 DEF Content
  <2> HIDE DEF E
  <2>3. Laid(E)
    <3>1. ASSUME NEW k \in 0 .. Archives
          PROVE  /\ E[k] = E[k + 1] + Len(Content(files[k]))
                 /\ \A i \in 1 .. Len(Content(files[k])) : Content(files[k])[i] = E[k + 1] + i
      <4>1. E[k] = 0 /\ E[k + 1] = 0 /\ Content(files[k]) = <<>>
        BY <1>2, <2>1, <2>2
      <4> QED
        BY <4>1
    <3>2. E[0] = recorded
      BY <1>2, <2>1
    <3> QED
      BY <3>1, <3>2 DEF Laid
  <2>4. ~(E[Archives + 1] > 0)
    BY <1>2, <2>1
  <2>5. \A k \in 1 .. Archives : files[k] = NoFile
    BY <1>2
  <2>6. Idle \notin 0 .. Archives /\ Idle # Creating /\ Idle \notin 0 .. Archives - 1
    BY <1>2 DEF Idle, Creating
  <2> QED
    BY <2>1, <2>3, <2>4, <2>5, <2>6 DEF FilesOK
<1>4. \A r \in Creating .. Archives : \A d \in Daemons : rotating[d] # r
  BY <1>2 DEF Idle, Creating
<1> QED
  BY <1>1, <1>2, <1>3, <1>4 DEF AuditInv

\* The files of a daemon that is past the probes alone wait for its next step.
LEMMA OneRotation ==
    ASSUME ServerInv, AuditInv, alone, NEW d \in Daemons, PastProbe(d)
    PROVE  /\ \A e \in Daemons \ {d} : rotating[e] = Idle
           /\ \E r \in Creating .. Idle : rotating[d] = r /\ FilesOK(r)
<1>1. \A e \in Daemons \ {d} : rotating[e] = Idle
  <2>1. \A e \in Daemons : PastProbe(e) => d = e
    BY DEF ServerInv, StoreInv
  <2> QED
    BY <2>1 DEF AuditInv
<1>2. rotating[d] \in Creating .. Idle /\ Idle \in Creating .. Idle
  BY AuditSizes DEF ServerInv, AuditTypes, Idle, Creating
<1>3. CASE rotating[d] = Idle
  BY <1>1, <1>2, <1>3 DEF AuditInv
<1>4. CASE rotating[d] # Idle
  <2>1. PICK r \in Creating .. Idle : rotating[d] = r
    BY <1>2
  <2>2. r \in Creating .. Archives
    BY <1>4, <2>1, AuditSizes DEF Idle, Creating
  <2>3. FilesOK(r)
    BY <2>1, <2>2, Zenon DEF AuditInv
  <2> QED
    BY <1>1, <2>1, <2>3
<1> QED
  BY <1>1, <1>3, <1>4

\* Steps that do not touch the audit files.
LEMMA FilesFrame ==
    ASSUME UNCHANGED <<files, recorded, cut>>, NEW r, FilesOK(r)
    PROVE  FilesOK(r)'
  BY DEF FilesOK, Laid, Gaps

LEMMA AuditFrame ==
    ASSUME AuditInv, UNCHANGED auditVars, alone' => alone,
           \A d \in Daemons : rotating[d] # Idle => PastProbe(d)'
    PROVE  AuditInv'
<1>1. UNCHANGED <<files, recorded, rotating, cut>>
  BY DEF auditVars
<1>2. \A r : FilesOK(r) => FilesOK(r)'
  BY <1>1, FilesFrame
<1>3. ASSUME alone', \A d \in Daemons : rotating'[d] = Idle PROVE FilesOK(Idle)'
  BY <1>1, <1>3, FilesFrame DEF AuditInv
<1>4. ASSUME alone', NEW r \in Creating .. Archives, NEW d \in Daemons, rotating'[d] = r
      PROVE  FilesOK(r)'
  BY <1>1, <1>2, <1>4 DEF AuditInv
<1> QED
  BY <1>1, <1>3, <1>4 DEF AuditInv

\* A daemon's next step in a rotation.
LEMMA RotatorKeeps ==
    ASSUME ServerInv, AuditInv, NEW d \in Daemons, PastProbe(d), NEW x \in Creating .. Idle,
           rotating' = [rotating EXCEPT ![d] = x], x # Idle => PastProbe(d)',
           alone' => alone, alone => FilesOK(x)', cut' \in Nat,
           \A e \in Daemons \ {d} : PastProbe(e) => PastProbe(e)'
    PROVE  AuditInv'
<1>1. /\ rotating \in [Daemons -> Creating .. Idle] /\ rotating'[d] = x
      /\ \A e \in Daemons \ {d} : rotating'[e] = rotating[e]
  BY DEF ServerInv, AuditTypes
<1>2. \A e \in Daemons : rotating'[e] # Idle => PastProbe(e)'
  BY <1>1 DEF AuditInv
<1>3. ASSUME alone' PROVE \A e \in Daemons \ {d} : rotating'[e] = Idle
  BY <1>1, <1>3, OneRotation
<1>4. ASSUME alone', \A e \in Daemons : rotating'[e] = Idle PROVE FilesOK(Idle)'
  <2>1. x = Idle
    BY <1>1, <1>4
  <2> QED
    BY <1>4, <2>1
<1>5. ASSUME alone', NEW r \in Creating .. Archives, NEW e \in Daemons, rotating'[e] = r
      PROVE  FilesOK(r)'
  <2>1. r # Idle
    BY AuditSizes DEF Idle, Creating
  <2>2. e = d /\ x = r
    BY <1>1, <1>3, <1>5, <2>1
  <2> QED
    BY <1>5, <2>2
<1> QED
  BY <1>2, <1>4, <1>5 DEF AuditInv

\* A thread's daemon is past the probes while the thread has work.
LEMMA WorkIsPast ==
    ASSUME ServerInv, ThreadInv, NEW t \in Threads, todo[t] # <<>>
    PROVE  Process(t) \in Daemons /\ PastProbe(Process(t))
<1>1. CASE t \in Conns
  <2>1. conn[t].at \in Held
    BY <1>1 DEF ThreadInv, Held
  <2> QED
    BY <1>1, <2>1, HeldByDaemon DEF ThreadInv, Process
<1>2. CASE t \notin Conns
  BY <1>2 DEF ThreadInv, Process, Threads
<1> QED
  BY <1>1, <1>2

\* One step of rotate_if_needed or of the append that follows it.
LEMMA RecordStepIs ==
    ASSUME ServerInv, AuditInv, alone, NEW d \in Daemons, PastProbe(d),
           rotate_if_needed(d) \/ append(d)
    PROVE  /\ cut' = cut
           /\ \E x \in Creating .. Idle : rotating' = [rotating EXCEPT ![d] = x] /\ FilesOK(x)'
<1>1. AuditTypes /\ cut \in Nat /\ Archives \in Nat
  BY AuditSizes DEF ServerInv, AuditInv
<1>2. PICK r \in Creating .. Idle : rotating[d] = r /\ FilesOK(r)
  BY OneRotation
<1>3. CASE rotating[d] = Idle /\ rotation_needed /\ rotating' = [rotating EXCEPT ![d] = Archives]
           /\ UNCHANGED <<files, recorded, cut>>
  <2>1. FilesOK(Idle)
    BY <1>2, <1>3
  <2>2. FilesOK(Archives)'
    BY <1>1, <1>3, <2>1, RotationBegins
  <2>3. Archives \in Creating .. Idle
    BY <1>1 DEF Creating, Idle
  <2> QED
    BY <1>3, <2>2, <2>3
<1>4. CASE /\ r \in 0 .. Archives
           /\ files' = archive_path(r)
           /\ rotating' = [rotating EXCEPT ![d] = r - 1]
           /\ UNCHANGED <<recorded, cut>>
  <2>1. r - 1 \in Creating .. Idle
    BY <1>1, <1>4 DEF Creating, Idle
  <2>2. CASE r = Archives
    <3>1. files' = remove_oldest /\ FilesOK(Archives)
      BY <1>2, <1>4, <2>2 DEF archive_path
    <3>2. FilesOK(Archives - 1)'
      BY <1>1, <1>4, <3>1, OldestGoes
    <3> QED
      BY <1>4, <2>1, <2>2, <3>2
  <2>3. CASE r # Archives
    <3>1. files' = rename(r) /\ r \in 0 .. Archives - 1
      BY <1>1, <1>4, <2>3 DEF archive_path
    <3>2. FilesOK(r - 1)'
      BY <1>1, <1>2, <1>4, <3>1, ArchiveMoves
    <3> QED
      BY <1>4, <2>1, <3>2
  <2> QED
    BY <2>2, <2>3
<1>5. CASE append(d)
  <2>1. r \in {Creating, Idle}
    BY <1>2, <1>5 DEF append
  <2>2. /\ files' = [files EXCEPT ![0] =
                       Append(IF r = Creating THEN <<>> ELSE Content(@), recorded + 1)]
        /\ recorded' = recorded + 1 /\ cut' = cut /\ rotating' = [rotating EXCEPT ![d] = Idle]
    BY <1>2, <1>5 DEF append
  <2>3. FilesOK(Idle)'
    BY <1>1, <1>2, <2>1, <2>2, RecordIsAppended
  <2>4. Idle \in Creating .. Idle
    BY <1>1 DEF Creating, Idle
  <2> QED
    BY <2>2, <2>3, <2>4
<1>6. CASE rotate_if_needed(d)
  <2>1. \/ /\ rotating[d] = Idle /\ rotation_needed
           /\ rotating' = [rotating EXCEPT ![d] = Archives] /\ UNCHANGED <<files, recorded, cut>>
        \/ /\ rotating[d] \in 0 .. Archives /\ files' = archive_path(rotating[d])
           /\ rotating' = [rotating EXCEPT ![d] = @ - 1] /\ UNCHANGED <<recorded, cut>>
    BY <1>6 DEF rotate_if_needed
  <2>2. [rotating EXCEPT ![d] = @ - 1] = [rotating EXCEPT ![d] = r - 1]
    BY <1>2
  <2> QED
    BY <1>2, <1>3, <1>4, <2>1, <2>2
<1> QED
  BY <1>5, <1>6

\* A rotation that is given up is counted.
LEMMA AbandonKeeps ==
    ASSUME ServerInv, AuditInv, NEW d \in Daemons, abandon_rotation(d),
           UNCHANGED <<files, recorded>>, alone' => alone,
           \A e \in Daemons \ {d} : PastProbe(e) => PastProbe(e)'
    PROVE  AuditInv'
<1>1. /\ AuditTypes /\ cut \in Nat /\ Archives \in Nat /\ rotating \in [Daemons -> Creating .. Idle]
      /\ rotating' = [rotating EXCEPT ![d] = Idle]
      /\ cut' = IF rotating[d] = Idle THEN cut ELSE cut + 1
  BY AuditSizes DEF ServerInv, AuditTypes, AuditInv, abandon_rotation
<1>2. CASE rotating[d] = Idle
  <2>1. rotating' = rotating /\ cut' = cut
    BY <1>1, <1>2
  <2>2. \A e \in Daemons : rotating[e] # Idle => PastProbe(e)'
    BY <1>2 DEF AuditInv
  <2> QED
    BY <2>1, <2>2, AuditFrame DEF auditVars
<1>3. CASE rotating[d] # Idle
  <2>1. PastProbe(d)
    BY <1>3 DEF AuditInv
  <2>2. cut' = cut + 1 /\ cut' \in Nat
    BY <1>1, <1>3
  <2>3. ASSUME alone PROVE FilesOK(Idle)'
    <3>1. PICK r \in Creating .. Idle : rotating[d] = r /\ FilesOK(r)
      BY <2>1, <2>3, OneRotation
    <3>2. r \in Creating .. Archives
      BY <1>1, <1>3, <3>1 DEF Creating, Idle
    <3> QED
      BY <1>1, <2>2, <3>1, <3>2, RotationIsCut
  <2>4. Idle \in Creating .. Idle
    BY <1>1 DEF Creating, Idle
  <2> QED
    BY <1>1, <2>1, <2>2, <2>3, <2>4, RotatorKeeps
<1> QED
  BY <1>2, <1>3

\* A start opens the active file, and creates it when it is missing.
LEMMA OpeningKeeps ==
    ASSUME ServerInv, AuditInv, Onward, NEW d \in Daemons, open_audit(d)
    PROVE  AuditInv'
<1>1. /\ files' = [files EXCEPT ![0] = Content(@)] /\ UNCHANGED <<recorded, rotating, cut>>
      /\ AuditTypes /\ Archives \in Nat
  BY AuditSizes DEF open_audit, open_with_limits, ServerInv
<1>2. \A k \in 0 .. Archives : Content(files'[k]) = Content(files[k])
  <2>1. Content(Content(files[0])) = Content(files[0])
    <3>1. Len(<<>>) = 0 /\ Len(NoFile) = 1
      BY DEF NoFile
    <3>2. <<>> # NoFile
      BY <3>1
    <3> QED
      BY <3>2 DEF Content
  <2> QED
    BY <1>1, <2>1 DEF AuditTypes
<1>3. \A k \in 1 .. Archives : files'[k] = files[k]
  BY <1>1 DEF AuditTypes
<1>4. ASSUME NEW r \in Creating .. Idle, FilesOK(r) PROVE FilesOK(r)'
  <2>1. PICK E \in [0 .. Archives + 1 -> Nat] :
            Laid(E) /\ (E[Archives + 1] > 0 => Cardinality(Gaps(r)) <= cut)
    BY <1>4 DEF FilesOK
  <2>2. Gaps(r)' = Gaps(r)
    BY <1>3 DEF Gaps
  <2>3. Laid(E)'
    <3>1. ASSUME NEW k \in 0 .. Archives
          PROVE  /\ E[k] = E[k + 1] + Len(Content(files'[k]))
                 /\ \A i \in 1 .. Len(Content(files'[k])) : Content(files'[k])[i] = E[k + 1] + i
      <4>1. Content(files'[k]) = Content(files[k])
        BY <1>2
      <4>2. /\ E[k] = E[k + 1] + Len(Content(files[k]))
            /\ \A i \in 1 .. Len(Content(files[k])) : Content(files[k])[i] = E[k + 1] + i
        BY <2>1 DEF Laid
      <4> QED
        BY <4>1, <4>2
    <3>2. E[0] = recorded'
      BY <1>1, <2>1 DEF Laid
    <3> QED
      BY <3>1, <3>2 DEF Laid
  <2>4. E[Archives + 1] > 0 => Cardinality(Gaps(r)') <= cut'
    BY <1>1, <2>1, <2>2
  <2>5. \A k \in 1 .. Archives : files'[k] # NoFile =>
            Len(files'[k]) = FileLimit /\ Cardinality(Gaps(r)' \intersect 1 .. k) <= cut'
    BY <1>1, <1>3, <1>4, <2>2 DEF FilesOK
  <2>6. Len(Content(files'[0])) = Len(Content(files[0])) /\ (Content(files[0]) = <<>> => Content(files'[0]) = <<>>)
    BY <1>1, <1>2
  <2>7. r \in 0 .. Archives - 1 => files'[r + 1] = NoFile
    <3>1. r \in 0 .. Archives - 1 => r + 1 \in 1 .. Archives
      BY <1>1
    <3> QED
      BY <1>3, <1>4, <3>1 DEF FilesOK
  <2>8. /\ r \in 0 .. Archives => Len(Content(files'[0])) = FileLimit
        /\ r = Creating => Content(files'[0]) = <<>>
    BY <1>4, <2>6 DEF FilesOK
  <2> QED
    BY <2>1, <2>3, <2>4, <2>5, <2>7, <2>8 DEF FilesOK
<1>5. \A e \in Daemons : rotating'[e] = rotating[e] /\ (rotating[e] # Idle => PastProbe(e)')
  BY <1>1 DEF AuditInv, Onward
<1>6. Idle \in Creating .. Idle /\ Creating .. Archives \subseteq Creating .. Idle
  BY <1>1 DEF Idle, Creating
<1>7. ASSUME alone', \A e \in Daemons : rotating'[e] = Idle PROVE FilesOK(Idle)'
  <2>1. FilesOK(Idle)
    BY <1>5, <1>7 DEF AuditInv, Onward
  <2> QED
    BY <1>4, <1>6, <2>1
<1>8. ASSUME alone', NEW r \in Creating .. Archives, NEW e \in Daemons, rotating'[e] = r
      PROVE  FilesOK(r)'
  <2>1. FilesOK(r)
    BY <1>5, <1>8 DEF AuditInv, Onward
  <2> QED
    BY <1>4, <1>6, <2>1
<1> QED
  BY <1>1, <1>5, <1>7, <1>8 DEF AuditInv

\* Only records, opening and the end of a process touch the files.
LEMMA WhoTouchesFiles ==
    ASSUME Next
    PROVE  \/ UNCHANGED auditVars
           \/ \E d \in Daemons : open_audit(d) \/ \E un : Ended(d, un)
           \/ \E t \in Threads : record(t) \/ record_fails(t)
<1>1. ASSUME NEW d \in Daemons,
             \/ Start(d) \/ main_thread(d) \/ BindFails(d) \/ accept_fails(d) \/ signal(d) \/ crash(d)
      PROVE  UNCHANGED auditVars \/ open_audit(d) \/ \E un : Ended(d, un)
  <2>1. CASE \/ Start(d) \/ validate_config(d) \/ prepare_socket_path(d)
             \/ open_state(d) \/ reconcile(d) \/ bind_listener(d) \/ verify_socket_contract(d) \/ mark_ready(d)
    BY <2>1 DEF Start, validate_config, prepare_socket_path, symlink_metadata, probe, remove_stale,
                open_state, reconcile, bind_listener, verify_socket_contract, mark_ready
  <2>2. CASE \/ accept(d) \/ WouldBlock(d) \/ acquire_load(d) \/ acquire_cas(d)
             \/ reap_finished_workers(d) \/ join(d) \/ accept_fails(d) \/ signal(d)
    BY <2>2 DEF accept, WouldBlock, acquire_load, acquire_cas, reap_finished_workers, join, accept_fails, signal
  <2>3. CASE BindRefused(d) \/ BindFails(d)
    BY <2>3 DEF BindRefused, BindFails, EndsRemoving
  <2>4. CASE crash(d) \/ drop(d)
    BY <2>4 DEF crash, drop
  <2> QED
    BY <1>1, <2>1, <2>2, <2>3, <2>4 DEF main_thread
<1>2. ASSUME NEW t \in Threads, thread(t)
      PROVE  UNCHANGED auditVars \/ record(t)
  BY <1>2 DEF thread, lock_mutex, unlock_mutex, write_json_line, Closes, ConnectionPermit_drop
<1>3. ASSUME NEW c \in Conns,
             connect(c) \/ read_json_line(c) \/ follow(c) \/ read_ends(c) \/ write_fails(c)
      PROVE  UNCHANGED auditVars
  BY <1>3 DEF connect, read_json_line, follow, read_ends, write_fails, Closes
<1> QED
  BY <1>1, <1>2, <1>3 DEF Next

\* Every step keeps the audit files laid out.
LEMMA AuditStepsKeep ==
    ASSUME ServerInv, ThreadInv, AuditInv, Next
    PROVE  AuditInv'
<1>1. CASE \E d \in Daemons : \E un : Ended(d, un)
  <2>1. PICK d \in Daemons : \E un : Ended(d, un)
    BY <1>1
  <2>2. PICK un : Ended(d, un)
    BY <2>1
  <2>3. /\ abandon_rotation(d) /\ UNCHANGED <<files, recorded, alone>>
        /\ \A e \in Daemons \ {d} : main'[e] = main[e]
    BY <2>2 DEF Ended, ServerInv, ServerTypes
  <2>4. \A e \in Daemons \ {d} : PastProbe(e) => PastProbe(e)'
    BY <2>3 DEF PastProbe
  <2> QED
    BY <2>3, <2>4, AbandonKeeps
<1>2. CASE Onward
  <2>0. alone' => alone /\ \A d \in Daemons : PastProbe(d) => PastProbe(d)'
    BY <1>2 DEF Onward
  <2>1. CASE UNCHANGED auditVars
    <3>1. \A d \in Daemons : rotating[d] # Idle => PastProbe(d)'
      BY <1>2 DEF Onward, AuditInv
    <3>2. alone' => alone
      BY <1>2 DEF Onward
    <3> QED
      BY <2>1, <3>1, <3>2, AuditFrame
  <2>2. CASE \E d \in Daemons : open_audit(d)
    BY <1>2, <2>2, OpeningKeeps
  <2>3. ASSUME NEW t \in Threads, record(t) \/ record_fails(t)
        PROVE  AuditInv'
    <3>1. PICK d \in Daemons : d = Process(t) /\ PastProbe(d)
      <4>1. todo[t] # <<>>
        BY <2>3 DEF record, record_fails, Doing
      <4> QED
        BY <4>1, WorkIsPast
    <3>2. (\A e \in Daemons : PastProbe(e) => PastProbe(e)') /\ (alone' => alone)
      BY <1>2 DEF Onward
    <3>3. CASE record_fails(t)
      BY <3>1, <3>2, <3>3, AbandonKeeps DEF record_fails
    <3>4. CASE record(t)
      <4>1. rotate_if_needed(d) \/ append(d)
        BY <3>1, <3>4 DEF record
      <4>2. CASE alone
        <5>1. PICK x \in Creating .. Idle : rotating' = [rotating EXCEPT ![d] = x] /\ FilesOK(x)'
          BY <3>1, <4>1, <4>2, RecordStepIs
        <5>2. cut' \in Nat
          BY <3>1, <4>1, <4>2, RecordStepIs DEF AuditInv
        <5> QED
          BY <3>1, <3>2, <5>1, <5>2, RotatorKeeps
      <4>3. CASE ~alone
        <5>1. ~alone' /\ cut' \in Nat
          BY <3>2, <4>1, <4>3 DEF AuditInv, rotate_if_needed, append
        <5>2. \A e \in Daemons \ {d} : rotating'[e] = rotating[e]
          BY <4>1 DEF ServerInv, AuditTypes, rotate_if_needed, append
        <5>3. \A e \in Daemons : rotating'[e] # Idle => PastProbe(e)'
          BY <3>1, <3>2, <5>2 DEF AuditInv
        <5> QED
          BY <5>1, <5>3 DEF AuditInv
      <4> QED
        BY <4>2, <4>3
    <3> QED
      BY <2>3, <3>3, <3>4
  <2>4. CASE \E d \in Daemons : \E un : Ended(d, un)
    BY <1>1, <2>4
  <2> QED
    BY <2>1, <2>2, <2>3, <2>4, WhoTouchesFiles
<1> QED
  BY <1>1, <1>2, EndsOrGoesOn

\* Threads, files and everything the daemons share stay as the invariant says.
THEOREM FilesInvariant == ServerSpec => [](ServerInv /\ ThreadInv /\ AuditInv)
<1>1. Init => ServerInv /\ ThreadInv /\ AuditInv
  BY ServerInitHolds, AuditBegins
<1>2. ServerInv /\ ThreadInv /\ AuditInv /\ [Next]_vars => (ServerInv /\ ThreadInv /\ AuditInv)'
  <2> SUFFICES ASSUME ServerInv, ThreadInv, AuditInv, [Next]_vars
               PROVE  (ServerInv /\ ThreadInv /\ AuditInv)'
    OBVIOUS
  <2>1. ServerInv'
    BY ServerStepsKeep
  <2>2. CASE Next
    BY <2>1, <2>2, ThreadsKeep, AuditStepsKeep
  <2>3. CASE UNCHANGED vars
    <3>1. UNCHANGED <<main, conn, todo, alone, auditVars>>
      BY <2>3 DEF vars, serverVars
    <3>2. ThreadInv'
      BY <3>1 DEF ThreadInv, PastProbe
    <3>3. \A d \in Daemons : rotating[d] # Idle => PastProbe(d)'
      BY <3>1 DEF AuditInv, PastProbe
    <3>4. AuditInv'
      BY <3>1, <3>3, AuditFrame
    <3> QED
      BY <2>1, <3>2, <3>4
  <2> QED
    BY <2>2, <2>3
<1> QED
  BY <1>1, <1>2, PTL DEF ServerSpec

(***************************************************************************)
(* What a reader of the directory finds.                                   *)
(***************************************************************************)
\* FlattenSeq is what any function computes that starts and goes on as it does.
LEMMA FlattenIs ==
    ASSUME NEW n \in Nat \ {0}, NEW s \in [1 .. n -> Seq(Nat)], NEW f \in [1 .. n -> Seq(Nat)],
           f[1] = s[1], \A j \in 2 .. n : f[j] = f[j - 1] \o s[j]
    PROVE  FlattenSeq(s) = f[n]
<1> DEFINE Flat(g) == g = [i \in 1 .. n |-> IF i = 1 THEN s[i] ELSE g[i - 1] \o s[i]]
           flatten == CHOOSE g : Flat(g)
<1>1. Len(s) = n
  BY DEF Seq
<1>2. FlattenSeq(s) = flatten[n]
  BY <1>1 DEF FlattenSeq
<1>3. Flat(f)
  <2>1. ASSUME NEW j \in 1 .. n PROVE f[j] = IF j = 1 THEN s[j] ELSE f[j - 1] \o s[j]
    <3>1. CASE j = 1
      BY <3>1
    <3>2. CASE j # 1
      <4>1. j \in 2 .. n
        BY <3>2
      <4> QED
        BY <3>2, <4>1
    <3> QED
      BY <3>1, <3>2
  <2>2. f = [j \in 1 .. n |-> f[j]]
    OBVIOUS
  <2> QED
    BY <2>1, <2>2
<1>4. Flat(flatten)
  <2> HIDE DEF Flat
  <2>1. \E g : Flat(g)
    BY <1>3
  <2> QED
    BY <2>1
<1>5. \A j \in 1 .. n : flatten[j] = IF j = 1 THEN s[j] ELSE flatten[j - 1] \o s[j]
  <2> HIDE DEF flatten
  <2> QED
    BY <1>4
<1> HIDE DEF flatten, Flat
<1>6. ASSUME NEW j \in 1 .. n, flatten[j] # f[j] PROVE FALSE
  <2> DEFINE T == {i \in 1 .. n : flatten[i] # f[i]}
  <2>1. T \in SUBSET Nat /\ T # {}
    <3>1. \A i \in T : i \in Nat
      OBVIOUS
    <3>2. j \in T
      BY <1>6
    <3> QED
      BY <3>1, <3>2
  <2>2. PICK m \in T : \A i \in T : m <= i
    <3> HIDE DEF T
    <3> QED
      BY <2>1, LeastNatural
  <2>3. m \in 1 .. n /\ flatten[m] # f[m]
    BY <2>2
  <2>4. CASE m = 1
    BY <1>5, <2>3, <2>4
  <2>5. CASE m # 1
    <3>1. m - 1 \in 1 .. n /\ m \in 2 .. n /\ ~(m <= m - 1)
      BY <2>3, <2>5
    <3>2. flatten[m - 1] = f[m - 1]
      BY <2>2, <3>1
    <3> QED
      BY <1>5, <2>3, <2>5, <3>1, <3>2
  <2> QED
    BY <2>4, <2>5
<1> QED
  BY <1>2, <1>6

\* No file ends before what was dropped.
LEMMA LaidGrows ==
    ASSUME AuditTypes, NEW E \in [0 .. Archives + 1 -> Nat], Laid(E)
    PROVE  \A k \in 0 .. Archives + 1 : E[Archives + 1] <= E[k]
<1> DEFINE T == {j \in 0 .. Archives + 1 : E[Archives + 1 - j] < E[Archives + 1]}
<1>1. Archives \in Nat /\ \A k \in 0 .. Archives : Len(Content(files[k])) \in Nat
  BY FilesAre
<1>2. ASSUME T # {} PROVE FALSE
  <2>1. T \in SUBSET Nat
    BY <1>1
  <2>2. PICK m \in T : \A i \in T : m <= i
    <3> HIDE DEF T
    <3> QED
      BY <1>2, <2>1, LeastNatural
  <2>3. m \in 0 .. Archives + 1 /\ E[Archives + 1 - m] < E[Archives + 1]
    BY <2>2
  <2>4. m # 0
    BY <1>1, <2>3
  <2>5. m - 1 \in 0 .. Archives + 1 /\ ~(m <= m - 1) /\ Archives + 1 - m \in 0 .. Archives
    BY <1>1, <2>3, <2>4
  <2>6. ~(E[Archives + 1 - (m - 1)] < E[Archives + 1])
    BY <2>2, <2>5
  <2>7. Archives + 1 - (m - 1) = (Archives + 1 - m) + 1
    BY <1>1, <2>3
  <2>8. E[Archives + 1 - m] = E[(Archives + 1 - m) + 1] + Len(Content(files[Archives + 1 - m]))
    BY <2>5 DEF Laid
  <2>9. /\ (Archives + 1 - m) + 1 \in 0 .. Archives + 1 /\ Archives + 1 - m \in 0 .. Archives + 1
        /\ Archives + 1 \in 0 .. Archives + 1
    BY <1>1, <2>5
  <2>10. E[(Archives + 1 - m) + 1] \in Nat /\ E[Archives + 1 - m] \in Nat /\ E[Archives + 1] \in Nat
    BY <2>9
  <2> QED
    BY <1>1, <2>3, <2>5, <2>6, <2>7, <2>8, <2>10
<1>3. ASSUME NEW k \in 0 .. Archives + 1 PROVE E[Archives + 1] <= E[k]
  <2>1. Archives + 1 - k \in 0 .. Archives + 1 /\ Archives + 1 - (Archives + 1 - k) = k
    BY <1>1
  <2>2. ~(E[k] < E[Archives + 1])
    BY <1>2, <2>1
  <2>3. E[k] \in Nat /\ E[Archives + 1] \in Nat
    BY <1>1
  <2> QED
    BY <2>2, <2>3
<1> QED
  BY <1>3

\* Records that go on where others end.
LEMMA RecordsGoOn ==
    ASSUME NEW a \in Nat, NEW t \in Nat, a <= t,
           NEW s \in Seq(Nat), \A i \in 1 .. Len(s) : s[i] = t + i
    PROVE  [i \in 1 .. t - a |-> a + i] \o s = [i \in 1 .. (t + Len(s)) - a |-> a + i]
<1>0. PICK b \in Nat : t = a + b
  <2>1. t - a \in Nat /\ t = a + (t - a)
    OBVIOUS
  <2> QED
    BY <2>1
<1>1. t - a = b /\ (t + Len(s)) - a = b + Len(s) /\ Len(s) \in Nat
  BY <1>0
<1> DEFINE h == [i \in 1 .. b |-> a + i]
           g == [i \in 1 .. b + Len(s) |-> a + i]
<1>2. /\ h \in Seq(Nat) /\ Len(h) = b /\ \A i \in 1 .. b : h[i] = a + i
      /\ g \in Seq(Nat) /\ Len(g) = b + Len(s) /\ \A i \in 1 .. b + Len(s) : g[i] = a + i
  <2>1. \A n \in Nat : [i \in 1 .. n |-> a + i] \in Seq(Nat) /\ Len([i \in 1 .. n |-> a + i]) = n
    BY DEF Seq
  <2>2. b + Len(s) \in Nat
    BY <1>1
  <2> QED
    BY <2>1, <2>2
<1> HIDE DEF h, g
<1>3. /\ h \o s \in Seq(Nat) /\ Len(h \o s) = b + Len(s)
      /\ \A i \in 1 .. b + Len(s) : (h \o s)[i] = IF i <= b THEN h[i] ELSE s[i - b]
  BY <1>2, ConcatProperties
<1>4. ASSUME NEW i \in 1 .. b + Len(s) PROVE (h \o s)[i] = g[i]
  <2>1. CASE i <= b
    BY <1>2, <1>3, <2>1
  <2>2. CASE ~(i <= b)
    <3>1. i - b \in 1 .. Len(s)
      BY <1>1, <2>2
    <3>2. s[i - b] = (a + b) + (i - b)
      BY <1>0, <3>1
    <3>3. (a + b) + (i - b) = a + i
      OBVIOUS
    <3> QED
      BY <1>2, <1>3, <2>2, <3>2, <3>3
  <2> QED
    BY <2>1, <2>2
<1>5. h \o s = g
  BY <1>2, <1>3, <1>4, SeqEqual
<1> QED
  BY <1>1, <1>5 DEF h, g

\* The files, oldest first, are the records that were not dropped.
LEMMA RetainedIs ==
    ASSUME AuditTypes, NEW E \in [0 .. Archives + 1 -> Nat], Laid(E)
    PROVE  /\ recorded - E[Archives + 1] \in Nat
           /\ Retained = [i \in 1 .. recorded - E[Archives + 1] |-> E[Archives + 1] + i]
<1> DEFINE A == Archives
           low == E[A + 1]
           s == [k \in 1 .. A + 1 |-> Content(files[A + 1 - k])]
           f == [k \in 1 .. A + 1 |-> [i \in 1 .. E[A + 1 - k] - low |-> low + i]]
<1>1. /\ A \in Nat /\ low \in Nat /\ \A k \in 0 .. A : Content(files[k]) \in Seq(Nat)
      /\ \A k \in 0 .. A + 1 : E[k] \in Nat /\ low <= E[k]
  <2>1. A \in Nat /\ \A k \in 0 .. A : Content(files[k]) \in Seq(Nat)
    BY FilesAre
  <2>2. A + 1 \in 0 .. A + 1
    BY <2>1
  <2>3. \A k \in 0 .. A + 1 : low <= E[k]
    BY LaidGrows
  <2> QED
    BY <2>1, <2>2, <2>3
<1>2. \A k \in 1 .. A + 1 : /\ s[k] = Content(files[A + 1 - k])
                            /\ f[k] = [i \in 1 .. E[A + 1 - k] - low |-> low + i]
                            /\ A + 1 - k \in 0 .. A /\ (A + 1 - k) + 1 \in 0 .. A + 1
  BY <1>1
<1>3. s \in [1 .. A + 1 -> Seq(Nat)]
  BY <1>1
<1>4. f \in [1 .. A + 1 -> Seq(Nat)]
  <2>1. ASSUME NEW k \in 1 .. A + 1 PROVE [i \in 1 .. E[A + 1 - k] - low |-> low + i] \in Seq(Nat)
    <3>1. E[A + 1 - k] - low \in Nat
      BY <1>1, <1>2
    <3>2. \A n \in Nat : [i \in 1 .. n |-> low + i] \in Seq(Nat)
      BY <1>1 DEF Seq
    <3> QED
      BY <3>1, <3>2
  <2> QED
    BY <2>1
<1> HIDE DEF s, f
<1>5. ASSUME NEW k \in 1 .. A + 1
      PROVE  /\ E[A + 1 - k] = E[(A + 1 - k) + 1] + Len(s[k])
             /\ \A i \in 1 .. Len(s[k]) : s[k][i] = E[(A + 1 - k) + 1] + i
  BY <1>2 DEF Laid
<1>6. f[1] = s[1]
  <2>1. 1 \in 1 .. A + 1 /\ (A + 1 - 1) + 1 = A + 1
    BY <1>1
  <2>2. s[1] \in Seq(Nat) /\ E[A + 1 - 1] = low + Len(s[1]) /\ \A i \in 1 .. Len(s[1]) : s[1][i] = low + i
    BY <1>3, <1>5, <2>1
  <2>3. E[A + 1 - 1] - low = Len(s[1])
    BY <1>1, <2>2
  <2>4. f[1] = [i \in 1 .. Len(s[1]) |-> low + i]
    BY <1>2, <2>1, <2>3
  <2> HIDE DEF low
  <2> QED
    BY <2>2, <2>4
<1>7. ASSUME NEW k \in 2 .. A + 1 PROVE f[k] = f[k - 1] \o s[k]
  <2>1. k \in 1 .. A + 1 /\ k - 1 \in 1 .. A + 1 /\ A + 1 - (k - 1) = (A + 1 - k) + 1
    BY <1>1
  <2>2. PICK top \in Nat : top = E[(A + 1 - k) + 1] /\ low <= top
    BY <1>1, <1>2, <2>1
  <2>3. s[k] \in Seq(Nat) /\ E[A + 1 - k] = top + Len(s[k]) /\ \A i \in 1 .. Len(s[k]) : s[k][i] = top + i
    BY <1>3, <1>5, <2>1, <2>2
  <2>4. f[k - 1] = [i \in 1 .. top - low |-> low + i]
    BY <1>2, <2>1, <2>2
  <2>5. f[k] = [i \in 1 .. (top + Len(s[k])) - low |-> low + i]
    BY <1>2, <2>1, <2>3
  <2>6. low \in Nat
    BY <1>1
  <2> HIDE DEF low
  <2>7. [i \in 1 .. top - low |-> low + i] \o s[k] = [i \in 1 .. (top + Len(s[k])) - low |-> low + i]
    BY <2>2, <2>3, <2>6, RecordsGoOn
  <2> QED
    BY <2>4, <2>5, <2>7
<1>8. Retained = f[A + 1]
  <2>1. A + 1 \in Nat \ {0}
    BY <1>1
  <2>2. FlattenSeq(s) = f[A + 1]
    BY <1>3, <1>4, <1>6, <1>7, <2>1, FlattenIs
  <2> QED
    BY <2>2 DEF Retained, s
<1>9. f[A + 1] = [i \in 1 .. recorded - low |-> low + i] /\ recorded - low \in Nat
  <2>1. A + 1 \in 1 .. A + 1 /\ A + 1 - (A + 1) = 0 /\ E[0] = recorded
    BY <1>1 DEF Laid
  <2>2. recorded - low \in Nat
    BY <1>1, <2>1
  <2> QED
    BY <1>2, <2>1, <2>2
<1> QED
  BY <1>8, <1>9

\* A product grows with its factor.
LEMMA ProductGrows ==
    ASSUME NEW l \in Nat, NEW a \in Int, NEW b \in Int
    PROVE  /\ l * a \in Int /\ l * (a + 1) = l * a + l
           /\ a <= b => l * a <= l * b
<1>1. l * a \in Int /\ l * b \in Int /\ l * (a + 1) = l * a + l
  OBVIOUS
<1>2. ASSUME a <= b PROVE l * a <= l * b
  <2>1. b - a \in Nat
    BY <1>2
  <2>2. l * (b - a) \in Nat
    BY <2>1
  <2>3. l * b = l * a + l * (b - a)
    OBVIOUS
  <2> QED
    BY <1>1, <2>2, <2>3
<1> QED
  BY <1>1, <1>2

\* Archives that are there are full.
LEMMA FullArchives ==
    ASSUME AuditTypes, NEW E \in [0 .. Archives + 1 -> Nat], Laid(E),
           \A k \in 1 .. Archives : files[k] # NoFile => Len(files[k]) = FileLimit,
           NEW M, M = {k \in 1 .. Archives : files[k] = NoFile}
    PROVE  E[1] - E[Archives + 1] >= FileLimit * (Archives - Cardinality(M))
<1> DEFINE A == Archives
           c(j) == Cardinality(M \intersect 1 .. j)
           Less(j) == ~(E[1] - E[j + 1] >= FileLimit * (j - c(j)))
           T == {j \in 0 .. A : Less(j)}
<1>1. A \in Nat /\ FileLimit \in Nat /\ \A k \in 0 .. A + 1 : E[k] \in Nat
  BY FilesAre
<1>2. \A j \in 0 .. A : IsFiniteSet(M \intersect 1 .. j) /\ c(j) \in Nat
  <2>1. IsFiniteSet(1 .. A)
    BY <1>1, FS_Interval
  <2>2. \A j \in 0 .. A : M \intersect 1 .. j \subseteq 1 .. A
    OBVIOUS
  <2> QED
    BY <2>1, <2>2, FS_Subset, FS_CardinalityType
<1>3. ASSUME T # {} PROVE FALSE
  <2>1. T \in SUBSET Nat
    OBVIOUS
  <2>2. PICK m \in T : \A j \in T : m <= j
    <3> HIDE DEF T
    <3> QED
      BY <1>3, <2>1, LeastNatural
  <2>3. m \in 0 .. A /\ Less(m)
    BY <2>2
  <2>6. \A j \in 0 .. A : ~(m <= j) => ~Less(j)
    BY <2>2
  <2> HIDE DEF T, Less, c
  <2>4. CASE m = 0
    <3>1. M \intersect 1 .. 0 = {}
      OBVIOUS
    <3>2. c(0) = 0
      BY <3>1, FS_EmptySet DEF c
    <3>3. E[1] \in Nat /\ FileLimit * (0 - 0) = 0
      BY <1>1
    <3> QED
      BY <2>3, <2>4, <3>2, <3>3 DEF Less
  <2>5. CASE m # 0
    <3>1. m - 1 \in 0 .. A /\ ~(m <= m - 1) /\ m \in 1 .. A /\ (m - 1) + 1 = m
      <4>1. \A x \in Int : \A y \in 0 .. x :
                y # 0 => y - 1 \in 0 .. x /\ ~(y <= y - 1) /\ y \in 1 .. x /\ (y - 1) + 1 = y
        OBVIOUS
      <4>2. m \in 0 .. A /\ A \in Int
        BY <1>1, <2>3
      <4> HIDE DEF A
      <4> QED
        BY <2>5, <4>1, <4>2, Zenon
    <3>2. ~Less(m - 1)
      BY <2>6, <3>1
    <3>3. PICK n \in Nat : n = c(m - 1)
      BY <1>2, <3>1
    <3>4. E[1] - E[m] >= FileLimit * ((m - 1) - n)
      BY <3>1, <3>2, <3>3 DEF Less
    <3>5. E[m] = E[m + 1] + Len(Content(files[m]))
      BY <3>1 DEF Laid
    <3>6. E[m] \in Nat /\ E[m + 1] \in Nat /\ E[1] \in Nat
      BY <1>1, <3>1
    <3>7. CASE files[m] = NoFile
      <4>1. M \intersect 1 .. m = (M \intersect 1 .. m - 1) \union {m} /\ m \notin M \intersect 1 .. m - 1
        BY <3>1, <3>7
      <4>2. c(m) = n + 1
        <5>1. IsFiniteSet(M \intersect 1 .. m - 1)
          BY <1>2, <3>1
        <5>2. PICK S : S = M \intersect 1 .. m - 1
          OBVIOUS
        <5>3. IsFiniteSet(S) /\ m \notin S /\ n = Cardinality(S) /\ M \intersect 1 .. m = S \union {m}
          BY <3>3, <4>1, <5>1, <5>2 DEF c
        <5>4. Cardinality(S \union {m}) = Cardinality(S) + 1
          BY <5>3, FS_AddElement
        <5> QED
          BY <5>3, <5>4 DEF c
      <4>3. m - c(m) = (m - 1) - n
        BY <3>1, <3>3, <4>2
      <4>4. E[m] = E[m + 1]
        BY <3>5, <3>6, <3>7, FilesAre
      <4> QED
        BY <2>3, <3>4, <4>3, <4>4 DEF Less
    <3>8. CASE files[m] # NoFile
      <4>1. M \intersect 1 .. m = M \intersect 1 .. m - 1
        BY <3>1, <3>8
      <4>2. m - c(m) = ((m - 1) - n) + 1
        <5>1. c(m) = n
          BY <3>3, <4>1, Zenon DEF c
        <5> QED
          BY <3>1, <5>1
      <4>3. Len(Content(files[m])) = FileLimit
        BY <3>1, <3>8, FilesAre
      <4> DEFINE y == (m - 1) - n
      <4>4. y \in Int
        BY <3>1
      <4> HIDE DEF y
      <4>5. FileLimit * y \in Int /\ FileLimit * (y + 1) = FileLimit * y + FileLimit
        BY <1>1, <4>4, ProductGrows
      <4>6. E[1] - E[m] >= FileLimit * y /\ m - c(m) = y + 1
        BY <3>4, <4>2 DEF y
      <4>7. E[m] = E[m + 1] + FileLimit
        BY <3>5, <4>3
      <4>8. E[1] - E[m + 1] >= FileLimit * (y + 1)
        BY <1>1, <3>6, <4>5, <4>6, <4>7
      <4> QED
        BY <2>3, <4>6, <4>8 DEF Less
    <3> QED
      BY <3>7, <3>8
  <2> QED
    BY <2>4, <2>5
<1>4. M \intersect 1 .. A = M /\ A \in 0 .. A
  BY <1>1
<1>5. ~Less(A)
  BY <1>3, <1>4, Zenon
<1> QED
  BY <1>4, <1>5

\* The files hold as much as the archives can, less one archive for every cut.
LEMMA FilesHoldEnough ==
    ASSUME AuditTypes, cut \in Nat, NEW r \in Creating .. Idle, FilesOK(r),
           NEW E \in [0 .. Archives + 1 -> Nat], Laid(E), Cardinality(Gaps(r)) <= cut
    PROVE  recorded - E[Archives + 1] >= FileLimit * (Archives - cut)
<1> DEFINE A == Archives
<1>1. PICK M : M = {k \in 1 .. A : files[k] = NoFile}
  OBVIOUS
<1>2. /\ A \in Nat /\ FileLimit \in Nat /\ \A k \in 0 .. A + 1 : E[k] \in Nat
      /\ 1 \in 0 .. A + 1 /\ A + 1 \in 0 .. A + 1 /\ 0 \in 0 .. A
  <2>1. A \in Nat /\ FileLimit \in Nat
    BY FilesAre
  <2> QED
    BY <2>1
<1>3. E[1] - E[A + 1] >= FileLimit * (A - Cardinality(M))
  <2>1. \A k \in 1 .. A : files[k] # NoFile => Len(files[k]) = FileLimit
    BY DEF FilesOK
  <2> QED
    BY <1>1, <2>1, FullArchives
<1>4. recorded = E[1] + Len(Content(files[0])) /\ Len(Content(files[0])) \in Nat
  BY <1>2, FilesAre DEF Laid
<1>5. IsFiniteSet(Gaps(r)) /\ Cardinality(Gaps(r)) \in Nat
  BY GapsAreFinite
<1>6. E[1] \in Nat /\ E[A + 1] \in Nat
  BY <1>2
<1>7. CASE r + 1 \notin 1 .. A
  <2>1. M = Gaps(r)
    BY <1>1, <1>7 DEF Gaps
  <2>2. A - cut <= A - Cardinality(M) /\ A - cut \in Int /\ A - Cardinality(M) \in Int
    BY <1>2, <1>5, <2>1
  <2> DEFINE x == A - cut
             y == A - Cardinality(M)
  <2> HIDE DEF x, y
  <2>3. FileLimit * x <= FileLimit * y /\ FileLimit * x \in Int /\ FileLimit * y \in Int
    BY <1>2, <2>2, ProductGrows DEF x, y
  <2>4. E[1] - E[A + 1] >= FileLimit * y
    BY <1>3 DEF y
  <2>5. recorded - E[A + 1] >= FileLimit * x
    BY <1>4, <1>6, <2>3, <2>4
  <2> QED
    BY <2>5 DEF x
<1>8. CASE r + 1 \in 1 .. A
  <2>1. r \in 0 .. A
    BY <1>2, <1>8 DEF Creating, Idle
  <2>2. Len(Content(files[0])) = FileLimit
    BY <2>1 DEF FilesOK
  <2>3. Cardinality(M) \in Nat /\ Cardinality(M) <= cut + 1
    <3>1. M \subseteq Gaps(r) \union {r + 1}
      BY <1>1 DEF Gaps
    <3>2. r + 1 \notin Gaps(r)
      BY DEF Gaps
    <3>3. /\ IsFiniteSet(Gaps(r) \union {r + 1})
          /\ Cardinality(Gaps(r) \union {r + 1}) = Cardinality(Gaps(r)) + 1
      BY <1>5, <3>2, FS_AddElement
    <3>4. /\ Cardinality(M) \in Nat
          /\ Cardinality(M) <= Cardinality(Gaps(r) \union {r + 1})
      BY <3>1, <3>3, FS_Subset, FS_CardinalityType
    <3> QED
      BY <1>5, <3>3, <3>4
  <2> DEFINE x == A - cut
             y == A - Cardinality(M)
  <2>4. x \in Int /\ y \in Int /\ x <= y + 1 /\ y + 1 \in Int
    BY <1>2, <2>3
  <2> HIDE DEF x, y
  <2>5. /\ FileLimit * x <= FileLimit * (y + 1) /\ FileLimit * x \in Int
        /\ FileLimit * (y + 1) = FileLimit * y + FileLimit /\ FileLimit * y \in Int
    BY <1>2, <2>4, ProductGrows
  <2>6. E[1] - E[A + 1] >= FileLimit * y
    BY <1>3 DEF y
  <2>7. recorded - E[A + 1] >= FileLimit * x
    BY <1>2, <1>4, <1>6, <2>2, <2>5, <2>6
  <2> QED
    BY <2>7 DEF x
<1> QED
  BY <1>7, <1>8

\* The invariant says what a reader of the files finds.
LEMMA FilesAreHistory ==
    ASSUME ServerInv, AuditInv
    PROVE  AuditIsRecentHistory
<1> SUFFICES ASSUME alone
             PROVE  /\ Retained = [i \in 1 .. Len(Retained) |-> recorded - Len(Retained) + i]
                    /\ \/ Len(Retained) = recorded
                       \/ Len(Retained) >= FileLimit * (Archives - cut)
  BY DEF AuditIsRecentHistory
<1>1. AuditTypes /\ cut \in Nat /\ recorded \in Nat /\ Archives \in Nat
  BY AuditSizes DEF ServerInv, AuditInv, AuditTypes
<1>2. PICK r \in Creating .. Idle : FilesOK(r)
  <2>1. Idle \in Creating .. Idle /\ rotating \in [Daemons -> Creating .. Idle]
    BY <1>1 DEF Idle, Creating, AuditTypes
  <2>2. CASE \A d \in Daemons : rotating[d] = Idle
    BY <2>1, <2>2 DEF AuditInv
  <2>3. CASE \E d \in Daemons : rotating[d] # Idle
    <3>1. PICK d \in Daemons : rotating[d] # Idle
      BY <2>3
    <3>2. PastProbe(d)
      BY <3>1 DEF AuditInv
    <3> QED
      BY <3>2, OneRotation
  <2> QED
    BY <2>2, <2>3
<1>3. PICK E \in [0 .. Archives + 1 -> Nat] :
        Laid(E) /\ (E[Archives + 1] > 0 => Cardinality(Gaps(r)) <= cut)
  BY <1>2 DEF FilesOK
<1>4. PICK low \in Nat : low = E[Archives + 1]
  BY <1>1
<1>5. recorded - low \in Nat /\ Retained = [i \in 1 .. recorded - low |-> low + i]
  BY <1>1, <1>3, <1>4, RetainedIs
<1>6. Len(Retained) = recorded - low
  BY <1>4, <1>5
<1>7. Retained = [i \in 1 .. Len(Retained) |-> recorded - Len(Retained) + i]
  <2>1. recorded - (recorded - low) = low
    BY <1>1
  <2> QED
    BY <1>5, <1>6, <2>1
<1>8. low = 0 \/ recorded - low >= FileLimit * (Archives - cut)
  BY <1>1, <1>2, <1>3, <1>4, FilesHoldEnough
<1> QED
  BY <1>1, <1>6, <1>7, <1>8

\* What the daemons keep in files survives them, wherever a process ends: portusd serves
\* only from a current database that passed its check, every migration of a database in
\* use has its copy, and, unless two daemons got past the probe together, the audit files
\* are the latest records in order, as many as fill the archives less one archive for
\* every rotation that was cut short (open_with_options, create_pre_migration_backup,
\* apply_migration; FileAuditSink: rotate_if_needed and record).
THEOREM FilesAlwaysSurvive == ServerSpec => []FilesSurviveCrashes
<1>1. ServerInv /\ ThreadInv /\ AuditInv => AuditIsRecentHistory
  BY FilesAreHistory
<1>2. ReadyIsCurrent /\ BackupsHold /\ AuditIsRecentHistory => FilesSurviveCrashes
  BY DEF FilesSurviveCrashes
<1> QED
  BY <1>1, <1>2, FilesInvariant, DatabaseSurvivesCrashes, PTL
===============================================================================
