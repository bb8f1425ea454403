---------------------------- MODULE BuildProofs ----------------------------
(***************************************************************************)
(* Proofs about one build iteration: the records of a run say what         *)
(* happened, and buildiso starts only on the frozen closure.               *)
(***************************************************************************)
EXTENDS BuildIteration, FiniteSetTheorems, WellFoundedInduction, TLAPS

(***************************************************************************)
(* Shapes: the fields of the records the processes keep.                   *)
(***************************************************************************)
EvFields == {"run", "status", "repositories", "packages", "cached_before", "anchor", "progress",
             "summary", "cache", "frozen", "local", "gate", "gate_count", "failure"}
LedgerFields == {"audit", "reused", "downloaded", "verified", "pending", "mirrors", "batches",
                 "completed", "attempts", "flags"}
WorkFields == {"candidate", "probes", "batches", "batch", "attempt", "pending", "retry", "asked",
               "err", "last", "done", "left", "spoiled"}
Evidence(e) == /\ DOMAIN e = EvFields /\ DOMAIN e.cache = LedgerFields
               /\ DOMAIN e.anchor = {"status", "selected", "attempts", "locked"}

ShapeInv ==
    /\ Evidence(ev) /\ DOMAIN w = WorkFields
    /\ DOMAIN cache = Files /\ \A f \in Files : DOMAIN cache[f] = {"sha", "sig", "part"}
    /\ DOMAIN iso = Runs /\ DOMAIN left = Runs
    /\ DOMAIN outer = {"at", "err", "loops"} /\ DOMAIN it = {"at", "step", "code"}
    /\ outer.err \in BOOLEAN

(***************************************************************************)
(* The processes: the harness, the outer build and the inner one.          *)
(***************************************************************************)
Places == DOMAIN Substage \cup {"dead", "inner", "setup", "closed", "building", "collect", "built", "raised"}

ProcessInv ==
    /\ at \in Places /\ owner \in {"user", "alpm"} /\ again \in Nat
    /\ outer.at \in {"idle", "inner", "sweep", "exited"}
    /\ it.at \in {"idle", "steps", "build", "wait", "capture", "interrupted"}
    /\ at = "dead" <=> outer.at # "inner"
    /\ outer.at # "idle" => run \in DOMAIN meta
    /\ it.at \in {"steps", "build", "capture"} => outer.at = "idle"
    /\ it.at = "wait" => outer.at # "idle"
    /\ it.at = "interrupted" => outer.at # "inner"
    /\ it.at \in {"wait", "interrupted"} /\ outer.at # "idle" => run = latest
    /\ it.at # "idle" => latest \in DOMAIN meta /\ latest \notin DOMAIN sums /\ meta[latest].status = "running"
    /\ it.at \in {"steps", "build"} => latest \notin DOMAIN cleanup
    /\ again = 0 /\ outer.at # "idle" =>
          /\ run = latest
          /\ \/ it.at \in {"wait", "interrupted"}
             \/ /\ it.at = "idle" /\ outer.at # "inner" /\ meta[latest].code = EXIT_INTERRUPTED
    /\ again = 0 /\ outer.at \in {"inner", "sweep"} => run \notin DOMAIN cleanup
    /\ DOMAIN meta \subseteq Runs /\ DOMAIN sums \subseteq DOMAIN meta /\ DOMAIN cleanup \subseteq DOMAIN meta
    /\ dirs \subseteq Runs /\ DOMAIN report \subseteq Runs /\ staged \subseteq Runs /\ scratch \subseteq Runs
    /\ DOMAIN result \subseteq Runs /\ loops \subseteq Runs
    /\ \A r \in DOMAIN meta : meta[r].status \in {"running", "blocked", "failed", "succeeded"}

(***************************************************************************)
(* What a run that succeeded rests on.                                     *)
(***************************************************************************)
Bound(r) == r \in DOMAIN result /\ result[r] = report[r]
Reported == \A r \in DOMAIN meta : meta[r].status = "succeeded" => r \in DOMAIN report

ProvenInv ==
    /\ at \notin {"dead", "built", "raised"} => iso[run] # "artifact"
    /\ at = "built" => Bound(run)
    /\ outer.at \in {"sweep", "exited"} /\ ~outer.err => Bound(run)
    /\ it.at = "capture" /\ it.code = 0 => Bound(latest)
    /\ Reported /\ SucceededIsProven

(***************************************************************************)
(* The closure, place by place.                                            *)
(***************************************************************************)
Resolved == {"audit", "fetch", "record", "batch_end", "construct", "validate", "handoff", "seal", "closed"}
Planned == Resolved \ {"audit"}
Complete == {"validate", "handoff", "seal", "closed"}

Begun == at \in {"mirrors", "probe", "freeze"} => ev = NewEvidence(run)
Probing ==
    /\ at = "mirrors" => w = NoWork
    /\ at = "probe" => /\ w.candidate \in 1..Mirrors /\ Len(w.probes) = w.candidate - 1
                       /\ w.probes \in Seq(Texts \cup {{}})
    /\ at = "freeze" => /\ w.candidate \in 1..Mirrors /\ Len(w.probes) = w.candidate
                        /\ w.probes \in Seq(Texts \cup {{}}) /\ Last(w.probes) = {} /\ sync \in Dbs
Anchored ==
    at \in {"resolve"} \cup Resolved =>
        /\ sync \in Dbs /\ ev.repositories = sync /\ ev.run = run
        /\ ev.anchor.status = "pass" /\ ev.anchor.locked
        /\ ev.anchor.selected \in 1..Mirrors /\ ev.anchor.selected = Len(ev.anchor.attempts)
        /\ Last(ev.anchor.attempts) = {}
Unfinished ==
    at \in DOMAIN Substage => ev.status = "fail" /\ ev.failure = NoFailure
NothingYet ==
    /\ at \in {"resolve", "audit"} => ev.cache.attempts = <<>> /\ ev.cache.pending = -1
    /\ at = "resolve" => ev.packages = {} /\ ev.progress = <<>>
Frozen ==
    at \in Resolved =>
        /\ ev.packages = Resolve[sync] /\ ev.packages # {} /\ Targets \subseteq {p.name : p \in ev.packages}
        /\ DOMAIN ev.progress = FilesOf(ev.packages)
Closed ==
    /\ at \in {"seal", "closed"} => owner = "user"
    /\ at = "closed" => run \in DOMAIN report /\ report[run] = ev

ClosureInv == Begun /\ Probing /\ Anchored /\ Unfinished /\ NothingYet /\ Frozen /\ Closed

\* Every entry is one of package_progress, wherever the closure stands.
Typed == \A f \in DOMAIN ev.progress : f \in Files /\ ev.progress[f].state \in Progress

LedgerShape ==
    at \in Resolved =>
        \A f \in DOMAIN ev.progress :
            LET p == ev.progress[f]
            IN  \/ p \in {ProgressOf(s, 0, 0, None) : s \in {"pending", "reused_verified", "corrupt_removed"}}
                \/ /\ p.state = "downloaded_verified" /\ p.batch \in Nat \ {0} /\ p.attempt \in Nat \ {0} /\ p.class = None
                \/ p.state = "failed"

Planning ==
    at \in Planned =>
        LET c == ev.cache
        IN  /\ c.audit.status = "pass" /\ c.audit.reused \cap c.audit.pending = {}
            /\ c.audit.reused \cup c.audit.pending = FilesOf(ev.packages)
            /\ c.audit.corrupt \subseteq FilesOf(ev.packages)
            /\ c.reused = Cardinality(c.audit.reused)
            /\ c.mirrors = ordered_prefetch_mirrors(ev.anchor.selected)
            /\ w.batches = plan_package_prefetch_batches({p \in ev.packages : p.file \in c.audit.pending})
            /\ c.batches = Len(w.batches)
            /\ c.completed = w.batch - 1
            /\ w.batch \in 1..Len(w.batches) + 1
            /\ at \in {"fetch", "record", "batch_end"} => w.batch <= Len(w.batches)
            /\ at \in {"construct"} \cup Complete => w.batch = Len(w.batches) + 1

NoRetry ==
    at \in {"mirrors", "probe", "freeze", "resolve", "audit", "record", "batch_end"} => w.retry = {}

Listed(s) == s \in Seq(Range(s))
Those(as, b) == {i \in DOMAIN as : as[i].batch = b}
Asking(as, file) == {i \in DOMAIN as : file \in as[i].requested}
AttemptsOf(b) == Those(ev.cache.attempts, b)
InOrder == \/ at \in {"fetch", "record", "construct"} \cup Complete
           \/ at = "batch_end" /\ ~IsError(w.err)
First(b) == ev.cache.attempts[Min(AttemptsOf(b))].requested = FilesOf(Range(w.batches[b]))
Done(b) == /\ AttemptsOf(b) # {} /\ First(b)
           /\ LET a == ev.cache.attempts[Max(AttemptsOf(b))] IN a.result = "pass" /\ a.pending = {}

AttemptOK(a) ==
    /\ a.batch \in 1..Len(w.batches) /\ a.batch <= w.batch /\ a.attempt \in 1..Len(ev.cache.mirrors)
    /\ attempt_partitions(a) /\ a.requested \subseteq FilesOf(Range(w.batches[a.batch]))
    /\ a.result \in {"pass", "fail"} /\ (a.result = "pass" => a.class = None)

\* The ledger entry of a file that was asked for is that of the last attempt.
ToldByLast(file) ==
    LET as == ev.cache.attempts
        a == as[Max(Asking(as, file))]
    IN  Asking(as, file) # {} => ev.progress[file] =
                      IF file \in a.verified THEN ProgressOf("downloaded_verified", a.batch, a.attempt, None)
                      ELSE ProgressOf("failed", a.batch, a.attempt, a.class)

AttemptInv ==
    at \in Planned /\ InOrder =>
        /\ Listed(ev.cache.attempts)
        /\ \A i \in DOMAIN ev.cache.attempts : AttemptOK(ev.cache.attempts[i])
        /\ Contiguous(ev.cache.attempts)
        /\ \A file \in DOMAIN ev.progress : ToldByLast(file)
        /\ \A b \in 1..w.batch - 1 : Done(b)
        /\ at = "batch_end" => Done(w.batch)
        /\ at \in {"fetch", "record"} =>
              /\ w.attempt = 1 + Cardinality(AttemptsOf(w.batch)) /\ w.attempt <= Len(ev.cache.mirrors)
              /\ AttemptsOf(w.batch) # {} => First(w.batch)
              /\ w.pending \subseteq FilesOf(Batch)
              /\ w.attempt = 1 => w.pending = FilesOf(Batch)
        /\ at = "fetch" => /\ w.retry \subseteq Batch /\ (w.retry # {} => w.pending = {})
                           /\ w.attempt = 1 => w.retry = {}
        /\ at = "record" => /\ w.asked \subseteq Batch /\ w.pending \subseteq FilesOf(w.asked)
                            /\ w.attempt = 1 => w.asked = Batch

Good(f) == cache[f].sha = Of(ev.packages, f).sha
IsVerified(f) == ev.progress[f].state \in VerifiedStates
\* What another process changed, and what the clean retry lost.
Excepted == touched \cup w.spoiled
CacheInv ==
    /\ at \in Resolved \ {"closed"} => \A f \in DOMAIN ev.progress \ Excepted :
          IsVerified(f) => Good(f)
    /\ at = "audit" => \A f \in DOMAIN ev.progress : ~IsVerified(f)
    /\ at \in {"fetch", "record"} => \A f \in w.pending : ~IsVerified(f)
    /\ at \in {"fetch", "record", "batch_end"} =>
          \A b \in w.batch + 1..Len(w.batches) : \A f \in FilesOf(Range(w.batches[b])) : ~IsVerified(f)

\* A verified file that the clean retry lost is asked for and not found, so that
\* the closure ends in failure.
Lost(f) == f \in FilesOf(w.asked) \ w.pending /\ cache[f].sha \in {None, "wrong"}
SpoilInv ==
    at \in DOMAIN Substage \cup {"closed"} /\ w.spoiled # {} =>
        \/ at = "record" /\ \E f \in w.spoiled : f \in Files /\ Lost(f)
        \/ at = "batch_end" /\ IsError(w.err)

Sealable ==
    at \in Complete =>
        LET n == Cardinality(ev.packages)
            c == ev.cache
        IN  /\ ev.summary = summarize_package_progress(ev.progress)
            /\ ev.summary = [resolved |-> n, verified |-> n, pending |-> 0]
            /\ ev.cached_before = c.audit.reused /\ c.downloaded = n - c.reused
            /\ c.verified = n /\ c.pending = 0

PlanInv == Typed /\ LedgerShape /\ Planning /\ NoRetry /\ AttemptInv /\ CacheInv /\ SpoilInv /\ Sealable

BuildInv ==
    /\ ShapeInv /\ ProcessInv /\ ProvenInv /\ CleanupIsHonest /\ SumsMatchFiles
    /\ ClosureInv /\ PlanInv /\ ReaderAcceptsWriter
---------------------------------------------------------------------------
(***************************************************************************)
(* Least and greatest.                                                     *)
(***************************************************************************)
LEMMA Least ==
  ASSUME NEW S \in SUBSET Nat, S # {}
  PROVE  \E n \in S : \A m \in S : n <= m
<1>1. IsWellFoundedOn(OpToRel(<, Nat), Nat)  BY NatLessThanWellFounded
<1>2. PICK n \in S : \A m \in S : <<m, n>> \notin OpToRel(<, Nat)  BY <1>1, WFMin
<1>3. \A m \in S : ~(m < n)  BY <1>2 DEF OpToRel
<1> QED BY <1>3

LEMMA MinIs ==
  ASSUME NEW S \in SUBSET Nat, S # {}
  PROVE  Min(S) \in S /\ \A m \in S : Min(S) <= m
BY Least DEF Min

\* A nonempty set of naturals with an upper bound has its maximum.
LEMMA MaxIs ==
  ASSUME NEW S \in SUBSET Nat, S # {}, NEW k \in Nat, \A m \in S : m <= k
  PROVE  Max(S) \in S /\ \A m \in S : m <= Max(S)
<1> DEFINE U == {u \in Nat : \A m \in S : m <= u}
<1>1. PICK u \in U : \A v \in U : u <= v
  <2>1. U \in SUBSET Nat /\ U # {}  OBVIOUS
  <2> HIDE DEF U
  <2> QED BY <2>1, Least
<1>2. u \in S
  <2> SUFFICES ASSUME u \notin S  PROVE FALSE
    OBVIOUS
  <2>1. PICK m \in S : TRUE  OBVIOUS
  <2>2. u # 0  BY <2>1, <1>1
  <2>3. u - 1 \in Nat /\ \A n \in S : n <= u - 1  BY <1>1, <2>2
  <2>4. u - 1 \in U  BY <2>3
  <2> QED BY <1>1, <2>4
<1>3. \E x \in S : \A y \in S : x >= y  BY <1>1, <1>2
<1>4. Max(S) \in S /\ \A y \in S : Max(S) >= y
  <2> HIDE DEF U
  <2> QED BY <1>3 DEF Max
<1> QED BY <1>4

\* With one more element above all the others, that is the maximum.
LEMMA MaxAbove ==
  ASSUME NEW S \in SUBSET Nat, NEW k \in S, \A m \in S : m <= k
  PROVE  Max(S) = k
<1>1. Max(S) \in S /\ \A m \in S : m <= Max(S)  BY MaxIs
<1>2. Max(S) \in Nat /\ k \in Nat /\ Max(S) <= k /\ k <= Max(S)  BY <1>1
<1> QED BY <1>2

(***************************************************************************)
(* Packages: every file name stands for one package.                       *)
(***************************************************************************)
Sound(packages) ==
    /\ IsFiniteSet(packages)
    /\ \A p \in packages : p.file \in Files /\ p.size \in Nat /\ p.rank \in Nat
    /\ \A p, q \in packages : p # q => p.file # q.file /\ p.rank # q.rank

LEMMA ResolvedIsSound ==
  ASSUME NEW d \in Dbs
  PROVE  Sound(Resolve[d])
BY ClosureAssumption DEF Sound

LEMMA SoundParts ==
  ASSUME NEW P, Sound(P), NEW Q \in SUBSET P
  PROVE  Sound(Q)
BY FS_Subset DEF Sound

LEMMA OfIs ==
  ASSUME NEW P, Sound(P), NEW p \in P
  PROVE  Of(P, p.file) = p
BY DEF Sound, Of

\* A file of a part stands for the same package in the whole.
LEMMA OfPart ==
  ASSUME NEW P, Sound(P), NEW Q \in SUBSET P, NEW f \in FilesOf(Q)
  PROVE  Of(Q, f) = Of(P, f) /\ Of(P, f) \in Q /\ Of(P, f).file = f
<1>1. PICK p \in Q : p.file = f  BY DEF FilesOf
<1>2. Of(P, f) = p  BY <1>1, OfIs
<1>3. Of(Q, f) = p  BY <1>1, OfIs, SoundParts
<1> QED BY <1>1, <1>2, <1>3

LEMMA FilesFinite ==
  ASSUME NEW P, Sound(P)
  PROVE  /\ IsFiniteSet(FilesOf(P)) /\ Cardinality(FilesOf(P)) = Cardinality(P)
         /\ Cardinality(P) \in Nat
<1> DEFINE g == [p \in P |-> p.file]
<1>1. g \in Bijection(P, FilesOf(P))
  BY DEF Sound, FilesOf, Bijection, Injection, Surjection, IsInjective
<1>2. ExistsBijection(P, FilesOf(P))  BY <1>1 DEF ExistsBijection
<1> HIDE DEF g
<1> QED BY <1>2, FS_Bijection, FS_CardinalityType DEF Sound

(***************************************************************************)
(* The order of the sort key exists for every finite set of packages.      *)
(***************************************************************************)
Sorted(s, packages) ==
    /\ s \in [1..Cardinality(packages) -> packages]
    /\ \A i, j \in DOMAIN s : i < j => s[i].rank < s[j].rank

LEMMA OrderExists ==
  ASSUME NEW P, Sound(P)
  PROVE  \E s : Sorted(s, P)
<1> DEFINE T == {n \in Nat : \E Q : Sound(Q) /\ Cardinality(Q) = n /\ ~ \E s : Sorted(s, Q)}
<1>1. Cardinality(P) \in Nat  BY FilesFinite
<1> SUFFICES ASSUME T # {}  PROVE FALSE
  BY <1>1
<1>2. PICK n \in T : \A m \in T : n <= m
  <2>1. T \in SUBSET Nat  OBVIOUS
  <2> HIDE DEF T
  <2> QED BY <2>1, Least
<1>3. PICK Q : Sound(Q) /\ Cardinality(Q) = n /\ ~ \E s : Sorted(s, Q)  BY <1>2
<1>4. n \in Nat  OBVIOUS
<1>5. CASE n = 0
  <2>1. Q = {} /\ 1..Cardinality(Q) = {}  BY <1>3, <1>5, FS_EmptySet DEF Sound
  <2> DEFINE s == [i \in {} |-> i]
  <2>2. s \in [{} -> {}] /\ DOMAIN s = {}  OBVIOUS
  <2> HIDE DEF s
  <2>3. Sorted(s, Q)  BY <2>1, <2>2 DEF Sorted
  <2> QED BY <1>3, <2>3
<1>6. CASE n # 0
  <2>1. Q # {}  BY <1>3, <1>6, FS_EmptySet DEF Sound
  <2>2. PICK x \in Q : \A p \in Q : x.rank <= p.rank
    <3> DEFINE R == {p.rank : p \in Q}
    <3>1. R \in SUBSET Nat /\ R # {}  BY <1>3, <2>1 DEF Sound
    <3>2. PICK k \in R : \A m \in R : k <= m
      <4> HIDE DEF R
      <4> QED BY <3>1, Least
    <3> QED BY <3>2
  <2> DEFINE Q2 == Q \ {x}
  <2>3. Sound(Q2) /\ Cardinality(Q2) = n - 1
    <3>1. Cardinality(Q2) = n - 1  BY <1>3, FS_RemoveElement DEF Sound
    <3>2. Q2 \in SUBSET Q  OBVIOUS
    <3> QED BY <1>3, <3>1, <3>2, SoundParts
  <2>4. PICK t : Sorted(t, Q2)
    <3>1. n - 1 \in Nat /\ ~(n <= n - 1)  BY <1>4, <1>6
    <3>2. n - 1 \notin T  BY <1>2, <3>1
    <3> QED BY <2>3, <3>1, <3>2
  <2>5. t \in [1..(n - 1) -> Q2]  BY <2>3, <2>4 DEF Sorted
  <2>6. \A i, j \in 1..(n - 1) : i < j => t[i].rank < t[j].rank  BY <2>4, <2>5 DEF Sorted
  <2>7. \A i \in 1..(n - 1) : t[i] \in Q /\ t[i] # x  BY <2>5
  <2>8. \A i \in 1..(n - 1) : x.rank < t[i].rank
    BY <1>3, <2>2, <2>7 DEF Sound
  <2> HIDE DEF Q2
  <2> DEFINE s == [i \in 1..n |-> IF i = 1 THEN x ELSE t[i - 1]]
  <2>9. \A i \in 1..n : i # 1 => i - 1 \in 1..(n - 1)  BY <1>4
  <2>10. s \in [1..n -> Q]  BY <2>7, <2>9
  <2>11. \A i, j \in 1..n : i < j => s[i].rank < s[j].rank
    <3> SUFFICES ASSUME NEW i \in 1..n, NEW j \in 1..n, i < j  PROVE s[i].rank < s[j].rank
      OBVIOUS
    <3>1. j # 1 /\ s[j] = t[j - 1] /\ j - 1 \in 1..(n - 1)  BY <1>4, <2>9
    <3>2. CASE i = 1
      <4>1. s[i] = x  BY <3>2
      <4> HIDE DEF s
      <4> QED BY <2>8, <3>1, <4>1
    <3>3. CASE i # 1
      <4>1. s[i] = t[i - 1] /\ i - 1 \in 1..(n - 1) /\ i - 1 < j - 1  BY <1>4, <2>9, <3>3
      <4> HIDE DEF s
      <4> QED BY <2>6, <3>1, <4>1
    <3> QED BY <3>2, <3>3
  <2> HIDE DEF s
  <2>12. Sorted(s, Q)  BY <1>3, <2>10, <2>11 DEF Sorted
  <2> QED BY <1>3, <2>12
<1> QED BY <1>5, <1>6

LEMMA OrderIs ==
  ASSUME NEW P, Sound(P)
  PROVE  Sorted(Ordered(P), P)
<1>1. PICK s : Sorted(s, P)  BY OrderExists
<1> QED BY <1>1 DEF Sorted, Ordered

(***************************************************************************)
(* Batches: sequences of the packages, no two of which share one.          *)
(***************************************************************************)
Packed(g, order, n) ==
    g = [i \in 0..n |-> IF i = 0 THEN [batches |-> <<>>, current |-> <<>>, bytes |-> 0]
                        ELSE add_to_batches(g[i - 1], order[i])]

LEMMA PackedExists ==
  ASSUME NEW order, NEW n \in Nat
  PROVE  \E g : Packed(g, order, n)
<1> DEFINE e == [batches |-> <<>>, current |-> <<>>, bytes |-> 0]
           S == {m \in Nat : ~ \E g : Packed(g, order, m)}
<1> SUFFICES ASSUME S # {}  PROVE FALSE
  OBVIOUS
<1>1. PICK m \in S : \A k \in S : m <= k
  <2>1. S \in SUBSET Nat  OBVIOUS
  <2> HIDE DEF S
  <2> QED BY <2>1, Least
<1>2. CASE m = 0
  <2> DEFINE g == [i \in 0..0 |-> e]
  <2>1. g = [i \in 0..0 |-> IF i = 0 THEN e ELSE add_to_batches(g[i - 1], order[i])]  OBVIOUS
  <2>2. Packed(g, order, 0)  BY <2>1 DEF Packed
  <2> QED BY <1>1, <1>2, <2>2
<1>3. CASE m # 0
  <2>1. m \in Nat /\ m - 1 \in Nat /\ m - 1 \notin S  BY <1>1, <1>3
  <2>2. PICK g : Packed(g, order, m - 1)  BY <2>1
  <2> DEFINE h == [i \in 0..m |-> IF i = m THEN add_to_batches(g[m - 1], order[m]) ELSE g[i]]
  <2>3. \A i \in 0..(m - 1) : g[i] = IF i = 0 THEN e ELSE add_to_batches(g[i - 1], order[i])
    BY <2>2 DEF Packed
  <2>4. \A i \in 0..(m - 1) : h[i] = g[i]  BY <2>1
  <2> HIDE DEF e
  <2>5. ASSUME NEW i \in 0..m
        PROVE  h[i] = IF i = 0 THEN e ELSE add_to_batches(h[i - 1], order[i])
    <3>1. CASE i = m
      <4>1. h[i] = add_to_batches(g[m - 1], order[m]) /\ h[m - 1] = g[m - 1]  BY <2>1, <2>4, <3>1
      <4> HIDE DEF h
      <4> QED BY <1>3, <3>1, <4>1
    <3>2. CASE i = 0
      <4>1. 0 \in 0..(m - 1)  BY <2>1
      <4>2. h[0] = g[0] /\ g[0] = e  BY <2>3, <2>4, <4>1
      <4> HIDE DEF h
      <4> QED BY <3>2, <4>2
    <3>3. CASE i # m /\ i # 0
      <4>1. i \in 0..(m - 1) /\ i - 1 \in 0..(m - 1)  BY <2>1, <3>3
      <4>2. h[i] = g[i] /\ h[i - 1] = g[i - 1]  BY <2>4, <4>1
      <4> HIDE DEF h
      <4> QED BY <2>3, <3>3, <4>1, <4>2
    <3> QED BY <3>1, <3>2, <3>3
  <2>6. h = [i \in 0..m |-> h[i]]  OBVIOUS
  <2> HIDE DEF h
  <2>7. Packed(h, order, m)  BY <2>5, <2>6 DEF Packed, e
  <2> QED BY <1>1, <2>7
<1> QED BY <1>2, <1>3

\* The packer after the packages of U: its batches and the one it fills are
\* sequences of them that share nothing.
Packs(acc, U) ==
    /\ acc.batches \in Seq(Seq(U)) /\ acc.current \in Seq(U)
    /\ \A i, j \in DOMAIN acc.batches : i # j => Range(acc.batches[i]) \cap Range(acc.batches[j]) = {}
    /\ \A i \in DOMAIN acc.batches : Range(acc.batches[i]) \cap Range(acc.current) = {}

LEMMA AppendRange ==
  ASSUME NEW U, NEW s \in Seq(U), NEW x
  PROVE  Range(Append(s, x)) = Range(s) \cup {x}
<1>1. DOMAIN s = 1..Len(s) /\ DOMAIN Append(s, x) = 1..Len(s) + 1 /\ Len(s) \in Nat  OBVIOUS
<1>2. \A i \in 1..Len(s) : Append(s, x)[i] = s[i]  OBVIOUS
<1>3. Append(s, x)[Len(s) + 1] = x  OBVIOUS
<1>4. 1..Len(s) + 1 = 1..Len(s) \cup {Len(s) + 1}  BY <1>1
<1> QED BY <1>1, <1>2, <1>3, <1>4 DEF Range

LEMMA SeqRange ==
  ASSUME NEW U, NEW s \in Seq(U)
  PROVE  Range(s) \subseteq U /\ (s = <<>> => Range(s) = {}) /\ (Range(s) = {} => s = <<>>)
BY DEF Range

\* What is appended to the batches shares nothing with them.
LEMMA AppendDisjoint ==
  ASSUME NEW U, NEW b \in Seq(Seq(U)), NEW c \in Seq(U),
         \A i, j \in DOMAIN b : i # j => Range(b[i]) \cap Range(b[j]) = {},
         \A i \in DOMAIN b : Range(b[i]) \cap Range(c) = {}
  PROVE  /\ Append(b, c) \in Seq(Seq(U))
         /\ \A i, j \in DOMAIN Append(b, c) : i # j => Range(Append(b, c)[i]) \cap Range(Append(b, c)[j]) = {}
<1>1. DOMAIN b = 1..Len(b) /\ DOMAIN Append(b, c) = 1..Len(b) + 1 /\ Len(b) \in Nat  OBVIOUS
<1>2. \A i \in 1..Len(b) : Append(b, c)[i] = b[i]  OBVIOUS
<1>3. Append(b, c)[Len(b) + 1] = c  OBVIOUS
<1>4. Append(b, c) \in Seq(Seq(U))  OBVIOUS
<1>5. ASSUME NEW i \in 1..Len(b) + 1, NEW j \in 1..Len(b) + 1, i # j
      PROVE  Range(Append(b, c)[i]) \cap Range(Append(b, c)[j]) = {}
  <2> DEFINE x == Append(b, c)[i]
             y == Append(b, c)[j]
  <2> SUFFICES Range(x) \cap Range(y) = {}
    OBVIOUS
  <2>1. CASE i = Len(b) + 1
    <3>1. j \in DOMAIN b  BY <1>1, <1>5, <2>1
    <3>2. x = c /\ y = b[j]  BY <1>1, <1>2, <1>3, <2>1, <3>1
    <3> HIDE DEF x, y
    <3> QED BY <3>1, <3>2
  <2>2. CASE j = Len(b) + 1
    <3>1. i \in DOMAIN b  BY <1>1, <1>5, <2>2
    <3>2. y = c /\ x = b[i]  BY <1>1, <1>2, <1>3, <2>2, <3>1
    <3> HIDE DEF x, y
    <3> QED BY <3>1, <3>2
  <2>3. CASE i # Len(b) + 1 /\ j # Len(b) + 1
    <3>1. i \in DOMAIN b /\ j \in DOMAIN b  BY <1>1, <1>5, <2>3
    <3>2. x = b[i] /\ y = b[j]  BY <1>1, <1>2, <3>1
    <3> HIDE DEF x, y
    <3> QED BY <1>5, <3>1, <3>2
  <2> QED BY <2>1, <2>2, <2>3
<1> QED BY <1>1, <1>4, <1>5


\* One more package, not packed before.
LEMMA AddKeeps ==
  ASSUME NEW U, NEW acc, Packs(acc, U), NEW p, p \notin U
  PROVE  Packs(add_to_batches(acc, p), U \cup {p})
<1> DEFINE V == U \cup {p}
           full == acc.current # <<>> /\ acc.bytes + p.size > BatchLimit
           cur == IF full THEN <<>> ELSE acc.current
           current == Append(cur, p)
           batches == IF full THEN Append(acc.batches, acc.current) ELSE acc.batches
           next == add_to_batches(acc, p)
<1>1. /\ acc.batches \in Seq(Seq(U)) /\ acc.current \in Seq(U)
      /\ \A i, j \in DOMAIN acc.batches : i # j => Range(acc.batches[i]) \cap Range(acc.batches[j]) = {}
      /\ \A i \in DOMAIN acc.batches : Range(acc.batches[i]) \cap Range(acc.current) = {}
  BY DEF Packs
<1>2. /\ batches \in Seq(Seq(U)) /\ cur \in Seq(U)
      /\ \A i, j \in DOMAIN batches : i # j => Range(batches[i]) \cap Range(batches[j]) = {}
      /\ \A i \in DOMAIN batches : Range(batches[i]) \cap Range(cur) = {}
  <2>1. CASE full
    <3>1. cur = <<>> /\ batches = Append(acc.batches, acc.current)  BY <2>1
    <3> HIDE DEF full, cur, batches
    <3>2. Range(<<>>) = {} /\ <<>> \in Seq(U)  BY DEF Range
    <3>3. /\ batches \in Seq(Seq(U))
          /\ \A i, j \in DOMAIN batches : i # j => Range(batches[i]) \cap Range(batches[j]) = {}
      BY <1>1, <3>1, AppendDisjoint
    <3> QED BY <3>1, <3>2, <3>3
  <2>2. CASE ~full  BY <1>1, <2>2
  <2> QED BY <2>1, <2>2
<1> HIDE DEF full, cur, batches
<1>3. Range(current) = Range(cur) \cup {p} /\ current \in Seq(V)
  <2>1. Range(current) = Range(cur) \cup {p}  BY <1>2, AppendRange
  <2>2. cur \in Seq(V) /\ p \in V  BY <1>2
  <2> QED BY <2>1, <2>2
<1>4. batches \in Seq(Seq(V))
  <2>1. Seq(U) \subseteq Seq(V)  OBVIOUS
  <2> QED BY <1>2, <2>1
<1>5. \A i \in DOMAIN batches : Range(batches[i]) \cap Range(current) = {}
  <2> TAKE i \in DOMAIN batches
  <2>1. batches[i] \in Seq(U)  BY <1>2
  <2>2. p \notin Range(batches[i])  BY <2>1, SeqRange
  <2> QED BY <1>2, <1>3, <2>2
<1> HIDE DEF V, current
<1>6. CASE p.size > BatchLimit
  <2>1. next.batches = Append(batches, current) /\ next.current = <<>>
    BY <1>6 DEF add_to_batches, batches, current, cur, full
  <2> HIDE DEF next
  <2>2. <<>> \in Seq(V) /\ Range(<<>>) = {}  BY DEF Range
  <2>3. /\ next.batches \in Seq(Seq(V))
        /\ \A i, j \in DOMAIN next.batches : i # j => Range(next.batches[i]) \cap Range(next.batches[j]) = {}
    BY <1>2, <1>3, <1>4, <1>5, <2>1, AppendDisjoint
  <2>4. Packs(next, V)  BY <2>1, <2>2, <2>3 DEF Packs
  <2> QED BY <2>4 DEF next, V
<1>7. CASE ~(p.size > BatchLimit)
  <2>1. next.batches = batches /\ next.current = current
    BY <1>7 DEF add_to_batches, batches, current, cur, full
  <2> HIDE DEF next
  <2>2. Packs(next, V)  BY <1>2, <1>3, <1>4, <1>5, <2>1 DEF Packs
  <2> QED BY <2>2 DEF next, V
<1> QED BY <1>6, <1>7

LEMMA BatchesAreDisjoint ==
  ASSUME NEW P, Sound(P), NEW b, b = plan_package_prefetch_batches(P)
  PROVE  /\ b \in Seq(Seq(P))
         /\ \A i, j \in DOMAIN b : i # j => Range(b[i]) \cap Range(b[j]) = {}
<1> DEFINE n == Cardinality(P)
           order == Ordered(P)
           packed == CHOOSE g : Packed(g, order, n)
           end == packed[n]
<1>1. n \in Nat /\ Sorted(order, P)  BY FilesFinite, OrderIs
<1>2. b = IF end.current = <<>> THEN end.batches ELSE Append(end.batches, end.current)
  BY DEF plan_package_prefetch_batches, Packed
<1>3. Packed(packed, order, n)  BY <1>1, PackedExists
<1>4. /\ order \in [1..n -> P]
      /\ \A i, j \in 1..n : i < j => order[i].rank < order[j].rank
  BY <1>1 DEF Sorted
<1> HIDE DEF n, order, packed
<1>5. \A i \in 0..n : packed[i] = IF i = 0 THEN [batches |-> <<>>, current |-> <<>>, bytes |-> 0]
                                  ELSE add_to_batches(packed[i - 1], order[i])
  BY <1>3 DEF Packed
<1> DEFINE Upto(k) == {order[i] : i \in 1..k}
<1>6. \A k \in 1..n : order[k] \notin Upto(k - 1) /\ Upto(k) = Upto(k - 1) \cup {order[k]}
  <2> TAKE k \in 1..n
  <2>1. k \in Nat /\ 1..k = 1..(k - 1) \cup {k}  BY <1>1
  <2>2. \A i \in 1..(k - 1) : order[i] # order[k]
    <3> TAKE i \in 1..(k - 1)
    <3>1. i \in 1..n /\ i < k  BY <1>1, <2>1
    <3>2. order[i].rank < order[k].rank /\ order[k].rank \in Nat  BY <1>4, <3>1 DEF Sound
    <3> QED BY <3>2
  <2> QED BY <2>1, <2>2
<1> DEFINE S == {i \in 0..n : ~Packs(packed[i], Upto(i))}
<1>7. S = {}
  <2> SUFFICES ASSUME S # {}  PROVE FALSE
    OBVIOUS
  <2>1. PICK m \in S : \A k \in S : m <= k
    <3>1. S \in SUBSET Nat  OBVIOUS
    <3> HIDE DEF S
    <3> QED BY <3>1, Least
  <2>2. m \in 0..n /\ ~Packs(packed[m], Upto(m))  OBVIOUS
  <2>3. CASE m = 0
    <3>1. packed[m] = [batches |-> <<>>, current |-> <<>>, bytes |-> 0]  BY <1>5, <2>2, <2>3
    <3>2. Packs(packed[m], Upto(m))  BY <3>1 DEF Packs
    <3> QED BY <2>2, <3>2
  <2>4. CASE m # 0
    <3>1. m \in 1..n /\ m - 1 \in 0..n /\ ~(m <= m - 1)  BY <1>1, <2>2, <2>4
    <3>2. m - 1 \notin S  BY <2>1, <3>1
    <3>3. Packs(packed[m - 1], Upto(m - 1))  BY <3>1, <3>2
    <3>4. packed[m] = add_to_batches(packed[m - 1], order[m])  BY <1>5, <2>2, <2>4
    <3>5. order[m] \notin Upto(m - 1) /\ Upto(m) = Upto(m - 1) \cup {order[m]}  BY <1>6, <3>1
    <3> HIDE DEF Upto
    <3>6. Packs(packed[m], Upto(m))  BY <3>3, <3>4, <3>5, AddKeeps
    <3> QED BY <2>2, <3>6
  <2> QED BY <2>3, <2>4
<1>8. Packs(end, Upto(n)) /\ Upto(n) \subseteq P
  <2>1. n \in 0..n  BY <1>1
  <2> QED BY <1>4, <1>7, <2>1
<1> HIDE DEF end, Upto, S
<1>9. /\ end.batches \in Seq(Seq(P)) /\ end.current \in Seq(P)
      /\ \A i, j \in DOMAIN end.batches : i # j => Range(end.batches[i]) \cap Range(end.batches[j]) = {}
      /\ \A i \in DOMAIN end.batches : Range(end.batches[i]) \cap Range(end.current) = {}
  <2> DEFINE U == Upto(n)
             A == Seq(U)
             B == Seq(P)
  <2>1. A \subseteq B
    <3> HIDE DEF U
    <3> QED BY <1>8 DEF U
  <2>2. Seq(A) \subseteq Seq(B)
    <3> HIDE DEF A, B
    <3> QED BY <2>1
  <2>3. end.batches \in Seq(A) /\ end.current \in A  BY <1>8 DEF Packs
  <2>4. end.batches \in Seq(B) /\ end.current \in B
    <3> HIDE DEF A, B
    <3> QED BY <2>1, <2>2, <2>3
  <2> QED BY <1>8, <2>4 DEF Packs
<1>10. CASE end.current = <<>>  BY <1>2, <1>9, <1>10
<1>11. CASE end.current # <<>>
  <2>1. PICK s, c : s = end.batches /\ c = end.current  OBVIOUS
  <2>2. /\ s \in Seq(Seq(P)) /\ c \in Seq(P)
        /\ \A i, j \in DOMAIN s : i # j => Range(s[i]) \cap Range(s[j]) = {}
        /\ \A i \in DOMAIN s : Range(s[i]) \cap Range(c) = {}
    BY <1>9, <2>1
  <2>3. b = Append(s, c)  BY <1>2, <1>11, <2>1
  <2>4. /\ Append(s, c) \in Seq(Seq(P))
        /\ \A i, j \in DOMAIN Append(s, c) :
              i # j => Range(Append(s, c)[i]) \cap Range(Append(s, c)[j]) = {}
    BY <2>2, AppendDisjoint
  <2> QED BY <2>3, <2>4
<1> QED BY <1>10, <1>11

(***************************************************************************)
(* Shapes are kept.                                                        *)
(***************************************************************************)
LEMMA NewEvidenceShape ==
  ASSUME NEW r
  PROVE  Evidence(NewEvidence(r))
BY DEF NewEvidence, Evidence, EvFields, LedgerFields

LEMMA NoWorkShape == DOMAIN NoWork = WorkFields
BY DEF NoWork, WorkFields

\* The except block: only the failure and the summary of the evidence change.
LEMMA RaiseFacts ==
  ASSUME NEW e, NEW error, Evidence(e), raise_closure_failure(e, error)
  PROVE  /\ Evidence(ev') /\ at' = "raised" /\ owner' \in {"user", owner}
         /\ UNCHANGED <<dirs, run, w, ro, sync, restored, touched>>
         /\ report' = Put(report, run, ev')
         /\ ev'.failure = classify_repository_closure_failure(Substage[at], error, e)
         /\ ev'.summary = summarize_package_progress(e.progress)
         /\ ev'.run = e.run /\ ev'.status = e.status /\ ev'.repositories = e.repositories
         /\ ev'.packages = e.packages /\ ev'.cached_before = e.cached_before /\ ev'.anchor = e.anchor
         /\ ev'.progress = e.progress /\ ev'.cache = e.cache /\ ev'.frozen = e.frozen
         /\ ev'.local = e.local /\ ev'.gate = e.gate /\ ev'.gate_count = e.gate_count
<1>1. ev' = [e EXCEPT !.failure = classify_repository_closure_failure(Substage[at], error, e),
                      !.summary = summarize_package_progress(e.progress)]
  BY DEF raise_closure_failure
<1>2. report' = Put(report, run, ev')
  BY DEF raise_closure_failure, write_repository_closure_evidence, Put
<1>3. /\ at' = "raised" /\ owner' \in {"user", owner}
      /\ UNCHANGED <<dirs, run, w, ro, sync, restored, touched>>
  BY DEF raise_closure_failure, restore_owner
<1> QED BY <1>1, <1>2, <1>3 DEF Evidence, EvFields

\* What one attempt finds and records, by the names of its step.
Found == verified_cached_filenames(cache, w.asked)
Missing == w.pending \ Found
Attempt ==
    [batch |-> w.batch, attempt |-> w.attempt, requested |-> FilesOf(w.asked),
     verified |-> Found, pending |-> Missing,
     result |-> IF IsError(w.err) \/ Missing # {} THEN "fail" ELSE "pass",
     class |-> classify_package_acquisition_failure(w.err, Missing),
     words |-> IF ~IsError(w.err) /\ Missing # {} THEN {"no_valid_files"} ELSE w.err.words]
Told == record_package_progress_attempt(ev.progress, w.batch, Attempt)

LEMMA AcquireFacts ==
  ASSUME Evidence(ev), DOMAIN w = WorkFields, acquire_batch_with_mirror_failover
  PROVE  /\ at = "record" /\ Evidence(ev') /\ DOMAIN w' = WorkFields
         /\ UNCHANGED <<owner, dirs, run, ro, sync, restored, touched>>
         /\ ev'.run = ev.run /\ ev'.status = ev.status /\ ev'.repositories = ev.repositories
         /\ ev'.packages = ev.packages /\ ev'.anchor = ev.anchor /\ ev'.failure = ev.failure
         /\ ev'.cache.audit = ev.cache.audit /\ ev'.cache.reused = ev.cache.reused
         /\ ev'.cache.mirrors = ev.cache.mirrors /\ ev'.cache.batches = ev.cache.batches
         /\ ev'.cache.completed = ev.cache.completed
         /\ ev'.cache.attempts = Append(ev.cache.attempts, Attempt)
         /\ w'.batches = w.batches /\ w'.batch = w.batch /\ w'.pending = Missing /\ w'.spoiled = w.spoiled
         /\ \/ /\ ~attempt_partitions(Attempt) /\ ev'.progress = ev.progress /\ report' = report
               /\ at' = "batch_end" /\ IsError(w'.err) /\ w'.retry = w.retry
            \/ /\ attempt_partitions(Attempt) /\ ev'.progress = Told /\ report' = Put(report, run, ev')
               /\ \/ at' = "batch_end" /\ w'.retry = w.retry /\ (IsError(w'.err) \/ Attempt.result = "pass")
                  \/ /\ at' = "fetch" /\ Attempt.result = "fail" /\ w.attempt # Len(ev.cache.mirrors)
                     /\ w'.attempt = w.attempt + 1
                     /\ w'.retry = IF Missing = {} THEN w.asked ELSE {}
<1> DEFINE noted == [ev EXCEPT !.cache.attempts = Append(@, Attempt)]
           s == summarize_package_progress(Told)
           full == [noted EXCEPT !.progress = Told, !.summary = s,
                             !.cache.verified = s.verified, !.cache.pending = s.pending,
                             !.cache.downloaded = s.verified - ev.cache.reused]
           leave(error) == at' = "batch_end" /\ w' = [w EXCEPT !.pending = Missing, !.err = error]
           exhausted == Message(w.last.words \cup UNION {NameWords(f) : f \in Missing})
<1>1. /\ at = "record"
      /\ UNCHANGED <<owner, dirs, run, ro, sync, restored, touched>>
      /\ IF ~attempt_partitions(Attempt)
         THEN ev' = noted /\ leave(Message({})) /\ UNCHANGED report
         ELSE /\ ev' = full
              /\ write_repository_closure_evidence(ev')
              /\ CASE w.err.kind = "interrupt" -> leave(Interrupt)
                   [] Attempt.result = "pass" -> leave(NoError)
                   [] w.err.kind # "interrupt" /\ Attempt.result = "fail" ->
                        IF w.attempt = Len(ev.cache.mirrors) THEN leave(exhausted)
                        ELSE /\ at' = "fetch"
                             /\ w' = [w EXCEPT !.pending = Missing, !.attempt = @ + 1,
                                               !.retry = IF Missing = {} THEN w.asked ELSE {}]
  BY DEF acquire_batch_with_mirror_failover, Attempt, Found, Missing, Told
<1>2. /\ Evidence(noted) /\ noted.run = ev.run /\ noted.status = ev.status /\ noted.repositories = ev.repositories
      /\ noted.packages = ev.packages /\ noted.anchor = ev.anchor /\ noted.failure = ev.failure
      /\ noted.cache.audit = ev.cache.audit /\ noted.cache.reused = ev.cache.reused
      /\ noted.cache.mirrors = ev.cache.mirrors /\ noted.cache.batches = ev.cache.batches
      /\ noted.cache.completed = ev.cache.completed /\ noted.progress = ev.progress
      /\ noted.cache.attempts = Append(ev.cache.attempts, Attempt)
  BY DEF Evidence, EvFields, LedgerFields
<1> HIDE DEF noted
<1>3. /\ Evidence(full) /\ full.run = noted.run /\ full.status = noted.status /\ full.repositories = noted.repositories
      /\ full.packages = noted.packages /\ full.anchor = noted.anchor /\ full.failure = noted.failure
      /\ full.cache.audit = noted.cache.audit /\ full.cache.reused = noted.cache.reused
      /\ full.cache.mirrors = noted.cache.mirrors /\ full.cache.batches = noted.cache.batches
      /\ full.cache.completed = noted.cache.completed /\ full.progress = Told
      /\ full.cache.attempts = noted.cache.attempts
  BY <1>2 DEF Evidence, EvFields, LedgerFields
<1> HIDE DEF full
<1>4. \A error : leave(error) => /\ DOMAIN w' = WorkFields /\ at' = "batch_end" /\ w'.err = error /\ w'.retry = w.retry
                                 /\ w'.batches = w.batches /\ w'.batch = w.batch /\ w'.pending = Missing
                                 /\ w'.spoiled = w.spoiled
  BY DEF WorkFields
<1>5. IsError(Message({})) /\ IsError(Interrupt) /\ IsError(exhausted)
  BY DEF IsError, Message, Interrupt, Error
<1>6. CASE ~attempt_partitions(Attempt)
  <2>1. ev' = noted /\ leave(Message({})) /\ UNCHANGED report  BY <1>1, <1>6
  <2> HIDE DEF leave
  <2>2. DOMAIN w' = WorkFields /\ at' = "batch_end" /\ IsError(w'.err) /\ w'.retry = w.retry
        /\ w'.batches = w.batches /\ w'.batch = w.batch /\ w'.pending = Missing /\ w'.spoiled = w.spoiled
    BY <1>4, <1>5, <2>1
  <2> QED BY <1>1, <1>2, <1>6, <2>1, <2>2
<1>7. CASE attempt_partitions(Attempt)
  <2>1. ev' = full /\ report' = Put(report, run, ev')
    BY <1>1, <1>7 DEF write_repository_closure_evidence, Put
  <2>2. Attempt.result \in {"pass", "fail"}  BY DEF Attempt
  <2>3. \/ leave(Interrupt) \/ (Attempt.result = "pass" /\ leave(NoError)) \/ leave(exhausted)
        \/ /\ Attempt.result = "fail" /\ w.attempt # Len(ev.cache.mirrors) /\ at' = "fetch"
           /\ w' = [w EXCEPT !.pending = Missing, !.attempt = @ + 1,
                             !.retry = IF Missing = {} THEN w.asked ELSE {}]
    <3> HIDE DEF leave, exhausted
    <3> QED BY <1>1, <1>7, <2>2
  <2>4. /\ DOMAIN w' = WorkFields /\ w'.batches = w.batches /\ w'.batch = w.batch /\ w'.pending = Missing
        /\ w'.spoiled = w.spoiled
        /\ \/ at' = "batch_end" /\ w'.retry = w.retry /\ (IsError(w'.err) \/ Attempt.result = "pass")
           \/ /\ at' = "fetch" /\ Attempt.result = "fail" /\ w.attempt # Len(ev.cache.mirrors)
              /\ w'.attempt = w.attempt + 1
              /\ w'.retry = IF Missing = {} THEN w.asked ELSE {}
    <3>1. CASE leave(Interrupt) \/ (Attempt.result = "pass" /\ leave(NoError)) \/ leave(exhausted)
      <4> HIDE DEF leave, exhausted
      <4> QED BY <1>4, <1>5, <3>1
    <3>2. CASE /\ Attempt.result = "fail" /\ w.attempt # Len(ev.cache.mirrors) /\ at' = "fetch"
               /\ w' = [w EXCEPT !.pending = Missing, !.attempt = @ + 1,
                                 !.retry = IF Missing = {} THEN w.asked ELSE {}]
      BY <3>2 DEF WorkFields
    <3> HIDE DEF leave, exhausted
    <3> QED BY <2>3, <3>1, <3>2
  <2> HIDE DEF leave
  <2> QED BY <1>1, <1>2, <1>3, <1>7, <2>1, <2>4
<1> QED BY <1>6, <1>7

\* The local repository is built from a complete package set, or the step fails.
LEMMA ConstructFacts ==
  ASSUME Evidence(ev), construct_frozen_local_repository
  PROVE  /\ at = "construct" /\ UNCHANGED cache
         /\ \/ \E error : raise_closure_failure(ev, error)
            \/ /\ require_complete_verified_package_set(cache, ev.packages, ev.progress)
               /\ at' = "validate" /\ UNCHANGED <<owner, dirs, report, run, w, sync, restored, touched>>
               /\ Evidence(ev')
               /\ ev'.run = ev.run /\ ev'.status = ev.status /\ ev'.repositories = ev.repositories
               /\ ev'.packages = ev.packages /\ ev'.anchor = ev.anchor /\ ev'.failure = ev.failure
               /\ ev'.progress = ev.progress /\ ev'.summary = summarize_package_progress(ev.progress)
               /\ ev'.cached_before = ev.cache.audit.reused
               /\ ev'.cache.audit = ev.cache.audit /\ ev'.cache.reused = ev.cache.reused
               /\ ev'.cache.mirrors = ev.cache.mirrors /\ ev'.cache.batches = ev.cache.batches
               /\ ev'.cache.completed = ev.cache.completed /\ ev'.cache.attempts = ev.cache.attempts
               /\ ev'.cache.downloaded = Cardinality(ev.packages) - ev.cache.reused
               /\ ev'.cache.verified = Cardinality(ev.packages) /\ ev'.cache.pending = 0
<1> DEFINE built ==
        [ev EXCEPT !.frozen = TRUE, !.gate_count = Cardinality(ev.packages),
                  !.summary = summarize_package_progress(ev.progress),
                  !.cached_before = ev.cache.audit.reused,
                  !.cache.downloaded = Cardinality(ev.packages) - ev.cache.reused,
                  !.cache.verified = Cardinality(ev.packages), !.cache.pending = 0,
                  !.gate = @ \cup {"all_packages_verified", "local_repository_constructed",
                                   "local_repository_read_only", "pacman_config_read_only"}]
<1>1. /\ at = "construct" /\ UNCHANGED cache
      /\ \/ raise_closure_failure(ev, verify_cached_package_files(ev.packages))
         \/ /\ require_complete_verified_package_set(cache, ev.packages, ev.progress)
            /\ at' = "validate" /\ UNCHANGED <<owner, dirs, report, run, w, sync, restored, touched>>
            /\ ev' = built
  BY DEF construct_frozen_local_repository, persistent
<1> DEFINE c == [ev.cache EXCEPT !.downloaded = Cardinality(ev.packages) - ev.cache.reused,
                              !.verified = Cardinality(ev.packages), !.pending = 0]
<1>2. /\ DOMAIN built = EvFields
      /\ built.run = ev.run /\ built.status = ev.status /\ built.repositories = ev.repositories
      /\ built.packages = ev.packages /\ built.anchor = ev.anchor /\ built.failure = ev.failure
      /\ built.progress = ev.progress /\ built.summary = summarize_package_progress(ev.progress)
      /\ built.cached_before = ev.cache.audit.reused
  BY DEF Evidence, EvFields
<1>3. built.cache = c
  BY DEF Evidence, EvFields
<1>4. /\ DOMAIN c = LedgerFields
      /\ c.audit = ev.cache.audit /\ c.reused = ev.cache.reused
      /\ c.mirrors = ev.cache.mirrors /\ c.batches = ev.cache.batches
      /\ c.completed = ev.cache.completed /\ c.attempts = ev.cache.attempts
      /\ c.downloaded = Cardinality(ev.packages) - ev.cache.reused
      /\ c.verified = Cardinality(ev.packages) /\ c.pending = 0
  BY DEF Evidence, LedgerFields
<1> HIDE DEF built, c
<1>5. Evidence(built)  BY <1>2, <1>3, <1>4 DEF Evidence
<1> QED BY <1>1, <1>2, <1>3, <1>4, <1>5

\* The counters are written after a batch; with an error or a file still
\* missing that ends the closure.
LEMMA CountFacts ==
  ASSUME Evidence(ev), DOMAIN w = WorkFields, acquire_prefetch_batches
  PROVE  /\ at = "batch_end" /\ UNCHANGED cache
         /\ \/ /\ at' = "raised"
               /\ \E e, error : Evidence(e) /\ e.status = ev.status /\ e.failure = ev.failure /\ e.progress = ev.progress
                               /\ raise_closure_failure(e, error)
            \/ /\ ~IsError(w.err) /\ FilesOf(Batch) \subseteq verified_cached_filenames(cache, Batch)
               /\ at' = AfterBatch(w.batch + 1, w.batches) /\ report' = Put(report, run, ev')
               /\ UNCHANGED <<owner, dirs, run, ro, sync, restored, touched>>
               /\ Evidence(ev') /\ DOMAIN w' = WorkFields
               /\ w'.batches = w.batches /\ w'.batch = w.batch + 1 /\ w'.attempt = 1 /\ w'.retry = w.retry
               /\ w'.spoiled = w.spoiled
               /\ w'.pending = IF w.batch = Len(w.batches) THEN {} ELSE FilesOf(Range(w.batches[w.batch + 1]))
               /\ ev'.run = ev.run /\ ev'.status = ev.status /\ ev'.repositories = ev.repositories
               /\ ev'.packages = ev.packages /\ ev'.anchor = ev.anchor /\ ev'.failure = ev.failure
               /\ ev'.progress = ev.progress
               /\ ev'.cache.audit = ev.cache.audit /\ ev'.cache.reused = ev.cache.reused
               /\ ev'.cache.mirrors = ev.cache.mirrors /\ ev'.cache.batches = ev.cache.batches
               /\ ev'.cache.completed = w.batch /\ ev'.cache.attempts = ev.cache.attempts
<1> DEFINE verified == verified_cached_filenames(cache, Batch)
           missing == FilesOf(Batch) \ verified
           done == w.done \cup verified
           left2 == w.left \ verified
           counted == [ev EXCEPT !.cache.downloaded = Cardinality(done),
                              !.cache.verified = ev.cache.reused + Cardinality(done),
                              !.cache.pending = Cardinality(left2),
                              !.cache.completed = IF IsError(w.err) \/ missing # {} THEN @ ELSE w.batch,
                              !.summary = summarize_package_progress(ev.progress)]
           next == [w EXCEPT !.done = done, !.left = left2, !.batch = @ + 1, !.attempt = 1,
                             !.last = NoError,
                             !.pending = IF w.batch = Len(w.batches) THEN {}
                                         ELSE FilesOf(Range(w.batches[w.batch + 1]))]
<1>1. /\ at = "batch_end" /\ UNCHANGED cache
      /\ \/ \E error : raise_closure_failure(counted, error)
         \/ /\ ~IsError(w.err) /\ missing = {}
            /\ ev' = counted /\ write_repository_closure_evidence(counted)
            /\ at' = AfterBatch(w.batch + 1, w.batches) /\ w' = next
            /\ UNCHANGED <<owner, dirs, run, ro, sync, restored, touched>>
  BY DEF acquire_prefetch_batches
<1>2. /\ Evidence(counted)
      /\ counted.run = ev.run /\ counted.status = ev.status /\ counted.repositories = ev.repositories
      /\ counted.packages = ev.packages /\ counted.anchor = ev.anchor /\ counted.failure = ev.failure
      /\ counted.progress = ev.progress
      /\ counted.cache.audit = ev.cache.audit /\ counted.cache.reused = ev.cache.reused
      /\ counted.cache.mirrors = ev.cache.mirrors /\ counted.cache.batches = ev.cache.batches
      /\ counted.cache.completed = (IF IsError(w.err) \/ missing # {} THEN ev.cache.completed ELSE w.batch)
      /\ counted.cache.attempts = ev.cache.attempts
  BY DEF Evidence, EvFields, LedgerFields
<1>3. /\ DOMAIN next = WorkFields
      /\ next.batches = w.batches /\ next.batch = w.batch + 1 /\ next.attempt = 1 /\ next.retry = w.retry
      /\ next.spoiled = w.spoiled
      /\ next.pending = IF w.batch = Len(w.batches) THEN {} ELSE FilesOf(Range(w.batches[w.batch + 1]))
  BY DEF WorkFields
<1> HIDE DEF counted, next
<1>4. CASE \E error : raise_closure_failure(counted, error)
  <2>1. at' = "raised"  BY <1>4 DEF raise_closure_failure
  <2> QED BY <1>1, <1>2, <1>4, <2>1
<1>5. CASE ~ \E error : raise_closure_failure(counted, error)
  <2>1. /\ ~IsError(w.err) /\ missing = {} /\ ev' = counted
        /\ at' = AfterBatch(w.batch + 1, w.batches) /\ w' = next
        /\ UNCHANGED <<owner, dirs, run, ro, sync, restored, touched>>
    BY <1>1, <1>5
  <2>2. report' = Put(report, run, ev')
    BY <1>1, <1>5 DEF write_repository_closure_evidence, Put
  <2> QED BY <1>1, <1>2, <1>3, <2>1, <2>2
<1> QED BY <1>4, <1>5

CacheShape(c) == DOMAIN c = Files /\ \A f \in Files : DOMAIN c[f] = {"sha", "sig", "part"}

LEMMA CacheShapes ==
  ASSUME CacheShape(cache), NEW P
  PROVE  /\ CacheShape(audit_persistent_package_cache(cache, P).cache)
         /\ CacheShape(remove_unverified_attempt_files(cache, P))
         /\ \A c : CacheShape(c) => CacheShape(remove_detached_signatures_for_retry(c, P))
<1>1. CacheShape(audit_persistent_package_cache(cache, P).cache)
  BY DEF CacheShape, audit_persistent_package_cache
<1>2. CacheShape(remove_unverified_attempt_files(cache, P))
  <2> DEFINE c == remove_unverified_attempt_files(cache, P)
  <2>1. DOMAIN c = Files  BY DEF remove_unverified_attempt_files
  <2>2. ASSUME NEW f \in Files  PROVE DOMAIN c[f] = {"sha", "sig", "part"}
    <3>1. c[f] \in {cache[f], NoFile, [cache[f] EXCEPT !.part = FALSE]}
      BY DEF remove_unverified_attempt_files
    <3>2. DOMAIN [cache[f] EXCEPT !.part = FALSE] = {"sha", "sig", "part"}  BY DEF CacheShape
    <3>3. DOMAIN NoFile = {"sha", "sig", "part"}  BY DEF NoFile
    <3> HIDE DEF c
    <3> QED BY <3>1, <3>2, <3>3 DEF CacheShape
  <2> HIDE DEF c
  <2>3. CacheShape(c)  BY <2>1, <2>2 DEF CacheShape
  <2> QED BY <2>3 DEF c
<1>3. ASSUME NEW d, CacheShape(d)  PROVE CacheShape(remove_detached_signatures_for_retry(d, P))
  <2> DEFINE c == remove_detached_signatures_for_retry(d, P)
  <2>1. DOMAIN c = Files  BY DEF remove_detached_signatures_for_retry
  <2>2. ASSUME NEW f \in Files  PROVE DOMAIN c[f] = {"sha", "sig", "part"}
    <3>1. c[f] \in {d[f], [d[f] EXCEPT !.sig = FALSE]}
      BY DEF remove_detached_signatures_for_retry
    <3>2. DOMAIN [d[f] EXCEPT !.sig = FALSE] = {"sha", "sig", "part"}  BY <1>3 DEF CacheShape
    <3> HIDE DEF c
    <3> QED BY <1>3, <3>1, <3>2 DEF CacheShape
  <2> HIDE DEF c
  <2>3. CacheShape(c)  BY <2>1, <2>2 DEF CacheShape
  <2> QED BY <2>3 DEF c
<1> QED BY <1>1, <1>2, <1>3

EvShape == Evidence(ev)
WorkShape == DOMAIN w = WorkFields
DiskShape == CacheShape(cache)

LEMMA ClosureShapes ==
  ASSUME EvShape, WorkShape, DiskShape, prepare_repository_closure
  PROVE  EvShape' /\ WorkShape' /\ DiskShape'
<1> USE DEF EvShape, WorkShape, DiskShape
<1>1. CASE setup_closure
  BY <1>1, NewEvidenceShape, NoWorkShape DEF setup_closure
<1>2. CASE parse_artix_mirror_servers
  BY <1>2, RaiseFacts DEF parse_artix_mirror_servers, persistent, WorkFields
<1>3. CASE probe_anchor
  <2>1. CASE \E d \in Dbs :
            /\ sync' = d /\ at' = "freeze"
            /\ w' = [w EXCEPT !.probes = Append(@, {})]
            /\ UNCHANGED <<persistent, run, ev, ro, restored, touched>>
    BY <2>1 DEF persistent, WorkFields
  <2>2. CASE \E text \in Texts :
            LET probes == Append(w.probes, text)
                failed == [ev EXCEPT !.anchor.attempts = probes, !.anchor.status = "fail"]
            IN  IF w.candidate < Mirrors
                THEN /\ w' = [w EXCEPT !.candidate = @ + 1, !.probes = probes]
                     /\ UNCHANGED <<persistent, run, at, ev, ro, sync, restored, touched>>
                ELSE raise_closure_failure(failed, Message({"no_anchor"})) /\ UNCHANGED cache
    <3>1. PICK text \in Texts :
            LET probes == Append(w.probes, text)
                failed == [ev EXCEPT !.anchor.attempts = probes, !.anchor.status = "fail"]
            IN  IF w.candidate < Mirrors
                THEN /\ w' = [w EXCEPT !.candidate = @ + 1, !.probes = probes]
                     /\ UNCHANGED <<persistent, run, at, ev, ro, sync, restored, touched>>
                ELSE raise_closure_failure(failed, Message({"no_anchor"})) /\ UNCHANGED cache
      BY <2>2
    <3> DEFINE failed == [ev EXCEPT !.anchor.attempts = Append(w.probes, text), !.anchor.status = "fail"]
    <3>2. Evidence(failed)  BY DEF Evidence, EvFields
    <3>3. CASE w.candidate < Mirrors  BY <3>1, <3>3 DEF persistent, WorkFields
    <3>4. CASE ~(w.candidate < Mirrors)
      <4>1. raise_closure_failure(failed, Message({"no_anchor"})) /\ UNCHANGED cache  BY <3>1, <3>4
      <4> HIDE DEF failed
      <4> QED BY <3>2, <4>1, RaiseFacts
    <3> QED BY <3>3, <3>4
  <2> QED BY <1>3, <2>1, <2>2 DEF probe_anchor
<1>4. CASE freeze_repository_sync_directory
  BY <1>4 DEF freeze_repository_sync_directory, Evidence, EvFields
<1>5. CASE freeze_resolved_package_evidence
  <2>1. CASE ev' = ev \/ raise_closure_failure(ev, Message({"omitted_targets"}))
    BY <1>5, <2>1, RaiseFacts DEF freeze_resolved_package_evidence
  <2> QED BY <1>5, <2>1 DEF freeze_resolved_package_evidence, Evidence, EvFields
<1>6. CASE audit_cache
  <2> DEFINE audit == audit_persistent_package_cache(cache, ev.packages)
  <2>1. cache' = audit.cache  BY <1>6 DEF audit_cache
  <2>2. CacheShape(cache')  BY <2>1, CacheShapes
  <2>3. DOMAIN w' = WorkFields  BY <1>6 DEF audit_cache
  <2>4. Evidence(ev')  BY <1>6 DEF audit_cache, Evidence, EvFields, LedgerFields
  <2> QED BY <2>2, <2>3, <2>4
<1>7. CASE fetch_mirror_attempt
  <2>1. UNCHANGED ev /\ DOMAIN w' = WorkFields  BY <1>7 DEF fetch_mirror_attempt
  <2>2. CacheShape(cache')
    <3>1. PICK outcome \in [FilesOf(attempt_packages) -> {"right", "wrong", "partial"}] :
            cache' = [f \in Files |->
               IF f \notin DOMAIN outcome THEN cache[f]
               ELSE LET p == Of(attempt_packages, f)
                    IN  CASE outcome[f] = "right" -> [sha |-> p.sha, sig |-> ~p.signed, part |-> FALSE]
                          [] outcome[f] = "wrong" -> [sha |-> "wrong", sig |-> cache[f].sig, part |-> FALSE]
                          [] outcome[f] = "partial" -> [sha |-> None, sig |-> cache[f].sig, part |-> TRUE]]
      BY <1>7 DEF fetch_mirror_attempt
    <3>2. ASSUME NEW f \in Files  PROVE DOMAIN cache'[f] = {"sha", "sig", "part"}
      <4>1. CASE f \notin DOMAIN outcome  BY <3>1, <4>1 DEF CacheShape
      <4>2. CASE f \in DOMAIN outcome
        <5>1. outcome[f] \in {"right", "wrong", "partial"}  BY <4>2
        <5> QED BY <3>1, <4>2, <5>1
      <4> QED BY <4>1, <4>2
    <3> QED BY <3>1, <3>2 DEF CacheShape
  <2> QED BY <2>1, <2>2
<1>8. CASE acquire_batch_with_mirror_failover
  <2>1. DOMAIN w' = WorkFields  BY <1>8, AcquireFacts
  <2>2. Evidence(ev')  BY <1>8, AcquireFacts
  <2>3. CacheShape(cache')  BY <1>8, CacheShapes DEF acquire_batch_with_mirror_failover
  <2> QED BY <2>1, <2>2, <2>3
<1>9. CASE interrupted_between_attempts
  BY <1>9 DEF interrupted_between_attempts, persistent
<1>10. CASE acquire_prefetch_batches
  BY <1>10, CountFacts, RaiseFacts
<1>11. CASE construct_frozen_local_repository
  BY <1>11, ConstructFacts, RaiseFacts
<1>12. CASE validate_local_repository
  <2>1. CASE (\E error : raise_closure_failure(ev, error)) /\ UNCHANGED cache
    BY <2>1, RaiseFacts
  <2> QED BY <1>12, <2>1 DEF validate_local_repository, Evidence, EvFields, persistent
<1>13. CASE restore_outer_owner
  BY <1>13 DEF restore_outer_owner, Evidence, EvFields, LedgerFields
<1>14. CASE seal_closure
  <2> DEFINE passed == [ev EXCEPT !.cache.flags = CacheFlags, !.status = "pass", !.failure = NoFailure,
                                  !.gate = @ \cup {"cache_source_read_only", "cache_read_only"}]
  <2>1. Evidence(passed)  BY DEF Evidence, EvFields, LedgerFields
  <2>2. /\ UNCHANGED cache
        /\ raise_closure_failure(passed, Message({})) \/ (ev' = passed /\ UNCHANGED w)
    BY <1>14 DEF seal_closure
  <2> HIDE DEF passed
  <2> QED BY <2>1, <2>2, RaiseFacts
<1>15. CASE closure_step_fails
  <2>1. Evidence([ev EXCEPT !.status = "pass"])  BY DEF Evidence, EvFields
  <2>2. /\ UNCHANGED cache
        /\ \E error : raise_closure_failure(ev, error) \/ raise_closure_failure([ev EXCEPT !.status = "pass"], error)
    BY <1>15 DEF closure_step_fails
  <2> QED BY <2>1, <2>2, RaiseFacts
<1> QED BY <1>1, <1>2, <1>3, <1>4, <1>5, <1>6, <1>7, <1>8, <1>9, <1>10, <1>11, <1>12, <1>13, <1>14, <1>15
     DEF prepare_repository_closure

\* What a step of the closure does to the rest of the build.
LEMMA ClosureMoves ==
  ASSUME EvShape, WorkShape, prepare_repository_closure
  PROVE  /\ at \in DOMAIN Substage \cup {"setup"} /\ at' \in DOMAIN Substage \cup {"closed", "raised"}
         /\ run' = run /\ owner' \in {"user", "alpm", owner} /\ dirs' \in {dirs, dirs \cup {run}}
         /\ report' = report \/ \E e : report' = Put(report, run, e)
<1> USE DEF EvShape, WorkShape
<1> DEFINE P == DOMAIN Substage
           G == /\ at \in P \cup {"setup"} /\ at' \in P \cup {"closed", "raised"}
                /\ run' = run /\ owner' \in {"user", "alpm", owner} /\ dirs' \in {dirs, dirs \cup {run}}
                /\ report' = report \/ \E e : report' = Put(report, run, e)
<1> SUFFICES G
  OBVIOUS
<1>0. P = {"mirrors", "probe", "freeze", "resolve", "audit", "fetch", "record", "batch_end",
           "construct", "validate", "handoff", "seal"}
  BY DEF Substage
<1> HIDE DEF P
<1>r. ASSUME NEW e, NEW error, raise_closure_failure(e, error)
      PROVE  /\ run' = run /\ owner' \in {"user", owner} /\ dirs' = dirs /\ at' = "raised"
             /\ \E x : report' = Put(report, run, x)
  BY <1>r DEF raise_closure_failure, restore_owner, write_repository_closure_evidence, Put
<1>w. ASSUME NEW e, write_repository_closure_evidence(e)
      PROVE  \E x : report' = Put(report, run, x)
  BY <1>w DEF write_repository_closure_evidence, Put
<1>1. CASE setup_closure  BY <1>0, <1>1 DEF setup_closure
<1>2. CASE parse_artix_mirror_servers  BY <1>0, <1>2, <1>r DEF parse_artix_mirror_servers, persistent
<1>3. CASE probe_anchor  BY <1>0, <1>3, <1>r DEF probe_anchor, persistent
<1>4. CASE freeze_repository_sync_directory  BY <1>0, <1>4, <1>w DEF freeze_repository_sync_directory
<1>5. CASE freeze_resolved_package_evidence  BY <1>0, <1>5, <1>r, <1>w DEF freeze_resolved_package_evidence
<1>6. CASE audit_cache  BY <1>0, <1>6, <1>w DEF audit_cache, AfterBatch
<1>7. CASE fetch_mirror_attempt  BY <1>0, <1>7 DEF fetch_mirror_attempt
<1>8. CASE acquire_batch_with_mirror_failover
  <2>1. at = "record" /\ at' \in {"batch_end", "fetch"} /\ UNCHANGED <<owner, dirs, run>>
        /\ (report' = report \/ report' = Put(report, run, ev'))
    BY <1>8, AcquireFacts
  <2> QED BY <1>0, <2>1
<1>9. CASE interrupted_between_attempts  BY <1>0, <1>9 DEF interrupted_between_attempts, persistent
<1>10. CASE acquire_prefetch_batches
  <2>1. at = "batch_end"  BY <1>10, CountFacts
  <2>2. CASE \E e, error : raise_closure_failure(e, error)  BY <1>0, <1>r, <2>1, <2>2
  <2>3. CASE ~ \E e, error : raise_closure_failure(e, error)
    <3>1. /\ at' = AfterBatch(w.batch + 1, w.batches) /\ report' = Put(report, run, ev')
          /\ UNCHANGED <<owner, dirs, run>>
      BY <1>10, <2>3, CountFacts
    <3> QED BY <1>0, <2>1, <3>1 DEF AfterBatch
  <2> QED BY <2>2, <2>3
<1>11. CASE construct_frozen_local_repository
  <2>1. at = "construct"  BY <1>11, ConstructFacts
  <2>2. CASE \E e, error : raise_closure_failure(e, error)  BY <1>0, <1>r, <2>1, <2>2
  <2>3. CASE ~ \E e, error : raise_closure_failure(e, error)
    <3>1. at' = "validate" /\ UNCHANGED <<owner, dirs, run, report>>  BY <1>11, <2>3, ConstructFacts
    <3> QED BY <1>0, <2>1, <3>1
  <2> QED BY <2>2, <2>3
<1>12. CASE validate_local_repository  BY <1>0, <1>12, <1>r DEF validate_local_repository, persistent
<1>13. CASE restore_outer_owner  BY <1>0, <1>13 DEF restore_outer_owner
<1>14. CASE seal_closure  BY <1>0, <1>14, <1>r, <1>w DEF seal_closure
<1>15. CASE closure_step_fails  BY <1>0, <1>15, <1>r DEF closure_step_fails, P
<1> QED
  BY <1>1, <1>2, <1>3, <1>4, <1>5, <1>6, <1>7, <1>8, <1>9, <1>10, <1>11, <1>12, <1>13, <1>14, <1>15
     DEF prepare_repository_closure

ClosureStep == prepare_repository_closure /\ outer.at = "inner" /\ UNCHANGED nativeVars /\ UNCHANGED iterationVars
InnerStep == (build_iso_inner \/ run_buildiso_after_security_boundary \/ buildiso \/ collect_iso)
             /\ UNCHANGED iterationVars
OuterStep == (run_private_namespace \/ inner_killed \/ build_iso) /\ UNCHANGED iterationVars
HostStep == \/ HostTouchesCache /\ outer.at = "inner" /\ UNCHANGED nativeVars /\ UNCHANGED iterationVars
            \/ (prepare_mounted \/ SurvivorsEnd) /\ UNCHANGED iterationVars
AgainStep == BuildAgain /\ it.at = "idle" /\ UNCHANGED iterationVars
IterationStep ==
    \/ start_iteration \/ run_step \/ execute_native_iso \/ run_streamed_builder
    \/ finish_interrupted \/ finish \/ hand_build_ends

LEMMA StepIs ==
  ASSUME [Next]_vars
  PROVE  ClosureStep \/ InnerStep \/ OuterStep \/ HostStep \/ AgainStep \/ IterationStep \/ HostCrash \/ UNCHANGED vars
BY DEF Next, NativeStep, NativeEnvironment, ClosureStep, InnerStep, OuterStep, HostStep, AgainStep, IterationStep

\* The outer process: evidence of a refusal, or the inner process is started.
LEMMA StartFacts ==
  ASSUME NEW r, start_build_iso(r)
  PROVE  /\ r \in staged /\ iso[r] # "artifact" /\ run' = r
         /\ DOMAIN outer' = {"at", "err", "loops"} /\ outer'.err \in BOOLEAN
         /\ \/ /\ left[r] # {} /\ outer'.at = "exited" /\ outer'.err /\ at' = at
               /\ \E c : c.status = "fail" /\ cleanup' = Put(cleanup, r, c)
            \/ /\ left[r] = {} /\ outer'.at = "inner" /\ at' = "inner" /\ cleanup' = cleanup
<1>1. CleanupReport(FALSE, FALSE, r, {}, r \notin scratch).status = "fail"  BY DEF CleanupReport
<1>2. r \in staged /\ iso[r] # "artifact" /\ run' = r  BY DEF start_build_iso, load_native_manifest
<1>3. CASE left[r] # {}
  <2>1. /\ cleanup' = Put(cleanup, r, CleanupReport(FALSE, FALSE, r, {}, r \notin scratch))
        /\ outer' = [at |-> "exited", err |-> TRUE, loops |-> loops] /\ at' = at
    BY <1>3 DEF start_build_iso
  <2> QED BY <1>1, <1>2, <1>3, <2>1
<1>4. CASE left[r] = {}
  <2>1. outer' = [at |-> "inner", err |-> FALSE, loops |-> loops] /\ at' = "inner" /\ cleanup' = cleanup
    BY <1>4 DEF start_build_iso
  <2> QED BY <1>2, <1>4, <2>1
<1> QED BY <1>3, <1>4

LEMMA ShapeKeeps ==
  ASSUME ShapeInv, [Next]_vars
  PROVE  ShapeInv'
<1> USE DEF ShapeInv, CacheShape
<1>1. CASE ClosureStep
  <2>1. EvShape /\ WorkShape /\ DiskShape  BY DEF EvShape, WorkShape, DiskShape
  <2>2. EvShape' /\ WorkShape' /\ DiskShape'  BY <1>1, <2>1, ClosureShapes DEF ClosureStep
  <2> QED BY <1>1, <2>2 DEF EvShape, WorkShape, DiskShape, ClosureStep, nativeVars, iterationVars
<1>2. CASE InnerStep
  BY <1>2 DEF InnerStep, build_iso_inner, run_buildiso_after_security_boundary, buildiso, collect_iso,
     persistent, nativeVars, iterationVars
<1>3. CASE OuterStep
  <2>1. CASE run_private_namespace
    BY <1>3, <2>1, NewEvidenceShape, NoWorkShape DEF OuterStep, run_private_namespace, inner_is_gone, persistent, iterationVars
  <2>2. CASE inner_killed
    BY <1>3, <2>2, NewEvidenceShape, NoWorkShape DEF OuterStep, inner_killed, inner_is_gone, persistent, iterationVars
  <2>3. CASE build_iso
    BY <1>3, <2>3 DEF OuterStep, build_iso, closureVars, persistent, process, iterationVars
  <2> QED BY <1>3, <2>1, <2>2, <2>3 DEF OuterStep
<1>4. CASE HostStep
  <2>1. CASE HostTouchesCache /\ UNCHANGED nativeVars
    <3>1. PICK f \in Files, sha \in {None, "wrong"} : cache' = [cache EXCEPT ![f].sha = sha]
      BY <2>1 DEF HostTouchesCache
    <3>2. DOMAIN cache' = Files /\ \A g \in Files : DOMAIN cache'[g] = {"sha", "sig", "part"}
      <4>1. DOMAIN cache' = Files  BY <3>1
      <4>2. ASSUME NEW g \in Files  PROVE DOMAIN cache'[g] = {"sha", "sig", "part"}
        <5>1. cache'[g] = IF g = f THEN [cache[f] EXCEPT !.sha = sha] ELSE cache[g]  BY <3>1
        <5> QED BY <5>1
      <4> QED BY <4>1, <4>2
    <3> QED BY <1>4, <2>1, <3>2 DEF HostStep, HostTouchesCache, process, nativeVars, iterationVars,
                                   prepare_mounted, SurvivorsEnd, closureVars, persistent
  <2> QED BY <1>4, <2>1 DEF HostStep, prepare_mounted, SurvivorsEnd, closureVars, persistent, process, iterationVars
<1>5. CASE AgainStep
  <2>1. PICK r : start_build_iso(r)  BY <1>5 DEF AgainStep, BuildAgain
  <2> QED BY <1>5, <2>1, StartFacts DEF AgainStep, BuildAgain, persistent, iterationVars
<1>6. CASE IterationStep
  <2>1. CASE start_iteration
    BY <2>1 DEF start_iteration, closureVars, nativeVars, persistent, process
  <2>2. CASE run_step
    <3>1. it' \in {[it EXCEPT !.step = @ + 1], [it EXCEPT !.at = "build"], ItIdle}  BY <2>2 DEF run_step
    <3> QED BY <2>2, <3>1 DEF run_step, closureVars, persistent, process, ItIdle
  <2>3. CASE execute_native_iso
    <3>1. it' \in {[it EXCEPT !.at = "wait"], [it EXCEPT !.at = "capture", !.code = EXIT_UNRESOLVED]}
          /\ (start_build_iso(latest) \/ outer' = outer)
          /\ UNCHANGED <<persistent, ev, w, iso, left>>
      BY <2>3 DEF execute_native_iso
    <3> QED BY <3>1, StartFacts DEF persistent
  <2>4. CASE run_streamed_builder
    <3>1. it' \in {[it EXCEPT !.at = "capture", !.code = IF outer.err THEN 1 ELSE 0],
                   [it EXCEPT !.at = "interrupted", !.code = EXIT_INTERRUPTED]}
          /\ outer' \in {OuterIdle, outer} /\ UNCHANGED <<persistent, ev, w, iso, left>>
      BY <2>4 DEF run_streamed_builder, closureVars, process
    <3>2. DOMAIN it' = {"at", "step", "code"}  BY <3>1
    <3>3. DOMAIN outer' = {"at", "err", "loops"} /\ outer'.err \in BOOLEAN
      <4>1. CASE outer' = OuterIdle  BY <4>1 DEF OuterIdle
      <4>2. CASE outer' = outer  BY <4>2
      <4> QED BY <3>1, <4>1, <4>2
    <3> QED BY <3>1, <3>2, <3>3 DEF persistent
  <2>5. CASE finish_interrupted
    BY <2>5 DEF finish_interrupted, closureVars, nativeVars, persistent, process, ItIdle
  <2>6. CASE finish
    BY <2>6 DEF finish, closureVars, nativeVars, persistent, process, ItIdle
  <2>7. CASE hand_build_ends
    BY <2>7 DEF hand_build_ends, closureVars, iterationVars, persistent, process, OuterIdle
  <2> QED BY <1>6, <2>1, <2>2, <2>3, <2>4, <2>5, <2>6, <2>7 DEF IterationStep
<1>7. CASE HostCrash
  BY <1>7, NewEvidenceShape, NoWorkShape DEF HostCrash, inner_is_gone, persistent, ItIdle, OuterIdle
<1>8. CASE UNCHANGED vars
  BY <1>8 DEF vars, closureVars, nativeVars, iterationVars, persistent, process
<1> QED BY <1>1, <1>2, <1>3, <1>4, <1>5, <1>6, <1>7, <1>8, StepIs

(***************************************************************************)
(* The processes and the records of a run.                                 *)
(***************************************************************************)
LEMMA SubstageIs ==
  DOMAIN Substage = {"mirrors", "probe", "freeze", "resolve", "audit", "fetch", "record", "batch_end",
                     "construct", "validate", "handoff", "seal"}
BY DEF Substage

\* The end of a run: its metadata, sealed, and the checksums of its files.
LEMMA SealFacts ==
  ASSUME NEW r, NEW status, NEW stage, NEW code, NEW records,
         finalize_checksums(r, Metadata(status, stage, code, records))
  PROVE  /\ \A x : x \in DOMAIN meta' <=> x \in DOMAIN meta \/ x = r
         /\ \A x : x \in DOMAIN sums' <=> x \in DOMAIN sums \/ x = r
         /\ meta'[r].status = status /\ meta'[r].code = code /\ meta'[r].records = records
         /\ sums'[r] = SealedFiles(r, meta'[r])
         /\ \A x \in DOMAIN meta : x # r => meta'[x] = meta[x]
         /\ \A x \in DOMAIN sums : x # r => sums'[x] = sums[x]
<1> DEFINE m == [Metadata(status, stage, code, records) EXCEPT !.sealed = TRUE]
<1>1. meta' = Put(meta, r, m) /\ sums' = Put(sums, r, SealedFiles(r, m))
  BY DEF finalize_checksums
<1>2. m.status = status /\ m.code = code /\ m.records = records
  BY DEF Metadata
<1> HIDE DEF m
<1>3. meta'[r] = m /\ sums'[r] = SealedFiles(r, m)  BY <1>1 DEF Put
<1>4. SealedFiles(r, meta'[r]) = SealedFiles(r, m)  BY <1>3
<1> QED BY <1>1, <1>2, <1>3, <1>4 DEF Put

LEMMA FailFacts ==
  ASSUME NEW r, NEW stage, NEW code, NEW records, fail_run(r, stage, code, records)
  PROVE  /\ \A x : x \in DOMAIN meta' <=> x \in DOMAIN meta \/ x = r
         /\ \A x : x \in DOMAIN sums' <=> x \in DOMAIN sums \/ x = r
         /\ meta'[r].status \in {"blocked", "failed"} /\ meta'[r].code = code /\ meta'[r].records = records
         /\ sums'[r] = SealedFiles(r, meta'[r])
         /\ \A x \in DOMAIN meta : x # r => meta'[x] = meta[x]
         /\ \A x \in DOMAIN sums : x # r => sums'[x] = sums[x]
<1> DEFINE status == IF code = EXIT_UNRESOLVED THEN "blocked" ELSE "failed"
<1>1. finalize_checksums(r, Metadata(status, stage, code, records))  BY DEF fail_run
<1>2. status \in {"blocked", "failed"}  OBVIOUS
<1> HIDE DEF status
<1> QED BY <1>1, <1>2, SealFacts

LEMMA ProcessKeeps ==
  ASSUME ShapeInv, ProcessInv, [Next]_vars
  PROVE  ProcessInv'
<1> USE SubstageIs DEF ProcessInv, Places
<1>o. DOMAIN outer = {"at", "err", "loops"} /\ DOMAIN it = {"at", "step", "code"}  BY DEF ShapeInv
<1>1. CASE ClosureStep
  <2>1. EvShape /\ WorkShape  BY DEF EvShape, WorkShape, ShapeInv
  <2>2. /\ at \in DOMAIN Substage \cup {"setup"} /\ at' \in DOMAIN Substage \cup {"closed", "raised"}
        /\ run' = run /\ owner' \in {"user", "alpm", owner} /\ dirs' \in {dirs, dirs \cup {run}}
        /\ report' = report \/ \E e : report' = Put(report, run, e)
    BY <1>1, <2>1, ClosureMoves DEF ClosureStep
  <2>3. DOMAIN report' \subseteq DOMAIN report \cup {run}  BY <2>2 DEF Put
  <2>4. outer.at = "inner" /\ UNCHANGED <<nativeVars, iterationVars>>  BY <1>1 DEF ClosureStep
  <2> QED BY <2>2, <2>3, <2>4 DEF nativeVars, iterationVars
<1>2. CASE InnerStep
  <2>1. CASE build_iso_inner
    BY <1>2, <2>1 DEF InnerStep, build_iso_inner, persistent, iterationVars
  <2>2. CASE run_buildiso_after_security_boundary
    BY <1>2, <2>2 DEF InnerStep, run_buildiso_after_security_boundary, persistent, nativeVars, iterationVars
  <2>3. CASE buildiso
    BY <1>2, <2>3 DEF InnerStep, buildiso, persistent, iterationVars
  <2>4. CASE collect_iso
    <3>1. DOMAIN result' \subseteq DOMAIN result \cup {run}  BY <2>4 DEF collect_iso, Put
    <3> QED BY <1>2, <2>4, <3>1 DEF InnerStep, collect_iso, persistent, iterationVars
  <2> QED BY <1>2, <2>1, <2>2, <2>3, <2>4 DEF InnerStep
<1>3. CASE OuterStep
  <2>1. CASE run_private_namespace
    <3>1. outer'.at = "sweep"  BY <1>o, <2>1 DEF run_private_namespace
    <3>2. loops' \in {loops, loops \cup {run}}  BY <2>1 DEF run_private_namespace
    <3> QED BY <1>3, <2>1, <3>1, <3>2 DEF OuterStep, run_private_namespace, inner_is_gone, persistent, iterationVars
  <2>2. CASE inner_killed
    <3>1. outer'.at = "sweep"  BY <1>o, <2>2 DEF inner_killed
    <3> QED BY <1>3, <2>2, <3>1 DEF OuterStep, inner_killed, inner_is_gone, persistent, iterationVars
  <2>3. CASE build_iso
    <3>1. outer'.at = "exited" /\ outer.at = "sweep"  BY <1>o, <2>3 DEF build_iso
    <3>2. DOMAIN cleanup' = DOMAIN cleanup \cup {run} /\ scratch' \subseteq scratch  BY <2>3 DEF build_iso, Put
    <3> QED BY <1>3, <2>3, <3>1, <3>2 DEF OuterStep, build_iso, closureVars, process, persistent, iterationVars
  <2> QED BY <1>3, <2>1, <2>2, <2>3 DEF OuterStep
<1>4. CASE HostStep
  BY <1>4 DEF HostStep, HostTouchesCache, prepare_mounted, SurvivorsEnd, closureVars, process, persistent,
     nativeVars, iterationVars
<1>5. CASE AgainStep
  <2>1. PICK r \in DOMAIN cleanup : start_build_iso(r)  BY <1>5 DEF AgainStep, BuildAgain
  <2>2. again' = again + 1 /\ outer.at = "idle" /\ it.at = "idle"  BY <1>5 DEF AgainStep, BuildAgain
  <2>3. /\ run' = r
        /\ \/ outer'.at = "exited" /\ at' = at /\ \E c : cleanup' = Put(cleanup, r, c)
           \/ outer'.at = "inner" /\ at' = "inner" /\ cleanup' = cleanup
    BY <2>1, StartFacts
  <2>4. DOMAIN cleanup' = DOMAIN cleanup  BY <2>1, <2>3 DEF Put
  <2> QED BY <1>5, <2>1, <2>2, <2>3, <2>4 DEF AgainStep, BuildAgain, persistent, iterationVars
<1>6. CASE IterationStep
  <2>1. CASE start_iteration
    <3>1. PICK r \in Runs \ DOMAIN meta : meta' = Put(meta, r, Metadata("running", None, 0, NoRecords)) /\ latest' = r
      BY <2>1 DEF start_iteration
    <3>2. DOMAIN meta' = DOMAIN meta \cup {r} /\ meta'[r].status = "running"
          /\ \A x \in DOMAIN meta : meta'[x] = meta[x]
      BY <3>1 DEF Metadata, Put
    <3> QED BY <2>1, <3>1, <3>2 DEF start_iteration, closureVars, nativeVars, process, persistent
  <2>2. CASE run_step
    <3>1. /\ it.at = "steps" /\ staged' \in {staged, staged \cup {latest}}
          /\ \/ it' \in {[it EXCEPT !.step = @ + 1], [it EXCEPT !.at = "build"]} /\ UNCHANGED <<meta, sums>>
             \/ it' = ItIdle /\ \E code : fail_run(latest, Steps[it.step], code, NoRecords)
      BY <2>2 DEF run_step
    <3>2. CASE it' \in {[it EXCEPT !.step = @ + 1], [it EXCEPT !.at = "build"]} /\ UNCHANGED <<meta, sums>>
      <4>1. it'.at \in {"steps", "build"}  BY <1>o, <3>1, <3>2
      <4> QED BY <2>2, <3>1, <3>2, <4>1 DEF run_step, closureVars, process, persistent
    <3>3. CASE it' = ItIdle /\ \E code : fail_run(latest, Steps[it.step], code, NoRecords)
      <4>1. it'.at = "idle"  BY <3>3 DEF ItIdle
      <4>2. /\ DOMAIN meta' = DOMAIN meta /\ \A x : x \in DOMAIN sums' <=> x \in DOMAIN sums \/ x = latest
            /\ meta'[latest].status \in {"blocked", "failed"} /\ \A x \in DOMAIN meta : x # latest => meta'[x] = meta[x]
        <5>1. PICK code : fail_run(latest, Steps[it.step], code, NoRecords)  BY <3>3
        <5>2. /\ \A x : x \in DOMAIN meta' <=> x \in DOMAIN meta \/ x = latest
              /\ \A x : x \in DOMAIN sums' <=> x \in DOMAIN sums \/ x = latest
              /\ meta'[latest].status \in {"blocked", "failed"} /\ \A x \in DOMAIN meta : x # latest => meta'[x] = meta[x]
          BY <5>1, FailFacts
        <5>3. latest \in DOMAIN meta  BY <3>1
        <5> QED BY <5>2, <5>3
      <4> QED BY <2>2, <3>1, <3>3, <4>1, <4>2 DEF run_step, closureVars, process, persistent
    <3> QED BY <3>1, <3>2, <3>3
  <2>3. CASE execute_native_iso
    <3>1. it.at = "build"  BY <2>3 DEF execute_native_iso
    <3>2. CASE start_build_iso(latest) /\ it' = [it EXCEPT !.at = "wait"]
      <4>1. it'.at = "wait"  BY <1>o, <3>2
      <4>2. /\ run' = latest
            /\ \/ outer'.at = "exited" /\ at' = at /\ \E c : cleanup' = Put(cleanup, latest, c)
               \/ outer'.at = "inner" /\ at' = "inner" /\ cleanup' = cleanup
        BY <3>2, StartFacts
      <4>3. DOMAIN cleanup' \subseteq DOMAIN cleanup \cup {latest}  BY <4>2 DEF Put
      <4> QED BY <2>3, <3>1, <4>1, <4>2, <4>3 DEF execute_native_iso, persistent
    <3>3. CASE it' = [it EXCEPT !.at = "capture", !.code = EXIT_UNRESOLVED] /\ UNCHANGED <<run, at, cleanup, outer>>
      <4>1. it'.at = "capture"  BY <1>o, <3>3
      <4> QED BY <2>3, <3>1, <3>3, <4>1 DEF execute_native_iso, persistent
    <3> QED BY <2>3, <3>2, <3>3 DEF execute_native_iso
  <2>4. CASE run_streamed_builder
    <3>1. OuterIdle.at = "idle"  BY DEF OuterIdle
    <3>2. \/ outer'.at = "idle" /\ it'.at \in {"capture", "interrupted"}
          \/ outer.at = "sweep" /\ outer' = outer /\ it'.at = "interrupted"
      BY <1>o, <2>4, <3>1 DEF run_streamed_builder
    <3> QED BY <2>4, <3>2 DEF run_streamed_builder, closureVars, process, persistent
  <2>5. CASE finish_interrupted
    <3>1. it.at = "interrupted" /\ it'.at = "idle"  BY <2>5 DEF finish_interrupted, ItIdle
    <3>2. /\ DOMAIN meta' = DOMAIN meta /\ \A x : x \in DOMAIN sums' <=> x \in DOMAIN sums \/ x = latest
          /\ meta'[latest].status \in {"blocked", "failed"} /\ meta'[latest].code = EXIT_INTERRUPTED
          /\ \A x \in DOMAIN meta : x # latest => meta'[x] = meta[x]
      <4>1. \E stage, records : fail_run(latest, stage, EXIT_INTERRUPTED, records)  BY <2>5 DEF finish_interrupted
      <4>2. /\ \A x : x \in DOMAIN meta' <=> x \in DOMAIN meta \/ x = latest
            /\ \A x : x \in DOMAIN sums' <=> x \in DOMAIN sums \/ x = latest
            /\ meta'[latest].status \in {"blocked", "failed"} /\ meta'[latest].code = EXIT_INTERRUPTED
            /\ \A x \in DOMAIN meta : x # latest => meta'[x] = meta[x]
        BY <4>1, FailFacts
      <4>3. latest \in DOMAIN meta  BY <3>1
      <4> QED BY <4>2, <4>3
    <3> QED BY <2>5, <3>1, <3>2 DEF finish_interrupted, closureVars, nativeVars, process, persistent
  <2>6. CASE finish
    <3>1. it.at = "capture" /\ it'.at = "idle"  BY <2>6 DEF finish, ItIdle
    <3>2. /\ DOMAIN meta' = DOMAIN meta /\ \A x : x \in DOMAIN sums' <=> x \in DOMAIN sums \/ x = latest
          /\ meta'[latest].status \in {"blocked", "failed", "succeeded"}
          /\ \A x \in DOMAIN meta : x # latest => meta'[x] = meta[x]
      <4>1. \/ finalize_checksums(latest, Metadata("succeeded", None, 0, Recorded(latest)))
            \/ \E stage, code, records : fail_run(latest, stage, code, records)
        BY <2>6 DEF finish
      <4>2. /\ \A x : x \in DOMAIN meta' <=> x \in DOMAIN meta \/ x = latest
            /\ \A x : x \in DOMAIN sums' <=> x \in DOMAIN sums \/ x = latest
            /\ meta'[latest].status \in {"blocked", "failed", "succeeded"}
            /\ \A x \in DOMAIN meta : x # latest => meta'[x] = meta[x]
        <5>1. CASE finalize_checksums(latest, Metadata("succeeded", None, 0, Recorded(latest)))
          BY <5>1, SealFacts
        <5>2. CASE \E stage, code, records : fail_run(latest, stage, code, records)
          BY <5>2, FailFacts
        <5> QED BY <4>1, <5>1, <5>2
      <4>3. latest \in DOMAIN meta  BY <3>1
      <4> QED BY <4>2, <4>3
    <3> QED BY <2>6, <3>1, <3>2 DEF finish, closureVars, nativeVars, process, persistent
  <2>7. CASE hand_build_ends
    BY <2>7 DEF hand_build_ends, closureVars, iterationVars, process, persistent, OuterIdle
  <2> QED BY <1>6, <2>1, <2>2, <2>3, <2>4, <2>5, <2>6, <2>7 DEF IterationStep
<1>7. CASE HostCrash
  BY <1>7 DEF HostCrash, inner_is_gone, persistent, ItIdle, OuterIdle
<1>8. CASE UNCHANGED vars
  BY <1>8 DEF vars, closureVars, nativeVars, iterationVars, persistent, process
<1> QED BY <1>1, <1>2, <1>3, <1>4, <1>5, <1>6, <1>7, <1>8, StepIs

(***************************************************************************)
(* The closure, place by place.                                            *)
(***************************************************************************)
Inside == DOMAIN Substage \cup {"closed"}

\* What is not a step of the closure leaves its variables alone, or leaves it;
\* only another process of the host changes the cache.
LEMMA OtherSteps ==
  ASSUME ShapeInv, ProcessInv, [Next]_vars, ~ClosureStep
  PROVE  /\ report' = report
         /\ \/ at' \notin Inside
            \/ /\ UNCHANGED <<owner, process>>
               /\ UNCHANGED <<cache, touched>> \/ HostTouchesCache
<1> USE SubstageIs DEF Inside
<1>1. CASE InnerStep
  BY <1>1 DEF InnerStep, build_iso_inner, run_buildiso_after_security_boundary, buildiso, collect_iso, persistent
<1>2. CASE OuterStep
  BY <1>2 DEF OuterStep, run_private_namespace, inner_killed, build_iso, inner_is_gone, persistent, closureVars
<1>3. CASE HostStep
  BY <1>3 DEF HostStep, HostTouchesCache, prepare_mounted, SurvivorsEnd, closureVars, persistent
<1>4. CASE AgainStep
  <2>1. PICK r : start_build_iso(r)  BY <1>4 DEF AgainStep, BuildAgain
  <2>2. at' \in {at, "inner"} /\ outer.at = "idle"  BY <1>4, <2>1, StartFacts DEF AgainStep, BuildAgain
  <2>3. at = "dead"  BY <2>2 DEF ProcessInv
  <2> QED BY <1>4, <2>2, <2>3 DEF AgainStep, BuildAgain, persistent
<1>5. CASE IterationStep
  <2>1. CASE execute_native_iso
    <3>1. it.at = "build"  BY <2>1 DEF execute_native_iso
    <3>2. at = "dead"  BY <3>1 DEF ProcessInv
    <3>3. at' \in {at, "inner"}  BY <2>1, StartFacts DEF execute_native_iso
    <3> QED BY <2>1, <3>2, <3>3 DEF execute_native_iso, persistent
  <2>2. CASE ~execute_native_iso
    <3>1. UNCHANGED closureVars
      BY <1>5, <2>2 DEF IterationStep, start_iteration, run_step, run_streamed_builder, finish_interrupted,
         finish, hand_build_ends
    <3> QED BY <3>1 DEF closureVars, persistent
  <2> QED BY <2>1, <2>2
<1>6. CASE HostCrash  BY <1>6 DEF HostCrash, inner_is_gone, persistent
<1>7. CASE UNCHANGED vars  BY <1>7 DEF vars, closureVars, persistent
<1> QED BY <1>1, <1>2, <1>3, <1>4, <1>5, <1>6, <1>7, StepIs

\* What later steps keep of what the first ones froze.
SameClosure ==
    /\ run' = run /\ sync' = sync
    /\ ev'.run = ev.run /\ ev'.repositories = ev.repositories /\ ev'.anchor = ev.anchor
    /\ ev'.packages = ev.packages /\ DOMAIN ev'.progress = DOMAIN ev.progress

LEMMA MirrorsAre == Mirrors \in Nat \ {0} /\ MaxAttempts \in Nat \ {0}
BY ClosureAssumption

LEMMA ClosureKeeps ==
  ASSUME ShapeInv, ProcessInv, ClosureInv, [Next]_vars
  PROVE  ClosureInv'
<1> USE SubstageIs
<1> DEFINE Places2 == DOMAIN Substage
<1>o. ASSUME at' \notin Inside  PROVE ClosureInv'
  BY <1>o DEF Inside, ClosureInv, Begun, Probing, Anchored, Unfinished, NothingYet, Frozen, Closed, Resolved
<1>r. ASSUME NEW e, NEW error, raise_closure_failure(e, error)  PROVE ClosureInv'
  <2>1. at' = "raised"  BY <1>r DEF raise_closure_failure
  <2> QED BY <1>o, <2>1 DEF Inside
<1>k. ASSUME at \in Resolved, at' \in Resolved, SameClosure
      PROVE  Anchored' /\ Frozen'
  BY <1>k DEF SameClosure, ClosureInv, Anchored, Frozen, Resolved
<1>m. ASSUME at \in Resolved \ {"audit", "closed"}, at' \in Resolved \ {"audit", "seal", "closed"}, SameClosure,
             ev'.status = ev.status, ev'.failure = ev.failure
      PROVE  ClosureInv'
  <2>1. Anchored' /\ Frozen'  BY <1>k, <1>m
  <2>2. Begun' /\ Probing' /\ NothingYet' /\ Closed'
    BY <1>m DEF Begun, Probing, NothingYet, Closed, Resolved
  <2>3. Unfinished'  BY <1>m DEF Unfinished, ClosureInv, Resolved
  <2> QED BY <2>1, <2>2, <2>3 DEF ClosureInv
<1>1. CASE ~ClosureStep
  <2>1. CASE at' \notin Inside  BY <1>o, <2>1
  <2>2. CASE UNCHANGED <<owner, process>> /\ report' = report
    BY <2>2 DEF process, ClosureInv, Begun, Probing, Anchored, Unfinished, NothingYet, Frozen, Closed
  <2> QED BY <1>1, <2>1, <2>2, OtherSteps
<1>2. CASE ClosureStep
  <2>p. prepare_repository_closure  BY <1>2 DEF ClosureStep
  <2>e. Evidence(ev) /\ DOMAIN w = WorkFields  BY DEF ShapeInv
  <2>1. CASE setup_closure
    <3>1. CASE at' = "raised"  BY <1>o, <3>1 DEF Inside
    <3>2. CASE at' # "raised"
      <4>1. at' = "mirrors" /\ ev' = NewEvidence(run') /\ w' = NoWork  BY <2>1, <3>2 DEF setup_closure
      <4>2. ev'.status = "fail" /\ ev'.failure = NoFailure  BY <4>1 DEF NewEvidence
      <4> QED BY <4>1, <4>2 DEF ClosureInv, Begun, Probing, Anchored, Unfinished, NothingYet, Frozen, Closed, Resolved
    <3> QED BY <3>1, <3>2
  <2>2. CASE parse_artix_mirror_servers
    <3>1. CASE at' = "probe" /\ w' = [w EXCEPT !.candidate = 1] /\ at = "mirrors" /\ UNCHANGED <<run, ev>>
      <4>1. w'.candidate = 1 /\ w'.probes = <<>>
        BY <3>1 DEF ClosureInv, Probing, NoWork
      <4>2. 1 \in 1..Mirrors  BY MirrorsAre
      <4>3. Len(w'.probes) = w'.candidate - 1 /\ w'.probes \in Seq(Texts \cup {{}})  BY <4>1
      <4>4. Probing'  BY <3>1, <4>1, <4>2, <4>3 DEF Probing
      <4> QED BY <3>1, <4>4 DEF ClosureInv, Begun, Anchored, Unfinished, NothingYet, Frozen, Closed, Resolved
    <3> QED BY <1>r, <2>2, <3>1 DEF parse_artix_mirror_servers
  <2>3. CASE probe_anchor
    <3>0. /\ at = "probe" /\ w.candidate \in 1..Mirrors /\ Len(w.probes) = w.candidate - 1
          /\ w.probes \in Seq(Texts \cup {{}}) /\ ev = NewEvidence(run) /\ ev.status = "fail" /\ ev.failure = NoFailure
      BY <2>3 DEF probe_anchor, ClosureInv, Probing, Begun, Unfinished
    <3>1. CASE \E d \in Dbs : /\ sync' = d /\ at' = "freeze"
                              /\ w' = [w EXCEPT !.probes = Append(@, {})]
                              /\ UNCHANGED <<run, ev>>
      <4>1. w'.candidate = w.candidate /\ w'.probes = Append(w.probes, {})  BY <2>e, <3>1 DEF WorkFields
      <4>2. /\ Append(w.probes, {}) \in Seq(Texts \cup {{}}) /\ Len(Append(w.probes, {})) = w.candidate
            /\ Last(Append(w.probes, {})) = {}
        BY <3>0 DEF Last
      <4>3. Probing'  BY <3>0, <3>1, <4>1, <4>2 DEF Probing
      <4> QED BY <3>0, <3>1, <4>3 DEF ClosureInv, Begun, Anchored, Unfinished, NothingYet, Frozen, Closed, Resolved
    <3>2. CASE \E text \in Texts :
                  /\ w.candidate < Mirrors
                  /\ w' = [w EXCEPT !.candidate = @ + 1, !.probes = Append(w.probes, text)]
                  /\ UNCHANGED <<run, at, ev>>
      <4>1. PICK text \in Texts :
                  /\ w.candidate < Mirrors
                  /\ w' = [w EXCEPT !.candidate = @ + 1, !.probes = Append(w.probes, text)]
                  /\ UNCHANGED <<run, at, ev>>
        BY <3>2
      <4>2. w'.candidate = w.candidate + 1 /\ w'.probes = Append(w.probes, text)  BY <2>e, <4>1 DEF WorkFields
      <4>3. Append(w.probes, text) \in Seq(Texts \cup {{}}) /\ Len(Append(w.probes, text)) = w.candidate
        BY <3>0
      <4>4. w.candidate + 1 \in 1..Mirrors  BY <3>0, <4>1, MirrorsAre
      <4>5. Probing'  BY <3>0, <4>1, <4>2, <4>3, <4>4 DEF Probing
      <4> QED BY <3>0, <4>1, <4>5 DEF ClosureInv, Begun, Anchored, Unfinished, NothingYet, Frozen, Closed, Resolved
    <3>3. CASE \E e, error : raise_closure_failure(e, error)  BY <1>r, <3>3
    <3> QED BY <2>3, <3>1, <3>2, <3>3 DEF probe_anchor
  <2>4. CASE freeze_repository_sync_directory
    <3>1. /\ at = "freeze" /\ at' = "resolve" /\ UNCHANGED <<run, sync>>
          /\ w.candidate \in 1..Mirrors /\ Len(w.probes) = w.candidate /\ Last(w.probes) = {} /\ sync \in Dbs
          /\ ev = NewEvidence(run)
      BY <2>4 DEF freeze_repository_sync_directory, ClosureInv, Probing, Begun
    <3>2. /\ ev'.run = ev.run /\ ev'.repositories = sync /\ ev'.status = ev.status /\ ev'.failure = ev.failure
          /\ ev'.cache = ev.cache /\ ev'.packages = ev.packages /\ ev'.progress = ev.progress
          /\ ev'.anchor = [status |-> "pass", selected |-> w.candidate, attempts |-> w.probes, locked |-> TRUE]
      BY <2>4, <2>e DEF freeze_repository_sync_directory, Evidence, EvFields
    <3>3. /\ ev.run = run /\ ev.status = "fail" /\ ev.failure = NoFailure /\ ev.packages = {} /\ ev.progress = <<>>
          /\ ev.cache.attempts = <<>> /\ ev.cache.pending = -1
      BY <3>1 DEF NewEvidence
    <3>4. Anchored'  BY <3>1, <3>2, <3>3 DEF Anchored
    <3>5. NothingYet' /\ Unfinished'  BY <3>1, <3>2, <3>3 DEF NothingYet, Unfinished
    <3> QED BY <3>1, <3>4, <3>5 DEF ClosureInv, Begun, Probing, Frozen, Closed, Resolved
  <2>5. CASE freeze_resolved_package_evidence
    <3> DEFINE progress == initialize_package_progress(Resolve[sync])
    <3>1. CASE /\ at = "resolve" /\ at' = "audit" /\ UNCHANGED <<run, sync>>
               /\ Resolve[sync] # {} /\ Targets \subseteq {p.name : p \in Resolve[sync]}
               /\ ev' = [ev EXCEPT !.packages = Resolve[sync], !.progress = progress,
                                   !.summary = summarize_package_progress(progress)]
      <4>1. /\ ev'.run = ev.run /\ ev'.repositories = ev.repositories /\ ev'.status = ev.status
            /\ ev'.failure = ev.failure /\ ev'.anchor = ev.anchor
            /\ ev'.cache = ev.cache /\ ev'.packages = Resolve[sync] /\ ev'.progress = progress
        BY <2>e, <3>1 DEF Evidence, EvFields
      <4>2. DOMAIN progress = FilesOf(Resolve[sync])  BY DEF initialize_package_progress
      <4> HIDE DEF progress
      <4>3. Anchored' /\ Frozen'  BY <3>1, <4>1, <4>2 DEF Anchored, Frozen, ClosureInv, Resolved
      <4>4. NothingYet' /\ Unfinished'  BY <3>1, <4>1 DEF NothingYet, Unfinished, ClosureInv
      <4> QED BY <3>1, <4>3, <4>4 DEF ClosureInv, Begun, Probing, Closed
    <3> QED BY <1>r, <2>5, <3>1 DEF freeze_resolved_package_evidence, parse_pacman_print_rows
  <2>6. CASE audit_cache
    <3>1. at = "audit" /\ at' \in {"construct", "fetch"}  BY <2>6 DEF audit_cache, AfterBatch
    <3>2. /\ run' = run /\ sync' = sync
          /\ ev'.run = ev.run /\ ev'.repositories = ev.repositories /\ ev'.anchor = ev.anchor
          /\ ev'.packages = ev.packages /\ ev'.status = ev.status /\ ev'.failure = ev.failure
          /\ ev'.progress = reconcile_package_progress_from_cache_audit(ev.progress,
                                audit_persistent_package_cache(cache, ev.packages))
      BY <2>6, <2>e DEF audit_cache, Evidence, EvFields
    <3>3. DOMAIN ev'.progress = DOMAIN ev.progress  BY <3>2 DEF reconcile_package_progress_from_cache_audit
    <3>4. Anchored' /\ Frozen'  BY <1>k, <3>1, <3>2, <3>3 DEF SameClosure, Resolved
    <3>5. Unfinished'  BY <3>1, <3>2 DEF Unfinished, ClosureInv
    <3> QED BY <3>1, <3>4, <3>5 DEF ClosureInv, Begun, Probing, NothingYet, Closed
  <2>7. CASE fetch_mirror_attempt
    BY <1>m, <2>7 DEF fetch_mirror_attempt, SameClosure, Resolved
  <2>8. CASE acquire_batch_with_mirror_failover
    <3>1. /\ at = "record" /\ at' \in {"batch_end", "fetch"} /\ run' = run /\ sync' = sync
          /\ ev'.run = ev.run /\ ev'.repositories = ev.repositories /\ ev'.anchor = ev.anchor
          /\ ev'.packages = ev.packages /\ ev'.status = ev.status /\ ev'.failure = ev.failure
          /\ (ev'.progress = ev.progress \/ ev'.progress = Told)
      BY <2>8, <2>e, AcquireFacts
    <3>2. DOMAIN Told = DOMAIN ev.progress  BY DEF Told, record_package_progress_attempt
    <3> QED BY <1>m, <3>1, <3>2 DEF SameClosure, Resolved
  <2>9. CASE interrupted_between_attempts
    BY <1>m, <2>9 DEF interrupted_between_attempts, SameClosure, Resolved
  <2>10. CASE acquire_prefetch_batches
    <3>1. CASE \E e, error : raise_closure_failure(e, error)  BY <1>r, <3>1
    <3>2. CASE ~ \E e, error : raise_closure_failure(e, error)
      <4>1. /\ at = "batch_end" /\ at' = AfterBatch(w.batch + 1, w.batches) /\ run' = run /\ sync' = sync
            /\ ev'.run = ev.run /\ ev'.repositories = ev.repositories /\ ev'.anchor = ev.anchor
            /\ ev'.packages = ev.packages /\ ev'.status = ev.status /\ ev'.failure = ev.failure
            /\ ev'.progress = ev.progress
        BY <2>10, <2>e, <3>2, CountFacts
      <4>2. at' \in {"construct", "fetch"}  BY <4>1 DEF AfterBatch
      <4> QED BY <1>m, <4>1, <4>2 DEF SameClosure, Resolved
    <3> QED BY <3>1, <3>2
  <2>11. CASE construct_frozen_local_repository
    <3>1. CASE \E e, error : raise_closure_failure(e, error)  BY <1>r, <3>1
    <3>2. CASE ~ \E e, error : raise_closure_failure(e, error)
      <4>1. /\ at = "construct" /\ at' = "validate" /\ run' = run /\ sync' = sync
            /\ ev'.run = ev.run /\ ev'.repositories = ev.repositories /\ ev'.anchor = ev.anchor
            /\ ev'.packages = ev.packages /\ ev'.status = ev.status /\ ev'.failure = ev.failure
            /\ ev'.progress = ev.progress
        BY <2>11, <2>e, <3>2, ConstructFacts
      <4> QED BY <1>m, <4>1 DEF SameClosure, Resolved
    <3> QED BY <3>1, <3>2
  <2>12. CASE validate_local_repository
    <3>1. CASE \E e, error : raise_closure_failure(e, error)  BY <1>r, <3>1
    <3>2. CASE ~ \E e, error : raise_closure_failure(e, error)
      <4>1. /\ at = "validate" /\ at' = "handoff" /\ run' = run /\ sync' = sync
            /\ ev'.run = ev.run /\ ev'.repositories = ev.repositories /\ ev'.anchor = ev.anchor
            /\ ev'.packages = ev.packages /\ ev'.status = ev.status /\ ev'.failure = ev.failure
            /\ ev'.progress = ev.progress
        BY <2>12, <2>e, <3>2 DEF validate_local_repository, Evidence, EvFields
      <4> QED BY <1>m, <4>1 DEF SameClosure, Resolved
    <3> QED BY <3>1, <3>2
  <2>13. CASE restore_outer_owner
    <3>1. /\ at = "handoff" /\ at' = "seal" /\ owner' = "user" /\ run' = run /\ sync' = sync
          /\ ev'.run = ev.run /\ ev'.repositories = ev.repositories /\ ev'.anchor = ev.anchor
          /\ ev'.packages = ev.packages /\ ev'.status = ev.status /\ ev'.failure = ev.failure
          /\ ev'.progress = ev.progress
      BY <2>13, <2>e DEF restore_outer_owner, Evidence, EvFields
    <3>2. Anchored' /\ Frozen'  BY <1>k, <3>1 DEF SameClosure, Resolved
    <3>3. Unfinished' /\ Closed'  BY <3>1 DEF Unfinished, Closed, ClosureInv
    <3> QED BY <3>1, <3>2, <3>3 DEF ClosureInv, Begun, Probing, NothingYet
  <2>14. CASE seal_closure
    <3>1. CASE \E e, error : raise_closure_failure(e, error)  BY <1>r, <3>1
    <3>2. CASE ~ \E e, error : raise_closure_failure(e, error)
      <4>1. /\ at = "seal" /\ at' = "closed" /\ owner' = owner /\ run' = run /\ sync' = sync
            /\ ev'.run = ev.run /\ ev'.repositories = ev.repositories /\ ev'.anchor = ev.anchor
            /\ ev'.packages = ev.packages /\ ev'.progress = ev.progress
            /\ report' = Put(report, run, ev')
        BY <2>14, <2>e, <3>2 DEF seal_closure, Evidence, EvFields, write_repository_closure_evidence, Put
      <4>2. Anchored' /\ Frozen'  BY <1>k, <4>1 DEF SameClosure, Resolved
      <4>3. Closed'  BY <4>1 DEF Closed, ClosureInv, Put
      <4> QED BY <4>1, <4>2, <4>3 DEF ClosureInv, Begun, Probing, NothingYet, Unfinished
    <3> QED BY <3>1, <3>2
  <2>15. CASE closure_step_fails  BY <1>r, <2>15 DEF closure_step_fails
  <2> QED
    BY <2>p, <2>1, <2>2, <2>3, <2>4, <2>5, <2>6, <2>7, <2>8, <2>9, <2>10, <2>11, <2>12, <2>13, <2>14, <2>15
       DEF prepare_repository_closure
<1> QED BY <1>1, <1>2

(***************************************************************************)
(* The files and the metadata of a run, and what a success rests on.       *)
(***************************************************************************)
KeepsAt(f, g, r) == (r \in DOMAIN g <=> r \in DOMAIN f) /\ (r \in DOMAIN f => g[r] = f[r])
Same(r) ==
    KeepsAt(report, report', r) /\ KeepsAt(cleanup, cleanup', r) /\ KeepsAt(result, result', r) /\ iso'[r] = iso[r]

LEMMA PutKeeps ==
  ASSUME NEW f, NEW q, NEW v, NEW r, r # q
  PROVE  KeepsAt(f, Put(f, q, v), r)
BY DEF KeepsAt, Put

\* Only the files of the run at work change, and none while no build is.
LEMMA FilesMove ==
  ASSUME ShapeInv, ProcessInv, [Next]_vars
  PROVE  /\ \A r \in Runs : r # run' => Same(r)
         /\ outer'.at = "idle" => \A r \in Runs : Same(r)
         /\ \/ UNCHANGED <<report, result, iso>>
            \/ at \notin {"dead", "built", "raised"} /\ run' = run
<1>o. DOMAIN outer = {"at", "err", "loops"} /\ DOMAIN iso = Runs  BY DEF ShapeInv
<1>k. \A f, r : KeepsAt(f, f, r)  BY DEF KeepsAt
<1>u. ASSUME UNCHANGED <<report, cleanup, result, iso>>  PROVE \A r \in Runs : Same(r)
  BY <1>k, <1>u DEF Same
<1>1. CASE ClosureStep
  <2>1. EvShape /\ WorkShape  BY DEF EvShape, WorkShape, ShapeInv
  <2>2. /\ at \in DOMAIN Substage \cup {"setup"} /\ run' = run
        /\ report' = report \/ \E e : report' = Put(report, run, e)
    BY <1>1, <2>1, ClosureMoves DEF ClosureStep
  <2>3. outer'.at = "inner" /\ UNCHANGED <<cleanup, result, iso>>  BY <1>1 DEF ClosureStep, nativeVars
  <2>4. ASSUME NEW r, r # run  PROVE KeepsAt(report, report', r)
    BY <1>k, <2>2, <2>4, PutKeeps
  <2>5. \A r \in Runs : r # run' => Same(r)  BY <1>k, <2>2, <2>3, <2>4 DEF Same
  <2> QED BY <2>2, <2>3, <2>5, SubstageIs
<1>2. CASE InnerStep
  <2>1. outer'.at = "inner" /\ at \in {"inner", "closed", "building", "collect"} /\ run' = run
        /\ UNCHANGED <<report, cleanup>>
    BY <1>2 DEF InnerStep, build_iso_inner, run_buildiso_after_security_boundary, buildiso, collect_iso,
       ProcessInv, persistent, nativeVars
  <2>2. /\ result' = result \/ result' = Put(result, run, report[run])
        /\ iso' = iso \/ \E x : iso' = [iso EXCEPT ![run] = x]
    BY <1>2 DEF InnerStep, build_iso_inner, run_buildiso_after_security_boundary, buildiso, collect_iso, nativeVars
  <2>3. ASSUME NEW r \in Runs, r # run  PROVE Same(r)
    <3>1. KeepsAt(result, result', r)  BY <1>k, <2>2, <2>3, PutKeeps
    <3>2. iso'[r] = iso[r]  BY <1>o, <2>2, <2>3
    <3> QED BY <1>k, <2>1, <3>1, <3>2 DEF Same
  <2> QED BY <2>1, <2>3
<1>3. CASE OuterStep
  <2>1. CASE build_iso
    <3>1. /\ outer'.at = "exited" /\ run' = run /\ UNCHANGED <<report, result, iso>>
          /\ \E c : cleanup' = Put(cleanup, run, c)
      BY <1>o, <2>1 DEF build_iso, closureVars, process, persistent
    <3>2. ASSUME NEW r \in Runs, r # run  PROVE Same(r)
      BY <1>k, <3>1, <3>2, PutKeeps DEF Same
    <3> QED BY <3>1, <3>2
  <2>2. CASE ~build_iso
    <3>1. UNCHANGED <<report, cleanup, result, iso>>
      BY <1>3, <2>2 DEF OuterStep, run_private_namespace, inner_killed, persistent
    <3> QED BY <1>u, <3>1
  <2> QED BY <2>1, <2>2
<1>4. CASE HostStep
  <2>1. UNCHANGED <<report, cleanup, result, iso>>
    BY <1>4 DEF HostStep, HostTouchesCache, prepare_mounted, SurvivorsEnd, closureVars, persistent, nativeVars
  <2> QED BY <1>u, <2>1
<1>s. ASSUME NEW q, start_build_iso(q), UNCHANGED <<report, result, iso>>
      PROVE  (\A r \in Runs : r # run' => Same(r)) /\ outer'.at # "idle"
  <2>1. /\ run' = q
        /\ \/ outer'.at = "exited" /\ \E c : cleanup' = Put(cleanup, q, c)
           \/ outer'.at = "inner" /\ cleanup' = cleanup
    BY <1>s, StartFacts
  <2>2. ASSUME NEW r \in Runs, r # q  PROVE Same(r)
    <3>1. KeepsAt(cleanup, cleanup', r)  BY <1>k, <2>1, <2>2, PutKeeps
    <3> QED BY <1>k, <1>s, <3>1 DEF Same
  <2> QED BY <2>1, <2>2
<1>5. CASE AgainStep
  <2>1. (\E q : start_build_iso(q)) /\ UNCHANGED <<report, result, iso>>
    BY <1>5 DEF AgainStep, BuildAgain, persistent
  <2> QED BY <1>s, <2>1
<1>6. CASE IterationStep
  <2>1. CASE execute_native_iso /\ start_build_iso(latest)
    <3>1. UNCHANGED <<report, result, iso>>  BY <2>1 DEF execute_native_iso, persistent
    <3> QED BY <1>s, <2>1, <3>1
  <2>2. CASE ~(execute_native_iso /\ start_build_iso(latest))
    <3>1. UNCHANGED <<report, cleanup, result, iso>>
      BY <1>6, <2>2 DEF IterationStep, start_iteration, run_step, execute_native_iso, run_streamed_builder,
         finish_interrupted, finish, hand_build_ends, closureVars, nativeVars, persistent
    <3> QED BY <1>u, <3>1
  <2> QED BY <2>1, <2>2
<1>7. CASE HostCrash
  <2>1. UNCHANGED <<report, cleanup, result, iso>>  BY <1>7 DEF HostCrash, persistent
  <2> QED BY <1>u, <2>1
<1>8. CASE UNCHANGED vars
  <2>1. UNCHANGED <<report, cleanup, result, iso>>  BY <1>8 DEF vars, closureVars, nativeVars, persistent
  <2> QED BY <1>u, <2>1
<1> QED BY <1>1, <1>2, <1>3, <1>4, <1>5, <1>6, <1>7, <1>8, StepIs

\* The metadata of a run is written when it starts and when it ends.
Ends == /\ UNCHANGED <<report, cleanup, result, iso, again, latest>> /\ latest \in DOMAIN meta
        /\ \/ finish /\ it.at = "capture"
                     /\ failing_stage(it.code, capture_repository_closure_record(latest), capture_native_cleanup(latest)) = None
                     /\ finalize_checksums(latest, Metadata("succeeded", None, 0, Recorded(latest)))
           \/ \E stage, code, records : fail_run(latest, stage, code, records)
LEMMA MetaMoves ==
  ASSUME ShapeInv, ProcessInv, [Next]_vars
  PROVE  \/ UNCHANGED <<meta, sums>>
         \/ sums' = sums /\ \E r \in Runs \ DOMAIN meta : meta' = Put(meta, r, Metadata("running", None, 0, NoRecords))
         \/ Ends
<1>1. CASE ~IterationStep
  <2>1. UNCHANGED <<meta, sums>>
    BY <1>1, StepIs DEF ClosureStep, InnerStep, OuterStep, HostStep, AgainStep, HostCrash, vars, iterationVars
  <2> QED BY <2>1
<1>2. CASE start_iteration  BY <1>2 DEF start_iteration
<1>3. CASE run_step
  <2>1. CASE UNCHANGED <<meta, sums>>  BY <2>1
  <2>2. CASE \E stage, code, records : fail_run(latest, stage, code, records)
    <3>1. UNCHANGED <<report, cleanup, result, iso, again, latest>> /\ it.at = "steps"
      BY <1>3 DEF run_step, closureVars, persistent
    <3> QED BY <2>2, <3>1 DEF Ends, ProcessInv
  <2> QED BY <1>3, <2>1, <2>2 DEF run_step
<1>4. CASE execute_native_iso  BY <1>4 DEF execute_native_iso
<1>5. CASE run_streamed_builder  BY <1>5 DEF run_streamed_builder
<1>6. CASE finish_interrupted
  <2>1. UNCHANGED <<report, cleanup, result, iso, again, latest>> /\ it.at = "interrupted"
    BY <1>6 DEF finish_interrupted, closureVars, nativeVars, persistent
  <2>2. \E stage, code, records : fail_run(latest, stage, code, records)  BY <1>6 DEF finish_interrupted
  <2> QED BY <2>1, <2>2 DEF Ends, ProcessInv
<1>7. CASE finish
  <2> DEFINE stage == failing_stage(it.code, capture_repository_closure_record(latest),
                                    capture_native_cleanup(latest))
  <2>1. UNCHANGED <<report, cleanup, result, iso, again, latest>> /\ it.at = "capture"
    BY <1>7 DEF finish, closureVars, nativeVars, persistent
  <2>2. \/ stage = None /\ finalize_checksums(latest, Metadata("succeeded", None, 0, Recorded(latest)))
        \/ \E code, records : fail_run(latest, stage, code, records)
    BY <1>7 DEF finish
  <2> QED BY <1>7, <2>1, <2>2 DEF Ends, ProcessInv
<1>8. CASE hand_build_ends  BY <1>8 DEF hand_build_ends, iterationVars
<1> QED BY <1>1, <1>2, <1>3, <1>4, <1>5, <1>6, <1>7, <1>8 DEF IterationStep

\* The end of a run without a failing stage.
LEMMA SuccessFacts ==
  ASSUME failing_stage(it.code, capture_repository_closure_record(latest), capture_native_cleanup(latest)) = None
  PROVE  /\ it.code = 0 /\ iso[latest] = "artifact"
         /\ latest \in DOMAIN report /\ report[latest].status = "pass"
         /\ Recorded(latest).closure = <<report[latest]>>
         /\ latest \in DOMAIN cleanup /\ cleanup[latest].removed
         /\ Recorded(latest).cleanup = <<cleanup[latest]>>
<1> DEFINE closure == capture_repository_closure_record(latest)
           clean == capture_native_cleanup(latest)
<1>1. it.code = 0 /\ closure = "pass" /\ clean = "pass" /\ iso[latest] = "artifact"
  BY DEF failing_stage, None
<1>2. latest \in DOMAIN report /\ report[latest].status = "pass"
  BY <1>1 DEF capture_repository_closure_record, None
<1>3. latest \in DOMAIN cleanup /\ cleanup[latest].status = "pass" /\ validate_native_cleanup_report(cleanup[latest])
  BY <1>1 DEF capture_native_cleanup, None
<1>4. cleanup[latest].removed  BY <1>3 DEF validate_native_cleanup_report
<1>5. Recorded(latest).closure = <<report[latest]>> /\ Recorded(latest).cleanup = <<cleanup[latest]>>
  BY <1>1 DEF Recorded
<1> QED BY <1>1, <1>2, <1>3, <1>4, <1>5

LEMMA SucceededKeeps ==
  ASSUME ShapeInv, ProcessInv, ProvenInv, [Next]_vars
  PROVE  Reported' /\ SucceededIsProven'
<1> SUFFICES ASSUME NEW r \in DOMAIN meta', meta'[r].status = "succeeded"
             PROVE  /\ r \in DOMAIN report' /\ iso'[r] = "artifact" /\ meta'[r].records.closure = <<report'[r]>>
                    /\ r \in DOMAIN result' /\ result'[r] = report'[r] /\ report'[r].status = "pass"
                    /\ \A i \in DOMAIN meta'[r].records.cleanup : meta'[r].records.cleanup[i].removed
                    /\ meta'[r].records.cleanup # <<>>
  BY DEF SucceededIsProven, Reported
<1>1. CASE Ends /\ r = latest
  <2>1. CASE /\ finish
             /\ failing_stage(it.code, capture_repository_closure_record(latest), capture_native_cleanup(latest)) = None
             /\ finalize_checksums(latest, Metadata("succeeded", None, 0, Recorded(latest)))
    <3>1. /\ latest \in DOMAIN report /\ it.code = 0 /\ iso[latest] = "artifact" /\ report[latest].status = "pass"
          /\ Recorded(latest).closure = <<report[latest]>> /\ cleanup[latest].removed
          /\ Recorded(latest).cleanup = <<cleanup[latest]>>
      BY <2>1, SuccessFacts
    <3>2. meta'[latest].records = Recorded(latest)  BY <2>1, SealFacts
    <3>3. it.at = "capture"  BY <2>1 DEF finish
    <3>4. Bound(latest)  BY <3>1, <3>3 DEF ProvenInv
    <3>5. UNCHANGED <<report, result, iso>>  BY <1>1 DEF Ends
    <3>6. \A i \in DOMAIN <<cleanup[latest]>> : <<cleanup[latest]>>[i].removed
      BY <3>1
    <3>7. <<cleanup[latest]>> # <<>>  OBVIOUS
    <3>8. latest \in DOMAIN report' /\ meta'[r].records.closure = <<report'[r]>>  BY <1>1, <3>1, <3>2, <3>5
    <3>9. meta'[r].records.cleanup = <<cleanup[latest]>>  BY <1>1, <3>1, <3>2
    <3>10. iso'[r] = "artifact" /\ r \in DOMAIN result' /\ result'[r] = report'[r] /\ report'[r].status = "pass"
      BY <1>1, <3>1, <3>4, <3>5 DEF Bound
    <3> QED BY <1>1, <3>6, <3>7, <3>8, <3>9, <3>10
  <2>2. CASE \E stage, code, records : fail_run(latest, stage, code, records)
    <3>1. meta'[latest].status \in {"blocked", "failed"}  BY <2>2, FailFacts
    <3> QED BY <1>1, <3>1
  <2> QED BY <1>1, <2>1, <2>2 DEF Ends
<1>2. CASE ~(Ends /\ r = latest)
  <2>1. r \in DOMAIN meta /\ meta'[r] = meta[r]
    <3>1. CASE UNCHANGED <<meta, sums>>  BY <3>1
    <3>2. CASE \E q \in Runs \ DOMAIN meta : meta' = Put(meta, q, Metadata("running", None, 0, NoRecords))
      <4>1. PICK q \in Runs \ DOMAIN meta : meta' = Put(meta, q, Metadata("running", None, 0, NoRecords))  BY <3>2
      <4>2. meta'[q].status = "running"  BY <4>1 DEF Put, Metadata
      <4> QED BY <4>1, <4>2 DEF Put
    <3>3. CASE Ends
      <4>1. r # latest  BY <1>2, <3>3
      <4>2. \/ finalize_checksums(latest, Metadata("succeeded", None, 0, Recorded(latest)))
            \/ \E stage, code, records : fail_run(latest, stage, code, records)
        BY <3>3 DEF Ends
      <4>3. /\ \A x : x \in DOMAIN meta' <=> x \in DOMAIN meta \/ x = latest
            /\ \A x \in DOMAIN meta : x # latest => meta'[x] = meta[x]
        <5>1. CASE finalize_checksums(latest, Metadata("succeeded", None, 0, Recorded(latest)))
          BY <5>1, SealFacts
        <5>2. CASE \E stage, code, records : fail_run(latest, stage, code, records)
          BY <5>2, FailFacts
        <5> QED BY <4>2, <5>1, <5>2
      <4> QED BY <4>1, <4>3
    <3> QED BY <3>1, <3>2, <3>3, MetaMoves
  <2>2. /\ r \in DOMAIN report /\ iso[r] = "artifact" /\ meta[r].records.closure = <<report[r]>>
        /\ r \in DOMAIN result /\ result[r] = report[r] /\ report[r].status = "pass"
        /\ \A i \in DOMAIN meta[r].records.cleanup : meta[r].records.cleanup[i].removed
        /\ meta[r].records.cleanup # <<>>
    BY <2>1 DEF ProvenInv, Reported, SucceededIsProven
  <2>3. CASE UNCHANGED <<report, result, iso>>  BY <2>1, <2>2, <2>3
  <2>4. CASE at \notin {"dead", "built", "raised"} /\ run' = run
    <3>1. iso[run] # "artifact"  BY <2>4 DEF ProvenInv
    <3>2. r # run' /\ r \in Runs  BY <2>1, <2>2, <2>4, <3>1 DEF ProcessInv
    <3>3. Same(r)  BY <3>2, FilesMove
    <3>4. report'[r] = report[r] /\ r \in DOMAIN report'  BY <2>2, <3>3 DEF Same, KeepsAt
    <3>5. result'[r] = result[r] /\ r \in DOMAIN result' /\ iso'[r] = iso[r]
      BY <2>2, <3>3 DEF Same, KeepsAt
    <3> QED BY <2>1, <2>2, <3>4, <3>5
  <2> QED BY <2>3, <2>4, FilesMove
<1> QED BY <1>1, <1>2

LEMMA ProvenKeeps ==
  ASSUME ShapeInv, ProcessInv, ProvenInv, [Next]_vars
  PROVE  ProvenInv'
<1>0. Reported' /\ SucceededIsProven'  BY SucceededKeeps
<1>o. DOMAIN outer = {"at", "err", "loops"} /\ outer.err \in BOOLEAN /\ DOMAIN it = {"at", "step", "code"} /\ DOMAIN iso = Runs
  BY DEF ShapeInv
<1> DEFINE Q1 == at \notin {"dead", "built", "raised"} => iso[run] # "artifact"
           Q2 == at = "built" => Bound(run)
           Q3 == outer.at \in {"sweep", "exited"} /\ ~outer.err => Bound(run)
           Q4 == it.at = "capture" /\ it.code = 0 => Bound(latest)
<1>q. Q1 /\ Q2 /\ Q3 /\ Q4  BY DEF ProvenInv
<1> SUFFICES Q1' /\ Q2' /\ Q3' /\ Q4'
  BY <1>0 DEF ProvenInv
<1>1. CASE ClosureStep
  <2>1. EvShape /\ WorkShape  BY DEF EvShape, WorkShape, ShapeInv
  <2>2. /\ at \in DOMAIN Substage \cup {"setup"} /\ at' \in DOMAIN Substage \cup {"closed", "raised"} /\ run' = run
    BY <1>1, <2>1, ClosureMoves DEF ClosureStep
  <2>3. outer.at = "inner" /\ UNCHANGED <<iso, outer, it>>  BY <1>1 DEF ClosureStep, nativeVars, iterationVars
  <2>4. it.at # "capture"  BY <2>3 DEF ProcessInv
  <2> QED BY <1>q, <2>2, <2>3, <2>4, SubstageIs
<1>2. CASE InnerStep
  <2>1. /\ outer.at = "inner" /\ at \in {"inner", "closed", "building", "collect"} /\ run' = run /\ UNCHANGED <<outer, it>>
    BY <1>2 DEF InnerStep, build_iso_inner, run_buildiso_after_security_boundary, buildiso, collect_iso,
       ProcessInv, nativeVars, iterationVars
  <2>2. it.at # "capture" /\ run \in Runs  BY <2>1 DEF ProcessInv
  <2>3. CASE at' \in {"built", "raised"}
    <3>1. at' = "built" => collect_iso
      BY <1>2, <2>3 DEF InnerStep, build_iso_inner, run_buildiso_after_security_boundary, buildiso, collect_iso
    <3>2. Q2'
      <4> SUFFICES ASSUME at' = "built"  PROVE Bound(run)'
        OBVIOUS
      <4>1. result' = Put(result, run, report[run]) /\ report' = report
        BY <3>1 DEF collect_iso, persistent
      <4> QED BY <2>1, <4>1 DEF Bound, Put
    <3> QED BY <2>1, <2>2, <2>3, <3>2
  <2>4. CASE at' \notin {"built", "raised"}
    <3>1. iso' = iso \/ iso' = [iso EXCEPT ![run] = "work"]
      BY <1>2, <2>4 DEF InnerStep, build_iso_inner, run_buildiso_after_security_boundary, buildiso, collect_iso, nativeVars
    <3>2. iso'[run] # "artifact"  BY <1>o, <1>q, <2>1, <2>2, <3>1
    <3> QED BY <2>1, <2>2, <2>4, <3>2
  <2> QED BY <2>3, <2>4
<1>s. ASSUME NEW r, start_build_iso(r), UNCHANGED iso, at = "dead", it'.at # "capture"
      PROVE  Q1' /\ Q2' /\ Q3' /\ Q4'
  BY <1>s, StartFacts
<1>3. CASE OuterStep
  <2>0. outer.at # "idle" /\ run' = run /\ it' = it /\ UNCHANGED <<report, result>>
    BY <1>3 DEF OuterStep, run_private_namespace, inner_killed, build_iso, iterationVars, closureVars, process, persistent
  <2>1. it.at # "capture"  BY <2>0 DEF ProcessInv
  <2>2. CASE run_private_namespace
    <3>1. at' = "dead" /\ outer'.err = (at = "raised") /\ at \in {"raised", "built"}
      BY <1>o, <2>2 DEF run_private_namespace, inner_is_gone
    <3> QED BY <1>q, <2>0, <2>1, <3>1 DEF Bound
  <2>3. CASE inner_killed
    <3>1. at' = "dead" /\ outer'.err = TRUE  BY <1>o, <2>3 DEF inner_killed, inner_is_gone
    <3> QED BY <2>0, <2>1, <3>1
  <2>4. CASE build_iso
    <3>1. at' = at /\ outer.at = "sweep" /\ (outer.err => outer'.err)
      BY <1>o, <2>4 DEF build_iso, closureVars, process
    <3>2. at = "dead"  BY <3>1 DEF ProcessInv
    <3> QED BY <1>q, <2>0, <2>1, <3>1, <3>2 DEF Bound
  <2> QED BY <1>3, <2>2, <2>3, <2>4 DEF OuterStep
<1>4. CASE HostStep
  <2>1. UNCHANGED <<at, run, report, result, iso, outer, it, latest>>
    BY <1>4 DEF HostStep, HostTouchesCache, prepare_mounted, SurvivorsEnd, closureVars, persistent, process,
       nativeVars, iterationVars
  <2> QED BY <1>q, <2>1 DEF Bound
<1>5. CASE AgainStep
  <2>1. (\E q : start_build_iso(q)) /\ UNCHANGED <<iso, it>> /\ it.at = "idle" /\ outer.at = "idle"
    BY <1>5 DEF AgainStep, BuildAgain, iterationVars
  <2>2. at = "dead"  BY <2>1 DEF ProcessInv
  <2> QED BY <1>s, <2>1, <2>2
<1>6. CASE IterationStep
  <2>1. CASE execute_native_iso
    <3>1. it.at = "build" /\ UNCHANGED <<report, result, iso, latest>>  BY <2>1 DEF execute_native_iso, persistent
    <3>2. at = "dead" /\ outer.at = "idle"  BY <3>1 DEF ProcessInv
    <3>3. CASE start_build_iso(latest) /\ it' = [it EXCEPT !.at = "wait"]  BY <1>s, <1>o, <3>1, <3>2, <3>3
    <3>4. CASE it' = [it EXCEPT !.at = "capture", !.code = EXIT_UNRESOLVED] /\ UNCHANGED <<run, at, cleanup, outer>>
      <4>1. it'.code # 0  BY <1>o, <3>4 DEF EXIT_UNRESOLVED
      <4> QED BY <3>2, <3>4, <4>1
    <3> QED BY <2>1, <3>3, <3>4 DEF execute_native_iso
  <2>2. CASE run_streamed_builder
    <3>1. UNCHANGED <<at, run, report, result, iso, latest>> /\ it.at = "wait" /\ outer.at \in {"sweep", "exited"}
      BY <2>2 DEF run_streamed_builder, closureVars, process, persistent
    <3>2. at = "dead" /\ run = latest  BY <3>1 DEF ProcessInv
    <3>3. \/ outer'.at = "idle" /\ it'.at = "capture" /\ it'.code = IF outer.err THEN 1 ELSE 0
          \/ outer'.at = "idle" /\ it'.at = "interrupted"
          \/ outer' = outer /\ it'.at = "interrupted"
      <4>1. \/ outer' = OuterIdle /\ \/ it' = [it EXCEPT !.at = "capture", !.code = IF outer.err THEN 1 ELSE 0]
                                      \/ it' = [it EXCEPT !.at = "interrupted", !.code = EXIT_INTERRUPTED]
            \/ outer' = outer /\ it' = [it EXCEPT !.at = "interrupted", !.code = EXIT_INTERRUPTED]
        BY <2>2 DEF run_streamed_builder
      <4>2. OuterIdle.at = "idle"  BY DEF OuterIdle
      <4>3. CASE it' = [it EXCEPT !.at = "capture", !.code = IF outer.err THEN 1 ELSE 0]
        <5>1. it'.at = "capture" /\ it'.code = IF outer.err THEN 1 ELSE 0  BY <1>o, <4>3
        <5>2. it'.at # "interrupted"  BY <5>1
        <5> QED BY <1>o, <4>1, <4>2, <5>1, <5>2
      <4>4. CASE it' = [it EXCEPT !.at = "interrupted", !.code = EXIT_INTERRUPTED]
        <5>1. it'.at = "interrupted"  BY <1>o, <4>4
        <5> QED BY <4>1, <4>2, <5>1
      <4> QED BY <4>1, <4>3, <4>4
    <3> QED BY <1>q, <3>1, <3>2, <3>3 DEF Bound
  <2>3. CASE ~execute_native_iso /\ ~run_streamed_builder
    <3>1. UNCHANGED <<at, run, report, result, iso>> /\ it'.at \in {"steps", "build", "idle"}
          /\ (outer' = outer \/ outer'.at = "idle")
      <4>1. CASE start_iteration \/ finish_interrupted \/ finish
        BY <4>1 DEF start_iteration, finish_interrupted, finish, ItIdle, closureVars, nativeVars, persistent, process
      <4>2. CASE run_step
        <5>1. it' \in {[it EXCEPT !.step = @ + 1], [it EXCEPT !.at = "build"], ItIdle} /\ it.at = "steps"
              /\ UNCHANGED <<at, run, report, result, iso, outer>>
          BY <4>2 DEF run_step, closureVars, persistent, process
        <5>2. it'.at \in {"steps", "build", "idle"}  BY <1>o, <5>1 DEF ItIdle
        <5> QED BY <5>1, <5>2
      <4>3. CASE hand_build_ends
        BY <4>3 DEF hand_build_ends, OuterIdle, closureVars, iterationVars, persistent, process
      <4> QED BY <1>6, <2>3, <4>1, <4>2, <4>3 DEF IterationStep
    <3> QED BY <1>q, <3>1 DEF Bound
  <2> QED BY <2>1, <2>2, <2>3
<1>7. CASE HostCrash
  BY <1>7 DEF HostCrash, inner_is_gone, OuterIdle, ItIdle
<1>8. CASE UNCHANGED vars
  BY <1>q, <1>8 DEF vars, closureVars, nativeVars, iterationVars, persistent, process, Bound
<1> QED BY <1>1, <1>2, <1>3, <1>4, <1>5, <1>6, <1>7, <1>8, StepIs

\* What survives of a run grows only while its outer process is at work.
LEMMA CleanupKeeps ==
  ASSUME ShapeInv, ProcessInv, CleanupIsHonest, [Next]_vars
  PROVE  CleanupIsHonest'
<1>o. DOMAIN outer = {"at", "err", "loops"} /\ DOMAIN left = Runs  BY DEF ShapeInv
<1> DEFINE Clean(r) == left[r] = {} /\ r \notin scratch
           Clean2(r) == left'[r] = {} /\ r \notin scratch'
<1> SUFFICES ASSUME NEW r \in DOMAIN cleanup', cleanup'[r].status = "pass",
                    again' = 0 \/ (r = run' /\ outer'.at = "exited")
             PROVE  Clean2(r)
  BY DEF CleanupIsHonest
<1>h. ASSUME r \in DOMAIN cleanup, cleanup[r].status = "pass", again = 0 \/ (r = run /\ outer.at = "exited")
      PROVE  Clean(r)
  BY <1>h DEF CleanupIsHonest
<1>n. again \in Nat  BY DEF ProcessInv
<1>1. CASE ClosureStep
  <2>1. UNCHANGED <<cleanup, left, scratch, again, outer>> /\ outer.at = "inner"
    BY <1>1 DEF ClosureStep, nativeVars
  <2> QED BY <1>h, <2>1
<1>2. CASE InnerStep
  <2>1. UNCHANGED <<cleanup, left, again, outer, run>> /\ at \in {"inner", "closed", "building", "collect"}
        /\ scratch' \in {scratch, scratch \cup {run}}
    BY <1>2 DEF InnerStep, build_iso_inner, run_buildiso_after_security_boundary, buildiso, collect_iso, nativeVars
  <2>2. outer.at = "inner"  BY <2>1 DEF ProcessInv
  <2>3. again = 0  BY <2>1, <2>2
  <2>4. run \notin DOMAIN cleanup  BY <2>2, <2>3 DEF ProcessInv
  <2> QED BY <1>h, <2>1, <2>3, <2>4
<1>3. CASE OuterStep
  <2>1. CASE run_private_namespace \/ inner_killed
    <3>1. /\ UNCHANGED <<cleanup, scratch, again, run>> /\ outer.at = "inner"
          /\ outer'.at = "sweep" /\ \/ left' = left \/ \E x : left' = [left EXCEPT ![run] = x]
      BY <1>o, <2>1 DEF run_private_namespace, inner_killed
    <3>2. again = 0  BY <3>1
    <3>3. run \notin DOMAIN cleanup /\ DOMAIN cleanup \subseteq Runs  BY <3>1, <3>2 DEF ProcessInv
    <3>4. r # run /\ r \in Runs  BY <3>1, <3>3
    <3>5. left'[r] = left[r]  BY <1>o, <3>1, <3>4
    <3> QED BY <1>h, <3>1, <3>2, <3>5
  <2>2. CASE build_iso
    <3>1. PICK removable \in BOOLEAN :
            LET removed == cleanup_ok(run) /\ removable
            IN  /\ scratch' = IF removed THEN scratch \ {run} ELSE scratch
                /\ cleanup' = Put(cleanup, run, CleanupReport(removed, ~outer.err, run, loops \ outer.loops, removed))
      BY <2>2 DEF build_iso
    <3>2. UNCHANGED <<left, again, run>> /\ outer.at = "sweep"  BY <2>2 DEF build_iso, closureVars, process
    <3>3. CASE r = run
      <4>1. cleanup'[r] = CleanupReport(cleanup_ok(run) /\ removable, ~outer.err, run, loops \ outer.loops,
                                        cleanup_ok(run) /\ removable)
        BY <3>1, <3>3 DEF Put
      <4>2. cleanup_ok(run) /\ removable  BY <4>1 DEF CleanupReport
      <4> QED BY <3>1, <3>2, <3>3, <4>2 DEF cleanup_ok
    <3>4. CASE r # run
      <4>1. again = 0 /\ r \in DOMAIN cleanup /\ cleanup'[r] = cleanup[r] /\ scratch' \subseteq scratch
        BY <3>1, <3>2, <3>4 DEF Put
      <4> QED BY <1>h, <3>2, <4>1
    <3> QED BY <3>3, <3>4
  <2> QED BY <1>3, <2>1, <2>2 DEF OuterStep
<1>4. CASE HostStep
  <2>1. CASE SurvivorsEnd
    <3>1. /\ UNCHANGED <<cleanup, scratch, again, run, outer>> /\ \E q : left' = [left EXCEPT ![q] = {}]
      BY <2>1 DEF SurvivorsEnd, closureVars, process
    <3>2. r \in DOMAIN cleanup /\ r \in Runs  BY <3>1 DEF ProcessInv
    <3>3. left'[r] \in {left[r], {}}  BY <1>o, <3>1, <3>2
    <3> QED BY <1>h, <3>1, <3>3
  <2>2. CASE ~SurvivorsEnd
    <3>1. UNCHANGED <<cleanup, left, scratch, again, run, outer>>
      BY <1>4, <2>2 DEF HostStep, HostTouchesCache, prepare_mounted, closureVars, process, nativeVars
    <3> QED BY <1>h, <3>1
  <2> QED BY <2>1, <2>2
<1>s. ASSUME NEW q, start_build_iso(q), UNCHANGED <<left, scratch, again>>, again = 0 \/ r = q
      PROVE  Clean2(r)
  <2>1. \/ outer'.at = "exited" /\ \E c : c.status = "fail" /\ cleanup' = Put(cleanup, q, c)
        \/ outer'.at = "inner" /\ cleanup' = cleanup
    BY <1>s, StartFacts
  <2>2. run' = q  BY <1>s, StartFacts
  <2>3. CASE cleanup' = cleanup /\ outer'.at = "inner"
    BY <1>h, <1>s, <2>3
  <2>4. CASE \E c : c.status = "fail" /\ cleanup' = Put(cleanup, q, c)
    <3>1. r # q /\ r \in DOMAIN cleanup /\ cleanup'[r] = cleanup[r]  BY <2>4 DEF Put
    <3> QED BY <1>h, <1>s, <3>1
  <2> QED BY <2>1, <2>3, <2>4
<1>5. CASE AgainStep
  <2>1. PICK q : start_build_iso(q)  BY <1>5 DEF AgainStep, BuildAgain
  <2>2. again' = again + 1  BY <1>5 DEF AgainStep, BuildAgain
  <2>3. r = run' /\ outer'.at = "exited"  BY <1>n, <2>2
  <2>4. run' = q /\ \E c : c.status = "fail" /\ cleanup' = Put(cleanup, q, c)  BY <2>1, <2>3, StartFacts
  <2>5. cleanup'[r].status = "fail"  BY <2>3, <2>4 DEF Put
  <2> QED BY <2>5
<1>6. CASE IterationStep
  <2>1. CASE execute_native_iso /\ start_build_iso(latest)
    <3>1. UNCHANGED <<left, scratch, again>>  BY <2>1 DEF execute_native_iso
    <3>2. again = 0 \/ r = latest  BY <2>1, <3>1, StartFacts
    <3> QED BY <1>s, <2>1, <3>1, <3>2
  <2>2. CASE ~(execute_native_iso /\ start_build_iso(latest))
    <3>1. UNCHANGED <<cleanup, left, scratch, again, run>> /\ (outer' = outer \/ outer'.at = "idle")
      BY <1>6, <2>2 DEF IterationStep, start_iteration, run_step, execute_native_iso, run_streamed_builder,
         finish_interrupted, finish, hand_build_ends, closureVars, nativeVars, process, OuterIdle
    <3> QED BY <1>h, <3>1
  <2> QED BY <2>1, <2>2
<1>7. CASE HostCrash
  <2>1. UNCHANGED <<cleanup, scratch, again, run>> /\ outer'.at = "idle" /\ left' = [q \in Runs |-> {}]
    BY <1>7 DEF HostCrash, OuterIdle
  <2>2. r \in Runs /\ again = 0 /\ r \in DOMAIN cleanup  BY <2>1 DEF ProcessInv
  <2> QED BY <1>h, <2>1, <2>2
<1>8. CASE UNCHANGED vars
  <2>1. UNCHANGED <<cleanup, left, scratch, again, run, outer>>
    BY <1>8 DEF vars, closureVars, nativeVars, process
  <2> QED BY <1>h, <2>1
<1> QED BY <1>1, <1>2, <1>3, <1>4, <1>5, <1>6, <1>7, <1>8, StepIs

LEMMA AgainGrows ==
  ASSUME ProcessInv, [Next]_vars, again' = 0
  PROVE  again = 0
<1>n. again \in Nat  BY DEF ProcessInv
<1>1. again' \in {again, again + 1}
  <2>1. CASE AgainStep  BY <2>1 DEF AgainStep, BuildAgain
  <2>2. CASE ~AgainStep
    BY <2>2, StepIs DEF ClosureStep, InnerStep, OuterStep, HostStep, IterationStep, HostCrash, vars, nativeVars,
       build_iso_inner, run_buildiso_after_security_boundary, buildiso, collect_iso, run_private_namespace,
       inner_killed, build_iso, prepare_mounted, SurvivorsEnd, start_iteration, run_step, execute_native_iso,
       run_streamed_builder, finish_interrupted, finish, hand_build_ends
  <2> QED BY <2>1, <2>2
<1> QED BY <1>n, <1>1

\* Once the checksums of a run are computed its files do not change.
LEMMA SumsKeep ==
  ASSUME ShapeInv, ProcessInv, ProcessInv', SumsMatchFiles, [Next]_vars
  PROVE  SumsMatchFiles'
<1> SUFFICES ASSUME NEW r \in DOMAIN sums', meta'[r].code # EXIT_INTERRUPTED, again' = 0
             PROVE  sums'[r] = SealedFiles(r, meta[r])'
  BY DEF SumsMatchFiles
<1>0. again = 0  BY AgainGrows
<1>1. CASE Ends /\ r = latest
  <2>1. sums'[r] = SealedFiles(r, meta'[r])
    <3>1. CASE finalize_checksums(latest, Metadata("succeeded", None, 0, Recorded(latest)))
      BY <1>1, <3>1, SealFacts
    <3>2. CASE \E stage, code, records : fail_run(latest, stage, code, records)
      BY <1>1, <3>2, FailFacts
    <3> QED BY <1>1, <3>1, <3>2 DEF Ends
  <2>2. UNCHANGED <<report, cleanup, result, iso>>  BY <1>1 DEF Ends
  <2> QED BY <2>1, <2>2 DEF SealedFiles
<1>2. CASE ~(Ends /\ r = latest)
  <2>1. r \in DOMAIN sums /\ meta'[r] = meta[r] /\ sums'[r] = sums[r]
    <3>0. r \in DOMAIN sums => r \in DOMAIN meta  BY DEF ProcessInv
    <3>1. CASE UNCHANGED <<meta, sums>>  BY <3>1
    <3>2. CASE sums' = sums /\ \E q \in Runs \ DOMAIN meta : meta' = Put(meta, q, Metadata("running", None, 0, NoRecords))
      BY <3>0, <3>2 DEF Put
    <3>3. CASE Ends
      <4>1. r # latest  BY <1>2, <3>3
      <4>2. \/ finalize_checksums(latest, Metadata("succeeded", None, 0, Recorded(latest)))
            \/ \E stage, code, records : fail_run(latest, stage, code, records)
        BY <3>3 DEF Ends
      <4>3. /\ \A x : x \in DOMAIN sums' <=> x \in DOMAIN sums \/ x = latest
            /\ \A x \in DOMAIN meta : x # latest => meta'[x] = meta[x]
            /\ \A x \in DOMAIN sums : x # latest => sums'[x] = sums[x]
        <5>1. CASE finalize_checksums(latest, Metadata("succeeded", None, 0, Recorded(latest)))
          BY <5>1, SealFacts
        <5>2. CASE \E stage, code, records : fail_run(latest, stage, code, records)
          BY <5>2, FailFacts
        <5> QED BY <4>2, <5>1, <5>2
      <4> QED BY <3>0, <4>1, <4>3
    <3> QED BY <3>1, <3>2, <3>3, MetaMoves
  <2>2. sums[r] = SealedFiles(r, meta[r])  BY <1>0, <2>1 DEF SumsMatchFiles
  <2>3. r \in Runs  BY <2>1 DEF ProcessInv
  <2>4. Same(r)
    <3>1. CASE r # run' \/ outer'.at = "idle"  BY <2>3, <3>1, FilesMove
    <3>2. CASE r = run' /\ outer'.at # "idle"
      <4>1. /\ run' = latest'
            /\ it'.at \in {"wait", "interrupted"} \/ (it'.at = "idle" /\ meta'[latest'].code = EXIT_INTERRUPTED)
        BY <3>2 DEF ProcessInv
      <4>2. CASE it'.at \in {"wait", "interrupted"}
        <5>1. latest' \notin DOMAIN sums'  BY <4>2 DEF ProcessInv
        <5> QED BY <3>2, <4>1, <5>1
      <4>3. CASE meta'[latest'].code = EXIT_INTERRUPTED  BY <3>2, <4>1, <4>3
      <4> QED BY <4>1, <4>2, <4>3
    <3> QED BY <3>1, <3>2
  <2> QED BY <2>1, <2>2, <2>4 DEF Same, KeepsAt, SealedFiles
<1> QED BY <1>1, <1>2

(***************************************************************************)
(* The attempts of a batch, in order.                                      *)
(***************************************************************************)
LEMMA ListedIs ==
  ASSUME NEW s, Listed(s)
  PROVE  DOMAIN s = 1..Len(s) /\ Len(s) \in Nat
BY DEF Listed

LEMMA AppendIs ==
  ASSUME NEW s, Listed(s), NEW e
  PROVE  /\ DOMAIN Append(s, e) = 1..Len(s) + 1 /\ Len(Append(s, e)) = Len(s) + 1
         /\ \A i \in 1..Len(s) : Append(s, e)[i] = s[i]
         /\ Append(s, e)[Len(s) + 1] = e
         /\ Listed(Append(s, e))
<1> DEFINE U == Range(s) \cup {e}
<1>1. s \in Seq(U) /\ e \in U  BY DEF Listed
<1> HIDE DEF U
<1>2. /\ DOMAIN Append(s, e) = 1..Len(s) + 1 /\ Len(Append(s, e)) = Len(s) + 1
      /\ \A i \in 1..Len(s) : Append(s, e)[i] = s[i]
      /\ Append(s, e)[Len(s) + 1] = e /\ Append(s, e) \in Seq(U) /\ Len(s) \in Nat
  BY <1>1
<1>3. PICK t : t = Append(s, e)  OBVIOUS
<1>4. t \in Seq(U) /\ DOMAIN t = 1..Len(t) /\ Len(t) \in Nat  BY <1>2, <1>3
<1>5. \A i \in 1..Len(t) : t[i] \in Range(t)  BY <1>4 DEF Range
<1>6. t \in Seq(Range(t))
  <2>1. t = [i \in 1..Len(t) |-> t[i]]  BY <1>4
  <2> QED BY <1>4, <1>5, <2>1
<1> QED BY <1>2, <1>3, <1>6 DEF Listed

\* Indices below a bound: finite, with a least and a greatest one.
LEMMA IndicesAre ==
  ASSUME NEW n \in Nat, NEW S \in SUBSET (1..n)
  PROVE  /\ S \in SUBSET Nat /\ IsFiniteSet(S) /\ Cardinality(S) \in Nat
         /\ S # {} => /\ Min(S) \in S /\ Max(S) \in S
                      /\ \A i \in S : Min(S) <= i /\ i <= Max(S)
<1>1. S \in SUBSET Nat  OBVIOUS
<1>2. IsFiniteSet(S) /\ Cardinality(S) \in Nat
  <2>1. IsFiniteSet(1..n)  BY FS_Interval
  <2>2. IsFiniteSet(S)  BY <2>1, FS_Subset
  <2> QED BY <2>2, FS_CardinalityType
<1>3. ASSUME S # {}
      PROVE  /\ Min(S) \in S /\ Max(S) \in S
             /\ \A i \in S : Min(S) <= i /\ i <= Max(S)
  <2>1. Min(S) \in S /\ \A i \in S : Min(S) <= i  BY <1>1, <1>3, MinIs
  <2>2. \A i \in S : i <= n  OBVIOUS
  <2>3. Max(S) \in S /\ \A i \in S : i <= Max(S)  BY <1>1, <1>3, <2>2, MaxIs
  <2> QED BY <2>1, <2>3
<1> QED BY <1>1, <1>2, <1>3

\* One index more, above the others.
LEMMA OneMore ==
  ASSUME NEW n \in Nat, NEW S \in SUBSET (1..n), NEW T \in SUBSET (1..n + 1),
         \A i \in 1..n : i \in T <=> i \in S, n + 1 \in T
  PROVE  /\ Max(T) = n + 1 /\ Cardinality(T) = Cardinality(S) + 1 /\ T # {}
         /\ Min(T) = IF S = {} THEN n + 1 ELSE Min(S)
<1>0. T = S \cup {n + 1} /\ n + 1 \notin S /\ T \in SUBSET Nat
  <2>1. \A i \in 1..n + 1 : i \in 1..n \/ i = n + 1  OBVIOUS
  <2>2. \A i \in T : i \in S \/ i = n + 1  BY <2>1
  <2>3. n + 1 \notin 1..n /\ \A i \in 1..n + 1 : i \in Nat  OBVIOUS
  <2>4. \A i \in S : i \in T  OBVIOUS
  <2>5. T \subseteq S \cup {n + 1} /\ S \cup {n + 1} \subseteq T
    <3> HIDE DEF Min
    <3> QED BY <2>2, <2>4, Zenon
  <2> QED BY <2>3, <2>5
<1>1. Max(T) = n + 1
  <2>1. n + 1 \in T /\ \A i \in T : i <= n + 1  OBVIOUS
  <2> QED BY <1>0, <2>1, MaxAbove
<1>2. IsFiniteSet(S) /\ (S # {} => Min(S) \in S /\ \A i \in S : Min(S) <= i)  BY IndicesAre
<1>3. Cardinality(T) = Cardinality(S) + 1  BY <1>0, <1>2, FS_AddElement
<1>4. T # {}  BY <1>0
<1>5. PICK m \in T : m = Min(T) /\ \A i \in T : m <= i
  <2>1. Min(T) \in T /\ \A i \in T : Min(T) <= i  BY <1>0, <1>4, MinIs
  <2> QED BY <2>1
<1>6. CASE S = {}
  <2>1. m = n + 1  BY <1>0, <1>6
  <2> QED BY <1>1, <1>3, <1>4, <1>5, <1>6, <2>1
<1>7. CASE S # {}
  <2>1. PICK k \in S : k = Min(S) /\ \A i \in S : k <= i  BY <1>2, <1>7
  <2>2. k \in T /\ m <= k /\ k \in 1..n  BY <1>0, <1>5, <2>1
  <2>3. m \in 1..n  BY <2>2
  <2>4. m \in S  BY <2>3
  <2>5. m = k  BY <2>1, <2>2, <2>3, <2>4
  <2> QED BY <1>1, <1>3, <1>4, <1>5, <1>7, <2>1, <2>5
<1> QED BY <1>6, <1>7

\* t is s with e appended.
Grown(s, e, t, n) ==
    /\ DOMAIN s = 1..n /\ DOMAIN t = 1..n + 1
    /\ \A i \in 1..n : t[i] = s[i]
    /\ t[n + 1] = e

LEMMA GrownIs ==
  ASSUME NEW s, Listed(s), NEW e
  PROVE  \E n \in Nat : n = Len(s) /\ Grown(s, e, Append(s, e), n)
<1> DEFINE n == Len(s)
<1>1. s \in Seq(Range(s) \cup {e})  BY DEF Listed
<1>2. n \in Nat /\ Grown(s, e, Append(s, e), n)  BY <1>1 DEF Grown
<1> QED BY <1>2

LEMMA ThoseGrown ==
  ASSUME NEW as, NEW a, NEW t, NEW n \in Nat, Grown(as, a, t, n), NEW b
  PROVE  /\ Those(as, b) \in SUBSET (1..n)
         /\ a.batch # b => Those(t, b) \subseteq Those(as, b) /\ Those(as, b) \subseteq Those(t, b)
         /\ a.batch = b => /\ Those(t, b) \in SUBSET (1..n + 1) /\ n + 1 \in Those(t, b)
                           /\ \A i \in 1..n : i \in Those(t, b) <=> i \in Those(as, b)
<1>1. /\ DOMAIN as = 1..n /\ DOMAIN t = 1..n + 1
      /\ \A i \in 1..n : t[i] = as[i]
      /\ t[n + 1] = a
  BY DEF Grown
<1>2. \A i \in 1..n + 1 : i \in 1..n \/ (i = n + 1 /\ i \notin 1..n)  OBVIOUS
<1>3. n + 1 \in 1..n + 1 /\ \A i \in 1..n : i \in 1..n + 1  OBVIOUS
<1>4. /\ \A i : i \in Those(as, b) <=> i \in 1..n /\ as[i].batch = b
      /\ \A i : i \in Those(t, b) <=> i \in 1..n + 1 /\ t[i].batch = b
  BY <1>1 DEF Those
<1>5. \A i \in 1..n : i \in Those(t, b) <=> i \in Those(as, b)  BY <1>1, <1>3, <1>4
<1>6. n + 1 \in Those(t, b) <=> a.batch = b  BY <1>1, <1>3, <1>4
<1>7. Those(as, b) \in SUBSET (1..n) /\ Those(t, b) \in SUBSET (1..n + 1)  BY <1>4
<1>8. a.batch # b => Those(t, b) \subseteq Those(as, b) /\ Those(as, b) \subseteq Those(t, b)
  BY <1>2, <1>5, <1>6, <1>7
<1> QED BY <1>5, <1>6, <1>7, <1>8

LEMMA AskingGrown ==
  ASSUME NEW as, NEW a, NEW t, NEW n \in Nat, Grown(as, a, t, n), NEW f
  PROVE  /\ Asking(as, f) \in SUBSET (1..n)
         /\ f \notin a.requested => Asking(t, f) = Asking(as, f)
         /\ f \in a.requested => /\ Asking(t, f) \in SUBSET (1..n + 1) /\ n + 1 \in Asking(t, f)
                                 /\ \A i \in 1..n : i \in Asking(t, f) <=> i \in Asking(as, f)
<1>1. /\ DOMAIN as = 1..n /\ DOMAIN t = 1..n + 1
      /\ \A i \in 1..n : t[i] = as[i]
      /\ t[n + 1] = a
  BY DEF Grown
<1>2. \A i \in 1..n + 1 : i \in 1..n \/ (i = n + 1 /\ i \notin 1..n)  OBVIOUS
<1>3. n + 1 \in 1..n + 1 /\ \A i \in 1..n : i \in 1..n + 1  OBVIOUS
<1>4. /\ \A i : i \in Asking(as, f) <=> i \in 1..n /\ f \in as[i].requested
      /\ \A i : i \in Asking(t, f) <=> i \in 1..n + 1 /\ f \in t[i].requested
  BY <1>1 DEF Asking
<1>5. \A i \in 1..n : i \in Asking(t, f) <=> i \in Asking(as, f)  BY <1>1, <1>3, <1>4
<1>6. n + 1 \in Asking(t, f) <=> f \in a.requested  BY <1>1, <1>3, <1>4
<1>7. Asking(as, f) \in SUBSET (1..n) /\ Asking(t, f) \in SUBSET (1..n + 1)  BY <1>4
<1>8. f \notin a.requested => Asking(t, f) = Asking(as, f)  BY <1>2, <1>5, <1>6, <1>7
<1> QED BY <1>5, <1>6, <1>7, <1>8

\* The next attempt of its batch keeps the numbering.
LEMMA ContiguousGrown ==
  ASSUME NEW as, NEW a, NEW t, NEW n \in Nat, Grown(as, a, t, n), Contiguous(as),
         a.attempt = 1 + Cardinality(Those(as, a.batch))
  PROVE  Contiguous(t)
<1>1. /\ DOMAIN as = 1..n /\ DOMAIN t = 1..n + 1
      /\ \A i \in 1..n : t[i] = as[i]
      /\ t[n + 1] = a
  BY DEF Grown
<1> DEFINE Before(s, i) == {j \in 1..i - 1 : s[j].batch = s[i].batch}
<1>2. ASSUME NEW i \in 1..n + 1  PROVE t[i].attempt = 1 + Cardinality(Before(t, i))
  <2>1. CASE i \in 1..n
    <3>1. \A j \in 1..i - 1 : j \in 1..n  BY <2>1
    <3>2. t[i] = as[i] /\ \A j \in 1..i - 1 : t[j] = as[j]  BY <1>1, <2>1, <3>1
    <3>3. /\ \A j : j \in Before(t, i) <=> j \in 1..i - 1 /\ t[j].batch = t[i].batch
          /\ \A j : j \in Before(as, i) <=> j \in 1..i - 1 /\ as[j].batch = as[i].batch
      OBVIOUS
    <3> HIDE DEF Before
    <3>4. Before(t, i) = Before(as, i)  BY <3>2, <3>3
    <3>5. as[i].attempt = 1 + Cardinality(Before(as, i))  BY <1>1, <2>1 DEF Contiguous, Before
    <3> QED BY <3>2, <3>4, <3>5
  <2>2. CASE i = n + 1
    <3>1. i - 1 = n /\ t[i] = a  BY <1>1, <2>2
    <3>2. \A j : j \in Before(t, i) <=> j \in 1..n /\ as[j].batch = a.batch  BY <1>1, <3>1
    <3>3. \A j : j \in Those(as, a.batch) <=> j \in 1..n /\ as[j].batch = a.batch  BY <1>1 DEF Those
    <3> HIDE DEF Before
    <3>4. Before(t, i) = Those(as, a.batch)  BY <3>2, <3>3
    <3> QED BY <3>1, <3>4
  <2> QED BY <2>1, <2>2
<1> QED BY <1>1, <1>2 DEF Contiguous

(***************************************************************************)
(* Batches and mirrors.                                                    *)
(***************************************************************************)
LEMMA BatchFacts ==
  ASSUME ClosureInv, Planning, at \in Planned
  PROVE  /\ Sound(ev.packages) /\ w.batches \in Seq(Seq(ev.packages)) /\ Len(w.batches) \in Nat
         /\ \A b \in 1..Len(w.batches) :
               /\ Range(w.batches[b]) \subseteq ev.packages
               /\ FilesOf(Range(w.batches[b])) \subseteq ev.cache.audit.pending
         /\ \A b, c \in 1..Len(w.batches) :
               b # c => FilesOf(Range(w.batches[b])) \cap FilesOf(Range(w.batches[c])) = {}
<1> DEFINE P == {p \in ev.packages : p.file \in ev.cache.audit.pending}
<1>1. Sound(ev.packages)
  <2>1. sync \in Dbs /\ ev.packages = Resolve[sync]  BY DEF ClosureInv, Anchored, Frozen, Planned
  <2> QED BY <2>1, ResolvedIsSound
<1>2. w.batches = plan_package_prefetch_batches(P)  BY DEF Planning
<1>3. Sound(P) /\ P \subseteq ev.packages  BY <1>1, SoundParts
<1>4. \A p \in P : p.file \in ev.cache.audit.pending  OBVIOUS
<1>5. \A p, q \in P : p.file = q.file => p = q  BY <1>3 DEF Sound
<1> HIDE DEF P
<1>6. /\ w.batches \in Seq(Seq(P))
      /\ \A i, j \in DOMAIN w.batches : i # j => Range(w.batches[i]) \cap Range(w.batches[j]) = {}
  BY <1>2, <1>3, BatchesAreDisjoint
<1>7. DOMAIN w.batches = 1..Len(w.batches) /\ Len(w.batches) \in Nat  BY <1>6
<1>8. \A b \in 1..Len(w.batches) : Range(w.batches[b]) \subseteq P
  <2> TAKE b \in 1..Len(w.batches)
  <2>1. w.batches[b] \in Seq(P)  BY <1>6, <1>7
  <2> QED BY <2>1, SeqRange
<1>9. w.batches \in Seq(Seq(ev.packages))
  <2> DEFINE A == Seq(P)
             B == Seq(ev.packages)
  <2>1. A \subseteq B  BY <1>3
  <2> HIDE DEF A, B
  <2>2. w.batches \in Seq(A)  BY <1>6 DEF A
  <2>3. w.batches \in Seq(B)  BY <2>1, <2>2
  <2> QED BY <2>3 DEF B
<1>10. \A b \in 1..Len(w.batches) : FilesOf(Range(w.batches[b])) \subseteq ev.cache.audit.pending
  BY <1>4, <1>8 DEF FilesOf
<1>11. ASSUME NEW b \in 1..Len(w.batches), NEW c \in 1..Len(w.batches), b # c
       PROVE  FilesOf(Range(w.batches[b])) \cap FilesOf(Range(w.batches[c])) = {}
  <2>1. Range(w.batches[b]) \cap Range(w.batches[c]) = {}  BY <1>6, <1>7, <1>11
  <2> QED BY <1>5, <1>8, <2>1 DEF FilesOf
<1> QED BY <1>1, <1>3, <1>7, <1>8, <1>9, <1>10, <1>11

\* The anchor first, then the servers after it.
LEMMA MirrorsFollow ==
  ASSUME NEW anchor \in 1..Mirrors
  PROVE  LET m == ordered_prefetch_mirrors(anchor)
         IN  /\ m \in Seq(Nat) /\ Len(m) >= 1 /\ Len(m) <= MaxAttempts /\ m[1] = anchor
             /\ \A i \in 1..Len(m) - 1 : m[i] < m[i + 1]
<1> DEFINE S == {MaxAttempts, Mirrors - anchor + 1}
           k == Min(S)
           m == ordered_prefetch_mirrors(anchor)
<1>1. S \in SUBSET Nat /\ S # {} /\ MaxAttempts >= 1 /\ Mirrors - anchor + 1 >= 1 /\ MaxAttempts \in Nat /\ anchor \in Nat
  BY MirrorsAre
<1>2. k \in S /\ \A i \in S : k <= i
  <2> HIDE DEF S
  <2> QED BY <1>1, MinIs
<1>3. k \in Nat /\ k >= 1 /\ k <= MaxAttempts  BY <1>1, <1>2
<1>4. m = [i \in 1..k |-> anchor + i - 1]  BY DEF ordered_prefetch_mirrors
<1> HIDE DEF m, k, S
<1>5. m \in Seq(Nat) /\ Len(m) = k /\ \A i \in 1..k : m[i] = anchor + i - 1
  <2>1. \A i \in 1..k : anchor + i - 1 \in Nat  BY <1>1, <1>3
  <2> QED BY <1>3, <1>4, <2>1
<1>6. m[1] = anchor /\ \A i \in 1..Len(m) - 1 : m[i] < m[i + 1]  BY <1>1, <1>3, <1>5
<1> QED BY <1>3, <1>5, <1>6 DEF m

(***************************************************************************)
(* What the steps after the resolution do.                                 *)
(***************************************************************************)
Audit == audit_persistent_package_cache(cache, ev.packages)
LEMMA AuditFacts ==
  ASSUME Evidence(ev), DOMAIN w = WorkFields, audit_cache
  PROVE  /\ at = "audit" /\ at' = AfterBatch(1, w'.batches) /\ cache' = Audit.cache
         /\ UNCHANGED <<owner, dirs, run, ro, sync, restored, touched>>
         /\ w'.batches = plan_package_prefetch_batches({p \in ev.packages : p.file \in Audit.pending})
         /\ w'.batch = 1 /\ w'.attempt = 1 /\ w'.retry = w.retry /\ w'.spoiled = w.spoiled
         /\ w'.pending = IF w'.batches = <<>> THEN {} ELSE FilesOf(Range(w'.batches[1]))
         /\ ev'.run = ev.run /\ ev'.status = ev.status /\ ev'.repositories = ev.repositories
         /\ ev'.packages = ev.packages /\ ev'.anchor = ev.anchor /\ ev'.failure = ev.failure
         /\ ev'.progress = reconcile_package_progress_from_cache_audit(ev.progress, Audit)
         /\ ev'.cache.audit.status = "pass" /\ ev'.cache.audit.reused = Audit.reused
         /\ ev'.cache.audit.pending = Audit.pending /\ ev'.cache.audit.corrupt = Audit.corrupt
         /\ ev'.cache.reused = Cardinality(Audit.reused) /\ ev'.cache.batches = Len(w'.batches)
         /\ ev'.cache.mirrors = ordered_prefetch_mirrors(ev.anchor.selected)
         /\ ev'.cache.completed = 0 /\ ev'.cache.attempts = ev.cache.attempts
         /\ report' = Put(report, run, ev')
<1> DEFINE progress == reconcile_package_progress_from_cache_audit(ev.progress, Audit)
           batches == plan_package_prefetch_batches({p \in ev.packages : p.file \in Audit.pending})
           n == Cardinality(Audit.reused)
           audit == [status |-> "pass", reused |-> Audit.reused, pending |-> Audit.pending, corrupt |-> Audit.corrupt]
           c == [ev.cache EXCEPT !.audit = audit, !.reused = n, !.verified = n, !.downloaded = 0,
                                 !.pending = Cardinality(Audit.pending),
                                 !.batches = Len(batches), !.completed = 0,
                                 !.mirrors = ordered_prefetch_mirrors(ev.anchor.selected)]
           next == [w EXCEPT !.batches = batches, !.batch = 1, !.attempt = 1,
                             !.pending = IF batches = <<>> THEN {} ELSE FilesOf(Range(batches[1])),
                             !.left = Audit.pending]
           e == [ev EXCEPT !.progress = progress, !.summary = summarize_package_progress(progress), !.cache = c]
<1>1. /\ at = "audit" /\ at' = AfterBatch(1, batches) /\ cache' = Audit.cache
      /\ UNCHANGED <<owner, dirs, run, ro, sync, restored, touched>>
      /\ w' = next /\ ev' = e /\ write_repository_closure_evidence(ev')
  BY DEF audit_cache, Audit
<1>2. /\ audit.status = "pass" /\ audit.reused = Audit.reused
      /\ audit.pending = Audit.pending /\ audit.corrupt = Audit.corrupt
  OBVIOUS
<1> HIDE DEF audit
<1>3. /\ c.audit = audit /\ c.reused = n /\ c.batches = Len(batches) /\ c.completed = 0
      /\ c.mirrors = ordered_prefetch_mirrors(ev.anchor.selected) /\ c.attempts = ev.cache.attempts
  BY DEF Evidence, LedgerFields
<1> HIDE DEF c
<1>4. /\ e.run = ev.run /\ e.status = ev.status /\ e.repositories = ev.repositories
      /\ e.packages = ev.packages /\ e.anchor = ev.anchor /\ e.failure = ev.failure
      /\ e.progress = progress /\ e.cache = c
  BY DEF Evidence, EvFields
<1> HIDE DEF e
<1>5. /\ next.batches = batches /\ next.batch = 1 /\ next.attempt = 1 /\ next.retry = w.retry
      /\ next.spoiled = w.spoiled
      /\ next.pending = IF batches = <<>> THEN {} ELSE FilesOf(Range(batches[1]))
  BY DEF WorkFields
<1> HIDE DEF next
<1>6. report' = Put(report, run, ev')  BY <1>1 DEF write_repository_closure_evidence, Put
<1> QED BY <1>1, <1>2, <1>3, <1>4, <1>5, <1>6

LEMMA FetchFacts ==
  ASSUME DOMAIN w = WorkFields, fetch_mirror_attempt
  PROVE  /\ at = "fetch" /\ at' = "record" /\ UNCHANGED <<owner, dirs, report, run, ev, ro, sync, restored, touched>>
         /\ w'.batches = w.batches /\ w'.batch = w.batch /\ w'.attempt = w.attempt /\ w'.pending = w.pending
         /\ w'.asked = attempt_packages /\ w'.retry = {}
<1>1. PICK err, lost : w' = [w EXCEPT !.asked = attempt_packages, !.err = err, !.retry = {},
                                      !.last = IF IsError(err) THEN err ELSE @, !.spoiled = @ \cup lost]
  BY DEF fetch_mirror_attempt
<1>2. /\ w'.batches = w.batches /\ w'.batch = w.batch /\ w'.attempt = w.attempt /\ w'.pending = w.pending
      /\ w'.asked = attempt_packages /\ w'.retry = {}
  BY <1>1 DEF WorkFields
<1> QED BY <1>2 DEF fetch_mirror_attempt

\* After the local repository is built the ledger and its totals stand.
LEMMA LateFacts ==
  ASSUME Evidence(ev), validate_local_repository \/ restore_outer_owner \/ seal_closure, at' # "raised"
  PROVE  /\ at \in {"validate", "handoff", "seal"} /\ at' \in {"handoff", "seal", "closed"}
         /\ UNCHANGED <<cache, run, w, sync, touched>>
         /\ ev'.run = ev.run /\ ev'.repositories = ev.repositories
         /\ ev'.packages = ev.packages /\ ev'.anchor = ev.anchor /\ ev'.progress = ev.progress
         /\ ev'.summary = ev.summary /\ ev'.cached_before = ev.cached_before
         /\ ev'.cache.audit = ev.cache.audit /\ ev'.cache.reused = ev.cache.reused
         /\ ev'.cache.downloaded = ev.cache.downloaded /\ ev'.cache.verified = ev.cache.verified
         /\ ev'.cache.pending = ev.cache.pending /\ ev'.cache.mirrors = ev.cache.mirrors
         /\ ev'.cache.batches = ev.cache.batches /\ ev'.cache.completed = ev.cache.completed
         /\ ev'.cache.attempts = ev.cache.attempts
<1>r. \A e, error : raise_closure_failure(e, error) => at' = "raised"  BY DEF raise_closure_failure
<1>1. CASE validate_local_repository
  <2>1. /\ at = "validate" /\ at' = "handoff" /\ UNCHANGED <<cache, run, w, sync, touched>>
        /\ ev' = [ev EXCEPT !.local = Cardinality(Resolve[sync]),
                       !.gate = @ \cup {"local_resolution_matches", "post_validation_cache_verified"}]
    BY <1>1, <1>r DEF validate_local_repository, persistent
  <2> QED BY <2>1 DEF Evidence, EvFields, LedgerFields
<1>2. CASE restore_outer_owner
  <2>1. /\ at = "handoff" /\ at' = "seal" /\ UNCHANGED <<cache, run, w, sync, touched>>
        /\ ev' = [ev EXCEPT !.cache.flags = @ \cup {"outer_owner_restored"},
                        !.gate = @ \cup {"cache_outer_owner_restored"}]
    BY <1>2 DEF restore_outer_owner
  <2> QED BY <2>1 DEF Evidence, EvFields, LedgerFields
<1>3. CASE seal_closure
  <2>1. /\ at = "seal" /\ at' = "closed" /\ UNCHANGED <<cache, run, w, sync, touched>>
        /\ ev' = [ev EXCEPT !.cache.flags = CacheFlags, !.status = "pass", !.failure = NoFailure,
                             !.gate = @ \cup {"cache_source_read_only", "cache_read_only"}]
    BY <1>3, <1>r DEF seal_closure
  <2> QED BY <2>1 DEF Evidence, EvFields, LedgerFields
<1> QED BY <1>1, <1>2, <1>3

\* Steps of the closure after which it is not past the resolution.
LEMMA EarlySteps ==
  ASSUME prepare_repository_closure, at' \in Resolved
  PROVE  \/ freeze_resolved_package_evidence \/ audit_cache \/ fetch_mirror_attempt
         \/ acquire_batch_with_mirror_failover \/ interrupted_between_attempts \/ acquire_prefetch_batches
         \/ construct_frozen_local_repository
         \/ validate_local_repository \/ restore_outer_owner \/ seal_closure
<1>1. \A e, error : raise_closure_failure(e, error) => at' \notin Resolved
  BY DEF raise_closure_failure, Resolved
<1>2. ~setup_closure  BY DEF setup_closure, Resolved
<1>3. ~parse_artix_mirror_servers  BY <1>1 DEF parse_artix_mirror_servers, Resolved
<1>4. ~probe_anchor
  <2> SUFFICES ASSUME probe_anchor  PROVE FALSE
    OBVIOUS
  <2>1. at' \in {"freeze", "probe"} \/ \E e, error : raise_closure_failure(e, error)
    BY DEF probe_anchor
  <2> QED BY <1>1, <2>1 DEF Resolved
<1>5. ~freeze_repository_sync_directory  BY DEF freeze_repository_sync_directory, Resolved
<1>6. ~closure_step_fails  BY <1>1 DEF closure_step_fails
<1> QED BY <1>2, <1>3, <1>4, <1>5, <1>6 DEF prepare_repository_closure

(***************************************************************************)
(* The plan of the acquisition, step by step.                              *)
(***************************************************************************)
PlanHolds == ShapeInv /\ ProcessInv /\ ClosureInv /\ PlanInv

\* Outside the closure nothing is planned.
LEMMA PlanOutside ==
  ASSUME at' \notin Inside, Typed'
  PROVE  PlanInv'
BY SubstageIs DEF Inside, PlanInv, LedgerShape, Planning, NoRetry, AttemptInv, CacheInv, SpoilInv, Sealable, Resolved, Planned, Complete

LEMMA PlanOther ==
  ASSUME PlanHolds, [Next]_vars, ~ClosureStep
  PROVE  PlanInv'
<1>1. ev' = ev \/ ev'.progress = <<>>
  <2>1. (NewEvidence(0)).progress = <<>>  BY DEF NewEvidence
  <2>2. CASE InnerStep
    BY <2>2 DEF InnerStep, build_iso_inner, run_buildiso_after_security_boundary, buildiso, collect_iso
  <2>3. CASE OuterStep
    BY <2>1, <2>3 DEF OuterStep, run_private_namespace, inner_killed, build_iso, inner_is_gone, closureVars, process
  <2>4. CASE HostStep
    BY <2>4 DEF HostStep, HostTouchesCache, prepare_mounted, SurvivorsEnd, closureVars, process
  <2>5. CASE AgainStep  BY <2>5 DEF AgainStep, BuildAgain
  <2>6. CASE IterationStep
    BY <2>6 DEF IterationStep, execute_native_iso, start_iteration, run_step, run_streamed_builder,
       finish_interrupted, finish, hand_build_ends, closureVars, process
  <2>7. CASE HostCrash  BY <2>1, <2>7 DEF HostCrash, inner_is_gone
  <2>8. CASE UNCHANGED vars  BY <2>8 DEF vars, closureVars, process
  <2> QED BY <2>2, <2>3, <2>4, <2>5, <2>6, <2>7, <2>8, StepIs
<1>2. Typed'
  <2>1. DOMAIN <<>> = {}  OBVIOUS
  <2> QED BY <1>1, <2>1 DEF Typed, PlanHolds, PlanInv
<1>3. CASE at' \notin Inside  BY <1>2, <1>3, PlanOutside
<1>4. CASE at' \in Inside
  <2>1. UNCHANGED <<owner, process>> /\ (UNCHANGED <<cache, touched>> \/ HostTouchesCache)
    BY <1>4, OtherSteps DEF PlanHolds
  <2>2. UNCHANGED <<run, at, ev, w, sync>>  BY <2>1 DEF process
  <2>3. LedgerShape' /\ Planning' /\ NoRetry' /\ Sealable'
    BY <2>2 DEF PlanHolds, PlanInv, LedgerShape, Planning, NoRetry, Sealable
  <2>4. AttemptInv'
    BY <2>2 DEF PlanHolds, PlanInv, AttemptInv, InOrder, AttemptsOf, AttemptOK, ToldByLast, Done, First, Batch
  <2>5. /\ touched \subseteq touched'
        /\ \A f \in DOMAIN ev.progress \ touched' : cache'[f] = cache[f]
    <3>1. CASE UNCHANGED <<cache, touched>>  BY <3>1
    <3>2. CASE HostTouchesCache
      <4>1. PICK f \in Files, sha \in {None, "wrong"} : cache' = [cache EXCEPT ![f].sha = sha] /\ touched' = touched \cup {f}
        BY <3>2 DEF HostTouchesCache
      <4>2. DOMAIN ev.progress \subseteq Files /\ DOMAIN cache = Files  BY DEF PlanHolds, PlanInv, Typed, ShapeInv
      <4>3. \A g \in Files : g # f => cache'[g] = cache[g]  BY <4>1, <4>2
      <4> QED BY <4>1, <4>2, <4>3
    <3> QED BY <2>1, <3>1, <3>2
  <2>6. CacheInv'
    <3>0. Excepted \subseteq Excepted' /\ touched' \subseteq Excepted'  BY <2>2, <2>5 DEF Excepted
    <3>1. \A f \in DOMAIN ev.progress \ touched' : Good(f)' <=> Good(f)  BY <2>2, <2>5 DEF Good
    <3>2. \A f : IsVerified(f)' <=> IsVerified(f)  BY <2>2 DEF IsVerified
    <3>3. \A f \in DOMAIN ev'.progress \ Excepted' : f \in DOMAIN ev.progress \ Excepted /\ f \notin touched'
      BY <2>2, <3>0
    <3> HIDE DEF Good, IsVerified
    <3> QED BY <2>2, <3>1, <3>2, <3>3 DEF CacheInv, PlanHolds, PlanInv
  <2>7. SpoilInv'
    <3>1. SpoilInv  BY DEF PlanHolds, PlanInv
    <3>2. CASE UNCHANGED <<cache, touched>>  BY <2>2, <3>1, <3>2 DEF SpoilInv, Lost
    <3>3. CASE HostTouchesCache
      <4>1. PICK f \in Files, sha \in {None, "wrong"} : cache' = [cache EXCEPT ![f].sha = sha]
        BY <3>3 DEF HostTouchesCache
      <4>2. ASSUME NEW g \in Files, Lost(g)  PROVE Lost(g)'
        <5>1. DOMAIN cache = Files /\ DOMAIN cache[g] = {"sha", "sig", "part"}  BY DEF PlanHolds, ShapeInv
        <5>2. cache'[g].sha = cache[g].sha \/ cache'[g].sha = sha  BY <4>1, <5>1
        <5> QED BY <2>2, <4>2, <5>2 DEF Lost
      <4> QED BY <2>2, <3>1, <4>2 DEF SpoilInv
    <3> QED BY <2>1, <3>2, <3>3
  <2> QED BY <1>2, <2>3, <2>4, <2>6, <2>7 DEF PlanInv
<1> QED BY <1>3, <1>4

\* A failure leaves the ledger as it is.
LEMMA RaisedLedger ==
  ASSUME Evidence(ev), DOMAIN w = WorkFields, prepare_repository_closure, at' = "raised"
  PROVE  ev'.progress = ev.progress
<1>r. ASSUME NEW e, NEW error, raise_closure_failure(e, error), Evidence(e)
      PROVE  ev'.progress = e.progress
  BY <1>r, RaiseFacts
<1>e. \A error : raise_closure_failure(ev, error) => ev'.progress = ev.progress  BY <1>r
<1>1. CASE setup_closure  BY <1>1 DEF setup_closure
<1>2. CASE parse_artix_mirror_servers  BY <1>2, <1>e DEF parse_artix_mirror_servers
<1>3. CASE probe_anchor
  <2>1. at = "probe"  BY <1>3 DEF probe_anchor
  <2>2. PICK text, error : raise_closure_failure([ev EXCEPT !.anchor.attempts = Append(w.probes, text),
                                                            !.anchor.status = "fail"], error)
    BY <1>3, <2>1 DEF probe_anchor
  <2> DEFINE e == [ev EXCEPT !.anchor.attempts = Append(w.probes, text), !.anchor.status = "fail"]
  <2>3. Evidence(e) /\ e.progress = ev.progress  BY DEF Evidence, EvFields
  <2> QED BY <1>r, <2>2, <2>3
<1>4. CASE freeze_repository_sync_directory  BY <1>4 DEF freeze_repository_sync_directory
<1>5. CASE freeze_resolved_package_evidence  BY <1>5, <1>e DEF freeze_resolved_package_evidence
<1>6. CASE audit_cache  BY <1>6 DEF audit_cache, AfterBatch
<1>7. CASE fetch_mirror_attempt  BY <1>7 DEF fetch_mirror_attempt
<1>8. CASE acquire_batch_with_mirror_failover  BY <1>8, AcquireFacts
<1>9. CASE interrupted_between_attempts  BY <1>9 DEF interrupted_between_attempts
<1>10. CASE acquire_prefetch_batches
  <2>1. at' # AfterBatch(w.batch + 1, w.batches)  BY DEF AfterBatch
  <2>2. PICK e, error : Evidence(e) /\ e.progress = ev.progress /\ raise_closure_failure(e, error)
    BY <1>10, <2>1, CountFacts
  <2> QED BY <1>r, <2>2
<1>11. CASE construct_frozen_local_repository  BY <1>11, <1>e, ConstructFacts
<1>12. CASE validate_local_repository  BY <1>12, <1>e DEF validate_local_repository
<1>13. CASE restore_outer_owner  BY <1>13 DEF restore_outer_owner
<1>14. CASE seal_closure
  <2>1. at = "seal"  BY <1>14 DEF seal_closure
  <2> DEFINE e == [ev EXCEPT !.cache.flags = CacheFlags, !.status = "pass", !.failure = NoFailure,
                             !.gate = @ \cup {"cache_source_read_only", "cache_read_only"}]
  <2>2. raise_closure_failure(e, Message({}))  BY <1>14 DEF seal_closure
  <2>3. Evidence(e) /\ e.progress = ev.progress  BY DEF Evidence, EvFields, LedgerFields
  <2> QED BY <1>r, <2>2, <2>3
<1>15. CASE closure_step_fails
  <2>1. PICK error : \/ raise_closure_failure(ev, error)
                     \/ raise_closure_failure([ev EXCEPT !.status = "pass"], error)
    BY <1>15 DEF closure_step_fails
  <2> DEFINE e == [ev EXCEPT !.status = "pass"]
  <2>2. Evidence(e) /\ e.progress = ev.progress  BY DEF Evidence, EvFields
  <2> QED BY <1>e, <1>r, <2>1, <2>2
<1> QED
  BY <1>1, <1>2, <1>3, <1>4, <1>5, <1>6, <1>7, <1>8, <1>9, <1>10, <1>11, <1>12, <1>13, <1>14, <1>15
     DEF prepare_repository_closure

LEMMA TypedKeeps ==
  ASSUME PlanHolds, ClosureStep, ClosureInv', LedgerShape'
  PROVE  Typed'
<1> USE DEF PlanHolds
<1>e. Evidence(ev) /\ DOMAIN w = WorkFields /\ prepare_repository_closure  BY DEF ShapeInv, ClosureStep
<1>1. CASE at' \in Resolved
  <2>1. sync' \in Dbs /\ ev'.packages = Resolve[sync'] /\ DOMAIN ev'.progress = FilesOf(ev'.packages)
    BY <1>1 DEF ClosureInv, Anchored, Frozen
  <2>2. \A p \in ev'.packages : p.file \in Files  BY <2>1, ResolvedIsSound DEF Sound
  <2>3. \A f \in DOMAIN ev'.progress : f \in Files  BY <2>1, <2>2 DEF FilesOf
  <2>4. \A f \in DOMAIN ev'.progress : ev'.progress[f].state \in Progress
    BY <1>1 DEF LedgerShape, ProgressOf, Progress, VerifiedStates
  <2> QED BY <2>3, <2>4 DEF Typed
<1>2. CASE at' \in {"mirrors", "probe", "freeze", "resolve"}
  <2>1. ev'.progress = <<>>  BY <1>2 DEF ClosureInv, Begun, NothingYet, NewEvidence
  <2>2. DOMAIN <<>> = {}  OBVIOUS
  <2> QED BY <2>1, <2>2 DEF Typed
<1>3. CASE at' = "raised"
  <2>1. ev'.progress = ev.progress  BY <1>e, <1>3, RaisedLedger
  <2> QED BY <2>1 DEF Typed, PlanInv
<1>4. at' \in Resolved \cup {"mirrors", "probe", "freeze", "resolve", "raised"}
  BY <1>e, ClosureMoves, SubstageIs DEF Resolved, EvShape, WorkShape
<1> QED BY <1>1, <1>2, <1>3, <1>4

\* The entries the steps write.
LEMMA LedgerKeeps ==
  ASSUME PlanHolds, ClosureStep
  PROVE  LedgerShape'
<1> USE DEF PlanHolds
<1>e. Evidence(ev) /\ DOMAIN w = WorkFields /\ prepare_repository_closure  BY DEF ShapeInv, ClosureStep
<1> SUFFICES ASSUME at' \in Resolved  PROVE LedgerShape'
  BY DEF LedgerShape
<1> DEFINE OK(p) == \/ p \in {ProgressOf(s, 0, 0, None) : s \in {"pending", "reused_verified", "corrupt_removed"}}
                    \/ /\ p.state = "downloaded_verified" /\ p.batch \in Nat \ {0} /\ p.attempt \in Nat \ {0} /\ p.class = None
                    \/ p.state = "failed"
<1>g. SUFFICES \A f \in DOMAIN ev'.progress : OK(ev'.progress[f])
  BY DEF LedgerShape
<1>h. at \in Resolved => \A f \in DOMAIN ev.progress : OK(ev.progress[f])
  BY DEF LedgerShape, PlanInv
<1>s. ASSUME at \in Resolved, ev'.progress = ev.progress  PROVE \A f \in DOMAIN ev'.progress : OK(ev'.progress[f])
  BY <1>h, <1>s
<1>p. \A s \in {"pending", "reused_verified", "corrupt_removed"} : OK(ProgressOf(s, 0, 0, None))  OBVIOUS
<1> HIDE DEF OK
<1>1. CASE freeze_resolved_package_evidence
  <2>1. \A error : ~raise_closure_failure(ev, error)  BY DEF raise_closure_failure, Resolved
  <2>2. ev' = [ev EXCEPT !.packages = Resolve[sync], !.progress = initialize_package_progress(Resolve[sync]),
                         !.summary = summarize_package_progress(initialize_package_progress(Resolve[sync]))]
    BY <1>1, <2>1 DEF freeze_resolved_package_evidence, parse_pacman_print_rows
  <2>3. ev'.progress = initialize_package_progress(Resolve[sync])  BY <1>e, <2>2 DEF Evidence, EvFields
  <2>4. \A f \in DOMAIN ev'.progress : ev'.progress[f] = ProgressOf("pending", 0, 0, None)
    BY <2>3 DEF initialize_package_progress
  <2> QED BY <1>p, <2>4
<1>2. CASE audit_cache
  <2>1. ev'.progress = reconcile_package_progress_from_cache_audit(ev.progress, Audit)  BY <1>2, <1>e, AuditFacts
  <2>2. \A f \in DOMAIN ev'.progress :
           \E s \in {"pending", "reused_verified", "corrupt_removed"} : ev'.progress[f] = ProgressOf(s, 0, 0, None)
    BY <2>1 DEF reconcile_package_progress_from_cache_audit
  <2> QED BY <1>p, <2>2
<1>3. CASE fetch_mirror_attempt  BY <1>s, <1>e, <1>3, FetchFacts DEF Resolved
<1>4. CASE acquire_batch_with_mirror_failover
  <2>1. at = "record" /\ (ev'.progress = ev.progress \/ (ev'.progress = Told /\ attempt_partitions(Attempt)))
    BY <1>4, <1>e, AcquireFacts
  <2>2. CASE ev'.progress = ev.progress  BY <1>s, <2>1, <2>2 DEF Resolved
  <2>3. CASE ev'.progress = Told /\ attempt_partitions(Attempt)
    <3>1. /\ w.attempt = 1 + Cardinality(AttemptsOf(w.batch)) /\ w.batch \in Nat \ {0}
          /\ Listed(ev.cache.attempts)
      BY <2>1 DEF PlanInv, AttemptInv, Planning, Planned, Resolved, InOrder
    <3>2. w.attempt \in Nat \ {0}
      <4>1. AttemptsOf(w.batch) \in SUBSET (1..Len(ev.cache.attempts)) /\ Len(ev.cache.attempts) \in Nat
        BY <3>1, ListedIs DEF AttemptsOf, Those
      <4>2. Cardinality(AttemptsOf(w.batch)) \in Nat  BY <4>1, IndicesAre
      <4> QED BY <3>1, <4>2
    <3>3. /\ Attempt.attempt = w.attempt /\ Attempt.pending = Missing /\ Attempt.verified = Found
          /\ Missing # {} => Attempt.result = "fail"
      BY DEF Attempt
    <3>4. ASSUME NEW f \in DOMAIN ev'.progress  PROVE OK(ev'.progress[f])
      <4>1. f \in DOMAIN ev.progress /\ OK(ev.progress[f])
        BY <1>h, <2>1, <2>3, <3>4 DEF Told, record_package_progress_attempt, Resolved
      <4>2. ev'.progress[f] =
               CASE f \in Found -> ProgressOf("downloaded_verified", w.batch, w.attempt, None)
                 [] f \in Missing -> ProgressOf(IF Attempt.result = "fail" THEN "failed" ELSE "pending",
                                           w.batch, w.attempt, Attempt.class)
                 [] OTHER -> ev.progress[f]
        BY <2>3, <3>3, <4>1 DEF Told, record_package_progress_attempt
      <4>3. CASE f \in Found
        <5>1. f \notin Missing  BY <4>3 DEF Missing
        <5>2. ev'.progress[f] = ProgressOf("downloaded_verified", w.batch, w.attempt, None)  BY <4>2, <4>3, <5>1
        <5> QED BY <3>1, <3>2, <5>2 DEF OK, ProgressOf
      <4>4. CASE f \in Missing
        <5>1. f \notin Found  BY <4>4 DEF Missing
        <5>2. ev'.progress[f] = ProgressOf("failed", w.batch, w.attempt, Attempt.class)  BY <3>3, <4>2, <4>4, <5>1
        <5> QED BY <5>2 DEF OK, ProgressOf
      <4>5. CASE f \notin Found /\ f \notin Missing  BY <4>1, <4>2, <4>5
      <4> QED BY <4>3, <4>4, <4>5
    <3> QED BY <3>4
  <2> QED BY <2>1, <2>2, <2>3
<1>5. CASE interrupted_between_attempts  BY <1>s, <1>5 DEF interrupted_between_attempts, Resolved
<1>6. CASE acquire_prefetch_batches
  <2>1. at = "batch_end" /\ ev'.progress = ev.progress  BY <1>6, <1>e, CountFacts DEF Resolved
  <2> QED BY <1>s, <2>1 DEF Resolved
<1>7. CASE construct_frozen_local_repository
  <2>1. \A error : ~raise_closure_failure(ev, error)  BY DEF raise_closure_failure, Resolved
  <2>2. at = "construct" /\ ev'.progress = ev.progress  BY <1>7, <1>e, <2>1, ConstructFacts
  <2> QED BY <1>s, <2>2 DEF Resolved
<1>8. CASE validate_local_repository \/ restore_outer_owner \/ seal_closure
  <2>1. at \in {"validate", "handoff", "seal"} /\ ev'.progress = ev.progress
    BY <1>8, <1>e, LateFacts DEF Resolved
  <2> QED BY <1>s, <2>1 DEF Resolved
<1> QED BY <1>e, <1>1, <1>2, <1>3, <1>4, <1>5, <1>6, <1>7, <1>8, EarlySteps

LEMMA PlanningKeeps ==
  ASSUME PlanHolds, ClosureStep, ClosureInv'
  PROVE  Planning'
<1> USE DEF PlanHolds
<1>e. Evidence(ev) /\ DOMAIN w = WorkFields /\ prepare_repository_closure  BY DEF ShapeInv, ClosureStep
<1> SUFFICES ASSUME at' \in Planned  PROVE Planning'
  BY DEF Planning
<1>0. at' \in Resolved /\ Planned \subseteq Resolved  BY DEF Planned
<1>r. \A error : ~raise_closure_failure(ev, error)  BY <1>0 DEF raise_closure_failure, Resolved
<1>s. ASSUME at \in Planned, w'.batches = w.batches, w'.batch = w.batch,
             ev'.packages = ev.packages, ev'.anchor = ev.anchor,
             ev'.cache.audit = ev.cache.audit, ev'.cache.reused = ev.cache.reused,
             ev'.cache.mirrors = ev.cache.mirrors, ev'.cache.batches = ev.cache.batches,
             ev'.cache.completed = ev.cache.completed,
             at' \in {"fetch", "record", "batch_end"} => at \in {"fetch", "record", "batch_end"},
             at' \in {"construct"} \cup Complete => at \in {"construct"} \cup Complete
      PROVE  Planning'
  BY <1>s DEF Planning, PlanInv
<1>1. CASE freeze_resolved_package_evidence
  BY <1>r, <1>1 DEF freeze_resolved_package_evidence, Planned
<1>2. CASE audit_cache
  <2>a. at = "audit" /\ at' = AfterBatch(1, w'.batches) /\ w'.batch = 1
    BY <1>2, <1>e, AuditFacts
  <2>b. /\ ev'.cache.audit.status = "pass" /\ ev'.cache.audit.reused = Audit.reused
        /\ ev'.cache.audit.pending = Audit.pending /\ ev'.cache.audit.corrupt = Audit.corrupt
        /\ ev'.cache.reused = Cardinality(Audit.reused) /\ ev'.cache.batches = Len(w'.batches)
        /\ ev'.cache.mirrors = ordered_prefetch_mirrors(ev.anchor.selected)
        /\ ev'.cache.completed = 0 /\ ev'.packages = ev.packages /\ ev'.anchor = ev.anchor
        /\ w'.batches = plan_package_prefetch_batches({p \in ev.packages : p.file \in Audit.pending})
    BY <1>2, <1>e, AuditFacts
  <2>c. /\ Audit.reused = verified_cached_filenames(cache, ev.packages)
        /\ Audit.pending = FilesOf(ev.packages) \ Audit.reused
        /\ Audit.corrupt \subseteq FilesOf(ev.packages)
    BY DEF Audit, audit_persistent_package_cache
  <2>d. Audit.reused \subseteq FilesOf(ev.packages)  BY <2>c DEF verified_cached_filenames
  <2>e. Len(w'.batches) \in Nat
    <3> DEFINE P == {p \in ev.packages : p.file \in Audit.pending}
    <3>1. sync \in Dbs /\ ev.packages = Resolve[sync]  BY <2>a DEF ClosureInv, Anchored, Frozen, Resolved
    <3>2. Sound(ev.packages)  BY <3>1, ResolvedIsSound
    <3>3. Sound(P)  BY <3>2, SoundParts
    <3> HIDE DEF P
    <3>4. w'.batches \in Seq(Seq(P))  BY <2>b, <3>3, BatchesAreDisjoint DEF P
    <3> QED BY <3>4
  <2>f. /\ w'.batch \in 1..Len(w'.batches) + 1
        /\ at' \in {"fetch", "record", "batch_end"} => w'.batch <= Len(w'.batches)
        /\ at' \in {"construct"} \cup Complete => w'.batch = Len(w'.batches) + 1
        /\ ev'.cache.completed = w'.batch - 1
    <3>1. CASE 1 > Len(w'.batches)
      BY <2>a, <2>b, <2>e, <3>1 DEF AfterBatch, Complete
    <3>2. CASE ~(1 > Len(w'.batches))
      BY <2>a, <2>b, <2>e, <3>2 DEF AfterBatch, Complete
    <3> QED BY <3>1, <3>2
  <2>g. /\ ev'.cache.audit.reused \cap ev'.cache.audit.pending = {}
        /\ ev'.cache.audit.reused \cup ev'.cache.audit.pending = FilesOf(ev'.packages)
        /\ ev'.cache.audit.corrupt \subseteq FilesOf(ev'.packages)
    BY <2>b, <2>c, <2>d
  <2> QED BY <2>b, <2>f, <2>g DEF Planning
<1>3. CASE fetch_mirror_attempt
  <2>1. at = "fetch" /\ at' = "record" /\ ev' = ev /\ w'.batches = w.batches /\ w'.batch = w.batch
    BY <1>3, <1>e, FetchFacts
  <2> QED BY <1>s, <2>1 DEF Planned, Resolved, Complete
<1>4. CASE acquire_batch_with_mirror_failover
  <2>1. /\ at = "record" /\ at' \in {"batch_end", "fetch"} /\ w'.batches = w.batches /\ w'.batch = w.batch
        /\ ev'.packages = ev.packages /\ ev'.anchor = ev.anchor
        /\ ev'.cache.audit = ev.cache.audit /\ ev'.cache.reused = ev.cache.reused
        /\ ev'.cache.mirrors = ev.cache.mirrors /\ ev'.cache.batches = ev.cache.batches
        /\ ev'.cache.completed = ev.cache.completed
    BY <1>4, <1>e, AcquireFacts
  <2> QED BY <1>s, <2>1 DEF Planned, Resolved, Complete
<1>5. CASE interrupted_between_attempts
  <2>1. at = "record" /\ at' = "batch_end" /\ ev' = ev /\ w' = [w EXCEPT !.err = Interrupt]
    BY <1>5 DEF interrupted_between_attempts
  <2>2. w'.batches = w.batches /\ w'.batch = w.batch  BY <2>1, <1>e DEF WorkFields
  <2> QED BY <1>s, <2>1, <2>2 DEF Planned, Resolved, Complete
<1>6. CASE acquire_prefetch_batches
  <2>1. /\ at = "batch_end" /\ at' = AfterBatch(w.batch + 1, w.batches)
        /\ w'.batches = w.batches /\ w'.batch = w.batch + 1
        /\ ev'.packages = ev.packages /\ ev'.anchor = ev.anchor
        /\ ev'.cache.audit = ev.cache.audit /\ ev'.cache.reused = ev.cache.reused
        /\ ev'.cache.mirrors = ev.cache.mirrors /\ ev'.cache.batches = ev.cache.batches
        /\ ev'.cache.completed = w.batch
    BY <1>6, <1>e, CountFacts DEF Planned, Resolved
  <2>2. at \in Planned  BY <2>1 DEF Planned, Resolved
  <2>3. /\ Planning /\ w.batch \in 1..Len(w.batches) + 1 /\ w.batch <= Len(w.batches)
    BY <2>1, <2>2 DEF PlanInv, Planning
  <2>4. Len(w.batches) \in Nat  BY <2>2, <2>3, BatchFacts
  <2>5. /\ w'.batch \in 1..Len(w'.batches) + 1
        /\ at' \in {"fetch", "record", "batch_end"} => w'.batch <= Len(w'.batches)
        /\ at' \in {"construct"} \cup Complete => w'.batch = Len(w'.batches) + 1
        /\ ev'.cache.completed = w'.batch - 1
    <3>1. CASE w.batch + 1 > Len(w.batches)
      BY <2>1, <2>3, <2>4, <3>1 DEF AfterBatch, Complete
    <3>2. CASE ~(w.batch + 1 > Len(w.batches))
      BY <2>1, <2>3, <2>4, <3>2 DEF AfterBatch, Complete
    <3> QED BY <3>1, <3>2
  <2> QED BY <2>1, <2>2, <2>3, <2>5 DEF Planning
<1>7. CASE construct_frozen_local_repository
  <2>1. /\ at = "construct" /\ at' = "validate" /\ w' = w
        /\ ev'.packages = ev.packages /\ ev'.anchor = ev.anchor
        /\ ev'.cache.audit = ev.cache.audit /\ ev'.cache.reused = ev.cache.reused
        /\ ev'.cache.mirrors = ev.cache.mirrors /\ ev'.cache.batches = ev.cache.batches
        /\ ev'.cache.completed = ev.cache.completed
    BY <1>7, <1>e, <1>r, ConstructFacts
  <2> QED BY <1>s, <2>1 DEF Planned, Resolved, Complete
<1>8. CASE validate_local_repository \/ restore_outer_owner \/ seal_closure
  <2>1. /\ at \in {"validate", "handoff", "seal"} /\ at' \in {"handoff", "seal", "closed"} /\ w' = w
        /\ ev'.packages = ev.packages /\ ev'.anchor = ev.anchor
        /\ ev'.cache.audit = ev.cache.audit /\ ev'.cache.reused = ev.cache.reused
        /\ ev'.cache.mirrors = ev.cache.mirrors /\ ev'.cache.batches = ev.cache.batches
        /\ ev'.cache.completed = ev.cache.completed
    BY <1>0, <1>8, <1>e, LateFacts DEF Resolved
  <2> QED BY <1>s, <2>1 DEF Planned, Resolved, Complete
<1> QED BY <1>0, <1>e, <1>1, <1>2, <1>3, <1>4, <1>5, <1>6, <1>7, <1>8, EarlySteps

\* What the steps leave behind of an attempt to be retried.
LEMMA NoRetryKeeps ==
  ASSUME PlanHolds, ClosureStep
  PROVE  NoRetry'
<1> USE DEF PlanHolds
<1>e. Evidence(ev) /\ DOMAIN w = WorkFields /\ prepare_repository_closure  BY DEF ShapeInv, ClosureStep
<1> DEFINE Idle == {"mirrors", "probe", "freeze", "resolve", "audit", "record", "batch_end"}
<1> SUFFICES ASSUME at' \in Idle  PROVE w'.retry = {}
  BY DEF NoRetry
<1>h. at \in Idle => w.retry = {}  BY DEF NoRetry, PlanInv
<1>r. \A e, error : ~raise_closure_failure(e, error)  BY DEF raise_closure_failure
<1>1. CASE setup_closure  BY <1>1 DEF setup_closure, NoWork
<1>2. CASE parse_artix_mirror_servers
  <2>1. at = "mirrors" /\ w' = [w EXCEPT !.candidate = 1]  BY <1>2, <1>r DEF parse_artix_mirror_servers
  <2>2. w'.retry = w.retry  BY <2>1, <1>e DEF WorkFields
  <2> QED BY <1>h, <2>1, <2>2
<1>3. CASE probe_anchor
  <2>1. at = "probe" /\ \/ \E d : w' = [w EXCEPT !.probes = Append(@, {})]
                        \/ \E text : w' = [w EXCEPT !.candidate = @ + 1, !.probes = Append(w.probes, text)]
    BY <1>3, <1>r DEF probe_anchor
  <2>2. w'.retry = w.retry  BY <2>1, <1>e DEF WorkFields
  <2> QED BY <1>h, <2>1, <2>2
<1>4. CASE freeze_repository_sync_directory  BY <1>h, <1>4 DEF freeze_repository_sync_directory
<1>5. CASE freeze_resolved_package_evidence  BY <1>h, <1>r, <1>5 DEF freeze_resolved_package_evidence
<1>6. CASE audit_cache  BY <1>h, <1>e, <1>6, AuditFacts
<1>7. CASE fetch_mirror_attempt  BY <1>e, <1>7, FetchFacts
<1>8. CASE acquire_batch_with_mirror_failover
  <2>1. at = "record" /\ (w'.retry = w.retry \/ at' = "fetch")  BY <1>e, <1>8, AcquireFacts
  <2> QED BY <1>h, <2>1
<1>9. CASE interrupted_between_attempts
  <2>1. at = "record" /\ w' = [w EXCEPT !.err = Interrupt]  BY <1>9 DEF interrupted_between_attempts
  <2>2. w'.retry = w.retry  BY <2>1, <1>e DEF WorkFields
  <2> QED BY <1>h, <2>1, <2>2
<1>10. CASE acquire_prefetch_batches
  <2>1. at = "batch_end" /\ w'.retry = w.retry  BY <1>e, <1>10, <1>r, CountFacts
  <2> QED BY <1>h, <2>1
<1>11. CASE construct_frozen_local_repository
  <2>1. at' = "validate"  BY <1>e, <1>11, <1>r, ConstructFacts
  <2> QED BY <2>1
<1>12. CASE validate_local_repository  BY <1>12, <1>r DEF validate_local_repository
<1>13. CASE restore_outer_owner  BY <1>13 DEF restore_outer_owner
<1>14. CASE seal_closure  BY <1>14, <1>r DEF seal_closure
<1>15. CASE closure_step_fails  BY <1>15, <1>r DEF closure_step_fails
<1> QED
  BY <1>e, <1>1, <1>2, <1>3, <1>4, <1>5, <1>6, <1>7, <1>8, <1>9, <1>10, <1>11, <1>12, <1>13, <1>14, <1>15
     DEF prepare_repository_closure

(***************************************************************************)
(* The attempts of the acquisition.                                        *)
(***************************************************************************)
History ==
    /\ Listed(ev.cache.attempts)
    /\ \A i \in DOMAIN ev.cache.attempts : AttemptOK(ev.cache.attempts[i])
    /\ Contiguous(ev.cache.attempts)
    /\ \A file \in DOMAIN ev.progress : ToldByLast(file)
    /\ \A b \in 1..w.batch - 1 : Done(b)

Trying ==
    /\ w.attempt = 1 + Cardinality(AttemptsOf(w.batch)) /\ w.attempt <= Len(ev.cache.mirrors)
    /\ AttemptsOf(w.batch) # {} => First(w.batch)
    /\ w.pending \subseteq FilesOf(Batch)
    /\ w.attempt = 1 => w.pending = FilesOf(Batch)

LEMMA AttemptParts ==
  AttemptInv <=>
    (at \in Planned /\ InOrder =>
        /\ History
        /\ at = "batch_end" => Done(w.batch)
        /\ at \in {"fetch", "record"} => Trying
        /\ at = "fetch" => /\ w.retry \subseteq Batch /\ (w.retry # {} => w.pending = {})
                           /\ w.attempt = 1 => w.retry = {}
        /\ at = "record" => /\ w.asked \subseteq Batch /\ w.pending \subseteq FilesOf(w.asked)
                            /\ w.attempt = 1 => w.asked = Batch)
BY DEF AttemptInv, History, Trying

\* Steps that record no attempt keep what is recorded.
LEMMA HistorySame ==
  ASSUME History, w'.batches = w.batches, w'.batch = w.batch, ev'.progress = ev.progress,
         ev'.cache.mirrors = ev.cache.mirrors, ev'.cache.attempts = ev.cache.attempts
  PROVE  /\ History' /\ Batch' = Batch
         /\ \A b : (Done(b)' <=> Done(b)) /\ (First(b)' <=> First(b)) /\ AttemptsOf(b)' = AttemptsOf(b)
<1>1. Batch' = Batch  BY DEF Batch
<1>2. \A b : (Done(b)' <=> Done(b)) /\ (First(b)' <=> First(b)) /\ AttemptsOf(b)' = AttemptsOf(b)
  BY DEF Done, First, AttemptsOf
<1>3. \A a : AttemptOK(a)' <=> AttemptOK(a)  BY DEF AttemptOK
<1>4. \A file : ToldByLast(file)' <=> ToldByLast(file)  BY DEF ToldByLast
<1> QED BY <1>1, <1>2, <1>3, <1>4 DEF History

LEMMA TryingAgain ==
  ASSUME PlanHolds, fetch_mirror_attempt
  PROVE  AttemptInv'
<1> USE DEF PlanHolds
<1>e. DOMAIN w = WorkFields  BY DEF ShapeInv
<1>1. /\ at = "fetch" /\ at' = "record" /\ ev' = ev
      /\ w'.batches = w.batches /\ w'.batch = w.batch /\ w'.attempt = w.attempt /\ w'.pending = w.pending
      /\ w'.asked = attempt_packages
  BY <1>e, FetchFacts
<1>2. /\ History /\ Trying
      /\ w.retry \subseteq Batch /\ (w.retry # {} => w.pending = {})
      /\ w.attempt = 1 => w.retry = {}
  BY <1>1, AttemptParts DEF PlanInv, Planned, Resolved, InOrder
<1>3. /\ History' /\ Batch' = Batch
      /\ (First(w.batch)' <=> First(w.batch)) /\ AttemptsOf(w.batch)' = AttemptsOf(w.batch)
  BY <1>1, <1>2, HistorySame
<1>4. Trying'  BY <1>1, <1>2, <1>3 DEF Trying
<1>5. w'.asked \subseteq Batch  BY <1>1, <1>2 DEF attempt_packages
<1>6. w'.pending \subseteq FilesOf(w'.asked)
  <2>1. CASE w.retry # {}  BY <1>1, <1>2, <2>1
  <2>2. CASE w.retry = {}
    <3>1. w'.asked = {p \in Batch : p.file \in w.pending}  BY <1>1, <2>2 DEF attempt_packages
    <3>2. w.pending \subseteq FilesOf(Batch)  BY <1>2 DEF Trying
    <3> QED BY <1>1, <3>1, <3>2 DEF FilesOf
  <2> QED BY <2>1, <2>2
<1>7. w'.attempt = 1 => w'.asked = Batch
  <2> SUFFICES ASSUME w.attempt = 1  PROVE w'.asked = Batch
    BY <1>1
  <2>1. w.retry = {} /\ w.pending = FilesOf(Batch)  BY <1>2 DEF Trying
  <2>2. w'.asked = {p \in Batch : p.file \in w.pending}  BY <1>1, <2>1 DEF attempt_packages
  <2> QED BY <2>1, <2>2 DEF FilesOf
<1> QED BY <1>1, <1>3, <1>4, <1>5, <1>6, <1>7, AttemptParts DEF AttemptInv, History, Trying

\* What an attempt leaves in its batch.
LEMMA AttemptIs ==
  ASSUME PlanHolds, at = "record", attempt_partitions(Attempt)
  PROVE  /\ Attempt.batch = w.batch /\ Attempt.attempt = w.attempt /\ Attempt.requested = FilesOf(w.asked)
         /\ Attempt.verified = Found /\ Attempt.pending = Missing
         /\ AttemptOK(Attempt)
         /\ Attempt.result = "pass" => Missing = {}
         /\ Attempt.result # "pass" => Attempt.result = "fail"
         /\ w.attempt \in Nat \ {0} /\ w.batch \in 1..Len(w.batches) /\ Len(w.batches) \in Nat
<1> USE DEF PlanHolds
<1>p. at \in Planned /\ InOrder  BY DEF Planned, Resolved, InOrder
<1>1. /\ Attempt.batch = w.batch /\ Attempt.attempt = w.attempt /\ Attempt.requested = FilesOf(w.asked)
      /\ Attempt.verified = Found /\ Attempt.pending = Missing
      /\ Attempt.result = IF IsError(w.err) \/ Missing # {} THEN "fail" ELSE "pass"
      /\ Attempt.class = classify_package_acquisition_failure(w.err, Missing)
  BY DEF Attempt
<1>2. History /\ Trying /\ w.asked \subseteq Batch  BY <1>p, AttemptParts DEF PlanInv
<1>3. w.batch \in 1..Len(w.batches) + 1 /\ w.batch <= Len(w.batches)  BY <1>p DEF PlanInv, Planning
<1>4. Len(w.batches) \in Nat  BY <1>p, BatchFacts DEF PlanInv
<1>5. w.batch \in 1..Len(w.batches)  BY <1>3, <1>4
<1>6. w.attempt \in Nat \ {0}
  <2>1. AttemptsOf(w.batch) \in SUBSET (1..Len(ev.cache.attempts)) /\ Len(ev.cache.attempts) \in Nat
    BY <1>2, ListedIs DEF AttemptsOf, Those, History
  <2>2. Cardinality(AttemptsOf(w.batch)) \in Nat  BY <2>1, IndicesAre
  <2> QED BY <1>2, <2>2 DEF Trying
<1>7. w.attempt <= Len(ev.cache.mirrors) /\ Len(ev.cache.mirrors) \in Nat
  <2>1. ev.anchor.selected \in 1..Mirrors /\ ev.cache.mirrors = ordered_prefetch_mirrors(ev.anchor.selected)
    BY <1>p DEF ClosureInv, Anchored, PlanInv, Planning, Planned
  <2>2. Len(ev.cache.mirrors) \in Nat  BY <2>1, MirrorsFollow
  <2> QED BY <1>2, <2>2 DEF Trying
<1>8. FilesOf(w.asked) \subseteq FilesOf(Range(w.batches[w.batch]))  BY <1>2 DEF Batch, FilesOf
<1>9. Attempt.result = "pass" => Attempt.class = None
  BY <1>1 DEF classify_package_acquisition_failure, IsError
<1>10. AttemptOK(Attempt)
  BY <1>1, <1>3, <1>5, <1>6, <1>7, <1>8, <1>9 DEF AttemptOK
<1> QED BY <1>1, <1>4, <1>5, <1>6, <1>10

\* An attempt is recorded after those of earlier batches and of its own.
LEMMA AttemptRecorded ==
  ASSUME PlanHolds, acquire_batch_with_mirror_failover, attempt_partitions(Attempt)
  PROVE  /\ History' /\ First(w.batch)' /\ AttemptsOf(w.batch)' # {}
         /\ Cardinality(AttemptsOf(w.batch)') = w.attempt
         /\ Attempt.result = "pass" => Done(w.batch)'
<1> USE DEF PlanHolds
<1>e. Evidence(ev) /\ DOMAIN w = WorkFields  BY DEF ShapeInv
<1>p. at = "record" /\ at \in Planned /\ InOrder  BY <1>e, AcquireFacts DEF Planned, Resolved, InOrder
<1>h. /\ History /\ Trying /\ w.asked \subseteq Batch /\ w.pending \subseteq FilesOf(w.asked)
      /\ w.attempt = 1 => w.asked = Batch
  BY <1>p, AttemptParts DEF PlanInv
<1>a. PICK a : a = Attempt  OBVIOUS
<1>b. /\ a.batch = w.batch /\ a.attempt = w.attempt /\ a.requested = FilesOf(w.asked)
      /\ a.verified = Found /\ a.pending = Missing /\ AttemptOK(a)
      /\ a.result = "pass" => Missing = {}
      /\ a.result # "pass" => a.result = "fail"
      /\ w.attempt \in Nat \ {0} /\ w.batch \in Nat
  BY <1>a, <1>p, AttemptIs
<1>c. PICK as : as = ev.cache.attempts  OBVIOUS
<1>d. PICK t : t = ev'.cache.attempts  OBVIOUS
<1>f. /\ t = Append(as, a) /\ w'.batches = w.batches /\ w'.batch = w.batch
      /\ ev'.cache.mirrors = ev.cache.mirrors /\ ev'.progress = Told /\ at' \in {"batch_end", "fetch"}
  BY <1>a, <1>c, <1>d, <1>e, AcquireFacts
<1>g. PICK n \in Nat : n = Len(as) /\ Grown(as, a, t, n)
  BY <1>c, <1>f, <1>h, GrownIs DEF History
<1>i. /\ DOMAIN as = 1..n /\ DOMAIN t = 1..n + 1 /\ t[n + 1] = a
      /\ \A i \in 1..n : t[i] = as[i]
  BY <1>g DEF Grown
<1>1. Listed(t)  BY <1>c, <1>f, <1>h, AppendIs DEF History
<1>2. \A i \in DOMAIN t : AttemptOK(t[i])'
  <2>1. \A x : AttemptOK(x)' <=> AttemptOK(x)  BY <1>f DEF AttemptOK
  <2>2. \A i \in 1..n : AttemptOK(as[i])  BY <1>c, <1>h, <1>i DEF History
  <2>3. \A i \in 1..n + 1 : i \in 1..n \/ i = n + 1  OBVIOUS
  <2>4. \A i \in DOMAIN t : AttemptOK(t[i])  BY <1>b, <1>i, <2>2, <2>3
  <2> HIDE DEF AttemptOK
  <2> TAKE i \in DOMAIN t
  <2>5. PICK x : x = t[i]  OBVIOUS
  <2> QED BY <1>d, <1>f, <2>4 DEF AttemptOK
<1>3. a.attempt = 1 + Cardinality(Those(as, a.batch))
  BY <1>b, <1>c, <1>h DEF Trying, AttemptsOf
<1>4. Contiguous(t)
  <2>1. Contiguous(as)  BY <1>c, <1>h DEF History
  <2> QED BY <1>3, <1>g, <2>1, ContiguousGrown
<1>5. PICK S : S = Those(as, w.batch)  OBVIOUS
<1>6. PICK T : T = Those(t, w.batch)  OBVIOUS
<1>7. /\ S \in SUBSET (1..n) /\ T \in SUBSET (1..n + 1) /\ n + 1 \in T
      /\ \A i \in 1..n : i \in T <=> i \in S
  <2>1. PICK b : b = w.batch  OBVIOUS
  <2>2. /\ Those(as, b) \in SUBSET (1..n)
        /\ a.batch = b => /\ Those(t, b) \in SUBSET (1..n + 1) /\ n + 1 \in Those(t, b)
                          /\ \A i \in 1..n : i \in Those(t, b) <=> i \in Those(as, b)
    BY <1>g, ThoseGrown
  <2>3. a.batch = b /\ S = Those(as, b) /\ T = Those(t, b)  BY <1>5, <1>6, <1>b, <2>1
  <2> QED BY <2>2, <2>3
<1>8. /\ Max(T) = n + 1 /\ Cardinality(T) = Cardinality(S) + 1 /\ T # {}
      /\ Min(T) = IF S = {} THEN n + 1 ELSE Min(S)
  BY <1>7, OneMore
<1>9. Cardinality(S) \in Nat /\ (S # {} => Min(S) \in S)  BY <1>7, IndicesAre
<1>10. Cardinality(T) = w.attempt
  <2>1. w.attempt = 1 + Cardinality(S)  BY <1>3, <1>5, <1>b
  <2> QED BY <1>8, <1>9, <2>1
<1>11. t[Min(T)].requested = FilesOf(Range(w.batches[w.batch]))
  <2>1. CASE S = {}
    <3>1. Cardinality(S) = 0  BY <2>1, FS_EmptySet
    <3>2. w.attempt = 1  BY <1>3, <1>5, <1>b, <3>1
    <3>3. w.asked = Range(w.batches[w.batch])  BY <1>h, <3>2 DEF Batch
    <3>4. t[Min(T)] = a  BY <1>8, <1>i, <2>1
    <3> QED BY <1>b, <3>3, <3>4
  <2>2. CASE S # {}
    <3>1. PICK m \in 1..n : m = Min(S)  BY <1>7, <1>9, <2>2
    <3>2. t[Min(T)] = as[m]  BY <1>8, <1>i, <2>2, <3>1
    <3>3. First(w.batch)  BY <1>5, <1>c, <1>h, <2>2 DEF Trying, AttemptsOf
    <3>4. as[m].requested = FilesOf(Range(w.batches[w.batch]))
      BY <1>5, <1>c, <3>1, <3>3 DEF First, AttemptsOf
    <3> QED BY <3>2, <3>4
  <2> QED BY <2>1, <2>2
<1>12. AttemptsOf(w.batch)' = T  BY <1>6, <1>d, <1>f DEF AttemptsOf
<1>13. First(w.batch)'  BY <1>11, <1>12, <1>d, <1>f DEF First
<1>14. a.result = "pass" => Done(w.batch)'
  <2>1. t[Max(T)] = a  BY <1>8, <1>i
  <2> QED BY <1>8, <1>12, <1>13, <1>b, <1>d, <2>1 DEF Done
<1>15. \A b \in 1..w.batch - 1 : Done(b)'
  <2> TAKE b \in 1..w.batch - 1
  <2>1. b # w.batch /\ a.batch # b  BY <1>b
  <2>2. PICK U : U = Those(as, b)  OBVIOUS
  <2>3. Those(t, b) = U /\ U \in SUBSET (1..n)
    <3>1. PICK c : c = b  OBVIOUS
    <3>2. Those(as, c) \in SUBSET (1..n)  BY <1>g, ThoseGrown
    <3>3. a.batch # c => Those(t, c) \subseteq Those(as, c) /\ Those(as, c) \subseteq Those(t, c)
      BY <1>g, ThoseGrown
    <3> QED BY <2>1, <2>2, <3>1, <3>2, <3>3
  <2>4. Done(b)  BY <1>h DEF History
  <2>5. U # {}  BY <1>c, <2>2, <2>4 DEF Done, AttemptsOf
  <2>6. PICK m \in 1..n : m = Min(U)  BY <2>3, <2>5, IndicesAre
  <2>7. PICK k \in 1..n : k = Max(U)  BY <2>3, <2>5, IndicesAre
  <2>8. t[m] = as[m] /\ t[k] = as[k]  BY <1>i
  <2>9. /\ as[m].requested = FilesOf(Range(w.batches[b]))
        /\ as[k].result = "pass" /\ as[k].pending = {}
    BY <1>c, <2>2, <2>4, <2>6, <2>7 DEF Done, First, AttemptsOf
  <2>10. AttemptsOf(b)' = U  BY <1>d, <2>3 DEF AttemptsOf
  <2>11. First(b)'  BY <1>d, <1>f, <2>6, <2>8, <2>9, <2>10 DEF First
  <2> QED BY <1>d, <2>5, <2>7, <2>8, <2>9, <2>10, <2>11 DEF Done
<1>16. \A file \in DOMAIN ev'.progress : ToldByLast(file)'
  <2> TAKE file \in DOMAIN ev'.progress
  <2>1. file \in DOMAIN ev.progress  BY <1>f DEF Told, record_package_progress_attempt
  <2>2. ev'.progress[file] =
           CASE file \in Found -> ProgressOf("downloaded_verified", w.batch, w.attempt, None)
             [] file \in Missing -> ProgressOf(IF a.result = "fail" THEN "failed" ELSE "pending",
                                           w.batch, w.attempt, a.class)
             [] OTHER -> ev.progress[file]
    BY <1>a, <1>b, <1>f, <2>1 DEF Told, record_package_progress_attempt
  <2>3. a.verified \cap a.pending = {} /\ a.verified \cup a.pending = a.requested
    BY <1>a DEF attempt_partitions
  <2>4. CASE file \notin a.requested
    <3>1. file \notin Found /\ file \notin Missing  BY <1>b, <2>3, <2>4
    <3>2. ev'.progress[file] = ev.progress[file]  BY <2>2, <3>1
    <3>3. PICK U : U = Asking(as, file)  OBVIOUS
    <3>4. Asking(t, file) = U /\ U \in SUBSET (1..n)  BY <1>g, <2>4, <3>3, AskingGrown
    <3>5. CASE U = {}  BY <1>d, <3>4, <3>5 DEF ToldByLast
    <3>6. CASE U # {}
      <4>1. PICK k \in 1..n : k = Max(U)  BY <3>4, <3>6, IndicesAre
      <4>2. t[k] = as[k]  BY <1>i
      <4>3. ToldByLast(file)  BY <1>h, <2>1 DEF History
      <4> QED BY <1>c, <1>d, <3>2, <3>3, <3>4, <4>1, <4>2, <4>3 DEF ToldByLast
    <3> QED BY <3>5, <3>6
  <2>5. CASE file \in a.requested
    <3>1. PICK V : V = Asking(t, file)  OBVIOUS
    <3>2. /\ Asking(as, file) \in SUBSET (1..n) /\ V \in SUBSET (1..n + 1) /\ n + 1 \in V
          /\ \A i \in 1..n : i \in V <=> i \in Asking(as, file)
      BY <1>g, <2>5, <3>1, AskingGrown
    <3>3. Max(V) = n + 1  BY <3>2, OneMore
    <3>4. t[Max(V)] = a  BY <1>i, <3>3
    <3>5. ev'.progress[file] =
             IF file \in a.verified THEN ProgressOf("downloaded_verified", a.batch, a.attempt, None)
             ELSE ProgressOf("failed", a.batch, a.attempt, a.class)
      <4>1. CASE file \in a.verified
        <5>1. file \in Found /\ file \notin Missing  BY <1>b, <2>3, <4>1
        <5>2. ev'.progress[file] = ProgressOf("downloaded_verified", w.batch, w.attempt, None)  BY <2>2, <5>1
        <5> QED BY <1>b, <4>1, <5>2
      <4>2. CASE file \notin a.verified
        <5>1. file \notin Found /\ file \in Missing /\ a.result = "fail"  BY <1>b, <2>3, <2>5, <4>2
        <5>2. ev'.progress[file] = ProgressOf("failed", w.batch, w.attempt, a.class)  BY <2>2, <5>1
        <5> QED BY <1>b, <4>2, <5>2
      <4> QED BY <4>1, <4>2
    <3> QED BY <1>d, <3>1, <3>4, <3>5 DEF ToldByLast
  <2> QED BY <2>4, <2>5
<1>17. History'  BY <1>1, <1>2, <1>4, <1>15, <1>16, <1>d, <1>f DEF History
<1> QED BY <1>8, <1>10, <1>12, <1>13, <1>14, <1>17, <1>a

\* Files that are not verified are asked of the next mirror.
LEMMA AttemptEnds ==
  ASSUME PlanHolds, acquire_batch_with_mirror_failover
  PROVE  AttemptInv'
<1> USE DEF PlanHolds
<1>e. Evidence(ev) /\ DOMAIN w = WorkFields  BY DEF ShapeInv
<1>1. CASE ~attempt_partitions(Attempt)
  <2>1. at' = "batch_end" /\ IsError(w'.err)  BY <1>1, <1>e, AcquireFacts
  <2>2. ~InOrder'  BY <2>1 DEF InOrder, Complete, IsError
  <2> QED BY <2>2 DEF AttemptInv
<1>2. CASE attempt_partitions(Attempt)
  <2>1. /\ at = "record" /\ w'.batches = w.batches /\ w'.batch = w.batch /\ w'.pending = Missing
        /\ ev'.cache.mirrors = ev.cache.mirrors
        /\ \/ at' = "batch_end" /\ (IsError(w'.err) \/ Attempt.result = "pass")
           \/ /\ at' = "fetch" /\ Attempt.result = "fail" /\ w.attempt # Len(ev.cache.mirrors)
              /\ w'.attempt = w.attempt + 1
              /\ w'.retry = IF Missing = {} THEN w.asked ELSE {}
    BY <1>2, <1>e, AcquireFacts
  <2>2. /\ History' /\ First(w.batch)' /\ AttemptsOf(w.batch)' # {}
        /\ Cardinality(AttemptsOf(w.batch)') = w.attempt
        /\ Attempt.result = "pass" => Done(w.batch)'
    BY <1>2, AttemptRecorded
  <2>3. w.attempt \in Nat \ {0}  BY <1>2, <2>1, AttemptIs
  <2>4. /\ Trying /\ w.asked \subseteq Batch /\ w.pending \subseteq FilesOf(w.asked)
    BY <2>1, AttemptParts DEF PlanInv, Planned, Resolved, InOrder
  <2>5. CASE at' = "batch_end"
    <3>1. InOrder' => ~IsError(w'.err)  BY <2>5 DEF InOrder, Complete, IsError
    <3>2. InOrder' => Done(w.batch)'  BY <2>1, <2>2, <2>5, <3>1
    <3> QED BY <2>2, <2>5, <3>2 DEF AttemptInv, History
  <2>6. CASE at' = "fetch"
    <3>1. /\ w.attempt # Len(ev.cache.mirrors) /\ w'.attempt = w.attempt + 1
          /\ w'.retry = IF Missing = {} THEN w.asked ELSE {}
      BY <2>1, <2>6
    <3>2. Len(ev.cache.mirrors) \in Nat /\ w.attempt <= Len(ev.cache.mirrors)
      <4>1. /\ ev.anchor.selected \in 1..Mirrors
            /\ ev.cache.mirrors = ordered_prefetch_mirrors(ev.anchor.selected)
        BY <2>1 DEF ClosureInv, Anchored, PlanInv, Planning, Planned, Resolved
      <4> QED BY <2>4, <4>1, MirrorsFollow DEF Trying
    <3>3. w'.attempt <= Len(ev'.cache.mirrors) /\ w'.attempt # 1  BY <2>1, <2>3, <3>1, <3>2
    <3>4. Batch' = Batch  BY <2>1 DEF Batch
    <3>5. w'.pending \subseteq FilesOf(Batch')  BY <2>1, <2>4, <3>4 DEF Missing, Trying
    <3>6. w'.retry \subseteq Batch' /\ (w'.retry # {} => w'.pending = {})  BY <2>1, <2>4, <3>1, <3>4
    <3>7. w'.attempt = 1 + Cardinality(AttemptsOf(w.batch)')  BY <2>2, <2>3, <3>1
    <3>8. Trying'  BY <2>2, <3>3, <3>5, <3>7 DEF Trying
    <3> QED BY <2>2, <2>6, <3>3, <3>6, <3>8 DEF AttemptInv, History, Trying
  <2> QED BY <2>1, <2>5, <2>6
<1> QED BY <1>1, <1>2

\* A batch begins without attempts.
LEMMA BatchBegins ==
  ASSUME at' \in {"fetch", "construct"}, History', w'.batch \in Nat,
         Len(ev'.cache.mirrors) \in Nat, Len(ev'.cache.mirrors) >= 1,
         w'.attempt = 1, w'.retry = {}, AttemptsOf(w.batch)' = {},
         at' = "fetch" => w'.pending = FilesOf(Range(w'.batches[w'.batch]))
  PROVE  AttemptInv'
<1>1. Cardinality(AttemptsOf(w.batch)') = 0  BY FS_EmptySet
<1>2. ASSUME at' = "fetch"  PROVE Trying'
  <2>1. w'.pending = FilesOf(Batch')  BY <1>2 DEF Batch
  <2> QED BY <1>1, <2>1 DEF Trying
<1> QED BY <1>2 DEF AttemptInv, History, Trying, Batch

LEMMA AuditBegins ==
  ASSUME PlanHolds, audit_cache
  PROVE  AttemptInv'
<1> USE DEF PlanHolds
<1>e. Evidence(ev) /\ DOMAIN w = WorkFields  BY DEF ShapeInv
<1>1. /\ at = "audit" /\ at' = AfterBatch(1, w'.batches) /\ w'.batch = 1 /\ w'.attempt = 1 /\ w'.retry = w.retry
      /\ w'.pending = IF w'.batches = <<>> THEN {} ELSE FilesOf(Range(w'.batches[1]))
      /\ ev'.cache.mirrors = ordered_prefetch_mirrors(ev.anchor.selected)
      /\ ev'.cache.attempts = ev.cache.attempts
  BY <1>e, AuditFacts
<1>2. w'.retry = {} /\ ev'.cache.attempts = <<>>
  BY <1>1 DEF PlanInv, NoRetry, ClosureInv, NothingYet
<1>3. Len(ev'.cache.mirrors) \in Nat /\ Len(ev'.cache.mirrors) >= 1
  <2>1. ev.anchor.selected \in 1..Mirrors  BY <1>1 DEF ClosureInv, Anchored, Resolved
  <2> QED BY <1>1, <2>1, MirrorsFollow
<1>4. at' \in {"fetch", "construct"} /\ (at' = "fetch" => ~(1 > Len(w'.batches)))
  BY <1>1 DEF AfterBatch
<1>5. at' = "fetch" => w'.pending = FilesOf(Range(w'.batches[w'.batch]))
  <2>1. Len(<<>>) = 0  OBVIOUS
  <2> QED BY <1>1, <1>4, <2>1
<1>6. PICK t : t = ev'.cache.attempts  OBVIOUS
<1>7. t = <<>> /\ DOMAIN t = {}  BY <1>2, <1>6
<1>8. History'
  <2>1. Listed(t)  BY <1>7 DEF Listed
  <2>2. Contiguous(t)  BY <1>7 DEF Contiguous
  <2>3. \A i \in DOMAIN t : AttemptOK(t[i])'  BY <1>7
  <2>4. \A f : Asking(t, f) = {}  BY <1>7 DEF Asking
  <2>5. \A f \in DOMAIN ev'.progress : ToldByLast(f)'  BY <1>6, <2>4 DEF ToldByLast
  <2>6. \A b \in 1..w'.batch - 1 : Done(b)'  BY <1>1
  <2> QED BY <1>6, <2>1, <2>2, <2>3, <2>5, <2>6 DEF History
<1>9. AttemptsOf(w.batch)' = {}  BY <1>6, <1>7 DEF AttemptsOf, Those
<1> QED BY <1>1, <1>2, <1>3, <1>4, <1>5, <1>8, <1>9, BatchBegins

LEMMA NextBatch ==
  ASSUME PlanHolds, acquire_prefetch_batches, at' # "raised"
  PROVE  AttemptInv'
<1> USE DEF PlanHolds
<1>e. Evidence(ev) /\ DOMAIN w = WorkFields  BY DEF ShapeInv
<1>1. /\ at = "batch_end" /\ ~IsError(w.err) /\ at' = AfterBatch(w.batch + 1, w.batches)
      /\ w'.batches = w.batches /\ w'.batch = w.batch + 1 /\ w'.attempt = 1 /\ w'.retry = w.retry
      /\ w'.pending = IF w.batch = Len(w.batches) THEN {} ELSE FilesOf(Range(w.batches[w.batch + 1]))
      /\ ev'.cache.mirrors = ev.cache.mirrors /\ ev'.progress = ev.progress
      /\ ev'.cache.attempts = ev.cache.attempts
  BY <1>e, CountFacts
<1>p. at \in Planned /\ InOrder  BY <1>1 DEF Planned, Resolved, InOrder
<1>2. w'.retry = {}  BY <1>1 DEF PlanInv, NoRetry
<1>3. Len(ev'.cache.mirrors) \in Nat /\ Len(ev'.cache.mirrors) >= 1
  <2>1. ev.anchor.selected \in 1..Mirrors /\ ev.cache.mirrors = ordered_prefetch_mirrors(ev.anchor.selected)
    BY <1>p DEF ClosureInv, Anchored, PlanInv, Planning, Planned
  <2> QED BY <1>1, <2>1, MirrorsFollow
<1>4. w.batch \in 1..Len(w.batches) /\ Len(w.batches) \in Nat
  <2>1. w.batch \in 1..Len(w.batches) + 1 /\ w.batch <= Len(w.batches)
    BY <1>1, <1>p DEF PlanInv, Planning
  <2>2. Len(w.batches) \in Nat  BY <1>p, BatchFacts DEF PlanInv
  <2> QED BY <2>1, <2>2
<1>5. at' \in {"fetch", "construct"} /\ (at' = "fetch" => ~(w.batch + 1 > Len(w.batches)))
  BY <1>1 DEF AfterBatch
<1>6. at' = "fetch" => w'.pending = FilesOf(Range(w'.batches[w'.batch]))
  BY <1>1, <1>4, <1>5
<1>7. History /\ Done(w.batch)  BY <1>1, <1>p, AttemptParts DEF PlanInv
<1>8. /\ \A i \in DOMAIN ev.cache.attempts : ev.cache.attempts[i].batch <= w.batch /\ ev.cache.attempts[i].batch \in Int
  BY <1>7, <1>4 DEF History, AttemptOK
<1>9. AttemptsOf(w.batch)' = {}
  <2>1. \A i \in DOMAIN ev.cache.attempts : ev.cache.attempts[i].batch # w.batch + 1  BY <1>4, <1>8
  <2> QED BY <1>1, <2>1 DEF AttemptsOf, Those
<1>10. History'
  <2>1. \A a : AttemptOK(a) => AttemptOK(a)'
    <3>1. \A x \in 1..Len(w.batches) : x <= w.batch => x <= w.batch + 1  BY <1>4
    <3> QED BY <1>1, <3>1 DEF AttemptOK
  <2>2. \A file : ToldByLast(file)' <=> ToldByLast(file)  BY <1>1 DEF ToldByLast
  <2>3. \A b : Done(b)' <=> Done(b)  BY <1>1 DEF Done, First, AttemptsOf
  <2>4. \A b \in 1..w'.batch - 1 : b \in 1..w.batch - 1 \/ b = w.batch  BY <1>1, <1>4
  <2>5. \A b \in 1..w'.batch - 1 : Done(b)
    <3>1. \A b \in 1..w.batch - 1 : Done(b)  BY <1>7 DEF History
    <3> QED BY <1>7, <2>4, <3>1
  <2>6. \A b \in 1..w'.batch - 1 : Done(b)'  BY <2>3, <2>5
  <2> QED BY <1>1, <1>7, <2>1, <2>2, <2>6 DEF History
<1>11. w'.batch \in Nat  BY <1>1, <1>4
<1> QED BY <1>1, <1>2, <1>3, <1>5, <1>6, <1>9, <1>10, <1>11, BatchBegins

LEMMA AttemptKeeps ==
  ASSUME PlanHolds, ClosureStep
  PROVE  AttemptInv'
<1> USE DEF PlanHolds
<1>e. Evidence(ev) /\ DOMAIN w = WorkFields /\ prepare_repository_closure  BY DEF ShapeInv, ClosureStep
<1> SUFFICES ASSUME at' \in Planned, InOrder'  PROVE AttemptInv'
  BY DEF AttemptInv
<1>0. at' \in Resolved /\ at' # "raised"  BY DEF Planned, Resolved
<1>r. \A e, error : ~raise_closure_failure(e, error)  BY <1>0 DEF raise_closure_failure
<1>s. ASSUME at \in Planned, InOrder, at' \notin {"fetch", "record", "batch_end"},
             w'.batches = w.batches, w'.batch = w.batch, ev'.progress = ev.progress,
             ev'.cache.mirrors = ev.cache.mirrors, ev'.cache.attempts = ev.cache.attempts
      PROVE  AttemptInv'
  <2>1. History  BY <1>s, AttemptParts DEF PlanInv
  <2>2. History'  BY <1>s, <2>1, HistorySame
  <2> QED BY <1>s, <2>2 DEF AttemptInv, History
<1>1. CASE freeze_resolved_package_evidence
  BY <1>r, <1>1 DEF freeze_resolved_package_evidence, Planned
<1>2. CASE audit_cache  BY <1>2, AuditBegins
<1>3. CASE fetch_mirror_attempt  BY <1>3, TryingAgain
<1>4. CASE acquire_batch_with_mirror_failover  BY <1>4, AttemptEnds
<1>5. CASE interrupted_between_attempts
  <2>1. at' = "batch_end" /\ w' = [w EXCEPT !.err = Interrupt]
    BY <1>5 DEF interrupted_between_attempts
  <2>2. w'.err = Interrupt  BY <2>1, <1>e DEF WorkFields
  <2>3. IsError(w'.err)  BY <2>2 DEF IsError, Interrupt, Error
  <2> QED BY <2>1, <2>3 DEF InOrder, Complete, IsError
<1>6. CASE acquire_prefetch_batches  BY <1>0, <1>6, NextBatch
<1>7. CASE construct_frozen_local_repository
  <2>1. /\ at = "construct" /\ at' = "validate" /\ w' = w /\ ev'.progress = ev.progress
        /\ ev'.cache.mirrors = ev.cache.mirrors /\ ev'.cache.attempts = ev.cache.attempts
    BY <1>7, <1>e, <1>r, ConstructFacts
  <2> QED BY <1>s, <2>1 DEF Planned, Resolved, InOrder
<1>8. CASE validate_local_repository \/ restore_outer_owner \/ seal_closure
  <2>1. /\ at \in {"validate", "handoff", "seal"} /\ at' \in {"handoff", "seal", "closed"} /\ w' = w
        /\ ev'.progress = ev.progress
        /\ ev'.cache.mirrors = ev.cache.mirrors /\ ev'.cache.attempts = ev.cache.attempts
    BY <1>0, <1>8, <1>e, LateFacts
  <2> QED BY <1>s, <2>1 DEF Planned, Resolved, InOrder, Complete
<1> QED BY <1>0, <1>e, <1>1, <1>2, <1>3, <1>4, <1>5, <1>6, <1>7, <1>8, EarlySteps

(***************************************************************************)
(* The ledger and the cache.                                               *)
(***************************************************************************)
LEMMA VerifiedIs ==
  ASSUME NEW s, NEW b, NEW a, NEW c
  PROVE  ProgressOf(s, b, a, c).state = s
BY DEF ProgressOf

\* Packages of the closure, at the places past the resolution.
LEMMA ClosureIsSound ==
  ASSUME ClosureInv, at \in Resolved
  PROVE  Sound(ev.packages) /\ DOMAIN ev.progress = FilesOf(ev.packages)
<1>1. sync \in Dbs /\ ev.packages = Resolve[sync] /\ DOMAIN ev.progress = FilesOf(ev.packages)
  BY DEF ClosureInv, Anchored, Frozen
<1> QED BY <1>1, ResolvedIsSound

LEMMA AuditFinds ==
  ASSUME PlanHolds, audit_cache
  PROVE  CacheInv'
<1> USE DEF PlanHolds
<1>e. Evidence(ev) /\ DOMAIN w = WorkFields  BY DEF ShapeInv
<1>1. /\ at = "audit" /\ at' = AfterBatch(1, w'.batches) /\ cache' = Audit.cache /\ touched' = touched
      /\ w'.batches = plan_package_prefetch_batches({p \in ev.packages : p.file \in Audit.pending})
      /\ w'.batch = 1
      /\ w'.pending = IF w'.batches = <<>> THEN {} ELSE FilesOf(Range(w'.batches[1]))
      /\ ev'.packages = ev.packages
      /\ ev'.progress = reconcile_package_progress_from_cache_audit(ev.progress, Audit)
  BY <1>e, AuditFacts
<1>2. Sound(ev.packages) /\ DOMAIN ev.progress = FilesOf(ev.packages)
  BY <1>1, ClosureIsSound DEF Resolved
<1>3. /\ Audit.reused = verified_cached_filenames(cache, ev.packages)
      /\ Audit.pending = FilesOf(ev.packages) \ Audit.reused
      /\ \A f \in Files : Audit.cache[f] =
            IF f \notin FilesOf(ev.packages) THEN cache[f]
            ELSE [sha |-> IF f \in Audit.reused THEN cache[f].sha ELSE None,
                  sig |-> f \in Audit.reused /\ ~(f \in Audit.reused /\ Of(ev.packages, f).signed) /\ cache[f].sig,
                  part |-> FALSE]
  BY DEF Audit, audit_persistent_package_cache
<1>4. DOMAIN ev'.progress = DOMAIN ev.progress /\ \A f \in DOMAIN ev.progress :
         ev'.progress[f].state = CASE f \in Audit.reused -> "reused_verified"
                                   [] f \in Audit.corrupt -> "corrupt_removed"
                                   [] OTHER -> "pending"
  BY <1>1, VerifiedIs DEF reconcile_package_progress_from_cache_audit
<1>5. \A f \in DOMAIN ev.progress : IsVerified(f)' <=> f \in Audit.reused
  <2>1. ASSUME NEW f \in DOMAIN ev.progress, f \notin Audit.reused
        PROVE  ev'.progress[f].state \in {"corrupt_removed", "pending"}
    <3>1. CASE f \in Audit.corrupt  BY <1>4, <2>1, <3>1
    <3>2. CASE f \notin Audit.corrupt  BY <1>4, <2>1, <3>2
    <3> QED BY <3>1, <3>2
  <2>2. ASSUME NEW f \in DOMAIN ev.progress, f \in Audit.reused
        PROVE  ev'.progress[f].state = "reused_verified"
    <3>1. f \notin Audit.corrupt  BY <2>2 DEF Audit, audit_persistent_package_cache
    <3>2. ev'.progress[f].state = CASE f \in Audit.reused -> "reused_verified"
                                    [] f \in Audit.corrupt -> "corrupt_removed"
                                    [] OTHER -> "pending"
      BY <1>4
    <3> QED BY <2>2, <3>1, <3>2
  <2> QED BY <2>1, <2>2 DEF IsVerified, VerifiedStates
<1>6. \A f \in DOMAIN ev.progress : IsVerified(f)' => Good(f)'
  <2> TAKE f \in DOMAIN ev.progress
  <2> SUFFICES ASSUME f \in Audit.reused  PROVE Good(f)'
    BY <1>5
  <2>1. f \in FilesOf(ev.packages) /\ cache[f].sha = Of(ev.packages, f).sha
    BY <1>3 DEF verified_cached_filenames
  <2>2. f \in Files  BY <1>2, <2>1 DEF Sound, FilesOf
  <2>3. cache'[f].sha = cache[f].sha
    <3>1. Audit.cache[f] = [sha |-> cache[f].sha,
                            sig |-> f \in Audit.reused /\ ~(f \in Audit.reused /\ Of(ev.packages, f).signed) /\ cache[f].sig,
                            part |-> FALSE]
      BY <1>3, <2>1, <2>2
    <3>2. Audit.cache[f].sha = cache[f].sha  BY <3>1
    <3> QED BY <1>1, <3>2
  <2> QED BY <1>1, <2>1, <2>3 DEF Good
<1>7. ASSUME NEW b \in 1..Len(w'.batches), NEW f \in FilesOf(Range(w'.batches[b]))
      PROVE  f \in DOMAIN ev.progress /\ ~IsVerified(f)'
  <2> DEFINE P == {p \in ev.packages : p.file \in Audit.pending}
  <2>1. Sound(P)  BY <1>2, SoundParts
  <2>2. \A p \in P : p.file \in Audit.pending  OBVIOUS
  <2> HIDE DEF P
  <2>3. w'.batches \in Seq(Seq(P))  BY <1>1, <2>1, BatchesAreDisjoint DEF P
  <2>4. w'.batches[b] \in Seq(P)  BY <1>7, <2>3
  <2>5. Range(w'.batches[b]) \subseteq P  BY <2>4, SeqRange
  <2>6. f \in Audit.pending  BY <1>7, <2>2, <2>5 DEF FilesOf
  <2>7. f \in DOMAIN ev.progress /\ f \notin Audit.reused  BY <1>2, <1>3, <2>6
  <2> QED BY <1>5, <2>7
<1>8. at' \in {"fetch", "construct"} /\ (at' = "fetch" => ~(1 > Len(w'.batches)))
  BY <1>1 DEF AfterBatch
<1>9. at' = "fetch" => \A f \in w'.pending : ~IsVerified(f)'
  <2>1. Len(<<>>) = 0  OBVIOUS
  <2>2. Len(w'.batches) \in Nat
    <3> DEFINE P == {p \in ev.packages : p.file \in Audit.pending}
    <3>1. Sound(P)  BY <1>2, SoundParts
    <3> HIDE DEF P
    <3>2. w'.batches \in Seq(Seq(P))  BY <1>1, <3>1, BatchesAreDisjoint DEF P
    <3> QED BY <3>2
  <2>3. at' = "fetch" => 1 \in 1..Len(w'.batches) /\ w'.pending = FilesOf(Range(w'.batches[1]))
    BY <1>1, <1>8, <2>1, <2>2
  <2> QED BY <1>7, <2>3
<1>10. \A b \in w'.batch + 1..Len(w'.batches) : b \in 1..Len(w'.batches)  BY <1>1
<1>11. \A f \in DOMAIN ev'.progress \ Excepted' : IsVerified(f)' => Good(f)'  BY <1>4, <1>6
<1>12. \A b \in w'.batch + 1..Len(w'.batches) : \A f \in FilesOf(Range(w'.batches[b])) : ~IsVerified(f)'
  BY <1>7, <1>10
<1> HIDE DEF IsVerified, Good
<1> QED BY <1>8, <1>9, <1>11, <1>12 DEF CacheInv, Resolved

LEMMA FetchBrings ==
  ASSUME PlanHolds, fetch_mirror_attempt
  PROVE  CacheInv'
<1> USE DEF PlanHolds
<1>e. DOMAIN w = WorkFields  BY DEF ShapeInv
<1>1. /\ at = "fetch" /\ at' = "record" /\ ev' = ev
      /\ w'.batches = w.batches /\ w'.batch = w.batch /\ w'.pending = w.pending
  BY <1>e, FetchFacts
<1>2. PICK outcome \in [FilesOf(attempt_packages) -> {"right", "wrong", "partial"}] :
         /\ cache' = [f \in Files |->
               IF f \notin DOMAIN outcome THEN cache[f]
               ELSE LET p == Of(attempt_packages, f)
                    IN  CASE outcome[f] = "right" -> [sha |-> p.sha, sig |-> ~p.signed, part |-> FALSE]
                          [] outcome[f] = "wrong" -> [sha |-> "wrong", sig |-> cache[f].sig, part |-> FALSE]
                          [] outcome[f] = "partial" -> [sha |-> None, sig |-> cache[f].sig, part |-> TRUE]]
         /\ w'.spoiled = w.spoiled \cup {f \in DOMAIN outcome : outcome[f] # "right" /\ f \notin w.pending}
         /\ touched' = touched
  BY <1>e DEF fetch_mirror_attempt, WorkFields
<1>3. Sound(ev.packages) /\ DOMAIN ev.progress = FilesOf(ev.packages)
  BY <1>1, ClosureIsSound DEF Resolved
<1>4. attempt_packages \subseteq ev.packages
  <2>1. w.retry \subseteq Batch  BY <1>1, AttemptParts DEF PlanInv, Planned, Resolved, InOrder
  <2>2. attempt_packages \subseteq Batch  BY <2>1 DEF attempt_packages
  <2>3. Batch \subseteq ev.packages
    <3>1. Planning /\ at \in Planned /\ w.batch \in 1..Len(w.batches) + 1 /\ w.batch <= Len(w.batches)
      BY <1>1 DEF PlanInv, Planning, Planned, Resolved
    <3>2. Len(w.batches) \in Nat  BY <3>1, BatchFacts
    <3>3. w.batch \in 1..Len(w.batches)  BY <3>1, <3>2
    <3> QED BY <3>1, <3>3, BatchFacts DEF Batch
  <2> QED BY <2>2, <2>3
<1>5. /\ \A f \in DOMAIN ev.progress \ Excepted : IsVerified(f) => Good(f)
      /\ \A f \in w.pending : ~IsVerified(f)
      /\ \A b \in w.batch + 1..Len(w.batches) : \A f \in FilesOf(Range(w.batches[b])) : ~IsVerified(f)
  BY <1>1 DEF PlanInv, CacheInv, Resolved
<1>6. \A f : IsVerified(f)' <=> IsVerified(f)  BY <1>1 DEF IsVerified
<1>7. ASSUME NEW f \in DOMAIN ev.progress \ Excepted', IsVerified(f)  PROVE Good(f)'
  <2>1. f \in Files /\ f \notin Excepted  BY <1>1, <1>2, <1>3, <1>7 DEF Sound, FilesOf, Excepted
  <2>2. Good(f) /\ f \notin w.pending  BY <1>5, <1>7, <2>1
  <2>3. CASE f \notin DOMAIN outcome
    <3>1. cache'[f] = cache[f]  BY <1>2, <2>1, <2>3
    <3> QED BY <1>1, <2>2, <3>1 DEF Good
  <2>4. CASE f \in DOMAIN outcome
    <3>0. f \notin w'.spoiled  BY <1>7 DEF Excepted
    <3>1. outcome[f] = "right"  BY <1>2, <2>2, <2>4, <3>0
    <3>2. cache'[f].sha = Of(attempt_packages, f).sha  BY <1>2, <2>1, <2>4, <3>1
    <3>3. f \in FilesOf(attempt_packages)  BY <2>4
    <3>4. Of(attempt_packages, f) = Of(ev.packages, f)  BY <1>3, <1>4, <3>3, OfPart
    <3> QED BY <1>1, <3>2, <3>4 DEF Good
  <2> QED BY <2>3, <2>4
<1> HIDE DEF IsVerified, Good
<1>8. \A f \in DOMAIN ev'.progress \ Excepted' : IsVerified(f)' => Good(f)'  BY <1>1, <1>6, <1>7
<1>9. \A f \in w'.pending : ~IsVerified(f)'  BY <1>1, <1>5, <1>6
<1>10. \A b \in w'.batch + 1..Len(w'.batches) : \A f \in FilesOf(Range(w'.batches[b])) : ~IsVerified(f)'
  BY <1>1, <1>5, <1>6
<1> QED BY <1>1, <1>8, <1>9, <1>10 DEF CacheInv

\* What an attempt verified has the hash frozen at resolution; what is swept
\* was not verified.
LEMMA RecordTells ==
  ASSUME PlanHolds, acquire_batch_with_mirror_failover
  PROVE  CacheInv'
<1> USE DEF PlanHolds
<1>e. Evidence(ev) /\ DOMAIN w = WorkFields  BY DEF ShapeInv
<1>1. /\ at = "record" /\ at' \in {"batch_end", "fetch"} /\ Excepted' = Excepted
      /\ ev'.packages = ev.packages
      /\ w'.batches = w.batches /\ w'.batch = w.batch /\ w'.pending = Missing
      /\ \/ ev'.progress = ev.progress /\ at' = "batch_end"
         \/ /\ attempt_partitions(Attempt) /\ ev'.progress = Told
            /\ at' = "fetch" => Attempt.result = "fail"
  BY <1>e, AcquireFacts DEF Excepted
<1>p. at \in Planned /\ InOrder  BY <1>1 DEF Planned, Resolved, InOrder
<1>2. Sound(ev.packages) /\ DOMAIN ev.progress = FilesOf(ev.packages)
  BY <1>1, ClosureIsSound DEF Resolved
<1>3. /\ \A f \in DOMAIN ev.progress \ Excepted : IsVerified(f) => Good(f)
      /\ \A f \in w.pending : ~IsVerified(f)
      /\ \A b \in w.batch + 1..Len(w.batches) : \A f \in FilesOf(Range(w.batches[b])) : ~IsVerified(f)
  BY <1>1 DEF PlanInv, CacheInv, Resolved
<1>4. w.batch \in 1..Len(w.batches) /\ Len(w.batches) \in Nat
  <2>1. Planning /\ w.batch \in 1..Len(w.batches) + 1 /\ w.batch <= Len(w.batches)
    BY <1>1, <1>p DEF PlanInv, Planning
  <2>2. Len(w.batches) \in Nat  BY <1>p, <2>1, BatchFacts
  <2> QED BY <2>1, <2>2
<1>5. w.asked \subseteq Batch /\ Batch \subseteq ev.packages /\ w.pending \subseteq FilesOf(Batch)
  <2>1. w.asked \subseteq Batch /\ w.pending \subseteq FilesOf(w.asked)
    BY <1>1, <1>p, AttemptParts DEF PlanInv
  <2>2. Batch \subseteq ev.packages  BY <1>p, <1>4, BatchFacts DEF PlanInv, Batch
  <2> QED BY <2>1, <2>2 DEF FilesOf
<1>6. ASSUME NEW f \in Files, f \notin Missing  PROVE cache'[f].sha = cache[f].sha
  <2> DEFINE P == {p \in Batch : p.file \in Missing}
             swept == remove_unverified_attempt_files(cache, P)
  <2>1. f \notin FilesOf(P)  BY <1>6 DEF FilesOf
  <2>2. swept[f] = cache[f]
    <3> HIDE DEF P
    <3> QED BY <2>1 DEF remove_unverified_attempt_files
  <2> HIDE DEF swept
  <2>3. cache' = swept \/ cache' = remove_detached_signatures_for_retry(swept, w.asked)
    BY DEF acquire_batch_with_mirror_failover, Missing, Found, swept
  <2>4. CASE cache' = swept  BY <2>2, <2>4
  <2>5. CASE cache' = remove_detached_signatures_for_retry(swept, w.asked)
    <3>1. cache'[f] = IF f \in FilesOf(w.asked) THEN [swept[f] EXCEPT !.sig = FALSE] ELSE swept[f]
      BY <2>5 DEF remove_detached_signatures_for_retry
    <3>2. DOMAIN cache[f] = {"sha", "sig", "part"}  BY DEF ShapeInv
    <3>3. [cache[f] EXCEPT !.sig = FALSE].sha = cache[f].sha  BY <3>2
    <3> QED BY <2>2, <3>1, <3>3
  <2> QED BY <2>3, <2>4, <2>5
<1>7. CASE ev'.progress = ev.progress /\ at' = "batch_end"
  <2>1. \A f : IsVerified(f)' <=> IsVerified(f)  BY <1>7 DEF IsVerified
  <2>2. ASSUME NEW f \in DOMAIN ev.progress \ Excepted, IsVerified(f)  PROVE Good(f)'
    <3>1. f \in Files  BY <1>2, <2>2 DEF Sound, FilesOf
    <3>2. f \notin Missing  BY <1>3, <2>2 DEF Missing
    <3>3. Good(f)  BY <1>3, <2>2
    <3> QED BY <1>1, <1>6, <3>1, <3>2, <3>3 DEF Good
  <2> HIDE DEF IsVerified, Good
  <2>3. \A f \in DOMAIN ev'.progress \ Excepted' : IsVerified(f)' => Good(f)'  BY <1>1, <1>7, <2>1, <2>2
  <2>4. \A b \in w'.batch + 1..Len(w'.batches) : \A f \in FilesOf(Range(w'.batches[b])) : ~IsVerified(f)'
    BY <1>1, <1>3, <2>1
  <2> QED BY <1>7, <2>3, <2>4 DEF CacheInv
<1>8. CASE /\ attempt_partitions(Attempt) /\ ev'.progress = Told
           /\ at' = "fetch" => Attempt.result = "fail"
  <2>1. /\ Attempt.requested = FilesOf(w.asked) /\ Attempt.verified = Found /\ Attempt.pending = Missing
        /\ Attempt.result = "pass" => Missing = {}
        /\ Attempt.result # "pass" => Attempt.result = "fail"
    BY <1>1, <1>8, AttemptIs
  <2>2. ASSUME NEW f \in DOMAIN ev.progress
        PROVE  ev'.progress[f] =
                  CASE f \in Found -> ProgressOf("downloaded_verified", w.batch, w.attempt, None)
                    [] f \in Missing -> ProgressOf(IF Attempt.result = "fail" THEN "failed" ELSE "pending",
                                                   w.batch, w.attempt, Attempt.class)
                    [] OTHER -> ev.progress[f]
    <3>1. Attempt.attempt = w.attempt  BY DEF Attempt
    <3> QED BY <1>8, <2>1, <2>2, <3>1 DEF Told, record_package_progress_attempt
  <2>3. DOMAIN ev'.progress = DOMAIN ev.progress  BY <1>8 DEF Told, record_package_progress_attempt
  <2>4. Found \subseteq FilesOf(w.asked) /\ Missing \subseteq FilesOf(w.asked) /\ Found \cap Missing = {}
    BY <1>8, <2>1 DEF attempt_partitions
  <2>5. ASSUME NEW f \in DOMAIN ev.progress, f \in Missing  PROVE ~IsVerified(f)'
    <3>1. f \notin Found  BY <2>4, <2>5
    <3>2. ev'.progress[f] = ProgressOf("failed", w.batch, w.attempt, Attempt.class)
      BY <2>1, <2>2, <2>5, <3>1
    <3> QED BY <3>2, VerifiedIs DEF IsVerified, VerifiedStates
  <2>6. ASSUME NEW f \in DOMAIN ev.progress \ Excepted, IsVerified(f)'  PROVE Good(f)'
    <3>1. f \in Files  BY <1>2, <2>6 DEF Sound, FilesOf
    <3>2. f \notin Missing  BY <2>5, <2>6
    <3>3. cache'[f].sha = cache[f].sha  BY <1>6, <3>1, <3>2
    <3>4. CASE f \in Found
      <4>1. f \in FilesOf(w.asked) /\ cache[f].sha = Of(w.asked, f).sha  BY <3>4 DEF Found, verified_cached_filenames
      <4>2. w.asked \in SUBSET ev.packages  BY <1>5
      <4>3. Of(w.asked, f) = Of(ev.packages, f)  BY <1>2, <4>1, <4>2, OfPart
      <4> QED BY <1>1, <3>3, <4>1, <4>3 DEF Good
    <3>5. CASE f \notin Found
      <4>1. ev'.progress[f] = ev.progress[f]  BY <2>2, <2>6, <3>2, <3>5
      <4>2. IsVerified(f)  BY <2>6, <4>1 DEF IsVerified
      <4>3. Good(f)  BY <1>3, <2>6, <4>2
      <4> QED BY <1>1, <3>3, <4>3 DEF Good
    <3> QED BY <3>4, <3>5
  <2>7. Missing \subseteq DOMAIN ev.progress
    <3>1. FilesOf(w.asked) \subseteq FilesOf(ev.packages)  BY <1>5 DEF FilesOf
    <3> QED BY <1>2, <2>4, <3>1
  <2>8. ASSUME NEW b \in w.batch + 1..Len(w.batches), NEW f \in FilesOf(Range(w.batches[b]))  PROVE ~IsVerified(f)'
    <3>1. b \in 1..Len(w.batches) /\ b # w.batch  BY <1>4
    <3>2. /\ FilesOf(Range(w.batches[b])) \cap FilesOf(Range(w.batches[w.batch])) = {}
          /\ Range(w.batches[b]) \subseteq ev.packages
      BY <1>p, <1>4, <3>1, BatchFacts DEF PlanInv
    <3>3. f \notin FilesOf(w.asked)  BY <1>5, <3>2 DEF FilesOf, Batch
    <3>4. f \in DOMAIN ev.progress  BY <1>2, <3>2 DEF FilesOf
    <3>5. f \notin Found /\ f \notin Missing  BY <2>4, <3>3
    <3>6. ev'.progress[f] = ev.progress[f]  BY <2>2, <3>4, <3>5
    <3>7. ~IsVerified(f)  BY <1>3
    <3> QED BY <3>6, <3>7 DEF IsVerified
  <2> HIDE DEF IsVerified, Good
  <2>9. \A f \in DOMAIN ev'.progress \ Excepted' : IsVerified(f)' => Good(f)'  BY <1>1, <2>3, <2>6
  <2>10. \A f \in w'.pending : ~IsVerified(f)'  BY <1>1, <2>5, <2>7
  <2>11. \A b \in w'.batch + 1..Len(w'.batches) : \A f \in FilesOf(Range(w'.batches[b])) : ~IsVerified(f)'
    BY <1>1, <2>8
  <2> QED BY <1>1, <2>9, <2>10, <2>11 DEF CacheInv
<1> QED BY <1>1, <1>7, <1>8

\* Steps that touch neither the cache nor the ledger.
LEMMA CacheSame ==
  ASSUME CacheInv, at \in Resolved \ {"closed"}, at' \in Resolved, cache' = cache, Excepted' = Excepted,
         ev'.packages = ev.packages, ev'.progress = ev.progress, w'.batches = w.batches,
         at' # "audit",
         at' \in {"fetch", "record"} => \A f \in w'.pending : ~IsVerified(f),
         at' \in {"fetch", "record", "batch_end"} =>
             \A b \in w'.batch + 1..Len(w.batches) : \A f \in FilesOf(Range(w.batches[b])) : ~IsVerified(f)
  PROVE  CacheInv'
<1>1. \A f : (IsVerified(f)' <=> IsVerified(f)) /\ (Good(f)' <=> Good(f))  BY DEF IsVerified, Good
<1> QED BY <1>1 DEF CacheInv

LEMMA CacheKeeps ==
  ASSUME PlanHolds, ClosureStep
  PROVE  CacheInv'
<1> USE DEF PlanHolds
<1>e. Evidence(ev) /\ DOMAIN w = WorkFields /\ prepare_repository_closure  BY DEF ShapeInv, ClosureStep
<1> SUFFICES ASSUME at' \in Resolved  PROVE CacheInv'
  BY DEF CacheInv, Resolved
<1>r. \A e, error : ~raise_closure_failure(e, error)  BY DEF raise_closure_failure, Resolved
<1>c. CacheInv  BY DEF PlanInv
<1>1. CASE freeze_resolved_package_evidence
  <2>1. at' = "audit"  BY <1>r, <1>1 DEF freeze_resolved_package_evidence
  <2>2. ev' = [ev EXCEPT !.packages = Resolve[sync], !.progress = initialize_package_progress(Resolve[sync]),
                         !.summary = summarize_package_progress(initialize_package_progress(Resolve[sync]))]
    BY <1>1, <1>r DEF freeze_resolved_package_evidence, parse_pacman_print_rows
  <2>3. ev'.progress = initialize_package_progress(Resolve[sync])  BY <1>e, <2>2 DEF Evidence, EvFields
  <2>4. \A f \in DOMAIN ev'.progress : ev'.progress[f].state = "pending"
    BY <2>3, VerifiedIs DEF initialize_package_progress
  <2>5. \A f \in DOMAIN ev'.progress : ~IsVerified(f)'  BY <2>4 DEF IsVerified, VerifiedStates
  <2> HIDE DEF IsVerified, Good
  <2> QED BY <2>1, <2>5 DEF CacheInv
<1>2. CASE audit_cache  BY <1>2, AuditFinds
<1>3. CASE fetch_mirror_attempt  BY <1>3, FetchBrings
<1>4. CASE acquire_batch_with_mirror_failover  BY <1>4, RecordTells
<1>5. CASE interrupted_between_attempts
  <2>1. at = "record" /\ at' = "batch_end" /\ UNCHANGED <<cache, ev, touched>> /\ w' = [w EXCEPT !.err = Interrupt]
    BY <1>5 DEF interrupted_between_attempts, persistent
  <2>2. w'.batches = w.batches /\ w'.batch = w.batch /\ Excepted' = Excepted
    BY <2>1, <1>e DEF WorkFields, Excepted
  <2>3. \A b \in w'.batch + 1..Len(w.batches) : \A f \in FilesOf(Range(w.batches[b])) : ~IsVerified(f)
    BY <1>c, <2>1, <2>2 DEF CacheInv
  <2> QED BY <1>c, <2>1, <2>2, <2>3, CacheSame DEF Resolved
<1>6. CASE acquire_prefetch_batches
  <2>1. /\ at = "batch_end" /\ UNCHANGED <<cache, Excepted>> /\ at' = AfterBatch(w.batch + 1, w.batches)
        /\ w'.batches = w.batches /\ w'.batch = w.batch + 1
        /\ w'.pending = IF w.batch = Len(w.batches) THEN {} ELSE FilesOf(Range(w.batches[w.batch + 1]))
        /\ ev'.packages = ev.packages /\ ev'.progress = ev.progress
    BY <1>6, <1>e, <1>r, CountFacts DEF Excepted
  <2>2. Planning /\ at \in Planned  BY <2>1 DEF PlanInv, Planned, Resolved
  <2>3. w.batch \in 1..Len(w.batches) + 1 /\ w.batch <= Len(w.batches)  BY <2>1, <2>2 DEF Planning
  <2>4. Len(w.batches) \in Nat  BY <2>2, BatchFacts
  <2>5. \A b \in w.batch + 1..Len(w.batches) : \A f \in FilesOf(Range(w.batches[b])) : ~IsVerified(f)
    BY <1>c, <2>1 DEF CacheInv
  <2>6. \A f \in w'.pending : ~IsVerified(f)
    <3>1. CASE w.batch = Len(w.batches)  BY <2>1, <3>1
    <3>2. CASE w.batch # Len(w.batches)
      <4>1. w.batch + 1 \in w.batch + 1..Len(w.batches)  BY <2>3, <2>4, <3>2
      <4> QED BY <2>1, <2>5, <3>2, <4>1
    <3> QED BY <3>1, <3>2
  <2>7. \A b \in w'.batch + 1..Len(w.batches) : b \in w.batch + 1..Len(w.batches)  BY <2>1, <2>3, <2>4
  <2>8. \A b \in w'.batch + 1..Len(w.batches) : \A f \in FilesOf(Range(w.batches[b])) : ~IsVerified(f)
    BY <2>5, <2>7
  <2>9. at' \in {"fetch", "construct"}  BY <2>1 DEF AfterBatch
  <2> QED BY <1>c, <2>1, <2>6, <2>8, <2>9, CacheSame DEF Resolved
<1>7. CASE construct_frozen_local_repository
  <2>1. /\ at = "construct" /\ at' = "validate" /\ UNCHANGED <<cache, w, Excepted>>
        /\ ev'.packages = ev.packages /\ ev'.progress = ev.progress
    BY <1>7, <1>e, <1>r, ConstructFacts DEF Excepted
  <2> QED BY <1>c, <2>1, CacheSame DEF Resolved
<1>8. CASE validate_local_repository \/ restore_outer_owner \/ seal_closure
  <2>1. /\ at \in {"validate", "handoff", "seal"} /\ at' \in {"handoff", "seal", "closed"}
        /\ UNCHANGED <<cache, w, Excepted>>
        /\ ev'.packages = ev.packages /\ ev'.progress = ev.progress
    BY <1>8, <1>e, LateFacts DEF Resolved, Excepted
  <2> QED BY <1>c, <2>1, CacheSame DEF Resolved
<1> QED BY <1>e, <1>1, <1>2, <1>3, <1>4, <1>5, <1>6, <1>7, <1>8, EarlySteps

\* The clean retry can lose only files it asks for again, and the attempt that
\* lost one does not partition what it asked for.
LEMMA SpoilKeeps ==
  ASSUME PlanHolds, ClosureStep
  PROVE  SpoilInv'
<1> USE DEF PlanHolds
<1>e. Evidence(ev) /\ DOMAIN w = WorkFields /\ prepare_repository_closure  BY DEF ShapeInv, ClosureStep
<1> SUFFICES ASSUME at' \in DOMAIN Substage \cup {"closed"}, w'.spoiled # {}  PROVE SpoilInv'
  BY DEF SpoilInv
<1>r. \A e, error : ~raise_closure_failure(e, error)  BY SubstageIs DEF raise_closure_failure
<1>s. SpoilInv  BY DEF PlanInv
<1>w. ASSUME w'.spoiled = w.spoiled, at \in DOMAIN Substage \ {"record", "batch_end"}  PROVE FALSE
  BY <1>s, <1>w DEF SpoilInv
<1> USE SubstageIs
<1>1. ~setup_closure  BY DEF setup_closure, NoWork
<1>2. ~parse_artix_mirror_servers  BY <1>e, <1>r, <1>w DEF parse_artix_mirror_servers, WorkFields
<1>3. ~probe_anchor
  <2> SUFFICES ASSUME probe_anchor  PROVE FALSE
    OBVIOUS
  <2>1. at = "probe" /\ \E x, y : w' = [w EXCEPT !.candidate = x, !.probes = y] \/ w' = [w EXCEPT !.probes = y]
    BY <1>r DEF probe_anchor
  <2>2. w'.spoiled = w.spoiled  BY <1>e, <2>1 DEF WorkFields
  <2> QED BY <1>w, <2>1, <2>2
<1>4. ~freeze_repository_sync_directory  BY <1>w DEF freeze_repository_sync_directory
<1>5. ~freeze_resolved_package_evidence  BY <1>r, <1>w DEF freeze_resolved_package_evidence
<1>6. ~audit_cache  BY <1>e, <1>w, AuditFacts
<1>7. CASE fetch_mirror_attempt
  <2>1. PICK outcome \in [FilesOf(attempt_packages) -> {"right", "wrong", "partial"}] :
         /\ cache' = [f \in Files |->
               IF f \notin DOMAIN outcome THEN cache[f]
               ELSE LET p == Of(attempt_packages, f)
                    IN  CASE outcome[f] = "right" -> [sha |-> p.sha, sig |-> ~p.signed, part |-> FALSE]
                          [] outcome[f] = "wrong" -> [sha |-> "wrong", sig |-> cache[f].sig, part |-> FALSE]
                          [] outcome[f] = "partial" -> [sha |-> None, sig |-> cache[f].sig, part |-> TRUE]]
         /\ w'.spoiled = w.spoiled \cup {f \in DOMAIN outcome : outcome[f] # "right" /\ f \notin w.pending}
    BY <1>e, <1>7 DEF fetch_mirror_attempt, WorkFields
  <2>2. at = "fetch" /\ at' = "record" /\ w'.asked = attempt_packages /\ w'.pending = w.pending
    BY <1>e, <1>7, FetchFacts
  <2>3. w.spoiled = {}  BY <1>s, <2>2 DEF SpoilInv
  <2>4. PICK f \in FilesOf(attempt_packages) : f \in w'.spoiled /\ outcome[f] # "right" /\ f \notin w.pending
    BY <2>1, <2>3
  <2>5. f \in Files
    <3>1. w.retry \subseteq Batch  BY <2>2, AttemptParts DEF PlanInv, Planned, Resolved, InOrder
    <3>2. attempt_packages \subseteq Batch  BY <3>1 DEF attempt_packages
    <3>3. Planning /\ at \in Planned /\ w.batch \in 1..Len(w.batches) + 1 /\ w.batch <= Len(w.batches)
      BY <2>2 DEF PlanInv, Planning, Planned, Resolved
    <3>4. Len(w.batches) \in Nat  BY <3>3, BatchFacts
    <3>5. w.batch \in 1..Len(w.batches)  BY <3>3, <3>4
    <3>6. Batch \subseteq ev.packages  BY <3>3, <3>5, BatchFacts DEF Batch
    <3>7. Sound(ev.packages)  BY <2>2, ClosureIsSound DEF Resolved
    <3> QED BY <3>2, <3>6, <3>7 DEF Sound, FilesOf
  <2>6. cache'[f].sha \in {None, "wrong"}
    <3>1. outcome[f] \in {"wrong", "partial"}  BY <2>1, <2>4
    <3> QED BY <2>1, <2>4, <2>5, <3>1
  <2> QED BY <2>2, <2>4, <2>5, <2>6 DEF SpoilInv, Lost
<1>8. CASE acquire_batch_with_mirror_failover
  <2>1. /\ at = "record" /\ w'.spoiled = w.spoiled
        /\ attempt_partitions(Attempt) \/ (at' = "batch_end" /\ IsError(w'.err))
    BY <1>e, <1>8, AcquireFacts
  <2>2. PICK f \in w.spoiled : f \in Files /\ Lost(f)  BY <1>s, <2>1 DEF SpoilInv
  <2>3. f \notin Found
    <3>1. w.asked \subseteq Batch
      BY <2>1, AttemptParts DEF PlanInv, Planned, Resolved, InOrder
    <3>2. Planning /\ at \in Planned /\ w.batch \in 1..Len(w.batches) + 1 /\ w.batch <= Len(w.batches)
      BY <2>1 DEF PlanInv, Planning, Planned, Resolved
    <3>3. Len(w.batches) \in Nat  BY <3>2, BatchFacts
    <3>4. w.batch \in 1..Len(w.batches)  BY <3>2, <3>3
    <3>5. Batch \subseteq ev.packages  BY <3>2, <3>4, BatchFacts DEF Batch
    <3>6. sync \in Dbs /\ ev.packages = Resolve[sync]  BY <2>1 DEF ClosureInv, Anchored, Frozen, Resolved
    <3>7. \A p \in w.asked : p.sha \notin {None, "wrong"}  BY <3>1, <3>5, <3>6, ClosureAssumption DEF None
    <3>8. Of(w.asked, f) \in w.asked  BY <2>2 DEF Lost, FilesOf, Of
    <3> QED BY <2>2, <3>7, <3>8 DEF Found, verified_cached_filenames, Lost
  <2>4. ~attempt_partitions(Attempt)
    <3>1. Attempt.requested = FilesOf(w.asked) /\ Attempt.verified = Found /\ Attempt.pending = Missing
      BY DEF Attempt
    <3>2. f \in FilesOf(w.asked) /\ f \notin Missing  BY <2>2 DEF Lost, Missing
    <3> QED BY <2>3, <3>1, <3>2 DEF attempt_partitions
  <2> QED BY <2>1, <2>4 DEF SpoilInv
<1>9. CASE interrupted_between_attempts
  <2>1. at' = "batch_end" /\ w'.err = Interrupt
    BY <1>e, <1>9 DEF interrupted_between_attempts, WorkFields
  <2> QED BY <2>1 DEF SpoilInv, IsError, Interrupt, Error
<1>10. ~acquire_prefetch_batches  BY <1>e, <1>r, <1>s, CountFacts DEF SpoilInv
<1>11. ~construct_frozen_local_repository  BY <1>e, <1>r, <1>w, ConstructFacts
<1>12. ~validate_local_repository  BY <1>r, <1>w DEF validate_local_repository
<1>13. ~restore_outer_owner  BY <1>w DEF restore_outer_owner
<1>14. ~seal_closure  BY <1>r, <1>w DEF seal_closure
<1>15. ~closure_step_fails  BY <1>r DEF closure_step_fails
<1> QED
  BY <1>e, <1>1, <1>2, <1>3, <1>4, <1>5, <1>6, <1>7, <1>8, <1>9, <1>10, <1>11, <1>12, <1>13, <1>14, <1>15
     DEF prepare_repository_closure

LEMMA SealableKeeps ==
  ASSUME PlanHolds, ClosureStep
  PROVE  Sealable'
<1> USE DEF PlanHolds
<1>e. Evidence(ev) /\ DOMAIN w = WorkFields /\ prepare_repository_closure  BY DEF ShapeInv, ClosureStep
<1> SUFFICES ASSUME at' \in Complete  PROVE Sealable'
  BY DEF Sealable
<1>r. \A e, error : ~raise_closure_failure(e, error)  BY DEF raise_closure_failure, Complete
<1>0. at' \in Resolved  BY DEF Complete, Resolved
<1>1. CASE construct_frozen_local_repository
  <2>1. /\ require_complete_verified_package_set(cache, ev.packages, ev.progress)
        /\ ev'.packages = ev.packages /\ ev'.progress = ev.progress
        /\ ev'.summary = summarize_package_progress(ev.progress)
        /\ ev'.cached_before = ev.cache.audit.reused
        /\ ev'.cache.audit = ev.cache.audit /\ ev'.cache.reused = ev.cache.reused
        /\ ev'.cache.downloaded = Cardinality(ev.packages) - ev.cache.reused
        /\ ev'.cache.verified = Cardinality(ev.packages) /\ ev'.cache.pending = 0
    BY <1>1, <1>e, <1>r, ConstructFacts
  <2>2. summarize_package_progress(ev.progress) =
          [resolved |-> Cardinality(ev.packages), verified |-> Cardinality(ev.packages), pending |-> 0]
    BY <2>1 DEF require_complete_verified_package_set
  <2> QED BY <2>1, <2>2 DEF Sealable
<1>2. CASE validate_local_repository \/ restore_outer_owner \/ seal_closure
  <2>1. /\ at \in {"validate", "handoff", "seal"}
        /\ ev'.packages = ev.packages /\ ev'.progress = ev.progress
        /\ ev'.summary = ev.summary /\ ev'.cached_before = ev.cached_before
        /\ ev'.cache.audit = ev.cache.audit /\ ev'.cache.reused = ev.cache.reused
        /\ ev'.cache.downloaded = ev.cache.downloaded /\ ev'.cache.verified = ev.cache.verified
        /\ ev'.cache.pending = ev.cache.pending
    BY <1>2, <1>e, LateFacts DEF Complete
  <2>2. at \in Complete  BY <2>1 DEF Complete
  <2> QED BY <2>1, <2>2 DEF Sealable, PlanInv
<1>3. CASE freeze_resolved_package_evidence  BY <1>3, <1>r DEF freeze_resolved_package_evidence, Complete
<1>4. CASE audit_cache  BY <1>4 DEF audit_cache, AfterBatch, Complete
<1>5. CASE fetch_mirror_attempt  BY <1>5 DEF fetch_mirror_attempt, Complete
<1>6. CASE acquire_batch_with_mirror_failover  BY <1>6, <1>e, AcquireFacts DEF Complete
<1>7. CASE interrupted_between_attempts  BY <1>7 DEF interrupted_between_attempts, Complete
<1>8. CASE acquire_prefetch_batches
  <2>1. at' = AfterBatch(w.batch + 1, w.batches)  BY <1>8, <1>e, <1>r, CountFacts
  <2> QED BY <2>1 DEF AfterBatch, Complete
<1> QED BY <1>0, <1>e, <1>1, <1>2, <1>3, <1>4, <1>5, <1>6, <1>7, <1>8, EarlySteps

LEMMA PlanKeeps ==
  ASSUME PlanHolds, [Next]_vars
  PROVE  PlanInv'
<1>1. CASE ~ClosureStep  BY <1>1, PlanOther
<1>2. CASE ClosureStep
  <2>1. ClosureInv'  BY ClosureKeeps DEF PlanHolds
  <2>2. LedgerShape'  BY <1>2, LedgerKeeps
  <2>3. Typed'  BY <1>2, <2>1, <2>2, TypedKeeps
  <2>4. Planning'  BY <1>2, <2>1, PlanningKeeps
  <2>5. NoRetry' /\ AttemptInv' /\ CacheInv' /\ SpoilInv' /\ Sealable'
    BY <1>2, NoRetryKeeps, AttemptKeeps, CacheKeeps, SpoilKeeps, SealableKeeps
  <2> QED BY <2>2, <2>3, <2>4, <2>5 DEF PlanInv
<1> QED BY <1>1, <1>2

(***************************************************************************)
(* The cause of a failure.                                                 *)
(***************************************************************************)
Apt(cause, s) ==
    /\ cause \in {"no_eligible_mirror", "mirror_configuration"} => s = "mirror-selection"
    /\ cause = "repository_unavailable" => s = "repository-sync"
    /\ cause = "resolution_incomplete" => s = "resolution"
    /\ cause = "resolution_mismatch" => s = "local-validation"
    /\ cause = "verification_incomplete" => s = "acquisition"
KnownWords == {"signature", "mismatch", "eof", "timeout", "404", "tls", "dns", "connection", "missing_file",
               "no_valid_files", "no_mirrors", "no_anchor", "omitted_targets", "different_closure"}
KnownCauses == {"signature_failure", "hash_mismatch", "tls_eof", "timeout", "http_404", "tls_failure", "dns",
                "connection", "missing_file", "verification_incomplete", "no_eligible_mirror",
                "repository_unavailable", "resolution_incomplete", "resolution_mismatch"}
Fitting(s) == {p \in KnownWords \X KnownCauses : p[1] = "no_valid_files" \/ Apt(p[2], s)}
Outside == {"mirror-selection", "repository-sync", "resolution", "local-validation"}

LEMMA AptIs ==
  ASSUME NEW cause, NEW s, Apt(cause, s)
  PROVE  \A i \in DOMAIN CauseSubstages : cause = CauseSubstages[i][1] => s = CauseSubstages[i][2]
<1>1. DOMAIN CauseSubstages = 1..6  BY DEF CauseSubstages
<1>2. \A i \in 1..6 : i = 1 \/ i = 2 \/ i = 3 \/ i = 4 \/ i = 5 \/ i = 6  OBVIOUS
<1>3. /\ CauseSubstages[1] = <<"no_eligible_mirror", "mirror-selection">>
      /\ CauseSubstages[2] = <<"mirror_configuration", "mirror-selection">>
      /\ CauseSubstages[3] = <<"repository_unavailable", "repository-sync">>
      /\ CauseSubstages[4] = <<"resolution_incomplete", "resolution">>
      /\ CauseSubstages[5] = <<"resolution_mismatch", "local-validation">>
      /\ CauseSubstages[6] = <<"verification_incomplete", "acquisition">>
  BY DEF CauseSubstages
<1>4. ASSUME NEW i \in 1..6  PROVE cause = CauseSubstages[i][1] => s = CauseSubstages[i][2]
  <2>1. CASE i = 1  BY <1>3, <2>1 DEF Apt
  <2>2. CASE i = 2  BY <1>3, <2>2 DEF Apt
  <2>3. CASE i = 3  BY <1>3, <2>3 DEF Apt
  <2>4. CASE i = 4  BY <1>3, <2>4 DEF Apt
  <2>5. CASE i = 5  BY <1>3, <2>5 DEF Apt
  <2>6. CASE i = 6  BY <1>3, <2>6 DEF Apt
  <2> QED BY <1>2, <2>1, <2>2, <2>3, <2>4, <2>5, <2>6
<1> QED BY <1>1, <1>4

LEMMA FirstIs ==
  ASSUME NEW U, NEW order \in Seq(U), NEW words, NEW otherwise
  PROVE  \/ FirstOf(words, order, otherwise) = otherwise
         \/ \E p \in U : p[1] \in words /\ FirstOf(words, order, otherwise) = p[2]
<1> DEFINE hits == {i \in DOMAIN order : order[i][1] \in words}
<1>1. CASE hits = {}  BY <1>1 DEF FirstOf
<1>2. CASE hits # {}
  <2>1. hits \in SUBSET Nat  OBVIOUS
  <2>2. PICK m \in hits : m = Min(hits)
    <3> HIDE DEF hits
    <3> QED BY <1>2, <2>1, MinIs
  <2>3. order[m] \in U /\ order[m][1] \in words  OBVIOUS
  <2>4. FirstOf(words, order, otherwise) = order[m][2]  BY <1>2, <2>2 DEF FirstOf
  <2> QED BY <2>3, <2>4
<1> QED BY <1>1, <1>2

LEMMA OrderFits ==
  ASSUME NEW s \in Outside
  PROVE  WordCauses \o SubstageCauses[s] \o LateCauses \in Seq(Fitting(s))
<1>2. WordCauses \in Seq(Fitting(s))
  <2>1. /\ <<"signature", "signature_failure">> \in Fitting(s) /\ <<"mismatch", "hash_mismatch">> \in Fitting(s)
        /\ <<"eof", "tls_eof">> \in Fitting(s) /\ <<"timeout", "timeout">> \in Fitting(s)
        /\ <<"404", "http_404">> \in Fitting(s) /\ <<"tls", "tls_failure">> \in Fitting(s)
        /\ <<"dns", "dns">> \in Fitting(s) /\ <<"connection", "connection">> \in Fitting(s)
    BY DEF Apt, Fitting, KnownWords, KnownCauses
  <2> QED BY <2>1 DEF WordCauses
<1>3. LateCauses \in Seq(Fitting(s))
  <2>1. <<"missing_file", "missing_file">> \in Fitting(s)  BY DEF Apt, Fitting, KnownWords, KnownCauses
  <2>2. <<"no_valid_files", "verification_incomplete">> \in Fitting(s)  BY DEF Fitting, KnownWords, KnownCauses
  <2> QED BY <2>1, <2>2 DEF LateCauses
<1>4. SubstageCauses[s] \in Seq(Fitting(s))
  <2>1. CASE s = "mirror-selection"
    <3>1. <<"no_mirrors", "no_eligible_mirror">> \in Fitting(s)  BY <2>1 DEF Apt, Fitting, KnownWords, KnownCauses
    <3>2. SubstageCauses[s] = << <<"no_mirrors", "no_eligible_mirror">> >>  BY <2>1 DEF SubstageCauses
    <3> QED BY <3>1, <3>2
  <2>2. CASE s = "repository-sync"
    <3>1. <<"no_anchor", "repository_unavailable">> \in Fitting(s)  BY <2>2 DEF Apt, Fitting, KnownWords, KnownCauses
    <3>2. SubstageCauses[s] = << <<"no_anchor", "repository_unavailable">> >>  BY <2>2 DEF SubstageCauses
    <3> QED BY <3>1, <3>2
  <2>3. CASE s = "resolution"
    <3>1. <<"omitted_targets", "resolution_incomplete">> \in Fitting(s)  BY <2>3 DEF Apt, Fitting, KnownWords, KnownCauses
    <3>2. SubstageCauses[s] = << <<"omitted_targets", "resolution_incomplete">> >>  BY <2>3 DEF SubstageCauses
    <3> QED BY <3>1, <3>2
  <2>4. CASE s = "local-validation"
    <3>1. <<"different_closure", "resolution_mismatch">> \in Fitting(s)  BY <2>4 DEF Apt, Fitting, KnownWords, KnownCauses
    <3>2. SubstageCauses[s] = << <<"different_closure", "resolution_mismatch">> >>  BY <2>4 DEF SubstageCauses
    <3> QED BY <3>1, <3>2
  <2> QED BY <2>1, <2>2, <2>3, <2>4 DEF Outside
<1> HIDE DEF WordCauses, LateCauses, Fitting
<1>5. PICK F : F = Fitting(s)  OBVIOUS
<1>6. PICK a : a = WordCauses  OBVIOUS
<1>7. PICK b : b = SubstageCauses[s]  OBVIOUS
<1>8. PICK c : c = LateCauses  OBVIOUS
<1>9. a \in Seq(F) /\ b \in Seq(F) /\ c \in Seq(F)  BY <1>2, <1>3, <1>4, <1>5, <1>6, <1>7, <1>8
<1>10. a \o b \in Seq(F)  BY <1>9
<1>11. (a \o b) \o c \in Seq(F)  BY <1>9, <1>10
<1> QED BY <1>5, <1>6, <1>7, <1>8, <1>11

\* Outside the acquisition a failure has a cause of its substage.
LEMMA CauseFits ==
  ASSUME NEW s \in Outside, NEW error, NEW e,
         LET seen == repository_closure_failure_observation(e, s)
         IN  seen.class = None /\ "no_valid_files" \notin seen.words \cup error.words
  PROVE  LET f == classify_repository_closure_failure(s, error, e)
         IN  /\ f.substage = s /\ Apt(f.cause, s)
             /\ f.context = repository_closure_failure_observation(e, s).context
<1> DEFINE seen == repository_closure_failure_observation(e, s)
           order == WordCauses \o SubstageCauses[s] \o LateCauses
           last == CASE seen.class \in DOMAIN ClassCauses -> ClassCauses[seen.class]
                     [] OTHER -> IF error.kind = "process" THEN "process_failed" ELSE "runtime_error"
           words == seen.words \cup error.words
           first == FirstOf(words, order, last)
           cause == IF error.kind = "interrupt" \/ seen.class = "interrupted" THEN "interrupted" ELSE first
           f == classify_repository_closure_failure(s, error, e)
<1>1. last \in {"process_failed", "runtime_error"}
  <2>1. seen.class \notin DOMAIN ClassCauses  BY DEF ClassCauses, None
  <2> QED BY <2>1
<1>2. Apt(last, s)  BY <1>1 DEF Apt
<1> HIDE DEF last
<1>3. order \in Seq(Fitting(s))  BY OrderFits
<1>4. "no_valid_files" \notin words  OBVIOUS
<1> HIDE DEF words, order
<1>5. Apt(first, s)
  <2>1. \A p \in Fitting(s) : p[1] \in words => Apt(p[2], s)  BY <1>4 DEF Fitting
  <2> HIDE DEF Fitting
  <2>2. \/ first = last \/ \E p \in Fitting(s) : p[1] \in words /\ first = p[2]
    <3>1. PICK o \in Seq(Fitting(s)) : o = order  BY <1>3
    <3> QED BY <3>1, FirstIs
  <2> QED BY <1>2, <2>1, <2>2
<1> HIDE DEF first
<1>6. Apt(cause, s)
  <2>1. Apt("interrupted", s)  BY DEF Apt
  <2> QED BY <1>5, <2>1
<1>7. f = [substage |-> s, context |-> seen.context, cause |-> cause]
  BY DEF classify_repository_closure_failure, first, words, order, last
<1> HIDE DEF cause, seen
<1>8. f.substage = s /\ f.cause = cause /\ f.context = seen.context
  <2> HIDE DEF f
  <2> QED BY <1>7
<1> QED BY <1>6, <1>8 DEF seen

(***************************************************************************)
(* The reader of the evidence.                                             *)
(***************************************************************************)
Spoken(e) == (e.status = "pass" /\ e.failure = NoFailure) \/ e.failure.substage \in Outside

LEMMA ReaderIs ==
  ReaderAcceptsWriter <=>
     \A r \in DOMAIN report : Spoken(report[r]) => validate_repository_closure_report(report[r], r)
BY DEF ReaderAcceptsWriter, Spoken, Outside

\* What a failure outside the acquisition is told about.
Explained(e) ==
    /\ e.failure.substage \in Outside /\ Apt(e.failure.cause, e.failure.substage)
    /\ e.failure.context = repository_closure_failure_observation(e, e.failure.substage).context

LEMMA NoFailureIs == NoFailure.substage \notin Outside
BY DEF NoFailure, None, Outside

LEMMA ExplainedReads ==
  ASSUME NEW e, Explained(e), e.status = "fail", validate_failed_attempts(e)
  PROVE  /\ validate_repository_closure_failure(e) /\ e.failure # NoFailure
         /\ validate_current_repository_closure_failure_consistency(e)
<1> DEFINE f == e.failure
           noContext == f.context = NothingSeen.context
<1>1. e.failure # NoFailure  BY NoFailureIs DEF Explained
<1>2. validate_repository_closure_failure(e)  BY <1>1 DEF validate_repository_closure_failure
<1>3. \A i \in DOMAIN CauseSubstages : f.cause = CauseSubstages[i][1] => f.substage = CauseSubstages[i][2]
  BY AptIs DEF Explained
<1>4. f.substage # "acquisition" /\ f.substage \in Outside  BY DEF Explained, Outside
<1>5. CASE f.substage = "repository-sync" /\ e.anchor.status = "fail"
  <2>1. f.context = [batch |-> 0, attempt |-> Len(e.anchor.attempts)]
    <3> DEFINE o == repository_closure_failure_observation(e, f.substage)
    <3>1. o = [context |-> [batch |-> 0, attempt |-> Len(e.anchor.attempts)],
               words |-> Last(e.anchor.attempts), class |-> None]
      BY <1>4, <1>5 DEF repository_closure_failure_observation
    <3> HIDE DEF o
    <3>2. o.context = [batch |-> 0, attempt |-> Len(e.anchor.attempts)]  BY <3>1
    <3> QED BY <3>2 DEF Explained, o
  <2> QED BY <1>1, <1>2, <1>3, <1>5, <2>1 DEF validate_current_repository_closure_failure_consistency
<1>6. CASE ~(f.substage = "repository-sync" /\ e.anchor.status = "fail")
  <2>1. repository_closure_failure_observation(e, f.substage) = NothingSeen
    BY <1>4, <1>6 DEF repository_closure_failure_observation
  <2>2. noContext  BY <2>1 DEF Explained
  <2> QED BY <1>1, <1>2, <1>3, <1>4, <1>6, <2>2 DEF validate_current_repository_closure_failure_consistency
<1> QED BY <1>5, <1>6

\* Before the resolution the evidence is empty.
LEMMA EarlyReads ==
  ASSUME NEW e, NEW r, e.run = r, e.status = "fail", e.packages = {}, e.progress = <<>>,
         e.cache.attempts = <<>>, e.cache.pending = -1,
         e.summary = summarize_package_progress(e.progress), Explained(e)
  PROVE  validate_repository_closure_report(e, r)
<1>1. FilesOf(e.packages) = {} /\ DOMAIN e.progress = {} /\ DOMAIN e.cache.attempts = {}  BY DEF FilesOf
<1>2. validate_package_progress_evidence(e)
  <2>1. Cardinality(FilesOf(e.packages)) = Cardinality(e.packages)  BY <1>1
  <2> QED BY <1>1, <2>1 DEF validate_package_progress_evidence
<1>3. validate_failed_attempts(e)  BY <1>1 DEF validate_failed_attempts
<1>4. /\ validate_repository_closure_failure(e)
      /\ validate_current_repository_closure_failure_consistency(e)
  BY <1>3, ExplainedReads
<1> QED BY <1>2, <1>4 DEF validate_repository_closure_report

\* Once the local repository is built every package is verified.
LEMMA CompleteLedger ==
  ASSUME ClosureInv, PlanInv, at \in Complete
  PROVE  /\ \A f \in DOMAIN ev.progress : IsVerified(f)
         /\ validate_package_progress_evidence(ev)
<1>p. at \in Resolved  BY DEF Complete, Resolved
<1>1. Sound(ev.packages) /\ DOMAIN ev.progress = FilesOf(ev.packages)  BY <1>p, ClosureIsSound
<1>2. /\ IsFiniteSet(FilesOf(ev.packages)) /\ Cardinality(FilesOf(ev.packages)) = Cardinality(ev.packages)
  BY <1>1, FilesFinite
<1>3. /\ ev.summary = summarize_package_progress(ev.progress)
      /\ ev.summary = [resolved |-> Cardinality(ev.packages), verified |-> Cardinality(ev.packages), pending |-> 0]
  BY DEF PlanInv, Sealable
<1> DEFINE verified == {f \in DOMAIN ev.progress : ev.progress[f].state \in VerifiedStates}
           rest == DOMAIN ev.progress \ verified
<1>4. Cardinality(rest) = 0
  <2>1. summarize_package_progress(ev.progress) =
           [resolved |-> Cardinality(DOMAIN ev.progress), verified |-> Cardinality(verified),
            pending |-> Cardinality(rest)]
    BY DEF summarize_package_progress
  <2> HIDE DEF rest, verified
  <2>2. ev.summary.pending = Cardinality(rest) /\ ev.summary.pending = 0
    <3>0. ev.summary = [resolved |-> Cardinality(DOMAIN ev.progress), verified |-> Cardinality(verified),
                        pending |-> Cardinality(rest)]
      BY <1>3, <2>1, Zenon
    <3>1. ev.summary.pending = Cardinality(rest)  BY <3>0
    <3>2. ev.summary.pending = 0  BY <1>3
    <3> QED BY <3>1, <3>2
  <2> QED BY <2>2
<1>5. rest = {}
  <2>1. IsFiniteSet(rest)  BY <1>1, <1>2, FS_Subset
  <2> HIDE DEF rest
  <2> QED BY <1>4, <2>1, FS_EmptySet
<1>6. \A f \in DOMAIN ev.progress : IsVerified(f)  BY <1>5 DEF IsVerified
<1>7. ASSUME NEW f \in DOMAIN ev.progress
      PROVE  LET p == ev.progress[f]
             IN  CASE p.state = "downloaded_verified" -> p.batch >= 1 /\ p.attempt >= 1 /\ p.class = None
                   [] p.state = "failed" -> p.batch >= 1 /\ p.attempt >= 1 /\ p.class # None
                   [] OTHER -> p.batch = 0 /\ p.attempt = 0 /\ p.class = None
  <2> DEFINE p == ev.progress[f]
  <2>1. \/ \E s \in {"pending", "reused_verified", "corrupt_removed"} : p = ProgressOf(s, 0, 0, None)
        \/ /\ p.state = "downloaded_verified" /\ p.batch \in Nat \ {0} /\ p.attempt \in Nat \ {0} /\ p.class = None
        \/ p.state = "failed"
    BY <1>p DEF PlanInv, LedgerShape
  <2>2. p.state # "failed"  BY <1>6 DEF IsVerified, VerifiedStates
  <2> HIDE DEF p
  <2>3. CASE \E s \in {"pending", "reused_verified", "corrupt_removed"} : p = ProgressOf(s, 0, 0, None)
    <3>1. p.state \in {"pending", "reused_verified", "corrupt_removed"} /\ p.batch = 0 /\ p.attempt = 0 /\ p.class = None
      BY <2>3 DEF ProgressOf
    <3>2. p.state # "failed" /\ p.state # "downloaded_verified"  BY <3>1
    <3>3. (CASE p.state = "downloaded_verified" -> p.batch >= 1 /\ p.attempt >= 1 /\ p.class = None
            [] p.state = "failed" -> p.batch >= 1 /\ p.attempt >= 1 /\ p.class # None
            [] OTHER -> p.batch = 0 /\ p.attempt = 0 /\ p.class = None)
      BY <3>1, <3>2
    <3> QED BY <3>3 DEF p
  <2>4. CASE p.state = "downloaded_verified" /\ p.batch \in Nat \ {0} /\ p.attempt \in Nat \ {0} /\ p.class = None
    <3>1. p.batch >= 1 /\ p.attempt >= 1  BY <2>4
    <3>3. (CASE p.state = "downloaded_verified" -> p.batch >= 1 /\ p.attempt >= 1 /\ p.class = None
            [] p.state = "failed" -> p.batch >= 1 /\ p.attempt >= 1 /\ p.class # None
            [] OTHER -> p.batch = 0 /\ p.attempt = 0 /\ p.class = None)
      BY <2>4, <3>1
    <3> QED BY <3>3 DEF p
  <2> QED BY <2>1, <2>2, <2>3, <2>4
<1>8. validate_package_progress_evidence(ev)
  BY <1>1, <1>2, <1>3, <1>7 DEF validate_package_progress_evidence
<1> QED BY <1>6, <1>8

LEMMA EvidenceSame ==
  ASSUME NEW d, NEW e, d.packages = e.packages, d.progress = e.progress, d.summary = e.summary,
         validate_package_progress_evidence(d)
  PROVE  validate_package_progress_evidence(e)
BY DEF validate_package_progress_evidence

\* The totals and the ledger at the end of the acquisition.
LEMMA CompleteAttempts ==
  ASSUME ClosureInv, PlanInv, at \in Complete
  PROVE  validate_failed_attempts(ev)
<1>1. /\ ev.cache.downloaded = Cardinality(ev.packages) - ev.cache.reused
      /\ ev.cache.verified = Cardinality(ev.packages) /\ ev.cache.pending = 0
      /\ ev.summary = [resolved |-> Cardinality(ev.packages), verified |-> Cardinality(ev.packages), pending |-> 0]
  BY DEF PlanInv, Sealable
<1>2. ev.summary.verified = Cardinality(ev.packages) /\ ev.summary.pending = 0  BY <1>1
<1>3. /\ \A i \in DOMAIN ev.cache.attempts : AttemptOK(ev.cache.attempts[i])
      /\ Contiguous(ev.cache.attempts)
      /\ \A file \in DOMAIN ev.progress : ToldByLast(file)
  BY DEF PlanInv, AttemptInv, InOrder, Planned, Resolved, Complete
<1>4. \A i \in DOMAIN ev.cache.attempts : attempt_partitions(ev.cache.attempts[i])
  BY <1>3 DEF AttemptOK
<1> HIDE DEF Contiguous
<1>5. \A file \in DOMAIN ev.progress :
              LET of == {i \in DOMAIN ev.cache.attempts : file \in ev.cache.attempts[i].requested}
                  a == ev.cache.attempts[Max(of)]
              IN  of # {} => ev.progress[file] =
                                IF file \in a.verified
                                THEN ProgressOf("downloaded_verified", a.batch, a.attempt, None)
                                ELSE ProgressOf("failed", a.batch, a.attempt, a.class)
  BY <1>3 DEF ToldByLast, Asking
<1> QED BY <1>1, <1>2, <1>3, <1>4, <1>5 DEF validate_failed_attempts

LEMMA ErrorWords ==
  /\ \A words : Message(words).words = words
  /\ \A text : Failed(text).words = text
  /\ Interrupt.words = {}
BY DEF Message, Failed, Interrupt, Error

\* A failure outside the acquisition is explained by what was raised.
LEMMA RaisedIsExplained ==
  ASSUME NEW e, NEW error, Evidence(e), raise_closure_failure(e, error), Substage[at] \in Outside,
         "no_valid_files" \notin error.words,
         e.anchor.status = "fail" => "no_valid_files" \notin Last(e.anchor.attempts)
  PROVE  Explained(ev')
<1> DEFINE s == Substage[at]
           o == repository_closure_failure_observation(e, s)
<1>1. s # "acquisition" /\ s \in Outside  BY DEF Outside
<1>2. /\ ev'.failure = classify_repository_closure_failure(s, error, e)
      /\ ev'.anchor = e.anchor /\ ev'.cache = e.cache
  BY RaiseFacts
<1> HIDE DEF s
<1>3. o.class = None /\ "no_valid_files" \notin o.words \cup error.words
  <2>1. CASE s = "repository-sync" /\ e.anchor.status = "fail"
    <3>1. o = [context |-> [batch |-> 0, attempt |-> Len(e.anchor.attempts)],
               words |-> Last(e.anchor.attempts), class |-> None]
      BY <1>1, <2>1 DEF repository_closure_failure_observation
    <3> HIDE DEF o
    <3>2. o.class = None /\ o.words = Last(e.anchor.attempts)  BY <3>1
    <3> QED BY <2>1, <3>2
  <2>2. CASE ~(s = "repository-sync" /\ e.anchor.status = "fail")
    <3>1. o = NothingSeen  BY <1>1, <2>2 DEF repository_closure_failure_observation
    <3> HIDE DEF o
    <3>2. o.class = None /\ o.words = {}  BY <3>1 DEF NothingSeen
    <3> QED BY <3>2
  <2> QED BY <2>1, <2>2
<1>4. PICK f : f = classify_repository_closure_failure(s, error, e)  OBVIOUS
<1>5. f.substage = s /\ Apt(f.cause, s) /\ f.context = o.context
  <2> HIDE DEF Apt
  <2>1. LET g == classify_repository_closure_failure(s, error, e)
        IN  g.substage = s /\ Apt(g.cause, s) /\ g.context = o.context
    BY <1>1, <1>3, CauseFits
  <2> QED BY <1>4, <2>1
<1>6. repository_closure_failure_observation(ev', s) = o
  BY <1>2 DEF repository_closure_failure_observation
<1> HIDE DEF o
<1> QED BY <1>1, <1>2, <1>4, <1>5, <1>6 DEF Explained

\* What pacman or the scripts say never holds the words of another substage.
LEMMA LastProbe ==
  ASSUME NEW s \in Seq(Texts \cup {{}}), NEW text \in Texts
  PROVE  "no_valid_files" \notin Last(Append(s, text)) /\ "no_valid_files" \notin text
<1>1. "no_valid_files" \notin text  BY ClosureAssumption
<1>2. Last(Append(s, text)) = text  BY DEF Last
<1> QED BY <1>1, <1>2

Fine == \/ report' = report
        \/ /\ report' = Put(report, run, ev')
           /\ Spoken(ev') => validate_repository_closure_report(ev', run)

LEMMA AttemptsSame ==
  ASSUME NEW d, NEW e, d.cache = e.cache, d.progress = e.progress, d.summary = e.summary,
         validate_failed_attempts(d)
  PROVE  validate_failed_attempts(e)
BY DEF validate_failed_attempts

LEMMA RaiseIsFine ==
  ASSUME ShapeInv, ClosureInv, PlanInv, at \in DOMAIN Substage,
         NEW e, NEW error, Evidence(e), raise_closure_failure(e, error),
         Substage[at] \in Outside =>
            /\ "no_valid_files" \notin error.words
            /\ e.anchor.status = "fail" => "no_valid_files" \notin Last(e.anchor.attempts)
            /\ e.run = ev.run /\ e.status = ev.status /\ e.packages = ev.packages /\ e.progress = ev.progress
            /\ e.cache = ev.cache
  PROVE  Fine
<1>1. /\ report' = Put(report, run, ev')
      /\ ev'.failure = classify_repository_closure_failure(Substage[at], error, e)
      /\ ev'.summary = summarize_package_progress(e.progress)
      /\ ev'.run = e.run /\ ev'.status = e.status
      /\ ev'.packages = e.packages /\ ev'.progress = e.progress /\ ev'.cache = e.cache
  BY RaiseFacts
<1>2. ev'.failure.substage = Substage[at]
  BY <1>1 DEF classify_repository_closure_failure
<1>3. CASE Substage[at] \notin Outside
  <2>1. Substage[at] # None  BY SubstageIs DEF Substage, None
  <2>2. NoFailure.substage = None  BY DEF NoFailure
  <2>3. ev'.failure # NoFailure  BY <1>2, <2>1, <2>2
  <2> QED BY <1>1, <1>2, <1>3, <2>3 DEF Fine, Spoken
<1>4. CASE Substage[at] \in Outside
  <2>1. Explained(ev')  BY <1>4, RaisedIsExplained
  <2>2. /\ ev'.run = ev.run /\ ev'.status = ev.status /\ ev'.packages = ev.packages
        /\ ev'.progress = ev.progress /\ ev'.cache = ev.cache
        /\ ev'.summary = summarize_package_progress(ev'.progress)
    BY <1>1, <1>4
  <2>3. at \in {"mirrors", "probe", "freeze", "resolve", "validate"}
    BY <1>4, SubstageIs DEF Substage, Outside
  <2>4. ev.status = "fail"  BY DEF ClosureInv, Unfinished
  <2>5. CASE at \in {"mirrors", "probe", "freeze"}
    <3>1. ev = NewEvidence(run)  BY <2>5 DEF ClosureInv, Begun
    <3>2. /\ ev.run = run /\ ev.packages = {} /\ ev.progress = <<>> /\ ev.cache.attempts = <<>>
          /\ ev.cache.pending = -1
      BY <3>1 DEF NewEvidence
    <3>3. validate_repository_closure_report(ev', run)  BY <2>1, <2>2, <2>4, <3>2, EarlyReads
    <3> QED BY <1>1, <3>3 DEF Fine
  <2>6. CASE at = "resolve"
    <3>1. /\ ev.run = run /\ ev.packages = {} /\ ev.progress = <<>> /\ ev.cache.attempts = <<>>
          /\ ev.cache.pending = -1
      BY <2>6 DEF ClosureInv, Anchored, NothingYet
    <3>2. validate_repository_closure_report(ev', run)  BY <2>1, <2>2, <2>4, <3>1, EarlyReads
    <3> QED BY <1>1, <3>2 DEF Fine
  <2>7. CASE at = "validate"
    <3>1. at \in Complete /\ ev.run = run  BY <2>7 DEF Complete, ClosureInv, Anchored, Resolved
    <3>2. ev.summary = summarize_package_progress(ev.progress)  BY <3>1 DEF PlanInv, Sealable
    <3>3. ev'.summary = ev.summary  BY <2>2, <3>2
    <3>4. validate_package_progress_evidence(ev')  BY <2>2, <3>1, <3>3, CompleteLedger, EvidenceSame
    <3>5. validate_failed_attempts(ev')
      <4>1. validate_failed_attempts(ev)  BY <3>1, CompleteAttempts
      <4> QED BY <2>2, <3>3, <4>1, AttemptsSame
    <3>6. /\ validate_repository_closure_failure(ev')
          /\ validate_current_repository_closure_failure_consistency(ev')
      BY <2>1, <2>2, <2>4, <3>5, ExplainedReads
    <3>7. validate_repository_closure_report(ev', run)
      BY <2>2, <2>4, <3>1, <3>4, <3>6 DEF validate_repository_closure_report
    <3> QED BY <1>1, <3>7 DEF Fine
  <2> QED BY <2>3, <2>5, <2>6, <2>7
<1> QED BY <1>3, <1>4

(***************************************************************************)
(* Every report of the closure is fine.                                    *)
(***************************************************************************)
\* A report written on the way tells no end yet.
LEMMA UnspokenIsFine ==
  ASSUME ClosureInv, at \in DOMAIN Substage, report' = Put(report, run, ev'),
         ev'.status = ev.status, ev'.failure = ev.failure
  PROVE  Fine
<1>1. ev'.status = "fail" /\ ev'.failure = NoFailure  BY DEF ClosureInv, Unfinished
<1>2. ~Spoken(ev')  BY <1>1, NoFailureIs DEF Spoken
<1> QED BY <1>2 DEF Fine

\* The evidence that closes the gate passes the independent validation.
LEMMA PassReads ==
  ASSUME ShapeInv, ClosureInv, PlanInv, at = "seal", NEW e, require_buildiso_security_boundary(e),
         e.run = ev.run, e.repositories = ev.repositories, e.packages = ev.packages,
         e.anchor = ev.anchor, e.progress = ev.progress, e.summary = ev.summary,
         e.cached_before = ev.cached_before,
         e.cache.audit = ev.cache.audit, e.cache.reused = ev.cache.reused,
         e.cache.mirrors = ev.cache.mirrors, e.cache.batches = ev.cache.batches,
         e.cache.completed = ev.cache.completed, e.cache.attempts = ev.cache.attempts
  PROVE  validate_repository_closure_report(e, run)
<1>1. at \in Complete /\ at \in Planned /\ at \in Resolved  BY DEF Complete, Planned, Resolved
<1>2. e.run = run /\ sync \in Dbs /\ e.repositories = sync  BY <1>1 DEF ClosureInv, Anchored
<1>3. e.status = "pass" /\ e.failure = NoFailure  BY DEF require_buildiso_security_boundary
<1>4. validate_package_progress_evidence(e)  BY <1>1, CompleteLedger, EvidenceSame
<1>5. validate_repository_closure_failure(e)  BY <1>3 DEF validate_repository_closure_failure
<1>6. validate_passing_boundary(e)
  <2>1. e.repositories # None  BY <1>2, ClosureAssumption DEF None
  <2>2. /\ e.anchor.status = "pass" /\ e.anchor.locked
        /\ e.anchor.selected = Len(e.anchor.attempts) /\ Last(e.anchor.attempts) = {}
    BY <1>1 DEF ClosureInv, Anchored
  <2> QED BY <2>1, <2>2 DEF require_buildiso_security_boundary, validate_passing_boundary
<1>p. /\ ev.cache.audit.status = "pass" /\ ev.cache.audit.reused \cap ev.cache.audit.pending = {}
      /\ ev.cache.audit.reused \cup ev.cache.audit.pending = FilesOf(ev.packages)
      /\ ev.cache.audit.corrupt \subseteq FilesOf(ev.packages)
      /\ ev.cache.reused = Cardinality(ev.cache.audit.reused)
      /\ ev.cache.mirrors = ordered_prefetch_mirrors(ev.anchor.selected)
      /\ w.batches = plan_package_prefetch_batches({p \in ev.packages : p.file \in ev.cache.audit.pending})
      /\ ev.cache.batches = Len(w.batches) /\ ev.cache.completed = w.batch - 1
      /\ w.batch = Len(w.batches) + 1
  BY <1>1 DEF PlanInv, Planning
<1>7. validate_passing_audit(e)
  <2>1. ev.cached_before = ev.cache.audit.reused  BY <1>1 DEF PlanInv, Sealable
  <2> QED BY <1>p, <2>1 DEF validate_passing_audit
<1>8. validate_passing_prefetch(e)
  <2> DEFINE as == e.cache.attempts
             m == e.cache.mirrors
             batches == plan_package_prefetch_batches({p \in e.packages : p.file \in e.cache.audit.pending})
             of(b) == {i \in DOMAIN as : as[i].batch = b}
  <2>1. batches = w.batches  BY <1>p
  <2>2. Len(w.batches) \in Nat /\ DOMAIN w.batches = 1..Len(w.batches)
    BY <1>1, BatchFacts DEF ClosureInv, PlanInv
  <2>3. e.cache.batches = Len(batches) /\ e.cache.completed = Len(batches)  BY <1>p, <2>1, <2>2
  <2>4. /\ m \in Seq(Nat) /\ Len(m) >= 1 /\ Len(m) <= MaxAttempts /\ m[1] = e.anchor.selected
        /\ \A i \in 1..Len(m) - 1 : m[i] < m[i + 1]
    <3>1. PICK a : a = ev.anchor.selected  OBVIOUS
    <3>2. a \in 1..Mirrors /\ m = ordered_prefetch_mirrors(a)  BY <1>1, <1>p, <3>1 DEF ClosureInv, Anchored
    <3> HIDE DEF m
    <3> QED BY <3>1, <3>2, MirrorsFollow
  <2>5. m # <<>> /\ DOMAIN m = 1..Len(m)  BY <2>4
  <2>6. as = ev.cache.attempts  OBVIOUS
  <2>7. /\ \A i \in DOMAIN as : AttemptOK(as[i])
        /\ Contiguous(as)
        /\ \A b \in 1..w.batch - 1 : Done(b)
    BY <1>1, <2>6 DEF PlanInv, AttemptInv, InOrder, Complete
  <2>8. ASSUME NEW i \in DOMAIN as
        PROVE  /\ as[i].batch \in DOMAIN batches /\ as[i].attempt \in DOMAIN m
               /\ as[i].verified \cup as[i].pending \subseteq as[i].requested
               /\ as[i].requested \subseteq FilesOf(Range(batches[as[i].batch]))
               /\ as[i].result = "pass" => as[i].class = None
    BY <2>1, <2>2, <2>5, <2>7 DEF AttemptOK, attempt_partitions
  <2>9. ASSUME NEW b \in DOMAIN batches
        PROVE  /\ of(b) # {} /\ as[Min(of(b))].requested = FilesOf(Range(batches[b]))
               /\ as[Max(of(b))].result = "pass" /\ as[Max(of(b))].pending = {}
    <3>1. b \in 1..w.batch - 1  BY <1>p, <2>1, <2>2
    <3>2. of(b) = AttemptsOf(b)  BY <2>6 DEF AttemptsOf, Those
    <3>3. Done(b)  BY <2>7, <3>1
    <3> HIDE DEF of, as, batches
    <3> QED BY <2>1, <2>6, <3>2, <3>3 DEF Done, First
  <2> HIDE DEF batches, Contiguous
  <2>10. /\ m # <<>> /\ Len(m) <= MaxAttempts /\ m[1] = e.anchor.selected
         /\ \A i \in 1..Len(m) - 1 : m[i] < m[i + 1]
    BY <2>4, <2>5
  <2> QED BY <2>3, <2>7, <2>8, <2>9, <2>10 DEF validate_passing_prefetch, batches
<1> QED BY <1>2, <1>3, <1>4, <1>5, <1>6, <1>7, <1>8 DEF validate_repository_closure_report

LEMMA ReportIsFine ==
  ASSUME PlanHolds, ClosureStep
  PROVE  Fine
<1> USE DEF PlanHolds
<1>e. Evidence(ev) /\ DOMAIN w = WorkFields /\ prepare_repository_closure  BY DEF ShapeInv, ClosureStep
<1>s. at \in DOMAIN Substage => ev.status = "fail" /\ ev.failure = NoFailure  BY DEF ClosureInv, Unfinished
<1>m. \A words : Message(words).words = words  BY ErrorWords
\* A step that raises what it found, without touching the evidence.
<1>r. ASSUME NEW error, raise_closure_failure(ev, error), at \in DOMAIN Substage,
             "no_valid_files" \notin error.words, ev.anchor.status # "fail"
      PROVE  Fine
  BY <1>e, <1>r, RaiseIsFine
<1>a. at \in DOMAIN Substage \ {"mirrors", "probe", "freeze"} => ev.anchor.status # "fail"
  BY SubstageIs DEF ClosureInv, Anchored, Resolved
<1>b. at \in {"mirrors", "probe", "freeze"} => ev.anchor.status # "fail"
  <2>1. (NewEvidence(run)).anchor.status = "pending"  BY DEF NewEvidence
  <2> QED BY <2>1 DEF ClosureInv, Begun
<1>1. CASE setup_closure  BY <1>1 DEF setup_closure, Fine
<1>2. CASE parse_artix_mirror_servers
  <2>1. CASE raise_closure_failure(ev, Message({"no_mirrors"}))
    <3>1. at \in DOMAIN Substage /\ at = "mirrors"  BY <1>2, SubstageIs DEF parse_artix_mirror_servers
    <3>2. "no_valid_files" \notin Message({"no_mirrors"}).words  BY <1>m
    <3> QED BY <1>b, <1>r, <2>1, <3>1, <3>2
  <2>2. CASE UNCHANGED persistent  BY <2>2 DEF persistent, Fine
  <2> QED BY <1>2, <2>1, <2>2 DEF parse_artix_mirror_servers
<1>3. CASE probe_anchor
  <2>0. at = "probe" /\ at \in DOMAIN Substage  BY <1>3, SubstageIs DEF probe_anchor
  <2>1. CASE UNCHANGED persistent  BY <2>1 DEF persistent, Fine
  <2>2. CASE \E text \in Texts :
               raise_closure_failure([ev EXCEPT !.anchor.attempts = Append(w.probes, text), !.anchor.status = "fail"],
                                     Message({"no_anchor"}))
    <3>1. PICK text \in Texts :
             raise_closure_failure([ev EXCEPT !.anchor.attempts = Append(w.probes, text), !.anchor.status = "fail"],
                                   Message({"no_anchor"}))
      BY <2>2
    <3> DEFINE e == [ev EXCEPT !.anchor.attempts = Append(w.probes, text), !.anchor.status = "fail"]
    <3>2. /\ Evidence(e) /\ e.anchor.attempts = Append(w.probes, text)
          /\ e.run = ev.run /\ e.status = ev.status /\ e.packages = ev.packages /\ e.progress = ev.progress
          /\ e.cache = ev.cache
      BY <1>e DEF Evidence, EvFields
    <3>3. raise_closure_failure(e, Message({"no_anchor"}))  BY <3>1
    <3> HIDE DEF e
    <3>4. w.probes \in Seq(Texts \cup {{}})  BY <2>0 DEF ClosureInv, Probing
    <3>5. "no_valid_files" \notin Last(e.anchor.attempts)  BY <3>2, <3>4, LastProbe
    <3>6. "no_valid_files" \notin Message({"no_anchor"}).words  BY <1>m
    <3> QED BY <2>0, <3>2, <3>3, <3>5, <3>6, RaiseIsFine
  <2> QED BY <1>3, <2>1, <2>2 DEF probe_anchor, persistent
<1>4. CASE freeze_repository_sync_directory
  <2>1. at = "freeze" /\ at \in DOMAIN Substage  BY <1>4, SubstageIs DEF freeze_repository_sync_directory
  <2>2. ev'.status = ev.status /\ ev'.failure = ev.failure
    BY <1>e, <1>4 DEF freeze_repository_sync_directory, Evidence, EvFields
  <2>3. report' = Put(report, run, ev')
    BY <1>4 DEF freeze_repository_sync_directory, write_repository_closure_evidence, Put
  <2> QED BY <2>1, <2>2, <2>3, UnspokenIsFine
<1>5. CASE freeze_resolved_package_evidence
  <2>0. at = "resolve" /\ at \in DOMAIN Substage  BY <1>5, SubstageIs DEF freeze_resolved_package_evidence
  <2>1. CASE raise_closure_failure(ev, Message({"omitted_targets"}))
    <3>1. "no_valid_files" \notin Message({"omitted_targets"}).words  BY <1>m
    <3> QED BY <1>a, <1>r, <2>0, <2>1, <3>1
  <2>2. CASE \E packages, progress :
               /\ ev' = [ev EXCEPT !.packages = packages, !.progress = progress,
                                   !.summary = summarize_package_progress(progress)]
               /\ write_repository_closure_evidence(ev')
    <3>1. ev'.status = ev.status /\ ev'.failure = ev.failure  BY <1>e, <2>2 DEF Evidence, EvFields
    <3>2. report' = Put(report, run, ev')  BY <2>2 DEF write_repository_closure_evidence, Put
    <3> QED BY <2>0, <3>1, <3>2, UnspokenIsFine
  <2> QED BY <1>5, <2>1, <2>2 DEF freeze_resolved_package_evidence
<1>6. CASE audit_cache
  <2>1. at = "audit" /\ ev'.status = ev.status /\ ev'.failure = ev.failure /\ report' = Put(report, run, ev')
    BY <1>e, <1>6, AuditFacts
  <2>2. at \in DOMAIN Substage  BY <2>1, SubstageIs
  <2> QED BY <2>1, <2>2, UnspokenIsFine
<1>7. CASE fetch_mirror_attempt \/ interrupted_between_attempts
  BY <1>7 DEF fetch_mirror_attempt, interrupted_between_attempts, persistent, Fine
<1>8. CASE acquire_batch_with_mirror_failover
  <2>1. at = "record" /\ ev'.status = ev.status /\ ev'.failure = ev.failure
        /\ (report' = report \/ report' = Put(report, run, ev'))
    BY <1>e, <1>8, AcquireFacts
  <2>2. at \in DOMAIN Substage  BY <2>1, SubstageIs
  <2>3. CASE report' = report  BY <2>3 DEF Fine
  <2>4. CASE report' = Put(report, run, ev')  BY <2>1, <2>2, <2>4, UnspokenIsFine
  <2> QED BY <2>1, <2>3, <2>4
<1>9. CASE acquire_prefetch_batches
  <2>0. at = "batch_end" /\ at \in DOMAIN Substage /\ Substage[at] \notin Outside
    <3>1. at = "batch_end"  BY <1>9 DEF acquire_prefetch_batches
    <3> QED BY <3>1, SubstageIs DEF Substage, Outside
  <2>1. CASE \E e, error : Evidence(e) /\ raise_closure_failure(e, error)
    BY <2>0, <2>1, RaiseIsFine
  <2>2. CASE ev'.status = ev.status /\ ev'.failure = ev.failure /\ report' = Put(report, run, ev')
    BY <2>0, <2>2, UnspokenIsFine
  <2> QED BY <1>e, <1>9, <2>1, <2>2, CountFacts
<1>10. CASE construct_frozen_local_repository
  <2>0. at = "construct" /\ at \in DOMAIN Substage /\ Substage[at] \notin Outside
    <3>1. at = "construct"  BY <1>10 DEF construct_frozen_local_repository
    <3> QED BY <3>1, SubstageIs DEF Substage, Outside
  <2>1. CASE \E error : raise_closure_failure(ev, error)  BY <1>e, <2>0, <2>1, RaiseIsFine
  <2>2. CASE report' = report  BY <2>2 DEF Fine
  <2> QED BY <1>e, <1>10, <2>1, <2>2, ConstructFacts
<1>11. CASE validate_local_repository
  <2>0. at = "validate" /\ at \in DOMAIN Substage  BY <1>11, SubstageIs DEF validate_local_repository
  <2>1. CASE raise_closure_failure(ev, Message({"different_closure"}))
    <3>1. "no_valid_files" \notin Message({"different_closure"}).words  BY <1>m
    <3> QED BY <1>a, <1>r, <2>0, <2>1, <3>1
  <2>2. CASE raise_closure_failure(ev, verify_cached_package_files(ev.packages))
    <3>1. PICK error : error = verify_cached_package_files(ev.packages)  OBVIOUS
    <3>2. \E words \in {{"missing_file"}, {"mismatch", "sha-256"}, {}} : error = Message(words)
      BY <3>1 DEF verify_cached_package_files
    <3>3. "no_valid_files" \notin error.words  BY <1>m, <3>2
    <3>4. raise_closure_failure(ev, error)  BY <2>2, <3>1
    <3> QED BY <1>a, <1>r, <2>0, <3>3, <3>4
  <2>3. CASE UNCHANGED persistent  BY <2>3 DEF persistent, Fine
  <2> QED BY <1>11, <2>1, <2>2, <2>3 DEF validate_local_repository
<1>12. CASE restore_outer_owner  BY <1>12 DEF restore_outer_owner, Fine
<1>13. CASE seal_closure
  <2> DEFINE passed == [ev EXCEPT !.cache.flags = CacheFlags, !.status = "pass", !.failure = NoFailure,
                             !.gate = @ \cup {"cache_source_read_only", "cache_read_only"}]
  <2>0. at = "seal" /\ at \in DOMAIN Substage /\ Substage[at] \notin Outside
    <3>1. at = "seal"  BY <1>13 DEF seal_closure
    <3> QED BY <3>1, SubstageIs DEF Substage, Outside
  <2>f. /\ Evidence(passed)
        /\ passed.run = ev.run /\ passed.repositories = ev.repositories /\ passed.packages = ev.packages
        /\ passed.anchor = ev.anchor /\ passed.progress = ev.progress /\ passed.summary = ev.summary
        /\ passed.cached_before = ev.cached_before
        /\ passed.cache.audit = ev.cache.audit /\ passed.cache.reused = ev.cache.reused
        /\ passed.cache.mirrors = ev.cache.mirrors /\ passed.cache.batches = ev.cache.batches
        /\ passed.cache.completed = ev.cache.completed /\ passed.cache.attempts = ev.cache.attempts
    BY <1>e DEF Evidence, EvFields, LedgerFields
  <2>1. \/ /\ require_buildiso_security_boundary(passed)
           /\ ev' = passed /\ write_repository_closure_evidence(passed)
        \/ raise_closure_failure(passed, Message({}))
    BY <1>13 DEF seal_closure
  <2> HIDE DEF passed
  <2>2. CASE require_buildiso_security_boundary(passed) /\ ev' = passed /\ write_repository_closure_evidence(passed)
    <3>1. report' = Put(report, run, ev')  BY <2>2 DEF write_repository_closure_evidence, Put
    <3>2. validate_repository_closure_report(passed, run)  BY <2>0, <2>2, <2>f, PassReads
    <3> QED BY <2>2, <3>1, <3>2 DEF Fine
  <2>3. CASE raise_closure_failure(passed, Message({}))  BY <2>0, <2>3, <2>f, RaiseIsFine
  <2> QED BY <2>1, <2>2, <2>3
<1>14. CASE closure_step_fails
  <2>0. at \in DOMAIN Substage  BY <1>14 DEF closure_step_fails
  <2>1. PICK error \in {Interrupt} \cup {Failed(t) : t \in Texts} :
           \/ raise_closure_failure(ev, error)
           \/ at = "seal" /\ raise_closure_failure([ev EXCEPT !.status = "pass"], error)
    BY <1>14 DEF closure_step_fails
  <2>2. "no_valid_files" \notin error.words
    <3>1. CASE error = Interrupt  BY <3>1, ErrorWords
    <3>2. CASE \E t \in Texts : error = Failed(t)
      <4>1. PICK t \in Texts : error = Failed(t)  BY <3>2
      <4>2. error.words = t /\ "no_valid_files" \notin t  BY <4>1, ErrorWords, ClosureAssumption
      <4> QED BY <4>2
    <3> QED BY <3>1, <3>2
  <2>3. CASE raise_closure_failure(ev, error)  BY <1>a, <1>b, <1>r, <2>0, <2>2, <2>3
  <2>4. CASE at = "seal" /\ raise_closure_failure([ev EXCEPT !.status = "pass"], error)
    <3>1. Substage[at] \notin Outside  BY <2>4 DEF Substage, Outside
    <3>2. PICK e : e = [ev EXCEPT !.status = "pass"]  OBVIOUS
    <3>3. Evidence(e) /\ raise_closure_failure(e, error)  BY <1>e, <2>4, <3>2 DEF Evidence, EvFields
    <3> QED BY <2>0, <3>1, <3>3, RaiseIsFine
  <2> QED BY <2>1, <2>3, <2>4
<1> QED BY <1>e, <1>1, <1>2, <1>3, <1>4, <1>5, <1>6, <1>7, <1>8, <1>9, <1>10, <1>11, <1>12, <1>13, <1>14
        DEF prepare_repository_closure

LEMMA ReaderKeeps ==
  ASSUME PlanHolds, ReaderAcceptsWriter, [Next]_vars
  PROVE  ReaderAcceptsWriter'
<1>1. \A r \in DOMAIN report : Spoken(report[r]) => validate_repository_closure_report(report[r], r)
  BY ReaderIs
<1>2. Fine \/ report' = report
  BY ReportIsFine, OtherSteps DEF PlanHolds
<1>3. ASSUME NEW r \in DOMAIN report', Spoken(report'[r])
      PROVE  validate_repository_closure_report(report'[r], r)
  <2>1. CASE report' = report  BY <1>1, <1>3, <2>1
  <2>2. CASE report' = Put(report, run, ev') /\ (Spoken(ev') => validate_repository_closure_report(ev', run))
    <3>1. CASE r = run
      <4>1. report'[r] = ev'  BY <2>2, <3>1 DEF Put
      <4> QED BY <1>3, <2>2, <3>1, <4>1
    <3>2. CASE r # run
      <4>1. r \in DOMAIN report /\ report'[r] = report[r]  BY <2>2, <3>2 DEF Put
      <4> QED BY <1>1, <1>3, <4>1
    <3> QED BY <3>1, <3>2
  <2> QED BY <1>2, <2>1, <2>2 DEF Fine
<1> QED BY <1>3 DEF ReaderAcceptsWriter, Spoken, Outside

(***************************************************************************)
(* The invariant of the build.                                             *)
(***************************************************************************)
LEMMA BuildStarts == Init => BuildInv
<1> SUFFICES ASSUME Init  PROVE BuildInv
  OBVIOUS
<1>i. /\ cache \in Caches /\ owner = "user" /\ dirs = {} /\ report = <<>>
      /\ run = 0 /\ at = "dead" /\ ev = NewEvidence(0) /\ w = NoWork
      /\ staged = {} /\ scratch = {} /\ iso = [r \in Runs |-> None]
      /\ result = <<>> /\ cleanup = <<>> /\ left = [r \in Runs |-> {}] /\ loops = {}
      /\ outer = OuterIdle /\ again = 0 /\ it = ItIdle /\ meta = <<>> /\ sums = <<>> /\ latest = 0
  BY DEF Init
<1>d. DOMAIN <<>> = {}  OBVIOUS
<1>o. /\ outer.at = "idle" /\ outer.err = FALSE /\ DOMAIN outer = {"at", "err", "loops"}
      /\ it.at = "idle" /\ it.code = 0 /\ DOMAIN it = {"at", "step", "code"}
  BY <1>i DEF OuterIdle, ItIdle
<1>1. ShapeInv
  <2>1. DOMAIN cache = Files /\ \A f \in Files : DOMAIN cache[f] = {"sha", "sig", "part"}
    BY <1>i, ClosureAssumption
  <2> QED BY <1>i, <1>o, <2>1, NewEvidenceShape, NoWorkShape DEF ShapeInv
<1>2. ProcessInv  BY <1>i, <1>d, <1>o, SubstageIs DEF ProcessInv, Places
<1>3. ProvenInv  BY <1>i, <1>d, <1>o DEF ProvenInv, Reported, SucceededIsProven
<1>4. CleanupIsHonest  BY <1>i, <1>d DEF CleanupIsHonest
<1>5. SumsMatchFiles  BY <1>i, <1>d DEF SumsMatchFiles
<1>6. ClosureInv
  BY <1>i, SubstageIs DEF ClosureInv, Begun, Probing, Anchored, Unfinished, NothingYet, Frozen, Closed, Resolved
<1>7. PlanInv
  <2>1. ev.progress = <<>>  BY <1>i DEF NewEvidence
  <2> QED BY <1>i, <1>d, <2>1, SubstageIs
      DEF PlanInv, Typed, LedgerShape, Planning, NoRetry, AttemptInv, CacheInv, SpoilInv, Sealable, Resolved, Planned, Complete
<1>8. ReaderAcceptsWriter  BY <1>i, <1>d DEF ReaderAcceptsWriter
<1> QED BY <1>1, <1>2, <1>3, <1>4, <1>5, <1>6, <1>7, <1>8 DEF BuildInv

LEMMA BuildKeeps ==
  ASSUME BuildInv, [Next]_vars
  PROVE  BuildInv'
<1>1. ShapeInv /\ ProcessInv /\ ProvenInv /\ ClosureInv /\ PlanInv  BY DEF BuildInv
<1>2. ShapeInv'  BY <1>1, ShapeKeeps
<1>3. ProcessInv'  BY <1>1, ProcessKeeps
<1>4. ProvenInv'  BY <1>1, ProvenKeeps
<1>5. CleanupIsHonest'  BY <1>1, CleanupKeeps DEF BuildInv
<1>6. SumsMatchFiles'  BY <1>1, <1>3, SumsKeep DEF BuildInv
<1>7. ClosureInv'  BY <1>1, ClosureKeeps
<1>8. PlanInv'  BY <1>1, PlanKeeps DEF PlanHolds
<1>9. ReaderAcceptsWriter'  BY <1>1, ReaderKeeps DEF PlanHolds, BuildInv
<1> QED BY <1>2, <1>3, <1>4, <1>5, <1>6, <1>7, <1>8, <1>9 DEF BuildInv

\* The invariant holds in every state (the whole of build_iteration.py and
\* context.py: the harness, the outer and the inner process, the closure).
THEOREM BuildInvariant == Spec => []BuildInv
<1>1. BuildInv /\ [Next]_vars => BuildInv'  BY BuildKeeps
<1> QED BY <1>1, BuildStarts, PTL DEF Spec

\* What the ledger says of the cache, wherever the closure stands.
LEMMA LedgerIsTrue ==
  ASSUME BuildInv
  PROVE  LedgerMatchesCache
<1>1. CASE at \in Resolved
  <2>1. at \in DOMAIN Substage => at # "closed"  BY SubstageIs
  <2>2. \A f \in DOMAIN ev.progress \ (touched \cup w.spoiled) :
           at \in DOMAIN Substage /\ IsVerified(f) => Good(f)
    BY <1>1, <2>1 DEF BuildInv, PlanInv, CacheInv, Excepted
  <2>3. at \in DOMAIN Substage /\ w.spoiled # {} => at = "record" \/ (at = "batch_end" /\ IsError(w.err))
    BY DEF BuildInv, PlanInv, SpoilInv
  <2> QED BY <2>2, <2>3 DEF IsVerified, Good, LedgerMatchesCache
<1>2. CASE at \in DOMAIN Substage \ Resolved
  <2>1. at \in {"mirrors", "probe", "freeze", "resolve"}  BY <1>2, SubstageIs DEF Resolved
  <2>2. (NewEvidence(run)).progress = <<>>  BY DEF NewEvidence
  <2>3. ev.progress = <<>>  BY <2>1, <2>2 DEF BuildInv, ClosureInv, Begun, NothingYet
  <2>4. DOMAIN ev.progress = {}  BY <2>3
  <2>5. w.spoiled = {}  BY <1>2, <2>1 DEF BuildInv, PlanInv, SpoilInv
  <2> QED BY <2>4, <2>5 DEF LedgerMatchesCache
<1> QED BY <1>1, <1>2 DEF LedgerMatchesCache

LEMMA BuildIsTyped ==
  ASSUME BuildInv
  PROVE  BuildTypeOK
<1>1. ShapeInv /\ ProcessInv /\ Typed  BY DEF BuildInv, PlanInv
<1>2. /\ dirs \in SUBSET Runs /\ DOMAIN report \in SUBSET Runs /\ staged \in SUBSET Runs
      /\ scratch \in SUBSET Runs /\ DOMAIN cleanup \in SUBSET Runs /\ DOMAIN result \in SUBSET Runs
      /\ loops \in SUBSET Runs
  BY <1>1 DEF ProcessInv
<1>3. \A f \in DOMAIN ev.progress : f \in Files /\ ev.progress[f].state \in Progress  BY <1>1 DEF Typed
<1> QED BY <1>1, <1>2, <1>3 DEF BuildTypeOK, ShapeInv, ProcessInv, Places

\* Whatever fails, is interrupted, crashes or is started again, the records of a
\* run say what happened (prepare_repository_closure, build_iso,
\* validate_repository_closure_report, build_iteration.py main).
THEOREM RunRecordHolds == Spec => []RunRecordIsHonest
<1>1. BuildInv => RunRecordIsHonest
  BY BuildIsTyped, LedgerIsTrue DEF BuildInv, ProvenInv, RunRecordIsHonest
<1> QED BY <1>1, BuildInvariant, PTL

LEMMA StartIsGuarded ==
  ASSUME BuildInv, [Next]_vars, at = "closed", at' = "building"
  PROVE  /\ \A p \in Resolve[report[run].repositories] : cache[p.file].sha = p.sha
         /\ Targets \subseteq {p.name : p \in ev.packages} /\ ev.packages = Resolve[sync]
         /\ RequiredMounts \subseteq ro /\ owner = "user"
<1>1. require_live_buildiso_security_boundary(ev)
  <2>1. CASE ClosureStep
    <3>1. at' \in DOMAIN Substage \cup {"closed", "raised"}
      BY <2>1, ClosureMoves DEF ClosureStep, BuildInv, ShapeInv, EvShape, WorkShape
    <3> QED BY <3>1, SubstageIs
  <2>2. CASE InnerStep
    BY <2>2 DEF InnerStep, build_iso_inner, run_buildiso_after_security_boundary, buildiso, collect_iso
  <2>3. CASE OuterStep
    BY <2>3 DEF OuterStep, run_private_namespace, inner_killed, build_iso, inner_is_gone, closureVars, process
  <2>4. CASE HostStep
    BY <2>4 DEF HostStep, HostTouchesCache, prepare_mounted, SurvivorsEnd, closureVars, process
  <2>5. CASE AgainStep
    BY <2>5 DEF AgainStep, BuildAgain, start_build_iso
  <2>6. CASE IterationStep
    BY <2>6 DEF IterationStep, execute_native_iso, start_iteration, run_step, run_streamed_builder,
       finish_interrupted, finish, hand_build_ends, closureVars, process, start_build_iso
  <2>7. CASE HostCrash  BY <2>7 DEF HostCrash, inner_is_gone
  <2>8. CASE UNCHANGED vars  BY <2>8 DEF vars, closureVars, process
  <2> QED BY <2>1, <2>2, <2>3, <2>4, <2>5, <2>6, <2>7, <2>8, StepIs
<1>2. /\ RequiredMounts \subseteq ro /\ sync = ev.repositories
      /\ verified_cached_filenames(cache, ev.packages) = FilesOf(ev.packages)
  BY <1>1 DEF require_live_buildiso_security_boundary, require_complete_verified_package_set
<1>3. at \in Resolved  BY DEF Resolved
<1>4. /\ owner = "user" /\ report[run] = ev /\ sync \in Dbs
      /\ ev.packages = Resolve[sync] /\ Targets \subseteq {p.name : p \in ev.packages}
  BY <1>3 DEF BuildInv, ClosureInv, Closed, Frozen, Anchored
<1>5. Resolve[report[run].repositories] = ev.packages  BY <1>2, <1>4
<1>6. ASSUME NEW p \in ev.packages  PROVE cache[p.file].sha = p.sha
  <2>1. PICK P : P = ev.packages  OBVIOUS
  <2>2. Sound(P) /\ p \in P  BY <1>4, <2>1, ResolvedIsSound
  <2>3. Of(P, p.file) = p  BY <2>2, OfIs
  <2>4. p.file \in FilesOf(P)  BY <2>2 DEF FilesOf
  <2>5. p.file \in verified_cached_filenames(cache, P)  BY <1>2, <2>1, <2>4
  <2>6. cache[p.file].sha = Of(P, p.file).sha  BY <2>5 DEF verified_cached_filenames
  <2> QED BY <2>3, <2>6
<1> QED BY <1>2, <1>4, <1>5, <1>6

\* buildiso starts only on the frozen closure: its databases, the hash of each of
\* its packages in the cache, its mounts (require_live_buildiso_security_boundary).
THEOREM BuildisoHolds == Spec => BuildisoOnlyOnFrozenClosure
<1>1. BuildInv /\ [Next]_vars =>
        [at = "closed" /\ at' = "building" =>
          /\ \A p \in Resolve[report[run].repositories] : cache[p.file].sha = p.sha
          /\ Targets \subseteq {p.name : p \in ev.packages} /\ ev.packages = Resolve[sync]
          /\ RequiredMounts \subseteq ro /\ owner = "user"]_vars
  BY StartIsGuarded
<1> QED BY <1>1, BuildInvariant, PTL DEF Spec, BuildisoOnlyOnFrozenClosure
=============================================================================
