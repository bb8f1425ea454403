------------------------- MODULE RepositoryClosure -------------------------
(***************************************************************************)
(* The repository closure of a native ISO build (prepare_repository_       *)
(* closure of scripts/artix/context.py): one mirror's databases are        *)
(* frozen, the package set is resolved from them, the persistent cache is  *)
(* audited against it, what is missing is downloaded in batches with       *)
(* mirror failover, a local repository is built from the verified files    *)
(* and validated, and everything is mounted read-only before buildiso.     *)
(*                                                                         *)
(* The cache, its owner, the run-owned directory and the evidence file     *)
(* survive a crash; ev, w and the mounts belong to the process and to its  *)
(* private mount namespace.  A text (an error message, pacman's output) is *)
(* the set of the words the code searches it for.                          *)
(***************************************************************************)
EXTENDS Integers, Sequences, SequencesExt, FiniteSets, FiniteSetsExt, Functions

CONSTANTS Runs,            \* run ids
          Files,           \* package file names
          Dbs, Resolve,    \* repository states and the packages each resolves to
          Targets,         \* package names the profile asks for
          Mirrors,         \* number of HTTPS servers in the mirror list
          Caches,          \* contents the persistent cache may start with
          Texts,           \* what a failing command may print
          NameWords(_),    \* words that occur in a file's own name
          BatchLimit,      \* PACKAGE_PREFETCH_BATCH_LIMIT_BYTES
          MaxAttempts,     \* PACKAGE_PREFETCH_MAX_MIRROR_ATTEMPTS
          MaxTouches       \* bound: cache entries changed from outside

ASSUME ClosureAssumption ==
    /\ Mirrors \in Nat \ {0} /\ BatchLimit \in Nat \ {0} /\ MaxAttempts \in Nat \ {0}
    /\ "none" \notin Dbs
    /\ \A c \in Caches : DOMAIN c = Files /\ \A f \in Files : DOMAIN c[f] = {"sha", "sig", "part"}
    \* A row has its place in the order of the sort key.  pacman installs one
    \* package of a name, so that no file name occurs twice in a closure.
    /\ \A d \in Dbs : /\ IsFiniteSet(Resolve[d])
                      /\ \A p \in Resolve[d] : p.file \in Files /\ p.size \in Nat /\ p.rank \in Nat
                      /\ \A p, q \in Resolve[d] : p # q => p.file # q.file /\ p.rank # q.rank
    \* Neither an absent file nor one that arrived wrong has a resolved hash.
    /\ \A d \in Dbs : \A p \in Resolve[d] : p.sha \notin {"none", "wrong"}
    \* What the script says of files no mirror had, no command prints.
    /\ \A text \in Texts : "no_valid_files" \notin text

VARIABLES cache,     \* [Files -> archive, signature and partial]  (persistent)
          owner,     \* owner of the cache tree                     (persistent)
          dirs,      \* runs whose repository-closure directory exists
          report,    \* repository-closure.json of each run         (persistent)
          run,       \* the run this process works for
          at,        \* where prepare_repository_closure stands
          ev,        \* the evidence in memory
          w,         \* its other local variables
          ro,        \* read-only mounts of the private namespace
          sync,      \* database state of the sync directory
          restored,  \* cache_outer_owner_restored
          touched    \* history: files another process of the host changed

persistent == <<cache, owner, dirs, report>>
process == <<run, at, ev, w, ro, sync, restored>>
closureVars == <<persistent, process, touched>>

None == "none"
NoFile == [sha |-> None, sig |-> FALSE, part |-> FALSE]
SyncMounts == {"sync_source", "sync_target", "database_snapshot"}
RepoMounts == {"repository_source", "repository_target"}
CacheMounts == {"cache_source", "cache_target"}
RequiredMounts == SyncMounts \cup RepoMounts \cup CacheMounts \cup {"pacman_config"}
GateChecks == {"all_packages_verified", "repository_databases_immutable",
               "local_repository_constructed", "local_repository_read_only",
               "pacman_config_read_only", "local_resolution_matches",
               "post_validation_cache_verified", "cache_outer_owner_restored",
               "cache_source_read_only", "cache_read_only"}
FilesOf(packages) == {p.file : p \in packages}
Of(packages, f) == CHOOSE p \in packages : p.file = f

---------------------------------------------------------------------------
\* Package identities and the ledger

\* A row of pacman that repeats an identity is dropped; an empty set is refused.
parse_pacman_print_rows(rows) == rows

closure_identity(packages) == packages

verified_cached_filenames(c, packages) ==
    {f \in FilesOf(packages) : c[f].sha = Of(packages, f).sha}

ProgressOf(state, batch, attempt, class) ==
    [state |-> state, batch |-> batch, attempt |-> attempt, class |-> class]
VerifiedStates == {"reused_verified", "downloaded_verified"}

initialize_package_progress(packages) ==
    [f \in FilesOf(packages) |-> ProgressOf("pending", 0, 0, None)]

summarize_package_progress(progress) ==
    LET verified == {f \in DOMAIN progress : progress[f].state \in VerifiedStates}
    IN  [resolved |-> Cardinality(DOMAIN progress), verified |-> Cardinality(verified),
         pending |-> Cardinality(DOMAIN progress \ verified)]

reconcile_package_progress_from_cache_audit(progress, audit) ==
    [f \in DOMAIN progress |->
        ProgressOf(CASE f \in audit.reused -> "reused_verified"
                     [] f \in audit.corrupt -> "corrupt_removed"
                     [] OTHER -> "pending", 0, 0, None)]

\* Empty when the attempt's files do not partition what it requested.
attempt_partitions(a) == a.verified \cap a.pending = {} /\ a.verified \cup a.pending = a.requested

record_package_progress_attempt(progress, batch, a) ==
    [f \in DOMAIN progress |->
        CASE f \in a.verified -> ProgressOf("downloaded_verified", batch, a.attempt, None)
          [] f \in a.pending -> ProgressOf(IF a.result = "fail" THEN "failed" ELSE "pending",
                                           batch, a.attempt, a.class)
          [] OTHER -> progress[f]]

require_complete_verified_package_set(c, packages, progress) ==
    /\ packages # {}
    /\ verified_cached_filenames(c, packages) = FilesOf(packages)
    /\ Cardinality(FilesOf(packages)) = Cardinality(packages)
    /\ DOMAIN progress = FilesOf(packages)
    /\ summarize_package_progress(progress) =
          [resolved |-> Cardinality(packages), verified |-> Cardinality(packages), pending |-> 0]

---------------------------------------------------------------------------
\* The persistent cache

audit_persistent_package_cache(c, packages) ==
    LET reused == verified_cached_filenames(c, packages)
        files == FilesOf(packages)
        redundant(f) == f \in reused /\ Of(packages, f).signed
    IN  [cache |-> [f \in Files |->
            IF f \notin files THEN c[f]
            ELSE [sha |-> IF f \in reused THEN c[f].sha ELSE None,
                  sig |-> f \in reused /\ ~redundant(f) /\ c[f].sig,
                  part |-> FALSE]],
         reused |-> reused, pending |-> files \ reused,
         corrupt |-> {f \in files \ reused : c[f].sha # None}]

remove_unverified_attempt_files(c, pending) ==
    [f \in Files |->
        IF f \notin FilesOf(pending) THEN c[f]
        ELSE IF c[f].sha \notin {None, Of(pending, f).sha} THEN NoFile
        ELSE [c[f] EXCEPT !.part = FALSE]]

remove_detached_signatures_for_retry(c, packages) ==
    [f \in Files |-> IF f \in FilesOf(packages) THEN [c[f] EXCEPT !.sig = FALSE] ELSE c[f]]

\* Order of the sort key (repository, name, version, filename).
Ordered(packages) ==
    CHOOSE order \in [1..Cardinality(packages) -> packages] :
        \A i, j \in DOMAIN order : i < j => order[i].rank < order[j].rank

\* Batches under the byte limit; a larger package is a batch of its own.
add_to_batches(acc, p) ==
    LET full == acc.current # <<>> /\ acc.bytes + p.size > BatchLimit
        current == Append(IF full THEN <<>> ELSE acc.current, p)
        batches == IF full THEN Append(acc.batches, acc.current) ELSE acc.batches
    IN  IF p.size > BatchLimit
        THEN [batches |-> Append(batches, current), current |-> <<>>, bytes |-> 0]
        ELSE [batches |-> batches, current |-> current,
              bytes |-> (IF full THEN 0 ELSE acc.bytes) + p.size]

plan_package_prefetch_batches(packages) ==
    LET order == Ordered(packages)
        packed[n \in 0..Cardinality(packages)] ==
            IF n = 0 THEN [batches |-> <<>>, current |-> <<>>, bytes |-> 0]
            ELSE add_to_batches(packed[n - 1], order[n])
        end == packed[Cardinality(packages)]
    IN  IF end.current = <<>> THEN end.batches ELSE Append(end.batches, end.current)

\* Mutant: servers before the anchor, which failed the probe, are tried last.
mirrors_wrap_around(anchor) ==
    [i \in 1..Min({MaxAttempts, Mirrors}) |-> ((anchor + i - 2) % Mirrors) + 1]

\* The anchor first, then the servers after it in the mirror list.
ordered_prefetch_mirrors(anchor) ==
    [i \in 1..Min({MaxAttempts, Mirrors - anchor + 1}) |-> anchor + i - 1]

---------------------------------------------------------------------------
\* Failures.  An error has the words of its whole exception chain.

Error(kind, words) == [kind |-> kind, words |-> words]
NoError == Error("none", {})
Message(words) == Error("message", words)
Failed(text) == Error("process", text)
Interrupt == Error("interrupt", {})
IsError(e) == e.kind # "none"

FirstOf(words, order, otherwise) ==
    LET hits == {i \in DOMAIN order : order[i][1] \in words}
    IN  IF hits = {} THEN otherwise ELSE order[Min(hits)][2]

AcquisitionWords == << <<"timeout", "timeout">>, <<"404", "http_not_found">>, <<"tls", "tls">>,
                       <<"eof", "tls">>, <<"dns", "dns">>, <<"connection", "connection">>,
                       <<"sha-256", "integrity">>, <<"mismatch", "integrity">>,
                       <<"signature", "integrity">> >>

classify_package_acquisition_failure(e, pending) ==
    CASE e.kind = "none" -> IF pending = {} THEN None ELSE "verification_incomplete"
      [] e.kind = "interrupt" -> "interrupted"
      [] e.kind = "process" -> FirstOf(e.words, AcquisitionWords, "process_failed")
      [] e.kind = "message" -> FirstOf(e.words, AcquisitionWords, "runtime_error")

\* Context, text and class of the last failed attempt of the substage.
NothingSeen == [context |-> [batch |-> 0, attempt |-> 0], words |-> {}, class |-> None]
repository_closure_failure_observation(e, substage) ==
    CASE substage = "acquisition" /\ e.cache.attempts # <<>> ->
           LET last == Last(e.cache.attempts)
           IN  IF last.result = "fail"
               THEN [context |-> [batch |-> last.batch, attempt |-> last.attempt],
                     words |-> last.words, class |-> last.class]
               ELSE NothingSeen
      [] substage = "repository-sync" /\ e.anchor.status = "fail" ->
           [context |-> [batch |-> 0, attempt |-> Len(e.anchor.attempts)],
            words |-> Last(e.anchor.attempts), class |-> None]
      [] OTHER -> NothingSeen

WordCauses == << <<"signature", "signature_failure">>, <<"mismatch", "hash_mismatch">>,
                 <<"eof", "tls_eof">>, <<"timeout", "timeout">>, <<"404", "http_404">>,
                 <<"tls", "tls_failure">>, <<"dns", "dns">>, <<"connection", "connection">> >>
SubstageCauses ==
    [s \in {"mirror-selection", "repository-sync", "resolution", "acquisition",
            "cache-verification", "local-validation"} |->
       CASE s = "mirror-selection" -> << <<"no_mirrors", "no_eligible_mirror">> >>
         [] s = "repository-sync" -> << <<"no_anchor", "repository_unavailable">> >>
         [] s = "resolution" -> << <<"omitted_targets", "resolution_incomplete">> >>
         [] s = "local-validation" -> << <<"different_closure", "resolution_mismatch">> >>
         [] OTHER -> <<>>]
LateCauses == << <<"missing_file", "missing_file">>, <<"no_valid_files", "verification_incomplete">> >>
ClassCauses == [verification_incomplete |-> "verification_incomplete", timeout |-> "timeout",
                http_not_found |-> "http_404", tls |-> "tls_failure", dns |-> "dns",
                connection |-> "connection", integrity |-> "hash_mismatch",
                process_failed |-> "process_failed"]

classify_repository_closure_failure(substage, error, e) ==
    LET seen == repository_closure_failure_observation(e, substage)
        order == WordCauses \o SubstageCauses[substage] \o LateCauses
        last == CASE seen.class \in DOMAIN ClassCauses -> ClassCauses[seen.class]
                  [] OTHER -> IF error.kind = "process" THEN "process_failed" ELSE "runtime_error"
    IN  [substage |-> substage, context |-> seen.context,
         cause |-> IF error.kind = "interrupt" \/ seen.class = "interrupted" THEN "interrupted"
                   ELSE FirstOf(seen.words \cup error.words, order, last)]

---------------------------------------------------------------------------
\* Evidence and the gate before buildiso

NoAudit == [status |-> None, reused |-> {}, pending |-> {}, corrupt |-> {}]
NoFailure == [substage |-> None, cause |-> None, context |-> NothingSeen.context]
NewEvidence(r) ==
    [run |-> r, status |-> "fail", repositories |-> None, packages |-> {}, cached_before |-> {},
     anchor |-> [status |-> "pending", selected |-> 0, attempts |-> <<>>, locked |-> FALSE],
     progress |-> <<>>, summary |-> summarize_package_progress(<<>>),
     cache |-> [audit |-> NoAudit, reused |-> 0, downloaded |-> 0, verified |-> 0, pending |-> -1,
                mirrors |-> <<>>, batches |-> 0, completed |-> 0, attempts |-> <<>>, flags |-> {}],
     frozen |-> FALSE, local |-> -1, gate |-> {}, gate_count |-> 0, failure |-> NoFailure]

write_repository_closure_evidence(e) ==
    report' = [r \in DOMAIN report \cup {run} |-> IF r = run THEN e ELSE report[r]]

CacheFlags == {"outer_owner_restored", "source_read_only", "read_only"}

require_buildiso_security_boundary(e) ==
    LET n == Cardinality(e.packages)
    IN  /\ e.status = "pass" /\ e.failure = NoFailure
        /\ e.packages # {} /\ DOMAIN e.progress = FilesOf(e.packages)
        /\ Cardinality(FilesOf(e.packages)) = n
        /\ e.summary = summarize_package_progress(e.progress)
        /\ e.summary = [resolved |-> n, verified |-> n, pending |-> 0]
        /\ e.cache.verified = n /\ e.cache.pending = 0 /\ e.cache.flags = CacheFlags
        /\ e.frozen /\ e.local = n
        /\ e.gate = GateChecks /\ e.gate_count = n

\* Mutant: buildiso starts on the evidence alone, without looking at the disk.
evidence_is_enough(e) == require_buildiso_security_boundary(e)

\* Rechecked on the live file system immediately before buildiso is run.
require_live_buildiso_security_boundary(e) ==
    /\ require_buildiso_security_boundary(e)
    /\ RequiredMounts \subseteq ro
    /\ require_complete_verified_package_set(cache, e.packages, e.progress)
    /\ sync = e.repositories

---------------------------------------------------------------------------
\* Steps of prepare_repository_closure

Substage == [mirrors |-> "mirror-selection", probe |-> "repository-sync", freeze |-> "repository-sync",
             resolve |-> "resolution", audit |-> "cache-verification", fetch |-> "acquisition",
             record |-> "acquisition", batch_end |-> "acquisition", construct |-> "cache-verification",
             validate |-> "local-validation", handoff |-> "cache-verification",
             seal |-> "cache-verification"]

NoWork == [candidate |-> 0, probes |-> <<>>, batches |-> <<>>, batch |-> 0, attempt |-> 0,
           pending |-> {}, retry |-> {}, asked |-> {}, err |-> NoError, last |-> NoError,
           done |-> {}, left |-> {},
           spoiled |-> {}]   \* history: verified files the clean retry lost

\* The finally block: chown may itself fail, which is only a warning.
restore_owner == IF restored THEN UNCHANGED owner ELSE owner' \in {"user", owner}

\* The except block: the failure is classified and written.
raise_closure_failure(e, error) ==
    LET f == [e EXCEPT !.failure = classify_repository_closure_failure(Substage[at], error, e),
                       !.summary = summarize_package_progress(e.progress)]
    IN  /\ ev' = f /\ write_repository_closure_evidence(f)
        /\ restore_owner
        /\ at' = "raised"
        /\ UNCHANGED <<dirs, run, w, ro, sync, restored, touched>>

\* Cache mounted and given to pacman's download user; then the run's own
\* directory, which must be new, before the try block is entered.
setup_closure ==
    /\ at = "setup" /\ owner' = "alpm"
    /\ IF run \in dirs
       THEN at' = "raised" /\ UNCHANGED <<dirs, ev, w>>
       ELSE /\ dirs' = dirs \cup {run} /\ at' = "mirrors"
            /\ ev' = NewEvidence(run) /\ w' = NoWork
    /\ UNCHANGED <<cache, report, run, ro, sync, restored, touched>>

parse_artix_mirror_servers ==
    /\ at = "mirrors"
    /\ \/ /\ at' = "probe" /\ w' = [w EXCEPT !.candidate = 1]
          /\ UNCHANGED <<persistent, run, ev, ro, sync, restored, touched>>
       \/ raise_closure_failure(ev, Message({"no_mirrors"})) /\ UNCHANGED cache

\* probe_anchor empties the sync directory and synchronises one server into it.
probe_anchor ==
    /\ at = "probe"
    /\ \/ \E d \in Dbs :
            /\ sync' = d /\ at' = "freeze"
            /\ w' = [w EXCEPT !.probes = Append(@, {})]
            /\ UNCHANGED <<persistent, run, ev, ro, restored, touched>>
       \/ \E text \in Texts :
            LET probes == Append(w.probes, text)
                failed == [ev EXCEPT !.anchor.attempts = probes, !.anchor.status = "fail"]
            IN  IF w.candidate < Mirrors
                THEN /\ w' = [w EXCEPT !.candidate = @ + 1, !.probes = probes]
                     /\ UNCHANGED <<persistent, run, at, ev, ro, sync, restored, touched>>
                ELSE raise_closure_failure(failed, Message({"no_anchor"})) /\ UNCHANGED cache

\* Databases copied, hashed and mounted read-only; evidence written.
freeze_repository_sync_directory ==
    /\ at = "freeze" /\ at' = "resolve"
    /\ ro' = ro \cup SyncMounts
    /\ ev' = [ev EXCEPT !.repositories = sync, !.gate = @ \cup {"repository_databases_immutable"},
                        !.anchor = [status |-> "pass", selected |-> w.candidate,
                                    attempts |-> w.probes, locked |-> TRUE]]
    /\ write_repository_closure_evidence(ev')
    /\ UNCHANGED <<cache, owner, dirs, run, w, sync, restored, touched>>

freeze_resolved_package_evidence ==
    LET packages == parse_pacman_print_rows(Resolve[sync])
        progress == initialize_package_progress(packages)
    IN  /\ at = "resolve"
        /\ IF packages = {} \/ ~Targets \subseteq {p.name : p \in packages}
           THEN raise_closure_failure(ev, Message({"omitted_targets"})) /\ UNCHANGED cache
           ELSE /\ ev' = [ev EXCEPT !.packages = packages, !.progress = progress,
                                    !.summary = summarize_package_progress(progress)]
                /\ write_repository_closure_evidence(ev')
                /\ at' = "audit"
                /\ UNCHANGED <<cache, owner, dirs, run, w, ro, sync, restored, touched>>

AfterBatch(i, batches) == IF i > Len(batches) THEN "construct" ELSE "fetch"

\* Audit, reconciliation, batches and mirrors, then one write.
audit_cache ==
    LET audit == audit_persistent_package_cache(cache, ev.packages)
        progress == reconcile_package_progress_from_cache_audit(ev.progress, audit)
        batches == plan_package_prefetch_batches({p \in ev.packages : p.file \in audit.pending})
        n == Cardinality(audit.reused)
    IN  /\ at = "audit" /\ at' = AfterBatch(1, batches)
        /\ cache' = audit.cache
        /\ w' = [w EXCEPT !.batches = batches, !.batch = 1, !.attempt = 1,
                          !.pending = IF batches = <<>> THEN {} ELSE FilesOf(Range(batches[1])),
                          !.left = audit.pending]
        /\ ev' = [ev EXCEPT !.progress = progress, !.summary = summarize_package_progress(progress),
                            !.cache = [@ EXCEPT !.audit = [status |-> "pass", reused |-> audit.reused,
                                                           pending |-> audit.pending,
                                                           corrupt |-> audit.corrupt],
                                                !.reused = n, !.verified = n, !.downloaded = 0,
                                                !.pending = Cardinality(audit.pending),
                                                !.batches = Len(batches), !.completed = 0,
                                                !.mirrors = ordered_prefetch_mirrors(ev.anchor.selected)]]
        /\ write_repository_closure_evidence(ev')
        /\ UNCHANGED <<owner, dirs, run, ro, sync, restored, touched>>

Batch == Range(w.batches[w.batch])

attempt_packages == IF w.retry # {} THEN w.retry ELSE {p \in Batch : p.file \in w.pending}

\* pacman -Sw from one server: each requested file may arrive, arrive wrong,
\* stay partial or be gone (pacman deletes what fails its own checks).  The
\* clean retry asks again for files that are already recorded as verified, and
\* may lose them (context.py 1046).
fetch_mirror_attempt ==
    /\ at = "fetch" /\ at' = "record"
    /\ \E outcome \in [FilesOf(attempt_packages) -> {"right", "wrong", "partial"}],
          err \in {NoError, Interrupt} \cup {Failed(t) : t \in Texts} :
         /\ cache' = [f \in Files |->
               IF f \notin DOMAIN outcome THEN cache[f]
               ELSE LET p == Of(attempt_packages, f)
                    IN  CASE outcome[f] = "right" -> [sha |-> p.sha, sig |-> ~p.signed, part |-> FALSE]
                          [] outcome[f] = "wrong" -> [sha |-> "wrong", sig |-> cache[f].sig, part |-> FALSE]
                          [] outcome[f] = "partial" -> [sha |-> None, sig |-> cache[f].sig, part |-> TRUE]]
         /\ w' = [w EXCEPT !.asked = attempt_packages, !.err = err, !.retry = {},
                           !.last = IF IsError(err) THEN err ELSE @,
                           !.spoiled = @ \cup {f \in DOMAIN outcome : outcome[f] # "right" /\ f \notin w.pending}]
    /\ UNCHANGED <<owner, dirs, report, run, ev, ro, sync, restored, touched>>

\* What acquire_batch_with_mirror_failover does after an attempt: verify,
\* clean up, record through record_mirror_attempt, and go on or leave.
acquire_batch_with_mirror_failover ==
    LET verified == verified_cached_filenames(cache, w.asked)
        pending == w.pending \ verified
        failed == IsError(w.err)
        swept == remove_unverified_attempt_files(cache, {p \in Batch : p.file \in pending})
        a == [batch |-> w.batch, attempt |-> w.attempt, requested |-> FilesOf(w.asked),
              verified |-> verified, pending |-> pending,
              result |-> IF failed \/ pending # {} THEN "fail" ELSE "pass",
              class |-> classify_package_acquisition_failure(w.err, pending),
              words |-> IF ~failed /\ pending # {} THEN {"no_valid_files"} ELSE w.err.words]
        noted == [ev EXCEPT !.cache.attempts = Append(@, a)]
        progress == record_package_progress_attempt(ev.progress, w.batch, a)
        s == summarize_package_progress(progress)
        exhausted == Message(w.last.words \cup UNION {NameWords(f) : f \in pending})
        leave(error) == at' = "batch_end" /\ w' = [w EXCEPT !.pending = pending, !.err = error]
    IN  /\ at = "record"
        /\ cache' = IF failed /\ pending = {}
                    THEN remove_detached_signatures_for_retry(swept, w.asked) ELSE swept
        /\ IF ~attempt_partitions(a)
           THEN ev' = noted /\ leave(Message({})) /\ UNCHANGED report
           ELSE /\ ev' = [noted EXCEPT !.progress = progress, !.summary = s,
                             !.cache.verified = s.verified, !.cache.pending = s.pending,
                             !.cache.downloaded = s.verified - ev.cache.reused]
                /\ write_repository_closure_evidence(ev')
                /\ CASE w.err.kind = "interrupt" -> leave(Interrupt)
                     [] a.result = "pass" -> leave(NoError)
                     [] w.err.kind # "interrupt" /\ a.result = "fail" ->
                          IF w.attempt = Len(ev.cache.mirrors) THEN leave(exhausted)
                          ELSE /\ at' = "fetch"
                               /\ w' = [w EXCEPT !.pending = pending, !.attempt = @ + 1,
                                                 !.retry = IF pending = {} THEN w.asked ELSE {}]
        /\ UNCHANGED <<owner, dirs, run, ro, sync, restored, touched>>

\* An interrupt that arrives while the files of an attempt are hashed.
interrupted_between_attempts ==
    /\ at = "record" /\ at' = "batch_end"
    /\ w' = [w EXCEPT !.err = Interrupt]
    /\ UNCHANGED <<persistent, run, ev, ro, sync, restored, touched>>

\* acquire_prefetch_batches and record_prefetch_progress: the batch is hashed
\* again, the counters are written, and a failed batch ends the closure.
acquire_prefetch_batches ==
    LET verified == verified_cached_filenames(cache, Batch)
        missing == FilesOf(Batch) \ verified
        done == w.done \cup verified
        left == w.left \ verified
        counted == [ev EXCEPT !.cache.downloaded = Cardinality(done),
                              !.cache.verified = ev.cache.reused + Cardinality(done),
                              !.cache.pending = Cardinality(left),
                              !.cache.completed = IF IsError(w.err) \/ missing # {} THEN @ ELSE w.batch,
                              !.summary = summarize_package_progress(ev.progress)]
    IN  /\ at = "batch_end"
        /\ CASE IsError(w.err) -> raise_closure_failure(counted, w.err)
             [] ~IsError(w.err) /\ missing # {} ->
                  raise_closure_failure(counted, Message(UNION {NameWords(f) : f \in missing}))
             [] OTHER ->
                  /\ ev' = counted /\ write_repository_closure_evidence(counted)
                  /\ at' = AfterBatch(w.batch + 1, w.batches)
                  /\ w' = [w EXCEPT !.done = done, !.left = left, !.batch = @ + 1, !.attempt = 1,
                                    !.last = NoError,
                                    !.pending = IF w.batch = Len(w.batches) THEN {}
                                                ELSE FilesOf(Range(w.batches[w.batch + 1]))]
                  /\ UNCHANGED <<owner, dirs, run, ro, sync, restored, touched>>
        /\ UNCHANGED cache

verify_cached_package_files(packages) ==
    IF \E p \in packages : cache[p.file].sha = None THEN Message({"missing_file"})
    ELSE IF \E p \in packages : cache[p.file].sha # p.sha THEN Message({"mismatch", "sha-256"})
    ELSE Message({})

\* The local repository, its read-only mounts and the frozen pacman configuration.
construct_frozen_local_repository ==
    /\ at = "construct"
    /\ IF ~require_complete_verified_package_set(cache, ev.packages, ev.progress)
       THEN raise_closure_failure(ev, verify_cached_package_files(ev.packages)) /\ UNCHANGED cache
       ELSE /\ ro' = ro \cup RepoMounts \cup {"pacman_config"}
            /\ ev' = [ev EXCEPT !.frozen = TRUE, !.gate_count = Cardinality(ev.packages),
                  !.summary = summarize_package_progress(ev.progress),
                  !.cached_before = ev.cache.audit.reused,
                  !.cache.downloaded = Cardinality(ev.packages) - ev.cache.reused,
                  !.cache.verified = Cardinality(ev.packages), !.cache.pending = 0,
                  !.gate = @ \cup {"all_packages_verified", "local_repository_constructed",
                                   "local_repository_read_only", "pacman_config_read_only"}]
            /\ at' = "validate"
            /\ UNCHANGED <<persistent, run, w, sync, restored, touched>>

\* pacman resolves again from the local repository; then every file is hashed again.
validate_local_repository ==
    /\ at = "validate"
    /\ \/ raise_closure_failure(ev, Message({"different_closure"})) /\ UNCHANGED cache
       \/ ~require_complete_verified_package_set(cache, ev.packages, ev.progress)
          /\ raise_closure_failure(ev, verify_cached_package_files(ev.packages)) /\ UNCHANGED cache
       \/ /\ require_complete_verified_package_set(cache, ev.packages, ev.progress)
          /\ closure_identity(Resolve[sync]) = closure_identity(ev.packages)
          /\ ev' = [ev EXCEPT !.local = Cardinality(Resolve[sync]),
                       !.gate = @ \cup {"local_resolution_matches", "post_validation_cache_verified"}]
          /\ at' = "handoff"
          /\ UNCHANGED <<persistent, run, w, ro, sync, restored, touched>>

restore_outer_owner ==
    /\ at = "handoff" /\ at' = "seal"
    /\ owner' = "user" /\ restored' = TRUE
    /\ ev' = [ev EXCEPT !.cache.flags = @ \cup {"outer_owner_restored"},
                        !.gate = @ \cup {"cache_outer_owner_restored"}]
    /\ UNCHANGED <<cache, dirs, report, run, w, ro, sync, touched>>

\* Both cache views read-only, the gate closed, the passing evidence written.
seal_closure ==
    LET passed == [ev EXCEPT !.cache.flags = CacheFlags, !.status = "pass", !.failure = NoFailure,
                             !.gate = @ \cup {"cache_source_read_only", "cache_read_only"}]
    IN  /\ at = "seal"
        /\ IF require_buildiso_security_boundary(passed)
           THEN /\ ev' = passed /\ write_repository_closure_evidence(passed)
                /\ ro' = ro \cup CacheMounts /\ at' = "closed"
                /\ UNCHANGED <<cache, owner, dirs, run, w, sync, restored, touched>>
           ELSE raise_closure_failure(passed, Message({})) /\ UNCHANGED cache

\* A command of the step fails, or the operator interrupts it; in the last
\* step that may be after the evidence already says pass.
closure_step_fails ==
    /\ at \in DOMAIN Substage \ {"fetch", "record", "batch_end"}
    /\ \E error \in {Interrupt} \cup {Failed(t) : t \in Texts} :
         \/ raise_closure_failure(ev, error)
         \/ at = "seal" /\ raise_closure_failure([ev EXCEPT !.status = "pass"], error)
    /\ UNCHANGED cache

prepare_repository_closure ==
    \/ setup_closure \/ parse_artix_mirror_servers \/ probe_anchor
    \/ freeze_repository_sync_directory \/ freeze_resolved_package_evidence \/ audit_cache
    \/ fetch_mirror_attempt \/ acquire_batch_with_mirror_failover
    \/ interrupted_between_attempts \/ acquire_prefetch_batches
    \/ construct_frozen_local_repository \/ validate_local_repository
    \/ restore_outer_owner \/ seal_closure \/ closure_step_fails

\* Another process of the host changes a file of the persistent cache.  (Before
\* the audit that is only another initial content; after the gate nothing of
\* this project reads the cache.)
HostTouchesCache ==
    /\ at \in {"audit", "fetch", "record", "batch_end", "construct", "validate", "handoff", "seal", "closed"}
    /\ Cardinality(touched) < MaxTouches
    /\ \E f \in Files \ touched : \E sha \in {None, "wrong"} :
         /\ cache[f].sha \notin {None, sha}
         /\ cache' = [cache EXCEPT ![f].sha = sha]
         /\ touched' = touched \cup {f}
    /\ UNCHANGED <<owner, dirs, report, process>>
============================================================================
