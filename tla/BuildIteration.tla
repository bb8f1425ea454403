-------------------------- MODULE BuildIteration --------------------------
(***************************************************************************)
(* One build iteration (scripts/build_iteration.py) around the native      *)
(* build: a fresh run directory, the recorded steps before the build, the  *)
(* builder (portus-build build-iso, which hands over to context.py), then  *)
(* the independent validation of the evidence the builder left, and the    *)
(* run's metadata sealed by RUN_SHA256SUMS.                                *)
(***************************************************************************)
EXTENDS NativeBuild

VARIABLES it,     \* the iteration: its place, run and exit code of the builder
          meta,   \* build-run.json of each run
          sums,   \* RUN_SHA256SUMS of each run: the files it was computed over
          latest  \* builds/LATEST

iterationVars == <<it, meta, sums, latest>>
vars == <<closureVars, nativeVars, iterationVars>>

Steps == <<"input-manifest", "environment-preflight", "preflight", "contract-report", "build-plan",
           "first-iso-staging">>
ItIdle == [at |-> "idle", step |-> 0, code |-> 0]
EXIT_UNRESOLVED == 78
EXIT_INTERRUPTED == 130

---------------------------------------------------------------------------
\* The independent validation of repository-closure.json

validate_package_progress_evidence(e) ==
    /\ Cardinality(FilesOf(e.packages)) = Cardinality(e.packages)
    /\ DOMAIN e.progress = FilesOf(e.packages)
    /\ \A f \in DOMAIN e.progress :
         LET p == e.progress[f]
         IN  CASE p.state = "downloaded_verified" -> p.batch >= 1 /\ p.attempt >= 1 /\ p.class = None
               [] p.state = "failed" -> p.batch >= 1 /\ p.attempt >= 1 /\ p.class # None
               [] OTHER -> p.batch = 0 /\ p.attempt = 0 /\ p.class = None
    /\ e.summary = summarize_package_progress(e.progress)

validate_repository_closure_failure(e) ==
    (e.status = "pass") = (e.failure = NoFailure)

CauseSubstages == << <<"no_eligible_mirror", "mirror-selection">>, <<"mirror_configuration", "mirror-selection">>,
                     <<"repository_unavailable", "repository-sync">>, <<"resolution_incomplete", "resolution">>,
                     <<"resolution_mismatch", "local-validation">>, <<"verification_incomplete", "acquisition">> >>
CompatibleCauses ==
    [verification_incomplete |-> {"verification_incomplete"}, interrupted |-> {"interrupted"},
     timeout |-> {"timeout"}, http_not_found |-> {"http_404"}, tls |-> {"tls_eof", "tls_failure"},
     dns |-> {"dns"}, connection |-> {"connection"},
     integrity |-> {"hash_mismatch", "signature_failure"},
     process_failed |-> {"process_failed"}, runtime_error |-> {"runtime_error"}]

\* Attempts of one batch are numbered without a gap, in order.
Contiguous(attempts) ==
    \A i \in DOMAIN attempts :
        attempts[i].attempt =
            1 + Cardinality({j \in 1..i - 1 : attempts[j].batch = attempts[i].batch})

\* Aggregates and ledger are those of the recorded attempts.
validate_failed_attempts(e) ==
    LET as == e.cache.attempts
        verified == e.summary.verified
    IN  /\ e.cache.pending # -1 => /\ e.cache.verified = verified /\ e.cache.pending = e.summary.pending
                                   /\ e.cache.downloaded = verified - e.cache.reused
        /\ \A i \in DOMAIN as : attempt_partitions(as[i]) /\ Contiguous(as)
        /\ \A file \in DOMAIN e.progress :
              LET of == {i \in DOMAIN as : file \in as[i].requested}
                  a == as[Max(of)]
              IN  of # {} => e.progress[file] =
                                IF file \in a.verified
                                THEN ProgressOf("downloaded_verified", a.batch, a.attempt, None)
                                ELSE ProgressOf("failed", a.batch, a.attempt, a.class)

validate_current_repository_closure_failure_consistency(e) ==
    LET f == e.failure
        as == e.cache.attempts
        noContext == f.context = NothingSeen.context
    IN  /\ \A i \in DOMAIN CauseSubstages : f.cause = CauseSubstages[i][1] => f.substage = CauseSubstages[i][2]
        /\ f.substage \notin {"repository-sync", "acquisition"} => noContext
        /\ f.substage = "repository-sync" =>
              IF e.anchor.status = "fail" THEN f.context = [batch |-> 0, attempt |-> Len(e.anchor.attempts)]
              ELSE noContext
        /\ validate_failed_attempts(e)
        /\ f.substage = "acquisition" =>
              IF as # <<>> /\ Last(as).result = "fail"
              THEN /\ f.context = [batch |-> Last(as).batch, attempt |-> Last(as).attempt]
                   /\ f.cause \in CompatibleCauses[Last(as).class]
              ELSE noContext

\* The gate, the anchor, the frozen configuration and the cache mounts.
validate_passing_boundary(e) ==
    LET n == Cardinality(e.packages)
    IN  /\ e.packages # {} /\ e.repositories # None
        /\ e.summary = [resolved |-> n, verified |-> n, pending |-> 0]
        /\ e.gate = GateChecks /\ e.gate_count = n
        /\ e.anchor.status = "pass" /\ e.anchor.locked
        /\ e.anchor.selected = Len(e.anchor.attempts) /\ Last(e.anchor.attempts) = {}
        /\ e.frozen /\ e.local = n
        /\ e.cache.flags = CacheFlags /\ e.cache.verified = n /\ e.cache.pending = 0

\* The audit partitions the frozen package set.
validate_passing_audit(e) ==
    LET audit == e.cache.audit
    IN  /\ audit.status = "pass" /\ audit.reused \cap audit.pending = {}
        /\ audit.reused \cup audit.pending = FilesOf(e.packages)
        /\ e.cache.reused = Cardinality(audit.reused) /\ e.cached_before = audit.reused
        /\ audit.corrupt \subseteq FilesOf(e.packages)

\* Mirrors in list order from the anchor; every planned batch was fetched.
validate_passing_prefetch(e) ==
    LET as == e.cache.attempts
        batches == plan_package_prefetch_batches({p \in e.packages : p.file \in e.cache.audit.pending})
        of(b) == {i \in DOMAIN as : as[i].batch = b}
    IN  /\ e.cache.mirrors # <<>> /\ Len(e.cache.mirrors) <= MaxAttempts
        /\ e.cache.mirrors[1] = e.anchor.selected
        /\ \A i \in 1..Len(e.cache.mirrors) - 1 : e.cache.mirrors[i] < e.cache.mirrors[i + 1]
        /\ e.cache.batches = Len(batches) /\ e.cache.completed = Len(batches)
        /\ \A i \in DOMAIN as : /\ as[i].batch \in DOMAIN batches
                                /\ as[i].attempt \in DOMAIN e.cache.mirrors
                                /\ as[i].verified \cup as[i].pending \subseteq as[i].requested
                                /\ as[i].requested \subseteq FilesOf(Range(batches[as[i].batch]))
                                /\ as[i].result = "pass" => as[i].class = None
        /\ Contiguous(as)
        /\ \A b \in DOMAIN batches :
              /\ of(b) # {} /\ as[Min(of(b))].requested = FilesOf(Range(batches[b]))
              /\ as[Max(of(b))].result = "pass" /\ as[Max(of(b))].pending = {}

validate_repository_closure_report(e, r) ==
    /\ e.run = r /\ e.status \in {"pass", "fail"}
    /\ validate_package_progress_evidence(e)
    /\ validate_repository_closure_failure(e)
    /\ e.failure # NoFailure => validate_current_repository_closure_failure_consistency(e)
    /\ e.status = "pass" => /\ validate_passing_boundary(e) /\ validate_passing_audit(e)
                            /\ validate_passing_prefetch(e)

validate_native_cleanup_report(c) ==
    c.status = "pass" => c.left = {} /\ c.leaked = {} /\ c.removed

\* "none" without the file, "invalid" when it is rejected, else its status.
capture_repository_closure_record(r) ==
    IF r \notin DOMAIN report THEN None
    ELSE IF validate_repository_closure_report(report[r], r) THEN report[r].status ELSE "invalid"

capture_native_cleanup(r) ==
    IF r \notin DOMAIN cleanup THEN None
    ELSE IF validate_native_cleanup_report(cleanup[r]) THEN cleanup[r].status ELSE "invalid"

---------------------------------------------------------------------------
\* The run's metadata

Recorded(r) == [closure |-> IF capture_repository_closure_record(r) \in {"pass", "fail"}
                            THEN <<report[r]>> ELSE <<>>,
                cleanup |-> IF capture_native_cleanup(r) \in {"pass", "fail"}
                            THEN <<cleanup[r]>> ELSE <<>>]
NoRecords == [closure |-> <<>>, cleanup |-> <<>>]

\* Every file of the run that is sealed, as it stands.
SealedFiles(r, m) ==
    [meta |-> m,
     closure |-> IF r \in DOMAIN report THEN <<report[r]>> ELSE <<>>,
     cleanup |-> IF r \in DOMAIN cleanup THEN <<cleanup[r]>> ELSE <<>>,
     result |-> IF r \in DOMAIN result THEN <<result[r]>> ELSE <<>>,
     iso |-> iso[r]]

\* Metadata, checksums, metadata naming them, checksums of that.
finalize_checksums(r, m) ==
    /\ meta' = Put(meta, r, [m EXCEPT !.sealed = TRUE])
    /\ sums' = Put(sums, r, SealedFiles(r, [m EXCEPT !.sealed = TRUE]))

Metadata(status, stage, code, records) ==
    [status |-> status, stage |-> stage, code |-> code, records |-> records, sealed |-> FALSE]

fail_run(r, stage, code, records) ==
    finalize_checksums(r, Metadata(IF code = EXIT_UNRESOLVED THEN "blocked" ELSE "failed",
                                   stage, code, records))

---------------------------------------------------------------------------
\* Steps of main

\* A run id is never reused: the directory must not exist.
start_iteration ==
    /\ it.at = "idle" /\ outer.at = "idle"
    /\ \E r \in Runs \ DOMAIN meta :
         /\ \A q \in Runs \ DOMAIN meta : r <= q
         /\ it' = [at |-> "steps", step |-> 1, code |-> 0]
         /\ meta' = Put(meta, r, Metadata("running", None, 0, NoRecords))
         /\ latest' = r
    /\ UNCHANGED <<closureVars, nativeVars, sums>>

\* run_logged and run_json_step: a recorded step that fails ends the run.
run_step ==
    /\ it.at = "steps"
    /\ \/ /\ it' = IF it.step < Len(Steps) THEN [it EXCEPT !.step = @ + 1] ELSE [it EXCEPT !.at = "build"]
          /\ staged' = IF Steps[it.step] = "first-iso-staging" THEN staged \cup {latest} ELSE staged
          /\ UNCHANGED <<meta, sums>>
       \/ \E code \in {1, EXIT_UNRESOLVED, EXIT_INTERRUPTED} :
             /\ fail_run(latest, Steps[it.step], code, NoRecords)
             /\ it' = ItIdle /\ UNCHANGED staged
    /\ UNCHANGED <<closureVars, prepared, scratch, iso, result, cleanup, left, loops, outer, again, latest>>

\* portus-build build-iso: the gate and the owner's authorisation, then context.py.
execute_native_iso ==
    /\ it.at = "build"
    /\ \/ start_build_iso(latest) /\ it' = [it EXCEPT !.at = "wait"]
       \/ it' = [it EXCEPT !.at = "capture", !.code = EXIT_UNRESOLVED]
          /\ UNCHANGED <<run, at, cleanup, outer>>
    /\ UNCHANGED <<persistent, ev, w, ro, sync, restored, touched, prepared, staged, scratch, iso,
                   result, left, loops, again, meta, sums, latest>>

\* run_streamed_builder returns the builder's exit code.  After an interrupt it
\* waits for a bounded time and then kills the top-level builder only: the inner
\* process got the signal too, but the outer one may still sweep and remove.
run_streamed_builder ==
    /\ it.at = "wait"
    /\ \/ /\ outer.at = "exited" /\ outer' = OuterIdle
          /\ \/ it' = [it EXCEPT !.at = "capture", !.code = IF outer.err THEN 1 ELSE 0]
             \/ it' = [it EXCEPT !.at = "interrupted", !.code = EXIT_INTERRUPTED]
       \/ /\ outer.at = "sweep" /\ UNCHANGED outer
          /\ it' = [it EXCEPT !.at = "interrupted", !.code = EXIT_INTERRUPTED]
    /\ UNCHANGED <<closureVars, prepared, staged, scratch, iso, result, cleanup, left, loops, again,
                   meta, sums, latest>>

interrupted_build_failure(status, r) ==
    IF status = "fail" /\ report[r].failure.cause = "interrupted"
    THEN "repository-closure" ELSE "native-iso-build"

\* The except KeyboardInterrupt branch of main.
finish_interrupted ==
    /\ it.at = "interrupted" /\ it' = ItIdle
    /\ fail_run(latest, interrupted_build_failure(capture_repository_closure_record(latest), latest),
                EXIT_INTERRUPTED, Recorded(latest))
    /\ UNCHANGED <<closureVars, nativeVars, latest>>

\* Mutant: an ISO beside passing reports is taken for success.
stage_ignores_code(code, closure, clean) ==
    CASE closure # "pass" -> "repository-closure"
      [] closure = "pass" /\ clean # "pass" -> "native-cleanup"
      [] closure = "pass" /\ clean = "pass" ->
           IF iso[latest] # "artifact" THEN "artifact-discovery" ELSE None

\* The stage main reports after the builder ended; none when the run succeeded.
failing_stage(code, closure, clean) ==
    CASE closure = "invalid" -> "repository-closure"
      [] closure # "invalid" /\ clean = "invalid" -> "native-cleanup"
      [] closure # "invalid" /\ clean # "invalid" /\ code # 0 ->
           IF closure = "fail" THEN "repository-closure" ELSE "native-iso-build"
      [] closure # "invalid" /\ clean # "invalid" /\ code = 0 ->
           IF closure # "pass" THEN "repository-closure"
           ELSE IF clean # "pass" THEN "native-cleanup"
           ELSE IF iso[latest] # "artifact" THEN "artifact-discovery" ELSE None

finish ==
    LET stage == failing_stage(it.code, capture_repository_closure_record(latest),
                               capture_native_cleanup(latest))
    IN  /\ it.at = "capture" /\ it' = ItIdle
        /\ IF stage = None
           THEN finalize_checksums(latest, Metadata("succeeded", None, 0, Recorded(latest)))
           ELSE fail_run(latest, stage, IF it.code = 0 THEN 1 ELSE it.code, Recorded(latest))
        /\ UNCHANGED <<closureVars, nativeVars, latest>>

\* A build started by hand, or one whose harness is gone, ends; nobody validates
\* what it left.
hand_build_ends ==
    /\ outer.at = "exited" /\ it.at = "idle" /\ outer' = OuterIdle
    /\ UNCHANGED <<closureVars, prepared, staged, scratch, iso, result, cleanup, left, loops, again,
                   iterationVars>>

\* The build host goes down: processes, mounts and loop devices are gone.
HostCrash ==
    /\ outer.at = "inner" \/ it.at # "idle"
    /\ inner_is_gone /\ outer' = OuterIdle /\ it' = ItIdle
    /\ left' = [r \in Runs |-> {}] /\ loops' = {}
    /\ UNCHANGED <<persistent, run, prepared, staged, scratch, iso, result, cleanup, again, meta, sums,
                   latest>>
---------------------------------------------------------------------------
Init ==
    /\ cache \in Caches
    /\ owner = "user" /\ dirs = {} /\ report = <<>>
    /\ run = 0 /\ at = "dead" /\ ev = NewEvidence(0) /\ w = NoWork /\ ro = {}
    /\ sync = None /\ restored = FALSE /\ touched = {}
    /\ prepared = FALSE /\ staged = {} /\ scratch = {} /\ iso = [r \in Runs |-> None]
    /\ result = <<>> /\ cleanup = <<>> /\ left = [r \in Runs |-> {}] /\ loops = {}
    /\ outer = OuterIdle /\ again = 0
    /\ it = ItIdle /\ meta = <<>> /\ sums = <<>> /\ latest = 0

Next ==
    \/ start_iteration \/ run_step \/ execute_native_iso \/ run_streamed_builder
    \/ finish_interrupted \/ finish \/ hand_build_ends \/ HostCrash
    \/ (NativeStep \/ NativeEnvironment) /\ UNCHANGED iterationVars
    \/ BuildAgain /\ it.at = "idle" /\ UNCHANGED iterationVars

Spec == Init /\ [][Next]_vars

---------------------------------------------------------------------------
\* Properties

Progress == {"pending", "failed", "corrupt_removed"} \cup VerifiedStates

\* Every record has the shape its readers expect: the ledger only the states of
\* package_progress, the metadata only the statuses of build-run.json.
BuildTypeOK ==
    /\ DOMAIN cache = Files /\ owner \in {"user", "alpm"}
    /\ {dirs, DOMAIN report, staged, scratch, DOMAIN cleanup, DOMAIN result, loops} \subseteq SUBSET Runs
    /\ at \in DOMAIN Substage \cup {"dead", "inner", "setup", "closed", "building", "collect", "built", "raised"}
    /\ \A f \in DOMAIN ev.progress : f \in Files /\ ev.progress[f].state \in Progress
    /\ outer.at \in {"idle", "inner", "sweep", "exited"}
    /\ it.at \in {"idle", "steps", "build", "wait", "capture", "interrupted"}
    /\ DOMAIN sums \subseteq DOMAIN meta
    /\ \A r \in DOMAIN meta : meta[r].status \in {"running", "blocked", "failed", "succeeded"}

\* buildiso starts only while every resolved package in the cache has the hash
\* frozen at resolution, the databases are the frozen ones, every path buildiso
\* reads is mounted read-only, and the cache is back with its owner, although
\* pacman and other processes changed the cache in between.
BuildisoOnlyOnFrozenClosure ==
    [][at = "closed" /\ at' = "building" =>
          /\ \A p \in Resolve[report[run].repositories] : cache[p.file].sha = p.sha
          /\ Targets \subseteq {p.name : p \in ev.packages} /\ ev.packages = Resolve[sync]
          /\ RequiredMounts \subseteq ro /\ owner = "user"]_vars

\* A ledger entry that says verified speaks of a file with the frozen hash, with
\* two exceptions.  Another process may have changed the file.  And the clean
\* retry of a batch, which pacman refused although every file was right, may lose
\* a file it asks for again: the entry then stays downloaded_verified, because
\* the attempt no longer partitions its batch and record_package_progress_attempt
\* refuses it, but the closure can only fail after that.
LedgerMatchesCache ==
    at \in DOMAIN Substage =>
        /\ \A f \in DOMAIN ev.progress \ (touched \cup w.spoiled) :
              ev.progress[f].state \in VerifiedStates => cache[f].sha = Of(ev.packages, f).sha
        /\ w.spoiled # {} => at = "record" \/ (at = "batch_end" /\ IsError(w.err))

\* The cleanup evidence of an attempt that ended passes only if nothing of the
\* namespace survives and the run's scratch tree is gone.  (A later attempt for
\* the same run that the host does not survive leaves the earlier evidence.)
CleanupIsHonest ==
    \A r \in DOMAIN cleanup :
        cleanup[r].status = "pass" /\ (again = 0 \/ (r = run /\ outer.at = "exited"))
            => left[r] = {} /\ r \notin scratch

\* What the closure writes, the harness accepts: every passing report, and every
\* failing one outside package acquisition.
ReaderAcceptsWriter ==
    \A r \in DOMAIN report :
        (\/ report[r].status = "pass" /\ report[r].failure = NoFailure
         \/ report[r].failure.substage \in {"mirror-selection", "repository-sync", "resolution", "local-validation"})
            => validate_repository_closure_report(report[r], r)

\* A run that succeeded has its ISO, a closure that passed the independent
\* validation, a result bound to that very report and a clean host.
SucceededIsProven ==
    \A r \in DOMAIN meta :
        meta[r].status = "succeeded" =>
            /\ iso[r] = "artifact" /\ meta[r].records.closure = <<report[r]>>
            /\ r \in DOMAIN result /\ result[r] = report[r] /\ report[r].status = "pass"
            /\ \A i \in DOMAIN meta[r].records.cleanup : meta[r].records.cleanup[i].removed
            /\ meta[r].records.cleanup # <<>>

\* The checksums of a finished run are those of its files, the metadata that
\* names them included.  An interrupted harness, which may leave the native tree
\* at work, and a build started by hand are excepted.
SumsMatchFiles ==
    \A r \in DOMAIN sums :
        meta[r].code # EXIT_INTERRUPTED /\ again = 0
            => sums[r] = SealedFiles(r, meta[r])

\* Whatever fails, is interrupted, crashes or is started again, the records of a
\* run say what happened: the ledger of packages, the cleanup evidence, the
\* status and the checksums; and what the closure wrote its independent reader
\* accepts (prepare_repository_closure, build_iso, validate_repository_closure_report,
\* build_iteration.py main).
RunRecordIsHonest ==
    /\ BuildTypeOK /\ LedgerMatchesCache /\ CleanupIsHonest /\ SucceededIsProven
    /\ SumsMatchFiles /\ ReaderAcceptsWriter
============================================================================
