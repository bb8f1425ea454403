-------------------------- MODULE ReleaseCandidate --------------------------
(***************************************************************************)
(* The release candidate of portus-build: the directory that holds an ISO, *)
(* its metadata and pins, SHA256SUMS, and the validation harness kept      *)
(* beside them (candidate.rs, validation.rs).  Every command is a run of   *)
(* the CLI that reads the directory, checks it and rewrites some files of  *)
(* it; the operator edits evidence files at any time, a command can be     *)
(* killed between two writes or inside one, and there is no lock: commands *)
(* are run one after the other, as docs/VALIDATION.md prescribes.          *)
(*                                                                         *)
(* A file's bytes are a small number (0: no such file), and SHA-256 is     *)
(* taken to be injective, so a hash is the content it was computed from.   *)
(***************************************************************************)
EXTENDS Naturals, Sequences, SequencesExt, FiniteSets, FiniteSetsExt

CONSTANTS
  Tests,        \* the rows of the validation matrix (ISO-01..ISO-38)
  Files,        \* names of evidence files under a test's artifacts
  Groups,       \* groups of imported evidence
  Absent,       \* no such file
  Torn,         \* a file whose write was cut short
  NoRef,        \* a command record without an output file
  MaxContent,   \* distinct contents of a file
  MaxAttempt,   \* the largest attempt number of the archive (999)
  TreeLock,     \* content of the tree's package lock, 0 when it has none
  Outcomes,     \* statuses the operator records
  Exposed,      \* files of the bundle an edit can reach
  MaxRefs,      \* bound on the evidence references of one result
  MaxEdits,     \* bound on the operator's edits of evidence and ledger
  MaxSupplies,  \* bound on the operator's supplies of environments and imports
  MaxRecords,   \* bound on recorded results
  MaxCommands,  \* bound on the command records of one test
  MaxFaults     \* bound on the faults: a command killed half way, or an edit
                \* of the source ISO, the bundle or the tree

ASSUME CandidateAssumption ==
  /\ IsFiniteSet(Tests) /\ Tests # {}
  /\ IsFiniteSet(Files) /\ IsFiniteSet(Groups) /\ Groups # {}
  /\ NoRef \notin Files /\ Torn \notin Files
  /\ MaxContent \in Nat \ {0} /\ MaxAttempt \in Nat \ {0} /\ TreeLock \in 0 .. MaxContent
  /\ Outcomes \subseteq {"pass", "fail", "blocked", "not_run"}
  /\ {MaxRefs, MaxEdits, MaxSupplies, MaxRecords, MaxCommands, MaxFaults} \subseteq Nat

Statuses == {"pass", "fail", "blocked", "not_run"}
Contents == 0 .. MaxContent

\* The files SHA256SUMS seals.  "pins" stands for the package manifest and
\* the four component pins, which are copied one after the other.
BundleNames == {"candidate", "iso", "pins", "lock", "metadata"}

VARIABLES
  tree,        \* the repository: [valid, limitations, lock]
  source_iso,  \* content of the ISO given to candidate-init
  rootdir,     \* whether the candidate directory exists
  bundle,      \* BundleNames -> content; candidate and metadata hold the
               \* hash of the ISO they describe
  sums,        \* SHA256SUMS: Absent or a function from names to hashes
  result,      \* per test: Absent, Torn or [status, refs, id]
  manifest,    \* per test: Absent, Torn or [cmds, files]
  attempts,    \* per test: attempt number -> [result, manifest]
  file,        \* per test: Files -> content
  commands,    \* per test: commands.jsonl, a sequence of output references
  ledger,      \* redactions.json: forbidden material was detected
  ready,       \* [environments, imported]: what acceptance needs besides
  report,      \* validation-report.json: Absent, Torn or [status, tests, imports]
  proc,        \* the running command
  edits, supplies, records, faults,
  sealed,      \* history: the bundle when SHA256SUMS was written, and whether
               \* candidate-init then returned success
  recorded,    \* history: per test, the results whose recording succeeded
  witnessed,   \* history: per result id, the evidence hashed for it
  spoiled      \* history: a hashed file was edited, or a command was killed

disk == <<rootdir, bundle, sums, result, manifest, attempts, file, commands,
          ledger, ready, report>>
budget == <<edits, supplies, records, faults>>
history == <<sealed, recorded, witnessed, spoiled>>
vars == <<tree, source_iso, disk, proc, budget, history>>

Idle == [pc |-> "idle"]

NoBundle == [n \in BundleNames |-> 0]
NotRun == [status |-> "not_run", refs |-> {}, id |-> 0]
NoAttempts == [n \in {} |-> NotRun]
NoManifest == [cmds |-> <<>>, files |-> [f \in {} |-> 0]]

\* What a parsed result and a parsed manifest are, and what a seal is.
TestResults == [status : Statuses, refs : SUBSET Files, id : 0 .. MaxRecords]
EvidenceManifests ==
  [cmds : Seq(Files \cup {NoRef, Torn}), files : UNION {[D -> 1 .. MaxContent] : D \in SUBSET Files}]
Seals == [bundle : [BundleNames -> Contents], verified : BOOLEAN]

\* A file that is missing or cut short is not one of them.
ASSUME MarkersAssumption ==
  /\ \A m \in {Absent, Torn} : m \notin TestResults /\ m \notin EvidenceManifests
  /\ Absent \notin Seals /\ Absent # Torn

Init ==
  /\ tree \in [valid : {TRUE}, limitations : {TRUE}, lock : {TreeLock}]
  /\ source_iso = 1
  /\ rootdir = FALSE
  /\ bundle = NoBundle
  /\ sums = Absent
  /\ result = [t \in Tests |-> Absent]
  /\ manifest = [t \in Tests |-> Absent]
  /\ attempts = [t \in Tests |-> NoAttempts]
  /\ file = [t \in Tests |-> [f \in Files |-> 0]]
  /\ commands = [t \in Tests |-> <<>>]
  /\ ledger = FALSE
  /\ ready = [environments |-> FALSE, imported |-> [g \in Groups |-> Absent]]
  /\ report = Absent
  /\ proc = Idle
  /\ edits = 0 /\ supplies = 0 /\ records = 0 /\ faults = 0
  /\ sealed = Absent
  /\ recorded = [t \in Tests |-> {}]
  /\ witnessed = [i \in {} |-> NoManifest]
  /\ spoiled = FALSE

(***************************************************************************)
(* Readers: what a command accepts from the directory.                     *)
(***************************************************************************)
Readable(x) == x \notin {Absent, Torn}

\* read_candidate: candidate.json parses and names this directory.
read_candidate == rootdir /\ bundle["candidate"] # 0

\* validation_plan: the matrix of a valid tree lists exactly the tests.
validation_plan == tree.valid

\* What a result may say: a pass shows passing assertions, evidence and
\* redaction; a fail shows a failed assertion or a note, and no blocking
\* reason; blocked and not_run give the reason.
validate_result_against_plan(r) ==
  CASE r.status = "pass" -> r.asserted = "passing" /\ r.refs # {} /\ r.redacted
                            /\ ~ r.reason
    [] r.status = "fail" -> (r.asserted # "passing" \/ r.noted) /\ ~ r.reason
    [] OTHER -> r.reason

\* The results an operator can submit, reduced to what is kept of them.
Submissions ==
  {[status |-> r.status, refs |-> r.refs] : r \in
     {x \in [status : Outcomes, refs : {R \in SUBSET Files : Cardinality(R) <= MaxRefs},
             asserted : {"none", "passing", "failing"},
             redacted : BOOLEAN, reason : BOOLEAN, noted : BOOLEAN] :
        /\ x.asserted # "none" => x.refs # {}
        /\ validate_result_against_plan(x)}}

command_refs(t) == Range(commands[t]) \ {NoRef}
\* Every line of commands.jsonl is a valid record.
commands_parse(t) == Torn \notin Range(commands[t])

\* A reference names an existing regular file under the test's directory.
resolve_existing_regular(t, f) == file[t][f] # 0

validate_result_evidence(t, refs) == \A f \in refs : resolve_existing_regular(t, f)

\* build_evidence_manifest: the references of the result, commands.jsonl and
\* every output its records name, each hashed; an error when one is missing.
manifest_buildable(t, refs) ==
  commands_parse(t) /\ \A f \in refs \cup command_refs(t) : resolve_existing_regular(t, f)
build_evidence_manifest(t, refs) ==
  [cmds |-> commands[t],
   files |-> [f \in refs \cup command_refs(t) |-> file[t][f]]]

\* Mutant: the verifier looks for the files and not at their hashes.
files_present_only(t, m, allow_commands_append) ==
  \A f \in DOMAIN m.files : file[t][f] # 0

\* verify_manifest_files: the files still have the hashed bytes; for the
\* archive commands.jsonl may have grown after the hashed prefix.
verify_manifest_files(t, m, allow_commands_append) ==
  /\ \A f \in DOMAIN m.files : resolve_existing_regular(t, f) /\ file[t][f] = m.files[f]
  /\ IF allow_commands_append THEN IsPrefix(m.cmds, commands[t])
                              ELSE m.cmds = commands[t]

verify_evidence_manifest(t, refs) ==
  /\ Readable(manifest[t])
  /\ verify_manifest_files(t, manifest[t], FALSE)
  /\ manifest_buildable(t, refs)
  /\ DOMAIN manifest[t].files = refs \cup command_refs(t)

verify_evidence_manifest_for_archive(t) ==
  Readable(manifest[t]) /\ verify_manifest_files(t, manifest[t], TRUE)

\* verify_archived_attempts: every archived result parses and comes with a
\* manifest whose files are unchanged.
verify_archived_attempts(t) ==
  \A n \in DOMAIN attempts[t] :
     /\ Readable(attempts[t][n].result)
     /\ Readable(attempts[t][n].manifest)
     /\ verify_manifest_files(t, attempts[t][n].manifest, TRUE)

\* One more than the largest number in the archive.
next_attempt_number(t) == Max({0} \cup DOMAIN attempts[t]) + 1

result_verifies(t) ==
  /\ Readable(result[t])
  /\ result[t].status # "not_run" => verify_evidence_manifest(t, result[t].refs)

Count(s) == Cardinality({t \in Tests : result[t].status = s})

\* validate_import_refs and imported_groups_pass, for one reference a group.
validate_import_refs(given) == \A g \in given : ready.imported[g] # Absent
imported_groups_pass(given) ==
  given = Groups /\ \A g \in given : ready.imported[g] = "pass"

\* The status of a report over the results on disk.
adjudicate(given) ==
  LET rejected == Count("fail") > 0 \/ ledger
  IN  IF /\ Count("pass") = Cardinality(Tests) /\ ~ rejected
         /\ ready.environments /\ tree.limitations
         /\ imported_groups_pass(given)
      THEN "accepted"
      ELSE IF rejected THEN "rejected" ELSE "incomplete"

\* verify_report_file: the report lists the current statuses and repeats the
\* adjudication.
verify_report_file ==
  /\ Readable(report)
  /\ \A t \in Tests : report.tests[t] = result[t].status
  /\ validate_import_refs(report.imports)
  /\ report.status = adjudicate(report.imports)

verify_validation_harness ==
  /\ read_candidate /\ validation_plan
  /\ \A t \in Tests : result_verifies(t) /\ verify_archived_attempts(t)
  /\ report # Absent => verify_report_file

verify_build_candidate_linkage == bundle["metadata"] = bundle["candidate"]

immutable_bundle_names ==
  BundleNames \ (IF bundle["lock"] = 0 THEN {"lock"} ELSE {})

bundle_complete == \A n \in immutable_bundle_names : bundle[n] # 0

\* Mutant: the copied ISO is not compared with candidate.json.
iso_trusted == bundle["iso"] # 0

iso_matches == bundle["iso"] = bundle["candidate"]

verify_candidate_bundle ==
  /\ tree.valid /\ read_candidate
  /\ verify_build_candidate_linkage
  /\ iso_matches
  /\ bundle_complete
  /\ sums # Absent /\ DOMAIN sums = immutable_bundle_names
  /\ \A n \in DOMAIN sums : bundle[n] = sums[n]
  /\ verify_validation_harness

(***************************************************************************)
(* candidate-init.  The ISO is read twice, once to hash it and once to copy*)
(* it; a failure after the harness exists removes the directory.           *)
(***************************************************************************)

\* The identity of a candidate: a development candidate carries no version, a
\* public one needs it, and the number is positive.
expected_candidate_identity(input) ==
  /\ input.rc_number > 0
  /\ \/ input.release_class = "development_rc" /\ ~ input.version
     \/ input.release_class = "public_rc" /\ input.version

\* A public candidate is built from a clean tree.
validate_metadata_input(input) ==
  /\ expected_candidate_identity(input)
  /\ input.release_class = "public_rc" => input.source_tree_clean

InitInputs ==
  [release_class : {"development_rc", "public_rc"}, version : BOOLEAN,
   rc_number : {0, 1}, source_tree_clean : BOOLEAN]

\* initialize_candidate_to up to build_metadata_preview: the input is valid
\* and the ISO is hashed; materialize_validation_harness refuses a directory
\* that exists.
candidate_init ==
  /\ proc = Idle
  /\ \E input \in InitInputs : validate_metadata_input(input)
  /\ tree.valid /\ source_iso # 0
  /\ ~ rootdir
  /\ proc' = [pc |-> "materialize", hash |-> source_iso]
  /\ UNCHANGED <<tree, source_iso, disk, budget, history>>

materialize_validation_harness ==
  /\ proc.pc = "materialize"
  /\ rootdir' = TRUE
  /\ bundle' = [NoBundle EXCEPT !["candidate"] = proc.hash]
  /\ ledger' = FALSE
  /\ commands' = [t \in Tests |-> <<>>]
  /\ result' = [t \in Tests |-> NotRun]
  /\ proc' = [proc EXCEPT !.pc = "copy"]
  /\ UNCHANGED <<tree, source_iso, sums, manifest, attempts, file, ready,
                 report, budget, history>>

\* The ISO, the pins and, when the tree has one, the package lock are copied.
copy_bundle ==
  /\ proc.pc = "copy"
  /\ source_iso # 0
  /\ bundle' = [bundle EXCEPT !["iso"] = source_iso, !["pins"] = 1,
                              !["lock"] = tree.lock]
  /\ proc' = [proc EXCEPT !.pc = "seal"]
  /\ UNCHANGED <<tree, source_iso, rootdir, sums, result, manifest, attempts,
                 file, commands, ledger, ready, report, budget, history>>

\* The metadata of the hashed ISO, then SHA256SUMS over the files as they
\* are on disk.
seal_bundle ==
  /\ proc.pc = "seal"
  /\ LET b == [bundle EXCEPT !["metadata"] = proc.hash]
     IN  /\ bundle' = b
         /\ sums' = [n \in BundleNames \ (IF b["lock"] = 0 THEN {"lock"} ELSE {})
                       |-> b[n]]
         /\ sealed' = [bundle |-> b, verified |-> FALSE]
  /\ proc' = [proc EXCEPT !.pc = "initial_report"]
  /\ UNCHANGED <<tree, source_iso, rootdir, result, manifest, attempts, file,
                 commands, ledger, ready, report, budget, recorded, witnessed, spoiled>>

report_of(given) ==
  [status |-> adjudicate(given), tests |-> [t \in Tests |-> result[t].status],
   imports |-> given]

initial_report ==
  /\ proc.pc = "initial_report"
  /\ tree.valid /\ \A t \in Tests : result_verifies(t)
  /\ report' = report_of({})
  /\ report'.status = "incomplete" /\ Count("not_run") = Cardinality(Tests)
  /\ proc' = [proc EXCEPT !.pc = "verify_fresh"]
  /\ UNCHANGED <<tree, source_iso, rootdir, bundle, sums, result, manifest,
                 attempts, file, commands, ledger, ready, budget, history>>

\* The fresh candidate must verify before init reports success.
verify_fresh ==
  /\ proc.pc = "verify_fresh"
  /\ verify_candidate_bundle
  /\ Count("not_run") = Cardinality(Tests)
  /\ sealed' = [sealed EXCEPT !.verified = TRUE]
  /\ proc' = Idle
  /\ UNCHANGED <<tree, source_iso, disk, budget, recorded, witnessed, spoiled>>

\* Any step of init failed: the directory is removed.
InitPcs == {"copy", "seal", "initial_report", "verify_fresh"}
clear_root ==
  /\ rootdir' = FALSE
  /\ bundle' = NoBundle /\ sums' = Absent /\ report' = Absent
  /\ result' = [t \in Tests |-> Absent]
  /\ manifest' = [t \in Tests |-> Absent]
  /\ attempts' = [t \in Tests |-> NoAttempts]
  /\ file' = [t \in Tests |-> [f \in Files |-> 0]]
  /\ commands' = [t \in Tests |-> <<>>]
  /\ ledger' = FALSE
  /\ ready' = [environments |-> FALSE, imported |-> [g \in Groups |-> Absent]]

init_fails ==
  /\ proc.pc \in InitPcs
  /\ clear_root
  /\ sealed' = Absent
  /\ proc' = Idle
  /\ UNCHANGED <<tree, source_iso, budget, recorded, witnessed, spoiled>>

(***************************************************************************)
(* The validation commands.                                                *)
(***************************************************************************)

\* append_validation_command: the sequence is contiguous and the output
\* exists; one line is appended.
append_validation_command(t, ref) ==
  /\ proc = Idle
  /\ read_candidate /\ validation_plan
  /\ ref # NoRef => resolve_existing_regular(t, ref)
  /\ commands_parse(t)
  /\ Len(commands[t]) < MaxCommands
  /\ commands' = [commands EXCEPT ![t] = Append(@, ref)]
  /\ UNCHANGED <<tree, source_iso, rootdir, bundle, sums, result, manifest,
                 attempts, file, ledger, ready, report, proc, budget, history>>

\* Mutant: only failures are worth archiving.
archive_failures_only(prior) == prior.status = "fail"

\* record_validation_result: the result and its evidence are valid, and so is
\* the prior one; an executed prior result is archived first, which needs its
\* evidence unchanged and a number left.
must_archive(prior) == prior.status # "not_run"

record_validation_result(t, r) ==
  /\ proc = Idle
  /\ records < MaxRecords
  /\ read_candidate /\ validation_plan
  /\ validate_result_evidence(t, r.refs)
  /\ Readable(result[t])
  /\ must_archive(result[t]) =>
       verify_evidence_manifest_for_archive(t) /\ next_attempt_number(t) <= MaxAttempt
  /\ records' = records + 1
  /\ proc' = [pc |-> IF must_archive(result[t]) THEN "archive_result" ELSE "hash",
              test |-> t, next |-> next_attempt_number(t),
              new |-> [status |-> r.status, refs |-> r.refs, id |-> records + 1]]
  /\ UNCHANGED <<tree, source_iso, disk, edits, supplies, faults, history>>

\* archive_prior_attempt copies the result, then the manifest.
archive_result ==
  /\ proc.pc = "archive_result"
  /\ attempts' = [attempts EXCEPT ![proc.test] =
        [n \in DOMAIN @ \cup {proc.next} |->
           IF n = proc.next
           THEN [result |-> result[proc.test],
                 manifest |-> IF n \in DOMAIN @ THEN @[n].manifest ELSE Absent]
           ELSE @[n]]]
  /\ proc' = [proc EXCEPT !.pc = "archive_manifest"]
  /\ UNCHANGED <<tree, source_iso, rootdir, bundle, sums, result, manifest, file,
                 commands, ledger, ready, report, budget, history>>

archive_manifest ==
  /\ proc.pc = "archive_manifest"
  /\ attempts' = [attempts EXCEPT ![proc.test][proc.next].manifest =
                     manifest[proc.test]]
  /\ proc' = [proc EXCEPT !.pc = "hash"]
  /\ UNCHANGED <<tree, source_iso, rootdir, bundle, sums, result, manifest, file,
                 commands, ledger, ready, report, budget, history>>

\* The manifest of the new result is built; an error ends the command.
hash_evidence ==
  /\ proc.pc = "hash"
  /\ IF manifest_buildable(proc.test, proc.new.refs)
     THEN proc' = [pc |-> "write_manifest", test |-> proc.test, new |-> proc.new,
                   hashed |-> build_evidence_manifest(proc.test, proc.new.refs)]
     ELSE proc' = Idle
  /\ UNCHANGED <<tree, source_iso, disk, budget, history>>

write_manifest ==
  /\ proc.pc = "write_manifest"
  /\ manifest' = [manifest EXCEPT ![proc.test] = proc.hashed]
  /\ witnessed' = [i \in DOMAIN witnessed \cup {proc.new.id} |->
                     IF i = proc.new.id THEN proc.hashed ELSE witnessed[i]]
  /\ proc' = [proc EXCEPT !.pc = "write_result"]
  /\ UNCHANGED <<tree, source_iso, rootdir, bundle, sums, result, attempts, file,
                 commands, ledger, ready, report, budget, sealed, recorded, spoiled>>

write_result ==
  /\ proc.pc = "write_result"
  /\ result' = [result EXCEPT ![proc.test] = proc.new]
  /\ recorded' = [recorded EXCEPT ![proc.test] = @ \cup {proc.new}]
  /\ proc' = Idle
  /\ UNCHANGED <<tree, source_iso, rootdir, bundle, sums, manifest, attempts, file,
                 commands, ledger, ready, report, budget, sealed, witnessed, spoiled>>

record_redaction_ledger(forbidden) ==
  /\ proc = Idle
  /\ edits < MaxEdits /\ ledger # forbidden
  /\ edits' = edits + 1
  /\ read_candidate
  /\ ledger' = forbidden
  /\ UNCHANGED <<tree, source_iso, rootdir, bundle, sums, result, manifest, attempts,
                 file, commands, ready, report, proc, supplies, records, faults, history>>

\* aggregate_validation_report: every executed result verifies, the imported
\* files exist, and the adjudication is written.
aggregate_validation_report(given) ==
  /\ proc = Idle
  /\ read_candidate /\ validation_plan
  /\ \A t \in Tests : result_verifies(t)
  /\ validate_import_refs(given)
  /\ report' = report_of(given)
  /\ UNCHANGED <<tree, source_iso, rootdir, bundle, sums, result, manifest, attempts,
                 file, commands, ledger, ready, proc, budget, history>>

(***************************************************************************)
(* The environment.                                                        *)
(***************************************************************************)
Hashed(t, f) ==
  \/ Readable(manifest[t]) /\ f \in DOMAIN manifest[t].files
  \/ \E n \in DOMAIN attempts[t] : /\ Readable(attempts[t][n].manifest)
                                   /\ f \in DOMAIN attempts[t][n].manifest.files
  \/ proc.pc \in {"write_manifest"} /\ proc.test = t /\ f \in DOMAIN proc.hashed.files

\* The operator writes, rewrites or removes an evidence file.
EditEvidence(t, f, c) ==
  /\ sealed # Absent /\ proc.pc \notin InitPcs
  /\ edits < MaxEdits /\ file[t][f] # c
  /\ edits' = edits + 1
  /\ file' = [file EXCEPT ![t][f] = c]
  /\ spoiled' = (spoiled \/ Hashed(t, f))
  /\ UNCHANGED <<tree, source_iso, rootdir, bundle, sums, result, manifest, attempts,
                 commands, ledger, ready, report, proc, supplies, records, faults,
                 sealed, recorded, witnessed>>

\* The operator supplies or replaces the environment descriptions
\* and the imported evidence.
Supply ==
  /\ sealed # Absent /\ proc = Idle
  /\ supplies < MaxSupplies
  /\ supplies' = supplies + 1
  /\ \E i \in [Groups -> {"pass", "fail"}] :
        ready' = [environments |-> TRUE, imported |-> i] /\ ready' # ready
  /\ UNCHANGED <<tree, source_iso, rootdir, bundle, sums, result, manifest, attempts,
                 file, commands, ledger, report, proc, edits, records, faults, history>>

\* The source ISO is rebuilt (which matters until it is copied), the tree edited,
\* or a file of the bundle changed.
Swap ==
  /\ faults < MaxFaults
  /\ faults' = faults + 1
  /\ \/ /\ ~ rootdir \/ proc.pc = "copy"
        /\ \E c \in Contents \ {source_iso} : source_iso' = c
        /\ UNCHANGED <<tree, bundle>>
     \/ /\ \/ proc # Idle /\ tree' = [tree EXCEPT !.valid = ~ @]
           \/ proc = Idle /\ tree' = [tree EXCEPT !.limitations = ~ @]
        /\ UNCHANGED <<source_iso, bundle>>
     \/ /\ rootdir /\ proc = Idle
        /\ \E n \in Exposed, c \in Contents :
              bundle[n] # c /\ bundle' = [bundle EXCEPT ![n] = c]
        /\ UNCHANGED <<tree, source_iso>>
  /\ UNCHANGED <<rootdir, sums, result, manifest, attempts, file, commands, ledger,
                 ready, report, proc, edits, supplies, records, history>>

\* The command is killed: the file it was writing is as before or torn.
Crash ==
  /\ proc # Idle /\ faults < MaxFaults
  /\ faults' = faults + 1
  /\ spoiled' = TRUE
  /\ proc' = Idle
  /\ \/ UNCHANGED disk
     \/ /\ proc.pc = "archive_result" /\ proc.next \notin DOMAIN attempts[proc.test]
        /\ attempts' = [attempts EXCEPT ![proc.test] =
             [n \in DOMAIN @ \cup {proc.next} |->
                IF n = proc.next THEN [result |-> Torn, manifest |-> Absent] ELSE @[n]]]
        /\ UNCHANGED <<rootdir, bundle, sums, result, manifest, file, commands, ledger,
                       ready, report>>
     \/ /\ proc.pc = "archive_manifest"
        /\ attempts' = [attempts EXCEPT ![proc.test][proc.next].manifest = Torn]
        /\ UNCHANGED <<rootdir, bundle, sums, result, manifest, file, commands, ledger,
                       ready, report>>
     \/ /\ proc.pc = "write_manifest"
        /\ manifest' = [manifest EXCEPT ![proc.test] = Torn]
        /\ UNCHANGED <<rootdir, bundle, sums, result, attempts, file, commands, ledger,
                       ready, report>>
     \/ /\ proc.pc = "write_result"
        /\ result' = [result EXCEPT ![proc.test] = Torn]
        /\ UNCHANGED <<rootdir, bundle, sums, manifest, attempts, file, commands, ledger,
                       ready, report>>
  /\ UNCHANGED <<tree, source_iso, edits, supplies, records, sealed, recorded, witnessed>>

\* A command of one write is killed inside it.
CrashSingleWrite ==
  /\ proc = Idle /\ faults < MaxFaults
  /\ read_candidate /\ validation_plan
  /\ faults' = faults + 1
  /\ spoiled' = TRUE
  /\ \/ /\ report' = Torn
        /\ \A t \in Tests : result_verifies(t)
        /\ UNCHANGED commands
     \/ /\ \E t \in Tests :
             /\ commands_parse(t) /\ Len(commands[t]) < MaxCommands
             /\ commands' = [commands EXCEPT ![t] = Append(@, Torn)]
        /\ UNCHANGED report
  /\ UNCHANGED <<tree, source_iso, rootdir, bundle, sums, result, manifest, attempts,
                 file, ledger, ready, proc, edits, supplies, records, sealed, recorded,
                 witnessed>>

Next ==
  \/ candidate_init \/ materialize_validation_harness \/ copy_bundle \/ seal_bundle
  \/ initial_report \/ verify_fresh \/ init_fails
  \/ \E t \in Tests, ref \in Files \cup {NoRef} : append_validation_command(t, ref)
  \/ \E t \in Tests, r \in Submissions : record_validation_result(t, r)
  \/ archive_result \/ archive_manifest \/ hash_evidence
  \/ write_manifest \/ write_result
  \/ \E forbidden \in BOOLEAN : record_redaction_ledger(forbidden)
  \/ \E given \in SUBSET Groups : aggregate_validation_report(given)
  \/ \E t \in Tests, f \in Files, c \in Contents : EditEvidence(t, f, c)
  \/ Supply \/ Swap \/ Crash \/ CrashSingleWrite

Spec == Init /\ [][Next]_vars

(***************************************************************************)
(* Properties.                                                             *)
(***************************************************************************)
ManifestOK(m) ==
  m \in {Absent, Torn} \/ \A f \in DOMAIN m.files : f \in Files /\ m.files[f] \in 1 .. MaxContent
ResultOK(r) ==
  r \in {Absent, Torn} \/ (r.status \in Statuses /\ r.refs \subseteq Files /\ r.id \in 0 .. MaxRecords)

\* Every file of the directory has the shape its reader expects; a manifest
\* never records a file that was not there when it was hashed.
TypeOK ==
  /\ source_iso \in Contents /\ rootdir \in BOOLEAN /\ ledger \in BOOLEAN
  /\ bundle \in [BundleNames -> Contents]
  /\ \A t \in Tests :
       /\ ResultOK(result[t]) /\ ManifestOK(manifest[t])
       /\ DOMAIN attempts[t] \subseteq 1 .. MaxAttempt
       /\ \A n \in DOMAIN attempts[t] :
            ResultOK(attempts[t][n].result) /\ ManifestOK(attempts[t][n].manifest)
       /\ file[t] \in [Files -> Contents]
       /\ Range(commands[t]) \subseteq Files \cup {NoRef, Torn}

\* A candidate that candidate-verify accepts with an accepted report is the
\* bundle init sealed, every test's current result is a recorded pass, and
\* the evidence on disk is the evidence hashed when that very result was
\* recorded, whatever was edited, retried or killed in between
\* (verify_candidate_bundle, verify_validation_harness).
AcceptedIsReal ==
  (verify_candidate_bundle /\ report # Absent /\ report.status = "accepted") =>
    /\ bundle = sealed.bundle
    /\ ~ ledger
    /\ \A t \in Tests :
         /\ result[t] \in recorded[t] /\ result[t].status = "pass"
         /\ \A f \in result[t].refs : file[t][f] = witnessed[result[t].id].files[f]

\* No recorded outcome is lost: it is the current result of its test, or it
\* is in the archive together with the manifest hashed for it, also when a
\* retry is killed between the copies and the writes
\* (record_validation_result, archive_prior_attempt).
HistoryKept ==
  \A t \in Tests : \A r \in recorded[t] :
    r.status # "not_run" =>
      \/ r = result[t]
      \/ \E n \in DOMAIN attempts[t] :
            attempts[t][n].result = r /\ attempts[t][n].manifest = witnessed[r.id]

\* As long as no hashed file is edited and no command is killed, everything
\* the recorder wrote still verifies: a growing commands.jsonl and later
\* attempts do not invalidate earlier ones (verify_archived_attempts,
\* verify_manifest_files).
HonestHistoryVerifies ==
  (~ spoiled /\ proc = Idle /\ rootdir) =>
    \A t \in Tests :
      /\ verify_archived_attempts(t)
      /\ result[t].status # "not_run" => verify_evidence_manifest_for_archive(t)

\* candidate-init leaves either no directory or one it has verified, whose
\* ISO is the ISO named by candidate.json and by the metadata, although the
\* source ISO is read twice (initialize_candidate_to).
InitAllOrNothing ==
  /\ (proc = Idle /\ rootdir /\ ~ spoiled) => sealed # Absent /\ sealed.verified
  /\ (sealed # Absent /\ sealed.verified) =>
       sealed.bundle["candidate"] \in {sealed.bundle["iso"]} \cap {sealed.bundle["metadata"]}

\* The history of a candidate holds: no recorded outcome is lost, and what was
\* recorded honestly keeps verifying, across edits, retries and killed commands.
HistoryHolds == TypeOK /\ HistoryKept /\ HonestHistoryVerifies

\* A candidate is what it says, from candidate-init to the accepted report.
CandidateIsReal == AcceptedIsReal /\ InitAllOrNothing
=============================================================================
