------------------------------ MODULE BuildPlan ------------------------------
(***************************************************************************)
(* The contract graph of the image and the commands of portus-build that   *)
(* read it: validate, plan, render, stage-portus, metadata and the gate of *)
(* build-iso.  Every command first validates the whole graph, reading one  *)
(* document after another, and then reads again those it works from: the   *)
(* authors of the repository may change a document between any two reads.  *)
(* Destructive plans are prepared from a disk plan and confirmed by a hash.*)
(*                                                                         *)
(* A document is what its readers tell apart: the facts that are resolved  *)
(* or not, the numbers that are computed with, and flags for the rest of   *)
(* its fields, which must have the values the code compares them with.     *)
(***************************************************************************)
EXTENDS Integers, Sequences, FiniteSets

CONSTANTS
  PackageIds,        \* the roles of packages.yaml
  PackageNames,      \* names of packages
  LiveOnlyPackages,  \* those that only the live session has
  ServiceIds,        \* the machine services
  ServiceNames,      \* names of OpenRC services
  FirstRepositories, \* what the documents may be at first
  Editions,          \* what the authors may make of each document
  DiskSizes,         \* sizes a plan is asked for, in MiB
  TargetDisks,       \* device paths
  NoFile,            \* no such document; no plan
  MaxU64,            \* the largest u64
  MaxDocumentEdits, MaxPlanCommands

ContractResolutions == {"locked", "linux-verified", "owner-decision", "generated"}

\* A value (a pin, a digest, a module set) and a piece of evidence.
ResolvedValue == [resolution : ContractResolutions, concrete : BOOLEAN, reason : BOOLEAN]

SourceClass ==
  {"official-artix", "portus-owned", "approved-external", "validation-only", "hardware-selected"}

\* A role of the inventory: selected packages, or a reference to another contract.
\* clean: its names are distinct, not empty and free of white space.
PackageEntry ==
  [class : SourceClass, build_host : BOOLEAN, kind : {"package", "contract", "neither"},
   resolution : ContractResolutions, names : SUBSET PackageNames, clean : BOOLEAN,
   reason : BOOLEAN]
\* inventory: what both readers check of the list; policies: what only the first one does.
PackageSourceContract ==
  [inventory : BOOLEAN, policies : BOOLEAN, packages : [PackageIds -> PackageEntry]]

BaseService ==
  [package_id : PackageIds \cup {NoFile}, openrc : BOOLEAN, service : ContractResolutions,
   runlevel : ContractResolutions, service_name : ServiceNames \cup {NoFile}, placed : BOOLEAN,
   reason : BOOLEAN]
ServiceContract ==
  [authority : BOOLEAN, exact : BOOLEAN, services : [ServiceIds -> BaseService]]

\* What the live session starts, in the order of the services, and the packages of
\* the two layers of the image; the profile that every image has in common, with
\* the memory test among its boot packages or not.
ArtoolsProfileDocument ==
  [fixed : BOOLEAN, services : [ServiceIds -> ServiceNames \cup {NoFile}],
   rootfs : SUBSET PackageNames, livefs : SUBSET PackageNames]
ArtoolsCommonProfile == [memtest : BOOLEAN, packages : SUBSET PackageNames]

\* The lock generated from one state of packages.yaml.
PackageLock ==
  [sound : BOOLEAN, source : PackageSourceContract, classes : [PackageIds -> SourceClass],
   artifacts : [PackageIds -> SUBSET PackageNames]]

StorageContract ==
  [fixed : BOOLEAN, esp : Nat, boot : Nat, swap : Nat, percent : Nat]
VmContracts == [locked : BOOLEAN, shape : BOOLEAN, exact : BOOLEAN, disk_gib : Nat]
ComponentContract == [fixed : BOOLEAN, pin : ResolvedValue, evidence : ResolvedValue]
CalamaresContract ==
  [fixed : BOOLEAN, module_set : ResolvedValue, storage_implementation : ResolvedValue]
IsoContract == [fixed : BOOLEAN, artools_profile : ResolvedValue]
Artifact == [regular : BOOLEAN, size : Nat, bytes : Nat]

Components == {"codex", "portus-browser", "portus-mcp", "tunnel-client", "portus-bridge"}
\* Documents of which nothing but their being right matters.
PlainDocuments == {"build", "matrix", "schemas", "layout"}
Documents ==
  PlainDocuments \cup Components \cup
  {"packages", "services", "lock", "storage", "vms", "identities", "calamares", "iso",
   "install", "artools", "profile", "common", "responsibilities", "artifact"}
ContentsOf ==
  [d \in Documents |->
     CASE d \in PlainDocuments -> [fixed : BOOLEAN]
       [] d \in Components     -> ComponentContract
       [] d = "packages"       -> PackageSourceContract
       [] d = "services"       -> ServiceContract
       [] d = "lock"           -> PackageLock \cup {NoFile}
       [] d = "storage"        -> StorageContract
       [] d = "vms"            -> VmContracts
       [] d = "identities"     -> [fixed : BOOLEAN, resolutions : BOOLEAN]
       [] d = "calamares"      -> CalamaresContract
       [] d = "iso"            -> IsoContract
       [] d = "install"        -> [fixed : BOOLEAN, release_ready : BOOLEAN]
       [] d = "profile"        -> ArtoolsProfileDocument
       [] d = "common"         -> ArtoolsCommonProfile
       [] d = "artifact"       -> Artifact
       [] OTHER                -> [fixed : BOOLEAN, mapping : ContractResolutions]]

ASSUME BuildPlanAssumption ==
  /\ IsFiniteSet(PackageIds) /\ IsFiniteSet(ServiceIds)
  /\ NoFile \notin PackageIds \cup ServiceNames /\ NoFile \notin PackageLock
  /\ \A first \in FirstRepositories :
       DOMAIN first = Documents /\ \A d \in Documents : first[d] \in ContentsOf[d]
  /\ \A d \in Documents : Editions[d] \subseteq ContentsOf[d]
  /\ DiskSizes \subseteq 0 .. MaxU64
  /\ {MaxU64, MaxDocumentEdits, MaxPlanCommands} \subseteq Nat

VARIABLES
  repo,        \* the documents
  command,     \* the command that runs, or the last one
  reads,       \* what it read, by reader and document
  graph,       \* the report of validate_repository
  verdict,     \* how it ended, and the plan it printed
  prepared,    \* the destructive plan
  noted,       \* the hash the owner copied from the plan that was shown
  approved,    \* history: what was shown with that hash
  confirmed,   \* history: the plans whose confirmation matched, with what was shown
  quiet,       \* history: no document changed since the command began
  planned,     \* commands so far
  redone       \* edits so far

planVars == <<repo, command, reads, graph, verdict, prepared, noted, approved, confirmed, quiet,
              planned, redone>>

(***************************************************************************)
(* The contract graph: what validate_repository accepts.                   *)
(***************************************************************************)
validate_resolved_value(v) ==
  IF v.resolution = "locked" THEN v.concrete
  ELSE ~v.concrete /\ (v.resolution # "generated" => v.reason)

validate_evidence_resolution(v) ==
  (v.resolution = "locked" <=> v.concrete) /\ v.reason

\* Mutant: an open role needs no reason.
reason_not_required(p) ==
  p.clean /\ IF p.resolution = "locked" THEN p.names # {} /\ ~p.reason ELSE p.names = {}

validate_package_resolution(p) ==
  /\ p.clean
  /\ IF p.resolution = "locked" THEN p.names # {} /\ ~p.reason ELSE p.names = {} /\ p.reason

Packaged == {"official-artix", "validation-only", "hardware-selected"}

validate_package_source(c) ==
  /\ c.inventory /\ c.policies
  /\ \A id \in PackageIds :
       LET p == c.packages[id] IN
         /\ p.kind = IF p.class \in Packaged THEN "package" ELSE "contract"
         /\ p.kind = "package" => validate_package_resolution(p)

\* Both components are pinned by the code itself.
validate_component(d, c) ==
  /\ c.fixed /\ (d \in {"codex", "tunnel-client"} => c.pin.concrete)
  /\ validate_resolved_value(c.pin) /\ validate_evidence_resolution(c.evidence)

validate_storage_contract(c) ==
  c.fixed /\ c.esp = 512 /\ c.boot = 2048 /\ c.swap = 4096 /\ c.percent = 5

validate_vm_profiles(c) == c.locked /\ c.shape /\ c.exact /\ c.disk_gib = 40

BothLocked(s) == s.service = "locked" /\ s.runlevel = "locked"
ServiceSelected(s) == s.service_name # NoFile /\ s.placed /\ ~s.reason

validate_base_services(c, packages) ==
  /\ c.authority /\ c.exact
  /\ \A id \in ServiceIds :
       LET s == c.services[id] IN
         /\ s.package_id \in PackageIds /\ s.openrc
         /\ packages.packages[s.package_id].class = "official-artix"
         /\ IF BothLocked(s) THEN ServiceSelected(s) ELSE s.service_name = NoFile /\ ~s.placed /\ s.reason

validate_calamares(c) ==
  /\ c.fixed
  /\ validate_resolved_value(c.module_set) /\ c.module_set.resolution = "locked"
  /\ validate_resolved_value(c.storage_implementation)
  /\ c.storage_implementation.resolution = "linux-verified"

validate_iso(c) == c.fixed /\ validate_resolved_value(c.artools_profile)

validate_identity_contract(c) == c.fixed /\ c.resolutions

\* The composition root, the matrix, the schemas with the scan for secrets: every
\* field and reference is what the code compares it with.
validate_fixed_document(c) == c.fixed

validate_builder_layout(c) == c.fixed
validate_artools_adapter(c) == c.fixed /\ c.mapping = "locked"

services_are_selected(services) ==
  \A id \in ServiceIds : services.services[id].service_name # NoFile

\* The roles whose packages are in the image, and those packages.
ImageRoles(packages) ==
  {id \in PackageIds :
     packages.packages[id].class = "official-artix" /\ ~packages.packages[id].build_host}
ImagePackages(packages) == UNION {packages.packages[id].names : id \in ImageRoles(packages)}

\* The profile of the image carries what the inventory and the services say, all of it settled.
validate_artools_profile_sources(profile, common, packages, services) ==
  /\ profile.fixed /\ services_are_selected(services)
  /\ profile.services = [id \in ServiceIds |-> services.services[id].service_name]
  /\ \A id \in ImageRoles(packages) :
       packages.packages[id].kind = "package" /\ packages.packages[id].resolution = "locked"
  /\ common.memtest
  /\ profile.rootfs \cup common.packages = ImagePackages(packages) \ LiveOnlyPackages
  /\ profile.livefs = LiveOnlyPackages

validate_calamares_adapter(c) == c.fixed /\ c.mapping = "locked"

validate_package_lock_data(lock, packages, source) ==
  /\ lock.sound /\ lock.source = source
  /\ \A id \in PackageIds :
       LET p == packages.packages[id] IN
         /\ lock.classes[id] = p.class /\ lock.artifacts[id] # {}
         /\ p.class = "official-artix" => p.resolution = "locked" /\ lock.artifacts[id] = p.names

(***************************************************************************)
(* What it reports as unresolved, and the reasons it takes for granted.    *)
(***************************************************************************)
collect_package_unresolved(c) ==
  {id \in PackageIds : c.packages[id].kind = "package" /\ c.packages[id].resolution # "locked"}

collect_service_unresolved(c) == {id \in ServiceIds : ~BothLocked(c.services[id])}

collect_resolved_value(v) == ~(v.resolution = "locked" /\ v.concrete)

Collected(r) ==
  LET got(d) == r[<<"contract", d>>] IN
    (({"package"} \X collect_package_unresolved(got("packages")))
       \cup ({"service"} \X collect_service_unresolved(got("services"))))
    \cup {<<"pin", d>> : d \in {e \in Components : collect_resolved_value(got(e).pin)}}
    \cup {<<"evidence", d>> : d \in {e \in Components : collect_resolved_value(got(e).evidence)}}
    \cup (IF collect_resolved_value(got("calamares").module_set)
          THEN {<<"calamares", "module-set">>} ELSE {})
    \cup (IF collect_resolved_value(got("calamares").storage_implementation)
          THEN {<<"calamares", "storage-implementation">>} ELSE {})
    \cup (IF collect_resolved_value(got("iso").artools_profile)
          THEN {<<"iso", "artools-profile">>} ELSE {})
    \cup (IF got("install").release_ready THEN {} ELSE {<<"runtime", "install">>})

\* The reasons that collect_package_unresolved and collect_service_unresolved expect.
ReasonsGiven(r) ==
  /\ \A id \in collect_package_unresolved(r[<<"contract", "packages">>]) :
       r[<<"contract", "packages">>].packages[id].reason
  /\ \A id \in collect_service_unresolved(r[<<"contract", "services">>]) :
       r[<<"contract", "services">>].services[id].reason

(***************************************************************************)
(* The plan: what the builder reads again.                                 *)
(***************************************************************************)
validate_package_contract_for_planning(c) == c.inventory

resolve_identities(c) == c.fixed

resolvable_packages(c) ==
  \A id \in PackageIds :
    LET p == c.packages[id] IN
      p.kind # "neither" /\ (p.kind = "package" => validate_package_resolution(p))

resolve_packages(c) ==
  [id \in PackageIds |->
     LET p == c.packages[id] IN
       [class |-> p.class, build_host |-> p.build_host,
        resolution |-> IF p.kind = "package" THEN p.resolution ELSE "locked",
        names |-> IF p.kind = "package" THEN p.names ELSE {}]]

resolvable_services(c, packages) ==
  /\ c.authority
  /\ \A id \in ServiceIds :
       LET s == c.services[id] IN
         /\ s.package_id \in DOMAIN packages /\ s.openrc
         /\ IF BothLocked(s) THEN ServiceSelected(s) ELSE s.reason

resolve_services(c) ==
  [id \in ServiceIds |->
     [package_id |-> c.services[id].package_id, locked |-> BothLocked(c.services[id]),
      service_name |-> c.services[id].service_name, placed |-> c.services[id].placed]]

\* Checked arithmetic on u64.
Fits(n) == 0 <= n /\ n <= MaxU64

validate_vm_profile_shape(c) == c.locked /\ c.shape /\ c.disk_gib # 0

calculate_disk_plan(storage, vms, size) ==
  LET fixed   == storage.esp + storage.boot
      system  == size - fixed
      reserve == (system * storage.percent) \div 100
      left    == system - storage.swap
      rest    == left - reserve
  IN  IF /\ validate_storage_contract(storage) /\ validate_vm_profile_shape(vms)
         /\ Fits(vms.disk_gib * 1024) /\ size >= vms.disk_gib * 1024
         /\ Fits(fixed) /\ Fits(system) /\ Fits(system * storage.percent)
         /\ Fits(left) /\ Fits(rest) /\ rest # 0
      THEN [total |-> size, esp |-> storage.esp, boot |-> storage.boot, system |-> system,
            swap |-> storage.swap, reserve |-> reserve, root |-> rest]
      ELSE NoFile

(***************************************************************************)
(* The commands, as the documents they read in turn.                       *)
(***************************************************************************)
Readers == {"contract", "hash", "w6", "profile", "stat", "command"}
Reads == Readers \X Documents

\* What validate_repository loads, in turn, and then the builder beside it.
contract_documents ==
  <<"build", "packages", "codex", "portus-browser", "portus-mcp", "tunnel-client",
    "portus-bridge", "storage", "vms", "services", "identities", "calamares", "iso",
    "matrix", "install", "schemas", "lock">>
\* The artools adapter reads the two lists again, beside the profile of the image.
adapter_reads ==
  <<<<"hash", "packages">>, <<"w6", "layout">>, <<"w6", "artools">>, <<"profile", "profile">>,
    <<"profile", "common">>, <<"profile", "packages">>, <<"profile", "services">>,
    <<"w6", "responsibilities">>>>

\* validate_repository, which hashes the packages at last, then the checks of validate_w6.
validate_w6 ==
  [n \in 1 .. 25 |->
     IF n <= 17 THEN <<"contract", contract_documents[n]>> ELSE adapter_reads[n - 17]]

\* What a command reads once the whole is validated.
Commands ==
  [validate |-> <<>>,
   plan |-> <<<<"command", "packages">>, <<"command", "storage">>, <<"command", "vms">>,
              <<"command", "services">>, <<"command", "identities">>,
              <<"command", "responsibilities">>, <<"command", "artools">>>>,
   stage |-> <<<<"command", "install">>>>,
   render |-> <<<<"command", "storage">>>>,
   tests |-> <<<<"command", "matrix">>>>,
   metadata |-> <<<<"stat", "artifact">>, <<"command", "artifact">>>>,
   gate |-> <<<<"command", "artools">>>>]

Lines(op) == 25 + Len(Commands[op])
LineOf(op, n) == IF n <= 25 THEN validate_w6[n] ELSE Commands[op][n - 25]

validates(r, d) ==
  LET c == r[<<"contract", d>>] IN
    CASE d = "packages"       -> validate_package_source(c)
      [] d \in Components     -> validate_component(d, c)
      [] d = "storage"        -> validate_storage_contract(c)
      [] d = "vms"            -> validate_vm_profiles(c)
      [] d = "services"       -> validate_base_services(c, r[<<"contract", "packages">>])
      [] d = "identities"     -> validate_identity_contract(c)
      [] d = "calamares"      -> validate_calamares(c)
      [] d = "iso"            -> validate_iso(c)
      [] d = "lock"           -> TRUE
      [] OTHER                -> validate_fixed_document(c)

\* What the command itself checks before it reads on.
goes_on(r, d) ==
  LET c == r[<<"command", d>>] IN
    CASE d = "packages" -> validate_package_contract_for_planning(c)
      [] d = "storage"  -> command.op = "render" => command.input /\ validate_storage_contract(c)
      [] d = "vms"      -> calculate_disk_plan(r[<<"command", "storage">>], c, command.size) # NoFile
      [] d = "install"  -> c.fixed
      [] d = "matrix"   -> command.input /\ c.fixed
      [] d = "artools"  -> command.op = "gate" => c.mapping = "locked"
      [] OTHER          -> TRUE

accepts(r, s) ==
  CASE s[1] = "contract" -> validates(r, s[2])
    [] s[1] = "hash"     -> LET lock == r[<<"contract", "lock">>] IN
                              lock # NoFile =>
                                validate_package_lock_data(lock, r[<<"contract", "packages">>], r[s])
    [] s[1] = "w6"       -> CASE s[2] = "layout"  -> validate_builder_layout(r[s])
                              [] s[2] = "artools" -> validate_artools_adapter(r[s])
                              [] OTHER            -> validate_calamares_adapter(r[s])
    [] s[1] = "profile"  -> s[2] = "services" =>
                              validate_artools_profile_sources(r[<<"profile", "profile">>],
                                r[<<"profile", "common">>], r[<<"profile", "packages">>], r[s])
    [] s[1] = "stat"     -> command.input /\ r[s].regular /\ r[s].size # 0
    [] OTHER             -> goes_on(r, s[2])

Verdict(is, plan) == [is |-> is, plan |-> plan]
Running == verdict.is = "running"

BuildPlanInit ==
  /\ repo \in FirstRepositories
  /\ command = [op |-> "validate", size |-> 0, candidate |-> FALSE, input |-> TRUE, line |-> 1]
  /\ reads = <<>> /\ graph = {} /\ verdict = Verdict("none", NoFile)
  /\ prepared = NoFile /\ noted = NoFile /\ approved = NoFile /\ confirmed = {}
  /\ quiet = TRUE /\ planned = 0 /\ redone = 0

\* main: a command with its arguments.
execute(op, size, candidate, ok) ==
  /\ ~Running /\ planned < MaxPlanCommands
  /\ command' = [op |-> op, size |-> size, candidate |-> candidate, input |-> ok, line |-> 1]
  /\ reads' = <<>> /\ graph' = {} /\ verdict' = Verdict("running", NoFile)
  /\ quiet' = TRUE /\ planned' = planned + 1
  /\ UNCHANGED <<repo, prepared, noted, approved, confirmed, redone>>

\* load_yaml and the checks that follow; validate_repository collects what is
\* unresolved before it looks for the lock.
load_yaml ==
  /\ Running /\ command.line <= Lines(command.op)
  /\ LET s == LineOf(command.op, command.line)
         r == [t \in DOMAIN reads \cup {s} |-> IF t = s THEN repo[s[2]] ELSE reads[t]]
         collects == s = <<"contract", "lock">>
     IN  /\ reads' = r
         /\ IF collects /\ ~ReasonsGiven(r)
            THEN verdict' = Verdict("panic", NoFile) /\ UNCHANGED <<command, graph>>
            ELSE IF ~accepts(r, s)
            THEN verdict' = Verdict("error", NoFile) /\ UNCHANGED <<command, graph>>
            ELSE /\ command' = [command EXCEPT !.line = @ + 1]
                 /\ graph' = IF ~collects THEN graph
                             ELSE Collected(r) \cup (IF r[s] = NoFile THEN {<<"packages", "lock">>} ELSE {})
                 /\ UNCHANGED verdict
  /\ UNCHANGED <<repo, prepared, noted, approved, confirmed, quiet, planned, redone>>

\* A document that cannot be read or parsed, a file it names that is missing, or a
\* root that is no repository.
load_fails ==
  /\ Running /\ verdict' = Verdict("error", NoFile)
  /\ UNCHANGED <<repo, command, reads, graph, prepared, noted, approved, confirmed, quiet,
                 planned, redone>>

Ends(result) ==
  /\ Running /\ command.line > Lines(command.op) /\ verdict' = result
  /\ UNCHANGED <<repo, command, reads, graph, prepared, noted, approved, confirmed, quiet,
                 planned, redone>>

Read(d) == reads[<<"command", d>>]

build_plan ==
  /\ command.op = "plan"
  /\ LET packages == resolve_packages(Read("packages"))
         unresolved == graph \cup (IF Read("responsibilities").mapping = "locked" THEN {}
                                   ELSE {<<"calamares", "responsibility-mapping">>})
     IN  Ends(IF /\ resolvable_packages(Read("packages"))
                 /\ resolvable_services(Read("services"), packages)
                 /\ resolve_identities(Read("identities"))
              THEN Verdict("ok", [disk |-> calculate_disk_plan(Read("storage"), Read("vms"), command.size),
                                  packages |-> packages, services |-> resolve_services(Read("services")),
                                  unresolved |-> unresolved, release_resolved |-> unresolved = {}])
              ELSE Verdict("error", NoFile))

native_iso_build_gate ==
  /\ command.op = "gate"
  /\ Ends(Verdict(IF command.candidate /\ graph # {} THEN "unresolved" ELSE "ok", NoFile))

build_metadata_preview ==
  /\ command.op = "metadata"
  /\ Ends(Verdict("ok", [size |-> reads[<<"stat", "artifact">>].size,
                         sha256 |-> Read("artifact").bytes]))

\* validate, stage-portus (whose copying is Install's), render, validation-plan.
report_printed ==
  /\ command.op \in {"validate", "stage", "render", "tests"} /\ Ends(Verdict("ok", NoFile))

(***************************************************************************)
(* The destructive plan and its confirmation.                              *)
(***************************************************************************)
HashOf(t, disk) == <<t, disk>>

\* The target is trimmed before it is looked at; a line break stays inside it.
prepare_destructive_plan(t, dev, breaks) ==
  /\ verdict.is = "ok" /\ command.op = "plan"
  /\ t # NoFile /\ dev /\ ~breaks
  /\ prepared' = [target |-> t, disk |-> verdict.plan.disk, sha256 |-> HashOf(t, verdict.plan.disk)]
  /\ UNCHANGED <<repo, command, reads, graph, verdict, noted, approved, confirmed, quiet,
                 planned, redone>>

\* The owner is shown a plan and copies its hash.
plan_shown ==
  /\ prepared # NoFile
  /\ noted' = prepared.sha256 /\ approved' = [target |-> prepared.target, disk |-> prepared.disk]
  /\ UNCHANGED <<repo, command, reads, graph, verdict, prepared, confirmed, quiet, planned, redone>>

confirm_destructive_plan ==
  /\ prepared # NoFile /\ noted # NoFile /\ noted = prepared.sha256
  /\ confirmed' = confirmed \cup {[target |-> prepared.target, disk |-> prepared.disk, shown |-> approved]}
  /\ UNCHANGED <<repo, command, reads, graph, verdict, prepared, noted, approved, quiet,
                 planned, redone>>

\* The authors of the repository change a document.
document_edited(d, c) ==
  /\ redone < MaxDocumentEdits /\ c # repo[d]
  /\ repo' = [repo EXCEPT ![d] = c] /\ redone' = redone + 1 /\ quiet' = FALSE
  /\ UNCHANGED <<command, reads, graph, verdict, prepared, noted, approved, confirmed, planned>>

BuildPlanNext ==
  \/ \E size \in DiskSizes : execute("plan", size, FALSE, TRUE)
  \/ \E candidate \in BOOLEAN : execute("gate", 0, candidate, TRUE)
  \/ \E op \in {"validate", "stage", "render", "tests", "metadata"}, ok \in BOOLEAN :
       (op \in {"validate", "stage"} => ok) /\ execute(op, 0, FALSE, ok)
  \/ load_yaml \/ load_fails
  \/ build_plan \/ native_iso_build_gate \/ build_metadata_preview \/ report_printed
  \/ \E t \in TargetDisks \cup {NoFile}, dev, breaks \in BOOLEAN :
       prepare_destructive_plan(t, dev, breaks)
  \/ plan_shown \/ confirm_destructive_plan
  \/ \E d \in Documents : \E c \in Editions[d] : document_edited(d, c)

BuildPlanSpec == BuildPlanInit /\ [][BuildPlanNext]_planVars

(***************************************************************************)
(* Types and properties.                                                   *)
(***************************************************************************)
\* The types of the variables.
BuildPlanTypeOK ==
  /\ DOMAIN repo = Documents /\ \A d \in Documents : repo[d] \in ContentsOf[d]
  /\ command \in [op : DOMAIN Commands, size : 0 .. MaxU64, candidate : BOOLEAN, input : BOOLEAN,
                  line : Nat]
  /\ DOMAIN reads \subseteq Reads /\ \A s \in DOMAIN reads : reads[s] \in ContentsOf[s[2]]
  /\ verdict.is \in {"none", "running", "ok", "error", "panic", "unresolved"}
  /\ quiet \in BOOLEAN /\ planned \in Nat /\ redone \in Nat

PlanPrinted == verdict.is = "ok" /\ command.op = "plan"

\* Whatever the disk and however the storage and VM documents change while they
\* are read, the partitions of a plan fill the disk to the last MiB and the root
\* volume is not empty: calculate_disk_plan subtracts nothing it has not checked.
DisksAddUp ==
  PlanPrinted =>
    LET d == verdict.plan.disk IN
      /\ d.total = command.size /\ d.esp + d.boot + d.system = d.total
      /\ d.swap + d.reserve + d.root = d.system /\ d.root > 0 /\ d.reserve * 20 <= d.system

\* A plan never selects packages for a role that is open, never leaves a locked
\* one of the inventory without any, and names service and runlevel of every
\* service it calls locked, whose package it plans: although the documents may
\* no longer be the ones that were validated.
PlansAreComplete ==
  PlanPrinted =>
    /\ \A id \in PackageIds :
         LET p == verdict.plan.packages[id] IN
           /\ p.resolution # "locked" => p.names = {}
           /\ Read("packages").packages[id].kind = "package" /\ p.resolution = "locked" => p.names # {}
    /\ \A id \in ServiceIds :
         LET s == verdict.plan.services[id] IN
           /\ s.package_id \in DOMAIN verdict.plan.packages
           /\ s.locked => s.service_name # NoFile /\ s.placed

\* When nobody edits the documents meanwhile, the plan, the report and the profile
\* of the image agree although each was taken from a reading of its own: the report
\* names every open role, none of which the image carries and none of which is the
\* distribution's once there is a lock; no service is open and the live session
\* starts each under the name planned; the installed layer holds what was planned
\* for the image and nothing else, the live-only packages aside.
NothingOpenIsHidden ==
  PlanPrinted /\ quiet =>
    LET plan  == verdict.plan
        open  == {id \in PackageIds : plan.packages[id].resolution # "locked"}
        ours  == {id \in PackageIds : plan.packages[id].class = "official-artix"}
        image == {id \in ours : ~plan.packages[id].build_host}
    IN
      /\ \A id \in PackageIds : id \in open <=> <<"package", id>> \in plan.unresolved
      /\ open \cap image = {}
      /\ <<"packages", "lock">> \notin plan.unresolved => open \cap ours = {}
      /\ \A id \in ServiceIds :
           /\ plan.services[id].locked /\ <<"service", id>> \notin plan.unresolved
           /\ repo["profile"].services[id] = plan.services[id].service_name
      /\ (UNION {plan.packages[id].names : id \in image}) \ LiveOnlyPackages
           = repo["profile"].rootfs \cup repo["common"].packages

\* While the storage implementation of the installer awaits its verification no
\* edit lets the gate pass a release candidate or a plan call itself resolved,
\* and no validated document makes the report miss a reason it relies on.
ReleaseWaits ==
  /\ verdict.is # "panic"
  /\ verdict.is = "ok" /\ command.op = "gate" => ~command.candidate
  /\ PlanPrinted => ~verdict.plan.release_resolved

\* A hash confirms only the target and the disk it was shown with.
ConfirmedAsShown ==
  \A c \in confirmed : c.shown = [target |-> c.target, disk |-> c.disk]

\* A preview whose artifact stays as it is states the size of the bytes it hashed.
PreviewMatches ==
  verdict.is = "ok" /\ command.op = "metadata" /\ quiet =>
    verdict.plan.size = repo["artifact"].size /\ verdict.plan.sha256 = repo["artifact"].bytes

\* What the planning commands promise, all of it.
PlansAreSound ==
  /\ BuildPlanTypeOK /\ DisksAddUp /\ PlansAreComplete /\ NothingOpenIsHidden /\ ReleaseWaits
  /\ ConfirmedAsShown /\ PreviewMatches
=============================================================================
