------------------------------- MODULE Install -------------------------------
(***************************************************************************)
(* The installer of the runtime (portus-install): stage copies binaries,   *)
(* shared files and administrator configuration of a manifest into a root  *)
(* directory, uninstall removes what nobody modified.  One run at a time,  *)
(* without a lock or a journal: an administrator edits the installed files *)
(* and the sources are upgraded between any two steps, every operation can *)
(* fail and the run can be killed.                                         *)
(*                                                                         *)
(* A file's bytes are a content: a version of the package, or what an      *)
(* administrator wrote.  A path may also hold nothing (Gone), something    *)
(* that is no regular file (Odd), or a file cut short (Partial).           *)
(***************************************************************************)
EXTENDS Naturals, FiniteSets

CONSTANTS
  Items,            \* installed files, by target
  Area,             \* where each belongs: bin, etc or share
  PolicyItems,      \* the items validate_staged loads
  Manifests,        \* the manifests a run may be given
  Versions,         \* contents of sources
  AdminContents,    \* contents an administrator writes
  Unloadable,       \* the contents the daemons' own loaders reject
  Gone, Odd, Partial,
  MaxRuns, MaxEditsOfTargets, MaxUpgrades, MaxInstallFaults

Areas == {"bin", "etc", "share", "state"}
Resolutions == {"locked", "linux-verified"}
FileContents == Versions \cup AdminContents
FileStates == FileContents \cup {Gone, Odd}

\* A declaration of a directory, an identity, a service or an external package:
\* what is decided, whether it then says everything, and the reason if not.
Declarations == [resolution : Resolutions, complete : BOOLEAN, reason : BOOLEAN]

LockedDirectories == {"/var/lib/portus/protected-api", "/run/portus/priv", "/run/portus/protected-api"}
OpenDirectories == {"/var/lib/portus/state", "/var/log/portus/audit", "/run/portus"}
LockedIdentities == {"portus-privd", "portus-apid", "portus-api-users", "portus-priv-users"}
REQUIRED_SERVICES == {"portus-apid", "portus-privd", "portusd"}
Directories == LockedDirectories \cup OpenDirectories
ManifestIdentities == LockedIdentities \cup {"portusd"}

InstallManifest ==
  [version : Nat, binaries : SUBSET Items,
   policy : [{i \in Items : Area[i] # "bin"} -> {"package-owned", "administrator-config"}],
   directories : [Directories -> Declarations], identities : [ManifestIdentities -> Declarations],
   services : [REQUIRED_SERVICES -> Declarations], external : Declarations, preserves : BOOLEAN]

ASSUME InstallAssumption ==
  /\ IsFiniteSet(Items) /\ Area \in [Items -> Areas \ {"state"}] /\ PolicyItems \subseteq Items
  /\ Manifests \subseteq InstallManifest
  /\ Versions \cap AdminContents = {} /\ Unloadable \subseteq FileContents
  /\ {Gone, Odd, Partial} \cap FileContents = {} /\ Gone # Odd /\ Partial \notin {Gone, Odd}
  /\ {MaxRuns, MaxEditsOfTargets, MaxUpgrades, MaxInstallFaults} \subseteq Nat

VARIABLES
  root,        \* the staging root: Gone, "dir" or Odd
  place,       \* the directories of each area
  installed,   \* what is at each target
  temp,        \* what is at its temporary name
  source,      \* what the package holds for it
  database,    \* whether a credential database exists under the root
  tool,        \* the run in progress, or the last one
  spent,       \* runs, edits, upgrades, faults so far
  edited,      \* history: what the administrator last wrote to a target
  raced,       \* history: targets last edited where a run no longer looked
  touched      \* history: targets others changed since the run looked at them

installVars == <<root, place, installed, temp, source, database, tool, spent, edited,
                 raced, touched>>

NoReport == [created |-> 0, replaced |-> 0, unchanged |-> 0, preserved |-> 0, removed |-> 0,
             unresolved |-> 0]
NoRun == [at |-> "idle", op |-> "none", result |-> "none", todo |-> {}, item |-> "none",
          read |-> [i \in Items |-> Gone], found |-> FALSE, existed |-> FALSE,
          report |-> NoReport, manifest |-> "none"]

Spend(kind, bound) == spent[kind] < bound /\ spent' = [spent EXCEPT ![kind] = @ + 1]

(***************************************************************************)
(* The manifest.                                                           *)
(***************************************************************************)
validate_binaries(m) == m.binaries = {i \in Items : Area[i] = "bin"}

\* Configuration keeps local modifications, shared files are the package's.
validate_files(m) ==
  \A i \in DOMAIN m.policy :
    m.policy[i] = IF Area[i] = "etc" THEN "administrator-config" ELSE "package-owned"

\* What is locked is complete, what is left to Linux says why.
Declared(d) == IF d.resolution = "locked" THEN d.complete /\ ~d.reason ELSE d.reason

\* Owner, group and mode of these are settled.
require_directory(D, d) == D[d].resolution = "locked"

validate_directories(D) ==
  /\ \A d \in Directories : Declared(D[d])
  /\ \A d \in LockedDirectories : require_directory(D, d)
  /\ \A d \in OpenDirectories : D[d].resolution = "linux-verified"

require_identity(D, d, resolution) == D[d].resolution = resolution

validate_identities(D) ==
  /\ \A d \in ManifestIdentities : Declared(D[d])
  /\ \A d \in LockedIdentities : require_identity(D, d, "locked")
  /\ require_identity(D, "portusd", "linux-verified")

\* Every service is left to Linux, with its command and user.
validate_services(D) ==
  \A d \in REQUIRED_SERVICES : D[d].resolution = "linux-verified" /\ D[d].reason

validate_external_requirements(d) == d.resolution = "linux-verified" /\ d.reason /\ d.complete

validate_uninstall(preserves) == preserves

validate_shape(m) ==
  /\ m.version = 1
  /\ validate_binaries(m) /\ validate_files(m)
  /\ validate_directories(m.directories) /\ validate_identities(m.identities)
  /\ validate_services(m.services) /\ validate_external_requirements(m.external)
  /\ validate_uninstall(m.preserves)

Unresolved(D) == {d \in DOMAIN D : D[d].resolution = "linux-verified"}

release_ready(m) ==
  /\ Unresolved(m.directories) \cup Unresolved(m.identities) \cup Unresolved(m.services) = {}
  /\ m.external.resolution = "locked"

unresolved_linux_items(m) ==
  Cardinality(Unresolved(m.directories)) + Cardinality(Unresolved(m.identities))
    + Cardinality(Unresolved(m.services)) + (IF m.external.resolution = "locked" THEN 0 ELSE 1)

\* The template of a service names its command and user and decides no more.
validate_openrc_template(d) == d.complete

\* The daemons' own loaders accept what would be installed.
validate_source_contracts(m) ==
  /\ \A i \in PolicyItems : source[i] \notin Unloadable
  /\ \A d \in REQUIRED_SERVICES : validate_openrc_template(m.services[d])

\* Sources are bounded regular files without secrets, and so are the binaries.
validate_sources(m) ==
  /\ validate_shape(m)
  /\ \A i \in Items \ m.binaries : source[i] # Gone
  /\ validate_source_contracts(m)
validate_binary_payload(m) == \A i \in m.binaries : source[i] # Gone

(***************************************************************************)
(* A run: stage or uninstall.                                              *)
(***************************************************************************)
Stop(result) == tool' = [tool EXCEPT !.at = "idle", !.result = result]
To(label) == tool' = [tool EXCEPT !.at = label]

\* An edit that is still there when a run comes to look is not lost any more.
StillRaced == {i \in raced : installed[i] # edited[i]}

Fresh(op, m) == [NoRun EXCEPT !.op = op, !.manifest = m, !.todo = Items]

\* Everything is validated before the first step of either.
stage(m) ==
  /\ tool.at = "idle" /\ Spend("runs", MaxRuns)
  /\ tool' = IF validate_sources(m) /\ validate_binary_payload(m)
             THEN [Fresh("stage", m) EXCEPT !.report.unresolved = unresolved_linux_items(m), !.at = "root"]
             ELSE [Fresh("stage", m) EXCEPT !.result = "invalid"]
  /\ touched' = {} /\ raced' = StillRaced
  /\ UNCHANGED <<root, place, installed, temp, source, database, edited>>

\* A root that does not exist has nothing to remove.
uninstall(m) ==
  /\ tool.at = "idle" /\ Spend("runs", MaxRuns)
  /\ tool' = IF ~validate_sources(m) \/ ~validate_binary_payload(m) \/ root = Odd
             THEN [Fresh("uninstall", m) EXCEPT !.result = "invalid"]
             ELSE IF root = Gone THEN [Fresh("uninstall", m) EXCEPT !.todo = {}, !.result = "ok"]
             ELSE [Fresh("uninstall", m) EXCEPT !.at = "item"]
  /\ touched' = {} /\ raced' = StillRaced
  /\ UNCHANGED <<root, place, installed, temp, source, database, edited>>

\* The root is created if it is missing, then the directories of the manifest.
prepare_staging_root ==
  /\ tool.at = "root"
  /\ IF root = Odd THEN Stop("invalid") /\ UNCHANGED root ELSE To("directories") /\ root' = "dir"
  /\ UNCHANGED <<place, installed, temp, source, database, spent, edited, raced, touched>>

\* A directory tree is walked from the root: what is missing is created, a link
\* or a file in it ends the run.
Walkable(a) == place[a] # Odd
Walked(a) == [place EXCEPT ![a] = IF @ = Gone THEN "dir" ELSE @]

ensure_real_directory_tree ==
  /\ tool.at = "directories"
  /\ IF \A a \in {"etc", "state"} : Walkable(a)
     THEN /\ place' = [a \in Areas |-> IF a \in {"etc", "state"} THEN "dir" ELSE place[a]]
          /\ To("item")
     ELSE Stop("invalid") /\ UNCHANGED place
  /\ UNCHANGED <<root, installed, temp, source, database, spent, edited, raced, touched>>

\* Binaries come before the other files.
IsNextItem(i) == i \in tool.todo /\ (i \in tool.manifest.binaries \/ tool.todo \cap tool.manifest.binaries = {})

Counted(i, field) ==
  [tool EXCEPT !.report[field] = @ + 1, !.todo = @ \ {i}, !.at = "item",
               !.read[i] = IF tool.at = "item" THEN source[i] ELSE @]
Passed(i) == [tool EXCEPT !.todo = @ \ {i}, !.at = "item"]

OwnedByPackage(i) ==
  IF i \in tool.manifest.binaries THEN TRUE ELSE tool.manifest.policy[i] = "package-owned"

Held(i, label) ==
  [tool EXCEPT !.item = i, !.read[i] = source[i], !.found = installed[i] # Gone, !.at = label]

\* A target with the same bytes is left alone, any other is replaced.
copy_package_owned(i) ==
  IF installed[i] = source[i] THEN Counted(i, "unchanged") ELSE Held(i, "open")

\* Mutant: configuration of an older version is brought up to date.
upgrade_configuration(i) ==
  IF installed[i] = source[i] THEN Counted(i, "unchanged") ELSE Held(i, "open")

\* A target that exists is left alone, modified or not.
copy_administrator_config(i) ==
  IF installed[i] = Gone THEN Held(i, "open")
  ELSE Counted(i, IF installed[i] = source[i] THEN "unchanged" ELSE "preserved")

\* What was modified stays.
remove_unless_modified(i) ==
  IF installed[i] = Gone THEN Passed(i)
  ELSE IF installed[i] = source[i] THEN Held(i, "unlink") ELSE Counted(i, "preserved")

\* Neither the target nor a directory above it is a link or of another type.
regular_target_or_absent(i) == Walkable(Area[i]) /\ installed[i] # Odd

\* stage reads the source and then looks at the target; uninstall reads the
\* source only if the target is there.  A parent directory that is missing is
\* created by both.
look(i) ==
  /\ tool.at = "item" /\ IsNextItem(i)
  /\ IF source[i] = Gone /\ (tool.op = "stage" \/ installed[i] \notin {Gone, Odd})
     THEN Stop("io") /\ UNCHANGED place
     ELSE IF ~regular_target_or_absent(i)
     THEN Stop("invalid") /\ UNCHANGED place
     ELSE /\ place' = Walked(Area[i])
          /\ tool' = IF tool.op = "uninstall" THEN remove_unless_modified(i)
                     ELSE IF OwnedByPackage(i) THEN copy_package_owned(i)
                     ELSE copy_administrator_config(i)
  /\ touched' = touched \ {i} /\ raced' = raced \ ({i} \ StillRaced)
  /\ UNCHANGED <<root, installed, temp, source, database, spent, edited>>

\* write_atomicish: whether the target exists is noted, a temporary file that a
\* killed run left is removed, and a new one is created.
open_temp ==
  /\ tool.at = "open"
  /\ LET i == tool.item
     IN  IF ~regular_target_or_absent(i) \/ temp[i] = Odd
         THEN Stop("invalid") /\ UNCHANGED temp
         ELSE /\ tool' = [tool EXCEPT !.existed = installed[i] # Gone, !.at = "write"]
              /\ temp' = [temp EXCEPT ![i] = Partial]
  /\ UNCHANGED <<root, place, installed, source, database, spent, edited, raced, touched>>

write_temp ==
  /\ tool.at = "write"
  /\ temp' = [temp EXCEPT ![tool.item] = tool.read[tool.item]]
  /\ To("recheck")
  /\ UNCHANGED <<root, place, installed, source, database, spent, edited, raced, touched>>

\* Mutant: the target is not looked at again.
never_changed(i) == TRUE

\* A target that appeared or vanished meanwhile ends the run.
still_as_before(i) == (installed[i] # Gone) = tool.existed

recheck ==
  /\ tool.at = "recheck"
  /\ LET i == tool.item
     IN  IF ~regular_target_or_absent(i)
         THEN Stop("invalid") /\ UNCHANGED temp
         ELSE IF ~still_as_before(i)
         THEN Stop("changed") /\ temp' = [temp EXCEPT ![i] = Gone]
         ELSE To(IF installed[i] # Gone THEN "remove" ELSE "rename") /\ UNCHANGED temp
  /\ UNCHANGED <<root, place, installed, source, database, spent, edited, raced, touched>>

\* The old file goes before the new one comes; one that is gone is an error, and
\* so is a directory.
remove_target ==
  /\ tool.at = "remove"
  /\ \/ /\ installed[tool.item] # Gone
        /\ To("rename") /\ installed' = [installed EXCEPT ![tool.item] = Gone]
     \/ /\ installed[tool.item] \in {Gone, Odd}
        /\ Stop("io") /\ UNCHANGED installed
  /\ UNCHANGED <<root, place, temp, source, database, spent, edited, raced, touched>>

\* The new file takes the name from whatever has it, except a directory.
rename_temp ==
  /\ tool.at = "rename"
  /\ LET i == tool.item
     IN  /\ temp' = [temp EXCEPT ![i] = Gone]
         /\ \/ /\ installed' = [installed EXCEPT ![i] = temp[i]]
               /\ tool' = Counted(i, IF tool.found THEN "replaced" ELSE "created")
            \/ installed[i] = Odd /\ Stop("io") /\ UNCHANGED installed
  /\ UNCHANGED <<root, place, source, database, spent, edited, raced, touched>>

remove_if_unmodified ==
  /\ tool.at = "unlink"
  /\ \/ /\ installed[tool.item] # Gone
        /\ installed' = [installed EXCEPT ![tool.item] = Gone]
        /\ tool' = Counted(tool.item, "removed")
     \/ /\ installed[tool.item] \in {Gone, Odd}
        /\ Stop("io") /\ UNCHANGED installed
  /\ UNCHANGED <<root, place, temp, source, database, spent, edited, raced, touched>>

\* Mutant: what was validated at the source is taken to load.
staged_unseen == ~database

\* The policy and the provider definitions must load from where they were
\* staged, and there must be no credential database.
validate_staged == ~database /\ \A i \in PolicyItems : installed[i] \in FileContents \ Unloadable

finish ==
  /\ tool.at = "item" /\ tool.todo = {}
  /\ Stop(IF tool.op = "uninstall" \/ validate_staged THEN "ok" ELSE "invalid")
  /\ UNCHANGED <<root, place, installed, temp, source, database, spent, edited, raced, touched>>

\* An operation fails, or the run is killed.  A failed write or
\* rename removes the temporary file.
fails ==
  /\ tool.at # "idle"
  /\ Spend("faults", MaxInstallFaults)
  /\ temp' \in {temp} \cup IF tool.at \in {"write", "rename"} THEN {[temp EXCEPT ![tool.item] = Gone]} ELSE {}
  /\ Stop("io")
  /\ UNCHANGED <<root, place, installed, source, database, edited, raced, touched>>

(***************************************************************************)
(* The others.                                                             *)
(***************************************************************************)
\* Where a run on item i no longer looks at the target before it replaces or
\* removes it: after it saw it and before it opens the temporary file, and
\* after the second look, which tells only whether there is a target.
Blind(i) ==
  /\ tool.item = i
  /\ \/ tool.at \in {"open", "remove", "rename", "unlink"}
     \/ tool.at \in {"write", "recheck"} /\ tool.existed

administrator_edits(i) ==
  /\ Spend("edits", MaxEditsOfTargets)
  /\ root # Gone /\ place[Area[i]] = "dir"
  /\ \E c \in AdminContents \cup {Gone, Odd} :
       /\ c # installed[i]
       /\ installed' = [installed EXCEPT ![i] = c]
       /\ edited' = [edited EXCEPT ![i] = c]
  /\ raced' = IF Blind(i) THEN raced \cup {i} ELSE raced \ {i}
  /\ touched' = touched \cup {i}
  /\ UNCHANGED <<root, place, temp, source, database, tool>>

package_upgraded(i) ==
  /\ Spend("upgrades", MaxUpgrades)
  /\ \E c \in Versions \cup {Gone} : c # source[i] /\ source' = [source EXCEPT ![i] = c]
  /\ UNCHANGED <<root, place, installed, temp, database, tool, edited, raced, touched>>

credential_stored ==
  /\ ~database /\ place["state"] = "dir"
  /\ database' = TRUE
  /\ UNCHANGED <<root, place, installed, temp, source, tool, spent, edited, raced, touched>>

InstallInit ==
  /\ root \in {Gone, Odd, "dir"}
  /\ place \in {[a \in Areas |-> Gone]} \cup
       {[a \in Areas |-> IF a = b THEN Odd ELSE Gone] : b \in IF root = "dir" THEN {"etc"} ELSE {}}
  /\ installed = [i \in Items |-> Gone]
  /\ temp = [i \in Items |-> Gone]
  /\ source \in [Items -> Versions] /\ \A i, j \in Items : source[i] = source[j]
  /\ database = FALSE
  /\ tool = NoRun
  /\ spent = [k \in {"runs", "edits", "upgrades", "faults"} |-> 0]
  /\ edited = [i \in Items |-> Gone] /\ raced = {} /\ touched = {}

InstallNext ==
  \/ \E m \in Manifests : stage(m) \/ uninstall(m)
  \/ prepare_staging_root \/ ensure_real_directory_tree
  \/ \E i \in Items : look(i)
  \/ open_temp \/ write_temp \/ recheck \/ remove_target \/ rename_temp
  \/ remove_if_unmodified \/ finish \/ fails
  \/ \E i \in Items : administrator_edits(i) \/ package_upgraded(i)
  \/ credential_stored

InstallSpec == InstallInit /\ [][InstallNext]_installVars

(***************************************************************************)
(* Properties.                                                             *)
(***************************************************************************)
InstallTypeOK ==
  /\ root \in {Gone, Odd, "dir"} /\ place \in [Areas -> {Gone, Odd, "dir"}]
  /\ installed \in [Items -> FileStates] /\ temp \in [Items -> FileStates \cup {Partial}]
  /\ source \in [Items -> Versions \cup {Gone}] /\ database \in BOOLEAN
  /\ tool.at \in {"idle", "root", "directories", "item", "open", "write", "recheck", "remove",
                  "rename", "unlink"}
  /\ tool.result \in {"none", "ok", "invalid", "io", "changed"}

\* What an administrator wrote into the configuration stays, whatever runs of
\* stage and uninstall come later, fail or are killed, in whatever version the
\* package is: only an edit in the middle of a run's work on that very file can
\* be lost (copy_administrator_config, remove_if_unmodified, write_atomicish).
AdministratorWorkStays ==
  /\ InstallTypeOK
  /\ \A i \in Items :
       Area[i] = "etc" /\ edited[i] \in AdminContents \cup {Odd} /\ i \notin raced =>
         installed[i] = edited[i]

Visited(i) == tool.op # "none" /\ i \notin tool.todo /\ i \notin touched
Handled(r) == r.created + r.replaced + r.unchanged + r.preserved

\* A run that reports success did what it reports: after stage the package's
\* files are the ones it read, all configuration is there and loads, and every
\* item is counted once; after uninstall nothing of the package is left that
\* nobody modified.  A file cut short is never found under its own name, and a
\* manifest that passes leaves at least the eight Linux decisions open, so that
\* it is never ready for release (stage, uninstall, validate_staged).
StagingIsHonest ==
  /\ \A i \in Items : installed[i] # Partial
  /\ tool.op = "stage" /\ tool.at = "item" =>
       Handled(tool.report) = Cardinality(Items \ tool.todo)
  /\ tool.result = "ok" /\ root # Gone =>
       \A i \in Items : Visited(i) =>
         IF tool.op = "stage"
         THEN /\ IF OwnedByPackage(i) THEN installed[i] = tool.read[i] ELSE installed[i] \in FileContents
              /\ i \in PolicyItems => installed[i] \notin Unloadable
         ELSE installed[i] # tool.read[i] \/ installed[i] = Gone
  /\ tool.op # "none" /\ tool.result # "invalid" =>
       ~release_ready(tool.manifest) /\ unresolved_linux_items(tool.manifest) >= 8
=============================================================================
