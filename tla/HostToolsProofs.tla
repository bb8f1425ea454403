--------------------------- MODULE HostToolsProofs ---------------------------
(***************************************************************************)
(* The tools that run beside the runtime, one after the other: the         *)
(* installer keeps an administrator's files and reports what it did; the   *)
(* launcher of Master Portus keeps one session; visual control respects    *)
(* the screen and accounts for every call; a release candidate is what its *)
(* records say, wherever a command is killed; and the commands that plan   *)
(* an image say what the documents they read say.  Each has an inductive   *)
(* invariant of its own, and they share no state.                          *)
(***************************************************************************)
EXTENDS ReleaseCandidate, BuildPlan, Install, MasterLaunch, VisualControl, FiniteSetTheorems,
        SequenceTheorems, TLAPS

(***************************************************************************)
(* The installer.                                                          *)
(***************************************************************************)
Labels ==
  {"idle", "root", "directories", "item", "open", "write", "recheck", "remove", "rename", "unlink"}
Results == {"none", "ok", "invalid", "io", "changed"}
Reports ==
  [created : Nat, replaced : Nat, unchanged : Nat, preserved : Nat, removed : Nat, unresolved : Nat]
Runs ==
  [at : Labels, op : {"none", "stage", "uninstall"}, result : Results, todo : SUBSET Items,
   item : Items \cup {"none"}, read : [Items -> Versions \cup {Gone}], found : BOOLEAN,
   existed : BOOLEAN, report : Reports, manifest : Manifests \cup {"none"}]

\* At work on one file.
Writing == {"open", "write", "recheck", "remove", "rename"}
AtWork == Writing \cup {"unlink"}

InstallTypes ==
  /\ InstallTypeOK /\ tool \in Runs
  /\ edited \in [Items -> AdminContents \cup {Gone, Odd}] /\ raced \subseteq Items
  /\ touched \subseteq Items

\* An administrator's file that no run was blind for.
Kept(i) == Area[i] = "etc" /\ edited[i] \in AdminContents \cup {Odd} /\ i \notin raced

KeptInv == \A i \in Items : Kept(i) => installed[i] = edited[i]

\* Where a run is, the file in its hands is none of these, unless it will notice.
WorkInv ==
  /\ tool.at \in AtWork => tool.item \in tool.todo
  /\ tool.at \in {"open", "remove", "rename", "unlink"} => ~Kept(tool.item)
  /\ tool.at \in {"write", "recheck"} /\ tool.existed => ~Kept(tool.item)
  /\ tool.at \in Writing => tool.op = "stage" /\ tool.read[tool.item] \in Versions
  /\ tool.at = "unlink" => tool.op = "uninstall"
  /\ tool.at \in {"recheck", "remove", "rename"} => temp[tool.item] = tool.read[tool.item]

\* A run works with a manifest that was validated, counts every file once, and
\* has left each file that nobody touched since as it reports it.
RunInv ==
  /\ tool.op # "none" /\ tool.result # "invalid" =>
       tool.manifest \in Manifests /\ validate_shape(tool.manifest)
  /\ tool.at # "idle" => tool.op # "none" /\ tool.result = "none"
  /\ tool.op = "stage" /\ tool.at # "idle" => Handled(tool.report) = Cardinality(Items \ tool.todo)
  /\ tool.at \in {"root", "directories"} => tool.op = "stage" /\ tool.todo = Items
  /\ tool.op = "stage" /\ tool.result = "ok" =>
       \A i \in PolicyItems \ touched : installed[i] \notin Unloadable

VisitedInv ==
  \A i \in Items : Visited(i) =>
    /\ tool.op = "stage" /\ tool.result # "invalid" =>
         IF OwnedByPackage(i) THEN installed[i] = tool.read[i] ELSE installed[i] \in FileContents
    /\ tool.op = "uninstall" => installed[i] # tool.read[i] \/ installed[i] = Gone

InstallInv == InstallTypes /\ KeptInv /\ WorkInv /\ RunInv /\ VisitedInv

(***************************************************************************)
(* The record of a run.                                                    *)
(***************************************************************************)
LEMMA StopFields ==
  ASSUME tool \in Runs, NEW r \in Results, Stop(r)
  PROVE  /\ tool' \in Runs /\ tool'.at = "idle" /\ tool'.result = r /\ tool'.op = tool.op
         /\ tool'.todo = tool.todo /\ tool'.read = tool.read /\ tool'.manifest = tool.manifest
  BY DEF Stop, Runs, Labels

\* Going on changes the label of a run and nothing else of its record.
LEMMA ToFields ==
  ASSUME tool \in Runs, NEW label \in Labels, To(label)
  PROVE  /\ tool' \in Runs /\ tool'.at = label /\ tool'.result = tool.result /\ tool'.op = tool.op
         /\ tool'.todo = tool.todo /\ tool'.read = tool.read /\ tool'.manifest = tool.manifest
         /\ tool'.item = tool.item /\ tool'.existed = tool.existed /\ tool'.report = tool.report
         /\ tool'.found = tool.found
  BY DEF To, Runs

\* A counted file leaves the list, and one counter of the report grows.
LEMMA CountedFields ==
  ASSUME tool \in Runs, source \in [Items -> Versions \cup {Gone}], NEW i \in Items,
         NEW field \in {"created", "replaced", "unchanged", "preserved", "removed"}
  PROVE  LET t == Counted(i, field)
         IN  /\ t \in Runs /\ t.at = "item" /\ t.result = tool.result /\ t.op = tool.op
             /\ t.todo = tool.todo \ {i} /\ t.manifest = tool.manifest
             /\ t.read = [tool.read EXCEPT ![i] = IF tool.at = "item" THEN source[i] ELSE @]
             /\ field # "removed" => Handled(t.report) = Handled(tool.report) + 1
<1> DEFINE rep == [tool.report EXCEPT ![field] = @ + 1]
           rd == [tool.read EXCEPT ![i] = IF tool.at = "item" THEN source[i] ELSE @]
<1>1. Counted(i, field) = [tool EXCEPT !.report = rep, !.todo = @ \ {i}, !.at = "item", !.read = rd]
  BY DEF Counted, Runs
<1>2. rep \in Reports /\ (field # "removed" => Handled(rep) = Handled(tool.report) + 1)
  <2>0. tool.report \in Reports
    BY DEF Runs
  <2>1. CASE field = "created"
    BY <2>0, <2>1 DEF Reports, Handled
  <2>2. CASE field = "replaced"
    BY <2>0, <2>2 DEF Reports, Handled
  <2>3. CASE field = "unchanged"
    BY <2>0, <2>3 DEF Reports, Handled
  <2>4. CASE field = "preserved"
    BY <2>0, <2>4 DEF Reports, Handled
  <2>5. CASE field = "removed"
    BY <2>0, <2>5 DEF Reports, Handled
  <2> QED
    BY <2>1, <2>2, <2>3, <2>4, <2>5
<1>3. rd \in [Items -> Versions \cup {Gone}]
  BY DEF Runs
<1> HIDE DEF rep, rd
<1>4. LET t == [tool EXCEPT !.report = rep, !.todo = @ \ {i}, !.at = "item", !.read = rd]
      IN  /\ t \in Runs /\ t.at = "item" /\ t.result = tool.result /\ t.op = tool.op
          /\ t.todo = tool.todo \ {i} /\ t.manifest = tool.manifest /\ t.read = rd /\ t.report = rep
  BY <1>2, <1>3 DEF Runs, Labels
<1> QED
  BY <1>1, <1>2, <1>4 DEF rd

\* A file taken up: its source is read, the report is as before.
LEMMA HeldFields ==
  ASSUME tool \in Runs, source \in [Items -> Versions \cup {Gone}], NEW i \in Items,
         NEW label \in {"open", "unlink"}
  PROVE  LET t == Held(i, label)
         IN  /\ t \in Runs /\ t.at = label /\ t.result = tool.result /\ t.op = tool.op
             /\ t.todo = tool.todo /\ t.manifest = tool.manifest /\ t.item = i
             /\ t.read = [tool.read EXCEPT ![i] = source[i]] /\ t.report = tool.report
  BY DEF Held, Runs, Labels

\* A file passed over leaves the list without being counted.
LEMMA PassedFields ==
  ASSUME tool \in Runs, NEW i \in Items
  PROVE  LET t == Passed(i)
         IN  /\ t \in Runs /\ t.at = "item" /\ t.result = tool.result /\ t.op = tool.op
             /\ t.todo = tool.todo \ {i} /\ t.manifest = tool.manifest /\ t.read = tool.read
  BY DEF Passed, Runs, Labels

\* A new run has everything to do and has counted nothing.
LEMMA FreshFields ==
  ASSUME NEW op \in {"stage", "uninstall"}, NEW m \in Manifests
  PROVE  LET t == Fresh(op, m)
         IN  /\ t \in Runs /\ t.at = "idle" /\ t.result = "none" /\ t.op = op /\ t.todo = Items
             /\ t.manifest = m /\ t.read = [i \in Items |-> Gone] /\ t.report = NoReport
  BY DEF Fresh, NoRun, NoReport, Runs, Labels, Results, Reports

(***************************************************************************)
(* What the manifest's checks establish.                                   *)
(***************************************************************************)
\* The facts left open by a manifest are finitely many.
LEMMA UnresolvedAreFinite ==
  ASSUME NEW m \in Manifests
  PROVE  /\ Unresolved(m.directories) \subseteq Directories /\ IsFiniteSet(Unresolved(m.directories))
         /\ Unresolved(m.identities) \subseteq ManifestIdentities /\ IsFiniteSet(Unresolved(m.identities))
         /\ Unresolved(m.services) \subseteq REQUIRED_SERVICES /\ IsFiniteSet(Unresolved(m.services))
         /\ unresolved_linux_items(m) \in Nat
<1>1. /\ m.directories \in [Directories -> Declarations]
      /\ m.identities \in [ManifestIdentities -> Declarations]
      /\ m.services \in [REQUIRED_SERVICES -> Declarations]
  BY InstallAssumption DEF InstallManifest
<1>2. IsFiniteSet(OpenDirectories) /\ IsFiniteSet(LockedDirectories) /\ IsFiniteSet(LockedIdentities)
      /\ IsFiniteSet(REQUIRED_SERVICES)
  <2>1. ASSUME NEW a, NEW b, NEW c, NEW d
        PROVE  IsFiniteSet({a, b, c}) /\ IsFiniteSet({a, b, c, d})
    <3>1. IsFiniteSet({a} \cup {b})
      BY FS_Singleton, FS_AddElement
    <3>2. IsFiniteSet({a} \cup {b} \cup {c})
      BY <3>1, FS_AddElement
    <3>3. IsFiniteSet({a} \cup {b} \cup {c} \cup {d})
      BY <3>2, FS_AddElement
    <3>4. {a} \cup {b} \cup {c} = {a, b, c} /\ {a} \cup {b} \cup {c} \cup {d} = {a, b, c, d}
      OBVIOUS
    <3> QED
      BY <3>2, <3>3, <3>4
  <2> QED
    BY <2>1 DEF OpenDirectories, LockedDirectories, LockedIdentities, REQUIRED_SERVICES
<1>3. IsFiniteSet(Directories) /\ IsFiniteSet(ManifestIdentities)
  BY <1>2, FS_Union, FS_Singleton DEF Directories, ManifestIdentities
<1>4. /\ Unresolved(m.directories) \subseteq Directories
      /\ Unresolved(m.identities) \subseteq ManifestIdentities
      /\ Unresolved(m.services) \subseteq REQUIRED_SERVICES
  BY <1>1 DEF Unresolved
<1>5. /\ IsFiniteSet(Unresolved(m.directories)) /\ IsFiniteSet(Unresolved(m.identities))
      /\ IsFiniteSet(Unresolved(m.services))
  BY <1>2, <1>3, <1>4, FS_Subset
<1>6. unresolved_linux_items(m) \in Nat
  BY <1>5, FS_CardinalityType DEF unresolved_linux_items
<1> QED
  BY <1>4, <1>5, <1>6

\* The open directories and the services are three each.
LEMMA SmallSets ==
  /\ Cardinality(OpenDirectories) = 3 /\ Cardinality(REQUIRED_SERVICES) = 3
  /\ IsFiniteSet(OpenDirectories) /\ IsFiniteSet(REQUIRED_SERVICES)
<1>1. ASSUME NEW a, NEW b, NEW c, a # b, a # c, b # c
      PROVE  IsFiniteSet({a, b, c}) /\ Cardinality({a, b, c}) = 3
  <2>1. IsFiniteSet({a}) /\ Cardinality({a}) = 1
    BY FS_Singleton
  <2>2. IsFiniteSet({a} \cup {b}) /\ Cardinality({a} \cup {b}) = 2
    BY <1>1, <2>1, FS_AddElement
  <2>3. IsFiniteSet({a} \cup {b} \cup {c}) /\ Cardinality({a} \cup {b} \cup {c}) = 3
    BY <1>1, <2>2, FS_AddElement
  <2>4. {a} \cup {b} \cup {c} = {a, b, c}
    OBVIOUS
  <2> QED
    BY <2>3, <2>4
<1> QED
  BY <1>1 DEF OpenDirectories, REQUIRED_SERVICES

\* A manifest that passes leaves eight decisions to Linux (validate_shape).
LEMMA ShapeLeavesOpen ==
  ASSUME NEW m \in Manifests, validate_shape(m)
  PROVE  ~release_ready(m) /\ unresolved_linux_items(m) >= 8
<1>1. /\ m.directories \in [Directories -> Declarations]
      /\ m.identities \in [ManifestIdentities -> Declarations]
      /\ m.services \in [REQUIRED_SERVICES -> Declarations]
  BY InstallAssumption DEF InstallManifest
<1>2. /\ OpenDirectories \subseteq Unresolved(m.directories)
      /\ {"portusd"} \subseteq Unresolved(m.identities)
      /\ REQUIRED_SERVICES \subseteq Unresolved(m.services)
      /\ m.external.resolution = "linux-verified"
  BY <1>1 DEF validate_shape, validate_directories, validate_identities, validate_services,
              validate_external_requirements, require_identity, Unresolved, Directories,
              ManifestIdentities
<1>3. /\ Cardinality(Unresolved(m.directories)) >= 3 /\ Cardinality(Unresolved(m.directories)) \in Nat
  <2>1. IsFiniteSet(Unresolved(m.directories))
    BY UnresolvedAreFinite
  <2>2. Cardinality(OpenDirectories) <= Cardinality(Unresolved(m.directories))
    BY <1>2, <2>1, FS_Subset
  <2>3. Cardinality(Unresolved(m.directories)) \in Nat
    BY <2>1, FS_CardinalityType
  <2> QED
    BY <2>2, <2>3, SmallSets
<1>4. /\ Cardinality(Unresolved(m.services)) >= 3 /\ Cardinality(Unresolved(m.services)) \in Nat
  <2>1. IsFiniteSet(Unresolved(m.services))
    BY UnresolvedAreFinite
  <2>2. Cardinality(REQUIRED_SERVICES) <= Cardinality(Unresolved(m.services))
    BY <1>2, <2>1, FS_Subset
  <2>3. Cardinality(Unresolved(m.services)) \in Nat
    BY <2>1, FS_CardinalityType
  <2> QED
    BY <2>2, <2>3, SmallSets
<1>5. /\ Cardinality(Unresolved(m.identities)) >= 1 /\ Cardinality(Unresolved(m.identities)) \in Nat
  <2>1. IsFiniteSet(Unresolved(m.identities))
    BY UnresolvedAreFinite
  <2>2. Cardinality({"portusd"}) <= Cardinality(Unresolved(m.identities))
    BY <1>2, <2>1, FS_Subset
  <2>3. Cardinality(Unresolved(m.identities)) \in Nat /\ Cardinality({"portusd"}) = 1
    BY <2>1, FS_CardinalityType, FS_Singleton
  <2> QED
    BY <2>2, <2>3
<1> QED
  BY <1>2, <1>3, <1>4, <1>5 DEF unresolved_linux_items, release_ready

\* Configuration never belongs to the package (validate_binaries, validate_files).
LEMMA ConfigurationIsNotOwned ==
  ASSUME NEW i \in Items, Area[i] = "etc", tool.manifest \in Manifests,
         validate_shape(tool.manifest)
  PROVE  ~OwnedByPackage(i)
<1>1. DOMAIN tool.manifest.policy = {j \in Items : Area[j] # "bin"}
  BY InstallAssumption DEF InstallManifest
<1> QED
  BY <1>1 DEF validate_shape, validate_binaries, validate_files, OwnedByPackage

\* What an administrator left is there, and no version of the package.
LEMMA KeptIsPresent ==
  ASSUME KeptInv, NEW i \in Items, Kept(i)
  PROVE  installed[i] # Gone /\ installed[i] \notin Versions
  BY InstallAssumption DEF KeptInv, Kept, FileContents

(***************************************************************************)
(* Steps that end a run, and steps that change no installed file.          *)
(***************************************************************************)
\* The types of what is not the run's record.
Surroundings ==
  /\ root \in {Gone, Odd, "dir"} /\ place \in [Areas -> {Gone, Odd, "dir"}]
  /\ installed \in [Items -> FileStates] /\ temp \in [Items -> FileStates \cup {Partial}]
  /\ source \in [Items -> Versions \cup {Gone}] /\ database \in BOOLEAN
  /\ edited \in [Items -> AdminContents \cup {Gone, Odd}] /\ raced \subseteq Items
  /\ touched \subseteq Items

\* The type invariant, split into the record of the run and the rest.
LEMMA TypesAre ==
  /\ InstallTypes => Surroundings /\ tool \in Runs
  /\ Surroundings' /\ tool' \in Runs => InstallTypes'
  BY DEF InstallTypes, InstallTypeOK, Surroundings, Runs, Labels, Results

\* The files a run has visited stay as they are, if nobody touches them.
LEMMA VisitedKept ==
  ASSUME InstallInv, tool'.op = tool.op, tool'.todo = tool.todo, tool'.read = tool.read,
         tool'.manifest = tool.manifest, tool'.result # "invalid" => tool.result # "invalid",
         \A j \in Items \ tool.todo : installed'[j] = installed[j] /\ (j \in touched' <=> j \in touched)
  PROVE  VisitedInv'
<1> SUFFICES ASSUME NEW i \in Items, Visited(i)'
             PROVE  /\ tool.op = "stage" /\ tool'.result # "invalid" =>
                         IF OwnedByPackage(i)' THEN installed'[i] = tool.read[i]
                         ELSE installed'[i] \in FileContents
                    /\ tool.op = "uninstall" => installed'[i] # tool.read[i] \/ installed'[i] = Gone
  BY DEF VisitedInv
<1>1. Visited(i) /\ installed'[i] = installed[i]
  BY DEF Visited
<1>2. OwnedByPackage(i)' <=> OwnedByPackage(i)
  BY DEF OwnedByPackage
<1> QED
  BY <1>1, <1>2 DEF InstallInv, VisitedInv

\* A run that ends without changing an installed file.
LEMMA StopKeeps ==
  ASSUME InstallInv, tool.at # "idle", NEW r \in {"ok", "invalid", "io", "changed"}, Stop(r),
         installed' = installed, Surroundings', KeptInv',
         \A j \in Items \ tool.todo : j \in touched' <=> j \in touched,
         r = "ok" => touched' = touched /\ (tool.op = "uninstall" \/ validate_staged)
  PROVE  InstallInv'
<1>1. tool \in Runs /\ tool.op # "none" /\ tool.result = "none"
  BY TypesAre DEF InstallInv, RunInv
<1>2. /\ tool' \in Runs /\ tool'.at = "idle" /\ tool'.result = r /\ tool'.op = tool.op
      /\ tool'.todo = tool.todo /\ tool'.read = tool.read /\ tool'.manifest = tool.manifest
  BY <1>1, StopFields DEF Results
<1>3. InstallTypes'
  BY <1>2, TypesAre
<1>4. WorkInv'
  BY <1>2 DEF WorkInv, AtWork, Writing
<1>5. VisitedInv'
  BY <1>1, <1>2, VisitedKept
<1>6. RunInv'
  <2>1. r # "invalid" => tool.manifest \in Manifests /\ validate_shape(tool.manifest)
    BY <1>1 DEF InstallInv, RunInv
  <2>2. r = "ok" /\ tool.op = "stage" => \A i \in PolicyItems \ touched' : installed'[i] \notin Unloadable
    BY DEF validate_staged
  <2> QED
    BY <1>2, <2>1, <2>2 DEF RunInv
<1> QED
  BY <1>3, <1>4, <1>5, <1>6 DEF InstallInv

\* Going on to another label of the same file.
LEMMA ToKeeps ==
  ASSUME InstallInv, tool.at # "idle", NEW label \in Labels \ {"idle"}, To(label),
         Surroundings', KeptInv', WorkInv', touched' = touched,
         \A j \in Items \ tool.todo : installed'[j] = installed[j],
         label \in {"root", "directories"} => tool.at = "root"
  PROVE  InstallInv'
<1>1. tool \in Runs /\ tool.op # "none" /\ tool.result = "none"
  BY TypesAre DEF InstallInv, RunInv
<1>2. /\ tool' \in Runs /\ tool'.at = label /\ tool'.result = tool.result /\ tool'.op = tool.op
      /\ tool'.todo = tool.todo /\ tool'.read = tool.read /\ tool'.manifest = tool.manifest
      /\ tool'.report = tool.report
  BY <1>1, ToFields
<1>3. InstallTypes'
  BY <1>2, TypesAre
<1>4. VisitedInv'
  BY <1>1, <1>2, VisitedKept
<1>5. RunInv'
  BY <1>1, <1>2 DEF InstallInv, RunInv
<1> QED
  BY <1>3, <1>4, <1>5 DEF InstallInv

(***************************************************************************)
(* The actions.                                                            *)
(***************************************************************************)
LEMMA BeginKeeps ==
  ASSUME InstallInv, NEW m \in Manifests, stage(m) \/ uninstall(m)
  PROVE  InstallInv'
<1>1. /\ Surroundings /\ KeptInv /\ touched' = {} /\ raced' = {i \in raced : installed[i] # edited[i]}
      /\ UNCHANGED <<root, place, installed, temp, source, database, edited>>
  BY TypesAre DEF stage, uninstall, InstallInv, StillRaced
<1>2. Surroundings' /\ KeptInv'
  BY <1>1 DEF Surroundings, KeptInv, Kept
<1>3. Handled(NoReport) = 0 /\ Cardinality(Items \ Items) = 0
  BY FS_EmptySet DEF NoReport, Handled
<1>4. PICK op \in {"stage", "uninstall"} :
        \/ tool' = [Fresh(op, m) EXCEPT !.result = "invalid"]
        \/ /\ op = "stage" /\ validate_shape(m)
           /\ tool' = [Fresh(op, m) EXCEPT !.report.unresolved = unresolved_linux_items(m), !.at = "root"]
        \/ /\ op = "uninstall" /\ validate_shape(m)
           /\ \/ tool' = [Fresh(op, m) EXCEPT !.todo = {}, !.result = "ok"]
              \/ tool' = [Fresh(op, m) EXCEPT !.at = "item"]
  BY DEF stage, uninstall, validate_sources
<1>5. LET t == Fresh(op, m)
      IN  /\ t \in Runs /\ t.at = "idle" /\ t.result = "none" /\ t.op = op /\ t.todo = Items
          /\ t.manifest = m /\ t.read = [i \in Items |-> Gone] /\ t.report = NoReport
  BY FreshFields
<1> HIDE DEF Fresh
<1>6. CASE tool' = [Fresh(op, m) EXCEPT !.result = "invalid"]
  <2>1. tool' \in Runs /\ tool'.at = "idle" /\ tool'.result = "invalid" /\ tool'.todo = Items
    BY <1>5, <1>6 DEF Runs, Results
  <2>2. WorkInv' /\ RunInv' /\ VisitedInv'
    BY <2>1 DEF WorkInv, RunInv, VisitedInv, Visited, AtWork, Writing
  <2> QED
    BY <1>2, <2>1, <2>2, TypesAre DEF InstallInv
<1>7. CASE /\ op = "stage" /\ validate_shape(m)
           /\ tool' = [Fresh(op, m) EXCEPT !.report.unresolved = unresolved_linux_items(m), !.at = "root"]
  <2> DEFINE rep == [NoReport EXCEPT !.unresolved = unresolved_linux_items(m)]
  <2>1. tool' = [Fresh(op, m) EXCEPT !.report = rep, !.at = "root"]
    BY <1>5, <1>7 DEF Runs
  <2>2. rep \in Reports /\ Handled(rep) = 0
    BY UnresolvedAreFinite DEF NoReport, Reports, Handled
  <2> HIDE DEF rep
  <2>3. /\ tool' \in Runs /\ tool'.at = "root" /\ tool'.result = "none" /\ tool'.todo = Items
        /\ tool'.op = "stage" /\ tool'.report = rep /\ tool'.manifest = m
    BY <1>5, <1>7, <2>1, <2>2, ZenonT(30) DEF Runs, Labels
  <2>4. WorkInv' /\ RunInv' /\ VisitedInv'
    BY <1>3, <1>7, <2>2, <2>3 DEF WorkInv, RunInv, VisitedInv, Visited, AtWork, Writing
  <2> QED
    BY <1>2, <2>3, <2>4, TypesAre DEF InstallInv
<1>8. CASE /\ op = "uninstall" /\ validate_shape(m)
           /\ tool' = [Fresh(op, m) EXCEPT !.todo = {}, !.result = "ok"]
  <2>1. /\ tool' \in Runs /\ tool'.at = "idle" /\ tool'.result = "ok" /\ tool'.manifest = m
        /\ tool'.op = "uninstall" /\ tool'.read = [i \in Items |-> Gone]
    BY <1>5, <1>8 DEF Runs, Results
  <2>2. WorkInv' /\ RunInv' /\ VisitedInv'
    BY <1>8, <2>1 DEF WorkInv, RunInv, VisitedInv, Visited, AtWork, Writing
  <2> QED
    BY <1>2, <2>1, <2>2, TypesAre DEF InstallInv
<1>9. CASE op = "uninstall" /\ validate_shape(m) /\ tool' = [Fresh(op, m) EXCEPT !.at = "item"]
  <2>1. /\ tool' \in Runs /\ tool'.at = "item" /\ tool'.result = "none" /\ tool'.manifest = m
        /\ tool'.op = "uninstall" /\ tool'.todo = Items
    BY <1>5, <1>9 DEF Runs, Labels
  <2>2. WorkInv' /\ RunInv' /\ VisitedInv'
    BY <1>9, <2>1 DEF WorkInv, RunInv, VisitedInv, Visited, AtWork, Writing
  <2> QED
    BY <1>2, <2>1, <2>2, TypesAre DEF InstallInv
<1> QED
  BY <1>4, <1>6, <1>7, <1>8, <1>9

\* The root and the directories of the manifest.
LEMMA DirectoriesKeep ==
  ASSUME InstallInv, prepare_staging_root \/ ensure_real_directory_tree
  PROVE  InstallInv'
<1>1. /\ Surroundings /\ KeptInv /\ tool \in Runs /\ tool.at \in {"root", "directories"}
      /\ UNCHANGED <<installed, temp, source, database, edited, raced, touched>>
  BY TypesAre DEF prepare_staging_root, ensure_real_directory_tree, InstallInv
<1>2. Surroundings' /\ KeptInv'
  BY <1>1 DEF Surroundings, KeptInv, Kept, prepare_staging_root, ensure_real_directory_tree, Areas
<1>3. CASE Stop("invalid")
  BY <1>1, <1>2, <1>3, StopKeeps
<1>4. CASE To("directories") /\ tool.at = "root"
  <2>2. tool'.at = "directories"
    BY <1>1, <1>4, ToFields DEF Labels
  <2>3. WorkInv'
    BY <2>2 DEF WorkInv, AtWork, Writing
  <2> QED
    BY <1>1, <1>2, <1>4, <2>3, ToKeeps DEF Labels
<1>5. CASE To("item")
  <2>1. tool'.at = "item"
    BY <1>1, <1>5, ToFields DEF Labels
  <2>2. WorkInv'
    BY <2>1 DEF WorkInv, AtWork, Writing
  <2> QED
    BY <1>1, <1>2, <1>5, <2>2, ToKeeps DEF Labels
<1> QED
  BY <1>3, <1>4, <1>5 DEF prepare_staging_root, ensure_real_directory_tree

\* The file a run holds, and what is known of the others.
LEMMA WriteStepsKeep ==
  ASSUME InstallInv, open_temp \/ write_temp \/ recheck
  PROVE  InstallInv'
<1>1. /\ Surroundings /\ KeptInv /\ WorkInv /\ tool \in Runs
      /\ UNCHANGED <<root, place, installed, source, database, edited, raced, touched>>
      /\ tool.at \in {"open", "write", "recheck"}
  BY TypesAre DEF open_temp, write_temp, recheck, InstallInv
<1>2. PICK i \in Items : /\ tool.item = i /\ i \in tool.todo /\ tool.op = "stage"
                        /\ tool.read[i] \in Versions
  BY <1>1 DEF WorkInv, AtWork, Writing, Runs
<1>3. KeptInv' /\ \A j \in Items : Kept(j)' <=> Kept(j)
  BY <1>1 DEF KeptInv, Kept
<1>4. Surroundings'
  <2>1. /\ tool.read[i] \in FileStates \cup {Partial} /\ Gone \in FileStates \cup {Partial}
        /\ Partial \in FileStates \cup {Partial}
    BY <1>2 DEF FileStates, FileContents
  <2>2. temp' \in [Items -> FileStates \cup {Partial}]
    BY <1>1, <1>2, <2>1 DEF open_temp, write_temp, recheck, Surroundings
  <2> QED
    BY <1>1, <2>2 DEF Surroundings
<1>5. CASE open_temp
  <2>1. CASE Stop("invalid")
    BY <1>1, <1>3, <1>4, <2>1, StopKeeps
  <2>2. CASE /\ tool' = [tool EXCEPT !.existed = installed[i] # Gone, !.at = "write"]
             /\ tool.at = "open"
    <3>1. /\ tool' \in Runs /\ tool'.at = "write" /\ tool'.result = tool.result /\ tool'.op = tool.op
          /\ tool'.todo = tool.todo /\ tool'.read = tool.read /\ tool'.manifest = tool.manifest
          /\ tool'.item = i /\ tool'.report = tool.report
      BY <1>1, <1>2, <2>2 DEF Runs, Labels
    <3>2. ~Kept(i)'
      BY <1>1, <1>2, <1>3, <2>2 DEF WorkInv
    <3>3. WorkInv'
      BY <1>2, <3>1, <3>2 DEF WorkInv, AtWork, Writing
    <3>4. VisitedInv'
      BY <1>1, <3>1, VisitedKept
    <3>5. RunInv'
      BY <1>1, <3>1 DEF InstallInv, RunInv
    <3> QED
      BY <1>3, <1>4, <3>1, <3>3, <3>4, <3>5, TypesAre DEF InstallInv
  <2> QED
    BY <1>2, <1>5, <2>1, <2>2 DEF open_temp
<1>6. CASE write_temp
  <2>1. /\ tool'.at = "recheck" /\ tool'.op = tool.op /\ tool'.todo = tool.todo
        /\ tool'.read = tool.read /\ tool'.item = i /\ tool'.existed = tool.existed
    BY <1>1, <1>2, <1>6, ToFields DEF Labels, write_temp
  <2>2. temp'[i] = tool.read[i]
    BY <1>1, <1>2, <1>6 DEF write_temp, Surroundings
  <2>3. WorkInv'
    BY <1>1, <1>2, <1>3, <1>6, <2>1, <2>2 DEF WorkInv, AtWork, Writing, write_temp
  <2> QED
    BY <1>1, <1>3, <1>4, <1>6, <2>3, ToKeeps DEF Labels, write_temp
<1>7. CASE recheck
  <2>1. CASE Stop("invalid") \/ Stop("changed")
    BY <1>1, <1>3, <1>4, <2>1, StopKeeps
  <2>2. CASE /\ still_as_before(i) /\ To(IF installed[i] # Gone THEN "remove" ELSE "rename")
             /\ UNCHANGED temp /\ tool.at = "recheck"
    <3>1. PICK label \in {"remove", "rename"} : To(label)
      BY <2>2
    <3>2. /\ tool'.at = label /\ tool'.op = tool.op /\ tool'.todo = tool.todo
          /\ tool'.read = tool.read /\ tool'.item = i /\ label \in Labels
      BY <1>1, <1>2, <3>1, ToFields DEF Labels
    <3>3. ~Kept(i)
      <4>1. CASE tool.existed
        BY <1>1, <1>2, <2>2, <4>1 DEF WorkInv
      <4>2. CASE ~tool.existed
        BY <1>1, <2>2, <4>2, KeptIsPresent DEF still_as_before
      <4> QED
        BY <4>1, <4>2
    <3>4. WorkInv'
      BY <1>1, <1>2, <1>3, <2>2, <3>2, <3>3 DEF WorkInv, AtWork, Writing
    <3> QED
      BY <1>1, <1>3, <1>4, <3>1, <3>2, <3>4, ToKeeps
  <2> QED
    BY <1>2, <1>7, <2>1, <2>2 DEF recheck
<1> QED
  BY <1>5, <1>6, <1>7

\* A file that a run has finished with.
LEMMA CountedKeeps ==
  ASSUME InstallInv, tool.at # "idle", NEW i \in tool.todo, tool' \in Runs,
         tool'.at = "item", tool'.result = tool.result, tool'.op = tool.op,
         tool'.todo = tool.todo \ {i}, tool'.manifest = tool.manifest,
         \A j \in Items \ {i} : tool'.read[j] = tool.read[j] /\ installed'[j] = installed[j],
         tool.op = "stage" => Handled(tool'.report) = Handled(tool.report) + 1,
         \A j \in Items \ tool.todo : j \in touched' <=> j \in touched,
         tool.op = "stage" =>
           IF OwnedByPackage(i) THEN installed'[i] = tool'.read[i] ELSE installed'[i] \in FileContents,
         tool.op = "uninstall" => installed'[i] # tool'.read[i] \/ installed'[i] = Gone,
         tool.at \notin {"root", "directories"}, Surroundings', KeptInv'
  PROVE  InstallInv'
<1>1. tool \in Runs /\ tool.op # "none" /\ tool.result = "none" /\ i \in Items
  BY TypesAre DEF InstallInv, RunInv, Runs
<1>2. WorkInv'
  BY DEF WorkInv, AtWork, Writing
<1>3. VisitedInv'
  <2> SUFFICES ASSUME NEW j \in Items, Visited(j)'
               PROVE  /\ tool.op = "stage" =>
                           IF OwnedByPackage(j)' THEN installed'[j] = tool'.read[j]
                           ELSE installed'[j] \in FileContents
                      /\ tool.op = "uninstall" => installed'[j] # tool'.read[j] \/ installed'[j] = Gone
    BY DEF VisitedInv
  <2>1. OwnedByPackage(j)' <=> OwnedByPackage(j)
    BY DEF OwnedByPackage
  <2>2. CASE j = i
    BY <2>1, <2>2
  <2>3. CASE j # i
    <3>1. Visited(j)
      BY <2>3 DEF Visited
    <3> QED
      BY <1>1, <2>1, <2>3, <3>1 DEF InstallInv, VisitedInv
  <2> QED
    BY <2>2, <2>3
<1>4. RunInv'
  <2>1. CASE tool.op = "stage"
    <3>1. IsFiniteSet(Items \ tool.todo) /\ i \notin Items \ tool.todo
      <4>1. Items \ tool.todo \subseteq Items /\ IsFiniteSet(Items)
        BY InstallAssumption
      <4> QED
        BY <4>1, FS_Subset
    <3>2. Items \ tool'.todo = (Items \ tool.todo) \cup {i}
      BY <1>1
    <3>3. Cardinality(Items \ tool'.todo) = Cardinality(Items \ tool.todo) + 1
      <4> DEFINE S == Items \ tool.todo
      <4>1. Cardinality(S \cup {i}) = Cardinality(S) + 1
        <5> HIDE DEF S
        <5>1. IsFiniteSet(S) /\ i \notin S
          BY <3>1 DEF S
        <5> QED
          BY <5>1, FS_AddElement
      <4> QED
        BY <3>2, <4>1
    <3> QED
      BY <1>1, <2>1, <3>3 DEF InstallInv, RunInv
  <2>2. CASE tool.op # "stage"
    BY <1>1, <2>2 DEF InstallInv, RunInv
  <2> QED
    BY <2>1, <2>2
<1> QED
  BY <1>2, <1>3, <1>4, TypesAre DEF InstallInv

\* A file that a run takes in its hands: it is no administrator's.
LEMMA HeldKeeps ==
  ASSUME InstallInv, tool.at = "item", NEW i \in tool.todo, NEW label \in {"open", "unlink"},
         tool' = Held(i, label), installed' = installed, UNCHANGED temp,
         \A j \in Items \ tool.todo : j \in touched' <=> j \in touched,
         label = "open" => tool.op = "stage" /\ source[i] \in Versions,
         label = "unlink" => tool.op = "uninstall",
         ~Kept(i)', Surroundings', KeptInv'
  PROVE  InstallInv'
<1>1. tool \in Runs /\ tool.op # "none" /\ tool.result = "none" /\ i \in Items /\ Surroundings
  BY TypesAre DEF InstallInv, RunInv, Runs
<1>2. source \in [Items -> Versions \cup {Gone}]
  BY <1>1 DEF Surroundings
<1>3. /\ tool' \in Runs /\ tool'.at = label /\ tool'.result = tool.result /\ tool'.op = tool.op
      /\ tool'.todo = tool.todo /\ tool'.manifest = tool.manifest /\ tool'.item = i
      /\ tool'.read = [tool.read EXCEPT ![i] = source[i]] /\ tool'.report = tool.report
  BY <1>1, <1>2, HeldFields
<1>4. \A j \in Items : tool'.read[j] = IF j = i THEN source[i] ELSE tool.read[j]
  BY <1>1, <1>3 DEF Runs
<1>5. WorkInv'
  BY <1>1, <1>3, <1>4 DEF WorkInv, AtWork, Writing
<1>6. VisitedInv'
  <2> SUFFICES ASSUME NEW j \in Items, Visited(j)'
               PROVE  /\ tool.op = "stage" =>
                           IF OwnedByPackage(j)' THEN installed'[j] = tool'.read[j]
                           ELSE installed'[j] \in FileContents
                      /\ tool.op = "uninstall" => installed'[j] # tool'.read[j] \/ installed'[j] = Gone
    BY <1>3 DEF VisitedInv
  <2>1. OwnedByPackage(j)' <=> OwnedByPackage(j)
    BY <1>3 DEF OwnedByPackage
  <2>2. Visited(j) /\ j # i
    BY <1>3 DEF Visited
  <2> QED
    BY <1>1, <1>4, <2>1, <2>2 DEF InstallInv, VisitedInv
<1>7. RunInv'
  BY <1>1, <1>3 DEF InstallInv, RunInv
<1> QED
  BY <1>3, <1>5, <1>6, <1>7, TypesAre DEF InstallInv

\* The look at one file: it ends the run, leaves the file or takes it up.
LEMMA LookAtFileKeeps ==
  ASSUME InstallInv, NEW i \in Items, look(i)
  PROVE  InstallInv'
<1>1. /\ Surroundings /\ KeptInv /\ tool \in Runs /\ tool.at = "item" /\ i \in tool.todo
      /\ UNCHANGED <<root, installed, temp, source, database, edited>>
      /\ touched' = touched \ {i} /\ raced' = raced \ ({i} \ StillRaced)
  BY TypesAre DEF look, InstallInv, IsNextItem
<1>2. tool.op \in {"stage", "uninstall"} /\ tool.manifest \in Manifests /\ validate_shape(tool.manifest)
  BY <1>1 DEF InstallInv, RunInv, Runs
<1>3. Surroundings'
  <2>1. place' \in [Areas -> {Gone, Odd, "dir"}]
    <3>1. CASE UNCHANGED place
      BY <1>1, <3>1 DEF Surroundings
    <3>2. CASE place' = Walked(Area[i])
      BY <1>1, <3>2 DEF Surroundings, Walked
    <3> QED
      BY <3>1, <3>2 DEF look
  <2> QED
    BY <1>1, <2>1 DEF Surroundings
<1>4. KeptInv'
  BY <1>1 DEF KeptInv, Kept, StillRaced
<1>5. \A j \in Items \ tool.todo : j \in touched' <=> j \in touched
  BY <1>1
<1>6. source[i] \in Versions \cup {Gone} /\ source \in [Items -> Versions \cup {Gone}]
      /\ installed[i] \in FileStates
  BY <1>1 DEF Surroundings
<1>7. Kept(i)' => installed[i] # Gone /\ installed[i] \notin Versions /\ Area[i] = "etc"
  BY <1>1, <1>4, InstallAssumption DEF KeptInv, Kept, FileContents
<1>8. CASE Stop("io") \/ Stop("invalid")
  BY <1>1, <1>3, <1>4, <1>5, <1>8, StopKeeps
<1>9. ASSUME tool' = Held(i, "open"), tool.op = "stage", source[i] \in Versions, ~Kept(i)'
      PROVE  InstallInv'
  BY <1>1, <1>3, <1>4, <1>5, <1>9, HeldKeeps
<1>10. ASSUME tool' = Held(i, "unlink"), tool.op = "uninstall", ~Kept(i)'
       PROVE  InstallInv'
  BY <1>1, <1>3, <1>4, <1>5, <1>10, HeldKeeps
<1>11. ASSUME NEW field \in {"unchanged", "preserved"}, tool' = Counted(i, field),
              tool.op = "stage" =>
                IF OwnedByPackage(i) THEN installed[i] = source[i] ELSE installed[i] \in FileContents,
              tool.op = "uninstall" => installed[i] # source[i]
       PROVE  InstallInv'
  <2>1. /\ tool' \in Runs /\ tool'.at = "item" /\ tool'.result = tool.result /\ tool'.op = tool.op
        /\ tool'.todo = tool.todo \ {i} /\ tool'.manifest = tool.manifest
        /\ tool'.read = [tool.read EXCEPT ![i] = IF tool.at = "item" THEN source[i] ELSE @]
        /\ Handled(tool'.report) = Handled(tool.report) + 1
    BY <1>1, <1>6, <1>11, CountedFields
  <2>2. \A j \in Items : tool'.read[j] = IF j = i THEN source[i] ELSE tool.read[j]
    BY <1>1, <2>1 DEF Runs
  <2> QED
    BY <1>1, <1>3, <1>4, <1>5, <1>11, <2>1, <2>2, CountedKeeps
<1>12. ASSUME tool' = Passed(i), tool.op = "uninstall", installed[i] = Gone
       PROVE  InstallInv'
  <2>1. /\ tool' \in Runs /\ tool'.at = "item" /\ tool'.result = tool.result /\ tool'.op = tool.op
        /\ tool'.todo = tool.todo \ {i} /\ tool'.manifest = tool.manifest /\ tool'.read = tool.read
    BY <1>1, <1>12, PassedFields
  <2> QED
    BY <1>1, <1>3, <1>4, <1>5, <1>12, <2>1, CountedKeeps
<1>13. CASE /\ ~(source[i] = Gone /\ (tool.op = "stage" \/ installed[i] \notin {Gone, Odd}))
            /\ regular_target_or_absent(i)
            /\ tool' = IF tool.op = "uninstall" THEN remove_unless_modified(i)
                       ELSE IF OwnedByPackage(i) THEN copy_package_owned(i)
                       ELSE copy_administrator_config(i)
  <2>1. installed[i] # Odd
    BY <1>13 DEF regular_target_or_absent
  <2>2. CASE tool.op = "uninstall"
    <3>1. CASE installed[i] = Gone
      BY <1>12, <1>13, <2>2, <3>1 DEF remove_unless_modified
    <3>2. CASE installed[i] # Gone /\ installed[i] = source[i]
      <4>1. ~Kept(i)'
        BY <1>6, <1>7, <3>2
      <4> QED
        BY <1>10, <1>13, <2>2, <3>2, <4>1 DEF remove_unless_modified
    <3>3. CASE installed[i] # Gone /\ installed[i] # source[i]
      BY <1>11, <1>13, <2>2, <3>3 DEF remove_unless_modified
    <3> QED
      BY <3>1, <3>2, <3>3
  <2>3. CASE tool.op = "stage" /\ OwnedByPackage(i)
    <3>1. source[i] \in Versions
      BY <1>6, <1>13, <2>3
    <3>2. ~Kept(i)'
      BY <1>2, <1>7, <2>3, ConfigurationIsNotOwned
    <3>3. CASE installed[i] = source[i]
      BY <1>11, <1>13, <2>3, <3>3 DEF copy_package_owned
    <3>4. CASE installed[i] # source[i]
      BY <1>9, <1>13, <2>3, <3>1, <3>2, <3>4 DEF copy_package_owned
    <3> QED
      BY <3>3, <3>4
  <2>4. CASE tool.op = "stage" /\ ~OwnedByPackage(i)
    <3>1. source[i] \in Versions
      BY <1>6, <1>13, <2>4
    <3>2. CASE installed[i] = Gone
      BY <1>7, <1>9, <1>13, <2>4, <3>1, <3>2 DEF copy_administrator_config
    <3>3. CASE installed[i] # Gone
      <4>1. installed[i] \in FileContents
        BY <1>6, <2>1, <3>3 DEF FileStates
      <4>2. PICK field \in {"unchanged", "preserved"} : tool' = Counted(i, field)
        BY <1>13, <2>4, <3>3 DEF copy_administrator_config
      <4> QED
        BY <1>11, <2>4, <4>1, <4>2
    <3> QED
      BY <3>2, <3>3
  <2> QED
    BY <1>2, <2>2, <2>3, <2>4
<1> QED
  BY <1>8, <1>13 DEF look

\* The old file goes, the new one comes.
LEMMA ReplaceStepsKeep ==
  ASSUME InstallInv, remove_target \/ rename_temp \/ remove_if_unmodified
  PROVE  InstallInv'
<1>1. /\ Surroundings /\ KeptInv /\ WorkInv /\ tool \in Runs
      /\ UNCHANGED <<root, place, source, database, edited, raced, touched>>
      /\ tool.at \in {"remove", "rename", "unlink"}
  BY TypesAre DEF remove_target, rename_temp, remove_if_unmodified, InstallInv
<1>2. PICK i \in Items : tool.item = i /\ i \in tool.todo /\ ~Kept(i)
  BY <1>1 DEF WorkInv, AtWork, Writing, Runs
<1>3. \A j \in Items : Kept(j)' <=> Kept(j)
  BY <1>1 DEF Kept
<1>4. /\ temp[i] \in FileStates \cup {Partial} /\ Gone \in FileStates
      /\ installed \in [Items -> FileStates] /\ temp \in [Items -> FileStates \cup {Partial}]
      /\ source \in [Items -> Versions \cup {Gone}]
  BY <1>1 DEF Surroundings, FileStates
<1>5. tool.at = "rename" => /\ tool.op = "stage" /\ temp[i] = tool.read[i]
                            /\ tool.read[i] \in Versions /\ temp[i] \in FileContents
  BY <1>1, <1>2 DEF WorkInv, Writing, FileContents
<1>6. ASSUME installed' = installed, temp' = temp \/ temp' = [temp EXCEPT ![i] = Gone]
      PROVE  Surroundings' /\ KeptInv'
  BY <1>1, <1>3, <1>4, <1>6 DEF Surroundings, KeptInv
<1>7. ASSUME NEW c \in FileStates, installed' = [installed EXCEPT ![i] = c],
             temp' = temp \/ temp' = [temp EXCEPT ![i] = Gone]
      PROVE  /\ Surroundings' /\ KeptInv' /\ installed'[i] = c
             /\ \A j \in Items \ {i} : installed'[j] = installed[j]
  <2>1. installed'[i] = c /\ \A j \in Items \ {i} : installed'[j] = installed[j]
    BY <1>4, <1>7
  <2>2. Surroundings'
    BY <1>1, <1>4, <1>7 DEF Surroundings
  <2>3. KeptInv'
    BY <1>1, <1>2, <1>3, <2>1 DEF KeptInv
  <2> QED
    BY <2>1, <2>2, <2>3
<1>8. CASE Stop("io") /\ UNCHANGED installed /\ (temp' = temp \/ temp' = [temp EXCEPT ![i] = Gone])
  <2>1. Surroundings' /\ KeptInv'
    BY <1>6, <1>8
  <2> QED
    BY <1>1, <1>8, <2>1, StopKeeps
<1>9. CASE remove_target /\ To("rename") /\ installed' = [installed EXCEPT ![i] = Gone]
  <2>1. UNCHANGED temp /\ tool.at = "remove"
    BY <1>9 DEF remove_target
  <2>2. Surroundings' /\ KeptInv' /\ \A j \in Items \ {i} : installed'[j] = installed[j]
    BY <1>4, <1>7, <1>9, <2>1
  <2>3. /\ tool'.at = "rename" /\ tool'.op = tool.op /\ tool'.todo = tool.todo
        /\ tool'.read = tool.read /\ tool'.item = i
    BY <1>1, <1>2, <1>9, ToFields DEF Labels
  <2>4. WorkInv'
    BY <1>1, <1>2, <1>3, <2>1, <2>3 DEF WorkInv, AtWork, Writing
  <2> QED
    BY <1>1, <1>2, <1>9, <2>2, <2>4, ToKeeps DEF Labels
<1>10. CASE /\ rename_temp /\ installed' = [installed EXCEPT ![i] = temp[i]]
            /\ tool' = Counted(i, IF tool.found THEN "replaced" ELSE "created")
  <2>1. temp' = [temp EXCEPT ![i] = Gone] /\ tool.at = "rename"
    BY <1>2, <1>10 DEF rename_temp
  <2>2. temp[i] \in FileStates
    BY <1>5, <2>1 DEF FileStates
  <2>3. /\ Surroundings' /\ KeptInv' /\ installed'[i] = temp[i]
        /\ \A j \in Items \ {i} : installed'[j] = installed[j]
    BY <1>7, <1>10, <2>1, <2>2
  <2>4. PICK field \in {"created", "replaced"} : tool' = Counted(i, field)
    BY <1>10
  <2>5. /\ tool' \in Runs /\ tool'.at = "item" /\ tool'.result = tool.result /\ tool'.op = tool.op
        /\ tool'.todo = tool.todo \ {i} /\ tool'.manifest = tool.manifest
        /\ tool'.read = [tool.read EXCEPT ![i] = IF tool.at = "item" THEN source[i] ELSE @]
        /\ Handled(tool'.report) = Handled(tool.report) + 1
    <3>1. /\ field \in {"created", "replaced", "unchanged", "preserved", "removed"}
          /\ field # "removed" /\ source \in [Items -> Versions \cup {Gone}]
      BY <1>4
    <3> QED
      BY <1>1, <2>4, <3>1, CountedFields
  <2>6. \A j \in Items : tool'.read[j] = tool.read[j]
    BY <1>1, <2>1, <2>5 DEF Runs
  <2> QED
    BY <1>1, <1>2, <1>5, <2>1, <2>3, <2>5, <2>6, CountedKeeps
<1>11. CASE /\ remove_if_unmodified /\ installed' = [installed EXCEPT ![i] = Gone]
            /\ tool' = Counted(i, "removed")
  <2>1. UNCHANGED temp /\ tool.at = "unlink" /\ tool.op = "uninstall"
    BY <1>1, <1>11 DEF remove_if_unmodified, WorkInv
  <2>2. /\ Surroundings' /\ KeptInv' /\ installed'[i] = Gone
        /\ \A j \in Items \ {i} : installed'[j] = installed[j]
    BY <1>4, <1>7, <1>11, <2>1
  <2>3. /\ tool' \in Runs /\ tool'.at = "item" /\ tool'.result = tool.result /\ tool'.op = tool.op
        /\ tool'.todo = tool.todo \ {i} /\ tool'.manifest = tool.manifest
        /\ tool'.read = [tool.read EXCEPT ![i] = IF tool.at = "item" THEN source[i] ELSE @]
    BY <1>1, <1>4, <1>11, CountedFields
  <2>4. \A j \in Items : tool'.read[j] = tool.read[j]
    BY <1>1, <2>1, <2>3 DEF Runs
  <2> QED
    BY <1>1, <1>2, <2>1, <2>2, <2>3, <2>4, CountedKeeps
<1> QED
  BY <1>2, <1>8, <1>9, <1>10, <1>11 DEF remove_target, rename_temp, remove_if_unmodified

\* The last check of a run, and its failures.
LEMMA EndsKeep ==
  ASSUME InstallInv, finish \/ fails
  PROVE  InstallInv'
<1>1. /\ Surroundings /\ KeptInv /\ tool \in Runs /\ tool.at # "idle"
      /\ UNCHANGED <<root, place, installed, source, database, edited, raced, touched>>
  BY TypesAre DEF finish, fails, InstallInv
<1>2. KeptInv'
  BY <1>1 DEF KeptInv, Kept
<1>3. Surroundings'
  <2>1. temp' \in [Items -> FileStates \cup {Partial}]
    <3>1. CASE temp' = temp
      BY <1>1, <3>1 DEF Surroundings
    <3>2. CASE temp' = [temp EXCEPT ![tool.item] = Gone]
      BY <1>1, <3>2 DEF Surroundings, FileStates
    <3> QED
      BY <3>1, <3>2 DEF finish, fails
  <2> QED
    BY <1>1, <2>1 DEF Surroundings
<1>4. CASE Stop("io") \/ Stop("invalid")
  BY <1>1, <1>2, <1>3, <1>4, StopKeeps
<1>5. CASE Stop("ok") /\ (tool.op = "uninstall" \/ validate_staged)
  BY <1>1, <1>2, <1>3, <1>5, StopKeeps
<1> QED
  BY <1>4, <1>5 DEF finish, fails

\* The others: an edit where a run is blind is one that raced it.
LEMMA EditsKeep ==
  ASSUME InstallInv, NEW i \in Items,
         administrator_edits(i) \/ package_upgraded(i) \/ credential_stored
  PROVE  InstallInv'
<1>1. /\ Surroundings /\ KeptInv /\ WorkInv /\ RunInv /\ VisitedInv /\ tool \in Runs
      /\ UNCHANGED <<root, place, temp, tool>>
  BY TypesAre DEF administrator_edits, package_upgraded, credential_stored, InstallInv
<1>2. CASE UNCHANGED <<installed, edited, raced, touched>>
  <2>1. Surroundings'
    <3>1. source' \in [Items -> Versions \cup {Gone}]
      <4>1. CASE UNCHANGED source
        BY <1>1, <4>1 DEF Surroundings
      <4>2. CASE \E c \in Versions \cup {Gone} : source' = [source EXCEPT ![i] = c]
        BY <1>1, <4>2 DEF Surroundings
      <4>3. CASE administrator_edits(i)
        BY <1>2, <4>3, <1>1 DEF administrator_edits, Surroundings
      <4> QED
        BY <4>1, <4>2, <4>3 DEF package_upgraded, credential_stored
    <3>2. database' \in BOOLEAN
      BY <1>1 DEF administrator_edits, package_upgraded, credential_stored, Surroundings
    <3> QED
      BY <1>1, <1>2, <3>1, <3>2 DEF Surroundings
  <2>2. KeptInv' /\ WorkInv'
    BY <1>1, <1>2 DEF KeptInv, WorkInv, Kept
  <2>3. RunInv'
    BY <1>1, <1>2 DEF RunInv
  <2>4. VisitedInv'
    BY <1>1, <1>2 DEF VisitedInv, Visited, OwnedByPackage
  <2> QED
    BY <1>1, <2>1, <2>2, <2>3, <2>4, TypesAre DEF InstallInv
<1>3. CASE administrator_edits(i)
  <2>1. PICK c \in AdminContents \cup {Gone, Odd} :
          installed' = [installed EXCEPT ![i] = c] /\ edited' = [edited EXCEPT ![i] = c]
    BY <1>3 DEF administrator_edits
  <2>2. /\ raced' = (IF Blind(i) THEN raced \cup {i} ELSE raced \ {i}) /\ touched' = touched \cup {i}
        /\ UNCHANGED <<source, database>>
    BY <1>3 DEF administrator_edits
  <2>3. /\ installed'[i] = c /\ edited'[i] = c
        /\ \A j \in Items \ {i} : installed'[j] = installed[j] /\ edited'[j] = edited[j]
    BY <1>1, <2>1 DEF Surroundings
  <2>4. Surroundings'
    BY <1>1, <2>1, <2>2 DEF Surroundings, FileStates, FileContents
  <2>5. KeptInv'
    BY <1>1, <2>2, <2>3 DEF KeptInv, Kept
  <2>6. \A j \in Items \ {i} : Kept(j)' <=> Kept(j)
    BY <2>2, <2>3 DEF Kept
  <2>7. Blind(i) => ~Kept(i)'
    BY <2>2 DEF Kept
  <2>8. WorkInv'
    <3>1. tool.at \in AtWork => tool.item \in Items
      BY <1>1 DEF WorkInv, Runs
    <3>2. tool.at \in {"open", "remove", "rename", "unlink"} => ~Kept(tool.item)'
      BY <1>1, <2>6, <2>7, <3>1 DEF WorkInv, Blind, AtWork, Writing
    <3>3. tool.at \in {"write", "recheck"} /\ tool.existed => ~Kept(tool.item)'
      BY <1>1, <2>6, <2>7, <3>1 DEF WorkInv, Blind, AtWork, Writing
    <3> QED
      BY <1>1, <3>2, <3>3 DEF WorkInv
  <2>9. RunInv'
    BY <1>1, <2>2, <2>3, InstallAssumption DEF RunInv
  <2>10. VisitedInv'
    <3> SUFFICES ASSUME NEW j \in Items, Visited(j)'
                 PROVE  Visited(j) /\ installed'[j] = installed[j] /\ (OwnedByPackage(j)' <=> OwnedByPackage(j))
      BY <1>1 DEF VisitedInv
    <3> QED
      BY <1>1, <2>2, <2>3 DEF Visited, OwnedByPackage
  <2> QED
    BY <1>1, <2>4, <2>5, <2>8, <2>9, <2>10, TypesAre DEF InstallInv
<1> QED
  BY <1>2, <1>3 DEF package_upgraded, credential_stored

\* The inductive invariant of the installer: the types, the administrator's files,
\* the file in a run's hands, the run's own record and the files it has visited
\* (stage, uninstall, write_atomicish).
THEOREM InstallInvariant == InstallSpec => []InstallInv
<1>1. InstallInit => InstallInv
  <2> SUFFICES ASSUME InstallInit PROVE InstallInv
    OBVIOUS
  <2>1. NoRun \in Runs /\ NoRun.at = "idle" /\ NoRun.op = "none"
    BY DEF NoRun, NoReport, Runs, Labels, Results, Reports
  <2>2. Surroundings
    BY DEF InstallInit, Surroundings, FileStates
  <2>3. InstallTypes
    BY <2>1, <2>2 DEF InstallInit, InstallTypes, InstallTypeOK, Surroundings, Runs, Labels, Results
  <2>4. KeptInv
    BY InstallAssumption DEF InstallInit, KeptInv, Kept, FileContents
  <2>5. WorkInv /\ RunInv /\ VisitedInv
    BY <2>1 DEF InstallInit, WorkInv, RunInv, VisitedInv, Visited, AtWork, Writing
  <2> QED
    BY <2>3, <2>4, <2>5 DEF InstallInv
<1>2. InstallInv /\ [InstallNext]_installVars => InstallInv'
  <2> SUFFICES ASSUME InstallInv, [InstallNext]_installVars PROVE InstallInv'
    OBVIOUS
  <2>1. ASSUME NEW m \in Manifests, stage(m) \/ uninstall(m) PROVE InstallInv'
    BY <2>1, BeginKeeps
  <2>2. CASE prepare_staging_root \/ ensure_real_directory_tree
    BY <2>2, DirectoriesKeep
  <2>3. ASSUME NEW i \in Items, look(i) PROVE InstallInv'
    BY <2>3, LookAtFileKeeps
  <2>4. CASE open_temp \/ write_temp \/ recheck
    BY <2>4, WriteStepsKeep
  <2>5. CASE remove_target \/ rename_temp \/ remove_if_unmodified
    BY <2>5, ReplaceStepsKeep
  <2>6. CASE finish \/ fails
    BY <2>6, EndsKeep
  <2>7. ASSUME NEW i \in Items, administrator_edits(i) \/ package_upgraded(i) PROVE InstallInv'
    BY <2>7, EditsKeep
  <2>8. CASE credential_stored
    <3>1. CASE Items = {}
      BY <2>8, <3>1 DEF InstallInv, InstallTypes, InstallTypeOK, Runs, KeptInv, WorkInv, RunInv,
                        VisitedInv, Visited, OwnedByPackage, Kept, credential_stored
    <3>2. CASE Items # {}
      BY <2>8, <3>2, EditsKeep
    <3> QED
      BY <3>1, <3>2
  <2>9. CASE UNCHANGED installVars
    BY <2>9 DEF installVars, InstallInv, InstallTypes, InstallTypeOK, KeptInv, WorkInv, RunInv,
                VisitedInv, Visited, OwnedByPackage, Kept
  <2> QED
    BY <2>1, <2>2, <2>3, <2>4, <2>5, <2>6, <2>7, <2>8, <2>9 DEF InstallNext
<1> QED
  BY <1>1, <1>2, PTL DEF InstallSpec

\* What an administrator wrote into the configuration stays through any number of
\* runs, upgrades, failures and kills, unless it was written while a run was blind
\* for that file (copy_administrator_config, remove_if_unmodified).
THEOREM AdministratorFilesStay == InstallSpec => []AdministratorWorkStays
<1>1. InstallInv => AdministratorWorkStays
  BY DEF InstallInv, InstallTypes, KeptInv, Kept, AdministratorWorkStays
<1> QED
  BY <1>1, InstallInvariant, PTL

\* A run that reports success did what it reports, counts every file once, never
\* leaves a file cut short under its own name, and worked from a manifest with at
\* least eight decisions open (stage, uninstall, validate_staged, validate_shape).
THEOREM StagedFilesAreHonest == InstallSpec => []StagingIsHonest
<1>1. InstallInv => StagingIsHonest
  <2> SUFFICES ASSUME InstallInv PROVE StagingIsHonest
    OBVIOUS
  <2>1. \A i \in Items : installed[i] # Partial
    BY InstallAssumption DEF InstallInv, InstallTypes, InstallTypeOK, FileStates, FileContents
  <2>2. tool.op = "stage" /\ tool.at = "item" => Handled(tool.report) = Cardinality(Items \ tool.todo)
    BY DEF InstallInv, RunInv
  <2>3. ASSUME tool.result = "ok", NEW i \in Items, Visited(i)
        PROVE  IF tool.op = "stage"
               THEN /\ IF OwnedByPackage(i) THEN installed[i] = tool.read[i] ELSE installed[i] \in FileContents
                    /\ i \in PolicyItems => installed[i] \notin Unloadable
               ELSE installed[i] # tool.read[i] \/ installed[i] = Gone
    <3>1. tool.op \in {"stage", "uninstall"} /\ i \notin touched
      BY <2>3 DEF Visited, InstallInv, InstallTypes, Runs
    <3>2. tool.op = "stage" /\ i \in PolicyItems => installed[i] \notin Unloadable
      BY <2>3, <3>1 DEF InstallInv, RunInv
    <3> QED
      BY <2>3, <3>1, <3>2 DEF InstallInv, VisitedInv
  <2>4. tool.op # "none" /\ tool.result # "invalid" =>
          ~release_ready(tool.manifest) /\ unresolved_linux_items(tool.manifest) >= 8
    BY ShapeLeavesOpen DEF InstallInv, RunInv
  <2> QED
    BY <2>1, <2>2, <2>3, <2>4 DEF StagingIsHonest
<1> QED
  BY <1>1, InstallInvariant, PTL

(***************************************************************************)
(* The Master Portus launcher.                                             *)
(***************************************************************************)
\* There is a session exactly while one more was created than has ended.
SessionInv ==
  /\ ends \in Nat /\ sessions \in {ends, ends + 1}
  /\ session = IF sessions = ends THEN 0 ELSE sessions

\* A launcher that is at work has no outcome; whoever succeeded attached to a
\* session that was created.
OutcomeInv ==
  \A l \in Launchers :
    /\ step[l] # "done" => outcome[l] = "none"
    /\ outcome[l] \in Successes => joined[l] \in 1 .. sessions

Creator(l) == step[l] = "attach_created" \/ outcome[l] = "created_and_attached"

\* As long as no session has ended: one launcher created it, whoever means to
\* attach can, and only a failed command ends a login without it.
LoginInv ==
  ends = 0 =>
    /\ \A k, l \in Launchers : Creator(k) /\ Creator(l) => k = l
    /\ \A l \in Launchers :
         /\ Creator(l) => sessions # 0
         /\ step[l] \in {"has_again", "attach", "attach_created", "attach_race"} => sessions # 0
         /\ mode[l] = "bootstrap" /\ launch_faults = 0 =>
              outcome[l] \notin {"process_failed", "dependency_unavailable"}

\* What a launcher has behind it when it is at a step.
AtAgents == {"agents", "create_agents"}
HasAgents == {"write_agents", "inspect_agents"} \cup PreparedSteps
Behind(p) ==
  CASE p = "root"   -> {"user", "create_user", "inspect_user", "master", "create_master",
                        "inspect_master"} \cup AtAgents \cup HasAgents
    [] p = "user"   -> {"master", "create_master", "inspect_master"} \cup AtAgents \cup HasAgents
    [] p = "master" -> AtAgents \cup HasAgents
    [] p = "agents" -> HasAgents

\* As long as nobody else changes the workspace: what was found stays, AGENTS.md
\* is written only where there was none, and a path that was found or made good
\* stays good, AGENTS.md until a failed write takes it away.
PathInv ==
  intrusions = 0 =>
    /\ \A p \in Paths : found[p].type # "none" => node[p] = found[p]
    /\ \A l \in Launchers : step[l] = "write_agents" => found["agents"].type = "none"
    /\ \A l \in Launchers, p \in Paths :
         step[l] \in Behind(p) /\ (p = "agents" => launch_faults = 0) =>
           inspected(p, node[p]) = "none"

LaunchInv == LaunchTypeOK /\ SessionInv /\ OutcomeInv /\ LoginInv /\ PathInv

Steps ==
  Paths \cup PreparedSteps \cup
    {"new", "create_user", "inspect_user", "create_master", "inspect_master",
     "create_agents", "write_agents", "inspect_agents", "done"}

\* What inspect reports about a path (validate_existing_directory).
LEMMA InspectedCodes ==
  ASSUME NEW p, NEW n
  PROVE  inspected(p, n) \in {"none", "unavailable", "unsafe_symlink", "unsafe_file_type",
                              "ownership_mismatch"}
  BY DEF inspected

\* The steps behind which each path lies.
LEMMA BehindSets ==
  /\ Behind("root") = {"user", "create_user", "inspect_user", "master", "create_master",
                       "inspect_master"} \cup AtAgents \cup HasAgents
  /\ Behind("user") = {"master", "create_master", "inspect_master"} \cup AtAgents \cup HasAgents
  /\ Behind("master") = AtAgents \cup HasAgents
  /\ Behind("agents") = HasAgents
  BY Zenon DEF Behind

\* The step behind each path.
LEMMA AfterPaths ==
  /\ After("root") = "user" /\ After("user") = "master" /\ After("master") = "agents"
  /\ After("agents") = "command"
  BY Zenon DEF After

\* inspect either goes on behind a good path, creates a missing one, or fails.
LEMMA InspectCases ==
  ASSUME NEW l, inspect(l)
  PROVE  \/ inspected(step[l], node[step[l]]) = "none" /\ Go(l, After(step[l]))
         \/ step[l] = "user" /\ Go(l, "create_user")
         \/ step[l] = "master" /\ Go(l, "create_master")
         \/ step[l] = "agents" /\ Go(l, "create_agents")
         \/ \E code \in {"unavailable", "unsafe_symlink", "unsafe_file_type", "ownership_mismatch"} :
              Finish(l, code)
<1>1. inspected(step[l], node[step[l]]) \in {"none", "unavailable", "unsafe_symlink",
                                            "unsafe_file_type", "ownership_mismatch"}
  BY InspectedCodes
<1> QED
  BY <1>1, Zenon DEF inspect

\* A step of launcher l that goes on before tmux is asked, or ends without success.
Quiet(l) ==
  /\ step[l] # "done" /\ UNCHANGED <<session, sessions, ends, joined>>
  /\ launch_faults' \in {launch_faults, launch_faults + 1}
  /\ mode' = mode \/ \E m \in Modes : mode' = [mode EXCEPT ![l] = m]
  /\ \/ \E label \in Steps \ {"has_again", "attach", "attach_created", "attach_race", "done"} : Go(l, label)
     \/ \E code \in LaunchErrors \cup {"ran", "killed"} :
          /\ Finish(l, code)
          /\ code \in {"process_failed", "dependency_unavailable"} =>
               mode'[l] # "bootstrap" \/ launch_faults' = launch_faults + 1

Typed ==
  /\ step \in [Launchers -> Steps] /\ mode \in [Launchers -> Modes \cup {"none"}]
  /\ outcome \in [Launchers -> LaunchErrors \cup Successes \cup {"none", "ran", "killed"}]
  /\ joined \in [Launchers -> Nat] /\ launch_faults \in Nat

\* The type invariant of the launchers.
LEMMA TypedIs ==
  /\ LaunchTypeOK => Typed
  /\ Typed' /\ node' \in [Paths -> Nodes] /\ SessionInv' /\ intrusions' \in Nat => LaunchTypeOK'
  BY DEF LaunchTypeOK, Typed, Steps, SessionInv

\* A step that leaves the paths and the session alone.
LEMMA QuietKeeps ==
  ASSUME LaunchInv, NEW l \in Launchers, Quiet(l)
  PROVE  /\ Typed' /\ SessionInv' /\ OutcomeInv' /\ LoginInv'
         /\ \A k \in Launchers \ {l} : step'[k] = step[k]
<1>0. Typed /\ outcome[l] = "none" /\ step[l] # "done"
  BY TypedIs DEF LaunchInv, OutcomeInv, Quiet
<1>1. SessionInv'
  BY DEF Quiet, LaunchInv, SessionInv
<1>2. \A k \in Launchers \ {l} : /\ step'[k] = step[k] /\ outcome'[k] = outcome[k]
                                 /\ mode'[k] = mode[k] /\ joined'[k] = joined[k]
  BY <1>0 DEF Quiet, Go, Finish, Typed
<1>3. /\ outcome'[l] \in LaunchErrors \cup {"ran", "killed", "none"}
      /\ step'[l] \notin {"has_again", "attach", "attach_created", "attach_race"}
      /\ step'[l] # "done" => outcome'[l] = "none"
      /\ outcome'[l] \in {"process_failed", "dependency_unavailable"} =>
           mode'[l] # "bootstrap" \/ launch_faults' # 0
  BY <1>0 DEF Quiet, Go, Finish, Typed
<1>4. Typed'
  BY <1>0 DEF Quiet, Go, Finish, Typed, Steps
<1>5. outcome'[l] \notin Successes
  BY <1>3 DEF LaunchErrors, Successes
<1>6. OutcomeInv'
  <2> SUFFICES ASSUME NEW k \in Launchers
               PROVE  /\ step'[k] # "done" => outcome'[k] = "none"
                      /\ outcome'[k] \in Successes => joined'[k] \in 1 .. sessions'
    BY DEF OutcomeInv
  <2>1. CASE k = l
    BY <1>3, <1>5, <2>1
  <2>2. CASE k # l
    BY <1>2, <2>2 DEF LaunchInv, OutcomeInv, Quiet
  <2> QED
    BY <2>1, <2>2
<1>7. LoginInv'
  <2>1. ~Creator(l)'
    BY <1>3, <1>5 DEF Creator, Successes
  <2>2. \A k \in Launchers \ {l} : Creator(k)' <=> Creator(k)
    BY <1>2 DEF Creator
  <2>3. launch_faults' = 0 => launch_faults = 0
    BY <1>0 DEF Quiet, Typed
  <2>4. sessions' = sessions /\ ends' = ends
    BY DEF Quiet
  <2> QED
    BY <1>2, <1>3, <2>1, <2>2, <2>3, <2>4 DEF LaunchInv, LoginInv
<1> QED
  BY <1>1, <1>2, <1>4, <1>6, <1>7

\* The paths after a step of launcher l.
LEMMA PathsKept ==
  ASSUME LaunchInv, NEW l \in Launchers, \A k \in Launchers \ {l} : step'[k] = step[k],
         found' = found, intrusions' = intrusions,
         launch_faults' \in {launch_faults, launch_faults + 1},
         intrusions = 0 =>
           /\ \A p \in Paths : found[p].type # "none" => node'[p] = found[p]
           /\ \A p \in Paths : inspected(p, node[p]) = "none" /\ (p = "agents" => launch_faults' = 0)
                               => inspected(p, node'[p]) = "none"
           /\ step'[l] = "write_agents" => found["agents"].type = "none"
           /\ \A p \in Paths : step'[l] \in Behind(p) /\ (p = "agents" => launch_faults' = 0) =>
                               inspected(p, node'[p]) = "none"
  PROVE  PathInv'
<1>1. CASE intrusions # 0
  BY <1>1 DEF PathInv
<1>2. CASE intrusions = 0
  <2>1. launch_faults' = 0 => launch_faults = 0
    BY DEF LaunchInv, LaunchTypeOK
  <2>2. \A k \in Launchers : step'[k] = "write_agents" => found["agents"].type = "none"
    BY <1>2 DEF LaunchInv, PathInv
  <2>3. ASSUME NEW k \in Launchers, NEW p \in Paths, step'[k] \in Behind(p),
               p = "agents" => launch_faults' = 0
        PROVE  inspected(p, node'[p]) = "none"
    <3>1. CASE k = l
      BY <1>2, <2>3, <3>1
    <3>2. CASE k # l
      <4>1. step[k] \in Behind(p) /\ (p = "agents" => launch_faults = 0)
        BY <2>1, <2>3, <3>2
      <4>2. inspected(p, node[p]) = "none"
        BY <1>2, <4>1 DEF LaunchInv, PathInv
      <4> QED
        BY <1>2, <2>3, <4>2
    <3> QED
      BY <3>1, <3>2
  <2>4. \A k \in Launchers, p \in Paths :
          step'[k] \in Behind(p) /\ (p = "agents" => launch_faults' = 0) =>
            inspected(p, node'[p]) = "none"
    BY <2>3
  <2>5. \A p \in Paths : found[p].type # "none" => node'[p] = found[p]
    BY <1>2
  <2> HIDE DEF Behind, inspected
  <2> QED
    BY <2>2, <2>4, <2>5, Zenon DEF PathInv, Behind
<1> QED
  BY <1>1, <1>2

\* The same when the step changes no path.
LEMMA PathsSame ==
  ASSUME LaunchInv, NEW l \in Launchers, \A k \in Launchers \ {l} : step'[k] = step[k],
         found' = found, intrusions' = intrusions, node' = node,
         launch_faults' \in {launch_faults, launch_faults + 1},
         step'[l] # "write_agents",
         \A p \in Paths : step'[l] \in Behind(p) =>
                          step[l] \in Behind(p) \/ inspected(p, node[p]) = "none"
  PROVE  PathInv' /\ node' \in [Paths -> Nodes] /\ intrusions' \in Nat
<1>1. node' \in [Paths -> Nodes] /\ intrusions' \in Nat
  BY DEF LaunchInv, LaunchTypeOK
<1>2. launch_faults' = 0 => launch_faults = 0
  BY DEF LaunchInv, LaunchTypeOK
<1>3. ASSUME intrusions = 0, NEW p \in Paths, step'[l] \in Behind(p),
             p = "agents" => launch_faults' = 0
      PROVE  inspected(p, node'[p]) = "none"
  <2>1. CASE step[l] \in Behind(p)
    BY <1>2, <1>3, <2>1 DEF LaunchInv, PathInv
  <2>2. CASE inspected(p, node[p]) = "none"
    BY <2>2
  <2> QED
    BY <1>3, <2>1, <2>2
<1>4. intrusions = 0 => \A p \in Paths : found[p].type # "none" => node'[p] = found[p]
  BY DEF LaunchInv, PathInv
<1>5. PathInv'
  BY <1>3, <1>4, PathsKept
<1> QED
  BY <1>1, <1>5

\* Such a step only has to keep the paths behind the launchers in order.
LEMMA QuietIsEnough ==
  ASSUME LaunchInv, NEW l \in Launchers, Quiet(l), PathInv', node' \in [Paths -> Nodes],
         intrusions' \in Nat
  PROVE  LaunchInv'
  BY QuietKeeps, TypedIs DEF LaunchInv

\* A launcher that starts or ends has no path behind it.
LEMMA NotBehind ==
  ASSUME NEW p \in Paths
  PROVE  "root" \notin Behind(p) /\ "done" \notin Behind(p)
  BY BehindSets DEF Paths, AtAgents, HasAgents, PreparedSteps

\* A launcher that ends without success keeps the invariant.
LEMMA EndingKeeps ==
  ASSUME LaunchInv, NEW l \in Launchers, NEW code \in LaunchErrors \cup {"ran", "killed"},
         Finish(l, code), step[l] # "done",
         UNCHANGED <<node, session, sessions, ends, joined, found, intrusions>>,
         launch_faults' \in {launch_faults, launch_faults + 1},
         mode' = mode \/ \E m \in Modes : mode' = [mode EXCEPT ![l] = m],
         code \in {"process_failed", "dependency_unavailable"} =>
           mode'[l] # "bootstrap" \/ launch_faults' = launch_faults + 1
  PROVE  LaunchInv'
<1>1. Quiet(l)
  BY DEF Quiet
<1>2. /\ step'[l] = "done" /\ \A k \in Launchers \ {l} : step'[k] = step[k]
  BY DEF Finish, LaunchInv, LaunchTypeOK
<1>3. PathInv' /\ node' \in [Paths -> Nodes] /\ intrusions' \in Nat
  BY <1>2, NotBehind, PathsSame
<1> QED
  BY <1>1, <1>3, QuietIsEnough

\* A launcher that goes on behind a good path keeps the invariant.
LEMMA GoingKeeps ==
  ASSUME LaunchInv, NEW l \in Launchers,
         NEW label \in Steps \ {"has_again", "attach", "attach_created", "attach_race", "done",
                                "write_agents"},
         Go(l, label), step[l] # "done",
         UNCHANGED <<node, session, sessions, ends, joined, found, intrusions, launch_faults>>,
         mode' = mode \/ \E m \in Modes : mode' = [mode EXCEPT ![l] = m],
         \A p \in Paths : label \in Behind(p) =>
                          step[l] \in Behind(p) \/ inspected(p, node[p]) = "none"
  PROVE  LaunchInv'
<1>1. Quiet(l)
  BY DEF Quiet
<1>2. /\ step'[l] = label /\ \A k \in Launchers \ {l} : step'[k] = step[k]
  BY DEF Go, LaunchInv, LaunchTypeOK
<1>3. PathInv' /\ node' \in [Paths -> Nodes] /\ intrusions' \in Nat
  BY <1>2, PathsSame
<1> QED
  BY <1>1, <1>3, QuietIsEnough

\* A launcher starts.
LEMMA StartKeeps ==
  ASSUME LaunchInv, NEW l \in Launchers, start(l) \/ system_identity_fails(l)
  PROVE  LaunchInv'
<1>1. CASE system_identity_fails(l)
  <2>1. "identity_discovery" \in LaunchErrors
    BY DEF LaunchErrors
  <2> QED
    BY <1>1, <2>1, EndingKeeps DEF system_identity_fails, Fault
<1>2. CASE start(l)
  <2>1. PICK id \in Identities, m \in Modes :
          /\ mode' = [mode EXCEPT ![l] = m]
          /\ IF validate(id) = "none" THEN Go(l, "root") ELSE Finish(l, validate(id))
    BY <1>2 DEF start
  <2>2. /\ step[l] = "new" /\ UNCHANGED <<node, session, sessions, ends, joined, found, intrusions,
                                         launch_faults>>
    BY <1>2 DEF start
  <2>3. CASE validate(id) = "none"
    <3>1. "root" \in Steps
      BY DEF Steps, Paths
    <3> QED
      BY <2>1, <2>2, <2>3, <3>1, NotBehind, GoingKeeps
  <2>4. CASE validate(id) # "none"
    <3>1. validate(id) \in {"root_execution", "invalid_identity"}
      BY <2>4 DEF validate
    <3>2. PICK code \in {"root_execution", "invalid_identity"} : Finish(l, code)
      BY <2>1, <2>4, <3>1
    <3>3. code \in LaunchErrors
      BY DEF LaunchErrors
    <3> QED
      BY <2>1, <2>2, <3>2, <3>3, EndingKeeps
  <2> QED
    BY <2>3, <2>4
<1> QED
  BY <1>1, <1>2

\* The paths behind each step of prepare_workspace.
LEMMA BehindOnTheWay ==
  ASSUME NEW p \in Paths
  PROVE  /\ "user" \in Behind(p) => p = "root"
         /\ "master" \in Behind(p) => "user" \in Behind(p) \/ p = "user"
         /\ "agents" \in Behind(p) => "master" \in Behind(p) \/ p = "master"
         /\ "command" \in Behind(p) => "agents" \in Behind(p) \/ p = "agents"
         /\ "create_user" \in Behind(p) <=> "user" \in Behind(p)
         /\ "inspect_user" \in Behind(p) <=> "user" \in Behind(p)
         /\ "create_master" \in Behind(p) <=> "master" \in Behind(p)
         /\ "inspect_master" \in Behind(p) <=> "master" \in Behind(p)
         /\ "create_agents" \in Behind(p) <=> "agents" \in Behind(p)
         /\ "write_agents" \in Behind(p) => "create_agents" \in Behind(p) \/ p = "agents"
         /\ "inspect_agents" \in Behind(p) <=> "write_agents" \in Behind(p)
         /\ "command" \in Behind(p) <=> "inspect_agents" \in Behind(p)
         /\ \A x \in PreparedSteps : x \in Behind(p)
         /\ p # "agents" => "write_agents" \in Behind(p) <=> "create_agents" \in Behind(p)
  BY BehindSets DEF Paths, AtAgents, HasAgents, PreparedSteps

\* A look at a path: found, missing, or not what it should be.
LEMMA InspectKeeps ==
  ASSUME LaunchInv, NEW l \in Launchers, inspect(l)
  PROVE  LaunchInv'
<1>1. /\ step[l] \in Paths
      /\ UNCHANGED <<node, session, sessions, ends, mode, joined, found, intrusions, launch_faults>>
  BY DEF inspect
<1>2. step[l] # "done" /\ {"user", "master", "agents", "command", "create_user", "create_master",
                          "create_agents"} \subseteq Steps
  BY <1>1 DEF Paths, Steps, PreparedSteps
<1>3. CASE inspected(step[l], node[step[l]]) = "none" /\ Go(l, After(step[l]))
  <2>1. CASE step[l] = "root"
    BY <1>1, <1>2, <1>3, <2>1, AfterPaths, BehindOnTheWay, GoingKeeps
  <2>2. CASE step[l] = "user"
    BY <1>1, <1>2, <1>3, <2>2, AfterPaths, BehindOnTheWay, GoingKeeps
  <2>3. CASE step[l] = "master"
    BY <1>1, <1>2, <1>3, <2>3, AfterPaths, BehindOnTheWay, GoingKeeps
  <2>4. CASE step[l] = "agents"
    BY <1>1, <1>2, <1>3, <2>4, AfterPaths, BehindOnTheWay, GoingKeeps
  <2> QED
    BY <1>1, <2>1, <2>2, <2>3, <2>4 DEF Paths
<1>4. CASE step[l] = "user" /\ Go(l, "create_user")
  BY <1>1, <1>2, <1>4, BehindOnTheWay, GoingKeeps
<1>5. CASE step[l] = "master" /\ Go(l, "create_master")
  BY <1>1, <1>2, <1>5, BehindOnTheWay, GoingKeeps
<1>6. CASE step[l] = "agents" /\ Go(l, "create_agents")
  BY <1>1, <1>2, <1>6, BehindOnTheWay, GoingKeeps
<1>7. CASE \E code \in {"unavailable", "unsafe_symlink", "unsafe_file_type", "ownership_mismatch"} :
             Finish(l, code)
  <2>1. PICK code \in {"unavailable", "unsafe_symlink", "unsafe_file_type", "ownership_mismatch"} :
          Finish(l, code)
    BY <1>7
  <2>2. code \in LaunchErrors
    BY DEF LaunchErrors
  <2> QED
    BY <1>1, <1>2, <2>1, <2>2, EndingKeeps
<1> QED
  BY <1>3, <1>4, <1>5, <1>6, <1>7, InspectCases

\* The second look, at what was just created.
LEMMA InspectCreatedKeeps ==
  ASSUME LaunchInv, NEW l \in Launchers, inspect_created(l)
  PROVE  LaunchInv'
<1>1. /\ step[l] \in {"inspect_user", "inspect_master"}
      /\ UNCHANGED <<node, session, sessions, ends, mode, joined, found, intrusions, launch_faults>>
  BY DEF inspect_created
<1> DEFINE p == IF step[l] = "inspect_user" THEN "user" ELSE "master"
<1>2. \/ inspected(p, node[p]) = "none" /\ Go(l, After(p))
      \/ \E code \in {"io", "unsafe_symlink", "unsafe_file_type", "ownership_mismatch"} : Finish(l, code)
  <2>1. inspected(p, node[p]) \in {"none", "unavailable", "unsafe_symlink", "unsafe_file_type",
                                   "ownership_mismatch"}
    BY InspectedCodes
  <2> QED
    BY <2>1, Zenon DEF inspect_created
<1>3. step[l] # "done" /\ {"master", "agents"} \subseteq Steps
  BY <1>1 DEF Paths, Steps
<1>4. CASE inspected(p, node[p]) = "none" /\ Go(l, After(p))
  <2>1. CASE step[l] = "inspect_user"
    BY <1>1, <1>3, <1>4, <2>1, AfterPaths, BehindOnTheWay, GoingKeeps
  <2>2. CASE step[l] = "inspect_master"
    BY <1>1, <1>3, <1>4, <2>2, AfterPaths, BehindOnTheWay, GoingKeeps
  <2> QED
    BY <1>1, <2>1, <2>2
<1>5. CASE \E code \in {"io", "unsafe_symlink", "unsafe_file_type", "ownership_mismatch"} : Finish(l, code)
  <2>1. PICK code \in {"io", "unsafe_symlink", "unsafe_file_type", "ownership_mismatch"} :
          Finish(l, code)
    BY <1>5
  <2>2. code \in LaunchErrors
    BY DEF LaunchErrors
  <2> QED
    BY <1>1, <1>3, <2>1, <2>2, EndingKeeps
<1> QED
  BY <1>2, <1>4, <1>5

\* A path that was missing is made: nothing that was found is lost, and no good
\* path becomes bad.
LEMMA MakingKeepsPaths ==
  ASSUME LaunchInv, NEW q \in Paths, NEW n \in Nodes, node[q].type = "none",
         node' = [node EXCEPT ![q] = n], intrusions = 0
  PROVE  /\ node' \in [Paths -> Nodes] /\ node'[q] = n /\ found[q].type = "none"
         /\ \A p \in Paths : found[p].type # "none" => node'[p] = found[p]
         /\ \A p \in Paths : inspected(p, node[p]) = "none" => inspected(p, node'[p]) = "none"
<1>1. node \in [Paths -> Nodes]
  BY DEF LaunchInv, LaunchTypeOK
<1>2. \A p \in Paths : found[p].type # "none" => node[p] = found[p]
  BY DEF LaunchInv, PathInv
<1>3. inspected(q, node[q]) # "none"
  BY DEF inspected
<1>4. \A p \in Paths : p # q => node'[p] = node[p]
  BY <1>1
<1>5. \A p \in Paths : inspected(p, node[p]) = "none" => inspected(p, node'[p]) = "none"
  BY <1>3, <1>4
<1>6. found[q].type = "none"
  BY <1>2
<1> QED
  BY <1>1, <1>2, <1>4, <1>5, <1>6

\* The nodes that launchers make.
LEMMA MadeNodes ==
  ASSUME NEW l \in Launchers
  PROVE  /\ Directory(l) \in Nodes /\ EmptyFile(l) \in Nodes /\ Missing \in Nodes
         /\ inspected("agents", EmptyFile(l)) = "none"
  BY DEF Directory, EmptyFile, Missing, Nodes, inspected

\* A directory is created, by this launcher or by another one.
LEMMA CreateDirKeeps ==
  ASSUME LaunchInv, NEW l \in Launchers, create_dir(l)
  PROVE  LaunchInv'
<1>1. /\ step[l] \in {"create_user", "create_master"} /\ step[l] # "done"
      /\ UNCHANGED <<session, sessions, ends, mode, joined, found, intrusions>>
      /\ node \in [Paths -> Nodes] /\ intrusions \in Nat
  BY DEF create_dir, LaunchInv, LaunchTypeOK
<1>2. CASE Fault /\ Finish(l, "io") /\ UNCHANGED node
  <2>1. "io" \in LaunchErrors
    BY DEF LaunchErrors
  <2> QED
    BY <1>1, <1>2, <2>1, EndingKeeps DEF Fault
<1>3. CASE \E q \in {"user", "master"} :
             /\ node' = IF node[q].type = "none" THEN [node EXCEPT ![q] = Directory(l)] ELSE node
             /\ Go(l, IF q = "user" THEN "inspect_user" ELSE "inspect_master")
             /\ UNCHANGED launch_faults /\ q = Creating(l)
  <2>1. PICK q \in {"user", "master"} :
             /\ node' = IF node[q].type = "none" THEN [node EXCEPT ![q] = Directory(l)] ELSE node
             /\ Go(l, IF q = "user" THEN "inspect_user" ELSE "inspect_master")
             /\ UNCHANGED launch_faults /\ q = Creating(l)
    BY <1>3
  <2>2. PICK label \in {"inspect_user", "inspect_master"} :
          /\ Go(l, label) /\ (label = "inspect_user") = (step[l] = "create_user")
    BY <1>1, <2>1 DEF Creating
  <2>3. label \in Steps \ {"has_again", "attach", "attach_created", "attach_race", "done",
                          "write_agents"}
    BY DEF Steps
  <2>4. \A p \in Paths : label \in Behind(p) => step[l] \in Behind(p)
    BY <1>1, <2>2, BehindOnTheWay
  <2>5. CASE node' = node
    BY <1>1, <2>1, <2>2, <2>3, <2>4, <2>5, GoingKeeps
  <2>6. CASE node[q].type = "none" /\ node' = [node EXCEPT ![q] = Directory(l)]
    <3>1. q \in Paths /\ Directory(l) \in Nodes
      BY MadeNodes DEF Paths
    <3>2. node' \in [Paths -> Nodes] /\ intrusions' \in Nat
      BY <1>1, <2>6, <3>1
    <3>3. Quiet(l)
      BY <1>1, <2>1, <2>2, <2>3 DEF Quiet
    <3>4. step'[l] = label /\ \A k \in Launchers \ {l} : step'[k] = step[k]
      BY <2>2 DEF Go, LaunchInv, LaunchTypeOK
    <3>5. intrusions = 0 =>
           /\ \A p \in Paths : found[p].type # "none" => node'[p] = found[p]
           /\ \A p \in Paths : inspected(p, node[p]) = "none" => inspected(p, node'[p]) = "none"
      BY <2>6, <3>1, MakingKeepsPaths
    <3>6. intrusions = 0 =>
           \A p \in Paths : step[l] \in Behind(p) /\ (p = "agents" => launch_faults = 0) =>
                            inspected(p, node[p]) = "none"
      BY DEF LaunchInv, PathInv
    <3>7. PathInv'
      BY <1>1, <2>1, <2>2, <2>4, <3>4, <3>5, <3>6, PathsKept
    <3> QED
      BY <3>2, <3>3, <3>7, QuietIsEnough
  <2> QED
    BY <2>1, <2>5, <2>6
<1>4. Creating(l) \in {"user", "master"}
  BY DEF Creating
<1> QED
  BY <1>2, <1>3, <1>4 DEF create_dir

\* The file with the agents is created.
LEMMA CreateAgentsKeeps ==
  ASSUME LaunchInv, NEW l \in Launchers, create_agents(l)
  PROVE  LaunchInv'
<1>1. /\ step[l] = "create_agents"
      /\ UNCHANGED <<session, sessions, ends, mode, joined, found, intrusions>>
      /\ node \in [Paths -> Nodes] /\ intrusions \in Nat /\ "agents" \in Paths
  BY DEF create_agents, LaunchInv, LaunchTypeOK, Paths
<1>2. CASE Fault /\ Finish(l, "io") /\ UNCHANGED node
  <2>1. "io" \in LaunchErrors
    BY DEF LaunchErrors
  <2> QED
    BY <1>1, <1>2, <2>1, EndingKeeps DEF Fault
<1>3. CASE Go(l, "agents") /\ UNCHANGED <<node, launch_faults>>
  <2>1. "agents" \in Steps
    BY DEF Steps, Paths
  <2> QED
    BY <1>1, <1>3, <2>1, BehindOnTheWay, GoingKeeps
<1>4. CASE /\ node["agents"].type = "none"
           /\ node' = [node EXCEPT !["agents"] = EmptyFile(l)]
           /\ Go(l, "write_agents") /\ UNCHANGED launch_faults
  <2>1. EmptyFile(l) \in Nodes
    BY MadeNodes
  <2>2. node' \in [Paths -> Nodes] /\ intrusions' \in Nat
    BY <1>1, <1>4, <2>1
  <2>3. Quiet(l)
    <3>1. "write_agents" \in Steps
      BY DEF Steps
    <3> QED
      BY <1>1, <1>4, <3>1 DEF Quiet
  <2>4. step'[l] = "write_agents" /\ \A k \in Launchers \ {l} : step'[k] = step[k]
    BY <1>4 DEF Go, LaunchInv, LaunchTypeOK
  <2>5. intrusions = 0 =>
          /\ \A p \in Paths : found[p].type # "none" => node'[p] = found[p]
          /\ \A p \in Paths : inspected(p, node[p]) = "none" => inspected(p, node'[p]) = "none"
          /\ found["agents"].type = "none" /\ node'["agents"] = EmptyFile(l)
    BY <1>1, <1>4, <2>1, MakingKeepsPaths
  <2>6. intrusions = 0 =>
          \A p \in Paths : step[l] \in Behind(p) /\ (p = "agents" => launch_faults = 0) =>
                           inspected(p, node[p]) = "none"
    BY DEF LaunchInv, PathInv
  <2>7. intrusions = 0 =>
          \A p \in Paths : "write_agents" \in Behind(p) /\ (p = "agents" => launch_faults' = 0) =>
                           inspected(p, node'[p]) = "none"
    BY <1>1, <1>4, <2>5, <2>6, BehindOnTheWay, MadeNodes
  <2>8. PathInv'
    BY <1>1, <1>4, <2>4, <2>5, <2>7, PathsKept
  <2> QED
    BY <2>2, <2>3, <2>8, QuietIsEnough
<1> QED
  BY <1>2, <1>3, <1>4 DEF create_agents

\* The file with the agents is written.
LEMMA WriteAgentsKeeps ==
  ASSUME LaunchInv, NEW l \in Launchers, write_agents(l)
  PROVE  LaunchInv'
<1>1. /\ step[l] = "write_agents"
      /\ UNCHANGED <<session, sessions, ends, mode, joined, found, intrusions>>
      /\ node \in [Paths -> Nodes] /\ intrusions \in Nat /\ "agents" \in Paths
      /\ launch_faults \in Nat
  BY DEF write_agents, LaunchInv, LaunchTypeOK, Paths
<1>2. /\ intrusions = 0 => found["agents"].type = "none"
      /\ intrusions = 0 => \A p \in Paths : found[p].type # "none" => node[p] = found[p]
      /\ intrusions = 0 =>
           \A p \in Paths : step[l] \in Behind(p) /\ (p = "agents" => launch_faults = 0) =>
                            inspected(p, node[p]) = "none"
  BY <1>1 DEF LaunchInv, PathInv
<1>3. CASE /\ node' = IF node["agents"] = EmptyFile(l)
                      THEN [node EXCEPT !["agents"].text = "shipped"] ELSE node
           /\ Go(l, "inspect_agents") /\ UNCHANGED launch_faults
  <2>1. "inspect_agents" \in Steps \ {"has_again", "attach", "attach_created", "attach_race", "done",
                                      "write_agents"}
    BY DEF Steps
  <2>2. CASE node' = node
    BY <1>1, <1>3, <2>1, <2>2, BehindOnTheWay, GoingKeeps
  <2>3. CASE /\ node["agents"] = EmptyFile(l)
             /\ node' = [node EXCEPT !["agents"].text = "shipped"]
    <3>1. /\ node'["agents"] = [EmptyFile(l) EXCEPT !.text = "shipped"]
          /\ \A p \in Paths : p # "agents" => node'[p] = node[p]
      BY <1>1, <2>3
    <3>2. /\ [EmptyFile(l) EXCEPT !.text = "shipped"] \in Nodes
          /\ inspected("agents", [EmptyFile(l) EXCEPT !.text = "shipped"]) = "none"
      BY DEF EmptyFile, Nodes, inspected
    <3>3. node' \in [Paths -> Nodes] /\ intrusions' \in Nat
      BY <1>1, <2>3, <3>1, <3>2
    <3>4. Quiet(l)
      BY <1>1, <1>3, <2>1 DEF Quiet
    <3>5. step'[l] = "inspect_agents" /\ \A k \in Launchers \ {l} : step'[k] = step[k]
      BY <1>3 DEF Go, LaunchInv, LaunchTypeOK
    <3>6. \A p \in Paths : inspected(p, node[p]) = "none" => inspected(p, node'[p]) = "none"
      BY <3>1, <3>2
    <3>7. intrusions = 0 => \A p \in Paths : found[p].type # "none" => node'[p] = found[p]
      BY <1>2, <3>1
    <3>8. intrusions = 0 =>
            \A p \in Paths : "inspect_agents" \in Behind(p) /\ (p = "agents" => launch_faults' = 0) =>
                             inspected(p, node'[p]) = "none"
      BY <1>1, <1>2, <1>3, <3>6, BehindOnTheWay
    <3>9. PathInv'
      BY <1>1, <1>3, <3>5, <3>6, <3>7, <3>8, PathsKept
    <3> QED
      BY <3>3, <3>4, <3>9, QuietIsEnough
  <2> QED
    BY <1>3, <2>2, <2>3
<1>4. CASE /\ Fault /\ Finish(l, "io")
           /\ node' = [node EXCEPT !["agents"] = IF @.type = "dir" THEN @ ELSE Missing]
  <2>1. /\ node'["agents"] \in {node["agents"], Missing}
        /\ \A p \in Paths : p # "agents" => node'[p] = node[p]
    BY <1>1, <1>4
  <2>2. node' \in [Paths -> Nodes] /\ intrusions' \in Nat
    BY <1>1, <1>4, <2>1, MadeNodes
  <2>3. Quiet(l) /\ launch_faults' = launch_faults + 1
    <3>1. "io" \in LaunchErrors
      BY DEF LaunchErrors
    <3> QED
      BY <1>1, <1>4, <3>1 DEF Quiet, Fault
  <2>4. step'[l] = "done" /\ \A k \in Launchers \ {l} : step'[k] = step[k]
    BY <1>4 DEF Finish, LaunchInv, LaunchTypeOK
  <2>5. launch_faults' # 0
    BY <1>1, <2>3
  <2>6. \A p \in Paths : inspected(p, node[p]) = "none" /\ (p = "agents" => launch_faults' = 0)
                         => inspected(p, node'[p]) = "none"
    BY <2>1, <2>5
  <2>7. intrusions = 0 => \A p \in Paths : found[p].type # "none" => node'[p] = found[p]
    BY <1>2, <2>1
  <2>8. \A p \in Paths : step'[l] \notin Behind(p)
    BY <2>4, NotBehind
  <2>9. PathInv'
    BY <1>1, <2>3, <2>4, <2>6, <2>7, <2>8, PathsKept
  <2> QED
    BY <2>2, <2>3, <2>9, QuietIsEnough
<1> QED
  BY <1>3, <1>4 DEF write_agents

\* The file with the agents is looked at again.
LEMMA InspectAgentsKeeps ==
  ASSUME LaunchInv, NEW l \in Launchers, inspect_agents(l)
  PROVE  LaunchInv'
<1>1. /\ step[l] = "inspect_agents"
      /\ UNCHANGED <<node, session, sessions, ends, mode, joined, found, intrusions, launch_faults>>
  BY DEF inspect_agents
<1>2. {"io", "ownership_mismatch"} \subseteq LaunchErrors /\ "command" \in Steps
  BY DEF LaunchErrors, Steps, PreparedSteps
<1>3. CASE \E code \in {"io", "ownership_mismatch"} : Finish(l, code)
  BY <1>1, <1>2, <1>3, EndingKeeps
<1>4. CASE Go(l, "command")
  BY <1>1, <1>2, <1>4, BehindOnTheWay, GoingKeeps
<1> QED
  BY <1>3, <1>4 DEF inspect_agents

\* The steps that end a launcher without tmux: the command, doctor, a failure, a kill.
LEMMA CommandKeeps ==
  ASSUME LaunchInv, NEW l \in Launchers,
         master_command(l) \/ run_doctor(l) \/ command_fails(l) \/ launcher_killed(l)
  PROVE  LaunchInv'
<1>1. {"invalid_resume_target", "process_failed", "dependency_unavailable"} \subseteq LaunchErrors
  BY DEF LaunchErrors
<1>2. CASE master_command(l)
  <2>1. PICK code \in {"invalid_resume_target", "ran"} : Finish(l, code)
    BY <1>2 DEF master_command
  <2> QED
    BY <1>1, <1>2, <2>1, EndingKeeps DEF master_command
<1>3. CASE run_doctor(l)
  <2>1. PICK code \in {"process_failed", "ran"} : Finish(l, code)
    BY <1>3 DEF run_doctor
  <2> QED
    BY <1>1, <1>3, <2>1, EndingKeeps DEF run_doctor
<1>4. CASE command_fails(l)
  <2>1. PICK code \in {"process_failed", "dependency_unavailable"} : Finish(l, code)
    BY <1>4 DEF command_fails
  <2> QED
    BY <1>1, <1>4, <2>1, EndingKeeps DEF command_fails, Fault
<1>5. CASE launcher_killed(l)
  BY <1>5, EndingKeeps DEF launcher_killed, Fault
<1> QED
  BY <1>2, <1>3, <1>4, <1>5

\* The steps with tmux are behind the workspace and leave it alone.
LEMMA TmuxKeepsPaths ==
  ASSUME LaunchInv, NEW l \in Launchers, step[l] \in PreparedSteps,
         step'[l] \in PreparedSteps \cup {"done"}, \A k \in Launchers \ {l} : step'[k] = step[k],
         UNCHANGED <<node, found, intrusions, launch_faults>>
  PROVE  PathInv' /\ node' \in [Paths -> Nodes] /\ intrusions' \in Nat
<1>1. step'[l] # "write_agents"
  BY DEF PreparedSteps
<1>2. \A p \in Paths : step[l] \in Behind(p)
  BY BehindOnTheWay
<1> QED
  BY <1>1, <1>2, PathsSame

\* The session is asked for, created and attached to.
LEMMA TmuxKeeps ==
  ASSUME LaunchInv, NEW l \in Launchers,
         tmux_has_session(l) \/ tmux_create(l) \/ has_session_again(l) \/ tmux_attach(l)
  PROVE  LaunchInv'
<1>1. /\ Typed /\ SessionInv /\ OutcomeInv /\ LoginInv
  BY TypedIs DEF LaunchInv
<1>2. /\ step[l] \in PreparedSteps /\ step[l] # "done" /\ outcome[l] = "none"
      /\ UNCHANGED <<node, ends, mode, found, intrusions, launch_faults>>
  BY <1>1 DEF tmux_has_session, tmux_create, has_session_again, tmux_attach, PreparedSteps, OutcomeInv
<1>3. /\ session \in Nat /\ sessions \in Nat /\ ends \in Nat /\ (session = 0 <=> sessions = ends)
      /\ session # 0 => session = sessions
      /\ step[l] \in {"has_again", "attach", "attach_created", "attach_race"} /\ ends = 0 => session # 0
      /\ Creator(l) /\ ends = 0 => sessions # 0
  BY <1>1 DEF SessionInv, LoginInv
<1>4. CASE /\ UNCHANGED <<session, sessions, joined>>
           /\ \/ step[l] = "command" /\ Go(l, IF session # 0 THEN "attach" ELSE "create")
              \/ step[l] = "create" /\ session # 0 /\ Go(l, "has_again")
              \/ step[l] = "has_again" /\ session # 0 /\ Go(l, "attach_race")
  <2>1. /\ step'[l] \in PreparedSteps \ {"attach_created"} /\ outcome' = outcome
        /\ \A k \in Launchers \ {l} : step'[k] = step[k]
        /\ step'[l] \in {"has_again", "attach", "attach_race"} => session # 0
        /\ step' \in [Launchers -> Steps]
    BY <1>1, <1>4 DEF Go, Typed, PreparedSteps, Steps
  <2>2. Typed' /\ SessionInv'
    BY <1>1, <1>2, <1>4, <2>1 DEF Typed, SessionInv
  <2>3. OutcomeInv'
    BY <1>1, <1>2, <1>4, <2>1 DEF OutcomeInv
  <2>4. LoginInv'
    <3>1. ~Creator(l)' /\ \A k \in Launchers \ {l} : Creator(k)' <=> Creator(k)
      BY <1>2, <2>1 DEF Creator
    <3> QED
      BY <1>1, <1>2, <1>3, <1>4, <2>1, <3>1 DEF LoginInv
  <2>5. PathInv' /\ node' \in [Paths -> Nodes] /\ intrusions' \in Nat
    BY <1>2, <2>1, TmuxKeepsPaths
  <2> QED
    BY <2>2, <2>3, <2>4, <2>5, TypedIs DEF LaunchInv
<1>5. CASE /\ step[l] = "create" /\ session = 0 /\ Go(l, "attach_created")
           /\ sessions' = sessions + 1 /\ session' = sessions' /\ UNCHANGED joined
  <2>1. /\ step'[l] = "attach_created" /\ outcome' = outcome
        /\ \A k \in Launchers \ {l} : step'[k] = step[k]
        /\ step' \in [Launchers -> Steps]
    BY <1>1, <1>5 DEF Go, Typed, PreparedSteps, Steps
  <2>2. Typed' /\ SessionInv'
    BY <1>1, <1>2, <1>3, <1>5, <2>1 DEF Typed, SessionInv
  <2>3. OutcomeInv'
    BY <1>1, <1>2, <1>3, <1>5, <2>1 DEF OutcomeInv
  <2>4. LoginInv'
    <3>1. \A k \in Launchers \ {l} : Creator(k)' <=> Creator(k)
      BY <1>2, <2>1 DEF Creator
    <3>2. ends = 0 => \A k \in Launchers : ~Creator(k)
      BY <1>1, <1>3, <1>5 DEF LoginInv
    <3>3. sessions' # 0
      BY <1>3, <1>5
    <3> QED
      BY <1>1, <1>2, <2>1, <3>1, <3>2, <3>3 DEF LoginInv
  <2>5. PathInv' /\ node' \in [Paths -> Nodes] /\ intrusions' \in Nat
    BY <1>2, <2>1, TmuxKeepsPaths DEF PreparedSteps
  <2> QED
    BY <2>2, <2>3, <2>4, <2>5, TypedIs DEF LaunchInv
<1>6. CASE /\ step[l] \in {"has_again", "attach", "attach_created", "attach_race"} /\ session = 0
           /\ Finish(l, "process_failed") /\ UNCHANGED <<session, sessions, joined>>
  <2>1. /\ step'[l] = "done" /\ outcome'[l] = "process_failed"
        /\ \A k \in Launchers \ {l} : step'[k] = step[k] /\ outcome'[k] = outcome[k]
        /\ step' \in [Launchers -> Steps] /\ ends # 0
        /\ outcome' \in [Launchers -> LaunchErrors \cup Successes \cup {"none", "ran", "killed"}]
    BY <1>1, <1>3, <1>6 DEF Finish, Typed, Steps, LaunchErrors
  <2>2. Typed' /\ SessionInv'
    BY <1>1, <1>2, <1>6, <2>1 DEF Typed, SessionInv
  <2>3. OutcomeInv'
    BY <1>1, <1>2, <1>6, <2>1 DEF OutcomeInv, Successes
  <2>4. LoginInv'
    BY <1>2, <2>1 DEF LoginInv
  <2>5. PathInv' /\ node' \in [Paths -> Nodes] /\ intrusions' \in Nat
    BY <1>2, <2>1, TmuxKeepsPaths
  <2> QED
    BY <2>2, <2>3, <2>4, <2>5, TypedIs DEF LaunchInv
<1>7. CASE /\ step[l] \in {"attach", "attach_created", "attach_race"} /\ session # 0
           /\ Finish(l, Attached(step[l])) /\ joined' = [joined EXCEPT ![l] = session]
           /\ UNCHANGED <<session, sessions>>
  <2>1. /\ Attached(step[l]) \in Successes
        /\ Attached(step[l]) = "created_and_attached" => step[l] = "attach_created"
    BY <1>7, Zenon DEF Attached, Successes
  <2>2. PICK code \in Successes : /\ Finish(l, code)
                                  /\ code = "created_and_attached" => step[l] = "attach_created"
    BY <1>7, <2>1
  <2>3. /\ step'[l] = "done" /\ outcome'[l] = code /\ joined'[l] = session
        /\ \A k \in Launchers \ {l} : /\ step'[k] = step[k] /\ outcome'[k] = outcome[k]
                                     /\ joined'[k] = joined[k]
        /\ step' \in [Launchers -> Steps] /\ joined' \in [Launchers -> Nat]
        /\ outcome' \in [Launchers -> LaunchErrors \cup Successes \cup {"none", "ran", "killed"}]
    BY <1>1, <1>3, <1>7, <2>2 DEF Finish, Typed, Steps
  <2>4. Typed' /\ SessionInv'
    BY <1>1, <1>2, <1>7, <2>3 DEF Typed, SessionInv
  <2>5. session \in 1 .. sessions
    BY <1>3, <1>7
  <2>6. OutcomeInv'
    BY <1>1, <1>2, <1>7, <2>3, <2>5 DEF OutcomeInv
  <2>7. LoginInv'
    <3>1. /\ Creator(l)' => Creator(l)
          /\ \A k \in Launchers \ {l} : Creator(k)' <=> Creator(k)
      BY <2>2, <2>3 DEF Creator
    <3>2. code \notin {"process_failed", "dependency_unavailable"}
      BY DEF Successes
    <3> QED
      BY <1>1, <1>2, <1>3, <1>7, <2>3, <3>1, <3>2 DEF LoginInv
  <2>8. PathInv' /\ node' \in [Paths -> Nodes] /\ intrusions' \in Nat
    BY <1>2, <2>3, TmuxKeepsPaths
  <2> QED
    BY <2>4, <2>6, <2>7, <2>8, TypedIs DEF LaunchInv
<1> QED
  BY <1>4, <1>5, <1>6, <1>7 DEF tmux_has_session, tmux_create, has_session_again, tmux_attach

\* Sessions end, and paths change under the launchers.
LEMMA OthersOfLaunchKeep ==
  ASSUME LaunchInv, session_ends \/ \E p \in Paths : somebody_changes(p)
  PROVE  LaunchInv'
<1>1. Typed /\ SessionInv /\ OutcomeInv /\ LoginInv /\ PathInv /\ intrusions \in Nat
      /\ node \in [Paths -> Nodes]
  BY TypedIs DEF LaunchInv, LaunchTypeOK
<1>2. CASE session_ends
  <2>1. SessionInv' /\ ends' # 0
    BY <1>1, <1>2 DEF session_ends, SessionInv
  <2>2. Typed' /\ OutcomeInv' /\ PathInv' /\ node' \in [Paths -> Nodes] /\ intrusions' \in Nat
    BY <1>1, <1>2 DEF session_ends, Typed, OutcomeInv, PathInv
  <2>3. LoginInv'
    BY <2>1 DEF LoginInv
  <2> QED
    BY <2>1, <2>2, <2>3, TypedIs DEF LaunchInv
<1>3. CASE \E p \in Paths : somebody_changes(p)
  <2>1. PICK p \in Paths : somebody_changes(p)
    BY <1>3
  <2>2. SessionInv' /\ Typed' /\ OutcomeInv'
    BY <1>1, <2>1 DEF somebody_changes, SessionInv, Typed, OutcomeInv
  <2>3. LoginInv'
    BY <1>1, <2>1 DEF somebody_changes, LoginInv, Creator
  <2>4. intrusions' \in Nat /\ intrusions' # 0 /\ node' \in [Paths -> Nodes]
    BY <1>1, <2>1, LaunchAssumption DEF somebody_changes
  <2>5. PathInv'
    BY <2>4 DEF PathInv
  <2> QED
    BY <2>2, <2>3, <2>4, <2>5, TypedIs DEF LaunchInv
<1> QED
  BY <1>2, <1>3

\* The inductive invariant of the launcher: sessions, outcomes, logins and the
\* paths of the workspace (launch.rs, workspace.rs).
THEOREM LaunchInvariant == LaunchSpec => []LaunchInv
<1>1. LaunchInit => LaunchInv
  <2> SUFFICES ASSUME LaunchInit PROVE LaunchInv
    OBVIOUS
  <2>1. LaunchTypeOK
    BY LaunchAssumption DEF LaunchInit, LaunchTypeOK
  <2>2. SessionInv /\ OutcomeInv /\ LoginInv
    BY DEF LaunchInit, SessionInv, OutcomeInv, LoginInv, Creator, Successes
  <2>3. PathInv
    <3>1. \A p \in Paths : "new" \notin Behind(p)
      BY BehindSets DEF Paths, AtAgents, HasAgents, PreparedSteps
    <3> QED
      BY <3>1 DEF LaunchInit, PathInv
  <2> QED
    BY <2>1, <2>2, <2>3 DEF LaunchInv
<1>2. LaunchInv /\ [LaunchNext]_launchVars => LaunchInv'
  <2> SUFFICES ASSUME LaunchInv, [LaunchNext]_launchVars PROVE LaunchInv'
    OBVIOUS
  <2>1. ASSUME NEW l \in Launchers,
               \/ start(l) \/ system_identity_fails(l) \/ inspect(l) \/ create_dir(l)
               \/ inspect_created(l) \/ create_agents(l) \/ write_agents(l) \/ inspect_agents(l)
        PROVE  LaunchInv'
    BY <2>1, StartKeeps, InspectKeeps, CreateDirKeeps, InspectCreatedKeeps, CreateAgentsKeeps,
       WriteAgentsKeeps, InspectAgentsKeeps
  <2>2. ASSUME NEW l \in Launchers,
               \/ tmux_has_session(l) \/ tmux_create(l) \/ has_session_again(l) \/ tmux_attach(l)
               \/ master_command(l) \/ run_doctor(l) \/ command_fails(l) \/ launcher_killed(l)
        PROVE  LaunchInv'
    BY <2>2, TmuxKeeps, CommandKeeps
  <2>3. CASE session_ends \/ \E p \in Paths : somebody_changes(p)
    BY <2>3, OthersOfLaunchKeep
  <2>4. CASE UNCHANGED launchVars
    BY <2>4 DEF launchVars, LaunchInv, LaunchTypeOK, SessionInv, OutcomeInv, LoginInv, Creator, PathInv
  <2> QED
    BY <2>1, <2>2, <2>3, <2>4 DEF LaunchNext
<1> QED
  BY <1>1, <1>2, PTL DEF LaunchSpec

\* Logins that race end in one session, and launchers only add to a workspace
\* that nobody else changes, for any number of launchers and failures.
THEOREM LaunchesAreSafe == LaunchSpec => []LaunchIsSafe
<1>1. LaunchInv => LoginsShareOneSession
  <2> SUFFICES ASSUME LaunchInv PROVE LoginsShareOneSession
    OBVIOUS
  <2>1. SessionInv /\ OutcomeInv /\ LoginInv /\ LaunchTypeOK
    BY DEF LaunchInv
  <2>2. sessions <= ends + 1
    BY <2>1 DEF SessionInv
  <2>3. ends = 0 => \A l \in Launchers : outcome[l] \in Successes => joined[l] = session
    BY <2>1 DEF SessionInv, OutcomeInv
  <2>4. ends = 0 => \A k, l \in Launchers :
          {outcome[k], outcome[l]} = {"created_and_attached"} => k = l
    BY <2>1 DEF LoginInv, Creator
  <2> QED
    BY <2>1, <2>2, <2>3, <2>4 DEF LoginsShareOneSession, OutcomeInv, LoginInv
<1>2. LaunchInv => WorkspaceIsRespected
  <2>1. \A p \in Paths, x \in PreparedSteps : x \in Behind(p)
    BY BehindOnTheWay
  <2> QED
    BY <2>1 DEF LaunchInv, PathInv, WorkspaceIsRespected
<1> QED
  BY <1>1, <1>2, LaunchInvariant, PTL DEF LaunchIsSafe

(***************************************************************************)
(* Visual control.                                                         *)
(***************************************************************************)
Started == {"revalidate", "focus", "revalidate_again", "act", "retain", "finish"}

\* A request that passed every check of its arguments and the policy.
Permitted(i) == i \in Asked /\ Refusal(i) = "none" /\ i.effect = "allow"

\* What a look has to find before a call may act.
Suits(i, o) ==
  /\ o.ref = i.seen.ref /\ o.at.kind = i.seen.type
  /\ o.at.generation = i.seen.generation /\ o.at.sensitivity = "normal"
  /\ i.op # "capture" => o.focused
  /\ i.op = "pointer" => i.x < o.at.width /\ i.y < o.at.height

\* A call under way is permitted; once it has looked it holds the target it was
\* asked for, and when it is about to act that target still suits it, unless
\* somebody else changed the desktop since.
CallInv ==
  \A c \in Calls :
    /\ turn[c] \in Started => Permitted(input[c])
    /\ turn[c] \in {"focus", "act"} => target[c].ref = input[c].seen.ref
    /\ turn[c] = "act" /\ c \notin moved => Suits(input[c], Observation(input[c].seen.ref))

\* Every effect was that of a permitted call that is past acting.
EffectInv ==
  \A e \in effects :
    /\ e.call \in Calls /\ turn[e.call] \in {"retain", "finish", "done"}
    /\ Permitted(input[e.call])
    /\ e.moved \/ Suits(input[e.call], e.real)

\* What a record may say.
AuditResults == {"approval_required", "denied", "failed", "succeeded"}

\* Records are left by calls that have ended; a call that has acted and goes on
\* has its effect; the focus is asked for after the first look only.
RecordInv ==
  /\ \A d \in trail : \E c \in Calls, logged \in AuditResults : d = <<c, logged>> /\ turn[c] = "done"
  /\ \A c \in Calls :
       /\ turn[c] \in {"retain", "finish"} => Acted(c)
       /\ turn[c] = "retain" => input[c].op = "capture"
       /\ c \in refocused => turn[c] \notin {"new", "revalidate"}

VisualInv == VisualTypeOK /\ CallInv /\ EffectInv /\ RecordInv /\ CallsAreAccountedFor

(***************************************************************************)
(* What the checks establish.                                              *)
(***************************************************************************)
\* The fields of a request that the checks compare.
LEMMA RequestFields ==
  ASSUME NEW i \in Asked
  PROVE  /\ i.op \in Operations /\ i.effect \in {"allow", "prompt", "reject", "error"}
         /\ i.seen.ref \in Targets /\ i.seen.freshness \in {"live", "recent", "stale"}
         /\ i.seen.type \in Kinds \cup {"other"} /\ i.x \in Nat /\ i.y \in Nat
         /\ i # Nothing
  BY VisualAssumption DEF VisualInputs, IndexObservations, Operations, Kinds

\* The size of a window is a pair of naturals.
LEMMA DesktopFields ==
  ASSUME NEW s \in Desktops
  PROVE  s.width \in Nat /\ s.height \in Nat
  BY VisualAssumption DEF TargetStates

\* Which errors Refusal gives (expectation_from_index, validate_common).
LEMMA RefusalCodes ==
  ASSUME NEW i
  PROVE  Refusal(i) \in {"none", "invalid_target", "stale_target", "invalid_action",
                         "structured_control_preferred"}
  BY DEF Refusal, expectation_from_index

\* A request that is not refused has a target of its own that is not stale and
\* that no structured route reaches.
LEMMA PermittedIsOwn ==
  ASSUME NEW i, Permitted(i)
  PROVE  /\ i.effect = "allow" /\ i.seen.mine /\ i.seen.freshness # "stale"
         /\ i.why = "no_structured_route" => ~i.seen.structured /\ ~i.structured
  BY DEF Permitted, Refusal, expectation_from_index, validate_common

\* After a look a call acts, asks for the focus or returns one of these errors.
LEMMA LookCodes ==
  ASSUME NEW c, NEW o, input[c].op \in Operations
  PROVE  AfterLook(c, o) \in {"act", "focus", "sensitive_target", "target_not_focused",
                              "invalid_target", "invalid_action"}
  BY DEF AfterLook, capture, pointer, keyboard, validate_pointer, Operations

\* A call goes on to act only on a target that suits it.
LEMMA LookSuits ==
  ASSUME NEW c \in Calls, NEW o, input[c] \in Asked, Matches(c, o), o.at \in Desktops,
         AfterLook(c, o) = "act"
  PROVE  Suits(input[c], o)
<1> USE RequestFields, DesktopFields
<1>1. input[c].op \in Operations /\ input[c].x \in Nat /\ input[c].y \in Nat
  OBVIOUS
<1>2. o.at.width \in Nat /\ o.at.height \in Nat
  OBVIOUS
<1>3. CASE input[c].op = "capture"
  BY <1>3 DEF Matches, AfterLook, capture, Suits, require_normal_screen
<1>4. CASE input[c].op = "pointer"
  BY <1>1, <1>2, <1>4 DEF Matches, AfterLook, pointer, validate_pointer, Suits, require_normal_screen
<1>5. CASE input[c].op = "keyboard"
  BY <1>5 DEF Matches, AfterLook, keyboard, Suits, require_normal_screen
<1> QED
  BY <1>1, <1>3, <1>4, <1>5 DEF Operations

(***************************************************************************)
(* A step of one call keeps what is known of the others.                   *)
(***************************************************************************)
OneEffect(c) == \A d, e \in effects : d.call = c /\ e.call = c => d = e
OneRecord(c) == \A d, e \in trail : d[1] = c /\ e[1] = c => d = e
DoneWell(c) ==
  /\ answer[c] = "ok" => Acted(c) /\ <<c, "succeeded">> \in trail
  /\ Acted(c) => \/ <<c, "succeeded">> \in trail \/ <<c, "failed">> \in trail
                 \/ answer[c] = "audit_after_side_effect"
                 \/ input[c].op = "capture" /\ answer[c] \in {"invalid_action", "artifact"}
  /\ answer[c] \in {"stale_target", "target_not_focused", "sensitive_target",
                    "invalid_target", "audit"} => ~Acted(c)
  /\ answer[c] \in {"permission_denied", "approval_required", "policy",
                    "structured_control_preferred"} => ~Acted(c) /\ c \notin refocused
OwnRecord(c) ==
  /\ turn[c] \in {"retain", "finish"} => Acted(c)
  /\ turn[c] = "retain" => input[c].op = "capture"
  /\ c \in refocused => turn[c] \notin {"new", "revalidate"}

\* What is known of one call, of what it did and of what it recorded.
Account(c) ==
  OneEffect(c) /\ OneRecord(c) /\ (turn[c] = "done" => DoneWell(c)) /\ OwnRecord(c)

Accounts == \A c \in Calls : Account(c)
TrailInv ==
  \A d \in trail : \E c \in Calls, logged \in AuditResults : d = <<c, logged>> /\ turn[c] = "done"

\* A step of call c: the state of the others stays, and what is added to the
\* histories is about c.
StepOf(c) ==
  /\ \A d \in Calls \ {c} : /\ turn'[d] = turn[d] /\ answer'[d] = answer[d]
                            /\ input'[d] = input[d] /\ (d \in refocused' <=> d \in refocused)
  /\ effects \subseteq effects' /\ \A e \in effects' : e \in effects \/ e.call = c
  /\ trail \subseteq trail' /\ \A r \in trail' : r \in trail \/ \E logged \in AuditResults : r = <<c, logged>>

\* CallsAreAccountedFor and RecordInv, regrouped call by call.
LEMMA AccountsAre ==
  /\ Accounts /\ TrailInv <=> RecordInv /\ CallsAreAccountedFor
  /\ (Accounts /\ TrailInv)' <=> RecordInv' /\ CallsAreAccountedFor'
  BY Zenon DEF Accounts, TrailInv, Account, RecordInv, CallsAreAccountedFor, OneEffect, OneRecord,
               DoneWell, OwnRecord

\* A step of one call leaves the others as they are.
LEMMA OthersKeep ==
  ASSUME NEW c \in Calls, Accounts, StepOf(c)
  PROVE  \A d \in Calls \ {c} : Account(d)'
<1> SUFFICES ASSUME NEW d \in Calls \ {c} PROVE Account(d)'
  OBVIOUS
<1>1. Account(d) /\ d # c
  BY DEF Accounts
<1>2. Acted(d)' <=> Acted(d)
  BY <1>1 DEF Acted, StepOf
<1>3. \A logged \in AuditResults : <<d, logged>> \in trail' <=> <<d, logged>> \in trail
  BY <1>1 DEF StepOf
<1>4. OneEffect(d)'
  BY <1>1 DEF OneEffect, Account, StepOf
<1>5. OneRecord(d)'
  <2> SUFFICES ASSUME NEW p \in trail', NEW q \in trail', p[1] = d, q[1] = d PROVE p = q
    BY DEF OneRecord
  <2>1. p \in trail /\ q \in trail
    BY <1>1 DEF StepOf
  <2> QED
    BY <2>1, <1>1 DEF Account, OneRecord
<1>6. (turn[d] = "done" => DoneWell(d))'
  BY <1>1, <1>2, <1>3 DEF Account, DoneWell, StepOf
<1>7. OwnRecord(d)'
  BY <1>1, <1>2 DEF Account, OwnRecord, StepOf
<1> QED
  BY <1>4, <1>5, <1>6, <1>7 DEF Account

\* Only the call itself has to be looked at after one of its steps.
LEMMA AccountsKept ==
  ASSUME NEW c \in Calls, Accounts, TrailInv, StepOf(c), Account(c)', turn[c] # "done",
         turn'[c] = "done" \/ trail' = trail
  PROVE  RecordInv' /\ CallsAreAccountedFor'
<1>1. Accounts'
  BY OthersKeep DEF Accounts
<1>2. TrailInv'
  <2> SUFFICES ASSUME NEW r \in trail'
               PROVE  \E d \in Calls, logged \in AuditResults : r = <<d, logged>> /\ turn'[d] = "done"
    BY DEF TrailInv
  <2>1. CASE r \in trail
    <3>1. PICK d \in Calls, logged \in AuditResults : r = <<d, logged>> /\ turn[d] = "done"
      BY <2>1 DEF TrailInv
    <3>2. turn'[d] = "done"
      BY <3>1 DEF StepOf
    <3> QED
      BY <3>1, <3>2
  <2>2. CASE r \notin trail
    BY <2>2 DEF StepOf
  <2> QED
    BY <2>1, <2>2
<1> QED
  BY <1>1, <1>2, AccountsAre

\* A call that has not acted has no effect, one that has not ended no record.
LEMMA NothingYet ==
  ASSUME VisualInv, NEW c \in Calls
  PROVE  /\ turn[c] \notin {"retain", "finish", "done"} => ~Acted(c)
         /\ turn[c] # "done" => \A r \in trail : r[1] # c
         /\ Account(c) /\ Accounts /\ TrailInv
<1>1. Accounts /\ TrailInv
  BY AccountsAre DEF VisualInv
<1>2. turn[c] \notin {"retain", "finish", "done"} => ~Acted(c)
  BY DEF VisualInv, EffectInv, Acted
<1>3. turn[c] # "done" => \A r \in trail : r[1] # c
  BY <1>1 DEF TrailInv
<1> QED
  BY <1>1, <1>2, <1>3 DEF Accounts

\* What is known of call c itself: the part of CallInv that is about it.
OwnCall(c) ==
  /\ turn[c] \in Started => Permitted(input[c])
  /\ turn[c] \in {"focus", "act"} => target[c].ref = input[c].seen.ref
  /\ turn[c] = "act" /\ c \notin moved => Suits(input[c], Observation(input[c].seen.ref))

\* A step of one call keeps what is known of the other calls under way.
LEMMA CallsKept ==
  ASSUME NEW c \in Calls, CallInv, StepOf(c), OwnCall(c)',
         \A d \in Calls \ {c} :
           /\ target'[d] = target[d]
           /\ d \notin moved' => d \notin moved /\ desktop' = desktop /\ focused' = focused
  PROVE  CallInv'
<1> SUFFICES ASSUME NEW d \in Calls PROVE OwnCall(d)'
  BY DEF CallInv, OwnCall
<1>1. CASE d = c
  BY <1>1
<1>2. CASE d # c
  <2>1. OwnCall(d)
    BY DEF CallInv, OwnCall
  <2>2. turn'[d] = turn[d] /\ input'[d] = input[d] /\ target'[d] = target[d]
    BY <1>2 DEF StepOf
  <2>3. d \notin moved' => Observation(input[d].seen.ref)' = Observation(input[d].seen.ref)
    BY <1>2, <2>2 DEF Observation
  <2>4. d \notin moved' => d \notin moved
    BY <1>2
  <2>5. Permitted(input[d])' <=> Permitted(input[d])
    BY <2>2
  <2>6. d \notin moved' /\ turn[d] = "act" => Suits(input[d], Observation(input[d].seen.ref))'
    BY <2>1, <2>2, <2>3, <2>4 DEF OwnCall
  <2> QED
    BY <2>1, <2>2, <2>4, <2>5, <2>6 DEF OwnCall
<1> QED
  BY <1>1, <1>2

\* The effects so far stay effects of permitted calls.
LEMMA EffectsKept ==
  ASSUME NEW c \in Calls, EffectInv, StepOf(c), effects' = effects,
         turn[c] \in {"retain", "finish"} =>
           turn'[c] \in {"retain", "finish", "done"} /\ input'[c] = input[c],
         turn[c] # "done"
  PROVE  EffectInv'
<1> SUFFICES ASSUME NEW e \in effects
             PROVE  /\ e.call \in Calls /\ turn'[e.call] \in {"retain", "finish", "done"}
                    /\ Permitted(input'[e.call])
                    /\ e.moved \/ Suits(input'[e.call], e.real)
  BY DEF EffectInv
<1>1. /\ e.call \in Calls /\ turn[e.call] \in {"retain", "finish", "done"}
      /\ Permitted(input[e.call]) /\ (e.moved \/ Suits(input[e.call], e.real))
  BY DEF EffectInv
<1>2. input'[e.call] = input[e.call] /\ turn'[e.call] \in {"retain", "finish", "done"}
  BY <1>1 DEF StepOf
<1> QED
  BY <1>1, <1>2

\* A call that returns before it acts.
LEMMA EndsEarly ==
  ASSUME VisualInv, NEW c \in Calls, NEW code \in VisualErrors, NEW logged \in AuditResults,
         turn[c] \in {"new", "revalidate", "focus", "revalidate_again"}, Return(c, code),
         trail' \in {trail, trail \cup {<<c, logged>>}}, effects' = effects,
         input' \in [Calls -> Asked \cup {Nothing}],
         \A d \in Calls \ {c} : input'[d] = input[d],
         \/ refocused' = refocused
         \/ refocused' = refocused \cup {c} /\ code \in {"backend", "audit_after_side_effect"},
         code \in {"permission_denied", "approval_required", "policy",
                   "structured_control_preferred"} => turn[c] = "new"
  PROVE  StepOf(c) /\ EffectInv' /\ RecordInv' /\ CallsAreAccountedFor' /\ turn'[c] = "done"
<1>1. StepOf(c) /\ turn'[c] = "done" /\ answer'[c] = code
  BY DEF StepOf, Return, VisualInv, VisualTypeOK
<1>2. EffectInv'
  BY <1>1, EffectsKept DEF VisualInv
<1>3. /\ ~Acted(c) /\ Accounts /\ TrailInv /\ Account(c)
      /\ \A r \in trail : r[1] # c
  BY NothingYet
<1>4. ~Acted(c)'
  BY <1>3 DEF Acted
<1>5. OneEffect(c)' /\ OwnRecord(c)'
  BY <1>1, <1>3 DEF Account, OneEffect, OwnRecord
<1>6. OneRecord(c)'
  BY <1>3 DEF OneRecord
<1>7. DoneWell(c)'
  <2>1. turn[c] = "new" => c \notin refocused
    BY <1>3 DEF Account, OwnRecord
  <2>2. code # "ok"
    BY DEF VisualErrors
  <2> QED
    BY <1>1, <1>4, <2>1, <2>2 DEF DoneWell
<1>8. Account(c)'
  BY <1>5, <1>6, <1>7 DEF Account
<1> QED
  BY <1>1, <1>2, <1>3, <1>8, AccountsKept

\* A call that goes on before it acts.
LEMMA GoesOn ==
  ASSUME VisualInv, NEW c \in Calls,
         NEW label \in {"revalidate", "focus", "revalidate_again", "act"},
         turn[c] \in {"new", "revalidate", "focus", "revalidate_again"}, Goto(c, label),
         effects' = effects,
         \A d \in Calls \ {c} : input'[d] = input[d],
         \/ refocused' = refocused
         \/ refocused' = refocused \cup {c} /\ turn[c] = "focus",
         label = "revalidate" => turn[c] = "new"
  PROVE  StepOf(c) /\ EffectInv' /\ RecordInv' /\ CallsAreAccountedFor' /\ turn'[c] = label
<1>1. StepOf(c) /\ turn'[c] = label /\ answer' = answer /\ trail' = trail
  BY DEF StepOf, Goto, VisualInv, VisualTypeOK
<1>2. EffectInv'
  BY <1>1, EffectsKept DEF VisualInv
<1>3. Accounts /\ TrailInv /\ Account(c)
  BY NothingYet
<1>4. OneEffect(c)' /\ OneRecord(c)' /\ turn'[c] # "done"
  BY <1>1, <1>3 DEF Account, OneEffect, OneRecord
<1>5. OwnRecord(c)'
  BY <1>1, <1>3 DEF Account, OwnRecord
<1>6. Account(c)'
  BY <1>4, <1>5 DEF Account
<1> QED
  BY <1>1, <1>2, <1>3, <1>6, AccountsKept

(***************************************************************************)
(* The ways a call returns.                                                *)
(***************************************************************************)
Ended(c, codes) ==
  \E code \in codes, logged \in AuditResults :
    /\ Return(c, code) /\ trail' \in {trail, trail \cup {<<c, logged>>}}
    /\ visual_faults' \in {visual_faults, visual_faults + 1, visual_faults + 2}

\* An answer ends a call.
LEMMA ReturnEnds ==
  ASSUME NEW c, NEW codes, NEW code \in codes, Return(c, code),
         UNCHANGED <<trail, visual_faults>>
  PROVE  Ended(c, codes)
<1>1. "failed" \in AuditResults
  BY DEF AuditResults
<1> QED
  BY <1>1 DEF Ended

\* An answer with its record in the audit trail ends a call.
LEMMA RecordEnds ==
  ASSUME NEW c, NEW codes, NEW code \in codes, NEW failure \in codes, NEW logged \in AuditResults,
         Record(c, logged, code, failure)
  PROVE  Ended(c, codes)
<1>1. CASE trail' = trail \cup {<<c, logged>>} /\ Return(c, code) /\ UNCHANGED visual_faults
  BY <1>1 DEF Ended
<1>2. CASE visual_faults' = visual_faults + 1 /\ Return(c, failure) /\ UNCHANGED trail
  BY <1>2 DEF Ended
<1> QED
  BY <1>1, <1>2 DEF Record

\* So does a record that could not be written.
LEMMA RecordFailureEnds ==
  ASSUME NEW c, NEW codes, NEW code \in codes, NEW failure \in codes,
         RecordFailure(c, code, failure)
  PROVE  Ended(c, codes)
<1>0. "failed" \in AuditResults
  BY DEF AuditResults
<1>1. CASE trail' = trail \cup {<<c, "failed">>} /\ Return(c, code) /\ visual_faults' = visual_faults + 1
  BY <1>0, <1>1 DEF Ended
<1>2. CASE visual_faults' = visual_faults + 2 /\ Return(c, failure) /\ UNCHANGED trail
  BY <1>0, <1>2 DEF Ended
<1> QED
  BY <1>1, <1>2 DEF RecordFailure

(***************************************************************************)
(* The actions.                                                            *)
(***************************************************************************)
LEMMA RequestKeeps ==
  ASSUME VisualInv, NEW c \in Calls, request(c)
  PROVE  VisualInv'
<1>1. PICK i \in Asked :
        /\ input' = [input EXCEPT ![c] = i]
        /\ IF Refusal(i) # "none"
           THEN Return(c, Refusal(i)) /\ UNCHANGED <<trail, visual_faults>>
           ELSE authorize(c, i)
  BY DEF request
<1>2. /\ turn[c] = "new" /\ effects' = effects /\ refocused' = refocused /\ desktop' = desktop
      /\ focused' = focused /\ target' = target /\ moved' = moved
  BY DEF request
<1>3. /\ input' \in [Calls -> Asked \cup {Nothing}] /\ input'[c] = i
      /\ \A d \in Calls \ {c} : input'[d] = input[d]
  BY <1>1 DEF VisualInv, VisualTypeOK
<1>4. visual_faults \in Nat
  BY DEF VisualInv, VisualTypeOK
<1>5. Ended(c, VisualErrors) \/ (Permitted(i) /\ Goto(c, "revalidate"))
  <2>1. CASE Refusal(i) # "none"
    <3>1. Refusal(i) \in VisualErrors
      BY <2>1, RefusalCodes DEF VisualErrors
    <3> QED
      BY <1>1, <2>1, <3>1, ReturnEnds
  <2>2. CASE Refusal(i) = "none"
    <3>1. \/ i.effect = "allow" /\ Goto(c, "revalidate")
          \/ Record(c, "approval_required", "approval_required", "audit")
          \/ Record(c, "denied", "permission_denied", "audit")
          \/ Return(c, "policy") /\ UNCHANGED <<trail, visual_faults>>
      BY <1>1, <2>2, RequestFields, Zenon DEF authorize
    <3>2. {"approval_required", "permission_denied", "audit", "policy"} \subseteq VisualErrors
      BY DEF VisualErrors
    <3>3. "approval_required" \in AuditResults /\ "denied" \in AuditResults
      BY DEF AuditResults
    <3>4. i.effect = "allow" => Permitted(i)
      BY <2>2 DEF Permitted
    <3> QED
      BY <3>1, <3>2, <3>3, <3>4, RecordEnds, ReturnEnds
  <2> QED
    BY <2>1, <2>2
<1>6. CASE Ended(c, VisualErrors)
  <2>1. PICK code \in VisualErrors, logged \in AuditResults :
          /\ Return(c, code) /\ trail' \in {trail, trail \cup {<<c, logged>>}}
          /\ visual_faults' \in {visual_faults, visual_faults + 1, visual_faults + 2}
    BY <1>6 DEF Ended
  <2>2. StepOf(c) /\ EffectInv' /\ RecordInv' /\ CallsAreAccountedFor' /\ turn'[c] = "done"
    BY <1>2, <1>3, <2>1, EndsEarly
  <2>3. VisualTypeOK'
    BY <1>2, <1>3, <1>4, <2>1 DEF VisualInv, VisualTypeOK, Return
  <2>4. OwnCall(c)'
    BY <2>2 DEF OwnCall, Started
  <2>5. CallInv'
    BY <1>2, <2>2, <2>4, CallsKept DEF VisualInv
  <2> QED
    BY <2>2, <2>3, <2>5 DEF VisualInv
<1>7. CASE Permitted(i) /\ Goto(c, "revalidate")
  <2>1. StepOf(c) /\ EffectInv' /\ RecordInv' /\ CallsAreAccountedFor' /\ turn'[c] = "revalidate"
    BY <1>2, <1>3, <1>7, GoesOn
  <2>2. VisualTypeOK'
    BY <1>2, <1>3, <1>4, <1>7 DEF VisualInv, VisualTypeOK, Goto
  <2>3. OwnCall(c)'
    BY <1>3, <1>7, <2>1 DEF OwnCall
  <2>4. CallInv'
    BY <1>2, <2>1, <2>3, CallsKept DEF VisualInv
  <2> QED
    BY <2>1, <2>2, <2>4 DEF VisualInv
<1> QED
  BY <1>5, <1>6, <1>7

\* The errors a look may end a call with.
LookErrors ==
  {"backend", "audit", "stale_target", "sensitive_target", "target_not_focused",
   "invalid_target", "invalid_action"}

\* A look at target t that lets the call go on.
Looked(c, t) ==
  /\ Matches(c, Observation(t)) /\ target' = [target EXCEPT ![c] = Observation(t)]
  /\ moved' = moved \ {c} /\ AfterLook(c, Observation(t)) \in {"act", "focus"}
  /\ Goto(c, AfterLook(c, Observation(t)))

\* A look ends the call or lets it go on with a suitable target.
LEMMA LookEndsOrGoesOn ==
  ASSUME VisualInv, NEW c \in Calls, revalidate_audited(c), input[c].op \in Operations
  PROVE  \/ /\ Ended(c, LookErrors)
            /\ target' \in [Calls -> [ref : Targets, at : Desktops, focused : BOOLEAN] \cup {Nothing}]
            /\ moved' \in {moved, moved \ {c}}
            /\ \A d \in Calls \ {c} : target'[d] = target[d]
         \/ \E t \in Targets : Looked(c, t)
<1>0. /\ target \in [Calls -> [ref : Targets, at : Desktops, focused : BOOLEAN] \cup {Nothing}]
      /\ \A t \in Targets : Observation(t) \in [ref : Targets, at : Desktops, focused : BOOLEAN]
  BY DEF VisualInv, VisualTypeOK, Observation
<1>1. {"backend", "audit", "stale_target"} \subseteq LookErrors
  BY DEF LookErrors
<1>5. "failed" \in AuditResults
  BY DEF AuditResults
<1>2. CASE RecordFailure(c, "backend", "audit") /\ UNCHANGED <<target, moved>>
  BY <1>0, <1>1, <1>2, RecordFailureEnds
<1>3. ASSUME NEW t \in Targets,
             IF ~Matches(c, Observation(t))
             THEN Record(c, "failed", "stale_target", "audit") /\ UNCHANGED <<target, moved>>
             ELSE /\ target' = [target EXCEPT ![c] = Observation(t)]
                  /\ moved' = moved \ {c}
                  /\ IF AfterLook(c, Observation(t)) \in {"act", "focus"}
                     THEN Goto(c, AfterLook(c, Observation(t)))
                     ELSE /\ Return(c, AfterLook(c, Observation(t)))
                          /\ UNCHANGED <<trail, visual_faults>>
      PROVE  \/ /\ Ended(c, LookErrors) /\ moved' \in {moved, moved \ {c}}
                /\ target' = target \/ target' = [target EXCEPT ![c] = Observation(t)]
             \/ Looked(c, t)
  <2>1. CASE ~Matches(c, Observation(t))
    BY <1>1, <1>3, <1>5, <2>1, RecordEnds
  <2>2. CASE Matches(c, Observation(t)) /\ AfterLook(c, Observation(t)) \in {"act", "focus"}
    BY <1>3, <2>2 DEF Looked
  <2>3. CASE Matches(c, Observation(t)) /\ AfterLook(c, Observation(t)) \notin {"act", "focus"}
    <3>1. AfterLook(c, Observation(t)) \in LookErrors
      BY <2>3, LookCodes DEF LookErrors
    <3> QED
      BY <1>3, <2>3, <3>1, ReturnEnds
  <2> QED
    BY <2>1, <2>2, <2>3
<1>4. CASE \E t \in Targets : 
             \/ /\ Ended(c, LookErrors) /\ moved' \in {moved, moved \ {c}}
                /\ target' = target \/ target' = [target EXCEPT ![c] = Observation(t)]
             \/ Looked(c, t)
  <2>1. PICK t \in Targets : 
             \/ /\ Ended(c, LookErrors) /\ moved' \in {moved, moved \ {c}}
                /\ target' = target \/ target' = [target EXCEPT ![c] = Observation(t)]
             \/ Looked(c, t)
    BY <1>4
  <2>2. Observation(t) \in [ref : Targets, at : Desktops, focused : BOOLEAN]
    BY <1>0
  <2> HIDE DEF Observation
  <2> QED
    BY <1>0, <2>1, <2>2
<1> QED
  BY <1>2, <1>3, <1>4 DEF revalidate_audited

\* A call looks at its target.
LEMMA LookKeeps ==
  ASSUME VisualInv, NEW c \in Calls, revalidate_audited(c)
  PROVE  VisualInv'
<1>1. /\ turn[c] \in {"revalidate", "revalidate_again"} /\ effects' = effects
      /\ refocused' = refocused /\ desktop' = desktop /\ focused' = focused /\ input' = input
  BY DEF revalidate_audited
<1>2. /\ Permitted(input[c]) /\ input[c] \in Asked /\ input[c].op \in Operations
      /\ desktop \in [Targets -> Desktops] /\ input \in [Calls -> Asked \cup {Nothing}]
      /\ visual_faults \in Nat /\ moved \subseteq Calls
      /\ target \in [Calls -> [ref : Targets, at : Desktops, focused : BOOLEAN] \cup {Nothing}]
  BY <1>1, RequestFields DEF VisualInv, VisualTypeOK, CallInv, Started, Permitted
<1>3. CASE /\ Ended(c, LookErrors)
           /\ target' \in [Calls -> [ref : Targets, at : Desktops, focused : BOOLEAN] \cup {Nothing}]
           /\ moved' \in {moved, moved \ {c}}
           /\ \A d \in Calls \ {c} : target'[d] = target[d]
  <2>1. PICK code \in LookErrors, logged \in AuditResults :
          /\ Return(c, code) /\ trail' \in {trail, trail \cup {<<c, logged>>}}
          /\ visual_faults' \in {visual_faults, visual_faults + 1, visual_faults + 2}
    BY <1>3 DEF Ended
  <2>2. code \in VisualErrors
    BY DEF VisualErrors, LookErrors
  <2>3. StepOf(c) /\ EffectInv' /\ RecordInv' /\ CallsAreAccountedFor' /\ turn'[c] = "done"
    BY <1>1, <1>2, <2>1, <2>2, EndsEarly DEF LookErrors
  <2>4. VisualTypeOK'
    BY <1>1, <1>2, <1>3, <2>1, <2>2 DEF VisualInv, VisualTypeOK, Return
  <2>5. OwnCall(c)'
    BY <2>3 DEF OwnCall, Started
  <2>6. CallInv'
    BY <1>1, <1>3, <2>3, <2>5, CallsKept DEF VisualInv
  <2> QED
    BY <2>3, <2>4, <2>6 DEF VisualInv
<1>4. CASE \E t \in Targets : Looked(c, t)
  <2>1. PICK t \in Targets : Looked(c, t)
    BY <1>4
  <2>2. PICK next \in {"act", "focus"} : next = AfterLook(c, Observation(t)) /\ Goto(c, next)
    BY <2>1 DEF Looked
  <2>3. /\ Matches(c, Observation(t)) /\ target' = [target EXCEPT ![c] = Observation(t)]
        /\ moved' = moved \ {c}
    BY <2>1 DEF Looked
  <2>4. StepOf(c) /\ EffectInv' /\ RecordInv' /\ CallsAreAccountedFor' /\ turn'[c] = next
    BY <1>1, <2>2, GoesOn
  <2>5. /\ t = input[c].seen.ref /\ Observation(t).at \in Desktops /\ Observation(t).ref = t
        /\ Observation(t) \in [ref : Targets, at : Desktops, focused : BOOLEAN]
    BY <1>2, <2>3 DEF Matches, Observation
  <2>6. VisualTypeOK'
    BY <1>1, <1>2, <2>2, <2>3, <2>5 DEF VisualInv, VisualTypeOK, Goto
  <2>7. next = "act" => Suits(input[c], Observation(t))
    BY <1>2, <2>2, <2>3, <2>5, LookSuits
  <2>8. OwnCall(c)'
    <3>1. Observation(input[c].seen.ref)' = Observation(t)
      BY <1>1, <2>5 DEF Observation
    <3>2. target'[c].ref = input'[c].seen.ref /\ input'[c] = input[c]
      BY <1>1, <1>2, <2>3, <2>5
    <3> QED
      BY <1>1, <1>2, <2>4, <2>7, <3>1, <3>2 DEF OwnCall, Started
  <2>9. CallInv'
    BY <1>1, <1>2, <2>3, <2>4, <2>8, CallsKept DEF VisualInv
  <2> QED
    BY <2>4, <2>6, <2>9 DEF VisualInv
<1> QED
  BY <1>2, <1>3, <1>4, LookEndsOrGoesOn

\* A call brings its target to the front.
LEMMA FocusKeeps ==
  ASSUME VisualInv, NEW c \in Calls, focus_target(c)
  PROVE  VisualInv'
<1>1. /\ turn[c] = "focus" /\ effects' = effects /\ refocused' = refocused \cup {c}
      /\ desktop' = desktop /\ input' = input /\ target' = target
      /\ moved' = IF focused' = focused THEN moved ELSE moved \cup (Calls \ {c})
  BY DEF focus_target
<1>2. /\ Permitted(input[c]) /\ input[c] \in Asked /\ target[c].ref \in Targets
      /\ input \in [Calls -> Asked \cup {Nothing}] /\ visual_faults \in Nat
  BY <1>1, RequestFields DEF VisualInv, VisualTypeOK, CallInv, Started, Permitted
<1>3. moved' \subseteq Calls /\ focused' \in Targets \cup {Nothing} /\ refocused' \subseteq Calls
  BY <1>1, <1>2 DEF focus_target, VisualInv, VisualTypeOK
<1>4. \A d \in Calls \ {c} :
        /\ target'[d] = target[d]
        /\ d \notin moved' => d \notin moved /\ desktop' = desktop /\ focused' = focused
  BY <1>1
<1>5. CASE Goto(c, "revalidate_again")
  <2>1. StepOf(c) /\ EffectInv' /\ RecordInv' /\ CallsAreAccountedFor' /\ turn'[c] = "revalidate_again"
    BY <1>1, <1>5, GoesOn
  <2>2. VisualTypeOK'
    BY <1>1, <1>2, <1>3, <1>5 DEF VisualInv, VisualTypeOK, Goto
  <2>3. OwnCall(c)'
    BY <1>1, <1>2, <2>1 DEF OwnCall
  <2>4. CallInv'
    BY <1>4, <2>1, <2>3, CallsKept DEF VisualInv
  <2> QED
    BY <2>1, <2>2, <2>4 DEF VisualInv
<1>6. CASE RecordFailure(c, "backend", "audit_after_side_effect")
  <2>1. Ended(c, {"backend", "audit_after_side_effect"})
    BY <1>6, RecordFailureEnds
  <2>2. PICK code \in {"backend", "audit_after_side_effect"}, logged \in AuditResults :
          /\ Return(c, code) /\ trail' \in {trail, trail \cup {<<c, logged>>}}
          /\ visual_faults' \in {visual_faults, visual_faults + 1, visual_faults + 2}
    BY <2>1 DEF Ended
  <2>3. code \in VisualErrors
    BY DEF VisualErrors
  <2>4. StepOf(c) /\ EffectInv' /\ RecordInv' /\ CallsAreAccountedFor' /\ turn'[c] = "done"
    BY <1>1, <1>2, <2>2, <2>3, EndsEarly
  <2>5. VisualTypeOK'
    BY <1>1, <1>2, <1>3, <2>2, <2>3 DEF VisualInv, VisualTypeOK, Return
  <2>6. OwnCall(c)'
    BY <2>4 DEF OwnCall, Started
  <2>7. CallInv'
    BY <1>4, <2>4, <2>6, CallsKept DEF VisualInv
  <2> QED
    BY <2>4, <2>5, <2>7 DEF VisualInv
<1> QED
  BY <1>5, <1>6 DEF focus_target

\* The effect of a call that acts meets a target that suits it, unless somebody
\* else changed the desktop since it looked.
LEMMA EffectIsSuited ==
  ASSUME VisualInv, NEW c \in Calls, turn[c] = "act", StepOf(c), input' = input,
         effects' \in {effects, effects \cup {Effect(c)}},
         turn'[c] \in {"retain", "finish", "done"}
  PROVE  EffectInv' /\ OneEffect(c)' /\ (Effect(c) \in effects' => Acted(c)')
<1>1. Permitted(input[c]) /\ (c \in moved \/ Suits(input[c], Observation(target[c].ref)))
  BY DEF VisualInv, CallInv, Started
<1>2. ~Acted(c)
  BY NothingYet
<1>3. /\ Effect(c).call = c /\ Effect(c).real = Observation(target[c].ref)
      /\ Effect(c).moved = (c \in moved)
  BY DEF Effect
<1> HIDE DEF Effect
<1>4. EffectInv'
  <2> SUFFICES ASSUME NEW e \in effects'
               PROVE  /\ e.call \in Calls /\ turn'[e.call] \in {"retain", "finish", "done"}
                      /\ Permitted(input[e.call])
                      /\ e.moved \/ Suits(input[e.call], e.real)
    BY DEF EffectInv
  <2>1. CASE e \in effects
    <3>1. /\ e.call \in Calls /\ turn[e.call] \in {"retain", "finish", "done"}
          /\ Permitted(input[e.call]) /\ (e.moved \/ Suits(input[e.call], e.real))
      BY <2>1 DEF VisualInv, EffectInv
    <3> QED
      BY <3>1 DEF StepOf
  <2>2. CASE e = Effect(c)
    BY <1>1, <1>3, <2>2
  <2> QED
    BY <2>1, <2>2
<1>5. OneEffect(c)'
  BY <1>2, <1>3 DEF OneEffect, Acted
<1>6. Effect(c) \in effects' => Acted(c)'
  BY <1>3 DEF Acted
<1> QED
  BY <1>4, <1>5, <1>6

\* A call acts.
LEMMA PerformKeeps ==
  ASSUME VisualInv, NEW c \in Calls, perform(c)
  PROVE  VisualInv'
<1>1. /\ turn[c] = "act" /\ refocused' = refocused /\ desktop' = desktop /\ focused' = focused
      /\ input' = input /\ target' = target /\ moved' = moved
  BY DEF perform
<1>2. /\ Permitted(input[c]) /\ visual_faults \in Nat
      /\ Accounts /\ TrailInv /\ Account(c) /\ \A r \in trail : r[1] # c
  BY <1>1, NothingYet DEF VisualInv, VisualTypeOK, CallInv, Started
<1>3. CASE /\ effects' = effects \cup {Effect(c)}
           /\ Goto(c, IF input[c].op = "capture" THEN "retain" ELSE "finish")
  <2>1. PICK label \in {"retain", "finish"} :
          Goto(c, label) /\ (label = "retain" => input[c].op = "capture")
    BY <1>3
  <2>2. /\ Effect(c).call = c
    BY DEF Effect
  <2> HIDE DEF Effect
  <2>3. StepOf(c) /\ turn'[c] = label /\ answer' = answer /\ trail' = trail
    BY <1>1, <1>3, <2>1, <2>2 DEF StepOf, Goto, VisualInv, VisualTypeOK
  <2>4. EffectInv' /\ OneEffect(c)' /\ Acted(c)'
    BY <1>1, <1>3, <2>3, EffectIsSuited
  <2>5. Account(c)'
    <3>1. OneRecord(c)'
      BY <1>2, <2>3 DEF Account, OneRecord
    <3>2. OwnRecord(c)'
      BY <1>1, <2>1, <2>3, <2>4 DEF OwnRecord
    <3> QED
      BY <2>3, <2>4, <3>1, <3>2 DEF Account
  <2>6. RecordInv' /\ CallsAreAccountedFor'
    BY <1>1, <1>2, <2>3, <2>5, AccountsKept
  <2>7. VisualTypeOK'
    BY <1>1, <1>2, <2>1 DEF VisualInv, VisualTypeOK, Goto
  <2>8. OwnCall(c)'
    BY <1>1, <1>2, <2>3 DEF OwnCall
  <2>9. CallInv'
    BY <1>1, <2>3, <2>8, CallsKept DEF VisualInv
  <2> QED
    BY <2>4, <2>6, <2>7, <2>9 DEF VisualInv
<1>4. CASE /\ effects' \in {effects, effects \cup {Effect(c)}}
           /\ RecordFailure(c, "backend", "audit_after_side_effect")
  <2>1. /\ turn' = [turn EXCEPT ![c] = "done"]
        /\ visual_faults' \in {visual_faults + 1, visual_faults + 2}
        /\ \/ /\ trail' = trail \cup {<<c, "failed">>} /\ answer' = [answer EXCEPT ![c] = "backend"]
           \/ trail' = trail /\ answer' = [answer EXCEPT ![c] = "audit_after_side_effect"]
    BY <1>4 DEF RecordFailure, Return
  <2>2. Effect(c).call = c
    BY DEF Effect
  <2> HIDE DEF Effect
  <2>3. StepOf(c) /\ turn'[c] = "done"
    BY <1>1, <1>4, <2>1, <2>2 DEF StepOf, VisualInv, VisualTypeOK, AuditResults
  <2>4. EffectInv' /\ OneEffect(c)'
    BY <1>1, <1>4, <2>3, EffectIsSuited
  <2>5. Account(c)'
    <3>1. OneRecord(c)'
      BY <1>2, <2>1 DEF OneRecord
    <3>2. OwnRecord(c)'
      BY <2>3 DEF OwnRecord
    <3>3. /\ answer'[c] \in {"backend", "audit_after_side_effect"}
          /\ answer'[c] = "backend" => <<c, "failed">> \in trail'
      BY <2>1 DEF VisualInv, VisualTypeOK
    <3>4. DoneWell(c)'
      BY <3>3 DEF DoneWell
    <3> QED
      BY <2>4, <3>1, <3>2, <3>4 DEF Account
  <2>6. RecordInv' /\ CallsAreAccountedFor'
    BY <1>1, <1>2, <2>3, <2>5, AccountsKept
  <2>7. VisualTypeOK'
    BY <1>1, <1>2, <2>1 DEF VisualInv, VisualTypeOK, VisualErrors
  <2>8. OwnCall(c)'
    BY <2>3 DEF OwnCall, Started
  <2>9. CallInv'
    BY <1>1, <2>3, <2>8, CallsKept DEF VisualInv
  <2> QED
    BY <2>4, <2>6, <2>7, <2>9 DEF VisualInv
<1> QED
  BY <1>3, <1>4 DEF perform

\* A capture is retained.
LEMMA RetainKeeps ==
  ASSUME VisualInv, NEW c \in Calls, retain(c)
  PROVE  VisualInv'
<1>1. /\ turn[c] = "retain" /\ refocused' = refocused /\ desktop' = desktop /\ focused' = focused
      /\ input' = input /\ target' = target /\ moved' = moved /\ effects' = effects /\ trail' = trail
  BY DEF retain, Goto
<1>2. /\ Permitted(input[c]) /\ visual_faults \in Nat
      /\ Accounts /\ TrailInv /\ Account(c)
  BY <1>1, NothingYet DEF VisualInv, VisualTypeOK, CallInv, Started
<1>3. /\ \/ turn' = [turn EXCEPT ![c] = "finish"] /\ answer' = answer
         \/ /\ turn' = [turn EXCEPT ![c] = "done"]
            /\ \E code \in {"invalid_action", "artifact"} : answer' = [answer EXCEPT ![c] = code]
      /\ visual_faults' \in {visual_faults, visual_faults + 1}
  BY DEF retain, Goto, Return
<1>4. StepOf(c) /\ turn'[c] \in {"finish", "done"}
  BY <1>1, <1>3 DEF StepOf, VisualInv, VisualTypeOK
<1>5. EffectInv'
  BY <1>1, <1>4, EffectsKept DEF VisualInv
<1>6. Account(c)'
  <2>1. Acted(c)' /\ input[c].op = "capture" /\ OneEffect(c)' /\ OneRecord(c)'
    BY <1>1, <1>2 DEF Account, OwnRecord, Acted, OneEffect, OneRecord
  <2>2. OwnRecord(c)'
    BY <1>4, <2>1 DEF OwnRecord
  <2>3. turn'[c] = "done" => answer'[c] \in {"invalid_action", "artifact"}
    BY <1>3 DEF VisualInv, VisualTypeOK
  <2>4. turn'[c] = "done" => DoneWell(c)'
    BY <1>1, <2>1, <2>3 DEF DoneWell
  <2> QED
    BY <2>1, <2>2, <2>4 DEF Account
<1>7. RecordInv' /\ CallsAreAccountedFor'
  BY <1>1, <1>2, <1>4, <1>6, AccountsKept
<1>8. VisualTypeOK'
  BY <1>1, <1>2, <1>3 DEF VisualInv, VisualTypeOK, VisualErrors
<1>9. CallInv'
  <2>1. OwnCall(c)'
    BY <1>1, <1>2, <1>4 DEF OwnCall
  <2> QED
    BY <1>1, <1>4, <2>1, CallsKept DEF VisualInv
<1> QED
  BY <1>5, <1>7, <1>8, <1>9 DEF VisualInv

\* A call is recorded as finished.
LEMMA FinishKeeps ==
  ASSUME VisualInv, NEW c \in Calls, audit_success(c)
  PROVE  VisualInv'
<1>1. /\ turn[c] = "finish" /\ refocused' = refocused /\ desktop' = desktop /\ focused' = focused
      /\ input' = input /\ target' = target /\ moved' = moved /\ effects' = effects
  BY DEF audit_success
<1>2. /\ visual_faults \in Nat
      /\ Accounts /\ TrailInv /\ Account(c) /\ \A r \in trail : r[1] # c
  BY <1>1, NothingYet DEF VisualInv, VisualTypeOK
<1>3. /\ turn' = [turn EXCEPT ![c] = "done"]
      /\ visual_faults' \in {visual_faults, visual_faults + 1}
      /\ \/ trail' = trail \cup {<<c, "succeeded">>} /\ answer' = [answer EXCEPT ![c] = "ok"]
         \/ trail' = trail /\ answer' = [answer EXCEPT ![c] = "audit_after_side_effect"]
  BY DEF audit_success, Record, Return
<1>4. StepOf(c) /\ turn'[c] = "done"
  BY <1>1, <1>3 DEF StepOf, VisualInv, VisualTypeOK, AuditResults
<1>5. EffectInv'
  BY <1>1, <1>4, EffectsKept DEF VisualInv
<1>6. Account(c)'
  <2>1. Acted(c)' /\ OneEffect(c)'
    BY <1>1, <1>2 DEF Account, OwnRecord, Acted, OneEffect
  <2>2. OneRecord(c)'
    BY <1>2, <1>3 DEF OneRecord
  <2>3. OwnRecord(c)'
    BY <1>4 DEF OwnRecord
  <2>4. \/ answer'[c] = "ok" /\ <<c, "succeeded">> \in trail'
        \/ answer'[c] = "audit_after_side_effect"
    BY <1>3 DEF VisualInv, VisualTypeOK
  <2>5. DoneWell(c)'
    BY <2>1, <2>4 DEF DoneWell
  <2> QED
    BY <2>1, <2>2, <2>3, <2>5 DEF Account
<1>7. RecordInv' /\ CallsAreAccountedFor'
  BY <1>1, <1>2, <1>4, <1>6, AccountsKept
<1>8. VisualTypeOK'
  BY <1>1, <1>2, <1>3 DEF VisualInv, VisualTypeOK, VisualErrors
<1>9. CallInv'
  <2>1. OwnCall(c)'
    BY <1>4 DEF OwnCall, Started
  <2> QED
    BY <1>1, <1>4, <2>1, CallsKept DEF VisualInv
<1> QED
  BY <1>5, <1>7, <1>8, <1>9 DEF VisualInv

\* Somebody else changes the desktop.
LEMMA ChangeKeeps ==
  ASSUME VisualInv, desktop_changes
  PROVE  VisualInv'
<1>1. /\ moved' = Calls /\ turn' = turn /\ input' = input /\ target' = target /\ answer' = answer
      /\ trail' = trail /\ effects' = effects /\ refocused' = refocused
      /\ visual_faults' = visual_faults
  BY DEF desktop_changes
<1>2. VisualTypeOK'
  BY <1>1 DEF desktop_changes, VisualInv, VisualTypeOK
<1>3. CallInv'
  BY <1>1 DEF VisualInv, CallInv
<1>4. EffectInv'
  BY <1>1 DEF VisualInv, EffectInv
<1>5. RecordInv' /\ CallsAreAccountedFor'
  BY <1>1 DEF VisualInv, RecordInv, CallsAreAccountedFor, Acted
<1> QED
  BY <1>2, <1>3, <1>4, <1>5 DEF VisualInv

(***************************************************************************)
(* The theorems.                                                           *)
(***************************************************************************)
\* The inductive invariant of visual control: what a call under way knows of
\* its target, what its effects met and what it recorded (controller.rs).
THEOREM VisualInvariant == VisualSpec => []VisualInv
<1>1. VisualInit => VisualInv
  <2> SUFFICES ASSUME VisualInit PROVE VisualInv
    OBVIOUS
  <2>1. VisualTypeOK
    BY VisualAssumption DEF VisualInit, VisualTypeOK
  <2>2. CallInv /\ EffectInv
    BY DEF VisualInit, CallInv, EffectInv, Started
  <2>3. RecordInv /\ CallsAreAccountedFor
    BY DEF VisualInit, RecordInv, CallsAreAccountedFor
  <2> QED
    BY <2>1, <2>2, <2>3 DEF VisualInv
<1>2. VisualInv /\ [VisualNext]_visualVars => VisualInv'
  <2> SUFFICES ASSUME VisualInv, [VisualNext]_visualVars PROVE VisualInv'
    OBVIOUS
  <2>1. ASSUME NEW c \in Calls,
               \/ request(c) \/ revalidate_audited(c) \/ focus_target(c)
               \/ perform(c) \/ retain(c) \/ audit_success(c)
        PROVE  VisualInv'
    BY <2>1, RequestKeeps, LookKeeps, FocusKeeps, PerformKeeps, RetainKeeps, FinishKeeps
  <2>2. CASE desktop_changes
    BY <2>2, ChangeKeeps
  <2>3. CASE UNCHANGED visualVars
    BY <2>3 DEF visualVars, VisualInv, VisualTypeOK, CallInv, EffectInv, RecordInv,
                CallsAreAccountedFor, Acted, Observation
  <2> QED
    BY <2>1, <2>2, <2>3 DEF VisualNext
<1> QED
  BY <1>1, <1>2, PTL DEF VisualSpec

\* However the desktop changes between the calls of the backend, the screen is
\* captured and input is sent only for an allowed caller and, unless somebody
\* else changed the desktop after the last look, only on the target asked for.
THEOREM ScreenIsAlwaysRespected == VisualSpec => []ScreenIsRespected
<1>1. VisualInv => ScreenIsRespected
  <2> SUFFICES ASSUME VisualInv, NEW e \in effects
               PROVE  LET i == input[e.call]
                          s == e.real.at
                      IN  /\ i.effect = "allow" /\ i.seen.mine /\ i.seen.freshness # "stale"
                          /\ i.why = "no_structured_route" => ~i.seen.structured /\ ~i.structured
                          /\ e.moved \/ /\ e.real.ref = i.seen.ref /\ s.kind = i.seen.type
                                        /\ s.generation = i.seen.generation /\ s.sensitivity = "normal"
                                        /\ i.op # "capture" => e.real.focused
                                        /\ i.op = "pointer" => i.x < s.width /\ i.y < s.height
    BY DEF ScreenIsRespected, VisualInv
  <2>1. Permitted(input[e.call]) /\ (e.moved \/ Suits(input[e.call], e.real))
    BY DEF VisualInv, EffectInv
  <2> QED
    BY <2>1, PermittedIsOwn DEF Suits
<1> QED
  BY <1>1, VisualInvariant, PTL

\* Every call acts at most once, is recorded at most once, and answers what it
\* did, whatever the backend and the audit sink fail at.
THEOREM EveryCallIsAccountedFor == VisualSpec => []CallsAreAccountedFor
<1>1. VisualInv => CallsAreAccountedFor
  BY DEF VisualInv
<1> QED
  BY <1>1, VisualInvariant, PTL

(***************************************************************************)
(* The release candidate.  The invariant has a part for each thing to keep *)
(* apart:                                                                  *)
(*   StageInv     nothing is recorded before candidate-init is over;       *)
(*   RecordedInv  a recorded result is current with its own manifest, or   *)
(*                it is archived with it;                                  *)
(*   ProcInv      how far the command that runs is, and that it overwrites *)
(*                only what is in the archive;                             *)
(*   HonestInv    what was hashed still fits, unless it was edited or a    *)
(*                command was killed;                                      *)
(*   SealInv      SHA256SUMS is that of the bundle that was sealed.        *)
(***************************************************************************)
\* The shapes of the files and of the running command.
Unset == {Absent, Torn}
Trees == [valid : BOOLEAN, limitations : BOOLEAN, lock : Contents]
Outputs == Files \cup {NoRef, Torn}
Entries == [result : TestResults \cup Unset, manifest : EvidenceManifests \cup Unset]
InitProcs == [pc : {"materialize"} \cup InitPcs, hash : Contents \ {0}]
ArchiveProcs ==
  [pc : {"archive_result", "archive_manifest", "hash"}, test : Tests, next : Nat \ {0},
   new : TestResults]
WriteProcs ==
  [pc : {"write_manifest", "write_result"}, test : Tests, new : TestResults, hashed : EvidenceManifests]
Recording == {"archive_result", "archive_manifest", "hash", "write_manifest", "write_result"}

\* An archive a holds the result r together with the manifest m.
Holds(a, r, m) == \E n \in DOMAIN a : a[n].result = r /\ a[n].manifest = m
Archived(t, r) == Holds(attempts[t], r, witnessed[r.id])

\* The files fs and the command log cs still are what the manifest m says.
FitsFiles(m, fs, cs) ==
  /\ \A f \in DOMAIN m.files : fs[f] # 0 /\ fs[f] = m.files[f]
  /\ IsPrefix(m.cmds, cs)

\* The types of the variables.
Types ==
  /\ tree \in Trees /\ source_iso \in Contents
  /\ rootdir \in BOOLEAN /\ ledger \in BOOLEAN /\ spoiled \in BOOLEAN
  /\ bundle \in [BundleNames -> Contents]
  /\ result \in [Tests -> TestResults \cup Unset]
  /\ manifest \in [Tests -> EvidenceManifests \cup Unset]
  /\ DOMAIN attempts = Tests
  /\ \A t \in Tests : \A n \in DOMAIN attempts[t] :
       n \in 1 .. MaxAttempt /\ attempts[t][n] \in Entries
  /\ file \in [Tests -> [Files -> Contents]]
  /\ commands \in [Tests -> Seq(Outputs)]
  /\ records \in 0 .. MaxRecords
  /\ sealed \in Seals \cup {Absent}
  /\ recorded \in [Tests -> SUBSET TestResults]
  /\ \A i \in DOMAIN witnessed : witnessed[i] \in EvidenceManifests
  /\ proc \in {Idle} \cup InitProcs \cup ArchiveProcs \cup WriteProcs

\* Nothing is recorded before candidate-init is over, and every test has a result file
\* from the moment the directory exists.
StageInv ==
  /\ proc.pc = "materialize" => ~ rootdir
  /\ proc.pc \in InitPcs \cup Recording => rootdir
  /\ ~ rootdir \/ proc.pc \in InitPcs => \A t \in Tests :
       recorded[t] = {} /\ attempts[t] = NoAttempts /\ manifest[t] = Absent
  /\ \A t \in Tests : result[t] = Absent <=> ~ rootdir

\* A recorded result is the current one, or in the archive, with the manifest hashed
\* for it; its manifest covers its references.
RecordedInv ==
  \A t \in Tests :
    /\ result[t] \in TestResults => result[t] = NotRun \/ result[t] \in recorded[t]
    /\ \A r \in recorded[t] :
         /\ r.id \in 1 .. records /\ r.id \in DOMAIN witnessed
         /\ r.refs \subseteq DOMAIN witnessed[r.id].files
         /\ r.status # "not_run" =>
              Archived(t, r) \/ (r = result[t] /\ manifest[t] = witnessed[r.id])

\* The command that runs has a number of its own, and once it may overwrite the current
\* result and manifest, these are in the archive.
ProcInv ==
  /\ proc.pc \in Recording =>
       /\ proc.new.id = records /\ records > 0
       /\ \A t \in Tests : \A r \in recorded[t] : r.id # records
       /\ result[proc.test] \in TestResults
  /\ proc.pc \in {"archive_result", "archive_manifest"} =>
       proc.next \in 1 .. MaxAttempt /\ manifest[proc.test] \in EvidenceManifests
  /\ proc.pc = "archive_result" => proc.next \notin DOMAIN attempts[proc.test]
  /\ proc.pc = "archive_manifest" =>
       /\ proc.next \in DOMAIN attempts[proc.test]
       /\ attempts[proc.test][proc.next].result = result[proc.test]
       /\ attempts[proc.test][proc.next].manifest = Absent
  /\ proc.pc \in {"hash", "write_manifest", "write_result"} =>
       (result[proc.test] \in recorded[proc.test] /\ result[proc.test].status # "not_run" =>
          Archived(proc.test, result[proc.test]))
  /\ proc.pc \in {"write_manifest", "write_result"} => proc.new.refs \subseteq DOMAIN proc.hashed.files
  /\ proc.pc = "write_result" =>
       /\ manifest[proc.test] = proc.hashed
       /\ records \in DOMAIN witnessed /\ witnessed[records] = proc.hashed

\* What was hashed still verifies, unless somebody edited it or killed a command.
HonestInv ==
  ~ spoiled =>
    /\ rootdir => proc.pc \in InitPcs \/ (sealed \in Seals /\ sealed.verified)
    /\ \A t \in Tests :
         /\ result[t] # Torn
         /\ result[t] \in TestResults /\ result[t].status # "not_run" => Readable(manifest[t])
         /\ Readable(manifest[t]) => FitsFiles(manifest[t], file[t], commands[t])
         /\ \A n \in DOMAIN attempts[t] :
              /\ Readable(attempts[t][n].result)
              /\ \/ /\ Readable(attempts[t][n].manifest)
                    /\ FitsFiles(attempts[t][n].manifest, file[t], commands[t])
                 \/ proc.pc = "archive_manifest" /\ proc.test = t /\ proc.next = n
         /\ proc.pc = "write_manifest" /\ proc.test = t =>
              FitsFiles(proc.hashed, file[t], commands[t])

\* The checksums are those of the sealed bundle, and a verified one describes its ISO.
SealInv ==
  /\ sums # Absent =>
       /\ sealed \in Seals
       /\ sums = [n \in BundleNames \ (IF sealed.bundle["lock"] = 0 THEN {"lock"} ELSE {})
                    |-> sealed.bundle[n]]
  /\ proc.pc \in {"initial_report", "verify_fresh"} => sealed \in Seals
  /\ sealed \in Seals /\ sealed.verified =>
       /\ sealed.bundle["candidate"] = sealed.bundle["iso"]
       /\ sealed.bundle["candidate"] = sealed.bundle["metadata"]

\* All of it.
CandidateInv == Types /\ StageInv /\ RecordedInv /\ ProcInv /\ HonestInv /\ SealInv

(***************************************************************************)
(* The operators.                                                          *)
(***************************************************************************)
\* A file that can be read is a result or a manifest, and these can be read.
LEMMA ReadableIs ==
  /\ \A r \in TestResults : Readable(r)
  /\ \A m \in EvidenceManifests : Readable(m)
  /\ \A r \in TestResults \cup Unset : Readable(r) => r \in TestResults
  /\ \A m \in EvidenceManifests \cup Unset : Readable(m) => m \in EvidenceManifests
  BY MarkersAssumption DEF Readable, Unset

\* verify_manifest_files for the archive.
LEMMA FitsIs ==
  ASSUME NEW t \in Tests, NEW m
  PROVE  verify_manifest_files(t, m, TRUE) <=> FitsFiles(m, file[t], commands[t])
  BY DEF verify_manifest_files, resolve_existing_regular, FitsFiles

\* A log is a prefix of itself and stays one of a longer log.
LEMMA PrefixGrows ==
  ASSUME NEW S, NEW s \in Seq(S), NEW u \in Seq(S), NEW e \in S
  PROVE  /\ IsPrefix(s, s)
         /\ IsPrefix(u, s) => IsPrefix(u, Append(s, e))
<1>1. IsPrefix(s, s)
  BY DEF IsPrefix
<1>2. ASSUME IsPrefix(u, s)
      PROVE  IsPrefix(u, Append(s, e))
  <2>1. Len(u) <= Len(s) /\ Len(u) \in Nat /\ Len(s) \in Nat
    BY <1>2 DEF IsPrefix
  <2>2. Append(s, e) \in Seq(S) /\ Len(Append(s, e)) = Len(s) + 1
    OBVIOUS
  <2>3. \A i \in 1 .. Len(s) : Append(s, e)[i] = s[i]
    OBVIOUS
  <2>4. SubSeq(Append(s, e), 1, Len(u)) = SubSeq(s, 1, Len(u))
    BY <2>1, <2>2, <2>3
  <2> QED
    BY <1>2, <2>1, <2>2, <2>4 DEF IsPrefix
<1> QED
  BY <1>1, <1>2

\* A set of naturals with a bound has a largest element.
LEMMA Largest ==
  ASSUME NEW B \in Nat, NEW S \in SUBSET (0 .. B), S # {}
  PROVE  Max(S) \in S /\ \A y \in S : Max(S) >= y
<1> DEFINE T == {k \in Nat : \A y \in S : y <= k}
<1>1. B \in T
  OBVIOUS
<1>2. IsWellFoundedOn(OpToRel(<, Nat), Nat)
  BY NatLessThanWellFounded
<1>3. PICK m \in T : \A k \in T : ~(<<k, m>> \in OpToRel(<, Nat))
  <2>1. T \in SUBSET Nat /\ T # {}
    BY <1>1
  <2> HIDE DEF T
  <2> QED
    BY <1>2, <2>1, WFMin
<1>4. \A k \in T : ~(k < m)
  BY <1>3 DEF OpToRel
<1>5. m \in S
  <2> SUFFICES ASSUME m \notin S
               PROVE  FALSE
    OBVIOUS
  <2>1. PICK z : z \in S
    OBVIOUS
  <2>2. m \in Nat /\ m # 0 /\ \A y \in S : y <= m - 1
    BY <2>1
  <2>3. m - 1 \in T
    BY <2>2
  <2> QED
    BY <1>4, <2>2, <2>3
<1>6. \E x \in S : \A y \in S : x >= y
  BY <1>5
<1> QED
  BY <1>6 DEF Max

\* The next attempt gets a number that no attempt has.
LEMMA NextIsNew ==
  ASSUME Types, NEW t \in Tests
  PROVE  next_attempt_number(t) \in Nat \ {0} /\ next_attempt_number(t) \notin DOMAIN attempts[t]
<1> DEFINE S == {0} \cup DOMAIN attempts[t]
<1>1. S \in SUBSET (0 .. MaxAttempt) /\ S # {}
  BY CandidateAssumption DEF Types
<1>2. Max(S) \in S /\ \A y \in S : Max(S) >= y
  <2> HIDE DEF S
  <2> QED
    BY <1>1, Largest, CandidateAssumption
<1>3. next_attempt_number(t) = Max(S) + 1
  BY DEF next_attempt_number
<1> QED
  BY <1>1, <1>2, <1>3, CandidateAssumption

\* An archived result stays in a longer archive.
LEMMA ArchiveGrows ==
  ASSUME NEW a, NEW b, NEW r, NEW m, Holds(a, r, m), DOMAIN a \subseteq DOMAIN b,
         \A n \in DOMAIN a : a[n].manifest = m => b[n] = a[n]
  PROVE  Holds(b, r, m)
  BY DEF Holds

\* The steps of a command have its fields.
LEMMA ProcIs ==
  ASSUME Types
  PROVE  /\ proc.pc \in {"materialize"} \cup InitPcs => proc \in InitProcs
         /\ proc.pc \in {"archive_result", "archive_manifest", "hash"} => proc \in ArchiveProcs
         /\ proc.pc \in {"write_manifest", "write_result"} => proc \in WriteProcs
  BY DEF Types, Idle, InitProcs, InitPcs, ArchiveProcs, WriteProcs

(***************************************************************************)
(* What the invariant says.                                                *)
(***************************************************************************)
\* Every file of the directory has the shape its reader expects.
LEMMA TypesHold == CandidateInv => TypeOK
<1> SUFFICES ASSUME CandidateInv
             PROVE  TypeOK
  OBVIOUS
<1> USE CandidateAssumption
<1>1. Types
  BY DEF CandidateInv
<1>2. \A r \in TestResults \cup Unset : ResultOK(r)
  BY DEF TestResults, Unset, ResultOK
<1>3. \A m \in EvidenceManifests \cup Unset : ManifestOK(m)
  <2> SUFFICES ASSUME NEW m \in EvidenceManifests, NEW f \in DOMAIN m.files
               PROVE  f \in Files /\ m.files[f] \in 1 .. MaxContent
    BY DEF Unset, ManifestOK
  <2>1. PICK D \in SUBSET Files : m.files \in [D -> 1 .. MaxContent]
    BY DEF EvidenceManifests
  <2> QED
    BY <2>1
<1>4. ASSUME NEW t \in Tests
      PROVE  /\ ResultOK(result[t]) /\ ManifestOK(manifest[t])
             /\ DOMAIN attempts[t] \subseteq 1 .. MaxAttempt
             /\ \A n \in DOMAIN attempts[t] :
                  ResultOK(attempts[t][n].result) /\ ManifestOK(attempts[t][n].manifest)
             /\ file[t] \in [Files -> Contents]
             /\ Range(commands[t]) \subseteq Files \cup {NoRef, Torn}
  <2>1. result[t] \in TestResults \cup Unset /\ manifest[t] \in EvidenceManifests \cup Unset
    BY <1>1 DEF Types
  <2>2. ASSUME NEW n \in DOMAIN attempts[t]
        PROVE  /\ n \in 1 .. MaxAttempt
               /\ attempts[t][n].result \in TestResults \cup Unset
               /\ attempts[t][n].manifest \in EvidenceManifests \cup Unset
    BY <1>1 DEF Types, Entries
  <2>3. file[t] \in [Files -> Contents] /\ commands[t] \in Seq(Outputs)
    BY <1>1 DEF Types
  <2>4. Range(commands[t]) \subseteq Files \cup {NoRef, Torn}
    BY <2>3 DEF Range, Outputs
  <2> QED
    BY <1>2, <1>3, <2>1, <2>2, <2>3, <2>4
<1> QED
  BY <1>1, <1>4 DEF TypeOK, Types

\* Every result recorded is current or archived with its own manifest.
LEMMA HistoryIsKept == CandidateInv => HistoryKept
  BY DEF CandidateInv, RecordedInv, HistoryKept, Archived, Holds

\* What was recorded honestly verifies.
LEMMA HonestyVerifies == CandidateInv => HonestHistoryVerifies
<1> SUFFICES ASSUME CandidateInv, ~ spoiled, proc = Idle, rootdir, NEW t \in Tests
             PROVE  /\ verify_archived_attempts(t)
                    /\ result[t].status # "not_run" => verify_evidence_manifest_for_archive(t)
  BY DEF HonestHistoryVerifies
<1>1. HonestInv /\ StageInv /\ Types
  BY DEF CandidateInv
<1>2. proc.pc \notin {"archive_manifest", "write_manifest"}
  BY DEF Idle
<1>3. result[t] \in TestResults
  BY <1>1 DEF HonestInv, StageInv, Types, Unset
<1>4. \A n \in DOMAIN attempts[t] :
        /\ Readable(attempts[t][n].result) /\ Readable(attempts[t][n].manifest)
        /\ verify_manifest_files(t, attempts[t][n].manifest, TRUE)
  BY <1>1, <1>2, FitsIs DEF HonestInv
<1>5. result[t].status # "not_run" => Readable(manifest[t]) /\ verify_manifest_files(t, manifest[t], TRUE)
  BY <1>1, <1>3, FitsIs DEF HonestInv
<1> QED
  BY <1>4, <1>5 DEF verify_archived_attempts, verify_evidence_manifest_for_archive

\* A bundle that verifies is the one that was sealed.
LEMMA BundleIsSealed ==
  ASSUME CandidateInv, verify_candidate_bundle
  PROVE  sealed \in Seals /\ bundle = sealed.bundle
<1> DEFINE b == sealed.bundle
<1>1. /\ sealed \in Seals /\ bundle \in [BundleNames -> Contents] /\ b \in [BundleNames -> Contents]
      /\ DOMAIN sums = BundleNames \ (IF b["lock"] = 0 THEN {"lock"} ELSE {})
      /\ \A n \in DOMAIN sums : sums[n] = b[n]
  BY DEF CandidateInv, Types, SealInv, verify_candidate_bundle, Seals
<1>2. /\ DOMAIN sums = BundleNames \ (IF bundle["lock"] = 0 THEN {"lock"} ELSE {})
      /\ \A n \in DOMAIN sums : bundle[n] = sums[n]
  BY DEF verify_candidate_bundle, immutable_bundle_names
<1>3. \A n \in BundleNames : bundle[n] = b[n]
  BY <1>1, <1>2 DEF BundleNames
<1> QED
  BY <1>1, <1>3

\* An accepted candidate has its evidence: a manifest that was written for a later result
\* that never came does not matter, since the archive holds the one hashed for this one.
LEMMA AcceptedHolds == CandidateInv => AcceptedIsReal
<1> SUFFICES ASSUME CandidateInv, verify_candidate_bundle, report # Absent,
                    report.status = "accepted"
             PROVE  /\ bundle = sealed.bundle
                    /\ ~ ledger
                    /\ \A t \in Tests :
                         /\ result[t] \in recorded[t] /\ result[t].status = "pass"
                         /\ \A f \in result[t].refs : file[t][f] = witnessed[result[t].id].files[f]
  BY DEF AcceptedIsReal
<1>1. Types /\ RecordedInv
  BY DEF CandidateInv
<1>2. /\ \A t \in Tests : result_verifies(t) /\ verify_archived_attempts(t)
      /\ report.status = adjudicate(report.imports)
  BY DEF verify_candidate_bundle, verify_validation_harness, verify_report_file
<1>3. Count("pass") = Cardinality(Tests) /\ ~ ledger
  BY <1>2 DEF adjudicate
<1>4. \A t \in Tests : result[t].status = "pass"
  <2> DEFINE P == {t \in Tests : result[t].status = "pass"}
  <2>1. P \in SUBSET Tests /\ Cardinality(Tests) = Cardinality(P)
    BY <1>3 DEF Count
  <2>2. P = Tests
    <3> HIDE DEF P
    <3> QED
      BY <2>1, FS_Subset, CandidateAssumption
  <2> QED
    BY <2>2
<1>5. ASSUME NEW t \in Tests
      PROVE  /\ result[t] \in recorded[t]
             /\ \A f \in result[t].refs : file[t][f] = witnessed[result[t].id].files[f]
  <2> DEFINE r == result[t]
             m == witnessed[r.id]
  <2>1. r \in TestResults /\ r.status = "pass" /\ r # NotRun
    BY <1>1, <1>2, <1>4, <1>5, ReadableIs DEF Types, result_verifies, NotRun
  <2>2. r \in recorded[t]
    BY <1>1, <2>1 DEF RecordedInv
  <2>3. /\ r.refs \subseteq DOMAIN m.files
        /\ Archived(t, r) \/ manifest[t] = m
    BY <1>1, <2>1, <2>2 DEF RecordedInv
  <2>4. verify_manifest_files(t, m, TRUE) \/ verify_manifest_files(t, m, FALSE)
    <3>1. CASE manifest[t] = m
      BY <1>2, <2>1, <3>1 DEF result_verifies, verify_evidence_manifest
    <3>2. CASE Archived(t, r)
      BY <1>2, <3>2 DEF verify_archived_attempts, Archived, Holds
    <3> QED
      BY <2>3, <3>1, <3>2
  <2>5. \A f \in DOMAIN m.files : file[t][f] = m.files[f]
    BY <2>4 DEF verify_manifest_files
  <2> QED
    BY <2>2, <2>3, <2>5
<1> QED
  BY <1>3, <1>4, <1>5, BundleIsSealed

\* candidate-init leaves nothing or a verified candidate.
LEMMA InitHolds == CandidateInv => InitAllOrNothing
<1> SUFFICES ASSUME CandidateInv
             PROVE  InitAllOrNothing
  OBVIOUS
<1>1. (proc = Idle /\ rootdir /\ ~ spoiled) => sealed \in Seals /\ sealed.verified
  BY DEF CandidateInv, HonestInv, Idle, InitPcs
<1>2. sealed \in Seals => sealed # Absent
  BY MarkersAssumption
<1>3. sealed # Absent => sealed \in Seals
  BY DEF CandidateInv, Types
<1> QED
  BY <1>1, <1>2, <1>3 DEF InitAllOrNothing, CandidateInv, SealInv

(***************************************************************************)
(* The first state, and the steps that leave the parts alone.              *)
(***************************************************************************)
\* Before candidate-init there is no directory.
LEMMA InitialInv == Init => CandidateInv
<1> SUFFICES ASSUME Init
             PROVE  CandidateInv
  OBVIOUS
<1> USE CandidateAssumption
<1>1. Types
  <2>1. tree \in Trees /\ source_iso \in Contents
    <3>1. tree \in [valid : {TRUE}, limitations : {TRUE}, lock : {TreeLock}] /\ TreeLock \in Contents
      BY DEF Init, Contents
    <3>2. source_iso \in Contents
      BY DEF Init, Contents
    <3> QED
      BY <3>1, <3>2 DEF Trees
  <2>2. /\ bundle \in [BundleNames -> Contents] /\ sealed \in Seals \cup {Absent}
        /\ result \in [Tests -> TestResults \cup Unset]
        /\ manifest \in [Tests -> EvidenceManifests \cup Unset]
        /\ rootdir \in BOOLEAN /\ ledger \in BOOLEAN /\ spoiled \in BOOLEAN
    <3>1. bundle = [n \in BundleNames |-> 0] /\ 0 \in Contents
      BY DEF Init, NoBundle, Contents
    <3>2. bundle \in [BundleNames -> Contents]
      BY <3>1
    <3>3. result = [t \in Tests |-> Absent] /\ manifest = [t \in Tests |-> Absent]
      BY DEF Init
    <3>4. Absent \in Unset
      BY DEF Unset
    <3>5. result \in [Tests -> TestResults \cup Unset]
      BY <3>3, <3>4
    <3>6. manifest \in [Tests -> EvidenceManifests \cup Unset]
      BY <3>3, <3>4
    <3>7. /\ rootdir \in BOOLEAN /\ ledger \in BOOLEAN /\ spoiled \in BOOLEAN
          /\ sealed \in Seals \cup {Absent}
      BY DEF Init
    <3> QED
      BY <3>2, <3>5, <3>6, <3>7
  <2>3. /\ DOMAIN attempts = Tests /\ \A t \in Tests : DOMAIN attempts[t] = {}
        /\ DOMAIN witnessed = {}
    <3>1. attempts = [t \in Tests |-> NoAttempts] /\ witnessed = [i \in {} |-> NoManifest]
      BY DEF Init
    <3>2. DOMAIN NoAttempts = {} /\ DOMAIN [i \in {} |-> NoManifest] = {}
      BY DEF NoAttempts
    <3>3. DOMAIN attempts = Tests /\ \A t \in Tests : attempts[t] = NoAttempts
      BY <3>1
    <3>4. DOMAIN witnessed = {}
      BY <3>1, <3>2, Zenon
    <3> QED
      BY <3>2, <3>3, <3>4
  <2>4. file \in [Tests -> [Files -> Contents]] /\ commands \in [Tests -> Seq(Outputs)]
    BY DEF Init, Contents
  <2>5. records \in 0 .. MaxRecords /\ recorded \in [Tests -> SUBSET TestResults]
    BY DEF Init
  <2> QED
    BY <2>1, <2>2, <2>3, <2>4, <2>5 DEF Init, Types
<1>2. proc.pc = "idle" /\ ~ rootdir /\ ~ spoiled /\ sums = Absent /\ sealed = Absent
  BY DEF Init, Idle
<1>3. \A t \in Tests : result[t] = Absent /\ recorded[t] = {} /\ attempts[t] = NoAttempts
                       /\ manifest[t] = Absent
  BY DEF Init
<1>4. Absent \notin TestResults /\ Absent \notin Seals /\ Absent # Torn
  BY MarkersAssumption
<1>5. StageInv /\ RecordedInv /\ ProcInv /\ SealInv
  BY <1>2, <1>3, <1>4 DEF StageInv, RecordedInv, ProcInv, SealInv, InitPcs, Recording
<1>6. HonestInv
  BY <1>2, <1>3, <1>4 DEF HonestInv, NoAttempts, Readable
<1> QED
  BY <1>1, <1>5, <1>6 DEF CandidateInv

\* A step that touches nothing the invariant relates.
LEMMA PartsKept ==
  ASSUME CandidateInv,
         UNCHANGED <<rootdir, sums, result, manifest, attempts, file, commands, proc, records,
                     sealed, recorded, witnessed, spoiled>>
  PROVE  StageInv' /\ RecordedInv' /\ ProcInv' /\ HonestInv' /\ SealInv'
<1>1. StageInv'
  BY DEF CandidateInv, StageInv
<1>2. RecordedInv'
  BY DEF CandidateInv, RecordedInv, Archived
<1>3. ProcInv'
  BY DEF CandidateInv, ProcInv, Archived
<1>4. HonestInv'
  BY DEF CandidateInv, HonestInv
<1>5. SealInv'
  BY DEF CandidateInv, SealInv
<1> QED
  BY <1>1, <1>2, <1>3, <1>4, <1>5

\* record_redaction_ledger.
LEMMA LedgerKeeps ==
  ASSUME CandidateInv, NEW forbidden \in BOOLEAN, record_redaction_ledger(forbidden)
  PROVE  CandidateInv'
<1>1. Types'
  BY DEF CandidateInv, Types, record_redaction_ledger, history
<1>2. UNCHANGED <<rootdir, sums, result, manifest, attempts, file, commands, proc, records,
                  sealed, recorded, witnessed, spoiled>>
  BY DEF record_redaction_ledger, history
<1> QED
  BY <1>1, <1>2, PartsKept DEF CandidateInv

\* aggregate_validation_report.
LEMMA ReportKeeps ==
  ASSUME CandidateInv, NEW given, aggregate_validation_report(given)
  PROVE  CandidateInv'
<1>1. Types'
  BY DEF CandidateInv, Types, aggregate_validation_report, history, budget
<1>2. UNCHANGED <<rootdir, sums, result, manifest, attempts, file, commands, proc, records,
                  sealed, recorded, witnessed, spoiled>>
  BY DEF aggregate_validation_report, history, budget
<1> QED
  BY <1>1, <1>2, PartsKept DEF CandidateInv

\* The operator supplies environments and imports.
LEMMA SupplyKeeps ==
  ASSUME CandidateInv, Supply
  PROVE  CandidateInv'
<1>1. Types'
  BY DEF CandidateInv, Types, Supply, history
<1>2. UNCHANGED <<rootdir, sums, result, manifest, attempts, file, commands, proc, records,
                  sealed, recorded, witnessed, spoiled>>
  BY DEF Supply, history
<1> QED
  BY <1>1, <1>2, PartsKept DEF CandidateInv

\* The source ISO, the tree or a file of the bundle changes.
LEMMA SwapKeeps ==
  ASSUME CandidateInv, Swap
  PROVE  CandidateInv'
<1>1. UNCHANGED <<rootdir, sums, result, manifest, attempts, file, commands, proc, records,
                  sealed, recorded, witnessed, spoiled, ledger>>
  BY DEF Swap, history
<1>2. Types
  BY DEF CandidateInv
<1>3. tree' \in Trees
  <2>1. CASE tree' = tree
    BY <1>2, <2>1 DEF Types
  <2>2. CASE tree' = [tree EXCEPT !.valid = ~ tree.valid]
    BY <1>2, <2>2 DEF Types, Trees
  <2>3. CASE tree' = [tree EXCEPT !.limitations = ~ tree.limitations]
    BY <1>2, <2>3 DEF Types, Trees
  <2> QED
    BY <2>1, <2>2, <2>3 DEF Swap
<1>4. source_iso' \in Contents /\ bundle' \in [BundleNames -> Contents]
  BY <1>2 DEF Swap, Types
<1>5. Types'
  BY <1>1, <1>2, <1>3, <1>4 DEF Types
<1> QED
  BY <1>1, <1>5, PartsKept DEF CandidateInv

(***************************************************************************)
(* candidate-init.                                                         *)
(***************************************************************************)
\* A step of candidate-init that leaves results, evidence and history alone.
LEMMA InitStep ==
  ASSUME CandidateInv, proc.pc \in {"idle", "materialize"} \cup InitPcs,
         proc'.pc \in {"idle"} \cup InitPcs, rootdir',
         UNCHANGED <<rootdir, result, manifest, attempts, file, commands, records, recorded,
                     witnessed, spoiled>>,
         ~ spoiled /\ proc'.pc = "idle" => sealed' \in Seals /\ sealed'.verified,
         proc'.pc \in InitPcs => proc.pc \in InitPcs
  PROVE  StageInv' /\ RecordedInv' /\ ProcInv' /\ HonestInv'
<1>1. StageInv'
  BY DEF CandidateInv, StageInv, InitPcs, Recording
<1>2. RecordedInv'
  BY DEF CandidateInv, RecordedInv, Archived
<1>3. ProcInv'
  BY DEF ProcInv, InitPcs, Recording
<1>4. HonestInv'
  BY DEF CandidateInv, HonestInv, InitPcs
<1> QED
  BY <1>1, <1>2, <1>3, <1>4

\* initialize_candidate_to, up to the hash of the ISO.
LEMMA CandidateInitKeeps ==
  ASSUME CandidateInv, candidate_init
  PROVE  CandidateInv'
<1>1. /\ UNCHANGED <<tree, source_iso, disk, budget, history>> /\ ~ rootdir /\ proc.pc = "idle"
      /\ proc' = [pc |-> "materialize", hash |-> source_iso] /\ source_iso # 0
  BY DEF candidate_init, Idle
<1>2. Types'
  <2>1. proc' \in InitProcs
    BY <1>1 DEF CandidateInv, Types, InitProcs
  <2> QED
    BY <1>1, <2>1 DEF CandidateInv, Types, disk, budget, history
<1>3. proc'.pc = "materialize"
  BY <1>1
<1>4. StageInv'
  BY <1>1, <1>3 DEF CandidateInv, StageInv, InitPcs, Recording, disk, history
<1>5. RecordedInv'
  BY <1>1 DEF CandidateInv, RecordedInv, Archived, disk, history, budget
<1>6. ProcInv'
  BY <1>3 DEF ProcInv, Recording
<1>7. HonestInv'
  BY <1>1, <1>3 DEF CandidateInv, HonestInv, disk, history
<1>8. SealInv'
  BY <1>1, <1>3 DEF CandidateInv, SealInv, disk, history
<1> QED
  BY <1>2, <1>4, <1>5, <1>6, <1>7, <1>8 DEF CandidateInv

\* materialize_validation_harness writes the first file of an empty directory.
LEMMA MaterializeKeeps ==
  ASSUME CandidateInv, materialize_validation_harness
  PROVE  CandidateInv'
<1> USE CandidateAssumption
<1>1. /\ UNCHANGED <<tree, source_iso, sums, manifest, attempts, file, records, sealed, recorded,
                     witnessed, spoiled>>
      /\ rootdir' = TRUE /\ ledger' = FALSE /\ proc.pc = "materialize"
      /\ bundle' = [NoBundle EXCEPT !["candidate"] = proc.hash]
      /\ commands' = [t \in Tests |-> <<>>] /\ result' = [t \in Tests |-> NotRun]
      /\ proc' = [proc EXCEPT !.pc = "copy"]
  BY DEF materialize_validation_harness, budget, history
<1>2. Types /\ StageInv /\ proc \in InitProcs
  BY <1>1, ProcIs DEF CandidateInv
<1>3. proc' \in InitProcs /\ proc'.pc = "copy"
  BY <1>1, <1>2 DEF InitProcs, InitPcs
<1>4. NotRun \in TestResults /\ NotRun # Absent /\ NotRun # Torn
  <2>1. NotRun \in TestResults
    BY DEF NotRun, TestResults, Statuses
  <2> QED
    BY <2>1, MarkersAssumption
<1>5. ~ rootdir /\ \A t \in Tests : recorded[t] = {} /\ attempts[t] = NoAttempts /\ manifest[t] = Absent
  BY <1>1, <1>2 DEF StageInv
<1>6. Types'
  <2>1. bundle' \in [BundleNames -> Contents]
    <3>1. proc.hash \in Contents /\ 0 \in Contents
      BY <1>2 DEF InitProcs, Contents
    <3> QED
      BY <1>1, <3>1 DEF NoBundle
  <2>2. result' \in [Tests -> TestResults \cup Unset] /\ commands' \in [Tests -> Seq(Outputs)]
    BY <1>1, <1>4
  <2> QED
    BY <1>1, <1>2, <1>3, <2>1, <2>2 DEF Types
<1>7. StageInv'
  BY <1>1, <1>3, <1>4, <1>5 DEF StageInv, InitPcs, Recording
<1>8. RecordedInv'
  BY <1>1, <1>5 DEF RecordedInv
<1>9. ProcInv'
  BY <1>3 DEF ProcInv, Recording
<1>10. HonestInv'
  <2>1. \A t \in Tests : result'[t] = NotRun /\ manifest'[t] = Absent /\ DOMAIN attempts'[t] = {}
    BY <1>1, <1>5 DEF NoAttempts
  <2> QED
    BY <1>3, <1>4, <2>1 DEF HonestInv, InitPcs, NotRun, Readable
<1>11. SealInv'
  BY <1>1, <1>3 DEF CandidateInv, SealInv
<1> QED
  BY <1>6, <1>7, <1>8, <1>9, <1>10, <1>11 DEF CandidateInv

\* The bundle is copied from an ISO that may have changed.
LEMMA CopyKeeps ==
  ASSUME CandidateInv, copy_bundle
  PROVE  CandidateInv'
<1> USE CandidateAssumption
<1>1. /\ UNCHANGED <<tree, source_iso, rootdir, sums, result, manifest, attempts, file, commands,
                     ledger, records, sealed, recorded, witnessed, spoiled>>
      /\ proc.pc = "copy" /\ proc' = [proc EXCEPT !.pc = "seal"]
      /\ bundle' = [bundle EXCEPT !["iso"] = source_iso, !["pins"] = 1, !["lock"] = tree.lock]
  BY DEF copy_bundle, budget, history
<1>2. Types /\ StageInv /\ proc \in InitProcs
  BY <1>1, ProcIs DEF CandidateInv, InitPcs
<1>3. proc' \in InitProcs /\ proc'.pc = "seal" /\ rootdir
  BY <1>1, <1>2 DEF InitProcs, InitPcs, StageInv
<1>4. Types'
  <2>1. bundle' \in [BundleNames -> Contents]
    <3>1. source_iso \in Contents /\ 1 \in Contents /\ tree.lock \in Contents
      BY <1>2 DEF Types, Trees, Contents
    <3>2. bundle \in [BundleNames -> Contents]
      BY <1>2 DEF Types
    <3> QED
      BY <1>1, <3>1, <3>2
  <2> QED
    BY <1>1, <1>2, <1>3, <2>1 DEF Types
<1>5. StageInv' /\ RecordedInv' /\ ProcInv' /\ HonestInv'
  BY <1>1, <1>3, InitStep DEF InitPcs
<1>6. SealInv'
  BY <1>1, <1>3 DEF CandidateInv, SealInv
<1> QED
  BY <1>4, <1>5, <1>6 DEF CandidateInv

\* SHA256SUMS is written over the files as they are.
LEMMA SealKeeps ==
  ASSUME CandidateInv, seal_bundle
  PROVE  CandidateInv'
<1> DEFINE b == [bundle EXCEPT !["metadata"] = proc.hash]
<1>1. /\ UNCHANGED <<tree, source_iso, rootdir, result, manifest, attempts, file, commands,
                     ledger, records, recorded, witnessed, spoiled>>
      /\ proc.pc = "seal" /\ proc' = [proc EXCEPT !.pc = "initial_report"] /\ bundle' = b
      /\ sums' = [n \in BundleNames \ (IF b["lock"] = 0 THEN {"lock"} ELSE {}) |-> b[n]]
      /\ sealed' = [bundle |-> b, verified |-> FALSE]
  BY DEF seal_bundle, budget, history
<1>2. Types /\ StageInv /\ proc \in InitProcs
  BY <1>1, ProcIs DEF CandidateInv, InitPcs
<1>3. proc' \in InitProcs /\ proc'.pc = "initial_report" /\ rootdir
  BY <1>1, <1>2 DEF InitProcs, InitPcs, StageInv
<1>4. b \in [BundleNames -> Contents]
  BY <1>2 DEF Types, InitProcs
<1> HIDE DEF b
<1>5. sealed' \in Seals /\ sealed'.bundle = b /\ ~ sealed'.verified
  BY <1>1, <1>4 DEF Seals
<1>6. Types'
  BY <1>1, <1>2, <1>3, <1>4, <1>5 DEF Types
<1>7. StageInv' /\ RecordedInv' /\ ProcInv' /\ HonestInv'
  BY <1>1, <1>3, InitStep DEF InitPcs
<1>8. SealInv'
  BY <1>1, <1>5 DEF SealInv
<1> QED
  BY <1>6, <1>7, <1>8 DEF CandidateInv

\* The first report.
LEMMA InitialReportKeeps ==
  ASSUME CandidateInv, initial_report
  PROVE  CandidateInv'
<1>1. /\ UNCHANGED <<tree, source_iso, rootdir, bundle, sums, result, manifest, attempts, file,
                     commands, ledger, records, sealed, recorded, witnessed, spoiled>>
      /\ proc.pc = "initial_report" /\ proc' = [proc EXCEPT !.pc = "verify_fresh"]
  BY DEF initial_report, budget, history
<1>2. Types /\ StageInv /\ proc \in InitProcs
  BY <1>1, ProcIs DEF CandidateInv, InitPcs
<1>3. proc' \in InitProcs /\ proc'.pc = "verify_fresh" /\ rootdir
  BY <1>1, <1>2 DEF InitProcs, InitPcs, StageInv
<1>4. Types'
  BY <1>1, <1>2, <1>3 DEF Types
<1>5. StageInv' /\ RecordedInv' /\ ProcInv' /\ HonestInv'
  BY <1>1, <1>3, InitStep DEF InitPcs
<1>6. SealInv'
  BY <1>1, <1>3 DEF CandidateInv, SealInv
<1> QED
  BY <1>4, <1>5, <1>6 DEF CandidateInv

\* init reports success only for a candidate that verifies.
LEMMA VerifyFreshKeeps ==
  ASSUME CandidateInv, verify_fresh
  PROVE  CandidateInv'
<1>1. /\ UNCHANGED <<tree, source_iso, rootdir, bundle, sums, result, manifest, attempts, file,
                     commands, ledger, records, recorded, witnessed, spoiled>>
      /\ proc.pc = "verify_fresh" /\ proc' = Idle /\ verify_candidate_bundle
      /\ sealed' = [sealed EXCEPT !.verified = TRUE]
  BY DEF verify_fresh, budget, disk
<1>2. Types /\ StageInv
  BY DEF CandidateInv
<1>3. proc'.pc = "idle" /\ rootdir
  BY <1>1, <1>2 DEF Idle, InitPcs, StageInv
<1>4. sealed \in Seals /\ bundle = sealed.bundle
  BY <1>1, BundleIsSealed
<1>5. sealed' \in Seals /\ sealed'.bundle = bundle /\ sealed'.verified
  BY <1>1, <1>4 DEF Seals
<1>6. bundle["candidate"] = bundle["iso"] /\ bundle["candidate"] = bundle["metadata"]
  BY <1>1 DEF verify_candidate_bundle, iso_matches, verify_build_candidate_linkage
<1>7. Types'
  BY <1>1, <1>2, <1>5 DEF Types
<1>8. StageInv' /\ RecordedInv' /\ ProcInv' /\ HonestInv'
  BY <1>1, <1>3, <1>5, InitStep DEF InitPcs
<1>9. SealInv'
  <2>1. /\ sums' # Absent => sums' = [n \in BundleNames \ (IF sealed'.bundle["lock"] = 0 THEN {"lock"} ELSE {})
                                        |-> sealed'.bundle[n]]
    BY <1>1, <1>4, <1>5 DEF CandidateInv, SealInv
  <2>2. proc'.pc \notin {"initial_report", "verify_fresh"}
    BY <1>3
  <2> QED
    BY <1>5, <1>6, <2>1, <2>2 DEF SealInv
<1> QED
  BY <1>7, <1>8, <1>9 DEF CandidateInv

\* A failure of init removes the directory, in which nothing was recorded.
LEMMA InitFailsKeeps ==
  ASSUME CandidateInv, init_fails
  PROVE  CandidateInv'
<1> USE CandidateAssumption
<1>1. /\ UNCHANGED <<tree, source_iso, records, recorded, witnessed, spoiled>>
      /\ proc.pc \in InitPcs /\ proc' = Idle /\ sealed' = Absent /\ sums' = Absent
      /\ rootdir' = FALSE /\ ledger' = FALSE
      /\ bundle' = NoBundle
      /\ result' = [t \in Tests |-> Absent]
      /\ manifest' = [t \in Tests |-> Absent]
      /\ attempts' = [t \in Tests |-> NoAttempts]
      /\ file' = [t \in Tests |-> [f \in Files |-> 0]]
      /\ commands' = [t \in Tests |-> <<>>]
  BY DEF init_fails, clear_root, budget
<1>2. Types /\ StageInv
  BY DEF CandidateInv
<1>3. proc'.pc = "idle" /\ \A t \in Tests : recorded'[t] = {}
  BY <1>1, <1>2 DEF Idle, StageInv
<1>4. /\ \A t \in Tests : result'[t] = Absent /\ manifest'[t] = Absent
      /\ \A t \in Tests : attempts'[t] = NoAttempts /\ DOMAIN attempts'[t] = {}
      /\ DOMAIN attempts' = Tests
  BY <1>1 DEF NoAttempts
<1>5. Absent \notin TestResults /\ Absent \notin Seals /\ Absent # Torn
  BY MarkersAssumption
<1>6. Types'
  <2>1. Absent \in Unset /\ 0 \in Contents
    BY DEF Unset, Contents
  <2>2. result' \in [Tests -> TestResults \cup Unset]
    BY <1>1, <2>1
  <2>3. manifest' \in [Tests -> EvidenceManifests \cup Unset]
    BY <1>1, <2>1
  <2>4. bundle' \in [BundleNames -> Contents]
    BY <1>1, <2>1 DEF NoBundle
  <2>5. file' \in [Tests -> [Files -> Contents]] /\ commands' \in [Tests -> Seq(Outputs)]
    BY <1>1, <2>1
  <2> QED
    BY <1>1, <1>2, <1>4, <2>2, <2>3, <2>4, <2>5 DEF Types
<1>7. StageInv'
  BY <1>1, <1>3, <1>4 DEF StageInv, InitPcs, Recording
<1>8. RecordedInv'
  BY <1>3, <1>4, <1>5 DEF RecordedInv
<1>9. ProcInv'
  BY <1>3 DEF ProcInv, Recording
<1>10. HonestInv'
  BY <1>1, <1>3, <1>4, <1>5 DEF HonestInv, Readable
<1>11. SealInv'
  BY <1>1, <1>3, <1>5 DEF SealInv
<1> QED
  BY <1>6, <1>7, <1>8, <1>9, <1>10, <1>11 DEF CandidateInv

(***************************************************************************)
(* The commands on a candidate.                                            *)
(***************************************************************************)
\* append_validation_command: hashed logs stay prefixes.
LEMMA AppendKeeps ==
  ASSUME CandidateInv, NEW t \in Tests, NEW ref \in Files \cup {NoRef},
         append_validation_command(t, ref)
  PROVE  CandidateInv'
<1>1. /\ UNCHANGED <<tree, source_iso, rootdir, bundle, sums, result, manifest, attempts, file,
                     ledger, proc, records, sealed, recorded, witnessed, spoiled>>
      /\ commands' = [commands EXCEPT ![t] = Append(commands[t], ref)]
  BY DEF append_validation_command, budget, history
<1>2. Types /\ HonestInv
  BY DEF CandidateInv
<1>3. commands' \in [Tests -> Seq(Outputs)]
  <2>1. commands[t] \in Seq(Outputs) /\ ref \in Outputs
    BY <1>2 DEF Types, Outputs
  <2>2. Append(commands[t], ref) \in Seq(Outputs)
    BY <2>1
  <2> QED
    BY <1>1, <1>2, <2>2 DEF Types
<1>4. Types'
  BY <1>1, <1>2, <1>3 DEF Types
<1>5. StageInv' /\ RecordedInv' /\ ProcInv' /\ SealInv'
  BY <1>1 DEF CandidateInv, StageInv, RecordedInv, Archived, ProcInv, SealInv
<1>6. ASSUME NEW u \in Tests, NEW m \in EvidenceManifests, FitsFiles(m, file[u], commands[u])
      PROVE  FitsFiles(m, file'[u], commands'[u])
  <2>1. m.cmds \in Seq(Outputs) /\ commands[t] \in Seq(Outputs) /\ ref \in Outputs
    BY <1>2 DEF Types, EvidenceManifests, Outputs
  <2>2. IsPrefix(m.cmds, commands[u]) => IsPrefix(m.cmds, commands'[u])
    <3>1. CASE u = t
      <4>1. commands'[t] = Append(commands[t], ref)
        BY <1>1, <1>2 DEF Types
      <4> QED
        BY <2>1, <3>1, <4>1, PrefixGrows
    <3>2. CASE u # t
      BY <1>1, <1>2, <3>2 DEF Types
    <3> QED
      BY <3>1, <3>2
  <2> QED
    BY <1>1, <1>6, <2>2 DEF FitsFiles
<1>7. HonestInv'
  <2>1. \A u \in Tests : Readable(manifest[u]) => manifest[u] \in EvidenceManifests
    BY <1>2, ReadableIs DEF Types
  <2>2. \A u \in Tests : \A n \in DOMAIN attempts[u] :
          Readable(attempts[u][n].manifest) => attempts[u][n].manifest \in EvidenceManifests
    BY <1>2, ReadableIs DEF Types, Entries
  <2>3. proc.pc = "write_manifest" => proc.hashed \in EvidenceManifests
    BY <1>2, ProcIs DEF WriteProcs
  <2> QED
    BY <1>1, <1>2, <1>6, <2>1, <2>2, <2>3 DEF HonestInv
<1> QED
  BY <1>4, <1>5, <1>7 DEF CandidateInv

\* record_validation_result, up to its first write.
LEMMA RecordKeeps ==
  ASSUME CandidateInv, NEW t \in Tests, NEW r \in Submissions, record_validation_result(t, r)
  PROVE  CandidateInv'
<1> USE CandidateAssumption
<1> DEFINE new == [status |-> r.status, refs |-> r.refs, id |-> records + 1]
           next == next_attempt_number(t)
<1>1. /\ UNCHANGED <<tree, source_iso, rootdir, bundle, sums, result, manifest, attempts, file,
                     commands, ledger, sealed, recorded, witnessed, spoiled>>
      /\ rootdir /\ Readable(result[t]) /\ proc.pc = "idle"
      /\ records < MaxRecords /\ records' = records + 1
      /\ proc' = [pc |-> IF must_archive(result[t]) THEN "archive_result" ELSE "hash",
                  test |-> t, next |-> next, new |-> new]
      /\ must_archive(result[t]) => Readable(manifest[t]) /\ next <= MaxAttempt
  BY DEF record_validation_result, disk, history, read_candidate, Idle,
         verify_evidence_manifest_for_archive
<1>2. Types /\ StageInv /\ RecordedInv /\ HonestInv
  BY DEF CandidateInv
<1>3. next \in Nat \ {0} /\ next \notin DOMAIN attempts[t]
  BY <1>2, NextIsNew
<1>4. result[t] \in TestResults /\ (must_archive(result[t]) => manifest[t] \in EvidenceManifests)
  BY <1>1, <1>2, ReadableIs DEF Types
<1>5. new \in TestResults /\ new.id = records'
  <2>1. r.status \in Outcomes /\ r.refs \in SUBSET Files
    BY DEF Submissions
  <2>2. r.status \in Statuses /\ records + 1 \in 0 .. MaxRecords
    <3>1. MaxRecords \in Nat
      OBVIOUS
    <3>2. r.status \in Statuses
      BY <2>1 DEF Statuses
    <3>3. records \in 0 .. MaxRecords /\ records < MaxRecords
      BY <1>1, <1>2 DEF Types
    <3> QED
      BY <3>1, <3>2, <3>3
  <2> QED
    BY <1>1, <2>1, <2>2 DEF TestResults
<1> HIDE DEF new, next
<1>6. /\ proc' \in ArchiveProcs /\ proc'.pc \in {"archive_result", "hash"}
      /\ proc'.pc = "archive_result" <=> must_archive(result[t])
      /\ proc'.test = t /\ proc'.next = next /\ proc'.new = new
  BY <1>1, <1>3, <1>5 DEF ArchiveProcs
<1>7. Types'
  <2>1. records' \in 0 .. MaxRecords
    BY <1>1, <1>2 DEF Types
  <2> QED
    BY <1>1, <1>2, <1>6, <2>1 DEF Types
<1>8. StageInv'
  BY <1>1, <1>2, <1>6 DEF StageInv, InitPcs, Recording
<1>9. RecordedInv'
  <2>1. \A i \in 1 .. records : i \in 1 .. records'
    BY <1>1, <1>2 DEF Types
  <2> QED
    BY <1>1, <1>2, <2>1 DEF RecordedInv, Archived
<1>10. ProcInv'
  <2>1. records' > 0 /\ \A u \in Tests : \A x \in recorded'[u] : x.id # records'
    BY <1>1, <1>2 DEF Types, RecordedInv
  <2>2. next \in 1 .. MaxAttempt \/ ~ must_archive(result[t])
    BY <1>1, <1>3
  <2>3. ~ must_archive(result[t]) => result[t].status = "not_run"
    BY DEF must_archive
  <2> QED
    BY <1>1, <1>3, <1>4, <1>5, <1>6, <2>1, <2>2, <2>3 DEF ProcInv, Recording
<1>11. HonestInv'
  BY <1>1, <1>2, <1>6 DEF HonestInv, InitPcs
<1>12. SealInv'
  BY <1>1, <1>6 DEF CandidateInv, SealInv
<1> QED
  BY <1>7, <1>8, <1>9, <1>10, <1>11, <1>12 DEF CandidateInv

\* archive_prior_attempt, the first copy.
LEMMA ArchiveResultKeeps ==
  ASSUME CandidateInv, archive_result
  PROVE  CandidateInv'
<1> DEFINE t == proc.test
           next == proc.next
           e == [result |-> result[t], manifest |-> Absent]
<1>1. /\ UNCHANGED <<tree, source_iso, rootdir, bundle, sums, result, manifest, file, commands,
                     ledger, records, sealed, recorded, witnessed, spoiled>>
      /\ proc.pc = "archive_result" /\ proc' = [proc EXCEPT !.pc = "archive_manifest"]
  BY DEF archive_result, budget, history
<1>2. Types /\ StageInv /\ RecordedInv /\ HonestInv /\ ProcInv /\ proc \in ArchiveProcs
  BY <1>1, ProcIs DEF CandidateInv
<1>3. /\ t \in Tests /\ next \in 1 .. MaxAttempt /\ next \notin DOMAIN attempts[t]
      /\ result[t] \in TestResults /\ manifest[t] \in EvidenceManifests
  BY <1>1, <1>2 DEF ArchiveProcs, ProcInv, Recording
<1>4. /\ DOMAIN attempts' = Tests
      /\ \A u \in Tests \ {t} : attempts'[u] = attempts[u]
      /\ DOMAIN attempts'[t] = DOMAIN attempts[t] \cup {next}
      /\ attempts'[t][next] = e
      /\ \A n \in DOMAIN attempts[t] : attempts'[t][n] = attempts[t][n]
  <2>1. attempts' = [attempts EXCEPT ![t] =
          [n \in DOMAIN attempts[t] \cup {next} |->
             IF n = next
             THEN [result |-> result[t],
                   manifest |-> IF n \in DOMAIN attempts[t] THEN attempts[t][n].manifest ELSE Absent]
             ELSE attempts[t][n]]]
    BY DEF archive_result
  <2> QED
    BY <1>2, <1>3, <2>1 DEF Types
<1>5. /\ proc' \in ArchiveProcs /\ proc'.pc = "archive_manifest"
      /\ proc'.test = t /\ proc'.next = next /\ proc'.new = proc.new
  BY <1>1, <1>2 DEF ArchiveProcs
<1>6. e \in Entries /\ e.result = result[t] /\ e.manifest = Absent
  BY <1>3 DEF Entries, Unset
<1> HIDE DEF e, t, next
<1>7. Types'
  <2>1. ASSUME NEW u \in Tests, NEW n \in DOMAIN attempts'[u]
        PROVE  n \in 1 .. MaxAttempt /\ attempts'[u][n] \in Entries
    BY <1>2, <1>3, <1>4, <1>6 DEF Types
  <2> QED
    BY <1>1, <1>2, <1>4, <1>5, <2>1 DEF Types
<1>8. ASSUME NEW u \in Tests, NEW r, NEW m, Holds(attempts[u], r, m)
      PROVE  Holds(attempts'[u], r, m)
  BY <1>4, <1>8 DEF Holds
<1>9. StageInv'
  BY <1>1, <1>2, <1>5 DEF StageInv, InitPcs, Recording
<1>10. RecordedInv'
  BY <1>1, <1>2, <1>8 DEF RecordedInv, Archived
<1>11. ProcInv'
  BY <1>1, <1>2, <1>3, <1>4, <1>5, <1>6 DEF ProcInv, Recording, t
<1>12. HonestInv'
  <2>1. Readable(result[t]) /\ t = proc.test
    BY <1>3, ReadableIs DEF t
  <2> QED
    BY <1>1, <1>2, <1>3, <1>4, <1>5, <1>6, <2>1 DEF HonestInv, InitPcs
<1>13. SealInv'
  BY <1>1, <1>5 DEF CandidateInv, SealInv
<1> QED
  BY <1>7, <1>9, <1>10, <1>11, <1>12, <1>13 DEF CandidateInv

\* archive_prior_attempt, the second copy: the prior result has its manifest in the archive.
LEMMA ArchiveManifestKeeps ==
  ASSUME CandidateInv, archive_manifest
  PROVE  CandidateInv'
<1> DEFINE t == proc.test
           next == proc.next
<1>1. /\ UNCHANGED <<tree, source_iso, rootdir, bundle, sums, result, manifest, file, commands,
                     ledger, records, sealed, recorded, witnessed, spoiled>>
      /\ proc.pc = "archive_manifest" /\ proc' = [proc EXCEPT !.pc = "hash"]
      /\ attempts' = [attempts EXCEPT ![t][next].manifest = manifest[t]]
  BY DEF archive_manifest, budget, history
<1>2. Types /\ StageInv /\ RecordedInv /\ HonestInv /\ ProcInv /\ proc \in ArchiveProcs
  BY <1>1, ProcIs DEF CandidateInv
<1>3. /\ t \in Tests /\ next \in DOMAIN attempts[t]
      /\ result[t] \in TestResults /\ manifest[t] \in EvidenceManifests
      /\ attempts[t][next].result = result[t] /\ attempts[t][next].manifest = Absent
  BY <1>1, <1>2 DEF ArchiveProcs, ProcInv, Recording
<1> DEFINE e == [attempts[t][next] EXCEPT !.manifest = manifest[t]]
<1>4. e \in Entries /\ e.result = result[t] /\ e.manifest = manifest[t]
  BY <1>2, <1>3 DEF Types, Entries
<1>5. /\ DOMAIN attempts' = Tests
      /\ \A u \in Tests \ {t} : attempts'[u] = attempts[u]
      /\ DOMAIN attempts'[t] = DOMAIN attempts[t]
      /\ attempts'[t][next] = e
      /\ \A n \in DOMAIN attempts[t] \ {next} : attempts'[t][n] = attempts[t][n]
  BY <1>1, <1>2, <1>3 DEF Types
<1>6. /\ proc' \in ArchiveProcs /\ proc'.pc = "hash"
      /\ proc'.test = t /\ proc'.next = next /\ proc'.new = proc.new
  BY <1>1, <1>2 DEF ArchiveProcs
<1> HIDE DEF e, next
<1>7. Types'
  <2>1. ASSUME NEW u \in Tests, NEW n \in DOMAIN attempts'[u]
        PROVE  n \in 1 .. MaxAttempt /\ attempts'[u][n] \in Entries
    BY <1>2, <1>4, <1>5 DEF Types
  <2> HIDE DEF t
  <2> QED
    BY <1>1, <1>2, <1>5, <1>6, <2>1 DEF Types
<1>8. \A i \in DOMAIN witnessed : witnessed[i] # Absent
  BY <1>2, MarkersAssumption DEF Types
<1>9. ASSUME NEW u \in Tests, NEW r, NEW m, m # Absent, Holds(attempts[u], r, m)
      PROVE  Holds(attempts'[u], r, m)
  BY <1>3, <1>5, <1>9 DEF Holds
<1>10. Holds(attempts'[t], result[t], manifest[t])
  BY <1>3, <1>4, <1>5 DEF Holds
<1>11. StageInv'
  BY <1>1, <1>2, <1>6 DEF StageInv, InitPcs, Recording
<1>12. RecordedInv'
  BY <1>1, <1>2, <1>8, <1>9 DEF RecordedInv, Archived
<1>13. ProcInv'
  <2>1. result[t] \in recorded[t] /\ result[t].status # "not_run" =>
          Holds(attempts'[t], result[t], witnessed[result[t].id])
    <3> DEFINE r == result[t]
    <3> SUFFICES ASSUME r \in recorded[t], r.status # "not_run"
                 PROVE  Holds(attempts'[t], r, witnessed[r.id])
      OBVIOUS
    <3>1. /\ r.id \in DOMAIN witnessed
          /\ Holds(attempts[t], r, witnessed[r.id]) \/ manifest[t] = witnessed[r.id]
      BY <1>2, <1>3 DEF RecordedInv, Archived
    <3>2. witnessed[r.id] # Absent
      BY <1>8, <3>1
    <3> QED
      BY <1>3, <1>9, <1>10, <3>1, <3>2
  <2> QED
    BY <1>1, <1>2, <1>6, <2>1 DEF ProcInv, Recording, Archived, t
<1>14. HonestInv'
  <2>1. /\ Readable(result[t]) /\ Readable(manifest[t])
    BY <1>3, ReadableIs
  <2> SUFFICES ASSUME ~ spoiled
               PROVE  HonestInv'
    BY <1>1 DEF HonestInv
  <2>2. ASSUME NEW u \in Tests, NEW n \in DOMAIN attempts'[u]
        PROVE  /\ Readable(attempts'[u][n].result) /\ Readable(attempts'[u][n].manifest)
               /\ FitsFiles(attempts'[u][n].manifest, file[u], commands[u])
    <3>1. CASE u = t /\ n = next
      BY <1>2, <1>4, <1>5, <2>1, <3>1 DEF HonestInv
    <3>2. CASE ~ (u = t /\ n = next)
      <4>1. n \in DOMAIN attempts[u] /\ attempts'[u][n] = attempts[u][n]
        BY <1>3, <1>5, <3>2
      <4>2. ~ (proc.test = u /\ proc.next = n)
        BY <3>2 DEF next
      <4> QED
        BY <1>2, <4>1, <4>2 DEF HonestInv
    <3> QED
      BY <3>1, <3>2
  <2> QED
    BY <1>1, <1>2, <1>6, <2>2 DEF HonestInv, InitPcs
<1>15. SealInv'
  BY <1>1, <1>6 DEF CandidateInv, SealInv
<1> QED
  BY <1>7, <1>11, <1>12, <1>13, <1>14, <1>15 DEF CandidateInv

\* build_evidence_manifest hashes the evidence, or the command ends.
LEMMA HashKeeps ==
  ASSUME CandidateInv, hash_evidence
  PROVE  CandidateInv'
<1> USE CandidateAssumption
<1> DEFINE t == proc.test
           m == build_evidence_manifest(t, proc.new.refs)
<1>1. /\ UNCHANGED <<tree, source_iso, rootdir, bundle, sums, result, manifest, attempts, file,
                     commands, ledger, records, sealed, recorded, witnessed, spoiled>>
      /\ proc.pc = "hash"
      /\ IF manifest_buildable(t, proc.new.refs)
         THEN proc' = [pc |-> "write_manifest", test |-> t, new |-> proc.new, hashed |-> m]
         ELSE proc' = Idle
  BY DEF hash_evidence, budget, history, disk
<1>2. Types /\ StageInv /\ RecordedInv /\ HonestInv /\ ProcInv /\ SealInv /\ proc \in ArchiveProcs
  BY <1>1, ProcIs DEF CandidateInv
<1>3. t \in Tests /\ proc.new \in TestResults /\ proc.new.refs \subseteq Files
  BY <1>2 DEF ArchiveProcs, TestResults
<1>4. RecordedInv'
  BY <1>1, <1>2 DEF RecordedInv, Archived
<1>5. CASE ~ manifest_buildable(t, proc.new.refs)
  <2>1. proc' = Idle /\ proc'.pc = "idle"
    BY <1>1, <1>5 DEF Idle
  <2>2. Types'
    BY <1>1, <1>2, <2>1 DEF Types
  <2>3. StageInv' /\ ProcInv' /\ HonestInv' /\ SealInv'
    BY <1>1, <1>2, <2>1 DEF StageInv, ProcInv, HonestInv, SealInv, InitPcs, Recording
  <2> QED
    BY <1>4, <2>2, <2>3 DEF CandidateInv
<1>6. CASE manifest_buildable(t, proc.new.refs)
  <2> DEFINE D == proc.new.refs \cup command_refs(t)
  <2>1. D \subseteq Files
    <3>1. commands[t] \in Seq(Outputs) /\ Torn \notin Range(commands[t])
      BY <1>2, <1>3, <1>6 DEF Types, manifest_buildable, commands_parse
    <3>2. Range(commands[t]) \subseteq Outputs
      BY <3>1 DEF Range
    <3> QED
      BY <1>3, <3>1, <3>2 DEF command_refs, Outputs
  <2>2. /\ m.cmds = commands[t] /\ DOMAIN m.files = D
        /\ \A f \in D : m.files[f] = file[t][f]
    BY DEF build_evidence_manifest
  <2>3. \A f \in D : file[t][f] # 0 /\ file[t][f] \in Contents
    BY <1>2, <1>3, <1>6, <2>1 DEF manifest_buildable, resolve_existing_regular, Types
  <2>4. m \in EvidenceManifests
    <3>1. commands[t] \in Seq(Files \cup {NoRef, Torn})
      BY <1>2, <1>3 DEF Types, Outputs
    <3>2. \A f \in D : file[t][f] \in 1 .. MaxContent
      BY <2>3 DEF Contents
    <3>3. [f \in D |-> file[t][f]] \in [D -> 1 .. MaxContent]
      BY <3>2
    <3>4. [f \in D |-> file[t][f]] \in UNION {[E -> 1 .. MaxContent] : E \in SUBSET Files}
      <4> HIDE DEF D
      <4> QED
        BY <2>1, <3>3
    <3> QED
      BY <3>1, <3>4 DEF build_evidence_manifest, EvidenceManifests
  <2>5. FitsFiles(m, file[t], commands[t])
    <3>1. IsPrefix(commands[t], commands[t])
      BY DEF IsPrefix
    <3> QED
      BY <2>2, <2>3, <3>1 DEF FitsFiles
  <2> DEFINE p == [pc |-> "write_manifest", test |-> t, new |-> proc.new, hashed |-> m]
  <2>6. proc' = p
    BY <1>1, <1>6
  <2> HIDE DEF m
  <2>7. /\ p \in WriteProcs /\ p.pc = "write_manifest" /\ p.test = t /\ p.new = proc.new
        /\ p.hashed = m
    BY <1>3, <2>4 DEF WriteProcs
  <2> HIDE DEF p
  <2>8. Types'
    BY <1>1, <1>2, <2>6, <2>7 DEF Types
  <2>9. StageInv'
    BY <1>1, <1>2, <2>6, <2>7 DEF StageInv, InitPcs, Recording
  <2>10. ProcInv'
    <3>1. proc.new.refs \subseteq DOMAIN m.files
      BY <2>2
    <3> QED
      BY <1>1, <1>2, <2>6, <2>7, <3>1 DEF ProcInv, Recording, Archived
  <2>11. HonestInv'
    BY <1>1, <1>2, <2>5, <2>6, <2>7 DEF HonestInv, InitPcs
  <2>12. SealInv'
    BY <1>1, <1>2, <2>6, <2>7 DEF SealInv
  <2> QED
    BY <1>4, <2>8, <2>9, <2>10, <2>11, <2>12 DEF CandidateInv
<1> QED
  BY <1>5, <1>6

\* The new manifest replaces that of the prior result, which is archived.
LEMMA WriteManifestKeeps ==
  ASSUME CandidateInv, write_manifest
  PROVE  CandidateInv'
<1> DEFINE t == proc.test
           m == proc.hashed
<1>1. /\ UNCHANGED <<tree, source_iso, rootdir, bundle, sums, result, attempts, file, commands,
                     ledger, records, sealed, recorded, spoiled>>
      /\ proc.pc = "write_manifest" /\ proc' = [proc EXCEPT !.pc = "write_result"]
      /\ manifest' = [manifest EXCEPT ![t] = m]
      /\ witnessed' = [i \in DOMAIN witnessed \cup {proc.new.id} |->
                         IF i = proc.new.id THEN m ELSE witnessed[i]]
  BY DEF write_manifest, budget
<1>2. Types /\ StageInv /\ RecordedInv /\ HonestInv /\ ProcInv /\ proc \in WriteProcs
  BY <1>1, ProcIs DEF CandidateInv
<1>3. /\ t \in Tests /\ m \in EvidenceManifests /\ proc.new.id = records /\ records > 0
      /\ proc.new.refs \subseteq DOMAIN m.files
      /\ \A u \in Tests : \A r \in recorded[u] : r.id # records
      /\ result[t] \in TestResults
      /\ result[t] \in recorded[t] /\ result[t].status # "not_run" => Archived(t, result[t])
  BY <1>1, <1>2 DEF ProcInv, Recording, WriteProcs
<1>4. /\ proc' \in WriteProcs /\ proc'.pc = "write_result" /\ proc'.test = t /\ proc'.new = proc.new
      /\ proc'.hashed = m
  BY <1>1, <1>2 DEF WriteProcs
<1>5. /\ DOMAIN witnessed' = DOMAIN witnessed \cup {records} /\ witnessed'[records] = m
      /\ \A i \in DOMAIN witnessed : i # records => witnessed'[i] = witnessed[i]
  BY <1>1, <1>3
<1>6. /\ manifest' \in [Tests -> EvidenceManifests \cup Unset] /\ manifest'[t] = m
      /\ \A u \in Tests \ {t} : manifest'[u] = manifest[u]
  BY <1>1, <1>2, <1>3 DEF Types
<1> HIDE DEF t, m
<1>7. Types'
  BY <1>1, <1>2, <1>3, <1>4, <1>5, <1>6 DEF Types
<1>8. ASSUME NEW u \in Tests, NEW r \in recorded[u]
      PROVE  witnessed'[r.id] = witnessed[r.id] /\ r.id \in DOMAIN witnessed'
  BY <1>2, <1>3, <1>5 DEF RecordedInv
<1>9. StageInv'
  BY <1>1, <1>2, <1>4 DEF StageInv, InitPcs, Recording
<1>10. RecordedInv'
  <2> SUFFICES ASSUME NEW u \in Tests
               PROVE  /\ result[u] \in TestResults => result[u] = NotRun \/ result[u] \in recorded[u]
                      /\ \A r \in recorded[u] :
                           /\ r.id \in 1 .. records /\ r.id \in DOMAIN witnessed'
                           /\ r.refs \subseteq DOMAIN witnessed'[r.id].files
                           /\ r.status # "not_run" =>
                                \/ Holds(attempts[u], r, witnessed'[r.id])
                                \/ r = result[u] /\ manifest'[u] = witnessed'[r.id]
    BY <1>1 DEF RecordedInv, Archived
  <2>1. CASE u = t
    BY <1>2, <1>3, <1>8, <2>1 DEF RecordedInv, Archived
  <2>2. CASE u # t
    BY <1>2, <1>6, <1>8, <2>2 DEF RecordedInv, Archived
  <2> QED
    BY <2>1, <2>2
<1>11. ProcInv'
  <2>1. result[t] \in recorded[t] /\ result[t].status # "not_run" =>
          Holds(attempts[t], result[t], witnessed'[result[t].id])
    BY <1>3, <1>8 DEF Archived
  <2> QED
    BY <1>1, <1>3, <1>4, <1>5, <1>6, <2>1 DEF ProcInv, Recording, Archived
<1>12. HonestInv'
  <2>1. Readable(m) /\ t = proc.test /\ m = proc.hashed
    BY <1>3, ReadableIs DEF t, m
  <2> QED
    BY <1>1, <1>2, <1>3, <1>4, <1>6, <2>1 DEF HonestInv, InitPcs
<1>13. SealInv'
  BY <1>1, <1>4 DEF CandidateInv, SealInv
<1> QED
  BY <1>7, <1>9, <1>10, <1>11, <1>12, <1>13 DEF CandidateInv

\* The new result replaces the prior one, which is archived.
LEMMA WriteResultKeeps ==
  ASSUME CandidateInv, write_result
  PROVE  CandidateInv'
<1> DEFINE t == proc.test
           new == proc.new
<1>1. /\ UNCHANGED <<tree, source_iso, rootdir, bundle, sums, manifest, attempts, file, commands,
                     ledger, records, sealed, witnessed, spoiled>>
      /\ proc.pc = "write_result" /\ proc' = Idle
      /\ result' = [result EXCEPT ![t] = new]
      /\ recorded' = [recorded EXCEPT ![t] = recorded[t] \cup {new}]
  BY DEF write_result, budget
<1>2. Types /\ StageInv /\ RecordedInv /\ HonestInv /\ ProcInv /\ proc \in WriteProcs
  BY <1>1, ProcIs DEF CandidateInv
<1>3. /\ t \in Tests /\ new \in TestResults /\ new.id = records /\ records \in 1 .. records
      /\ records \in DOMAIN witnessed /\ witnessed[records] = manifest[t]
      /\ new.refs \subseteq DOMAIN manifest[t].files /\ manifest[t] \in EvidenceManifests
      /\ \A u \in Tests : \A r \in recorded[u] : r.id # records
      /\ result[t] \in recorded[t] /\ result[t].status # "not_run" => Archived(t, result[t])
  BY <1>1, <1>2 DEF ProcInv, Recording, WriteProcs, Types
<1>4. /\ result' \in [Tests -> TestResults \cup Unset] /\ result'[t] = new
      /\ \A u \in Tests \ {t} : result'[u] = result[u]
      /\ recorded' \in [Tests -> SUBSET TestResults] /\ recorded'[t] = recorded[t] \cup {new}
      /\ \A u \in Tests \ {t} : recorded'[u] = recorded[u]
  BY <1>1, <1>2, <1>3 DEF Types
<1>5. proc'.pc = "idle" /\ rootdir
  BY <1>1, <1>2 DEF Idle, StageInv, Recording
<1> HIDE DEF t, new
<1>6. Types'
  BY <1>1, <1>2, <1>4 DEF Types
<1>7. Readable(new) /\ Readable(manifest[t]) /\ new # Absent /\ new # Torn
  BY <1>3, ReadableIs, MarkersAssumption
<1>8. StageInv'
  BY <1>1, <1>2, <1>4, <1>5, <1>7 DEF StageInv, InitPcs, Recording
<1>9. RecordedInv'
  <2> SUFFICES ASSUME NEW u \in Tests
               PROVE  /\ result'[u] \in TestResults => result'[u] = NotRun \/ result'[u] \in recorded'[u]
                      /\ \A r \in recorded'[u] :
                           /\ r.id \in 1 .. records /\ r.id \in DOMAIN witnessed
                           /\ r.refs \subseteq DOMAIN witnessed[r.id].files
                           /\ r.status # "not_run" =>
                                \/ Holds(attempts[u], r, witnessed[r.id])
                                \/ r = result'[u] /\ manifest[u] = witnessed[r.id]
    BY <1>1 DEF RecordedInv, Archived
  <2>1. CASE u = t
    BY <1>2, <1>3, <1>4, <2>1 DEF RecordedInv, Archived
  <2>2. CASE u # t
    BY <1>2, <1>4, <2>2 DEF RecordedInv, Archived
  <2> QED
    BY <2>1, <2>2
<1>10. ProcInv'
  BY <1>5 DEF ProcInv, Recording
<1>11. HonestInv'
  BY <1>1, <1>2, <1>4, <1>5, <1>7 DEF HonestInv, InitPcs
<1>12. SealInv'
  BY <1>1, <1>5 DEF CandidateInv, SealInv
<1> QED
  BY <1>6, <1>8, <1>9, <1>10, <1>11, <1>12 DEF CandidateInv

(***************************************************************************)
(* The environment.                                                        *)
(***************************************************************************)
\* The operator edits an evidence file: unless it was hashed, all that was hashed fits.
LEMMA EditKeeps ==
  ASSUME CandidateInv, NEW t \in Tests, NEW f \in Files, NEW c \in Contents, EditEvidence(t, f, c)
  PROVE  CandidateInv'
<1>1. /\ UNCHANGED <<tree, source_iso, rootdir, bundle, sums, result, manifest, attempts, commands,
                     ledger, proc, records, sealed, recorded, witnessed>>
      /\ file' = [file EXCEPT ![t][f] = c] /\ spoiled' = (spoiled \/ Hashed(t, f))
  BY DEF EditEvidence
<1>2. Types /\ HonestInv
  BY DEF CandidateInv
<1>3. /\ file' \in [Tests -> [Files -> Contents]]
      /\ \A u \in Tests : \A g \in Files : ~ (u = t /\ g = f) => file'[u][g] = file[u][g]
      /\ \A u \in Tests \ {t} : file'[u] = file[u]
  BY <1>1, <1>2 DEF Types
<1>4. Types'
  BY <1>1, <1>2, <1>3, Zenon DEF Types
<1>5. StageInv' /\ RecordedInv' /\ ProcInv' /\ SealInv'
  BY <1>1 DEF CandidateInv, StageInv, RecordedInv, Archived, ProcInv, SealInv
<1>6. CASE spoiled'
  BY <1>4, <1>5, <1>6 DEF CandidateInv, HonestInv
<1>7. CASE ~ spoiled'
  <2>1. ~ spoiled /\ ~ Hashed(t, f)
    BY <1>1, <1>7
  <2>2. ASSUME NEW u \in Tests, NEW m \in EvidenceManifests, FitsFiles(m, file[u], commands[u]),
               u = t => f \notin DOMAIN m.files
        PROVE  FitsFiles(m, file'[u], commands[u])
    <3>1. \A g \in DOMAIN m.files : g \in Files
      <4>1. PICK D \in SUBSET Files : m.files \in [D -> 1 .. MaxContent]
        BY DEF EvidenceManifests
      <4> QED
        BY <4>1
    <3>2. \A g \in DOMAIN m.files : file'[u][g] = file[u][g]
      BY <1>3, <2>2, <3>1
    <3> QED
      BY <2>2, <3>2 DEF FitsFiles
  <2>3. \A u \in Tests : Readable(manifest[u]) =>
          manifest[u] \in EvidenceManifests /\ (u = t => f \notin DOMAIN manifest[u].files)
    BY <1>2, <2>1, ReadableIs DEF Types, Hashed
  <2>4. \A u \in Tests : \A n \in DOMAIN attempts[u] : Readable(attempts[u][n].manifest) =>
          /\ attempts[u][n].manifest \in EvidenceManifests
          /\ u = t => f \notin DOMAIN attempts[u][n].manifest.files
    BY <1>2, <2>1, ReadableIs DEF Types, Entries, Hashed
  <2>5. \A u \in Tests : proc.pc = "write_manifest" /\ proc.test = u =>
          /\ proc.hashed \in EvidenceManifests
          /\ u = t => f \notin DOMAIN proc.hashed.files
    BY <1>2, <2>1, ProcIs DEF WriteProcs, Hashed
  <2>6. HonestInv'
    BY <1>1, <1>2, <2>1, <2>2, <2>3, <2>4, <2>5 DEF HonestInv
  <2> QED
    BY <1>4, <1>5, <2>6 DEF CandidateInv
<1> QED
  BY <1>6, <1>7

\* A killed command leaves no process; what it left on disk must keep the records.
LEMMA CrashStep ==
  ASSUME CandidateInv, proc' = Idle, spoiled' = TRUE,
         UNCHANGED <<rootdir, sums, sealed, recorded, witnessed, records>>,
         RecordedInv', Types', \A t \in Tests : result'[t] = Absent <=> ~ rootdir,
         ~ rootdir => UNCHANGED <<attempts, manifest>>
  PROVE  CandidateInv'
<1>1. proc'.pc = "idle"
  BY DEF Idle
<1>2. StageInv' /\ ProcInv' /\ HonestInv' /\ SealInv'
  BY <1>1 DEF CandidateInv, StageInv, ProcInv, HonestInv, SealInv, InitPcs, Recording
<1> QED
  BY <1>2 DEF CandidateInv

\* A command is killed between two writes or inside one.
LEMMA CrashKeeps ==
  ASSUME CandidateInv, Crash
  PROVE  CandidateInv'
<1> DEFINE t == proc.test
           next == proc.next
<1>1. /\ UNCHANGED <<tree, source_iso, records, sealed, recorded, witnessed>>
      /\ proc' = Idle /\ spoiled' = TRUE
  BY DEF Crash
<1>2. Types /\ StageInv /\ RecordedInv /\ ProcInv
  BY DEF CandidateInv
<1>3. \A u \in Tests : \A r \in recorded[u] :
        r.id \in DOMAIN witnessed /\ witnessed[r.id] # Absent /\ witnessed[r.id] # Torn
  BY <1>2, MarkersAssumption DEF RecordedInv, Types
<1>4. CASE UNCHANGED disk
  <2>1. UNCHANGED <<rootdir, bundle, sums, result, manifest, attempts, file, commands, ledger>>
    BY <1>4 DEF disk
  <2>2. Types'
    BY <1>1, <1>2, <2>1 DEF Types
  <2>3. RecordedInv'
    BY <1>1, <1>2, <2>1 DEF RecordedInv, Archived
  <2>4. \A u \in Tests : result'[u] = Absent <=> ~ rootdir
    BY <1>2, <2>1 DEF StageInv
  <2> QED
    BY <1>1, <2>1, <2>2, <2>3, <2>4, CrashStep
<1>5. CASE /\ proc.pc = "archive_result" /\ next \notin DOMAIN attempts[t]
           /\ attempts' = [attempts EXCEPT ![t] =
                [n \in DOMAIN attempts[t] \cup {next} |->
                   IF n = next THEN [result |-> Torn, manifest |-> Absent] ELSE attempts[t][n]]]
           /\ UNCHANGED <<rootdir, bundle, sums, result, manifest, file, commands, ledger>>
  <2>1. t \in Tests /\ next \in 1 .. MaxAttempt /\ rootdir
    BY <1>2, <1>5, ProcIs DEF ArchiveProcs, ProcInv, StageInv, Recording
  <2>2. /\ DOMAIN attempts' = Tests
        /\ \A u \in Tests \ {t} : attempts'[u] = attempts[u]
        /\ DOMAIN attempts'[t] = DOMAIN attempts[t] \cup {next}
        /\ attempts'[t][next] = [result |-> Torn, manifest |-> Absent]
        /\ \A n \in DOMAIN attempts[t] : attempts'[t][n] = attempts[t][n]
    BY <1>2, <1>5, <2>1 DEF Types
  <2>3. [result |-> Torn, manifest |-> Absent] \in Entries
    BY DEF Entries, Unset
  <2> HIDE DEF t, next
  <2>4. Types'
    <3>1. ASSUME NEW u \in Tests, NEW n \in DOMAIN attempts'[u]
          PROVE  n \in 1 .. MaxAttempt /\ attempts'[u][n] \in Entries
      BY <1>2, <2>1, <2>2, <2>3 DEF Types
    <3> QED
      BY <1>1, <1>2, <1>5, <2>2, <3>1 DEF Types
  <2>5. RecordedInv'
    <3>1. ASSUME NEW u \in Tests, NEW r, NEW m, Holds(attempts[u], r, m)
          PROVE  Holds(attempts'[u], r, m)
      BY <2>2, <3>1 DEF Holds
    <3> QED
      BY <1>1, <1>2, <1>5, <3>1 DEF RecordedInv, Archived
  <2>6. \A u \in Tests : result'[u] = Absent <=> ~ rootdir
    BY <1>2, <1>5 DEF StageInv
  <2> QED
    BY <1>1, <1>5, <2>1, <2>4, <2>5, <2>6, CrashStep
<1>6. CASE /\ proc.pc = "archive_manifest"
           /\ attempts' = [attempts EXCEPT ![t][next].manifest = Torn]
           /\ UNCHANGED <<rootdir, bundle, sums, result, manifest, file, commands, ledger>>
  <2>1. /\ t \in Tests /\ next \in DOMAIN attempts[t] /\ rootdir
        /\ attempts[t][next].manifest = Absent
    BY <1>2, <1>6, ProcIs DEF ArchiveProcs, ProcInv, StageInv, Recording
  <2> DEFINE e == [attempts[t][next] EXCEPT !.manifest = Torn]
  <2>2. e \in Entries
    <3>1. attempts[t][next] \in Entries /\ Torn \in Unset
      BY <1>2, <2>1 DEF Types, Unset
    <3> QED
      BY <3>1 DEF Entries
  <2>3. /\ DOMAIN attempts' = Tests
        /\ \A u \in Tests \ {t} : attempts'[u] = attempts[u]
        /\ DOMAIN attempts'[t] = DOMAIN attempts[t]
        /\ attempts'[t][next] = e
        /\ \A n \in DOMAIN attempts[t] \ {next} : attempts'[t][n] = attempts[t][n]
    BY <1>2, <1>6, <2>1 DEF Types
  <2> HIDE DEF e, t, next
  <2>4. Types'
    <3>1. ASSUME NEW u \in Tests, NEW n \in DOMAIN attempts'[u]
          PROVE  n \in 1 .. MaxAttempt /\ attempts'[u][n] \in Entries
      BY <1>2, <2>1, <2>2, <2>3 DEF Types
    <3> QED
      BY <1>1, <1>2, <1>6, <2>3, <3>1 DEF Types
  <2>5. RecordedInv'
    <3>1. ASSUME NEW u \in Tests, NEW r, NEW m, m # Absent, Holds(attempts[u], r, m)
          PROVE  Holds(attempts'[u], r, m)
      BY <2>1, <2>3, <3>1 DEF Holds
    <3> QED
      BY <1>1, <1>2, <1>3, <1>6, <3>1 DEF RecordedInv, Archived
  <2>6. \A u \in Tests : result'[u] = Absent <=> ~ rootdir
    BY <1>2, <1>6 DEF StageInv
  <2> QED
    BY <1>1, <1>6, <2>1, <2>4, <2>5, <2>6, CrashStep
<1>7. CASE /\ proc.pc = "write_manifest"
           /\ manifest' = [manifest EXCEPT ![t] = Torn]
           /\ UNCHANGED <<rootdir, bundle, sums, result, attempts, file, commands, ledger>>
  <2>1. /\ t \in Tests /\ rootdir
        /\ result[t] \in recorded[t] /\ result[t].status # "not_run" => Archived(t, result[t])
    BY <1>2, <1>7, ProcIs DEF WriteProcs, ProcInv, StageInv, Recording
  <2>2. /\ manifest' \in [Tests -> EvidenceManifests \cup Unset]
        /\ \A u \in Tests \ {t} : manifest'[u] = manifest[u]
    BY <1>2, <1>7, <2>1 DEF Types, Unset
  <2> HIDE DEF t
  <2>3. Types'
    BY <1>1, <1>2, <1>7, <2>2 DEF Types
  <2>4. RecordedInv'
    <3> SUFFICES ASSUME NEW u \in Tests, NEW r \in recorded[u], r.status # "not_run"
                 PROVE  Holds(attempts[u], r, witnessed[r.id])
                        \/ (r = result[u] /\ manifest'[u] = witnessed[r.id])
      BY <1>1, <1>2, <1>7 DEF RecordedInv, Archived
    <3>1. CASE u = t
      BY <1>2, <2>1, <3>1 DEF RecordedInv, Archived
    <3>2. CASE u # t
      BY <1>2, <2>2, <3>2 DEF RecordedInv, Archived
    <3> QED
      BY <3>1, <3>2
  <2>5. \A u \in Tests : result'[u] = Absent <=> ~ rootdir
    BY <1>2, <1>7 DEF StageInv
  <2> QED
    BY <1>1, <1>7, <2>1, <2>3, <2>4, <2>5, CrashStep
<1>8. CASE /\ proc.pc = "write_result"
           /\ result' = [result EXCEPT ![t] = Torn]
           /\ UNCHANGED <<rootdir, bundle, sums, manifest, attempts, file, commands, ledger>>
  <2>1. /\ t \in Tests /\ rootdir
        /\ result[t] \in recorded[t] /\ result[t].status # "not_run" => Archived(t, result[t])
    BY <1>2, <1>8, ProcIs DEF WriteProcs, ProcInv, StageInv, Recording
  <2>2. /\ result' \in [Tests -> TestResults \cup Unset] /\ result'[t] = Torn
        /\ \A u \in Tests \ {t} : result'[u] = result[u]
    BY <1>2, <1>8, <2>1 DEF Types, Unset
  <2>3. Torn \notin TestResults /\ Torn # Absent
    BY MarkersAssumption
  <2> HIDE DEF t
  <2>4. Types'
    BY <1>1, <1>2, <1>8, <2>2 DEF Types
  <2>5. RecordedInv'
    <3> SUFFICES ASSUME NEW u \in Tests
                 PROVE  /\ result'[u] \in TestResults => result'[u] = NotRun \/ result'[u] \in recorded[u]
                        /\ \A r \in recorded[u] :
                             r.status # "not_run" =>
                               \/ Holds(attempts[u], r, witnessed[r.id])
                               \/ r = result'[u] /\ manifest[u] = witnessed[r.id]
      BY <1>1, <1>2, <1>8 DEF RecordedInv, Archived
    <3>1. CASE u = t
      BY <1>2, <2>1, <2>2, <2>3, <3>1 DEF RecordedInv, Archived
    <3>2. CASE u # t
      BY <1>2, <2>2, <3>2 DEF RecordedInv, Archived
    <3> QED
      BY <3>1, <3>2
  <2>6. \A u \in Tests : result'[u] = Absent <=> ~ rootdir
    BY <1>2, <2>1, <2>2, <2>3 DEF StageInv
  <2> QED
    BY <1>1, <1>8, <2>1, <2>4, <2>5, <2>6, CrashStep
<1> QED
  BY <1>4, <1>5, <1>6, <1>7, <1>8 DEF Crash

\* A command of one write is killed inside it.
LEMMA CrashSingleWriteKeeps ==
  ASSUME CandidateInv, CrashSingleWrite
  PROVE  CandidateInv'
<1>1. /\ UNCHANGED <<tree, source_iso, rootdir, bundle, sums, result, manifest, attempts, file,
                     ledger, proc, records, sealed, recorded, witnessed>>
      /\ spoiled' = TRUE /\ proc = Idle
  BY DEF CrashSingleWrite
<1>2. Types
  BY DEF CandidateInv
<1>3. commands' \in [Tests -> Seq(Outputs)]
  <2>1. CASE UNCHANGED commands
    BY <1>2, <2>1 DEF Types
  <2>2. ASSUME NEW t \in Tests, commands' = [commands EXCEPT ![t] = Append(commands[t], Torn)]
        PROVE  commands' \in [Tests -> Seq(Outputs)]
    <3>1. commands[t] \in Seq(Outputs) /\ Torn \in Outputs
      BY <1>2 DEF Types, Outputs
    <3>2. Append(commands[t], Torn) \in Seq(Outputs)
      BY <3>1
    <3> QED
      BY <1>2, <2>2, <3>2 DEF Types
  <2> QED
    BY <2>1, <2>2 DEF CrashSingleWrite
<1>4. Types'
  BY <1>1, <1>2, <1>3 DEF Types
<1>5. StageInv' /\ RecordedInv' /\ ProcInv' /\ SealInv' /\ HonestInv'
  BY <1>1 DEF CandidateInv, StageInv, RecordedInv, Archived, ProcInv, SealInv, HonestInv
<1> QED
  BY <1>4, <1>5 DEF CandidateInv

(***************************************************************************)
(* Every step.                                                             *)
(***************************************************************************)
\* Every action preserves the invariant.
LEMMA NextKeeps == CandidateInv /\ [Next]_vars => CandidateInv'
<1> SUFFICES ASSUME CandidateInv, [Next]_vars
             PROVE  CandidateInv'
  OBVIOUS
<1>1. CASE UNCHANGED vars
  <2>1. UNCHANGED <<tree, source_iso, rootdir, bundle, sums, result, manifest, attempts, file,
                    commands, ledger, proc, records, sealed, recorded, witnessed, spoiled>>
    BY <1>1 DEF vars, disk, budget, history
  <2>2. Types'
    BY <2>1 DEF CandidateInv, Types
  <2> QED
    BY <2>1, <2>2, PartsKept DEF CandidateInv
<1>2. CASE \/ candidate_init \/ materialize_validation_harness \/ copy_bundle \/ seal_bundle
           \/ initial_report \/ verify_fresh \/ init_fails
  BY <1>2, CandidateInitKeeps, MaterializeKeeps, CopyKeeps, SealKeeps, InitialReportKeeps,
     VerifyFreshKeeps, InitFailsKeeps
<1>3. CASE \E t \in Tests, ref \in Files \cup {NoRef} : append_validation_command(t, ref)
  BY <1>3, AppendKeeps
<1>4. CASE \E t \in Tests, r \in Submissions : record_validation_result(t, r)
  BY <1>4, RecordKeeps
<1>5. CASE archive_result \/ archive_manifest \/ hash_evidence \/ write_manifest \/ write_result
  BY <1>5, ArchiveResultKeeps, ArchiveManifestKeeps, HashKeeps, WriteManifestKeeps,
     WriteResultKeeps
<1>6. CASE \E forbidden \in BOOLEAN : record_redaction_ledger(forbidden)
  BY <1>6, LedgerKeeps
<1>7. CASE \E given \in SUBSET Groups : aggregate_validation_report(given)
  BY <1>7, ReportKeeps
<1>8. CASE \E t \in Tests, f \in Files, c \in Contents : EditEvidence(t, f, c)
  BY <1>8, EditKeeps
<1>9. CASE Supply \/ Swap \/ Crash \/ CrashSingleWrite
  BY <1>9, SupplyKeeps, SwapKeeps, CrashKeeps, CrashSingleWriteKeeps
<1> QED
  BY <1>1, <1>2, <1>3, <1>4, <1>5, <1>6, <1>7, <1>8, <1>9 DEF Next

\* The commands of portus-build stay within the invariant (candidate.rs, validation.rs).
THEOREM CandidateInvariant == Spec => []CandidateInv
  BY InitialInv, NextKeeps, PTL DEF Spec

\* A candidate that candidate-verify accepts is the bundle that was sealed, and each of its
\* tests has a recorded pass whose evidence is the evidence hashed for it; candidate-init
\* leaves a verified candidate or none (verify_candidate_bundle, initialize_candidate_to).
THEOREM CandidateIsAlwaysReal == Spec => []CandidateIsReal
<1>1. CandidateInv => CandidateIsReal
  BY AcceptedHolds, InitHolds DEF CandidateIsReal
<1> QED
  BY <1>1, CandidateInvariant, PTL

\* No recorded outcome is ever lost, and what was recorded honestly keeps verifying
\* (record_validation_result, archive_prior_attempt, verify_archived_attempts).
THEOREM HistoryAlwaysHolds == Spec => []HistoryHolds
<1>1. CandidateInv => HistoryHolds
  BY TypesHold, HistoryIsKept, HonestyVerifies DEF HistoryHolds
<1> QED
  BY <1>1, CandidateInvariant, PTL

(***************************************************************************)
(* The commands that plan an image.  The order in which a command reads the*)
(* documents matters: what a document is compared with was read before it. *)
(* The invariant has a part for what was read and accepted (ReadInv), for  *)
(* how the command ended (EndInv) and for the hashes of destructive plans  *)
(* (HashInv).                                                              *)
(***************************************************************************)
LEMMA ContractLines ==
  ASSUME NEW n \in 1 .. 17
  PROVE  /\ validate_w6[n] = <<"contract", contract_documents[n]>>
         /\ contract_documents[n] \in Documents
  BY DEF validate_w6, contract_documents, Documents, PlainDocuments, Components

LEMMA ContractLineIs ==
  ASSUME NEW n \in 1 .. 17
  PROVE  /\ contract_documents[2] = "packages" /\ contract_documents[10] = "services"
         /\ contract_documents[17] = "lock"
         /\ contract_documents[n] = "lock" => n = 17
         /\ contract_documents[n] = "services" => n = 10
         /\ \A m \in 1 .. 17 : contract_documents[n] = contract_documents[m] => n = m
  BY DEF contract_documents

LEMMA ContractDocsRead ==
  ASSUME NEW d \in Components \cup {"packages", "services", "calamares", "iso", "install", "lock"}
  PROVE  \E n \in 1 .. 17 : contract_documents[n] = d
  BY DEF contract_documents, Components

LEMMA W6Lines ==
  /\ validate_w6[18] = <<"hash", "packages">> /\ validate_w6[19] = <<"w6", "layout">>
  /\ validate_w6[20] = <<"w6", "artools">> /\ validate_w6[21] = <<"profile", "profile">>
  /\ validate_w6[22] = <<"profile", "common">> /\ validate_w6[23] = <<"profile", "packages">>
  /\ validate_w6[24] = <<"profile", "services">> /\ validate_w6[25] = <<"w6", "responsibilities">>
  BY DEF validate_w6, adapter_reads

LEMMA OwnLines ==
  ASSUME NEW op \in DOMAIN Commands
  PROVE  /\ Len(Commands[op]) \in Nat
         /\ \A n \in 1 .. Len(Commands[op]) :
              Commands[op][n][1] \in {"stat", "command"} /\ Commands[op][n] \in Reads
         /\ \A n, m \in 1 .. Len(Commands[op]) : Commands[op][n] = Commands[op][m] => n = m
         /\ \A n \in 1 .. Len(Commands[op]) : Commands[op][n] = <<"command", "vms">> => op = "plan"
<1> USE DEF Reads, Readers, Documents, PlainDocuments, Components
<1>1. CASE op = "plan"
  <2> DEFINE own == <<<<"command", "packages">>, <<"command", "storage">>, <<"command", "vms">>,
              <<"command", "services">>, <<"command", "identities">>,
              <<"command", "responsibilities">>, <<"command", "artools">>>>
  <2>1. Commands[op] = own /\ Len(own) = 7  BY <1>1 DEF Commands
  <2>2. /\ \A n \in 1 .. 7 : own[n][1] \in {"stat", "command"} /\ own[n] \in Reads
        /\ \A n, m \in 1 .. 7 : own[n] = own[m] => n = m
    OBVIOUS
  <2> QED BY <1>1, <2>1, <2>2
<1>2. CASE op = "metadata"  BY <1>2 DEF Commands
<1>3. CASE op \in {"stage", "render", "tests", "gate"}  BY <1>3 DEF Commands
<1>4. CASE op = "validate"  BY <1>4 DEF Commands
<1> QED BY <1>1, <1>2, <1>3, <1>4 DEF Commands

\* Where the documents others are compared with are read, and that no line repeats.
LEMMA LinesOfCommands ==
  ASSUME NEW op \in DOMAIN Commands, NEW n \in 1 .. Lines(op)
  PROVE  /\ LineOf(op, n) \in Reads
         /\ LineOf(op, n)[1] = "contract" => n <= 17
         /\ LineOf(op, n) = <<"contract", "services">> => n = 10
         /\ LineOf(op, n) = <<"contract", "lock">> => n = 17
         /\ LineOf(op, n)[1] = "hash" => n = 18
         /\ LineOf(op, n) = <<"profile", "services">> => n = 24
         /\ LineOf(op, n) = <<"command", "vms">> => op = "plan" /\ n = 28
         /\ \A m \in 1 .. Lines(op) : LineOf(op, n) = LineOf(op, m) => n = m
<1> DEFINE Adapters == {18, 19, 20, 21, 22, 23, 24, 25}
<1>1. /\ Len(Commands[op]) \in Nat /\ Lines(op) = 25 + Len(Commands[op])
      /\ Lines(op) \in Nat /\ n \in Nat /\ 1 <= n /\ n <= Lines(op)
  BY OwnLines DEF Lines
<1>2. \A m \in 1 .. 25 : LineOf(op, m) = validate_w6[m]  BY DEF LineOf
<1>3. ASSUME NEW m \in 1 .. 17  PROVE LineOf(op, m) = <<"contract", contract_documents[m]>>
  <2>1. m \in 1 .. 25  OBVIOUS
  <2> QED BY <1>2, <2>1, ContractLines
<1>4. /\ LineOf(op, 18) = <<"hash", "packages">> /\ LineOf(op, 19) = <<"w6", "layout">>
      /\ LineOf(op, 20) = <<"w6", "artools">> /\ LineOf(op, 21) = <<"profile", "profile">>
      /\ LineOf(op, 22) = <<"profile", "common">> /\ LineOf(op, 23) = <<"profile", "packages">>
      /\ LineOf(op, 24) = <<"profile", "services">> /\ LineOf(op, 25) = <<"w6", "responsibilities">>
  BY <1>2, W6Lines
<1>5. ASSUME NEW m \in 26 .. Lines(op)
      PROVE  /\ LineOf(op, m) = Commands[op][m - 25] /\ m - 25 \in 1 .. Len(Commands[op])
             /\ LineOf(op, m) \in Reads /\ LineOf(op, m)[1] \in {"stat", "command"}
  <2>1. m \in Int /\ 26 <= m /\ m <= 25 + Len(Commands[op])  BY <1>1
  <2>2. LineOf(op, m) = Commands[op][m - 25] /\ m - 25 \in 1 .. Len(Commands[op])
    BY <1>1, <2>1 DEF LineOf
  <2> QED BY <2>2, OwnLines
<1>6. ASSUME NEW m \in 1 .. Lines(op)
      PROVE  m \in 1 .. 17 \/ m \in Adapters \/ m \in 26 .. Lines(op)
  BY <1>1
<1>7. ASSUME NEW m \in 1 .. Lines(op)
      PROVE  /\ m \in 1 .. 17 <=> LineOf(op, m)[1] = "contract"
             /\ m = 18 <=> LineOf(op, m)[1] = "hash"
             /\ m \in Adapters <=> LineOf(op, m)[1] \in {"hash", "w6", "profile"}
             /\ m \in 26 .. Lines(op) <=> LineOf(op, m)[1] \in {"stat", "command"}
  <2>1. CASE m \in 1 .. 17  BY <1>3, <2>1
  <2>2. CASE m \in Adapters
    <3>1. CASE m = 18  BY <1>4, <3>1
    <3>2. CASE m \in {19, 20, 25}  BY <1>4, <3>2
    <3>3. CASE m \in {21, 22, 23, 24}  BY <1>4, <3>3
    <3> QED BY <2>2, <3>1, <3>2, <3>3
  <2>3. CASE m \in 26 .. Lines(op)
    <3>1. m \notin 1 .. 17 /\ m \notin Adapters /\ m # 18  BY <1>1, <2>3
    <3>2. LineOf(op, m)[1] \in {"stat", "command"}  BY <1>5, <2>3
    <3> HIDE DEF Adapters
    <3> QED BY <2>3, <3>1, <3>2
  <2> QED BY <1>6, <2>1, <2>2, <2>3
<1>8. LineOf(op, n) \in Reads
  <2>1. CASE n \in 1 .. 17  BY <1>3, <2>1, ContractLines DEF Reads, Readers
  <2>2. CASE n \in Adapters  BY <1>4, <2>2 DEF Reads, Readers, Documents, PlainDocuments
  <2> QED BY <1>5, <1>6, <2>1, <2>2
<1>9. ASSUME NEW m \in 1 .. Lines(op), LineOf(op, n) = LineOf(op, m)  PROVE n = m
  <2>1. CASE n \in 1 .. 17
    <3>1. m \in 1 .. 17  BY <1>7, <1>9, <2>1
    <3>2. contract_documents[n] = contract_documents[m]  BY <1>3, <1>9, <2>1, <3>1
    <3> QED BY <2>1, <3>1, <3>2, ContractLineIs
  <2>2. CASE n \in Adapters
    <3>1. m \in Adapters  BY <1>7, <1>9, <2>2
    <3>2. CASE n = 18  BY <1>7, <1>9, <3>2
    <3>3. CASE n \in {19, 20, 25}
      <4>1. LineOf(op, m)[1] = "w6"  BY <1>4, <1>9, <3>3
      <4>2. m \in {19, 20, 25}  BY <1>4, <3>1, <4>1
      <4> QED BY <1>4, <1>9, <3>3, <4>2
    <3>4. CASE n \in {21, 22, 23, 24}
      <4>1. LineOf(op, m)[1] = "profile"  BY <1>4, <1>9, <3>4
      <4>2. m \in {21, 22, 23, 24}  BY <1>4, <3>1, <4>1
      <4>3. LineOf(op, n)[2] = LineOf(op, m)[2]  BY <1>9
      <4> QED BY <1>4, <3>4, <4>2, <4>3
    <3> QED BY <2>2, <3>2, <3>3, <3>4
  <2>3. CASE n \in 26 .. Lines(op)
    <3>1. m \in 26 .. Lines(op)  BY <1>7, <1>9, <2>3
    <3>2. Commands[op][n - 25] = Commands[op][m - 25]  BY <1>5, <1>9, <2>3, <3>1
    <3>3. n - 25 \in 1 .. Len(Commands[op]) /\ m - 25 \in 1 .. Len(Commands[op])
      BY <1>5, <2>3, <3>1
    <3>4. n - 25 = m - 25  BY <3>2, <3>3, OwnLines
    <3> QED BY <2>3, <3>1, <3>4
  <2> QED BY <1>6, <2>1, <2>2, <2>3
<1>10. LineOf(op, n)[1] = "contract" => n <= 17  BY <1>7
<1>11. /\ LineOf(op, n) = <<"contract", "services">> => n = 10
       /\ LineOf(op, n) = <<"contract", "lock">> => n = 17
       /\ LineOf(op, n) = <<"profile", "services">> => n = 24
  <2>1. /\ LineOf(op, 10) = <<"contract", "services">> /\ LineOf(op, 17) = <<"contract", "lock">>
        /\ LineOf(op, 24) = <<"profile", "services">>
    BY <1>3, <1>4, ContractLineIs
  <2>2. 10 \in 1 .. Lines(op) /\ 17 \in 1 .. Lines(op) /\ 24 \in 1 .. Lines(op)  BY <1>1
  <2>3. LineOf(op, n) = <<"contract", "services">> => n = 10  BY <1>9, <2>1, <2>2, Zenon
  <2>4. LineOf(op, n) = <<"contract", "lock">> => n = 17  BY <1>9, <2>1, <2>2, Zenon
  <2>5. LineOf(op, n) = <<"profile", "services">> => n = 24  BY <1>9, <2>1, <2>2, Zenon
  <2> QED BY <2>3, <2>4, <2>5
<1>12. LineOf(op, n) = <<"command", "vms">> => op = "plan" /\ n = 28
  <2> SUFFICES ASSUME LineOf(op, n) = <<"command", "vms">>  PROVE op = "plan" /\ n = 28  OBVIOUS
  <2>3. n \in 26 .. Lines(op)  BY <1>7
  <2>4. op = "plan"  BY <1>5, <2>3, OwnLines
  <2>1. Len(Commands[op]) = 7 /\ Commands[op][3] = <<"command", "vms">>  BY <2>4 DEF Commands
  <2>2. LineOf(op, 28) = <<"command", "vms">> /\ 28 \in 1 .. Lines(op)  BY <1>1, <1>5, <2>1
  <2> QED BY <1>9, <2>2, <2>4
<1> QED BY <1>7, <1>8, <1>9, <1>10, <1>11, <1>12

SoFar(op, line) == {LineOf(op, n) : n \in 1 .. line - 1}
\* What the report of what is open is taken from.
Collects == Components \cup {"packages", "services", "calamares", "iso", "install"}
\* What the profile of the image is compared with, and the profile itself.
ProfileReads == {"profile", "common", "packages", "services"}

LEMMA SoFarGrows ==
  ASSUME NEW op \in DOMAIN Commands, NEW n \in 1 .. Lines(op)
  PROVE  /\ SoFar(op, n + 1) = SoFar(op, n) \cup {LineOf(op, n)}
         /\ LineOf(op, n) \notin SoFar(op, n) /\ SoFar(op, 1) = {}
<1>1. Lines(op) \in Nat /\ n \in Nat /\ 1 <= n /\ n <= Lines(op)  BY OwnLines DEF Lines
<1>2. 1 .. (n + 1) - 1 = (1 .. n - 1) \cup {n}  BY <1>1
<1>3. ASSUME NEW m \in 1 .. n - 1  PROVE LineOf(op, n) # LineOf(op, m)
  <2>1. m \in 1 .. Lines(op) /\ m # n  BY <1>1
  <2> QED BY <2>1, LinesOfCommands
<1> QED BY <1>2, <1>3 DEF SoFar

LEMMA ReadBefore ==
  ASSUME NEW op \in DOMAIN Commands, NEW n \in 1 .. Lines(op) + 1
  PROVE  /\ n >= 11 => {<<"contract", "packages">>, <<"contract", "services">>} \subseteq SoFar(op, n)
         /\ n = 10 => <<"contract", "packages">> \in SoFar(op, n)
         /\ n >= 17 => \A d \in Collects : <<"contract", d>> \in SoFar(op, n)
         /\ n >= 18 => <<"contract", "lock">> \in SoFar(op, n)
         /\ n >= 19 => <<"hash", "packages">> \in SoFar(op, n)
         /\ n = 24 => \A d \in {"profile", "common", "packages"} : <<"profile", d>> \in SoFar(op, n)
         /\ n >= 25 => \A d \in ProfileReads : <<"profile", d>> \in SoFar(op, n)
         /\ n = 28 /\ op = "plan" => <<"command", "storage">> \in SoFar(op, n)
         /\ n = Lines(op) + 1 /\ op = "plan" =>
              \A d \in {"packages", "storage", "vms", "services", "identities", "responsibilities"} :
                <<"command", d>> \in SoFar(op, n)
         /\ n = Lines(op) + 1 /\ op = "metadata" =>
              {<<"stat", "artifact">>, <<"command", "artifact">>} \subseteq SoFar(op, n)
<1>1. Lines(op) \in Nat /\ Lines(op) >= 25 /\ n \in Nat  BY OwnLines DEF Lines
<1>2. ASSUME NEW m \in Nat, 1 <= m, m < n  PROVE LineOf(op, m) \in SoFar(op, n)
  BY <1>1, <1>2 DEF SoFar
<1>3. ASSUME NEW m \in 1 .. 17  PROVE LineOf(op, m) = <<"contract", contract_documents[m]>>
  BY ContractLines DEF LineOf
<1>4. LineOf(op, 18) = <<"hash", "packages">>  BY W6Lines DEF LineOf
<1>5. /\ n > 2 => <<"contract", "packages">> \in SoFar(op, n)
      /\ n > 10 => <<"contract", "services">> \in SoFar(op, n)
      /\ n > 17 => <<"contract", "lock">> \in SoFar(op, n)
  BY <1>1, <1>2, <1>3, ContractLineIs
<1>6. ASSUME n >= 17, NEW d \in Collects  PROVE <<"contract", d>> \in SoFar(op, n)
  <2>1. PICK m \in 1 .. 17 : contract_documents[m] = d  BY ContractDocsRead DEF Collects
  <2>2. d # "lock"  BY DEF Collects, Components
  <2>3. m < n /\ m \in Nat /\ 1 <= m  BY <1>1, <1>6, <2>1, <2>2, ContractLineIs
  <2> QED BY <1>2, <1>3, <2>1, <2>3
<1>7. n >= 19 => <<"hash", "packages">> \in SoFar(op, n)  BY <1>1, <1>2, <1>4
<1>10. /\ LineOf(op, 21) = <<"profile", "profile">> /\ LineOf(op, 22) = <<"profile", "common">>
       /\ LineOf(op, 23) = <<"profile", "packages">> /\ LineOf(op, 24) = <<"profile", "services">>
  BY W6Lines DEF LineOf
<1>11. /\ n >= 24 => \A d \in {"profile", "common", "packages"} : <<"profile", d>> \in SoFar(op, n)
       /\ n >= 25 => <<"profile", "services">> \in SoFar(op, n)
  BY <1>1, <1>2, <1>10
<1>12. /\ n = 24 => \A d \in {"profile", "common", "packages"} : <<"profile", d>> \in SoFar(op, n)
       /\ n >= 25 => \A d \in ProfileReads : <<"profile", d>> \in SoFar(op, n)
  BY <1>1, <1>11 DEF ProfileReads
<1>8. CASE op = "plan"
  <2>1. /\ Lines(op) = 32
        /\ LineOf(op, 26) = <<"command", "packages">> /\ LineOf(op, 27) = <<"command", "storage">>
        /\ LineOf(op, 28) = <<"command", "vms">> /\ LineOf(op, 29) = <<"command", "services">>
        /\ LineOf(op, 30) = <<"command", "identities">>
        /\ LineOf(op, 31) = <<"command", "responsibilities">>
    BY <1>8 DEF Lines, LineOf, Commands
  <2>2. n > 27 => <<"command", "storage">> \in SoFar(op, n)  BY <1>1, <1>2, <2>1
  <2>3. n = 33 => \A d \in {"packages", "storage", "vms", "services", "identities", "responsibilities"} :
                   <<"command", d>> \in SoFar(op, n)
    BY <1>1, <1>2, <2>1
  <2> QED BY <1>1, <1>5, <1>6, <1>7, <1>8, <1>12, <2>1, <2>2, <2>3
<1>9. CASE op = "metadata"
  <2>1. /\ Lines(op) = 27
        /\ LineOf(op, 26) = <<"stat", "artifact">> /\ LineOf(op, 27) = <<"command", "artifact">>
    BY <1>9 DEF Lines, LineOf, Commands
  <2>2. n = 28 => {<<"stat", "artifact">>, <<"command", "artifact">>} \subseteq SoFar(op, n)
    BY <1>1, <1>2, <2>1
  <2> QED BY <1>1, <1>5, <1>6, <1>7, <1>9, <1>12, <2>1, <2>2
<1> QED BY <1>1, <1>5, <1>6, <1>7, <1>8, <1>9, <1>12

Under == verdict.is \in {"running", "ok", "unresolved"}
Whole(r) ==
  Collected(r) \cup (IF r[<<"contract", "lock">>] = NoFile THEN {<<"packages", "lock">>} ELSE {})

\* What is read is accepted, and as the repository has it while nobody edits.
ReadInv ==
  Under =>
    /\ command.line \in 1 .. Lines(command.op) + 1
    /\ DOMAIN reads = SoFar(command.op, command.line)
    /\ \A s \in DOMAIN reads : accepts(reads, s) /\ (quiet => reads[s] = repo[s[2]])
    /\ <<"contract", "lock">> \in DOMAIN reads => graph = Whole(reads)

PlanOf ==
  LET unresolved == graph \cup (IF Read("responsibilities").mapping = "locked" THEN {}
                                ELSE {<<"calamares", "responsibility-mapping">>})
  IN  [disk |-> calculate_disk_plan(Read("storage"), Read("vms"), command.size),
       packages |-> resolve_packages(Read("packages")),
       services |-> resolve_services(Read("services")),
       unresolved |-> unresolved, release_resolved |-> unresolved = {}]

\* How a command ended.
EndInv ==
  /\ verdict.is # "panic"
  /\ verdict.is \in {"ok", "unresolved"} =>
       /\ command.line = Lines(command.op) + 1
       /\ command.op = "plan" =>
            /\ verdict.plan = PlanOf
            /\ resolvable_packages(Read("packages"))
            /\ resolvable_services(Read("services"), resolve_packages(Read("packages")))
       /\ command.op = "gate" /\ verdict.is = "ok" => ~(command.candidate /\ graph # {})
       /\ command.op = "metadata" =>
            verdict.plan = [size |-> reads[<<"stat", "artifact">>].size, sha256 |-> Read("artifact").bytes]

\* A plan carries its own hash, and the owner copied that of the plan shown.
HashInv ==
  /\ prepared # NoFile => prepared.sha256 = HashOf(prepared.target, prepared.disk)
  /\ noted # NoFile =>
       /\ noted = HashOf(approved.target, approved.disk)
       /\ approved = [target |-> approved.target, disk |-> approved.disk]

PlanInv == BuildPlanTypeOK /\ ReadInv /\ EndInv /\ HashInv /\ ConfirmedAsShown

\* What was accepted stays so when more is read: it was compared with earlier lines.
LEMMA AcceptedStays ==
  ASSUME NEW s \in Reads, s \in DOMAIN reads, accepts(reads, s),
         command'.op = command.op, command'.size = command.size, command'.input = command.input,
         \A t \in DOMAIN reads : reads'[t] = reads[t],
         s = <<"contract", "services">> => <<"contract", "packages">> \in DOMAIN reads,
         s[1] = "hash" =>
           {<<"contract", "lock">>, <<"contract", "packages">>} \subseteq DOMAIN reads,
         s = <<"profile", "services">> =>
           \A d \in {"profile", "common", "packages"} : <<"profile", d>> \in DOMAIN reads,
         s = <<"command", "vms">> => <<"command", "storage">> \in DOMAIN reads
  PROVE  accepts(reads, s)'
<1>1. s = <<s[1], s[2]>> /\ s[1] \in Readers /\ s[2] \in Documents  BY DEF Reads
<1>2. reads'[s] = reads[s]  OBVIOUS
<1>3. CASE s[1] = "contract"
  <2>1. accepts(reads, s) <=> validates(reads, s[2])  BY <1>3 DEF accepts
  <2>2. accepts(reads, s)' <=> validates(reads, s[2])'  BY <1>3 DEF accepts
  <2>3. reads[<<"contract", s[2]>>]' = reads[<<"contract", s[2]>>]  BY <1>1, <1>2, <1>3
  <2>4. CASE s[2] = "services"
    <3>1. reads[<<"contract", "packages">>]' = reads[<<"contract", "packages">>]
      BY <1>1, <1>3, <2>4
    <3> QED BY <2>1, <2>2, <2>3, <2>4, <3>1 DEF validates, Components
  <2>5. CASE s[2] # "services"
    BY <2>1, <2>2, <2>3, <2>5 DEF validates
  <2> QED BY <2>4, <2>5
<1>4. CASE s[1] = "hash"
  <2>1. /\ reads'[<<"contract", "lock">>] = reads[<<"contract", "lock">>]
        /\ reads'[<<"contract", "packages">>] = reads[<<"contract", "packages">>]
    BY <1>4
  <2> QED BY <1>2, <1>4, <2>1 DEF accepts
<1>5. CASE s[1] = "w6"  BY <1>2, <1>5 DEF accepts
<1>8. CASE s[1] = "profile"
  <2>1. CASE s[2] = "services"
    <3>1. s = <<"profile", "services">>  BY <1>1, <1>8, <2>1
    <3>2. /\ reads'[<<"profile", "profile">>] = reads[<<"profile", "profile">>]
          /\ reads'[<<"profile", "common">>] = reads[<<"profile", "common">>]
          /\ reads'[<<"profile", "packages">>] = reads[<<"profile", "packages">>]
      BY <3>1
    <3> QED BY <1>2, <1>8, <2>1, <3>2, Zenon DEF accepts
  <2> QED BY <1>8, <2>1 DEF accepts
<1>6. CASE s[1] = "stat"  BY <1>2, <1>6 DEF accepts
<1>7. CASE s[1] = "command"
  <2>1. accepts(reads, s) <=> goes_on(reads, s[2])  BY <1>7 DEF accepts
  <2>2. accepts(reads, s)' <=> goes_on(reads, s[2])'  BY <1>7 DEF accepts
  <2>3. reads[<<"command", s[2]>>]' = reads[<<"command", s[2]>>]  BY <1>1, <1>2, <1>7
  <2>4. CASE s[2] = "vms"
    <3>1. reads[<<"command", "storage">>]' = reads[<<"command", "storage">>]
      BY <1>1, <1>7, <2>4
    <3> QED BY <2>1, <2>2, <2>3, <2>4, <3>1 DEF goes_on
  <2>5. CASE s[2] # "vms"  BY <2>1, <2>2, <2>3, <2>5 DEF goes_on
  <2> QED BY <2>4, <2>5
<1> QED BY <1>1, <1>3, <1>4, <1>5, <1>6, <1>7, <1>8 DEF Readers

LEMMA WholeStays ==
  ASSUME \A d \in Collects \cup {"lock"} : reads'[<<"contract", d>>] = reads[<<"contract", d>>]
  PROVE  Whole(reads)' = Whole(reads)
<1>1. \A d \in Components : reads'[<<"contract", d>>] = reads[<<"contract", d>>]  BY DEF Collects
<1>2. /\ reads'[<<"contract", "packages">>] = reads[<<"contract", "packages">>]
      /\ reads'[<<"contract", "services">>] = reads[<<"contract", "services">>]
      /\ reads'[<<"contract", "calamares">>] = reads[<<"contract", "calamares">>]
      /\ reads'[<<"contract", "iso">>] = reads[<<"contract", "iso">>]
      /\ reads'[<<"contract", "install">>] = reads[<<"contract", "install">>]
      /\ reads'[<<"contract", "lock">>] = reads[<<"contract", "lock">>]
  BY DEF Collects
<1>3. {e \in Components : collect_resolved_value(reads'[<<"contract", e>>].pin)}
        = {e \in Components : collect_resolved_value(reads[<<"contract", e>>].pin)}
  BY <1>1
<1>4. {e \in Components : collect_resolved_value(reads'[<<"contract", e>>].evidence)}
        = {e \in Components : collect_resolved_value(reads[<<"contract", e>>].evidence)}
  BY <1>1
<1>5. Collected(reads)' = Collected(reads)  BY <1>2, <1>3, <1>4, Zenon DEF Collected
<1> QED BY <1>2, <1>5, Zenon DEF Whole

Untouched ==
  /\ UNCHANGED <<command, reads, graph, verdict>>
  /\ (quiet' => quiet /\ repo' = repo)

LEMMA UntouchedKeeps ==
  ASSUME ReadInv, EndInv, Untouched
  PROVE  ReadInv' /\ EndInv'
<1>1. Under' = Under  BY DEF Untouched, Under
<1>2. ASSUME NEW s \in DOMAIN reads, accepts(reads, s)  PROVE accepts(reads, s)'
  BY <1>2 DEF Untouched, accepts, validates, goes_on
<1>3. Whole(reads)' = Whole(reads)  BY WholeStays DEF Untouched
<1>4. SoFar(command.op, command.line)' = SoFar(command.op, command.line)
  BY DEF Untouched, SoFar
<1>5. ReadInv'  BY <1>1, <1>2, <1>3, <1>4 DEF ReadInv, Untouched
<1>6. EndInv'  BY DEF EndInv, Untouched, PlanOf, Read
<1> QED BY <1>5, <1>6

LEMMA BuildPlanTypes ==
  ASSUME BuildPlanTypeOK, [BuildPlanNext]_planVars, ReadInv
  PROVE  BuildPlanTypeOK'
<1> USE DEF BuildPlanTypeOK, Verdict
<1>1. CASE UNCHANGED planVars  BY <1>1 DEF planVars
<1>2. ASSUME NEW op \in DOMAIN Commands, NEW size \in 0 .. MaxU64, NEW candidate \in BOOLEAN,
             NEW ok \in BOOLEAN, execute(op, size, candidate, ok)
      PROVE  BuildPlanTypeOK'
  <2>1. DOMAIN reads' = {}  BY <1>2 DEF execute
  <2> QED BY <1>2, <2>1 DEF execute
<1>3. CASE load_yaml
  <2> DEFINE s == LineOf(command.op, command.line)
  <2>1. s \in Reads
    <3>1. command.line \in 1 .. Lines(command.op)
      BY <1>3, OwnLines DEF load_yaml, ReadInv, Under, Running, Lines
    <3> QED BY <3>1, LinesOfCommands
  <2>2. repo[s[2]] \in ContentsOf[s[2]]  BY <2>1 DEF Reads
  <2>3. /\ reads' = [t \in DOMAIN reads \cup {s} |-> IF t = s THEN repo[s[2]] ELSE reads[t]]
        /\ command' = command \/ command' = [command EXCEPT !.line = @ + 1]
        /\ verdict' = verdict \/ verdict'.is \in {"panic", "error"}
    BY <1>3 DEF load_yaml
  <2>4. DOMAIN reads' \subseteq Reads /\ \A t \in DOMAIN reads' : reads'[t] \in ContentsOf[t[2]]
    <3> HIDE DEF s
    <3> QED BY <2>1, <2>2, <2>3
  <2> HIDE DEF s
  <2>5. UNCHANGED <<repo, quiet, planned, redone>>  BY <1>3 DEF load_yaml
  <2>6. command' \in [op : DOMAIN Commands, size : 0 .. MaxU64, candidate : BOOLEAN,
                      input : BOOLEAN, line : Nat]
    BY <2>3
  <2>7. verdict'.is \in {"none", "running", "ok", "error", "panic", "unresolved"}  BY <2>3
  <2> QED BY <2>4, <2>5, <2>6, <2>7
<1>4. CASE load_fails  BY <1>4 DEF load_fails
<1>5. CASE build_plan \/ native_iso_build_gate \/ build_metadata_preview \/ report_printed
  <2>1. /\ verdict'.is \in {"ok", "error", "unresolved"}
        /\ UNCHANGED <<repo, command, reads, quiet, planned, redone>>
    BY <1>5 DEF build_plan, native_iso_build_gate, build_metadata_preview, report_printed, Ends
  <2> QED BY <2>1
<1>6. ASSUME NEW t, NEW dev, NEW breaks, prepare_destructive_plan(t, dev, breaks)
      PROVE  BuildPlanTypeOK'
  BY <1>6 DEF prepare_destructive_plan
<1>7. CASE plan_shown \/ confirm_destructive_plan
  BY <1>7 DEF plan_shown, confirm_destructive_plan
<1>8. ASSUME NEW d \in Documents, NEW c \in Editions[d], document_edited(d, c)
      PROVE  BuildPlanTypeOK'
  <2>1. c \in ContentsOf[d]  BY BuildPlanAssumption
  <2>2. repo' = [repo EXCEPT ![d] = c] /\ UNCHANGED <<command, reads, verdict, planned>>
    BY <1>8 DEF document_edited
  <2>3. DOMAIN repo' = Documents /\ \A e \in Documents : repo'[e] \in ContentsOf[e]
    BY <2>1, <2>2
  <2>4. redone' = redone + 1 /\ quiet' = FALSE  BY <1>8 DEF document_edited
  <2>5. redone' \in Nat  BY <2>4
  <2> QED BY <2>2, <2>3, <2>4, <2>5
<1>9. /\ 0 \in 0 .. MaxU64 /\ DiskSizes \subseteq 0 .. MaxU64
      /\ {"plan", "gate", "validate", "stage", "render", "tests", "metadata"} = DOMAIN Commands
  BY BuildPlanAssumption DEF Commands
<1>10. CASE \/ \E size \in DiskSizes : execute("plan", size, FALSE, TRUE)
            \/ \E candidate \in BOOLEAN : execute("gate", 0, candidate, TRUE)
            \/ \E op \in {"validate", "stage", "render", "tests", "metadata"}, ok \in BOOLEAN :
                 (op \in {"validate", "stage"} => ok) /\ execute(op, 0, FALSE, ok)
  <2> HIDE DEF BuildPlanTypeOK
  <2> QED BY <1>2, <1>9, <1>10
<1> HIDE DEF BuildPlanTypeOK
<1> QED
  BY <1>1, <1>3, <1>4, <1>5, <1>6, <1>7, <1>8, <1>10 DEF BuildPlanNext

\* Every reason the report takes for granted is there: the documents were validated.
LEMMA ReasonsAreGiven ==
  ASSUME BuildPlanTypeOK, NEW r,
         {<<"contract", "packages">>, <<"contract", "services">>} \subseteq DOMAIN r,
         \A s \in {<<"contract", "packages">>, <<"contract", "services">>} : accepts(r, s)
  PROVE  ReasonsGiven(r)
<1> DEFINE p == r[<<"contract", "packages">>]
           c == r[<<"contract", "services">>]
<1>1. validate_package_source(p)  BY DEF accepts, validates, Components
<1>2. validate_base_services(c, p)  BY DEF accepts, validates, Components
<1> HIDE DEF p, c
<1>3. \A id \in collect_package_unresolved(p) : p.packages[id].reason
  BY <1>1 DEF validate_package_source, validate_package_resolution, collect_package_unresolved
<1>4. \A id \in collect_service_unresolved(c) : c.services[id].reason
  BY <1>2 DEF validate_base_services, collect_service_unresolved
<1> QED BY <1>3, <1>4 DEF ReasonsGiven, p, c

\* The next line of the command that runs, and what was read before it.
LEMMA NextLine ==
  ASSUME BuildPlanTypeOK, ReadInv, Running, command.line <= Lines(command.op),
         NEW s, s = LineOf(command.op, command.line)
  PROVE  /\ command.op \in DOMAIN Commands /\ command.line \in 1 .. Lines(command.op)
         /\ s \in Reads /\ s \notin DOMAIN reads
         /\ DOMAIN reads = SoFar(command.op, command.line)
         /\ SoFar(command.op, command.line + 1) = DOMAIN reads \cup {s}
         /\ \A t \in DOMAIN reads \cup {s} :
              /\ t = <<"contract", "services">> => <<"contract", "packages">> \in DOMAIN reads
              /\ t[1] = "hash" =>
                   {<<"contract", "lock">>, <<"contract", "packages">>} \subseteq DOMAIN reads
              /\ t = <<"profile", "services">> =>
                   \A d \in {"profile", "common", "packages"} : <<"profile", d>> \in DOMAIN reads
              /\ t = <<"command", "vms">> => <<"command", "storage">> \in DOMAIN reads
              /\ t = <<"contract", "lock">> =>
                   \A d \in Collects : <<"contract", d>> \in DOMAIN reads
<1> DEFINE op == command.op
           n == command.line
<1>1. op \in DOMAIN Commands /\ n \in Nat  BY DEF BuildPlanTypeOK
<1>2. /\ n \in 1 .. Lines(op) /\ Lines(op) \in Nat /\ Lines(op) >= 25
      /\ DOMAIN reads = SoFar(op, n)
  BY <1>1, OwnLines DEF ReadInv, Under, Running, Lines
<1> HIDE DEF op, n
<1>3. /\ s = LineOf(op, n) /\ s \in Reads /\ s \notin DOMAIN reads
      /\ SoFar(op, n + 1) = DOMAIN reads \cup {s}
  BY <1>1, <1>2, LinesOfCommands, SoFarGrows DEF op, n
<1>4. \A t \in DOMAIN reads \cup {s} : \E m \in 1 .. n : t = LineOf(op, m)
  BY <1>1, <1>2, <1>3 DEF SoFar
<1>5. ASSUME NEW t \in DOMAIN reads \cup {s}
      PROVE  /\ t = <<"contract", "services">> => <<"contract", "packages">> \in DOMAIN reads
             /\ t[1] = "hash" =>
                  {<<"contract", "lock">>, <<"contract", "packages">>} \subseteq DOMAIN reads
             /\ t = <<"profile", "services">> =>
                  \A d \in {"profile", "common", "packages"} : <<"profile", d>> \in DOMAIN reads
             /\ t = <<"command", "vms">> => <<"command", "storage">> \in DOMAIN reads
             /\ t = <<"contract", "lock">> =>
                  \A d \in Collects : <<"contract", d>> \in DOMAIN reads
  <2>1. PICK m \in 1 .. n : t = LineOf(op, m)  BY <1>4
  <2>2. m \in 1 .. Lines(op) /\ m <= n /\ n \in 1 .. Lines(op) + 1 /\ m \in 1 .. Lines(op) + 1
    BY <1>1, <1>2
  <2>3. SoFar(op, m) \subseteq DOMAIN reads  BY <1>1, <1>2, <2>2 DEF SoFar
  <2>4. /\ t = <<"contract", "services">> => m = 10
        /\ t = <<"contract", "lock">> => m = 17
        /\ t[1] = "hash" => m = 18
        /\ t = <<"profile", "services">> => m = 24
        /\ t = <<"command", "vms">> => op = "plan" /\ m = 28
    BY <1>1, <2>1, <2>2, LinesOfCommands
  <2>5. /\ m = 10 => <<"contract", "packages">> \in SoFar(op, m)
        /\ m = 18 => {<<"contract", "lock">>, <<"contract", "packages">>} \subseteq SoFar(op, m)
        /\ m = 24 => \A d \in {"profile", "common", "packages"} : <<"profile", d>> \in SoFar(op, m)
        /\ m = 28 /\ op = "plan" => <<"command", "storage">> \in SoFar(op, m)
        /\ m = 17 => \A d \in Collects : <<"contract", d>> \in SoFar(op, m)
    BY <1>1, <2>2, ReadBefore
  <2> QED BY <2>3, <2>4, <2>5
<1> QED BY <1>1, <1>2, <1>3, <1>5 DEF op, n

LEMMA SameReads ==
  ASSUME NEW s, NEW r, reads' = r,
         command'.op = command.op, command'.size = command.size, command'.input = command.input
  PROVE  accepts(reads, s)' <=> accepts(r, s)
<1>1. validates(reads, s[2])' <=> validates(r, s[2])  BY DEF validates
<1>2. goes_on(reads, s[2])' <=> goes_on(r, s[2])  BY DEF goes_on
<1> QED BY <1>1, <1>2 DEF accepts

LEMMA LoadKeeps ==
  ASSUME BuildPlanTypeOK, ReadInv, EndInv, load_yaml
  PROVE  ReadInv' /\ EndInv'
<1>s. PICK s : s = LineOf(command.op, command.line)  OBVIOUS
<1>r. PICK r : r = [t \in DOMAIN reads \cup {s} |-> IF t = s THEN repo[s[2]] ELSE reads[t]]
  OBVIOUS
<1> DEFINE collects == s = <<"contract", "lock">>
<1>l. /\ Running /\ command.line <= Lines(command.op) /\ reads' = r
      /\ IF collects /\ ~ReasonsGiven(r)
         THEN verdict' = Verdict("panic", NoFile) /\ UNCHANGED <<command, graph>>
         ELSE IF ~accepts(r, s)
         THEN verdict' = Verdict("error", NoFile) /\ UNCHANGED <<command, graph>>
         ELSE /\ command' = [command EXCEPT !.line = @ + 1]
              /\ graph' = IF ~collects THEN graph
                          ELSE Collected(r) \cup (IF r[s] = NoFile THEN {<<"packages", "lock">>} ELSE {})
              /\ UNCHANGED verdict
      /\ UNCHANGED <<repo, quiet>>
  BY <1>s, <1>r DEF load_yaml
<1>1. Running /\ command.line <= Lines(command.op) /\ reads' = r
      /\ UNCHANGED <<repo, quiet>>
  BY <1>l
<1>2. /\ command.op \in DOMAIN Commands /\ command.line \in 1 .. Lines(command.op)
      /\ s \in Reads /\ s \notin DOMAIN reads
      /\ SoFar(command.op, command.line + 1) = DOMAIN reads \cup {s}
      /\ \A t \in DOMAIN reads \cup {s} :
              /\ t = <<"contract", "services">> => <<"contract", "packages">> \in DOMAIN reads
              /\ t[1] = "hash" =>
                   {<<"contract", "lock">>, <<"contract", "packages">>} \subseteq DOMAIN reads
              /\ t = <<"profile", "services">> =>
                   \A d \in {"profile", "common", "packages"} : <<"profile", d>> \in DOMAIN reads
              /\ t = <<"command", "vms">> => <<"command", "storage">> \in DOMAIN reads
              /\ t = <<"contract", "lock">> =>
                   \A d \in Collects : <<"contract", d>> \in DOMAIN reads
  BY <1>s, <1>1, NextLine
<1>3. /\ \A t \in DOMAIN reads : reads'[t] = reads[t]
      /\ reads'[s] = repo[s[2]] /\ DOMAIN reads' = DOMAIN reads \cup {s}
  BY <1>r, <1>1, <1>2
<1>4. \A t \in DOMAIN reads : accepts(reads, t) /\ (quiet => reads[t] = repo[t[2]])
  BY <1>1 DEF ReadInv, Under, Running
<1>5. CASE verdict'.is = "error"  BY <1>5 DEF ReadInv, EndInv, Under
<1>6. CASE ~(collects /\ ~ReasonsGiven(r)) /\ accepts(r, s)
  <2>1. /\ command' = [command EXCEPT !.line = @ + 1] /\ verdict' = verdict
        /\ graph' = IF ~collects THEN graph
                    ELSE Collected(r) \cup (IF r[s] = NoFile THEN {<<"packages", "lock">>} ELSE {})
    BY <1>l, <1>6
  <2>2. /\ command'.op = command.op /\ command'.size = command.size /\ command'.input = command.input
        /\ command'.line = command.line + 1
    BY <2>1 DEF BuildPlanTypeOK
  <2>3. Reads = {t \in Reads : TRUE} /\ DOMAIN reads \subseteq Reads  BY DEF BuildPlanTypeOK
  <2>4. ASSUME NEW t \in DOMAIN reads  PROVE accepts(reads, t)'
    BY <1>2, <1>3, <1>4, <2>2, <2>3, AcceptedStays
  <2>5. accepts(reads, s)'  BY <1>1, <1>6, <2>2, SameReads
  <2>6. command'.line \in 1 .. Lines(command'.op) + 1
    BY <1>2, <2>2, OwnLines DEF Lines
  <2>7. DOMAIN reads' = SoFar(command'.op, command'.line)  BY <1>2, <1>3, <2>2
  <2>8. ASSUME <<"contract", "lock">> \in DOMAIN reads'  PROVE graph' = Whole(reads)'
    <3>1. CASE collects
      <4>1. graph' = Whole(r)  BY <2>1, <3>1 DEF Whole
      <4>2. Whole(r) = Whole(reads)'  BY <1>1 DEF Whole, Collected
      <4> QED BY <4>1, <4>2
    <3>2. CASE ~collects
      <4>1. <<"contract", "lock">> \in DOMAIN reads  BY <1>3, <2>8, <3>2
      <4>2. graph = Whole(reads)  BY <1>1, <4>1 DEF ReadInv, Under, Running
      <4>3. \A d \in Collects \cup {"lock"} : reads'[<<"contract", d>>] = reads[<<"contract", d>>]
        BY <1>2, <1>3, <4>1
      <4> QED BY <2>1, <3>2, <4>2, <4>3, WholeStays
    <3> QED BY <3>1, <3>2
  <2>9. Under' /\ verdict'.is = "running"  BY <1>1, <2>1 DEF Running, Under
  <2>10. ASSUME NEW t \in DOMAIN reads'
         PROVE  accepts(reads, t)' /\ (quiet' => reads'[t] = repo'[t[2]])
    <3>1. CASE t \in DOMAIN reads  BY <1>1, <1>3, <1>4, <2>4, <3>1
    <3>2. CASE t = s  BY <1>1, <1>3, <2>5, <3>2
    <3> QED BY <1>3, <3>1, <3>2
  <2>11. ReadInv'  BY <2>6, <2>7, <2>8, <2>10 DEF ReadInv
  <2>12. EndInv'  BY <2>9 DEF EndInv
  <2> QED BY <2>11, <2>12
<1>7. collects => ReasonsGiven(r)
  <2> SUFFICES ASSUME collects  PROVE ReasonsGiven(r)  OBVIOUS
  <2> DEFINE K == {<<"contract", "packages">>, <<"contract", "services">>}
  <2>1. K \subseteq DOMAIN reads  BY <1>2 DEF Collects
  <2>2. \A t \in K : r[t] = reads[t] /\ t \in DOMAIN r  BY <1>1, <1>2, <1>3, <2>1
  <2>3. \A t \in K : accepts(reads, t)  BY <1>4, <2>1
  <2>4. \A t \in K : accepts(r, t)
    BY <2>2, <2>3 DEF accepts, validates, Components
  <2> QED BY <2>2, <2>4, ReasonsAreGiven
<1>8. verdict'.is = "error" \/ accepts(r, s)  BY <1>l, <1>7 DEF Verdict
<1> QED BY <1>5, <1>6, <1>7, <1>8

LEMMA PlanEndingKeeps ==
  ASSUME BuildPlanTypeOK, ReadInv, EndInv,
         build_plan \/ native_iso_build_gate \/ build_metadata_preview \/ report_printed
  PROVE  ReadInv' /\ EndInv'
<1>1. /\ Running /\ command.line > Lines(command.op)
      /\ UNCHANGED <<repo, command, reads, graph, quiet>>
      /\ verdict'.is \in {"ok", "error", "unresolved"}
  BY DEF build_plan, native_iso_build_gate, build_metadata_preview, report_printed, Ends, Verdict
<1>2. Under  BY <1>1 DEF Under, Running
<1>3. ASSUME NEW s \in DOMAIN reads, accepts(reads, s)  PROVE accepts(reads, s)'
  BY <1>1, <1>3 DEF accepts, validates, goes_on
<1>4. Whole(reads)' = Whole(reads)  BY <1>1, WholeStays
<1>5. SoFar(command.op, command.line)' = SoFar(command.op, command.line)  BY <1>1 DEF SoFar
<1>6. ReadInv'  BY <1>1, <1>2, <1>3, <1>4, <1>5 DEF ReadInv
<1>7. command.line = Lines(command.op) + 1
  BY <1>1, <1>2, OwnLines DEF ReadInv, BuildPlanTypeOK, Lines
<1>8. CASE build_plan
  <2>1. PlanOf' = PlanOf  BY <1>1 DEF PlanOf, Read
  <2>2. command.op = "plan"  BY <1>8 DEF build_plan
  <2>3. \/ verdict' = Verdict("error", NoFile)
        \/ /\ verdict' = Verdict("ok", PlanOf)
           /\ resolvable_packages(Read("packages"))
           /\ resolvable_services(Read("services"), resolve_packages(Read("packages")))
    BY <1>8 DEF build_plan, Ends, PlanOf
  <2>4. UNCHANGED <<Read("packages"), Read("services")>>  BY <1>1 DEF Read
  <2> QED BY <1>1, <1>6, <1>7, <2>1, <2>2, <2>3, <2>4 DEF EndInv, Verdict
<1>9. CASE native_iso_build_gate
  <2>1. command.op = "gate" /\ verdict' = Verdict(IF command.candidate /\ graph # {} THEN "unresolved" ELSE "ok", NoFile)
    BY <1>9 DEF native_iso_build_gate, Ends
  <2> QED BY <1>1, <1>6, <1>7, <2>1 DEF EndInv, Verdict
<1>10. CASE build_metadata_preview
  <2>1. /\ command.op = "metadata"
        /\ verdict' = Verdict("ok", [size |-> reads[<<"stat", "artifact">>].size,
                                     sha256 |-> Read("artifact").bytes])
    BY <1>10 DEF build_metadata_preview, Ends
  <2>2. UNCHANGED Read("artifact")  BY <1>1 DEF Read
  <2> QED BY <1>1, <1>6, <1>7, <2>1, <2>2 DEF EndInv, Verdict
<1>11. CASE report_printed
  <2>1. command.op \in {"validate", "stage", "render", "tests"} /\ verdict' = Verdict("ok", NoFile)
    BY <1>11 DEF report_printed, Ends
  <2> QED BY <1>1, <1>6, <1>7, <2>1 DEF EndInv, Verdict
<1> QED BY <1>8, <1>9, <1>10, <1>11

LEMMA HashesKeep ==
  ASSUME HashInv, ConfirmedAsShown, BuildPlanNext
  PROVE  HashInv' /\ ConfirmedAsShown'
<1> USE DEF HashInv, ConfirmedAsShown
<1>1. CASE UNCHANGED <<prepared, noted, approved, confirmed>>  BY <1>1
<1>2. ASSUME NEW t, NEW dev, NEW breaks, prepare_destructive_plan(t, dev, breaks)
      PROVE  HashInv' /\ ConfirmedAsShown'
  BY <1>2 DEF prepare_destructive_plan
<1>3. CASE plan_shown  BY <1>3 DEF plan_shown
<1>4. CASE confirm_destructive_plan
  <2>1. approved = [target |-> prepared.target, disk |-> prepared.disk]
    BY <1>4 DEF confirm_destructive_plan, HashOf
  <2> QED BY <1>4, <2>1 DEF confirm_destructive_plan
<1> QED
  BY <1>1, <1>2, <1>3, <1>4
  DEF BuildPlanNext, execute, load_yaml, load_fails, build_plan, native_iso_build_gate,
      build_metadata_preview, report_printed, Ends, document_edited

\* What a planning command has read so far was accepted and is reported, and what
\* it printed follows from it (validate_repository, build_plan, native_iso_build_gate).
THEOREM PlanInvariant == BuildPlanSpec => []PlanInv
<1>1. BuildPlanInit => PlanInv
  <2> SUFFICES ASSUME BuildPlanInit  PROVE PlanInv  OBVIOUS
  <2>1. BuildPlanTypeOK
    <3>1. "validate" \in DOMAIN Commands /\ 0 \in 0 .. MaxU64  BY BuildPlanAssumption DEF Commands
    <3>2. DOMAIN reads = {}  BY DEF BuildPlanInit
    <3>3. DOMAIN repo = Documents /\ \A d \in Documents : repo[d] \in ContentsOf[d]
      BY BuildPlanAssumption DEF BuildPlanInit
    <3> QED BY <3>1, <3>2, <3>3 DEF BuildPlanInit, BuildPlanTypeOK, Verdict
  <2>2. ReadInv /\ EndInv  BY DEF BuildPlanInit, ReadInv, EndInv, Under, Verdict
  <2> QED BY <2>1, <2>2 DEF BuildPlanInit, PlanInv, HashInv, ConfirmedAsShown
<1>2. PlanInv /\ [BuildPlanNext]_planVars => PlanInv'
  <2> SUFFICES ASSUME PlanInv, [BuildPlanNext]_planVars  PROVE PlanInv'  OBVIOUS
  <2>1. BuildPlanTypeOK'  BY BuildPlanTypes DEF PlanInv
  <2>2. HashInv' /\ ConfirmedAsShown'
    <3>1. CASE UNCHANGED planVars  BY <3>1 DEF planVars, PlanInv, HashInv, ConfirmedAsShown
    <3> QED BY <3>1, HashesKeep DEF PlanInv
  <2>3. CASE Untouched  BY <2>1, <2>2, <2>3, UntouchedKeeps DEF PlanInv
  <2>4. CASE UNCHANGED planVars  BY <2>3, <2>4 DEF planVars, Untouched
  <2>5. ASSUME NEW op, NEW size, NEW candidate, NEW ok, execute(op, size, candidate, ok)
        PROVE  PlanInv'
    <3>1. /\ command'.op = op /\ command'.line = 1 /\ verdict'.is = "running" /\ reads' = <<>>
      BY <2>5 DEF execute, Verdict
    <3>2. op \in DOMAIN Commands  BY <2>1, <3>1 DEF BuildPlanTypeOK
    <3>3. /\ 1 \in 1 .. Lines(op) /\ 1 \in 1 .. Lines(op) + 1  BY <3>2, OwnLines DEF Lines
    <3>4. DOMAIN reads' = {} /\ SoFar(op, 1) = {}  BY <3>1, <3>2, <3>3, SoFarGrows
    <3>5. ReadInv' /\ EndInv'  BY <3>1, <3>3, <3>4 DEF ReadInv, EndInv
    <3> QED BY <2>1, <2>2, <3>5 DEF PlanInv
  <2>6. CASE load_yaml  BY <2>1, <2>2, <2>6, LoadKeeps DEF PlanInv
  <2>7. CASE load_fails
    BY <2>1, <2>2, <2>7 DEF PlanInv, load_fails, ReadInv, EndInv, Under, Verdict
  <2>8. CASE build_plan \/ native_iso_build_gate \/ build_metadata_preview \/ report_printed
    BY <2>1, <2>2, <2>8, PlanEndingKeeps DEF PlanInv
  <2>9. ASSUME NEW t, NEW dev, NEW breaks, prepare_destructive_plan(t, dev, breaks)
        PROVE  PlanInv'
    BY <2>3, <2>9 DEF prepare_destructive_plan, Untouched
  <2>10. CASE plan_shown \/ confirm_destructive_plan
    BY <2>3, <2>10 DEF plan_shown, confirm_destructive_plan, Untouched
  <2>11. ASSUME NEW d, NEW c, document_edited(d, c)  PROVE PlanInv'
    BY <2>3, <2>11 DEF document_edited, Untouched
  <2> QED
    BY <2>4, <2>5, <2>6, <2>7, <2>8, <2>9, <2>10, <2>11 DEF BuildPlanNext
<1> QED BY <1>1, <1>2, PTL DEF BuildPlanSpec

\* What a command that ended has read.
LEMMA AllRead ==
  ASSUME PlanInv, verdict.is = "ok"
  PROVE  /\ \A s \in DOMAIN reads : accepts(reads, s) /\ (quiet => reads[s] = repo[s[2]])
         /\ graph = Whole(reads)
         /\ \A d \in Collects \cup {"lock"} : <<"contract", d>> \in DOMAIN reads
         /\ <<"hash", "packages">> \in DOMAIN reads
         /\ \A d \in ProfileReads : <<"profile", d>> \in DOMAIN reads
         /\ command.op = "plan" =>
              \A d \in {"packages", "storage", "vms", "services", "identities", "responsibilities"} :
                <<"command", d>> \in DOMAIN reads
         /\ command.op = "metadata" =>
              {<<"stat", "artifact">>, <<"command", "artifact">>} \subseteq DOMAIN reads
<1> DEFINE op == command.op
           n == command.line
<1>1. op \in DOMAIN Commands /\ n = Lines(op) + 1 /\ DOMAIN reads = SoFar(op, n)
  BY DEF PlanInv, BuildPlanTypeOK, EndInv, ReadInv, Under
<1>2. Lines(op) \in Nat /\ Lines(op) >= 25  BY <1>1, OwnLines DEF Lines
<1> HIDE DEF op, n
<1>3. n \in 1 .. Lines(op) + 1 /\ n >= 25 /\ n >= 19 /\ n >= 18 /\ n >= 17  BY <1>1, <1>2
<1>4. /\ \A d \in Collects : <<"contract", d>> \in SoFar(op, n)
      /\ <<"contract", "lock">> \in SoFar(op, n) /\ <<"hash", "packages">> \in SoFar(op, n)
      /\ \A d \in ProfileReads : <<"profile", d>> \in SoFar(op, n)
      /\ op = "plan" =>
           \A d \in {"packages", "storage", "vms", "services", "identities", "responsibilities"} :
             <<"command", d>> \in SoFar(op, n)
      /\ op = "metadata" =>
           {<<"stat", "artifact">>, <<"command", "artifact">>} \subseteq SoFar(op, n)
  BY <1>1, <1>3, ReadBefore
<1>5. /\ \A s \in DOMAIN reads : accepts(reads, s) /\ (quiet => reads[s] = repo[s[2]])
      /\ <<"contract", "lock">> \in DOMAIN reads => graph = Whole(reads)
  BY DEF PlanInv, ReadInv, Under
<1> QED BY <1>1, <1>4, <1>5 DEF op

LEMMA PlanIsThePlan ==
  ASSUME PlanInv, PlanPrinted
  PROVE  /\ verdict.plan.disk = calculate_disk_plan(Read("storage"), Read("vms"), command.size)
         /\ verdict.plan.disk # NoFile
         /\ verdict.plan.packages = resolve_packages(Read("packages"))
         /\ verdict.plan.services = resolve_services(Read("services"))
         /\ verdict.plan.release_resolved = (verdict.plan.unresolved = {})
         /\ \E m \in SUBSET {<<"calamares", "responsibility-mapping">>} :
              verdict.plan.unresolved = Whole(reads) \cup m
         /\ resolvable_packages(Read("packages"))
         /\ resolvable_services(Read("services"), resolve_packages(Read("packages")))
         /\ Read("packages") \in PackageSourceContract /\ Read("services") \in ServiceContract
         /\ Read("storage") \in StorageContract /\ Read("vms") \in VmContracts
         /\ command.size \in Nat
<1>1. /\ verdict.plan = PlanOf /\ resolvable_packages(Read("packages"))
      /\ resolvable_services(Read("services"), resolve_packages(Read("packages")))
      /\ command.size \in 0 .. MaxU64
  BY DEF PlanInv, EndInv, PlanPrinted, BuildPlanTypeOK
<1>2. <<"command", "vms">> \in DOMAIN reads /\ accepts(reads, <<"command", "vms">>)
  BY AllRead DEF PlanPrinted
<1>3. calculate_disk_plan(Read("storage"), Read("vms"), command.size) # NoFile
  BY <1>2 DEF accepts, goes_on, Read
<1>4. graph = Whole(reads)  BY AllRead DEF PlanPrinted
<1>5. \A d \in {"packages", "services", "storage", "vms"} : Read(d) \in ContentsOf[d]
  <2>1. ASSUME NEW d \in {"packages", "services", "storage", "vms"}
        PROVE  <<"command", d>> \in DOMAIN reads
    BY AllRead DEF PlanPrinted
  <2> QED BY <2>1 DEF PlanInv, BuildPlanTypeOK, Read
<1>6. /\ ContentsOf["packages"] = PackageSourceContract /\ ContentsOf["services"] = ServiceContract
      /\ ContentsOf["storage"] = StorageContract /\ ContentsOf["vms"] = VmContracts
  BY DEF ContentsOf, Documents, PlainDocuments, Components
<1>7. command.size \in Nat  BY <1>1, BuildPlanAssumption
<1> DEFINE packages == resolve_packages(Read("packages"))
           services == resolve_services(Read("services"))
           volumes == calculate_disk_plan(Read("storage"), Read("vms"), command.size)
           m == IF Read("responsibilities").mapping = "locked" THEN {}
                ELSE {<<"calamares", "responsibility-mapping">>}
<1>8. verdict.plan = [disk |-> volumes, packages |-> packages, services |-> services,
                      unresolved |-> graph \cup m, release_resolved |-> graph \cup m = {}]
  BY <1>1 DEF PlanOf
<1>9. m \in SUBSET {<<"calamares", "responsibility-mapping">>}  OBVIOUS
<1> HIDE DEF packages, services, volumes, m
<1>10. /\ verdict.plan.disk = volumes /\ verdict.plan.packages = packages
       /\ verdict.plan.services = services /\ verdict.plan.unresolved = graph \cup m
       /\ verdict.plan.release_resolved = (graph \cup m = {})
  BY <1>8
<1>11. /\ verdict.plan.release_resolved = (verdict.plan.unresolved = {})
       /\ \E x \in SUBSET {<<"calamares", "responsibility-mapping">>} :
            verdict.plan.unresolved = Whole(reads) \cup x
  BY <1>4, <1>9, <1>10
<1> QED BY <1>1, <1>3, <1>5, <1>6, <1>7, <1>10, <1>11 DEF packages, services, volumes

LEMMA DisksAddUpHolds ==
  ASSUME PlanInv
  PROVE  DisksAddUp
<1> SUFFICES ASSUME PlanPrinted
             PROVE  LET d == verdict.plan.disk IN
                      /\ d.total = command.size /\ d.esp + d.boot + d.system = d.total
                      /\ d.swap + d.reserve + d.root = d.system /\ d.root > 0
                      /\ d.reserve * 20 <= d.system
  BY DEF DisksAddUp
<1> DEFINE size == command.size
           system == size - (512 + 2048)
           reserve == (system * 5) \div 100
           rest == (system - 4096) - reserve
<1>1. /\ verdict.plan.disk = calculate_disk_plan(Read("storage"), Read("vms"), size)
      /\ verdict.plan.disk # NoFile /\ size \in Nat
  BY PlanIsThePlan
<1>2. validate_storage_contract(Read("storage"))  BY <1>1 DEF calculate_disk_plan
<1>3. /\ Read("storage").esp = 512 /\ Read("storage").boot = 2048
      /\ Read("storage").swap = 4096 /\ Read("storage").percent = 5
  BY <1>2 DEF validate_storage_contract
<1>4. /\ verdict.plan.disk = [total |-> size, esp |-> 512, boot |-> 2048, system |-> system,
                             swap |-> 4096, reserve |-> reserve, root |-> rest]
      /\ Fits(system) /\ Fits(rest) /\ rest # 0
  BY <1>1, <1>3 DEF calculate_disk_plan
<1>5. system \in Int /\ 0 <= system  BY <1>1, <1>4 DEF Fits
<1> HIDE DEF size
<1>6. 512 + 2048 + system = size  BY <1>1
<1> HIDE DEF system
<1>7. reserve \in Int /\ reserve * 20 <= system  BY <1>5
<1>8. rest \in Int /\ 4096 + reserve + rest = system /\ rest > 0
  BY <1>4, <1>5, <1>7 DEF Fits
<1> HIDE DEF reserve, rest
<1> QED BY <1>4, <1>6, <1>7, <1>8 DEF size

LEMMA PlansAreCompleteHolds ==
  ASSUME PlanInv
  PROVE  PlansAreComplete
<1> SUFFICES ASSUME PlanPrinted
             PROVE  /\ \A id \in PackageIds :
                         LET p == verdict.plan.packages[id] IN
                           /\ p.resolution # "locked" => p.names = {}
                           /\ Read("packages").packages[id].kind = "package" /\ p.resolution = "locked" =>
                                p.names # {}
                    /\ \A id \in ServiceIds :
                         LET s == verdict.plan.services[id] IN
                           /\ s.package_id \in DOMAIN verdict.plan.packages
                           /\ s.locked => s.service_name # NoFile /\ s.placed
  BY DEF PlansAreComplete
<1>1. /\ verdict.plan.packages = resolve_packages(Read("packages"))
      /\ verdict.plan.services = resolve_services(Read("services"))
      /\ resolvable_packages(Read("packages"))
      /\ resolvable_services(Read("services"), resolve_packages(Read("packages")))
  BY PlanIsThePlan
<1>2. ASSUME NEW id \in PackageIds
      PROVE  LET p == verdict.plan.packages[id] IN
               /\ p.resolution # "locked" => p.names = {}
               /\ Read("packages").packages[id].kind = "package" /\ p.resolution = "locked" =>
                    p.names # {}
  BY <1>1 DEF resolve_packages, resolvable_packages, validate_package_resolution
<1>3. ASSUME NEW id \in ServiceIds
      PROVE  LET s == verdict.plan.services[id] IN
               /\ s.package_id \in DOMAIN verdict.plan.packages
               /\ s.locked => s.service_name # NoFile /\ s.placed
  <2>1. DOMAIN verdict.plan.packages = PackageIds  BY <1>1 DEF resolve_packages
  <2>2. /\ Read("services").services[id].package_id \in PackageIds
        /\ BothLocked(Read("services").services[id]) => ServiceSelected(Read("services").services[id])
    BY <1>1, <2>1 DEF resolvable_services
  <2> QED BY <1>1, <2>1, <2>2 DEF resolve_services, ServiceSelected
<1> QED BY <1>2, <1>3

\* The report names an open role or service, and no other.
LEMMA WholeNames ==
  ASSUME NEW r, NEW m \in SUBSET {<<"calamares", "responsibility-mapping">>}
  PROVE  /\ \A id : <<"package", id>> \in Whole(r) \cup m
                  <=> id \in collect_package_unresolved(r[<<"contract", "packages">>])
         /\ \A id : <<"service", id>> \in Whole(r) \cup m
                  <=> id \in collect_service_unresolved(r[<<"contract", "services">>])
         /\ r[<<"contract", "lock">>] = NoFile => <<"packages", "lock">> \in Whole(r) \cup m
         /\ collect_resolved_value(r[<<"contract", "calamares">>].storage_implementation) =>
              Whole(r) \cup m # {}
  BY DEF Whole, Collected

LEMMA NothingOpenIsHiddenHolds ==
  ASSUME PlanInv
  PROVE  NothingOpenIsHidden
<1> DEFINE plan  == verdict.plan
           open  == {id \in PackageIds : plan.packages[id].resolution # "locked"}
           ours  == {id \in PackageIds : plan.packages[id].class = "official-artix"}
           image == {id \in ours : ~plan.packages[id].build_host}
           carried == UNION {plan.packages[id].names : id \in image}
<1> SUFFICES ASSUME PlanPrinted, quiet
             PROVE  /\ \A id \in PackageIds : id \in open <=> <<"package", id>> \in plan.unresolved
                    /\ open \cap image = {}
                    /\ <<"packages", "lock">> \notin plan.unresolved => open \cap ours = {}
                    /\ \A id \in ServiceIds :
                         /\ plan.services[id].locked /\ <<"service", id>> \notin plan.unresolved
                         /\ repo["profile"].services[id] = plan.services[id].service_name
                    /\ (UNION {plan.packages[id].names : id \in image}) \ LiveOnlyPackages
                         = repo["profile"].rootfs \cup repo["common"].packages
  BY DEF NothingOpenIsHidden
<1>1. /\ plan.packages = resolve_packages(Read("packages"))
      /\ plan.services = resolve_services(Read("services"))
      /\ \E m \in SUBSET {<<"calamares", "responsibility-mapping">>} :
           plan.unresolved = Whole(reads) \cup m
  BY PlanIsThePlan
<1>2. PICK m \in SUBSET {<<"calamares", "responsibility-mapping">>} :
        plan.unresolved = Whole(reads) \cup m
  BY <1>1
<1> DEFINE p == Read("packages")
           c == Read("services")
<1>3. /\ \A s \in DOMAIN reads : accepts(reads, s) /\ reads[s] = repo[s[2]]
      /\ \A d \in Collects \cup {"lock"} : <<"contract", d>> \in DOMAIN reads
      /\ <<"hash", "packages">> \in DOMAIN reads
      /\ \A d \in ProfileReads : <<"profile", d>> \in DOMAIN reads
      /\ <<"command", "packages">> \in DOMAIN reads /\ <<"command", "services">> \in DOMAIN reads
  BY AllRead DEF PlanPrinted
<1>4. /\ reads[<<"contract", "packages">>] = p /\ reads[<<"contract", "services">>] = c
      /\ reads[<<"hash", "packages">>] = p
      /\ reads[<<"profile", "packages">>] = p /\ reads[<<"profile", "services">>] = c
      /\ reads[<<"profile", "profile">>] = repo["profile"]
      /\ reads[<<"profile", "common">>] = repo["common"]
  BY <1>3 DEF Read, Collects, ProfileReads
<1>5. validate_package_source(p) /\ validate_base_services(c, p)
  <2>1. /\ accepts(reads, <<"contract", "packages">>) /\ accepts(reads, <<"contract", "services">>)
    BY <1>3 DEF Collects
  <2> QED BY <1>4, <2>1 DEF accepts, validates, Components
<1>9. validate_artools_profile_sources(repo["profile"], repo["common"], p, c)
  <2>1. accepts(reads, <<"profile", "services">>)  BY <1>3 DEF ProfileReads
  <2>2. validate_artools_profile_sources(reads[<<"profile", "profile">>],
          reads[<<"profile", "common">>], reads[<<"profile", "packages">>],
          reads[<<"profile", "services">>])
    BY <2>1, Zenon DEF accepts
  <2> QED BY <1>4, <2>2
<1> HIDE DEF p, c, plan
<1>6. ASSUME NEW id \in PackageIds
      PROVE  id \in open <=> <<"package", id>> \in plan.unresolved
  <2>1. id \in open <=> id \in collect_package_unresolved(p)
    BY <1>1 DEF resolve_packages, collect_package_unresolved, p
  <2> QED BY <1>2, <1>4, <2>1, WholeNames
<1>7. ASSUME NEW id \in ServiceIds
      PROVE  /\ plan.services[id].locked /\ <<"service", id>> \notin plan.unresolved
             /\ repo["profile"].services[id] = plan.services[id].service_name
  <2>1. /\ c.services[id].service_name # NoFile
        /\ repo["profile"].services[id] = c.services[id].service_name
    BY <1>9 DEF validate_artools_profile_sources, services_are_selected
  <2>2. BothLocked(c.services[id])  BY <1>5, <2>1 DEF validate_base_services
  <2>3. id \notin collect_service_unresolved(c)  BY <2>2 DEF collect_service_unresolved
  <2>4. /\ plan.services[id].locked = BothLocked(c.services[id])
        /\ plan.services[id].service_name = c.services[id].service_name
    BY <1>1 DEF resolve_services, c
  <2>5. <<"service", id>> \notin plan.unresolved  BY <1>2, <1>4, <2>3, WholeNames
  <2> QED BY <2>1, <2>2, <2>4, <2>5
<1>8. ASSUME <<"packages", "lock">> \notin plan.unresolved, NEW id \in ours
      PROVE  plan.packages[id].resolution = "locked"
  <2>1. reads[<<"contract", "lock">>] # NoFile  BY <1>2, <1>8, WholeNames
  <2>2. validate_package_lock_data(reads[<<"contract", "lock">>], p, p)
    <3>1. accepts(reads, <<"hash", "packages">>)  BY <1>3
    <3> QED BY <1>4, <2>1, <3>1 DEF accepts
  <2>3. p.packages[id].class = "official-artix"  BY <1>1 DEF resolve_packages, p
  <2>4. p.packages[id].resolution = "locked"  BY <2>2, <2>3 DEF validate_package_lock_data
  <2> QED BY <1>1, <2>4 DEF resolve_packages, p
<1>10. image = ImageRoles(p)  BY <1>1 DEF resolve_packages, ImageRoles, p
<1>11. ASSUME NEW id \in image
       PROVE  /\ plan.packages[id].resolution = "locked"
              /\ plan.packages[id].names = p.packages[id].names
  <2>1. p.packages[id].kind = "package" /\ p.packages[id].resolution = "locked"
    BY <1>9, <1>10 DEF validate_artools_profile_sources
  <2> QED BY <1>1, <2>1 DEF resolve_packages, p
<1>12. carried = ImagePackages(p)
  <2>1. \A id \in image : plan.packages[id].names = p.packages[id].names  BY <1>11
  <2> HIDE DEF image
  <2>2. {plan.packages[id].names : id \in image} = {p.packages[id].names : id \in image}  BY <2>1
  <2> QED BY <1>10, <2>2, Zenon DEF ImagePackages
<1>13. carried \ LiveOnlyPackages = repo["profile"].rootfs \cup repo["common"].packages
  <2>1. repo["profile"].rootfs \cup repo["common"].packages = ImagePackages(p) \ LiveOnlyPackages
    BY <1>9 DEF validate_artools_profile_sources
  <2> HIDE DEF carried
  <2> QED BY <1>12, <2>1
<1>14. open \cap image = {}  BY <1>11
<1>15. <<"packages", "lock">> \notin plan.unresolved => open \cap ours = {}  BY <1>8
<1> HIDE DEF open, ours, image
<1> QED BY <1>6, <1>7, <1>13, <1>14, <1>15, Zenon

LEMMA ReleaseWaitsHolds ==
  ASSUME PlanInv
  PROVE  ReleaseWaits
<1>1. ASSUME verdict.is = "ok", NEW m \in SUBSET {<<"calamares", "responsibility-mapping">>}
      PROVE  Whole(reads) \cup m # {} /\ graph = Whole(reads)
  <2>1. /\ <<"contract", "calamares">> \in DOMAIN reads /\ graph = Whole(reads)
        /\ \A s \in DOMAIN reads : accepts(reads, s)
    BY <1>1, AllRead DEF Collects
  <2>2. validate_calamares(reads[<<"contract", "calamares">>])
    BY <2>1 DEF accepts, validates, Components
  <2>3. collect_resolved_value(reads[<<"contract", "calamares">>].storage_implementation)
    BY <2>2 DEF validate_calamares, collect_resolved_value
  <2> QED BY <2>1, <2>3, WholeNames
<1>2. verdict.is # "panic"  BY DEF PlanInv, EndInv
<1>3. ASSUME verdict.is = "ok", command.op = "gate"  PROVE ~command.candidate
  <2>1. ~(command.candidate /\ graph # {})  BY <1>3 DEF PlanInv, EndInv
  <2>2. graph # {}  BY <1>1, <1>3
  <2> QED BY <2>1, <2>2
<1>4. ASSUME PlanPrinted  PROVE ~verdict.plan.release_resolved
  BY <1>1, <1>4, PlanIsThePlan DEF PlanPrinted
<1> QED BY <1>2, <1>3, <1>4 DEF ReleaseWaits

LEMMA PreviewMatchesHolds ==
  ASSUME PlanInv
  PROVE  PreviewMatches
<1> SUFFICES ASSUME verdict.is = "ok", command.op = "metadata", quiet
             PROVE  /\ verdict.plan.size = repo["artifact"].size
                    /\ verdict.plan.sha256 = repo["artifact"].bytes
  BY DEF PreviewMatches
<1>1. /\ reads[<<"stat", "artifact">>] = repo["artifact"]
      /\ reads[<<"command", "artifact">>] = repo["artifact"]
  BY AllRead
<1>2. verdict.plan = [size |-> reads[<<"stat", "artifact">>].size, sha256 |-> Read("artifact").bytes]
  BY DEF PlanInv, EndInv
<1> QED BY <1>1, <1>2 DEF Read

\* Whatever the authors edit while a command reads, its plan, its gate and its
\* preview say what the documents it read say, and while nobody edits them nothing
\* open is left out and the image carries what is planned (build_plan,
\* validate_artools_profile_sources, native_iso_build_gate, build_metadata_preview, confirm_destructive_plan).
THEOREM PlanIsSound == BuildPlanSpec => []PlansAreSound
<1>1. PlanInv => PlansAreSound
  BY DisksAddUpHolds, PlansAreCompleteHolds, NothingOpenIsHiddenHolds, ReleaseWaitsHolds,
     PreviewMatchesHolds
  DEF PlansAreSound, PlanInv
<1> QED BY <1>1, PlanInvariant, PTL
=============================================================================
