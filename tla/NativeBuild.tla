---------------------------- MODULE NativeBuild ----------------------------
(***************************************************************************)
(* The native ISO build of scripts/artix/context.py around the repository  *)
(* closure: the outer process checks for what an earlier attempt left      *)
(* behind, starts the build in a private mount namespace, and afterwards   *)
(* looks for surviving mounts, processes and loop devices, removes the     *)
(* run's scratch tree and writes native-cleanup.json.  The inner process   *)
(* clones the prepared context, freezes the closure, runs buildiso behind  *)
(* the live gate and moves the one ISO into the artifact directory.        *)
(***************************************************************************)
EXTENDS RepositoryClosure

CONSTANT MaxAgain        \* bound: builds started again by hand for a staged run

VARIABLES prepared,  \* the persistent prepared Artix upper layer exists
          staged,    \* runs with a staging manifest
          scratch,   \* runs whose artix-context tree exists
          iso,       \* [Runs -> where the run's ISO stands]
          result,    \* native-build-result.json: the closure report it is bound to
          cleanup,   \* native-cleanup.json
          left,      \* [Runs -> what survives of the run's namespace]
          loops,     \* runs that left a loop device on the seed
          outer,     \* build_iso: its place, the loop devices before, its error
          again      \* builds started by hand

nativeVars == <<prepared, staged, scratch, iso, result, cleanup, left, loops, outer, again>>

Put(f, r, v) == [x \in DOMAIN f \cup {r} |-> IF x = r THEN v ELSE f[x]]
OuterIdle == [at |-> "idle", err |-> FALSE, loops |-> {}]

\* The legacy state file is removed first: a failed prepare leaves none.
prepare_mounted ==
    /\ outer.at = "idle" /\ ~prepared /\ prepared' = TRUE
    /\ UNCHANGED <<closureVars, staged, scratch, iso, result, cleanup, left, loops, outer, again>>

\* Refused once the artifact directory holds an ISO.
load_native_manifest(r) == r \in staged /\ iso[r] # "artifact"

CleanupReport(ok, action, r, leaked, removed) ==
    [status |-> IF ok THEN "pass" ELSE "fail", action |-> action, left |-> left[r],
     leaked |-> leaked, removed |-> removed]

\* build_iso up to the private namespace; references of an earlier attempt of
\* the same run stop it with failing evidence.
start_build_iso(r) ==
    /\ load_native_manifest(r)
    /\ run' = r
    /\ IF left[r] # {}
       THEN /\ cleanup' = Put(cleanup, r, CleanupReport(FALSE, FALSE, r, {}, r \notin scratch))
            /\ outer' = [at |-> "exited", err |-> TRUE, loops |-> loops]
            /\ UNCHANGED at
       ELSE /\ outer' = [at |-> "inner", err |-> FALSE, loops |-> loops]
            /\ at' = "inner" /\ UNCHANGED cleanup

\* snapshot_prepared_upper, mount_context, the artools contract and the bind
\* of the run's work root.
build_iso_inner ==
    /\ at = "inner"
    /\ \/ prepared /\ run \notin scratch /\ scratch' = scratch \cup {run} /\ at' = "setup"
       \/ scratch' \in {scratch, scratch \cup {run}} /\ at' = "raised"
    /\ ro' = {} /\ restored' = FALSE
    /\ UNCHANGED <<persistent, run, ev, w, sync, touched, prepared, staged, iso, result, cleanup,
                   left, loops, outer, again>>

\* artools is patched for the live kernel, which may fail; then the live gate
\* and, in the same call, the start of buildiso.
run_buildiso_after_security_boundary ==
    /\ at = "closed"
    /\ \/ require_live_buildiso_security_boundary(ev) /\ at' = "building"
       \/ at' = "raised"
    /\ UNCHANGED <<persistent, run, ev, w, ro, sync, restored, touched, nativeVars>>

buildiso ==
    /\ at = "building"
    /\ \/ at' = "collect" /\ iso' = [iso EXCEPT ![run] = "work"]
       \/ at' \in {"collect", "raised"} /\ UNCHANGED iso
    /\ UNCHANGED <<persistent, run, ev, w, ro, sync, restored, touched, prepared, staged, scratch,
                   result, cleanup, left, loops, outer, again>>

\* Exactly one ISO is moved to the artifact directory, never over another one;
\* then native-build-result.json is bound to the closure evidence on disk.
collect_iso ==
    /\ at = "collect"
    /\ IF iso[run] = "work"
       THEN /\ iso' = [iso EXCEPT ![run] = "artifact"]
            /\ \/ at' = "built" /\ result' = Put(result, run, report[run])
               \/ at' = "raised" /\ UNCHANGED result
       ELSE at' = "raised" /\ UNCHANGED <<iso, result>>
    /\ UNCHANGED <<persistent, run, ev, w, ro, sync, restored, touched, prepared, staged, scratch,
                   cleanup, left, loops, outer, again>>

\* The memory of the inner process and its mounts are gone.
inner_is_gone ==
    /\ at' = "dead" /\ ev' = NewEvidence(0) /\ w' = NoWork /\ ro' = {}
    /\ sync' = None /\ restored' = FALSE /\ touched' = {}

\* The namespace is gone with its last process; a child of buildiso or of a
\* helper with its mounts, or a loop device on the seed, may stay.
run_private_namespace ==
    /\ outer.at = "inner" /\ at \in {"raised", "built"}
    /\ \/ UNCHANGED <<left, loops>>
       \/ left' = [left EXCEPT ![run] = {"process"}] /\ UNCHANGED loops
       \/ loops' = loops \cup {run} /\ UNCHANGED left
    /\ outer' = [outer EXCEPT !.at = "sweep", !.err = at = "raised"]
    /\ inner_is_gone
    /\ UNCHANGED <<persistent, run, prepared, staged, scratch, iso, result, cleanup, again>>

\* The inner process is killed at any point.
inner_killed ==
    /\ outer.at = "inner" /\ at \notin {"raised", "built"}
    /\ left' = [left EXCEPT ![run] = {"process", "mount"}]
    /\ outer' = [outer EXCEPT !.at = "sweep", !.err = TRUE]
    /\ inner_is_gone
    /\ UNCHANGED <<persistent, run, prepared, staged, scratch, iso, result, cleanup, loops, again>>

cleanup_ok(r) == left[r] = {} /\ loops \ outer.loops = {}

\* The rest of build_iso: survivors, scratch removal, evidence.
build_iso ==
    LET leaked == loops \ outer.loops
    IN  /\ outer.at = "sweep"
        /\ \E removable \in BOOLEAN :
             LET removed == cleanup_ok(run) /\ removable
             IN  /\ scratch' = IF removed THEN scratch \ {run} ELSE scratch
                 /\ cleanup' = Put(cleanup, run,
                                    CleanupReport(removed, ~outer.err, run, leaked, removed))
                 /\ outer' = [outer EXCEPT !.at = "exited", !.err = @ \/ ~removed]
        /\ UNCHANGED <<closureVars, prepared, staged, iso, result, left, loops, again>>

\* Processes that outlived a build end, their mounts and loop devices with them.
SurvivorsEnd ==
    /\ outer.at \in {"idle", "exited"}
    /\ \E r \in Runs : /\ left[r] # {} \/ r \in loops
                       /\ left' = [left EXCEPT ![r] = {}] /\ loops' = loops \ {r}
    /\ UNCHANGED <<closureVars, prepared, staged, scratch, iso, result, cleanup, outer, again>>

\* The operator starts build-iso again for a run whose first attempt left its
\* closure directory (without it, the attempt is like a first one).
BuildAgain ==
    /\ outer.at = "idle" /\ again < MaxAgain /\ again' = again + 1
    /\ \E r \in DOMAIN cleanup \cap dirs : start_build_iso(r)
    /\ UNCHANGED <<persistent, ev, w, ro, sync, restored, touched, prepared, staged, scratch, iso,
                   result, left, loops>>

NativeStep ==
    \/ prepare_repository_closure /\ outer.at = "inner" /\ UNCHANGED nativeVars
    \/ build_iso_inner \/ run_buildiso_after_security_boundary \/ buildiso \/ collect_iso
    \/ run_private_namespace \/ inner_killed \/ build_iso

NativeEnvironment ==
    \/ HostTouchesCache /\ outer.at = "inner" /\ UNCHANGED nativeVars
    \/ prepare_mounted \/ SurvivorsEnd
============================================================================
