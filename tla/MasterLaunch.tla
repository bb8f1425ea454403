---------------------------- MODULE MasterLaunch ----------------------------
(***************************************************************************)
(* The Master Portus launcher: every login runs portus-bootstrap, which    *)
(* prepares the user's workspace, then attaches to the one tmux session    *)
(* named MasterPortus or creates it; portus-master, inside the session,    *)
(* prepares the same workspace and starts Codex, a shell or the doctor     *)
(* (launch.rs, workspace.rs, system.rs).  Launchers of one user run side by*)
(* side without a lock; directories and AGENTS.md are checked, created and *)
(* checked again, while others may change them.                            *)
(*                                                                         *)
(* tmux, Codex and the file system are external: a tmux command is one     *)
(* step of its server.                                                     *)
(***************************************************************************)
EXTENDS Naturals

CONSTANTS
  Launchers,         \* runs of portus-bootstrap and portus-master
  Others,            \* whoever else made a file
  Modes,             \* how they are started
  Identities,        \* who they may run as
  InitialWorkspaces, \* what the paths may hold at first
  Intruded,          \* what somebody else may put at a path
  MaxIntrusions,     \* bound on changes of the paths by others
  MaxLaunchFaults,   \* bound on failed commands and file operations
  MaxSessions        \* bound on the sessions that end

\* The paths, in the order prepare_workspace visits them.
Paths == {"root", "user", "master", "agents"}
Nodes == [type : {"none", "dir", "file", "symlink", "other"}, mine : BOOLEAN,
          text : {"none", "empty", "shipped", "edited"}, by : Launchers \cup {Others}]
MasterModes == {"bootstrap", "new", "resume", "resume_last", "resume_id", "bad_id", "shell", "doctor"}

ASSUME LaunchAssumption ==
  /\ Modes \subseteq MasterModes /\ Others \notin Launchers
  /\ Identities \subseteq [root : BOOLEAN, named : BOOLEAN, home : BOOLEAN, shell : BOOLEAN]
  /\ InitialWorkspaces \subseteq [Paths -> Nodes] /\ Intruded \subseteq Nodes
  /\ {MaxIntrusions, MaxLaunchFaults, MaxSessions} \subseteq Nat

VARIABLES
  node,         \* what is at each path
  session,      \* the number of the running MasterPortus session, 0: none
  sessions,     \* sessions created so far
  ends,         \* how many of them have ended
  step,         \* where each launcher is
  mode,         \* how it was started
  outcome,      \* what it reported
  joined,       \* history: the session it attached to
  found,        \* history: what was at each path at first
  intrusions,   \* history: paths changed by others since the start
  launch_faults

launchVars == <<node, session, sessions, ends, step, mode, outcome, joined, found, intrusions,
                launch_faults>>

Missing == [type |-> "none", mine |-> FALSE, text |-> "none", by |-> Others]
Directory(l) == [type |-> "dir", mine |-> TRUE, text |-> "none", by |-> l]
EmptyFile(l) == [type |-> "file", mine |-> TRUE, text |-> "empty", by |-> l]

Finish(l, code) ==
  /\ step' = [step EXCEPT ![l] = "done"]
  /\ outcome' = [outcome EXCEPT ![l] = code]
Go(l, label) == step' = [step EXCEPT ![l] = label] /\ UNCHANGED outcome

Fault == launch_faults < MaxLaunchFaults /\ launch_faults' = launch_faults + 1

\* The next step of prepare_workspace after a path is found good.
After(p) ==
  CASE p = "root"   -> "user"
    [] p = "user"   -> "master"
    [] p = "master" -> "agents"
    [] p = "agents" -> "command"

(***************************************************************************)
(* prepare_workspace.                                                      *)
(***************************************************************************)
\* A user name that is one component of a path.
validate_username(id) == id.named

\* LaunchContext::validate: never as root, and with a name, a home and a shell.
validate(id) ==
  IF id.root THEN "root_execution"
  ELSE IF ~validate_username(id) \/ ~id.home \/ ~id.shell THEN "invalid_identity" ELSE "none"

\* The effective identity from /proc/self/status and /etc/passwd cannot be read.
system_identity_fails(l) ==
  /\ step[l] = "new"
  /\ Fault /\ Finish(l, "identity_discovery")
  /\ UNCHANGED <<node, session, sessions, ends, mode, joined, found, intrusions>>

start(l) ==
  /\ step[l] = "new"
  /\ \E id \in Identities, m \in Modes :
       /\ mode' = [mode EXCEPT ![l] = m]
       /\ IF validate(id) = "none" THEN Go(l, "root") ELSE Finish(l, validate(id))
  /\ UNCHANGED <<node, session, sessions, ends, joined, found, intrusions, launch_faults>>

\* Mutant: a symbolic link to a directory is a directory.
followed(p, n) ==
  IF n.type = "none" THEN "unavailable"
  ELSE IF n.type # "symlink" /\ n.type # IF p = "agents" THEN "file" ELSE "dir" THEN "unsafe_file_type"
  ELSE IF p # "root" /\ ~n.mine THEN "ownership_mismatch" ELSE "none"

\* What is wrong with what is at a path: a link, another type, another owner.
\* The workspace root belongs to anybody.
inspected(p, n) ==
  IF n.type = "none" THEN "unavailable"
  ELSE IF n.type = "symlink" THEN "unsafe_symlink"
  ELSE IF n.type # IF p = "agents" THEN "file" ELSE "dir" THEN "unsafe_file_type"
  ELSE IF p # "root" /\ ~n.mine THEN "ownership_mismatch" ELSE "none"

\* validate_existing_directory of the root, and the first look of
\* ensure_user_directory and ensure_agents_file.
inspect(l) ==
  /\ step[l] \in Paths
  /\ LET p == step[l]
         wrong == inspected(p, node[p])
     IN  CASE wrong = "none" -> Go(l, After(p))
           [] wrong = "unavailable" /\ p = "user"   -> Go(l, "create_user")
           [] wrong = "unavailable" /\ p = "master" -> Go(l, "create_master")
           [] wrong = "unavailable" /\ p = "agents" -> Go(l, "create_agents")
           [] OTHER -> Finish(l, wrong)
  /\ UNCHANGED <<node, session, sessions, ends, mode, joined, found, intrusions, launch_faults>>

Creating(l) == IF step[l] = "create_user" THEN "user" ELSE "master"

\* create_dir; that the directory exists by now is no error.
create_dir(l) ==
  /\ step[l] \in {"create_user", "create_master"}
  /\ LET p == Creating(l)
     IN  \/ /\ node' = IF node[p].type = "none" THEN [node EXCEPT ![p] = Directory(l)] ELSE node
            /\ Go(l, IF p = "user" THEN "inspect_user" ELSE "inspect_master")
            /\ UNCHANGED launch_faults
         \/ Fault /\ Finish(l, "io") /\ UNCHANGED node
  /\ UNCHANGED <<session, sessions, ends, mode, joined, found, intrusions>>

\* The second look at the directory.
inspect_created(l) ==
  /\ step[l] \in {"inspect_user", "inspect_master"}
  /\ LET p == IF step[l] = "inspect_user" THEN "user" ELSE "master"
         wrong == inspected(p, node[p])
     IN  CASE wrong = "none" -> Go(l, After(p))
           [] wrong = "unavailable" -> Finish(l, "io")
           [] OTHER -> Finish(l, wrong)
  /\ UNCHANGED <<node, session, sessions, ends, mode, joined, found, intrusions, launch_faults>>

\* AGENTS.md is created only if it is still missing; otherwise it is inspected
\* like one that was there.
create_agents(l) ==
  /\ step[l] = "create_agents"
  /\ \/ /\ node["agents"].type = "none"
        /\ node' = [node EXCEPT !["agents"] = EmptyFile(l)]
        /\ Go(l, "write_agents") /\ UNCHANGED launch_faults
     \/ /\ node["agents"].type # "none"
        /\ Go(l, "agents") /\ UNCHANGED <<node, launch_faults>>
     \/ Fault /\ Finish(l, "io") /\ UNCHANGED node
  /\ UNCHANGED <<session, sessions, ends, mode, joined, found, intrusions>>

\* Writing goes to the file that was opened, if it is still the one at the path.
\* A failed write removes whatever is at the path.
write_agents(l) ==
  /\ step[l] = "write_agents"
  /\ \/ /\ node' = IF node["agents"] = EmptyFile(l)
                   THEN [node EXCEPT !["agents"].text = "shipped"] ELSE node
        /\ Go(l, "inspect_agents") /\ UNCHANGED launch_faults
     \/ /\ Fault
        /\ node' = [node EXCEPT !["agents"] = IF @.type = "dir" THEN @ ELSE Missing]
        /\ Finish(l, "io")
  /\ UNCHANGED <<session, sessions, ends, mode, joined, found, intrusions>>

\* The second look at AGENTS.md is at its owner only.
inspect_agents(l) ==
  /\ step[l] = "inspect_agents"
  /\ IF node["agents"].type = "none" THEN Finish(l, "io")
     ELSE IF ~node["agents"].mine THEN Finish(l, "ownership_mismatch")
     ELSE Go(l, "command")
  /\ UNCHANGED <<node, session, sessions, ends, mode, joined, found, intrusions, launch_faults>>

(***************************************************************************)
(* run_bootstrap and run_master.                                           *)
(***************************************************************************)
\* A command cannot be run, or fails although nothing speaks against it.
command_fails(l) ==
  /\ step[l] \in {"command", "create", "has_again", "attach", "attach_created", "attach_race"}
  /\ Fault
  /\ \E code \in {"dependency_unavailable", "process_failed"} : Finish(l, code)
  /\ UNCHANGED <<node, session, sessions, ends, mode, joined, found, intrusions>>

\* tmux has-session -t =MasterPortus
tmux_has_session(l) ==
  /\ step[l] = "command" /\ mode[l] = "bootstrap"
  /\ Go(l, IF session # 0 THEN "attach" ELSE "create")
  /\ UNCHANGED <<node, session, sessions, ends, mode, joined, found, intrusions, launch_faults>>

\* tmux new-session -d: fails when the name is taken.
tmux_create(l) ==
  /\ step[l] = "create"
  /\ IF session = 0
     THEN /\ sessions' = sessions + 1 /\ session' = sessions'
          /\ Go(l, "attach_created")
     ELSE /\ UNCHANGED <<session, sessions>>
          /\ Go(l, "has_again")
  /\ UNCHANGED <<node, ends, mode, joined, found, intrusions, launch_faults>>

\* Mutant: a session that another login created first is an error.
no_second_chance(l) ==
  /\ step[l] = "has_again"
  /\ Finish(l, "process_failed")
  /\ UNCHANGED <<node, session, sessions, ends, mode, joined, found, intrusions, launch_faults>>

\* After a failed create the session is looked for once more.
has_session_again(l) ==
  /\ step[l] = "has_again"
  /\ IF session # 0 THEN Go(l, "attach_race") ELSE Finish(l, "process_failed")
  /\ UNCHANGED <<node, session, sessions, ends, mode, joined, found, intrusions, launch_faults>>

Attached(label) ==
  CASE label = "attach"         -> "attached_existing"
    [] label = "attach_created" -> "created_and_attached"
    [] label = "attach_race"    -> "attached_after_create_race"

tmux_attach(l) ==
  /\ step[l] \in {"attach", "attach_created", "attach_race"}
  /\ IF session # 0
     THEN Finish(l, Attached(step[l])) /\ joined' = [joined EXCEPT ![l] = session]
     ELSE Finish(l, "process_failed") /\ UNCHANGED joined
  /\ UNCHANGED <<node, session, sessions, ends, mode, found, intrusions, launch_faults>>

\* portus-master: one command in the workspace; a resume target that is empty,
\* too long, an option or not printable is refused.
master_command(l) ==
  /\ step[l] = "command" /\ mode[l] \notin {"bootstrap", "doctor"}
  /\ Finish(l, IF mode[l] = "bad_id" THEN "invalid_resume_target" ELSE "ran")
  /\ UNCHANGED <<node, session, sessions, ends, mode, joined, found, intrusions, launch_faults>>

\* Both doctors run, whatever the first one says.
run_doctor(l) ==
  /\ step[l] = "command" /\ mode[l] = "doctor"
  /\ \E codex, portus \in {"ok", "process_failed"} :
       Finish(l, IF codex # "ok" THEN codex ELSE IF portus # "ok" THEN portus ELSE "ran")
  /\ UNCHANGED <<node, session, sessions, ends, mode, joined, found, intrusions, launch_faults>>

(***************************************************************************)
(* The others: the session ends, a launcher is killed, a path changes.     *)
(***************************************************************************)
session_ends ==
  /\ session # 0 /\ ends < MaxSessions
  /\ session' = 0 /\ ends' = ends + 1
  /\ UNCHANGED <<node, sessions, step, mode, outcome, joined, found, intrusions, launch_faults>>

launcher_killed(l) ==
  /\ step[l] \notin {"new", "done"}
  /\ Fault /\ Finish(l, "killed")
  /\ UNCHANGED <<node, session, sessions, ends, mode, joined, found, intrusions>>

somebody_changes(p) ==
  /\ intrusions < MaxIntrusions
  /\ intrusions' = intrusions + 1
  /\ \E n \in Intruded : n # node[p] /\ node' = [node EXCEPT ![p] = n]
  /\ UNCHANGED <<session, sessions, ends, step, mode, outcome, joined, found, launch_faults>>

LaunchInit ==
  /\ node \in InitialWorkspaces /\ found = node
  /\ session = 0 /\ sessions = 0 /\ ends = 0
  /\ step = [l \in Launchers |-> "new"]
  /\ mode = [l \in Launchers |-> "none"]
  /\ outcome = [l \in Launchers |-> "none"]
  /\ joined = [l \in Launchers |-> 0]
  /\ intrusions = 0 /\ launch_faults = 0

LaunchNext ==
  \/ \E l \in Launchers :
       \/ start(l) \/ system_identity_fails(l) \/ inspect(l) \/ create_dir(l) \/ inspect_created(l)
       \/ create_agents(l) \/ write_agents(l) \/ inspect_agents(l)
       \/ tmux_has_session(l) \/ tmux_create(l) \/ has_session_again(l) \/ tmux_attach(l)
       \/ master_command(l) \/ run_doctor(l)
       \/ command_fails(l) \/ launcher_killed(l)
  \/ session_ends
  \/ \E p \in Paths : somebody_changes(p)

LaunchSpec == LaunchInit /\ [][LaunchNext]_launchVars

(***************************************************************************)
(* Properties.                                                             *)
(***************************************************************************)
PreparedSteps == {"command", "create", "has_again", "attach", "attach_created", "attach_race"}
Successes == {"attached_existing", "created_and_attached", "attached_after_create_race"}

LaunchErrors ==
  {"root_execution", "invalid_identity", "identity_discovery", "invalid_resume_target", "io",
   "unavailable", "unsafe_symlink", "unsafe_file_type", "ownership_mismatch",
   "dependency_unavailable", "process_failed"}

LaunchTypeOK ==
  /\ node \in [Paths -> Nodes] /\ {sessions, ends} \subseteq Nat
  /\ session = IF sessions = ends THEN 0 ELSE sessions
  /\ step \in [Launchers -> Paths \cup PreparedSteps \cup
        {"new", "create_user", "inspect_user", "create_master", "inspect_master",
         "create_agents", "write_agents", "inspect_agents", "done"}]
  /\ mode \in [Launchers -> Modes \cup {"none"}]
  /\ outcome \in [Launchers -> LaunchErrors \cup Successes \cup {"none", "ran", "killed"}]
  /\ joined \in [Launchers -> Nat] /\ intrusions \in Nat /\ launch_faults \in Nat

\* Logins that race share one session: whoever reports success attached to a
\* session that existed, and as long as none has ended and no command failed
\* there is one session, at most one login says it created it, and no login
\* that got past the workspace is left without it (run_bootstrap with its
\* second has-session).
LoginsShareOneSession ==
  /\ LaunchTypeOK
  /\ \A l \in Launchers : outcome[l] \in Successes => joined[l] \in 1 .. sessions
  /\ sessions <= ends + 1
  /\ ends = 0 /\ launch_faults = 0 =>
       /\ \A k, l \in Launchers :
            {outcome[k], outcome[l]} = {"created_and_attached"} => k = l
       /\ \A l \in Launchers :
            /\ mode[l] = "bootstrap" => outcome[l] \notin {"process_failed", "dependency_unavailable"}
            /\ outcome[l] \in Successes => joined[l] = session

\* Launchers only add to a workspace: as long as nobody else changes it, what
\* they found stays, an edited AGENTS.md above all, and a launcher that starts
\* a session or a command does so in directories that are real and the user's
\* own, with an AGENTS.md that is a file of the user, unless another launcher
\* failed to write it and took it away (prepare_workspace).
WorkspaceIsRespected ==
  intrusions = 0 =>
    /\ \A p \in Paths : found[p].type # "none" => node[p] = found[p]
    /\ \A l \in Launchers, p \in Paths :
         step[l] \in PreparedSteps /\ (p = "agents" => launch_faults = 0) =>
           inspected(p, node[p]) = "none"

\* What run_bootstrap and prepare_workspace promise every login, together.
LaunchIsSafe == LoginsShareOneSession /\ WorkspaceIsRespected
=============================================================================
