----------------------------- MODULE MCHostTools -----------------------------
(***************************************************************************)
(* The programs that run beside the daemons, for TLC: the commands on a    *)
(* release candidate, the commands that plan an image, the installer, the  *)
(* launcher and visual control.  They share no state, so a behaviour is one*)
(* of one of them: the part is chosen at first and the others keep still.  *)
(***************************************************************************)
EXTENDS ReleaseCandidate, BuildPlan, Install, MasterLaunch, VisualControl, TLC

CONSTANTS bin1, conf1, v1, w1, w2, p1, p2, p3, s1, n1, n2, n3, sv1, sv2

VARIABLE part

candidateVars == vars
hostVars == <<part, candidateVars, planVars, installVars, launchVars, visualVars>>

(***************************************************************************)
(* Values of the constants.                                                *)
(***************************************************************************)
\* install: one binary and one configuration file.
MCArea == [i \in Items |-> IF i = bin1 THEN "bin" ELSE "etc"]
Left == [resolution |-> "linux-verified", complete |-> TRUE, reason |-> TRUE]
Settled == [resolution |-> "locked", complete |-> TRUE, reason |-> FALSE]
Shipped ==
  [version |-> 1, binaries |-> {bin1}, policy |-> [i \in {conf1} |-> "administrator-config"],
   directories |-> [d \in Directories |-> IF d \in LockedDirectories THEN Settled ELSE Left],
   identities |-> [d \in ManifestIdentities |-> IF d \in LockedIdentities THEN Settled ELSE Left],
   services |-> [d \in REQUIRED_SERVICES |-> Left], external |-> Left, preserves |-> TRUE]
MCManifests ==
  {Shipped, [Shipped EXCEPT !.policy[conf1] = "package-owned"],
   [Shipped EXCEPT !.external = Settled]}

\* launch: a new user, one with an edited AGENTS.md, and paths that are refused.
MCIdentities ==
  {[root |-> FALSE, named |-> TRUE, home |-> TRUE, shell |-> TRUE],
   [root |-> TRUE, named |-> TRUE, home |-> TRUE, shell |-> TRUE],
   [root |-> FALSE, named |-> FALSE, home |-> TRUE, shell |-> TRUE]}
Foreign(type, mine, text) == [type |-> type, mine |-> mine, text |-> text, by |-> Others]
MCIntruded ==
  {Missing, Foreign("symlink", TRUE, "none"), Foreign("file", FALSE, "edited")}
NewUser == [p \in Paths |-> IF p = "root" THEN Foreign("dir", FALSE, "none") ELSE Missing]
OldUser ==
  [NewUser EXCEPT !["user"] = Foreign("dir", TRUE, "none"),
                  !["master"] = Foreign("dir", TRUE, "none"),
                  !["agents"] = Foreign("file", TRUE, "edited")]
MCWorkspaces ==
  {NewUser, OldUser, [OldUser EXCEPT !["master"] = Foreign("dir", FALSE, "none")],
   [OldUser EXCEPT !["agents"] = Foreign("symlink", TRUE, "none")],
   [NewUser EXCEPT !["root"] = Missing]}

\* visual: a window that shrinks, turns sensitive or is replaced, and a display.
Shown(kind, g, width, mood) ==
  [kind |-> kind, generation |-> g, sized |-> width # 0, width |-> width, height |-> 1,
   sensitivity |-> mood]
Usual == Shown("window", 1, 2, "normal")
MCDesktops ==
  {Usual, Shown("window", 1, 1, "normal"), Shown("window", 1, 2, "sensitive"),
   Shown("window", 2, 2, "normal"), Shown("display", 1, 0, "normal")}
MCInitialDesktops == {[t \in Targets |-> Usual]}
Seen(t) ==
  [mine |-> TRUE, freshness |-> "live", type |-> "window", named |-> TRUE, clean |-> TRUE,
   ref |-> t, generation |-> 1, structured |-> FALSE, fallback |-> TRUE]
Plain(op, t) ==
  [op |-> op, seen |-> Seen(t), structured |-> FALSE, why |-> "no_structured_route",
   x |-> 1, y |-> 0, keys |-> [form |-> "chord", length |-> 1, clean |-> TRUE],
   keep |-> TRUE, effect |-> "allow"]
MCAskedOfVisual ==
  {Plain("capture", w1), Plain("pointer", w1),
   [Plain("keyboard", w2) EXCEPT !.seen.structured = TRUE, !.why = "structured_route_failed"],
   [Plain("keyboard", w1) EXCEPT !.effect = "prompt"],
   [Plain("capture", w1) EXCEPT !.effect = "reject"],
   [Plain("capture", w1) EXCEPT !.effect = "error"],
   [Plain("capture", w1) EXCEPT !.seen.type = "display", !.keep = FALSE],
   [Plain("pointer", w1) EXCEPT !.seen.type = "display"],
   [Plain("keyboard", w2) EXCEPT !.keys.length = MAX_KEY_CHORD_KEYS + 1],
   [Plain("keyboard", w2) EXCEPT !.seen.structured = TRUE],
   [Plain("capture", w2) EXCEPT !.seen.freshness = "stale"],
   [Plain("capture", w2) EXCEPT !.seen.fallback = FALSE]}

\* plan: a role of the image, one of the build host, one of Portus, and one service.
\* The graph has an open role of the build host, or a package lock, or it is an
\* early draft with a service without a name and an open role of the image.
Sure == [resolution |-> "locked", concrete |-> TRUE, reason |-> TRUE]
Open == [resolution |-> "linux-verified", concrete |-> FALSE, reason |-> TRUE]
Chosen(ns) ==
  [class |-> "official-artix", build_host |-> FALSE, kind |-> "package", resolution |-> "locked",
   names |-> ns, clean |-> TRUE, reason |-> FALSE]
Undecided == [Chosen({}) EXCEPT !.resolution = "owner-decision", !.reason = TRUE]
Base == Chosen({n1, n2})
Host(p) == [p EXCEPT !.build_host = TRUE]
Ours == [Chosen({}) EXCEPT !.class = "portus-owned", !.kind = "contract"]
Inventory(p, q, r) ==
  [inventory |-> TRUE, policies |-> TRUE, packages |-> (p1 :> p @@ p2 :> q @@ p3 :> r)]
Shipping == Inventory(Base, Host(Undecided), Ours)
Locked == Inventory(Base, Host(Chosen({n3})), Ours)
Draft == Inventory(Undecided, Host(Chosen({n3})), Ours)
Served(s) == [authority |-> TRUE, exact |-> TRUE, services |-> (s1 :> s)]
OnBoot ==
  [package_id |-> p1, openrc |-> TRUE, service |-> "locked", runlevel |-> "locked",
   service_name |-> sv1, placed |-> TRUE, reason |-> FALSE]
Unplaced ==
  [OnBoot EXCEPT !.runlevel = "linux-verified", !.service_name = NoFile, !.placed = FALSE,
                 !.reason = TRUE]
LiveProfile(n, ns) ==
  [fixed |-> TRUE, services |-> (s1 :> n), rootfs |-> ns, livefs |-> LiveOnlyPackages]
LockOf(c) ==
  [sound |-> TRUE, source |-> c, classes |-> [p \in PackageIds |-> c.packages[p].class],
   artifacts |-> [p \in PackageIds |-> IF c.packages[p].names = {} THEN {n1} ELSE c.packages[p].names]]
Layout == [fixed |-> TRUE, esp |-> 512, boot |-> 2048, swap |-> 4096, percent |-> 5]
Profile == [locked |-> TRUE, shape |-> TRUE, exact |-> TRUE, disk_gib |-> 40]
Graph(packages, service, profile, lock) ==
  [d \in Documents |->
     CASE d \in PlainDocuments -> [fixed |-> TRUE]
       [] d \in Components     -> [fixed |-> TRUE, pin |-> Sure, evidence |-> Open]
       [] d = "packages"       -> packages
       [] d = "services"       -> Served(service)
       [] d = "profile"        -> profile
       [] d = "common"         -> [memtest |-> TRUE, packages |-> {}]
       [] d = "lock"           -> lock
       [] d = "storage"        -> Layout
       [] d = "vms"            -> Profile
       [] d = "identities"     -> [fixed |-> TRUE, resolutions |-> TRUE]
       [] d = "calamares"      -> [fixed |-> TRUE, module_set |-> Sure, storage_implementation |-> Open]
       [] d = "iso"            -> [fixed |-> TRUE, artools_profile |-> Sure]
       [] d = "install"        -> [fixed |-> TRUE, release_ready |-> FALSE]
       [] d = "artifact"       -> [regular |-> TRUE, size |-> 1, bytes |-> 1]
       [] OTHER                -> [fixed |-> TRUE, mapping |-> "locked"]]
MCGraphs ==
  {Graph(Shipping, OnBoot, LiveProfile(sv1, {n1}), NoFile),
   Graph(Locked, OnBoot, LiveProfile(sv1, {n1}), LockOf(Locked)),
   Graph(Draft, Unplaced, LiveProfile(NoFile, {}), NoFile)}
MCEditions ==
  [d \in Documents |->
     CASE d = "layout"           -> {[fixed |-> FALSE]}
       [] d = "codex"            -> {[fixed |-> TRUE, pin |-> Open, evidence |-> Open]}
       [] d = "packages"         -> {Shipping, Locked, Draft, Inventory(Ours, Host(Undecided), Ours),
                                     Inventory(Base, [Undecided EXCEPT !.class = "validation-only"], Ours),
                                     Inventory(Base, Host([Undecided EXCEPT !.reason = FALSE]), Ours)}
       [] d = "services"         -> {Served(Unplaced), Served([Unplaced EXCEPT !.service_name = sv1]),
                                     Served([OnBoot EXCEPT !.service_name = sv2]),
                                     Served([OnBoot EXCEPT !.package_id = NoFile])}
       [] d = "lock"             -> {LockOf(Shipping)}
       [] d = "storage"          -> {[Layout EXCEPT !.swap = 0]}
       [] d = "profile"          -> {LiveProfile(sv1, {n1}), LiveProfile(sv2, {n1}), LiveProfile(sv1, {n3})}
       [] d = "common"           -> {[memtest |-> FALSE, packages |-> {}], [memtest |-> TRUE, packages |-> {n1}]}
       [] d = "vms"              -> {[Profile EXCEPT !.disk_gib = n] : n \in {1, 300}}
       [] d = "calamares"        -> {[fixed |-> TRUE, module_set |-> Sure, storage_implementation |-> Sure]}
       [] d = "install"          -> {[fixed |-> TRUE, release_ready |-> TRUE]}
       [] d = "artools"          -> {[fixed |-> TRUE, mapping |-> "generated"]}
       [] d = "responsibilities" -> {[fixed |-> TRUE, mapping |-> "linux-verified"]}
       [] d = "artifact"         -> {[regular |-> TRUE, size |-> 2, bytes |-> 2]}
       [] OTHER                  -> {}]

(***************************************************************************)
(* The specification.                                                      *)
(***************************************************************************)
HostInit ==
  /\ part \in {"candidate", "plan", "install", "launch", "visual"}
  /\ Init /\ BuildPlanInit /\ InstallInit /\ LaunchInit /\ VisualInit
  /\ source = [i \in Items |-> v1] /\ (part # "install" => root = Gone)
  /\ part # "plan" => repo = Graph(Shipping, OnBoot, LiveProfile(sv1, {n1}), NoFile)
  /\ part # "launch" => node = NewUser
  /\ part # "visual" => focused = Nothing

HostNext ==
  \/ /\ part = "candidate" /\ Next
     /\ UNCHANGED <<part, planVars, installVars, launchVars, visualVars>>
  \/ /\ part = "plan" /\ BuildPlanNext
     /\ UNCHANGED <<part, candidateVars, installVars, launchVars, visualVars>>
  \/ /\ part = "install" /\ InstallNext
     /\ UNCHANGED <<part, candidateVars, planVars, launchVars, visualVars>>
  \/ /\ part = "launch" /\ LaunchNext
     /\ UNCHANGED <<part, candidateVars, planVars, installVars, visualVars>>
  \/ /\ part = "visual" /\ VisualNext
     /\ UNCHANGED <<part, candidateVars, planVars, installVars, launchVars>>

HostSpec == HostInit /\ [][HostNext]_hostVars
=============================================================================
