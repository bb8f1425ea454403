---------------------------- MODULE MCPolicyAdmin ----------------------------
(* Three actions, one of each kind that the rules tell apart, and two       *)
(* bundles that disagree about the typed one.                               *)
EXTENDS PolicyAdmin, TLC

CONSTANTS r1, r2, r3, u1, u2, b1, b2, x1, x2

MCBundleGrants ==
  (b1 :> {[action |-> "typed", effect |-> "prompt", resources |-> {}]}) @@
  (b2 :> {[action |-> "typed", effect |-> "allow", resources |-> {}]})

\* A subject written by hand, with a grant over two resources, and nobody else.
MCPolicies ==
  {[u \in Uids |-> IF u = u1
      THEN [bundles |-> [b \in Bundles |-> IF b = b1 THEN "on" ELSE "none"],
            grants  |-> {[action |-> "scoped", effect |-> "allow", resources |-> Resources]}]
      ELSE Absent]}

\* Requests of every kind about the first subject, one that creates the second,
\* and ones that are refused: not root, wrong shape, not acknowledged.
MCAsked ==
  {i \in Inputs :
     CASE i.kind = "use"    -> i.uid = u1 /\ i.action \in {"typed", "root"} /\ i.resource = "none"
       [] i.kind = "show"   -> i.uid = u1
       [] i.kind = "grant"  -> /\ i.root /\ i.effect # "reject" /\ i.resource = "none"
                               /\ i.effect = "prompt" => i.action = "root" /\ ~i.ack
                               /\ i.action = "typed" => ~i.ack
                               /\ i.uid = u2 => i.action = "typed"
       [] i.kind = "revoke" -> i.root /\ i.uid = u1 /\ i.action = "typed" /\ i.resource = "none"
       [] i.kind = "bundle" -> i.root /\ i.uid = u1 /\ i.bundle = b2 /\ i.enabled}

\* Selections of bundles by root, which nothing but the loader resolves.
OnlyBundles == {i \in Inputs : i.kind = "bundle" /\ i.uid = u1 /\ i.root}

Symmetry == Permutations(Requests)
=============================================================================
