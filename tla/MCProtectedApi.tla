--------------------------- MODULE MCProtectedApi ---------------------------
(* One credential that an earlier run left behind or none, two providers of *)
(* which the catalogue knows one or both, and room for one credential.      *)
EXTENDS ProtectedApi, TLC

CONSTANTS r1, r2, r3, c1, c2, pa, pb

MCSupports == (pa :> {"chat", "embed"}) @@ (pb :> {"chat"})
MCStreaming == {<<pa, "embed">>}

MCCatalogs == {{pa, pb}, {pb}}

MCStores ==
  {[c \in Refs |-> NoCredential],
   [c \in Refs |-> IF c = c1
      THEN [provider |-> pa, generation |-> 1, state |-> "active",
            secret |-> [for |-> pa, by |-> "earlier"]]
      ELSE NoCredential]}

MCPolicies == {[x \in Refs \X Operations |-> "allow"],
               [x \in Refs \X Operations |-> IF x[2] = "chat" THEN "allow" ELSE "reject"]}

\* Three clients racing: use and administration by root, over two references.
RacingRequests ==
  {i \in Inputs : i.kind \in Mutations \cup {"request"}
                   /\ (i.kind = "request" => i.op = "chat")
                   /\ (i.kind # "request" => i.root)}

\* Two clients over one reference: asking anything with one restart and one
\* failure, or racing one policy edit and one restart.
MCSituations ==
  [race   |-> [asked |-> RacingRequests, clients |-> 3,
               edited |-> {}, edits |-> 0, starts |-> 0, faults |-> 0],
   faults |-> [asked |-> {i \in Inputs : i.ref = c1}, clients |-> 2,
               edited |-> {}, edits |-> 0, starts |-> 1, faults |-> 1],
   edits  |-> [asked |-> {i \in RacingRequests : i.ref = c1}, clients |-> 2,
               edited |-> {c1}, edits |-> 1, starts |-> 1, faults |-> 0]]

Symmetry == Permutations(Requests)
=============================================================================
