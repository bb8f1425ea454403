------------------------ MODULE MCArtifactRegistry ------------------------
\* Instance of ArtifactRegistry: threads of portusd for an owner, for another
\* user and for root, one file, and the browser provider as the owner of resources.
EXTENDS ArtifactRegistry, TLC

CONSTANTS c1, c2, c3, u1, u2, root, x, y

Symmetric == Permutations({x, y})

MCPrincipalOf == c1 :> u1 @@ c2 :> u2 @@ c3 :> root
MCTypeList == <<BrowserType>>
MCManifests ==
    [browser |->
       [version |-> 1, well_formed |-> TRUE, type |-> BrowserType, scopes |-> <<"system">>,
        interfaces |-> <<[id |-> "cli", version |-> 1, kind |-> "executable",
                          targets |-> {"executable"}]>>,
        capabilities |-> <<[id |-> BrowserCapability, version |-> 1, interfaces |-> <<"cli">>]>>,
        resources |-> <<BrowserResource>>, skills |-> <<>>,
        health |-> [kind |-> "none", reference |-> "none"]]]
MCHolds == {[ref |-> "operator", expires |-> 2]}
MCTaskOwner == [t1 |-> u1]

Request(locator, confidentiality, retention, authority, task) ==
    [owner |-> u1, locator |-> locator, confidentiality |-> confidentiality,
     shared_with |-> IF confidentiality = "shared" THEN <<u2>> ELSE <<>>,
     retention |-> retention, expires |-> IF retention = "until" THEN 2 ELSE 0,
     authority |-> authority, cleanup_ref |-> authority \in {"task", "provider"},
     task |-> task, safe_text |-> TRUE, digest |-> Absent]

MCRequests ==
    {Request([kind |-> "filesystem", path |-> "f"], "private", "temporary", "task", "t1"),
     Request([kind |-> "filesystem", path |-> "f"], "shared", "until", "portus", "none"),
     Request([kind |-> "provider_resource", provider |-> 1, id |-> "b1", generation |-> 1],
             "public", "temporary", "provider", "none")}
===========================================================================
