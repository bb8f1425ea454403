------------------------ MODULE MCProviderRegistry ------------------------
\* Instance of ProviderRegistry: the browser and one other provider type.
EXTENDS ProviderRegistry

CONSTANTS u1, u2

MCTypeList == <<BrowserType, "tool">>

Interface(id) == [id |-> id, version |-> 1, kind |-> "executable", targets |-> {"executable"}]

Manifest(t, ifs, scopes) ==
    [version |-> 1, well_formed |-> TRUE, type |-> t, scopes |-> scopes,
     interfaces |-> ifs,
     capabilities |-> <<[id |-> IF t = BrowserType THEN BrowserCapability ELSE "tool.run",
                         version |-> 1, interfaces |-> <<ifs[Len(ifs)].id>>]>>,
     resources |-> IF t = BrowserType THEN <<BrowserResource>> ELSE <<>>,
     skills |-> <<>>,
     health |-> [kind |-> "structured-cli", reference |-> ifs[1].id]]

BrowserManifest == Manifest(BrowserType, <<Interface("cli"), Interface("socket")>>, <<"system">>)
MCManifests ==
    [browser |-> BrowserManifest,
     smaller |-> Manifest(BrowserType, <<Interface("cli")>>, <<"system">>),
     tool |-> Manifest("tool", <<Interface("cli")>>, <<"system">>),
     user_tool |-> Manifest("tool", <<Interface("cli")>>, <<"user">>),
     no_sessions |-> [BrowserManifest EXCEPT !.resources = <<>>]]
===========================================================================
