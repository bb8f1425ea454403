--------------------------- MODULE MCRuntimeServer ---------------------------
(* Scenarios: rival daemons, an upgrade, clients, and a long audit trail.    *)
EXTENDS RuntimeServer

CONSTANTS d1, d2

Left(starts, crashes, faults, stops, conns, requests) ==
    [starts |-> starts, crashes |-> crashes, faults |-> faults, stops |-> stops,
     conns |-> conns, requests |-> requests]
Only(n) == d1 :> n @@ d2 :> 0     \* one daemon, started n times
Each == d1 :> 1 @@ d2 :> 1
Both == d1 :> 2 @@ d2 :> 1
Budget(k, paths, histories, integrity, l) ==
    [kind |-> k, paths |-> paths, histories |-> histories, integrity |-> integrity,
     left |-> l]

Current == {1 .. LATEST_SCHEMA_VERSION}
AnyHistory == {{}, {1}, {1, 2}, {1, 3}, 1 .. LATEST_SCHEMA_VERSION,
               1 .. LATEST_SCHEMA_VERSION + 1}

(* Two daemons start at once, over no socket or one a crash left behind.     *)
Rivals ==
    {Budget("portusd", {None, d1}, Current, {TRUE}, Left(Each, 0, 0, 1, 0, 0)),
     Budget("apid", {None}, Current, {TRUE}, Left(Both, 1, 1, 1, 0, 0)),
     Budget("privd", {None, Other}, Current, {TRUE}, Left(Both, 1, 0, 1, 0, 0))}
(* A database of any age, and a start that is cut short.                     *)
Upgrades ==
    {Budget("portusd", {None}, AnyHistory, BOOLEAN, Left(Only(2), 1, 0, 0, 0, 0))}
(* Requests meet at the mutexes, connections at the limit.                   *)
Clients ==
    {Budget("portusd", {None}, Current, {TRUE}, Left(Only(1), 0, 0, 0, 2, 2)),
     Budget("portusd", {None}, Current, {TRUE}, Left(Only(1), 0, 0, 1, 1, 1)),
     Budget("privd", {None}, Current, {TRUE}, Left(Only(1), 0, 0, 1, 3, 0)),
     Budget("apid", {None}, Current, {TRUE}, Left(Only(1), 0, 1, 1, 1, 1))}
(* Enough records to drop the oldest, with a crash in a rotation.            *)
LongTrail ==
    {Budget("privd", {None}, Current, {TRUE}, Left(Only(2), 1, 0, 0, 2, 5))}

MCBudgets == Rivals \union Upgrades \union Clients \union LongTrail
=============================================================================
