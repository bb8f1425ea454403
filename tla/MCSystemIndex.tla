--------------------------- MODULE MCSystemIndex ---------------------------
EXTENDS HealthRecovery

CONSTANTS a1, p1, w1, d1, s1, r1, c1, v1

MCExec == [x \in Apps \cup Procs |-> "editor"]
MCParent == [p \in Procs |-> "init"]
MCWindowOf == [w \in Windows |-> p1]
MCWorkspaceOf == [w \in Windows |-> d1]
MCProviderOf == [i \in Capabilities \cup ProviderResources |-> r1]
MCResourceOwner == [v \in ProviderResources |-> "user"]
Measured(total, available) ==
    [measured |-> TRUE, writable |-> TRUE, total |-> total, available |-> available]
MCSamples == {[storage |-> Measured(40000, 3900), memory |-> Measured(8000, 300)],
              [storage |-> Measured(40000, 1900), memory |-> [measured |-> FALSE]]}

\* One behaviour spends on one thing: a sequence of reconciliations, two at
\* once, restarts, health requests, or restarts of a service.
NoBudget == [calls |-> 0, changes |-> 0, restarts |-> 0, at_once |-> 1, domains |-> {"all"},
             health |-> 0, ticks |-> 0, restart_attempts |-> 0, other_attempts |-> 0]
ReappearBudget == [NoBudget EXCEPT !.calls = 3, !.changes = 2, !.domains = {"runtime"}]
MCBudgets ==
    {[NoBudget EXCEPT !.calls = 2, !.changes = 2, !.domains = {"runtime"}],
     [NoBudget EXCEPT !.calls = 2, !.changes = 1, !.restarts = 1, !.at_once = 2,
                      !.domains = {"all", "runtime"}],
     [NoBudget EXCEPT !.calls = 2, !.changes = 2, !.domains = {"providers"}],
     [NoBudget EXCEPT !.calls = 1, !.changes = 1, !.health = 2, !.domains = {"services"}],
     [NoBudget EXCEPT !.calls = 1, !.restarts = 1, !.health = 2, !.domains = {"applications"}],
     [NoBudget EXCEPT !.ticks = 7, !.restart_attempts = 5, !.other_attempts = 2]}
ReappearBudgets == {ReappearBudget}
===========================================================================
