-------------------------- MODULE MCBuildIteration --------------------------
\* Instance of BuildIteration: two mirrors and two packages; the second state of
\* the repositories replaces one package and moves it to another batch.
EXTENDS BuildIteration, TLC

MCResolve ==
    [d1 |-> {[name |-> "base", file |-> "f", sha |-> "stale", size |-> 1, signed |-> TRUE, rank |-> 1],
             [name |-> "shell", file |-> "g", sha |-> "g1", size |-> 1, signed |-> FALSE, rank |-> 2]},
     d2 |-> {[name |-> "shell", file |-> "g", sha |-> "g2", size |-> 2, signed |-> FALSE, rank |-> 1]}]
Stored(sha) == [sha |-> sha, sig |-> TRUE, part |-> FALSE]
MCCaches == {[f |-> Stored("stale"), g |-> Stored("stale")]}
MCNameWords(f) == {}
MCTexts == {{"timeout"}}
=============================================================================
