-------------------------- MODULE MCTrackerIngest --------------------------
(* Instances of TrackerIngest for TLC.                                     *)
EXTENDS TrackerIngest, TLC

CONSTANTS s1, s2, a, j1, j2

\* Two connections of device a.
OneDevice == [s \in Sockets |-> {a}]

AllOfA == [r \in Reports |-> a]

\* The sockets are alike, and so are the calls: sound where every property is
\* checked state by state or step by step.
Alike == { f @@ g : f \in Permutations({s1, s2}), g \in Permutations({j1, j2}) }
============================================================================
