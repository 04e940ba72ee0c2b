-------------------------- MODULE MCStarlinkIngest --------------------------
(* An instance of StarlinkIngest for TLC.                                  *)
EXTENDS StarlinkIngest, TLC

CONSTANTS s1, s2, a, r1, r2, r3, lat, long, ignition

OneDevice == [s \in Sockets |-> {a}]
AllOfA    == [r \in Reports |-> a]

\* Two reports with a position; one with half of one, and the ignition.
SomeColumns ==
    [r \in Reports |-> IF r = r3 THEN {lat, ignition} ELSE {lat, long}]
\* The sockets are alike, and so are the first two reports; every property is
\* checked state by state or step by step, so that this is sound.
Alike == { f @@ g : f \in Permutations({s1, s2}), g \in Permutations({r1, r2}) }
=============================================================================
