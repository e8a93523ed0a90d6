----------------------------- MODULE MCRegistry -----------------------------
\* Instance of the registry for TLC: two servers, the first match is the
\* expensive one and may run on either server, the second only on the first.
EXTENDS Registry
CONSTANTS s1, s2

MCServer == {s1, s2}
MCMatch == {1, 2}
MCCost == [m \in MCMatch |-> IF m = 1 THEN 2 ELSE 1]
MCEligible == [m \in MCMatch |-> IF m = 1 THEN MCServer ELSE {s1}]
MCCapacities == {2}
=============================================================================
