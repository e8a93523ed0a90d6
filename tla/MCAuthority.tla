---------------------------- MODULE MCAuthority ----------------------------
\* Instances of the authority for TLC: parties a (two players) and b that can
\* be matched with each other, or three solo parties of which a is wanted by
\* both others, or two disjoint duels; one or two servers with room for one match.
EXTENDS Authority
CONSTANTS a, b, c, d, p1, p2, p3, p4, s1, s2

OneServer == {s1}
TwoServers == {s1, s2}
TwoMatches == {1, 2}
UnitCost == [m \in TwoMatches |-> 1]
EligibleOne == [m \in TwoMatches |-> OneServer]
EligibleTwo == [m \in TwoMatches |-> TwoServers]
MCPlayer == {p1, p2, p3}
Pair == {a, b}
PairMembers == [q \in Pair |-> IF q = a THEN {p1, p2} ELSE {p3}]
PairCandidates == {{a, b}}
Solos == {a, b, c}
SoloMembers == [q \in Solos |-> CASE q = a -> {p1} [] q = b -> {p2} [] OTHER -> {p3}]
Duels == {a, b, c, d}
DuelPlayer == {p1, p2, p3, p4}
DuelMembers == [q \in Duels |-> CASE q = a -> {p1} [] q = b -> {p2} [] q = c -> {p3} [] OTHER -> {p4}]
DuelCandidates == {{a, b}, {c, d}}
SoloCandidates == {{a, b}, {a, c}}
=============================================================================
