---------------------------- MODULE MCPartyRoster ----------------------------
\* Parties for TLC: players who form up to three parties with one invite, in a
\* mode for parties of one or two and matches of three seats.
EXTENDS PartyRoster, TLC
CONSTANTS p1, p2, p3
MCPlayer == {p1, p2, p3}
\* The first party has a long life; the others queue and are cut loose once.
MCMaxRevision == <<5, 2, 2>>
Symmetry == Permutations(MCPlayer)
=============================================================================
