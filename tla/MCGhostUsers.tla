---------------------------- MODULE MCGhostUsers ----------------------------
\* One user, whose identity and membership all goroutines share.  A room in
\* which a join is tried, refused and made after an invitation, and a public
\* one in mirror mode to which the bridge may not invite.
EXTENDS GhostUsers, TLC
CONSTANTS s1, s2
MCRoom == {[rule |-> "knock", trusted |-> {"invite", "own"}, mirror |-> FALSE],
           [rule |-> "public", trusted |-> {"own"}, mirror |-> TRUE]}
MCMaxChange == [mirror \in BOOLEAN |-> IF mirror THEN 0 ELSE 1]
Symmetry == Permutations(Slot)
=============================================================================
