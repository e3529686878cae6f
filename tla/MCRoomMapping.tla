--------------------------- MODULE MCRoomMapping ---------------------------
(***************************************************************************)
(* Instances of RoomMapping: a channel and a DM; three rooms, two of them  *)
(* with an alias, one of which exists without the bridge.                  *)
(***************************************************************************)
EXTENDS RoomMapping, TLC

CONSTANTS r1, r2, r3, a1, a2, p1, p2

MCRoomID == {r1, r2, r3}
MCRoomOf == (a1 :> r1) @@ (a2 :> r3)
\* A store without mappings, and one with a channel mapped by an alias.
MCStored == {[c \in Channel |-> IF c \in Dm THEN None ELSE i] :
                i \in {None, a1}}
MCReader == {p1, p2}
MCSymmetry == Permutations(MCReader)
=============================================================================
