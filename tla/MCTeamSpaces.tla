---------------------------- MODULE MCTeamSpaces ----------------------------
(* Two teams whose names begin alike, so that two pairs of a team and a      *)
(* channel make one alias, and in mirror mode a room that of a space.        *)
EXTENDS TeamSpaces, TLC

CONSTANTS t1, t2
MCTeamWords == [t \in Team |-> IF t = t1 THEN <<"eng">> ELSE <<"eng", "ops">>]
MCName == {<<"ops", "bot">>, <<"bot">>}
MCSymmetry == Permutations(Slot)
=============================================================================
