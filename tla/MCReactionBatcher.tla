------------------------- MODULE MCReactionBatcher -------------------------
(* The instances of ReactionBatcher that TLC checks. *)
EXTENDS ReactionBatcher

CONSTANTS p1, p2

MCKey == {p1, p2}

\* The queue has no other tasks than the batches.
MCTask == 1..3

\* The first post gets its second reaction after the second post's first:
\* it may join the first batch or open a new one.
MCPostOf == <<p1, p2, p1>>
=============================================================================
