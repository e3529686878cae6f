---------------------------- MODULE MCTokenBucket ----------------------------
(* Model-checking instance of TokenBucket. *)
EXTENDS TokenBucket

\* Room creation is the operation with the smallest buckets, so the one on
\* which callers wait; "" stands for a mode that is not configured.
MCChoice == ({""} \cup (Mode \ {"automatic"})) \X {"RoomCreation"}
MCPause == {66}
=============================================================================
