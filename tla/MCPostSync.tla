----------------------------- MODULE MCPostSync -----------------------------
\* A thread: a and its reply b, each with a file; a may be a Matrix user's.
\* While there is one post and no change, and when there is one post and have
\* been two changes, two jobs may be unfinished when a user or the service acts,
\* otherwise one; each may start another by its UpdatePost.
EXTENDS PostSync
a == "a"
b == "b"
MCRoot == (a :> "none") @@ (b :> a)
MCFilesOf == (a :> {"f"}) @@ (b :> {"g"})
MCRemote == {{}, {a}}
MCMaxJobs == [n \in 0..2 |-> [m \in 0..2 |-> IF n + m <= 1 \/ (n = 1 /\ m = 2) THEN 2 ELSE 1]]
MCNoChanges == [n \in 0..2 |-> [m \in {0} |-> 2]]
=============================================================================
