----------------------- MODULE MCMatrixToMattermost -----------------------
\* Two Matrix users whose names become one Mattermost name.
EXTENDS MatrixToMattermost, TLC
CONSTANTS m1, m2
MCBase == [m \in Sender |-> "alice"]
Symmetry == Permutations(Sender) \cup Permutations(Worker)
=============================================================================
