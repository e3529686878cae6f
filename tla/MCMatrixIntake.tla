--------------------------- MODULE MCMatrixIntake ---------------------------
(* The instances of MatrixIntake that TLC checks; the bounds are in the cfgs. *)
EXTENDS MatrixIntake
=============================================================================
