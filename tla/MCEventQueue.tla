---------------------------- MODULE MCEventQueue ----------------------------
(***************************************************************************)
(* Instances of EventQueue for TLC.                                        *)
(***************************************************************************)
EXTENDS EventQueue, TLC

WorkerSymmetry == Permutations(Worker)
=============================================================================
