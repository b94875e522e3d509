-------------------------------- MODULE MCGuard --------------------------------
(* The guard with constants for TLC.                                        *)
EXTENDS Guard, TLC

Symmetry == Permutations(Procs)
================================================================================
