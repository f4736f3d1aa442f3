---------------------------- MODULE MCAppendLock ----------------------------
(***************************************************************************)
(* Instances of AppendLock for TLC.                                        *)
(***************************************************************************)
EXTENDS AppendLock, TLC

\* The instances of the program are interchangeable.
Symmetry == Permutations(Procs)
=============================================================================
