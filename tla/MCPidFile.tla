----------------------------- MODULE MCPidFile ------------------------------
(***************************************************************************)
(* Instances of PidFile for TLC.                                           *)
(***************************************************************************)
EXTENDS PidFile

CONSTANTS p1, p2, p3    \* instances of the program

\* Pids of different lengths: p2 is shorter than p1 and than the old one.
MCLength == [p \in {p1, p2, p3, Old} |-> IF p = p2 THEN 1 ELSE IF p = Old THEN 3 ELSE 2]
=============================================================================
