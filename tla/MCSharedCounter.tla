-------------------------- MODULE MCSharedCounter ---------------------------
(***************************************************************************)
(* An instance of SharedCounter for TLC that contains the three programs:  *)
(* the two writers of the mutex and the spin program with their limits,    *)
(* and the reader of the rwlock program with its own.                      *)
(***************************************************************************)
EXTENDS SharedCounter

ProgramLimit == [t \in 1..3 |-> IF t = 2 THEN 12 ELSE 10]
=============================================================================
