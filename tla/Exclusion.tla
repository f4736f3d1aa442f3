------------------------------ MODULE Exclusion ------------------------------
(***************************************************************************)
(* What every lock of this repository promises to the code that uses it:   *)
(* the processes (or threads) between a successful lock call and the       *)
(* matching unlock call are never two.  The components that lock are shown *)
(* to implement this module under a refinement mapping for "inside".       *)
(***************************************************************************)
CONSTANT Procs      \* the processes or threads that use the lock

VARIABLE inside     \* those that hold it

Init == inside = {}

Enter(p) == inside = {} /\ inside' = {p}

Leave(p) == inside = {p} /\ inside' = {}

Next == \E p \in Procs : Enter(p) \/ Leave(p)

Spec == Init /\ [][Next]_inside
=============================================================================
