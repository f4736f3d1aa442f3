------------------------------- MODULE Handover ------------------------------
(***************************************************************************)
(* What a channel, a reply or a completed request promises: nothing is     *)
(* taken before it has been given, nothing is given back, and nothing that *)
(* has been taken is taken away again.                                     *)
(***************************************************************************)
VARIABLES
    given,      \* the items that were made available
    taken       \* the items that the other side has got

\* What an earlier run has left may be there from the start.
Init == taken = {}

Give == given \subseteq given' /\ taken' = taken

Take == taken \subseteq taken' /\ taken' \subseteq given /\ given' = given

Next == Give \/ Take

Spec == Init /\ [][Next]_<<given, taken>>
=============================================================================
