----------------------------- MODULE MCSessions -----------------------------
(***************************************************************************)
(* Instance of Sessions for TLC: a session, its hooks and a user of the    *)
(* command line.                                                           *)
(***************************************************************************)
EXTENDS Sessions, TLC

CONSTANTS n1

OneName == [s \in Sessions |-> n1]

Interchangeable == Permutations(Units) \cup Permutations(Tasks)
=============================================================================
