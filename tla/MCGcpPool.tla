------------------------------ MODULE MCGcpPool ------------------------------
(* Small instances of GcpPool for TLC. *)
EXTENDS GcpPool, TLC

\* Accounts, consent pages and tasks are interchangeable; projects are not (their ids
\* order them).
Alike == Permutations(Accounts) \cup Permutations(Pages) \cup Permutations(Tasks)
=============================================================================
