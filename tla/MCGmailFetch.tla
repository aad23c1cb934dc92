---------------------------- MODULE MCGmailFetch ----------------------------
(* GmailFetch for TLC: task identities are interchangeable in the runs that  *)
(* check safety properties only.                                             *)
EXTENDS GmailFetch, TLC

TaskSymmetry == Permutations(Tasks)
=============================================================================
