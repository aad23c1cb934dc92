------------------------ MODULE MCMessagePipeline ------------------------
(* Symmetry for the safety runs of MessagePipeline.  Tasks are only names. *)
EXTENDS MessagePipeline, TLC

TaskSymmetry == Permutations(Tasks)
==========================================================================
