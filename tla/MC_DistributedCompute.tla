----------------------- MODULE MC_DistributedCompute -----------------------
(***************************************************************************)
(* Small instances of DistributedCompute for TLC.                          *)
(***************************************************************************)
EXTENDS DistributedCompute, TLC

MC_Priority == [e \in Experiments |-> 0]
MC_Processes == Threads \cup {Main}
MC_WorkerIds == Pids \X (1..Cardinality(Threads))

MC_Symmetry == Permutations(Threads)
=============================================================================
