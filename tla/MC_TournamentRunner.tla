------------------------ MODULE MC_TournamentRunner ------------------------
(***************************************************************************)
(* Small instances of TournamentRunner for TLC.                            *)
(***************************************************************************)
EXTENDS TournamentRunner

\* Experiments 1 and 2 have the same priority; 3 comes first.
MC_Priority == [e \in Experiments |-> IF e = 3 THEN 1 ELSE 0]
=============================================================================
