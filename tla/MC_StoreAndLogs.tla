--------------------------- MODULE MC_StoreAndLogs ---------------------------
(***************************************************************************)
(* Instances for TLC of the bar store with its archive, and of the log     *)
(* retention.  The two share no state, so a behaviour of this one is a     *)
(* behaviour of one of them while the other stays as it began, and its     *)
(* states are the union of theirs.                                         *)
(***************************************************************************)
EXTENDS MarketStore, LogRetention

VARIABLE
    part            \* the component whose behaviour this is

allVars == <<part, marketVars, logsVars>>

PartsInit ==
    /\ part \in {"market", "logs"}
    /\ MarketInit
    /\ LogsInit

\* The part moves; the other keeps its first state.
PartsNext ==
    \/ /\ part = "market"
       /\ MarketNext
       /\ UNCHANGED <<part, logsVars>>
    \/ /\ part = "logs"
       /\ LogsNext
       /\ UNCHANGED <<part, marketVars>>

PartsSpec == PartsInit /\ [][PartsNext]_allVars
=============================================================================
