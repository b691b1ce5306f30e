--------------------------- MODULE MC_DemoExecution ---------------------------
(***************************************************************************)
(* Small instances of DemoExecution for TLC.                               *)
(***************************************************************************)
EXTENDS DemoExecution

\* Purchases and a sale of one unit.
MC_Signed == [id \in DecisionIds |-> IF id = "sell" THEN -1 ELSE 1]

\* Two purchases share a broker id, the sale has its own.
MC_TwinIds == [id \in DecisionIds |-> IF id = "sell" THEN "sell" ELSE "buy"]
=============================================================================
