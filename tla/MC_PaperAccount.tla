-------------------------- MODULE MC_PaperAccount --------------------------
(***************************************************************************)
(* Small instances of PaperAccount for TLC.                                *)
(***************************************************************************)
EXTENDS PaperAccount

\* A purchase, a sale that can reverse it, and a malformed proposal.
MC_Proposal ==
    [id \in DecisionIds |->
        CASE id = "buy"  -> [valid |-> TRUE,  buy |-> TRUE,  quantity |-> 2]
          [] id = "sell" -> [valid |-> TRUE,  buy |-> FALSE, quantity |-> 4]
          [] id = "bad"  -> [valid |-> FALSE, buy |-> TRUE,  quantity |-> 2]]
=============================================================================
