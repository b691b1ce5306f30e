--------------------------- MODULE PaperContract ---------------------------
(***************************************************************************)
(* What the paper account promises to the components that trade through    *)
(* it, whatever its risk limits and the market do: a decision id moves the *)
(* position at most once, and only while the switch is running; a recorded *)
(* result is final until an operator empties the account; and the account  *)
(* is emptied only while it is flat, by an explicit reset of a stopped     *)
(* session, or because its row is corrupt, which stops it.                 *)
(* PaperAccount implements this contract; DemoExecution is built on it.    *)
(***************************************************************************)
EXTENDS Integers, KillSwitch

CONSTANTS
    DecisionIds,    \* idempotency keys of proposals
    Signed          \* the signed quantity that each decision trades

VARIABLES
    switch,         \* the paper kill switch
    position,       \* signed simulated position
    decisions       \* the persisted result of each decision id

contractVars == <<switch, position, decisions>>

Results == {"none", "accepted", "refused"}

NoDecisions == [id \in DecisionIds |-> "none"]

ContractInit ==
    /\ switch = FreshSwitch
    /\ position = 0
    /\ decisions = NoDecisions

\* An accepted decision: the gates passed, so the switch was running.
Accept(id) ==
    /\ decisions[id] = "none"
    /\ ~switch.stopped
    /\ position' = position + Signed[id]
    /\ decisions' = [decisions EXCEPT ![id] = "accepted"]
    /\ UNCHANGED switch

\* A refused decision: some gate refused, and the refusal is persisted too.
Refuse(id) ==
    /\ decisions[id] = "none"
    /\ decisions' = [decisions EXCEPT ![id] = "refused"]
    /\ UNCHANGED <<switch, position>>

SetKillSwitch(stopped, reason) ==
    /\ switch' = [stopped |-> stopped, reason |-> reason]
    /\ UNCHANGED <<position, decisions>>

\* account_rebase: a flat account gets new cash and forgets its decisions.
RebaseFlat ==
    /\ position = 0
    /\ decisions' = NoDecisions
    /\ UNCHANGED <<switch, position>>

\* session_reset: the account and its decisions are deleted, and it is stopped.
Reset ==
    /\ switch' = [stopped |-> TRUE, reason |-> "operator"]
    /\ position' = 0
    /\ decisions' = NoDecisions

\* An unusable row reads as a stopped, flat account; its decisions survive.
Corrupt ==
    /\ switch' = [stopped |-> TRUE, reason |-> "corrupt_state"]
    /\ position' = 0
    /\ UNCHANGED decisions

ContractNext ==
    \/ \E id \in DecisionIds : Accept(id) \/ Refuse(id)
    \/ \E reason \in StopReasons : SetKillSwitch(TRUE, reason)
    \/ \E reason \in StartReasons : SetKillSwitch(FALSE, reason)
    \/ RebaseFlat
    \/ Reset
    \/ Corrupt

ContractSpec == ContractInit /\ [][ContractNext]_contractVars
=============================================================================
