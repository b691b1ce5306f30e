---------------------------- MODULE OrderContract ----------------------------
(***************************************************************************)
(* What demo execution promises about the orders of the broker account:    *)
(* a decision id is submitted at most once; what is recorded of it as      *)
(* certain is true at the broker; and what is uncertain is never made      *)
(* certain, or submitted again, by the program itself.                     *)
(***************************************************************************)
CONSTANT DecisionIds

VARIABLES
    fate,       \* what became of each order at the broker
    verdict     \* what the program has recorded of it

orderVars == <<fate, verdict>>

\* "open": submitted, and anything may still happen to it; "partial": closed
\* after a part was filled; "dead": closed, or lost, without any fill.
Fates == {"none", "open", "filled", "partial", "dead"}
Verdicts == {"absent", "pending", "accepted", "rejected", "unknown"}

OrderInit ==
    /\ fate = [id \in DecisionIds |-> "none"]
    /\ verdict = [id \in DecisionIds |-> "absent"]

\* The intent is persisted before anything is sent.
Reserve(id) ==
    /\ verdict[id] = "absent"
    /\ verdict' = [verdict EXCEPT ![id] = "pending"]
    /\ UNCHANGED fate

\* Only an order that is reserved, and was never sent, is sent.
Submit(id) ==
    /\ verdict[id] = "pending"
    /\ fate[id] = "none"
    /\ fate' = [fate EXCEPT ![id] = "open"]
    /\ UNCHANGED verdict

Close(id, outcome) ==
    /\ fate[id] = "open"
    /\ fate' = [fate EXCEPT ![id] = outcome]
    /\ UNCHANGED verdict

RecordAccepted(id) ==
    /\ verdict[id] = "pending"
    /\ fate[id] = "filled"
    /\ verdict' = [verdict EXCEPT ![id] = "accepted"]
    /\ UNCHANGED fate

RecordRejected(id) ==
    /\ verdict[id] = "pending"
    /\ fate[id] = "dead"
    /\ verdict' = [verdict EXCEPT ![id] = "rejected"]
    /\ UNCHANGED fate

RecordUnknown(id) ==
    /\ verdict[id] = "pending"
    /\ verdict' = [verdict EXCEPT ![id] = "unknown"]
    /\ UNCHANGED fate

OrderNext ==
    \E id \in DecisionIds :
        \/ Reserve(id)
        \/ Submit(id)
        \/ \E outcome \in {"filled", "partial", "dead"} : Close(id, outcome)
        \/ RecordAccepted(id)
        \/ RecordRejected(id)
        \/ RecordUnknown(id)

OrderSpec == OrderInit /\ [][OrderNext]_orderVars
=============================================================================
