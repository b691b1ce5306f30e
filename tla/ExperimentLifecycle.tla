------------------------ MODULE ExperimentLifecycle ------------------------
(***************************************************************************)
(* What the experiment registry promises to the processes that share it:   *)
(* an experiment is queued once, is leased and returned until it is        *)
(* settled, is never touched after that, and the score of the champion     *)
(* only grows.                                                             *)
(***************************************************************************)
EXTENDS Naturals

CONSTANT Experiments

VARIABLES
    status,     \* of each experiment
    best        \* the score of the champion; 0 when there is none

lifecycleVars == <<status, best>>

Statuses == {"absent", "queued", "running", "completed", "failed"}
Terminal == {"completed", "failed"}

\* Empty, or used before and at rest.
LifecycleInit ==
    /\ status \in [Experiments -> {"absent", "completed"}]
    /\ best \in Nat

Enqueue(e) ==
    /\ status[e] = "absent"
    /\ status' = [status EXCEPT ![e] = "queued"]
    /\ UNCHANGED best

Lease(e) ==
    /\ status[e] = "queued"
    /\ status' = [status EXCEPT ![e] = "running"]
    /\ UNCHANGED best

\* Leases that were given up, or taken back.
Return(S) ==
    /\ \A e \in S : status[e] = "running"
    /\ status' = [e \in Experiments |->
                    IF e \in S THEN "queued" ELSE status[e]]
    /\ UNCHANGED best

Settle(e) ==
    /\ status[e] = "running"
    /\ \E t \in Terminal : status' = [status EXCEPT ![e] = t]
    /\ UNCHANGED best

Crown ==
    /\ best' \in Nat
    /\ best' > best
    /\ UNCHANGED status

LifecycleNext ==
    \/ \E e \in Experiments : Enqueue(e) \/ Lease(e) \/ Settle(e)
    \/ \E S \in SUBSET Experiments : Return(S)
    \/ Crown

LifecycleSpec == LifecycleInit /\ [][LifecycleNext]_lifecycleVars
=============================================================================
