------------------------- MODULE ExperimentRegistry -------------------------
(***************************************************************************)
(* The experiment registry: the tables `experiments` and                   *)
(* `champion_history` of one dataset version, and the transactions of      *)
(* class ExperimentRegistry on them.                                       *)
(*                                                                         *)
(* A transaction is one step, except that under READ COMMITTED (the        *)
(* default) a SELECT without a lock and the UPDATE that follows it are two *)
(* steps between which others commit: SelectRows and ReleaseRows in the    *)
(* recoveries, SelectPrevious and InsertChampion in promote_champion       *)
(* (module Promotion).                                                     *)
(***************************************************************************)
EXTENDS Integers, Sequences

CONSTANTS
    Experiments,    \* the ids of the table, which ORDER BY compares
    Priority,       \* the priority each was registered with
    WorkerIds,      \* values of worker_id
    Nobody,         \* worker_id IS NULL
    MaxScore,       \* validation scores are ranked 1 .. MaxScore
    ReadCommitted   \* DATABASE_TRANSACTION_ISOLATION

ASSUME RegistryAssumption ==
    /\ Experiments \subseteq Nat
    /\ Priority \in [Experiments -> Int]
    /\ Nobody \notin WorkerIds
    /\ MaxScore \in Nat
    /\ ReadCommitted \in BOOLEAN

VARIABLES
    status, owner, retries, \* columns status, worker_id and retry_count
    stale,                  \* the rows whose heartbeat_at is too old
    promoted,               \* the rows with promoted=1
    history                 \* champion_history, oldest row first

registryVars == <<status, owner, retries, stale, promoted, history>>
leaseVars == <<status, owner, retries, stale>>

\* "absent": no row.  'cancelled' is allowed by the table and set by nothing.
Statuses == {"absent", "queued", "running", "completed", "failed"}
Terminal == {"completed", "failed"}

Champions == [experiment : Experiments, score : 1..MaxScore, evaluated : BOOLEAN]

RegistryInit ==
    /\ status = [e \in Experiments |-> "absent"]
    /\ owner = [e \in Experiments |-> Nobody]
    /\ retries = [e \in Experiments |-> 0]
    /\ stale = {}
    /\ promoted = {}
    /\ history = << >>

\* INSERT ... ON CONFLICT (fingerprint) DO NOTHING.
Register(e) ==
    /\ status[e] = "absent"
    /\ status' = [status EXCEPT ![e] = "queued"]
    /\ UNCHANGED <<owner, retries, stale, promoted, history>>

Queued == {e \in Experiments : status[e] = "queued"}

\* ORDER BY priority DESC,id LIMIT 1.
IsNext(e) ==
    /\ e \in Queued
    /\ \A f \in Queued : \/ Priority[f] < Priority[e]
                         \/ Priority[f] = Priority[e] /\ e <= f

\* FOR UPDATE SKIP LOCKED holds the row until the claim commits.
ClaimNext(e, w) ==
    /\ IsNext(e)
    /\ status' = [status EXCEPT ![e] = "running"]
    /\ owner' = [owner EXCEPT ![e] = w]
    /\ stale' = stale \ {e}
    /\ UNCHANGED <<retries, promoted, history>>

\* Mutant: the status is left out of the condition.
MutantOwnedAnyStatus(e, w) == owner[e] = w

\* WHERE id=? AND status='running' AND worker_id=?
IsOwned(e, w) == status[e] = "running" /\ owner[e] = w

Heartbeat(e, w) ==
    /\ IsOwned(e, w)
    /\ stale' = stale \ {e}
    /\ UNCHANGED <<status, owner, retries, promoted, history>>

\* complete and fail; worker_id stays, the flag is overwritten.
Finish(e, w, result, flag) ==
    /\ IsOwned(e, w)
    /\ status' = [status EXCEPT ![e] = result]
    /\ stale' = stale \ {e}
    /\ promoted' = IF flag THEN promoted \cup {e} ELSE promoted \ {e}
    /\ UNCHANGED <<owner, retries, history>>

\* Mutant: one retry more than the limit.
MutantRetryOffByOne(e, w, limit) ==
    /\ IsOwned(e, w)
    /\ retries' = [retries EXCEPT ![e] = @ + 1]
    /\ status' = [status EXCEPT ![e] = IF retries'[e] > limit THEN "failed"
                                                             ELSE "queued"]
    /\ owner' = [owner EXCEPT ![e] = Nobody]
    /\ stale' = stale \ {e}
    /\ UNCHANGED <<promoted, history>>

\* Mutant: worker_id is not cleared.
MutantRequeueKeepsOwner(e, w, limit) ==
    /\ IsOwned(e, w)
    /\ retries' = [retries EXCEPT ![e] = @ + 1]
    /\ status' = [status EXCEPT ![e] = IF retries'[e] >= limit THEN "failed"
                                                              ELSE "queued"]
    /\ stale' = stale \ {e}
    /\ UNCHANGED <<owner, promoted, history>>

\* The retry that reaches the limit is the last one.
Requeue(e, w, limit) ==
    /\ IsOwned(e, w)
    /\ retries' = [retries EXCEPT ![e] = @ + 1]
    /\ status' = [status EXCEPT ![e] = IF retries'[e] >= limit THEN "failed"
                                                              ELSE "queued"]
    /\ owner' = [owner EXCEPT ![e] = Nobody]
    /\ stale' = stale \ {e}
    /\ UNCHANGED <<promoted, history>>

\* Heartbeats age.
Age(e) ==
    /\ status[e] = "running"
    /\ e \notin stale
    /\ stale' = stale \cup {e}
    /\ UNCHANGED <<status, owner, retries, promoted, history>>


\* Mutant: the wrong status.
MutantStaleQueued == {e \in stale : status[e] = "queued"}

StaleRows == {e \in stale : status[e] = "running"}

\* Mutant: worker_id is not cleared.
MutantReleaseKeepsOwner(S) ==
    /\ status' = [e \in Experiments |-> IF e \in S THEN "queued" ELSE status[e]]
    /\ stale' = stale \ S
    /\ UNCHANGED <<owner, retries, promoted, history>>

\* The UPDATE of the three recoveries names a row by its id alone.
ReleaseRows(S) ==
    /\ status' = [e \in Experiments |-> IF e \in S THEN "queued" ELSE status[e]]
    /\ owner' = [e \in Experiments |-> IF e \in S THEN Nobody ELSE owner[e]]
    /\ stale' = stale \ S
    /\ UNCHANGED <<retries, promoted, history>>

\* Mutant: a champion without holdout metrics counts as none.
MutantBestEvaluated ==
    IF history # << >> /\ history[Len(history)].evaluated
    THEN history[Len(history)].score ELSE 0

\* Mutant: the flag is derived the wrong way round.
MutantConsumedInverted ==
    /\ history # << >>
    /\ ~history[Len(history)].evaluated

\* The score, and the use of the holdout, of the latest champion.
Best == IF history = << >> THEN 0 ELSE history[Len(history)].score

\* holdout_evaluated is derived from the metrics of the latest row alone.
HoldoutConsumed ==
    /\ history # << >>
    /\ history[Len(history)].evaluated

\* Mutant: the flag of the champion before is not reset.
MutantFlagKept(e, score, evaluated) ==
    /\ promoted' = promoted \cup {e}
    /\ history' = Append(history, [experiment |-> e, score |-> score,
                                   evaluated |-> evaluated])
    /\ UNCHANGED leaseVars

InsertChampion(e, score, evaluated) ==
    /\ promoted' = {e}
    /\ history' = Append(history, [experiment |-> e, score |-> score,
                                   evaluated |-> evaluated])
    /\ UNCHANGED leaseVars

-----------------------------------------------------------------------------

RegistryTypeOK ==
    /\ status \in [Experiments -> Statuses]
    /\ owner \in [Experiments -> WorkerIds \cup {Nobody}]
    /\ retries \in [Experiments -> Nat]
    /\ stale \subseteq Experiments
    /\ promoted \subseteq Experiments
    /\ history \in Seq(Champions)
=============================================================================
