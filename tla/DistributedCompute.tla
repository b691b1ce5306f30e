------------------------- MODULE DistributedCompute -------------------------
(***************************************************************************)
(* The remote coordinator (RemoteComputeBridge.run_forever): a main loop   *)
(* that recovers, claims and collects, and a pool of threads that run      *)
(* process_claimed: each sends its job to the secondary host, imports the  *)
(* result, tries to promote the experiment and completes it; on any        *)
(* exception it gives the lease back, up to the retry limit.               *)
(*                                                                         *)
(* The coordinator's worker ids are <<pid, k>>: the k-th thread of the     *)
(* process pid, where k is the number of futures at the claim plus one.    *)
(***************************************************************************)
EXTENDS Promotion, FiniteSets

CONSTANTS
    Main,           \* the main loop
    Threads,        \* COMPUTE_WORKERS threads of the pool
    Crowned,        \* experiments a tournament worker may have promoted before
    Pids,           \* process ids of the coordinator, one after the other
    Overlapping,    \* <<new, old>>: new, in digits, is a prefix of old
    MaxRetries,     \* COMPUTE_MAX_RETRIES
    MaxFailures,    \* COMPUTE_CIRCUIT_FAILURE_THRESHOLD
    MaxSlow,        \* bound: jobs that outlive the 120 minutes of a lease
    MaxFaults       \* bound: faults of the secondary host, of files, of the loop

ASSUME ComputeAssumption ==
    /\ Main \notin Threads
    /\ Processes = Threads \cup {Main}
    /\ IsFiniteSet(Threads)
    /\ Crowned \subseteq Experiments
    /\ Pids \subseteq Nat
    /\ Overlapping \subseteq Pids \X Pids
    /\ WorkerIds = Pids \X (1..Cardinality(Threads))
    /\ MaxRetries \in Nat \ {0}
    /\ MaxFailures \in Nat \ {0}
    /\ MaxSlow \in Nat
    /\ MaxFaults \in Nat

VARIABLES
    pid,            \* of the coordinator
    directories,    \* experiments with a local result directory
    failures,       \* consecutive_failures, counted up to MaxFailures
    circuitOpen,    \* circuit_open: the circuit cools, or the host is full
    draining,       \* the DRAIN file exists
    unwritten,      \* experiments whose job file could not be written
    slow, faults    \* the bounded events so far

poolVars == <<pid, directories, failures, circuitOpen, draining, unwritten, slow,
              faults>>
vars == <<registryVars, promotionVars, poolVars>>

\* A thread is "free" in the pool; "done" and "raised" are futures that are
\* finished and not collected.
Active == {t \in Threads : ~At(t, "free")}
Working == {t \in Active : proc[t].pc \notin {"done", "raised"}}
OwnedByProcess(e, p) == status[e] = "running" /\ owner[e] \in {p} \X Nat

\* The coordinator finds a champion that has used the holdout.
ChampionInit(c) ==
    /\ outcome \in {o \in Outcomes : o[c].score > 0 /\ o[c].holdout}
    /\ status = [e \in Experiments |-> IF e = c THEN "completed" ELSE "absent"]
    /\ owner = [e \in Experiments |-> Nobody]
    /\ retries = [e \in Experiments |-> 0]
    /\ stale = {}
    /\ promoted = {c}
    /\ history = <<[experiment |-> c, score |-> outcome[c].score,
                    evaluated |-> TRUE]>>
    /\ championFile = outcome[c].score
    /\ holdoutReads = 1

Init ==
    /\ PromotionInit \/ \E c \in Crowned : ChampionInit(c)
    /\ proc = [p \in Processes |-> ResetTo(IF p = Main THEN "starting" ELSE "free")]
    /\ pid \in Pids
    /\ \A q \in Pids : pid <= q
    /\ directories = {}
    /\ failures = 0
    /\ circuitOpen = FALSE
    /\ draining = FALSE
    /\ unwritten = {}
    /\ slow = 0
    /\ faults = 0

-----------------------------------------------------------------------------
(* The main loop.                                                          *)

\* Mutant: the rows of the new process are selected, and not the others.
MutantRecoverOwn ==
    /\ At(Main, "starting")
    /\ SelectRows(Main, {e \in Experiments : OwnedByProcess(e, pid)}, "loop")
    /\ UNCHANGED poolVars

\* worker_id LIKE 'remote-master-%' AND NOT LIKE 'remote-master-<pid>%': an
\* old process whose pid starts with the digits of the new one is spared.
RecoverPool ==
    /\ At(Main, "starting")
    /\ SelectRows(Main,
            {e \in Experiments : \E old \in Pids \ {pid} :
                /\ OwnedByProcess(e, old)
                /\ <<pid, old>> \notin Overlapping}, "loop")
    /\ UNCHANGED poolVars

RecoverStale ==
    /\ At(Main, "loop")
    /\ SelectRows(Main, StaleRows, "gating")
    /\ UNCHANGED poolVars

Release == ReleaseSelected(Main) /\ UNCHANGED poolVars

\* Mutant: a drained loop goes on without collecting.
MutantDrainSkipsCollect ==
    /\ At(Main, "gating")
    /\ Goto(Main, IF draining THEN "loop"
                  ELSE IF circuitOpen THEN "collecting" ELSE "dispatching")
    /\ UNCHANGED <<registryVars, outcome, championFile, holdoutReads, poolVars>>

\* Mutant: the circuit stays open until a job succeeds.
MutantCircuitNeverCools ==
    /\ At(Main, "gating")
    /\ Goto(Main, IF draining \/ failures = MaxFailures THEN "collecting"
                                                        ELSE "dispatching")
    /\ UNCHANGED <<registryVars, outcome, championFile, holdoutReads, poolVars>>

\* The DRAIN file and the circuit are looked at once per iteration.
ReadGates ==
    /\ At(Main, "gating")
    /\ Goto(Main, IF draining \/ circuitOpen THEN "collecting" ELSE "dispatching")
    /\ UNCHANGED <<registryVars, outcome, championFile, holdoutReads, poolVars>>

\* claim_next and pool.submit.
Dispatch ==
    /\ At(Main, "dispatching")
    /\ LET id == <<pid, Cardinality(Active) + 1>>
       IN  \E e \in Experiments, t \in Threads \ Active :
              /\ ClaimNext(e, id)
              /\ proc' = [proc EXCEPT ![t] = [ResetTo("computing") EXCEPT
                                                 !.job = e, !.id = id]]
    /\ UNCHANGED <<outcome, championFile, holdoutReads, poolVars>>

EndDispatch ==
    /\ At(Main, "dispatching")
    /\ Active = Threads \/ Queued = {}
    /\ Goto(Main, "collecting")
    /\ UNCHANGED <<registryVars, outcome, championFile, holdoutReads, poolVars>>

\* The circuit opens after MaxFailures failures without a success between.
Collect(t) ==
    /\ At(Main, "collecting")
    /\ \/ /\ At(t, "done")
          /\ failures' = 0
          /\ UNCHANGED circuitOpen
       \/ /\ At(t, "raised")
          /\ failures' = IF failures < MaxFailures THEN failures + 1 ELSE MaxFailures
          /\ circuitOpen' = (circuitOpen \/ failures' = MaxFailures)
    /\ Restart(t, "free")
    /\ UNCHANGED <<registryVars, outcome, championFile, holdoutReads, pid,
                   directories, draining, unwritten, slow, faults>>

EndCollect ==
    /\ At(Main, "collecting")
    /\ Active = Working
    /\ Goto(Main, "loop")
    /\ UNCHANGED <<registryVars, outcome, championFile, holdoutReads, poolVars>>

\* The body of the loop raises: the transaction of a recovery is undone, and
\* the loop starts again.
LoopFails ==
    /\ \/ proc[Main].pc \in {"gating", "dispatching", "collecting"}
       \/ At(Main, "releasing") /\ proc[Main].after = "gating"
    /\ faults < MaxFaults
    /\ faults' = faults + 1
    /\ Restart(Main, "loop")
    /\ UNCHANGED <<registryVars, outcome, championFile, holdoutReads, pid,
                   directories, failures, circuitOpen, draining, unwritten, slow>>

-----------------------------------------------------------------------------
(* A thread: process_claimed.                                              *)

\* The job file is written before the `try`: its exception keeps the lease.
JobFileFails(t) ==
    /\ At(t, "computing")
    /\ faults < MaxFaults
    /\ faults' = faults + 1
    /\ unwritten' = unwritten \cup {Job(t)}
    /\ Restart(t, "raised")
    /\ UNCHANGED <<registryVars, outcome, championFile, holdoutReads, pid,
                   directories, failures, circuitOpen, draining, slow>>

\* The job is uploaded, computed, and its result verified.
Compute(t) ==
    /\ At(t, "computing")
    /\ Goto(t, "promoting")
    /\ UNCHANGED <<registryVars, outcome, championFile, holdoutReads, poolVars>>

\* The computation, its verification, or the write of result.json raises.
ComputeFails(t) ==
    /\ proc[t].pc \in {"computing", "settling"}
    /\ faults < MaxFaults
    /\ faults' = faults + 1
    /\ Goto(t, "failing")
    /\ UNCHANGED <<registryVars, outcome, championFile, holdoutReads, pid,
                   directories, failures, circuitOpen, draining, unwritten, slow>>

PromoteJob(t) ==
    /\ Promote(t, Job(t) \in directories)
    /\ UNCHANGED poolVars

\* The result directory is made here, after _promote.
Complete(t) ==
    /\ At(t, "settling")
    /\ directories' = directories \cup {Job(t)}
    /\ \/ /\ Finish(Job(t), proc[t].id, "completed", proc[t].won)
          /\ Restart(t, "done")
       \/ /\ ~IsOwned(Job(t), proc[t].id)
          /\ Goto(t, "failing")
          /\ UNCHANGED registryVars
    /\ UNCHANGED <<outcome, championFile, holdoutReads, pid, failures,
                   circuitOpen, draining, unwritten, slow, faults>>

\* The remote job file is removed after all else: a timeout of that command
\* replaces the result by its exception.
CleanupFails(t) ==
    /\ At(t, "done")
    /\ faults < MaxFaults
    /\ faults' = faults + 1
    /\ Goto(t, "raised")
    /\ UNCHANGED <<registryVars, outcome, championFile, holdoutReads, pid,
                   directories, failures, circuitOpen, draining, unwritten, slow>>

\* Mutant: the exception ends the future and the lease is kept.
MutantLeaseKept(t) ==
    /\ At(t, "failing")
    /\ Restart(t, "raised")
    /\ UNCHANGED <<registryVars, outcome, championFile, holdoutReads, poolVars>>

\* The exception of process_claimed, or of `requeue` itself, ends the future.
GiveBack(t) ==
    /\ At(t, "failing")
    /\ \/ Requeue(Job(t), proc[t].id, MaxRetries)
       \/ ~IsOwned(Job(t), proc[t].id) /\ UNCHANGED registryVars
    /\ Restart(t, "raised")
    /\ UNCHANGED <<outcome, championFile, holdoutReads, poolVars>>

-----------------------------------------------------------------------------
(* The environment.                                                        *)

Enqueue(e) == Register(e) /\ UNCHANGED <<promotionVars, poolVars>>

\* A lease whose thread is still at work can be outlived: the ssh command
\* alone may take the 120 minutes.
HeartbeatAges(e) ==
    /\ Age(e)
    /\ IF \E t \in Working : Job(t) = e
       THEN slow < MaxSlow /\ slow' = slow + 1
       ELSE UNCHANGED slow
    /\ UNCHANGED <<promotionVars, pid, directories, failures,
                   circuitOpen, draining, unwritten, faults>>

CircuitCools ==
    /\ circuitOpen
    /\ circuitOpen' = FALSE
    /\ UNCHANGED <<registryVars, promotionVars, pid, directories,
                   failures, draining, unwritten, slow, faults>>

\* The telemetry finds a disk of the secondary host exhausted.
HostExhausted ==
    /\ ~circuitOpen
    /\ faults < MaxFaults
    /\ circuitOpen' = TRUE
    /\ faults' = faults + 1
    /\ UNCHANGED <<registryVars, promotionVars, pid, directories, failures,
                   draining, unwritten, slow>>

\* remote-coordinator drain and resume.
SetDrain(flag) ==
    /\ draining # flag
    /\ draining' = flag
    /\ UNCHANGED <<registryVars, promotionVars, pid, directories,
                   failures, circuitOpen, unwritten, slow, faults>>

\* The process ends, with its threads, and starts under the next pid.
Restarts ==
    /\ \E q \in Pids :
          /\ q > pid
          /\ \A r \in Pids : r > pid => q <= r
          /\ pid' = q
    /\ proc' = [p \in Processes |-> ResetTo(IF p = Main THEN "starting" ELSE "free")]
    /\ failures' = 0
    /\ circuitOpen' = FALSE
    /\ UNCHANGED <<registryVars, outcome, championFile, holdoutReads,
                   directories, draining, unwritten, slow, faults>>

-----------------------------------------------------------------------------

MainStep ==
    \/ RecoverPool \/ RecoverStale \/ Release \/ ReadGates
    \/ Dispatch \/ EndDispatch
    \/ \E t \in Threads : Collect(t)
    \/ EndCollect

ThreadStep(t) ==
    Compute(t) \/ PromoteJob(t) \/ Complete(t) \/ GiveBack(t)

Next ==
    \/ MainStep
    \/ LoopFails
    \/ \E t \in Threads : \/ ThreadStep(t)
                          \/ JobFileFails(t) \/ ComputeFails(t) \/ CleanupFails(t)
                          \/ WriteFails(t) /\ UNCHANGED poolVars
    \/ \E e \in Experiments : Enqueue(e) \/ HeartbeatAges(e)
    \/ CircuitCools \/ HostExhausted
    \/ \E flag \in BOOLEAN : SetDrain(flag)
    \/ Restarts

Spec == Init /\ [][Next]_vars

\* The loop runs for ever, every call of a thread has a timeout, time passes
\* for the leases of dead processes, and circuit_open ends.
Fairness ==
    /\ WF_vars(MainStep)
    /\ \A t \in Threads : WF_vars(ThreadStep(t))
    /\ \A e \in Experiments : WF_vars(HeartbeatAges(e))
    /\ WF_vars(CircuitCools)

FairSpec == Spec /\ Fairness

-----------------------------------------------------------------------------
(* Properties.                                                             *)

TypeOK ==
    /\ PromotionTypeOK
    /\ \A e \in Experiments : status[e] \in {"absent", "queued"} => owner[e] = Nobody
    /\ pid \in Pids
    /\ directories \subseteq Experiments
    /\ failures \in 0..MaxFailures
    /\ circuitOpen \in BOOLEAN
    /\ draining \in BOOLEAN
    /\ unwritten \subseteq Experiments
    /\ slow \in 0..MaxSlow
    /\ faults \in 0..MaxFaults

\* A row that is running for this process has a thread that works on it with
\* that lease: none is stranded until it is stale, though recoveries take
\* leases back, worker ids are used again and every call may raise, except a
\* job whose file could not be written.
NoStrandedLease ==
    \A e \in Experiments :
        OwnedByProcess(e, pid) /\ e \notin unwritten =>
            \E t \in Working : Job(t) = e /\ proc[t].id = owner[e]

\* The retry limit holds across processes: a row fails exactly when it was
\* given back MaxRetries times.
RetryLimitHolds ==
    \A e \in Experiments :
        /\ retries[e] <= MaxRetries
        /\ status[e] = "failed" <=> retries[e] = MaxRetries

\* The registry keeps what ExperimentLifecycle promises.
Lifecycle == INSTANCE ExperimentLifecycle WITH best <- Best
ImplementsLifecycle == Lifecycle!LifecycleSpec

\* After the recovery at the start, no row is left running for a process
\* that was replaced, if no pid begins with the digits of another.
ReplacedPoolIsRecovered ==
    At(Main, "dispatching") =>
        \A e \in Experiments : status[e] = "running" => OwnedByProcess(e, pid)

\* Leases, retries and restarts of the pool agree with each other.
PoolIsSound ==
    TypeOK /\ RetryLimitHolds /\ NoStrandedLease /\ ReplacedPoolIsRecovered

\* An experiment that passed every gate is not failed while the secondary
\* host makes no fault.
FinalistsDoNotFail ==
    faults = 0 => \A e \in Experiments :
        status[e] = "failed" => outcome[e].score = 0 \/ ~outcome[e].holdout

\* A drain that is not taken back ends with no thread at work.
DrainCompletes == <>[]draining => <>[](Active = {})

\* Unless the coordinator is drained for ever, every experiment that is queued
\* is settled, whatever fails on the way.
EveryExperimentSettles ==
    <>[]~draining =>
        \A e \in Experiments : status[e] = "queued" ~> status[e] \in Terminal

\* A drain ends, and without one every experiment does.
PoolProgresses == DrainCompletes /\ EveryExperimentSettles
=============================================================================
