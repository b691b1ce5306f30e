-------------------------- MODULE TournamentRunner --------------------------
(***************************************************************************)
(* Tournament workers on the primary host.  A service incarnation runs     *)
(* ContinuousTournamentWorker.run_forever: it recovers the claims of other *)
(* workers when it starts, and stale claims before every run_once.  A      *)
(* command line run (TournamentRunner.run) only repeats run_once.  The     *)
(* service is "the single system worker": one incarnation is up at a time, *)
(* and a crash starts the next; command line runs come and go beside it.   *)
(***************************************************************************)
EXTENDS Promotion

CONSTANTS
    Services,   \* incarnations of the service, each with its own worker_id
    Clis,       \* command line runs
    Fragile     \* bound: experiments whose directory may fail to be made

ASSUME RunnerAssumption ==
    /\ Services \cap Clis = {}
    /\ Processes = Services \cup Clis
    /\ WorkerIds = Processes
    /\ Fragile \subseteq Experiments

VARIABLE
    unmade      \* the experiments whose directory could not be made, once each

vars == <<registryVars, promotionVars, unmade>>

Gone == {"unborn", "dead"}
Alive(p) == proc[p].pc \notin Gone

\* Between two experiments.
Between == {"starting", "loop", "releasing", "claiming"}

\* Where a process goes after an experiment: the service to its next
\* iteration; a command line run claims again, or ends with the exception.
AfterRun(p, raised) == IF p \in Services THEN "loop"
                    ELSE IF raised THEN "dead" ELSE "claiming"

Init ==
    /\ PromotionInit
    /\ proc = [p \in Processes |-> ResetTo("unborn")]
    /\ unmade = {}

Start(p) ==
    /\ At(p, "unborn")
    /\ p \in Services => \A q \in Services : ~Alive(q)
    /\ Restart(p, IF p \in Services THEN "starting" ELSE "claiming")
    /\ UNCHANGED <<registryVars, outcome, championFile, holdoutReads, unmade>>

\* The last incarnation of the service does not crash.
Crash(p) ==
    /\ Alive(p)
    /\ p \in Services => \E q \in Services : At(q, "unborn")
    /\ Restart(p, "dead")
    /\ UNCHANGED <<registryVars, outcome, championFile, holdoutReads, unmade>>

\* Mutant: the recovery selects rows in any status.
MutantRecoverAnyStatus(p) ==
    /\ At(p, "starting")
    /\ SelectRows(p, {e \in Experiments : owner[e] \notin {p, Nobody}}, "loop")
    /\ UNCHANGED unmade

RecoverOtherWorkers(p) ==
    /\ At(p, "starting")
    /\ SelectRows(p, {e \in Experiments : status[e] = "running" /\ owner[e] # p},
                  "loop")
    /\ UNCHANGED unmade

RecoverStale(p) ==
    /\ At(p, "loop")
    /\ SelectRows(p, StaleRows, "claiming")
    /\ UNCHANGED unmade

\* The searches and the catalog raise, and the loop starts again.
MaintenanceFails(p) ==
    /\ At(p, "claiming")
    /\ p \in Services
    /\ Restart(p, "loop")
    /\ UNCHANGED <<registryVars, outcome, championFile, holdoutReads, unmade>>

Claim(p) ==
    /\ At(p, "claiming")
    /\ \E e \in Experiments :
          /\ ClaimNext(e, p)
          /\ proc' = [proc EXCEPT ![p].pc = "developing", ![p].job = e, ![p].id = p]
    /\ UNCHANGED <<outcome, championFile, holdoutReads, unmade>>

ClaimNothing(p) ==
    /\ At(p, "claiming")
    /\ Queued = {}
    /\ Restart(p, IF p \in Services THEN "loop" ELSE "dead")
    /\ UNCHANGED <<registryVars, outcome, championFile, holdoutReads, unmade>>

\* The directory is made before the `try`: its exception leaves the row as it is.
DirectoryFails(p) ==
    /\ At(p, "developing")
    /\ Job(p) \in Fragile \ unmade
    /\ unmade' = unmade \cup {Job(p)}
    /\ Restart(p, AfterRun(p, TRUE))
    /\ UNCHANGED <<registryVars, outcome, championFile, holdoutReads>>

\* The development backtest, the heartbeat and the validation backtest.
Develop(p) ==
    /\ At(p, "developing")
    /\ \/ /\ Heartbeat(Job(p), p)
          /\ Goto(p, "promoting")
       \/ /\ ~IsOwned(Job(p), p)
          /\ Goto(p, "failing")
          /\ UNCHANGED registryVars
    /\ UNCHANGED <<outcome, championFile, holdoutReads, unmade>>

\* A backtest, or a write of its artifacts, raises.
EvaluationFails(p) ==
    /\ proc[p].pc \in {"developing", "promoting", "settling"}
    /\ Goto(p, "failing")
    /\ UNCHANGED <<registryVars, outcome, championFile, holdoutReads, unmade>>

Complete(p) ==
    /\ At(p, "settling")
    /\ \/ /\ Finish(Job(p), p, "completed", proc[p].won)
          /\ Restart(p, AfterRun(p, FALSE))
       \/ /\ ~IsOwned(Job(p), p)
          /\ Goto(p, "failing")
          /\ UNCHANGED registryVars
    /\ UNCHANGED <<outcome, championFile, holdoutReads, unmade>>

\* Mutant: the exception leaves the row as it is.
MutantFailUnrecorded(p) ==
    /\ At(p, "failing")
    /\ Restart(p, AfterRun(p, TRUE))
    /\ UNCHANGED <<registryVars, outcome, championFile, holdoutReads, unmade>>

\* The exception is raised again, and so is that of `fail` itself.
Fail(p) ==
    /\ At(p, "failing")
    /\ \/ Finish(Job(p), p, "failed", FALSE)
       \/ ~IsOwned(Job(p), p) /\ UNCHANGED registryVars
    /\ Restart(p, AfterRun(p, TRUE))
    /\ UNCHANGED <<outcome, championFile, holdoutReads, unmade>>

\* The catalog, the searches and the command line register experiments.
Enqueue(e) == Register(e) /\ UNCHANGED <<promotionVars, unmade>>

HeartbeatAges(e) == Age(e) /\ UNCHANGED <<promotionVars, unmade>>

PromoteJob(p) == Promote(p, TRUE) /\ UNCHANGED unmade

RunOnce(p) ==
    \/ Claim(p) \/ ClaimNothing(p) \/ Develop(p) \/ PromoteJob(p)
    \/ Complete(p) \/ Fail(p)

Faults(p) ==
    \/ MaintenanceFails(p) \/ DirectoryFails(p) \/ EvaluationFails(p)
    \/ (ReadHoldout(p, FALSE) \/ WriteFails(p)) /\ UNCHANGED unmade

Recover(p) ==
    /\ p \in Services
    /\ \/ RecoverOtherWorkers(p)
       \/ RecoverStale(p)
       \/ ReleaseSelected(p) /\ UNCHANGED unmade

Next ==
    \/ \E p \in Processes : \/ Start(p) \/ Crash(p) \/ Recover(p) \/ RunOnce(p)
                            \/ Faults(p)
    \/ \E e \in Experiments : Enqueue(e) \/ HeartbeatAges(e)

Spec == Init /\ [][Next]_vars

\* The service loops for ever and is restarted when it crashes; what it does
\* before a claim does not raise for ever; time passes.  Nothing is assumed of
\* the command line runs.
Fairness ==
    /\ \A p \in Services : /\ WF_vars(Start(p))
                           /\ WF_vars(Recover(p) \/ RunOnce(p))
                           /\ SF_vars(Claim(p))
    /\ \A e \in Experiments : WF_vars(HeartbeatAges(e))

FairSpec == Spec /\ Fairness

-----------------------------------------------------------------------------
(* Properties.                                                             *)

\* Every variable has its type, and an experiment that is not running and
\* not settled has no owner.
TypeOK ==
    /\ PromotionTypeOK
    /\ \A e \in Experiments :
          /\ status[e] \in {"absent", "queued"} => owner[e] = Nobody
          /\ status[e] = "running" => owner[e] \in Processes
    /\ unmade \subseteq Fragile

\* What a live worker holds in the registry is what it is working on, in
\* spite of recoveries by others, exceptions and crashes: no row stays
\* `running` with a worker that has turned to something else, except where
\* the directory of the experiment could not be made.
LiveLeaseIsWorkedOn ==
    \A e \in Experiments :
        status[e] = "running" /\ Alive(owner[e]) /\ e \notin unmade =>
            /\ Job(owner[e]) = e
            /\ proc[owner[e]].pc \notin Between

\* Leases have the right owners, and their owners work on them.
LeasesAreSound == TypeOK /\ LiveLeaseIsWorkedOn

\* The registry keeps what ExperimentLifecycle promises: no row leaves a
\* terminal status, and the champion is only replaced by a better one.
Lifecycle == INSTANCE ExperimentLifecycle WITH best <- Best
ImplementsLifecycle == Lifecycle!LifecycleSpec

\* A row with a terminal status keeps it ("duplicate terminal completion
\* impossible").
TerminalIsFinal ==
    [][\A e \in Experiments : status[e] \in Terminal => status'[e] = status[e]]_vars

\* Every champion has a better validation score than the one before it.
ChampionsImprove ==
    \A i \in 1..(Len(history) - 1) : history[i].score < history[i + 1].score

\* The holdout of a dataset version is read at most once.
HoldoutReadOnce == holdoutReads <= 1

\* A promotion that follows one that used the holdout does not use it.
HoldoutSparedAfterUse ==
    \A i \in 1..(Len(history) - 1) :
        ~(history[i].evaluated /\ history[i + 1].evaluated)

\* With one process at a time, the only row flagged as promoted is that of
\* the latest champion, wherever the process was interrupted.
OnlyChampionIsPromoted ==
    history = << >> \/ promoted \subseteq {history[Len(history)].experiment}

\* champion.json never goes back to a worse champion and is never ahead of the
\* registry.
PromotionStep ==
    /\ championFile <= championFile' /\ championFile' <= Best'
    /\ HoldoutSparedAfterUse' /\ OnlyChampionIsPromoted'

\* With one process at a time, the promoted flag, the history of champions and
\* champion.json agree wherever it was interrupted, and a promotion that
\* follows one that used the holdout spares it.
PromotionsAgree == [][PromotionStep]_vars

\* Whatever crashes, every experiment that is queued is settled in the end.
EveryExperimentSettles ==
    \A e \in Experiments : status[e] = "queued" ~> status[e] \in Terminal
=============================================================================
