----------------------------- MODULE Promotion -----------------------------
(***************************************************************************)
(* TournamentRunner._promote: how a process that has evaluated its         *)
(* experiment tries to make it the champion.  It reads the champion, reads *)
(* the protected holdout if that was not consumed, commits the promotion   *)
(* to the registry and writes champion.json; the four are separate steps.  *)
(* Tournament workers (TournamentRunner) and the threads of the remote     *)
(* coordinator (DistributedCompute) both run it.                           *)
(***************************************************************************)
EXTENDS ExperimentRegistry

CONSTANT Processes

VARIABLES
    outcome,        \* what the backtests of each experiment compute; fixed
    proc,           \* what each process is doing
    championFile,   \* champion.json: the score in it; 0 when there is none
    holdoutReads    \* backtests on the test partition, counted up to 2

promotionVars == <<outcome, proc, championFile, holdoutReads>>

\* The backtests are deterministic.  score: rank of the validation score;
\* holdout: whether the gates pass on the test partition.
Rejected == [score |-> 0, holdout |-> FALSE]    \* a gate fails
Outcomes == [Experiments -> {Rejected} \cup [score : 1..MaxScore, holdout : BOOLEAN]]

Idle == {"unborn", "dead", "starting", "loop", "releasing", "claiming", "gating",
         "dispatching", "collecting", "free", "done", "raised"}

\* Where a process has a job.
Busy == {"developing", "computing", "promoting", "holdout", "selecting",
         "inserting", "publishing", "settling", "failing"}

\* job: the experiment claimed; id: the worker_id it was claimed with;
\* evaluated: the holdout was read for it; won: it became the champion;
\* rows: selected by a recovery; after: where the recovery continues.
States == [pc : Idle \cup Busy, after : Idle \cup Busy,
           job : Experiments \cup {Nobody}, id : WorkerIds \cup {Nobody},
           evaluated : BOOLEAN, won : BOOLEAN, rows : SUBSET Experiments]

ResetTo(here) == [pc |-> here, after |-> here, job |-> Nobody, id |-> Nobody,
                  evaluated |-> FALSE, won |-> FALSE, rows |-> {}]

PromotionInit ==
    /\ RegistryInit
    /\ outcome \in Outcomes
    /\ championFile = 0
    /\ holdoutReads = 0

At(p, here) == proc[p].pc = here
Goto(p, there) == proc' = [proc EXCEPT ![p].pc = there]
Restart(p, there) == proc' = [proc EXCEPT ![p] = ResetTo(there)]

Job(p) == proc[p].job
Score(p) == outcome[Job(p)].score

-----------------------------------------------------------------------------
(* The recoveries of the registry, run by p.                               *)

SelectRows(p, S, there) ==
    /\ IF ReadCommitted
       THEN /\ proc' = [proc EXCEPT ![p] = [ResetTo("releasing") EXCEPT
                                               !.rows = S, !.after = there]]
            /\ UNCHANGED registryVars
       ELSE Restart(p, there) /\ ReleaseRows(S)
    /\ UNCHANGED <<outcome, championFile, holdoutReads>>

ReleaseSelected(p) ==
    /\ At(p, "releasing")
    /\ ReleaseRows(proc[p].rows)
    /\ Restart(p, proc[p].after)
    /\ UNCHANGED <<outcome, championFile, holdoutReads>>

-----------------------------------------------------------------------------
(* _promote.  "settling" is its return, "failing" its exception.           *)

\* A failed gate is a score of 0, which beats no champion.
ReadChampion(p) ==
    /\ At(p, "promoting")
    /\ Goto(p, IF Score(p) <= Best THEN "settling"
               ELSE IF HoldoutConsumed THEN "selecting" ELSE "holdout")
    /\ UNCHANGED <<registryVars, outcome, championFile, holdoutReads>>

\* The artifacts of the holdout are written before its gates are looked at:
\* that raises where the directory of the experiment does not exist.
ReadHoldout(p, directoryExists) ==
    /\ At(p, "holdout")
    /\ holdoutReads' = IF holdoutReads < 2 THEN holdoutReads + 1 ELSE 2
    /\ proc' = [proc EXCEPT
                  ![p].pc = IF ~directoryExists THEN "failing"
                            ELSE IF outcome[Job(p)].holdout THEN "selecting"
                            ELSE "settling",
                  ![p].evaluated = TRUE]
    /\ UNCHANGED <<registryVars, outcome, championFile>>

Crown(p) ==
    /\ InsertChampion(Job(p), Score(p), proc[p].evaluated)
    /\ Goto(p, "publishing")

\* Mutant: promote_champion trusts the comparison of its caller.
MutantNoSecondComparison(p) ==
    /\ At(p, "selecting")
    /\ IF ReadCommitted THEN Goto(p, "inserting") /\ UNCHANGED registryVars
                        ELSE Crown(p)
    /\ UNCHANGED <<outcome, championFile, holdoutReads>>

\* promote_champion compares with the champion once more.
SelectPrevious(p) ==
    /\ At(p, "selecting")
    /\ \/ /\ Score(p) <= Best
          /\ Goto(p, "failing")
          /\ UNCHANGED registryVars
       \/ /\ Score(p) > Best
          /\ IF ReadCommitted THEN Goto(p, "inserting") /\ UNCHANGED registryVars
                              ELSE Crown(p)
    /\ UNCHANGED <<outcome, championFile, holdoutReads>>

InsertSelected(p) ==
    /\ At(p, "inserting")
    /\ Crown(p)
    /\ UNCHANGED <<outcome, championFile, holdoutReads>>

WriteChampionFile(p) ==
    /\ At(p, "publishing")
    /\ championFile' = Score(p)
    /\ proc' = [proc EXCEPT ![p].pc = "settling", ![p].won = TRUE]
    /\ UNCHANGED <<registryVars, outcome, holdoutReads>>

\* The directory cannot be made, or the file cannot be written.
WriteFails(p) ==
    /\ At(p, "publishing")
    /\ Goto(p, "failing")
    /\ UNCHANGED <<registryVars, outcome, championFile, holdoutReads>>

Promote(p, directoryExists) ==
    \/ ReadChampion(p)
    \/ ReadHoldout(p, directoryExists)
    \/ SelectPrevious(p)
    \/ InsertSelected(p)
    \/ WriteChampionFile(p)

-----------------------------------------------------------------------------

PromotionTypeOK ==
    /\ RegistryTypeOK
    /\ outcome \in Outcomes
    /\ proc \in [Processes -> States]
    /\ championFile \in 0..MaxScore
    /\ holdoutReads \in 0..2
=============================================================================
