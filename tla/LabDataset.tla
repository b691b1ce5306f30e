----------------------------- MODULE LabDataset -----------------------------
(***************************************************************************)
(* The research tick of the lab (research_once of lab.py) and the durable  *)
(* state it keeps in lab_store.py and under data/lab: the frozen dataset,  *)
(* its manifest, the archived cohorts, the validation budget, the jobs.    *)
(*                                                                         *)
(* A dataset is named by the hash of its bars, here by its newest bar in   *)
(* units of the market store.  Each write is durable by itself, and the    *)
(* process may end between any two of them.                                *)
(***************************************************************************)
EXTENDS Integers, Sequences, FiniteSets

CONSTANTS
    Jobs,           \* research jobs
    CohortSize,     \* units of new bars that make a cohort (100 000 bars)
    MAX_ATTEMPTS,   \* validations on one dataset
    KeptArchives,   \* cohorts of the history (12)
    MaxMarket       \* bound of the market

ASSUME CohortsAssumption ==
    /\ CohortSize \in Nat \ {0}
    /\ MAX_ATTEMPTS \in Nat
    /\ KeptArchives \in Nat \ {0}
    /\ MaxMarket \in Nat

VARIABLES
    marketBar,      \* the newest bar of the market store
    file,           \* dataset.parquet: its content, 0 when there is none
    manifest,       \* lab:dataset
    history,        \* lab:dataset_history
    archives,       \* datasets/<version>.parquet: their content
    attempts,       \* lab:attempts
    jobs,           \* lab:jobs
    candidates,     \* the datasets of candidates that are not settled
    harness,        \* the process
    assessed        \* observed: the validations on each dataset

cohortsVars == <<marketBar, file, manifest, history, archives, attempts, jobs,
          candidates, harness, assessed>>

-----------------------------------------------------------------------------
Versions == 1 .. MaxMarket
UnfinishedJobs == {j \in Jobs : jobs[j] = "running"}

\* newest is the newest bar the tick read; count is the budget it read.
LabOff == [at |-> "off", recovers |-> FALSE, newest |-> 0, count |-> 0, job |-> {}]
LabSteps == {"off", "idle", "history", "attempts", "freeze", "manifest", "check",
          "job", "turn", "spend", "assess"}

CohortsInit ==
    /\ marketBar = 0
    /\ file = 0
    /\ manifest = 0
    /\ history = << >>
    /\ archives = << >>
    /\ attempts = 0
    /\ jobs = [j \in Jobs |-> "new"]
    /\ candidates = {}
    /\ harness = LabOff
    /\ assessed = [v \in Versions |-> 0]

-----------------------------------------------------------------------------
(* The process and its environment. *)

BarsStored ==
    /\ marketBar < MaxMarket
    /\ marketBar' = marketBar + 1
    /\ UNCHANGED <<file, manifest, history, archives, attempts, jobs,
                   candidates, harness, assessed>>

\* A plausible bug: a restart leaves the jobs as they were.
MutantRecovered == jobs

\* recover_jobs: recorded as interrupted, never replayed.
Recovered ==
    [j \in Jobs |-> IF jobs[j] = "running" THEN "interrupted" ELSE jobs[j]]

\* ResearchHarness.run recovers; lab once goes straight to the research tick.
StartLab ==
    /\ harness.at = "off"
    /\ \E recovers \in BOOLEAN :
          /\ harness' = [LabOff EXCEPT !.at = "idle", !.recovers = recovers]
          /\ jobs' = IF recovers THEN Recovered ELSE jobs
    /\ UNCHANGED <<marketBar, file, manifest, history, archives, attempts,
                   candidates, assessed>>

LabEnds ==
    /\ harness.at # "off"
    /\ harness' = LabOff
    /\ UNCHANGED <<marketBar, file, manifest, history, archives, attempts, jobs,
                   candidates, assessed>>

\* A candidate is retired or rejected: its dataset is referenced no more.
CandidateSettles ==
    /\ \E v \in candidates : candidates' = candidates \ {v}
    /\ UNCHANGED <<marketBar, file, manifest, history, archives, attempts, jobs,
                   harness, assessed>>

-----------------------------------------------------------------------------
(* research_once: the cohort. *)

\* A plausible bug: any new bars make a cohort.
MutantNewCohort == manifest > 0 /\ marketBar > manifest

\* As many bars as a dataset has, all of them later than the present one.
NewCohort == manifest > 0 /\ marketBar >= manifest + CohortSize

Put(f, k, v) == [x \in DOMAIN f \cup {k} |-> IF x = k THEN v ELSE f[x]]

TickArchives ==
    /\ harness.at = "idle"
    /\ NewCohort
    /\ archives' = Put(archives, manifest, file)
    /\ harness' = [harness EXCEPT !.at = "history", !.newest = marketBar]
    /\ UNCHANGED <<marketBar, file, manifest, history, attempts, jobs, candidates,
                   assessed>>

NewestOnes(s) == SubSeq(s, Len(s) - KeptArchives + 1, Len(s))
Bounded(s) == IF Len(s) > KeptArchives THEN NewestOnes(s) ELSE s

TickWritesHistory ==
    /\ harness.at = "history"
    /\ history' = Bounded(Append(history, manifest))
    /\ harness' = [harness EXCEPT !.at = "attempts"]
    /\ UNCHANGED <<marketBar, file, manifest, archives, attempts, jobs, candidates,
                   assessed>>

TickResetsBudget ==
    /\ harness.at = "attempts"
    /\ attempts' = 0
    /\ harness' = [harness EXCEPT !.at = "freeze"]
    /\ UNCHANGED <<marketBar, file, manifest, history, archives, jobs, candidates,
                   assessed>>

\* The first dataset needs no archive.
TickFirst ==
    /\ harness.at = "idle"
    /\ manifest = 0
    /\ marketBar >= CohortSize
    /\ harness' = [harness EXCEPT !.at = "freeze", !.newest = marketBar]
    /\ UNCHANGED <<marketBar, file, manifest, history, archives, attempts, jobs,
                   candidates, assessed>>

\* The bars, read when the tick began, are written before their manifest.
TickFreezes ==
    /\ harness.at = "freeze"
    /\ file' = harness.newest
    /\ harness' = [harness EXCEPT !.at = "manifest", !.newest = 0]
    /\ UNCHANGED <<marketBar, manifest, history, archives, attempts, jobs,
                   candidates, assessed>>

TickWritesManifest ==
    /\ harness.at = "manifest"
    /\ manifest' = file
    /\ harness' = [harness EXCEPT !.at = "check"]
    /\ UNCHANGED <<marketBar, file, history, archives, attempts, jobs, candidates,
                   assessed>>

\* Neither a first nor a new cohort: the dataset as it was frozen.
TickReuses ==
    /\ harness.at = "idle"
    /\ manifest > 0
    /\ ~NewCohort
    /\ harness' = [harness EXCEPT !.at = "check"]
    /\ UNCHANGED <<marketBar, file, manifest, history, archives, attempts, jobs,
                   candidates, assessed>>

-----------------------------------------------------------------------------
(* research_once: the job. *)

\* frozen_dataset_changed is not raised: the file differs from its manifest only
\* after a crash between the two, and then a cohort is due that writes both.
JobStarts ==
    /\ harness.at = "check"
    /\ file = manifest
    /\ \E j \in Jobs :
          /\ jobs[j] = "new"
          /\ jobs' = [jobs EXCEPT ![j] = "running"]
          /\ harness' = [harness EXCEPT !.at = "turn", !.count = attempts, !.job = {j}]
    /\ UNCHANGED <<marketBar, file, manifest, history, archives, attempts,
                   candidates, assessed>>

JobEndsAs(state) ==
    /\ jobs' = [j \in Jobs |-> IF j \in harness.job THEN state ELSE jobs[j]]
    /\ harness' = [harness EXCEPT !.at = "idle", !.count = 0, !.job = {}]

\* A plausible bug: a job that failed gives its attempt back.
MutantJobFails ==
    /\ harness.at \in {"turn", "spend", "assess"}
    /\ JobEndsAs("failed")
    /\ attempts' = harness.count
    /\ UNCHANGED <<marketBar, file, manifest, history, archives, candidates, assessed>>

\* A failed turn, a failed publication or a failed assessment.
JobFails ==
    /\ harness.at \in {"turn", "spend", "assess"}
    /\ JobEndsAs("failed")
    /\ UNCHANGED <<marketBar, file, manifest, history, archives, attempts,
                   candidates, assessed>>

\* The budget is used up, or no new candidate is worth an assessment.
JobWithoutCandidate ==
    /\ harness.at = "turn"
    /\ JobEndsAs("completed")
    /\ UNCHANGED <<marketBar, file, manifest, history, archives, attempts,
                   candidates, assessed>>

DiscoveryOnly == harness.count >= MAX_ATTEMPTS

\* The attempt is durable before the protected bars are read.
JobSpends ==
    /\ harness.at = "turn"
    /\ ~DiscoveryOnly
    /\ attempts' = harness.count + 1
    /\ harness' = [harness EXCEPT !.at = "spend"]
    /\ UNCHANGED <<marketBar, file, manifest, history, archives, jobs, candidates,
                   assessed>>

JobAssesses ==
    /\ harness.at = "spend"
    /\ assessed' = [assessed EXCEPT ![manifest] = @ + 1]
    /\ harness' = [harness EXCEPT !.at = "assess"]
    /\ UNCHANGED <<marketBar, file, manifest, history, archives, attempts, jobs,
                   candidates>>

\* The candidate is observed, or rejected at once.
JobCompletes ==
    /\ harness.at = "assess"
    /\ candidates' \in {candidates, candidates \cup {manifest}}
    /\ JobEndsAs("completed")
    /\ UNCHANGED <<marketBar, file, manifest, history, archives, attempts, assessed>>

-----------------------------------------------------------------------------
(* prune_research_evidence, from the same thread. *)

\* The last versions of the history.
Remembered == {Bounded(history)[n] : n \in 1 .. Len(Bounded(history))}

\* A plausible bug: only the history protects an archive.
MutantPreserved == Remembered \cup {manifest}

Preserved == Remembered \cup {manifest} \cup candidates

PruneArchives ==
    /\ harness.at = "idle"
    /\ ~(DOMAIN archives \subseteq Preserved)
    /\ archives' = [v \in DOMAIN archives \cap Preserved |-> archives[v]]
    /\ UNCHANGED <<marketBar, file, manifest, history, attempts, jobs, candidates,
                   harness, assessed>>

CohortsNext ==
    \/ BarsStored \/ StartLab \/ LabEnds \/ CandidateSettles
    \/ TickArchives \/ TickWritesHistory \/ TickResetsBudget \/ TickFirst
    \/ TickFreezes \/ TickWritesManifest \/ TickReuses
    \/ JobStarts \/ JobFails \/ JobWithoutCandidate \/ JobSpends \/ JobAssesses
    \/ JobCompletes \/ PruneArchives

CohortsSpec == CohortsInit /\ [][CohortsNext]_cohortsVars

-----------------------------------------------------------------------------
(* Properties. *)

CohortsTypeOK ==
    /\ {marketBar, file, manifest} \subseteq 0 .. MaxMarket
    /\ history \in Seq(Versions) /\ Len(history) <= KeptArchives
    /\ DOMAIN archives \subseteq Versions
    /\ attempts \in 0 .. MAX_ATTEMPTS
    /\ jobs \in [Jobs -> {"new", "running", "interrupted", "failed", "completed"}]
    /\ candidates \subseteq Versions
    /\ harness.at \in LabSteps /\ {harness.count, harness.newest} \subseteq Nat /\ harness.job \subseteq Jobs

\* The protected bars of a dataset are read at most MAX_ATTEMPTS times, however
\* often a job fails or the process is killed after its assessment.
BudgetHolds == \A v \in Versions : assessed[v] <= MAX_ATTEMPTS

\* No two datasets share a bar: what one was validated on is never used again.
CohortsDisjoint ==
    manifest' # manifest /\ manifest > 0 =>
        /\ manifest' >= manifest + CohortSize
        /\ \A n \in 1 .. Len(history) : manifest' >= history[n] + CohortSize

\* A candidate that is not settled can be checked against its dataset.
ReferencedCohortsKept == candidates \subseteq DOMAIN archives \cup {manifest}

\* While the harness runs, a job that says it is running is the one it works on.
JobsTrue == harness.recovers => UnfinishedJobs \subseteq harness.job

\* The archive of a version holds the bars the version names.
ArchiveIsVersion == \A v \in DOMAIN archives : archives[v] = v

ValidationStep ==
    /\ CohortsDisjoint
    /\ CohortsTypeOK' /\ BudgetHolds' /\ ReferencedCohortsKept' /\ JobsTrue'

\* What is validated is validated on bars nobody has seen, as often as the budget
\* allows, by jobs that say what they do, and can be checked afterwards.
ValidationIsProtected == [][ValidationStep]_cohortsVars
=============================================================================
