---------------------------- MODULE DailyResearch ----------------------------
(***************************************************************************)
(* The scheduled research stage (automation.py): attempts that may         *)
(* overlap, the lock that lets one of them run, the run's directory and    *)
(* the record of the champion.                                             *)
(*                                                                         *)
(* A run is identified by the second it began in and a digest of the bars  *)
(* it reads; every file is replaced whole.  An attempt may end anywhere.   *)
(***************************************************************************)
EXTENDS Integers, FiniteSets

CONSTANTS
    Attempts,       \* attempts at the research stage, one process each
    MaxDigest,      \* bound of the revisions of the bars
    MaxValidation   \* bound of the validation scores

ASSUME ResearchAssumption ==
    /\ {"free", "none"} \cap Attempts = {}
    /\ MaxDigest \in Nat \ {0}
    /\ MaxValidation \in Nat

VARIABLES
    digest,         \* the digest of the bars in the store
    runLock,        \* the attempt that holds automation.lock
    attempt,        \* how far each attempt is, and what it holds in memory
    complete,       \* the runs whose directory has its manifest
    champion,       \* champion.json
    latest          \* latest.json

researchVars == <<digest, runLock, attempt, complete, champion, latest>>

-----------------------------------------------------------------------------
Digests == 1 .. MaxDigest
Scores == 1 .. MaxValidation
NoChampion == [run |-> "none", digest |-> 0, score |-> 0]
NotYet == [at |-> "off", digest |-> 0, best |-> 0, seen |-> NoChampion]

ResearchInit ==
    /\ digest = 1
    /\ runLock = "free"
    /\ attempt = [a \in Attempts |-> NotYet]
    /\ complete = {}
    /\ champion = NoChampion
    /\ latest = "none"

AttemptMoves(a, at) == attempt' = [attempt EXCEPT ![a].at = at]

\* The broker's data is updated or revised.
BarsRevised ==
    /\ digest < MaxDigest
    /\ digest' = digest + 1
    /\ UNCHANGED <<runLock, attempt, complete, champion, latest>>

-----------------------------------------------------------------------------
(* automated_attempt *)

AttemptStarts(a) ==
    /\ attempt[a].at = "off"
    /\ AttemptMoves(a, "starting")
    /\ UNCHANGED <<digest, runLock, complete, champion, latest>>

\* Mutant: the attempt does not ask for the lock.
MutantMayRun == TRUE

MayRun == runLock = "free"

Enters(a) ==
    /\ attempt[a].at = "starting"
    /\ MayRun
    /\ runLock' = a
    /\ AttemptMoves(a, "entered")
    /\ UNCHANGED <<digest, complete, champion, latest>>

\* "another automated research run is already active".
Overlaps(a) ==
    /\ attempt[a].at = "starting"
    /\ runLock # "free"
    /\ AttemptMoves(a, "failed")
    /\ UNCHANGED <<digest, runLock, complete, champion, latest>>

\* The run failed, or its process has ended: the lock is free either way.
AttemptFails(a) ==
    /\ attempt[a].at \in {"entered", "ranked", "compared", "promoted", "written", "published"}
    /\ AttemptMoves(a, "failed")
    /\ runLock' = IF runLock = a THEN "free" ELSE runLock
    /\ UNCHANGED <<digest, complete, champion, latest>>

-----------------------------------------------------------------------------
(* DailyResearchPipeline.run and ChampionRegistry.consider *)

\* The bars are read; the best that passed validation has some score.
Ranks(a) ==
    /\ attempt[a].at = "entered"
    /\ \E best \in Scores :
        attempt' = [attempt EXCEPT ![a] = [at |-> "ranked", digest |-> digest,
                                           best |-> best, seen |-> NoChampion]]
    /\ UNCHANGED <<digest, runLock, complete, champion, latest>>

ReadsChampion(a) ==
    /\ attempt[a].at = "ranked"
    /\ attempt' = [attempt EXCEPT ![a].at = "compared", ![a].seen = champion]
    /\ UNCHANGED <<digest, runLock, complete, champion, latest>>

\* Scores are compared only when they were computed on the same bars.
Beats(a) ==
    LET me == attempt[a] IN
    \/ me.seen = NoChampion
    \/ me.seen.digest # me.digest
    \/ me.best > me.seen.score

Promotes(a) ==
    /\ attempt[a].at = "compared"
    /\ Beats(a)
    /\ champion' = [run |-> a, digest |-> attempt[a].digest, score |-> attempt[a].best]
    /\ AttemptMoves(a, "promoted")
    /\ UNCHANGED <<digest, runLock, complete, latest>>

KeepsChampion(a) ==
    /\ attempt[a].at = "compared"
    /\ ~Beats(a)
    /\ AttemptMoves(a, "promoted")
    /\ UNCHANGED <<digest, runLock, complete, champion, latest>>

\* Mutant: latest.json is written before the working directory is renamed.
MutantNamed(a) == attempt[a].at \in {"promoted", "written"}

Named(a) == attempt[a].at = "written"

RenamesDirectory(a) ==
    /\ attempt[a].at = "promoted"
    /\ complete' = complete \cup {a}
    /\ AttemptMoves(a, "written")
    /\ UNCHANGED <<digest, runLock, champion, latest>>

WritesLatest(a) ==
    /\ Named(a)
    /\ latest' = a
    /\ AttemptMoves(a, "published")
    /\ UNCHANGED <<digest, runLock, complete, champion>>

Succeeds(a) ==
    /\ attempt[a].at = "published"
    /\ runLock' = IF runLock = a THEN "free" ELSE runLock
    /\ AttemptMoves(a, "success")
    /\ UNCHANGED <<digest, complete, champion, latest>>

-----------------------------------------------------------------------------
ResearchNext ==
    \/ BarsRevised
    \/ \E a \in Attempts :
        \/ AttemptStarts(a) \/ Enters(a) \/ Overlaps(a) \/ AttemptFails(a)
        \/ Ranks(a) \/ ReadsChampion(a) \/ Promotes(a) \/ KeepsChampion(a)
        \/ RenamesDirectory(a) \/ WritesLatest(a) \/ Succeeds(a)

ResearchSpec == ResearchInit /\ [][ResearchNext]_researchVars

-----------------------------------------------------------------------------
ResearchTypeOK ==
    /\ digest \in Digests
    /\ runLock \in Attempts \cup {"free"} /\ latest \in Attempts \cup {"none"}
    /\ complete \subseteq Attempts
    /\ champion.run \in Attempts \cup {"none"}

\* On the same bars a champion gives way to a better score only, however the
\* attempts overlap.
ChampionsAreBeaten ==
    champion' # champion /\ champion # NoChampion /\ champion'.digest = champion.digest
         => champion'.score > champion.score

\* What latest.json names is a whole run.
LatestIsWhole == latest # "none" => latest \in complete

ChampionStep ==
    /\ ChampionsAreBeaten
    /\ ResearchTypeOK' /\ LatestIsWhole'

\* Overlapping attempts publish whole runs, and champions that were beaten.
ChampionsStand == [][ChampionStep]_researchVars
=============================================================================
