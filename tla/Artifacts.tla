------------------------------ MODULE Artifacts ------------------------------
(***************************************************************************)
(* The detailed artifacts of completed experiments (operations.py): the    *)
(* compression of the local ones, and the removal of the remote ones in    *)
(* three calls on two hosts: a plan made from the registry, its            *)
(* application where the files are, with a journal, and the reconciliation *)
(* of the registry with that journal.                                      *)
(*                                                                         *)
(* Each call may end anywhere and be made again.                           *)
(***************************************************************************)
EXTENDS FiniteSets

CONSTANTS
    Local,          \* experiments computed on this host
    Remote          \* experiments computed on the remote host

VARIABLES
    completed,      \* the experiments that have completed
    kept,           \* those promoted, passed, nearly passed or sampled for audit
    files,          \* the files of each local experiment
    named,          \* the file the registry names
    compaction,     \* what compact_artifacts is doing
    detail,         \* the detailed files of each remote experiment
    plan,           \* the candidates of the plan
    application,    \* what apply_remote_artifacts_plan is doing
    journal,        \* the experiments its journal records
    reconciled      \* the experiments whose row says the detail is gone

artifactsVars == <<completed, kept, files, named, compaction, detail, plan, application,
          journal, reconciled>>

localVars == <<files, named, compaction>>
remoteVars == <<detail, plan, application, journal, reconciled>>

-----------------------------------------------------------------------------
Evaluated == Local \cup Remote
Detail == {"trades.csv.gz", "equity.parquet"}
Nothing == [at |-> "idle", todo |-> {}, done |-> {}]

ArtifactsInit ==
    /\ completed = {} /\ kept = {}
    /\ files = [e \in Local |-> {}]
    /\ named = [e \in Local |-> "none"]
    /\ compaction = Nothing
    /\ detail = [e \in Remote |-> {}]
    /\ plan = {} /\ application = Nothing
    /\ journal = {} /\ reconciled = {}

\* A worker completes an experiment and writes its files.
EvaluationEnds(e) ==
    /\ e \notin completed
    /\ completed' = completed \cup {e}
    /\ kept' \in {kept, kept \cup {e}}
    /\ files' = IF e \in Local THEN [files EXCEPT ![e] = {"csv"}] ELSE files
    /\ named' = IF e \in Local THEN [named EXCEPT ![e] = "csv"] ELSE named
    /\ detail' = IF e \in Remote THEN [detail EXCEPT ![e] = Detail] ELSE detail
    /\ UNCHANGED <<compaction, plan, application, journal, reconciled>>

-----------------------------------------------------------------------------
(* compact_artifacts: one transaction of the registry for all the rows. *)

CompactBegins ==
    /\ compaction.at = "idle"
    /\ compaction' = [Nothing EXCEPT !.at = "next", !.todo = completed \cap Local]
    /\ UNCHANGED <<completed, kept, files, named>> /\ UNCHANGED remoteVars

\* Rows whose file is compressed already, or is not there, are skipped.
Skips(e) ==
    /\ compaction.at = "next" /\ e \in compaction.todo
    /\ named[e] = "gz" \/ "csv" \notin files[e]
    /\ compaction' = [compaction EXCEPT !.todo = @ \ {e}]
    /\ UNCHANGED <<completed, kept, files, named>> /\ UNCHANGED remoteVars

\* The compressed file is written beside it and takes its final name at once.
Compresses(e) ==
    /\ compaction.at = "next" /\ e \in compaction.todo
    /\ named[e] = "csv" /\ "csv" \in files[e]
    /\ \E written \in {"tmp", "gz"} :
        /\ files' = [files EXCEPT ![e] = (@ \ {"tmp"}) \cup {written}]
        /\ compaction' = IF written = "gz" THEN [compaction EXCEPT !.at = "unlink"]
                         ELSE compaction
    /\ UNCHANGED <<completed, kept, named>> /\ UNCHANGED remoteVars

\* Mutant: the original is removed as soon as there is something beside it.
MutantReplaced(e) == files[e] \cap {"tmp", "gz"} # {}

Replaced(e) == compaction.at = "unlink" /\ "gz" \in files[e]

Unlinks(e) ==
    /\ e \in compaction.todo /\ "csv" \in files[e]
    /\ Replaced(e)
    /\ files' = [files EXCEPT ![e] = @ \ {"csv"}]
    /\ compaction' = [at |-> "next", todo |-> compaction.todo \ {e},
                      done |-> compaction.done \cup {e}]
    /\ UNCHANGED <<completed, kept, named>> /\ UNCHANGED remoteVars

CompactCommits ==
    /\ compaction.at = "next" /\ compaction.todo = {}
    /\ named' = [e \in Local |-> IF e \in compaction.done THEN "gz" ELSE named[e]]
    /\ compaction' = Nothing
    /\ UNCHANGED <<completed, kept, files>> /\ UNCHANGED remoteVars

\* The transaction is rolled back; the files stay as they are.
CompactEnds ==
    /\ compaction.at # "idle"
    /\ compaction' = Nothing
    /\ UNCHANGED <<completed, kept, files, named>> /\ UNCHANGED remoteVars

-----------------------------------------------------------------------------
(* remote_artifacts_plan, apply and reconcile *)

\* Mutant: the plan takes every completed experiment.
MutantOrdinary(e) == e \in completed

Ordinary(e) == e \in completed \ kept

Plans ==
    /\ plan' = {e \in Remote : Ordinary(e)}
    /\ plan' # plan
    /\ UNCHANGED <<completed, kept, application, detail, journal, reconciled>>
    /\ UNCHANGED localVars

\* What the journal records is not done again.
ApplyBegins ==
    /\ application.at = "idle"
    /\ application' = [Nothing EXCEPT !.at = "remove", !.todo = plan \ journal]
    /\ UNCHANGED <<completed, kept, detail, plan, journal, reconciled>>
    /\ UNCHANGED localVars

Removes(e, file) ==
    /\ application.at = "remove" /\ e \in application.todo
    /\ file \in detail[e]
    /\ detail' = [detail EXCEPT ![e] = @ \ {file}]
    /\ UNCHANGED <<completed, kept, plan, application, journal, reconciled>>
    /\ UNCHANGED localVars

\* Mutant: the journal is written before the files are removed.
MutantRemoved(e) == TRUE

Removed(e) == detail[e] = {}

Journals(e) ==
    /\ application.at = "remove" /\ e \in application.todo
    /\ Removed(e)
    /\ journal' = journal \cup {e}
    /\ application' = [application EXCEPT !.todo = @ \ {e}]
    /\ UNCHANGED <<completed, kept, detail, plan, reconciled>>
    /\ UNCHANGED localVars

ApplyEnds ==
    /\ application.at = "remove"
    /\ application' = Nothing
    /\ UNCHANGED <<completed, kept, detail, plan, journal, reconciled>>
    /\ UNCHANGED localVars

\* Refused unless every row of the journal belongs to the plan.
Reconciles ==
    /\ journal # {} /\ journal \subseteq plan
    /\ reconciled' = reconciled \cup journal
    /\ UNCHANGED <<completed, kept, detail, plan, application, journal>>
    /\ UNCHANGED localVars

-----------------------------------------------------------------------------
ArtifactsNext ==
    \/ \E e \in Evaluated : EvaluationEnds(e)
    \/ CompactBegins \/ CompactCommits \/ CompactEnds
    \/ \E e \in Local : Skips(e) \/ Compresses(e) \/ Unlinks(e)
    \/ Plans \/ ApplyBegins \/ ApplyEnds \/ Reconciles
    \/ \E e \in Remote : Journals(e) \/ \E file \in Detail : Removes(e, file)

ArtifactsSpec == ArtifactsInit /\ [][ArtifactsNext]_artifactsVars

-----------------------------------------------------------------------------
ArtifactsTypeOK ==
    /\ kept \subseteq completed /\ completed \subseteq Evaluated
    /\ files \in [Local -> SUBSET {"csv", "tmp", "gz"}]
    /\ detail \in [Remote -> SUBSET Detail]

\* However often the compression is cut off and made again, the trades of a
\* local experiment are on disk.
TradesAreKept == \A e \in Local \cap completed : files[e] \cap {"csv", "gz"} # {}

\* A row that says the detail was removed says the truth, and an experiment
\* that was promoted, or came near it, keeps its detail.
DetailIsTrue ==
    /\ \A e \in reconciled : detail[e] = {}
    /\ \A e \in kept \cap Remote : detail[e] = Detail

\* What the registry says of an experiment's files is so, and its trades are kept.
ArtifactsAreTrue ==
    ArtifactsTypeOK /\ TradesAreKept /\ DetailIsTrue
=============================================================================
