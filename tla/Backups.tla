------------------------------- MODULE Backups -------------------------------
(***************************************************************************)
(* Backups of the local state database and of the experiment registry      *)
(* (state_backup.py, operations.py), the retention that removes old ones   *)
(* (retention.py) and the restore of the local state.                      *)
(*                                                                         *)
(* A backup is a directory named by the second it began in; its files are  *)
(* written one by one, and any process may end between two of its steps.   *)
(* The database is its main file and a write-ahead log: what is committed  *)
(* is in the log until it is checkpointed.                                 *)
(***************************************************************************)
EXTENDS Integers, Sequences, FiniteSets

CONSTANTS
    MaxId,          \* bound of the backups of both kinds together
    KeptLocal,      \* verified local backups that retention keeps (14)
    KeptTournament  \* verified tournament backups that retention keeps (2)

\* Retention always leaves the newest backups.
ASSUME BackupsAssumption ==
    /\ MaxId \in Nat
    /\ KeptLocal \in Nat \ {0}
    /\ KeptTournament \in Nat \ {0}

VARIABLES
    db,             \* the state database
    nextId,         \* the name of the next backup
    aged,           \* backups up to this name are older than 30 days
    contents,       \* the files of each backup
    data,           \* the state each local archive holds
    latestBackup,   \* latest.json
    backup,         \* the backup each kind is taking
    restore,        \* the restore
    doomed          \* the files retention has planned to delete

backupsVars == <<db, nextId, aged, contents, data, latestBackup, backup,
                 restore, doomed>>

-----------------------------------------------------------------------------
Kinds == {"local", "tournament"}
Ids == 1 .. MaxId

\* What the state says of the account: running, or why it is stopped.
AgentStates == {"running", "operator", "restored"}
Stopped == "operator"

NoBackup == [at |-> "idle", id |-> 0]
NoRestore == [at |-> "idle", state |-> Stopped]

BackupsInit ==
    /\ db = [main |-> Stopped, wal |-> << >>]
    /\ nextId = 1
    /\ aged = 0
    /\ contents = [k \in Kinds |-> [i \in Ids |-> {}]]
    /\ data = [i \in Ids |-> Stopped]
    /\ latestBackup = [k \in Kinds |-> 0]
    /\ backup = [k \in Kinds |-> NoBackup]
    /\ restore = NoRestore
    /\ doomed = {}

Committed == IF db.wal = << >> THEN db.main ELSE Head(db.wal)

-----------------------------------------------------------------------------
(* The processes that use the database; none runs during a restore. *)

Commits(state) ==
    /\ restore.at = "idle"
    /\ db' = [db EXCEPT !.wal = <<state>>]
    /\ UNCHANGED <<nextId, aged, contents, data, latestBackup, backup, restore, doomed>>

OperatorStops == Commits("operator")
OperatorStarts == Commits("running")

Checkpoints ==
    /\ restore.at = "idle"
    /\ db.wal # << >>
    /\ db' = [main |-> Head(db.wal), wal |-> << >>]
    /\ UNCHANGED <<nextId, aged, contents, data, latestBackup, backup, restore, doomed>>

TimePasses ==
    /\ aged < nextId - 1
    /\ aged' = aged + 1
    /\ UNCHANGED <<db, nextId, contents, data, latestBackup, backup, restore, doomed>>

-----------------------------------------------------------------------------
(* Taking a backup. *)

\* What a finished backup consists of, and nothing else.
AllFiles(k) == IF k = "local" THEN {"archive", "manifest"}
                                ELSE {"archive", "auxiliary", "manifest"}

Adds(k, file, at) ==
    /\ contents' = [contents EXCEPT ![k][backup[k].id] = @ \cup {file}]
    /\ backup' = [backup EXCEPT ![k].at = at]
    /\ UNCHANGED <<db, nextId, aged, data, latestBackup, restore, doomed>>

\* backup_local_state: the committed state, with the log, in a staging file.
LocalStages ==
    /\ backup["local"].at = "idle"
    /\ restore.at = "idle"
    /\ nextId <= MaxId
    /\ nextId' = nextId + 1
    /\ contents' = [contents EXCEPT !["local"][nextId] = {"staging"}]
    /\ data' = [data EXCEPT ![nextId] = Committed]
    /\ backup' = [backup EXCEPT !["local"] = [at |-> "staged", id |-> nextId]]
    /\ UNCHANGED <<db, aged, latestBackup, restore, doomed>>

\* The staging file is compressed and removed.
LocalArchives ==
    LET id == backup["local"].id IN
    /\ backup["local"].at = "staged"
    /\ contents' = [contents EXCEPT !["local"][id] = {"archive"}]
    /\ backup' = [backup EXCEPT !["local"].at = "archived"]
    /\ UNCHANGED <<db, nextId, aged, data, latestBackup, restore, doomed>>

\* OperationsManager.backup: the registry, then the files beside it.
TournamentArchives ==
    /\ backup["tournament"].at = "idle"
    /\ nextId <= MaxId
    /\ nextId' = nextId + 1
    /\ contents' = [contents EXCEPT !["tournament"][nextId] = {"archive"}]
    /\ backup' = [backup EXCEPT !["tournament"] = [at |-> "copying", id |-> nextId]]
    /\ UNCHANGED <<db, aged, data, latestBackup, restore, doomed>>

TournamentCopies ==
    /\ backup["tournament"].at = "copying"
    /\ Adds("tournament", "auxiliary", "archived")

\* Mutant: latest.json is written before the manifest.
MutantPublishable(k) == backup[k].at = "archived"

Publishable(k) == backup[k].at = "manifested"

CompletesBackup(k) ==
    /\ backup[k].at = "archived"
    /\ Adds(k, "manifest", "manifested")

Publishes(k) ==
    /\ Publishable(k)
    /\ latestBackup' = [latestBackup EXCEPT ![k] = backup[k].id]
    /\ backup' = [backup EXCEPT ![k] = NoBackup]
    /\ UNCHANGED <<db, nextId, aged, contents, data, restore, doomed>>

\* The process ends, or a step of it fails.
BackupEnds(k) ==
    /\ backup[k].at # "idle"
    /\ backup' = [backup EXCEPT ![k] = NoBackup]
    /\ UNCHANGED <<db, nextId, aged, contents, data, latestBackup, restore, doomed>>

-----------------------------------------------------------------------------
(* Retention: a plan, then one file after the other. *)

VerifiedLocal == {i \in Ids : contents["local"][i] = AllFiles("local")}

\* Mutant: a directory with an archive counts as a backup.
MutantVerifiedTournament == {i \in Ids : "archive" \in contents["tournament"][i]}

VerifiedTournament == {i \in Ids : contents["tournament"][i] = AllFiles("tournament")}

NewerIds(ids, i) == {j \in ids : j > i}

\* Mutant: the backup latest.json names is not protected.
MutantObsoleteLocal ==
    {i \in VerifiedLocal : Cardinality(NewerIds(VerifiedLocal, i)) >= KeptLocal}

ObsoleteLocal ==
    {i \in VerifiedLocal : /\ Cardinality(NewerIds(VerifiedLocal, i)) >= KeptLocal
                           /\ i # latestBackup["local"]}

ObsoleteTournament ==
    {i \in VerifiedTournament :
        /\ Cardinality(NewerIds(VerifiedTournament, i)) >= KeptTournament
        /\ i <= aged}

RetentionPlans ==
    /\ doomed = {}
    /\ doomed' = {<<"local", i, f>> : i \in ObsoleteLocal, f \in AllFiles("local")}
         \cup {<<"tournament", i, f>> :
                    i \in ObsoleteTournament, f \in AllFiles("tournament")}
    /\ UNCHANGED <<db, nextId, aged, contents, data, latestBackup, backup, restore>>

RetentionDeletes ==
    /\ \E entry \in doomed :
        /\ doomed' = doomed \ {entry}
        /\ contents' = [contents EXCEPT ![entry[1]][entry[2]] = @ \ {entry[3]}]
    /\ UNCHANGED <<db, nextId, aged, data, latestBackup, backup, restore>>

RetentionEnds ==
    /\ doomed # {}
    /\ doomed' = {}
    /\ UNCHANGED <<db, nextId, aged, contents, data, latestBackup, backup, restore>>

-----------------------------------------------------------------------------
(* restore_local_state, from a directory or from its archive alone. *)

\* _force_stopped: nothing but the stop is changed.
ForceStopped(state) == "restored"

RestoreStages ==
    /\ restore.at = "idle"
    /\ \E i \in Ids :
        /\ "archive" \in contents["local"][i]
        /\ restore' = [at |-> "staged", state |-> ForceStopped(data[i])]
    /\ UNCHANGED <<db, nextId, aged, contents, data, latestBackup, backup, doomed>>

\* The log of the database that is there is removed before the file is.
RestoreUnlinksLog ==
    /\ restore.at = "staged"
    /\ db' = [db EXCEPT !.wal = << >>]
    /\ restore' = [restore EXCEPT !.at = "unlinked"]
    /\ UNCHANGED <<nextId, aged, contents, data, latestBackup, backup, doomed>>

RestoreReplaces ==
    /\ restore.at = "unlinked"
    /\ db' = [db EXCEPT !.main = restore.state]
    /\ restore' = NoRestore
    /\ UNCHANGED <<nextId, aged, contents, data, latestBackup, backup, doomed>>

RestoreEnds ==
    /\ restore.at # "idle"
    /\ restore' = NoRestore
    /\ UNCHANGED <<db, nextId, aged, contents, data, latestBackup, backup, doomed>>

-----------------------------------------------------------------------------
BackupsNext ==
    \/ OperatorStops \/ OperatorStarts \/ Checkpoints \/ TimePasses
    \/ LocalStages \/ LocalArchives \/ TournamentArchives \/ TournamentCopies
    \/ \E k \in Kinds : CompletesBackup(k) \/ Publishes(k) \/ BackupEnds(k)
    \/ RetentionPlans \/ RetentionDeletes \/ RetentionEnds
    \/ RestoreStages \/ RestoreUnlinksLog \/ RestoreReplaces \/ RestoreEnds

BackupsSpec == BackupsInit /\ [][BackupsNext]_backupsVars

-----------------------------------------------------------------------------
BackupsTypeOK ==
    /\ db.main \in AgentStates /\ db.wal \in Seq(AgentStates) /\ Len(db.wal) <= 1
    /\ nextId \in 1 .. MaxId + 1 /\ aged \in 0 .. MaxId
    /\ \A k \in Kinds : latestBackup[k] \in 0 .. MaxId /\ backup[k].id \in 0 .. MaxId
    /\ data \in [Ids -> AgentStates] /\ restore.state \in AgentStates

\* The backup that latest.json names can be restored, wherever a backup or a
\* retention was cut off and whatever else they have left behind.
LatestIsRestorable ==
    latestBackup["local"] # 0 => contents["local"][latestBackup["local"]] = AllFiles("local")

\* Retention spoils a backup only when enough newer ones are whole: what a
\* crash has left half-written never counts as one of them.
NewestSurvive ==
    /\ \A i \in VerifiedLocal \ VerifiedLocal' :
         Cardinality(NewerIds(VerifiedLocal', i)) >= KeptLocal
    /\ \A i \in {j \in Ids : contents["tournament"][j] = AllFiles("tournament")
                          /\ contents'["tournament"][j] # AllFiles("tournament")} :
         Cardinality({j \in Ids : j > i /\
             contents'["tournament"][j] = AllFiles("tournament")}) >= KeptTournament

\* state_backup.py of an operator stop: "the one guarantee a restore must not
\* break".  A restore that is cut off after the log is gone breaks it.
RestoreKeepsStop ==
    [][Committed = "operator" /\ Committed' = "running"
            => restore.at = "idle"]_db

BackupStep ==
    /\ NewestSurvive
    /\ BackupsTypeOK' /\ LatestIsRestorable'

\* A crash, a retention or both at once leave a backup that can be restored.
BackupsHold == [][BackupStep]_backupsVars
=============================================================================
