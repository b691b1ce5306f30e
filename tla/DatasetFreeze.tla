---------------------------- MODULE DatasetFreeze ----------------------------
(***************************************************************************)
(* The frozen datasets of the tournament (tournament_data.py): freezes of  *)
(* the market store, which may overlap or be killed, the pointer to the    *)
(* active dataset, and the experiments that are registered for a dataset   *)
(* and evaluated later, here or on the remote host.                        *)
(*                                                                         *)
(* A version is named by a digest of its bars, so two freezes of the same  *)
(* bars write the same files.                                              *)
(***************************************************************************)
EXTENDS Integers, FiniteSets

CONSTANTS
    Freezers,       \* processes that run create
    Evaluations,    \* experiments of the registry
    MaxVersion      \* bound of the revisions of the bars

ASSUME FreezeAssumption == MaxVersion \in Nat \ {0}

VARIABLES
    source,         \* the version a freeze of the market store has now
    directory,      \* what the directory of each version holds
    active,         \* the version active.json names; 0 before the first
    freezer,        \* how far each freeze is
    experiment      \* each experiment, and the versions it was evaluated on

freezeVars == <<source, directory, active, freezer, experiment>>

-----------------------------------------------------------------------------
Versions == 1 .. MaxVersion
Whole == {"directory", "bars", "manifest"}
NotFreezing == [at |-> "idle", version |-> 0]
NoExperiment == [at |-> "none", for |-> 0, expected |-> 0, read |-> {}]

FreezeInit ==
    /\ source = 1
    /\ directory = [v \in Versions |-> {}]
    /\ active = 0
    /\ freezer = [p \in Freezers |-> NotFreezing]
    /\ experiment = [e \in Evaluations |-> NoExperiment]

\* The market store is updated.
BarsChange ==
    /\ source < MaxVersion
    /\ source' = source + 1
    /\ UNCHANGED <<directory, active, freezer, experiment>>

-----------------------------------------------------------------------------
(* create *)

Goes(p, at) == freezer' = [freezer EXCEPT ![p].at = at]

\* The directory of the version is made, or another freeze has made it.
FreezeBegins(p) ==
    /\ freezer[p].at = "idle"
    /\ freezer' = [freezer EXCEPT ![p] =
            [at |-> IF directory[source] = {} THEN "write" ELSE "await",
             version |-> source]]
    /\ UNCHANGED <<source, directory, active, experiment>>

Writes(p, file, from, to) ==
    /\ freezer[p].at = from
    /\ directory' = [directory EXCEPT ![freezer[p].version] = @ \cup {file}]
    /\ Goes(p, to)
    /\ UNCHANGED <<source, active, experiment>>

MakesDirectory(p) == Writes(p, "directory", "write", "bars")
WritesBars(p) == Writes(p, "bars", "bars", "manifest")
WritesManifest(p) == Writes(p, "manifest", "manifest", "activate")

\* Mutant: a directory that is there is taken for a finished freeze.
MutantPublished(v) == directory[v] # {}

Published(v) == "manifest" \in directory[v]

\* _await_manifest
Awaits(p) ==
    /\ freezer[p].at = "await"
    /\ Published(freezer[p].version)
    /\ Goes(p, "activate")
    /\ UNCHANGED <<source, directory, active, experiment>>

\* The wait is bounded; and a freeze may be killed or fail anywhere.
FreezeEnds(p) ==
    /\ freezer[p].at # "idle"
    /\ freezer' = [freezer EXCEPT ![p] = NotFreezing]
    /\ UNCHANGED <<source, directory, active, experiment>>

\* _activate
Activates(p) ==
    /\ freezer[p].at = "activate"
    /\ active' = freezer[p].version
    /\ freezer' = [freezer EXCEPT ![p] = NotFreezing]
    /\ UNCHANGED <<source, directory, experiment>>

-----------------------------------------------------------------------------
(* The experiments. *)

\* from_strategy: an experiment is registered for the dataset that is active.
Registers(e) ==
    /\ experiment[e].at = "none"
    /\ active # 0
    /\ experiment' = [experiment EXCEPT ![e] = [NoExperiment EXCEPT !.at = "queued",
                                                                   !.for = active]]
    /\ UNCHANGED <<source, directory, active, freezer>>

\* A local worker backtests it: each partition is read through active.json.
Backtests(e) ==
    /\ experiment[e].at \in {"queued", "local"}
    /\ experiment' = [experiment EXCEPT ![e].at = "local", ![e].read = @ \cup {active}]
    /\ UNCHANGED <<source, directory, active, freezer>>

\* job_payload: the dataset that is active goes into the job of the remote host.
Dispatches(e) ==
    /\ experiment[e].at = "queued"
    /\ experiment' = [experiment EXCEPT ![e].at = "remote", ![e].expected = active]
    /\ UNCHANGED <<source, directory, active, freezer>>

\* compute_job: refused unless the dataset there is the one of the job.
Computes(e) ==
    /\ experiment[e].at = "remote"
    /\ experiment' = [experiment EXCEPT
            ![e].at = IF active = experiment[e].expected THEN "computing" ELSE "failed"]
    /\ UNCHANGED <<source, directory, active, freezer>>

ReadsRemotely(e) ==
    /\ experiment[e].at = "computing"
    /\ experiment' = [experiment EXCEPT ![e].read = @ \cup {active}]
    /\ UNCHANGED <<source, directory, active, freezer>>

Completes(e) ==
    /\ experiment[e].at \in {"local", "computing"}
    /\ experiment[e].read # {}
    /\ experiment' = [experiment EXCEPT ![e].at = "completed"]
    /\ UNCHANGED <<source, directory, active, freezer>>

-----------------------------------------------------------------------------
FreezeNext ==
    \/ BarsChange
    \/ \E p \in Freezers :
        \/ FreezeBegins(p) \/ MakesDirectory(p) \/ WritesBars(p) \/ WritesManifest(p)
        \/ Awaits(p) \/ FreezeEnds(p) \/ Activates(p)
    \/ \E e \in Evaluations :
        \/ Registers(e) \/ Backtests(e) \/ Dispatches(e) \/ Computes(e)
        \/ ReadsRemotely(e) \/ Completes(e)

FreezeSpec == FreezeInit /\ [][FreezeNext]_freezeVars

-----------------------------------------------------------------------------
FreezeTypeOK ==
    /\ source \in Versions /\ active \in {0} \cup Versions
    /\ directory \in [Versions -> SUBSET Whole]
    /\ \A e \in Evaluations : experiment[e].read \subseteq Versions

\* The active dataset can be read, whichever freeze was killed or overtaken.
ActiveIsWhole == active # 0 => directory[active] = Whole

\* An experiment is evaluated on the dataset it is registered for: its version
\* is part of its fingerprint, and names the champions and the holdout.
EvaluatedOnItsDataset ==
    \A e \in Evaluations : experiment[e].read \subseteq {experiment[e].for}
=============================================================================
