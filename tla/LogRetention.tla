---------------------------- MODULE LogRetention ----------------------------
(***************************************************************************)
(* The weekly rotation of the operational logs (database_retention.py) and *)
(* the pruning of the transcript and of the shell jobs by row count        *)
(* (local_state.py, bits_jobs.py), beside the processes that write them.   *)
(*                                                                         *)
(* One row of each kind: the call of an advisor, a shell job, a monitor    *)
(* mark, a trade decision that is also named monitor:..., a step of the    *)
(* transcript and the run the step belongs to.  Rotation is one pass of    *)
(* short transactions; other processes work between two of them.           *)
(***************************************************************************)
EXTENDS Naturals, FiniteSets

CONSTANT MaxRefs        \* bound of the references held at a time

VARIABLES
    row,            \* what has become of each row
    old,            \* the rows older than seven days
    refs,           \* the rows that durable state refers to
    seen,           \* the references that rotation read first
    phase           \* the next transaction of rotation

logsVars == <<row, old, refs, seen, phase>>

-----------------------------------------------------------------------------
Rows == {"call", "job", "mark", "trade", "step", "run"}
Work == {"call", "job", "run"}
Evidence == {"call", "job", "step", "run"}

LogsInit ==
    /\ row = [r \in Rows |-> IF r \in Work THEN "open" ELSE "done"]
    /\ old = {}
    /\ refs = {}
    /\ seen = {}
    /\ phase = "idle"

Kept(r) == row[r] # "gone"

-----------------------------------------------------------------------------
(* The processes that write the rows and the references. *)

Finishes(r) ==
    /\ row[r] = "open"
    /\ row' = [row EXCEPT ![r] = "done"]
    /\ UNCHANGED <<old, refs, seen, phase>>

\* The process that worked on it is gone: nobody knows what it did.
BecomesUnknown(r) ==
    /\ r # "run"
    /\ row[r] = "open"
    /\ row' = [row EXCEPT ![r] = "unknown"]
    /\ UNCHANGED <<old, refs, seen, phase>>

Ages(r) ==
    /\ r \notin old
    /\ Kept(r)
    /\ old' = old \cup {r}
    /\ UNCHANGED <<row, refs, seen, phase>>

Cites(r) ==
    /\ row[r] \in {"open", "done"}
    /\ Cardinality(refs \cup {r}) <= MaxRefs
    /\ refs' = refs \cup {r}
    /\ UNCHANGED <<row, old, seen, phase>>

Forgets(r) ==
    /\ r \in refs
    /\ refs' = refs \ {r}
    /\ UNCHANGED <<row, old, seen, phase>>

-----------------------------------------------------------------------------
(* rotate *)

\* Mutants: the references of the first transaction stand for all of them;
\* unfinished work expires too.
MutantPinned == seen
MutantEnded(r) == row[r] \in {"done", "unknown"}

\* The references, read again in every transaction that removes evidence.
Pinned == refs

Ended(r) == row[r] = "done"

Expires(r) ==
    /\ Ended(r)
    /\ r \in old

Rotates(from, to, removed, as) ==
    /\ phase = from
    /\ phase' = to
    /\ row' = [r \in Rows |-> IF r \in removed THEN as ELSE row[r]]
    /\ UNCHANGED <<old, refs>>

\* The ledgers, in the transaction that reads the references.
RotatesLedgers ==
    /\ Rotates("idle", "marks", {r \in {"call"} \ refs : Expires(r)}, "gone")
    /\ seen' = refs

\* Mutant: every old decision named monitor:... is taken for a mark.
MutantIsMark(r) == r \in {"mark", "trade"}

\* What holds accepted, decision_id or reason is a trade, whatever its name.
IsMark(r) == r = "mark"

\* prune_monitor_records
PrunesMarks ==
    /\ Rotates("marks", "outputs", {r \in old : IsMark(r)}, "gone")
    /\ UNCHANGED seen

\* _job_outputs: the output goes, the record of the job stays.
ExpiresOutputs ==
    /\ Rotates("outputs", "steps", {r \in {"job"} \ Pinned : Expires(r)}, "expired")
    /\ UNCHANGED seen

\* _transcripts
RemovesSteps ==
    /\ Rotates("steps", "runs", {r \in {"step"} \ Pinned : Expires(r)}, "gone")
    /\ UNCHANGED seen

\* Mutant: an old run goes whether or not its steps are still there.
MutantEmptyRuns == {"run"}

EmptyRuns == {r \in {"run"} : ~Kept("step")}

RemovesRuns ==
    /\ Rotates("runs", "idle", {r \in EmptyRuns \ seen : Expires(r)}, "gone")
    /\ seen' = {}

\* Malformed durable state, an error, or the end of the process.
RotationEnds ==
    /\ phase # "idle"
    /\ phase' = "idle"
    /\ seen' = {}
    /\ UNCHANGED <<row, old, refs>>

-----------------------------------------------------------------------------
(* Pruning by row count, at the start of an agent. *)

\* AgentTranscriptStore.prune, when newer rows fill the bound.
PrunesTranscript ==
    /\ Kept("step")
    /\ row' = [row EXCEPT !["step"] = "gone"]
    /\ UNCHANGED <<old, refs, seen, phase>>

\* BitsStore.prune
PrunesJobs ==
    /\ row["job"] \in {"done", "expired"}
    /\ row' = [row EXCEPT !["job"] = "gone"]
    /\ UNCHANGED <<old, refs, seen, phase>>

-----------------------------------------------------------------------------
LogsNext ==
    \/ \E r \in Work : Finishes(r) \/ BecomesUnknown(r)
    \/ \E r \in Rows : Ages(r)
    \/ \E r \in Evidence : Cites(r) \/ Forgets(r)
    \/ RotatesLedgers \/ PrunesMarks \/ ExpiresOutputs \/ RemovesSteps
    \/ RemovesRuns \/ RotationEnds
    \/ PrunesTranscript \/ PrunesJobs

LogsSpec == LogsInit /\ [][LogsNext]_logsVars

-----------------------------------------------------------------------------
LogsTypeOK ==
    /\ row \in [Rows -> {"open", "done", "unknown", "expired", "gone"}]
    /\ old \subseteq Rows /\ refs \subseteq Evidence /\ seen \subseteq Evidence
    /\ phase \in {"idle", "marks", "outputs", "steps", "runs"}

\* Evidence that durable state refers to when rotation reaches it survives,
\* however late in the pass the reference was written.
EvidenceSurvives ==
    phase' # phase => \A r \in refs \ {"run"} : row'[r] = row[r]

\* Work whose outcome is not known, and the decisions that stop an order from
\* being filled again, outlive every rotation and every pruning.
UncertaintyStays ==
    /\ row'["trade"] = row["trade"]
    /\ \A r \in Work :
         row[r] \in {"open", "unknown"} => row'[r] \notin {"gone", "expired"}

\* A step never outlives the run that explains it.
RunsOutliveSteps == Kept("step") => Kept("run")

\* docs/operator-runbook-database.md: "evidence referenced by durable state do
\* not expire here".  A run cited while rotation is under way does.
CitedRunsSurvive ==
    [][phase' # phase /\ "run" \in refs => row'["run"] = row["run"]]_row

EvidenceStep ==
    /\ EvidenceSurvives
    /\ UncertaintyStays
    /\ LogsTypeOK' /\ RunsOutliveSteps'

\* Rotation takes neither what is referred to, nor what is uncertain, nor the
\* run of a step that stays.
EvidenceIsKept == [][EvidenceStep]_logsVars
=============================================================================
