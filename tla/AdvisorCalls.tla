---------------------------- MODULE AdvisorCalls ----------------------------
(***************************************************************************)
(* The server calls of the research advisor (agent_advisor.py), the plans  *)
(* that permit them (research_program.py), the remote worker that runs     *)
(* them (agent_tools.py) and what becomes of a call nobody saw the end of  *)
(* (research_recovery.py).                                                 *)
(*                                                                         *)
(* A call reserves a variant of a plan, is recorded, and only then acts.   *)
(* Each of these is a write of its own, and the process may end between    *)
(* two of them.  What was not seen to finish is unknown, never repeated,   *)
(* and looked up on the remote worker, where a job has a directory named   *)
(* by its call.                                                            *)
(***************************************************************************)
EXTENDS Integers, FiniteSets

CONSTANTS
    Plans,              \* research plans
    Variants,           \* variants a plan may declare
    ServerCalls,        \* call ids
    Commands,           \* fingerprints of name and arguments
    MaxVariants,        \* max_variants of a plan
    MaxRunningPlans,    \* active_experiment_limit (2)
    MaxUnresolved,      \* unresolved_action_limit (20)
    MAX_MISSING_CHECKS  \* lookups that find nothing before a call is parked

\* "none" stands for what is not there.
AdvisorAssumption ==
    /\ MAX_MISSING_CHECKS \in Nat
    /\ "none" \notin ServerCalls \cup Plans \cup Variants \cup Commands
ASSUME AdvisorAssumption

VARIABLES
    plans,          \* lab:research_plans
    callRows,       \* lab:agent_calls
    findings,       \* lab:research_outcomes, by their call
    remote,         \* the job directories of the remote worker
    advisor,        \* the process, and the call it is at
    runs            \* observed: how often each command acted

advisorVars == <<plans, callRows, findings, remote, advisor, runs>>

-----------------------------------------------------------------------------
Terminal == {"completed", "blocked", "abandoned"}
OpenStates == {"running", "unknown"}
NoVariant == [call |-> "none", state |-> "none", ok |-> FALSE]
NoPlan == [state |-> "none", bound |-> FALSE, variants |-> [v \in Variants |-> NoVariant]]
NoCallRow == [state |-> "none", tool |-> "none", command |-> "none",
              plan |-> "none", variant |-> "none", ok |-> FALSE, missing |-> 0]
AdvisorOff == [at |-> "off", call |-> "none", row |-> NoCallRow]
AdvisorIdle == [AdvisorOff EXCEPT !.at = "idle"]

AdvisorInit ==
    /\ plans = [p \in Plans |-> NoPlan]
    /\ callRows = [c \in ServerCalls |-> NoCallRow]
    /\ findings = {}
    /\ remote = [c \in ServerCalls |-> "none"]
    /\ advisor = AdvisorOff
    /\ runs = [f \in Commands |-> 0]

Reserved(p) == {v \in Variants : plans[p].variants[v] # NoVariant}
RunningPlans == {p \in Plans : plans[p].state = "running"}

\* A lookup that found nothing often enough.
Parked(c) == callRows[c].state = "unknown" /\ callRows[c].missing >= MAX_MISSING_CHECKS

-----------------------------------------------------------------------------
(* The process.  Each cycle makes a new advisor. *)

\* A plausible bug: a restart takes what it was doing for done.
MutantAdopted ==
    [c \in ServerCalls |-> IF callRows[c].state = "running"
                     THEN [callRows[c] EXCEPT !.state = "completed", !.ok = TRUE]
                     ELSE callRows[c]]

\* A call that was running when the last advisor ended.
Adopted ==
    [c \in ServerCalls |-> IF callRows[c].state = "running"
                     THEN [callRows[c] EXCEPT !.state = "unknown", !.ok = FALSE]
                     ELSE callRows[c]]

\* research_recovery.synchronize: a plan whose unknown variants are all parked,
\* and that has no success to show, is blocked.
ParkedPlan(p) ==
    LET held == {plans[p].variants[v] : v \in Reserved(p)}
    IN  /\ plans[p].state = "running"
        /\ \E r \in held : Parked(r.call)
        /\ \A r \in held : r.state \notin {"reserved", "running"}
        /\ \A r \in held : r.state = "unknown" => Parked(r.call)
        /\ \A r \in held : ~(r.state = "completed" /\ r.ok)

CycleAdopts ==
    /\ advisor.at = "off"
    /\ callRows' = Adopted
    /\ advisor' = [AdvisorOff EXCEPT !.at = "adopted"]
    /\ UNCHANGED <<plans, findings, remote, runs>>

Synchronized ==
    [p \in Plans |-> IF ParkedPlan(p) THEN [plans[p] EXCEPT !.state = "blocked"]
                     ELSE plans[p]]

CycleSynchronizes ==
    /\ advisor.at = "adopted"
    /\ plans' = Synchronized
    /\ advisor' = [AdvisorOff EXCEPT !.at = "begin"]
    /\ UNCHANGED <<callRows, findings, remote, runs>>

\* finish_call: the variant learns what became of its call.
Finished(c) ==
    [p \in Plans |-> [plans[p] EXCEPT !.variants =
        [v \in Variants |->
            IF plans[p].variants[v].call = c
            THEN [plans[p].variants[v] EXCEPT !.state = callRows[c].state,
                                              !.ok = callRows[c].ok]
            ELSE plans[p].variants[v]]]]

\* begin_cycle: the rows that were recorded but did not reach their plan.
BeginCycle ==
    /\ advisor.at = "begin"
    /\ plans' = [p \in Plans |-> [plans[p] EXCEPT !.variants =
          [v \in Variants |->
              LET r == plans[p].variants[v]
              IN  IF r.call \in ServerCalls /\ callRows[r.call].plan = p
                  THEN [r EXCEPT !.state = callRows[r.call].state, !.ok = callRows[r.call].ok]
                  ELSE r]]]
    /\ advisor' = AdvisorIdle
    /\ UNCHANGED <<callRows, findings, remote, runs>>

AdvisorEnds ==
    /\ advisor.at # "off"
    /\ advisor' = AdvisorOff
    /\ UNCHANGED <<plans, callRows, findings, remote, runs>>

-----------------------------------------------------------------------------
(* Plans. *)

CreatePlan(p) ==
    /\ advisor.at = "idle"
    /\ plans[p].state = "none"
    /\ plans' = [plans EXCEPT ![p].state = "planned"]
    /\ UNCHANGED <<callRows, findings, remote, advisor, runs>>

\* A plausible bug: only what runs right now keeps a plan open.
MutantSettled(p) ==
    \A v \in Reserved(p) : plans[p].variants[v].state \notin {"reserved", "running"}

Settled(p) ==
    \A v \in Reserved(p) :
        plans[p].variants[v].state \notin {"reserved", "running", "unknown"}

ClosePlan(p) ==
    /\ advisor.at = "idle"
    /\ plans[p].state \in {"planned", "running"}
    /\ Settled(p)
    /\ \E state \in Terminal :
          /\ state = "completed" => plans[p].bound
          /\ plans' = [plans EXCEPT ![p].state = state]
    /\ UNCHANGED <<callRows, findings, remote, advisor, runs>>

-----------------------------------------------------------------------------
(* execute: a call of analysis or tc02_run. *)

\* A plausible bug: only the running call of a command blocks another one.
MutantUncertain(f) == \E c \in ServerCalls : callRows[c].command = f /\ callRows[c].state = "running"

\* The same command, running or unknown, under whatever id.
Uncertain(f) == \E c \in ServerCalls : callRows[c].command = f /\ callRows[c].state \in OpenStates

WithinUnresolved ==
    Cardinality({c \in ServerCalls : callRows[c].state \in OpenStates /\ ~Parked(c)}) < MaxUnresolved

\* A success without a finding comes first.
ResultsRecorded ==
    \A p \in Plans : plans[p].state \in {"planned", "running"} /\ ~plans[p].bound =>
        \A v \in Variants :
            ~(plans[p].variants[v].state = "completed" /\ plans[p].variants[v].ok)

\* A plausible bug: a variant may be reserved again.
MutantMayReserve(p, v) ==
    /\ plans[p].state \in {"planned", "running"}
    /\ Cardinality(Reserved(p) \cup {v}) <= MaxVariants
    /\ ResultsRecorded
    /\ plans[p].state = "running" \/ Cardinality(RunningPlans) < MaxRunningPlans

MayReserve(p, v) ==
    /\ plans[p].state \in {"planned", "running"}
    /\ v \notin Reserved(p)
    /\ Cardinality(Reserved(p)) < MaxVariants
    /\ ResultsRecorded
    /\ plans[p].state = "running" \/ Cardinality(RunningPlans) < MaxRunningPlans

\* A call id is made in the workspace of one cycle, so none is used again.
CallAccepted(c, f) ==
    /\ advisor.at = "idle"
    /\ callRows[c].state = "none"
    /\ \A p \in Plans, v \in Variants : plans[p].variants[v].call # c
    /\ ~Uncertain(f)
    /\ WithinUnresolved

CallReserves(c, f, tool, p, v) ==
    /\ CallAccepted(c, f)
    /\ MayReserve(p, v)
    /\ plans' = [plans EXCEPT ![p].state = "running",
                    ![p].variants[v] = [call |-> c, state |-> "reserved", ok |-> FALSE]]
    /\ advisor' = [at |-> "reserved", call |-> c,
                   row |-> [state |-> "running", tool |-> tool, command |-> f,
                            plan |-> p, variant |-> v, ok |-> FALSE, missing |-> 0]]
    /\ UNCHANGED <<callRows, findings, remote, runs>>

\* A refused reservation is recorded as refused.
CallRefused(c, f, p, v) ==
    /\ CallAccepted(c, f)
    /\ plans[p].state # "none"
    /\ ~MayReserve(p, v)
    /\ callRows' = [callRows EXCEPT ![c] = [NoCallRow EXCEPT !.state = "refused", !.command = f]]
    /\ UNCHANGED <<plans, findings, remote, advisor, runs>>

\* A plausible bug: the call acts before it is on record.
MutantCallRecords ==
    /\ advisor.at = "reserved"
    /\ advisor' = [advisor EXCEPT !.at = "recorded"]
    /\ UNCHANGED <<plans, callRows, findings, remote, runs>>

CallRecords ==
    /\ advisor.at = "reserved"
    /\ callRows' = [callRows EXCEPT ![advisor.call] = advisor.row]
    /\ advisor' = [advisor EXCEPT !.at = "recorded"]
    /\ UNCHANGED <<plans, findings, remote, runs>>

\* The command acts; a remote one has a job directory before it starts.
CallActs ==
    /\ advisor.at = "recorded"
    /\ runs' = [runs EXCEPT ![advisor.row.command] = @ + 1]
    /\ remote' = IF advisor.row.tool = "tc02_run"
                 THEN [remote EXCEPT ![advisor.call] = "running"] ELSE remote
    /\ advisor' = [advisor EXCEPT !.at = "acting"]
    /\ UNCHANGED <<plans, callRows, findings>>

\* The row takes the result: of the command, or of an argument or a transport
\* that failed before it; or nobody knows.
CallReturns ==
    /\ advisor.at \in {"recorded", "acting"}
    /\ \E state \in {"completed", "unknown"}, ok \in BOOLEAN :
          /\ ok => state = "completed" /\ advisor.at = "acting"
          /\ ok /\ advisor.row.tool = "tc02_run" => remote[advisor.call] = "done"
          /\ callRows' = [callRows EXCEPT ![advisor.call] =
                          [advisor.row EXCEPT !.state = state, !.ok = ok]]
    /\ advisor' = [advisor EXCEPT !.at = "finish"]
    /\ UNCHANGED <<plans, findings, remote, runs>>

CallFinishes ==
    /\ advisor.at = "finish"
    /\ plans' = Finished(advisor.call)
    /\ advisor' = AdvisorIdle
    /\ UNCHANGED <<callRows, findings, remote, runs>>

-----------------------------------------------------------------------------
(* The remote worker, external.  What it keeps of a finished job outlives   *)
(* the removal of its files. *)

RemoteFinishes(c) ==
    /\ remote[c] = "running"
    /\ remote' = [remote EXCEPT ![c] = "done"]
    /\ UNCHANGED <<plans, callRows, findings, advisor, runs>>

\* action_reconcile: a lookup, never a second run.  The call that asks is
\* read-only and settled at once.
MayReconcile(c) ==
    /\ advisor.at = "idle"
    /\ callRows[c].state = "unknown"
    /\ callRows[c].tool = "tc02_run"
    /\ ~Parked(c)

\* A plausible bug: a directory is proof enough.
MutantRemoteCompleted(c) == remote[c] # "none"

RemoteCompleted(c) == remote[c] = "done"

ReconcileSettles(c) ==
    /\ MayReconcile(c)
    /\ RemoteCompleted(c)
    /\ \E ok \in BOOLEAN :
          callRows' = [callRows EXCEPT ![c].state = "completed", ![c].ok = ok]
    /\ advisor' = [AdvisorIdle EXCEPT !.at = "reconciled", !.call = c]
    /\ UNCHANGED <<plans, findings, remote, runs>>

ReconcileMisses(c) ==
    /\ MayReconcile(c)
    /\ remote[c] = "none"
    /\ callRows' = [callRows EXCEPT ![c].missing = @ + 1]
    /\ advisor' = [AdvisorIdle EXCEPT !.at = "reconciled", !.call = c]
    /\ UNCHANGED <<plans, findings, remote, runs>>

ReconcileFinishes ==
    /\ advisor.at = "reconciled"
    /\ plans' = Finished(advisor.call)
    /\ advisor' = [AdvisorIdle EXCEPT !.at = "checked"]
    /\ UNCHANGED <<callRows, findings, remote, runs>>

ReconcileSynchronizes ==
    /\ advisor.at = "checked"
    /\ plans' = Synchronized
    /\ advisor' = AdvisorIdle
    /\ UNCHANGED <<callRows, findings, remote, runs>>

-----------------------------------------------------------------------------
(* research_record: the finding, then its plan. *)

RecordFinding(c) ==
    /\ advisor.at = "idle"
    /\ callRows[c].state = "completed"
    /\ callRows[c].ok
    /\ c \notin findings
    /\ findings' = findings \cup {c}
    /\ advisor' = [AdvisorIdle EXCEPT !.at = "learn", !.call = c]
    /\ UNCHANGED <<plans, callRows, remote, runs>>

Learn ==
    /\ advisor.at = "learn"
    /\ plans' = [p \in Plans |->
          IF \E v \in Variants : plans[p].variants[v].call = advisor.call
          THEN [plans[p] EXCEPT !.bound = TRUE] ELSE plans[p]]
    /\ advisor' = AdvisorIdle
    /\ UNCHANGED <<callRows, findings, remote, runs>>

AdvisorNext ==
    \/ CycleAdopts \/ CycleSynchronizes \/ BeginCycle \/ AdvisorEnds
    \/ \E p \in Plans : CreatePlan(p) \/ ClosePlan(p)
    \/ \E c \in ServerCalls, f \in Commands, p \in Plans, v \in Variants :
          \/ \E tool \in {"analysis", "tc02_run"} : CallReserves(c, f, tool, p, v)
          \/ CallRefused(c, f, p, v)
    \/ CallRecords \/ CallActs \/ CallReturns \/ CallFinishes
    \/ \E c \in ServerCalls :
          \/ RemoteFinishes(c) \/ ReconcileSettles(c) \/ ReconcileMisses(c)
          \/ RecordFinding(c)
    \/ ReconcileFinishes \/ ReconcileSynchronizes \/ Learn

AdvisorSpec == AdvisorInit /\ [][AdvisorNext]_advisorVars

-----------------------------------------------------------------------------
(* Properties. *)

AdvisorTypeOK ==
    /\ \A p \in Plans :
          /\ plans[p].state \in Terminal \cup {"none", "planned", "running"}
          /\ \A v \in Variants : plans[p].variants[v].call \in ServerCalls \cup {"none"}
    /\ \A c \in ServerCalls :
          /\ callRows[c].state \in OpenStates \cup {"none", "completed", "refused"}
          /\ callRows[c].missing \in 0 .. MAX_MISSING_CHECKS
    /\ findings \subseteq ServerCalls

\* A command acts again only after each of its former runs is known to have
\* ended, whatever was killed or lost in between and under whatever id.
NeverReplayed ==
    \A f \in Commands :
        runs[f] <= Cardinality({c \in ServerCalls : callRows[c].command = f
                                  /\ callRows[c].state \in OpenStates \cup {"completed"}})

ActsAfterOutcome ==
    \A f \in Commands : runs'[f] # runs[f] =>
        \A c \in ServerCalls \ {advisor.call} :
            callRows[c].command = f => callRows[c].state \in {"completed", "refused"}

\* What acted under a plan stays on that plan's record.
RunsStayOnRecord ==
    \A c \in ServerCalls : callRows[c].plan \in Plans =>
        plans[callRows[c].plan].variants[callRows[c].variant].call = c

\* Nobody concludes on a plan some of whose runs are uncertain.
ClosedPlansAreCertain ==
    \A p \in Plans : plans[p].state \in {"completed", "abandoned"} =>
        \A v \in Reserved(p) : plans[p].variants[v].state = "completed"

\* A recorded success is one of a command that ran to its end.
SuccessIsReal ==
    \A c \in ServerCalls : callRows[c].state = "completed" /\ callRows[c].ok =>
        runs[callRows[c].command] > 0

\* Observed: a completed remote call had finished.
CompletedHadFinished ==
    \A c \in ServerCalls : callRows[c].state = "unknown" /\ callRows'[c].state = "completed"
        => remote[c] = "done"

\* A plan that can never be closed: its variant waits for a call that was not
\* recorded, or for a local one, which cannot be looked up.
Stuck(p) ==
    /\ advisor.at = "idle"
    /\ plans[p].state = "running"
    /\ \E v \in Reserved(p) :
          LET c == plans[p].variants[v].call
          IN  \/ callRows[c].state = "none"
              \/ callRows[c].state = "unknown" /\ callRows[c].tool = "analysis"

\* An outcome that is unavailable blocks its own plan, and no other.
UncertaintyBlocksItsPlanOnly ==
    Cardinality({p \in Plans : Stuck(p)}) < MaxRunningPlans

AccountedStep ==
    /\ ActsAfterOutcome
    /\ CompletedHadFinished
    /\ AdvisorTypeOK'
    /\ NeverReplayed'
    /\ RunsStayOnRecord'
    /\ ClosedPlansAreCertain'
    /\ SuccessIsReal'

\* Every run of a command is accounted for: it is not repeated while its outcome
\* is open, stays on its plan's record, and what the record says of it is so.
CallsAreAccounted == [][AccountedStep]_advisorVars
=============================================================================
