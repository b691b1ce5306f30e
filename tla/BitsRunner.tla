----------------------------- MODULE BitsRunner -----------------------------
(***************************************************************************)
(* The Bits agent of bits_runner.py and its shell jobs (bits_jobs.py).     *)
(*                                                                         *)
(* A runner asks a remote workflow for a decision, runs at most one shell  *)
(* command per answer in a thread of its own, and feeds the result back.   *)
(* The cycle and the job rows are persisted, so that a process that starts *)
(* after a crash finds how far the last one came; AgentLock keeps a second *)
(* runner out, but a runner that stops waits only two seconds for its      *)
(* threads before it gives up the lock, and they may still write their     *)
(* result.  A second thread of the runner monitors the account.            *)
(*                                                                         *)
(* A tick is several steps: other threads, processes and the operator act  *)
(* between its accesses to the store, to the market and to the workflow.   *)
(* Commands, results and prompts are reduced to what the control reads.    *)
(* The workflow is external: it answers, fails, or stays silent.           *)
(***************************************************************************)
EXTENDS Integers, FiniteSets, FiniteSetsExt, KillSwitch

CONSTANTS
    Procs,          \* processes that may run the agent
    ActionIds,      \* action ids a workflow may choose within a cycle
    Commands,       \* commands it may put under an id
    MaxSteps,       \* AgentConfig.max_steps_per_tick
    FailureLimit,   \* MONITOR_FAILURE_LIMIT
    JobLimit,       \* MAX_SHELL_TIMEOUT_SECONDS, in ticks of the clock
    AnswerLimit,    \* max_market_data_age_seconds, the age of a usable answer
    WorkflowLimit,  \* DD_WORKFLOW_TIMEOUT_SECONDS
    StaleAfter,     \* STALE_RUNNING_JOB_SECONDS
    Keep,           \* rows that prune keeps
    MaxCycles,      \* bound of the cycles
    MaxFaults       \* bound of the crashes and of the lost writes

\* A job that was started in time cannot be alive when its row is stale, and
\* the rows of one cycle fit in what prune keeps.
ASSUME BitsAssumption ==
    /\ {MaxSteps, FailureLimit, Keep, JobLimit} \subseteq Nat \ {0}
    /\ Keep >= MaxSteps
    /\ {AnswerLimit, WorkflowLimit, StaleAfter, MaxCycles, MaxFaults} \subseteq Nat
    /\ StaleAfter >= AnswerLimit + JobLimit + 1
    /\ "nobody" \notin Procs

VARIABLES
    switch,         \* the paper kill switch
    agentLock,      \* who holds the flock of AgentLock
    runner,         \* the runner of each process
    cycle,          \* bits_state["cycle"]
    jobs,           \* bits_jobs: the row of each key
    worker,         \* the thread of each job
    faults,         \* faults so far
    spawned,        \* observed: how often each action was run
    posts,          \* observed: how often each request was posted
    doubt,          \* observed: requests posted with no instance on record
    settled,        \* observed: actions an operator has reconciled
    forgotten       \* observed: actions whose rows a killed start had marked

vars == <<switch, agentLock, runner, cycle, jobs, worker, faults, spawned, posts,
          doubt, settled, forgotten>>

observed == <<spawned, posts, doubt, settled, forgotten>>

-----------------------------------------------------------------------------
Nobody == "nobody"
CycleIds == 1 .. MaxCycles
Actions == ActionIds \X Commands
NoAction == <<"none", "none">>

\* The idempotency key of a job: the hash of its cycle and its action id.
Keys == CycleIds \X ActionIds

Phases == {"idle", "submitting", "workflow", "response", "job", "feedback",
           "blocked"}

\* "done" is succeeded or failed, which the runner treats alike.
Terminal == {"done", "cancelled", "timed_out"}
Uncertain == {"unknown", "cancelled", "timed_out"}

Cycles ==
    [phase : Phases, id : 0 .. MaxCycles, steps : 0 .. MaxSteps,
     action : Actions \cup {NoAction}, age : 0 .. StaleAfter + 1]

IdleCycle ==
    [phase |-> "idle", id |-> 0, steps |-> 0, action |-> NoAction, age |-> 0]
BlockedCycle == [IdleCycle EXCEPT !.phase = "blocked"]

NoWorker == [proc |-> Nobody, at |-> "none", age |-> 0]
Workers ==
    [proc : Procs \cup {Nobody}, at : {"none", "running"} \cup Terminal,
     age : 0 .. JobLimit]

\* "exiting": the lock is released, the threads may still be alive.  "missed"
\* is observed: the monitor cycles that failed in a row.
Off == [state |-> "off", at |-> "wait", stop |-> FALSE, cancelled |-> FALSE,
        failures |-> 0, missed |-> 0]
Runners ==
    [state : {"off", "up", "exiting"},
     at : {"stop", "block", "wait", "tick", "post", "note"},
     stop : BOOLEAN, cancelled : BOOLEAN, failures : 0 .. FailureLimit,
     missed : 0 .. FailureLimit]

Requests == CycleIds \X (0 .. MaxSteps)

\* The row of a key; the rowid says which row is older.
NoRow == [status |-> "none", command |-> "none", rowid |-> 0]
Rows ==
    [status : Terminal \cup {"none", "running", "unknown"},
     command : Commands \cup {"none"}, rowid : Nat]

\* Every stop here is for a reason that no restart clears, so which one is left
\* out, and so is the reason of a start.
Stopped == [stopped |-> TRUE, reason |-> "operator"]
Running == [stopped |-> FALSE, reason |-> "explicit_start"]

JobKeys == {key \in Keys : jobs[key].status # "none"}
CycleKey == <<cycle.id, cycle.action[1]>>
JobStatus == jobs[CycleKey].status

\* finish: the row of a job is overwritten whatever it says.
SetStatus(key, status) ==
    jobs' = IF key \in JobKeys THEN [jobs EXCEPT ![key].status = status] ELSE jobs

Live(key) == worker[key].proc # Nobody
WorkersOf(p) == {key \in Keys : worker[key].proc = p}
BetweenTicks(p) == runner[p].state = "up" /\ runner[p].at = "wait"
Ticking(p) == runner[p].state = "up" /\ runner[p].at = "tick"
EndTick(p) == runner' = [runner EXCEPT ![p].at = "wait"]

Init ==
    /\ switch = FreshSwitch
    /\ agentLock = Nobody
    /\ runner = [p \in Procs |-> Off]
    /\ cycle = IdleCycle
    /\ jobs = [key \in Keys |-> NoRow]
    /\ worker = [key \in Keys |-> NoWorker]
    /\ faults = 0
    /\ spawned = [key \in Keys |-> 0]
    /\ posts = [request \in Requests |-> 0]
    /\ doubt = {}
    /\ settled = {}
    /\ forgotten = {}

-----------------------------------------------------------------------------
(* The start and the end of a runner. *)

IsTerminal(row) == row.status \in Terminal

\* prune: the oldest terminal rows over the number to keep are deleted.
NewerThan(row) == {key \in Keys : IsTerminal(jobs[key]) /\ jobs[key].rowid > row.rowid}
Pruned(row) == IsTerminal(row) /\ Cardinality(NewerThan(row)) >= Keep

Interrupted == \E key \in Keys : jobs[key].status = "running"
Recovered(row) == IF row.status = "running" THEN [row EXCEPT !.status = "unknown"] ELSE row
PruneAndRecover ==
    jobs' = [key \in Keys |-> IF Pruned(jobs[key]) THEN NoRow ELSE Recovered(jobs[key])]

\* A plausible bug: the rows that were running are not looked at.
MutantStart(p) ==
    /\ runner[p].state = "off"
    /\ agentLock = Nobody
    /\ RestartPolicy(switch) # "refuse"
    /\ agentLock' = p
    /\ switch' = IF switch.stopped THEN Running ELSE switch
    /\ runner' = [runner EXCEPT ![p] =
          [Off EXCEPT !.state = "up",
                      !.at = IF cycle.phase = "submitting" THEN "stop" ELSE "wait"]]
    /\ PruneAndRecover
    /\ UNCHANGED <<cycle, worker, faults, observed>>

\* agent run: maybe_resume, the lock, prune, and the rows a crash left running.
\* A second runner is turned away by the lock after maybe_resume, which finds
\* nothing to resume: the holder of the lock has resumed a fresh switch already.
Start(p) ==
    /\ runner[p].state = "off"
    /\ agentLock = Nobody
    /\ RestartPolicy(switch) # "refuse"
    /\ agentLock' = p
    /\ switch' = IF switch.stopped THEN Running ELSE switch
    /\ runner' = [runner EXCEPT ![p] =
          [Off EXCEPT !.state = "up",
                      !.at = IF Interrupted \/ cycle.phase = "submitting"
                             THEN "stop" ELSE "wait"]]
    /\ PruneAndRecover
    /\ UNCHANGED <<cycle, worker, faults, observed>>

\* What a crash left uncertain stops trading first, and blocks the cycle then.
StopInterrupted(p) ==
    /\ runner[p].at = "stop"
    /\ switch' = Stopped
    /\ runner' = [runner EXCEPT ![p].at = "block"]
    /\ UNCHANGED <<agentLock, cycle, jobs, worker, faults, observed>>

BlockInterrupted(p) ==
    /\ runner[p].at = "block"
    /\ cycle' = BlockedCycle
    /\ EndTick(p)
    /\ UNCHANGED <<switch, agentLock, jobs, worker, faults, observed>>

\* SIGTERM: the loop ends after the tick in progress.
Terminate(p) ==
    /\ runner[p].state = "up"
    /\ runner[p].at \notin {"stop", "block"}
    /\ ~runner[p].stop
    /\ runner' = [runner EXCEPT ![p].stop = TRUE]
    /\ UNCHANGED <<switch, agentLock, cycle, jobs, worker, faults, observed>>

\* stop: jobs are cancelled, joined for two seconds each, and the lock is closed.
Close(p) ==
    /\ BetweenTicks(p)
    /\ runner[p].stop
    /\ runner' = [runner EXCEPT ![p] =
                     [Off EXCEPT !.state = "exiting", !.cancelled = TRUE]]
    /\ agentLock' = Nobody
    /\ UNCHANGED <<switch, cycle, jobs, worker, faults, observed>>

\* The threads are daemons: those that have not written their result are lost.
Gone(p) ==
    /\ runner' = [runner EXCEPT ![p] = Off]
    /\ worker' = [key \in Keys |->
                    IF worker[key].proc = p THEN NoWorker ELSE worker[key]]

Exit(p) ==
    /\ runner[p].state = "exiting"
    /\ Gone(p)
    /\ UNCHANGED <<switch, agentLock, cycle, jobs, faults, observed>>

\* What a start has marked as unknown but nothing else says was begun.
Marked == {key \in Keys : key = CycleKey /\ cycle.phase = "response"
                            /\ jobs[key].status = "unknown"}

\* The process is killed: the kernel releases the lock.
Crash(p) ==
    /\ runner[p].state = "up"
    /\ faults < MaxFaults
    /\ faults' = faults + 1
    /\ Gone(p)
    /\ agentLock' = Nobody
    /\ forgotten' = IF runner[p].at \in {"stop", "block"} THEN forgotten \cup Marked
                    ELSE forgotten
    /\ UNCHANGED <<switch, cycle, jobs, spawned, posts, doubt, settled>>

-----------------------------------------------------------------------------
(* The threads that run shell commands. *)

\* _run ends: on a cancellation, on its deadline, or with the command.
WorkerEnds(key) ==
    /\ worker[key].at = "running"
    /\ LET p == worker[key].proc
       IN  \E result \in Terminal :
              /\ (result = "cancelled") = runner[p].cancelled
              /\ (result = "timed_out") => worker[key].age >= JobLimit
              /\ worker' = [worker EXCEPT ![key].at = result]
    /\ UNCHANGED <<switch, agentLock, runner, cycle, jobs, faults, observed>>

WorkerWrites(key) ==
    /\ worker[key].at \in Terminal
    /\ SetStatus(key, worker[key].at)
    /\ worker' = [worker EXCEPT ![key] = NoWorker]
    /\ UNCHANGED <<switch, agentLock, runner, cycle, faults, observed>>

\* The store refuses the write: the thread ends and its row stays as it is.
WriteLost(key) ==
    /\ worker[key].at \in Terminal
    /\ faults < MaxFaults
    /\ faults' = faults + 1
    /\ worker' = [worker EXCEPT ![key] = NoWorker]
    /\ UNCHANGED <<switch, agentLock, runner, cycle, jobs, observed>>

\* _publish_progress writes the row of a running job, "running" included.
PublishProgress(key) ==
    /\ worker[key].at = "running"
    /\ key \in JobKeys
    /\ jobs[key].status # "running"
    /\ SetStatus(key, "running")
    /\ UNCHANGED <<switch, agentLock, runner, cycle, worker, faults, observed>>

-----------------------------------------------------------------------------
(* The tick of the runner. *)

\* A stopped account ends the run; its jobs are cancelled and joined.
TickStopped(p) ==
    /\ BetweenTicks(p)
    /\ ~runner[p].stop
    /\ switch.stopped
    /\ runner' = [runner EXCEPT ![p].stop = TRUE, ![p].cancelled = TRUE]
    /\ UNCHANGED <<switch, agentLock, cycle, jobs, worker, faults, observed>>

\* A request that may or may not have been posted is never posted again.
TickBlocked(p) ==
    /\ BetweenTicks(p)
    /\ ~runner[p].stop
    /\ ~switch.stopped
    /\ cycle.phase \in {"blocked", "submitting"}
    /\ switch' = Stopped
    /\ UNCHANGED <<agentLock, runner, cycle, jobs, worker, faults, observed>>

\* A plausible bug: only a blocked cycle is left alone after a restart.
MutantTickBegins(p) ==
    /\ BetweenTicks(p)
    /\ ~runner[p].stop
    /\ ~switch.stopped
    /\ cycle.phase # "blocked"
    /\ cycle' = IF cycle.phase = "submitting"
                THEN [cycle EXCEPT !.phase = IF cycle.steps = 0 THEN "idle" ELSE "feedback"]
                ELSE cycle
    /\ runner' = [runner EXCEPT ![p].at = "tick"]
    /\ UNCHANGED <<switch, agentLock, jobs, worker, faults, observed>>

\* The market is read, and refreshed when it is stale: other threads run on.
TickBegins(p) ==
    /\ BetweenTicks(p)
    /\ ~runner[p].stop
    /\ ~switch.stopped
    /\ cycle.phase \notin {"blocked", "submitting"}
    /\ runner' = [runner EXCEPT ![p].at = "tick"]
    /\ UNCHANGED <<switch, agentLock, cycle, jobs, worker, faults, observed>>

\* No market, a closed market or stale data: nothing is done this time.
TickGated(p) ==
    /\ Ticking(p)
    /\ EndTick(p)
    /\ UNCHANGED <<switch, agentLock, cycle, jobs, worker, faults, observed>>

JobRunning == JobStatus = "running" /\ cycle.age <= StaleAfter
JobStranded == JobStatus = "running" /\ cycle.age > StaleAfter

\* A plausible bug: a row that says "running" is believed for ever.
MutantPollJob(p) ==
    /\ Ticking(p)
    /\ cycle.phase = "job"
    /\ \/ /\ JobStatus = "running"
          /\ EndTick(p)
          /\ UNCHANGED <<switch, cycle>>
       \/ /\ JobStatus \in Uncertain
          /\ switch' = Stopped
          /\ EndTick(p)
          /\ UNCHANGED cycle
       \/ /\ JobStatus \in Terminal \ Uncertain
          /\ cycle' = [cycle EXCEPT !.phase = "feedback", !.age = 0]
          /\ UNCHANGED <<switch, runner>>
    /\ UNCHANGED <<agentLock, jobs, worker, faults, observed>>

\* The row of the job: still running, without its thread, uncertain, or done.
PollJob(p) ==
    /\ Ticking(p)
    /\ cycle.phase = "job"
    /\ \/ /\ JobRunning
          /\ EndTick(p)
          /\ UNCHANGED <<switch, cycle, jobs>>
       \/ /\ JobStranded
          /\ SetStatus(CycleKey, "unknown")
          /\ switch' = Stopped
          /\ EndTick(p)
          /\ UNCHANGED cycle
       \/ /\ JobStatus \in Uncertain
          /\ switch' = Stopped
          /\ EndTick(p)
          /\ UNCHANGED <<cycle, jobs>>
       \/ /\ JobStatus \in Terminal \ Uncertain
          /\ cycle' = [cycle EXCEPT !.phase = "feedback", !.age = 0]
          /\ UNCHANGED <<switch, runner, jobs>>
    /\ UNCHANGED <<agentLock, worker, faults, observed>>

\* poll: the deadline, no answer yet (or an invalid one), or a decision.
PollWorkflow(p) ==
    /\ Ticking(p)
    /\ cycle.phase = "workflow"
    /\ \/ /\ cycle.age > WorkflowLimit
          /\ cycle' = IdleCycle
          /\ EndTick(p)
       \/ /\ cycle.age <= WorkflowLimit
          /\ EndTick(p)
          /\ UNCHANGED cycle
       \/ /\ cycle.age <= WorkflowLimit
          /\ \E action \in Actions \cup {NoAction} :
                cycle' = [cycle EXCEPT !.phase = "response", !.action = action]
          /\ UNCHANGED runner
    /\ UNCHANGED <<switch, agentLock, jobs, worker, faults, observed>>

\* An answer without an action ends the cycle.
FinishCycle(p) ==
    /\ Ticking(p)
    /\ cycle.phase = "response"
    /\ cycle.action = NoAction
    /\ cycle' = IdleCycle
    /\ EndTick(p)
    /\ UNCHANGED <<switch, agentLock, jobs, worker, faults, observed>>

Answered(p) ==
    /\ Ticking(p)
    /\ cycle.phase = "response"
    /\ cycle.action # NoAction

Spent == cycle.steps >= MaxSteps \/ cycle.age > AnswerLimit

\* The budget or the age limit: the action is not run.
DropAction(p) ==
    /\ Answered(p)
    /\ ~runner[p].stop
    /\ Spent
    /\ cycle' = IdleCycle
    /\ EndTick(p)
    /\ UNCHANGED <<switch, agentLock, jobs, worker, faults, observed>>

\* The run is ending, the executor is cancelled, or the id has another command.
RefuseAction(p) ==
    /\ Answered(p)
    /\ \/ runner[p].stop
       \/ /\ ~Spent
          /\ \/ runner[p].cancelled
             \/ /\ CycleKey \in JobKeys
                /\ jobs[CycleKey].command # cycle.action[2]
    /\ EndTick(p)
    /\ UNCHANGED <<switch, agentLock, cycle, jobs, worker, faults, observed>>

Claimable(p) ==
    /\ Answered(p)
    /\ ~runner[p].stop
    /\ ~runner[p].cancelled
    /\ ~Spent

\* The rowid of a new row is the next after the greatest.
NextRowId == 1 + Max({0} \cup {jobs[key].rowid : key \in Keys})
InsertRow ==
    jobs' = [jobs EXCEPT ![CycleKey] =
               [status |-> "running", command |-> cycle.action[2], rowid |-> NextRowId]]

\* A plausible bug: the claim does not look for the action's row.
MutantStartJob(p) ==
    /\ Claimable(p)
    /\ InsertRow
    /\ worker' = [worker EXCEPT ![CycleKey] = [proc |-> p, at |-> "running", age |-> 0]]
    /\ spawned' = [spawned EXCEPT ![CycleKey] = @ + 1]
    /\ runner' = [runner EXCEPT ![p].at = "note"]
    /\ UNCHANGED <<switch, agentLock, cycle, faults, posts, doubt, settled, forgotten>>

\* claim, then the thread: the intent is on record before anything runs.
StartJob(p) ==
    /\ Claimable(p)
    /\ CycleKey \notin JobKeys
    /\ InsertRow
    /\ worker' = [worker EXCEPT ![CycleKey] = [proc |-> p, at |-> "running", age |-> 0]]
    /\ spawned' = [spawned EXCEPT ![CycleKey] = @ + 1]
    /\ runner' = [runner EXCEPT ![p].at = "note"]
    /\ UNCHANGED <<switch, agentLock, cycle, faults, posts, doubt, settled, forgotten>>

\* The action was claimed before: its recorded result is the answer.
ReplayJob(p) ==
    /\ Claimable(p)
    /\ CycleKey \in JobKeys
    /\ jobs[CycleKey].command = cycle.action[2]
    /\ runner' = [runner EXCEPT ![p].at = "note"]
    /\ UNCHANGED <<switch, agentLock, cycle, jobs, worker, faults, observed>>

NoteJob(p) ==
    /\ runner[p].at = "note"
    /\ cycle' = [cycle EXCEPT !.phase = "job", !.steps = @ + 1]
    /\ EndTick(p)
    /\ UNCHANGED <<switch, agentLock, jobs, worker, faults, observed>>

-----------------------------------------------------------------------------
(* _submit: the phase is persisted before the POST and after it. *)

\* uuid4: a cycle gets an id that was never used.
NewIds == {c \in CycleIds : \A s \in 0 .. MaxSteps : posts[<<c, s>>] = 0}

PersistSubmission(p) ==
    /\ Ticking(p)
    /\ ~runner[p].stop
    /\ \/ /\ cycle.phase = "feedback"
          /\ cycle' = [cycle EXCEPT !.phase = "submitting", !.action = NoAction,
                                    !.age = 0]
       \/ /\ cycle.phase = "idle"
          /\ NewIds # {}
          /\ cycle' = [IdleCycle EXCEPT !.phase = "submitting",
                          !.id = CHOOSE c \in NewIds : TRUE]
    /\ runner' = [runner EXCEPT ![p].at = "post"]
    /\ UNCHANGED <<switch, agentLock, jobs, worker, faults, observed>>

Request == <<cycle.id, cycle.steps>>

\* The POST gets through and its answer is recorded; or the answer, or the
\* process before it is recorded, is lost.
Post(p) ==
    /\ runner[p].at = "post"
    /\ posts' = [posts EXCEPT ![Request] = @ + 1]
    /\ \/ /\ cycle' = [cycle EXCEPT !.phase = "workflow"]
          /\ UNCHANGED doubt
       \/ /\ doubt' = doubt \cup {Request}
          /\ UNCHANGED cycle
    /\ EndTick(p)
    /\ UNCHANGED <<switch, agentLock, jobs, worker, faults, spawned, settled, forgotten>>

\* The POST does not get through: the runner cannot tell this from the above.
PostFails(p) ==
    /\ runner[p].at = "post"
    /\ EndTick(p)
    /\ UNCHANGED <<switch, agentLock, cycle, jobs, worker, faults, observed>>

-----------------------------------------------------------------------------
(* The monitor thread, the operator and the clock. *)

Monitoring(p) == runner[p].state = "up" /\ ~runner[p].stop /\ runner[p].at \notin {"stop", "block"}

\* monitor_once: the account is marked, and may be stopped at a risk limit.
\* The counter of failures is not reset: the code resets monitor_failures.
MonitorMarks(p) ==
    /\ Monitoring(p)
    /\ \E breached \in BOOLEAN :
          /\ switch' = IF breached THEN Stopped ELSE switch
          /\ runner' = [runner EXCEPT
                ![p].cancelled = @ \/ switch.stopped \/ breached,
                ![p].missed = 0]
    /\ UNCHANGED <<agentLock, cycle, jobs, worker, faults, observed>>

\* A failed monitor cycle; the last one allowed stops trading and the run.
MonitorMisses(p) ==
    /\ Monitoring(p)
    /\ LET failures == runner[p].failures + 1
           escalates == failures >= FailureLimit
       IN  /\ runner' = [runner EXCEPT
                ![p].failures = failures,
                ![p].missed = @ + 1,
                ![p].stop = escalates,
                ![p].cancelled = @ \/ (~escalates /\ switch.stopped)]
           /\ switch' = IF escalates THEN Stopped ELSE switch
    /\ UNCHANGED <<agentLock, cycle, jobs, worker, faults, observed>>

\* paper start, paper stop.
OperatePaper ==
    /\ \/ ~switch.stopped /\ switch' = Stopped
       \/ switch.stopped /\ switch' = Running
    /\ UNCHANGED <<agentLock, runner, cycle, jobs, worker, faults, observed>>

Reconciled ==
    /\ cycle' = IdleCycle
    /\ doubt' = {}
    /\ settled' = settled \cup {key \in Keys : spawned[key] > 0}

\* bits-recover: the operator has reconciled what was uncertain.
OperatorRecovers ==
    /\ switch.stopped
    /\ agentLock = Nobody
    /\ Interrupted \/ cycle # IdleCycle
    /\ jobs' = [key \in Keys |-> Recovered(jobs[key])]
    /\ Reconciled
    /\ UNCHANGED <<switch, agentLock, runner, worker, faults, spawned, posts, forgotten>>

\* session reset: the jobs and the cycle are deleted with the account.
OperatorResets ==
    /\ switch.stopped
    /\ agentLock = Nobody
    /\ JobKeys # {}
    /\ jobs' = [key \in Keys |-> NoRow]
    /\ switch' = Stopped
    /\ Reconciled
    /\ UNCHANGED <<agentLock, runner, worker, faults, spawned, posts, forgotten>>

\* Time passes; no thread outlives its deadline, which it polls, and a tick is
\* not held between the claim of a job and the note of it.  An age that no
\* step of the phase reads stays as it is.
Pass ==
    /\ \A p \in Procs : runner[p].at # "note"
    /\ \A key \in Keys : Live(key) => worker[key].age < JobLimit
    /\ worker' = [key \in Keys |->
                    IF Live(key) THEN [worker[key] EXCEPT !.age = @ + 1]
                    ELSE worker[key]]
    /\ cycle' = IF \/ cycle.phase \in {"idle", "feedback", "blocked"}
                   \/ cycle.age > StaleAfter
                THEN cycle ELSE [cycle EXCEPT !.age = @ + 1]
    /\ UNCHANGED <<switch, agentLock, runner, jobs, faults, observed>>

-----------------------------------------------------------------------------
Tick(p) ==
    \/ TickStopped(p) \/ TickBlocked(p) \/ TickBegins(p) \/ TickGated(p)
    \/ PollJob(p) \/ PollWorkflow(p) \/ FinishCycle(p) \/ DropAction(p)
    \/ RefuseAction(p) \/ StartJob(p) \/ ReplayJob(p) \/ NoteJob(p)
    \/ PersistSubmission(p) \/ Post(p) \/ PostFails(p)

Thread(key) ==
    \/ WorkerEnds(key) \/ WorkerWrites(key) \/ WriteLost(key)
    \/ PublishProgress(key)

Next ==
    \/ \E p \in Procs :
          \/ Start(p) \/ StopInterrupted(p)
          \/ BlockInterrupted(p) \/ Terminate(p) \/ Close(p) \/ Exit(p)
          \/ Crash(p) \/ Tick(p) \/ MonitorMarks(p) \/ MonitorMisses(p)
    \/ \E key \in Keys : Thread(key)
    \/ OperatePaper \/ OperatorRecovers \/ OperatorResets \/ Pass

\* The loop of whoever holds the lock ticks, threads end and write, time passes,
\* and the market is readable again and again.
Fairness ==
    /\ WF_vars(Pass)
    /\ WF_vars(\E p \in Procs : StopInterrupted(p) \/ BlockInterrupted(p) \/ Close(p)
                                 \/ TickBegins(p))
    /\ SF_vars(\E p \in Procs : PollJob(p))
    /\ WF_vars(\E key \in Keys : WorkerEnds(key) \/ WorkerWrites(key))

Spec == Init /\ [][Next]_vars /\ Fairness

-----------------------------------------------------------------------------
(* Properties. *)

TypeOK ==
    /\ switch \in Switches
    /\ agentLock \in Procs \cup {Nobody}
    /\ runner \in [Procs -> Runners]
    /\ cycle \in Cycles
    /\ jobs \in [Keys -> Rows]
    /\ worker \in [Keys -> Workers]

\* A shell command that was asked for once is run at most once, whatever
\* crashes, restarts, replays and reuses of its id there are (the claim of
\* bits_jobs.py before the thread starts).
RunOnce == \A key \in Keys : spawned[key] <= 1

\* A request to the workflow is posted at most once: a POST whose outcome is
\* unknown is not retried (bits_runner.py, _submit).
PostedOnce == \A r \in DOMAIN posts : posts[r] <= 1

Unsettled(key) ==
    /\ spawned[key] > 0
    /\ key \notin settled
    /\ jobs[key].status \in {"running", "unknown", "timed_out"}

\* While the outcome of a command or of a request is uncertain, no further
\* request is posted and no further command is run, not even by a process
\* that starts later, until an operator has reconciled it (a cancelled command
\* is left out: what cancels it is a stop; and so is one whose row a start
\* marked that was killed before it blocked the cycle, see below).
UncertaintyHalts ==
    [][ spawned' # spawned \/ posts' # posts =>
            doubt = {} /\ \A key \in Keys \ forgotten : ~Unsettled(key) ]_vars

\* The claim without that exception, "uncertain submissions or shell outcomes
\* fail closed" (docs/datadog-connection.md:73).  It fails: the next start finds
\* no running row, and a cycle that does not know of the command.
UncertaintyFailsClosed ==
    [][ spawned' # spawned \/ posts' # posts =>
            doubt = {} /\ \A key \in Keys : ~Unsettled(key) ]_vars

\* Commands and requests have effect once, and none follows an uncertain one.
EffectsAreCertain ==
    /\ UncertaintyHalts
    /\ [][TypeOK' /\ RunOnce' /\ PostedOnce']_vars

\* A job never leaves the runner waiting in silence: its result is used, or
\* trading is stopped, or nobody runs the agent (the stranded row).
NoSilentStall ==
    (cycle.phase = "job" /\ agentLock # Nobody)
        ~> (cycle.phase # "job" \/ switch.stopped \/ agentLock = Nobody)

\* The monitor escalates only after that many failures in a row.
EscalatesOnConsecutiveMisses ==
    \A p \in Procs :
        runner[p].failures >= FailureLimit => runner[p].missed >= FailureLimit
=============================================================================
