----------------------------- MODULE AgentLoop -----------------------------
(***************************************************************************)
(* The continuous agent of agent_loop.py, the transcript it shares with    *)
(* the engine, and its tools.                                              *)
(*                                                                         *)
(* A tick asks a planner for actions and runs each tool in a thread of its *)
(* own.  A tool that takes too long is given up, but its thread goes on: a *)
(* proposal may reach the paper gates after the planner was told that it   *)
(* failed.  Nothing keeps a second agent out: runs close each other's rows *)
(* and take theirs back.  The planner, and what the gates decide, are      *)
(* choices; only the identity of a proposal is kept (its bar: all          *)
(* proposals here have one side and one quantity).                         *)
(***************************************************************************)
EXTENDS Integers, FiniteSets

CONSTANTS
    Agents,         \* processes that run the agent
    EngineProcs,    \* processes that run the engine
    MaxSteps,       \* max_steps_per_tick
    MaxBar,         \* bound of the bars
    MaxCalls,       \* bound of the tool calls
    MaxRuns         \* bound of the runs of a process

ASSUME AgentAssumption ==
    /\ MaxBar \in Nat \ {0}
    /\ {MaxSteps, MaxCalls, MaxRuns} \subseteq Nat

VARIABLES
    market,         \* the newest bar, and whether it is fresh, stale or the market closed
    rows,           \* agent_runs
    loop,           \* the runner of each process
    calls,          \* the tool calls and their threads
    verdicts,       \* the paper store's verdict on each decision id
    called,         \* tool calls so far
    contested,      \* observed: runs that a later start of the family may have closed
    crashed         \* observed: runs that ended without a word, not reconciled yet

vars == <<market, rows, loop, calls, verdicts, called, contested, crashed>>
acting == <<calls, verdicts, called>>

-----------------------------------------------------------------------------
Procs == Agents \cup EngineProcs
AgentBars == 1 .. MaxBar
CallIds == 1 .. MaxCalls
Runs == Procs \X (1 .. MaxRuns)

\* _run_family: the prefix of the run id.
SameFamily(p, q) == (p \in Agents) = (q \in Agents)

Off == [at |-> "off", run |-> 0, step |-> 0, call |-> 0]
Loops ==
    [at : {"off", "starting", "wait", "check", "plan", "tool", "exiting"},
     run : 0 .. MaxRuns, step : 0 .. MaxSteps, call : 0 .. MaxCalls]

\* A call of propose_trade: who waits for it, the bar its handler read, and what
\* it returned.
NoCall == [of |-> "nobody", at |-> "none", bar |-> 0, filled |-> FALSE, told |-> FALSE]
Calls ==
    [of : Procs \cup {"nobody"}, at : {"none", "called", "read", "done"},
     bar : 0 .. MaxBar, filled : BOOLEAN, told : BOOLEAN]

Verdicts == {"none", "refused", "accepted"}

\* The runner of p is alive, and this is its row.
Live(p) == loop[p].at \notin {"off", "exiting"}
RowOf(p) == <<p, loop[p].run>>

Init ==
    /\ market = [bar |-> 1, is |-> "fresh"]
    /\ rows = [r \in Runs |-> "none"]
    /\ loop = [p \in Procs |-> Off]
    /\ calls = [n \in CallIds |-> NoCall]
    /\ verdicts = [b \in AgentBars |-> "none"]
    /\ called = 0
    /\ contested = {}
    /\ crashed = {}

-----------------------------------------------------------------------------
(* Runs and their rows. *)

StartRun(p) ==
    /\ loop[p].at = "off"
    /\ \E n \in 1 .. MaxRuns :
          /\ rows[<<p, n>>] = "none"
          /\ \A k \in 1 .. n - 1 : rows[<<p, k>>] # "none"
          /\ rows' = [rows EXCEPT ![<<p, n>>] = "running"]
          /\ loop' = [loop EXCEPT ![p] = [Off EXCEPT !.at = "starting", !.run = n]]
    /\ UNCHANGED <<market, acting, contested, crashed>>

\* A plausible bug, once there: every other running row is closed.
MutantOrphans(p) == {r \in Runs : rows[r] = "running" /\ r # RowOf(p)}

\* reconcile_running_runs: the rows of the family that are running but this one.
Orphans(p) ==
    {r \in Runs : rows[r] = "running" /\ r # RowOf(p) /\ SameFamily(p, r[1])}

Reconcile(p) ==
    /\ loop[p].at = "starting"
    /\ rows' = [r \in Runs |-> IF r \in Orphans(p) THEN "stopped" ELSE rows[r]]
    /\ loop' = [loop EXCEPT ![p].at = "wait"]
    /\ contested' = contested \cup
          {RowOf(q) : q \in {q \in Procs \ {p} : loop[q].at # "off" /\ SameFamily(p, q)}}
    /\ crashed' = {r \in crashed : ~SameFamily(p, r[1])}
    /\ UNCHANGED <<market, acting>>

\* A plausible bug: the row is written when the process ends, and not before.
MutantStopRun(p) ==
    /\ loop[p].at = "wait"
    /\ loop' = [loop EXCEPT ![p] = [Off EXCEPT !.at = "exiting", !.run = loop[p].run]]
    /\ UNCHANGED <<market, rows, acting, contested, crashed>>

\* SIGTERM is seen between two ticks: finish_run leaves a row alone that is not running.
StopRun(p) ==
    /\ loop[p].at = "wait"
    /\ rows' = [rows EXCEPT ![RowOf(p)] = IF @ = "running" THEN "stopped" ELSE @]
    /\ loop' = [loop EXCEPT ![p] = [Off EXCEPT !.at = "exiting", !.run = loop[p].run]]
    /\ UNCHANGED <<market, acting, contested, crashed>>

Unfinished(p) == {n \in CallIds : calls[n].of = p /\ calls[n].at \in {"called", "read"}}

\* The interpreter waits for the threads that are left.
Exit(p) ==
    /\ loop[p].at = "exiting"
    /\ Unfinished(p) = {}
    /\ loop' = [loop EXCEPT ![p] = Off]
    /\ UNCHANGED <<market, rows, acting, contested, crashed>>

Crash(p) ==
    /\ loop[p].at # "off"
    /\ loop' = [loop EXCEPT ![p] = Off]
    /\ calls' = [n \in CallIds |-> IF n \in Unfinished(p) THEN NoCall ELSE calls[n]]
    /\ crashed' = IF loop[p].at = "exiting" THEN crashed ELSE crashed \cup {RowOf(p)}
    /\ UNCHANGED <<market, rows, verdicts, called, contested>>

-----------------------------------------------------------------------------
(* The tick. *)

\* A plausible bug: the row is left as another process wrote it.
MutantTickResumes(p) ==
    /\ p \in Agents
    /\ loop[p].at = "wait"
    /\ loop' = [loop EXCEPT ![p].at = "check", ![p].step = 0]
    /\ UNCHANGED <<market, rows, acting, contested, crashed>>

\* run_tick: resume_run first, whatever another process wrote.
TickResumes(p) ==
    /\ p \in Agents
    /\ loop[p].at = "wait"
    /\ rows' = [rows EXCEPT ![RowOf(p)] = "running"]
    /\ loop' = [loop EXCEPT ![p].at = "check", ![p].step = 0]
    /\ UNCHANGED <<market, acting, contested, crashed>>

Waits(p) == loop' = [loop EXCEPT ![p] = [Off EXCEPT !.at = "wait", !.run = loop[p].run]]

\* No planner is asked while the market is closed or the data is stale; stale
\* data is left so by a refresh that fails, or was tried too lately.
TickGated(p) ==
    /\ loop[p].at = "check"
    /\ market.is \in {"closed", "stale"}
    /\ Waits(p)
    /\ UNCHANGED <<market, rows, acting, contested, crashed>>

\* _refresh_if_stale: the download is waited for, and the bar is read again.
TickRefreshes(p) ==
    /\ loop[p].at = "check"
    /\ market.is = "stale"
    /\ market' = [market EXCEPT !.is = "fresh"]
    /\ loop' = [loop EXCEPT ![p].at = "plan"]
    /\ UNCHANGED <<rows, acting, contested, crashed>>

TickPlans(p) ==
    /\ loop[p].at = "check"
    /\ market.is = "fresh"
    /\ loop' = [loop EXCEPT ![p].at = "plan"]
    /\ UNCHANGED <<market, rows, acting, contested, crashed>>

\* The planner finishes, its steps are spent, or an error ends the tick.
PlanEnds(p) ==
    /\ loop[p].at = "plan"
    /\ Waits(p)
    /\ UNCHANGED <<market, rows, acting, contested, crashed>>

\* The planner proposes a trade: the handler runs in a thread.
CallTool(p) ==
    /\ loop[p].at = "plan"
    /\ loop[p].step < MaxSteps
    /\ called < MaxCalls
    /\ called' = called + 1
    /\ calls' = [calls EXCEPT ![called + 1] = [NoCall EXCEPT !.of = p, !.at = "called"]]
    /\ loop' = [loop EXCEPT ![p].at = "tool", ![p].call = called + 1]
    /\ UNCHANGED <<market, rows, verdicts, contested, crashed>>

HandlerReads(n) ==
    /\ calls[n].at = "called"
    /\ calls' = [calls EXCEPT ![n].at = "read", ![n].bar = market.bar]
    /\ UNCHANGED <<market, rows, loop, verdicts, called, contested, crashed>>

\* A plausible bug, once there: a replay tells the verdict on record.
MutantReported(old, new) == (IF old = "none" THEN new ELSE old) = "accepted"

\* filled: the gates accepted it, and did not just repeat themselves.
Reported(old, new) == old = "none" /\ new = "accepted"

\* coordinator.execute: a new id is decided, a known one is replayed.
HandlerExecutes(n) ==
    /\ calls[n].at = "read"
    /\ LET old == verdicts[calls[n].bar]
       IN  \E new \in {"accepted", "refused"} :
              /\ verdicts' = [verdicts EXCEPT ![calls[n].bar] = IF old = "none" THEN new ELSE old]
              /\ calls' = [calls EXCEPT ![n].at = "done",
                     ![n].filled = old = "none" /\ new = "accepted",
                     ![n].told = Reported(old, new)]
    /\ UNCHANGED <<market, rows, loop, called, contested, crashed>>

\* The result is evidence for the next plan.
ToolReturns(p) ==
    /\ loop[p].at = "tool"
    /\ calls[loop[p].call].at = "done"
    /\ loop' = [loop EXCEPT ![p].at = "plan", ![p].step = @ + 1, ![p].call = 0]
    /\ UNCHANGED <<market, rows, acting, contested, crashed>>

\* A plausible bug: a tool is waited for as long as it takes.
MutantToolTimesOut(p) ==
    /\ loop[p].at = "tool"
    /\ calls[loop[p].call].at = "done"
    /\ loop' = [loop EXCEPT ![p].at = "plan", ![p].step = @ + 1, ![p].call = 0]
    /\ UNCHANGED <<market, rows, acting, contested, crashed>>

\* The tool takes too long: the tick goes on, and so does the handler.
ToolTimesOut(p) ==
    /\ loop[p].at = "tool"
    /\ calls[loop[p].call].at # "done"
    /\ loop' = [loop EXCEPT ![p].at = "plan", ![p].step = @ + 1, ![p].call = 0]
    /\ UNCHANGED <<market, rows, acting, contested, crashed>>

MarketMoves ==
    /\ \/ /\ market.bar < MaxBar
          /\ market' = [bar |-> market.bar + 1, is |-> "fresh"]
       \/ /\ market.is = "fresh"
          /\ market' = [market EXCEPT !.is = "stale"]
       \/ market' = [market EXCEPT !.is = IF @ = "closed" THEN "stale" ELSE "closed"]
    /\ UNCHANGED <<rows, loop, acting, contested, crashed>>

-----------------------------------------------------------------------------
Lifecycle(p) ==
    \/ StartRun(p) \/ Reconcile(p) \/ StopRun(p) \/ Exit(p) \/ Crash(p)

Tick(p) ==
    \/ TickResumes(p) \/ TickGated(p) \/ TickRefreshes(p) \/ TickPlans(p)
    \/ PlanEnds(p) \/ CallTool(p) \/ ToolReturns(p) \/ ToolTimesOut(p)

Next ==
    \/ \E p \in Procs : Lifecycle(p) \/ Tick(p)
    \/ \E n \in CallIds : HandlerReads(n) \/ HandlerExecutes(n)
    \/ MarketMoves

\* The loop goes on, and a wait for a tool is bounded; no handler need ever end.
Fairness ==
    \A p \in Agents :
        WF_vars(Reconcile(p) \/ TickResumes(p) \/ TickGated(p) \/ TickRefreshes(p)
                  \/ TickPlans(p) \/ PlanEnds(p) \/ ToolReturns(p) \/ ToolTimesOut(p)
                  \/ StopRun(p))

Spec == Init /\ [][Next]_vars /\ Fairness

-----------------------------------------------------------------------------
(* Properties. *)

TypeOK ==
    /\ market \in [bar : AgentBars, is : {"fresh", "stale", "closed"}]
    /\ rows \in [Runs -> {"none", "running", "stopped"}]
    /\ loop \in [Procs -> Loops]
    /\ calls \in [CallIds -> Calls]
    /\ verdicts \in [AgentBars -> Verdicts]
    /\ called \in 0 .. MaxCalls
    /\ contested \subseteq Runs /\ crashed \subseteq Runs

\* The planner is told that a trade was filled by the call that filled it, and by
\* no other one, timed-out handlers and second agents included.
FilledIsTrue == \A n \in CallIds : calls[n].told => calls[n].filled

\* A live run is shown as running unless a later start of its own family took it
\* for an orphan: an engine start does not close the row of the agent.
LiveRowsHold ==
    \A p \in Procs :
        loop[p].at \in {"wait", "check", "plan", "tool"} /\ RowOf(p) \notin contested
            => rows[RowOf(p)] = "running"

\* A row that says running is of a live process, or of one that was killed and
\* whose family has not started since.
NoDeadRunShown ==
    \A r \in Runs :
        rows[r] = "running" => r \in crashed \/ (Live(r[1]) /\ RowOf(r[1]) = r)

\* What the planner is told and what the operator sees of the runs is true.
RunsAreReported == TypeOK /\ FilledIsTrue /\ LiveRowsHold /\ NoDeadRunShown

\* An agent that goes on ticking is shown as running again, whoever closed its row.
LiveRunShown ==
    \A p \in Agents :
        (loop[p].at = "wait" /\ rows[RowOf(p)] = "stopped")
            ~> (~Live(p) \/ rows[RowOf(p)] = "running")

\* A tick ends, even when a tool never does.
TickEnds ==
    \A p \in Agents : loop[p].at \in {"check", "plan", "tool"} ~> loop[p].at \in {"wait", "off"}

\* The agent makes progress, and shows it.
AgentProgresses == LiveRunShown /\ TickEnds
=============================================================================
