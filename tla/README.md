# A formal model of the XAUUSD paper and demo trading system

The repository runs a gold (XAUUSD) research and paper-trading system: planners and a
deterministic engine propose trades, a simulated account accepts or refuses them behind
risk gates, accepted decisions may be mirrored to a cTrader *demo* account, a lab and a
fleet of workers research strategies, and a set of services keeps the market data, the
evidence and the backups. This directory holds TLA+ specifications of these components,
the TLC configurations that check them on small instances, and proofs that TLAPS checks.

- [1. Inventory](#1-inventory)
- [2. The modules and how they correspond to the code](#2-the-modules-and-how-they-correspond-to-the-code)
- [3. What the runs check](#3-what-the-runs-check)
- [4. Findings, and where the properties stop](#4-findings-and-where-the-properties-stop)
- [5. What is proved](#5-what-is-proved)
- [6. What is not modelled](#6-what-is-not-modelled)
- [7. Plan](#7-plan)

## 1. Inventory

| component | state it keeps | what is hard | what makes it correct | module |
|---|---|---|---|---|
| paper account (`paper_trading.py`, `local_state.py`, `account_rebase.py`, `session_reset.py`) | one row: kill switch, cash, position, mark, high water, day, baseline, counter, ledger; one row per decision id | interleaved callers that read the clock and the market before their transaction; replayed ids; a day boundary; corrupt rows | a decision fills once; limits hold at each fill; a stop holds until an explicit start | `PaperAccount` |
| demo execution (`demo_execution.py`, `ctrader_demo.py`, `demo_runner.py`) | demo kill switch with a `reconciled` flag; a request per decision id; the broker's orders | three stores and no common transaction; crashes between any two accesses; late, lost, partial answers | an order is submitted at most once; a certain record is true; uncertainty stops | `DemoExecution` |
| broker session (`ctrader_demo.py`) | connection, authorisation, the order that waits | reconnects, events of other orders, late events | a verdict is what became of the order | `BrokerSession` |
| agent loop (`agent_loop.py`, run rows of `local_state.py`) | run rows, a tick, tool threads | a tool's timeout leaves its handler running; runs close each other's rows | what the planner is told is true; a tick ends | `AgentLoop` |
| engine loop (`engine_loop.py`, `canary_strategy.py`) | durable halt, validation, observed transitions | a halt or a resume during a tick; restarts | no tick after a halt; history is not traded | `EngineLoop` |
| Bits runner and jobs (`bits_runner.py`, `bits_jobs.py`) | agent lock, cycle, job rows | restart with a job in flight; a worker that outlives the lock; lost posts | an effect happens once, and none follows an uncertain one | `BitsRunner` |
| working notes (`bits_memory.py`) | notes, open and closed drafts | a rejection recorded in a second transaction; limits that evict | no note and no evidence is lost without a record | `NotesMemory` |
| research lab (`lab.py`, `lab_store.py`, `lab_execution.py`) | dataset, manifest, history, budget, jobs; candidates, shadows, intent, owner | several durable writes per step; a check outside the transaction it guards | protected bars are read within the budget; one candidate trades, and owns its exposure | `LabDataset`, `LabTrading` |
| exploratory accounts (`agent_experiments.py`, `experiment_learning.py`) | the list of accounts, the archive | two threads that rewrite the list from copies | no fill lost or repeated | `LabAccounts` |
| advisor (`agent_advisor.py`, `research_program.py`, `research_recovery.py`) | plans, calls, findings, remote job directories | a call in four writes; outcomes nobody saw | a command is not repeated while its outcome is open | `AdvisorCalls` |
| registry and workers (`experiment_registry.py`, `tournament_runner.py`, `distributed_compute.py`) | experiment rows, champion history, champion.json, futures, circuit, DRAIN file | READ COMMITTED between a SELECT and its UPDATE; recovery of a live worker; a promotion in four steps | one result per experiment, none lost; a lease has one holder; champions improve | `TournamentRunner`, `DistributedCompute` |
| datasets and artifacts (`tournament_data.py`, `operations.py`) | frozen datasets and the active pointer; detailed artifacts, journals | overlapping or killed freezes; a removal in three calls on two hosts | the active dataset is whole; a row says the truth of its files | `DatasetFreeze`, `Artifacts` |
| daily research (`automation.py`) | run lock, champion, published runs | attempts that overlap or die | latest is whole; champions are beaten | `DailyResearch` |
| live feed and quotes (`live_feed.py`, `quotes.py`) | connection, held bar, timers; quote and its history | reconnects against late answers and timers; two feeds | each closed bar is stored once; the quote never goes back | `LiveFeed`, `Quotes` |
| bar store and archive (`data.py`, `retention.py`) | Parquet file, write lock, raw pages | three writers, a child download, shrinking meanwhile | no bar is lost; a rebuild gives the same | `MarketStore` |
| tokens (`oauth.py`, `data.py`) | `.env`, its lock, the broker's token | a token spent before the new one is written | the stored token works | `Credentials` |
| backup (`state_backup.py`, `operations.py`, `retention.py`) | backups, `latest.json`, the database and its log | crashes, retention and restore at once | a whole backup is kept | `Backups` |
| releases (`agent_engineering.py`, `agent_release_worker.py`) | pending release, stored bytes, installed files | two processes and an operator edit the same files | installed whole or undone whole | `ReleaseInstall` |
| log retention (`database_retention.py`, `local_state.py`, `bits_jobs.py`) | rows, references | a reference written during the pass | what is referred to or uncertain stays | `LogRetention` |
| numeric research, dashboards | files, reports | numeric, or read-only | | not modelled |

How they interact: every trading component reaches the market through
`PaperTrading.evaluate`; those with a demo coordinator go on to
`CTraderDemoAdapter.execute`. The paper account lives in SQLite (or CockroachDB), demo
execution state in CockroachDB, the broker's orders at the broker. Both kill switches
follow one restart policy (`restart_policy`), an allowlist with one reason. The feed and
the downloads write the bar store that the engine, the lab and the freezes read. Research
components share the registry or the lab's store; operations (backup, retention, releases)
work beside all of them on files and rows they do not own.

## 2. The modules and how they correspond to the code

```
KillSwitch            the persistent switch and the restart policy (pure)
  PaperContract       what the account promises to those who trade through it (abstract)
    PaperAccount      the account itself; implements PaperContract
    DemoExecution     runners, agents, operators, request store and broker on top of
                      PaperContract; implements OrderContract
  BitsRunner          the Bits agent, its threads and jobs
OrderContract         what demo execution promises of the broker's orders (abstract)

ExperimentRegistry    the registry's rows, history and transactions
  Promotion           _promote, and the recoveries as their callers see them
    TournamentRunner  the service's and the command line's workers
    DistributedCompute  the remote coordinator: its loop and its threads
ExperimentLifecycle   what the registry promises (abstract); both implement it

AgentLoop EngineLoop NotesMemory LabDataset LabTrading LabAccounts AdvisorCalls
LiveFeed Quotes MarketStore Credentials BrokerSession DatasetFreeze Artifacts
DailyResearch Backups ReleaseInstall LogRetention
                      one component each, on state of its own

MC_PaperAccount MC_DemoExecution MC_TournamentRunner MC_DistributedCompute
                      instances for TLC
MC_FeedsAndFiles MC_StoreAndLogs MC_LabAndTrading
                      instances of several components for one run each
*_proofs              theorems (section 5)
```

`DemoExecution` uses the *contract* of the account, not the account: its risk gates are
the free choice between `Accept` and `Refuse`. That `PaperAccount` implements the
contract is checked and proved, so what is shown of demo execution does not depend on
limits, prices or clocks.

**The three composites.** The components of `MC_FeedsAndFiles`, of `MC_StoreAndLogs` and of
`MC_LabAndTrading` share no state, so their product would only multiply states. The
variable `part` is chosen at the start, that component moves and the others keep their
first state; the reachable states are the union of the components', and `VIEW PartView` identifies states that
differ in the others only. Where a component may start in several states, the ones that
are not selected start in a fixed one. The components that are proved about are extended,
under names of their own (`EngineInit`, `TokensNext`, ...), and their properties stand as
they are, since they hold in their first state; a property of an instantiated component
appears with `part = "..." =>` in front.

**Promises.** A module whose properties are several action formulas and invariants
states them as one step formula (`FeedStep`, `TradingStep`, ...), a conjunction of named
parts with the invariants primed, and a boxed promise of that step. The parts are the
properties; the promise is what a run checks.

### PaperAccount

State: `row` says whether the SQLite row is missing, corrupt or present; `account` is
what it holds; `decisions` and `observations` are the two kinds of keys of
`paper_trading_decisions`; `call` is what each caller has read and not yet committed.
`LockedState` is `_locked_state`: the account each access starts from. It is a value of
the missing or corrupt row too, so a stop is meant of `LockedState.switch`, not of the
stored bytes.

| code | action |
|---|---|
| caller reads clock and market, then `evaluate` | `BeginEvaluate`, then `Evaluate` or `Replay` in one transaction (`BEGIN IMMEDIATE`) |
| `monitor` | `BeginMonitor` (its refusals come before the store), then `Monitor` or `ReplayMonitor` |
| `start`, `stop` | `Start`, `Stop` |
| `maybe_resume` | `BeginResume` and `Resume`, two transactions |
| `state` | `ReadState` (a read repairs a missing or corrupt row) |
| `account rebase` | `Rebase` |
| `reset_paper_session` | `BeginReset` (the check) and `ResetSession` (the deletion) |
| a process dies, a row decays, time passes | `Crash`, `CorruptRow`, `Tick` |

Abstractions. Money, prices and quantities are integers, so rounding of floats is not
modelled. `average_entry_price` and `realized_pnl` are read by no gate and left out. A
result is `accepted` or `refused`: which gate refused, and the equity copied into a
result, are left out. The session calendar is a set of closed ticks of a day; the
weekend and daylight saving are left out. Ledger entries carry the day they were
evaluated at (`filled_at`). An operator's free text is the reason `"operator"`; the
unattended start's reasons are one.

### DemoExecution

Every access to a store or to the broker is a step, and `pc` says which step a process
does next, so that a crash or another process can come between any two. `local` is what
it remembers in between. The broker is external and free: it may lose an order, fill it
unit by unit, reject it while nothing is filled, or cancel the rest.

| code | steps |
|---|---|
| `DemoAutomationRunner.start`, `_resume_kill_switches` | `Launch`, `ReadDemo`, the reconciliation, `StartDemo`, `ReadPaper`, `ResumePaper` |
| `reconcile_after_restart`, `verify_position_exposure` | `TakeSnapshot`, `CheckPending`, `CheckRecords`, `CheckExposure`, `MarkReconciled`, `FailReconcile` |
| `agent run` (its restart of the paper account) | `Launch`, `ReadPaper`, `ResumePaper` |
| `demo-automation start` | `Launch`, the reconciliation, `StartDemo` |
| `run_cycle` | `Propose`, `NoProposal`, and `FailCycle` for its handler |
| coordinator `execute` | `Evaluate`, `Audit`, `StopPaper`, `StopDemoToo` |
| adapter `execute` | `CheckSwitch`, `CheckIds`, `Collide`, `Reserve`, `Send`, `HearOutcome`, `GiveUp`, `StopUnknown`, `Finish` |
| runner `_stop` | `HaltPaper`, `HaltDemo` |
| an exception of a store | `StoreFault`: what happens to it depends on who catches it |
| `paper start/stop`, `account rebase` | `OperatePaper`, `Rebase` (with every process stopped, as its runbook asks) |

Abstractions. The broker account is a netting one: the exposure is the sum of the fills,
and position identities are left out, so two positions whose volumes cancel are not told
apart from none. The snapshot carries no request outcomes, as with the built-in
transport (`ctrader_demo.py:731`). A record is the pair of its status and the reason of
its outcome. The volume policy, the account's identity checks and the paper-only mode
are left out; so are session reset and corruption of the paper row, which
`PaperAccount` covers.

### BrokerSession

One call of the transport at a time: `SendBegins`, `Connects`, `Asks`, `Returns` or
`TimesOut` for each request of `_ensure_authenticated` and of an order; `wire` is the set
of events that the broker has sent and the transport has not read, of its own orders and
of others; `link` numbers the connections. The broker and the client library, which
reconnects by itself, are external. `Verdict` is what `execute` makes of the terminal
event. The replies to the authorisation requests are not looked at
(`_raise_for_error` is only called with the symbol replies), and the model has that.

### ExperimentRegistry and Promotion

State: the columns `status`, `worker_id` (`owner`), `retry_count` (`retries`) and
`promoted` of each row, whether its heartbeat is too old (`stale`), the champion
`history`; `championFile` is the score in champion.json. A transaction is one step. The
constant `ReadCommitted` is the setting `DATABASE_TRANSACTION_ISOLATION`. When it is true,
a transaction that SELECTs without a lock and then UPDATEs is two steps between which
others commit: the recoveries (`SelectRows`, `ReleaseRows`) and `promote_champion`
(`SelectPrevious`, `InsertChampion`). `claim_next` locks its row (`FOR UPDATE SKIP
LOCKED`), and the UPDATEs of `_finish`, `requeue` and `heartbeat` carry their own
condition, so they are one step at either level.

Abstractions. One dataset version. The backtests are deterministic, so `outcome` fixes
for each experiment the rank of its validation score (0 when a gate fails) and whether
its holdout passes. Events, metrics and artifacts are left out. A SERIALIZABLE
transaction that the database aborts is one that did not happen.

### TournamentRunner and DistributedCompute

A process of `TournamentRunner` is an incarnation of the service or a command line run.
The service is the "single system worker": one incarnation at a time, the next starts
when it has crashed. In `DistributedCompute`, `Main` is the loop of `run_forever`, the
threads are the pool; a thread that is `done` or `raised` is a future that is finished and
not collected yet: it counts in `Active`, and so in the worker id of the next claim.

| code | action |
|---|---|
| tournament `run_forever` | `Start`, `RecoverOtherWorkers`, `RecoverStale`, `MaintenanceFails`, then `run_once` |
| `run_once` | `Claim` or `ClaimNothing`, `DirectoryFails`, `Develop`, `_promote`, `Complete`, `Fail`; `EvaluationFails` |
| `_promote` | `ReadChampion`, `ReadHoldout`, `SelectPrevious`, `InsertSelected`, `WriteChampionFile`, `WriteFails` |
| coordinator's start | `RecoverPool` (by prefix of the worker id), `Restarts` |
| iteration of its loop | `RecoverStale`, `ReadGates`, `Dispatch`, `EndDispatch`, `Collect`, `EndCollect`; `LoopFails` for its handler |
| `process_claimed` | `JobFileFails`, `Compute`, `ComputeFails`, `_promote`, `Complete`, `GiveBack`, `CleanupFails` |
| `drain`, `resume`, circuit, telemetry | `SetDrain`, `CircuitCools`, `HostExhausted` |

The coordinator's registry is empty at first, or holds a champion that a tournament worker
promoted with the holdout (`Crowned`); without one no thread ever promotes (section 4).
The secondary host is a step that answers or fails. The pid is a number, and
`Overlapping` says whose digits begin whose.

### AgentLoop, EngineLoop, BitsRunner, NotesMemory

`AgentLoop`: `StartRun`, `StopRun`, `Reconcile` and `TickResumes` (`resume_run`) are the
writes of `agent_runs`; a tick is `TickGated`, `TickRefreshes`, `TickPlans`, the tools and
`PlanEnds`. `CallTool` starts the handler's thread, which goes on (`HandlerReads`,
`HandlerExecutes`) whether `ToolReturns` or `ToolTimesOut`. Proposals are told apart by
their bar. A run belongs to a family (`_run_family`: agents or engines).

`EngineLoop`: a tick reads the halt and the validation (`TickHalted`, `TickUnvalidated`,
`TickBegins`), the newest bar (`ReadBar`), the signals (`ReadSignals`), and executes
(`Execute`, `ExecuteFails`); bars, halts, resumes and validations come in between.
`acted` observes the transitions a process proposed.

`BitsRunner`: a runner takes the agent lock, recovers what it finds (`Recovered`) and
ticks: `TickBegins`, `PollJob`, `PollWorkflow`, `PersistSubmission`, `Post`, `StartJob`;
its monitor is a thread (`Monitoring`), and so is each job (`WorkerEnds`, `WorkerWrites`).
`Close` waits only two seconds for them before it gives up the lock, so a worker may
write when another process owns the rows. `posts`, `spawned`, `settled` and `doubt`
observe effects; `forgotten` are the commands whose rows a start had marked when it was
killed before it stopped trading and blocked the cycle (section 4). Rows keep their
order (`rowid`), which decides what `prune` deletes. Elapsed times are compared with
limits in ticks of a clock. `BitsAssumption` says of the limits what the code's defaults
give: `prune` keeps 500 rows and a cycle has 4 steps, and a row is stale after 2700 s,
more than a job's 1200 s and the age of a usable answer.

`NotesMemory`: `Save`, `Reject` and the second transaction that records a rejection
(`UpdateDraft`, `OpenDraft`, `MakeRoom`, `LoseRejection`), with the base a writer read.
Two instances are checked, one with a draft and one with several versions of the notes.

### The lab

`LabDataset` is the research tick: `TickArchives`, `TickWritesHistory`,
`TickResetsBudget`, `TickFreezes`, `TickWritesManifest` are its five durable writes, then
the job (`JobStarts` ... `JobCompletes`), with `LabEnds` between any two. A dataset is
named by its newest bar. `LabTrading` is a candidate's life: `Assess`, `ShadowTick`,
`Score`, `PromotionChecks` and `PromotionCommits` (which are not one transaction),
`TradeIntends`, `TradeOwns`, `TradeFills` or `TradeRefused`. `LabAccounts` has the two
threads of `agent_experiments.py`, which enter under the execution lock
(`MayEnter`, the decorator `serialized`) and rewrite the list from a copy.
`AdvisorCalls` has the four writes of a call (`CallReserves`, `CallAccepted`,
`CallActs`, `CallFinishes`), what a new process adopts (`CycleAdopts`), and
reconciliation with the remote worker's directories.

### Feeds and files

`LiveFeed`: callbacks of one reactor; `asked` are the requests without an answer, each of
the connection it was sent on, so late answers exist; `cadence` is a scheduled
resubscription. A bar is its minute and the number of updates that made it. `Quotes`: a
frame is decoded, the lock taken, history and quote written, in four steps. `MarketStore`:
each writer reads, merges and swaps under one lock; the download archives pages before it
writes; `Redundant` pages are compacted and others compressed meanwhile. `Credentials`:
`Refreshes` spends the token at the broker; `Locks`, `ReadsFile`, `ReplacesFile`,
`Unlocks` bring the new one into `.env`. `DatasetFreeze`: `MakesDirectory`, `WritesBars`,
`WritesManifest`, `Awaits`, `Activates`; experiments read through the pointer.
`Artifacts`: compression, and the plan, application and reconciliation of a removal.
`DailyResearch`: attempts under the run lock. `Backups`: the local and the tournament's
backup, retention, checkpoints of the database log, and a restore. `ReleaseInstall`: the
agent deploys, the worker verifies, either rolls back, an operator edits. `LogRetention`:
one row of each kind, and the phases of one rotation.

Their abstractions: file contents are versions or numbers; a write by `atomic.py` is one
step; reading several files for one check is one step, as a change between two reads is a
change before or after; hashes are equality; ages are a flag that time sets.

## 3. What the runs check

| run | instance and bounds | checks |
|---|---|---|
| `paper_one` | 1 caller, a purchase of 2 and a sale of 4, prices 2 and 4; position 2, 1 trade a day, loss limit 4, drawdown 25 %, days of 2 ticks with one closed, clock to 2 | types, limits, books, gates, switch, contract |
| `demo_runner` | a runner, 3 ids (2 opposite, the third with the broker id of the first), 2 volume units; 2 failures stop a runner; 1 fault of a store, 1 rebase; fairness | agreement after reconciliation, stops, `MirroredOrStopped` |
| `workers_shared` | the service, 1 command line run that may crash, 2 experiments, 2 scores, serializable; one directory failure; fairness | leases, contract, every experiment settles |
| `remote_pool` | 2 threads, 2 pids, 2 experiments of which 1 may be the champion already, 2 scores, 2 retries, serializable; 1 slow job | leases, retry limit, recovery of a replaced pool, contract |
| `remote_live` | 2 threads, 1 pid, circuit after 1 failure, READ COMMITTED; 1 slow job, 1 fault; fairness | a drain completes, every experiment settles |
| `bits_jobs` | 2 processes, 1 action, 1 command, 2 cycles, 1 kept row; 2 crashes or lost writes; fairness | effects are certain, no silent stall |
| `agent_loop` | 2 agents, 1 engine, 2 calls, 1 bar, 1 run each; fairness | reports are true, ticks end |
| `store_and_logs` | the bar store: 3 minutes, one without a bar, pages of 2 bars, 1 child; the logs: a row of each kind, 1 reference at a time | no bar and no evidence is lost |
| `feeds_and_files` | the 10 parts named in `MC_FeedsAndFiles`, bounds there | one promise per part |
| `lab_and_trading` | the 10 parts named in `MC_LabAndTrading`, bounds there | one promise per part, two for demo execution |
| `feed_ok`, `remote_finalist` | see section 4 | findings |

Why the bounds are enough. *Account*: the limits are a few units, so that a single
adverse tick reaches the loss limit and the drawdown, the sale reverses the position, and
one fill reaches the daily cap; the clock passes a day boundary and a closed tick. A
second caller is the part `callers`. *Demo*: two units make a partial fill; two opposite
ids make the exposure cancel; crashes and restarts are unbounded; faults and rebases are
bounded by `MaxFaults` and `MaxRebases` (the part `executors`: a runner and an agent with
one decision). *Workers*: two claims make a race and an order of promotions, two scores a
better and a worse challenger; heartbeats age at any time. The part `service` has two
incarnations under READ COMMITTED. *Coordinator*: `MaxSlow` bounds the jobs that outlive
their lease, `MaxFaults` the faults, `MaxFailures` is the circuit's threshold.
*Elsewhere*: two concurrent users of each lock or file and one resource they compete for,
three where a third can overtake two (`Downloads`, `Attempts`, `AccountIds`); every process
may end between any two of its writes, unboundedly unless a constant named `Max...`
bounds it; a limit (`MaxOpen`, `Capacity`, `KeptLocal`, `MAX_ATTEMPTS`, ...) is 1 or 2, so
that it is reached and passed; clocks and counters run to where every comparison has been
on both sides. `KeptArchive` is 2: with 1, a crash between the two writes of a retirement
makes the archive forget the older account (the code keeps 40).

What the properties say:

- `FilledOnce`, `LedgerIsSound`: replays, retries and crashes neither lose nor repeat a
  fill, the daily cap counts, and rebases and resets leave no trace of the old books.
- `GatesCompose` (with `AccountIsSound`): a fill leaves the account within limits *after*
  the mark it makes; a breach leaves a stop or a refusal whoever sees it first; a move
  across midnight counts.
- `StopHoldsUntilExplicitStart`, `RunnerHolds`, `OperatorStarts`: a stop holds through
  restarts, rebases, resets, repairs, faults (outside the window in which a restart has
  already read a fresh switch, section 4); a runner reaches its cycles only in agreement
  and sends nothing past an open order.
- `OrdersAreCertain`, `ImplementsOrders`, `SessionIsTrusted`: a submission is never
  repeated, a record never claims what the broker did not do.
- `MirroredOrStopped`: an accepted decision ends at the broker or in a stop.
- `LeasesAreSound`, `PoolIsSound`: what the registry says is running for a live process is
  being worked on; a row fails exactly when it was given back `MaxRetries` times; a restart
  takes back every lease of the process it replaces. A directory or a job file that cannot
  be made is the exception the code leaves.
- `ImplementsLifecycle`, `PromotionsAgree`: with serializable transactions nothing is done
  twice and no champion is worse; with one service, the four steps of a promotion leave
  flag, history and champion.json in agreement wherever it is interrupted.
- `EveryExperimentSettles`, `PoolProgresses`: crashes, stale claims, an open circuit and a
  drain delay the work and do not lose it.
- `EffectsAreCertain`, `CallsAreAccounted`: commands, requests and calls have effect once,
  and none follows one whose outcome is open.
- `NoSilentStall`, `AgentProgresses`: a job, a tick or a shown run does not hang for ever.
- `RunsAreReported`: a fill is told to the call that made it and to no other; a row that
  runs is of a live process, or of one that was killed and not started since.
- `HaltsHold`: no tick passes a halt, errors before a resume do not count after it, no
  history is traded.
- `ValidationIsProtected`, `CandidatesTradeSafely`, `BooksHold`, `NotesAreKept`: the budget
  of protected bars, the observation before a qualification, the exposure of a candidate,
  the fills and the notes survive crashes and the other thread.
- `FeedIsComplete`, `QuotesAdvance`, `BarsAreKept`: what the market said is stored once, in
  order, and is not lost to another writer or to retention.
- `StoredTokenWorks`, `ActiveIsWhole`, `ArtifactsAreTrue`, `BackupsHold`,
  `ReleasesAreUndone`, `EvidenceIsKept`, `ChampionsStand`: files and rows are whole, true
  and kept wherever their writers are cut off.

Fairness. For demo execution `FairSpec` adds weak fairness of each process's own next step
(`StartStep` or `CycleStep`): a process that runs goes on, its timeouts included, which is
what the single-threaded loop and `completed.wait(timeout_seconds)` give. Nothing is
assumed of the broker, of launches, proposals or operators. For the workers: the service
loops for ever and is restarted by the system when it dies (weak fairness of `Start` and
of its steps), what it does before a claim does not raise for ever (strong fairness of
`Claim`), and time passes for heartbeats; its last incarnation does not crash. For the
coordinator: the loop goes on, each call of a thread has a timeout, time passes for
leases, and the circuit cools. For the Bits agent and the agent loop: a process that runs
goes on with its own steps, and clocks advance; handlers, workers and workflows owe
nothing. Their units restart on failure after 30 s (`deploy/systemd`), which no property
needs. Nothing is assumed of crashes, drains, restarts or faults.

Deadlock is checked in `paper_one`, `demo_runner`, `workers_shared`, `remote_pool`,
`remote_live` and `remote_finalist`. The others stop when a bound is reached (the clock,
the cycles, the runs), which is the end of the instance and not of the system.

## 4. Findings, and where the properties stop

| run | the code | what it disagrees with |
|---|---|---|
| `feed_ok` | `_error_code(response)` reads an envelope whose payload was not extracted (`live_feed.py:538`), so a refusal has no code and the status becomes ok | "the code has to be read or a refused subscription would be recorded as a confirmed one" (`live_feed.py:535-537`) |
| `remote_finalist` | the result directory is made after `_promote` writes into it (`distributed_compute.py:289`) | finalists reach the holdout and the champion history (`docs/ARCHITECTURE.md:13`) |

Both appear in a sequential use of one process.

**Claims that do not hold.** The modules also define these, each stating what a doc, a
comment or a test says. They are in no run; adding one to the run named shows the
counterexample.

| definition | claim | the code |
|---|---|---|
| `TournamentRunner!TerminalIsFinal`, with `ReadCommitted = TRUE` | "duplicate terminal completion impossible" (`docs/DISCOVERY_AND_SCALING_AUDIT_2026-08-19.md:193`) | recoveries UPDATE by id what they selected as running (`experiment_registry.py:179`) |
| `TournamentRunner!HoldoutReadOnce`, the part `service` | "The holdout is consumed at most once per dataset version" (`tournament_runner.py:153`) | its use is derived from the latest champion alone (`:155`) |
| `DatasetFreeze!EvaluatedOnItsDataset` | the dataset version is part of an experiment's identity (`tests/test_distributed_compute.py:35`) | a local worker reads through the active pointer (`tournament_runner.py:95`, `:216`) |
| `MarketStore!ChildHasWorkingCredential` | "the child is guaranteed a working credential" (`data.py`, `_rerun_in_subprocess`) | a refresh without a new token leaves the old one (`cli.py:809` loads `.env` again) |
| `Backups!RestoreKeepsStop` | "the one guarantee a restore must not break" (`state_backup.py`) | the log is unlinked before the file is replaced (`state_backup.py:92-141`) |
| `LabDataset!ArchiveIsVersion` | an archive is named by its bars (`docs/operator-runbook-codex.md:134`) | dataset and manifest are two writes (`lab.py:257-258`), and the next tick archives the file under the old version (`:244`) |
| `BitsRunner!UncertaintyFailsClosed` | "uncertain submissions or shell outcomes fail closed" (`docs/datadog-connection.md:73`) | a crash between the claim of a job and its note, and a start that is killed after `recover()` and before the cycle is blocked (`bits_runner.py:72-76`): the next one finds no running row, and the cycle goes on |
| `BitsRunner!EscalatesOnConsecutiveMisses` | "Consecutive failed monitor cycles before the risk monitor escalates" (`bits_runner.py:29`) | a good cycle resets `monitor_failures`, and what is counted is `_monitor_failures` (`bits_runner.py:461-463`) |
| `AdvisorCalls!UncertaintyBlocksItsPlanOnly` | "Unavailable historical outcomes block dependent work only" (`research_recovery.py:61`) | stuck plans count in the limit of running ones (`research_program.py:212-216`) |
| `LabTrading!OutsideExposureBlocks` | exposure of others blocks the lab (`docs/operator-runbook-codex.md:59`) | the owner recorded for a former exposure also owns a later one (`lab.py:168`) |
| `EngineLoop!TransitionFilledOnce` | a restart re-proposes the same id (`engine_loop.py:127-129`) | the id is of the newest bar, not of the transition (`:348`, `:405`) |
| `LogRetention!CitedRunsSurvive` | "evidence referenced by durable state do not expire here" (`docs/operator-runbook-database.md`) | runs are deleted without a look at the references (`database_retention.py:148`) |

**Where the properties of section 3 stop.** A run's instance is chosen outside these
behaviours of the specification and of the code.

| property | holds in its run because | otherwise |
|---|---|---|
| `LedgerIsSound` (its daily cap) | one caller commits in the order of its clock | with two `Callers`, the call that read the clock before midnight may commit last; the day rolls back and the counter is reset (`paper_trading.py:508`) |
| `StopHoldsUntilExplicitStart`, the demo stop of `RunnerHolds` | the window of a restart is excluded | `maybe_resume` clears a switch it read in an earlier transaction, an operator's stop in between included (`paper_trading.py:374-382`) |
| `RunnerHolds` (resolved before sending) | only runners send, and they reconcile first | with an agent in `Agents`, whose start does not reconcile (`cli.py:341-347`), an order may leave while another is open |
| `RunnerHolds` (agreed when ready) | it is said of runs without a fault or a rebase before, and no agent trades beside the reconciliation | `mark_reconciled` does not look again at what it vouches for (`ctrader_demo.py:736`) |
| `RunnerHolds` (nothing past an open order) | its instance has at most one fault and no operator | a cycle that fails twice, when it records its order and when it stops, leaves a ready runner with a pending record; an operator who starts demo after a runner stopped it lets that runner send past the order it left open |
| `MirroredOrStopped` | it is said of runs without a fault or a rebase | audit and the two stops run in a row, and one exception skips the rest (`demo_execution.py:128-132`) |
| `EffectsAreCertain` | it leaves out a command whose row a killed start had marked | `UncertaintyFailsClosed`, above |
| `ImplementsLifecycle` | `ReadCommitted = FALSE` | two promotions compare with the same champion before either inserts (`experiment_registry.py:277`) |
| `PoolIsSound` (recovery) | `Overlapping = {}` | `NOT LIKE '<prefix><pid>%'` also spares a replaced process whose pid begins with the new one's digits (`distributed_compute.py:342`) |

**Met on the way.** Behaviours of the code that the modules have, that no property judges,
and that a maintainer may want to know: a stop that the Bits monitor sees leaves
`jobs.cancelled` set for good. Pruning of transcripts and jobs by count ignores
references. A draft resolved without a base may overwrite what another rejected write
added; a tombstone drops `evidence_omitted`. An analysis call whose outcome is unknown can
never be closed, and a crash between the record of a finding and `learn` leaves it
unbound. `verify_pending` runs outside the install lock; an edit between a check and its
write is lost; a rollback stops half-way on a damaged backup, and a conflict leaves the
release pending. In the bar store a forming bar may overwrite a closed one, a page whose
name exists is skipped, and a rebuild replaces what the feed appended meanwhile. Two
backups of one second share a directory; the tournament's latest.json may dangle; a
restore assumes that nobody uses the database. A crash between the archive and the list of
accounts archives twice. A frame without the broker's time is compared by its receipt
alone. A bar that is replayed after a newer one was stored is
dropped (`live_feed.py:285-287`): `FeedIsComplete` speaks of the bars heard of in time.
An overlapping daily attempt overwrites status.json (`automation.py:161-177`). The
child's directory is removed before its result is read (`data.py:553-580`).

## 5. What is proved

TLAPS checks eight modules, for every value of the constants that satisfies the
assumptions of the modules they extend (`ConfigAssumption`, `ExecutionAssumption`,
`RegistryAssumption`, `RunnerAssumption`, `ComputeAssumption`, `FreezeAssumption`,
`TokensAssumption`, `SessionAssumption`, `MarketAssumption`, `BitsAssumption`,
`EngineAssumption`, `TradingAssumption`, `AgentAssumption`, `BackupsAssumption`,
`QuotesAssumption`, `ResearchAssumption`, `CohortsAssumption`, `AccountsAssumption`,
`FeedAssumption`, `ReleaseAssumption`, `AdvisorAssumption`): any callers, ids, proposals, limits and days; any
runners, agents and operators; any experiments, workers, threads and process ids; any
freezes, downloads, connections, bars, archive pages, candidates, lab accounts, datasets,
backups, releases, plans and calls of the advisor, runs of the agent, actions and cycles
of Bits. TLC evaluates these
assumptions in the runs. The only one that compares two limits of the code is
`KeptArchive >= Capacity` of the lab's accounts (40 and 4), with those of
`BitsAssumption` (section 2). Where a theorem needs more (`~ReadCommitted`,
`Overlapping = {}`, `Clis = {}`, one caller, `OneRunner`, `OneFault`, finitely many
decision ids) it
says so in its `ASSUME`, and section 4 says what happens otherwise.

| theorem | states | inductive invariant |
|---|---|---|
| `AccountStaysSound`, `FillsAreUnique`, `StopsHold` | `AccountIsSound`, `FilledOnce`, `StopHoldsUntilExplicitStart` | `AccountInv` |
| `AccountImplementsContract` | `ImplementsContract`, a refinement of `PaperContract` | `AccountInv` |
| `GatesStayComposed` | `GatesCompose` | `AccountInv`, `AccountIsRead` |
| `LedgerStaysExplained`, `LedgerStaysSound` | the books for any callers; `LedgerIsSound` for one | `AccountInv`, `AccountIsRead`, `Explained`; `InTime`, `Counted` |
| `OrdersStayCertain` | `OrdersAreCertain` | `ExecutionInv` |
| `ExecutionImplementsOrders` | `ImplementsOrders`, a refinement of `OrderContract` | `ExecutionInv`, `OneOwner` |
| `HandsStayLawful`, `OnlyAcceptedIsSent`, `DemoStopsHold` | parts of `RunnerHolds`, for any processes | `HandInv` |
| `AgreementStays`, `RunnerAgrees`, `RunnerStaysSound` | `RunnerHolds`, for one runner | `HandInv`, `AgreeInv`, `ResolvedInv` |
| `LeasesStaySound` | `LeasesAreSound`, either isolation level | `LeaseInv` |
| `RegistryImplementsLifecycle`, `TerminalStaysFinal`, `ChampionsGetBetter` | `ImplementsLifecycle` for the workers, serializable | `LeaseInv` |
| `PromotionsStayAgreed` | `PromotionsAgree`, either isolation level, no command line runs | `LeaseInv`, `PromotionInv` |
| `LeasesAreNotStranded` | `NoStrandedLease`, either isolation level | `PoolInv` |
| `PoolStaysSound` | `PoolIsSound`, serializable and without overlapping pids | `PoolInv`, `RetryLimitHolds`, `Recovered` |
| `PoolImplementsLifecycle` | `ImplementsLifecycle` for the coordinator, serializable | `PoolInv` |
| `ActiveStaysWhole` | `ActiveIsWhole` | `FreezeInv` |
| `ArtifactsStayTrue` | `ArtifactsAreTrue` | `ArtifactsInv` |
| `StoredTokenStaysGood` | `StoredTokenWorks` | `CredentialInv` |
| `SessionStaysTrusted` | `SessionIsTrusted` | `SessionInv` |
| `BarsStayKept` | `BarsAreKept` | `MarketInv` |
| `BackupsStayWhole` | `BackupsHold` | `BackupsInv` |
| `EvidenceStaysKept` | `EvidenceIsKept` | `LogsInv` |
| `QuotesStayOrdered` | `QuotesAdvance` | `QuotesInv` |
| `ChampionsStayBeaten` | `ChampionsStand` | `ResearchInv` |
| `FeedStaysComplete` | `FeedIsComplete` | `FeedInv` |
| `ReleasesStayUndone` | `ReleasesAreUndone` | `InstallInv` |
| `EffectsStayCertain` | `EffectsAreCertain` | `BitsInv` |
| `EngineHoldsHalts` | `HaltsHold` | `EngineInv` |
| `CandidatesStaySafe` | `CandidatesTradeSafely` | `TradingInv` |
| `RunsStayReported` | `RunsAreReported` | `AgentInv` |
| `ValidationStaysProtected` | `ValidationIsProtected` | `CohortsInv` |
| `BooksStayTrue` | `BooksHold` | `AccountsInv` |
| `CallsStayAccounted` | `CallsAreAccounted` | `AdvisorInv` |

**The account.** `AccountSound` proves `AccountInv`, the conjunction of `TypeOK`,
`PositionBound` and `HighWaterDominates`, which is inductive: `LockedIsSound` shows that
whatever the row holds an access starts from a sound account, and the lemmas on `Mark`
and `Fill` that what it saves is sound again, because a fill has passed the position gate
and ends with a mark that raises the high water, and because nothing else but a rebase,
a reset or a repair writes these fields. `FilledOnce` is proved on top of it: a ledger
entry's id is recorded as accepted, so `Evaluate`, which runs only for an unrecorded id,
appends a fresh one. `StopsHold` is an action property, proved with one step per action.
The refinement maps every step to one of the contract's or to a stutter (`ContractStep`):
saves and calls that change neither switch nor books are silent (`SilentSave`,
`SilentCall`), `SwitchSave` covers starts and stops, and `EvaluateContract` and
`MonitorContract` the two transactions that decide. What is shown of demo execution over
the contract therefore holds over the account.
`GatesStayComposed` rests on two facts about the operators: a mark takes the baseline
of a new day from the equity before it (`MarkFields`), and a fill at the price and on the
day of the mark moves neither the equity nor what the limits compare it with
(`FillAtMark`), so what the risk gate found true before the fill is true after it.

`LedgerStaysExplained` says what a sum over the ledger would say, without a sum: a *replay*
of the ledger from a flat account exists, and every replay ends at the account's cash and
position. It is inductive because every access keeps the books, starts them afresh or is
the mark and the fill of one call (`BookStep`); a replay of a longer ledger is one of the
shorter ledger and a last step. The daily cap needs one caller: then the call in progress
read its clock no earlier than the account's day (`InTime`), so the day never goes back
(`DayMonotone`) and the counter is the number of the day's entries (`Counted`).

**Demo execution.** `ExecutionSound` proves `ExecutionInv`: types, and for each process
what its step implies. `AtMostOnce` is not inductive: that a process about to send has
an order never sent follows from the reservation it won, and that no other process holds
the same reservation must be part of the invariant. `OutcomesTrue` needs that a process
about to record has heard the outcome it records, and that a filled or rejected order
never changes again. The refinement of `OrderContract` needs one more fact, `OneOwner`:
from the reservation to the record an order belongs to one process and its record is
pending, so that the record a process writes is the first one.

`HandInv` says what each process holds, whatever runs beside it: it mirrors what paper
accepted, it has no reason that would undo a stop, and it is past a reconciliation when it
starts demo. `AgreeInv` is about one runner. The paper position is the total of what
paper accepted, at most one decision is not yet at the broker, and the runner at work
knows which one. A reconciliation that finds the two exposures equal therefore finds
none: a decision that lags is worth something, so the totals would differ
(`TotalMoves`, `ExposureFinds`). The totals are running totals over a listing of the
ids; a fact about all of them is proved from the least position at which it would fail
(`LeastExists`, `RunsExist`, `TotalIsLast`). `ResolvedInv` adds what is left open when an
access fails: with one fault in all, a runner that left an order open has found the stop
on its way out.

**The workers.** `WorkersSound` proves `LeaseInv` for either isolation level. That a live
worker works on what it holds is inductive only together with where it may be: a process
between two experiments holds nothing, a busy one holds at most its job, an unborn one
never owned a row, and a recovery that is half-way belongs to a process that holds
nothing. The lemmas `ResetKeeps`, `BusyKeeps` and `GotoKeeps` show this for the three
shapes of a step, `PromoteKeeps` (in `Promotion_proofs`) for `_promote`. With serializable
transactions every step is one of `ExperimentLifecycle`'s or leaves rows and history alone
(`NextSteps`); the refinement, `TerminalStaysFinal` and `ChampionsGetBetter` follow.
`PromotionInv` is about the service alone: one of its incarnations is up at a time, so the
champion that a process compared with is still the champion when it inserts its own, even
in the two steps of READ COMMITTED. Its place in `_promote` tells what it found and did
(`PromoterOK`): between the row of the champion and champion.json the latest champion is
its job, and a flag that is written at the end is the latest champion's or is cleared.

**The coordinator.** Its worker ids are used again: the id of a claim counts the futures
at that moment, so two threads may hold the same one, and a lease taken back when it was
stale may be claimed again under it. `PoolInv` says nothing of ids being distinct; it
says that each row running for this process, but for those whose job file could not be
written, has *some* busy thread with that job and that id. That is inductive because a
thread leaves a row only by finishing it, by giving it back, or after finding that it is
not the owner, and because what runs was claimed by this process or by one before it
(`OwnedByNow`), which a restart leaves behind. `LeasesKept` is the common step;
`FreeThreadId` shows, by cardinalities, that the id of a claim is one of the pool's.
With serializable transactions each step is one of the registry's transactions
(`RowSteps`), from which the retry limit, the recovery at the start and the refinement
of `ExperimentLifecycle` (`RowStepMaps`) follow.

**Datasets and artifacts.** `FreezeInv` says what each freeze has found written at each
of its steps, and that a manifest is only in a directory that has the bars: the pointer
is right because of the order of the writes. `ArtifactsInv` says that a plan, an
application and a journal name only experiments that are completed and not kept, and
that such an experiment stays so: a plan that is old when it is applied is still right.

**The broker.** `CredentialInv`: a token on its way to the file is carried by one process
alone (`CarriedAlone`), nobody else has one to refresh with, and what was read under the
lock is what the file holds. `SessionInv`: messages on the wire say what the broker has
done for good, and a request that is still held is for an order it has not seen, so
nothing that settled is taken again after a reconnection.

**The bar store.** `MarketInv`: a writer past the lock has read what the store holds, so
its swap loses no bar of another's; what a job is about to store is archived or still in
its list. That two pages of one name may stand for each other is not in the code; it
holds because each page has every minute with a bar between its ends (`PageIsWhole`).
A plan of deletion stays right however late it is applied. `Before`, the order in which a
rebuild replays pages, is a strict order: when a page goes that another relied on, its
own bars are in a later one still (`StillSpared`), and the last page of those that hold a
minute, which exists because the archive is finite (`LatestExists`), gives the same bar
as before (`SparedIsLossless`).

**Files.** `BackupsInv` says of each backup how far its writer has come, and that `latest`
names one that was completed and is not about to be deleted: retention spares the newest
ones, and the newest exist because there are finitely many (`NewestExists`,
`NewestAreSpared`, `SurvivorsStay`). `LogsInv`: what a rotation has taken so far was old
and not referred to when it looked, and a run goes only after its steps. `QuotesInv` and
`ResearchInv` relate what a process has read to what is stored now; a quote is written
under the lock its history was written under, and an attempt that replaces a champion has
compared with one that still stands.
`FeedInv`: each bar heard of in time is stored, excused, or the bar in hand, which is newer
than anything written (`PersistBarKeeps`, `ArrivalKeeps`). A refused write, an end of the
process and a subscription that was not answered are the excuses the code leaves.
`InstallInv`: one release is in flight at a time (`Control`), the files it does not name
are as they should be (`Elsewhere`), and of its own files each step has made a known
part, except for those that the operator edited since they were last compared
(`Checked`). A rollback thus finds each file as the release left it, as it was before, or
in conflict.

**The Bits agent.** `BitsInv` has two arguments. One is about rows: a row is written
before its command runs, so a command that ran and has no row is one that `prune` or a
reset has deleted. `OrderInv` shows that `prune` never deletes a row of the cycle that is
under way: these rows are the newest, and there are at most as many as the cycle has
steps. A cycle's id is a new one, so an action whose row is gone is not asked for again.
The other is about uncertainty: a command without a known outcome keeps the cycle
(`Holds`). The cycle is blocked, or waits for that very job, or is about to be blocked by
whoever is up or starts next. It needs that a thread is alive only for the job the cycle
waits for, or for one of a cycle that is over, so that a result written late, by a thread
that outlived the lock, never makes another command's outcome open; and that who is up
holds the lock, so that there is one such process.

**Engine and lab.** `EngineInv` relates what a tick read (halt, newest bar) to what was
proposed: a tick past its gates saw no halt and has no errors at the limit, and what was
proposed lies between the history at the start and what was observed. `TradingInv`
relates the promotion that is under way, or the trade, to the pointer and to whoever
opened the exposure: between the check that the account is flat and the promotion only
others can have opened one. `AgentInv` relates the row of a run to the process that
wrote it: the row of a run that is on says so unless another start has contested it, a row
that runs is of the process that is in that run, or its writer was killed and not started
since; and a fill that a tool call is told of was made for the id which
that call alone has.

`CohortsInv`: the budget may be reset while the old dataset is still there, but then its
cohort is due and no job starts on it; a dataset is archived before its file is replaced.
`AccountsInv`: a thread that is in a call has the lock, what it took from the list is among
the last entries of the archive, of which `KeptArchive` are kept, and what another thread
could have changed since is nothing. `AdvisorInv`: while a call is in
hand, from its reservation to its act, no other call of its command is open; a command has
run at most as often as it has calls that may have run, and the call in hand is not one of
them before it acts. A completed variant names a completed call, so a closed plan
leaves nothing uncertain.

**Only model-checked.** Liveness under fairness, which TLAPS does not cover
(`MirroredOrStopped`, `EveryExperimentSettles`, `PoolProgresses`, `NoSilentStall`,
`AgentProgresses`). `NotesAreKept`: what a saved text keeps of another is said by
`SelectSeq`, a recursive definition, and needs an induction over sequences.
Two properties are instances of what is proved: `CallersKeepContract` (several callers) of
`AccountImplementsContract`, and `OperatorStarts` (an operator beside a runner, no failing
access) of `RunnerStaysSound`. What fails under READ COMMITTED is proved for serializable
transactions only.

## 6. What is not modelled

Floating-point rounding, JSON encoding, the SQLite, DuckDB and CockroachDB engines (a
transaction is atomic), the broker's protocol encoding, the market's weekends and holidays,
the sizes and formats of prompts. Indicators, back-tests, searches, statistics and cost
models are numeric and stay with their tests. Dashboards and reports read and write
nothing others use. The authorisation in a browser, account discovery and the volume
policy are checks before anything is shared. Datadog's and the model provider's side are
a free answer. The components listed as `partly` in PROJECT.json name what each leaves out.

The two kinds of workers are modelled on one registry each and not composed: the
service's `recover_other_workers` also takes the coordinator's leases back.

## 7. Plan

Both kinds of workers on one registry: one service, one thread, one experiment.
