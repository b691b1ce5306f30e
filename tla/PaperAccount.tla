---------------------------- MODULE PaperAccount ----------------------------
(***************************************************************************)
(* The simulated account of paper_trading.py on its local SQLite store.    *)
(*                                                                         *)
(* Several callers (the agent, the engine, the research harness, an        *)
(* operator's command) share one persisted account.  A caller reads the    *)
(* clock and its market observation first and calls the account later; the *)
(* call itself is one transaction (BEGIN IMMEDIATE ... COMMIT), and what   *)
(* other callers do in between is free.  maybe_resume and session_reset    *)
(* read the account in one transaction and write it in another.            *)
(*                                                                         *)
(* Time counts ticks.  Prices, cash and quantities are integers; the       *)
(* average entry price and the realized profit, which no gate reads, are   *)
(* left out.  The texts of results are reduced to accepted or refused.     *)
(***************************************************************************)
EXTENDS Integers, Sequences, FiniteSets, KillSwitch

CONSTANTS
    Callers,            \* processes and threads that use the account
    DecisionIds,        \* idempotency keys of proposals
    Proposal,           \* [DecisionIds -> Proposals]: what each key proposes
    Prices,             \* observable prices
    InitialCash,        \* PAPER_INITIAL_CASH
    RebaseCash,         \* the cash an operator may rebase to
    DailyLossLimit,     \* PAPER_DAILY_LOSS_LIMIT
    DrawdownPercent,    \* PAPER_MAX_DRAWDOWN, in percent
    MaxPosition,        \* PAPER_MAX_POSITION
    MaxTradesPerDay,    \* PAPER_MAX_TRADES_PER_DAY
    MaxAge,             \* PAPER_MAX_MARKET_DATA_AGE_SECONDS, in ticks
    Bar,                \* BAR_INTERVAL_SECONDS, in ticks
    TicksPerDay,        \* a UTC day, in ticks
    ClosedTicks,        \* ticks of a day at which the market is closed
    MaxTime             \* bound of the clock

Proposals == [valid : BOOLEAN, buy : BOOLEAN, quantity : Nat \ {0}]

\* PaperRiskConfig.validate and the checks on initial_cash and on a rebase.
ASSUME ConfigAssumption ==
    /\ Proposal \in [DecisionIds -> Proposals]
    /\ Prices \subseteq Nat \ {0}
    /\ InitialCash \in Nat \ {0}
    /\ RebaseCash \in Nat \ {0}
    /\ DailyLossLimit \in Nat \ {0}
    /\ DrawdownPercent \in 1 .. 100
    /\ MaxPosition \in Nat \ {0}
    /\ MaxTradesPerDay \in Nat \ {0}
    /\ MaxAge \in Nat
    /\ Bar \in Nat \ {0}
    /\ TicksPerDay \in Nat \ {0}
    /\ ClosedTicks \subseteq Nat
    /\ MaxTime \in Nat

VARIABLES
    now,            \* the wall clock
    row,            \* the account's row: "missing", "corrupt" or "present"
    account,        \* the account the row holds, when it is present
    decisions,      \* paper_trading_decisions: the result of each decision id
    observations,   \* the monitor's keys in the same table
    call            \* what each caller has read and not yet committed

vars == <<now, row, account, decisions, observations, call>>

-----------------------------------------------------------------------------
(* The persisted account. *)

Times == 0 .. MaxTime
NoDay == -1
Day(t) == t \div TicksPerDay
Fills == [id : DecisionIds, signed : Int, price : Int, day : Int]

Accounts ==
    [switch : Switches, cash : Int, position : Int, mark : Int,
     highWater : Int, day : Int, dayStart : Int, tradesToday : Nat,
     ledger : Seq(Fills)]

DefaultAccount(cash, switch) ==
    [switch |-> switch, cash |-> cash, position |-> 0, mark |-> 0,
     highWater |-> cash, day |-> NoDay, dayStart |-> cash,
     tradesToday |-> 0, ledger |-> << >>]

Stopped(reason) == [stopped |-> TRUE, reason |-> reason]
Started(reason) == [stopped |-> FALSE, reason |-> reason]

\* What every access reads, and saves when the row was missing or corrupt.
LockedState ==
    CASE row = "missing" -> DefaultAccount(InitialCash, FreshSwitch)
      [] row = "corrupt" -> DefaultAccount(InitialCash, Stopped("corrupt_state"))
      [] OTHER           -> account

Save(a) == row' = "present" /\ account' = a

Equity(a) == a.cash + a.position * a.mark

\* A plausible bug: the day's baseline taken after the first mark of the day.
MutantBaselineAfterMark(a, price, t) ==
    LET marked == [a EXCEPT !.mark = price]
        rolled == IF a.day = Day(t) THEN marked
                  ELSE [marked EXCEPT !.day = Day(t), !.tradesToday = 0,
                                      !.dayStart = Equity(marked)]
    IN  IF Equity(marked) > a.highWater
        THEN [rolled EXCEPT !.highWater = Equity(marked)]
        ELSE rolled

\* A plausible bug: the high water is raised before the new price is applied.
MutantStaleHighWater(a, price, t) ==
    LET marked == [a EXCEPT !.mark = price]
        rolled == IF a.day = Day(t) THEN marked
                  ELSE [marked EXCEPT !.day = Day(t), !.tradesToday = 0,
                                      !.dayStart = Equity(a)]
    IN  IF Equity(a) > a.highWater
        THEN [rolled EXCEPT !.highWater = Equity(a)]
        ELSE rolled

\* _mark: a new day starts from the equity at the last mark of the day before.
Mark(a, price, t) ==
    LET marked == [a EXCEPT !.mark = price]
        rolled == IF a.day = Day(t) THEN marked
                  ELSE [marked EXCEPT !.day = Day(t), !.tradesToday = 0,
                                      !.dayStart = Equity(a)]
    IN  IF Equity(marked) > a.highWater
        THEN [rolled EXCEPT !.highWater = Equity(marked)]
        ELSE rolled

DailyLossBreached(a) == a.dayStart - Equity(a) >= DailyLossLimit
DrawdownBreached(a) ==
    100 * (a.highWater - Equity(a)) >= DrawdownPercent * a.highWater
Breached(a) == DailyLossBreached(a) \/ DrawdownBreached(a)

-----------------------------------------------------------------------------
(* The gates of an evaluation, in the order of _gate. *)

MarketIsOpen(t) == t % TicksPerDay \notin ClosedTicks

ObservationIsFuture(observed, t) == observed + Bar > t + Bar

\* The age counts from the bar's close and is clamped at zero.
IsStale(observed, t) == t - (observed + Bar) > MaxAge

SignedQuantity(id) ==
    IF Proposal[id].buy THEN Proposal[id].quantity ELSE -Proposal[id].quantity

\* A plausible bug: the kill switch is not consulted before a fill.
MutantIgnoresSwitch(a, id, observed, t) ==
    \/ ~Proposal[id].valid
    \/ ~MarketIsOpen(t)
    \/ ObservationIsFuture(observed, t)
    \/ IsStale(observed, t)

\* The gates that refuse before the price of the proposal is marked.
RefusedUnmarked(a, id, observed, t) ==
    \/ a.switch.stopped
    \/ ~Proposal[id].valid
    \/ ~MarketIsOpen(t)
    \/ ObservationIsFuture(observed, t)
    \/ IsStale(observed, t)

\* A plausible bug: the bound is checked on a long position only.
MutantLongBoundOnly(a, id) ==
    \/ a.tradesToday >= MaxTradesPerDay
    \/ a.position + SignedQuantity(id) > MaxPosition
    \/ Breached(a)

\* A plausible bug: the number of trades is compared with the wrong operator.
MutantTradesOffByOne(a, id) ==
    \/ a.tradesToday > MaxTradesPerDay
    \/ a.position + SignedQuantity(id) \notin -MaxPosition .. MaxPosition
    \/ Breached(a)

\* A plausible bug: the drawdown gate is dropped.
MutantNoDrawdown(a, id) ==
    \/ a.tradesToday >= MaxTradesPerDay
    \/ a.position + SignedQuantity(id) \notin -MaxPosition .. MaxPosition
    \/ DailyLossBreached(a)

\* The risk gates, on the account already marked at the proposal's price.
RefusedByRisk(a, id) ==
    \/ a.tradesToday >= MaxTradesPerDay
    \/ a.position + SignedQuantity(id) \notin -MaxPosition .. MaxPosition
    \/ Breached(a)

\* A plausible bug: the cash of a fill moves in the wrong direction.
MutantCashSign(a, id, price, t) ==
    LET signed == SignedQuantity(id)
    IN  Mark([a EXCEPT
                 !.cash = @ + signed * price,
                 !.position = @ + signed,
                 !.tradesToday = @ + 1,
                 !.ledger = Append(@, [id |-> id, signed |-> signed,
                                       price |-> price, day |-> Day(t)])],
             price, t)

\* _fill: cash, position, count and ledger, and the fill's price as the mark.
Fill(a, id, price, t) ==
    LET signed == SignedQuantity(id)
    IN  Mark([a EXCEPT
                 !.cash = @ - signed * price,
                 !.position = @ + signed,
                 !.tradesToday = @ + 1,
                 !.ledger = Append(@, [id |-> id, signed |-> signed,
                                       price |-> price, day |-> Day(t)])],
             price, t)

-----------------------------------------------------------------------------
(* The calls in progress. *)

NoCall == [op |-> "none"]
ResumeCall == [op |-> "resume"]
ResetCall == [op |-> "reset"]
EvaluateCalls ==
    [op : {"evaluate"}, id : DecisionIds, price : Prices, observed : Times,
     at : Times]
MonitorCalls ==
    [op : {"monitor"}, price : Prices, observed : Times, at : Times]
Calls == {NoCall, ResumeCall, ResetCall} \cup EvaluateCalls \cup MonitorCalls

NoDecisions == [id \in DecisionIds |-> "none"]

Init ==
    /\ now = 0
    /\ row = "missing"
    /\ account = DefaultAccount(InitialCash, FreshSwitch)
    /\ decisions = NoDecisions
    /\ observations = {}
    /\ call = [c \in Callers |-> NoCall]

Begin(c, request) ==
    /\ call[c] = NoCall
    /\ call' = [call EXCEPT ![c] = request]

End(c) == call' = [call EXCEPT ![c] = NoCall]

Tick ==
    /\ now < MaxTime
    /\ now' = now + 1
    /\ UNCHANGED <<row, account, decisions, observations, call>>

\* A caller has read the market and the clock and is about to propose.
BeginEvaluate(c, id, price, observed) ==
    /\ Begin(c, [op |-> "evaluate", id |-> id, price |-> price,
                 observed |-> observed, at |-> now])
    /\ UNCHANGED <<now, row, account, decisions, observations>>

\* The store has the decision already: the recorded result is returned.
Replay(c) ==
    /\ call[c] \in EvaluateCalls
    /\ decisions[call[c].id] # "none"
    /\ End(c)
    /\ UNCHANGED <<now, row, account, decisions, observations>>

\* A plausible bug: a result is looked up but a duplicate is evaluated again.
MutantEvaluateTwice(c) ==
    /\ call[c] \in EvaluateCalls
    /\ LET id     == call[c].id
           price  == call[c].price
           t      == call[c].at
           marked == Mark(LockedState, price, t)
       IN  \/ /\ RefusedUnmarked(LockedState, id, call[c].observed, t)
              /\ Save(LockedState)
              /\ decisions' = [decisions EXCEPT ![id] = "refused"]
           \/ /\ ~RefusedUnmarked(LockedState, id, call[c].observed, t)
              /\ RefusedByRisk(marked, id)
              /\ Save(marked)
              /\ decisions' = [decisions EXCEPT ![id] = "refused"]
           \/ /\ ~RefusedUnmarked(LockedState, id, call[c].observed, t)
              /\ ~RefusedByRisk(marked, id)
              /\ Save(Fill(marked, id, price, t))
              /\ decisions' = [decisions EXCEPT ![id] = "accepted"]
    /\ End(c)
    /\ UNCHANGED <<now, observations>>

\* evaluate: the gates and the fill on the account as it is when the
\* transaction runs, at the clock and the observation the caller read.
Evaluate(c) ==
    /\ call[c] \in EvaluateCalls
    /\ decisions[call[c].id] = "none"
    /\ LET id     == call[c].id
           price  == call[c].price
           t      == call[c].at
           marked == Mark(LockedState, price, t)
       IN  \/ /\ RefusedUnmarked(LockedState, id, call[c].observed, t)
              /\ Save(LockedState)
              /\ decisions' = [decisions EXCEPT ![id] = "refused"]
           \/ /\ ~RefusedUnmarked(LockedState, id, call[c].observed, t)
              /\ RefusedByRisk(marked, id)
              /\ Save(marked)
              /\ decisions' = [decisions EXCEPT ![id] = "refused"]
           \/ /\ ~RefusedUnmarked(LockedState, id, call[c].observed, t)
              /\ ~RefusedByRisk(marked, id)
              /\ Save(Fill(marked, id, price, t))
              /\ decisions' = [decisions EXCEPT ![id] = "accepted"]
    /\ End(c)
    /\ UNCHANGED <<now, observations>>

\* monitor refuses closed, future and stale observations before the store.
BeginMonitor(c, price, observed) ==
    /\ MarketIsOpen(now)
    /\ ~ObservationIsFuture(observed, now)
    /\ ~IsStale(observed, now)
    /\ Begin(c, [op |-> "monitor", price |-> price, observed |-> observed,
                 at |-> now])
    /\ UNCHANGED <<now, row, account, decisions, observations>>

\* An observation is marked once; marking it again returns the first result.
ReplayMonitor(c) ==
    /\ call[c] \in MonitorCalls
    /\ <<call[c].observed, call[c].price>> \in observations
    /\ End(c)
    /\ UNCHANGED <<now, row, account, decisions, observations>>

\* A plausible bug: the monitor stops on a daily loss and forgets the drawdown.
MutantMonitorDailyOnly(c) ==
    /\ call[c] \in MonitorCalls
    /\ <<call[c].observed, call[c].price>> \notin observations
    /\ LET marked == Mark(LockedState, call[c].price, call[c].at)
       IN  Save(IF DailyLossBreached(marked) /\ ~marked.switch.stopped
                THEN [marked EXCEPT !.switch = Stopped("risk_limit")]
                ELSE marked)
    /\ observations' = observations \cup {<<call[c].observed, call[c].price>>}
    /\ End(c)
    /\ UNCHANGED <<now, decisions>>

\* A plausible bug: the stop persists the gate's own name as its reason.
MutantMonitorGateReason(c) ==
    /\ call[c] \in MonitorCalls
    /\ <<call[c].observed, call[c].price>> \notin observations
    /\ LET marked == Mark(LockedState, call[c].price, call[c].at)
       IN  Save(IF Breached(marked) /\ ~marked.switch.stopped
                THEN [marked EXCEPT !.switch = Stopped("DAILY_LOSS_LIMIT")]
                ELSE marked)
    /\ observations' = observations \cup {<<call[c].observed, call[c].price>>}
    /\ End(c)
    /\ UNCHANGED <<now, decisions>>

\* monitor: mark the observation and persist a stop when a limit is breached.
Monitor(c) ==
    /\ call[c] \in MonitorCalls
    /\ <<call[c].observed, call[c].price>> \notin observations
    /\ LET marked == Mark(LockedState, call[c].price, call[c].at)
       IN  Save(IF Breached(marked) /\ ~marked.switch.stopped
                THEN [marked EXCEPT !.switch = Stopped("risk_limit")]
                ELSE marked)
    /\ observations' = observations \cup {<<call[c].observed, call[c].price>>}
    /\ End(c)
    /\ UNCHANGED <<now, decisions>>

-----------------------------------------------------------------------------
(* The kill switch, the operator and the store. *)

SetKillSwitch(switch) ==
    /\ Save([LockedState EXCEPT !.switch = switch])
    /\ UNCHANGED <<now, decisions, observations, call>>

\* `paper start`
Start == SetKillSwitch(Started("explicit_start"))

\* `paper stop` under any reason, and the stops of the agent's start and of the
\* harness (missing_credentials, recovery_failed), which nothing tells apart.
Stop == SetKillSwitch(Stopped("operator"))

\* maybe_resume, first transaction: only a fresh account goes on.
BeginResume(c) ==
    /\ Save(LockedState)
    /\ RestartPolicy(LockedState.switch) = "resume"
    /\ Begin(c, ResumeCall)
    /\ UNCHANGED <<now, decisions, observations>>

\* maybe_resume, second transaction: the switch is set without being read.
Resume(c) ==
    /\ call[c] = ResumeCall
    /\ Save([LockedState EXCEPT !.switch = Started("unattended_start")])
    /\ End(c)
    /\ UNCHANGED <<now, decisions, observations>>

\* state(): a read saves the row it had to repair.
ReadState ==
    /\ row # "present"
    /\ Save(LockedState)
    /\ UNCHANGED <<now, decisions, observations, call>>

\* A plausible bug: an account is rebased while it holds a position.
MutantRebaseExposed(cash) ==
    /\ row # "missing"
    /\ Save(DefaultAccount(cash, LockedState.switch))
    /\ decisions' = NoDecisions
    /\ observations' = {}
    /\ UNCHANGED <<now, call>>

\* A plausible bug: a rebase leaves the account as if nobody had stopped it.
MutantRebaseFresh(cash) ==
    /\ row # "missing"
    /\ LockedState.position = 0
    /\ Save(DefaultAccount(cash, FreshSwitch))
    /\ decisions' = NoDecisions
    /\ observations' = {}
    /\ UNCHANGED <<now, call>>

\* account_rebase.rebase
Rebase(cash) ==
    /\ row # "missing"
    /\ LockedState.position = 0
    /\ Save(DefaultAccount(cash, LockedState.switch))
    /\ decisions' = NoDecisions
    /\ observations' = {}
    /\ UNCHANGED <<now, call>>

\* reset_paper_session checks the switch, then takes the agent's lock and a
\* backup...
BeginReset(c) ==
    /\ LockedState.switch.stopped
    /\ \A d \in Callers : call[d] # ResetCall
    /\ Save(LockedState)
    /\ Begin(c, ResetCall)
    /\ UNCHANGED <<now, decisions, observations>>

\* ...and deletes the account and its decisions in a later transaction.
ResetSession(c) ==
    /\ call[c] = ResetCall
    /\ Save(DefaultAccount(InitialCash, Stopped("operator")))
    /\ decisions' = NoDecisions
    /\ observations' = {}
    /\ End(c)
    /\ UNCHANGED now

\* The row becomes unusable: unparseable, or missing a key the gates read.
CorruptRow ==
    /\ row = "present"
    /\ row' = "corrupt"
    /\ account' = DefaultAccount(InitialCash, Stopped("corrupt_state"))
    /\ UNCHANGED <<now, decisions, observations, call>>

\* A caller's process dies between its reads and its transaction.
Crash(c) ==
    /\ call[c] # NoCall
    /\ End(c)
    /\ UNCHANGED <<now, row, account, decisions, observations>>

Next ==
    \/ Tick
    \/ Start
    \/ Stop
    \/ ReadState
    \/ Rebase(RebaseCash)
    \/ CorruptRow
    \/ \E c \in Callers :
          \/ \E id \in DecisionIds, price \in Prices, observed \in Times :
                BeginEvaluate(c, id, price, observed)
          \/ Replay(c)
          \/ Evaluate(c)
          \/ \E price \in Prices, observed \in Times :
                BeginMonitor(c, price, observed)
          \/ ReplayMonitor(c)
          \/ Monitor(c)
          \/ BeginResume(c)
          \/ Resume(c)
          \/ BeginReset(c)
          \/ ResetSession(c)
          \/ Crash(c)

Spec == Init /\ [][Next]_vars

-----------------------------------------------------------------------------
(* Properties. *)

\* Every variable stays in its domain.
TypeOK ==
    /\ now \in Times
    /\ row \in {"missing", "corrupt", "present"}
    /\ account \in Accounts
    /\ decisions \in [DecisionIds -> {"none", "accepted", "refused"}]
    /\ observations \subseteq Times \X Prices
    /\ call \in [Callers -> Calls]

\* Two fills never share a decision id, and each one has its accepted decision:
\* a replay, a retry or a second caller with the same id never fills again.
FilledOnce ==
    /\ \A i \in DOMAIN account.ledger : decisions[account.ledger[i].id] = "accepted"
    /\ \A i, j \in DOMAIN account.ledger :
          account.ledger[i].id = account.ledger[j].id => i = j

\* The simulated position never exceeds the configured bound on either side.
PositionBound == account.position \in -MaxPosition .. MaxPosition

\* The high water is never below the account's equity, so a drawdown is never
\* negative: marks raise it, fills trade at the mark, and a rebase resets both.
HighWaterDominates == account.highWater >= Equity(account)

\* The account stays within its bounds, whoever uses it.
AccountIsSound == TypeOK /\ PositionBound /\ HighWaterDominates

\* No day has more fills than MAX_TRADES_PER_DAY, counted on the ledger by the
\* day each fill was evaluated at.
FillsOn(day) == {i \in DOMAIN account.ledger : account.ledger[i].day = day}
DailyTradeCap ==
    \A i \in DOMAIN account.ledger :
        Cardinality(FillsOn(account.ledger[i].day)) <= MaxTradesPerDay

\* The position and the outlay that the fills of a ledger add up to.
Replayed(ledger) ==
    LET upTo[n \in 0 .. Len(ledger)] ==
            IF n = 0 THEN [position |-> 0, spent |-> 0]
            ELSE [position |-> upTo[n - 1].position + ledger[n].signed,
                  spent |-> upTo[n - 1].spent + ledger[n].signed * ledger[n].price]
    IN  upTo[Len(ledger)]

\* The account explains itself: its position and its cash are what the fills of
\* its ledger make of a flat account with the initial or the rebased cash.
LedgerExplains ==
    /\ account.position = Replayed(account.ledger).position
    /\ account.cash + Replayed(account.ledger).spent \in {InitialCash, RebaseCash}

\* The ledger of fills keeps the daily limit and explains the account.
LedgerIsSound == DailyTradeCap /\ LedgerExplains

\* A fill finds a running account and leaves it within both risk limits, at the
\* price of the fill and against the baselines of the fill's own day.
FillKeepsLimits ==
    [][Len(account'.ledger) > Len(account.ledger)
          => ~account.switch.stopped /\ ~Breached(account')]_vars

\* The loss of a day counts from the last mark of the day before: a move over
\* the boundary is not forgiven, whoever observes it first.
BaselineIsLastClose ==
    [][account'.day \notin {account.day, NoDay}
          => account'.dayStart = Equity(LockedState)]_vars

\* No price that takes a running account past a limit is passed over: the step
\* that marks it stops the account or refuses the proposal that brought it.
BreachIsNeverIgnored ==
    [][~Breached(account) /\ Breached(account') /\ ~account'.switch.stopped
          => \E id \in DecisionIds :
                decisions[id] = "none" /\ decisions'[id] = "refused"]_vars

\* The risk gates compose: what one of them leaves to another is caught there.
GatesCompose == FillKeepsLimits /\ BaselineIsLastClose /\ BreachIsNeverIgnored

\* A stop other than a fresh account's holds, whatever restarts, rebases,
\* resets and repairs do, until an explicit start; provided that no unattended
\* restart has already read the account: maybe_resume does not look again.
Held ==
    /\ LockedState.switch.stopped
    /\ LockedState.switch.reason \notin KILL_SWITCH_AUTO_RESUME
    /\ \A c \in Callers : call[c] # ResumeCall
StopHoldsUntilExplicitStart ==
    [][Held => Held' \/ LockedState'.switch = Started("explicit_start")]_vars

\* The account keeps the promises other components rely on.
Contract ==
    INSTANCE PaperContract WITH
        Signed <- [id \in DecisionIds |-> SignedQuantity(id)],
        switch <- LockedState.switch,
        position <- LockedState.position

ImplementsContract == Contract!ContractSpec
=============================================================================
