------------------------- MODULE PaperAccount_proofs -------------------------
(***************************************************************************)
(* Theorems about the paper account, for every number of callers, every    *)
(* set of proposals and every risk configuration.                          *)
(***************************************************************************)
EXTENDS PaperAccount, FiniteSetTheorems, TLAPS

-----------------------------------------------------------------------------
(* What the operators on accounts preserve. *)

\* The day of a time is an integer.
LEMMA DayType ==
    ASSUME NEW t \in Int
    PROVE  Day(t) \in Int
BY ConfigAssumption DEF Day

\* An account that was just created is flat and within its high water.
LEMMA DefaultIsSound ==
    ASSUME NEW cash \in Int, NEW switch \in Switches
    PROVE  LET a == DefaultAccount(cash, switch)
           IN  /\ a \in Accounts
               /\ a.position = 0
               /\ a.ledger = << >>
               /\ a.switch = switch
               /\ a.highWater >= Equity(a)
BY DEF DefaultAccount, Accounts, Equity, NoDay

\* A mark changes neither the position, the switch nor the ledger, and leaves
\* the high water at or above the equity.
LEMMA MarkIsSound ==
    ASSUME NEW a \in Accounts, NEW price \in Int, NEW t \in Int
    PROVE  LET m == Mark(a, price, t)
           IN  /\ m \in Accounts
               /\ m.position = a.position
               /\ m.ledger = a.ledger
               /\ m.switch = a.switch
               /\ m.highWater >= Equity(m)
<1> DEFINE marked == [a EXCEPT !.mark = price]
           rolled == IF a.day = Day(t) THEN marked
                     ELSE [marked EXCEPT !.day = Day(t), !.tradesToday = 0,
                                         !.dayStart = Equity(a)]
<1>1. Day(t) \in Int
  BY DayType
<1>2. Equity(a) \in Int
  BY DEF Accounts, Equity
<1>3. /\ marked \in Accounts
      /\ Equity(marked) \in Int
      /\ marked.position = a.position
      /\ marked.ledger = a.ledger
      /\ marked.switch = a.switch
      /\ marked.highWater = a.highWater
  BY DEF Accounts, Equity
<1>4. /\ rolled \in Accounts
      /\ rolled.position = a.position
      /\ rolled.ledger = a.ledger
      /\ rolled.switch = a.switch
      /\ rolled.highWater = a.highWater
      /\ Equity(rolled) = Equity(marked)
  <2>1. CASE a.day = Day(t)
    BY <1>3, <2>1
  <2>2. CASE a.day # Day(t)
    BY <1>1, <1>2, <1>3, <2>2 DEF Accounts, Equity
  <2> QED BY <2>1, <2>2
<1>5. Mark(a, price, t) = IF Equity(marked) > a.highWater
                          THEN [rolled EXCEPT !.highWater = Equity(marked)]
                          ELSE rolled
  BY DEF Mark
<1>6. a.highWater \in Int
  BY DEF Accounts
<1> HIDE DEF marked, rolled
<1> DEFINE m == Mark(a, price, t)
<1>7. CASE Equity(marked) > a.highWater
  <2>1. m = [rolled EXCEPT !.highWater = Equity(marked)]
    BY <1>5, <1>7
  <2>2. m \in Accounts
    BY <1>3, <1>4, <2>1 DEF Accounts
  <2>3. /\ m.position = a.position
        /\ m.ledger = a.ledger
        /\ m.switch = a.switch
        /\ m.highWater = Equity(marked)
        /\ m.cash = rolled.cash
        /\ m.mark = rolled.mark
        /\ m.position = rolled.position
    BY <1>4, <2>1 DEF Accounts
  <2>4. Equity(m) = Equity(marked)
    BY <1>4, <2>3 DEF Equity
  <2> QED BY <1>3, <2>2, <2>3, <2>4
<1>8. CASE ~(Equity(marked) > a.highWater)
  BY <1>3, <1>4, <1>5, <1>6, <1>8
<1> QED BY <1>7, <1>8

\* The quantity of a proposal is a nonzero integer, negative for a sale.
LEMMA SignedType ==
    ASSUME NEW id \in DecisionIds
    PROVE  SignedQuantity(id) \in Int
BY ConfigAssumption DEF SignedQuantity, Proposals

\* The entry that a fill adds to the ledger.
Entry(id, price, t) ==
    [id |-> id, signed |-> SignedQuantity(id), price |-> price, day |-> Day(t)]

\* A ledger entry is well typed and carries its decision's id.
LEMMA EntryIsFill ==
    ASSUME NEW id \in DecisionIds, NEW price \in Int, NEW t \in Int
    PROVE  Entry(id, price, t) \in Fills /\ Entry(id, price, t).id = id
BY SignedType, DayType DEF Fills, Entry

\* A fill moves the position by the signed quantity and extends the ledger by
\* the one entry of its decision.
LEMMA FillIsSound ==
    ASSUME NEW a \in Accounts, NEW id \in DecisionIds, NEW price \in Int,
           NEW t \in Int
    PROVE  /\ Fill(a, id, price, t) \in Accounts
           /\ Fill(a, id, price, t).position = a.position + SignedQuantity(id)
           /\ Fill(a, id, price, t).switch = a.switch
           /\ Fill(a, id, price, t).ledger = Append(a.ledger, Entry(id, price, t))
           /\ Fill(a, id, price, t).highWater >= Equity(Fill(a, id, price, t))
<1> DEFINE signed == SignedQuantity(id)
           entry == Entry(id, price, t)
           traded == [a EXCEPT !.cash = @ - signed * price,
                               !.position = @ + signed,
                               !.tradesToday = @ + 1,
                               !.ledger = Append(@, entry)]
           filled == Fill(a, id, price, t)
<1>1. signed \in Int /\ entry \in Fills
  BY SignedType, EntryIsFill
<1>2. /\ a.cash \in Int /\ a.position \in Int /\ a.tradesToday \in Nat
      /\ a.ledger \in Seq(Fills)
  BY DEF Accounts
<1>3. filled = Mark(traded, price, t)
  BY DEF Fill, Entry
<1> HIDE DEF entry, signed
<1>4. a.cash - signed * price \in Int /\ a.position + signed \in Int
  BY <1>1, <1>2
<1>5. a.tradesToday + 1 \in Nat /\ Append(a.ledger, entry) \in Seq(Fills)
  BY <1>1, <1>2
<1>6. /\ traded \in Accounts
      /\ traded.position = a.position + signed
      /\ traded.switch = a.switch
      /\ traded.ledger = Append(a.ledger, entry)
  BY <1>4, <1>5 DEF Accounts
<1> HIDE DEF traded, filled
<1>7. /\ filled \in Accounts
      /\ filled.position = traded.position
      /\ filled.ledger = traded.ledger
      /\ filled.switch = traded.switch
      /\ filled.highWater >= Equity(filled)
  BY <1>3, <1>6, MarkIsSound
<1> QED BY <1>6, <1>7 DEF signed, entry, filled

-----------------------------------------------------------------------------
(* The inductive invariant: the row's type, and that the account it holds is   *)
(* within the position bound and its high water.                               *)

AccountInv == TypeOK /\ PositionBound /\ HighWaterDominates

\* An account that may be saved: well typed, bounded, and below its high water.
Sound(a) ==
    /\ a \in Accounts
    /\ a.position \in -MaxPosition .. MaxPosition
    /\ a.highWater >= Equity(a)

\* Whatever the row holds, the account that an access reads may be saved.
LEMMA LockedIsSound ==
    ASSUME AccountInv
    PROVE  Sound(LockedState)
<1>1. FreshSwitch \in Switches /\ Stopped("corrupt_state") \in Switches
  BY DEF FreshSwitch, Switches, Reasons, StopReasons, Stopped
<1>2. InitialCash \in Int /\ MaxPosition \in Nat /\ 0 \in -MaxPosition .. MaxPosition
  BY ConfigAssumption
<1>3. CASE row = "missing"
  BY <1>1, <1>2, <1>3, DefaultIsSound DEF LockedState, Sound
<1>4. CASE row = "corrupt"
  BY <1>1, <1>2, <1>4, DefaultIsSound DEF LockedState, Sound
<1>5. CASE row = "present"
  BY <1>5 DEF LockedState, Sound, AccountInv, TypeOK, PositionBound, HighWaterDominates
<1> QED BY <1>3, <1>4, <1>5 DEF AccountInv, TypeOK

\* Saving a sound account keeps the part of the invariant it is about.
LEMMA SaveIsSound ==
    ASSUME NEW a, Sound(a), Save(a)
    PROVE  /\ row' \in {"missing", "corrupt", "present"}
           /\ account' \in Accounts
           /\ PositionBound'
           /\ HighWaterDominates'
BY DEF Sound, Save, PositionBound, HighWaterDominates, Equity

\* Another switch on a sound account leaves it sound.
LEMMA SwitchIsSound ==
    ASSUME NEW a, Sound(a), NEW switch \in Switches
    PROVE  Sound([a EXCEPT !.switch = switch])
BY DEF Sound, Accounts, Equity

\* A new account is sound.
LEMMA NewIsSound ==
    ASSUME NEW cash \in Int, NEW switch \in Switches
    PROVE  Sound(DefaultAccount(cash, switch))
<1>1. 0 \in -MaxPosition .. MaxPosition
  BY ConfigAssumption
<1> QED BY <1>1, DefaultIsSound DEF Sound

\* A marked account is sound when the account was.
LEMMA MarkedIsSound ==
    ASSUME NEW a, Sound(a), NEW price \in Int, NEW t \in Int
    PROVE  Sound(Mark(a, price, t))
BY MarkIsSound DEF Sound

-----------------------------------------------------------------------------
(* The initial state and the steps.                                            *)

\* The invariant holds at the start.
LEMMA InitIsSound == Init => AccountInv
<1> SUFFICES ASSUME Init PROVE AccountInv
  OBVIOUS
<1>1. FreshSwitch \in Switches
  BY DEF FreshSwitch, Switches, Reasons, StopReasons
<1>2. InitialCash \in Int /\ MaxTime \in Nat
  BY ConfigAssumption
<1>3. Sound(account)
  BY <1>1, <1>2, NewIsSound DEF Init
<1>4. TypeOK
  BY <1>2, <1>3 DEF Init, TypeOK, Sound, Times, NoDecisions, Calls
<1> QED BY <1>3, <1>4 DEF AccountInv, Sound, PositionBound, HighWaterDominates

\* Every switch the program writes is one of the switches.
LEMMA SwitchTypes ==
    /\ FreshSwitch \in Switches
    /\ \A reason \in Reasons :
          Stopped(reason) \in Switches /\ Started(reason) \in Switches
    /\ {"corrupt_state", "operator", "risk_limit", "explicit_start", "unattended_start"}
         \subseteq Reasons
<1>1. /\ "missing_state" \in Reasons
      /\ {"corrupt_state", "operator", "risk_limit", "explicit_start", "unattended_start"}
         \subseteq Reasons
  BY DEF Reasons, StopReasons, StartReasons
<1> QED BY <1>1 DEF FreshSwitch, Stopped, Started, Switches

\* What a call carries while it is in progress.
LEMMA CallTypes ==
    ASSUME AccountInv, NEW c \in Callers
    PROVE  /\ call[c] \in EvaluateCalls =>
                /\ call[c].id \in DecisionIds
                /\ call[c].price \in Prices /\ call[c].price \in Int
                /\ call[c].at \in Int
           /\ call[c] \in MonitorCalls =>
                /\ call[c].price \in Prices /\ call[c].price \in Int
                /\ call[c].observed \in Times
                /\ call[c].at \in Int
<1>1. \A t \in Times : t \in Int
  BY ConfigAssumption DEF Times
<1>2. \A price \in Prices : price \in Int
  BY ConfigAssumption
<1>3. CASE call[c] \in EvaluateCalls
  <2>1. /\ call[c].id \in DecisionIds /\ call[c].price \in Prices
        /\ call[c].at \in Times /\ call[c].op = "evaluate"
    BY <1>3 DEF EvaluateCalls
  <2> QED BY <1>1, <1>2, <2>1 DEF MonitorCalls
<1>4. CASE call[c] \in MonitorCalls
  <2>1. /\ call[c].price \in Prices /\ call[c].observed \in Times
        /\ call[c].at \in Times /\ call[c].op = "monitor"
    BY <1>4 DEF MonitorCalls
  <2> QED BY <1>1, <1>2, <2>1 DEF EvaluateCalls
<1> QED BY <1>3, <1>4

\* A step that saves a sound account and keeps the other variables typed keeps
\* the invariant.
LEMMA SavingStep ==
    ASSUME AccountInv, NEW a, Sound(a), Save(a),
           now' \in Times,
           decisions' \in [DecisionIds -> {"none", "accepted", "refused"}],
           observations' \subseteq Times \X Prices,
           call' \in [Callers -> Calls]
    PROVE  AccountInv'
BY SaveIsSound DEF AccountInv, TypeOK

\* A step that leaves the row and the account alone.
LEMMA IdleStep ==
    ASSUME AccountInv, UNCHANGED <<row, account, decisions, observations>>,
           now' \in Times, call' \in [Callers -> Calls]
    PROVE  AccountInv'
BY DEF AccountInv, TypeOK, PositionBound, HighWaterDominates, Equity

\* A call that begins or ends stays in the calls.
LEMMA CallStep ==
    ASSUME AccountInv, NEW c \in Callers,
           End(c) \/ \E request \in Calls : Begin(c, request)
    PROVE  call' \in [Callers -> Calls]
BY DEF AccountInv, TypeOK, End, Begin, Calls

\* An evaluation keeps the invariant, whichever gate it stops at.
LEMMA EvaluateKeeps ==
    ASSUME AccountInv, NEW c \in Callers, Evaluate(c)
    PROVE  AccountInv'
<1> DEFINE id == call[c].id
           price == call[c].price
           t == call[c].at
           marked == Mark(LockedState, price, t)
<1>1. id \in DecisionIds /\ price \in Int /\ t \in Int
  BY CallTypes DEF Evaluate
<1>2. Sound(LockedState)
  BY LockedIsSound
<1>3. Sound(marked)
  BY <1>1, <1>2, MarkedIsSound
<1>4. ~RefusedByRisk(marked, id) => Sound(Fill(marked, id, price, t))
  BY <1>1, <1>3, FillIsSound DEF RefusedByRisk, Sound
<1>5. /\ now' \in Times /\ observations' \subseteq Times \X Prices
      /\ decisions' \in [DecisionIds -> {"none", "accepted", "refused"}]
  BY <1>1 DEF Evaluate, AccountInv, TypeOK
<1>6. call' \in [Callers -> Calls]
  BY CallStep DEF Evaluate
<1>7. \E a : Sound(a) /\ Save(a)
  BY <1>2, <1>3, <1>4 DEF Evaluate
<1> QED BY <1>5, <1>6, <1>7, SavingStep

\* A mark of the monitor keeps the invariant.
LEMMA MonitorKeeps ==
    ASSUME AccountInv, NEW c \in Callers, Monitor(c)
    PROVE  AccountInv'
<1> DEFINE marked == Mark(LockedState, call[c].price, call[c].at)
<1>1. /\ call[c].price \in Prices /\ call[c].price \in Int
      /\ call[c].at \in Int /\ call[c].observed \in Times
  BY CallTypes DEF Monitor
<1>2. Sound(marked)
  BY <1>1, LockedIsSound, MarkedIsSound
<1>3. Sound([marked EXCEPT !.switch = Stopped("risk_limit")])
  BY <1>2, SwitchTypes, SwitchIsSound
<1>4. \E a : Sound(a) /\ Save(a)
  BY <1>2, <1>3 DEF Monitor
<1>5. /\ now' \in Times
      /\ observations' \subseteq Times \X Prices
      /\ decisions' \in [DecisionIds -> {"none", "accepted", "refused"}]
  BY <1>1 DEF Monitor, AccountInv, TypeOK
<1>6. call' \in [Callers -> Calls]
  BY CallStep DEF Monitor
<1> QED BY <1>4, <1>5, <1>6, SavingStep

\* Every step keeps the invariant.
LEMMA NextKeeps == AccountInv /\ [Next]_vars => AccountInv'
<1> SUFFICES ASSUME AccountInv, [Next]_vars PROVE AccountInv'
  OBVIOUS
<1> USE DEF AccountInv
<1>1. /\ now \in Times
      /\ decisions \in [DecisionIds -> {"none", "accepted", "refused"}]
      /\ observations \subseteq Times \X Prices
      /\ call \in [Callers -> Calls]
  BY DEF TypeOK
<1>2. /\ Sound(LockedState)
      /\ \A reason \in {"operator", "explicit_start", "unattended_start"} :
            /\ Sound([LockedState EXCEPT !.switch = Stopped(reason)])
            /\ Sound([LockedState EXCEPT !.switch = Started(reason)])
  BY LockedIsSound, SwitchIsSound, SwitchTypes
<1>3. NoDecisions \in [DecisionIds -> {"none", "accepted", "refused"}]
  BY DEF NoDecisions
<1>4. CASE Tick
  <2>1. now' \in Times
    BY <1>1, <1>4, ConfigAssumption DEF Tick, Times
  <2> QED BY <1>1, <1>4, <2>1, IdleStep DEF Tick
<1>5. CASE Start
  BY <1>1, <1>2, <1>5, SavingStep DEF Start, SetKillSwitch
<1>6. CASE Stop
  BY <1>1, <1>2, <1>6, SavingStep DEF Stop, SetKillSwitch
<1>7. CASE ReadState
  BY <1>1, <1>2, <1>7, SavingStep DEF ReadState
<1>8. CASE Rebase(RebaseCash)
  <2>1. Sound(DefaultAccount(RebaseCash, LockedState.switch))
    <3>1. LockedState.switch \in Switches
      BY <1>2 DEF Sound, Accounts
    <3>2. RebaseCash \in Int
      BY ConfigAssumption
    <3> QED BY <3>1, <3>2, NewIsSound
  <2> QED BY <1>1, <1>3, <1>8, <2>1, SavingStep DEF Rebase
<1>9. CASE CorruptRow
  <2>1. Sound(account')
    <3>1. Stopped("corrupt_state") \in Switches
      BY SwitchTypes
    <3>2. InitialCash \in Int
      BY ConfigAssumption
    <3> QED BY <1>9, <3>1, <3>2, NewIsSound DEF CorruptRow
  <2> QED BY <1>1, <1>9, <2>1
       DEF CorruptRow, Sound, TypeOK, PositionBound, HighWaterDominates, Equity
<1>10. ASSUME NEW c \in Callers, NEW id \in DecisionIds, NEW price \in Prices,
              NEW observed \in Times, BeginEvaluate(c, id, price, observed)
       PROVE  AccountInv'
  <2>1. \E request \in Calls : Begin(c, request)
    BY <1>1, <1>10 DEF BeginEvaluate, Calls, EvaluateCalls
  <2> QED BY <1>1, <1>10, <2>1, CallStep, IdleStep DEF BeginEvaluate
<1>11. ASSUME NEW c \in Callers, NEW price \in Prices, NEW observed \in Times,
              BeginMonitor(c, price, observed)
       PROVE  AccountInv'
  <2>1. \E request \in Calls : Begin(c, request)
    BY <1>1, <1>11 DEF BeginMonitor, Calls, MonitorCalls
  <2> QED BY <1>1, <1>11, <2>1, CallStep, IdleStep DEF BeginMonitor
<1>12. ASSUME NEW c \in Callers, Replay(c) \/ ReplayMonitor(c) \/ Crash(c)
       PROVE  AccountInv'
  BY <1>1, <1>12, CallStep, IdleStep DEF Replay, ReplayMonitor, Crash
<1>13. ASSUME NEW c \in Callers, Evaluate(c) PROVE AccountInv'
  BY <1>13, EvaluateKeeps
<1>14. ASSUME NEW c \in Callers, Monitor(c) PROVE AccountInv'
  BY <1>14, MonitorKeeps
<1>15. ASSUME NEW c \in Callers, BeginResume(c) \/ BeginReset(c) PROVE AccountInv'
  <2>1. \E request \in Calls : Begin(c, request)
    BY <1>15 DEF BeginResume, BeginReset, Calls
  <2> QED BY <1>1, <1>2, <1>15, <2>1, CallStep, SavingStep DEF BeginResume, BeginReset
<1>16. ASSUME NEW c \in Callers, Resume(c) PROVE AccountInv'
  BY <1>1, <1>2, <1>16, CallStep, SavingStep DEF Resume
<1>17. ASSUME NEW c \in Callers, ResetSession(c) PROVE AccountInv'
  <2>1. Sound(DefaultAccount(InitialCash, Stopped("operator")))
    BY NewIsSound, SwitchTypes, ConfigAssumption
  <2> QED BY <1>1, <1>3, <1>17, <2>1, CallStep, SavingStep DEF ResetSession
<1>18. CASE UNCHANGED vars
  BY <1>1, <1>18, IdleStep DEF vars
<1> QED
  BY <1>4, <1>5, <1>6, <1>7, <1>8, <1>9, <1>10, <1>11, <1>12, <1>13, <1>14,
     <1>15, <1>16, <1>17, <1>18 DEF Next

\* The account's invariant holds in every reachable state.
THEOREM AccountSound == Spec => []AccountInv
<1>1. Init => AccountInv
  BY InitIsSound
<1>2. AccountInv /\ [Next]_vars => AccountInv'
  BY NextKeeps
<1> QED BY <1>1, <1>2, PTL DEF Spec

\* Every variable keeps its type, for every configuration (the persisted row and
\* the calls in progress).
THEOREM TypeCorrect == Spec => []TypeOK
<1>1. AccountInv => TypeOK
  BY DEF AccountInv
<1> QED BY <1>1, AccountSound, PTL

\* The simulated position never leaves the configured bound, whatever calls race.
THEOREM PositionBounded == Spec => []PositionBound
<1>1. AccountInv => PositionBound
  BY DEF AccountInv
<1> QED BY <1>1, AccountSound, PTL

\* The drawdown is measured from a high water that is never below the equity.
THEOREM HighWaterDominated == Spec => []HighWaterDominates
<1>1. AccountInv => HighWaterDominates
  BY DEF AccountInv
<1> QED BY <1>1, AccountSound, PTL

-----------------------------------------------------------------------------
(* A decision is filled once. *)

\* FilledOnce of a ledger and of recorded results.
OnceIn(ledger, results) ==
    /\ \A i \in DOMAIN ledger : results[ledger[i].id] = "accepted"
    /\ \A i, j \in DOMAIN ledger : ledger[i].id = ledger[j].id => i = j

\* Every entry of a ledger is a fill of some decision.
LEMMA EntryType ==
    ASSUME NEW ledger \in Seq(Fills), NEW i \in DOMAIN ledger
    PROVE  ledger[i] \in Fills /\ ledger[i].id \in DecisionIds
<1>1. ledger[i] \in Fills
  OBVIOUS
<1> QED BY <1>1 DEF Fills

\* The account an access reads has the ledger of the row, or an empty one.
LEMMA LockedOnce ==
    ASSUME FilledOnce
    PROVE  OnceIn(LockedState.ledger, decisions)
BY DEF LockedState, DefaultAccount, FilledOnce, OnceIn

\* A step that keeps the ledger it reads and forgets no acceptance.
LEMMA SameLedgerStep ==
    ASSUME AccountInv, FilledOnce, NEW a, Save(a), a.ledger = LockedState.ledger,
           \A id \in DecisionIds : decisions[id] = "accepted" => decisions'[id] = "accepted"
    PROVE  FilledOnce'
<1>1. OnceIn(LockedState.ledger, decisions)
  BY LockedOnce
<1>2. \A i \in DOMAIN LockedState.ledger : LockedState.ledger[i].id \in DecisionIds
  <2>1. LockedState.ledger \in Seq(Fills)
    BY LockedIsSound DEF Sound, Accounts
  <2> QED BY <2>1, EntryType
<1> QED BY <1>1, <1>2 DEF Save, OnceIn, FilledOnce

\* A step that empties the ledger.
LEMMA EmptyLedgerStep ==
    ASSUME account'.ledger = << >>
    PROVE  FilledOnce'
BY DEF FilledOnce

\* A step that leaves the account and the decisions alone.
LEMMA NoLedgerStep ==
    ASSUME FilledOnce, UNCHANGED <<account, decisions>>
    PROVE  FilledOnce'
BY DEF FilledOnce

\* A fill of a decision that had no result is the only one with its id.
LEMMA AppendOnce ==
    ASSUME NEW ledger \in Seq(Fills), NEW results \in [DecisionIds -> {"none", "accepted", "refused"}],
           OnceIn(ledger, results), NEW fill \in Fills, results[fill.id] = "none"
    PROVE  OnceIn(Append(ledger, fill), [results EXCEPT ![fill.id] = "accepted"])
<1> DEFINE longer == Append(ledger, fill)
           new == [results EXCEPT ![fill.id] = "accepted"]
<1>1. fill.id \in DecisionIds
  BY DEF Fills
<1>2. /\ Len(ledger) \in Nat
      /\ DOMAIN ledger = 1 .. Len(ledger)
      /\ DOMAIN longer = 1 .. Len(ledger) + 1
      /\ \A i \in DOMAIN ledger : longer[i] = ledger[i]
      /\ longer[Len(ledger) + 1] = fill
  OBVIOUS
<1>3. \A i \in DOMAIN ledger : ledger[i].id # fill.id /\ ledger[i].id \in DecisionIds
  <2> SUFFICES ASSUME NEW i \in DOMAIN ledger
               PROVE  ledger[i].id # fill.id /\ ledger[i].id \in DecisionIds
    OBVIOUS
  <2>1. ledger[i].id \in DecisionIds
    BY EntryType
  <2>2. results[ledger[i].id] = "accepted"
    BY DEF OnceIn
  <2> QED BY <2>1, <2>2
<1> HIDE DEF longer
<1>4. \A i \in DOMAIN longer : i \in DOMAIN ledger \/ i = Len(ledger) + 1
  BY <1>2
<1>5. ASSUME NEW i \in DOMAIN longer PROVE new[longer[i].id] = "accepted"
  BY <1>1, <1>2, <1>3, <1>4 DEF OnceIn
<1>6. ASSUME NEW i \in DOMAIN longer, NEW j \in DOMAIN longer,
             longer[i].id = longer[j].id
      PROVE  i = j
  BY <1>2, <1>3, <1>4, <1>6 DEF OnceIn
<1> QED BY <1>5, <1>6 DEF OnceIn, longer

\* An evaluation of an unrecorded decision appends at most its own fill.
LEMMA EvaluateOnce ==
    ASSUME AccountInv, FilledOnce, NEW c \in Callers, Evaluate(c)
    PROVE  FilledOnce'
<1> DEFINE id == call[c].id
           price == call[c].price
           t == call[c].at
           marked == Mark(LockedState, price, t)
<1>1. id \in DecisionIds /\ price \in Int /\ t \in Int
  BY CallTypes DEF Evaluate
<1>2. LockedState \in Accounts
  BY LockedIsSound DEF Sound
<1>3. marked \in Accounts /\ marked.ledger = LockedState.ledger
  BY <1>1, <1>2, MarkIsSound
<1>4. decisions \in [DecisionIds -> {"none", "accepted", "refused"}]
  BY DEF AccountInv, TypeOK
<1>5. decisions[id] = "none"
  BY DEF Evaluate
<1>6. CASE /\ Save(LockedState) \/ Save(marked)
           /\ decisions' = [decisions EXCEPT ![id] = "refused"]
  <2>1. \A other \in DecisionIds :
            decisions[other] = "accepted" => decisions'[other] = "accepted"
    BY <1>1, <1>4, <1>5, <1>6
  <2> QED BY <1>3, <1>6, <2>1, SameLedgerStep
<1>7. CASE /\ Save(Fill(marked, id, price, t))
           /\ decisions' = [decisions EXCEPT ![id] = "accepted"]
  <2> DEFINE fill == Entry(id, price, t)
  <2>1. /\ fill \in Fills /\ fill.id = id
        /\ Fill(marked, id, price, t).ledger = Append(marked.ledger, fill)
    <3> HIDE DEF marked, id, price, t
    <3> QED BY <1>1, <1>3, FillIsSound, EntryIsFill
  <2> HIDE DEF fill
  <2>2. marked.ledger \in Seq(Fills)
    BY <1>3 DEF Accounts
  <2>3. OnceIn(marked.ledger, decisions)
    BY <1>3, LockedOnce
  <2>4. OnceIn(Append(marked.ledger, fill), [decisions EXCEPT ![fill.id] = "accepted"])
    BY <1>4, <1>5, <2>1, <2>2, <2>3, AppendOnce
  <2> QED BY <1>7, <2>1, <2>4 DEF Save, OnceIn, FilledOnce
<1> QED BY <1>6, <1>7 DEF Evaluate

\* Every step keeps fills unique.
LEMMA NextOnce == AccountInv /\ FilledOnce /\ [Next]_vars => FilledOnce'
<1> SUFFICES ASSUME AccountInv, FilledOnce, [Next]_vars PROVE FilledOnce'
  OBVIOUS
<1>1. \A switch : [LockedState EXCEPT !.switch = switch].ledger = LockedState.ledger
  BY LockedIsSound DEF Sound, Accounts
<1>2. \A cash, switch : DefaultAccount(cash, switch).ledger = << >>
  BY DEF DefaultAccount
<1>3. CASE Start \/ Stop
  BY <1>1, <1>3, SameLedgerStep DEF Start, Stop, SetKillSwitch
<1>4. CASE ReadState
  BY <1>4, SameLedgerStep DEF ReadState
<1>5. CASE Rebase(RebaseCash) \/ CorruptRow
  BY <1>2, <1>5, EmptyLedgerStep DEF Rebase, CorruptRow, Save
<1>6. ASSUME NEW c \in Callers, ResetSession(c) PROVE FilledOnce'
  BY <1>2, <1>6, EmptyLedgerStep DEF ResetSession, Save
<1>7. ASSUME NEW c \in Callers, BeginResume(c) \/ BeginReset(c) PROVE FilledOnce'
  BY <1>7, SameLedgerStep DEF BeginResume, BeginReset
<1>8. ASSUME NEW c \in Callers, Resume(c) PROVE FilledOnce'
  BY <1>1, <1>8, SameLedgerStep DEF Resume
<1>9. ASSUME NEW c \in Callers, Evaluate(c) PROVE FilledOnce'
  BY <1>9, EvaluateOnce
<1>10. ASSUME NEW c \in Callers, Monitor(c) PROVE FilledOnce'
  <2> DEFINE marked == Mark(LockedState, call[c].price, call[c].at)
  <2>1. marked \in Accounts /\ marked.ledger = LockedState.ledger
    BY <1>10, CallTypes, LockedIsSound, MarkIsSound DEF Monitor, Sound
  <2>2. [marked EXCEPT !.switch = Stopped("risk_limit")].ledger = marked.ledger
    BY <2>1 DEF Accounts
  <2> QED BY <1>10, <2>1, <2>2, SameLedgerStep DEF Monitor
<1>11. CASE \/ UNCHANGED vars
            \/ Tick
            \/ \E c \in Callers :
                  \/ \E id \in DecisionIds, price \in Prices, observed \in Times :
                        BeginEvaluate(c, id, price, observed)
                  \/ \E price \in Prices, observed \in Times :
                        BeginMonitor(c, price, observed)
                  \/ Replay(c) \/ ReplayMonitor(c) \/ Crash(c)
  BY <1>11, NoLedgerStep
     DEF vars, Tick, BeginEvaluate, BeginMonitor, Replay, ReplayMonitor, Crash
<1> QED
  BY <1>3, <1>4, <1>5, <1>6, <1>7, <1>8, <1>9, <1>10, <1>11 DEF Next

\* However often a proposal is repeated, and by whoever, its decision id fills
\* at most once, and never without its accepted result on record.
THEOREM FillsAreUnique == Spec => []FilledOnce
<1>1. Init => FilledOnce
  BY DEF Init, FilledOnce, DefaultAccount
<1>2. AccountInv /\ FilledOnce /\ [Next]_vars => FilledOnce'
  BY NextOnce
<1> QED BY <1>1, <1>2, AccountSound, PTL DEF Spec

-----------------------------------------------------------------------------
(* A stop holds. *)

StopHolds == Held => Held' \/ LockedState'.switch = Started("explicit_start")

\* What an access reads after a save is what was saved.
LEMMA ReadsWhatWasSaved ==
    ASSUME NEW a, Save(a)
    PROVE  LockedState' = a
BY DEF Save, LockedState

\* A held switch that is saved again, in a step that begins no unattended
\* restart, is still held.
LEMMA StillHeld ==
    ASSUME Held, NEW a, Save(a), a.switch = LockedState.switch,
           \A c \in Callers : call'[c] # ResumeCall
    PROVE  Held'
BY ReadsWhatWasSaved DEF Held

\* So is one that is stopped for another reason than a fresh account's.
LEMMA StoppedIsHeld ==
    ASSUME NEW a, Save(a), NEW reason \in {"operator", "risk_limit"},
           a.switch = Stopped(reason),
           \A c \in Callers : call'[c] # ResumeCall
    PROVE  Held'
BY ReadsWhatWasSaved DEF Held, Stopped, KILL_SWITCH_AUTO_RESUME

\* Neither the end of a call nor the start of another one begins a restart.
LEMMA NoRestart ==
    ASSUME AccountInv, Held, NEW c \in Callers,
           End(c) \/ \E request \in Calls \ {ResumeCall} : Begin(c, request)
    PROVE  \A d \in Callers : call'[d] # ResumeCall
BY DEF AccountInv, TypeOK, Held, End, Begin, NoCall, ResumeCall

\* Every step keeps a stop, or is an explicit start.
LEMMA NextHolds == AccountInv /\ [Next]_vars => StopHolds
<1> SUFFICES ASSUME AccountInv, [Next]_vars, Held
             PROVE  Held' \/ LockedState'.switch = Started("explicit_start")
  BY DEF StopHolds
<1>1. LockedState \in Accounts
  BY LockedIsSound DEF Sound
<1>2. \A switch : [LockedState EXCEPT !.switch = switch].switch = switch
  BY <1>1 DEF Accounts
<1>3. \A cash, switch : DefaultAccount(cash, switch).switch = switch
  BY DEF DefaultAccount
<1>4. \A c \in Callers : call[c] # ResumeCall
  BY DEF Held
<1>5. CASE Start
  BY <1>2, <1>5, ReadsWhatWasSaved DEF Start, SetKillSwitch
<1>6. CASE Stop
  BY <1>2, <1>4, <1>6, StoppedIsHeld DEF Stop, SetKillSwitch
<1>7. CASE ReadState
  BY <1>4, <1>7, StillHeld DEF ReadState
<1>8. CASE Rebase(RebaseCash)
  BY <1>3, <1>4, <1>8, StillHeld DEF Rebase
<1>9. CASE CorruptRow
  <2>1. LockedState'.switch = Stopped("corrupt_state")
    BY <1>3, <1>9 DEF CorruptRow, LockedState
  <2> QED BY <1>4, <1>9, <2>1 DEF CorruptRow, Held, Stopped, KILL_SWITCH_AUTO_RESUME
<1>10. ASSUME NEW c \in Callers, ResetSession(c) PROVE Held'
  BY <1>3, <1>10, NoRestart, StoppedIsHeld DEF ResetSession
<1>11. ASSUME NEW c \in Callers, BeginReset(c) PROVE Held'
  <2>1. ResetCall \in Calls \ {ResumeCall}
    BY DEF Calls, ResetCall, ResumeCall
  <2> QED BY <1>11, <2>1, NoRestart, StillHeld DEF BeginReset
<1>12. ASSUME NEW c \in Callers, BeginResume(c) \/ Resume(c) PROVE FALSE
  BY <1>12 DEF BeginResume, Resume, Held, RestartPolicy
<1>13. ASSUME NEW c \in Callers, Monitor(c) PROVE Held'
  <2> DEFINE marked == Mark(LockedState, call[c].price, call[c].at)
  <2>1. marked \in Accounts /\ marked.switch = LockedState.switch
    BY <1>1, <1>13, CallTypes, MarkIsSound DEF Monitor
  <2>2. marked.switch.stopped
    BY <2>1 DEF Held
  <2> QED BY <1>13, <2>1, <2>2, NoRestart, StillHeld DEF Monitor
<1>14. ASSUME NEW c \in Callers, Evaluate(c) PROVE Held'
  <2>1. LockedState.switch.stopped
    BY DEF Held
  <2>2. Save(LockedState)
    BY <1>14, <2>1 DEF Evaluate, RefusedUnmarked
  <2> QED BY <1>14, <2>2, NoRestart, StillHeld DEF Evaluate
<1>15. ASSUME NEW c \in Callers,
              \/ Replay(c) \/ ReplayMonitor(c) \/ Crash(c)
              \/ \E id \in DecisionIds, price \in Prices, observed \in Times :
                    BeginEvaluate(c, id, price, observed)
              \/ \E price \in Prices, observed \in Times :
                    BeginMonitor(c, price, observed)
       PROVE  Held'
  <2>1. End(c) \/ \E request \in Calls \ {ResumeCall} : Begin(c, request)
    <3>1. CASE Replay(c) \/ ReplayMonitor(c) \/ Crash(c)
      BY <3>1 DEF Replay, ReplayMonitor, Crash
    <3>2. ASSUME NEW id \in DecisionIds, NEW price \in Prices, NEW observed \in Times,
                 BeginEvaluate(c, id, price, observed)
          PROVE  \E request \in Calls \ {ResumeCall} : Begin(c, request)
      BY <3>2 DEF BeginEvaluate, Calls, EvaluateCalls, ResumeCall, AccountInv, TypeOK
    <3>3. ASSUME NEW price \in Prices, NEW observed \in Times,
                 BeginMonitor(c, price, observed)
          PROVE  \E request \in Calls \ {ResumeCall} : Begin(c, request)
      BY <3>3 DEF BeginMonitor, Calls, MonitorCalls, ResumeCall, AccountInv, TypeOK
    <3> QED BY <1>15, <3>1, <3>2, <3>3
  <2>2. UNCHANGED <<row, account>>
    BY <1>15 DEF Replay, ReplayMonitor, Crash, BeginEvaluate, BeginMonitor
  <2> QED BY <2>1, <2>2, NoRestart DEF Held, LockedState
<1>16. CASE Tick \/ UNCHANGED vars
  BY <1>16 DEF Tick, vars, Held, LockedState
<1> QED
  BY <1>5, <1>6, <1>7, <1>8, <1>9, <1>10, <1>11, <1>12, <1>13, <1>14, <1>15,
     <1>16 DEF Next

\* No restart, rebase, reset, repair, mark or proposal clears a stop that an
\* operator, a risk limit or a failure left; only an explicit start does.
THEOREM StopsHold == Spec => StopHoldsUntilExplicitStart
<1>1. AccountInv /\ [Next]_vars
        => (Held => Held' \/ LockedState'.switch = Started("explicit_start"))
  BY NextHolds DEF StopHolds
<1> QED BY <1>1, AccountSound, PTL DEF Spec, StopHoldsUntilExplicitStart

\* At every point the account has its types, a position within the bound and a
\* high water that its equity does not exceed (PaperTradingService).
THEOREM AccountStaysSound == Spec => []AccountIsSound
<1> QED BY TypeCorrect, PositionBounded, HighWaterDominated, PTL DEF AccountIsSound

-----------------------------------------------------------------------------
(* The risk gates compose. *)

\* What a mark makes of each field the gates read.
LEMMA MarkFields ==
    ASSUME NEW a \in Accounts, NEW price \in Int, NEW t \in Int
    PROVE  LET m == Mark(a, price, t)
           IN  /\ m.cash = a.cash
               /\ m.mark = price
               /\ m.day = Day(t)
               /\ m.tradesToday = IF a.day = Day(t) THEN a.tradesToday ELSE 0
               /\ m.dayStart = IF a.day = Day(t) THEN a.dayStart ELSE Equity(a)
               /\ m.highWater = IF a.cash + a.position * price > a.highWater
                                THEN a.cash + a.position * price ELSE a.highWater
<1> DEFINE marked == [a EXCEPT !.mark = price]
           rolled == IF a.day = Day(t) THEN marked
                     ELSE [marked EXCEPT !.day = Day(t), !.tradesToday = 0,
                                         !.dayStart = Equity(a)]
           worth == a.cash + a.position * price
<1>1. /\ marked.cash = a.cash /\ marked.mark = price /\ marked.day = a.day
      /\ marked.dayStart = a.dayStart /\ marked.highWater = a.highWater
      /\ marked.tradesToday = a.tradesToday
      /\ Equity(marked) = worth
  BY DEF Accounts, Equity
<1>2. /\ rolled.cash = a.cash /\ rolled.mark = price /\ rolled.day = Day(t)
      /\ rolled.highWater = a.highWater
      /\ rolled.tradesToday = IF a.day = Day(t) THEN a.tradesToday ELSE 0
      /\ rolled.dayStart = IF a.day = Day(t) THEN a.dayStart ELSE Equity(a)
  BY DEF Accounts
<1>3. Mark(a, price, t) = IF worth > a.highWater
                          THEN [rolled EXCEPT !.highWater = worth]
                          ELSE rolled
  BY <1>1 DEF Mark
<1>4. DOMAIN rolled = DOMAIN a
  OBVIOUS
<1>5. DOMAIN a = {"switch", "cash", "position", "mark", "highWater", "day",
                  "dayStart", "tradesToday", "ledger"}
  BY DEF Accounts
<1> HIDE DEF rolled, worth
<1>6. CASE worth > a.highWater
  <2> DEFINE m == [rolled EXCEPT !.highWater = worth]
  <2>1. /\ m.cash = rolled.cash /\ m.mark = rolled.mark /\ m.day = rolled.day
        /\ m.dayStart = rolled.dayStart /\ m.highWater = worth
        /\ m.tradesToday = rolled.tradesToday
    BY <1>4, <1>5
  <2> QED BY <1>2, <1>3, <1>6, <2>1 DEF worth
<1>7. CASE ~(worth > a.highWater)
  BY <1>2, <1>3, <1>7 DEF worth
<1> QED BY <1>6, <1>7

\* A product distributes over a sum, for the prices of a fill.
LEMMA Distribute ==
    ASSUME NEW cash \in Int, NEW position \in Int, NEW signed \in Int, NEW price \in Int
    PROVE  (cash - signed * price) + (position + signed) * price
             = cash + position * price
OBVIOUS

\* A fill at the price of the mark, on the day of the mark, moves neither the
\* equity nor what the risk limits compare it with.
LEMMA FillAtMark ==
    ASSUME NEW a \in Accounts, NEW id \in DecisionIds, NEW price \in Int, NEW t \in Int,
           a.mark = price, a.day = Day(t), a.highWater >= Equity(a)
    PROVE  LET f == Fill(a, id, price, t)
           IN  /\ Equity(f) = Equity(a)
               /\ f.day = a.day
               /\ f.dayStart = a.dayStart
               /\ f.cash = a.cash - SignedQuantity(id) * price
               /\ f.tradesToday = a.tradesToday + 1
               /\ f.highWater = a.highWater
<1> DEFINE signed == SignedQuantity(id)
           entry == Entry(id, price, t)
           traded == [a EXCEPT !.cash = @ - signed * price,
                               !.position = @ + signed,
                               !.tradesToday = @ + 1,
                               !.ledger = Append(@, entry)]
           f == Fill(a, id, price, t)
<1>1. signed \in Int /\ entry \in Fills
  BY SignedType, EntryIsFill
<1>2. /\ a.cash \in Int /\ a.position \in Int /\ a.tradesToday \in Nat
      /\ a.ledger \in Seq(Fills) /\ a.highWater \in Int
  BY DEF Accounts
<1>3. f = Mark(traded, price, t)
  BY DEF Fill, Entry
<1>4. f.position = a.position + signed
  BY FillIsSound
<1> HIDE DEF entry, signed
<1>5. a.cash - signed * price \in Int /\ a.position + signed \in Int
  BY <1>1, <1>2
<1>6. a.tradesToday + 1 \in Nat /\ Append(a.ledger, entry) \in Seq(Fills)
  BY <1>1, <1>2
<1>7. /\ traded \in Accounts
      /\ traded.cash = a.cash - signed * price
      /\ traded.position = a.position + signed
      /\ traded.day = a.day /\ traded.dayStart = a.dayStart
      /\ traded.tradesToday = a.tradesToday + 1
      /\ traded.highWater = a.highWater
  BY <1>5, <1>6 DEF Accounts
<1>8. traded.cash + traded.position * price = Equity(a)
  <2>1. (a.cash - signed * price) + (a.position + signed) * price
          = a.cash + a.position * price
    BY <1>1, <1>2, Distribute
  <2>2. Equity(a) = a.cash + a.position * price
    BY DEF Equity
  <2> HIDE DEF traded
  <2> QED BY <1>7, <2>1, <2>2
<1>9. Equity(a) \in Int
  BY DEF Accounts, Equity
<1> HIDE DEF traded, f
<1>10. /\ f.cash = traded.cash /\ f.mark = price /\ f.day = Day(t)
       /\ f.dayStart = traded.dayStart
       /\ f.highWater = traded.highWater
       /\ f.tradesToday = traded.tradesToday
  BY <1>2, <1>3, <1>7, <1>8, <1>9, MarkFields
<1>11. Equity(f) = Equity(a)
  BY <1>4, <1>7, <1>8, <1>10 DEF Equity
<1> QED BY <1>7, <1>10, <1>11 DEF f, signed

\* The product of two positive integers is positive.
LEMMA PositiveProduct ==
    ASSUME NEW x \in Nat \ {0}, NEW y \in Nat \ {0}
    PROVE  x * y > 0
OBVIOUS

\* A new account is within its risk limits.
LEMMA DefaultIsUnbreached ==
    ASSUME NEW cash \in Nat \ {0}, NEW switch
    PROVE  ~Breached(DefaultAccount(cash, switch))
<1> DEFINE a == DefaultAccount(cash, switch)
<1>1. a.dayStart = cash /\ a.highWater = cash /\ Equity(a) = cash
  BY DEF DefaultAccount, Equity
<1>2. DrawdownPercent \in Nat \ {0} /\ DailyLossLimit \in Nat \ {0}
  BY ConfigAssumption
<1>3. DrawdownPercent * cash > 0 /\ DrawdownPercent * cash \in Int
  BY <1>2, PositiveProduct
<1> HIDE DEF a
<1>4. ~DailyLossBreached(a)
  BY <1>1, <1>2 DEF DailyLossBreached
<1>5. ~DrawdownBreached(a)
  BY <1>1, <1>3 DEF DrawdownBreached
<1> QED BY <1>4, <1>5 DEF Breached, a

\* The limits read the equity, the day's baseline and the high water alone.
LEMMA SameBreach ==
    ASSUME NEW a, NEW b, Equity(b) = Equity(a), b.dayStart = a.dayStart,
           b.highWater = a.highWater
    PROVE  Breached(b) <=> Breached(a)
BY DEF Breached, DailyLossBreached, DrawdownBreached

\* The variable holds what an access reads, also when the row does not.
AccountIsRead == account = LockedState

\* Every step keeps it.
LEMMA NextReads == AccountIsRead /\ [Next]_vars => AccountIsRead'
<1> SUFFICES ASSUME AccountIsRead, [Next]_vars PROVE AccountIsRead'
  OBVIOUS
<1>1. CASE \E a : Save(a)
  BY <1>1, ReadsWhatWasSaved DEF Save, AccountIsRead
<1>2. CASE UNCHANGED <<row, account>>
  BY <1>2 DEF AccountIsRead, LockedState
<1>3. CASE CorruptRow
  BY <1>3 DEF CorruptRow, AccountIsRead, LockedState
<1>4. ASSUME NEW c \in Callers,
             \/ Evaluate(c) \/ Monitor(c) \/ BeginResume(c) \/ Resume(c)
             \/ BeginReset(c) \/ ResetSession(c)
      PROVE  \E a : Save(a)
  BY <1>4 DEF Evaluate, Monitor, BeginResume, Resume, BeginReset, ResetSession
<1>5. Start \/ Stop \/ ReadState \/ Rebase(RebaseCash) => \E a : Save(a)
  BY DEF Start, Stop, SetKillSwitch, ReadState, Rebase
<1>6. ASSUME NEW c \in Callers,
             \/ Replay(c) \/ ReplayMonitor(c) \/ Crash(c)
             \/ \E id \in DecisionIds, price \in Prices, observed \in Times :
                   BeginEvaluate(c, id, price, observed)
             \/ \E price \in Prices, observed \in Times :
                   BeginMonitor(c, price, observed)
      PROVE  UNCHANGED <<row, account>>
  BY <1>6 DEF Replay, ReplayMonitor, Crash, BeginEvaluate, BeginMonitor
<1>7. Tick \/ UNCHANGED vars => UNCHANGED <<row, account>>
  BY DEF Tick, vars
<1> QED BY <1>1, <1>2, <1>3, <1>4, <1>5, <1>6, <1>7 DEF Next

\* The three promises of GatesCompose, of one step.
GateStep ==
    /\ Len(account'.ledger) > Len(account.ledger)
          => ~account.switch.stopped /\ ~Breached(account')
    /\ account'.day \notin {account.day, NoDay}
          => account'.dayStart = Equity(LockedState)
    /\ ~Breached(account) /\ Breached(account') /\ ~account'.switch.stopped
          => \E id \in DecisionIds :
                decisions[id] = "none" /\ decisions'[id] = "refused"

\* A step that saves what the gates read as it was.
LEMMA GatesUnread ==
    ASSUME account'.ledger = account.ledger, account'.day = account.day,
           Equity(account)' = Equity(account),
           account'.dayStart = account.dayStart,
           account'.highWater = account.highWater,
           account \in Accounts
    PROVE  GateStep
<1>1. ~(Len(account'.ledger) > Len(account.ledger))
  <2>1. Len(account.ledger) \in Nat
    BY DEF Accounts
  <2> QED BY <2>1
<1>2. Breached(account)' <=> Breached(account)
  BY DEF Breached, DailyLossBreached, DrawdownBreached
<1> QED BY <1>1, <1>2 DEF GateStep

\* A step that saves another switch.
LEMMA GatesSwitch ==
    ASSUME AccountInv, AccountIsRead, NEW switch \in Switches,
           Save([LockedState EXCEPT !.switch = switch])
    PROVE  GateStep
<1>1. account \in Accounts
  BY DEF AccountInv, TypeOK
<1>2. account' = [account EXCEPT !.switch = switch]
  BY DEF Save, AccountIsRead
<1>3. /\ account'.ledger = account.ledger /\ account'.day = account.day
      /\ account'.cash = account.cash /\ account'.position = account.position
      /\ account'.mark = account.mark /\ account'.dayStart = account.dayStart
      /\ account'.highWater = account.highWater
  BY <1>1, <1>2 DEF Accounts
<1> QED BY <1>1, <1>3, GatesUnread DEF Equity

\* A step that saves a new account.
LEMMA GatesDefault ==
    ASSUME AccountInv, NEW cash \in Nat \ {0}, NEW switch,
           account' = DefaultAccount(cash, switch)
    PROVE  GateStep
<1>1. account'.ledger = << >> /\ account'.day = NoDay
  BY DEF DefaultAccount
<1>2. ~(Len(account'.ledger) > Len(account.ledger))
  <2>1. Len(account.ledger) \in Nat
    BY DEF AccountInv, TypeOK, Accounts
  <2> QED BY <1>1, <2>1
<1>3. ~Breached(account')
  BY DefaultIsUnbreached
<1> QED BY <1>1, <1>2, <1>3 DEF GateStep

\* An evaluation that stops at a gate leaves a refusal; one that fills has
\* passed them all, and the fill moves nothing that they read.
LEMMA EvaluateGates ==
    ASSUME AccountInv, AccountIsRead, NEW c \in Callers, Evaluate(c)
    PROVE  GateStep
<1> DEFINE id == call[c].id
           price == call[c].price
           t == call[c].at
           marked == Mark(account, price, t)
           filled == Fill(marked, id, price, t)
<1>1. id \in DecisionIds /\ price \in Int /\ t \in Int
  BY CallTypes DEF Evaluate
<1>2. account \in Accounts
  BY DEF AccountInv, TypeOK
<1>3. /\ marked \in Accounts
      /\ marked.ledger = account.ledger
      /\ marked.highWater >= Equity(marked)
  BY <1>1, <1>2, MarkIsSound
<1>4. /\ marked.mark = price /\ marked.day = Day(t)
      /\ marked.dayStart = IF account.day = Day(t) THEN account.dayStart ELSE Equity(account)
  BY <1>1, <1>2, MarkFields
<1>5. /\ Equity(filled) = Equity(marked) /\ filled.day = marked.day
      /\ filled.dayStart = marked.dayStart /\ filled.highWater = marked.highWater
  BY <1>1, <1>3, <1>4, FillAtMark
<1>6. decisions[id] = "none" /\ decisions \in [DecisionIds -> {"none", "accepted", "refused"}]
  BY DEF Evaluate, AccountInv, TypeOK
<1>7. Len(account.ledger) \in Nat
  BY <1>2 DEF Accounts
<1>8. \/ /\ account' = account \/ account' = marked
         /\ decisions' = [decisions EXCEPT ![id] = "refused"]
      \/ /\ ~account.switch.stopped
         /\ ~Breached(marked)
         /\ account' = filled
  BY DEF Evaluate, RefusedUnmarked, RefusedByRisk, Save, AccountIsRead
<1> HIDE DEF marked, filled, id, price, t
<1>9. CASE /\ account' = account \/ account' = marked
           /\ decisions' = [decisions EXCEPT ![id] = "refused"]
  <2>1. \E i \in DecisionIds : decisions[i] = "none" /\ decisions'[i] = "refused"
    BY <1>1, <1>6, <1>9
  <2>2. ~(Len(account'.ledger) > Len(account.ledger))
    BY <1>3, <1>7, <1>9
  <2>3. account'.day # account.day => account'.dayStart = Equity(LockedState)
    BY <1>4, <1>9 DEF AccountIsRead
  <2> QED BY <2>1, <2>2, <2>3 DEF GateStep
<1>10. CASE ~account.switch.stopped /\ ~Breached(marked) /\ account' = filled
  <2>1. ~Breached(account')
    BY <1>5, <1>10, SameBreach
  <2>2. account'.day # account.day => account'.dayStart = Equity(LockedState)
    BY <1>4, <1>5, <1>10 DEF AccountIsRead
  <2> QED BY <1>10, <2>1, <2>2 DEF GateStep
<1> QED BY <1>8, <1>9, <1>10

\* A mark of the monitor that finds a limit breached leaves a stop.
LEMMA MonitorGates ==
    ASSUME AccountInv, AccountIsRead, NEW c \in Callers, Monitor(c)
    PROVE  GateStep
<1> DEFINE price == call[c].price
           t == call[c].at
           marked == Mark(account, price, t)
           halted == [marked EXCEPT !.switch = Stopped("risk_limit")]
<1>1. price \in Int /\ t \in Int
  BY CallTypes DEF Monitor
<1>2. account \in Accounts
  BY DEF AccountInv, TypeOK
<1>3. marked \in Accounts /\ marked.ledger = account.ledger
  BY <1>1, <1>2, MarkIsSound
<1>4. /\ marked.day = Day(t)
      /\ marked.dayStart = IF account.day = Day(t) THEN account.dayStart ELSE Equity(account)
  BY <1>1, <1>2, MarkFields
<1>5. Len(account.ledger) \in Nat
  BY <1>2 DEF Accounts
<1>6. account' = IF Breached(marked) /\ ~marked.switch.stopped THEN halted ELSE marked
  BY DEF Monitor, Save, AccountIsRead
<1>7. /\ halted.ledger = marked.ledger /\ halted.day = marked.day
      /\ halted.dayStart = marked.dayStart
      /\ halted.switch = Stopped("risk_limit")
  BY <1>3 DEF Accounts
<1> HIDE DEF marked, halted, price, t
<1>8. account'.ledger = account.ledger
  BY <1>3, <1>6, <1>7
<1>9. account'.day # account.day => account'.dayStart = Equity(LockedState)
  BY <1>4, <1>6, <1>7 DEF AccountIsRead
<1>10. Breached(account') => account'.switch.stopped
  BY <1>6, <1>7 DEF Stopped
<1> QED BY <1>5, <1>8, <1>9, <1>10 DEF GateStep

\* Every step passes the gates together.
LEMMA NextGates == AccountInv /\ AccountIsRead /\ [Next]_vars => GateStep
<1> SUFFICES ASSUME AccountInv, AccountIsRead, [Next]_vars PROVE GateStep
  OBVIOUS
<1>1. account \in Accounts
  BY DEF AccountInv, TypeOK
<1>2. InitialCash \in Nat \ {0} /\ RebaseCash \in Nat \ {0}
  BY ConfigAssumption
<1>3. account' = account => GateStep
  BY <1>1, GatesUnread
<1>4. CASE Start \/ Stop
  <2>1. Started("explicit_start") \in Switches /\ Stopped("operator") \in Switches
    BY SwitchTypes
  <2> QED BY <1>4, <2>1, GatesSwitch DEF Start, Stop, SetKillSwitch
<1>5. CASE ReadState
  BY <1>3, <1>5 DEF ReadState, Save, AccountIsRead
<1>6. CASE Rebase(RebaseCash)
  BY <1>2, <1>6, GatesDefault DEF Rebase, Save
<1>7. CASE CorruptRow
  BY <1>2, <1>7, GatesDefault DEF CorruptRow
<1>8. ASSUME NEW c \in Callers, BeginResume(c) \/ BeginReset(c) PROVE GateStep
  BY <1>3, <1>8 DEF BeginResume, BeginReset, Save, AccountIsRead
<1>9. ASSUME NEW c \in Callers, Resume(c) PROVE GateStep
  <2>1. Started("unattended_start") \in Switches
    BY SwitchTypes
  <2> QED BY <1>9, <2>1, GatesSwitch DEF Resume
<1>10. ASSUME NEW c \in Callers, ResetSession(c) PROVE GateStep
  BY <1>2, <1>10, GatesDefault DEF ResetSession, Save
<1>11. ASSUME NEW c \in Callers,
              \/ Replay(c) \/ ReplayMonitor(c) \/ Crash(c)
              \/ \E id \in DecisionIds, price \in Prices, observed \in Times :
                    BeginEvaluate(c, id, price, observed)
              \/ \E price \in Prices, observed \in Times :
                    BeginMonitor(c, price, observed)
       PROVE  account' = account
  BY <1>11 DEF Replay, ReplayMonitor, Crash, BeginEvaluate, BeginMonitor
<1>12. Tick \/ UNCHANGED vars => account' = account
  BY DEF Tick, vars
<1> QED
  BY <1>3, <1>4, <1>5, <1>6, <1>7, <1>8, <1>9, <1>10, <1>11, <1>12,
     EvaluateGates, MonitorGates DEF Next

\* What one gate leaves to another is caught there, for any prices, limits and
\* callers: fills keep the limits, the baseline of a day is the last mark before
\* it, and no price that breaches a limit is passed over (_gate, _mark, monitor).
THEOREM GatesStayComposed == Spec => GatesCompose
<1>1. Init => AccountIsRead
  BY DEF Init, AccountIsRead, LockedState
<1>2. AccountIsRead /\ [Next]_vars => AccountIsRead'
  BY NextReads
<1>3. AccountInv /\ AccountIsRead /\ [Next]_vars => GateStep
  BY NextGates
<1>4. Spec => []AccountIsRead
  BY <1>1, <1>2, PTL DEF Spec
<1>5. Spec => [][GateStep]_vars
  BY <1>3, <1>4, AccountSound, PTL DEF Spec
<1>6. GateStep => /\ Len(account'.ledger) > Len(account.ledger)
                        => ~account.switch.stopped /\ ~Breached(account')
                  /\ account'.day \notin {account.day, NoDay}
                        => account'.dayStart = Equity(LockedState)
                  /\ ~Breached(account) /\ Breached(account') /\ ~account'.switch.stopped
                        => \E id \in DecisionIds :
                              decisions[id] = "none" /\ decisions'[id] = "refused"
  BY DEF GateStep
<1> QED
  BY <1>5, <1>6, PTL DEF GatesCompose, FillKeepsLimits, BaselineIsLastClose,
     BreachIsNeverIgnored

-----------------------------------------------------------------------------
(* The contract: the switch, the position and the decisions, as any access     *)
(* reads them, move only as PaperContract says.                                *)

ContractStep == Contract!ContractNext \/ UNCHANGED Contract!contractVars

\* A step that saves the switch and the position it read, and records nothing.
LEMMA SilentSave ==
    ASSUME NEW a, Save(a), a.switch = LockedState.switch,
           a.position = LockedState.position, UNCHANGED decisions
    PROVE  ContractStep
BY ReadsWhatWasSaved DEF ContractStep, Contract!contractVars

\* A step that leaves the row, the account and the decisions alone.
LEMMA SilentCall ==
    ASSUME UNCHANGED <<row, account, decisions>>
    PROVE  ContractStep
BY DEF ContractStep, Contract!contractVars, LockedState

\* A step that sets the switch of the account it read.
LEMMA SwitchSave ==
    ASSUME NEW a, Save(a), NEW stopped \in BOOLEAN,
           NEW reason \in IF stopped THEN StopReasons ELSE StartReasons,
           a.switch = [stopped |-> stopped, reason |-> reason],
           a.position = LockedState.position, UNCHANGED decisions
    PROVE  ContractStep
<1>1. Contract!SetKillSwitch(stopped, reason)
  BY ReadsWhatWasSaved DEF Contract!SetKillSwitch
<1>2. CASE stopped
  <2>1. \E r \in StopReasons : Contract!SetKillSwitch(TRUE, r)
    BY <1>1, <1>2
  <2> QED BY <2>1 DEF ContractStep, Contract!ContractNext, StopReasons, Contract!StopReasons
<1>3. CASE ~stopped
  <2>1. \E r \in StartReasons : Contract!SetKillSwitch(FALSE, r)
    BY <1>1, <1>3
  <2> QED BY <2>1 DEF ContractStep, Contract!ContractNext, StartReasons, Contract!StartReasons
<1> QED BY <1>2, <1>3

\* An evaluation accepts its decision while the switch is running, and moves the
\* position by what was proposed, or refuses it and moves nothing.
LEMMA EvaluateContract ==
    ASSUME AccountInv, NEW c \in Callers, Evaluate(c)
    PROVE  ContractStep
<1> DEFINE id == call[c].id
           price == call[c].price
           t == call[c].at
           marked == Mark(LockedState, price, t)
           filled == Fill(marked, id, price, t)
<1>1. id \in DecisionIds /\ price \in Int /\ t \in Int
  BY CallTypes DEF Evaluate
<1>2. LockedState \in Accounts
  BY LockedIsSound DEF Sound
<1>3. /\ marked \in Accounts
      /\ marked.switch = LockedState.switch
      /\ marked.position = LockedState.position
  BY <1>1, <1>2, MarkIsSound
<1>4. /\ filled.switch = marked.switch
      /\ filled.position = marked.position + SignedQuantity(id)
  BY <1>1, <1>3, FillIsSound
<1>5. decisions[id] = "none"
  BY DEF Evaluate
<1>6. \/ /\ Save(LockedState) \/ Save(marked)
         /\ decisions' = [decisions EXCEPT ![id] = "refused"]
      \/ /\ ~LockedState.switch.stopped
         /\ Save(filled)
         /\ decisions' = [decisions EXCEPT ![id] = "accepted"]
  BY DEF Evaluate, RefusedUnmarked
<1> HIDE DEF marked, filled, id
<1>7. CASE /\ Save(LockedState) \/ Save(marked)
           /\ decisions' = [decisions EXCEPT ![id] = "refused"]
  <2>1. /\ LockedState'.switch = LockedState.switch
        /\ LockedState'.position = LockedState.position
    BY <1>3, <1>7, ReadsWhatWasSaved
  <2>2. Contract!Refuse(id)
    BY <1>5, <1>7, <2>1 DEF Contract!Refuse
  <2> QED BY <1>1, <2>2 DEF ContractStep, Contract!ContractNext
<1>8. CASE /\ ~LockedState.switch.stopped
           /\ Save(filled)
           /\ decisions' = [decisions EXCEPT ![id] = "accepted"]
  <2>1. /\ LockedState'.switch = LockedState.switch
        /\ LockedState'.position = LockedState.position + SignedQuantity(id)
    BY <1>3, <1>4, <1>8, ReadsWhatWasSaved
  <2>2. [i \in DecisionIds |-> SignedQuantity(i)][id] = SignedQuantity(id)
    BY <1>1
  <2>3. Contract!Accept(id)
    BY <1>5, <1>8, <2>1, <2>2 DEF Contract!Accept
  <2> QED BY <1>1, <2>3 DEF ContractStep, Contract!ContractNext
<1> QED BY <1>6, <1>7, <1>8

\* A mark changes nothing of the contract, or stops the account.
LEMMA MonitorContract ==
    ASSUME AccountInv, NEW c \in Callers, Monitor(c)
    PROVE  ContractStep
<1> DEFINE marked == Mark(LockedState, call[c].price, call[c].at)
           halted == [marked EXCEPT !.switch = Stopped("risk_limit")]
<1>1. LockedState \in Accounts
  BY LockedIsSound DEF Sound
<1>2. call[c].price \in Int /\ call[c].at \in Int
  BY CallTypes DEF Monitor
<1>3. /\ marked \in Accounts
      /\ marked.switch = LockedState.switch
      /\ marked.position = LockedState.position
  BY <1>1, <1>2, MarkIsSound
<1>4. halted.switch = Stopped("risk_limit") /\ halted.position = marked.position
  BY <1>3 DEF Accounts
<1>5. (Save(halted) \/ Save(marked)) /\ UNCHANGED decisions
  BY DEF Monitor
<1> HIDE DEF marked, halted
<1>6. CASE Save(marked)
  BY <1>3, <1>5, <1>6, SilentSave
<1>7. CASE Save(halted)
  <2>1. "risk_limit" \in StopReasons
    BY DEF StopReasons
  <2> QED BY <1>3, <1>4, <1>5, <1>7, <2>1, SwitchSave DEF Stopped
<1> QED BY <1>5, <1>6, <1>7

\* Every step of the account is a step of its contract, or changes nothing of it.
LEMMA NextContract == AccountInv /\ [Next]_vars => ContractStep
<1> SUFFICES ASSUME AccountInv, [Next]_vars PROVE ContractStep
  OBVIOUS
<1>1. LockedState \in Accounts
  BY LockedIsSound DEF Sound
<1>2. \A switch : LET a == [LockedState EXCEPT !.switch = switch]
                  IN  a.switch = switch /\ a.position = LockedState.position
  BY <1>1 DEF Accounts
<1>3. \A cash, switch : LET a == DefaultAccount(cash, switch)
                        IN  a.switch = switch /\ a.position = 0
  BY DEF DefaultAccount
<1>4. Contract!NoDecisions = NoDecisions
  BY DEF Contract!NoDecisions, NoDecisions
<1>5. {"operator"} \subseteq StopReasons /\ StartReasons = {"explicit_start", "unattended_start"}
  BY DEF StopReasons, StartReasons
<1>6. CASE Start
  <2> DEFINE a == [LockedState EXCEPT !.switch = Started("explicit_start")]
  <2>1. Save(a) /\ UNCHANGED decisions
    BY <1>6 DEF Start, SetKillSwitch
  <2>2. a.switch = [stopped |-> FALSE, reason |-> "explicit_start"]
        /\ a.position = LockedState.position
    BY <1>2 DEF Started
  <2> HIDE DEF a
  <2> QED BY <1>5, <2>1, <2>2, SwitchSave
<1>7. CASE Stop
  <2> DEFINE a == [LockedState EXCEPT !.switch = Stopped("operator")]
  <2>1. Save(a) /\ UNCHANGED decisions
    BY <1>7 DEF Stop, SetKillSwitch
  <2>2. a.switch = [stopped |-> TRUE, reason |-> "operator"]
        /\ a.position = LockedState.position
    BY <1>2 DEF Stopped
  <2> HIDE DEF a
  <2> QED BY <1>5, <2>1, <2>2, SwitchSave
<1>8. CASE ReadState
  BY <1>8, SilentSave DEF ReadState
<1>9. CASE Rebase(RebaseCash)
  <2>1. /\ LockedState'.switch = LockedState.switch
        /\ LockedState'.position = 0 /\ LockedState.position = 0
        /\ decisions' = NoDecisions
    BY <1>3, <1>9, ReadsWhatWasSaved DEF Rebase
  <2>2. Contract!RebaseFlat
    BY <1>4, <2>1 DEF Contract!RebaseFlat
  <2> QED BY <2>2 DEF ContractStep, Contract!ContractNext
<1>10. CASE CorruptRow
  <2>1. /\ LockedState'.switch = Stopped("corrupt_state")
        /\ LockedState'.position = 0
        /\ UNCHANGED decisions
    BY <1>3, <1>10 DEF CorruptRow, LockedState
  <2>2. Contract!Corrupt
    BY <2>1 DEF Contract!Corrupt, Stopped
  <2> QED BY <2>2 DEF ContractStep, Contract!ContractNext
<1>11. ASSUME NEW c \in Callers, ResetSession(c) PROVE ContractStep
  <2>1. /\ LockedState'.switch = Stopped("operator")
        /\ LockedState'.position = 0
        /\ decisions' = NoDecisions
    BY <1>3, <1>11, ReadsWhatWasSaved DEF ResetSession
  <2>2. Contract!Reset
    BY <1>4, <2>1 DEF Contract!Reset, Stopped
  <2> QED BY <2>2 DEF ContractStep, Contract!ContractNext
<1>12. ASSUME NEW c \in Callers, BeginReset(c) \/ BeginResume(c) PROVE ContractStep
  BY <1>12, SilentSave DEF BeginReset, BeginResume
<1>13. ASSUME NEW c \in Callers, Resume(c) PROVE ContractStep
  <2> DEFINE a == [LockedState EXCEPT !.switch = Started("unattended_start")]
  <2>1. Save(a) /\ UNCHANGED decisions
    BY <1>13 DEF Resume
  <2>2. a.switch = [stopped |-> FALSE, reason |-> "unattended_start"]
        /\ a.position = LockedState.position
    BY <1>2 DEF Started
  <2> HIDE DEF a
  <2> QED BY <1>5, <2>1, <2>2, SwitchSave
<1>14. ASSUME NEW c \in Callers,
              \/ Replay(c) \/ ReplayMonitor(c) \/ Crash(c)
              \/ \E id \in DecisionIds, price \in Prices, observed \in Times :
                    BeginEvaluate(c, id, price, observed)
              \/ \E price \in Prices, observed \in Times :
                    BeginMonitor(c, price, observed)
       PROVE  ContractStep
  BY <1>14, SilentCall DEF Replay, ReplayMonitor, Crash, BeginEvaluate, BeginMonitor
<1>15. CASE Tick \/ UNCHANGED vars
  BY <1>15, SilentCall DEF Tick, vars
<1> QED
  BY <1>6, <1>7, <1>8, <1>9, <1>10, <1>11, <1>12, <1>13, <1>14, <1>15,
     EvaluateContract, MonitorContract DEF Next

\* The account implements its contract, for any callers, proposals and limits:
\* whatever races, crashes and repairs there are, a decision id moves the position
\* at most once and only while the switch is running (PaperTradingService).
THEOREM AccountImplementsContract == Spec => ImplementsContract
<1>1. Init => Contract!ContractInit
  BY DEF Init, LockedState, DefaultAccount, NoDecisions, Contract!ContractInit,
         Contract!NoDecisions, FreshSwitch, Contract!FreshSwitch
<1>2. AccountInv /\ [Next]_vars => [Contract!ContractNext]_(Contract!contractVars)
  BY NextContract DEF ContractStep
<1> QED BY <1>1, <1>2, AccountSound, PTL DEF Spec, ImplementsContract, Contract!ContractSpec
-----------------------------------------------------------------------------
(* What a step does to the books: cash, position, ledger and the day's count.  *)

SameBooks(a, b) == b.cash = a.cash /\ b.position = a.position /\ b.ledger = a.ledger
SameDay(a, b) == b.day = a.day /\ b.tradesToday = a.tradesToday

\* A flat account that has filled nothing.
FreshBooks(a) ==
    /\ a.cash \in {InitialCash, RebaseCash}
    /\ a.position = 0
    /\ a.ledger = << >>
    /\ a.day = NoDay
    /\ a.tradesToday = 0

MarkedBooks(a, b, t) ==
    /\ SameBooks(a, b)
    /\ b.day = Day(t)
    /\ b.tradesToday = IF a.day = Day(t) THEN a.tradesToday ELSE 0

FilledBooks(a, b, id, price, t) ==
    /\ b.cash = a.cash - SignedQuantity(id) * price
    /\ b.position = a.position + SignedQuantity(id)
    /\ b.ledger = Append(a.ledger, Entry(id, price, t))
    /\ a.tradesToday < MaxTradesPerDay
    /\ b.day = a.day
    /\ b.tradesToday = a.tradesToday + 1

\* What the call of c, which read the clock at t, makes of the books.
CallBooks(c, t) ==
    \/ MarkedBooks(account, account', t)
    \/ \E m \in Accounts : \E id \in DecisionIds : \E price \in Int :
          /\ MarkedBooks(account, m, t)
          /\ FilledBooks(m, account', id, price, t)

\* A call that marks or fills is over with its transaction.
MarkingCalls == EvaluateCalls \cup MonitorCalls
BookStep ==
    \/ SameBooks(account, account') /\ SameDay(account, account')
    \/ FreshBooks(account')
    \/ \E c \in Callers :
          /\ call[c] \in MarkingCalls
          /\ CallBooks(c, call[c].at)
          /\ End(c)
          /\ UNCHANGED now

\* A new account has fresh books.
LEMMA DefaultBooks ==
    ASSUME NEW cash \in {InitialCash, RebaseCash}, NEW switch
    PROVE  FreshBooks(DefaultAccount(cash, switch))
BY DEF FreshBooks, DefaultAccount

\* The switch is not in the books.
LEMMA SwitchBooks ==
    ASSUME NEW a \in Accounts, NEW switch
    PROVE  LET b == [a EXCEPT !.switch = switch] IN SameBooks(a, b) /\ SameDay(a, b)
BY DEF SameBooks, SameDay, Accounts

\* A mark only turns the day.
LEMMA MarkBooks ==
    ASSUME NEW a \in Accounts, NEW price \in Int, NEW t \in Int
    PROVE  MarkedBooks(a, Mark(a, price, t), t)
BY MarkFields, MarkIsSound DEF MarkedBooks, SameBooks

\* An evaluation leaves the books, marks them, or adds one fill to them.
LEMMA EvaluateBooks ==
    ASSUME AccountInv, AccountIsRead, NEW c \in Callers, Evaluate(c)
    PROVE  BookStep
<1> DEFINE id == call[c].id
           price == call[c].price
           t == call[c].at
           marked == Mark(account, price, t)
           filled == Fill(marked, id, price, t)
<1>1. id \in DecisionIds /\ price \in Int /\ t \in Int
  BY CallTypes DEF Evaluate
<1>2. account \in Accounts
  BY DEF AccountInv, TypeOK
<1>3. /\ marked \in Accounts
      /\ marked.highWater >= Equity(marked)
      /\ marked.mark = price /\ marked.day = Day(t)
  BY <1>1, <1>2, MarkIsSound, MarkFields
<1>4. MarkedBooks(account, marked, t)
  BY <1>1, <1>2, MarkBooks
<1>5. /\ call[c] \in MarkingCalls /\ End(c) /\ UNCHANGED now
      /\ \/ account' = account
         \/ account' = marked
         \/ account' = filled /\ ~(marked.tradesToday >= MaxTradesPerDay)
  BY DEF Evaluate, MarkingCalls, Save, AccountIsRead, RefusedByRisk
<1> HIDE DEF marked
<1>6. /\ filled.position = marked.position + SignedQuantity(id)
      /\ filled.ledger = Append(marked.ledger, Entry(id, price, t))
      /\ filled.day = marked.day
      /\ filled.cash = marked.cash - SignedQuantity(id) * price
      /\ filled.tradesToday = marked.tradesToday + 1
  <2> HIDE DEF id, price, t
  <2> QED BY <1>1, <1>3, FillIsSound, FillAtMark
<1>7. marked.tradesToday \in Int /\ MaxTradesPerDay \in Int
  BY <1>3, ConfigAssumption DEF Accounts
<1>8. account' = filled /\ ~(marked.tradesToday >= MaxTradesPerDay)
        => FilledBooks(marked, account', id, price, t)
  BY <1>6, <1>7 DEF FilledBooks
<1>9. account' = account => SameBooks(account, account') /\ SameDay(account, account')
  BY DEF SameBooks, SameDay
<1> QED BY <1>1, <1>3, <1>4, <1>5, <1>8, <1>9 DEF BookStep, CallBooks

\* A mark of the monitor turns the day of the books.
LEMMA MonitorBooks ==
    ASSUME AccountInv, AccountIsRead, NEW c \in Callers, Monitor(c)
    PROVE  BookStep
<1> DEFINE price == call[c].price
           t == call[c].at
           marked == Mark(account, price, t)
<1>1. price \in Int /\ t \in Int
  BY CallTypes DEF Monitor
<1>2. account \in Accounts
  BY DEF AccountInv, TypeOK
<1>3. marked \in Accounts /\ MarkedBooks(account, marked, t)
  BY <1>1, <1>2, MarkIsSound, MarkBooks
<1>4. /\ call[c] \in MarkingCalls /\ End(c) /\ UNCHANGED now
      /\ account' \in {marked, [marked EXCEPT !.switch = Stopped("risk_limit")]}
  BY DEF Monitor, MarkingCalls, Save, AccountIsRead
<1> HIDE DEF marked, price, t
<1>5. MarkedBooks(account, [marked EXCEPT !.switch = Stopped("risk_limit")], t)
  BY <1>3, SwitchBooks DEF MarkedBooks, SameBooks, SameDay
<1>6. MarkedBooks(account, account', t)
  BY <1>3, <1>4, <1>5
<1> QED BY <1>4, <1>6 DEF BookStep, CallBooks, t

\* Every step keeps the books, starts them afresh, or is one call's.
LEMMA NextBooks == AccountInv /\ AccountIsRead /\ [Next]_vars => BookStep
<1> SUFFICES ASSUME AccountInv, AccountIsRead, [Next]_vars PROVE BookStep
  OBVIOUS
<1>1. account \in Accounts
  BY DEF AccountInv, TypeOK
<1>2. account' = account => BookStep
  BY DEF BookStep, SameBooks, SameDay
<1>3. \A switch : account' = [account EXCEPT !.switch = switch] => BookStep
  BY <1>1, SwitchBooks DEF BookStep
<1>4. \A switch : account' = DefaultAccount(InitialCash, switch) => BookStep
  BY DefaultBooks DEF BookStep
<1>5. \A switch : account' = DefaultAccount(RebaseCash, switch) => BookStep
  BY DefaultBooks DEF BookStep
<1>6. CASE Start \/ Stop
  BY <1>3, <1>6 DEF Start, Stop, SetKillSwitch, Save, AccountIsRead
<1>7. CASE ReadState
  BY <1>2, <1>7 DEF ReadState, Save, AccountIsRead
<1>8. CASE Rebase(RebaseCash)
  BY <1>5, <1>8 DEF Rebase, Save
<1>9. CASE CorruptRow
  BY <1>4, <1>9 DEF CorruptRow
<1>10. ASSUME NEW c \in Callers, BeginResume(c) \/ BeginReset(c) PROVE BookStep
  BY <1>2, <1>10 DEF BeginResume, BeginReset, Save, AccountIsRead
<1>11. ASSUME NEW c \in Callers, Resume(c) PROVE BookStep
  BY <1>3, <1>11 DEF Resume, Save, AccountIsRead
<1>12. ASSUME NEW c \in Callers, ResetSession(c) PROVE BookStep
  BY <1>4, <1>12 DEF ResetSession, Save
<1>13. ASSUME NEW c \in Callers,
              \/ Replay(c) \/ ReplayMonitor(c) \/ Crash(c)
              \/ \E id \in DecisionIds, price \in Prices, observed \in Times :
                    BeginEvaluate(c, id, price, observed)
              \/ \E price \in Prices, observed \in Times :
                    BeginMonitor(c, price, observed)
       PROVE  account' = account
  BY <1>13 DEF Replay, ReplayMonitor, Crash, BeginEvaluate, BeginMonitor
<1>14. Tick \/ UNCHANGED vars => account' = account
  BY DEF Tick, vars
<1> QED
  BY <1>2, <1>6, <1>7, <1>8, <1>9, <1>10, <1>11, <1>12, <1>13, <1>14,
     EvaluateBooks, MonitorBooks DEF Next

-----------------------------------------------------------------------------
(* The ledger explains the account.                                            *)

\* What a fill makes of the position and the outlay before it.
Nothing == [position |-> 0, spent |-> 0]
After(result, fill) ==
    [position |-> result.position + fill.signed,
     spent |-> result.spent + fill.signed * fill.price]

\* The running results of replaying a ledger, one for each of its prefixes.
Replays(f, ledger) ==
    /\ f = [n \in 0 .. Len(ledger) |-> f[n]]
    /\ f[0] = Nothing
    /\ \A n \in 1 .. Len(ledger) : f[n] = After(f[n - 1], ledger[n])

\* Where a replay of the ledger ends, the account is.
EndsAt(result, a) ==
    /\ a.position = result.position
    /\ result.spent \in Int
    /\ a.cash + result.spent \in {InitialCash, RebaseCash}

\* A replay exists, and every one ends at the account.
Explained(a) ==
    /\ \E f : Replays(f, a.ledger)
    /\ \A f : Replays(f, a.ledger) => EndsAt(f[Len(a.ledger)], a)

\* The replay that the model chooses is one of them.
LEMMA ExplainedIsReplayed ==
    ASSUME NEW a \in Accounts, Explained(a)
    PROVE  EndsAt(Replayed(a.ledger), a)
<1> DEFINE Rule(f) == [n \in 0 .. Len(a.ledger) |->
                          IF n = 0 THEN Nothing ELSE After(f[n - 1], a.ledger[n])]
           chosen == CHOOSE f : f = Rule(f)
<1>1. Len(a.ledger) \in Nat
  BY DEF Accounts
<1>2. ASSUME NEW f, Replays(f, a.ledger) PROVE f = Rule(f)
  <2>1. ASSUME NEW n \in 0 .. Len(a.ledger)
        PROVE  f[n] = IF n = 0 THEN Nothing ELSE After(f[n - 1], a.ledger[n])
    BY <1>1, <1>2 DEF Replays
  <2>2. f = [n \in 0 .. Len(a.ledger) |-> f[n]]
    BY <1>2 DEF Replays
  <2> QED BY <2>1, <2>2
<1>3. \E f : f = Rule(f)
  <2> HIDE DEF Rule
  <2> QED BY <1>2 DEF Explained
<1>4. chosen = Rule(chosen)
  <2> HIDE DEF Rule
  <2> QED BY <1>3
<1>5. Replays(chosen, a.ledger)
  <2> HIDE DEF chosen
  <2>1. ASSUME NEW n \in 0 .. Len(a.ledger)
        PROVE  chosen[n] = IF n = 0 THEN Nothing ELSE After(chosen[n - 1], a.ledger[n])
    BY <1>4
  <2>2. chosen = [n \in 0 .. Len(a.ledger) |-> chosen[n]]
    BY <1>4
  <2> HIDE DEF Rule
  <2> QED BY <1>1, <2>1, <2>2 DEF Replays
<1>6. Replayed(a.ledger) = chosen[Len(a.ledger)]
  BY DEF Replayed, Nothing, After
<1> QED BY <1>5, <1>6 DEF Explained

\* The empty ledger of a fresh account explains it.
LEMMA FreshIsExplained ==
    ASSUME NEW a, FreshBooks(a)
    PROVE  Explained(a)
<1>1. InitialCash \in Int /\ RebaseCash \in Int
  BY ConfigAssumption
<1>2. a.ledger = << >> /\ Len(a.ledger) = 0
  BY DEF FreshBooks
<1>3. Replays([n \in 0 .. 0 |-> Nothing], a.ledger)
  BY <1>2 DEF Replays
<1>4. ASSUME NEW f, Replays(f, a.ledger) PROVE EndsAt(f[Len(a.ledger)], a)
  <2>1. f[0] = Nothing
    BY <1>2, <1>4 DEF Replays
  <2> QED BY <1>1, <1>2, <2>1 DEF EndsAt, FreshBooks, Nothing
<1> QED BY <1>3, <1>4 DEF Explained

\* What the books have in common is all that an explanation reads.
LEMMA SameIsExplained ==
    ASSUME NEW a, NEW b, Explained(a), SameBooks(a, b)
    PROVE  Explained(b)
BY DEF Explained, SameBooks, EndsAt

\* A fill's outlay leaves the cash and moves the result, which keeps their sum.
LEMMA AfterFill ==
    ASSUME NEW a \in Accounts, NEW b, NEW id \in DecisionIds, NEW price \in Int,
           NEW t \in Int, FilledBooks(a, b, id, price, t),
           NEW result, EndsAt(result, a)
    PROVE  EndsAt(After(result, Entry(id, price, t)), b)
<1> DEFINE signed == SignedQuantity(id)
           after == After(result, Entry(id, price, t))
<1>1. signed \in Int
  BY SignedType
<1>2. /\ after.position = result.position + signed
      /\ after.spent = result.spent + signed * price
  BY DEF After, Entry
<1>3. /\ b.cash = a.cash - signed * price
      /\ b.position = a.position + signed
  BY DEF FilledBooks
<1>4. a.cash \in Int /\ a.position \in Int
  BY DEF Accounts
<1> HIDE DEF signed, after
<1>5. signed * price \in Int
  BY <1>1
<1>6. /\ b.position = after.position /\ after.spent \in Int
      /\ b.cash + after.spent = a.cash + result.spent
  BY <1>2, <1>3, <1>4, <1>5 DEF EndsAt
<1> QED BY <1>6 DEF EndsAt, after

\* One more fill is explained by one more step of the replay.
LEMMA FilledIsExplained ==
    ASSUME NEW a \in Accounts, NEW b, Explained(a), NEW id \in DecisionIds,
           NEW price \in Int, NEW t \in Int, FilledBooks(a, b, id, price, t)
    PROVE  Explained(b)
<1> DEFINE size == Len(a.ledger)
           entry == Entry(id, price, t)
<1>1. entry \in Fills
  BY EntryIsFill
<1>2. a.ledger \in Seq(Fills)
  BY DEF Accounts
<1>3. size \in Nat /\ b.ledger = Append(a.ledger, entry)
  BY <1>2 DEF FilledBooks
<1> HIDE DEF entry
<1>4. /\ Len(b.ledger) = size + 1
      /\ \A n \in 1 .. size : b.ledger[n] = a.ledger[n]
      /\ b.ledger[size + 1] = entry
  BY <1>1, <1>2, <1>3
<1> HIDE DEF size
<1>5. \E f : Replays(f, b.ledger)
  <2>1. PICK f : Replays(f, a.ledger)
    BY DEF Explained
  <2> DEFINE g == [n \in 0 .. size + 1 |-> IF n = size + 1 THEN After(f[size], entry)
                                           ELSE f[n]]
  <2>2. g[0] = Nothing
    BY <1>3, <2>1 DEF Replays
  <2>3. ASSUME NEW n \in 1 .. size + 1
        PROVE  g[n] = After(g[n - 1], b.ledger[n])
    <3>1. CASE n = size + 1
      BY <1>3, <1>4, <3>1
    <3>2. CASE n \in 1 .. size
      <4>1. f[n] = After(f[n - 1], a.ledger[n])
        BY <2>1, <3>2 DEF Replays, size
      <4>2. g[n] = f[n] /\ g[n - 1] = f[n - 1] /\ b.ledger[n] = a.ledger[n]
        BY <1>3, <1>4, <3>2
      <4> HIDE DEF g
      <4> QED BY <4>1, <4>2
    <3>3. n = size + 1 \/ n \in 1 .. size
      BY <1>3
    <3> QED BY <3>1, <3>2, <3>3
  <2>4. g = [n \in 0 .. size + 1 |-> g[n]]
    OBVIOUS
  <2> HIDE DEF g
  <2>5. Replays(g, b.ledger)
    BY <1>4, <2>2, <2>3, <2>4 DEF Replays
  <2> QED BY <2>5
<1>6. ASSUME NEW g, Replays(g, b.ledger) PROVE EndsAt(g[Len(b.ledger)], b)
  <2> DEFINE f == [n \in 0 .. size |-> g[n]]
  <2>1. \A n \in 1 .. size + 1 : g[n] = After(g[n - 1], b.ledger[n])
    BY <1>4, <1>6 DEF Replays
  <2>2. ASSUME NEW n \in 1 .. size
        PROVE  f[n] = After(f[n - 1], a.ledger[n])
    <3>1. n \in 1 .. size + 1 /\ n \in 0 .. size /\ n - 1 \in 0 .. size
      BY <1>3
    <3>2. f[n] = g[n] /\ f[n - 1] = g[n - 1] /\ b.ledger[n] = a.ledger[n]
      BY <1>4, <3>1
    <3> HIDE DEF f
    <3> QED BY <2>1, <3>1, <3>2
  <2>3. f = [n \in 0 .. size |-> f[n]] /\ f[size] = g[size] /\ f[0] = Nothing
    BY <1>3, <1>6 DEF Replays
  <2> HIDE DEF f
  <2>4. Replays(f, a.ledger)
    BY <2>2, <2>3 DEF Replays, size
  <2>5. EndsAt(g[size], a)
    BY <2>3, <2>4 DEF Explained, size
  <2>6. g[size + 1] = After(g[size], entry)
    BY <1>3, <1>4, <2>1
  <2> QED BY <1>4, <2>5, <2>6, AfterFill DEF entry
<1> QED BY <1>5, <1>6 DEF Explained

\* Every step leaves an account that its ledger explains.
LEMMA NextExplained ==
    AccountInv /\ AccountIsRead /\ Explained(account) /\ [Next]_vars => Explained(account')
<1> SUFFICES ASSUME AccountInv, AccountIsRead, Explained(account), [Next]_vars
             PROVE  Explained(account')
  OBVIOUS
<1>1. CASE SameBooks(account, account')
  BY <1>1, SameIsExplained
<1>2. CASE FreshBooks(account')
  BY <1>2, FreshIsExplained
<1>3. ASSUME NEW c \in Callers, call[c] \in MarkingCalls, CallBooks(c, call[c].at)
      PROVE  Explained(account')
  <2>1. call[c].at \in Int
    BY <1>3, CallTypes DEF MarkingCalls
  <2>2. CASE MarkedBooks(account, account', call[c].at)
    BY <1>1, <2>2 DEF MarkedBooks
  <2>3. ASSUME NEW m \in Accounts, NEW id \in DecisionIds, NEW price \in Int,
               MarkedBooks(account, m, call[c].at),
               FilledBooks(m, account', id, price, call[c].at)
        PROVE  Explained(account')
    <3>1. Explained(m)
      BY <2>3, SameIsExplained DEF MarkedBooks
    <3> QED BY <2>1, <2>3, <3>1, FilledIsExplained
  <2> QED BY <1>3, <2>2, <2>3 DEF CallBooks
<1> QED BY <1>1, <1>2, <1>3, NextBooks DEF BookStep

\* Whoever uses the account, and however often it is rebased, reset or repaired,
\* its position and its cash are what the fills of its ledger make of a flat
\* account with the initial or the rebased cash (_fill, rebase, _load_locked).
THEOREM LedgerStaysExplained == Spec => []LedgerExplains
<1>1. Init => Explained(account)
  BY FreshIsExplained, DefaultBooks DEF Init
<1>2. AccountInv /\ AccountIsRead /\ Explained(account) /\ [Next]_vars
        => (Explained(account))'
  BY NextExplained
<1>3. AccountInv /\ Explained(account) => LedgerExplains
  BY ExplainedIsReplayed DEF AccountInv, TypeOK, LedgerExplains, EndsAt
<1>4. Init => AccountIsRead
  BY DEF Init, AccountIsRead, LockedState
<1>5. AccountIsRead /\ [Next]_vars => AccountIsRead'
  BY NextReads
<1> QED BY <1>1, <1>2, <1>3, <1>4, <1>5, AccountSound, PTL DEF Spec
-----------------------------------------------------------------------------
(* No day has more fills than the limit, for one caller.  Its call in progress *)
(* read the clock no earlier than the account's last day and no later than     *)
(* now, so days never go back; and the fills of the account's day are counted. *)

\* A later time is on a later day, or the same.
LEMMA DayMonotone ==
    ASSUME NEW t \in Nat, NEW u \in Nat, t <= u
    PROVE  Day(t) <= Day(u) /\ Day(t) \in Nat /\ Day(u) \in Nat
<1>1. TicksPerDay \in Nat /\ TicksPerDay > 0
  BY ConfigAssumption
<1>2. \A x \in Nat : /\ Day(x) \in Int
                     /\ TicksPerDay * Day(x) <= x
                     /\ x < TicksPerDay * Day(x) + TicksPerDay
  BY <1>1 DEF Day
<1>3. \A x \in Nat : Day(x) >= 0
  <2> SUFFICES ASSUME NEW x \in Nat, Day(x) <= -1 PROVE FALSE
    BY <1>2
  <2>1. TicksPerDay * Day(x) <= TicksPerDay * (-1)
    BY <1>1, <1>2
  <2> QED BY <1>1, <1>2, <2>1
<1>4. ASSUME Day(u) + 1 <= Day(t) PROVE FALSE
  <2>1. TicksPerDay * (Day(u) + 1) <= TicksPerDay * Day(t)
    BY <1>1, <1>2, <1>4
  <2>2. TicksPerDay * (Day(u) + 1) = TicksPerDay * Day(u) + TicksPerDay
    BY <1>1, <1>2
  <2> DEFINE x == TicksPerDay * Day(u)
             y == TicksPerDay * Day(t)
  <2>3. x \in Int /\ y \in Int
    BY <1>1, <1>2
  <2>4. y <= t /\ u < x + TicksPerDay /\ x + TicksPerDay <= y
    BY <1>2, <2>1, <2>2
  <2> HIDE DEF x, y
  <2> QED BY <1>1, <2>3, <2>4
<1> QED BY <1>2, <1>3, <1>4

\* The places of a ledger that hold the fills of a day.
On(ledger, day) == {i \in DOMAIN ledger : ledger[i].day = day}

\* The account's day is the last of its ledger's, and its count is right.
Counted(a) ==
    /\ \A i \in DOMAIN a.ledger : a.ledger[i].day <= a.day
    /\ Cardinality(On(a.ledger, a.day)) = a.tradesToday
    /\ \A day \in Int : Cardinality(On(a.ledger, day)) <= MaxTradesPerDay

\* A fresh account has nothing to count.
LEMMA FreshIsCounted ==
    ASSUME NEW a, FreshBooks(a)
    PROVE  Counted(a)
<1>1. \A day : On(a.ledger, day) = {}
  BY DEF FreshBooks, On
<1>2. MaxTradesPerDay >= 0 /\ MaxTradesPerDay \in Nat
  BY ConfigAssumption
<1>3. \A day : Cardinality(On(a.ledger, day)) = 0
  BY <1>1, FS_EmptySet
<1>4. DOMAIN a.ledger = {} /\ a.tradesToday = 0
  BY DEF FreshBooks
<1> QED BY <1>2, <1>3, <1>4 DEF Counted

\* Nothing but the ledger, the day and the count is read.
LEMMA SameIsCounted ==
    ASSUME NEW a, NEW b, Counted(a), SameBooks(a, b), SameDay(a, b)
    PROVE  Counted(b)
BY DEF Counted, SameBooks, SameDay

\* A mark that does not go back keeps the count, or starts a new one at zero.
LEMMA MarkedIsCounted ==
    ASSUME NEW a \in Accounts, NEW b, Counted(a), NEW t \in Int,
           MarkedBooks(a, b, t), a.day <= Day(t)
    PROVE  Counted(b)
<1>1. CASE a.day = Day(t)
  BY <1>1, SameIsCounted DEF MarkedBooks, SameDay
<1>2. CASE a.day # Day(t)
  <2>1. a.day \in Int /\ Day(t) \in Int /\ a.day < Day(t)
    BY <1>2, DayType DEF Accounts
  <2>2. /\ b.ledger = a.ledger /\ b.day = Day(t) /\ b.tradesToday = 0
    BY <1>2 DEF MarkedBooks, SameBooks
  <2>3. \A i \in DOMAIN a.ledger : a.ledger[i].day \in Int
    BY EntryType DEF Accounts, Fills
  <2>4. \A i \in DOMAIN a.ledger : a.ledger[i].day < Day(t)
    BY <2>1, <2>3 DEF Counted
  <2>5. On(a.ledger, Day(t)) = {}
    BY <2>1, <2>3, <2>4 DEF On
  <2> QED BY <2>1, <2>2, <2>3, <2>4, <2>5, FS_EmptySet DEF Counted
<1> QED BY <1>1, <1>2

\* A fill under the limit adds one to its own day, and to no other.
LEMMA FilledIsCounted ==
    ASSUME NEW a \in Accounts, NEW b, Counted(a), NEW id \in DecisionIds,
           NEW price \in Int, NEW t \in Int, FilledBooks(a, b, id, price, t),
           a.day = Day(t)
    PROVE  Counted(b)
<1> DEFINE size == Len(a.ledger)
           entry == Entry(id, price, t)
<1>1. entry \in Fills /\ entry.day = Day(t) /\ Day(t) \in Int
  BY EntryIsFill, DayType DEF Entry
<1>2. /\ a.ledger \in Seq(Fills) /\ a.tradesToday \in Nat
      /\ MaxTradesPerDay \in Nat
  BY ConfigAssumption DEF Accounts
<1>3. size \in Nat /\ b.ledger = Append(a.ledger, entry)
  BY <1>2 DEF FilledBooks
<1> HIDE DEF entry
<1>4. /\ DOMAIN a.ledger = 1 .. size
      /\ DOMAIN b.ledger = 1 .. size + 1
      /\ \A n \in 1 .. size : b.ledger[n] = a.ledger[n]
      /\ b.ledger[size + 1] = entry
  BY <1>1, <1>2, <1>3
<1> HIDE DEF size
<1>5. \A day : day # Day(t) => On(b.ledger, day) = On(a.ledger, day)
  BY <1>1, <1>3, <1>4 DEF On
<1>6. On(b.ledger, Day(t)) = On(a.ledger, Day(t)) \cup {size + 1}
  BY <1>1, <1>3, <1>4 DEF On
<1>7. IsFiniteSet(On(a.ledger, Day(t))) /\ size + 1 \notin On(a.ledger, Day(t))
  <2>1. IsFiniteSet(1 .. size)
    BY <1>3, FS_Interval
  <2>2. On(a.ledger, Day(t)) \in SUBSET (1 .. size)
    BY <1>4 DEF On
  <2>3. size + 1 \notin 1 .. size
    BY <1>3
  <2> QED BY <2>1, <2>2, <2>3, FS_Subset
<1>8. Cardinality(On(b.ledger, Day(t))) = a.tradesToday + 1
  <2> DEFINE S == On(a.ledger, Day(t))
  <2>1. IsFiniteSet(S) /\ size + 1 \notin S
    BY <1>7
  <2> HIDE DEF S
  <2>2. Cardinality(S \cup {size + 1}) = Cardinality(S) + 1
    BY <2>1, FS_AddElement
  <2>3. Cardinality(S) = a.tradesToday
    BY DEF Counted, S
  <2> QED BY <1>6, <2>2, <2>3 DEF S
<1>9. b.day = a.day /\ b.tradesToday = a.tradesToday + 1 /\ a.tradesToday < MaxTradesPerDay
  BY DEF FilledBooks
<1>10. \A i \in DOMAIN b.ledger : b.ledger[i].day <= b.day
  <2> SUFFICES ASSUME NEW i \in DOMAIN b.ledger PROVE b.ledger[i].day <= b.day
    OBVIOUS
  <2>1. CASE i = size + 1
    BY <1>1, <1>4, <1>9, <2>1
  <2>2. CASE i \in 1 .. size
    BY <1>4, <1>9, <2>2 DEF Counted
  <2>3. i = size + 1 \/ i \in 1 .. size
    BY <1>3, <1>4
  <2> QED BY <2>1, <2>2, <2>3
<1>11. \A day \in Int : Cardinality(On(b.ledger, day)) <= MaxTradesPerDay
  <2> SUFFICES ASSUME NEW day \in Int
               PROVE  Cardinality(On(b.ledger, day)) <= MaxTradesPerDay
    OBVIOUS
  <2>1. CASE day = Day(t)
    BY <1>2, <1>8, <1>9, <2>1
  <2>2. CASE day # Day(t)
    BY <1>5, <2>2 DEF Counted
  <2> QED BY <2>1, <2>2
<1> QED BY <1>8, <1>9, <1>10, <1>11 DEF Counted

\* The account's day is not after the clock, nor after the clock a call read.
InTime ==
    /\ account.day <= Day(now)
    /\ \A c \in Callers :
          call[c] \in MarkingCalls =>
              call[c].at <= now /\ account.day <= Day(call[c].at)

\* One caller uses the account.
OneCaller == \A c, d \in Callers : c = d

\* The times that the state holds are natural numbers.
LEMMA TimeTypes ==
    ASSUME AccountInv
    PROVE  /\ now \in Nat
           /\ account.day \in Int
           /\ \A c \in Callers : call[c] \in MarkingCalls => call[c].at \in Nat
<1>1. \A t \in Times : t \in Nat
  BY ConfigAssumption DEF Times
<1>2. \A c \in Callers : call[c] \in MarkingCalls => call[c].at \in Times
  BY DEF MarkingCalls, EvaluateCalls, MonitorCalls
<1> QED BY <1>1, <1>2 DEF AccountInv, TypeOK, Accounts

\* Who has a call that marks after a step had it before, or read the clock in it.
LEMMA MarkingCallsStep ==
    ASSUME AccountInv, [Next]_vars, NEW c \in Callers, call'[c] \in MarkingCalls
    PROVE  \/ call'[c] = call[c]
           \/ call'[c].at = now /\ UNCHANGED <<now, account>>
<1> DEFINE Unread(d) == call'[d] = call[d] \/ call'[d] \notin MarkingCalls
<1>1. call \in [Callers -> Calls]
  BY DEF AccountInv, TypeOK
<1>2. /\ NoCall \notin MarkingCalls /\ ResumeCall \notin MarkingCalls
      /\ ResetCall \notin MarkingCalls
  BY DEF MarkingCalls, EvaluateCalls, MonitorCalls, NoCall, ResumeCall, ResetCall
<1>3. ASSUME NEW d \in Callers, End(d) PROVE Unread(c)
  BY <1>1, <1>2, <1>3 DEF End
<1>4. ASSUME NEW d \in Callers, BeginResume(d) \/ BeginReset(d) PROVE Unread(c)
  BY <1>1, <1>2, <1>4 DEF BeginResume, BeginReset, Begin
<1>5. ASSUME NEW d \in Callers, NEW id \in DecisionIds, NEW price \in Prices,
             NEW observed \in Times, BeginEvaluate(d, id, price, observed)
      PROVE  call'[c] = call[c] \/ (call'[c].at = now /\ UNCHANGED <<now, account>>)
  BY <1>1, <1>5 DEF BeginEvaluate, Begin
<1>6. ASSUME NEW d \in Callers, NEW price \in Prices,
             NEW observed \in Times, BeginMonitor(d, price, observed)
      PROVE  call'[c] = call[c] \/ (call'[c].at = now /\ UNCHANGED <<now, account>>)
  BY <1>1, <1>6 DEF BeginMonitor, Begin
<1>7. ASSUME NEW d \in Callers,
             \/ Replay(d) \/ Evaluate(d) \/ ReplayMonitor(d) \/ Monitor(d)
             \/ Resume(d) \/ ResetSession(d) \/ Crash(d)
      PROVE  Unread(c)
  <2>1. End(d)
    BY <1>7 DEF Replay, Evaluate, ReplayMonitor, Monitor, Resume, ResetSession, Crash
  <2> QED BY <1>3, <2>1
<1>8. Tick \/ Start \/ Stop \/ ReadState \/ Rebase(RebaseCash) \/ CorruptRow
        \/ UNCHANGED vars => UNCHANGED call
  BY DEF Tick, Start, Stop, SetKillSwitch, ReadState, Rebase, CorruptRow, vars
<1> QED BY <1>4, <1>5, <1>6, <1>7, <1>8 DEF Next

\* The clock never goes back.
LEMMA ClockAdvances ==
    ASSUME AccountInv, [Next]_vars
    PROVE  now' >= now /\ now' \in Nat
<1>1. now \in Nat
  BY TimeTypes
<1>2. CASE Tick
  BY <1>1, <1>2 DEF Tick
<1>3. ASSUME NEW c \in Callers,
             \/ Replay(c) \/ Evaluate(c) \/ ReplayMonitor(c) \/ Monitor(c)
             \/ BeginResume(c) \/ Resume(c) \/ BeginReset(c) \/ ResetSession(c)
             \/ Crash(c)
             \/ \E id \in DecisionIds, price \in Prices, observed \in Times :
                   BeginEvaluate(c, id, price, observed)
             \/ \E price \in Prices, observed \in Times :
                   BeginMonitor(c, price, observed)
      PROVE  now' = now
  BY <1>3 DEF Replay, Evaluate, ReplayMonitor, Monitor, BeginResume, Resume,
              BeginReset, ResetSession, Crash, BeginEvaluate, BeginMonitor
<1>4. Start \/ Stop \/ ReadState \/ Rebase(RebaseCash) \/ CorruptRow
        \/ UNCHANGED vars => now' = now
  BY DEF Start, Stop, SetKillSwitch, ReadState, Rebase, CorruptRow, vars
<1> QED BY <1>1, <1>2, <1>3, <1>4 DEF Next

\* With one caller, every step keeps the times in order and the fills counted.
LEMMA NextCounted ==
    ASSUME OneCaller, AccountInv, AccountIsRead, InTime, Counted(account), [Next]_vars
    PROVE  InTime' /\ Counted(account')
<1>1. BookStep
  BY NextBooks
<1>2. /\ now \in Nat /\ account \in Accounts /\ account.day \in Int
      /\ now' \in Nat /\ now' >= now
  BY TimeTypes, ClockAdvances DEF AccountInv, TypeOK
<1>3. Day(now) <= Day(now') /\ Day(now) \in Nat /\ Day(now') \in Nat
  BY <1>2, DayMonotone
<1>4. ASSUME account'.day = account.day PROVE InTime'
  <2>1. account'.day <= Day(now')
    BY <1>2, <1>3, <1>4 DEF InTime
  <2>2. ASSUME NEW c \in Callers, call'[c] \in MarkingCalls
        PROVE  call'[c].at <= now' /\ account'.day <= Day(call'[c].at)
    <3>1. CASE call'[c] = call[c]
      BY <1>2, <1>4, <2>2, <3>1, TimeTypes DEF InTime
    <3>2. CASE call'[c].at = now
      BY <1>2, <1>4, <3>2 DEF InTime
    <3> QED BY <2>2, <3>1, <3>2, MarkingCallsStep
  <2> QED BY <2>1, <2>2 DEF InTime
<1>5. CASE SameBooks(account, account') /\ SameDay(account, account')
  BY <1>4, <1>5, SameIsCounted DEF SameDay
<1>6. CASE FreshBooks(account')
  <2>1. account'.day = -1
    BY <1>6 DEF FreshBooks, NoDay
  <2>2. ASSUME NEW c \in Callers, call'[c] \in MarkingCalls
        PROVE  call'[c].at <= now' /\ account'.day <= Day(call'[c].at)
    <3>1. call'[c].at \in Nat /\ call'[c].at <= now
      <4>1. CASE call'[c] = call[c]
        BY <2>2, <4>1, TimeTypes DEF InTime
      <4>2. CASE call'[c].at = now
        BY <1>2, <4>2
      <4> QED BY <2>2, <4>1, <4>2, MarkingCallsStep
    <3>2. Day(call'[c].at) \in Nat
      BY <3>1, DayMonotone
    <3> QED BY <1>2, <2>1, <3>1, <3>2
  <2>3. InTime'
    BY <1>3, <2>1, <2>2 DEF InTime
  <2> QED BY <1>6, <2>3, FreshIsCounted
<1>7. ASSUME NEW c \in Callers, call[c] \in MarkingCalls, CallBooks(c, call[c].at),
             End(c), UNCHANGED now
      PROVE  InTime' /\ Counted(account')
  <2> DEFINE t == call[c].at
  <2>1. t \in Nat /\ t \in Int /\ t <= now /\ account.day <= Day(t)
    BY <1>7, TimeTypes DEF InTime
  <2>2. Day(t) <= Day(now) /\ Day(t) \in Nat
    BY <1>2, <2>1, DayMonotone
  <2>3. \A d \in Callers : call'[d] \notin MarkingCalls
    <3>1. call'[c] = NoCall
      BY <1>7 DEF End, AccountInv, TypeOK
    <3>2. NoCall \notin MarkingCalls
      BY DEF MarkingCalls, EvaluateCalls, MonitorCalls, NoCall
    <3> QED BY <3>1, <3>2 DEF OneCaller
  <2> HIDE DEF t
  <2>4. CASE MarkedBooks(account, account', t)
    <3>1. Counted(account')
      BY <1>2, <2>1, <2>4, MarkedIsCounted
    <3>2. account'.day = Day(t)
      BY <2>4 DEF MarkedBooks
    <3> QED BY <1>7, <2>2, <2>3, <3>1, <3>2 DEF InTime
  <2>5. ASSUME NEW m \in Accounts, NEW id \in DecisionIds, NEW price \in Int,
               MarkedBooks(account, m, t), FilledBooks(m, account', id, price, t)
        PROVE  InTime' /\ Counted(account')
    <3>1. Counted(m) /\ m.day = Day(t)
      BY <1>2, <2>1, <2>5, MarkedIsCounted DEF MarkedBooks
    <3>2. Counted(account')
      BY <2>1, <2>5, <3>1, FilledIsCounted
    <3>3. account'.day = Day(t)
      BY <2>5, <3>1 DEF FilledBooks
    <3> QED BY <1>7, <2>2, <2>3, <3>2, <3>3 DEF InTime
  <2> QED BY <1>7, <2>4, <2>5 DEF CallBooks, t
<1> QED BY <1>1, <1>5, <1>6, <1>7 DEF BookStep

\* With one caller no day has more fills than MAX_TRADES_PER_DAY and the ledger
\* explains the account, for any prices, proposals, limits, crashes and repairs
\* (_mark, _gate, _fill).  Two callers can carry a count over midnight and back.
THEOREM LedgerStaysSound ==
    ASSUME OneCaller
    PROVE  Spec => []LedgerIsSound
<1>1. Init => InTime /\ Counted(account)
  <2> SUFFICES ASSUME Init PROVE InTime /\ Counted(account)
    OBVIOUS
  <2>1. FreshBooks(account)
    BY DefaultBooks DEF Init
  <2>2. now = 0 /\ Day(0) \in Nat
    BY DayMonotone DEF Init
  <2>3. \A c \in Callers : call[c] \notin MarkingCalls
    BY DEF Init, MarkingCalls, EvaluateCalls, MonitorCalls, NoCall
  <2>4. account.day = -1
    BY <2>1 DEF FreshBooks, NoDay
  <2> QED BY <2>1, <2>2, <2>3, <2>4, FreshIsCounted DEF InTime
<1>2. AccountInv /\ AccountIsRead /\ InTime /\ Counted(account) /\ [Next]_vars
        => InTime' /\ (Counted(account))'
  BY NextCounted
<1>3. AccountInv /\ Counted(account) => DailyTradeCap
  <2> SUFFICES ASSUME AccountInv, Counted(account), NEW i \in DOMAIN account.ledger
               PROVE  Cardinality(FillsOn(account.ledger[i].day)) <= MaxTradesPerDay
    BY DEF DailyTradeCap
  <2>1. account.ledger[i].day \in Int
    BY EntryType DEF AccountInv, TypeOK, Accounts, Fills
  <2>2. FillsOn(account.ledger[i].day) = On(account.ledger, account.ledger[i].day)
    BY DEF FillsOn, On
  <2> QED BY <2>1, <2>2 DEF Counted
<1>4. Init => AccountIsRead
  BY DEF Init, AccountIsRead, LockedState
<1>5. AccountIsRead /\ [Next]_vars => AccountIsRead'
  BY NextReads
<1>6. Spec => []DailyTradeCap
  BY <1>1, <1>2, <1>3, <1>4, <1>5, AccountSound, PTL DEF Spec
<1> QED BY <1>6, LedgerStaysExplained, PTL DEF LedgerIsSound
=============================================================================
