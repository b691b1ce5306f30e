--------------------------- MODULE Trading_proofs ---------------------------
(***************************************************************************)
(* Theorems about the programs that trade on the paper account by          *)
(* themselves: the deterministic engine (EngineLoop), for any bars,        *)
(* backlog and limit of errors; the research lab, for any candidates and   *)
(* windows (LabTrading), any jobs, datasets and budget (LabDataset) and    *)
(* any accounts and bars (LabAccounts); the agent (AgentLoop), for any     *)
(* processes, runs, steps and calls; and the research advisor              *)
(* (AdvisorCalls), for any plans, calls and commands.  They rest on what a *)
(* process has in hand while others halt, resume, trade or stop it, or     *)
(* close its row.                                                          *)
(***************************************************************************)
EXTENDS EngineLoop, LabTrading, LabDataset, LabAccounts, AgentLoop,
        AdvisorCalls, FiniteSetTheorems, WellFoundedInduction, TLAPS

-----------------------------------------------------------------------------
(* EngineLoop: a tick reads the halt once, the bars twice, and what it has     *)
(* observed bounds what it proposes next.                                      *)

InTick == {"market", "signals", "execute"}

\* The state e of a process, when the store has newest bars and the process has
\* proposed the transitions of done.
ProcessOK(e, newest, done) ==
    \* The errors that halted the engine are forgotten by the tick that finds
    \* the halt gone: it is known to the process as long as they are there.
    /\ e.at \in InTick => e.clear /\ e.errors < ErrorLimit /\ ~e.latched
    /\ e.at = "wait" => e.errors < ErrorLimit \/ e.latched
    \* What was proposed was observed, and was no history at the start.
    /\ e.at # "down" =>
          /\ e.floor <= newest /\ e.observed <= newest
          /\ e.observed = 0 \/ e.observed >= e.floor
          /\ \A t \in done : e.floor <= t /\ t <= e.observed
    /\ e.at \in {"signals", "execute"} => e.bar > 0
    /\ e.at = "execute" => e.proposal # NoSignal

EngineInv ==
    /\ EngineTypeOK
    /\ Newest \in 0 .. MaxBars
    /\ ProcessOK(engine, Newest, acted)

\* What the invariant says of a tick.
TickIsClear == EngineTypeOK /\ HaltStopsNextTick /\ FreshAfterResume /\ NoResurrection

\* A process that is down is an engine, and no proposal is a proposal.
LEMMA EngineNames ==
    /\ NoSignal \in Proposals
    /\ Down \in Engines
    /\ Down.at = "down" /\ Down.errors = 0 /\ Down.observed = 0
<1>1. NoSignal \in Proposals
  BY DEF Proposals
<1> QED BY <1>1, EngineAssumption DEF Down, Engines

\* A step of the process alone is right if its next state is.
LEMMA EngineMoves ==
    ASSUME EngineInv, engine' \in Engines, ProcessOK(engine', Newest, acted),
           UNCHANGED <<signals, acted>>,
           halt' \in BOOLEAN, UNCHANGED validated,
           decided' \subseteq Directions \X BarTimes
    PROVE  EngineInv'
<1>1. Newest' = Newest
  BY DEF Newest
<1>2. EngineTypeOK'
  BY DEF EngineInv, EngineTypeOK
<1> QED BY <1>1, <1>2 DEF EngineInv

\* Starting, ending, and what others do around the process.
LEMMA AroundKeeps ==
    ASSUME EngineInv,
           \/ StartEngine \/ EngineEnds \/ BarStored \/ OperateHalt \/ RecordValidation
           \/ UNCHANGED engineVars
    PROVE  EngineInv'
<1> USE EngineAssumption
<1>1. Newest \in 0 .. MaxBars /\ EngineTypeOK /\ engine \in Engines
  BY DEF EngineInv, EngineTypeOK
<1>2. CASE StartEngine
  <2> DEFINE next == [Down EXCEPT !.at = "wait", !.floor = Newest]
  <2>1. /\ next \in Engines
        /\ next.at = "wait" /\ next.floor = Newest /\ next.observed = 0 /\ next.errors = 0
    BY <1>1, EngineNames DEF Engines
  <2>2. engine' = next /\ acted' = {} /\ UNCHANGED <<signals, halt, validated, decided>>
    BY <1>2 DEF StartEngine
  <2> HIDE DEF next
  <2>3. ProcessOK(next, Newest, {})
    BY <1>1, <2>1 DEF ProcessOK, InTick
  <2> QED BY <1>1, <2>1, <2>2, <2>3 DEF EngineInv, EngineTypeOK, Newest
<1>3. CASE EngineEnds
  <2> QED BY <1>1, <1>3, EngineNames
       DEF EngineEnds, EngineInv, EngineTypeOK, ProcessOK, InTick, Newest
<1>4. CASE BarStored
  <2>1. signals' \in Seq(Directions \cup {"NONE"}) /\ Newest' = Newest + 1
    BY <1>1, <1>4 DEF BarStored, EngineTypeOK, Newest
  <2>2. UNCHANGED <<halt, validated, engine, decided, acted>> /\ Newest < MaxBars
    BY <1>4 DEF BarStored
  <2>3. ProcessOK(engine, Newest + 1, acted)
    BY <1>1 DEF EngineInv, EngineTypeOK, ProcessOK, Engines
  <2> QED BY <1>1, <2>1, <2>2, <2>3 DEF EngineInv, EngineTypeOK
<1>5. CASE OperateHalt
  <2>1. halt' \in BOOLEAN
    BY <1>1, <1>5 DEF OperateHalt, EngineTypeOK
  <2> QED BY <1>1, <1>5, <2>1, EngineMoves DEF OperateHalt, EngineInv, EngineTypeOK
<1>6. CASE RecordValidation
  BY <1>1, <1>6 DEF RecordValidation, EngineInv, EngineTypeOK, Newest
<1>7. CASE UNCHANGED engineVars
  BY <1>1, <1>7 DEF engineVars, EngineInv, EngineTypeOK, Newest
<1> QED BY <1>2, <1>3, <1>4, <1>5, <1>6, <1>7

\* The state of the process that a tick leaves behind.
LEMMA AfterTick ==
    ASSUME EngineInv, engine.at \in InTick
    PROVE  /\ Over \in Engines /\ ProcessOK(Over, Newest, acted)
           /\ Over.at = "wait" /\ Over.floor = engine.floor
           /\ Failed => /\ halt' \in BOOLEAN /\ engine' \in Engines
                        /\ ProcessOK(engine', Newest, acted)
                        /\ engine'.at = "wait"
<1> USE EngineAssumption
<1>1. engine \in Engines /\ Newest \in 0 .. MaxBars /\ halt \in BOOLEAN
  BY DEF EngineInv, EngineTypeOK
<1>2. /\ Over \in Engines /\ Over.at = "wait" /\ Over.errors = 0
      /\ Over.floor = engine.floor /\ Over.observed = engine.observed
  BY <1>1, EngineNames DEF Over, Engines
<1>3. ProcessOK(Over, Newest, acted)
  BY <1>1, <1>2 DEF EngineInv, ProcessOK, InTick
<1>4. ASSUME Failed
      PROVE  /\ halt' \in BOOLEAN /\ engine' \in Engines
             /\ ProcessOK(engine', Newest, acted) /\ engine'.at = "wait"
  <2>1. engine.errors \in 0 .. ErrorLimit - 1 /\ engine.latched = FALSE
    BY <1>1 DEF EngineInv, ProcessOK, Engines
  <2> DEFINE last == engine.errors + 1 = ErrorLimit
             latch == engine.latched \/ last
             count == engine.errors + 1
             next == [engine EXCEPT !.at = "wait", !.errors = count, !.bar = 0,
                        !.proposal = NoSignal, !.latched = latch]
  <2>2. engine' = next
    BY <1>4 DEF Failed
  <2>7. latch \in BOOLEAN /\ (last => latch)
    OBVIOUS
  <2>8. count \in 0 .. ErrorLimit /\ 0 \in 0 .. MaxBars
    BY <2>1
  <2> HIDE DEF latch, count
  <2>3. /\ next \in Engines
        /\ next.at = "wait" /\ next.errors = count
        /\ next.floor = engine.floor /\ next.observed = engine.observed
    BY <1>1, <2>7, <2>8, EngineNames DEF Engines
  <2>4. last => next.latched
    BY <1>1, <2>7 DEF Engines
  <2> HIDE DEF next
  <2>5. ProcessOK(next, Newest, acted)
    BY <1>1, <2>1, <2>3, <2>4 DEF count, EngineInv, ProcessOK, InTick
  <2>6. halt' \in BOOLEAN
    BY <1>1, <1>4 DEF Failed
  <2> QED BY <2>2, <2>3, <2>5, <2>6
<1> QED BY <1>2, <1>3, <1>4

\* The steps of a tick up to the bar it works on.
LEMMA TickKeeps ==
    ASSUME EngineInv,
           TickHalted \/ TickUnvalidated \/ TickBegins \/ TickIdle \/ TickFails \/ ReadBar
    PROVE  EngineInv'
<1> USE EngineAssumption
<1>1. /\ engine \in Engines /\ Newest \in 0 .. MaxBars /\ halt \in BOOLEAN
      /\ decided \subseteq Directions \X BarTimes
  BY DEF EngineInv, EngineTypeOK
<1>2. CASE TickHalted
  <2> DEFINE next == [engine EXCEPT !.latched = TRUE]
  <2>1. /\ next \in Engines /\ next.at = "wait" /\ next.latched
        /\ next.floor = engine.floor /\ next.observed = engine.observed
    BY <1>1, <1>2 DEF Engines, TickHalted
  <2>2. engine' = next /\ UNCHANGED <<signals, acted, halt, validated, decided>>
    BY <1>2 DEF TickHalted
  <2> HIDE DEF next
  <2>3. ProcessOK(next, Newest, acted)
    BY <1>2, <2>1 DEF EngineInv, ProcessOK, InTick, TickHalted
  <2> QED BY <1>1, <2>1, <2>2, <2>3, EngineMoves
<1>3. /\ AfterHalt \in Engines /\ AfterHalt.at = engine.at /\ ~AfterHalt.latched
      /\ AfterHalt.floor = engine.floor /\ AfterHalt.observed = engine.observed
      /\ engine.at = "wait" => AfterHalt.errors < ErrorLimit
  <2> DEFINE errors == IF engine.latched THEN 0 ELSE engine.errors
  <2>1. /\ errors \in 0 .. ErrorLimit
        /\ engine.at = "wait" => errors < ErrorLimit
    BY <1>1 DEF Engines, EngineInv, ProcessOK
  <2>2. AfterHalt = [engine EXCEPT !.latched = FALSE, !.errors = errors]
    BY DEF AfterHalt
  <2> HIDE DEF errors
  <2> QED BY <1>1, <2>1, <2>2 DEF Engines
<1>4. CASE TickUnvalidated
  <2>1. engine' = AfterHalt /\ UNCHANGED <<signals, acted, halt, validated, decided>>
        /\ engine.at = "wait"
    BY <1>4 DEF TickUnvalidated
  <2>2. ProcessOK(AfterHalt, Newest, acted)
    BY <1>3, <2>1 DEF EngineInv, ProcessOK, InTick
  <2> QED BY <1>1, <1>3, <2>1, <2>2, EngineMoves
<1>5. CASE TickBegins
  <2> DEFINE next == [AfterHalt EXCEPT !.at = "market", !.clear = ~halt /\ validated]
  <2>1. engine' = next /\ UNCHANGED <<signals, acted, halt, validated, decided>>
        /\ engine.at = "wait" /\ ~halt /\ validated
    BY <1>5 DEF TickBegins, Halted
  <2>2. /\ next \in Engines /\ next.at = "market"
        /\ next.latched = AfterHalt.latched /\ next.errors = AfterHalt.errors
        /\ next.floor = AfterHalt.floor /\ next.observed = AfterHalt.observed
    BY <1>3 DEF Engines
  <2>3. next.clear
    BY <1>3, <2>1 DEF Engines
  <2> HIDE DEF next
  <2>4. ProcessOK(next, Newest, acted)
    BY <1>3, <2>1, <2>2, <2>3 DEF EngineInv, ProcessOK, InTick
  <2> QED BY <1>1, <2>1, <2>2, <2>4, EngineMoves
<1>6. CASE TickIdle
  BY <1>1, <1>6, AfterTick, EngineMoves DEF TickIdle, InTick
<1>7. CASE TickFails
  BY <1>1, <1>7, AfterTick, EngineMoves DEF TickFails, InTick
<1>8. CASE ReadBar
  <2> DEFINE next == [engine EXCEPT !.at = "signals", !.bar = Newest]
  <2>1. engine' = next /\ UNCHANGED <<signals, acted, halt, validated, decided>>
        /\ engine.at = "market" /\ Newest > 0
    BY <1>8 DEF ReadBar
  <2>2. /\ next \in Engines /\ next.at = "signals" /\ next.bar = Newest
        /\ next.latched = engine.latched /\ next.errors = engine.errors
        /\ next.clear = engine.clear
        /\ next.floor = engine.floor /\ next.observed = engine.observed
    BY <1>1 DEF Engines
  <2> HIDE DEF next
  <2>3. ProcessOK(next, Newest, acted)
    BY <2>1, <2>2 DEF EngineInv, ProcessOK, InTick
  <2> QED BY <1>1, <2>1, <2>2, <2>3, EngineMoves
<1> QED BY <1>2, <1>4, <1>5, <1>6, <1>7, <1>8

\* A set of bars has a latest one.
LEMMA LatestExists ==
    ASSUME NEW n \in Nat, NEW ts \in SUBSET (1 .. n), ts # {}
    PROVE  Latest(ts) \in ts
<1> DEFINE distances == {n - t : t \in ts}
           R == OpToRel(<, Nat)
<1>0. \A t \in ts : t \in Int /\ 1 <= t /\ t <= n
  OBVIOUS
<1>1. distances \subseteq Nat /\ distances # {}
  <2>1. \A t \in ts : n - t \in Nat
    BY <1>0
  <2> QED BY <2>1
<1>2. PICK d \in distances : \A c \in distances : ~(<<c, d>> \in R)
  <2>1. IsWellFoundedOn(R, Nat)
    BY NatLessThanWellFounded
  <2> HIDE DEF R, distances
  <2> QED BY <1>1, <2>1, WFMin
<1>3. \A c \in distances : ~(c < d)
  <2> HIDE DEF distances
  <2> QED BY <1>1, <1>2 DEF OpToRel
<1>4. PICK t \in ts : d = n - t
  OBVIOUS
<1>5. \A u \in ts : u <= t
  <2>1. \A u \in ts : ~(n - u < n - t)
    BY <1>3, <1>4
  <2> QED BY <1>0, <2>1
<1> QED BY <1>5 DEF Latest

\* The transition that is proposed was not observed before, and is observed now.
LEMMA SignalsFresh ==
    ASSUME EngineInv, engine.at = "signals", Actionable(engine.observed) # {}
    PROVE  LET t == Latest(Actionable(engine.observed))
           IN  /\ t \in BarTimes /\ t <= Newest /\ signals[t] \in Directions
               /\ engine.floor <= t
               /\ t \notin acted
<1> USE EngineAssumption
<1> DEFINE ts == Actionable(engine.observed)
           t == Latest(ts)
<1>1. engine \in Engines /\ Newest \in 0 .. MaxBars /\ acted \subseteq BarTimes
  BY DEF EngineInv, EngineTypeOK
<1>2. DOMAIN signals = 1 .. Newest
  BY DEF EngineInv, EngineTypeOK, Newest
<1>3. ts \in SUBSET (1 .. Newest)
  BY <1>2 DEF Actionable
<1>4. t \in ts
  <2>1. Newest \in Nat
    BY <1>1
  <2> HIDE DEF ts
  <2> QED BY <1>3, <2>1, LatestExists DEF ts
<1> HIDE DEF t
<1>5. signals[t] \in Directions /\ t \in 1 .. Newest
  BY <1>3, <1>4 DEF Actionable, IsTransition
<1>6. IF engine.observed = 0 THEN t = Newest ELSE t > engine.observed
  BY <1>4 DEF Actionable
<1>7. /\ engine.floor <= Newest /\ engine.observed \in 0 .. MaxBars
      /\ engine.floor \in 0 .. MaxBars
      /\ engine.observed = 0 \/ engine.observed >= engine.floor
      /\ \A u \in acted : u <= engine.observed
  BY <1>1 DEF EngineInv, ProcessOK, Engines
<1>8. t \in BarTimes /\ engine.floor <= t /\ t \notin acted
  BY <1>1, <1>5, <1>6, <1>7 DEF BarTimes
<1> QED BY <1>1, <1>5, <1>8 DEF t

\* Reading the signals observes all the bars, and proposes at most one transition.
LEMMA SignalsKeep ==
    ASSUME EngineInv, ReadSignals
    PROVE  EngineInv' /\ TransitionProposedOnce
<1> USE EngineAssumption
<1> DEFINE ts == Actionable(engine.observed)
           t == Latest(ts)
<1>1. /\ engine \in Engines /\ Newest \in 0 .. MaxBars /\ acted \subseteq BarTimes
      /\ engine.at = "signals"
      /\ decided \subseteq Directions \X BarTimes
  BY DEF EngineInv, EngineTypeOK, ReadSignals
<1>2. CASE ts = {}
  <2> DEFINE next == [Over EXCEPT !.observed = Newest]
  <2>1. engine' = next /\ UNCHANGED <<signals, acted, halt, validated, decided>>
    BY <1>2 DEF ReadSignals
  <2>2. Over \in Engines /\ Over.at = "wait" /\ Over.floor = engine.floor
        /\ ProcessOK(Over, Newest, acted)
    BY <1>1, AfterTick DEF InTick
  <2>3. /\ next \in Engines /\ next.at = "wait" /\ next.observed = Newest
        /\ next.errors = Over.errors /\ next.latched = Over.latched
        /\ next.floor = Over.floor
    BY <1>1, <2>2 DEF Engines
  <2> HIDE DEF next
  <2>4. \A u \in acted : engine.floor <= u /\ u <= Newest
    BY <1>1 DEF EngineInv, ProcessOK, Engines, BarTimes
  <2>5. ProcessOK(next, Newest, acted)
    BY <1>1, <2>2, <2>3, <2>4 DEF ProcessOK, InTick, Engines
  <2>6. EngineInv'
    BY <1>1, <2>1, <2>3, <2>5, EngineMoves DEF EngineInv, EngineTypeOK
  <2> QED BY <2>1, <2>3, <2>6 DEF TransitionProposedOnce
<1>3. CASE ts # {}
  <2>1. /\ t \in BarTimes /\ t <= Newest /\ signals[t] \in Directions
        /\ engine.floor <= t /\ t \notin acted
    BY <1>1, <1>3, SignalsFresh
  <2> DEFINE proposal == [side |-> signals[t], transition |-> t]
             next == [[engine EXCEPT !.observed = Newest] EXCEPT
                         !.at = "execute", !.proposal = proposal]
  <2>2. /\ engine' = next /\ acted' = acted \cup {t}
        /\ UNCHANGED <<signals, halt, validated, decided>>
    BY <1>3 DEF ReadSignals
  <2> HIDE DEF t
  <2>3. proposal \in Proposals /\ proposal # NoSignal /\ proposal.transition = t
    BY <2>1 DEF Proposals, NoSignal, Directions
  <2> HIDE DEF proposal
  <2>4. /\ next \in Engines /\ next.at = "execute" /\ next.observed = Newest
        /\ next.bar = engine.bar /\ next.errors = engine.errors
        /\ next.clear = engine.clear /\ next.latched = engine.latched
        /\ next.floor = engine.floor /\ next.proposal = proposal
    BY <1>1, <2>3 DEF Engines
  <2> HIDE DEF next
  <2>5. \A u \in acted \cup {t} : engine.floor <= u /\ u <= Newest
    BY <1>1, <2>1 DEF EngineInv, ProcessOK, Engines, BarTimes
  <2>6. ProcessOK(next, Newest, acted \cup {t})
    BY <1>1, <2>3, <2>4, <2>5 DEF EngineInv, ProcessOK, InTick, Engines
  <2>7. Newest' = Newest
    BY <2>2 DEF Newest
  <2>8. EngineInv'
    BY <1>1, <2>1, <2>2, <2>4, <2>6, <2>7 DEF EngineInv, EngineTypeOK
  <2> QED BY <2>1, <2>2, <2>3, <2>4, <2>8 DEF TransitionProposedOnce
<1> QED BY <1>2, <1>3

\* The gates record the id of a real proposal.
LEMMA ExecuteKeeps ==
    ASSUME EngineInv, Execute \/ ExecuteFails
    PROVE  EngineInv'
<1> USE EngineAssumption
<1>1. /\ engine \in Engines /\ engine.at = "execute" /\ halt \in BOOLEAN
      /\ decided \subseteq Directions \X BarTimes
  BY DEF EngineInv, EngineTypeOK, Execute, ExecuteFails
<1>2. DecisionId \in Directions \X BarTimes
  <2>1. engine.bar \in BarTimes
    BY <1>1 DEF EngineInv, ProcessOK, Engines, BarTimes
  <2>2. engine.proposal \in Proposals /\ engine.proposal # NoSignal
    BY <1>1 DEF EngineInv, ProcessOK, Engines
  <2>3. engine.proposal.side \in Directions
    BY <2>2 DEF Proposals
  <2> QED BY <2>1, <2>3 DEF DecisionId
<1>3. decided' \subseteq Directions \X BarTimes
  BY <1>1, <1>2 DEF Execute, ExecuteFails, Gates
<1>4. UNCHANGED <<signals, acted, validated>>
  BY DEF Execute, ExecuteFails
<1>5. halt' \in BOOLEAN /\ engine' \in Engines /\ ProcessOK(engine', Newest, acted)
  BY <1>1, AfterTick DEF Execute, ExecuteFails, InTick
<1> QED BY <1>3, <1>4, <1>5, EngineMoves

\* No tick begins against a halt, the errors before a resume are forgotten, no
\* transition is proposed twice by a process or was history when it started: for
\* any bars, backlog and limit, whoever halts, resumes and stores bars meanwhile
\* (engine_loop.py, canary_strategy.py).
THEOREM EngineHoldsHalts == EngineSpec => HaltsHold
<1>1. EngineInit => EngineInv
  <2> SUFFICES ASSUME EngineInit PROVE EngineInv
    OBVIOUS
  <2>1. EngineTypeOK
    <3>1. signals \in Seq(Directions \cup {"NONE"})
      BY DEF EngineInit
    <3>2. {halt, validated} \subseteq BOOLEAN
      BY Zenon DEF EngineInit
    <3> QED BY <3>1, <3>2, EngineNames DEF EngineInit, EngineTypeOK
  <2>2. Newest = 0
    BY DEF EngineInit, Newest
  <2>3. ProcessOK(engine, Newest, acted)
    BY EngineNames DEF EngineInit, ProcessOK, InTick
  <2> QED BY <2>1, <2>2, <2>3, EngineAssumption DEF EngineInv
<1>2. EngineInv /\ [EngineNext]_engineVars => EngineInv'
  BY AroundKeeps, TickKeeps, SignalsKeep, ExecuteKeeps DEF EngineNext
<1>3. EngineInv => TickIsClear
  BY DEF TickIsClear, EngineInv, ProcessOK, InTick, HaltStopsNextTick,
         FreshAfterResume, NoResurrection
<1>4. EngineInv /\ [EngineNext]_engineVars => [TransitionProposedOnce]_engineVars
  <2> SUFFICES ASSUME EngineInv, [EngineNext]_engineVars
               PROVE  [TransitionProposedOnce]_engineVars
    OBVIOUS
  <2>1. CASE ReadSignals
    BY <2>1, SignalsKeep
  <2>2. CASE ~ReadSignals
    <3>1. CASE \/ StartEngine \/ EngineEnds \/ TickHalted \/ TickUnvalidated
               \/ TickBegins \/ TickIdle \/ ReadBar \/ Execute \/ ExecuteFails
      BY <3>1, EngineNames
         DEF StartEngine, EngineEnds, TickHalted, TickUnvalidated, TickBegins, TickIdle,
             ReadBar, Execute, ExecuteFails, Engines, TransitionProposedOnce
    <3>2. CASE TickFails
      BY <3>2, AfterTick DEF TickFails, InTick, TransitionProposedOnce
    <3>3. CASE BarStored \/ OperateHalt \/ RecordValidation \/ UNCHANGED engineVars
      BY <3>3
         DEF BarStored, OperateHalt, RecordValidation, engineVars, TransitionProposedOnce
    <3> QED BY <2>2, <3>1, <3>2, <3>3 DEF EngineNext
  <2> QED BY <2>1, <2>2
<1>5. EngineInv /\ TickIsClear' /\ [EngineNext]_engineVars => [HaltStep]_engineVars
  BY <1>4 DEF HaltStep, TickIsClear
<1> QED BY <1>1, <1>2, <1>3, <1>5, PTL DEF EngineSpec, HaltsHold

-----------------------------------------------------------------------------
(* LabTrading: a promotion checks the account in one step and binds the        *)
(* pointer in another, while others trade the account.                         *)

LabAt == {"idle", "promote", "own", "evaluate"}

TradingInv ==
    /\ TradingTypeOK
    /\ minute \in 0 .. MaxMinute
    /\ OneActive
    /\ NoStrandedExposure
    \* A flat account has no exposure, and so nobody who opened it.
    /\ paper.position = 0 => opener = Nobody
    \* A promotion under way found a flat account; what was opened since then
    \* is of others.
    /\ lab.at = "promote" => lab.id \in Candidates /\ opener \notin Candidates
    \* A trade under way is of the deployed candidate.
    /\ lab.at \in {"own", "evaluate"} =>
          lab.id \in Candidates /\ row[lab.id].state = "active"

\* A change of the exposure leaves the opener, or makes it who traded.
LEMMA OpenerCases ==
    ASSUME paper.position \in Targets, NEW who, NEW position \in Targets
    PROVE  /\ OpenerAfter(who, position) \in {Nobody, opener, who}
           /\ position = 0 => OpenerAfter(who, position) = Nobody
BY DEF OpenerAfter, Targets

\* Steps around the lab: time, trades of others, switches, a crash.
LEMMA WorldKeeps ==
    ASSUME TradingInv, MinuteCloses \/ OutsideTrade \/ OutsideSwitch \/ LabCrash
    PROVE  TradingInv'
<1> USE TradingAssumption DEF TradingInv, TradingTypeOK
<1>1. CASE MinuteCloses
  BY <1>1 DEF MinuteCloses, OneActive, NoStrandedExposure
<1>2. CASE OutsideTrade
  <2>1. PICK position \in Targets :
            /\ paper' = [paper EXCEPT !.position = position]
            /\ opener' = OpenerAfter("outside", position)
    BY <1>2 DEF OutsideTrade
  <2>2. /\ paper' \in [stopped : BOOLEAN, position : Targets]
        /\ paper'.position = position
    BY <2>1
  <2>3. opener' \in {Nobody, opener, "outside"} /\ (position = 0 => opener' = Nobody)
    BY <2>1, OpenerCases
  <2>4. UNCHANGED <<row, active, shadow, intent, positionOwner, lab, minute>>
    BY <1>2 DEF OutsideTrade
  <2> QED BY <2>2, <2>3, <2>4 DEF OneActive, NoStrandedExposure
<1>3. CASE OutsideSwitch
  <2>1. /\ paper' \in [stopped : BOOLEAN, position : Targets]
        /\ paper'.position = paper.position
    BY <1>3 DEF OutsideSwitch
  <2> QED BY <1>3, <2>1 DEF OutsideSwitch, OneActive, NoStrandedExposure
<1>4. CASE LabCrash
  BY <1>4 DEF LabCrash, NoWork, OneActive, NoStrandedExposure
<1> QED BY <1>1, <1>2, <1>3, <1>4

\* Research, observation, scoring and pruning never touch the active row.
LEMMA ResearchKeeps ==
    ASSUME TradingInv, NEW i \in Candidates,
           Assess(i) \/ ShadowTick(i) \/ Score(i) \/ PruneShadow(i) \/ PromotionChecks(i)
    PROVE  TradingInv'
<1> USE TradingAssumption DEF TradingInv, TradingTypeOK
<1>1. CASE Assess(i) \/ Score(i)
  <2>1. PICK new \in Rows :
            /\ row' = [row EXCEPT ![i] = new]
            /\ new.state # "active" /\ row[i].state # "active"
    <3>1. CASE Assess(i)
      <4>1. PICK state \in {"probation", "rejected"} :
                row' = [row EXCEPT ![i] = [state |-> state, created |-> minute]]
        BY <3>1 DEF Assess
      <4>2. [state |-> state, created |-> minute] \in Rows
        BY DEF Rows, States
      <4> QED BY <3>1, <4>1, <4>2 DEF Assess
    <3>2. CASE Score(i)
      <4>1. PICK state \in {"qualified", "rejected_forward"} :
                row' = [row EXCEPT ![i].state = state]
        BY <3>2 DEF Score
      <4> DEFINE new == [row[i] EXCEPT !.state = state]
      <4>2. new \in Rows /\ new.state = state
        BY DEF Rows, States
      <4>3. row' = [row EXCEPT ![i] = new]
        BY <4>1
      <4> QED BY <3>2, <4>2, <4>3 DEF Score, Unscored, FORWARD
    <3> QED BY <1>1, <3>1, <3>2
  <2>2. UNCHANGED <<active, shadow, intent, positionOwner, paper, lab, minute, opener>>
        /\ lab.at = "idle"
    BY <1>1 DEF Assess, Score
  <2>3. row' \in [Candidates -> Rows]
    BY <2>1
  <2>4. \A j \in Candidates : row'[j].state = "active" <=> row[j].state = "active"
    BY <2>1
  <2> QED BY <2>2, <2>3, <2>4 DEF OneActive, NoStrandedExposure
<1>2. CASE ShadowTick(i)
  <2>1. PICK s \in Shadows : shadow' = [shadow EXCEPT ![i] = s]
    <3>1. PICK desired \in Targets, stops \in BOOLEAN :
              shadow' = [shadow EXCEPT ![i] =
                 [seen     |-> shadow[i].seen \cup {minute},
                  stopped  |-> shadow[i].stopped \/ stops,
                  bar      |-> minute,
                  position |-> IF shadow[i].bar = minute \/ shadow[i].stopped
                               THEN shadow[i].position
                               ELSE Toward(shadow[i].position, desired)]]
      BY <1>2 DEF ShadowTick
    <3>2. minute \in 1 .. MaxMinute
      BY <1>2 DEF ShadowTick, Expected, ForwardEnd, Rows
    <3>3. shadow[i] \in Shadows /\ Toward(shadow[i].position, desired) \in Targets
      BY DEF Toward, Targets
    <3> QED BY <3>1, <3>2, <3>3 DEF Shadows
  <2> QED BY <1>2, <2>1 DEF ShadowTick, OneActive, NoStrandedExposure
<1>3. CASE PruneShadow(i)
  <2>1. FreshShadow \in Shadows
    BY DEF FreshShadow, Shadows, Targets
  <2> QED BY <1>3, <2>1 DEF PruneShadow, OneActive, NoStrandedExposure
<1>4. CASE PromotionChecks(i)
  BY <1>4 DEF PromotionChecks, MayPromote, OneActive, NoStrandedExposure
<1> QED BY <1>1, <1>2, <1>3, <1>4

\* The new candidate is bound while no candidate has an exposure.
LEMMA PromotionKeeps ==
    ASSUME TradingInv, PromotionCommits
    PROVE  TradingInv'
<1> USE TradingAssumption DEF TradingInv, TradingTypeOK
<1>1. lab.id \in Candidates /\ opener \notin Candidates
  BY DEF PromotionCommits
<1>2. /\ Retired \in [Candidates -> Rows]
      /\ \A j \in Candidates : Retired[j].state # "active"
  <2>1. \A j \in Candidates : [row[j] EXCEPT !.state = "retired"] \in Rows
    BY DEF Rows, States
  <2>2. \A j \in Candidates : [row[j] EXCEPT !.state = "retired"].state = "retired"
    BY DEF Rows
  <2> QED BY <2>1, <2>2 DEF Retired
<1> DEFINE new == [Retired[lab.id] EXCEPT !.state = "active"]
<1>3. new \in Rows /\ new.state = "active"
  BY <1>1, <1>2 DEF Rows, States
<1>4. row' = [Retired EXCEPT ![lab.id] = new]
  BY <1>1, <1>2 DEF PromotionCommits
<1> HIDE DEF new
<1>5. /\ row' \in [Candidates -> Rows]
      /\ \A j \in Candidates : row'[j].state = "active" <=> j = lab.id
  BY <1>1, <1>2, <1>3, <1>4
<1> QED BY <1>1, <1>5 DEF PromotionCommits, NoWork, OneActive, NoStrandedExposure

\* Only the deployed candidate trades, and what it opens is its own.
LEMMA TradeKeeps ==
    ASSUME TradingInv, TradeIntends \/ TradeOwns \/ TradeFills \/ TradeRefused
    PROVE  TradingInv'
<1> USE TradingAssumption DEF TradingInv, TradingTypeOK
<1>1. CASE TradeIntends
  <2>1. lab' = [at |-> "own", id |-> Active]
        /\ UNCHANGED <<row, active, shadow, positionOwner, paper, minute, opener>>
    BY <1>1 DEF TradeIntends
  <2>2. Active \in Candidates /\ row[Active].state = "active"
    BY <1>1 DEF TradeIntends, Active
  <2> QED BY <2>1, <2>2 DEF OneActive, NoStrandedExposure
<1>2. CASE TradeOwns
  <2>1. lab' \in [at : LabAt, id : Candidates \cup {Nobody}]
        /\ lab'.at = "evaluate" /\ lab'.id = lab.id
    BY <1>2 DEF TradeOwns, LabAt
  <2> QED BY <1>2, <2>1 DEF TradeOwns, LabAt, OneActive, NoStrandedExposure
<1>3. CASE TradeFills
  <2> DEFINE position == paper.position + intent.delta
  <2>1. position \in Targets /\ paper' = [paper EXCEPT !.position = position]
        /\ opener' = OpenerAfter(lab.id, position)
    BY <1>3 DEF TradeFills
  <2> HIDE DEF position
  <2>2. /\ paper' \in [stopped : BOOLEAN, position : Targets]
        /\ paper'.position = position
    BY <2>1
  <2>3. opener' \in {Nobody, opener, lab.id} /\ (position = 0 => opener' = Nobody)
    BY <2>1, OpenerCases
  <2>4. lab' = NoWork /\ UNCHANGED <<row, active, shadow, intent, positionOwner, minute>>
        /\ lab.at = "evaluate"
    BY <1>3 DEF TradeFills
  <2> QED BY <2>2, <2>3, <2>4 DEF NoWork, OneActive, NoStrandedExposure
<1>4. CASE TradeRefused
  BY <1>4 DEF TradeRefused, NoWork, OneActive, NoStrandedExposure
<1> QED BY <1>1, <1>2, <1>3, <1>4

\* What a step may do to a row, to the observations and to the intent.
LEMMA TradingActs ==
    ASSUME TradingInv, [TradingNext]_tradingVars
    PROVE  ObservedBeforeQualified /\ ObservationsKept /\ IntentFrozen
<1> USE TradingAssumption DEF TradingInv, TradingTypeOK
<1>1. CASE \/ UNCHANGED tradingVars
           \/ MinuteCloses \/ OutsideTrade \/ OutsideSwitch \/ LabCrash
           \/ TradeOwns \/ TradeFills \/ TradeRefused
           \/ \E i \in Candidates : PromotionChecks(i)
  <2>1. UNCHANGED <<row, shadow, intent>>
    BY <1>1 DEF tradingVars, MinuteCloses, OutsideTrade, OutsideSwitch, LabCrash,
                TradeOwns, TradeFills, TradeRefused, PromotionChecks
  <2> QED BY <2>1 DEF ObservedBeforeQualified, ObservationsKept, IntentFrozen
<1>2. ASSUME NEW i \in Candidates, Assess(i)
      PROVE  ObservedBeforeQualified /\ ObservationsKept /\ IntentFrozen
  BY <1>2 DEF Assess, ObservedBeforeQualified, ObservationsKept, IntentFrozen
<1>3. ASSUME NEW i \in Candidates, Score(i)
      PROVE  ObservedBeforeQualified /\ ObservationsKept /\ IntentFrozen
  <2>1. PICK earned \in BOOLEAN :
            row' = [row EXCEPT ![i].state =
                      IF Passes(i, earned) THEN "qualified" ELSE "rejected_forward"]
    BY <1>3 DEF Score
  <2>2. row[i].state = "probation" /\ UNCHANGED <<shadow, intent>>
    BY <1>3 DEF Score, Unscored, FORWARD
  <2>3. row'[i].state = "qualified" => Expected(i) \subseteq shadow[i].seen
    BY <2>1 DEF Passes, Covered, Rows
  <2>4. \A j \in Candidates : j # i => row'[j] = row[j]
    BY <2>1
  <2> QED BY <2>2, <2>3, <2>4 DEF ObservedBeforeQualified, ObservationsKept, IntentFrozen
<1>4. ASSUME NEW i \in Candidates, ShadowTick(i) \/ PruneShadow(i)
      PROVE  ObservedBeforeQualified /\ ObservationsKept /\ IntentFrozen
  <2>1. UNCHANGED <<row, intent>>
    BY <1>4 DEF ShadowTick, PruneShadow
  <2>2. row[i].state = "probation" => shadow[i].seen \subseteq shadow'[i].seen
    <3>1. CASE ShadowTick(i)
      BY <3>1 DEF ShadowTick
    <3>2. CASE PruneShadow(i)
      BY <3>2 DEF PruneShadow, Inactive
    <3> QED BY <1>4, <3>1, <3>2
  <2>3. \A j \in Candidates : j # i => shadow'[j] = shadow[j]
    BY <1>4 DEF ShadowTick, PruneShadow
  <2> QED BY <2>1, <2>2, <2>3 DEF ObservedBeforeQualified, ObservationsKept, IntentFrozen
<1>5. CASE PromotionCommits
  <2>1. UNCHANGED <<shadow, intent>>
    BY <1>5 DEF PromotionCommits
  <2>2. \A j \in Candidates :
            row'[j].state \in {"probation", "qualified"} => row[j].state = row'[j].state
    BY <1>5 DEF PromotionCommits, Retired, Rows
  <2> QED BY <2>1, <2>2 DEF ObservedBeforeQualified, ObservationsKept, IntentFrozen
<1>6. CASE TradeIntends
  <2>1. UNCHANGED <<row, shadow>>
    BY <1>6 DEF TradeIntends
  <2>2. intent'.id = Active /\ intent'.bar = minute
    BY <1>6 DEF TradeIntends
  <2>3. ~(intent.id = Active /\ intent.bar = minute)
    BY <1>6 DEF TradeIntends, DuplicateBar
  <2> QED BY <2>1, <2>2, <2>3 DEF ObservedBeforeQualified, ObservationsKept, IntentFrozen
<1> QED BY <1>1, <1>2, <1>3, <1>4, <1>5, <1>6 DEF TradingNext

\* One candidate trades, it was observed for its whole window, it owns its exposure
\* until that is gone, and a bar is traded on one intent: for any candidates,
\* windows, crashes and trades of others (lab.py, lab_store.py).
THEOREM CandidatesStaySafe == TradingSpec => CandidatesTradeSafely
<1>1. TradingInit => TradingInv
  BY TradingAssumption
     DEF TradingInit, TradingInv, TradingTypeOK, Rows, States, Shadows, FreshShadow,
         Targets, NoWork, OneActive, NoStrandedExposure
<1>2. TradingInv /\ [TradingNext]_tradingVars => TradingInv'
  <2> SUFFICES ASSUME TradingInv, [TradingNext]_tradingVars PROVE TradingInv'
    OBVIOUS
  <2>1. CASE UNCHANGED tradingVars
    BY <2>1 DEF tradingVars, TradingInv, TradingTypeOK, OneActive, NoStrandedExposure
  <2> QED BY <2>1, WorldKeeps, ResearchKeeps, PromotionKeeps, TradeKeeps DEF TradingNext
<1>3. TradingInv /\ TradingInv' /\ [TradingNext]_tradingVars => [TradingStep]_tradingVars
  BY TradingActs DEF TradingStep, TradingInv
<1> QED BY <1>1, <1>2, <1>3, PTL DEF TradingSpec, CandidatesTradeSafely

-----------------------------------------------------------------------------
(* AgentLoop: who may have closed a row, and who has ended without a word.     *)

Working == {"wait", "check", "plan", "tool"}

\* A runner that is on has a row of its own, which says that it runs unless a
\* later start of its family took it for an orphan, before its own start was over
\* or after.
RunnerOK(p) ==
    /\ loop[p].at # "off" => loop[p].run \in 1 .. MaxRuns
    /\ loop[p].at \in {"starting"} \cup Working /\ RowOf(p) \notin contested =>
          rows[RowOf(p)] = "running"
    /\ loop[p].at = "tool" => loop[p].step < MaxSteps

AgentInv ==
    /\ TypeOK
    /\ \A p \in Procs : RunnerOK(p)
    /\ FilledIsTrue
    /\ NoDeadRunShown

\* Bounds are naturals, and there is a first bar.
LEMMA AgentSizes ==
    /\ 1 \in AgentBars /\ MaxBar \in Nat /\ MaxSteps \in Nat /\ MaxCalls \in Nat /\ MaxRuns \in Nat
    /\ 0 \in 0 .. MaxSteps /\ 0 \in 0 .. MaxCalls /\ 0 \in 0 .. MaxRuns /\ 0 \in 0 .. MaxBar
BY AgentAssumption DEF AgentBars

\* The rows of two processes are two, and a process that is on has one.
LEMMA RowsAreRuns ==
    ASSUME TypeOK, NEW p \in Procs, RunnerOK(p)
    PROVE  /\ loop[p].at # "off" => RowOf(p) \in Runs
           /\ \A q \in Procs : RowOf(q) = RowOf(p) => q = p
BY DEF RunnerOK, RowOf, Runs

\* A step of one runner alone, which leaves its row and its being alive as they are.
LEMMA RunnerMoves ==
    ASSUME AgentInv, NEW p \in Procs, NEW next \in Loops,
           next.run = loop[p].run, loop[p].at \in Working, next.at \in Working,
           next.at = "tool" => next.step < MaxSteps,
           loop' = [loop EXCEPT ![p] = next],
           UNCHANGED <<rows, contested, crashed>>,
           market' \in [bar : AgentBars, is : {"fresh", "stale", "closed"}],
           calls' \in [CallIds -> Calls], FilledIsTrue',
           verdicts' \in [AgentBars -> Verdicts], called' \in 0 .. MaxCalls
    PROVE  AgentInv'
<1> USE DEF AgentInv
<1>1. loop \in [Procs -> Loops] /\ loop' \in [Procs -> Loops]
  BY DEF TypeOK
<1>2. TypeOK'
  BY <1>1 DEF TypeOK, Loops, Working
<1>3. \A q \in Procs : RowOf(q)' = RowOf(q)
  BY <1>1 DEF RowOf
<1>4. \A q \in Procs : RunnerOK(q)'
  BY <1>1, <1>3 DEF RunnerOK, Working
<1>5. \A q \in Procs : Live(q)' = Live(q)
  <2>1. \A q \in Procs : Live(q)' <=> Live(q)
    BY <1>1 DEF Live, Working
  <2> QED BY <2>1 DEF Live
<1>6. NoDeadRunShown'
  BY <1>3, <1>5 DEF NoDeadRunShown, Runs
<1> QED BY <1>2, <1>4, <1>6

\* A process starts with the first row it has not had.
LEMMA StartRunKeeps ==
    ASSUME AgentInv, NEW p \in Procs, StartRun(p)
    PROVE  AgentInv'
<1> USE DEF AgentInv
<1>1. PICK n \in 1 .. MaxRuns :
        /\ rows[<<p, n>>] = "none"
        /\ rows' = [rows EXCEPT ![<<p, n>>] = "running"]
        /\ loop' = [loop EXCEPT ![p] = [Off EXCEPT !.at = "starting", !.run = n]]
  BY DEF StartRun
<1>2. loop[p].at = "off" /\ UNCHANGED <<market, acting, contested, crashed>>
  BY DEF StartRun
<1> DEFINE next == [Off EXCEPT !.at = "starting", !.run = n]
<1>3. next \in Loops /\ next.at = "starting" /\ next.run = n
  <2>1. n \in 0 .. MaxRuns
    BY AgentSizes
  <2> QED BY <2>1, AgentSizes DEF Loops, Off
<1> HIDE DEF next
<1>4. <<p, n>> \in Runs
  BY DEF Runs
<1>5. loop \in [Procs -> Loops] /\ loop' = [loop EXCEPT ![p] = next]
  BY <1>1 DEF TypeOK, next
<1>6. TypeOK'
  BY <1>1, <1>2, <1>3, <1>4, <1>5 DEF TypeOK, acting
<1>7. RowOf(p)' = <<p, n>> /\ \A q \in Procs : q # p => RowOf(q)' = RowOf(q) /\ RowOf(q) # <<p, n>>
  BY <1>3, <1>5 DEF RowOf
<1>8. \A q \in Procs : RunnerOK(q)'
  <2>1. RunnerOK(p)'
    BY <1>1, <1>3, <1>4, <1>5, <1>7 DEF RunnerOK, Working, TypeOK
  <2>2. ASSUME NEW q \in Procs, q # p PROVE RunnerOK(q)'
    <3>1. loop'[q] = loop[q] /\ RowOf(q)' = RowOf(q) /\ contested' = contested
      BY <1>2, <1>5, <2>2, <1>7
    <3>2. rows'[RowOf(q)] = rows[RowOf(q)] \/ RowOf(q) \notin Runs
      BY <1>1, <1>7, <2>2 DEF TypeOK
    <3>3. loop[q].at # "off" => RowOf(q) \in Runs
      BY RowsAreRuns
    <3> QED BY <3>1, <3>2, <3>3 DEF RunnerOK, Working
  <2> QED BY <2>1, <2>2
<1>9. NoDeadRunShown'
  <2> SUFFICES ASSUME NEW r \in Runs, rows'[r] = "running", r \notin crashed
               PROVE  Live(r[1])' /\ RowOf(r[1])' = r
    BY <1>2 DEF NoDeadRunShown
  <2>1. r[1] \in Procs
    BY DEF Runs
  <2>2. CASE r = <<p, n>>
    BY <1>3, <1>5, <1>7, <2>2 DEF Live, TypeOK
  <2>3. CASE r # <<p, n>>
    <3>1. rows[r] = "running"
      BY <1>1, <2>3 DEF TypeOK
    <3>2. Live(r[1]) /\ RowOf(r[1]) = r
      BY <3>1 DEF NoDeadRunShown
    <3>3. r[1] # p
      BY <1>2, <3>2 DEF Live
    <3> QED BY <1>5, <1>7, <2>1, <3>2, <3>3 DEF Live
  <2> QED BY <2>2, <2>3
<1>10. FilledIsTrue'
  BY <1>2 DEF FilledIsTrue, acting
<1> QED BY <1>6, <1>8, <1>9, <1>10

\* A start closes what it takes for orphans, and says so: whoever is on in its
\* family is contested from now on.
LEMMA ReconcileKeeps ==
    ASSUME AgentInv, NEW p \in Procs, Reconcile(p)
    PROVE  AgentInv'
<1> USE DEF AgentInv
<1> DEFINE next == [loop[p] EXCEPT !.at = "wait"]
<1>1. /\ loop \in [Procs -> Loops] /\ loop' = [loop EXCEPT ![p] = next]
      /\ loop[p].at = "starting"
  BY DEF TypeOK, Reconcile
<1>2. /\ rows' = [r \in Runs |-> IF r \in Orphans(p) THEN "stopped" ELSE rows[r]]
      /\ contested' = contested \cup
           {RowOf(q) : q \in {q \in Procs \ {p} : loop[q].at # "off" /\ SameFamily(p, q)}}
      /\ crashed' = {r \in crashed : ~SameFamily(p, r[1])}
      /\ UNCHANGED <<market, acting>>
  BY DEF Reconcile
<1>3. next \in Loops /\ next.at = "wait" /\ next.run = loop[p].run
  BY <1>1 DEF Loops
<1> HIDE DEF next
<1>4. \A q \in Procs : loop[q].at # "off" => RowOf(q) \in Runs
  BY RowsAreRuns
<1>5. contested' \subseteq Runs /\ crashed' \subseteq Runs
  BY <1>2, <1>4 DEF TypeOK
<1>6. rows' \in [Runs -> {"none", "running", "stopped"}]
  BY <1>2 DEF TypeOK
<1>7. TypeOK'
  BY <1>1, <1>2, <1>3, <1>5, <1>6 DEF TypeOK, acting
<1>8. \A q \in Procs : RowOf(q)' = RowOf(q)
  BY <1>1, <1>3 DEF RowOf
<1>9. ASSUME NEW q \in Procs PROVE RunnerOK(q)'
  <2>1. RowOf(q) \notin contested' /\ loop[q].at # "off" => rows'[RowOf(q)] = rows[RowOf(q)]
    <3> SUFFICES ASSUME RowOf(q) \notin contested', loop[q].at # "off"
                 PROVE  RowOf(q) \notin Orphans(p)
      BY <1>2, <1>4
    <3>1. q = p \/ ~SameFamily(p, q)
      BY <1>2
    <3> QED BY <3>1 DEF Orphans, RowOf
  <2>2. RowOf(q) \notin contested' => RowOf(q) \notin contested
    BY <1>2
  <2>3. q = p \/ loop'[q] = loop[q]
    BY <1>1
  <2>4. loop'[p].at = "wait" /\ loop'[p].run = loop[p].run
    BY <1>1, <1>3
  <2> QED BY <1>1, <1>8, <2>1, <2>2, <2>3, <2>4 DEF RunnerOK, Working
<1>10. NoDeadRunShown'
  <2> SUFFICES ASSUME NEW r \in Runs, rows'[r] = "running", r \notin crashed'
               PROVE  Live(r[1])' /\ RowOf(r[1])' = r
    BY DEF NoDeadRunShown
  <2>1. r[1] \in Procs
    BY DEF Runs
  <2>2. rows[r] = "running" /\ r \notin Orphans(p)
    BY <1>2
  <2>3. r = RowOf(p) \/ ~SameFamily(p, r[1])
    BY <2>2 DEF Orphans
  <2>4. CASE r = RowOf(p)
    <3>1. r[1] = p
      BY <2>4 DEF RowOf
    <3> QED BY <1>1, <1>3, <1>8, <2>4, <3>1 DEF Live
  <2>5. CASE r # RowOf(p)
    <3>1. r \notin crashed
      BY <1>2, <2>3, <2>5
    <3>2. Live(r[1]) /\ RowOf(r[1]) = r
      BY <2>2, <3>1 DEF NoDeadRunShown
    <3>3. r[1] # p
      BY <2>5, <3>2
    <3> QED BY <1>1, <1>8, <2>1, <3>2, <3>3 DEF Live
  <2> QED BY <2>4, <2>5
<1>11. FilledIsTrue'
  BY <1>2 DEF FilledIsTrue, acting
<1> QED BY <1>7, <1>9, <1>10, <1>11

\* A run ends with its row closed.
LEMMA StopRunKeeps ==
    ASSUME AgentInv, NEW p \in Procs, StopRun(p)
    PROVE  AgentInv'
<1> USE DEF AgentInv
<1> DEFINE next == [Off EXCEPT !.at = "exiting", !.run = loop[p].run]
           closed == IF rows[RowOf(p)] = "running" THEN "stopped" ELSE rows[RowOf(p)]
<1>1. /\ loop \in [Procs -> Loops] /\ loop' = [loop EXCEPT ![p] = next]
      /\ loop[p].at = "wait" /\ rows' = [rows EXCEPT ![RowOf(p)] = closed]
      /\ UNCHANGED <<market, acting, contested, crashed>>
  BY DEF TypeOK, StopRun
<1>2. RowOf(p) \in Runs /\ \A q \in Procs : RowOf(q) = RowOf(p) => q = p
  BY <1>1, RowsAreRuns
<1>3. next \in Loops /\ next.at = "exiting" /\ next.run = loop[p].run
  BY <1>1, AgentSizes DEF Loops, Off
<1>4. closed \in {"none", "stopped"}
  BY <1>2 DEF TypeOK
<1> HIDE DEF next, closed
<1>5. TypeOK'
  BY <1>1, <1>3, <1>4 DEF TypeOK, acting
<1>6. \A q \in Procs : RowOf(q)' = RowOf(q)
  BY <1>1, <1>3 DEF RowOf
<1>7. ASSUME NEW q \in Procs PROVE RunnerOK(q)'
  <2>1. CASE q = p
    BY <1>1, <1>3, <2>1 DEF RunnerOK, Working
  <2>2. CASE q # p
    <3>1. loop'[q] = loop[q] /\ RowOf(q)' = RowOf(q) /\ contested' = contested
      BY <1>1, <1>6, <2>2
    <3>2. loop[q].at # "off" => rows'[RowOf(q)] = rows[RowOf(q)]
      BY <1>1, <1>2, <2>2, RowsAreRuns DEF TypeOK
    <3> QED BY <3>1, <3>2 DEF RunnerOK, Working
  <2> QED BY <2>1, <2>2
<1>8. NoDeadRunShown'
  <2> SUFFICES ASSUME NEW r \in Runs, rows'[r] = "running", r \notin crashed
               PROVE  Live(r[1])' /\ RowOf(r[1])' = r
    BY <1>1 DEF NoDeadRunShown
  <2>1. r[1] \in Procs
    BY DEF Runs
  <2>2. r # RowOf(p) /\ rows[r] = "running"
    BY <1>1, <1>2, <1>4 DEF TypeOK
  <2>3. Live(r[1]) /\ RowOf(r[1]) = r
    BY <2>2 DEF NoDeadRunShown
  <2>4. r[1] # p
    BY <2>2, <2>3
  <2> QED BY <1>1, <1>6, <2>1, <2>3, <2>4 DEF Live
<1>9. FilledIsTrue'
  BY <1>1 DEF FilledIsTrue, acting
<1> QED BY <1>5, <1>7, <1>8, <1>9

\* A process ends, in peace or killed: then its row is remembered.
LEMMA EndKeeps ==
    ASSUME AgentInv, NEW p \in Procs, Exit(p) \/ Crash(p)
    PROVE  AgentInv'
<1> USE DEF AgentInv
<1>1. /\ loop \in [Procs -> Loops] /\ loop' = [loop EXCEPT ![p] = Off]
      /\ loop[p].at # "off" /\ UNCHANGED <<market, rows, verdicts, called, contested>>
      /\ crashed \subseteq crashed'
      /\ loop[p].at = "exiting" \/ RowOf(p) \in crashed'
      /\ crashed' \subseteq crashed \cup {RowOf(p)}
  BY DEF TypeOK, Exit, Crash, acting
<1>2. /\ calls' \in [CallIds -> Calls]
      /\ \A n \in CallIds : calls'[n] = calls[n] \/ calls'[n] = NoCall
  <2>1. NoCall \in Calls
    BY AgentSizes DEF NoCall, Calls
  <2> QED BY <2>1 DEF TypeOK, Exit, Crash, acting
<1>3. Off \in Loops /\ Off.at = "off"
  BY AgentSizes DEF Loops, Off
<1>4. RowOf(p) \in Runs
  BY <1>1, RowsAreRuns
<1>5. TypeOK'
  BY <1>1, <1>2, <1>3, <1>4 DEF TypeOK
<1>6. \A q \in Procs : q # p => RowOf(q)' = RowOf(q) /\ loop'[q] = loop[q]
  BY <1>1 DEF RowOf
<1>7. loop'[p] = Off
  BY <1>1
<1>8. ASSUME NEW q \in Procs PROVE RunnerOK(q)'
  BY <1>1, <1>3, <1>6, <1>7 DEF RunnerOK, Working
<1>9. NoDeadRunShown'
  <2> SUFFICES ASSUME NEW r \in Runs, rows[r] = "running", r \notin crashed'
               PROVE  Live(r[1])' /\ RowOf(r[1])' = r
    BY <1>1 DEF NoDeadRunShown
  <2>1. r[1] \in Procs
    BY DEF Runs
  <2>2. Live(r[1]) /\ RowOf(r[1]) = r
    BY <1>1 DEF NoDeadRunShown
  <2>3. r[1] # p
    BY <1>1, <2>2 DEF Live
  <2> QED BY <1>6, <2>1, <2>2, <2>3 DEF Live
<1>10. FilledIsTrue'
  <2>1. ~NoCall.told
    BY DEF NoCall
  <2> QED BY <1>2, <2>1 DEF FilledIsTrue
<1> QED BY <1>5, <1>8, <1>9, <1>10

\* A tick begins by taking the row back.
LEMMA TickResumesKeeps ==
    ASSUME AgentInv, NEW p \in Procs, TickResumes(p)
    PROVE  AgentInv'
<1> USE DEF AgentInv
<1> DEFINE next == [loop[p] EXCEPT !.at = "check", !.step = 0]
<1>1. /\ loop \in [Procs -> Loops] /\ loop' = [loop EXCEPT ![p] = next]
      /\ loop[p].at = "wait" /\ rows' = [rows EXCEPT ![RowOf(p)] = "running"]
      /\ UNCHANGED <<market, acting, contested, crashed>>
  BY DEF TypeOK, TickResumes
<1>2. next \in Loops /\ next.at = "check" /\ next.run = loop[p].run
  BY <1>1, AgentSizes DEF Loops
<1> HIDE DEF next
<1>3. RowOf(p) \in Runs /\ \A q \in Procs : RowOf(q) = RowOf(p) => q = p
  BY <1>1, RowsAreRuns
<1>4. TypeOK'
  BY <1>1, <1>2 DEF TypeOK, acting
<1>5. \A q \in Procs : RowOf(q)' = RowOf(q)
  BY <1>1, <1>2 DEF RowOf
<1>6. ASSUME NEW q \in Procs PROVE RunnerOK(q)'
  <2>1. CASE q = p
    BY <1>1, <1>2, <1>3, <1>5, <2>1 DEF RunnerOK, Working, TypeOK
  <2>2. CASE q # p
    <3>1. loop'[q] = loop[q] /\ RowOf(q)' = RowOf(q) /\ contested' = contested
      BY <1>1, <1>5, <2>2
    <3>2. loop[q].at # "off" => rows'[RowOf(q)] = rows[RowOf(q)]
      BY <1>1, <1>3, <2>2, RowsAreRuns DEF TypeOK
    <3> QED BY <3>1, <3>2 DEF RunnerOK, Working
  <2> QED BY <2>1, <2>2
<1>7. NoDeadRunShown'
  <2> SUFFICES ASSUME NEW r \in Runs, rows'[r] = "running", r \notin crashed
               PROVE  Live(r[1])' /\ RowOf(r[1])' = r
    BY <1>1 DEF NoDeadRunShown
  <2>1. r[1] \in Procs
    BY DEF Runs
  <2>2. Live(p)'
    BY <1>1, <1>2 DEF Live
  <2>3. CASE r = RowOf(p)
    <3>1. r[1] = p
      BY <2>3 DEF RowOf
    <3> QED BY <1>5, <2>2, <2>3, <3>1
  <2>4. CASE r # RowOf(p)
    <3>1. Live(r[1]) /\ RowOf(r[1]) = r
      BY <1>1, <2>4 DEF NoDeadRunShown, TypeOK
    <3> QED BY <1>1, <1>5, <2>1, <2>4, <3>1 DEF Live
  <2> QED BY <2>3, <2>4
<1>8. FilledIsTrue'
  BY <1>1 DEF FilledIsTrue, acting
<1> QED BY <1>4, <1>6, <1>7, <1>8

\* The rest of a tick leaves rows alone; a step of the planner is spent by a tool.
LEMMA TickMovesKeeps ==
    ASSUME AgentInv, NEW p \in Procs,
           \/ TickGated(p) \/ TickRefreshes(p) \/ TickPlans(p) \/ PlanEnds(p)
           \/ CallTool(p) \/ ToolReturns(p) \/ ToolTimesOut(p)
    PROVE  AgentInv'
<1>0. loop \in [Procs -> Loops] /\ loop[p] \in Loops /\ loop[p].at \in Working
  BY DEF AgentInv, TypeOK, Loops, Working, TickGated, TickRefreshes, TickPlans,
     PlanEnds, CallTool, ToolReturns, ToolTimesOut
<1>1. /\ market \in [bar : AgentBars, is : {"fresh", "stale", "closed"}]
      /\ calls \in [CallIds -> Calls] /\ FilledIsTrue
      /\ verdicts \in [AgentBars -> Verdicts] /\ called \in 0 .. MaxCalls
  BY DEF AgentInv, TypeOK
<1>2. UNCHANGED calls => FilledIsTrue'
  BY <1>1 DEF FilledIsTrue
<1>3. CASE TickGated(p) \/ PlanEnds(p)
  <2> DEFINE next == [Off EXCEPT !.at = "wait", !.run = loop[p].run]
  <2>1. next \in Loops /\ next.at = "wait" /\ next.run = loop[p].run
    BY <1>0, AgentSizes DEF Loops, Off, Working
  <2>2. /\ loop' = [loop EXCEPT ![p] = next]
        /\ UNCHANGED <<market, rows, acting, contested, crashed>>
    BY <1>3 DEF TickGated, PlanEnds, Waits
  <2> HIDE DEF next
  <2>3. UNCHANGED <<market, rows, calls, verdicts, called, contested, crashed>>
    BY <2>2 DEF acting
  <2> QED BY <1>0, <1>1, <1>2, <2>1, <2>2, <2>3, RunnerMoves DEF Working
<1>4. CASE TickRefreshes(p) \/ TickPlans(p)
  <2> DEFINE next == [loop[p] EXCEPT !.at = "plan"]
  <2>1. next \in Loops /\ next.at = "plan" /\ next.run = loop[p].run
    BY <1>0 DEF Loops, Working
  <2>2. /\ loop' = [loop EXCEPT ![p] = next]
        /\ UNCHANGED <<rows, acting, contested, crashed>>
        /\ market' = market \/ market' = [market EXCEPT !.is = "fresh"]
    BY <1>4 DEF TickRefreshes, TickPlans
  <2> HIDE DEF next
  <2>3. UNCHANGED <<rows, calls, verdicts, called, contested, crashed>>
    BY <2>2 DEF acting
  <2>4. market' \in [bar : AgentBars, is : {"fresh", "stale", "closed"}]
    BY <1>1, <2>2
  <2> QED BY <1>0, <1>1, <1>2, <2>1, <2>2, <2>3, <2>4, RunnerMoves DEF Working
<1>5. CASE CallTool(p)
  <2> DEFINE next == [loop[p] EXCEPT !.at = "tool", !.call = called + 1]
             made == [NoCall EXCEPT !.of = p, !.at = "called"]
  <2>0. called + 1 \in 1 .. MaxCalls /\ called + 1 \in 0 .. MaxCalls /\ loop[p].step < MaxSteps
    BY <1>1, <1>5, AgentSizes DEF CallTool
  <2>1. next \in Loops /\ next.at = "tool" /\ next.run = loop[p].run
        /\ next.step = loop[p].step
    BY <1>0, <2>0 DEF Loops, Working
  <2>2. /\ loop' = [loop EXCEPT ![p] = next] /\ called' = called + 1
        /\ calls' = [calls EXCEPT ![called + 1] = made]
        /\ UNCHANGED <<market, rows, verdicts, contested, crashed>>
    BY <1>5 DEF CallTool
  <2>3. made \in Calls /\ made.told = FALSE
    BY AgentSizes DEF NoCall, Calls
  <2> HIDE DEF next, made
  <2>4. calls' \in [CallIds -> Calls] /\ called' \in 0 .. MaxCalls
    BY <1>1, <2>0, <2>2, <2>3 DEF CallIds
  <2>5. FilledIsTrue'
    BY <1>1, <2>2, <2>3 DEF FilledIsTrue
  <2> QED BY <1>0, <1>1, <2>0, <2>1, <2>2, <2>4, <2>5, RunnerMoves DEF Working
<1>6. CASE ToolReturns(p) \/ ToolTimesOut(p)
  <2> DEFINE next == [loop[p] EXCEPT !.at = "plan", !.step = @ + 1, !.call = 0]
  <2>0. loop[p].step < MaxSteps /\ loop[p].step + 1 \in 0 .. MaxSteps
    <3>1. loop[p].at = "tool"
      BY <1>6 DEF ToolReturns, ToolTimesOut
    <3> QED BY <1>0, <3>1, AgentSizes DEF AgentInv, RunnerOK, Loops
  <2>1. next \in Loops /\ next.at = "plan" /\ next.run = loop[p].run
    BY <1>0, <2>0, AgentSizes DEF Loops, Working
  <2>2. /\ loop' = [loop EXCEPT ![p] = next]
        /\ UNCHANGED <<market, rows, acting, contested, crashed>>
    BY <1>6 DEF ToolReturns, ToolTimesOut
  <2> HIDE DEF next
  <2>3. UNCHANGED <<market, rows, calls, verdicts, called, contested, crashed>>
    BY <2>2 DEF acting
  <2> QED BY <1>0, <1>1, <1>2, <2>1, <2>2, <2>3, RunnerMoves DEF Working
<1> QED BY <1>3, <1>4, <1>5, <1>6

\* Handlers and the market leave the runs alone; who fills is who tells.
LEMMA AroundAgentKeeps ==
    ASSUME AgentInv,
           \/ \E n \in CallIds : HandlerReads(n) \/ HandlerExecutes(n)
           \/ MarketMoves
           \/ UNCHANGED vars
    PROVE  AgentInv'
<1> USE DEF AgentInv
<1>0. UNCHANGED <<rows, loop, called, contested, crashed>>
  BY DEF HandlerReads, HandlerExecutes, MarketMoves, vars, acting
<1> DEFINE Acted ==
        /\ market' \in [bar : AgentBars, is : {"fresh", "stale", "closed"}]
        /\ calls' \in [CallIds -> Calls] /\ verdicts' \in [AgentBars -> Verdicts]
        /\ FilledIsTrue'
<1>1. Acted
  <2>0. /\ market \in [bar : AgentBars, is : {"fresh", "stale", "closed"}]
        /\ calls \in [CallIds -> Calls] /\ verdicts \in [AgentBars -> Verdicts]
    BY DEF TypeOK
  <2>1. ASSUME NEW n \in CallIds, HandlerReads(n) PROVE Acted
    <3> DEFINE next == [calls[n] EXCEPT !.at = "read", !.bar = market.bar]
    <3>1. market.bar \in 0 .. MaxBar
      BY <2>0, AgentSizes DEF AgentBars
    <3>2. /\ next \in Calls /\ next.told = calls[n].told /\ next.filled = calls[n].filled
      BY <2>0, <3>1 DEF Calls
    <3>3. calls' = [calls EXCEPT ![n] = next] /\ UNCHANGED <<market, verdicts>>
      BY <2>1 DEF HandlerReads
    <3> HIDE DEF next
    <3> QED BY <2>0, <3>2, <3>3 DEF FilledIsTrue
  <2>2. ASSUME NEW n \in CallIds, HandlerExecutes(n) PROVE Acted
    <3> DEFINE old == verdicts[calls[n].bar]
    <3>1. PICK new \in {"accepted", "refused"} :
            /\ verdicts' = [verdicts EXCEPT ![calls[n].bar] = IF old = "none" THEN new ELSE old]
            /\ calls' = [calls EXCEPT ![n].at = "done",
                   ![n].filled = old = "none" /\ new = "accepted",
                   ![n].told = Reported(old, new)]
      BY <2>2 DEF HandlerExecutes
    <3> DEFINE filled == old = "none" /\ new = "accepted"
               next == [calls[n] EXCEPT !.at = "done", !.filled = filled,
                                        !.told = Reported(old, new)]
    <3>2. filled \in BOOLEAN /\ Reported(old, new) \in BOOLEAN
          /\ (Reported(old, new) => filled)
      BY DEF Reported
    <3>3. calls' = [calls EXCEPT ![n] = next] /\ UNCHANGED market
      BY <2>2, <3>1 DEF HandlerExecutes
    <3>4. verdicts' \in [AgentBars -> Verdicts]
      BY <2>0, <3>1 DEF Verdicts
    <3> HIDE DEF filled
    <3>5. next \in Calls /\ next.told = Reported(old, new) /\ next.filled = filled
      BY <2>0, <3>2 DEF Calls
    <3> HIDE DEF next
    <3> QED BY <2>0, <3>2, <3>3, <3>4, <3>5 DEF FilledIsTrue
  <2>3. CASE MarketMoves
    <3>1. market' \in [bar : AgentBars, is : {"fresh", "stale", "closed"}]
      BY <2>0, <2>3, AgentSizes DEF MarketMoves, AgentBars
    <3> QED BY <2>0, <2>3, <3>1 DEF MarketMoves, FilledIsTrue, acting
  <2>4. ASSUME UNCHANGED vars PROVE Acted
    BY <2>0, <2>4 DEF vars, FilledIsTrue
  <2> QED BY <2>1, <2>2, <2>3, <2>4
<1>2. TypeOK'
  BY <1>0, <1>1 DEF TypeOK
<1>3. \A p \in Procs : RunnerOK(p)'
  BY <1>0 DEF RunnerOK, RowOf
<1>4. NoDeadRunShown'
  BY <1>0 DEF NoDeadRunShown, RowOf, Live
<1> QED BY <1>1, <1>2, <1>3, <1>4

\* What the planner is told of its trades and what the operator sees of the runs is
\* true, for any agents, engines, runs, steps and tool calls: timed-out handlers,
\* second agents and starts that close each other's rows included (agent_loop.py,
\* SQLiteAgentTranscriptStore).
THEOREM RunsStayReported == Spec => []RunsAreReported
<1>1. Init => AgentInv
  <2> SUFFICES ASSUME Init PROVE AgentInv
    OBVIOUS
  <2>1. Off \in Loops /\ Off.at = "off" /\ NoCall \in Calls /\ ~NoCall.told
    BY AgentSizes DEF Off, Loops, NoCall, Calls
  <2>2. [bar |-> 1, is |-> "fresh"] \in [bar : AgentBars, is : {"fresh", "stale", "closed"}]
    BY AgentSizes DEF AgentBars
  <2>3. TypeOK
    BY <2>1, <2>2, AgentSizes DEF Init, TypeOK, Verdicts
  <2>4. \A p \in Procs : RunnerOK(p)
    BY <2>1 DEF Init, RunnerOK, Working
  <2>5. FilledIsTrue /\ NoDeadRunShown
    BY <2>1 DEF Init, FilledIsTrue, NoDeadRunShown
  <2> QED BY <2>3, <2>4, <2>5 DEF AgentInv
<1>2. AgentInv /\ [Next]_vars => AgentInv'
  <2> SUFFICES ASSUME AgentInv, [Next]_vars PROVE AgentInv'
    OBVIOUS
  <2>1. ASSUME NEW p \in Procs, Lifecycle(p) PROVE AgentInv'
    BY <2>1, StartRunKeeps, ReconcileKeeps, StopRunKeeps, EndKeeps DEF Lifecycle
  <2>2. ASSUME NEW p \in Procs, Tick(p) PROVE AgentInv'
    BY <2>2, TickResumesKeeps, TickMovesKeeps DEF Tick
  <2>3. CASE (\E n \in CallIds : HandlerReads(n) \/ HandlerExecutes(n))
             \/ MarketMoves \/ UNCHANGED vars
    BY <2>3, AroundAgentKeeps
  <2> QED BY <2>1, <2>2, <2>3 DEF Next
<1>3. AgentInv => RunsAreReported
  BY DEF AgentInv, RunsAreReported, RunnerOK, LiveRowsHold, Working
<1> QED BY <1>1, <1>2, <1>3, PTL DEF Spec

-----------------------------------------------------------------------------
(* LabDataset: the budget of a dataset may be reset while the dataset is still *)
(* the old one; what is left of the old one is a cohort that is due, so no job *)
(* starts on it again.                                                         *)

HarnessTypes ==
    [at : LabSteps, recovers : BOOLEAN, newest : 0 .. MaxMarket,
     count : 0 .. MAX_ATTEMPTS, job : SUBSET Jobs]

CohortTypes ==
    /\ marketBar \in 0 .. MaxMarket
    /\ file \in 0 .. MaxMarket
    /\ manifest \in 0 .. MaxMarket
    /\ history \in Seq(Versions) /\ Len(history) <= KeptArchives
    /\ DOMAIN archives \subseteq Versions
    /\ attempts \in 0 .. MAX_ATTEMPTS
    /\ jobs \in [Jobs -> {"new", "running", "interrupted", "failed", "completed"}]
    /\ candidates \subseteq Versions
    /\ harness \in HarnessTypes
    /\ assessed \in [Versions -> Nat]

\* A tick that changes the dataset, one that works on it, and its job.
Changing == {"history", "attempts", "freeze", "manifest"}
AtJob == {"turn", "spend", "assess"}
OnDataset == AtJob \cup {"check"}

\* Datasets follow each other.
InOrder ==
    /\ \A n \in 1 .. Len(history) : history[n] <= manifest
    /\ harness.at \in Changing \ {"manifest"} =>
            /\ harness.newest >= manifest + CohortSize
            /\ harness.newest <= marketBar
    /\ harness.at = "manifest" =>
            file >= manifest + CohortSize /\ file <= marketBar
    /\ harness.at \in {"history", "attempts"} \cup OnDataset => manifest > 0

\* The dataset that is about to go is in the archives.
OldIsArchived ==
    harness.at \in Changing /\ manifest > 0 => manifest \in DOMAIN archives

\* Every validation of the present dataset has been paid for.
Paid == manifest > 0 => assessed[manifest] <= attempts

InBudget ==
    /\ BudgetHolds
    /\ \A v \in Versions : v > manifest => assessed[v] = 0
    /\ Paid \/ (NewCohort /\ harness.at \notin OnDataset)
    /\ harness.at = "turn" => harness.count = attempts
    /\ harness.at = "spend" =>
            attempts = harness.count + 1 /\ assessed[manifest] <= harness.count

JobsInv ==
    /\ JobsTrue
    /\ harness.at \notin AtJob => harness.job = {}

CohortsInv ==
    /\ CohortTypes
    /\ InOrder
    /\ OldIsArchived
    /\ InBudget
    /\ JobsInv
    /\ ReferencedCohortsKept

-----------------------------------------------------------------------------
\* The history keeps its last versions.
LEMMA BoundedKeeps ==
    ASSUME NEW s \in Seq(Versions)
    PROVE  /\ Bounded(s) \in Seq(Versions)
           /\ Len(Bounded(s)) <= KeptArchives
           /\ \A n \in 1 .. Len(Bounded(s)) : \E m \in 1 .. Len(s) : Bounded(s)[n] = s[m]
<1>1. KeptArchives \in Nat \ {0}
  BY CohortsAssumption
<1>2. CASE Len(s) > KeptArchives
  <2>1. Bounded(s) = SubSeq(s, Len(s) - KeptArchives + 1, Len(s))
    BY <1>2 DEF Bounded, NewestOnes
  <2>2. /\ Len(Bounded(s)) = KeptArchives
        /\ \A n \in 1 .. KeptArchives : Bounded(s)[n] = s[Len(s) - KeptArchives + n]
    <3>1. Len(s) \in Nat /\ s \in Seq(Versions)
      OBVIOUS
    <3>2. /\ Len(s) - KeptArchives + 1 \in 1 .. Len(s) + 1
          /\ Len(s) \in Nat
      BY <1>1, <1>2, <3>1
    <3>3. Len(SubSeq(s, Len(s) - KeptArchives + 1, Len(s))) = KeptArchives
      BY <1>1, <1>2, <3>1, <3>2
    <3>4. ASSUME NEW n \in 1 .. KeptArchives
          PROVE  SubSeq(s, Len(s) - KeptArchives + 1, Len(s))[n] =
                    s[Len(s) - KeptArchives + n]
      BY <1>1, <1>2, <3>1, <3>2, <3>4
    <3> QED BY <2>1, <3>3, <3>4
  <2>3. Bounded(s) \in Seq(Versions)
    BY <1>1, <1>2, <2>1
  <2>4. \A n \in 1 .. KeptArchives : Len(s) - KeptArchives + n \in 1 .. Len(s)
    BY <1>1, <1>2
  <2> QED BY <1>1, <2>2, <2>3, <2>4
<1>3. CASE ~(Len(s) > KeptArchives)
  BY <1>1, <1>3 DEF Bounded
<1> QED BY <1>2, <1>3

\* What does not change the datasets, the budget or the step of the harness.
LEMMA BesideKeeps ==
    ASSUME CohortsInv, BarsStored \/ CandidateSettles \/ UNCHANGED cohortsVars
    PROVE  CohortsInv'
<1>1. /\ UNCHANGED <<file, manifest, history, archives, attempts, jobs, harness,
                     assessed>>
      /\ marketBar <= marketBar' /\ marketBar' \in 0 .. MaxMarket
      /\ marketBar \in Int /\ MaxMarket \in Nat
      /\ candidates' \subseteq candidates
  BY CohortsAssumption
     DEF BarsStored, CandidateSettles, cohortsVars, CohortsInv, CohortTypes
<1>2. CohortTypes'
  BY <1>1 DEF CohortsInv, CohortTypes
<1>3. InOrder'
  <2>1. /\ file \in Int /\ harness.newest \in Int
        /\ InOrder
    BY DEF CohortsInv, CohortTypes, HarnessTypes
  <2> QED BY <1>1, <2>1 DEF InOrder
<1>4. NewCohort => NewCohort'
  BY <1>1, CohortsAssumption DEF NewCohort, CohortsInv, CohortTypes
<1> QED BY <1>1, <1>2, <1>3, <1>4
        DEF CohortsInv, OldIsArchived, InBudget, BudgetHolds, Paid, JobsInv,
            JobsTrue, UnfinishedJobs, ReferencedCohortsKept

\* The process starts or ends.
LEMMA ProcessKeeps ==
    ASSUME CohortsInv, StartLab \/ LabEnds
    PROVE  CohortsInv'
<1>0. /\ LabOff \in HarnessTypes
      /\ LabOff.at = "off" /\ LabOff.job = {} /\ LabOff.recovers = FALSE
  BY CohortsAssumption DEF LabOff, HarnessTypes, LabSteps
<1>1. /\ harness' \in HarnessTypes
      /\ harness'.at \in {"off", "idle"}
      /\ harness'.job = {}
      /\ jobs' = jobs \/ jobs' = Recovered
      /\ harness'.recovers => jobs' = Recovered
      /\ UNCHANGED <<marketBar, file, manifest, history, archives, attempts,
                     candidates, assessed>>
  <2>1. CASE StartLab
    <3>1. PICK recovers \in BOOLEAN :
            /\ harness' = [LabOff EXCEPT !.at = "idle", !.recovers = recovers]
            /\ jobs' = IF recovers THEN Recovered ELSE jobs
      BY <2>1 DEF StartLab
    <3> DEFINE begun == [LabOff EXCEPT !.at = "idle"]
    <3>2. begun \in HarnessTypes /\ begun.at = "idle" /\ begun.job = {}
      BY <1>0 DEF HarnessTypes, LabSteps
    <3>3. harness' = [begun EXCEPT !.recovers = recovers]
      BY <3>1
    <3> HIDE DEF begun
    <3>4. /\ harness' \in HarnessTypes /\ harness'.at = "idle"
          /\ harness'.job = {} /\ harness'.recovers = recovers
      BY <3>2, <3>3 DEF HarnessTypes
    <3> QED BY <2>1, <3>1, <3>4 DEF StartLab
  <2>2. CASE LabEnds
    BY <1>0, <2>2 DEF LabEnds
  <2> QED BY <2>1, <2>2
<1>2. /\ jobs' \in [Jobs -> {"new", "running", "interrupted", "failed", "completed"}]
      /\ harness'.recovers => \A j \in Jobs : jobs'[j] # "running"
  <2>1. jobs \in [Jobs -> {"new", "running", "interrupted", "failed", "completed"}]
    BY DEF CohortsInv, CohortTypes
  <2> QED BY <1>1, <2>1 DEF Recovered
<1>3. CohortTypes'
  BY <1>1, <1>2 DEF CohortsInv, CohortTypes
<1>4. InOrder' /\ OldIsArchived'
  BY <1>1, <1>2 DEF CohortsInv, InOrder, OldIsArchived, Changing, OnDataset, AtJob
<1>5. InBudget'
  BY <1>1, <1>2 DEF CohortsInv, InBudget, BudgetHolds, Paid, NewCohort, OnDataset, AtJob
<1>6. JobsInv'
  BY <1>1, <1>2 DEF JobsInv, JobsTrue, UnfinishedJobs
<1> QED BY <1>1, <1>3, <1>4, <1>5, <1>6 DEF CohortsInv, ReferencedCohortsKept

-----------------------------------------------------------------------------
(* The cohort. *)

\* The jobs, and what the process knows of them, outlive the steps of a tick.
LEMMA TickKeepsJobs ==
    ASSUME JobsInv, jobs' = jobs, harness.at \notin AtJob,
           harness'.recovers = harness.recovers, harness'.job = harness.job
    PROVE  JobsInv'
BY DEF JobsInv, JobsTrue, UnfinishedJobs

LEMMA ArchivesKeeps ==
    ASSUME CohortsInv, TickArchives
    PROVE  CohortsInv'
<1>1. /\ NewCohort /\ harness.at = "idle"
      /\ archives' = Put(archives, manifest, file)
      /\ harness' = [harness EXCEPT !.at = "history", !.newest = marketBar]
      /\ UNCHANGED <<marketBar, file, manifest, history, attempts, jobs, candidates,
                     assessed>>
  BY DEF TickArchives
<1>2. /\ harness' \in HarnessTypes
      /\ harness'.at = "history" /\ harness'.newest = marketBar
      /\ harness'.recovers = harness.recovers /\ harness'.job = harness.job
  BY <1>1 DEF CohortsInv, CohortTypes, HarnessTypes, LabSteps
<1>3. manifest \in Versions /\ DOMAIN archives' = DOMAIN archives \cup {manifest}
  BY <1>1, CohortsAssumption DEF NewCohort, Put, CohortsInv, CohortTypes, Versions
<1>4. CohortTypes'
  BY <1>1, <1>2, <1>3 DEF CohortsInv, CohortTypes
<1>5. InOrder'
  BY <1>1, <1>2, CohortsAssumption
     DEF CohortsInv, CohortTypes, InOrder, NewCohort, Changing
<1>6. InBudget'
  BY <1>1, <1>2 DEF CohortsInv, InBudget, BudgetHolds, Paid, NewCohort, OnDataset, AtJob
<1>7. JobsInv'
  BY <1>1, <1>2, TickKeepsJobs DEF CohortsInv, AtJob
<1>8. OldIsArchived' /\ ReferencedCohortsKept'
  BY <1>1, <1>3 DEF CohortsInv, OldIsArchived, ReferencedCohortsKept
<1> QED BY <1>4, <1>5, <1>6, <1>7, <1>8 DEF CohortsInv

LEMMA HistoryKeeps ==
    ASSUME CohortsInv, TickWritesHistory
    PROVE  CohortsInv'
<1>1. /\ harness.at = "history"
      /\ history' = Bounded(Append(history, manifest))
      /\ harness' = [harness EXCEPT !.at = "attempts"]
      /\ UNCHANGED <<marketBar, file, manifest, archives, attempts, jobs, candidates,
                     assessed>>
  BY DEF TickWritesHistory
<1>2. /\ harness' \in HarnessTypes
      /\ harness'.at = "attempts" /\ harness'.newest = harness.newest
      /\ harness'.recovers = harness.recovers /\ harness'.job = harness.job
  BY <1>1 DEF CohortsInv, CohortTypes, HarnessTypes, LabSteps
<1>3. manifest \in Versions
  BY <1>1, CohortsAssumption DEF CohortsInv, CohortTypes, InOrder, Versions
<1> DEFINE longer == Append(history, manifest)
<1>4. /\ longer \in Seq(Versions)
      /\ \A n \in 1 .. Len(longer) : longer[n] <= manifest
  BY <1>3 DEF CohortsInv, CohortTypes, InOrder, Versions
<1> HIDE DEF longer
<1>5. /\ history' \in Seq(Versions) /\ Len(history') <= KeptArchives
      /\ \A n \in 1 .. Len(history') : history'[n] <= manifest
  <2>1. history' = Bounded(longer)
    BY <1>1 DEF longer
  <2> QED BY <1>4, <2>1, BoundedKeeps
<1>6. CohortTypes'
  BY <1>1, <1>2, <1>5 DEF CohortsInv, CohortTypes
<1>7. InOrder'
  BY <1>1, <1>2, <1>5 DEF CohortsInv, InOrder, Changing
<1>8. InBudget'
  BY <1>1, <1>2 DEF CohortsInv, InBudget, BudgetHolds, Paid, NewCohort, OnDataset, AtJob
<1>9. JobsInv'
  BY <1>1, <1>2, TickKeepsJobs DEF CohortsInv, AtJob
<1>10. OldIsArchived' /\ ReferencedCohortsKept'
  BY <1>1 DEF CohortsInv, OldIsArchived, ReferencedCohortsKept, Changing
<1> QED BY <1>6, <1>7, <1>8, <1>9, <1>10 DEF CohortsInv

LEMMA ResetKeeps ==
    ASSUME CohortsInv, TickResetsBudget
    PROVE  CohortsInv'
<1>1. /\ harness.at = "attempts"
      /\ attempts' = 0
      /\ harness' = [harness EXCEPT !.at = "freeze"]
      /\ UNCHANGED <<marketBar, file, manifest, history, archives, jobs, candidates,
                     assessed>>
  BY DEF TickResetsBudget
<1>2. /\ harness' \in HarnessTypes
      /\ harness'.at = "freeze" /\ harness'.newest = harness.newest
      /\ harness'.recovers = harness.recovers /\ harness'.job = harness.job
  BY <1>1 DEF CohortsInv, CohortTypes, HarnessTypes, LabSteps
<1>3. CohortTypes'
  BY <1>1, <1>2, CohortsAssumption DEF CohortsInv, CohortTypes
<1>4. InOrder'
  BY <1>1, <1>2 DEF CohortsInv, InOrder, Changing, OnDataset, AtJob
<1>5. NewCohort'
  BY <1>1, CohortsAssumption
     DEF CohortsInv, CohortTypes, HarnessTypes, InOrder, NewCohort, Changing
<1>6. InBudget'
  BY <1>1, <1>2, <1>5 DEF CohortsInv, InBudget, BudgetHolds, OnDataset, AtJob
<1>7. JobsInv'
  BY <1>1, <1>2, TickKeepsJobs DEF CohortsInv, AtJob
<1>8. OldIsArchived' /\ ReferencedCohortsKept'
  BY <1>1 DEF CohortsInv, OldIsArchived, ReferencedCohortsKept, Changing
<1> QED BY <1>3, <1>4, <1>6, <1>7, <1>8 DEF CohortsInv

LEMMA FirstKeeps ==
    ASSUME CohortsInv, TickFirst
    PROVE  CohortsInv'
<1>1. /\ harness.at = "idle" /\ manifest = 0 /\ marketBar >= CohortSize
      /\ harness' = [harness EXCEPT !.at = "freeze", !.newest = marketBar]
      /\ UNCHANGED <<marketBar, file, manifest, history, archives, attempts, jobs,
                     candidates, assessed>>
  BY DEF TickFirst
<1>2. /\ harness' \in HarnessTypes
      /\ harness'.at = "freeze" /\ harness'.newest = marketBar
      /\ harness'.recovers = harness.recovers /\ harness'.job = harness.job
  BY <1>1 DEF CohortsInv, CohortTypes, HarnessTypes, LabSteps
<1>3. CohortTypes'
  BY <1>1, <1>2 DEF CohortsInv, CohortTypes
<1>4. InOrder'
  BY <1>1, <1>2, CohortsAssumption
     DEF CohortsInv, CohortTypes, InOrder, Changing, OnDataset, AtJob
<1>5. InBudget'
  BY <1>1, <1>2 DEF CohortsInv, InBudget, BudgetHolds, Paid, NewCohort, OnDataset, AtJob
<1>6. JobsInv'
  BY <1>1, <1>2, TickKeepsJobs DEF CohortsInv, AtJob
<1>7. OldIsArchived' /\ ReferencedCohortsKept'
  BY <1>1, <1>2 DEF CohortsInv, OldIsArchived, ReferencedCohortsKept
<1> QED BY <1>3, <1>4, <1>5, <1>6, <1>7 DEF CohortsInv

LEMMA FreezesKeeps ==
    ASSUME CohortsInv, TickFreezes
    PROVE  CohortsInv'
<1>1. /\ harness.at = "freeze"
      /\ file' = harness.newest
      /\ harness' = [harness EXCEPT !.at = "manifest", !.newest = 0]
      /\ UNCHANGED <<marketBar, manifest, history, archives, attempts, jobs,
                     candidates, assessed>>
  BY DEF TickFreezes
<1>2. /\ harness' \in HarnessTypes
      /\ harness'.at = "manifest"
      /\ harness'.recovers = harness.recovers /\ harness'.job = harness.job
      /\ file' \in 0 .. MaxMarket
  <2>1. harness \in HarnessTypes /\ 0 \in 0 .. MaxMarket /\ "manifest" \in LabSteps
    BY CohortsAssumption DEF CohortsInv, CohortTypes, LabSteps
  <2> DEFINE frozen == [harness EXCEPT !.at = "manifest"]
  <2>2. /\ frozen \in HarnessTypes /\ frozen.at = "manifest"
        /\ frozen.recovers = harness.recovers /\ frozen.job = harness.job
    BY <2>1 DEF HarnessTypes
  <2>3. harness' = [frozen EXCEPT !.newest = 0]
    BY <1>1
  <2>4. file' \in 0 .. MaxMarket
    BY <1>1, <2>1 DEF HarnessTypes
  <2> HIDE DEF frozen
  <2> QED BY <2>1, <2>2, <2>3, <2>4 DEF HarnessTypes
<1>3. CohortTypes'
  BY <1>1, <1>2 DEF CohortsInv, CohortTypes
<1>4. InOrder'
  BY <1>1, <1>2 DEF CohortsInv, InOrder, Changing, OnDataset, AtJob
<1>5. InBudget'
  BY <1>1, <1>2 DEF CohortsInv, InBudget, BudgetHolds, Paid, NewCohort, OnDataset, AtJob
<1>6. JobsInv'
  BY <1>1, <1>2, TickKeepsJobs DEF CohortsInv, AtJob
<1>7. OldIsArchived' /\ ReferencedCohortsKept'
  BY <1>1, <1>2 DEF CohortsInv, OldIsArchived, ReferencedCohortsKept, Changing
<1> QED BY <1>3, <1>4, <1>5, <1>6, <1>7 DEF CohortsInv

LEMMA ManifestKeeps ==
    ASSUME CohortsInv, TickWritesManifest
    PROVE  CohortsInv'
<1>1. /\ harness.at = "manifest"
      /\ manifest' = file
      /\ harness' = [harness EXCEPT !.at = "check"]
      /\ UNCHANGED <<marketBar, file, history, archives, attempts, jobs, candidates,
                     assessed>>
  BY DEF TickWritesManifest
<1>2. /\ harness' \in HarnessTypes
      /\ harness'.at = "check"
      /\ harness'.recovers = harness.recovers /\ harness'.job = harness.job
  BY <1>1 DEF CohortsInv, CohortTypes, HarnessTypes, LabSteps
<1>3. /\ manifest < manifest' /\ manifest' > 0
      /\ manifest \in Nat /\ manifest' \in 0 .. MaxMarket /\ manifest' \in Versions
  BY <1>1, CohortsAssumption DEF CohortsInv, CohortTypes, InOrder, Versions
<1>4. CohortTypes'
  BY <1>1, <1>2, <1>3 DEF CohortsInv, CohortTypes
<1>5. InOrder'
  <2>1. \A n \in 1 .. Len(history) : history[n] \in Int /\ history[n] <= manifest
    <3>1. history \in Seq(Versions) /\ \A v \in Versions : v \in Int
      BY DEF CohortsInv, CohortTypes, Versions
    <3>2. \A n \in 1 .. Len(history) : history[n] \in Versions
      BY <3>1
    <3> QED BY <3>1, <3>2 DEF CohortsInv, InOrder
  <2> QED BY <1>1, <1>2, <1>3, <2>1 DEF InOrder, Changing, OnDataset, AtJob
<1>6. InBudget'
  <2>1. /\ assessed[manifest'] = 0
        /\ \A v \in Versions : v > manifest' => assessed[v] = 0
    BY <1>3 DEF CohortsInv, InBudget, Versions
  <2>2. Paid'
    BY <1>1, <2>1 DEF Paid, CohortsInv, CohortTypes
  <2> QED BY <1>1, <1>2, <2>1, <2>2 DEF CohortsInv, InBudget, BudgetHolds
<1>7. JobsInv'
  BY <1>1, <1>2, TickKeepsJobs DEF CohortsInv, AtJob
<1>8. OldIsArchived'
  BY <1>2 DEF OldIsArchived, Changing
<1>9. ReferencedCohortsKept'
  <2>1. manifest > 0 => manifest \in DOMAIN archives
    BY <1>1 DEF CohortsInv, OldIsArchived, Changing
  <2>2. \A v \in candidates : v > 0
    BY DEF CohortsInv, CohortTypes, Versions
  <2> QED BY <1>1, <2>1, <2>2 DEF CohortsInv, ReferencedCohortsKept
<1> QED BY <1>4, <1>5, <1>6, <1>7, <1>8, <1>9 DEF CohortsInv

LEMMA ReusesKeeps ==
    ASSUME CohortsInv, TickReuses
    PROVE  CohortsInv'
<1>1. /\ harness.at = "idle" /\ manifest > 0 /\ ~NewCohort
      /\ harness' = [harness EXCEPT !.at = "check"]
      /\ UNCHANGED <<marketBar, file, manifest, history, archives, attempts, jobs,
                     candidates, assessed>>
  BY DEF TickReuses
<1>2. /\ harness' \in HarnessTypes
      /\ harness'.at = "check"
      /\ harness'.recovers = harness.recovers /\ harness'.job = harness.job
  BY <1>1 DEF CohortsInv, CohortTypes, HarnessTypes, LabSteps
<1>3. CohortTypes'
  BY <1>1, <1>2 DEF CohortsInv, CohortTypes
<1>4. InOrder'
  BY <1>1, <1>2 DEF CohortsInv, InOrder, Changing, OnDataset, AtJob
<1>5. InBudget'
  BY <1>1, <1>2 DEF CohortsInv, InBudget, BudgetHolds, Paid
<1>6. JobsInv'
  BY <1>1, <1>2, TickKeepsJobs DEF CohortsInv, AtJob
<1>7. OldIsArchived' /\ ReferencedCohortsKept'
  BY <1>1, <1>2 DEF CohortsInv, OldIsArchived, ReferencedCohortsKept, Changing
<1> QED BY <1>3, <1>4, <1>5, <1>6, <1>7 DEF CohortsInv

-----------------------------------------------------------------------------
(* The job. *)

LEMMA StartsKeeps ==
    ASSUME CohortsInv, JobStarts
    PROVE  CohortsInv'
<1>1. PICK j \in Jobs :
        /\ harness.at = "check"
        /\ jobs[j] = "new"
        /\ jobs' = [jobs EXCEPT ![j] = "running"]
        /\ harness' = [harness EXCEPT !.at = "turn", !.count = attempts, !.job = {j}]
        /\ UNCHANGED <<marketBar, file, manifest, history, archives, attempts,
                       candidates, assessed>>
  BY DEF JobStarts
<1>2. harness \in HarnessTypes /\ attempts \in 0 .. MAX_ATTEMPTS
      /\ jobs \in [Jobs -> {"new", "running", "interrupted", "failed", "completed"}]
  BY DEF CohortsInv, CohortTypes
<1>3. /\ harness' \in HarnessTypes
      /\ harness'.at = "turn" /\ harness'.count = attempts /\ harness'.job = {j}
      /\ harness'.recovers = harness.recovers
  <2> DEFINE turned == [harness EXCEPT !.at = "turn"]
             counted == [turned EXCEPT !.count = attempts]
  <2>1. /\ turned \in HarnessTypes /\ turned.at = "turn"
        /\ turned.recovers = harness.recovers
    BY <1>2 DEF HarnessTypes, LabSteps
  <2>2. harness' = [counted EXCEPT !.job = {j}]
    BY <1>1
  <2> HIDE DEF turned
  <2>3. /\ counted \in HarnessTypes /\ counted.at = "turn"
        /\ counted.recovers = harness.recovers /\ counted.count = attempts
    BY <1>2, <2>1 DEF HarnessTypes
  <2> HIDE DEF counted
  <2> QED BY <2>2, <2>3 DEF HarnessTypes
<1>4. CohortTypes'
  BY <1>1, <1>2, <1>3 DEF CohortsInv, CohortTypes
<1>5. InOrder' /\ OldIsArchived'
  BY <1>1, <1>3 DEF CohortsInv, InOrder, OldIsArchived, Changing, OnDataset, AtJob
<1>6. InBudget'
  BY <1>1, <1>3 DEF CohortsInv, InBudget, BudgetHolds, Paid, NewCohort, OnDataset, AtJob
<1>7. JobsInv'
  <2>1. harness.job = {}
    BY <1>1 DEF CohortsInv, JobsInv, AtJob
  <2> QED BY <1>1, <1>2, <1>3, <2>1
          DEF CohortsInv, JobsInv, JobsTrue, UnfinishedJobs, AtJob
<1> QED BY <1>1, <1>4, <1>5, <1>6, <1>7 DEF CohortsInv, ReferencedCohortsKept

\* A job ends: it is no longer running, and the budget stays as it is.
LEMMA TickEndKeeps ==
    ASSUME CohortsInv, NEW state \in {"failed", "completed"},
           harness.at \in AtJob, JobEndsAs(state),
           candidates' \in {candidates, candidates \cup {manifest}},
           UNCHANGED <<marketBar, file, manifest, history, archives, attempts,
                       assessed>>
    PROVE  CohortsInv'
<1>1. /\ jobs' = [j \in Jobs |-> IF j \in harness.job THEN state ELSE jobs[j]]
      /\ harness' = [harness EXCEPT !.at = "idle", !.count = 0, !.job = {}]
  BY DEF JobEndsAs
<1>2. harness \in HarnessTypes
      /\ jobs \in [Jobs -> {"new", "running", "interrupted", "failed", "completed"}]
  BY DEF CohortsInv, CohortTypes
<1>3. /\ harness' \in HarnessTypes
      /\ harness'.at = "idle" /\ harness'.job = {}
      /\ harness'.recovers = harness.recovers
  <2> DEFINE ended == [harness EXCEPT !.at = "idle"]
             cleared == [ended EXCEPT !.count = 0]
  <2>1. /\ ended \in HarnessTypes /\ ended.at = "idle"
        /\ ended.recovers = harness.recovers
    BY <1>2 DEF HarnessTypes, LabSteps
  <2>2. harness' = [cleared EXCEPT !.job = {}]
    BY <1>1
  <2>3. 0 \in 0 .. MAX_ATTEMPTS
    BY CohortsAssumption
  <2> HIDE DEF ended
  <2>4. /\ cleared \in HarnessTypes /\ cleared.at = "idle"
        /\ cleared.recovers = harness.recovers
    BY <1>2, <2>1, <2>3 DEF HarnessTypes
  <2> HIDE DEF cleared
  <2> QED BY <2>2, <2>4 DEF HarnessTypes
<1>4. manifest \in Versions
  BY CohortsAssumption DEF CohortsInv, CohortTypes, InOrder, OnDataset, Versions
<1>5. CohortTypes'
  BY <1>1, <1>2, <1>3, <1>4 DEF CohortsInv, CohortTypes
<1>6. InOrder' /\ OldIsArchived'
  BY <1>3 DEF CohortsInv, InOrder, OldIsArchived, Changing, OnDataset, AtJob
<1>7. InBudget'
  BY <1>3 DEF CohortsInv, InBudget, BudgetHolds, Paid, NewCohort, OnDataset, AtJob
<1>8. JobsInv'
  BY <1>1, <1>2, <1>3 DEF CohortsInv, JobsInv, JobsTrue, UnfinishedJobs
<1>9. ReferencedCohortsKept'
  BY DEF CohortsInv, ReferencedCohortsKept
<1> QED BY <1>5, <1>6, <1>7, <1>8, <1>9 DEF CohortsInv

\* The attempt is counted before the bars are read, so they are read no more
\* often than was counted.
LEMMA SpendsKeeps ==
    ASSUME CohortsInv, JobSpends
    PROVE  CohortsInv'
<1>1. /\ harness.at = "turn"
      /\ ~(harness.count >= MAX_ATTEMPTS)
      /\ attempts' = harness.count + 1
      /\ harness' = [harness EXCEPT !.at = "spend"]
      /\ UNCHANGED <<marketBar, file, manifest, history, archives, jobs, candidates,
                     assessed>>
  BY DEF JobSpends, DiscoveryOnly
<1>2. /\ harness' \in HarnessTypes
      /\ harness'.at = "spend" /\ harness'.count = harness.count
      /\ harness'.recovers = harness.recovers /\ harness'.job = harness.job
      /\ harness.count \in 0 .. MAX_ATTEMPTS
  BY <1>1 DEF CohortsInv, CohortTypes, HarnessTypes, LabSteps
<1>3. harness.count = attempts /\ attempts' \in 0 .. MAX_ATTEMPTS
  BY <1>1, <1>2, CohortsAssumption DEF CohortsInv, InBudget
<1>4. CohortTypes'
  BY <1>1, <1>2, <1>3 DEF CohortsInv, CohortTypes
<1>5. InOrder' /\ OldIsArchived'
  BY <1>1, <1>2 DEF CohortsInv, InOrder, OldIsArchived, Changing, OnDataset, AtJob
<1>6. InBudget'
  <2>1. manifest > 0 /\ manifest \in Versions /\ assessed[manifest] \in Nat
    BY <1>1, CohortsAssumption
       DEF CohortsInv, CohortTypes, InOrder, OnDataset, AtJob, Versions
  <2>2. assessed[manifest] <= harness.count
    BY <1>1, <1>3, <2>1 DEF CohortsInv, InBudget, Paid, OnDataset, AtJob
  <2>3. Paid'
    BY <1>1, <1>2, <2>1, <2>2 DEF Paid
  <2> QED BY <1>1, <1>2, <2>2, <2>3 DEF CohortsInv, InBudget, BudgetHolds
<1>7. JobsInv' /\ ReferencedCohortsKept'
  BY <1>1, <1>2 DEF CohortsInv, JobsInv, JobsTrue, UnfinishedJobs, AtJob,
                    ReferencedCohortsKept
<1> QED BY <1>4, <1>5, <1>6, <1>7 DEF CohortsInv

LEMMA AssessesKeeps ==
    ASSUME CohortsInv, JobAssesses
    PROVE  CohortsInv'
<1>1. /\ harness.at = "spend"
      /\ assessed' = [assessed EXCEPT ![manifest] = @ + 1]
      /\ harness' = [harness EXCEPT !.at = "assess"]
      /\ UNCHANGED <<marketBar, file, manifest, history, archives, attempts, jobs,
                     candidates>>
  BY DEF JobAssesses
<1>2. /\ harness' \in HarnessTypes
      /\ harness'.at = "assess"
      /\ harness'.recovers = harness.recovers /\ harness'.job = harness.job
      /\ harness.count \in 0 .. MAX_ATTEMPTS
  BY <1>1 DEF CohortsInv, CohortTypes, HarnessTypes, LabSteps
<1>3. /\ manifest > 0 /\ manifest \in Versions
      /\ assessed \in [Versions -> Nat] /\ attempts \in 0 .. MAX_ATTEMPTS
      /\ assessed[manifest] <= harness.count /\ attempts = harness.count + 1
  BY <1>1, CohortsAssumption
     DEF CohortsInv, CohortTypes, InOrder, InBudget, OnDataset, AtJob, Versions
<1>4. /\ assessed' \in [Versions -> Nat]
      /\ assessed'[manifest] = assessed[manifest] + 1
      /\ \A v \in Versions \ {manifest} : assessed'[v] = assessed[v]
  BY <1>1, <1>3
<1>5. assessed'[manifest] <= attempts /\ assessed'[manifest] <= MAX_ATTEMPTS
  BY <1>2, <1>3, <1>4, CohortsAssumption
<1>6. CohortTypes'
  BY <1>1, <1>2, <1>4 DEF CohortsInv, CohortTypes
<1>7. InOrder' /\ OldIsArchived'
  BY <1>1, <1>2 DEF CohortsInv, InOrder, OldIsArchived, Changing, OnDataset, AtJob
<1>8. InBudget'
  <2>1. Paid'
    BY <1>1, <1>5 DEF Paid
  <2>2. BudgetHolds'
    BY <1>4, <1>5 DEF CohortsInv, InBudget, BudgetHolds
  <2>3. \A v \in Versions : v > manifest => v # manifest
    BY DEF Versions, CohortsInv, CohortTypes
  <2> QED BY <1>1, <1>2, <1>4, <2>1, <2>2, <2>3 DEF CohortsInv, InBudget
<1>9. JobsInv' /\ ReferencedCohortsKept'
  BY <1>1, <1>2 DEF CohortsInv, JobsInv, JobsTrue, UnfinishedJobs, AtJob,
                    ReferencedCohortsKept
<1> QED BY <1>6, <1>7, <1>8, <1>9 DEF CohortsInv

\* What pruning removes is referred to by nothing.
LEMMA PruneKeeps ==
    ASSUME CohortsInv, PruneArchives
    PROVE  CohortsInv'
<1>1. /\ harness.at = "idle"
      /\ DOMAIN archives' = DOMAIN archives \cap Preserved
      /\ UNCHANGED <<marketBar, file, manifest, history, attempts, jobs, candidates,
                     harness, assessed>>
  BY DEF PruneArchives
<1>2. CohortTypes'
  BY <1>1 DEF CohortsInv, CohortTypes
<1>3. InOrder' /\ OldIsArchived'
  BY <1>1 DEF CohortsInv, InOrder, OldIsArchived, Changing
<1>4. InBudget' /\ JobsInv'
  BY <1>1 DEF CohortsInv, InBudget, BudgetHolds, Paid, NewCohort, JobsInv, JobsTrue,
              UnfinishedJobs
<1>5. ReferencedCohortsKept'
  BY <1>1 DEF CohortsInv, ReferencedCohortsKept, Preserved
<1> QED BY <1>2, <1>3, <1>4, <1>5 DEF CohortsInv

LEMMA CohortsInvHolds == CohortsSpec => []CohortsInv
<1>1. CohortsInit => CohortsInv
  <2> SUFFICES ASSUME CohortsInit PROVE CohortsInv
    OBVIOUS
  <2>1. /\ LabOff \in HarnessTypes
        /\ LabOff.at = "off" /\ LabOff.job = {} /\ LabOff.recovers = FALSE
    BY CohortsAssumption DEF LabOff, HarnessTypes, LabSteps
  <2>2. CohortTypes
    BY <2>1, CohortsAssumption DEF CohortsInit, CohortTypes
  <2>3. \A v \in Versions : assessed[v] = 0
    BY DEF CohortsInit
  <2>4. harness.at = "off" /\ harness.job = {} /\ harness.recovers = FALSE
    BY <2>1 DEF CohortsInit
  <2>5. InOrder /\ OldIsArchived
    BY <2>4 DEF CohortsInit, InOrder, OldIsArchived, Changing, OnDataset, AtJob
  <2>6. InBudget
    BY <2>3, <2>4, CohortsAssumption DEF CohortsInit, InBudget, BudgetHolds, Paid
  <2>7. JobsInv /\ ReferencedCohortsKept
    BY <2>4 DEF CohortsInit, JobsInv, JobsTrue, ReferencedCohortsKept
  <2> QED BY <2>2, <2>5, <2>6, <2>7 DEF CohortsInv
<1>2. CohortsInv /\ [CohortsNext]_cohortsVars => CohortsInv'
  <2>1. ASSUME CohortsInv, JobFails \/ JobWithoutCandidate \/ JobCompletes
        PROVE  CohortsInv'
    BY <2>1, TickEndKeeps DEF JobFails, JobWithoutCandidate, JobCompletes, AtJob
  <2> QED BY <2>1, BesideKeeps, ProcessKeeps, ArchivesKeeps, HistoryKeeps,
             ResetKeeps, FirstKeeps, FreezesKeeps, ManifestKeeps, ReusesKeeps,
             StartsKeeps, SpendsKeeps, AssessesKeeps, PruneKeeps
          DEF CohortsNext
<1> QED BY <1>1, <1>2, PTL DEF CohortsSpec

\* What is validated is validated on bars nobody has seen, as often as the budget
\* allows, by jobs that say what they do, and can be checked afterwards, for any
\* number of jobs, size of a cohort and budget.
THEOREM ValidationStaysProtected == CohortsSpec => ValidationIsProtected
<1>1. ASSUME CohortsInv, CohortsInv', [CohortsNext]_cohortsVars
      PROVE  [ValidationStep]_cohortsVars
  <2>1. CohortsTypeOK'
    BY <1>1, CohortsAssumption
       DEF CohortsInv, CohortTypes, CohortsTypeOK, HarnessTypes
  <2>2. BudgetHolds' /\ ReferencedCohortsKept' /\ JobsTrue'
    BY <1>1 DEF CohortsInv, InBudget, JobsInv
  <2>3. CohortsDisjoint
    <3>1. CASE manifest' = manifest
      BY <3>1 DEF CohortsDisjoint
    <3>2. CASE TickWritesManifest
      <4>1. /\ manifest' = file /\ file >= manifest + CohortSize
            /\ file \in Int /\ manifest \in Int /\ CohortSize \in Int
        BY <1>1, <3>2, CohortsAssumption
           DEF TickWritesManifest, CohortsInv, CohortTypes, InOrder
      <4>2. ASSUME NEW n \in 1 .. Len(history)
            PROVE  history[n] \in Int /\ history[n] <= manifest
        <5>1. history \in Seq(Versions)
              /\ \A m \in 1 .. Len(history) : history[m] <= manifest
          BY <1>1 DEF CohortsInv, CohortTypes, InOrder
        <5>2. history[n] \in Versions
          BY <5>1
        <5> QED BY <5>1, <5>2 DEF Versions
      <4> QED BY <4>1, <4>2 DEF CohortsDisjoint
    <3>3. manifest' = manifest \/ TickWritesManifest
      BY <1>1 DEF CohortsNext, cohortsVars, BarsStored, StartLab, LabEnds,
            CandidateSettles, TickArchives, TickWritesHistory, TickResetsBudget,
            TickFirst, TickFreezes, TickReuses, JobStarts, JobFails,
            JobWithoutCandidate, JobSpends, JobAssesses, JobCompletes, PruneArchives
    <3> QED BY <3>1, <3>2, <3>3
  <2> QED BY <2>1, <2>2, <2>3 DEF ValidationStep
<1> QED BY <1>1, CohortsInvHolds, PTL DEF CohortsSpec, ValidationIsProtected

-----------------------------------------------------------------------------
(* LabAccounts: a thread works on a copy of the list while it holds the lock,  *)
(* and what it takes from the copy is already in the archive, among the last   *)
(* entries, as many as it has taken.                                           *)

AccountRows ==
    [state : {"none", "running", "retiring"}, last : Bars, position : 0 .. 1,
     fills : Nat, reviewed : Nat]

ThreadOps == {"idle", "tick", "start", "retire", "review"}

ThreadStates ==
    [op : ThreadOps, bar : Bars, copy : [AccountIds -> AccountRows],
     todo : SUBSET AccountIds]

ArchiveRows == [id : AccountIds, row : AccountRows]

AccountTypes ==
    /\ bar \in Bars
    /\ accounts \in [AccountIds -> AccountRows]
    /\ archive \in Seq(ArchiveRows)
    /\ lock \in Threads \cup {"free"}
    /\ work \in [Threads -> ThreadStates]

\* The accounts of the list saw bar b at most, and filled once a bar at most.
SeenBy(list, b) == \A i \in AccountIds : list[i].fills <= list[i].last /\ list[i].last <= b

FewActive ==
    /\ IsFiniteSet(ActiveRows(accounts))
    /\ Cardinality(ActiveRows(accounts)) <= Capacity

\* A thread that is in a call is the one that holds the lock.
HoldsLock ==
    \A t \in Threads : /\ lock = t <=> work[t].op # "idle"
                       /\ work[t].op = "idle" => work[t] = IdleThread

\* The ids of the k entries that were archived last.
LastArchived(k) == {archive[n].id : n \in {m \in 1 .. Len(archive) : m > Len(archive) - k}}

\* What the call of w has taken from the list.
Taken(w) == ActiveRows(accounts) \ ActiveRows(w.copy)

\* A call in progress: its copy loses no fill, and what it lacks is archived.
CallFits(w) ==
    /\ w.bar <= bar
    /\ SeenBy(w.copy, w.bar)
    /\ ActiveRows(w.copy) \subseteq ActiveRows(accounts)
    /\ \A i \in ActiveRows(w.copy) : w.copy[i].fills >= accounts[i].fills
    /\ w.op = "start" => w.copy = accounts /\ w.todo \cap ActiveRows(accounts) = {}
    /\ w.op # "start" => w.todo \subseteq ActiveRows(w.copy)
    /\ Taken(w) \subseteq LastArchived(Cardinality(Taken(w)))

CallsFit == \A t \in Threads : work[t].op # "idle" => CallFits(work[t])

AccountsInv ==
    /\ AccountTypes
    /\ SeenBy(accounts, bar)
    /\ FewActive
    /\ RetiredIsFlat
    /\ HoldsLock
    /\ CallsFit

-----------------------------------------------------------------------------
\* The rows that the operations write are rows.
LEMMA RowsAreRows ==
    /\ NoRow \in AccountRows /\ NoRow.state = "none" /\ NoRow.fills = 0 /\ NoRow.last = 0
    /\ FreshRow \in AccountRows
    /\ FreshRow.state = "running" /\ FreshRow.fills = 0 /\ FreshRow.last = 0
    /\ IdleThread \in ThreadStates /\ IdleThread.op = "idle"
<1>1. 0 \in Bars
  BY AccountsAssumption DEF Bars
<1>2. NoRow \in AccountRows /\ NoRow.state = "none" /\ NoRow.fills = 0 /\ NoRow.last = 0
  BY <1>1 DEF NoRow, AccountRows
<1>3. /\ FreshRow \in AccountRows
      /\ FreshRow.state = "running" /\ FreshRow.fills = 0 /\ FreshRow.last = 0
  BY <1>2 DEF FreshRow, AccountRows
<1>4. IdleThread \in ThreadStates /\ IdleThread.op = "idle"
  BY <1>1, <1>2 DEF IdleThread, ThreadStates, ThreadOps
<1> QED BY <1>2, <1>3, <1>4

\* An archive that is to keep one more than k keeps the last k and the new one.
LEMMA ArchivesLast ==
    ASSUME archive \in Seq(ArchiveRows), NEW i \in AccountIds, NEW r \in AccountRows,
           Archives(i, r), NEW k \in Nat, k + 1 <= KeptArchive
    PROVE  /\ archive' \in Seq(ArchiveRows)
           /\ LastArchived(k) \cup {i} \subseteq LastArchived(k + 1)'
           /\ RetiredIsFlat /\ Flat(r) => RetiredIsFlat'
<1> DEFINE entry == [id |-> i, row |-> r]
           list == Append(archive, entry)
<1>1. entry \in ArchiveRows /\ entry.id = i /\ entry.row = r
  BY DEF ArchiveRows
<1>2. /\ list \in Seq(ArchiveRows) /\ Len(list) = Len(archive) + 1
      /\ \A n \in 1 .. Len(archive) : list[n] = archive[n]
      /\ list[Len(archive) + 1] = entry
  BY <1>1
<1>3. archive' = LastOnes(list)
  BY DEF Archives
<1>4. KeptArchive \in Nat
  BY AccountsAssumption
<1> HIDE DEF entry, list
<1>5. PICK d \in Nat :
          /\ archive' \in Seq(ArchiveRows)
          /\ Len(archive') = Len(list) - d
          /\ d = 0 \/ Len(archive') = KeptArchive
          /\ \A n \in 1 .. Len(archive') : archive'[n] = list[n + d]
  <2>1. CASE Len(list) <= KeptArchive
    <3>1. archive' = list
      BY <2>1, <1>3 DEF LastOnes
    <3>2. /\ 0 \in Nat /\ list \in Seq(ArchiveRows) /\ Len(list) = Len(list) - 0
          /\ \A n \in 1 .. Len(list) : list[n] = list[n + 0]
      BY <1>2
    <3> QED BY <3>1, <3>2
  <2>2. CASE Len(list) > KeptArchive
    <3> DEFINE e == Len(list) - KeptArchive
    <3>1. /\ archive' = SubSeq(list, e + 1, Len(list))
          /\ e \in Nat /\ Len(list) - e = KeptArchive /\ e <= Len(list)
      BY <2>2, <1>2, <1>3, <1>4 DEF LastOnes
    <3> HIDE DEF e
    <3>2. /\ archive' \in Seq(ArchiveRows) /\ Len(archive') = Len(list) - e
          /\ \A n \in 1 .. Len(archive') : archive'[n] = list[n + e]
      BY <3>1, <1>2
    <3>3. Len(archive') = KeptArchive
      BY <3>1, <3>2
    <3> QED BY <3>1, <3>2, <3>3
  <2> QED BY <2>1, <2>2, <1>2, <1>4
<1>6. i \in LastArchived(k + 1)'
  <2>1. Len(archive') >= 1
    BY <1>2, <1>4, <1>5
  <2>2. archive'[Len(archive')] = entry
    BY <2>1, <1>2, <1>5
  <2> QED BY <2>1, <2>2, <1>1, <1>5 DEF LastArchived
<1>7. ASSUME NEW j \in LastArchived(k)
      PROVE  j \in LastArchived(k + 1)'
  <2>1. PICK m \in 1 .. Len(archive) : m > Len(archive) - k /\ archive[m].id = j
    BY DEF LastArchived
  <2>2. m - d \in 1 .. Len(archive') /\ m - d > Len(archive') - (k + 1)
    BY <2>1, <1>2, <1>4, <1>5
  <2>3. archive'[m - d].id = j
    <3>1. archive'[m - d] = list[(m - d) + d]
      BY <2>2, <1>5
    <3>2. (m - d) + d = m
      OBVIOUS
    <3>3. list[m] = archive[m]
      BY <1>2
    <3> QED BY <3>1, <3>2, <3>3, <2>1
  <2> QED BY <2>2, <2>3 DEF LastArchived
<1>8. ASSUME RetiredIsFlat, Flat(r)
      PROVE  RetiredIsFlat'
  <2>1. \A n \in 1 .. Len(list) : Flat(list[n].row)
    BY <1>1, <1>2, <1>8 DEF RetiredIsFlat
  <2>2. ASSUME NEW n \in 1 .. Len(archive')
        PROVE  Flat(archive'[n].row)
    <3>1. n + d \in 1 .. Len(list) /\ archive'[n] = list[n + d]
      BY <1>2, <1>5
    <3> QED BY <3>1, <2>1
  <2> QED BY <2>2 DEF RetiredIsFlat, Flat
<1> QED BY <1>5, <1>6, <1>7, <1>8

\* What a call has taken is archived, so nothing is lost where it returns.
LEMMA TakenIsArchived ==
    ASSUME AccountsInv, NEW t \in Threads, work[t].op # "idle"
    PROVE  /\ work[t] \in ThreadStates
           /\ CallFits(work[t])
           /\ lock = t
           /\ \A i \in ActiveRows(accounts) \ ActiveRows(work[t].copy) : i \in Archived
<1>1. work[t] \in ThreadStates /\ CallFits(work[t]) /\ lock = t
  BY DEF AccountsInv, AccountTypes, CallsFit, HoldsLock
<1>2. ASSUME NEW i \in ActiveRows(accounts) \ ActiveRows(work[t].copy)
      PROVE  i \in Archived
  <2>1. i \in LastArchived(Cardinality(Taken(work[t])))
    BY <1>1 DEF CallFits, Taken
  <2> QED BY <2>1 DEF LastArchived, Archived
<1> QED BY <1>1, <1>2

\* Where nobody is in a call, the list and the archive are all there is.
LEMMA AllIdleKeeps ==
    ASSUME AccountsInv, accounts' \in [AccountIds -> AccountRows], SeenBy(accounts', bar),
           IsFiniteSet(ActiveRows(accounts')),
           Cardinality(ActiveRows(accounts')) <= Capacity,
           UNCHANGED <<bar, archive>>, lock' = "free",
           work' = [t \in Threads |-> IdleThread]
    PROVE  AccountsInv'
<1>1. work' \in [Threads -> ThreadStates]
  BY RowsAreRows
<1>2. \A t \in Threads : work'[t] = IdleThread /\ work'[t].op = "idle"
  BY RowsAreRows
<1>3. AccountTypes'
  BY <1>1 DEF AccountsInv, AccountTypes
<1>4. SeenBy(accounts', bar')
  OBVIOUS
<1>5. FewActive'
  BY DEF FewActive
<1>6. RetiredIsFlat'
  BY DEF AccountsInv, RetiredIsFlat
<1>7. HoldsLock'
  <2>1. "free" \notin Threads
    BY DEF Threads
  <2> QED BY <1>2, <2>1 DEF HoldsLock
<1>8. CallsFit'
  BY <1>2 DEF CallsFit
<1> QED BY <1>3, <1>4, <1>5, <1>6, <1>7, <1>8 DEF AccountsInv

\* While one thread is in a call, the other is idle.
LEMMA OthersAreIdle ==
    ASSUME AccountsInv, NEW t \in Threads, work[t].op # "idle"
    PROVE  \A u \in Threads \ {t} : work[u] = IdleThread
BY DEF AccountsInv, HoldsLock

\* A call ends with what it worked out.
LEMMA ReturnsKeeps ==
    ASSUME AccountsInv, NEW t \in Threads, work[t].op # "idle",
           NEW list \in [AccountIds -> AccountRows], Returns(t, list),
           SeenBy(list, bar), IsFiniteSet(ActiveRows(list)),
           Cardinality(ActiveRows(list)) <= Capacity
    PROVE  AccountsInv'
<1>1. work' = [u \in Threads |-> IdleThread]
  BY OthersAreIdle DEF Returns, AccountsInv, AccountTypes
<1>2. accounts' = list /\ lock' = "free" /\ UNCHANGED <<bar, archive>>
  BY DEF Returns
<1> QED BY <1>1, <1>2, AllIdleKeeps

\* Nothing is lost by a list that has the accounts of the copy, with its fills.
LEMMA ReturnsLosesNothing ==
    ASSUME AccountsInv, NEW t \in Threads, work[t].op # "idle",
           NEW list, Returns(t, list),
           \A i \in ActiveRows(accounts) :
              IF i \in ActiveRows(work[t].copy)
              THEN i \in ActiveRows(list) /\ list[i].fills >= work[t].copy[i].fills
              ELSE i \notin ActiveRows(list),
           \A i \in AccountIds : list[i].fills \in Nat
    PROVE  NoFillIsLost
<1>1. accounts' = list
  BY DEF Returns
<1>2. /\ CallFits(work[t])
      /\ \A i \in ActiveRows(accounts) \ ActiveRows(work[t].copy) : i \in Archived
      /\ work[t] \in ThreadStates
  BY TakenIsArchived
<1>3. ASSUME NEW i \in ActiveRows(accounts)
      PROVE  IF i \in ActiveRows(accounts') THEN accounts'[i].fills >= accounts[i].fills
             ELSE i \in Archived
  <2>1. i \in AccountIds
    BY DEF ActiveRows
  <2>2. CASE i \in ActiveRows(work[t].copy)
    <3>1. i \in ActiveRows(list) /\ list[i].fills >= work[t].copy[i].fills
      BY <2>2, <1>3
    <3>2. work[t].copy[i].fills >= accounts[i].fills
      BY <2>2, <1>2 DEF CallFits
    <3>3. work[t].copy[i].fills \in Nat /\ accounts[i].fills \in Nat
      BY <1>2, <2>1 DEF AccountsInv, AccountTypes, ThreadStates, AccountRows
    <3> QED BY <3>1, <3>2, <3>3, <1>1, <2>1
  <2>3. CASE i \notin ActiveRows(work[t].copy)
    BY <2>3, <1>1, <1>2, <1>3
  <2> QED BY <2>2, <2>3
<1> QED BY <1>3 DEF NoFillIsLost

\* A step that leaves the list alone loses nothing.
LEMMA SameListLosesNothing ==
    ASSUME AccountsInv, UNCHANGED accounts
    PROVE  NoFillIsLost
<1>1. ASSUME NEW i \in ActiveRows(accounts)
      PROVE  i \in ActiveRows(accounts') /\ accounts'[i].fills >= accounts[i].fills
  <2>1. accounts[i].fills \in Nat
    BY DEF ActiveRows, AccountsInv, AccountTypes, AccountRows
  <2> QED BY <2>1
<1> QED BY <1>1 DEF NoFillIsLost

-----------------------------------------------------------------------------
\* A call begins with the list as it is.
LEMMA EntersKeeps ==
    ASSUME AccountsInv, NEW t \in Threads, NEW op \in ThreadOps \ {"idle"},
           NEW todo \in SUBSET AccountIds, Enters(t, op, todo),
           op = "start" => todo \cap ActiveRows(accounts) = {},
           op # "start" => todo \subseteq ActiveRows(accounts)
    PROVE  AccountsInv' /\ NoFillIsLost
<1> DEFINE w == [op |-> op, bar |-> bar, copy |-> accounts, todo |-> todo]
<1>1. w \in ThreadStates
  BY DEF AccountsInv, AccountTypes, ThreadStates
<1>2. w.op = op /\ w.bar = bar /\ w.copy = accounts /\ w.todo = todo
  OBVIOUS
<1>3. /\ work[t] = IdleThread /\ lock = "free" /\ lock' = t
      /\ work' = [work EXCEPT ![t] = w] /\ UNCHANGED <<bar, accounts, archive>>
  BY DEF Enters, MayEnter
<1> HIDE DEF w
<1>4. \A u \in Threads : work[u].op = "idle" /\ work[u] = IdleThread
  <2>1. "free" \notin Threads
    BY DEF Threads
  <2> QED BY <1>3, <2>1 DEF AccountsInv, HoldsLock
<1>5. work' \in [Threads -> ThreadStates] /\ work'[t] = w
      /\ \A u \in Threads \ {t} : work'[u] = IdleThread /\ work'[u].op = "idle"
  BY <1>1, <1>3, <1>4 DEF AccountsInv, AccountTypes
<1>6. AccountTypes'
  BY <1>3, <1>5 DEF AccountsInv, AccountTypes
<1>7. SeenBy(accounts', bar') /\ FewActive' /\ RetiredIsFlat'
  BY <1>3 DEF AccountsInv, FewActive, RetiredIsFlat
<1>8. HoldsLock'
  BY <1>2, <1>3, <1>5 DEF HoldsLock
<1>9. CallFits(w)'
  <2>1. w'.copy = accounts' /\ w'.bar = bar' /\ w'.op = op /\ w'.todo = todo
    BY <1>2, <1>3 DEF w
  <2>2. w = w'
    BY <1>3 DEF w
  <2>3. bar \in Nat
    BY AccountsAssumption DEF AccountsInv, AccountTypes, Bars
  <2>4. Taken(w)' = {}
    BY <2>1, <1>3 DEF Taken
  <2>5. \A i \in ActiveRows(accounts) : accounts[i].fills >= accounts[i].fills
    BY DEF AccountsInv, AccountTypes, AccountRows, ActiveRows
  <2> QED BY <2>1, <2>2, <2>3, <2>4, <2>5, <1>2, <1>3 DEF CallFits, AccountsInv
<1>10. CallsFit'
  <2>1. w' = w
    BY <1>3 DEF w
  <2> QED BY <1>5, <1>9, <2>1 DEF CallsFit
<1>11. NoFillIsLost
  BY <1>3, SameListLosesNothing
<1> QED BY <1>6, <1>7, <1>8, <1>10, <1>11 DEF AccountsInv

\* A step within a call: the thread's copy changes, and perhaps the archive.
LEMMA EditsKeeps ==
    ASSUME AccountsInv, NEW t \in Threads, work[t].op \notin {"idle", "start"},
           NEW copy \in [AccountIds -> AccountRows], NEW todo \in SUBSET AccountIds,
           Edits(t, copy, todo), UNCHANGED <<bar, accounts, lock>>,
           archive' \in Seq(ArchiveRows), RetiredIsFlat',
           SeenBy(copy, work[t].bar), ActiveRows(copy) \subseteq ActiveRows(accounts),
           \A i \in ActiveRows(copy) : copy[i].fills >= accounts[i].fills,
           todo \subseteq ActiveRows(copy),
           NEW k \in Nat, k = Cardinality(ActiveRows(accounts) \ ActiveRows(copy)),
           ActiveRows(accounts) \ ActiveRows(copy) \subseteq LastArchived(k)'
    PROVE  AccountsInv' /\ NoFillIsLost
<1> DEFINE mid == [work[t] EXCEPT !.copy = copy]
           w == [mid EXCEPT !.todo = todo]
<1>1. work[t] \in ThreadStates /\ CallFits(work[t]) /\ lock = t
  BY TakenIsArchived
<1>2. mid \in ThreadStates /\ mid.op = work[t].op /\ mid.bar = work[t].bar /\ mid.copy = copy
  BY <1>1 DEF ThreadStates
<1>3. work' = [work EXCEPT ![t] = w]
  BY DEF Edits, AccountsInv, AccountTypes
<1> HIDE DEF mid
<1>4. /\ w \in ThreadStates
      /\ w.op = work[t].op /\ w.bar = work[t].bar /\ w.copy = copy /\ w.todo = todo
  BY <1>2 DEF ThreadStates
<1> HIDE DEF w
<1>5. /\ work' \in [Threads -> ThreadStates] /\ work'[t] = w
      /\ \A u \in Threads \ {t} : work'[u] = work[u]
  BY <1>3, <1>4 DEF AccountsInv, AccountTypes
<1>6. AccountTypes'
  BY <1>5 DEF AccountsInv, AccountTypes
<1>7. SeenBy(accounts', bar') /\ FewActive'
  BY DEF AccountsInv, FewActive
<1>8. HoldsLock'
  <2>1. ASSUME NEW u \in Threads
        PROVE  (lock' = u <=> work'[u].op # "idle")
               /\ (work'[u].op = "idle" => work'[u] = IdleThread)
    <3>1. CASE u = t
      BY <3>1, <1>1, <1>4, <1>5
    <3>2. CASE u # t
      BY <3>2, <1>5 DEF AccountsInv, HoldsLock
    <3> QED BY <3>1, <3>2
  <2> QED BY <2>1 DEF HoldsLock
<1>9. CallFits(work[t])'
  <2>1. w.bar <= bar
    BY <1>1, <1>4 DEF CallFits
  <2> QED BY <2>1, <1>4, <1>5 DEF CallFits, Taken
<1>10. CallsFit'
  <2>1. ASSUME NEW u \in Threads, work'[u].op # "idle"
        PROVE  u = t
    BY <2>1, <1>5, OthersAreIdle, RowsAreRows
  <2> QED BY <2>1, <1>9 DEF CallsFit
<1>11. NoFillIsLost
  BY SameListLosesNothing
<1> QED BY <1>6, <1>7, <1>8, <1>10, <1>11 DEF AccountsInv
-----------------------------------------------------------------------------
\* An account that is retired while a call goes on leaves the copy for the archive.
LEMMA TakingKeeps ==
    ASSUME AccountsInv, NEW t \in Threads, work[t].op \notin {"idle", "start"},
           NEW i \in ActiveRows(work[t].copy), NEW r \in AccountRows, Flat(r),
           Archives(i, r), NEW todo \in SUBSET (work[t].todo \ {i}),
           Edits(t, [work[t].copy EXCEPT ![i] = NoRow], todo),
           UNCHANGED <<bar, accounts, lock>>
    PROVE  AccountsInv' /\ NoFillIsLost
<1> DEFINE w == work[t]
           copy == [w.copy EXCEPT ![i] = NoRow]
           gone == Taken(w)
<1>1. w \in ThreadStates /\ CallFits(w)
  BY TakenIsArchived
<1>2. i \in AccountIds /\ i \in ActiveRows(accounts)
  BY <1>1 DEF CallFits, ActiveRows
<1>3. /\ copy \in [AccountIds -> AccountRows] /\ copy[i] = NoRow
      /\ \A j \in AccountIds \ {i} : copy[j] = w.copy[j]
  BY <1>1, <1>2, RowsAreRows DEF ThreadStates
<1>4. ActiveRows(copy) = ActiveRows(w.copy) \ {i}
  BY <1>2, <1>3, RowsAreRows DEF ActiveRows
<1>5. /\ ActiveRows(accounts) \ ActiveRows(copy) = gone \cup {i} /\ i \notin gone
      /\ gone \cup {i} \in SUBSET ActiveRows(accounts) /\ gone \in SUBSET ActiveRows(accounts)
  BY <1>2, <1>4 DEF Taken
<1>6. PICK k \in Nat :
          /\ k = Cardinality(gone) /\ k + 1 = Cardinality(gone \cup {i})
          /\ k + 1 <= KeptArchive
  <2>1. IsFiniteSet(ActiveRows(accounts)) /\ Cardinality(ActiveRows(accounts)) <= Capacity
    BY DEF AccountsInv, FewActive
  <2>2. IsFiniteSet(gone) /\ IsFiniteSet(gone \cup {i})
        /\ Cardinality(gone \cup {i}) <= Cardinality(ActiveRows(accounts))
    BY <1>5, <2>1, FS_Subset
  <2>3. Cardinality(gone \cup {i}) = Cardinality(gone) + 1
    BY <1>5, <2>2, FS_AddElement
  <2>4. Cardinality(gone) \in Nat /\ Cardinality(ActiveRows(accounts)) \in Nat
    BY <2>1, <2>2, FS_CardinalityType
  <2> HIDE DEF gone
  <2> QED BY <2>1, <2>2, <2>3, <2>4, AccountsAssumption
<1>7. gone \subseteq LastArchived(k)
  BY <1>1, <1>6 DEF CallFits
<1>8. /\ archive' \in Seq(ArchiveRows) /\ RetiredIsFlat'
      /\ LastArchived(k) \cup {i} \subseteq LastArchived(k + 1)'
  <2>1. archive \in Seq(ArchiveRows) /\ RetiredIsFlat
    BY DEF AccountsInv, AccountTypes
  <2> QED BY <2>1, <1>2, <1>6, ArchivesLast
<1>9. ActiveRows(accounts) \ ActiveRows(copy) \subseteq LastArchived(k + 1)'
  BY <1>5, <1>7, <1>8
<1>10. SeenBy(copy, w.bar)
  <2>1. w.bar \in Nat
    BY <1>1, AccountsAssumption DEF ThreadStates, Bars
  <2>2. ASSUME NEW j \in AccountIds
        PROVE  copy[j].fills <= copy[j].last /\ copy[j].last <= w.bar
    <3>1. CASE j = i
      BY <3>1, <2>1, <1>3, RowsAreRows
    <3>2. CASE j # i
      BY <3>2, <1>1, <1>3 DEF CallFits, SeenBy
    <3> QED BY <3>1, <3>2
  <2> HIDE DEF copy, w
  <2> QED BY <2>2 DEF SeenBy
<1>11. \A j \in ActiveRows(copy) : copy[j].fills >= accounts[j].fills
  BY <1>1, <1>3, <1>4 DEF CallFits, ActiveRows
<1>12. /\ ActiveRows(copy) \subseteq ActiveRows(accounts) /\ todo \subseteq ActiveRows(copy)
       /\ todo \in SUBSET AccountIds
  BY <1>1, <1>4 DEF CallFits, ThreadStates
<1>13. k + 1 = Cardinality(ActiveRows(accounts) \ ActiveRows(copy))
  BY <1>5, <1>6
<1>14. Edits(t, copy, todo)
  OBVIOUS
<1> HIDE DEF copy, gone
<1> QED BY <1>3, <1>8, <1>9, <1>10, <1>11, <1>12, <1>13, <1>14, EditsKeeps

\* What an account may be when a bar has been evaluated.
LEMMA EvaluatedFits ==
    ASSUME NEW r \in AccountRows, NEW b \in Bars, r.fills <= r.last, r.last <= b,
           r.state # "none", NEW next,
           next \in (IF Due(r, b) THEN Evaluated(r, b) ELSE {r})
    PROVE  /\ next \in AccountRows /\ next.state = r.state
           /\ next.fills <= next.last /\ next.last <= b
           /\ next.fills >= r.fills
<1>1. /\ r.last \in Nat /\ b \in Nat /\ r.fills \in Nat
  BY AccountsAssumption DEF AccountRows, Bars
<1>2. CASE next = r
  BY <1>1, <1>2
<1>3. CASE next # r
  <2>1. next \in Evaluated(r, b) /\ r.last # b
    BY <1>3 DEF Due
  <2>2. CASE next = [r EXCEPT !.last = b]
    BY <2>2, <1>1 DEF AccountRows
  <2>3. CASE \E p \in {0, 1} : next = [r EXCEPT !.position = p, !.last = b, !.fills = @ + 1]
    <3>1. PICK p \in {0, 1} : next = [r EXCEPT !.position = p, !.last = b, !.fills = @ + 1]
      BY <2>3
    <3>2. next = [[[r EXCEPT !.position = p] EXCEPT !.last = b] EXCEPT !.fills = r.fills + 1]
      BY <3>1 DEF AccountRows
    <3> DEFINE one == [r EXCEPT !.position = p]
               two == [one EXCEPT !.last = b]
    <3>3. one \in AccountRows /\ one.state = r.state
      BY DEF AccountRows
    <3> HIDE DEF one
    <3>4. two \in AccountRows /\ two.state = r.state /\ two.last = b
      BY <3>3 DEF AccountRows
    <3>5. next = [two EXCEPT !.fills = r.fills + 1]
      BY <3>2 DEF one
    <3> HIDE DEF two
    <3>6. /\ next \in AccountRows /\ next.state = r.state /\ next.last = b
          /\ next.fills = r.fills + 1
      BY <3>4, <3>5, <1>1 DEF AccountRows
    <3> QED BY <3>6, <2>1, <1>1
  <2>4. \/ next = [r EXCEPT !.last = b]
        \/ \E p \in {0, 1} :
              next = [r EXCEPT !.position = p, !.last = b, !.fills = @ + 1]
    BY <2>1, Zenon DEF Evaluated
  <2> QED BY <2>2, <2>3, <2>4
<1> QED BY <1>2, <1>3

LEMMA RowEvaluatesKeeps ==
    ASSUME AccountsInv, RowEvaluates
    PROVE  AccountsInv' /\ NoFillIsLost
<1> DEFINE w == work["loop"]
<1>1. /\ "loop" \in Threads /\ w.op = "tick" /\ UNCHANGED <<bar, accounts, lock>>
  BY DEF Threads, RowEvaluates
<1>2. w \in ThreadStates /\ CallFits(w)
  BY <1>1, TakenIsArchived
<1>3. PICK i \in w.todo :
        \E r \in (IF Due(w.copy[i], w.bar) THEN Evaluated(w.copy[i], w.bar)
                    ELSE {w.copy[i]}) :
            IF r.state = "retiring" /\ Flat(r)
            THEN /\ Archives(i, r)
                 /\ Edits("loop", [w.copy EXCEPT ![i] = NoRow], w.todo \ {i})
            ELSE /\ Edits("loop", [w.copy EXCEPT ![i] = r], w.todo \ {i})
                 /\ UNCHANGED archive
  BY DEF RowEvaluates
<1>4. PICK r \in (IF Due(w.copy[i], w.bar) THEN Evaluated(w.copy[i], w.bar)
                    ELSE {w.copy[i]}) :
            IF r.state = "retiring" /\ Flat(r)
            THEN /\ Archives(i, r)
                 /\ Edits("loop", [w.copy EXCEPT ![i] = NoRow], w.todo \ {i})
            ELSE /\ Edits("loop", [w.copy EXCEPT ![i] = r], w.todo \ {i})
                 /\ UNCHANGED archive
  BY <1>3
<1>5. /\ i \in ActiveRows(w.copy) /\ i \in AccountIds /\ w.copy[i] \in AccountRows
      /\ w.copy[i].state # "none" /\ w.bar \in Bars
      /\ w.copy[i].fills <= w.copy[i].last /\ w.copy[i].last <= w.bar
  BY <1>1, <1>2 DEF CallFits, ActiveRows, ThreadStates, SeenBy
<1>6. /\ r \in AccountRows /\ r.state = w.copy[i].state
      /\ r.fills <= r.last /\ r.last <= w.bar /\ r.fills >= w.copy[i].fills
  BY <1>5, EvaluatedFits
<1>7. CASE r.state = "retiring" /\ Flat(r)
  <2>1. /\ Archives(i, r) /\ Flat(r)
        /\ Edits("loop", [w.copy EXCEPT ![i] = NoRow], w.todo \ {i})
    BY <1>4, <1>7
  <2> QED BY <2>1, <1>1, <1>5, <1>6, TakingKeeps
<1>8. CASE ~(r.state = "retiring" /\ Flat(r))
  <2> DEFINE copy == [w.copy EXCEPT ![i] = r]
             todo == w.todo \ {i}
             gone == ActiveRows(accounts) \ ActiveRows(copy)
  <2>1. Edits("loop", copy, todo) /\ UNCHANGED archive
    BY <1>4, <1>8
  <2>2. /\ copy \in [AccountIds -> AccountRows] /\ copy[i] = r
        /\ \A j \in AccountIds \ {i} : copy[j] = w.copy[j]
    BY <1>2, <1>5, <1>6 DEF ThreadStates
  <2>3. ActiveRows(copy) = ActiveRows(w.copy)
    BY <1>5, <1>6, <2>2 DEF ActiveRows
  <2>4. SeenBy(copy, w.bar)
    <3>1. ASSUME NEW j \in AccountIds
          PROVE  copy[j].fills <= copy[j].last /\ copy[j].last <= w.bar
      <4>1. CASE j = i
        BY <4>1, <1>6, <2>2
      <4>2. CASE j # i
        BY <4>2, <1>2, <2>2 DEF CallFits, SeenBy
      <4> QED BY <4>1, <4>2
    <3> HIDE DEF copy, w
    <3> QED BY <3>1 DEF SeenBy
  <2>5. ASSUME NEW j \in ActiveRows(copy)
        PROVE  copy[j].fills >= accounts[j].fills
    <3>1. j \in AccountIds /\ j \in ActiveRows(w.copy) /\ w.copy[j].fills >= accounts[j].fills
      BY <1>2, <2>3 DEF CallFits, ActiveRows
    <3>2. CASE j # i
      BY <3>1, <3>2, <2>2
    <3>3. CASE j = i
      <4>1. r.fills \in Nat /\ w.copy[i].fills \in Nat /\ accounts[i].fills \in Nat
        BY <1>5, <1>6 DEF AccountRows, AccountsInv, AccountTypes
      <4>2. copy[j].fills = r.fills /\ r.fills >= w.copy[i].fills
        BY <1>6, <2>2, <3>3
      <4>3. w.copy[i].fills >= accounts[i].fills
        BY <3>1, <3>3
      <4> HIDE DEF copy, w
      <4> QED BY <4>1, <4>2, <4>3, <3>3
    <3> QED BY <3>2, <3>3
  <2>6. PICK k \in Nat : k = Cardinality(gone)
    <3>1. IsFiniteSet(ActiveRows(accounts)) /\ gone \in SUBSET ActiveRows(accounts)
      BY DEF AccountsInv, FewActive
    <3>2. Cardinality(gone) \in Nat
      BY <3>1, FS_Subset, FS_CardinalityType
    <3> QED BY <3>2
  <2>10. gone \subseteq LastArchived(k)'
    <3>1. gone \subseteq LastArchived(k)
      BY <1>2, <2>3, <2>6 DEF CallFits, Taken
    <3>2. LastArchived(k)' = LastArchived(k)
      BY <2>1 DEF LastArchived
    <3> QED BY <3>1, <3>2
  <2>7. /\ archive' \in Seq(ArchiveRows) /\ RetiredIsFlat'
    BY <2>1 DEF AccountsInv, AccountTypes, RetiredIsFlat
  <2>8. /\ ActiveRows(copy) \subseteq ActiveRows(accounts)
        /\ todo \in SUBSET AccountIds /\ todo \subseteq ActiveRows(copy)
    BY <1>1, <1>2, <2>3 DEF CallFits, ThreadStates
  <2>9. work["loop"].op \notin {"idle", "start"}
    BY <1>1
  <2>11. /\ k = Cardinality(ActiveRows(accounts) \ ActiveRows(copy))
         /\ ActiveRows(accounts) \ ActiveRows(copy) \subseteq LastArchived(k)'
    BY <2>6, <2>10
  <2> HIDE DEF copy, todo, gone
  <2> QED BY <1>1, <2>1, <2>2, <2>4, <2>5, <2>6, <2>7, <2>8, <2>9, <2>11, EditsKeeps
<1> QED BY <1>7, <1>8
-----------------------------------------------------------------------------
\* The copy of a call is a list that may be written.
LEMMA CopyMayReturn ==
    ASSUME AccountsInv, NEW t \in Threads, work[t].op # "idle"
    PROVE  /\ work[t].copy \in [AccountIds -> AccountRows] /\ SeenBy(work[t].copy, bar)
           /\ IsFiniteSet(ActiveRows(work[t].copy))
           /\ Cardinality(ActiveRows(work[t].copy)) <= Capacity
<1> DEFINE w == work[t]
<1>1. w \in ThreadStates /\ CallFits(w)
  BY TakenIsArchived
<1>2. bar \in Nat /\ w.bar \in Nat /\ w.bar <= bar /\ \A i \in AccountIds : w.copy[i].last \in Nat
  BY <1>1, AccountsAssumption
  DEF AccountsInv, AccountTypes, ThreadStates, AccountRows, Bars, CallFits
<1>3. SeenBy(w.copy, bar)
  BY <1>1, <1>2 DEF CallFits, SeenBy
<1>4. IsFiniteSet(ActiveRows(accounts)) /\ Cardinality(ActiveRows(accounts)) <= Capacity
  BY DEF AccountsInv, FewActive
<1>5. ActiveRows(w.copy) \in SUBSET ActiveRows(accounts)
  BY <1>1 DEF CallFits
<1>6. IsFiniteSet(ActiveRows(w.copy))
      /\ Cardinality(ActiveRows(w.copy)) <= Cardinality(ActiveRows(accounts))
  BY <1>4, <1>5, FS_Subset
<1>7. Cardinality(ActiveRows(w.copy)) \in Nat /\ Cardinality(ActiveRows(accounts)) \in Nat
  BY <1>4, <1>6, FS_CardinalityType
<1>8. w.copy \in [AccountIds -> AccountRows]
  BY <1>1 DEF ThreadStates
<1> HIDE DEF w
<1>9. Cardinality(ActiveRows(w.copy)) <= Capacity
  BY <1>4, <1>6, <1>7, AccountsAssumption
<1> QED BY <1>3, <1>6, <1>8, <1>9 DEF w

\* A call that changes nothing but lets the lock go.
LEMMA LetsGoKeeps ==
    ASSUME AccountsInv, UNCHANGED <<bar, accounts, archive>>, lock' = "free",
           work' = [t \in Threads |-> IdleThread]
    PROVE  AccountsInv' /\ NoFillIsLost
<1>1. /\ accounts' \in [AccountIds -> AccountRows] /\ SeenBy(accounts', bar)
      /\ IsFiniteSet(ActiveRows(accounts')) /\ Cardinality(ActiveRows(accounts')) <= Capacity
  BY DEF AccountsInv, AccountTypes, FewActive
<1>2. AccountsInv'
  BY <1>1, AllIdleKeeps
<1> QED BY <1>2, SameListLosesNothing

LEMMA FailsKeeps ==
    ASSUME AccountsInv, NEW t \in Threads, Fails(t)
    PROVE  AccountsInv' /\ NoFillIsLost
<1>1. work[t].op # "idle"
  BY DEF Fails, AccountsInv, HoldsLock
<1>2. work' = [u \in Threads |-> IdleThread]
  BY <1>1, OthersAreIdle DEF Fails, AccountsInv, AccountTypes
<1> QED BY <1>2, LetsGoKeeps DEF Fails

LEMMA RefusedKeeps ==
    ASSUME AccountsInv, NEW t \in Threads, work[t].op # "idle", Returns(t, accounts)
    PROVE  AccountsInv' /\ NoFillIsLost
<1>1. work' = [u \in Threads |-> IdleThread]
  BY OthersAreIdle DEF Returns, AccountsInv, AccountTypes
<1> QED BY <1>1, LetsGoKeeps DEF Returns

LEMMA EvaluationEndsKeeps ==
    ASSUME AccountsInv, EvaluationEnds
    PROVE  AccountsInv' /\ NoFillIsLost
<1>1. /\ "loop" \in Threads /\ work["loop"].op # "idle"
      /\ Returns("loop", work["loop"].copy)
  BY DEF EvaluationEnds, Threads
<1> DEFINE list == work["loop"].copy
<1>2. /\ list \in [AccountIds -> AccountRows] /\ SeenBy(list, bar)
      /\ IsFiniteSet(ActiveRows(list)) /\ Cardinality(ActiveRows(list)) <= Capacity
  BY <1>1, CopyMayReturn
<1>3. AccountsInv'
  BY <1>1, <1>2, ReturnsKeeps
<1>4. \A i \in AccountIds : list[i].fills \in Nat /\ list[i].fills >= list[i].fills
  BY <1>2 DEF AccountRows
<1>5. NoFillIsLost
  <2>1. \A i \in ActiveRows(accounts) : i \in AccountIds
    BY DEF ActiveRows
  <2> QED BY <1>1, <1>4, <2>1, ReturnsLosesNothing
<1> QED BY <1>3, <1>5

LEMMA StartEndsKeeps ==
    ASSUME AccountsInv, StartEnds
    PROVE  AccountsInv' /\ NoFillIsLost
<1> DEFINE w == work["advisor"]
<1>1. "advisor" \in Threads /\ w.op = "start"
  BY DEF StartEnds, Threads
<1>2. PICK i \in w.todo :
        Returns("advisor", IF Cardinality(ActiveRows(w.copy)) < Capacity
                           THEN [w.copy EXCEPT ![i] = FreshRow] ELSE accounts)
  BY DEF StartEnds
<1>3. w.copy = accounts /\ i \in AccountIds /\ i \notin ActiveRows(accounts)
  BY <1>1, TakenIsArchived DEF CallFits, ThreadStates
<1>4. CASE Cardinality(ActiveRows(w.copy)) < Capacity
  <2> DEFINE list == [accounts EXCEPT ![i] = FreshRow]
  <2>1. Returns("advisor", list)
    BY <1>2, <1>3, <1>4
  <2>2. /\ list \in [AccountIds -> AccountRows] /\ list[i] = FreshRow
        /\ \A j \in AccountIds \ {i} : list[j] = accounts[j]
    BY <1>3, RowsAreRows DEF AccountsInv, AccountTypes
  <2>3. ActiveRows(list) = ActiveRows(accounts) \cup {i}
    BY <1>3, <2>2, RowsAreRows DEF ActiveRows
  <2>4. IsFiniteSet(ActiveRows(list)) /\ Cardinality(ActiveRows(list)) <= Capacity
    <3>1. IsFiniteSet(ActiveRows(accounts)) /\ Cardinality(ActiveRows(accounts)) \in Nat
      BY FS_CardinalityType DEF AccountsInv, FewActive
    <3>2. IsFiniteSet(ActiveRows(accounts) \cup {i})
          /\ Cardinality(ActiveRows(accounts) \cup {i}) = Cardinality(ActiveRows(accounts)) + 1
      BY <3>1, <1>3, FS_AddElement
    <3>3. Cardinality(ActiveRows(accounts)) < Capacity
      BY <1>3, <1>4
    <3> HIDE DEF list
    <3> QED BY <3>1, <3>2, <3>3, <2>3, AccountsAssumption
  <2>5. bar \in Nat
    BY AccountsAssumption DEF AccountsInv, AccountTypes, Bars
  <2>6. SeenBy(list, bar)
    <3>1. ASSUME NEW j \in AccountIds
          PROVE  list[j].fills <= list[j].last /\ list[j].last <= bar
      <4>1. CASE j = i
        BY <4>1, <2>2, <2>5, RowsAreRows
      <4>2. CASE j # i
        BY <4>2, <2>2 DEF AccountsInv, SeenBy
      <4> QED BY <4>1, <4>2
    <3> HIDE DEF list
    <3> QED BY <3>1 DEF SeenBy
  <2>7. /\ \A j \in AccountIds : list[j].fills \in Nat /\ accounts[j].fills \in Nat
    BY <2>2 DEF AccountRows, AccountsInv, AccountTypes
  <2>8. ASSUME NEW j \in ActiveRows(accounts)
        PROVE  IF j \in ActiveRows(w.copy)
               THEN j \in ActiveRows(list) /\ list[j].fills >= w.copy[j].fills
               ELSE j \notin ActiveRows(list)
    <3>1. j \in AccountIds /\ j # i /\ j \in ActiveRows(list)
      BY <1>3, <2>3 DEF ActiveRows
    <3>2. list[j] = accounts[j] /\ list[j].fills \in Nat
      BY <3>1, <2>2, <2>7
    <3> HIDE DEF list
    <3> QED BY <3>1, <3>2, <1>3
  <2> HIDE DEF list
  <2>9. work["advisor"].op # "idle"
    BY <1>1
  <2>10. AccountsInv'
    BY <1>1, <2>1, <2>2, <2>4, <2>6, <2>9, ReturnsKeeps
  <2>11. NoFillIsLost
    BY <1>1, <2>1, <2>7, <2>8, <2>9, ReturnsLosesNothing
  <2> QED BY <2>10, <2>11
<1>5. CASE ~(Cardinality(ActiveRows(w.copy)) < Capacity)
  <2>1. Returns("advisor", accounts) /\ work["advisor"].op # "idle"
    BY <1>1, <1>2, <1>5
  <2> QED BY <1>1, <2>1, RefusedKeeps
<1> QED BY <1>4, <1>5

LEMMA RetireArchivesKeeps ==
    ASSUME AccountsInv, RetireArchives
    PROVE  AccountsInv' /\ NoFillIsLost
<1> DEFINE w == work["advisor"]
<1>1. "advisor" \in Threads /\ w.op = "retire" /\ UNCHANGED <<bar, accounts, lock>>
  BY DEF RetireArchives, Threads
<1>2. PICK i \in w.todo :
        /\ MayArchive(w.copy[i])
        /\ Archives(i, [w.copy[i] EXCEPT !.state = "retiring"])
        /\ Edits("advisor", [w.copy EXCEPT ![i] = NoRow], {})
  BY DEF RetireArchives
<1>3. w \in ThreadStates /\ CallFits(w)
  BY <1>1, TakenIsArchived
<1>4. i \in ActiveRows(w.copy) /\ i \in AccountIds /\ w.copy[i] \in AccountRows
  BY <1>1, <1>3 DEF CallFits, ActiveRows, ThreadStates
<1> DEFINE r == [w.copy[i] EXCEPT !.state = "retiring"]
<1>5. r \in AccountRows /\ Flat(r)
  BY <1>2, <1>4 DEF AccountRows, Flat, MayArchive
<1>6. {} \in SUBSET (w.todo \ {i})
  OBVIOUS
<1>7. work["advisor"].op \notin {"idle", "start"}
  BY <1>1
<1>8. Archives(i, r)
  BY <1>2
<1> HIDE DEF r
<1> QED BY <1>1, <1>2, <1>4, <1>5, <1>6, <1>7, <1>8, TakingKeeps

LEMMA RetireEndsKeeps ==
    ASSUME AccountsInv, RetireEnds
    PROVE  AccountsInv' /\ NoFillIsLost
<1> DEFINE w == work["advisor"]
           list == [i \in AccountIds |->
              IF i \in w.todo THEN [w.copy[i] EXCEPT !.state = "retiring"] ELSE w.copy[i]]
<1>1. "advisor" \in Threads /\ w.op = "retire" /\ Returns("advisor", list)
  BY DEF RetireEnds, Threads
<1>2. /\ w.copy \in [AccountIds -> AccountRows] /\ SeenBy(w.copy, bar)
      /\ IsFiniteSet(ActiveRows(w.copy)) /\ Cardinality(ActiveRows(w.copy)) <= Capacity
  BY <1>1, CopyMayReturn
<1>3. w.todo \subseteq ActiveRows(w.copy)
  BY <1>1, TakenIsArchived DEF CallFits
<1>4. ASSUME NEW i \in AccountIds
      PROVE  /\ list[i] \in AccountRows
             /\ list[i].fills = w.copy[i].fills /\ list[i].last = w.copy[i].last
             /\ list[i].state # "none" <=> w.copy[i].state # "none"
  <2>1. w.copy[i] \in AccountRows
    BY <1>2
  <2>2. CASE i \in w.todo
    <3>1. w.copy[i].state # "none"
      BY <2>2, <1>3 DEF ActiveRows
    <3>2. list[i] = [w.copy[i] EXCEPT !.state = "retiring"]
      BY <2>2
    <3> HIDE DEF list
    <3> QED BY <3>1, <3>2, <2>1 DEF AccountRows
  <2>3. CASE i \notin w.todo
    BY <2>1, <2>3
  <2> QED BY <2>2, <2>3
<1>5. list \in [AccountIds -> AccountRows]
  BY <1>4
<1> HIDE DEF list
<1>6. ActiveRows(list) = ActiveRows(w.copy)
  BY <1>4 DEF ActiveRows
<1>7. SeenBy(list, bar)
  BY <1>2, <1>4 DEF SeenBy
<1>8. \A i \in AccountIds : list[i].fills \in Nat
  BY <1>5 DEF AccountRows
<1>9. ASSUME NEW i \in ActiveRows(accounts)
      PROVE  IF i \in ActiveRows(w.copy)
             THEN i \in ActiveRows(list) /\ list[i].fills >= w.copy[i].fills
             ELSE i \notin ActiveRows(list)
  <2>1. i \in AccountIds
    BY DEF ActiveRows
  <2> QED BY <2>1, <1>4, <1>6, <1>8
<1>10. work["advisor"].op # "idle"
  BY <1>1
<1>11. AccountsInv'
  BY <1>1, <1>2, <1>5, <1>6, <1>7, <1>10, ReturnsKeeps
<1>12. NoFillIsLost
  BY <1>1, <1>8, <1>9, <1>10, ReturnsLosesNothing
<1> QED BY <1>11, <1>12

LEMMA ReviewEndsKeeps ==
    ASSUME AccountsInv, NEW evidence \in Bars, ReviewEnds(evidence)
    PROVE  AccountsInv' /\ NoFillIsLost
<1> DEFINE w == work["advisor"]
<1>1. "advisor" \in Threads /\ w.op = "review" /\ evidence \in Nat
  BY AccountsAssumption DEF ReviewEnds, Threads, Bars
<1>2. PICK i \in w.todo :
        Returns("advisor", IF w.copy[i].fills = evidence
                           THEN [w.copy EXCEPT ![i].reviewed = evidence] ELSE accounts)
  BY DEF ReviewEnds
<1>3. /\ w.copy \in [AccountIds -> AccountRows] /\ SeenBy(w.copy, bar)
      /\ IsFiniteSet(ActiveRows(w.copy)) /\ Cardinality(ActiveRows(w.copy)) <= Capacity
  BY <1>1, CopyMayReturn
<1>4. i \in ActiveRows(w.copy) /\ i \in AccountIds
  BY <1>1, TakenIsArchived DEF CallFits, ActiveRows
<1>5. work["advisor"].op # "idle"
  BY <1>1
<1>6. CASE w.copy[i].fills = evidence
  <2> DEFINE list == [w.copy EXCEPT ![i].reviewed = evidence]
  <2>1. Returns("advisor", list)
    BY <1>2, <1>6
  <2>2. list = [w.copy EXCEPT ![i] = [w.copy[i] EXCEPT !.reviewed = evidence]]
    BY <1>3
  <2>3. ASSUME NEW j \in AccountIds
        PROVE  /\ list[j] \in AccountRows
               /\ list[j].fills = w.copy[j].fills /\ list[j].last = w.copy[j].last
               /\ list[j].state = w.copy[j].state
    BY <1>1, <1>3, <1>4 DEF AccountRows
  <2>4. list \in [AccountIds -> AccountRows]
    BY <2>2, <2>3, <1>3
  <2> HIDE DEF list
  <2>5. ActiveRows(list) = ActiveRows(w.copy)
    BY <2>3 DEF ActiveRows
  <2>6. SeenBy(list, bar)
    BY <2>3, <1>3 DEF SeenBy
  <2>7. \A j \in AccountIds : list[j].fills \in Nat
    BY <2>4 DEF AccountRows
  <2>8. ASSUME NEW j \in ActiveRows(accounts)
        PROVE  IF j \in ActiveRows(w.copy)
               THEN j \in ActiveRows(list) /\ list[j].fills >= w.copy[j].fills
               ELSE j \notin ActiveRows(list)
    <3>1. j \in AccountIds
      BY DEF ActiveRows
    <3> QED BY <3>1, <2>3, <2>5, <2>7
  <2>9. AccountsInv'
    BY <1>1, <1>3, <1>5, <2>1, <2>4, <2>5, <2>6, ReturnsKeeps
  <2>10. NoFillIsLost
    BY <1>1, <1>5, <2>1, <2>7, <2>8, ReturnsLosesNothing
  <2> QED BY <2>9, <2>10
<1>7. CASE w.copy[i].fills # evidence
  <2>1. Returns("advisor", accounts)
    BY <1>2, <1>7
  <2> QED BY <1>1, <1>5, <2>1, RefusedKeeps
<1> QED BY <1>6, <1>7

LEMMA BarClosesKeeps ==
    ASSUME AccountsInv, BarCloses
    PROVE  AccountsInv' /\ NoFillIsLost
<1>1. /\ bar \in Nat /\ bar' = bar + 1 /\ bar' \in Bars
      /\ UNCHANGED <<accounts, archive, lock, work>>
  BY AccountsAssumption DEF BarCloses, AccountsInv, AccountTypes, Bars
<1>2. AccountTypes' /\ FewActive' /\ RetiredIsFlat' /\ HoldsLock'
  BY <1>1 DEF AccountsInv, AccountTypes, FewActive, RetiredIsFlat, HoldsLock
<1>3. SeenBy(accounts', bar')
  <2>1. \A i \in AccountIds : accounts[i].last \in Nat
    BY AccountsAssumption DEF AccountsInv, AccountTypes, AccountRows, Bars
  <2> QED BY <1>1, <2>1 DEF AccountsInv, SeenBy
<1>4. CallsFit'
  <2>1. ASSUME NEW t \in Threads, work[t].op # "idle"
        PROVE  CallFits(work[t])'
    <3>1. CallFits(work[t]) /\ work[t].bar \in Nat
      BY <2>1, TakenIsArchived, AccountsAssumption DEF ThreadStates, Bars
    <3>2. work[t].bar <= bar'
      BY <1>1, <3>1 DEF CallFits
    <3> QED BY <1>1, <3>1, <3>2 DEF CallFits, Taken, LastArchived
  <2> QED BY <1>1, <2>1 DEF CallsFit
<1>5. NoFillIsLost
  BY <1>1, SameListLosesNothing
<1> QED BY <1>2, <1>3, <1>4, <1>5 DEF AccountsInv

LEMMA BeginsKeeps ==
    ASSUME AccountsInv,
           \/ EvaluationBegins
           \/ \E i \in AccountIds : StartBegins(i) \/ RetireBegins(i) \/ ReviewBegins(i)
    PROVE  AccountsInv' /\ NoFillIsLost
<1>1. /\ "loop" \in Threads /\ "advisor" \in Threads
      /\ {"tick", "start", "retire", "review"} \subseteq ThreadOps \ {"idle"}
  BY DEF Threads, ThreadOps
<1>2. CASE EvaluationBegins
  <2>1. /\ Enters("loop", "tick", ActiveRows(accounts))
        /\ ActiveRows(accounts) \in SUBSET AccountIds
    BY <1>2 DEF EvaluationBegins, ActiveRows
  <2> QED BY <1>1, <2>1, EntersKeeps
<1>3. ASSUME NEW i \in AccountIds, StartBegins(i) \/ RetireBegins(i) \/ ReviewBegins(i)
      PROVE  AccountsInv' /\ NoFillIsLost
  <2>1. {i} \in SUBSET AccountIds
    OBVIOUS
  <2>2. CASE StartBegins(i)
    <3>1. Enters("advisor", "start", {i}) /\ {i} \cap ActiveRows(accounts) = {}
      BY <2>2 DEF StartBegins
    <3> QED BY <1>1, <2>1, <3>1, EntersKeeps
  <2>3. CASE RetireBegins(i)
    <3>1. Enters("advisor", "retire", {i}) /\ {i} \subseteq ActiveRows(accounts)
      BY <2>3 DEF RetireBegins
    <3> QED BY <1>1, <2>1, <3>1, EntersKeeps
  <2>4. CASE ReviewBegins(i)
    <3>1. Enters("advisor", "review", {i}) /\ {i} \subseteq ActiveRows(accounts)
      BY <2>4 DEF ReviewBegins
    <3> QED BY <1>1, <2>1, <3>1, EntersKeeps
  <2> QED BY <1>3, <2>2, <2>3, <2>4
<1> QED BY <1>2, <1>3

LEMMA StepsKeepBooks ==
    ASSUME AccountsInv, [AccountsNext]_accountsVars
    PROVE  AccountsInv' /\ NoFillIsLost
<1>1. CASE BarCloses
  BY <1>1, BarClosesKeeps
<1>2. CASE \/ EvaluationBegins
           \/ \E i \in AccountIds : StartBegins(i) \/ RetireBegins(i) \/ ReviewBegins(i)
  BY <1>2, BeginsKeeps
<1>3. CASE RowEvaluates
  BY <1>3, RowEvaluatesKeeps
<1>4. CASE EvaluationEnds
  BY <1>4, EvaluationEndsKeeps
<1>5. CASE StartEnds
  BY <1>5, StartEndsKeeps
<1>6. CASE RetireArchives
  BY <1>6, RetireArchivesKeeps
<1>7. CASE RetireEnds
  BY <1>7, RetireEndsKeeps
<1>8. CASE \E evidence \in Bars : ReviewEnds(evidence)
  BY <1>8, ReviewEndsKeeps
<1>9. CASE \E t \in Threads : Fails(t)
  BY <1>9, FailsKeeps
<1>10. CASE ThreadsCrash
  BY <1>10, LetsGoKeeps DEF ThreadsCrash
<1>11. CASE UNCHANGED accountsVars
  <2>1. UNCHANGED <<bar, accounts, archive, lock, work>>
    BY <1>11 DEF accountsVars
  <2>2. AccountsInv'
    BY <2>1 DEF AccountsInv, AccountTypes, SeenBy, FewActive, RetiredIsFlat, HoldsLock,
               CallsFit, CallFits, Taken, LastArchived
  <2> QED BY <2>1, <2>2, SameListLosesNothing
<1> QED BY <1>1, <1>2, <1>3, <1>4, <1>5, <1>6, <1>7, <1>8, <1>9, <1>10, <1>11
        DEF AccountsNext

LEMMA BooksOpen == AccountsInit => AccountsInv
<1> SUFFICES ASSUME AccountsInit
             PROVE  AccountsInv
  OBVIOUS
<1>1. 0 \in Bars
  BY AccountsAssumption DEF Bars
<1>2. AccountTypes
  BY <1>1, RowsAreRows DEF AccountsInit, AccountTypes
<1>3. SeenBy(accounts, bar)
  BY RowsAreRows DEF AccountsInit, SeenBy
<1>4. FewActive
  <2>1. ActiveRows(accounts) = {}
    BY RowsAreRows DEF AccountsInit, ActiveRows
  <2> QED BY <2>1, FS_EmptySet, AccountsAssumption DEF FewActive
<1>5. RetiredIsFlat
  BY DEF AccountsInit, RetiredIsFlat
<1>6. HoldsLock /\ CallsFit
  <2>1. "free" \notin Threads
    BY DEF Threads
  <2> QED BY <2>1, RowsAreRows DEF AccountsInit, HoldsLock, CallsFit
<1> QED BY <1>2, <1>3, <1>4, <1>5, <1>6 DEF AccountsInv

\* What the invariant says of the books.
LEMMA BooksAreTrue == AccountsInv => AccountsTypeOK /\ OneFillPerBar /\ RetiredIsFlat
<1> SUFFICES ASSUME AccountsInv
             PROVE  AccountsTypeOK /\ OneFillPerBar /\ RetiredIsFlat
  OBVIOUS
<1>1. AccountsTypeOK
  BY DEF AccountsInv, AccountTypes, AccountRows, AccountsTypeOK
<1>2. OneFillPerBar
  BY DEF AccountsInv, SeenBy, OneFillPerBar, ActiveRows
<1> QED BY <1>1, <1>2 DEF AccountsInv

\* The books of the lab's accounts keep every fill, make none twice and are closed
\* only when flat, for any accounts, capacity and bars, whichever thread fails or
\* is cut off (agent_experiments.py, under the execution lock).
THEOREM BooksStayTrue == AccountsSpec => BooksHold
<1>1. AccountsInv /\ [AccountsNext]_accountsVars => AccountsInv' /\ NoFillIsLost
  BY StepsKeepBooks
<1>2. AccountsInv /\ AccountsInv' /\ NoFillIsLost => BooksStep
  <2>1. AccountsInv' => (AccountsTypeOK /\ OneFillPerBar /\ RetiredIsFlat)'
    BY BooksAreTrue, PTL
  <2> QED BY <2>1 DEF BooksStep
<1>3. AccountsInv /\ [AccountsNext]_accountsVars => AccountsInv' /\ [BooksStep]_accountsVars
  BY <1>1, <1>2
<1> QED BY <1>3, BooksOpen, PTL DEF AccountsSpec, BooksHold

-----------------------------------------------------------------------------
(* AdvisorCalls: a command is on record before it acts, and while its outcome  *)
(* is open no other call takes it.                                             *)

\* A call whose command may have run.
MayHaveRun == OpenStates \cup {"completed"}

VariantRecord ==
    [call : ServerCalls \cup {"none"}, state : MayHaveRun \cup {"none", "reserved"},
     ok : BOOLEAN]
PlanRecord ==
    [state : Terminal \cup {"none", "planned", "running"}, bound : BOOLEAN,
     variants : [Variants -> VariantRecord]]
RowRecord ==
    [state : MayHaveRun \cup {"none", "refused"},
     tool : {"none", "analysis", "tc02_run"}, command : Commands \cup {"none"},
     plan : Plans \cup {"none"}, variant : Variants \cup {"none"},
     ok : BOOLEAN, missing : 0 .. MAX_MISSING_CHECKS]

\* Where the advisor has no call in hand.
QuietPlaces == {"off", "adopted", "begin", "idle", "checked", "learn"}
AdvisorRecord ==
    [at : QuietPlaces \cup {"reserved", "recorded", "acting", "finish", "reconciled"},
     call : ServerCalls \cup {"none"}, row : RowRecord]

AdvisorTypes ==
    /\ plans \in [Plans -> PlanRecord]
    /\ callRows \in [ServerCalls -> RowRecord]
    /\ findings \subseteq ServerCalls
    /\ remote \in [ServerCalls -> {"none", "running", "done"}]
    /\ advisor \in AdvisorRecord
    /\ runs \in [Commands -> Nat]

\* What a variant r says, when the rows of the calls are cs.
VariantIsTrue(r, cs) ==
    /\ r.state = "none" => r = NoVariant
    /\ r.state = "completed" => r.call \in ServerCalls /\ cs[r.call].state = "completed"

VariantsAreTrue ==
    \A p \in Plans, v \in Variants : VariantIsTrue(plans[p].variants[v], callRows)

\* What the row r of call c says, when the plans are ps, the remote worker has
\* d of the call and the commands acted ns times.
RowIsTrue(c, r, ps, d, ns) ==
    /\ r.state = "none" => r.command = "none"
    /\ r.state \in MayHaveRun => r.command \in Commands
    /\ r.plan \in Plans => /\ r.state \in MayHaveRun
                           /\ r.variant \in Variants
                           /\ ps[r.plan].variants[r.variant].call = c
    /\ r.state = "completed" /\ r.ok => ns[r.command] > 0
    /\ d # "none" => r.state \in MayHaveRun /\ ns[r.command] > 0

RowsAreTrue ==
    \A c \in ServerCalls : RowIsTrue(c, callRows[c], plans, remote[c], runs)

\* The calls of a command that may have run, the one at hand only once it acts.
RunsOf(f) == {c \in ServerCalls : callRows[c].command = f /\ callRows[c].state \in MayHaveRun}
NotYetRun == IF advisor.at = "recorded" THEN {advisor.call} ELSE {}
CallsMade == {c \in ServerCalls : callRows[c].state # "none"}

RunsAreCounted ==
    /\ IsFiniteSet(CallsMade)
    /\ \A f \in Commands : runs[f] <= Cardinality(RunsOf(f) \ NotYetRun)

\* No other call of the command f is open.
OnlyCall(c, f) ==
    \A d \in ServerCalls \ {c} : callRows[d].command = f => callRows[d].state \notin OpenStates

\* The call that the advisor is at.
CallInHand ==
    LET c == advisor.call
        r == advisor.row
    IN  /\ advisor.at \in {"reserved", "recorded", "acting", "finish", "reconciled"}
              => c \in ServerCalls
        /\ advisor.at \in {"reserved", "recorded", "acting"} =>
              /\ r.state = "running" /\ ~r.ok
              /\ r.command \in Commands /\ r.plan \in Plans /\ r.variant \in Variants
              /\ plans[r.plan].variants[r.variant].call = c
              /\ OnlyCall(c, r.command)
        /\ advisor.at = "reserved" => callRows[c].state = "none"
        /\ advisor.at \in {"recorded", "acting"} => callRows[c] = r
        /\ advisor.at = "acting" => runs[r.command] > 0
        /\ advisor.at \in {"finish", "reconciled"} =>
              callRows[c].state \in {"unknown", "completed"}

AdvisorInv ==
    /\ AdvisorTypes
    /\ VariantsAreTrue
    /\ RowsAreTrue
    /\ RunsAreCounted
    /\ CallInHand
    /\ ClosedPlansAreCertain

\* The records that the steps write.
LEMMA AdvisorRecords ==
    /\ NoCallRow \in RowRecord /\ NoVariant \in VariantRecord /\ NoPlan \in PlanRecord
    /\ AdvisorOff \in AdvisorRecord /\ AdvisorOff.at = "off"
    /\ AdvisorIdle \in AdvisorRecord /\ AdvisorIdle.at = "idle"
    /\ [AdvisorOff EXCEPT !.at = "adopted"] \in AdvisorRecord
    /\ [AdvisorOff EXCEPT !.at = "begin"] \in AdvisorRecord
    /\ [AdvisorIdle EXCEPT !.at = "checked"] \in AdvisorRecord
<1>1. NoCallRow \in RowRecord
  BY AdvisorAssumption DEF AdvisorAssumption, NoCallRow, RowRecord
<1>2. NoVariant \in VariantRecord
  BY DEF NoVariant, VariantRecord
<1>3. NoPlan \in PlanRecord
  BY <1>2 DEF NoPlan, PlanRecord
<1>4. AdvisorOff \in AdvisorRecord /\ AdvisorOff.at = "off"
  BY <1>1 DEF AdvisorOff, AdvisorRecord, QuietPlaces
<1>5. AdvisorIdle \in AdvisorRecord /\ AdvisorIdle.at = "idle"
  BY <1>4 DEF AdvisorIdle, AdvisorRecord, QuietPlaces
<1>6. /\ [AdvisorOff EXCEPT !.at = "adopted"] \in AdvisorRecord
      /\ [AdvisorOff EXCEPT !.at = "begin"] \in AdvisorRecord
      /\ [AdvisorIdle EXCEPT !.at = "checked"] \in AdvisorRecord
  BY <1>4, <1>5 DEF AdvisorRecord, QuietPlaces
<1> QED BY <1>1, <1>2, <1>3, <1>4, <1>5, <1>6

\* A command acted at most once for each of its calls that may have run.
LEMMA RunsAreAtMost ==
    ASSUME AdvisorInv, NEW f \in Commands
    PROVE  /\ IsFiniteSet(RunsOf(f)) /\ Cardinality(RunsOf(f)) \in Nat
           /\ runs[f] \in Nat /\ runs[f] <= Cardinality(RunsOf(f))
<1>1. RunsOf(f) \subseteq CallsMade
  BY DEF RunsOf, CallsMade, MayHaveRun, OpenStates
<1>2. IsFiniteSet(RunsOf(f)) /\ Cardinality(RunsOf(f)) \in Nat
  BY <1>1, FS_Subset, FS_CardinalityType DEF AdvisorInv, RunsAreCounted
<1>3. /\ Cardinality(RunsOf(f) \ NotYetRun) <= Cardinality(RunsOf(f))
      /\ Cardinality(RunsOf(f) \ NotYetRun) \in Nat
  BY <1>2, FS_Subset, FS_CardinalityType
<1> QED BY <1>2, <1>3 DEF AdvisorInv, RunsAreCounted, AdvisorTypes

\* What a variant may become: itself, or what the row of its call says.
LearnsOutcome(r, n) ==
    \/ n = r
    \/ /\ r.call \in ServerCalls
       /\ callRows[r.call].state \in MayHaveRun
       /\ n = [r EXCEPT !.state = callRows[r.call].state, !.ok = callRows[r.call].ok]

\* Plans that learn what became of their calls stay true to them, and conclude
\* on what is certain.
LEMMA PlansLearn ==
    ASSUME AdvisorInv,
           plans' \in [Plans -> PlanRecord],
           \A p \in Plans, v \in Variants :
              LearnsOutcome(plans[p].variants[v], plans'[p].variants[v]),
           \A p \in Plans : plans'[p].state \in {"completed", "abandoned"} =>
              plans[p].state \in {"completed", "abandoned"} \/ Settled(p),
           findings' \subseteq ServerCalls,
           UNCHANGED <<callRows, remote, runs>>,
           advisor' \in AdvisorRecord, advisor'.at \in QuietPlaces
    PROVE  AdvisorInv'
<1>1. AdvisorTypes'
  BY DEF AdvisorInv, AdvisorTypes
<1>2. ASSUME NEW p \in Plans, NEW v \in Variants
      PROVE  LET r == plans[p].variants[v]
                 n == plans'[p].variants[v]
             IN  /\ r \in VariantRecord /\ n.call = r.call
                 /\ VariantIsTrue(r, callRows)
                 /\ VariantIsTrue(n, callRows)
                 /\ r.state = "completed" => n.state = "completed"
  <2> DEFINE r == plans[p].variants[v]
             n == plans'[p].variants[v]
  <2>1. r \in VariantRecord
    BY DEF AdvisorInv, AdvisorTypes, PlanRecord
  <2>2. VariantIsTrue(r, callRows)
    BY DEF AdvisorInv, VariantsAreTrue
  <2>3. LearnsOutcome(r, n)
    OBVIOUS
  <2>4. "none" \notin MayHaveRun
    BY DEF MayHaveRun, OpenStates
  <2> HIDE DEF r, n
  <2>5. n.call = r.call /\ VariantIsTrue(n, callRows)
        /\ (r.state = "completed" => n.state = "completed")
    BY <2>1, <2>2, <2>3, <2>4 DEF LearnsOutcome, VariantIsTrue, VariantRecord
  <2> QED BY <2>1, <2>2, <2>5 DEF r, n
<1>3. VariantsAreTrue'
  BY <1>2 DEF VariantsAreTrue
<1>4. RowsAreTrue'
  BY <1>2 DEF AdvisorInv, RowsAreTrue, RowIsTrue
<1>5. RunsAreCounted'
  <2>1. NotYetRun' = {}
    BY DEF NotYetRun, QuietPlaces
  <2>2. CallsMade' = CallsMade /\ \A f \in Commands : RunsOf(f)' = RunsOf(f)
    BY DEF CallsMade, RunsOf
  <2>3. \A f \in Commands : runs[f] <= Cardinality(RunsOf(f))
    BY RunsAreAtMost
  <2>4. \A f \in Commands : RunsOf(f) \ {} = RunsOf(f)
    OBVIOUS
  <2> QED BY <2>1, <2>2, <2>3, <2>4 DEF AdvisorInv, RunsAreCounted
<1>6. CallInHand'
  BY DEF CallInHand, QuietPlaces
<1>7. ClosedPlansAreCertain'
  <2> SUFFICES ASSUME NEW p \in Plans, plans'[p].state \in {"completed", "abandoned"},
                      NEW v \in Variants, plans'[p].variants[v] # NoVariant
               PROVE  plans'[p].variants[v].state = "completed"
    BY DEF ClosedPlansAreCertain, Reserved
  <2> DEFINE r == plans[p].variants[v]
  <2>1. CASE r = NoVariant
    <3>1. r.call = "none"
      BY <2>1 DEF NoVariant
    <3>2. ~ (r.call \in ServerCalls)
      BY <3>1, AdvisorAssumption DEF AdvisorAssumption
    <3>3. LearnsOutcome(r, plans'[p].variants[v])
      OBVIOUS
    <3>4. plans'[p].variants[v] = r
      BY <3>2, <3>3 DEF LearnsOutcome
    <3> QED BY <3>4, <2>1
  <2>2. CASE r # NoVariant
    <3>1. v \in Reserved(p)
      BY <2>2 DEF Reserved
    <3>2. CASE plans[p].state \in {"completed", "abandoned"}
      BY <3>1, <3>2, <1>2 DEF AdvisorInv, ClosedPlansAreCertain
    <3>3. CASE Settled(p)
      <4>1. r.state \notin {"none", "reserved", "running", "unknown"}
        BY <3>1, <3>3, <2>2, <1>2 DEF Settled, VariantIsTrue
      <4>2. r.state = "completed"
        BY <4>1, <1>2 DEF VariantRecord, MayHaveRun, OpenStates
      <4> QED BY <4>2, <1>2
    <3> QED BY <3>2, <3>3
  <2> QED BY <2>1, <2>2
<1> QED BY <1>1, <1>3, <1>4, <1>5, <1>6, <1>7 DEF AdvisorInv

\* What the row r of a call may become, when the commands acted ns times: the
\* same call, whose outcome is no less certain.
Moves(r, n, ns) ==
    \/ n = r
    \/ /\ r.state \in OpenStates /\ n.state \in MayHaveRun
       /\ n.tool = r.tool /\ n.command = r.command
       /\ n.plan = r.plan /\ n.variant = r.variant
       /\ n.state = "completed" /\ n.ok => ns[n.command] > 0

\* Rows whose calls come to an end, or are taken over, stay true.
LEMMA RowsMove ==
    ASSUME AdvisorInv,
           callRows' \in [ServerCalls -> RowRecord],
           \A c \in ServerCalls : Moves(callRows[c], callRows'[c], runs),
           UNCHANGED <<plans, findings, remote, runs>>,
           advisor' \in AdvisorRecord,
           \/ advisor'.at \in QuietPlaces
           \/ /\ advisor'.at \in {"finish", "reconciled"}
              /\ advisor'.call \in ServerCalls
              /\ callRows'[advisor'.call].state \in {"unknown", "completed"}
    PROVE  AdvisorInv'
<1>1. AdvisorTypes'
  BY DEF AdvisorInv, AdvisorTypes
<1>2. ASSUME NEW c \in ServerCalls
      PROVE  /\ callRows[c] \in RowRecord
             /\ callRows'[c].command = callRows[c].command
             /\ callRows[c].state = "completed" => callRows'[c] = callRows[c]
             /\ callRows'[c].state \in MayHaveRun <=> callRows[c].state \in MayHaveRun
             /\ callRows'[c].state = "none" <=> callRows[c].state = "none"
             /\ RowIsTrue(c, callRows'[c], plans, remote[c], runs)
  <2> DEFINE r == callRows[c]
             n == callRows'[c]
  <2>1. r \in RowRecord
    BY DEF AdvisorInv, AdvisorTypes
  <2>2. RowIsTrue(c, r, plans, remote[c], runs)
    BY DEF AdvisorInv, RowsAreTrue
  <2>3. Moves(r, n, runs)
    OBVIOUS
  <2> HIDE DEF r, n
  <2>4. /\ n.command = r.command
        /\ r.state = "completed" => n = r
        /\ n.state \in MayHaveRun <=> r.state \in MayHaveRun
        /\ n.state = "none" <=> r.state = "none"
    BY <2>3 DEF Moves, MayHaveRun, OpenStates
  <2>5. RowIsTrue(c, n, plans, remote[c], runs)
    BY <2>2, <2>3, <2>4 DEF Moves, RowIsTrue
  <2> QED BY <2>1, <2>4, <2>5 DEF r, n
<1>3. VariantsAreTrue'
  <2> SUFFICES ASSUME NEW p \in Plans, NEW v \in Variants
               PROVE  VariantIsTrue(plans[p].variants[v], callRows')
    BY DEF VariantsAreTrue
  <2>1. VariantIsTrue(plans[p].variants[v], callRows)
    BY DEF AdvisorInv, VariantsAreTrue
  <2> QED BY <2>1, <1>2 DEF VariantIsTrue
<1>4. RowsAreTrue'
  BY <1>2 DEF RowsAreTrue
<1>5. RunsAreCounted'
  <2>1. NotYetRun' = {}
    BY DEF NotYetRun, QuietPlaces
  <2>2. CallsMade' = CallsMade
    BY <1>2 DEF CallsMade
  <2>3. ASSUME NEW f \in Commands
        PROVE  RunsOf(f)' = RunsOf(f) /\ RunsOf(f) \ {} = RunsOf(f)
    BY <1>2 DEF RunsOf
  <2>4. \A f \in Commands : runs[f] <= Cardinality(RunsOf(f))
    BY RunsAreAtMost
  <2> QED BY <2>1, <2>2, <2>3, <2>4 DEF AdvisorInv, RunsAreCounted
<1>6. CallInHand'
  BY DEF CallInHand, QuietPlaces
<1>7. ClosedPlansAreCertain'
  BY DEF AdvisorInv, ClosedPlansAreCertain, Reserved
<1> QED BY <1>1, <1>3, <1>4, <1>5, <1>6, <1>7 DEF AdvisorInv

\* A refused call is on record, and takes no command.
LEMMA RefusalsKeep ==
    ASSUME AdvisorInv, NEW c \in ServerCalls, NEW f \in Commands,
           NEW p \in Plans, NEW v \in Variants, CallRefused(c, f, p, v)
    PROVE  AdvisorInv'
<1> DEFINE made == [NoCallRow EXCEPT !.state = "refused", !.command = f]
<1>1. /\ made \in RowRecord /\ made.state = "refused" /\ made.command = f
      /\ made.plan = "none"
  BY AdvisorRecords DEF NoCallRow, RowRecord
<1>2. /\ advisor.at = "idle" /\ callRows[c].state = "none"
      /\ callRows' = [callRows EXCEPT ![c] = made]
      /\ UNCHANGED <<plans, findings, remote, advisor, runs>>
  BY DEF CallRefused, CallAccepted
<1> HIDE DEF made
<1>3. /\ callRows' \in [ServerCalls -> RowRecord] /\ callRows'[c] = made
      /\ \A d \in ServerCalls \ {c} : callRows'[d] = callRows[d]
  BY <1>1, <1>2 DEF AdvisorInv, AdvisorTypes
<1>4. AdvisorTypes'
  BY <1>2, <1>3 DEF AdvisorInv, AdvisorTypes
<1>5. VariantsAreTrue'
  <2> SUFFICES ASSUME NEW q \in Plans, NEW w \in Variants
               PROVE  VariantIsTrue(plans[q].variants[w], callRows')
    BY <1>2 DEF VariantsAreTrue
  <2>1. VariantIsTrue(plans[q].variants[w], callRows)
    BY DEF AdvisorInv, VariantsAreTrue
  <2> QED BY <2>1, <1>2, <1>3 DEF VariantIsTrue
<1>6. RowsAreTrue'
  <2> SUFFICES ASSUME NEW d \in ServerCalls
               PROVE  RowIsTrue(d, callRows'[d], plans, remote[d], runs)
    BY <1>2 DEF RowsAreTrue
  <2>1. RowIsTrue(d, callRows[d], plans, remote[d], runs)
    BY DEF AdvisorInv, RowsAreTrue
  <2>2. CASE d # c
    BY <2>1, <2>2, <1>3
  <2>3. CASE d = c
    <3>1. remote[c] = "none"
      BY <2>1, <2>3, <1>2 DEF RowIsTrue, MayHaveRun, OpenStates
    <3>2. made.plan \notin Plans /\ made.state \notin MayHaveRun
      BY <1>1, AdvisorAssumption DEF AdvisorAssumption, MayHaveRun, OpenStates
    <3> QED BY <3>1, <3>2, <2>3, <1>1, <1>3 DEF RowIsTrue
  <2> QED BY <2>2, <2>3
<1>7. RunsAreCounted'
  <2>1. NotYetRun' = {} /\ NotYetRun = {}
    BY <1>2 DEF NotYetRun
  <2>2. CallsMade' = CallsMade \cup {c}
    BY <1>1, <1>2, <1>3 DEF CallsMade
  <2>3. ASSUME NEW g \in Commands
        PROVE  RunsOf(g)' = RunsOf(g)
    BY <1>1, <1>2, <1>3 DEF RunsOf, MayHaveRun, OpenStates
  <2>4. IsFiniteSet(CallsMade')
    BY <2>2, FS_AddElement DEF AdvisorInv, RunsAreCounted
  <2> QED BY <2>1, <2>3, <2>4, <1>2 DEF AdvisorInv, RunsAreCounted
<1>8. CallInHand'
  BY <1>2 DEF CallInHand
<1>9. ClosedPlansAreCertain'
  BY <1>2 DEF AdvisorInv, ClosedPlansAreCertain, Reserved
<1> QED BY <1>4, <1>5, <1>6, <1>7, <1>8, <1>9 DEF AdvisorInv

\* A reservation takes a variant that no call has, for a command whose former
\* calls all have an outcome.
LEMMA ReservationsKeep ==
    ASSUME AdvisorInv, NEW c \in ServerCalls, NEW f \in Commands,
           NEW tool \in {"analysis", "tc02_run"}, NEW p \in Plans, NEW v \in Variants,
           CallReserves(c, f, tool, p, v)
    PROVE  AdvisorInv'
<1> DEFINE taken == [call |-> c, state |-> "reserved", ok |-> FALSE]
           made == [state |-> "running", tool |-> tool, command |-> f,
                   plan |-> p, variant |-> v, ok |-> FALSE, missing |-> 0]
<1>1. taken \in VariantRecord
  BY DEF VariantRecord
<1>2. /\ made \in RowRecord /\ made.state = "running" /\ ~made.ok
      /\ made.command = f /\ made.plan = p /\ made.variant = v
  BY AdvisorAssumption DEF AdvisorAssumption, RowRecord, MayHaveRun, OpenStates
<1>3. /\ advisor.at = "idle" /\ callRows[c].state = "none" /\ ~Uncertain(f)
      /\ plans[p].variants[v] = NoVariant
      /\ plans' = [plans EXCEPT ![p].state = "running", ![p].variants[v] = taken]
      /\ advisor' = [at |-> "reserved", call |-> c, row |-> made]
      /\ UNCHANGED <<callRows, findings, remote, runs>>
  BY DEF CallReserves, CallAccepted, MayReserve, Reserved
<1> HIDE DEF taken, made
<1>4. /\ plans' \in [Plans -> PlanRecord]
      /\ plans'[p].state = "running" /\ plans'[p].variants[v] = taken
      /\ \A q \in Plans, w \in Variants : q # p \/ w # v =>
            plans'[q].variants[w] = plans[q].variants[w]
      /\ \A q \in Plans : q # p => plans'[q] = plans[q]
  <2> DEFINE new == [plans[p] EXCEPT !.state = "running",
                        !.variants = [plans[p].variants EXCEPT ![v] = taken]]
  <2>1. plans[p] \in PlanRecord /\ plans \in [Plans -> PlanRecord]
    BY DEF AdvisorInv, AdvisorTypes
  <2>2. /\ [plans[p].variants EXCEPT ![v] = taken] \in [Variants -> VariantRecord]
        /\ [plans[p].variants EXCEPT ![v] = taken][v] = taken
        /\ \A w \in Variants : w # v =>
              [plans[p].variants EXCEPT ![v] = taken][w] = plans[p].variants[w]
    BY <2>1, <1>1 DEF PlanRecord
  <2>3. /\ new \in PlanRecord /\ new.state = "running"
        /\ new.variants = [plans[p].variants EXCEPT ![v] = taken]
    BY <2>1, <2>2 DEF PlanRecord
  <2>4. plans' = [plans EXCEPT ![p] = new]
    BY <2>1, <1>3 DEF PlanRecord
  <2> HIDE DEF new
  <2>5. plans' \in [Plans -> PlanRecord] /\ plans'[p] = new
        /\ \A q \in Plans : q # p => plans'[q] = plans[q]
    BY <2>1, <2>3, <2>4
  <2> QED BY <2>2, <2>3, <2>5
<1>5. AdvisorTypes'
  BY <1>2, <1>3, <1>4 DEF AdvisorInv, AdvisorTypes, AdvisorRecord
<1>6. VariantsAreTrue'
  <2> SUFFICES ASSUME NEW q \in Plans, NEW w \in Variants
               PROVE  VariantIsTrue(plans'[q].variants[w], callRows)
    BY <1>3 DEF VariantsAreTrue
  <2>1. VariantIsTrue(plans[q].variants[w], callRows)
    BY DEF AdvisorInv, VariantsAreTrue
  <2>2. VariantIsTrue(taken, callRows)
    BY DEF VariantIsTrue, taken
  <2> QED BY <2>1, <2>2, <1>4
<1>7. RowsAreTrue'
  <2> SUFFICES ASSUME NEW d \in ServerCalls
               PROVE  RowIsTrue(d, callRows[d], plans', remote[d], runs)
    BY <1>3 DEF RowsAreTrue
  <2>1. RowIsTrue(d, callRows[d], plans, remote[d], runs)
    BY DEF AdvisorInv, RowsAreTrue
  <2>2. ~ (callRows[d].plan = p /\ callRows[d].variant = v)
    <3>1. NoVariant.call # d
      BY AdvisorAssumption DEF AdvisorAssumption, NoVariant
    <3> QED BY <3>1, <2>1, <1>3 DEF RowIsTrue
  <2> QED BY <2>1, <2>2, <1>4 DEF RowIsTrue
<1>8. RunsAreCounted'
  <2>1. NotYetRun' = {} /\ NotYetRun = {}
    BY <1>3 DEF NotYetRun
  <2>2. CallsMade' = CallsMade /\ \A g \in Commands : RunsOf(g)' = RunsOf(g)
    BY <1>3 DEF CallsMade, RunsOf
  <2> QED BY <2>1, <2>2, <1>3 DEF AdvisorInv, RunsAreCounted
<1>9. CallInHand'
  <2>1. OnlyCall(c, f)'
    BY <1>3 DEF OnlyCall, Uncertain
  <2>2. plans'[p].variants[v].call = c
    BY <1>4 DEF taken
  <2>3. advisor'.at = "reserved" /\ advisor'.call = c /\ advisor'.row = made
    BY <1>3
  <2> QED BY <2>1, <2>2, <2>3, <1>2, <1>3 DEF CallInHand
<1>10. ClosedPlansAreCertain'
  <2> SUFFICES ASSUME NEW q \in Plans, plans'[q].state \in {"completed", "abandoned"},
                      NEW w \in Variants, plans'[q].variants[w] # NoVariant
               PROVE  plans'[q].variants[w].state = "completed"
    BY DEF ClosedPlansAreCertain, Reserved
  <2>1. q # p
    BY <1>4
  <2> QED BY <2>1, <1>4 DEF AdvisorInv, ClosedPlansAreCertain, Reserved
<1> QED BY <1>5, <1>6, <1>7, <1>8, <1>9, <1>10 DEF AdvisorInv

\* The call goes on record before it acts.
LEMMA RecordsKeep ==
    ASSUME AdvisorInv, CallRecords
    PROVE  AdvisorInv'
<1>0. PICK c, made : c = advisor.call /\ made = advisor.row
  OBVIOUS
<1>1. /\ advisor.at = "reserved" /\ c \in ServerCalls
      /\ made \in RowRecord /\ made.state = "running" /\ ~made.ok
      /\ made.command \in Commands /\ made.plan \in Plans /\ made.variant \in Variants
      /\ plans[made.plan].variants[made.variant].call = c
      /\ OnlyCall(c, made.command) /\ callRows[c].state = "none"
  BY <1>0 DEF AdvisorInv, AdvisorTypes, AdvisorRecord, CallInHand, CallRecords
<1>2. /\ callRows' = [callRows EXCEPT ![c] = made]
      /\ advisor' \in AdvisorRecord /\ advisor'.at = "recorded"
      /\ advisor'.call = c /\ advisor'.row = made
      /\ UNCHANGED <<plans, findings, remote, runs>>
  BY <1>0 DEF CallRecords, AdvisorInv, AdvisorTypes, AdvisorRecord
<1>3. /\ callRows' \in [ServerCalls -> RowRecord] /\ callRows'[c] = made
      /\ \A d \in ServerCalls \ {c} : callRows'[d] = callRows[d]
  BY <1>1, <1>2 DEF AdvisorInv, AdvisorTypes
<1>4. AdvisorTypes'
  BY <1>2, <1>3 DEF AdvisorInv, AdvisorTypes
<1>5. VariantsAreTrue'
  <2> SUFFICES ASSUME NEW q \in Plans, NEW w \in Variants
               PROVE  VariantIsTrue(plans[q].variants[w], callRows')
    BY <1>2 DEF VariantsAreTrue
  <2>1. VariantIsTrue(plans[q].variants[w], callRows)
    BY DEF AdvisorInv, VariantsAreTrue
  <2> QED BY <2>1, <1>1, <1>3 DEF VariantIsTrue
<1>6. RowsAreTrue'
  <2> SUFFICES ASSUME NEW d \in ServerCalls
               PROVE  RowIsTrue(d, callRows'[d], plans, remote[d], runs)
    BY <1>2 DEF RowsAreTrue
  <2>1. RowIsTrue(d, callRows[d], plans, remote[d], runs)
    BY DEF AdvisorInv, RowsAreTrue
  <2>2. CASE d # c
    BY <2>1, <2>2, <1>3
  <2>3. CASE d = c
    <3>1. remote[c] = "none"
      BY <2>1, <2>3, <1>1 DEF RowIsTrue, MayHaveRun, OpenStates
    <3>2. RowIsTrue(c, made, plans, "none", runs)
      BY <1>1 DEF RowIsTrue, MayHaveRun, OpenStates
    <3> QED BY <3>1, <3>2, <2>3, <1>3
  <2> QED BY <2>2, <2>3
<1>7. RunsAreCounted'
  <2>1. NotYetRun' = {c}
    BY <1>2 DEF NotYetRun
  <2>2. CallsMade' = CallsMade \cup {c}
    BY <1>1, <1>3 DEF CallsMade
  <2>3. ASSUME NEW f \in Commands
        PROVE  (RunsOf(f) \ NotYetRun)' = RunsOf(f)
    BY <2>1, <1>1, <1>3 DEF RunsOf, MayHaveRun, OpenStates
  <2>4. IsFiniteSet(CallsMade')
    BY <2>2, FS_AddElement DEF AdvisorInv, RunsAreCounted
  <2>5. \A f \in Commands : runs[f] <= Cardinality(RunsOf(f))
    BY RunsAreAtMost
  <2> QED BY <2>3, <2>4, <2>5, <1>2 DEF RunsAreCounted
<1>8. CallInHand'
  <2>1. OnlyCall(c, made.command)'
    BY <1>1, <1>2, <1>3 DEF OnlyCall
  <2> QED BY <2>1, <1>1, <1>2, <1>3 DEF CallInHand
<1>9. ClosedPlansAreCertain'
  BY <1>2 DEF AdvisorInv, ClosedPlansAreCertain, Reserved
<1> QED BY <1>4, <1>5, <1>6, <1>7, <1>8, <1>9 DEF AdvisorInv

\* The command of the call in hand acts, and is counted from now on.
LEMMA ActsKeep ==
    ASSUME AdvisorInv, CallActs
    PROVE  AdvisorInv'
<1>0. PICK c, made : c = advisor.call /\ made = advisor.row
  OBVIOUS
<1>1. /\ advisor.at = "recorded" /\ c \in ServerCalls
      /\ made \in RowRecord /\ made.state = "running"
      /\ made.command \in Commands /\ made.plan \in Plans /\ made.variant \in Variants
      /\ ~made.ok /\ plans[made.plan].variants[made.variant].call = c
      /\ OnlyCall(c, made.command) /\ callRows[c] = made
  BY <1>0 DEF AdvisorInv, AdvisorTypes, AdvisorRecord, CallInHand, CallActs
<1>2. /\ runs' = [runs EXCEPT ![made.command] = @ + 1]
      /\ remote' = [remote EXCEPT ![c] = "running"] \/ remote' = remote
      /\ advisor' \in AdvisorRecord /\ advisor'.at = "acting"
      /\ advisor'.call = c /\ advisor'.row = made
      /\ UNCHANGED <<plans, callRows, findings>>
  BY <1>0 DEF CallActs, AdvisorInv, AdvisorTypes, AdvisorRecord
<1>3. /\ runs \in [Commands -> Nat] /\ runs' \in [Commands -> Nat]
      /\ runs'[made.command] = runs[made.command] + 1
      /\ \A f \in Commands : f # made.command => runs'[f] = runs[f]
  BY <1>1, <1>2 DEF AdvisorInv, AdvisorTypes
<1>4. \A f \in Commands : runs[f] > 0 => runs'[f] > 0
  BY <1>1, <1>3
<1>5. /\ remote' \in [ServerCalls -> {"none", "running", "done"}]
      /\ \A d \in ServerCalls : d # c => remote'[d] = remote[d]
  BY <1>1, <1>2 DEF AdvisorInv, AdvisorTypes
<1>6. AdvisorTypes'
  BY <1>2, <1>3, <1>5 DEF AdvisorInv, AdvisorTypes
<1>7. VariantsAreTrue'
  BY <1>2 DEF AdvisorInv, VariantsAreTrue
<1>8. RowsAreTrue'
  <2> SUFFICES ASSUME NEW d \in ServerCalls
               PROVE  RowIsTrue(d, callRows[d], plans, remote'[d], runs')
    BY <1>2 DEF RowsAreTrue
  <2>1. RowIsTrue(d, callRows[d], plans, remote[d], runs)
    BY DEF AdvisorInv, RowsAreTrue
  <2>2. CASE d # c
    <3>1. "completed" \in MayHaveRun
      BY DEF MayHaveRun
    <3> QED BY <3>1, <2>1, <2>2, <1>4, <1>5 DEF RowIsTrue
  <2>3. CASE d = c
    <3>1. runs'[made.command] > 0 /\ made.state \in MayHaveRun
      BY <1>1, <1>3 DEF MayHaveRun, OpenStates
    <3> QED BY <3>1, <2>1, <2>3, <1>1 DEF RowIsTrue
  <2> QED BY <2>2, <2>3
<1>9. RunsAreCounted'
  <2>1. NotYetRun' = {} /\ NotYetRun = {c}
    BY <1>0, <1>1, <1>2 DEF NotYetRun
  <2>2. CallsMade' = CallsMade
    BY <1>2 DEF CallsMade
  <2>3. ASSUME NEW f \in Commands
        PROVE  runs'[f] <= Cardinality((RunsOf(f) \ NotYetRun)')
    <3>1. (RunsOf(f) \ NotYetRun)' = RunsOf(f)
      BY <2>1, <1>2 DEF RunsOf
    <3>2. CASE f # made.command
      BY <3>1, <3>2, <1>3, RunsAreAtMost
    <3>3. CASE f = made.command
      <4>1. c \in RunsOf(f)
        BY <3>3, <1>1 DEF RunsOf, MayHaveRun, OpenStates
      <4>2. Cardinality(RunsOf(f) \ {c}) = Cardinality(RunsOf(f)) - 1
        BY <4>1, FS_RemoveElement, RunsAreAtMost
      <4>3. runs[f] <= Cardinality(RunsOf(f) \ {c})
        BY <2>1 DEF AdvisorInv, RunsAreCounted
      <4>4. runs[f] \in Nat /\ Cardinality(RunsOf(f)) \in Nat
        BY RunsAreAtMost
      <4> QED BY <4>2, <4>3, <4>4, <3>1, <3>3, <1>3
    <3> QED BY <3>2, <3>3
  <2> QED BY <2>2, <2>3 DEF AdvisorInv, RunsAreCounted
<1>10. CallInHand'
  <2>1. OnlyCall(c, made.command)'
    BY <1>1, <1>2 DEF OnlyCall
  <2>2. runs'[made.command] > 0
    BY <1>1, <1>3
  <2> QED BY <2>1, <2>2, <1>1, <1>2 DEF CallInHand
<1>11. ClosedPlansAreCertain'
  BY <1>2 DEF AdvisorInv, ClosedPlansAreCertain, Reserved
<1> QED BY <1>6, <1>7, <1>8, <1>9, <1>10, <1>11 DEF AdvisorInv

\* The remote worker ends a job it had begun.
LEMMA RemoteKeeps ==
    ASSUME AdvisorInv, NEW c \in ServerCalls, RemoteFinishes(c)
    PROVE  AdvisorInv'
<1>1. /\ remote[c] = "running" /\ remote' = [remote EXCEPT ![c] = "done"]
      /\ UNCHANGED <<plans, callRows, findings, advisor, runs>>
  BY DEF RemoteFinishes
<1>2. /\ remote' \in [ServerCalls -> {"none", "running", "done"}]
      /\ \A d \in ServerCalls : remote'[d] # "none" => remote[d] # "none"
  BY <1>1 DEF AdvisorInv, AdvisorTypes
<1>3. AdvisorTypes'
  BY <1>1, <1>2 DEF AdvisorInv, AdvisorTypes
<1>4. RowsAreTrue'
  <2> SUFFICES ASSUME NEW d \in ServerCalls
               PROVE  RowIsTrue(d, callRows[d], plans, remote'[d], runs)
    BY <1>1 DEF RowsAreTrue
  <2>1. RowIsTrue(d, callRows[d], plans, remote[d], runs)
    BY DEF AdvisorInv, RowsAreTrue
  <2> QED BY <2>1, <1>2 DEF RowIsTrue
<1>5. VariantsAreTrue' /\ ClosedPlansAreCertain'
  BY <1>1 DEF AdvisorInv, VariantsAreTrue, ClosedPlansAreCertain, Reserved
<1>6. RunsAreCounted' /\ CallInHand'
  BY <1>1 DEF AdvisorInv, RunsAreCounted, CallsMade, RunsOf, NotYetRun,
              CallInHand, OnlyCall
<1> QED BY <1>3, <1>4, <1>5, <1>6 DEF AdvisorInv

\* finish_call teaches each variant what became of its call.
LEMMA FinishingTeaches ==
    ASSUME AdvisorInv, NEW c \in ServerCalls, callRows[c].state \in MayHaveRun,
           plans' = Finished(c)
    PROVE  /\ plans' \in [Plans -> PlanRecord]
           /\ \A p \in Plans : plans'[p].state = plans[p].state
           /\ \A p \in Plans, v \in Variants :
                 LearnsOutcome(plans[p].variants[v], plans'[p].variants[v])
<1> DEFINE learnt(r) == IF r.call = c
                        THEN [r EXCEPT !.state = callRows[c].state, !.ok = callRows[c].ok]
                        ELSE r
<1>1. plans \in [Plans -> PlanRecord] /\ callRows[c] \in RowRecord
  BY DEF AdvisorInv, AdvisorTypes
<1>2. ASSUME NEW r \in VariantRecord
      PROVE  learnt(r) \in VariantRecord /\ LearnsOutcome(r, learnt(r))
  <2>1. callRows[c].ok \in BOOLEAN
    BY <1>1 DEF RowRecord
  <2> QED BY <2>1, <1>2 DEF VariantRecord, LearnsOutcome
<1>3. plans' = [p \in Plans |-> [plans[p] EXCEPT !.variants =
                   [v \in Variants |-> learnt(plans[p].variants[v])]]]
  BY DEF Finished
<1> HIDE DEF learnt
<1>4. ASSUME NEW p \in Plans
      PROVE  /\ plans'[p] \in PlanRecord /\ plans'[p].state = plans[p].state
             /\ \A v \in Variants : plans'[p].variants[v] = learnt(plans[p].variants[v])
             /\ \A v \in Variants : plans[p].variants[v] \in VariantRecord
  <2> DEFINE news == [v \in Variants |-> learnt(plans[p].variants[v])]
  <2>1. plans[p] \in PlanRecord
    BY <1>1
  <2>2. \A v \in Variants : plans[p].variants[v] \in VariantRecord
    BY <2>1 DEF PlanRecord
  <2>3. /\ news \in [Variants -> VariantRecord]
        /\ \A v \in Variants : news[v] = learnt(plans[p].variants[v])
    BY <2>2, <1>2
  <2>4. plans'[p] = [plans[p] EXCEPT !.variants = news]
    BY <1>3
  <2> HIDE DEF news
  <2> QED BY <2>1, <2>2, <2>3, <2>4 DEF PlanRecord
<1>5. plans' \in [Plans -> PlanRecord]
  BY <1>3, <1>4
<1> QED BY <1>2, <1>4, <1>5

\* So does the begin of a cycle, for the calls of the plan itself.
LEMMA BeginningTeaches ==
    ASSUME AdvisorInv, BeginCycle
    PROVE  /\ plans' \in [Plans -> PlanRecord]
           /\ \A p \in Plans : plans'[p].state = plans[p].state
           /\ \A p \in Plans, v \in Variants :
                 LearnsOutcome(plans[p].variants[v], plans'[p].variants[v])
<1> DEFINE learnt(p, r) ==
             IF r.call \in ServerCalls /\ callRows[r.call].plan = p
             THEN [r EXCEPT !.state = callRows[r.call].state, !.ok = callRows[r.call].ok]
             ELSE r
<1>1. plans \in [Plans -> PlanRecord] /\ callRows \in [ServerCalls -> RowRecord]
  BY DEF AdvisorInv, AdvisorTypes
<1>2. ASSUME NEW p \in Plans, NEW r \in VariantRecord
      PROVE  learnt(p, r) \in VariantRecord /\ LearnsOutcome(r, learnt(p, r))
  <2>1. CASE r.call \in ServerCalls /\ callRows[r.call].plan = p
    <3>1. callRows[r.call] \in RowRecord /\ callRows[r.call].state \in MayHaveRun
      BY <2>1, <1>1 DEF AdvisorInv, RowsAreTrue, RowIsTrue
    <3>2. callRows[r.call].ok \in BOOLEAN
      BY <3>1 DEF RowRecord
    <3>3. learnt(p, r) = [r EXCEPT !.state = callRows[r.call].state,
                                   !.ok = callRows[r.call].ok]
      BY <2>1
    <3> HIDE DEF learnt
    <3> QED BY <3>1, <3>2, <3>3, <2>1 DEF VariantRecord, LearnsOutcome
  <2>2. CASE ~ (r.call \in ServerCalls /\ callRows[r.call].plan = p)
    <3>1. learnt(p, r) = r
      BY <2>2
    <3> QED BY <3>1 DEF LearnsOutcome
  <2> QED BY <2>1, <2>2
<1>3. plans' = [p \in Plans |-> [plans[p] EXCEPT !.variants =
                   [v \in Variants |-> learnt(p, plans[p].variants[v])]]]
  BY DEF BeginCycle
<1> HIDE DEF learnt
<1>4. ASSUME NEW p \in Plans
      PROVE  /\ plans'[p] \in PlanRecord /\ plans'[p].state = plans[p].state
             /\ \A v \in Variants : plans'[p].variants[v] = learnt(p, plans[p].variants[v])
             /\ \A v \in Variants : plans[p].variants[v] \in VariantRecord
  <2> DEFINE news == [v \in Variants |-> learnt(p, plans[p].variants[v])]
  <2>1. plans[p] \in PlanRecord
    BY <1>1
  <2>2. \A v \in Variants : plans[p].variants[v] \in VariantRecord
    BY <2>1 DEF PlanRecord
  <2>3. /\ news \in [Variants -> VariantRecord]
        /\ \A v \in Variants : news[v] = learnt(p, plans[p].variants[v])
    BY <2>2, <1>2
  <2>4. plans'[p] = [plans[p] EXCEPT !.variants = news]
    BY <1>3
  <2> HIDE DEF news
  <2> QED BY <2>1, <2>2, <2>3, <2>4 DEF PlanRecord
<1>5. plans' \in [Plans -> PlanRecord]
  BY <1>3, <1>4
<1> QED BY <1>2, <1>4, <1>5

\* A plan that is created, closed, blocked or bound keeps its variants.
LEMMA PlansKeepVariants ==
    ASSUME AdvisorInv,
           \/ plans' = Synchronized
           \/ Learn
           \/ \E p \in Plans : CreatePlan(p) \/ ClosePlan(p)
    PROVE  /\ plans' \in [Plans -> PlanRecord]
           /\ \A p \in Plans, v \in Variants :
                 LearnsOutcome(plans[p].variants[v], plans'[p].variants[v])
           /\ \A p \in Plans : plans'[p].state \in {"completed", "abandoned"} =>
                 plans[p].state \in {"completed", "abandoned"} \/ Settled(p)
<1>1. plans \in [Plans -> PlanRecord]
  BY DEF AdvisorInv, AdvisorTypes
<1> DEFINE Keeps(q) ==
             /\ plans'[q] \in PlanRecord
             /\ plans'[q].variants = plans[q].variants
             /\ plans'[q].state \in {"completed", "abandoned"} =>
                   plans[q].state \in {"completed", "abandoned"} \/ Settled(q)
<1> SUFFICES /\ \A q \in Plans : Keeps(q)
             /\ \E ps : plans' = [q \in Plans |-> ps[q]]
  BY DEF LearnsOutcome
<1>2. CASE plans' = Synchronized
  <2>1. ASSUME NEW q \in Plans
        PROVE  Keeps(q)
    <3>1. \/ plans'[q] = plans[q]
          \/ plans'[q] = [plans[q] EXCEPT !.state = "blocked"]
      BY <1>2 DEF Synchronized
    <3> QED BY <3>1, <1>1 DEF PlanRecord, Terminal
  <2>2. plans' = [q \in Plans |-> plans'[q]]
    BY <1>2 DEF Synchronized
  <2> QED BY <2>1, <2>2
<1>3. CASE Learn
  <2>1. ASSUME NEW q \in Plans
        PROVE  Keeps(q)
    <3>1. plans'[q] = plans[q] \/ plans'[q] = [plans[q] EXCEPT !.bound = TRUE]
      BY <1>3 DEF Learn
    <3> QED BY <3>1, <1>1 DEF PlanRecord
  <2>2. plans' = [q \in Plans |-> plans'[q]]
    BY <1>3 DEF Learn
  <2> QED BY <2>1, <2>2
<1>4. CASE \E p \in Plans : CreatePlan(p) \/ ClosePlan(p)
  <2>1. PICK p \in Plans : CreatePlan(p) \/ ClosePlan(p)
    BY <1>4
  <2>2. PICK state \in Terminal \cup {"planned"} :
            /\ plans' = [plans EXCEPT ![p].state = state]
            /\ state = "planned" \/ Settled(p)
    BY <2>1 DEF CreatePlan, ClosePlan
  <2>3. ASSUME NEW q \in Plans
        PROVE  Keeps(q)
    <3>1. CASE q # p
      BY <3>1, <2>2, <1>1
    <3>2. CASE q = p
      <4>1. plans'[q] = [plans[q] EXCEPT !.state = state]
        BY <3>2, <2>2, <1>1
      <4> QED BY <4>1, <3>2, <2>2, <1>1 DEF PlanRecord
    <3> QED BY <3>1, <3>2
  <2>4. plans' = [q \in Plans |-> plans'[q]]
    BY <2>2, <1>1
  <2> QED BY <2>3, <2>4
<1> QED BY <1>2, <1>3, <1>4

\* The call c alone moves, to a row that its old one may become.
LEMMA OneRowMoves ==
    ASSUME AdvisorInv, NEW c \in ServerCalls, NEW n \in RowRecord,
           callRows' = [callRows EXCEPT ![c] = n], Moves(callRows[c], n, runs)
    PROVE  /\ callRows' \in [ServerCalls -> RowRecord] /\ callRows'[c] = n
           /\ \A d \in ServerCalls : Moves(callRows[d], callRows'[d], runs)
<1>1. callRows \in [ServerCalls -> RowRecord]
  BY DEF AdvisorInv, AdvisorTypes
<1>2. /\ callRows' \in [ServerCalls -> RowRecord] /\ callRows'[c] = n
      /\ \A d \in ServerCalls : d # c => callRows'[d] = callRows[d]
  BY <1>1
<1> QED BY <1>2 DEF Moves

\* The result of a call, or that nobody knows it, goes on record.
LEMMA ReturnsKeep ==
    ASSUME AdvisorInv, CallReturns
    PROVE  /\ AdvisorInv'
           /\ \A d \in ServerCalls : callRows[d].state = "unknown" => callRows'[d] = callRows[d]
<1>0. PICK c, made : c = advisor.call /\ made = advisor.row
  OBVIOUS
<1>1. /\ advisor.at \in {"recorded", "acting"} /\ c \in ServerCalls
      /\ made \in RowRecord /\ made.state = "running" /\ callRows[c] = made
      /\ advisor.at = "acting" => runs[made.command] > 0
  BY <1>0 DEF AdvisorInv, AdvisorTypes, AdvisorRecord, CallInHand, CallReturns
<1>2. PICK state \in {"completed", "unknown"}, ok \in BOOLEAN :
          /\ ok => state = "completed" /\ advisor.at = "acting"
          /\ callRows' = [callRows EXCEPT ![c] = [made EXCEPT !.state = state, !.ok = ok]]
  BY <1>0 DEF CallReturns
<1> DEFINE n == [made EXCEPT !.state = state, !.ok = ok]
<1>3. n \in RowRecord /\ n.state = state /\ Moves(made, n, runs)
  BY <1>1, <1>2 DEF RowRecord, Moves, MayHaveRun, OpenStates
<1>4. callRows' = [callRows EXCEPT ![c] = n]
  BY <1>2
<1> HIDE DEF n
<1>5. /\ callRows' \in [ServerCalls -> RowRecord] /\ callRows'[c] = n
      /\ \A d \in ServerCalls : Moves(callRows[d], callRows'[d], runs)
  BY <1>1, <1>3, <1>4, OneRowMoves
<1>6. /\ advisor' \in AdvisorRecord /\ advisor'.at = "finish" /\ advisor'.call = c
      /\ UNCHANGED <<plans, findings, remote, runs>>
  BY <1>0 DEF CallReturns, AdvisorInv, AdvisorTypes, AdvisorRecord
<1>7. AdvisorInv'
  BY <1>1, <1>3, <1>5, <1>6, RowsMove
<1>8. \A d \in ServerCalls : d # c => callRows'[d] = callRows[d]
  BY <1>1, <1>4 DEF AdvisorInv, AdvisorTypes
<1> QED BY <1>1, <1>7, <1>8

\* A lookup settles the call, or counts one more miss.
LEMMA LookupsKeep ==
    ASSUME AdvisorInv, NEW c \in ServerCalls, ReconcileSettles(c) \/ ReconcileMisses(c)
    PROVE  AdvisorInv'
<1>1. /\ callRows[c] \in RowRecord /\ callRows[c].state = "unknown"
      /\ ~Parked(c) /\ callRows \in [ServerCalls -> RowRecord]
  BY DEF AdvisorInv, AdvisorTypes, ReconcileSettles, ReconcileMisses, MayReconcile
<1>2. /\ advisor' \in AdvisorRecord /\ advisor'.at = "reconciled" /\ advisor'.call = c
      /\ UNCHANGED <<plans, findings, remote, runs>>
  BY AdvisorRecords DEF ReconcileSettles, ReconcileMisses, AdvisorRecord
<1>3. \E n \in RowRecord :
         /\ callRows' = [callRows EXCEPT ![c] = n]
         /\ Moves(callRows[c], n, runs) /\ n.state \in {"unknown", "completed"}
  <2>1. CASE ReconcileSettles(c)
    <3>1. PICK ok \in BOOLEAN :
              callRows' = [callRows EXCEPT ![c].state = "completed", ![c].ok = ok]
      BY <2>1 DEF ReconcileSettles
    <3> DEFINE n == [callRows[c] EXCEPT !.state = "completed", !.ok = ok]
    <3>2. callRows' = [callRows EXCEPT ![c] = n]
      BY <3>1, <1>1 DEF RowRecord
    <3>3. runs[callRows[c].command] > 0
      BY <2>1 DEF ReconcileSettles, RemoteCompleted, AdvisorInv, RowsAreTrue, RowIsTrue
    <3>4. n \in RowRecord /\ n.state = "completed" /\ Moves(callRows[c], n, runs)
      BY <1>1, <3>3 DEF RowRecord, Moves, MayHaveRun, OpenStates
    <3> QED BY <3>2, <3>4
  <2>2. CASE ReconcileMisses(c)
    <3> DEFINE n == [callRows[c] EXCEPT !.missing = @ + 1]
    <3>1. callRows' = [callRows EXCEPT ![c] = n]
      BY <2>2, <1>1 DEF ReconcileMisses, RowRecord
    <3>2. callRows[c].missing + 1 \in 0 .. MAX_MISSING_CHECKS
      BY <1>1, AdvisorAssumption DEF AdvisorAssumption, Parked, RowRecord
    <3>3. n \in RowRecord /\ n.state = "unknown" /\ Moves(callRows[c], n, runs)
      BY <1>1, <3>2 DEF RowRecord, Moves, MayHaveRun, OpenStates
    <3> QED BY <3>1, <3>3
  <2> QED BY <2>1, <2>2
<1>4. /\ callRows' \in [ServerCalls -> RowRecord]
      /\ callRows'[c].state \in {"unknown", "completed"}
      /\ \A d \in ServerCalls : Moves(callRows[d], callRows'[d], runs)
  BY <1>3, OneRowMoves
<1> QED BY <1>2, <1>4, RowsMove

\* A new advisor takes what was running for unknown.
LEMMA AdoptionKeeps ==
    ASSUME AdvisorInv, CycleAdopts
    PROVE  AdvisorInv'
<1>1. /\ callRows' = Adopted /\ advisor' = [AdvisorOff EXCEPT !.at = "adopted"]
      /\ UNCHANGED <<plans, findings, remote, runs>>
  BY DEF CycleAdopts
<1>2. ASSUME NEW c \in ServerCalls
      PROVE  callRows'[c] \in RowRecord /\ Moves(callRows[c], callRows'[c], runs)
  <2>1. callRows[c] \in RowRecord
    BY DEF AdvisorInv, AdvisorTypes
  <2>2. CASE callRows[c].state = "running"
    <3>1. callRows'[c] = [callRows[c] EXCEPT !.state = "unknown", !.ok = FALSE]
      BY <2>2, <1>1 DEF Adopted
    <3> QED BY <3>1, <2>1, <2>2 DEF RowRecord, Moves, MayHaveRun, OpenStates
  <2>3. CASE callRows[c].state # "running"
    BY <2>1, <2>3, <1>1 DEF Adopted, Moves
  <2> QED BY <2>2, <2>3
<1>3. callRows' \in [ServerCalls -> RowRecord]
  BY <1>1, <1>2 DEF Adopted
<1>4. advisor' \in AdvisorRecord /\ advisor'.at = "adopted"
  BY <1>1, AdvisorRecords DEF AdvisorOff
<1> QED BY <1>1, <1>2, <1>3, <1>4, RowsMove DEF QuietPlaces

\* An advisor that ends, or records a finding, leaves plans and rows alone.
LEMMA QuietStepsKeep ==
    ASSUME AdvisorInv, UNCHANGED <<plans, callRows, remote, runs>>,
           findings' \subseteq ServerCalls,
           advisor' \in AdvisorRecord, advisor'.at \in QuietPlaces
    PROVE  AdvisorInv'
<1>1. plans' \in [Plans -> PlanRecord]
  BY DEF AdvisorInv, AdvisorTypes
<1>2. \A p \in Plans, v \in Variants :
         LearnsOutcome(plans[p].variants[v], plans'[p].variants[v])
  BY DEF LearnsOutcome
<1> QED BY <1>1, <1>2, PlansLearn

\* The invariant is inductive.
LEMMA AdvisorStep ==
    ASSUME AdvisorInv, [AdvisorNext]_advisorVars
    PROVE  AdvisorInv'
<1>f. findings \subseteq ServerCalls
  BY DEF AdvisorInv, AdvisorTypes
<1>r. \A p \in Plans, v \in Variants :
         plans' = plans => LearnsOutcome(plans[p].variants[v], plans'[p].variants[v])
  BY DEF LearnsOutcome
<1>1. CASE CycleAdopts
  BY <1>1, AdoptionKeeps
<1>2. CASE CycleSynchronizes \/ ReconcileSynchronizes
  <2>1. /\ plans' = Synchronized /\ UNCHANGED <<callRows, findings, remote, runs>>
        /\ advisor' \in AdvisorRecord /\ advisor'.at \in QuietPlaces
    BY <1>2, AdvisorRecords DEF CycleSynchronizes, ReconcileSynchronizes, QuietPlaces,
                                AdvisorOff
  <2> QED BY <2>1, <1>f, PlansKeepVariants, PlansLearn
<1>3. CASE BeginCycle
  <2>1. /\ UNCHANGED <<callRows, findings, remote, runs>>
        /\ advisor' \in AdvisorRecord /\ advisor'.at \in QuietPlaces
    BY <1>3, AdvisorRecords DEF BeginCycle, QuietPlaces
  <2> QED BY <2>1, <1>3, <1>f, BeginningTeaches, PlansLearn
<1>4. CASE AdvisorEnds
  <2>1. advisor' \in AdvisorRecord /\ advisor'.at \in QuietPlaces
    BY <1>4, AdvisorRecords DEF AdvisorEnds, QuietPlaces
  <2> QED BY <2>1, <1>4, <1>f, QuietStepsKeep DEF AdvisorEnds
<1>5. CASE \E p \in Plans : CreatePlan(p) \/ ClosePlan(p)
  <2>1. /\ UNCHANGED <<callRows, findings, advisor, remote, runs>>
        /\ advisor \in AdvisorRecord /\ advisor.at \in QuietPlaces
    BY <1>5 DEF CreatePlan, ClosePlan, QuietPlaces, AdvisorInv, AdvisorTypes
  <2> QED BY <2>1, <1>5, <1>f, PlansKeepVariants, PlansLearn
<1>6. CASE \E c \in ServerCalls, f \in Commands, p \in Plans, v \in Variants :
              \/ \E tool \in {"analysis", "tc02_run"} : CallReserves(c, f, tool, p, v)
              \/ CallRefused(c, f, p, v)
  BY <1>6, ReservationsKeep, RefusalsKeep
<1>7. CASE CallRecords \/ CallActs \/ CallReturns
  BY <1>7, RecordsKeep, ActsKeep, ReturnsKeep
<1>8. CASE CallFinishes \/ ReconcileFinishes
  <2>1. /\ advisor.call \in ServerCalls
        /\ callRows[advisor.call].state \in MayHaveRun
    BY <1>8 DEF CallFinishes, ReconcileFinishes, AdvisorInv, CallInHand, MayHaveRun,
                OpenStates
  <2>2. /\ plans' = Finished(advisor.call) /\ UNCHANGED <<callRows, findings, remote, runs>>
        /\ advisor' \in AdvisorRecord /\ advisor'.at \in QuietPlaces
    BY <1>8, AdvisorRecords DEF CallFinishes, ReconcileFinishes, QuietPlaces, AdvisorIdle,
                                AdvisorOff
  <2> QED BY <2>1, <2>2, <1>f, FinishingTeaches, PlansLearn
<1>9. CASE \E c \in ServerCalls : RemoteFinishes(c)
  BY <1>9, RemoteKeeps
<1>10. CASE \E c \in ServerCalls : ReconcileSettles(c) \/ ReconcileMisses(c)
  BY <1>10, LookupsKeep
<1>11. CASE \E c \in ServerCalls : RecordFinding(c)
  <2>1. PICK c \in ServerCalls : RecordFinding(c)
    BY <1>11
  <2>2. advisor' \in AdvisorRecord /\ advisor'.at \in QuietPlaces
    BY <2>1, AdvisorRecords DEF RecordFinding, AdvisorRecord, QuietPlaces
  <2> QED BY <2>1, <2>2, <1>f, QuietStepsKeep DEF RecordFinding
<1>12. CASE Learn
  <2>1. /\ UNCHANGED <<callRows, findings, remote, runs>>
        /\ advisor' \in AdvisorRecord /\ advisor'.at \in QuietPlaces
    BY <1>12, AdvisorRecords DEF Learn, QuietPlaces
  <2> QED BY <2>1, <1>12, <1>f, PlansKeepVariants, PlansLearn
<1>13. CASE UNCHANGED advisorVars
  BY <1>13 DEF advisorVars, AdvisorInv, AdvisorTypes, VariantsAreTrue, RowsAreTrue,
               RunsAreCounted, CallsMade, RunsOf, NotYetRun, CallInHand, OnlyCall,
               ClosedPlansAreCertain, Reserved
<1> QED BY <1>1, <1>2, <1>3, <1>4, <1>5, <1>6, <1>7, <1>8, <1>9, <1>10, <1>11, <1>12,
           <1>13 DEF AdvisorNext

\* It holds of an advisor that was never run.
LEMMA AdvisorStart ==
    ASSUME AdvisorInit
    PROVE  AdvisorInv
<1>1. AdvisorTypes
  BY AdvisorRecords DEF AdvisorInit, AdvisorTypes
<1>2. VariantsAreTrue
  BY DEF AdvisorInit, VariantsAreTrue, VariantIsTrue, NoPlan, NoVariant
<1>3. RowsAreTrue
  BY AdvisorAssumption DEF AdvisorAssumption, AdvisorInit, RowsAreTrue, RowIsTrue,
                           NoCallRow, MayHaveRun, OpenStates
<1>4. RunsAreCounted
  <2>1. CallsMade = {} /\ NotYetRun = {}
    BY DEF AdvisorInit, CallsMade, NoCallRow, NotYetRun, AdvisorOff
  <2>2. \A f \in Commands : RunsOf(f) \ {} = {}
    BY DEF AdvisorInit, RunsOf, NoCallRow, MayHaveRun, OpenStates
  <2>3. \A f \in Commands : runs[f] = 0
    BY DEF AdvisorInit
  <2> QED BY <2>1, <2>2, <2>3, FS_EmptySet DEF RunsAreCounted
<1>5. CallInHand /\ ClosedPlansAreCertain
  BY DEF AdvisorInit, CallInHand, AdvisorOff, ClosedPlansAreCertain, NoPlan
<1> QED BY <1>1, <1>2, <1>3, <1>4, <1>5 DEF AdvisorInv

\* So it holds of every state.
LEMMA AdvisorSound == AdvisorSpec => []AdvisorInv
<1>1. AdvisorInit => AdvisorInv
  BY AdvisorStart
<1>2. AdvisorInv /\ [AdvisorNext]_advisorVars => AdvisorInv'
  BY AdvisorStep
<1> QED BY <1>1, <1>2, PTL DEF AdvisorSpec

\* A command acts again only when each of its former calls has an outcome.
LEMMA StepsAccount ==
    ASSUME AdvisorInv, AdvisorNext
    PROVE  ActsAfterOutcome /\ CompletedHadFinished
<1>1. CASE CallActs
  <2>1. /\ advisor.row.command \in Commands
        /\ OnlyCall(advisor.call, advisor.row.command)
    BY <1>1 DEF CallActs, AdvisorInv, CallInHand
  <2>2. \A f \in Commands : f # advisor.row.command => runs'[f] = runs[f]
    BY <1>1 DEF CallActs, AdvisorInv, AdvisorTypes
  <2>3. ASSUME NEW c \in ServerCalls \ {advisor.call},
               callRows[c].command = advisor.row.command
        PROVE  callRows[c].state \in {"completed", "refused"}
    <3>1. callRows[c].state \notin OpenStates
      BY <2>1, <2>3 DEF OnlyCall
    <3>2. callRows[c].state # "none"
      BY <2>1, <2>3, AdvisorAssumption DEF AdvisorAssumption, AdvisorInv, RowsAreTrue,
                                           RowIsTrue
    <3>3. callRows[c] \in RowRecord
      BY DEF AdvisorInv, AdvisorTypes
    <3> QED BY <3>1, <3>2, <3>3 DEF RowRecord, MayHaveRun
  <2>4. ActsAfterOutcome
    BY <2>2, <2>3 DEF ActsAfterOutcome
  <2> QED BY <2>4, <1>1 DEF CallActs, CompletedHadFinished
<1>2. CASE CallReturns
  BY <1>2, ReturnsKeep DEF CallReturns, ActsAfterOutcome, CompletedHadFinished
<1>3. CASE CallRecords
  <2>1. /\ advisor.call \in ServerCalls /\ callRows[advisor.call].state = "none"
        /\ callRows' = [callRows EXCEPT ![advisor.call] = advisor.row] /\ runs' = runs
    BY <1>3 DEF CallRecords, AdvisorInv, CallInHand
  <2>2. \A c \in ServerCalls : c # advisor.call => callRows'[c] = callRows[c]
    BY <2>1 DEF AdvisorInv, AdvisorTypes
  <2> QED BY <2>1, <2>2 DEF ActsAfterOutcome, CompletedHadFinished
<1>4. CASE CycleAdopts
  <2>1. runs' = runs /\ callRows' = Adopted
    BY <1>4 DEF CycleAdopts
  <2>2. \A c \in ServerCalls : callRows[c].state = "unknown" => callRows'[c] = callRows[c]
    BY <2>1 DEF Adopted
  <2> QED BY <2>1, <2>2 DEF ActsAfterOutcome, CompletedHadFinished
<1>5. ASSUME NEW c \in ServerCalls,
             \/ \E f \in Commands, p \in Plans, v \in Variants : CallRefused(c, f, p, v)
             \/ ReconcileMisses(c) \/ ReconcileSettles(c)
      PROVE  ActsAfterOutcome /\ CompletedHadFinished
  <2>1. callRows \in [ServerCalls -> RowRecord]
    BY DEF AdvisorInv, AdvisorTypes
  <2>2. runs' = runs
    BY <1>5 DEF CallRefused, ReconcileMisses, ReconcileSettles
  <2>3. \A d \in ServerCalls : d # c => callRows'[d] = callRows[d]
    BY <1>5, <2>1 DEF CallRefused, ReconcileMisses, ReconcileSettles
  <2>4. callRows[c].state = "unknown" /\ callRows'[c].state = "completed" => remote[c] = "done"
    <3>1. CASE ReconcileSettles(c)
      BY <3>1 DEF ReconcileSettles, RemoteCompleted
    <3>2. CASE ReconcileMisses(c)
      <4>1. callRows' = [callRows EXCEPT ![c] = [callRows[c] EXCEPT !.missing = @ + 1]]
        BY <3>2, <2>1 DEF ReconcileMisses
      <4>2. callRows'[c].state = callRows[c].state
        BY <4>1, <2>1 DEF RowRecord
      <4> QED BY <4>2
    <3>3. CASE \E f \in Commands, p \in Plans, v \in Variants : CallRefused(c, f, p, v)
      BY <3>3 DEF CallRefused, CallAccepted
    <3> QED BY <1>5, <3>1, <3>2, <3>3
  <2> QED BY <2>2, <2>3, <2>4 DEF ActsAfterOutcome, CompletedHadFinished
<1>6. CASE runs' = runs /\ callRows' = callRows
  BY <1>6 DEF ActsAfterOutcome, CompletedHadFinished
<1>7. \/ CallActs \/ CallReturns \/ CallRecords \/ CycleAdopts
      \/ \E c \in ServerCalls :
            \/ \E f \in Commands, p \in Plans, v \in Variants : CallRefused(c, f, p, v)
            \/ ReconcileMisses(c) \/ ReconcileSettles(c)
      \/ runs' = runs /\ callRows' = callRows
  BY DEF AdvisorNext, CycleSynchronizes, BeginCycle, AdvisorEnds, CreatePlan, ClosePlan,
         CallReserves, CallFinishes, RemoteFinishes, RecordFinding, ReconcileFinishes,
         ReconcileSynchronizes, Learn
<1> QED BY <1>1, <1>2, <1>3, <1>4, <1>5, <1>6, <1>7

\* Every run of a command is accounted for, for any plans, calls, commands and
\* limits, wherever the advisor ends (agent_advisor.py, research_recovery.py).
THEOREM CallsStayAccounted == AdvisorSpec => CallsAreAccounted
<1> DEFINE Accounted == /\ AdvisorTypeOK /\ NeverReplayed /\ RunsStayOnRecord
                        /\ ClosedPlansAreCertain /\ SuccessIsReal
<1>1. AdvisorInv => Accounted
  <2> SUFFICES ASSUME AdvisorInv
               PROVE  Accounted
    OBVIOUS
  <2>1. AdvisorTypeOK
    BY DEF AdvisorInv, AdvisorTypes, AdvisorTypeOK, PlanRecord, VariantRecord,
           RowRecord, MayHaveRun
  <2>2. NeverReplayed
    <3>1. \A f \in Commands : runs[f] <= Cardinality(RunsOf(f))
      BY RunsAreAtMost
    <3> QED BY <3>1 DEF NeverReplayed, RunsOf, MayHaveRun
  <2>3. RunsStayOnRecord /\ SuccessIsReal /\ ClosedPlansAreCertain
    BY DEF AdvisorInv, RowsAreTrue, RowIsTrue, RunsStayOnRecord, SuccessIsReal
  <2> QED BY <2>1, <2>2, <2>3
<1>2. AdvisorInv /\ Accounted' /\ [AdvisorNext]_advisorVars => [AccountedStep]_advisorVars
  BY StepsAccount DEF AccountedStep
<1> QED BY <1>1, <1>2, AdvisorSound, PTL DEF AdvisorSpec, CallsAreAccounted
=============================================================================
