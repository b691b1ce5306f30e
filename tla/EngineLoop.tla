----------------------------- MODULE EngineLoop -----------------------------
(***************************************************************************)
(* The deterministic engine of engine_loop.py with the signal source of    *)
(* canary_strategy.py.                                                     *)
(*                                                                         *)
(* Each tick reads the halt and the validation from the store, the newest  *)
(* bar from the bar store, then the bars again for the signals, and sends  *)
(* a proposal through the paper gates, which refuse an id they have seen.  *)
(* The feed appends bars, and other processes halt, resume and validate,   *)
(* between these steps; the process may end at each of them, and what the  *)
(* signal source has observed is lost with it.                             *)
(***************************************************************************)
EXTENDS Integers, Sequences

CONSTANTS
    MaxBacklog,     \* max_backlog_bars
    ErrorLimit,     \* auto_halt_after_consecutive_errors
    MaxBars,        \* bound of the bars
    MaxStarts       \* bound of the starts of the engine

ASSUME EngineAssumption ==
    /\ MaxBacklog \in Nat
    /\ ErrorLimit \in Nat \ {0}
    /\ MaxBars \in Nat
    /\ MaxStarts \in Nat

VARIABLES
    signals,        \* what the strategy says at each bar of the store
    halt,           \* the durable halt
    validated,      \* the strategy has a recorded validation
    engine,         \* the process
    decided,        \* the decision ids of the paper store
    acted,          \* observed: the transitions this process proposed
    fills,          \* observed: how often each transition reached the gates
    starts          \* starts so far

engineVars == <<signals, halt, validated, engine, decided, acted, fills, starts>>

-----------------------------------------------------------------------------
BarTimes == 1 .. MaxBars
Newest == Len(signals)
Directions == {"BUY", "SELL"}
NoSignal == [side |-> "NONE", transition |-> 0]
Proposals == [side : Directions, transition : BarTimes] \cup {NoSignal}

\* latched: halted_reason; bar: the bar time of this tick; observed:
\* last_observed_bar_time; floor and clear are observed, the newest bar at the
\* start and whether the tick began with a validation and without a halt.
Down ==
    [at |-> "down", latched |-> FALSE, errors |-> 0, observed |-> 0, bar |-> 0,
     proposal |-> NoSignal, floor |-> 0, clear |-> FALSE]
Engines ==
    [at : {"down", "wait", "market", "signals", "execute"}, latched : BOOLEAN,
     errors : 0 .. ErrorLimit, observed : 0 .. MaxBars, bar : 0 .. MaxBars,
     proposal : Proposals, floor : 0 .. MaxBars, clear : BOOLEAN]

IsTransition(t) ==
    /\ signals[t] \in Directions
    /\ t > 1 => signals[t - 1] # signals[t]

\* A plausible bug: a cold start scans the backlog like a warm one.
MutantActionable(observed) ==
    {t \in DOMAIN signals : IsTransition(t) /\ t > observed /\ t > Newest - MaxBacklog}

\* _pending_transition: after a cold start the newest bar only, else the bars
\* not observed yet, the last ones of them.
Actionable(observed) ==
    {t \in DOMAIN signals :
        /\ IsTransition(t)
        /\ IF observed = 0 THEN t = Newest
           ELSE t > observed /\ t > Newest - MaxBacklog}

Latest(ts) == CHOOSE t \in ts : \A u \in ts : u <= t

EngineInit ==
    /\ signals = << >>
    /\ halt = FALSE
    /\ validated = FALSE
    /\ engine = Down
    /\ decided = {}
    /\ acted = {}
    /\ fills = [t \in BarTimes |-> 0]
    /\ starts = 0

-----------------------------------------------------------------------------
(* The process and what goes on around it. *)

StartEngine ==
    /\ engine.at = "down"
    /\ starts < MaxStarts
    /\ starts' = starts + 1
    /\ engine' = [Down EXCEPT !.at = "wait", !.floor = Newest]
    /\ acted' = {}
    /\ UNCHANGED <<signals, halt, validated, decided, fills>>

\* stop ends the loop at the next wait, a crash anywhere.
EngineEnds ==
    /\ engine.at # "down"
    /\ engine' = Down
    /\ UNCHANGED <<signals, halt, validated, decided, acted, fills, starts>>

BarStored ==
    /\ Newest < MaxBars
    /\ \E signal \in Directions \cup {"NONE"} : signals' = Append(signals, signal)
    /\ UNCHANGED <<halt, validated, engine, decided, acted, fills, starts>>

\* engine halt, engine resume: another process writes the store.
OperateHalt ==
    /\ halt' = ~halt
    /\ UNCHANGED <<signals, validated, engine, decided, acted, fills, starts>>

\* record_validation: only from an artifact that records a pass.
RecordValidation ==
    /\ ~validated
    /\ validated' = TRUE
    /\ UNCHANGED <<signals, halt, engine, decided, acted, fills, starts>>

-----------------------------------------------------------------------------
(* evaluate_once. *)

\* A plausible bug, once there: the halt is cached by the process.
MutantHalted == engine.latched

\* halted: the store is the source of truth.
Halted == halt

TickHalted ==
    /\ engine.at = "wait"
    /\ Halted
    /\ engine' = [engine EXCEPT !.latched = TRUE]
    /\ UNCHANGED <<signals, halt, validated, decided, acted, fills, starts>>

\* A plausible bug: the errors counted before a halt still count after it.
MutantAfterHalt == [engine EXCEPT !.latched = FALSE]

\* halted sees that the halt it knew of is gone, and forgets the errors.
AfterHalt ==
    [engine EXCEPT !.latched = FALSE,
                   !.errors = IF engine.latched THEN 0 ELSE @]

TickUnvalidated ==
    /\ engine.at = "wait"
    /\ ~Halted
    /\ ~validated
    /\ engine' = AfterHalt
    /\ UNCHANGED <<signals, halt, validated, decided, acted, fills, starts>>

TickBegins ==
    /\ engine.at = "wait"
    /\ ~Halted
    /\ validated
    /\ engine' = [AfterHalt EXCEPT !.at = "market", !.clear = ~halt /\ validated]
    /\ UNCHANGED <<signals, halt, validated, decided, acted, fills, starts>>

\* The tick is over, and was not an error.
Over == [engine EXCEPT !.at = "wait", !.errors = 0, !.bar = 0,
                       !.proposal = NoSignal]

\* A closed market, or a bar that is not fresh.
TickIdle ==
    /\ engine.at = "market"
    /\ engine' = Over
    /\ UNCHANGED <<signals, halt, validated, decided, acted, fills, starts>>

\* An error in any step of the tick; the last one allowed halts the engine.
Failed ==
    /\ engine' = [engine EXCEPT !.at = "wait", !.errors = @ + 1, !.bar = 0,
                     !.proposal = NoSignal,
                     !.latched = @ \/ engine.errors + 1 = ErrorLimit]
    /\ halt' = (halt \/ engine.errors + 1 = ErrorLimit)

TickFails ==
    /\ engine.at \in {"market", "signals", "execute"}
    /\ Failed
    /\ UNCHANGED <<signals, validated, decided, acted, fills, starts>>

ReadBar ==
    /\ engine.at = "market"
    /\ Newest > 0
    /\ engine' = [engine EXCEPT !.at = "signals", !.bar = Newest]
    /\ UNCHANGED <<signals, halt, validated, decided, acted, fills, starts>>

\* A plausible bug: what was observed is noted only when nothing comes of it.
MutantReadSignals ==
    /\ engine.at = "signals"
    /\ LET ts == Actionable(engine.observed)
       IN  IF ts = {}
           THEN engine' = [Over EXCEPT !.observed = Newest] /\ UNCHANGED acted
           ELSE LET t == Latest(ts)
                IN  /\ engine' = [engine EXCEPT !.at = "execute",
                          !.observed = IF @ = 0 THEN Newest - 1 ELSE @,
                          !.proposal = [side |-> signals[t], transition |-> t]]
                    /\ acted' = acted \cup {t}
    /\ UNCHANGED <<signals, halt, validated, decided, fills, starts>>

\* signals.read: the bars are read again, and all of them are observed.
ReadSignals ==
    /\ engine.at = "signals"
    /\ LET ts   == Actionable(engine.observed)
           seen == [engine EXCEPT !.observed = Newest]
       IN  IF ts = {}
           THEN engine' = [Over EXCEPT !.observed = Newest] /\ UNCHANGED acted
           ELSE LET t == Latest(ts)
                IN  /\ engine' = [seen EXCEPT !.at = "execute",
                          !.proposal = [side |-> signals[t], transition |-> t]]
                    /\ acted' = acted \cup {t}
    /\ UNCHANGED <<signals, halt, validated, decided, fills, starts>>

\* engine_decision_id: the direction and the bar of the tick.
DecisionId == <<engine.proposal.side, engine.bar>>

\* The gates take an id once; the proposal fills, or is refused, and recorded.
Gates ==
    /\ decided' = decided \cup {DecisionId}
    /\ fills' = IF DecisionId \in decided THEN fills
                ELSE [fills EXCEPT ![engine.proposal.transition] = @ + 1]

Execute ==
    /\ engine.at = "execute"
    /\ Gates
    /\ engine' = Over
    /\ UNCHANGED <<signals, halt, validated, acted, starts>>

\* The paper side is done and the demo side, or the record of it, fails.
ExecuteFails ==
    /\ engine.at = "execute"
    /\ Gates
    /\ Failed
    /\ UNCHANGED <<signals, validated, acted, starts>>

EngineNext ==
    \/ StartEngine \/ EngineEnds \/ BarStored \/ OperateHalt \/ RecordValidation
    \/ TickHalted \/ TickUnvalidated \/ TickBegins \/ TickIdle \/ TickFails
    \/ ReadBar \/ ReadSignals \/ Execute \/ ExecuteFails

EngineSpec == EngineInit /\ [][EngineNext]_engineVars

-----------------------------------------------------------------------------
(* Properties. *)

EngineTypeOK ==
    /\ signals \in Seq(Directions \cup {"NONE"})
    /\ {halt, validated} \subseteq BOOLEAN
    /\ engine \in Engines
    /\ decided \subseteq Directions \X BarTimes
    /\ acted \subseteq BarTimes

\* A tick that goes on began while the store held a validation and no halt,
\* whoever wrote them and whatever the process remembers.
HaltStopsNextTick == engine.at \in {"market", "signals", "execute"} => engine.clear

\* No tick begins with the errors that halted the engine: one more error after
\* a resume never halts it again.
FreshAfterResume == engine.at = "market" => engine.errors < ErrorLimit

\* One process proposes a transition once, whatever fails after it.
TransitionProposedOnce ==
    engine.at = "signals" /\ engine'.at = "execute"
        => engine'.proposal.transition \notin acted

\* A start does not trade a breakout that was history by then.
NoResurrection == engine.at # "down" => \A t \in acted : t >= engine.floor

\* A transition reaches the paper gates once, restarts included.
TransitionFilledOnce == \A t \in BarTimes : fills[t] <= 1

HaltStep ==
    /\ TransitionProposedOnce
    /\ EngineTypeOK' /\ HaltStopsNextTick' /\ FreshAfterResume' /\ NoResurrection'

\* Halts hold, resumes begin afresh, and no transition is proposed that is
\* history or was proposed before.
HaltsHold == [][HaltStep]_engineVars
=============================================================================
