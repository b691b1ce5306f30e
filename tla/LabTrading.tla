----------------------------- MODULE LabTrading -----------------------------
(***************************************************************************)
(* The research lab from a validated candidate to a paper trade: lab.py    *)
(* with the candidates of lab_store.py, the target of lab_execution.py and *)
(* the prospective accounts of lab.py's shadow_tick.                       *)
(*                                                                         *)
(* Scoring, promotion, the shadow observations, the clean-up and the paper *)
(* tick exclude each other with one lock of the process.  The paper        *)
(* account is shared with everybody: another process may trade, stop or    *)
(* start it at any moment, and the lab may crash between its writes.       *)
(***************************************************************************)
EXTENDS Integers, FiniteSets

CONSTANTS
    Candidates,     \* candidates
    Nobody,
    Window,         \* minutes of the forward window
    MaxMinute       \* bound of the minutes

ASSUME TradingAssumption ==
    /\ Nobody \notin Candidates
    /\ "outside" \notin Candidates \cup {Nobody}
    /\ Window \in Nat
    /\ MaxMinute \in Nat

VARIABLES
    row,            \* lab:candidates
    active,         \* lab:active
    shadow,         \* lab:shadow: the prospective accounts
    intent,         \* lab:execution_intent
    positionOwner,  \* lab:position_owner
    paper,          \* the paper account
    lab,            \* the process, and what it does under its lock
    minute,         \* the newest closed bar
    opener          \* observed: who opened the exposure of the paper account

tradingVars == <<row, active, shadow, intent, positionOwner, paper, lab, minute, opener>>

-----------------------------------------------------------------------------
States == {"none", "probation", "rejected", "rejected_forward", "qualified",
           "active", "retired"}
Rows == [state : States, created : 0 .. MaxMinute]
Targets == -1 .. 1
Shadows == [seen : SUBSET (1 .. MaxMinute), position : Targets,
            stopped : BOOLEAN, bar : 0 .. MaxMinute]
FreshShadow == [seen |-> {}, position |-> 0, stopped |-> FALSE, bar |-> 0]
NoIntent == [id |-> Nobody, bar |-> 0, delta |-> 0]
NoWork == [at |-> "idle", id |-> Nobody]

FORWARD == {"probation"}
PROTECTED == {"active", "probation", "qualified"}

TradingInit ==
    /\ row = [i \in Candidates |-> [state |-> "none", created |-> 0]]
    /\ active = Nobody
    /\ shadow = [i \in Candidates |-> FreshShadow]
    /\ intent = NoIntent
    /\ positionOwner = Nobody
    /\ paper = [stopped |-> FALSE, position |-> 0]
    /\ lab = NoWork
    /\ minute = 0
    /\ opener = Nobody

\* store.active(): the row the pointer names, if that row says so too.
Active == IF active \in Candidates /\ row[active].state = "active" THEN active ELSE Nobody

ForwardEnd(i) == row[i].created + Window
Expected(i) == row[i].created + 1 .. ForwardEnd(i)

-----------------------------------------------------------------------------
(* The world outside of the lab. *)

MinuteCloses ==
    /\ minute < MaxMinute
    /\ minute' = minute + 1
    /\ UNCHANGED <<row, active, shadow, intent, positionOwner, paper, lab, opener>>

\* An exposure belongs to who opened it, or turned it round.
OpenerAfter(who, position) ==
    CASE position = 0 -> Nobody
      [] paper.position * position > 0 -> opener
      [] OTHER -> who

\* The engine, the agent or the operator, through the same gates.
OutsideTrade ==
    /\ ~paper.stopped
    /\ \E position \in Targets \ {paper.position} :
          /\ paper' = [paper EXCEPT !.position = position]
          /\ opener' = OpenerAfter("outside", position)
    /\ UNCHANGED <<row, active, shadow, intent, positionOwner, lab, minute>>

\* A kill switch, a paper start, or the lab itself after three failed cycles.
OutsideSwitch ==
    /\ paper' = [paper EXCEPT !.stopped = ~@]
    /\ UNCHANGED <<row, active, shadow, intent, positionOwner, lab, minute, opener>>

LabCrash ==
    /\ lab.at # "idle"
    /\ lab' = NoWork
    /\ UNCHANGED <<row, active, shadow, intent, positionOwner, paper, minute, opener>>

-----------------------------------------------------------------------------
(* Research, observation and scoring. *)

\* research_once: a new candidate is assessed on the frozen dataset.
Assess(i) ==
    /\ lab.at = "idle"
    /\ row[i].state = "none"
    /\ \E state \in {"probation", "rejected"} :
          row' = [row EXCEPT ![i] = [state |-> state, created |-> minute]]
    /\ UNCHANGED <<active, shadow, intent, positionOwner, paper, lab, minute, opener>>

\* target_decision: never through zero in one step.
Toward(position, desired) == IF position * desired < 0 THEN 0 ELSE desired

\* shadow_tick: the first bar that counts is later than the candidate; one
\* decision per bar, and a risk stop of the prospective account stays.
ShadowTick(i) ==
    /\ lab.at = "idle"
    /\ row[i].state \in FORWARD
    /\ minute \in Expected(i)
    /\ LET s == shadow[i]
       IN \E desired \in Targets, stops \in BOOLEAN :
             shadow' = [shadow EXCEPT ![i] =
                 [seen     |-> s.seen \cup {minute},
                  stopped  |-> s.stopped \/ stops,
                  bar      |-> minute,
                  position |-> IF s.bar = minute \/ s.stopped THEN s.position
                               ELSE Toward(s.position, desired)]]
    /\ UNCHANGED <<row, active, intent, positionOwner, paper, lab, minute, opener>>

\* A plausible bug: the minutes nobody observed do not matter.
MutantCovered(i) == shadow[i].seen # {}

\* forward_coverage: the window was observed, not slept through (the code asks
\* for 99 % of the minutes, which is each of them in windows below a hundred).
Covered(i) == Expected(i) \subseteq shadow[i].seen

\* The forward gates; whether the trades earned enough is open.
Passes(i, earned) ==
    /\ earned
    /\ Covered(i)
    /\ shadow[i].position = 0
    /\ ~shadow[i].stopped

\* A plausible bug: a window that failed is scored again.
MutantUnscored(i) == row[i].state \in {"probation", "rejected_forward"}

Unscored(i) == row[i].state \in FORWARD

\* probation: the window is over, and scored once.
Score(i) ==
    /\ lab.at = "idle"
    /\ Unscored(i)
    /\ minute >= ForwardEnd(i)
    /\ \E earned \in BOOLEAN :
          row' = [row EXCEPT ![i].state =
                    IF Passes(i, earned) THEN "qualified" ELSE "rejected_forward"]
    /\ UNCHANGED <<active, shadow, intent, positionOwner, paper, lab, minute, opener>>

\* A plausible bug: prospective evidence is removed as soon as it is not deployed.
MutantInactive(i) == row[i].state \in States \ {"active", "qualified"}

Inactive(i) == row[i].state \in {"retired", "rejected", "rejected_forward"}

\* prune_research_evidence.
PruneShadow(i) ==
    /\ lab.at = "idle"
    /\ Inactive(i)
    /\ shadow[i] # FreshShadow
    /\ shadow' = [shadow EXCEPT ![i] = FreshShadow]
    /\ UNCHANGED <<row, active, intent, positionOwner, paper, lab, minute, opener>>

-----------------------------------------------------------------------------
(* Promotion. *)

\* A plausible bug: a stopped account is enough of a check.
MutantMayPromote == ~paper.stopped

MayPromote == ~paper.stopped /\ paper.position = 0

\* promote reads the account, then binds the pointer in a transaction.
\* The evidence of a candidate is checked again, whoever marked it.
Qualified(i) == row[i].state = "qualified"

PromotionChecks(i) ==
    /\ lab.at = "idle"
    /\ Qualified(i)
    /\ MayPromote
    /\ lab' = [at |-> "promote", id |-> i]
    /\ UNCHANGED <<row, active, shadow, intent, positionOwner, paper, minute, opener>>

\* A plausible bug: the former candidate is not retired.
MutantRetired == row

Retired ==
    [i \in Candidates |-> IF row[i].state = "active" THEN [row[i] EXCEPT !.state = "retired"]
                   ELSE row[i]]

PromotionCommits ==
    /\ lab.at = "promote"
    /\ row' = [Retired EXCEPT ![lab.id].state = "active"]
    /\ active' = lab.id
    /\ lab' = NoWork
    /\ UNCHANGED <<shadow, intent, positionOwner, paper, minute, opener>>

-----------------------------------------------------------------------------
(* paper_tick. *)

Owned(i) == paper.position = 0 \/ positionOwner = i

\* A plausible bug: the bar is not remembered with the intent.
MutantDuplicateBar(i) == FALSE

DuplicateBar(i) == intent.id = i /\ intent.bar = minute

\* The intent is frozen first.
TradeIntends ==
    /\ lab.at = "idle"
    /\ minute > 0
    /\ ~paper.stopped
    /\ Active # Nobody
    /\ Owned(Active)
    /\ ~DuplicateBar(Active)
    /\ \E desired \in Targets :
          LET delta == Toward(paper.position, desired) - paper.position
          IN  /\ delta # 0
              /\ intent' = [id |-> Active, bar |-> minute, delta |-> delta]
    /\ lab' = [at |-> "own", id |-> Active]
    /\ UNCHANGED <<row, active, shadow, positionOwner, paper, minute, opener>>

TradeOwns ==
    /\ lab.at = "own"
    /\ positionOwner' = lab.id
    /\ lab' = [lab EXCEPT !.at = "evaluate"]
    /\ UNCHANGED <<row, active, shadow, intent, paper, minute, opener>>

\* paper.evaluate: the gates look at the account as it is by now.
TradeFills ==
    /\ lab.at = "evaluate"
    /\ ~paper.stopped
    /\ paper.position + intent.delta \in Targets
    /\ paper' = [paper EXCEPT !.position = @ + intent.delta]
    /\ opener' = OpenerAfter(lab.id, paper.position + intent.delta)
    /\ lab' = NoWork
    /\ UNCHANGED <<row, active, shadow, intent, positionOwner, minute>>

TradeRefused ==
    /\ lab.at = "evaluate"
    /\ lab' = NoWork
    /\ UNCHANGED <<row, active, shadow, intent, positionOwner, paper, minute, opener>>

TradingNext ==
    \/ MinuteCloses \/ OutsideTrade \/ OutsideSwitch \/ LabCrash
    \/ \E i \in Candidates :
          \/ Assess(i) \/ ShadowTick(i) \/ Score(i) \/ PruneShadow(i)
          \/ PromotionChecks(i)
    \/ PromotionCommits
    \/ TradeIntends \/ TradeOwns \/ TradeFills \/ TradeRefused

TradingSpec == TradingInit /\ [][TradingNext]_tradingVars

-----------------------------------------------------------------------------
(* Properties. *)

TradingTypeOK ==
    /\ row \in [Candidates -> Rows]
    /\ active \in Candidates \cup {Nobody}
    /\ shadow \in [Candidates -> Shadows]
    /\ paper \in [stopped : BOOLEAN, position : Targets]
    /\ lab \in [at : {"idle", "promote", "own", "evaluate"}, id : Candidates \cup {Nobody}]
    /\ positionOwner \in Candidates \cup {Nobody}
    /\ opener \in Candidates \cup {Nobody, "outside"}

\* The pointer and the rows agree on the one candidate that is deployed,
\* whatever was promoted and wherever a promotion was cut off.
OneActive == \A i \in Candidates : row[i].state = "active" <=> i = active

\* The exposure a candidate opened is never left to nobody: it is deployed
\* until its exposure is gone.
NoStrandedExposure == opener \in Candidates => row[opener].state = "active"

\* Down time, a restart or a cleaned-up store never counts as observation: what
\* was qualified was seen in each minute of its window.
ObservedBeforeQualified ==
    \A i \in Candidates : row'[i].state = "qualified" /\ row[i].state # "qualified"
        => /\ row[i].state = "probation"
           /\ Expected(i) \subseteq shadow[i].seen

\* What a candidate under observation was seen to do is not lost.
ObservationsKept ==
    \A i \in Candidates : row'[i].state = "probation" =>
        shadow[i].seen \subseteq shadow'[i].seen

\* The intent of a bar is the only one of its bar, so that a repeated tick
\* never executes the second half of a reversal on it.
IntentFrozen ==
    intent'.id = intent.id /\ intent'.bar = intent.bar => intent' = intent

\* The lab sends orders from a flat account, or for an exposure of its own.
OutsideExposureBlocks ==
    [][ lab.at = "idle" /\ lab'.at = "own" => opener \in {Nobody, Active} ]_tradingVars

TradingStep ==
    /\ ObservedBeforeQualified
    /\ ObservationsKept
    /\ IntentFrozen
    /\ TradingTypeOK' /\ OneActive' /\ NoStrandedExposure'

\* One candidate trades, it was observed before, it owns its exposure until that
\* is gone, and trades each bar on one intent.
CandidatesTradeSafely == [][TradingStep]_tradingVars
=============================================================================
