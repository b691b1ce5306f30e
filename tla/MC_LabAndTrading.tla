-------------------------- MODULE MC_LabAndTrading --------------------------
(***************************************************************************)
(* Instances for TLC of the research lab and of the trading around it:     *)
(* candidates and their trading, datasets, accounts, advisor calls, the    *)
(* engine loop, the working notes with drafts or with several versions,    *)
(* two callers of the paper account, and a demo runner beside an operator  *)
(* or an agent. Their specifications share no state, so a behaviour of     *)
(* this one is a behaviour of one of them while the others stay as they    *)
(* began, and its states are the union of theirs.                          *)
(***************************************************************************)
EXTENDS EngineLoop, LabTrading, DemoExecution, LabDataset, LabAccounts,
        AdvisorCalls

VARIABLES
    part,           \* the component whose behaviour this is
    \* NotesMemory
    notesNotes, notesOpen, notesClosed, notesLegacy, notesWriter, notesLost,
    \* NotesMemory
    versionsNotes, versionsOpen, versionsClosed, versionsLegacy,
    versionsWriter, versionsLost,
    \* PaperAccount
    now, callersRow, account, callersDecisions, observations, call,
    \* DemoExecution
    operatorSwitch, operatorPosition, operatorDecisions, operatorDemo,
    operatorRequests, operatorBroker, operatorSubmissions, operatorPc,
    operatorLocal, operatorFaults, operatorRebases

\* A valid payload with evidence, one without, and one that is refused.
Valid(refs) == [class |-> "valid", refs |-> refs]
Invalid(refs) == [class |-> "invalid", refs |-> refs]

\* A purchase and a malformed proposal.
CallersProposal ==
    [id \in {"buy", "bad"} |-> [valid |-> id = "buy", buy |-> TRUE, quantity |-> 2]]

\* A purchase of one unit, with a broker id of its own.
OneUnit == [id \in {"buy"} |-> 1]
OwnId == [id \in {"buy"} |-> id]

Notes == INSTANCE NotesMemory WITH
    Writers <- {"agent", "operator"}, Refs <- {"r1", "r2"},
    Payloads <- {Valid({"r1"}), Invalid({"r2"})}, LegacyRefs <- {"r1"},
    MaxOpen <- 1, MaxClosed <- 2, MaxRefs <- 2, MaxVersion <- 2,
    MaxDrafts <- 1, notes <- notesNotes, open <- notesOpen,
    closed <- notesClosed, legacy <- notesLegacy, writer <- notesWriter,
    lost <- notesLost
Revisions == INSTANCE NotesMemory WITH
    Writers <- {"agent", "operator"}, Refs <- {"r1", "r2"},
    Payloads <- {Valid({"r1"}), Valid({}), Invalid({"r2"})},
    LegacyRefs <- {"r1"}, MaxOpen <- 1, MaxClosed <- 2, MaxRefs <- 2,
    MaxVersion <- 2, MaxDrafts <- 0, notes <- versionsNotes,
    open <- versionsOpen, closed <- versionsClosed,
    legacy <- versionsLegacy, writer <- versionsWriter, lost <- versionsLost
Callers == INSTANCE PaperAccount WITH
    Callers <- {"agent", "engine"}, DecisionIds <- {"buy", "bad"},
    Proposal <- CallersProposal, Prices <- {4}, InitialCash <- 10,
    RebaseCash <- 10, DailyLossLimit <- 4, DrawdownPercent <- 25,
    MaxPosition <- 2, MaxTradesPerDay <- 1, MaxAge <- 0, Bar <- 1,
    TicksPerDay <- 2, ClosedTicks <- {}, MaxTime <- 1, row <- callersRow,
    decisions <- callersDecisions
Operated == INSTANCE DemoExecution WITH
    DecisionIds <- {"buy"}, Signed <- OneUnit, Runners <- {"runner"},
    Agents <- {}, Operators <- {"operator"}, VolumePerUnit <- 2,
    BrokerId <- OwnId, NoId <- "no_id", MaxFailures <- 2, MaxFaults <- 0,
    MaxRebases <- 0, switch <- operatorSwitch, position <- operatorPosition,
    decisions <- operatorDecisions, demo <- operatorDemo,
    requests <- operatorRequests, broker <- operatorBroker,
    submissions <- operatorSubmissions, pc <- operatorPc,
    local <- operatorLocal, faults <- operatorFaults,
    rebases <- operatorRebases

notesVars == <<notesNotes, notesOpen, notesClosed, notesLegacy, notesWriter,
    notesLost>>
versionsVars == <<versionsNotes, versionsOpen, versionsClosed,
    versionsLegacy, versionsWriter, versionsLost>>
callersVars == <<now, callersRow, account, callersDecisions, observations,
    call>>
operatorVars == <<operatorSwitch, operatorPosition, operatorDecisions,
    operatorDemo, operatorRequests, operatorBroker, operatorSubmissions,
    operatorPc, operatorLocal, operatorFaults, operatorRebases>>
allVars == <<part, engineVars, tradingVars, vars, cohortsVars, accountsVars,
    advisorVars, notesVars, versionsVars, callersVars, operatorVars>>

PartsInit ==
    /\ part \in {"engine", "dataset", "trading", "accounts", "advisor",
                 "notes", "versions", "callers", "operator", "executors"}
    /\ EngineInit
    /\ CohortsInit
    /\ TradingInit
    /\ AccountsInit
    /\ AdvisorInit
    /\ Notes!Init
    /\ part # "notes" => notesLegacy = FALSE
    /\ Revisions!Init
    /\ part # "versions" => versionsLegacy = FALSE
    /\ Callers!Init
    /\ Operated!Init
    /\ Init

\* The part moves; the others keep their first state, which is fixed.
PartsNext ==
    \/ /\ part = "engine"
       /\ EngineNext
       /\ UNCHANGED <<part, tradingVars, vars, cohortsVars, accountsVars,
                       advisorVars, notesVars, versionsVars, callersVars,
                       operatorVars>>
    \/ /\ part = "dataset"
       /\ CohortsNext
       /\ UNCHANGED <<part, engineVars, tradingVars, vars, accountsVars,
                       advisorVars, notesVars, versionsVars, callersVars,
                       operatorVars>>
    \/ /\ part = "trading"
       /\ TradingNext
       /\ UNCHANGED <<part, engineVars, vars, cohortsVars, accountsVars,
                       advisorVars, notesVars, versionsVars, callersVars,
                       operatorVars>>
    \/ /\ part = "accounts"
       /\ AccountsNext
       /\ UNCHANGED <<part, engineVars, tradingVars, vars, cohortsVars,
                       advisorVars, notesVars, versionsVars, callersVars,
                       operatorVars>>
    \/ /\ part = "advisor"
       /\ AdvisorNext
       /\ UNCHANGED <<part, engineVars, tradingVars, vars, cohortsVars,
                       accountsVars, notesVars, versionsVars, callersVars,
                       operatorVars>>
    \/ /\ part = "notes"
       /\ Notes!Next
       /\ UNCHANGED <<part, engineVars, tradingVars, vars, cohortsVars,
                       accountsVars, advisorVars, versionsVars, callersVars,
                       operatorVars>>
    \/ /\ part = "versions"
       /\ Revisions!Next
       /\ UNCHANGED <<part, engineVars, tradingVars, vars, cohortsVars,
                       accountsVars, advisorVars, notesVars, callersVars,
                       operatorVars>>
    \/ /\ part = "callers"
       /\ Callers!Next
       /\ UNCHANGED <<part, engineVars, tradingVars, vars, cohortsVars,
                       accountsVars, advisorVars, notesVars, versionsVars,
                       operatorVars>>
    \/ /\ part = "operator"
       /\ Operated!Next
       /\ UNCHANGED <<part, engineVars, tradingVars, vars, cohortsVars,
                       accountsVars, advisorVars, notesVars, versionsVars,
                       callersVars>>
    \/ /\ part = "executors"
       /\ Next
       /\ UNCHANGED <<part, engineVars, tradingVars, cohortsVars,
                       accountsVars, advisorVars, notesVars, versionsVars,
                       callersVars, operatorVars>>

PartsSpec == PartsInit /\ [][PartsNext]_allVars

\* What tells two states of a behaviour apart: the state of its part.
PartView ==
    <<part, CASE part = "engine" -> engineVars
             [] part = "dataset" -> cohortsVars
             [] part = "trading" -> tradingVars
             [] part = "accounts" -> accountsVars
             [] part = "advisor" -> advisorVars
             [] part = "notes" -> notesVars
             [] part = "versions" -> versionsVars
             [] part = "callers" -> callersVars
             [] part = "operator" -> operatorVars
             [] part = "executors" -> vars>>

-----------------------------------------------------------------------------
\* No note and no evidence is lost without a record, with drafts and with
\* several versions (NotesMemory).
NotesAreKept ==
    [][/\ part = "notes" => Notes!NotesStep
       /\ part = "versions" => Revisions!NotesStep]_<<notesVars, versionsVars>>

\* Two callers keep the contract of the paper account (PaperAccount).
CallersKeepContract ==
    /\ Callers!Contract!ContractInit
    /\ [][part = "callers" =>
            \/ Callers!Contract!ContractNext
            \/ UNCHANGED Callers!Contract!contractVars]_callersVars

\* A runner beside an operator trades on what is agreed, and only the
\* operator starts what was stopped (DemoExecution).
OperatorStarts ==
    [][part = "operator" => Operated!RunnerStep]_operatorVars
=============================================================================
