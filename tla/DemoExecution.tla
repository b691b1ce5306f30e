--------------------------- MODULE DemoExecution ---------------------------
(***************************************************************************)
(* Paper decisions mirrored to a cTrader demo account.                     *)
(*                                                                         *)
(* A decision is filled on the paper account first (PaperContract), then   *)
(* reserved in the request store, sent to the broker, and its outcome      *)
(* recorded; anything but a full fill stops both kill switches.  The two   *)
(* stores and the broker are separate, so every access is a step of its    *)
(* own and a crash may fall between any two.  Three kinds of process work  *)
(* on the shared state:                                                    *)
(*   Runners     DemoAutomationRunner (`demo-automation run`): reconciles  *)
(*               before it trades;                                         *)
(*   Agents      the planner agent (`agent run`) with a demo coordinator:  *)
(*               resumes the paper account and trades;                     *)
(*   Operators   `demo-automation start`: reconciles, then starts.         *)
(* PaperContract's variables switch, position and decisions are the paper  *)
(* account; its risk gates are the free choice between Accept and Refuse.  *)
(***************************************************************************)
EXTENDS PaperContract, Sequences, FiniteSets

CONSTANTS
    Runners, Agents, Operators,
    VolumePerUnit,      \* CTRADER_VOLUME_PER_PAPER_UNIT
    BrokerId,           \* broker_client_order_id of each decision id
    NoId,               \* no decision in progress
    MaxFailures,        \* CTRADER_AUTOMATION_MAX_CONSECUTIVE_FAILURES
    MaxFaults,          \* bound: failing accesses to a store
    MaxRebases          \* bound: account rebases

Executors == Runners \cup Agents
Processes == Executors \cup Operators

ASSUME ExecutionAssumption ==
    /\ Signed \in [DecisionIds -> Int \ {0}]
    /\ VolumePerUnit \in Nat \ {0}
    /\ NoId \notin DecisionIds
    /\ DecisionIds \subseteq DOMAIN BrokerId
    /\ MaxFailures \in Nat \ {0}
    /\ MaxFaults \in Nat
    /\ MaxRebases \in Nat
    /\ Runners \cap Agents = {}
    /\ Executors \cap Operators = {}

VARIABLES
    demo,           \* the demo kill switch, with its reconciled flag
    requests,       \* the request store: a record per decision id
    broker,         \* the broker's orders
    submissions,    \* how often each order was sent (history)
    pc,             \* where each process is
    local,          \* what each process remembers
    faults, rebases \* the bounded events so far

paperVars == <<switch, position, decisions>>
vars == <<paperVars, demo, requests, broker, submissions, pc, local, faults,
          rebases>>

\* "pending": reserved, no outcome; "unknown": OUTCOME_UNKNOWN recorded, its
\* status still pending; "accepted" and "rejected": completed.
Unresolved == {"pending", "unknown"}
Records == {"absent", "accepted", "rejected"} \cup Unresolved

Phases == {"none", "sent", "lost", "working", "filled", "rejected", "cancelled"}

Volume(id) == VolumePerUnit * (IF Signed[id] < 0 THEN -Signed[id] ELSE Signed[id])
Direction(id) == IF Signed[id] < 0 THEN -1 ELSE 1

Orders == [DecisionIds -> [phase : Phases, filled : Nat]]
NoOrders == [id \in DecisionIds |-> [phase |-> "none", filled |-> 0]]

\* The decisions in some order, and the sum of an amount for each of them.
Listing ==
    CHOOSE list \in [1 .. Cardinality(DecisionIds) -> DecisionIds] :
        \A id \in DecisionIds : \E n \in DOMAIN list : list[n] = id
Total(amount) ==
    LET upTo[n \in 0 .. Cardinality(DecisionIds)] ==
            IF n = 0 THEN 0 ELSE upTo[n - 1] + amount[Listing[n]]
    IN  upTo[Cardinality(DecisionIds)]

\* The signed exposure of the broker account, and the one the records explain.
Net(orders) ==
    Total([id \in DecisionIds |-> Direction(id) * orders[id].filled])
RecordedNet ==
    Total([id \in DecisionIds |->
             IF requests[id] = "accepted" THEN Direction(id) * Volume(id) ELSE 0])

\* seen: the broker snapshot of a reconciliation in progress; resume: the demo
\* switch was fresh; why: the reason of a halt or of a stop to come.
Idle == [id |-> NoId, verdict |-> "absent", seen |-> NoOrders, resume |-> FALSE,
         why |-> "operator", fails |-> 0]
Memories == [id : DecisionIds \cup {NoId}, verdict : Records, seen : Orders,
             resume : BOOLEAN, why : StopReasons, fails : Nat]

StartSteps == {"read_demo", "snapshot", "pending", "records", "exposure",
               "mark", "fail_reconcile", "start_demo", "read_paper",
               "resume_paper"}
AdapterSteps == {"check_switch", "check_ids", "collide", "reserve", "send",
                 "await", "stop_unknown", "finish"}
CoordinatorSteps == {"evaluate", "audit", "stop_paper", "stop_demo"}
HaltSteps == {"halt_paper", "halt_demo"}
Steps == {"off", "ready"} \cup StartSteps \cup AdapterSteps
            \cup CoordinatorSteps \cup HaltSteps

Init ==
    /\ ContractInit
    /\ demo = [stopped |-> TRUE, reason |-> "missing_state", reconciled |-> FALSE]
    /\ requests = [id \in DecisionIds |-> "absent"]
    /\ broker = NoOrders
    /\ submissions = [id \in DecisionIds |-> 0]
    /\ pc = [p \in Processes |-> "off"]
    /\ local = [p \in Processes |-> Idle]
    /\ faults = 0
    /\ rebases = 0

-----------------------------------------------------------------------------
(* Control. *)

At(p, step) == pc[p] = step
Go(p, step) == pc' = [pc EXCEPT ![p] = step] /\ UNCHANGED local
GoWith(p, step, memory) ==
    /\ pc' = [pc EXCEPT ![p] = step]
    /\ local' = [local EXCEPT ![p] = memory]

Exit(p) == GoWith(p, "off", Idle)
Ready(p) == GoWith(p, "ready", Idle)
Halt(p, reason) == GoWith(p, "halt_paper", [Idle EXCEPT !.why = reason])

\* run_cycle's handler of an exception; an agent reports it to its planner.
FailCycle(p) ==
    LET fails == local[p].fails + 1
    IN  CASE p \in Agents -> Ready(p)
          [] p \in Runners /\ fails < MaxFailures ->
                GoWith(p, "ready", [Idle EXCEPT !.fails = fails])
          [] OTHER -> Halt(p, "max_consecutive_failures")

\* An exception that leaves runner.start, or the operator's command.
FailStart(p) ==
    IF p \in Runners THEN Halt(p, "startup_reconciliation_failed") ELSE Exit(p)

\* The adapter's outcome goes to the coordinator, which audits it first.
Conclude(p, verdict) == GoWith(p, "audit", [local[p] EXCEPT !.verdict = verdict])

StopDemo(reason) ==
    demo' = [stopped |-> TRUE, reason |-> reason, reconciled |-> FALSE]

brokerSide == <<broker, submissions>>
bounds == <<faults, rebases>>
exceptDemo == <<paperVars, requests, brokerSide, bounds>>
stores == <<exceptDemo, demo>>      \* all but pc and local

-----------------------------------------------------------------------------
(* Starting: a runner and an operator reconcile, an agent does not. *)

Launch(p) ==
    /\ At(p, "off")
    /\ \/ /\ p \in Runners
          /\ RestartPolicy(switch) # "refuse"
          /\ GoWith(p, "read_demo", Idle)
       \/ p \in Agents /\ GoWith(p, "read_paper", Idle)
       \/ p \in Operators /\ GoWith(p, "snapshot", Idle)
    /\ UNCHANGED stores

\* A plausible bug: an account that is running is not reconciled again.
MutantSkipsReconcile(p) ==
    /\ At(p, "read_demo")
    /\ CASE RestartPolicy(demo) = "refuse"  -> Exit(p)
         [] RestartPolicy(demo) = "running" -> GoWith(p, "read_paper", Idle)
         [] OTHER -> GoWith(p, "snapshot", [Idle EXCEPT !.resume = TRUE])
    /\ UNCHANGED stores

\* Both switches are read before the broker is contacted.
ReadDemo(p) ==
    /\ At(p, "read_demo")
    /\ IF RestartPolicy(demo) = "refuse" THEN Exit(p)
       ELSE GoWith(p, "snapshot",
                   [Idle EXCEPT !.resume = (RestartPolicy(demo) = "resume")])
    /\ UNCHANGED stores

\* The broker answers with its open orders and positions, or not at all.
TakeSnapshot(p) ==
    /\ At(p, "snapshot")
    /\ \/ GoWith(p, "pending", [local[p] EXCEPT !.seen = broker])
       \/ Go(p, "fail_reconcile")
    /\ UNCHANGED stores

\* A check of the reconciliation: it goes on to the next one, or fails.
Check(p, step, passes, next) ==
    /\ At(p, step)
    /\ Go(p, IF passes THEN next ELSE "fail_reconcile")
    /\ UNCHANGED stores

\* The broker's snapshot reports no outcomes, so a pending request is a failure.
CheckPending(p) ==
    Check(p, "pending", \A id \in DecisionIds : requests[id] \notin Unresolved,
          "records")

\* verify_position_exposure against the records: they are resolved, no order is
\* open, and the fills they hold are the broker's positions.
CheckRecords(p) ==
    Check(p, "records",
          /\ \A id \in DecisionIds : local[p].seen[id].phase # "working"
          /\ \A id \in DecisionIds : requests[id] \notin Unresolved
          /\ RecordedNet = Net(local[p].seen),
          "exposure")

\* A plausible bug: the broker is compared with its own records only.
MutantTrustsRecords(p) == Check(p, "exposure", TRUE, "mark")

\* ... and against the paper account.
CheckExposure(p) ==
    Check(p, "exposure", position * VolumePerUnit = Net(local[p].seen), "mark")

\* The flag is set whatever has happened since the snapshot, a stop included.
MarkReconciled(p) ==
    /\ At(p, "mark")
    /\ demo' = [demo EXCEPT !.reconciled = TRUE]
    /\ Go(p, IF p \in Operators \/ local[p].resume THEN "start_demo"
             ELSE "read_paper")
    /\ UNCHANGED exceptDemo

FailReconcile(p) ==
    /\ At(p, "fail_reconcile")
    /\ StopDemo("reconciliation_failed")
    /\ FailStart(p)
    /\ UNCHANGED exceptDemo

StartDemo(p) ==
    /\ At(p, "start_demo")
    /\ \/ /\ demo.reconciled
          /\ demo' = [demo EXCEPT !.stopped = FALSE,
                        !.reason = IF p \in Operators THEN "explicit_start"
                                   ELSE "unattended_start"]
          /\ IF p \in Operators THEN Exit(p) ELSE Go(p, "read_paper")
       \/ /\ ~demo.reconciled
          /\ FailStart(p)
          /\ UNCHANGED demo
    /\ UNCHANGED exceptDemo

\* paper.maybe_resume, its read...
ReadPaper(p) ==
    /\ At(p, "read_paper")
    /\ CASE RestartPolicy(switch) = "refuse"  -> Exit(p)
         [] RestartPolicy(switch) = "running" -> Ready(p)
         [] OTHER                             -> Go(p, "resume_paper")
    /\ UNCHANGED stores

\* ... and its write.
ResumePaper(p) ==
    /\ At(p, "resume_paper")
    /\ SetKillSwitch(FALSE, "unattended_start")
    /\ Ready(p)
    /\ UNCHANGED <<demo, requests, brokerSide, bounds>>

-----------------------------------------------------------------------------
(* A cycle: the paper decision, then the demo order. *)

\* The decision source proposes an id, which may be one it proposed before.
Propose(p, id) ==
    /\ At(p, "ready")
    /\ p \in Executors
    /\ GoWith(p, "evaluate", [local[p] EXCEPT !.id = id])
    /\ UNCHANGED stores

\* The source finds nothing to propose, or a source raises.
NoProposal(p) ==
    /\ At(p, "ready")
    /\ p \in Runners
    /\ Ready(p) \/ FailCycle(p)
    /\ UNCHANGED stores

\* A plausible bug: an order goes to the broker whatever paper risk said of it.
MutantMirrorsRefused(p) ==
    LET id == local[p].id
    IN  /\ At(p, "evaluate")
        /\ \/ decisions[id] # "none" /\ UNCHANGED paperVars
           \/ Accept(id)
           \/ Refuse(id)
        /\ Go(p, "check_switch")
        /\ UNCHANGED <<demo, requests, brokerSide, bounds>>

\* paper.evaluate: a decision already made returns its result.
Evaluate(p) ==
    LET id == local[p].id
    IN  /\ At(p, "evaluate")
        /\ \/ decisions[id] # "none" /\ UNCHANGED paperVars
           \/ Accept(id)
           \/ Refuse(id)
        /\ IF decisions'[id] = "accepted" THEN Go(p, "check_switch") ELSE Ready(p)
        /\ UNCHANGED <<demo, requests, brokerSide, bounds>>

CheckSwitch(p) ==
    /\ At(p, "check_switch")
    /\ IF demo.stopped THEN Conclude(p, "absent") ELSE Go(p, "check_ids")
    /\ UNCHANGED stores

\* Another id's order would be mistaken for this one's.
Collides(id) ==
    \E other \in DecisionIds \ {id} :
        requests[other] # "absent" /\ BrokerId[other] = BrokerId[id]

CheckIds(p) ==
    /\ At(p, "check_ids")
    /\ Go(p, IF Collides(local[p].id) THEN "collide" ELSE "reserve")
    /\ UNCHANGED stores

Collide(p) ==
    /\ At(p, "collide")
    /\ StopDemo("broker_identity_collision")
    /\ Conclude(p, "absent")
    /\ UNCHANGED exceptDemo

\* A plausible bug: a request that was never finished is taken for a retry.
MutantReserveAgain(p) ==
    LET id == local[p].id
    IN  /\ At(p, "reserve")
        /\ \/ /\ requests[id] \in {"absent", "pending"}
              /\ requests' = [requests EXCEPT ![id] = "pending"]
              /\ Go(p, "send")
           \/ /\ requests[id] \notin {"absent", "pending"}
              /\ Conclude(p, requests[id])
              /\ UNCHANGED requests
        /\ UNCHANGED <<paperVars, demo, brokerSide, bounds>>

\* The insert wins, or the prior request's outcome is returned.
Reserve(p) ==
    LET id == local[p].id
    IN  /\ At(p, "reserve")
        /\ \/ /\ requests[id] = "absent"
              /\ requests' = [requests EXCEPT ![id] = "pending"]
              /\ Go(p, "send")
           \/ /\ requests[id] # "absent"
              /\ Conclude(p, requests[id])
              /\ UNCHANGED requests
        /\ UNCHANGED <<paperVars, demo, brokerSide, bounds>>

\* The order leaves, or the transport raises before it does.
Send(p) ==
    LET id == local[p].id
    IN  /\ At(p, "send")
        /\ \/ /\ broker' = [broker EXCEPT ![id].phase = "sent"]
              /\ submissions' = [submissions EXCEPT ![id] = @ + 1]
              /\ Go(p, "await")
           \/ /\ GoWith(p, "stop_unknown",
                        [local[p] EXCEPT !.why = "transport_failure"])
              /\ UNCHANGED brokerSide
        /\ UNCHANGED <<paperVars, demo, requests, bounds>>

\* A plausible bug: the broker's word is recorded, not the verdict.
MutantRecordsBrokerWord(p) ==
    LET phase == broker[local[p].id].phase
    IN  /\ At(p, "await")
        /\ phase \in {"filled", "rejected"}
        /\ GoWith(p, "finish", [local[p] EXCEPT !.verdict = phase])
        /\ UNCHANGED stores

\* The broker's events, when they prove a full fill or a clean rejection.
HearOutcome(p) ==
    LET phase == broker[local[p].id].phase
    IN  /\ At(p, "await")
        /\ phase \in {"filled", "rejected"}
        /\ GoWith(p, "finish",
                  [local[p] EXCEPT
                     !.verdict = IF phase = "filled" THEN "accepted" ELSE phase])
        /\ UNCHANGED stores

\* A plausible bug: an order that did not answer in time counts as rejected.
MutantTimeoutRejects(p) ==
    /\ At(p, "await")
    /\ GoWith(p, "finish", [local[p] EXCEPT !.verdict = "rejected"])
    /\ UNCHANGED stores

\* A plausible bug: the wait for the broker has no timeout.
MutantWaitsForever(p) ==
    /\ At(p, "await")
    /\ broker[local[p].id].phase = "cancelled"
    /\ GoWith(p, "stop_unknown",
              [local[p] EXCEPT !.why = "order_outcome_unknown"])
    /\ UNCHANGED stores

\* No event in time, or events that prove neither; whatever the broker did.
GiveUp(p) ==
    /\ At(p, "await")
    /\ GoWith(p, "stop_unknown",
              [local[p] EXCEPT !.why = "order_outcome_unknown"])
    /\ UNCHANGED stores

StopUnknown(p) ==
    /\ At(p, "stop_unknown")
    /\ StopDemo(local[p].why)
    /\ GoWith(p, "finish", [local[p] EXCEPT !.verdict = "unknown"])
    /\ UNCHANGED exceptDemo

Finish(p) ==
    /\ At(p, "finish")
    /\ requests' = [requests EXCEPT ![local[p].id] = local[p].verdict]
    /\ Go(p, "audit")
    /\ UNCHANGED <<paperVars, demo, brokerSide, bounds>>

\* _audit_outcome, and whether the demo order counts as a success.
Audit(p) ==
    /\ At(p, "audit")
    /\ IF local[p].verdict = "accepted" THEN Ready(p) ELSE Go(p, "stop_paper")
    /\ UNCHANGED stores

StopPaper(p) ==
    /\ At(p, "stop_paper")
    /\ SetKillSwitch(TRUE, "broker_execution_failed")
    /\ Go(p, "stop_demo")
    /\ UNCHANGED <<demo, requests, brokerSide, bounds>>

StopDemoToo(p) ==
    /\ At(p, "stop_demo")
    /\ StopDemo("broker_execution_failed")
    /\ IF p \in Runners THEN Halt(p, "broker_execution_failed") ELSE Ready(p)
    /\ UNCHANGED exceptDemo

\* The runner's own _stop: both switches, and the process ends.
HaltPaper(p) ==
    /\ At(p, "halt_paper")
    /\ SetKillSwitch(TRUE, local[p].why)
    /\ Go(p, "halt_demo")
    /\ UNCHANGED <<demo, requests, brokerSide, bounds>>

HaltDemo(p) ==
    /\ At(p, "halt_demo")
    /\ StopDemo(local[p].why)
    /\ Exit(p)
    /\ UNCHANGED exceptDemo

-----------------------------------------------------------------------------
(* Failures, the operator and the broker. *)

\* The process dies; what it has committed stays.
Crash(p) ==
    /\ ~At(p, "off")
    /\ Exit(p)
    /\ UNCHANGED stores

\* An access to a store raises: each level handles it its own way.
StoreFault(p) ==
    /\ faults < MaxFaults
    /\ faults' = faults + 1
    /\ \/ /\ pc[p] \in AdapterSteps \ {"send", "await"}     \* BROKER_ERROR
          /\ Conclude(p, "absent")
       \/ pc[p] \in CoordinatorSteps /\ FailCycle(p)
       \/ At(p, "halt_paper") /\ Go(p, "halt_demo")
       \/ At(p, "halt_demo") /\ Exit(p)
       \/ pc[p] \in {"pending", "records", "exposure", "mark"} /\ Go(p, "fail_reconcile")
       \/ /\ pc[p] \in {"read_demo", "fail_reconcile", "start_demo", "read_paper",
                        "resume_paper"}
          /\ FailStart(p)
    /\ UNCHANGED <<paperVars, demo, requests, brokerSide, rebases>>

\* `paper start` and `paper stop`
OperatePaper ==
    /\ SetKillSwitch(FALSE, "explicit_start") \/ SetKillSwitch(TRUE, "operator")
    /\ UNCHANGED <<demo, requests, brokerSide, pc, local, bounds>>

\* `account rebase`, with every process stopped, as its runbook asks.
Rebase ==
    /\ rebases < MaxRebases
    /\ rebases' = rebases + 1
    /\ \A p \in Processes : At(p, "off")
    /\ RebaseFlat
    /\ UNCHANGED <<demo, requests, brokerSide, pc, local, faults>>

\* The order of id moves from one of the phases to another at the broker.
Become(id, phases, next) ==
    /\ broker[id].phase \in phases
    /\ broker' = [broker EXCEPT ![id].phase = next]

FillSome(id) ==
    /\ broker[id].phase = "working"
    /\ LET filled == broker[id].filled + 1
       IN  broker' = [broker EXCEPT
                        ![id] = [phase |-> IF filled = Volume(id) THEN "filled"
                                           ELSE "working",
                                 filled |-> filled]]

\* The broker and the network: an order may be lost, filled bit by bit,
\* rejected while it has no fill, or cancelled with a part filled.
BrokerMoves(id) ==
    /\ \/ Become(id, {"sent"}, "working")
       \/ Become(id, {"sent"}, "lost")
       \/ broker[id].filled = 0 /\ Become(id, {"sent", "working"}, "rejected")
       \/ Become(id, {"working"}, "cancelled")
       \/ FillSome(id)
    /\ UNCHANGED <<paperVars, demo, requests, submissions, pc, local, bounds>>

-----------------------------------------------------------------------------
(* The specification. *)

StartStep(p) ==
    \/ ReadDemo(p)
    \/ TakeSnapshot(p)
    \/ CheckPending(p)
    \/ CheckRecords(p)
    \/ CheckExposure(p)
    \/ MarkReconciled(p)
    \/ FailReconcile(p)
    \/ StartDemo(p)
    \/ ReadPaper(p)
    \/ ResumePaper(p)

CycleStep(p) ==
    \/ Evaluate(p)
    \/ CheckSwitch(p)
    \/ CheckIds(p)
    \/ Collide(p)
    \/ Reserve(p)
    \/ Send(p)
    \/ HearOutcome(p)
    \/ GiveUp(p)
    \/ StopUnknown(p)
    \/ Finish(p)
    \/ Audit(p)
    \/ StopPaper(p)
    \/ StopDemoToo(p)
    \/ HaltPaper(p)
    \/ HaltDemo(p)

Next ==
    \/ \E p \in Processes :
          \/ Launch(p)
          \/ StartStep(p)
          \/ \E id \in DecisionIds : Propose(p, id)
          \/ NoProposal(p)
          \/ CycleStep(p)
          \/ Crash(p)
          \/ StoreFault(p)
    \/ OperatePaper
    \/ Rebase
    \/ \E id \in DecisionIds : BrokerMoves(id)

Spec == Init /\ [][Next]_vars

\* A process that is running goes on; nothing makes anyone launch, propose,
\* start or stop, and the broker owes no answer.
Fairness == \A p \in Processes : WF_vars(StartStep(p) \/ CycleStep(p))
FairSpec == Spec /\ Fairness

-----------------------------------------------------------------------------
(* Properties. *)

\* Every variable stays in its domain.
TypeOK ==
    /\ switch \in Switches
    /\ position \in Int
    /\ decisions \in [DecisionIds -> Results]
    /\ demo \in [stopped : BOOLEAN, reason : Reasons, reconciled : BOOLEAN]
    /\ requests \in [DecisionIds -> Records]
    /\ broker \in Orders
    /\ submissions \in [DecisionIds -> Nat]
    /\ pc \in [Processes -> Steps]
    /\ local \in [Processes -> Memories]
    /\ faults \in 0 .. MaxFaults
    /\ rebases \in 0 .. MaxRebases

\* An order is submitted at most once, whoever proposes its decision again,
\* crashes, restarts or loses its answer: "recovery must ... never replay".
AtMostOnce == \A id \in DecisionIds : submissions[id] <= 1

\* What the request store says for certain is true at the broker.
OutcomesTrue ==
    \A id \in DecisionIds :
        /\ requests[id] = "accepted"
              => broker[id] = [phase |-> "filled", filled |-> Volume(id)]
        /\ requests[id] = "rejected" => broker[id] = [phase |-> "rejected", filled |-> 0]

\* Every order is certain: sent once, and its record true.
OrdersAreCertain == AtMostOnce /\ OutcomesTrue

\* No order reaches the broker that paper risk did not accept.
BrokerNeedsPaper ==
    \A id \in DecisionIds :
        submissions'[id] > submissions[id] => decisions[id] = "accepted"

\* No access to a store has failed, and no account was rebased.
Undisturbed == faults = 0 /\ rebases = 0

\* A runner that is ready for its next cycle finds every order resolved and the
\* broker's exposure the paper account's, whatever happened before it started:
\* crashes, lost answers, stops.
AgreedWhenReady ==
    Undisturbed /\ (\E p \in Runners : At(p, "ready"))
        => /\ \A id \in DecisionIds : requests[id] \notin Unresolved
           /\ position * VolumePerUnit = Net(broker)

\* The runner trades on what the broker holds.
RunnerIsSound == TypeOK /\ AgreedWhenReady

\* A demo stop holds across restarts until an operator starts it; provided no
\* runner has already read a fresh switch it is going to start.
HeldDemo ==
    /\ demo.stopped
    /\ demo.reason \notin KILL_SWITCH_AUTO_RESUME
    /\ \A p \in Runners : ~local[p].resume
DemoStopHolds == HeldDemo => HeldDemo' \/ demo'.reason = "explicit_start"

\* An accepted decision is either mirrored by a filled order, or demo execution
\* stops, or the process that was mirroring it has died, or an access to a store
\* has failed on the way.
MirroredOrStopped ==
    \A p \in Runners, id \in DecisionIds :
        At(p, "check_switch") /\ local[p].id = id
            ~> \/ requests[id] = "accepted"
               \/ demo.stopped
               \/ At(p, "off")
               \/ ~Undisturbed

\* "The cTrader demo adapter requires all of the following before it can send a
\* request: ... pending-order reconciliation after restart": no order is sent
\* while the outcome of an earlier one is open.
SentOnlyResolved ==
    \A id, other \in DecisionIds :
        submissions'[id] > submissions[id] /\ requests[other] \in Unresolved
            => other = id

RunnerStep ==
    RunnerIsSound' /\ BrokerNeedsPaper /\ DemoStopHolds /\ SentOnlyResolved

\* A runner trades on what paper accepted and the broker holds, never starts
\* against a stop, and never sends past an open order.
RunnerHolds == [][RunnerStep]_vars

\* The orders of the account keep the order contract.
OrderBook ==
    INSTANCE OrderContract WITH
        verdict <- requests,
        fate <- [id \in DecisionIds |->
                   CASE broker[id].phase \in {"sent", "working"} -> "open"
                     [] broker[id].phase \in {"none", "filled"} -> broker[id].phase
                     [] OTHER -> IF broker[id].filled = 0 THEN "dead" ELSE "partial"]

ImplementsOrders == OrderBook!OrderSpec
=============================================================================
