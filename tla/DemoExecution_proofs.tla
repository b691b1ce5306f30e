------------------------- MODULE DemoExecution_proofs -------------------------
(***************************************************************************)
(* Theorems about demo execution, for every number of runners, agents and  *)
(* operators, every set of decisions and every bound on faults.            *)
(***************************************************************************)
EXTENDS DemoExecution, FiniteSetTheorems, WellFoundedInduction, TLAPS

-----------------------------------------------------------------------------
(* Types. *)

DemoSwitches == [stopped : BOOLEAN, reason : Reasons, reconciled : BOOLEAN]

\* The processes' control and memory, the part of the type every step writes.
ControlOK == pc \in [Processes -> Steps] /\ local \in [Processes -> Memories]

StoresOK ==
    /\ switch \in Switches
    /\ position \in Int
    /\ decisions \in [DecisionIds -> Results]
    /\ demo \in DemoSwitches
    /\ requests \in [DecisionIds -> Records]
    /\ broker \in Orders
    /\ submissions \in [DecisionIds -> Nat]
    /\ faults \in 0 .. MaxFaults
    /\ rebases \in 0 .. MaxRebases

\* TypeOK is the type of the control and that of the stores.
LEMMA TypeParts == TypeOK <=> ControlOK /\ StoresOK
BY DEF TypeOK, ControlOK, StoresOK, DemoSwitches

\* A process that remembers nothing has a well-typed memory.
LEMMA IdleType == Idle \in Memories
<1>1. NoOrders \in Orders
  BY DEF NoOrders, Orders, Phases
<1>2. "absent" \in Records /\ "operator" \in StopReasons
  BY DEF Records, StopReasons
<1> QED BY <1>1, <1>2 DEF Idle, Memories

\* Every step moves one process to a step with a memory of the right type.
LEMMA GoType ==
    ASSUME ControlOK, NEW p \in Processes, NEW step \in Steps, Go(p, step)
    PROVE  ControlOK'
BY DEF ControlOK, Go

\* A move to a step with a well-typed memory keeps the control typed.
LEMMA GoWithType ==
    ASSUME ControlOK, NEW p \in Processes, NEW step \in Steps,
           NEW memory \in Memories, GoWith(p, step, memory)
    PROVE  ControlOK'
BY DEF ControlOK, GoWith

\* The names of the steps, as members of Steps.
LEMMA StepNames ==
    /\ StartSteps \subseteq Steps
    /\ AdapterSteps \subseteq Steps
    /\ CoordinatorSteps \subseteq Steps
    /\ HaltSteps \subseteq Steps
    /\ {"off", "ready"} \subseteq Steps
BY DEF Steps

\* So do the ways out of a cycle.
LEMMA ExitType ==
    ASSUME ControlOK, NEW p \in Processes, Exit(p) \/ Ready(p)
    PROVE  ControlOK'
BY GoWithType, IdleType, StepNames DEF Exit, Ready

\* ... the way into a halt,
LEMMA HaltType ==
    ASSUME ControlOK, NEW p \in Processes, NEW reason \in StopReasons, Halt(p, reason)
    PROVE  ControlOK'
<1>1. [Idle EXCEPT !.why = reason] \in Memories
  BY IdleType DEF Memories
<1>2. "halt_paper" \in Steps
  BY DEF Steps, HaltSteps
<1> QED BY <1>1, <1>2, GoWithType DEF Halt

\* ... the handlers of a failure,
LEMMA FailType ==
    ASSUME ControlOK, NEW p \in Processes, FailCycle(p) \/ FailStart(p)
    PROVE  ControlOK'
<1>1. {"max_consecutive_failures", "startup_reconciliation_failed"} \subseteq StopReasons
  BY DEF StopReasons
<1>2. CASE FailStart(p)
  BY <1>1, <1>2, HaltType, ExitType DEF FailStart
<1>3. CASE FailCycle(p)
  <2> DEFINE fails == local[p].fails + 1
  <2>1. fails \in Nat
    BY DEF ControlOK, Memories
  <2>2. [Idle EXCEPT !.fails = fails] \in Memories
    BY <2>1, IdleType DEF Memories
  <2>3. "ready" \in Steps
    BY StepNames
  <2> QED BY <1>1, <1>3, <2>2, <2>3, HaltType, ExitType, GoWithType DEF FailCycle
<1> QED BY <1>2, <1>3

\* ... and the way back to the coordinator with the adapter's outcome.
LEMMA ConcludeType ==
    ASSUME ControlOK, NEW p \in Processes, NEW verdict \in Records, Conclude(p, verdict)
    PROVE  ControlOK'
<1>1. [local[p] EXCEPT !.verdict = verdict] \in Memories
  BY DEF ControlOK, Memories
<1>2. "audit" \in Steps
  BY DEF Steps, CoordinatorSteps
<1> QED BY <1>1, <1>2, GoWithType DEF Conclude

\* A well-typed memory stays so when one of its fields is replaced.
LEMMA MemoryTypes ==
    ASSUME ControlOK, NEW p \in Processes
    PROVE  /\ local[p] \in Memories
           /\ \A id \in DecisionIds : [local[p] EXCEPT !.id = id] \in Memories
           /\ \A why \in StopReasons : [local[p] EXCEPT !.why = why] \in Memories
           /\ \A verdict \in Records :
                 [local[p] EXCEPT !.verdict = verdict] \in Memories
           /\ \A seen \in Orders : [local[p] EXCEPT !.seen = seen] \in Memories
           /\ \A resume \in BOOLEAN : [Idle EXCEPT !.resume = resume] \in Memories
BY IdleType DEF ControlOK, Memories

\* What the switches and the stores become, in the few ways they change.
LEMMA StopDemoType ==
    ASSUME StoresOK, NEW reason \in StopReasons, StopDemo(reason),
           UNCHANGED exceptDemo
    PROVE  StoresOK'
BY DEF StoresOK, StopDemo, exceptDemo, paperVars, brokerSide, bounds, DemoSwitches,
       Reasons

\* A step that writes the paper switch only keeps the stores typed.
LEMMA SamePaperSwitch ==
    ASSUME StoresOK, NEW stopped \in BOOLEAN, NEW reason \in Reasons,
           SetKillSwitch(stopped, reason),
           UNCHANGED <<demo, requests, brokerSide, bounds>>
    PROVE  StoresOK'
BY DEF StoresOK, SetKillSwitch, brokerSide, bounds, Switches

\* A step that writes no store keeps the stores typed.
LEMMA SameStores ==
    ASSUME StoresOK, UNCHANGED stores
    PROVE  StoresOK'
BY DEF StoresOK, stores, exceptDemo, paperVars, brokerSide, bounds

\* The reasons the steps write are reasons.
LEMMA ReasonNames ==
    /\ {"reconciliation_failed", "broker_execution_failed", "transport_failure",
        "order_outcome_unknown", "broker_identity_collision", "operator"}
           \subseteq StopReasons
    /\ {"explicit_start", "unattended_start"} \subseteq Reasons
    /\ StopReasons \subseteq Reasons
BY DEF StopReasons, StartReasons, Reasons

\* The values a record may have.
LEMMA RecordNames == {"absent", "pending", "unknown", "accepted", "rejected"} = Records
BY DEF Records, Unresolved

\* The steps of a start keep the types.
LEMMA StartTypes ==
    ASSUME ControlOK, StoresOK, NEW p \in Processes, StartStep(p)
    PROVE  ControlOK' /\ StoresOK'
<1>1. /\ {"read_demo", "snapshot", "pending", "records", "exposure", "mark",
          "fail_reconcile", "start_demo", "read_paper", "resume_paper"} \subseteq Steps
      /\ Processes = Executors \cup Operators
  BY DEF Steps, StartSteps, Processes
<1>2. CASE ReadDemo(p)
  <2>1. [Idle EXCEPT !.resume = (RestartPolicy(demo) = "resume")] \in Memories
    BY MemoryTypes
  <2> QED BY <1>1, <1>2, <2>1, GoWithType, ExitType, SameStores DEF ReadDemo
<1>3. CASE TakeSnapshot(p)
  <2>1. [local[p] EXCEPT !.seen = broker] \in Memories
    BY MemoryTypes DEF StoresOK
  <2> QED BY <1>1, <1>3, <2>1, GoWithType, GoType, SameStores DEF TakeSnapshot
<1>4. CASE CheckPending(p) \/ CheckRecords(p) \/ CheckExposure(p)
  BY <1>1, <1>4, GoType, SameStores DEF CheckPending, CheckRecords, CheckExposure, Check
<1>5. CASE MarkReconciled(p)
  <2>1. StoresOK'
    BY <1>5 DEF MarkReconciled, StoresOK, exceptDemo, paperVars, brokerSide, bounds,
                DemoSwitches
  <2> QED BY <1>1, <1>5, <2>1, GoType DEF MarkReconciled
<1>6. CASE FailReconcile(p)
  BY <1>6, ReasonNames, FailType, StopDemoType DEF FailReconcile
<1>7. CASE StartDemo(p)
  <2>1. StoresOK'
    BY <1>7, ReasonNames
       DEF StartDemo, StoresOK, exceptDemo, paperVars, brokerSide, bounds, DemoSwitches
  <2> QED BY <1>1, <1>7, <2>1, GoType, ExitType, FailType DEF StartDemo
<1>8. CASE ReadPaper(p)
  BY <1>1, <1>8, GoType, ExitType, SameStores DEF ReadPaper
<1>9. CASE ResumePaper(p)
  BY <1>9, ReasonNames, ExitType, SamePaperSwitch DEF ResumePaper
<1> QED BY <1>2, <1>3, <1>4, <1>5, <1>6, <1>7, <1>8, <1>9 DEF StartStep

-----------------------------------------------------------------------------
(* The invariant of the orders.                                                *)

\* A process between the proposal and the end of its order has a decision.
CycleSteps == {"evaluate", "check_switch", "check_ids", "collide", "reserve",
               "send", "await", "stop_unknown", "finish"}
DecisionInHand ==
    \A p \in Processes : pc[p] \in CycleSteps => local[p].id \in DecisionIds

\* An order that was not reserved was not sent, and one that was not sent is
\* unknown to the broker.
SentIsReserved ==
    \A id \in DecisionIds :
        /\ requests[id] = "absent" => submissions[id] = 0
        /\ submissions[id] = 0 => broker[id] = [phase |-> "none", filled |-> 0]

\* Whoever is about to send an order is alone, and it was reserved and not sent.
OneSender ==
    /\ \A p \in Processes : pc[p] = "send" =>
          requests[local[p].id] # "absent" /\ submissions[local[p].id] = 0
    /\ \A p, q \in Processes :
          pc[p] = "send" /\ pc[q] = "send" /\ local[p].id = local[q].id => p = q

\* The broker's final phases say how much was filled.
PhasesTell ==
    \A id \in DecisionIds :
        /\ broker[id].phase = "filled" => broker[id].filled = Volume(id)
        /\ broker[id].phase \in {"sent", "rejected"} => broker[id].filled = 0

\* A verdict about to be recorded is true, and stays true while it waits.
VerdictInHand ==
    \A p \in Processes : pc[p] = "finish" =>
        /\ local[p].verdict \in {"accepted", "rejected", "unknown"}
        /\ local[p].verdict = "accepted" => broker[local[p].id].phase = "filled"
        /\ local[p].verdict = "rejected" => broker[local[p].id].phase = "rejected"

OrderInv ==
    /\ DecisionInHand
    /\ SentIsReserved
    /\ OneSender
    /\ PhasesTell
    /\ VerdictInHand
    /\ AtMostOnce
    /\ OutcomesTrue

ExecutionInv == ControlOK /\ StoresOK /\ OrderInv

-----------------------------------------------------------------------------
(* Steps that leave the orders alone.                                          *)

\* Only process p moves.
Moves(p) == \A q \in Processes \ {p} : pc'[q] = pc[q] /\ local'[q] = local[q]

\* A move of one process is no move of another.
LEMMA GoMoves ==
    ASSUME ControlOK, NEW p \in Processes, NEW step,
           Go(p, step) \/ \E memory : GoWith(p, step, memory)
    PROVE  Moves(p) /\ pc'[p] = step
BY DEF ControlOK, Go, GoWith, Moves

\* The ways a process leaves its cycle, or its start.
LEMMA LeavesCycle ==
    ASSUME ControlOK, NEW p \in Processes,
           \/ Exit(p) \/ Ready(p) \/ FailCycle(p) \/ FailStart(p)
           \/ \E reason \in StopReasons : Halt(p, reason)
           \/ \E verdict : Conclude(p, verdict)
    PROVE  Moves(p) /\ pc'[p] \notin CycleSteps
<1>1. \E step \in {"off", "ready", "halt_paper", "audit"} :
          \E memory : GoWith(p, step, memory)
  BY DEF Exit, Ready, FailCycle, FailStart, Halt, Conclude
<1> QED BY <1>1, GoMoves DEF CycleSteps

\* A step that neither touches the orders nor reaches "send" or "finish".
LEMMA NeutralStep ==
    ASSUME OrderInv, NEW p \in Processes, Moves(p),
           UNCHANGED <<requests, broker, submissions>>,
           pc'[p] \notin {"send", "finish"},
           pc'[p] \in CycleSteps => local'[p].id \in DecisionIds
    PROVE  OrderInv'
<1>1. DecisionInHand'
  BY DEF OrderInv, DecisionInHand, Moves
<1>2. OneSender'
  BY DEF OrderInv, OneSender, Moves
<1>3. VerdictInHand'
  BY DEF OrderInv, VerdictInHand, Moves
<1>4. (SentIsReserved /\ PhasesTell /\ AtMostOnce /\ OutcomesTrue)'
  BY DEF OrderInv, SentIsReserved, PhasesTell, AtMostOnce, OutcomesTrue
<1> QED BY <1>1, <1>2, <1>3, <1>4 DEF OrderInv

\* What a step leaves alone with the groups of variables it names.
LEMMA StoresParts ==
    /\ UNCHANGED stores => UNCHANGED exceptDemo
    /\ UNCHANGED exceptDemo => UNCHANGED <<requests, broker, submissions>>
    /\ UNCHANGED brokerSide => UNCHANGED <<broker, submissions>>
BY DEF stores, exceptDemo, brokerSide

\* The steps of a start leave the orders alone.
LEMMA StartOrders ==
    ASSUME ControlOK, OrderInv, NEW p \in Processes, StartStep(p) \/ Launch(p)
    PROVE  OrderInv'
<1>1. UNCHANGED <<requests, broker, submissions>>
  BY StoresParts
     DEF StartStep, Launch, ReadDemo, TakeSnapshot, CheckPending, CheckRecords,
         CheckExposure, Check, MarkReconciled, FailReconcile, StartDemo, ReadPaper,
         ResumePaper
<1>2. \/ Exit(p) \/ Ready(p) \/ FailStart(p)
      \/ \E step \in StartSteps :
            Go(p, step) \/ \E memory : GoWith(p, step, memory)
  BY DEF StartStep, Launch, ReadDemo, TakeSnapshot, CheckPending, CheckRecords,
         CheckExposure, Check, MarkReconciled, FailReconcile, StartDemo, ReadPaper,
         ResumePaper, StartSteps
<1>3. Moves(p) /\ pc'[p] \notin CycleSteps
  BY <1>2, GoMoves, LeavesCycle DEF StartSteps, CycleSteps
<1> QED BY <1>1, <1>3, NeutralStep DEF CycleSteps

-----------------------------------------------------------------------------
(* Cycle steps.                                                                *)

\* An evaluation keeps the stores typed.
LEMMA DecideType ==
    ASSUME StoresOK, NEW id \in DecisionIds,
           UNCHANGED paperVars \/ Accept(id) \/ Refuse(id),
           UNCHANGED <<demo, requests, brokerSide, bounds>>
    PROVE  StoresOK'
<1>1. Signed[id] \in Int
  BY ExecutionAssumption
<1> QED BY <1>1 DEF StoresOK, Accept, Refuse, paperVars, brokerSide, bounds, Results

\* A new record of a request keeps the stores typed.
LEMMA RecordType ==
    ASSUME StoresOK, NEW id \in DecisionIds, NEW verdict \in Records,
           requests' = [requests EXCEPT ![id] = verdict],
           UNCHANGED <<paperVars, demo, brokerSide, bounds>>
    PROVE  StoresOK'
BY DEF StoresOK, paperVars, brokerSide, bounds

\* The steps of a cycle keep the types.
LEMMA CycleTypes ==
    ASSUME ControlOK, StoresOK, OrderInv, NEW p \in Processes, CycleStep(p)
    PROVE  ControlOK' /\ StoresOK'
<1>1. CycleSteps \cup {"audit", "stop_paper", "stop_demo", "halt_paper", "halt_demo"}
          \subseteq Steps
  BY DEF Steps, CycleSteps, AdapterSteps, CoordinatorSteps, HaltSteps
<1>2. pc[p] \in CycleSteps => local[p].id \in DecisionIds
  BY DEF OrderInv, DecisionInHand
<1> USE RecordNames, ReasonNames
<1>3. CASE Evaluate(p)
  <2>1. StoresOK'
    <3>1. local[p].id \in DecisionIds
      BY <1>2, <1>3 DEF Evaluate, At, CycleSteps
    <3>2. /\ \/ UNCHANGED paperVars
             \/ Accept(local[p].id)
             \/ Refuse(local[p].id)
          /\ UNCHANGED <<demo, requests, brokerSide, bounds>>
      BY <1>3 DEF Evaluate
    <3> QED BY <3>1, <3>2, DecideType
  <2> QED BY <1>1, <1>3, <2>1, GoType, ExitType DEF Evaluate, CycleSteps
<1>4. CASE CheckSwitch(p) \/ CheckIds(p)
  BY <1>1, <1>4, GoType, ConcludeType, SameStores DEF CheckSwitch, CheckIds, CycleSteps
<1>5. CASE Collide(p)
  BY <1>5, ConcludeType, StopDemoType DEF Collide
<1>6. CASE Reserve(p)
  <2>1. local[p].id \in DecisionIds
    BY <1>2, <1>6 DEF Reserve, At, CycleSteps
  <2>2. CASE requests' = [requests EXCEPT ![local[p].id] = "pending"] /\ Go(p, "send")
    BY <1>1, <1>6, <2>1, <2>2, RecordType, GoType DEF Reserve, CycleSteps
  <2>3. CASE Conclude(p, requests[local[p].id]) /\ UNCHANGED requests
    <3>1. requests[local[p].id] \in Records
      BY <2>1 DEF StoresOK
    <3>2. StoresOK'
      BY <1>6, <2>3 DEF Reserve, StoresOK, paperVars, brokerSide, bounds
    <3> QED BY <2>3, <3>1, <3>2, ConcludeType
  <2> QED BY <1>6, <2>2, <2>3 DEF Reserve
<1>7. CASE Send(p)
  <2>1. local[p].id \in DecisionIds
    BY <1>2, <1>7 DEF Send, At, CycleSteps
  <2>2. "sent" \in Phases
    BY DEF Phases
  <2>3. StoresOK'
    <3>1. [broker EXCEPT ![local[p].id].phase = "sent"] \in Orders
      BY <2>1, <2>2 DEF StoresOK, Orders
    <3>2. [submissions EXCEPT ![local[p].id] = @ + 1] \in [DecisionIds -> Nat]
      BY <2>1 DEF StoresOK
    <3>3. broker' \in Orders /\ submissions' \in [DecisionIds -> Nat]
      BY <1>7, <3>1, <3>2 DEF Send, StoresOK, brokerSide
    <3> QED BY <1>7, <3>3 DEF Send, StoresOK, paperVars, bounds
  <2>4. ControlOK'
    BY <1>1, <1>7, MemoryTypes, GoType, GoWithType DEF Send, CycleSteps
  <2> QED BY <2>3, <2>4
<1>8. CASE HearOutcome(p)
  <2> DEFINE phase == broker[local[p].id].phase
             verdict == IF phase = "filled" THEN "accepted" ELSE phase
  <2>1. verdict \in Records
    BY <1>8 DEF HearOutcome
  <2>2. [local[p] EXCEPT !.verdict = verdict] \in Memories
    BY <2>1, MemoryTypes
  <2> QED BY <1>1, <1>8, <2>2, GoWithType, SameStores DEF HearOutcome, CycleSteps
<1>9. CASE GiveUp(p)
  BY <1>1, <1>9, MemoryTypes, GoWithType, SameStores DEF GiveUp, CycleSteps
<1>10. CASE StopUnknown(p)
  <2>1. local[p].why \in StopReasons
    BY MemoryTypes DEF Memories
  <2>2. [local[p] EXCEPT !.verdict = "unknown"] \in Memories
    BY MemoryTypes
  <2>3. StoresOK'
    BY <1>10, <2>1, StopDemoType DEF StopUnknown
  <2> QED BY <1>1, <1>10, <2>2, <2>3, GoWithType DEF StopUnknown, CycleSteps
<1>11. CASE Finish(p)
  <2>1. local[p].id \in DecisionIds /\ local[p].verdict \in Records
    BY <1>2, <1>11, MemoryTypes DEF Finish, At, CycleSteps, Memories
  <2> QED BY <1>1, <1>11, <2>1, RecordType, GoType DEF Finish
<1>12. CASE Audit(p)
  BY <1>1, <1>12, GoType, ExitType, SameStores DEF Audit
<1>13. CASE StopPaper(p)
  BY <1>1, <1>13, GoType, SamePaperSwitch DEF StopPaper
<1>14. CASE StopDemoToo(p)
  BY <1>14, HaltType, ExitType, StopDemoType DEF StopDemoToo
<1>15. CASE HaltPaper(p)
  <2>1. local[p].why \in Reasons
    BY MemoryTypes DEF Memories
  <2> QED BY <1>1, <1>15, <2>1, GoType, SamePaperSwitch DEF HaltPaper
<1>16. CASE HaltDemo(p)
  <2>1. local[p].why \in StopReasons
    BY MemoryTypes DEF Memories
  <2> QED BY <1>16, <2>1, ExitType, StopDemoType DEF HaltDemo
<1> QED
  BY <1>3, <1>4, <1>5, <1>6, <1>7, <1>8, <1>9, <1>10, <1>11, <1>12, <1>13, <1>14,
     <1>15, <1>16 DEF CycleStep

\* Steps of a cycle that leave the orders alone.
LEMMA QuietCycleOrders ==
    ASSUME ControlOK, OrderInv, NEW p \in Processes,
           \/ Evaluate(p) \/ CheckSwitch(p) \/ CheckIds(p) \/ Collide(p)
           \/ GiveUp(p) \/ Audit(p) \/ StopPaper(p) \/ StopDemoToo(p)
           \/ HaltPaper(p) \/ HaltDemo(p)
    PROVE  OrderInv'
<1>1. UNCHANGED <<requests, broker, submissions>>
  BY StoresParts
     DEF Evaluate, CheckSwitch, CheckIds, Collide, GiveUp, Audit, StopPaper,
         StopDemoToo, HaltPaper, HaltDemo
<1>2. pc[p] \in CycleSteps => local[p].id \in DecisionIds
  BY DEF OrderInv, DecisionInHand
<1>3. ASSUME \/ Evaluate(p) /\ Go(p, "check_switch")
             \/ CheckSwitch(p) /\ Go(p, "check_ids")
             \/ CheckIds(p)
             \/ GiveUp(p)
      PROVE  Moves(p) /\ pc'[p] \notin {"send", "finish"} /\ local'[p].id \in DecisionIds
  <2>1. local[p].id \in DecisionIds
    BY <1>2, <1>3 DEF Evaluate, CheckSwitch, CheckIds, GiveUp, At, CycleSteps
  <2>2. CASE GiveUp(p)
    <3> DEFINE memory == [local[p] EXCEPT !.why = "order_outcome_unknown"]
    <3>1. memory.id = local[p].id
      BY MemoryTypes DEF Memories
    <3>2. local'[p] = memory
      BY <2>2 DEF GiveUp, GoWith, ControlOK
    <3> QED BY <2>1, <2>2, <3>1, <3>2, GoMoves DEF GiveUp
  <2>3. CASE \E step \in {"check_switch", "check_ids", "collide", "reserve"} : Go(p, step)
    <3>1. local' = local
      BY <2>3 DEF Go
    <3> QED BY <2>1, <2>3, <3>1, GoMoves
  <2> QED BY <1>3, <2>2, <2>3 DEF CheckIds
<1>4. CASE \/ Evaluate(p) /\ Go(p, "check_switch")
           \/ CheckSwitch(p) /\ Go(p, "check_ids")
           \/ CheckIds(p)
           \/ GiveUp(p)
  BY <1>1, <1>3, <1>4, NeutralStep
<1>5. CASE \/ Exit(p) \/ Ready(p)
           \/ \E reason \in StopReasons : Halt(p, reason)
           \/ \E verdict : Conclude(p, verdict)
           \/ \E step \in {"stop_paper", "stop_demo", "halt_demo"} : Go(p, step)
  <2>1. Moves(p) /\ pc'[p] \notin CycleSteps
    BY <1>5, LeavesCycle, GoMoves DEF CycleSteps
  <2> QED BY <1>1, <2>1, NeutralStep DEF CycleSteps
<1> QED
  BY <1>4, <1>5, ReasonNames
     DEF Evaluate, CheckSwitch, CheckIds, Collide, GiveUp, Audit, StopPaper,
         StopDemoToo, HaltPaper, HaltDemo

\* A reservation is won by at most one process, for an order never sent.
LEMMA ReserveOrders ==
    ASSUME ControlOK, StoresOK, OrderInv, NEW p \in Processes, Reserve(p)
    PROVE  OrderInv'
<1> DEFINE id == local[p].id
<1>1. id \in DecisionIds
  BY DEF Reserve, At, OrderInv, DecisionInHand, CycleSteps
<1>2. UNCHANGED <<broker, submissions>>
  BY StoresParts DEF Reserve
<1>3. CASE requests[id] # "absent"
  <2>1. Moves(p) /\ pc'[p] \notin CycleSteps /\ UNCHANGED requests
    BY <1>3, LeavesCycle DEF Reserve
  <2> QED BY <1>2, <2>1, NeutralStep DEF CycleSteps
<1>4. CASE requests[id] = "absent"
  <2>1. /\ requests' = [requests EXCEPT ![id] = "pending"]
        /\ Go(p, "send")
    BY <1>4 DEF Reserve
  <2>2. /\ Moves(p) /\ pc'[p] = "send" /\ local' = local
        /\ \A q \in Processes \ {p} : pc'[q] = pc[q]
    BY <2>1, GoMoves DEF Go, Moves
  <2>3. /\ requests'[id] = "pending"
        /\ \A other \in DecisionIds \ {id} : requests'[other] = requests[other]
    BY <1>1, <2>1 DEF StoresOK
  <2>4. submissions[id] = 0
    BY <1>1, <1>4 DEF OrderInv, SentIsReserved
  <2>5. DecisionInHand'
    BY <1>1, <2>2 DEF OrderInv, DecisionInHand
  <2>6. SentIsReserved' /\ AtMostOnce' /\ PhasesTell'
    BY <1>2, <2>3 DEF OrderInv, SentIsReserved, AtMostOnce, PhasesTell
  <2>7. \A q \in Processes : pc[q] = "send" => local[q].id # id
    BY <1>4 DEF OrderInv, OneSender
  <2>8. OneSender'
    <3>1. \A q \in Processes \ {p} : pc[q] = "send" => local[q].id \in DecisionIds
      BY DEF OrderInv, DecisionInHand, CycleSteps
    <3> QED BY <1>2, <2>2, <2>3, <2>4, <2>7, <3>1 DEF OrderInv, OneSender
  <2>9. VerdictInHand'
    BY <1>2, <2>2 DEF OrderInv, VerdictInHand
  <2>10. OutcomesTrue'
    BY <1>2, <2>3 DEF OrderInv, OutcomesTrue
  <2> QED BY <2>5, <2>6, <2>8, <2>9, <2>10 DEF OrderInv
<1> QED BY <1>3, <1>4

\* Who sends holds the only reservation, so the order goes out for the first time.
LEMMA SendOrders ==
    ASSUME ControlOK, StoresOK, OrderInv, NEW p \in Processes, Send(p)
    PROVE  OrderInv'
<1> DEFINE id == local[p].id
<1>1. id \in DecisionIds
  BY DEF Send, At, OrderInv, DecisionInHand, CycleSteps
<1>2. UNCHANGED requests
  BY DEF Send
<1>3. submissions[id] = 0 /\ requests[id] # "absent"
  BY DEF Send, At, OrderInv, OneSender
<1>4. CASE /\ GoWith(p, "stop_unknown", [local[p] EXCEPT !.why = "transport_failure"])
           /\ UNCHANGED brokerSide
  <2>1. [local[p] EXCEPT !.why = "transport_failure"].id = id
    BY MemoryTypes DEF Memories
  <2>2. Moves(p) /\ pc'[p] = "stop_unknown" /\ local'[p].id = id
    BY <1>4, <2>1, GoMoves DEF GoWith, ControlOK
  <2> QED BY <1>1, <1>2, <1>4, <2>2, StoresParts, NeutralStep
<1>5. CASE /\ broker' = [broker EXCEPT ![id].phase = "sent"]
           /\ submissions' = [submissions EXCEPT ![id] = @ + 1]
           /\ Go(p, "await")
  <2>1. /\ Moves(p) /\ pc'[p] = "await" /\ local' = local
        /\ \A q \in Processes \ {p} : pc'[q] = pc[q]
    BY <1>5, GoMoves DEF Go, Moves
  <2>2. broker[id] = [phase |-> "none", filled |-> 0]
    BY <1>1, <1>3 DEF OrderInv, SentIsReserved
  <2>3. /\ broker'[id] = [phase |-> "sent", filled |-> 0]
        /\ \A other \in DecisionIds \ {id} : broker'[other] = broker[other]
    BY <1>1, <1>5, <2>2 DEF StoresOK, Orders
  <2>4. /\ submissions'[id] = 1
        /\ \A other \in DecisionIds \ {id} : submissions'[other] = submissions[other]
    BY <1>1, <1>3, <1>5 DEF StoresOK
  <2>5. DecisionInHand'
    BY <1>1, <2>1 DEF OrderInv, DecisionInHand
  <2>6. SentIsReserved' /\ AtMostOnce'
    BY <1>2, <1>3, <2>3, <2>4 DEF OrderInv, SentIsReserved, AtMostOnce
  <2>7. PhasesTell'
    BY <2>3 DEF OrderInv, PhasesTell
  <2>8. OneSender'
    <3>1. \A q \in Processes \ {p} : pc[q] = "send" =>
              local[q].id # id /\ local[q].id \in DecisionIds
      BY DEF Send, At, OrderInv, OneSender, DecisionInHand, CycleSteps
    <3> QED BY <1>2, <2>1, <2>4, <3>1 DEF OrderInv, OneSender
  <2>9. VerdictInHand'
    <3>1. \A q \in Processes : pc[q] = "finish" => local[q].id \in DecisionIds
      BY DEF OrderInv, DecisionInHand, CycleSteps
    <3> QED BY <2>1, <2>2, <2>3, <3>1 DEF OrderInv, VerdictInHand
  <2>10. OutcomesTrue'
    BY <1>2, <2>2, <2>3 DEF OrderInv, OutcomesTrue
  <2> QED BY <2>5, <2>6, <2>7, <2>8, <2>9, <2>10 DEF OrderInv
<1> QED BY <1>4, <1>5 DEF Send

\* A step that takes p to "finish" with a true verdict, and does nothing else.
LEMMA HearOrders ==
    ASSUME ControlOK, StoresOK, OrderInv, NEW p \in Processes, NEW verdict,
           pc[p] \in CycleSteps,
           GoWith(p, "finish", [local[p] EXCEPT !.verdict = verdict]),
           UNCHANGED <<requests, broker, submissions>>,
           \/ verdict = "unknown"
           \/ verdict = "accepted" /\ broker[local[p].id].phase = "filled"
           \/ verdict = "rejected" /\ broker[local[p].id].phase = "rejected"
    PROVE  OrderInv'
<1>1. local[p].id \in DecisionIds
  BY DEF OrderInv, DecisionInHand
<1>2. Moves(p) /\ pc'[p] = "finish"
  BY GoMoves
<1>3. local'[p].id = local[p].id /\ local'[p].verdict = verdict
  BY MemoryTypes DEF GoWith, ControlOK, Memories
<1>4. DecisionInHand'
  BY <1>1, <1>2, <1>3 DEF OrderInv, DecisionInHand, Moves
<1>5. OneSender'
  BY <1>2 DEF OrderInv, OneSender, Moves
<1>6. VerdictInHand'
  BY <1>2, <1>3 DEF OrderInv, VerdictInHand, Moves
<1>7. (SentIsReserved /\ PhasesTell /\ AtMostOnce /\ OutcomesTrue)'
  BY DEF OrderInv, SentIsReserved, PhasesTell, AtMostOnce, OutcomesTrue
<1> QED BY <1>4, <1>5, <1>6, <1>7 DEF OrderInv

\* What is recorded is the verdict the process holds, which is true.
LEMMA FinishOrders ==
    ASSUME ControlOK, StoresOK, OrderInv, NEW p \in Processes, Finish(p)
    PROVE  OrderInv'
<1> DEFINE id == local[p].id
<1>1. id \in DecisionIds
  BY DEF Finish, At, OrderInv, DecisionInHand, CycleSteps
<1>2. UNCHANGED <<broker, submissions>>
  BY StoresParts DEF Finish
<1>3. /\ Moves(p) /\ pc'[p] = "audit" /\ local' = local
      /\ \A q \in Processes \ {p} : pc'[q] = pc[q]
  BY GoMoves DEF Finish, Go, Moves
<1>4. /\ requests'[id] = local[p].verdict
      /\ \A other \in DecisionIds \ {id} : requests'[other] = requests[other]
  BY <1>1 DEF Finish, StoresOK
<1>5. /\ local[p].verdict \in {"accepted", "rejected", "unknown"}
      /\ local[p].verdict = "accepted" => broker[id].phase = "filled"
      /\ local[p].verdict = "rejected" => broker[id].phase = "rejected"
  BY DEF Finish, At, OrderInv, VerdictInHand
<1>6. DecisionInHand'
  BY <1>3 DEF OrderInv, DecisionInHand, CycleSteps
<1>7. SentIsReserved' /\ AtMostOnce' /\ PhasesTell'
  BY <1>2, <1>4, <1>5 DEF OrderInv, SentIsReserved, AtMostOnce, PhasesTell
<1>8. OneSender'
  <2>1. \A q \in Processes : pc[q] = "send" => local[q].id \in DecisionIds
    BY DEF OrderInv, DecisionInHand, CycleSteps
  <2> QED BY <1>2, <1>3, <1>4, <1>5, <2>1 DEF OrderInv, OneSender
<1>9. VerdictInHand'
  BY <1>2, <1>3 DEF OrderInv, VerdictInHand
<1>10. OutcomesTrue'
  <2>1. broker[id].phase = "filled" => broker[id] = [phase |-> "filled", filled |-> Volume(id)]
    BY <1>1 DEF OrderInv, PhasesTell, StoresOK, Orders
  <2>2. broker[id].phase = "rejected" => broker[id] = [phase |-> "rejected", filled |-> 0]
    BY <1>1 DEF OrderInv, PhasesTell, StoresOK, Orders
  <2> QED BY <1>2, <1>4, <1>5, <2>1, <2>2 DEF OrderInv, OutcomesTrue
<1> QED BY <1>6, <1>7, <1>8, <1>9, <1>10 DEF OrderInv

\* The steps of a cycle keep the invariant of the orders.
LEMMA CycleOrders ==
    ASSUME ControlOK, StoresOK, OrderInv, NEW p \in Processes, CycleStep(p)
    PROVE  OrderInv'
<1>1. CASE HearOutcome(p)
  BY <1>1, HearOrders, StoresParts DEF HearOutcome, At, CycleSteps
<1>2. CASE StopUnknown(p)
  BY <1>2, HearOrders, StoresParts DEF StopUnknown, At, CycleSteps
<1> QED
  BY <1>1, <1>2, QuietCycleOrders, ReserveOrders, SendOrders, FinishOrders DEF CycleStep

-----------------------------------------------------------------------------
(* The rest of the next-state relation.                                        *)

\* A failing access to a store keeps the invariant.
LEMMA FaultKeeps ==
    ASSUME ExecutionInv, NEW p \in Processes, StoreFault(p)
    PROVE  ExecutionInv'
<1>1. ControlOK /\ StoresOK /\ OrderInv
  BY DEF ExecutionInv
<1>2. StoresOK'
  BY <1>1, ExecutionAssumption DEF StoreFault, StoresOK, paperVars, brokerSide
<1>3. {"fail_reconcile", "halt_demo"} \subseteq Steps \ CycleSteps
  BY DEF Steps, StartSteps, HaltSteps, CycleSteps
<1>4. \/ Exit(p) \/ FailCycle(p) \/ FailStart(p) \/ Conclude(p, "absent")
      \/ \E step \in {"fail_reconcile", "halt_demo"} : Go(p, step)
  BY DEF StoreFault
<1>5. ControlOK'
  BY <1>1, <1>3, <1>4, RecordNames, GoType, ExitType, FailType, ConcludeType
<1>6. Moves(p) /\ pc'[p] \notin CycleSteps
  BY <1>1, <1>3, <1>4, GoMoves, LeavesCycle
<1>7. UNCHANGED <<requests, broker, submissions>>
  BY StoresParts DEF StoreFault
<1> QED BY <1>1, <1>2, <1>5, <1>6, <1>7, NeutralStep DEF ExecutionInv, CycleSteps

\* Launching, proposing nothing, proposing, and crashing.
LEMMA ControlKeeps ==
    ASSUME ExecutionInv, NEW p \in Processes,
           \/ Launch(p) \/ NoProposal(p) \/ Crash(p)
           \/ \E id \in DecisionIds : Propose(p, id)
    PROVE  ExecutionInv'
<1>1. ControlOK /\ StoresOK /\ OrderInv
  BY DEF ExecutionInv
<1>2. UNCHANGED stores
  BY DEF Launch, NoProposal, Crash, Propose
<1>3. StoresOK' /\ UNCHANGED <<requests, broker, submissions>>
  BY <1>1, <1>2, SameStores, StoresParts
<1>4. CASE Launch(p)
  <2>1. {"read_demo", "read_paper", "snapshot"} \subseteq Steps
    BY DEF Steps, StartSteps
  <2>2. ControlOK'
    BY <1>1, <1>4, <2>1, IdleType, GoWithType DEF Launch
  <2> QED BY <1>1, <1>3, <1>4, <2>2, StartOrders DEF ExecutionInv
<1>5. CASE NoProposal(p) \/ Crash(p)
  <2>1. Exit(p) \/ Ready(p) \/ FailCycle(p)
    BY <1>5 DEF NoProposal, Crash
  <2>2. ControlOK'
    BY <1>1, <2>1, ExitType, FailType
  <2>3. Moves(p) /\ pc'[p] \notin CycleSteps
    BY <1>1, <2>1, LeavesCycle
  <2> QED BY <1>1, <1>3, <2>2, <2>3, NeutralStep DEF ExecutionInv, CycleSteps
<1>6. ASSUME NEW id \in DecisionIds, Propose(p, id) PROVE ExecutionInv'
  <2> DEFINE memory == [local[p] EXCEPT !.id = id]
  <2>1. GoWith(p, "evaluate", memory)
    BY <1>6 DEF Propose
  <2>2. memory \in Memories /\ memory.id = id
    BY <1>1, MemoryTypes DEF Memories
  <2>3. "evaluate" \in Steps
    BY DEF Steps, CoordinatorSteps
  <2> HIDE DEF memory
  <2>4. ControlOK'
    BY <1>1, <2>1, <2>2, <2>3, GoWithType
  <2>5. Moves(p) /\ pc'[p] = "evaluate" /\ local'[p].id \in DecisionIds
    BY <1>1, <2>1, <2>2, GoMoves DEF GoWith, ControlOK
  <2> QED BY <1>1, <1>3, <2>4, <2>5, NeutralStep DEF ExecutionInv
<1> QED BY <1>4, <1>5, <1>6

\* A step of the environment that leaves the orders and the processes alone.
LEMMA OutsideStep ==
    ASSUME OrderInv, UNCHANGED <<requests, broker, submissions, pc, local>>
    PROVE  OrderInv'
BY DEF OrderInv, DecisionInHand, SentIsReserved, OneSender, PhasesTell, VerdictInHand,
       AtMostOnce, OutcomesTrue

\* The operator's commands, and steps of others, keep the invariant.
LEMMA OperatorKeeps ==
    ASSUME ExecutionInv, OperatePaper \/ Rebase \/ UNCHANGED vars
    PROVE  ExecutionInv'
<1>1. ControlOK /\ StoresOK /\ OrderInv
  BY DEF ExecutionInv
<1>2. UNCHANGED <<requests, broker, submissions, pc, local>>
  BY DEF OperatePaper, Rebase, vars, brokerSide
<1>3. ControlOK' /\ OrderInv'
  BY <1>1, <1>2, OutsideStep DEF ControlOK
<1>4. CASE OperatePaper
  BY <1>1, <1>3, <1>4, ReasonNames, SamePaperSwitch DEF OperatePaper, ExecutionInv
<1>5. CASE Rebase
  <2>1. NoDecisions \in [DecisionIds -> Results]
    BY DEF NoDecisions, Results
  <2>2. StoresOK'
    BY <1>1, <1>5, <2>1, ExecutionAssumption DEF Rebase, RebaseFlat, StoresOK, brokerSide
  <2> QED BY <1>3, <2>2 DEF ExecutionInv
<1>6. CASE UNCHANGED vars
  <2>1. StoresOK'
    BY <1>1, <1>6 DEF vars, paperVars, StoresOK
  <2> QED BY <1>3, <2>1 DEF ExecutionInv
<1> QED BY <1>4, <1>5, <1>6

\* The broker moves an order that is sent or working, and keeps its promises.
LEMMA BrokerKeeps ==
    ASSUME ExecutionInv, NEW id \in DecisionIds, BrokerMoves(id)
    PROVE  ExecutionInv'
<1>1. ControlOK /\ StoresOK /\ OrderInv
  BY DEF ExecutionInv
<1>2. broker \in Orders
  BY <1>1 DEF StoresOK
<1> DEFINE Moved == \E phase \in Phases, filled \in Nat :
                       /\ broker' = [broker EXCEPT ![id] = [phase |-> phase,
                                                            filled |-> filled]]
                       /\ phase = "filled" => filled = Volume(id)
                       /\ phase # "sent"
                       /\ phase = "rejected" => filled = 0
<1>3. broker[id].phase \in {"sent", "working"} /\ Moved
  <2>1. broker[id] \in [phase : Phases, filled : Nat]
    BY <1>2 DEF Orders
  <2>2. CASE FillSome(id)
    <3> DEFINE filled == broker[id].filled + 1
               phase == IF filled = Volume(id) THEN "filled" ELSE "working"
    <3>1. filled \in Nat /\ phase \in Phases
      BY <2>1 DEF Phases
    <3>2. broker' = [broker EXCEPT ![id] = [phase |-> phase, filled |-> filled]]
      BY <2>2 DEF FillSome
    <3>3. broker[id].phase = "working"
      BY <2>2 DEF FillSome
    <3> QED BY <3>1, <3>2, <3>3
  <2>3. ASSUME NEW phases, NEW next \in {"working", "lost", "rejected", "cancelled"},
               Become(id, phases, next), phases \subseteq {"sent", "working"},
               next = "rejected" => broker[id].filled = 0
        PROVE  broker[id].phase \in {"sent", "working"} /\ Moved
    <3>1. [broker EXCEPT ![id].phase = next]
            = [broker EXCEPT ![id] = [phase |-> next, filled |-> broker[id].filled]]
      <4>1. [broker[id] EXCEPT !.phase = next]
              = [phase |-> next, filled |-> broker[id].filled]
        BY <2>1
      <4> QED BY <4>1
    <3>2. next \in Phases /\ broker[id].filled \in Nat
      BY <2>1 DEF Phases
    <3> QED BY <2>3, <3>1, <3>2 DEF Become
  <2> QED BY <2>2, <2>3 DEF BrokerMoves
<1>4. PICK phase \in Phases, filled \in Nat :
          /\ broker' = [broker EXCEPT ![id] = [phase |-> phase, filled |-> filled]]
          /\ phase = "filled" => filled = Volume(id)
          /\ phase # "sent"
          /\ phase = "rejected" => filled = 0
  BY <1>3
<1>5. /\ broker'[id] = [phase |-> phase, filled |-> filled]
      /\ \A other \in DecisionIds \ {id} : broker'[other] = broker[other]
  BY <1>2, <1>4 DEF Orders
<1>6. UNCHANGED <<requests, submissions, pc, local>>
  BY DEF BrokerMoves
<1>7. StoresOK'
  <2>1. broker' \in Orders
    BY <1>2, <1>4 DEF Orders
  <2> QED BY <1>1, <2>1 DEF BrokerMoves, StoresOK, paperVars, bounds
<1>8. ControlOK' /\ DecisionInHand' /\ OneSender' /\ AtMostOnce'
  BY <1>1, <1>6 DEF ControlOK, OrderInv, DecisionInHand, OneSender, AtMostOnce
<1>9. SentIsReserved'
  BY <1>1, <1>3, <1>5, <1>6 DEF OrderInv, SentIsReserved
<1>10. PhasesTell'
  BY <1>1, <1>4, <1>5 DEF OrderInv, PhasesTell
<1>11. VerdictInHand'
  <2>1. \A q \in Processes : pc[q] = "finish" => local[q].id \in DecisionIds
    BY <1>1 DEF OrderInv, DecisionInHand, CycleSteps
  <2> QED BY <1>1, <1>3, <1>5, <1>6, <2>1 DEF OrderInv, VerdictInHand
<1>12. OutcomesTrue'
  BY <1>1, <1>3, <1>5, <1>6 DEF OrderInv, OutcomesTrue
<1> QED BY <1>7, <1>8, <1>9, <1>10, <1>11, <1>12 DEF ExecutionInv, OrderInv

-----------------------------------------------------------------------------
(* The theorems.                                                               *)

\* The invariant holds at the start.
LEMMA InitKeeps == Init => ExecutionInv
<1> SUFFICES ASSUME Init PROVE ExecutionInv
  OBVIOUS
<1>1. ControlOK
  BY IdleType, StepNames DEF Init, ControlOK
<1>2. StoresOK
  <2>1. FreshSwitch \in Switches /\ demo \in DemoSwitches
    BY DEF Init, FreshSwitch, Switches, DemoSwitches, Reasons, StopReasons
  <2>2. NoOrders \in Orders /\ NoDecisions \in [DecisionIds -> Results]
    BY DEF NoOrders, Orders, Phases, NoDecisions, Results
  <2> QED BY <2>1, <2>2, RecordNames, ExecutionAssumption
       DEF Init, ContractInit, StoresOK
<1>3. OrderInv
  BY DEF Init, OrderInv, NoOrders, CycleSteps, DecisionInHand, SentIsReserved,
         OneSender, PhasesTell, VerdictInHand, AtMostOnce, OutcomesTrue
<1> QED BY <1>1, <1>2, <1>3 DEF ExecutionInv

\* Every step keeps the invariant.
LEMMA NextKeeps == ExecutionInv /\ [Next]_vars => ExecutionInv'
<1> SUFFICES ASSUME ExecutionInv, [Next]_vars PROVE ExecutionInv'
  OBVIOUS
<1>1. ControlOK /\ StoresOK /\ OrderInv
  BY DEF ExecutionInv
<1>2. ASSUME NEW p \in Processes, StartStep(p) PROVE ExecutionInv'
  BY <1>1, <1>2, StartTypes, StartOrders DEF ExecutionInv
<1>3. ASSUME NEW p \in Processes, CycleStep(p) PROVE ExecutionInv'
  BY <1>1, <1>3, CycleTypes, CycleOrders DEF ExecutionInv
<1> QED
  BY <1>2, <1>3, ControlKeeps, FaultKeeps, OperatorKeeps, BrokerKeeps DEF Next

\* The invariant of demo execution holds in every reachable state.
THEOREM ExecutionSound == Spec => []ExecutionInv
<1> QED BY InitKeeps, NextKeeps, PTL DEF Spec

\* Every variable of demo execution keeps its type, for any number of processes.
THEOREM ExecutionTypeCorrect == Spec => []TypeOK
<1>1. ExecutionInv => TypeOK
  BY TypeParts DEF ExecutionInv
<1> QED BY <1>1, ExecutionSound, PTL

\* No order is submitted twice, however many processes propose it, and however
\* they crash, restart, fail and time out.
THEOREM SubmittedAtMostOnce == Spec => []AtMostOnce
<1>1. ExecutionInv => AtMostOnce
  BY DEF ExecutionInv, OrderInv
<1> QED BY <1>1, ExecutionSound, PTL

\* An order recorded as accepted is wholly filled at the broker, and one recorded
\* as rejected has no fill there.
THEOREM OutcomesAreTrue == Spec => []OutcomesTrue
<1>1. ExecutionInv => OutcomesTrue
  BY DEF ExecutionInv, OrderInv
<1> QED BY <1>1, ExecutionSound, PTL

\* Every order is submitted at most once and its record tells what became of it
\* (CTraderDemoExecutionAdapter.execute), for any number of executors.
THEOREM OrdersStayCertain == Spec => []OrdersAreCertain
<1> QED BY SubmittedAtMostOnce, OutcomesAreTrue, PTL DEF OrdersAreCertain

-----------------------------------------------------------------------------
(* The order contract.                                                         *)

\* Between its reservation and its record an order belongs to one process: that
\* its record is still pending when the outcome is written follows from it.
OwnerSteps == {"send", "await", "stop_unknown", "finish"}
OneOwner ==
    /\ \A p \in Processes :
          pc[p] \in OwnerSteps => requests[local[p].id] = "pending"
    /\ \A p, q \in Processes :
          pc[p] \in OwnerSteps /\ pc[q] \in OwnerSteps /\ local[p].id = local[q].id
              => p = q

\* A process owns no order it did not own before.
NoNewOwner(p) ==
    /\ Moves(p)
    /\ pc'[p] \in OwnerSteps => pc[p] \in OwnerSteps /\ local'[p].id = local[p].id

\* Nobody becomes an owner in a step that writes no record.
LEMMA OwnersStay ==
    ASSUME OneOwner, NEW p \in Processes, NoNewOwner(p), UNCHANGED requests
    PROVE  OneOwner'
BY DEF OneOwner, NoNewOwner, Moves

\* A step that leaves CycleSteps makes nobody an owner.
LEMMA LeaverOwnsNothing ==
    ASSUME NEW p \in Processes, Moves(p), pc'[p] \notin CycleSteps
    PROVE  NoNewOwner(p)
BY DEF NoNewOwner, OwnerSteps, CycleSteps

\* The id of a process stays with it when another field of its memory changes.
LEMMA KeepsId ==
    ASSUME ControlOK, NEW p \in Processes, NEW step, NEW memory,
           GoWith(p, step, memory), memory.id = local[p].id
    PROVE  Moves(p) /\ pc'[p] = step /\ local'[p].id = local[p].id
BY GoMoves DEF GoWith, ControlOK

\* What the broker's order of an id has become, as the contract sees it.
FateOf(order) ==
    CASE order.phase \in {"sent", "working"} -> "open"
      [] order.phase \in {"none", "filled"} -> order.phase
      [] OTHER -> IF order.filled = 0 THEN "dead" ELSE "partial"
Fate == [id \in DecisionIds |-> FateOf(broker[id])]

OrderStep == OrderBook!OrderNext \/ UNCHANGED OrderBook!orderVars

\* A step that touches neither the records nor the broker's orders is a stutter.
LEMMA SilentOrders ==
    ASSUME UNCHANGED <<requests, broker>>
    PROVE  OrderStep
BY DEF OrderStep, OrderBook!orderVars

\* Steps that are neither a reservation, a submission nor a record: no process
\* becomes an owner, and the orders do not change.
LEMMA QuietOwners ==
    ASSUME ExecutionInv, OneOwner, NEW p \in Processes,
           \/ Launch(p) \/ StartStep(p) \/ NoProposal(p) \/ Crash(p) \/ StoreFault(p)
           \/ \E id \in DecisionIds : Propose(p, id)
           \/ /\ CycleStep(p)
              /\ ~Reserve(p) /\ ~Send(p) /\ ~Finish(p)
    PROVE  OneOwner' /\ OrderStep
<1>1. ControlOK /\ StoresOK /\ OrderInv
  BY DEF ExecutionInv
<1>2. CASE Launch(p) \/ StartStep(p)
  <2>1. UNCHANGED <<requests, broker, submissions>>
    BY <1>2, StoresParts
       DEF StartStep, Launch, ReadDemo, TakeSnapshot, CheckPending, CheckRecords,
           CheckExposure, Check, MarkReconciled, FailReconcile, StartDemo, ReadPaper,
           ResumePaper
  <2>2. \/ Exit(p) \/ Ready(p) \/ FailStart(p)
        \/ \E step \in StartSteps :
              Go(p, step) \/ \E memory : GoWith(p, step, memory)
    BY <1>2
       DEF StartStep, Launch, ReadDemo, TakeSnapshot, CheckPending, CheckRecords,
           CheckExposure, Check, MarkReconciled, FailReconcile, StartDemo, ReadPaper,
           ResumePaper, StartSteps
  <2>3. Moves(p) /\ pc'[p] \notin CycleSteps
    BY <1>1, <2>2, GoMoves, LeavesCycle DEF StartSteps, CycleSteps
  <2> QED BY <2>1, <2>3, LeaverOwnsNothing, OwnersStay, SilentOrders
<1>3. CASE NoProposal(p) \/ Crash(p) \/ StoreFault(p)
  <2>1. UNCHANGED <<requests, broker, submissions>>
    BY <1>3, StoresParts DEF NoProposal, Crash, StoreFault
  <2>2. \/ Exit(p) \/ Ready(p) \/ FailCycle(p) \/ FailStart(p)
        \/ Conclude(p, "absent")
        \/ \E step \in {"fail_reconcile", "halt_demo"} : Go(p, step)
    BY <1>3 DEF NoProposal, Crash, StoreFault
  <2>3. Moves(p) /\ pc'[p] \notin CycleSteps
    BY <1>1, <2>2, GoMoves, LeavesCycle DEF CycleSteps
  <2> QED BY <2>1, <2>3, LeaverOwnsNothing, OwnersStay, SilentOrders
<1>4. ASSUME NEW id \in DecisionIds, Propose(p, id) PROVE OneOwner' /\ OrderStep
  <2>1. UNCHANGED <<requests, broker, submissions>>
    BY <1>4, StoresParts DEF Propose
  <2>2. Moves(p) /\ pc'[p] = "evaluate"
    BY <1>1, <1>4, GoMoves DEF Propose
  <2> QED BY <2>1, <2>2, OwnersStay, SilentOrders DEF NoNewOwner, OwnerSteps
<1>5. CASE \/ Evaluate(p) \/ CheckSwitch(p) \/ CheckIds(p) \/ Collide(p)
           \/ Audit(p) \/ StopPaper(p) \/ StopDemoToo(p) \/ HaltPaper(p) \/ HaltDemo(p)
  <2>1. UNCHANGED <<requests, broker, submissions>>
    BY <1>5, StoresParts
       DEF Evaluate, CheckSwitch, CheckIds, Collide, Audit, StopPaper, StopDemoToo,
           HaltPaper, HaltDemo
  <2>2. \/ Exit(p) \/ Ready(p)
        \/ \E reason \in StopReasons : Halt(p, reason)
        \/ \E verdict : Conclude(p, verdict)
        \/ \E step \in {"check_switch", "check_ids", "collide", "reserve",
                        "stop_paper", "stop_demo", "halt_demo"} : Go(p, step)
    BY <1>5, ReasonNames
       DEF Evaluate, CheckSwitch, CheckIds, Collide, Audit, StopPaper, StopDemoToo,
           HaltPaper, HaltDemo
  <2>3. Moves(p) /\ pc'[p] \notin OwnerSteps
    BY <1>1, <2>2, GoMoves, LeavesCycle DEF OwnerSteps, CycleSteps
  <2> QED BY <2>1, <2>3, OwnersStay, SilentOrders DEF NoNewOwner
<1>6. CASE GiveUp(p) \/ HearOutcome(p) \/ StopUnknown(p)
  <2>1. UNCHANGED <<requests, broker, submissions>>
    BY <1>6, StoresParts DEF GiveUp, HearOutcome, StopUnknown
  <2>2. pc[p] \in OwnerSteps
    BY <1>6 DEF GiveUp, HearOutcome, StopUnknown, At, OwnerSteps
  <2>3. \E step, memory : GoWith(p, step, memory) /\ memory.id = local[p].id
    <3>1. \A verdict, why : /\ [local[p] EXCEPT !.verdict = verdict].id = local[p].id
                            /\ [local[p] EXCEPT !.why = why].id = local[p].id
      BY <1>1, MemoryTypes DEF Memories
    <3> QED BY <1>6, <3>1 DEF GiveUp, HearOutcome, StopUnknown
  <2>4. Moves(p) /\ local'[p].id = local[p].id
    BY <1>1, <2>3, KeepsId
  <2> QED BY <2>1, <2>2, <2>4, OwnersStay, SilentOrders DEF NoNewOwner
<1> QED BY <1>2, <1>3, <1>4, <1>5, <1>6 DEF CycleStep

\* The reservation makes its winner the owner.
LEMMA ReserveOwner ==
    ASSUME ExecutionInv, OneOwner, NEW p \in Processes, Reserve(p)
    PROVE  OneOwner' /\ OrderStep
<1> DEFINE id == local[p].id
<1>1. ControlOK /\ StoresOK /\ OrderInv
  BY DEF ExecutionInv
<1>2. id \in DecisionIds
  BY <1>1 DEF Reserve, At, OrderInv, DecisionInHand, CycleSteps
<1>3. UNCHANGED broker
  BY StoresParts DEF Reserve
<1>4. CASE requests[id] # "absent"
  <2>1. Moves(p) /\ pc'[p] \notin CycleSteps /\ UNCHANGED requests
    BY <1>1, <1>4, LeavesCycle DEF Reserve
  <2> QED BY <1>3, <2>1, LeaverOwnsNothing, OwnersStay, SilentOrders
<1>5. CASE requests[id] = "absent"
  <2>1. requests' = [requests EXCEPT ![id] = "pending"] /\ Go(p, "send")
    BY <1>5 DEF Reserve
  <2>2. /\ pc'[p] = "send" /\ local' = local
        /\ \A q \in Processes \ {p} : pc'[q] = pc[q]
    BY <1>1, <2>1, GoMoves DEF Go, Moves
  <2>3. /\ requests'[id] = "pending"
        /\ \A other \in DecisionIds \ {id} : requests'[other] = requests[other]
    BY <1>1, <1>2, <2>1 DEF StoresOK
  <2>4. \A q \in Processes : pc[q] \in OwnerSteps =>
            local[q].id # id /\ local[q].id \in DecisionIds
    BY <1>1, <1>5 DEF OneOwner, OrderInv, DecisionInHand, OwnerSteps, CycleSteps
  <2>5. OneOwner'
    BY <2>2, <2>3, <2>4 DEF OneOwner
  <2>6. OrderBook!Reserve(id)
    BY <1>3, <1>5, <2>1 DEF OrderBook!Reserve
  <2> QED BY <1>2, <2>5, <2>6 DEF OrderStep, OrderBook!OrderNext
<1> QED BY <1>4, <1>5

\* The owner submits an order that was never sent.
LEMMA SendOwner ==
    ASSUME ExecutionInv, OneOwner, NEW p \in Processes, Send(p)
    PROVE  OneOwner' /\ OrderStep
<1> DEFINE id == local[p].id
<1>1. ControlOK /\ StoresOK /\ OrderInv
  BY DEF ExecutionInv
<1>2. id \in DecisionIds /\ pc[p] \in OwnerSteps
  BY <1>1 DEF Send, At, OrderInv, DecisionInHand, CycleSteps, OwnerSteps
<1>3. UNCHANGED requests
  BY DEF Send
<1>4. OneOwner'
  <2>1. [local[p] EXCEPT !.why = "transport_failure"].id = id
    BY <1>1, MemoryTypes DEF Memories
  <2>2. Moves(p) /\ local'[p].id = id
    <3>1. CASE Go(p, "await")
      BY <1>1, <3>1, GoMoves DEF Go
    <3>2. CASE GoWith(p, "stop_unknown", [local[p] EXCEPT !.why = "transport_failure"])
      BY <1>1, <2>1, <3>2, KeepsId
    <3> QED BY <3>1, <3>2 DEF Send
  <2> QED BY <1>2, <1>3, <2>2, OwnersStay DEF NoNewOwner
<1>5. CASE UNCHANGED brokerSide
  BY <1>3, <1>4, <1>5, StoresParts, SilentOrders
<1>6. CASE broker' = [broker EXCEPT ![id].phase = "sent"]
  <2>1. requests[id] = "pending" /\ submissions[id] = 0
    BY <1>1, <1>2 DEF Send, At, OneOwner, OrderInv, OneSender
  <2>2. broker[id].phase = "none"
    BY <1>1, <1>2, <2>1 DEF OrderInv, SentIsReserved
  <2>3. /\ broker'[id].phase = "sent"
        /\ \A other \in DecisionIds \ {id} : broker'[other] = broker[other]
    BY <1>1, <1>2, <1>6 DEF StoresOK, Orders
  <2>4. Fate[id] = "none" /\ Fate' = [Fate EXCEPT ![id] = "open"]
    BY <1>2, <2>2, <2>3 DEF Fate, FateOf
  <2>5. \E other \in DecisionIds : OrderBook!Submit(other)
    BY <1>2, <1>3, <2>1, <2>4 DEF OrderBook!Submit, Fate, FateOf
  <2> QED BY <1>4, <2>5 DEF OrderStep, OrderBook!OrderNext
<1> QED BY <1>5, <1>6 DEF Send

\* What the owner records is the fate of the order, or that it is not known.
LEMMA FinishOwner ==
    ASSUME ExecutionInv, OneOwner, NEW p \in Processes, Finish(p)
    PROVE  OneOwner' /\ OrderStep
<1> DEFINE id == local[p].id
           verdict == local[p].verdict
<1>1. ControlOK /\ StoresOK /\ OrderInv
  BY DEF ExecutionInv
<1>2. id \in DecisionIds /\ pc[p] \in OwnerSteps /\ requests[id] = "pending"
  BY <1>1 DEF Finish, At, OrderInv, DecisionInHand, CycleSteps, OwnerSteps, OneOwner
<1>3. requests' = [requests EXCEPT ![id] = verdict] /\ UNCHANGED broker
  BY StoresParts DEF Finish
<1>4. OneOwner'
  <2>1. /\ pc'[p] = "audit" /\ local' = local
        /\ \A q \in Processes \ {p} : pc'[q] = pc[q]
    BY <1>1, GoMoves DEF Finish, Go, Moves
  <2>2. \A other \in DecisionIds \ {id} : requests'[other] = requests[other]
    BY <1>1, <1>2, <1>3 DEF StoresOK
  <2>3. \A q \in Processes \ {p} : pc[q] \in OwnerSteps =>
            local[q].id # id /\ local[q].id \in DecisionIds
    BY <1>1, <1>2 DEF OneOwner, OrderInv, DecisionInHand, OwnerSteps, CycleSteps
  <2> QED BY <2>1, <2>2, <2>3 DEF OneOwner, OwnerSteps
<1>5. /\ verdict \in {"accepted", "rejected", "unknown"}
      /\ verdict = "accepted" => broker[id].phase = "filled"
      /\ verdict = "rejected" => broker[id].phase = "rejected"
  BY <1>1 DEF Finish, At, OrderInv, VerdictInHand
<1>6. CASE verdict = "accepted"
  <2>1. Fate[id] = "filled"
    BY <1>2, <1>5, <1>6 DEF Fate, FateOf
  <2>2. OrderBook!RecordAccepted(id)
    BY <1>2, <1>3, <1>6, <2>1 DEF OrderBook!RecordAccepted, Fate, FateOf
  <2> QED BY <1>2, <1>4, <2>2 DEF OrderStep, OrderBook!OrderNext
<1>7. CASE verdict = "rejected"
  <2>1. broker[id].phase = "rejected" /\ broker[id].filled = 0
    BY <1>1, <1>2, <1>5, <1>7 DEF OrderInv, PhasesTell
  <2>2. Fate[id] = "dead"
    BY <1>2, <2>1 DEF Fate, FateOf
  <2>3. OrderBook!RecordRejected(id)
    BY <1>2, <1>3, <1>7, <2>2 DEF OrderBook!RecordRejected, Fate, FateOf
  <2> QED BY <1>2, <1>4, <2>3 DEF OrderStep, OrderBook!OrderNext
<1>8. CASE verdict = "unknown"
  <2>1. OrderBook!RecordUnknown(id)
    BY <1>2, <1>3, <1>8 DEF OrderBook!RecordUnknown
  <2> QED BY <1>2, <1>4, <2>1 DEF OrderStep, OrderBook!OrderNext
<1> QED BY <1>5, <1>6, <1>7, <1>8

\* The broker closes an open order, or moves it while it stays open.
LEMMA BrokerOwner ==
    ASSUME ExecutionInv, OneOwner, NEW id \in DecisionIds, BrokerMoves(id)
    PROVE  OneOwner' /\ OrderStep
<1>1. broker \in Orders
  BY DEF ExecutionInv, StoresOK
<1>2. UNCHANGED <<requests, pc, local>>
  BY DEF BrokerMoves
<1>3. OneOwner'
  BY <1>2 DEF OneOwner
<1>4. /\ broker[id].phase \in {"sent", "working"}
      /\ broker'[id].phase \in {"working", "lost", "filled", "rejected", "cancelled"}
      /\ \A other \in DecisionIds \ {id} : broker'[other] = broker[other]
  <2>1. CASE FillSome(id)
    BY <1>1, <2>1 DEF FillSome, Orders
  <2>2. ASSUME NEW phases \in SUBSET {"sent", "working"},
               NEW next \in {"working", "lost", "rejected", "cancelled"},
               Become(id, phases, next)
        PROVE  /\ broker[id].phase \in {"sent", "working"}
               /\ broker'[id].phase = next
               /\ \A other \in DecisionIds \ {id} : broker'[other] = broker[other]
    BY <1>1, <2>2 DEF Become, Orders
  <2> QED BY <2>1, <2>2 DEF BrokerMoves
<1>5. Fate[id] = "open"
  BY <1>4 DEF Fate, FateOf
<1>6. CASE broker'[id].phase = "working"
  <2>1. Fate' = Fate
    BY <1>4, <1>6 DEF Fate, FateOf
  <2> QED BY <1>2, <1>3, <2>1 DEF OrderStep, OrderBook!orderVars, Fate, FateOf
<1>7. CASE broker'[id].phase # "working"
  <2> DEFINE outcome == FateOf(broker'[id])
  <2>1. outcome \in {"filled", "partial", "dead"}
    BY <1>4, <1>7 DEF FateOf
  <2>2. Fate' = [Fate EXCEPT ![id] = outcome]
    BY <1>4 DEF Fate
  <2> HIDE DEF outcome
  <2>3. \E other \in DecisionIds, to \in {"filled", "partial", "dead"} :
           OrderBook!Close(other, to)
    BY <1>2, <1>5, <2>1, <2>2 DEF OrderBook!Close, Fate, FateOf
  <2> QED BY <1>3, <2>3 DEF OrderStep, OrderBook!OrderNext
<1> QED BY <1>6, <1>7

\* Every step keeps the owners and is one of the contract's.
LEMMA NextOrder == ExecutionInv /\ OneOwner /\ [Next]_vars => OneOwner' /\ OrderStep
<1> SUFFICES ASSUME ExecutionInv, OneOwner, [Next]_vars PROVE OneOwner' /\ OrderStep
  OBVIOUS
<1>1. CASE OperatePaper \/ Rebase \/ UNCHANGED vars
  <2>1. UNCHANGED <<requests, broker, pc, local>>
    BY <1>1 DEF OperatePaper, Rebase, vars, brokerSide
  <2> QED BY <2>1, SilentOrders DEF OneOwner
<1> QED
  BY <1>1, QuietOwners, ReserveOwner, SendOwner, FinishOwner, BrokerOwner
     DEF Next

\* The records and the broker's orders keep the order contract, for any number of
\* runners, agents and operators: an order is submitted once, while its record is
\* pending, and a record is made once, of what became of it
\* (CTraderDemoExecutionAdapter.execute).
THEOREM ExecutionImplementsOrders == Spec => ImplementsOrders
<1>1. Init => OneOwner
  BY DEF Init, OneOwner, OwnerSteps
<1>2. Init => OrderBook!OrderInit
  BY DEF Init, NoOrders, OrderBook!OrderInit
<1>3. ExecutionInv /\ OneOwner /\ [Next]_vars
          => OneOwner' /\ [OrderBook!OrderNext]_(OrderBook!orderVars)
  BY NextOrder DEF OrderStep
<1> QED BY <1>1, <1>2, <1>3, ExecutionSound, PTL
     DEF Spec, ImplementsOrders, OrderBook!OrderSpec

-----------------------------------------------------------------------------
(* Sums over the decisions.                                                    *)

\* A non-empty set of naturals has a least element.
LEMMA LeastExists ==
    ASSUME NEW S \in SUBSET Nat, S # {}
    PROVE  \E n \in S : \A m \in S : n <= m
<1> DEFINE R == OpToRel(<, Nat)
<1>1. PICK n \in S : \A m \in S : <<m, n>> \notin R
  <2>1. IsWellFoundedOn(R, Nat)
    BY NatLessThanWellFounded
  <2> HIDE DEF R
  <2> QED BY <2>1, WFMin
<1>2. \A m \in S : ~(m < n)
  BY <1>1 DEF OpToRel
<1>3. \A m \in S : m \in Int
  OBVIOUS
<1> QED BY <1>2, <1>3

\* How many decisions there are.
Size == Cardinality(DecisionIds)

\* The running totals of the amounts of the first decisions of the listing.
Runs(totals, amount, upto) ==
    /\ totals \in [0 .. upto -> Int]
    /\ totals[0] = 0
    /\ \A n \in 1 .. upto : totals[n] = totals[n - 1] + amount[Listing[n]]

\* The listing has every decision in one place.
LEMMA ListingLists ==
    ASSUME IsFiniteSet(DecisionIds)
    PROVE  /\ Size \in Nat
           /\ Listing \in [1 .. Size -> DecisionIds]
           /\ \A id \in DecisionIds : \E n \in 1 .. Size : Listing[n] = id
           /\ \A m, n \in 1 .. Size : Listing[m] = Listing[n] => m = n
<1>1. Size \in Nat
  BY FS_CardinalityType DEF Size
<1>2. \E list \in [1 .. Size -> DecisionIds] :
         \A id \in DecisionIds : \E n \in DOMAIN list : list[n] = id
  <2>1. ExistsBijection(1 .. Size, DecisionIds)
    BY FS_CardinalityType DEF Size
  <2> QED BY <2>1 DEF ExistsBijection, Bijection, Surjection
<1>3. /\ Listing \in [1 .. Size -> DecisionIds]
      /\ \A id \in DecisionIds : \E n \in 1 .. Size : Listing[n] = id
  BY <1>2 DEF Listing, Size
<1>4. \A m, n \in 1 .. Size : Listing[m] = Listing[n] => m = n
  <2>1. IsFiniteSet(1 .. Size) /\ Cardinality(1 .. Size) = Size
    BY <1>1, FS_Interval
  <2>2. Listing \in Surjection(1 .. Size, DecisionIds)
    BY <1>3 DEF Surjection
  <2>3. Listing \in Injection(1 .. Size, DecisionIds)
    BY <2>1, <2>2, FS_SurjSameCardinalityImpliesInj DEF Size
  <2> QED BY <2>3 DEF Injection, IsInjective
<1> QED BY <1>1, <1>3, <1>4

\* Running totals exist, for as many decisions as there are.
LEMMA RunsExist ==
    ASSUME IsFiniteSet(DecisionIds), NEW amount \in [DecisionIds -> Int]
    PROVE  \E totals : Runs(totals, amount, Size)
<1> DEFINE Bad == {m \in 0 .. Size : ~ \E totals : Runs(totals, amount, m)}
<1>1. ASSUME Bad # {} PROVE FALSE
  <2>1. PICK m \in Bad : \A n \in Bad : m <= n
    <3>1. Bad \subseteq Nat
      BY ListingLists
    <3> QED BY <1>1, <3>1, LeastExists
  <2>2. m \in 0 .. Size /\ Size \in Nat
    BY ListingLists
  <2>3. CASE m = 0
    <3>1. Runs([n \in 0 .. 0 |-> 0], amount, 0)
      BY DEF Runs
    <3> QED BY <2>3, <3>1
  <2>4. CASE m # 0
    <3>1. PICK totals : Runs(totals, amount, m - 1)
      BY <2>1, <2>2, <2>4
    <3> DEFINE next == [n \in 0 .. m |-> IF n = m THEN totals[m - 1] + amount[Listing[m]]
                                         ELSE totals[n]]
    <3>2. amount[Listing[m]] \in Int
      BY <2>2, <2>4, ListingLists
    <3>3. Runs(next, amount, m)
      BY <2>2, <2>4, <3>1, <3>2 DEF Runs
    <3> QED BY <3>3
  <2> QED BY <2>3, <2>4
<1>2. Size \in 0 .. Size
  BY ListingLists
<1> QED BY <1>1, <1>2

\* The total is the last of the running totals.
LEMMA TotalIsLast ==
    ASSUME IsFiniteSet(DecisionIds), NEW amount \in [DecisionIds -> Int],
           NEW totals, Runs(totals, amount, Size)
    PROVE  Total(amount) = totals[Size] /\ Total(amount) \in Int
<1> DEFINE Rule(f) == [n \in 0 .. Size |-> IF n = 0 THEN 0
                                           ELSE f[n - 1] + amount[Listing[n]]]
           chosen == CHOOSE f : f = Rule(f)
<1>1. Size \in Nat
  BY ListingLists
<1>2. totals = Rule(totals)
  BY <1>1 DEF Runs
<1>3. chosen = Rule(chosen)
  BY <1>2
<1>4. Total(amount) = chosen[Size]
  BY DEF Total, Size
<1> DEFINE Bad == {n \in 0 .. Size : chosen[n] # totals[n]}
<1>5. ASSUME Bad # {} PROVE FALSE
  <2>1. PICK m \in Bad : \A n \in Bad : m <= n
    <3>1. Bad \subseteq Nat
      BY <1>1
    <3> QED BY <1>5, <3>1, LeastExists
  <2>2. m # 0
    BY <1>1, <1>2, <1>3
  <2>3. chosen[m - 1] = totals[m - 1]
    BY <1>1, <2>1, <2>2
  <2>4. chosen[m] = chosen[m - 1] + amount[Listing[m]]
    BY <1>1, <1>3, <2>2
  <2>5. totals[m] = totals[m - 1] + amount[Listing[m]]
    BY <1>1, <2>2 DEF Runs
  <2> QED BY <2>3, <2>4, <2>5
<1>6. Size \in 0 .. Size /\ totals[Size] \in Int
  BY <1>1 DEF Runs
<1>7. chosen[Size] = totals[Size]
  BY <1>5, <1>6
<1> QED BY <1>4, <1>6, <1>7

\* One amount that changes moves the total by the difference.
LEMMA TotalMoves ==
    ASSUME IsFiniteSet(DecisionIds), NEW amount \in [DecisionIds -> Int],
           NEW id \in DecisionIds, NEW x \in Int
    PROVE  /\ Total(amount) \in Int
           /\ Total([amount EXCEPT ![id] = x]) = Total(amount) - amount[id] + x
<1>1. PICK totals : Runs(totals, amount, Size)
  BY RunsExist
<1>2. PICK k \in 1 .. Size : Listing[k] = id
  BY ListingLists
<1> DEFINE changed == [amount EXCEPT ![id] = x]
           moved == [n \in 0 .. Size |-> IF n < k THEN totals[n]
                                         ELSE totals[n] - amount[id] + x]
<1>3. /\ Size \in Nat /\ changed \in [DecisionIds -> Int]
      /\ \A n \in 1 .. Size : Listing[n] \in DecisionIds
      /\ \A n \in 1 .. Size : n # k => changed[Listing[n]] = amount[Listing[n]]
      /\ changed[Listing[k]] = x
  BY <1>2, ListingLists
<1>4. moved \in [0 .. Size -> Int] /\ moved[0] = 0
  BY <1>1, <1>2, <1>3 DEF Runs
<1>5. ASSUME NEW n \in 1 .. Size
      PROVE  moved[n] = moved[n - 1] + changed[Listing[n]]
  <2>1. /\ totals[n] = totals[n - 1] + amount[Listing[n]]
        /\ totals[n] \in Int /\ totals[n - 1] \in Int
        /\ amount[Listing[n]] \in Int /\ amount[id] \in Int
    BY <1>1, <1>3 DEF Runs
  <2>2. moved[n] = (IF n < k THEN totals[n] ELSE totals[n] - amount[id] + x)
        /\ moved[n - 1] = (IF n - 1 < k THEN totals[n - 1]
                           ELSE totals[n - 1] - amount[id] + x)
    BY <1>3
  <2> HIDE DEF moved, changed
  <2>3. CASE n = k
    BY <1>2, <1>3, <2>1, <2>2, <2>3
  <2>4. CASE n # k
    BY <1>2, <1>3, <2>1, <2>2, <2>4
  <2> QED BY <2>3, <2>4
<1>6. Runs(moved, changed, Size)
  BY <1>4, <1>5 DEF Runs
<1>7. Total(changed) = moved[Size] /\ Total(amount) = totals[Size]
  BY <1>1, <1>3, <1>6, TotalIsLast
<1>8. moved[Size] = totals[Size] - amount[id] + x /\ totals[Size] \in Int
  BY <1>1, <1>2, <1>3 DEF Runs
<1> QED BY <1>7, <1>8

\* Nothing adds up to nothing.
LEMMA TotalOfNothing ==
    ASSUME IsFiniteSet(DecisionIds)
    PROVE  Total([id \in DecisionIds |-> 0]) = 0
<1> DEFINE none == [id \in DecisionIds |-> 0]
           zeros == [n \in 0 .. Size |-> 0]
<1>1. Runs(zeros, none, Size)
  BY ListingLists DEF Runs
<1>2. Total(none) = zeros[Size] /\ Size \in Nat
  BY <1>1, TotalIsLast, ListingLists
<1> QED BY <1>2

-----------------------------------------------------------------------------
(* What a process may hold at a step of its own.                               *)

\* Where a process goes, and what it remembers when it arrives.
LEMMA Lands ==
    ASSUME ControlOK, NEW p \in Processes, NEW step, NEW memory
    PROVE  /\ Go(p, step) => pc'[p] = step /\ local'[p] = local[p]
           /\ GoWith(p, step, memory) => pc'[p] = step /\ local'[p] = memory
BY DEF ControlOK, Go, GoWith

\* The fields of a memory that a step leaves alone.
LEMMA Remembers ==
    ASSUME ControlOK, NEW p \in Processes, NEW x
    PROVE  /\ [local[p] EXCEPT !.verdict = x]
                 = [id |-> local[p].id, verdict |-> x, seen |-> local[p].seen,
                    resume |-> local[p].resume, why |-> local[p].why,
                    fails |-> local[p].fails]
           /\ [local[p] EXCEPT !.why = x]
                 = [id |-> local[p].id, verdict |-> local[p].verdict,
                    seen |-> local[p].seen, resume |-> local[p].resume, why |-> x,
                    fails |-> local[p].fails]
           /\ [local[p] EXCEPT !.id = x]
                 = [id |-> x, verdict |-> local[p].verdict, seen |-> local[p].seen,
                    resume |-> local[p].resume, why |-> local[p].why,
                    fails |-> local[p].fails]
           /\ [local[p] EXCEPT !.seen = x]
                 = [id |-> local[p].id, verdict |-> local[p].verdict, seen |-> x,
                    resume |-> local[p].resume, why |-> local[p].why,
                    fails |-> local[p].fails]
BY DEF ControlOK, Memories

\* The reason a process holds never lets an unattended restart resume, and one
\* that starts demo unattended has found the switch fresh.
ReasonInHand ==
    \A p \in Processes :
        /\ local[p].why \notin KILL_SWITCH_AUTO_RESUME
        /\ pc[p] = "start_demo" => p \in Operators \/ local[p].resume

\* A process that is mirroring a decision has paper's acceptance of it.
AcceptedInHand ==
    \A p \in Processes :
        pc[p] \in AdapterSteps => decisions[local[p].id] = "accepted"

\* An operator never leaves the steps of a start.
OperatorsOnlyStart ==
    \A p \in Operators :
        pc[p] \in {"off", "snapshot", "pending", "records", "exposure", "mark",
                   "fail_reconcile", "start_demo"}

\* An agent trades without a reconciliation.
ReconcileSteps == StartSteps \ {"read_paper", "resume_paper"}
AgentsOnlyTrade == \A p \in Agents : pc[p] \notin ReconcileSteps

HandInv == ReasonInHand /\ AcceptedInHand /\ OperatorsOnlyStart /\ AgentsOnlyTrade

\* The ways a process leaves what it is doing, seen from its memory.
LEMMA Leaving ==
    ASSUME ControlOK, ReasonInHand, NEW p \in Processes
    PROVE  /\ Exit(p) => pc'[p] = "off" /\ local'[p] = Idle
           /\ Ready(p) => pc'[p] = "ready" /\ local'[p] = Idle
           /\ \A reason : Halt(p, reason)
                 => /\ pc'[p] = "halt_paper"
                    /\ local'[p].why = reason /\ ~local'[p].resume
           /\ \A verdict : Conclude(p, verdict)
                 => /\ pc'[p] = "audit"
                    /\ local'[p] = [local[p] EXCEPT !.verdict = verdict]
           /\ FailStart(p)
                 => /\ pc'[p] \in {"off", "halt_paper"}
                    /\ p \notin Runners => pc'[p] = "off"
                    /\ local'[p].why \notin KILL_SWITCH_AUTO_RESUME
                    /\ ~local'[p].resume
           /\ FailCycle(p)
                 => /\ pc'[p] \in {"ready", "halt_paper"}
                    /\ local'[p].why \notin KILL_SWITCH_AUTO_RESUME
                    /\ ~local'[p].resume
<1> DEFINE Quiet(memory) ==
               memory.why \notin KILL_SWITCH_AUTO_RESUME /\ ~memory.resume
<1>1. Quiet(Idle) /\ \A n : Quiet([Idle EXCEPT !.fails = n])
  BY DEF Idle, KILL_SWITCH_AUTO_RESUME
<1>2. \A reason : [Idle EXCEPT !.why = reason].why = reason
                  /\ ~[Idle EXCEPT !.why = reason].resume
  BY DEF Idle
<1>3. ASSUME NEW step, NEW memory, GoWith(p, step, memory)
      PROVE  pc'[p] = step /\ local'[p] = memory
  BY <1>3, Lands
<1>4. /\ Exit(p) => pc'[p] = "off" /\ local'[p] = Idle
      /\ Ready(p) => pc'[p] = "ready" /\ local'[p] = Idle
  BY <1>3 DEF Exit, Ready
<1>5. ASSUME NEW reason, Halt(p, reason)
      PROVE  pc'[p] = "halt_paper" /\ local'[p].why = reason /\ ~local'[p].resume
  <2> DEFINE memory == [Idle EXCEPT !.why = reason]
  <2>1. memory.why = reason /\ ~memory.resume
    BY <1>2
  <2>2. GoWith(p, "halt_paper", memory)
    BY <1>5 DEF Halt
  <2> HIDE DEF memory
  <2> QED BY <1>3, <2>1, <2>2
<1>6. \A verdict : Conclude(p, verdict)
                    => /\ pc'[p] = "audit"
                       /\ local'[p] = [local[p] EXCEPT !.verdict = verdict]
  BY <1>3 DEF Conclude
<1>7. FailStart(p) => /\ pc'[p] \in {"off", "halt_paper"}
                      /\ p \notin Runners => pc'[p] = "off"
                      /\ Quiet(local'[p])
  BY <1>1, <1>4, <1>5 DEF FailStart, KILL_SWITCH_AUTO_RESUME
<1>8. FailCycle(p) => pc'[p] \in {"ready", "halt_paper"} /\ Quiet(local'[p])
  <2> DEFINE fails == local[p].fails + 1
  <2>1. CASE Ready(p)
    BY <1>1, <1>4, <2>1
  <2>2. CASE GoWith(p, "ready", [Idle EXCEPT !.fails = fails])
    BY <1>1, <1>3, <2>2
  <2>3. CASE Halt(p, "max_consecutive_failures")
    BY <1>5, <2>3 DEF KILL_SWITCH_AUTO_RESUME
  <2> QED BY <2>1, <2>2, <2>3 DEF FailCycle
<1> QED BY <1>4, <1>5, <1>6, <1>7, <1>8

\* The steps of a start keep what is in hand.
LEMMA StartHands ==
    ASSUME ExecutionInv, HandInv, NEW p \in Processes, StartStep(p)
    PROVE  HandInv'
<1>1. ControlOK /\ ReasonInHand
  BY DEF ExecutionInv, HandInv
<1>2. local[p].why \notin KILL_SWITCH_AUTO_RESUME
  BY <1>1 DEF ReasonInHand
<1>3. UNCHANGED decisions
  BY DEF StartStep, ReadDemo, TakeSnapshot, CheckPending, CheckRecords, CheckExposure,
         Check, MarkReconciled, FailReconcile, StartDemo, ReadPaper, ResumePaper,
         SetKillSwitch, stores, exceptDemo, paperVars
<1>4. Moves(p)
  <2>1. \/ Exit(p) \/ Ready(p) \/ FailStart(p)
        \/ \E step \in StartSteps :
              Go(p, step) \/ \E memory : GoWith(p, step, memory)
    BY DEF StartStep, ReadDemo, TakeSnapshot, CheckPending, CheckRecords,
           CheckExposure, Check, MarkReconciled, FailReconcile, StartDemo, ReadPaper,
           ResumePaper, StartSteps
  <2> QED BY <1>1, <2>1, GoMoves, LeavesCycle
<1> DEFINE Next_p == /\ local'[p].why \notin KILL_SWITCH_AUTO_RESUME
                     /\ pc'[p] = "start_demo" => p \in Operators \/ local'[p].resume
                     /\ pc'[p] \notin AdapterSteps
                     /\ p \in Operators =>
                           pc'[p] \in {"off", "snapshot", "pending", "records",
                                       "exposure", "mark", "fail_reconcile",
                                       "start_demo"}
<1>5. p \in Agents => pc'[p] \notin ReconcileSteps
  <2>1. CASE ReadPaper(p) \/ ResumePaper(p)
    <3>1. Exit(p) \/ Ready(p) \/ Go(p, "resume_paper")
      BY <2>1 DEF ReadPaper, ResumePaper
    <3>2. pc'[p] \in {"off", "ready", "resume_paper"}
      BY <1>1, <3>1, Leaving, Lands
    <3> QED BY <3>2 DEF ReconcileSteps, StartSteps
  <2>2. CASE ~ReadPaper(p) /\ ~ResumePaper(p)
    <3>1. pc[p] \in ReconcileSteps
      BY <2>2
         DEF StartStep, ReadDemo, TakeSnapshot, CheckPending, CheckRecords,
             CheckExposure, Check, MarkReconciled, FailReconcile, StartDemo, At,
             ReconcileSteps, StartSteps
    <3> QED BY <3>1 DEF HandInv, AgentsOnlyTrade
  <2> QED BY <2>1, <2>2
<1>6. Next_p
  <2>1. /\ Idle.why \notin KILL_SWITCH_AUTO_RESUME
        /\ \A x : [Idle EXCEPT !.resume = x].why \notin KILL_SWITCH_AUTO_RESUME
        /\ [local[p] EXCEPT !.seen = broker].why \notin KILL_SWITCH_AUTO_RESUME
    BY <1>1, <1>2, Remembers DEF Idle, KILL_SWITCH_AUTO_RESUME
  <2>2. p \in Operators => p \notin Runners
    BY ExecutionAssumption DEF Executors
  <2>3. ASSUME NEW step, Go(p, step) PROVE pc'[p] = step /\ local'[p] = local[p]
    BY <1>1, <2>3, Lands
  <2>4. ASSUME NEW step, NEW memory, GoWith(p, step, memory)
        PROVE  pc'[p] = step /\ local'[p] = memory
    BY <1>1, <2>4, Lands
  <2>5. p \in Operators =>
           pc[p] \in {"snapshot", "pending", "records", "exposure", "mark",
                      "fail_reconcile", "start_demo"}
    BY DEF HandInv, OperatorsOnlyStart, StartStep, ReadDemo, TakeSnapshot,
           CheckPending, CheckRecords, CheckExposure, Check, MarkReconciled,
           FailReconcile, StartDemo, ReadPaper, ResumePaper, At
  <2>6. CASE ReadDemo(p)
    <3> DEFINE memory == [Idle EXCEPT !.resume = (RestartPolicy(demo) = "resume")]
    <3>1. memory.why \notin KILL_SWITCH_AUTO_RESUME
      BY <2>1
    <3>2. At(p, "read_demo") /\ (Exit(p) \/ GoWith(p, "snapshot", memory))
      BY <2>6 DEF ReadDemo
    <3> HIDE DEF memory
    <3>3. CASE GoWith(p, "snapshot", memory)
      BY <2>4, <3>1, <3>3 DEF AdapterSteps
    <3>4. CASE Exit(p)
      BY <1>1, <2>1, <3>4, Leaving DEF AdapterSteps
    <3> QED BY <3>2, <3>3, <3>4
  <2>7. CASE TakeSnapshot(p)
    <3> DEFINE memory == [local[p] EXCEPT !.seen = broker]
    <3>1. memory.why \notin KILL_SWITCH_AUTO_RESUME
      BY <2>1
    <3>2. Go(p, "fail_reconcile") \/ GoWith(p, "pending", memory)
      BY <2>7 DEF TakeSnapshot
    <3> HIDE DEF memory
    <3>3. CASE GoWith(p, "pending", memory)
      BY <2>4, <3>1, <3>3 DEF AdapterSteps
    <3>4. CASE Go(p, "fail_reconcile")
      BY <1>2, <2>3, <3>4 DEF AdapterSteps
    <3> QED BY <3>2, <3>3, <3>4
  <2>8. CASE CheckPending(p) \/ CheckRecords(p) \/ CheckExposure(p)
    BY <1>2, <2>3, <2>8 DEF CheckPending, CheckRecords, CheckExposure, Check,
                            AdapterSteps
  <2>9. CASE MarkReconciled(p)
    BY <1>2, <2>3, <2>9 DEF MarkReconciled, AdapterSteps
  <2>10. CASE FailReconcile(p)
    BY <1>1, <2>2, <2>10, Leaving DEF FailReconcile, AdapterSteps
  <2>11. CASE StartDemo(p)
    BY <1>1, <1>2, <2>1, <2>2, <2>3, <2>11, Leaving DEF StartDemo, AdapterSteps
  <2>12. CASE ReadPaper(p) \/ ResumePaper(p)
    <3>1. p \notin Operators
      BY <2>5, <2>12 DEF ReadPaper, ResumePaper, At
    <3>2. Exit(p) \/ Ready(p) \/ Go(p, "resume_paper")
      BY <2>12 DEF ReadPaper, ResumePaper
    <3>3. CASE Exit(p) \/ Ready(p)
      BY <1>1, <2>1, <3>1, <3>3, Leaving DEF AdapterSteps
    <3>4. CASE Go(p, "resume_paper")
      BY <1>2, <2>3, <3>1, <3>4 DEF AdapterSteps
    <3> QED BY <3>2, <3>3, <3>4
  <2> QED BY <2>6, <2>7, <2>8, <2>9, <2>10, <2>11, <2>12 DEF StartStep
<1>7. AgentsOnlyTrade'
  BY <1>4, <1>5 DEF HandInv, AgentsOnlyTrade, Moves, Processes, Executors
<1> QED
  BY <1>3, <1>4, <1>6, <1>7
     DEF HandInv, ReasonInHand, AcceptedInHand, OperatorsOnlyStart, Moves, Processes
\* An evaluation leaves every acceptance standing.
LEMMA AcceptanceStands ==
    ASSUME StoresOK, NEW id \in DecisionIds,
           \/ decisions[id] # "none" /\ UNCHANGED paperVars
           \/ Accept(id)
           \/ Refuse(id)
    PROVE  /\ \A other \in DecisionIds \ {id} : decisions'[other] = decisions[other]
           /\ decisions[id] # "none" => UNCHANGED <<decisions, position>>
           /\ decisions'[id] # "accepted" => decisions[id] # "accepted" /\ UNCHANGED position
           /\ decisions[id] = "none" /\ decisions'[id] = "accepted"
                 => position' = position + Signed[id]
BY DEF StoresOK, Accept, Refuse, paperVars

\* The steps of a cycle keep what is in hand.
LEMMA CycleHands ==
    ASSUME ExecutionInv, HandInv, NEW p \in Processes, CycleStep(p)
    PROVE  HandInv'
<1>1. ControlOK /\ StoresOK /\ OrderInv /\ ReasonInHand
  BY DEF ExecutionInv, HandInv
<1>2. /\ local[p].why \notin KILL_SWITCH_AUTO_RESUME
      /\ pc[p] \in AdapterSteps => decisions[local[p].id] = "accepted"
      /\ pc[p] \in CycleSteps => local[p].id \in DecisionIds
  BY <1>1 DEF HandInv, ReasonInHand, AcceptedInHand, OrderInv, DecisionInHand
<1>3. p \notin Operators
  BY DEF HandInv, OperatorsOnlyStart, CycleStep, Evaluate, CheckSwitch, CheckIds,
         Collide, Reserve, Send, HearOutcome, GiveUp, StopUnknown, Finish, Audit,
         StopPaper, StopDemoToo, HaltPaper, HaltDemo, At
<1> USE DEF StartSteps
<1> DEFINE Lawful == /\ local'[p].why \notin KILL_SWITCH_AUTO_RESUME
                     /\ pc'[p] \notin StartSteps
                     /\ pc'[p] \in AdapterSteps =>
                           /\ local'[p].id = local[p].id
                           /\ decisions'[local[p].id] = "accepted"
<1>4. ASSUME NEW step, Go(p, step) PROVE pc'[p] = step /\ local'[p] = local[p]
  BY <1>1, <1>4, Lands
<1>5. ASSUME NEW step, NEW memory, GoWith(p, step, memory)
      PROVE  pc'[p] = step /\ local'[p] = memory
  BY <1>1, <1>5, Lands
<1>6. CASE Evaluate(p)
  <2>1. local[p].id \in DecisionIds
    BY <1>2, <1>6 DEF Evaluate, At, CycleSteps
  <2>2. \A id \in DecisionIds : decisions[id] = "accepted" => decisions'[id] = "accepted"
    BY <1>1, <1>6, <2>1, AcceptanceStands DEF Evaluate
  <2>3. Moves(p) /\ Lawful
    <3>1. CASE decisions'[local[p].id] = "accepted" /\ Go(p, "check_switch")
      BY <1>1, <1>2, <1>4, <3>1, GoMoves DEF AdapterSteps
    <3>2. CASE Ready(p)
      BY <1>1, <3>2, Leaving, LeavesCycle DEF Idle, KILL_SWITCH_AUTO_RESUME, AdapterSteps
    <3> QED BY <1>6, <3>1, <3>2 DEF Evaluate
  <2>4. \A q \in Processes : pc[q] \in AdapterSteps => local[q].id \in DecisionIds
    BY <1>1 DEF OrderInv, DecisionInHand, AdapterSteps, CycleSteps
  <2> QED BY <1>3, <2>2, <2>3, <2>4
       DEF HandInv, ReasonInHand, AcceptedInHand, OperatorsOnlyStart, AgentsOnlyTrade,
            ReconcileSteps, StartSteps, Moves, Processes, Executors
<1>7. CASE ~Evaluate(p)
  <2>1. UNCHANGED decisions
    BY <1>7
       DEF CycleStep, CheckSwitch, CheckIds, Collide, Reserve, Send, HearOutcome,
           GiveUp, StopUnknown, Finish, Audit, StopPaper, StopDemoToo, HaltPaper,
           HaltDemo, SetKillSwitch, stores, exceptDemo, paperVars
  <2> DEFINE Told == \E step \in AdapterSteps : \E x :
                        \/ GoWith(p, step, [local[p] EXCEPT !.verdict = x])
                        \/ /\ x \notin KILL_SWITCH_AUTO_RESUME
                           /\ GoWith(p, step, [local[p] EXCEPT !.why = x])
  <2>2. \/ \E step \in AdapterSteps : Go(p, step) /\ pc[p] \in AdapterSteps
        \/ Told /\ pc[p] \in AdapterSteps
        \/ Exit(p) \/ Ready(p)
        \/ \E reason \in StopReasons \ KILL_SWITCH_AUTO_RESUME : Halt(p, reason)
        \/ \E verdict : Conclude(p, verdict)
        \/ \E step \in {"audit", "stop_paper", "stop_demo", "halt_demo"} : Go(p, step)
    <3>1. CASE CheckSwitch(p) \/ CheckIds(p) \/ Collide(p) \/ Reserve(p)
      BY <3>1 DEF CheckSwitch, CheckIds, Collide, Reserve, At, AdapterSteps
    <3>2. CASE Send(p) \/ GiveUp(p)
      BY <3>2 DEF Send, GiveUp, At, AdapterSteps, KILL_SWITCH_AUTO_RESUME
    <3>3. CASE HearOutcome(p) \/ StopUnknown(p) \/ Finish(p)
      BY <3>3 DEF HearOutcome, StopUnknown, Finish, At, AdapterSteps
    <3>4. CASE \/ Audit(p) \/ StopPaper(p) \/ StopDemoToo(p) \/ HaltPaper(p)
               \/ HaltDemo(p)
      BY <3>4, ReasonNames DEF Audit, StopPaper, StopDemoToo, HaltPaper, HaltDemo,
                               KILL_SWITCH_AUTO_RESUME
    <3> QED BY <1>7, <3>1, <3>2, <3>3, <3>4 DEF CycleStep
  <2>3. Moves(p) /\ Lawful
    <3>1. CASE \E step \in AdapterSteps : Go(p, step) /\ pc[p] \in AdapterSteps
      BY <1>1, <1>2, <1>4, <2>1, <3>1, GoMoves DEF AdapterSteps
    <3>2. CASE Told /\ pc[p] \in AdapterSteps
      <4>1. PICK step, memory :
               /\ step \in AdapterSteps
               /\ GoWith(p, step, memory)
               /\ memory.id = local[p].id /\ memory.why \notin KILL_SWITCH_AUTO_RESUME
        <5>1. \A x : /\ [local[p] EXCEPT !.verdict = x].id = local[p].id
                     /\ [local[p] EXCEPT !.verdict = x].why = local[p].why
                     /\ [local[p] EXCEPT !.why = x].id = local[p].id
                     /\ [local[p] EXCEPT !.why = x].why = x
          BY <1>1, Remembers
        <5>2. PICK step, x :
                 /\ step \in AdapterSteps
                 /\ \/ GoWith(p, step, [local[p] EXCEPT !.verdict = x])
                    \/ /\ x \notin KILL_SWITCH_AUTO_RESUME
                       /\ GoWith(p, step, [local[p] EXCEPT !.why = x])
          BY <3>2
        <5> DEFINE ruled == [local[p] EXCEPT !.verdict = x]
                   blamed == [local[p] EXCEPT !.why = x]
        <5>3. /\ ruled.id = local[p].id /\ ruled.why = local[p].why
              /\ blamed.id = local[p].id /\ blamed.why = x
          BY <5>1
        <5>4. \/ GoWith(p, step, ruled)
              \/ x \notin KILL_SWITCH_AUTO_RESUME /\ GoWith(p, step, blamed)
          BY <5>2
        <5> HIDE DEF ruled, blamed
        <5> QED BY <1>2, <5>2, <5>3, <5>4
      <4> QED BY <1>1, <1>2, <1>5, <2>1, <3>2, <4>1, GoMoves DEF AdapterSteps
    <3>3. CASE Exit(p) \/ Ready(p)
      BY <1>1, <3>3, Leaving, LeavesCycle DEF Idle, KILL_SWITCH_AUTO_RESUME, AdapterSteps
    <3>4. CASE \E reason \in StopReasons \ KILL_SWITCH_AUTO_RESUME : Halt(p, reason)
      BY <1>1, <3>4, Leaving, LeavesCycle DEF AdapterSteps
    <3>5. ASSUME NEW verdict, Conclude(p, verdict) PROVE Moves(p) /\ Lawful
      <4>1. [local[p] EXCEPT !.verdict = verdict].why = local[p].why
        BY <1>1, Remembers
      <4> QED BY <1>1, <1>2, <3>5, <4>1, Leaving, LeavesCycle DEF AdapterSteps
    <3>6. CASE \E step \in {"audit", "stop_paper", "stop_demo", "halt_demo"} : Go(p, step)
      BY <1>1, <1>2, <1>4, <3>6, GoMoves DEF AdapterSteps
    <3> QED BY <2>2, <3>1, <3>2, <3>3, <3>4, <3>5, <3>6
  <2> QED BY <1>3, <2>1, <2>3
       DEF HandInv, ReasonInHand, AcceptedInHand, OperatorsOnlyStart, AgentsOnlyTrade,
            ReconcileSteps, StartSteps, Moves, Processes, Executors
<1> QED BY <1>6, <1>7

\* Launching, proposing, finding nothing, crashing, and a failing access.
LEMMA ControlHands ==
    ASSUME ExecutionInv, HandInv, NEW p \in Processes,
           \/ Launch(p) \/ NoProposal(p) \/ Crash(p) \/ StoreFault(p)
           \/ \E id \in DecisionIds : Propose(p, id)
    PROVE  HandInv'
<1>1. ControlOK /\ StoresOK /\ ReasonInHand
  BY DEF ExecutionInv, HandInv
<1>2. local[p].why \notin KILL_SWITCH_AUTO_RESUME
  BY <1>1 DEF ReasonInHand
<1>3. UNCHANGED decisions
  BY DEF Launch, NoProposal, Crash, StoreFault, Propose, stores, exceptDemo, paperVars
<1>4. (p \in Operators => p \notin Executors) /\ (p \in Agents => p \notin Runners)
  BY ExecutionAssumption
<1> USE DEF ReconcileSteps, StartSteps
<1> DEFINE Lawful == /\ local'[p].why \notin KILL_SWITCH_AUTO_RESUME
                     /\ pc'[p] # "start_demo"
                     /\ pc'[p] \notin AdapterSteps
                     /\ p \in Operators =>
                           pc'[p] \in {"off", "snapshot", "fail_reconcile"}
                     /\ p \in Agents => pc'[p] \notin ReconcileSteps
<1> SUFFICES Moves(p) /\ Lawful
  BY <1>3
     DEF HandInv, ReasonInHand, AcceptedInHand, OperatorsOnlyStart, AgentsOnlyTrade,
         Moves, Processes, Executors
<1>5. Idle.why \notin KILL_SWITCH_AUTO_RESUME
  BY DEF Idle, KILL_SWITCH_AUTO_RESUME
<1>6. ASSUME NEW step, Go(p, step)
      PROVE  Moves(p) /\ pc'[p] = step /\ local'[p] = local[p]
  BY <1>1, <1>6, Lands, GoMoves
<1>7. ASSUME NEW step, NEW memory, GoWith(p, step, memory)
      PROVE  Moves(p) /\ pc'[p] = step /\ local'[p] = memory
  BY <1>1, <1>7, Lands, GoMoves
<1>8. CASE Launch(p)
  BY <1>4, <1>5, <1>7, <1>8 DEF Launch, AdapterSteps, Executors
<1>9. CASE NoProposal(p)
  <2>1. p \in Runners /\ (Ready(p) \/ FailCycle(p))
    BY <1>9 DEF NoProposal
  <2> QED BY <1>1, <1>4, <1>5, <2>1, Leaving, LeavesCycle DEF AdapterSteps, Executors
<1>10. CASE Crash(p)
  BY <1>1, <1>5, <1>10, Leaving, LeavesCycle DEF Crash, AdapterSteps
<1>11. CASE StoreFault(p)
  <2>1. p \in Operators =>
           pc[p] \in {"off", "snapshot", "pending", "records", "exposure", "mark",
                      "fail_reconcile", "start_demo"}
    BY DEF HandInv, OperatorsOnlyStart
  <2>2. CASE pc[p] \in AdapterSteps \ {"send", "await"} /\ Conclude(p, "absent")
    <3>1. [local[p] EXCEPT !.verdict = "absent"].why = local[p].why
      BY <1>1, Remembers
    <3>2. p \notin Operators
      BY <2>1, <2>2 DEF AdapterSteps
    <3> QED BY <1>1, <1>2, <2>2, <3>1, <3>2, Leaving, LeavesCycle DEF AdapterSteps
  <2>3. CASE pc[p] \in CoordinatorSteps /\ FailCycle(p)
    <3>1. p \notin Operators
      BY <2>1, <2>3 DEF CoordinatorSteps
    <3> QED BY <1>1, <2>3, <3>1, Leaving, LeavesCycle DEF AdapterSteps
  <2>4. CASE At(p, "halt_paper") /\ Go(p, "halt_demo")
    BY <1>2, <1>6, <2>1, <2>4 DEF At, AdapterSteps
  <2>5. CASE Exit(p)
    BY <1>1, <1>5, <2>5, Leaving, LeavesCycle DEF AdapterSteps
  <2>6. CASE /\ pc[p] \in {"pending", "records", "exposure", "mark"}
             /\ Go(p, "fail_reconcile")
    BY <1>2, <1>6, <2>6 DEF AdapterSteps, HandInv, AgentsOnlyTrade
  <2>7. CASE FailStart(p)
    BY <1>1, <1>4, <2>7, Leaving, LeavesCycle DEF AdapterSteps, Executors
  <2> QED BY <1>11, <2>2, <2>3, <2>4, <2>5, <2>6, <2>7 DEF StoreFault
<1>12. ASSUME NEW id \in DecisionIds, Propose(p, id) PROVE Moves(p) /\ Lawful
  <2> DEFINE memory == [local[p] EXCEPT !.id = id]
  <2>1. memory.why = local[p].why
    BY <1>1, Remembers
  <2>2. GoWith(p, "evaluate", memory) /\ p \in Executors
    BY <1>12 DEF Propose
  <2> HIDE DEF memory
  <2> QED BY <1>2, <1>4, <1>7, <2>1, <2>2 DEF AdapterSteps
<1> QED BY <1>8, <1>9, <1>10, <1>11, <1>12

\* The operator's commands, the broker and the start of the system.
LEMMA OutsideHands ==
    ASSUME ExecutionInv, HandInv,
           \/ OperatePaper \/ Rebase \/ UNCHANGED vars
           \/ \E id \in DecisionIds : BrokerMoves(id)
    PROVE  HandInv'
<1>1. UNCHANGED <<pc, local>>
  BY DEF OperatePaper, Rebase, vars, BrokerMoves
<1>2. CASE Rebase
  <2>1. \A p \in Processes : pc[p] = "off"
    BY <1>2 DEF Rebase, At
  <2> QED BY <1>1, <2>1
       DEF HandInv, ReasonInHand, AcceptedInHand, OperatorsOnlyStart, AdapterSteps,
           AgentsOnlyTrade, ReconcileSteps, StartSteps
<1>3. CASE ~Rebase
  <2>1. UNCHANGED decisions
    BY <1>3 DEF OperatePaper, vars, BrokerMoves, SetKillSwitch, paperVars
  <2> QED BY <1>1, <2>1 DEF HandInv, ReasonInHand, AcceptedInHand, OperatorsOnlyStart,
                        AgentsOnlyTrade
<1> QED BY <1>2, <1>3

\* At the start nobody holds anything.
LEMMA InitHands == Init => HandInv
BY DEF Init, Idle, HandInv, ReasonInHand, AcceptedInHand, OperatorsOnlyStart,
       AgentsOnlyTrade, ReconcileSteps, StartSteps, AdapterSteps,
       KILL_SWITCH_AUTO_RESUME, Processes, Executors

\* Every step keeps what is in hand.
LEMMA NextHands == ExecutionInv /\ HandInv /\ [Next]_vars => HandInv'
BY StartHands, CycleHands, ControlHands, OutsideHands DEF Next

\* Whatever runs, a process mirrors only what paper accepted, holds no reason that
\* would undo a stop, and an operator only starts (CTraderDemoCoordinator.execute,
\* DemoAutomationRunner.start).
THEOREM HandsStayLawful == Spec => []HandInv
<1> QED BY InitHands, NextHands, ExecutionSound, PTL DEF Spec

\* Only the step that submits an order adds to the submissions.
LEMMA SubmitsOnly ==
    ASSUME ExecutionInv, [Next]_vars, NEW id \in DecisionIds,
           submissions'[id] > submissions[id]
    PROVE  \E p \in Processes : Send(p) /\ local[p].id = id /\ pc[p] = "send"
<1>1. submissions \in [DecisionIds -> Nat]
  BY DEF ExecutionInv, StoresOK
<1>2. submissions # submissions'
  BY <1>1
<1>3. PICK p \in Processes : Send(p)
  <2>1. ASSUME NEW p \in Processes, CycleStep(p), ~Send(p)
        PROVE  UNCHANGED submissions
    BY <2>1, StoresParts
       DEF CycleStep, Evaluate, CheckSwitch, CheckIds, Collide, Reserve, HearOutcome,
           GiveUp, StopUnknown, Finish, Audit, StopPaper, StopDemoToo, HaltPaper,
           HaltDemo
  <2>2. ASSUME NEW p \in Processes,
               \/ Launch(p) \/ StartStep(p) \/ NoProposal(p) \/ Crash(p) \/ StoreFault(p)
               \/ \E other \in DecisionIds : Propose(p, other)
        PROVE  UNCHANGED submissions
    BY <2>2, StoresParts
       DEF Launch, StartStep, ReadDemo, TakeSnapshot, CheckPending, CheckRecords,
           CheckExposure, Check, MarkReconciled, FailReconcile, StartDemo, ReadPaper,
           ResumePaper, NoProposal, Crash, StoreFault, Propose
  <2>3. ASSUME \/ OperatePaper \/ Rebase \/ UNCHANGED vars
               \/ \E other \in DecisionIds : BrokerMoves(other)
        PROVE  UNCHANGED submissions
    BY <2>3, StoresParts DEF OperatePaper, Rebase, vars, BrokerMoves
  <2> QED BY <1>2, <2>1, <2>2, <2>3 DEF Next
<1>4. submissions' = [submissions EXCEPT ![local[p].id] = @ + 1]
  BY <1>2, <1>3, StoresParts DEF Send
<1>5. local[p].id = id
  BY <1>1, <1>4
<1> QED BY <1>3, <1>5 DEF Send, At

\* No order reaches the broker that paper risk did not accept, whatever runs and
\* whatever fails (CTraderDemoCoordinator.execute evaluates on paper first).
THEOREM OnlyAcceptedIsSent == Spec => [][BrokerNeedsPaper]_vars
<1>1. ExecutionInv /\ HandInv /\ [Next]_vars => [BrokerNeedsPaper]_vars
  <2> SUFFICES ASSUME ExecutionInv, HandInv, [Next]_vars, NEW id \in DecisionIds,
                      submissions'[id] > submissions[id]
               PROVE  decisions[id] = "accepted"
    BY DEF BrokerNeedsPaper
  <2>1. PICK p \in Processes : local[p].id = id /\ pc[p] = "send"
    BY SubmitsOnly
  <2> QED BY <2>1 DEF HandInv, AcceptedInHand, AdapterSteps
<1> QED BY <1>1, ExecutionSound, HandsStayLawful, PTL DEF Spec

\* A stop of demo execution that an unattended restart may not clear is cleared by
\* nothing but an operator's start (CTraderDemoStore.maybe_resume).
LEMMA StopStays ==
    ASSUME ExecutionInv, HandInv, [Next]_vars
    PROVE  DemoStopHolds
<1> SUFFICES ASSUME HeldDemo, demo'.reason # "explicit_start" PROVE HeldDemo'
  BY DEF DemoStopHolds
<1>1. ControlOK /\ StoresOK /\ ReasonInHand
  BY DEF ExecutionInv, HandInv
<1>2. RestartPolicy(demo) = "refuse"
  BY DEF HeldDemo, RestartPolicy
<1> DEFINE Steady == demo' = demo \/ \E reason \in StopReasons \ KILL_SWITCH_AUTO_RESUME :
                                        StopDemo(reason)
<1> DEFINE Still == demo'.stopped /\ demo'.reason \notin KILL_SWITCH_AUTO_RESUME
<1>3. Steady => Still
  BY DEF HeldDemo, StopDemo
<1>4. ASSUME NEW p \in Processes, Moves(p), p \in Runners => ~local'[p].resume, Still
      PROVE  HeldDemo'
  BY <1>4 DEF HeldDemo, Moves, Processes, Executors
<1>5. ASSUME NEW p \in Processes, NEW step, Go(p, step), Still PROVE HeldDemo'
  BY <1>1, <1>4, <1>5, Lands, GoMoves DEF HeldDemo
<1>6. ASSUME NEW p \in Processes, NEW step, NEW memory, GoWith(p, step, memory), Still,
             p \in Runners => ~memory.resume
      PROVE  HeldDemo'
  BY <1>1, <1>4, <1>6, Lands, GoMoves
<1>7. ASSUME NEW p \in Processes, Still,
             \/ Exit(p) \/ Ready(p) \/ FailStart(p) \/ FailCycle(p)
             \/ \E reason \in StopReasons : Halt(p, reason)
      PROVE  HeldDemo'
  <2>1. ~local'[p].resume
    BY <1>1, <1>7, Leaving DEF Idle
  <2> QED BY <1>1, <1>4, <1>7, <2>1, LeavesCycle
<1>8. ASSUME NEW p \in Processes, Still, NEW verdict, Conclude(p, verdict)
      PROVE  HeldDemo'
  <2>1. [local[p] EXCEPT !.verdict = verdict].resume = local[p].resume
    BY <1>1, Remembers
  <2> QED BY <1>1, <1>4, <1>8, <2>1, Leaving, LeavesCycle DEF HeldDemo
<1>9. \A p \in Processes : local[p].why \in StopReasons \ KILL_SWITCH_AUTO_RESUME
  BY <1>1 DEF ReasonInHand, ControlOK, Memories
<1>10. {"reconciliation_failed", "broker_execution_failed", "transport_failure",
        "order_outcome_unknown", "broker_identity_collision"}
           \subseteq StopReasons \ KILL_SWITCH_AUTO_RESUME
  BY DEF StopReasons, KILL_SWITCH_AUTO_RESUME
<1>11. UNCHANGED stores => Still
  BY <1>3 DEF stores
<1>12. ASSUME NEW p \in Processes, StartStep(p) PROVE HeldDemo'
  <2>1. CASE ReadDemo(p)
    BY <1>2, <1>7, <1>11, <2>1 DEF ReadDemo
  <2>2. CASE TakeSnapshot(p)
    <3> DEFINE memory == [local[p] EXCEPT !.seen = broker]
    <3>1. memory.resume = local[p].resume
      BY <1>1, Remembers
    <3>2. Go(p, "fail_reconcile") \/ GoWith(p, "pending", memory)
      BY <2>2 DEF TakeSnapshot
    <3>3. Still
      BY <1>11, <2>2 DEF TakeSnapshot
    <3>4. p \in Runners => ~memory.resume
      BY <3>1 DEF HeldDemo
    <3> HIDE DEF memory, Still
    <3> QED BY <1>5, <1>6, <3>2, <3>3, <3>4
  <2>3. CASE CheckPending(p) \/ CheckRecords(p) \/ CheckExposure(p)
    BY <1>5, <1>11, <2>3 DEF CheckPending, CheckRecords, CheckExposure, Check
  <2>4. CASE MarkReconciled(p)
    <3>1. Still
      BY <1>1, <2>4 DEF MarkReconciled, StoresOK, DemoSwitches, HeldDemo
    <3> HIDE DEF Still
    <3> QED BY <1>5, <2>4, <3>1 DEF MarkReconciled
  <2>5. CASE FailReconcile(p)
    BY <1>3, <1>7, <1>10, <2>5 DEF FailReconcile
  <2>6. CASE StartDemo(p)
    <3>1. CASE demo.reconciled
      <4>1. p \in Operators
        <5>1. p \notin Agents
          BY <2>6 DEF StartDemo, At, HandInv, AgentsOnlyTrade, ReconcileSteps, StartSteps
        <5> QED BY <1>1, <2>6, <5>1
             DEF StartDemo, At, ReasonInHand, HeldDemo, Processes, Executors
      <4>2. demo'.reason = "explicit_start"
        BY <1>1, <2>6, <3>1, <4>1 DEF StartDemo, StoresOK, DemoSwitches
      <4> QED BY <4>2
    <3>2. CASE ~demo.reconciled
      BY <1>3, <1>7, <2>6, <3>2 DEF StartDemo
    <3> QED BY <3>1, <3>2
  <2>7. CASE ReadPaper(p)
    BY <1>5, <1>7, <1>11, <2>7 DEF ReadPaper
  <2>8. CASE ResumePaper(p)
    BY <1>3, <1>7, <2>8 DEF ResumePaper
  <2> QED BY <1>12, <2>1, <2>2, <2>3, <2>4, <2>5, <2>6, <2>7, <2>8 DEF StartStep
<1>13. ASSUME NEW p \in Processes, CycleStep(p) PROVE HeldDemo'
  <2>1. Still
    <3>1. Steady
      BY <1>9, <1>10, <1>13
         DEF CycleStep, Evaluate, CheckSwitch, CheckIds, Collide, Reserve, Send,
             HearOutcome, GiveUp, StopUnknown, Finish, Audit, StopPaper, StopDemoToo,
             HaltPaper, HaltDemo, stores
    <3> QED BY <1>3, <3>1
  <2> HIDE DEF Still
  <2>2. CASE Evaluate(p) \/ CheckSwitch(p) \/ CheckIds(p) \/ Collide(p) \/ Reserve(p)
    BY <1>5, <1>7, <1>8, <2>1, <2>2 DEF Evaluate, CheckSwitch, CheckIds, Collide, Reserve
  <2>3. CASE Send(p) \/ GiveUp(p) \/ HearOutcome(p) \/ StopUnknown(p)
    <3>1. \E step : \/ Go(p, step)
                    \/ \E memory : /\ GoWith(p, step, memory)
                                   /\ memory.resume = local[p].resume
      <4>1. \A x : /\ [local[p] EXCEPT !.verdict = x].resume = local[p].resume
                   /\ [local[p] EXCEPT !.why = x].resume = local[p].resume
        BY <1>1, Remembers
      <4> QED BY <2>3, <4>1 DEF Send, GiveUp, HearOutcome, StopUnknown
    <3> QED BY <1>5, <1>6, <2>1, <3>1 DEF HeldDemo
  <2>4. CASE \/ Finish(p) \/ Audit(p) \/ StopPaper(p) \/ StopDemoToo(p) \/ HaltPaper(p)
             \/ HaltDemo(p)
    BY <1>5, <1>7, <1>10, <2>1, <2>4
       DEF Finish, Audit, StopPaper, StopDemoToo, HaltPaper, HaltDemo
  <2> QED BY <1>13, <2>2, <2>3, <2>4 DEF CycleStep
<1>14. ASSUME NEW p \in Processes,
              \/ Launch(p) \/ NoProposal(p) \/ Crash(p) \/ StoreFault(p)
              \/ \E id \in DecisionIds : Propose(p, id)
       PROVE  HeldDemo'
  <2>1. Still
    BY <1>3, <1>14 DEF Launch, NoProposal, Crash, StoreFault, Propose, stores
  <2> HIDE DEF Still
  <2>2. CASE Launch(p)
    BY <1>6, <2>1, <2>2 DEF Launch, Idle
  <2>3. CASE NoProposal(p) \/ Crash(p) \/ StoreFault(p)
    BY <1>5, <1>7, <1>8, <2>1, <2>3 DEF NoProposal, Crash, StoreFault
  <2>4. ASSUME NEW id \in DecisionIds, Propose(p, id) PROVE HeldDemo'
    <3> DEFINE memory == [local[p] EXCEPT !.id = id]
    <3>1. p \in Runners => ~memory.resume
      BY <1>1, Remembers DEF HeldDemo
    <3>2. GoWith(p, "evaluate", memory)
      BY <2>4 DEF Propose
    <3> HIDE DEF memory
    <3> QED BY <1>6, <2>1, <3>1, <3>2
  <2> QED BY <1>14, <2>2, <2>3, <2>4
<1>15. ASSUME \/ OperatePaper \/ Rebase \/ UNCHANGED vars
              \/ \E id \in DecisionIds : BrokerMoves(id)
       PROVE  HeldDemo'
  BY <1>15 DEF OperatePaper, Rebase, vars, BrokerMoves, HeldDemo
<1> QED BY <1>12, <1>13, <1>14, <1>15 DEF Next

\* A demo stop holds across every restart until an operator starts it, for any
\* number of runners, agents and operators.
THEOREM DemoStopsHold == Spec => [][DemoStopHolds]_vars
<1>1. ExecutionInv /\ HandInv /\ [Next]_vars => [DemoStopHolds]_vars
  BY StopStays
<1> QED BY <1>1, ExecutionSound, HandsStayLawful, PTL DEF Spec

-----------------------------------------------------------------------------
(* A single runner, and the books of paper and broker.                         *)

\* Nothing executes but one runner; operators may be many.
OneRunner == Agents = {} /\ \A p, q \in Runners : p = q

Resolved == \A id \in DecisionIds : requests[id] \notin Unresolved

\* What a decision is worth at the broker, what paper decided, what the records
\* explain and what the broker holds of each.
Worth(id) == Direction(id) * Volume(id)
Decided == [id \in DecisionIds |-> IF decisions[id] = "accepted" THEN Worth(id) ELSE 0]
Recorded == [id \in DecisionIds |-> IF requests[id] = "accepted" THEN Worth(id) ELSE 0]
Held(orders) == [id \in DecisionIds |-> Direction(id) * orders[id].filled]

\* The decisions that paper accepted and the broker has not filled for certain.
Lagging == {id \in DecisionIds : decisions[id] = "accepted" /\ requests[id] # "accepted"}

\* What the runner may rely on at each of its steps.
AgreedAt(p) ==
    /\ pc[p] \in {"mark", "start_demo", "read_paper", "resume_paper", "ready",
                  "evaluate"} => Lagging = {}
    /\ pc[p] \in AdapterSteps => Lagging \subseteq {local[p].id}
    /\ pc[p] = "audit" /\ local[p].verdict = "accepted" => Lagging = {}
    /\ pc[p] \in {"pending", "records", "exposure"} =>
          \A id \in DecisionIds :
              requests[id] \notin Unresolved => local[p].seen[id] = broker[id]
    /\ pc[p] \in {"records", "exposure"} => Resolved

\* The books: the position is what paper decided, at most one decision lags
\* behind, and only a decision that paper accepted has a record.
Books ==
    /\ position * VolumePerUnit = Total(Decided)
    /\ \A x, y \in Lagging : x = y
    /\ \A id \in DecisionIds : requests[id] # "absent" => decisions[id] = "accepted"
BooksAgree == Books /\ \A p \in Runners : AgreedAt(p)

AgreeInv == Undisturbed => BooksAgree

\* A decision is worth its signed volume, which is not nothing.
LEMMA WorthType ==
    ASSUME NEW id \in DecisionIds
    PROVE  /\ Worth(id) = Signed[id] * VolumePerUnit
           /\ Worth(id) \in Int \ {0}
           /\ Signed[id] \in Int
<1>1. Signed[id] \in Int \ {0} /\ VolumePerUnit \in Nat \ {0}
  BY ExecutionAssumption
<1>2. Worth(id) = Signed[id] * VolumePerUnit
  <2>1. CASE Signed[id] < 0
    <3>1. Worth(id) = (-1) * (VolumePerUnit * (-Signed[id]))
      BY <2>1 DEF Worth, Direction, Volume
    <3> QED BY <1>1, <3>1
  <2>2. CASE ~(Signed[id] < 0)
    <3>1. Worth(id) = 1 * (VolumePerUnit * Signed[id])
      BY <2>2 DEF Worth, Direction, Volume
    <3> QED BY <1>1, <3>1
  <2> QED BY <2>1, <2>2
<1>3. Signed[id] * VolumePerUnit \in Int \ {0}
  BY <1>1
<1> QED BY <1>1, <1>2, <1>3

\* What a record says of the broker's order.
LEMMA RecordTells ==
    ASSUME ExecutionInv, NEW id \in DecisionIds
    PROVE  /\ requests[id] = "accepted"
                 => broker[id].phase = "filled" /\ broker[id].filled = Volume(id)
           /\ requests[id] = "rejected"
                 => broker[id].phase = "rejected" /\ broker[id].filled = 0
           /\ requests[id] = "absent"
                 => broker[id].phase = "none" /\ broker[id].filled = 0
<1>1. OutcomesTrue /\ SentIsReserved
  BY DEF ExecutionInv, OrderInv
<1>2. /\ requests[id] = "accepted"
            => broker[id] = [phase |-> "filled", filled |-> Volume(id)]
      /\ requests[id] = "rejected" => broker[id] = [phase |-> "rejected", filled |-> 0]
      /\ requests[id] = "absent" => broker[id] = [phase |-> "none", filled |-> 0]
  BY <1>1 DEF OutcomesTrue, SentIsReserved
<1> QED BY <1>2

\* When every record is resolved, the broker holds what the records explain.
LEMMA HeldIsRecorded ==
    ASSUME ExecutionInv, Resolved, NEW orders,
           \A id \in DecisionIds : orders[id] = broker[id]
    PROVE  Held(orders) = Recorded
<1> SUFFICES ASSUME NEW id \in DecisionIds
             PROVE  Direction(id) * orders[id].filled
                       = IF requests[id] = "accepted" THEN Worth(id) ELSE 0
  BY DEF Held, Recorded
<1>1. requests[id] \in {"absent", "accepted", "rejected"}
  BY DEF ExecutionInv, StoresOK, Records, Resolved
<1>2. requests[id] = "accepted" => broker[id].filled = Volume(id)
  BY RecordTells
<1>3. requests[id] \in {"absent", "rejected"} => broker[id].filled = 0
  BY RecordTells
<1>4. Direction(id) \in Int
  BY DEF Direction
<1> QED BY <1>1, <1>2, <1>3, <1>4 DEF Worth

\* Nothing lags behind: the broker's exposure is the paper account's.
LEMMA NothingLags ==
    ASSUME ExecutionInv, Books, Lagging = {}
    PROVE  Resolved /\ position * VolumePerUnit = Net(broker)
<1>1. \A id \in DecisionIds : decisions[id] = "accepted" <=> requests[id] = "accepted"
  BY DEF Books, Lagging
<1>2. Resolved
  BY <1>1 DEF Books, Resolved, Unresolved
<1>3. Decided = Recorded
  BY <1>1 DEF Decided, Recorded
<1>4. Held(broker) = Recorded
  BY <1>2, HeldIsRecorded
<1> QED BY <1>2, <1>3, <1>4 DEF Books, Net, Held

\* The runner's check of the exposure finds a decision that lags behind.
LEMMA ExposureFinds ==
    ASSUME IsFiniteSet(DecisionIds), ExecutionInv, Books, Resolved, NEW orders,
           \A id \in DecisionIds : orders[id] = broker[id],
           position * VolumePerUnit = Net(orders)
    PROVE  Lagging = {}
<1> SUFFICES ASSUME NEW id \in Lagging PROVE FALSE
  OBVIOUS
<1>1. id \in DecisionIds /\ decisions[id] = "accepted" /\ requests[id] # "accepted"
  BY DEF Lagging
<1>2. \A other \in DecisionIds \ {id} :
         decisions[other] = "accepted" <=> requests[other] = "accepted"
  BY DEF Books, Lagging
<1>3. Recorded \in [DecisionIds -> Int]
  BY WorthType DEF Recorded
<1>4. Decided = [Recorded EXCEPT ![id] = Worth(id)]
  BY <1>1, <1>2 DEF Decided, Recorded
<1>5. Recorded[id] = 0 /\ Worth(id) \in Int \ {0}
  BY <1>1, WorthType DEF Recorded
<1>6. Total(Decided) = Total(Recorded) - Recorded[id] + Worth(id)
      /\ Total(Recorded) \in Int
  BY <1>1, <1>3, <1>4, <1>5, TotalMoves
<1>7. Total(Decided) = Total(Recorded)
  <2>1. Held(orders) = Recorded
    BY HeldIsRecorded
  <2> QED BY <2>1 DEF Books, Net, Held
<1> QED BY <1>5, <1>6, <1>7

\* An acceptance moves the position and what paper decided together.
LEMMA AcceptanceBooks ==
    ASSUME IsFiniteSet(DecisionIds), ExecutionInv, Books, NEW id \in DecisionIds,
           \A other \in DecisionIds \ {id} : decisions'[other] = decisions[other],
           decisions[id] # "accepted", decisions'[id] = "accepted",
           position' = position + Signed[id]
    PROVE  position' * VolumePerUnit = Total(Decided')
<1>1. Decided \in [DecisionIds -> Int] /\ Decided[id] = 0
  BY WorthType DEF Decided
<1>2. Decided' = [Decided EXCEPT ![id] = Worth(id)]
  BY DEF Decided
<1>3. Total(Decided') = Total(Decided) + Worth(id) /\ Total(Decided) \in Int
  <2>1. Worth(id) \in Int
    BY WorthType
  <2>2. /\ Total(Decided) \in Int
        /\ Total([Decided EXCEPT ![id] = Worth(id)]) = Total(Decided) - Decided[id] + Worth(id)
    BY <1>1, <2>1, TotalMoves
  <2> QED BY <1>1, <1>2, <2>1, <2>2
<1>4. position * VolumePerUnit = Total(Decided)
  BY DEF Books
<1>5. position \in Int /\ VolumePerUnit \in Int /\ Signed[id] \in Int
  BY ExecutionAssumption, WorthType DEF ExecutionInv, StoresOK
<1>6. (position + Signed[id]) * VolumePerUnit
         = position * VolumePerUnit + Signed[id] * VolumePerUnit
  BY <1>5
<1> QED BY <1>3, <1>4, <1>6, WorthType

\* An order that is resolved does not move at the broker.
LEMMA ResolvedRests ==
    ASSUME ExecutionInv, NEW id \in DecisionIds, BrokerMoves(id)
    PROVE  /\ requests[id] \in Unresolved
           /\ \A other \in DecisionIds \ {id} : broker'[other] = broker[other]
<1>1. broker \in Orders /\ requests[id] \in Records
  BY DEF ExecutionInv, StoresOK
<1>2. broker[id].phase \in {"sent", "working"}
  BY DEF BrokerMoves, Become, FillSome
<1>3. requests[id] \notin {"absent", "accepted", "rejected"}
  BY <1>2, RecordTells
<1>4. \A other \in DecisionIds \ {id} : broker'[other] = broker[other]
  <2>1. CASE FillSome(id)
    BY <1>1, <2>1 DEF FillSome, Orders
  <2>2. ASSUME NEW phases, NEW next, Become(id, phases, next)
        PROVE  \A other \in DecisionIds \ {id} : broker'[other] = broker[other]
    BY <1>1, <2>2 DEF Become, Orders
  <2> QED BY <2>1, <2>2 DEF BrokerMoves
<1> QED BY <1>1, <1>3, <1>4 DEF Records

\* A step of the only runner that leaves paper and records alone.
LEMMA RunnerQuiet ==
    ASSUME BooksAgree, OneRunner, NEW p \in Runners, AgreedAt(p)',
           UNCHANGED <<requests, decisions, position>>
    PROVE  BooksAgree'
<1>1. Books'
  BY DEF BooksAgree, Books, Lagging, Decided
<1>2. \A q \in Runners : q = p
  BY DEF OneRunner
<1>3. \A q \in Runners : AgreedAt(q)'
  BY <1>2
<1> QED BY <1>1, <1>3 DEF BooksAgree

\* A step of anyone else, which leaves the runner alone too.
LEMMA OthersQuiet ==
    ASSUME BooksAgree, UNCHANGED <<requests, decisions, position>>,
           \A q \in Runners : pc'[q] = pc[q] /\ local'[q] = local[q],
           \A id \in DecisionIds :
               requests[id] \notin Unresolved => broker'[id] = broker[id]
    PROVE  BooksAgree'
<1>1. Books' /\ Lagging' = Lagging /\ Resolved' = Resolved
  BY DEF BooksAgree, Books, Lagging, Decided, Resolved
<1>2. ASSUME NEW q \in Runners PROVE AgreedAt(q)'
  BY <1>1 DEF BooksAgree, AgreedAt
<1> QED BY <1>1, <1>2 DEF BooksAgree

\* Steps at which the runner relies on nothing.
LEMMA RelaxedStep ==
    ASSUME NEW p \in Runners,
           pc'[p] \in {"off", "read_demo", "snapshot", "fail_reconcile", "stop_paper",
                       "stop_demo", "halt_paper", "halt_demo"}
    PROVE  AgreedAt(p)'
BY DEF AgreedAt, AdapterSteps

\* ... or on nothing but that no decision lags behind.
LEMMA SettledStep ==
    ASSUME NEW p \in Runners, Lagging' = {},
           pc'[p] \in {"mark", "start_demo", "read_paper", "resume_paper", "ready",
                       "evaluate", "audit"} \cup AdapterSteps
    PROVE  AgreedAt(p)'
BY DEF AgreedAt, AdapterSteps

\* The steps of the runner's start.
LEMMA StartAgrees ==
    ASSUME IsFiniteSet(DecisionIds), ExecutionInv, BooksAgree, OneRunner,
           NEW p \in Runners, StartStep(p)
    PROVE  BooksAgree'
<1>1. ControlOK /\ p \in Processes /\ AgreedAt(p)
  BY DEF ExecutionInv, BooksAgree, Processes, Executors
<1>2. UNCHANGED <<requests, decisions, position>>
  BY DEF StartStep, ReadDemo, TakeSnapshot, CheckPending, CheckRecords, CheckExposure,
         Check, MarkReconciled, FailReconcile, StartDemo, ReadPaper, ResumePaper,
         SetKillSwitch, stores, exceptDemo, paperVars
<1>3. Lagging' = Lagging /\ Resolved' = Resolved
  BY <1>2 DEF Lagging, Resolved
<1> SUFFICES AgreedAt(p)'
  BY <1>2, RunnerQuiet
<1>4. ASSUME NEW step, Go(p, step) PROVE pc'[p] = step /\ local'[p] = local[p]
  BY <1>1, <1>4, Lands
<1>5. ASSUME NEW step, NEW memory, GoWith(p, step, memory)
      PROVE  pc'[p] = step /\ local'[p] = memory
  BY <1>1, <1>5, Lands
<1>6. /\ Exit(p) => pc'[p] = "off"
      /\ Ready(p) => pc'[p] = "ready"
      /\ FailStart(p) => pc'[p] \in {"off", "halt_paper"}
  BY <1>5 DEF Exit, Ready, FailStart, Halt
<1>7. UNCHANGED stores => UNCHANGED broker
  BY StoresParts
<1>8. CASE ReadDemo(p)
  <2>1. pc'[p] \in {"off", "snapshot"}
    BY <1>5, <1>6, <1>8 DEF ReadDemo
  <2> QED BY <2>1, RelaxedStep
<1>9. CASE TakeSnapshot(p)
  <2> DEFINE memory == [local[p] EXCEPT !.seen = broker]
  <2>1. memory.seen = broker
    BY <1>1, Remembers
  <2>2. Go(p, "fail_reconcile") \/ GoWith(p, "pending", memory)
    BY <1>9 DEF TakeSnapshot
  <2> HIDE DEF memory
  <2>3. CASE Go(p, "fail_reconcile")
    BY <1>4, <2>3, RelaxedStep
  <2>4. CASE GoWith(p, "pending", memory)
    <3>1. pc'[p] = "pending" /\ local'[p].seen = broker' 
      BY <1>5, <1>7, <1>9, <2>1, <2>4 DEF TakeSnapshot
    <3> QED BY <3>1 DEF AgreedAt, AdapterSteps
  <2> QED BY <2>2, <2>3, <2>4
<1>10. ASSUME NEW step, NEW passes, NEW next, Check(p, step, passes, next)
       PROVE  /\ pc[p] = step /\ local'[p] = local[p] /\ UNCHANGED broker
              /\ \/ pc'[p] = "fail_reconcile"
                 \/ passes /\ pc'[p] = next
  BY <1>4, <1>7, <1>10 DEF Check, At
<1>11. CASE CheckPending(p)
  <2>1. /\ pc[p] = "pending" /\ local'[p] = local[p] /\ UNCHANGED broker
        /\ \/ pc'[p] = "fail_reconcile"
           \/ Resolved /\ pc'[p] = "records"
    BY <1>10, <1>11 DEF CheckPending, Resolved
  <2>2. CASE pc'[p] = "fail_reconcile"
    BY <2>2, RelaxedStep
  <2>3. CASE Resolved /\ pc'[p] = "records"
    BY <1>1, <1>2, <1>3, <2>1, <2>3 DEF AgreedAt, AdapterSteps
  <2> QED BY <2>1, <2>2, <2>3
<1>12. CASE CheckRecords(p)
  <2>1. /\ pc[p] = "records" /\ local'[p] = local[p] /\ UNCHANGED broker
        /\ pc'[p] \in {"fail_reconcile", "exposure"}
    BY <1>10, <1>12 DEF CheckRecords
  <2>2. CASE pc'[p] = "fail_reconcile"
    BY <2>2, RelaxedStep
  <2>3. CASE pc'[p] = "exposure"
    BY <1>1, <1>2, <1>3, <2>1, <2>3 DEF AgreedAt, AdapterSteps
  <2> QED BY <2>1, <2>2, <2>3
<1>13. CASE CheckExposure(p)
  <2>1. /\ pc[p] = "exposure"
        /\ \/ pc'[p] = "fail_reconcile"
           \/ position * VolumePerUnit = Net(local[p].seen) /\ pc'[p] = "mark"
    BY <1>10, <1>13 DEF CheckExposure
  <2>2. CASE pc'[p] = "fail_reconcile"
    BY <2>2, RelaxedStep
  <2>3. CASE position * VolumePerUnit = Net(local[p].seen) /\ pc'[p] = "mark"
    <3>1. Resolved /\ \A id \in DecisionIds : local[p].seen[id] = broker[id]
      BY <1>1, <2>1 DEF AgreedAt, Resolved
    <3>2. Lagging = {}
      BY <2>3, <3>1, ExposureFinds DEF BooksAgree
    <3> QED BY <1>3, <2>3, <3>2, SettledStep
  <2> QED BY <2>1, <2>2, <2>3
<1>14. CASE FailReconcile(p)
  <2>1. pc'[p] \in {"off", "halt_paper"}
    BY <1>6, <1>14 DEF FailReconcile
  <2> QED BY <2>1, RelaxedStep
<1>15. CASE MarkReconciled(p) \/ StartDemo(p) \/ ReadPaper(p) \/ ResumePaper(p)
  <2>1. Lagging = {}
    BY <1>1, <1>15 DEF MarkReconciled, StartDemo, ReadPaper, ResumePaper, At, AgreedAt
  <2>2. pc'[p] \in {"off", "halt_paper", "start_demo", "read_paper", "resume_paper",
                    "ready"}
    <3>1. CASE MarkReconciled(p)
      BY <1>4, <3>1 DEF MarkReconciled
    <3>2. CASE StartDemo(p)
      BY <1>4, <1>6, <3>2 DEF StartDemo
    <3>3. CASE ReadPaper(p) \/ ResumePaper(p)
      <4>1. Exit(p) \/ Ready(p) \/ Go(p, "resume_paper")
        BY <3>3 DEF ReadPaper, ResumePaper
      <4> QED BY <1>4, <1>6, <4>1
    <3> QED BY <1>15, <3>1, <3>2, <3>3
  <2> QED BY <1>3, <2>1, <2>2, RelaxedStep, SettledStep
<1> QED
  BY <1>8, <1>9, <1>11, <1>12, <1>13, <1>14, <1>15 DEF StartStep

\* The evaluation on paper: the position, what paper decided and what lags behind
\* move together.
LEMMA EvaluateAgrees ==
    ASSUME IsFiniteSet(DecisionIds), ExecutionInv, BooksAgree, OneRunner,
           NEW p \in Runners, Evaluate(p)
    PROVE  BooksAgree'
<1> DEFINE id == local[p].id
<1>1. ControlOK /\ StoresOK /\ p \in Processes /\ AgreedAt(p) /\ Books
  BY DEF ExecutionInv, BooksAgree, Processes, Executors
<1>2. id \in DecisionIds /\ pc[p] = "evaluate"
  BY <1>1 DEF Evaluate, At, ExecutionInv, OrderInv, DecisionInHand, CycleSteps
<1>3. Lagging = {}
  BY <1>1, <1>2 DEF AgreedAt
<1>4. /\ \A other \in DecisionIds \ {id} : decisions'[other] = decisions[other]
      /\ decisions[id] # "none" => UNCHANGED <<decisions, position>>
      /\ decisions'[id] # "accepted" => decisions[id] # "accepted" /\ UNCHANGED position
      /\ decisions[id] = "none" /\ decisions'[id] = "accepted"
            => position' = position + Signed[id]
  <2>1. \/ decisions[id] # "none" /\ UNCHANGED paperVars
        \/ Accept(id)
        \/ Refuse(id)
    BY DEF Evaluate
  <2> HIDE DEF id
  <2> QED BY <1>1, <1>2, <2>1, AcceptanceStands
<1>5. UNCHANGED requests
  BY DEF Evaluate
<1>6. \/ decisions'[id] = "accepted" /\ pc'[p] = "check_switch" /\ local'[p].id = id
      \/ decisions'[id] # "accepted" /\ pc'[p] = "ready"
  <2>1. Go(p, "check_switch") => pc'[p] = "check_switch" /\ local'[p].id = id
    BY <1>1, Lands
  <2>2. Ready(p) => pc'[p] = "ready"
    BY <1>1, Lands DEF Ready
  <2> QED BY <2>1, <2>2 DEF Evaluate
<1>7. /\ Lagging' \subseteq {id}
      /\ decisions'[id] # "accepted" => Lagging' = {}
  BY <1>3, <1>4, <1>5 DEF Lagging
<1>8. Books'
  <2>1. position' * VolumePerUnit = Total(Decided')
    <3>1. CASE decisions[id] # "accepted" /\ decisions'[id] = "accepted"
      <4>1. position' = position + Signed[id]
        BY <1>4, <3>1
      <4> HIDE DEF id
      <4> QED BY <1>1, <1>2, <1>4, <3>1, <4>1, AcceptanceBooks
    <3>2. CASE ~(decisions[id] # "accepted" /\ decisions'[id] = "accepted")
      <4>1. Decided' = Decided /\ position' = position
        BY <1>4, <3>2 DEF Decided
      <4> QED BY <1>1, <4>1 DEF Books
    <3> QED BY <3>1, <3>2
  <2>2. \A other \in DecisionIds :
           requests'[other] # "absent" => decisions'[other] = "accepted"
    BY <1>1, <1>4, <1>5 DEF Books
  <2> QED BY <1>7, <2>1, <2>2 DEF Books
<1>9. AgreedAt(p)'
  BY <1>6, <1>7 DEF AgreedAt, AdapterSteps
<1> QED BY <1>8, <1>9 DEF BooksAgree, OneRunner

\* A record is reserved for an accepted decision, and what lags behind stays.
LEMMA ReserveAgrees ==
    ASSUME ExecutionInv, HandInv, BooksAgree, OneRunner, NEW p \in Runners, Reserve(p)
    PROVE  BooksAgree'
<1> DEFINE id == local[p].id
<1>1. ControlOK /\ StoresOK /\ p \in Processes /\ AgreedAt(p) /\ Books
  BY DEF ExecutionInv, BooksAgree, Processes, Executors
<1>2. id \in DecisionIds /\ pc[p] = "reserve" /\ decisions[id] = "accepted"
  BY <1>1 DEF Reserve, At, ExecutionInv, OrderInv, DecisionInHand, CycleSteps,
              HandInv, AcceptedInHand, AdapterSteps
<1>3. Lagging \subseteq {id} /\ UNCHANGED <<decisions, position>>
  BY <1>1, <1>2 DEF AgreedAt, AdapterSteps, Reserve, paperVars
<1>4. CASE requests[id] = "absent"
  <2>1. requests' = [requests EXCEPT ![id] = "pending"] /\ Go(p, "send")
    BY <1>4 DEF Reserve
  <2>2. pc'[p] = "send" /\ local'[p].id = id
    BY <1>1, <2>1, Lands
  <2>3. Lagging' \subseteq {id}
    BY <1>1, <1>2, <1>3, <2>1 DEF Lagging, StoresOK
  <2>4. Books'
    BY <1>1, <1>2, <1>3, <2>1, <2>3 DEF Books, Decided, StoresOK
  <2>5. AgreedAt(p)'
    BY <2>2, <2>3 DEF AgreedAt, AdapterSteps
  <2> QED BY <2>4, <2>5 DEF BooksAgree, OneRunner
<1>5. CASE requests[id] # "absent"
  <2>1. Conclude(p, requests[id]) /\ UNCHANGED requests
    BY <1>5 DEF Reserve
  <2>2. pc'[p] = "audit" /\ local'[p].verdict = requests[id]
    <3> DEFINE memory == [local[p] EXCEPT !.verdict = requests[id]]
    <3>1. memory.verdict = requests[id]
      BY <1>1, Remembers
    <3>2. GoWith(p, "audit", memory)
      BY <2>1 DEF Conclude
    <3> HIDE DEF memory
    <3> QED BY <1>1, <3>1, <3>2, Lands
  <2>3. requests[id] = "accepted" => Lagging' = {}
    BY <1>3, <2>1 DEF Lagging
  <2>4. AgreedAt(p)'
    BY <2>2, <2>3 DEF AgreedAt, AdapterSteps
  <2> QED BY <1>3, <2>1, <2>4, RunnerQuiet
<1> QED BY <1>4, <1>5

\* A record is completed: an acceptance catches up, anything else stays behind.
LEMMA FinishAgrees ==
    ASSUME ExecutionInv, HandInv, BooksAgree, OneRunner, NEW p \in Runners, Finish(p)
    PROVE  BooksAgree'
<1> DEFINE id == local[p].id
           verdict == local[p].verdict
<1>1. ControlOK /\ StoresOK /\ p \in Processes /\ AgreedAt(p) /\ Books
  BY DEF ExecutionInv, BooksAgree, Processes, Executors
<1>2. id \in DecisionIds /\ pc[p] = "finish" /\ decisions[id] = "accepted"
  BY <1>1 DEF Finish, At, ExecutionInv, OrderInv, DecisionInHand, CycleSteps,
              HandInv, AcceptedInHand, AdapterSteps
<1>3. Lagging \subseteq {id} /\ UNCHANGED <<decisions, position>>
  BY <1>1, <1>2 DEF AgreedAt, AdapterSteps, Finish, paperVars
<1>4. requests' = [requests EXCEPT ![id] = verdict] /\ Go(p, "audit")
  BY DEF Finish
<1>5. pc'[p] = "audit" /\ local'[p].verdict = verdict
  BY <1>1, <1>4, Lands
<1>6. Lagging' \subseteq {id} /\ (verdict = "accepted" => Lagging' = {})
  BY <1>1, <1>2, <1>3, <1>4 DEF Lagging, StoresOK
<1>7. Books'
  BY <1>1, <1>2, <1>3, <1>4, <1>6 DEF Books, Decided, StoresOK
<1>8. AgreedAt(p)'
  BY <1>5, <1>6 DEF AgreedAt, AdapterSteps
<1> QED BY <1>7, <1>8 DEF BooksAgree, OneRunner

\* The other steps of the runner's cycle.
LEMMA CycleAgrees ==
    ASSUME ExecutionInv, BooksAgree, OneRunner, NEW p \in Runners, CycleStep(p),
           ~Evaluate(p), ~Reserve(p), ~Finish(p)
    PROVE  BooksAgree'
<1>1. ControlOK /\ p \in Processes /\ AgreedAt(p)
  BY DEF ExecutionInv, BooksAgree, Processes, Executors
<1>2. UNCHANGED <<requests, decisions, position>>
  BY DEF CycleStep, CheckSwitch, CheckIds, Collide, Send, HearOutcome, GiveUp,
         StopUnknown, Audit, StopPaper, StopDemoToo, HaltPaper, HaltDemo, SetKillSwitch,
         stores, exceptDemo, paperVars
<1>3. Lagging' = Lagging
  BY <1>2 DEF Lagging
<1> SUFFICES AgreedAt(p)'
  BY <1>2, RunnerQuiet
<1>4. ASSUME NEW step, Go(p, step) PROVE pc'[p] = step /\ local'[p] = local[p]
  BY <1>1, <1>4, Lands
<1>5. ASSUME NEW step, NEW memory, GoWith(p, step, memory)
      PROVE  pc'[p] = step /\ local'[p] = memory
  BY <1>1, <1>5, Lands
<1>6. /\ Exit(p) => pc'[p] = "off"
      /\ Ready(p) => pc'[p] = "ready"
      /\ \A reason : Halt(p, reason) => pc'[p] = "halt_paper"
  BY <1>5 DEF Exit, Ready, Halt
<1>7. Conclude(p, "absent") => AgreedAt(p)'
  <2> DEFINE memory == [local[p] EXCEPT !.verdict = "absent"]
  <2>1. memory.verdict = "absent"
    BY <1>1, Remembers
  <2>2. Conclude(p, "absent") => GoWith(p, "audit", memory)
    BY DEF Conclude
  <2> HIDE DEF memory
  <2>3. Conclude(p, "absent") => pc'[p] = "audit" /\ local'[p].verdict = "absent"
    BY <1>5, <2>1, <2>2
  <2> QED BY <2>3 DEF AgreedAt, AdapterSteps
<1>8. ASSUME pc[p] \in AdapterSteps, pc'[p] \in AdapterSteps,
             local'[p].id = local[p].id
      PROVE  AgreedAt(p)'
  BY <1>1, <1>3, <1>8 DEF AgreedAt, AdapterSteps
<1>9. CASE CheckSwitch(p) \/ CheckIds(p) \/ Collide(p)
  <2>1. \/ Conclude(p, "absent")
        \/ /\ pc[p] \in AdapterSteps
           /\ \E step \in AdapterSteps : Go(p, step)
    BY <1>9 DEF CheckSwitch, CheckIds, Collide, At, AdapterSteps
  <2> QED BY <1>4, <1>7, <1>8, <2>1
<1>10. CASE Send(p) \/ HearOutcome(p) \/ GiveUp(p) \/ StopUnknown(p)
  <2>1. pc[p] \in AdapterSteps
    BY <1>10 DEF Send, HearOutcome, GiveUp, StopUnknown, At, AdapterSteps
  <2>2. \E step \in AdapterSteps :
           \/ Go(p, step)
           \/ \E memory : GoWith(p, step, memory) /\ memory.id = local[p].id
    <3>1. \A x : /\ [local[p] EXCEPT !.verdict = x].id = local[p].id
                 /\ [local[p] EXCEPT !.why = x].id = local[p].id
      BY <1>1, Remembers
    <3> QED BY <1>10, <3>1 DEF Send, HearOutcome, GiveUp, StopUnknown, AdapterSteps
  <2> QED BY <1>4, <1>5, <1>8, <2>1, <2>2
<1>11. CASE Audit(p)
  <2>1. CASE local[p].verdict = "accepted"
    <3>1. pc[p] = "audit" /\ Lagging = {} /\ pc'[p] = "ready"
      BY <1>1, <1>6, <1>11, <2>1 DEF Audit, At, AgreedAt
    <3> QED BY <1>3, <3>1, SettledStep
  <2>2. CASE local[p].verdict # "accepted"
    BY <1>4, <1>11, <2>2, RelaxedStep DEF Audit
  <2> QED BY <2>1, <2>2
<1>12. CASE StopPaper(p) \/ StopDemoToo(p) \/ HaltPaper(p) \/ HaltDemo(p)
  <2>1. pc'[p] \in {"off", "stop_demo", "halt_paper", "halt_demo"}
    BY <1>4, <1>6, <1>12 DEF StopPaper, StopDemoToo, HaltPaper, HaltDemo
  <2> QED BY <2>1, RelaxedStep
<1> QED BY <1>9, <1>10, <1>11, <1>12 DEF CycleStep

\* Launching, proposing, finding nothing, and crashing.
LEMMA ControlAgrees ==
    ASSUME ExecutionInv, BooksAgree, OneRunner, NEW p \in Runners,
           \/ Launch(p) \/ NoProposal(p) \/ Crash(p)
           \/ \E id \in DecisionIds : Propose(p, id)
    PROVE  BooksAgree'
<1>1. ControlOK /\ p \in Processes /\ AgreedAt(p)
  BY DEF ExecutionInv, BooksAgree, Processes, Executors
<1>2. UNCHANGED <<requests, decisions, position>>
  BY DEF Launch, NoProposal, Crash, Propose, stores, exceptDemo, paperVars
<1>3. Lagging' = Lagging
  BY <1>2 DEF Lagging
<1> SUFFICES AgreedAt(p)'
  BY <1>2, RunnerQuiet
<1>5. ASSUME NEW step, NEW memory, GoWith(p, step, memory)
      PROVE  pc'[p] = step /\ local'[p] = memory
  BY <1>1, <1>5, Lands
<1>6. CASE Launch(p)
  <2>1. p \notin Agents /\ p \notin Operators
    BY ExecutionAssumption DEF Executors
  <2>2. pc'[p] = "read_demo"
    BY <1>5, <1>6, <2>1 DEF Launch
  <2> QED BY <2>2, RelaxedStep
<1>7. CASE Crash(p)
  BY <1>5, <1>7, RelaxedStep DEF Crash, Exit
<1>8. CASE NoProposal(p) \/ \E id \in DecisionIds : Propose(p, id)
  <2>1. pc[p] = "ready" /\ Lagging = {}
    BY <1>1, <1>8 DEF NoProposal, Propose, At, AgreedAt
  <2>2. \E step \in {"ready", "halt_paper", "evaluate"} :
           \E memory : GoWith(p, step, memory)
    BY <1>8 DEF NoProposal, Propose, Ready, FailCycle, Halt
  <2>3. pc'[p] \in {"ready", "halt_paper", "evaluate"}
    BY <1>5, <2>2
  <2> QED BY <1>3, <2>1, <2>3, RelaxedStep, SettledStep
<1> QED BY <1>6, <1>7, <1>8

\* An operator touches nothing but the demo switch, and leaves the runner alone.
LEMMA OperatorQuiet ==
    ASSUME ExecutionInv, HandInv, NEW p \in Operators,
           \/ Launch(p) \/ StartStep(p) \/ NoProposal(p) \/ CycleStep(p) \/ Crash(p)
           \/ StoreFault(p) \/ \E id \in DecisionIds : Propose(p, id)
    PROVE  /\ UNCHANGED <<requests, decisions, position, broker, submissions>>
           /\ \A q \in Runners : pc'[q] = pc[q] /\ local'[q] = local[q]
<1>1. ControlOK /\ p \in Processes /\ p \notin Executors
  BY ExecutionAssumption DEF ExecutionInv, Processes
<1>2. ~CycleStep(p) /\ ~NoProposal(p) /\ \A id \in DecisionIds : ~Propose(p, id)
  BY <1>1 DEF HandInv, OperatorsOnlyStart, CycleStep, Evaluate, CheckSwitch, CheckIds,
         Collide, Reserve, Send, HearOutcome, GiveUp, StopUnknown, Finish, Audit,
         StopPaper, StopDemoToo, HaltPaper, HaltDemo, NoProposal, Propose, At, Executors
<1>3. UNCHANGED <<requests, decisions, position, broker, submissions>>
  BY <1>2, StoresParts
     DEF Launch, StartStep, ReadDemo, TakeSnapshot, CheckPending, CheckRecords,
         CheckExposure, Check, MarkReconciled, FailReconcile, StartDemo, ReadPaper,
         ResumePaper, Crash, StoreFault, SetKillSwitch, stores, exceptDemo, paperVars
<1>4. \/ Exit(p) \/ Ready(p) \/ FailStart(p) \/ FailCycle(p) \/ Conclude(p, "absent")
      \/ \E step : Go(p, step) \/ \E memory : GoWith(p, step, memory)
  BY <1>2
     DEF Launch, StartStep, ReadDemo, TakeSnapshot, CheckPending, CheckRecords,
         CheckExposure, Check, MarkReconciled, FailReconcile, StartDemo, ReadPaper,
         ResumePaper, Crash, StoreFault
<1>5. Moves(p)
  BY <1>1, <1>4, GoMoves, LeavesCycle
<1>6. \A q \in Runners : q \in Processes \ {p}
  BY <1>1 DEF Processes, Executors
<1> QED BY <1>3, <1>5, <1>6 DEF Moves

\* Steps that are no process's, and touch no record.
LEMMA WorldQuiet ==
    ASSUME ExecutionInv,
           \/ OperatePaper \/ UNCHANGED vars
           \/ \E id \in DecisionIds : BrokerMoves(id)
    PROVE  /\ UNCHANGED <<requests, decisions, position, pc, local, demo, faults>>
           /\ \A id \in DecisionIds :
                 requests[id] \notin Unresolved => broker'[id] = broker[id]
<1>1. CASE OperatePaper \/ UNCHANGED vars
  BY <1>1, StoresParts DEF OperatePaper, SetKillSwitch, vars, paperVars, bounds
<1>2. ASSUME NEW id \in DecisionIds, BrokerMoves(id)
      PROVE  /\ UNCHANGED <<requests, decisions, position, pc, local, demo, faults>>
             /\ \A other \in DecisionIds :
                   requests[other] \notin Unresolved => broker'[other] = broker[other]
  BY <1>2, ResolvedRests DEF BrokerMoves, paperVars, bounds
<1> QED BY <1>1, <1>2

\* Every step keeps the agreement, while nothing has disturbed it.
LEMMA NextAgrees ==
    ASSUME IsFiniteSet(DecisionIds), OneRunner, ExecutionInv, HandInv, AgreeInv,
           [Next]_vars
    PROVE  AgreeInv'
<1> SUFFICES ASSUME Undisturbed' PROVE BooksAgree'
  BY DEF AgreeInv
<1>1. faults \in Nat /\ rebases \in Nat
  BY ExecutionAssumption DEF ExecutionInv, StoresOK
<1>2. ~Rebase /\ \A p \in Processes : ~StoreFault(p)
  BY <1>1 DEF Undisturbed, Rebase, StoreFault
<1>3. BooksAgree
  <2>1. faults' >= faults /\ rebases' >= rebases
    <3>1. ASSUME NEW p \in Processes,
                 \/ Launch(p) \/ StartStep(p) \/ NoProposal(p) \/ CycleStep(p) \/ Crash(p)
                 \/ \E id \in DecisionIds : Propose(p, id)
          PROVE  UNCHANGED <<faults, rebases>>
      BY <3>1
         DEF Launch, StartStep, ReadDemo, TakeSnapshot, CheckPending, CheckRecords,
             CheckExposure, Check, MarkReconciled, FailReconcile, StartDemo, ReadPaper,
             ResumePaper, NoProposal, CycleStep, Evaluate, CheckSwitch, CheckIds,
             Collide, Reserve, Send, HearOutcome, GiveUp, StopUnknown, Finish, Audit,
             StopPaper, StopDemoToo, HaltPaper, HaltDemo, Crash, Propose, stores,
             exceptDemo, bounds
    <3>2. ASSUME \/ OperatePaper \/ UNCHANGED vars
                 \/ \E id \in DecisionIds : BrokerMoves(id)
          PROVE  UNCHANGED <<faults, rebases>>
      BY <3>2 DEF OperatePaper, vars, BrokerMoves, bounds
    <3> QED BY <1>1, <1>2, <3>1, <3>2 DEF Next
  <2>2. Undisturbed
    BY <1>1, <2>1 DEF Undisturbed
  <2> QED BY <2>2 DEF AgreeInv
<1>4. ASSUME NEW p \in Runners, StartStep(p) PROVE BooksAgree'
  BY <1>3, <1>4, StartAgrees
<1>5. ASSUME NEW p \in Runners, CycleStep(p) PROVE BooksAgree'
  BY <1>3, <1>5, EvaluateAgrees, ReserveAgrees, FinishAgrees, CycleAgrees
<1>6. ASSUME NEW p \in Runners,
             \/ Launch(p) \/ NoProposal(p) \/ Crash(p)
             \/ \E id \in DecisionIds : Propose(p, id)
      PROVE  BooksAgree'
  BY <1>3, <1>6, ControlAgrees
<1>7. ASSUME NEW p \in Operators,
             \/ Launch(p) \/ StartStep(p) \/ NoProposal(p) \/ CycleStep(p) \/ Crash(p)
             \/ \E id \in DecisionIds : Propose(p, id)
      PROVE  BooksAgree'
  <2>1. /\ UNCHANGED <<requests, decisions, position, broker>>
        /\ \A q \in Runners : pc'[q] = pc[q] /\ local'[q] = local[q]
    BY <1>7, OperatorQuiet
  <2> QED BY <1>3, <2>1, OthersQuiet
<1>8. ASSUME \/ OperatePaper \/ UNCHANGED vars
             \/ \E id \in DecisionIds : BrokerMoves(id)
      PROVE  BooksAgree'
  <2>1. /\ UNCHANGED <<requests, decisions, position, pc, local>>
        /\ \A id \in DecisionIds :
              requests[id] \notin Unresolved => broker'[id] = broker[id]
    BY <1>8, WorldQuiet
  <2> QED BY <1>3, <2>1, OthersQuiet
<1>9. Processes = Runners \cup Operators
  BY DEF OneRunner, Processes, Executors
<1> QED BY <1>2, <1>4, <1>5, <1>6, <1>7, <1>8, <1>9 DEF Next

\* The books are empty at the start.
LEMMA InitAgrees ==
    ASSUME IsFiniteSet(DecisionIds), Init
    PROVE  AgreeInv
<1>1. Lagging = {}
  BY DEF Init, ContractInit, NoDecisions, Lagging
<1>2. Decided = [id \in DecisionIds |-> 0]
  BY DEF Init, ContractInit, NoDecisions, Decided
<1>3. position * VolumePerUnit = 0
  BY ExecutionAssumption DEF Init, ContractInit
<1>4. Books
  BY <1>1, <1>2, <1>3, TotalOfNothing DEF Books, Init
<1>5. \A p \in Runners : pc[p] = "off"
  BY DEF Init, Processes, Executors
<1> QED BY <1>1, <1>4, <1>5 DEF AgreeInv, BooksAgree, AgreedAt, AdapterSteps

\* What the runner relies on: one runner, any number of operators.
THEOREM AgreementStays ==
    ASSUME IsFiniteSet(DecisionIds), OneRunner
    PROVE  Spec => []AgreeInv
<1>1. Init => AgreeInv
  BY InitAgrees
<1>2. ExecutionInv /\ HandInv /\ AgreeInv /\ [Next]_vars => AgreeInv'
  BY NextAgrees
<1> QED BY <1>1, <1>2, ExecutionSound, HandsStayLawful, PTL DEF Spec

\* A runner that is ready finds every order resolved and the broker's exposure that
\* of the paper account, whatever crashed, stopped or was lost before
\* (DemoAutomationRunner.start, CTraderDemoStore reconciliation).
THEOREM RunnerAgrees ==
    ASSUME IsFiniteSet(DecisionIds), OneRunner
    PROVE  Spec => []AgreedWhenReady
<1>1. ExecutionInv /\ AgreeInv => AgreedWhenReady
  <2> SUFFICES ASSUME ExecutionInv, AgreeInv, Undisturbed,
                      NEW p \in Runners, At(p, "ready")
               PROVE  /\ \A id \in DecisionIds : requests[id] \notin Unresolved
                      /\ position * VolumePerUnit = Net(broker)
    BY DEF AgreedWhenReady
  <2>1. Books /\ Lagging = {}
    BY DEF AgreeInv, BooksAgree, AgreedAt, At
  <2> QED BY <2>1, NothingLags DEF Resolved
<1> QED BY <1>1, ExecutionSound, AgreementStays, PTL

-----------------------------------------------------------------------------
(* No order is sent past an open one.                                          *)

\* At most one access to a store fails, and none while operators may start demo
\* again behind the runner.
OneFault == MaxFaults = 0 \/ (MaxFaults = 1 /\ Operators = {})

\* Every record but the one in hand is resolved.
OthersResolved(p) ==
    \A id \in DecisionIds \ {local[p].id} : requests[id] \notin Unresolved

\* Demo execution is stopped and nobody is left to start it, or at least no
\* further access may fail.
Blocked == demo.stopped /\ Operators = {}
Spent == Blocked \/ faults = MaxFaults

\* Which records the runner has seen resolved at each of its steps.
ResolvedAt(p) ==
    /\ pc[p] \in {"records", "exposure", "mark", "start_demo", "read_paper",
                  "resume_paper", "check_ids", "collide", "reserve"} => Resolved
    /\ pc[p] \in {"ready", "evaluate", "check_switch"} => Resolved \/ Blocked
    /\ pc[p] \in {"send", "await", "stop_unknown", "finish"} => OthersResolved(p)
    /\ pc[p] = "finish" /\ local[p].verdict = "unknown" => Spent
    /\ pc[p] \in {"audit", "stop_paper", "stop_demo"} => Resolved \/ Spent
    /\ pc[p] = "audit" /\ local[p].verdict = "accepted" => Resolved

ResolvedInv == \A p \in Runners : ResolvedAt(p)

\* At these steps the runner has seen nothing yet, or is done.
LEMMA NothingSeen ==
    ASSUME NEW p \in Runners,
           pc'[p] \in {"off", "read_demo", "snapshot", "pending", "fail_reconcile",
                       "halt_paper", "halt_demo"}
    PROVE  ResolvedAt(p)'
BY DEF ResolvedAt

\* Everything resolved serves any step but those of an order in hand.
LEMMA AllSeen ==
    ASSUME NEW p \in Runners, Resolved',
           pc'[p] \in {"records", "exposure", "mark", "start_demo", "read_paper",
                       "resume_paper", "ready", "evaluate", "check_switch", "check_ids",
                       "collide", "reserve", "audit", "stop_paper", "stop_demo"}
    PROVE  ResolvedAt(p)'
BY DEF ResolvedAt

\* The steps of a start.
LEMMA StartResolves ==
    ASSUME ExecutionInv, NEW p \in Runners, ResolvedAt(p), StartStep(p)
    PROVE  ResolvedAt(p)'
<1>1. ControlOK /\ p \in Processes
  BY DEF ExecutionInv, Processes, Executors
<1>2. Resolved' = Resolved
  <2>1. UNCHANGED requests
    BY StoresParts
       DEF StartStep, ReadDemo, TakeSnapshot, CheckPending, CheckRecords, CheckExposure,
           Check, MarkReconciled, FailReconcile, StartDemo, ReadPaper, ResumePaper
  <2> QED BY <2>1 DEF Resolved
<1>3. ASSUME NEW step, NEW memory, Go(p, step) \/ GoWith(p, step, memory)
      PROVE  pc'[p] = step
  BY <1>1, <1>3, Lands
<1>4. /\ Exit(p) => pc'[p] = "off"
      /\ Ready(p) => pc'[p] = "ready"
      /\ FailStart(p) => pc'[p] \in {"off", "halt_paper"}
  BY <1>3 DEF Exit, Ready, FailStart, Halt
<1>5. CASE ReadDemo(p) \/ TakeSnapshot(p) \/ FailReconcile(p)
  <2>1. \/ Exit(p) \/ FailStart(p)
        \/ \E step \in {"snapshot", "pending", "fail_reconcile"} : \E memory :
              Go(p, step) \/ GoWith(p, step, memory)
    BY <1>5 DEF ReadDemo, TakeSnapshot, FailReconcile
  <2>2. pc'[p] \in {"off", "halt_paper", "snapshot", "pending", "fail_reconcile"}
    BY <1>3, <1>4, <2>1
  <2> QED BY <2>2, NothingSeen
<1>6. CASE CheckPending(p)
  <2>1. pc'[p] = "fail_reconcile" \/ (Resolved /\ pc'[p] = "records")
    BY <1>3, <1>6 DEF CheckPending, Check, Resolved
  <2> QED BY <1>2, <2>1, NothingSeen, AllSeen
<1>7. CASE \/ CheckRecords(p) \/ CheckExposure(p) \/ MarkReconciled(p) \/ StartDemo(p)
           \/ ReadPaper(p) \/ ResumePaper(p)
  <2>1. Resolved
    BY <1>7 DEF CheckRecords, CheckExposure, Check, MarkReconciled, StartDemo, ReadPaper,
                ResumePaper, At, ResolvedAt
  <2>2. \/ Exit(p) \/ Ready(p) \/ FailStart(p)
        \/ \E step \in {"fail_reconcile", "exposure", "mark", "start_demo", "read_paper",
                        "resume_paper"} : Go(p, step)
    BY <1>7 DEF CheckRecords, CheckExposure, Check, MarkReconciled, StartDemo, ReadPaper,
                ResumePaper
  <2>3. pc'[p] \in {"off", "halt_paper", "ready", "fail_reconcile", "exposure", "mark",
                    "start_demo", "read_paper", "resume_paper"}
    BY <1>3, <1>4, <2>2
  <2> QED BY <1>2, <2>1, <2>3, NothingSeen, AllSeen
<1> QED BY <1>5, <1>6, <1>7 DEF StartStep

\* The steps of a cycle.
LEMMA CycleResolves ==
    ASSUME OneFault, ExecutionInv, ExecutionInv', NEW p \in Runners, ResolvedAt(p),
           CycleStep(p)
    PROVE  ResolvedAt(p)'
<1> DEFINE id == local[p].id
<1>1. ControlOK /\ StoresOK /\ p \in Processes
  BY DEF ExecutionInv, Processes, Executors
<1>2. faults \in 0 .. MaxFaults /\ UNCHANGED faults
  BY <1>1
     DEF StoresOK, CycleStep, Evaluate, CheckSwitch, CheckIds, Collide, Reserve, Send,
         HearOutcome, GiveUp, StopUnknown, Finish, Audit, StopPaper, StopDemoToo,
         HaltPaper, HaltDemo, stores, exceptDemo, bounds
<1>3. Operators = {} \/ faults = MaxFaults
  BY <1>2 DEF OneFault
<1>4. ASSUME NEW step, Go(p, step) PROVE pc'[p] = step /\ local'[p] = local[p]
  BY <1>1, <1>4, Lands
<1>5. ASSUME NEW step, NEW memory, GoWith(p, step, memory)
      PROVE  pc'[p] = step /\ local'[p] = memory
  BY <1>1, <1>5, Lands
<1>6. /\ Exit(p) => pc'[p] = "off"
      /\ Ready(p) => pc'[p] = "ready"
      /\ \A reason : Halt(p, reason) => pc'[p] = "halt_paper"
  BY <1>5 DEF Exit, Ready, Halt
<1>7. ASSUME NEW verdict, Conclude(p, verdict)
      PROVE  pc'[p] = "audit" /\ local'[p].verdict = verdict
  <2> DEFINE memory == [local[p] EXCEPT !.verdict = verdict]
  <2>1. memory.verdict = verdict
    BY <1>1, Remembers
  <2>2. GoWith(p, "audit", memory)
    BY <1>7 DEF Conclude
  <2> HIDE DEF memory
  <2> QED BY <1>5, <2>1, <2>2
<1>8. /\ UNCHANGED stores => UNCHANGED <<requests, demo>>
      /\ UNCHANGED exceptDemo => UNCHANGED requests
  BY DEF stores, exceptDemo
<1>9. UNCHANGED requests => Resolved' = Resolved
  BY DEF Resolved
<1>10. CASE Evaluate(p)
  <2>1. UNCHANGED <<requests, demo>> /\ (Resolved \/ Blocked)
    BY <1>10 DEF Evaluate, At, ResolvedAt
  <2>2. pc'[p] \in {"check_switch", "ready"}
    BY <1>4, <1>6, <1>10 DEF Evaluate
  <2> QED BY <1>9, <2>1, <2>2 DEF ResolvedAt, Blocked
<1>11. CASE CheckSwitch(p)
  <2>1. UNCHANGED <<requests, demo>> /\ (Resolved \/ Blocked)
    BY <1>8, <1>11 DEF CheckSwitch, At, ResolvedAt
  <2>2. CASE demo.stopped
    <3>1. pc'[p] = "audit" /\ local'[p].verdict = "absent"
      BY <1>7, <1>11, <2>2 DEF CheckSwitch
    <3> QED BY <1>9, <2>1, <3>1 DEF ResolvedAt, Blocked, Spent
  <2>3. CASE ~demo.stopped
    <3>1. pc'[p] = "check_ids"
      BY <1>4, <1>11, <2>3 DEF CheckSwitch
    <3> QED BY <1>9, <2>1, <2>3, <3>1, AllSeen DEF Blocked
  <2> QED BY <2>2, <2>3
<1>12. CASE CheckIds(p) \/ Collide(p)
  <2>1. UNCHANGED requests /\ Resolved
    BY <1>8, <1>12 DEF CheckIds, Collide, At, ResolvedAt
  <2>2. pc'[p] \in {"collide", "reserve", "audit"}
    BY <1>4, <1>7, <1>12 DEF CheckIds, Collide
  <2> QED BY <1>9, <2>1, <2>2, AllSeen
<1>13. CASE Reserve(p)
  <2>1. Resolved
    BY <1>13 DEF Reserve, At, ResolvedAt
  <2>2. CASE requests' = [requests EXCEPT ![id] = "pending"] /\ Go(p, "send")
    <3>1. pc'[p] = "send" /\ local'[p].id = id
      BY <1>4, <2>2
    <3>2. \A other \in DecisionIds \ {id} : requests'[other] = requests[other]
      BY <1>1, <2>2 DEF StoresOK
    <3> QED BY <2>1, <3>1, <3>2 DEF ResolvedAt, OthersResolved, Resolved
  <2>3. CASE Conclude(p, requests[id]) /\ UNCHANGED requests
    BY <1>7, <1>9, <2>1, <2>3, AllSeen
  <2> QED BY <1>13, <2>2, <2>3 DEF Reserve
<1>14. CASE Send(p) \/ HearOutcome(p) \/ GiveUp(p)
  <2>1. UNCHANGED requests /\ OthersResolved(p)
    BY <1>8, <1>14 DEF Send, HearOutcome, GiveUp, At, ResolvedAt
  <2>2. \E step \in {"await", "stop_unknown", "finish"} :
           \/ step # "finish" /\ Go(p, step)
           \/ \E memory : /\ GoWith(p, step, memory)
                          /\ memory.id = id
                          /\ step = "finish" => memory.verdict # "unknown"
    <3>1. \A x : /\ [local[p] EXCEPT !.verdict = x].id = id
                 /\ [local[p] EXCEPT !.verdict = x].verdict = x
                 /\ [local[p] EXCEPT !.why = x].id = id
      BY <1>1, Remembers
    <3>2. CASE Send(p) \/ GiveUp(p)
      BY <3>1, <3>2 DEF Send, GiveUp
    <3>3. CASE HearOutcome(p)
      <4> DEFINE phase == broker[id].phase
                 verdict == IF phase = "filled" THEN "accepted" ELSE phase
                 memory == [local[p] EXCEPT !.verdict = verdict]
      <4>1. verdict # "unknown" /\ GoWith(p, "finish", memory)
        BY <3>3 DEF HearOutcome
      <4>2. memory.id = id /\ memory.verdict = verdict
        BY <3>1
      <4> HIDE DEF memory, verdict
      <4> QED BY <4>1, <4>2
    <3> QED BY <1>14, <3>2, <3>3
  <2>3. /\ pc'[p] \in {"await", "stop_unknown", "finish"} /\ local'[p].id = id
        /\ pc'[p] = "finish" => local'[p].verdict # "unknown"
    BY <1>4, <1>5, <2>2
  <2> QED BY <2>1, <2>3 DEF ResolvedAt, OthersResolved
<1>15. CASE StopUnknown(p)
  <2>1. UNCHANGED requests /\ OthersResolved(p) /\ demo'.stopped
    BY <1>8, <1>15 DEF StopUnknown, StopDemo, At, ResolvedAt
  <2>2. pc'[p] = "finish" /\ local'[p].id = id
    <3> DEFINE memory == [local[p] EXCEPT !.verdict = "unknown"]
    <3>1. memory.id = id
      BY <1>1, Remembers
    <3>2. GoWith(p, "finish", memory)
      BY <1>15 DEF StopUnknown
    <3> HIDE DEF memory
    <3> QED BY <1>5, <3>1, <3>2
  <2> QED BY <1>2, <1>3, <2>1, <2>2 DEF ResolvedAt, OthersResolved, Spent, Blocked
<1>16. CASE Finish(p)
  <2>1. /\ OthersResolved(p)
        /\ local[p].verdict = "unknown" => Spent
        /\ local[p].verdict \in {"accepted", "rejected", "unknown"}
    BY <1>1, <1>16 DEF Finish, At, ResolvedAt, ExecutionInv, OrderInv, VerdictInHand
  <2>2. /\ requests' = [requests EXCEPT ![id] = local[p].verdict] /\ UNCHANGED demo
        /\ pc'[p] = "audit" /\ local'[p] = local[p]
    BY <1>4, <1>16 DEF Finish
  <2>3. local[p].verdict # "unknown" => Resolved'
    BY <1>1, <2>1, <2>2 DEF StoresOK, OthersResolved, Resolved, Unresolved
  <2> QED BY <1>2, <2>1, <2>2, <2>3 DEF ResolvedAt, Spent, Blocked
<1>17. CASE Audit(p)
  <2>1. /\ UNCHANGED <<requests, demo>>
        /\ Resolved \/ Spent
        /\ local[p].verdict = "accepted" => Resolved
    BY <1>8, <1>17 DEF Audit, At, ResolvedAt
  <2>2. \/ local[p].verdict = "accepted" /\ pc'[p] = "ready"
        \/ pc'[p] = "stop_paper"
    BY <1>4, <1>6, <1>17 DEF Audit
  <2> QED BY <1>2, <1>9, <2>1, <2>2 DEF ResolvedAt, Spent, Blocked
<1>18. CASE StopPaper(p)
  <2>1. UNCHANGED <<requests, demo>> /\ (Resolved \/ Spent)
    BY <1>18 DEF StopPaper, At, ResolvedAt
  <2>2. pc'[p] = "stop_demo"
    BY <1>4, <1>18 DEF StopPaper
  <2> QED BY <1>2, <1>9, <2>1, <2>2 DEF ResolvedAt, Spent, Blocked
<1>19. CASE StopDemoToo(p) \/ HaltPaper(p) \/ HaltDemo(p)
  <2>1. pc'[p] \in {"off", "halt_paper", "halt_demo"}
    BY <1>4, <1>6, <1>19 DEF StopDemoToo, HaltPaper, HaltDemo
  <2> QED BY <2>1, NothingSeen
<1> QED
  BY <1>10, <1>11, <1>12, <1>13, <1>14, <1>15, <1>16, <1>17, <1>18, <1>19 DEF CycleStep

\* Launching, proposing, finding nothing, crashing, and a failing access.
LEMMA ControlResolves ==
    ASSUME OneFault, ExecutionInv, NEW p \in Runners, ResolvedAt(p),
           \/ Launch(p) \/ NoProposal(p) \/ Crash(p) \/ StoreFault(p)
           \/ \E id \in DecisionIds : Propose(p, id)
    PROVE  ResolvedAt(p)'
<1>1. ControlOK /\ StoresOK /\ p \in Processes
  BY DEF ExecutionInv, Processes, Executors
<1>2. UNCHANGED <<requests, demo>>
  BY DEF Launch, NoProposal, Crash, StoreFault, Propose, stores, exceptDemo
<1>3. Resolved' = Resolved
  BY <1>2 DEF Resolved
<1>4. ASSUME NEW step, NEW memory, Go(p, step) \/ GoWith(p, step, memory)
      PROVE  pc'[p] = step
  BY <1>1, <1>4, Lands
<1>5. /\ Exit(p) => pc'[p] = "off"
      /\ FailStart(p) => pc'[p] \in {"off", "halt_paper"}
      /\ Ready(p) => pc'[p] = "ready"
      /\ FailCycle(p) => pc'[p] \in {"ready", "halt_paper"}
  BY <1>4 DEF Exit, Ready, FailStart, FailCycle, Halt
<1>6. CASE Launch(p) \/ Crash(p)
  <2>1. p \notin Agents /\ p \notin Operators
    BY ExecutionAssumption DEF Executors
  <2>2. pc'[p] \in {"off", "read_demo"}
    BY <1>4, <1>5, <1>6, <2>1 DEF Launch, Crash
  <2> QED BY <2>2, NothingSeen
<1>7. CASE NoProposal(p) \/ \E id \in DecisionIds : Propose(p, id)
  <2>1. Resolved \/ Blocked
    BY <1>7 DEF NoProposal, Propose, At, ResolvedAt
  <2>2. pc'[p] \in {"ready", "halt_paper", "evaluate"}
    BY <1>4, <1>5, <1>7 DEF NoProposal, Propose
  <2> QED BY <1>2, <1>3, <2>1, <2>2 DEF ResolvedAt, Blocked
<1>8. CASE StoreFault(p)
  <2>1. faults < MaxFaults /\ faults' = MaxFaults
    BY <1>1, <1>8, ExecutionAssumption DEF StoreFault, StoresOK, OneFault
  <2>2. CASE Conclude(p, "absent")
    <3> DEFINE memory == [local[p] EXCEPT !.verdict = "absent"]
    <3>1. memory.verdict = "absent"
      BY <1>1, Remembers
    <3>2. GoWith(p, "audit", memory)
      BY <2>2 DEF Conclude
    <3> HIDE DEF memory
    <3>3. pc'[p] = "audit" /\ local'[p].verdict = "absent"
      BY <1>1, <3>1, <3>2, Lands
    <3> QED BY <2>1, <3>3 DEF ResolvedAt, Spent
  <2>3. CASE pc[p] \in CoordinatorSteps /\ FailCycle(p)
    <3>1. Resolved \/ Blocked
      BY <1>1, <2>1, <2>3, ExecutionAssumption DEF ResolvedAt, CoordinatorSteps, Spent,
                                                   StoresOK
    <3> QED BY <1>2, <1>3, <1>5, <2>3, <3>1 DEF ResolvedAt, Blocked
  <2>4. CASE \/ Exit(p) \/ FailStart(p)
             \/ \E step \in {"fail_reconcile", "halt_demo"} : Go(p, step)
    <3>1. pc'[p] \in {"off", "halt_paper", "fail_reconcile", "halt_demo"}
      BY <1>4, <1>5, <2>4
    <3> QED BY <3>1, NothingSeen
  <2> QED BY <1>8, <2>2, <2>3, <2>4 DEF StoreFault
<1> QED BY <1>6, <1>7, <1>8

\* A step of anyone else leaves what the runner has seen as it is.
LEMMA OthersResolve ==
    ASSUME OneFault, ExecutionInv, ExecutionInv', NEW p \in Runners, ResolvedAt(p),
           UNCHANGED requests, pc'[p] = pc[p], local'[p] = local[p],
           Operators # {} \/ UNCHANGED <<demo, faults>>
    PROVE  ResolvedAt(p)'
<1>1. Resolved' = Resolved /\ OthersResolved(p)' = OthersResolved(p)
  BY DEF Resolved, OthersResolved
<1>2. CASE Operators # {}
  <2>1. faults = MaxFaults /\ faults' = MaxFaults /\ ~Blocked /\ ~Blocked'
    BY <1>2 DEF OneFault, ExecutionInv, StoresOK, Blocked
  <2> QED BY <1>1, <2>1 DEF ResolvedAt, Spent
<1>3. CASE UNCHANGED <<demo, faults>>
  BY <1>1, <1>3 DEF ResolvedAt, Spent, Blocked
<1> QED BY <1>2, <1>3

\* Every step keeps what the runner has seen resolved.
LEMMA NextResolves ==
    ASSUME OneRunner, OneFault, ExecutionInv, ExecutionInv', HandInv, ResolvedInv,
           [Next]_vars
    PROVE  ResolvedInv'
<1> SUFFICES ASSUME NEW r \in Runners PROVE ResolvedAt(r)'
  BY DEF ResolvedInv
<1>1. ResolvedAt(r) /\ Processes = Runners \cup Operators /\ \A p \in Runners : p = r
  BY DEF ResolvedInv, OneRunner, Processes, Executors
<1>2. ASSUME NEW p \in Runners,
             \/ Launch(p) \/ StartStep(p) \/ NoProposal(p) \/ CycleStep(p) \/ Crash(p)
             \/ StoreFault(p) \/ \E id \in DecisionIds : Propose(p, id)
      PROVE  ResolvedAt(r)'
  <2>1. p = r
    BY <1>1
  <2> QED BY <1>1, <1>2, <2>1, StartResolves, CycleResolves, ControlResolves
<1>3. ASSUME NEW p \in Operators,
             \/ Launch(p) \/ StartStep(p) \/ NoProposal(p) \/ CycleStep(p) \/ Crash(p)
             \/ StoreFault(p) \/ \E id \in DecisionIds : Propose(p, id)
      PROVE  ResolvedAt(r)'
  <2>1. UNCHANGED requests /\ pc'[r] = pc[r] /\ local'[r] = local[r] /\ Operators # {}
    BY <1>3, OperatorQuiet
  <2> QED BY <1>1, <2>1, OthersResolve
<1>4. ASSUME \/ OperatePaper \/ UNCHANGED vars
             \/ \E id \in DecisionIds : BrokerMoves(id)
      PROVE  ResolvedAt(r)'
  <2>1. UNCHANGED <<requests, pc, local, demo, faults>>
    BY <1>4, WorldQuiet
  <2> QED BY <1>1, <2>1, OthersResolve
<1>5. CASE Rebase
  BY <1>1, <1>5, OthersResolve DEF Rebase
<1> QED BY <1>1, <1>2, <1>3, <1>4, <1>5 DEF Next

\* Before it sends, the runner has seen every other order resolved.
THEOREM RunnerResolves ==
    ASSUME OneRunner, OneFault
    PROVE  Spec => []ResolvedInv
<1>1. Init => ResolvedInv
  BY DEF Init, ResolvedInv, ResolvedAt, Processes, Executors
<1>2. ExecutionInv /\ HandInv /\ ResolvedInv /\ [Next]_vars /\ ExecutionInv'
         => ResolvedInv'
  BY NextResolves
<1> QED BY <1>1, <1>2, ExecutionSound, HandsStayLawful, PTL DEF Spec

\* A lone runner trades on what paper accepted and the broker holds, never starts
\* against a stop, and never sends past an open order: for any decisions, broker
\* ids, operators, crashes, and as many failing accesses as OneFault grants
\* (DemoAutomationRunner.start and run_cycle, CTraderDemoExecutionAdapter.execute).
THEOREM RunnerStaysSound ==
    ASSUME IsFiniteSet(DecisionIds), OneRunner, OneFault
    PROVE  Spec => RunnerHolds
<1>1. TypeOK' /\ AgreedWhenReady' => RunnerIsSound'
  BY DEF RunnerIsSound
<1>2. ExecutionInv /\ HandInv /\ ResolvedInv /\ [Next]_vars => [SentOnlyResolved]_vars
  <2> SUFFICES ASSUME ExecutionInv, HandInv, ResolvedInv, [Next]_vars,
                      NEW id \in DecisionIds, NEW other \in DecisionIds,
                      submissions'[id] > submissions[id], requests[other] \in Unresolved
               PROVE  other = id
    BY DEF SentOnlyResolved
  <2>1. PICK p \in Processes : local[p].id = id /\ pc[p] = "send"
    BY SubmitsOnly
  <2>2. p \in Runners
    BY <2>1 DEF HandInv, OperatorsOnlyStart, OneRunner, Processes, Executors
  <2>3. OthersResolved(p)
    BY <2>1, <2>2 DEF ResolvedInv, ResolvedAt
  <2> QED BY <2>1, <2>3 DEF OthersResolved
<1>3. /\ [Next]_vars /\ RunnerIsSound' /\ [BrokerNeedsPaper]_vars
      /\ [DemoStopHolds]_vars /\ [SentOnlyResolved]_vars
      => [RunnerStep]_vars
  BY DEF RunnerStep
<1> QED
  BY <1>1, <1>2, <1>3, ExecutionTypeCorrect, RunnerAgrees, OnlyAcceptedIsSent,
     DemoStopsHold, ExecutionSound, HandsStayLawful, RunnerResolves, PTL
     DEF Spec, RunnerHolds
=============================================================================
