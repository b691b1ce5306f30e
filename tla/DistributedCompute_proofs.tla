---------------------- MODULE DistributedCompute_proofs ----------------------
(***************************************************************************)
(* Theorems about the remote coordinator and its pool, for any number of   *)
(* threads, experiments and restarts.                                      *)
(***************************************************************************)
EXTENDS DistributedCompute, Promotion_proofs, FiniteSetTheorems

-----------------------------------------------------------------------------
(* The inductive invariant.                                                *)

ThreadOK(t) ==
    /\ proc[t].pc \in {"free", "done", "raised"} \cup Busy
    /\ JobOK(t)

MainOK ==
    /\ proc[Main].pc \in {"starting", "loop", "releasing", "gating", "dispatching",
                          "collecting"}
    /\ At(Main, "releasing") => ReadCommitted /\ proc[Main].after \in {"loop", "gating"}

\* A row that is running was claimed by this process or by one before it.
OwnedByNow(e) ==
    status[e] = "running" => \E q \in Pids : q <= pid /\ owner[e] \in {q} \X Nat

\* The thread t works on the row e with the lease of the row.
WorksFor(t, e) == proc[t].pc \in Busy /\ Job(t) = e /\ proc[t].id = owner[e]

\* NoStrandedLease, one experiment at a time.
NotStranded(e) ==
    OwnedByProcess(e, pid) /\ e \notin unwritten => \E t \in Threads : WorksFor(t, e)

PoolInv ==
    /\ TypeOK
    /\ MainOK
    /\ \A t \in Threads : ThreadOK(t)
    /\ \A e \in Experiments : OwnedByNow(e) /\ NotStranded(e)

LEMMA PoolFacts ==
    ASSUME TypeOK
    PROVE  /\ PromotionTypeOK /\ RegistryTypeOK
           /\ status \in [Experiments -> Statuses]
           /\ owner \in [Experiments -> WorkerIds \cup {Nobody}]
           /\ retries \in [Experiments -> Nat]
           /\ outcome \in Outcomes
           /\ proc \in [Processes -> States]
           /\ championFile \in 0..MaxScore
           /\ holdoutReads \in 0..2
           /\ pid \in Pids /\ pid \in Nat
           /\ Main \in Processes /\ Threads \subseteq Processes /\ Main \notin Threads
BY ComputeAssumption DEF TypeOK, PromotionTypeOK, RegistryTypeOK

\* The threads at work are those at a busy place.
LEMMA WorkingIsBusy ==
    ASSUME \A t \in Threads : ThreadOK(t)
    PROVE  Working = {t \in Threads : proc[t].pc \in Busy}
BY DEF Working, Active, At, ThreadOK, Busy

LEMMA StrandedAll ==
    ASSUME \A t \in Threads : ThreadOK(t)
    PROVE  NoStrandedLease <=> \A e \in Experiments : NotStranded(e)
<1>1. Working = {t \in Threads : proc[t].pc \in Busy}
  BY WorkingIsBusy
<1> QED BY <1>1 DEF NoStrandedLease, NotStranded, WorksFor

-----------------------------------------------------------------------------
(* The shapes that most steps have.                                        *)

\* Rows only lose owners, and a thread that works on a row that runs on keeps
\* at it, or could not write its job file.
LEMMA LeasesKept ==
    ASSUME PoolInv, TypeOK', MainOK', \A t \in Threads : ThreadOK(t)',
           pid' = pid, unwritten \subseteq unwritten',
           \A e \in Experiments :
               \/ status'[e] # "running"
               \/ owner'[e] = owner[e] /\ status'[e] = status[e],
           \A t \in Threads, e \in Experiments :
               WorksFor(t, e) /\ status'[e] = "running" /\ owner'[e] = owner[e] =>
                   WorksFor(t, e)' \/ e \in unwritten'
    PROVE  PoolInv'
<1>1. ASSUME NEW e \in Experiments PROVE OwnedByNow(e)' /\ NotStranded(e)'
  <2>1. OwnedByNow(e) /\ NotStranded(e)
    BY DEF PoolInv
  <2>2. CASE status'[e] # "running"
    BY <2>2 DEF OwnedByNow, NotStranded, OwnedByProcess
  <2>3. CASE owner'[e] = owner[e] /\ status'[e] = status[e]
    <3>1. OwnedByNow(e)'
      BY <2>1, <2>3 DEF OwnedByNow
    <3>2. NotStranded(e)'
      BY <2>1, <2>3 DEF NotStranded, OwnedByProcess
    <3> QED BY <3>1, <3>2
  <2> QED BY <2>2, <2>3
<1> QED BY <1>1 DEF PoolInv

\* What a step must keep of the types when the state of the pool has its own.
LEMMA TypesKept ==
    ASSUME TypeOK, RegistryTypeOK', proc' \in [Processes -> States],
           UNCHANGED <<outcome, championFile, holdoutReads, pid, draining>>,
           directories' \subseteq Experiments, failures' \in 0..MaxFailures,
           circuitOpen' \in BOOLEAN, unwritten' \subseteq Experiments,
           slow' \in 0..MaxSlow, faults' \in 0..MaxFaults,
           \A e \in Experiments : status'[e] \in {"absent", "queued"} => owner'[e] = Nobody
    PROVE  TypeOK'
<1>1. PromotionTypeOK'
  BY DEF TypeOK, PromotionTypeOK
<1> QED BY <1>1 DEF TypeOK

\* Only the main loop moves, and rows only lose owners.
LEMMA MainKeeps ==
    ASSUME PoolInv, RegistryTypeOK', proc' \in [Processes -> States],
           UNCHANGED <<outcome, championFile, holdoutReads, pid, directories, draining,
                       unwritten>>,
           failures' \in 0..MaxFailures, circuitOpen' \in BOOLEAN,
           slow' \in 0..MaxSlow, faults' \in 0..MaxFaults,
           MainOK', \A t \in Threads : proc'[t] = proc[t],
           \A e \in Experiments :
               \/ owner'[e] = Nobody /\ status'[e] # "running"
               \/ owner'[e] = owner[e] /\ status'[e] = status[e]
    PROVE  PoolInv'
<1>1. TypeOK'
  <2>1. \A e \in Experiments : status'[e] \in {"absent", "queued"} => owner'[e] = Nobody
    BY DEF PoolInv, TypeOK
  <2>2. directories' \subseteq Experiments /\ unwritten' \subseteq Experiments
    BY DEF PoolInv, TypeOK
  <2> QED BY <2>1, <2>2, TypesKept DEF PoolInv
<1>2. ASSUME NEW t \in Threads PROVE ThreadOK(t)'
  BY DEF PoolInv, ThreadOK, JobOK, At, Job, Score
<1>3. ASSUME NEW t \in Threads, NEW e \in Experiments, WorksFor(t, e), owner'[e] = owner[e]
      PROVE  WorksFor(t, e)'
  BY <1>3 DEF WorksFor, Job
<1> QED BY <1>1, <1>2, <1>3, LeasesKept

\* The main loop goes on.
LEMMA GotoMainKeeps ==
    ASSUME PoolInv, NEW there \in {"loop", "collecting", "dispatching"},
           Goto(Main, there) \/ Restart(Main, there), RegistryTypeOK',
           UNCHANGED <<outcome, championFile, holdoutReads, pid, directories, draining,
                       unwritten>>,
           failures' \in 0..MaxFailures, circuitOpen' \in BOOLEAN,
           slow' \in 0..MaxSlow, faults' \in 0..MaxFaults,
           UNCHANGED <<status, owner>>
    PROVE  PoolInv'
<1>t. /\ proc \in [Processes -> States] /\ Main \in Processes
      /\ Threads \subseteq Processes /\ Main \notin Threads
  BY PoolFacts DEF PoolInv
<1>1. there \in Idle \cup Busy
  BY DEF Idle
<1>2. proc' \in [Processes -> States]
  BY <1>t, <1>1, GotoType, ResetType, MoveType DEF Goto, Restart
<1>3. proc'[Main].pc = there /\ \A t \in Threads : proc'[t] = proc[t]
  BY <1>t DEF Goto, Restart, ResetTo, States
<1>4. MainOK'
  BY <1>3 DEF MainOK, At
<1> QED BY <1>2, <1>3, <1>4, MainKeeps

\* A future ends: the thread has no job, and every row it worked on was finished,
\* given back or lost, or its job file could not be written.
LEMMA FutureEnds ==
    ASSUME PoolInv, NEW t \in Threads, NEW s \in States,
           s.pc \in {"free", "done", "raised"}, proc' = [proc EXCEPT ![t] = s],
           RegistryTypeOK',
           UNCHANGED <<outcome, championFile, holdoutReads, pid, draining>>,
           directories' \subseteq Experiments, failures' \in 0..MaxFailures,
           circuitOpen' \in BOOLEAN, unwritten' \subseteq Experiments,
           slow' \in 0..MaxSlow, faults' \in 0..MaxFaults,
           unwritten \subseteq unwritten',
           \A e \in Experiments :
               \/ owner'[e] = Nobody /\ status'[e] # "running"
               \/ owner'[e] = owner[e] /\ status'[e] \in {status[e], "completed"},
           \A e \in Experiments : WorksFor(t, e) =>
               status'[e] # "running" \/ e \in unwritten'
    PROVE  PoolInv'
<1>t. /\ proc \in [Processes -> States] /\ Main \in Processes
      /\ Threads \subseteq Processes /\ Main \notin Threads
  BY PoolFacts DEF PoolInv
<1>1. s.pc \notin Busy
  BY DEF Busy
<1>2. proc' \in [Processes -> States]
  BY <1>t, MoveType
<1>3. proc'[t] = s /\ \A p \in Processes \ {t} : proc'[p] = proc[p]
  BY <1>t
<1>4. TypeOK'
  <2>1. \A e \in Experiments : status'[e] \in {"absent", "queued"} => owner'[e] = Nobody
    BY DEF PoolInv, TypeOK
  <2> QED BY <1>2, <2>1, TypesKept DEF PoolInv
<1>5. MainOK'
  BY <1>t, <1>3 DEF PoolInv, MainOK, At
<1>6. ASSUME NEW u \in Threads PROVE ThreadOK(u)'
  <2>1. CASE u = t
    BY <1>1, <1>3, <2>1 DEF ThreadOK, JobOK, At, Busy
  <2>2. CASE u # t
    BY <1>t, <1>3, <2>2 DEF PoolInv, ThreadOK, JobOK, At, Job, Score
  <2> QED BY <2>1, <2>2
<1>7. \A e \in Experiments : \/ status'[e] # "running"
                             \/ owner'[e] = owner[e] /\ status'[e] = status[e]
  OBVIOUS
<1>8. ASSUME NEW u \in Threads, NEW e \in Experiments, WorksFor(u, e),
             status'[e] = "running", owner'[e] = owner[e]
      PROVE  WorksFor(u, e)' \/ e \in unwritten'
  <2>1. CASE u = t
    BY <1>8, <2>1
  <2>2. CASE u # t
    BY <1>t, <1>3, <1>8, <2>2 DEF WorksFor, Job
  <2> QED BY <2>1, <2>2
<1> QED BY <1>4, <1>5, <1>6, <1>7, <1>8, LeasesKept

\* A busy thread goes on with its job and its lease.
LEMMA ThreadKeeps ==
    ASSUME PoolInv, NEW t \in Threads, PromotionTypeOK', SameLease(t), JobOK(t)',
           proc'[t].id = proc[t].id, UNCHANGED <<pid, draining, unwritten>>,
           directories' \subseteq Experiments, failures' \in 0..MaxFailures,
           circuitOpen' \in BOOLEAN, slow' \in 0..MaxSlow, faults' \in 0..MaxFaults
    PROVE  PoolInv'
<1>t. /\ proc \in [Processes -> States] /\ Main \in Processes
      /\ Threads \subseteq Processes /\ Main \notin Threads
  BY PoolFacts DEF PoolInv
<1>1. /\ UNCHANGED <<leaseVars, outcome>> /\ proc' = [proc EXCEPT ![t] = proc'[t]]
      /\ proc[t].pc \in Busy /\ proc'[t].pc \in Busy /\ proc'[t].job = proc[t].job
  BY DEF SameLease, Job
<1>2. \A p \in Processes \ {t} : proc'[p] = proc[p]
  BY <1>t, <1>1
<1>3. TypeOK'
  BY <1>1 DEF PoolInv, TypeOK, leaseVars
<1>4. MainOK'
  BY <1>t, <1>2 DEF PoolInv, MainOK, At
<1>5. ASSUME NEW u \in Threads PROVE ThreadOK(u)'
  <2>1. CASE u = t
    BY <1>1, <2>1 DEF ThreadOK
  <2>2. CASE u # t
    BY <1>t, <1>1, <1>2, <2>2 DEF PoolInv, ThreadOK, JobOK, At, Job, Score, leaseVars
  <2> QED BY <2>1, <2>2
<1>6. ASSUME NEW u \in Threads, NEW e \in Experiments, WorksFor(u, e)
      PROVE  WorksFor(u, e)'
  <2>1. CASE u = t
    BY <1>1, <1>6, <2>1 DEF WorksFor, Job, leaseVars
  <2>2. CASE u # t
    BY <1>t, <1>1, <1>2, <1>6, <2>2 DEF WorksFor, Job, leaseVars
  <2> QED BY <2>1, <2>2
<1> QED BY <1>1, <1>3, <1>4, <1>5, <1>6, LeasesKept DEF leaseVars

-----------------------------------------------------------------------------
(* The initial states and the steps.                                       *)

\* A reset pool: the main loop starts and every thread is free.
LEMMA ResetPool ==
    ASSUME proc' = [p \in Processes |-> ResetTo(IF p = Main THEN "starting" ELSE "free")]
    PROVE  /\ proc' \in [Processes -> States]
           /\ proc'[Main].pc = "starting"
           /\ \A t \in Threads : proc'[t].pc = "free"
<1>1. "starting" \in Idle \cup Busy /\ "free" \in Idle \cup Busy
  BY DEF Idle
<1>2. ResetTo("starting") \in States /\ ResetTo("free") \in States
  BY <1>1, ResetType
<1>3. ResetTo("starting").pc = "starting" /\ ResetTo("free").pc = "free"
  BY DEF ResetTo
<1> HIDE DEF ResetTo
<1>4. \A p \in Processes : proc'[p] = IF p = Main THEN ResetTo("starting") ELSE ResetTo("free")
  OBVIOUS
<1>5. proc' \in [Processes -> States]
  BY <1>2
<1> QED BY <1>3, <1>4, <1>5, ComputeAssumption

LEMMA InitPool == Init => PoolInv
<1> SUFFICES ASSUME Init PROVE PoolInv
  OBVIOUS
<1>1. proc = [p \in Processes |-> ResetTo(IF p = Main THEN "starting" ELSE "free")]
  BY DEF Init
<1>2. /\ proc \in [Processes -> States]
      /\ proc[Main].pc = "starting"
      /\ \A t \in Threads : proc[t].pc = "free"
  <2>1. "starting" \in Idle \cup Busy /\ "free" \in Idle \cup Busy
    BY DEF Idle
  <2>2. ResetTo("starting") \in States /\ ResetTo("free") \in States
    BY <2>1, ResetType
  <2>3. ResetTo("starting").pc = "starting" /\ ResetTo("free").pc = "free"
    BY DEF ResetTo
  <2> HIDE DEF ResetTo
  <2>4. \A p \in Processes : proc[p] = IF p = Main THEN ResetTo("starting") ELSE ResetTo("free")
    BY <1>1
  <2>5. proc \in [Processes -> States]
    BY <1>1, <2>2
  <2> QED BY <2>3, <2>4, <2>5, ComputeAssumption
<1>3. /\ RegistryTypeOK /\ outcome \in Outcomes
      /\ championFile \in 0..MaxScore /\ holdoutReads \in 0..2
      /\ \A e \in Experiments : status[e] # "running" /\ owner[e] = Nobody
  <2>1. CASE PromotionInit
    <3>1. << >> \in Seq(Champions)
      OBVIOUS
    <3> QED BY <2>1, <3>1, RegistryAssumption
            DEF PromotionInit, RegistryInit, RegistryTypeOK, Statuses
  <2>2. ASSUME NEW c \in Crowned, ChampionInit(c)
        PROVE  /\ RegistryTypeOK /\ outcome \in Outcomes
               /\ championFile \in 0..MaxScore /\ holdoutReads \in 0..2
               /\ \A e \in Experiments : status[e] # "running" /\ owner[e] = Nobody
    <3>1. outcome \in Outcomes /\ outcome[c].score > 0 /\ c \in Experiments
      BY <2>2, ComputeAssumption DEF ChampionInit
    <3>2. outcome[c] \in {Rejected} \cup [score : 1..MaxScore, holdout : BOOLEAN]
      BY <3>1 DEF Outcomes
    <3>3. outcome[c].score \in 1..MaxScore
      BY <3>1, <3>2 DEF Rejected
    <3>4. [experiment |-> c, score |-> outcome[c].score, evaluated |-> TRUE] \in Champions
      BY <3>1, <3>3 DEF Champions
    <3>5. history \in Seq(Champions)
      BY <2>2, <3>4 DEF ChampionInit
    <3>6. RegistryTypeOK
      BY <2>2, <3>1, <3>5 DEF ChampionInit, RegistryTypeOK, Statuses
    <3>7. championFile \in 0..MaxScore /\ holdoutReads \in 0..2
      BY <2>2, <3>3, RegistryAssumption DEF ChampionInit
    <3> QED BY <2>2, <3>1, <3>6, <3>7 DEF ChampionInit
  <2> QED BY <2>1, <2>2 DEF Init
<1>4. TypeOK
  <2>1. PromotionTypeOK
    BY <1>2, <1>3 DEF PromotionTypeOK
  <2>2. /\ pid \in Pids /\ directories \subseteq Experiments /\ failures \in 0..MaxFailures
        /\ unwritten \subseteq Experiments /\ slow \in 0..MaxSlow /\ faults \in 0..MaxFaults
    BY ComputeAssumption DEF Init
  <2>3. circuitOpen \in BOOLEAN /\ draining \in BOOLEAN
    BY DEF Init
  <2> QED BY <1>3, <2>1, <2>2, <2>3 DEF TypeOK
<1>5. MainOK
  BY <1>2 DEF MainOK, At
<1>6. \A t \in Threads : ThreadOK(t)
  BY <1>2 DEF ThreadOK, JobOK, At, Busy
<1>7. \A e \in Experiments : OwnedByNow(e) /\ NotStranded(e)
  BY <1>3 DEF OwnedByNow, NotStranded, OwnedByProcess
<1> QED BY <1>4, <1>5, <1>6, <1>7 DEF PoolInv

\* A recovery: either it selects rows, or it releases them.
LEMMA SelectPool ==
    ASSUME PoolInv, NEW S \in SUBSET Experiments, NEW there \in {"loop", "gating"},
           SelectRows(Main, S, there), UNCHANGED poolVars
    PROVE  PoolInv'
<1>t. /\ proc \in [Processes -> States] /\ Main \in Processes /\ RegistryTypeOK
      /\ Threads \subseteq Processes /\ Main \notin Threads
  BY PoolFacts DEF PoolInv
<1>p. /\ UNCHANGED <<outcome, championFile, holdoutReads, pid, directories, draining,
                     unwritten>>
      /\ failures' \in 0..MaxFailures /\ circuitOpen' \in BOOLEAN
      /\ slow' \in 0..MaxSlow /\ faults' \in 0..MaxFaults
  BY DEF SelectRows, poolVars, PoolInv, TypeOK
<1>1. there \in Idle \cup Busy /\ "releasing" \in Idle \cup Busy
  BY DEF Idle
<1>2. CASE ~ReadCommitted
  <2>1. Restart(Main, there) /\ ReleaseRows(S)
    BY <1>2 DEF SelectRows
  <2>2. RegistryTypeOK'
    BY <1>t, <2>1, ReleaseRowsType
  <2>3. \A e \in Experiments :
            \/ owner'[e] = Nobody /\ status'[e] # "running"
            \/ owner'[e] = owner[e] /\ status'[e] = status[e]
    BY <1>t, <2>1 DEF ReleaseRows, RegistryTypeOK
  <2>4. proc' = [proc EXCEPT ![Main] = ResetTo(there)] /\ ResetTo(there) \in States
    BY <1>1, <2>1, ResetType DEF Restart
  <2>5. /\ proc' \in [Processes -> States] /\ proc'[Main].pc = there
        /\ \A t \in Threads : proc'[t] = proc[t]
    BY <1>t, <2>4, MoveType DEF ResetTo
  <2>6. MainOK'
    BY <2>5 DEF MainOK, At
  <2> QED BY <1>p, <2>2, <2>3, <2>5, <2>6, MainKeeps
<1>3. CASE ReadCommitted
  <2> DEFINE next == [ResetTo("releasing") EXCEPT !.rows = S, !.after = there]
  <2>1. proc' = [proc EXCEPT ![Main] = next] /\ UNCHANGED registryVars
    BY <1>3 DEF SelectRows
  <2>2. next \in States
    BY <1>1 DEF ResetTo, States
  <2>3. next.pc = "releasing" /\ next.after = there
    BY DEF ResetTo
  <2> HIDE DEF next
  <2>4. /\ proc' \in [Processes -> States] /\ proc'[Main] = next
        /\ \A t \in Threads : proc'[t] = proc[t]
    BY <1>t, <2>1, <2>2, MoveType
  <2>5. MainOK'
    BY <1>3, <2>3, <2>4 DEF MainOK, At
  <2>6. RegistryTypeOK' /\ UNCHANGED <<status, owner>>
    BY <1>t, <2>1, RegistryUnchanged DEF registryVars
  <2> QED BY <1>p, <2>4, <2>5, <2>6, MainKeeps
<1> QED BY <1>2, <1>3

LEMMA ReleasePool == ASSUME PoolInv, Release PROVE PoolInv'
<1>t. /\ proc \in [Processes -> States] /\ Main \in Processes /\ RegistryTypeOK
      /\ Threads \subseteq Processes /\ Main \notin Threads
  BY PoolFacts DEF PoolInv
<1>p. /\ UNCHANGED <<outcome, championFile, holdoutReads, pid, directories, draining,
                     unwritten>>
      /\ failures' \in 0..MaxFailures /\ circuitOpen' \in BOOLEAN
      /\ slow' \in 0..MaxSlow /\ faults' \in 0..MaxFaults
  BY DEF Release, ReleaseSelected, poolVars, PoolInv, TypeOK
<1>1. At(Main, "releasing") /\ ReleaseRows(proc[Main].rows) /\ Restart(Main, proc[Main].after)
  BY DEF Release, ReleaseSelected
<1>2. proc[Main].after \in {"loop", "gating"} /\ proc[Main].rows \in SUBSET Experiments
  BY <1>t, <1>1 DEF PoolInv, MainOK, States
<1>3. RegistryTypeOK'
  BY <1>t, <1>1, <1>2, ReleaseRowsType
<1>4. \A e \in Experiments :
          \/ owner'[e] = Nobody /\ status'[e] # "running"
          \/ owner'[e] = owner[e] /\ status'[e] = status[e]
  BY <1>t, <1>1 DEF ReleaseRows, RegistryTypeOK
<1> DEFINE there == proc[Main].after
<1>5. there \in Idle \cup Busy
  BY <1>2 DEF Idle
<1>6. proc' = [proc EXCEPT ![Main] = ResetTo(there)] /\ ResetTo(there) \in States
  BY <1>1, <1>5, ResetType DEF Restart
<1>7. /\ proc' \in [Processes -> States] /\ proc'[Main].pc = there
      /\ \A t \in Threads : proc'[t] = proc[t]
  BY <1>t, <1>6, MoveType DEF ResetTo
<1>8. MainOK'
  BY <1>2, <1>7 DEF MainOK, At
<1> QED BY <1>p, <1>3, <1>4, <1>7, <1>8, MainKeeps

\* The number of futures plus one is a thread of the pool, when one is free.
LEMMA FreeThreadId ==
    ASSUME TypeOK, NEW t \in Threads \ Active
    PROVE  /\ <<pid, Cardinality(Active) + 1>> \in WorkerIds
           /\ <<pid, Cardinality(Active) + 1>> \in {pid} \X Nat
<1>1. IsFiniteSet(Threads) /\ Active \subseteq Threads /\ Active \cup {t} \subseteq Threads
  BY ComputeAssumption DEF Active
<1>2. IsFiniteSet(Active) /\ Cardinality(Active) \in Nat /\ Cardinality(Threads) \in Nat
  BY <1>1, FS_Subset, FS_CardinalityType
<1>3. Cardinality(Active \cup {t}) = Cardinality(Active) + 1
  BY <1>2, FS_AddElement
<1>4. Cardinality(Active \cup {t}) <= Cardinality(Threads)
  BY <1>1, FS_Subset
<1>5. Cardinality(Active) + 1 \in 1..Cardinality(Threads)
  BY <1>2, <1>3, <1>4
<1> QED BY <1>5, PoolFacts, ComputeAssumption

LEMMA DispatchPool == ASSUME PoolInv, Dispatch PROVE PoolInv'
<1>t. /\ PromotionTypeOK /\ proc \in [Processes -> States] /\ RegistryTypeOK
      /\ owner \in [Experiments -> WorkerIds \cup {Nobody}]
      /\ status \in [Experiments -> Statuses]
      /\ Threads \subseteq Processes /\ Main \notin Threads /\ Main \in Processes
      /\ pid \in Pids /\ pid \in Nat
      /\ outcome \in Outcomes /\ championFile \in 0..MaxScore /\ holdoutReads \in 0..2
  BY PoolFacts DEF PoolInv
<1> DEFINE id == <<pid, Cardinality(Active) + 1>>
<1>1. PICK e \in Experiments, t \in Threads \ Active :
          /\ ClaimNext(e, id)
          /\ proc' = [proc EXCEPT ![t] = [ResetTo("computing") EXCEPT
                                             !.job = e, !.id = id]]
  BY DEF Dispatch
<1>2. id \in WorkerIds /\ id \in {pid} \X Nat
  BY <1>1, FreeThreadId DEF PoolInv
<1> HIDE DEF id
<1> DEFINE next == [ResetTo("computing") EXCEPT !.job = e, !.id = id]
<1>3. next \in States
  BY <1>2 DEF ResetTo, States, Busy
<1>4. next.pc = "computing" /\ next.job = e /\ next.id = id
  BY DEF ResetTo
<1>5. proc' = [proc EXCEPT ![t] = next]
  BY <1>1
<1> HIDE DEF next
<1>6. /\ proc' \in [Processes -> States] /\ proc'[t] = next
      /\ \A p \in Processes \ {t} : proc'[p] = proc[p]
  BY <1>t, <1>3, <1>5, MoveType
<1>7. /\ UNCHANGED <<outcome, championFile, holdoutReads, pid, directories, failures,
                     circuitOpen, draining, unwritten, slow, faults>>
  BY DEF Dispatch, poolVars
<1>8. RegistryTypeOK'
  BY <1>t, <1>1, <1>2, ClaimNextType
<1>9. /\ status' = [status EXCEPT ![e] = "running"]
      /\ owner' = [owner EXCEPT ![e] = id]
      /\ status[e] = "queued"
  BY <1>1 DEF ClaimNext, IsNext, Queued
<1>10. TypeOK'
  <2>1. \A f \in Experiments : status'[f] \in {"absent", "queued"} => owner'[f] = Nobody
    BY <1>t, <1>9 DEF PoolInv, TypeOK
  <2> QED BY <1>6, <1>7, <1>8, <2>1, TypesKept DEF PoolInv, TypeOK
<1>11. MainOK'
  BY <1>t, <1>6 DEF PoolInv, MainOK, At
<1>12. ASSUME NEW u \in Threads PROVE ThreadOK(u)'
  <2>1. CASE u = t
    BY <1>4, <1>6, <2>1 DEF ThreadOK, JobOK, At, Busy, Job
  <2>2. CASE u # t
    BY <1>t, <1>6, <1>7, <2>2 DEF PoolInv, ThreadOK, JobOK, At, Job, Score
  <2> QED BY <2>1, <2>2
<1>13. ~(proc[t].pc \in Busy)
  BY <1>1 DEF Active, At, Busy
<1>14. ASSUME NEW f \in Experiments PROVE OwnedByNow(f)' /\ NotStranded(f)'
  <2>1. OwnedByNow(f) /\ NotStranded(f)
    BY DEF PoolInv
  <2>2. CASE f = e
    <3>1. owner'[f] = id /\ pid' = pid
      BY <1>t, <1>7, <1>9, <2>2
    <3>2. OwnedByNow(f)'
      BY <1>t, <1>2, <3>1 DEF OwnedByNow
    <3>3. WorksFor(t, f)'
      BY <1>4, <1>6, <3>1, <2>2 DEF WorksFor, Job, Busy
    <3> QED BY <3>2, <3>3 DEF NotStranded
  <2>3. CASE f # e
    <3>1. status'[f] = status[f] /\ owner'[f] = owner[f] /\ pid' = pid /\ unwritten' = unwritten
      BY <1>t, <1>7, <1>9, <2>3
    <3>2. \A u \in Threads : WorksFor(u, f) => WorksFor(u, f)'
      BY <1>t, <1>6, <1>13, <3>1 DEF WorksFor, Job
    <3> QED BY <2>1, <3>1, <3>2 DEF OwnedByNow, NotStranded, OwnedByProcess
  <2> QED BY <2>2, <2>3
<1> QED BY <1>10, <1>11, <1>12, <1>14 DEF PoolInv

\* The threads of the old process are gone, and the rows it owns are of a
\* process before the new one.
LEMMA RestartPool == ASSUME PoolInv, Restarts PROVE PoolInv'
<1>t. /\ RegistryTypeOK /\ pid \in Nat
  BY PoolFacts DEF PoolInv
<1>1. /\ pid' \in Pids /\ pid' > pid /\ pid' \in Nat
      /\ UNCHANGED <<registryVars, outcome, championFile, holdoutReads,
                     directories, draining, unwritten, slow, faults>>
      /\ failures' = 0 /\ circuitOpen' = FALSE
  BY ComputeAssumption DEF Restarts
<1>2. /\ proc' \in [Processes -> States]
      /\ proc'[Main].pc = "starting"
      /\ \A t \in Threads : proc'[t].pc = "free"
  BY ResetPool DEF Restarts
<1>3. RegistryTypeOK' /\ UNCHANGED <<status, owner>>
  BY <1>t, <1>1, RegistryUnchanged DEF registryVars
<1>4. TypeOK'
  <2>1. PromotionTypeOK'
    BY <1>1, <1>2, <1>3, PoolFacts DEF PoolInv, PromotionTypeOK
  <2>2. failures' \in 0..MaxFailures
    BY <1>1, ComputeAssumption
  <2>3. circuitOpen' \in BOOLEAN
    BY <1>1
  <2> QED BY <1>1, <1>3, <2>1, <2>2, <2>3 DEF PoolInv, TypeOK
<1>5. MainOK'
  BY <1>2 DEF MainOK, At
<1>6. \A t \in Threads : ThreadOK(t)'
  BY <1>2 DEF ThreadOK, JobOK, At, Busy
<1>7. ASSUME NEW e \in Experiments PROVE OwnedByNow(e)' /\ NotStranded(e)'
  <2>1. CASE status[e] # "running"
    BY <1>3, <2>1 DEF OwnedByNow, NotStranded, OwnedByProcess
  <2>2. CASE status[e] = "running"
    <3>1. PICK q \in Pids : q <= pid /\ owner[e] \in {q} \X Nat
      BY <2>2 DEF PoolInv, OwnedByNow
    <3>2. q \in Nat /\ q <= pid' /\ q # pid'
      BY <1>t, <1>1, <3>1, ComputeAssumption
    <3>3. owner[e] \notin {pid'} \X Nat
      BY <3>1, <3>2
    <3> QED BY <1>3, <3>1, <3>2, <3>3 DEF OwnedByNow, NotStranded, OwnedByProcess
  <2> QED BY <2>1, <2>2
<1> QED BY <1>4, <1>5, <1>6, <1>7 DEF PoolInv

\* A future ends with the state of the thread reset.
LEMMA FutureResets ==
    ASSUME PoolInv, NEW t \in Threads, NEW there \in {"free", "done", "raised"},
           Restart(t, there)
    PROVE  /\ proc' = [proc EXCEPT ![t] = ResetTo(there)]
           /\ ResetTo(there) \in States
           /\ ResetTo(there).pc \in {"free", "done", "raised"}
<1>1. there \in Idle \cup Busy
  BY DEF Idle
<1> QED BY <1>1, ResetType DEF Restart, ResetTo

\* A busy thread moves, and nothing else does but the counter of faults.
LEMMA GotoThread ==
    ASSUME PoolInv, NEW t \in Threads, NEW there \in Busy \ {"inserting"},
           proc[t].pc \in Busy, Goto(t, there),
           UNCHANGED <<registryVars, outcome, championFile, holdoutReads, pid,
                       failures, circuitOpen, draining, unwritten, slow>>,
           directories' \subseteq Experiments, faults' \in 0..MaxFaults
    PROVE  PoolInv'
<1>t. /\ PromotionTypeOK /\ RegistryTypeOK /\ proc \in [Processes -> States] /\ t \in Processes
      /\ outcome \in Outcomes /\ championFile \in 0..MaxScore /\ holdoutReads \in 0..2
      /\ JobOK(t) /\ proc[t] \in States
  BY PoolFacts DEF PoolInv, ThreadOK
<1>1. proc' = [proc EXCEPT ![t].pc = there] /\ there \in Idle \cup Busy
  BY DEF Goto
<1>2. proc' \in [Processes -> States]
  BY <1>t, <1>1, GotoType
<1>3. /\ proc'[t].pc = there /\ proc'[t].job = proc[t].job /\ proc'[t].id = proc[t].id
      /\ proc' = [proc EXCEPT ![t] = proc'[t]]
  BY <1>t, <1>1 DEF States
<1>4. PromotionTypeOK'
  BY <1>t, <1>2, RegistryUnchanged DEF PromotionTypeOK
<1>5. SameLease(t)
  BY <1>3 DEF SameLease, Job, registryVars, leaseVars
<1>6. JobOK(t)'
  BY <1>t, <1>3 DEF JobOK, Job, At
<1>7. failures' \in 0..MaxFailures /\ slow' \in 0..MaxSlow
  BY DEF PoolInv, TypeOK
<1>8. circuitOpen' \in BOOLEAN
  BY DEF PoolInv, TypeOK
<1> QED BY <1>3, <1>4, <1>5, <1>6, <1>7, <1>8, ThreadKeeps

LEMMA CollectPool == ASSUME PoolInv, NEW t \in Threads, Collect(t) PROVE PoolInv'
<1>1. /\ Restart(t, "free") /\ proc[t].pc \notin Busy
      /\ UNCHANGED <<registryVars, outcome, championFile, holdoutReads, pid,
                     directories, draining, unwritten, slow, faults>>
  BY DEF Collect, At, Busy
<1>2. RegistryTypeOK' /\ UNCHANGED <<status, owner>>
  BY <1>1, PoolFacts, RegistryUnchanged DEF PoolInv, registryVars
<1>3. failures' \in 0..MaxFailures
  BY ComputeAssumption DEF Collect, PoolInv, TypeOK
<1>4. circuitOpen' \in BOOLEAN
  <2>1. CASE UNCHANGED circuitOpen
    BY <2>1 DEF PoolInv, TypeOK
  <2>2. CASE circuitOpen' = (circuitOpen \/ failures' = MaxFailures)
    BY <2>2
  <2> QED BY <2>1, <2>2 DEF Collect
<1>5. /\ directories' \subseteq Experiments /\ unwritten' \subseteq Experiments
      /\ slow' \in 0..MaxSlow /\ faults' \in 0..MaxFaults
  BY <1>1 DEF PoolInv, TypeOK
<1>6. "free" \in {"free", "done", "raised"}
  OBVIOUS
<1>7. \A e \in Experiments : ~WorksFor(t, e)
  BY <1>1 DEF WorksFor
<1> QED BY <1>1, <1>2, <1>3, <1>4, <1>5, <1>6, <1>7, FutureResets, FutureEnds

LEMMA JobFilePool == ASSUME PoolInv, NEW t \in Threads, JobFileFails(t) PROVE PoolInv'
<1>1. /\ Restart(t, "raised") /\ unwritten' = unwritten \cup {Job(t)}
      /\ faults < MaxFaults /\ faults' = faults + 1
      /\ UNCHANGED <<registryVars, outcome, championFile, holdoutReads, pid,
                     directories, failures, circuitOpen, draining, slow>>
  BY DEF JobFileFails
<1>2. RegistryTypeOK' /\ UNCHANGED <<status, owner>>
  BY <1>1, PoolFacts, RegistryUnchanged DEF PoolInv, registryVars
<1>3. Job(t) \in Experiments
  BY DEF JobFileFails, PoolInv, ThreadOK, JobOK, At, Busy
<1>4. circuitOpen' \in BOOLEAN
  BY <1>1 DEF PoolInv, TypeOK
<1>5. /\ directories' \subseteq Experiments /\ unwritten' \subseteq Experiments
      /\ failures' \in 0..MaxFailures /\ slow' \in 0..MaxSlow /\ faults' \in 0..MaxFaults
  BY <1>1, <1>3, ComputeAssumption DEF PoolInv, TypeOK
<1>6. "raised" \in {"free", "done", "raised"}
  OBVIOUS
<1>7. \A e \in Experiments : WorksFor(t, e) => e \in unwritten'
  BY <1>1 DEF WorksFor
<1> QED BY <1>1, <1>2, <1>4, <1>5, <1>6, <1>7, FutureResets, FutureEnds

LEMMA CompletePool == ASSUME PoolInv, NEW t \in Threads, Complete(t) PROVE PoolInv'
<1>t. RegistryTypeOK /\ proc \in [Processes -> States] /\ proc[t] \in States
  BY PoolFacts DEF PoolInv
<1>1. /\ At(t, "settling") /\ directories' = directories \cup {Job(t)}
      /\ UNCHANGED <<outcome, championFile, holdoutReads, pid, failures,
                     circuitOpen, draining, unwritten, slow, faults>>
  BY DEF Complete
<1>2. Job(t) \in Experiments /\ proc[t].pc \in Busy
  BY <1>1 DEF PoolInv, ThreadOK, JobOK, At, Busy
<1>3. /\ directories' \subseteq Experiments /\ unwritten' \subseteq Experiments
      /\ failures' \in 0..MaxFailures /\ slow' \in 0..MaxSlow /\ faults' \in 0..MaxFaults
  BY <1>1, <1>2 DEF PoolInv, TypeOK
<1>4. circuitOpen' \in BOOLEAN
  BY <1>1 DEF PoolInv, TypeOK
<1>5. CASE Finish(Job(t), proc[t].id, "completed", proc[t].won) /\ Restart(t, "done")
  <2>1. "done" \in {"free", "done", "raised"} /\ "completed" \in Terminal
    BY DEF Terminal
  <2>2. proc[t].won \in BOOLEAN
    BY <1>t DEF States
  <2>3. RegistryTypeOK'
    BY <1>5, <1>t, <1>2, <2>1, <2>2, FinishType
  <2>4. status' = [status EXCEPT ![Job(t)] = "completed"] /\ owner' = owner
    BY <1>5 DEF Finish
  <2>5. status'[Job(t)] = "completed"
    BY <1>t, <1>2, <2>4 DEF RegistryTypeOK
  <2>6. \A e \in Experiments : WorksFor(t, e) => status'[e] # "running"
    BY <2>5 DEF WorksFor
  <2>7. \A e \in Experiments : owner'[e] = owner[e] /\ status'[e] \in {status[e], "completed"}
    BY <1>t, <2>4 DEF RegistryTypeOK
  <2> QED BY <1>1, <1>3, <1>4, <1>5, <2>1, <2>3, <2>6, <2>7, FutureResets, FutureEnds
<1>6. CASE Goto(t, "failing") /\ UNCHANGED registryVars
  <2>1. "failing" \in Busy \ {"inserting"}
    BY DEF Busy
  <2> QED BY <1>1, <1>2, <1>3, <1>6, <2>1, GotoThread
<1> QED BY <1>5, <1>6 DEF Complete

LEMMA CleanupPool == ASSUME PoolInv, NEW t \in Threads, CleanupFails(t) PROVE PoolInv'
<1>t. proc \in [Processes -> States] /\ t \in Processes /\ proc[t] \in States
  BY PoolFacts DEF PoolInv
<1>1. /\ Goto(t, "raised") /\ proc[t].pc \notin Busy
      /\ faults < MaxFaults /\ faults' = faults + 1
      /\ UNCHANGED <<registryVars, outcome, championFile, holdoutReads, pid,
                     directories, failures, circuitOpen, draining, unwritten, slow>>
  BY DEF CleanupFails, At, Busy
<1> DEFINE s == [proc[t] EXCEPT !.pc = "raised"]
<1>2. s \in States /\ s.pc = "raised"
  BY <1>t DEF States, Idle
<1>3. proc' = [proc EXCEPT ![t] = s]
  BY <1>t, <1>1 DEF Goto
<1> HIDE DEF s
<1>4. RegistryTypeOK' /\ UNCHANGED <<status, owner>>
  BY <1>1, PoolFacts, RegistryUnchanged DEF PoolInv, registryVars
<1>5. circuitOpen' \in BOOLEAN
  BY <1>1 DEF PoolInv, TypeOK
<1>6. /\ directories' \subseteq Experiments /\ unwritten' \subseteq Experiments
      /\ failures' \in 0..MaxFailures /\ slow' \in 0..MaxSlow /\ faults' \in 0..MaxFaults
  BY <1>1, ComputeAssumption DEF PoolInv, TypeOK
<1>7. \A e \in Experiments : ~WorksFor(t, e)
  BY <1>1 DEF WorksFor
<1> QED BY <1>1, <1>2, <1>3, <1>4, <1>5, <1>6, <1>7, FutureEnds

LEMMA GiveBackPool == ASSUME PoolInv, NEW t \in Threads, GiveBack(t) PROVE PoolInv'
<1>t. RegistryTypeOK
  BY PoolFacts DEF PoolInv
<1>1. /\ At(t, "failing") /\ Restart(t, "raised")
      /\ UNCHANGED <<outcome, championFile, holdoutReads, pid, directories, failures,
                     circuitOpen, draining, unwritten, slow, faults>>
  BY DEF GiveBack, poolVars
<1>2. Job(t) \in Experiments
  BY <1>1 DEF PoolInv, ThreadOK, JobOK, At, Busy
<1>3. /\ directories' \subseteq Experiments /\ unwritten' \subseteq Experiments
      /\ failures' \in 0..MaxFailures /\ slow' \in 0..MaxSlow /\ faults' \in 0..MaxFaults
  BY <1>1 DEF PoolInv, TypeOK
<1>4. circuitOpen' \in BOOLEAN
  BY <1>1 DEF PoolInv, TypeOK
<1>5. "raised" \in {"free", "done", "raised"}
  OBVIOUS
<1>6. CASE Requeue(Job(t), proc[t].id, MaxRetries)
  <2>1. RegistryTypeOK'
    BY <1>6, <1>t, <1>2, RequeueType
  <2>2. /\ owner'[Job(t)] = Nobody /\ status'[Job(t)] # "running"
        /\ \A e \in Experiments \ {Job(t)} : owner'[e] = owner[e] /\ status'[e] = status[e]
    BY <1>6, <1>t, <1>2 DEF Requeue, RegistryTypeOK
  <2>3. \A e \in Experiments : WorksFor(t, e) => status'[e] # "running"
    BY <2>2 DEF WorksFor
  <2> QED BY <1>1, <1>2, <1>3, <1>4, <1>5, <2>1, <2>2, <2>3, FutureResets, FutureEnds
<1>7. CASE ~IsOwned(Job(t), proc[t].id) /\ UNCHANGED registryVars
  <2>1. RegistryTypeOK' /\ UNCHANGED <<status, owner>>
    BY <1>7, <1>t, RegistryUnchanged DEF registryVars
  <2>2. \A e \in Experiments : WorksFor(t, e) => status'[e] # "running"
    BY <1>7, <2>1 DEF WorksFor, IsOwned
  <2> QED BY <1>1, <1>3, <1>4, <1>5, <2>1, <2>2, FutureResets, FutureEnds
<1> QED BY <1>6, <1>7 DEF GiveBack

\* Steps that leave the processes alone.
LEMMA QuietPool ==
    ASSUME PoolInv, RegistryTypeOK', UNCHANGED <<promotionVars, pid, directories, unwritten>>,
           failures' \in 0..MaxFailures, circuitOpen' \in BOOLEAN, draining' \in BOOLEAN,
           slow' \in 0..MaxSlow, faults' \in 0..MaxFaults,
           \A e \in Experiments :
               \/ owner'[e] = Nobody /\ status'[e] # "running"
               \/ owner'[e] = owner[e] /\ status'[e] = status[e]
    PROVE  PoolInv'
<1>1. UNCHANGED <<outcome, proc, championFile, holdoutReads>>
  BY DEF promotionVars
<1>2. TypeOK'
  <2>1. PromotionTypeOK'
    BY <1>1 DEF PoolInv, TypeOK, PromotionTypeOK
  <2> QED BY <2>1 DEF PoolInv, TypeOK
<1>3. MainOK' /\ \A t \in Threads : ThreadOK(t)'
  BY <1>1 DEF PoolInv, MainOK, ThreadOK, JobOK, At, Job, Score
<1>4. ASSUME NEW t \in Threads, NEW e \in Experiments, WorksFor(t, e), owner'[e] = owner[e]
      PROVE  WorksFor(t, e)'
  BY <1>1, <1>4 DEF WorksFor, Job
<1> QED BY <1>2, <1>3, <1>4, LeasesKept

\* Every step keeps the invariant, under either isolation level.
LEMMA PoolNext == PoolInv /\ [Next]_vars => PoolInv'
<1> SUFFICES ASSUME PoolInv, [Next]_vars PROVE PoolInv'
  OBVIOUS
<1>t. RegistryTypeOK /\ PromotionTypeOK /\ proc \in [Processes -> States]
      /\ Threads \subseteq Processes
  BY PoolFacts DEF PoolInv
<1>p. /\ failures \in 0..MaxFailures /\ slow \in 0..MaxSlow /\ faults \in 0..MaxFaults
      /\ MaxSlow \in Nat /\ MaxFaults \in Nat /\ MaxFailures \in Nat
      /\ directories \subseteq Experiments /\ unwritten \subseteq Experiments
  BY ComputeAssumption DEF PoolInv, TypeOK
<1>b. circuitOpen \in BOOLEAN /\ draining \in BOOLEAN
  BY DEF PoolInv, TypeOK
<1>1. CASE RecoverPool
  <2> DEFINE S == {e \in Experiments : \E old \in Pids \ {pid} :
                      /\ OwnedByProcess(e, old)
                      /\ <<pid, old>> \notin Overlapping}
  <2>1. SelectRows(Main, S, "loop") /\ S \in SUBSET Experiments /\ UNCHANGED poolVars
    BY <1>1 DEF RecoverPool
  <2> HIDE DEF S
  <2> QED BY <2>1, SelectPool
<1>2. CASE RecoverStale
  <2>1. StaleRows \in SUBSET Experiments
    BY <1>t DEF StaleRows, RegistryTypeOK
  <2> QED BY <1>2, <2>1, SelectPool DEF RecoverStale
<1>3. CASE Release
  BY <1>3, ReleasePool
<1>4. CASE ReadGates \/ EndDispatch \/ EndCollect
  <2>1. PICK there \in {"loop", "collecting", "dispatching"} : Goto(Main, there)
    BY <1>4 DEF ReadGates, EndDispatch, EndCollect
  <2>2. UNCHANGED <<registryVars, outcome, championFile, holdoutReads, poolVars>>
    BY <1>4 DEF ReadGates, EndDispatch, EndCollect
  <2>3. RegistryTypeOK' /\ UNCHANGED <<status, owner>>
    BY <2>2, <1>t, RegistryUnchanged DEF registryVars
  <2>4. UNCHANGED <<pid, directories, failures, circuitOpen, draining, unwritten, slow, faults>>
    BY <2>2 DEF poolVars
  <2>5. circuitOpen' \in BOOLEAN
    BY <1>b, <2>4
  <2> QED BY <1>p, <2>1, <2>2, <2>3, <2>4, <2>5, GotoMainKeeps
<1>5. CASE Dispatch
  BY <1>5, DispatchPool
<1>6. CASE LoopFails
  <2>1. /\ Restart(Main, "loop") /\ faults < MaxFaults /\ faults' = faults + 1
        /\ UNCHANGED <<registryVars, outcome, championFile, holdoutReads, pid,
                       directories, failures, circuitOpen, draining, unwritten, slow>>
    BY <1>6 DEF LoopFails
  <2>2. RegistryTypeOK' /\ UNCHANGED <<status, owner>>
    BY <2>1, <1>t, RegistryUnchanged DEF registryVars
  <2>3. circuitOpen' \in BOOLEAN
    BY <1>b, <2>1
  <2>4. "loop" \in {"loop", "collecting", "dispatching"}
    OBVIOUS
  <2>5. faults' \in 0..MaxFaults
    BY <1>p, <2>1
  <2> QED BY <1>p, <2>1, <2>2, <2>3, <2>4, <2>5, GotoMainKeeps
<1>7. ASSUME NEW t \in Threads, Compute(t) \/ ComputeFails(t) PROVE PoolInv'
  <2>1. PICK there \in {"promoting", "failing"} : Goto(t, there)
    BY <1>7 DEF Compute, ComputeFails
  <2>2. there \in Busy \ {"inserting"} /\ proc[t].pc \in Busy
    BY <1>7 DEF Compute, ComputeFails, At, Busy
  <2>3. /\ UNCHANGED <<registryVars, outcome, championFile, holdoutReads, pid, directories,
                       failures, circuitOpen, draining, unwritten, slow>>
        /\ faults' \in 0..MaxFaults
    BY <1>7, <1>p DEF Compute, ComputeFails, poolVars
  <2>4. directories' \subseteq Experiments
    BY <1>p, <2>3
  <2> QED BY <2>1, <2>2, <2>3, <2>4, GotoThread
<1>8. ASSUME NEW t \in Threads, NEW d \in BOOLEAN, Promote(t, d) \/ WriteFails(t),
             UNCHANGED poolVars
      PROVE  PoolInv'
  <2>1. JobOK(t) /\ t \in Processes
    BY <1>t DEF PoolInv, ThreadOK
  <2>2. PromotionTypeOK' /\ SameLease(t) /\ JobOK(t)'
    BY <1>8, <1>t, <2>1, PromoteKeeps
  <2>3. proc'[t].id = proc[t].id
    BY <1>8, <1>t, <2>1, PromoteKeepsId
  <2>4. UNCHANGED <<pid, directories, failures, circuitOpen, draining, unwritten, slow, faults>>
    BY <1>8 DEF poolVars
  <2>5. circuitOpen' \in BOOLEAN
    BY <1>b, <2>4
  <2> QED BY <1>p, <2>2, <2>3, <2>4, <2>5, ThreadKeeps
<1>9. ASSUME NEW e \in Experiments, Enqueue(e) \/ HeartbeatAges(e) PROVE PoolInv'
  <2>1. RegistryTypeOK'
    BY <1>9, <1>t, RegisterType, AgeType DEF Enqueue, HeartbeatAges
  <2>2. \A f \in Experiments : \/ owner'[f] = Nobody /\ status'[f] # "running"
                               \/ owner'[f] = owner[f] /\ status'[f] = status[f]
    BY <1>9, <1>t DEF Enqueue, HeartbeatAges, Register, Age, RegistryTypeOK, PoolInv, TypeOK
  <2>3. /\ UNCHANGED <<promotionVars, pid, directories, failures, circuitOpen, draining,
                       unwritten, faults>>
        /\ slow' \in 0..MaxSlow
    BY <1>9, <1>p DEF Enqueue, HeartbeatAges, poolVars
  <2>4. circuitOpen' \in BOOLEAN
    BY <1>b, <2>3
  <2>5. draining' \in BOOLEAN
    BY <1>b, <2>3
  <2> QED BY <1>p, <2>1, <2>2, <2>3, <2>4, <2>5, QuietPool
<1>10. CASE CircuitCools \/ HostExhausted \/ \E flag \in BOOLEAN : SetDrain(flag)
  <2>1. UNCHANGED <<registryVars, promotionVars, pid, directories, failures, unwritten, slow>>
    BY <1>10 DEF CircuitCools, HostExhausted, SetDrain
  <2>2. RegistryTypeOK' /\ UNCHANGED <<status, owner>>
    BY <2>1, <1>t, RegistryUnchanged DEF registryVars
  <2>3. circuitOpen' \in BOOLEAN
    BY <1>10, <1>b, Zenon DEF CircuitCools, HostExhausted, SetDrain
  <2>4. draining' \in BOOLEAN
    BY <1>10, <1>b, Zenon DEF CircuitCools, HostExhausted, SetDrain
  <2>5. faults' \in 0..MaxFaults
    BY <1>10, <1>p DEF CircuitCools, HostExhausted, SetDrain
  <2> QED BY <1>p, <2>1, <2>2, <2>3, <2>4, <2>5, QuietPool
<1>11. CASE UNCHANGED vars
  <2>1. UNCHANGED <<registryVars, promotionVars, pid, directories, failures, circuitOpen,
                    draining, unwritten, slow, faults>>
    BY <1>11 DEF vars, poolVars
  <2>2. RegistryTypeOK' /\ UNCHANGED <<status, owner>>
    BY <2>1, <1>t, RegistryUnchanged DEF registryVars
  <2>3. circuitOpen' \in BOOLEAN
    BY <2>1, <1>b
  <2>4. draining' \in BOOLEAN
    BY <2>1, <1>b
  <2> QED BY <1>p, <2>1, <2>2, <2>3, <2>4, QuietPool
<1>12. ASSUME MainStep PROVE PoolInv'
  BY <1>12, <1>1, <1>2, <1>3, <1>4, <1>5, CollectPool DEF MainStep
<1>13. ASSUME NEW t \in Threads, ThreadStep(t) PROVE PoolInv'
  <2>1. CASE PromoteJob(t)
    <3>1. (Job(t) \in directories) \in BOOLEAN
      OBVIOUS
    <3>2. Promote(t, Job(t) \in directories) /\ UNCHANGED poolVars
      BY <2>1 DEF PromoteJob
    <3> QED BY <1>8, <3>1, <3>2
  <2> QED BY <1>13, <1>7, <2>1, CompletePool, GiveBackPool DEF ThreadStep
<1>14. ASSUME NEW t \in Threads, WriteFails(t), UNCHANGED poolVars PROVE PoolInv'
  BY <1>14, <1>8
<1> QED BY <1>6, <1>7, <1>9, <1>10, <1>11, <1>12, <1>13, <1>14, JobFilePool, CleanupPool,
           RestartPool DEF Next

\* The inductive invariant of the pool, under either isolation level.
THEOREM PoolInvariant == Spec => []PoolInv
<1>1. Init => PoolInv
  BY InitPool
<1>2. PoolInv /\ [Next]_vars => PoolInv'
  BY PoolNext
<1> QED BY <1>1, <1>2, PTL DEF Spec

\* No lease of the present process is stranded, under either isolation level,
\* though worker ids are used again (process_claimed, requeue).
THEOREM LeasesAreNotStranded == Spec => []NoStrandedLease
<1>1. PoolInv => NoStrandedLease
  BY StrandedAll DEF PoolInv
<1> QED BY <1>1, PoolInvariant, PTL

-----------------------------------------------------------------------------
(* Serializable transactions: what a step does to the rows.                *)

\* The transactions of the registry and of promote_champion, as the pool runs
\* them; a claim is by a worker_id of the present process.
RowStep ==
    \/ UNCHANGED <<status, owner, retries, history>>
    \/ \E e \in Experiments : Register(e)
    \/ \E e \in Experiments, k \in Nat :
          At(Main, "dispatching") /\ pid' = pid /\ ClaimNext(e, <<pid, k>>)
    \/ \E e \in Experiments : \E w, flag : Finish(e, w, "completed", flag)
    \/ \E e \in Experiments : \E w : Requeue(e, w, MaxRetries)
    \/ \E S \in SUBSET Experiments :
          (\A e \in S : status[e] = "running") /\ ReleaseRows(S)
    \/ /\ UNCHANGED <<status, owner, retries>>
       /\ \E c \in Champions : c.score > Best /\ history' = Append(history, c)

LEMMA RowSteps ==
    ASSUME ~ReadCommitted, PoolInv, [Next]_vars
    PROVE  RowStep
<1>t. RegistryTypeOK /\ PromotionTypeOK /\ proc \in [Processes -> States]
      /\ Threads \subseteq Processes /\ outcome \in Outcomes
      /\ pid \in Nat
  BY PoolFacts DEF PoolInv
<1>j. \A t \in Threads : proc[t].pc \in Busy => Job(t) \in Experiments
  BY DEF PoolInv, ThreadOK, JobOK
<1>1. ASSUME NEW S \in SUBSET Experiments, NEW there,
             \A e \in S : status[e] = "running", SelectRows(Main, S, there)
      PROVE  RowStep
  <2>1. ReleaseRows(S)
    BY <1>1 DEF SelectRows
  <2> QED BY <1>1, <2>1 DEF RowStep
<1>2. CASE RecoverPool
  <2> DEFINE S == {e \in Experiments : \E old \in Pids \ {pid} :
                      /\ OwnedByProcess(e, old)
                      /\ <<pid, old>> \notin Overlapping}
  <2>1. SelectRows(Main, S, "loop") /\ S \in SUBSET Experiments
        /\ \A e \in S : status[e] = "running"
    BY <1>2 DEF RecoverPool, OwnedByProcess
  <2> HIDE DEF S
  <2> QED BY <2>1, <1>1
<1>3. CASE RecoverStale
  <2>1. StaleRows \in SUBSET Experiments /\ \A e \in StaleRows : status[e] = "running"
    BY <1>t DEF StaleRows, RegistryTypeOK
  <2> QED BY <1>3, <2>1, <1>1 DEF RecoverStale
<1>4. ~Release
  BY DEF PoolInv, MainOK, Release, ReleaseSelected
<1>5. CASE Dispatch
  <2>1. PICK e \in Experiments, t \in Threads \ Active :
            ClaimNext(e, <<pid, Cardinality(Active) + 1>>)
    BY <1>5 DEF Dispatch
  <2>2. Cardinality(Active) + 1 \in Nat
    <3>1. IsFiniteSet(Active)
      BY ComputeAssumption, FS_Subset DEF Active
    <3> QED BY <3>1, FS_CardinalityType
  <2>3. At(Main, "dispatching") /\ pid' = pid
    BY <1>5 DEF Dispatch, poolVars
  <2> QED BY <2>1, <2>2, <2>3 DEF RowStep
<1>6. ASSUME NEW t \in Threads, NEW d \in BOOLEAN, Promote(t, d) \/ WriteFails(t)
      PROVE  RowStep
  <2>0. JobOK(t) /\ t \in Processes
    BY <1>t DEF PoolInv, ThreadOK
  <2>1. UNCHANGED <<status, owner, retries>>
    BY <1>6, <1>t, <2>0, PromoteKeeps DEF SameLease, leaseVars
  <2>2. CASE UNCHANGED history
    BY <2>1, <2>2 DEF RowStep
  <2>3. CASE /\ Score(t) > Best
             /\ proc[t].pc \in Busy
             /\ history' = Append(history, [experiment |-> Job(t), score |-> Score(t),
                                            evaluated |-> proc[t].evaluated])
    <3>1. Job(t) \in Experiments
      BY <1>j, <2>3
    <3>2. Score(t) \in 1..MaxScore
      BY <1>t, <2>3, <3>1, ScoreType, BestType, RegistryAssumption
    <3>3. [experiment |-> Job(t), score |-> Score(t), evaluated |-> proc[t].evaluated]
              \in Champions
      BY <1>t, <3>1, <3>2 DEF Champions, States
    <3> DEFINE c == [experiment |-> Job(t), score |-> Score(t),
                     evaluated |-> proc[t].evaluated]
    <3>4. c \in Champions /\ c.score > Best /\ history' = Append(history, c)
      BY <2>3, <3>3
    <3> HIDE DEF c
    <3> QED BY <2>1, <3>4 DEF RowStep
  <2> QED BY <1>6, <2>0, <2>2, <2>3, PromoteImproves
<1>7. ASSUME NEW t \in Threads, Complete(t) PROVE RowStep
  <2>1. Job(t) \in Experiments
    BY <1>7, <1>j DEF Complete, At, Busy
  <2> QED BY <1>7, <2>1 DEF Complete, RowStep, registryVars
<1>8. ASSUME NEW t \in Threads, GiveBack(t) PROVE RowStep
  <2>1. Job(t) \in Experiments
    BY <1>8, <1>j DEF GiveBack, At, Busy
  <2> QED BY <1>8, <2>1 DEF GiveBack, RowStep, registryVars
<1>9. ASSUME NEW e \in Experiments, Enqueue(e) \/ HeartbeatAges(e) PROVE RowStep
  BY <1>9 DEF Enqueue, HeartbeatAges, Age, RowStep
<1>10. ASSUME NEW t \in Threads,
              \/ Collect(t) \/ Compute(t) \/ JobFileFails(t) \/ ComputeFails(t)
              \/ CleanupFails(t)
       PROVE  RowStep
  BY <1>10 DEF Collect, Compute, JobFileFails, ComputeFails, CleanupFails, registryVars, RowStep
<1>11. CASE \/ ReadGates \/ EndDispatch \/ EndCollect \/ LoopFails \/ CircuitCools
            \/ HostExhausted \/ (\E flag \in BOOLEAN : SetDrain(flag)) \/ Restarts
            \/ UNCHANGED vars
  BY <1>11 DEF ReadGates, EndDispatch, EndCollect, LoopFails, CircuitCools, HostExhausted,
               SetDrain, Restarts, vars, registryVars, RowStep
<1>12. ASSUME MainStep PROVE RowStep
  BY <1>12, <1>2, <1>3, <1>4, <1>5, <1>10, <1>11 DEF MainStep
<1>13. ASSUME NEW t \in Threads, ThreadStep(t) PROVE RowStep
  <2>1. CASE PromoteJob(t)
    <3>1. (Job(t) \in directories) \in BOOLEAN
      OBVIOUS
    <3> QED BY <1>6, <2>1, <3>1 DEF PromoteJob
  <2> QED BY <1>13, <1>7, <1>8, <1>10, <2>1 DEF ThreadStep
<1>14. ASSUME NEW t \in Threads, WriteFails(t) PROVE RowStep
  BY <1>14, <1>6
<1> QED BY <1>9, <1>10, <1>11, <1>12, <1>13, <1>14 DEF Next

-----------------------------------------------------------------------------
(* The retry limit, the recovery at the start, and the lifecycle.          *)

LEMMA RetryNext ==
    ASSUME ~ReadCommitted, PoolInv, RetryLimitHolds, [Next]_vars
    PROVE  RetryLimitHolds'
<1>t. status \in [Experiments -> Statuses] /\ retries \in [Experiments -> Nat]
      /\ MaxRetries \in Nat \ {0}
  BY PoolFacts, ComputeAssumption DEF PoolInv
<1>1. RowStep
  BY RowSteps
<1> SUFFICES ASSUME NEW e \in Experiments
             PROVE  retries'[e] <= MaxRetries /\ (status'[e] = "failed" <=> retries'[e] = MaxRetries)
  BY DEF RetryLimitHolds
<1>2. retries[e] <= MaxRetries /\ (status[e] = "failed" <=> retries[e] = MaxRetries)
      /\ retries[e] \in Nat
  BY <1>t DEF RetryLimitHolds
<1>3. CASE UNCHANGED <<status, owner, retries>>
  BY <1>2, <1>3
<1>4. ASSUME NEW f \in Experiments, Register(f)
      PROVE  retries'[e] <= MaxRetries /\ (status'[e] = "failed" <=> retries'[e] = MaxRetries)
  BY <1>t, <1>2, <1>4 DEF Register
<1>5. ASSUME NEW f \in Experiments, NEW w, ClaimNext(f, w)
      PROVE  retries'[e] <= MaxRetries /\ (status'[e] = "failed" <=> retries'[e] = MaxRetries)
  BY <1>t, <1>2, <1>5 DEF ClaimNext, IsNext, Queued
<1>6. ASSUME NEW f \in Experiments, NEW w, NEW flag, Finish(f, w, "completed", flag)
      PROVE  retries'[e] <= MaxRetries /\ (status'[e] = "failed" <=> retries'[e] = MaxRetries)
  BY <1>t, <1>2, <1>6 DEF Finish, IsOwned
<1>7. ASSUME NEW f \in Experiments, NEW w, Requeue(f, w, MaxRetries)
      PROVE  retries'[e] <= MaxRetries /\ (status'[e] = "failed" <=> retries'[e] = MaxRetries)
  <2>1. CASE e # f
    BY <1>t, <1>2, <1>7, <2>1 DEF Requeue
  <2>2. CASE e = f
    <3>1. status[e] = "running" /\ retries[e] < MaxRetries
      BY <1>t, <1>2, <1>7, <2>2 DEF Requeue, IsOwned
    <3>2. retries'[e] = retries[e] + 1
      BY <1>t, <1>7, <2>2 DEF Requeue
    <3>3. status'[e] = IF retries'[e] >= MaxRetries THEN "failed" ELSE "queued"
      BY <1>t, <1>7, <2>2 DEF Requeue
    <3> QED BY <1>t, <1>2, <3>1, <3>2, <3>3
  <2> QED BY <2>1, <2>2
<1>8. ASSUME NEW S \in SUBSET Experiments, \A f \in S : status[f] = "running", ReleaseRows(S)
      PROVE  retries'[e] <= MaxRetries /\ (status'[e] = "failed" <=> retries'[e] = MaxRetries)
  BY <1>t, <1>2, <1>8 DEF ReleaseRows
<1> QED BY <1>1, <1>3, <1>4, <1>5, <1>6, <1>7, <1>8 DEF RowStep

\* Past the recovery at the start every running row is of this process.
Recovered ==
    ~At(Main, "starting") =>
        \A e \in Experiments : status[e] = "running" => OwnedByProcess(e, pid)

\* A step that is not the start of a process or its recovery.
LEMMA StartSteps ==
    ASSUME PoolInv, [Next]_vars
    PROVE  \/ RecoverPool
           \/ At(Main, "starting")'
           \/ pid' = pid /\ ~At(Main, "starting")
<1>t. /\ proc \in [Processes -> States] /\ Main \in Processes
      /\ Threads \subseteq Processes /\ Main \notin Threads
  BY PoolFacts DEF PoolInv
<1>1. CASE Restarts
  BY <1>1, ResetPool DEF Restarts, At
<1>2. ASSUME NEW t \in Threads,
             \/ ThreadStep(t) \/ JobFileFails(t) \/ ComputeFails(t) \/ CleanupFails(t)
             \/ WriteFails(t) /\ UNCHANGED poolVars
      PROVE  pid' = pid /\ proc'[Main] = proc[Main]
  <2>1. t # Main
    BY <1>t
  <2>2. pid' = pid
    BY <1>2 DEF ThreadStep, Compute, PromoteJob, Complete, GiveBack, JobFileFails,
                ComputeFails, CleanupFails, poolVars
  <2>3. CASE \E d \in BOOLEAN : Promote(t, d) \/ WriteFails(t)
    <3>1. PromotionTypeOK /\ t \in Processes /\ JobOK(t)
      BY <1>t, PoolFacts DEF PoolInv, ThreadOK
    <3>2. proc' = [proc EXCEPT ![t] = proc'[t]]
      BY <2>3, <3>1, PromoteKeeps DEF SameLease
    <3> QED BY <1>t, <2>1, <2>2, <3>2
  <2>4. CASE ~PromoteJob(t) /\ ~WriteFails(t)
    BY <1>t, <1>2, <2>1, <2>2, <2>4 DEF ThreadStep, Compute, Complete, GiveBack, JobFileFails,
                ComputeFails, CleanupFails, Goto, Restart
  <2>5. CASE PromoteJob(t)
    <3>1. (Job(t) \in directories) \in BOOLEAN
      OBVIOUS
    <3> QED BY <2>3, <2>5, <3>1 DEF PromoteJob
  <2> QED BY <2>3, <2>4, <2>5
<1>3. CASE \/ RecoverStale \/ Release \/ ReadGates \/ Dispatch \/ EndDispatch
           \/ (\E t \in Threads : Collect(t)) \/ EndCollect \/ LoopFails
  BY <1>3 DEF RecoverStale, Release, ReleaseSelected, ReadGates, Dispatch, EndDispatch, Collect,
              EndCollect, LoopFails, At, poolVars
<1>4. CASE \/ \E e \in Experiments : Enqueue(e) \/ HeartbeatAges(e)
           \/ CircuitCools \/ HostExhausted \/ (\E flag \in BOOLEAN : SetDrain(flag))
           \/ UNCHANGED vars
  BY <1>4 DEF Enqueue, HeartbeatAges, CircuitCools, HostExhausted, SetDrain, vars,
              promotionVars, poolVars, At
<1> QED BY <1>1, <1>2, <1>3, <1>4 DEF Next, MainStep, At

LEMMA RecoveredNext ==
    ASSUME ~ReadCommitted, Overlapping = {}, PoolInv, Recovered, [Next]_vars
    PROVE  Recovered'
<1>t. /\ status \in [Experiments -> Statuses]
      /\ owner \in [Experiments -> WorkerIds \cup {Nobody}] /\ pid \in Nat
  BY PoolFacts DEF PoolInv
<1>1. CASE RecoverPool
  <2> DEFINE S == {e \in Experiments : \E old \in Pids \ {pid} :
                      /\ OwnedByProcess(e, old)
                      /\ <<pid, old>> \notin Overlapping}
  <2>1. ReleaseRows(S) /\ pid' = pid
    BY <1>1 DEF RecoverPool, SelectRows, poolVars
  <2>2. ASSUME NEW e \in Experiments, status[e] = "running", ~OwnedByProcess(e, pid)
        PROVE  e \in S
    <3>1. PICK q \in Pids : q <= pid /\ owner[e] \in {q} \X Nat
      BY <2>2 DEF PoolInv, OwnedByNow
    <3>2. OwnedByProcess(e, q) /\ q # pid
      BY <2>2, <3>1 DEF OwnedByProcess
    <3> QED BY <3>1, <3>2
  <2> HIDE DEF S
  <2>3. ASSUME NEW e \in Experiments, status'[e] = "running" PROVE OwnedByProcess(e, pid)'
    <3>1. e \notin S /\ status[e] = "running" /\ owner'[e] = owner[e]
      BY <2>1, <2>3 DEF ReleaseRows
    <3> QED BY <2>1, <2>2, <2>3, <3>1 DEF OwnedByProcess
  <2> QED BY <2>3 DEF Recovered
<1>2. CASE At(Main, "starting")'
  BY <1>2 DEF Recovered
<1>3. CASE pid' = pid /\ ~At(Main, "starting")
  <2>1. \A e \in Experiments : status[e] = "running" => OwnedByProcess(e, pid)
    BY <1>3 DEF Recovered
  <2>2. RowStep
    BY RowSteps
  <2>3. ASSUME NEW e \in Experiments, status'[e] = "running" PROVE owner'[e] \in {pid} \X Nat
    <3>1. CASE status[e] = "running" /\ owner'[e] = owner[e]
      BY <2>1, <3>1 DEF OwnedByProcess
    <3>2. CASE \E f \in Experiments, k \in Nat : ClaimNext(f, <<pid, k>>)
      <4>1. PICK f \in Experiments, k \in Nat : ClaimNext(f, <<pid, k>>)
        BY <3>2
      <4>2. CASE e = f
        BY <1>t, <4>1, <4>2 DEF ClaimNext
      <4>3. CASE e # f
        BY <1>t, <2>3, <3>1, <4>1, <4>3 DEF ClaimNext
      <4> QED BY <4>2, <4>3
    <3>3. CASE \E f \in Experiments : Register(f)
      BY <1>t, <2>3, <3>1, <3>3 DEF Register
    <3>4. CASE \E f \in Experiments : \E w, flag : Finish(f, w, "completed", flag)
      BY <1>t, <2>3, <3>1, <3>4 DEF Finish
    <3>5. CASE \E f \in Experiments : \E w : Requeue(f, w, MaxRetries)
      BY <1>t, <2>3, <3>1, <3>5 DEF Requeue
    <3>6. CASE \E S \in SUBSET Experiments : ReleaseRows(S)
      BY <1>t, <2>3, <3>1, <3>6 DEF ReleaseRows
    <3>7. CASE UNCHANGED <<status, owner, retries>>
      BY <2>3, <3>1, <3>7
    <3> QED BY <2>2, <3>2, <3>3, <3>4, <3>5, <3>6, <3>7 DEF RowStep
  <2> QED BY <1>3, <2>3 DEF Recovered, OwnedByProcess
<1> QED BY <1>1, <1>2, <1>3, StartSteps

\* With serializable transactions, and if no pid starts with the digits of
\* another, the pool keeps its types, the retry limit holds across processes,
\* no lease is stranded, and the recovery at the start leaves no row running
\* for a process that was replaced (run_forever, process_claimed, requeue).
THEOREM PoolStaysSound ==
    ASSUME ~ReadCommitted, Overlapping = {}
    PROVE  Spec => []PoolIsSound
<1>1. Init => RetryLimitHolds /\ Recovered
  <2> SUFFICES ASSUME Init PROVE RetryLimitHolds /\ Recovered
    OBVIOUS
  <2>1. \A e \in Experiments : retries[e] = 0 /\ status[e] \notin {"failed", "running"}
    <3>1. retries = [e \in Experiments |-> 0]
      BY DEF Init, PromotionInit, RegistryInit, ChampionInit
    <3>2. \A e \in Experiments : status[e] \in {"absent", "completed"}
      <4>1. CASE PromotionInit
        BY <4>1 DEF PromotionInit, RegistryInit
      <4>2. CASE \E c \in Crowned : ChampionInit(c)
        BY <4>2 DEF ChampionInit
      <4> QED BY <4>1, <4>2 DEF Init
    <3> QED BY <3>1, <3>2
  <2> QED BY <2>1, ComputeAssumption DEF RetryLimitHolds, Recovered
<1>2. PoolInv /\ RetryLimitHolds /\ Recovered /\ [Next]_vars => RetryLimitHolds' /\ Recovered'
  BY RetryNext, RecoveredNext
<1>3. PoolInv /\ RetryLimitHolds /\ Recovered => PoolIsSound
  <2> SUFFICES ASSUME PoolInv, RetryLimitHolds, Recovered PROVE PoolIsSound
    OBVIOUS
  <2>1. NoStrandedLease
    BY StrandedAll DEF PoolInv
  <2>2. ReplacedPoolIsRecovered
    BY DEF Recovered, ReplacedPoolIsRecovered, At
  <2> QED BY <2>1, <2>2 DEF PoolInv, PoolIsSound
<1> QED BY <1>1, <1>2, <1>3, PoolInvariant, PTL DEF Spec

\* Every step of the pool is one of the contract's, or leaves it alone.
LEMMA RowStepMaps ==
    ASSUME PoolInv, RowStep
    PROVE  Lifecycle!LifecycleNext \/ UNCHANGED <<status, Best>>
<1>t. status \in [Experiments -> Statuses] /\ RegistryTypeOK
  BY PoolFacts DEF PoolInv
<1>1. CASE UNCHANGED <<status, owner, retries, history>>
  BY <1>1, BestUnchanged
<1>2. ASSUME NEW e \in Experiments, Register(e) PROVE Lifecycle!LifecycleNext
  <2>1. UNCHANGED Best
    BY <1>2, BestUnchanged DEF Register
  <2>2. \E f \in Experiments : Lifecycle!Enqueue(f)
    BY <1>2, <2>1 DEF Register, Lifecycle!Enqueue
  <2> QED BY <2>2 DEF Lifecycle!LifecycleNext
<1>3. ASSUME NEW e \in Experiments, NEW w, ClaimNext(e, w) PROVE Lifecycle!LifecycleNext
  <2>1. UNCHANGED Best
    BY <1>3, BestUnchanged DEF ClaimNext
  <2>2. \E f \in Experiments : Lifecycle!Lease(f)
    BY <1>3, <2>1 DEF ClaimNext, IsNext, Queued, Lifecycle!Lease
  <2> QED BY <2>2 DEF Lifecycle!LifecycleNext
<1>4. ASSUME NEW e \in Experiments, NEW w, NEW flag, Finish(e, w, "completed", flag)
      PROVE  Lifecycle!LifecycleNext
  <2>1. UNCHANGED Best
    BY <1>4, BestUnchanged DEF Finish
  <2>2. \E f \in Experiments : Lifecycle!Settle(f)
    BY <1>4, <2>1 DEF Finish, IsOwned, Lifecycle!Settle, Lifecycle!Terminal
  <2> QED BY <2>2 DEF Lifecycle!LifecycleNext
<1>5. ASSUME NEW e \in Experiments, NEW w, Requeue(e, w, MaxRetries)
      PROVE  Lifecycle!LifecycleNext
  <2>1. UNCHANGED Best /\ status[e] = "running"
    BY <1>5, BestUnchanged DEF Requeue, IsOwned
  <2>2. CASE status' = [status EXCEPT ![e] = "failed"]
    <3>1. \E f \in Experiments : Lifecycle!Settle(f)
      BY <2>1, <2>2 DEF Lifecycle!Settle, Lifecycle!Terminal
    <3> QED BY <3>1 DEF Lifecycle!LifecycleNext
  <2>3. CASE status' = [status EXCEPT ![e] = "queued"]
    <3>1. status' = [f \in Experiments |-> IF f \in {e} THEN "queued" ELSE status[f]]
      BY <1>t, <2>3
    <3>2. \E S \in SUBSET Experiments : Lifecycle!Return(S)
      <4>1. {e} \in SUBSET Experiments /\ \A f \in {e} : status[f] = "running"
        BY <2>1
      <4> QED BY <2>1, <3>1, <4>1 DEF Lifecycle!Return
    <3> QED BY <3>2 DEF Lifecycle!LifecycleNext
  <2> QED BY <1>5, <2>2, <2>3 DEF Requeue
<1>6. ASSUME NEW S \in SUBSET Experiments, \A e \in S : status[e] = "running", ReleaseRows(S)
      PROVE  Lifecycle!LifecycleNext
  <2>1. UNCHANGED Best
    BY <1>6, BestUnchanged DEF ReleaseRows
  <2>2. \E T \in SUBSET Experiments : Lifecycle!Return(T)
    BY <1>6, <2>1 DEF ReleaseRows, Lifecycle!Return
  <2> QED BY <2>2 DEF Lifecycle!LifecycleNext
<1>7. CASE /\ UNCHANGED <<status, owner, retries>>
           /\ \E c \in Champions : c.score > Best /\ history' = Append(history, c)
  <2>1. PICK c \in Champions : c.score > Best /\ history' = Append(history, c)
    BY <1>7
  <2>2. Best' = c.score
    BY <1>t, <2>1, BestAppend
  <2>3. c.score \in Nat
    BY RegistryAssumption DEF Champions
  <2> QED BY <1>7, <2>1, <2>2, <2>3 DEF Lifecycle!LifecycleNext, Lifecycle!Crown
<1> QED BY <1>1, <1>2, <1>3, <1>4, <1>5, <1>6, <1>7 DEF RowStep

\* With serializable transactions the pool keeps what ExperimentLifecycle
\* promises: an experiment is queued once, leased and returned until it is
\* settled, and every champion is better than the last.
THEOREM PoolImplementsLifecycle ==
    ASSUME ~ReadCommitted
    PROVE  Spec => ImplementsLifecycle
<1>1. Init => Lifecycle!LifecycleInit
  <2> SUFFICES ASSUME Init PROVE Lifecycle!LifecycleInit
    OBVIOUS
  <2>1. PoolInv
    BY InitPool
  <2>2. Best \in Nat
    BY <2>1, BestType, PoolFacts, RegistryAssumption DEF PoolInv
  <2>3. status \in [Experiments -> {"absent", "completed"}]
    BY DEF Init, PromotionInit, RegistryInit, ChampionInit
  <2> QED BY <2>2, <2>3 DEF Lifecycle!LifecycleInit
<1>2. PoolInv /\ [Next]_vars => [Lifecycle!LifecycleNext]_(Lifecycle!lifecycleVars)
  <2> SUFFICES ASSUME PoolInv, [Next]_vars
               PROVE  Lifecycle!LifecycleNext \/ UNCHANGED <<status, Best>>
    BY DEF Lifecycle!lifecycleVars
  <2> QED BY RowSteps, RowStepMaps
<1> QED BY <1>1, <1>2, PoolInvariant, PTL DEF Spec, ImplementsLifecycle, Lifecycle!LifecycleSpec
=============================================================================
