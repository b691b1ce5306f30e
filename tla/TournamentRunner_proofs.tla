----------------------- MODULE TournamentRunner_proofs -----------------------
(***************************************************************************)
(* Theorems about the tournament workers, for any number of experiments,   *)
(* of incarnations of the service and of command line runs.                *)
(***************************************************************************)
EXTENDS TournamentRunner, Promotion_proofs

-----------------------------------------------------------------------------
(* The inductive invariant.                                                *)

\* What the place of a process says of it.  Only a service recovers, and two
\* steps of a recovery are seen apart only under READ COMMITTED; a process
\* that is not born owns nothing.
ProcOK(p) ==
    /\ JobOK(p)
    /\ At(p, "releasing") => ReadCommitted /\ proc[p].after \in {"loop", "claiming"}
    /\ At(p, "unborn") => \A e \in Experiments : owner[e] # p

LeaseInv ==
    /\ TypeOK
    /\ LiveLeaseIsWorkedOn
    /\ \A p \in Processes : ProcOK(p)

\* A process that holds a row works on it.
WorksOn(p, e) ==
    status[e] = "running" /\ owner[e] = p /\ Alive(p) /\ e \notin unmade =>
        Job(p) = e /\ proc[p].pc \notin Between

\* The lease invariant, one process and one experiment at a time.
LEMMA WorksOnAll ==
    ASSUME TypeOK
    PROVE  LiveLeaseIsWorkedOn <=> \A p \in Processes, e \in Experiments : WorksOn(p, e)
BY DEF TypeOK, LiveLeaseIsWorkedOn, WorksOn

LEMMA TypeFacts ==
    ASSUME TypeOK
    PROVE  /\ PromotionTypeOK /\ RegistryTypeOK
           /\ outcome \in Outcomes
           /\ proc \in [Processes -> States]
           /\ championFile \in 0..MaxScore
           /\ holdoutReads \in 0..2
           /\ owner \in [Experiments -> Processes \cup {Nobody}]
           /\ Nobody \notin Processes
BY RegistryAssumption, RunnerAssumption DEF TypeOK, PromotionTypeOK, RegistryTypeOK

-----------------------------------------------------------------------------
(* The shapes that most steps have.                                        *)

\* A process goes to an idle place and the rows only lose owners.
LEMMA ResetKeeps ==
    ASSUME LeaseInv, NEW p \in Processes, NEW there \in Idle \ {"unborn", "releasing"},
           Restart(p, there),
           RegistryTypeOK', UNCHANGED <<outcome, championFile, holdoutReads>>,
           unmade' \subseteq Fragile, unmade \subseteq unmade',
           \A e \in Experiments :
               \/ owner'[e] = Nobody /\ status'[e] # "running"
               \/ owner'[e] = owner[e] /\ status'[e] = status[e]
               \/ owner'[e] = owner[e] /\ status'[e] \in Terminal,
           \A e \in Experiments : status'[e] = "running" /\ owner'[e] = p
                                      => there = "dead" \/ e \in unmade'
    PROVE  LeaseInv'
<1>t. /\ PromotionTypeOK /\ proc \in [Processes -> States]
      /\ owner \in [Experiments -> Processes \cup {Nobody}]
      /\ Nobody \notin Processes
      /\ outcome \in Outcomes /\ championFile \in 0..MaxScore /\ holdoutReads \in 0..2
  BY TypeFacts DEF LeaseInv
<1>1. there \in Idle \cup Busy /\ there \notin Busy
  BY DEF Idle, Busy
<1>2. ResetTo(there) \in States
  BY <1>1, ResetType
<1>3. proc' = [proc EXCEPT ![p] = ResetTo(there)]
  BY DEF Restart
<1>4. proc' \in [Processes -> States] /\ proc'[p].pc = there
  BY <1>t, <1>2, <1>3, MoveType DEF ResetTo
<1>5. TypeOK'
  <2>1. PromotionTypeOK'
    BY <1>t, <1>4 DEF PromotionTypeOK
  <2> QED BY <2>1 DEF LeaseInv, TypeOK, Terminal
<1>6. ASSUME NEW q \in Processes, NEW e \in Experiments PROVE WorksOn(q, e)'
  <2>1. WorksOn(q, e)
    BY WorksOnAll DEF LeaseInv
  <2>2. CASE q = p
    BY <1>4, <2>2 DEF WorksOn, Alive, Gone
  <2>3. CASE q # p
    BY <1>t, <1>3, <2>1, <2>3 DEF WorksOn, Alive, Job, Terminal
  <2> QED BY <2>2, <2>3
<1>7. ASSUME NEW q \in Processes PROVE ProcOK(q)'
  <2>1. ProcOK(q)
    BY DEF LeaseInv
  <2>2. CASE q = p
    BY <1>1, <1>4, <2>2 DEF ProcOK, JobOK, At, Busy
  <2>3. CASE q # p
    <3>1. proc'[q] = proc[q]
      BY <1>t, <1>3, <2>3
    <3>2. ~At(q, "unborn")' \/ At(q, "unborn")
      BY <3>1 DEF At
    <3> QED BY <1>t, <2>1, <3>1, <3>2 DEF ProcOK, JobOK, At, Job, Score
  <2> QED BY <2>2, <2>3
<1>8. LiveLeaseIsWorkedOn'
  BY <1>5, <1>6 DEF LiveLeaseIsWorkedOn, WorksOn, TypeOK
<1> QED BY <1>5, <1>7, <1>8 DEF LeaseInv

\* A busy process stays busy with its job.
LEMMA BusyKeeps ==
    ASSUME LeaseInv, NEW p \in Processes, PromotionTypeOK', SameLease(p),
           JobOK(p)', UNCHANGED unmade
    PROVE  LeaseInv'
<1>t. /\ proc \in [Processes -> States]
      /\ owner \in [Experiments -> Processes \cup {Nobody}]
      /\ Nobody \notin Processes
  BY TypeFacts DEF LeaseInv
<1>1. TypeOK'
  BY DEF LeaseInv, TypeOK, SameLease, leaseVars
<1>2. proc'[p].pc \in Busy /\ proc[p].pc \in Busy /\ proc'[p].job = Job(p)
      /\ UNCHANGED <<leaseVars, outcome>> /\ proc' = [proc EXCEPT ![p] = proc'[p]]
  BY DEF SameLease
<1>3. ASSUME NEW q \in Processes, q # p PROVE proc'[q] = proc[q]
  BY <1>t, <1>2, <1>3
<1>4. ASSUME NEW q \in Processes, NEW e \in Experiments PROVE WorksOn(q, e)'
  <2>1. WorksOn(q, e)
    BY WorksOnAll DEF LeaseInv
  <2>2. CASE q = p
    BY <1>2, <2>1, <2>2 DEF WorksOn, Alive, Gone, Between, Busy, Job, leaseVars
  <2>3. CASE q # p
    BY <1>2, <1>3, <2>1, <2>3 DEF WorksOn, Alive, Job, leaseVars
  <2> QED BY <2>2, <2>3
<1>5. ASSUME NEW q \in Processes PROVE ProcOK(q)'
  <2>1. ProcOK(q)
    BY DEF LeaseInv
  <2>2. CASE q = p
    BY <1>2, <2>2 DEF ProcOK, At, Busy
  <2>3. CASE q # p
    BY <1>2, <1>3, <2>1, <2>3 DEF ProcOK, JobOK, At, Job, Score, leaseVars
  <2> QED BY <2>2, <2>3
<1>8. LiveLeaseIsWorkedOn'
  BY <1>1, <1>4 DEF LiveLeaseIsWorkedOn, WorksOn, TypeOK
<1> QED BY <1>1, <1>5, <1>8 DEF LeaseInv

\* Same, for a step that only goes to a busy place other than "inserting".
LEMMA GotoKeeps ==
    ASSUME LeaseInv, NEW p \in Processes, NEW there \in Busy \ {"inserting"},
           proc[p].pc \in Busy, Goto(p, there), RegistryTypeOK',
           UNCHANGED <<status, owner, retries, outcome, championFile, holdoutReads, unmade>>
    PROVE  LeaseInv'
<1>t. /\ PromotionTypeOK /\ proc \in [Processes -> States]
      /\ owner \in [Experiments -> Processes \cup {Nobody}]
      /\ Nobody \notin Processes /\ JobOK(p)
      /\ outcome \in Outcomes /\ championFile \in 0..MaxScore /\ holdoutReads \in 0..2
  BY TypeFacts DEF LeaseInv, ProcOK
<1>1. proc' = [proc EXCEPT ![p].pc = there]
  BY DEF Goto
<1>2. proc' \in [Processes -> States]
  BY <1>t, <1>1, GotoType
<1>3. /\ proc'[p].pc = there /\ proc'[p].job = proc[p].job
      /\ \A q \in Processes \ {p} : proc'[q] = proc[q]
  BY <1>t, <1>1 DEF States
<1>4. TypeOK'
  BY <1>t, <1>2 DEF LeaseInv, TypeOK, PromotionTypeOK
<1>5. ASSUME NEW q \in Processes, NEW e \in Experiments PROVE WorksOn(q, e)'
  <2>1. WorksOn(q, e)
    BY WorksOnAll DEF LeaseInv
  <2>2. CASE q = p
    BY <1>3, <2>1, <2>2 DEF WorksOn, Alive, Gone, Between, Busy, Job
  <2>3. CASE q # p
    BY <1>3, <2>1, <2>3 DEF WorksOn, Alive, Job
  <2> QED BY <2>2, <2>3
<1>6. ASSUME NEW q \in Processes PROVE ProcOK(q)'
  <2>1. ProcOK(q)
    BY DEF LeaseInv
  <2>2. CASE q = p
    BY <1>t, <1>3, <2>2 DEF ProcOK, JobOK, At, Busy, Job
  <2>3. CASE q # p
    BY <1>3, <2>1, <2>3 DEF ProcOK, JobOK, At, Job, Score
  <2> QED BY <2>2, <2>3
<1>8. LiveLeaseIsWorkedOn'
  BY <1>4, <1>5 DEF LiveLeaseIsWorkedOn, WorksOn, TypeOK
<1> QED BY <1>4, <1>6, <1>8 DEF LeaseInv

-----------------------------------------------------------------------------
(* The initial states and the steps.                                       *)

LEMMA InitLease == Init => LeaseInv
<1> SUFFICES ASSUME Init PROVE LeaseInv
  OBVIOUS
<1>1. /\ proc = [p \in Processes |-> ResetTo("unborn")]
      /\ \A e \in Experiments : status[e] = "absent" /\ owner[e] = Nobody
      /\ unmade = {}
  BY DEF Init, PromotionInit, RegistryInit
<1>2. "unborn" \in Idle \cup Busy /\ "unborn" \notin Busy
  BY DEF Idle, Busy
<1>3. proc \in [Processes -> States] /\ \A p \in Processes : proc[p].pc = "unborn"
  BY <1>1, <1>2, ResetType DEF ResetTo
<1>4. RegistryTypeOK
  <2>1. << >> \in Seq(Champions)
    OBVIOUS
  <2> QED BY <2>1 DEF Init, PromotionInit, RegistryInit, RegistryTypeOK, Statuses
<1>5. PromotionTypeOK
  BY <1>3, <1>4, RegistryAssumption DEF Init, PromotionInit, PromotionTypeOK
<1>6. TypeOK
  BY <1>1, <1>5 DEF TypeOK
<1>7. LiveLeaseIsWorkedOn
  BY <1>1 DEF LiveLeaseIsWorkedOn
<1>8. ASSUME NEW p \in Processes PROVE ProcOK(p)
  BY <1>1, <1>2, <1>3, RegistryAssumption, RunnerAssumption DEF ProcOK, JobOK, At
<1> QED BY <1>6, <1>7, <1>8 DEF LeaseInv

\* A recovery at an idle place: either it selects rows, or it releases them.
LEMMA SelectKeeps ==
    ASSUME LeaseInv, NEW p \in Processes, NEW S \in SUBSET Experiments,
           NEW there \in {"loop", "claiming"},
           proc[p].pc \in {"starting", "loop"}, SelectRows(p, S, there), UNCHANGED unmade
    PROVE  LeaseInv'
<1>t. /\ PromotionTypeOK /\ proc \in [Processes -> States] /\ RegistryTypeOK
      /\ owner \in [Experiments -> Processes \cup {Nobody}]
      /\ Nobody \notin Processes
      /\ outcome \in Outcomes /\ championFile \in 0..MaxScore /\ holdoutReads \in 0..2
  BY TypeFacts DEF LeaseInv
<1>f. \A e \in Experiments : WorksOn(p, e)
  BY WorksOnAll DEF LeaseInv
<1>n. \A e \in Experiments : status[e] = "running" /\ owner[e] = p => e \in unmade
  BY <1>f DEF WorksOn, Alive, Gone, Between
<1>1. CASE ~ReadCommitted
  <2>1. Restart(p, there) /\ ReleaseRows(S) /\ UNCHANGED <<outcome, championFile, holdoutReads>>
    BY <1>1 DEF SelectRows
  <2>2. RegistryTypeOK'
    BY <1>t, <2>1, ReleaseRowsType
  <2>3. \A e \in Experiments :
            \/ owner'[e] = Nobody /\ status'[e] # "running"
            \/ owner'[e] = owner[e] /\ status'[e] = status[e]
    BY <1>t, <2>1 DEF ReleaseRows, RegistryTypeOK
  <2>4. \A e \in Experiments : status'[e] = "running" /\ owner'[e] = p => e \in unmade'
    BY <1>n, <1>t, <2>3
  <2>5. there \in Idle \ {"unborn", "releasing"} /\ unmade' \subseteq Fragile
    BY DEF Idle, LeaseInv, TypeOK
  <2> QED BY <2>1, <2>2, <2>3, <2>4, <2>5, ResetKeeps
<1>2. CASE ReadCommitted
  <2> DEFINE next == [ResetTo("releasing") EXCEPT !.rows = S, !.after = there]
  <2>1. /\ proc' = [proc EXCEPT ![p] = next]
        /\ UNCHANGED <<registryVars, outcome, championFile, holdoutReads>>
    BY <1>2 DEF SelectRows
  <2>2. "releasing" \in Idle \cup Busy /\ there \in Idle \cup Busy
    BY DEF Idle
  <2>3. next \in States
    BY <2>2 DEF ResetTo, States
  <2>4. /\ proc' \in [Processes -> States]
        /\ proc'[p].pc = "releasing" /\ proc'[p].after = there
        /\ \A q \in Processes \ {p} : proc'[q] = proc[q]
    BY <1>t, <2>1, <2>3, MoveType DEF ResetTo
  <2>5. RegistryTypeOK'
    BY <1>t, <2>1, RegistryUnchanged
  <2>6. TypeOK'
    BY <1>t, <2>1, <2>4, <2>5 DEF LeaseInv, TypeOK, PromotionTypeOK, registryVars
  <2>7. ASSUME NEW q \in Processes, NEW e \in Experiments PROVE WorksOn(q, e)'
    <3>1. WorksOn(q, e)
      BY WorksOnAll DEF LeaseInv
    <3>2. CASE q = p
      BY <1>n, <2>1, <3>2 DEF WorksOn, registryVars
    <3>3. CASE q # p
      BY <2>1, <2>4, <3>1, <3>3 DEF WorksOn, Alive, Job, registryVars
    <3> QED BY <3>2, <3>3
  <2>8. ASSUME NEW q \in Processes PROVE ProcOK(q)'
    <3>1. ProcOK(q)
      BY DEF LeaseInv
    <3>2. CASE q = p
      BY <1>2, <2>4, <3>2 DEF ProcOK, JobOK, At, Busy
    <3>3. CASE q # p
      BY <2>1, <2>4, <3>1, <3>3 DEF ProcOK, JobOK, At, Job, Score, registryVars
    <3> QED BY <3>2, <3>3
  <2>9. LiveLeaseIsWorkedOn'
    BY <2>6, <2>7 DEF LiveLeaseIsWorkedOn, WorksOn, TypeOK
  <2> QED BY <2>6, <2>8, <2>9 DEF LeaseInv
<1> QED BY <1>1, <1>2

\* A recovery that has selected rows releases them.
LEMMA ReleaseKeeps ==
    ASSUME LeaseInv, NEW p \in Processes, ReleaseSelected(p), UNCHANGED unmade
    PROVE  LeaseInv'
<1>t. /\ proc \in [Processes -> States] /\ RegistryTypeOK
      /\ owner \in [Experiments -> Processes \cup {Nobody}]
  BY TypeFacts DEF LeaseInv
<1>1. /\ At(p, "releasing") /\ ReleaseRows(proc[p].rows) /\ Restart(p, proc[p].after)
      /\ UNCHANGED <<outcome, championFile, holdoutReads>>
  BY DEF ReleaseSelected
<1>2. proc[p].after \in {"loop", "claiming"}
  BY <1>1 DEF LeaseInv, ProcOK
<1>3. proc[p].rows \in SUBSET Experiments
  BY <1>t DEF States
<1>4. RegistryTypeOK'
  BY <1>t, <1>1, <1>3, ReleaseRowsType
<1>5. \A e \in Experiments :
          \/ owner'[e] = Nobody /\ status'[e] # "running"
          \/ owner'[e] = owner[e] /\ status'[e] = status[e]
  BY <1>t, <1>1 DEF ReleaseRows, RegistryTypeOK
<1>6. \A e \in Experiments : WorksOn(p, e)
  BY WorksOnAll DEF LeaseInv
<1>7. \A e \in Experiments : status'[e] = "running" /\ owner'[e] = p => e \in unmade'
  <2>1. Nobody # p
    BY TypeFacts DEF LeaseInv
  <2> QED BY <1>1, <1>5, <1>6, <2>1 DEF WorksOn, Alive, Gone, Between, At
<1>8. proc[p].after \in Idle \ {"unborn", "releasing"} /\ unmade' \subseteq Fragile
  BY <1>2 DEF Idle, LeaseInv, TypeOK
<1> QED BY <1>1, <1>4, <1>5, <1>7, <1>8, ResetKeeps

LEMMA ClaimKeeps ==
    ASSUME LeaseInv, NEW p \in Processes, Claim(p)
    PROVE  LeaseInv'
<1>t. /\ PromotionTypeOK /\ proc \in [Processes -> States] /\ RegistryTypeOK
      /\ owner \in [Experiments -> Processes \cup {Nobody}]
      /\ Nobody \notin Processes
      /\ outcome \in Outcomes /\ championFile \in 0..MaxScore /\ holdoutReads \in 0..2
  BY TypeFacts DEF LeaseInv
<1>1. PICK e \in Experiments :
          /\ ClaimNext(e, p)
          /\ proc' = [proc EXCEPT ![p].pc = "developing", ![p].job = e, ![p].id = p]
  BY DEF Claim
<1>2. At(p, "claiming") /\ UNCHANGED <<outcome, championFile, holdoutReads, unmade>>
  BY DEF Claim
<1> DEFINE next == [proc[p] EXCEPT !.pc = "developing", !.job = e, !.id = p]
<1>3. next \in States
  <2>1. p \in WorkerIds /\ "developing" \in Idle \cup Busy /\ proc[p] \in States
    BY <1>t, RunnerAssumption DEF Busy
  <2> QED BY <2>1 DEF States
<1>4. proc' = [proc EXCEPT ![p] = next]
  BY <1>t, <1>1
<1>5. /\ proc' \in [Processes -> States]
      /\ proc'[p].pc = "developing" /\ proc'[p].job = e
      /\ \A q \in Processes \ {p} : proc'[q] = proc[q]
  <2>1. next.pc = "developing" /\ next.job = e
    BY <1>t DEF States
  <2> QED BY <1>t, <1>3, <1>4, <2>1, MoveType
<1>6. RegistryTypeOK'
  BY <1>t, <1>1, ClaimNextType, RunnerAssumption
<1>7. /\ status' = [status EXCEPT ![e] = "running"]
      /\ owner' = [owner EXCEPT ![e] = p]
  BY <1>1 DEF ClaimNext
<1>8. TypeOK'
  BY <1>t, <1>2, <1>5, <1>6, <1>7 DEF LeaseInv, TypeOK, PromotionTypeOK, RegistryTypeOK
<1>9. ASSUME NEW q \in Processes, NEW f \in Experiments PROVE WorksOn(q, f)'
  <2>1. WorksOn(q, f)
    BY WorksOnAll DEF LeaseInv
  <2>2. CASE f = e
    BY <1>t, <1>5, <1>7, <2>2 DEF WorksOn, Job, Between
  <2>3. CASE f # e
    <3>1. status'[f] = status[f] /\ owner'[f] = owner[f]
      BY <1>t, <1>7, <2>3 DEF RegistryTypeOK
    <3>2. CASE q = p
      BY <1>2, <2>1, <3>1, <3>2 DEF WorksOn, Alive, Gone, Between, At
    <3>3. CASE q # p
      BY <1>2, <1>5, <2>1, <3>1, <3>3 DEF WorksOn, Alive, Job
    <3> QED BY <3>2, <3>3
  <2> QED BY <2>2, <2>3
<1>10. ASSUME NEW q \in Processes PROVE ProcOK(q)'
  <2>1. ProcOK(q)
    BY DEF LeaseInv
  <2>2. CASE q = p
    BY <1>5, <2>2 DEF ProcOK, JobOK, At, Job
  <2>3. CASE q # p
    BY <1>t, <1>2, <1>5, <1>7, <2>1, <2>3 DEF ProcOK, JobOK, At, Job, Score
  <2> QED BY <2>2, <2>3
<1>11. LiveLeaseIsWorkedOn'
  BY <1>8, <1>9 DEF LiveLeaseIsWorkedOn, WorksOn, TypeOK
<1> QED BY <1>8, <1>10, <1>11 DEF LeaseInv

\* A process that stops, or turns to another experiment, and leaves the
\* registry as it is: it held nothing, or dies, or could not make a directory.
LEMMA LeaveKeeps ==
    ASSUME LeaseInv, NEW p \in Processes, NEW there \in Idle \ {"unborn", "releasing"},
           Restart(p, there), UNCHANGED <<registryVars, outcome, championFile, holdoutReads>>,
           unmade' \subseteq Fragile, unmade \subseteq unmade',
           \A e \in Experiments : status[e] = "running" /\ owner[e] = p
                                      => there = "dead" \/ e \in unmade'
    PROVE  LeaseInv'
<1>1. RegistryTypeOK'
  BY TypeFacts, RegistryUnchanged DEF LeaseInv
<1> QED BY <1>1, ResetKeeps DEF registryVars

\* The rows that a live process holds, by the place where it is.
LEMMA HeldRows ==
    ASSUME LeaseInv, NEW p \in Processes, Alive(p), NEW e \in Experiments,
           status[e] = "running", owner[e] = p
    PROVE  e \in unmade \/ (e = Job(p) /\ proc[p].pc \notin Between)
<1>1. WorksOn(p, e)
  BY WorksOnAll DEF LeaseInv
<1> QED BY <1>1 DEF WorksOn

\* The experiment is settled, or was not owned any more.
LEMMA SettleKeeps ==
    ASSUME LeaseInv, NEW p \in Processes, proc[p].pc \in Busy,
           NEW result \in Terminal, NEW flag \in BOOLEAN,
           NEW there \in Idle \ {"unborn", "releasing"}, Restart(p, there),
           \/ Finish(Job(p), p, result, flag)
           \/ ~IsOwned(Job(p), p) /\ UNCHANGED registryVars,
           UNCHANGED <<outcome, championFile, holdoutReads, unmade>>
    PROVE  LeaseInv'
<1>t. /\ RegistryTypeOK /\ owner \in [Experiments -> Processes \cup {Nobody}]
      /\ unmade \subseteq Fragile
  BY TypeFacts DEF LeaseInv, TypeOK
<1>1. Job(p) \in Experiments /\ Alive(p)
  BY DEF LeaseInv, ProcOK, JobOK, Alive, Gone, Busy
<1>2. CASE Finish(Job(p), p, result, flag)
  <2>1. RegistryTypeOK'
    BY <1>t, <1>1, <1>2, FinishType
  <2>2. \A e \in Experiments :
            \/ owner'[e] = owner[e] /\ status'[e] = status[e] /\ e # Job(p)
            \/ owner'[e] = owner[e] /\ status'[e] \in Terminal
    BY <1>t, <1>2 DEF Finish, RegistryTypeOK
  <2>3. \A e \in Experiments : status'[e] = "running" /\ owner'[e] = p => e \in unmade'
    BY <1>1, <2>2, HeldRows DEF Terminal
  <2> QED BY <1>t, <2>1, <2>2, <2>3, ResetKeeps
<1>3. CASE ~IsOwned(Job(p), p) /\ UNCHANGED registryVars
  <2>1. \A e \in Experiments : status[e] = "running" /\ owner[e] = p => e \in unmade'
    BY <1>1, <1>3, HeldRows DEF IsOwned
  <2> QED BY <1>t, <1>3, <2>1, LeaveKeeps
<1> QED BY <1>2, <1>3

\* A step of the environment changes no process.
LEMMA QuietKeeps ==
    ASSUME LeaseInv, UNCHANGED <<outcome, proc, championFile, holdoutReads, unmade>>,
           RegistryTypeOK', UNCHANGED owner,
           \A e \in Experiments :
               \/ status'[e] = status[e]
               \/ status[e] = "absent" /\ status'[e] = "queued"
    PROVE  LeaseInv'
<1>1. TypeOK'
  BY DEF LeaseInv, TypeOK, PromotionTypeOK
<1>2. LiveLeaseIsWorkedOn'
  BY DEF LeaseInv, LiveLeaseIsWorkedOn, Alive, Job
<1>3. \A p \in Processes : ProcOK(p)'
  BY DEF LeaseInv, ProcOK, JobOK, At, Job, Score
<1> QED BY <1>1, <1>2, <1>3 DEF LeaseInv

\* Every step keeps the invariant.
LEMMA LeaseNext == LeaseInv /\ [Next]_vars => LeaseInv'
<1> SUFFICES ASSUME LeaseInv, [Next]_vars PROVE LeaseInv'
  OBVIOUS
<1>t. /\ PromotionTypeOK /\ proc \in [Processes -> States] /\ RegistryTypeOK
      /\ owner \in [Experiments -> Processes \cup {Nobody}]
      /\ Nobody \notin Processes /\ unmade \subseteq Fragile
  BY TypeFacts DEF LeaseInv, TypeOK
<1>j. ASSUME NEW p \in Processes PROVE JobOK(p)
  BY DEF LeaseInv, ProcOK
<1> USE DEF Idle
<1>1. ASSUME NEW p \in Processes, Start(p) PROVE LeaseInv'
  <2>1. PICK there \in {"starting", "claiming"} : Restart(p, there)
    BY <1>1 DEF Start
  <2>2. \A e \in Experiments : owner[e] # p
    BY <1>1 DEF Start, LeaseInv, ProcOK
  <2> QED BY <1>1, <1>t, <2>1, <2>2, LeaveKeeps DEF Start
<1>2. ASSUME NEW p \in Processes, Crash(p) PROVE LeaseInv'
  BY <1>2, <1>t, LeaveKeeps DEF Crash
<1>3. ASSUME NEW p \in Processes, RecoverOtherWorkers(p) PROVE LeaseInv'
  <2>1. {e \in Experiments : status[e] = "running" /\ owner[e] # p} \in SUBSET Experiments
    OBVIOUS
  <2> QED BY <1>3, <2>1, SelectKeeps DEF RecoverOtherWorkers, At
<1>4. ASSUME NEW p \in Processes, RecoverStale(p) PROVE LeaseInv'
  <2>1. StaleRows \in SUBSET Experiments
    BY <1>t DEF StaleRows, RegistryTypeOK
  <2> QED BY <1>4, <2>1, SelectKeeps DEF RecoverStale, At
<1>5. ASSUME NEW p \in Processes, ReleaseSelected(p), UNCHANGED unmade PROVE LeaseInv'
  BY <1>5, ReleaseKeeps
<1>6. ASSUME NEW p \in Processes, Claim(p) PROVE LeaseInv'
  BY <1>6, ClaimKeeps
<1>7. ASSUME NEW p \in Processes, ClaimNothing(p) \/ MaintenanceFails(p) PROVE LeaseInv'
  <2>1. PICK there \in {"loop", "dead"} : Restart(p, there)
    BY <1>7 DEF ClaimNothing, MaintenanceFails
  <2>2. At(p, "claiming")
        /\ UNCHANGED <<registryVars, outcome, championFile, holdoutReads, unmade>>
    BY <1>7 DEF ClaimNothing, MaintenanceFails
  <2>3. \A e \in Experiments : status[e] = "running" /\ owner[e] = p => e \in unmade'
    BY <2>2, HeldRows DEF Alive, Gone, At, Between
  <2> QED BY <1>t, <2>1, <2>2, <2>3, LeaveKeeps
<1>8. ASSUME NEW p \in Processes, DirectoryFails(p) PROVE LeaseInv'
  <2>1. PICK there \in {"loop", "dead"} : Restart(p, there)
    BY <1>8 DEF DirectoryFails, AfterRun
  <2>2. /\ At(p, "developing") /\ unmade' = unmade \cup {Job(p)} /\ Job(p) \in Fragile
        /\ UNCHANGED <<registryVars, outcome, championFile, holdoutReads>>
    BY <1>8 DEF DirectoryFails
  <2>3. \A e \in Experiments : status[e] = "running" /\ owner[e] = p => e \in unmade'
    BY <2>2, HeldRows DEF Alive, Gone, At
  <2> QED BY <1>t, <2>1, <2>2, <2>3, LeaveKeeps
<1>9. ASSUME NEW p \in Processes, Develop(p) PROVE LeaseInv'
  <2>1. PICK there \in {"promoting", "failing"} : Goto(p, there)
    BY <1>9 DEF Develop
  <2>2. At(p, "developing") /\ UNCHANGED <<outcome, championFile, holdoutReads, unmade>>
        /\ (Heartbeat(Job(p), p) \/ UNCHANGED registryVars)
    BY <1>9 DEF Develop
  <2>3. RegistryTypeOK' /\ UNCHANGED <<status, owner, retries>>
    BY <1>t, <1>j, <2>2, HeartbeatType, RegistryUnchanged
    DEF JobOK, At, Busy, Heartbeat, registryVars
  <2>4. there \in Busy \ {"inserting"} /\ proc[p].pc \in Busy
    BY <2>2 DEF Busy, At
  <2> QED BY <2>1, <2>2, <2>3, <2>4, GotoKeeps
<1>10. ASSUME NEW p \in Processes, EvaluationFails(p) PROVE LeaseInv'
  <2>1. RegistryTypeOK' /\ UNCHANGED <<status, owner, retries>>
    BY <1>10, <1>t, RegistryUnchanged DEF EvaluationFails, registryVars
  <2>2. "failing" \in Busy \ {"inserting"} /\ proc[p].pc \in Busy
    BY <1>10 DEF Busy, EvaluationFails
  <2> QED BY <1>10, <2>1, <2>2, GotoKeeps DEF EvaluationFails
<1>11. ASSUME NEW p \in Processes, NEW d \in BOOLEAN, Promote(p, d) \/ WriteFails(p),
              UNCHANGED unmade
       PROVE  LeaseInv'
  <2>1. PromotionTypeOK' /\ SameLease(p) /\ JobOK(p)'
    BY <1>11, <1>t, <1>j, PromoteKeeps
  <2> QED BY <1>11, <2>1, BusyKeeps
<1>12. ASSUME NEW p \in Processes, Complete(p) PROVE LeaseInv'
  <2>1. At(p, "settling") /\ UNCHANGED <<outcome, championFile, holdoutReads, unmade>>
        /\ proc[p].pc \in Busy
    BY <1>12 DEF Complete, At, Busy
  <2>2. CASE /\ Finish(Job(p), p, "completed", proc[p].won)
             /\ Restart(p, AfterRun(p, FALSE))
    <3>1. PICK there \in {"loop", "claiming"} : Restart(p, there)
      BY <2>2 DEF AfterRun
    <3>2. "completed" \in Terminal /\ proc[p].won \in BOOLEAN
      BY <1>t DEF States, Terminal
    <3> QED BY <2>1, <2>2, <3>1, <3>2, SettleKeeps
  <2>3. CASE ~IsOwned(Job(p), p) /\ Goto(p, "failing") /\ UNCHANGED registryVars
    <3>1. RegistryTypeOK' /\ UNCHANGED <<status, owner, retries>>
      BY <2>3, <1>t, RegistryUnchanged DEF registryVars
    <3>2. "failing" \in Busy \ {"inserting"}
      BY DEF Busy
    <3> QED BY <2>1, <2>3, <3>1, <3>2, GotoKeeps
  <2> QED BY <1>12, <2>2, <2>3 DEF Complete
<1>13. ASSUME NEW p \in Processes, Fail(p) PROVE LeaseInv'
  <2>1. PICK there \in {"loop", "dead"} : Restart(p, there)
    BY <1>13 DEF Fail, AfterRun
  <2>2. proc[p].pc \in Busy /\ "failed" \in Terminal /\ FALSE \in BOOLEAN
    BY <1>13 DEF Fail, At, Busy, Terminal
  <2> QED BY <1>13, <2>1, <2>2, SettleKeeps DEF Fail
<1>14. ASSUME NEW e \in Experiments, Enqueue(e) PROVE LeaseInv'
  <2>1. RegistryTypeOK'
    BY <1>14, <1>t, RegisterType DEF Enqueue
  <2> QED BY <1>14, <1>t, <2>1, QuietKeeps DEF Enqueue, Register, promotionVars, RegistryTypeOK
<1>15. ASSUME NEW e \in Experiments, HeartbeatAges(e) PROVE LeaseInv'
  <2>1. RegistryTypeOK'
    BY <1>15, <1>t, AgeType DEF HeartbeatAges
  <2> QED BY <1>15, <2>1, QuietKeeps DEF HeartbeatAges, Age, promotionVars
<1>16. CASE UNCHANGED vars
  <2>1. RegistryTypeOK'
    BY <1>16, <1>t, RegistryUnchanged DEF vars
  <2> QED BY <1>16, <2>1, QuietKeeps DEF vars, registryVars, promotionVars
<1>17. ASSUME NEW p \in Processes, Recover(p) PROVE LeaseInv'
  BY <1>17, <1>3, <1>4, <1>5 DEF Recover
<1>18. ASSUME NEW p \in Processes, RunOnce(p) PROVE LeaseInv'
  BY <1>18, <1>6, <1>7, <1>9, <1>11, <1>12, <1>13 DEF RunOnce, PromoteJob
<1>19. ASSUME NEW p \in Processes, Faults(p) PROVE LeaseInv'
  <2>1. CASE ReadHoldout(p, FALSE) /\ UNCHANGED unmade
    BY <2>1, <1>11 DEF Promote
  <2> QED BY <1>19, <2>1, <1>7, <1>8, <1>10, <1>11 DEF Faults
<1> QED BY <1>1, <1>2, <1>14, <1>15, <1>16, <1>17, <1>18, <1>19 DEF Next

\* The inductive invariant of the workers, for any interleaving of any number
\* of them and either isolation level.
THEOREM WorkersSound == Spec => []LeaseInv
<1>1. Init => LeaseInv
  BY InitLease
<1>2. LeaseInv /\ [Next]_vars => LeaseInv'
  BY LeaseNext
<1> QED BY <1>1, <1>2, PTL DEF Spec

\* The registry and the workers keep their types.
THEOREM WorkersTypeCorrect == Spec => []TypeOK
<1>1. LeaseInv => TypeOK
  BY DEF LeaseInv
<1> QED BY <1>1, WorkersSound, PTL

\* No row stays `running` with a live worker that has turned to something else
\* (run_once settles every row it claims, once it has a directory).
THEOREM LiveLeasesAreWorkedOn == Spec => []LiveLeaseIsWorkedOn
<1>1. LeaseInv => LiveLeaseIsWorkedOn
  BY DEF LeaseInv
<1> QED BY <1>1, WorkersSound, PTL

-----------------------------------------------------------------------------
(* Serializable transactions: the registry implements ExperimentLifecycle. *)

\* What a step does to the rows and to the history.
LifecycleStep ==
    \/ UNCHANGED <<status, history>>
    \/ /\ UNCHANGED history
       /\ \/ \E e \in Experiments : Lifecycle!Enqueue(e) \/ Lifecycle!Lease(e)
                                    \/ Lifecycle!Settle(e)
          \/ \E S \in SUBSET Experiments : Lifecycle!Return(S)
    \/ /\ UNCHANGED status
       /\ \E c \in Champions : c.score > Best /\ history' = Append(history, c)

LEMMA SettleSteps ==
    ASSUME NEW e \in Experiments, NEW w, NEW result \in Terminal, NEW flag,
           Finish(e, w, result, flag)
    PROVE  LifecycleStep
<1>1. UNCHANGED history /\ status[e] = "running" /\ status' = [status EXCEPT ![e] = result]
  BY DEF Finish, IsOwned
<1>2. UNCHANGED Best
  BY <1>1, BestUnchanged
<1>3. Lifecycle!Settle(e)
  BY <1>1, <1>2 DEF Lifecycle!Settle, Lifecycle!Terminal, Terminal
<1> QED BY <1>1, <1>3 DEF LifecycleStep

LEMMA ReleaseSteps ==
    ASSUME RegistryTypeOK, NEW S \in SUBSET Experiments, \A e \in S : status[e] = "running",
           ReleaseRows(S)
    PROVE  LifecycleStep
<1>1. UNCHANGED history
  BY DEF ReleaseRows
<1>2. UNCHANGED Best
  BY <1>1, BestUnchanged
<1>3. Lifecycle!Return(S)
  BY <1>2 DEF ReleaseRows, Lifecycle!Return
<1> QED BY <1>1, <1>3 DEF LifecycleStep

\* Every step of the workers is one of the contract's, or leaves the rows and
\* the history alone.
LEMMA NextSteps ==
    ASSUME ~ReadCommitted, LeaseInv, [Next]_vars
    PROVE  LifecycleStep
<1>t. RegistryTypeOK /\ proc \in [Processes -> States] /\ outcome \in Outcomes
      /\ \A p \in Processes : JobOK(p)
  BY TypeFacts DEF LeaseInv, ProcOK
<1>1. ASSUME NEW e \in Experiments, Enqueue(e) PROVE LifecycleStep
  <2>1. UNCHANGED history
    BY <1>1 DEF Enqueue, Register
  <2>2. Lifecycle!Enqueue(e)
    BY <1>1, <2>1, BestUnchanged DEF Enqueue, Register, Lifecycle!Enqueue
  <2> QED BY <2>1, <2>2 DEF LifecycleStep
<1>2. ASSUME NEW p \in Processes, Claim(p) PROVE LifecycleStep
  <2>1. PICK e \in Experiments : ClaimNext(e, p)
    BY <1>2 DEF Claim
  <2>2. UNCHANGED history
    BY <2>1 DEF ClaimNext
  <2>3. Lifecycle!Lease(e)
    BY <2>1, <2>2, BestUnchanged DEF ClaimNext, IsNext, Queued, Lifecycle!Lease
  <2> QED BY <2>2, <2>3 DEF LifecycleStep
<1>3. ASSUME NEW p \in Processes, NEW S \in SUBSET Experiments, NEW there,
             \A e \in S : status[e] = "running", SelectRows(p, S, there)
      PROVE  LifecycleStep
  BY <1>3, <1>t, ReleaseSteps DEF SelectRows
<1>4. ASSUME NEW p \in Processes, Recover(p) PROVE LifecycleStep
  <2>1. ~ReleaseSelected(p)
    BY <1>4 DEF LeaseInv, ProcOK, ReleaseSelected
  <2>2. CASE RecoverOtherWorkers(p)
    <3> DEFINE S == {e \in Experiments : status[e] = "running" /\ owner[e] # p}
    <3>1. S \in SUBSET Experiments /\ \A e \in S : status[e] = "running"
      OBVIOUS
    <3> QED BY <1>3, <2>2, <3>1 DEF RecoverOtherWorkers
  <2>3. CASE RecoverStale(p)
    <3>1. StaleRows \in SUBSET Experiments /\ \A e \in StaleRows : status[e] = "running"
      BY <1>t DEF StaleRows, RegistryTypeOK
    <3> QED BY <1>3, <2>3, <3>1 DEF RecoverStale
  <2> QED BY <1>4, <2>1, <2>2, <2>3 DEF Recover
<1>5. ASSUME NEW p \in Processes, NEW d \in BOOLEAN, Promote(p, d) \/ WriteFails(p)
      PROVE  LifecycleStep
  <2>1. UNCHANGED status
    BY <1>5, <1>t, PromoteKeeps, TypeFacts DEF LeaseInv, SameLease, leaseVars
  <2>2. CASE UNCHANGED history
    BY <2>1, <2>2 DEF LifecycleStep
  <2>3. CASE /\ Score(p) > Best
             /\ proc[p].pc \in Busy
             /\ history' = Append(history, [experiment |-> Job(p), score |-> Score(p),
                                            evaluated |-> proc[p].evaluated])
    <3>1. Job(p) \in Experiments
      BY <1>t, <2>3 DEF JobOK
    <3>2. Score(p) \in 1..MaxScore
      BY <1>t, <2>3, <3>1, ScoreType, BestType, RegistryAssumption
    <3>3. [experiment |-> Job(p), score |-> Score(p), evaluated |-> proc[p].evaluated]
              \in Champions
      BY <1>t, <3>1, <3>2 DEF Champions, States
    <3> QED BY <2>1, <2>3, <3>3 DEF LifecycleStep
  <2> QED BY <1>5, <1>t, <2>2, <2>3, PromoteImproves
<1>6. ASSUME NEW p \in Processes, Complete(p) PROVE LifecycleStep
  <2>1. CASE Finish(Job(p), p, "completed", proc[p].won)
    <3>1. Job(p) \in Experiments /\ "completed" \in Terminal
      BY <1>6, <1>t DEF Complete, JobOK, At, Busy, Terminal
    <3> QED BY <2>1, <3>1, SettleSteps
  <2> QED BY <1>6, <2>1 DEF Complete, LifecycleStep, registryVars
<1>7. ASSUME NEW p \in Processes, Fail(p) PROVE LifecycleStep
  <2>1. CASE Finish(Job(p), p, "failed", FALSE)
    <3>1. Job(p) \in Experiments /\ "failed" \in Terminal
      BY <1>7, <1>t DEF Fail, JobOK, At, Busy, Terminal
    <3> QED BY <2>1, <3>1, SettleSteps
  <2> QED BY <1>7, <2>1 DEF Fail, LifecycleStep, registryVars
<1>8. ASSUME NEW p \in Processes,
             \/ Start(p) \/ Crash(p) \/ ClaimNothing(p) \/ Develop(p)
             \/ MaintenanceFails(p) \/ DirectoryFails(p) \/ EvaluationFails(p)
      PROVE  LifecycleStep
  BY <1>8 DEF LifecycleStep, Start, Crash, ClaimNothing, Develop, Heartbeat,
              MaintenanceFails, DirectoryFails, EvaluationFails, registryVars
<1>9. CASE UNCHANGED vars \/ \E e \in Experiments : HeartbeatAges(e)
  BY <1>9 DEF LifecycleStep, vars, registryVars, HeartbeatAges, Age
<1>10. ASSUME NEW p \in Processes, RunOnce(p) PROVE LifecycleStep
  BY <1>10, <1>2, <1>5, <1>6, <1>7, <1>8 DEF RunOnce, PromoteJob
<1>11. ASSUME NEW p \in Processes, Faults(p) PROVE LifecycleStep
  <2>1. CASE ReadHoldout(p, FALSE)
    BY <2>1, <1>5 DEF Promote
  <2> QED BY <1>11, <2>1, <1>5, <1>8 DEF Faults
<1> QED BY <1>1, <1>4, <1>8, <1>9, <1>10, <1>11 DEF Next

\* With serializable transactions the registry implements ExperimentLifecycle:
\* an experiment is queued once, leased and returned until it is settled, and
\* every champion is better than the last.
THEOREM RegistryImplementsLifecycle ==
    ASSUME ~ReadCommitted
    PROVE  Spec => ImplementsLifecycle
<1>1. Init => Lifecycle!LifecycleInit
  BY DEF Init, PromotionInit, RegistryInit, Best, Lifecycle!LifecycleInit
<1>2. LeaseInv /\ [Next]_vars => [Lifecycle!LifecycleNext]_(Lifecycle!lifecycleVars)
  <2> SUFFICES ASSUME LeaseInv, [Next]_vars
               PROVE  Lifecycle!LifecycleNext \/ UNCHANGED <<status, Best>>
    BY DEF Lifecycle!lifecycleVars
  <2>1. LifecycleStep
    BY NextSteps
  <2>2. CASE UNCHANGED <<status, history>>
    BY <2>2, BestUnchanged
  <2>3. CASE \E e \in Experiments : Lifecycle!Enqueue(e) \/ Lifecycle!Lease(e)
                                    \/ Lifecycle!Settle(e)
    BY <2>3 DEF Lifecycle!LifecycleNext
  <2>4. CASE \E S \in SUBSET Experiments : Lifecycle!Return(S)
    BY <2>4 DEF Lifecycle!LifecycleNext
  <2>5. CASE /\ UNCHANGED status
             /\ \E c \in Champions : c.score > Best /\ history' = Append(history, c)
    <3>1. PICK c \in Champions : c.score > Best /\ history' = Append(history, c)
      BY <2>5
    <3>2. Best' = c.score
      BY <3>1, BestAppend, TypeFacts DEF LeaseInv
    <3>3. c.score \in Nat
      BY RegistryAssumption DEF Champions
    <3> QED BY <2>5, <3>1, <3>2, <3>3 DEF Lifecycle!LifecycleNext, Lifecycle!Crown
  <2> QED BY <2>1, <2>2, <2>3, <2>4, <2>5 DEF LifecycleStep
<1> QED BY <1>1, <1>2, WorkersSound, PTL DEF Spec, ImplementsLifecycle, Lifecycle!LifecycleSpec

\* With serializable transactions a row with a terminal status keeps it.
THEOREM TerminalStaysFinal ==
    ASSUME ~ReadCommitted
    PROVE  Spec => TerminalIsFinal
<1> DEFINE Final == \A e \in Experiments : status[e] \in Terminal => status'[e] = status[e]
<1>1. LeaseInv /\ [Next]_vars => [Final]_vars
  <2> SUFFICES ASSUME LeaseInv, [Next]_vars, NEW e \in Experiments, status[e] \in Terminal
               PROVE  status'[e] = status[e]
    OBVIOUS
  <2>1. LifecycleStep /\ status \in [Experiments -> Statuses]
    BY NextSteps, TypeFacts DEF LeaseInv, RegistryTypeOK
  <2> QED BY <2>1 DEF LifecycleStep, Terminal, Lifecycle!Enqueue, Lifecycle!Lease,
                      Lifecycle!Settle, Lifecycle!Return
<1> QED BY <1>1, WorkersSound, PTL DEF Spec, TerminalIsFinal

\* With serializable transactions every champion has a better validation score
\* than the one before it (promote_champion).
THEOREM ChampionsGetBetter ==
    ASSUME ~ReadCommitted
    PROVE  Spec => []ChampionsImprove
<1>1. Init => ChampionsImprove
  BY DEF Init, PromotionInit, RegistryInit, ChampionsImprove
<1>2. LeaseInv /\ ChampionsImprove /\ [Next]_vars => ChampionsImprove'
  <2> SUFFICES ASSUME LeaseInv, ChampionsImprove, [Next]_vars PROVE ChampionsImprove'
    OBVIOUS
  <2>1. LifecycleStep /\ history \in Seq(Champions)
    BY NextSteps, TypeFacts DEF LeaseInv, RegistryTypeOK
  <2>2. CASE UNCHANGED history
    BY <2>2 DEF ChampionsImprove
  <2>3. CASE \E c \in Champions : c.score > Best /\ history' = Append(history, c)
    <3>1. PICK c \in Champions : c.score > Best /\ history' = Append(history, c)
      BY <2>3
    <3>2. /\ Len(history') = Len(history) + 1 /\ Len(history) \in Nat
          /\ \A i \in 1..Len(history) : history'[i] = history[i]
          /\ history'[Len(history) + 1] = c
      BY <2>1, <3>1
    <3>3. ASSUME NEW i \in 1..(Len(history') - 1)
          PROVE  history'[i].score < history'[i + 1].score
      <4>1. CASE i = Len(history)
        <5>1. history # << >> /\ Best = history[i].score
          BY <2>1, <3>2, <3>3, <4>1 DEF Best
        <5>2. history[i].score \in Int /\ c.score \in Int
          <6>1. i \in 1..Len(history)
            BY <3>2, <3>3, <4>1
          <6>2. history[i] \in Champions
            BY <2>1, <6>1
          <6> QED BY <3>1, <6>2, RegistryAssumption DEF Champions
        <5> QED BY <3>1, <3>2, <4>1, <5>1, <5>2
      <4>2. CASE i # Len(history)
        <5>1. i \in 1..(Len(history) - 1) /\ i \in 1..Len(history) /\ i + 1 \in 1..Len(history)
          BY <3>2, <3>3, <4>2
        <5> QED BY <3>2, <5>1 DEF ChampionsImprove
      <4> QED BY <4>1, <4>2
    <3> QED BY <3>3 DEF ChampionsImprove
  <2> QED BY <2>1, <2>2, <2>3 DEF LifecycleStep
<1> QED BY <1>1, <1>2, WorkersSound, PTL DEF Spec

\* The registry keeps its types, and the lease of a live worker is a lease it
\* works on (TournamentRunner.run_one, recover_other_workers).
THEOREM LeasesStaySound == Spec => []LeasesAreSound
<1> QED BY WorkersTypeCorrect, LiveLeasesAreWorkedOn, PTL DEF LeasesAreSound

-----------------------------------------------------------------------------
(* One service: the promoted flag, the history and champion.json.          *)

\* One process is up at a time.
OneUp == \A p, q \in Processes : Alive(p) /\ Alive(q) => p = q

IsLatest(e) == history # << >> /\ history[Len(history)].experiment = e

\* What the place of a process in _promote says of the champion.
PromoterOK(p) ==
    LET s == proc[p]
    IN  /\ s.pc \in {"claiming", "developing", "promoting", "holdout"} => ~s.evaluated
        /\ s.pc \in {"claiming", "developing", "promoting", "holdout", "selecting",
                     "inserting", "publishing"} => ~s.won
        /\ s.pc \in {"holdout", "selecting", "inserting"} => Score(p) > Best
        /\ s.pc = "holdout" => ~HoldoutConsumed
        /\ s.pc \in {"selecting", "inserting"} /\ s.evaluated => ~HoldoutConsumed
        /\ s.pc = "publishing" => IsLatest(Job(p)) /\ Score(p) = Best
        /\ s.pc = "settling" /\ s.won => IsLatest(Job(p))

PromotionInv ==
    /\ OneUp
    /\ \A p \in Processes : PromoterOK(p)
    /\ championFile <= Best
    /\ HoldoutSparedAfterUse
    /\ OnlyChampionIsPromoted

\* The place of p is all that a step of p moves, and no other process is up.
LEMMA AloneMoves ==
    ASSUME LeaseInv, PromotionInv, NEW p \in Processes, NEW s \in States,
           Alive(p) \/ \A q \in Processes : ~Alive(q),
           proc' = [proc EXCEPT ![p] = s], PromoterOK(p)'
    PROVE  OneUp' /\ \A q \in Processes : PromoterOK(q)'
<1>1. proc \in [Processes -> States]
  BY TypeFacts DEF LeaseInv
<1>2. \A q \in Processes : q # p => ~Alive(q) /\ proc'[q] = proc[q]
  BY <1>1 DEF PromotionInv, OneUp
<1>3. ASSUME NEW q \in Processes, q # p
      PROVE  ~Alive(q)' /\ PromoterOK(q)'
  BY <1>2, <1>3 DEF Alive, Gone, PromoterOK
<1> QED BY <1>3 DEF OneUp

\* Steps that add no champion and do not write champion.json.
LEMMA ChampionStays ==
    ASSUME LeaseInv, PromotionInv, NEW p \in Processes, NEW s \in States,
           Alive(p) \/ \A q \in Processes : ~Alive(q),
           proc' = [proc EXCEPT ![p] = s], PromoterOK(p)',
           UNCHANGED <<history, championFile>>, OnlyChampionIsPromoted'
    PROVE  PromotionInv' /\ PromotionStep
<1>1. OneUp' /\ \A q \in Processes : PromoterOK(q)'
  BY AloneMoves
<1>2. Best' = Best
  BY BestUnchanged
<1>3. championFile \in 0 .. MaxScore
  BY TypeFacts DEF LeaseInv
<1>4. HoldoutSparedAfterUse' /\ championFile' <= Best' /\ championFile <= championFile'
  BY <1>2, <1>3, RegistryAssumption DEF PromotionInv, HoldoutSparedAfterUse
<1> QED BY <1>1, <1>4 DEF PromotionInv, PromotionStep

\* Steps to a place outside _promote.
LEMMA GoesAway ==
    ASSUME LeaseInv, PromotionInv, NEW p \in Processes, NEW there \in Idle,
           Alive(p) \/ \A q \in Processes : ~Alive(q), Restart(p, there),
           UNCHANGED <<history, championFile>>, OnlyChampionIsPromoted'
    PROVE  PromotionInv' /\ PromotionStep
<1>1. ResetTo(there) \in States /\ ResetTo(there).pc = there
  BY ResetType DEF ResetTo
<1>2. proc' = [proc EXCEPT ![p] = ResetTo(there)] /\ proc'[p] = ResetTo(there)
  BY TypeFacts DEF Restart, LeaseInv
<1>3. PromoterOK(p)'
  BY <1>1, <1>2 DEF PromoterOK, Idle, ResetTo
<1> QED BY <1>1, <1>2, <1>3, ChampionStays

\* A process that goes to another place with its job.
LEMMA GoesOn ==
    ASSUME LeaseInv, PromotionInv, NEW p \in Processes, NEW there \in Busy,
           Alive(p), Goto(p, there), PromoterOK(p)',
           UNCHANGED <<history, championFile>>, OnlyChampionIsPromoted'
    PROVE  PromotionInv' /\ PromotionStep
<1> DEFINE s == [proc[p] EXCEPT !.pc = there]
<1>1. proc[p] \in States /\ proc \in [Processes -> States]
  BY TypeFacts DEF LeaseInv
<1>2. s \in States /\ proc' = [proc EXCEPT ![p] = s]
  BY <1>1 DEF States, Goto
<1> QED BY <1>2, ChampionStays

\* The process goes on without a word of the champion.
LEMMA GoesOnPlainly ==
    ASSUME LeaseInv, PromotionInv, NEW p \in Processes,
           \/ Goto(p, "failing")
           \/ Goto(p, "promoting") /\ At(p, "developing"),
           proc[p].pc \in Busy, UNCHANGED <<history, promoted, championFile>>
    PROVE  PromotionInv' /\ PromotionStep
<1>1. proc[p] \in States /\ proc \in [Processes -> States]
  BY TypeFacts DEF LeaseInv
<1>2. PICK there \in {"failing", "promoting"} :
          Goto(p, there) /\ (there = "promoting" => At(p, "developing"))
  OBVIOUS
<1>3. /\ proc'[p].pc = there /\ proc'[p].evaluated = proc[p].evaluated
      /\ proc'[p].won = proc[p].won
  BY <1>1, <1>2 DEF Goto, States
<1>4. PromoterOK(p)'
  BY <1>2, <1>3 DEF PromoterOK, PromotionInv, At
<1>5. Alive(p) /\ there \in Busy /\ OnlyChampionIsPromoted'
  BY <1>2 DEF Alive, Gone, Busy, PromotionInv, OnlyChampionIsPromoted
<1> QED BY <1>2, <1>4, <1>5, GoesOn

\* A job that ends: its flag is set only for the latest champion.
LEMMA EndsJob ==
    ASSUME LeaseInv, PromotionInv, NEW p \in Processes, NEW result, NEW flag \in BOOLEAN,
           NEW there \in Idle, At(p, "settling") \/ (~flag /\ At(p, "failing")),
           flag => proc[p].won,
           Finish(Job(p), p, result, flag), Restart(p, there), UNCHANGED championFile
    PROVE  PromotionInv' /\ PromotionStep
<1>1. history' = history /\ promoted' = IF flag THEN promoted \cup {Job(p)}
                                              ELSE promoted \ {Job(p)}
  BY DEF Finish
<1>2. flag => IsLatest(Job(p))
  BY DEF PromotionInv, PromoterOK, At
<1>3. OnlyChampionIsPromoted'
  BY <1>1, <1>2 DEF PromotionInv, OnlyChampionIsPromoted, IsLatest
<1>4. Alive(p)
  BY DEF At, Alive, Gone
<1> QED BY <1>1, <1>3, <1>4, GoesAway

\* promote_champion has found the champion worse, and inserts a new one.
LEMMA CrownKeeps ==
    ASSUME LeaseInv, PromotionInv, NEW p \in Processes,
           proc[p].pc \in {"selecting", "inserting"}, Crown(p),
           UNCHANGED <<outcome, championFile>>
    PROVE  PromotionInv' /\ PromotionStep
<1> DEFINE e == Job(p)
           new == [experiment |-> e, score |-> Score(p), evaluated |-> proc[p].evaluated]
<1>1. /\ proc[p] \in States /\ proc \in [Processes -> States] /\ RegistryTypeOK
      /\ outcome \in Outcomes /\ championFile \in 0 .. MaxScore
  BY TypeFacts DEF LeaseInv
<1>2. e \in Experiments
  BY DEF LeaseInv, ProcOK, JobOK, Busy
<1>3. /\ Score(p) > Best /\ ~proc[p].won
      /\ proc[p].evaluated => ~HoldoutConsumed
  BY DEF PromotionInv, PromoterOK
<1>4. Score(p) \in 1 .. MaxScore /\ Best \in 0 .. MaxScore
  BY <1>1, <1>2, <1>3, ScoreType, BestType, RegistryAssumption
<1>5. new \in Champions
  BY <1>1, <1>2, <1>4 DEF Champions, States
<1>6. /\ promoted' = {e} /\ history' = Append(history, new)
      /\ proc' = [proc EXCEPT ![p].pc = "publishing"]
  BY DEF Crown, InsertChampion, Goto
<1>7. /\ history \in Seq(Champions) /\ Len(history') = Len(history) + 1
      /\ history'[Len(history) + 1] = new
      /\ \A i \in 1 .. Len(history) : history'[i] = history[i]
  BY <1>1, <1>5, <1>6 DEF RegistryTypeOK
<1>8. Best' = Score(p)
  BY <1>1, <1>5, <1>6, BestAppend
<1>9. PromoterOK(p)'
  <2>1. proc'[p].pc = "publishing" /\ proc'[p].won = proc[p].won /\ proc'[p].job = e
    BY <1>1, <1>6 DEF States, Job
  <2>2. Score(p)' = Score(p) /\ Job(p)' = e
    BY <2>1 DEF Score, Job
  <2>3. IsLatest(e)'
    BY <1>7, <2>2 DEF IsLatest
  <2> QED BY <2>1, <2>2, <2>3, <1>3, <1>8 DEF PromoterOK
<1>10. OneUp' /\ \A q \in Processes : PromoterOK(q)'
  <2> DEFINE s == [proc[p] EXCEPT !.pc = "publishing"]
  <2>1. s \in States /\ proc' = [proc EXCEPT ![p] = s]
    BY <1>1, <1>6 DEF States, Busy
  <2>2. Alive(p)
    BY DEF Alive, Gone
  <2> QED BY <2>1, <2>2, <1>9, AloneMoves
<1>11. HoldoutSparedAfterUse'
  <2> SUFFICES ASSUME NEW i \in 1 .. (Len(history') - 1)
               PROVE  ~(history'[i].evaluated /\ history'[i + 1].evaluated)
    BY DEF HoldoutSparedAfterUse
  <2>1. i \in 1 .. Len(history) /\ Len(history) \in Nat
    BY <1>7
  <2>2. CASE i = Len(history)
    <3>1. history'[i + 1] = new /\ history'[i] = history[Len(history)] /\ history # << >>
      BY <2>1, <2>2, <1>7
    <3> QED BY <3>1, <1>3 DEF HoldoutConsumed
  <2>3. CASE i # Len(history)
    <3>1. i \in 1 .. (Len(history) - 1) /\ i + 1 \in 1 .. Len(history)
      BY <2>1, <2>3
    <3> QED BY <3>1, <2>1, <1>7 DEF PromotionInv, HoldoutSparedAfterUse
  <2> QED BY <2>2, <2>3
<1>12. OnlyChampionIsPromoted'
  BY <1>6, <1>7 DEF OnlyChampionIsPromoted
<1>13. championFile' <= Best' /\ championFile <= championFile'
  BY <1>1, <1>3, <1>4, <1>8, RegistryAssumption DEF PromotionInv
<1> QED BY <1>10, <1>11, <1>12, <1>13 DEF PromotionInv, PromotionStep

\* champion.json takes the score of the champion.
LEMMA PublishKeeps ==
    ASSUME LeaseInv, PromotionInv, NEW p \in Processes, WriteChampionFile(p)
    PROVE  PromotionInv' /\ PromotionStep
<1> DEFINE s == [proc[p] EXCEPT !.pc = "settling", !.won = TRUE]
<1>1. /\ proc[p] \in States /\ proc \in [Processes -> States] /\ RegistryTypeOK
      /\ championFile \in 0 .. MaxScore
  BY TypeFacts DEF LeaseInv
<1>2. /\ At(p, "publishing") /\ championFile' = Score(p)
      /\ UNCHANGED <<history, promoted, outcome>> /\ proc' = [proc EXCEPT ![p] = s]
  BY <1>1 DEF WriteChampionFile, registryVars
<1>3. /\ s \in States /\ s.pc = "settling" /\ s.job = Job(p)
  BY <1>1 DEF States, Busy, Job
<1>4. IsLatest(Job(p)) /\ Score(p) = Best
  BY <1>2 DEF PromotionInv, PromoterOK, At
<1> HIDE DEF s
<1>5. PromoterOK(p)'
  <2>1. proc'[p] = s
    BY <1>1, <1>2
  <2>2. IsLatest(Job(p))'
    BY <2>1, <1>2, <1>3, <1>4 DEF IsLatest, Job
  <2> QED BY <2>1, <2>2, <1>3 DEF PromoterOK
<1>6. OneUp' /\ \A q \in Processes : PromoterOK(q)'
  BY <1>2, <1>3, <1>5, AloneMoves DEF At, Alive, Gone
<1>7. Best' = Best /\ Best \in 0 .. MaxScore
  BY <1>1, <1>2, BestUnchanged, BestType
<1>8. HoldoutSparedAfterUse' /\ OnlyChampionIsPromoted'
  BY <1>2 DEF PromotionInv, HoldoutSparedAfterUse, OnlyChampionIsPromoted
<1>9. championFile' <= Best' /\ championFile <= championFile'
  BY <1>2, <1>4, <1>7, RegistryAssumption DEF PromotionInv
<1> QED BY <1>6, <1>8, <1>9 DEF PromotionInv, PromotionStep

\* The steps of _promote that only read.
LEMMA ReadsKeep ==
    ASSUME LeaseInv, PromotionInv, NEW p \in Processes, NEW d \in BOOLEAN,
           ReadChampion(p) \/ ReadHoldout(p, d)
    PROVE  PromotionInv' /\ PromotionStep
<1>1. /\ proc[p] \in States /\ proc \in [Processes -> States]
      /\ RegistryTypeOK /\ outcome \in Outcomes
  BY TypeFacts DEF LeaseInv
<1>2. /\ UNCHANGED <<history, promoted, outcome, championFile>>
      /\ proc[p].pc \in {"promoting", "holdout"}
  BY DEF ReadChampion, ReadHoldout, registryVars, At
<1>3. OnlyChampionIsPromoted'
  BY <1>2 DEF PromotionInv, OnlyChampionIsPromoted
<1>4. Best' = Best /\ (HoldoutConsumed' <=> HoldoutConsumed)
  BY <1>2 DEF Best, HoldoutConsumed
<1>5. Best \in 0 .. MaxScore /\ Score(p) \in 0 .. MaxScore
  BY <1>1, <1>2, BestType, ScoreType DEF LeaseInv, ProcOK, JobOK, Busy
<1>6. PICK s \in States :
          /\ proc' = [proc EXCEPT ![p] = s]
          /\ s.job = Job(p) /\ s.won = proc[p].won
          /\ s.pc \in {"settling", "selecting", "holdout", "failing"}
          /\ s.pc \in {"selecting", "holdout"} => Score(p) > Best
          /\ s.pc = "holdout" => ~HoldoutConsumed /\ ~s.evaluated
          /\ s.pc = "selecting" /\ s.evaluated => ~HoldoutConsumed
  <2>1. CASE ReadChampion(p)
    <3> DEFINE there == IF Score(p) <= Best THEN "settling"
                        ELSE IF HoldoutConsumed THEN "selecting" ELSE "holdout"
               s == [proc[p] EXCEPT !.pc = there]
    <3>1. At(p, "promoting") /\ proc' = [proc EXCEPT ![p] = s]
      BY <2>1, <1>1 DEF ReadChampion, Goto
    <3>2. ~proc[p].evaluated
      BY <3>1 DEF PromotionInv, PromoterOK, At
    <3>3. /\ there \in {"settling", "selecting", "holdout"}
          /\ there \in {"selecting", "holdout"} => Score(p) > Best
          /\ there = "holdout" => ~HoldoutConsumed
      BY <1>5, RegistryAssumption
    <3> HIDE DEF there
    <3>4. /\ s \in States /\ s.pc = there /\ s.job = Job(p)
          /\ s.won = proc[p].won /\ ~s.evaluated
      BY <3>2, <3>3, <1>1 DEF States, Busy, Job
    <3> QED BY <3>1, <3>3, <3>4
  <2>2. CASE ReadHoldout(p, d)
    <3> DEFINE there == IF ~d THEN "failing"
                        ELSE IF outcome[Job(p)].holdout THEN "selecting" ELSE "settling"
               s == [proc[p] EXCEPT !.pc = there, !.evaluated = TRUE]
    <3>1. At(p, "holdout") /\ proc' = [proc EXCEPT ![p] = s]
      BY <2>2, <1>1 DEF ReadHoldout
    <3>2. Score(p) > Best /\ ~HoldoutConsumed
      BY <3>1 DEF PromotionInv, PromoterOK, At
    <3>3. there \in {"settling", "selecting", "failing"}
      OBVIOUS
    <3> HIDE DEF there
    <3>4. s \in States /\ s.pc = there /\ s.job = Job(p) /\ s.won = proc[p].won
      BY <3>3, <1>1 DEF States, Busy, Job
    <3> QED BY <3>1, <3>2, <3>3, <3>4
  <2> QED BY <2>1, <2>2
<1>7. PromoterOK(p)'
  <2>1. proc'[p] = s
    BY <1>1, <1>6
  <2>2. ~proc[p].won
    BY <1>2 DEF PromotionInv, PromoterOK
  <2>3. Job(p)' = Job(p) /\ Score(p)' = Score(p)
    BY <2>1, <1>2, <1>6 DEF Job, Score
  <2> QED BY <2>1, <2>2, <2>3, <1>4, <1>6 DEF PromoterOK
<1>8. Alive(p)
  BY <1>2 DEF Alive, Gone
<1> QED BY <1>2, <1>3, <1>6, <1>7, <1>8, ChampionStays

\* promote_champion, which compares with the champion once more.
LEMMA SelectKeepsChampion ==
    ASSUME LeaseInv, PromotionInv, NEW p \in Processes, SelectPrevious(p)
    PROVE  PromotionInv' /\ PromotionStep
<1>1. At(p, "selecting") /\ UNCHANGED <<outcome, championFile>> /\ Alive(p)
  BY DEF SelectPrevious, At, Alive, Gone
<1>2. CASE Goto(p, "failing") /\ UNCHANGED registryVars
  BY <1>1, <1>2, GoesOnPlainly DEF registryVars, At, Busy
<1>3. CASE Goto(p, "inserting") /\ UNCHANGED registryVars
  <2>1. proc[p] \in States /\ proc \in [Processes -> States]
    BY TypeFacts DEF LeaseInv
  <2>2. /\ proc'[p].pc = "inserting" /\ proc'[p].evaluated = proc[p].evaluated
        /\ proc'[p].won = proc[p].won /\ proc'[p].job = proc[p].job
    BY <2>1, <1>3 DEF Goto, States
  <2>3. Best' = Best /\ (HoldoutConsumed' <=> HoldoutConsumed) /\ Score(p)' = Score(p)
    BY <2>2, <1>1, <1>3 DEF Best, HoldoutConsumed, Score, Job, registryVars
  <2>4. PromoterOK(p)'
    BY <2>2, <2>3, <1>1 DEF PromoterOK, PromotionInv, At
  <2>5. "inserting" \in Busy /\ OnlyChampionIsPromoted'
    BY <1>3 DEF Busy, PromotionInv, OnlyChampionIsPromoted, registryVars
  <2> QED BY <2>4, <2>5, <1>1, <1>3, GoesOn DEF registryVars
<1>4. CASE Crown(p)
  BY <1>1, <1>4, CrownKeeps DEF At
<1> QED BY <1>2, <1>3, <1>4 DEF SelectPrevious

\* The whole of _promote, and the write that fails.
LEMMA PromoteAgrees ==
    ASSUME LeaseInv, PromotionInv, NEW p \in Processes, NEW d \in BOOLEAN,
           Promote(p, d) \/ WriteFails(p)
    PROVE  PromotionInv' /\ PromotionStep
<1>1. CASE InsertSelected(p)
  BY <1>1, CrownKeeps DEF InsertSelected, At
<1>2. CASE WriteFails(p)
  BY <1>2, GoesOnPlainly DEF WriteFails, registryVars, At, Busy
<1>3. CASE WriteChampionFile(p)
  BY <1>3, PublishKeeps
<1> QED BY <1>1, <1>2, <1>3, ReadsKeep, SelectKeepsChampion DEF Promote

\* A claimed experiment has read no holdout and won nothing.
LEMMA ClaimAgrees ==
    ASSUME LeaseInv, PromotionInv, NEW p \in Processes, Claim(p)
    PROVE  PromotionInv' /\ PromotionStep
<1>1. PICK e \in Experiments :
          /\ ClaimNext(e, p)
          /\ proc' = [proc EXCEPT ![p].pc = "developing", ![p].job = e, ![p].id = p]
  BY DEF Claim
<1>2. /\ proc[p] \in States /\ proc \in [Processes -> States] /\ p \in WorkerIds
      /\ At(p, "claiming") /\ UNCHANGED <<history, promoted, championFile>>
  BY <1>1, TypeFacts, RunnerAssumption DEF LeaseInv, Claim, ClaimNext
<1> DEFINE s == [proc[p] EXCEPT !.pc = "developing", !.job = e, !.id = p]
<1>3. proc' = [proc EXCEPT ![p] = s]
  BY <1>1, <1>2
<1>4. s \in States
  BY <1>2 DEF States, Busy
<1>5. ~s.evaluated /\ ~s.won /\ s.pc = "developing"
  BY <1>2 DEF PromotionInv, PromoterOK, At, States
<1> HIDE DEF s
<1>6. proc'[p] = s
  BY <1>2, <1>3
<1>7. PromoterOK(p)'
  BY <1>5, <1>6 DEF PromoterOK
<1>8. OnlyChampionIsPromoted' /\ Alive(p)
  BY <1>2 DEF PromotionInv, OnlyChampionIsPromoted, At, Alive, Gone
<1> QED BY <1>2, <1>3, <1>4, <1>7, <1>8, ChampionStays

\* A recovery touches no champion.
LEMMA RecoveryAgrees ==
    ASSUME LeaseInv, PromotionInv, NEW p \in Processes, NEW there \in Idle,
           NEW S \in SUBSET Experiments, Alive(p), SelectRows(p, S, there)
    PROVE  PromotionInv' /\ PromotionStep
<1>1. UNCHANGED <<history, promoted, championFile>>
  BY DEF SelectRows, registryVars, ReleaseRows
<1>2. OnlyChampionIsPromoted'
  BY <1>1 DEF PromotionInv, OnlyChampionIsPromoted
<1>3. CASE Restart(p, there)
  BY <1>1, <1>2, <1>3, GoesAway
<1>4. CASE proc' = [proc EXCEPT ![p] = [ResetTo("releasing") EXCEPT
                                           !.rows = S, !.after = there]]
  <2> DEFINE s == [ResetTo("releasing") EXCEPT !.rows = S, !.after = there]
  <2>1. s \in States /\ s.pc = "releasing"
    BY ResetType DEF States, Idle, ResetTo
  <2>2. proc \in [Processes -> States]
    BY TypeFacts DEF LeaseInv
  <2> HIDE DEF s
  <2>3. proc' = [proc EXCEPT ![p] = s]
    BY <1>4 DEF s
  <2>4. PromoterOK(p)'
    BY <2>1, <2>2, <2>3 DEF PromoterOK
  <2> QED BY <1>1, <1>2, <2>1, <2>3, <2>4, ChampionStays
<1> QED BY <1>3, <1>4 DEF SelectRows

\* Steps of no process.
LEMMA OthersAgree ==
    ASSUME LeaseInv, PromotionInv,
           UNCHANGED <<history, promoted, championFile, proc, outcome>>
    PROVE  PromotionInv' /\ PromotionStep
<1>1. Best' = Best /\ (HoldoutConsumed' <=> HoldoutConsumed)
  BY DEF Best, HoldoutConsumed
<1>2. championFile \in 0 .. MaxScore
  BY TypeFacts DEF LeaseInv
<1>3. OneUp' /\ \A p \in Processes : PromoterOK(p)'
  BY <1>1 DEF PromotionInv, OneUp, Alive, PromoterOK, IsLatest, Job, Score
<1>4. championFile' <= Best' /\ championFile <= championFile'
  BY <1>1, <1>2, RegistryAssumption DEF PromotionInv
<1>5. HoldoutSparedAfterUse' /\ OnlyChampionIsPromoted'
  BY DEF PromotionInv, HoldoutSparedAfterUse, OnlyChampionIsPromoted
<1> QED BY <1>3, <1>4, <1>5 DEF PromotionInv, PromotionStep

\* Nothing is promoted at first.
LEMMA InitPromotion == Init => PromotionInv
<1> SUFFICES ASSUME Init PROVE PromotionInv
  OBVIOUS
<1>1. /\ proc = [p \in Processes |-> ResetTo("unborn")]
      /\ history = << >> /\ championFile = 0 /\ Len(history) = 0
  BY DEF Init, PromotionInit, RegistryInit
<1>2. \A p \in Processes : proc[p].pc = "unborn"
  BY <1>1 DEF ResetTo
<1>3. OneUp /\ \A p \in Processes : PromoterOK(p)
  BY <1>2 DEF OneUp, Alive, Gone, PromoterOK
<1>4. championFile <= Best
  BY <1>1 DEF Best
<1>5. HoldoutSparedAfterUse /\ OnlyChampionIsPromoted
  BY <1>1 DEF HoldoutSparedAfterUse, OnlyChampionIsPromoted
<1> QED BY <1>3, <1>4, <1>5 DEF PromotionInv

\* One incarnation of the service is up at a time, so every step of it that
\* moves the champion finds what it left.
LEMMA PromotionNext ==
    ASSUME Clis = {}, LeaseInv, PromotionInv, [Next]_vars
    PROVE  PromotionInv' /\ PromotionStep
<1>t. Processes = Services /\ proc \in [Processes -> States]
  BY TypeFacts, RunnerAssumption DEF LeaseInv
<1>f. (UNCHANGED <<history, promoted>>) => OnlyChampionIsPromoted'
  BY DEF PromotionInv, OnlyChampionIsPromoted
<1>1. ASSUME NEW p \in Processes, Start(p) PROVE PromotionInv' /\ PromotionStep
  <2>1. PICK there \in {"starting", "claiming"} : Restart(p, there)
    BY <1>1 DEF Start
  <2>2. \A q \in Processes : ~Alive(q)
    BY <1>1, <1>t DEF Start
  <2>3. there \in Idle /\ UNCHANGED <<history, promoted, championFile>>
    BY <1>1 DEF Start, Idle, registryVars
  <2> QED BY <1>f, <2>1, <2>2, <2>3, GoesAway
<1>2. ASSUME NEW p \in Processes,
             \/ Crash(p) \/ ClaimNothing(p) \/ MaintenanceFails(p) \/ DirectoryFails(p)
             \/ ReleaseSelected(p)
      PROVE  PromotionInv' /\ PromotionStep
  <2>1. PICK there \in Idle : Restart(p, there)
    <3>1. CASE ReleaseSelected(p)
      BY <3>1 DEF ReleaseSelected, LeaseInv, ProcOK, Idle
    <3> QED BY <1>2, <3>1 DEF Crash, ClaimNothing, MaintenanceFails, DirectoryFails, AfterRun,
                              Idle
  <2>2. UNCHANGED <<history, promoted, championFile>> /\ Alive(p)
    BY <1>2 DEF Crash, ClaimNothing, MaintenanceFails, DirectoryFails, ReleaseSelected,
                ReleaseRows, registryVars, At, Alive, Gone
  <2> QED BY <1>f, <2>1, <2>2, GoesAway
<1>3. ASSUME NEW p \in Processes, RecoverOtherWorkers(p) \/ RecoverStale(p)
      PROVE  PromotionInv' /\ PromotionStep
  <2>1. PICK there \in {"loop", "claiming"}, S \in SUBSET Experiments : SelectRows(p, S, there)
    <3>1. CASE RecoverOtherWorkers(p)
      <4> DEFINE S == {e \in Experiments : status[e] = "running" /\ owner[e] # p}
      <4>1. S \in SUBSET Experiments
        OBVIOUS
      <4> QED BY <3>1, <4>1 DEF RecoverOtherWorkers
    <3>2. CASE RecoverStale(p)
      <4>1. StaleRows \in SUBSET Experiments
        BY TypeFacts DEF StaleRows, RegistryTypeOK, LeaseInv
      <4> QED BY <3>2, <4>1 DEF RecoverStale
    <3> QED BY <1>3, <3>1, <3>2
  <2>2. Alive(p) /\ there \in Idle
    BY <1>3 DEF RecoverOtherWorkers, RecoverStale, At, Alive, Gone, Idle
  <2> QED BY <2>1, <2>2, RecoveryAgrees
<1>4. ASSUME NEW p \in Processes, Develop(p) \/ EvaluationFails(p)
      PROVE  PromotionInv' /\ PromotionStep
  <2>1. UNCHANGED <<history, promoted, championFile>> /\ proc[p].pc \in Busy
    BY <1>4 DEF Develop, EvaluationFails, Heartbeat, registryVars, At, Busy
  <2>2. Goto(p, "failing") \/ (Goto(p, "promoting") /\ At(p, "developing"))
    BY <1>4 DEF Develop, EvaluationFails
  <2> QED BY <2>1, <2>2, GoesOnPlainly
<1>5. ASSUME NEW p \in Processes, Complete(p) PROVE PromotionInv' /\ PromotionStep
  <2>1. At(p, "settling") /\ UNCHANGED championFile /\ proc[p].won \in BOOLEAN
    BY <1>5, <1>t DEF Complete, States
  <2>2. CASE Goto(p, "failing") /\ UNCHANGED registryVars
    BY <2>1, <2>2, GoesOnPlainly DEF registryVars, At, Busy
  <2>3. CASE /\ Finish(Job(p), p, "completed", proc[p].won)
             /\ Restart(p, AfterRun(p, FALSE))
    <3>1. AfterRun(p, FALSE) \in Idle
      BY DEF AfterRun, Idle
    <3> QED BY <2>1, <2>3, <3>1, EndsJob
  <2> QED BY <1>5, <2>2, <2>3 DEF Complete
<1>6. ASSUME NEW p \in Processes, Fail(p) PROVE PromotionInv' /\ PromotionStep
  <2>1. /\ At(p, "failing") /\ UNCHANGED championFile /\ Alive(p)
        /\ AfterRun(p, TRUE) \in Idle /\ Restart(p, AfterRun(p, TRUE))
    BY <1>6 DEF Fail, At, Alive, Gone, AfterRun, Idle
  <2>2. CASE UNCHANGED registryVars
    BY <1>f, <2>1, <2>2, GoesAway DEF registryVars
  <2>3. CASE Finish(Job(p), p, "failed", FALSE)
    BY <2>1, <2>3, EndsJob
  <2> QED BY <1>6, <2>2, <2>3 DEF Fail
<1>7. CASE UNCHANGED vars \/ \E e \in Experiments : Enqueue(e) \/ HeartbeatAges(e)
  BY <1>7, OthersAgree
  DEF vars, registryVars, promotionVars, Enqueue, Register, HeartbeatAges, Age
<1>8. ASSUME NEW p \in Processes, RunOnce(p) PROVE PromotionInv' /\ PromotionStep
  BY <1>8, <1>2, <1>4, <1>5, <1>6, ClaimAgrees, PromoteAgrees DEF RunOnce, PromoteJob
<1>9. ASSUME NEW p \in Processes, Faults(p) PROVE PromotionInv' /\ PromotionStep
  BY <1>9, <1>2, <1>4, PromoteAgrees DEF Faults, Promote
<1>10. ASSUME NEW p \in Processes, Recover(p) PROVE PromotionInv' /\ PromotionStep
  BY <1>10, <1>2, <1>3 DEF Recover
<1> QED BY <1>1, <1>2, <1>7, <1>8, <1>9, <1>10 DEF Next

\* Without command line runs, the promoted flag, the history of champions and
\* champion.json agree wherever the service is interrupted (_promote, complete,
\* fail), for any number of its incarnations and either isolation level.
THEOREM PromotionsStayAgreed ==
    ASSUME Clis = {}
    PROVE  Spec => PromotionsAgree
<1>1. Init => PromotionInv
  BY InitPromotion
<1>2. LeaseInv /\ PromotionInv /\ [Next]_vars => PromotionInv' /\ PromotionStep
  BY PromotionNext
<1> QED BY <1>1, <1>2, WorkersSound, PTL DEF Spec, PromotionsAgree
=============================================================================
