-------------------------- MODULE Promotion_proofs --------------------------
(***************************************************************************)
(* Lemmas about the transactions of the registry and about _promote, for   *)
(* the proofs of the modules whose processes run them.                     *)
(***************************************************************************)
EXTENDS Promotion, TLAPS

-----------------------------------------------------------------------------
(* The transactions keep the types of the registry.                        *)

\* The score of the champion is a rank, or 0.
LEMMA BestType == ASSUME RegistryTypeOK PROVE Best \in 0..MaxScore
<1>1. MaxScore \in Nat /\ history \in Seq(Champions)
  BY RegistryAssumption DEF RegistryTypeOK
<1>2. CASE history = << >>
  BY <1>1, <1>2 DEF Best
<1>3. CASE history # << >>
  <2>1. Len(history) \in 1..Len(history)
    BY <1>1, <1>3
  <2>2. history[Len(history)] \in Champions
    BY <1>1, <2>1
  <2> QED BY <1>1, <1>3, <2>2 DEF Best, Champions
<1> QED BY <1>2, <1>3

LEMMA RegisterType ==
    ASSUME RegistryTypeOK, NEW e \in Experiments, Register(e)
    PROVE  RegistryTypeOK'
BY DEF RegistryTypeOK, Register, Statuses

LEMMA ClaimNextType ==
    ASSUME RegistryTypeOK, NEW e \in Experiments, NEW w \in WorkerIds, ClaimNext(e, w)
    PROVE  RegistryTypeOK'
BY DEF RegistryTypeOK, ClaimNext, Statuses

LEMMA HeartbeatType ==
    ASSUME RegistryTypeOK, NEW e \in Experiments, NEW w, Heartbeat(e, w)
    PROVE  RegistryTypeOK'
BY DEF RegistryTypeOK, Heartbeat

LEMMA FinishType ==
    ASSUME RegistryTypeOK, NEW e \in Experiments, NEW w, NEW result \in Terminal,
           NEW flag \in BOOLEAN, Finish(e, w, result, flag)
    PROVE  RegistryTypeOK'
BY DEF RegistryTypeOK, Finish, Terminal, Statuses

LEMMA RequeueType ==
    ASSUME RegistryTypeOK, NEW e \in Experiments, NEW w, NEW limit, Requeue(e, w, limit)
    PROVE  RegistryTypeOK'
BY DEF RegistryTypeOK, Requeue, Statuses

LEMMA AgeType ==
    ASSUME RegistryTypeOK, NEW e \in Experiments, Age(e)
    PROVE  RegistryTypeOK'
BY DEF RegistryTypeOK, Age

LEMMA ReleaseRowsType ==
    ASSUME RegistryTypeOK, NEW S \in SUBSET Experiments, ReleaseRows(S)
    PROVE  RegistryTypeOK'
BY DEF RegistryTypeOK, ReleaseRows, Statuses

LEMMA InsertChampionType ==
    ASSUME RegistryTypeOK, NEW e \in Experiments, NEW score \in 1..MaxScore,
           NEW evaluated \in BOOLEAN, InsertChampion(e, score, evaluated)
    PROVE  RegistryTypeOK'
<1>1. [experiment |-> e, score |-> score, evaluated |-> evaluated] \in Champions
  BY DEF Champions
<1>2. history' \in Seq(Champions)
  BY <1>1 DEF InsertChampion, RegistryTypeOK
<1> QED BY <1>2 DEF InsertChampion, RegistryTypeOK, leaseVars

LEMMA RegistryUnchanged ==
    ASSUME RegistryTypeOK, UNCHANGED registryVars
    PROVE  RegistryTypeOK'
BY DEF RegistryTypeOK, registryVars

-----------------------------------------------------------------------------
(* _promote.                                                               *)

\* A busy process has a job, and one that is between the SELECT and the
\* INSERT of promote_champion has one with a score.
JobOK(p) ==
    /\ proc[p].pc \in Busy => Job(p) \in Experiments
    /\ At(p, "inserting") => ReadCommitted /\ Score(p) > 0

LEMMA ResetType == ASSUME NEW here \in Idle \cup Busy PROVE ResetTo(here) \in States
BY DEF ResetTo, States

LEMMA ScoreType ==
    ASSUME outcome \in Outcomes, NEW p, Job(p) \in Experiments
    PROVE  Score(p) \in 0..MaxScore
<1> DEFINE o == outcome[Job(p)]
<1>1. o \in {Rejected} \cup [score : 1..MaxScore, holdout : BOOLEAN]
  BY DEF Outcomes
<1>2. o.score \in 0..MaxScore
  BY <1>1, RegistryAssumption DEF Rejected
<1> QED BY <1>2 DEF Score

\* Steps that change the place of a process, or replace its state, keep types.
LEMMA MoveType ==
    ASSUME proc \in [Processes -> States], NEW p \in Processes, NEW s \in States,
           proc' = [proc EXCEPT ![p] = s]
    PROVE  proc' \in [Processes -> States]
OBVIOUS

LEMMA GotoType ==
    ASSUME proc \in [Processes -> States], NEW p \in Processes, NEW there \in Idle \cup Busy,
           proc' = [proc EXCEPT ![p].pc = there]
    PROVE  proc' \in [Processes -> States]
<1> DEFINE s == [proc[p] EXCEPT !.pc = there]
<1>1. proc[p] \in States
  OBVIOUS
<1>2. s \in States
  BY <1>1 DEF States
<1>3. proc' = [proc EXCEPT ![p] = s]
  OBVIOUS
<1> QED BY <1>2, <1>3, MoveType

\* The part of the lease a step of _promote keeps.
SameLease(p) ==
    /\ UNCHANGED <<leaseVars, outcome>>
    /\ proc' = [proc EXCEPT ![p] = proc'[p]]
    /\ proc[p].pc \in Busy
    /\ proc'[p].pc \in Busy
    /\ proc'[p].job = Job(p)

\* A step of _promote keeps the types and the leases of all, and the process
\* stays busy with its job.
LEMMA PromoteKeeps ==
    ASSUME PromotionTypeOK, NEW p \in Processes, JobOK(p), NEW d \in BOOLEAN,
           Promote(p, d) \/ WriteFails(p)
    PROVE  PromotionTypeOK' /\ SameLease(p) /\ JobOK(p)'
<1> USE DEF PromotionTypeOK
<1>t. /\ proc \in [Processes -> States] /\ RegistryTypeOK /\ outcome \in Outcomes
      /\ championFile \in 0..MaxScore /\ holdoutReads \in 0..2
      /\ proc[p] \in States
  OBVIOUS
<1>1. CASE ReadChampion(p)
  <2>1. PICK there \in {"settling", "selecting", "holdout"} :
            proc' = [proc EXCEPT ![p].pc = there]
    BY <1>1 DEF ReadChampion, Goto
  <2>2. At(p, "promoting") /\ UNCHANGED <<registryVars, outcome, championFile, holdoutReads>>
    BY <1>1 DEF ReadChampion
  <2>3. RegistryTypeOK'
    BY <1>t, <2>2, RegistryUnchanged
  <2>4. proc' \in [Processes -> States]
    BY <1>t, <2>1, GotoType DEF Busy
  <2>5. SameLease(p)
    BY <1>t, <2>1, <2>2 DEF SameLease, At, Busy, Job, registryVars, leaseVars, States
  <2>6. JobOK(p)'
    BY <1>t, <2>1, <2>2 DEF JobOK, At, Busy, Job, States
  <2> QED BY <1>t, <2>2, <2>3, <2>4, <2>5, <2>6
<1>2. CASE ReadHoldout(p, d)
  <2>1. PICK there \in {"settling", "selecting", "failing"} :
            proc' = [proc EXCEPT ![p].pc = there, ![p].evaluated = TRUE]
    BY <1>2 DEF ReadHoldout
  <2>2. At(p, "holdout") /\ UNCHANGED <<registryVars, outcome, championFile>>
    BY <1>2 DEF ReadHoldout
  <2>3. RegistryTypeOK' /\ holdoutReads' \in 0..2
    BY <1>2, <1>t, <2>2, RegistryUnchanged DEF ReadHoldout
  <2>4. proc' \in [Processes -> States]
    <3> DEFINE next == [proc[p] EXCEPT !.pc = there, !.evaluated = TRUE]
    <3>1. next \in States
      BY <1>t DEF States, Busy
    <3>2. proc' = [proc EXCEPT ![p] = next]
      BY <1>t, <2>1
    <3> QED BY <1>t, <3>1, <3>2, MoveType
  <2>5. SameLease(p)
    BY <1>t, <2>1, <2>2 DEF SameLease, At, Busy, Job, registryVars, leaseVars, States
  <2>6. JobOK(p)'
    BY <1>t, <2>1, <2>2 DEF JobOK, At, Busy, Job, States
  <2> QED BY <1>t, <2>2, <2>3, <2>4, <2>5, <2>6
<1>c. ASSUME Crown(p), proc[p].pc \in Busy, Score(p) > 0,
             UNCHANGED <<outcome, championFile, holdoutReads>>
      PROVE  PromotionTypeOK' /\ SameLease(p) /\ JobOK(p)'
  <2>1. proc' = [proc EXCEPT ![p].pc = "publishing"]
    BY <1>c DEF Crown, Goto
  <2>2. Job(p) \in Experiments
    BY <1>c DEF JobOK
  <2>3. Score(p) \in 1..MaxScore
    BY <1>c, <1>t, <2>2, ScoreType, RegistryAssumption
  <2>4. RegistryTypeOK'
    BY <1>c, <1>t, <2>2, <2>3, InsertChampionType DEF Crown, States
  <2>5. proc' \in [Processes -> States]
    BY <1>t, <2>1, GotoType DEF Busy
  <2>6. SameLease(p)
    BY <1>c, <1>t, <2>1 DEF SameLease, Crown, InsertChampion, Busy, Job, leaseVars, States
  <2>7. JobOK(p)'
    BY <1>t, <2>1, <2>2 DEF JobOK, At, Busy, Job, States
  <2> QED BY <1>c, <1>t, <2>4, <2>5, <2>6, <2>7
<1>3. CASE SelectPrevious(p)
  <2>0. At(p, "selecting") /\ UNCHANGED <<outcome, championFile, holdoutReads>>
    BY <1>3 DEF SelectPrevious
  <2>b. Best \in 0..MaxScore /\ Score(p) \in 0..MaxScore /\ MaxScore \in Nat
    BY <1>t, <2>0, BestType, ScoreType, RegistryAssumption DEF JobOK, At, Busy
  <2>1. CASE UNCHANGED registryVars
    <3>1. PICK there \in {"failing", "inserting"} :
              /\ proc' = [proc EXCEPT ![p].pc = there]
              /\ there = "inserting" => ReadCommitted /\ Score(p) > 0
      BY <1>3, <1>t, <2>0, <2>1, <2>b
      DEF SelectPrevious, Goto, Crown, InsertChampion, registryVars
    <3>2. RegistryTypeOK'
      BY <1>t, <2>1, RegistryUnchanged
    <3>3. proc' \in [Processes -> States]
      BY <1>t, <3>1, GotoType DEF Busy
    <3>4. SameLease(p)
      BY <1>t, <2>0, <2>1, <3>1 DEF SameLease, At, Busy, Job, registryVars, leaseVars, States
    <3>5. JobOK(p)'
      BY <1>t, <2>0, <3>1 DEF JobOK, At, Busy, Job, Score, States
    <3> QED BY <1>t, <2>0, <3>2, <3>3, <3>4, <3>5
  <2>2. CASE Score(p) > Best /\ ~ReadCommitted /\ Crown(p)
    BY <1>c, <2>0, <2>2, <2>b DEF At, Busy
  <2> QED BY <1>3, <2>1, <2>2 DEF SelectPrevious
<1>4. CASE InsertSelected(p)
  BY <1>4, <1>c DEF InsertSelected, JobOK, At, Busy
<1>5. CASE WriteChampionFile(p)
  <2>1. /\ At(p, "publishing") /\ UNCHANGED <<registryVars, outcome, holdoutReads>>
        /\ championFile' = Score(p)
        /\ proc' = [proc EXCEPT ![p].pc = "settling", ![p].won = TRUE]
    BY <1>5 DEF WriteChampionFile
  <2>2. Job(p) \in Experiments
    BY <2>1 DEF JobOK, At, Busy
  <2>3. RegistryTypeOK' /\ championFile' \in 0..MaxScore
    BY <1>t, <2>1, <2>2, RegistryUnchanged, ScoreType
  <2>4. proc' \in [Processes -> States]
    <3> DEFINE next == [proc[p] EXCEPT !.pc = "settling", !.won = TRUE]
    <3>1. next \in States
      BY <1>t DEF States, Busy
    <3>2. proc' = [proc EXCEPT ![p] = next]
      BY <1>t, <2>1
    <3> QED BY <1>t, <3>1, <3>2, MoveType
  <2>5. SameLease(p)
    BY <1>t, <2>1 DEF SameLease, At, Busy, Job, registryVars, leaseVars, States
  <2>6. JobOK(p)'
    BY <1>t, <2>1, <2>2 DEF JobOK, At, Busy, Job, States
  <2> QED BY <1>t, <2>1, <2>3, <2>4, <2>5, <2>6
<1>6. CASE WriteFails(p)
  <2>1. /\ At(p, "publishing")
        /\ UNCHANGED <<registryVars, outcome, championFile, holdoutReads>>
        /\ proc' = [proc EXCEPT ![p].pc = "failing"]
    BY <1>6 DEF WriteFails, Goto
  <2>3. RegistryTypeOK'
    BY <1>t, <2>1, RegistryUnchanged
  <2>4. proc' \in [Processes -> States]
    BY <1>t, <2>1, GotoType DEF Busy
  <2>5. SameLease(p)
    BY <1>t, <2>1 DEF SameLease, At, Busy, Job, registryVars, leaseVars, States
  <2>6. JobOK(p)'
    BY <1>t, <2>1 DEF JobOK, At, Busy, Job, States
  <2> QED BY <1>t, <2>1, <2>3, <2>4, <2>5, <2>6
<1> QED BY <1>1, <1>2, <1>3, <1>4, <1>5, <1>6 DEF Promote

\* A step of _promote keeps the worker_id of the process.
LEMMA PromoteKeepsId ==
    ASSUME proc \in [Processes -> States], NEW p \in Processes, NEW d,
           Promote(p, d) \/ WriteFails(p)
    PROVE  proc'[p].id = proc[p].id
<1>1. proc[p] \in States
  OBVIOUS
<1>2. \/ \E there : proc' = [proc EXCEPT ![p].pc = there]
      \/ \E there : proc' = [proc EXCEPT ![p].pc = there, ![p].evaluated = TRUE]
      \/ \E there : proc' = [proc EXCEPT ![p].pc = there, ![p].won = TRUE]
  BY DEF Promote, ReadChampion, ReadHoldout, SelectPrevious, InsertSelected,
         WriteChampionFile, WriteFails, Crown, Goto
<1> QED BY <1>1, <1>2 DEF States

\* With serializable transactions a step of _promote adds a champion only if
\* it is better than the last.
LEMMA PromoteImproves ==
    ASSUME ~ReadCommitted, NEW p \in Processes, JobOK(p), NEW d \in BOOLEAN,
           Promote(p, d) \/ WriteFails(p)
    PROVE  \/ UNCHANGED history
           \/ /\ Score(p) > Best
              /\ proc[p].pc \in Busy
              /\ history' = Append(history, [experiment |-> Job(p), score |-> Score(p),
                                             evaluated |-> proc[p].evaluated])
BY DEF Promote, ReadChampion, ReadHoldout, SelectPrevious, InsertSelected, JobOK,
       WriteChampionFile, WriteFails, Crown, InsertChampion, registryVars, At, Busy

-----------------------------------------------------------------------------
(* The score of the champion.                                              *)

LEMMA BestUnchanged == ASSUME UNCHANGED history PROVE Best' = Best
BY DEF Best

LEMMA BestAppend ==
    ASSUME RegistryTypeOK, NEW c \in Champions, history' = Append(history, c)
    PROVE  Best' = c.score
<1>1. history \in Seq(Champions)
  BY DEF RegistryTypeOK
<1>2. history' # << >> /\ history'[Len(history')] = c
  BY <1>1
<1> QED BY <1>2 DEF Best
=============================================================================
