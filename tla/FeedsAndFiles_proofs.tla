------------------------ MODULE FeedsAndFiles_proofs ------------------------
(***************************************************************************)
(* Theorems about the components that MC_FeedsAndFiles composes: the files *)
(* experiments leave on disk, frozen datasets (DatasetFreeze) and detailed *)
(* artifacts (Artifacts); what the program keeps of its broker, the access *)
(* tokens (Credentials), the outcomes of a session (BrokerSession), the    *)
(* last quote (Quotes) and the closed bars (LiveFeed); what is kept and    *)
(* what is deleted, backups (Backups) and logs (LogRetention); the         *)
(* champion of the daily research (DailyResearch); and the installed       *)
(* release (ReleaseInstall).  All of them hold for any number of processes *)
(* and of the things they work on.                                         *)
(***************************************************************************)
EXTENDS DatasetFreeze, Artifacts, Credentials, BrokerSession, Backups,
        LogRetention, Quotes, DailyResearch, LiveFeed, ReleaseInstall,
        FiniteSetTheorems, WellFoundedInduction, TLAPS

-----------------------------------------------------------------------------
(* DatasetFreeze: the pointer to the active dataset is right because of the    *)
(* order in which every freeze writes the files of its version.                *)

\* What a freeze has found written, at each of its steps.
Found(at) ==
    CASE at = "bars" -> {"directory"}
      [] at = "manifest" -> {"directory", "bars"}
      [] at = "activate" -> Whole
      [] OTHER -> {}

FreezerTypes ==
    [at : {"idle", "write", "await", "bars", "manifest", "activate"},
     version : {0} \cup Versions]

FreezeInv ==
    /\ source \in Versions
    /\ active \in {0} \cup Versions
    /\ directory \in [Versions -> SUBSET Whole]
    /\ freezer \in [Freezers -> FreezerTypes]
    /\ \A p \in Freezers :
        freezer[p].at # "idle" =>
            /\ freezer[p].version \in Versions
            /\ Found(freezer[p].at) \subseteq directory[freezer[p].version]
    /\ \A v \in Versions : "manifest" \in directory[v] => directory[v] = Whole
    /\ ActiveIsWhole

\* A freeze writes its next file: what others found is still there, and only a
\* directory that has the bars gets a manifest.
LEMMA WriteKeeps ==
    ASSUME FreezeInv, NEW p \in Freezers,
           MakesDirectory(p) \/ WritesBars(p) \/ WritesManifest(p)
    PROVE  FreezeInv'
<1>1. PICK file \in Whole, to \in {"bars", "manifest", "activate"} :
        /\ freezer[p].at # "idle"
        /\ Found(to) \subseteq Found(freezer[p].at) \cup {file}
        /\ file = "manifest" => Found(freezer[p].at) = {"directory", "bars"}
        /\ directory' = [directory EXCEPT ![freezer[p].version] = @ \cup {file}]
        /\ freezer' = [freezer EXCEPT ![p].at = to]
        /\ UNCHANGED <<source, active>>
  BY DEF MakesDirectory, WritesBars, WritesManifest, Writes, Goes, Found, Whole
<1> DEFINE v == freezer[p].version
<1>2. /\ v \in Versions
      /\ Found(freezer[p].at) \subseteq directory[v]
      /\ directory[v] \subseteq Whole
  BY <1>1 DEF FreezeInv
<1>3. /\ directory' \in [Versions -> SUBSET Whole]
      /\ directory'[v] = directory[v] \cup {file}
      /\ \A u \in Versions : directory[u] \subseteq directory'[u]
      /\ \A u \in Versions : u # v => directory'[u] = directory[u]
  BY <1>1, <1>2 DEF FreezeInv
<1>4. /\ freezer' \in [Freezers -> FreezerTypes]
      /\ freezer'[p].at = to /\ freezer'[p].version = v
      /\ \A q \in Freezers : q # p => freezer'[q] = freezer[q]
  BY <1>1 DEF FreezeInv, FreezerTypes
<1> HIDE DEF v
<1>5. ASSUME NEW q \in Freezers, freezer'[q].at # "idle"
      PROVE  /\ freezer'[q].version \in Versions
             /\ Found(freezer'[q].at) \subseteq directory'[freezer'[q].version]
  <2>1. CASE q = p
    BY <1>1, <1>2, <1>3, <1>4, <2>1
  <2>2. CASE q # p
    BY <1>3, <1>4, <1>5, <2>2 DEF FreezeInv
  <2> QED BY <2>1, <2>2
<1>6. ASSUME NEW u \in Versions, "manifest" \in directory'[u]
      PROVE  directory'[u] = Whole
  <2>1. CASE "manifest" \in directory[u]
    BY <1>3, <2>1 DEF FreezeInv
  <2>2. CASE "manifest" \notin directory[u]
    <3>1. u = v /\ file = "manifest"
      BY <1>3, <1>6, <2>2
    <3> QED BY <1>1, <1>2, <1>3, <3>1 DEF Whole
  <2> QED BY <2>1, <2>2
<1>7. ActiveIsWhole'
  BY <1>1, <1>3 DEF FreezeInv, ActiveIsWhole
<1> QED BY <1>1, <1>3, <1>4, <1>5, <1>6, <1>7 DEF FreezeInv

\* Every other step of a freeze moves only that freeze, or the pointer to the
\* version it found whole.
LEMMA StepKeeps ==
    ASSUME FreezeInv, NEW p \in Freezers,
           FreezeBegins(p) \/ Awaits(p) \/ FreezeEnds(p) \/ Activates(p)
    PROVE  FreezeInv'
<1>1. source \in Versions /\ UNCHANGED <<source, directory>>
  BY DEF FreezeInv, FreezeBegins, Awaits, FreezeEnds, Activates
<1>2. PICK state \in FreezerTypes : freezer' = [freezer EXCEPT ![p] = state]
  <2>1. CASE FreezeBegins(p)
    <3> DEFINE begun == [at |-> IF directory[source] = {} THEN "write" ELSE "await",
                         version |-> source]
    <3>1. begun \in FreezerTypes
      BY <1>1 DEF FreezerTypes
    <3> QED BY <2>1, <3>1 DEF FreezeBegins
  <2>2. CASE Awaits(p)
    BY <2>2 DEF Awaits, Goes, FreezeInv, FreezerTypes
  <2>3. CASE FreezeEnds(p) \/ Activates(p)
    BY <2>3 DEF FreezeEnds, Activates, NotFreezing, FreezerTypes
  <2> QED BY <2>1, <2>2, <2>3
<1>3. /\ freezer' \in [Freezers -> FreezerTypes]
      /\ freezer'[p] = state
      /\ \A q \in Freezers : q # p => freezer'[q] = freezer[q]
  BY <1>2 DEF FreezeInv
<1>4. state.at # "idle" =>
        state.version \in Versions /\ Found(state.at) \subseteq directory[state.version]
  <2>1. CASE FreezeBegins(p)
    <3>1. state.at \in {"write", "await"} /\ state.version = source
      BY <1>3, <2>1 DEF FreezeBegins, FreezeInv
    <3> QED BY <1>1, <3>1 DEF Found
  <2>2. CASE Awaits(p)
    <3>1. /\ freezer[p].version \in Versions
          /\ "manifest" \in directory[freezer[p].version]
      BY <2>2 DEF Awaits, Published, FreezeInv
    <3>2. state.at = "activate" /\ state.version = freezer[p].version
      BY <1>3, <2>2 DEF Awaits, Goes, FreezeInv, FreezerTypes
    <3> QED BY <3>1, <3>2 DEF Found, FreezeInv
  <2>3. CASE FreezeEnds(p) \/ Activates(p)
    BY <1>3, <2>3 DEF FreezeEnds, Activates, NotFreezing, FreezeInv
  <2> QED BY <2>1, <2>2, <2>3
<1>5. active' \in {0} \cup Versions /\ ActiveIsWhole'
  <2>1. CASE Activates(p)
    <3>1. /\ freezer[p].at = "activate" /\ active' = freezer[p].version
          /\ Found("activate") \subseteq directory[freezer[p].version]
          /\ freezer[p].version \in Versions
      BY <2>1 DEF Activates, FreezeInv
    <3>2. directory[active'] = Whole
      BY <3>1 DEF Found, FreezeInv
    <3> QED BY <1>1, <3>1, <3>2 DEF ActiveIsWhole
  <2>2. CASE FreezeBegins(p) \/ Awaits(p) \/ FreezeEnds(p)
    BY <1>1, <2>2 DEF FreezeBegins, Awaits, FreezeEnds, FreezeInv, ActiveIsWhole
  <2> QED BY <2>1, <2>2
<1> QED BY <1>1, <1>3, <1>4, <1>5 DEF FreezeInv

\* The invariant is kept by every step of every process.
LEMMA NextKeeps ==
    ASSUME FreezeInv, [FreezeNext]_freezeVars
    PROVE  FreezeInv'
<1>1. CASE BarsChange
  <2>1. source' \in Versions
    BY <1>1, FreezeAssumption DEF BarsChange, FreezeInv, Versions
  <2> QED BY <1>1, <2>1 DEF BarsChange, FreezeInv, ActiveIsWhole
<1>2. CASE \/ UNCHANGED freezeVars
           \/ \E e \in Evaluations :
                \/ Registers(e) \/ Backtests(e) \/ Dispatches(e) \/ Computes(e)
                \/ ReadsRemotely(e) \/ Completes(e)
  <2>1. UNCHANGED <<source, directory, active, freezer>>
    BY <1>2 DEF freezeVars, Registers, Backtests, Dispatches, Computes, ReadsRemotely, Completes
  <2> QED BY <2>1 DEF FreezeInv, ActiveIsWhole
<1> QED BY <1>1, <1>2, WriteKeeps, StepKeeps DEF FreezeNext

\* The active dataset can be read, for any number of freezes that overlap and are
\* killed (tournament_data.create): active.json names a version whose directory,
\* bars and manifest are all there.
THEOREM ActiveStaysWhole == FreezeSpec => []ActiveIsWhole
<1>1. FreezeInit => FreezeInv
  BY FreezeAssumption
     DEF FreezeInit, FreezeInv, Versions, NotFreezing, FreezerTypes, ActiveIsWhole
<1>2. FreezeInv /\ [FreezeNext]_freezeVars => FreezeInv'
  BY NextKeeps
<1>3. FreezeInv => ActiveIsWhole
  BY DEF FreezeInv
<1> QED BY <1>1, <1>2, <1>3, PTL DEF FreezeSpec

-----------------------------------------------------------------------------
(* Artifacts: the detail of remote experiments is removed by a plan that may   *)
(* be old when it is applied, and reconciled later still.  It is right because *)
(* an experiment that was ordinary when planned is ordinary for good.          *)

\* The remote experiments whose detail may go; a row never leaves this set.
Removable == Remote \cap (completed \ kept)

ArtifactsInv ==
    /\ ArtifactsTypeOK
    /\ application \in [at : {"idle", "remove"}, todo : SUBSET Remote,
                        done : SUBSET Remote]
    /\ TradesAreKept
    /\ \A e \in kept \cap Remote : detail[e] = Detail
    /\ plan \subseteq Removable /\ application.todo \subseteq Removable
    /\ journal \subseteq Removable /\ reconciled \subseteq journal
    /\ \A e \in journal : detail[e] = {}

\* An experiment that completes was in no plan, no journal and no reconciliation.
LEMMA EvaluationKeeps ==
    ASSUME ArtifactsInv, NEW e \in Evaluated, EvaluationEnds(e)
    PROVE  ArtifactsInv'
<1> USE DEF ArtifactsInv, ArtifactsTypeOK, EvaluationEnds
<1>1. ArtifactsTypeOK'
  BY DEF Evaluated, Detail
<1>2. \A d \in Remote : d # e => detail'[d] = detail[d]
  OBVIOUS
<1>3. \A d \in Local : d # e => files'[d] = files[d]
  OBVIOUS
<1>4. TradesAreKept'
  <2>1. e \in Local => files'[e] = {"csv"}
    OBVIOUS
  <2> QED BY <1>3, <2>1 DEF TradesAreKept
<1>5. \A d \in (kept \cap Remote)' : detail'[d] = Detail
  <2>1. e \in Remote => detail'[e] = Detail
    OBVIOUS
  <2> QED BY <1>2, <2>1
<1>6. Removable \subseteq Removable' /\ e \notin Removable
  BY DEF Removable
<1>7. \A d \in journal' : detail'[d] = {}
  BY <1>2, <1>6 DEF Removable
<1>8. UNCHANGED <<plan, application, journal, reconciled>>
  OBVIOUS
<1> QED BY <1>1, <1>4, <1>5, <1>6, <1>7, <1>8

\* The compression works on the files of local experiments, and removes an
\* original only beside its replacement.
LEMMA CompactionKeeps ==
    ASSUME ArtifactsInv,
           \/ CompactBegins \/ CompactCommits \/ CompactEnds
           \/ \E e \in Local : Skips(e) \/ Compresses(e) \/ Unlinks(e)
    PROVE  ArtifactsInv'
<1>1. UNCHANGED <<completed, kept, detail, plan, application, journal, reconciled>>
  BY DEF CompactBegins, CompactCommits, CompactEnds, Skips, Compresses, Unlinks, remoteVars
<1> DEFINE NothingLost ==
              /\ files' \in [Local -> SUBSET {"csv", "tmp", "gz"}]
              /\ \A d \in Local :
                    files[d] \cap {"csv", "gz"} # {} => files'[d] \cap {"csv", "gz"} # {}
<1>2. NothingLost
  <2>1. CASE UNCHANGED files
    BY <2>1 DEF ArtifactsInv, ArtifactsTypeOK
  <2>2. ASSUME NEW e \in Local, Compresses(e)
        PROVE  NothingLost
    BY <2>2 DEF Compresses, ArtifactsInv, ArtifactsTypeOK
  <2>3. ASSUME NEW e \in Local, Unlinks(e)
        PROVE  NothingLost
    BY <2>3 DEF Unlinks, Replaced, ArtifactsInv, ArtifactsTypeOK
  <2> QED
    BY <2>1, <2>2, <2>3 DEF CompactBegins, CompactCommits, CompactEnds, Skips
<1> QED
  BY <1>1, <1>2 DEF ArtifactsInv, ArtifactsTypeOK, TradesAreKept, Removable

\* The removal touches the detail of the experiments of a plan alone, and its
\* journal and the reconciliation say what it has done.
LEMMA RemovalKeeps ==
    ASSUME ArtifactsInv,
           \/ Plans \/ ApplyBegins \/ ApplyEnds \/ Reconciles
           \/ \E e \in Remote : Journals(e) \/ \E file \in Detail : Removes(e, file)
    PROVE  ArtifactsInv'
<1>1. /\ UNCHANGED <<completed, kept, files>>
      /\ TradesAreKept'
  BY DEF Plans, ApplyBegins, ApplyEnds, Reconciles, Journals, Removes, localVars,
         ArtifactsInv, TradesAreKept
<1>2. Removable' = Removable
  BY <1>1 DEF Removable
<1>3. CASE Plans
  BY <1>1, <1>2, <1>3 DEF Plans, Ordinary, Removable, ArtifactsInv, ArtifactsTypeOK
<1>4. CASE ApplyBegins \/ ApplyEnds
  <2>1. application' \in [at : {"idle", "remove"}, todo : SUBSET Remote,
                          done : SUBSET Remote]
        /\ application'.todo \subseteq plan
    <3>1. application' = [at |-> "remove", todo |-> plan \ journal, done |-> {}]
          \/ application' = [at |-> "idle", todo |-> {}, done |-> {}]
      BY <1>4 DEF ApplyBegins, ApplyEnds, Nothing
    <3>2. plan \subseteq Remote
      BY DEF Removable, ArtifactsInv
    <3> QED BY <3>1, <3>2
  <2> QED BY <1>1, <1>2, <1>4, <2>1
       DEF ApplyBegins, ApplyEnds, ArtifactsInv, ArtifactsTypeOK
<1>5. CASE Reconciles
  BY <1>1, <1>2, <1>5 DEF Reconciles, ArtifactsInv, ArtifactsTypeOK
<1>6. ASSUME NEW e \in Remote, Journals(e) PROVE ArtifactsInv'
  <2>1. /\ application' \in [at : {"idle", "remove"}, todo : SUBSET Remote,
                             done : SUBSET Remote]
        /\ application'.todo \subseteq application.todo
        /\ e \in application.todo
    BY <1>6 DEF Journals, ArtifactsInv
  <2>2. detail[e] = {} /\ journal' = journal \cup {e}
    BY <1>6 DEF Journals, Removed
  <2> QED BY <1>1, <1>2, <1>6, <2>1, <2>2 DEF Journals, ArtifactsInv, ArtifactsTypeOK
<1>7. ASSUME NEW e \in Remote, NEW file \in Detail, Removes(e, file) PROVE ArtifactsInv'
  <2>1. e \in Removable
    BY <1>7 DEF Removes, ArtifactsInv
  <2>2. /\ detail' \in [Remote -> SUBSET Detail]
        /\ \A d \in Remote : d # e => detail'[d] = detail[d]
        /\ detail'[e] \subseteq detail[e]
    BY <1>7 DEF Removes, ArtifactsInv, ArtifactsTypeOK
  <2>3. \A d \in journal : detail'[d] = {}
    BY <2>2 DEF ArtifactsInv, Removable
  <2>4. \A d \in kept \cap Remote : detail'[d] = Detail
    BY <2>1, <2>2 DEF ArtifactsInv, Removable
  <2> QED BY <1>1, <1>2, <1>7, <2>2, <2>3, <2>4 DEF Removes, ArtifactsInv, ArtifactsTypeOK
<1> QED BY <1>3, <1>4, <1>5, <1>6, <1>7

\* Whatever is compressed, planned, removed and reconciled, however often it is cut
\* off, the trades of an experiment are kept, the detail of one that matters is
\* whole, and a row that says it was removed is right (operations.py).
THEOREM ArtifactsStayTrue == ArtifactsSpec => []ArtifactsAreTrue
<1>1. ArtifactsInit => ArtifactsInv
  BY DEF ArtifactsInit, ArtifactsInv, ArtifactsTypeOK, Nothing, TradesAreKept, Removable
<1>2. ArtifactsInv /\ [ArtifactsNext]_artifactsVars => ArtifactsInv'
  <2> SUFFICES ASSUME ArtifactsInv, [ArtifactsNext]_artifactsVars PROVE ArtifactsInv'
    OBVIOUS
  <2>1. CASE UNCHANGED artifactsVars
    BY <2>1 DEF artifactsVars, ArtifactsInv, ArtifactsTypeOK, TradesAreKept, Removable
  <2> QED
    BY <2>1, EvaluationKeeps, CompactionKeeps, RemovalKeeps DEF ArtifactsNext
<1>3. ArtifactsInv => ArtifactsAreTrue
  BY DEF ArtifactsInv, ArtifactsAreTrue, DetailIsTrue
<1> QED BY <1>1, <1>2, <1>3, PTL DEF ArtifactsSpec

-----------------------------------------------------------------------------
(* Credentials: that the file keeps the token the broker accepts rests on two  *)
(* facts: a token that is not yet in the file is carried by one process alone, *)
(* and while it is nobody has a token to refresh with; and what a process read *)
(* under the lock is still in the file when it writes.                         *)

ProcTypes ==
    [at : {"idle", "downloading", "granted", "locked", "read", "replaced"},
     has : Nat, new : Nat, copy : Nat]

TokenTypes ==
    /\ valid \in Nat \ {0} /\ stored \in Nat /\ stored <= valid
    /\ download \in [Downloads -> ProcTypes]

\* What a process knows: no token newer than the broker's.
Knows(p) ==
    /\ download[p].has <= valid
    /\ download[p].at \in {"granted", "locked", "read"} => download[p].new \in {0, valid}

\* The lock: who is past it holds it, and has read what the file holds.
Locked(p) ==
    /\ download[p].at \in {"locked", "read", "replaced"} => lock = p
    /\ download[p].at = "read" => download[p].copy = stored

\* A token on its way to the file: nobody else has it, in the file or in memory.
CarriedAlone(p) ==
    Carries(p) =>
        /\ stored < valid
        /\ \A q \in Downloads : download[q].has < valid
        /\ \A q \in Downloads : Carries(q) => q = p

CredentialInv ==
    /\ TokenTypes
    /\ \A p \in Downloads : Knows(p) /\ Locked(p) /\ CarriedAlone(p)
    /\ StoredTokenWorks

\* A step of one process is a new state for it and none for the others.
LEMMA Others ==
    ASSUME TokenTypes, NEW p \in Downloads, NEW s \in ProcTypes,
           download' = [download EXCEPT ![p] = s]
    PROVE  /\ download' \in [Downloads -> ProcTypes]
           /\ download'[p] = s
           /\ \A q \in Downloads : q # p => download'[q] = download[q]
BY DEF TokenTypes

\* A process starts with the token of the file, and carries none.
LEMMA StartsKeeps ==
    ASSUME CredentialInv, NEW p \in Downloads, Starts(p)
    PROVE  CredentialInv'
<1> DEFINE s == [NotDownloading EXCEPT !.at = "downloading", !.has = stored]
<1>1. /\ s \in ProcTypes /\ s.at = "downloading" /\ s.has = stored
      /\ download' = [download EXCEPT ![p] = s]
  BY DEF CredentialInv, TokenTypes, ProcTypes, NotDownloading, Starts
<1> HIDE DEF s
<1>2. /\ download' \in [Downloads -> ProcTypes] /\ download'[p] = s
      /\ \A q \in Downloads : q # p => download'[q] = download[q]
      /\ UNCHANGED <<valid, stored, lock, lost>>
      /\ download[p].at = "idle"
  <2>1. UNCHANGED <<valid, stored, lock, lost>> /\ download[p].at = "idle"
    BY DEF Starts, NotDownloading
  <2> QED BY <1>1, <2>1, Others DEF CredentialInv
<1>3. \A q \in Downloads : Carries(q)' = Carries(q)
  BY <1>1, <1>2 DEF Carries
<1>4. \A q \in Downloads : Knows(q)' /\ Locked(q)'
  BY <1>1, <1>2 DEF CredentialInv, TokenTypes, Knows, Locked
<1>5. \A q \in Downloads : CarriedAlone(q)'
  <2>1. \A q \in Downloads : download'[q].has = download[q].has \/ download'[q].has = stored
    BY <1>1, <1>2
  <2> QED BY <1>2, <1>3, <2>1 DEF CredentialInv, CarriedAlone
<1>6. StoredTokenWorks'
  BY <1>2, <1>3 DEF CredentialInv, StoredTokenWorks
<1> QED BY <1>2, <1>4, <1>5, <1>6 DEF CredentialInv, TokenTypes

\* A refresh: the new token, when there is one, is this process's alone, because
\* only a process whose token is the broker's can ask.
LEMMA RefreshesKeeps ==
    ASSUME CredentialInv, NEW p \in Downloads, Refreshes(p)
    PROVE  CredentialInv'
<1>1. PICK new \in {0, valid + 1} :
        /\ valid' = IF new = 0 THEN valid ELSE new
        /\ download' = [download EXCEPT ![p].at = "granted", ![p].new = new]
        /\ UNCHANGED <<stored, lock, lost>>
        /\ download[p].at = "downloading" /\ download[p].has = valid
  BY DEF Refreshes
<1> DEFINE s == [download[p] EXCEPT !.at = "granted", !.new = new]
<1>2. /\ s \in ProcTypes /\ s.at = "granted" /\ s.new = new /\ s.has = download[p].has
      /\ download' = [download EXCEPT ![p] = s]
  <2>1. new \in Nat /\ download[p] \in ProcTypes
    BY DEF CredentialInv, TokenTypes
  <2>2. /\ s \in ProcTypes /\ s.at = "granted" /\ s.new = new /\ s.has = download[p].has
    BY <2>1 DEF ProcTypes
  <2>3. download' = [download EXCEPT ![p] = s]
    BY <1>1
  <2> QED BY <2>2, <2>3
<1> HIDE DEF s
<1>3. /\ download' \in [Downloads -> ProcTypes] /\ download'[p] = s
      /\ \A q \in Downloads : q # p => download'[q] = download[q]
  BY <1>2, Others DEF CredentialInv
<1>4. /\ valid \in Nat \ {0} /\ stored \in Nat /\ stored <= valid
      /\ \A q \in Downloads : download[q] \in ProcTypes /\ download[q].has \in Nat
  BY DEF CredentialInv, TokenTypes, ProcTypes
<1>5. \A q \in Downloads : ~Carries(q)
  BY <1>1, <1>4 DEF CredentialInv, CarriedAlone
<1>6. /\ \A q \in Downloads : q # p => ~Carries(q)'
      /\ new # 0 => Carries(p)'
      /\ new = 0 => ~Carries(p)'
  <2>1. ASSUME NEW q \in Downloads, q # p PROVE ~Carries(q)'
    <3>1. download[q].at \in {"granted", "locked", "read"} => download[q].new = 0
      BY <1>5 DEF CredentialInv, Knows, Carries
    <3>2. valid' # 0
      BY <1>1, <1>4
    <3> QED BY <1>3, <2>1, <3>1, <3>2 DEF Carries
  <2>2. new # 0 => Carries(p)'
    BY <1>1, <1>2, <1>3 DEF Carries
  <2>3. new = 0 => ~Carries(p)'
    BY <1>1, <1>2, <1>3, <1>4 DEF Carries
  <2> QED BY <2>1, <2>2, <2>3
<1>7. valid' \in Nat \ {0} /\ stored' = stored /\ stored <= valid' /\ valid <= valid'
      /\ (new # 0 => valid < valid')
  BY <1>1, <1>4
<1>8. \A q \in Downloads : download'[q].has = download[q].has /\ download[q].has <= valid
  BY <1>2, <1>3 DEF CredentialInv, Knows
<1>9. ASSUME NEW q \in Downloads PROVE Knows(q)' /\ Locked(q)'
  <2>1. CASE q = p
    BY <1>1, <1>2, <1>3, <1>4, <1>7, <1>8, <2>1 DEF Knows, Locked
  <2>2. CASE q # p
    <3>1. download[q].at \in {"granted", "locked", "read"} => download[q].new = 0
      BY <1>5 DEF CredentialInv, Knows, Carries
    <3>2. Knows(q)'
      BY <1>3, <1>4, <1>7, <1>8, <2>2, <3>1 DEF Knows
    <3>3. Locked(q)'
      BY <1>1, <1>3, <2>2 DEF CredentialInv, Locked
    <3> QED BY <3>2, <3>3
  <2> QED BY <2>1, <2>2
<1>10. ASSUME NEW q \in Downloads PROVE CarriedAlone(q)'
  <2>1. SUFFICES ASSUME Carries(q)'
                 PROVE  /\ stored' < valid'
                        /\ \A r \in Downloads : download'[r].has < valid'
                        /\ \A r \in Downloads : Carries(r)' => r = q
    BY DEF CarriedAlone
  <2>2. q = p /\ new # 0
    BY <1>6, <2>1
  <2>3. stored' < valid' /\ \A r \in Downloads : download'[r].has < valid'
    BY <1>4, <1>7, <1>8, <2>2
  <2> QED BY <1>6, <2>2, <2>3
<1>11. StoredTokenWorks'
  BY <1>1, <1>5, <1>6 DEF CredentialInv, StoredTokenWorks
<1> QED BY <1>3, <1>7, <1>9, <1>10, <1>11 DEF CredentialInv, TokenTypes

\* A process goes on to the lock or to the file's text, or leaves the lock: it
\* carries what it carried.
LEMMA PersistKeeps ==
    ASSUME CredentialInv, NEW p \in Downloads,
           Locks(p) \/ ReadsFile(p)
    PROVE  CredentialInv'
<1>1. PICK s \in ProcTypes :
        /\ download' = [download EXCEPT ![p] = s]
        /\ download[p].at \in {"granted", "locked"} /\ s.at \in {"locked", "read"}
        /\ s.has = download[p].has /\ s.new = download[p].new
        /\ s.at = "read" => s.copy = stored /\ download[p].at = "locked" /\ lock' = lock
        /\ s.at = "locked" => lock = "free" /\ lock' = p
  <2>1. CASE Locks(p)
    <3> DEFINE s == [download[p] EXCEPT !.at = "locked"]
    <3>1. s \in ProcTypes
      BY DEF CredentialInv, TokenTypes, ProcTypes
    <3>2. s.at = "locked" /\ s.has = download[p].has /\ s.new = download[p].new
      BY DEF CredentialInv, TokenTypes, ProcTypes
    <3>3. download' = [download EXCEPT ![p] = s] /\ download[p].at = "granted"
          /\ lock = "free" /\ lock' = p
      BY <2>1 DEF Locks, Moves, MayRewrite
    <3> QED BY <3>1, <3>2, <3>3
  <2>2. CASE ReadsFile(p)
    <3> DEFINE s == [download[p] EXCEPT !.at = "read", !.copy = stored]
    <3>1. s \in ProcTypes
      BY DEF CredentialInv, TokenTypes, ProcTypes
    <3>2. s.at = "read" /\ s.copy = stored /\ s.has = download[p].has /\ s.new = download[p].new
      BY DEF CredentialInv, TokenTypes, ProcTypes
    <3>3. download' = [download EXCEPT ![p] = s] /\ download[p].at = "locked" /\ lock' = lock
      BY <2>2 DEF ReadsFile
    <3> QED BY <3>1, <3>2, <3>3
  <2> QED BY <2>1, <2>2
<1>2. /\ download' \in [Downloads -> ProcTypes] /\ download'[p] = s
      /\ \A q \in Downloads : q # p => download'[q] = download[q]
      /\ UNCHANGED <<valid, stored, lost>>
  BY <1>1, Others DEF CredentialInv, Locks, ReadsFile
<1>3. \A q \in Downloads : Carries(q)' = Carries(q) /\ download'[q].has = download[q].has
  BY <1>1, <1>2 DEF Carries
<1>4. ASSUME NEW q \in Downloads PROVE Knows(q)' /\ Locked(q)'
  <2>1. CASE q = p
    <3>1. Knows(q)'
      BY <1>1, <1>2, <2>1 DEF CredentialInv, Knows
    <3>2. Locked(q)'
      BY <1>1, <1>2, <2>1 DEF CredentialInv, Locked
    <3> QED BY <3>1, <3>2
  <2>2. CASE q # p
    <3>1. Knows(q)'
      BY <1>2, <2>2 DEF CredentialInv, Knows
    <3>2. download[q].at \in {"locked", "read", "replaced"} => lock' = q
      <4>1. CASE lock' = lock
        BY <4>1 DEF CredentialInv, Locked
      <4>2. CASE lock = "free"
        BY <4>2, TokensAssumption DEF CredentialInv, Locked
      <4> QED BY <1>1, <4>1, <4>2
    <3> QED BY <1>2, <2>2, <3>1, <3>2 DEF CredentialInv, Locked
  <2> QED BY <2>1, <2>2
<1>5. \A q \in Downloads : CarriedAlone(q)'
  BY <1>2, <1>3 DEF CredentialInv, CarriedAlone
<1>6. StoredTokenWorks'
  BY <1>2, <1>3 DEF CredentialInv, StoredTokenWorks
<1> QED BY <1>2, <1>4, <1>5, <1>6 DEF CredentialInv, TokenTypes

\* The file is replaced with what was read of it, or with the token carried.
LEMMA ReplacesKeeps ==
    ASSUME CredentialInv, NEW p \in Downloads, ReplacesFile(p)
    PROVE  CredentialInv'
<1> DEFINE s == [download[p] EXCEPT !.at = "replaced"]
<1>1. download[p] \in ProcTypes /\ valid \in Nat \ {0} /\ stored \in Nat /\ stored <= valid
  BY DEF CredentialInv, TokenTypes
<1>2. s \in ProcTypes /\ s.at = "replaced" /\ s.has = download[p].has
  BY <1>1 DEF ProcTypes
<1>3. /\ download' = [download EXCEPT ![p] = s] /\ download[p].at = "read" /\ lock = p
      /\ UNCHANGED <<valid, lock, lost>>
      /\ download[p].new \in {0, valid}
      /\ stored' = IF download[p].new = 0 THEN stored ELSE valid
  BY DEF ReplacesFile, Moves, Rewritten, CredentialInv, Knows, Locked
<1> HIDE DEF s
<1>4. /\ download' \in [Downloads -> ProcTypes] /\ download'[p] = s
      /\ \A q \in Downloads : q # p => download'[q] = download[q]
  BY <1>2, <1>3, Others DEF CredentialInv
<1>5. \A q \in Downloads : download'[q].has = download[q].has
  BY <1>2, <1>4
<1>6. /\ ~Carries(p)' /\ (Carries(p) <=> download[p].new # 0)
      /\ \A q \in Downloads : q # p => Carries(q)' = Carries(q)
  BY <1>1, <1>2, <1>3, <1>4 DEF Carries
<1>7. ASSUME NEW q \in Downloads PROVE Knows(q)' /\ Locked(q)'
  <2>1. CASE q = p
    BY <1>2, <1>3, <1>4, <1>5, <2>1 DEF CredentialInv, Knows, Locked
  <2>2. CASE q # p
    <3>1. Knows(q)'
      BY <1>3, <1>4, <2>2 DEF CredentialInv, Knows
    <3>2. download[q].at \notin {"locked", "read", "replaced"}
      BY <1>3, <2>2 DEF CredentialInv, Locked
    <3> QED BY <1>3, <1>4, <2>2, <3>1, <3>2 DEF Locked
  <2> QED BY <2>1, <2>2
<1>8. ASSUME NEW q \in Downloads PROVE CarriedAlone(q)'
  <2>1. CASE download[p].new = 0
    BY <1>3, <1>5, <1>6, <2>1 DEF CredentialInv, CarriedAlone
  <2>2. CASE download[p].new # 0
    <3>1. ~Carries(q)'
      BY <1>6, <2>2 DEF CredentialInv, CarriedAlone
    <3> QED BY <3>1 DEF CarriedAlone
  <2> QED BY <2>1, <2>2
<1>9. StoredTokenWorks'
  BY <1>3, <1>6 DEF CredentialInv, StoredTokenWorks
<1>10. stored' \in Nat /\ stored' <= valid'
  BY <1>1, <1>3
<1> QED BY <1>1, <1>3, <1>4, <1>7, <1>8, <1>9, <1>10 DEF CredentialInv, TokenTypes

\* A process gives up, dies, or has done: a token it carried is lost with it.
LEMMA EndsKeeps ==
    ASSUME CredentialInv, NEW p \in Downloads,
           RefreshRefused(p) \/ Unlocks(p) \/ Ends(p)
    PROVE  CredentialInv'
<1>1. /\ NotDownloading \in ProcTypes /\ NotDownloading.at = "idle" /\ NotDownloading.has = 0
      /\ valid \in Nat \ {0}
  BY DEF NotDownloading, ProcTypes, CredentialInv, TokenTypes
<1>2. /\ download' = [download EXCEPT ![p] = NotDownloading]
      /\ UNCHANGED <<valid, stored>>
      /\ lock' = lock \/ (lock = p /\ lock' = "free")
      /\ Carries(p) => lost'
      /\ lost => lost'
  <2>1. /\ download' = [download EXCEPT ![p] = NotDownloading]
        /\ UNCHANGED <<valid, stored>>
        /\ lock' = lock \/ (lock = p /\ lock' = "free")
    BY DEF RefreshRefused, Unlocks, Ends
  <2>2. Carries(p) => download[p].new # 0 /\ download[p].at \notin {"downloading", "replaced"}
    BY <1>1 DEF Carries
  <2>3. lost' = lost \/ lost' = (lost \/ download[p].new # 0)
    BY DEF RefreshRefused, Unlocks, Ends
  <2>4. Carries(p) => lost' = (lost \/ download[p].new # 0)
    BY <2>2 DEF RefreshRefused, Unlocks, Ends
  <2>5. Carries(p) => lost'
    BY <2>2, <2>4, Zenon
  <2>6. lost => lost'
    <3>1. CASE lost' = lost
      BY <3>1, Zenon
    <3>2. CASE lost' = (lost \/ download[p].new # 0)
      BY <3>2, Zenon
    <3> QED BY <2>3, <3>1, <3>2, Zenon
  <2> QED BY <2>1, <2>5, <2>6
<1>3. /\ download' \in [Downloads -> ProcTypes] /\ download'[p] = NotDownloading
      /\ \A q \in Downloads : q # p => download'[q] = download[q]
  BY <1>1, <1>2, Others DEF CredentialInv
<1>4. ~Carries(p)' /\ \A q \in Downloads : q # p => Carries(q)' = Carries(q)
  BY <1>1, <1>2, <1>3 DEF Carries
<1>5. ASSUME NEW q \in Downloads PROVE Knows(q)' /\ Locked(q)'
  <2>1. CASE q = p
    BY <1>1, <1>2, <1>3, <2>1 DEF Knows, Locked
  <2>2. CASE q # p
    BY <1>2, <1>3, <2>2 DEF CredentialInv, Knows, Locked
  <2> QED BY <2>1, <2>2
<1>6. ASSUME NEW q \in Downloads PROVE CarriedAlone(q)'
  <2>1. \A r \in Downloads : download'[r].has < valid \/ download'[r].has = download[r].has
    BY <1>1, <1>3
  <2> QED BY <1>2, <1>3, <1>4, <2>1 DEF CredentialInv, CarriedAlone
<1>7. StoredTokenWorks'
  BY <1>2, <1>4 DEF CredentialInv, StoredTokenWorks
<1> QED BY <1>2, <1>3, <1>5, <1>6, <1>7 DEF CredentialInv, TokenTypes

\* Unless a process died with a token nobody else has, the file has the token the
\* broker accepts or one process is about to write it (persist_tokens_env), for
\* any number of processes that download at once.
THEOREM StoredTokenStaysGood == TokensSpec => []StoredTokenWorks
<1>1. TokensInit => CredentialInv
  BY DEF TokensInit, NotDownloading, CredentialInv, TokenTypes, ProcTypes, Knows, Locked, CarriedAlone,
         Carries, StoredTokenWorks
<1>2. CredentialInv /\ [TokensNext]_tokensVars => CredentialInv'
  <2> SUFFICES ASSUME CredentialInv, [TokensNext]_tokensVars PROVE CredentialInv'
    OBVIOUS
  <2>1. CASE UNCHANGED tokensVars
    <3>1. \A p \in Downloads : Carries(p)' = Carries(p)
      BY <2>1 DEF tokensVars, Carries
    <3> QED BY <2>1, <3>1 DEF tokensVars, CredentialInv, TokenTypes, Knows, Locked, CarriedAlone,
                              StoredTokenWorks
  <2> QED BY <2>1, StartsKeeps, RefreshesKeeps, PersistKeeps, ReplacesKeeps, EndsKeeps
          DEF TokensNext
<1>3. CredentialInv => StoredTokenWorks
  BY DEF CredentialInv
<1> QED BY <1>1, <1>2, <1>3, PTL DEF TokensSpec

-----------------------------------------------------------------------------
(* BrokerSession: a verdict is right because of what the messages on the wire  *)
(* are known to say, and because a request that is still held belongs to an    *)
(* order the broker has not seen: nothing that settled can be taken again.     *)

Requests == [step : Steps \cup {"order"}, order : Orders]
Messages == [about : Steps \cup Orders \cup {Outside}, word : Words]
OrderStates == {"absent", "accepted", "partial", "filled", "cut", "refused"}

SessionTypes ==
    /\ link \in 0 .. MaxLinks /\ links \in Nat
    /\ granted \in {"nothing", "application", "account"}
    /\ everGranted \in BOOLEAN /\ account \in BOOLEAN
    /\ call \in [step : Steps \cup {"order", "none"}, order : Orders \cup {Outside}]
    /\ held \subseteq Requests /\ wire \subseteq Messages
    /\ broker \in [Orders -> OrderStates]
    /\ verdict \in [Orders -> {"none", "accepted", "rejected", "unknown"}]

\* A message says what the broker has done for good.
IsTrue(m) ==
    /\ m.about \in Orders /\ m.word = "filled" => broker[m.about] = "filled"
    /\ m.about \in Orders /\ m.word = "error" => broker[m.about] = "refused"
    /\ m.about = "symbols" /\ m.word # "error" => everGranted

\* The broker has not seen the order, and will not from what is held.
Fresh(o) ==
    broker[o] = "absent" /\ \A r \in held : r.step = "order" => r.order # o

InCall ==
    /\ call.step # "none" => call.order \in Orders /\ verdict[call.order] = "none"
    /\ call.step = "none" => call = NoCall
Sending(o) == call.step = "order" /\ call.order = o
HeldIsUnseen == \A r \in held : r.step = "order" => broker[r.order] = "absent"
UnsentIsFresh == \A o \in Orders : verdict[o] = "none" /\ ~Sending(o) => Fresh(o)

SessionInv ==
    /\ SessionTypes
    /\ \A m \in wire : IsTrue(m)
    /\ InCall
    /\ HeldIsUnseen
    /\ UnsentIsFresh
    /\ VerdictsAreTrue
    /\ AccountWasAuthorised

-----------------------------------------------------------------------------
\* Messages are lost or ignored, and requests dropped: nothing new is claimed.
LEMMA LosesKeep ==
    ASSUME SessionInv, wire' \subseteq wire, held' \subseteq held,
           link' \in 0 .. MaxLinks, links' \in Nat,
           granted' \in {"nothing", "application", "account"},
           UNCHANGED <<everGranted, account, call, broker, verdict>>
    PROVE  SessionInv'
<1>1. SessionTypes'
  BY DEF SessionInv, SessionTypes
<1>2. \A m \in wire' : IsTrue(m)'
  BY DEF SessionInv, IsTrue
<1>3. InCall' /\ VerdictsAreTrue' /\ AccountWasAuthorised'
  BY DEF SessionInv, InCall, VerdictsAreTrue, AccountWasAuthorised
<1>4. HeldIsUnseen' /\ UnsentIsFresh'
  BY DEF SessionInv, HeldIsUnseen, UnsentIsFresh, Fresh, Sending
<1> QED BY <1>1, <1>2, <1>3, <1>4 DEF SessionInv

\* The call in progress returns with a verdict that is true.
LEMMA ReturnKeeps ==
    ASSUME SessionInv, call.step # "none",
           NEW value \in {"accepted", "rejected", "unknown"}, Returns(value),
           value = "accepted" => broker[call.order] = "filled",
           value = "rejected" => broker[call.order] = "refused",
           wire' \subseteq wire,
           UNCHANGED <<link, links, granted, everGranted, account, held, broker>>
    PROVE  SessionInv'
<1>1. call.order \in Orders
  BY DEF SessionInv, InCall
<1>2. /\ verdict' \in [Orders -> {"none", "accepted", "rejected", "unknown"}]
      /\ verdict'[call.order] = value
      /\ \A o \in Orders : o # call.order => verdict'[o] = verdict[o]
      /\ call' = NoCall
  BY <1>1 DEF SessionInv, SessionTypes, Returns
<1>3. call'.step = "none"
  BY <1>2 DEF NoCall
<1>4. SessionTypes'
  BY <1>2 DEF SessionInv, SessionTypes, NoCall
<1>5. \A m \in wire' : IsTrue(m)'
  BY DEF SessionInv, IsTrue
<1>6. InCall' /\ HeldIsUnseen' /\ AccountWasAuthorised'
  BY <1>2, <1>3 DEF NoCall, SessionInv, InCall, HeldIsUnseen, AccountWasAuthorised
<1>7. UnsentIsFresh'
  <2>1. ASSUME NEW o \in Orders, verdict'[o] = "none" PROVE Fresh(o)
    <3>1. o # call.order /\ verdict[o] = "none"
      BY <1>2, <2>1
    <3> QED BY <3>1 DEF SessionInv, UnsentIsFresh, Sending
  <2> QED BY <2>1 DEF UnsentIsFresh, Fresh
<1>8. VerdictsAreTrue'
  BY <1>2 DEF SessionInv, VerdictsAreTrue
<1> QED BY <1>4, <1>5, <1>6, <1>7, <1>8 DEF SessionInv

\* The client asks for the next step of an order that has no verdict yet; when it
\* asks for the order itself, the order is one the broker has never seen.
LEMMA AskKeeps ==
    ASSUME SessionInv, NEW o \in Orders, verdict[o] = "none",
           NEW step \in Steps \cup {"order"}, Asks(step, o),
           call.step # "order", call.step # "none" => call.order = o,
           wire' \subseteq wire,
           account' \in BOOLEAN, account' => everGranted,
           UNCHANGED <<link, links, granted, everGranted, broker, verdict>>
    PROVE  SessionInv'
<1> DEFINE r == [step |-> step, order |-> o]
<1>1. /\ call' = r /\ held' = held \cup {r}
      /\ r \in Requests /\ r.step = step /\ r.order = o
  BY DEF Asks, Requests
<1> HIDE DEF r
<1>2. call'.step = step /\ call'.order = o
  BY <1>1
<1>3. SessionTypes'
  <2>1. call' \in [step : Steps \cup {"order", "none"}, order : Orders \cup {Outside}]
    BY <1>1 DEF Requests
  <2> QED BY <1>1, <2>1 DEF SessionInv, SessionTypes
<1>4. \A m \in wire' : IsTrue(m)'
  BY DEF SessionInv, IsTrue
<1>5. InCall' /\ VerdictsAreTrue' /\ AccountWasAuthorised'
  BY <1>2 DEF Steps, SessionInv, InCall, VerdictsAreTrue, AccountWasAuthorised
<1>6. Fresh(o)
  BY DEF SessionInv, UnsentIsFresh, Sending
<1>7. HeldIsUnseen'
  BY <1>1, <1>6 DEF SessionInv, HeldIsUnseen, Fresh
<1>8. UnsentIsFresh'
  <2>1. ASSUME NEW p \in Orders, verdict[p] = "none", ~(step = "order" /\ o = p)
        PROVE  Fresh(p)'
    <3>1. Fresh(p)
      BY <2>1 DEF SessionInv, UnsentIsFresh, Sending
    <3> QED BY <1>1, <2>1, <3>1 DEF Fresh
  <2> QED BY <1>2, <2>1 DEF UnsentIsFresh, Sending
<1> QED BY <1>3, <1>4, <1>5, <1>7, <1>8 DEF SessionInv

\* The broker says something true, of an order or of the connection.
LEMMA SaysKeeps ==
    ASSUME SessionInv, NEW about \in Steps \cup Orders \cup {Outside},
           NEW word \in Words, wire' \subseteq wire \cup {Message(about, word)},
           held' \subseteq held,
           broker' \in [Orders -> OrderStates],
           \A o \in Orders :
                broker'[o] # broker[o] =>
                    /\ broker[o] \in {"absent", "accepted", "partial"}
                    /\ broker[o] = "absent" => [step |-> "order", order |-> o] \in held \ held',
           everGranted' \in BOOLEAN, everGranted => everGranted',
           granted' \in {"nothing", "application", "account"},
           IsTrue(Message(about, word))',
           UNCHANGED <<link, links, account, call, verdict>>
    PROVE  SessionInv'
<1> DEFINE new == Message(about, word)
<1>1. new \in Messages
  BY DEF Message, Messages
<1> HIDE DEF new
<1>2. SessionTypes'
  BY <1>1 DEF SessionInv, SessionTypes, new
<1>3. ASSUME NEW m \in wire' PROVE IsTrue(m)'
  <2>1. CASE m \in wire
    BY <2>1 DEF SessionInv, IsTrue
  <2>2. CASE m = new
    BY <2>2 DEF new
  <2> QED BY <2>1, <2>2 DEF new
<1>4. InCall' /\ AccountWasAuthorised'
  BY DEF SessionInv, InCall, AccountWasAuthorised
<1>5. VerdictsAreTrue'
  BY DEF SessionInv, VerdictsAreTrue
<1>6. HeldIsUnseen'
  <2>1. ASSUME NEW r \in held', r.step = "order" PROVE broker'[r.order] = "absent"
    <3>1. r \in held /\ r \in Requests /\ r.order \in Orders /\ broker[r.order] = "absent"
      BY <2>1 DEF SessionInv, SessionTypes, HeldIsUnseen, Requests
    <3>2. r = [step |-> "order", order |-> r.order]
      BY <2>1, <3>1 DEF Requests
    <3> QED BY <2>1, <3>1, <3>2
  <2> QED BY <2>1 DEF HeldIsUnseen
<1>7. UnsentIsFresh'
  <2>1. ASSUME NEW o \in Orders, verdict[o] = "none", ~Sending(o) PROVE Fresh(o)'
    <3>1. Fresh(o)
      BY <2>1 DEF SessionInv, UnsentIsFresh
    <3>2. [step |-> "order", order |-> o] \notin held
      BY <3>1 DEF Fresh
    <3> QED BY <3>1, <3>2 DEF Fresh
  <2> QED BY <2>1 DEF UnsentIsFresh, Sending
<1> QED BY <1>2, <1>3, <1>4, <1>5, <1>6, <1>7 DEF SessionInv

-----------------------------------------------------------------------------
\* The steps of the connection.
LEMMA LinkKeeps ==
    ASSUME SessionInv, Connects \/ Drops
    PROVE  SessionInv'
<1>1. CASE Connects
  BY SessionAssumption, <1>1, LosesKeep DEF Connects, SessionInv, SessionTypes
<1>2. CASE Drops
  BY SessionAssumption, <1>2, LosesKeep DEF Drops, SessionInv, SessionTypes
<1> QED BY <1>1, <1>2

\* The steps of the client.
LEMMA ClientKeeps ==
    ASSUME SessionInv,
           \/ \E o \in Orders : SendBegins(o)
           \/ Proceeds \/ RemembersAccount \/ SymbolsRefused
           \/ TimesOut \/ LibraryCancels \/ HearsOutcome \/ Ignores
    PROVE  SessionInv'
<1>1. ASSUME NEW o \in Orders, SendBegins(o) PROVE SessionInv'
  <2>1. call.step = "none"
    BY <1>1 DEF SendBegins, NoCall
  <2>2. PICK step \in Steps \cup {"order"} : Asks(step, o)
    BY <1>1 DEF SendBegins, Steps
  <2> QED BY <1>1, <2>1, <2>2, AskKeeps
          DEF SendBegins, SessionInv, SessionTypes, AccountWasAuthorised
<1>2. CASE Proceeds
  <2>1. /\ call.step \in {"application", "account"}
        /\ wire' \subseteq wire
        /\ UNCHANGED <<link, links, granted, everGranted, account, broker, verdict>>
    BY <1>2 DEF Proceeds
  <2>2. PICK step \in Steps \cup {"order"} : Asks(step, call.order)
    BY <1>2 DEF Proceeds, Steps
  <2>3. call.order \in Orders /\ verdict[call.order] = "none"
    BY <2>1 DEF SessionInv, InCall
  <2> QED BY <2>1, <2>2, <2>3, AskKeeps DEF SessionInv, SessionTypes, AccountWasAuthorised
<1>3. CASE RemembersAccount
  <2>1. PICK m \in wire : m.about = "symbols" /\ ~Refused(m) /\ wire' = wire \ {m}
                          /\ call.step = "symbols" /\ account' = TRUE
    BY <1>3 DEF RemembersAccount
  <2>2. everGranted
    BY <2>1 DEF SessionInv, IsTrue, Refused
  <2>3. call.order \in Orders /\ verdict[call.order] = "none"
    BY <2>1 DEF SessionInv, InCall
  <2>4. Asks("order", call.order)
        /\ UNCHANGED <<link, links, granted, everGranted, broker, verdict>>
    BY <1>3 DEF RemembersAccount
  <2> QED BY <2>1, <2>2, <2>3, <2>4, AskKeeps
<1>4. CASE SymbolsRefused
  BY <1>4, ReturnKeeps DEF SymbolsRefused, Steps
<1>5. CASE TimesOut
  <2>1. call.step # "none"
    BY <1>5 DEF TimesOut, SessionInv, InCall
  <2> QED BY <1>5, <2>1, ReturnKeeps DEF TimesOut
<1>6. CASE LibraryCancels
  BY <1>6, LosesKeep DEF LibraryCancels, SessionInv, SessionTypes
<1>7. CASE HearsOutcome
  <2>1. PICK m \in wire : /\ call.step = "order" /\ m.about = call.order
                          /\ wire' = wire \ {m} /\ Returns(Verdict(m))
    BY <1>7 DEF HearsOutcome, Matches
  <2>2. IsTrue(m) /\ call.order \in Orders
    BY <2>1 DEF SessionInv, InCall
  <2>3. /\ Verdict(m) \in {"accepted", "rejected", "unknown"}
        /\ Verdict(m) = "accepted" => m.word = "filled"
        /\ Verdict(m) = "rejected" => m.word = "error"
    BY DEF Verdict
  <2>4. UNCHANGED <<link, links, granted, everGranted, account, held, broker>>
    BY <1>7 DEF HearsOutcome
  <2> QED BY <2>1, <2>2, <2>3, <2>4, ReturnKeeps DEF IsTrue
<1>8. CASE Ignores
  BY <1>8, LosesKeep DEF Ignores, SessionInv, SessionTypes
<1> QED BY <1>1, <1>2, <1>3, <1>4, <1>5, <1>6, <1>7, <1>8

\* The steps of the broker.
LEMMA BrokerKeeps ==
    ASSUME SessionInv,
           \/ Authorises \/ TakesOrder \/ OutsideEvent
           \/ \E o \in Orders : WorksOrder(o)
    PROVE  SessionInv'
<1>1. CASE Authorises
  <2>1. PICK r \in held, ok \in BOOLEAN :
            /\ r.step \in Steps /\ held' = held \ {r}
            /\ ok /\ r.step = "symbols" => granted = "account"
            /\ granted' = IF ok /\ r.step # "symbols" THEN r.step ELSE granted
            /\ Says(r.step, IF ok THEN "other" ELSE "error")
    BY <1>1 DEF Authorises, Steps
  <2> DEFINE word == IF ok THEN "other" ELSE "error"
  <2>2. word \in Words /\ wire' = wire \cup {Message(r.step, word)}
    BY <2>1 DEF Says, Words
  <2>3. /\ UNCHANGED <<link, links, account, call, broker, verdict>>
        /\ everGranted' = (everGranted \/ granted' = "account")
    BY <1>1 DEF Authorises
  <2>4. granted' \in {"nothing", "application", "account"}
    BY <2>1 DEF SessionInv, SessionTypes, Steps
  <2>5. /\ everGranted' \in BOOLEAN /\ (everGranted => everGranted')
        /\ (ok /\ r.step = "symbols" => everGranted')
    BY <2>1, <2>3 DEF SessionInv, SessionTypes
  <2>6. IsTrue(Message(r.step, word))'
    BY SessionAssumption, <2>1, <2>5 DEF IsTrue, Message, Steps
  <2> HIDE DEF word
  <2> QED BY <2>1, <2>2, <2>3, <2>4, <2>5, <2>6, SaysKeeps DEF SessionInv, SessionTypes
<1>2. CASE TakesOrder
  <2>1. PICK r \in held, word \in {"accepted", "error"} :
            /\ r.step = "order" /\ held' = held \ {r}
            /\ Says(r.order, word)
            /\ broker' = [broker EXCEPT ![r.order] =
                            IF word = "accepted" THEN "accepted" ELSE "refused"]
    BY <1>2 DEF TakesOrder
  <2>2. r \in Requests /\ r.order \in Orders /\ word \in Words
    BY DEF SessionInv, SessionTypes, Requests, Words
  <2>3. r = [step |-> "order", order |-> r.order] /\ broker[r.order] = "absent"
    BY <2>1, <2>2 DEF SessionInv, HeldIsUnseen, Requests
  <2>4. /\ broker' \in [Orders -> OrderStates]
        /\ broker'[r.order] = IF word = "accepted" THEN "accepted" ELSE "refused"
        /\ \A o \in Orders : o # r.order => broker'[o] = broker[o]
    BY <2>1, <2>2 DEF SessionInv, SessionTypes, OrderStates
  <2>5. wire' = wire \cup {Message(r.order, word)}
    BY <2>1 DEF Says
  <2>6. UNCHANGED <<link, links, granted, everGranted, account, call, verdict>>
    BY <1>2 DEF TakesOrder
  <2>7. IsTrue(Message(r.order, word))'
    BY SessionAssumption, <2>1, <2>2, <2>4 DEF IsTrue, Message
  <2> QED BY <2>1, <2>2, <2>3, <2>4, <2>5, <2>6, <2>7, SaysKeeps DEF SessionInv, SessionTypes
<1>3. CASE OutsideEvent
  <2>1. PICK word \in Words : wire' = wire \cup {Message(Outside, word)}
    BY <1>3 DEF OutsideEvent, Says
  <2>2. UNCHANGED <<link, links, granted, everGranted, account, call, held, broker, verdict>>
    BY <1>3 DEF OutsideEvent
  <2>3. IsTrue(Message(Outside, word))'
    BY SessionAssumption DEF IsTrue, Message
  <2> QED BY <2>1, <2>2, <2>3, SaysKeeps DEF SessionInv, SessionTypes
<1>4. ASSUME NEW o \in Orders, WorksOrder(o) PROVE SessionInv'
  <2>1. PICK to \in {"partial", "filled", "other"} :
            /\ broker' = [broker EXCEPT ![o] = IF to # "other" THEN to
                                              ELSE IF @ = "partial" THEN "cut" ELSE "refused"]
            /\ wire' \subseteq wire \cup {Message(o, to)}
    BY <1>4 DEF WorksOrder
  <2>2. broker[o] \in {"accepted", "partial"}
        /\ UNCHANGED <<link, links, granted, everGranted, account, call, held, verdict>>
    BY <1>4 DEF WorksOrder
  <2>3. /\ broker' \in [Orders -> OrderStates]
        /\ to # "other" => broker'[o] = to
        /\ \A p \in Orders : p # o => broker'[p] = broker[p]
    BY <2>1 DEF SessionInv, SessionTypes, OrderStates
  <2>4. to \in Words /\ IsTrue(Message(o, to))'
    BY SessionAssumption, <2>1, <2>3 DEF IsTrue, Message, Words
  <2> QED BY <2>1, <2>2, <2>3, <2>4, SaysKeeps DEF SessionInv, SessionTypes
<1> QED BY <1>1, <1>2, <1>3, <1>4

\* What execute records of an order is what became of it at the broker, and the
\* account the transport remembers was authorised (CTraderDemoOpenApiTransport,
\* execute), for any number of orders, connections and foreign events.
THEOREM SessionStaysTrusted == SessionSpec => []SessionIsTrusted
<1>1. SessionInit => SessionInv
  <2> SUFFICES ASSUME SessionInit PROVE SessionInv
    OBVIOUS
  <2>1. SessionTypes
    <3>1. NoCall \in [step : Steps \cup {"order", "none"}, order : Orders \cup {Outside}]
      BY DEF NoCall
    <3>2. everGranted \in BOOLEAN /\ account \in BOOLEAN
      BY Zenon DEF SessionInit
    <3>3. 0 \in 0 .. MaxLinks
      BY SessionAssumption
    <3>4. /\ broker \in [Orders -> OrderStates]
          /\ verdict \in [Orders -> {"none", "accepted", "rejected", "unknown"}]
      BY DEF SessionInit, OrderStates
    <3> QED BY <3>1, <3>2, <3>3, <3>4 DEF SessionInit, SessionTypes
  <2>2. InCall
    BY DEF SessionInit, InCall, NoCall
  <2>3. HeldIsUnseen /\ UnsentIsFresh /\ VerdictsAreTrue /\ AccountWasAuthorised
    BY DEF SessionInit, HeldIsUnseen, UnsentIsFresh, Fresh, VerdictsAreTrue, AccountWasAuthorised
  <2> QED BY <2>1, <2>2, <2>3 DEF SessionInit, SessionInv
<1>2. SessionInv /\ [SessionNext]_sessionVars => SessionInv'
  <2> SUFFICES ASSUME SessionInv, [SessionNext]_sessionVars PROVE SessionInv'
    OBVIOUS
  <2>1. CASE UNCHANGED sessionVars
    BY <2>1, LosesKeep DEF sessionVars, SessionInv, SessionTypes
  <2> QED BY <2>1, LinkKeeps, ClientKeeps, BrokerKeeps DEF SessionNext
<1>3. SessionInv => SessionIsTrusted
  BY DEF SessionInv, SessionTypes, Messages, SessionIsTrusted, SessionTypeOK
<1> QED BY <1>1, <1>2, <1>3, PTL DEF SessionSpec

-----------------------------------------------------------------------------
(* Backups: retention works on a plan that may be old, beside backups that     *)
(* are being taken.  What it relies on is that, for every backup it has        *)
(* planned to delete, enough newer ones are whole and are not in the plan.     *)

FileKinds == {"staging", "archive", "auxiliary", "manifest"}

KeptOf(k) == IF k = "local" THEN KeptLocal ELSE KeptTournament

\* What a backup that is being taken consists of, at each of its steps.
Given(k, at) ==
    CASE at = "staged" -> {"staging"}
      [] at = "copying" -> {"archive"}
      [] at = "archived" -> AllFiles(k) \ {"manifest"}
      [] OTHER -> AllFiles(k)

BackupTypes ==
    /\ db \in [main : AgentStates, wal : Seq(AgentStates)]
    /\ Len(db.wal) <= 1
    /\ nextId \in 1 .. MaxId + 1
    /\ aged \in 0 .. MaxId
    /\ contents \in [Kinds -> [Ids -> SUBSET FileKinds]]
    /\ data \in [Ids -> AgentStates]
    /\ latestBackup \in [Kinds -> 0 .. MaxId]
    /\ backup \in [Kinds ->
                    [at : {"idle", "staged", "copying", "archived", "manifested"},
                     id : 0 .. MaxId]]
    /\ restore \in [at : {"idle", "staged", "unlinked"}, state : AgentStates]
    /\ doomed \subseteq Kinds \X Ids \X FileKinds

Verified(k) == {i \in Ids : contents[k][i] = AllFiles(k)}
Doomed(k, i) == \E f \in FileKinds : <<k, i, f>> \in doomed

\* The newer backups that are whole and stay whole.
Spared(k, i) == {j \in NewerIds(Verified(k), i) : ~Doomed(k, j)}

\* No backup has a name that has not been given yet.
Unbegun == \A k \in Kinds, j \in Ids : j >= nextId => contents[k][j] = {}

\* The backup that is being taken is the newest of its kind.
Begun(k) ==
    LET id == backup[k].id IN
    backup[k].at # "idle" =>
        /\ id \in Ids /\ id < nextId
        /\ contents[k][id] = Given(k, backup[k].at)
        /\ ~Doomed(k, id)
        /\ \A j \in Ids : j > id => contents[k][j] = {}

LatestStays ==
    LET whole == latestBackup["local"] IN
    whole # 0 => /\ whole \in Verified("local")
                 /\ whole < nextId
                 /\ ~Doomed("local", whole)

Survivors(k) ==
    \A i \in Ids :
        Doomed(k, i) => /\ i < nextId
                        /\ Cardinality(Spared(k, i)) >= KeptOf(k)

BackupsInv ==
    /\ BackupTypes
    /\ Unbegun
    /\ \A k \in Kinds : Begun(k) /\ Survivors(k)
    /\ LatestStays

-----------------------------------------------------------------------------
\* A set of names that is not empty has a newest one.
LEMMA NewestExists ==
    ASSUME NEW S \in SUBSET Ids, S # {}
    PROVE  \E n \in S : \A m \in S : m <= n
<1> DEFINE R == OpToRel(<, Nat)
           T == {MaxId - n : n \in S}
<1>0. \A n \in S : n \in Int /\ MaxId - n \in Nat
  BY BackupsAssumption DEF Ids
<1>1. T \in SUBSET Nat /\ T # {}
  BY <1>0
<1>2. PICK d \in T : \A m \in T : <<m, d>> \notin R
  <2>1. IsWellFoundedOn(R, Nat)
    BY NatLessThanWellFounded
  <2> HIDE DEF R, T
  <2> QED BY <1>1, <2>1, WFMin
<1>3. \A m \in T : ~(m < d)
  BY <1>1, <1>2 DEF OpToRel
<1>4. PICK n \in S : d = MaxId - n
  BY <1>2
<1>5. ASSUME NEW m \in S PROVE m <= n
  <2>1. ~(MaxId - m < MaxId - n)
    BY <1>3, <1>4
  <2> QED BY <1>0, <2>1, BackupsAssumption
<1> QED BY <1>5

\* Names are finitely many.
LEMMA IdsAreFinite ==
    ASSUME NEW S \in SUBSET Ids
    PROVE  IsFiniteSet(S) /\ Cardinality(S) \in Nat
<1>1. IsFiniteSet(Ids)
  BY FS_Interval, BackupsAssumption DEF Ids
<1>2. IsFiniteSet(S)
  BY <1>1, FS_Subset
<1> QED BY <1>2, FS_CardinalityType

LEMMA MoreNames ==
    ASSUME NEW T \in SUBSET Ids, NEW S \in SUBSET T
    PROVE  Cardinality(S) <= Cardinality(T)
BY IdsAreFinite, FS_Subset

\* The backups with fewer than K newer ones are never part of a plan; whatever
\* has K newer ones has K newer ones among these.
LEMMA NewestAreSpared ==
    ASSUME NEW V \in SUBSET Ids, NEW K \in Nat, NEW i \in V,
           Cardinality(NewerIds(V, i)) >= K
    PROVE  Cardinality({j \in NewerIds(V, i) :
                            Cardinality(NewerIds(V, j)) < K}) >= K
<1> DEFINE Few == {j \in V : Cardinality(NewerIds(V, j)) < K}
<1>1. \A j \in V : NewerIds(V, j) \in SUBSET Ids
                   /\ Cardinality(NewerIds(V, j)) \in Nat
  BY IdsAreFinite DEF NewerIds
<1>2. V \ Few # {} /\ V \ Few \in SUBSET Ids
  BY <1>1
<1>3. PICK m \in V \ Few : \A n \in V \ Few : n <= m
  <2> HIDE DEF Few
  <2> QED BY <1>2, NewestExists
<1>4. NewerIds(V, m) \subseteq Few
  <2>1. \A n \in V : n \in Int
    BY DEF Ids
  <2> QED BY <1>3, <2>1 DEF NewerIds
<1>5. Few \subseteq NewerIds(V, i)
  <2>1. ASSUME NEW j \in Few, ~(j > i)
        PROVE  FALSE
    <3>1. i \in Int /\ j \in Int /\ j \in V
      BY DEF Ids
    <3>2. NewerIds(V, i) \subseteq NewerIds(V, j)
      <4>1. ASSUME NEW n \in V, n > i PROVE n > j
        <5>1. n \in Int
          BY DEF Ids
        <5> QED BY <2>1, <3>1, <4>1, <5>1
      <4> QED BY <4>1 DEF NewerIds
    <3>3. Cardinality(NewerIds(V, i)) <= Cardinality(NewerIds(V, j))
      BY <1>1, <3>1, <3>2, MoreNames
    <3> QED BY <1>1, <2>1, <3>1, <3>3
  <2> QED BY <2>1 DEF NewerIds
<1>6. {j \in NewerIds(V, i) : Cardinality(NewerIds(V, j)) < K} = Few
  BY <1>5 DEF NewerIds
<1>7. Cardinality(NewerIds(V, m)) >= K
  BY <1>1, <1>3
<1>8. Cardinality(NewerIds(V, m)) <= Cardinality(Few)
  <2>1. Few \in SUBSET Ids
    OBVIOUS
  <2> HIDE DEF Few
  <2> QED BY <1>4, <2>1, MoreNames
<1>9. Cardinality(Few) \in Nat
  <2>1. Few \in SUBSET Ids
    OBVIOUS
  <2> HIDE DEF Few
  <2> QED BY <2>1, IdsAreFinite
<1> HIDE DEF Few
<1> QED BY <1>1, <1>3, <1>6, <1>7, <1>8, <1>9

\* Backups that are whole and not in the plan stay so: those in the plan keep
\* their survivors.
LEMMA SurvivorsStay ==
    ASSUME BackupsInv, NEW k \in Kinds, nextId <= nextId', nextId' \in Int,
           doomed' \subseteq doomed,
           \A j \in Verified(k) : Doomed(k, j) \/ j \in Verified(k)'
    PROVE  Survivors(k)'
<1> SUFFICES ASSUME NEW i \in Ids, Doomed(k, i)'
             PROVE  i < nextId' /\ Cardinality(Spared(k, i)') >= KeptOf(k)
  BY DEF Survivors, KeptOf
<1>1. Doomed(k, i) /\ i < nextId /\ Cardinality(Spared(k, i)) >= KeptOf(k)
  BY DEF BackupsInv, Survivors, Doomed
<1>2. Spared(k, i) \subseteq Spared(k, i)'
  BY DEF Spared, NewerIds, Doomed
<1>3. Spared(k, i)' \in SUBSET Ids /\ Spared(k, i) \in SUBSET Ids
  BY DEF Spared, NewerIds, Verified
<1>4. Cardinality(Spared(k, i)) <= Cardinality(Spared(k, i)')
  BY <1>2, <1>3, MoreNames
<1>5. Cardinality(Spared(k, i)) \in Nat /\ Cardinality(Spared(k, i)') \in Nat
  BY <1>3, IdsAreFinite
<1>6. KeptOf(k) \in Nat
  BY BackupsAssumption DEF KeptOf
<1>7. i \in Int /\ nextId \in Int
  BY DEF Ids, BackupsInv, BackupTypes
<1> QED BY <1>1, <1>4, <1>5, <1>6, <1>7

\* A step that touches no backup, no plan and no name; a backup that is cut off
\* leaves its files.
LEMMA AsideKeeps ==
    ASSUME BackupsInv, BackupTypes',
           UNCHANGED <<nextId, contents, latestBackup, doomed>>,
           \A k \in Kinds : backup'[k] = backup[k] \/ backup'[k].at = "idle"
    PROVE  BackupsInv'
<1>1. ASSUME NEW k \in Kinds
      PROVE  Begun(k)' /\ Survivors(k)'
  <2>1. Begun(k)'
    BY DEF BackupsInv, Begun, Doomed
  <2>2. Survivors(k)'
    BY SurvivorsStay DEF BackupsInv, BackupTypes, Verified
  <2> QED BY <2>1, <2>2
<1> QED BY <1>1 DEF BackupsInv, Unbegun, LatestStays, Verified, Doomed

\* A backup is begun or goes on: its files are those of its new step, and it was
\* not whole before.
LEMMA WritingKeeps ==
    ASSUME BackupsInv, BackupTypes', NEW k \in Kinds, NEW id \in Ids,
           NEW at \in {"staged", "copying", "archived", "manifested"},
           contents' = [contents EXCEPT ![k][id] = Given(k, at)],
           backup'[k].at = at /\ backup'[k].id = id,
           \A l \in Kinds \ {k} : backup'[l] = backup[l],
           contents[k][id] # AllFiles(k),
           ~Doomed(k, id),
           \A j \in Ids : j > id => contents[k][j] = {},
           nextId <= nextId', id < nextId',
           UNCHANGED <<latestBackup, doomed>>
    PROVE  BackupsInv'
<1>0. nextId \in Int /\ nextId' \in Int /\ id \in Int
  BY DEF BackupsInv, BackupTypes, Ids
<1>1. /\ \A l \in Kinds \ {k} : contents'[l] = contents[l]
      /\ contents'[k][id] = Given(k, at)
      /\ \A j \in Ids \ {id} : contents'[k][j] = contents[k][j]
  BY DEF BackupsInv, BackupTypes
<1>2. \A l \in Kinds : Verified(l) \subseteq Verified(l)'
  BY <1>1 DEF Verified
<1>3. \A l \in Kinds, j \in Ids : Doomed(l, j)' <=> Doomed(l, j)
  BY DEF Doomed
<1>4. \A l \in Kinds : Survivors(l)'
  BY <1>0, <1>2, SurvivorsStay
<1>5. Begun(k)'
  <2>1. \A j \in Ids : j > id => contents'[k][j] = {}
    BY <1>0, <1>1
  <2> QED BY <1>1, <1>3, <2>1 DEF Begun
<1>6. ASSUME NEW l \in Kinds \ {k} PROVE Begun(l)'
  <2>1. backup'[l] = backup[l] /\ contents'[l] = contents[l]
    BY <1>1
  <2>2. Begun(l)
    BY DEF BackupsInv
  <2>3. backup[l].id \in Int
    BY DEF BackupsInv, BackupTypes
  <2> QED BY <1>0, <1>3, <2>1, <2>2, <2>3 DEF Begun
<1>7. Unbegun'
  <2>1. ASSUME NEW l \in Kinds, NEW j \in Ids, j >= nextId'
        PROVE  contents'[l][j] = {}
    <3>1. j \in Int
      BY DEF Ids
    <3>2. j >= nextId /\ j # id
      BY <1>0, <2>1, <3>1
    <3>3. contents[l][j] = {}
      BY <3>2 DEF BackupsInv, Unbegun
    <3> QED BY <1>1, <3>2, <3>3
  <2> QED BY <2>1 DEF Unbegun
<1>8. LatestStays'
  <2>1. latestBackup["local"] \in Int /\ "local" \in Kinds
    BY DEF BackupsInv, BackupTypes, Kinds
  <2> QED BY <1>0, <1>2, <1>3, <2>1 DEF BackupsInv, LatestStays, Verified
<1>9. \A l \in Kinds : Begun(l)'
  BY <1>5, <1>6
<1> QED BY <1>4, <1>7, <1>8, <1>9 DEF BackupsInv

\* A backup begins, under a name that was never given.
LEMMA BeginsKeeps ==
    ASSUME BackupsInv, LocalStages \/ TournamentArchives
    PROVE  BackupsInv'
<1>1. PICK k \in Kinds, at \in {"staged", "copying"} :
        /\ nextId <= MaxId /\ nextId' = nextId + 1
        /\ Given(k, at) \in {{"staging"}, {"archive"}}
        /\ contents' = [contents EXCEPT ![k][nextId] = Given(k, at)]
        /\ backup' = [backup EXCEPT ![k] = [at |-> at, id |-> nextId]]
        /\ data' = data \/ data' = [data EXCEPT ![nextId] = Committed]
        /\ UNCHANGED <<db, aged, latestBackup, restore, doomed>>
  <2>1. CASE LocalStages
    BY <2>1 DEF LocalStages, Given, Kinds
  <2>2. CASE TournamentArchives
    BY <2>2 DEF TournamentArchives, Given, Kinds
  <2> QED BY <2>1, <2>2
<1>2. nextId \in Ids /\ nextId \in Int /\ MaxId \in Nat
  BY <1>1, BackupsAssumption DEF BackupsInv, BackupTypes, Ids
<1>3. Committed \in AgentStates
  BY DEF Committed, BackupsInv, BackupTypes
<1>4. BackupTypes'
  <2>1. contents' \in [Kinds -> [Ids -> SUBSET FileKinds]]
    BY <1>1, <1>2 DEF BackupsInv, BackupTypes, FileKinds
  <2>2. backup' \in [Kinds ->
                    [at : {"idle", "staged", "copying", "archived", "manifested"},
                     id : 0 .. MaxId]]
    BY <1>1, <1>2 DEF BackupsInv, BackupTypes, Ids
  <2>3. data' \in [Ids -> AgentStates]
    BY <1>1, <1>2, <1>3 DEF BackupsInv, BackupTypes
  <2>4. nextId' \in 1 .. MaxId + 1
    BY <1>1, <1>2 DEF BackupsInv, BackupTypes
  <2> QED BY <1>1, <2>1, <2>2, <2>3, <2>4 DEF BackupsInv, BackupTypes
<1>5. contents[k][nextId] = {} /\ \A j \in Ids : j > nextId => contents[k][j] = {}
  <2>1. \A j \in Ids : j > nextId \/ j = nextId => j >= nextId
    BY <1>2 DEF Ids
  <2>2. \A j \in Ids : j >= nextId => contents[k][j] = {}
    BY DEF BackupsInv, Unbegun
  <2> QED BY <1>2, <2>1, <2>2
<1>6. contents[k][nextId] # AllFiles(k)
  BY <1>5 DEF AllFiles
<1>7. ~Doomed(k, nextId)
  BY <1>2 DEF BackupsInv, Survivors
<1>8. /\ backup'[k].at = at /\ backup'[k].id = nextId
      /\ \A l \in Kinds \ {k} : backup'[l] = backup[l]
  BY <1>1 DEF BackupsInv, BackupTypes
<1>9. nextId <= nextId' /\ nextId < nextId'
  BY <1>1, <1>2
<1> QED BY <1>1, <1>2, <1>4, <1>5, <1>6, <1>7, <1>8, <1>9, WritingKeeps

\* A backup goes on to its next file.
LEMMA GoesOnKeeps ==
    ASSUME BackupsInv,
           \/ LocalArchives \/ TournamentCopies
           \/ \E k \in Kinds : CompletesBackup(k)
    PROVE  BackupsInv'
<1>1. PICK k \in Kinds, at \in {"archived", "manifested"} :
        /\ backup[k].at \in {"staged", "copying", "archived"}
        /\ Given(k, backup[k].at) # AllFiles(k)
        /\ Given(k, at) \in SUBSET FileKinds
        /\ contents' = [contents EXCEPT ![k][backup[k].id] = Given(k, at)]
        /\ backup' = [backup EXCEPT ![k].at = at]
        /\ UNCHANGED <<db, nextId, aged, data, latestBackup, restore, doomed>>
  <2>0. \A k \in Kinds : Begun(k)
    BY DEF BackupsInv
  <2>1. CASE LocalArchives
    BY <2>1 DEF LocalArchives, Given, Kinds, AllFiles, FileKinds
  <2>2. CASE TournamentCopies
    <3>1. /\ "tournament" \in Kinds
          /\ backup["tournament"].at = "copying"
          /\ contents' = [contents EXCEPT
                ![("tournament")][backup["tournament"].id] = @ \cup {"auxiliary"}]
          /\ contents["tournament"][backup["tournament"].id] = {"archive"}
          /\ backup["tournament"].id \in Ids
      BY <2>0, <2>2 DEF TournamentCopies, Adds, Begun, Given, Kinds
    <3>2. /\ Given("tournament", "archived") = {"archive", "auxiliary"}
          /\ Given("tournament", "copying") # AllFiles("tournament")
      BY DEF Given, AllFiles
    <3>3. contents' = [contents EXCEPT ![("tournament")][backup["tournament"].id] =
                            Given("tournament", "archived")]
      BY <3>1, <3>2 DEF BackupsInv, BackupTypes
    <3> QED BY <2>2, <3>1, <3>2, <3>3 DEF TournamentCopies, Adds, FileKinds
  <2>3. ASSUME NEW k \in Kinds, CompletesBackup(k)
        PROVE  /\ backup[k].at \in {"staged", "copying", "archived"}
               /\ Given(k, backup[k].at) # AllFiles(k)
               /\ Given(k, "manifested") \in SUBSET FileKinds
               /\ contents' = [contents EXCEPT ![k][backup[k].id] =
                                    Given(k, "manifested")]
               /\ backup' = [backup EXCEPT ![k].at = "manifested"]
               /\ UNCHANGED <<db, nextId, aged, data, latestBackup, restore,
                              doomed>>
    <3>1. /\ backup[k].at = "archived"
          /\ contents' = [contents EXCEPT ![k][backup[k].id] = @ \cup {"manifest"}]
          /\ contents[k][backup[k].id] = Given(k, "archived")
          /\ backup[k].id \in Ids
      BY <2>0, <2>3 DEF CompletesBackup, Adds, Begun
    <3>2. /\ Given(k, "archived") \cup {"manifest"} = Given(k, "manifested")
          /\ Given(k, "archived") # AllFiles(k)
          /\ Given(k, "manifested") \in SUBSET FileKinds
      BY DEF Given, AllFiles, FileKinds
    <3>3. contents' = [contents EXCEPT ![k][backup[k].id] = Given(k, "manifested")]
      BY <3>1, <3>2 DEF BackupsInv, BackupTypes
    <3> QED BY <2>3, <3>1, <3>2, <3>3 DEF CompletesBackup, Adds
  <2> QED BY <2>1, <2>2, <2>3
<1> DEFINE id == backup[k].id
<1>2. /\ id \in Ids /\ id < nextId
      /\ contents[k][id] = Given(k, backup[k].at)
      /\ ~Doomed(k, id)
      /\ \A j \in Ids : j > id => contents[k][j] = {}
  BY <1>1 DEF BackupsInv, Begun
<1>3. BackupTypes'
  <2>1. contents' \in [Kinds -> [Ids -> SUBSET FileKinds]]
    BY <1>1, <1>2 DEF BackupsInv, BackupTypes
  <2>2. backup' \in [Kinds ->
                    [at : {"idle", "staged", "copying", "archived", "manifested"},
                     id : 0 .. MaxId]]
    BY <1>1 DEF BackupsInv, BackupTypes
  <2> QED BY <1>1, <2>1, <2>2 DEF BackupsInv, BackupTypes
<1>4. /\ backup'[k].at = at /\ backup'[k].id = id
      /\ \A l \in Kinds \ {k} : backup'[l] = backup[l]
  BY <1>1 DEF BackupsInv, BackupTypes
<1>5. nextId <= nextId' /\ id < nextId'
  BY <1>1, <1>2 DEF BackupsInv, BackupTypes
<1> QED BY <1>1, <1>2, <1>3, <1>4, <1>5, WritingKeeps

\* latest.json names a backup that is whole and that no plan holds.
LEMMA PublishesKeeps ==
    ASSUME BackupsInv, NEW k \in Kinds, Publishes(k)
    PROVE  BackupsInv'
<1>1. /\ backup[k].at = "manifested"
      /\ latestBackup' = [latestBackup EXCEPT ![k] = backup[k].id]
      /\ backup' = [backup EXCEPT ![k] = NoBackup]
      /\ UNCHANGED <<db, nextId, aged, contents, data, restore, doomed>>
  BY DEF Publishes, Publishable
<1>2. /\ backup[k].id \in Ids /\ backup[k].id < nextId
      /\ contents[k][backup[k].id] = AllFiles(k)
      /\ ~Doomed(k, backup[k].id)
  BY <1>1 DEF BackupsInv, Begun, Given
<1>3. BackupTypes'
  <2>1. backup' \in [Kinds ->
                    [at : {"idle", "staged", "copying", "archived", "manifested"},
                     id : 0 .. MaxId]]
    BY <1>1, BackupsAssumption DEF BackupsInv, BackupTypes, NoBackup
  <2> QED BY <1>1, <2>1 DEF BackupsInv, BackupTypes
<1>4. ASSUME NEW l \in Kinds
      PROVE  Begun(l)' /\ Survivors(l)'
  <2>1. Begun(l)'
    BY <1>1 DEF BackupsInv, BackupTypes, Begun, Doomed, NoBackup
  <2>2. Survivors(l)'
    BY <1>1, SurvivorsStay DEF BackupsInv, BackupTypes, Verified
  <2> QED BY <2>1, <2>2
<1>5. LatestStays'
  <2>1. CASE k = "local"
    <3>1. latestBackup'["local"] = backup[k].id
      BY <1>1, <2>1 DEF BackupsInv, BackupTypes
    <3> QED BY <1>1, <1>2, <2>1, <3>1 DEF LatestStays, Verified, Doomed
  <2>2. CASE k # "local"
    <3>1. latestBackup'["local"] = latestBackup["local"]
      BY <1>1, <2>2 DEF BackupsInv, BackupTypes, Kinds
    <3> QED BY <1>1, <3>1 DEF BackupsInv, LatestStays, Verified, Doomed
  <2> QED BY <2>1, <2>2
<1> QED BY <1>1, <1>3, <1>4, <1>5 DEF BackupsInv, Unbegun

\* The plan leaves enough newer backups alone, the one latest.json names, and
\* those that are being taken.
LEMMA PlansKeeps ==
    ASSUME BackupsInv, RetentionPlans
    PROVE  BackupsInv'
<1> DEFINE Obsolete(k) == IF k = "local" THEN ObsoleteLocal ELSE ObsoleteTournament
<1>1. /\ \A k \in Kinds : Obsolete(k) \subseteq Verified(k)
      /\ \A k \in Kinds : \A i \in Obsolete(k) :
            Cardinality(NewerIds(Verified(k), i)) >= KeptOf(k)
      /\ latestBackup["local"] \notin Obsolete("local")
  BY DEF ObsoleteLocal, ObsoleteTournament, VerifiedLocal, VerifiedTournament,
         Verified, KeptOf, Kinds
<1>2. /\ doomed' \subseteq Kinds \X Ids \X FileKinds
      /\ \A k \in Kinds, i \in Ids : Doomed(k, i)' => i \in Obsolete(k)
  <2>1. doomed' = {<<"local", i, f>> : i \in ObsoleteLocal, f \in AllFiles("local")}
         \cup {<<"tournament", i, f>> :
                    i \in ObsoleteTournament, f \in AllFiles("tournament")}
    BY DEF RetentionPlans
  <2>2. ObsoleteLocal \subseteq Ids /\ ObsoleteTournament \subseteq Ids
    BY DEF ObsoleteLocal, ObsoleteTournament, VerifiedLocal, VerifiedTournament
  <2>3. AllFiles("local") \subseteq FileKinds /\ AllFiles("tournament") \subseteq FileKinds
    BY DEF AllFiles, FileKinds
  <2>4. doomed' \subseteq Kinds \X Ids \X FileKinds
    BY <2>1, <2>2, <2>3 DEF Kinds
  <2>5. ASSUME NEW k \in Kinds, NEW i \in Ids, Doomed(k, i)'
        PROVE  i \in Obsolete(k)
    BY <2>1, <2>5 DEF Doomed
  <2> QED BY <2>4, <2>5
<1>3. UNCHANGED <<db, nextId, aged, contents, data, latestBackup, backup, restore>>
  BY DEF RetentionPlans
<1> HIDE DEF Obsolete
<1>4. BackupTypes'
  BY <1>2, <1>3 DEF BackupsInv, BackupTypes
<1>5. ASSUME NEW k \in Kinds
      PROVE  Begun(k)'
  <2> SUFFICES ASSUME backup[k].at # "idle"
               PROVE  ~Doomed(k, backup[k].id)'
    BY <1>3 DEF BackupsInv, Begun
  <2> DEFINE id == backup[k].id
  <2>1. id \in Ids /\ \A j \in Ids : j > id => contents[k][j] = {}
    BY DEF BackupsInv, Begun
  <2>2. NewerIds(Verified(k), id) = {}
    BY <2>1 DEF NewerIds, Verified, AllFiles
  <2>3. ~(Cardinality(NewerIds(Verified(k), id)) >= KeptOf(k))
    BY <2>2, FS_EmptySet, BackupsAssumption DEF KeptOf
  <2>4. ~Doomed(k, id)'
    BY <1>1, <1>2, <1>3, <2>1, <2>3
  <2> QED BY <1>3, <2>4
<1>6. ASSUME NEW k \in Kinds
      PROVE  Survivors(k)'
  <2> SUFFICES ASSUME NEW i \in Ids, Doomed(k, i)'
               PROVE  i < nextId /\ Cardinality(Spared(k, i)') >= KeptOf(k)
    BY <1>3 DEF Survivors, KeptOf
  <2> DEFINE V == Verified(k)
             K == KeptOf(k)
             Few == {j \in NewerIds(V, i) : Cardinality(NewerIds(V, j)) < K}
  <2>1. i \in V /\ Cardinality(NewerIds(V, i)) >= K
    BY <1>1, <1>2
  <2>2. V \in SUBSET Ids /\ K \in Nat
    BY BackupsAssumption DEF Verified, KeptOf
  <2>3. Cardinality(Few) >= K
    BY <2>1, <2>2, NewestAreSpared
  <2>4. Few \subseteq Spared(k, i)'
    <3>1. ASSUME NEW j \in Few PROVE ~Doomed(k, j)'
      <4>1. Cardinality(NewerIds(V, j)) \in Nat
        BY <2>2, IdsAreFinite DEF NewerIds
      <4>2. j \in Ids
        BY <2>2 DEF NewerIds
      <4> QED BY <1>1, <1>2, <2>2, <4>1, <4>2
    <3>2. V' = V
      BY <1>3 DEF Verified
    <3> QED BY <3>1, <3>2 DEF Spared, NewerIds
  <2>5. Spared(k, i)' \in SUBSET Ids
    BY DEF Spared, NewerIds, Verified
  <2>6. /\ Cardinality(Few) <= Cardinality(Spared(k, i)')
        /\ Cardinality(Few) \in Nat /\ Cardinality(Spared(k, i)') \in Nat
    <3> HIDE DEF Few
    <3>1. Few \in SUBSET Ids
      BY <2>4, <2>5
    <3> QED BY <2>4, <2>5, <3>1, MoreNames, IdsAreFinite
  <2>7. i < nextId
    <3>1. i \in Int /\ nextId \in Int
      BY DEF Ids, BackupsInv, BackupTypes
    <3>2. contents[k][i] # {}
      BY <2>1 DEF Verified, AllFiles
    <3> QED BY <3>1, <3>2 DEF BackupsInv, Unbegun
  <2> HIDE DEF Few
  <2> QED BY <2>2, <2>3, <2>6, <2>7
<1>7. LatestStays'
  BY <1>1, <1>2, <1>3 DEF BackupsInv, LatestStays, Verified, Kinds
<1> QED BY <1>3, <1>4, <1>5, <1>6, <1>7 DEF BackupsInv, Unbegun

\* What one deletion does.
LEMMA DeletionTakes ==
    ASSUME BackupsInv, RetentionDeletes
    PROVE  \E k \in Kinds, i \in Ids, f \in FileKinds :
              /\ Doomed(k, i)
              /\ doomed' = doomed \ {<<k, i, f>>}
              /\ contents' = [contents EXCEPT ![k][i] = @ \ {f}]
              /\ UNCHANGED <<db, nextId, aged, data, latestBackup, backup, restore>>
<1>1. PICK entry \in doomed :
        /\ doomed' = doomed \ {entry}
        /\ contents' = [contents EXCEPT ![entry[1]][entry[2]] = @ \ {entry[3]}]
  BY DEF RetentionDeletes
<1>2. PICK k \in Kinds, i \in Ids, f \in FileKinds : entry = <<k, i, f>>
  BY DEF BackupsInv, BackupTypes
<1>3. entry[1] = k /\ entry[2] = i /\ entry[3] = f /\ Doomed(k, i)
  BY <1>2 DEF Doomed
<1> QED BY <1>1, <1>2, <1>3 DEF RetentionDeletes

LEMMA DeletesKeeps ==
    ASSUME BackupsInv, RetentionDeletes
    PROVE  BackupsInv'
<1>1. PICK k \in Kinds, i \in Ids, f \in FileKinds :
        /\ Doomed(k, i)
        /\ doomed' = doomed \ {<<k, i, f>>}
        /\ contents' = [contents EXCEPT ![k][i] = @ \ {f}]
        /\ UNCHANGED <<db, nextId, aged, data, latestBackup, backup, restore>>
  BY DeletionTakes
<1>2. /\ contents' \in [Kinds -> [Ids -> SUBSET FileKinds]]
      /\ \A l \in Kinds \ {k} : contents'[l] = contents[l]
      /\ \A j \in Ids \ {i} : contents'[k][j] = contents[k][j]
      /\ contents'[k][i] = contents[k][i] \ {f}
  BY <1>1 DEF BackupsInv, BackupTypes
<1>3. BackupTypes'
  BY <1>1, <1>2 DEF BackupsInv, BackupTypes
<1>4. \A l \in Kinds, j \in Ids : Doomed(l, j)' => Doomed(l, j)
  BY <1>1 DEF Doomed
<1>5. ASSUME NEW l \in Kinds, NEW j \in Ids, ~Doomed(l, j)
      PROVE  contents'[l][j] = contents[l][j]
  BY <1>1, <1>2, <1>5
<1>6. ASSUME NEW l \in Kinds
      PROVE  Begun(l)' /\ Survivors(l)'
  <2>1. Survivors(l)'
    <3>1. \A j \in Verified(l) : Doomed(l, j) \/ j \in Verified(l)'
      BY <1>5 DEF Verified
    <3> QED BY <1>1, <3>1, SurvivorsStay DEF BackupsInv, BackupTypes
  <2>2. Begun(l)'
    <3>1. \A j \in Ids : contents[l][j] = {} => contents'[l][j] = {}
      BY <1>2
    <3> QED BY <1>1, <1>4, <1>5, <3>1 DEF BackupsInv, Begun
  <2> QED BY <2>1, <2>2
<1>7. Unbegun'
  <2>1. \A l \in Kinds, j \in Ids : contents[l][j] = {} => contents'[l][j] = {}
    BY <1>2
  <2> QED BY <1>1, <2>1 DEF BackupsInv, Unbegun
<1>8. LatestStays'
  <2>1. "local" \in Kinds
    BY DEF Kinds
  <2>2. latestBackup["local"] # 0 => latestBackup["local"] \in Ids
    BY DEF BackupsInv, LatestStays, Verified
  <2> QED BY <1>1, <1>4, <1>5, <2>1, <2>2 DEF BackupsInv, LatestStays, Verified
<1> QED BY <1>3, <1>6, <1>7, <1>8 DEF BackupsInv

LEMMA PlanEndsKeeps ==
    ASSUME BackupsInv, RetentionEnds
    PROVE  BackupsInv'
<1>1. doomed' = {}
      /\ UNCHANGED <<db, nextId, aged, contents, data, latestBackup, backup, restore>>
  BY DEF RetentionEnds
<1> QED BY <1>1 DEF BackupsInv, BackupTypes, Unbegun, Begun, Survivors,
                    LatestStays, Doomed, Verified

LEMMA AsideSteps ==
    ASSUME BackupsInv,
           \/ OperatorStops \/ OperatorStarts \/ Checkpoints \/ TimePasses
           \/ \E k \in Kinds : BackupEnds(k)
           \/ RestoreStages \/ RestoreUnlinksLog \/ RestoreReplaces \/ RestoreEnds
           \/ UNCHANGED backupsVars
    PROVE  BackupsInv'
<1> USE DEF BackupTypes, AgentStates, Stopped
<1>1. BackupTypes
  BY DEF BackupsInv
<1>2. CASE OperatorStops \/ OperatorStarts \/ Checkpoints
  <2>1. /\ db' \in [main : AgentStates, wal : Seq(AgentStates)] /\ Len(db'.wal) <= 1
        /\ UNCHANGED <<nextId, aged, contents, data, latestBackup, backup, restore,
                       doomed>>
    <3>1. ASSUME NEW state \in AgentStates, Commits(state)
          PROVE  /\ db' \in [main : AgentStates, wal : Seq(AgentStates)]
                 /\ db'.wal = <<state>>
                 /\ UNCHANGED <<nextId, aged, contents, data, latestBackup, backup,
                                restore, doomed>>
      <4> HIDE DEF AgentStates
      <4>1. <<state>> \in Seq(AgentStates)
        OBVIOUS
      <4> QED BY <1>1, <3>1, <4>1 DEF Commits
    <3>2. CASE Checkpoints
      <4> HIDE DEF AgentStates
      <4>1. /\ db.wal # << >> /\ db' = [main |-> Head(db.wal), wal |-> << >>]
            /\ db.wal \in Seq(AgentStates)
            /\ UNCHANGED <<nextId, aged, contents, data, latestBackup, backup,
                           restore, doomed>>
        BY <1>1, <3>2 DEF Checkpoints
      <4>2. Head(db.wal) \in AgentStates /\ << >> \in Seq(AgentStates) /\ Len(<< >>) = 0
        BY <4>1
      <4>3. db'.wal = << >>
        BY <4>1
      <4> QED BY <4>1, <4>2, <4>3
    <3>3. ASSUME NEW state \in AgentStates, Commits(state)
          PROVE  Len(db'.wal) <= 1
      <4>1. db'.wal = <<state>>
        BY <3>1, <3>3
      <4>2. Len(<<state>>) = 1
        OBVIOUS
      <4> QED BY <4>1, <4>2
    <3> QED BY <1>2, <3>1, <3>2, <3>3 DEF OperatorStops, OperatorStarts
  <2> QED BY <1>1, <2>1, AsideKeeps
<1>3. CASE TimePasses
  BY <1>1, <1>3, AsideKeeps, BackupsAssumption DEF TimePasses
<1>4. CASE \E k \in Kinds : BackupEnds(k)
  <2>1. PICK k \in Kinds : BackupEnds(k)
    BY <1>4
  <2>2. /\ backup' \in [Kinds ->
                    [at : {"idle", "staged", "copying", "archived", "manifested"},
                     id : 0 .. MaxId]]
        /\ \A l \in Kinds : backup'[l] = backup[l] \/ backup'[l].at = "idle"
    BY <1>1, <2>1, BackupsAssumption DEF BackupEnds, NoBackup
  <2> QED BY <1>1, <2>1, <2>2, AsideKeeps DEF BackupEnds
<1>5. CASE RestoreStages \/ RestoreUnlinksLog \/ RestoreReplaces \/ RestoreEnds
  <2>1. /\ db' \in [main : AgentStates, wal : Seq(AgentStates)] /\ Len(db'.wal) <= 1
        /\ restore' \in [at : {"idle", "staged", "unlinked"}, state : AgentStates]
        /\ UNCHANGED <<nextId, aged, contents, data, latestBackup, backup, doomed>>
    <3>1. CASE RestoreStages \/ RestoreEnds
      BY <1>1, <3>1 DEF RestoreStages, RestoreEnds, ForceStopped, NoRestore
    <3>2. CASE RestoreUnlinksLog
      <4>1. << >> \in Seq(AgentStates) /\ Len(<< >>) = 0
        OBVIOUS
      <4>2. db' = [db EXCEPT !.wal = << >>]
        BY <3>2 DEF RestoreUnlinksLog
      <4>3. db' \in [main : AgentStates, wal : Seq(AgentStates)] /\ db'.wal = << >>
        <5> HIDE DEF AgentStates
        <5> QED BY <1>1, <4>1, <4>2
      <4> QED BY <1>1, <3>2, <4>1, <4>3 DEF RestoreUnlinksLog
    <3>3. CASE RestoreReplaces
      <4> HIDE DEF AgentStates
      <4>1. /\ db' = [db EXCEPT !.main = restore.state]
            /\ restore.state \in AgentStates
        BY <1>1, <3>3 DEF RestoreReplaces
      <4>2. db' \in [main : AgentStates, wal : Seq(AgentStates)] /\ db'.wal = db.wal
        BY <1>1, <4>1
      <4>3. NoRestore \in [at : {"idle", "staged", "unlinked"}, state : AgentStates]
        BY DEF NoRestore, Stopped, AgentStates
      <4> QED BY <1>1, <3>3, <4>2, <4>3 DEF RestoreReplaces
    <3> QED BY <1>5, <3>1, <3>2, <3>3
  <2> QED BY <1>1, <2>1, AsideKeeps
<1>6. CASE UNCHANGED backupsVars
  BY <1>1, <1>6, AsideKeeps DEF backupsVars
<1> QED BY <1>2, <1>3, <1>4, <1>5, <1>6

LEMMA BackupsInvHolds == BackupsSpec => []BackupsInv
<1>1. BackupsInit => BackupsInv
  <2> SUFFICES ASSUME BackupsInit PROVE BackupsInv
    OBVIOUS
  <2>1. BackupTypes
    BY BackupsAssumption DEF BackupsInit, BackupTypes, AgentStates, Stopped, NoBackup,
       NoRestore, Kinds, Ids
  <2> QED BY <2>1 DEF BackupsInit, BackupsInv, Unbegun, Begun, Survivors,
       LatestStays, Doomed, NoBackup, Kinds
<1>2. BackupsInv /\ [BackupsNext]_backupsVars => BackupsInv'
  BY AsideSteps, BeginsKeeps, GoesOnKeeps, PublishesKeeps, PlansKeeps,
     DeletesKeeps, PlanEndsKeeps
     DEF BackupsNext
<1> QED BY <1>1, <1>2, PTL DEF BackupsSpec

\* Only a deletion of retention can spoil a backup, and it takes one of the plan.
LEMMA SpoiledIsDoomed ==
    ASSUME BackupsInv, BackupsInv', [BackupsNext]_backupsVars, NEW k \in Kinds,
           NEW i \in Verified(k), i \notin Verified(k)'
    PROVE  /\ Doomed(k, i)
           /\ Spared(k, i) \subseteq NewerIds(Verified(k)', i)
<1>1. CASE RetentionDeletes
  <2>1. PICK l \in Kinds, n \in Ids, f \in FileKinds :
          /\ Doomed(l, n)
          /\ contents' = [contents EXCEPT ![l][n] = @ \ {f}]
    BY <1>1, DeletionTakes
  <2>2. \A m \in Kinds, j \in Ids : Doomed(m, j) \/ contents'[m][j] = contents[m][j]
    BY <2>1 DEF BackupsInv, BackupTypes
  <2> QED BY <2>2 DEF Verified, Spared, NewerIds
<1>2. CASE ~RetentionDeletes
  <2>1. CASE contents' = contents
    BY <2>1 DEF Verified
  <2>2. CASE \E l \in Kinds, id \in Ids, new \in SUBSET FileKinds :
                /\ contents[l][id] # AllFiles(l)
                /\ contents' = [contents EXCEPT ![l][id] = new]
    BY <2>2 DEF Verified, BackupsInv, BackupTypes
  <2>3. \/ LocalStages \/ LocalArchives \/ TournamentArchives \/ TournamentCopies
        \/ \E l \in Kinds : CompletesBackup(l)
        \/ contents' = contents
    <3>1. CASE OperatorStops \/ OperatorStarts \/ Checkpoints \/ TimePasses
      BY <3>1 DEF OperatorStops, OperatorStarts, Commits, Checkpoints, TimePasses
    <3>2. CASE \E l \in Kinds : Publishes(l) \/ BackupEnds(l)
      BY <3>2 DEF Publishes, BackupEnds
    <3>3. CASE RetentionPlans \/ RetentionEnds
      BY <3>3 DEF RetentionPlans, RetentionEnds
    <3>4. CASE \/ RestoreStages \/ RestoreUnlinksLog \/ RestoreReplaces
               \/ RestoreEnds
      BY <3>4 DEF RestoreStages, RestoreUnlinksLog, RestoreReplaces, RestoreEnds
    <3>5. CASE UNCHANGED backupsVars
      BY <3>5 DEF backupsVars
    <3> QED BY <1>2, <3>1, <3>2, <3>3, <3>4, <3>5 DEF BackupsNext
  <2>4. CASE LocalStages \/ TournamentArchives
    <3>1. PICK l \in Kinds, new \in SUBSET FileKinds :
            nextId <= MaxId /\ contents' = [contents EXCEPT ![l][nextId] = new]
      BY <2>4 DEF LocalStages, TournamentArchives, Kinds, FileKinds
    <3>2. nextId \in Ids /\ nextId >= nextId
      BY <3>1, BackupsAssumption DEF BackupsInv, BackupTypes, Ids
    <3>3. contents[l][nextId] # AllFiles(l)
      BY <3>2 DEF BackupsInv, Unbegun, AllFiles
    <3> QED BY <2>2, <3>1, <3>2, <3>3
  <2>5. CASE \/ LocalArchives \/ TournamentCopies
             \/ \E l \in Kinds : CompletesBackup(l)
    <3>1. PICK l \in Kinds, new \in SUBSET FileKinds :
            /\ backup[l].at \in {"staged", "copying", "archived"}
            /\ contents' = [contents EXCEPT ![l][backup[l].id] = new]
      <4>1. CASE LocalArchives
        BY <4>1 DEF LocalArchives, Kinds, FileKinds
      <4>2. ASSUME NEW l \in Kinds, NEW file \in FileKinds, NEW at,
                   backup[l].at \in {"copying", "archived"}, Adds(l, file, at)
            PROVE  \E new \in SUBSET FileKinds :
                      contents' = [contents EXCEPT ![l][backup[l].id] = new]
        <5>1. backup[l].id \in Ids
          BY <4>2 DEF BackupsInv, Begun
        <5> DEFINE new == contents[l][backup[l].id] \cup {file}
        <5>2. new \in SUBSET FileKinds
          BY <5>1 DEF BackupsInv, BackupTypes
        <5>3. contents' = [contents EXCEPT ![l][backup[l].id] = new]
          BY <4>2 DEF Adds, BackupsInv, BackupTypes
        <5> QED BY <5>2, <5>3
      <4>3. CASE TournamentCopies
        <5>1. /\ backup["tournament"].at = "copying"
              /\ Adds("tournament", "auxiliary", "archived")
              /\ "tournament" \in Kinds /\ "auxiliary" \in FileKinds
          BY <4>3 DEF TournamentCopies, Kinds, FileKinds
        <5> QED BY <4>2, <5>1
      <4>4. ASSUME NEW l \in Kinds, CompletesBackup(l)
            PROVE  /\ backup[l].at = "archived"
                   /\ \E new \in SUBSET FileKinds :
                        contents' = [contents EXCEPT ![l][backup[l].id] = new]
        <5>1. "manifest" \in FileKinds
          BY DEF FileKinds
        <5> QED BY <4>2, <4>4, <5>1 DEF CompletesBackup
      <4> QED BY <2>5, <4>1, <4>3, <4>4
    <3>2. backup[l].id \in Ids /\ contents[l][backup[l].id] # AllFiles(l)
      <4>1. ASSUME NEW m \in Kinds, NEW at \in {"staged", "copying", "archived"}
            PROVE  Given(m, at) # AllFiles(m)
        BY DEF Given, AllFiles
      <4>2. /\ backup[l].id \in Ids
            /\ contents[l][backup[l].id] = Given(l, backup[l].at)
        BY <3>1 DEF BackupsInv, Begun
      <4> QED BY <3>1, <4>1, <4>2
    <3> QED BY <2>2, <3>1, <3>2
  <2> QED BY <2>1, <2>3, <2>4, <2>5
<1> QED BY <1>1, <1>2

\* A crash, a retention or both leave a backup that can be restored, whatever
\* number of backups retention keeps.
THEOREM BackupsStayWhole == BackupsSpec => BackupsHold
<1>1. ASSUME BackupsInv, BackupsInv', [BackupsNext]_backupsVars
      PROVE  [BackupStep]_backupsVars
  <2>1. ASSUME NEW k \in Kinds, NEW i \in Verified(k), i \notin Verified(k)'
        PROVE  Cardinality(NewerIds(Verified(k)', i)) >= KeptOf(k)
    <3>1. Doomed(k, i) /\ Spared(k, i) \subseteq NewerIds(Verified(k)', i)
      BY <1>1, <2>1, SpoiledIsDoomed
    <3>2. i \in Ids
      BY DEF Verified
    <3>3. Cardinality(Spared(k, i)) >= KeptOf(k)
      BY <1>1, <3>1, <3>2 DEF BackupsInv, Survivors
    <3>4. NewerIds(Verified(k)', i) \in SUBSET Ids
      BY DEF NewerIds, Verified
    <3>5. Cardinality(Spared(k, i)) <= Cardinality(NewerIds(Verified(k)', i))
      BY <3>1, <3>4, MoreNames
    <3>6. /\ Cardinality(Spared(k, i)) \in Nat
          /\ Cardinality(NewerIds(Verified(k)', i)) \in Nat
          /\ KeptOf(k) \in Nat
      BY <3>1, <3>4, IdsAreFinite, BackupsAssumption DEF KeptOf
    <3> QED BY <3>3, <3>5, <3>6
  <2>2. NewestSurvive
    <3>1. /\ VerifiedLocal = Verified("local")
          /\ VerifiedLocal' = Verified("local")'
          /\ KeptOf("local") = KeptLocal
          /\ KeptOf("tournament") = KeptTournament
          /\ Kinds = {"local", "tournament"}
      BY DEF VerifiedLocal, Verified, KeptOf, Kinds
    <3>2. \A i \in VerifiedLocal \ VerifiedLocal' :
            Cardinality(NewerIds(VerifiedLocal', i)) >= KeptLocal
      BY <2>1, <3>1
    <3>3. ASSUME NEW i \in {j \in Ids :
                    /\ contents["tournament"][j] = AllFiles("tournament")
                    /\ contents'["tournament"][j] # AllFiles("tournament")}
          PROVE  Cardinality({j \in Ids : j > i /\
             contents'["tournament"][j] = AllFiles("tournament")}) >= KeptTournament
      <4>1. i \in Verified("tournament") /\ i \notin Verified("tournament")'
        BY DEF Verified
      <4>2. NewerIds(Verified("tournament")', i) = {j \in Ids : j > i /\
                contents'["tournament"][j] = AllFiles("tournament")}
        BY DEF NewerIds, Verified
      <4> QED BY <2>1, <3>1, <4>1, <4>2
    <3> QED BY <3>2, <3>3 DEF NewestSurvive
  <2>3. BackupsTypeOK'
    BY <1>1 DEF BackupsInv, BackupTypes, BackupsTypeOK
  <2>4. LatestIsRestorable'
    BY <1>1 DEF BackupsInv, LatestStays, LatestIsRestorable, Verified
  <2> QED BY <2>2, <2>3, <2>4 DEF BackupStep
<1> QED BY <1>1, BackupsInvHolds, PTL DEF BackupsSpec, BackupsHold

-----------------------------------------------------------------------------
(* LogRetention: what a transaction of rotation removes has ended, is old and  *)
(* is not referred to when it is removed.                                      *)

LogsInv == LogsTypeOK /\ RunsOutliveSteps

\* The rows a transaction of rotation removes or empties, and nothing else.
Clears(removed, as) ==
    \A r \in Rows : row'[r] = IF r \in removed THEN as ELSE row[r]

\* Each transaction takes rows of its own kind; only the last takes the run, and
\* only when its step is gone.
LEMMA RotationTakes ==
    ASSUME LogsInv,
           \/ RotatesLedgers \/ PrunesMarks \/ ExpiresOutputs \/ RemovesSteps
           \/ RemovesRuns
    PROVE  \E removed \in SUBSET old, as \in {"gone", "expired"} :
              /\ Clears(removed, as)
              /\ \A r \in removed : r \in refs => r = "run"
              /\ removed \subseteq {"call", "mark", "job", "step", "run"}
              /\ \A r \in removed : r = "mark" \/ row[r] = "done"
              /\ "run" \in removed => ~Kept("step")
<1> USE DEF Rotates, Clears, Expires, Ended, Rows
<1>1. CASE RotatesLedgers
  <2> DEFINE removed == {r \in {"call"} \ refs : Expires(r)}
  <2>1. /\ removed \in SUBSET old
        /\ Clears(removed, "gone")
        /\ \A r \in removed : r \in refs => r = "run"
        /\ removed \subseteq {"call", "mark", "job", "step", "run"}
        /\ \A r \in removed : r = "mark" \/ row[r] = "done"
        /\ "run" \in removed => ~Kept("step")
    BY <1>1 DEF RotatesLedgers
  <2> HIDE DEF removed
  <2> QED BY <2>1
<1>2. CASE PrunesMarks
  <2> DEFINE removed == {r \in old : IsMark(r)}
  <2>1. "mark" \notin refs
    BY DEF LogsInv, LogsTypeOK, Evidence
  <2>2. /\ removed \in SUBSET old
        /\ Clears(removed, "gone")
        /\ \A r \in removed : r \in refs => r = "run"
        /\ removed \subseteq {"call", "mark", "job", "step", "run"}
        /\ \A r \in removed : r = "mark" \/ row[r] = "done"
        /\ "run" \in removed => ~Kept("step")
    BY <1>2, <2>1 DEF PrunesMarks, IsMark
  <2> HIDE DEF removed
  <2> QED BY <2>2
<1>3. CASE ExpiresOutputs
  <2> DEFINE removed == {r \in {"job"} \ Pinned : Expires(r)}
  <2>1. /\ removed \in SUBSET old
        /\ Clears(removed, "expired")
        /\ \A r \in removed : r \in refs => r = "run"
        /\ removed \subseteq {"call", "mark", "job", "step", "run"}
        /\ \A r \in removed : r = "mark" \/ row[r] = "done"
        /\ "run" \in removed => ~Kept("step")
    BY <1>3 DEF ExpiresOutputs, Pinned
  <2> HIDE DEF removed
  <2> QED BY <2>1
<1>4. CASE RemovesSteps
  <2> DEFINE removed == {r \in {"step"} \ Pinned : Expires(r)}
  <2>1. /\ removed \in SUBSET old
        /\ Clears(removed, "gone")
        /\ \A r \in removed : r \in refs => r = "run"
        /\ removed \subseteq {"call", "mark", "job", "step", "run"}
        /\ \A r \in removed : r = "mark" \/ row[r] = "done"
        /\ "run" \in removed => ~Kept("step")
    BY <1>4 DEF RemovesSteps, Pinned
  <2> HIDE DEF removed
  <2> QED BY <2>1
<1>5. CASE RemovesRuns
  <2> DEFINE removed == {r \in EmptyRuns \ seen : Expires(r)}
  <2>1. /\ removed \in SUBSET old
        /\ Clears(removed, "gone")
        /\ \A r \in removed : r \in refs => r = "run"
        /\ removed \subseteq {"call", "mark", "job", "step", "run"}
        /\ \A r \in removed : r = "mark" \/ row[r] = "done"
        /\ "run" \in removed => ~Kept("step")
    BY <1>5 DEF RemovesRuns, EmptyRuns
  <2> HIDE DEF removed
  <2> QED BY <2>1
<1> QED BY <1>1, <1>2, <1>3, <1>4, <1>5

\* What every step does to the rows.
LogsStepOK ==
    /\ EvidenceSurvives
    /\ UncertaintyStays
    /\ row' \in [Rows -> {"open", "done", "unknown", "expired", "gone"}]
    /\ RunsOutliveSteps'

LEMMA RotationKeeps ==
    ASSUME LogsInv, NEW removed \in SUBSET old, NEW as \in {"gone", "expired"},
           row' = [r \in Rows |-> IF r \in removed THEN as ELSE row[r]],
           \A r \in removed : r \in refs => r = "run",
           removed \subseteq {"call", "mark", "job", "step", "run"},
           \A r \in removed : r = "mark" \/ row[r] = "done",
           "run" \in removed => ~Kept("step")
    PROVE  LogsStepOK
<1> USE DEF LogsInv, LogsTypeOK
<1>1. row' \in [Rows -> {"open", "done", "unknown", "expired", "gone"}]
  OBVIOUS
<1>2. EvidenceSurvives
  BY DEF EvidenceSurvives, Evidence, Rows
<1>3. UncertaintyStays
  BY DEF UncertaintyStays, Work, Rows
<1>4. RunsOutliveSteps'
  BY DEF RunsOutliveSteps, Kept, Rows
<1> QED BY <1>1, <1>2, <1>3, <1>4 DEF LogsStepOK

\* A step of another process: it touches one row, and no phase changes.
LEMMA RowKeeps ==
    ASSUME LogsInv, NEW r \in Rows, phase' = phase,
           NEW to \in {"done", "unknown", "gone"},
           row' = [row EXCEPT ![r] = to],
           to = "gone" => \/ r = "step"
                          \/ r = "job" /\ row[r] \in {"done", "expired"},
           to # "gone" => row[r] = "open",
           row["trade"] # "open" \/ r # "trade"
    PROVE  LogsStepOK
<1> USE DEF LogsInv, LogsTypeOK
<1>1. row' \in [Rows -> {"open", "done", "unknown", "expired", "gone"}]
  OBVIOUS
<1>2. EvidenceSurvives
  BY DEF EvidenceSurvives
<1>3. UncertaintyStays
  BY DEF UncertaintyStays, Work, Rows
<1>4. RunsOutliveSteps'
  BY DEF RunsOutliveSteps, Kept, Rows
<1> QED BY <1>1, <1>2, <1>3, <1>4 DEF LogsStepOK

LEMMA SameRowsKeep ==
    ASSUME LogsInv, row' = row
    PROVE  LogsStepOK
BY DEF LogsStepOK, LogsInv, LogsTypeOK, EvidenceSurvives, UncertaintyStays,
       RunsOutliveSteps, Kept

LEMMA LogsStepHolds ==
    ASSUME LogsInv, [LogsNext]_logsVars
    PROVE  LogsStepOK /\ LogsTypeOK'
<1>1. ASSUME NEW r \in Work, Finishes(r) \/ BecomesUnknown(r)
      PROVE  LogsStepOK /\ LogsTypeOK'
  <2>1. PICK to \in {"done", "unknown"} :
          /\ row[r] = "open" /\ row' = [row EXCEPT ![r] = to]
          /\ UNCHANGED <<old, refs, seen, phase>>
    BY <1>1 DEF Finishes, BecomesUnknown
  <2>2. r \in Rows /\ r # "trade"
    BY DEF Work, Rows
  <2>3. LogsStepOK
    BY <2>1, <2>2, RowKeeps
  <2> QED BY <2>1, <2>3 DEF LogsStepOK, LogsInv, LogsTypeOK
<1>2. ASSUME NEW r \in Rows, Ages(r)
      PROVE  LogsStepOK /\ LogsTypeOK'
  BY <1>2, SameRowsKeep DEF Ages, LogsInv, LogsTypeOK
<1>3. ASSUME NEW r \in Evidence, Cites(r) \/ Forgets(r)
      PROVE  LogsStepOK /\ LogsTypeOK'
  BY <1>3, SameRowsKeep DEF Cites, Forgets, LogsInv, LogsTypeOK
<1>4. CASE \/ RotatesLedgers \/ PrunesMarks \/ ExpiresOutputs \/ RemovesSteps
           \/ RemovesRuns
  <2>1. PICK removed \in SUBSET old, as \in {"gone", "expired"} :
          /\ Clears(removed, as)
          /\ \A r \in removed : r \in refs => r = "run"
          /\ removed \subseteq {"call", "mark", "job", "step", "run"}
          /\ \A r \in removed : r = "mark" \/ row[r] = "done"
          /\ "run" \in removed => ~Kept("step")
    BY <1>4, RotationTakes
  <2>2. /\ row' = [r \in Rows |-> row'[r]]
        /\ UNCHANGED <<old, refs>>
        /\ seen' \in {seen, refs, {}}
        /\ phase' \in {"idle", "marks", "outputs", "steps", "runs"}
    BY <1>4 DEF RotatesLedgers, PrunesMarks, ExpiresOutputs, RemovesSteps,
                RemovesRuns, Rotates
  <2>3. row' = [r \in Rows |-> IF r \in removed THEN as ELSE row[r]]
    BY <2>1, <2>2 DEF Clears
  <2>4. LogsStepOK
    BY <2>1, <2>3, RotationKeeps
  <2> QED BY <2>2, <2>4 DEF LogsStepOK, LogsInv, LogsTypeOK
<1>5. CASE RotationEnds
  BY <1>5, SameRowsKeep DEF RotationEnds, LogsInv, LogsTypeOK
<1>6. CASE PrunesTranscript \/ PrunesJobs
  <2>1. PICK r \in {"step", "job"} :
          /\ r = "job" => row[r] \in {"done", "expired"}
          /\ row' = [row EXCEPT ![r] = "gone"]
          /\ UNCHANGED <<old, refs, seen, phase>>
    BY <1>6 DEF PrunesTranscript, PrunesJobs
  <2>2. LogsStepOK
    BY <2>1, RowKeeps DEF Rows
  <2> QED BY <2>1, <2>2 DEF LogsStepOK, LogsInv, LogsTypeOK
<1>7. CASE UNCHANGED logsVars
  BY <1>7, SameRowsKeep DEF logsVars, LogsInv, LogsTypeOK
<1> QED BY <1>1, <1>2, <1>3, <1>4, <1>5, <1>6, <1>7 DEF LogsNext

LEMMA LogsInvHolds == LogsSpec => []LogsInv
<1>1. LogsInit => LogsInv
  BY DEF LogsInit, LogsInv, LogsTypeOK, RunsOutliveSteps, Kept, Rows, Work
<1>2. LogsInv /\ [LogsNext]_logsVars => LogsInv'
  BY LogsStepHolds DEF LogsInv, LogsStepOK
<1> QED BY <1>1, <1>2, PTL DEF LogsSpec

\* Rotation takes neither what is referred to, nor what is uncertain, nor the
\* run of a step that stays, however many references are held.
THEOREM EvidenceStaysKept == LogsSpec => EvidenceIsKept
<1>1. ASSUME LogsInv, [LogsNext]_logsVars
      PROVE  [EvidenceStep]_logsVars
  BY <1>1, LogsStepHolds DEF EvidenceStep, LogsStepOK
<1> QED BY <1>1, LogsInvHolds, PTL DEF LogsSpec, EvidenceIsKept

-----------------------------------------------------------------------------
(* Quotes: the feed that replaces the quote still holds the lock it took when  *)
(* it read the quote it compares with.                                         *)

Frames == [received : 0 .. MaxSecond, observed : 0 .. MaxSecond]

QuotesInv ==
    /\ QuotesTypeOK
    /\ quote \in Frames
    /\ feed \in [Feeds -> [at : {"idle", "decoded", "locked", "recorded"},
                           frame : Frames, seen : Frames]]
    /\ \A p \in Feeds :
        /\ feed[p].at \in {"locked", "recorded"} =>
                statusLock = p /\ feed[p].seen = quote
        /\ feed[p].at = "recorded" => Newer(feed[p].frame, feed[p].seen)

\* A feed that gives up the lock leaves the others as they were.
LEMMA ReleaseKeeps ==
    ASSUME QuotesInv, NEW p \in Feeds, Releases(p), UNCHANGED <<clock, quoteHistory>>,
           \/ UNCHANGED quote
           \/ feed[p].at = "recorded" /\ quote' = feed[p].frame
    PROVE  QuotesInv'
<1>1. /\ Listening \in [at : {"idle", "decoded", "locked", "recorded"},
                        frame : Frames, seen : Frames]
      /\ Listening.at = "idle"
  BY QuotesAssumption DEF Listening, NoQuote, Frames
<1>2. /\ quote' \in Frames
      /\ statusLock' \in Feeds \cup {"free"}
      /\ feed' \in [Feeds -> [at : {"idle", "decoded", "locked", "recorded"},
                              frame : Frames, seen : Frames]]
  BY <1>1 DEF QuotesInv, QuotesTypeOK, Releases
<1>3. QuotesTypeOK'
  BY <1>2 DEF QuotesInv, QuotesTypeOK, Frames
<1>4. ASSUME NEW q \in Feeds, feed'[q].at \in {"locked", "recorded"}
      PROVE  q # p /\ feed'[q] = feed[q]
  BY <1>1, <1>4 DEF QuotesInv, Releases
<1>5. ASSUME NEW q \in Feeds, feed'[q].at \in {"locked", "recorded"}
      PROVE  statusLock' = q /\ feed'[q].seen = quote'
  BY <1>4, <1>5, QuotesAssumption DEF QuotesInv, Releases
<1>6. ASSUME NEW q \in Feeds, feed'[q].at = "recorded"
      PROVE  Newer(feed'[q].frame, feed'[q].seen)
  BY <1>4, <1>6 DEF QuotesInv
<1> QED BY <1>2, <1>3, <1>5, <1>6 DEF QuotesInv, Newer

LEMMA DecodesKeeps ==
    ASSUME QuotesInv, NEW p \in Feeds, Decodes(p)
    PROVE  QuotesInv'
<1>1. PICK observed \in 0 .. clock :
        feed' = [feed EXCEPT ![p] = [Listening EXCEPT !.at = "decoded",
                        !.frame = [received |-> clock, observed |-> observed]]]
  BY DEF Decodes
<1> DEFINE new == [at |-> "decoded",
                    frame |-> [received |-> clock, observed |-> observed],
                    seen |-> NoQuote]
<1>2. feed' = [feed EXCEPT ![p] = new]
  <2> DEFINE opened == [Listening EXCEPT !.at = "decoded"]
             arrived == [received |-> clock, observed |-> observed]
  <2>1. opened = [at |-> "decoded", frame |-> NoQuote, seen |-> NoQuote]
    BY DEF Listening
  <2>2. feed' = [feed EXCEPT ![p] = [opened EXCEPT !.frame = arrived]]
    BY <1>1
  <2>3. new = [at |-> "decoded", frame |-> arrived, seen |-> NoQuote]
    OBVIOUS
  <2> HIDE DEF opened, arrived, new
  <2>4. [opened EXCEPT !.frame = arrived] = new
    BY <2>1, <2>3
  <2> QED BY <2>2, <2>4
<1>3. new \in [at : {"idle", "decoded", "locked", "recorded"},
              frame : Frames, seen : Frames]
  BY QuotesAssumption DEF QuotesInv, QuotesTypeOK, NoQuote, Frames, Seconds
<1>4. /\ feed' \in [Feeds -> [at : {"idle", "decoded", "locked", "recorded"},
                              frame : Frames, seen : Frames]]
      /\ feed'[p].at = "decoded"
      /\ \A q \in Feeds \ {p} : feed'[q] = feed[q]
  BY <1>2, <1>3 DEF QuotesInv
<1> QED BY <1>4 DEF QuotesInv, QuotesTypeOK, Decodes, Newer

LEMMA LocksKeeps ==
    ASSUME QuotesInv, NEW p \in Feeds, LocksStatus(p)
    PROVE  QuotesInv'
<1>1. /\ feed' \in [Feeds -> [at : {"idle", "decoded", "locked", "recorded"},
                              frame : Frames, seen : Frames]]
      /\ feed'[p].at = "locked" /\ feed'[p].seen = quote
      /\ \A q \in Feeds \ {p} : feed'[q] = feed[q]
      /\ statusLock = "free" /\ statusLock' = p
      /\ UNCHANGED <<clock, quote, quoteHistory>>
  <2> DEFINE locking == [feed EXCEPT ![p].at = "locked"]
  <2>1. /\ locking \in [Feeds -> [at : {"idle", "decoded", "locked", "recorded"},
                                frame : Frames, seen : Frames]]
        /\ locking[p].at = "locked"
        /\ \A q \in Feeds \ {p} : locking[q] = feed[q]
    BY DEF QuotesInv
  <2>2. /\ feed' = [locking EXCEPT ![p].seen = quote]
        /\ statusLock = "free" /\ statusLock' = p
        /\ UNCHANGED <<clock, quote, quoteHistory>>
    BY DEF LocksStatus, MayLock
  <2>3. quote \in Frames
    BY DEF QuotesInv
  <2> HIDE DEF locking
  <2> QED BY <2>1, <2>2, <2>3
<1>2. ASSUME NEW q \in Feeds \ {p}
      PROVE  feed'[q].at \notin {"locked", "recorded"}
  BY <1>1, QuotesAssumption DEF QuotesInv
<1> QED BY <1>1, <1>2 DEF QuotesInv, QuotesTypeOK, Newer

LEMMA RecordsKeeps ==
    ASSUME QuotesInv, NEW p \in Feeds, RecordsHistory(p)
    PROVE  QuotesInv'
<1>1. /\ feed' \in [Feeds -> [at : {"idle", "decoded", "locked", "recorded"},
                              frame : Frames, seen : Frames]]
      /\ feed'[p].frame = feed[p].frame /\ feed'[p].seen = feed[p].seen
      /\ \A q \in Feeds \ {p} : feed'[q] = feed[q]
      /\ feed[p].at = "locked"
      /\ Newer(feed[p].frame, feed[p].seen)
      /\ UNCHANGED <<clock, quote, statusLock>>
  BY DEF QuotesInv, RecordsHistory
<1>2. quoteHistory' \in [Seconds -> {NoRow} \cup 0 .. MaxSecond]
  <2>1. feed[p].frame.observed \in 0 .. MaxSecond
    BY DEF QuotesInv, Frames
  <2>2. quoteHistory \in [Seconds -> {NoRow} \cup 0 .. MaxSecond]
    BY DEF QuotesInv, QuotesTypeOK
  <2> QED BY <2>1, <2>2 DEF RecordsHistory
<1> QED BY <1>1, <1>2 DEF QuotesInv, QuotesTypeOK, Newer

LEMMA QuotesInvHolds == QuotesSpec => []QuotesInv
<1>1. QuotesInit => QuotesInv
  BY QuotesAssumption
     DEF QuotesInit, QuotesInv, QuotesTypeOK, Frames, NoQuote, Listening, Seconds,
         NoRow
<1>2. QuotesInv /\ [QuotesNext]_quotesVars => QuotesInv'
  <2> SUFFICES ASSUME QuotesInv, [QuotesNext]_quotesVars
               PROVE  QuotesInv'
    OBVIOUS
  <2>1. CASE ClockTurns
    BY <2>1, QuotesAssumption
       DEF ClockTurns, QuotesInv, QuotesTypeOK, Seconds, Newer
  <2>2. ASSUME NEW p \in Feeds,
               \/ Decodes(p) \/ LocksStatus(p) \/ Refuses(p)
               \/ RecordsHistory(p) \/ ReplacesQuote(p) \/ QuoteFails(p)
        PROVE  QuotesInv'
    BY <2>2, ReleaseKeeps, DecodesKeeps, LocksKeeps, RecordsKeeps
       DEF Refuses, ReplacesQuote, QuoteFails
  <2>3. CASE UNCHANGED quotesVars
    BY <2>3 DEF quotesVars, QuotesInv, QuotesTypeOK, Newer
  <2> QED BY <2>1, <2>2, <2>3 DEF QuotesNext
<1> QED BY <1>1, <1>2, PTL DEF QuotesSpec

\* The quote never goes back, whichever feed wrote it and in whatever order the
\* frames came, for any number of feeds.
THEOREM QuotesStayOrdered == QuotesSpec => QuotesAdvance
<1>1. ASSUME QuotesInv, QuotesInv', [QuotesNext]_quotesVars
      PROVE  [QuoteStep]_quotesVars
  <2>1. QuotesTypeOK'
    BY <1>1 DEF QuotesInv
  <2>2. CASE quote' = quote
    BY <1>1, <2>1, <2>2 DEF QuoteStep, QuotesInv, Frames
  <2>3. CASE \E p \in Feeds : ReplacesQuote(p)
    BY <1>1, <2>1, <2>3 DEF QuoteStep, QuotesInv, ReplacesQuote, Newer
  <2>4. quote' = quote \/ \E p \in Feeds : ReplacesQuote(p)
    BY <1>1 DEF QuotesNext, quotesVars, ClockTurns, Decodes, LocksStatus,
                Refuses, RecordsHistory, QuoteFails
  <2> QED BY <2>2, <2>3, <2>4
<1> QED BY <1>1, QuotesInvHolds, PTL DEF QuotesSpec, QuotesAdvance

-----------------------------------------------------------------------------
(* DailyResearch: an attempt that compares holds the lock, so the champion it  *)
(* read is the one it replaces.                                                *)

Running == {"entered", "ranked", "compared", "promoted", "written", "published"}

ChampionRecords ==
    [run : Attempts \cup {"none"}, digest : {0} \cup Digests,
     score : {0} \cup Scores]

AttemptRecords ==
    [at : Running \cup {"off", "starting", "failed", "success"},
     digest : {0} \cup Digests, best : {0} \cup Scores, seen : ChampionRecords]

\* What one attempt has in hand.
AttemptInv(a) ==
    /\ attempt[a].at \in Running => runLock = a
    /\ attempt[a].at \in Running \ {"entered"} =>
            attempt[a].digest \in Digests /\ attempt[a].best \in Scores
    /\ attempt[a].at = "compared" => attempt[a].seen = champion
    /\ attempt[a].at \in {"written", "published"} => a \in complete

ResearchInv ==
    /\ ResearchTypeOK
    /\ LatestIsWhole
    /\ champion \in ChampionRecords
    /\ attempt \in [Attempts -> AttemptRecords]
    /\ \A a \in Attempts : AttemptInv(a)

\* The attempts that do not move keep what they have in hand, unless the lock
\* or the champion is taken from them.
LEMMA OthersKeep ==
    ASSUME ResearchInv, NEW a \in Attempts, NEW b \in Attempts \ {a},
           attempt'[b] = attempt[b], complete \subseteq complete',
           attempt[a].at \in Running \/ runLock = "free" \/ runLock' = runLock,
           attempt[a].at \in Running \/ champion' = champion
    PROVE  AttemptInv(b)'
<1>1. CASE attempt[b].at \in Running
  <2>1. runLock = b
    BY <1>1 DEF ResearchInv, AttemptInv
  <2>2. attempt[a].at \notin Running /\ runLock # "free"
    BY <2>1, ResearchAssumption DEF ResearchInv, AttemptInv
  <2> QED BY <1>1, <2>1, <2>2 DEF ResearchInv, AttemptInv, Running
<1>2. CASE attempt[b].at \notin Running
  BY <1>2 DEF AttemptInv, Running
<1> QED BY <1>1, <1>2

\* One attempt moves on.
LEMMA MoveKeeps ==
    ASSUME ResearchInv, NEW a \in Attempts, NEW new \in AttemptRecords,
           attempt' = [attempt EXCEPT ![a] = new],
           complete \subseteq complete',
           attempt[a].at \in Running \/ runLock = "free" \/ runLock' = runLock,
           attempt[a].at \in Running \/ champion' = champion,
           ResearchTypeOK', LatestIsWhole', champion' \in ChampionRecords,
           AttemptInv(a)'
    PROVE  ResearchInv'
<1>1. attempt' \in [Attempts -> AttemptRecords]
  BY DEF ResearchInv
<1>2. ASSUME NEW b \in Attempts
      PROVE  AttemptInv(b)'
  <2>1. CASE b = a
    BY <2>1
  <2>2. CASE b # a
    <3>1. b \in Attempts \ {a} /\ attempt'[b] = attempt[b]
      BY <2>2 DEF ResearchInv
    <3> QED BY <3>1, OthersKeep
  <2> QED BY <2>1, <2>2
<1> QED BY <1>1, <1>2 DEF ResearchInv

\* A step that changes no more than how far the attempt is.
LEMMA StageKeeps ==
    ASSUME ResearchInv, NEW a \in Attempts,
           NEW at \in Running \cup {"starting", "failed", "success"},
           AttemptMoves(a, at),
           complete \subseteq complete',
           attempt[a].at \in Running \/ runLock = "free" \/ runLock' = runLock,
           attempt[a].at \in Running \/ champion' = champion,
           ResearchTypeOK', LatestIsWhole', champion' \in ChampionRecords,
           at \in Running => runLock' = a,
           at \in Running \ {"entered"} => attempt[a].at \in Running \ {"entered"},
           at # "compared",
           at \in {"written", "published"} => a \in complete'
    PROVE  ResearchInv'
<1> DEFINE new == [attempt[a] EXCEPT !.at = at]
<1>1. /\ attempt' = [attempt EXCEPT ![a] = new]
      /\ attempt[a] \in AttemptRecords
  BY DEF AttemptMoves, ResearchInv
<1>2. /\ new \in AttemptRecords
      /\ new.at = at /\ new.digest = attempt[a].digest
      /\ new.best = attempt[a].best
  BY <1>1 DEF AttemptRecords
<1>3. attempt'[a] = new
  BY <1>1 DEF ResearchInv
<1> HIDE DEF new
<1>4. AttemptInv(a)'
  BY <1>2, <1>3 DEF ResearchInv, AttemptInv
<1> QED BY <1>1, <1>2, <1>4, MoveKeeps

LEMMA RanksKeeps ==
    ASSUME ResearchInv, NEW a \in Attempts, Ranks(a)
    PROVE  ResearchInv'
<1>1. PICK best \in Scores :
        attempt' = [attempt EXCEPT ![a] = [at |-> "ranked", digest |-> digest,
                                           best |-> best, seen |-> NoChampion]]
  BY DEF Ranks
<1> DEFINE new == [at |-> "ranked", digest |-> digest, best |-> best,
                    seen |-> NoChampion]
<1>2. new \in AttemptRecords
  BY DEF AttemptRecords, ChampionRecords, NoChampion, Running, ResearchInv,
         ResearchTypeOK
<1>3. /\ attempt' = [attempt EXCEPT ![a] = new]
      /\ attempt'[a] = new
      /\ UNCHANGED <<digest, runLock, complete, champion, latest>>
      /\ attempt[a].at = "entered"
  BY <1>1 DEF ResearchInv, Ranks
<1>4. /\ ResearchTypeOK' /\ LatestIsWhole' /\ champion' \in ChampionRecords
      /\ digest \in Digests
  BY <1>3 DEF ResearchInv, ResearchTypeOK, LatestIsWhole
<1>5. AttemptInv(a)'
  BY <1>3, <1>4 DEF AttemptInv, ResearchInv, Running
<1> HIDE DEF new
<1> QED BY <1>2, <1>3, <1>4, <1>5, MoveKeeps

LEMMA ReadsKeeps ==
    ASSUME ResearchInv, NEW a \in Attempts, ReadsChampion(a)
    PROVE  ResearchInv'
<1> DEFINE new == [at |-> "compared", digest |-> attempt[a].digest,
                   best |-> attempt[a].best, seen |-> champion]
<1>1. /\ attempt \in [Attempts -> AttemptRecords]
      /\ attempt[a] \in AttemptRecords
      /\ champion \in ChampionRecords
      /\ attempt[a].at = "ranked"
      /\ UNCHANGED <<digest, runLock, complete, champion, latest>>
  BY DEF ResearchInv, ReadsChampion
<1>2. new \in AttemptRecords
  BY <1>1 DEF AttemptRecords, Running
<1>3. attempt' = [attempt EXCEPT ![a] = new]
  <2> DEFINE comparing == [attempt EXCEPT ![a].at = "compared"]
  <2>1. /\ comparing \in [Attempts -> AttemptRecords]
        /\ comparing[a] = [attempt[a] EXCEPT !.at = "compared"]
        /\ \A b \in Attempts \ {a} : comparing[b] = attempt[b]
    BY <1>1 DEF AttemptRecords, Running
  <2>2. attempt' = [comparing EXCEPT ![a].seen = champion]
    BY DEF ReadsChampion
  <2> HIDE DEF comparing
  <2>3. /\ comparing[a] \in AttemptRecords
        /\ comparing[a].at = "compared"
        /\ comparing[a].digest = attempt[a].digest
        /\ comparing[a].best = attempt[a].best
    BY <2>1, <1>1 DEF AttemptRecords
  <2>4. [comparing[a] EXCEPT !.seen = champion] = new
    BY <2>3 DEF AttemptRecords
  <2> HIDE DEF new
  <2> QED BY <1>1, <2>1, <2>2, <2>4
<1>4. /\ ResearchTypeOK' /\ LatestIsWhole' /\ champion' \in ChampionRecords
      /\ attempt'[a] = new
  BY <1>1, <1>3 DEF ResearchInv, ResearchTypeOK, LatestIsWhole
<1>5. AttemptInv(a)'
  BY <1>1, <1>4 DEF AttemptInv, ResearchInv, Running
<1> HIDE DEF new
<1> QED BY <1>1, <1>2, <1>3, <1>4, <1>5, MoveKeeps

\* Every step of an attempt keeps the invariant.
LEMMA AttemptKeeps ==
    ASSUME ResearchInv, NEW a \in Attempts,
           \/ AttemptStarts(a) \/ Enters(a) \/ Overlaps(a) \/ AttemptFails(a)
           \/ Ranks(a) \/ ReadsChampion(a) \/ Promotes(a) \/ KeepsChampion(a)
           \/ RenamesDirectory(a) \/ WritesLatest(a) \/ Succeeds(a)
    PROVE  ResearchInv'
<1>0. /\ ResearchTypeOK /\ LatestIsWhole /\ champion \in ChampionRecords
      /\ attempt[a] \in AttemptRecords
      /\ AttemptInv(a)
  BY DEF ResearchInv
<1>1. CASE AttemptStarts(a) \/ Overlaps(a) \/ KeepsChampion(a)
  <2>1. /\ UNCHANGED <<digest, runLock, complete, champion, latest>>
        /\ \/ AttemptMoves(a, "starting") \/ AttemptMoves(a, "failed")
           \/ AttemptMoves(a, "promoted") /\ attempt[a].at = "compared"
    BY <1>1 DEF AttemptStarts, Overlaps, KeepsChampion
  <2>2. ResearchTypeOK' /\ LatestIsWhole' /\ champion' \in ChampionRecords
    BY <2>1, <1>0 DEF ResearchTypeOK, LatestIsWhole
  <2> QED BY <1>0, <2>1, <2>2, StageKeeps DEF Running, AttemptInv
<1>2. CASE Enters(a)
  <2>1. ResearchTypeOK' /\ LatestIsWhole' /\ champion' \in ChampionRecords
    BY <1>0, <1>2 DEF Enters, ResearchTypeOK, LatestIsWhole
  <2> QED BY <1>0, <1>2, <2>1, StageKeeps DEF Enters, MayRun, Running
<1>3. CASE AttemptFails(a) \/ Succeeds(a)
  <2>1. /\ UNCHANGED <<digest, complete, champion, latest>>
        /\ attempt[a].at \in Running
        /\ runLock' \in {runLock, "free"}
        /\ AttemptMoves(a, "failed") \/ AttemptMoves(a, "success")
    BY <1>3 DEF AttemptFails, Succeeds, Running
  <2>2. ResearchTypeOK' /\ LatestIsWhole' /\ champion' \in ChampionRecords
    BY <2>1, <1>0 DEF ResearchTypeOK, LatestIsWhole
  <2> QED BY <1>0, <2>1, <2>2, StageKeeps DEF Running
<1>4. CASE Ranks(a) \/ ReadsChampion(a)
  BY <1>4, RanksKeeps, ReadsKeeps
<1>5. CASE Promotes(a)
  <2>1. /\ UNCHANGED <<digest, runLock, complete, latest>>
        /\ attempt[a].at = "compared"
        /\ AttemptMoves(a, "promoted")
        /\ champion' = [run |-> a, digest |-> attempt[a].digest,
                        score |-> attempt[a].best]
    BY <1>5 DEF Promotes
  <2>2. champion' \in ChampionRecords
    BY <2>1, <1>0 DEF ChampionRecords, AttemptRecords
  <2>3. ResearchTypeOK' /\ LatestIsWhole'
    BY <2>1, <2>2, <1>0 DEF ResearchTypeOK, LatestIsWhole, ChampionRecords
  <2> QED BY <1>0, <2>1, <2>2, <2>3, StageKeeps DEF Running, AttemptInv
<1>6. CASE RenamesDirectory(a)
  <2>1. /\ UNCHANGED <<digest, runLock, champion, latest>>
        /\ attempt[a].at = "promoted"
        /\ AttemptMoves(a, "written")
        /\ complete' = complete \cup {a}
    BY <1>6 DEF RenamesDirectory
  <2>2. ResearchTypeOK' /\ LatestIsWhole' /\ champion' \in ChampionRecords
    BY <2>1, <1>0 DEF ResearchTypeOK, LatestIsWhole
  <2> QED BY <1>0, <2>1, <2>2, StageKeeps DEF Running, AttemptInv
<1>7. CASE WritesLatest(a)
  <2>1. /\ UNCHANGED <<digest, runLock, champion, complete>>
        /\ attempt[a].at = "written"
        /\ AttemptMoves(a, "published")
        /\ latest' = a
        /\ a \in complete
    BY <1>0, <1>7 DEF WritesLatest, Named, AttemptInv
  <2>2. ResearchTypeOK' /\ LatestIsWhole' /\ champion' \in ChampionRecords
    BY <2>1, <1>0 DEF ResearchTypeOK, LatestIsWhole
  <2> QED BY <1>0, <2>1, <2>2, StageKeeps DEF Running, AttemptInv
<1> QED BY <1>1, <1>2, <1>3, <1>4, <1>5, <1>6, <1>7

LEMMA ResearchInvHolds == ResearchSpec => []ResearchInv
<1>1. ResearchInit => ResearchInv
  BY ResearchAssumption
     DEF ResearchInit, ResearchInv, ResearchTypeOK, LatestIsWhole, NoChampion,
         NotYet, ChampionRecords, AttemptRecords, AttemptInv, Running, Digests,
         Scores
<1>2. ResearchInv /\ [ResearchNext]_researchVars => ResearchInv'
  <2> SUFFICES ASSUME ResearchInv, [ResearchNext]_researchVars
               PROVE  ResearchInv'
    OBVIOUS
  <2>1. CASE BarsRevised
    BY <2>1, ResearchAssumption
       DEF BarsRevised, ResearchInv, ResearchTypeOK, LatestIsWhole, AttemptInv,
           Digests
  <2>2. CASE UNCHANGED researchVars
    BY <2>2 DEF researchVars, ResearchInv, ResearchTypeOK, LatestIsWhole,
                AttemptInv
  <2> QED BY <2>1, <2>2, AttemptKeeps DEF ResearchNext
<1> QED BY <1>1, <1>2, PTL DEF ResearchSpec

\* On the same bars a champion gives way to a better score only, and what
\* latest.json names is whole, however many attempts overlap.
THEOREM ChampionsStayBeaten == ResearchSpec => ChampionsStand
<1>1. ASSUME ResearchInv, ResearchInv', [ResearchNext]_researchVars
      PROVE  [ChampionStep]_researchVars
  <2>1. ResearchTypeOK' /\ LatestIsWhole'
    BY <1>1 DEF ResearchInv
  <2>2. champion' = champion \/ \E a \in Attempts : Promotes(a)
    BY <1>1, Zenon DEF ResearchNext, researchVars, BarsRevised, AttemptStarts, Enters,
                Overlaps, AttemptFails, Ranks, ReadsChampion, KeepsChampion,
                RenamesDirectory, WritesLatest, Succeeds
  <2>3. ASSUME NEW a \in Attempts, Promotes(a)
        PROVE  ChampionsAreBeaten
    <3>1. /\ attempt[a].seen = champion
          /\ champion' = [run |-> a, digest |-> attempt[a].digest,
                          score |-> attempt[a].best]
          /\ Beats(a)
      BY <1>1, <2>3 DEF ResearchInv, AttemptInv, Promotes
    <3> QED BY <3>1 DEF Beats, ChampionsAreBeaten
  <2>4. ChampionsAreBeaten
    BY <2>2, <2>3 DEF ChampionsAreBeaten
  <2> QED BY <2>1, <2>4 DEF ChampionStep
<1> QED BY <1>1, ResearchInvHolds, PTL DEF ResearchSpec, ChampionsStand

-----------------------------------------------------------------------------
(* LiveFeed: what the feed has heard of is in the store or in hand, and the    *)
(* bar in hand is of the newest minute heard of.                               *)

\* The clock, and the minutes in which the market has moved.
MarketTypes ==
    /\ minute \in Minutes
    /\ now \in minute .. minute + 1
    /\ made \in [Minutes -> 0 .. MaxUpdates]
    /\ \A m \in Minutes : made[m] > 0 => m <= minute

\* The store has closed bars only, the last one written among them, and the bar
\* in hand is newer than that one.
StoreTypes ==
    /\ heldBar \in Bars
    /\ last \in 0 .. MaxMinute
    /\ bars \in [Minutes -> 0 .. MaxUpdates]
    /\ ClosedBarsOnly
    /\ last > 0 => bars[last] > 0
    /\ heldBar # NoBar => heldBar.minute > last /\ heldBar.minute <= minute

\* What was heard of is stored, excused, or the bar in hand, the newest of all.
HeardIsKept ==
    /\ heard \in SUBSET Minutes
    /\ \A m \in heard : m <= minute
    /\ heldBar # NoBar => \A m \in heard : m <= heldBar.minute
    /\ \A m \in heard \ excused : bars[m] > 0 \/ m = heldBar.minute

ConnectionTypes ==
    /\ process \in {"up", "stopping", "down"}
    /\ socket \in Sockets
    /\ found \in BOOLEAN /\ cadence \in BOOLEAN
    /\ asked \in SUBSET Asked
    /\ feedStatus \in FeedStates

FeedInv == ConnectionTypes /\ MarketTypes /\ StoreTypes /\ HeardIsKept

-----------------------------------------------------------------------------
\* A bar has a minute, and no bar none.
LEMMA BarHasMinute ==
    ASSUME NEW bar \in Bars
    PROVE  /\ bar.minute \in 0 .. MaxMinute
           /\ bar # NoBar => bar.minute \in Minutes /\ bar.updates \in 1 .. MaxUpdates
           /\ bar # NoBar <=> bar.minute > 0
  BY FeedAssumption DEF Bars, NoBar, Minutes

\* What persist_bar does with two bars, the second of a later minute, the first
\* newer than the last one written.
LEMMA PersistBarKeeps ==
    ASSUME MarketTypes, StoreTypes,
           NEW first \in Bars, NEW second \in Bars,
           first # NoBar /\ second # NoBar => first.minute < second.minute,
           first # NoBar => first.minute > last /\ ClosedBar(first.minute),
           Persist(first, second)
    PROVE  /\ bars' \in [Minutes -> 0 .. MaxUpdates]
           /\ last' \in 0 .. MaxMinute /\ last' >= last
           /\ last' > 0 => bars'[last'] > 0
           /\ \A m \in Minutes : bars[m] > 0 => bars'[m] > 0
           /\ \A m \in Minutes : bars'[m] > 0 => ClosedBar(m)
           /\ PersistedOnce
           /\ first # NoBar => bars'[first.minute] > 0 \/ first.minute \in excused'
           /\ second # NoBar /\ ClosedBar(second.minute) /\ second.minute >= last
                => bars'[second.minute] > 0 \/ second.minute \in excused'
           /\ last' > last => \/ first # NoBar /\ last' = first.minute
                              \/ second # NoBar /\ last' = second.minute
           /\ last' > 0 => ClosedBar(last')
           /\ excused \subseteq excused'
           /\ feedStatus' \in {"ok", "stale_bar_ignored", feedStatus}
<1> DEFINE one == first # NoBar /\ Writable(first, last)
           at  == IF one THEN first.minute ELSE last
           two == second # NoBar /\ Writable(second, at)
<1>1. /\ bars' = [m \in Minutes |->
                    IF two /\ m = second.minute THEN second.updates
                    ELSE IF one /\ m = first.minute THEN first.updates
                    ELSE bars[m]]
      /\ last' = IF two THEN second.minute ELSE at
      /\ excused' = excused \cup {b.minute : b \in {c \in {first, second} :
                                                      c # NoBar /\ Stale(c)}}
      /\ feedStatus' \in {"ok", "stale_bar_ignored", feedStatus}
  BY DEF Persist
<1>2. /\ minute \in Nat /\ now \in Nat /\ last \in 0 .. MaxMinute /\ MaxMinute \in Nat
      /\ MaxUpdates \in Nat /\ MaxAge \in Nat
      /\ bars \in [Minutes -> 0 .. MaxUpdates]
  BY FeedAssumption DEF MarketTypes, StoreTypes, Minutes
<1>3. /\ first.minute \in 0 .. MaxMinute /\ second.minute \in 0 .. MaxMinute
      /\ first # NoBar => first.minute \in Minutes /\ first.updates \in 1 .. MaxUpdates
      /\ second # NoBar => second.minute \in Minutes /\ second.updates \in 1 .. MaxUpdates
  BY BarHasMinute
<1>4. one => first.minute > last /\ ClosedBar(first.minute) /\ first # NoBar
  BY DEF Writable
<1>5. two => second.minute > at /\ ClosedBar(second.minute) /\ second # NoBar
  BY DEF Writable
<1>6. first # NoBar /\ ~one => first.minute \in excused'
  <2>1. first # NoBar /\ ~one => Stale(first)
    BY <1>2, <1>3 DEF Writable, Stale, ClosedBar
  <2> QED
    BY <1>1, <2>1
<1>7. second # NoBar /\ ClosedBar(second.minute) /\ second.minute > at /\ ~two
        => second.minute \in excused'
  <2>1. second # NoBar /\ ClosedBar(second.minute) /\ second.minute > at /\ ~two
            => Stale(second)
    BY <1>2, <1>3 DEF Writable, Stale, ClosedBar
  <2> QED
    BY <1>1, <2>1
<1>8. at \in 0 .. MaxMinute /\ at >= last
  BY <1>2, <1>3, <1>4
<1>9. /\ last > 0 => bars[last] > 0 /\ ClosedBar(last)
      /\ \A m \in Minutes : bars[m] > 0 => ClosedBar(m)
  BY <1>2 DEF StoreTypes, ClosedBarsOnly, Minutes
<1> HIDE DEF one, two
<1>10. bars' \in [Minutes -> 0 .. MaxUpdates]
  BY <1>1, <1>2, <1>3, <1>4, <1>5
<1>11. last' \in 0 .. MaxMinute /\ last' >= last
  BY <1>1, <1>2, <1>3, <1>5, <1>8
<1>12. last' > 0 => bars'[last'] > 0
  BY <1>1, <1>2, <1>3, <1>4, <1>5, <1>8, <1>9 DEF Minutes
<1>13. \A m \in Minutes : bars[m] > 0 => bars'[m] > 0
  BY <1>1, <1>2, <1>3, <1>4, <1>5
<1>14. \A m \in Minutes : bars'[m] > 0 => ClosedBar(m)
  BY <1>1, <1>2, <1>3, <1>4, <1>5, <1>9
<1>15. PersistedOnce
  BY <1>1, <1>2, <1>3, <1>4, <1>5, <1>8 DEF PersistedOnce
<1>16. first # NoBar => bars'[first.minute] > 0 \/ first.minute \in excused'
  BY <1>1, <1>2, <1>3, <1>5, <1>6
<1>17. second # NoBar /\ ClosedBar(second.minute) /\ second.minute >= last
         => bars'[second.minute] > 0 \/ second.minute \in excused'
  <2> SUFFICES ASSUME second # NoBar, ClosedBar(second.minute), second.minute >= last
               PROVE  bars'[second.minute] > 0 \/ second.minute \in excused'
    OBVIOUS
  <2>1. CASE two
    BY <2>1, <1>1, <1>2, <1>3
  <2>2. CASE ~two /\ second.minute > at
    BY <2>2, <1>7
  <2>3. CASE ~(second.minute > at)
    <3>1. ~one /\ second.minute = last /\ last > 0
      BY <2>3, <1>2, <1>3, <1>4 DEF Minutes
    <3> QED
      BY <3>1, <1>2, <1>3, <1>9, <1>13
  <2> QED
    BY <2>1, <2>2, <2>3
<1>18. last' > last => \/ first # NoBar /\ last' = first.minute
                       \/ second # NoBar /\ last' = second.minute
  BY <1>1, <1>2, <1>4, <1>5
<1>19. last' > 0 => ClosedBar(last')
  BY <1>1, <1>2, <1>4, <1>5, <1>9
<1> QED
  BY <1>1, <1>10, <1>11, <1>12, <1>13, <1>14, <1>15, <1>16, <1>17, <1>18, <1>19

\* A bar that arrives, of a minute that has begun, leaves what was heard of in
\* the store or in hand.
LEMMA ArrivalKeeps ==
    ASSUME MarketTypes, StoreTypes, HeardIsKept,
           NEW bar \in Bars, bar # NoBar, bar.minute <= minute,
           Arrives(bar), UNCHANGED <<minute, now>>
    PROVE  /\ StoreTypes' /\ HeardIsKept' /\ PersistedOnce
           /\ feedStatus' \in {"ok", "stale_bar_ignored", "bar_write_failed", feedStatus}
<1>1. /\ minute \in Minutes /\ minute \in Nat /\ now \in minute .. minute + 1 /\ now \in Nat
      /\ last \in 0 .. MaxMinute /\ MaxMinute \in Nat /\ MaxUpdates \in Nat
      /\ bars \in [Minutes -> 0 .. MaxUpdates] /\ heldBar \in Bars
      /\ heard \in SUBSET Minutes
  BY FeedAssumption DEF MarketTypes, StoreTypes, HeardIsKept, Minutes
<1>2. /\ heldBar.minute \in 0 .. MaxMinute /\ bar.minute \in Minutes
      /\ heldBar # NoBar => heldBar.minute \in Minutes
      /\ heldBar # NoBar <=> heldBar.minute > 0
      /\ NoBar \in Bars /\ NoBar.minute = 0
  BY <1>1, BarHasMinute DEF Bars, NoBar
<1>3. /\ heldBar # NoBar => heldBar.minute > last /\ heldBar.minute <= minute
      /\ last > 0 => bars[last] > 0 /\ ClosedBar(last)
      /\ \A m \in Minutes : bars[m] > 0 => ClosedBar(m)
  BY <1>1 DEF StoreTypes, ClosedBarsOnly, Minutes
<1>4. /\ \A m \in heard : m <= minute
      /\ heldBar # NoBar => \A m \in heard : m <= heldBar.minute
      /\ \A m \in heard \ excused : bars[m] > 0 \/ m = heldBar.minute
  BY DEF HeardIsKept
<1>5. CASE bar.minute < heldBar.minute /\ UNCHANGED <<barState, feedStatus, heard, excused>>
  BY <1>5, <1>1, <1>2, <1>3, <1>4 DEF barState, StoreTypes, ClosedBarsOnly, ClosedBar,
     HeardIsKept, PersistedOnce
<1>6. CASE /\ bar.minute = heldBar.minute
           /\ heldBar' = bar
           /\ UNCHANGED <<last, bars, feedStatus, heard, excused>>
  <2>1. heldBar # NoBar
    BY <1>6, <1>1, <1>2 DEF Minutes
  <2> QED
    BY <1>6, <2>1, <1>1, <1>2, <1>3, <1>4 DEF StoreTypes, ClosedBarsOnly, ClosedBar,
       HeardIsKept, PersistedOnce
<1>7. CASE StoreFails(bar)
  <2>1. /\ heldBar' = NoBar /\ UNCHANGED <<last, bars>>
        /\ Hears(bar) /\ feedStatus' = "bar_write_failed"
        /\ excused' = excused \cup ({heldBar.minute, bar.minute} \cap Minutes)
    BY <1>7 DEF StoreFails
  <2>2. StoreTypes'
    BY <2>1, <1>1, <1>2, <1>3 DEF StoreTypes, ClosedBarsOnly, ClosedBar
  <2>3. HeardIsKept'
    BY <2>1, <1>1, <1>2, <1>4 DEF HeardIsKept, Hears
  <2>4. PersistedOnce
    BY <2>1 DEF PersistedOnce
  <2> QED
    BY <2>1, <2>2, <2>3, <2>4
<1>8. heldBar # NoBar /\ bar.minute > heldBar.minute => ClosedBar(heldBar.minute)
  BY <1>1, <1>2 DEF ClosedBar, Minutes
<1>9. CASE /\ bar.minute > heldBar.minute /\ Hears(bar)
           /\ ClosedBar(bar.minute)
           /\ heldBar' = NoBar /\ Persist(heldBar, bar)
  <2>1. /\ bars' \in [Minutes -> 0 .. MaxUpdates]
        /\ last' \in 0 .. MaxMinute
        /\ last' > 0 => bars'[last'] > 0
        /\ \A m \in Minutes : bars[m] > 0 => bars'[m] > 0
        /\ \A m \in Minutes : bars'[m] > 0 => ClosedBar(m)
        /\ PersistedOnce
        /\ heldBar # NoBar => bars'[heldBar.minute] > 0 \/ heldBar.minute \in excused'
        /\ bar.minute >= last => bars'[bar.minute] > 0 \/ bar.minute \in excused'
        /\ excused \subseteq excused'
        /\ feedStatus' \in {"ok", "stale_bar_ignored", feedStatus}
    BY <1>9, <1>1, <1>3, <1>8, PersistBarKeeps
  <2>2. StoreTypes'
    BY <2>1, <1>9, <1>1, <1>2 DEF StoreTypes, ClosedBarsOnly, ClosedBar
  <2>3. heard' \in SUBSET Minutes /\ \A m \in heard' : m <= minute
    BY <1>9, <1>1, <1>2, <1>4 DEF Hears
  <2>4. ASSUME NEW m \in heard' \ excused' PROVE bars'[m] > 0
    <3>1. CASE m \in heard
      <4>1. bars[m] > 0 \/ m = heldBar.minute
        BY <2>1, <2>4, <3>1, <1>4
      <4>2. m \in Minutes /\ m > 0
        BY <3>1, <1>1 DEF Minutes
      <4> QED
        BY <2>1, <2>4, <4>1, <4>2, <1>2
    <3>2. CASE m \notin heard
      <4>1. m = bar.minute /\ bar.minute >= last
        BY <3>2, <2>4, <1>9, <1>1, <1>2 DEF Hears, Minutes
      <4> QED
        BY <4>1, <2>1, <2>4
    <3> QED
      BY <3>1, <3>2
  <2>5. HeardIsKept'
    BY <2>3, <2>4, <1>9 DEF HeardIsKept
  <2> QED
    BY <2>1, <2>2, <2>5
<1>10. CASE /\ bar.minute > heldBar.minute /\ Hears(bar)
            /\ ~ClosedBar(bar.minute)
            /\ heldBar' = bar /\ Persist(heldBar, NoBar)
  <2>1. bar.minute = minute /\ minute = now
    BY <1>10, <1>1, <1>2 DEF ClosedBar, Minutes
  <2>2. /\ bars' \in [Minutes -> 0 .. MaxUpdates]
        /\ last' \in 0 .. MaxMinute
        /\ last' > 0 => bars'[last'] > 0 /\ ClosedBar(last')
        /\ \A m \in Minutes : bars[m] > 0 => bars'[m] > 0
        /\ \A m \in Minutes : bars'[m] > 0 => ClosedBar(m)
        /\ PersistedOnce
        /\ heldBar # NoBar => bars'[heldBar.minute] > 0 \/ heldBar.minute \in excused'
        /\ excused \subseteq excused'
        /\ feedStatus' \in {"ok", "stale_bar_ignored", feedStatus}
    BY <1>10, <1>1, <1>2, <1>3, <1>8, PersistBarKeeps
  <2>3. bar.minute > last'
    BY <2>1, <2>2, <1>1, <1>2 DEF ClosedBar, Minutes
  <2>4. StoreTypes'
    BY <2>1, <2>2, <2>3, <1>10, <1>1, <1>2 DEF StoreTypes, ClosedBarsOnly, ClosedBar
  <2>5. heard' \in SUBSET Minutes /\ \A m \in heard' : m <= minute
    BY <1>10, <1>1, <1>2, <1>4 DEF Hears
  <2>6. ASSUME NEW m \in heard' \ excused', m # bar.minute PROVE bars'[m] > 0
    <3>1. m \in heard
      BY <2>6, <1>10 DEF Hears
    <3>2. bars[m] > 0 \/ m = heldBar.minute
      BY <2>2, <2>6, <3>1, <1>4
    <3>3. m \in Minutes /\ m > 0
      BY <3>1, <1>1 DEF Minutes
    <3> QED
      BY <2>2, <2>6, <3>2, <3>3, <1>2
  <2>7. HeardIsKept'
    BY <2>1, <2>5, <2>6, <1>10 DEF HeardIsKept
  <2> QED
    BY <2>2, <2>4, <2>7
<1> QED
  BY <1>5, <1>6, <1>7, <1>9, <1>10 DEF Arrives, OnBar

-----------------------------------------------------------------------------
\* Every step of the connection keeps its types.
LEMMA ConnectionKept ==
    ASSUME ConnectionTypes,
           \/ StartFeed \/ OnConnected \/ Resubscribe \/ ConnectionLost
           \/ \E r \in asked : RequestGranted(r) \/ RequestRefused(r) \/ RequestUnanswered(r)
    PROVE  ConnectionTypes' /\ UNCHANGED <<market, barState, heard, excused>>
<1> USE DEF ConnectionTypes
<1>a. NoSocket \in Sockets /\ [NoSocket EXCEPT !.up = TRUE] \in Sockets
  BY DEF NoSocket, Sockets
<1>b. {"app", "account", "symbols", "spots", "bars"} \subseteq FeedRequests
  BY DEF FeedRequests
<1>c. {"starting", "connecting", "subscribing_spots", "subscribing", "ok",
       "subscribe_failed", "transport_error", "unavailable", "reconnecting", "stopped"}
            \subseteq FeedStates
  BY DEF FeedStates
<1>d. Accounts - 1 \in 0 .. Accounts /\ 0 \in 0 .. Accounts
  BY FeedAssumption
<1>e. \A what \in FeedRequests : \A left \in 0 .. Accounts : Ask(what, left) \in Asked
  BY DEF Ask, Asked
<1>f. SubscribeRequests \in SUBSET Asked
  BY <1>b, <1>d, <1>e DEF SubscribeRequests
<1>1. /\ NoSocket \in Sockets /\ [NoSocket EXCEPT !.up = TRUE] \in Sockets
      /\ SubscribeRequests \in SUBSET Asked
      /\ \A what \in FeedRequests : \A left \in 0 .. Accounts : Ask(what, left) \in Asked
      /\ Accounts - 1 \in 0 .. Accounts /\ 0 \in 0 .. Accounts
      /\ {"app", "account", "symbols", "spots", "bars"} \subseteq FeedRequests
      /\ {"starting", "connecting", "subscribing_spots", "subscribing", "ok",
          "subscribe_failed", "transport_error", "unavailable", "reconnecting", "stopped"}
            \subseteq FeedStates
  BY <1>a, <1>b, <1>c, <1>d, <1>e, <1>f
<1>2. CASE StartFeed
  BY <1>1, <1>2 DEF StartFeed
<1>3. CASE OnConnected
  BY <1>1, <1>3 DEF OnConnected
<1>4. CASE Resubscribe
  BY <1>1, <1>4 DEF Resubscribe
<1>5. CASE ConnectionLost
  <2>1. \A r \in asked : [r EXCEPT !.here = FALSE] \in Asked
    BY DEF Asked
  <2>2. asked' \in SUBSET Asked
    BY <1>5, <2>1 DEF ConnectionLost
  <2> QED
    BY <1>1, <1>5, <2>2 DEF ConnectionLost
<1>6. ASSUME NEW r \in asked, RequestGranted(r)
      PROVE  ConnectionTypes' /\ UNCHANGED <<market, barState, heard, excused>>
  <2>1. socket' \in Sockets
    BY <1>6 DEF RequestGranted, Sockets
  <2>2. asked' \in SUBSET Asked
    BY <1>1, <1>6 DEF RequestGranted
  <2>3. feedStatus' \in FeedStates
    BY <1>1, <1>6 DEF RequestGranted
  <2> QED
    BY <1>6, <2>1, <2>2, <2>3 DEF RequestGranted
<1>7. ASSUME NEW r \in asked, RequestRefused(r)
      PROVE  ConnectionTypes' /\ UNCHANGED <<market, barState, heard, excused>>
  <2>1. r.left > 0 => r.left - 1 \in 0 .. Accounts
    BY FeedAssumption DEF Asked
  <2> QED
    BY <1>1, <1>7, <2>1 DEF RequestRefused
<1>8. ASSUME NEW r \in asked, RequestUnanswered(r)
      PROVE  ConnectionTypes' /\ UNCHANGED <<market, barState, heard, excused>>
  BY <1>1, <1>8 DEF RequestUnanswered
<1> QED
  BY <1>2, <1>3, <1>4, <1>5, <1>6, <1>7, <1>8

\* The invariant holds at first, and every step keeps it.
LEMMA FeedKept ==
    ASSUME FeedInv, FeedNext
    PROVE  FeedInv' /\ PersistedOnce
<1> DEFINE Good == FeedInv' /\ PersistedOnce
<1> SUFFICES Good
  OBVIOUS
<1>1. CASE \/ StartFeed \/ OnConnected \/ Resubscribe \/ ConnectionLost
           \/ \E r \in asked : RequestGranted(r) \/ RequestRefused(r) \/ RequestUnanswered(r)
  BY <1>1, ConnectionKept DEF FeedInv, market, barState, MarketTypes, StoreTypes,
     ClosedBarsOnly, ClosedBar, HeardIsKept, PersistedOnce
<1>2. CASE Trade
  <2> DEFINE bar == [minute |-> minute, updates |-> made[minute] + 1]
  <2>1. /\ minute \in Minutes /\ minute \in Nat /\ made[minute] < MaxUpdates
        /\ made \in [Minutes -> 0 .. MaxUpdates] /\ MaxUpdates \in Nat
        /\ UNCHANGED <<process, socket, found, asked, cadence, minute, now, drops>>
        /\ made' = [made EXCEPT ![minute] = @ + 1]
    BY <1>2, FeedAssumption DEF Trade, FeedInv, MarketTypes, Minutes
  <2>2. bar \in Bars /\ bar # NoBar /\ bar.minute <= minute
    BY <2>1 DEF Bars, NoBar, Minutes
  <2>3. MarketTypes'
    BY <2>1 DEF FeedInv, MarketTypes
  <2>4. CASE Arrives(bar)
    BY <2>1, <2>2, <2>3, <2>4, ArrivalKeeps DEF FeedInv, ConnectionTypes, FeedStates
  <2>5. CASE UNCHANGED <<barState, feedStatus, heard, excused>>
    BY <2>1, <2>3, <2>5 DEF FeedInv, ConnectionTypes, barState, StoreTypes,
       ClosedBarsOnly, ClosedBar, HeardIsKept, PersistedOnce
  <2> QED
    BY <1>2, <2>4, <2>5 DEF Trade
<1>3. ASSUME NEW m \in Minutes, ReplayBar(m) PROVE Good
  <2> DEFINE bar == [minute |-> m, updates |-> made[m]]
  <2>1. /\ made \in [Minutes -> 0 .. MaxUpdates] /\ made[m] > 0 /\ m <= minute
        /\ MaxUpdates \in Nat /\ Arrives(bar)
        /\ UNCHANGED <<process, socket, found, asked, cadence, market, drops>>
    BY <1>3, FeedAssumption DEF ReplayBar, FeedInv, MarketTypes
  <2>2. bar \in Bars /\ bar # NoBar /\ bar.minute <= minute
    BY <2>1 DEF Bars, NoBar, Minutes
  <2>3. MarketTypes'
    BY <2>1 DEF FeedInv, MarketTypes, market
  <2> QED
    BY <2>1, <2>2, <2>3, ArrivalKeeps DEF FeedInv, ConnectionTypes, FeedStates, market
<1>4. CASE MinuteEnds \/ MinuteTurns
  <2>1. /\ UNCHANGED <<connection, made, barState, heard, excused>>
        /\ minute' \in Minutes /\ minute' >= minute /\ now' >= now
        /\ now' \in minute' .. minute' + 1
        /\ minute \in Nat /\ minute' \in Nat /\ now \in Nat /\ now' \in Nat
        /\ MaxMinute \in Nat
    BY <1>4, FeedAssumption DEF MinuteEnds, MinuteTurns, FeedInv, MarketTypes, Minutes
  <2>2. MarketTypes'
    <3>1. \A m \in Minutes : made[m] > 0 => m <= minute'
      BY <2>1 DEF FeedInv, MarketTypes, Minutes
    <3> QED
      BY <2>1, <3>1 DEF FeedInv, MarketTypes
  <2>3. StoreTypes'
    BY <2>1, BarHasMinute DEF FeedInv, StoreTypes, ClosedBarsOnly, ClosedBar, barState, Minutes
  <2>4. HeardIsKept' /\ PersistedOnce
    BY <2>1 DEF FeedInv, HeardIsKept, PersistedOnce, barState, Minutes
  <2> QED
    BY <2>1, <2>2, <2>3, <2>4 DEF FeedInv, ConnectionTypes, connection
<1>5. CASE Terminate
  <2> DEFINE one == heldBar # NoBar /\ Writable(heldBar, last)
  <2>1. /\ process' = "stopping" /\ heldBar' = NoBar /\ feedStatus' = "stopped"
        /\ bars' = IF one THEN [bars EXCEPT ![heldBar.minute] = heldBar.updates] ELSE bars
        /\ last' = IF one THEN heldBar.minute ELSE last
        /\ excused' = excused \cup heard
        /\ UNCHANGED <<socket, found, asked, cadence, market, heard>>
    BY <1>5 DEF Terminate
  <2>2. /\ one => /\ ClosedBar(heldBar.minute) /\ heldBar.minute > last
                  /\ heldBar.minute \in Minutes /\ heldBar.updates \in 1 .. MaxUpdates
        /\ NoBar \in Bars
    BY BarHasMinute DEF FeedInv, StoreTypes, Writable, Bars
  <2>3. /\ bars \in [Minutes -> 0 .. MaxUpdates] /\ last \in 0 .. MaxMinute
        /\ MaxMinute \in Nat /\ MaxUpdates \in Nat
    BY FeedAssumption DEF FeedInv, StoreTypes
  <2> HIDE DEF one
  <2>4. MarketTypes'
    BY <2>1 DEF FeedInv, MarketTypes, market
  <2>5. StoreTypes'
    BY <2>1, <2>2, <2>3 DEF FeedInv, StoreTypes, ClosedBarsOnly, ClosedBar, market, Minutes
  <2>6. HeardIsKept'
    BY <2>1 DEF FeedInv, HeardIsKept, market
  <2>7. PersistedOnce
    BY <2>1, <2>2, <2>3 DEF PersistedOnce, Minutes
  <2> QED
    BY <2>1, <2>4, <2>5, <2>6, <2>7 DEF FeedInv, ConnectionTypes, FeedStates
<1>6. CASE ProcessEnds
  <2>1. /\ process' = "down" /\ socket' = NoSocket /\ found' = FALSE /\ asked' = {}
        /\ cadence' = FALSE /\ heldBar' = NoBar /\ last' = 0
        /\ heard' = {} /\ excused' = {}
        /\ UNCHANGED <<feedStatus, market, bars>>
    BY <1>6 DEF ProcessEnds
  <2>2. MaxMinute \in Nat /\ NoBar \in Bars /\ NoSocket \in Sockets
    BY FeedAssumption DEF Bars, NoSocket, Sockets
  <2> QED
    <3>1. ConnectionTypes'
      BY <2>1, <2>2 DEF FeedInv, ConnectionTypes
    <3>2. MarketTypes'
      BY <2>1 DEF FeedInv, MarketTypes, market
    <3>3. StoreTypes'
      BY <2>1, <2>2 DEF FeedInv, StoreTypes, ClosedBarsOnly, ClosedBar, market
    <3>4. HeardIsKept' /\ PersistedOnce
      BY <2>1 DEF HeardIsKept, PersistedOnce
    <3> QED
      BY <3>1, <3>2, <3>3, <3>4 DEF FeedInv
<1> HIDE DEF Good
<1> QED
  BY <1>1, <1>2, <1>3, <1>4, <1>5, <1>6, Zenon DEF FeedNext

LEMMA FeedSound == FeedSpec => []FeedInv
<1>1. FeedInit => FeedInv
  <2> SUFFICES ASSUME FeedInit PROVE FeedInv
    OBVIOUS
  <2>1. ConnectionTypes
    BY DEF FeedInit, ConnectionTypes, NoSocket, Sockets, FeedStates
  <2>2. MarketTypes
    BY FeedAssumption DEF FeedInit, MarketTypes, Minutes
  <2>3. StoreTypes
    BY FeedAssumption DEF FeedInit, StoreTypes, ClosedBarsOnly, Bars
  <2>4. HeardIsKept
    BY DEF FeedInit, HeardIsKept
  <2> QED
    BY <2>1, <2>2, <2>3, <2>4 DEF FeedInv
<1>2. FeedInv /\ [FeedNext]_feedVars => FeedInv'
  <2>1. FeedInv /\ UNCHANGED feedVars => FeedInv'
    BY DEF FeedInv, feedVars, connection, market, barState, ConnectionTypes, MarketTypes,
       StoreTypes, HeardIsKept, ClosedBarsOnly, ClosedBar
  <2> QED
    BY <2>1, FeedKept
<1> QED
  BY <1>1, <1>2, PTL DEF FeedSpec

\* Whatever the connection does, the feed stores every bar it hears of in time,
\* once, when the minute is over, and no other.
THEOREM FeedStaysComplete == FeedSpec => FeedIsComplete
<1>1. FeedInv => FeedTypeOK /\ ClosedBarsOnly
  BY DEF FeedInv, ConnectionTypes, MarketTypes, StoreTypes, FeedTypeOK
<1>2. FeedInv => HeardBarsAreStored
  BY FeedAssumption, BarHasMinute DEF FeedInv, StoreTypes, HeardIsKept, HeardBarsAreStored,
     Minutes
<1>3. FeedInv /\ FeedInv' /\ [FeedNext]_feedVars => [FeedStep]_feedVars
  <2>1. FeedInv' => FeedTypeOK' /\ ClosedBarsOnly' /\ HeardBarsAreStored'
    BY <1>1, <1>2, PTL
  <2> QED
    BY <2>1, FeedKept DEF FeedStep
<1> QED
  BY <1>3, FeedSound, PTL DEF FeedSpec, FeedIsComplete

-----------------------------------------------------------------------------
(* ReleaseInstall: what the files are at each step of an installation or of a  *)
(* rollback, but for those the operator has edited since the last check.       *)

ReleaseSteps == {"down", "off", "idle", "tested", "backup", "journal", "install",
          "recover", "rollback", "wait", "confirm", "verified"}
Trees == [Files -> Contents]
Drafts == [id : {0} \cup ReleaseIds, before : Trees, after : Trees]
Flights == [id : ReleaseIds, before : Trees, after : Trees,
            state : {"installing", "pending_health"}]

InstallTypes ==
    /\ live \in Trees
    /\ good \in Trees
    /\ fresh \in SUBSET Files
    /\ releaseProc \in [Process -> [at : ReleaseSteps, todo : SUBSET Files]]
    /\ draft \in Drafts
    /\ pending \in SUBSET Flights
    /\ backups \in [ReleaseIds -> [Files -> Contents \cup {Missing}]]

\* One release is in flight at most, and then it is installing or installed.
OneInFlight == \A r, s \in pending : r = s

\* The worker acts on an installed release only, and stops the agent first.
WorkerAlone ==
    ~IsAt("worker", "off") =>
        /\ Installed
        /\ IsAt("worker", "wait") \/ IsAt("worker", "recover") \/ IsAt("worker", "rollback")
           \/ IsAt("worker", "confirm") \/ IsAt("worker", "verified")
        /\ IsAt("agent", "down") \/ IsAt("agent", "idle")

\* The agent deploys with no other release in flight and no worker about.
AgentAlone ==
    /\ IsAt("agent", "tested") \/ IsAt("agent", "backup") \/ IsAt("agent", "journal") =>
        pending = {} /\ draft.id \in ReleaseIds
    /\ IsAt("agent", "install") =>
        pending = Journal("installing") /\ draft.id \in ReleaseIds
    /\ IsAt("agent", "backup") \/ IsAt("agent", "journal") \/ IsAt("agent", "install")
       \/ IsAt("agent", "recover") \/ IsAt("agent", "rollback") \/ Interrupted => ~scheduled
    /\ IsAt("agent", "recover") \/ IsAt("agent", "rollback") => pending # {}

\* The files that nothing in flight concerns are as they should be.
Elsewhere ==
    /\ pending = {} => live = good
    /\ \A r \in pending : \A f \in Files \ Changes(r) : live[f] = good[f]

\* What a deployment and a rollback have found, or made, of the other files.
Checked ==
    /\ IsAt("agent", "backup") \/ IsAt("agent", "journal") =>
        \A f \in Files \ fresh : live[f] = draft.before[f]
    /\ IsAt("agent", "journal") =>
        \A f \in Changes(draft) : draft.before[f] # Absent => backups[draft.id][f] # Missing
    /\ IsAt("agent", "install") =>
        /\ releaseProc["agent"].todo \subseteq Changes(draft)
        /\ \A f \in Changes(draft) \ fresh :
            live[f] = IF f \in releaseProc["agent"].todo THEN draft.before[f]
                      ELSE draft.after[f]
    /\ \A p \in Process : IsAt(p, "rollback") => \A r \in pending :
        /\ releaseProc[p].todo \subseteq Changes(r)
        /\ \A f \in Changes(r) \ fresh :
            live[f] \in IF f \in releaseProc[p].todo THEN {r.before[f], r.after[f]}
                        ELSE {r.before[f]}
    /\ IsAt("worker", "verified") => \A r \in pending : \A f \in Changes(r) \ fresh :
            live[f] = r.after[f]

\* Who does what when: one release in flight, and the worker or the agent.
Control == OneInFlight /\ WorkerAlone /\ AgentAlone

InstallInv ==
    /\ InstallTypes
    /\ Control
    /\ Elsewhere
    /\ Checked
    /\ Undoable

-----------------------------------------------------------------------------
\* What a file may hold.
LEMMA ContentsKnown ==
    /\ Absent \in Contents /\ Edit \in Contents /\ 1 \in Contents
    /\ \A r \in ReleaseIds : r + 1 \in Contents
    /\ Missing \notin Contents
  BY ReleaseAssumption DEF Contents, Absent, Edit, Missing, ReleaseIds

\* A process that turns to another step has types.
LEMMA TurnsTypes ==
    ASSUME releaseProc \in [Process -> [at : ReleaseSteps, todo : SUBSET Files]],
           NEW p \in Process, NEW where \in ReleaseSteps, Turns(p, where)
    PROVE  releaseProc' \in [Process -> [at : ReleaseSteps, todo : SUBSET Files]]
  BY DEF Turns, AtRest

\* Every step keeps the types.
LEMMA InstallTypesKept ==
    ASSUME InstallTypes, AgentAlone, ReleaseNext
    PROVE  InstallTypes'
<1> USE DEF InstallTypes
<1>0. /\ "agent" \in Process /\ "worker" \in Process
      /\ {"down", "off", "idle", "tested", "backup", "journal", "install", "recover",
          "rollback", "wait", "confirm", "verified"} \subseteq ReleaseSteps
  BY DEF Process, ReleaseSteps
<1>d. NoDraft \in Drafts
  BY ContentsKnown DEF NoDraft, None, Drafts, Trees
<1>j. ASSUME draft.id \in ReleaseIds, NEW state \in {"installing", "pending_health"}
      PROVE  Journal(state) \in SUBSET Flights
  BY <1>j DEF Journal, Flights, Drafts
<1>1. ASSUME NEW f \in Files, OperatorEdits(f) PROVE InstallTypes'
  BY <1>1, ContentsKnown DEF OperatorEdits, Flights, Trees
<1>2. ASSUME NEW f \in Files, InstallsFile(f) PROVE InstallTypes'
  BY <1>2, <1>0 DEF InstallsFile, Sets, Trees, Drafts
<1>3. CASE AgentEnds
  BY <1>3, <1>0, <1>d, TurnsTypes DEF AgentEnds
<1>4. CASE WorkerEnds
  BY <1>4, <1>0, TurnsTypes DEF WorkerEnds
<1>5. CASE AgentStarts
  BY <1>5, <1>0, TurnsTypes DEF AgentStarts
<1>6. CASE DeployTests
  <2>1. PICK after \in Proposals(NextId) :
          draft' = [id |-> NextId, before |-> live, after |-> after]
    BY <1>6 DEF DeployTests
  <2>2. draft' \in Drafts
    BY <2>1, <1>6 DEF Proposals, Drafts, DeployTests, Trees
  <2> QED
    BY <1>6, <2>2, <1>0, TurnsTypes DEF DeployTests
<1>7. CASE DeployChecks
  BY <1>7, <1>0, TurnsTypes DEF DeployChecks
<1>8. CASE DeployBacksUp
  <2>1. BackedUp \in [Files -> Contents \cup {Missing}]
    BY DEF BackedUp, Trees
  <2>2. backups' \in [ReleaseIds -> [Files -> Contents \cup {Missing}]]
    BY <1>8, <2>1 DEF DeployBacksUp
  <2> QED
    BY <1>8, <2>2, <1>0, TurnsTypes DEF DeployBacksUp
<1>9. CASE DeployStarts
  BY <1>9, <1>0, <1>j DEF DeployStarts, AgentAlone, IsAt, Changes
<1>10. CASE InstallFails
  BY <1>10, <1>0, <1>d, TurnsTypes DEF InstallFails
<1>11. CASE DeployEnds
  BY <1>11, <1>0, <1>d, <1>j, TurnsTypes DEF DeployEnds, AgentAlone, IsAt
<1>12. CASE Schedules
  BY <1>12, <1>0, TurnsTypes DEF Schedules
<1>13. CASE WorkerStarts
  <2>1. AtRest("wait") \in [at : ReleaseSteps, todo : SUBSET Files]
        /\ AtRest("down") \in [at : ReleaseSteps, todo : SUBSET Files]
    BY <1>0 DEF AtRest
  <2> QED
    BY <1>13, <2>1, <1>0, TurnsTypes DEF WorkerStarts
<1>14. CASE WorkerHears
  BY <1>14, <1>0, TurnsTypes DEF WorkerHears
<1>15. CASE Confirms
  BY <1>15, <1>0, TurnsTypes DEF Confirms
<1>16. ASSUME NEW p \in Process, Reports(p)
       PROVE  releaseProc' \in [Process -> [at : ReleaseSteps, todo : SUBSET Files]]
  BY <1>16, <1>0, TurnsTypes DEF Reports
<1>17. ASSUME NEW p \in Process, RollbackBegins(p) PROVE InstallTypes'
  <2>1. ASSUME NEW release \in pending,
               releaseProc' = [releaseProc EXCEPT ![p] = [at |-> "rollback",
                                                          todo |-> Changes(release)]]
        PROVE  releaseProc' \in [Process -> [at : ReleaseSteps, todo : SUBSET Files]]
    BY <2>1, <1>0 DEF Changes
  <2> QED
    BY <1>17, <2>1, <1>16 DEF RollbackBegins
<1>18. ASSUME NEW p \in Process, NEW f \in Files, RollsBack(p, f) PROVE InstallTypes'
  <2>1. PICK release \in pending :
            \/ /\ Sets(f, release.before[f])
               /\ releaseProc' = [releaseProc EXCEPT ![p].todo = @ \ {f}]
            \/ Reports(p) /\ UNCHANGED live
    BY <1>18 DEF RollsBack
  <2>2. live' \in Trees
    BY <2>1 DEF Sets, Trees, Flights
  <2>3. releaseProc' \in [Process -> [at : ReleaseSteps, todo : SUBSET Files]]
    BY <2>1, <1>16
  <2> QED
    BY <1>18, <2>2, <2>3 DEF RollsBack
<1>19. ASSUME NEW release \in Flights, NEW tree \in Trees, Leaves(release, tree)
       PROVE  good' \in Trees
  BY <1>19 DEF Leaves, Trees
<1>20. ASSUME NEW release \in Flights, Settles(release)
       PROVE  /\ pending' \in SUBSET Flights
              /\ backups' \in [ReleaseIds -> [Files -> Contents \cup {Missing}]]
  BY <1>20 DEF Settles
<1>21. ASSUME NEW p \in Process, RollbackEnds(p) PROVE InstallTypes'
  <2>1. PICK release \in pending : Settles(release) /\ Leaves(release, release.before)
    BY <1>21 DEF RollbackEnds
  <2>2. release \in Flights /\ release.before \in Trees
    BY DEF Flights
  <2>3. releaseProc' \in [Process -> [at : ReleaseSteps, todo : SUBSET Files]]
    <3>1. AtRest("off") \in [at : ReleaseSteps, todo : SUBSET Files]
          /\ AtRest("down") \in [at : ReleaseSteps, todo : SUBSET Files]
      BY <1>0 DEF AtRest
    <3> QED
      BY <1>21, <3>1, <1>0, TurnsTypes DEF RollbackEnds
  <2> QED
    BY <1>21, <2>1, <2>2, <2>3, <1>19, <1>20 DEF RollbackEnds
<1>22. CASE Verifies
  <2>1. PICK release \in pending : Settles(release) /\ Leaves(release, release.after)
    BY <1>22 DEF Verifies
  <2>2. release \in Flights /\ release.after \in Trees
    BY DEF Flights
  <2> QED
    BY <1>22, <2>1, <2>2, <1>0, <1>19, <1>20, TurnsTypes DEF Verifies
<1> HIDE DEF InstallTypes
<1> QED
  BY <1>1, <1>2, <1>3, <1>4, <1>5, <1>6, <1>7, <1>8, <1>9, <1>10, <1>11, <1>12, <1>13,
     <1>14, <1>15, <1>17, <1>18, <1>21, <1>22, Zenon DEF ReleaseNext

-----------------------------------------------------------------------------
\* Every step keeps who does what when.
LEMMA ControlKept ==
    ASSUME InstallTypes, Control, ReleaseNext
    PROVE  Control'
<1> USE DEF Control, OneInFlight, WorkerAlone, AgentAlone, Interrupted, Installed, IsAt
<1>t. releaseProc \in [Process -> [at : ReleaseSteps, todo : SUBSET Files]]
  BY DEF InstallTypes
<1>p. Process = {"agent", "worker"}
  BY DEF Process
<1>1. ASSUME NEW f \in Files, OperatorEdits(f) PROVE Control'
  BY <1>1, <1>t, <1>p DEF OperatorEdits, Journal
<1>2. ASSUME NEW f \in Files, InstallsFile(f) PROVE Control'
  BY <1>2, <1>t, <1>p DEF InstallsFile, Journal
<1>3. CASE AgentEnds
  BY <1>3, <1>t, <1>p DEF AgentEnds, Turns, AtRest, Journal
<1>4. CASE WorkerEnds
  BY <1>4, <1>t, <1>p DEF WorkerEnds, Turns, AtRest, Journal
<1>5. CASE AgentStarts
  BY <1>5, <1>t, <1>p DEF AgentStarts, Turns, AtRest, Journal
<1>6. CASE DeployTests
  BY <1>6, <1>t, <1>p DEF DeployTests, Turns, AtRest, Journal
<1>7. CASE DeployChecks
  BY <1>7, <1>t, <1>p DEF DeployChecks, Turns, AtRest, Journal
<1>8. CASE DeployBacksUp
  BY <1>8, <1>t, <1>p DEF DeployBacksUp, Turns, AtRest, Journal
<1>9. CASE DeployStarts
  BY <1>9, <1>t, <1>p DEF DeployStarts, Turns, AtRest, Journal
<1>10. CASE InstallFails
  BY <1>10, <1>t, <1>p DEF InstallFails, Turns, AtRest, Journal
<1>11. CASE DeployEnds
  BY <1>11, <1>t, <1>p DEF DeployEnds, Turns, AtRest, Journal
<1>12. CASE Schedules
  BY <1>12, <1>t, <1>p DEF Schedules, Turns, AtRest, Journal
<1>13. CASE WorkerStarts
  BY <1>13, <1>t, <1>p DEF WorkerStarts, Turns, AtRest, Journal
<1>14. CASE WorkerHears
  BY <1>14, <1>t, <1>p DEF WorkerHears, Turns, AtRest, Journal
<1>15. CASE Confirms
  BY <1>15, <1>t, <1>p DEF Confirms, Turns, AtRest, Journal
<1>16. CASE Verifies
  BY <1>16, <1>t, <1>p DEF Verifies, Turns, AtRest, Journal, Settles
<1>17. ASSUME NEW p \in Process, RollbackBegins(p) PROVE Control'
  BY <1>17, <1>t, <1>p DEF RollbackBegins, Turns, AtRest, Reports, Journal
<1>18. ASSUME NEW p \in Process, NEW f \in Files, RollsBack(p, f) PROVE Control'
  BY <1>18, <1>t, <1>p DEF RollsBack, Turns, AtRest, Reports, Journal
<1>19. ASSUME NEW p \in Process, RollbackEnds(p) PROVE Control'
  BY <1>19, <1>t, <1>p DEF RollbackEnds, Turns, AtRest, Settles, Journal
<1> HIDE DEF Control
<1> QED
  BY <1>1, <1>2, <1>3, <1>4, <1>5, <1>6, <1>7, <1>8, <1>9, <1>10, <1>11, <1>12, <1>13, <1>14, <1>15, <1>16, <1>17, <1>18, <1>19, Zenon DEF ReleaseNext

-----------------------------------------------------------------------------
\* A step that leaves the releases and the files that are not fresh alone, and
\* lets a process turn to a step that knows nothing of them, keeps what is known.
Unnamed == {"down", "off", "idle", "tested", "recover", "wait", "confirm"}

LEMMA QuietKept ==
    ASSUME InstallInv,
           UNCHANGED <<pending, backups>>, fresh \subseteq fresh',
           \A f \in Files : f \notin fresh' => live'[f] = live[f],
           \A p \in Process : releaseProc'[p] = releaseProc[p]
                              \/ releaseProc'[p].at \in Unnamed,
           IsAt("agent", "backup")' \/ IsAt("agent", "journal")' \/ IsAt("agent", "install")'
               => UNCHANGED draft
    PROVE  Checked' /\ Undoable'
<1> USE DEF InstallInv
<1>1. "agent" \in Process /\ "worker" \in Process
  BY DEF Process
<1>2. \A p \in Process : \A where \in {"backup", "journal", "install", "rollback", "verified"} :
        IsAt(p, where)' => IsAt(p, where) /\ releaseProc'[p] = releaseProc[p]
  BY DEF IsAt, Unnamed
<1>3. /\ \A r : Changes(r) \subseteq Files
      /\ Changes(draft)' = Changes(draft')
      /\ draft \in Drafts
  BY DEF Changes, InstallTypes
<1>4. Undoable'
  BY DEF Undoable, Changes
<1>5. Checked'
  <2>1. ASSUME IsAt("agent", "backup")' \/ IsAt("agent", "journal")'
        PROVE  \A f \in Files \ fresh' : live'[f] = draft'.before[f]
    BY <1>1, <1>2, <1>3, <2>1 DEF Checked
  <2>2. ASSUME IsAt("agent", "journal")'
        PROVE  \A f \in Changes(draft') : draft'.before[f] # Absent =>
                    backups'[draft'.id][f] # Missing
    BY <1>1, <1>2, <2>2 DEF Checked
  <2>3. ASSUME IsAt("agent", "install")'
        PROVE  /\ releaseProc'["agent"].todo \subseteq Changes(draft')
               /\ \A f \in Changes(draft') \ fresh' :
                    live'[f] = IF f \in releaseProc'["agent"].todo THEN draft'.before[f]
                               ELSE draft'.after[f]
    BY <1>1, <1>2, <1>3, <2>3 DEF Checked
  <2>4. ASSUME NEW p \in Process, IsAt(p, "rollback")', NEW r \in pending'
        PROVE  /\ releaseProc'[p].todo \subseteq Changes(r)
               /\ \A f \in Changes(r) \ fresh' :
                    live'[f] \in IF f \in releaseProc'[p].todo THEN {r.before[f], r.after[f]}
                                 ELSE {r.before[f]}
    BY <1>2, <1>3, <2>4 DEF Checked
  <2>5. ASSUME IsAt("worker", "verified")', NEW r \in pending', NEW f \in Changes(r) \ fresh'
        PROVE  live'[f] = r.after[f]
    BY <1>1, <1>2, <1>3, <2>5 DEF Checked
  <2> QED
    BY <2>1, <2>2, <2>3, <2>4, <2>5 DEF Checked, Changes
<1> QED
  BY <1>4, <1>5

\* A settled release leaves the files as they should be.
LEMMA SettledIsWhole ==
    ASSUME InstallTypes, Elsewhere, OneInFlight,
           NEW release \in pending, NEW tree \in Trees,
           \A f \in Changes(release) \ fresh : live[f] = tree[f],
           Settles(release), Leaves(release, tree), live' = live
    PROVE  Elsewhere' /\ Undoable'
<1>1. pending' = {}
  BY DEF Settles
<1>2. \A f \in Files : good'[f] = live[f]
  BY DEF Leaves, Elsewhere
<1>3. good' = live
  BY <1>2 DEF Leaves, InstallTypes, Trees
<1> QED
  BY <1>1, <1>3 DEF Elsewhere, Undoable

\* Every step keeps what is known of the files, and spares what others edited.
LEMMA FilesKept ==
    ASSUME InstallInv, ReleaseNext
    PROVE  Elsewhere' /\ Checked' /\ Undoable' /\ EditsKept
<1> DEFINE Good == Elsewhere' /\ Checked' /\ Undoable' /\ EditsKept
<1> SUFFICES Good
  OBVIOUS
<1>t. /\ releaseProc \in [Process -> [at : ReleaseSteps, todo : SUBSET Files]]
      /\ live \in Trees /\ good \in Trees /\ fresh \in SUBSET Files
      /\ pending \in SUBSET Flights /\ draft \in Drafts
      /\ backups \in [ReleaseIds -> [Files -> Contents \cup {Missing}]]
  BY DEF InstallInv, InstallTypes
<1>p. Process = {"agent", "worker"}
  BY DEF Process
<1>u. {"down", "off", "idle", "tested", "recover", "wait", "confirm"} \subseteq Unnamed
  BY DEF Unnamed
<1>q. ASSUME UNCHANGED <<live, pending, backups, good, fresh>>,
             \A p \in Process : releaseProc'[p] = releaseProc[p]
                                \/ releaseProc'[p].at \in Unnamed,
             IsAt("agent", "backup")' \/ IsAt("agent", "journal")' \/ IsAt("agent", "install")'
                 => UNCHANGED draft
      PROVE  Good
  BY <1>q, QuietKept DEF EditsKept, InstallInv, Elsewhere, Changes
<1>e. live' = live => EditsKept
  BY DEF EditsKept
<1>1. ASSUME NEW f \in Files, OperatorEdits(f) PROVE Good
  <2>1. PICK content \in {Edit, Absent} \cup {release.before[f] : release \in pending} :
            live' = [live EXCEPT ![f] = content] /\ good' = [good EXCEPT ![f] = content]
    BY <1>1 DEF OperatorEdits
  <2>2. fresh' = fresh \cup {f} /\ UNCHANGED <<releaseProc, draft, pending, backups>>
    BY <1>1 DEF OperatorEdits
  <2>3. \A g \in Files : g \notin fresh' => live'[g] = live[g]
    BY <2>1, <2>2, <1>t DEF Trees
  <2>4. EditsKept
    BY <2>3 DEF EditsKept
  <2>5. Elsewhere'
    BY <2>1, <2>2, <1>t DEF InstallInv, Elsewhere, Changes, Trees
  <2>6. Checked' /\ Undoable'
    BY <2>2, <2>3, QuietKept
  <2> QED
    BY <2>4, <2>5, <2>6
<1>2. ASSUME NEW f \in Files, InstallsFile(f) PROVE Good
  <2>1. /\ pending = Journal("installing") /\ IsAt("agent", "install") /\ IsAt("worker", "off")
        /\ f \in Changes(draft)
    BY <1>2 DEF InstallsFile, InstallInv, Control, AgentAlone, WorkerAlone, Checked, IsAt
  <2>2. /\ live' = [live EXCEPT ![f] = draft.after[f]]
        /\ releaseProc' = [releaseProc EXCEPT !["agent"].todo = @ \ {f}]
        /\ f \in releaseProc["agent"].todo
        /\ UNCHANGED <<draft, pending, backups, good, fresh>>
    BY <1>2 DEF InstallsFile, Sets
  <2>3. \E release \in pending : release.before = draft.before /\ release.after = draft.after
    BY <2>1 DEF Journal
  <2>4. EditsKept
    BY <2>1, <2>2, <2>3, <1>t DEF EditsKept, InstallInv, Checked, Trees
  <2>5. Elsewhere'
    BY <2>1, <2>2, <1>t DEF InstallInv, Elsewhere, Changes, Trees, Journal
  <2>6. Checked'
    BY <2>1, <2>2, <1>t, <1>p DEF InstallInv, Checked, Changes, IsAt, Trees
  <2>7. Undoable'
    BY <2>2 DEF InstallInv, Undoable, Changes
  <2> QED
    BY <2>4, <2>5, <2>6, <2>7
<1>3. CASE AgentEnds
  BY <1>3, <1>q, <1>t, <1>p, <1>u DEF AgentEnds, Turns, AtRest, IsAt
<1>4. CASE WorkerEnds
  BY <1>4, <1>q, <1>t, <1>p, <1>u DEF WorkerEnds, Turns, AtRest, IsAt
<1>5. CASE AgentStarts
  BY <1>5, <1>q, <1>t, <1>p, <1>u DEF AgentStarts, Turns, AtRest, IsAt
<1>6. CASE DeployTests
  BY <1>6, <1>q, <1>t, <1>p, <1>u DEF DeployTests, Turns, AtRest, IsAt
<1>7. CASE DeployChecks
  <2>1. CASE pending = {} /\ Unchanged
    <3>1. /\ live = draft.before /\ IsAt("agent", "backup")'
          /\ IsAt("worker", "off")
      BY <1>7, <2>1, <1>t, <1>p DEF DeployChecks, Unchanged, Turns, AtRest, IsAt, InstallInv,
         Control, WorkerAlone, Installed
    <3>2. UNCHANGED <<live, draft, pending, backups, good>> /\ releaseProc'["worker"] = releaseProc["worker"]
          /\ ~IsAt("agent", "journal")' /\ ~IsAt("agent", "install")' /\ ~IsAt("agent", "rollback")'
      BY <1>7, <2>1, <1>t, <1>p DEF DeployChecks, Turns, AtRest, IsAt
    <3> QED
      BY <2>1, <3>1, <3>2, <1>e, <1>p DEF InstallInv, Elsewhere, Checked, Undoable, Changes, IsAt
  <2>2. CASE ~(pending = {} /\ Unchanged)
    BY <1>7, <2>2, <1>q, <1>t, <1>p, <1>u DEF DeployChecks, Turns, AtRest, IsAt
  <2> QED
    BY <2>1, <2>2
<1>8. CASE DeployBacksUp
  <2>1. CASE \E f \in Changes(draft) : draft.before[f] # Absent /\ live[f] = Absent
    BY <1>8, <2>1, <1>q, <1>t, <1>p, <1>u DEF DeployBacksUp, Turns, AtRest, IsAt
  <2>2. CASE ~\E f \in Changes(draft) : draft.before[f] # Absent /\ live[f] = Absent
    <3>1. /\ backups' = [backups EXCEPT ![draft.id] = BackedUp] /\ draft.id \in ReleaseIds
          /\ pending = {} /\ IsAt("agent", "backup") /\ IsAt("worker", "off")
      BY <1>8, <2>2 DEF DeployBacksUp, InstallInv, Control, AgentAlone, WorkerAlone,
         Installed, IsAt
    <3>2. /\ UNCHANGED <<live, draft, pending, good, fresh>>
          /\ releaseProc'["worker"] = releaseProc["worker"]
          /\ IsAt("agent", "journal")' /\ ~IsAt("agent", "install")' /\ ~IsAt("agent", "rollback")'
      BY <1>8, <2>2, <1>t, <1>p DEF DeployBacksUp, Turns, AtRest, IsAt
    <3>3. \A f \in Changes(draft) : draft.before[f] # Absent =>
            backups'[draft.id][f] # Missing
      BY <3>1, <1>t, ContentsKnown DEF BackedUp, Changes, Trees
    <3> QED
      BY <3>1, <3>2, <3>3, <1>e, <1>p DEF InstallInv, Elsewhere, Checked, Undoable, Changes, IsAt
  <2> QED
    BY <2>1, <2>2
<1>9. CASE DeployStarts
  <2>1. /\ IsAt("agent", "journal") /\ pending = {} /\ IsAt("worker", "off")
        /\ pending' = Journal("installing")
        /\ UNCHANGED <<live, draft, backups, good, fresh>>
    BY <1>9 DEF DeployStarts, InstallInv, Control, AgentAlone, WorkerAlone, Installed, IsAt
  <2>2. /\ releaseProc'["worker"] = releaseProc["worker"]
        /\ IsAt("agent", "install")' /\ ~IsAt("agent", "rollback")'
        /\ ~IsAt("agent", "backup")' /\ ~IsAt("agent", "journal")'
        /\ releaseProc'["agent"].todo = Changes(draft)
    BY <1>9, <1>t, <1>p DEF DeployStarts, IsAt
  <2>3. Elsewhere'
    BY <2>1, <1>t DEF InstallInv, Elsewhere, Journal, Changes
  <2>4. Undoable'
    BY <2>1, <1>t DEF InstallInv, Checked, Undoable, Journal, Changes
  <2>5. Checked'
    BY <2>1, <2>2, <1>p DEF InstallInv, Checked, Changes, IsAt
  <2> QED
    BY <2>1, <2>3, <2>4, <2>5, <1>e
<1>10. CASE InstallFails
  BY <1>10, <1>q, <1>t, <1>p, <1>u DEF InstallFails, Turns, AtRest, IsAt
<1>11. CASE DeployEnds
  <2>1. /\ IsAt("agent", "install") /\ pending = Journal("installing") /\ IsAt("worker", "off")
        /\ pending' = Journal("pending_health")
        /\ UNCHANGED <<live, backups, good, fresh>>
    BY <1>11 DEF DeployEnds, InstallInv, Control, AgentAlone, WorkerAlone, IsAt
  <2>2. releaseProc'["worker"] = releaseProc["worker"] /\ releaseProc'["agent"].at = "idle"
    BY <1>11, <1>t, <1>p DEF DeployEnds, Turns, AtRest
  <2>a. \A f \in Files \ Changes(draft) : live[f] = good[f]
    BY <2>1 DEF InstallInv, Elsewhere, Journal, Changes
  <2>3. Elsewhere'
    <3>1. /\ pending' # {}
          /\ \A r \in pending' : r.before = draft.before /\ r.after = draft.after
      BY <2>1 DEF Journal
    <3>2. \A r \in pending' : Changes(r) = Changes(draft)
      BY <3>1 DEF Changes
    <3> QED
      BY <2>1, <2>a, <3>1, <3>2 DEF Elsewhere, Changes
  <2>4. Undoable'
    BY <2>1, <1>t DEF InstallInv, Undoable, Journal, Changes
  <2>5. Checked'
    BY <2>1, <2>2, <1>p DEF InstallInv, Checked, Changes, IsAt
  <2> QED
    BY <2>1, <2>3, <2>4, <2>5, <1>e
<1>12. CASE Schedules
  BY <1>12, <1>q, <1>t, <1>p, <1>u DEF Schedules, Turns, AtRest, IsAt
<1>13. CASE WorkerStarts
  BY <1>13, <1>q, <1>t, <1>p, <1>u DEF WorkerStarts, Turns, AtRest, IsAt
<1>14. CASE WorkerHears
  BY <1>14, <1>q, <1>t, <1>p, <1>u DEF WorkerHears, Turns, AtRest, IsAt
<1>15. CASE Confirms
  <2>1. CASE \E release \in pending :
            AllAfter(release) /\ Turns("worker", "verified") /\ fresh' = {}
    <3>1. PICK release \in pending :
            AllAfter(release) /\ Turns("worker", "verified") /\ fresh' = {}
      BY <2>1
    <3>2. /\ \A r \in pending : r = release
          /\ IsAt("agent", "down") \/ IsAt("agent", "idle")
          /\ UNCHANGED <<live, draft, pending, backups, good>>
      BY <1>15 DEF Confirms, InstallInv, Control, OneInFlight, WorkerAlone, IsAt
    <3>3. releaseProc'["agent"] = releaseProc["agent"] /\ releaseProc'["worker"].at = "verified"
      BY <3>1, <1>t, <1>p DEF Turns, AtRest
    <3>4. Checked'
      BY <3>1, <3>2, <3>3, <1>p DEF Checked, Changes, IsAt, AllAfter
    <3> QED
      BY <3>2, <3>4, <1>e DEF InstallInv, Elsewhere, Undoable, Changes
  <2>2. CASE \E release \in pending :
            ~AllAfter(release) /\ Turns("worker", "off") /\ UNCHANGED fresh
    BY <1>15, <2>2, <1>q, <1>t, <1>p, <1>u DEF Confirms, Turns, AtRest, IsAt
  <2> QED
    BY <1>15, <2>1, <2>2 DEF Confirms
<1>16. CASE Verifies
  <2>1. PICK release \in pending : Settles(release) /\ Leaves(release, release.after)
    BY <1>16 DEF Verifies
  <2>2. /\ IsAt("worker", "verified")
        /\ IsAt("agent", "down") \/ IsAt("agent", "idle")
        /\ UNCHANGED <<live, draft, fresh>>
    BY <1>16 DEF Verifies, InstallInv, Control, WorkerAlone, IsAt
  <2>3. \A f \in Changes(release) \ fresh : live[f] = release.after[f]
    BY <2>2 DEF InstallInv, Checked
  <2>4. Elsewhere' /\ Undoable'
    BY <2>1, <2>2, <2>3, <1>t, SettledIsWhole DEF InstallInv, Control, Flights
  <2>5. releaseProc'["agent"] = releaseProc["agent"] /\ releaseProc'["worker"].at = "off"
    BY <1>16, <1>t, <1>p DEF Verifies, Turns, AtRest
  <2>6. Checked'
    BY <2>2, <2>5, <1>p DEF Checked, IsAt
  <2> QED
    BY <2>2, <2>4, <2>6, <1>e
<1>17. ASSUME NEW p \in Process, RollbackBegins(p) PROVE Good
  <2>1. CASE \E release \in pending : ~Restorable(release) /\ Reports(p) /\ UNCHANGED fresh
    BY <1>17, <2>1, <1>q, <1>t, <1>p, <1>u DEF RollbackBegins, Reports, Turns, AtRest, IsAt
  <2>2. ASSUME NEW release \in pending, Restorable(release), fresh' = {},
               releaseProc' = [releaseProc EXCEPT ![p] = [at |-> "rollback",
                                                          todo |-> Changes(release)]]
        PROVE  Good
    <3>1. /\ IsAt(p, "recover") /\ \A r \in pending : r = release
          /\ UNCHANGED <<live, draft, pending, backups, good>>
      BY <1>17, <2>2 DEF RollbackBegins, InstallInv, Control, OneInFlight
    <3>2. releaseProc'[p].at = "rollback" /\ releaseProc'[p].todo = Changes(release)
      BY <2>2, <1>t
    <3>3. PICK other \in Process : Process = {p, other} /\ other # p
      BY <1>p
    <3>4. releaseProc'[other] = releaseProc[other]
      BY <3>3, <2>2, <1>t
    <3>5. other = "agent" => IsAt("agent", "down") \/ IsAt("agent", "idle")
      BY <3>1, <3>3, <1>p DEF InstallInv, Control, WorkerAlone, IsAt
    <3>6. other = "worker" => IsAt("worker", "off")
      BY <3>1, <3>3, <1>p DEF InstallInv, Control, WorkerAlone, IsAt
    <3>7. Checked'
      BY <2>2, <3>1, <3>2, <3>3, <3>4, <3>5, <3>6, <1>p DEF Checked, Changes, IsAt, Restorable
    <3> QED
      BY <3>1, <3>7, <1>e DEF InstallInv, Elsewhere, Undoable, Changes
  <2> QED
    BY <1>17, <2>1, <2>2 DEF RollbackBegins
<1>18. ASSUME NEW p \in Process, NEW f \in Files, RollsBack(p, f) PROVE Good
  <2>1. CASE Reports(p) /\ UNCHANGED live
    BY <1>18, <2>1, <1>q, <1>t, <1>p, <1>u DEF RollsBack, Reports, Turns, AtRest, IsAt
  <2>2. ASSUME NEW release \in pending, Sets(f, release.before[f]),
               releaseProc' = [releaseProc EXCEPT ![p].todo = @ \ {f}]
        PROVE  Good
    <3>1. /\ IsAt(p, "rollback") /\ \A r \in pending : r = release
          /\ f \in releaseProc[p].todo
          /\ UNCHANGED <<draft, pending, backups, good, fresh>>
      BY <1>18, <2>2 DEF RollsBack, InstallInv, Control, OneInFlight
    <3>2. /\ releaseProc'[p].at = "rollback"
          /\ releaseProc'[p].todo = releaseProc[p].todo \ {f}
      BY <2>2, <3>1, <1>t DEF IsAt
    <3>3. PICK other \in Process : Process = {p, other} /\ other # p
      BY <1>p
    <3>4. releaseProc'[other] = releaseProc[other]
      BY <3>3, <2>2, <1>t
    <3>5. other = "agent" => IsAt("agent", "down") \/ IsAt("agent", "idle")
      BY <3>1, <3>3, <1>p DEF InstallInv, Control, WorkerAlone, IsAt
    <3>6. other = "worker" => IsAt("worker", "off")
      BY <3>1, <3>3, <1>p DEF InstallInv, Control, WorkerAlone, IsAt
    <3>7. /\ releaseProc[p].todo \subseteq Changes(release)
          /\ \A g \in Changes(release) \ fresh :
                live[g] \in IF g \in releaseProc[p].todo
                            THEN {release.before[g], release.after[g]}
                            ELSE {release.before[g]}
      BY <3>1 DEF InstallInv, Checked
    <3>8. \A g \in Files : live'[g] = IF g = f THEN release.before[f] ELSE live[g]
      BY <2>2, <1>t DEF Sets, Trees
    <3>9. Checked'
      BY <3>1, <3>2, <3>3, <3>4, <3>5, <3>6, <3>7, <3>8, <1>p DEF Checked, Changes, IsAt
    <3>10. EditsKept
      BY <3>1, <3>7, <3>8 DEF EditsKept
    <3>11. Elsewhere'
      BY <3>1, <3>7, <3>8 DEF InstallInv, Elsewhere, Changes
    <3> QED
      BY <3>1, <3>9, <3>10, <3>11 DEF InstallInv, Undoable, Changes
  <2> QED
    BY <1>18, <2>1, <2>2 DEF RollsBack
<1>19. ASSUME NEW p \in Process, RollbackEnds(p) PROVE Good
  <2>1. PICK release \in pending : Settles(release) /\ Leaves(release, release.before)
    BY <1>19 DEF RollbackEnds
  <2>2. /\ IsAt(p, "rollback") /\ releaseProc[p].todo = {}
        /\ p = "worker" => IsAt("agent", "down") \/ IsAt("agent", "idle")
        /\ p = "agent" => IsAt("worker", "off")
        /\ UNCHANGED <<live, draft, fresh>>
    BY <1>19, <1>p DEF RollbackEnds, InstallInv, Control, WorkerAlone, IsAt
  <2>3. \A f \in Changes(release) \ fresh : live[f] = release.before[f]
    <3>1. \A f \in Changes(release) \ fresh :
            live[f] \in IF f \in releaseProc[p].todo
                        THEN {release.before[f], release.after[f]}
                        ELSE {release.before[f]}
      BY <2>2 DEF InstallInv, Checked
    <3> QED
      BY <2>2, <3>1
  <2>4. Elsewhere' /\ Undoable'
    BY <2>1, <2>2, <2>3, <1>t, SettledIsWhole DEF InstallInv, Control, Flights
  <2>5. /\ releaseProc'["worker"].at = "off"
        /\ releaseProc'["agent"].at \in {"down", "idle"}
    BY <1>19, <2>2, <1>t, <1>p DEF RollbackEnds, Turns, AtRest, IsAt
  <2>6. Checked'
    BY <2>5, <1>p DEF Checked, IsAt
  <2> QED
    BY <2>2, <2>4, <2>6, <1>e
<1> HIDE DEF Good
<1> QED
  BY <1>1, <1>2, <1>3, <1>4, <1>5, <1>6, <1>7, <1>8, <1>9, <1>10, <1>11, <1>12, <1>13,
     <1>14, <1>15, <1>16, <1>17, <1>18, <1>19, Zenon DEF ReleaseNext

-----------------------------------------------------------------------------
\* The invariant holds at first, and every step keeps it.
LEMMA InstallSound == ReleaseSpec => []InstallInv
<1>1. ReleaseInit => InstallInv
  <2> SUFFICES ASSUME ReleaseInit PROVE InstallInv
    OBVIOUS
  <2>1. InstallTypes
    BY ContentsKnown DEF ReleaseInit, InstallTypes, Trees, Process, AtRest, ReleaseSteps, NoDraft,
       None, Drafts
  <2> QED
    BY <2>1 DEF ReleaseInit, InstallInv, Control, OneInFlight, WorkerAlone, AgentAlone,
       Elsewhere, Checked, Undoable, Process, AtRest, IsAt, Interrupted
<1>2. InstallInv /\ [ReleaseNext]_releaseVars => InstallInv'
  <2>1. ASSUME InstallInv, ReleaseNext PROVE InstallInv'
    <3>1. InstallTypes /\ Control /\ AgentAlone
      BY <2>1 DEF InstallInv, Control
    <3>2. InstallTypes' /\ Control'
      BY <2>1, <3>1, InstallTypesKept, ControlKept
    <3>3. Elsewhere' /\ Checked' /\ Undoable'
      BY <2>1, FilesKept
    <3> QED
      BY <3>2, <3>3 DEF InstallInv
  <2>2. ASSUME InstallInv, UNCHANGED releaseVars PROVE InstallInv'
    <3>1. InstallTypes'
      BY <2>2 DEF releaseVars, InstallInv, InstallTypes
    <3>2. Control'
      BY <2>2 DEF releaseVars, InstallInv, Control, OneInFlight, WorkerAlone, AgentAlone,
         IsAt, Interrupted, Installed, Journal
    <3>3. Elsewhere'
      BY <2>2 DEF releaseVars, InstallInv, Elsewhere, Changes
    <3>4. Checked' /\ Undoable'
      BY <2>2, QuietKept DEF releaseVars
    <3> QED
      BY <3>1, <3>2, <3>3, <3>4 DEF InstallInv
  <2> QED
    BY <2>1, <2>2
<1> QED
  BY <1>1, <1>2, PTL DEF ReleaseSpec

\* An installed release is whole or undone whole, whatever ends the agent or the
\* worker between two writes, and what the operator edits meanwhile is kept.
THEOREM ReleasesStayUndone == ReleaseSpec => ReleasesAreUndone
<1>1. InstallInv => ReleaseTypeOK
  <2> SUFFICES ASSUME InstallInv PROVE ReleaseTypeOK
    OBVIOUS
  <2>1. Cardinality(pending) <= 1
    <3>1. CASE pending = {}
      BY <3>1, FS_EmptySet
    <3>2. ASSUME NEW r \in pending PROVE Cardinality(pending) <= 1
      <4>1. pending = {r}
        BY DEF InstallInv, Control, OneInFlight
      <4> QED
        BY <4>1, FS_Singleton
    <3> QED
      BY <3>1, <3>2
  <2> QED
    BY <2>1 DEF InstallInv, InstallTypes, ReleaseTypeOK, Trees
<1>2. InstallInv => WholeWhenSettled /\ Undoable
  BY DEF InstallInv, Elsewhere, WholeWhenSettled
<1>3. InstallInv /\ InstallInv' /\ [ReleaseNext]_releaseVars => [ReleaseStep]_releaseVars
  <2>1. InstallInv' => ReleaseTypeOK' /\ WholeWhenSettled' /\ Undoable'
    BY <1>1, <1>2, PTL
  <2> QED
    BY <2>1, FilesKept DEF ReleaseStep
<1> QED
  BY <1>3, InstallSound, PTL DEF ReleaseSpec, ReleasesAreUndone
=============================================================================
