------------------------ MODULE MarketAndBits_proofs ------------------------
(***************************************************************************)
(* Theorems about two components that are each checked by a run of their   *)
(* own.  The store of bars (MarketStore), for any minutes, quiet minutes,  *)
(* page sizes, overlaps and depths of a download: writers end anywhere,    *)
(* jobs of the operator are killed anywhere, and a plan of deletion is     *)
(* applied however late.  The Bits agent and its shell jobs (BitsRunner),  *)
(* for any processes, actions, limits, crashes and lost writes: commands   *)
(* and requests have effect once, and none follows one whose outcome is    *)
(* uncertain.                                                              *)
(***************************************************************************)
EXTENDS MarketStore, BitsRunner, FiniteSetTheorems, WellFoundedInduction, TLAPS

-----------------------------------------------------------------------------
(* MarketStore: the store of bars under its lock, and the archive that a       *)
(* rebuild replays, which is ordered by name.                                  *)

BarMaps == [Minutes -> None .. Final]
Pages == [first : Minutes, last : Minutes, number : Nat, gz : BOOLEAN,
          bars : BarMaps]
Writings == [at : {"idle", "later", "ready", "held"}, bars : BarMaps, read : BarMaps]
Downloads == [at : {"idle", "fetch", "archive"}, from : {0} \cup Minutes,
              token : Tokens, depth : Nat, todo : SUBSET Pages]

\* The least and the greatest of a set of naturals.
LEMMA LeastExists ==
    ASSUME NEW S \in SUBSET Nat, S # {}
    PROVE  \E n \in S : \A y \in S : n <= y
<1> DEFINE R == OpToRel(<, Nat)
<1>1. PICK n \in S : \A y \in S : ~(<<y, n>> \in R)
  <2>1. IsWellFoundedOn(R, Nat)
    BY NatLessThanWellFounded
  <2> HIDE DEF R
  <2> QED BY <2>1, WFMin
<1>2. \A y \in S : ~(y < n)
  BY <1>1 DEF OpToRel
<1>3. \A y \in S : y \in Int
  OBVIOUS
<1> QED BY <1>2, <1>3

\* The operator Min of the community modules gives that least number.
LEMMA MinIsLeast ==
    ASSUME NEW S \in SUBSET Nat, S # {}
    PROVE  Min(S) \in S /\ \A y \in S : Min(S) <= y
<1>1. PICK n \in S : \A y \in S : n <= y
  BY LeastExists
<1>2. Min(S) \in S /\ \A y \in S : Min(S) <= y
  BY <1>1 DEF Min
<1> QED BY <1>2

\* The operator Max gives the greatest number of a finite set.
LEMMA MaxIsGreatest ==
    ASSUME NEW b \in Nat, NEW S \in SUBSET (0 .. b), S # {}
    PROVE  Max(S) \in S /\ \A y \in S : y <= Max(S)
<1> DEFINE T == {b - x : x \in S}
<1>0. \A x \in S : x \in Int /\ 0 <= x /\ x <= b
  OBVIOUS
<1>1. T \in SUBSET Nat /\ T # {}
  <2>1. \A x \in S : b - x \in Nat
    BY <1>0
  <2> QED BY <2>1
<1>2. PICK n \in T : \A y \in T : n <= y
  <2> HIDE DEF T
  <2> QED BY <1>1, LeastExists
<1>3. PICK x \in S : n = b - x
  OBVIOUS
<1>4. \A y \in S : y <= x
  <2>1. \A y \in S : b - x <= b - y
    BY <1>2, <1>3
  <2> QED BY <1>0, <2>1
<1>5. \A y \in S : x >= y
  BY <1>0, <1>4
<1>6. Max(S) \in S /\ \A y \in S : Max(S) >= y
  BY <1>5 DEF Max
<1> QED BY <1>0, <1>6

\* The order of the names is a strict one.
LEMMA BeforeIsTransitive ==
    ASSUME NEW p \in Pages, NEW q \in Pages, NEW r \in Pages, Before(p, q), Before(q, r)
    PROVE  Before(p, r)
BY DEF Before, Named, Pages, Minutes

\* No page is replayed before itself.
LEMMA BeforeIsIrreflexive ==
    ASSUME NEW p \in Pages
    PROVE  ~Before(p, p)
BY DEF Before, Named, Pages, Minutes

\* The page a rebuild takes a bar from.
LatestOf(holding) == CHOOSE p \in holding : \A q \in holding \ {p} : Before(q, p)

\* A page before another one of a set is not the page a bar is taken from.
LEMMA LatestWithout ==
    ASSUME NEW H \in SUBSET Pages, NEW p \in H, NEW later \in H, Before(p, later)
    PROVE  LatestOf(H \ {p}) = LatestOf(H)
<1>1. \A x \in H \ {p} :
        (\A q \in (H \ {p}) \ {x} : Before(q, x)) <=> (\A q \in H \ {x} : Before(q, x))
  <2> TAKE x \in H \ {p}
  <2>1. ASSUME \A q \in (H \ {p}) \ {x} : Before(q, x)
        PROVE  Before(p, x)
    <3>1. CASE later = x
      BY <3>1
    <3>2. CASE later # x
      <4>1. later # p
        BY BeforeIsIrreflexive
      <4>2. Before(later, x)
        BY <2>1, <3>2, <4>1
      <4> QED BY <4>2, BeforeIsTransitive
    <3> QED BY <3>1, <3>2
  <2> QED BY <2>1
<1>2. ~(\A q \in H \ {p} : Before(q, p))
  <2>1. later # p
    BY BeforeIsIrreflexive
  <2> SUFFICES ASSUME Before(later, p) PROVE FALSE
    BY <2>1
  <2>2. Before(p, p)
    BY BeforeIsTransitive
  <2> QED BY <2>2, BeforeIsIrreflexive
<1>3. \A x : (x \in H \ {p} /\ \A q \in (H \ {p}) \ {x} : Before(q, x))
              <=> (x \in H /\ \A q \in H \ {x} : Before(q, x))
  BY <1>1, <1>2
<1> QED BY <1>3 DEF LatestOf

\* Pages of one name hold the same bars: they are a page and its compression.
NamesAgree(archive) == \A p, q \in archive : Named(p, q) => p.bars = q.bars

\* A finite archive has a last page for each bar.
LEMMA LatestExists ==
    ASSUME NEW H \in SUBSET Pages, IsFiniteSet(H), NamesAgree(H), H # {}
    PROVE  LatestOf(H) \in H
<1> DEFINE After(p) == {q \in H : Before(p, q)}
           T == {After(p) : p \in H}
           R == StrictSubsetOrdering(H)
<1>1. PICK least \in T : \A t \in T : ~(<<t, least>> \in R)
  <2>1. IsWellFoundedOn(R, SUBSET H)
    BY FS_StrictSubsetOrderingWellFounded, FS_FiniteSubsetsOfFinite
  <2>2. T \subseteq SUBSET H /\ T # {}
    OBVIOUS
  <2> HIDE DEF R, T
  <2> QED BY <2>1, <2>2, WFMin
<1>2. PICK p \in H : least = After(p)
  OBVIOUS
<1>3. After(p) = {}
  <2> SUFFICES ASSUME NEW q \in H, Before(p, q) PROVE FALSE
    OBVIOUS
  <2>1. After(q) \subseteq After(p)
    BY BeforeIsTransitive
  <2>2. q \in After(p) /\ q \notin After(q)
    BY BeforeIsIrreflexive
  <2>3. <<After(q), After(p)>> \in R
    BY <2>1, <2>2 DEF StrictSubsetOrdering
  <2> QED BY <1>1, <1>2, <2>3
<1>4. ASSUME NEW q \in H \ {p} PROVE Before(q, p)
  <2>1. ~Before(p, q)
    BY <1>3
  <2>2. CASE ~Named(p, q)
    BY <2>1, <2>2 DEF Before, Named, Pages, Minutes
  <2>3. CASE Named(p, q)
    <3>1. p.bars = q.bars /\ p.gz \in BOOLEAN /\ q.gz \in BOOLEAN
      BY <2>3 DEF NamesAgree, Pages
    <3>2. p.gz # q.gz
      <4>1. /\ p = [first |-> p.first, last |-> p.last, number |-> p.number,
                    gz |-> p.gz, bars |-> p.bars]
            /\ q = [first |-> q.first, last |-> q.last, number |-> q.number,
                    gz |-> q.gz, bars |-> q.bars]
        BY DEF Pages
      <4> QED BY <2>3, <3>1, <4>1 DEF Named
    <3>3. q.gz = FALSE /\ p.gz = TRUE
      BY <2>1, <2>3, <3>1, <3>2 DEF Before
    <3>4. Named(q, p)
      BY <2>3 DEF Named
    <3> QED BY <3>3, <3>4 DEF Before
  <2> QED BY <2>2, <2>3
<1> QED BY <1>4 DEF LatestOf

\* What a rebuild gives is a map of bars.
LEMMA ReplayedType ==
    ASSUME NEW archive \in SUBSET Pages, IsFiniteSet(archive), NamesAgree(archive)
    PROVE  Replayed(archive) \in BarMaps
<1> SUFFICES ASSUME NEW m \in Minutes
             PROVE  Replayed(archive)[m] \in None .. Final
  BY DEF Replayed, BarMaps
<1> DEFINE holding == {p \in archive : p.bars[m] # None}
<1>1. Replayed(archive)[m] = IF holding = {} THEN None ELSE LatestOf(holding).bars[m]
  BY DEF Replayed, LatestOf
<1>2. holding # {} => LatestOf(holding) \in holding
  <2>1. IsFiniteSet(holding)
    BY FS_Subset
  <2> QED BY <2>1, LatestExists DEF NamesAgree
<1>3. \A p \in holding : p.bars[m] \in None .. Final
  BY DEF Pages, BarMaps
<1> HIDE DEF holding
<1> QED BY <1>1, <1>2, <1>3 DEF None, Final

\* Every bar of the page is, unchanged, in a page of the archive replayed later.
Spared(p, archive) ==
    \A m \in Held(p.bars) : \E q \in archive : Before(p, q) /\ q.bars[m] = p.bars[m]

\* Without such a page a rebuild gives the same.
LEMMA SparedIsLossless ==
    ASSUME NEW archive \in SUBSET Pages, NEW p \in Pages, Spared(p, archive)
    PROVE  Replayed(archive \ {p}) = Replayed(archive)
<1> DEFINE H(m) == {q \in archive : q.bars[m] # None}
           L(m) == {q \in archive \ {p} : q.bars[m] # None}
           Given(S, m) == IF S = {} THEN None ELSE LatestOf(S).bars[m]
<1>1. ASSUME NEW m \in Minutes PROVE Given(L(m), m) = Given(H(m), m)
  <2>1. L(m) = H(m) \ {p}
    OBVIOUS
  <2>2. CASE p \notin H(m)
    BY <2>1, <2>2
  <2>3. CASE p \in H(m)
    <3>1. m \in Held(p.bars)
      BY <2>3 DEF Held
    <3>2. PICK q \in archive : Before(p, q) /\ q.bars[m] = p.bars[m]
      BY <3>1 DEF Spared
    <3>3. q \in H(m) /\ q # p
      BY <2>3, <3>2, BeforeIsIrreflexive
    <3>4. LatestOf(L(m)) = LatestOf(H(m))
      BY <2>1, <2>3, <3>2, <3>3, LatestWithout
    <3> QED BY <2>1, <2>3, <3>3, <3>4
  <2> QED BY <2>2, <2>3
<1>2. Replayed(archive) = [m \in Minutes |-> Given(H(m), m)]
  BY DEF Replayed, LatestOf
<1>3. Replayed(archive \ {p}) = [m \in Minutes |-> Given(L(m), m)]
  BY DEF Replayed, LatestOf
<1> HIDE DEF Given, H, L
<1> QED BY <1>1, <1>2, <1>3

\* What was spared is spared by an archive that loses a page it is spared.
LEMMA StillSpared ==
    ASSUME NEW archive \in SUBSET Pages, NEW p \in Pages, Spared(p, archive),
           NEW q \in Pages, Spared(q, archive)
    PROVE  Spared(p, archive \ {q})
<1> SUFFICES ASSUME NEW m \in Held(p.bars)
             PROVE  \E r \in archive \ {q} : Before(p, r) /\ r.bars[m] = p.bars[m]
  BY DEF Spared
<1>1. PICK r \in archive : Before(p, r) /\ r.bars[m] = p.bars[m]
  BY DEF Spared
<1>2. CASE r # q
  BY <1>1, <1>2
<1>3. CASE r = q
  <2>1. m \in Held(q.bars)
    BY <1>1, <1>3 DEF Held
  <2>2. PICK s \in archive : Before(q, s) /\ s.bars[m] = q.bars[m]
    BY <2>1 DEF Spared
  <2>3. s # q
    BY <2>2, BeforeIsIrreflexive
  <2>4. Before(p, s)
    BY <1>1, <1>3, <2>2, BeforeIsTransitive
  <2> QED BY <1>1, <1>3, <2>2, <2>3, <2>4
<1> QED BY <1>2, <1>3

-----------------------------------------------------------------------------
(* The pages of a download hold every bar between their ends, so two pages of  *)
(* one name hold bars of the same minutes.                                     *)

WellPaged(p) == p.first <= p.last /\ Held(p.bars) = {m \in p.first .. p.last : m \notin Quiet}

\* Division keeps the order.
LEMMA DivKeepsOrder ==
    ASSUME NEW a \in Nat, NEW b \in Nat, a <= b, NEW c \in Nat \ {0}
    PROVE  a \div c \in Nat /\ b \div c \in Nat /\ a \div c <= b \div c
<1> DEFINE x == a \div c
           y == b \div c
<1>1. x \in Int /\ y \in Int /\ c * x <= a /\ b < c * (y + 1)
  OBVIOUS
<1>2. x \in Nat /\ y \in Nat
  OBVIOUS
<1> HIDE DEF x, y
<1>3. ASSUME y + 1 <= x PROVE FALSE
  <2>1. c * (y + 1) <= c * x
    BY <1>2, <1>3
  <2> QED BY <1>1, <1>2, <2>1
<1>4. x <= y
  BY <1>2, <1>3
<1> QED BY <1>2, <1>4 DEF x, y

\* The number of a page falls with the minutes it holds.
LEMMA NumbersFall ==
    ASSUME job.from \in Minutes, now \in Minutes, NEW a \in Bars, NEW b \in Bars, a <= b
    PROVE  /\ NumberOf(a) \in Nat /\ NumberOf(b) \in Nat
           /\ NumberOf(b) <= NumberOf(a)
<1> DEFINE After(m) == {n \in Bars : n > m}
<1>1. IsFiniteSet(Bars)
  <2>1. Bars \subseteq job.from .. now
    BY DEF Bars
  <2>2. IsFiniteSet(job.from .. now)
    BY FS_Interval DEF Minutes
  <2> QED BY <2>1, <2>2, FS_Subset
<1>2. After(b) \subseteq After(a)
  BY DEF Bars, Minutes
<1>3. IsFiniteSet(After(a))
  BY <1>1, FS_Subset
<1>4. /\ Cardinality(After(a)) \in Nat /\ Cardinality(After(b)) \in Nat
      /\ Cardinality(After(b)) <= Cardinality(After(a))
  BY <1>2, <1>3, FS_Subset, FS_CardinalityType
<1>5. PageSize \in Nat \ {0}
  BY MarketAssumption
<1>6. /\ Cardinality(After(a)) \div PageSize \in Nat
      /\ Cardinality(After(b)) \div PageSize \in Nat
      /\ Cardinality(After(b)) \div PageSize <= Cardinality(After(a)) \div PageSize
  BY <1>4, <1>5, DivKeepsOrder
<1>7. /\ NumberOf(a) = 1 + (Cardinality(After(a)) \div PageSize)
      /\ NumberOf(b) = 1 + (Cardinality(After(b)) \div PageSize)
  BY DEF NumberOf
<1> HIDE DEF After
<1> QED BY <1>6, <1>7

\* A page of a download.
LEMMA PageIsWhole ==
    ASSUME job.from \in Minutes, now \in Minutes, NEW m \in Bars
    PROVE  LET p == PageNumbered(NumberOf(m))
           IN  p \in Pages /\ WellPaged(p) /\ p.bars[m] # None
<1> DEFINE number == NumberOf(m)
           minutes == {n \in Bars : NumberOf(n) = number}
           p == PageNumbered(number)
           bars == [n \in Minutes |-> IF n \notin minutes THEN None
                                      ELSE IF n = now THEN Forming ELSE Final]
<1>1. /\ Bars \subseteq Minutes /\ \A n \in Bars : n \in Int
      /\ \A n \in Minutes : n \in Int /\ 1 <= n /\ n <= MaxMinute
  BY MarketAssumption DEF Bars, Minutes
<1>2. m \in minutes /\ minutes \in SUBSET Nat /\ minutes \in SUBSET (0 .. MaxMinute)
  BY <1>1
<1>3. number \in Nat
  BY <1>1, NumbersFall
<1>4. MaxMinute \in Nat
  BY MarketAssumption
<1>5. /\ Min(minutes) \in minutes /\ \A n \in minutes : Min(minutes) <= n
      /\ Max(minutes) \in minutes /\ \A n \in minutes : n <= Max(minutes)
  <2> HIDE DEF minutes
  <2> QED BY <1>2, <1>4, MinIsLeast, MaxIsGreatest
<1>6. /\ p.first = Min(minutes) /\ p.last = Max(minutes) /\ p.number = number
      /\ p.gz = FALSE /\ p.bars = bars
      /\ p = [first |-> Min(minutes), last |-> Max(minutes), number |-> number,
              gz |-> FALSE, bars |-> bars]
  BY DEF PageNumbered
<1>7. bars \in BarMaps
  BY DEF BarMaps, None, Forming, Final
<1>8. p.first \in Minutes /\ p.last \in Minutes /\ p.first <= p.last
  BY <1>1, <1>2, <1>5, <1>6
<1>9. p \in Pages
  <2> HIDE DEF p, bars, number, minutes
  <2> QED BY <1>3, <1>6, <1>7, <1>8 DEF Pages
<1>10. Held(p.bars) = minutes
  <2>1. \A n \in Minutes : bars[n] # None <=> n \in minutes
    BY DEF None, Forming, Final
  <2>2. minutes \subseteq Minutes
    BY <1>1
  <2> HIDE DEF bars, minutes, p
  <2> QED BY <1>6, <2>1, <2>2 DEF Held
<1>11. minutes = {n \in p.first .. p.last : n \notin Quiet}
  <2>1. ASSUME NEW n \in minutes PROVE n \in p.first .. p.last /\ n \notin Quiet
    BY <1>1, <1>5, <1>6, <2>1 DEF Bars
  <2>2. ASSUME NEW n \in p.first .. p.last, n \notin Quiet PROVE n \in minutes
    <3>1. n \in Int /\ p.first <= n /\ n <= p.last
      BY <1>1, <1>8
    <3>2. p.first \in Bars /\ p.last \in Bars
      BY <1>5, <1>6
    <3>3. n \in Bars
      BY <1>1, <2>2, <3>1, <3>2 DEF Bars, Minutes
    <3>4. /\ NumberOf(n) <= NumberOf(p.first) /\ NumberOf(p.last) <= NumberOf(n)
          /\ NumberOf(n) \in Nat
      BY <3>1, <3>2, <3>3, NumbersFall
    <3>5. NumberOf(p.first) = number /\ NumberOf(p.last) = number
      BY <1>5, <1>6
    <3> QED BY <1>3, <3>3, <3>4, <3>5
  <2> HIDE DEF minutes
  <2> QED BY <2>1, <2>2
<1>12. p.bars[m] # None
  BY <1>1, <1>2, <1>6 DEF None, Forming, Final
<1> QED BY <1>8, <1>9, <1>10, <1>11, <1>12 DEF WellPaged

\* What a download holds, and what of it is written, is on its pages.
LEMMA FetchedIsWhole ==
    ASSUME job.from \in Minutes, now \in Minutes, Bars # {}
    PROVE  /\ Fetched \subseteq Pages
           /\ \A p \in Fetched : WellPaged(p)
           /\ Joined(Fetched) \in BarMaps
           /\ Held(Joined(Fetched)) # {}
           /\ \A m \in Held(Joined(Fetched)) : \E p \in Fetched : p.bars[m] # None
<1>1. \A p \in Fetched : p \in Pages /\ WellPaged(p)
  BY PageIsWhole DEF Fetched
<1>2. Joined(Fetched) \in BarMaps
  <2>1. \A p \in Fetched : p.bars \in BarMaps
    BY <1>1 DEF Pages
  <2>2. ASSUME NEW m \in Minutes
        PROVE  (IF \E p \in Fetched : p.bars[m] # None
                THEN (CHOOSE p \in Fetched : p.bars[m] # None).bars[m] ELSE None)
                 \in None .. Final
    BY <2>1 DEF BarMaps, None, Final
  <2> QED BY <2>2 DEF Joined, BarMaps
<1>3. \A m \in Held(Joined(Fetched)) : \E p \in Fetched : p.bars[m] # None
  BY DEF Held, Joined
<1>4. PICK m \in Bars : TRUE
  OBVIOUS
<1>5. m \in Minutes
  BY MarketAssumption DEF Bars, Minutes
<1>6. \E p \in Fetched : p.bars[m] # None
  BY <1>4, PageIsWhole DEF Fetched
<1>7. Joined(Fetched)[m] # None
  BY <1>5, <1>6 DEF Joined
<1> QED BY <1>1, <1>2, <1>3, <1>5, <1>7 DEF Held
-----------------------------------------------------------------------------
(* The invariant: types; who writes holds the lock and what it has read is what *)
(* is stored; what a download writes is archived or about to be; and what a     *)
(* compaction has planned to delete is spared.                                  *)

MarketTypes ==
    /\ now \in Minutes
    /\ store \in [state : {"absent", "ok", "corrupt"}, bars : BarMaps]
    /\ lock \in Writers \cup {"none"}
    /\ writer \in [Writers -> Writings]
    /\ job \in Downloads
    /\ pages \in SUBSET Pages
    /\ doomed \in SUBSET Pages

StoreInv ==
    /\ store.state = "ok" => Held(store.bars) # {}
    /\ \A w \in Writers :
        /\ writer[w].at # "idle" => Held(writer[w].bars) # {}
        /\ writer[w].at = "held" =>
            /\ lock = w
            /\ w # "rebuild" /\ store.state = "ok" => writer[w].read = store.bars

JobInv ==
    /\ job.at = "fetch" => job.from \in Minutes
    /\ job.at = "archive" <=> writer["job"].at = "later"
    /\ job.at # "archive" => job.todo = {}
    /\ \A m \in Held(writer["job"].bars) :
         \E p \in pages \cup job.todo : p.bars[m] # None

ArchiveInv ==
    /\ IsFiniteSet(pages)
    /\ NamesAgree(pages)
    /\ \A p \in pages \cup job.todo : WellPaged(p)
    /\ \A p \in doomed : Spared(p, pages)

MarketInv == MarketTypes /\ StoreInv /\ JobInv /\ ArchiveInv

\* The minutes start at one.
LEMMA MinuteTypes == 1 \in Minutes /\ \A m \in Minutes : m \in Int /\ 1 <= m /\ m <= MaxMinute
BY MarketAssumption DEF Minutes

\* The empty store has no bar in any minute.
LEMMA EmptyIsEmpty ==
    /\ Empty \in BarMaps /\ Held(Empty) = {}
    /\ Idle \in Writings /\ Idle.at = "idle" /\ Idle.bars = Empty
    /\ NoJob \in Downloads /\ NoJob.at = "idle" /\ NoJob.todo = {}
<1>1. Empty \in BarMaps /\ Held(Empty) = {}
  BY DEF Empty, BarMaps, Held, None, Final
<1> QED BY <1>1 DEF Idle, Writings, NoJob, Downloads, Tokens

\* An empty store and an empty archive lose nothing.
LEMMA MarketInitHolds == MarketInit => MarketInv
<1> SUFFICES ASSUME MarketInit PROVE MarketInv
  OBVIOUS
<1>1. MarketTypes
  BY MinuteTypes, EmptyIsEmpty DEF MarketInit, MarketTypes, Writers
<1>2. StoreInv /\ JobInv /\ ArchiveInv
  BY EmptyIsEmpty, FS_EmptySet DEF MarketInit, StoreInv, JobInv, ArchiveInv, Writers, NamesAgree
<1> QED BY <1>1, <1>2 DEF MarketInv

-----------------------------------------------------------------------------
(* The writers and the environment.                                            *)

\* The archive and the download are left alone, and so is what the download
\* has yet to write.
LEMMA ArchiveStays ==
    ASSUME MarketInv, UNCHANGED <<pages, job, doomed>>,
           \/ writer'["job"].bars = writer["job"].bars
           \/ writer'["job"].bars = Empty,
           writer'["job"].at = "later" <=> writer["job"].at = "later"
    PROVE  JobInv' /\ ArchiveInv'
<1>1. ArchiveInv'
  BY DEF MarketInv, ArchiveInv
<1>2. \A m \in Held(writer'["job"].bars) :
        \E p \in pages \cup job.todo : p.bars[m] # None
  BY EmptyIsEmpty DEF MarketInv, JobInv
<1>3. JobInv'
  BY <1>2 DEF MarketInv, JobInv
<1> QED BY <1>1, <1>3

\* A writer takes the lock, or fails on a file it cannot read.
LEMMA LocksKeeps ==
    ASSUME MarketInv, NEW w \in Writers, Locks(w)
    PROVE  MarketInv'
<1> USE DEF MarketInv
<1>1. "job" \in Writers /\ writer \in [Writers -> Writings] /\ writer[w].at = "ready"
  BY DEF MarketTypes, Writers, Locks, MayLock
<1>2. CASE store.state = "corrupt" /\ w # "rebuild"
  <2>1. writer' = [writer EXCEPT ![w] = Idle] /\ UNCHANGED <<now, store, lock, pages, job, doomed>>
    BY <1>2 DEF Locks
  <2>2. MarketTypes'
    BY <1>1, <2>1, EmptyIsEmpty DEF MarketTypes
  <2>3. StoreInv'
    BY <1>1, <2>1, EmptyIsEmpty DEF StoreInv
  <2>4. JobInv' /\ ArchiveInv'
    BY <1>1, <2>1, EmptyIsEmpty, ArchiveStays
  <2> QED BY <2>2, <2>3, <2>4
<1>3. CASE ~(store.state = "corrupt" /\ w # "rebuild")
  <2> DEFINE read == IF w = "rebuild" THEN Empty ELSE store.bars
             mine == [writer[w] EXCEPT !.at = "held", !.read = read]
  <2>1. /\ lock = "none" /\ lock' = w
        /\ writer' = [writer EXCEPT ![w] = mine]
        /\ UNCHANGED <<now, store, pages, job, doomed>>
    BY <1>1, <1>3 DEF Locks, MayLock
  <2>2. read \in BarMaps
    BY EmptyIsEmpty DEF MarketTypes
  <2>3. /\ mine \in Writings /\ mine.at = "held" /\ mine.read = read
        /\ mine.bars = writer[w].bars
    BY <1>1, <2>2 DEF Writings
  <2>4. \A v \in Writers : writer[v].at # "held"
    BY <2>1 DEF StoreInv, Writers
  <2> HIDE DEF mine
  <2>5. MarketTypes'
    BY <1>1, <2>1, <2>3 DEF MarketTypes
  <2>6. StoreInv'
    BY <1>1, <2>1, <2>3, <2>4 DEF StoreInv
  <2>7. JobInv' /\ ArchiveInv'
    BY <1>1, <2>1, <2>3, ArchiveStays
  <2> QED BY <2>5, <2>6, <2>7
<1> QED BY <1>2, <1>3

\* A writer swaps the file under its lock: what was there is in what it wrote.
LEMMA SwapsKeeps ==
    ASSUME MarketInv, NEW w \in Writers, Swaps(w)
    PROVE  MarketInv' /\ StoreKeepsBars
<1> USE DEF MarketInv
<1>1. "job" \in Writers /\ writer \in [Writers -> Writings] /\ writer[w].at = "held"
  BY DEF MarketTypes, Writers, Swaps
<1>2. /\ writer' = [writer EXCEPT ![w] = Idle] /\ lock' = "none"
      /\ store' = [state |-> "ok", bars |-> Written(w)]
      /\ UNCHANGED <<now, pages, job, doomed>>
  BY DEF Swaps
<1>3. writer[w].bars \in BarMaps /\ writer[w].read \in BarMaps
  BY <1>1 DEF Writings
<1>4. Written(w) \in BarMaps
  BY <1>3 DEF Written, BarMaps
<1>5. Held(writer[w].bars) # {} /\ Held(writer[w].bars) \subseteq Held(Written(w))
  <2>1. Held(writer[w].bars) # {}
    BY <1>1 DEF StoreInv
  <2> QED BY <2>1 DEF Held, Written
<1>6. \A v \in Writers : v # w => writer[v].at # "held"
  BY <1>1 DEF StoreInv
<1>7. MarketTypes'
  BY <1>1, <1>2, <1>4, EmptyIsEmpty DEF MarketTypes
<1>8. StoreInv'
  BY <1>1, <1>2, <1>5, <1>6, EmptyIsEmpty DEF StoreInv
<1>9. JobInv' /\ ArchiveInv'
  BY <1>1, <1>2, EmptyIsEmpty, ArchiveStays
<1>10. StoreKeepsBars
  <2> SUFFICES ASSUME NEW m \in Minutes, store.state = "ok", store.bars[m] # None,
                      Written(w)[m] = None
               PROVE  w = "rebuild"
    BY <1>1, <1>2 DEF StoreKeepsBars
  <2>1. w # "rebuild" => writer[w].read = store.bars
    BY <1>1 DEF StoreInv
  <2> QED BY <2>1 DEF Written
<1> QED BY <1>7, <1>8, <1>9, <1>10

\* A writer that is over gives the lock back.
LEMMA WriterEndsKeeps ==
    ASSUME MarketInv, NEW w \in Writers, WriterEnds(w)
    PROVE  MarketInv'
<1> USE DEF MarketInv
<1>1. /\ "job" \in Writers /\ writer \in [Writers -> Writings]
      /\ writer[w].at \in {"ready", "held"}
  BY DEF MarketTypes, Writers, WriterEnds
<1>2. /\ writer' = [writer EXCEPT ![w] = Idle]
      /\ lock' = IF lock = w THEN "none" ELSE lock
      /\ UNCHANGED <<now, store, pages, job, doomed>>
  BY DEF WriterEnds
<1>3. MarketTypes'
  BY <1>1, <1>2, EmptyIsEmpty DEF MarketTypes
<1>4. StoreInv'
  BY <1>1, <1>2, EmptyIsEmpty DEF StoreInv
<1>5. JobInv' /\ ArchiveInv'
  BY <1>1, <1>2, EmptyIsEmpty, ArchiveStays
<1> QED BY <1>3, <1>4, <1>5

\* The feed or a rebuild is about to write, or an unreadable file is moved away.
LEMMA ReadiesKeeps ==
    ASSUME MarketInv, FeedHears \/ Rebuilds
    PROVE  MarketInv' /\ StoreKeepsBars
<1> USE DEF MarketInv
<1>1. PICK w \in {"feed", "rebuild"}, bars \in BarMaps :
        /\ \/ writer' = writer
           \/ writer' = [writer EXCEPT ![w] = [Idle EXCEPT !.at = "ready", !.bars = bars]]
        /\ Held(bars) # {}
        /\ \/ store' = store
           \/ store.state = "corrupt" /\ store' = [state |-> "absent", bars |-> Empty]
        /\ UNCHANGED <<now, lock, pages, job, doomed>>
        /\ writer[w].at = "idle"
  <2>1. CASE FeedHears
    <3> DEFINE bars == [Empty EXCEPT ![now - 1] = Final]
    <3>1. now - 1 \in Minutes
      BY <2>1, MarketAssumption DEF FeedHears, MarketTypes, Minutes
    <3>2. bars \in BarMaps /\ Held(bars) # {}
      BY <3>1, EmptyIsEmpty DEF BarMaps, Held, None, Final
    <3>3. [Idle EXCEPT !.at = "ready", !.bars[now - 1] = Final]
            = [Idle EXCEPT !.at = "ready", !.bars = bars]
      BY DEF Idle
    <3> HIDE DEF bars
    <3> QED BY <2>1, <3>2, <3>3 DEF FeedHears
  <2>2. CASE Rebuilds
    <3> DEFINE rebuilt(cutoff) == From(Replayed(pages), cutoff)
    <3>1. \A cutoff : rebuilt(cutoff) \in BarMaps
      <4>1. Replayed(pages) \in BarMaps
        BY ReplayedType DEF MarketTypes, ArchiveInv
      <4> QED BY <4>1 DEF From, BarMaps, None, Final
    <3>2. PICK cutoff : LET bars == rebuilt(cutoff) IN
                          IF Held(bars) = {} THEN UNCHANGED writer
                          ELSE writer' = [writer EXCEPT !["rebuild"] =
                                              [Idle EXCEPT !.at = "ready", !.bars = bars]]
      BY <2>2 DEF Rebuilds
    <3>3. \E bars \in BarMaps :
            /\ Held(bars) # {}
            /\ \/ writer' = writer
               \/ writer' = [writer EXCEPT !["rebuild"] = [Idle EXCEPT !.at = "ready", !.bars = bars]]
      <4>1. CASE Held(rebuilt(cutoff)) # {}
        BY <3>1, <3>2, <4>1
      <4>2. CASE Held(rebuilt(cutoff)) = {}
        <5>1. writer' = writer
          BY <3>2, <4>2
        <5>2. [m \in Minutes |-> Final] \in BarMaps /\ Held([m \in Minutes |-> Final]) # {}
          BY MinuteTypes DEF BarMaps, Held, None, Final
        <5> QED BY <5>1, <5>2
      <4> QED BY <4>1, <4>2
    <3>4. /\ \/ store' = store
             \/ store.state = "corrupt" /\ store' = [state |-> "absent", bars |-> Empty]
          /\ UNCHANGED <<now, lock, pages, job, doomed>>
          /\ writer["rebuild"].at = "idle"
      BY <2>2 DEF Rebuilds
    <3> HIDE DEF rebuilt
    <3> QED BY <3>3, <3>4
  <2> QED BY <2>1, <2>2
<1> DEFINE mine == [Idle EXCEPT !.at = "ready", !.bars = bars]
<1>2. /\ mine \in Writings /\ mine.at = "ready" /\ mine.bars = bars
      /\ w \in Writers /\ w # "job" /\ "job" \in Writers
      /\ writer \in [Writers -> Writings] /\ bars \in BarMaps
  BY <1>1, EmptyIsEmpty DEF Writings, Idle, Writers, MarketTypes
<1>3. writer' = writer \/ writer' = [writer EXCEPT ![w] = mine]
  BY <1>1
<1> HIDE DEF mine
<1>4. MarketTypes'
  BY <1>1, <1>2, <1>3, EmptyIsEmpty DEF MarketTypes
<1>5. store' = store \/ store'.state = "absent"
  BY <1>1
<1>6. StoreInv'
  BY <1>1, <1>2, <1>3, <1>5 DEF StoreInv
<1>7. JobInv' /\ ArchiveInv'
  BY <1>1, <1>2, <1>3, ArchiveStays
<1>8. StoreKeepsBars
  BY <1>5 DEF StoreKeepsBars
<1> QED BY <1>4, <1>6, <1>7, <1>8
\* Time passes, or the file breaks.
LEMMA EnvironmentKeeps ==
    ASSUME MarketInv, MinutePasses \/ StoreBreaks
    PROVE  MarketInv' /\ StoreKeepsBars
<1> USE DEF MarketInv
<1>1. /\ UNCHANGED <<lock, pages, writer, job, doomed>>
      /\ store' = store \/ store' = [state |-> "corrupt", bars |-> Empty]
      /\ now' \in Minutes
  BY MarketAssumption DEF MinutePasses, StoreBreaks, MarketTypes, Minutes
<1>2. MarketTypes'
  BY <1>1, EmptyIsEmpty DEF MarketTypes
<1>3. StoreInv'
  BY <1>1 DEF StoreInv
<1>4. JobInv' /\ ArchiveInv'
  BY <1>1, ArchiveStays
<1>5. StoreKeepsBars
  BY <1>1 DEF StoreKeepsBars
<1> QED BY <1>2, <1>3, <1>4, <1>5

-----------------------------------------------------------------------------
(* The download.                                                               *)

\* A download starts from a minute.
LEMMA StartsAreMinutes ==
    ASSUME MarketInv
    PROVE  Starts \subseteq Minutes
<1> USE DEF MarketInv
<1>1. CASE store.state = "ok"
  <2> DEFINE held == Held(store.bars)
  <2>1. held # {} /\ held \subseteq Minutes
    BY <1>1 DEF StoreInv, Held
  <2>2. MaxMinute \in Nat /\ held \in SUBSET (0 .. MaxMinute) /\ Overlap \in Nat
    BY <2>1, MarketAssumption DEF Minutes
  <2>3. Max(held) \in Minutes
    <3> HIDE DEF held
    <3> QED BY <2>1, <2>2, MaxIsGreatest
  <2>4. Resumes \in Minutes
    <3>1. Resumes = IF Max(held) > Overlap THEN Max(held) - Overlap ELSE 1
      BY DEF Resumes
    <3> HIDE DEF held
    <3> QED BY <2>2, <2>3, <3>1, MarketAssumption DEF Minutes
  <2> QED BY <1>1, <2>4 DEF Starts, Windows
<1>2. CASE store.state # "ok"
  BY <1>2, MinuteTypes DEF Starts
<1> QED BY <1>1, <1>2

\* A download begins at one of the program's minutes, with nothing fetched yet.
LEMMA JobStartsKeeps ==
    ASSUME MarketInv, JobStarts
    PROVE  MarketInv'
<1> USE DEF MarketInv
<1>1. PICK from \in Starts :
        job' = [NoJob EXCEPT !.at = "fetch", !.from = from, !.token = "current"]
  BY DEF JobStarts
<1>2. /\ job.at = "idle" /\ writer["job"].at = "idle"
      /\ UNCHANGED <<now, store, lock, pages, writer, doomed>>
  BY DEF JobStarts
<1>3. from \in Minutes
  BY <1>1, StartsAreMinutes
<1>4. /\ job' \in Downloads /\ job'.at = "fetch" /\ job'.from = from /\ job'.todo = {}
  BY <1>1, <1>3 DEF NoJob, Downloads, Tokens
<1>5. job.todo = {}
  BY <1>2 DEF JobInv
<1>6. MarketTypes'
  BY <1>2, <1>4 DEF MarketTypes
<1>7. StoreInv'
  BY <1>2 DEF StoreInv
<1>8. JobInv'
  BY <1>2, <1>3, <1>4, <1>5 DEF JobInv
<1>9. ArchiveInv'
  BY <1>2, <1>4, <1>5 DEF ArchiveInv
<1> QED BY <1>6, <1>7, <1>8, <1>9

\* What the broker returns is to be archived, and then written.
LEMMA JobFetchesKeeps ==
    ASSUME MarketInv, JobFetches
    PROVE  MarketInv'
<1> USE DEF MarketInv
<1>1. /\ job.at = "fetch" /\ job.todo = {} /\ job.from \in Minutes /\ now \in Minutes
      /\ UNCHANGED <<now, store, lock, pages, doomed>>
      /\ writer \in [Writers -> Writings] /\ "job" \in Writers
      /\ writer["job"].at # "later"
  BY DEF JobFetches, JobInv, MarketTypes, Writers
<1>2. CASE Bars = {}
  <2>1. job' = NoJob /\ UNCHANGED writer
    BY <1>2 DEF JobFetches
  <2>2. MarketTypes'
    BY <1>1, <2>1, EmptyIsEmpty DEF MarketTypes
  <2>3. StoreInv'
    BY <1>1, <2>1 DEF StoreInv
  <2>4. JobInv'
    BY <1>1, <2>1, EmptyIsEmpty DEF JobInv
  <2>5. ArchiveInv'
    BY <1>1, <2>1, EmptyIsEmpty DEF ArchiveInv
  <2> QED BY <2>2, <2>3, <2>4, <2>5
<1>3. CASE Bars # {}
  <2> DEFINE joined == Joined(Fetched)
             mine == [Idle EXCEPT !.at = "later", !.bars = joined]
  <2>1. /\ job' = [NoJob EXCEPT !.at = "archive", !.todo = Fetched]
        /\ writer' = [writer EXCEPT !["job"] = mine]
    BY <1>3 DEF JobFetches
  <2>2. /\ Fetched \subseteq Pages
        /\ \A p \in Fetched : WellPaged(p)
        /\ joined \in BarMaps
        /\ Held(joined) # {}
        /\ \A m \in Held(joined) : \E p \in Fetched : p.bars[m] # None
    BY <1>1, <1>3, FetchedIsWhole
  <2>3. job' \in Downloads /\ job'.at = "archive" /\ job'.todo = Fetched
    BY <2>1, <2>2 DEF NoJob, Downloads, Tokens
  <2>4. mine \in Writings /\ mine.at = "later" /\ mine.bars = joined
    BY <2>2, EmptyIsEmpty DEF Writings, Idle
  <2> HIDE DEF mine, joined
  <2>5. MarketTypes'
    BY <1>1, <2>1, <2>3, <2>4 DEF MarketTypes
  <2>6. StoreInv'
    BY <1>1, <2>1, <2>2, <2>4 DEF StoreInv
  <2>7. JobInv'
    <3>1. writer'["job"] = mine
      BY <1>1, <2>1
    <3> QED BY <1>1, <2>2, <2>3, <2>4, <3>1 DEF JobInv
  <2>8. ArchiveInv'
    BY <1>1, <2>2, <2>3 DEF ArchiveInv
  <2> QED BY <2>5, <2>6, <2>7, <2>8
<1> QED BY <1>2, <1>3

\* A job that starts itself again downloads the same range: nothing is fetched yet.
LEMMA JobRefreshesKeeps ==
    ASSUME MarketInv, JobRefreshes
    PROVE  MarketInv'
<1> USE DEF MarketInv
<1>1. /\ job \in Downloads /\ job.at = "fetch"
      /\ job' = [job EXCEPT !.depth = @ + 1, !.token = "replaced"]
      /\ UNCHANGED <<now, store, lock, pages, writer, doomed>>
  BY DEF JobRefreshes, MarketTypes
<1>2. /\ job' \in Downloads /\ job'.at = job.at /\ job'.from = job.from
      /\ job'.todo = job.todo
  <2>1. job.depth + 1 \in Nat /\ "replaced" \in Tokens
    BY <1>1 DEF Downloads, Tokens
  <2> QED BY <1>1, <2>1 DEF Downloads
<1>3. MarketTypes'
  BY <1>1, <1>2 DEF MarketTypes
<1>4. StoreInv'
  BY <1>1 DEF StoreInv
<1>5. JobInv'
  BY <1>1, <1>2 DEF JobInv
<1>6. ArchiveInv'
  BY <1>1, <1>2 DEF ArchiveInv
<1> QED BY <1>3, <1>4, <1>5, <1>6

\* A download that fails, or that has archived its pages and goes on to write.
LEMMA JobOverKeeps ==
    ASSUME MarketInv, JobFails \/ JobWrites
    PROVE  MarketInv'
<1> USE DEF MarketInv
<1>1. /\ UNCHANGED <<now, store, lock, pages, doomed>> /\ job' = NoJob
      /\ writer \in [Writers -> Writings] /\ "job" \in Writers
  BY DEF JobFails, JobWrites, MarketTypes, Writers
<1>2. PICK mine :
        /\ writer' = [writer EXCEPT !["job"] = mine]
        /\ \/ mine = Idle
           \/ mine = writer["job"] /\ writer["job"].at # "later"
           \/ /\ mine = [writer["job"] EXCEPT !.at = "ready"]
              /\ job.at = "archive" /\ job.todo = {}
  <2>1. CASE JobFails
    <3>1. writer' = [writer EXCEPT !["job"] =
                       IF writer["job"].at = "later" THEN Idle ELSE writer["job"]]
      BY <2>1 DEF JobFails
    <3> QED BY <3>1
  <2>2. CASE JobWrites
    <3>1. writer' = [writer EXCEPT !["job"] = [writer["job"] EXCEPT !.at = "ready"]]
      BY <1>1, <2>2 DEF JobWrites
    <3> QED BY <2>2, <3>1 DEF JobWrites, Archived
  <2> QED BY <2>1, <2>2
<1>3. /\ mine \in Writings /\ mine.at # "later"
      /\ mine.at = "held" => mine = writer["job"]
      /\ mine.at # "idle" => Held(mine.bars) # {}
      /\ Held(mine.bars) # {} => mine.bars = writer["job"].bars /\ job.todo = {}
  <2>1. CASE mine = Idle
    BY <2>1, EmptyIsEmpty
  <2>2. CASE mine = writer["job"] /\ writer["job"].at # "later"
    BY <1>1, <2>2 DEF StoreInv, JobInv
  <2>3. CASE mine = [writer["job"] EXCEPT !.at = "ready"] /\ job.at = "archive" /\ job.todo = {}
    <3>1. writer["job"].at = "later" /\ writer["job"] \in Writings
      BY <1>1, <2>3 DEF JobInv
    <3>2. mine \in Writings /\ mine.at = "ready" /\ mine.bars = writer["job"].bars
      BY <2>3, <3>1 DEF Writings
    <3> QED BY <1>1, <2>3, <3>1, <3>2 DEF StoreInv
  <2> QED BY <1>2, <2>1, <2>2, <2>3
<1>4. MarketTypes'
  BY <1>1, <1>2, <1>3, EmptyIsEmpty DEF MarketTypes
<1>5. StoreInv'
  BY <1>1, <1>2, <1>3 DEF StoreInv
<1>6. writer'["job"] = mine
  BY <1>1, <1>2
<1>7. JobInv'
  BY <1>1, <1>3, <1>6, EmptyIsEmpty DEF JobInv
<1>8. ArchiveInv'
  BY <1>1, EmptyIsEmpty DEF ArchiveInv
<1> QED BY <1>4, <1>5, <1>7, <1>8

-----------------------------------------------------------------------------
(* The archive.                                                                *)

\* A page of the download is archived, unless there is one of its name, which
\* holds bars of the same minutes.
LEMMA JobArchivesKeeps ==
    ASSUME MarketInv, JobArchives
    PROVE  MarketInv' /\ pages \subseteq pages'
<1> USE DEF MarketInv
<1>1. PICK p \in job.todo :
        /\ pages' = IF \E q \in pages : Named(p, q) THEN pages ELSE pages \cup {p}
        /\ job' = [job EXCEPT !.todo = @ \ {p}]
  BY DEF JobArchives
<1>2. job.at = "archive" /\ UNCHANGED <<now, store, lock, writer, doomed>>
  BY DEF JobArchives
<1>3. /\ job \in Downloads /\ p \in Pages /\ WellPaged(p) /\ job.todo \subseteq Pages
      /\ pages \in SUBSET Pages /\ doomed \in SUBSET Pages
  BY DEF MarketTypes, Downloads, ArchiveInv
<1>4. /\ job' \in Downloads /\ job'.at = job.at /\ job'.from = job.from
      /\ job'.todo = job.todo \ {p}
  BY <1>1, <1>3 DEF Downloads
<1>5. pages \subseteq pages' /\ pages' \subseteq pages \cup {p}
  BY <1>1
<1>6. \E q \in pages' : Held(q.bars) = Held(p.bars)
  <2>1. CASE p \in pages'
    BY <2>1
  <2>2. CASE p \notin pages'
    <3>1. PICK q \in pages : Named(p, q)
      BY <1>1, <2>2
    <3>2. WellPaged(q)
      BY DEF ArchiveInv
    <3>3. Held(q.bars) = Held(p.bars)
      BY <1>3, <3>1, <3>2 DEF WellPaged, Named
    <3> QED BY <1>5, <3>1, <3>3
  <2> QED BY <2>1, <2>2
<1>7. MarketTypes'
  BY <1>2, <1>3, <1>4, <1>5 DEF MarketTypes
<1>8. StoreInv'
  BY <1>2 DEF StoreInv
<1>9. JobInv'
  <2>1. ASSUME NEW m \in Held(writer["job"].bars)
        PROVE  \E q \in pages' \cup job'.todo : q.bars[m] # None
    <3>1. PICK q \in pages \cup job.todo : q.bars[m] # None
      BY DEF JobInv
    <3>2. CASE q # p
      BY <1>4, <1>5, <3>1, <3>2
    <3>3. CASE q = p
      <4>1. m \in Held(p.bars)
        BY <3>1, <3>3 DEF Held
      <4>2. PICK r \in pages' : Held(r.bars) = Held(p.bars)
        BY <1>6
      <4> QED BY <4>1, <4>2 DEF Held
    <3> QED BY <3>2, <3>3
  <2> QED BY <1>2, <1>4, <2>1 DEF JobInv
<1>10. IsFiniteSet(pages') /\ NamesAgree(pages')
  <2>1. CASE \E q \in pages : Named(p, q)
    BY <1>1, <2>1 DEF ArchiveInv
  <2>2. CASE ~\E q \in pages : Named(p, q)
    <3>1. pages' = pages \cup {p}
      BY <1>1, <2>2
    <3>2. \A q \in pages : ~Named(p, q) /\ ~Named(q, p)
      BY <2>2 DEF Named
    <3>3. IsFiniteSet(pages')
      BY <3>1, FS_AddElement DEF ArchiveInv
    <3> QED BY <3>1, <3>2, <3>3 DEF ArchiveInv, NamesAgree
  <2> QED BY <2>1, <2>2
<1>11. ArchiveInv'
  <2>1. \A q \in doomed : Spared(q, pages')
    BY <1>5 DEF ArchiveInv, Spared
  <2>2. \A q \in pages' \cup job'.todo : WellPaged(q)
    BY <1>3, <1>4, <1>5 DEF ArchiveInv
  <2> QED BY <1>2, <1>10, <2>1, <2>2 DEF ArchiveInv
<1> QED BY <1>5, <1>7, <1>8, <1>9, <1>11

\* A plan takes pages that are spared; giving it up changes nothing.
LEMMA PlanKeeps ==
    ASSUME MarketInv, CompactionPlans \/ CompactionEnds
    PROVE  MarketInv'
<1> USE DEF MarketInv
<1>1. /\ UNCHANGED <<now, store, lock, pages, writer, job>>
      /\ doomed' \subseteq pages /\ \A p \in doomed' : Spared(p, pages)
  BY DEF CompactionPlans, CompactionEnds, Redundant, Spared
<1>2. MarketTypes'
  BY <1>1 DEF MarketTypes
<1>3. StoreInv' /\ JobInv'
  BY <1>1 DEF StoreInv, JobInv
<1>4. ArchiveInv'
  BY <1>1 DEF ArchiveInv
<1> QED BY <1>2, <1>3, <1>4

\* A page that is spared leaves the archive: what it held is held by others.
LEMMA PageLeaves ==
    ASSUME MarketInv, NEW p \in Pages, Spared(p, pages), pages' = pages \ {p},
           doomed' \subseteq doomed, UNCHANGED <<now, store, lock, writer, job>>
    PROVE  MarketInv' /\ ShrinkingIsLossless
<1> USE DEF MarketInv
<1>1. pages \in SUBSET Pages /\ doomed \in SUBSET Pages
  BY DEF MarketTypes
<1>2. MarketTypes'
  BY <1>1 DEF MarketTypes
<1>3. StoreInv'
  BY DEF StoreInv
<1>4. JobInv'
  <2>1. ASSUME NEW m \in Held(writer["job"].bars)
        PROVE  \E q \in pages' \cup job.todo : q.bars[m] # None
    <3>1. PICK q \in pages \cup job.todo : q.bars[m] # None
      BY DEF JobInv
    <3>2. CASE q # p
      BY <3>1, <3>2
    <3>3. CASE q = p
      <4>1. m \in Held(p.bars)
        BY <3>1, <3>3 DEF Held
      <4>2. PICK r \in pages : Before(p, r) /\ r.bars[m] = p.bars[m]
        BY <4>1 DEF Spared
      <4>3. r # p
        BY <4>2, BeforeIsIrreflexive
      <4> QED BY <3>1, <3>3, <4>2, <4>3
    <3> QED BY <3>2, <3>3
  <2> QED BY <2>1 DEF JobInv
<1>5. ArchiveInv'
  <2>1. \A q \in doomed' : Spared(q, pages')
    BY <1>1, StillSpared DEF ArchiveInv
  <2>2. IsFiniteSet(pages')
    BY FS_RemoveElement DEF ArchiveInv
  <2> QED BY <2>1, <2>2 DEF ArchiveInv, NamesAgree
<1>6. ShrinkingIsLossless
  BY <1>1, SparedIsLossless DEF ShrinkingIsLossless
<1> QED BY <1>2, <1>3, <1>4, <1>5, <1>6

\* A page that compaction deletes is spared: another, replayed after it, holds
\* its minutes.
LEMMA CompactionDeletesKeeps ==
    ASSUME MarketInv, CompactionDeletes
    PROVE  MarketInv' /\ ShrinkingIsLossless
<1>1. PICK p \in doomed : pages' = pages \ {p} /\ doomed' = doomed \ {p}
  BY DEF CompactionDeletes
<1>2. p \in Pages /\ Spared(p, pages)
  BY DEF MarketInv, MarketTypes, ArchiveInv
<1> QED BY <1>1, <1>2, PageLeaves DEF CompactionDeletes

\* The compressed page has the name and the bars of the plain one.
LEMMA CompressedIsPage ==
    ASSUME NEW p \in Pages, ~p.gz
    PROVE  LET z == Compressed(p)
           IN  /\ z \in Pages /\ z.bars = p.bars /\ Named(z, p) /\ Before(p, z)
               /\ z.first = p.first /\ z.last = p.last /\ z.number = p.number
<1> DEFINE z == Compressed(p)
<1>1. /\ z \in Pages /\ z.bars = p.bars /\ z.gz = TRUE
      /\ z.first = p.first /\ z.last = p.last /\ z.number = p.number
  BY DEF Compressed, Pages
<1> HIDE DEF z
<1> QED BY <1>1 DEF Named, Before, z

\* A compressed copy holds what its page holds, and is replayed in its place.
LEMMA CompressionWritesKeeps ==
    ASSUME MarketInv, CompressionWrites
    PROVE  MarketInv' /\ pages \subseteq pages'
<1> USE DEF MarketInv
<1>1. PICK p \in pages : ~p.gz /\ pages' = pages \cup {Compressed(p)}
  BY DEF CompressionWrites
<1>2. UNCHANGED <<now, store, lock, writer, job, doomed>>
  BY DEF CompressionWrites
<1> DEFINE z == Compressed(p)
<1>3. p \in Pages /\ pages \in SUBSET Pages
  BY DEF MarketTypes
<1>4. /\ z \in Pages /\ z.bars = p.bars /\ Named(z, p)
      /\ z.first = p.first /\ z.last = p.last
  BY <1>1, <1>3, CompressedIsPage
<1>5. pages' = pages \cup {z}
  BY <1>1
<1> HIDE DEF z
<1>6. MarketTypes'
  BY <1>2, <1>3, <1>4, <1>5 DEF MarketTypes
<1>7. StoreInv'
  BY <1>2 DEF StoreInv
<1>8. JobInv'
  BY <1>2, <1>5 DEF JobInv
<1>9. WellPaged(z)
  BY <1>4 DEF WellPaged, ArchiveInv
<1>10. NamesAgree(pages')
  <2>1. \A q \in pages : (Named(z, q) \/ Named(q, z)) => q.bars = p.bars
    BY <1>4 DEF ArchiveInv, NamesAgree, Named
  <2> QED BY <1>4, <1>5, <2>1 DEF ArchiveInv, NamesAgree
<1>11. IsFiniteSet(pages')
  BY <1>5, FS_AddElement DEF ArchiveInv
<1>12. \A q \in doomed : Spared(q, pages')
  BY <1>5 DEF ArchiveInv, Spared
<1>13. ArchiveInv'
  BY <1>2, <1>5, <1>9, <1>10, <1>11, <1>12 DEF ArchiveInv
<1> QED BY <1>5, <1>6, <1>7, <1>8, <1>13

\* The page that compression removes has its compressed copy.
LEMMA CompressionUnlinksKeeps ==
    ASSUME MarketInv, CompressionUnlinks
    PROVE  MarketInv' /\ ShrinkingIsLossless
<1>1. PICK p \in pages : ~p.gz /\ Compressed(p) \in pages /\ pages' = pages \ {p}
  BY DEF CompressionUnlinks
<1>2. p \in Pages
  BY DEF MarketInv, MarketTypes
<1>3. Compressed(p).bars = p.bars /\ Before(p, Compressed(p))
  BY <1>1, <1>2, CompressedIsPage
<1>4. Spared(p, pages)
  BY <1>1, <1>3 DEF Spared
<1> QED BY <1>1, <1>2, <1>4, PageLeaves DEF CompressionUnlinks

-----------------------------------------------------------------------------
\* Every step keeps the invariant and what is promised of it.
LEMMA MarketNextKeeps ==
    MarketInv /\ [MarketNext]_marketVars => MarketInv' /\ StoreKeepsBars /\ ShrinkingIsLossless
<1> SUFFICES ASSUME MarketInv, [MarketNext]_marketVars
             PROVE  MarketInv' /\ StoreKeepsBars /\ ShrinkingIsLossless
  OBVIOUS
<1>1. store' = store => StoreKeepsBars
  BY DEF StoreKeepsBars
<1>2. pages \subseteq pages' => ShrinkingIsLossless
  BY DEF ShrinkingIsLossless
<1>3. CASE MinutePasses \/ StoreBreaks
  BY <1>2, <1>3, EnvironmentKeeps DEF MinutePasses, StoreBreaks
<1>4. CASE \E w \in Writers : Locks(w) \/ Swaps(w) \/ WriterEnds(w)
  BY <1>1, <1>2, <1>4, LocksKeeps, SwapsKeeps, WriterEndsKeeps DEF Locks, Swaps, WriterEnds
<1>5. CASE FeedHears \/ Rebuilds
  BY <1>2, <1>5, ReadiesKeeps DEF FeedHears, Rebuilds
<1>6. CASE JobStarts \/ JobFetches \/ JobRefreshes
  BY <1>1, <1>2, <1>6, JobStartsKeeps, JobFetchesKeeps, JobRefreshesKeeps
     DEF JobStarts, JobFetches, JobRefreshes
<1>7. CASE JobFails \/ JobWrites
  BY <1>1, <1>2, <1>7, JobOverKeeps DEF JobFails, JobWrites
<1>8. CASE JobArchives
  BY <1>1, <1>2, <1>8, JobArchivesKeeps DEF JobArchives
<1>9. CASE CompactionPlans \/ CompactionEnds
  BY <1>1, <1>2, <1>9, PlanKeeps DEF CompactionPlans, CompactionEnds
<1>10. CASE CompactionDeletes
  BY <1>1, <1>10, CompactionDeletesKeeps DEF CompactionDeletes
<1>11. CASE CompressionWrites
  BY <1>1, <1>2, <1>11, CompressionWritesKeeps DEF CompressionWrites
<1>12. CASE CompressionUnlinks
  BY <1>1, <1>12, CompressionUnlinksKeeps DEF CompressionUnlinks
<1>13. CASE UNCHANGED marketVars
  BY <1>1, <1>2, <1>13 DEF marketVars, MarketInv, MarketTypes, StoreInv, JobInv,
     ArchiveInv
<1> QED
  BY <1>3, <1>4, <1>5, <1>6, <1>7, <1>8, <1>9, <1>10, <1>11, <1>12, <1>13 DEF MarketNext

\* The invariant gives the types, and that what is written is archived.
LEMMA MarketInvGives == MarketInv => MarketTypeOK /\ BrokerBarsAreArchived
<1> SUFFICES ASSUME MarketInv PROVE MarketTypeOK /\ BrokerBarsAreArchived
  OBVIOUS
<1> USE DEF MarketInv
<1>1. MarketTypeOK
  BY DEF MarketTypes, ArchiveInv, WellPaged, MarketTypeOK, BarMaps, Writings, Downloads
<1>2. BrokerBarsAreArchived
  BY DEF JobInv, BrokerBarsAreArchived
<1> QED BY <1>1, <1>2

\* No bar is lost, for any number of minutes, pages, quiet minutes, writers
\* that end anywhere and plans of deletion: the writers spare each other's bars,
\* a download is archived before it is stored, and a rebuild of the shrunken
\* archive gives the same (HistoricalDataStore, compact_raw_archive).
THEOREM BarsStayKept == MarketSpec => BarsAreKept
<1>1. MarketInit => MarketInv
  BY MarketInitHolds
<1>2. MarketInv' => MarketTypeOK' /\ BrokerBarsAreArchived'
  BY MarketInvGives, PTL
<1>3. MarketInv /\ [MarketNext]_marketVars => MarketInv' /\ BarsStep
  BY <1>2, MarketNextKeeps DEF BarsStep
<1> QED BY <1>1, <1>3, PTL DEF MarketSpec, BarsAreKept

-----------------------------------------------------------------------------
(* BitsRunner: the agent's commands and requests; first the invariant. *)

Up(p) == runner[p].state = "up"
Posted(c) == \E s \in 0 .. MaxSteps : posts[<<c, s>>] > 0
InCycle == {key \in JobKeys : key[1] = cycle.id}

BitsTypes ==
    /\ TypeOK
    /\ spawned \in [Keys -> Nat]
    /\ posts \in [Requests -> Nat]

\* Who is up holds the lock, and only he is in a tick; a monitor that has failed
\* too often has ended the run.
RunnerOK(p) ==
    /\ Up(p) => agentLock = p
    /\ runner[p].at # "wait" => Up(p)
    /\ runner[p].missed <= runner[p].failures
    /\ ~runner[p].stop => runner[p].failures < FailureLimit

RunnersInv == \A p \in Procs : RunnerOK(p)

\* What is about to be posted was not posted before, nor was what comes later in
\* the cycle; a doubt is only in a cycle that does not go on.
AtOK(p) ==
    /\ runner[p].at = "post" =>
          cycle.phase = "submitting" /\ doubt = {} /\ posts[Request] = 0
    /\ runner[p].at = "note" =>
          cycle.phase = "response" /\ cycle.action \in Actions /\ cycle.steps < MaxSteps

CycleOK ==
    /\ cycle.phase \in {"idle", "blocked"} => cycle.id = 0
    /\ cycle.phase \notin {"idle", "blocked"} => cycle.id \in CycleIds
    /\ cycle.phase = "job" => cycle.action \in Actions
    /\ cycle.phase \in {"workflow", "response", "job", "feedback"} => Posted(cycle.id)
    /\ cycle.id \in CycleIds =>
          \A s \in 0 .. MaxSteps :
             \/ s > cycle.steps
             \/ s = cycle.steps /\ cycle.phase \in {"job", "feedback"}
             => posts[<<cycle.id, s>>] = 0
    /\ doubt # {} => cycle.phase \in {"submitting", "blocked"}
    /\ PostedOnce

CycleInv == CycleOK /\ \A p \in Procs : AtOK(p)

\* The thread of a job that the runner has not noted yet has just begun.
JustStarted(key) ==
    /\ cycle.phase = "response"
    /\ worker[key].age = 0 /\ worker[key].at # "timed_out"
    /\ worker[key].proc \in Procs /\ runner[worker[key].proc].at = "note"

\* A row is written before its command is run, and is there as long as the cycle
\* is; a thread is alive only for the job that the cycle waits for, or for one of
\* a cycle that is over.
RowOK(key) ==
    /\ spawned[key] <= 1
    /\ key \in JobKeys \/ Live(key) => spawned[key] > 0
    /\ spawned[key] > 0 => Posted(key[1])
    /\ spawned[key] > 0 /\ key[1] = cycle.id => key \in JobKeys
    /\ worker[key].at # "none" <=> Live(key)
    /\ jobs[key].status \in Terminal => ~Live(key)
    /\ Live(key) /\ key[1] = cycle.id =>
          CycleKey = key /\ (cycle.phase = "job" \/ JustStarted(key))

JobsInv == \A key \in Keys : RowOK(key)

\* The rows of the cycle are the newest, and no more than its steps, but for the
\* one of a job that is not noted yet.
Few(rows, c) ==
    /\ IsFiniteSet(rows)
    /\ IF c.phase = "response" /\ c.steps < MaxSteps
       THEN Cardinality(rows \ {<<c.id, c.action[1]>>}) <= c.steps
       ELSE Cardinality(rows) <= c.steps

OrderInv ==
    /\ \E bound \in Nat : \A key \in Keys : jobs[key].rowid <= bound
    /\ \A key \in InCycle : \A other \in JobKeys :
          jobs[other].rowid > jobs[key].rowid => other \in InCycle
    /\ Few(InCycle, cycle)

\* An uncertain command keeps the cycle: it is blocked, waits for that very job,
\* or is about to be blocked by whoever is up or starts next.
Holds(key) ==
    \/ cycle.phase = "blocked"
    \/ cycle.phase = "job" /\ CycleKey = key
    \/ /\ cycle.phase = "response" /\ CycleKey = key
       /\ \A p \in Procs : Up(p) => runner[p].at \in {"note", "stop", "block"}
       /\ \/ jobs[key].status = "running"
          \/ /\ jobs[key].status = "unknown"
             /\ \E p \in Procs : runner[p].at \in {"stop", "block"}

CertainInv == \A key \in Keys \ forgotten : Unsettled(key) => Holds(key)

BitsInv == BitsTypes /\ RunnersInv /\ CycleInv /\ JobsInv /\ OrderInv /\ CertainInv

\* What a step may do when something is uncertain.
Halts ==
    spawned' # spawned \/ posts' # posts =>
        doubt = {} /\ \A key \in Keys \ forgotten : ~Unsettled(key)

-----------------------------------------------------------------------------
(* BitsRunner: what follows from the invariant, and steps of one shape. *)

\* The bounds are naturals.
LEMMA BitsSizes ==
    /\ MaxSteps \in Nat /\ MaxSteps > 0 /\ FailureLimit \in Nat /\ FailureLimit > 0
    /\ Keep \in Nat /\ Keep >= MaxSteps /\ JobLimit \in Nat /\ JobLimit > 0
    /\ AnswerLimit \in Nat /\ WorkflowLimit \in Nat /\ StaleAfter \in Nat
    /\ MaxCycles \in Nat /\ MaxFaults \in Nat /\ Nobody \notin Procs
BY BitsAssumption DEF Nobody

\* A key's cycle is a cycle, and the key of the cycle's action is a key.
LEMMA KeyNames ==
    /\ \A key \in Keys : key[1] \in CycleIds /\ key[1] # 0 /\ key = <<key[1], key[2]>>
    /\ cycle.id \in CycleIds /\ cycle.action \in Actions => CycleKey \in Keys
BY BitsSizes DEF Keys, CycleIds, CycleKey, Actions

\* The cycles that are not at work.
LEMMA RestingCycles ==
    /\ IdleCycle \in Cycles /\ IdleCycle.phase = "idle" /\ IdleCycle.id = 0 /\ IdleCycle.steps = 0
    /\ BlockedCycle \in Cycles /\ BlockedCycle.phase = "blocked" /\ BlockedCycle.id = 0
    /\ BlockedCycle.steps = 0
BY BitsSizes DEF IdleCycle, BlockedCycle, Cycles, Phases

\* A process that is not there.
LEMMA OffRunner ==
    /\ 0 \in 0 .. FailureLimit /\ Off \in Runners
    /\ Off.state = "off" /\ Off.at = "wait" /\ Off.missed = 0 /\ Off.failures = 0
<1>1. 0 \in 0 .. FailureLimit
  BY BitsSizes
<1> QED BY <1>1 DEF Off, Runners

\* One process is up.
LEMMA UpAlone ==
    ASSUME RunnersInv, NEW p \in Procs, Up(p)
    PROVE  /\ agentLock = p
           /\ \A q \in Procs : q # p => ~Up(q) /\ runner[q].at = "wait"
BY DEF RunnersInv, RunnerOK

\* While nobody holds the lock, nobody is in a tick.
LEMMA NobodyUp ==
    ASSUME RunnersInv, agentLock = Nobody
    PROVE  \A q \in Procs : ~Up(q) /\ runner[q].at = "wait"
BY BitsSizes DEF RunnersInv, RunnerOK

\* Nothing is uncertain where a tick goes on.
LEMMA NothingUncertain ==
    ASSUME CertainInv, NEW p \in Procs, Up(p), runner[p].at \in {"wait", "tick", "post"},
           cycle.phase \notin {"blocked", "job"}
    PROVE  \A key \in Keys \ forgotten : ~Unsettled(key)
BY DEF CertainInv, Holds

\* A runner goes to another place of its loop.
LEMMA Goes ==
    ASSUME runner \in [Procs -> Runners], RunnersInv, NEW p \in Procs, Up(p),
           NEW at \in {"stop", "block", "wait", "tick", "post", "note"},
           runner' = [runner EXCEPT ![p].at = at], UNCHANGED agentLock
    PROVE  /\ runner' \in [Procs -> Runners] /\ RunnersInv'
           /\ runner'[p].at = at /\ runner'[p].state = "up"
           /\ \A q \in Procs : q # p => runner'[q] = runner[q]
<1> DEFINE next == [runner[p] EXCEPT !.at = at]
<1>1. /\ next \in Runners /\ next.at = at /\ next.state = runner[p].state
      /\ next.missed = runner[p].missed /\ next.failures = runner[p].failures
      /\ next.stop = runner[p].stop
  BY DEF Runners
<1>2. runner' = [runner EXCEPT ![p] = next]
  OBVIOUS
<1> HIDE DEF next
<1> QED BY <1>1, <1>2 DEF RunnersInv, RunnerOK, Up

\* The runner moves where no part of the invariant looks.
Moves(p) ==
    /\ Up(p)' => Up(p)
    /\ \/ runner'[p].at = runner[p].at
       \/ runner[p].at \in {"wait", "tick", "post"} /\ runner'[p].at \in {"wait", "tick"}
       \/ runner[p].at = "stop" /\ runner'[p].at = "block"

\* Such a step keeps the invariant, whatever it does to the kill switch.
LEMMA QuietKeeps ==
    ASSUME BitsInv, runner' \in [Procs -> Runners], RunnersInv', \A p \in Procs : Moves(p),
           switch' \in Switches, agentLock' \in Procs \cup {Nobody},
           UNCHANGED <<cycle, jobs, worker, observed>>
    PROVE  BitsInv' /\ Halts
<1> USE DEF BitsInv
<1>0. UNCHANGED <<cycle, jobs, worker, spawned, posts, doubt, settled, forgotten>>
  BY DEF observed
<1>1. BitsTypes'
  BY <1>0 DEF BitsTypes, TypeOK
<1>2. CycleInv'
  BY <1>0 DEF CycleInv, CycleOK, AtOK, Moves, Posted, PostedOnce, Request
<1>3. \A key \in Keys : RowOK(key)'
  <2> SUFFICES ASSUME NEW key \in Keys PROVE RowOK(key)'
    OBVIOUS
  <2>1. JustStarted(key) => JustStarted(key)'
    BY <1>0 DEF JustStarted, Moves
  <2>2. RowOK(key)
    BY DEF JobsInv
  <2> QED BY <1>0, <2>1, <2>2 DEF RowOK, Live, JobKeys, CycleKey, Posted
<1>4. OrderInv'
  BY <1>0 DEF OrderInv, InCycle, JobKeys
<1>5. CertainInv'
  <2> SUFFICES ASSUME NEW key \in Keys \ forgotten, Unsettled(key)' PROVE Holds(key)'
    BY <1>0 DEF CertainInv
  <2>1. Holds(key)
    BY <1>0 DEF CertainInv, Unsettled
  <2>2. \A p \in Procs : Up(p)' => Up(p)
    BY DEF Moves
  <2>3. \A p \in Procs : runner[p].at \in {"note", "stop", "block"} =>
          runner'[p].at \in {"note", "stop", "block"}
    BY DEF Moves
  <2>4. \A p \in Procs : runner[p].at \in {"stop", "block"} => runner'[p].at \in {"stop", "block"}
    BY DEF Moves
  <2> QED BY <1>0, <2>1, <2>2, <2>3, <2>4 DEF Holds, CycleKey
<1>6. Halts
  BY <1>0 DEF Halts
<1> QED BY <1>1, <1>2, <1>3, <1>4, <1>5, <1>6 DEF JobsInv

\* The write of a status touches one row, if it is there.
LEMMA StatusSet ==
    ASSUME jobs \in [Keys -> Rows], NEW key \in Keys,
           NEW status \in Terminal \cup {"running", "unknown"}, SetStatus(key, status)
    PROVE  /\ jobs' \in [Keys -> Rows]
           /\ JobKeys' = JobKeys
           /\ \A k \in Keys : jobs'[k].rowid = jobs[k].rowid
           /\ \A k \in Keys : k # key => jobs'[k] = jobs[k]
           /\ key \in JobKeys => jobs'[key].status = status
           /\ key \notin JobKeys => jobs'[key] = jobs[key]
<1> DEFINE next == [jobs[key] EXCEPT !.status = status]
<1>1. next \in Rows /\ next.status = status /\ next.rowid = jobs[key].rowid
  BY DEF Rows
<1>2. status # "none"
  BY DEF Terminal
<1>3. CASE key \in JobKeys
  <2>1. jobs' = [jobs EXCEPT ![key] = next]
    BY <1>3 DEF SetStatus
  <2> HIDE DEF next
  <2>2. \A k \in Keys : jobs'[k].status # "none" <=> jobs[k].status # "none"
    BY <1>1, <1>2, <1>3, <2>1 DEF JobKeys
  <2> QED BY <1>1, <1>3, <2>1, <2>2 DEF JobKeys
<1>4. CASE key \notin JobKeys
  BY <1>4 DEF SetStatus, JobKeys
<1> QED BY <1>3, <1>4

\* The rows stay in order when neither the rows that are there nor the cycle change.
LEMMA OrderStays ==
    ASSUME OrderInv, JobKeys' = JobKeys, \A key \in Keys : jobs'[key].rowid = jobs[key].rowid,
           cycle'.phase = cycle.phase, cycle'.steps = cycle.steps, cycle'.id = cycle.id,
           cycle'.action = cycle.action
    PROVE  OrderInv'
<1>1. InCycle' = InCycle
  BY DEF InCycle
<1>2. Few(InCycle, cycle')
  BY DEF OrderInv, Few
<1>3. InCycle \subseteq Keys /\ JobKeys \subseteq Keys
  BY DEF InCycle, JobKeys
<1> QED BY <1>1, <1>2, <1>3 DEF OrderInv

\* The cycle ends, and nobody is about to post or to note anything.
LEMMA CycleEnds ==
    ASSUME BitsInv, runner' \in [Procs -> Runners], RunnersInv', switch' \in Switches,
           \A p \in Procs : runner'[p].at \notin {"post", "note"},
           UNCHANGED <<agentLock, worker, spawned, posts>>,
           jobs' \in [Keys -> Rows],
           \A key \in Keys :
              /\ jobs'[key].rowid <= jobs[key].rowid
              /\ key \in JobKeys' => key \in JobKeys
              /\ jobs'[key].status \in Terminal => jobs[key].status \in Terminal,
           \/ cycle' = BlockedCycle /\ doubt' = doubt
           \/ /\ cycle' = IdleCycle /\ doubt' = {}
              /\ \A key \in Keys \ forgotten' : ~Unsettled(key)'
    PROVE  BitsInv' /\ Halts
<1> USE DEF BitsInv
<1>1. cycle' \in Cycles /\ cycle'.phase \in {"idle", "blocked"} /\ cycle'.id = 0 /\ cycle'.steps = 0
      /\ (cycle'.phase = "blocked" \/ doubt' = {})
  BY RestingCycles
<1>2. BitsTypes'
  BY <1>1 DEF BitsTypes, TypeOK
<1>3. CycleInv'
  <2>1. 0 \notin CycleIds
    BY BitsSizes DEF CycleIds
  <2>2. PostedOnce'
    BY DEF CycleInv, CycleOK, PostedOnce
  <2> QED BY <1>1, <2>1, <2>2 DEF CycleInv, CycleOK, AtOK
<1>4. \A key \in Keys : RowOK(key)'
  <2> SUFFICES ASSUME NEW key \in Keys PROVE RowOK(key)'
    OBVIOUS
  <2>1. key[1] # cycle'.id
    BY <1>1, KeyNames
  <2>2. RowOK(key) /\ (Posted(key[1])' <=> Posted(key[1])) /\ (Live(key)' <=> Live(key))
    BY DEF JobsInv, Posted, Live
  <2> QED BY <2>1, <2>2 DEF RowOK
<1>5. OrderInv'
  <2>1. InCycle' = {}
    BY <1>1, KeyNames DEF InCycle, JobKeys
  <2>2. Few({}, cycle')
    BY <1>1, FS_EmptySet DEF Few
  <2>3. PICK bound \in Nat : \A key \in Keys : jobs[key].rowid <= bound
    BY DEF OrderInv
  <2>4. \A key \in Keys : jobs'[key].rowid \in Nat /\ jobs[key].rowid \in Nat
    BY DEF BitsTypes, TypeOK, Rows
  <2>5. \A key \in Keys : jobs'[key].rowid <= bound
    BY <2>3, <2>4
  <2> QED BY <2>1, <2>2, <2>5 DEF OrderInv
<1>6. CertainInv'
  BY RestingCycles DEF CertainInv, Holds
<1>7. Halts
  BY DEF Halts
<1> QED BY <1>2, <1>3, <1>4, <1>5, <1>6, <1>7 DEF JobsInv

-----------------------------------------------------------------------------
(* BitsRunner: the actions. *)

\* A stop and a start leave a switch.
LEMMA SwitchNames == Stopped \in Switches /\ Running \in Switches
BY DEF Stopped, Running, Switches, Reasons, StopReasons, StartReasons

\* A tick that waits, or begins, or is refused; a start that has stopped trading.
LEMMA WaitsKeep ==
    ASSUME BitsInv, NEW p \in Procs,
           \/ StopInterrupted(p) \/ TickBegins(p) \/ TickGated(p) \/ RefuseAction(p)
           \/ PostFails(p)
           \/ Ticking(p) /\ EndTick(p) /\ switch' \in Switches
              /\ UNCHANGED <<agentLock, cycle, jobs, worker, observed>>
    PROVE  BitsInv' /\ Halts
<1> USE DEF BitsInv
<1>1. runner \in [Procs -> Runners] /\ switch \in Switches
  BY DEF BitsTypes, TypeOK
<1>2. switch' \in Switches /\ UNCHANGED <<agentLock, cycle, jobs, worker, observed>>
  BY <1>1, SwitchNames DEF StopInterrupted, TickBegins, TickGated, RefuseAction, PostFails
<1>3. PICK at \in {"block", "wait", "tick"} :
        /\ runner' = [runner EXCEPT ![p].at = at]
        /\ \/ runner[p].at \in {"wait", "tick", "post"} /\ at \in {"wait", "tick"}
           \/ runner[p].at = "stop" /\ at = "block"
  BY DEF StopInterrupted, TickBegins, TickGated, RefuseAction, PostFails, BetweenTicks, Ticking,
     Answered, EndTick
<1>4. Up(p)
  BY DEF StopInterrupted, TickBegins, TickGated, RefuseAction, PostFails, BetweenTicks, Ticking,
     Answered, Up, RunnersInv, RunnerOK
<1>5. /\ runner' \in [Procs -> Runners] /\ RunnersInv'
      /\ runner'[p].at = at /\ runner'[p].state = "up"
      /\ \A q \in Procs : q # p => runner'[q] = runner[q]
  BY <1>1, <1>2, <1>3, <1>4, Goes
<1>6. \A q \in Procs : Moves(q)
  BY <1>3, <1>4, <1>5 DEF Moves, Up
<1>7. agentLock' \in Procs \cup {Nobody}
  BY <1>2 DEF BitsTypes, TypeOK
<1> QED BY <1>2, <1>5, <1>6, <1>7, QuietKeeps

\* Signals, stops of the account and what the monitor sees: flags and counters.
LEMMA FlagsKeep ==
    ASSUME BitsInv, NEW p \in Procs,
           \/ Terminate(p) \/ TickStopped(p) \/ MonitorMarks(p) \/ MonitorMisses(p)
    PROVE  BitsInv' /\ Halts
<1> USE DEF BitsInv
<1>1. /\ runner \in [Procs -> Runners] /\ switch \in Switches /\ switch.stopped \in BOOLEAN
  BY DEF BitsTypes, TypeOK, Switches
<1>2. switch' \in Switches /\ UNCHANGED <<agentLock, cycle, jobs, worker, observed>>
  BY <1>1, SwitchNames DEF Terminate, TickStopped, MonitorMarks, MonitorMisses
<1>3. runner[p] \in Runners /\ RunnerOK(p)
  BY <1>1 DEF RunnersInv
<1>4. PICK next \in Runners :
        /\ runner' = [runner EXCEPT ![p] = next]
        /\ next.at = runner[p].at /\ next.state = runner[p].state
        /\ next.missed <= next.failures /\ (~next.stop => next.failures < FailureLimit)
  <2>1. CASE Terminate(p) \/ TickStopped(p)
    <3>1. PICK stopped \in BOOLEAN :
            runner' = [runner EXCEPT ![p] = [runner[p] EXCEPT !.stop = TRUE, !.cancelled = stopped]]
      <4>1. CASE Terminate(p)
        <5>1. runner' = [runner EXCEPT ![p] = [runner[p] EXCEPT !.stop = TRUE,
                             !.cancelled = runner[p].cancelled]]
          <6>1. [runner[p] EXCEPT !.stop = TRUE, !.cancelled = runner[p].cancelled]
                  = [runner[p] EXCEPT !.stop = TRUE]
            BY <1>3 DEF Runners
          <6> QED BY <4>1, <6>1 DEF Terminate
        <5>2. runner[p].cancelled \in BOOLEAN
          BY <1>3 DEF Runners
        <5> QED BY <5>1, <5>2
      <4>2. CASE TickStopped(p)
        <5>1. runner' = [runner EXCEPT ![p] = [runner[p] EXCEPT !.stop = TRUE, !.cancelled = TRUE]]
          BY <4>2 DEF TickStopped
        <5> QED BY <5>1
      <4> QED BY <2>1, <4>1, <4>2
    <3>2. [runner[p] EXCEPT !.stop = TRUE, !.cancelled = stopped] \in Runners
      BY <1>3 DEF Runners
    <3> QED BY <1>3, <3>1, <3>2 DEF RunnerOK, Runners
  <2>2. CASE MonitorMarks(p)
    <3>1. PICK cancelled \in BOOLEAN :
            runner' = [runner EXCEPT ![p] =
               [runner[p] EXCEPT !.cancelled = cancelled, !.missed = 0]]
      <4>1. PICK breached \in BOOLEAN :
              runner' = [runner EXCEPT ![p] = [runner[p] EXCEPT
                 !.cancelled = @ \/ switch.stopped \/ breached, !.missed = 0]]
        BY <2>2 DEF MonitorMarks
      <4>2. (runner[p].cancelled \/ switch.stopped \/ breached) \in BOOLEAN
        OBVIOUS
      <4> QED BY <4>1, <4>2
    <3> DEFINE next == [runner[p] EXCEPT !.cancelled = cancelled, !.missed = 0]
    <3>2. 0 \in 0 .. FailureLimit /\ runner[p].failures \in 0 .. FailureLimit
      BY <1>3, BitsSizes DEF Runners
    <3>3. /\ next \in Runners /\ next.missed = 0 /\ next.failures = runner[p].failures
          /\ next.stop = runner[p].stop /\ next.at = runner[p].at
          /\ next.state = runner[p].state
      BY <1>3, <3>2 DEF Runners
    <3>4. runner' = [runner EXCEPT ![p] = next]
      BY <3>1
    <3> HIDE DEF next
    <3>5. next.missed <= next.failures /\ (~next.stop => next.failures < FailureLimit)
      BY <1>3, <3>2, <3>3, BitsSizes DEF RunnerOK
    <3> QED BY <3>3, <3>4, <3>5
  <2>3. CASE MonitorMisses(p)
    <3> DEFINE failures == runner[p].failures + 1
               missed == runner[p].missed + 1
               escalates == failures >= FailureLimit
               next(stop, cancelled) == [runner[p] EXCEPT !.failures = failures, !.missed = missed,
                                            !.stop = stop, !.cancelled = cancelled]
    <3>1. PICK stop \in BOOLEAN, cancelled \in BOOLEAN :
            runner' = [runner EXCEPT ![p] = next(stop, cancelled)] /\ (stop <=> escalates)
      <4>1. /\ escalates \in BOOLEAN
            /\ (runner[p].cancelled \/ (~escalates /\ switch.stopped)) \in BOOLEAN
        OBVIOUS
      <4>2. runner' = [runner EXCEPT ![p] =
                next(escalates, runner[p].cancelled \/ (~escalates /\ switch.stopped))]
        BY <2>3 DEF MonitorMisses
      <4> HIDE DEF next, escalates
      <4> QED BY <4>1, <4>2
    <3>2. ~runner[p].stop /\ runner[p].failures < FailureLimit
      BY <1>3, <2>3 DEF MonitorMisses, Monitoring, RunnerOK
    <3>3. /\ failures \in 0 .. FailureLimit /\ missed \in 0 .. FailureLimit /\ missed <= failures
          /\ (~stop => failures < FailureLimit)
      BY <1>3, <3>1, <3>2, BitsSizes DEF RunnerOK, Runners
    <3> HIDE DEF failures, missed
    <3>4. /\ next(stop, cancelled) \in Runners
          /\ next(stop, cancelled).failures = failures /\ next(stop, cancelled).missed = missed
          /\ next(stop, cancelled).stop = stop
          /\ next(stop, cancelled).at = runner[p].at
          /\ next(stop, cancelled).state = runner[p].state
      BY <1>3, <3>3 DEF Runners
    <3> QED BY <3>1, <3>3, <3>4
  <2> QED BY <2>1, <2>2, <2>3
<1>5. runner' \in [Procs -> Runners]
  BY <1>1, <1>4
<1>6. RunnersInv'
  BY <1>1, <1>2, <1>4 DEF RunnersInv, RunnerOK, Up
<1>7. \A q \in Procs : Moves(q)
  BY <1>1, <1>4 DEF Moves, Up
<1>8. agentLock' \in Procs \cup {Nobody}
  BY <1>2 DEF BitsTypes, TypeOK
<1> QED BY <1>2, <1>5, <1>6, <1>7, <1>8, QuietKeeps

\* The operator, or a tick of a blocked cycle, changes the switch alone.
LEMMA SwitchKeeps ==
    ASSUME BitsInv, OperatePaper \/ (\E p \in Procs : TickBlocked(p)) \/ UNCHANGED vars
    PROVE  BitsInv' /\ Halts
<1> USE DEF BitsInv
<1>1. switch \in Switches /\ runner \in [Procs -> Runners]
  BY DEF BitsTypes, TypeOK
<1>2. switch' \in Switches /\ UNCHANGED <<agentLock, runner, cycle, jobs, worker, observed>>
  BY <1>1, SwitchNames DEF OperatePaper, TickBlocked, vars, observed
<1>3. RunnersInv' /\ \A p \in Procs : Moves(p)
  BY <1>2 DEF RunnersInv, RunnerOK, Up, Moves
<1>4. agentLock' \in Procs \cup {Nobody}
  BY <1>2 DEF BitsTypes, TypeOK
<1> QED BY <1>1, <1>2, <1>3, <1>4, QuietKeeps

\* A runner that stops gives up the lock between two ticks.
LEMMA CloseKeeps ==
    ASSUME BitsInv, NEW p \in Procs, Close(p)
    PROVE  BitsInv' /\ Halts
<1> USE DEF BitsInv
<1> DEFINE next == [Off EXCEPT !.state = "exiting", !.cancelled = TRUE]
<1>1. /\ next \in Runners /\ next.state = "exiting" /\ next.at = "wait" /\ next.missed = 0
      /\ next.failures = 0
  BY OffRunner DEF Off, Runners
<1>2. /\ runner \in [Procs -> Runners] /\ runner' = [runner EXCEPT ![p] = next]
      /\ agentLock' = Nobody /\ UNCHANGED <<switch, cycle, jobs, worker, observed>>
      /\ Up(p) /\ runner[p].at = "wait" /\ switch' \in Switches
  BY DEF Close, BetweenTicks, Up, BitsTypes, TypeOK
<1> HIDE DEF next
<1>3. \A q \in Procs : q # p => ~Up(q) /\ runner[q].at = "wait"
  BY <1>2, UpAlone
<1>4. runner' \in [Procs -> Runners] /\ RunnersInv'
  BY <1>1, <1>2, <1>3, BitsSizes DEF RunnersInv, RunnerOK, Up
<1>5. \A q \in Procs : Moves(q)
  BY <1>1, <1>2, <1>3 DEF Moves, Up
<1> QED BY <1>2, <1>4, <1>5, QuietKeeps

\* The end of a cycle in a tick, and its being blocked after a restart.
LEMMA EndsKeep ==
    ASSUME BitsInv, NEW p \in Procs,
           \/ FinishCycle(p) \/ DropAction(p) \/ BlockInterrupted(p)
           \/ Ticking(p) /\ cycle.phase = "workflow" /\ cycle' = IdleCycle /\ EndTick(p)
              /\ UNCHANGED <<switch, agentLock, jobs, worker, faults, observed>>
    PROVE  BitsInv' /\ Halts
<1> USE DEF BitsInv
<1>1. /\ runner' = [runner EXCEPT ![p].at = "wait"] /\ Up(p)
      /\ UNCHANGED <<switch, agentLock, jobs, worker, spawned, posts, doubt, settled, forgotten>>
  BY DEF FinishCycle, DropAction, BlockInterrupted, Answered, Ticking, EndTick, Up, observed,
     RunnersInv, RunnerOK
<1>2. runner \in [Procs -> Runners] /\ switch \in Switches /\ jobs \in [Keys -> Rows]
  BY DEF BitsTypes, TypeOK
<1>3. /\ runner' \in [Procs -> Runners] /\ RunnersInv' /\ runner'[p].at = "wait"
      /\ \A q \in Procs : q # p => runner'[q] = runner[q]
  BY <1>1, <1>2, Goes
<1>4. \A q \in Procs : runner'[q].at \notin {"post", "note"}
  BY <1>1, <1>3, UpAlone
<1>5. \/ cycle' = BlockedCycle
      \/ cycle' = IdleCycle /\ runner[p].at = "tick" /\ cycle.phase \in {"workflow", "response"}
  BY DEF FinishCycle, DropAction, BlockInterrupted, Answered, Ticking
<1>6. cycle' = IdleCycle /\ cycle' # BlockedCycle =>
        doubt' = {} /\ \A key \in Keys \ forgotten' : ~Unsettled(key)'
  <2>1. cycle' = IdleCycle /\ cycle' # BlockedCycle =>
          doubt = {} /\ \A key \in Keys \ forgotten : ~Unsettled(key)
    BY <1>1, <1>5, NothingUncertain DEF CycleInv, CycleOK
  <2> QED BY <1>1, <2>1 DEF Unsettled
<1>7. \A key \in Keys : jobs'[key].rowid <= jobs[key].rowid
  BY <1>1, <1>2 DEF Rows
<1>8. JobKeys' = JobKeys
  BY <1>1 DEF JobKeys
<1> QED BY <1>1, <1>2, <1>3, <1>4, <1>5, <1>6, <1>7, <1>8, CycleEnds

\* The operator has reconciled what was uncertain while nobody ran.
LEMMA OperatorKeeps ==
    ASSUME BitsInv, OperatorRecovers \/ OperatorResets
    PROVE  BitsInv' /\ Halts
<1> USE DEF BitsInv
<1>1. /\ agentLock = Nobody /\ Reconciled
      /\ UNCHANGED <<agentLock, runner, worker, spawned, posts, forgotten>>
      /\ switch' \in Switches
  BY SwitchNames DEF OperatorRecovers, OperatorResets, BitsTypes, TypeOK
<1>2. runner \in [Procs -> Runners] /\ jobs \in [Keys -> Rows]
  BY DEF BitsTypes, TypeOK
<1>3. RunnersInv' /\ \A q \in Procs : runner'[q].at \notin {"post", "note"}
  BY <1>1, NobodyUp DEF RunnersInv, RunnerOK, Up
<1>4. /\ jobs' \in [Keys -> Rows]
      /\ \A key \in Keys :
            /\ jobs'[key].rowid <= jobs[key].rowid
            /\ jobs'[key].status # "none" => jobs[key].status # "none"
            /\ jobs'[key].status \in Terminal => jobs[key].status \in Terminal
  <2>1. CASE OperatorResets
    <3>1. NoRow \in Rows /\ NoRow.rowid = 0 /\ NoRow.status = "none"
      BY DEF NoRow, Rows
    <3>2. \A key \in Keys : jobs'[key] = NoRow
      BY <2>1 DEF OperatorResets
    <3>3. jobs' \in [Keys -> Rows]
      BY <2>1, <3>1 DEF OperatorResets
    <3>4. \A key \in Keys : jobs[key].rowid \in Nat
      BY <1>2 DEF Rows
    <3> QED BY <3>1, <3>2, <3>3, <3>4 DEF Terminal
  <2>2. CASE OperatorRecovers
    <3>1. \A row \in Rows : /\ Recovered(row) \in Rows /\ Recovered(row).rowid = row.rowid
                            /\ Recovered(row).status \in {row.status, "unknown"}
                            /\ row.status = "none" => Recovered(row).status = "none"
      BY DEF Recovered, Rows
    <3>2. jobs' = [key \in Keys |-> Recovered(jobs[key])]
      BY <2>2 DEF OperatorRecovers
    <3>3. \A key \in Keys : jobs[key] \in Rows /\ jobs[key].rowid \in Nat
      BY <1>2 DEF Rows
    <3> QED BY <3>1, <3>2, <3>3 DEF Terminal
  <2> QED BY <2>1, <2>2
<1>5. \A key \in Keys : key \in JobKeys' => key \in JobKeys
  BY <1>4 DEF JobKeys
<1>6. /\ cycle' = IdleCycle /\ doubt' = {}
      /\ \A key \in Keys \ forgotten' : ~Unsettled(key)'
  BY <1>1 DEF Reconciled, Unsettled
<1> QED BY <1>1, <1>2, <1>3, <1>4, <1>5, <1>6, CycleEnds

\* A tick takes the cycle on.  What it leaves uncertain still keeps the cycle.
LEMMA CycleMoves ==
    ASSUME BitsInv, NEW p \in Procs, Up(p),
           NEW at \in {"stop", "block", "wait", "tick", "post", "note"},
           runner' = [runner EXCEPT ![p].at = at],
           UNCHANGED <<switch, agentLock, jobs, worker, spawned, settled, forgotten>>,
           cycle' \in Cycles, cycle'.id = cycle.id,
           posts' \in [Requests -> Nat], \A c \in CycleIds : Posted(c) => Posted(c)',
           CycleOK', AtOK(p)', Few(InCycle, cycle'),
           \A key \in Keys : Live(key) /\ key[1] = cycle.id =>
              CycleKey' = key /\ (cycle'.phase = "job" \/ JustStarted(key)'),
           \A key \in Keys \ forgotten : Unsettled(key) => Holds(key)'
    PROVE  BitsInv'
<1> USE DEF BitsInv
<1>1. runner \in [Procs -> Runners]
  BY DEF BitsTypes, TypeOK
<1>2. /\ runner' \in [Procs -> Runners] /\ RunnersInv' /\ runner'[p].at = at
      /\ \A q \in Procs : q # p => runner'[q] = runner[q]
  BY <1>1, Goes
<1>3. BitsTypes'
  BY <1>2 DEF BitsTypes, TypeOK
<1>4. CycleInv'
  <2>1. \A q \in Procs : q # p => runner'[q].at = "wait"
    BY <1>2, UpAlone
  <2>2. \A q \in Procs : q # p => AtOK(q)'
    BY <2>1 DEF AtOK
  <2> QED BY <2>2 DEF CycleInv
<1>5. \A key \in Keys : RowOK(key)'
  <2> SUFFICES ASSUME NEW key \in Keys PROVE RowOK(key)'
    OBVIOUS
  <2>1. RowOK(key) /\ key[1] \in CycleIds
    BY KeyNames DEF JobsInv
  <2>2. (key \in JobKeys)' <=> key \in JobKeys
    BY DEF JobKeys
  <2>3. Live(key)' <=> Live(key)
    BY DEF Live
  <2>4. Live(key)' /\ key[1] = cycle'.id =>
          (CycleKey = key /\ (cycle.phase = "job" \/ JustStarted(key)))'
    BY <2>3
  <2> QED BY <2>1, <2>2, <2>3, <2>4 DEF RowOK
<1>6. OrderInv'
  <2>1. InCycle' = InCycle /\ JobKeys' = JobKeys
    BY DEF InCycle, JobKeys
  <2> QED BY <2>1 DEF OrderInv
<1>7. CertainInv'
  BY DEF CertainInv, Unsettled
<1> QED BY <1>2, <1>3, <1>4, <1>5, <1>6, <1>7 DEF JobsInv

\* A cycle that has no thread of its own: what is posted is not running.
LEMMA NoThread ==
    ASSUME BitsInv, NEW p \in Procs, Up(p), runner[p].at # "note", cycle.phase # "job"
    PROVE  \A key \in Keys : ~(Live(key) /\ key[1] = cycle.id)
<1>1. \A q \in Procs : runner[q].at # "note"
  BY UpAlone DEF BitsInv
<1> QED BY <1>1 DEF BitsInv, JobsInv, RowOK, JustStarted

\* The job is on record and the cycle waits for it.
LEMMA NoteKeeps ==
    ASSUME BitsInv, NEW p \in Procs, NoteJob(p)
    PROVE  BitsInv' /\ Halts
<1> USE DEF BitsInv
<1> DEFINE next == [cycle EXCEPT !.phase = "job", !.steps = @ + 1]
<1>1. /\ cycle' = next /\ runner' = [runner EXCEPT ![p].at = "wait"] /\ runner[p].at = "note"
      /\ UNCHANGED <<switch, agentLock, jobs, worker, spawned, posts, doubt, settled, forgotten>>
  BY DEF NoteJob, EndTick, observed
<1>2. /\ cycle.phase = "response" /\ cycle.action \in Actions /\ cycle.steps < MaxSteps
      /\ Up(p) /\ cycle \in Cycles /\ runner \in [Procs -> Runners]
  BY <1>1 DEF CycleInv, AtOK, RunnersInv, RunnerOK, BitsTypes, TypeOK
<1>3. cycle.steps + 1 \in 0 .. MaxSteps /\ cycle.steps \in Nat
  BY <1>2, BitsSizes DEF Cycles
<1>4. /\ next \in Cycles /\ next.phase = "job" /\ next.id = cycle.id
      /\ next.action = cycle.action /\ next.steps = cycle.steps + 1
  BY <1>2, <1>3 DEF Cycles, Phases
<1> HIDE DEF next
<1>5. CycleOK'
  <2>1. (\A c \in CycleIds : Posted(c)' <=> Posted(c)) /\ PostedOnce'
    BY <1>1 DEF Posted, CycleInv, CycleOK, PostedOnce
  <2>2. doubt' = {} /\ cycle.id \in CycleIds /\ Posted(cycle.id)
    BY <1>1, <1>2 DEF CycleInv, CycleOK
  <2>3. \A s \in 0 .. MaxSteps : s > cycle.steps => posts[<<cycle.id, s>>] = 0
    BY <2>2 DEF CycleInv, CycleOK
  <2>4. \A s \in 0 .. MaxSteps :
          s > cycle.steps + 1 \/ s = cycle.steps + 1 => posts'[<<cycle.id, s>>] = 0
    BY <1>1, <1>3, <2>3, BitsSizes
  <2> QED BY <1>1, <1>2, <1>4, <2>1, <2>2, <2>4 DEF CycleOK
<1>6. AtOK(p)'
  <2>1. runner'[p].at = "wait"
    BY <1>1, <1>2
  <2> QED BY <2>1 DEF AtOK
<1>7. Few(InCycle, cycle')
  <2>1. /\ IsFiniteSet(InCycle)
        /\ Cardinality(InCycle \ {CycleKey}) <= cycle.steps
    BY <1>2 DEF OrderInv, Few, CycleKey
  <2>2. Cardinality(InCycle) \in Nat /\ Cardinality(InCycle \ {CycleKey}) \in Nat
    BY <2>1, FS_CardinalityType, FS_RemoveElement
  <2>3. Cardinality(InCycle) <= Cardinality(InCycle \ {CycleKey}) + 1
    BY <2>1, <2>2, FS_RemoveElement
  <2>4. Cardinality(InCycle) <= cycle.steps + 1
    BY <1>3, <2>1, <2>2, <2>3
  <2> QED BY <1>1, <1>4, <2>1, <2>4 DEF Few
<1>8. CycleKey' = CycleKey
  BY <1>1, <1>4 DEF CycleKey
<1>9. \A key \in Keys : Live(key) /\ key[1] = cycle.id => CycleKey = key
  BY DEF JobsInv, RowOK
<1>10. \A key \in Keys \ forgotten : Unsettled(key) => Holds(key)'
  BY <1>1, <1>2, <1>4, <1>8 DEF CertainInv, Holds
<1>11. Halts
  BY <1>1 DEF Halts
<1>12. posts' \in [Requests -> Nat] /\ \A c \in CycleIds : Posted(c) => Posted(c)'
  BY <1>1 DEF BitsTypes, Posted
<1> QED BY <1>1, <1>2, <1>4, <1>5, <1>6, <1>7, <1>8, <1>9, <1>10, <1>11, <1>12, CycleMoves

\* An action that was claimed before: its row is the answer.
LEMMA ReplayKeeps ==
    ASSUME BitsInv, NEW p \in Procs, ReplayJob(p)
    PROVE  BitsInv' /\ Halts
<1> USE DEF BitsInv
<1>1. /\ runner' = [runner EXCEPT ![p].at = "note"] /\ runner[p].at = "tick" /\ Up(p)
      /\ cycle.phase = "response" /\ cycle.action # NoAction /\ cycle.steps < MaxSteps
      /\ UNCHANGED <<switch, agentLock, cycle, jobs, worker>>
      /\ UNCHANGED <<spawned, posts, doubt, settled, forgotten>>
  <2>1. /\ runner' = [runner EXCEPT ![p].at = "note"] /\ runner[p].at = "tick" /\ Up(p)
        /\ cycle.phase = "response" /\ cycle.action # NoAction /\ ~(cycle.steps >= MaxSteps)
        /\ UNCHANGED <<switch, agentLock, cycle, jobs, worker>>
        /\ UNCHANGED <<spawned, posts, doubt, settled, forgotten>>
    BY DEF ReplayJob, Claimable, Answered, Ticking, Spent, Up, observed
  <2>2. cycle.steps \in Nat
    BY BitsSizes DEF BitsTypes, TypeOK, Cycles
  <2> QED BY <2>1, <2>2, BitsSizes
<1>2. cycle.action \in Actions /\ cycle \in Cycles /\ posts \in [Requests -> Nat]
      /\ runner \in [Procs -> Runners]
  BY <1>1 DEF BitsTypes, TypeOK, Cycles
<1>3. CycleOK'
  BY <1>1 DEF CycleInv, CycleOK, Posted, PostedOnce
<1>4. AtOK(p)'
  <2>1. runner'[p].at = "note"
    BY <1>1, <1>2
  <2> QED BY <1>1, <1>2, <2>1 DEF AtOK
<1>5. Few(InCycle, cycle')
  BY <1>1 DEF OrderInv
<1>6. \A key \in Keys : ~(Live(key) /\ key[1] = cycle.id)
  BY <1>1, NoThread
<1>7. \A key \in Keys \ forgotten : ~Unsettled(key)
  BY <1>1, NothingUncertain
<1>8. Halts
  BY <1>1 DEF Halts
<1>9. \A c \in CycleIds : Posted(c) => Posted(c)'
  BY <1>1 DEF Posted
<1> QED BY <1>1, <1>2, <1>3, <1>4, <1>5, <1>6, <1>7, <1>8, <1>9, CycleMoves

\* The feedback of a result is persisted, and will be posted for the first time.
LEMMA FeedbackKeeps ==
    ASSUME BitsInv, NEW p \in Procs, PersistSubmission(p), cycle.phase = "feedback"
    PROVE  BitsInv' /\ Halts
<1> USE DEF BitsInv
<1> DEFINE next == [cycle EXCEPT !.phase = "submitting", !.action = NoAction, !.age = 0]
<1>1. /\ runner' = [runner EXCEPT ![p].at = "post"] /\ runner[p].at = "tick" /\ Up(p)
      /\ cycle' = next
      /\ UNCHANGED <<switch, agentLock, jobs, worker, spawned, posts, doubt, settled, forgotten>>
  BY DEF PersistSubmission, Ticking, Up, observed
<1>2. cycle \in Cycles /\ posts \in [Requests -> Nat] /\ runner \in [Procs -> Runners]
  BY DEF BitsTypes, TypeOK
<1>3. /\ next \in Cycles /\ next.phase = "submitting" /\ next.id = cycle.id
      /\ next.steps = cycle.steps
  <2>1. 0 \in 0 .. StaleAfter + 1
    BY BitsSizes
  <2> QED BY <1>2, <2>1 DEF Cycles, Phases
<1> HIDE DEF next
<1>4. cycle.id \in CycleIds /\ doubt = {} /\ cycle.steps \in 0 .. MaxSteps
  BY <1>2 DEF CycleInv, CycleOK, Cycles
<1>5. posts[<<cycle.id, cycle.steps>>] = 0
  BY <1>4 DEF CycleInv, CycleOK
<1>6. CycleOK'
  <2>1. PostedOnce'
    BY <1>1 DEF CycleInv, CycleOK, PostedOnce
  <2>2. \A s \in 0 .. MaxSteps : s > cycle.steps => posts'[<<cycle.id, s>>] = 0
    BY <1>1, <1>4 DEF CycleInv, CycleOK
  <2> QED BY <1>1, <1>3, <1>4, <2>1, <2>2 DEF CycleOK
<1>7. AtOK(p)'
  <2>1. runner'[p].at = "post"
    BY <1>1, <1>2
  <2>2. Request' = <<cycle.id, cycle.steps>>
    BY <1>1, <1>3 DEF Request
  <2> QED BY <1>1, <1>3, <1>4, <1>5, <2>1, <2>2 DEF AtOK
<1>8. Few(InCycle, cycle')
  BY <1>1, <1>3 DEF OrderInv, Few
<1>9. \A key \in Keys : ~(Live(key) /\ key[1] = cycle.id)
  BY <1>1, NoThread
<1>10. \A key \in Keys \ forgotten : ~Unsettled(key)
  BY <1>1, NothingUncertain
<1>11. Halts
  BY <1>1 DEF Halts
<1>12. posts' \in [Requests -> Nat] /\ \A c \in CycleIds : Posted(c) => Posted(c)'
  BY <1>1, <1>2 DEF Posted
<1> QED BY <1>1, <1>2, <1>3, <1>6, <1>7, <1>8, <1>9, <1>10, <1>11, <1>12, CycleMoves

\* The first request of a cycle has an id that nothing has.
LEMMA RequestKeeps ==
    ASSUME BitsInv, NEW p \in Procs, PersistSubmission(p), cycle.phase # "feedback"
    PROVE  BitsInv' /\ Halts
<1> USE DEF BitsInv
<1>1. PICK c \in NewIds :
        /\ runner' = [runner EXCEPT ![p].at = "post"] /\ runner[p].at = "tick" /\ Up(p)
        /\ cycle.phase = "idle" /\ cycle' = [IdleCycle EXCEPT !.phase = "submitting", !.id = c]
        /\ UNCHANGED <<switch, agentLock, jobs, worker, spawned, posts, doubt, settled, forgotten>>
  <2>1. /\ runner' = [runner EXCEPT ![p].at = "post"] /\ runner[p].at = "tick" /\ Up(p)
        /\ cycle.phase = "idle" /\ NewIds # {}
        /\ cycle' = [IdleCycle EXCEPT !.phase = "submitting", !.id = CHOOSE c \in NewIds : TRUE]
        /\ UNCHANGED <<switch, agentLock, jobs, worker, spawned, posts, doubt, settled, forgotten>>
    BY DEF PersistSubmission, Ticking, Up, observed
  <2> QED BY <2>1
<1> DEFINE next == [IdleCycle EXCEPT !.phase = "submitting", !.id = c]
<1>2. c \in CycleIds /\ c \in 0 .. MaxCycles /\ \A s \in 0 .. MaxSteps : posts[<<c, s>>] = 0
  BY BitsSizes DEF NewIds, CycleIds
<1>3. /\ next \in Cycles /\ next.phase = "submitting" /\ next.id = c /\ next.steps = 0
  <2>1. 0 \in 0 .. StaleAfter + 1 /\ 0 \in 0 .. MaxSteps
    BY BitsSizes
  <2> QED BY <1>2, <2>1 DEF IdleCycle, Cycles, Phases
<1>4. cycle' = next /\ runner \in [Procs -> Runners]
  BY <1>1 DEF BitsTypes, TypeOK
<1> HIDE DEF next
<1>5. /\ runner' \in [Procs -> Runners] /\ RunnersInv' /\ runner'[p].at = "post"
      /\ \A q \in Procs : q # p => runner'[q] = runner[q]
  BY <1>1, <1>4, Goes
<1>6. BitsTypes'
  BY <1>1, <1>3, <1>4, <1>5 DEF BitsTypes, TypeOK
<1>7. doubt' = {} /\ 0 \in 0 .. MaxSteps
  BY <1>1, BitsSizes DEF CycleInv, CycleOK
<1>8. CycleInv'
  <2>1. PostedOnce'
    BY <1>1 DEF CycleInv, CycleOK, PostedOnce
  <2>2. CycleOK'
    BY <1>1, <1>2, <1>3, <1>4, <1>7, <2>1 DEF CycleOK
  <2>3. \A q \in Procs : q # p => runner'[q].at = "wait"
    BY <1>1, <1>5, UpAlone
  <2>4. posts'[Request'] = 0
    BY <1>1, <1>2, <1>3, <1>4, <1>7 DEF Request
  <2>5. \A q \in Procs : AtOK(q)'
    BY <1>3, <1>4, <1>5, <1>7, <2>3, <2>4 DEF AtOK
  <2> QED BY <2>2, <2>5 DEF CycleInv
<1>9. \A key \in Keys : key[1] = c => spawned[key] = 0
  <2> SUFFICES ASSUME NEW key \in Keys, key[1] = c, spawned[key] # 0 PROVE FALSE
    OBVIOUS
  <2>1. spawned[key] > 0
    BY DEF BitsTypes
  <2>2. Posted(c)
    BY <2>1 DEF JobsInv, RowOK
  <2> QED BY <1>2, <2>2 DEF Posted
<1>10. \A key \in Keys : RowOK(key)'
  <2> SUFFICES ASSUME NEW key \in Keys PROVE RowOK(key)'
    OBVIOUS
  <2>1. RowOK(key) /\ (Posted(key[1])' <=> Posted(key[1])) /\ (Live(key)' <=> Live(key))
        /\ ((key \in JobKeys)' <=> key \in JobKeys)
    BY <1>1 DEF JobsInv, Posted, Live, JobKeys
  <2>2. key[1] = cycle'.id => spawned[key] = 0
    BY <1>3, <1>4, <1>9
  <2> QED BY <1>1, <2>1, <2>2 DEF RowOK
<1>11. OrderInv'
  <2>1. InCycle' = {}
    BY <1>1, <1>3, <1>4, <1>9 DEF InCycle, JobKeys, JobsInv, RowOK
  <2>2. Few({}, cycle')
    BY <1>3, <1>4, FS_EmptySet DEF Few
  <2> QED BY <1>1, <2>1, <2>2 DEF OrderInv
<1>12. CertainInv'
  <2>1. \A key \in Keys \ forgotten : ~Unsettled(key)
    BY <1>1, NothingUncertain
  <2> QED BY <1>1, <2>1 DEF CertainInv, Unsettled
<1>13. Halts
  BY <1>1 DEF Halts
<1> QED BY <1>5, <1>6, <1>8, <1>10, <1>11, <1>12, <1>13 DEF JobsInv

\* The POST: it is the first of this request, whatever becomes of its answer.
LEMMA PostKeeps ==
    ASSUME BitsInv, NEW p \in Procs, Post(p)
    PROVE  BitsInv' /\ Halts
<1> USE DEF BitsInv
<1>1. /\ runner' = [runner EXCEPT ![p].at = "wait"] /\ runner[p].at = "post"
      /\ posts' = [posts EXCEPT ![Request] = @ + 1]
      /\ \/ cycle' = [cycle EXCEPT !.phase = "workflow"] /\ doubt' = doubt
         \/ cycle' = cycle
      /\ UNCHANGED <<switch, agentLock, jobs, worker, spawned, settled, forgotten>>
  BY DEF Post, EndTick
<1>2. /\ cycle.phase = "submitting" /\ doubt = {} /\ posts[Request] = 0 /\ Up(p)
      /\ cycle \in Cycles /\ posts \in [Requests -> Nat] /\ runner \in [Procs -> Runners]
  BY <1>1 DEF CycleInv, AtOK, RunnersInv, RunnerOK, BitsTypes, TypeOK
<1>3. /\ cycle' \in Cycles /\ cycle'.id = cycle.id /\ cycle'.steps = cycle.steps
      /\ cycle'.phase \in {"workflow", "submitting"}
      /\ (cycle'.phase = "workflow" => doubt' = {})
  BY <1>1, <1>2 DEF Cycles, Phases
<1>4. cycle.id \in CycleIds /\ cycle.steps \in 0 .. MaxSteps /\ Request \in Requests
  BY <1>2 DEF CycleInv, CycleOK, Cycles, Request, Requests
<1>5. /\ posts' \in [Requests -> Nat] /\ posts'[Request] = 1
      /\ \A r \in Requests : r # Request => posts'[r] = posts[r]
  BY <1>1, <1>2, <1>4
<1>6. \A c \in CycleIds : Posted(c) => Posted(c)'
  <2> SUFFICES ASSUME NEW c \in CycleIds, NEW s \in 0 .. MaxSteps, posts[<<c, s>>] > 0
               PROVE  posts'[<<c, s>>] > 0
    BY DEF Posted
  <2>1. <<c, s>> \in Requests
    BY DEF Requests
  <2> QED BY <1>5, <2>1
<1>7. CycleOK'
  <2>1. PostedOnce'
    <3>1. DOMAIN posts = Requests /\ DOMAIN posts' = Requests
      BY <1>2, <1>5
    <3> QED BY <1>5, <3>1 DEF CycleInv, CycleOK, PostedOnce
  <2>2. Posted(cycle.id)'
    <3>1. cycle'.steps \in 0 .. MaxSteps /\ posts'[<<cycle'.id, cycle'.steps>>] > 0
      BY <1>3, <1>4, <1>5 DEF Request
    <3> QED BY <3>1 DEF Posted
  <2>3. \A s \in 0 .. MaxSteps : s > cycle.steps => posts'[<<cycle.id, s>>] = 0
    <3> SUFFICES ASSUME NEW s \in 0 .. MaxSteps, s > cycle.steps
                 PROVE  posts'[<<cycle.id, s>>] = 0
      OBVIOUS
    <3>1. posts[<<cycle.id, s>>] = 0
      BY <1>4 DEF CycleInv, CycleOK
    <3>2. <<cycle.id, s>> \in Requests /\ s # cycle.steps
      BY <1>4 DEF Requests
    <3>3. <<cycle.id, s>> # Request
      BY <3>2 DEF Request
    <3> QED BY <1>5, <3>1, <3>2, <3>3
  <2> QED BY <1>2, <1>3, <1>4, <2>1, <2>2, <2>3 DEF CycleOK
<1>8. AtOK(p)'
  <2>1. runner'[p].at = "wait"
    BY <1>1, <1>2
  <2> QED BY <2>1 DEF AtOK
<1>9. Few(InCycle, cycle')
  BY <1>2, <1>3 DEF OrderInv, Few
<1>10. \A key \in Keys : ~(Live(key) /\ key[1] = cycle.id)
  BY <1>1, <1>2, NoThread
<1>11. \A key \in Keys \ forgotten : ~Unsettled(key)
  BY <1>1, <1>2, NothingUncertain
<1>12. Halts
  BY <1>2, <1>11 DEF Halts
<1> QED BY <1>1, <1>2, <1>3, <1>5, <1>6, <1>7, <1>8, <1>9, <1>10, <1>11, <1>12, CycleMoves

\* The answer of the workflow.
LEMMA AnswerKeeps ==
    ASSUME BitsInv, NEW p \in Procs, PollWorkflow(p), cycle' # IdleCycle, cycle' # cycle
    PROVE  BitsInv' /\ Halts
<1> USE DEF BitsInv
<1>1. PICK action \in Actions \cup {NoAction} :
        /\ cycle' = [cycle EXCEPT !.phase = "response", !.action = action]
        /\ runner' = runner /\ runner[p].at = "tick" /\ Up(p) /\ cycle.phase = "workflow"
        /\ UNCHANGED <<switch, agentLock, jobs, worker, spawned, posts, doubt, settled, forgotten>>
  BY DEF PollWorkflow, Ticking, Up, observed
<1> DEFINE next == [cycle EXCEPT !.phase = "response", !.action = action]
<1>2. /\ cycle \in Cycles /\ posts \in [Requests -> Nat] /\ runner \in [Procs -> Runners]
      /\ next \in Cycles /\ next.phase = "response" /\ next.id = cycle.id
      /\ next.steps = cycle.steps /\ next.action = action
  BY DEF BitsTypes, TypeOK, Cycles, Phases
<1>3. cycle' = next
  BY <1>1
<1> HIDE DEF next
<1>4. runner' = [runner EXCEPT ![p].at = "tick"]
  <2>1. [runner[p] EXCEPT !.at = "tick"] = runner[p]
    BY <1>1, <1>2 DEF Runners
  <2> QED BY <1>1, <1>2, <2>1
<1>5. CycleOK'
  <2>1. PostedOnce' /\ \A c \in CycleIds : Posted(c)' <=> Posted(c)
    BY <1>1 DEF CycleInv, CycleOK, PostedOnce, Posted
  <2> QED BY <1>1, <1>2, <1>3, <2>1 DEF CycleInv, CycleOK
<1>6. AtOK(p)'
  BY <1>1 DEF AtOK
<1>7. Few(InCycle, cycle')
  <2>1. IsFiniteSet(InCycle) /\ Cardinality(InCycle) <= cycle.steps
    BY <1>1 DEF OrderInv, Few
  <2>2. Cardinality(InCycle) \in Nat /\ cycle.steps \in Nat
    BY <1>2, <2>1, FS_CardinalityType, BitsSizes DEF Cycles
  <2>3. \A key : Cardinality(InCycle \ {key}) <= cycle.steps
    BY <2>1, <2>2, FS_RemoveElement
  <2> QED BY <1>2, <1>3, <2>1, <2>3 DEF Few
<1>8. \A key \in Keys : ~(Live(key) /\ key[1] = cycle.id)
  BY <1>1, NoThread
<1>9. \A key \in Keys \ forgotten : ~Unsettled(key)
  BY <1>1, NothingUncertain
<1>10. Halts
  BY <1>1 DEF Halts
<1>11. posts' \in [Requests -> Nat] /\ \A c \in CycleIds : Posted(c) => Posted(c)'
  BY <1>1, <1>2 DEF Posted
<1> QED BY <1>1, <1>2, <1>3, <1>4, <1>5, <1>6, <1>7, <1>8, <1>9, <1>10, <1>11, CycleMoves

\* A poll of the workflow, however it ends.
LEMMA PollWorkflowKeeps ==
    ASSUME BitsInv, NEW p \in Procs, PollWorkflow(p)
    PROVE  BitsInv' /\ Halts
<1>1. CASE cycle' = IdleCycle /\ EndTick(p)
  BY <1>1, EndsKeep DEF PollWorkflow
<1>2. CASE cycle' = cycle /\ EndTick(p)
  <2>1. /\ Ticking(p) /\ EndTick(p) /\ switch' \in Switches
        /\ UNCHANGED <<agentLock, cycle, jobs, worker, observed>>
    BY <1>2 DEF PollWorkflow, BitsInv, BitsTypes, TypeOK
  <2> QED BY <2>1, WaitsKeep
<1>3. CASE cycle' # IdleCycle /\ cycle' # cycle
  BY <1>3, AnswerKeeps
<1>4. PollWorkflow(p) /\ ~EndTick(p) => cycle'.phase = "response" /\ cycle.phase = "workflow"
  BY DEF PollWorkflow, BitsInv, BitsTypes, TypeOK, Cycles
<1> QED BY <1>1, <1>2, <1>3, <1>4, RestingCycles

\* A job has its result: no thread is left of it.
LEMMA DoneKeeps ==
    ASSUME BitsInv, NEW p \in Procs, Ticking(p), cycle.phase = "job", JobStatus = "done",
           cycle' = [cycle EXCEPT !.phase = "feedback", !.age = 0],
           UNCHANGED <<switch, runner, jobs, agentLock, worker, observed>>
    PROVE  BitsInv' /\ Halts
<1> USE DEF BitsInv
<1> DEFINE next == [cycle EXCEPT !.phase = "feedback", !.age = 0]
<1>1. /\ runner' = runner /\ runner[p].at = "tick" /\ Up(p) /\ cycle' = next
      /\ UNCHANGED <<switch, agentLock, jobs, worker, spawned, posts, doubt, settled, forgotten>>
  BY DEF Ticking, Up, observed
<1>2. /\ cycle \in Cycles /\ posts \in [Requests -> Nat] /\ runner \in [Procs -> Runners]
      /\ next \in Cycles /\ next.phase = "feedback" /\ next.id = cycle.id
      /\ next.steps = cycle.steps
  <2>1. 0 \in 0 .. StaleAfter + 1
    BY BitsSizes
  <2> QED BY <2>1 DEF BitsTypes, TypeOK, Cycles, Phases
<1> HIDE DEF next
<1>3. runner' = [runner EXCEPT ![p].at = "tick"]
  <2>1. [runner[p] EXCEPT !.at = "tick"] = runner[p]
    BY <1>1, <1>2 DEF Runners
  <2> QED BY <1>1, <1>2, <2>1
<1>4. CycleOK'
  <2>1. PostedOnce' /\ \A c \in CycleIds : Posted(c)' <=> Posted(c)
    BY <1>1 DEF CycleInv, CycleOK, PostedOnce, Posted
  <2> QED BY <1>1, <1>2, <2>1 DEF CycleInv, CycleOK
<1>5. AtOK(p)'
  BY <1>1 DEF AtOK
<1>6. Few(InCycle, cycle')
  BY <1>1, <1>2 DEF OrderInv, Few
<1>7. \A key \in Keys : ~(Live(key) /\ key[1] = cycle.id)
  BY DEF JobsInv, RowOK, JobStatus, Terminal
<1>8. \A key \in Keys \ forgotten : ~Unsettled(key)
  BY DEF CertainInv, Holds, Unsettled, JobStatus
<1>9. Halts
  BY <1>1 DEF Halts
<1>10. posts' \in [Requests -> Nat] /\ \A c \in CycleIds : Posted(c) => Posted(c)'
  BY <1>1, <1>2 DEF Posted
<1> QED BY <1>1, <1>2, <1>3, <1>4, <1>5, <1>6, <1>7, <1>8, <1>9, <1>10, CycleMoves

\* A row that says "running" without a thread becomes unknown, and trading stops.
LEMMA StrandedKeeps ==
    ASSUME BitsInv, NEW p \in Procs, Ticking(p), cycle.phase = "job", JobStranded,
           SetStatus(CycleKey, "unknown"), EndTick(p), switch' = Stopped,
           UNCHANGED <<agentLock, cycle, worker, observed>>
    PROVE  BitsInv' /\ Halts
<1> USE DEF BitsInv
<1>1. /\ runner' = [runner EXCEPT ![p].at = "wait"] /\ runner[p].at = "tick" /\ Up(p)
      /\ UNCHANGED <<agentLock, cycle, worker, spawned, posts, doubt, settled, forgotten>>
  BY DEF Ticking, EndTick, Up, observed
<1>2. /\ jobs \in [Keys -> Rows] /\ runner \in [Procs -> Runners] /\ switch' \in Switches
      /\ CycleKey \in Keys
  BY SwitchNames, KeyNames DEF BitsTypes, TypeOK, CycleInv, CycleOK
<1>3. /\ jobs' \in [Keys -> Rows] /\ JobKeys' = JobKeys
      /\ \A k \in Keys : jobs'[k].rowid = jobs[k].rowid
      /\ \A k \in Keys : k # CycleKey => jobs'[k] = jobs[k]
      /\ jobs'[CycleKey].status \in {"unknown", "none"}
  BY <1>2, StatusSet DEF JobKeys
<1>4. /\ runner' \in [Procs -> Runners] /\ RunnersInv' /\ runner'[p].at = "wait"
      /\ \A q \in Procs : q # p => runner'[q] = runner[q]
  BY <1>1, <1>2, Goes
<1>5. BitsTypes'
  BY <1>1, <1>2, <1>3, <1>4 DEF BitsTypes, TypeOK
<1>6. CycleInv'
  BY <1>1, <1>4 DEF CycleInv, CycleOK, AtOK, Posted, PostedOnce, Request
<1>7. \A key \in Keys : RowOK(key)'
  <2> SUFFICES ASSUME NEW key \in Keys PROVE RowOK(key)'
    OBVIOUS
  <2>1. RowOK(key) /\ (Posted(key[1])' <=> Posted(key[1])) /\ (Live(key)' <=> Live(key))
        /\ ((key \in JobKeys)' <=> key \in JobKeys)
    BY <1>1, <1>3 DEF JobsInv, Posted, Live
  <2>2. jobs'[key].status \in Terminal => jobs[key].status \in Terminal
    BY <1>3 DEF Terminal
  <2>3. Live(key)' /\ key[1] = cycle.id => CycleKey' = key /\ cycle'.phase = "job"
    BY <1>1, <2>1 DEF RowOK, CycleKey
  <2> QED BY <1>1, <2>1, <2>2, <2>3 DEF RowOK
<1>8. OrderInv'
  BY <1>1, <1>3, OrderStays
<1>9. CertainInv'
  <2>1. \A key \in Keys \ forgotten : key # CycleKey => ~Unsettled(key)
    BY DEF CertainInv, Holds
  <2> QED BY <1>1, <1>3, <2>1 DEF CertainInv, Unsettled, Holds, CycleKey
<1>10. Halts
  BY <1>1 DEF Halts
<1> QED BY <1>4, <1>5, <1>6, <1>7, <1>8, <1>9, <1>10 DEF JobsInv

\* A poll of the job's row, whatever it says.
LEMMA PollJobKeeps ==
    ASSUME BitsInv, NEW p \in Procs, PollJob(p)
    PROVE  BitsInv' /\ Halts
<1>1. Ticking(p) /\ cycle.phase = "job" /\ UNCHANGED <<agentLock, worker, observed>>
  BY DEF PollJob, observed
<1>2. CASE /\ cycle' = cycle /\ jobs' = jobs /\ EndTick(p)
           /\ switch' \in {switch, Stopped}
  <2>1. switch' \in Switches
    BY <1>2, SwitchNames DEF BitsInv, BitsTypes, TypeOK
  <2> QED BY <1>1, <1>2, <2>1, WaitsKeep
<1>3. CASE /\ JobStranded /\ SetStatus(CycleKey, "unknown") /\ EndTick(p)
           /\ switch' = Stopped /\ cycle' = cycle
  BY <1>1, <1>3, StrandedKeeps
<1>4. CASE /\ JobStatus \in Terminal \ Uncertain
           /\ cycle' = [cycle EXCEPT !.phase = "feedback", !.age = 0]
           /\ UNCHANGED <<switch, runner, jobs>>
  <2>1. JobStatus = "done"
    BY <1>4 DEF Terminal, Uncertain
  <2> QED BY <1>1, <1>4, <2>1, DoneKeeps
<1> QED BY <1>2, <1>3, <1>4 DEF PollJob
\* A command is on record before it is run, and is run for the first time.
LEMMA StartJobKeeps ==
    ASSUME BitsInv, NEW p \in Procs, StartJob(p)
    PROVE  BitsInv' /\ Halts
<1> USE DEF BitsInv
<1> DEFINE row == [status |-> "running", command |-> cycle.action[2], rowid |-> NextRowId]
           thread == [proc |-> p, at |-> "running", age |-> 0]
<1>1. /\ runner' = [runner EXCEPT ![p].at = "note"] /\ runner[p].at = "tick" /\ Up(p)
      /\ cycle.phase = "response" /\ cycle.action # NoAction /\ ~(cycle.steps >= MaxSteps)
      /\ CycleKey \notin JobKeys
      /\ jobs' = [jobs EXCEPT ![CycleKey] = row]
      /\ worker' = [worker EXCEPT ![CycleKey] = thread]
      /\ spawned' = [spawned EXCEPT ![CycleKey] = @ + 1]
      /\ UNCHANGED <<switch, agentLock, cycle, posts, doubt, settled, forgotten>>
  BY DEF StartJob, InsertRow, Claimable, Answered, Ticking, Spent, Up
<1>2. /\ cycle \in Cycles /\ posts \in [Requests -> Nat] /\ runner \in [Procs -> Runners]
      /\ jobs \in [Keys -> Rows] /\ worker \in [Keys -> Workers] /\ spawned \in [Keys -> Nat]
      /\ cycle.action \in Actions /\ cycle.id \in CycleIds /\ CycleKey \in Keys
      /\ cycle.steps < MaxSteps
  <2>1. cycle.steps \in Nat /\ cycle \in Cycles
    BY BitsSizes DEF BitsTypes, TypeOK, Cycles
  <2>2. cycle.action \in Actions /\ cycle.id \in CycleIds
    BY <1>1, <2>1 DEF Cycles, CycleInv, CycleOK
  <2> QED BY <1>1, <2>1, <2>2, KeyNames, BitsSizes DEF BitsTypes, TypeOK
<1>3. /\ NextRowId \in Nat /\ \A key \in Keys : jobs[key].rowid < NextRowId
  <2> DEFINE ids == {0} \cup {jobs[key].rowid : key \in Keys}
  <2>1. PICK bound \in Nat : \A key \in Keys : jobs[key].rowid <= bound
    BY DEF OrderInv
  <2>2. \A key \in Keys : jobs[key].rowid \in Nat
    BY <1>2 DEF Rows
  <2>3. ids \in SUBSET (0 .. bound) /\ ids # {}
    BY <2>1, <2>2
  <2>4. NextRowId = 1 + Max(ids)
    BY DEF NextRowId
  <2>5. \A key \in Keys : jobs[key].rowid \in ids
    OBVIOUS
  <2> HIDE DEF ids
  <2>6. Max(ids) \in 0 .. bound /\ \A n \in ids : n <= Max(ids)
    BY <2>3, MaxIsGreatest
  <2>7. Max(ids) \in Nat
    BY <2>6
  <2> QED BY <2>2, <2>4, <2>5, <2>6, <2>7
<1>4. row \in Rows /\ row.status = "running" /\ row.rowid = NextRowId
  <2>1. cycle.action[2] \in Commands
    BY <1>2 DEF Actions
  <2> QED BY <1>3, <2>1 DEF Rows
<1>5. /\ thread \in Workers /\ thread.proc = p /\ thread.at = "running" /\ thread.age = 0
  <2>1. 0 \in 0 .. JobLimit
    BY BitsSizes
  <2> QED BY <2>1 DEF Workers
<1> HIDE DEF row, thread
<1>6. /\ runner' \in [Procs -> Runners] /\ RunnersInv' /\ runner'[p].at = "note"
      /\ runner'[p].state = "up"
      /\ \A q \in Procs : q # p => runner'[q] = runner[q]
  BY <1>1, <1>2, Goes
<1>7. BitsTypes'
  BY <1>1, <1>2, <1>4, <1>5, <1>6 DEF BitsTypes, TypeOK
<1>8. \A q \in Procs : q # p => ~Up(q)' /\ runner'[q].at = "wait"
  BY <1>1, <1>6, UpAlone DEF Up
<1>9. CycleInv'
  <2>1. CycleOK'
    BY <1>1 DEF CycleInv, CycleOK, Posted, PostedOnce
  <2>2. \A q \in Procs : AtOK(q)'
    BY <1>1, <1>2, <1>6, <1>8 DEF AtOK
  <2> QED BY <2>1, <2>2 DEF CycleInv
<1>10. JobKeys' = JobKeys \cup {CycleKey}
  BY <1>1, <1>2, <1>4 DEF JobKeys
<1>11. \A key \in Keys : RowOK(key)'
  <2>1. ASSUME NEW key \in Keys, key = CycleKey PROVE RowOK(key)'
    <3>1. spawned[key] = 0
      BY <1>1, <1>2, <2>1 DEF JobsInv, RowOK, CycleKey
    <3>2. spawned'[key] = 1 /\ worker'[key] = thread /\ jobs'[key] = row /\ key \in JobKeys'
      BY <1>1, <1>2, <1>10, <2>1, <3>1
    <3>3. CycleKey' = key /\ key[1] = cycle.id /\ Posted(key[1])'
      BY <1>1, <2>1 DEF CycleKey, CycleInv, CycleOK, Posted
    <3>4. Live(key)' /\ JustStarted(key)'
      BY <1>1, <1>5, <1>6, <3>2, BitsSizes DEF Live, JustStarted
    <3> QED BY <1>1, <1>4, <1>5, <3>2, <3>3, <3>4 DEF RowOK, Terminal
  <2>2. ASSUME NEW key \in Keys, key # CycleKey PROVE RowOK(key)'
    <3>1. /\ RowOK(key) /\ (Posted(key[1])' <=> Posted(key[1])) /\ (Live(key)' <=> Live(key))
          /\ ((key \in JobKeys)' <=> key \in JobKeys) /\ spawned'[key] = spawned[key]
          /\ worker'[key] = worker[key] /\ jobs'[key] = jobs[key]
      BY <1>1, <1>2, <1>10, <2>2 DEF JobsInv, Posted, Live
    <3>2. ~(Live(key) /\ key[1] = cycle.id)
      BY <1>1, NoThread
    <3> QED BY <1>1, <3>1, <3>2 DEF RowOK
  <2> QED BY <2>1, <2>2
<1>12. OrderInv'
  <2>1. InCycle' = InCycle \cup {CycleKey}
    BY <1>1, <1>10 DEF InCycle, CycleKey
  <2>2. \A key \in Keys : jobs'[key].rowid <= NextRowId
    BY <1>1, <1>2, <1>3, <1>4 DEF Rows
  <2>3. \A key \in Keys : key # CycleKey => jobs'[key] = jobs[key]
    BY <1>1, <1>2
  <2>4. jobs'[CycleKey].rowid = NextRowId
    BY <1>1, <1>2, <1>4
  <2>5. ASSUME NEW key \in InCycle', NEW other \in JobKeys', jobs'[other].rowid > jobs'[key].rowid
        PROVE  other \in InCycle'
    <3>1. key \in Keys /\ other \in Keys /\ jobs[key].rowid \in Nat /\ jobs[other].rowid \in Nat
      BY <1>2, <2>1, <1>10 DEF InCycle, JobKeys, Rows
    <3>2. CASE other = CycleKey
      BY <2>1, <3>2
    <3>3. CASE other # CycleKey /\ key = CycleKey
      BY <1>3, <2>3, <2>4, <2>5, <3>1, <3>3
    <3>4. CASE other # CycleKey /\ key # CycleKey
      <4>1. key \in InCycle /\ other \in JobKeys /\ jobs[other].rowid > jobs[key].rowid
        BY <1>10, <2>1, <2>3, <2>5, <3>1, <3>4
      <4>2. other \in InCycle
        BY <4>1 DEF OrderInv
      <4> QED BY <2>1, <4>2
    <3> QED BY <3>2, <3>3, <3>4
  <2>6. Few(InCycle', cycle')
    <3>1. IsFiniteSet(InCycle) /\ Cardinality(InCycle \ {CycleKey}) <= cycle.steps
      BY <1>1, <1>2 DEF OrderInv, Few, CycleKey
    <3>2. IsFiniteSet(InCycle') /\ InCycle' \ {CycleKey} = InCycle \ {CycleKey}
      BY <2>1, <3>1, FS_AddElement
    <3> QED BY <1>1, <1>2, <3>1, <3>2 DEF Few, CycleKey
  <2> QED BY <1>3, <2>2, <2>5, <2>6 DEF OrderInv
<1>13. \A key \in Keys \ forgotten : ~Unsettled(key)
  BY <1>1, NothingUncertain
<1>14. CertainInv'
  <2> SUFFICES ASSUME NEW key \in Keys \ forgotten, Unsettled(key)' PROVE Holds(key)'
    BY <1>1 DEF CertainInv
  <2>1. key = CycleKey
    BY <1>1, <1>2, <1>13 DEF Unsettled
  <2>2. CycleKey' = CycleKey /\ jobs'[CycleKey].status = "running"
    BY <1>1, <1>2, <1>4 DEF CycleKey
  <2> QED BY <1>1, <1>6, <1>8, <2>1, <2>2 DEF Holds
<1>15. Halts
  BY <1>1, <1>13 DEF Halts, CycleInv, CycleOK
<1> QED BY <1>6, <1>7, <1>9, <1>11, <1>12, <1>14, <1>15 DEF JobsInv

\* No row of the cycle is old enough to be pruned.
LEMMA CycleIsKept ==
    ASSUME BitsTypes, OrderInv, NEW key \in InCycle
    PROVE  ~Pruned(jobs[key])
<1> DEFINE newer == NewerThan(jobs[key])
<1>1. key \in Keys /\ jobs \in [Keys -> Rows] /\ cycle.steps \in Nat /\ cycle.steps <= MaxSteps
  BY BitsSizes DEF InCycle, JobKeys, BitsTypes, TypeOK, Cycles
<1>2. /\ IsFiniteSet(InCycle) /\ Cardinality(InCycle) \in Nat
      /\ Cardinality(InCycle) <= MaxSteps
  <2>1. IsFiniteSet(InCycle)
    BY DEF OrderInv, Few
  <2>2. Cardinality(InCycle) \in Nat
    BY <2>1, FS_CardinalityType
  <2>3. CASE cycle.phase = "response" /\ cycle.steps < MaxSteps
    <3>1. Cardinality(InCycle \ {<<cycle.id, cycle.action[1]>>}) <= cycle.steps
      BY <2>3 DEF OrderInv, Few
    <3>2. \A x : Cardinality(InCycle \ {x}) \in {Cardinality(InCycle) - 1, Cardinality(InCycle)}
      BY <2>1, FS_RemoveElement
    <3>3. Cardinality(InCycle \ {<<cycle.id, cycle.action[1]>>})
             \in {Cardinality(InCycle) - 1, Cardinality(InCycle)}
      BY <3>2
    <3>4. Cardinality(InCycle) <= cycle.steps + 1
      BY <1>1, <2>2, <3>1, <3>3
    <3> QED BY <1>1, <2>1, <2>2, <2>3, <3>4, BitsSizes
  <2>4. CASE ~(cycle.phase = "response" /\ cycle.steps < MaxSteps)
    <3>1. Cardinality(InCycle) <= cycle.steps
      BY <2>4 DEF OrderInv, Few
    <3> QED BY <1>1, <2>1, <2>2, <3>1, BitsSizes
  <2> QED BY <2>3, <2>4
<1>3. newer \subseteq InCycle \ {key}
  <2> SUFFICES ASSUME NEW other \in newer PROVE other \in InCycle \ {key}
    OBVIOUS
  <2>1. other \in Keys /\ jobs[other].status \in Terminal /\ jobs[other].rowid > jobs[key].rowid
    BY DEF NewerThan, IsTerminal
  <2>2. other \in JobKeys
    BY <2>1 DEF JobKeys, Terminal
  <2>3. other # key
    BY <1>1, <2>1 DEF Rows
  <2> QED BY <2>1, <2>2, <2>3 DEF OrderInv
<1>4. /\ IsFiniteSet(InCycle \ {key})
      /\ Cardinality(InCycle \ {key}) = Cardinality(InCycle) - 1
  BY <1>2, FS_RemoveElement
<1> HIDE DEF newer
<1>5. IsFiniteSet(newer) /\ Cardinality(newer) <= Cardinality(InCycle \ {key})
  BY <1>3, <1>4, FS_Subset
<1>6. Cardinality(newer) \in Nat
  BY <1>5, FS_CardinalityType
<1>7. ~(Cardinality(newer) >= Keep)
  BY <1>2, <1>4, <1>5, <1>6, BitsSizes
<1> QED BY <1>7 DEF Pruned, newer

\* A start: the rows that the cycle needs are kept, and those that say
\* "running" send it to stop trading and to block the cycle.
LEMMA StartKeeps ==
    ASSUME BitsInv, NEW p \in Procs, Start(p)
    PROVE  BitsInv' /\ Halts
<1> USE DEF BitsInv
<1>1. PICK at \in {"stop", "wait"} :
        /\ at = "wait" => ~Interrupted
        /\ runner' = [runner EXCEPT ![p] = [Off EXCEPT !.state = "up", !.at = at]]
  <2> DEFINE at == IF Interrupted \/ cycle.phase = "submitting" THEN "stop" ELSE "wait"
  <2>1. runner' = [runner EXCEPT ![p] = [Off EXCEPT !.state = "up", !.at = at]]
    BY DEF Start
  <2>2. at \in {"stop", "wait"} /\ (at = "wait" => ~Interrupted)
    OBVIOUS
  <2> HIDE DEF at
  <2> QED BY <2>1, <2>2
<1>2. /\ agentLock = Nobody /\ agentLock' = p /\ PruneAndRecover
      /\ UNCHANGED <<cycle, worker, spawned, posts, doubt, settled, forgotten>>
  BY DEF Start, observed
<1>3. /\ runner \in [Procs -> Runners] /\ jobs \in [Keys -> Rows] /\ switch \in Switches
  BY DEF BitsTypes, TypeOK
<1>4. switch' \in Switches
  BY <1>3, SwitchNames DEF Start
<1> DEFINE next == [Off EXCEPT !.state = "up", !.at = at]
<1>5. /\ next \in Runners /\ next.state = "up" /\ next.at = at /\ next.missed = 0
      /\ next.failures = 0
  BY OffRunner DEF Off, Runners
<1>6. runner' = [runner EXCEPT ![p] = next]
  BY <1>1
<1> HIDE DEF next
<1>7. \A q \in Procs : ~Up(q) /\ runner[q].at = "wait"
  BY <1>2, NobodyUp
<1>8. runner' \in [Procs -> Runners] /\ RunnersInv'
  BY <1>2, <1>3, <1>5, <1>6, <1>7, BitsSizes DEF RunnersInv, RunnerOK, Up
<1>9. \A key \in Keys :
        IF Pruned(jobs[key])
        THEN jobs[key].status \in Terminal /\ jobs'[key] = NoRow
        ELSE /\ jobs'[key].rowid = jobs[key].rowid
             /\ IF jobs[key].status = "running" THEN jobs'[key].status = "unknown"
                ELSE jobs'[key] = jobs[key]
  <2> SUFFICES ASSUME NEW key \in Keys
               PROVE  IF Pruned(jobs[key])
                      THEN jobs[key].status \in Terminal /\ jobs'[key] = NoRow
                      ELSE /\ jobs'[key].rowid = jobs[key].rowid
                           /\ IF jobs[key].status = "running" THEN jobs'[key].status = "unknown"
                              ELSE jobs'[key] = jobs[key]
    OBVIOUS
  <2>1. jobs'[key] = IF Pruned(jobs[key]) THEN NoRow ELSE Recovered(jobs[key])
    BY <1>2 DEF PruneAndRecover
  <2>2. jobs[key] \in Rows
    BY <1>3
  <2>3. CASE Pruned(jobs[key])
    BY <2>1, <2>3 DEF Pruned, IsTerminal
  <2>4. CASE ~Pruned(jobs[key])
    BY <2>1, <2>2, <2>4 DEF Recovered, Rows
  <2> QED BY <2>3, <2>4
<1>10. jobs' \in [Keys -> Rows]
  <2>1. NoRow \in Rows /\ \A row \in Rows : Recovered(row) \in Rows
    BY DEF NoRow, Rows, Recovered
  <2> QED BY <1>2, <1>3, <2>1 DEF PruneAndRecover
<1>11. BitsTypes'
  BY <1>2, <1>4, <1>8, <1>10 DEF BitsTypes, TypeOK
<1>12. CycleInv'
  <2>1. CycleOK'
    BY <1>2 DEF CycleInv, CycleOK, Posted, PostedOnce
  <2>2. \A q \in Procs : runner'[q].at \notin {"post", "note"}
    BY <1>3, <1>5, <1>6, <1>7
  <2> QED BY <2>1, <2>2 DEF CycleInv, AtOK
<1>13. JobKeys' \subseteq JobKeys /\ InCycle' = InCycle
  <2>1. NoRow.status = "none"
    BY DEF NoRow
  <2>2. \A key \in Keys : key \in JobKeys' => key \in JobKeys
    BY <1>9, <2>1 DEF JobKeys, Terminal
  <2>3. \A key \in InCycle : key \in JobKeys'
    BY <1>9, CycleIsKept DEF InCycle, JobKeys
  <2> QED BY <1>2, <2>2, <2>3 DEF InCycle, JobKeys
<1>14. \A key \in Keys : jobs'[key].status \in Terminal => jobs[key].status \in Terminal
  BY <1>9 DEF NoRow, Terminal
<1>15. \A key \in Keys : RowOK(key)'
  <2> SUFFICES ASSUME NEW key \in Keys PROVE RowOK(key)'
    OBVIOUS
  <2>1. RowOK(key) /\ (Posted(key[1])' <=> Posted(key[1])) /\ (Live(key)' <=> Live(key))
    BY <1>2 DEF JobsInv, Posted, Live
  <2>2. ~JustStarted(key)
    BY <1>7 DEF JustStarted
  <2>3. spawned[key] > 0 /\ key[1] = cycle.id => key \in InCycle
    BY <2>1 DEF RowOK, InCycle
  <2>4. /\ (key \in JobKeys)' => key \in JobKeys
        /\ key \in InCycle => (key \in JobKeys)'
    BY <1>13 DEF InCycle
  <2> QED BY <1>2, <1>14, <2>1, <2>2, <2>3, <2>4 DEF RowOK, CycleKey
<1>16. OrderInv'
  <2>1. \A key \in Keys : jobs[key].rowid \in Nat
    BY <1>3 DEF Rows
  <2>2. \A key \in Keys : jobs'[key].rowid \in {0, jobs[key].rowid}
    BY <1>9 DEF NoRow
  <2>3. PICK bound \in Nat : \A key \in Keys : jobs[key].rowid <= bound
    BY DEF OrderInv
  <2>4. \A key \in Keys : jobs'[key].rowid <= bound
    BY <2>1, <2>2, <2>3
  <2>5. \A key \in JobKeys' : jobs'[key].rowid = jobs[key].rowid
    BY <1>9 DEF JobKeys, NoRow
  <2>6. \A key \in InCycle' : \A other \in JobKeys' :
          jobs'[other].rowid > jobs'[key].rowid => other \in InCycle'
    BY <1>13, <2>5 DEF OrderInv, InCycle
  <2>7. Few(InCycle', cycle')
    BY <1>2, <1>13 DEF OrderInv
  <2> QED BY <2>4, <2>6, <2>7 DEF OrderInv
<1>17. CertainInv'
  <2> SUFFICES ASSUME NEW key \in Keys \ forgotten, Unsettled(key)' PROVE Holds(key)'
    BY <1>2 DEF CertainInv
  <2>1. ~Pruned(jobs[key])
    BY <1>9 DEF Unsettled, NoRow
  <2>2. Unsettled(key)
    BY <1>2, <1>9, <2>1 DEF Unsettled
  <2>3. Holds(key)
    BY <2>2 DEF CertainInv
  <2>4. CASE cycle.phase \in {"blocked", "job"}
    BY <1>2, <2>3, <2>4 DEF Holds, CycleKey
  <2>5. CASE cycle.phase \notin {"blocked", "job"}
    <3>1. cycle.phase = "response" /\ CycleKey = key /\ jobs[key].status = "running"
      BY <1>7, <2>3, <2>5 DEF Holds
    <3>2. at = "stop" /\ jobs'[key].status = "unknown"
      BY <1>1, <1>9, <2>1, <3>1 DEF Interrupted
    <3>3. \A q \in Procs : Up(q)' => q = p
      BY <1>3, <1>6, <1>7 DEF Up
    <3>4. runner'[p].at = "stop"
      BY <1>3, <1>5, <1>6, <3>2
    <3> QED BY <1>2, <3>1, <3>2, <3>3, <3>4 DEF Holds, CycleKey
  <2> QED BY <2>4, <2>5
<1>18. Halts
  BY <1>2 DEF Halts
<1> QED BY <1>8, <1>11, <1>12, <1>15, <1>16, <1>17, <1>18 DEF JobsInv

\* A process that ends takes its threads with it.
LEMMA GoneKeeps ==
    ASSUME BitsInv, NEW p \in Procs, Exit(p) \/ Crash(p)
    PROVE  BitsInv' /\ Halts
<1> USE DEF BitsInv
<1>1. /\ runner' = [runner EXCEPT ![p] = Off]
      /\ worker' = [key \in Keys |-> IF worker[key].proc = p THEN NoWorker ELSE worker[key]]
      /\ agentLock' \in {agentLock, Nobody} /\ (agentLock' # agentLock => Up(p))
      /\ UNCHANGED <<switch, cycle, jobs, spawned, posts, doubt, settled>>
  BY DEF Exit, Crash, Gone, Up, observed
<1>2. /\ runner \in [Procs -> Runners] /\ worker \in [Keys -> Workers] /\ p # Nobody
      /\ agentLock \in Procs \cup {Nobody}
  BY BitsSizes DEF BitsTypes, TypeOK
<1>3. /\ runner' \in [Procs -> Runners] /\ RunnersInv'
      /\ runner'[p].at = "wait" /\ runner'[p].state = "off"
      /\ \A q \in Procs : q # p => runner'[q] = runner[q]
  <2>1. /\ runner' \in [Procs -> Runners] /\ runner'[p] = Off
        /\ \A q \in Procs : q # p => runner'[q] = runner[q]
    BY <1>1, <1>2, OffRunner
  <2>2. RunnerOK(p)'
    BY <2>1, OffRunner, BitsSizes DEF RunnerOK, Up
  <2>3. ASSUME NEW q \in Procs, q # p PROVE RunnerOK(q)'
    <3>1. RunnerOK(q)
      BY DEF RunnersInv
    <3>2. Up(q) => agentLock' = q
      BY <1>1, <2>3, <3>1, UpAlone DEF RunnerOK
    <3> QED BY <2>1, <2>3, <3>1, <3>2 DEF RunnerOK, Up
  <2> QED BY <2>1, <2>2, <2>3, OffRunner DEF RunnersInv
<1>4. /\ NoWorker \in Workers /\ NoWorker.at = "none" /\ NoWorker.proc = Nobody
  <2>1. 0 \in 0 .. JobLimit
    BY BitsSizes
  <2> QED BY <2>1 DEF NoWorker, Workers
<1>5. \A key \in Keys : \/ worker'[key] = worker[key] /\ worker[key].proc # p
                      \/ worker'[key] = NoWorker
  BY <1>1
<1>6. BitsTypes'
  BY <1>1, <1>2, <1>3, <1>4 DEF BitsTypes, TypeOK
<1>7. CycleInv'
  <2>1. CycleOK'
    BY <1>1 DEF CycleInv, CycleOK, Posted, PostedOnce
  <2>2. \A q \in Procs : AtOK(q)'
    BY <1>1, <1>3 DEF CycleInv, AtOK, Request
  <2> QED BY <2>1, <2>2 DEF CycleInv
<1>8. \A key \in Keys : RowOK(key)'
  <2> SUFFICES ASSUME NEW key \in Keys PROVE RowOK(key)'
    OBVIOUS
  <2>1. RowOK(key) /\ (Posted(key[1])' <=> Posted(key[1]))
        /\ ((key \in JobKeys)' <=> key \in JobKeys)
    BY <1>1 DEF JobsInv, Posted, JobKeys
  <2>2. Live(key)' => Live(key) /\ worker'[key] = worker[key] /\ worker[key].proc # p
    BY <1>4, <1>5 DEF Live
  <2>3. Live(key)' /\ JustStarted(key) => JustStarted(key)'
    BY <1>1, <1>3, <2>2 DEF JustStarted
  <2>4. (worker'[key].at # "none" <=> Live(key)')
    BY <1>4, <1>5, <2>1 DEF RowOK, Live
  <2> QED BY <1>1, <2>1, <2>2, <2>3, <2>4 DEF RowOK, CycleKey
<1>9. OrderInv'
  <2>1. JobKeys' = JobKeys
    BY <1>1 DEF JobKeys
  <2> QED BY <1>1, <2>1, OrderStays
<1>10. CertainInv'
  <2> SUFFICES ASSUME NEW key \in Keys \ forgotten', Unsettled(key)' PROVE Holds(key)'
    BY DEF CertainInv
  <2>1. Unsettled(key) /\ key \notin forgotten
    BY <1>1 DEF Unsettled, Exit, Crash, observed
  <2>2. Holds(key)
    BY <2>1 DEF CertainInv
  <2>3. CASE cycle.phase \in {"blocked", "job"}
    BY <1>1, <2>2, <2>3 DEF Holds, CycleKey
  <2>4. CASE cycle.phase \notin {"blocked", "job"}
    <3>1. /\ cycle.phase = "response" /\ CycleKey = key
          /\ \A q \in Procs : Up(q) => runner[q].at \in {"note", "stop", "block"}
          /\ \/ jobs[key].status = "running"
             \/ /\ jobs[key].status = "unknown"
                /\ \E q \in Procs : runner[q].at \in {"stop", "block"}
      BY <2>2, <2>4 DEF Holds
    <3>2. \A q \in Procs : Up(q)' => Up(q) /\ runner'[q] = runner[q]
      BY <1>3 DEF Up
    <3>3. jobs[key].status = "running" \/ \E q \in Procs : runner'[q].at \in {"stop", "block"}
      <4>1. SUFFICES ASSUME NEW q \in Procs, runner[q].at \in {"stop", "block"},
                            jobs[key].status = "unknown"
                     PROVE  q # p
        BY <1>3, <3>1
      <4>2. CASE Exit(p)
        BY <4>1, <4>2 DEF Exit, RunnersInv, RunnerOK, Up
      <4>3. CASE Crash(p)
        <5>1. key \in Marked
          BY <3>1, <4>1 DEF Marked
        <5> QED BY <4>1, <4>3, <5>1 DEF Crash
      <4> QED BY <4>2, <4>3
    <3> QED BY <1>1, <3>1, <3>2, <3>3 DEF Holds, CycleKey
  <2> QED BY <2>3, <2>4
<1>11. Halts
  BY <1>1 DEF Halts
<1> QED BY <1>3, <1>6, <1>7, <1>8, <1>9, <1>10, <1>11 DEF JobsInv

\* A step of one thread and of its row.
LEMMA ThreadKeeps ==
    ASSUME BitsInv, NEW key \in Keys, Live(key), NEW next \in Workers,
           worker' = [worker EXCEPT ![key] = next],
           next.at # "none" <=> next.proc # Nobody,
           UNCHANGED <<switch, agentLock, runner, cycle, observed>>,
           jobs' \in [Keys -> Rows], JobKeys' = JobKeys,
           \A k \in Keys : jobs'[k].rowid = jobs[k].rowid,
           \A k \in Keys : k # key => jobs'[k] = jobs[k],
           jobs'[key].status \in Terminal => next.proc = Nobody,
           next.proc # Nobody =>
              /\ next.proc = worker[key].proc /\ next.age = worker[key].age
              /\ next.at = "timed_out" => worker[key].age > 0,
           key \notin forgotten /\ Unsettled(key)' => Holds(key)'
    PROVE  BitsInv' /\ Halts
<1> USE DEF BitsInv
<1>1. /\ UNCHANGED <<switch, agentLock, runner, cycle, spawned, posts, doubt, settled, forgotten>>
      /\ worker \in [Keys -> Workers]
  BY DEF observed, BitsTypes, TypeOK
<1>2. worker'[key] = next /\ \A k \in Keys : k # key => worker'[k] = worker[k]
  BY <1>1
<1>3. BitsTypes' /\ RunnersInv'
  BY <1>1 DEF BitsTypes, TypeOK, RunnersInv, RunnerOK, Up
<1>4. CycleInv'
  BY <1>1 DEF CycleInv, CycleOK, AtOK, Posted, PostedOnce, Request
<1>5. \A k \in Keys : RowOK(k)'
  <2> SUFFICES ASSUME NEW k \in Keys PROVE RowOK(k)'
    OBVIOUS
  <2>1. RowOK(k) /\ (Posted(k[1])' <=> Posted(k[1])) /\ ((k \in JobKeys)' <=> k \in JobKeys)
    BY <1>1 DEF JobsInv, Posted
  <2>2. CASE k # key
    <3>1. worker'[k] = worker[k] /\ jobs'[k] = jobs[k]
      BY <1>2, <2>2
    <3> QED BY <1>1, <2>1, <3>1 DEF RowOK, Live, JustStarted, CycleKey
  <2>3. CASE k = key
    <3>1. Live(k)' => (JustStarted(k) => JustStarted(k)')
      <4>1. worker[k].age \in Nat
        BY <1>1, BitsSizes DEF Workers
      <4> QED BY <1>1, <1>2, <2>3, <4>1 DEF Live, JustStarted
    <3> QED BY <1>1, <1>2, <2>1, <2>3, <3>1 DEF RowOK, Live, CycleKey
  <2> QED BY <2>2, <2>3
<1>6. OrderInv'
  BY <1>1, OrderStays
<1>7. CertainInv'
  <2> SUFFICES ASSUME NEW k \in Keys \ forgotten, Unsettled(k)', k # key PROVE Holds(k)'
    BY <1>1 DEF CertainInv
  <2>1. jobs'[k] = jobs[k]
    OBVIOUS
  <2>2. Unsettled(k)
    BY <1>1, <2>1 DEF Unsettled
  <2> QED BY <1>1, <2>1, <2>2 DEF CertainInv, Holds, CycleKey, Up
<1>8. Halts
  BY <1>1 DEF Halts
<1> QED BY <1>3, <1>4, <1>5, <1>6, <1>7, <1>8 DEF JobsInv

\* The threads.
LEMMA ThreadsKeep ==
    ASSUME BitsInv, NEW key \in Keys, Thread(key)
    PROVE  BitsInv' /\ Halts
<1> USE DEF BitsInv
<1>1. /\ worker \in [Keys -> Workers] /\ jobs \in [Keys -> Rows] /\ worker[key] \in Workers
      /\ UNCHANGED <<switch, agentLock, runner, cycle, observed>> /\ RowOK(key)
  BY DEF BitsTypes, TypeOK, Thread, WorkerEnds, WorkerWrites, WriteLost, PublishProgress,
     observed, JobsInv
<1>2. Live(key)
  BY <1>1 DEF Thread, WorkerEnds, WorkerWrites, WriteLost, PublishProgress, RowOK, Terminal
<1>3. /\ NoWorker \in Workers /\ NoWorker.at = "none" /\ NoWorker.proc = Nobody
  <2>1. 0 \in 0 .. JobLimit
    BY BitsSizes
  <2> QED BY <2>1 DEF NoWorker, Workers
<1>4. jobs' = jobs => JobKeys' = JobKeys
  BY DEF JobKeys
<1>5. UNCHANGED <<spawned, settled, forgotten>> /\ CycleKey' = CycleKey
  BY <1>1 DEF observed, CycleKey
<1>6. key \notin forgotten /\ Unsettled(key) => Holds(key)
  BY DEF CertainInv
<1>7. jobs'[key] = jobs[key] => (key \notin forgotten /\ Unsettled(key)' => Holds(key)')
  BY <1>1, <1>5, <1>6 DEF Unsettled, Holds, Up
<1>8. CASE WorkerEnds(key)
  <2>1. PICK result \in Terminal :
          /\ result = "timed_out" => worker[key].age >= JobLimit
          /\ worker' = [worker EXCEPT ![key].at = result]
          /\ jobs' = jobs
    BY <1>8 DEF WorkerEnds
  <2> DEFINE next == [worker[key] EXCEPT !.at = result]
  <2>2. /\ next \in Workers /\ next.at = result /\ next.proc = worker[key].proc
        /\ next.age = worker[key].age /\ worker[key].age \in Nat
    BY <1>1, <2>1, BitsSizes DEF Workers
  <2>3. worker' = [worker EXCEPT ![key] = next]
    BY <2>1
  <2> HIDE DEF next
  <2>4. next.at # "none" /\ next.proc # Nobody /\ (next.at = "timed_out" => worker[key].age > 0)
    BY <1>2, <2>1, <2>2, BitsSizes DEF Live, Terminal
  <2>5. jobs'[key].status \notin Terminal
    BY <1>1, <1>2, <2>1 DEF RowOK
  <2> QED BY <1>1, <1>2, <1>4, <1>7, <2>1, <2>2, <2>3, <2>4, <2>5, ThreadKeeps
<1>9. CASE WriteLost(key)
  <2>1. worker' = [worker EXCEPT ![key] = NoWorker] /\ jobs' = jobs
    BY <1>9 DEF WriteLost
  <2> QED BY <1>1, <1>2, <1>3, <1>4, <1>7, <2>1, ThreadKeeps
<1>10. CASE WorkerWrites(key)
  <2>1. /\ worker' = [worker EXCEPT ![key] = NoWorker] /\ worker[key].at \in Terminal
        /\ SetStatus(key, worker[key].at)
    BY <1>10 DEF WorkerWrites
  <2>2. /\ jobs' \in [Keys -> Rows] /\ JobKeys' = JobKeys
        /\ \A k \in Keys : jobs'[k].rowid = jobs[k].rowid
        /\ \A k \in Keys : k # key => jobs'[k] = jobs[k]
        /\ key \in JobKeys => jobs'[key].status = worker[key].at
        /\ key \notin JobKeys => jobs'[key] = jobs[key]
    BY <1>1, <2>1, StatusSet
  <2>3. key \notin forgotten /\ Unsettled(key)' => Holds(key)'
    <3> SUFFICES ASSUME key \notin forgotten, Unsettled(key)', key \in JobKeys PROVE Holds(key)'
      BY <1>7, <2>2
    <3>1. jobs'[key].status = "timed_out" /\ worker[key].at = "timed_out"
      BY <2>1, <2>2 DEF Unsettled, Terminal
    <3>2. jobs[key].status \in {"running", "unknown"}
      BY <1>1, <1>2 DEF RowOK, JobKeys, Rows
    <3>3. Holds(key)
      BY <1>5, <1>6, <3>2 DEF Unsettled
    <3>4. cycle.phase # "response"
      BY <1>1, <1>2, <3>1, <3>3 DEF Holds, RowOK, JustStarted, CycleKey
    <3> QED BY <1>1, <1>5, <3>3, <3>4 DEF Holds
  <2> QED BY <1>1, <1>2, <1>3, <2>1, <2>2, <2>3, ThreadKeeps
<1>11. CASE PublishProgress(key)
  <2>1. /\ worker' = worker /\ SetStatus(key, "running") /\ key \in JobKeys
        /\ jobs[key].status # "running"
    BY <1>11 DEF PublishProgress
  <2>2. /\ jobs' \in [Keys -> Rows] /\ JobKeys' = JobKeys
        /\ \A k \in Keys : jobs'[k].rowid = jobs[k].rowid
        /\ \A k \in Keys : k # key => jobs'[k] = jobs[k]
        /\ jobs'[key].status = "running"
    BY <1>1, <2>1, StatusSet
  <2>3. worker' = [worker EXCEPT ![key] = worker[key]]
    BY <1>1, <2>1
  <2>4. jobs[key].status = "unknown"
    BY <1>1, <1>2, <2>1 DEF RowOK, JobKeys, Rows
  <2>5. key \notin forgotten /\ Unsettled(key)' => Holds(key)'
    BY <1>1, <1>5, <1>6, <2>2, <2>4 DEF Unsettled, Holds, Up
  <2>6. /\ worker[key].at # "none" <=> worker[key].proc # Nobody
        /\ jobs'[key].status \notin Terminal /\ worker[key].at = "running"
    BY <1>1, <1>11, <2>2 DEF RowOK, Live, Terminal, PublishProgress
  <2> QED BY <1>1, <1>2, <2>2, <2>3, <2>5, <2>6, ThreadKeeps
<1> QED BY <1>8, <1>9, <1>10, <1>11 DEF Thread

\* Time passes for the threads and for the cycle.
LEMMA PassKeeps ==
    ASSUME BitsInv, Pass
    PROVE  BitsInv' /\ Halts
<1> USE DEF BitsInv
<1>1. /\ \A p \in Procs : runner[p].at # "note"
      /\ worker' = [key \in Keys |-> IF Live(key) THEN [worker[key] EXCEPT !.age = @ + 1]
                                     ELSE worker[key]]
      /\ UNCHANGED <<switch, agentLock, runner, jobs, spawned, posts, doubt, settled, forgotten>>
  BY DEF Pass, observed
<1>2. worker \in [Keys -> Workers] /\ cycle \in Cycles
  BY DEF BitsTypes, TypeOK
<1>3. /\ worker' \in [Keys -> Workers]
      /\ \A key \in Keys : worker'[key].proc = worker[key].proc /\ worker'[key].at = worker[key].at
  <2>1. ASSUME NEW key \in Keys
        PROVE  /\ worker'[key] \in Workers /\ worker'[key].proc = worker[key].proc
               /\ worker'[key].at = worker[key].at
    <3>1. CASE Live(key)
      <4>1. worker[key].age + 1 \in 0 .. JobLimit
        BY <1>2, <3>1, BitsSizes DEF Pass, Workers
      <4>2. worker'[key] = [worker[key] EXCEPT !.age = worker[key].age + 1]
        BY <1>1, <3>1
      <4> QED BY <1>2, <4>1, <4>2 DEF Workers
    <3>2. CASE ~Live(key)
      BY <1>1, <1>2, <3>2
    <3> QED BY <3>1, <3>2
  <2>2. DOMAIN worker' = Keys /\ worker' = [key \in Keys |-> worker'[key]]
    BY <1>1
  <2> QED BY <2>1, <2>2
<1>4. /\ cycle' \in Cycles /\ cycle'.phase = cycle.phase /\ cycle'.id = cycle.id
      /\ cycle'.steps = cycle.steps /\ cycle'.action = cycle.action
  <2>1. CASE cycle' = cycle
    BY <1>2, <2>1
  <2>2. CASE cycle' # cycle
    <3>1. cycle' = [cycle EXCEPT !.age = cycle.age + 1] /\ ~(cycle.age > StaleAfter)
      BY <2>2 DEF Pass
    <3>2. cycle.age + 1 \in 0 .. StaleAfter + 1
      BY <1>2, <3>1, BitsSizes DEF Cycles
    <3> QED BY <1>2, <3>1, <3>2 DEF Cycles
  <2> QED BY <2>1, <2>2
<1>5. BitsTypes' /\ RunnersInv'
  BY <1>1, <1>3, <1>4 DEF BitsTypes, TypeOK, RunnersInv, RunnerOK, Up
<1>6. CycleInv'
  <2>1. PostedOnce' /\ \A c : Posted(c)' <=> Posted(c)
    BY <1>1 DEF CycleInv, CycleOK, PostedOnce, Posted
  <2> QED BY <1>1, <1>4, <2>1 DEF CycleInv, CycleOK, AtOK, Request
<1>7. CycleKey' = CycleKey
  BY <1>4 DEF CycleKey
<1>8. \A key \in Keys : RowOK(key)'
  <2> SUFFICES ASSUME NEW key \in Keys PROVE RowOK(key)'
    OBVIOUS
  <2>1. RowOK(key) /\ (Posted(key[1])' <=> Posted(key[1])) /\ (Live(key)' <=> Live(key))
        /\ ((key \in JobKeys)' <=> key \in JobKeys) /\ ~JustStarted(key)
    BY <1>1, <1>3 DEF JobsInv, Posted, Live, JobKeys, JustStarted
  <2> QED BY <1>1, <1>3, <1>4, <1>7, <2>1 DEF RowOK
<1>9. OrderInv'
  <2>1. JobKeys' = JobKeys
    BY <1>1 DEF JobKeys
  <2> QED BY <1>1, <1>4, <2>1, OrderStays
<1>10. CertainInv'
  BY <1>1, <1>4, <1>7 DEF CertainInv, Unsettled, Holds, Up
<1>11. Halts
  BY <1>1 DEF Halts
<1> QED BY <1>5, <1>6, <1>8, <1>9, <1>10, <1>11 DEF JobsInv

-----------------------------------------------------------------------------
(* BitsRunner: the theorem. *)

\* The invariant holds before anything has run.
LEMMA BitsInitHolds ==
    ASSUME Init
    PROVE  BitsInv
<1> USE DEF Init
<1>1. FreshSwitch \in Switches
  BY DEF FreshSwitch, Switches, Reasons, StopReasons
<1>2. NoRow \in Rows /\ NoRow.status = "none" /\ NoRow.rowid = 0
  BY DEF NoRow, Rows
<1>3. NoWorker \in Workers /\ NoWorker.proc = Nobody /\ NoWorker.at = "none"
  <2>1. 0 \in 0 .. JobLimit
    BY BitsSizes
  <2> QED BY <2>1 DEF NoWorker, Workers
<1>4. BitsTypes
  BY <1>1, <1>2, <1>3, OffRunner, RestingCycles DEF BitsTypes, TypeOK
<1>5. RunnersInv
  BY OffRunner, BitsSizes DEF RunnersInv, RunnerOK, Up
<1>6. CycleInv
  <2>1. 0 \notin CycleIds
    BY DEF CycleIds
  <2>2. PostedOnce
    BY DEF PostedOnce
  <2> QED BY <2>1, <2>2, OffRunner, RestingCycles DEF CycleInv, CycleOK, AtOK
<1>7. JobKeys = {}
  BY <1>2 DEF JobKeys
<1>8. JobsInv
  <2> SUFFICES ASSUME NEW key \in Keys PROVE RowOK(key)
    BY DEF JobsInv
  <2>1. ~Live(key) /\ worker[key].at = "none" /\ spawned[key] = 0 /\ jobs[key].status = "none"
    BY <1>2, <1>3 DEF Live
  <2> QED BY <1>7, <2>1 DEF RowOK, Terminal
<1>9. OrderInv
  <2>1. InCycle = {} /\ Few({}, cycle)
    BY <1>7, FS_EmptySet, RestingCycles DEF InCycle, Few
  <2>2. 0 \in Nat /\ \A key \in Keys : jobs[key].rowid <= 0
    BY <1>2
  <2> QED BY <2>1, <2>2 DEF OrderInv
<1>10. CertainInv
  BY DEF CertainInv, Unsettled
<1> QED BY <1>4, <1>5, <1>6, <1>8, <1>9, <1>10 DEF BitsInv

\* Every step keeps the invariant and does nothing on top of what is uncertain.
LEMMA BitsNextKeeps ==
    ASSUME BitsInv, [Next]_vars
    PROVE  BitsInv' /\ Halts
<1>1. CASE UNCHANGED vars \/ OperatePaper
  BY <1>1, SwitchKeeps
<1>2. ASSUME NEW p \in Procs,
             \/ Start(p) \/ StopInterrupted(p) \/ BlockInterrupted(p) \/ Terminate(p)
             \/ Close(p) \/ Exit(p) \/ Crash(p) \/ MonitorMarks(p) \/ MonitorMisses(p)
      PROVE  BitsInv' /\ Halts
  BY <1>2, StartKeeps, WaitsKeep, EndsKeep, FlagsKeep, CloseKeeps, GoneKeeps
<1>3. ASSUME NEW p \in Procs, Tick(p)
      PROVE  BitsInv' /\ Halts
  <2>1. CASE TickStopped(p)
    BY <2>1, FlagsKeep
  <2>2. CASE TickBlocked(p)
    BY <2>2, SwitchKeeps
  <2>3. CASE TickBegins(p) \/ TickGated(p) \/ RefuseAction(p) \/ PostFails(p)
    BY <2>3, WaitsKeep
  <2>4. CASE FinishCycle(p) \/ DropAction(p)
    BY <2>4, EndsKeep
  <2>5. CASE PollJob(p) \/ PollWorkflow(p)
    BY <2>5, PollJobKeeps, PollWorkflowKeeps
  <2>6. CASE StartJob(p) \/ ReplayJob(p) \/ NoteJob(p)
    BY <2>6, StartJobKeeps, ReplayKeeps, NoteKeeps
  <2>7. CASE PersistSubmission(p) \/ Post(p)
    BY <2>7, FeedbackKeeps, RequestKeeps, PostKeeps
  <2> QED BY <1>3, <2>1, <2>2, <2>3, <2>4, <2>5, <2>6, <2>7 DEF Tick
<1>4. CASE OperatorRecovers \/ OperatorResets \/ Pass
  BY <1>4, OperatorKeeps, PassKeeps
<1>5. ASSUME NEW key \in Keys, Thread(key)
      PROVE  BitsInv' /\ Halts
  BY <1>5, ThreadsKeep
<1> QED BY <1>1, <1>2, <1>3, <1>4, <1>5 DEF Next

\* What the invariant says of commands and requests.
LEMMA BitsInvGives ==
    ASSUME BitsInv
    PROVE  TypeOK /\ RunOnce /\ PostedOnce
BY DEF BitsInv, BitsTypes, JobsInv, RowOK, RunOnce, CycleInv, CycleOK

\* Commands and requests have effect once, and none follows an uncertain one,
\* for any processes, actions, limits, crashes, lost writes and whatever the
\* operator and the workflow do (bits_runner.py, bits_jobs.py); but for a row
\* that a start marked and was killed before it blocked the cycle.
THEOREM EffectsStayCertain == Spec => EffectsAreCertain
<1>1. Init => BitsInv
  BY BitsInitHolds
<1>2. BitsInv /\ [Next]_vars => BitsInv' /\ Halts
  BY BitsNextKeeps
<1>3. BitsInv' => TypeOK' /\ RunOnce' /\ PostedOnce'
  BY BitsInvGives, PTL
<1>4. Spec => UncertaintyHalts
  BY <1>1, <1>2, PTL DEF Spec, UncertaintyHalts, Halts
<1>5. Spec => [][TypeOK' /\ RunOnce' /\ PostedOnce']_vars
  BY <1>1, <1>2, <1>3, PTL DEF Spec
<1> QED BY <1>4, <1>5 DEF EffectsAreCertain
=============================================================================
