----------------------------- MODULE MarketStore -----------------------------
(***************************************************************************)
(* The store of one-minute bars and the archive of raw pages (data.py),    *)
(* the commands that write them (cli.py: download, update, heal, rebuild)  *)
(* and the ones that shrink the archive (retention.py).                    *)
(*                                                                         *)
(* A bar is None, Forming (downloaded before its minute was over) or       *)
(* Final.  A page is named by its first and last minute and its number in  *)
(* the download.  Every write of a file is atomic and durable (atomic.py); *)
(* a writer of the store reads, merges and swaps it under one lock, in two *)
(* steps here, and each process may end between any two of its steps.      *)
(***************************************************************************)
EXTENDS Integers, Sequences, FiniteSets, FiniteSetsExt

CONSTANTS
    MaxMinute,      \* bound of the clock
    Quiet,          \* minutes for which the broker has no bar
    PageSize,       \* bars of a page
    Overlap,        \* minutes an update downloads again
    MaxDepth        \* bound of the children a refreshed download starts

ASSUME MarketAssumption ==
    /\ MaxMinute \in Nat \ {0}
    /\ PageSize \in Nat \ {0}
    /\ Overlap \in Nat
    /\ MaxDepth \in Nat

VARIABLES
    now,            \* the minute that is forming
    store,          \* the parquet file: absent, corrupt or its bars
    lock,           \* the holder of the store's write lock
    pages,          \* the archive
    writer,         \* the feed, the download and the rebuild, as writers
    job,            \* the download: range, token and pages still to archive
    doomed          \* the pages a compaction has planned to delete

marketVars == <<now, store, lock, pages, writer, job, doomed>>

-----------------------------------------------------------------------------
Minutes == 1 .. MaxMinute
Tokens == {"none", "current", "replaced"}
None == 0
Forming == 1
Final == 2
Empty == [m \in Minutes |-> None]
Held(bars) == {m \in Minutes : bars[m] # None}

Writers == {"feed", "job", "rebuild"}
Idle == [at |-> "idle", bars |-> Empty, read |-> Empty]
NoJob == [at |-> "idle", from |-> 0, token |-> "none", depth |-> 0, todo |-> {}]

MarketInit ==
    /\ now = 1
    /\ store = [state |-> "absent", bars |-> Empty]
    /\ lock = "none"
    /\ pages = {}
    /\ writer = [w \in Writers |-> Idle]
    /\ job = NoJob
    /\ doomed = {}

-----------------------------------------------------------------------------
(* The environment. *)

MinutePasses ==
    /\ now < MaxMinute
    /\ now' = now + 1
    /\ UNCHANGED <<store, lock, pages, writer, job, doomed>>

\* The disk, or a writer that is not of this code, damages the file.
StoreBreaks ==
    /\ store.state = "ok"
    /\ store' = [state |-> "corrupt", bars |-> Empty]
    /\ UNCHANGED <<now, lock, pages, writer, job, doomed>>

-----------------------------------------------------------------------------
(* HistoricalDataStore.write: normalize, lock, read, merge, swap. *)

\* Mutant: the writer does not wait for the lock.
MutantMayLock(w) == writer[w].at = "ready"

MayLock(w) == writer[w].at = "ready" /\ lock = "none"

\* A file that cannot be read fails the write; a rebuild does not read it.
Locks(w) ==
    /\ MayLock(w)
    /\ IF store.state = "corrupt" /\ w # "rebuild"
       THEN writer' = [writer EXCEPT ![w] = Idle] /\ UNCHANGED lock
       ELSE /\ lock' = w
            /\ writer' = [writer EXCEPT ![w].at = "held",
                          ![w].read = IF w = "rebuild" THEN Empty ELSE store.bars]
    /\ UNCHANGED <<now, store, pages, job, doomed>>

\* Bars that were written last win; a rebuild replaces the store.
Written(w) == [m \in Minutes |->
    IF w = "rebuild" \/ writer[w].bars[m] # None
    THEN writer[w].bars[m] ELSE writer[w].read[m]]

Swaps(w) ==
    /\ writer[w].at = "held"
    /\ store' = [state |-> "ok", bars |-> Written(w)]
    /\ writer' = [writer EXCEPT ![w] = Idle]
    /\ lock' = "none"
    /\ UNCHANGED <<now, pages, job, doomed>>

\* The process ends, or has waited for the lock for too long.
WriterEnds(w) ==
    /\ writer[w].at \in {"ready", "held"}
    /\ writer' = [writer EXCEPT ![w] = Idle]
    /\ lock' = IF lock = w THEN "none" ELSE lock
    /\ UNCHANGED <<now, store, pages, job, doomed>>

\* The feed appends the minute that has closed (LiveFeed).
FeedHears ==
    /\ writer["feed"].at = "idle"
    /\ now > 1
    /\ writer' = [writer EXCEPT !["feed"] =
                    [Idle EXCEPT !.at = "ready", !.bars[now - 1] = Final]]
    /\ UNCHANGED <<now, store, lock, pages, job, doomed>>

-----------------------------------------------------------------------------
(* Downloads: download and update, which resumes from the newest bar, and  *)
(* heal, which asks for the market minutes missing between two bars.       *)

Resumes == LET newest == Max(Held(store.bars))
           IN  IF newest > Overlap THEN newest - Overlap ELSE 1
Windows == {m \in Minutes : /\ store.bars[m] = None
                            /\ m > Min(Held(store.bars))
                            /\ m < Max(Held(store.bars))}
Starts == IF store.state = "ok" THEN {Resumes} \cup Windows ELSE {1}

\* The process reads .env when it starts.
JobStarts ==
    /\ job.at = "idle"
    /\ writer["job"].at = "idle"
    /\ store.state # "corrupt"
    /\ \E from \in Starts :
        job' = [NoJob EXCEPT !.at = "fetch", !.from = from, !.token = "current"]
    /\ UNCHANGED <<now, store, lock, pages, writer, doomed>>

\* What the broker returns up to now, newest page first.
Bars == {m \in job.from .. now : m \notin Quiet}
NumberOf(m) == 1 + (Cardinality({n \in Bars : n > m}) \div PageSize)
PageNumbered(number) ==
    LET minutes == {m \in Bars : NumberOf(m) = number}
    IN  [first |-> Min(minutes), last |-> Max(minutes), number |-> number,
         gz |-> FALSE,
         bars |-> [m \in Minutes |-> IF m \notin minutes THEN None
                                     ELSE IF m = now THEN Forming ELSE Final]]
Fetched == {PageNumbered(number) : number \in {NumberOf(m) : m \in Bars}}
Joined(todo) == [m \in Minutes |->
    IF \E p \in todo : p.bars[m] # None
    THEN (CHOOSE p \in todo : p.bars[m] # None).bars[m] ELSE None]

JobFetches ==
    /\ job.at = "fetch"
    /\ job.token = "current"
    /\ IF Bars = {} THEN job' = NoJob /\ UNCHANGED writer
       ELSE /\ job' = [NoJob EXCEPT !.at = "archive", !.todo = Fetched]
            /\ writer' = [writer EXCEPT !["job"] =
                            [Idle EXCEPT !.at = "later", !.bars = Joined(Fetched)]]
    /\ UNCHANGED <<now, store, lock, pages, doomed>>

\* The broker refuses the token, as it may any time: it is refreshed and
\* persisted, and a child downloads the same range.  The child inherits the
\* environment of its parent, with the token that was replaced, and .env does
\* not override it: the child is refused in turn.
JobRefreshes ==
    /\ job.at = "fetch"
    /\ job.depth < MaxDepth
    /\ job' = [job EXCEPT !.depth = @ + 1, !.token = "replaced"]
    /\ UNCHANGED <<now, store, lock, pages, writer, doomed>>

\* A request or the refresh fails, or the parents stop waiting.
JobFails ==
    /\ job.at # "idle"
    /\ job' = NoJob
    /\ writer' = [writer EXCEPT !["job"] =
                    IF @.at = "later" THEN Idle ELSE @]
    /\ UNCHANGED <<now, store, lock, pages, doomed>>

\* A page is kept under its name; one of that name that is already there,
\* plain or compressed, stays as it is.
Named(p, q) == p.first = q.first /\ p.last = q.last /\ p.number = q.number

\* Mutant: the store is written before the pages are archived.
MutantArchived == job.at = "archive"

Archived == job.at = "archive" /\ job.todo = {}

JobArchives ==
    /\ job.at = "archive"
    /\ \E p \in job.todo :
        /\ pages' = IF \E q \in pages : Named(p, q) THEN pages ELSE pages \cup {p}
        /\ job' = [job EXCEPT !.todo = @ \ {p}]
    /\ UNCHANGED <<now, store, lock, writer, doomed>>

JobWrites ==
    /\ Archived
    /\ writer' = [writer EXCEPT !["job"].at = "ready"]
    /\ job' = NoJob
    /\ UNCHANGED <<now, store, lock, pages, doomed>>

-----------------------------------------------------------------------------
(* rebuild: a store that cannot be read is moved away, and the archive is  *)
(* replayed in the order of its names.                                     *)

Before(p, q) ==
    \/ p.first < q.first
    \/ p.first = q.first /\ p.last < q.last
    \/ p.first = q.first /\ p.last = q.last /\ p.number < q.number
    \/ Named(p, q) /\ ~p.gz /\ q.gz

Replayed(archive) == [m \in Minutes |->
    LET holding == {p \in archive : p.bars[m] # None}
    IN  IF holding = {} THEN None
        ELSE (CHOOSE p \in holding : \A q \in holding \ {p} : Before(q, p)).bars[m]]
From(bars, cutoff) == [m \in Minutes |-> IF m < cutoff THEN None ELSE bars[m]]

Rebuilds ==
    /\ writer["rebuild"].at = "idle"
    /\ store.state # "absent"
    /\ store' = IF store.state = "corrupt"
                THEN [state |-> "absent", bars |-> Empty] ELSE store
    /\ \E cutoff \in IF store.state = "ok" THEN {Min(Held(store.bars))} ELSE {1} :
        LET bars == From(Replayed(pages), cutoff)
        IN  IF Held(bars) = {} THEN UNCHANGED writer
            ELSE writer' = [writer EXCEPT !["rebuild"] =
                                [Idle EXCEPT !.at = "ready", !.bars = bars]]
    /\ UNCHANGED <<now, lock, pages, job, doomed>>

-----------------------------------------------------------------------------
(* compact_raw_archive and compress_raw_archive. *)

\* Mutant: any other page proves a page redundant, later or not.
MutantRedundant(p) ==
    \A m \in Held(p.bars) : \E q \in pages \ {p} : q.bars[m] # None

\* Every bar of the page is, unchanged, in a page that is replayed later.
Redundant(p) ==
    \A m \in Held(p.bars) : \E q \in pages : Before(p, q) /\ q.bars[m] = p.bars[m]

CompactionPlans ==
    /\ doomed = {}
    /\ doomed' = {p \in pages : Redundant(p)}
    /\ UNCHANGED <<now, store, lock, pages, writer, job>>

CompactionDeletes ==
    /\ \E p \in doomed :
        /\ pages' = pages \ {p}
        /\ doomed' = doomed \ {p}
    /\ UNCHANGED <<now, store, lock, writer, job>>

CompactionEnds ==
    /\ doomed # {}
    /\ doomed' = {}
    /\ UNCHANGED <<now, store, lock, pages, writer, job>>

Compressed(p) == [p EXCEPT !.gz = TRUE]

CompressionWrites ==
    /\ \E p \in pages : ~p.gz /\ pages' = pages \cup {Compressed(p)}
    /\ UNCHANGED <<now, store, lock, writer, job, doomed>>

CompressionUnlinks ==
    /\ \E p \in pages : /\ ~p.gz
                        /\ Compressed(p) \in pages
                        /\ pages' = pages \ {p}
    /\ UNCHANGED <<now, store, lock, writer, job, doomed>>

-----------------------------------------------------------------------------
MarketNext ==
    \/ MinutePasses \/ StoreBreaks
    \/ \E w \in Writers : Locks(w) \/ Swaps(w) \/ WriterEnds(w)
    \/ FeedHears
    \/ JobStarts \/ JobFetches \/ JobRefreshes \/ JobFails
    \/ JobArchives \/ JobWrites
    \/ Rebuilds
    \/ CompactionPlans \/ CompactionDeletes \/ CompactionEnds
    \/ CompressionWrites \/ CompressionUnlinks

MarketSpec == MarketInit /\ [][MarketNext]_marketVars

-----------------------------------------------------------------------------
MarketTypeOK ==
    /\ store.bars \in [Minutes -> None .. Final]
    /\ lock \in Writers \cup {"none"}
    /\ \A w \in Writers : writer[w].at \in {"idle", "later", "ready", "held"}
    /\ job.token \in Tokens
    /\ \A p \in pages : p.first <= p.last

\* No writer loses another's bars: a bar that is in the store leaves it only
\* by a rebuild, or with a file that cannot be read.
StoreKeepsBars ==
    \A m \in Minutes :
        (/\ store.state = "ok" /\ store.bars[m] # None
         /\ store'.state = "ok" /\ store'.bars[m] = None)
            => writer["rebuild"].at = "held"

\* What came from the broker can be rebuilt without it: the bars of a download
\* are in the archive before they reach the store, whatever is deleted in
\* between.
BrokerBarsAreArchived ==
    writer["job"].at \in {"ready", "held"} =>
        \A m \in Held(writer["job"].bars) : \E p \in pages : p.bars[m] # None

\* Deleting redundant pages and compressing never changes what a rebuild of
\* the archive would give.
ShrinkingIsLossless ==
    ~(pages \subseteq pages') => Replayed(pages') = Replayed(pages)

\* data.py, of the child that downloads after a refresh: "the child is
\* guaranteed a working credential".
ChildHasWorkingCredential == job.depth > 0 => job.token = "current"

BarsStep ==
    /\ StoreKeepsBars
    /\ ShrinkingIsLossless
    /\ MarketTypeOK' /\ BrokerBarsAreArchived'

\* No bar is lost: the writers spare each other's, a download can be replayed
\* from the archive, and what retention does to the archive changes nothing.
BarsAreKept == [][BarsStep]_marketVars
=============================================================================
