-------------------------------- MODULE Quotes --------------------------------
(***************************************************************************)
(* The last quote and the history of quotes (quotes.py, record_spot, and   *)
(* _record_quote of live_feed.py).  A feed that is being restarted may     *)
(* overlap the one it replaces, frames are delayed and out of order, and   *)
(* the local clock may be behind the broker's.                             *)
(***************************************************************************)
EXTENDS Integers

CONSTANTS
    Feeds,          \* processes that record quotes
    MaxSecond,      \* bound of the clock
    Retained        \* seconds the history keeps

ASSUME QuotesAssumption ==
    /\ "free" \notin Feeds
    /\ MaxSecond \in Nat \ {0}
    /\ Retained \in Nat

VARIABLES
    clock,          \* the clock of the host, in seconds
    quote,          \* the quote of the status file; received 0 before the first
    quoteHistory,   \* for each second the observation recorded; NoRow for none
    statusLock,     \* the feed that holds the lock of the status file
    feed            \* what each feed is doing

quotesVars == <<clock, quote, quoteHistory, statusLock, feed>>

-----------------------------------------------------------------------------
Seconds == 1 .. MaxSecond
NoQuote == [received |-> 0, observed |-> 0]
NoRow == -1
Listening == [at |-> "idle", frame |-> NoQuote, seen |-> NoQuote]

QuotesInit ==
    /\ clock = 1
    /\ quote = NoQuote
    /\ quoteHistory = [s \in Seconds |-> NoRow]
    /\ statusLock = "free"
    /\ feed = [p \in Feeds |-> Listening]

ClockTurns ==
    /\ clock < MaxSecond
    /\ clock' = clock + 1
    /\ UNCHANGED <<quote, quoteHistory, statusLock, feed>>

-----------------------------------------------------------------------------
(* record_spot *)

\* A complete frame; observed is 0 when the broker gives no time.  A frame from
\* the future is refused.
Decodes(p) ==
    /\ feed[p] = Listening
    /\ \E observed \in 0 .. clock :
        feed' = [feed EXCEPT ![p] = [Listening EXCEPT !.at = "decoded",
                        !.frame = [received |-> clock, observed |-> observed]]]
    /\ UNCHANGED <<clock, quote, quoteHistory, statusLock>>

\* Mutant: the lock is left out.
MutantMayLock == TRUE

MayLock == statusLock = "free"

LocksStatus(p) ==
    /\ feed[p].at = "decoded"
    /\ MayLock
    /\ statusLock' = p
    /\ feed' = [feed EXCEPT ![p].at = "locked", ![p].seen = quote]
    /\ UNCHANGED <<clock, quote, quoteHistory>>

Releases(p) ==
    /\ statusLock' = IF statusLock = p THEN "free" ELSE statusLock
    /\ feed' = [feed EXCEPT ![p] = Listening]

\* Mutant: a quote with no time of the broker resets the comparison.
MutantNewer(frame, previous) == frame.received > previous.received

\* One quote a second, and none that was observed before the last.
Newer(frame, previous) ==
    /\ frame.received > previous.received
    /\ frame.observed # 0 /\ previous.observed # 0 => frame.observed > previous.observed

Refuses(p) ==
    /\ feed[p].at = "locked"
    /\ ~Newer(feed[p].frame, feed[p].seen)
    /\ Releases(p)
    /\ UNCHANGED <<clock, quote, quoteHistory>>

\* INSERT OR IGNORE, and the rows out of the window are deleted.
RecordsHistory(p) ==
    LET frame == feed[p].frame
        row(s) == IF s = frame.received /\ quoteHistory[s] = NoRow THEN frame.observed
                  ELSE IF s <= frame.received - Retained \/ s > frame.received THEN NoRow
                  ELSE quoteHistory[s]
    IN  /\ feed[p].at = "locked"
        /\ Newer(frame, feed[p].seen)
        /\ quoteHistory' = [s \in Seconds |-> row(s)]
        /\ feed' = [feed EXCEPT ![p].at = "recorded"]
        /\ UNCHANGED <<clock, quote, statusLock>>

ReplacesQuote(p) ==
    /\ feed[p].at = "recorded"
    /\ quote' = feed[p].frame
    /\ Releases(p)
    /\ UNCHANGED <<clock, quoteHistory>>

\* The process is killed, an exception is caught, or the lock times out.
QuoteFails(p) ==
    /\ feed[p] # Listening
    /\ Releases(p)
    /\ UNCHANGED <<clock, quote, quoteHistory>>

-----------------------------------------------------------------------------
QuotesNext ==
    \/ ClockTurns
    \/ \E p \in Feeds :
        \/ Decodes(p) \/ LocksStatus(p) \/ Refuses(p) \/ RecordsHistory(p)
        \/ ReplacesQuote(p) \/ QuoteFails(p)

QuotesSpec == QuotesInit /\ [][QuotesNext]_quotesVars

-----------------------------------------------------------------------------
QuotesTypeOK ==
    /\ clock \in Seconds /\ quote.received \in 0 .. MaxSecond
    /\ quoteHistory \in [Seconds -> {NoRow} \cup 0 .. MaxSecond]
    /\ statusLock \in Feeds \cup {"free"}

QuoteStep ==
    /\ QuotesTypeOK'
    /\ (/\ quote'.received > quote.received
        /\ quote.observed # 0 /\ quote'.observed # 0)
            => quote'.observed > quote.observed

\* A consumer never sees an older quote after a newer one, whichever feed wrote
\* it and in whatever order the frames came.
QuotesAdvance == [][QuoteStep]_quotesVars
=============================================================================
