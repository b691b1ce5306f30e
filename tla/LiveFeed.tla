------------------------------ MODULE LiveFeed ------------------------------
(***************************************************************************)
(* The live feed of live_feed.py: one process that subscribes to the M1    *)
(* bars of the demo account and appends the closed ones to the store.      *)
(*                                                                         *)
(* Everything happens in callbacks of one reactor: the connection comes    *)
(* and goes, requests are answered, refused or never answered, frames      *)
(* arrive, timers fire, a signal stops the process and systemd starts it   *)
(* again.  What a callback raises is lost in the reactor: it ends the      *)
(* chain of requests and nothing else.                                     *)
(*                                                                         *)
(* A bar is its minute and the number of updates that made it; the broker, *)
(* and whether it requires authentication, is external.                    *)
(***************************************************************************)
EXTENDS Integers

CONSTANTS
    Accounts,       \* demo accounts of the token, tried in turn
    MaxMinute,      \* bound of the minutes
    MaxUpdates,     \* bound of the updates of one minute
    MaxAge,         \* MAX_BAR_AGE_SECONDS, in minutes
    MaxDrops        \* bound of the lost connections and of the process ends

ASSUME FeedAssumption ==
    /\ Accounts \in Nat \ {0} /\ MaxMinute \in Nat \ {0}
    /\ MaxUpdates \in Nat /\ MaxAge \in Nat

VARIABLES
    process,        \* "up", "stopping" (_stop is set) or "down"
    socket,         \* the connection, and what the broker knows of it
    found,          \* whether the symbol was resolved, by this process
    asked,          \* requests without an answer
    cadence,        \* whether a resubscription is scheduled
    feedStatus,     \* the state in the status file
    minute,         \* the minute the broker is in
    now,            \* the minute of the local clock: latency puts it ahead
    made,           \* how many updates each minute got
    heldBar,        \* _pending
    last,           \* last_bar_time
    bars,           \* the store
    drops,          \* lost connections and process ends so far
    heard,          \* observed: minutes this process heard of in time
    excused         \* observed: minutes of those whose bar may be missing

connection == <<process, socket, found, asked, cadence, feedStatus>>
market == <<minute, now, made>>
barState == <<heldBar, last, bars>>
feedVars == <<connection, market, barState, drops, heard, excused>>

-----------------------------------------------------------------------------
Minutes == 1 .. MaxMinute
FeedRequests == {"app", "account", "symbols", "spots", "bars"}

\* "account" needs "app", the spot subscription needs both, and the one of the
\* bars needs that of the spots, on this connection.
NoSocket == [up |-> FALSE, app |-> FALSE, account |-> FALSE, spots |-> FALSE,
             streams |-> FALSE]
Sockets == [up : BOOLEAN, app : BOOLEAN, account : BOOLEAN, spots : BOOLEAN,
            streams : BOOLEAN]

FeedStates == {"starting", "connecting", "subscribing_spots", "subscribing", "ok",
           "subscribe_failed", "transport_error", "unavailable", "reconnecting",
           "stopped", "bar_write_failed", "stale_bar_ignored"}

\* A request: what is asked, on which connection (this one or an earlier one),
\* and the accounts still to be tried.
Asked == [what : FeedRequests, here : BOOLEAN, left : 0 .. Accounts]
Ask(what, left) == [what |-> what, here |-> TRUE, left |-> left]

NoBar == [minute |-> 0, updates |-> 0]
Bars == [minute : Minutes, updates : 1 .. MaxUpdates] \cup {NoBar}

ClosedBar(m) == now > m

FeedInit ==
    /\ process = "down"
    /\ socket = NoSocket
    /\ found = FALSE
    /\ asked = {}
    /\ cadence = FALSE
    /\ feedStatus = "stopped"
    /\ minute = 1
    /\ now = 1
    /\ made = [m \in Minutes |-> 0]
    /\ heldBar = NoBar
    /\ last = 0
    /\ bars = [m \in Minutes |-> 0]
    /\ drops = 0
    /\ heard = {}
    /\ excused = {}

-----------------------------------------------------------------------------
(* The connection and the subscription. *)

\* run_feed: systemd starts the process, whose memory is empty.
StartFeed ==
    /\ process = "down"
    /\ process' = "up"
    /\ feedStatus' = "connecting"
    /\ UNCHANGED <<socket, found, asked, cadence, market, barState, drops, heard, excused>>

\* _subscribe: discovery first, unless the symbol is known already.
SubscribeRequests == {IF found THEN Ask("spots", 0) ELSE Ask("app", 0)}

OnConnected ==
    /\ process = "up"
    /\ ~socket.up
    /\ socket' = [NoSocket EXCEPT !.up = TRUE]
    /\ asked' = asked \cup SubscribeRequests
    /\ feedStatus' = IF found THEN "subscribing_spots" ELSE feedStatus
    /\ cadence' = TRUE
    /\ UNCHANGED <<process, found, market, barState, drops, heard, excused>>

\* RESUBSCRIBE_SECONDS is longer than all the timeouts of a chain of requests.
Resubscribe ==
    /\ process = "up"
    /\ cadence
    /\ socket.up
    /\ asked = {}
    /\ asked' = SubscribeRequests
    /\ feedStatus' = IF found THEN "subscribing_spots" ELSE feedStatus
    /\ UNCHANGED <<process, socket, found, cadence, market, barState, drops, heard,
                   excused>>

\* A plausible bug: the status says nothing of the lost connection.
MutantConnectionLost ==
    /\ process # "down"
    /\ socket.up
    /\ drops < MaxDrops
    /\ drops' = drops + 1
    /\ socket' = NoSocket
    /\ asked' = {[r EXCEPT !.here = FALSE] : r \in asked}
    /\ UNCHANGED <<process, found, cadence, feedStatus, market, barState, heard, excused>>

\* _connection_lost: the client connects again; requests run into their timeout.
ConnectionLost ==
    /\ process # "down"
    /\ socket.up
    /\ drops < MaxDrops
    /\ drops' = drops + 1
    /\ socket' = NoSocket
    /\ asked' = {[r EXCEPT !.here = FALSE] : r \in asked}
    /\ feedStatus' = IF process = "stopping" THEN "stopped" ELSE "reconnecting"
    /\ UNCHANGED <<process, found, cadence, market, barState, heard, excused>>

\* The broker refuses what the connection is not authenticated for.
Permitted(r) ==
    CASE r.what = "app" -> TRUE
      [] r.what = "account" -> socket.app
      [] r.what = "bars" -> socket.spots
      [] OTHER -> socket.app /\ socket.account

Pending(r) == process # "down" /\ socket.up /\ r.here

\* A request is granted and the next one of its chain is sent.
RequestGranted(r) ==
    /\ Pending(r)
    /\ Permitted(r)
    /\ LET next ==
             CASE r.what = "app" -> {Ask("account", Accounts - 1)}
               [] r.what = "account" -> {Ask("symbols", 0)}
               [] r.what = "symbols" -> {Ask("spots", 0)}
               [] r.what = "spots" -> {Ask("bars", 0)}
               [] OTHER -> {}
       IN  asked' = (asked \ {r}) \cup next
    /\ socket' = [socket EXCEPT !.app = @ \/ r.what = "app",
                                !.account = @ \/ r.what = "account",
                                !.spots = @ \/ r.what = "spots",
                                !.streams = @ \/ r.what = "bars"]
    /\ found' = (found \/ r.what = "symbols")
    /\ feedStatus' = CASE r.what = "symbols" -> "subscribing_spots"
                       [] r.what = "spots" -> "subscribing"
                       [] r.what = "bars" -> "ok"
                       [] OTHER -> feedStatus
    /\ UNCHANGED <<process, cadence, market, barState, drops, heard, excused>>

\* A refusal is an answer: the next account, or a note and the end of the
\* chain.  The answer to the application's request is not looked at, and guard
\* looks for an error code in the envelope of a subscription's answer, which
\* has none: a refused subscription goes on like a granted one.
RequestRefused(r) ==
    /\ Pending(r)
    /\ \/ /\ r.what = "app"
          /\ asked' = (asked \ {r}) \cup {Ask("account", Accounts - 1)}
          /\ UNCHANGED feedStatus
       \/ /\ r.what = "account"
          /\ r.left > 0
          /\ asked' = (asked \ {r}) \cup {Ask("account", r.left - 1)}
          /\ UNCHANGED feedStatus
       \/ /\ r.what \in {"account", "symbols"}
          /\ r.left = 0
          /\ asked' = asked \ {r}
          /\ feedStatus' = "unavailable"
       \/ /\ r.what = "spots"
          /\ asked' = (asked \ {r}) \cup {Ask("bars", 0)}
          /\ feedStatus' = "subscribing"
       \/ /\ r.what = "bars"
          /\ asked' = asked \ {r}
          /\ feedStatus' = "ok"
    /\ UNCHANGED <<process, socket, found, cadence, market, barState, drops, heard,
                   excused>>

\* No answer in time: the process gives up, except in the application's case.
RequestUnanswered(r) ==
    /\ process # "down"
    /\ asked' = asked \ {r}
    /\ IF r.what = "app"
       THEN feedStatus' = "unavailable" /\ UNCHANGED process
       ELSE /\ process' = "stopping"
            /\ feedStatus' = IF r.what \in {"spots", "bars"} THEN "subscribe_failed"
                             ELSE "transport_error"
    /\ UNCHANGED <<socket, found, cadence, market, barState, drops, heard, excused>>

-----------------------------------------------------------------------------
(* The bars. *)

\* A plausible bug: a bar that is not closed yet is written.
MutantWritable(bar, after) ==
    /\ now - bar.minute <= MaxAge
    /\ bar.minute > after

\* A plausible bug: the order of the bars is left to the store.
MutantWritableAgain(bar, after) ==
    /\ ClosedBar(bar.minute)
    /\ now - bar.minute <= MaxAge

\* persist_bar: closed, not too old, and newer than the last one written.
Writable(bar, after) ==
    /\ ClosedBar(bar.minute)
    /\ now - bar.minute <= MaxAge
    /\ bar.minute > after

Stale(bar) == ClosedBar(bar.minute) /\ now - bar.minute > MaxAge

\* persist_bar of a sequence of at most two bars, the held one and the new one.
Persist(first, second) ==
    LET one == first # NoBar /\ Writable(first, last)
        at  == IF one THEN first.minute ELSE last
        two == second # NoBar /\ Writable(second, at)
    IN  /\ bars' = [m \in Minutes |->
                      IF two /\ m = second.minute THEN second.updates
                      ELSE IF one /\ m = first.minute THEN first.updates
                      ELSE bars[m]]
        /\ last' = IF two THEN second.minute ELSE at
        /\ feedStatus' =
              IF two THEN "ok"
              ELSE IF second # NoBar /\ Stale(second) THEN "stale_bar_ignored"
              ELSE IF one THEN "ok"
              ELSE IF first # NoBar /\ Stale(first) THEN "stale_bar_ignored"
              ELSE feedStatus
        /\ excused' = excused \cup {b.minute : b \in {c \in {first, second} :
                                                        c # NoBar /\ Stale(c)}}

\* A bar is heard in time when no newer one was stored before it came.
Hears(bar) == heard' = IF bar.minute < last THEN heard ELSE heard \cup {bar.minute}

\* A plausible bug: a forming bar is compared with the clock and dropped.
MutantOnBar(bar) ==
    /\ Hears(bar)
    /\ heldBar' = NoBar
    /\ Persist(NoBar, bar)

\* on_bar: an older bar is dropped, the same minute replaces what is held, and
\* a newer one proves the held bar closed.
OnBar(bar) ==
    \/ /\ bar.minute < heldBar.minute
       /\ UNCHANGED <<barState, feedStatus, heard, excused>>
    \/ /\ bar.minute = heldBar.minute
       /\ heldBar' = bar
       /\ UNCHANGED <<last, bars, feedStatus, heard, excused>>
    \/ /\ bar.minute > heldBar.minute
       /\ Hears(bar)
       /\ IF ClosedBar(bar.minute)
          THEN heldBar' = NoBar /\ Persist(heldBar, bar)
          ELSE heldBar' = bar /\ Persist(heldBar, NoBar)

\* The store refuses a write: what was held is gone, and the new bar with it.
StoreFails(bar) ==
    /\ bar.minute > heldBar.minute
    /\ \/ heldBar # NoBar /\ Writable(heldBar, last)
       \/ Writable(bar, last)
    /\ heldBar' = NoBar
    /\ feedStatus' = "bar_write_failed"
    /\ Hears(bar)
    /\ excused' = excused \cup ({heldBar.minute, bar.minute} \cap Minutes)
    /\ UNCHANGED <<last, bars>>

Arrives(bar) == OnBar(bar) \/ StoreFails(bar)

Streaming == process # "down" /\ socket.up /\ socket.streams

\* The market moves: the minute the broker is in gets an update, which is heard
\* when the broker streams to the process.
Trade ==
    /\ made[minute] < MaxUpdates
    /\ made' = [made EXCEPT ![minute] = @ + 1]
    /\ IF Streaming
       THEN Arrives([minute |-> minute, updates |-> made[minute] + 1])
       ELSE UNCHANGED <<barState, feedStatus, heard, excused>>
    /\ UNCHANGED <<process, socket, found, asked, cadence, minute, now, drops>>

\* A connection may replay a minute that has been heard, or was missed.
ReplayBar(m) ==
    /\ Streaming
    /\ made[m] > 0
    /\ Arrives([minute |-> m, updates |-> made[m]])
    /\ UNCHANGED <<process, socket, found, asked, cadence, market, drops>>

MinuteEnds ==
    /\ now = minute + 1
    /\ now \in Minutes
    /\ minute' = minute + 1
    /\ UNCHANGED <<connection, now, made, barState, drops, heard, excused>>

MinuteTurns ==
    /\ now = minute
    /\ now' = now + 1
    /\ UNCHANGED <<connection, minute, made, barState, drops, heard, excused>>

-----------------------------------------------------------------------------
(* The end of the process. *)

\* SIGTERM: the held bar is flushed if it is closed by now.
Terminate ==
    /\ process = "up"
    /\ drops < MaxDrops
    /\ drops' = drops + 1
    /\ process' = "stopping"
    /\ heldBar' = NoBar
    /\ LET one == heldBar # NoBar /\ Writable(heldBar, last)
       IN  /\ bars' = IF one THEN [bars EXCEPT ![heldBar.minute] = heldBar.updates] ELSE bars
           /\ last' = IF one THEN heldBar.minute ELSE last
    /\ excused' = excused \cup heard
    /\ feedStatus' = "stopped"
    /\ UNCHANGED <<socket, found, asked, cadence, market, heard>>

\* watch_stop ends the reactor; a process that is killed ends the same way,
\* and leaves its status as it was.
ProcessEnds ==
    /\ \/ /\ process = "stopping"
          /\ UNCHANGED drops
       \/ /\ process = "up"
          /\ drops < MaxDrops
          /\ drops' = drops + 1
    /\ process' = "down"
    /\ socket' = NoSocket
    /\ found' = FALSE
    /\ asked' = {}
    /\ cadence' = FALSE
    /\ heldBar' = NoBar
    /\ last' = 0
    /\ heard' = {}
    /\ excused' = {}
    /\ UNCHANGED <<feedStatus, market, bars>>

FeedNext ==
    \/ StartFeed \/ OnConnected \/ Resubscribe \/ ConnectionLost
    \/ \E r \in asked : RequestGranted(r) \/ RequestRefused(r) \/ RequestUnanswered(r)
    \/ Trade \/ MinuteEnds \/ MinuteTurns
    \/ \E m \in Minutes : ReplayBar(m)
    \/ Terminate \/ ProcessEnds

FeedSpec == FeedInit /\ [][FeedNext]_feedVars

-----------------------------------------------------------------------------
(* Properties. *)

FeedTypeOK ==
    /\ process \in {"up", "stopping", "down"}
    /\ socket \in Sockets
    /\ {found, cadence} \subseteq BOOLEAN
    /\ asked \subseteq Asked
    /\ feedStatus \in FeedStates
    /\ minute \in Minutes
    /\ now \in minute .. minute + 1
    /\ made \in [Minutes -> 0 .. MaxUpdates]
    /\ heldBar \in Bars
    /\ last \in 0 .. MaxMinute
    /\ bars \in [Minutes -> 0 .. MaxUpdates]

\* No bar of a minute that is not over by the clock of the process is in the
\* store, not even when the process is stopped with a bar in hand.
ClosedBarsOnly == \A m \in Minutes : bars[m] > 0 => ClosedBar(m)

\* A bar the feed has heard of, and has heard a newer one than, is in the store,
\* unless a newer one was stored when it came, it was too old, its write was
\* refused or the process ended.
HeardBarsAreStored ==
    \A m \in heard \ excused :
        (\E n \in heard : n > m) => bars[m] > 0

\* The status says ok only while the broker streams to a connected process, or
\* the process is about to end or was killed ("the code has to be read or a
\* refused subscription would be recorded as a confirmed one").
OkMeansSubscribed == process = "up" /\ feedStatus = "ok" => socket.streams

\* One process persists each bar once: a replay never rewrites it.
PersistedOnce ==
    \A m \in Minutes :
        bars[m] > 0 /\ bars'[m] # bars[m] => m > last

FeedStep ==
    /\ PersistedOnce
    /\ FeedTypeOK' /\ ClosedBarsOnly' /\ HeardBarsAreStored'

\* The store gets every closed bar that the feed heard of, once, and no other.
FeedIsComplete == [][FeedStep]_feedVars
=============================================================================
