---------------------------- MODULE BrokerSession ----------------------------
(***************************************************************************)
(* The session of CTraderDemoOpenApiTransport with the broker: the         *)
(* connection that comes and goes, the authorisation a connection has to   *)
(* be given, the account the transport remembers, and the events from      *)
(* which the outcome of an order is told (ctrader_demo.py, 150-391 and the *)
(* reading of the receipt in execute).                                     *)
(*                                                                         *)
(* The account is also traded by hand, so events of other orders arrive.   *)
(* One call is made at a time.  The client library, which is not part of   *)
(* the repository, reconnects by itself and holds a request until there is *)
(* a connection or the request's own timer runs out.                       *)
(***************************************************************************)
EXTENDS FiniteSets, Integers

CONSTANTS
    Orders,         \* request ids of the orders that are sent
    Outside,        \* stands for every order that is not ours
    MaxLinks,       \* bound of the connections
    MaxOutside      \* bound of the events of other orders

\* The names of orders are no names of requests, and the orders of others have no
\* name of an order of ours.
ASSUME SessionAssumption ==
    /\ MaxLinks \in Nat
    /\ Orders \cap {"application", "account", "symbols", "order", "none"} = {}
    /\ Outside \notin Orders \cup {"application", "account", "symbols", "order", "none"}

VARIABLES
    link,           \* the connection that is up, numbered; 0 when it is down
    links,          \* connections so far
    granted,        \* what the broker has authorised on this connection
    everGranted,    \* whether it ever authorised the account (history)
    account,        \* whether the transport remembers the account
    call,           \* the request in progress
    held,           \* requests the library has not yet written
    wire,           \* messages on their way to the client
    broker,         \* the broker's state of each order
    verdict,        \* what execute recorded of each order
    outside         \* events of other orders so far

sessionVars == <<link, links, granted, everGranted, account, call, held, wire, broker,
          verdict, outside>>

-----------------------------------------------------------------------------
Steps == {"application", "account", "symbols"}      \* of _ensure_authenticated
NoCall == [step |-> "none", order |-> Outside]
Words == {"accepted", "partial", "filled", "error", "other"}
Message(about, word) == [about |-> about, word |-> word]

SessionInit ==
    /\ link = 0 /\ links = 0
    /\ granted = "nothing" /\ everGranted = FALSE
    /\ account = FALSE
    /\ call = NoCall /\ held = {} /\ wire = {}
    /\ broker = [o \in Orders |-> "absent"]
    /\ verdict = [o \in Orders |-> "none"]
    /\ outside = 0

Connects ==
    /\ link = 0 /\ links < MaxLinks
    /\ links' = links + 1 /\ link' = links + 1
    /\ UNCHANGED <<granted, everGranted, account, call, held, wire, broker,
                   verdict, outside>>

\* What was on its way is lost, and the next connection has no authorisation.
Drops ==
    /\ link # 0
    /\ link' = 0 /\ granted' = "nothing" /\ wire' = {}
    /\ UNCHANGED <<links, everGranted, account, call, held, broker, verdict, outside>>

-----------------------------------------------------------------------------
(* send, _ensure_authenticated and _request *)

Asks(step, order) ==
    /\ call' = [step |-> step, order |-> order]
    /\ held' = held \cup {[step |-> step, order |-> order]}

\* An unknown outcome stops the execution until the broker has been asked.
SendBegins(o) ==
    /\ call = NoCall
    /\ verdict[o] = "none"
    /\ \A other \in Orders : verdict[other] # "unknown"
    /\ Asks(IF account THEN "order" ELSE "application", o)
    /\ UNCHANGED <<link, links, granted, everGranted, account, wire, broker,
                   verdict, outside>>

Says(about, word) == wire' = wire \cup {Message(about, word)}

\* The broker's answers to the requests that authenticate.
Authorises ==
    /\ link # 0
    /\ \E r \in held :
        /\ r.step \in Steps
        /\ held' = held \ {r}
        /\ \E ok \in BOOLEAN :
            /\ ok => CASE r.step = "application" -> granted = "nothing"
                       [] r.step = "account" -> granted = "application"
                       [] r.step = "symbols" -> granted = "account"
            /\ granted' = IF ok /\ r.step # "symbols" THEN r.step ELSE granted
            /\ Says(r.step, IF ok THEN "other" ELSE "error")
    /\ everGranted' = (everGranted \/ granted' = "account")
    /\ UNCHANGED <<link, links, account, call, broker, verdict, outside>>

\* The reply to an authentication request is not looked at; the symbol list is
\* refused to a connection that is not authorised.
Proceeds ==
    \E m \in wire :
        /\ m.about = call.step
        /\ call.step \in {"application", "account"}
        /\ wire' = wire \ {m}
        /\ Asks(IF call.step = "application" THEN "account" ELSE "symbols", call.order)
        /\ UNCHANGED <<link, links, granted, everGranted, account, broker,
                       verdict, outside>>

\* Mutant: the reply to the symbol list is not looked at either.
MutantRefused(m) == FALSE

\* _raise_for_error
Refused(m) == m.word = "error"

Returns(value) ==
    /\ call' = NoCall
    /\ verdict' = [verdict EXCEPT ![call.order] = value]

RemembersAccount ==
    \E m \in wire :
        /\ m.about = call.step /\ call.step = "symbols"
        /\ ~Refused(m)
        /\ wire' = wire \ {m}
        /\ account' = TRUE
        /\ Asks("order", call.order)
        /\ UNCHANGED <<link, links, granted, everGranted, broker, verdict, outside>>

\* send raises; execute cannot tell and records an unknown outcome.
SymbolsRefused ==
    \E m \in wire :
        /\ m.about = call.step /\ call.step = "symbols"
        /\ Refused(m)
        /\ wire' = wire \ {m}
        /\ Returns("unknown")
        /\ UNCHANGED <<link, links, granted, everGranted, account, held, broker, outside>>

\* The wait ends; the library has not necessarily dropped the request yet.
TimesOut ==
    /\ call # NoCall
    /\ Returns("unknown")
    /\ UNCHANGED <<link, links, granted, everGranted, account, held, wire, broker,
                   outside>>

LibraryCancels ==
    /\ call = NoCall
    /\ \E r \in held : held' = held \ {r}
    /\ UNCHANGED <<link, links, granted, everGranted, account, call, wire, broker,
                   verdict, outside>>

-----------------------------------------------------------------------------
(* The broker and the orders. *)

\* A connection that is not authorised is refused the order.
TakesOrder ==
    /\ link # 0
    /\ \E r \in held :
        /\ r.step = "order"
        /\ held' = held \ {r}
        /\ \E word \in (IF granted = "account" THEN {"accepted", "error"} ELSE {"error"}) :
            /\ Says(r.order, word)
            /\ broker' = [broker EXCEPT ![r.order] =
                            IF word = "accepted" THEN "accepted" ELSE "refused"]
    /\ UNCHANGED <<link, links, granted, everGranted, account, call, verdict, outside>>

\* A market order is filled, at once or in parts, or cancelled for what is left;
\* an event reaches the connection that is authorised.
WorksOrder(o) ==
    /\ broker[o] \in {"accepted", "partial"}
    /\ \E to \in {"partial", "filled", "other"} \ {broker[o]} :
        /\ broker' = [broker EXCEPT ![o] = IF to # "other" THEN to
                                          ELSE IF @ = "partial" THEN "cut" ELSE "refused"]
        /\ wire' = IF granted = "account" THEN wire \cup {Message(o, to)} ELSE wire
    /\ UNCHANGED <<link, links, granted, everGranted, account, call, held, verdict,
                   outside>>

OutsideEvent ==
    /\ granted = "account" /\ outside < MaxOutside
    /\ outside' = outside + 1
    /\ \E word \in Words : Says(Outside, word)
    /\ UNCHANGED <<link, links, granted, everGranted, account, call, held, broker, verdict>>

-----------------------------------------------------------------------------
(* _request_order and the receipt *)

\* Mutant: any event of the account is taken for this order's.
MutantMatches(m) == TRUE

\* clientMsgId or clientOrderId.
Matches(m) == m.about = call.order

EndsOrder(m) == m.word \notin {"accepted", "partial"}

\* What execute makes of the terminal event; a fill has to bear the order's id.
Verdict(m) ==
    CASE m.word = "error" -> "rejected"
      [] m.word = "filled" /\ m.about = call.order -> "accepted"
      [] OTHER -> "unknown"

HearsOutcome ==
    \E m \in wire :
        /\ call.step = "order"
        /\ Matches(m) /\ EndsOrder(m)
        /\ wire' = wire \ {m}
        /\ Returns(Verdict(m))
        /\ UNCHANGED <<link, links, granted, everGranted, account, held, broker, outside>>

\* An event that does not settle the order in progress, or arrives late.
Ignores ==
    \E m \in wire :
        /\ m.about # call.step
        /\ call.step = "order" => ~(Matches(m) /\ EndsOrder(m))
        /\ wire' = wire \ {m}
        /\ UNCHANGED <<link, links, granted, everGranted, account, call, held,
                       broker, verdict, outside>>

-----------------------------------------------------------------------------
SessionNext ==
    \/ Connects \/ Drops
    \/ \E o \in Orders : SendBegins(o) \/ WorksOrder(o)
    \/ Authorises \/ Proceeds \/ RemembersAccount \/ SymbolsRefused
    \/ TimesOut \/ LibraryCancels
    \/ TakesOrder \/ OutsideEvent \/ HearsOutcome \/ Ignores

SessionSpec == SessionInit /\ [][SessionNext]_sessionVars

-----------------------------------------------------------------------------
SessionTypeOK ==
    /\ link \in 0 .. MaxLinks
    /\ granted \in {"nothing", "application", "account"}
    /\ call.step \in Steps \cup {"none", "order"}
    /\ \A m \in wire : m.word \in Words
    /\ verdict \in [Orders -> {"none", "accepted", "rejected", "unknown"}]

\* What is recorded of an order is what became of it, whatever else happens on
\* the account and however late the events are: a rejected order never fills.
VerdictsAreTrue ==
    \A o \in Orders :
        /\ verdict[o] = "accepted" => broker[o] = "filled"
        /\ verdict[o] = "rejected" => broker[o] = "refused"

\* The account that is remembered was authorised, though the replies to the
\* requests that authorise it are not looked at.
AccountWasAuthorised == account => everGranted

\* What is recorded of orders and of the account is what the broker has done.
SessionIsTrusted ==
    SessionTypeOK /\ VerdictsAreTrue /\ AccountWasAuthorised
=============================================================================
