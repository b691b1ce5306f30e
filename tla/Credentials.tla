----------------------------- MODULE Credentials -----------------------------
(***************************************************************************)
(* The cTrader tokens: processes that download bars read them from .env    *)
(* when they start, refresh them with the broker when the access token is  *)
(* refused, and write them back (oauth.py; CTraderOpenApiDownloader in     *)
(* data.py; the refresh source of the agent in cli.py).                    *)
(*                                                                         *)
(* The broker, which is modelled from this use, may give a new refresh     *)
(* token with an access token; the former is then worth nothing.  The      *)
(* scheduled download and the agent's are independent processes.           *)
(***************************************************************************)
EXTENDS Integers

CONSTANTS
    Downloads,      \* processes that download bars
    MaxToken        \* bound of the refresh tokens

ASSUME TokensAssumption == "free" \notin Downloads

VARIABLES
    valid,          \* the refresh token the broker accepts
    stored,         \* the refresh token in .env; 0 when the key is missing
    lock,           \* the process that holds .env.lock
    download,       \* what each process does, and the tokens in its memory
    lost            \* whether a token died with its only holder (history)

tokensVars == <<valid, stored, lock, download, lost>>

-----------------------------------------------------------------------------
NotDownloading == [at |-> "idle", has |-> 0, new |-> 0, copy |-> 0]

TokensInit ==
    /\ valid = 1 /\ stored = 1
    /\ lock = "free"
    /\ download = [p \in Downloads |-> NotDownloading]
    /\ lost = FALSE

Moves(p, at) == download' = [download EXCEPT ![p].at = at]

\* The environment of the process has the tokens of the file; without a refresh
\* token a refused access token ends it.
Starts(p) ==
    /\ download[p] = NotDownloading
    /\ stored # 0
    /\ download' = [download EXCEPT
            ![p] = [NotDownloading EXCEPT !.at = "downloading", !.has = stored]]
    /\ UNCHANGED <<valid, stored, lock, lost>>

\* The access token is refused; the refresh is granted with a new refresh token
\* or without one.
Refreshes(p) ==
    /\ download[p].at = "downloading"
    /\ download[p].has = valid
    /\ \E new \in {0, valid + 1} :
        /\ new <= MaxToken
        /\ valid' = IF new = 0 THEN valid ELSE new
        /\ download' = [download EXCEPT ![p].at = "granted", ![p].new = new]
    /\ UNCHANGED <<stored, lock, lost>>

RefreshRefused(p) ==
    /\ download[p].at = "downloading"
    /\ download[p].has # valid
    /\ download' = [download EXCEPT ![p] = NotDownloading]
    /\ UNCHANGED <<valid, stored, lock, lost>>

-----------------------------------------------------------------------------
(* persist_tokens_env *)

\* Mutant: the file is rewritten without the lock.
MutantMayRewrite == TRUE

MayRewrite == lock = "free"

Locks(p) ==
    /\ download[p].at = "granted"
    /\ MayRewrite
    /\ lock' = p
    /\ Moves(p, "locked")
    /\ UNCHANGED <<valid, stored, lost>>

ReadsFile(p) ==
    /\ download[p].at = "locked"
    /\ download' = [download EXCEPT ![p].at = "read", ![p].copy = stored]
    /\ UNCHANGED <<valid, stored, lock, lost>>

\* Mutant: a response without a refresh token drops the key.
MutantRewritten(old, new) == new

\* _rewritten_env
Rewritten(old, new) == IF new = 0 THEN old ELSE new

ReplacesFile(p) ==
    /\ download[p].at = "read"
    /\ stored' = Rewritten(download[p].copy, download[p].new)
    /\ Moves(p, "replaced")
    /\ UNCHANGED <<valid, lock, lost>>

Unlocks(p) ==
    /\ download[p].at = "replaced"
    /\ lock' = IF lock = p THEN "free" ELSE lock
    /\ download' = [download EXCEPT ![p] = NotDownloading]
    /\ UNCHANGED <<valid, stored, lost>>

\* The file still holds what it held: the process is killed or fails, or the
\* lock does not come in time.
Ends(p) ==
    /\ download[p].at \in {"downloading", "granted", "locked", "read"}
    /\ lost' = (lost \/ download[p].new # 0)
    /\ lock' = IF lock = p THEN "free" ELSE lock
    /\ download' = [download EXCEPT ![p] = NotDownloading]
    /\ UNCHANGED <<valid, stored>>

-----------------------------------------------------------------------------
TokensNext ==
    \E p \in Downloads :
        \/ Starts(p) \/ Refreshes(p) \/ RefreshRefused(p)
        \/ Locks(p) \/ ReadsFile(p) \/ ReplacesFile(p) \/ Unlocks(p) \/ Ends(p)

TokensSpec == TokensInit /\ [][TokensNext]_tokensVars

-----------------------------------------------------------------------------
TokensTypeOK ==
    /\ valid \in 1 .. MaxToken /\ stored \in 0 .. MaxToken
    /\ lock \in Downloads \cup {"free"}

Carries(p) == download[p].at \in {"granted", "locked", "read"} /\ download[p].new = valid

\* Unless a process died with a token nobody else has, the token in the file is
\* the one the broker accepts, or somebody is about to write that one.
StoredTokenWorks == lost \/ stored = valid \/ \E p \in Downloads : Carries(p)
=============================================================================
