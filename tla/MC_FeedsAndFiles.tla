-------------------------- MODULE MC_FeedsAndFiles --------------------------
(***************************************************************************)
(* Instances for TLC of the components that receive market data and broker *)
(* answers (live feed, quotes, access tokens, broker session) and of those *)
(* that keep and delete files (frozen datasets, backups, experiment        *)
(* artifacts, installed releases, daily research, promotions of the        *)
(* tournament service). Their specifications share no state, so a          *)
(* behaviour of this one is a behaviour of one of them while the others    *)
(* stay as they began, and its states are the union of theirs.             *)
(***************************************************************************)
EXTENDS TournamentRunner, DatasetFreeze, Credentials, BrokerSession, Artifacts,
        Backups, Quotes, DailyResearch, LiveFeed, ReleaseInstall

VARIABLE
    part            \* the component whose behaviour this is

\* The experiments of the tournament are told apart by their priority.
ServicePriority == [e \in Experiments |-> e]

allVars == <<part, vars, freezeVars, tokensVars, sessionVars, artifactsVars,
    feedVars, quotesVars, releaseVars, backupsVars, researchVars>>

PartsInit ==
    /\ part \in {"datasets", "feed", "quote", "token", "session", "release",
                 "backups", "artifacts", "research", "service"}
    /\ FreezeInit
    /\ FeedInit
    /\ QuotesInit
    /\ TokensInit
    /\ SessionInit
    /\ ReleaseInit
    /\ BackupsInit
    /\ ArtifactsInit
    /\ ResearchInit
    /\ Init
    /\ part # "service" => outcome = [e \in Experiments |-> Rejected]

\* The part moves; the others keep their first state, which is fixed.
PartsNext ==
    \/ /\ part = "datasets"
       /\ FreezeNext
       /\ UNCHANGED <<part, tokensVars, sessionVars, artifactsVars, feedVars,
                       quotesVars, releaseVars, backupsVars,
                       researchVars, vars>>
    \/ /\ part = "feed"
       /\ FeedNext
       /\ UNCHANGED <<part, freezeVars, tokensVars, sessionVars, artifactsVars,
                       quotesVars, releaseVars, backupsVars,
                       researchVars, vars>>
    \/ /\ part = "quote"
       /\ QuotesNext
       /\ UNCHANGED <<part, freezeVars, tokensVars, sessionVars, artifactsVars,
                       feedVars, releaseVars, backupsVars,
                       researchVars, vars>>
    \/ /\ part = "token"
       /\ TokensNext
       /\ UNCHANGED <<part, freezeVars, sessionVars, artifactsVars, feedVars,
                       quotesVars, releaseVars, backupsVars,
                       researchVars, vars>>
    \/ /\ part = "session"
       /\ SessionNext
       /\ UNCHANGED <<part, freezeVars, tokensVars, artifactsVars, feedVars,
                       quotesVars, releaseVars, backupsVars,
                       researchVars, vars>>
    \/ /\ part = "release"
       /\ ReleaseNext
       /\ UNCHANGED <<part, freezeVars, tokensVars, sessionVars, artifactsVars,
                       feedVars, quotesVars, backupsVars,
                       researchVars, vars>>
    \/ /\ part = "backups"
       /\ BackupsNext
       /\ UNCHANGED <<part, freezeVars, tokensVars, sessionVars, artifactsVars,
                       feedVars, quotesVars, releaseVars,
                       researchVars, vars>>
    \/ /\ part = "artifacts"
       /\ ArtifactsNext
       /\ UNCHANGED <<part, freezeVars, tokensVars, sessionVars, feedVars,
                       quotesVars, releaseVars, backupsVars,
                       researchVars, vars>>
    \/ /\ part = "research"
       /\ ResearchNext
       /\ UNCHANGED <<part, freezeVars, tokensVars, sessionVars, artifactsVars,
                       feedVars, quotesVars, releaseVars,
                       backupsVars, vars>>
    \/ /\ part = "service"
       /\ Next
       /\ UNCHANGED <<part, freezeVars, tokensVars, sessionVars, artifactsVars,
                       feedVars, quotesVars, releaseVars,
                       backupsVars, researchVars>>

PartsSpec == PartsInit /\ [][PartsNext]_allVars

\* What tells two states of a behaviour apart: the state of its part.
PartView ==
    <<part, CASE part = "datasets" -> freezeVars
             [] part = "feed" -> feedVars
             [] part = "quote" -> quotesVars
             [] part = "token" -> tokensVars
             [] part = "session" -> sessionVars
             [] part = "release" -> releaseVars
             [] part = "backups" -> backupsVars
             [] part = "artifacts" -> artifactsVars
             [] part = "research" -> researchVars
             [] part = "service" -> vars>>

=============================================================================
