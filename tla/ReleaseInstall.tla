---------------------------- MODULE ReleaseInstall ----------------------------
(***************************************************************************)
(* The installation of a tested release (agent_engineering.py) by the      *)
(* agent, and its verification by the release worker                       *)
(* (agent_release_worker.py), which restarts the agent and confirms the    *)
(* release or rolls it back.  The operator edits the installed files at    *)
(* any time; both processes may end between any two writes.                *)
(*                                                                         *)
(* The content of a file is a number: Absent, the content every file       *)
(* starts with, one content per release, or Edit for what an operator      *)
(* wrote.  The reads of one check are a step: an edit between two of them  *)
(* is an edit before or after it.                                          *)
(***************************************************************************)
EXTENDS Integers, Sequences, FiniteSets

CONSTANTS
    Files,          \* the files a release may change
    MaxReleases,    \* bound of the releases installed
    KeptReleases    \* settled releases whose backups are kept (3)

ASSUME ReleaseAssumption == MaxReleases \in Nat

VARIABLES
    live,           \* the installed files
    releaseProc,    \* the agent and the release worker
    draft,          \* the release being deployed, in the agent's memory
    pending,        \* engineering_pending: the release in flight, or {}
    backups,        \* releases/<id>/before
    settled,        \* engineering_releases
    scheduled,      \* the worker's unit has been started
    good,           \* observed: what the files should be with nothing in flight
    fresh           \* observed: the files edited since the last check

releaseVars == <<live, releaseProc, draft, pending, backups, settled,
                 scheduled, good, fresh>>

-----------------------------------------------------------------------------
Absent == 0
Edit == -1
Missing == -2
ReleaseIds == 1 .. MaxReleases
Contents == {Edit, Absent, 1} \cup {r + 1 : r \in ReleaseIds}

Process == {"agent", "worker"}
AtRest(where) == [at |-> where, todo |-> {}]
None == [f \in Files |-> Absent]
NoDraft == [id |-> 0, before |-> None, after |-> None]
Changes(release) == {f \in Files : release.before[f] # release.after[f]}

ReleaseInit ==
    /\ live = [f \in Files |-> 1]
    /\ releaseProc = [p \in Process |-> AtRest(IF p = "agent" THEN "down" ELSE "off")]
    /\ draft = NoDraft
    /\ pending = {}
    /\ backups = [r \in ReleaseIds |-> [f \in Files |-> Missing]]
    /\ settled = << >>
    /\ scheduled = FALSE
    /\ good = live
    /\ fresh = {}

IsAt(p, where) == releaseProc[p].at = where
Turns(p, where) == releaseProc' = [releaseProc EXCEPT ![p] = AtRest(where)]
Sets(f, content) == live' = [live EXCEPT ![f] = content]

\* What the settled release leaves; a file edited meanwhile is the operator's.
Leaves(release, files) ==
    good' = [f \in Files |-> IF f \in fresh THEN live[f]
                             ELSE IF f \in Changes(release) THEN files[f] ELSE good[f]]

-----------------------------------------------------------------------------
(* The operator and the ends of the processes. *)

OperatorEdits(f) ==
    \E content \in {Edit, Absent} \cup {release.before[f] : release \in pending} :
        /\ live' = [live EXCEPT ![f] = content]
        /\ good' = [good EXCEPT ![f] = content]
        /\ fresh' = fresh \cup {f}
        /\ UNCHANGED <<releaseProc, draft, pending, backups, settled, scheduled>>

AgentEnds ==
    /\ ~IsAt("agent", "down")
    /\ Turns("agent", "down")
    /\ draft' = NoDraft
    /\ UNCHANGED <<live, pending, backups, settled, scheduled, good, fresh>>

WorkerEnds ==
    /\ ~IsAt("worker", "off")
    /\ Turns("worker", "off")
    /\ UNCHANGED <<live, draft, pending, backups, settled, scheduled, good, fresh>>

\* ExecStartPre recovers an installation that was interrupted; ExecStartPost
\* starts the worker.
Interrupted == \E release \in pending : release.state = "installing"

AgentStarts ==
    /\ IsAt("agent", "down")
    /\ IF Interrupted
       THEN /\ Turns("agent", "recover")
            /\ UNCHANGED scheduled
       ELSE /\ Turns("agent", "idle")
            /\ scheduled' = TRUE
    /\ UNCHANGED <<live, draft, pending, backups, settled, good, fresh>>

-----------------------------------------------------------------------------
(* The deployment. *)

\* A snapshot of the files, and the release that was made of it: check finds
\* the live files as they were, and the tests pass.
NextId == 1 + Len(settled)
Proposals(id) == {after \in [Files -> Contents] :
                    /\ \A f \in Files : after[f] \in {live[f], Absent, id + 1}
                    /\ after # live}

DeployTests ==
    /\ IsAt("agent", "idle")
    /\ pending = {}
    /\ NextId \in ReleaseIds
    /\ \E after \in Proposals(NextId) :
        draft' = [id |-> NextId, before |-> live, after |-> after]
    /\ Turns("agent", "tested")
    /\ UNCHANGED <<live, pending, backups, settled, scheduled, good, fresh>>

\* Under the install lock: no release in flight, and the base unchanged.  The
\* worker that the start of the agent scheduled has read the store long before
\* the tests are over.
\* Mutant: the base is not checked again after the tests.
MutantUnchanged == draft.id # 0

Unchanged == live = draft.before

DeployChecks ==
    /\ IsAt("agent", "tested")
    /\ ~scheduled
    /\ IF pending = {} /\ Unchanged
       THEN Turns("agent", "backup") /\ fresh' = {}
       ELSE Turns("agent", "idle") /\ UNCHANGED fresh
    /\ UNCHANGED <<live, draft, pending, backups, settled, scheduled, good>>

\* Mutant: the backups are not written before the journal.
MutantBackedUp == [f \in Files |-> Missing]

BackedUp == [f \in Files |-> IF f \in Changes(draft) /\ draft.before[f] # Absent
                             THEN live[f] ELSE Missing]

DeployBacksUp ==
    /\ IsAt("agent", "backup")
    /\ IF \E f \in Changes(draft) : draft.before[f] # Absent /\ live[f] = Absent
       THEN Turns("agent", "idle") /\ UNCHANGED backups
       ELSE /\ backups' = [backups EXCEPT ![draft.id] = BackedUp]
            /\ Turns("agent", "journal")
    /\ UNCHANGED <<live, draft, pending, settled, scheduled, good, fresh>>

Journal(state) == {[id |-> draft.id, before |-> draft.before,
                    after |-> draft.after, state |-> state]}

DeployStarts ==
    /\ IsAt("agent", "journal")
    /\ pending' = Journal("installing")
    /\ releaseProc' = [releaseProc EXCEPT !["agent"] =
                    [at |-> "install", todo |-> Changes(draft)]]
    /\ UNCHANGED <<live, draft, backups, settled, scheduled, good, fresh>>

InstallsFile(f) ==
    /\ IsAt("agent", "install")
    /\ f \in releaseProc["agent"].todo
    /\ draft.after[f] = Absent => live[f] # Absent
    /\ Sets(f, draft.after[f])
    /\ releaseProc' = [releaseProc EXCEPT !["agent"].todo = @ \ {f}]
    /\ UNCHANGED <<draft, pending, backups, settled, scheduled, good, fresh>>

\* A write fails, or the file to delete is gone.
InstallFails ==
    /\ IsAt("agent", "install")
    /\ Turns("agent", "recover")
    /\ draft' = NoDraft
    /\ UNCHANGED <<live, pending, backups, settled, scheduled, good, fresh>>

DeployEnds ==
    /\ IsAt("agent", "install")
    /\ releaseProc["agent"].todo = {}
    /\ pending' = Journal("pending_health")
    /\ Turns("agent", "idle")
    /\ draft' = NoDraft
    /\ UNCHANGED <<live, backups, settled, scheduled, good, fresh>>

\* The end of a research tick.  systemctl fails only while the unit cannot be
\* started, which is not while it runs.
Installed == \E release \in pending : release.state = "pending_health"

Schedules ==
    /\ IsAt("agent", "idle")
    /\ Installed
    /\ \/ scheduled' = TRUE /\ UNCHANGED releaseProc
       \/ /\ IsAt("worker", "off")
          /\ ~scheduled
          /\ Turns("agent", "recover")
          /\ UNCHANGED scheduled
    /\ UNCHANGED <<live, draft, pending, backups, settled, good, fresh>>

-----------------------------------------------------------------------------
(* The release worker. *)

WorkerStarts ==
    /\ scheduled
    /\ IsAt("worker", "off")
    /\ scheduled' = FALSE
    /\ \/ pending = {} /\ UNCHANGED releaseProc
       \/ Interrupted /\ Turns("worker", "recover")
       \/ /\ Installed
          /\ releaseProc' = [releaseProc EXCEPT !["worker"] = AtRest("wait"),
                                  !["agent"] = AtRest("down")]
    /\ UNCHANGED <<live, draft, pending, backups, settled, good, fresh>>

\* Three healthy samples of a new run of the agent, or the deadline.
WorkerHears ==
    /\ IsAt("worker", "wait")
    /\ pending # {}
    /\ \/ IsAt("agent", "idle") /\ Turns("worker", "confirm")
       \/ Turns("worker", "recover")
    /\ UNCHANGED <<live, draft, pending, backups, settled, scheduled, good, fresh>>

-----------------------------------------------------------------------------
(* verify_pending, by the agent (its start, a failed installation, a worker *)
(* that cannot be scheduled) or by the worker.                              *)

\* A conflict leaves the release in flight; an agent that was starting is not
\* started, and one that is running goes on.
Reports(p) ==
    \/ p = "worker" /\ Turns(p, "off")
    \/ p = "agent" /\ Interrupted /\ Turns(p, "down")
    \/ p = "agent" /\ Turns(p, "idle")

\* Mutant: a rollback looks at the state of the release only.
MutantRestorable(release) == release.state # "verified"

Restorable(release) ==
    \A f \in Changes(release) : live[f] \in {release.before[f], release.after[f]}
\* Mutant: a release is confirmed by the health of the agent alone.
MutantAllAfter(release) == release.state = "pending_health"

AllAfter(release) == \A f \in Changes(release) : live[f] = release.after[f]

RollbackBegins(p) ==
    /\ IsAt(p, "recover")
    /\ \/ \E release \in pending :
            /\ Restorable(release)
            /\ releaseProc' = [releaseProc EXCEPT ![p] = [at |-> "rollback",
                                            todo |-> Changes(release)]]
            /\ fresh' = {}
       \/ \E release \in pending :
            /\ ~Restorable(release)
            /\ Reports(p)
            /\ UNCHANGED fresh
    /\ UNCHANGED <<live, draft, pending, backups, settled, scheduled, good>>

RollsBack(p, f) ==
    /\ IsAt(p, "rollback")
    /\ f \in releaseProc[p].todo
    /\ \E release \in pending :
        \/ /\ \/ release.before[f] = Absent
              \/ backups[release.id][f] = release.before[f]
           /\ Sets(f, release.before[f])
           /\ releaseProc' = [releaseProc EXCEPT ![p].todo = @ \ {f}]
        \/ /\ release.before[f] # Absent
           /\ backups[release.id][f] # release.before[f]
           /\ Reports(p)
           /\ UNCHANGED live
    /\ UNCHANGED <<draft, pending, backups, settled, scheduled, good, fresh>>

SettledIds(history) == {history[i] : i \in DOMAIN history}
KeptSettled(history) == SubSeq(history, 1 + Len(history) - KeptReleases, Len(history))
Settles(release) ==
    /\ pending' = {}
    /\ settled' = Append(settled, release.id)
    /\ backups' = [r \in ReleaseIds |->
                    IF r \in SettledIds(settled') /\ Len(settled') > KeptReleases
                       /\ r \notin SettledIds(KeptSettled(settled'))
                    THEN [f \in Files |-> Missing] ELSE backups[r]]

\* The worker restarts the agent on the files it restored.
RollbackEnds(p) ==
    /\ IsAt(p, "rollback")
    /\ releaseProc[p].todo = {}
    /\ \E release \in pending : Settles(release) /\ Leaves(release, release.before)
    /\ IF p = "agent" THEN Turns("agent", "idle")
       ELSE releaseProc' = [releaseProc EXCEPT !["worker"] = AtRest("off"),
                                 !["agent"] = AtRest("down")]
    /\ UNCHANGED <<live, draft, scheduled, fresh>>

Confirms ==
    /\ IsAt("worker", "confirm")
    /\ \/ \E release \in pending :
            AllAfter(release) /\ Turns("worker", "verified") /\ fresh' = {}
       \/ \E release \in pending :
            ~AllAfter(release) /\ Turns("worker", "off") /\ UNCHANGED fresh
    /\ UNCHANGED <<live, draft, pending, backups, settled, scheduled, good>>

Verifies ==
    /\ IsAt("worker", "verified")
    /\ \E release \in pending : Settles(release) /\ Leaves(release, release.after)
    /\ Turns("worker", "off")
    /\ UNCHANGED <<live, draft, scheduled, fresh>>

-----------------------------------------------------------------------------
ReleaseNext ==
    \/ \E f \in Files : OperatorEdits(f) \/ InstallsFile(f)
    \/ AgentEnds \/ WorkerEnds \/ AgentStarts
    \/ DeployTests \/ DeployChecks \/ DeployBacksUp \/ DeployStarts
    \/ InstallFails \/ DeployEnds \/ Schedules
    \/ WorkerStarts \/ WorkerHears \/ Confirms \/ Verifies
    \/ \E p \in Process :
        \/ RollbackBegins(p) \/ RollbackEnds(p)
        \/ \E f \in Files : RollsBack(p, f)

ReleaseSpec == ReleaseInit /\ [][ReleaseNext]_releaseVars

-----------------------------------------------------------------------------
ReleaseTypeOK ==
    /\ live \in [Files -> Contents] /\ good \in [Files -> Contents]
    /\ Cardinality(pending) <= 1
    /\ fresh \subseteq Files
    /\ \A p \in Process : releaseProc[p].todo \subseteq Files

\* With no release in flight the installed files are those of the last release
\* that was verified, or what the operator made of them: no crash, failed
\* write, rollback or restart leaves a part of a release behind.
WholeWhenSettled == pending = {} => live = good

\* A release that is in flight can be undone: the bytes it replaces were
\* stored before the first of them changed, and are not pruned.
Undoable ==
    \A release \in pending : \A f \in Changes(release) :
        release.before[f] # Absent => backups[release.id][f] # Missing

\* The program never replaces bytes that are neither those the release was
\* made from nor its own, when they were there at its last check.
EditsKept ==
    \A f \in Files :
        (live'[f] # live[f] /\ f \notin fresh') =>
            \E release \in pending :
                live[f] \in {release.before[f], release.after[f]}

ReleaseStep ==
    /\ EditsKept
    /\ ReleaseTypeOK' /\ WholeWhenSettled' /\ Undoable'

\* A release is installed whole or undone whole, and spares what others edit.
ReleasesAreUndone == [][ReleaseStep]_releaseVars
=============================================================================
