----------------------------- MODULE LabAccounts -----------------------------
(***************************************************************************)
(* The lab's exploratory paper accounts (agent_experiments.py) and what is *)
(* learned from their fills (experiment_learning.py).                      *)
(*                                                                         *)
(* The trading loop and the advisor are two threads of one process.  Each  *)
(* reads the list of accounts, works on its copy and writes the list back, *)
(* under the store's execution lock.  The archive is another record: an    *)
(* account is written there before the list that still holds it is.        *)
(***************************************************************************)
EXTENDS Integers, Sequences, FiniteSets

CONSTANTS
    AccountIds,       \* ids of accounts
    Capacity,       \* accounts that may run at once (4)
    KeptArchive,    \* retired accounts that the archive keeps (40)
    LastBar         \* bound of the bars of the market

\* The archive has room for all the accounts that one evaluation retires.
ASSUME AccountsAssumption ==
    /\ Capacity \in Nat \ {0}
    /\ KeptArchive \in Nat
    /\ KeptArchive >= Capacity
    /\ LastBar \in Nat

VARIABLES
    bar,            \* the market's last closed bar
    accounts,       \* the list of accounts
    archive,        \* the retired accounts, oldest first
    lock,           \* the thread that holds the execution lock
    work            \* what each thread is doing

accountsVars == <<bar, accounts, archive, lock, work>>

-----------------------------------------------------------------------------
Threads == {"loop", "advisor"}
Bars == 0 .. LastBar

NoRow == [state |-> "none", last |-> 0, position |-> 0, fills |-> 0,
          reviewed |-> 0]

\* start: a flat account that has seen no bar.
FreshRow == [NoRow EXCEPT !.state = "running"]

IdleThread == [op |-> "idle", bar |-> 0, copy |-> [i \in AccountIds |-> NoRow],
         todo |-> {}]

AccountsInit ==
    /\ bar = 0
    /\ accounts = [i \in AccountIds |-> NoRow]
    /\ archive = << >>
    /\ lock = "free"
    /\ work = [t \in Threads |-> IdleThread]

ActiveRows(list) == {i \in AccountIds : list[i].state # "none"}
Archived == {archive[n].id : n \in 1 .. Len(archive)}

BarCloses ==
    /\ bar < LastBar
    /\ bar' = bar + 1
    /\ UNCHANGED <<accounts, archive, lock, work>>

-----------------------------------------------------------------------------
(* serialized *)

\* Mutant: the lock is left out.
MutantMayEnter(t) == work[t] = IdleThread

MayEnter(t) == work[t] = IdleThread /\ lock = "free"

\* The call begins: the thread reads the list.
Enters(t, op, todo) ==
    /\ MayEnter(t)
    /\ lock' = t
    /\ work' = [work EXCEPT ![t] = [op |-> op, bar |-> bar, copy |-> accounts,
                                      todo |-> todo]]
    /\ UNCHANGED <<bar, accounts, archive>>

Edits(t, copy, todo) == work' = [work EXCEPT ![t].copy = copy, ![t].todo = todo]

\* The call ends: the thread writes the list.
Returns(t, list) ==
    /\ accounts' = list
    /\ lock' = "free"
    /\ work' = [work EXCEPT ![t] = IdleThread]
    /\ UNCHANGED <<bar, archive>>

Flat(row) == row.position = 0

\* Mutant: an account that is to be retired is archived as it stands.
MutantMayArchive(row) == TRUE

MayArchive(row) == Flat(row)

LastOnes(list) ==
    IF Len(list) <= KeptArchive THEN list
    ELSE SubSeq(list, Len(list) - KeptArchive + 1, Len(list))

\* _archive
Archives(i, row) ==
    archive' = LastOnes(Append(archive, [id |-> i, row |-> row]))

-----------------------------------------------------------------------------
(* tick *)

EvaluationBegins ==
    /\ bar > 0
    /\ Enters("loop", "tick", ActiveRows(accounts))

\* Mutant: what the learning saw is written whether or not it was new.
MutantDue(row, b) == TRUE

\* A bar is evaluated once by each account.
Due(row, b) == row.last # b

\* target_decision, account.evaluate and observe_fill: an account that is
\* retiring aims at being flat, the others at any position.
Evaluated(row, b) ==
    LET moved(p) == [row EXCEPT !.position = p, !.last = b, !.fills = @ + 1]
        targets == IF row.state = "retiring" THEN {0} ELSE {0, 1}
    IN  {[row EXCEPT !.last = b]}
          \cup {moved(p) : p \in targets \ {row.position}}

RowEvaluates ==
    LET w == work["loop"] IN
    /\ w.op = "tick"
    /\ \E i \in w.todo :
        \E row \in (IF Due(w.copy[i], w.bar) THEN Evaluated(w.copy[i], w.bar)
                    ELSE {w.copy[i]}) :
            IF row.state = "retiring" /\ Flat(row)
            THEN /\ Archives(i, row)
                 /\ Edits("loop", [w.copy EXCEPT ![i] = NoRow], w.todo \ {i})
            ELSE /\ Edits("loop", [w.copy EXCEPT ![i] = row], w.todo \ {i})
                 /\ UNCHANGED archive
    /\ UNCHANGED <<bar, accounts, lock>>

EvaluationEnds ==
    /\ work["loop"].op = "tick"
    /\ work["loop"].todo = {}
    /\ Returns("loop", work["loop"].copy)

-----------------------------------------------------------------------------
(* What the advisor does. *)

StartBegins(i) ==
    /\ i \notin ActiveRows(accounts) \cup Archived
    /\ Enters("advisor", "start", {i})

StartEnds ==
    LET w == work["advisor"] IN
    /\ w.op = "start"
    /\ \E i \in w.todo :
        Returns("advisor", IF Cardinality(ActiveRows(w.copy)) < Capacity
                           THEN [w.copy EXCEPT ![i] = FreshRow] ELSE accounts)

RetireBegins(i) ==
    /\ i \in ActiveRows(accounts)
    /\ Enters("advisor", "retire", {i})

\* A flat account is archived at once.
RetireArchives ==
    LET w == work["advisor"] IN
    /\ w.op = "retire"
    /\ \E i \in w.todo :
        /\ MayArchive(w.copy[i])
        /\ Archives(i, [w.copy[i] EXCEPT !.state = "retiring"])
        /\ Edits("advisor", [w.copy EXCEPT ![i] = NoRow], {})
    /\ UNCHANGED <<bar, accounts, lock>>

\* Any other is left to the ticks that follow.
RetireEnds ==
    LET w == work["advisor"] IN
    /\ w.op = "retire"
    /\ \A i \in w.todo : ~MayArchive(w.copy[i])
    /\ Returns("advisor", [i \in AccountIds |->
            IF i \in w.todo THEN [w.copy[i] EXCEPT !.state = "retiring"] ELSE w.copy[i]])

\* record_review: an account is reviewed with the evidence it has now; a review
\* of older evidence is refused.
ReviewBegins(i) ==
    /\ i \in ActiveRows(accounts)
    /\ Enters("advisor", "review", {i})

ReviewEnds(evidence) ==
    LET w == work["advisor"] IN
    /\ w.op = "review"
    /\ \E i \in w.todo :
        Returns("advisor", IF w.copy[i].fills = evidence
                           THEN [w.copy EXCEPT ![i].reviewed = evidence] ELSE accounts)

-----------------------------------------------------------------------------
\* An exception, or the end of the process.
Fails(t) ==
    /\ work[t] # IdleThread
    /\ work' = [work EXCEPT ![t] = IdleThread]
    /\ lock' = "free"
    /\ UNCHANGED <<bar, accounts, archive>>

ThreadsCrash ==
    /\ lock # "free"
    /\ work' = [t \in Threads |-> IdleThread]
    /\ lock' = "free"
    /\ UNCHANGED <<bar, accounts, archive>>

AccountsNext ==
    \/ BarCloses \/ EvaluationBegins \/ RowEvaluates \/ EvaluationEnds
    \/ \E i \in AccountIds : StartBegins(i) \/ RetireBegins(i) \/ ReviewBegins(i)
    \/ StartEnds \/ RetireArchives \/ RetireEnds
    \/ \E evidence \in Bars : ReviewEnds(evidence)
    \/ \E t \in Threads : Fails(t)
    \/ ThreadsCrash

AccountsSpec == AccountsInit /\ [][AccountsNext]_accountsVars

-----------------------------------------------------------------------------
AccountsTypeOK ==
    /\ bar \in Bars
    /\ \A i \in AccountIds : accounts[i].state \in {"none", "running", "retiring"}
                        /\ accounts[i].last \in Bars /\ accounts[i].position \in 0 .. 1
    /\ lock \in Threads \cup {"free"}

\* No fill that was recorded is lost to the other thread's copy of the list,
\* and an account that leaves the list is in the archive.
NoFillIsLost ==
    \A i \in ActiveRows(accounts) :
        IF i \in ActiveRows(accounts') THEN accounts'[i].fills >= accounts[i].fills
        ELSE i \in Archived

\* However often a tick is cut off and repeated, no account fills more often
\* than it has seen bars.
OneFillPerBar == \A i \in ActiveRows(accounts) : accounts[i].fills <= accounts[i].last

\* What is archived holds nothing.
RetiredIsFlat == \A n \in 1 .. Len(archive) : Flat(archive[n].row)

BooksStep ==
    /\ NoFillIsLost
    /\ AccountsTypeOK' /\ OneFillPerBar' /\ RetiredIsFlat'

\* The books of the lab's accounts keep every fill, make none twice, and are
\* closed only when flat.
BooksHold == [][BooksStep]_accountsVars
=============================================================================
