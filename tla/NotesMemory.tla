---------------------------- MODULE NotesMemory ----------------------------
(***************************************************************************)
(* The working notes and the pending drafts of the Bits agent              *)
(* (bits_memory.py).                                                       *)
(*                                                                         *)
(* A write replaces the notes or is rejected.  A rejection is recorded by  *)
(* a second transaction, as a draft, so that what it found is not lost;    *)
(* other writers (shell commands of the agent, the operator) act between   *)
(* the two, and a crash may lose the second one.  A payload is reduced to  *)
(* what the control reads of it: whether it is valid, too large to keep or *)
(* sensitive, and the evidence it names.  The counters that only the       *)
(* reported status reads are left out.                                     *)
(***************************************************************************)
EXTENDS Integers, Sequences, SequencesExt, FiniteSetsExt

CONSTANTS
    Writers,        \* processes that use bits-memory
    Refs,           \* evidence references
    Payloads,       \* the inputs they may write
    LegacyRefs,     \* the evidence in the pending record of an older release
    MaxOpen,        \* MAX_OPEN_DRAFTS
    MaxClosed,      \* MAX_CLOSED_DRAFTS, more than what one transaction closes
    MaxRefs,        \* MAX_EVIDENCE_REFS
    MaxVersion,     \* bound of the notes' versions
    MaxDrafts       \* bound of the drafts that are opened

VARIABLES
    notes,          \* working_notes: the version and what was written
    open,           \* pending_drafts["open"], oldest first
    closed,         \* pending_drafts["closed"], oldest first
    legacy,         \* whether there is a pending_notes record, left by the previous release
    writer,         \* what each writer has read, and the rejection it records
    lost            \* observed: versions discarded by a write with another base

vars == <<notes, open, closed, legacy, writer, lost>>

-----------------------------------------------------------------------------
Nothing == [class |-> "none", refs |-> {}]
NoBase == -1
LegacyId == 0
DraftIds == LegacyId .. MaxDrafts
Versions == 0 .. MaxVersion

\* "named" is observed: the evidence of every write recorded for the draft.
Drafts ==
    [id : DraftIds, base : Versions \cup {NoBase}, digest : Payloads \cup {Nothing},
     evidence : SUBSET Refs, omitted : BOOLEAN, named : SUBSET Refs]

Tombstones ==
    [id : DraftIds, resolution : {"resolved", "superseded", "evicted_overflow"},
     evidence : SUBSET Refs]

Rejections ==
    [payload : Payloads \cup {Nothing}, resolves : SUBSET DraftIds,
     base : Versions \cup {NoBase}]
NoRejection == [payload |-> Nothing, resolves |-> {}, base |-> NoBase]

Ids(drafts) == {drafts[i].id : i \in DOMAIN drafts}
Draft(drafts, id) == drafts[CHOOSE i \in DOMAIN drafts : drafts[i].id = id]
AtMost(n, max) == IF n > max THEN max ELSE n

\* _note_sources: the evidence that the stored notes name.
Saved(record) == record.payload.refs

\* _close and _tombstone: the newest records of the history are kept.
Remember(history, tombstones) ==
    LET all == history \o tombstones
    IN  SubSeq(all, Len(all) - AtMost(Len(all), MaxClosed) + 1, Len(all))

Tombstone(draft, resolution, evidence) ==
    [id |-> draft.id, resolution |-> resolution, evidence |-> evidence]

\* The oldest drafts over the number to keep are evicted with their evidence.
Evicted(drafts, keep) ==
    [i \in 1 .. Len(drafts) - AtMost(Len(drafts), keep) |->
       Tombstone(drafts[i], "evicted_overflow", drafts[i].evidence)]

\* A plausible bug: the newest draft does not count.
MutantKept(drafts, keep) ==
    SubSeq(drafts, Len(drafts) - AtMost(Len(drafts), keep + 1) + 1, Len(drafts))
Kept(drafts, keep) ==
    SubSeq(drafts, Len(drafts) - AtMost(Len(drafts), keep) + 1, Len(drafts))

\* load_drafts: the record of the previous release becomes the oldest draft.
LegacyDraft ==
    [id |-> LegacyId, base |-> NoBase, digest |-> Nothing, evidence |-> LegacyRefs,
     omitted |-> FALSE, named |-> LegacyRefs]
Folded == IF legacy THEN <<LegacyDraft>> \o open ELSE open
Loaded == Kept(Folded, MaxOpen)
LoadedClosed == Remember(closed, Evicted(Folded, MaxOpen))

Init ==
    /\ notes = [version |-> 0, payload |-> Nothing]
    /\ open = << >>
    /\ closed = << >>
    /\ legacy \in BOOLEAN
    /\ writer = [w \in Writers |-> [seen |-> 0, rejected |-> NoRejection, at |-> "idle"]]
    /\ lost = {}

-----------------------------------------------------------------------------
\* check_notes: the shape, the budget and the secrets of a payload.
Valid(payload) == payload.class = "valid"

\* _check_open and _check_references.
StaleBase(request) ==
    \/ /\ request.base # NoBase
       /\ request.base # notes.version
    \/ /\ request.base = NoBase
       /\ \E id \in request.resolves : Draft(Loaded, id).base # notes.version

\* A plausible bug: the base is compared with what the writer has read.
MutantAcceptable(w, request) ==
    /\ Valid(request.payload)
    /\ request.resolves \subseteq Ids(Loaded)
    /\ request.base # NoBase => request.base = writer[w].seen

Acceptable(w, request) ==
    /\ Valid(request.payload)
    /\ request.resolves \subseteq Ids(Loaded)
    /\ ~StaleBase(request)

\* bits-memory show: the version that a later write may assert.
Show(w) ==
    /\ writer[w].at = "idle"
    /\ writer[w].seen # notes.version
    /\ writer' = [writer EXCEPT ![w].seen = notes.version]
    /\ UNCHANGED <<notes, open, closed, legacy, lost>>

\* The drafts that a write names, and the id of one that was never opened.
Requests(w) ==
    [payload : Payloads,
     resolves : {{}} \cup {{id} : id \in Ids(Loaded) \cup Ids(closed)},
     base : {NoBase, writer[w].seen}]

\* write_notes, accepted: the notes and the drafts it names, in one transaction.
Save(w, request) ==
    LET unchanged == notes.version > 0 /\ notes.payload = request.payload
        closing == SelectSeq(Loaded, LAMBDA d : d.id \in request.resolves)
        staying == SelectSeq(Loaded, LAMBDA d : d.id \notin request.resolves)
    IN  /\ writer[w].at = "idle"
        /\ Acceptable(w, request)
        /\ unchanged \/ notes.version < MaxVersion
        /\ notes' = IF unchanged THEN notes
                    ELSE [version |-> notes.version + 1, payload |-> request.payload]
        /\ closed' = Remember(LoadedClosed,
                        [i \in DOMAIN closing |->
                           Tombstone(closing[i], "resolved",
                                     closing[i].evidence \ request.payload.refs)])
        /\ open' = staying
        /\ legacy' = FALSE
        /\ lost' = IF /\ ~unchanged
                      /\ request.base # NoBase
                      /\ writer[w].seen # notes.version
                   THEN lost \cup {notes.version} ELSE lost
        /\ UNCHANGED writer

\* write_notes, rejected before or in its transaction, which is rolled back.
\* An id that is not open will not be: it is not looked at again.
Reject(w, request) ==
    /\ writer[w].at = "idle"
    /\ ~Acceptable(w, request)
    /\ writer' = [writer EXCEPT
          ![w].rejected = [request EXCEPT !.resolves = @ \cap Ids(Loaded)],
          ![w].at = "record"]
    /\ UNCHANGED <<notes, open, closed, legacy, lost>>

\* No input could be read: rejected without anything to keep.  (Text that is no
\* JSON is a payload of class "invalid".)
RejectInput(w) ==
    /\ writer[w].at = "idle"
    /\ writer' = [writer EXCEPT ![w].rejected = NoRejection, ![w].at = "record"]
    /\ UNCHANGED <<notes, open, closed, legacy, lost>>

-----------------------------------------------------------------------------
(* record_rejection, the second transaction. *)

\* Nothing of a sensitive payload is kept; an oversize one leaves its digest.
Evidence(payload) == IF payload.class = "sensitive" THEN {} ELSE payload.refs
Retained(payload) == payload.class \in {"valid", "invalid"}
Digest(payload) == IF payload.class \in {"none", "sensitive"} THEN Nothing ELSE payload

\* The drafts that the write names, or the first one of the same payload.
Targets(drafts, request) ==
    LET wanted == Ids(drafts) \cap request.resolves
        same   == {i \in DOMAIN drafts : drafts[i].digest = Digest(request.payload)}
    IN  IF wanted # {} THEN wanted
        ELSE IF Digest(request.payload) # Nothing /\ same # {}
             THEN {drafts[Min(same)].id}
        ELSE {}

FreshId == CHOOSE id \in DraftIds \ {LegacyId} :
              id = 1 + Max({LegacyId} \cup Ids(Loaded) \cup Ids(LoadedClosed))

FreshDraft ==
    [id |-> FreshId, base |-> notes.version, digest |-> Nothing, evidence |-> {},
     omitted |-> FALSE, named |-> {}]

\* A plausible bug: a replaced payload replaces the evidence too.
MutantMerge(draft, request, kept) ==
    [draft EXCEPT !.evidence = kept, !.named = @ \cup Evidence(request.payload)]

\* The draft keeps the evidence it has and takes what there is room for.
Merge(draft, request, kept) ==
    [draft EXCEPT
        !.base     = IF request.base # NoBase THEN request.base ELSE @,
        !.digest   = IF Retained(request.payload) THEN Digest(request.payload) ELSE @,
        !.evidence = @ \cup kept,
        !.omitted  = @ \/ ~(Evidence(request.payload) \subseteq draft.evidence \cup kept),
        !.named    = @ \cup Evidence(request.payload)]

\* _merge_refs: as many new references as fit.
Fits(draft, request, kept) ==
    LET new == Evidence(request.payload) \ draft.evidence
    IN  /\ kept \subseteq new
        /\ Cardinality(kept) = AtMost(Cardinality(new),
                                      MaxRefs - Cardinality(draft.evidence))

\* A rejection without input, or of the notes as they are, opens no draft.
NothingToKeep(request) ==
    \/ request.payload = Nothing
    \/ /\ Targets(Loaded, request) = {}
       /\ Valid(request.payload)
       /\ notes.version > 0
       /\ notes.payload = request.payload

Recorded(w) ==
    /\ writer' = [writer EXCEPT ![w].rejected = NoRejection, ![w].at = "idle"]
    /\ legacy' = FALSE

CountRejection(w) ==
    /\ writer[w].at = "record"
    /\ NothingToKeep(writer[w].rejected)
    /\ open' = Loaded
    /\ closed' = LoadedClosed
    /\ Recorded(w)
    /\ UNCHANGED <<notes, lost>>

UpdateDraft(w) ==
    LET request == writer[w].rejected
        targets == Targets(Loaded, request)
    IN  /\ writer[w].at = "record"
        /\ ~NothingToKeep(request)
        /\ targets # {}
        /\ \E kept \in [targets -> SUBSET Refs] :
              /\ \A id \in targets : Fits(Draft(Loaded, id), request, kept[id])
              /\ open' = [i \in DOMAIN Loaded |->
                            IF Loaded[i].id \in targets
                            THEN Merge(Loaded[i], request, kept[Loaded[i].id])
                            ELSE Loaded[i]]
        /\ closed' = LoadedClosed
        /\ Recorded(w)
        /\ UNCHANGED <<notes, lost>>

\* A plausible bug: the oldest draft is dropped without a record.
MutantMakeRoom(drafts) == << >>
MakeRoom(drafts) == Evicted(drafts, MaxOpen - 1)

\* The oldest draft makes room for a new one.
OpenDraft(w) ==
    LET request == writer[w].rejected
    IN  /\ writer[w].at = "record"
        /\ ~NothingToKeep(request)
        /\ Targets(Loaded, request) = {}
        /\ Max({LegacyId} \cup Ids(Loaded) \cup Ids(LoadedClosed)) < MaxDrafts
        /\ \E kept \in SUBSET Refs :
              /\ Fits(FreshDraft, request, kept)
              /\ open' = Append(Kept(Loaded, MaxOpen - 1), Merge(FreshDraft, request, kept))
        /\ closed' = Remember(LoadedClosed, MakeRoom(Loaded))
        /\ Recorded(w)
        /\ UNCHANGED <<notes, lost>>

\* The process dies, or the store is unavailable: the rejection is not on record.
LoseRejection(w) ==
    /\ writer[w].at = "record"
    /\ writer' = [writer EXCEPT ![w].rejected = NoRejection, ![w].at = "idle"]
    /\ UNCHANGED <<notes, open, closed, legacy, lost>>

\* supersede: a draft is closed on purpose; what the notes lack stays on record.
Supersede(w) ==
    /\ writer[w].at = "idle"
    /\ \E id \in Ids(Loaded) :
          LET draft == Draft(Loaded, id)
          IN  /\ open' = SelectSeq(Loaded, LAMBDA d : d.id # id)
              /\ closed' = Remember(LoadedClosed,
                    <<Tombstone(draft, "superseded", draft.evidence \ Saved(notes))>>)
    /\ legacy' = FALSE
    /\ UNCHANGED <<notes, writer, lost>>

Next ==
    \E w \in Writers :
        \/ Show(w) \/ RejectInput(w) \/ CountRejection(w) \/ UpdateDraft(w)
        \/ OpenDraft(w) \/ LoseRejection(w) \/ Supersede(w)
        \/ \E request \in Requests(w) : Save(w, request) \/ Reject(w, request)

Spec == Init /\ [][Next]_vars

-----------------------------------------------------------------------------
(* Properties. *)

TypeOK ==
    /\ notes \in [version : Versions, payload : Payloads \cup {Nothing}]
    /\ open \in Seq(Drafts) /\ Len(open) <= MaxOpen
    /\ closed \in Seq(Tombstones) /\ Len(closed) <= MaxClosed
    /\ legacy \in BOOLEAN
    /\ \A w \in Writers : writer[w].rejected \in Rejections

\* The evidence a rejected write named is in its draft while that is open: a
\* corrected payload, a retry or another writer does not replace it, and what
\* the limit leaves out is counted ("a replaced payload keeps earlier
\* unresolved evidence references").
EvidenceKept ==
    \A i \in DOMAIN open : open[i].omitted \/ open[i].named \subseteq open[i].evidence

\* A draft leaves the open ones only into the history, with all its evidence
\* that the notes do not name, and only when it was named, superseded, or the
\* oldest with no room left.
DraftsCloseOnRecord ==
    \A i \in DOMAIN open :
      open[i].id \notin Ids(open') =>
        \E j \in DOMAIN closed' :
           /\ closed'[j].id = open[i].id
           /\ open[i].evidence \subseteq closed'[j].evidence \cup Saved(notes')
           /\ closed'[j].resolution = "evicted_overflow" => Len(open) >= MaxOpen
           /\ closed'[j].resolution = "resolved" => Cardinality(Ids(open) \ Ids(open')) = 1

\* A write that asserts a base never discards notes saved since its writer
\* read them ("a stale base is rejected so a write cannot silently discard
\* notes saved in between").
NoLostNotes == lost = {}

NotesStep ==
    /\ DraftsCloseOnRecord
    /\ TypeOK' /\ EvidenceKept' /\ NoLostNotes'

\* No note and no evidence is lost without a record.
NotesAreKept == [][NotesStep]_vars
=============================================================================
