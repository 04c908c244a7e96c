---------------------------- MODULE MemoryStore ----------------------------
(***************************************************************************)
(* The memory library of MemoSync: src/server/memory/MemoryStore.ts with   *)
(* the HTTP handlers of memory/routes.ts that decide which store operation *)
(* a request becomes.  Every operation of the store is one synchronous     *)
(* SQLite transaction, so every action below is one atomic step; the       *)
(* interleavings that matter are those of requests, background passes and  *)
(* browser tabs, each of which decided what to ask for on an older state.  *)
(*                                                                         *)
(* Data that no decision tells apart is abstracted.  "text" stands for     *)
(* every content-bearing field but the scope, and two equal texts have the *)
(* same normalised fingerprint; "scope" stands for the scope with its      *)
(* owning project or session.                                              *)
(***************************************************************************)
EXTENDS Naturals, Sequences, FiniteSets, Functions

CONSTANTS
    MaxId,        \* bound: memory ids are M-1 .. M-MaxId
    Texts,        \* the contents a memory may have
    Scopes,       \* the scopes (with owner) a memory may live in
    Born,         \* the statuses a memory may be created in
    Marks,        \* the sensitivity marks a request may carry
    MaxVersion,   \* bound on the content version of a memory
    MaxEvents,    \* bound on the number of events kept for all memories
    None          \* no row in a side table

Ids == 1 .. MaxId

Statuses == {"candidate", "active", "archived", "discarded"}
Row      == [text : Texts, scope : Scopes, status : Statuses,
             version : 1 .. MaxVersion, sens : BOOLEAN]
NoRow    == [status |-> "absent"]
Claim    == [text : Texts, scope : Scopes]
Evidence == [text : Texts, scope : Scopes, sens : BOOLEAN]
Snapshot == [text : Texts, scope : Scopes, status : Statuses]
Reviewed == [id : Ids, version : 1 .. MaxVersion, text : Texts, scope : Scopes]
Kinds    == {"create", "edit", "rescope", "status", "revert"}
Event    == [kind : Kinds, from : Statuses \cup {"same"},
             to : Statuses \cup {"same"}, snap : Snapshot]

\* (owner, fingerprint) tables hold data, never the missing-row marker.
ASSUME NoneAssumption   == /\ None \notin Claim
                           /\ None \notin Evidence
ASSUME BoundsAssumption == /\ Born \subseteq Statuses /\ Marks \subseteq BOOLEAN
                           /\ MaxId \in Nat /\ MaxVersion \in Nat \ {0}
                           /\ MaxEvents \in Nat

VARIABLES
    row,         \* memories: the row of every id, NoRow when there is none
    dismissed,   \* dismissed_candidate_fingerprints, by memory id
    revoked,     \* memory_revocations, by memory id
    revises,     \* memory_relations of type 'revises', by source id
    reviewed,    \* memory_kv revision_targets:<id>, {} when there is none
    log          \* memory_events with a snapshot, by memory id

vars == <<row, dismissed, revoked, revises, reviewed, log>>

Exists(i) == row[i] # NoRow
Pending(i) == row[i].status = "candidate"

---------------------------------------------------------------------------
\* Events

SnapshotOf(r) == [text |-> r.text, scope |-> r.scope, status |-> r.status]

CreateEvent(r) ==
    [kind |-> "create", from |-> "same", to |-> "same", snap |-> SnapshotOf(r)]

\* Which kind a set of changed fields amounts to: scope, then status, then edit.
\* "rescope" stands for both 'promote' and 'rescope', which every reader of the
\* log treats alike.
ClassifyChange(old, new) ==
    IF old.scope # new.scope THEN "rescope"
    ELSE IF old.status # new.status THEN "status" ELSE "edit"

ChangeEvent(kind, old, new) ==
    [kind |-> kind,
     from |-> IF old.status = new.status THEN "same" ELSE old.status,
     to   |-> IF old.status = new.status THEN "same" ELSE new.status,
     snap |-> SnapshotOf(new)]

\* hasDiscardedStatusHistory
DiscardedInLog(l) ==
    \E k \in 1 .. Len(l) : l[k].kind = "status" /\ l[k].to = "discarded"

\* The position of the newest event of kind 'status', 0 when there is none.
LastStatus(l) ==
    LET at == {k \in 1 .. Len(l) : l[k].kind = "status"}
    IN  IF at = {} THEN 0 ELSE CHOOSE k \in at : \A m \in at : m <= k

---------------------------------------------------------------------------
\* Rows

SameClaim(old, new) == old.text = new.text /\ old.scope = new.scope

\* Content-bearing changes bump the injection version; status and sensitivity
\* changes do not.
VersionAfter(old, new) ==
    IF SameClaim(old, new) THEN old.version ELSE old.version + 1

WithStatus(r, s) == [r EXCEPT !.status = s]

\* syncMemoryRevocation: archiving leaves a receipt (INSERT OR IGNORE) of the
\* content being archived; only archived -> active takes it away.
RevocationAfter(i, old, next) ==
    IF next = "archived"
    THEN IF revoked[i] = None THEN [text |-> old.text, scope |-> old.scope]
                              ELSE revoked[i]
    ELSE IF old.status = "archived" /\ next = "active" THEN None
    ELSE revoked[i]

\* assertCandidateDecisionTransition with transition 'ordinary', on a row r of
\* memory i whose events are l: neither enters nor leaves a dismissed decision.
OrdinaryIgnoringEvidence(i, r, l, next) ==
    next # "discarded"

Ordinary(i, r, l, next) ==
    /\ next # "discarded"
    /\ r.status # "discarded"
    /\ dismissed[i] = None
    /\ ~(r.sens /\ DiscardedInLog(l))

Room(n) ==
    FoldFunction(LAMBDA l, sum : Len(l) + sum, 0, log) + n <= MaxEvents

---------------------------------------------------------------------------
\* updateWithCandidateDecision on every row that "next" changes; a row left as it
\* is costs nothing (no event).  "base" and "logs" are the rows and events that
\* the statements before it in the same transaction left behind.
UpdateRows(base, logs, next) ==
    /\ row' = next
    /\ log' = [j \in Ids |->
                 IF next[j] = base[j] THEN logs[j]
                 ELSE Append(logs[j],
                        ChangeEvent(ClassifyChange(base[j], next[j]), base[j], next[j]))]
    /\ revoked' = [j \in Ids |->
                     IF next[j] = base[j] THEN revoked[j]
                     ELSE RevocationAfter(j, base[j], next[j].status)]

\* update(i, patch): "new" is the row with the patch applied, its version aside.
Update(i, new) ==
    /\ Exists(i) /\ Room(1)
    /\ Ordinary(i, row[i], log[i], new.status)
    /\ VersionAfter(row[i], new) <= MaxVersion
    /\ UpdateRows(row, log,
         [row EXCEPT ![i] = [new EXCEPT !.version = VersionAfter(row[i], new)]])
    /\ UNCHANGED <<dismissed, revises, reviewed>>

Patched(r, t, sc, sens) == [r EXCEPT !.text = t, !.scope = sc, !.sens = sens]

---------------------------------------------------------------------------
\* Creation

\* nextId: one more than the largest id a memory or a dismissal holds.
Used == {i \in Ids : Exists(i) \/ dismissed[i] # None}

IsNextId(n) ==
    /\ n \in Ids \ Used
    /\ \A m \in Used : m < n
    /\ n > 1 => n - 1 \in Used

NewRow(t, sc, s, sens) ==
    [text |-> t, scope |-> sc, status |-> s, version |-> 1, sens |-> sens]

Insert(n, r) ==
    /\ Room(1)
    /\ row' = [row EXCEPT ![n] = r]
    /\ log' = [log EXCEPT ![n] = Append(@, CreateEvent(r))]

\* create(): a fact from the Board, a capture or an import, in any status.
CreateMemory(n, t, sc, s, sens) ==
    /\ IsNextId(n)
    /\ Insert(n, NewRow(t, sc, s, sens))
    /\ UNCHANGED <<dismissed, revoked, revises, reviewed>>

HasOpenRevision(t) == \E c \in Ids : t \in revises[c] /\ Pending(c)

ReviewOf(t) == [id |-> t, version |-> row[t].version,
                text |-> row[t].text, scope |-> row[t].scope]

Propose(n, targets, r) ==
    /\ IsNextId(n)
    /\ Insert(n, r)
    /\ revises' = [revises EXCEPT ![n] = targets]
    /\ reviewed' = [reviewed EXCEPT ![n] = {ReviewOf(t) : t \in targets}]
    /\ UNCHANGED <<dismissed, revoked>>

\* createRevisionCandidate: drafted on the text "expected", read before the
\* drafting model was awaited.  A capture may compete with an open revision.
ProposeRevision(n, t, expected, competing, text, sens) ==
    /\ row[t].status = "active"
    /\ row[t].text = expected
    /\ competing \/ ~HasOpenRevision(t)
    /\ Propose(n, {t}, NewRow(text, row[t].scope, "candidate", sens))

\* createMergeProposal: one candidate that revises two memories of one scope.
ProposeMerge(n, t, u, text, sens) ==
    /\ t # u
    /\ \A x \in {t, u} : row[x].status = "active" /\ ~HasOpenRevision(x)
    /\ row[t].scope = row[u].scope
    /\ Propose(n, {t, u}, NewRow(text, row[t].scope, "candidate", sens))

---------------------------------------------------------------------------
\* Drafts and their acceptance

\* replaceCandidateDraft erases the previous draft from the item's history; the
\* version is not bumped.
DraftLogKept(i, r) == log[i]

DraftLog(i, r) == IF r = row[i] THEN log[i] ELSE <<CreateEvent(r)>>

\* PATCH of a candidate without an acceptance.  The draft is replaced in one
\* transaction; the status then moves in a second one, whose refusal of
\* 'discarded' leaves the new draft in place.  No await separates the two.
PatchCandidate(i, t, sc, sens, next) ==
    LET r == Patched(row[i], t, sc, sens)
        base == [row EXCEPT ![i] = r]
        logs == [log EXCEPT ![i] = DraftLog(i, r)]
    IN  /\ Pending(i) /\ Room(1)
        /\ next \in {"candidate", "archived", "discarded"}
        /\ Ordinary(i, row[i], log[i], "candidate")
        /\ IF Ordinary(i, r, logs[i], next)
           THEN UpdateRows(base, logs, [base EXCEPT ![i] = WithStatus(r, next)])
           ELSE row' = base /\ log' = logs /\ UNCHANGED revoked
        /\ UNCHANGED <<dismissed, revises, reviewed>>

\* The reviewed snapshots still describe exactly the targets, all active.
ReviewHoldsByVersion(c) ==
    /\ \A t \in revises[c] : row[t].status = "active"
    /\ {<<s.id, s.version>> : s \in reviewed[c]}
         = {<<t, row[t].version>> : t \in revises[c]}

ReviewHolds(c) ==
    /\ \A t \in revises[c] : row[t].status = "active"
    /\ reviewed[c] = {ReviewOf(t) : t \in revises[c]}

\* The memories an acceptance archives.
ReplacedBy(c) == revises[c]

\* acceptRevision with its draft patch: one transaction activates the candidate
\* and archives every memory it revises.
AcceptRevision(c, t, sc, sens) ==
    LET r == Patched(row[c], t, sc, sens)
        base == [row EXCEPT ![c] = r]
        logs == [log EXCEPT ![c] = DraftLog(c, r)]
    IN  /\ Pending(c) /\ Room(1 + Cardinality(revises[c]))
        /\ ReviewHolds(c)
        /\ Ordinary(c, row[c], log[c], "active") /\ Ordinary(c, r, logs[c], "active")
        /\ \A x \in revises[c] : Ordinary(x, row[x], log[x], "archived")
        /\ UpdateRows(base, logs,
             [j \in Ids |-> IF j = c THEN WithStatus(r, "active")
                            ELSE IF j \in ReplacedBy(c) THEN WithStatus(row[j], "archived")
                            ELSE row[j]])
        /\ UNCHANGED <<dismissed, revises, reviewed>>

\* acceptReviewedSensitiveCandidate: the Board's one-step review must replace
\* the sensitive text and cannot drop the sensitive mark.
AcceptReviewedSensitive(c, t, sc) ==
    /\ Pending(c) /\ row[c].sens
    /\ t # row[c].text
    /\ AcceptRevision(c, t, sc, TRUE)

\* autoApplyProposals on one fresh proposal.
AutoApply(c) ==
    /\ Pending(c) /\ ~row[c].sens
    /\ IF revises[c] # {}
       THEN AcceptRevision(c, row[c].text, row[c].scope, FALSE)
       ELSE Update(c, WithStatus(row[c], "active"))

---------------------------------------------------------------------------
\* Decisions on a memory out of review

\* PATCH of a row that is not a candidate.
PatchMemory(i, t, sc, sens, next) ==
    /\ ~Pending(i)
    /\ Update(i, WithStatus(Patched(row[i], t, sc, sens), next))

\* archive(): DELETE of a row that is no candidate, the attention row's Archive,
\* Transfer's archiveOriginal and each duplicate of merge-duplicates.
Archive(i) == Update(i, WithStatus(row[i], "archived"))

\* recordCandidateDismissal: a second dismissal keeps the first fingerprint.
EvidenceAfter(i) ==
    IF dismissed[i] = None
    THEN [text |-> row[i].text, scope |-> row[i].scope, sens |-> row[i].sens]
    ELSE [dismissed[i] EXCEPT !.sens = @ \/ row[i].sens]

\* discardCandidate
HardEraseKeepingLog(i) ==
    /\ dismissed' = [dismissed EXCEPT ![i] = EvidenceAfter(i)]
    /\ reviewed' = [reviewed EXCEPT ![i] = {}]
    /\ revises' = [j \in Ids |-> IF j = i THEN {} ELSE revises[j] \ {i}]
    /\ row' = [row EXCEPT ![i] = NoRow]
    /\ UNCHANGED <<revoked, log>>

HardErase(i) ==
    /\ dismissed' = [dismissed EXCEPT ![i] = EvidenceAfter(i)]
    /\ reviewed' = [reviewed EXCEPT ![i] = {}]
    /\ revises' = [j \in Ids |-> IF j = i THEN {} ELSE revises[j] \ {i}]
    /\ log' = [log EXCEPT ![i] = <<>>]
    /\ row' = [row EXCEPT ![i] = NoRow]
    /\ UNCHANGED revoked

\* dismissCandidate
SoftDismiss(i) ==
    /\ Room(1)
    /\ dismissed' = [dismissed EXCEPT ![i] = EvidenceAfter(i)]
    /\ UpdateRows(row, log, [row EXCEPT ![i] = WithStatus(@, "discarded")])
    /\ UNCHANGED <<revises, reviewed>>

\* dismissCandidateByPolicy: sensitive text, or text once dismissed as sensitive,
\* is erased; anything else stays as a negative example.
Dismiss(i) ==
    /\ Pending(i)
    /\ IF row[i].sens \/ (dismissed[i] # None /\ dismissed[i].sens)
       THEN HardErase(i)
       ELSE SoftDismiss(i)

\* restoreDismissedCandidate
Restore(i) ==
    /\ row[i].status = "discarded" /\ Room(1)
    /\ ~row[i].sens /\ dismissed[i] # None /\ ~dismissed[i].sens
    /\ UpdateRows(row, log, [row EXCEPT ![i] = WithStatus(@, "candidate")])
    /\ dismissed' = [dismissed EXCEPT ![i] = None]
    /\ UNCHANGED <<revises, reviewed>>

\* unmuteProposal
UnmuteAnything(i) ==
    /\ dismissed[i] # None
    /\ dismissed' = [dismissed EXCEPT ![i] = None]
    /\ UNCHANGED <<row, revoked, revises, reviewed, log>>

Unmute(i) ==
    /\ dismissed[i] # None /\ ~dismissed[i].sens
    /\ Exists(i) => ~row[i].sens /\ row[i].status = "discarded"
    /\ dismissed' = [dismissed EXCEPT ![i] = None]
    /\ UNCHANGED <<row, revoked, revises, reviewed, log>>

---------------------------------------------------------------------------
\* History

\* An event after the last status event that changed what the acceptance accepted.
EditedSince(i) ==
    \E k \in LastStatus(log[i]) + 1 .. Len(log[i]) : log[i][k].kind \in {"edit", "rescope"}

\* The memories a revert brings back.
TakenBackOne(i) ==
    LET back == {t \in revises[i] : row[t].status = "archived"}
    IN  IF back = {} THEN {} ELSE {CHOOSE t \in back : TRUE}

TakenBack(i) == {t \in revises[i] : row[t].status = "archived"}

\* revertAutoAccept: the item goes back to review and its archived targets live.
RevertAutoAccept(i) ==
    LET last == LastStatus(log[i])
        back == TakenBack(i)
    IN  /\ row[i].status = "active"
        /\ last # 0
        /\ log[i][last].from = "candidate" /\ log[i][last].to = "active"
        /\ ~EditedSince(i)
        /\ Room(1 + Cardinality(back))
        /\ Ordinary(i, row[i], log[i], "candidate")
        /\ \A t \in back : Ordinary(t, row[t], log[t], "active")
        /\ UpdateRows(row, log,
             [j \in Ids |-> IF j = i THEN WithStatus(row[j], "candidate")
                            ELSE IF j \in back THEN WithStatus(row[j], "active")
                            ELSE row[j]])
        /\ UNCHANGED <<dismissed, revises, reviewed>>

\* rollback(i, k): the snapshot of event k comes back as a new version.
Rollback(i, k) ==
    LET snap == log[i][k].snap
        new == [row[i] EXCEPT !.text = snap.text, !.scope = snap.scope,
                              !.status = snap.status,
                              !.version = VersionAfter(row[i], snap)]
    IN  /\ Exists(i) /\ Room(1)
        /\ Ordinary(i, row[i], log[i], snap.status)
        /\ snap # SnapshotOf(row[i])
        /\ new.version <= MaxVersion
        /\ row' = [row EXCEPT ![i] = new]
        /\ log' = [log EXCEPT ![i] = Append(@, ChangeEvent("revert", row[i], new))]
        /\ revoked' = [revoked EXCEPT ![i] = RevocationAfter(i, row[i], snap.status)]
        /\ UNCHANGED <<dismissed, revises, reviewed>>

---------------------------------------------------------------------------
Init ==
    /\ row = [i \in Ids |-> NoRow]
    /\ dismissed = [i \in Ids |-> None]
    /\ revoked = [i \in Ids |-> None]
    /\ revises = [i \in Ids |-> {}]
    /\ reviewed = [i \in Ids |-> {}]
    /\ log = [i \in Ids |-> <<>>]

Propositions(n) ==
    \E t \in Ids, text \in Texts, sens \in Marks :
        \/ \E expected \in Texts, competing \in BOOLEAN :
               ProposeRevision(n, t, expected, competing, text, sens)
        \/ \E u \in Ids : ProposeMerge(n, t, u, text, sens)

Patches(i) ==
    \E t \in Texts, sc \in Scopes, sens \in Marks :
        \/ \E s \in Statuses : PatchCandidate(i, t, sc, sens, s)
        \/ AcceptRevision(i, t, sc, sens)
        \/ AcceptReviewedSensitive(i, t, sc)
        \/ \E s \in Statuses : PatchMemory(i, t, sc, sens, s)

Next ==
    \E i \in Ids :
        \/ \E t \in Texts, sc \in Scopes, s \in Born, sens \in Marks :
               CreateMemory(i, t, sc, s, sens)
        \/ Propositions(i)
        \/ Patches(i)
        \/ AutoApply(i)
        \/ Archive(i)
        \/ Dismiss(i)
        \/ Restore(i)
        \/ Unmute(i)
        \/ RevertAutoAccept(i)
        \/ \E k \in 1 .. Len(log[i]) : Rollback(i, k)

Spec == Init /\ [][Next]_vars

---------------------------------------------------------------------------
(* Properties *)

\* Every table holds rows of its own shape.
TypeOK ==
    /\ row \in [Ids -> Row \cup {NoRow}]
    /\ dismissed \in [Ids -> Evidence \cup {None}]
    /\ revoked \in [Ids -> Claim \cup {None}]
    /\ revises \in [Ids -> SUBSET Ids]
    /\ reviewed \in [Ids -> SUBSET Reviewed]
    /\ log \in [Ids -> Seq(Event)]

\* A memory with dismissal evidence is discarded or erased: no sequence of edits,
\* acceptances, reverts and rollbacks brings it back past its evidence
\* (assertCandidateDecisionTransition, MemoryStore.ts:325).  What was dismissed
\* is what the evidence says, so repeat suppression matches the kept text.
DismissedNeverLive ==
    \A i \in Ids : dismissed[i] # None /\ Exists(i) =>
        /\ row[i].status = "discarded"
        /\ dismissed[i] = [text |-> row[i].text, scope |-> row[i].scope, sens |-> row[i].sens]

\* Erasing a sensitive candidate leaves its fingerprint and nothing else: no row,
\* no event, no relation from or to it, no reviewed snapshot of its own
\* (discardCandidate, MemoryStore.ts:452).
SensitiveErased ==
    \A i \in Ids : dismissed[i] # None /\ dismissed[i].sens =>
        /\ ~Exists(i) /\ log[i] = <<>> /\ reviewed[i] = {}
        /\ \A j \in Ids : revises[i] = {} /\ i \notin revises[j]

\* The newest event of a memory describes the memory as it is, so the history a
\* user rolls back along never misses a change (updateWithCandidateDecision,
\* replaceCandidateDraft and rollback each append what they did).
HistoryDescribesRow ==
    \A i \in Ids : Exists(i) =>
        /\ log[i] # <<>>
        /\ log[i][Len(log[i])].snap = SnapshotOf(row[i])

\* Accepting a revision archives only memories whose text and scope are those the
\* proposal was drafted against, and leaves none of its targets active
\* (acceptRevision, MemoryStore.ts:922).
AcceptReplacesWhatWasReviewed ==
    [][\A c \in Ids :
          /\ Pending(c) /\ row'[c].status = "active"
          /\ log'[c][Len(log'[c])].kind = "status"
          => \A t \in revises[c] :
               /\ row'[t].status = "archived"
               /\ \E m \in reviewed[c] : m.id = t /\ SameClaim(m, row[t])]_vars

\* Reverting an acceptance takes back the acceptance alone, and as a whole: the text
\* and scope that go back to review are those that were accepted, never a later edit;
\* every target it archived is back, and unless one was edited meanwhile the review
\* still holds and the item can be accepted again (revertAutoAccept, MemoryStore.ts:1026).
\* A rollback after the acceptance is no edit to the code: what it brought back stays.
RevertUndoesTheAcceptance ==
    [][\A i \in Ids : RevertAutoAccept(i) =>
          /\ \/ SameClaim(row'[i], log[i][LastStatus(log[i])].snap)
             \/ \E k \in LastStatus(log[i]) + 1 .. Len(log[i]) : log[i][k].kind = "revert"
          /\ \A t \in revises[i] : row'[t].status # "archived"
          /\ (\A t \in revises[i] : \E m \in reviewed[i] :
                 /\ m.id = t /\ m.version = row[t].version
                 /\ SameClaim(m, row[t]) /\ row[t].status \in {"active", "archived"})
             => \A t \in revises[i] : row'[t].status = "active"]_vars

\* Evidence that a sensitive candidate was dismissed is never lifted or relabelled
\* (unmuteProposal and recordCandidateDismissal, MemoryStore.ts:288 and :679).
SensitiveTombstonePermanent ==
    [][\A i \in Ids : dismissed[i] # None /\ dismissed[i].sens =>
          dismissed'[i] = dismissed[i]]_vars

\* The Board lets a user archive any memory in use ("Open an item to edit it, read
\* its history, or archive it", README.md:102).
LiveMemoryCanBeArchived ==
    \A i \in Ids : row[i].status = "active" =>
        Ordinary(i, row[i], log[i], "archived")

=============================================================================
