------------------------- MODULE MemoryStoreProofs -------------------------
(***************************************************************************)
(* Proofs about MemoryStore for every number of memories and contents.     *)
(* The inductive invariant is the conjunction of the tables' types, of     *)
(* DismissedNeverLive (without it an erasure could meet older evidence)    *)
(* and of SensitiveErased.  HistoryInv goes on from it: each memory's      *)
(* history starts with its creation and ends with the memory as it is,     *)
(* which is what an acceptance and its revert rely on.                     *)
(***************************************************************************)
EXTENDS MemoryStore, WellFoundedInduction, TLAPS

DismissalInv == TypeOK /\ DismissedNeverLive /\ SensitiveErased

Table == Row \cup {NoRow}

---------------------------------------------------------------------------
(* Rows *)

LEMMA RowsAreNotNoRow ==
    /\ \A r \in Row : r # NoRow
    /\ \A r \in Table : r.status \in Statuses => r \in Row
    /\ \A r \in Table : r # NoRow => r \in Row
BY DEF Row, NoRow, Table, Statuses

\* A status change keeps a row a row.
LEMMA WithStatusType ==
    ASSUME NEW r \in Row, NEW s \in Statuses
    PROVE  /\ WithStatus(r, s) \in Row
           /\ WithStatus(r, s).status = s
           /\ SameClaim(WithStatus(r, s), r)
           /\ WithStatus(r, s).sens = r.sens
BY DEF Row, WithStatus, SameClaim

LEMMA PatchedType ==
    ASSUME NEW r \in Row, NEW t \in Texts, NEW sc \in Scopes, NEW b \in BOOLEAN
    PROVE  /\ Patched(r, t, sc, b) \in Row
           /\ Patched(r, t, sc, b).status = r.status
BY DEF Row, Patched

LEMMA EventTypes ==
    ASSUME NEW r \in Row, NEW q \in Row
    PROVE  /\ SnapshotOf(r) \in Snapshot
           /\ CreateEvent(r) \in Event
           /\ ChangeEvent(ClassifyChange(q, r), q, r) \in Event
           /\ ChangeEvent("revert", q, r) \in Event
BY DEF Row, SnapshotOf, Snapshot, CreateEvent, Event, ChangeEvent, ClassifyChange, Kinds

\* What one transaction of ordinary updates does to the tables it writes.
LEMMA UpdateRowsType ==
    ASSUME TypeOK,
           NEW base \in [Ids -> Table], NEW logs \in [Ids -> Seq(Event)],
           NEW next \in [Ids -> Table],
           \A j \in Ids : next[j] # base[j] => base[j] \in Row /\ next[j] \in Row,
           UpdateRows(base, logs, next)
    PROVE  /\ row' = next
           /\ log' \in [Ids -> Seq(Event)]
           /\ revoked' \in [Ids -> Claim \cup {None}]
           /\ \A j \in Ids : next[j] = base[j] => log'[j] = logs[j]
<1>1. row' = next
  BY DEF UpdateRows
<1>2. \A j \in Ids : next[j] = base[j] => log'[j] = logs[j]
  BY DEF UpdateRows
<1>3. log' \in [Ids -> Seq(Event)]
  <2>1. ASSUME NEW j \in Ids, next[j] # base[j]
        PROVE  Append(logs[j], ChangeEvent(ClassifyChange(base[j], next[j]), base[j], next[j]))
                 \in Seq(Event)
    <3>1. ChangeEvent(ClassifyChange(base[j], next[j]), base[j], next[j]) \in Event
      BY <2>1, EventTypes
    <3> QED BY <3>1
  <2> QED BY <2>1 DEF UpdateRows
<1>4. revoked' \in [Ids -> Claim \cup {None}]
  <2>1. ASSUME NEW j \in Ids, next[j] # base[j]
        PROVE  RevocationAfter(j, base[j], next[j].status) \in Claim \cup {None}
    <3>1. base[j] \in Row
      BY <2>1
    <3> QED BY <3>1 DEF RevocationAfter, TypeOK, Row, Claim
  <2> QED BY <2>1 DEF UpdateRows, TypeOK
<1> QED BY <1>1, <1>2, <1>3, <1>4

---------------------------------------------------------------------------
(* Preservation of the inductive invariant *)

\* An operation made of ordinary updates keeps the invariant as long as it leaves
\* every memory with dismissal evidence alone.
LEMMA UpdatesPreserve ==
    ASSUME DismissalInv,
           NEW base \in [Ids -> Table], NEW logs \in [Ids -> Seq(Event)],
           NEW next \in [Ids -> Table],
           \A j \in Ids : next[j] # base[j] => base[j] \in Row /\ next[j] \in Row,
           \A j \in Ids : dismissed[j] # None =>
               next[j] = row[j] /\ base[j] = row[j] /\ logs[j] = log[j],
           UpdateRows(base, logs, next),
           UNCHANGED <<dismissed, revises, reviewed>>
    PROVE  DismissalInv'
<1>1. /\ row' = next
      /\ log' \in [Ids -> Seq(Event)]
      /\ revoked' \in [Ids -> Claim \cup {None}]
      /\ \A j \in Ids : next[j] = base[j] => log'[j] = logs[j]
  BY UpdateRowsType DEF DismissalInv
<1>2. TypeOK'
  BY <1>1 DEF DismissalInv, TypeOK, Table
<1>3. DismissedNeverLive'
  BY <1>1 DEF DismissalInv, DismissedNeverLive, Exists
<1>4. SensitiveErased'
  BY <1>1 DEF DismissalInv, SensitiveErased, Exists
<1> QED BY <1>2, <1>3, <1>4 DEF DismissalInv

\* The versions an operation may produce stay within the bound.
LEMMA VersionType ==
    ASSUME NEW r \in Row, NEW q \in Row, VersionAfter(r, q) <= MaxVersion
    PROVE  [q EXCEPT !.version = VersionAfter(r, q)] \in Row
<1>1. VersionAfter(r, q) \in 1 .. MaxVersion
  BY BoundsAssumption DEF VersionAfter, Row
<1> QED BY <1>1 DEF Row

LEMMA UpdatePreserves ==
    ASSUME DismissalInv, NEW i \in Ids, NEW q \in Row, Update(i, q)
    PROVE  DismissalInv'
<1> DEFINE new == [q EXCEPT !.version = VersionAfter(row[i], q)]
           next == [row EXCEPT ![i] = new]
<1>1. row[i] \in Row /\ row \in [Ids -> Table] /\ log \in [Ids -> Seq(Event)]
  BY RowsAreNotNoRow DEF Update, Exists, DismissalInv, TypeOK, Table
<1>2. new \in Row
  BY <1>1, VersionType DEF Update
<1>3. next \in [Ids -> Table]
  BY <1>1, <1>2 DEF Table
<1>4. \A j \in Ids : next[j] # row[j] => row[j] \in Row /\ next[j] \in Row
  BY <1>1, <1>2
<1>5. \A j \in Ids : dismissed[j] # None => next[j] = row[j]
  BY <1>1 DEF Update, Ordinary
<1>6. UpdateRows(row, log, next) /\ UNCHANGED <<dismissed, revises, reviewed>>
  BY DEF Update
<1> HIDE DEF next
<1> QED BY <1>1, <1>3, <1>4, <1>5, <1>6, UpdatesPreserve

LEMMA CreatePreserves ==
    ASSUME DismissalInv, NEW n \in Ids, NEW r \in Row, IsNextId(n), Insert(n, r)
    PROVE  /\ row' \in [Ids -> Table]
           /\ log' \in [Ids -> Seq(Event)]
           /\ \A j \in Ids : dismissed[j] # None => row'[j] = row[j] /\ log'[j] = log[j]
<1>1. dismissed[n] = None
  BY DEF IsNextId, Used
<1>2. CreateEvent(r) \in Event
  BY EventTypes
<1> QED BY <1>1, <1>2 DEF Insert, DismissalInv, TypeOK, Table

LEMMA NewRowType ==
    ASSUME NEW t \in Texts, NEW sc \in Scopes, NEW s \in Statuses, NEW b \in BOOLEAN
    PROVE  NewRow(t, sc, s, b) \in Row
BY BoundsAssumption DEF NewRow, Row

LEMMA CreateMemoryPreserves ==
    ASSUME DismissalInv, NEW n \in Ids, NEW t \in Texts, NEW sc \in Scopes,
           NEW s \in Statuses, NEW b \in BOOLEAN, CreateMemory(n, t, sc, s, b)
    PROVE  DismissalInv'
<1>1. NewRow(t, sc, s, b) \in Row
  BY NewRowType
<1>2. /\ row' \in [Ids -> Table] /\ log' \in [Ids -> Seq(Event)]
      /\ \A j \in Ids : dismissed[j] # None => row'[j] = row[j] /\ log'[j] = log[j]
  BY <1>1, CreatePreserves DEF CreateMemory
<1>3. UNCHANGED <<dismissed, revoked, revises, reviewed>>
  BY DEF CreateMemory
<1>4. TypeOK'
  BY <1>2, <1>3 DEF DismissalInv, TypeOK, Table
<1>5. DismissedNeverLive'
  BY <1>2, <1>3 DEF DismissalInv, DismissedNeverLive, Exists
<1>6. SensitiveErased'
  BY <1>2, <1>3 DEF DismissalInv, SensitiveErased, Exists
<1> QED BY <1>4, <1>5, <1>6 DEF DismissalInv

\* A proposal revises memories in use, none of which was ever erased.
LEMMA ProposePreserves ==
    ASSUME DismissalInv, NEW n \in Ids, NEW targets \in SUBSET Ids, NEW r \in Row,
           \A t \in targets : row[t].status = "active",
           Propose(n, targets, r)
    PROVE  DismissalInv'
<1>1. /\ row' \in [Ids -> Table] /\ log' \in [Ids -> Seq(Event)]
      /\ \A j \in Ids : dismissed[j] # None => row'[j] = row[j] /\ log'[j] = log[j]
  BY CreatePreserves DEF Propose
<1>2. /\ UNCHANGED <<dismissed, revoked>>
      /\ revises' = [revises EXCEPT ![n] = targets]
      /\ reviewed' = [reviewed EXCEPT ![n] = {ReviewOf(t) : t \in targets}]
      /\ dismissed[n] = None
  BY DEF Propose, IsNextId, Used
<1>3. \A t \in targets : row[t] \in Row
  BY RowsAreNotNoRow DEF DismissalInv, TypeOK, Table, Statuses
<1>4. \A t \in targets : ReviewOf(t) \in Reviewed
  BY <1>3 DEF ReviewOf, Reviewed, Row
<1>5. TypeOK'
  <2>1. {ReviewOf(t) : t \in targets} \in SUBSET Reviewed
    BY <1>4
  <2> QED BY <1>1, <1>2, <2>1 DEF DismissalInv, TypeOK, Table
<1>6. DismissedNeverLive'
  BY <1>1, <1>2 DEF DismissalInv, DismissedNeverLive, Exists
<1>7. SensitiveErased'
  <2> SUFFICES ASSUME NEW i \in Ids, dismissed[i] # None, dismissed[i].sens
               PROVE  /\ row'[i] = NoRow /\ log'[i] = <<>> /\ reviewed'[i] = {}
                      /\ \A j \in Ids : revises'[i] = {} /\ i \notin revises'[j]
    BY <1>2 DEF SensitiveErased, Exists
  <2>1. /\ row[i] = NoRow /\ log[i] = <<>> /\ reviewed[i] = {}
        /\ \A j \in Ids : revises[i] = {} /\ i \notin revises[j]
    BY DEF DismissalInv, SensitiveErased, Exists
  <2>2. i # n
    BY <1>2
  <2>3. i \notin targets
    BY <2>1, <1>3, RowsAreNotNoRow
  <2> QED BY <1>1, <1>2, <2>1, <2>2, <2>3 DEF DismissalInv, TypeOK
<1> QED BY <1>5, <1>6, <1>7 DEF DismissalInv

LEMMA PropositionsPreserve ==
    ASSUME DismissalInv, NEW n \in Ids, Propositions(n)
    PROVE  DismissalInv'
<1>1. PICK t \in Ids, text \in Texts, sens \in Marks :
        \/ \E expected \in Texts, competing \in BOOLEAN :
              ProposeRevision(n, t, expected, competing, text, sens)
        \/ \E u \in Ids : ProposeMerge(n, t, u, text, sens)
  BY DEF Propositions
<1>2. row[t].status = "active"
  BY <1>1 DEF ProposeRevision, ProposeMerge
<1>3. row[t] \in Row
  BY <1>2, RowsAreNotNoRow DEF DismissalInv, TypeOK, Table, Statuses
<1>4. NewRow(text, row[t].scope, "candidate", sens) \in Row
  BY <1>3, NewRowType, BoundsAssumption DEF Row, Statuses
<1>5. CASE \E expected \in Texts, competing \in BOOLEAN :
             ProposeRevision(n, t, expected, competing, text, sens)
  <2>1. Propose(n, {t}, NewRow(text, row[t].scope, "candidate", sens))
    BY <1>5 DEF ProposeRevision
  <2> QED BY <1>2, <1>4, <2>1, ProposePreserves
<1>6. CASE \E u \in Ids : ProposeMerge(n, t, u, text, sens)
  <2>1. PICK u \in Ids : ProposeMerge(n, t, u, text, sens)
    BY <1>6
  <2>2. /\ \A v \in {t, u} : row[v].status = "active"
        /\ Propose(n, {t, u}, NewRow(text, row[t].scope, "candidate", sens))
    BY <2>1 DEF ProposeMerge
  <2> QED BY <1>4, <2>2, ProposePreserves
<1> QED BY <1>1, <1>5, <1>6

---------------------------------------------------------------------------
(* Drafts and acceptances *)

LEMMA DraftLogType ==
    ASSUME TypeOK, NEW i \in Ids, NEW r \in Row
    PROVE  DraftLog(i, r) \in Seq(Event)
<1>1. CreateEvent(r) \in Event
  BY EventTypes
<1> QED BY <1>1 DEF DraftLog, TypeOK

LEMMA PendingIsRow ==
    ASSUME TypeOK, NEW i \in Ids, row[i].status \in Statuses
    PROVE  row[i] \in Row
BY RowsAreNotNoRow DEF TypeOK, Table

LEMMA PatchCandidatePreserves ==
    ASSUME DismissalInv, NEW i \in Ids, NEW t \in Texts, NEW sc \in Scopes,
           NEW b \in BOOLEAN, NEW s \in Statuses, PatchCandidate(i, t, sc, b, s)
    PROVE  DismissalInv'
<1> DEFINE r == Patched(row[i], t, sc, b)
           base == [row EXCEPT ![i] = r]
           logs == [log EXCEPT ![i] = DraftLog(i, r)]
           moved == [base EXCEPT ![i] = WithStatus(r, s)]
<1>1. row[i] \in Row /\ dismissed[i] = None
  BY PendingIsRow DEF PatchCandidate, Pending, DismissalInv, Statuses, Ordinary
<1>2. r \in Row /\ WithStatus(r, s) \in Row /\ DraftLog(i, r) \in Seq(Event)
  BY <1>1, PatchedType, WithStatusType, DraftLogType DEF DismissalInv
<1>3. /\ base \in [Ids -> Table] /\ moved \in [Ids -> Table]
      /\ logs \in [Ids -> Seq(Event)]
  BY <1>2 DEF DismissalInv, TypeOK, Table
<1>4. /\ \A j \in Ids : moved[j] # base[j] => base[j] \in Row /\ moved[j] \in Row
      /\ \A j \in Ids : dismissed[j] # None =>
            moved[j] = row[j] /\ base[j] = row[j] /\ logs[j] = log[j]
  BY <1>1, <1>2 DEF DismissalInv, TypeOK
<1>5. \/ UpdateRows(base, logs, moved)
      \/ row' = base /\ log' = logs /\ UNCHANGED revoked
  BY DEF PatchCandidate
<1>6. UNCHANGED <<dismissed, revises, reviewed>>
  BY DEF PatchCandidate
<1>7. CASE UpdateRows(base, logs, moved)
  <2> HIDE DEF base, logs, moved
  <2> QED BY <1>3, <1>4, <1>6, <1>7, UpdatesPreserve
<1>8. CASE row' = base /\ log' = logs /\ UNCHANGED revoked
  <2> HIDE DEF base, logs, moved
  <2>1. TypeOK'
    BY <1>3, <1>6, <1>8 DEF DismissalInv, TypeOK, Table
  <2>2. DismissedNeverLive'
    BY <1>4, <1>6, <1>8 DEF DismissalInv, DismissedNeverLive, Exists
  <2>3. SensitiveErased'
    BY <1>4, <1>6, <1>8 DEF DismissalInv, SensitiveErased, Exists
  <2> QED BY <2>1, <2>2, <2>3 DEF DismissalInv
<1> QED BY <1>5, <1>7, <1>8

LEMMA AcceptPreserves ==
    ASSUME DismissalInv, NEW c \in Ids, NEW t \in Texts, NEW sc \in Scopes,
           NEW b \in BOOLEAN, AcceptRevision(c, t, sc, b)
    PROVE  DismissalInv'
<1> DEFINE r == Patched(row[c], t, sc, b)
           base == [row EXCEPT ![c] = r]
           logs == [log EXCEPT ![c] = DraftLog(c, r)]
           next == [j \in Ids |-> IF j = c THEN WithStatus(r, "active")
                                  ELSE IF j \in ReplacedBy(c) THEN WithStatus(row[j], "archived")
                                  ELSE row[j]]
<1>1. row[c] \in Row /\ dismissed[c] = None
  BY PendingIsRow DEF AcceptRevision, Pending, DismissalInv, Statuses, Ordinary
<1>2. r \in Row /\ WithStatus(r, "active") \in Row /\ DraftLog(c, r) \in Seq(Event)
  BY <1>1, PatchedType, WithStatusType, DraftLogType DEF DismissalInv, Statuses
<1>3. \A j \in revises[c] :
        /\ row[j] \in Row /\ dismissed[j] = None
        /\ WithStatus(row[j], "archived") \in Row
  <2> SUFFICES ASSUME NEW j \in revises[c]
               PROVE  /\ row[j] \in Row /\ dismissed[j] = None
                      /\ WithStatus(row[j], "archived") \in Row
    OBVIOUS
  <2>1. j \in Ids
    BY DEF DismissalInv, TypeOK
  <2>2. row[j].status = "active" /\ dismissed[j] = None
    BY DEF AcceptRevision, ReviewHolds, Ordinary
  <2>3. row[j] \in Row
    BY <2>1, <2>2, PendingIsRow DEF DismissalInv, Statuses
  <2> QED BY <2>2, <2>3, WithStatusType DEF Statuses
<1>4. /\ base \in [Ids -> Table] /\ next \in [Ids -> Table]
      /\ logs \in [Ids -> Seq(Event)]
  BY <1>2, <1>3 DEF ReplacedBy, DismissalInv, TypeOK, Table
<1>5. /\ \A j \in Ids : next[j] # base[j] => base[j] \in Row /\ next[j] \in Row
      /\ \A j \in Ids : dismissed[j] # None =>
            next[j] = row[j] /\ base[j] = row[j] /\ logs[j] = log[j]
  BY <1>1, <1>2, <1>3 DEF ReplacedBy, DismissalInv, TypeOK
<1>6. UpdateRows(base, logs, next) /\ UNCHANGED <<dismissed, revises, reviewed>>
  BY DEF AcceptRevision
<1> HIDE DEF base, logs, next
<1> QED BY <1>4, <1>5, <1>6, UpdatesPreserve

LEMMA PatchesPreserve ==
    ASSUME DismissalInv, NEW i \in Ids, Patches(i)
    PROVE  DismissalInv'
<1>1. PICK t \in Texts, sc \in Scopes, b \in Marks :
        \/ \E s \in Statuses : PatchCandidate(i, t, sc, b, s)
        \/ AcceptRevision(i, t, sc, b)
        \/ AcceptReviewedSensitive(i, t, sc)
        \/ \E s \in Statuses : PatchMemory(i, t, sc, b, s)
  BY DEF Patches
<1>2. b \in BOOLEAN
  BY BoundsAssumption
<1>3. CASE \E s \in Statuses : PatchCandidate(i, t, sc, b, s)
  BY <1>2, <1>3, PatchCandidatePreserves
<1>4. CASE AcceptRevision(i, t, sc, b)
  BY <1>2, <1>4, AcceptPreserves
<1>5. CASE AcceptReviewedSensitive(i, t, sc)
  BY <1>5, AcceptPreserves DEF AcceptReviewedSensitive
<1>6. CASE \E s \in Statuses : PatchMemory(i, t, sc, b, s)
  <2>1. PICK s \in Statuses : PatchMemory(i, t, sc, b, s)
    BY <1>6
  <2>2. Update(i, WithStatus(Patched(row[i], t, sc, b), s))
    BY <2>1 DEF PatchMemory
  <2>3. row[i] \in Row
    BY <2>2, RowsAreNotNoRow DEF Update, Exists, DismissalInv, TypeOK, Table
  <2>4. WithStatus(Patched(row[i], t, sc, b), s) \in Row
    BY <1>2, <2>3, PatchedType, WithStatusType
  <2> QED BY <2>2, <2>4, UpdatePreserves
<1> QED BY <1>1, <1>3, <1>4, <1>5, <1>6

\* Archive and the plain branch of AutoApply: a status change of one memory.
LEMMA StatusUpdatePreserves ==
    ASSUME DismissalInv, NEW i \in Ids, NEW s \in Statuses,
           Update(i, WithStatus(row[i], s))
    PROVE  DismissalInv'
<1>1. row[i] \in Row
  BY RowsAreNotNoRow DEF Update, Exists, DismissalInv, TypeOK, Table
<1> QED BY <1>1, WithStatusType, UpdatePreserves

LEMMA AutoApplyPreserves ==
    ASSUME DismissalInv, NEW c \in Ids, AutoApply(c)
    PROVE  DismissalInv'
<1>1. CASE revises[c] # {}
  <2>1. AcceptRevision(c, row[c].text, row[c].scope, FALSE)
    BY <1>1 DEF AutoApply
  <2>2. row[c] \in Row
    BY PendingIsRow DEF AutoApply, Pending, DismissalInv, Statuses
  <2>3. row[c].text \in Texts /\ row[c].scope \in Scopes
    BY <2>2 DEF Row
  <2> QED BY <2>1, <2>3, AcceptPreserves
<1>2. CASE revises[c] = {}
  BY <1>2, StatusUpdatePreserves DEF AutoApply, Statuses
<1> QED BY <1>1, <1>2

---------------------------------------------------------------------------
(* Dismissals *)

\* Only a candidate is dismissed, and a candidate has no earlier evidence.
LEMMA FreshEvidence ==
    ASSUME DismissalInv, NEW i \in Ids, Pending(i)
    PROVE  /\ row[i] \in Row
           /\ dismissed[i] = None
           /\ EvidenceAfter(i) \in Evidence
           /\ EvidenceAfter(i) = [text |-> row[i].text, scope |-> row[i].scope,
                                 sens |-> row[i].sens]
<1>1. row[i] \in Row
  BY PendingIsRow DEF Pending, DismissalInv, Statuses
<1>2. dismissed[i] = None
  BY <1>1, RowsAreNotNoRow DEF Pending, DismissalInv, DismissedNeverLive, Exists
<1>3. EvidenceAfter(i) = [text |-> row[i].text, scope |-> row[i].scope, sens |-> row[i].sens]
  BY <1>2 DEF EvidenceAfter
<1> QED BY <1>1, <1>2, <1>3 DEF Row, Evidence

LEMMA HardErasePreserves ==
    ASSUME DismissalInv, NEW i \in Ids, Pending(i), HardErase(i)
    PROVE  DismissalInv'
<1>1. EvidenceAfter(i) \in Evidence /\ EvidenceAfter(i) # None
  BY FreshEvidence, NoneAssumption
<1>2. TypeOK'
  BY <1>1 DEF HardErase, DismissalInv, TypeOK, Table
<1>3. DismissedNeverLive'
  BY DEF HardErase, DismissalInv, DismissedNeverLive, TypeOK, Exists
<1>4. SensitiveErased'
  BY DEF HardErase, DismissalInv, SensitiveErased, TypeOK, Exists
<1> QED BY <1>2, <1>3, <1>4 DEF DismissalInv

LEMMA SoftDismissPreserves ==
    ASSUME DismissalInv, NEW i \in Ids, Pending(i), ~row[i].sens, SoftDismiss(i)
    PROVE  DismissalInv'
<1> DEFINE next == [row EXCEPT ![i] = WithStatus(row[i], "discarded")]
<1>1. /\ row[i] \in Row /\ dismissed[i] = None /\ EvidenceAfter(i) \in Evidence
      /\ EvidenceAfter(i) = [text |-> row[i].text, scope |-> row[i].scope,
                            sens |-> row[i].sens]
  BY FreshEvidence
<1>2. WithStatus(row[i], "discarded") \in Row
  BY <1>1, WithStatusType DEF Statuses
<1>3. row \in [Ids -> Table] /\ log \in [Ids -> Seq(Event)] /\ next \in [Ids -> Table]
  BY <1>2 DEF DismissalInv, TypeOK, Table
<1>4. \A j \in Ids : next[j] # row[j] => row[j] \in Row /\ next[j] \in Row
  BY <1>1, <1>2, <1>3
<1>5. UpdateRows(row, log, next)
  BY DEF SoftDismiss
<1>6. /\ row' = next
      /\ log' \in [Ids -> Seq(Event)]
      /\ revoked' \in [Ids -> Claim \cup {None}]
      /\ \A j \in Ids : next[j] = row[j] => log'[j] = log[j]
  <2> HIDE DEF next
  <2> QED BY <1>3, <1>4, <1>5, UpdateRowsType DEF DismissalInv
<1>7. /\ dismissed' = [dismissed EXCEPT ![i] = EvidenceAfter(i)]
      /\ UNCHANGED <<revises, reviewed>>
  BY DEF SoftDismiss
<1>8. TypeOK'
  BY <1>1, <1>3, <1>6, <1>7 DEF DismissalInv, TypeOK, Table
<1>9. DismissedNeverLive'
  <2>1. /\ row'[i].status = "discarded"
        /\ dismissed'[i] = [text |-> row'[i].text, scope |-> row'[i].scope, sens |-> row'[i].sens]
    BY <1>1, <1>6, <1>7, WithStatusType DEF SameClaim, Statuses, DismissalInv, TypeOK
  <2>2. \A j \in Ids \ {i} : row'[j] = row[j] /\ dismissed'[j] = dismissed[j]
    BY <1>6, <1>7 DEF DismissalInv, TypeOK
  <2> QED BY <2>1, <2>2 DEF DismissalInv, DismissedNeverLive, Exists
<1>10. SensitiveErased'
  <2>1. ~dismissed'[i].sens
    BY <1>1, <1>7 DEF DismissalInv, TypeOK
  <2>2. \A j \in Ids \ {i} :
          row'[j] = row[j] /\ dismissed'[j] = dismissed[j] /\ log'[j] = log[j]
    BY <1>6, <1>7 DEF DismissalInv, TypeOK
  <2> QED BY <1>7, <2>1, <2>2 DEF DismissalInv, SensitiveErased, Exists
<1> QED BY <1>8, <1>9, <1>10 DEF DismissalInv

LEMMA DismissPreserves ==
    ASSUME DismissalInv, NEW i \in Ids, Dismiss(i)
    PROVE  DismissalInv'
BY HardErasePreserves, SoftDismissPreserves DEF Dismiss

LEMMA RestorePreserves ==
    ASSUME DismissalInv, NEW i \in Ids, Restore(i)
    PROVE  DismissalInv'
<1> DEFINE next == [row EXCEPT ![i] = WithStatus(row[i], "candidate")]
<1>1. row[i] \in Row
  BY PendingIsRow DEF Restore, DismissalInv, Statuses
<1>2. WithStatus(row[i], "candidate") \in Row
  BY <1>1, WithStatusType DEF Statuses
<1>3. row \in [Ids -> Table] /\ log \in [Ids -> Seq(Event)] /\ next \in [Ids -> Table]
  BY <1>2 DEF DismissalInv, TypeOK, Table
<1>4. \A j \in Ids : next[j] # row[j] => row[j] \in Row /\ next[j] \in Row
  BY <1>1, <1>2, <1>3
<1>5. UpdateRows(row, log, next)
  BY DEF Restore
<1>6. /\ row' = next
      /\ log' \in [Ids -> Seq(Event)]
      /\ revoked' \in [Ids -> Claim \cup {None}]
      /\ \A j \in Ids : next[j] = row[j] => log'[j] = log[j]
  <2> HIDE DEF next
  <2> QED BY <1>3, <1>4, <1>5, UpdateRowsType DEF DismissalInv
<1>7. /\ dismissed' = [dismissed EXCEPT ![i] = None]
      /\ UNCHANGED <<revises, reviewed>>
  BY DEF Restore
<1>8. TypeOK'
  BY <1>3, <1>6, <1>7 DEF DismissalInv, TypeOK, Table
<1>9. /\ dismissed'[i] = None
      /\ \A j \in Ids \ {i} :
           row'[j] = row[j] /\ dismissed'[j] = dismissed[j] /\ log'[j] = log[j]
  BY <1>6, <1>7 DEF DismissalInv, TypeOK
<1>10. DismissedNeverLive'
  BY <1>9 DEF DismissalInv, DismissedNeverLive, Exists
<1>11. SensitiveErased'
  BY <1>7, <1>9 DEF DismissalInv, SensitiveErased, Exists
<1> QED BY <1>8, <1>10, <1>11 DEF DismissalInv

LEMMA UnmutePreserves ==
    ASSUME DismissalInv, NEW i \in Ids, Unmute(i)
    PROVE  DismissalInv'
<1>1. TypeOK'
  BY DEF Unmute, DismissalInv, TypeOK
<1>2. DismissedNeverLive'
  BY DEF Unmute, DismissalInv, DismissedNeverLive, TypeOK, Exists
<1>3. SensitiveErased'
  BY DEF Unmute, DismissalInv, SensitiveErased, TypeOK, Exists
<1> QED BY <1>1, <1>2, <1>3 DEF DismissalInv

---------------------------------------------------------------------------
(* History *)

LEMMA RevertPreserves ==
    ASSUME DismissalInv, NEW i \in Ids, RevertAutoAccept(i)
    PROVE  DismissalInv'
<1> DEFINE back == TakenBack(i)
           next == [j \in Ids |-> IF j = i THEN WithStatus(row[j], "candidate")
                                  ELSE IF j \in back THEN WithStatus(row[j], "active")
                                  ELSE row[j]]
<1>1. row[i] \in Row /\ dismissed[i] = None
  BY PendingIsRow DEF RevertAutoAccept, DismissalInv, Statuses, Ordinary
<1>2. \A j \in back :
        row[j] \in Row /\ dismissed[j] = None /\ WithStatus(row[j], "active") \in Row
  <2> SUFFICES ASSUME NEW j \in back
               PROVE  row[j] \in Row /\ dismissed[j] = None /\ WithStatus(row[j], "active") \in Row
    OBVIOUS
  <2>1. j \in Ids /\ row[j].status = "archived"
    BY DEF TakenBack, DismissalInv, TypeOK
  <2>2. row[j] \in Row
    BY <2>1, PendingIsRow DEF DismissalInv, Statuses
  <2>3. dismissed[j] = None
    BY DEF RevertAutoAccept, Ordinary
  <2> QED BY <2>2, <2>3, WithStatusType DEF Statuses
<1>3. WithStatus(row[i], "candidate") \in Row
  BY <1>1, WithStatusType DEF Statuses
<1>4. /\ row \in [Ids -> Table] /\ next \in [Ids -> Table] /\ log \in [Ids -> Seq(Event)]
  BY <1>2, <1>3 DEF DismissalInv, TypeOK, Table
<1>5. /\ \A j \in Ids : next[j] # row[j] => row[j] \in Row /\ next[j] \in Row
      /\ \A j \in Ids : dismissed[j] # None => next[j] = row[j]
  BY <1>1, <1>2, <1>3
<1>6. UpdateRows(row, log, next) /\ UNCHANGED <<dismissed, revises, reviewed>>
  BY DEF RevertAutoAccept
<1> HIDE DEF next
<1> QED BY <1>4, <1>5, <1>6, UpdatesPreserve

LEMMA RollbackPreserves ==
    ASSUME DismissalInv, NEW i \in Ids, NEW k \in 1 .. Len(log[i]), Rollback(i, k)
    PROVE  DismissalInv'
<1> DEFINE snap == log[i][k].snap
           new == [row[i] EXCEPT !.text = snap.text, !.scope = snap.scope,
                                 !.status = snap.status,
                                 !.version = VersionAfter(row[i], snap)]
<1>1. row[i] \in Row /\ dismissed[i] = None
  BY RowsAreNotNoRow DEF Rollback, Exists, Ordinary, DismissalInv, TypeOK, Table
<1>2. snap \in Snapshot
  <2>1. log[i] \in Seq(Event)
    BY DEF DismissalInv, TypeOK
  <2>2. log[i][k] \in Event
    BY <2>1
  <2> QED BY <2>2 DEF Event
<1>3. /\ new.version <= MaxVersion
      /\ row' = [row EXCEPT ![i] = new]
      /\ log' = [log EXCEPT ![i] = Append(@, ChangeEvent("revert", row[i], new))]
      /\ revoked' = [revoked EXCEPT ![i] = RevocationAfter(i, row[i], snap.status)]
      /\ UNCHANGED <<dismissed, revises, reviewed>>
  BY DEF Rollback
<1>4. new \in Row
  <2>1. VersionAfter(row[i], snap) \in Nat /\ VersionAfter(row[i], snap) >= 1
    BY <1>1, BoundsAssumption DEF VersionAfter, Row
  <2>2. new.version = VersionAfter(row[i], snap)
    BY <1>1 DEF Row
  <2>3. VersionAfter(row[i], snap) \in 1 .. MaxVersion
    BY <1>3, <2>1, <2>2, BoundsAssumption
  <2> QED BY <1>1, <1>2, <2>3 DEF Row, Snapshot
<1> HIDE DEF new, snap
<1>5. ChangeEvent("revert", row[i], new) \in Event
  BY <1>1, <1>4, EventTypes
<1>6. RevocationAfter(i, row[i], snap.status) \in Claim \cup {None}
  BY <1>1 DEF RevocationAfter, DismissalInv, TypeOK, Row, Claim
<1>7. TypeOK'
  BY <1>3, <1>4, <1>5, <1>6 DEF DismissalInv, TypeOK
<1>8. DismissedNeverLive'
  BY <1>1, <1>3 DEF DismissalInv, DismissedNeverLive, TypeOK, Exists
<1>9. SensitiveErased'
  BY <1>1, <1>3 DEF DismissalInv, SensitiveErased, TypeOK, Exists
<1> QED BY <1>7, <1>8, <1>9 DEF DismissalInv

---------------------------------------------------------------------------
(* The inductive invariant *)

LEMMA InitDismissalInv ==
    ASSUME Init
    PROVE  DismissalInv
<1>1. TypeOK
  BY DEF Init, TypeOK
<1>2. DismissedNeverLive /\ SensitiveErased
  BY DEF Init, DismissedNeverLive, SensitiveErased
<1> QED BY <1>1, <1>2 DEF DismissalInv

LEMMA NextPreserves ==
    ASSUME DismissalInv, [Next]_vars
    PROVE  DismissalInv'
<1>1. CASE Next
  <2>1. PICK i \in Ids :
          \/ \E t \in Texts, sc \in Scopes, s \in Born, sens \in Marks :
                CreateMemory(i, t, sc, s, sens)
          \/ Propositions(i)
          \/ Patches(i)
          \/ AutoApply(i)
          \/ Archive(i)
          \/ Dismiss(i)
          \/ Restore(i)
          \/ Unmute(i)
          \/ RevertAutoAccept(i)
          \/ \E k \in 1 .. Len(log[i]) : Rollback(i, k)
    BY <1>1 DEF Next
  <2>2. CASE \E t \in Texts, sc \in Scopes, s \in Born, sens \in Marks :
               CreateMemory(i, t, sc, s, sens)
    BY <2>2, CreateMemoryPreserves, BoundsAssumption
  <2>3. CASE Propositions(i)
    BY <2>3, PropositionsPreserve
  <2>4. CASE Patches(i)
    BY <2>4, PatchesPreserve
  <2>5. CASE AutoApply(i)
    BY <2>5, AutoApplyPreserves
  <2>6. CASE Archive(i)
    BY <2>6, StatusUpdatePreserves DEF Archive, Statuses
  <2>7. CASE Dismiss(i)
    BY <2>7, DismissPreserves
  <2>8. CASE Restore(i)
    BY <2>8, RestorePreserves
  <2>9. CASE Unmute(i)
    BY <2>9, UnmutePreserves
  <2>10. CASE RevertAutoAccept(i)
    BY <2>10, RevertPreserves
  <2>11. CASE \E k \in 1 .. Len(log[i]) : Rollback(i, k)
    BY <2>11, RollbackPreserves
  <2> QED BY <2>1, <2>2, <2>3, <2>4, <2>5, <2>6, <2>7, <2>8, <2>9, <2>10, <2>11
<1>2. CASE UNCHANGED vars
  BY <1>2 DEF vars, DismissalInv, TypeOK, DismissedNeverLive, SensitiveErased, Exists
<1> QED BY <1>1, <1>2

\* The conjunction is inductive: it holds of the empty library and every operation
\* of the store and of its routes keeps it.
THEOREM DismissalInvariant == Spec => []DismissalInv
<1>1. Init => DismissalInv
  BY InitDismissalInv
<1>2. DismissalInv /\ [Next]_vars => DismissalInv'
  BY NextPreserves
<1> QED BY <1>1, <1>2, PTL DEF Spec

\* Whatever the requests, every table of the library holds rows of its own shape.
THEOREM TypeCorrect == Spec => []TypeOK
BY DismissalInvariant, PTL DEF DismissalInv

\* No sequence of edits, acceptances, reverts and rollbacks brings a dismissed
\* memory back while its evidence stands.
THEOREM DismissedStaysDismissed == Spec => []DismissedNeverLive
BY DismissalInvariant, PTL DEF DismissalInv

\* An erased sensitive candidate stays erased from every table but the evidence.
THEOREM SensitiveStaysErased == Spec => []SensitiveErased
BY DismissalInvariant, PTL DEF DismissalInv

---------------------------------------------------------------------------
(* Action properties *)

\* Every operation but a dismissal, a restore and an unmute leaves all evidence
\* alone.
LEMMA EvidenceUntouched ==
    ASSUME NEW i \in Ids,
           \/ \E t \in Texts, sc \in Scopes, s \in Born, sens \in Marks :
                 CreateMemory(i, t, sc, s, sens)
           \/ Propositions(i) \/ Patches(i) \/ AutoApply(i) \/ Archive(i)
           \/ RevertAutoAccept(i)
           \/ \E k \in 1 .. Len(log[i]) : Rollback(i, k)
    PROVE  UNCHANGED dismissed
<1>1. ASSUME NEW t \in Texts, NEW sc \in Scopes, NEW s \in Born, NEW b \in Marks,
             CreateMemory(i, t, sc, s, b)
      PROVE  UNCHANGED dismissed
  BY <1>1 DEF CreateMemory
<1>2. CASE Propositions(i)
  BY <1>2 DEF Propositions, ProposeRevision, ProposeMerge, Propose
<1>3. ASSUME NEW q, Update(i, q) PROVE UNCHANGED dismissed
  BY <1>3 DEF Update
<1>4. ASSUME NEW t, NEW sc, NEW b, AcceptRevision(i, t, sc, b) PROVE UNCHANGED dismissed
  BY <1>4 DEF AcceptRevision
<1>5. ASSUME NEW t, NEW sc, NEW b, NEW s, PatchCandidate(i, t, sc, b, s)
      PROVE  UNCHANGED dismissed
  BY <1>5 DEF PatchCandidate
<1>6. CASE Patches(i)
  BY <1>3, <1>4, <1>5, <1>6 DEF Patches, AcceptReviewedSensitive, PatchMemory
<1>7. CASE AutoApply(i) \/ Archive(i)
  BY <1>3, <1>4, <1>7 DEF AutoApply, Archive
<1>8. CASE RevertAutoAccept(i)
  BY <1>8 DEF RevertAutoAccept
<1>9. ASSUME NEW k \in 1 .. Len(log[i]), Rollback(i, k) PROVE UNCHANGED dismissed
  BY <1>9 DEF Rollback
<1> QED BY <1>1, <1>2, <1>6, <1>7, <1>8, <1>9

\* Sensitive evidence outlives every operation: only Unmute and Restore lift
\* evidence, and both refuse it; a candidate being dismissed has none.
THEOREM SensitiveTombstoneForever == Spec => SensitiveTombstonePermanent
<1> DEFINE Kept == \A i \in Ids : dismissed[i] # None /\ dismissed[i].sens =>
                      dismissed'[i] = dismissed[i]
<1>1. DismissalInv /\ [Next]_vars => [Kept]_vars
  <2> SUFFICES ASSUME DismissalInv, Next
               PROVE  Kept
    OBVIOUS
  <2>1. PICK i \in Ids :
          \/ \E t \in Texts, sc \in Scopes, s \in Born, sens \in Marks :
                CreateMemory(i, t, sc, s, sens)
          \/ Propositions(i) \/ Patches(i) \/ AutoApply(i) \/ Archive(i)
          \/ Dismiss(i) \/ Restore(i) \/ Unmute(i) \/ RevertAutoAccept(i)
          \/ \E k \in 1 .. Len(log[i]) : Rollback(i, k)
    BY DEF Next
  <2>2. CASE Dismiss(i)
    <3>1. dismissed[i] = None
      BY <2>2, FreshEvidence DEF Dismiss
    <3>2. dismissed' = [dismissed EXCEPT ![i] = EvidenceAfter(i)]
      BY <2>2 DEF Dismiss, HardErase, SoftDismiss
    <3> QED BY <3>1, <3>2 DEF DismissalInv, TypeOK
  <2>3. CASE Restore(i)
    BY <2>3 DEF Restore, DismissalInv, TypeOK
  <2>4. CASE Unmute(i)
    BY <2>4 DEF Unmute, DismissalInv, TypeOK
  <2>5. CASE UNCHANGED dismissed
    BY <2>5
  <2> QED BY <2>1, <2>2, <2>3, <2>4, <2>5, EvidenceUntouched
<1>2. Spec => [][Kept]_vars
  BY <1>1, DismissalInvariant, PTL DEF Spec
<1> QED BY <1>2 DEF SensitiveTombstonePermanent

---------------------------------------------------------------------------
(* History *)

\* The events l are the history of a memory whose row is r: none without a row, else
\* begun by the creation, with the row as it is at the end.
Describes(r, l) ==
    /\ r = NoRow => l = <<>>
    /\ r # NoRow => l # <<>> /\ l[Len(l)].snap = SnapshotOf(r)
    /\ \A k \in 2 .. Len(l) : l[k].kind # "create"

HistoryInv == \A j \in Ids : Describes(row[j], log[j])

LEMMA CreateDescribes ==
    ASSUME NEW r \in Row
    PROVE  Describes(r, <<CreateEvent(r)>>)
BY RowsAreNotNoRow DEF Describes, CreateEvent

LEMMA AppendDescribes ==
    ASSUME NEW l \in Seq(Event), NEW e \in Event, NEW r \in Row, NEW q, Describes(q, l),
           q # NoRow, e.snap = SnapshotOf(r), e.kind # "create"
    PROVE  Describes(r, Append(l, e))
<1>1. /\ Append(l, e) # <<>> /\ Append(l, e)[Len(Append(l, e))] = e
      /\ Len(Append(l, e)) = Len(l) + 1 /\ Len(l) \in Nat
      /\ \A k \in 1 .. Len(l) : Append(l, e)[k] = l[k]
  OBVIOUS
<1>2. \A k \in 2 .. Len(l) + 1 : k = Len(l) + 1 \/ k \in 2 .. Len(l)
  BY <1>1
<1> QED BY <1>1, <1>2, RowsAreNotNoRow DEF Describes

\* A change of a row is never a creation.
LEMMA ChangesAreDescribed ==
    ASSUME NEW q \in Row, NEW r \in Row
    PROVE  \A kind \in {ClassifyChange(q, r), "revert"} :
             /\ ChangeEvent(kind, q, r) \in Event
             /\ ChangeEvent(kind, q, r).snap = SnapshotOf(r)
             /\ ChangeEvent(kind, q, r).kind = kind /\ kind # "create"
BY EventTypes DEF ChangeEvent, ClassifyChange

LEMMA UpdateRowsDescribes ==
    ASSUME NEW base \in [Ids -> Table], NEW logs \in [Ids -> Seq(Event)],
           NEW next \in [Ids -> Table],
           \A j \in Ids : next[j] # base[j] => base[j] \in Row /\ next[j] \in Row,
           \A j \in Ids : Describes(base[j], logs[j]),
           UpdateRows(base, logs, next)
    PROVE  \A j \in Ids : Describes(row'[j], log'[j])
<1> SUFFICES ASSUME NEW j \in Ids PROVE Describes(row'[j], log'[j])
  OBVIOUS
<1>1. CASE next[j] = base[j]
  BY <1>1 DEF UpdateRows
<1>2. CASE next[j] # base[j]
  <2> DEFINE e == ChangeEvent(ClassifyChange(base[j], next[j]), base[j], next[j])
  <2>1. e \in Event /\ e.snap = SnapshotOf(next[j]) /\ e.kind # "create"
    BY <1>2, ChangesAreDescribed
  <2>2. row'[j] = next[j] /\ log'[j] = Append(logs[j], e)
    BY <1>2 DEF UpdateRows
  <2>3. base[j] # NoRow /\ Describes(base[j], logs[j]) /\ logs[j] \in Seq(Event)
    BY <1>2, RowsAreNotNoRow
  <2> HIDE DEF e
  <2> QED BY <1>2, <2>1, <2>2, <2>3, AppendDescribes
<1> QED BY <1>1, <1>2

\* A transaction that updates the rows as they are keeps the history.
LEMMA UpdatesDescribe ==
    ASSUME DismissalInv, HistoryInv, NEW next \in [Ids -> Table],
           \A j \in Ids : next[j] # row[j] => row[j] \in Row /\ next[j] \in Row,
           UpdateRows(row, log, next)
    PROVE  HistoryInv'
<1>1. row \in [Ids -> Table] /\ log \in [Ids -> Seq(Event)]
  BY DEF DismissalInv, TypeOK, Table
<1> QED BY <1>1, UpdateRowsDescribes DEF HistoryInv

LEMMA UpdateDescribes ==
    ASSUME DismissalInv, HistoryInv, NEW i \in Ids, NEW q \in Row, Update(i, q)
    PROVE  HistoryInv'
<1> DEFINE new == [q EXCEPT !.version = VersionAfter(row[i], q)]
           next == [row EXCEPT ![i] = new]
<1>1. row[i] \in Row /\ row \in [Ids -> Table]
  BY RowsAreNotNoRow DEF Update, Exists, DismissalInv, TypeOK, Table
<1>2. new \in Row
  BY <1>1, VersionType DEF Update
<1> HIDE DEF new
<1>3. next \in [Ids -> Table]
  BY <1>1, <1>2 DEF Table
<1>4. \A j \in Ids : next[j] # row[j] => row[j] \in Row /\ next[j] \in Row
  BY <1>1, <1>2
<1>5. UpdateRows(row, log, next)
  BY DEF Update, new
<1> HIDE DEF next
<1> QED BY <1>3, <1>4, <1>5, UpdatesDescribe

LEMMA StatusUpdateDescribes ==
    ASSUME DismissalInv, HistoryInv, NEW i \in Ids, NEW s \in Statuses,
           Update(i, WithStatus(row[i], s))
    PROVE  HistoryInv'
<1>1. row[i] \in Row
  BY RowsAreNotNoRow DEF Update, Exists, DismissalInv, TypeOK, Table
<1> QED BY <1>1, WithStatusType, UpdateDescribes

\* A new memory begins its history with its creation.
LEMMA InsertDescribes ==
    ASSUME DismissalInv, HistoryInv, NEW n \in Ids, NEW r \in Row, IsNextId(n), Insert(n, r)
    PROVE  HistoryInv'
<1>1. row[n] = NoRow /\ log[n] = <<>>
  BY DEF IsNextId, Used, Exists, HistoryInv, Describes
<1>2. Append(log[n], CreateEvent(r)) = <<CreateEvent(r)>>
  BY <1>1
<1>3. /\ row'[n] = r /\ log'[n] = <<CreateEvent(r)>>
      /\ \A j \in Ids \ {n} : row'[j] = row[j] /\ log'[j] = log[j]
  BY <1>2 DEF Insert, DismissalInv, TypeOK
<1> QED BY <1>3, CreateDescribes DEF HistoryInv

LEMMA CreationsDescribe ==
    ASSUME DismissalInv, HistoryInv, NEW n \in Ids,
           \/ \E t \in Texts, sc \in Scopes, s \in Born, sens \in Marks :
                 CreateMemory(n, t, sc, s, sens)
           \/ Propositions(n)
    PROVE  HistoryInv'
<1>1. ASSUME NEW t \in Texts, NEW sc \in Scopes, NEW s \in Born, NEW b \in Marks,
             CreateMemory(n, t, sc, s, b)
      PROVE  HistoryInv'
  <2>1. NewRow(t, sc, s, b) \in Row
    BY NewRowType, BoundsAssumption
  <2>2. IsNextId(n) /\ Insert(n, NewRow(t, sc, s, b))
    BY <1>1 DEF CreateMemory
  <2> QED BY <2>1, <2>2, InsertDescribes
<1>2. CASE Propositions(n)
  <2>1. PICK t \in Ids, text \in Texts, sens \in Marks :
          \/ \E expected \in Texts, competing \in BOOLEAN :
                ProposeRevision(n, t, expected, competing, text, sens)
          \/ \E u \in Ids : ProposeMerge(n, t, u, text, sens)
    BY <1>2 DEF Propositions
  <2>2. row[t].status = "active"
    BY <2>1 DEF ProposeRevision, ProposeMerge
  <2>3. row[t] \in Row
    BY <2>2, PendingIsRow DEF DismissalInv, Statuses
  <2>4. NewRow(text, row[t].scope, "candidate", sens) \in Row
    BY <2>3, NewRowType, BoundsAssumption DEF Row, Statuses
  <2>5. IsNextId(n) /\ Insert(n, NewRow(text, row[t].scope, "candidate", sens))
    BY <2>1 DEF ProposeRevision, ProposeMerge, Propose
  <2> QED BY <2>4, <2>5, InsertDescribes
<1> QED BY <1>1, <1>2

\* A draft put in a candidate's place is what its history then begins with.
LEMMA DraftDescribes ==
    ASSUME DismissalInv, HistoryInv, NEW i \in Ids, NEW r \in Row
    PROVE  \A j \in Ids : Describes([row EXCEPT ![i] = r][j], [log EXCEPT ![i] = DraftLog(i, r)][j])
<1>3. Describes(r, DraftLog(i, r))
  BY CreateDescribes DEF DraftLog, HistoryInv
<1>4. row \in [Ids -> Table] /\ log \in [Ids -> Seq(Event)]
  BY DEF DismissalInv, TypeOK, Table
<1> SUFFICES ASSUME NEW j \in Ids
             PROVE  Describes([row EXCEPT ![i] = r][j], [log EXCEPT ![i] = DraftLog(i, r)][j])
  OBVIOUS
<1>5. CASE j = i
  <2>1. [row EXCEPT ![i] = r][j] = r /\ [log EXCEPT ![i] = DraftLog(i, r)][j] = DraftLog(i, r)
    BY <1>4, <1>5
  <2> QED BY <1>3, <2>1
<1>6. CASE j # i
  <2>1. [row EXCEPT ![i] = r][j] = row[j] /\ [log EXCEPT ![i] = DraftLog(i, r)][j] = log[j]
    BY <1>4, <1>6
  <2> QED BY <2>1 DEF HistoryInv
<1> QED BY <1>5, <1>6

LEMMA PatchCandidateDescribes ==
    ASSUME DismissalInv, HistoryInv, NEW i \in Ids, NEW t \in Texts, NEW sc \in Scopes,
           NEW b \in BOOLEAN, NEW s \in Statuses, PatchCandidate(i, t, sc, b, s)
    PROVE  HistoryInv'
<1> DEFINE r == Patched(row[i], t, sc, b)
           base == [row EXCEPT ![i] = r]
           logs == [log EXCEPT ![i] = DraftLog(i, r)]
           moved == [base EXCEPT ![i] = WithStatus(r, s)]
<1>1. row[i] \in Row
  BY PendingIsRow DEF PatchCandidate, Pending, DismissalInv, Statuses
<1>2. r \in Row /\ WithStatus(r, s) \in Row /\ DraftLog(i, r) \in Seq(Event)
  BY <1>1, PatchedType, WithStatusType, DraftLogType DEF DismissalInv
<1>3. \A j \in Ids : Describes(base[j], logs[j])
  BY <1>2, DraftDescribes
<1>4. /\ base \in [Ids -> Table] /\ moved \in [Ids -> Table]
      /\ logs \in [Ids -> Seq(Event)]
  BY <1>2 DEF DismissalInv, TypeOK, Table
<1>5. \A j \in Ids : moved[j] # base[j] => base[j] \in Row /\ moved[j] \in Row
  BY <1>1, <1>2 DEF DismissalInv, TypeOK
<1>6. UpdateRows(base, logs, moved) \/ (row' = base /\ log' = logs)
  BY DEF PatchCandidate
<1> HIDE DEF base, logs, moved
<1>7. CASE UpdateRows(base, logs, moved)
  BY <1>3, <1>4, <1>5, <1>7, UpdateRowsDescribes DEF HistoryInv
<1>8. CASE row' = base /\ log' = logs
  BY <1>3, <1>8 DEF HistoryInv
<1> QED BY <1>6, <1>7, <1>8

LEMMA AcceptDescribes ==
    ASSUME DismissalInv, HistoryInv, NEW c \in Ids, NEW t \in Texts, NEW sc \in Scopes,
           NEW b \in BOOLEAN, AcceptRevision(c, t, sc, b)
    PROVE  HistoryInv'
<1> DEFINE r == Patched(row[c], t, sc, b)
           base == [row EXCEPT ![c] = r]
           logs == [log EXCEPT ![c] = DraftLog(c, r)]
           next == [j \in Ids |-> IF j = c THEN WithStatus(r, "active")
                                  ELSE IF j \in ReplacedBy(c) THEN WithStatus(row[j], "archived")
                                  ELSE row[j]]
<1>1. row[c] \in Row
  BY PendingIsRow DEF AcceptRevision, Pending, DismissalInv, Statuses
<1>2. r \in Row /\ WithStatus(r, "active") \in Row /\ DraftLog(c, r) \in Seq(Event)
  BY <1>1, PatchedType, WithStatusType, DraftLogType DEF DismissalInv, Statuses
<1>3. \A j \in ReplacedBy(c) : row[j] \in Row /\ WithStatus(row[j], "archived") \in Row
  <2> SUFFICES ASSUME NEW j \in revises[c]
               PROVE  row[j] \in Row /\ WithStatus(row[j], "archived") \in Row
    BY DEF ReplacedBy
  <2>1. j \in Ids /\ row[j].status = "active"
    BY DEF DismissalInv, TypeOK, AcceptRevision, ReviewHolds
  <2>2. row[j] \in Row
    BY <2>1, PendingIsRow DEF DismissalInv, Statuses
  <2> QED BY <2>2, WithStatusType DEF Statuses
<1>4. \A j \in Ids : Describes(base[j], logs[j])
  BY <1>2, DraftDescribes
<1>5. /\ base \in [Ids -> Table] /\ next \in [Ids -> Table]
      /\ logs \in [Ids -> Seq(Event)]
  BY <1>2, <1>3 DEF DismissalInv, TypeOK, Table
<1>6. \A j \in Ids : next[j] # base[j] => base[j] \in Row /\ next[j] \in Row
  BY <1>1, <1>2, <1>3 DEF DismissalInv, TypeOK
<1>7. UpdateRows(base, logs, next)
  BY DEF AcceptRevision
<1> HIDE DEF base, logs, next
<1> QED BY <1>4, <1>5, <1>6, <1>7, UpdateRowsDescribes DEF HistoryInv

LEMMA PatchesDescribe ==
    ASSUME DismissalInv, HistoryInv, NEW i \in Ids, Patches(i)
    PROVE  HistoryInv'
<1>1. PICK t \in Texts, sc \in Scopes, b \in Marks :
        \/ \E s \in Statuses : PatchCandidate(i, t, sc, b, s)
        \/ AcceptRevision(i, t, sc, b)
        \/ AcceptReviewedSensitive(i, t, sc)
        \/ \E s \in Statuses : PatchMemory(i, t, sc, b, s)
  BY DEF Patches
<1>2. b \in BOOLEAN
  BY BoundsAssumption
<1>3. CASE \E s \in Statuses : PatchCandidate(i, t, sc, b, s)
  BY <1>2, <1>3, PatchCandidateDescribes
<1>4. CASE AcceptRevision(i, t, sc, b) \/ AcceptReviewedSensitive(i, t, sc)
  BY <1>2, <1>4, AcceptDescribes DEF AcceptReviewedSensitive
<1>5. CASE \E s \in Statuses : PatchMemory(i, t, sc, b, s)
  <2>1. PICK s \in Statuses : PatchMemory(i, t, sc, b, s)
    BY <1>5
  <2>2. Update(i, WithStatus(Patched(row[i], t, sc, b), s))
    BY <2>1 DEF PatchMemory
  <2>3. row[i] \in Row
    BY <2>2, RowsAreNotNoRow DEF Update, Exists, DismissalInv, TypeOK, Table
  <2>4. WithStatus(Patched(row[i], t, sc, b), s) \in Row
    BY <1>2, <2>3, PatchedType, WithStatusType
  <2> QED BY <2>2, <2>4, UpdateDescribes
<1> QED BY <1>1, <1>3, <1>4, <1>5

LEMMA AutoApplyDescribes ==
    ASSUME DismissalInv, HistoryInv, NEW c \in Ids, AutoApply(c)
    PROVE  HistoryInv'
<1>1. CASE revises[c] # {}
  <2>1. AcceptRevision(c, row[c].text, row[c].scope, FALSE)
    BY <1>1 DEF AutoApply
  <2>2. row[c] \in Row
    BY PendingIsRow DEF AutoApply, Pending, DismissalInv, Statuses
  <2>3. row[c].text \in Texts /\ row[c].scope \in Scopes
    BY <2>2 DEF Row
  <2> QED BY <2>1, <2>3, AcceptDescribes
<1>2. CASE revises[c] = {}
  BY <1>2, StatusUpdateDescribes DEF AutoApply, Statuses
<1> QED BY <1>1, <1>2

\* A dismissal that keeps the text, and its restoration, change one status.
LEMMA OneStatusDescribes ==
    ASSUME DismissalInv, HistoryInv, NEW i \in Ids, NEW s \in Statuses,
           row[i].status \in Statuses,
           UpdateRows(row, log, [row EXCEPT ![i] = WithStatus(@, s)])
    PROVE  HistoryInv'
<1> DEFINE next == [row EXCEPT ![i] = WithStatus(@, s)]
<1>1. row[i] \in Row /\ WithStatus(row[i], s) \in Row
  BY PendingIsRow, WithStatusType DEF DismissalInv
<1>2. row \in [Ids -> Table] /\ next \in [Ids -> Table]
  BY <1>1 DEF DismissalInv, TypeOK, Table
<1>3. \A j \in Ids : next[j] # row[j] => row[j] \in Row /\ next[j] \in Row
  BY <1>1, <1>2
<1>4. UpdateRows(row, log, next)
  OBVIOUS
<1> HIDE DEF next
<1> QED BY <1>2, <1>3, <1>4, UpdatesDescribe

LEMMA DismissDescribes ==
    ASSUME DismissalInv, HistoryInv, NEW i \in Ids, Dismiss(i)
    PROVE  HistoryInv'
<1>1. CASE HardErase(i)
  <2>1. /\ row'[i] = NoRow
        /\ \A j \in Ids \ {i} : row'[j] = row[j] /\ log'[j] = log[j]
    BY <1>1 DEF HardErase, DismissalInv, TypeOK
  <2>2. row[i] # NoRow /\ log'[i] = <<>>
    BY <1>1, FreshEvidence, RowsAreNotNoRow DEF HardErase, DismissalInv, TypeOK, Dismiss
  <2>3. Describes(NoRow, <<>>)
    BY DEF Describes
  <2> QED BY <2>1, <2>2, <2>3 DEF HistoryInv
<1>2. CASE SoftDismiss(i)
  BY <1>2, OneStatusDescribes DEF SoftDismiss, Dismiss, Pending, Statuses
<1> QED BY <1>1, <1>2 DEF Dismiss

LEMMA RevertDescribes ==
    ASSUME DismissalInv, HistoryInv, NEW i \in Ids, RevertAutoAccept(i)
    PROVE  HistoryInv'
<1> DEFINE back == TakenBack(i)
           next == [j \in Ids |-> IF j = i THEN WithStatus(row[j], "candidate")
                                  ELSE IF j \in back THEN WithStatus(row[j], "active")
                                  ELSE row[j]]
<1>1. row[i] \in Row /\ WithStatus(row[i], "candidate") \in Row
  BY PendingIsRow, WithStatusType DEF RevertAutoAccept, DismissalInv, Statuses
<1>2. \A j \in back : row[j] \in Row /\ WithStatus(row[j], "active") \in Row
  <2> SUFFICES ASSUME NEW j \in back
               PROVE  row[j] \in Row /\ WithStatus(row[j], "active") \in Row
    OBVIOUS
  <2>1. j \in Ids /\ row[j].status = "archived"
    BY DEF TakenBack, DismissalInv, TypeOK
  <2> QED BY <2>1, PendingIsRow, WithStatusType DEF DismissalInv, Statuses
<1>3. row \in [Ids -> Table] /\ next \in [Ids -> Table]
  BY <1>1, <1>2 DEF DismissalInv, TypeOK, Table
<1>4. \A j \in Ids : next[j] # row[j] => row[j] \in Row /\ next[j] \in Row
  BY <1>1, <1>2
<1>5. UpdateRows(row, log, next)
  BY DEF RevertAutoAccept
<1> HIDE DEF next
<1> QED BY <1>3, <1>4, <1>5, UpdatesDescribe

\* The restored snapshot is the newest event's.
LEMMA RollbackDescribes ==
    ASSUME DismissalInv, HistoryInv, NEW i \in Ids, NEW k \in 1 .. Len(log[i]),
           Rollback(i, k)
    PROVE  HistoryInv'
<1> DEFINE snap == log[i][k].snap
           new == [row[i] EXCEPT !.text = snap.text, !.scope = snap.scope,
                                 !.status = snap.status,
                                 !.version = VersionAfter(row[i], snap)]
<1>1. row' = [row EXCEPT ![i] = new]
      /\ log' = [log EXCEPT ![i] = Append(@, ChangeEvent("revert", row[i], new))]
  BY DEF Rollback
<1>2. DismissalInv'
  BY RollbackPreserves
<1>3. row \in [Ids -> Table] /\ log \in [Ids -> Seq(Event)]
  BY DEF DismissalInv, TypeOK, Table
<1> HIDE DEF new
<1>4. row'[i] = new /\ log'[i] = Append(log[i], ChangeEvent("revert", row[i], new))
      /\ \A j \in Ids \ {i} : row'[j] = row[j] /\ log'[j] = log[j]
  BY <1>1, <1>3
<1>5. row[i] \in Row
  BY RowsAreNotNoRow DEF Rollback, Exists, DismissalInv, TypeOK, Table
<1>6. new \in Row \cup {NoRow}
  BY <1>2, <1>4 DEF DismissalInv, TypeOK
<1>7. CASE new \in Row
  <2>1. /\ ChangeEvent("revert", row[i], new) \in Event
        /\ ChangeEvent("revert", row[i], new).snap = SnapshotOf(new)
        /\ ChangeEvent("revert", row[i], new).kind # "create"
    BY <1>5, <1>7, ChangesAreDescribed
  <2>2. row[i] # NoRow /\ Describes(row[i], log[i]) /\ log[i] \in Seq(Event)
    BY <1>3, <1>5, RowsAreNotNoRow DEF HistoryInv
  <2>3. Describes(row'[i], log'[i])
    BY <1>4, <1>7, <2>1, <2>2, AppendDescribes
  <2> QED BY <1>4, <2>3 DEF HistoryInv
<1>8. new # NoRow
  BY <1>5 DEF new, Row, NoRow
<1> QED BY <1>6, <1>7, <1>8

LEMMA NextDescribes ==
    ASSUME DismissalInv, HistoryInv, [Next]_vars
    PROVE  HistoryInv'
<1>1. CASE UNCHANGED vars
  BY <1>1 DEF vars, HistoryInv
<1>2. CASE Next
  <2>1. PICK i \in Ids :
          \/ \E t \in Texts, sc \in Scopes, s \in Born, sens \in Marks :
                CreateMemory(i, t, sc, s, sens)
          \/ Propositions(i) \/ Patches(i) \/ AutoApply(i) \/ Archive(i)
          \/ Dismiss(i) \/ Restore(i) \/ Unmute(i) \/ RevertAutoAccept(i)
          \/ \E k \in 1 .. Len(log[i]) : Rollback(i, k)
    BY <1>2 DEF Next
  <2>2. CASE \/ \E t \in Texts, sc \in Scopes, s \in Born, sens \in Marks :
                   CreateMemory(i, t, sc, s, sens)
             \/ Propositions(i)
    BY <2>2, CreationsDescribe
  <2>3. CASE Patches(i)
    BY <2>3, PatchesDescribe
  <2>4. CASE AutoApply(i)
    BY <2>4, AutoApplyDescribes
  <2>5. CASE Archive(i)
    BY <2>5, StatusUpdateDescribes DEF Archive, Statuses
  <2>6. CASE Dismiss(i)
    BY <2>6, DismissDescribes
  <2>7. CASE Restore(i)
    BY <2>7, OneStatusDescribes DEF Restore, Statuses
  <2>8. CASE Unmute(i)
    BY <2>8 DEF Unmute, HistoryInv
  <2>9. CASE RevertAutoAccept(i)
    BY <2>9, RevertDescribes
  <2>10. CASE \E k \in 1 .. Len(log[i]) : Rollback(i, k)
    BY <2>10, RollbackDescribes
  <2> QED BY <2>1, <2>2, <2>3, <2>4, <2>5, <2>6, <2>7, <2>8, <2>9, <2>10
<1> QED BY <1>1, <1>2

\* Every history is begun by a creation and ends with the memory as it is.
THEOREM HistoryInvariant == Spec => []HistoryInv
<1>1. Init => HistoryInv
  BY DEF Init, HistoryInv, Describes
<1>2. DismissalInv /\ HistoryInv /\ [Next]_vars => HistoryInv'
  BY NextDescribes
<1> QED BY <1>1, <1>2, DismissalInvariant, PTL DEF Spec

\* Whatever is created, edited, accepted, dismissed, restored, reverted or rolled back,
\* and by whichever caller, the newest event of every memory describes it as it is.
THEOREM HistoryIsComplete == Spec => []HistoryDescribesRow
<1>1. HistoryInv => HistoryDescribesRow
  BY DEF HistoryInv, Describes, HistoryDescribesRow, Exists
<1> QED BY <1>1, HistoryInvariant, PTL

---------------------------------------------------------------------------
(* Acceptances and their revert *)

LEMMA AcceptReplaces ==
    ASSUME DismissalInv, NEW i \in Ids, NEW t, NEW sc, NEW b, AcceptRevision(i, t, sc, b),
           NEW c \in Ids, Pending(c), row'[c].status = "active", NEW x \in revises[c]
    PROVE  /\ row'[x].status = "archived"
           /\ \E m \in reviewed[c] : m.id = x /\ SameClaim(m, row[x])
<1>1. x \in Ids
  BY DEF DismissalInv, TypeOK
<1>2. row' = [j \in Ids |-> IF j = i THEN WithStatus(Patched(row[i], t, sc, b), "active")
                            ELSE IF j \in ReplacedBy(i) THEN WithStatus(row[j], "archived")
                            ELSE row[j]]
  BY DEF AcceptRevision, UpdateRows
<1>3. c = i
  <2> SUFFICES ASSUME c # i PROVE FALSE
    OBVIOUS
  <2>1. row[c] \in Row
    BY PendingIsRow DEF Pending, DismissalInv, Statuses
  <2>2. row'[c] = WithStatus(row[c], "archived") \/ row'[c] = row[c]
    BY <1>2
  <2> QED BY <2>1, <2>2, WithStatusType DEF Pending, Statuses
<1>4. row[x].status = "active" /\ x # i
  BY <1>3 DEF AcceptRevision, ReviewHolds, Pending
<1>5. row[x] \in Row
  BY <1>1, <1>4, PendingIsRow DEF DismissalInv, Statuses
<1>6. row'[x].status = "archived"
  BY <1>1, <1>2, <1>3, <1>4, <1>5, WithStatusType DEF ReplacedBy, Statuses
<1>7. ReviewOf(x) \in reviewed[c] /\ ReviewOf(x).id = x /\ SameClaim(ReviewOf(x), row[x])
  BY <1>3 DEF AcceptRevision, ReviewHolds, ReviewOf, SameClaim
<1> QED BY <1>6, <1>7

\* An update of one memory moves no other.
LEMMA UpdateMovesOne ==
    ASSUME DismissalInv, NEW i \in Ids, NEW q \in Row, Update(i, q), NEW c \in Ids
    PROVE  /\ c # i => row'[c] = row[c]
           /\ row'[i].status = q.status
BY DEF Update, UpdateRows, DismissalInv, TypeOK, Row

\* A candidate becomes active with a status event only by an acceptance, and that one
\* archives exactly what its reviewed snapshots describe.
THEOREM AcceptanceReplacesTheReviewed == Spec => AcceptReplacesWhatWasReviewed
<1> DEFINE Reviewing ==
      \A c \in Ids :
          /\ Pending(c) /\ row'[c].status = "active"
          /\ log'[c][Len(log'[c])].kind = "status"
          => \A t \in revises[c] :
               /\ row'[t].status = "archived"
               /\ \E m \in reviewed[c] : m.id = t /\ SameClaim(m, row[t])
<1>1. DismissalInv /\ [Next]_vars => [Reviewing]_vars
  <2> SUFFICES ASSUME DismissalInv, Next, NEW c \in Ids, Pending(c),
                      row'[c].status = "active", log'[c][Len(log'[c])].kind = "status",
                      NEW x \in revises[c]
               PROVE  /\ row'[x].status = "archived"
                      /\ \E m \in reviewed[c] : m.id = x /\ SameClaim(m, row[x])
    OBVIOUS
  <2>1. PICK i \in Ids :
          \/ \E t \in Texts, sc \in Scopes, s \in Born, sens \in Marks :
                CreateMemory(i, t, sc, s, sens)
          \/ Propositions(i) \/ Patches(i) \/ AutoApply(i) \/ Archive(i)
          \/ Dismiss(i) \/ Restore(i) \/ Unmute(i) \/ RevertAutoAccept(i)
          \/ \E k \in 1 .. Len(log[i]) : Rollback(i, k)
    BY DEF Next
  <2>2. /\ row[c] \in Row /\ row \in [Ids -> Row \cup {NoRow}]
        /\ log \in [Ids -> Seq(Event)]
    BY PendingIsRow DEF Pending, DismissalInv, TypeOK, Statuses
  <2>3. ASSUME NEW r, Insert(i, r), IsNextId(i) PROVE FALSE
    <3>1. c # i
      BY <2>2, <2>3, RowsAreNotNoRow DEF IsNextId, Used, Exists
    <3> QED BY <2>2, <2>3, <3>1 DEF Insert, Pending
  <2>4. CASE (\E t \in Texts, sc \in Scopes, s \in Born, sens \in Marks :
                CreateMemory(i, t, sc, s, sens)) \/ Propositions(i)
    BY <2>3, <2>4 DEF CreateMemory, Propositions, ProposeRevision, ProposeMerge, Propose
  <2>5. ASSUME NEW s \in Statuses, s # "active", UpdateRows(row, log, [row EXCEPT ![i] = WithStatus(@, s)]),
               row[i] \in Row
        PROVE  FALSE
    <3>1. row'[c] = row[c] \/ row'[c] = WithStatus(row[c], s)
      BY <2>2, <2>5 DEF UpdateRows
    <3> QED BY <2>2, <2>5, <3>1, WithStatusType DEF Pending
  <2>6. CASE Patches(i)
    <3>1. PICK t \in Texts, sc \in Scopes, b \in Marks :
            \/ \E s \in Statuses : PatchCandidate(i, t, sc, b, s)
            \/ AcceptRevision(i, t, sc, b)
            \/ AcceptReviewedSensitive(i, t, sc)
            \/ \E s \in Statuses : PatchMemory(i, t, sc, b, s)
      BY <2>6 DEF Patches
    <3>2. b \in BOOLEAN
      BY BoundsAssumption
    <3>3. ASSUME NEW s \in Statuses, PatchCandidate(i, t, sc, b, s) PROVE FALSE
      <4> DEFINE r == Patched(row[i], t, sc, b)
      <4>1. row[i] \in Row /\ row[i].status = "candidate" /\ s # "active"
        BY <3>3, PendingIsRow DEF PatchCandidate, Pending, DismissalInv, Statuses
      <4>2. r \in Row /\ r.status = "candidate" /\ WithStatus(r, s).status = s
        BY <3>2, <4>1, PatchedType, WithStatusType
      <4>3. row'[c] = row[c] \/ row'[c] = r \/ row'[c] = WithStatus(r, s)
        <5> HIDE DEF r
        <5>1. row' = [row EXCEPT ![i] = r]
              \/ row' = [[row EXCEPT ![i] = r] EXCEPT ![i] = WithStatus(r, s)]
          BY <3>3 DEF PatchCandidate, UpdateRows, r
        <5> QED BY <2>2, <5>1
      <4> QED BY <4>1, <4>2, <4>3 DEF Pending
    <3>4. ASSUME NEW s \in Statuses, PatchMemory(i, t, sc, b, s) PROVE FALSE
      <4>1. ~Pending(i) /\ Update(i, WithStatus(Patched(row[i], t, sc, b), s))
        BY <3>4 DEF PatchMemory
      <4>2. row[i] \in Row
        BY <4>1, RowsAreNotNoRow DEF Update, Exists, DismissalInv, TypeOK, Table
      <4>3. WithStatus(Patched(row[i], t, sc, b), s) \in Row
        BY <3>2, <4>2, PatchedType, WithStatusType
      <4> QED BY <4>1, <4>3, UpdateMovesOne DEF Pending
    <3>5. CASE AcceptRevision(i, t, sc, b) \/ AcceptReviewedSensitive(i, t, sc)
      BY <3>5, AcceptReplaces DEF AcceptReviewedSensitive
    <3> QED BY <3>1, <3>3, <3>4, <3>5
  <2>7. CASE AutoApply(i)
    <3>1. CASE revises[i] # {}
      BY <2>7, <3>1, AcceptReplaces DEF AutoApply
    <3>2. CASE revises[i] = {}
      <4>1. Update(i, WithStatus(row[i], "active")) /\ Pending(i)
        BY <2>7, <3>2 DEF AutoApply
      <4>2. WithStatus(row[i], "active") \in Row
        BY <4>1, PendingIsRow, WithStatusType DEF Pending, DismissalInv, Statuses
      <4> QED BY <3>2, <4>1, <4>2, UpdateMovesOne DEF Pending
    <3> QED BY <3>1, <3>2
  <2>8. CASE Archive(i)
    <3>1. Update(i, WithStatus(row[i], "archived"))
      BY <2>8 DEF Archive
    <3>2. row[i] \in Row
      BY <3>1, RowsAreNotNoRow DEF Update, Exists, DismissalInv, TypeOK, Table
    <3>3. WithStatus(row[i], "archived") \in Row /\ WithStatus(row[i], "archived").status = "archived"
      BY <3>2, WithStatusType DEF Statuses
    <3> QED BY <3>1, <3>3, UpdateMovesOne DEF Pending
  <2>9. CASE Dismiss(i)
    <3>1. CASE HardErase(i)
      BY <2>2, <3>1 DEF HardErase, Pending, NoRow
    <3>2. CASE SoftDismiss(i)
      BY <2>5, <2>9, <3>2, PendingIsRow DEF SoftDismiss, Dismiss, Pending, DismissalInv, Statuses
    <3> QED BY <2>9, <3>1, <3>2 DEF Dismiss
  <2>10. CASE Restore(i)
    BY <2>5, <2>10, PendingIsRow DEF Restore, DismissalInv, Statuses
  <2>11. CASE Unmute(i)
    BY <2>11 DEF Unmute, Pending
  <2>12. CASE RevertAutoAccept(i)
    <3>1. row' = [j \in Ids |-> IF j = i THEN WithStatus(row[j], "candidate")
                                ELSE IF j \in TakenBack(i) THEN WithStatus(row[j], "active")
                                ELSE row[j]]
      BY <2>12 DEF RevertAutoAccept, UpdateRows
    <3>2. row[i].status = "active" /\ c \notin TakenBack(i)
      BY <2>12 DEF RevertAutoAccept, TakenBack, Pending
    <3> QED BY <3>1, <3>2 DEF Pending
  <2>13. CASE \E k \in 1 .. Len(log[i]) : Rollback(i, k)
    <3>1. PICK k \in 1 .. Len(log[i]) : Rollback(i, k)
      BY <2>13
    <3>2. CASE c # i
      BY <2>2, <3>1, <3>2 DEF Rollback, Pending
    <3>3. CASE c = i
      <4>1. PICK new : log' = [log EXCEPT ![i] = Append(@, ChangeEvent("revert", row[i], new))]
        BY <3>1 DEF Rollback
      <4>2. ChangeEvent("revert", row[i], new).kind = "revert"
        BY DEF ChangeEvent
      <4>3. log'[c] = Append(log[c], ChangeEvent("revert", row[i], new))
        BY <2>2, <3>3, <4>1
      <4>4. log'[c][Len(log'[c])] = ChangeEvent("revert", row[i], new)
        BY <2>2, <4>3
      <4> QED BY <4>2, <4>4
    <3> QED BY <3>2, <3>3
  <2> QED BY <2>1, <2>4, <2>6, <2>7, <2>8, <2>9, <2>10, <2>11, <2>12, <2>13
<1>2. Spec => [][Reviewing]_vars
  BY <1>1, DismissalInvariant, PTL DEF Spec
<1> QED BY <1>2 DEF AcceptReplacesWhatWasReviewed

\* The newest status event, when there is one.
LEMMA LastStatusIsNewest ==
    ASSUME NEW l \in Seq(Event), LastStatus(l) # 0
    PROVE  /\ LastStatus(l) \in 1 .. Len(l)
           /\ l[LastStatus(l)].kind = "status"
           /\ \A k \in LastStatus(l) + 1 .. Len(l) : l[k].kind # "status"
<1> DEFINE at == {k \in 1 .. Len(l) : l[k].kind = "status"}
           left == {Len(l) - k : k \in at}
<1>1. Len(l) \in Nat
  OBVIOUS
<1>2. at # {} /\ LastStatus(l) = CHOOSE k \in at : \A m \in at : m <= k
  BY DEF LastStatus
<1>3. \E k \in at : \A m \in at : m <= k
  <2>1. left \subseteq Nat /\ left # {}
    BY <1>1, <1>2
  <2>2. PICK d \in left : \A e \in left : ~(<<e, d>> \in OpToRel(<, Nat))
    <3> HIDE DEF left
    <3> QED BY <2>1, NatLessThanWellFounded, WFMin
  <2>3. PICK k \in at : d = Len(l) - k
    BY <2>2
  <2>4. ASSUME NEW m \in at PROVE m <= k
    <3>1. m \in Nat /\ k \in Nat /\ m <= Len(l) /\ k <= Len(l)
      BY <1>1
    <3>2. Len(l) - m \in left /\ Len(l) - m \in Nat /\ d \in Nat
      BY <1>1, <2>3, <3>1
    <3>3. ~(Len(l) - m < d)
      BY <2>2, <3>2 DEF OpToRel
    <3> QED BY <1>1, <2>3, <3>1, <3>3
  <2> HIDE DEF at
  <2> QED BY <2>4
<1>4. LastStatus(l) \in at /\ \A m \in at : m <= LastStatus(l)
  <2> HIDE DEF at
  <2> QED BY <1>2, <1>3
<1>5. ASSUME NEW k \in LastStatus(l) + 1 .. Len(l) PROVE l[k].kind # "status"
  BY <1>1, <1>4, <1>5
<1> QED BY <1>4, <1>5

\* No proposal revises itself.
RevisesOthers == \A i \in Ids : i \notin revises[i]

LEMMA NextRevisesOthers ==
    ASSUME DismissalInv, RevisesOthers, [Next]_vars
    PROVE  RevisesOthers'
<1>1. CASE UNCHANGED revises
  BY <1>1 DEF RevisesOthers
<1>2. ASSUME NEW n \in Ids, Propositions(n) PROVE RevisesOthers'
  <2>1. PICK t \in Ids, text \in Texts, sens \in Marks :
          \/ \E expected \in Texts, competing \in BOOLEAN :
                ProposeRevision(n, t, expected, competing, text, sens)
          \/ \E u \in Ids : ProposeMerge(n, t, u, text, sens)
    BY <1>2 DEF Propositions
  <2>2. PICK targets \in SUBSET Ids :
          /\ \A x \in targets : row[x].status = "active"
          /\ IsNextId(n) /\ revises' = [revises EXCEPT ![n] = targets]
    <3>1. CASE \E expected \in Texts, competing \in BOOLEAN :
                 ProposeRevision(n, t, expected, competing, text, sens)
      <4>1. {t} \in SUBSET Ids
        OBVIOUS
      <4> QED BY <3>1, <4>1 DEF ProposeRevision, Propose
    <3>2. CASE \E u \in Ids : ProposeMerge(n, t, u, text, sens)
      <4>1. PICK u \in Ids : ProposeMerge(n, t, u, text, sens)
        BY <3>2
      <4>2. {t, u} \in SUBSET Ids
        OBVIOUS
      <4> QED BY <4>1, <4>2 DEF ProposeMerge, Propose
    <3> QED BY <2>1, <3>1, <3>2
  <2>3. row[n] = NoRow
    BY <2>2 DEF IsNextId, Used, Exists
  <2>4. n \notin targets
    BY <2>2, <2>3 DEF NoRow
  <2> QED BY <2>2, <2>4 DEF RevisesOthers, DismissalInv, TypeOK
<1>3. ASSUME NEW i \in Ids, HardErase(i) PROVE RevisesOthers'
  BY <1>3 DEF HardErase, RevisesOthers
<1>4. ASSUME NEW i, NEW q, Update(i, q) PROVE UNCHANGED revises
  BY <1>4 DEF Update
<1>5. ASSUME NEW i, NEW t, NEW sc, NEW b, AcceptRevision(i, t, sc, b) PROVE UNCHANGED revises
  BY <1>5 DEF AcceptRevision
<1>6. ASSUME NEW i \in Ids, Patches(i) PROVE UNCHANGED revises
  <2>1. ASSUME NEW t, NEW sc, NEW b, NEW s, PatchCandidate(i, t, sc, b, s)
        PROVE  UNCHANGED revises
    BY <2>1 DEF PatchCandidate
  <2> QED BY <1>4, <1>5, <1>6, <2>1 DEF Patches, AcceptReviewedSensitive, PatchMemory
<1>7. ASSUME NEW i \in Ids, AutoApply(i) \/ Archive(i) PROVE UNCHANGED revises
  BY <1>4, <1>5, <1>7 DEF AutoApply, Archive
<1>8. ASSUME NEW i \in Ids, SoftDismiss(i) \/ Restore(i) \/ Unmute(i) \/ RevertAutoAccept(i)
      PROVE  UNCHANGED revises
  BY <1>8 DEF SoftDismiss, Restore, Unmute, RevertAutoAccept
<1>9. ASSUME NEW i \in Ids, NEW k \in 1 .. Len(log[i]), Rollback(i, k) PROVE UNCHANGED revises
  BY <1>9 DEF Rollback
<1>10. ASSUME NEW i \in Ids, NEW t \in Texts, NEW sc \in Scopes, NEW s \in Born, NEW b \in Marks,
              CreateMemory(i, t, sc, s, b)
       PROVE  UNCHANGED revises
  BY <1>10 DEF CreateMemory
<1> QED BY <1>1, <1>2, <1>3, <1>6, <1>7, <1>8, <1>9, <1>10 DEF Next, Dismiss, vars

\* A revert brings back what was accepted, or what a rollback put there since, and every
\* target the acceptance archived.
LEMMA RevertUndoes ==
    ASSUME DismissalInv, HistoryInv, RevisesOthers, NEW i \in Ids, RevertAutoAccept(i)
    PROVE  /\ \/ SameClaim(row'[i], log[i][LastStatus(log[i])].snap)
              \/ \E k \in LastStatus(log[i]) + 1 .. Len(log[i]) : log[i][k].kind = "revert"
           /\ \A t \in revises[i] :
                 /\ row'[t].status # "archived"
                 /\ row[t].status \in {"active", "archived"} => row'[t].status = "active"
<1> DEFINE l == log[i]
           last == LastStatus(l)
<1>1. l \in Seq(Event) /\ Len(l) \in Nat
  BY DEF DismissalInv, TypeOK
<1>2. row[i] \in Row /\ row[i].status = "active"
  BY PendingIsRow DEF RevertAutoAccept, DismissalInv, Statuses
<1>3. /\ last \in 1 .. Len(l)
      /\ \A k \in last + 1 .. Len(l) : l[k].kind # "status"
  BY <1>1, LastStatusIsNewest DEF RevertAutoAccept
<1>4. \A k \in last + 1 .. Len(l) : l[k].kind = "revert"
  <2> SUFFICES ASSUME NEW k \in last + 1 .. Len(l) PROVE l[k].kind = "revert"
    OBVIOUS
  <2>1. k \in 2 .. Len(l) /\ l[k] \in Event
    BY <1>1, <1>3
  <2>2. l[k].kind # "create"
    BY <2>1 DEF HistoryInv, Describes
  <2>3. l[k].kind \notin {"edit", "rescope"}
    BY DEF RevertAutoAccept, EditedSince
  <2>4. l[k].kind \in Kinds
    BY <2>1 DEF Event
  <2> QED BY <1>3, <2>2, <2>3, <2>4 DEF Kinds
<1>5. row' = [j \in Ids |-> IF j = i THEN WithStatus(row[j], "candidate")
                            ELSE IF j \in TakenBack(i) THEN WithStatus(row[j], "active")
                            ELSE row[j]]
  BY DEF RevertAutoAccept, UpdateRows
<1>6. \A t \in revises[i] :
         /\ row'[t].status # "archived"
         /\ row[t].status \in {"active", "archived"} => row'[t].status = "active"
  <2> SUFFICES ASSUME NEW t \in revises[i]
               PROVE  /\ row'[t].status # "archived"
                      /\ row[t].status \in {"active", "archived"} => row'[t].status = "active"
    OBVIOUS
  <2>1. t \in Ids /\ t # i
    BY DEF RevisesOthers, DismissalInv, TypeOK
  <2>2. CASE row[t].status = "archived"
    <3>1. row[t] \in Row /\ t \in TakenBack(i)
      BY <2>1, <2>2, PendingIsRow DEF TakenBack, DismissalInv, Statuses
    <3> QED BY <1>5, <2>1, <3>1, WithStatusType DEF Statuses
  <2>3. CASE row[t].status # "archived"
    BY <1>5, <2>1, <2>3 DEF TakenBack
  <2> QED BY <2>2, <2>3
<1>7. CASE last = Len(l)
  <2>1. l[last].snap = SnapshotOf(row[i])
    BY <1>2, <1>7, RowsAreNotNoRow DEF HistoryInv, Describes
  <2>2. SameClaim(row'[i], row[i])
    BY <1>2, <1>5, WithStatusType DEF Statuses
  <2> QED BY <1>6, <2>1, <2>2 DEF SameClaim, SnapshotOf
<1>8. CASE last # Len(l)
  <2>1. Len(l) \in last + 1 .. Len(l)
    BY <1>1, <1>3, <1>8
  <2> QED BY <1>4, <1>6, <2>1
<1> QED BY <1>7, <1>8

\* Reverting an acceptance undoes it alone and as a whole: the text that goes back to
\* review is the accepted one (or what an explicit rollback made of it), every archived
\* target lives again, and with targets nobody touched the review still holds.
THEOREM RevertUndoesAcceptances == Spec => RevertUndoesTheAcceptance
<1> DEFINE Undoing ==
      \A i \in Ids : RevertAutoAccept(i) =>
          /\ \/ SameClaim(row'[i], log[i][LastStatus(log[i])].snap)
             \/ \E k \in LastStatus(log[i]) + 1 .. Len(log[i]) : log[i][k].kind = "revert"
          /\ \A t \in revises[i] : row'[t].status # "archived"
          /\ (\A t \in revises[i] : \E m \in reviewed[i] :
                 /\ m.id = t /\ m.version = row[t].version
                 /\ SameClaim(m, row[t]) /\ row[t].status \in {"active", "archived"})
             => \A t \in revises[i] : row'[t].status = "active"
<1>1. DismissalInv /\ HistoryInv /\ RevisesOthers => Undoing
  <2> SUFFICES ASSUME DismissalInv, HistoryInv, RevisesOthers, NEW i \in Ids, RevertAutoAccept(i)
               PROVE  Undoing!(i)!2
    OBVIOUS
  <2> QED BY RevertUndoes
<1>2. Init => RevisesOthers
  BY DEF Init, RevisesOthers
<1>3. DismissalInv /\ RevisesOthers /\ [Next]_vars => RevisesOthers'
  BY NextRevisesOthers
<1>4. Spec => []RevisesOthers
  BY <1>2, <1>3, DismissalInvariant, PTL DEF Spec
<1>5. Spec => [][Undoing]_vars
  BY <1>1, <1>4, DismissalInvariant, HistoryInvariant, PTL DEF Spec
<1> QED BY <1>5 DEF RevertUndoesTheAcceptance

=============================================================================
