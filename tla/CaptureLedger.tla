--------------------------- MODULE CaptureLedger ---------------------------
(***************************************************************************)
(* routeAndPersist of src/server/memory/capture.ts: the one path by which  *)
(* the prompt parse, the propose tool, the post-turn pass and the branch   *)
(* of one turn turn their observations into memories.  The calls of one    *)
(* (session, turn) share a ledger of in-flight claims, so that a second    *)
(* channel waits for the first one's verdict, and a durable record of the  *)
(* observations already committed.                                         *)
(*                                                                         *)
(* A call runs without interruption between two awaits: while one is in a  *)
(* synchronous stretch nothing else moves (Quiet).  An observation is a    *)
(* fingerprint, that is a text with its scope and owner; Rank orders the   *)
(* scopes session < project < personal.  The call always has a turn        *)
(* number: without one there is neither ledger nor durable record.         *)
(***************************************************************************)
EXTENDS Naturals, Sequences, FiniteSets, FiniteSetsExt

CONSTANTS
    Calls,        \* invocations of routeAndPersist for this turn, each made once
    Abortable,    \* the calls that carry an AbortSignal (prompt parse, branch)
    Branches,     \* the calls whose verdicts come from a branch: no router await
    Obs,          \* the observations the channels extract
    Texts,        \* what a memory may say: an observation, or something else
    Batches,      \* by call, the sequences of observations it may bring
    Rank,         \* the scope of an observation: 1 session, 2 project, 3 personal
    Initial,      \* the memories that exist when the turn starts, by id
    MaxId,        \* bound: memory ids are 1 .. MaxId
    MaxVersion,   \* bound on the content version of a memory
    MaxMoves,     \* bound on what the user does meanwhile
    MaxLedgers,   \* bound: one plus the evictions of this turn's ledger
    Unrecorded,   \* no durable capture operation
    NoMemory      \* an operation that resolved to no memory, an unclaimed entry

Ids      == 1 .. MaxId
Ledgers  == 1 .. MaxLedgers
Absent   == [status |-> "absent"]
Rows     == [text : Texts, rank : 1 .. 3, status : {"candidate", "active", "archived"},
             version : 1 .. MaxVersion]
Verdicts == {"new", "reinforces", "updates", "conflicts", "drop"}

ASSUME CallsAssumption  == Abortable \subseteq Calls /\ Branches \subseteq Calls
ASSUME BatchAssumption  == /\ Obs \subseteq Texts /\ Batches \in [Calls -> SUBSET Seq(Obs)]
                           /\ Rank \in [Obs -> 1 .. 3]
ASSUME BoundsAssumption == /\ MaxId \in Nat /\ MaxVersion \in Nat \ {0}
                           /\ MaxLedgers \in Nat \ {0} /\ MaxMoves \in Nat
                           /\ Initial \in [Ids -> Rows \cup {Absent}]
ASSUME NoneAssumption   == /\ NoMemory \notin Ids \cup Calls
                           /\ Unrecorded \notin Ids \cup {NoMemory}

VARIABLES
    row,         \* memories
    dismissed,   \* observations whose dismissal is recorded
    op,          \* memory_capture_operations: the memory an observation became
    linked,      \* memory_relations: <<new id, the memory it revises or conflicts with>>
    reinforced,  \* how often this turn reinforced a memory
    ledger,      \* the ledger turnLedgerFor returns for this turn
    inFlight,    \* by ledger and observation: the call that holds the claim
    claim,       \* by call and observation: the claim's promise
    pc,          \* where a call is
    book,        \* the ledger a call holds a reference to
    todo,        \* candidates a call has still to claim
    mine,        \* candidates a call routes
    owner,       \* the call whose claim a waiting call awaits
    gate,        \* the memories a call's verdicts are about
    moves,       \* counter of the user's moves
    aborted,     \* calls whose signal was aborted
    effects      \* history: mutations of the store made for an observation

store == <<row, dismissed, op, linked, reinforced, effects, moves>>
claims == <<ledger, inFlight, claim>>
locals == <<book, todo, mine, owner, gate>>
vars == <<store, claims, pc, locals, aborted>>

---------------------------------------------------------------------------
\* The store as a call reads it

Live(r) == r.status \in {"active", "candidate"}

\* existingShortList, and the snapshot of captureFromBranch: the live memories.
ShortList == [m \in Ids |-> IF Live(row[m]) THEN row[m] ELSE Absent]

\* wasMemorySuppressed: a dismissal, or an archived memory with this text.
Suppressed(o) ==
    \/ o \in dismissed
    \/ \E m \in Ids : row[m].status = "archived" /\ row[m].text = o /\ row[m].rank = Rank[o]

\* A live memory the gate did not show that already says exactly this.
Exact(c, o) ==
    {m \in Ids : /\ gate[c][m] = Absent
                 /\ Live(row[m]) /\ row[m].text = o /\ row[m].rank = Rank[o]}

\* nextId: above every id in use, in the table or in a capture operation.
FreshId ==
    Max({0} \cup {m \in Ids : row[m] # Absent} \cup ({op[o] : o \in Obs} \cap Ids)) + 1

CapturedThisTurn(m) == \E o \in Obs : op[o] = m

\* The target still says what the gate saw (the CAS of a verdict).
FreshWithoutSnapshot(c, o, m) == m \in Ids /\ Live(row[m])

Fresh(c, o, m) ==
    \/ m \in Exact(c, o)
    \/ m \in Ids /\ gate[c][m] # Absent /\ gate[c][m] = row[m]

\* What a verdict amounts to once its target is looked at again: a stale target,
\* a target too narrow to absorb the observation and an update across scopes are
\* new observations.
RouteOf(c, o, verdict, m) ==
    IF \/ verdict \in {"reinforces", "updates", "conflicts"} /\ ~Fresh(c, o, m)
       \/ verdict = "reinforces" /\ row[m].rank < Rank[o]
       \/ verdict = "updates" /\ row[m].rank # Rank[o]
    THEN "new" ELSE verdict

---------------------------------------------------------------------------
\* Claims

Quiet == \A c \in Calls : pc[c] \notin {"claiming", "retrying", "deciding", "persisting"}

Owned(c) == {o \in Obs : claim[c][o] = "open"}

SettleLedgerOnly(c, how) ==
    /\ inFlight' = [inFlight EXCEPT ![book[c]] =
                      [o \in Obs |-> IF o \in Owned(c) /\ @[o] = c THEN NoMemory ELSE @[o]]]
    /\ UNCHANGED <<claim, ledger>>

\* Deletes the ledger entries that are still this call's and settles its claims.
Settle(c, how) ==
    /\ inFlight' = [inFlight EXCEPT ![book[c]] =
                      [o \in Obs |-> IF o \in Owned(c) /\ @[o] = c THEN NoMemory ELSE @[o]]]
    /\ claim' = [claim EXCEPT ![c] =
                   [o \in Obs |-> IF o \in Owned(c) THEN how ELSE @[o]]]
    /\ UNCHANGED ledger

End(c, how) ==
    /\ pc' = [pc EXCEPT ![c] = how]
    /\ todo' = [todo EXCEPT ![c] = <<>>]
    /\ mine' = [mine EXCEPT ![c] = <<>>]
    /\ owner' = [owner EXCEPT ![c] = NoMemory]
    /\ gate' = [gate EXCEPT ![c] = [m \in Ids |-> Absent]]
    /\ UNCHANGED book

Init ==
    /\ row = Initial
    /\ dismissed = {}
    /\ op = [o \in Obs |-> Unrecorded]
    /\ linked = {}
    /\ reinforced = [m \in Ids |-> 0]
    /\ effects = [o \in Obs |-> 0]
    /\ moves = 0
    /\ ledger = 1
    /\ inFlight = [l \in Ledgers |-> [o \in Obs |-> NoMemory]]
    /\ claim = [c \in Calls |-> [o \in Obs |-> "none"]]
    /\ pc = [c \in Calls |-> "idle"]
    /\ book = [c \in Calls |-> 1]
    /\ todo = [c \in Calls |-> <<>>]
    /\ mine = [c \in Calls |-> <<>>]
    /\ owner = [c \in Calls |-> NoMemory]
    /\ gate = [c \in Calls |-> [m \in Ids |-> Absent]]
    /\ aborted = {}

---------------------------------------------------------------------------
\* The call

\* A channel brings its batch, having dropped what is suppressed.  A branch's
\* verdicts are about the memories live now (captureFromBranch compares dependency
\* keys); the router is shown the memories live when it is asked.
Begin(c, batch) ==
    /\ Quiet /\ pc[c] = "idle"
    /\ \A i \in 1 .. Len(batch) : ~Suppressed(batch[i])
    /\ pc' = [pc EXCEPT ![c] = "claiming"]
    /\ book' = [book EXCEPT ![c] = ledger]
    /\ todo' = [todo EXCEPT ![c] = batch]
    /\ gate' = [gate EXCEPT ![c] = IF c \in Branches THEN ShortList ELSE @]
    /\ UNCHANGED <<store, claims, mine, owner, aborted>>

Skip(c) ==
    /\ todo' = [todo EXCEPT ![c] = Tail(@)]
    /\ pc' = [pc EXCEPT ![c] = "claiming"]
    /\ UNCHANGED <<store, claims, book, mine, owner, gate, aborted>>

\* Already committed for this turn: a duplicate.  Looked up once per candidate,
\* before the first look at the ledger.
SkipRecorded(c) ==
    /\ pc[c] = "claiming" /\ todo[c] # <<>>
    /\ op[Head(todo[c])] # Unrecorded
    /\ Skip(c)

\* Repeated within the batch: shares this call's claim.
SkipRepeated(c) ==
    /\ pc[c] = "claiming" /\ todo[c] # <<>>
    /\ op[Head(todo[c])] = Unrecorded
    /\ Head(todo[c]) \in Owned(c)
    /\ Skip(c)

MustClaim(c) ==
    /\ pc[c] \in {"claiming", "retrying"} /\ todo[c] # <<>>
    /\ pc[c] = "claiming" => op[Head(todo[c])] = Unrecorded
    /\ Head(todo[c]) \notin Owned(c)

Wait(c) ==
    LET w == inFlight[book[c]][Head(todo[c])]
    IN  /\ MustClaim(c)
        /\ w # NoMemory
        /\ pc' = [pc EXCEPT ![c] = "waiting"]
        /\ owner' = [owner EXCEPT ![c] = w]
        /\ UNCHANGED <<store, claims, book, todo, mine, gate, aborted>>

Claim(c) ==
    LET o == Head(todo[c])
    IN  /\ MustClaim(c)
        /\ inFlight[book[c]][o] = NoMemory
        /\ inFlight' = [inFlight EXCEPT ![book[c]][o] = c]
        /\ claim' = [claim EXCEPT ![c][o] = "open"]
        /\ mine' = [mine EXCEPT ![c] = Append(@, o)]
        /\ todo' = [todo EXCEPT ![c] = Tail(@)]
        /\ pc' = [pc EXCEPT ![c] = "claiming"]
        /\ UNCHANGED <<store, ledger, book, owner, gate, aborted>>

\* The awaited claim settled and the waiting call's turn has come.  An abort is
\* thrown from here, outside the try that releases the claims already made.
Awake(c) ==
    /\ Quiet /\ pc[c] = "waiting"
    /\ claim[owner[c]][Head(todo[c])] \in {"completed", "released"}

WakeAborted(c) ==
    /\ Awake(c) /\ c \in aborted
    /\ End(c, "failed")
    /\ UNCHANGED <<store, claims, aborted>>

WakeDuplicate(c) ==
    /\ Awake(c) /\ c \notin aborted
    /\ claim[owner[c]][Head(todo[c])] = "completed"
    /\ pc' = [pc EXCEPT ![c] = "claiming"]
    /\ todo' = [todo EXCEPT ![c] = Tail(@)]
    /\ owner' = [owner EXCEPT ![c] = NoMemory]
    /\ UNCHANGED <<store, claims, book, mine, gate, aborted>>

WakeRetry(c) ==
    /\ Awake(c) /\ c \notin aborted
    /\ claim[owner[c]][Head(todo[c])] = "released"
    /\ pc' = [pc EXCEPT ![c] = "retrying"]
    /\ owner' = [owner EXCEPT ![c] = NoMemory]
    /\ UNCHANGED <<store, claims, book, todo, mine, gate, aborted>>

\* Every candidate is claimed or a duplicate: nothing to route, or verdicts at
\* hand, or the router is asked about the memories live now.
NothingToRoute(c) ==
    /\ pc[c] = "claiming" /\ todo[c] = <<>> /\ mine[c] = <<>>
    /\ End(c, "done")
    /\ UNCHANGED <<store, claims, aborted>>

Route(c) ==
    /\ pc[c] = "claiming" /\ todo[c] = <<>> /\ mine[c] # <<>>
    /\ pc' = [pc EXCEPT ![c] = IF c \in Branches THEN "deciding" ELSE "routing"]
    /\ gate' = [gate EXCEPT ![c] = IF c \in Branches THEN @ ELSE ShortList]
    /\ UNCHANGED <<store, claims, book, todo, mine, owner, aborted>>

RouterAnswers(c) ==
    /\ Quiet /\ pc[c] = "routing" /\ c \notin aborted
    /\ pc' = [pc EXCEPT ![c] = "deciding"]
    /\ UNCHANGED <<store, claims, locals, aborted>>

\* The router rejects or answers an aborted call, or the transaction throws and
\* is rolled back: the catch releases the claims.
FailAsCompleted(c) ==
    /\ \/ Quiet /\ pc[c] = "routing"
       \/ pc[c] = "deciding"
    /\ Settle(c, "completed")
    /\ End(c, "failed")
    /\ UNCHANGED <<store, aborted>>

Fail(c) ==
    /\ \/ Quiet /\ pc[c] = "routing"
       \/ pc[c] = "deciding"
    /\ Settle(c, "released")
    /\ End(c, "failed")
    /\ UNCHANGED <<store, aborted>>

Abort(c) ==
    /\ Quiet /\ c \in Abortable \ aborted
    /\ pc[c] \in {"waiting", "routing"}
    /\ aborted' = aborted \cup {c}
    /\ UNCHANGED <<store, claims, pc, locals>>

---------------------------------------------------------------------------
\* The transaction, one candidate at a time

Remember(o, m) == op' = [op EXCEPT ![o] = m]

Drop(o) ==
    /\ Remember(o, NoMemory)
    /\ UNCHANGED <<row, dismissed, linked, reinforced, effects, moves>>

Create(o, targets) ==
    LET m == FreshId
    IN  /\ m \in Ids
        /\ row' = [row EXCEPT ![m] = [text |-> o, rank |-> Rank[o],
                                      status |-> "candidate", version |-> 1]]
        /\ linked' = linked \cup {<<m, t>> : t \in targets}
        /\ effects' = [effects EXCEPT ![o] = @ + 1]
        /\ Remember(o, m)
        /\ UNCHANGED <<dismissed, reinforced, moves>>

\* A pending memory absorbs the observation; an active one is reinforced, once a
\* turn whatever the number of channels and candidates that name it.
Reinforce(o, m) ==
    /\ Remember(o, m)
    /\ IF row[m].status = "active" /\ ~CapturedThisTurn(m)
       THEN /\ reinforced' = [reinforced EXCEPT ![m] = @ + 1]
            /\ effects' = [effects EXCEPT ![o] = @ + 1]
       ELSE UNCHANGED <<reinforced, effects>>
    /\ UNCHANGED <<row, dismissed, linked, moves>>

\* createCaptureUpdateProposal revises an active memory only: an update of one
\* that is still pending is dropped.
Update(o, m) == IF row[m].status = "active" THEN Create(o, {m}) ELSE Drop(o)

Apply(c, o, verdict, m) ==
    LET route == RouteOf(c, o, verdict, m)
    IN  \/ route = "drop" /\ Drop(o)
        \/ route = "reinforces" /\ Reinforce(o, m)
        \/ route = "updates" /\ Update(o, m)
        \/ route = "conflicts" /\ Create(o, {m})
        \/ route = "new" /\ Create(o, {})

PersistBlindly(c, verdict, m) ==
    LET o == Head(mine[c])
    IN  /\ pc[c] \in {"deciding", "persisting"} /\ mine[c] # <<>>
        /\ IF Suppressed(o) THEN Drop(o) ELSE Apply(c, o, verdict, m)
        /\ mine' = [mine EXCEPT ![c] = Tail(@)]
        /\ pc' = [pc EXCEPT ![c] = "persisting"]
        /\ UNCHANGED <<claims, book, todo, owner, gate, aborted>>

\* What was decided before the await is looked at again: the durable operation,
\* the suppressions and, for the verdict, its target.
Persist(c, verdict, m) ==
    LET o == Head(mine[c])
        exact == Exact(c, o)
    IN  /\ pc[c] \in {"deciding", "persisting"} /\ mine[c] # <<>>
        /\ exact # {} => verdict = "reinforces" /\ m \in exact
        /\ IF op[o] # Unrecorded THEN UNCHANGED store
           ELSE IF Suppressed(o) THEN Drop(o)
           ELSE Apply(c, o, verdict, m)
        /\ mine' = [mine EXCEPT ![c] = Tail(@)]
        /\ pc' = [pc EXCEPT ![c] = "persisting"]
        /\ UNCHANGED <<claims, book, todo, owner, gate, aborted>>

\* The transaction has committed: only now do the waiting channels learn of it.
Commit(c) ==
    /\ pc[c] = "persisting" /\ mine[c] = <<>>
    /\ Settle(c, "completed")
    /\ End(c, "done")
    /\ UNCHANGED <<store, aborted>>

---------------------------------------------------------------------------
\* The surroundings

\* turnLedgerFor for another turn, past MAX_TURN_LEDGERS, forgets this turn's
\* ledger if it holds no claim; the next call gets a new one.
Evict ==
    /\ Quiet /\ ledger < MaxLedgers
    /\ \A o \in Obs : inFlight[ledger][o] = NoMemory
    /\ ledger' = ledger + 1
    /\ UNCHANGED <<store, inFlight, claim, pc, locals, aborted>>

Put(m, r) ==
    /\ Quiet /\ moves < MaxMoves
    /\ moves' = moves + 1
    /\ row' = [row EXCEPT ![m] = r]
    /\ UNCHANGED <<op, linked, reinforced, effects, claims, pc, locals, aborted>>

\* The user meanwhile edits, accepts, archives, restores or dismisses.  A pending
\* draft is rewritten under the version it has.
Edit(m, text) ==
    /\ Live(row[m]) /\ row[m].text # text
    /\ row[m].status = "active" => row[m].version < MaxVersion
    /\ Put(m, [row[m] EXCEPT !.text = text,
                             !.version = IF row[m].status = "active" THEN @ + 1 ELSE @])
    /\ UNCHANGED dismissed

Accept(m) ==
    /\ row[m].status = "candidate"
    /\ Put(m, [row[m] EXCEPT !.status = "active"])
    /\ UNCHANGED dismissed

Archive(m) ==
    /\ row[m].status = "active"
    /\ Put(m, [row[m] EXCEPT !.status = "archived"])
    /\ UNCHANGED dismissed

Restore(m) ==
    /\ row[m].status = "archived"
    /\ Put(m, [row[m] EXCEPT !.status = "active"])
    /\ UNCHANGED dismissed

Dismiss(m) ==
    /\ row[m].status = "candidate"
    /\ Put(m, Absent)
    /\ dismissed' = dismissed \cup
         {o \in Obs : o = row[m].text /\ Rank[o] = row[m].rank}

---------------------------------------------------------------------------

\* A verdict may name any id, one that does not exist included.
Targets(verdict) == IF verdict \in {"new", "drop"} THEN {NoMemory} ELSE Ids

Starts == \E c \in Calls : \E batch \in Batches[c] : Begin(c, batch)

\* What the event loop does on its own once the router has answered.
Proceed(c) ==
    \/ SkipRecorded(c) \/ SkipRepeated(c) \/ Wait(c) \/ Claim(c)
    \/ WakeAborted(c) \/ WakeDuplicate(c) \/ WakeRetry(c)
    \/ NothingToRoute(c) \/ Route(c)
    \/ \E verdict \in Verdicts : \E m \in Targets(verdict) : Persist(c, verdict, m)
    \/ Commit(c)

Routed(c) == RouterAnswers(c) \/ Fail(c)

UserActs ==
    \E m \in Ids :
        \/ \E text \in Texts : Edit(m, text)
        \/ Accept(m) \/ Archive(m) \/ Restore(m) \/ Dismiss(m)

Next ==
    \/ Starts
    \/ \E c \in Calls : Proceed(c) \/ Routed(c) \/ Abort(c)
    \/ Evict
    \/ UserActs

\* The event loop runs what is ready, and a router request ends: callJson has a
\* timeout.  Every call is made once, so fairness for the calls together is
\* fairness for each.
Spec ==
    /\ Init /\ [][Next]_vars
    /\ WF_vars(\E c \in Calls : Proceed(c))
    /\ WF_vars(\E c \in Calls : Routed(c))

---------------------------------------------------------------------------
\* Properties

TypeOK ==
    /\ row \in [Ids -> Rows \cup {Absent}]
    /\ dismissed \subseteq Obs
    /\ op \in [Obs -> Ids \cup {NoMemory, Unrecorded}]
    /\ linked \subseteq Ids \X Ids
    /\ reinforced \in [Ids -> Nat]
    /\ effects \in [Obs -> Nat]
    /\ moves \in 0 .. MaxMoves
    /\ ledger \in Ledgers
    /\ inFlight \in [Ledgers -> [Obs -> Calls \cup {NoMemory}]]
    /\ claim \in [Calls -> [Obs -> {"none", "open", "completed", "released"}]]
    /\ pc \in [Calls -> {"idle", "claiming", "waiting", "retrying", "routing",
                          "deciding", "persisting", "done", "failed"}]
    /\ book \in [Calls -> Ledgers]
    /\ todo \in [Calls -> Seq(Obs)]
    /\ mine \in [Calls -> Seq(Obs)]
    /\ owner \in [Calls -> Calls \cup {NoMemory}]
    /\ gate \in [Calls -> [Ids -> Rows \cup {Absent}]]
    /\ aborted \subseteq Abortable

\* Whatever channels bring an observation, in whatever order, and even when the
\* turn's ledger was evicted between two of them, it changes the store once: one
\* memory created or one memory reinforced.
ObservedOnce == \A o \in Obs : effects[o] <= 1

\* However many observations and channels of a turn name a memory, the turn
\* reinforces it once; a memory the turn itself created is not reinforced by it.
ReinforcedOnce ==
    \A m \in Ids : reinforced[m] <= IF Initial[m] = Absent THEN 0 ELSE 1

\* A channel is told "already captured" only of what the database holds: the
\* claim is settled after the transaction commits, never before.
DuplicatesAreDurable ==
    \A c \in Calls, o \in Obs : claim[c][o] = "completed" => op[o] # Unrecorded

\* A verdict binds the memory it was given about as that memory was then: one the
\* user edited, accepted, archived or dismissed while the router was thinking, or
\* while the call waited for a claim, is neither reinforced nor linked to, unless
\* it says the observation word for word.
VerdictsBind ==
    [][\A m \in Ids :
         (reinforced'[m] # reinforced[m] \/ \E n \in Ids : <<n, m>> \in linked' \ linked)
         => \E c \in Calls : /\ pc'[c] = "persisting"
                              /\ \/ gate[c][m] = row[m]
                                 \/ row[m].text = Head(mine[c])]_vars

\* What the user dismissed or archived while a call was waiting or routing is not
\* proposed again by that call.
SuppressedStaysOut ==
    [][\A m \in Ids :
         row[m] = Absent /\ row'[m] # Absent => ~Suppressed(row'[m].text)]_vars

\* No call of a set can ever resume by itself: each waits for another of the set
\* or for a call that ended with the claim still open.
Stuck(c) ==
    \E S \in SUBSET Calls :
        /\ c \in S
        /\ \A d \in S : /\ pc[d] = "waiting"
                        /\ \/ owner[d] \in S
                           \/ pc[owner[d]] = "failed"
                        /\ claim[owner[d]][Head(todo[d])] = "open"

\* A waiting channel resumes, whether its owner commits, fails or is cancelled,
\* with two exceptions: a circle of channels that claim in opposite orders, and an
\* owner cancelled while it was itself waiting.
WaitersResume ==
    \A c \in Calls : pc[c] = "waiting" ~> (pc[c] # "waiting" \/ Stuck(c))

\* capture.ts 1014: "routeAndPersist has already released any owned ledger claim"
\* when a call ends by cancellation or failure.
FailedHoldsNothing == \A c \in Calls : pc[c] = "failed" => Owned(c) = {}
=============================================================================
