# A TLA+ verification of MemoSync

MemoSync is a local server that runs coding agents (Claude, Codex, Pi, OpenCode)
for a web client and keeps a *memory library* for them: facts the user or the
agents noted, reviewed on a board, injected into later turns. This directory
models the parts of the server where the order of things decides whether the
library stays right, checks them with TLC and proves theorems with TLAPS.

Paths below are relative to the repository; `MemoryStore.ts` is
`src/server/memory/MemoryStore.ts`, `agent.ts` is `src/server/agent.ts`.

## The system

The server is one Node/Bun process, single-threaded. Handlers interleave only
where they `await`. SQLite statements are synchronous and a
`db.transaction(...)` is atomic, so hazards come from (1) decisions taken on
state that was read before an await or in another tab, (2) long legal sequences
of requests, (3) crashes between two transactions, and (4) aborts that race late
answers.

| part | state | operations | what makes it right |
|---|---|---|---|
| Memory library (`MemoryStore.ts`, `db.ts`) | memories, events, relations, dismissal fingerprints, revocations, reviewed snapshots | create, propose, redraft, accept, archive, dismiss, erase, restore, unmute, revert, roll back | a dismissed memory stays dismissed, erased text is gone, an acceptance replaces what was reviewed, history misses nothing |
| Review API (`routes.ts`) | none of its own | one store operation, or two, per request | a refused half leaves a consistent memory |
| Automatic capture (`capture-queue.ts`; `agent.ts` 2865-3031) | journal and watermarks on disk; runs, launches and aborts in memory | launch, drain, cancel, recover, prune | each finished turn is learned from at most once, in order, under the policy it ran under, and gets an outcome |
| Capture service (`capture.ts` 362-797) | claims of one turn's observations, durable operation keys | claim, wait, route, persist, release | two channels never persist one observation twice |
| Evolution, maintenance (`evolution.ts`, `maintenance.ts`) | none across awaits | revision and merge proposals | a stale draft is dropped |
| Branch pipeline (`branch-pipeline.ts`, `branch-runtime.ts`) | two forked conversations, a result per stage | continue, review, dispose | continuations apply in order; nothing after disposal |
| Memory preparation (`agent.ts` 4366-5700, 6330-6620) | gates of a turn, parked preview, claims of its response, reopened reviews | park, respond, reopen, refresh, finish, stop | stages in order, one owner boots, the boot gets what was shown, nothing new after a stop |
| Chat turns (`agent.ts`) | active turns, startup reservations, queued messages, draining streams, gates | send, steer, enqueue, cancel, close, idle close | one turn per chat, no message lost or started twice |
| Event store (`event-store.ts`) | five logs, snapshot and backup, state | append, compact, replay | replay after a crash gives the state that was acknowledged |
| Harness policies (`harness-policy.ts`) | desired and effective policy, generation, live native session | request, retire, begin turn, admit a call | nothing runs under a policy that was withdrawn |
| Client sync (`ws-router.ts`, `sidebar-patch.ts`, `client/app/socket.ts`) | connection, pending and queued commands; subscriptions, sidebar revisions, dropped snapshots | command, ping, reconnect, subscribe, push, retry, patch | a tab never applies a patch to the wrong base, catches up after losses, and never resends what it reported failed |
| Process lifecycle (`cli-supervisor.ts`, `data-directory-lock.ts`) | two flags, an exclusive lock | spawn, restart, acquire | one server per data directory |

They interact by calls: a finished turn launches a capture; its run asks a
branch, commits through the capture service into the library and applies what
may be applied; the board changes the same library through the API; chat
handlers (close, policy change, settings, shutdown) stop captures.

## Modules

| module | models | composed with |
|---|---|---|
| `MemoryStore` | the library and the requests that reach it | |
| `MCMemoryStore` | its TLC instance | `MemoryStore` |
| `MemoryStoreProofs` | theorems about `MemoryStore` | `MemoryStore` |
| `CaptureContract` | what Automatic mode promises about finished turns | |
| `CaptureQueue` | journal, driver, cancellation, stops and recovery | implements `CaptureContract` |
| `CaptureQueueProofs` | type, at-most-once, final outcomes, the refinement; limits, order, ownership and policies of captures | `CaptureQueue`, `CaptureContract` |
| `CaptureLedger` | `routeAndPersist`: the claims of one turn's channels, the router, the rows they change | |
| `MCCaptureLedger` | its TLC instance | `CaptureLedger` |
| `CaptureLedgerProofs` | theorems about `CaptureLedger` | `CaptureLedger` |
| `ChatTurn` | the turns and the queue of one chat, with enqueue-and-steer | |
| `ChatTurnProofs` | types and every safety property of `ChatTurn` | `ChatTurn` |
| `Preparation` | one turn between its prompt and its engine: gates, preview, Stop, reviews opened again | |
| `PreparationProofs` | types, the invariants and the action property of `Preparation` | `Preparation` |
| `EventStore` | logs, snapshot, compaction, replay | |
| `MCEventStore` | its TLC instance | `EventStore` |
| `EventStoreProofs` | types, and that chats, queues, sessions and the project survive every crash | `EventStore` |
| `HarnessPolicy` | the execution policy of one Claude chat, its turns and native queries | |
| `HarnessPolicyProofs` | types and doubt of `HarnessPolicy`; no call runs under a replaced policy; what is shown is real | `HarnessPolicy` |
| `LiveSync` | one tab's socket and the router's pushes of the sidebar | |
| `MCLiveSync` | its TLC instance | `LiveSync` |
| `LiveSyncProofs` | patches reach the tab in order and fit; commands are sent once | `LiveSync` |

### MemoryStore

`row` is the table `memories`, a function from ids; `NoRow` is an absent row.
`dismissed`, `revoked`, `revises`, `reviewed` and `log` are the side tables, with
the events that carry a snapshot. Each transaction is one action, with every
statement in it: `Update` is `update()`, with its events and revocation receipt;
`AcceptRevision` redrafts, activates and archives; `PatchCandidate` is the one
request that is two transactions with no await between them, whose second half
may be refused. `Ordinary` is the guard all ordinary changes share
(`assertCandidateDecisionTransition`).

`text` stands for every content-bearing field but the scope, `scope` for scope
and owner. Equal texts have equal fingerprints. A drafting await is the
parameter `expected` of `ProposeRevision`: any text, as the memory may have been
read at any earlier time. Ids are never given twice because the next id counts
dismissals (`nextId`). `Born` holds the statuses used in creation: capture, the
board and imports create candidates and active memories.

### CaptureQueue

`status`, `stamp`, `watermark` and `bound` are on disk, everything else but
`policy` is lost with the process. A run of the driver stands at a point of
`drainAutomaticCaptures`: `resolving`, `asking`, `claiming`, `committed` and
`publishing` are its awaits, the others are inside synchronous code, where no
other handler can move (`Quiet`) but a crash can. Every await ends in its
answer, its error or an abort, whatever order they come in; the code after the
await is one action per outcome. `bound[t] = policy[c]` stands for every check
of `captureInvalidReason` besides the closed chat.

`Write` is a statement with the `prune()` that follows it. They are not in one
transaction outside `enqueue`, so `Torn` is the same write cut short: some
watermarks raised, and some of the rows they stand for deleted. Recovery can be cut
short too (`CrashInRecovery`). `learned` is a
history variable, raised where `captureFromBranch` commits. `launched` records
which turns were reported; a stream may report a turn's result twice.

`CaptureContract` has no journal, runs or restarts: turns are new, open or
settled and are learned from once, while they are open. `ImplementsContract` is
the refinement. It says more than `LearnsOnce`: nothing is learned from a
turn whose capture was cancelled or given up.

### CaptureLedger

A call is one invocation of `routeAndPersist` by a channel of the turn: prompt
parse, branch, proposal. `pc` is where it stands; it runs without interruption
between awaits (`Quiet`), which are the wait for another call's claim and the
router. `claim` is the promise a channel made for an observation, `inFlight` the
ledger's map of them, `op` the durable record (`memory_capture_operations`); an
eviction of the ledger opens a new one while old calls still hold theirs. `gate` is
what the call saw of each memory before it asked the router, the base of every
verdict's compare-and-set. The transaction is `Persist` for each observation and then
`Commit`; nothing can move in between. What the user does meanwhile are
the operations of `MemoryStore` that move a row between being proposed, in use and
archived.

### ChatTurn

`s` is one record: the message queue, the startup reservation (`holder`, `starting`),
`active`, the turns, and `chain`, the store's writes that were asked for and not done.
Every handler is a chain of operators from one await to the next. A step is a
request (`Requests`), something from outside (`Answers`: a runtime, an engine, a stream
that ends) or the write at the head of the chain with the code that waited for it
(`Flush`). That all writes share one FIFO chain is what the code relies on, and what
makes `LeavesByItsOwnEnd` true: `cancel()` deletes the active turn of the chat
after awaits, whichever it is by then.

Left out: memory preparation and its gates (`Preparation` has those), recovery rows
of an interrupt, follow-ups after a tool, native commands, closing and policy changes
(`HarnessPolicy` has those).

### Preparation

`s` is the turn. Its coroutines await each other: `p` is `runProposalsGate`, `t`
`runTransferGate`, `main` the driver of the stages (`runPreviewGateThenBoot`, later
`runReopenedMemoryPreparation`), `again[i]` the i-th Step 1 opened again beside the
transfer (`prep.reparks`), `fin` `finishMemoryPreview`, and `rec` the writes of
`recordStartupCancellation`. `chain` is the FIFO of the store's writes, each with the
coroutine that awaits it; `Resumed` runs the code after that await. `gate[r]` is the
pending gate of a review with the coroutine that waits there, `pv` the parked preview,
`claim` a response that was taken. `card` is what a tab shows of each step when it has
folded the transcript (`parseTranscript.ts`): a user can answer a gate, or open a review
again, only where a card offers it. `lib` stands for the contents of the memory view:
views are compared only for equality.

Assumed: branch conversations are on, as `server.ts` starts the coordinator; every memory
service is there and there are source rules to scan; whether a review may be opened again
is judged on the transcript as it is now. Left out: restarts, closing the chat, shutdown,
`invalidateMemoryGate` (which nothing in the server calls), what the reviews change in
the library (`MemoryStore` has that), and the inside of an engine start.

### EventStore

`mem` is the state in memory, `log` the lines of each log, `snap` and `bak` the
snapshot and its backup, `chain` the pending writes. `Recover` is a start: it picks
snapshot or backup and applies the lines of all logs to it in the order of their keys:
stamp, kind, log, line (`Replay` takes the set of lines and applies the `Latest` last;
as no two lines have one key, that is the sort of `replayLogs`). `Images` are the disks a crash at this moment may leave: every step of a
compaction (`left` says which logs are not emptied yet), a snapshot cut short, a last
line cut short (`torn`). The properties compare `Recover` of every image with `mem`,
so they are about every possible crash, while the action `Crash` goes on from one.

### HarnessPolicy

`svc` is the service's runtime state of the chat, `stored` what the reducer of the
event store holds, `saves` the chain of policy saves. Turn `t` goes through the awaits
of `startTurnForChat`, `bootEngineTurn` and `startClaudeTurn` (`Phases`); a query
(a native Claude session) has the number of the turn that launched it, is registered in
`query` and runs in `pump` until it ends or, once retired, drains. `mode` is the
permission mode it works under, the truth that `svc.effective` reports on. `change` is
the running `setExecutionPolicy`, `stop` the running `cancel()` of the user and of the
change, `idle` an idle close, `question` an approval the user has to give.
`tainted` is history: the first revision that was requested over a live runtime.

Left out: generations (they only tell apart scopes of equal turn and revision), plan
mode, model changes, host actions and their leases, the other engines, failed writes
other than policy saves. A cancellation's writes are one entry of the chain.

### LiveSync

The tab's half is `AppSocket`: `ws` is the socket's `readyState`, `timer` and
`immediate` its two ways to reconnect, `ping` the pending heartbeat, `cmd`, `queue` and
`sent` the commands as their callers know them, in `outboundQueue` and on the wire.
`base` is `subscription.sidebar`, `shown` what the listener was given. The server's half
is `feed` (signature and revision recorded for the subscription), `dirty` and `retry`;
`hist` lists the sidebars by revision: the last is the retained one, the one before it
its `previous`. `Push` is `pushSnapshots` with its three ends: nothing new, sent, dropped
by the socket. `loop` is the cache of a broadcast under way: between its sockets only
microtasks run, so only `Change` and `OtherTopic` (a discovery that ends) come
between; the server's other actions wait for `loop = 0`. A sidebar is a function from
rows to contents and a patch carries the rows that differ, so applying one to the wrong
base gives a wrong sidebar. Whether the difference or the whole is shorter is a choice.

One connection exists at a time. The router learns of its end when the tab does; what it
would send meanwhile goes nowhere. That every change of the sidebar is followed by a
broadcast is taken from its callers (`onStateChange`, the ends of the commands).
Left out: topics other than the sidebar, the 24 hour expiry of its grouping, host action
views, the lock-out probe, `dispose`, lost answers to pings (a dead connection has the same effect).

## Runs

| run | shows | size |
|---|---|---|
| `memory_store` | dismissal, erasure, history, review and tombstone properties | 250,732 states, 1 min |
| `memory_merge` | a revert of a merge or a revision undoes its acceptance as a whole | 223,884 states, 35 s |
| `memory_frozen` | finding 1 | stops at the first violation |
| `capture_queue` | at most once, ordered, owned, bounded, final, recorded; the refinement; liveness | 125,420 states, 80 s |
| `capture_ledger` | one effect per observation, durable duplicates, binding verdicts, no lost waiter | 226,661 states, 2 min |
| `capture_orphan` | finding 2 | stops at the first violation |
| `chat_turn` | one turn at a time, ended by its own end; messages prompted once; requests answered | 564,000 states, 2 min |
| `chat_dropped` | finding 3 | stops at the first violation |
| `preparation` | stages in order, one owner, the boot gets what was shown, a stop is final and returns | 302,264 states, 25 s |
| `event_store` | chats, queues and sessions survive a crash at any moment | 804,236 states, 90 s |
| `harness_policy` | no call under a replaced policy, what is shown is what runs, doubts are kept, questions are released | 752,988 states, 2 min |
| `live_sync` | patches fit and give the server's sidebar, losses are repaired, failed commands are not resent | 337,243 states, 1 min |

The type invariants of `MemoryStore`, `CaptureQueue`, `CaptureLedger`, `HarnessPolicy`,
`ChatTurn` and `LiveSync`, and `ReinforcedOnce`, are not checked by a run any more: they are
theorems. Those of the other modules are written there and hold on the same instances.

Bounds of the library: two ids give a revision and its target, and reuse of an
id after erasure; three give a merge, or two competing revisions of one target.
Two texts tell an edit from none, and `MaxVersion` 2 lets every memory be edited
once, `MaxEvents` 5 (6, 8) bounds the events of all memories together: enough to
accept, edit, revert and roll back one memory, or to dismiss, restore and
dismiss it again as sensitive. `memory_merge` has a single text because its
properties are about which memories move, not about what they say (what its clauses say
of the texts is shown by the theorems); a merge needs the third id, and its acceptance
and revert nine events. Texts are interchangeable, hence the symmetry.

Bounds of capture: three turns with `PerChat` and `Total` 2 and `History` 1 reach
a full queue, a pruned outcome and a turn below the watermark; two policies let
one move away and back; two stops allow a crash during the recovery from a crash.
What two chats share is proved for any number of chats (`CaptureQueueProofs`).

`capture_ledger`: two observations of different scope, brought in opposite orders by
the prompt parse and the branch and once by a proposal, are the least in which claims
cross; one eviction gives two ledgers, one move of the user makes a verdict stale.
`chat_turn`: two messages and two acts (steer, withdraw, stop) besides sends, with one
crash. `preparation`: two edits move the library twice under one preview, two reopened
reviews meet each other (twice the same, or one during the other), and a second stop
meets the first one's writes. `event_store`: four requests, two instants (events share a millisecond or do
not) and one crash before the crash that `Images` stands for. `harness_policy`: two
turns, so that a query is used again or replaced, two changes of the policy, and one
mishap, a failed save or a crash (`MaxUpsets`). With three turns, one change and no mishap the
four invariants hold as well (1,589,850 states).
`live_sync`: one change gives a patch, a broadcast of an older sidebar and a sidebar no
patch can express; two faults a dropped snapshot with its retry, or a drop and a
dead connection. With two changes and one fault the safety properties hold as well
(2.4 million states).

Every counter that could grow is bounded by a guard
(`MaxVersion`, `MaxEvents`, `MaxId`, `MaxStops`,
`MaxMoves`, `MaxLedgers`, `MaxEdits`, `MaxReopens`, `MaxActs`, `MaxCalls`, `MaxTime`, `MaxCrashes`, `MaxTurns`,
`MaxChanges`, `MaxUpsets`, `MaxMounts`, `MaxFaults`).

`CHECK_DEADLOCK FALSE` everywhere: the library stops when its bounds are used up,
capture when every turn was launched and nothing is requested, the others when all
requests were made and answered.

Fairness is weak throughout, and only on what the server or its timers do by
themselves: a continuation stays enabled until it runs. Requests, aborts and crashes
have none.

- `CaptureQueue`: the driver's continuations run, and what they await settles: a
  branch and a runtime lookup have time limits. That the claim it may wait for is
  settled or released is an assumption of this module; `CaptureLedger` shows the
  two cases in which it is not (`Stuck`). A stopping server exits, a stopped one
  is started again.
- `CaptureLedger`: calls run on, the router answers or fails (`callJson` has a time
  limit).
- `ChatTurn`: writes of the store settle (`Flush`); runtimes, engines and interrupts
  answer or fail (`Answers`; an interrupt has 5 s). Streams need not end.
- `Preparation`: writes settle, models and engines answer or fail. Nobody owes a click.
- `HarnessPolicy`: handlers run on, saves settle, a wait for a retired query ends with its pump or
  its timeout (`claudeRetireTimeoutMs`). Pumps need not drain, users need not answer.
- `LiveSync`: messages of a living connection arrive, timers fire, a closing socket closes
  and a dial succeeds once faults are used up; heartbeats run, that is the page is visible
  again and again. A connection need not tell that it died, and the socket need not
  report that it drained. A heartbeat pings only when nothing came for a while (`s2c` is
  empty): over a connection that terminal output keeps busy a doubly dropped snapshot
  waits for a drain or the next broadcast instead.

## Findings

1. *A memory in use that nobody can archive* (`memory_frozen`). Dismiss a plain
   candidate, restore it, accept it and mark it sensitive: `Ordinary` sees a
   sensitive memory with a dismissal in its history and refuses everything from
   then on, the removal of the mark included. `README.md:102` says of any item
   that it can be edited or archived.
2. *A claim nobody releases* (`capture_orphan`). The loop that claims a batch runs
   before the `try` whose `catch` releases the claims. An abort after a wait
   (`capture.ts:497`) ends the call with its earlier claims open, and a later channel with
   the same observation waits for ever. `capture.ts:1014` says of a cancelled call
   that it "has already released any owned ledger claim".
3. *A message taken from the queue and dropped* (`chat_dropped`). `steer()` looks
   whether the chat is busy, then awaits the removal of the row, then
   `startTurnForChat` looks again and throws if a send came between. The comment at
   `agent.ts:7753` says the first look keeps the message in the queue.

Met while modelling, not claimed by a run.

Library: a redraft in review does not bump the version (`MemoryStore.ts:534`): after a
revert, a redraft and a second acceptance an id and version stand for two texts, while
`memory/types.ts:86` tells readers to resolve texts by version. History rollback of a reverted revision activates it without
`acceptRevision`, so it and its target may both be active. A revocation receipt is
lifted only on archived -> active: a rollback to a snapshot that was in review, followed by
an acceptance, leaves it behind, so the claim of a memory in use stays suppressed, where
`versioned-writes.test.ts:394` expects a rollback to permit a proposal. `db.ts:79` says events are
never deleted, and redrafting and erasing delete them.

Capture: a job that committed while the server shut down is recorded as failed
(`restart-during-apply`) and one cancelled after its commit as skipped: the journal's
outcome bounds what was learned, it does not report it. A verdict `updates` on a
pending candidate drops the observation (`createRevisionCandidate` returns null,
`MemoryStore.ts:894`). Two channels that claim in opposite orders wait for each other
(`Stuck`).

Chats: a send that sees the chat busy and is queued after the turn's end stays queued in
an idle chat; a steer of a starting chat and the drain may remove the same
message, and the second start is refused although the message runs; a withdrawal that
races a drain succeeds although the message runs; a crash between the removal of a row
and its prompt loses the message.

Preparation, all in `Preparation`. A Step 1 opened again beside an open transfer that is
then answered makes `refreshTransferAfterCandidateReview` (`agent.ts:2169`) park the
transfer on a card that still shows its decision: a reset from "proposals" does not clear
it, so nobody can answer that gate and the turn waits for a stop
(`shared/types.ts:1481` says a reset clears "every dependent result"). The refresh takes
the last transfer card of the whole chat, perhaps an earlier turn's. Two tabs that open
Step 1 again overwrite each other's gate, and the first review is never resolved. After a
stop, a review that was being opened again still parks its gate, and the stop waits
behind it (`NothingFreshAfterStop` and `StopReturns` leave that out; `agent.ts:5427`
warns of a late gate with no responder left). A second stop, while the first one's "interrupted" is
written, leaves the cancellation flag set for the next turn (`agent.ts:6375`: "Never leak
a cancel flag"). A turn whose stop meets a failing pass is recorded both failed and
cancelled; one that stops or fails leaves its card open. A stop while a response is being
finished ends the policy's scope and the branches but need not stop the turn.

Policies, all in `HarnessPolicy`: a refused prompt takes its query out of the registry
while its pump still runs (`agent.ts:7197`), so `harnessNativeRuntime` answers "absent"
for a query that a comment (`agent.ts:7459`) calls a handle until it has drained. A start
that was stopped and fails late rejects the policy of the turn that followed
(`agent.ts:6983`), whose approval questions then cannot be answered until a stop. An
idle close, or a query that ends by itself, revokes the admission of a turn that is still
preparing (`agent.ts:3861`, `:8026`). After a failed save of a change the service is a
revision ahead of the store and no turn begins until the next change or restart. A
question that a reused query asks before its new prompt is sent is not released when
that prompt is refused; `ChangeReleasesQuestion` leaves these out (`early`).

Client sync: what `ws-router.ts` pushes outside `pushSnapshots` (keybindings, app
settings, update state, release notice, lines 1284-1340) records its signature without
looking at the socket's answer, so such a push, if dropped, is neither marked for a
retry nor sent by a later broadcast; `:1042` says that a dropped snapshot "still needs a
later retry". Lost answers make a command that ran look failed. A broadcast may send a tab an
older sidebar than it has, until the next broadcast.

Event store: a crash between the truncations can leave `chats.jsonl` with
`turns.jsonl` emptied, and a chat's creation replayed over the snapshot resets its
session; `projects.jsonl` left with `chats.jsonl` emptied hides a project opened as a
draft. A deletion stamped before a promotion that waits in the chain replays first. A
last line cut short is never ended, so the next event is glued to it and lost at the
restart after (`lost`), and stays lost through every further restart until compaction
empties that log. `chats.jsonl` without such a line may leave queued messages of a chat
that is no longer known, so the queue is promised only while neither log lost a line. Once
a draft project's discarding is in its log beside a chat that was being created in it,
compaction may empty `chats.jsonl` alone; the deletion of that chat in the same
millisecond makes the discarding take effect at the replay, and the project that a later
draft opened is hidden (`Discarding`). `SessionsSurvive` and `ChatsSurvive` name
these windows and hold everywhere else.

## Proofs

`MemoryStoreProofs` proves, for any ids, contents, scopes, versions and bounds that
satisfy `NoneAssumption` and `BoundsAssumption`:

- `TypeCorrect`, `DismissedStaysDismissed`, `SensitiveStaysErased`:
  `Spec => []TypeOK`, `[]DismissedNeverLive`, `[]SensitiveErased`;
- `SensitiveTombstoneForever`: `Spec => [][...]_vars` for sensitive evidence.

`DismissalInv` is the conjunction of the three invariants, and it is inductive while
`SensitiveErased` alone is not: erasing a candidate marks its evidence as
sensitive, and only `DismissedNeverLive` excludes a candidate that carries
evidence of an earlier dismissal and a row or relation that is still in use. That
restored and rolled back memories do not get past their evidence rests on
`Ordinary` guarding every other change of a row, and that an erased id stays
erased on `IsNextId` counting evidence as use of the id. Each action has a
lemma that it preserves `DismissalInv`; `NextPreserves` collects them, and PTL
combines it with `InitDismissalInv`. TLC checked every conjunct first.

From there it proves what the history is worth: `HistoryIsComplete`
(`HistoryDescribesRow`), `AcceptanceReplacesTheReviewed`
(`AcceptReplacesWhatWasReviewed`) and `RevertUndoesAcceptances`
(`RevertUndoesTheAcceptance`). `HistoryInv` adds to the invariant that a memory in
use has a history, begun by its creation and by nothing else; a revert finds the
acceptance as the last status event, so its theorem needs the history to be complete.

`CaptureQueueProofs` proves, for any limits and number of stops and for finite
sets of chats and turn numbers (`TurnsAssumption`; watermarks are largest elements,
and only a finite set of numbers need have one; TLAPS has the least element from
well-foundedness and the bound by a shortest unbounded prefix, both in the module):

- `CaptureTypeCorrect`, `CapturedOnce`: `Spec => []TypeOK`, `[]LearnsOnce`;
- `OutcomeStays`: `Spec => OutcomeIsFinal`;
- `CaptureImplements`: `Spec => ImplementsContract`, the whole of `CaptureContract`.

`LearnsOnce` is far from inductive. `CaptureInv` adds three facts. `RunOK`: a run
that was not aborted stands where its job's row says, and one past its answer holds
an `applying` row even when aborted, as nothing is awaited in between; so two
commits of one job cannot both be ahead. `LearnedOK`: a learned turn's row is
`applying`, final or pruned, and no run is about to commit it; recovery never makes
such a row pending. `RecordedOK`: a turn without a row was never launched or
lies below its chat's watermark; so a repeated launch cannot record it again after
its outcome was pruned, torn prunes included (`TornKeeps`: rows are deleted only
after the watermark was raised). Every statement on the journal leaves `Legal`
outcomes behind and is `Kept` up to the prune; `ChatStep` and `IdleStep` draw the
invariant from that, and every action is an instance. The same lemmas show
`Progress`: outcomes stand, or one turn is committed or launched, which
`ContractStep` maps to `Settle`, `Learn` and `Record`.

Its second half goes on from `CaptureInv` and proves the rest of what
`capture_queue` checks but liveness: `JournalWithinLimits`, `InFlightOwned`,
`InFlightOldest`, `BlockedIsIdle`, `NewTurnsAreRecorded`, `TakenUnderItsPolicies`.
`OrderInv` is `CaptureInv`, `JournalInv` and `ChatInv` for every chat. `JournalInv`:
every row has a stamp of its own, below the next one; watermarks cover only turns that
were launched; open rows are within the limits and finished ones within the history
(`PruneBounds`, by the oldest row kept). `ChatInv`: a run that was not aborted owns its
chat's job in flight, which is older than everything that waits; a chat that
is closed or changes its policy has neither. Actions are layered: `JournalEffect` says
what a statement may do to the journal, `NextEffect` that every step is one such
statement by one chat, so each part is proved once and not per action.

`CaptureLedgerProofs` proves, for any calls, batches, scopes and initial
memories, six properties of `capture_ledger` (all but `WaitersResume`) and
`SuppressedIsNotProposed`. `LedgerInv` adds to the types: the store changed for an
observation only if `op` records it (`EffectsOK`), which makes a second channel's
`Persist` skip it whatever became of ledger and claims; a memory's reinforcement is
recorded too (`ReinforcedOK`); a waiting call has a candidate left (`WaitersOK`); and a
claim that was settled is recorded, while an open one is recorded or still in its call's
batch unless it was left behind by an abort (`ClaimsOK`).

`HarnessPolicyProofs` proves, for any policies and numbers of turns, changes and upsets,
`HarnessTypeCorrect` and `DoubtIsStored` (`UncertaintyIsKept`). What is stored says little
about what will be stored: a save of an earlier state may still be pending, and a service
may be made anew from the store. `HarnessInv` therefore follows the doubt all the way:
revisions grow from the store through the pending saves to the service (`Order`), from the
tainted revision on each of them doubts (`Doubt`), and what is busy has a service
(`Alive`). All steps but a request and a crash have one effect, `QuietEffect`: the
service keeps its revision and doubt, and what is saved is what was pending, a
cancellation's write or the service; `QuietKeepsOrder` is proved from that once.

Its second part goes on from `HarnessInv` and proves `CallsRunUnderDesired`
(`RunsUnderDesired`): a handler that was overtaken while it waited never leaves a
turn running under the old policy. `ScopeInv` says who holds what. `Admissions`: turns
of the service's revision were admitted under its policy, and only what is stored is
admitted. `Reservation` and `Stopping`: a turn that starts, or whose cancellation is
being saved, holds the reservation, so a second one is neither active nor starting.
`Currency`: the current turn holds the scope and was not cancelled. `Queries`: a turn
that prompts and is not active has lost its query, so that a failed prompt cannot
retire another turn's. `Working`: the active turn's query lives while the turn is
current, in the mode of its policy. All steps but an admission, a request and a crash
are `Calm`: nothing becomes current by them, and what stays current keeps its scope;
`Admissions` follows from that and `QuietEffect` alone. `ShownIsReal` (`ReportedIsReal`)
rests on `ShownInv`: what the service calls effective is the mode of the registered query
(`Acknowledged`), a query still to be launched will get it (`Agreed`), and an acknowledgement
that is out of date with no restart due (`Outdated`) is that of a change which still has to
forget it or whose save failed, so that no turn is admitted under it.

`ChatTurnProofs` proves, for any messages, requests and crashes, with streams or with one
session, `ChatTyped`, `OneTurn` (`OneTurnAtATime`), `PromptsOnce`, `RefusedStaysOut` and
`LeavesByItsEnd`, that is every property of `chat_turn` but `AskIsAnswered`. The
hard part is that `cancel()` and the session pump forget the active turn without asking
which it is, some writes after they were called for one. A turn that starts meanwhile
owes the store a prompt, a start and a policy before it has an engine; writes are done in
order, and each kind of forgetting write is asked for early enough. `NotForgotten` counts
that out: `Apart` says in which phases of a turn a forgetting write of another turn may be
pending, `Ahead` that it stands before the turn's own write. The rest of `ChatInv` says
what queue, pending writes, turns and the coordinator's maps know of each other:
`QueueFits` and `ChainFits` that a message the store had is not queued again and is
prompted once, `MessageFits`, `HoldFits` and `WritesFit` which phases hold the reservation
and which writes belong to which. One lemma per operator between two awaits says that it
keeps the chat fit and lets go of a turn only at its end (`Sound`).

`LiveSyncProofs` proves, for any sidebars, commands and bounds under `SidebarsAssumption`
(sidebars are functions, and the first are among them) and `NoneAssumption`, `LiveTyped`,
`PatchesFollow` (`PatchesFit`), `PatchesApply` (the tab holds the very sidebar the server
derived at the revision it names) and `CommandsSentOnce` (`SentWhileAwaited`). `LiveInv`
follows a revision from the server over the connection to the tab: every patch under way
was made from the revisions it names and starts where the one before it ends (`Chained`),
and the revision the server remembers for the tab's subscription is what the tab will hold
when everything under way has arrived (`FeedFollows`). Subscriptions are numbered, so
nothing of an earlier one counts for the present one.

`PreparationProofs` proves, for any numbers of edits, stops and reviews opened again
(`BoundAssumption`), `PrepTyped`, `StagesKeepOrder` (`StagesInOrder`), `OnlyOneOwner`
(`OneOwner`), `ShownIsBooted` (`BootsWhatWasShown`) and `EndedStaysUnbooted`
(`EndedNeverBoots`). Coroutines that wait for each other share the turn, so `Fits` says of
each at which of its awaits it may have a write pending or hold a gate (`Flows`), and how
far the stages are where the driver is (`Staged`). A Step 1 opened again beside the
transfer must not be forgotten by the refresh that follows: `CardsFit` shows that no tab
offers it then. `Owned` passes the turn from driver to preview, to response, to boot;
`Approved` keeps the view of an approval until its plan is made; `HeldFits` and `EndFits`
say how long the reservation is held and what an end leaves. An end is recorded and the
reservation given back by two assignments of one step, so between them `EndFits` is
broken and the rest (`Core`) is not. Each helper between two awaits has a lemma that it keeps
types and `Core`, and `EndFits` where it is whole.

`NothingParksAfterStop` (`NothingFreshAfterStop`) needs to know what a stop leaves behind
in every coroutine, and `Fits` says nothing of signals and flags. `Still` does: once the
turn was stopped, Step 1 has an aborted signal or a flag it will see, a finding of the
checkup not yet written has the flag its write claims, the branches are disposed of
(`Dying`), and no continued branch runs; stopped or not, while Step 1 computes the
preparation is registered or its driver is over, and nothing boots before both earlier
steps are done, so that a stop reaches all that computes (`Ready`). A helper is `Calm` when it keeps that and parks no fresh gate in a stopped turn;
calm steps compose, so each helper has one short lemma again. `cancel()` itself is not calm
between its parts: its flags are set before a transfer's branch and the checkup are
released, and `ReleasedCalm` shows that at most one of the two is running then.

`EventStoreProofs` proves, for any chats, messages, sessions and numbers of requests, ticks
and crashes, under `ValueAssumption`, `IdAssumption` (no chat, message or project shares
an id: they are random UUIDs), `BoundAssumption` and `AbsentAssumption` (the absent
value is no record), `TypeCorrect` (`TypeOK`), `ChatsAlwaysSurvive` (`ChatsSurvive`) and `SessionsAlwaysSurvive`
(`SessionsSurvive`), all from `InvariantHolds`. A start replays lines in another order
than they were written in, over an image that may hold some of them already, while
compaction may have emptied any of the logs. The proof has two halves.

- What a replay makes of a set of lines. The lines are finitely many and totally ordered
  by their keys (`LatestIs`), and `Replay` applies the latest to what it made of the others.
  `OneByOne` carries what holds of no line to all of them, one latest line at a time; it
  speaks of a set of sets of lines, from a smallest exception, and so needs no
  induction theorem with an operator as parameter. By it `Live` and `Dead` read
  a chat off the lines: whether one begins it, promotes it or ends it, in
  whatever order they are replayed, as creations come first among them. `QueueAgain` says
  that a queue whose lines are settled comes out as it went in, held messages and removed
  ones included, and `ProjectReplay` reads off the project.
- What the steps do to the lines. `Invariant` is `Typed`, `Ordered`, `Told` and
  `Remembers`. `Ordered`: what is stamped early is written in the order of its stamps; an id
  is born once, before everything about it; a message is sent once; the project's
  opening comes before all that follows; and the stages of compaction come in order
  (`Staged`). `Told`: what is in memory agrees with the last that the lines say of a queue,
  a token, an outcome; promotions are written before the ends of their chats; a draft
  project is over once a chat of it shows, and its log begins every draft.
  `Remembers` is `Kept` for snapshot and backup: what the present lines over either say of
  each chat and of the project is what memory holds, whichever logs were emptied
  meanwhile, but for the windows the properties name. It must hold of the backup as well:
  a crash that leaves the new snapshot empty goes on from it. Emptying a log is harmless
  only because both images are memory by then.

Each kind of event has lemmas on what a further line changes, and each request and each
task of the chain one for each part of the invariant; `CrashStep` shows that what a crash
leaves, with its drafts to discard and perhaps another compaction to do, is such a state
again. TLC checked the invariant first, with three requests and two crashes (372,931
states; the run `event_store` has four and one, and keeps to the properties). A second
crash matters: what a torn line swallowed stays lost through it, so `lost` is history
until the log is emptied, and a single crash cannot tell.

Only model-checked: liveness, which under fairness is beyond TLAPS
(`EveryCaptureSettles`, `WaitersResume`, `AskIsAnswered`, `ChangeReleasesQuestion`,
`SidebarCatchesUp`, `StopReturns`). Every invariant and action property of the
passing runs is proved. Nothing proved uses fairness.

## Plan

Done: `MemoryStore`, `CaptureQueue` with `CaptureContract`, `CaptureLedger`, `ChatTurn`,
`EventStore`, `HarnessPolicy`, `LiveSync`, `Preparation`. Left, in this order:

1. `BranchPipeline`: queued continuations and disposal, which `Preparation` takes as one
   answer or failure.
2. `LiveSync`: several tabs, terminal tails, host action views.

Not planned: transport, rendering, parsing of model answers and files, external
engines, authentication, terminals, uploads, previews, diffs, usage, desktop and
site. They keep no state the properties above depend on, or are input and output
of other programs. One server per data directory is assumed
(`data-directory-lock.ts` holds an exclusive SQLite transaction).
