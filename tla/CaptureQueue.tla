---------------------------- MODULE CaptureQueue ----------------------------
(***************************************************************************)
(* Automatic capture: the journal of memory/capture-queue.ts and the       *)
(* driver that drains it (agent.ts, drainAutomaticCaptures and the         *)
(* handlers that cancel, preserve and recover it).                         *)
(*                                                                         *)
(* The journal is a SQLite table and survives a crash; runs, native launch *)
(* snapshots and the closed and changing chats are in memory.  A run is    *)
(* synchronous between two awaits, so the rest of the server moves only    *)
(* while every run is Waiting; a crash may come anywhere, between two      *)
(* writes included.                                                        *)
(***************************************************************************)
EXTENDS Naturals, FiniteSets

CONSTANTS
    Chats,
    Numbers,     \* turn numbers, counted from 1 in every chat
    Policies,    \* what a job is bound to: memory and execution policy, project
    PerChat,     \* limits.perChat
    Total,       \* limits.total
    History,     \* limits.history
    MaxStops,    \* bound on shutdowns and crashes
    NoRun, NoJob

ASSUME TurnsAssumption   == /\ IsFiniteSet(Chats) /\ IsFiniteSet(Numbers)
                            /\ Numbers \subseteq Nat \ {0}
ASSUME LimitsAssumption  == /\ PerChat \in Nat \ {0} /\ Total \in Nat \ {0}
                            /\ History \in Nat \ {0} /\ MaxStops \in Nat

Turns == Chats \X Numbers
ChatOf(t) == t[1]
TurnsOf(c) == {t \in Turns : ChatOf(t) = c}

OpenStatus == {"pending", "running", "ready", "applying"}
Terminal   == {"completed", "skipped", "failed"}

\* Where a run stands.  It is at "loop", "answered" or "applying" only in the
\* middle of synchronous code; at the other points it awaits.
Awaits == {"resolving", "asking", "claiming", "committed", "publishing"}
Points == Awaits \cup {"loop", "answered", "applying"}
Runs   == [at : Points, job : Turns \cup {NoJob}, aborted : BOOLEAN]

ASSUME AbsenceAssumption == NoJob \notin Turns /\ NoRun \notin Runs

VARIABLES
    status,      \* memory_capture_jobs.status, "none" when there is no row
    stamp,       \* the order of enqueued_at and rowid, 0 before the first row
    watermark,   \* memory_capture_watermarks, 0 when there is no row
    bound,       \* the policies a job's payload was recorded under
    policy,      \* the policies of a chat as they are now
    closed,      \* closedChats, and chats that are deleted
    changing,    \* policyChanges
    launches,    \* captureLaunches
    run,         \* automaticCaptures
    server,      \* "up", "stopping" (runtimeStopping) or "down"
    stops,       \* how often the server stopped so far
    launched,    \* the turns launchAutomaticCapture was called for
    learned      \* how often captureFromBranch committed a turn's observations

journal == <<status, stamp, watermark, bound>>
chats   == <<policy, closed, changing>>
host    == <<server, stops>>
vars    == <<journal, chats, launches, run, host, launched, learned>>

Largest(S) == CHOOSE m \in S : \A n \in S : n <= m

---------------------------------------------------------------------------
(* The journal *)

Open(t) == status[t] \in OpenStatus

\* prune(): the rows with an outcome, beyond the History newest, are deleted; the
\* turn number of each raises its chat's watermark.
NewestExcess(st, at) ==
    {t \in Turns : /\ st[t] \in Terminal
                   /\ Cardinality({u \in Turns : st[u] \in Terminal /\ at[u] < at[t]}) >= History}

Excess(st, at) ==
    {t \in Turns : /\ st[t] \in Terminal
                   /\ Cardinality({u \in Turns : st[u] \in Terminal /\ at[u] > at[t]}) >= History}

Raised(c, old) == Largest({watermark[c]} \cup {t[2] : t \in old \cap TurnsOf(c)})

\* A statement that leaves the outcomes "st" behind, and the prune() after it.
Write(st, at) ==
    LET old == Excess(st, at)
    IN  /\ status' = [t \in Turns |-> IF t \in old THEN "none" ELSE st[t]]
        /\ watermark' = [c \in Chats |-> Raised(c, old)]

\* The same write, cut short by a crash.  prune() raises the watermark for a row
\* before it deletes it, and neither is in one transaction with the outcome.
Torn(st, at) ==
    \E raised \in SUBSET Excess(st, at) : \E deleted \in SUBSET raised :
        /\ status' = [t \in Turns |-> IF t \in deleted THEN "none" ELSE st[t]]
        /\ watermark' = [c \in Chats |-> Raised(c, raised)]

\* finish(): the first outcome of a job stands.
FinishedOver(t, s) == [status EXCEPT ![t] = s]

Finished(t, s) == IF Open(t) THEN [status EXCEPT ![t] = s] ELSE status

\* cancelChat()
Cancelled(c) ==
    [t \in Turns |-> IF ChatOf(t) = c /\ Open(t) THEN "skipped" ELSE status[t]]

\* recover(): never replay a possibly committed mutation.
RecoveredForRetry ==
    [t \in Turns |-> CASE status[t] = "running" -> "pending"
                       [] status[t] = "applying" -> "ready" [] OTHER -> status[t]]

RecoveredWithoutAnalysis ==
    [t \in Turns |-> IF status[t] = "applying" THEN "failed" ELSE status[t]]

Resumed == [t \in Turns |-> IF status[t] = "running" THEN "pending" ELSE status[t]]

Recovered == [t \in Turns |-> IF status[t] = "applying" THEN "failed" ELSE Resumed[t]]

\* next(): the oldest row that is pending or ready.
NewestIn(c, st) ==
    LET due == {t \in TurnsOf(c) : st[t] \in {"pending", "ready"}}
    IN  IF due = {} THEN NoJob ELSE CHOOSE t \in due : \A u \in due : stamp[t] >= stamp[u]

NextIn(c, st) ==
    LET due == {t \in TurnsOf(c) : st[t] \in {"pending", "ready"}}
    IN  IF due = {} THEN NoJob ELSE CHOOSE t \in due : \A u \in due : stamp[t] <= stamp[u]

FullOffByOne(c) ==
    \/ Cardinality({t \in Turns : Open(t)}) > Total
    \/ Cardinality({t \in TurnsOf(c) : Open(t)}) > PerChat

Full(c) ==
    \/ Cardinality({t \in Turns : Open(t)}) >= Total
    \/ Cardinality({t \in TurnsOf(c) : Open(t)}) >= PerChat

---------------------------------------------------------------------------
(* Runs *)

Fresh == [at |-> "loop", job |-> NoJob, aborted |-> FALSE]

Running(c) == run[c] # NoRun
At(c, point) == Running(c) /\ run[c].at = point
Aborted(c) == run[c].aborted
Job(c) == run[c].job

\* No run is in the middle of synchronous code.
Quiet == \A c \in Chats : Running(c) => run[c].at \in Awaits

\* isEngineStartBlocked
BlockedByCloseOnly(c) == server # "up" \/ c \in closed

Blocked(c) == server # "up" \/ c \in closed \/ c \in changing

\* captureInvalidReason
Valid(t) == ChatOf(t) \notin closed /\ bound[t] = policy[ChatOf(t)]

Move(c, point) == run' = [run EXCEPT ![c].at = point]

\* The end of one job: its launch snapshot is dropped and the loop goes round.
Back(c) ==
    /\ run' = [run EXCEPT ![c].at = "loop", ![c].job = NoJob]
    /\ launches' = launches \ {Job(c)}

Settle(c, s) ==
    /\ Write(Finished(Job(c), s), stamp) /\ UNCHANGED <<stamp, bound>>
    /\ Back(c)

\* drainAutomaticCaptures: one run per chat.
DrainAlways(c) == run' = [run EXCEPT ![c] = Fresh]

Drain(c) == run' = [run EXCEPT ![c] = IF Running(c) THEN @ ELSE Fresh]

---------------------------------------------------------------------------
(* Requests *)

\* launchAutomaticCapture: turns of a chat finish in order, and a stream that
\* reports its result twice launches the same turn twice.
Launch(t, oversize) ==
    /\ Quiet /\ ~Blocked(ChatOf(t))
    /\ t \in launched \/ \A u \in launched \cap TurnsOf(ChatOf(t)) : u[2] < t[2]
    /\ launched' = launched \cup {t}
    /\ IF status[t] # "none" \/ t[2] <= watermark[ChatOf(t)]
       THEN UNCHANGED <<journal, launches>>
       ELSE LET skip == oversize \/ Full(ChatOf(t))
                at == [stamp EXCEPT ![t] = 1 + Cardinality({u \in Turns : stamp[u] > 0})]
            IN  /\ Write([status EXCEPT ![t] = IF skip THEN "skipped" ELSE "pending"], at)
                /\ stamp' = at
                /\ bound' = [bound EXCEPT ![t] = policy[ChatOf(t)]]
                /\ launches' = IF skip THEN launches ELSE launches \cup {t}
    /\ Drain(ChatOf(t))
    /\ UNCHANGED <<chats, host, learned>>

\* cancelAutomaticCapture
Cancel(c) ==
    /\ run' = [run EXCEPT ![c] = IF Running(c) THEN [@ EXCEPT !.aborted = TRUE] ELSE NoRun]
    /\ Write(Cancelled(c), stamp) /\ UNCHANGED <<stamp, bound>>
    /\ launches' = launches \ TurnsOf(c)

\* memorySettingsChanged turned memory, learning or Automatic mode off.
SettingsOff(c, p) ==
    /\ Quiet /\ server = "up"
    /\ policy' = [policy EXCEPT ![c] = p]
    /\ Cancel(c)
    /\ UNCHANGED <<closed, changing, host, launched, learned>>

\* Anything else a job is bound to moves (project, paths, policy keys): no handler
\* cancels, the driver notices at the next boundary.
PolicyMoves(c, p) ==
    /\ Quiet /\ server = "up" /\ p # policy[c]
    /\ policy' = [policy EXCEPT ![c] = p]
    /\ UNCHANGED <<journal, closed, changing, launches, run, host, launched, learned>>

\* setExecutionPolicy, and its finally block.
BeginPolicyChange(c, p) ==
    /\ Quiet /\ server = "up" /\ c \notin changing
    /\ changing' = changing \cup {c}
    /\ policy' = [policy EXCEPT ![c] = p]
    /\ Cancel(c)
    /\ UNCHANGED <<closed, host, launched, learned>>

EndPolicyChange(c) ==
    /\ Quiet /\ server = "up" /\ c \in changing
    /\ changing' = changing \ {c}
    /\ UNCHANGED <<journal, policy, closed, launches, run, host, launched, learned>>

\* closeChat
CloseChat(c) ==
    /\ Quiet /\ server = "up" /\ c \notin closed
    /\ closed' = closed \cup {c}
    /\ Cancel(c)
    /\ UNCHANGED <<policy, changing, host, launched, learned>>

---------------------------------------------------------------------------
(* The driver *)

\* The head of the loop, and the finally block when it is left.
Loop(c) ==
    LET t == NextIn(c, status)
    IN  /\ At(c, "loop")
        /\ IF Aborted(c) \/ t = NoJob
           THEN /\ run' = [run EXCEPT ![c] = IF ~Blocked(c) /\ t # NoJob THEN Fresh ELSE NoRun]
                /\ UNCHANGED <<journal, launches>>
           ELSE \/ /\ ~Valid(t)
                   /\ Write(Finished(t, "skipped"), stamp) /\ UNCHANGED <<stamp, bound, run>>
                   /\ launches' = launches \ {t}
                \/ /\ Valid(t) /\ status[t] = "pending" /\ t \notin launches
                   /\ run' = [run EXCEPT ![c].at = "resolving", ![c].job = t]
                   /\ UNCHANGED <<journal, launches>>
                \/ /\ Valid(t) /\ status[t] = "pending" /\ t \in launches
                   /\ status' = [status EXCEPT ![t] = "running"]
                   /\ run' = [run EXCEPT ![c].at = "asking", ![c].job = t]
                   /\ UNCHANGED <<stamp, watermark, bound, launches>>
                \/ /\ Valid(t) /\ status[t] = "ready"
                   /\ status' = [status EXCEPT ![t] = "applying"]
                   /\ run' = [run EXCEPT ![c].at = "applying", ![c].job = t]
                   /\ UNCHANGED <<stamp, watermark, bound, launches>>
        /\ UNCHANGED <<chats, host, launched, learned>>

\* The original runtime of a job that survived a restart is resolved: it is the
\* same, it changed, or the lookup fails.
Resolve(c, outcome) ==
    /\ At(c, "resolving")
    /\ \/ /\ Aborted(c) /\ Back(c) /\ UNCHANGED journal
       \/ /\ ~Aborted(c) /\ outcome = "failed" /\ Settle(c, "failed")
       \/ /\ ~Aborted(c) /\ outcome # "failed" /\ (outcome = "changed" \/ ~Valid(Job(c)))
          /\ Settle(c, "skipped")
       \/ /\ ~Aborted(c) /\ outcome = "same" /\ Valid(Job(c))
          /\ status' = [status EXCEPT ![Job(c)] = "running"]
          /\ Move(c, "asking")
          /\ UNCHANGED <<stamp, watermark, bound, launches>>
    /\ UNCHANGED <<chats, host, launched, learned>>

\* The model answers (ready()), or fails, or answers beyond the payload limit.
Answer(c, ok) ==
    /\ At(c, "asking")
    /\ \/ /\ Aborted(c) /\ Back(c) /\ UNCHANGED journal
       \/ /\ ~Aborted(c) /\ ~ok /\ Settle(c, "failed")
       \/ /\ ~Aborted(c) /\ ok
          /\ status' = [status EXCEPT ![Job(c)] = "ready"]
          /\ Move(c, "answered")
          /\ UNCHANGED <<stamp, watermark, bound, launches>>
    /\ UNCHANGED <<chats, host, launched, learned>>

\* The answer is taken up only under the policies the turn finished under.
TakeUnchecked(c) ==
    /\ At(c, "answered")
    /\ status' = [status EXCEPT ![Job(c)] = "applying"]
    /\ Move(c, "applying")
    /\ UNCHANGED <<stamp, watermark, bound, launches, chats, host, launched, learned>>

Take(c) ==
    /\ At(c, "answered")
    /\ \/ /\ ~Valid(Job(c)) /\ Settle(c, "skipped")
       \/ /\ Valid(Job(c))
          /\ status' = [status EXCEPT ![Job(c)] = "applying"]
          /\ Move(c, "applying")
          /\ UNCHANGED <<stamp, watermark, bound, launches>>
    /\ UNCHANGED <<chats, host, launched, learned>>

\* captureFromBranch: commits, throws, or first awaits the claim another channel
\* holds on an observation of the same turn.
Apply(c, outcome) ==
    /\ At(c, "applying")
    /\ \/ /\ outcome = "commit"
          /\ learned' = [learned EXCEPT ![Job(c)] = @ + 1]
          /\ Move(c, "committed") /\ UNCHANGED <<journal, launches>>
       \/ /\ outcome = "await"
          /\ Move(c, "claiming") /\ UNCHANGED <<journal, launches, learned>>
       \/ /\ outcome = "throw" /\ Settle(c, "failed") /\ UNCHANGED learned
    /\ UNCHANGED <<chats, host, launched>>

\* The claim settles; the abort signal is checked before the commit.
ClaimIgnoringAbort(c, ok) ==
    /\ At(c, "claiming") /\ ok
    /\ learned' = [learned EXCEPT ![Job(c)] = @ + 1]
    /\ Move(c, "committed")
    /\ UNCHANGED <<journal, launches, chats, host, launched>>

Claim(c, ok) ==
    /\ At(c, "claiming")
    /\ \/ /\ Aborted(c) /\ Back(c) /\ UNCHANGED <<journal, learned>>
       \/ /\ ~Aborted(c) /\ ~ok /\ Settle(c, "failed") /\ UNCHANGED learned
       \/ /\ ~Aborted(c) /\ ok
          /\ learned' = [learned EXCEPT ![Job(c)] = @ + 1]
          /\ Move(c, "committed") /\ UNCHANGED <<journal, launches>>
    /\ UNCHANGED <<chats, host, launched>>

\* The receipt is written before the proposals are published.
Receipt(c) ==
    /\ At(c, "committed")
    /\ \/ /\ Aborted(c) /\ Back(c) /\ UNCHANGED journal
       \/ /\ ~Aborted(c)
          /\ Write(Finished(Job(c), "completed"), stamp) /\ UNCHANGED <<stamp, bound>>
          /\ Move(c, "publishing") /\ UNCHANGED launches
    /\ UNCHANGED <<chats, host, launched, learned>>

\* publishCapturedProposals: a failed append is caught like any other error.
Publish(c, ok) ==
    /\ At(c, "publishing")
    /\ IF ok \/ Aborted(c) THEN Back(c) /\ UNCHANGED journal ELSE Settle(c, "failed")
    /\ UNCHANGED <<chats, host, launched, learned>>

---------------------------------------------------------------------------
(* Stops and restarts *)

\* shutdownRuntime preserves the jobs and aborts the runs.
Shutdown ==
    /\ Quiet /\ server = "up" /\ stops < MaxStops
    /\ server' = "stopping" /\ stops' = stops + 1
    /\ run' = [c \in Chats |-> IF Running(c) THEN [run[c] EXCEPT !.aborted = TRUE] ELSE NoRun]
    /\ UNCHANGED <<journal, chats, launches, launched, learned>>

Exit ==
    /\ server = "stopping" /\ \A c \in Chats : ~Running(c)
    /\ server' = "down" /\ launches' = {}
    /\ UNCHANGED <<journal, chats, run, stops, launched, learned>>

Die ==
    /\ server # "down" /\ stops < MaxStops
    /\ server' = "down" /\ stops' = stops + 1
    /\ run' = [c \in Chats |-> NoRun] /\ launches' = {}
    /\ UNCHANGED <<chats, launched, learned>>

Crash == Die /\ UNCHANGED journal

\* The outcomes a run may be writing at a point.
OutcomesAt(point) ==
    CASE point = "resolving" -> {"failed", "skipped"}
      [] point = "answered" -> {"skipped"}
      [] point \in {"asking", "applying", "claiming"} -> {"failed"}
      [] point = "committed" -> {"completed"}
      [] OTHER -> {}

CrashInWrite(c) ==
    /\ \/ Quiet /\ server = "up" /\ Torn(Cancelled(c), stamp)
       \/ /\ Running(c) /\ ~Aborted(c)
          /\ \E s \in OutcomesAt(run[c].at) : Torn(Finished(Job(c), s), stamp)
       \/ LET t == NextIn(c, status)
          IN  /\ At(c, "loop") /\ ~Aborted(c) /\ t # NoJob
              /\ ~Valid(t) /\ Torn(Finished(t, "skipped"), stamp)
    /\ UNCHANGED <<stamp, bound>>
    /\ Die

\* recover() is three statements and may be cut short as well.
CrashInRecovery ==
    /\ server = "down" /\ stops < MaxStops
    /\ stops' = stops + 1
    /\ \/ status' = Resumed /\ UNCHANGED watermark
       \/ Torn(Recovered, stamp)
    /\ run' = [c \in Chats |-> NoRun] /\ launches' = {}
    /\ UNCHANGED <<stamp, bound, chats, server, launched, learned>>

\* recoverAutomaticCaptures.  Only the chats that are deleted stay closed.
Restart ==
    /\ server = "down"
    /\ server' = "up"
    /\ Write(Recovered, stamp) /\ UNCHANGED <<stamp, bound>>
    /\ run' = [c \in Chats |-> IF NextIn(c, status') = NoJob THEN NoRun ELSE Fresh]
    /\ closed' \in SUBSET closed /\ changing' = {}
    /\ UNCHANGED <<policy, launches, stops, launched, learned>>

---------------------------------------------------------------------------
Init ==
    /\ status = [t \in Turns |-> "none"]
    /\ stamp = [t \in Turns |-> 0]
    /\ watermark = [c \in Chats |-> 0]
    /\ policy \in [Chats -> Policies]
    /\ bound = [t \in Turns |-> policy[ChatOf(t)]]
    /\ closed = {} /\ changing = {} /\ launches = {}
    /\ run = [c \in Chats |-> NoRun]
    /\ server = "up" /\ stops = 0
    /\ launched = {}
    /\ learned = [t \in Turns |-> 0]

Driver(c) ==
    \/ Loop(c)
    \/ \E outcome \in {"same", "changed", "failed"} : Resolve(c, outcome)
    \/ \E ok \in BOOLEAN : Answer(c, ok)
    \/ Take(c)
    \/ \E outcome \in {"commit", "await", "throw"} : Apply(c, outcome)
    \/ \E ok \in BOOLEAN : Claim(c, ok)
    \/ Receipt(c)
    \/ \E ok \in BOOLEAN : Publish(c, ok)

Request(c) ==
    \/ \E t \in TurnsOf(c), oversize \in BOOLEAN : Launch(t, oversize)
    \/ \E p \in Policies : SettingsOff(c, p) \/ PolicyMoves(c, p) \/ BeginPolicyChange(c, p)
    \/ EndPolicyChange(c)
    \/ CloseChat(c)

Next ==
    \/ \E c \in Chats : Driver(c) \/ Request(c) \/ CrashInWrite(c)
    \/ Shutdown \/ Exit \/ Crash \/ CrashInRecovery \/ Restart

\* Promises settle (a branch and a runtime lookup have their own timeouts), the
\* event loop runs every continuation, and a stopped server is started again.
Fairness ==
    /\ \A c \in Chats : WF_vars(Driver(c))
    /\ WF_vars(Exit) /\ WF_vars(Restart)

Spec == Init /\ [][Next]_vars /\ Fairness

---------------------------------------------------------------------------
(* Properties *)

TypeOK ==
    /\ status \in [Turns -> OpenStatus \cup Terminal \cup {"none"}]
    /\ stamp \in [Turns -> Nat]
    /\ watermark \in [Chats -> Nat]
    /\ bound \in [Turns -> Policies] /\ policy \in [Chats -> Policies]
    /\ closed \subseteq Chats /\ changing \subseteq Chats
    /\ launches \subseteq Turns /\ launched \subseteq Turns
    /\ run \in [Chats -> Runs \cup {NoRun}]
    /\ server \in {"up", "stopping", "down"} /\ stops \in Nat
    /\ learned \in [Turns -> Nat]

\* A turn's observations enter the library at most once, across repeated launches,
\* cancellations, crashes between any two writes, restarts and pruned outcomes
\* ("Never replay a possibly committed memory mutation", capture-queue.ts:84).
LearnsOnce == \A t \in Turns : learned[t] <= 1

\* The journal stays within its limits whatever is cancelled and recovered.
WithinLimits ==
    /\ Cardinality({t \in Turns : Open(t)}) <= Total
    /\ \A c \in Chats : Cardinality({t \in TurnsOf(c) : Open(t)}) <= PerChat
    /\ server = "up" => Cardinality({t \in Turns : status[t] \in Terminal}) <= History

\* While the server is up a job that is analysed or applied belongs to a live run
\* that was not aborted: none is orphaned, to wait for a restart that may not come.
InFlightIsOwned ==
    \A t \in Turns : server = "up" /\ status[t] \in {"running", "applying"} =>
        LET c == ChatOf(t) IN Running(c) /\ Job(c) = t /\ ~Aborted(c)

\* Turns of a chat are learned from in the order they finished: whatever is ahead of
\* the queue was recorded before everything that waits, also after a restart.
InFlightIsOldest ==
    \A t, u \in Turns :
        /\ ChatOf(t) = ChatOf(u) /\ t # u
        /\ status[t] \in {"running", "ready", "applying"} /\ Open(u)
        => stamp[t] < stamp[u] /\ status[u] = "pending"

\* A chat that is closed or changes its execution policy has no work left, although
\* its aborted run may still be returning.
BlockedChatIsIdle ==
    \A t \in Turns : server = "up" /\ ChatOf(t) \in closed \cup changing => ~Open(t)

\* An answer is taken up only under the policies its turn finished under, whatever
\* moved while the model was asked (captureInvalidReason, agent.ts:2900).
TakenUnderOwnPolicies ==
    [][\A t \in Turns : status[t] # "applying" /\ status'[t] = "applying" =>
          bound[t] = policy[ChatOf(t)] /\ ChatOf(t) \notin closed]_vars

\* The watermark of pruned outcomes never swallows a turn that is launched for the
\* first time (enqueue, capture-queue.ts:50).
NewTurnIsRecorded ==
    [][\A t \in Turns : t \in launched' \ launched => status'[t] # "none"]_vars

\* The outcome of a turn is final: a late answer, a late error or a cancellation
\* never changes it (finish and cancelChat, capture-queue.ts:75).
OutcomeIsFinal ==
    [][\A t \in Turns : status[t] \in Terminal => status'[t] \in {status[t], "none"}]_vars

\* Every recorded turn gets an outcome, however often the server stopped.
EveryCaptureSettles ==
    \A t \in Turns : Open(t) ~> ~Open(t)

---------------------------------------------------------------------------
(* The promise this module implements *)

Phase ==
    [t \in Turns |-> IF t \notin launched THEN "new" ELSE IF Open(t) THEN "open" ELSE "settled"]

Contract == INSTANCE CaptureContract WITH phase <- Phase

\* What is learned, refused, cancelled and recovered follows CaptureContract.
ImplementsContract == Contract!Spec
=============================================================================
