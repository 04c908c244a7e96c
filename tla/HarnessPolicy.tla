--------------------------- MODULE HarnessPolicy ---------------------------
(***************************************************************************)
(* The execution policy of one chat whose engine is Claude: the in-memory  *)
(* service of src/server/harness-policy.ts, the policy the event store     *)
(* keeps, and the handlers of src/server/agent.ts that start, stop and end *)
(* the chat's turns and its native sessions (queries).                     *)
(*                                                                         *)
(* Turn t is the t-th turn begun; the query it launched carries the same   *)
(* number, and 0 is none.  A query's pump runs from its launch to its end; *)
(* a retired query keeps running until its pump has drained.  Policy       *)
(* saves are the store's chain: they land in order, and a handler that     *)
(* awaits one resumes after it.  The generation of a scope is left out: it *)
(* only tells apart scopes with the same turn and the same revision.       *)
(***************************************************************************)
EXTENDS Naturals, Sequences, SequencesExt

CONSTANTS
    Policies,    \* the policies a user can choose
    DefaultPolicy,
    NoPolicy,    \* no policy
    MaxTurns,    \* bound on the turns begun
    MaxChanges,  \* bound on the policy changes
    MaxUpsets    \* bound on the failed saves and the crashes of the server

ASSUME PolicyAssumption == DefaultPolicy \in Policies /\ NoPolicy \notin Policies
ASSUME BoundAssumption ==
    /\ MaxTurns \in Nat /\ MaxChanges \in Nat /\ MaxUpsets \in Nat

Turns == 1 .. MaxTurns
Refs  == 0 .. MaxTurns
Revs  == 1 .. MaxChanges + 1

Phases ==
    {"unborn",     \* not begun
     "settling",   \* reserved, no policy admitted yet
     "preparing",  \* admitted; the runtime, the prompt and the memory gates
     "booting",    \* the engine start may be aborted from here on
     "recording",  \* its admission is being saved
     "draining",   \* waits for the pump of the query it replaces
     "spawning",   \* the query is being launched
     "prompting",  \* active; the engine is asked to take the policy
     "applying",   \* the engine's acknowledgement is being saved
     "running",    \* its prompt was sent
     "failing",    \* its rejection is being saved
     "ended"}

Booted == {"prompting", "applying", "running"}

TurnRecord ==
    [at : Phases, rev : Revs \cup {0}, policy : Policies \cup {NoPolicy},
     query : Refs,            \* the query it runs in, or waits for
     cancelled : BOOLEAN,     \* the reservation's cancelled flag
     aborted : BOOLEAN]       \* its start controller's signal

Service ==
    [desired : Policies, rev : Revs, effective : Policies \cup {NoPolicy},
     turn : Refs, blocked : BOOLEAN, uncertain : BOOLEAN, restart : BOOLEAN,
     rejected : BOOLEAN]

NoService == [rev |-> 0]

Saved == [policy : Policies, rev : Revs, uncertain : BOOLEAN, rejected : BOOLEAN]

\* Who awaits a save: turn t, nobody who acts on it (0), the policy change, or one
\* of the two callers of cancel(), whose writes are an entry of the same chain.
Change     == MaxTurns + 1
UserStop   == MaxTurns + 2
ChangeStop == MaxTurns + 3
Stoppers   == {UserStop, ChangeStop}

VARIABLES
    stored,    \* the store's policy and policy state of the chat
    saves,     \* the pending saves
    svc,       \* the service's runtime state, NoService before its first use
    scope,     \* policyScopes: the turn whose scope is held
    turn,      \* the turns
    owner,     \* startupReservations: the turn that holds the reservation
    starting,  \* startingChats
    launching, \* engineStartAbortControllers: the turn whose controller it is
    active,    \* activeTurns
    query,     \* claudeSessions: the registered query
    pump,      \* what each query is doing
    mode,      \* the permission mode each query works under
    change,    \* the running policy change
    stop,      \* the running cancellations, by their caller
    idle,      \* the query an idle close is retiring
    question,  \* the approval question, the turn that asks, and whether it asked
               \* before its own prompt was sent
    tainted,   \* history: the first revision requested over a live runtime
    changes, upsets

vars == <<stored, saves, svc, scope, turn, owner, starting, launching, active, query,
          pump, mode, change, stop, idle, question, tainted, changes, upsets>>

native == <<query, pump, mode>>
chat   == <<owner, starting, launching, active>>
bounds == <<changes, upsets>>

Unborn  == [at |-> "unborn", rev |-> 0, policy |-> NoPolicy, query |-> 0,
            cancelled |-> FALSE, aborted |-> FALSE]
NoQuestion == [turn |-> 0, at |-> "none", early |-> FALSE]
NoChange   == [at |-> "none", running |-> FALSE, query |-> 0]
NoStop     == [at |-> "none", turn |-> 0, query |-> 0]

Init ==
    /\ stored = [policy |-> DefaultPolicy, rev |-> 1, uncertain |-> FALSE, rejected |-> FALSE]
    /\ saves = <<>>
    /\ svc = NoService
    /\ scope = 0 /\ owner = 0 /\ starting = FALSE /\ launching = 0 /\ active = 0
    /\ turn = [t \in Turns |-> Unborn]
    /\ query = 0
    /\ pump = [q \in Turns |-> "none"]
    /\ mode = [q \in Turns |-> NoPolicy]
    /\ change = NoChange
    /\ stop = [w \in Stoppers |-> NoStop]
    /\ idle = 0
    /\ question = NoQuestion
    /\ tainted = 0
    /\ changes = 0 /\ upsets = 0

---------------------------------------------------------------------------
\* HarnessPolicyService

\* ensure(): the service's state of the chat, made from the store's if there is none.
Ensured ==
    IF svc # NoService THEN svc
    ELSE [desired |-> stored.policy, rev |-> stored.rev, effective |-> NoPolicy,
          turn |-> 0, blocked |-> TRUE, uncertain |-> stored.uncertain,
          restart |-> FALSE, rejected |-> stored.rejected]

\* Mutant: the doubt about older processes is recomputed by every request.
RequestedAnew(v, p, running) ==
    [v EXCEPT !.desired = p, !.rev = @ + 1, !.blocked = TRUE, !.rejected = FALSE,
              !.uncertain = running, !.restart = running]

Requested(v, p, running) ==
    [v EXCEPT !.desired = p, !.rev = @ + 1, !.blocked = TRUE, !.rejected = FALSE,
              !.uncertain = @ \/ running, !.restart = running]

\* Mutant: the acknowledgement of the retired runtime stays.
RetiredKeepingAck(v) == [v EXCEPT !.restart = FALSE, !.turn = 0, !.blocked = TRUE]

\* nativeRuntimeRetired
Retired(v) ==
    [v EXCEPT !.restart = FALSE, !.turn = 0, !.blocked = TRUE, !.effective = NoPolicy]

Reconciled(v, runtime) == IF runtime = "absent" /\ v.restart THEN Retired(v) ELSE v

Begun(v, t) == [v EXCEPT !.turn = t, !.blocked = FALSE, !.rejected = FALSE]

CurrentIn(v, t) ==
    /\ t # 0 /\ v # NoService
    /\ ~v.blocked /\ v.turn = t /\ v.rev = turn[t].rev

Applied(v)  == [v EXCEPT !.effective = v.desired]
Rejected(v) == [v EXCEPT !.blocked = TRUE, !.rejected = TRUE]

\* endTurn
Finished(v, t) == IF CurrentIn(v, t) THEN [v EXCEPT !.turn = 0, !.blocked = TRUE] ELSE v

\* What snapshot() reports as effective.
Reported(runtime) == IF runtime = "present" THEN svc.effective ELSE NoPolicy

---------------------------------------------------------------------------
\* The coordinator's helpers

\* harnessNativeRuntime
NativeRuntime(q, starter) ==
    IF q # 0 THEN "present" ELSE IF starter # 0 THEN "starting" ELSE "absent"

\* executionPolicyFor and ensure, before whatever the handler does.
ServiceNow(q, starter) == Reconciled(Ensured, NativeRuntime(q, starter))

Blocked == change.at # "none"

\* isPolicyCurrent
PolicyCurrent(t) == ~Blocked /\ CurrentIn(svc, t)

\* startupReservationIsCurrent
Reserved(t) == ~turn[t].cancelled /\ owner = t /\ ~Blocked

\* The check that follows every await of bootEngineTurn.
Stopped(t) == turn[t].cancelled \/ turn[t].aborted \/ Blocked

Save(v, by) == [by |-> by, policy |-> v.desired, rev |-> v.rev,
                uncertain |-> v.uncertain, rejected |-> v.rejected]
StopWrite(who) == [by |-> who, policy |-> DefaultPolicy, rev |-> 0,
                   uncertain |-> FALSE, rejected |-> FALSE]

\* The write at the head of the chain is by's, and it lands or fails; the reducer
\* drops a state older than the one it holds.
HeadIs(by) == saves # <<>> /\ Head(saves).by = by
Lands(by) ==
    /\ HeadIs(by)
    /\ stored' = LET w == Head(saves)
                 IN  IF w.rev < stored.rev THEN stored
                     ELSE [policy |-> w.policy, rev |-> w.rev,
                           uncertain |-> w.uncertain, rejected |-> w.rejected]
    /\ UNCHANGED upsets
Breaks(by) == HeadIs(by) /\ upsets < MaxUpsets /\ upsets' = upsets + 1 /\ UNCHANGED stored

Retire(q) == pump' = [pump EXCEPT ![q] = IF @ = "live" THEN "retired" ELSE @]

\* Mutant: whatever query is registered goes.
UnregisteredAny(q) == 0

\* A retired query leaves the registry when the handler that retired it sees its
\* pump end.
Unregistered(q) == IF query = q THEN 0 ELSE query

\* releasePolicyInteraction: the active turn's pending question is given up.
Pending(t) == t # 0 /\ question.turn = t /\ question.at = "pending"
\* Mutant: a question outlives its scope.
NeverReleased == question
Released == IF Pending(active) THEN NoQuestion ELSE question

\* settleStartupReservation: a cancellation still being recorded keeps both.
CancelPending(t) == \E w \in Stoppers : stop[w].turn = t /\ stop[w].at = "saving"
Settles(t) == IF owner = t /\ ~CancelPending(t)
              THEN owner' = 0 /\ starting' = FALSE
              ELSE UNCHANGED <<owner, starting>>

\* The finally of bootEngineTurn and of startTurnForChat, v being the service's state.
Unwinds(t, v) ==
    /\ svc' = IF scope = t THEN Finished(v, t) ELSE v
    /\ scope' = IF scope = t THEN 0 ELSE scope
    /\ launching' = IF launching = t THEN 0 ELSE launching
    /\ turn' = [turn EXCEPT ![t].at = "ended"]
    /\ Settles(t)

\* The catch of bootEngineTurn: the scope the chat holds is rejected.
Fails(t, v, chain) ==
    IF CurrentIn(v, scope)
    THEN /\ svc' = Rejected(v)
         /\ saves' = Append(chain, Save(Rejected(v), t))
         /\ turn' = [turn EXCEPT ![t].at = "failing"]
         /\ UNCHANGED <<scope, launching, owner, starting>>
    ELSE Unwinds(t, v) /\ saves' = chain

\* retireHarnessPolicyIfAbsent, once the registry holds q.
RetiresIfAbsent(q) ==
    IF NativeRuntime(q, launching) # "absent" THEN UNCHANGED <<svc, saves>>
    ELSE LET v == Retired(Ensured)
         IN  svc' = v /\ saves' = Append(saves, Save(v, 0))

---------------------------------------------------------------------------
\* The start of a turn

\* startTurnForChat up to its first await.
Send(t) ==
    /\ turn[t].at = "unborn" /\ \A u \in Turns : u < t => turn[u].at # "unborn"
    /\ ~starting /\ active = 0
    /\ turn' = [turn EXCEPT ![t].at = "settling"]
    /\ owner' = t /\ starting' = TRUE
    /\ UNCHANGED <<stored, saves, svc, scope, launching, active, native, change, stop,
                   idle, question, tainted, bounds>>

\* beginTurn, or the refusal of a policy that is changing, stale or not retired.
BeginTurn(t) ==
    LET v == ServiceNow(query, launching)
    IN  /\ turn[t].at = "settling"
        /\ IF turn[t].cancelled \/ Blocked
           THEN Unwinds(t, svc)
           ELSE IF v.restart \/ stored.rev # v.rev \/ stored.policy # v.desired
           THEN Unwinds(t, v)
           ELSE /\ svc' = Begun(v, t)
                /\ scope' = t
                /\ turn' = [turn EXCEPT ![t].at = "preparing", ![t].rev = v.rev,
                                        ![t].policy = v.desired]
                /\ UNCHANGED <<owner, starting, launching>>
        /\ UNCHANGED <<stored, saves, active, native, change, stop, idle, question,
                       tainted, bounds>>

\* bootEngineTurn takes the controller that aborts the start.
Boot(t) ==
    /\ turn[t].at = "preparing"
    /\ IF turn[t].cancelled \/ Blocked THEN Unwinds(t, svc)
       ELSE /\ launching' = t
            /\ turn' = [turn EXCEPT ![t].at = "booting"]
            /\ UNCHANGED <<svc, scope, owner, starting>>
    /\ UNCHANGED <<stored, saves, active, native, change, stop, idle, question,
                   tainted, bounds>>

\* The admission is checked against the store and the service, and saved.
Admit(t) ==
    LET v == ServiceNow(query, launching)
    IN  /\ turn[t].at = "booting"
        /\ IF Stopped(t) THEN Unwinds(t, svc) /\ UNCHANGED saves
           ELSE IF CurrentIn(v, t) /\ stored.rev = turn[t].rev
           THEN /\ svc' = v
                /\ saves' = Append(saves, Save(v, t))
                /\ turn' = [turn EXCEPT ![t].at = "recording"]
                /\ UNCHANGED <<scope, owner, starting, launching>>
           ELSE Fails(t, v, saves)
        /\ UNCHANGED <<stored, active, native, change, stop, idle, question,
                       tainted, bounds>>

\* The turn becomes active in query q, unless it was stopped meanwhile.
Registers(t, q) ==
    IF Stopped(t) THEN Unwinds(t, svc) /\ UNCHANGED active
    ELSE /\ active' = t
         /\ launching' = IF launching = t THEN 0 ELSE launching
         /\ turn' = [turn EXCEPT ![t].at = "prompting", ![t].query = q]
         /\ UNCHANGED <<svc, scope, owner, starting>>

\* startClaudeTurn: the live query is used again, or retired and replaced.
Recorded(t) ==
    /\ turn[t].at = "recording" /\ Lands(t) /\ saves' = Tail(saves)
    /\ IF ~Reserved(t) THEN Unwinds(t, svc) /\ UNCHANGED <<active, pump>>
       ELSE \/ /\ query # 0 /\ pump[query] = "live"
               /\ Registers(t, query)
               /\ UNCHANGED pump
            \/ /\ query # 0
               /\ Retire(query)
               /\ turn' = [turn EXCEPT ![t].at = "draining", ![t].query = query]
               /\ UNCHANGED <<svc, scope, owner, starting, launching, active>>
            \/ /\ query = 0
               /\ turn' = [turn EXCEPT ![t].at = "spawning"]
               /\ UNCHANGED <<svc, scope, owner, starting, launching, active, pump>>
    /\ UNCHANGED <<query, mode, change, stop, idle, question, tainted, changes>>

RecordingFails(t) ==
    /\ turn[t].at = "recording" /\ Breaks(t)
    /\ Fails(t, svc, Tail(saves))
    /\ UNCHANGED <<active, native, change, stop, idle, question, tainted, changes>>

OldQueryDrained(t) ==
    /\ turn[t].at = "draining" /\ pump[turn[t].query] = "ended"
    /\ query' = Unregistered(turn[t].query)
    /\ IF Reserved(t)
       THEN /\ turn' = [turn EXCEPT ![t].at = "spawning"]
            /\ UNCHANGED <<svc, scope, owner, starting, launching>>
       ELSE Unwinds(t, svc)
    /\ UNCHANGED <<stored, saves, active, pump, mode, change, stop, idle, question,
                   tainted, bounds>>

\* The old query does not close in time, or the new one does not come up.
StartFails(t) ==
    /\ \/ turn[t].at = "draining" /\ pump[turn[t].query] # "ended"
       \/ turn[t].at = "spawning"
    /\ Fails(t, svc, saves)
    /\ UNCHANGED <<stored, active, native, change, stop, idle, question, tainted, bounds>>

Spawned(t) ==
    /\ turn[t].at = "spawning"
    /\ IF Reserved(t)
       THEN /\ query' = t
            /\ pump' = [pump EXCEPT ![t] = "live"]
            /\ mode' = [mode EXCEPT ![t] = turn[t].policy]
            /\ Registers(t, t)
       ELSE Unwinds(t, svc) /\ UNCHANGED <<active, native>>
    /\ UNCHANGED <<stored, saves, change, stop, idle, question, tainted, bounds>>

RejectionSaved(t) ==
    /\ turn[t].at = "failing" /\ (Lands(t) \/ Breaks(t)) /\ saves' = Tail(saves)
    /\ Unwinds(t, svc)
    /\ UNCHANGED <<active, native, change, stop, idle, question, tainted, changes>>

---------------------------------------------------------------------------
\* The prompt

\* A rejected prompt leaves neither the turn nor its query registered.
PromptFails(t) ==
    /\ active' = IF active = t THEN 0 ELSE active
    /\ query' = Unregistered(turn[t].query)
    /\ Retire(turn[t].query)
    /\ Unwinds(t, svc)

\* The engine took the turn's permission mode; if the policy is still current,
\* that is its acknowledgement.
ModeTaken(t) ==
    LET q == turn[t].query
    IN  /\ turn[t].at = "prompting" /\ pump[q] = "live"
        /\ mode' = [mode EXCEPT ![q] = turn[t].policy]
        /\ IF PolicyCurrent(t)
           THEN /\ svc' = Applied(svc)
                /\ saves' = Append(saves, Save(Applied(svc), t))
                /\ turn' = [turn EXCEPT ![t].at = "applying"]
                /\ UNCHANGED <<chat, scope, query, pump>>
           ELSE PromptFails(t) /\ UNCHANGED saves
        /\ UNCHANGED <<stored, change, stop, idle, question, tainted, bounds>>

ModeRefused(t) ==
    /\ turn[t].at = "prompting"
    /\ PromptFails(t)
    /\ UNCHANGED <<stored, saves, mode, change, stop, idle, question, tainted, bounds>>

\* The acknowledgement is saved; the prompt goes out if the policy still holds.
Prompted(t) ==
    /\ turn[t].at = "applying" /\ Lands(t) /\ saves' = Tail(saves)
    /\ IF PolicyCurrent(t)
       THEN /\ turn' = [turn EXCEPT ![t].at = "running"]
            /\ Settles(t)
            /\ UNCHANGED <<svc, scope, launching, active, query, pump>>
       ELSE PromptFails(t)
    /\ UNCHANGED <<mode, change, stop, idle, question, tainted, changes>>

ApplyingFails(t) ==
    /\ turn[t].at = "applying" /\ Breaks(t) /\ saves' = Tail(saves)
    /\ PromptFails(t)
    /\ UNCHANGED <<mode, change, stop, idle, question, tainted, changes>>

---------------------------------------------------------------------------
\* The end of a turn and of a query

\* endPolicyTurn of the active turn, which then leaves activeTurns.
ActiveEnds ==
    /\ svc' = IF scope = active THEN Finished(svc, active) ELSE svc
    /\ scope' = IF scope = active THEN 0 ELSE scope
    /\ question' = IF scope = active THEN Released ELSE question
    /\ active' = 0
    /\ turn' = [turn EXCEPT ![active].at = IF @ = "running" THEN "ended" ELSE @]

Result(t) ==
    /\ turn[t].at = "running" /\ active = t /\ ~turn[t].cancelled
    /\ query = turn[t].query /\ pump[query] = "live"
    /\ ActiveEnds
    /\ UNCHANGED <<stored, saves, owner, starting, launching, native, change, stop, idle,
                   tainted, bounds>>

\* The end of runClaudeSession: a query that was not retired ends by itself, with
\* the turn it carries, and the policy's runtime with it.
QueryEnds(q) ==
    /\ pump[q] = "live" /\ query = q
    /\ pump' = [pump EXCEPT ![q] = "ended"]
    /\ query' = 0
    /\ LET v == IF active = 0 \/ scope # active THEN svc ELSE Finished(svc, active)
           absent == NativeRuntime(0, launching) = "absent"
           gone == Retired(v)
       IN  /\ svc' = IF absent THEN gone ELSE v
           /\ saves' = IF absent THEN Append(saves, Save(gone, 0)) ELSE saves
    /\ IF active = 0 THEN UNCHANGED <<scope, question, active, turn>>
       ELSE /\ scope' = IF scope = active THEN 0 ELSE scope
            /\ question' = IF scope = active THEN Released ELSE question
            /\ active' = 0
            /\ turn' = [turn EXCEPT ![active].at = IF @ = "running" THEN "ended" ELSE @]
    /\ UNCHANGED <<stored, owner, starting, launching, mode, change, stop, idle,
                   tainted, bounds>>

\* A retired query's pump has drained.
PumpDrains(q) ==
    /\ pump[q] = "retired"
    /\ pump' = [pump EXCEPT ![q] = "ended"]
    /\ UNCHANGED <<stored, saves, svc, scope, turn, chat, query, mode, change, stop, idle,
                   question, tainted, bounds>>

\* closeIdleSession up to its await.
IdleClose ==
    /\ idle = 0 /\ active = 0 /\ ~starting /\ owner = 0 /\ launching = 0
    /\ query # 0 /\ pump[query] = "live"
    /\ Retire(query) /\ idle' = query
    /\ UNCHANGED <<stored, saves, svc, scope, turn, chat, query, mode, change, stop,
                   question, tainted, bounds>>

IdleClosed ==
    /\ idle # 0 /\ idle' = 0
    /\ IF pump[idle] = "ended"
       THEN query' = Unregistered(idle) /\ RetiresIfAbsent(Unregistered(idle))
       ELSE UNCHANGED <<query, svc, saves>>        \* it did not close in time
    /\ UNCHANGED <<stored, scope, turn, chat, pump, mode, change, stop, question,
                   tainted, bounds>>

---------------------------------------------------------------------------
\* cancel()

\* Up to its first await; saves are those that were pending before.  It ends the
\* held scope without releasing the question, then stops the active turn, or the
\* starting one.
Stops(who, chain) ==
    LET live == active # 0 /\ ~turn[active].cancelled
        begun == active = 0 /\ starting
        victim == IF live THEN active ELSE owner
    IN  /\ svc' = Finished(svc, scope)
        /\ scope' = 0
        /\ IF begun /\ CancelPending(owner)
           THEN /\ stop' = [stop EXCEPT ![who] = [at |-> "joined", turn |-> owner, query |-> 0]]
                /\ saves' = chain
                /\ UNCHANGED <<turn, question>>
           ELSE IF live \/ begun
           THEN /\ turn' = [turn EXCEPT ![victim].cancelled = TRUE,
                                        ![victim].aborted = @ \/ launching = victim]
                /\ stop' = [stop EXCEPT ![who] = [at |-> "saving", turn |-> victim,
                                                  query |-> 0]]
                /\ saves' = Append(chain, StopWrite(who))
                /\ question' = IF Pending(active)
                               THEN [question EXCEPT !.at = "closing"] ELSE question
           ELSE saves' = chain /\ UNCHANGED <<turn, stop, question>>

UserStops ==
    /\ stop[UserStop] = NoStop /\ (active # 0 \/ starting)
    /\ Stops(UserStop, saves)
    /\ UNCHANGED <<stored, chat, native, change, idle, tainted, bounds>>

\* The interruption is recorded.  A turn the engine had not started takes its query
\* along; one that runs is interrupted.
Interrupted(who) ==
    LET t == stop[who].turn
        settled == turn[t].at \in {"running", "ended"}
    IN  /\ stop[who].at = "saving" /\ Lands(who) /\ saves' = Tail(saves)
        /\ starting' = (starting /\ owner # t)
        /\ owner' = IF owner = t /\ settled THEN 0 ELSE owner
        /\ question' = IF question.turn = t THEN NoQuestion ELSE question
        /\ active' = IF turn[t].at \in Booted THEN 0 ELSE active
        /\ turn' = [turn EXCEPT ![t].at = IF @ = "running" THEN "ended" ELSE @]
        /\ \/ /\ turn[t].at \in Booted /\ query # 0 /\ Retire(query)
              /\ stop' = [stop EXCEPT ![who] = [at |-> "draining", turn |-> 0, query |-> query]]
           \/ /\ turn[t].at \notin {"prompting", "applying"} \/ query = 0
              /\ stop' = [stop EXCEPT ![who] = NoStop]
              /\ UNCHANGED pump
    /\ UNCHANGED <<svc, scope, launching, query, mode, change, idle, tainted, changes>>

\* Its wait for the retired query ends with the pump or after a while; a second
\* cancel() of a start waits for the first.
StopEnds(who) ==
    /\ \/ /\ stop[who].at = "draining"
          /\ query' = IF pump[stop[who].query] = "ended"
                      THEN Unregistered(stop[who].query) ELSE query
       \/ /\ stop[who].at = "joined" /\ ~CancelPending(stop[who].turn)
          /\ UNCHANGED query
    /\ stop' = [stop EXCEPT ![who] = NoStop]
    /\ UNCHANGED <<stored, saves, svc, scope, turn, chat, pump, mode, change, idle, question,
                   tainted, bounds>>

---------------------------------------------------------------------------
\* setExecutionPolicy

\* The request revokes at once; persistence and interruption follow.
SetPolicy(p) ==
    LET v == ServiceNow(query, launching)
        running == NativeRuntime(query, launching) # "absent"
        next == Requested(v, p, running)
    IN  /\ ~Blocked /\ changes < MaxChanges
        /\ svc' = next
        /\ saves' = Append(saves, Save(next, Change))
        /\ change' = [at |-> "saving", running |-> running, query |-> 0]
        /\ turn' = IF launching = 0 THEN turn ELSE [turn EXCEPT ![launching].aborted = TRUE]
        /\ tainted' = IF running /\ tainted = 0 THEN next.rev ELSE tainted
        /\ changes' = changes + 1
        /\ UNCHANGED <<stored, scope, chat, native, stop, idle, question, upsets>>

ChangeSaved ==
    /\ change.at = "saving" /\ Lands(Change)
    /\ change' = [change EXCEPT !.at = "stopping"]
    /\ IF change.running \/ active # 0 \/ starting
       THEN Stops(ChangeStop, Tail(saves))
       ELSE saves' = Tail(saves) /\ UNCHANGED <<svc, scope, turn, stop, question>>
    /\ UNCHANGED <<chat, native, idle, tainted, changes>>

\* The last state of a change, once the registry holds q.
Closes(q) ==
    LET v == IF NativeRuntime(q, launching) = "present" THEN svc ELSE Retired(svc)
    IN  /\ svc' = v
        /\ saves' = Append(saves, Save(v, Change))
        /\ change' = [change EXCEPT !.at = "closing", !.query = 0]

ChangeCloses ==
    /\ change.at = "stopping" /\ stop[ChangeStop] = NoStop
    /\ IF query = 0 THEN Closes(0) /\ UNCHANGED pump
       ELSE /\ Retire(query)
            /\ change' = [change EXCEPT !.at = "retiring", !.query = query]
            /\ UNCHANGED <<svc, saves>>
    /\ UNCHANGED <<stored, scope, turn, chat, query, mode, stop, idle, question, tainted, bounds>>

ChangeRetired ==
    /\ change.at = "retiring" /\ pump[change.query] = "ended"
    /\ query' = Unregistered(change.query)
    /\ Closes(Unregistered(change.query))
    /\ UNCHANGED <<stored, scope, turn, chat, pump, mode, stop, idle, question, tainted, bounds>>

ChangeDone ==
    /\ change.at = "closing" /\ Lands(Change) /\ saves' = Tail(saves)
    /\ change' = NoChange
    /\ UNCHANGED <<svc, scope, turn, chat, native, stop, idle, question, tainted, changes>>

\* A save fails or the query does not close in time: the request is refused, and the
\* question of the turn it found is given up.
ChangeFails ==
    /\ \/ /\ change.at \in {"saving", "closing"} /\ Breaks(Change) /\ saves' = Tail(saves)
       \/ /\ change.at = "retiring" /\ pump[change.query] # "ended"
          /\ UNCHANGED <<stored, saves, upsets>>
    /\ change' = NoChange
    /\ question' = Released
    /\ UNCHANGED <<svc, scope, turn, chat, native, stop, idle, tainted, changes>>

---------------------------------------------------------------------------
\* Approval questions, snapshots and crashes

\* requestExecutionApproval for a tool of turn t's query; a query used again may
\* have work in the background before t's prompt is sent.
Ask(t) ==
    /\ question = NoQuestion /\ active = t /\ PolicyCurrent(t)
    /\ pump[turn[t].query] = "live"
    /\ turn[t].at = "running" \/ turn[t].query # t
    /\ question' = [turn |-> t, at |-> "asked", early |-> turn[t].at # "running"]
    /\ UNCHANGED <<stored, saves, svc, scope, turn, chat, native, change, stop, idle,
                   tainted, bounds>>

\* The question is in the transcript: it waits for the user, if it still may.
Present ==
    /\ question.at = "asked"
    /\ question' = IF CurrentIn(svc, question.turn) /\ active = question.turn
                   THEN [question EXCEPT !.at = "pending"] ELSE NoQuestion
    /\ UNCHANGED <<stored, saves, svc, scope, turn, chat, native, change, stop, idle,
                   tainted, bounds>>

\* respondTool refuses an answer to a question whose scope is gone.
Answer ==
    /\ question.at = "pending" /\ active = question.turn /\ CurrentIn(svc, question.turn)
    /\ question' = NoQuestion
    /\ UNCHANGED <<stored, saves, svc, scope, turn, chat, native, change, stop, idle,
                   tainted, bounds>>

\* Every snapshot pushed to a client finishes a restart whose handle is gone.
Look ==
    /\ svc # NoService /\ svc.restart /\ NativeRuntime(query, launching) = "absent"
    /\ svc' = Retired(svc)
    /\ UNCHANGED <<stored, saves, scope, turn, chat, native, change, stop, idle, question,
                   tainted, bounds>>

\* A save nobody acts on.
StateSaved ==
    /\ Lands(0) \/ Breaks(0)
    /\ saves' = Tail(saves)
    /\ UNCHANGED <<svc, scope, turn, chat, native, change, stop, idle, question, tainted,
                   changes>>

\* The server dies with everything but the store.
Crash ==
    /\ upsets < MaxUpsets /\ upsets' = upsets + 1
    /\ saves' = <<>> /\ svc' = NoService /\ scope' = 0
    /\ turn' = [t \in Turns |-> IF turn[t].at = "unborn" THEN Unborn
                                ELSE [Unborn EXCEPT !.at = "ended"]]
    /\ owner' = 0 /\ starting' = FALSE /\ launching' = 0 /\ active' = 0
    /\ query' = 0 /\ pump' = [q \in Turns |-> "none"] /\ mode' = [q \in Turns |-> NoPolicy]
    /\ change' = NoChange /\ stop' = [w \in Stoppers |-> NoStop] /\ idle' = 0
    /\ question' = NoQuestion
    /\ tainted' = IF tainted > stored.rev THEN 0 ELSE tainted
    /\ UNCHANGED <<stored, changes>>

Advance(t) ==
    \/ BeginTurn(t) \/ Boot(t) \/ Admit(t) \/ Recorded(t) \/ RecordingFails(t)
    \/ OldQueryDrained(t) \/ StartFails(t) \/ Spawned(t) \/ RejectionSaved(t)
    \/ ModeTaken(t) \/ ModeRefused(t) \/ Prompted(t) \/ ApplyingFails(t)

ChangeGoesOn == ChangeSaved \/ ChangeCloses \/ ChangeRetired \/ ChangeDone \/ ChangeFails

Next ==
    \/ \E t \in Turns : Send(t) \/ Advance(t) \/ Result(t) \/ QueryEnds(t) \/ PumpDrains(t)
                        \/ Ask(t)
    \/ IdleClose \/ IdleClosed
    \/ UserStops \/ \E w \in Stoppers : Interrupted(w) \/ StopEnds(w)
    \/ \E p \in Policies : SetPolicy(p)
    \/ ChangeGoesOn
    \/ Present \/ Answer \/ Look \/ StateSaved \/ Crash

\* Handlers run on, writes settle, and a wait for a query ends with its pump or
\* its timeout.
Fairness ==
    /\ \A t \in Turns : WF_vars(Advance(t))
    /\ \A w \in Stoppers : WF_vars(Interrupted(w)) /\ WF_vars(StopEnds(w))
    /\ WF_vars(ChangeGoesOn) /\ WF_vars(IdleClosed) /\ WF_vars(Present)
    /\ WF_vars(StateSaved)

Spec == Init /\ [][Next]_vars /\ Fairness

---------------------------------------------------------------------------
\* Properties

\* The state variables have the values their comments give them.
TypeOK ==
    /\ stored \in Saved
    /\ svc \in Service \cup {NoService}
    /\ turn \in [Turns -> TurnRecord]
    /\ {scope, owner, launching, active, query, idle} \subseteq Refs
    /\ starting \in BOOLEAN
    /\ pump \in [Turns -> {"none", "live", "retired", "ended"}]
    /\ mode \in [Turns -> Policies \cup {NoPolicy}]
    /\ change.at \in {"none", "saving", "stopping", "retiring", "closing"}
    /\ \A w \in Stoppers : stop[w].at \in {"none", "saving", "joined", "draining"}
    /\ question.at \in {"none", "asked", "pending", "closing"}
    /\ tainted \in Revs \cup {0}

\* A turn whose tool calls are admitted runs in the registered query, which works
\* under the policy the user last asked for, and that policy is the stored one: no
\* call runs under a policy that was replaced, or that a restart would take back.
RunsUnderDesired ==
    \A t \in Turns : turn[t].at = "running" /\ active = t /\ CurrentIn(svc, t) =>
        /\ query = turn[t].query /\ pump[query] = "live"
        /\ mode[query] = svc.desired
        /\ ~Blocked => stored.policy = svc.desired /\ stored.rev = svc.rev

\* What a client is shown as effective is the mode a registered query works under.
ReportedIsReal ==
    svc # NoService =>
        LET shown == Reported(NativeRuntime(query, launching))
        IN  shown # NoPolicy => mode[query] = shown

\* Once a policy that was requested over a live runtime is stored, the doubt about
\* the processes it left is stored with it, through every later save and crash.
UncertaintyIsKept == tainted # 0 /\ stored.rev >= tainted => stored.uncertain

\* A change of the policy does not leave the old policy's question waiting, so that the
\* tool call that asked is told and the chat's next question can be asked.  Left out is
\* the question of a query used again, asked before its new prompt is sent: when that
\* prompt is refused, nobody releases it.
ChangeReleasesQuestion ==
    (Blocked /\ question # NoQuestion /\ ~question.early) ~> question = NoQuestion
=============================================================================
