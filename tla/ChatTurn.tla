------------------------------ MODULE ChatTurn ------------------------------
(***************************************************************************)
(* The turns and the message queue of one chat: the startup reservations,  *)
(* sends, steering, cancellation and draining of src/server/agent.ts, with *)
(* enqueue-and-steer.ts.                                                   *)
(*                                                                         *)
(* Every await of these handlers is either a write of the event store or   *)
(* something outside: a runtime, an engine, a stream.  Store writes are    *)
(* one promise chain, so they finish in the order they were asked for, and *)
(* what a handler does up to its next await runs before the next write can *)
(* finish.  A step is therefore one event: a request, an answer from       *)
(* outside, or the write at the head of the chain with the code that waits *)
(* for it.  The code between two awaits is a chain of operators on the     *)
(* chat's state s, named for the methods they stand for.                   *)
(*                                                                         *)
(* Memory preparation is off: a turn goes straight from its prompt to its  *)
(* engine.  Turn 0 and message NoMsg stand for undefined.                  *)
(***************************************************************************)
EXTENDS Naturals, Sequences, SequencesExt

CONSTANTS
    Msgs,       \* the messages users write
    NoMsg,      \* no message
    MaxActs,    \* bound on the stops, steers, withdrawals and crashes
    MaxCrashes  \* bound on the crashes of the server

ASSUME MsgAssumption   == NoMsg \notin Msgs
ASSUME BoundAssumption == MaxActs \in Nat /\ MaxCrashes \in Nat

\* Where a message is: "held" is out of the queue with its prompt not yet written.
Places == {"unsent", "sending", "queued", "held", "prompt",
           "withdrawn", "stopped", "failed", "dropped", "lost"}
\* A startup up to its engine; a turn whose prompt is being delivered, which runs,
\* or whose end is being written; the stream left open after it.
Startup == {"prepare", "prompting", "recording", "directory", "policy", "engine"}
Running == {"delivering", "live", "finishing"}
Phases  == Startup \cup Running \cup {"draining", "ended"}
Ways    == {"send", "drain", "steer", "ask"}
Writes  == {"enqueue", "remove", "prompt", "started", "policy", "interrupted",
            "cancelled", "tool", "stopping", "stopped", "result", "finished", "failed", "late"}

Steers == Msgs \X {"steer", "ask"}

TurnRecord ==
    [msg : Msgs, by : Ways, phase : Phases,
     cancelled : BOOLEAN,     \* the reservation's cancelled flag, the turn's cancelRequested
     complete : BOOLEAN,      \* cancellationComplete, cancelRecorded
     settled : BOOLEAN,       \* startupSettled
     writing : BOOLEAN,       \* promptWrite is pending
     recorded : BOOLEAN,      \* the reservation has its cancellation promise
     closed : BOOLEAN,        \* the stream ended
     joined : Seq(Steers),    \* steers that await the startup's cancellation
     canceller : Seq(Steers)] \* the steer that cancelled the running turn

VARIABLES
    s,        \* the chat: store, coordinator maps and pending writes
    acts,     \* counter of user requests other than messages, and of crashes
    crashes   \* counter of crashes

vars == <<s, acts, crashes>>

\* queue      the store's queued messages
\* chain      the pending writes, each with the code that awaits it
\* holder     startupReservations.get(chat)
\* starting   startingChats.has(chat)
\* active     activeTurns.get(chat)
\* turns      every turn begun since the last crash, oldest first
\* stream     the provider gives each turn a stream of its own; else one session,
\*            whose pump serves every turn
\* place      where each message is
\* prompts    history: how often a message was put into the transcript
\* reply      what an enqueue-and-steer request was told
Empty(stream) ==
    [queue |-> <<>>, chain |-> <<>>, holder |-> 0, starting |-> FALSE, active |-> 0,
     turns |-> <<>>, stream |-> stream, place |-> [m \in Msgs |-> "unsent"],
     prompts |-> [m \in Msgs |-> 0], reply |-> [m \in Msgs |-> "none"]]

Init == s \in {Empty(stream) : stream \in BOOLEAN} /\ acts = 0 /\ crashes = 0

---------------------------------------------------------------------------
\* The code between two awaits

Write(op, t, m, by) == [op |-> op, turn |-> t, msg |-> m, by |-> by]

\* enqueueWrite
Push(c, w) == [c EXCEPT !.chain = Append(@, w)]

OfTurn(c, op, t) == Push(c, Write(op, t, NoMsg, "turn"))

Queued(c, m) == \E i \in 1 .. Len(c.queue) : c.queue[i] = m

Busy(c) == c.active # 0 \/ c.starting

Told(c, m, answer) == [c EXCEPT !.reply[m] = answer]

\* maybeStartNextQueuedMessage and the start of dequeueAndStartQueuedMessage.
Drain(c) ==
    IF c.active # 0 \/ c.queue = <<>> THEN c
    ELSE Push(c, Write("remove", 0, Head(c.queue), "drain"))

\* A cancelled startup keeps the chat marked as starting until the interruption
\* is recorded.
CancelPending(c, t) == c.turns[t].cancelled /\ ~c.turns[t].complete

\* releaseStartupStatus
ReleaseStatus(c, t) ==
    IF c.holder = t /\ ~CancelPending(c, t) THEN [c EXCEPT !.starting = FALSE] ELSE c

\* settleStartupReservation
Settle(c, t) ==
    LET released == ReleaseStatus([c EXCEPT !.turns[t].settled = TRUE], t)
        free     == [released EXCEPT !.holder = 0]
    IN  IF released.holder # t \/ CancelPending(released, t) THEN released
        ELSE IF c.turns[t].cancelled /\ ~Busy(free) THEN Drain(free)
        ELSE free

\* The return or the throw that ends a startup: its finally, then what its caller
\* tells whoever asked.
Unwind(c, t, failed) ==
    LET m   == c.turns[t].msg
        out == [c EXCEPT !.turns[t].phase = "ended",
                         !.place[m] = IF @ # "held" THEN @
                                      ELSE IF failed THEN "failed" ELSE "stopped"]
        end == Settle(out, t)
    IN  IF c.turns[t].by # "ask" THEN end
        ELSE Told(end, m, IF failed THEN "refused" ELSE "ok")

\* startTurnForChat up to its first await.  Refused, a message already taken from
\* the queue is in nobody's hands, unless another startup has it.
Refuse(c, m, by) ==
    LET out == [c EXCEPT !.place[m] = IF @ = "queued" THEN "dropped" ELSE @]
    IN  IF by = "ask" THEN Told(out, m, "refused") ELSE out

StartEvenIfBusy(c, m, by) ==
    [c EXCEPT !.turns = Append(@, [msg |-> m, by |-> by, phase |-> "prepare",
                                   cancelled |-> FALSE, complete |-> FALSE,
                                   settled |-> FALSE, writing |-> FALSE,
                                   recorded |-> FALSE, closed |-> FALSE,
                                   joined |-> <<>>, canceller |-> <<>>]),
              !.holder = Len(c.turns) + 1,
              !.starting = TRUE,
              !.place[m] = IF @ = "prompt" THEN @ ELSE "held"]

Start(c, m, by) == IF Busy(c) THEN Refuse(c, m, by) ELSE StartEvenIfBusy(c, m, by)

SteerOnOrRefuse(c, m, by) ==
    IF Busy(c) THEN (IF by = "ask" THEN Told(c, m, "refused") ELSE c)
    ELSE IF ~Queued(c, m) THEN (IF by = "ask" THEN Told(c, m, "ok") ELSE c)
    ELSE Push(c, Write("remove", 0, m, by))

\* The second half of steer(), after the cancellation if there was one.  An
\* enqueue-and-steer request that only found the chat busy leaves it queued.
SteerOn(c, m, by) ==
    IF Busy(c)
    THEN IF by # "ask" THEN c
         ELSE Told(c, m, IF Queued(c, m) THEN "ok" ELSE "refused")
    ELSE IF ~Queued(c, m) THEN (IF by = "ask" THEN Told(c, m, "ok") ELSE c)
    ELSE Push(c, Write("remove", 0, m, by))

SteerAll(c, steers) ==
    LET after[i \in 0 .. Len(steers)] ==
            IF i = 0 THEN c ELSE SteerOn(after[i - 1], steers[i][1], steers[i][2])
    IN  after[Len(steers)]

\* cancelStartupReservation
CancelReservation(c, t) == ReleaseStatus([c EXCEPT !.turns[t].cancelled = TRUE], t)

\* cancel() for a startup: the chat is "starting" and has no active turn.
StopStartup(c, steers) ==
    LET t      == c.holder
        marked == [CancelReservation(c, t) EXCEPT !.turns[t].recorded = TRUE,
                                                  !.turns[t].joined = @ \o steers]
    IN  IF c.turns[t].recorded \/ c.turns[t].writing THEN marked
        ELSE OfTurn(marked, "interrupted", t)

\* cancel() for the active turn, with a pending tool request to answer or without.
StopActive(c, steers, tool) ==
    LET t      == c.active
        marked == [CancelReservation(c, t) EXCEPT !.turns[t].canceller = steers]
    IN  IF c.turns[t].cancelled THEN SteerAll(c, steers)
        ELSE OfTurn(marked, IF tool THEN "tool" ELSE "stopping", t)

\* cancel(), and what a steer that asked for it does if there is nothing to await.
Cancel(c, steers, tool) ==
    IF c.active # 0 THEN StopActive(c, steers, tool)
    ELSE IF c.starting THEN StopStartup(c, steers)
    ELSE SteerAll(c, steers)

\* steer()
SteerNow(c, m, by, tool) ==
    IF Busy(c) THEN Cancel(c, << <<m, by>> >>, tool) ELSE SteerOn(c, m, by)

---------------------------------------------------------------------------
\* What waits for each write

\* The store's append and, for an enqueue-and-steer request, steer() at once.
Enqueued(c, w, tool) ==
    LET in == [c EXCEPT !.queue = Append(@, w.msg), !.place[w.msg] = "queued"]
    IN  IF w.by = "ask" THEN SteerNow(in, w.msg, "ask", tool) ELSE in

RemovedFromHead(c, w) ==
    Start([c EXCEPT !.queue = IF @ # <<>> /\ Head(@) = w.msg THEN Tail(@) ELSE @],
          w.msg, w.by)

\* The store's filter; a message is queued at most once.
Without(q, m) ==
    LET at == {i \in 1 .. Len(q) : q[i] = m}
    IN  IF at = {} THEN q ELSE RemoveAt(q, CHOOSE i \in at : TRUE)

\* A removal that was asked for while another was pending finds no row, and its
\* caller goes on as if it had removed one.
Removed(c, w) ==
    LET out == [c EXCEPT !.queue = Without(@, w.msg)]
    IN  IF w.by # "user" THEN Start(out, w.msg, w.by)
        ELSE [out EXCEPT !.place[w.msg] = IF @ = "queued" THEN "withdrawn" ELSE @]

PromptWrittenForgetsStop(c, t) ==
    LET done == [c EXCEPT !.prompts[c.turns[t].msg] = @ + 1,
                          !.place[c.turns[t].msg] = "prompt",
                          !.turns[t].writing = FALSE, !.turns[t].phase = "recording"]
    IN  IF c.turns[t].cancelled THEN Unwind(done, t, FALSE) ELSE OfTurn(done, "started", t)

\* startTurnForChat after its prompt was written.  A cancellation that waited for
\* the write goes on after it.
PromptWritten(c, t) ==
    LET done == [c EXCEPT !.prompts[c.turns[t].msg] = @ + 1,
                          !.place[c.turns[t].msg] = "prompt",
                          !.turns[t].writing = FALSE, !.turns[t].phase = "recording"]
    IN  IF ~c.turns[t].cancelled THEN OfTurn(done, "started", t)
        ELSE OfTurn(Unwind(done, t, FALSE), "interrupted", t)

TurnStartWritten(c, t) ==
    IF c.turns[t].cancelled THEN Unwind(c, t, FALSE)
    ELSE [c EXCEPT !.turns[t].phase = "directory"]

\* bootEngineTurn once the policy state is written.
PolicyWritten(c, t) == [c EXCEPT !.turns[t].phase = "engine"]

\* The finally of recordStartupCancellation, then the steers that awaited it.
StartupCancelled(c, t) ==
    LET done == ReleaseStatus([c EXCEPT !.turns[t].complete = TRUE,
                                        !.turns[t].joined = <<>>], t)
    IN  SteerAll(IF c.turns[t].settled THEN Settle(done, t) ELSE done, c.turns[t].joined)

\* cancel() after recordTurnCancelled: it forgets the active turn, whichever it is.
TurnCancelled(c, t) ==
    LET done    == ReleaseStatus([c EXCEPT !.turns[t].complete = TRUE], t)
        settled == IF c.turns[t].settled THEN Settle(done, t) ELSE done
    IN  [settled EXCEPT !.active = 0,
                        !.turns[t].phase = IF @ = "live" THEN "ended" ELSE @]

Forget(c, t) == IF c.active = t THEN [c EXCEPT !.active = 0] ELSE c

\* A result was recorded.  A stream stays open behind it; the session's pump
\* drains the queue at once.
ResultHandled(c, t) ==
    LET done == [Forget(c, t) EXCEPT !.turns[t].phase =
                     IF ~c.stream THEN "ended"
                     ELSE IF c.turns[t].cancelled THEN "live" ELSE "draining"]
    IN  IF c.turns[t].cancelled \/ c.stream THEN done ELSE Drain(done)

ResultWritten(c, t) ==
    IF c.turns[t].cancelled THEN ResultHandled(c, t) ELSE OfTurn(c, "finished", t)

\* The end of runTurn's finally, or of the session pump's, which drains nothing.
\* The pump forgets the active turn, whichever it is.
StreamClosed(c, t) ==
    LET done == [c EXCEPT !.turns[t].phase = IF @ = "delivering" THEN @ ELSE "ended"]
    IN  IF ~c.stream THEN [done EXCEPT !.active = 0]
        ELSE IF c.turns[t].cancelled THEN Forget(done, t)
        ELSE Drain(Forget(done, t))

\* A turn cancelled but not yet recorded as such is recorded by its finally.
CloseStream(c, t) ==
    IF CancelPending(c, t) THEN OfTurn(c, "late", t) ELSE StreamClosed(c, t)

\* The code that awaits write w.
After(c, w, tool) ==
    CASE w.op = "enqueue"     -> Enqueued(c, w, tool)
      [] w.op = "remove"      -> Removed(c, w)
      [] w.op = "prompt"      -> PromptWritten(c, w.turn)
      [] w.op = "started"     -> TurnStartWritten(c, w.turn)
      [] w.op = "policy"      -> PolicyWritten(c, w.turn)
      [] w.op = "interrupted" -> OfTurn(c, "cancelled", w.turn)
      [] w.op = "cancelled"   -> StartupCancelled(c, w.turn)
      [] w.op = "tool"        -> OfTurn(c, "stopping", w.turn)
      [] w.op = "stopping"    -> OfTurn(c, "stopped", w.turn)
      [] w.op = "stopped"     -> TurnCancelled(c, w.turn)
      [] w.op = "result"      -> ResultWritten(c, w.turn)
      [] w.op = "finished"    -> ResultHandled(c, w.turn)
      [] w.op = "failed"      -> CloseStream(c, w.turn)
      [] w.op = "late"        -> StreamClosed(c, w.turn)

---------------------------------------------------------------------------
\* Events

\* Only the active turn can have a tool request to answer.
Tools == IF s.active # 0 THEN BOOLEAN ELSE {FALSE}

Step(c) == s' = c /\ UNCHANGED <<acts, crashes>>

Act(c) == acts < MaxActs /\ acts' = acts + 1 /\ s' = c /\ UNCHANGED crashes

\* The write at the head of the chain is done.
Flush ==
    /\ s.chain # <<>>
    /\ \E tool \in Tools :
           Step(After([s EXCEPT !.chain = Tail(@)], Head(s.chain), tool))

Posted(m) == [s EXCEPT !.place[m] = "sending"]

\* send(): a message for a busy chat is queued.
Send(m) ==
    /\ s.place[m] = "unsent"
    /\ Step(IF Busy(s) THEN Push(Posted(m), Write("enqueue", 0, m, "send"))
            ELSE Start(Posted(m), m, "send"))

\* enqueue(), alone or as the first half of enqueueAndMaybeSteer.
Enqueue(m) ==
    /\ s.place[m] = "unsent"
    /\ \E by \in {"send", "ask"} : Step(Push(Posted(m), Write("enqueue", 0, m, by)))

\* steer() of a queued message.
Steer(m) ==
    /\ Queued(s, m)
    /\ \E tool \in Tools : Act(SteerNow(s, m, "steer", tool))

\* dequeue()
Dequeue(m) == Queued(s, m) /\ Act(Push(s, Write("remove", 0, m, "user")))

\* cancel() by the user.
Stop == Busy(s) /\ \E tool \in Tools : Act(Cancel(s, <<>>, tool))

\* The awaits of startTurnForChat up to its prompt are over.
Prepared(t) ==
    /\ s.turns[t].phase = "prepare"
    /\ Step(IF s.turns[t].cancelled THEN Unwind(s, t, FALSE)
            ELSE OfTurn([s EXCEPT !.turns[t].phase = "prompting",
                                  !.turns[t].writing = TRUE], "prompt", t))

SkipPolicyWrite(t) == PolicyWritten(s, t)

\* bootEngineTurn records the chat's policy state before it asks for an engine.
WritePolicy(t) ==
    OfTurn([s EXCEPT !.turns[t].phase = "policy"], "policy", t)

\* ensureProjectDirectory is over.
DirectoryReady(t) ==
    /\ s.turns[t].phase = "directory"
    /\ Step(IF s.turns[t].cancelled THEN Unwind(s, t, FALSE) ELSE WritePolicy(t))

\* A turn whose startup returned runs on, unless it ended meanwhile.
Booted(c, t) ==
    LET m    == c.turns[t].msg
        end  == Settle([c EXCEPT !.turns[t].phase =
                            IF c.active = t THEN "live" ELSE "ended"], t)
    IN  IF c.turns[t].by = "ask" THEN Told(end, m, "ok") ELSE end

\* bootEngineTurn has its engine.  A stream engine has its prompt with it; a session
\* is sent the prompt next.
EngineReady(t) ==
    /\ s.turns[t].phase = "engine"
    /\ LET on == [s EXCEPT !.active = t, !.turns[t].phase = "delivering"]
       IN  Step(IF s.turns[t].cancelled THEN Unwind(s, t, FALSE)
                ELSE IF s.stream THEN Booted(on, t) ELSE on)

Delivered(t) == s.turns[t].phase = "delivering" /\ Step(Booted(s, t))

\* A runtime or an engine cannot be had, or the prompt is rejected.
StartupFails(t) ==
    /\ s.turns[t].phase \in {"prepare", "directory", "engine", "delivering"}
    /\ Step(Unwind(Forget(s, t), t, TRUE))

\* The result of a turn; one of a cancelled turn is ignored.
Result(t) ==
    /\ s.turns[t].phase = "live" /\ ~s.turns[t].cancelled
    /\ Step(OfTurn([s EXCEPT !.turns[t].phase = "finishing"], "result", t))

\* A stream ends after its result, or fails without one; a session dies.
StreamEnds(t) ==
    /\ ~s.turns[t].closed
    /\ \/ s.turns[t].phase \in {"live", "draining"}
       \/ s.turns[t].phase = "delivering" /\ ~s.stream
    /\ s.stream \/ s.active = t
    /\ LET end == [s EXCEPT !.turns[t].closed = TRUE]
       IN  Step(IF s.turns[t].phase = "draining" \/ s.turns[t].cancelled
                THEN CloseStream(end, t) ELSE OfTurn(end, "failed", t))

\* interrupt() answers, or five seconds pass, and the steer that stopped the turn
\* goes on.
Interrupted(t) ==
    /\ s.turns[t].complete /\ s.turns[t].canceller # <<>>
    /\ Step(SteerAll([s EXCEPT !.turns[t].canceller = <<>>], s.turns[t].canceller))

\* The server dies and starts again, drainOrphanedQueues included.  A message that
\* no log holds is lost, and so is the answer to a request.
Crash ==
    /\ crashes < MaxCrashes /\ acts < MaxActs
    /\ crashes' = crashes + 1 /\ acts' = acts + 1
    /\ s' = Drain([Empty(s.stream) EXCEPT
                !.queue = s.queue, !.prompts = s.prompts,
                !.place = [m \in Msgs |-> IF s.place[m] \in {"sending", "held"} THEN "lost"
                                          ELSE s.place[m]],
                !.reply = [m \in Msgs |-> IF s.reply[m] = "none" THEN "gone"
                                          ELSE s.reply[m]]])

Requests ==
    \/ \E m \in Msgs : Send(m) \/ Enqueue(m) \/ Steer(m) \/ Dequeue(m)
    \/ Stop

\* What a runtime, an engine or an interrupt owes the coordinator.
Answers ==
    \E t \in 1 .. Len(s.turns) :
        \/ Prepared(t) \/ DirectoryReady(t) \/ EngineReady(t) \/ Delivered(t)
        \/ StartupFails(t) \/ Interrupted(t)

Next ==
    \/ Requests
    \/ Flush
    \/ Answers
    \/ \E t \in 1 .. Len(s.turns) : Result(t) \/ StreamEnds(t)
    \/ Crash

\* The store's writes settle, and what a startup or a stop waits for answers or
\* fails; each turn has finitely many such answers, so that fairness for them
\* together is fairness for each.  Nothing obliges a turn to end.
Spec == Init /\ [][Next]_vars /\ WF_vars(Flush) /\ WF_vars(Answers)

---------------------------------------------------------------------------
\* Properties

TypeOK ==
    /\ s.queue \in Seq(Msgs)
    /\ s.chain \in Seq([op : Writes, turn : Nat, msg : Msgs \cup {NoMsg},
                        by : Ways \cup {"user", "turn"}])
    /\ s.turns \in Seq(TurnRecord)
    /\ {s.holder, s.active} \subseteq 0 .. Len(s.turns)
    /\ s.starting \in BOOLEAN /\ s.stream \in BOOLEAN
    /\ s.starting => s.holder # 0
    /\ s.place \in [Msgs -> Places]
    /\ s.prompts \in [Msgs -> Nat]
    /\ s.reply \in [Msgs -> {"none", "ok", "refused", "gone"}]
    /\ acts \in 0 .. MaxActs /\ crashes \in 0 .. MaxCrashes

\* A chat works on one turn at a time: whatever requests meet a startup, a stop or
\* the end of a turn, there is at most one turn nobody cancelled, and it is the one
\* the coordinator knows.
OneTurnAtATime ==
    \A t \in 1 .. Len(s.turns) :
        s.turns[t].phase \in Startup \cup Running /\ ~s.turns[t].cancelled
            => s.active = t \/ (s.active = 0 /\ s.holder = t /\ s.starting)

\* A turn leaves the coordinator by its own stop, end or failure.  cancel() and the
\* session pump forget the active turn without asking which it is, after awaits in
\* which the turn they were called for may have been succeeded by another.
LeavesByItsOwnEnd ==
    [][\A t \in 1 .. Len(s.turns) :
         s.active = t /\ s'.active # t /\ crashes' = crashes
             => \/ s'.turns[t].cancelled \/ s'.turns[t].closed
                \/ s'.turns[t].phase \in {"draining", "ended"}]_vars

\* A message is put into the transcript once, whether the end of a turn, steers and
\* a restart all take it from the queue.
PromptedOnce == \A m \in Msgs : s.prompts[m] <= 1

\* enqueue-and-steer.ts: "so a refused prompt can't drain later".  A request that
\* was refused has left nothing in the queue.
RefusedIsNotQueued == \A m \in Msgs : s.reply[m] = "refused" => ~Queued(s, m)

\* An enqueue-and-steer request is answered, whatever it has to cancel first.
Asked(m) ==
    \E i \in 1 .. Len(s.chain) :
        s.chain[i].msg = m /\ s.chain[i].by = "ask" /\ s.chain[i].op = "enqueue"
AskIsAnswered == \A m \in Msgs : Asked(m) ~> s.reply[m] # "none"

\* agent.ts:7753 explains why steer() looks again whether the chat is busy before it
\* touches the queue: otherwise the start would throw after the message was deleted,
\* "losing it entirely (BUG AGENT-1). Guarding here keeps it in the queue."
StaysQueuedIfBusy == \A m \in Msgs : s.place[m] # "dropped"
=============================================================================
