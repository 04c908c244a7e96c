----------------------------- MODULE EventStore -----------------------------
(***************************************************************************)
(* What src/server/event-store.ts keeps on disk and what a restart makes   *)
(* of it: four event logs, a snapshot with its backup, and compaction,     *)
(* which writes the snapshot and then empties the logs one by one.         *)
(*                                                                         *)
(* Every write runs on one promise chain.  Some requests are checked and   *)
(* stamped when they are made and written later, others when their turn    *)
(* comes.  A restart replays the logs over the snapshot in the order of    *)
(* the stamps, which are milliseconds: several events share one.           *)
(*                                                                         *)
(* There is one project, which a later draft does not open anew.           *)
(* Transcripts, a chat's title, provider, archive and policy, forks, the   *)
(* removal of a project and the legacy formats are left out.               *)
(***************************************************************************)
EXTENDS Naturals, Sequences, SequencesExt

CONSTANTS
    Chats,      \* the ids the store gives to chats
    Msgs,       \* queued messages
    Sessions,   \* session tokens
    NoValue,    \* an absent chat, message, token or snapshot
    MaxCalls,   \* bound on the requests
    MaxTime,    \* bound on the clock
    MaxCrashes  \* bound on the crashes

ASSUME ValueAssumption == NoValue \notin Chats \cup Msgs \cup Sessions
ASSUME IdAssumption == Chats \cap Msgs = {} /\ "project" \notin Chats \cup Msgs
ASSUME BoundAssumption == {MaxCalls, MaxTime, MaxCrashes} \subseteq Nat

Logs == {"projects", "chats", "queued", "turns"}

VARIABLES
    mem,      \* the store's state
    log,      \* each log's readable lines
    torn,     \* the logs whose last line a crash cut short
    lost,     \* history: logs with a line written behind a torn one, since they were emptied
    snap,     \* snapshot.json
    bak,      \* snapshot.json.bak
    chain,    \* the writes asked for and not done
    left,     \* the logs compaction has not emptied yet
    now,      \* the clock
    used,     \* ids given out, and "project"
    up,       \* the server takes requests
    calls,    \* counter of requests
    crashes   \* counter of crashes

disk == <<log, torn, lost, snap, bak>>
vars == <<disk, mem, chain, left, now, used, up, calls, crashes>>

ChatRecord == [draft : BOOLEAN, deleted : BOOLEAN, unread : BOOLEAN,
               token : Sessions \cup {NoValue}, finished : BOOLEAN]

States == [project : {"none", "draft", "open"},
           chats : [Chats -> ChatRecord \cup {NoValue}],
           queue : [Chats -> Seq(Msgs)]]

ASSUME AbsentAssumption == NoValue \notin ChatRecord \cup States

Nothing == [project |-> "none", chats |-> [c \in Chats |-> NoValue],
            queue |-> [c \in Chats |-> <<>>]]

NewChat(draft) == [draft |-> draft, deleted |-> FALSE, unread |-> FALSE,
                   token |-> NoValue, finished |-> FALSE]

---------------------------------------------------------------------------
\* Events

Event(type, c, value) == [type |-> type, chat |-> c, value |-> value, at |-> now]

LogOf(e) ==
    CASE e.type \in {"project_opened", "project_draft_opened", "project_draft_discarded"}
             -> "projects"
      [] e.type \in {"queued_message_enqueued", "queued_message_removed"} -> "queued"
      [] e.type \in {"turn_finished", "session_token_set"} -> "turns"
      [] OTHER -> "chats"

Known(st, c) == st.chats[c] # NoValue

\* getChat finds it.
Alive(st, c) == Known(st, c) /\ ~st.chats[c].deleted

Inhabited(st) == \E c \in Chats : Alive(st, c)

PromoteProject(st) == [st EXCEPT !.project = IF @ = "draft" THEN "open" ELSE @]

Created(st, c, draft) ==
    LET made == [st EXCEPT !.chats[c] = NewChat(draft)]
    IN  IF draft THEN made ELSE PromoteProject(made)

EnqueuedBlindly(st, e) == [st EXCEPT !.queue[e.chat] = Append(@, e.value)]

\* An enqueue the snapshot already holds changes nothing.
Enqueued(st, e) ==
    [st EXCEPT !.queue[e.chat] = IF Contains(@, e.value) THEN @ ELSE Append(@, e.value)]

\* An event about a chat that is not there is ignored, except by the queue.
ApplyToChat(st, e) ==
    IF ~Known(st, e.chat) THEN st
    ELSE CASE e.type = "chat_promoted" ->
                IF ~st.chats[e.chat].draft \/ st.chats[e.chat].deleted THEN st
                ELSE PromoteProject([st EXCEPT !.chats[e.chat].draft = FALSE])
           [] e.type = "chat_draft_discarded" ->
                IF ~st.chats[e.chat].draft THEN st
                ELSE [st EXCEPT !.chats[e.chat] = NoValue, !.queue[e.chat] = <<>>]
           [] e.type = "chat_deleted" ->
                [st EXCEPT !.chats[e.chat].deleted = TRUE, !.queue[e.chat] = <<>>]
           [] e.type = "chat_read_state_set" -> [st EXCEPT !.chats[e.chat].unread = e.value]
           [] e.type = "turn_finished" ->
                [st EXCEPT !.chats[e.chat].unread = TRUE, !.chats[e.chat].finished = TRUE]
           [] e.type = "session_token_set" -> [st EXCEPT !.chats[e.chat].token = e.value]

\* applyEvent
ApplyEvent(st, e) ==
    CASE e.type = "project_opened"       -> [st EXCEPT !.project = "open"]
      [] e.type = "project_draft_opened" -> [st EXCEPT !.project = "draft"]
      [] e.type = "project_draft_discarded" ->
           IF st.project # "draft" \/ Inhabited(st) THEN st
           ELSE [st EXCEPT !.project = "none"]
      [] e.type = "chat_created"            -> Created(st, e.chat, e.value)
      [] e.type = "queued_message_enqueued" -> Enqueued(st, e)
      [] e.type = "queued_message_removed"  ->
           [st EXCEPT !.queue[e.chat] = RemoveFirst(@, e.value)]
      [] OTHER -> ApplyToChat(st, e)

---------------------------------------------------------------------------
\* Replay

\* getReplayEventPriority
Priority(e) ==
    CASE e.type \in {"project_opened", "project_draft_opened"} -> 0
      [] e.type = "chat_created" -> 1
      [] e.type = "chat_promoted" -> 2
      [] e.type \in {"queued_message_enqueued", "queued_message_removed"} -> 4
      [] e.type = "session_token_set" -> 6
      [] e.type = "turn_finished" -> 8
      [] e.type = "chat_read_state_set" -> 9
      [] e.type \in {"chat_deleted", "chat_draft_discarded"} -> 10
      [] e.type = "project_draft_discarded" -> 11

Source(l) == CASE l = "projects" -> 0 [] l = "chats" -> 1 [] l = "queued" -> 3 [] l = "turns" -> 4

Lines == UNION {{[event |-> log[l][i], source |-> Source(l), line |-> i] :
                     i \in 1 .. Len(log[l])} : l \in Logs}

\* A line's place in the replay, most significant first.
Key(x) == <<x.event.at, Priority(x.event), x.source, x.line>>

Before(x, y) ==
    \E i \in 1 .. 4 : /\ Key(x)[i] < Key(y)[i]
                      /\ \A j \in 1 .. i - 1 : Key(x)[j] = Key(y)[j]

Latest(lines) == CHOOSE x \in lines : \A y \in lines \ {x} : Before(y, x)

\* Every line applied after those that come before it.
Replay(st, lines) ==
    LET replayed[S \in SUBSET lines] ==
            IF S = {} THEN st
            ELSE ApplyEvent(replayed[S \ {Latest(S)}], Latest(S).event)
    IN  replayed[lines]

Loaded(image) == IF image = NoValue THEN Nothing ELSE image

\* loadSnapshot and replayLogs
Recover(image) == Replay(Loaded(image), Lines)

---------------------------------------------------------------------------
\* The write chain

Task(op, c, e) == [op |-> op, chat |-> c, event |-> e]
NoEvent == [type |-> "none", chat |-> NoValue, value |-> NoValue, at |-> 0]

Head1 == Head(chain)

\* writeEvent: the line is appended, then applied.  Nothing ends a line that a crash
\* cut short, and what is appended to it cannot be read.
WriteEvent(e) ==
    /\ mem' = ApplyEvent(mem, e)
    /\ IF LogOf(e) \in torn
       THEN lost' = lost \cup {LogOf(e)} /\ UNCHANGED log
       ELSE log' = [log EXCEPT ![LogOf(e)] = Append(@, e)] /\ UNCHANGED lost
    /\ torn' = torn \ {LogOf(e)}
    /\ UNCHANGED <<snap, bak>>

Done == chain' = Tail(chain)
Skip == Done /\ UNCHANGED <<disk, mem, used>>
Then(op) == chain' = <<[Head1 EXCEPT !.op = op]>> \o Tail(chain)

Write ==
    /\ Head1.op = "write" /\ Done /\ WriteEvent(Head1.event) /\ UNCHANGED used

\* openProject
OpenProject ==
    /\ Head1.op = "open"
    /\ IF mem.project = "open" \/ (mem.project = "none" /\ "project" \in used) THEN Skip
       ELSE Done /\ WriteEvent(Event("project_opened", NoValue, NoValue))
                 /\ used' = used \cup {"project"}

\* ensureDraft: the project first, then the chat, unless there is a draft.
EnsureDraft ==
    /\ Head1.op = "draft"
    /\ IF mem.project = "none"
       THEN IF "project" \in used THEN Skip
            ELSE /\ WriteEvent(Event("project_draft_opened", NoValue, NoValue))
                 /\ used' = used \cup {"project"} /\ UNCHANGED chain
       ELSE IF Head1.chat \in used \/ \E c \in Chats : Alive(mem, c) /\ mem.chats[c].draft
       THEN Skip
       ELSE /\ Done /\ WriteEvent(Event("chat_created", Head1.chat, TRUE))
            /\ used' = used \cup {Head1.chat}

\* promoteDraft
Promote ==
    /\ Head1.op = "promote"
    /\ IF Alive(mem, Head1.chat) /\ mem.chats[Head1.chat].draft /\ mem.project # "none"
       THEN Done /\ WriteEvent(Event("chat_promoted", Head1.chat, NoValue)) /\ UNCHANGED used
       ELSE Skip

\* discardDraft: the chat, then the project it opened.
DiscardDraft ==
    /\ Head1.op = "discard"
    /\ IF Known(mem, Head1.chat) /\ mem.chats[Head1.chat].draft
       THEN /\ Then("discard project") /\ UNCHANGED used
            /\ WriteEvent(Event("chat_draft_discarded", Head1.chat, NoValue))
       ELSE Skip

DiscardProject ==
    /\ Head1.op = "discard project"
    /\ IF mem.project = "draft" /\ ~Inhabited(mem)
       THEN /\ Done /\ UNCHANGED used
            /\ WriteEvent(Event("project_draft_discarded", NoValue, NoValue))
       ELSE Skip

\* createSnapshot: drafts are in it.
CreateSnapshot(st) == st

TruncateFirst == <<"truncate", "compact", "backup">>

\* The stages of compact(): each file is replaced by a rename.
Stages == <<"compact", "backup", "truncate">>

NextStage ==
    LET i == SelectInSeq(Stages, LAMBDA op : op = Head1.op)
    IN  IF i < Len(Stages) THEN Then(Stages[i + 1]) ELSE Done

Snapshot ==
    /\ Head1.op = "compact" /\ NextStage
    /\ snap' = CreateSnapshot(mem)
    /\ UNCHANGED <<log, torn, lost, bak, mem, left, used>>

Backup ==
    /\ Head1.op = "backup" /\ NextStage
    /\ bak' = CreateSnapshot(mem)
    /\ UNCHANGED <<log, torn, lost, snap, mem, left, used>>

\* The five truncations run together and end in any order.
Truncate(l) ==
    /\ Head1.op = "truncate" /\ l \in left
    /\ log' = [log EXCEPT ![l] = <<>>] /\ torn' = torn \ {l} /\ lost' = lost \ {l}
    /\ IF left = {l} THEN left' = Logs /\ NextStage ELSE left' = left \ {l} /\ UNCHANGED chain
    /\ UNCHANGED <<snap, bak, mem, used>>

Run ==
    /\ chain # <<>>
    /\ \/ /\ Write \/ OpenProject \/ EnsureDraft \/ Promote \/ DiscardDraft \/ DiscardProject
          /\ UNCHANGED left
       \/ Snapshot \/ Backup
       \/ \E l \in left : Truncate(l)
    /\ UNCHANGED <<now, up, calls, crashes>>

---------------------------------------------------------------------------
\* Requests

Push(task) ==
    /\ up /\ calls < MaxCalls
    /\ calls' = calls + 1
    /\ chain' = Append(chain, task)
    /\ UNCHANGED <<disk, mem, left, now, up, crashes>>

\* A request stamped and checked when it is made.
Stamped(e) == Push(Task("write", e.chat, e))

CreateChat(c) ==
    /\ mem.project # "none" /\ c \notin used
    /\ Stamped(Event("chat_created", c, FALSE)) /\ used' = used \cup {c}

Enqueue(c, m) ==
    /\ Alive(mem, c) /\ m \notin used
    /\ Stamped(Event("queued_message_enqueued", c, m)) /\ used' = used \cup {m}

Dequeue(c, m) ==
    /\ Alive(mem, c) /\ Contains(mem.queue[c], m)
    /\ Stamped(Event("queued_message_removed", c, m)) /\ UNCHANGED used

SetToken(c, k) ==
    /\ Alive(mem, c) /\ mem.chats[c].token # k
    /\ Stamped(Event("session_token_set", c, k)) /\ UNCHANGED used

FinishTurn(c) ==
    Alive(mem, c) /\ Stamped(Event("turn_finished", c, NoValue)) /\ UNCHANGED used

MarkRead(c) ==
    /\ Alive(mem, c) /\ mem.chats[c].unread
    /\ Stamped(Event("chat_read_state_set", c, FALSE)) /\ UNCHANGED used

DeleteChat(c) ==
    Alive(mem, c) /\ Stamped(Event("chat_deleted", c, NoValue)) /\ UNCHANGED used

\* A request that does all its work on the chain, compaction at shutdown included.
Chained ==
    /\ UNCHANGED used
    /\ \/ Push(Task("open", NoValue, NoEvent))
       \/ \E c \in Chats \ used : Push(Task("draft", c, NoEvent))
       \/ \E c \in Chats : Known(mem, c) /\ \E op \in {"promote", "discard"} :
              Push(Task(op, c, NoEvent))
       \/ Push(Task(Head(Stages), NoValue, NoEvent))

Requests ==
    \/ \E c \in Chats :
        \/ CreateChat(c) \/ FinishTurn(c) \/ MarkRead(c) \/ DeleteChat(c)
        \/ \E m \in Msgs : Enqueue(c, m) \/ Dequeue(c, m)
        \/ \E k \in Sessions : SetToken(c, k)
    \/ Chained

Tick ==
    /\ now < MaxTime /\ now' = now + 1
    /\ UNCHANGED <<disk, mem, chain, left, used, up, calls, crashes>>

---------------------------------------------------------------------------
\* Crash and restart

\* The snapshots a start may find readable: a crash soon after the rename may leave
\* an empty snapshot.json, and the start falls back on the backup.
Images == {snap} \cup (IF chain # <<>> /\ Head1.op = "backup" THEN {bak} ELSE {})

\* The log whose append a crash may cut short.
Writing ==
    IF chain = <<>> THEN {}
    ELSE CASE Head1.op = "write" -> {LogOf(Head1.event)}
           [] Head1.op \in {"promote", "discard"} -> {"chats"}
           [] Head1.op \in {"open", "discard project"} -> {"projects"}
           [] Head1.op = "draft" -> {IF mem.project = "none" THEN "projects" ELSE "chats"}
           [] OTHER -> {}

\* initialize(): what is recovered loses its drafts, and long logs are compacted.
Drafts(st) == SetToSeq({c \in Chats : Known(st, c) /\ st.chats[c].draft})

Crash ==
    /\ crashes < MaxCrashes /\ crashes' = crashes + 1
    /\ \E cut \in SUBSET Writing, image \in Images, long \in BOOLEAN :
        /\ torn' = torn \cup cut
        /\ snap' = image
        /\ mem' = Recover(image)
        /\ chain' = [i \in 1 .. Len(Drafts(mem')) |-> Task("discard", Drafts(mem')[i], NoEvent)]
                    \o <<Task("discard project", NoValue, NoEvent)>>
                    \o (IF long THEN <<Task(Head(Stages), NoValue, NoEvent)>> ELSE <<>>)
    /\ up' = FALSE /\ left' = Logs
    /\ UNCHANGED <<log, lost, bak, now, used, calls>>

Serve ==
    /\ ~up /\ chain = <<>> /\ up' = TRUE
    /\ UNCHANGED <<disk, mem, chain, left, now, used, calls, crashes>>

\* A new store, or one whose first chat was drafted and promoted.
First(c) == <<[type |-> "chat_created", chat |-> c, value |-> TRUE, at |-> 0],
              [type |-> "chat_promoted", chat |-> c, value |-> NoValue, at |-> 0]>>

Opened == <<[type |-> "project_draft_opened", chat |-> NoValue, value |-> NoValue, at |-> 0]>>

Init ==
    /\ \/ mem = Nothing /\ log = [l \in Logs |-> <<>>] /\ used = {}
       \/ \E c \in Chats :
              /\ mem = [Nothing EXCEPT !.project = "open", !.chats[c] = NewChat(FALSE)]
              /\ log = [[l \in Logs |-> <<>>] EXCEPT !["projects"] = Opened,
                                                     !["chats"] = First(c)]
              /\ used = {"project", c}
    /\ torn = {} /\ lost = {} /\ snap = NoValue /\ bak = NoValue
    /\ chain = <<>> /\ left = Logs /\ now = 0 /\ up = TRUE /\ calls = 0 /\ crashes = 0

Next == Requests \/ Run \/ Tick \/ Crash \/ Serve

Spec == Init /\ [][Next]_vars

---------------------------------------------------------------------------
\* Properties

TypeOK ==
    /\ mem \in States
    /\ {snap, bak} \subseteq States \cup {NoValue}
    /\ \A l \in Logs : \A i \in 1 .. Len(log[l]) : LogOf(log[l][i]) = l
    /\ torn \subseteq Logs /\ lost \subseteq Logs
    /\ left \in (SUBSET Logs) \ {{}}
    /\ now \in 0 .. MaxTime /\ calls \in 0 .. MaxCalls /\ crashes \in 0 .. MaxCrashes
    /\ up \in BOOLEAN

\* Whenever the server dies, compaction under way or not, a start finds the chats that
\* were there, drafts apart: none is lost and none that was deleted or discarded comes
\* back.  It finds the queue of each as it was, no message twice and none back from the
\* dead.  Left out are the logs of which a line was written behind one that a crash
\* had cut short.
ChatsSurvive ==
    \A image \in Images, c \in Chats :
        LET after == Recover(image)
            Listed(st) == Alive(st, c) /\ ~st.chats[c].draft
        IN  "chats" \notin lost =>
                /\ Listed(after) <=> Listed(mem)
                /\ Alive(mem, c) /\ "queued" \notin lost => after.queue[c] = mem.queue[c]

\* The events of one log were dropped and those of another were not.
HalfTruncated(gone, kept) == left # Logs /\ gone \notin left /\ kept \in left

\* A request stamped when it was made was written behind a later stamp, and a start
\* replays the two the other way round.
Overtaken(l) == \E i, j \in 1 .. Len(log[l]) : i < j /\ log[l][j].at < log[l][i].at

\* A draft project's discarding is in its log.
Discarding == \E i \in 1 .. Len(log["projects"]) :
                  log["projects"][i].type = "project_draft_discarded"

\* A start finds every chat's session and last outcome, and its project in the list,
\* but for two windows of compaction: a chat's creation replayed without its turns
\* begins it anew, and a project's opening as a draft replayed without its chats
\* hides it again.  So does the deletion of a chat asked for while its promotion
\* waited in the chain, when a start replays the deletion first.
SessionsSurvive ==
    lost = {} =>
    \A image \in Images :
        LET after == Recover(image)
        IN  /\ \A c \in Chats :
                   Alive(mem, c) /\ ~HalfTruncated("turns", "chats")
                   => /\ Known(after, c)
                      /\ after.chats[c].token = mem.chats[c].token
                      /\ after.chats[c].finished = mem.chats[c].finished
            /\ mem.project = "open" /\ ~HalfTruncated("chats", "projects")
               /\ ~Overtaken("chats") /\ ~Discarding
                   => after.project = "open"
=============================================================================
