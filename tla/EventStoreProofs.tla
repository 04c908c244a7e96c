-------------------------- MODULE EventStoreProofs --------------------------
(***************************************************************************)
(* Theorems about EventStore.                                              *)
(*                                                                         *)
(* A replay is a fold over the lines in the order of their keys, so what   *)
(* it makes of a chat follows from what the lines say of that chat: whether*)
(* they begin, promote or end it, which token and which message come last. *)
(* The invariant says of both images, the snapshot and the backup, that    *)
(* the lines over them say what is in memory; of the lines and the chain,  *)
(* that the order they are replayed in respects the order things were done *)
(* in, stamps being milliseconds and some given before their turn; and of  *)
(* the lines alone, that replaying what an image already holds changes     *)
(* nothing, which is what compaction stopped half way relies on.           *)
(***************************************************************************)
EXTENDS EventStore, SequenceTheorems, FiniteSetTheorems, WellFoundedInduction, TLAPS

---------------------------------------------------------------------------
(* Types *)

\* The types of the events, by the fields they have.
ProjectTypes == {"project_opened", "project_draft_opened", "project_draft_discarded"}
PlainTypes == {"chat_promoted", "chat_draft_discarded", "chat_deleted", "turn_finished"}
QueueTypes == {"queued_message_enqueued", "queued_message_removed"}

\* The events of the four logs.
Events ==
    [type : ProjectTypes, chat : {NoValue}, value : {NoValue}, at : Nat]
    \cup [type : {"chat_created"}, chat : Chats, value : BOOLEAN, at : Nat]
    \cup [type : PlainTypes, chat : Chats, value : {NoValue}, at : Nat]
    \cup [type : {"chat_read_state_set"}, chat : Chats, value : {FALSE}, at : Nat]
    \cup [type : {"session_token_set"}, chat : Chats, value : Sessions, at : Nat]
    \cup [type : QueueTypes, chat : Chats, value : Msgs, at : Nat]

\* The events that a request stamps.
Requested == {e \in Events : /\ e.type \notin ProjectTypes
                             /\ e.type \notin {"chat_promoted", "chat_draft_discarded"}
                             /\ e.type = "chat_created" => e.value = FALSE}

\* The tasks of the chain: a request's write, or one that does its work when its turn comes.
Tasks ==
    [op : {"write"}, chat : Chats, event : Requested]
    \cup [op : {"draft", "promote", "discard"}, chat : Chats, event : {NoEvent}]
    \cup [op : {"open", "discard project", "compact", "backup", "truncate"},
          chat : Chats \cup {NoValue}, event : {NoEvent}]

\* The lines a log may have.
LineSet == {x \in [event : Events, source : {0, 1, 3, 4}, line : Nat \ {0}] :
                x.source = Source(LogOf(x.event))}

\* The type invariant, with the chain and the ids given out.
Typed ==
    /\ mem \in States
    /\ snap \in States \cup {NoValue} /\ bak \in States \cup {NoValue}
    /\ log \in [Logs -> Seq(Events)]
    /\ \A l \in Logs : \A i \in 1 .. Len(log[l]) : LogOf(log[l][i]) = l
    /\ torn \subseteq Logs /\ lost \subseteq Logs
    /\ left \in (SUBSET Logs) \ {{}}
    /\ chain \in Seq(Tasks)
    /\ IsFiniteSet(used)
    /\ now \in 0 .. MaxTime /\ calls \in 0 .. MaxCalls /\ crashes \in 0 .. MaxCrashes
    /\ up \in BOOLEAN

---------------------------------------------------------------------------
(* What a set of lines says of a chat *)

\* The lines of a type about a chat.
Line(S, type, c) == {x \in S : x.event.type = type /\ x.event.chat = c}
Has(S, type, c) == Line(S, type, c) # {}
HasType(S, type) == \E x \in S : x.event.type = type

\* A chat begins with its creation, or is in the image that is replayed over.
Begins(st, S, c) == Has(S, "chat_created", c) \/ Alive(st, c)

BeginsDraft(st, S, c) ==
    IF Has(S, "chat_created", c) THEN \E x \in Line(S, "chat_created", c) : x.event.value = TRUE
    ELSE st.chats[c].draft

Lives(st, S, c) ==
    Begins(st, S, c) /\ ~Has(S, "chat_deleted", c) /\ ~Has(S, "chat_draft_discarded", c)

StaysDraft(st, S, c) == BeginsDraft(st, S, c) /\ ~Has(S, "chat_promoted", c)

\* The last token set, and the last outcome.
TokenOf(st, S, c) ==
    IF Has(S, "session_token_set", c) THEN Latest(Line(S, "session_token_set", c)).event.value
    ELSE IF Has(S, "chat_created", c) THEN NoValue ELSE st.chats[c].token

FinishedOf(st, S, c) ==
    \/ Has(S, "turn_finished", c)
    \/ ~Has(S, "chat_created", c) /\ st.chats[c].finished

QueueLines(S, c) == {x \in S : x.event.type \in QueueTypes /\ x.event.chat = c}

\* A discarded draft was a draft.
Discards(st, S, c) ==
    /\ Has(S, "chat_draft_discarded", c) /\ Begins(st, S, c) /\ ~Has(S, "chat_deleted", c)
    => StaysDraft(st, S, c)

CreatedOpen(S, c) == \E x \in Line(S, "chat_created", c) : x.event.value = FALSE

\* A chat that shows its project.
Shows(st, S, c) ==
    \/ CreatedOpen(S, c)
    \/ Has(S, "chat_promoted", c) /\ Begins(st, S, c) /\ BeginsDraft(st, S, c)

Promotes(st, S) == \E c \in Chats : Shows(st, S, c)

\* The project is open after a replay, or not there.
Opens(st, S) ==
    \/ HasType(S, "project_opened")
    \/ IF HasType(S, "project_draft_opened") THEN Promotes(st, S)
       ELSE st.project = "open" \/ (st.project = "draft" /\ Promotes(st, S))

Hidden(st, S) ==
    /\ ~HasType(S, "project_opened") /\ ~HasType(S, "project_draft_opened")
    /\ st.project = "none"

\* A chat's creation is replayed before all else about it.
CreatedFirst(S) ==
    \A x, y \in S : x.event.type = "chat_created" /\ y.event.chat = x.event.chat /\ y # x
                    => Before(x, y)

\* A draft project's opening is replayed before any chat's line.
OpenedFirst(S) ==
    \A x, y \in S : /\ x.event.type = "project_draft_opened" /\ y # x
                    /\ y.source = 1 \/ y.event.type \in {"project_opened", "project_draft_opened"}
                    => Before(x, y)

\* A promotion is replayed before the end of its chat.
PromotedFirst(S) ==
    \A x, y \in S : /\ x.event.type = "chat_promoted" /\ y.event.chat = x.event.chat
                    /\ y.event.type \in {"chat_deleted", "chat_draft_discarded"}
                    => Before(x, y)

\* An enqueue is replayed before its removal.
EnqueuedFirst(S) ==
    \A x, y \in S : /\ x.event.type = "queued_message_enqueued"
                    /\ y.event.type = "queued_message_removed"
                    /\ x.event.value = y.event.value
                    => Before(x, y)

---------------------------------------------------------------------------
(* The invariant *)

\* A request's write, at a place of the chain.
WriteAt(q, i) == i \in 1 .. Len(q) /\ q[i].op = "write"

At(op) == chain # <<>> /\ chain[1].op = op

\* The stages of compaction stand at the head of the chain, the snapshot and then the
\* backup are what is in memory, and logs are empty only while they are being emptied.
Staged ==
    /\ \A i \in 2 .. Len(chain) : chain[i].op \notin {"backup", "truncate"}
    /\ At("backup") => snap = mem
    /\ At("truncate") => snap = mem /\ bak = mem
    /\ left # Logs => At("truncate")
    /\ \A l \in Logs \ left : log[l] = <<>>
    /\ ~up => \A i \in 1 .. Len(chain) :
                  chain[i].op \in {"discard", "discard project", "compact", "backup", "truncate"}

\* Of the lines S, the chain q and the time n: what is stamped when it is asked for
\* is written in the order of the stamps.
StampsOrdered(S, q, n) ==
    /\ \A x \in S : x.event.at <= n
    /\ \A i \in 1 .. Len(q) : WriteAt(q, i) =>
           /\ q[i].event.at <= n
           /\ \A j \in 1 .. Len(q) : WriteAt(q, j) /\ i < j => q[i].event.at <= q[j].event.at
           /\ \A x \in S : x.source \in {3, 4} => x.event.at <= q[i].event.at

\* What a start may read, and what is in memory.
Held == {mem, Loaded(snap), Loaded(bak)}

\* Nothing has been said of a chat.
Blank(H, S, c) ==
    /\ \A st \in H : st.chats[c] = NoValue /\ st.queue[c] = <<>>
    /\ \A x \in S : x.event.chat # c

\* A chat's creation comes before all else that is said of it.
Born(H, S, q, u) ==
    /\ CreatedFirst(S)
    /\ \A x \in S, i \in 1 .. Len(q) :
           x.event.type = "chat_created" /\ WriteAt(q, i) /\ q[i].event.chat = x.event.chat
           => x.event.at <= q[i].event.at
    /\ \A c \in Chats \ u :
           Blank(H, S, c) /\ \A i \in 1 .. Len(q) : WriteAt(q, i) => q[i].event.chat # c
    /\ \A i \in 1 .. Len(q) : WriteAt(q, i) /\ q[i].event.type = "chat_created" =>
           /\ q[i].event.chat \in u /\ Blank(H, S, q[i].event.chat)
           /\ \A j \in 1 .. Len(q) : WriteAt(q, j) /\ q[j].event.chat = q[i].event.chat => j = i

Distinct(q) == \A i, j \in 1 .. Len(q) : q[i] = q[j] => i = j

\* Nothing has been said of a message.
Absent(H, S, m) ==
    /\ \A st \in H, c \in Chats : ~Contains(st.queue[c], m)
    /\ \A x \in S : x.event.type \in QueueTypes => x.event.value # m

\* A write of the chain is about a message.
About(q, i, m) == WriteAt(q, i) /\ q[i].event.type \in QueueTypes /\ q[i].event.value = m

\* A message is sent once, before it is removed.
SentOnce(H, S, q, u) ==
    /\ EnqueuedFirst(S)
    /\ \A st \in H, c \in Chats : Distinct(st.queue[c])
    /\ \A m \in Msgs \ u : Absent(H, S, m) /\ \A i \in 1 .. Len(q) : ~About(q, i, m)
    /\ \A i \in 1 .. Len(q) : WriteAt(q, i) /\ q[i].event.type = "queued_message_enqueued" =>
           /\ q[i].event.value \in u /\ Absent(H, S, q[i].event.value)
           /\ \A j \in 1 .. Len(q) : About(q, j, q[i].event.value) => j = i

\* Before there is a project there is nothing.
Virgin(H, S, q, u) ==
    "project" \notin u =>
        /\ \A st \in H : st.project = "none" /\ \A c \in Chats : ~Known(st, c)
        /\ S = {}
        /\ \A i \in 1 .. Len(q) : ~WriteAt(q, i)

\* A draft project's opening comes before all that is written after it.
ProjectFirst(S, q) ==
    /\ OpenedFirst(S)
    /\ \A x \in S, i \in 1 .. Len(q) :
           x.event.type = "project_draft_opened" /\ WriteAt(q, i) => x.event.at <= q[i].event.at

Sent(S, m) == \E x \in S : x.event.type = "queued_message_enqueued" /\ x.event.value = m
Removed(S, m) == \E x \in S : x.event.type = "queued_message_removed" /\ x.event.value = m

\* What the queue's lines say of the queue.
Settled(q, S) ==
    \A m \in Msgs : /\ Removed(S, m) => ~Contains(q, m)
                    /\ Sent(S, m) /\ ~Contains(q, m) => Removed(S, m)

QueueSettled(m, S, c) == Alive(m, c) => Settled(m.queue[c], QueueLines(S, c))

\* What the lines of the turns say of a chat is what it is.
TurnsSettled(m, S, c) ==
    Alive(m, c) =>
        /\ Has(S, "session_token_set", c)
           => m.chats[c].token = Latest(Line(S, "session_token_set", c)).event.value
        /\ Has(S, "turn_finished", c) => m.chats[c].finished

AllSettled ==
    \A c \in Chats : /\ "queued" \notin lost => QueueSettled(mem, Lines, c)
                     /\ "turns" \notin lost => TurnsSettled(mem, Lines, c)

Reordered(S) == \E x, y \in S : /\ x.source = 1 /\ y.source = 1
                                /\ x.line < y.line /\ y.event.at < x.event.at

\* A promotion is written before the end of its chat.
PromotedInOrder(S) ==
    \A x, y \in S : /\ x.event.type = "chat_promoted" /\ y.event.chat = x.event.chat
                    /\ y.event.type \in {"chat_deleted", "chat_draft_discarded"}
                    => x.line < y.line

PromotionsFirst == "chats" \notin lost => PromotedInOrder(Lines)

\* A draft project is open once a chat of it is.
OverByCreation(m, S) == (\E c \in Chats : CreatedOpen(S, c)) => m.project # "draft"

OverByPromotion(m, S) ==
    (\E c \in Chats : Has(S, "chat_promoted", c) /\ Has(S, "chat_created", c))
    => m.project # "draft"

DraftOver ==
    /\ OverByCreation(mem, Lines)
    /\ "chats" \notin lost /\ ~Reordered(Lines) => OverByPromotion(mem, Lines)

\* In a store whose log opens the project as a draft, the log begins every draft chat.
BegunHere(S) == \A c \in Chats : Has(S, "chat_promoted", c) => Has(S, "chat_created", c)

\* A start will discard the chat.
ToDiscard(c) ==
    ~up /\ \E i \in 1 .. Len(chain) : chain[i].op = "discard" /\ chain[i].chat = c

DraftsBegun ==
    "chats" \notin lost /\ HasType(Lines, "project_draft_opened") =>
        /\ BegunHere(Lines)
        /\ left = Logs => \A c \in Chats :
               Known(mem, c) /\ mem.chats[c].draft => Has(Lines, "chat_created", c) \/ ToDiscard(c)

\* What a replay of the lines S over an image makes of a chat and of the project is what
\* they are in the store's state m.
ChatAgrees(m, S, st, c) ==
    /\ Alive(m, c) <=> Lives(st, S, c)
    /\ Alive(m, c) => (m.chats[c].draft <=> StaysDraft(st, S, c))
    /\ Discards(st, S, c)

QueueAgrees(m, S, st, c) ==
    Alive(m, c) => Replay(st, QueueLines(S, c)).queue[c] = m.queue[c]

TurnsAgree(m, S, st, c) ==
    Alive(m, c) => /\ m.chats[c].token = TokenOf(st, S, c)
                   /\ m.chats[c].finished <=> FinishedOf(st, S, c)

ProjectAgrees(m, S, st) ==
    /\ m.project = "open" <=> Opens(st, S)
    /\ m.project = "none" <=> Hidden(st, S)

\* Over this image a replay finds what is in memory.
Kept(st) ==
    "chats" \notin lost =>
        /\ \A c \in Chats :
            /\ ChatAgrees(mem, Lines, st, c)
            /\ "queued" \notin lost => QueueAgrees(mem, Lines, st, c)
            /\ "turns" \notin lost /\ ~HalfTruncated("turns", "chats")
               => TurnsAgree(mem, Lines, st, c)
        /\ "projects" \notin lost /\ ~HasType(Lines, "project_draft_discarded")
           /\ ~Reordered(Lines) /\ ~HalfTruncated("chats", "projects")
           => ProjectAgrees(mem, Lines, st)

Ordered ==
    /\ Staged
    /\ StampsOrdered(Lines, chain, now)
    /\ Born(Held, Lines, chain, used)
    /\ SentOnce(Held, Lines, chain, used)
    /\ Virgin(Held, Lines, chain, used)
    /\ ProjectFirst(Lines, chain)

Told == AllSettled /\ PromotionsFirst /\ DraftOver /\ DraftsBegun

Remembers == Kept(Loaded(snap)) /\ Kept(Loaded(bak))

\* The inductive invariant.
Invariant == Typed /\ Ordered /\ Told /\ Remembers

\* Every nonempty set of natural numbers has a least element.
LEMMA NatMinimum ==
    ASSUME NEW T, T \subseteq Nat, T # {}
    PROVE  \E m \in T : \A k \in T : m <= k
<1>1. PICK m \in T : \A k \in T : ~(<<k, m>> \in OpToRel(<, Nat))
    BY WFMin, NatLessThanWellFounded, Zenon
<1>2. \A k \in T : ~(k < m)
    <2> SUFFICES ASSUME NEW k \in T, k < m PROVE FALSE  OBVIOUS
    <2>1. <<k, m>> \in OpToRel(<, Nat)  BY DEF OpToRel
    <2> QED  BY <1>1, <2>1
<1> QED  BY <1>2

\* Lines that a replay can order: finitely many, no two at one place.
Journal(S) ==
    /\ S \subseteq LineSet /\ IsFiniteSet(S)
    /\ \A x, y \in S : x.source = y.source /\ x.line = y.line => x = y

\* Part of a journal is one.
LEMMA JournalPart ==
    ASSUME NEW S, Journal(S), NEW T \in SUBSET S
    PROVE  Journal(T)
BY FS_Subset DEF Journal

\* The fields of an event, by its type.
LEMMA EventKinds ==
    ASSUME NEW e \in Events
    PROVE  /\ e.at \in Nat
           /\ e.type \in ProjectTypes \cup PlainTypes \cup QueueTypes
                         \cup {"chat_created", "chat_read_state_set", "session_token_set"}
           /\ e.type \notin ProjectTypes => e.chat \in Chats
           /\ e.type \in ProjectTypes => e.chat = NoValue
           /\ e.type = "chat_created" => e.value \in BOOLEAN
           /\ e.type = "chat_read_state_set" => e.value = FALSE
           /\ e.type = "session_token_set" => e.value \in Sessions
           /\ e.type \in QueueTypes => e.value \in Msgs
BY DEF Events, ProjectTypes, PlainTypes, QueueTypes

\* The log of an event, by its type.
LEMMA LogKinds ==
    ASSUME NEW e \in Events
    PROVE  /\ LogOf(e) \in Logs
           /\ LogOf(e) = "projects" <=> e.type \in ProjectTypes
           /\ LogOf(e) = "queued" <=> e.type \in QueueTypes
           /\ LogOf(e) = "turns" <=> e.type \in {"turn_finished", "session_token_set"}
BY EventKinds DEF LogOf, ProjectTypes, PlainTypes, QueueTypes, Logs

LEMMA SourceKinds ==
    ASSUME NEW l \in Logs
    PROVE  /\ Source(l) \in {0, 1, 3, 4}
           /\ Source(l) = 0 <=> l = "projects"
           /\ Source(l) = 1 <=> l = "chats"
           /\ Source(l) = 3 <=> l = "queued"
           /\ Source(l) = 4 <=> l = "turns"
BY DEF Source, Logs

LEMMA PriorityKinds ==
    ASSUME NEW e \in Events
    PROVE  /\ Priority(e) \in 0 .. 11
           /\ e.type \in {"project_opened", "project_draft_opened"} => Priority(e) = 0
           /\ e.type = "chat_created" => Priority(e) = 1
           /\ e.type = "chat_promoted" => Priority(e) = 2
           /\ e.type \in QueueTypes => Priority(e) = 4
           /\ e.type = "session_token_set" => Priority(e) = 6
           /\ e.type = "turn_finished" => Priority(e) = 8
           /\ e.type = "chat_read_state_set" => Priority(e) = 9
           /\ e.type \in {"chat_deleted", "chat_draft_discarded"} => Priority(e) = 10
           /\ e.type = "project_draft_discarded" => Priority(e) = 11
<1>1. CASE e.type \in {"project_opened", "project_draft_opened"}
    <2>1. CASE e.type = "project_opened"  BY <2>1 DEF Priority, QueueTypes
    <2>2. CASE e.type = "project_draft_opened"  BY <2>2 DEF Priority, QueueTypes
    <2> QED  BY <1>1, <2>1, <2>2
<1>2. CASE e.type = "chat_created"  BY <1>2 DEF Priority, QueueTypes
<1>3. CASE e.type = "chat_promoted"  BY <1>3 DEF Priority, QueueTypes
<1>4. CASE e.type \in QueueTypes  BY <1>4 DEF Priority, QueueTypes
<1>5. CASE e.type = "session_token_set"  BY <1>5 DEF Priority, QueueTypes
<1>6. CASE e.type = "turn_finished"  BY <1>6 DEF Priority, QueueTypes
<1>7. CASE e.type = "chat_read_state_set"  BY <1>7 DEF Priority, QueueTypes
<1>8. CASE e.type \in {"chat_deleted", "chat_draft_discarded"}  BY <1>8 DEF Priority, QueueTypes
<1>9. CASE e.type = "project_draft_discarded"  BY <1>9 DEF Priority, QueueTypes
<1> QED
    <2>1. e.type \in ProjectTypes \cup PlainTypes \cup QueueTypes
                    \cup {"chat_created", "chat_read_state_set", "session_token_set"}
        BY EventKinds, Zenon
    <2> QED  BY <2>1, <1>1, <1>2, <1>3, <1>4, <1>5, <1>6, <1>7, <1>8, <1>9
        DEF ProjectTypes, PlainTypes

LEMMA LineKinds ==
    ASSUME NEW x \in LineSet
    PROVE  /\ x.event \in Events /\ x.event.at \in Nat /\ Priority(x.event) \in Nat
           /\ x.source \in Nat /\ x.line \in Nat
           /\ x.source = Source(LogOf(x.event))
<1>1. x.event \in Events /\ x.source \in Nat /\ x.line \in Nat /\ x.source = Source(LogOf(x.event))
    BY DEF LineSet
<1>2. Priority(x.event) \in Nat
    <2>1. Priority(x.event) \in 0 .. 11  BY <1>1, PriorityKinds, Zenon
    <2> QED  BY <2>1
<1> QED  BY <1>1, <1>2, EventKinds

\* The order of the replay: the stamp, the priority, the log, the line.
LEMMA BeforeMeans ==
    ASSUME NEW x \in LineSet, NEW y \in LineSet
    PROVE  Before(x, y) <=>
              \/ x.event.at < y.event.at
              \/ /\ x.event.at = y.event.at
                 /\ \/ Priority(x.event) < Priority(y.event)
                    \/ /\ Priority(x.event) = Priority(y.event)
                       /\ \/ x.source < y.source
                          \/ x.source = y.source /\ x.line < y.line
<1>1. /\ Key(x)[1] = x.event.at /\ Key(x)[2] = Priority(x.event)
      /\ Key(x)[3] = x.source /\ Key(x)[4] = x.line
    BY DEF Key
<1>2. /\ Key(y)[1] = y.event.at /\ Key(y)[2] = Priority(y.event)
      /\ Key(y)[3] = y.source /\ Key(y)[4] = y.line
    BY DEF Key
<1> DEFINE k == Key(x)
           m == Key(y)
<1> HIDE DEF k, m
<1>3. (\E i \in 1 .. 4 : k[i] < m[i] /\ \A j \in 1 .. i - 1 : k[j] = m[j]) <=>
           \/ k[1] < m[1]
           \/ k[1] = m[1] /\ k[2] < m[2]
           \/ k[1] = m[1] /\ k[2] = m[2] /\ k[3] < m[3]
           \/ k[1] = m[1] /\ k[2] = m[2] /\ k[3] = m[3] /\ k[4] < m[4]
    <2>1. 1 .. 4 = {1, 2, 3, 4} /\ 1 .. (1-1) = {} /\ 1 .. (2-1) = {1} /\ 1 .. (3-1) = {1, 2} /\ 1 .. (4-1) = {1, 2, 3}
        OBVIOUS
    <2> QED  BY <2>1
<1> QED  BY <1>1, <1>2, <1>3 DEF Before, k, m

\* It is a strict total order of the lines.
LEMMA BeforeOrders ==
    ASSUME NEW S, Journal(S)
    PROVE  /\ \A x \in S : ~Before(x, x)
           /\ \A x, y \in S : x # y => Before(x, y) \/ Before(y, x)
           /\ \A x, y \in S : Before(x, y) => ~Before(y, x)
           /\ \A x, y, z \in S : Before(x, y) /\ Before(y, z) => Before(x, z)
<1>0. S \subseteq LineSet  BY DEF Journal
<1>1. \A x \in S : ~Before(x, x)  BY <1>0, BeforeMeans, LineKinds
<1>2. ASSUME NEW x \in S, NEW y \in S, x # y PROVE Before(x, y) \/ Before(y, x)
    <2>1. x.source # y.source \/ x.line # y.line  BY <1>2 DEF Journal
    <2> QED  BY <1>0, <2>1, BeforeMeans, LineKinds
<1>3. ASSUME NEW x \in S, NEW y \in S, Before(x, y) PROVE ~Before(y, x)
    BY <1>0, <1>3, BeforeMeans, LineKinds
<1>4. ASSUME NEW x \in S, NEW y \in S, NEW z \in S, Before(x, y), Before(y, z) PROVE Before(x, z)
    BY <1>0, <1>4, BeforeMeans, LineKinds
<1> QED  BY <1>1, <1>2, <1>3, <1>4

LEMMA LatestIs ==
    ASSUME NEW S, Journal(S), S # {}
    PROVE  Latest(S) \in S /\ \A y \in S \ {Latest(S)} : Before(y, Latest(S))
<1> DEFINE After(x) == {y \in S : Before(x, y)}
           T == {Cardinality(After(x)) : x \in S}
<1>1. \A x \in S : IsFiniteSet(After(x)) /\ Cardinality(After(x)) \in Nat
    BY FS_Subset, FS_CardinalityType DEF Journal
<1>2. PICK n \in T : \A k \in T : n <= k
    <2>1. T \subseteq Nat /\ T # {}  BY <1>1
    <2> HIDE DEF T
    <2> QED  BY <2>1, NatMinimum
<1>3. PICK x \in S : n = Cardinality(After(x))  BY <1>2
<1>4. After(x) = {}
    <2> SUFFICES ASSUME NEW y \in After(x) PROVE FALSE  OBVIOUS
    <2>1. After(y) \in SUBSET (After(x) \ {y})  BY BeforeOrders
    <2>2. IsFiniteSet(After(x) \ {y}) /\ Cardinality(After(x) \ {y}) = Cardinality(After(x)) - 1
        BY <1>1, FS_RemoveElement
    <2>3. Cardinality(After(y)) <= Cardinality(After(x)) - 1
        <3> HIDE DEF After
        <3> QED  BY <2>1, <2>2, FS_Subset
    <2>4. Cardinality(After(y)) \in T  OBVIOUS
    <2> HIDE DEF After, T
    <2>5. y \in S  BY DEF After
    <2> QED  BY <1>1, <1>2, <1>3, <2>3, <2>4, <2>5
<1>5. \A y \in S \ {x} : Before(y, x)  BY <1>4, BeforeOrders
<1> QED  BY <1>5 DEF Latest

LEMMA LatestIsThis ==
    ASSUME NEW S, Journal(S), NEW x \in S, \A y \in S \ {x} : Before(y, x)
    PROVE  Latest(S) = x
<1>1. Latest(S) \in S /\ \A y \in S \ {Latest(S)} : Before(y, Latest(S))  BY LatestIs
<1> QED  BY <1>1, BeforeOrders

\* What holds of no line, and of a set of lines when it does without the latest, holds of all.
LEMMA OneByOne ==
    ASSUME NEW L, Journal(L), NEW Good, {} \in Good,
           \A S \in SUBSET L : S # {} /\ S \ {Latest(S)} \in Good => S \in Good
    PROVE  \A S \in SUBSET L : S \in Good
<1> SUFFICES ASSUME NEW S0 \in SUBSET L, S0 \notin Good PROVE FALSE  OBVIOUS
<1> DEFINE Bad == {S \in SUBSET L : S \notin Good}
           T == {Cardinality(S) : S \in Bad}
<1>1. \A S \in SUBSET L : IsFiniteSet(S) /\ Cardinality(S) \in Nat
    BY FS_Subset, FS_CardinalityType DEF Journal
<1>2. PICK n \in T : \A k \in T : n <= k
    <2>1. T \subseteq Nat /\ T # {}  BY <1>1
    <2> HIDE DEF T
    <2> QED  BY <2>1, NatMinimum
<1>3. PICK S \in Bad : n = Cardinality(S)  BY <1>2
<1>4. S # {}  BY <1>3
<1>5. Latest(S) \in S  BY <1>3, <1>4, LatestIs, JournalPart
<1> DEFINE R == S \ {Latest(S)}
<1>6. R \in SUBSET L /\ Cardinality(R) = n - 1
    BY <1>1, <1>3, <1>5, FS_RemoveElement
<1>7. R \in Bad  BY <1>3, <1>4, <1>6
<1>8. n \in Nat  BY <1>1, <1>3
<1>9. Cardinality(R) \in T  BY <1>7
<1> HIDE DEF R, T
<1> QED  BY <1>2, <1>6, <1>8, <1>9

ReplayStep(st, f, S) == IF S = {} THEN st ELSE ApplyEvent(f[S \ {Latest(S)}], Latest(S).event)

\* The fold of a replay is defined on every part of the lines.
LEMMA ReplayExists ==
    ASSUME NEW st, NEW L, Journal(L)
    PROVE  \E f : f = [S \in SUBSET L |-> ReplayStep(st, f, S)]
<1> DEFINE Small(n) == {S \in SUBSET L : Cardinality(S) <= n}
           Fits(n) == \E f : f = [S \in Small(n) |-> ReplayStep(st, f, S)]
           T == {n \in Nat : ~Fits(n)}
<1>1. \A S \in SUBSET L : IsFiniteSet(S) /\ Cardinality(S) \in Nat
    BY FS_Subset, FS_CardinalityType DEF Journal
<1>2. Fits(0)
    <2>1. \A S \in Small(0) : S = {}
        BY <1>1, FS_EmptySet
    <2> DEFINE f == [S \in Small(0) |-> st]
    <2>2. f = [S \in Small(0) |-> ReplayStep(st, f, S)]
        <3>1. \A S \in Small(0) : ReplayStep(st, f, S) = st  BY <2>1 DEF ReplayStep
        <3> HIDE DEF Small
        <3> QED  BY <3>1
    <2> QED  BY <2>2
<1>3. ASSUME NEW n \in Nat, Fits(n) PROVE Fits(n + 1)
    <2>1. PICK f : f = [S \in Small(n) |-> ReplayStep(st, f, S)]  BY <1>3
    <2> DEFINE g == [S \in Small(n + 1) |-> ReplayStep(st, f, S)]
    <2>2. \A S \in Small(n) : S \in Small(n + 1) /\ g[S] = f[S]
        <3>1. \A S \in Small(n) : S \in Small(n + 1)  BY <1>1
        <3> HIDE DEF Small
        <3> QED  BY <2>1, <3>1
    <2>3. \A S \in Small(n + 1) : S # {} => S \ {Latest(S)} \in Small(n)
        <3> SUFFICES ASSUME NEW S \in Small(n + 1), S # {} PROVE S \ {Latest(S)} \in Small(n)
            OBVIOUS
        <3>1. Latest(S) \in S  BY LatestIs, JournalPart
        <3>2. Cardinality(S \ {Latest(S)}) = Cardinality(S) - 1  BY <1>1, <3>1, FS_RemoveElement
        <3> QED  BY <1>1, <3>2
    <2>4. \A S \in Small(n + 1) : ReplayStep(st, f, S) = ReplayStep(st, g, S)
        <3> HIDE DEF g, Small
        <3> QED  BY <2>2, <2>3 DEF ReplayStep
    <2>5. g = [S \in Small(n + 1) |-> ReplayStep(st, g, S)]
        <3>1. [S \in Small(n + 1) |-> ReplayStep(st, f, S)] = [S \in Small(n + 1) |-> ReplayStep(st, g, S)]
            <4> HIDE DEF g, Small
            <4> QED  BY <2>4
        <3> QED  BY <3>1
    <2> HIDE DEF g, Small
    <2> QED  BY <2>5
<1>4. \A n \in Nat : Fits(n)
    <2> SUFFICES ASSUME T # {} PROVE FALSE  OBVIOUS
    <2>1. PICK n \in T : \A k \in T : n <= k
        <3>1. T \subseteq Nat  OBVIOUS
        <3> HIDE DEF T
        <3> QED  BY <3>1, NatMinimum
    <2>2. n # 0  BY <1>2
    <2>3. n - 1 \in Nat /\ n - 1 \notin T
        <3>1. n \in Nat /\ n - 1 \in Nat  BY <2>2
        <3> HIDE DEF T
        <3> QED  BY <2>1, <3>1
    <2>4. Fits(n - 1)  BY <2>3
    <2> HIDE DEF Fits
    <2>5. Fits((n - 1) + 1)  BY <2>3, <2>4, <1>3
    <2> QED  BY <2>1, <2>5
<1>5. Cardinality(L) \in Nat /\ Small(Cardinality(L)) = SUBSET L
    BY <1>1, FS_Subset DEF Journal
<1>6. Fits(Cardinality(L))  BY <1>4, <1>5
<1>7. \E f : f = [S \in SUBSET L |-> ReplayStep(st, f, S)]
    <2> HIDE DEF Small
    <2> QED  BY <1>5, <1>6
<1> QED  BY <1>7

\* Two folds agree where both are defined.
LEMMA ReplayPart ==
    ASSUME NEW st, NEW L, Journal(L), NEW R \in SUBSET L
    PROVE  \A f : f = [S \in SUBSET L |-> ReplayStep(st, f, S)] => f[R] = Replay(st, R)
<1> SUFFICES ASSUME NEW f, f = [S \in SUBSET L |-> ReplayStep(st, f, S)] PROVE f[R] = Replay(st, R)
    OBVIOUS
<1>1. Journal(R)  BY JournalPart
<1> DEFINE g == CHOOSE h : h = [S \in SUBSET R |-> ReplayStep(st, h, S)]
<1>2. Replay(st, R) = g[R]  BY DEF Replay, ReplayStep
<1>3. g = [S \in SUBSET R |-> ReplayStep(st, g, S)]
    <2>1. \E h : h = [S \in SUBSET R |-> ReplayStep(st, h, S)]  BY <1>1, ReplayExists
    <2> QED  BY <2>1
<1> HIDE DEF g
<1> DEFINE Good == {S \in SUBSET R : f[S] = g[S]}
<1>4. {} \in Good  BY <1>3 DEF ReplayStep
<1>5. ASSUME NEW S \in SUBSET R, S # {}, S \ {Latest(S)} \in Good PROVE S \in Good
    <2>1. f[S] = ReplayStep(st, f, S) /\ g[S] = ReplayStep(st, g, S)
        <3>1. S \in SUBSET L  OBVIOUS
        <3> QED  BY <1>3, <3>1
    <2>2. f[S \ {Latest(S)}] = g[S \ {Latest(S)}]  BY <1>5
    <2> QED  BY <1>5, <2>1, <2>2 DEF ReplayStep
<1>6. R \in Good
    <2> HIDE DEF Good
    <2> QED  BY <1>1, <1>4, <1>5, OneByOne
<1> QED  BY <1>2, <1>6

\* What a replay is: nothing for no lines, else the last of them applied to the rest.
LEMMA ReplayIs ==
    ASSUME NEW st, NEW L, Journal(L)
    PROVE  Replay(st, L) = IF L = {} THEN st
               ELSE ApplyEvent(Replay(st, L \ {Latest(L)}), Latest(L).event)
<1>1. PICK f : f = [S \in SUBSET L |-> ReplayStep(st, f, S)]  BY ReplayExists
<1>2. \A R \in SUBSET L : f[R] = Replay(st, R)  BY <1>1, ReplayPart, ZenonT(60)
<1>3. f[L] = ReplayStep(st, f, L)
    <2> QED  BY <1>1
<1>4. Replay(st, L) = ReplayStep(st, f, L)  BY <1>2, <1>3
<1>5. f[L \ {Latest(L)}] = Replay(st, L \ {Latest(L)})  BY <1>2
<1> QED  BY <1>4, <1>5 DEF ReplayStep

---------------------------------------------------------------------------
(* What an event does *)

LEMMA RemoveFirstIs ==
    ASSUME NEW S, NEW q \in Seq(S), NEW m
    PROVE  /\ ~Contains(q, m) => RemoveFirst(q, m) = q
           /\ Contains(q, m) => \E i \in 1 .. Len(q) :
                 /\ q[i] = m /\ RemoveFirst(q, m) \in Seq(S)
                 /\ Len(RemoveFirst(q, m)) = Len(q) - 1
                 /\ \A k \in 1 .. Len(q) - 1 :
                        RemoveFirst(q, m)[k] = IF k < i THEN q[k] ELSE q[k + 1]
<1>1. ~Contains(q, m) => RemoveFirst(q, m) = q  BY DEF Contains, RemoveFirst
<1>2. ASSUME Contains(q, m)
      PROVE  \E i \in 1 .. Len(q) :
                 /\ q[i] = m /\ RemoveFirst(q, m) \in Seq(S)
                 /\ Len(RemoveFirst(q, m)) = Len(q) - 1
                 /\ \A k \in 1 .. Len(q) - 1 :
                        RemoveFirst(q, m)[k] = IF k < i THEN q[k] ELSE q[k + 1]
    <2> DEFINE I == {i \in 1 .. Len(q) : q[i] = m}
               n == Min(I)
    <2>1. I \subseteq Nat /\ I # {}  BY <1>2 DEF Contains
    <2>2. n \in I
        <3>1. \E k \in I : \A j \in I : k <= j
            <4> HIDE DEF I
            <4> QED  BY <2>1, NatMinimum
        <3> HIDE DEF I
        <3> QED  BY <3>1 DEF Min
    <2>3. RemoveFirst(q, m) = RemoveAt(q, n)
        <3>1. SelectInSeq(q, LAMBDA v : v = m) = n  BY <2>1 DEF SelectInSeq
        <3> QED  BY <1>2, <3>1 DEF RemoveFirst, Contains
    <2> HIDE DEF n
    <2>4. RemoveAt(q, n) = SubSeq(q, 1, n - 1) \o SubSeq(q, n + 1, Len(q))  BY DEF RemoveAt
    <2>5. n \in 1 .. Len(q) /\ q[n] = m  BY <2>2
    <2>6. SubSeq(q, 1, n - 1) \in Seq(S) /\ Len(SubSeq(q, 1, n - 1)) = n - 1
          /\ \A i \in 1 .. n - 1 : SubSeq(q, 1, n - 1)[i] = q[i]
        BY <2>5, SubSeqProperties, ElementOfSeq
    <2>7. SubSeq(q, n + 1, Len(q)) \in Seq(S) /\ Len(SubSeq(q, n + 1, Len(q))) = Len(q) - n
          /\ \A i \in 1 .. Len(q) - n : SubSeq(q, n + 1, Len(q))[i] = q[n + i]
        <3>1. \A i \in n + 1 .. Len(q) : q[i] \in S  BY <2>5, ElementOfSeq
        <3> QED  BY <2>5, <3>1, SubSeqProperties
    <2> DEFINE a == SubSeq(q, 1, n - 1)
               b == SubSeq(q, n + 1, Len(q))
    <2>8. /\ a \o b \in Seq(S) /\ Len(a \o b) = Len(a) + Len(b)
          /\ \A i \in 1 .. Len(a) + Len(b) : (a \o b)[i] = IF i <= Len(a) THEN a[i] ELSE b[i - Len(a)]
        <3> HIDE DEF a, b
        <3>1. a \in Seq(S) /\ b \in Seq(S)  BY <2>6, <2>7 DEF a, b
        <3> QED  BY <3>1, ConcatProperties
    <2>9. RemoveFirst(q, m) = a \o b  BY <2>3, <2>4
    <2>10. \A k \in 1 .. Len(q) - 1 : (a \o b)[k] = IF k < n THEN q[k] ELSE q[k + 1]
        <3> SUFFICES ASSUME NEW k \in 1 .. Len(q) - 1
                     PROVE  (a \o b)[k] = IF k < n THEN q[k] ELSE q[k + 1]
            OBVIOUS
        <3>1. Len(a) = n - 1 /\ Len(b) = Len(q) - n  BY <2>6, <2>7
        <3>2. CASE k < n
            <4>1. a[k] = q[k]  BY <2>5, <2>6, <3>2
            <4> HIDE DEF a, b
            <4> QED  BY <2>5, <2>8, <3>1, <3>2, <4>1
        <3>3. CASE k >= n
            <4>1. b[k - (n - 1)] = q[k + 1]  BY <2>5, <2>7, <3>3
            <4> HIDE DEF a, b
            <4> QED  BY <2>5, <2>8, <3>1, <3>3, <4>1, SMTT(60)
        <3>4. n \in Int /\ k \in Int  BY <2>5
        <3>5. k < n \/ k >= n  BY <3>4
        <3> HIDE DEF a, b
        <3> QED  BY <3>2, <3>3, <3>5
    <2>11. Len(a \o b) = Len(q) - 1
        <3>1. Len(a) = n - 1 /\ Len(b) = Len(q) - n  BY <2>6, <2>7
        <3> HIDE DEF a, b
        <3> QED  BY <2>5, <2>8, <3>1
    <2> HIDE DEF a, b
    <2> QED  BY <2>5, <2>8, <2>9, <2>10, <2>11
<1> QED  BY <1>1, <1>2

LEMMA StateKinds ==
    ASSUME NEW st \in States
    PROVE  /\ st.project \in {"none", "draft", "open"}
           /\ st.chats \in [Chats -> ChatRecord \cup {NoValue}]
           /\ st.queue \in [Chats -> Seq(Msgs)]
           /\ \A c \in Chats : /\ st.queue[c] \in Seq(Msgs)
                               /\ Known(st, c) => /\ st.chats[c] \in ChatRecord
                                                 /\ st.chats[c].draft \in BOOLEAN
                                                 /\ st.chats[c].deleted \in BOOLEAN
                                                 /\ st.chats[c].finished \in BOOLEAN
BY DEF States, ChatRecord, Known

LEMMA NewChatIs ==
    ASSUME NEW draft \in BOOLEAN
    PROVE  /\ NewChat(draft) \in ChatRecord /\ NewChat(draft) # NoValue
           /\ NewChat(draft).draft = draft /\ NewChat(draft).deleted = FALSE
           /\ NewChat(draft).token = NoValue /\ NewChat(draft).finished = FALSE
<1>1. NewChat(draft) \in ChatRecord  BY DEF NewChat, ChatRecord
<1> QED  BY <1>1, AbsentAssumption DEF NewChat

LEMMA PromoteIs ==
    ASSUME NEW st \in States
    PROVE  /\ PromoteProject(st) \in States
           /\ PromoteProject(st).chats = st.chats /\ PromoteProject(st).queue = st.queue
           /\ PromoteProject(st).project = IF st.project = "draft" THEN "open" ELSE st.project
BY DEF PromoteProject, States

LEMMA ApplyProject ==
    ASSUME NEW st \in States, NEW e \in Events, e.type \in ProjectTypes
    PROVE  /\ ApplyEvent(st, e) \in States
           /\ ApplyEvent(st, e).chats = st.chats /\ ApplyEvent(st, e).queue = st.queue
           /\ e.type = "project_opened" => ApplyEvent(st, e).project = "open"
           /\ e.type = "project_draft_opened" => ApplyEvent(st, e).project = "draft"
           /\ e.type = "project_draft_discarded" =>
                 ApplyEvent(st, e).project =
                     IF st.project = "draft" /\ ~Inhabited(st) THEN "none" ELSE st.project
<1>1. CASE e.type = "project_opened"  BY <1>1 DEF ApplyEvent, States
<1>2. CASE e.type = "project_draft_opened"  BY <1>2 DEF ApplyEvent, States
<1>3. CASE e.type = "project_draft_discarded"  BY <1>3 DEF ApplyEvent, States
<1> QED  BY <1>1, <1>2, <1>3 DEF ProjectTypes

LEMMA ApplyCreated ==
    ASSUME NEW st \in States, NEW e \in Events, e.type = "chat_created"
    PROVE  /\ ApplyEvent(st, e) \in States
           /\ ApplyEvent(st, e).chats = [st.chats EXCEPT ![e.chat] = NewChat(e.value)]
           /\ ApplyEvent(st, e).queue = st.queue
           /\ ApplyEvent(st, e).project =
                  IF ~e.value /\ st.project = "draft" THEN "open" ELSE st.project
<1>1. e.chat \in Chats /\ e.value \in BOOLEAN  BY EventKinds DEF ProjectTypes
<1> DEFINE made == [st EXCEPT !.chats[e.chat] = NewChat(e.value)]
<1>2. made \in States /\ made.chats = [st.chats EXCEPT ![e.chat] = NewChat(e.value)]
      /\ made.queue = st.queue /\ made.project = st.project
    BY <1>1, NewChatIs DEF States
<1>3. ApplyEvent(st, e) = IF e.value THEN made ELSE PromoteProject(made)
    BY DEF ApplyEvent, Created
<1> HIDE DEF made
<1> QED  BY <1>1, <1>2, <1>3, PromoteIs

LEMMA ApplyQueue ==
    ASSUME NEW st \in States, NEW e \in Events, e.type \in QueueTypes
    PROVE  /\ ApplyEvent(st, e) \in States
           /\ ApplyEvent(st, e).chats = st.chats /\ ApplyEvent(st, e).project = st.project
           /\ \A d \in Chats \ {e.chat} : ApplyEvent(st, e).queue[d] = st.queue[d]
           /\ e.type = "queued_message_enqueued" =>
                 ApplyEvent(st, e).queue[e.chat] =
                     IF Contains(st.queue[e.chat], e.value) THEN st.queue[e.chat]
                     ELSE Append(st.queue[e.chat], e.value)
           /\ e.type = "queued_message_removed" =>
                 ApplyEvent(st, e).queue[e.chat] = RemoveFirst(st.queue[e.chat], e.value)
<1>1. e.chat \in Chats /\ e.value \in Msgs  BY EventKinds DEF ProjectTypes, QueueTypes
<1>2. st.queue \in [Chats -> Seq(Msgs)] /\ st.queue[e.chat] \in Seq(Msgs)  BY <1>1 DEF States
<1>3. CASE e.type = "queued_message_enqueued"
    <2> DEFINE q == IF Contains(st.queue[e.chat], e.value) THEN st.queue[e.chat]
                    ELSE Append(st.queue[e.chat], e.value)
    <2>1. ApplyEvent(st, e) = [st EXCEPT !.queue[e.chat] = q]  BY <1>3 DEF ApplyEvent, Enqueued
    <2>2. q \in Seq(Msgs)  BY <1>1, <1>2, AppendProperties
    <2>3. e.type # "queued_message_removed"  BY <1>3
    <2> HIDE DEF q
    <2>4. [st EXCEPT !.queue[e.chat] = q] \in States  BY <1>1, <2>2 DEF States
    <2>5. /\ [st EXCEPT !.queue[e.chat] = q].queue[e.chat] = q
          /\ [st EXCEPT !.queue[e.chat] = q].chats = st.chats
          /\ [st EXCEPT !.queue[e.chat] = q].project = st.project
          /\ \A d \in Chats \ {e.chat} : [st EXCEPT !.queue[e.chat] = q].queue[d] = st.queue[d]
        BY <1>1, <1>2 DEF States
    <2> QED  BY <2>1, <2>3, <2>4, <2>5 DEF q
<1>4. CASE e.type = "queued_message_removed"
    <2> DEFINE q == RemoveFirst(st.queue[e.chat], e.value)
    <2>1. ApplyEvent(st, e) = [st EXCEPT !.queue[e.chat] = q]  BY <1>4 DEF ApplyEvent
    <2>2. q \in Seq(Msgs)  BY <1>1, <1>2, RemoveFirstIs
    <2>3. e.type # "queued_message_enqueued"  BY <1>4
    <2> HIDE DEF q
    <2>4. [st EXCEPT !.queue[e.chat] = q] \in States  BY <1>1, <2>2 DEF States
    <2>5. /\ [st EXCEPT !.queue[e.chat] = q].queue[e.chat] = q
          /\ [st EXCEPT !.queue[e.chat] = q].chats = st.chats
          /\ [st EXCEPT !.queue[e.chat] = q].project = st.project
          /\ \A d \in Chats \ {e.chat} : [st EXCEPT !.queue[e.chat] = q].queue[d] = st.queue[d]
        BY <1>1, <1>2 DEF States
    <2> QED  BY <2>1, <2>3, <2>4, <2>5 DEF q
<1> QED  BY <1>3, <1>4 DEF QueueTypes

ChatTypes == PlainTypes \cup {"chat_read_state_set", "session_token_set"}

\* Of a chat that is there; of another nothing changes.
LEMMA ApplyChat ==
    ASSUME NEW st \in States, NEW e \in Events, e.type \in ChatTypes
    PROVE  /\ ~Known(st, e.chat) => ApplyEvent(st, e) = st
           /\ Known(st, e.chat) =>
                 /\ e.type = "chat_promoted" =>
                       ApplyEvent(st, e) =
                         IF ~st.chats[e.chat].draft \/ st.chats[e.chat].deleted THEN st
                         ELSE PromoteProject([st EXCEPT !.chats[e.chat].draft = FALSE])
                 /\ e.type = "chat_draft_discarded" =>
                       ApplyEvent(st, e) =
                         IF ~st.chats[e.chat].draft THEN st
                         ELSE [st EXCEPT !.chats[e.chat] = NoValue, !.queue[e.chat] = <<>>]
                 /\ e.type = "chat_deleted" =>
                       ApplyEvent(st, e) =
                         [st EXCEPT !.chats[e.chat].deleted = TRUE, !.queue[e.chat] = <<>>]
                 /\ e.type = "chat_read_state_set" =>
                       ApplyEvent(st, e) = [st EXCEPT !.chats[e.chat].unread = e.value]
                 /\ e.type = "turn_finished" =>
                       ApplyEvent(st, e) =
                         [st EXCEPT !.chats[e.chat].unread = TRUE, !.chats[e.chat].finished = TRUE]
                 /\ e.type = "session_token_set" =>
                       ApplyEvent(st, e) = [st EXCEPT !.chats[e.chat].token = e.value]
<1>1. ApplyEvent(st, e) = ApplyToChat(st, e)  BY DEF ApplyEvent, ChatTypes, PlainTypes
<1>2. ~Known(st, e.chat) => ApplyToChat(st, e) = st  BY DEF ApplyToChat
<1>3. ASSUME Known(st, e.chat), e.type = "chat_promoted"
      PROVE  ApplyToChat(st, e) = IF ~st.chats[e.chat].draft \/ st.chats[e.chat].deleted THEN st
                                  ELSE PromoteProject([st EXCEPT !.chats[e.chat].draft = FALSE])
    BY <1>3 DEF ApplyToChat
<1>4. ASSUME Known(st, e.chat), e.type = "chat_draft_discarded"
      PROVE  ApplyToChat(st, e) = IF ~st.chats[e.chat].draft THEN st
                         ELSE [st EXCEPT !.chats[e.chat] = NoValue, !.queue[e.chat] = <<>>]
    BY <1>4 DEF ApplyToChat
<1>5. ASSUME Known(st, e.chat), e.type = "chat_deleted"
      PROVE  ApplyToChat(st, e) =
                 [st EXCEPT !.chats[e.chat].deleted = TRUE, !.queue[e.chat] = <<>>]
    BY <1>5 DEF ApplyToChat
<1>6. ASSUME Known(st, e.chat), e.type = "chat_read_state_set"
      PROVE  ApplyToChat(st, e) = [st EXCEPT !.chats[e.chat].unread = e.value]
    BY <1>6 DEF ApplyToChat
<1>7. ASSUME Known(st, e.chat), e.type = "turn_finished"
      PROVE  ApplyToChat(st, e) =
                 [st EXCEPT !.chats[e.chat].unread = TRUE, !.chats[e.chat].finished = TRUE]
    BY <1>7 DEF ApplyToChat
<1>8. ASSUME Known(st, e.chat), e.type = "session_token_set"
      PROVE  ApplyToChat(st, e) = [st EXCEPT !.chats[e.chat].token = e.value]
    BY <1>8 DEF ApplyToChat
<1> QED  BY <1>1, <1>2, <1>3, <1>4, <1>5, <1>6, <1>7, <1>8

\* The four kinds of event.
LEMMA EventSplit ==
    ASSUME NEW e \in Events
    PROVE  \/ e.type \in ProjectTypes
           \/ e.type = "chat_created"
           \/ e.type \in QueueTypes
           \/ e.type \in ChatTypes
BY EventKinds DEF ChatTypes

\* Fields of a chat's record, changed.
LEMMA ChatUpdate ==
    ASSUME NEW st \in States, NEW c \in Chats, NEW r, r \in ChatRecord \cup {NoValue}
    PROVE  LET u == [st EXCEPT !.chats[c] = r]
           IN  /\ u \in States /\ u.chats[c] = r /\ u.queue = st.queue /\ u.project = st.project
               /\ \A d \in Chats \ {c} : u.chats[d] = st.chats[d]
BY DEF States

\* A promotion is of a draft that is there, and opens its project.
LEMMA ApplyPromoted ==
    ASSUME NEW st \in States, NEW e \in Events, e.type = "chat_promoted"
    PROVE  LET c == e.chat
               u == ApplyEvent(st, e)
           IN  /\ u \in States /\ u.queue = st.queue
               /\ \A d \in Chats \ {c} : u.chats[d] = st.chats[d]
               /\ Known(u, c) <=> Known(st, c)
               /\ Known(st, c) =>
                     /\ u.chats[c].draft <=> st.chats[c].draft /\ st.chats[c].deleted
                     /\ u.chats[c].deleted = st.chats[c].deleted
                     /\ u.chats[c].token = st.chats[c].token
                     /\ u.chats[c].finished = st.chats[c].finished
               /\ u.project = IF Alive(st, c) /\ st.chats[c].draft /\ st.project = "draft"
                              THEN "open" ELSE st.project
<1> DEFINE c == e.chat
           r == [st.chats[c] EXCEPT !.draft = FALSE]
           u == [st EXCEPT !.chats[c] = r]
<1>1. c \in Chats  BY EventKinds, ZenonT(60) DEF ProjectTypes
<1>2. e.type \in ChatTypes  BY DEF ChatTypes, PlainTypes
<1>3. CASE ~Known(st, c)
    <2>1. ApplyEvent(st, e) = st  BY <1>2, <1>3, ApplyChat, ZenonT(60)
    <2> QED  BY <1>3, <2>1 DEF Alive
<1>4. CASE Known(st, c) /\ (~st.chats[c].draft \/ st.chats[c].deleted)
    <2>1. ApplyEvent(st, e) = st  BY <1>2, <1>4, ApplyChat, ZenonT(60)
    <2>2. st.chats[c].draft \in BOOLEAN /\ st.chats[c].deleted \in BOOLEAN  BY <1>1, <1>4, StateKinds
    <2> QED  BY <1>4, <2>1, <2>2, SMTT(60) DEF Alive
<1>5. CASE Known(st, c) /\ st.chats[c].draft /\ ~st.chats[c].deleted
    <2>1. ApplyEvent(st, e) = PromoteProject(u)  BY <1>2, <1>5, ApplyChat, ZenonT(60)
    <2>2. /\ st.chats[c] \in ChatRecord /\ st.chats[c].draft \in BOOLEAN
          /\ st.chats[c].deleted \in BOOLEAN
        BY <1>1, <1>5, StateKinds
    <2>3. /\ r \in ChatRecord /\ r.draft = FALSE /\ r.deleted = st.chats[c].deleted
          /\ r.token = st.chats[c].token /\ r.finished = st.chats[c].finished
        BY <2>2 DEF ChatRecord
    <2>4. r # NoValue  BY <2>3, AbsentAssumption
    <2> HIDE DEF r
    <2>5. /\ u \in States /\ u.chats[c] = r /\ u.queue = st.queue /\ u.project = st.project
          /\ \A d \in Chats \ {c} : u.chats[d] = st.chats[d]
        BY <1>1, <2>3, ChatUpdate
    <2> HIDE DEF u, c
    <2>6. /\ PromoteProject(u) \in States
          /\ PromoteProject(u).chats = u.chats /\ PromoteProject(u).queue = u.queue
          /\ PromoteProject(u).project = IF u.project = "draft" THEN "open" ELSE u.project
        BY <2>5, PromoteIs
    <2> DEFINE v == PromoteProject(u)
    <2>7. v \in States /\ v.queue = st.queue /\ v.chats[c] = r
          /\ v.project = (IF st.project = "draft" THEN "open" ELSE st.project)
          /\ \A d \in Chats \ {c} : v.chats[d] = st.chats[d]
        BY <2>5, <2>6
    <2>8. Known(v, c) /\ Alive(st, c)  BY <1>5, <2>4, <2>7 DEF Known, Alive
    <2>9. ApplyEvent(st, e) = v  BY <2>1
    <2> HIDE DEF v
    <2>10. Known(ApplyEvent(st, e), c) <=> Known(st, c)  BY <1>5, <2>8, <2>9
    <2> QED  BY <1>5, <2>2, <2>3, <2>7, <2>8, <2>9, <2>10, SMTT(60) DEF c
<1> QED  BY <1>3, <1>4, <1>5

\* A discarding is of a draft, of which nothing stays.
LEMMA ApplyDiscarded ==
    ASSUME NEW st \in States, NEW e \in Events, e.type = "chat_draft_discarded"
    PROVE  LET c == e.chat
               u == ApplyEvent(st, e)
           IN  /\ u \in States /\ u.project = st.project
               /\ \A d \in Chats \ {c} : u.chats[d] = st.chats[d] /\ u.queue[d] = st.queue[d]
               /\ ~Known(st, c) \/ ~st.chats[c].draft => u = st
               /\ Known(st, c) /\ st.chats[c].draft => u.chats[c] = NoValue /\ u.queue[c] = <<>>
<1> DEFINE c == e.chat
           u == [st EXCEPT !.chats[c] = NoValue, !.queue[c] = <<>>]
<1>1. c \in Chats  BY EventKinds, ZenonT(60) DEF ProjectTypes
<1>2. e.type \in ChatTypes  BY DEF ChatTypes, PlainTypes
<1>3. CASE ~Known(st, c) \/ ~st.chats[c].draft
    <2>1. ApplyEvent(st, e) = st  BY <1>2, <1>3, ApplyChat, ZenonT(60)
    <2> QED  BY <1>3, <2>1
<1>4. CASE Known(st, c) /\ st.chats[c].draft
    <2>1. ApplyEvent(st, e) = u  BY <1>2, <1>4, ApplyChat, ZenonT(60)
    <2>2. /\ u \in States /\ u.chats[c] = NoValue /\ u.queue[c] = <<>> /\ u.project = st.project
          /\ \A d \in Chats \ {c} : u.chats[d] = st.chats[d] /\ u.queue[d] = st.queue[d]
        <3>1. NoValue \in ChatRecord \cup {NoValue}  OBVIOUS
        <3>2. <<>> \in Seq(Msgs)  OBVIOUS
        <3> HIDE DEF c
        <3> QED  BY <1>1, <3>1, <3>2 DEF States
    <2> HIDE DEF u
    <2> QED  BY <1>4, <2>1, <2>2, SMTT(60)
<1> QED  BY <1>3, <1>4

\* A deletion keeps the record and empties the queue.
LEMMA ApplyDeleted ==
    ASSUME NEW st \in States, NEW e \in Events, e.type = "chat_deleted"
    PROVE  LET c == e.chat
               u == ApplyEvent(st, e)
           IN  /\ u \in States /\ u.project = st.project
               /\ \A d \in Chats \ {c} : u.chats[d] = st.chats[d] /\ u.queue[d] = st.queue[d]
               /\ ~Known(st, c) => u = st
               /\ Known(st, c) => /\ Known(u, c) /\ u.chats[c].deleted
                                  /\ u.chats[c].draft = st.chats[c].draft
                                  /\ u.queue[c] = <<>>
<1> DEFINE c == e.chat
           r == [st.chats[c] EXCEPT !.deleted = TRUE]
           u == [st EXCEPT !.chats[c] = r, !.queue[c] = <<>>]
<1>1. c \in Chats  BY EventKinds, ZenonT(60) DEF ProjectTypes
<1>2. e.type \in ChatTypes  BY DEF ChatTypes, PlainTypes
<1>3. CASE ~Known(st, c)
    <2>1. ApplyEvent(st, e) = st  BY <1>2, <1>3, ApplyChat, ZenonT(60)
    <2> QED  BY <1>3, <2>1
<1>4. CASE Known(st, c)
    <2>1. ApplyEvent(st, e) = u  BY <1>2, <1>4, ApplyChat, ZenonT(60)
    <2>2. st.chats[c] \in ChatRecord  BY <1>1, <1>4, StateKinds
    <2>3. r \in ChatRecord /\ r.deleted = TRUE /\ r.draft = st.chats[c].draft
        BY <2>2 DEF ChatRecord
    <2>4. r # NoValue  BY <2>3, AbsentAssumption
    <2> HIDE DEF r
    <2>5. /\ u \in States /\ u.chats[c] = r /\ u.queue[c] = <<>> /\ u.project = st.project
          /\ \A d \in Chats \ {c} : u.chats[d] = st.chats[d] /\ u.queue[d] = st.queue[d]
        <3>1. r \in ChatRecord \cup {NoValue}  BY <2>3
        <3>2. <<>> \in Seq(Msgs)  OBVIOUS
        <3> HIDE DEF c
        <3> QED  BY <1>1, <3>1, <3>2 DEF States
    <2> HIDE DEF u
    <2>6. Known(u, c)  BY <2>4, <2>5 DEF Known
    <2> QED  BY <1>4, <2>1, <2>3, <2>5, <2>6, SMTT(60)
<1> QED  BY <1>3, <1>4

LEMMA ApplyRecord ==
    ASSUME NEW st \in States, NEW e \in Events,
           e.type \in {"chat_read_state_set", "turn_finished", "session_token_set"}
    PROVE  LET c == e.chat
               u == ApplyEvent(st, e)
           IN  /\ u \in States /\ u.project = st.project /\ u.queue = st.queue
               /\ \A d \in Chats \ {c} : u.chats[d] = st.chats[d]
               /\ Known(u, c) <=> Known(st, c)
               /\ Known(st, c) =>
                     /\ u.chats[c].draft = st.chats[c].draft
                     /\ u.chats[c].deleted = st.chats[c].deleted
                     /\ u.chats[c].token =
                            IF e.type = "session_token_set" THEN e.value ELSE st.chats[c].token
                     /\ u.chats[c].finished <=> e.type = "turn_finished" \/ st.chats[c].finished
<1> DEFINE c == e.chat
           r == IF e.type = "chat_read_state_set" THEN [st.chats[c] EXCEPT !.unread = e.value]
                ELSE IF e.type = "turn_finished"
                THEN [st.chats[c] EXCEPT !.unread = TRUE, !.finished = TRUE]
                ELSE [st.chats[c] EXCEPT !.token = e.value]
           u == [st EXCEPT !.chats[c] = r]
<1>1. c \in Chats  BY EventKinds, ZenonT(60) DEF ProjectTypes
<1>2. e.type \in ChatTypes  BY DEF ChatTypes, PlainTypes
<1>3. CASE ~Known(st, c)
    <2>1. ApplyEvent(st, e) = st  BY <1>2, <1>3, ApplyChat, ZenonT(60)
    <2> QED  BY <1>3, <2>1
<1>4. CASE Known(st, c)
    <2>1. ApplyEvent(st, e) = u
        <3>1. CASE e.type = "chat_read_state_set"
            <4>1. ApplyEvent(st, e) = [st EXCEPT !.chats[c].unread = e.value]
                BY <1>2, <1>4, <3>1, ApplyChat, ZenonT(60)
            <4> QED  BY <3>1, <4>1, SMTT(60)
        <3>2. CASE e.type = "turn_finished"
            <4>1. ApplyEvent(st, e) = [st EXCEPT !.chats[c].unread = TRUE, !.chats[c].finished = TRUE]
                BY <1>2, <1>4, <3>2, ApplyChat, ZenonT(60)
            <4>2. r = [st.chats[c] EXCEPT !.unread = TRUE, !.finished = TRUE]  BY <3>2
            <4>3. [st EXCEPT !.chats[c].unread = TRUE, !.chats[c].finished = TRUE]
                  = [st EXCEPT !.chats[c] = [st.chats[c] EXCEPT !.unread = TRUE, !.finished = TRUE]]
                BY <1>1, <1>4, StateKinds DEF States, ChatRecord
            <4> QED  BY <4>1, <4>2, <4>3
        <3>3. CASE e.type = "session_token_set"
            <4>1. ApplyEvent(st, e) = [st EXCEPT !.chats[c].token = e.value]
                BY <1>2, <1>4, <3>3, ApplyChat, ZenonT(60)
            <4> QED  BY <3>3, <4>1, SMTT(60)
        <3> QED  BY <3>1, <3>2, <3>3
    <2>2. /\ st.chats[c] \in ChatRecord /\ st.chats[c].finished \in BOOLEAN
        BY <1>1, <1>4, StateKinds
    <2>3. /\ r \in ChatRecord
          /\ r.draft = st.chats[c].draft /\ r.deleted = st.chats[c].deleted
          /\ r.token = IF e.type = "session_token_set" THEN e.value ELSE st.chats[c].token
          /\ r.finished <=> e.type = "turn_finished" \/ st.chats[c].finished
        <3>1. e.type = "session_token_set" => e.value \in Sessions  BY EventKinds
        <3>2. e.type = "chat_read_state_set" => e.value = FALSE  BY EventKinds
        <3>3. CASE e.type = "chat_read_state_set"
            <4>1. r = [st.chats[c] EXCEPT !.unread = FALSE]  BY <3>2, <3>3
            <4> HIDE DEF r
            <4> QED  BY <2>2, <3>3, <4>1 DEF ChatRecord
        <3>4. CASE e.type = "turn_finished"
            <4>1. r = [st.chats[c] EXCEPT !.unread = TRUE, !.finished = TRUE]  BY <3>4
            <4> HIDE DEF r
            <4> QED  BY <2>2, <3>4, <4>1 DEF ChatRecord
        <3>5. CASE e.type = "session_token_set"
            <4>1. r = [st.chats[c] EXCEPT !.token = e.value]  BY <3>5
            <4> HIDE DEF r
            <4> QED  BY <2>2, <3>1, <3>5, <4>1 DEF ChatRecord
        <3> QED  BY <3>3, <3>4, <3>5
    <2>4. r # NoValue  BY <2>3, AbsentAssumption
    <2> HIDE DEF r
    <2>5. /\ u \in States /\ u.chats[c] = r /\ u.queue = st.queue /\ u.project = st.project
          /\ \A d \in Chats \ {c} : u.chats[d] = st.chats[d]
        BY <1>1, <2>3, ChatUpdate
    <2> HIDE DEF u
    <2>6. Known(u, c)  BY <2>4, <2>5 DEF Known
    <2> QED  BY <1>4, <2>1, <2>3, <2>5, <2>6
<1> QED  BY <1>3, <1>4

\* An event takes a state to a state.
LEMMA ApplyType ==
    ASSUME NEW st \in States, NEW e \in Events
    PROVE  ApplyEvent(st, e) \in States
<1>1. CASE e.type \in ProjectTypes  BY <1>1, ApplyProject
<1>2. CASE e.type = "chat_created"  BY <1>2, ApplyCreated
<1>3. CASE e.type \in QueueTypes  BY <1>3, ApplyQueue
<1>4. CASE e.type \in ChatTypes
    <2>1. CASE e.type = "chat_promoted"  BY <2>1, ApplyPromoted
    <2>2. CASE e.type = "chat_draft_discarded"  BY <2>2, ApplyDiscarded
    <2>3. CASE e.type = "chat_deleted"  BY <2>3, ApplyDeleted
    <2>4. CASE e.type \in {"chat_read_state_set", "turn_finished", "session_token_set"}
        BY <2>4, ApplyRecord
    <2> QED  BY <1>4, <2>1, <2>2, <2>3, <2>4 DEF ChatTypes, PlainTypes
<1> QED  BY <1>1, <1>2, <1>3, <1>4, EventSplit

\* An event says nothing of another chat.
LEMMA ApplyElsewhere ==
    ASSUME NEW st \in States, NEW e \in Events, NEW c \in Chats, c # e.chat
    PROVE  ApplyEvent(st, e).chats[c] = st.chats[c] /\ ApplyEvent(st, e).queue[c] = st.queue[c]
<1>1. CASE e.type \in ProjectTypes  BY <1>1, ApplyProject
<1>2. CASE e.type = "chat_created"
    <2>1. /\ ApplyEvent(st, e).chats = [st.chats EXCEPT ![e.chat] = NewChat(e.value)]
          /\ ApplyEvent(st, e).queue = st.queue
        BY <1>2, ApplyCreated
    <2>2. st.chats \in [Chats -> ChatRecord \cup {NoValue}]  BY StateKinds
    <2> QED  BY <2>1, <2>2
<1>3. CASE e.type \in QueueTypes  BY <1>3, ApplyQueue
<1>4. CASE e.type \in ChatTypes
    <2>1. CASE e.type = "chat_promoted"  BY <2>1, ApplyPromoted
    <2>2. CASE e.type = "chat_draft_discarded"  BY <2>2, ApplyDiscarded
    <2>3. CASE e.type = "chat_deleted"  BY <2>3, ApplyDeleted
    <2>4. CASE e.type \in {"chat_read_state_set", "turn_finished", "session_token_set"}
        BY <2>4, ApplyRecord
    <2> QED  BY <1>4, <2>1, <2>2, <2>3, <2>4 DEF ChatTypes, PlainTypes
<1> QED  BY <1>1, <1>2, <1>3, <1>4, EventSplit

\* What becomes of the event's own chat.
LEMMA ApplyHere ==
    ASSUME NEW st \in States, NEW e \in Events, e.type \notin ProjectTypes
    PROVE  LET c == e.chat
               u == ApplyEvent(st, e)
           IN  /\ c \in Chats
               /\ e.type = "chat_created" => u.chats[c] = NewChat(e.value) /\ u.queue[c] = st.queue[c]
               /\ e.type \in QueueTypes => u.chats[c] = st.chats[c]
               /\ e.type \notin QueueTypes \cup {"chat_draft_discarded", "chat_deleted"}
                  => u.queue[c] = st.queue[c]
<1>1. e.chat \in Chats  BY EventKinds
<1>2. CASE e.type = "chat_created"
    <2>1. /\ ApplyEvent(st, e).chats = [st.chats EXCEPT ![e.chat] = NewChat(e.value)]
          /\ ApplyEvent(st, e).queue = st.queue
        BY <1>2, ApplyCreated
    <2>2. st.chats \in [Chats -> ChatRecord \cup {NoValue}]  BY StateKinds
    <2> QED  BY <1>1, <1>2, <2>1, <2>2 DEF QueueTypes
<1>3. CASE e.type \in QueueTypes  BY <1>1, <1>3, ApplyQueue DEF QueueTypes
<1>4. CASE e.type \in ChatTypes
    <2>0. e.type # "chat_created" /\ e.type \notin QueueTypes
        BY <1>4 DEF ChatTypes, PlainTypes, QueueTypes
    <2>1. CASE e.type = "chat_promoted"  BY <1>1, <2>0, <2>1, ApplyPromoted
    <2>2. CASE e.type \in {"chat_draft_discarded", "chat_deleted"}  BY <1>1, <2>0, <2>2
    <2>4. CASE e.type \in {"chat_read_state_set", "turn_finished", "session_token_set"}
        BY <1>1, <2>0, <2>4, ApplyRecord
    <2> QED  BY <1>4, <2>1, <2>2, <2>4 DEF ChatTypes, PlainTypes
<1> QED  BY <1>2, <1>3, <1>4, EventSplit

\* A queue follows from the queue.
LEMMA ApplyQueueAlone ==
    ASSUME NEW st \in States, NEW su \in States, NEW e \in Events, e.type \in QueueTypes,
           st.queue[e.chat] = su.queue[e.chat]
    PROVE  ApplyEvent(st, e).queue[e.chat] = ApplyEvent(su, e).queue[e.chat]
<1>1. CASE e.type = "queued_message_enqueued"  BY <1>1, ApplyQueue
<1>2. CASE e.type = "queued_message_removed"  BY <1>2, ApplyQueue
<1> QED  BY <1>1, <1>2 DEF QueueTypes

\* A replay takes a state to a state.
LEMMA ReplayType ==
    ASSUME NEW st \in States, NEW L, Journal(L)
    PROVE  Replay(st, L) \in States
<1> DEFINE Good == {S \in SUBSET L : Replay(st, S) \in States}
<1>1. {} \in Good  BY ReplayIs, JournalPart
<1>2. ASSUME NEW S \in SUBSET L, S # {}, S \ {Latest(S)} \in Good PROVE S \in Good
    <2>1. Latest(S) \in S  BY <1>2, LatestIs, JournalPart
    <2>2. Latest(S).event \in Events  BY <2>1, LineKinds DEF Journal
    <2>3. Replay(st, S) = ApplyEvent(Replay(st, S \ {Latest(S)}), Latest(S).event)
        BY <1>2, ReplayIs, JournalPart
    <2> QED  BY <1>2, <2>2, <2>3, ApplyType
<1> HIDE DEF Good
<1>3. L \in Good  BY <1>1, <1>2, OneByOne
<1> QED  BY <1>3 DEF Good

\* A set of lines is another and one line.
Adds(S, R, x) == S = R \cup {x}

\* The last line of a part, and what it is applied to.
LEMMA ReplayLast ==
    ASSUME NEW st \in States, NEW L, Journal(L), NEW S \in SUBSET L, S # {}
    PROVE  LET x == Latest(S)
               R == S \ {x}
           IN  /\ x \in S /\ R \in SUBSET L /\ x \notin R /\ Adds(S, R, x)
               /\ x \in LineSet /\ x.event \in Events
               /\ \A y \in R : Before(y, x)
               /\ Journal(S) /\ Journal(R)
               /\ Replay(st, R) \in States
               /\ Replay(st, S) = ApplyEvent(Replay(st, R), x.event)
<1>1. Journal(S) /\ Journal(S \ {Latest(S)})  BY JournalPart
<1>2. Latest(S) \in S /\ \A y \in S \ {Latest(S)} : Before(y, Latest(S))  BY <1>1, LatestIs
<1>3. Latest(S) \in LineSet /\ Latest(S).event \in Events  BY <1>2, LineKinds DEF Journal
<1> QED  BY <1>1, <1>2, <1>3, ReplayIs, ReplayType DEF Adds

\* Lines about other chats leave a chat alone.
LEMMA ReplayElsewhere ==
    ASSUME NEW st \in States, NEW L, Journal(L), NEW c \in Chats, \A x \in L : x.event.chat # c
    PROVE  Replay(st, L).chats[c] = st.chats[c] /\ Replay(st, L).queue[c] = st.queue[c]
<1> DEFINE Good == {S \in SUBSET L : /\ Replay(st, S).chats[c] = st.chats[c]
                                     /\ Replay(st, S).queue[c] = st.queue[c]}
<1>1. {} \in Good  BY ReplayIs, JournalPart
<1>2. ASSUME NEW S \in SUBSET L, S # {}, S \ {Latest(S)} \in Good PROVE S \in Good
    <2> DEFINE x == Latest(S)
               R == S \ {x}
    <2>1. /\ x \in S /\ x.event \in Events
          /\ Replay(st, R) \in States
          /\ Replay(st, S) = ApplyEvent(Replay(st, R), x.event)
        BY <1>2, ReplayLast
    <2>2. x.event.chat # c  BY <2>1
    <2> QED  BY <1>2, <2>1, <2>2, ApplyElsewhere
<1> HIDE DEF Good
<1>3. L \in Good  BY <1>1, <1>2, OneByOne
<1> QED  BY <1>3 DEF Good

\* What one more line adds to what is said of a chat.
LEMMA LineGrows ==
    ASSUME NEW S, NEW R, NEW x, Adds(S, R, x)
    PROVE  /\ \A c, type : x.event.type = type /\ x.event.chat = c
                           => Line(S, type, c) = Line(R, type, c) \cup {x}
           /\ \A c, type : ~(x.event.type = type /\ x.event.chat = c)
                           => Line(S, type, c) = Line(R, type, c)
BY DEF Line, Adds

LEMMA HasGrows ==
    ASSUME NEW S, NEW R, NEW x, Adds(S, R, x)
    PROVE  \A c, type : Has(S, type, c)
              <=> Has(R, type, c) \/ (x.event.type = type /\ x.event.chat = c)
BY DEF Has, Line, Adds

\* A line about another chat changes nothing a chat's lines say.
LEMMA SaysElsewhere ==
    ASSUME NEW S, NEW R, NEW x, NEW c, Adds(S, R, x), x.event.chat # c
    PROVE  /\ \A type : Line(S, type, c) = Line(R, type, c)
           /\ \A type : Has(S, type, c) <=> Has(R, type, c)
           /\ \A st : Begins(st, S, c) <=> Begins(st, R, c)
           /\ \A st : BeginsDraft(st, S, c) <=> BeginsDraft(st, R, c)
           /\ \A st : Lives(st, S, c) <=> Lives(st, R, c)
           /\ \A st : StaysDraft(st, S, c) <=> StaysDraft(st, R, c)
           /\ \A st : TokenOf(st, S, c) = TokenOf(st, R, c)
           /\ \A st : FinishedOf(st, S, c) <=> FinishedOf(st, R, c)
           /\ QueueLines(S, c) = QueueLines(R, c)
           /\ \A st : Discards(st, S, c) <=> Discards(st, R, c)
<1>1. \A type : Line(S, type, c) = Line(R, type, c)  BY LineGrows
<1>2. \A type : Has(S, type, c) <=> Has(R, type, c)  BY <1>1 DEF Has
<1>3. QueueLines(S, c) = QueueLines(R, c)  BY DEF QueueLines, Adds
<1>4. \A st : Begins(st, S, c) <=> Begins(st, R, c)  BY <1>2 DEF Begins
<1>5. \A st : BeginsDraft(st, S, c) <=> BeginsDraft(st, R, c)  BY <1>1, <1>2 DEF BeginsDraft
<1>6. \A st : Lives(st, S, c) <=> Lives(st, R, c)  BY <1>2, <1>4 DEF Lives
<1>7. \A st : StaysDraft(st, S, c) <=> StaysDraft(st, R, c)  BY <1>2, <1>5 DEF StaysDraft
<1>8. \A st : TokenOf(st, S, c) = TokenOf(st, R, c)  BY <1>1, <1>2 DEF TokenOf
<1>9. \A st : FinishedOf(st, S, c) <=> FinishedOf(st, R, c)  BY <1>2 DEF FinishedOf
<1>10. \A st : Discards(st, S, c) <=> Discards(st, R, c)  BY <1>2, <1>4, <1>7 DEF Discards
<1> QED  BY <1>1, <1>2, <1>3, <1>4, <1>5, <1>6, <1>7, <1>8, <1>9, <1>10

\* A chat's creation is the first that its lines say of it.
LEMMA SaysCreated ==
    ASSUME NEW S, NEW R, NEW x, NEW c, Adds(S, R, x),
           x.event.type = "chat_created", x.event.chat = c, \A y \in R : y.event.chat # c
    PROVE  /\ Has(S, "chat_created", c)
           /\ ~Has(S, "chat_promoted", c) /\ ~Has(S, "chat_deleted", c)
           /\ ~Has(S, "chat_draft_discarded", c)
           /\ ~Has(S, "session_token_set", c) /\ ~Has(S, "turn_finished", c)
           /\ \A type : ~Has(R, type, c)
           /\ Line(S, "chat_created", c) = {x}
           /\ QueueLines(R, c) = {} /\ QueueLines(S, c) = {}
<1>1. \A type : ~Has(R, type, c)  BY DEF Has, Line
<1>2. /\ Has(S, "chat_created", c)
      /\ ~Has(S, "chat_promoted", c) /\ ~Has(S, "chat_deleted", c)
      /\ ~Has(S, "chat_draft_discarded", c)
      /\ ~Has(S, "session_token_set", c) /\ ~Has(S, "turn_finished", c)
    <2>1. \A type : Has(S, type, c)
              <=> Has(R, type, c) \/ (x.event.type = type /\ x.event.chat = c)
        BY HasGrows
    <2> QED  BY <1>1, <2>1
<1>3. Line(S, "chat_created", c) = {x}  BY DEF Line, Adds
<1>4. QueueLines(R, c) = {} /\ QueueLines(S, c) = {}  BY DEF QueueLines, QueueTypes, Adds
<1> QED  BY <1>1, <1>2, <1>3, <1>4

\* Any other line about a chat.
LEMMA SaysMore ==
    ASSUME NEW S, NEW R, NEW x, NEW c, Adds(S, R, x),
           x.event.chat = c, x.event.type # "chat_created"
    PROVE  /\ \A type : Has(S, type, c) <=> Has(R, type, c) \/ type = x.event.type
           /\ \A type : type # x.event.type => Line(S, type, c) = Line(R, type, c)
           /\ Line(S, x.event.type, c) = Line(R, x.event.type, c) \cup {x}
           /\ \A st : Begins(st, S, c) <=> Begins(st, R, c)
           /\ \A st : BeginsDraft(st, S, c) <=> BeginsDraft(st, R, c)
           /\ x.event.type \notin QueueTypes => QueueLines(S, c) = QueueLines(R, c)
           /\ x.event.type \in QueueTypes => QueueLines(S, c) = QueueLines(R, c) \cup {x}
<1>1. \A type : Has(S, type, c) <=> Has(R, type, c) \/ type = x.event.type  BY HasGrows
<1>2. \A type : type # x.event.type => Line(S, type, c) = Line(R, type, c)  BY LineGrows
<1>3. Line(S, x.event.type, c) = Line(R, x.event.type, c) \cup {x}  BY LineGrows
<1>4. /\ x.event.type \notin QueueTypes => QueueLines(S, c) = QueueLines(R, c)
      /\ x.event.type \in QueueTypes => QueueLines(S, c) = QueueLines(R, c) \cup {x}
    BY DEF QueueLines, Adds
<1>5. \A st : Begins(st, S, c) <=> Begins(st, R, c)  BY <1>1 DEF Begins
<1>6. \A st : BeginsDraft(st, S, c) <=> BeginsDraft(st, R, c)  BY <1>1, <1>2 DEF BeginsDraft
<1> QED  BY <1>1, <1>2, <1>3, <1>4, <1>5, <1>6

\* A creation that is replayed last is all that is said of its chat.
LEMMA CreatedAlone ==
    ASSUME NEW L, Journal(L), CreatedFirst(L), NEW S \in SUBSET L, S # {},
           Latest(S).event.type = "chat_created"
    PROVE  \A y \in S \ {Latest(S)} : y.event.chat # Latest(S).event.chat
<1> DEFINE x == Latest(S)
<1>1. x \in S /\ \A y \in S \ {x} : Before(y, x)  BY LatestIs, JournalPart
<1>2. ASSUME NEW y \in S \ {x}, y.event.chat = x.event.chat PROVE FALSE
    <2>1. Before(x, y)  BY <1>1, <1>2 DEF CreatedFirst
    <2>2. Before(y, x)  BY <1>1
    <2>3. x \in L /\ y \in L  BY <1>1
    <2> QED  BY <2>1, <2>2, <2>3, BeforeOrders
<1> QED  BY <1>2

\* A line that comes after all the others is replayed last.
LEMMA ReplayAppend ==
    ASSUME NEW st \in States, NEW L, NEW x, Journal(L \cup {x}), x \notin L,
           \A y \in L : Before(y, x)
    PROVE  Replay(st, L \cup {x}) = ApplyEvent(Replay(st, L), x.event)
<1>1. \A y \in (L \cup {x}) \ {x} : Before(y, x)  OBVIOUS
<1>2. Latest(L \cup {x}) = x  BY <1>1, LatestIsThis
<1>3. Replay(st, L \cup {x}) = ApplyEvent(Replay(st, (L \cup {x}) \ {x}), x.event)
    BY <1>2, ReplayIs
<1>4. (L \cup {x}) \ {x} = L  OBVIOUS
<1> QED  BY <1>3, <1>4

\* Whether an event leaves a chat alive.
LEMMA ApplyAlive ==
    ASSUME NEW st \in States, NEW e \in Events, NEW c \in Chats, e.chat = c,
           e.type # "chat_created"
    PROVE  LET u == ApplyEvent(st, e)
           IN  /\ e.type \notin ProjectTypes
               /\ Alive(u, c) => Alive(st, c) /\ e.type # "chat_deleted"
               /\ e.type = "chat_draft_discarded" =>
                     (Alive(u, c) => u = st /\ ~st.chats[c].draft)
               /\ e.type \notin {"chat_deleted", "chat_draft_discarded"} =>
                     (Alive(u, c) <=> Alive(st, c))
<1> DEFINE u == ApplyEvent(st, e)
<1>1. e.type \notin ProjectTypes  BY EventKinds, ValueAssumption
<1>2. CASE e.type = "chat_deleted"
    <2>1. /\ ~Known(st, c) => u = st
          /\ Known(st, c) => u.chats[c].deleted
        BY <1>2, ApplyDeleted
    <2> QED  BY <1>1, <1>2, <2>1 DEF Alive
<1>3. CASE e.type = "chat_draft_discarded"
    <2>1. /\ ~Known(st, c) \/ ~st.chats[c].draft => u = st
          /\ Known(st, c) /\ st.chats[c].draft => u.chats[c] = NoValue
        BY <1>3, ApplyDiscarded
    <2> QED  BY <1>1, <1>3, <2>1 DEF Alive, Known
<1>4. CASE e.type \in QueueTypes
    <2>1. u.chats[c] = st.chats[c]  BY <1>1, <1>4, ApplyHere
    <2>2. e.type \notin {"chat_deleted", "chat_draft_discarded"}  BY <1>4 DEF QueueTypes
    <2> QED  BY <1>1, <2>1, <2>2 DEF Alive, Known
<1>5. CASE e.type = "chat_promoted"
    <2>1. /\ Known(u, c) <=> Known(st, c)
          /\ Known(st, c) => u.chats[c].deleted = st.chats[c].deleted
        BY <1>5, ApplyPromoted
    <2> QED  BY <1>1, <1>5, <2>1 DEF Alive
<1>6. CASE e.type \in {"chat_read_state_set", "turn_finished", "session_token_set"}
    <2>1. /\ Known(u, c) <=> Known(st, c)
          /\ Known(st, c) => u.chats[c].deleted = st.chats[c].deleted
        BY <1>6, ApplyRecord
    <2> QED  BY <1>1, <1>6, <2>1 DEF Alive
<1> QED
    <2>1. e.type \in ChatTypes \cup QueueTypes  BY <1>1, EventSplit
    <2> QED  BY <1>2, <1>3, <1>4, <1>5, <1>6, <2>1 DEF ChatTypes, PlainTypes

\* What a replay makes of a chat that it leaves alive.
Remembered(st, S, c) ==
    LET u == Replay(st, S)
    IN  /\ u.chats[c].token = TokenOf(st, S, c)
        /\ u.chats[c].finished <=> FinishedOf(st, S, c)
        /\ u.queue[c] = Replay(st, QueueLines(S, c)).queue[c]

\* A chat that a replay leaves alive has the token, outcome and queue its lines say.
LEMMA Remains ==
    ASSUME NEW st \in States, NEW L, Journal(L), CreatedFirst(L), NEW c \in Chats,
           Alive(Replay(st, L), c)
    PROVE  Remembered(st, L, c)
<1> DEFINE Good == {S \in SUBSET L : Alive(Replay(st, S), c) => Remembered(st, S, c)}
<1>1. {} \in Good
    <2>1. Replay(st, {}) = st  BY ReplayIs, JournalPart
    <2>2. QueueLines({}, c) = {} /\ \A type : ~Has({}, type, c)  BY DEF QueueLines, Has, Line
    <2>4. Alive(st, c) => st.chats[c].finished \in BOOLEAN
        BY StateKinds DEF Alive
    <2>5. Alive(st, c) => Remembered(st, {}, c)
        BY <2>1, <2>2, <2>4 DEF Remembered, TokenOf, FinishedOf
    <2> QED  BY <2>1, <2>5
<1>2. ASSUME NEW S \in SUBSET L, S # {}, S \ {Latest(S)} \in Good PROVE S \in Good
    <2> DEFINE x == Latest(S)
               R == S \ {x}
               e == x.event
               u == Replay(st, R)
               v == Replay(st, S)
               Q == QueueLines(R, c)
    <2> SUFFICES ASSUME Alive(v, c) PROVE Remembered(st, S, c)  OBVIOUS
    <2>1. /\ x \in S /\ R \in SUBSET L /\ x \notin R /\ Adds(S, R, x)
          /\ x \in LineSet /\ e \in Events /\ \A y \in R : Before(y, x)
          /\ Journal(S) /\ Journal(R) /\ u \in States /\ v = ApplyEvent(u, e)
        BY <1>2, ReplayLast
    <2>2. Alive(u, c) => Remembered(st, R, c)  BY <1>2
    <2>3. e.type = "chat_created" => \A y \in R : y.event.chat # e.chat
        BY <1>2, CreatedAlone
    <2>3a. Q \in SUBSET R  BY DEF QueueLines
    <2>3b. Journal(Q)  BY <2>1, <2>3a, JournalPart
    <2>3c. Replay(st, Q) \in States  BY <2>3b, ReplayType
    <2>3d. Replay(st, Q \cup {x}) = ApplyEvent(Replay(st, Q), e)
        <3>1. Q \cup {x} \in SUBSET S  BY <2>1, <2>3a
        <3>2. x \notin Q /\ \A y \in Q : Before(y, x)
            <4> HIDE DEF Q, x
            <4> QED  BY <2>1, <2>3a
        <3> HIDE DEF Q, x
        <3>3. Journal(Q \cup {x})  BY <2>1, <3>1, JournalPart
        <3> QED  BY <3>2, <3>3, ReplayAppend
    <2> HIDE DEF x, R, u, v, Q
    <2>3e. u = Replay(st, R) /\ v = Replay(st, S) /\ Q = QueueLines(R, c)  BY DEF u, v, Q, R
    <2>4. CASE e.chat # c
        <3>1. /\ TokenOf(st, S, c) = TokenOf(st, R, c)
              /\ FinishedOf(st, S, c) <=> FinishedOf(st, R, c)
              /\ QueueLines(S, c) = Q
            <4>1. Adds(S, R, x) /\ x.event.chat # c  BY <2>1, <2>4
            <4> HIDE DEF e
            <4> QED  BY <2>3e, <4>1, SaysElsewhere
        <3>2. v.chats[c] = u.chats[c] /\ v.queue[c] = u.queue[c]  BY <2>1, <2>4, ApplyElsewhere
        <3>3. Alive(u, c)  BY <3>2 DEF Alive, Known
        <3> QED  BY <2>2, <2>3e, <3>1, <3>2, <3>3 DEF Remembered
    <2>5. CASE e.chat = c /\ e.type = "chat_created"
        <3>1. \A y \in R : y.event.chat # c  BY <2>3, <2>5
        <3>2. u.queue[c] = st.queue[c]  BY <2>1, <2>3e, <3>1, ReplayElsewhere
        <3>3. /\ Has(S, "chat_created", c)
              /\ ~Has(S, "session_token_set", c) /\ ~Has(S, "turn_finished", c)
              /\ QueueLines(S, c) = {}
            <4>1. Adds(S, R, x) /\ x.event.type = "chat_created" /\ x.event.chat = c
                BY <2>1, <2>5 DEF e
            <4> HIDE DEF e
            <4> QED  BY <3>1, <4>1, SaysCreated
        <3>6. v.chats[c] = NewChat(e.value) /\ v.queue[c] = u.queue[c]
            BY <2>1, <2>5, ApplyHere DEF ProjectTypes
        <3>7. e.value \in BOOLEAN  BY <2>1, <2>5, EventKinds
        <3>8. NewChat(e.value).token = NoValue /\ NewChat(e.value).finished = FALSE
            BY <3>7, NewChatIs
        <3>10. Replay(st, {}).queue[c] = st.queue[c]  BY ReplayIs, JournalPart
        <3>13. TokenOf(st, S, c) = NoValue /\ ~FinishedOf(st, S, c)
            BY <3>3 DEF TokenOf, FinishedOf
        <3> QED  BY <2>3e, <3>2, <3>3, <3>6, <3>7, <3>8, <3>10, <3>13 DEF Remembered
    <2>6. CASE e.chat = c /\ e.type # "chat_created"
        <3>1. Alive(u, c) /\ e.type # "chat_deleted" /\ e.type \notin ProjectTypes
            BY <2>1, <2>6, ApplyAlive
        <3>3. /\ \A type : Has(S, type, c) <=> Has(R, type, c) \/ type = e.type
              /\ \A type : type # e.type => Line(S, type, c) = Line(R, type, c)
              /\ Line(S, e.type, c) = Line(R, e.type, c) \cup {x}
              /\ e.type \notin QueueTypes => QueueLines(S, c) = Q
              /\ e.type \in QueueTypes => QueueLines(S, c) = Q \cup {x}
            <4>1. Adds(S, R, x) /\ x.event.type # "chat_created" /\ x.event.chat = c /\ e = x.event
                BY <2>1, <2>6 DEF e
            <4> HIDE DEF e
            <4> QED  BY <2>3e, <4>1, SaysMore
        <3>8. /\ u.chats[c].token = TokenOf(st, R, c)
              /\ (u.chats[c].finished <=> FinishedOf(st, R, c))
              /\ u.queue[c] = Replay(st, Q).queue[c]
            BY <2>2, <2>3e, <3>1 DEF Remembered
        <3>9. Known(u, c) /\ ~u.chats[c].deleted  BY <3>1 DEF Alive
        <3>11. e.type # "turn_finished" => (FinishedOf(st, S, c) <=> FinishedOf(st, R, c))
            BY <2>6, <3>3 DEF FinishedOf
        <3>12. e.type # "session_token_set" => TokenOf(st, S, c) = TokenOf(st, R, c)
            BY <2>6, <3>3 DEF TokenOf
        <3>14. CASE e.type \in QueueTypes
            <4>1. v.chats[c] = u.chats[c]  BY <2>1, <2>6, <3>1, <3>14, ApplyHere
            <4>2. v.queue[c] = ApplyEvent(Replay(st, Q), e).queue[c]
                BY <2>1, <2>3c, <2>6, <3>8, <3>14, ApplyQueueAlone
            <4>4. e.type \notin {"turn_finished", "session_token_set"}
                BY <3>14 DEF QueueTypes
            <4>5. v.queue[c] = Replay(st, QueueLines(S, c)).queue[c]
                BY <2>3d, <3>3, <3>14, <4>2
            <4> QED  BY <2>3e, <3>8, <3>11, <3>12, <4>1, <4>4, <4>5 DEF Remembered
        <3>15. CASE e.type = "chat_promoted"
            <4>1. /\ v.chats[c].token = u.chats[c].token
                  /\ v.chats[c].finished = u.chats[c].finished
                  /\ v.queue = u.queue
                BY <2>1, <2>6, <3>9, <3>15, ApplyPromoted
            <4>3. e.type \notin QueueTypes \cup {"turn_finished", "session_token_set"}
                BY <3>15 DEF QueueTypes
            <4> QED  BY <2>3e, <3>3, <3>8, <3>11, <3>12, <4>1, <4>3 DEF Remembered
        <3>16. CASE e.type \in {"chat_read_state_set", "turn_finished", "session_token_set"}
            <4>1. /\ v.chats[c].token = IF e.type = "session_token_set" THEN e.value
                                        ELSE u.chats[c].token
                  /\ v.chats[c].finished <=> e.type = "turn_finished" \/ u.chats[c].finished
                  /\ v.queue = u.queue
                <5> HIDE DEF e
                <5> QED  BY <2>1, <2>6, <3>9, <3>16, ApplyRecord, SMTT(60)
            <4>2. e.type \notin QueueTypes  BY <3>16 DEF QueueTypes
            <4>3. v.chats[c].finished <=> FinishedOf(st, S, c)
                <5>1. CASE e.type = "turn_finished"
                    <6>1. FinishedOf(st, S, c)  BY <3>3, <5>1 DEF FinishedOf
                    <6> QED  BY <4>1, <5>1, <6>1
                <5>2. CASE e.type # "turn_finished"  BY <3>8, <3>11, <4>1, <5>2
                <5> QED  BY <5>1, <5>2
            <4>4. v.chats[c].token = TokenOf(st, S, c)
                <5>1. CASE e.type = "session_token_set"
                    <6>1. Line(S, "session_token_set", c) = Line(R, "session_token_set", c) \cup {x}
                        BY <3>3, <5>1
                    <6> DEFINE T == Line(S, "session_token_set", c)
                    <6>2. T \in SUBSET S /\ x \in T  BY <6>1 DEF Line
                    <6>2a. \A y \in S : y \in R \/ y = x  BY <2>1 DEF Adds
                    <6>3. Journal(T) /\ \A y \in T \ {x} : Before(y, x)
                        <7> HIDE DEF T, e
                        <7>1. Journal(T)  BY <2>1, <6>2, JournalPart
                        <7> QED  BY <2>1, <6>2, <6>2a, <7>1
                    <6> HIDE DEF T
                    <6>4. Latest(T) = x  BY <6>2, <6>3, LatestIsThis
                    <6>5. Has(S, "session_token_set", c)  BY <3>3, <5>1
                    <6> QED  BY <4>1, <5>1, <6>4, <6>5 DEF TokenOf, T, e
                <5>2. CASE e.type # "session_token_set"  BY <3>8, <3>12, <4>1, <5>2
                <5> QED  BY <5>1, <5>2
            <4>5. v.queue[c] = Replay(st, QueueLines(S, c)).queue[c]
                <5>1. QueueLines(S, c) = Q  BY <3>3, <4>2
                <5> QED  BY <3>8, <4>1, <5>1
            <4> QED  BY <2>3e, <4>3, <4>4, <4>5 DEF Remembered
        <3>17. CASE e.type = "chat_draft_discarded"
            <4>1. v = u  BY <2>1, <2>6, <3>17, ApplyAlive
            <4>2. e.type \notin QueueTypes \cup {"turn_finished", "session_token_set"}
                BY <3>17 DEF QueueTypes
            <4>3. /\ FinishedOf(st, S, c) <=> FinishedOf(st, R, c)
                  /\ TokenOf(st, S, c) = TokenOf(st, R, c)
                  /\ QueueLines(S, c) = Q
                BY <3>3, <3>11, <3>12, <4>2
            <4>4. /\ v.chats[c].token = TokenOf(st, S, c)
                  /\ v.chats[c].finished <=> FinishedOf(st, S, c)
                  /\ v.queue[c] = Replay(st, QueueLines(S, c)).queue[c]
                BY <3>8, <4>1, <4>3
            <4> QED  BY <2>3e, <4>4 DEF Remembered
        <3> QED
            <4>1. e.type \in ChatTypes \cup QueueTypes  BY <2>1, <2>6, <3>1, EventSplit
            <4> QED  BY <3>1, <3>14, <3>15, <3>16, <3>17, <4>1 DEF ChatTypes, PlainTypes
    <2> QED  BY <2>4, <2>5, <2>6
<1> HIDE DEF Good
<1>3. L \in Good  BY <1>1, <1>2, OneByOne
<1> QED  BY <1>3 DEF Good

\* A chat that its lines say is alive is, and a draft or not as they say.
LEMMA Live ==
    ASSUME NEW st \in States, NEW L, Journal(L), CreatedFirst(L), NEW c \in Chats,
           Lives(st, L, c)
    PROVE  /\ Alive(Replay(st, L), c)
           /\ Replay(st, L).chats[c].draft <=> StaysDraft(st, L, c)
<1> DEFINE Shown(S) == /\ Alive(Replay(st, S), c)
                       /\ Replay(st, S).chats[c].draft <=> StaysDraft(st, S, c)
           Good == {S \in SUBSET L : Lives(st, S, c) => Shown(S)}
<1>1. {} \in Good
    <2>1. Replay(st, {}) = st  BY ReplayIs, JournalPart
    <2>2. \A type : ~Has({}, type, c)  BY DEF Has, Line
    <2>3. Lives(st, {}, c) => Alive(st, c)  BY <2>2 DEF Lives, Begins
    <2>4. Alive(st, c) => st.chats[c].draft \in BOOLEAN  BY StateKinds DEF Alive
    <2>5. Lives(st, {}, c) => Shown({})
        BY <2>1, <2>2, <2>3, <2>4 DEF StaysDraft, BeginsDraft
    <2> QED  BY <2>5
<1>2. ASSUME NEW S \in SUBSET L, S # {}, S \ {Latest(S)} \in Good PROVE S \in Good
    <2> DEFINE x == Latest(S)
               R == S \ {x}
               e == x.event
               u == Replay(st, R)
               v == Replay(st, S)
    <2> SUFFICES ASSUME Lives(st, S, c)
                 PROVE  Alive(v, c) /\ (v.chats[c].draft <=> StaysDraft(st, S, c))
        OBVIOUS
    <2>1. /\ x \in S /\ R \in SUBSET L /\ x \notin R /\ Adds(S, R, x)
          /\ x \in LineSet /\ e \in Events /\ \A y \in R : Before(y, x)
          /\ Journal(S) /\ Journal(R) /\ u \in States /\ v = ApplyEvent(u, e)
        BY <1>2, ReplayLast
    <2>2. Lives(st, R, c) => Alive(u, c) /\ (u.chats[c].draft <=> StaysDraft(st, R, c))
        BY <1>2
    <2>3. e.type = "chat_created" => \A y \in R : y.event.chat # e.chat
        BY <1>2, CreatedAlone
    <2> HIDE DEF x, R, u, v
    <2>4. CASE e.chat # c
        <3>1. /\ Lives(st, R, c)
              /\ StaysDraft(st, S, c) <=> StaysDraft(st, R, c)
            <4>1. Adds(S, R, x) /\ x.event.chat # c  BY <2>1, <2>4
            <4> HIDE DEF e
            <4> QED  BY <4>1, SaysElsewhere
        <3>2. v.chats[c] = u.chats[c]  BY <2>1, <2>4, ApplyElsewhere
        <3>3. Alive(v, c) <=> Alive(u, c)  BY <3>2 DEF Alive, Known
        <3> QED  BY <2>2, <3>1, <3>2, <3>3
    <2>5. CASE e.chat = c /\ e.type = "chat_created"
        <3>1. \A y \in R : y.event.chat # c  BY <2>3, <2>5
        <3>3. /\ Has(S, "chat_created", c) /\ ~Has(S, "chat_promoted", c)
              /\ Line(S, "chat_created", c) = {x}
            <4>1. Adds(S, R, x) /\ x.event.type = "chat_created" /\ x.event.chat = c
                BY <2>1, <2>5 DEF e
            <4> HIDE DEF e
            <4> QED  BY <3>1, <4>1, SaysCreated
        <3>6. v.chats[c] = NewChat(e.value)
            BY <2>1, <2>5, ApplyHere DEF ProjectTypes
        <3>7. e.value \in BOOLEAN  BY <2>1, <2>5, EventKinds
        <3>8. /\ NewChat(e.value) # NoValue /\ NewChat(e.value).draft = e.value
              /\ NewChat(e.value).deleted = FALSE
            BY <3>7, NewChatIs
        <3>9. Alive(v, c)  BY <3>6, <3>8 DEF Alive, Known
        <3>12. StaysDraft(st, S, c) <=> e.value
            <4>1. BeginsDraft(st, S, c) <=> \E y \in {x} : y.event.value = TRUE
                BY <3>3 DEF BeginsDraft
            <4> QED  BY <3>3, <3>7, <4>1 DEF StaysDraft, e
        <3> QED  BY <3>6, <3>8, <3>9, <3>12
    <2>6. CASE e.chat = c /\ e.type # "chat_created"
        <3>3. /\ \A type : Has(S, type, c) <=> Has(R, type, c) \/ type = e.type
              /\ Begins(st, S, c) <=> Begins(st, R, c)
              /\ BeginsDraft(st, S, c) <=> BeginsDraft(st, R, c)
            BY <2>1, <2>6, SaysMore DEF e
        <3>4. e.type \notin {"chat_deleted", "chat_draft_discarded"} /\ Lives(st, R, c)
            BY <3>3 DEF Lives
        <3>5. Alive(u, c) /\ (u.chats[c].draft <=> StaysDraft(st, R, c))  BY <2>2, <3>4
        <3>6. Alive(v, c) /\ e.type \notin ProjectTypes  BY <2>1, <2>6, <3>4, <3>5, ApplyAlive
        <3>7. Known(u, c) /\ ~u.chats[c].deleted  BY <3>5 DEF Alive
        <3>10. e.type # "chat_promoted" => (StaysDraft(st, S, c) <=> StaysDraft(st, R, c))
            BY <3>3 DEF StaysDraft
        <3>14. CASE e.type \in QueueTypes
            <4>1. v.chats[c] = u.chats[c]  BY <2>1, <2>6, <3>6, <3>14, ApplyHere
            <4>4. e.type # "chat_promoted"  BY <3>14 DEF QueueTypes
            <4> QED  BY <3>5, <3>6, <3>10, <4>1, <4>4
        <3>15. CASE e.type = "chat_promoted"
            <4>1. ~v.chats[c].draft  BY <2>1, <2>6, <3>7, <3>15, ApplyPromoted
            <4>2. ~StaysDraft(st, S, c)  BY <3>3, <3>15 DEF StaysDraft
            <4> QED  BY <3>6, <4>1, <4>2
        <3>16. CASE e.type \in {"chat_read_state_set", "turn_finished", "session_token_set"}
            <4>1. v.chats[c].draft = u.chats[c].draft  BY <2>1, <2>6, <3>7, <3>16, ApplyRecord
            <4> QED  BY <3>5, <3>6, <3>10, <3>16, <4>1
        <3> QED
            <4>1. e.type \in ChatTypes \cup QueueTypes  BY <2>1, <2>6, <3>6, EventSplit
            <4> QED  BY <3>4, <3>14, <3>15, <3>16, <4>1 DEF ChatTypes, PlainTypes
    <2> QED  BY <2>4, <2>5, <2>6
<1> HIDE DEF Good
<1>3. L \in Good  BY <1>1, <1>2, OneByOne
<1> QED  BY <1>3 DEF Good

\* A chat that the lines end, or never begin, a replay does not leave alive.
LEMMA Dead ==
    ASSUME NEW st \in States, NEW L, Journal(L), CreatedFirst(L), NEW c \in Chats,
           ~Lives(st, L, c), Discards(st, L, c)
    PROVE  ~Alive(Replay(st, L), c)
<1> DEFINE Good == {S \in SUBSET L :
                       ~Lives(st, S, c) /\ Discards(st, S, c) => ~Alive(Replay(st, S), c)}
<1>1. {} \in Good
    <2>1. Replay(st, {}) = st  BY ReplayIs, JournalPart
    <2>2. \A type : ~Has({}, type, c)  BY DEF Has, Line
    <2>3. ~Lives(st, {}, c) => ~Alive(st, c)  BY <2>2 DEF Lives, Begins
    <2> QED  BY <2>1, <2>3
<1>2. ASSUME NEW S \in SUBSET L, S # {}, S \ {Latest(S)} \in Good PROVE S \in Good
    <2> DEFINE x == Latest(S)
               R == S \ {x}
               e == x.event
               u == Replay(st, R)
               v == Replay(st, S)
    <2> SUFFICES ASSUME ~Lives(st, S, c), Discards(st, S, c) PROVE ~Alive(v, c)  OBVIOUS
    <2>1. /\ x \in S /\ R \in SUBSET L /\ x \notin R /\ Adds(S, R, x)
          /\ x \in LineSet /\ e \in Events /\ \A y \in R : Before(y, x)
          /\ Journal(S) /\ Journal(R) /\ u \in States /\ v = ApplyEvent(u, e)
        BY <1>2, ReplayLast
    <2>2. ~Lives(st, R, c) /\ Discards(st, R, c) => ~Alive(u, c)  BY <1>2
    <2>3. e.type = "chat_created" => \A y \in R : y.event.chat # e.chat
        BY <1>2, CreatedAlone
    <2>4. CreatedFirst(R)  BY <2>1 DEF CreatedFirst
    <2> HIDE DEF x, R, u, v
    <2>5. u = Replay(st, R) /\ v = Replay(st, S)  BY DEF u, v
    <2>6. CASE e.chat # c
        <3>1. ~Lives(st, R, c) /\ Discards(st, R, c)
            <4>1. Adds(S, R, x) /\ x.event.chat # c  BY <2>1, <2>6
            <4> HIDE DEF e
            <4> QED  BY <4>1, SaysElsewhere
        <3>2. v.chats[c] = u.chats[c]  BY <2>1, <2>6, ApplyElsewhere
        <3> QED  BY <2>2, <3>1, <3>2 DEF Alive, Known
    <2>7. CASE e.chat = c /\ e.type = "chat_created"
        <3>1. \A y \in R : y.event.chat # c  BY <2>3, <2>7
        <3>2. /\ Has(S, "chat_created", c) /\ ~Has(S, "chat_deleted", c)
              /\ ~Has(S, "chat_draft_discarded", c)
            <4>1. Adds(S, R, x) /\ x.event.type = "chat_created" /\ x.event.chat = c
                BY <2>1, <2>7 DEF e
            <4> HIDE DEF e
            <4> QED  BY <3>1, <4>1, SaysCreated
        <3> QED  BY <3>2 DEF Lives, Begins
    <2>8. CASE e.chat = c /\ e.type # "chat_created"
        <3>1. \A type : Has(S, type, c) <=> Has(R, type, c) \/ type = e.type
            BY <2>1, <2>8, HasGrows DEF e
        <3>2. Line(S, "chat_created", c) = Line(R, "chat_created", c)
            <4>1. Adds(S, R, x) /\ ~(x.event.type = "chat_created" /\ x.event.chat = c)
                BY <2>1, <2>8 DEF e
            <4> QED  BY <4>1, LineGrows
        <3>3. Begins(st, S, c) <=> Begins(st, R, c)  BY <2>8, <3>1 DEF Begins
        <3>4. BeginsDraft(st, S, c) <=> BeginsDraft(st, R, c)
            BY <2>8, <3>1, <3>2 DEF BeginsDraft
        <3>5. StaysDraft(st, S, c) => StaysDraft(st, R, c)  BY <3>1, <3>4 DEF StaysDraft
        <3>6. e.type \notin ProjectTypes  BY <2>1, <2>8, EventKinds, ValueAssumption
        <3>7. CASE e.type = "chat_deleted"
            <4>1. /\ ~Known(u, c) => v = u
                  /\ Known(u, c) => v.chats[c].deleted
                BY <2>1, <2>8, <3>7, ApplyDeleted
            <4> QED  BY <4>1 DEF Alive
        <3>8. ASSUME e.type # "chat_deleted" PROVE Discards(st, R, c)
            BY <3>1, <3>3, <3>5, <3>8 DEF Discards
        <3>9. CASE e.type = "chat_draft_discarded"
            <4>1. /\ ~Known(u, c) \/ ~u.chats[c].draft => v = u
                  /\ Known(u, c) /\ u.chats[c].draft => v.chats[c] = NoValue
                BY <2>1, <2>8, <3>9, ApplyDiscarded
            <4>2. CASE Lives(st, R, c)
                <5>1. Alive(u, c) /\ (u.chats[c].draft <=> StaysDraft(st, R, c))
                    BY <2>1, <2>4, <2>5, <4>2, Live
                <5>2. StaysDraft(st, S, c)
                    BY <3>1, <3>3, <3>9, <4>2 DEF Discards, Lives
                <5> QED  BY <3>5, <4>1, <5>1, <5>2 DEF Alive, Known
            <4>3. CASE ~Lives(st, R, c)
                <5>1. ~Alive(u, c)  BY <2>2, <3>8, <3>9, <4>3
                <5> QED  BY <4>1, <5>1 DEF Alive, Known
            <4> QED  BY <4>2, <4>3
        <3>10. CASE e.type \notin {"chat_deleted", "chat_draft_discarded"}
            <4>1. ~Lives(st, R, c)  BY <3>1, <3>3, <3>10 DEF Lives
            <4>2. ~Alive(u, c)  BY <2>2, <3>8, <3>10, <4>1
            <4>3. CASE e.type \in QueueTypes
                <5>1. v.chats[c] = u.chats[c]  BY <2>1, <2>8, <3>6, <4>3, ApplyHere
                <5> QED  BY <4>2, <5>1 DEF Alive, Known
            <4>4. CASE e.type = "chat_promoted"
                <5>1. /\ Known(v, c) <=> Known(u, c)
                      /\ Known(u, c) => v.chats[c].deleted = u.chats[c].deleted
                    BY <2>1, <2>8, <4>4, ApplyPromoted
                <5> QED  BY <4>2, <5>1 DEF Alive
            <4>5. CASE e.type \in {"chat_read_state_set", "turn_finished", "session_token_set"}
                <5>1. /\ Known(v, c) <=> Known(u, c)
                      /\ Known(u, c) => v.chats[c].deleted = u.chats[c].deleted
                    BY <2>1, <2>8, <4>5, ApplyRecord
                <5> QED  BY <4>2, <5>1 DEF Alive
            <4>6. e.type \in ChatTypes \cup QueueTypes  BY <2>1, <2>8, <3>6, EventSplit
            <4> QED  BY <3>10, <4>3, <4>4, <4>5, <4>6 DEF ChatTypes, PlainTypes
        <3> QED  BY <3>7, <3>9, <3>10
    <2> QED  BY <2>6, <2>7, <2>8
<1> HIDE DEF Good
<1>3. L \in Good  BY <1>1, <1>2, OneByOne
<1> QED  BY <1>3 DEF Good

LEMMA AppendDistinct ==
    ASSUME NEW q \in Seq(Msgs), NEW m \in Msgs
    PROVE  /\ Append(q, m) \in Seq(Msgs)
           /\ \A n : Contains(Append(q, m), n) <=> Contains(q, n) \/ n = m
           /\ Distinct(q) /\ ~Contains(q, m) => Distinct(Append(q, m))
<1> DEFINE r == Append(q, m)
<1>1. /\ r \in Seq(Msgs) /\ Len(r) = Len(q) + 1 /\ r[Len(q) + 1] = m
      /\ \A i \in 1 .. Len(q) : r[i] = q[i]
    BY AppendProperties
<1> HIDE DEF r
<1>2. Len(q) \in Nat  OBVIOUS
<1>3. \A i \in 1 .. Len(r) : i \in 1 .. Len(q) \/ i = Len(q) + 1  BY <1>1, <1>2
<1>3a. \A i \in 1 .. Len(q) : i \in 1 .. Len(r)  BY <1>1, <1>2
<1>3b. Len(q) + 1 \in 1 .. Len(r)  BY <1>1, <1>2
<1>4. \A n : Contains(r, n) <=> Contains(q, n) \/ n = m
    BY <1>1, <1>3, <1>3a, <1>3b DEF Contains
<1>5. Distinct(q) /\ ~Contains(q, m) => Distinct(r)
    BY <1>1, <1>3 DEF Contains, Distinct
<1> QED  BY <1>1, <1>4, <1>5 DEF r

LEMMA RemoveDistinct ==
    ASSUME NEW q \in Seq(Msgs), NEW m, Distinct(q)
    PROVE  /\ RemoveFirst(q, m) \in Seq(Msgs)
           /\ Distinct(RemoveFirst(q, m))
           /\ \A n : Contains(RemoveFirst(q, m), n) <=> Contains(q, n) /\ n # m
<1> DEFINE r == RemoveFirst(q, m)
<1>1. CASE ~Contains(q, m)  BY <1>1, RemoveFirstIs
<1>2. CASE Contains(q, m)
    <2>1. PICK i \in 1 .. Len(q) :
              /\ q[i] = m /\ r \in Seq(Msgs) /\ Len(r) = Len(q) - 1
              /\ \A k \in 1 .. Len(q) - 1 : r[k] = IF k < i THEN q[k] ELSE q[k + 1]
        BY <1>2, RemoveFirstIs
    <2> HIDE DEF r
    <2>2. Len(q) \in Nat  OBVIOUS
    <2>3. \A k \in 1 .. Len(r) : \E j \in 1 .. Len(q) :
              j # i /\ r[k] = q[j] /\ j = IF k < i THEN k ELSE k + 1
        <3> TAKE k \in 1 .. Len(r)
        <3> DEFINE j == IF k < i THEN k ELSE k + 1
        <3>1. j \in 1 .. Len(q) /\ j # i /\ k \in 1 .. Len(q) - 1  BY <2>1, <2>2
        <3>2. r[k] = q[j]  BY <2>1, <3>1
        <3> QED  BY <3>1, <3>2
    <2>4. \A j \in 1 .. Len(q) : j # i => \E k \in 1 .. Len(r) : r[k] = q[j]
        <3> TAKE j \in 1 .. Len(q)
        <3> DEFINE k == IF j < i THEN j ELSE j - 1
        <3> HAVE j # i
        <3>1. k \in 1 .. Len(r) /\ k \in 1 .. Len(q) - 1 /\ j = IF k < i THEN k ELSE k + 1
            BY <2>1, <2>2
        <3>2. r[k] = q[j]  BY <2>1, <3>1
        <3> QED  BY <3>1, <3>2
    <2>5. Distinct(r)
        <3> SUFFICES ASSUME NEW k1 \in 1 .. Len(r), NEW k2 \in 1 .. Len(r), r[k1] = r[k2]
                     PROVE  k1 = k2
            BY DEF Distinct
        <3>1. PICK j1 \in 1 .. Len(q) :
                  j1 # i /\ r[k1] = q[j1] /\ j1 = IF k1 < i THEN k1 ELSE k1 + 1  BY <2>3
        <3>2. PICK j2 \in 1 .. Len(q) :
                  j2 # i /\ r[k2] = q[j2] /\ j2 = IF k2 < i THEN k2 ELSE k2 + 1  BY <2>3
        <3>3. j1 = j2  BY <3>1, <3>2 DEF Distinct
        <3> QED  BY <2>1, <2>2, <3>1, <3>2, <3>3
    <2>6. ASSUME NEW n PROVE Contains(r, n) <=> Contains(q, n) /\ n # m
        <3>1. ASSUME Contains(r, n) PROVE Contains(q, n) /\ n # m
            <4>1. PICK k \in 1 .. Len(r) : r[k] = n  BY <3>1 DEF Contains
            <4>2. PICK j \in 1 .. Len(q) : j # i /\ r[k] = q[j]  BY <2>3
            <4> QED  BY <2>1, <4>1, <4>2 DEF Contains, Distinct
        <3>2. ASSUME Contains(q, n), n # m PROVE Contains(r, n)
            <4>1. PICK j \in 1 .. Len(q) : q[j] = n  BY <3>2 DEF Contains
            <4>2. PICK k \in 1 .. Len(r) : r[k] = q[j]  BY <2>1, <2>4, <3>2, <4>1
            <4> QED  BY <4>1, <4>2 DEF Contains
        <3> QED  BY <3>1, <3>2
    <2> QED  BY <2>1, <2>5, <2>6 DEF r
<1> QED  BY <1>1, <1>2

\* What an event makes of a queue.
LEMMA QueueEffect ==
    ASSUME NEW st \in States, NEW e \in Events, NEW c \in Chats
    PROVE  LET q == st.queue[c]
               r == ApplyEvent(st, e).queue[c]
           IN  \/ r = q
               \/ r = <<>>
               \/ /\ e.type = "queued_message_enqueued" /\ e.chat = c
                  /\ ~Contains(q, e.value) /\ r = Append(q, e.value)
               \/ /\ e.type = "queued_message_removed" /\ e.chat = c
                  /\ r = RemoveFirst(q, e.value)
<1>1. CASE e.chat # c  BY <1>1, ApplyElsewhere
<1>2. CASE e.chat = c
    <2>1. e.type \notin ProjectTypes  BY <1>2, EventKinds, ValueAssumption
    <2>2. CASE e.type \in QueueTypes
        <3>1. CASE e.type = "queued_message_enqueued"  BY <1>2, <2>2, <3>1, ApplyQueue
        <3>2. CASE e.type = "queued_message_removed"  BY <1>2, <2>2, <3>2, ApplyQueue
        <3> QED  BY <2>2, <3>1, <3>2 DEF QueueTypes
    <2>3. CASE e.type = "chat_draft_discarded"
        <3>1. ApplyEvent(st, e) = st \/ ApplyEvent(st, e).queue[c] = <<>>
            BY <1>2, <2>3, ApplyDiscarded
        <3> QED  BY <3>1
    <2>4. CASE e.type = "chat_deleted"
        <3>1. ApplyEvent(st, e) = st \/ ApplyEvent(st, e).queue[c] = <<>>
            BY <1>2, <2>4, ApplyDeleted
        <3> QED  BY <3>1
    <2>5. CASE e.type \notin QueueTypes \cup {"chat_draft_discarded", "chat_deleted"}
        <3>1. ApplyEvent(st, e).queue[c] = st.queue[c]  BY <1>2, <2>1, <2>5, ApplyHere
        <3> QED  BY <3>1
    <2> QED  BY <2>2, <2>3, <2>4, <2>5
<1> QED  BY <1>1, <1>2

\* A queue holds a message once, and no message but those it held or was sent.
LEMMA ApplyDistinct ==
    ASSUME NEW st \in States, NEW e \in Events, NEW c \in Chats, Distinct(st.queue[c])
    PROVE  /\ Distinct(ApplyEvent(st, e).queue[c])
           /\ \A m : Contains(ApplyEvent(st, e).queue[c], m)
                     => \/ Contains(st.queue[c], m)
                        \/ e.type = "queued_message_enqueued" /\ e.chat = c /\ e.value = m
<1> DEFINE q == st.queue[c]
           r == ApplyEvent(st, e).queue[c]
<1>0. q \in Seq(Msgs)  BY StateKinds
<1>1. \/ r = q
      \/ r = <<>>
      \/ /\ e.type = "queued_message_enqueued" /\ e.chat = c
         /\ ~Contains(q, e.value) /\ r = Append(q, e.value)
      \/ /\ e.type = "queued_message_removed" /\ e.chat = c
         /\ r = RemoveFirst(q, e.value)
    BY QueueEffect
<1> SUFFICES /\ Distinct(r)
             /\ \A m : Contains(r, m)
                     => \/ Contains(q, m)
                        \/ e.type = "queued_message_enqueued" /\ e.chat = c /\ e.value = m
    OBVIOUS
<1>2. Distinct(q)  OBVIOUS
<1> HIDE DEF q, r
<1>3. CASE r = q  BY <1>2, <1>3
<1>4. CASE r = <<>>  BY <1>4 DEF Contains, Distinct
<1>5. CASE /\ e.type = "queued_message_enqueued" /\ e.chat = c
           /\ ~Contains(q, e.value) /\ r = Append(q, e.value)
    <2>1. e.value \in Msgs  BY <1>5, EventKinds DEF QueueTypes
    <2>2. Distinct(r) /\ \A n : Contains(r, n) <=> Contains(q, n) \/ n = e.value
        BY <1>0, <1>2, <1>5, <2>1, AppendDistinct
    <2> QED  BY <1>5, <2>2
<1>6. CASE e.type = "queued_message_removed" /\ e.chat = c /\ r = RemoveFirst(q, e.value)
    <2>1. Distinct(r) /\ \A n : Contains(r, n) <=> Contains(q, n) /\ n # e.value
        BY <1>0, <1>2, <1>6, RemoveDistinct
    <2> QED  BY <2>1
<1> QED  BY <1>1, <1>3, <1>4, <1>5, <1>6

\* A replay queues no message twice, and none that was neither held nor sent.
LEMMA ReplayDistinct ==
    ASSUME NEW st \in States, NEW L, Journal(L), NEW c \in Chats, Distinct(st.queue[c])
    PROVE  /\ Distinct(Replay(st, L).queue[c])
           /\ \A m : Contains(Replay(st, L).queue[c], m)
                     => Contains(st.queue[c], m) \/ Sent(L, m)
<1> DEFINE Sane(S) == /\ Distinct(Replay(st, S).queue[c])
                      /\ \A m : Contains(Replay(st, S).queue[c], m)
                                => Contains(st.queue[c], m) \/ Sent(S, m)
           Good == {S \in SUBSET L : Sane(S)}
<1>1. {} \in Good
    <2>1. Replay(st, {}) = st  BY ReplayIs, JournalPart
    <2> QED  BY <2>1
<1>2. ASSUME NEW S \in SUBSET L, S # {}, S \ {Latest(S)} \in Good PROVE S \in Good
    <2> DEFINE x == Latest(S)
               R == S \ {x}
               u == Replay(st, R)
               v == Replay(st, S)
    <2>1. /\ x \in S /\ Adds(S, R, x) /\ x.event \in Events
          /\ u \in States /\ v = ApplyEvent(u, x.event)
        BY <1>2, ReplayLast
    <2>2. Sane(R)  BY <1>2
    <2>3. /\ Distinct(v.queue[c])
          /\ \A m : Contains(v.queue[c], m)
                    => \/ Contains(u.queue[c], m)
                       \/ /\ x.event.type = "queued_message_enqueued"
                          /\ x.event.chat = c /\ x.event.value = m
        <3>1. Distinct(u.queue[c])  BY <2>2
        <3> HIDE DEF x, R, u, v
        <3> QED  BY <2>1, <3>1, ApplyDistinct
    <2>4. \A m : Sent(R, m) => Sent(S, m)  BY DEF Sent
    <2>5. \A m : Contains(u.queue[c], m) => Contains(st.queue[c], m) \/ Sent(S, m)
        <3>1. \A m : Contains(u.queue[c], m) => Contains(st.queue[c], m) \/ Sent(R, m)
            BY <2>2
        <3> HIDE DEF R, u
        <3> QED  BY <2>4, <3>1
    <2>6. \A m : x.event.type = "queued_message_enqueued" /\ x.event.chat = c /\ x.event.value = m
               => Sent(S, m)
        <3> HIDE DEF x
        <3> QED  BY <2>1 DEF Sent
    <2>7. Sane(S)
        <3> HIDE DEF x, R, u
        <3> QED  BY <2>3, <2>5, <2>6
    <2> QED  BY <2>7
<1> HIDE DEF Good
<1>3. L \in Good  BY <1>1, <1>2, OneByOne
<1> QED  BY <1>3 DEF Good

\* Lines of one chat's queue.
OfQueue(Q, c) == \A x \in Q : x.event.type \in QueueTypes /\ x.event.chat = c

\* What one more such line does to a queue.
LEMMA QueueStep ==
    ASSUME NEW st \in States, NEW L, Journal(L), NEW c \in Chats, OfQueue(L, c),
           NEW S \in SUBSET L, S # {}, Distinct(Replay(st, S \ {Latest(S)}).queue[c])
    PROVE  LET x == Latest(S)
               R == S \ {x}
               e == x.event
               q == Replay(st, R).queue[c]
               r == Replay(st, S).queue[c]
           IN  /\ x \in S /\ Adds(S, R, x) /\ \A y \in R : Before(y, x)
               /\ q \in Seq(Msgs) /\ r \in Seq(Msgs) /\ Distinct(r) /\ e.value \in Msgs
               /\ \/ /\ e.type = "queued_message_enqueued" /\ Contains(q, e.value) /\ r = q
                  \/ /\ e.type = "queued_message_enqueued" /\ ~Contains(q, e.value)
                     /\ r = Append(q, e.value)
                     /\ \A n : Contains(r, n) <=> Contains(q, n) \/ n = e.value
                  \/ /\ e.type = "queued_message_removed" /\ r = RemoveFirst(q, e.value)
                     /\ \A n : Contains(r, n) <=> Contains(q, n) /\ n # e.value
<1> DEFINE x == Latest(S)
           R == S \ {x}
           u == Replay(st, R)
           v == Replay(st, S)
           q == u.queue[c]
           r == v.queue[c]
<1>1. /\ x \in S /\ Adds(S, R, x) /\ x.event \in Events /\ \A y \in R : Before(y, x)
      /\ u \in States /\ v = ApplyEvent(u, x.event)
    BY ReplayLast, SMTT(60)
<1>2. x.event.type \in QueueTypes /\ x.event.chat = c  BY <1>1 DEF OfQueue
<1>3. Distinct(q)  OBVIOUS
<1> SUFFICES
        /\ q \in Seq(Msgs) /\ r \in Seq(Msgs) /\ Distinct(r) /\ x.event.value \in Msgs
        /\ \/ /\ x.event.type = "queued_message_enqueued" /\ Contains(q, x.event.value) /\ r = q
           \/ /\ x.event.type = "queued_message_enqueued" /\ ~Contains(q, x.event.value)
              /\ r = Append(q, x.event.value)
              /\ \A n : Contains(r, n) <=> Contains(q, n) \/ n = x.event.value
           \/ /\ x.event.type = "queued_message_removed" /\ r = RemoveFirst(q, x.event.value)
              /\ \A n : Contains(r, n) <=> Contains(q, n) /\ n # x.event.value
    BY <1>1
<1> HIDE DEF x, R, u, v
<1>4. v \in States  BY <1>1, ApplyType
<1>5. q \in Seq(Msgs) /\ r \in Seq(Msgs)  BY <1>1, <1>4, StateKinds
<1>6. x.event.value \in Msgs  BY <1>1, <1>2, EventKinds
<1>7. CASE x.event.type = "queued_message_enqueued" /\ Contains(q, x.event.value)
    <2>1. r = q  BY <1>1, <1>2, <1>7, ApplyQueue
    <2> HIDE DEF q, r
    <2> QED  BY <1>3, <1>5, <1>6, <1>7, <2>1
<1>8. CASE x.event.type = "queued_message_enqueued" /\ ~Contains(q, x.event.value)
    <2>1. r = Append(q, x.event.value)  BY <1>1, <1>2, <1>8, ApplyQueue
    <2> HIDE DEF q, r
    <2>2. /\ Distinct(r) /\ \A n : Contains(r, n) <=> Contains(q, n) \/ n = x.event.value
        BY <1>3, <1>5, <1>6, <1>8, <2>1, AppendDistinct
    <2> QED  BY <1>5, <1>6, <1>8, <2>1, <2>2
<1>9. CASE x.event.type = "queued_message_removed"
    <2>1. r = RemoveFirst(q, x.event.value)  BY <1>1, <1>2, <1>9, ApplyQueue
    <2> HIDE DEF q, r
    <2>2. /\ Distinct(r) /\ \A n : Contains(r, n) <=> Contains(q, n) /\ n # x.event.value
        BY <1>3, <1>5, <2>1, RemoveDistinct
    <2> QED  BY <1>5, <1>6, <1>9, <2>1, <2>2
<1> QED  BY <1>2, <1>7, <1>8, <1>9 DEF QueueTypes

LEMMA SentGrows ==
    ASSUME NEW S, NEW R, NEW x, Adds(S, R, x)
    PROVE  /\ \A m : Sent(S, m) <=> \/ Sent(R, m)
                                    \/ /\ x.event.type = "queued_message_enqueued"
                                       /\ x.event.value = m
           /\ \A m : Removed(S, m) <=> \/ Removed(R, m)
                                       \/ /\ x.event.type = "queued_message_removed"
                                          /\ x.event.value = m
BY DEF Adds, Sent, Removed

\* A message is not sent after it was removed.
LEMMA SentBefore ==
    ASSUME NEW L, Journal(L), EnqueuedFirst(L), NEW S \in SUBSET L, NEW R, NEW x,
           x \in S, Adds(S, R, x), \A y \in R : Before(y, x),
           x.event.type = "queued_message_enqueued"
    PROVE  ~Removed(S, x.event.value)
<1> SUFFICES ASSUME NEW y \in S, y.event.type = "queued_message_removed",
                    y.event.value = x.event.value
             PROVE  FALSE
    BY DEF Removed
<1>1. Before(x, y)  BY DEF EnqueuedFirst
<1>2. y \in R  BY DEF Adds
<1> QED  BY <1>1, <1>2, BeforeOrders

\* After a replay a queue is as its lines say.
LEMMA QueueSettles ==
    ASSUME NEW st \in States, NEW L, Journal(L), NEW c \in Chats, OfQueue(L, c),
           EnqueuedFirst(L), Distinct(st.queue[c])
    PROVE  Settled(Replay(st, L).queue[c], L)
<1> DEFINE Sane(S) == /\ Distinct(Replay(st, S).queue[c])
                      /\ Settled(Replay(st, S).queue[c], S)
           Good == {S \in SUBSET L : Sane(S)}
<1>1. {} \in Good
    <2>1. Replay(st, {}) = st  BY ReplayIs, JournalPart
    <2>2. Settled(st.queue[c], {})  BY DEF Settled, Sent, Removed
    <2> QED  BY <2>1, <2>2
<1>2. ASSUME NEW S \in SUBSET L, S # {}, S \ {Latest(S)} \in Good PROVE S \in Good
    <2> DEFINE x == Latest(S)
               R == S \ {x}
               e == x.event
               q == Replay(st, R).queue[c]
               r == Replay(st, S).queue[c]
    <2>1. Distinct(q) /\ Settled(q, R)  BY <1>2
    <2>2. /\ x \in S /\ Adds(S, R, x) /\ \A y \in R : Before(y, x)
          /\ q \in Seq(Msgs) /\ r \in Seq(Msgs) /\ Distinct(r) /\ e.value \in Msgs
          /\ \/ /\ e.type = "queued_message_enqueued" /\ Contains(q, e.value) /\ r = q
             \/ /\ e.type = "queued_message_enqueued" /\ ~Contains(q, e.value)
                /\ r = Append(q, e.value)
                /\ \A n : Contains(r, n) <=> Contains(q, n) \/ n = e.value
             \/ /\ e.type = "queued_message_removed" /\ r = RemoveFirst(q, e.value)
                /\ \A n : Contains(r, n) <=> Contains(q, n) /\ n # e.value
        BY <1>2, <2>1, QueueStep
    <2> HIDE DEF x, R, q, r
    <2>3. /\ \A m : Sent(S, m) <=> Sent(R, m) \/ (e.type = "queued_message_enqueued" /\ e.value = m)
          /\ \A m : Removed(S, m) <=> Removed(R, m) \/ (e.type = "queued_message_removed" /\ e.value = m)
        BY <2>2, SentGrows
    <2>4. e.type = "queued_message_enqueued" => ~Removed(S, e.value)
        BY <2>2, SentBefore
    <2> HIDE DEF e
    <2>5. Settled(r, S)
        <3>1. CASE e.type = "queued_message_enqueued" /\ Contains(q, e.value) /\ r = q
            BY <2>1, <2>3, <3>1 DEF Settled
        <3>2. CASE /\ e.type = "queued_message_enqueued" /\ ~Contains(q, e.value)
                   /\ r = Append(q, e.value)
                   /\ \A n : Contains(r, n) <=> Contains(q, n) \/ n = e.value
            BY <2>1, <2>3, <2>4, <3>2 DEF Settled
        <3>3. CASE /\ e.type = "queued_message_removed" /\ r = RemoveFirst(q, e.value)
                   /\ \A n : Contains(r, n) <=> Contains(q, n) /\ n # e.value
            BY <2>1, <2>3, <3>3 DEF Settled
        <3> QED  BY <2>2, <3>1, <3>2, <3>3
    <2> QED  BY <2>2, <2>5 DEF r
<1> HIDE DEF Good
<1>3. L \in Good  BY <1>1, <1>2, OneByOne
<1> QED  BY <1>3 DEF Good

\* Replaying what is already in a queue leaves it as it was.
LEMMA QueueAgain ==
    ASSUME NEW st \in States, NEW L, Journal(L), NEW c \in Chats, OfQueue(L, c),
           EnqueuedFirst(L), Distinct(st.queue[c]), Settled(st.queue[c], L)
    PROVE  Replay(st, L).queue[c] = st.queue[c]
<1> DEFINE p == st.queue[c]
           Longer(r) == Len(p) <= Len(r) /\ \A i \in 1 .. Len(p) : r[i] = p[i]
           Extra(r, S) == \A m \in Msgs : Contains(r, m) /\ ~Contains(p, m)
                                          => Sent(S, m) /\ ~Removed(S, m)
           Sane(S) == /\ Distinct(Replay(st, S).queue[c])
                      /\ Longer(Replay(st, S).queue[c])
                      /\ Extra(Replay(st, S).queue[c], S)
           Good == {S \in SUBSET L : Sane(S)}
<1>0. p \in Seq(Msgs) /\ Len(p) \in Nat  BY StateKinds
<1>1. {} \in Good
    <2>1. Replay(st, {}) = st  BY ReplayIs, JournalPart
    <2> QED  BY <1>0, <2>1
<1>2. ASSUME NEW S \in SUBSET L, S # {}, S \ {Latest(S)} \in Good PROVE S \in Good
    <2> DEFINE x == Latest(S)
               R == S \ {x}
               e == x.event
               q == Replay(st, R).queue[c]
               r == Replay(st, S).queue[c]
    <2>1. Distinct(q) /\ Longer(q) /\ Extra(q, R)  BY <1>2
    <2>2. /\ x \in S /\ Adds(S, R, x) /\ \A y \in R : Before(y, x)
          /\ q \in Seq(Msgs) /\ r \in Seq(Msgs) /\ Distinct(r) /\ e.value \in Msgs
          /\ \/ /\ e.type = "queued_message_enqueued" /\ Contains(q, e.value) /\ r = q
             \/ /\ e.type = "queued_message_enqueued" /\ ~Contains(q, e.value)
                /\ r = Append(q, e.value)
                /\ \A n : Contains(r, n) <=> Contains(q, n) \/ n = e.value
             \/ /\ e.type = "queued_message_removed" /\ r = RemoveFirst(q, e.value)
                /\ \A n : Contains(r, n) <=> Contains(q, n) /\ n # e.value
        BY <1>2, <2>1, QueueStep
    <2> HIDE DEF x, R, q, r
    <2>3. /\ \A m : Sent(S, m) <=> Sent(R, m) \/ (e.type = "queued_message_enqueued" /\ e.value = m)
          /\ \A m : Removed(S, m) <=> Removed(R, m) \/ (e.type = "queued_message_removed" /\ e.value = m)
        BY <2>2, SentGrows
    <2>4. e.type = "queued_message_enqueued" => ~Removed(S, e.value)
        BY <2>2, SentBefore
    <2>4a. e.type = "queued_message_removed" => ~Contains(p, e.value)
        <3> SUFFICES ASSUME e.type = "queued_message_removed" PROVE ~Contains(p, e.value)
            OBVIOUS
        <3>1. Removed(L, e.value)  BY <2>2 DEF Removed
        <3> QED  BY <2>2, <3>1 DEF Settled
    <2> HIDE DEF e, p
    <2>5. CASE e.type = "queued_message_enqueued" /\ Contains(q, e.value) /\ r = q
        <3>1. \A m : Removed(S, m) <=> Removed(R, m)  BY <2>3, <2>5
        <3>2. Extra(r, S)  BY <2>1, <2>3, <2>5, <3>1
        <3> QED  BY <2>1, <2>2, <2>5, <3>2 DEF r
    <2>6. CASE /\ e.type = "queued_message_enqueued" /\ ~Contains(q, e.value)
               /\ r = Append(q, e.value)
               /\ \A n : Contains(r, n) <=> Contains(q, n) \/ n = e.value
        <3>1. \A m : Removed(S, m) <=> Removed(R, m)  BY <2>3, <2>6
        <3>2. Extra(r, S)
            <4> SUFFICES ASSUME NEW m \in Msgs, Contains(r, m), ~Contains(p, m)
                         PROVE  Sent(S, m) /\ ~Removed(S, m)
                OBVIOUS
            <4>1. CASE m = e.value  BY <2>3, <2>4, <2>6, <4>1
            <4>2. CASE m # e.value
                <5>1. Contains(q, m)  BY <2>6, <4>2
                <5> QED  BY <2>1, <2>3, <3>1, <5>1
            <4> QED  BY <4>1, <4>2
        <3>3. Longer(r)
            <4>1. Len(r) = Len(q) + 1 /\ \A i \in 1 .. Len(q) : r[i] = q[i]
                BY <2>2, <2>6, AppendProperties
            <4>2. Len(q) \in Nat  BY <2>2
            <4> HIDE DEF Extra
            <4> QED  BY <1>0, <2>1, <4>1, <4>2
        <3> HIDE DEF Extra, Longer
        <3> QED  BY <2>2, <3>2, <3>3 DEF r
    <2>7. CASE /\ e.type = "queued_message_removed" /\ r = RemoveFirst(q, e.value)
               /\ \A n : Contains(r, n) <=> Contains(q, n) /\ n # e.value
        <3>2. Extra(r, S)
            <4> SUFFICES ASSUME NEW m \in Msgs, Contains(r, m), ~Contains(p, m)
                         PROVE  Sent(S, m) /\ ~Removed(S, m)
                OBVIOUS
            <4>1. m # e.value /\ Contains(q, m)  BY <2>7
            <4> QED  BY <2>1, <2>3, <4>1
        <3>3. Longer(r)
            <4>1. CASE ~Contains(q, e.value)
                <5>1. r = q  BY <2>2, <2>7, <4>1, RemoveFirstIs
                <5> QED  BY <2>1, <5>1
            <4>2. CASE Contains(q, e.value)
                <5>1. PICK i \in 1 .. Len(q) :
                          /\ q[i] = e.value /\ Len(r) = Len(q) - 1
                          /\ \A k \in 1 .. Len(q) - 1 : r[k] = IF k < i THEN q[k] ELSE q[k + 1]
                    BY <2>2, <2>7, <4>2, RemoveFirstIs
                <5>2. Len(q) \in Nat  BY <2>2
                <5>3. ~(i <= Len(p))
                    <6> SUFFICES ASSUME i <= Len(p) PROVE FALSE  OBVIOUS
                    <6>1. i \in 1 .. Len(p)  BY <1>0, <5>1
                    <6>2. p[i] = e.value  BY <2>1, <5>1, <6>1
                    <6> QED  BY <2>4a, <2>7, <6>1, <6>2 DEF Contains
                <5> HIDE DEF Extra
                <5> QED  BY <1>0, <2>1, <5>1, <5>2, <5>3
            <4> QED  BY <4>1, <4>2
        <3> HIDE DEF Extra, Longer
        <3> QED  BY <2>2, <3>2, <3>3 DEF r
    <2> QED  BY <2>2, <2>5, <2>6, <2>7
<1>3. L \in Good
    <2> HIDE DEF Good
    <2> QED  BY <1>1, <1>2, OneByOne
<1> DEFINE r == Replay(st, L).queue[c]
<1>4. Distinct(r) /\ Longer(r) /\ Extra(r, L)  BY <1>3
<1>5. r \in Seq(Msgs)  BY ReplayType, StateKinds
<1>5a. Settled(p, L)  OBVIOUS
<1> HIDE DEF r, p
<1>6. Len(r) = Len(p)
    <2> SUFFICES ASSUME Len(r) # Len(p) PROVE FALSE  OBVIOUS
    <2>1. Len(r) \in Nat  BY <1>5
    <2> DEFINE i == Len(p) + 1
               m == r[i]
    <2>2. i \in 1 .. Len(r)  BY <1>0, <1>4, <2>1
    <2>3. m \in Msgs /\ Contains(r, m)  BY <1>5, <2>2, ElementOfSeq DEF Contains
    <2>4. ~Contains(p, m)
        <3> SUFFICES ASSUME NEW j \in 1 .. Len(p), p[j] = m PROVE FALSE  BY DEF Contains
        <3>1. r[j] = m /\ j \in 1 .. Len(r)  BY <1>0, <1>4, <2>1
        <3>2. j = i  BY <1>4, <2>2, <3>1 DEF Distinct
        <3> QED  BY <1>0, <3>2
    <2> HIDE DEF i, m
    <2> QED  BY <1>4, <1>5a, <2>3, <2>4 DEF Settled
<1>7. r = p  BY <1>0, <1>4, <1>5, <1>6, SeqEqual
<1> QED  BY <1>7 DEF r, p

\* The log of a line, by the type of its event.
LEMMA ChatLineKinds ==
    ASSUME NEW x \in LineSet
    PROVE  /\ x.source = 0 <=> x.event.type \in ProjectTypes
           /\ x.source = 3 <=> x.event.type \in QueueTypes
           /\ x.source = 4 <=> x.event.type \in {"turn_finished", "session_token_set"}
           /\ x.source = 1 <=> x.event.type \notin ProjectTypes \cup QueueTypes
                                                   \cup {"turn_finished", "session_token_set"}
<1>1. x.event \in Events /\ x.source = Source(LogOf(x.event))  BY LineKinds
<1> DEFINE l == LogOf(x.event)
<1>2. /\ l \in Logs
      /\ l = "projects" <=> x.event.type \in ProjectTypes
      /\ l = "queued" <=> x.event.type \in QueueTypes
      /\ l = "turns" <=> x.event.type \in {"turn_finished", "session_token_set"}
    BY <1>1, LogKinds
<1> HIDE DEF l
<1>3. /\ Source(l) = 0 <=> l = "projects"
      /\ Source(l) = 1 <=> l = "chats"
      /\ Source(l) = 3 <=> l = "queued"
      /\ Source(l) = 4 <=> l = "turns"
    BY <1>2, SourceKinds
<1>4. x.source = Source(l)  BY <1>1 DEF l
<1> QED  BY <1>2, <1>3, <1>4 DEF Logs

LEMMA HasTypeGrows ==
    ASSUME NEW S, NEW R, NEW x, Adds(S, R, x)
    PROVE  \A type : HasType(S, type) <=> HasType(R, type) \/ x.event.type = type
BY DEF HasType, Adds

LEMMA ShowsElsewhere ==
    ASSUME NEW S, NEW R, NEW x, NEW c, Adds(S, R, x), x.event.chat # c
    PROVE  /\ \A st : Shows(st, S, c) <=> Shows(st, R, c)
           /\ CreatedOpen(S, c) <=> CreatedOpen(R, c)
<1>1. \A type : Line(S, type, c) = Line(R, type, c)
    BY DEF Line, Adds
<1>2. \A type : Has(S, type, c) <=> Has(R, type, c)  BY <1>1 DEF Has
<1>3. \A st : Begins(st, S, c) <=> Begins(st, R, c)  BY <1>2 DEF Begins
<1>4. \A st : BeginsDraft(st, S, c) <=> BeginsDraft(st, R, c)  BY <1>1, <1>2 DEF BeginsDraft
<1>5. CreatedOpen(S, c) <=> CreatedOpen(R, c)  BY <1>1 DEF CreatedOpen
<1> QED  BY <1>2, <1>3, <1>4, <1>5 DEF Shows

LEMMA ShowsMore ==
    ASSUME NEW S, NEW R, NEW x, NEW c, Adds(S, R, x), x.event.chat = c,
           x.event.type # "chat_created"
    PROVE  /\ CreatedOpen(S, c) <=> CreatedOpen(R, c)
           /\ x.event.type # "chat_promoted" => \A st : Shows(st, S, c) <=> Shows(st, R, c)
           /\ x.event.type = "chat_promoted" =>
                 \A st : Shows(st, S, c)
                     <=> Shows(st, R, c) \/ (Begins(st, R, c) /\ BeginsDraft(st, R, c))
<1>1. /\ \A type : Has(S, type, c) <=> Has(R, type, c) \/ type = x.event.type
      /\ \A type : type # x.event.type => Line(S, type, c) = Line(R, type, c)
      /\ \A st : Begins(st, S, c) <=> Begins(st, R, c)
      /\ \A st : BeginsDraft(st, S, c) <=> BeginsDraft(st, R, c)
    BY SaysMore
<1>2. CreatedOpen(S, c) <=> CreatedOpen(R, c)  BY <1>1 DEF CreatedOpen
<1>3. Has(S, "chat_promoted", c)
          <=> Has(R, "chat_promoted", c) \/ x.event.type = "chat_promoted"
    BY <1>1
<1> QED  BY <1>1, <1>2, <1>3 DEF Shows

LEMMA ShowsCreated ==
    ASSUME NEW S, NEW R, NEW x, NEW c, Adds(S, R, x),
           x.event.type = "chat_created", x.event.chat = c, \A y \in R : y.event.chat # c,
           x.event.value \in BOOLEAN
    PROVE  /\ \A st : ~Shows(st, R, c)
           /\ \A st : Shows(st, S, c) <=> ~x.event.value
           /\ CreatedOpen(S, c) <=> ~x.event.value
<1>1. /\ ~Has(S, "chat_promoted", c) /\ Line(S, "chat_created", c) = {x}
      /\ \A type : ~Has(R, type, c)
    BY SaysCreated
<1>2. CreatedOpen(S, c) <=> ~x.event.value  BY <1>1 DEF CreatedOpen
<1>3. ~CreatedOpen(R, c)  BY <1>1 DEF CreatedOpen, Has
<1> QED  BY <1>1, <1>2, <1>3 DEF Shows

\* Whether some chat shows the project, with one line more.
LEMMA PromotesGrows ==
    ASSUME NEW st, NEW S, NEW R, NEW x, Adds(S, R, x), x.event \in Events
    PROVE  /\ x.event.type \notin {"chat_created", "chat_promoted"}
              => (Promotes(st, S) <=> Promotes(st, R))
           /\ x.event.type = "chat_created" /\ (\A y \in R : y.event.chat # x.event.chat)
              => (Promotes(st, S) <=> Promotes(st, R) \/ ~x.event.value)
           /\ x.event.type = "chat_promoted"
              => (Promotes(st, S) <=> \/ Promotes(st, R)
                                      \/ /\ Begins(st, R, x.event.chat)
                                         /\ BeginsDraft(st, R, x.event.chat))
<1> DEFINE d == x.event.chat
<1>1. \A c \in Chats \ {d} : Shows(st, S, c) <=> Shows(st, R, c)
    <2> TAKE c \in Chats \ {d}
    <2>1. x.event.chat # c  OBVIOUS
    <2> QED  BY <2>1, ShowsElsewhere
<1>2. ASSUME x.event.type \notin {"chat_created", "chat_promoted"}
      PROVE  Promotes(st, S) <=> Promotes(st, R)
    <2>1. Shows(st, S, d) <=> Shows(st, R, d)  BY <1>2, ShowsMore
    <2> QED  BY <1>1, <2>1 DEF Promotes
<1>3. ASSUME x.event.type = "chat_created", \A y \in R : y.event.chat # d
      PROVE  Promotes(st, S) <=> Promotes(st, R) \/ ~x.event.value
    <2>1. d \in Chats /\ x.event.value \in BOOLEAN
        BY <1>3, EventKinds DEF ProjectTypes
    <2>2. ~Shows(st, R, d) /\ (Shows(st, S, d) <=> ~x.event.value)
        BY <1>3, <2>1, ShowsCreated
    <2> QED  BY <1>1, <2>1, <2>2 DEF Promotes
<1>4. ASSUME x.event.type = "chat_promoted"
      PROVE  Promotes(st, S) <=> Promotes(st, R) \/ (Begins(st, R, d) /\ BeginsDraft(st, R, d))
    <2>1. d \in Chats  BY <1>4, EventKinds DEF ProjectTypes
    <2>2. Shows(st, S, d) <=> Shows(st, R, d) \/ (Begins(st, R, d) /\ BeginsDraft(st, R, d))
        BY <1>4, ShowsMore
    <2> QED  BY <1>1, <2>1, <2>2 DEF Promotes
<1> QED  BY <1>2, <1>3, <1>4

\* Which events change the project, and how.
LEMMA ApplyToProject ==
    ASSUME NEW st \in States, NEW e \in Events
    PROVE  LET u == ApplyEvent(st, e)
           IN  /\ e.type \notin ProjectTypes \cup {"chat_created", "chat_promoted"}
                  => u.project = st.project
               /\ e.type = "project_opened" => u.project = "open"
               /\ e.type = "project_draft_opened" => u.project = "draft"
               /\ e.type = "project_draft_discarded"
                  => u.project = "none" \/ u.project = st.project
               /\ e.type = "chat_created"
                  => u.project = IF ~e.value /\ st.project = "draft" THEN "open" ELSE st.project
               /\ e.type = "chat_promoted"
                  => u.project = IF /\ Alive(st, e.chat) /\ st.chats[e.chat].draft
                                    /\ st.project = "draft"
                                 THEN "open" ELSE st.project
<1>1. CASE e.type \in ProjectTypes  BY <1>1, ApplyProject DEF ProjectTypes
<1>2. CASE e.type = "chat_created"  BY <1>2, ApplyCreated DEF ProjectTypes
<1>3. CASE e.type \in QueueTypes  BY <1>3, ApplyQueue DEF ProjectTypes, QueueTypes
<1>4. CASE e.type \in ChatTypes
    <2>1. CASE e.type = "chat_promoted"  BY <2>1, ApplyPromoted DEF ProjectTypes
    <2>2. CASE e.type = "chat_draft_discarded"  BY <2>2, ApplyDiscarded DEF ProjectTypes
    <2>3. CASE e.type = "chat_deleted"  BY <2>3, ApplyDeleted DEF ProjectTypes
    <2>4. CASE e.type \in {"chat_read_state_set", "turn_finished", "session_token_set"}
        BY <2>4, ApplyRecord DEF ProjectTypes
    <2> QED  BY <1>4, <2>1, <2>2, <2>3, <2>4 DEF ChatTypes, PlainTypes
<1> QED  BY <1>1, <1>2, <1>3, <1>4, EventSplit

\* At a project's opening as a draft nothing has been said of it.
LEMMA OpenedAlone ==
    ASSUME NEW L, Journal(L), OpenedFirst(L), NEW S \in SUBSET L, NEW R, NEW x, x \in S,
           Adds(S, R, x), \A y \in R : Before(y, x), x \notin R,
           x.event.type = "project_draft_opened"
    PROVE  /\ \A y \in R : y.source # 1
           /\ ~HasType(R, "project_opened") /\ ~HasType(R, "project_draft_opened")
           /\ \A c : ~CreatedOpen(R, c) /\ ~Has(R, "chat_created", c) /\ ~Has(R, "chat_promoted", c)
           /\ \A st : ~Promotes(st, R)
<1>1. R \subseteq S /\ R \subseteq LineSet  BY DEF Adds, Journal
<1>2. \A y \in R : y.source # 1 /\ y.event.type \notin {"project_opened", "project_draft_opened"}
    <2> SUFFICES ASSUME NEW y \in R,
                        y.source = 1 \/ y.event.type \in {"project_opened", "project_draft_opened"}
                 PROVE  FALSE
        OBVIOUS
    <2>1. x \in L /\ y \in L /\ y # x  BY <1>1
    <2>2. Before(x, y)  BY <2>1 DEF OpenedFirst
    <2> QED  BY <2>1, <2>2, BeforeOrders
<1>3. \A y \in R : y.event.type \notin {"chat_created", "chat_promoted"}
    <2> TAKE y \in R
    <2>1. y \in LineSet /\ y.source # 1  BY <1>1, <1>2
    <2> QED  BY <2>1, ChatLineKinds DEF ProjectTypes, QueueTypes
<1>4. \A c : Line(R, "chat_created", c) = {} /\ Line(R, "chat_promoted", c) = {}
    BY <1>3 DEF Line
<1>5. \A c : ~CreatedOpen(R, c) /\ ~Has(R, "chat_created", c) /\ ~Has(R, "chat_promoted", c)
    BY <1>4 DEF CreatedOpen, Has
<1>6. \A st : ~Promotes(st, R)  BY <1>5 DEF Promotes, Shows
<1> QED  BY <1>2, <1>5, <1>6 DEF HasType

\* At a chat's promotion its lines tell whether it is a draft that is alive.
LEMMA PromotionShows ==
    ASSUME NEW st \in States, NEW L, Journal(L), CreatedFirst(L), PromotedFirst(L),
           NEW S \in SUBSET L, NEW R, NEW x, x \in S,
           Adds(S, R, x), \A y \in R : Before(y, x), x \notin R,
           x.event.type = "chat_promoted"
    PROVE  LET c == x.event.chat
               u == Replay(st, R)
               begun == Begins(st, R, c) /\ BeginsDraft(st, R, c)
           IN  /\ c \in Chats
               /\ Alive(u, c) /\ u.chats[c].draft => begun
               /\ begun => \/ Alive(u, c) /\ u.chats[c].draft
                           \/ Has(R, "chat_promoted", c)
<1> DEFINE c == x.event.chat
           u == Replay(st, R)
<1>1. R \subseteq S /\ Journal(R) /\ CreatedFirst(R) /\ x.event \in Events
    <2>1. R \in SUBSET L /\ x \in LineSet  BY DEF Adds, Journal
    <2>2. CreatedFirst(R)  BY <2>1 DEF CreatedFirst
    <2> QED  BY <2>1, <2>2, JournalPart, LineKinds DEF Adds
<1>2. c \in Chats  BY <1>1, EventKinds DEF ProjectTypes
<1>3. ~Has(R, "chat_deleted", c) /\ ~Has(R, "chat_draft_discarded", c)
    <2> SUFFICES ASSUME NEW y \in R, y.event.chat = c,
                        y.event.type \in {"chat_deleted", "chat_draft_discarded"}
                 PROVE  FALSE
        BY DEF Has, Line
    <2>1. x \in L /\ y \in L /\ y # x  BY <1>1
    <2>2. Before(x, y)  BY <2>1 DEF PromotedFirst
    <2> QED  BY <2>1, <2>2, BeforeOrders
<1> HIDE DEF c, u
<1>4. Lives(st, R, c) <=> Begins(st, R, c)  BY <1>3 DEF Lives
<1>5. ASSUME Alive(u, c), u.chats[c].draft PROVE Begins(st, R, c) /\ BeginsDraft(st, R, c)
    <2>1. Lives(st, R, c)
        <3> SUFFICES ASSUME ~Lives(st, R, c) PROVE FALSE  OBVIOUS
        <3>1. Discards(st, R, c)  BY <1>3 DEF Discards
        <3> QED  BY <1>1, <1>2, <1>5, <3>1, Dead DEF u
    <2>2. StaysDraft(st, R, c)  BY <1>1, <1>2, <1>5, <2>1, Live DEF u
    <2> QED  BY <1>4, <2>1, <2>2 DEF StaysDraft
<1>6. ASSUME Begins(st, R, c), BeginsDraft(st, R, c), ~Has(R, "chat_promoted", c)
      PROVE  Alive(u, c) /\ u.chats[c].draft
    <2>1. Lives(st, R, c) /\ StaysDraft(st, R, c)  BY <1>4, <1>6 DEF StaysDraft
    <2> QED  BY <1>1, <1>2, <2>1, Live DEF u
<1> QED  BY <1>2, <1>5, <1>6 DEF c, u

\* What a replay makes of the project, when no draft of it was discarded.
LEMMA ProjectReplay ==
    ASSUME NEW st \in States, NEW L, Journal(L), CreatedFirst(L), PromotedFirst(L),
           OpenedFirst(L), ~HasType(L, "project_draft_discarded")
    PROVE  /\ Replay(st, L).project = "open" <=> Opens(st, L)
           /\ Replay(st, L).project = "none" <=> Hidden(st, L)
<1> DEFINE Sane(S) == /\ Replay(st, S).project = "open" <=> Opens(st, S)
                      /\ Replay(st, S).project = "none" <=> Hidden(st, S)
           Good == {S \in SUBSET L : Sane(S)}
<1>1. {} \in Good
    <2>1. Replay(st, {}) = st  BY ReplayIs, JournalPart
    <2>2. \A c : ~CreatedOpen({}, c) /\ ~Has({}, "chat_promoted", c)
        BY DEF CreatedOpen, Has, Line
    <2>3. ~Promotes(st, {})  BY <2>2 DEF Promotes, Shows
    <2>4. ~HasType({}, "project_opened") /\ ~HasType({}, "project_draft_opened")  BY DEF HasType
    <2> QED  BY <2>1, <2>3, <2>4 DEF Opens, Hidden
<1>2. ASSUME NEW S \in SUBSET L, S # {}, S \ {Latest(S)} \in Good PROVE S \in Good
    <2> DEFINE x == Latest(S)
               R == S \ {x}
               u == Replay(st, R)
               v == Replay(st, S)
    <2>1. /\ x \in S /\ R \in SUBSET L /\ x \notin R /\ Adds(S, R, x)
          /\ x \in LineSet /\ x.event \in Events /\ \A y \in R : Before(y, x)
          /\ u \in States /\ v = ApplyEvent(u, x.event)
        BY <1>2, ReplayLast
    <2>2. (u.project = "open" <=> Opens(st, R)) /\ (u.project = "none" <=> Hidden(st, R))
        BY <1>2
    <2>3. x.event.type = "chat_created" => \A y \in R : y.event.chat # x.event.chat
        BY <1>2, CreatedAlone
    <2> SUFFICES (v.project = "open" <=> Opens(st, S)) /\ (v.project = "none" <=> Hidden(st, S))
        OBVIOUS
    <2> HIDE DEF x, R, u, v
    <2>4. x.event.type # "project_draft_discarded"  BY <2>1 DEF HasType
    <2>5. u.project \in {"none", "draft", "open"}  BY <2>1, StateKinds
    <2>6. /\ HasType(S, "project_opened")
                 <=> HasType(R, "project_opened") \/ x.event.type = "project_opened"
          /\ HasType(S, "project_draft_opened")
                 <=> HasType(R, "project_draft_opened") \/ x.event.type = "project_draft_opened"
        BY <2>1, HasTypeGrows
    <2>7. CASE x.event.type = "project_opened"
        <3>1. v.project = "open"  BY <2>1, <2>7, ApplyToProject
        <3> QED  BY <2>6, <2>7, <3>1 DEF Opens, Hidden
    <2>8. CASE x.event.type = "project_draft_opened"
        <3>1. v.project = "draft"  BY <2>1, <2>8, ApplyToProject
        <3>2. ~HasType(R, "project_opened") /\ ~Promotes(st, R)
            BY <2>1, <2>8, OpenedAlone
        <3>3. ~Promotes(st, S)  BY <2>1, <2>8, <3>2, PromotesGrows
        <3> QED  BY <2>6, <2>8, <3>1, <3>2, <3>3 DEF Opens, Hidden
    <2>9. CASE x.event.type = "chat_created"
        <3>1. v.project = IF ~x.event.value /\ u.project = "draft" THEN "open" ELSE u.project
            BY <2>1, <2>9, ApplyToProject
        <3>2. Promotes(st, S) <=> Promotes(st, R) \/ ~x.event.value
            BY <2>1, <2>3, <2>9, PromotesGrows
        <3>3. x.event.value \in BOOLEAN  BY <2>1, <2>9, EventKinds
        <3>4. /\ HasType(S, "project_opened") <=> HasType(R, "project_opened")
              /\ HasType(S, "project_draft_opened") <=> HasType(R, "project_draft_opened")
            BY <2>6, <2>9
        <3>5. st.project \in {"none", "draft", "open"}  BY StateKinds
        <3> QED  BY <2>2, <2>5, <3>1, <3>2, <3>3, <3>4, <3>5 DEF Opens, Hidden
    <2>10. CASE x.event.type = "chat_promoted"
        <3> DEFINE c == x.event.chat
                   shown == Alive(u, c) /\ u.chats[c].draft
                   begun == Begins(st, R, c) /\ BeginsDraft(st, R, c)
        <3>1. v.project = IF shown /\ u.project = "draft" THEN "open" ELSE u.project
            BY <2>1, <2>10, ApplyToProject
        <3>2. Promotes(st, S) <=> Promotes(st, R) \/ begun  BY <2>1, <2>10, PromotesGrows
        <3>3. c \in Chats /\ (shown => begun) /\ (begun => shown \/ Has(R, "chat_promoted", c))
            BY <2>1, <2>10, PromotionShows DEF u
        <3>4. /\ HasType(S, "project_opened") <=> HasType(R, "project_opened")
              /\ HasType(S, "project_draft_opened") <=> HasType(R, "project_draft_opened")
            BY <2>6, <2>10
        <3>5. st.project \in {"none", "draft", "open"}  BY StateKinds
        <3>6. begun /\ Has(R, "chat_promoted", c) => Promotes(st, R)
            BY <3>3 DEF Promotes, Shows
        <3> HIDE DEF shown, begun, c
        <3>7. begun => shown \/ Promotes(st, R)  BY <3>3, <3>6
        <3> QED  BY <2>2, <2>5, <3>1, <3>2, <3>3, <3>4, <3>5, <3>7 DEF Opens, Hidden
    <2>11. CASE x.event.type \notin ProjectTypes \cup {"chat_created", "chat_promoted"}
        <3>1. v.project = u.project  BY <2>1, <2>11, ApplyToProject
        <3>2. Promotes(st, S) <=> Promotes(st, R)  BY <2>1, <2>11, PromotesGrows
        <3>4. /\ HasType(S, "project_opened") <=> HasType(R, "project_opened")
              /\ HasType(S, "project_draft_opened") <=> HasType(R, "project_draft_opened")
            BY <2>6, <2>11 DEF ProjectTypes
        <3> QED  BY <2>2, <3>1, <3>2, <3>4 DEF Opens, Hidden
    <2> QED  BY <2>4, <2>7, <2>8, <2>9, <2>10, <2>11 DEF ProjectTypes
<1> HIDE DEF Good
<1>3. L \in Good  BY <1>1, <1>2, OneByOne
<1> QED  BY <1>3 DEF Good

\* A chat begun in the open leaves no draft project.
LEMMA NoDraftLeft ==
    ASSUME NEW st \in States, NEW L, Journal(L), CreatedFirst(L), OpenedFirst(L),
           \E c : CreatedOpen(L, c)
    PROVE  Replay(st, L).project # "draft"
<1> DEFINE Good == {S \in SUBSET L : (\E c : CreatedOpen(S, c)) => Replay(st, S).project # "draft"}
<1>1. {} \in Good
    <2>1. \A c : ~CreatedOpen({}, c)  BY DEF CreatedOpen, Line
    <2> QED  BY <2>1
<1>2. ASSUME NEW S \in SUBSET L, S # {}, S \ {Latest(S)} \in Good PROVE S \in Good
    <2> DEFINE x == Latest(S)
               R == S \ {x}
               u == Replay(st, R)
               v == Replay(st, S)
    <2>1. /\ x \in S /\ R \in SUBSET L /\ x \notin R /\ Adds(S, R, x)
          /\ x \in LineSet /\ x.event \in Events /\ \A y \in R : Before(y, x)
          /\ u \in States /\ v = ApplyEvent(u, x.event)
        BY <1>2, ReplayLast
    <2>2. (\E c : CreatedOpen(R, c)) => u.project # "draft"  BY <1>2
    <2>3. x.event.type = "chat_created" => \A y \in R : y.event.chat # x.event.chat
        BY <1>2, CreatedAlone
    <2> SUFFICES ASSUME NEW c, CreatedOpen(S, c) PROVE v.project # "draft"  OBVIOUS
    <2> HIDE DEF x, R, u, v
    <2>4. CASE x.event.chat = c /\ x.event.type = "chat_created"
        <3>1. x.event.value \in BOOLEAN  BY <2>1, <2>4, EventKinds
        <3>2. ~x.event.value  BY <2>1, <2>3, <2>4, <3>1, ShowsCreated
        <3> QED  BY <2>1, <2>4, <3>2, ApplyToProject
    <2>5. CASE ~(x.event.chat = c /\ x.event.type = "chat_created")
        <3>1. CreatedOpen(R, c)
            <4>1. CASE x.event.chat # c  BY <2>1, <4>1, ShowsElsewhere
            <4>2. CASE x.event.chat = c  BY <2>1, <2>5, <4>2, ShowsMore
            <4> QED  BY <4>1, <4>2
        <3>2. u.project # "draft"  BY <2>2, <3>1
        <3>3. x.event.type # "project_draft_opened"  BY <2>1, <3>1, OpenedAlone
        <3> QED  BY <2>1, <3>2, <3>3, ApplyToProject DEF ProjectTypes
    <2> QED  BY <2>4, <2>5
<1> HIDE DEF Good
<1>3. L \in Good  BY <1>1, <1>2, OneByOne
<1> QED  BY <1>3 DEF Good

\* Nor does a draft chat that its lines begin and promote.
LEMMA NoDraftLeftBehind ==
    ASSUME NEW st \in States, NEW L, Journal(L), CreatedFirst(L), OpenedFirst(L), PromotedFirst(L),
           \E c : Has(L, "chat_created", c) /\ Has(L, "chat_promoted", c)
    PROVE  Replay(st, L).project # "draft"
<1> DEFINE Both(S) == \E c : Has(S, "chat_created", c) /\ Has(S, "chat_promoted", c)
           Good == {S \in SUBSET L : Both(S) => Replay(st, S).project # "draft"}
<1>1. {} \in Good
    <2>1. \A c : ~Has({}, "chat_created", c)  BY DEF Has, Line
    <2> QED  BY <2>1
<1>2. ASSUME NEW S \in SUBSET L, S # {}, S \ {Latest(S)} \in Good PROVE S \in Good
    <2> DEFINE x == Latest(S)
               R == S \ {x}
               u == Replay(st, R)
               v == Replay(st, S)
    <2>1. /\ x \in S /\ R \in SUBSET L /\ x \notin R /\ Adds(S, R, x)
          /\ x \in LineSet /\ x.event \in Events /\ \A y \in R : Before(y, x)
          /\ u \in States /\ v = ApplyEvent(u, x.event)
        BY <1>2, ReplayLast
    <2>2. Both(R) => u.project # "draft"  BY <1>2
    <2>3. x.event.type = "chat_created" => \A y \in R : y.event.chat # x.event.chat
        BY <1>2, CreatedAlone
    <2>3a. Journal(R) /\ CreatedFirst(R) /\ OpenedFirst(R)
        <3>1. Journal(R)  BY <1>2, ReplayLast
        <3> HIDE DEF R
        <3>2. CreatedFirst(R) /\ OpenedFirst(R)  BY <2>1 DEF CreatedFirst, OpenedFirst
        <3> QED  BY <3>1, <3>2
    <2> SUFFICES ASSUME NEW c, Has(S, "chat_created", c), Has(S, "chat_promoted", c)
                 PROVE  v.project # "draft"
        OBVIOUS
    <2> HIDE DEF x, R, u, v
    <2>4. CASE x.event.chat = c /\ x.event.type = "chat_created"
        <3>1. ~Has(S, "chat_promoted", c)  BY <2>1, <2>3, <2>4, SaysCreated
        <3> QED  BY <3>1
    <2>5. CASE x.event.chat = c /\ x.event.type = "chat_promoted"
        <3>0. u.project \in {"none", "draft", "open"}  BY <2>1, StateKinds
        <3>1. Has(R, "chat_created", c)  BY <2>1, <2>5, HasGrows
        <3>2. CASE BeginsDraft(st, R, c)
            <4>1. Begins(st, R, c)  BY <3>1 DEF Begins
            <4>2. \/ Alive(u, c) /\ u.chats[c].draft
                  \/ Has(R, "chat_promoted", c)
                BY <2>1, <2>5, <3>2, <4>1, PromotionShows DEF u
            <4>3. CASE Has(R, "chat_promoted", c)
                <5>1. u.project # "draft"  BY <2>2, <3>1, <4>3
                <5> QED  BY <2>1, <2>5, <5>1, ApplyToProject
            <4>4. CASE Alive(u, c) /\ u.chats[c].draft
                BY <2>1, <2>5, <4>4, ApplyToProject
            <4> QED  BY <4>2, <4>3, <4>4
        <3>3. CASE ~BeginsDraft(st, R, c)
            <4>1. CreatedOpen(R, c)
                <5>1. PICK y \in R : y.event.type = "chat_created" /\ y.event.chat = c
                    BY <3>1 DEF Has, Line
                <5>2. y \in Line(R, "chat_created", c)  BY <5>1 DEF Line
                <5>3. y.event.value # TRUE  BY <3>1, <3>3, <5>2 DEF BeginsDraft
                <5>4. y.event \in Events  BY <2>1, <5>1, LineKinds DEF Journal
                <5>5. y.event.value = FALSE  BY <5>1, <5>3, <5>4, EventKinds
                <5> QED  BY <5>2, <5>5 DEF CreatedOpen
            <4>2. u.project # "draft"  BY <2>3a, <4>1, NoDraftLeft DEF u
            <4> QED  BY <2>1, <2>5, <4>2, ApplyToProject
        <3> QED  BY <3>2, <3>3
    <2>6. CASE ~(x.event.chat = c /\ x.event.type \in {"chat_created", "chat_promoted"})
        <3>1. Has(R, "chat_created", c) /\ Has(R, "chat_promoted", c)
            BY <2>1, <2>6, HasGrows
        <3>2. u.project # "draft"  BY <2>2, <3>1
        <3>3. x.event.type # "project_draft_opened"  BY <2>1, <3>1, OpenedAlone
        <3> QED  BY <2>1, <3>2, <3>3, ApplyToProject DEF ProjectTypes
    <2> QED  BY <2>4, <2>5, <2>6
<1> HIDE DEF Good
<1>3. L \in Good  BY <1>1, <1>2, OneByOne
<1> QED  BY <1>3 DEF Good

---------------------------------------------------------------------------
(* One more line *)

\* Most events leave a chat the draft it was, or was not.
LEMMA ApplyKeeps ==
    ASSUME NEW m \in States, NEW e \in Events, NEW c \in Chats, e.chat = c,
           e.type \notin {"chat_created", "chat_promoted", "chat_deleted", "chat_draft_discarded"}
    PROVE  LET u == ApplyEvent(m, e)
           IN  /\ Known(u, c) <=> Known(m, c)
               /\ Alive(u, c) <=> Alive(m, c)
               /\ Known(m, c) => u.chats[c].draft = m.chats[c].draft
               /\ e.type \notin QueueTypes => u.queue[c] = m.queue[c]
<1> DEFINE u == ApplyEvent(m, e)
<1> SUFFICES /\ Known(u, c) <=> Known(m, c)
             /\ Alive(u, c) <=> Alive(m, c)
             /\ Known(m, c) => u.chats[c].draft = m.chats[c].draft
             /\ e.type \notin QueueTypes => u.queue[c] = m.queue[c]
    OBVIOUS
<1>1. e.type \notin ProjectTypes  BY EventKinds, ValueAssumption
<1>2. CASE e.type \in QueueTypes
    <2>1. u.chats[c] = m.chats[c]  BY <1>1, <1>2, ApplyHere
    <2> QED  BY <1>2, <2>1 DEF Known, Alive
<1>3. CASE e.type \in {"chat_read_state_set", "turn_finished", "session_token_set"}
    <2>1. /\ u.queue = m.queue /\ (Known(u, c) <=> Known(m, c))
          /\ Known(m, c) => /\ u.chats[c].draft = m.chats[c].draft
                            /\ u.chats[c].deleted = m.chats[c].deleted
        BY <1>3, ApplyRecord
    <2> QED  BY <2>1 DEF Alive
<1> HIDE DEF u
<1> QED
    <2>1. e.type \in ChatTypes \cup QueueTypes  BY <1>1, EventSplit
    <2>2. \/ e.type \in QueueTypes
          \/ e.type \in {"chat_read_state_set", "turn_finished", "session_token_set"}
        BY <2>1 DEF ChatTypes, PlainTypes
    <2> QED  BY <1>2, <1>3, <2>2

\* Which events change a chat's queue or revive it.
LEMMA ApplyOthers ==
    ASSUME NEW m \in States, NEW e \in Events, NEW c \in Chats, c # e.chat
    PROVE  LET u == ApplyEvent(m, e)
           IN  /\ u.chats[c] = m.chats[c] /\ u.queue[c] = m.queue[c]
               /\ Known(u, c) <=> Known(m, c)
               /\ Alive(u, c) <=> Alive(m, c)
BY ApplyElsewhere DEF Known, Alive

\* What an event's guard says of the store's state m, its lines S and an image.
Fits(m, S, st, e) ==
    LET c == e.chat
    IN  /\ e.type = "chat_created" =>
               /\ st.chats[c] = NoValue /\ st.queue[c] = <<>> /\ m.queue[c] = <<>>
               /\ \A y \in S : y.event.chat # c
        /\ e.type = "chat_promoted" =>
               Alive(m, c) /\ m.chats[c].draft /\ m.project # "none"
        /\ e.type = "chat_draft_discarded" => Known(m, c) /\ m.chats[c].draft
        /\ e.type = "project_draft_opened" => S = {}

\* A chat that agrees with its lines agrees with one more.
LEMMA ChatGrows ==
    ASSUME NEW m \in States, NEW st \in States, NEW S, NEW R, NEW x, Adds(R, S, x),
           x.event \in Events, Fits(m, S, st, x.event),
           NEW c \in Chats, ChatAgrees(m, S, st, c)
    PROVE  ChatAgrees(ApplyEvent(m, x.event), R, st, c)
<1> DEFINE e == x.event
           u == ApplyEvent(m, e)
<1>1. /\ Alive(m, c) <=> Lives(st, S, c)
      /\ Alive(m, c) => (m.chats[c].draft <=> StaysDraft(st, S, c))
      /\ Discards(st, S, c)
    BY DEF ChatAgrees
<1> SUFFICES /\ Alive(u, c) <=> Lives(st, R, c)
             /\ Alive(u, c) => (u.chats[c].draft <=> StaysDraft(st, R, c))
             /\ Discards(st, R, c)
    BY DEF ChatAgrees
<1> HIDE DEF u
<1>2. u = ApplyEvent(m, e)  BY DEF u
<1>3. CASE e.chat # c
    <2>1. /\ Lives(st, R, c) <=> Lives(st, S, c)
          /\ StaysDraft(st, R, c) <=> StaysDraft(st, S, c)
          /\ Discards(st, R, c) <=> Discards(st, S, c)
        <3>1. Adds(R, S, x) /\ x.event.chat # c  BY <1>3
        <3> QED  BY <3>1, SaysElsewhere
    <2>2. u.chats[c] = m.chats[c] /\ (Alive(u, c) <=> Alive(m, c))
        BY <1>2, <1>3, ApplyOthers
    <2> QED  BY <1>1, <2>1, <2>2
<1>4. CASE e.chat = c /\ e.type = "chat_created"
    <2>1. /\ Has(R, "chat_created", c) /\ ~Has(R, "chat_promoted", c)
          /\ ~Has(R, "chat_deleted", c) /\ ~Has(R, "chat_draft_discarded", c)
          /\ Line(R, "chat_created", c) = {x}
        <3>1. Adds(R, S, x) /\ x.event.type = "chat_created" /\ x.event.chat = c
            BY <1>4
        <3>2. \A y \in S : y.event.chat # c  BY <1>4 DEF Fits
        <3> HIDE DEF e
        <3> QED  BY <3>1, <3>2, SaysCreated
    <2>2. u.chats[c] = NewChat(e.value)  BY <1>2, <1>4, ApplyHere DEF ProjectTypes
    <2>3. e.value \in BOOLEAN  BY <1>4, EventKinds
    <2>4. /\ NewChat(e.value) # NoValue /\ NewChat(e.value).draft = e.value
          /\ NewChat(e.value).deleted = FALSE
        BY <2>3, NewChatIs
    <2>5. Alive(u, c)  BY <2>2, <2>4 DEF Alive, Known
    <2>6. Lives(st, R, c) /\ Discards(st, R, c)  BY <2>1 DEF Lives, Begins, Discards
    <2>7. StaysDraft(st, R, c) <=> e.value
        <3>1. BeginsDraft(st, R, c) <=> \E y \in {x} : y.event.value = TRUE
            BY <2>1 DEF BeginsDraft
        <3> QED  BY <2>1, <2>3, <3>1 DEF StaysDraft
    <2> QED  BY <2>2, <2>4, <2>5, <2>6, <2>7
<1>5. CASE e.chat = c /\ e.type # "chat_created"
    <2>1. /\ \A type : Has(R, type, c) <=> Has(S, type, c) \/ type = e.type
          /\ Begins(st, R, c) <=> Begins(st, S, c)
          /\ BeginsDraft(st, R, c) <=> BeginsDraft(st, S, c)
        BY <1>5, SaysMore
    <2>2. e.type \notin ProjectTypes  BY <1>5, EventKinds, ValueAssumption
    <2>3. CASE e.type = "chat_deleted"
        <3>1. /\ ~Known(m, c) => u = m
              /\ Known(m, c) => u.chats[c].deleted
            BY <1>2, <1>5, <2>3, ApplyDeleted
        <3>2. ~Lives(st, R, c) /\ Discards(st, R, c)  BY <2>1, <2>3 DEF Lives, Discards
        <3> QED  BY <3>1, <3>2 DEF Alive
    <2>4. CASE e.type = "chat_draft_discarded"
        <3>1. Known(m, c) /\ m.chats[c].draft  BY <1>5, <2>4 DEF Fits
        <3>2. u.chats[c] = NoValue  BY <1>2, <1>5, <2>4, <3>1, ApplyDiscarded
        <3>3. ~Lives(st, R, c)  BY <2>1, <2>4 DEF Lives
        <3>4. StaysDraft(st, R, c) <=> StaysDraft(st, S, c)  BY <2>1, <2>4 DEF StaysDraft
        <3>5. ASSUME Begins(st, S, c), ~Has(S, "chat_deleted", c) PROVE StaysDraft(st, S, c)
            <4>1. CASE Alive(m, c)  BY <1>1, <3>1, <4>1
            <4>2. CASE ~Alive(m, c)  BY <1>1, <3>5, <4>2 DEF Lives, Discards
            <4> QED  BY <4>1, <4>2
        <3>6. Discards(st, R, c)  BY <2>1, <2>4, <3>4, <3>5 DEF Discards
        <3> QED  BY <3>2, <3>3, <3>6 DEF Alive, Known
    <2>5. CASE e.type = "chat_promoted"
        <3>1. Alive(m, c) /\ Known(m, c) /\ ~m.chats[c].deleted
            BY <1>5, <2>5 DEF Fits, Alive
        <3>2. /\ Known(u, c) /\ (u.chats[c].draft <=> m.chats[c].draft /\ m.chats[c].deleted)
              /\ u.chats[c].deleted = m.chats[c].deleted
            BY <1>2, <1>5, <2>5, <3>1, ApplyPromoted, ZenonT(60)
        <3>3. Alive(u, c) /\ ~u.chats[c].draft  BY <3>1, <3>2 DEF Alive
        <3>4. Lives(st, S, c)  BY <1>1, <3>1
        <3>5. Lives(st, R, c) /\ Discards(st, R, c)  BY <2>1, <2>5, <3>4 DEF Lives, Discards
        <3>6. ~StaysDraft(st, R, c)  BY <2>1, <2>5 DEF StaysDraft
        <3> QED  BY <3>3, <3>5, <3>6
    <2>6. CASE e.type \notin {"chat_promoted", "chat_deleted", "chat_draft_discarded"}
        <3>1. /\ Alive(u, c) <=> Alive(m, c)
              /\ Known(m, c) => u.chats[c].draft = m.chats[c].draft
            BY <1>2, <1>5, <2>6, ApplyKeeps
        <3>2. /\ Lives(st, R, c) <=> Lives(st, S, c)
              /\ StaysDraft(st, R, c) <=> StaysDraft(st, S, c)
              /\ Discards(st, R, c) <=> Discards(st, S, c)
            BY <2>1, <2>6 DEF Lives, StaysDraft, Discards
        <3>3. Alive(m, c) => Known(m, c)  BY DEF Alive
        <3> QED  BY <1>1, <3>1, <3>2, <3>3
    <2> QED  BY <2>3, <2>4, <2>5, <2>6
<1> QED  BY <1>3, <1>4, <1>5

\* What an event makes of a chat's queue, if it leaves the chat alive.
LEMMA ApplyAliveQueue ==
    ASSUME NEW m \in States, NEW e \in Events, NEW c \in Chats, Alive(ApplyEvent(m, e), c),
           e.type = "chat_draft_discarded" => Known(m, e.chat) /\ m.chats[e.chat].draft,
           e.type \notin QueueTypes \/ e.chat # c
    PROVE  /\ ApplyEvent(m, e).queue[c] = m.queue[c]
           /\ Alive(m, c) \/ (e.type = "chat_created" /\ e.chat = c)
<1> DEFINE u == ApplyEvent(m, e)
<1>1. CASE e.chat # c  BY <1>1, ApplyOthers
<1>2. CASE e.chat = c /\ e.type = "chat_created"
    <2>1. u.queue[c] = m.queue[c]  BY <1>2, ApplyHere DEF ProjectTypes, QueueTypes
    <2> QED  BY <1>2, <2>1
<1>3. CASE e.chat = c /\ e.type # "chat_created"
    <2>1. e.type \notin ProjectTypes /\ Alive(m, c) /\ e.type # "chat_deleted"
        BY <1>3, ApplyAlive
    <2>2. e.type # "chat_draft_discarded"
        <3>1. SUFFICES ASSUME e.type = "chat_draft_discarded" PROVE FALSE  OBVIOUS
        <3>2. u.chats[c] = NoValue  BY <1>3, <3>1, ApplyDiscarded
        <3> QED  BY <3>2 DEF Alive, Known
    <2>3. u.queue[c] = m.queue[c]  BY <1>3, <2>1, <2>2, ApplyHere
    <2> QED  BY <2>1, <2>3
<1> QED  BY <1>1, <1>2, <1>3

\* A queue that agrees with its lines agrees with one more.
LEMMA QueueGrows ==
    ASSUME NEW m \in States, NEW st \in States, NEW S, NEW R, NEW x, Adds(R, S, x), x \notin S,
           Journal(R), x.event \in Events, Fits(m, S, st, x.event),
           NEW c \in Chats, QueueAgrees(m, S, st, c),
           \A y \in QueueLines(S, c) : x.event.type \in QueueTypes => Before(y, x)
    PROVE  QueueAgrees(ApplyEvent(m, x.event), R, st, c)
<1> DEFINE e == x.event
           u == ApplyEvent(m, e)
<1> SUFFICES ASSUME Alive(u, c)
             PROVE  Replay(st, QueueLines(R, c)).queue[c] = u.queue[c]
    BY DEF QueueAgrees
<1>1. e.type = "chat_draft_discarded" => Known(m, e.chat) /\ m.chats[e.chat].draft
    BY DEF Fits
<1>2. CASE e.type \in QueueTypes /\ e.chat = c
    <2> DEFINE Q == QueueLines(S, c)
    <2>1. QueueLines(R, c) = Q \cup {x}
        BY <1>2, SaysMore DEF QueueTypes
    <2>2. Alive(m, c)  BY <1>2, ApplyKeeps DEF QueueTypes
    <2>3. Journal(Q \cup {x}) /\ Journal(Q)
        <3>1. Q \cup {x} \subseteq R /\ Q \subseteq R  BY DEF Adds, QueueLines
        <3> QED  BY <3>1, JournalPart
    <2>4. x \notin Q /\ \A y \in Q : Before(y, x)  BY <1>2 DEF QueueLines
    <2> HIDE DEF Q
    <2>5. Replay(st, Q \cup {x}) = ApplyEvent(Replay(st, Q), x.event)
        BY <2>3, <2>4, ReplayAppend
    <2>6. Replay(st, Q) \in States  BY <2>3, ReplayType
    <2>7. Replay(st, Q).queue[e.chat] = m.queue[e.chat]
        BY <1>2, <2>2 DEF QueueAgrees, Q
    <2>8. ApplyEvent(Replay(st, Q), e).queue[e.chat] = ApplyEvent(m, e).queue[e.chat]
        BY <1>2, <2>6, <2>7, ApplyQueueAlone
    <2> QED  BY <1>2, <2>1, <2>5, <2>8
<1>3. CASE e.type \notin QueueTypes \/ e.chat # c
    <2>1. /\ u.queue[c] = m.queue[c]
          /\ Alive(m, c) \/ (e.type = "chat_created" /\ e.chat = c)
        BY <1>1, <1>3, ApplyAliveQueue
    <2>2. CASE e.type = "chat_created" /\ e.chat = c
        <3>1. QueueLines(R, c) = {}
            <4>1. Adds(R, S, x) /\ x.event.type = "chat_created" /\ x.event.chat = c
                BY <2>2
            <4>2. \A y \in S : y.event.chat # c  BY <2>2 DEF Fits
            <4> HIDE DEF e
            <4> QED  BY <4>1, <4>2, SaysCreated
        <3>2. Replay(st, {}) = st  BY ReplayIs, JournalPart
        <3>3. st.queue[c] = <<>> /\ m.queue[c] = <<>>  BY <2>2 DEF Fits
        <3> QED  BY <2>1, <3>1, <3>2, <3>3
    <2>3. CASE Alive(m, c) /\ ~(e.type = "chat_created" /\ e.chat = c)
        <3>1. QueueLines(R, c) = QueueLines(S, c)
            <4>1. CASE e.chat # c
                <5>1. Adds(R, S, x) /\ x.event.chat # c  BY <4>1
                <5> QED  BY <5>1, SaysElsewhere
            <4>2. CASE e.chat = c
                <5>1. /\ Adds(R, S, x) /\ x.event.chat = c /\ x.event.type # "chat_created"
                      /\ x.event.type \notin QueueTypes
                    BY <1>3, <2>3, <4>2
                <5> QED  BY <5>1, SaysMore
            <4> QED  BY <4>1, <4>2
        <3> QED  BY <2>1, <2>3, <3>1 DEF QueueAgrees
    <2> QED  BY <2>1, <2>2, <2>3
<1> QED  BY <1>2, <1>3

\* What an event makes of a chat's session, if it leaves the chat alive.
LEMMA ApplyAliveTurns ==
    ASSUME NEW m \in States, NEW e \in Events, NEW c \in Chats, Alive(ApplyEvent(m, e), c),
           e.type = "chat_draft_discarded" => Known(m, e.chat) /\ m.chats[e.chat].draft
    PROVE  LET u == ApplyEvent(m, e)
           IN  IF e.type = "chat_created" /\ e.chat = c
               THEN u.chats[c].token = NoValue /\ u.chats[c].finished = FALSE
               ELSE /\ Alive(m, c)
                    /\ e.type = "session_token_set" /\ e.chat = c => u.chats[c].token = e.value
                    /\ ~(e.type = "session_token_set" /\ e.chat = c)
                       => u.chats[c].token = m.chats[c].token
                    /\ u.chats[c].finished
                       <=> (e.type = "turn_finished" /\ e.chat = c) \/ m.chats[c].finished
<1> DEFINE u == ApplyEvent(m, e)
<1>0. u = ApplyEvent(m, e)  OBVIOUS
<1> SUFFICES IF e.type = "chat_created" /\ e.chat = c
             THEN u.chats[c].token = NoValue /\ u.chats[c].finished = FALSE
             ELSE /\ Alive(m, c)
                  /\ e.type = "session_token_set" /\ e.chat = c => u.chats[c].token = e.value
                  /\ ~(e.type = "session_token_set" /\ e.chat = c)
                     => u.chats[c].token = m.chats[c].token
                  /\ u.chats[c].finished
                     <=> (e.type = "turn_finished" /\ e.chat = c) \/ m.chats[c].finished
    OBVIOUS
<1>1. CASE e.chat # c
    <2>1. u.chats[c] = m.chats[c] /\ (Alive(u, c) <=> Alive(m, c))  BY <1>1, ApplyOthers
    <2> QED  BY <1>1, <2>1
<1>2. CASE e.chat = c /\ e.type = "chat_created"
    <2>1. u.chats[c] = NewChat(e.value)  BY <1>2, ApplyHere DEF ProjectTypes
    <2>2. e.value \in BOOLEAN  BY <1>2, EventKinds
    <2>3. NewChat(e.value).token = NoValue /\ NewChat(e.value).finished = FALSE
        BY <2>2, NewChatIs
    <2> QED  BY <1>2, <2>1, <2>3
<1>3. CASE e.chat = c /\ e.type # "chat_created"
    <2>1. e.type \notin ProjectTypes /\ Alive(m, c) /\ e.type # "chat_deleted"
        BY <1>3, ApplyAlive
    <2>2. Known(m, c) /\ ~m.chats[c].deleted  BY <2>1 DEF Alive
    <2>3. e.type # "chat_draft_discarded"
        <3>1. SUFFICES ASSUME e.type = "chat_draft_discarded" PROVE FALSE  OBVIOUS
        <3>2. u.chats[c] = NoValue  BY <1>3, <3>1, ApplyDiscarded
        <3> QED  BY <3>2 DEF Alive, Known
    <2>4. CASE e.type \in QueueTypes
        <3>1. u.chats[c] = m.chats[c]  BY <1>3, <2>1, <2>4, ApplyHere
        <3>2. e.type # "session_token_set" /\ e.type # "turn_finished"
            BY <2>4 DEF QueueTypes
        <3> QED  BY <1>3, <2>1, <3>1, <3>2
    <2>5. CASE e.type = "chat_promoted"
        <3>1. /\ u.chats[c].token = m.chats[c].token
              /\ u.chats[c].finished = m.chats[c].finished
            BY <1>3, <2>2, <2>5, ApplyPromoted
        <3> QED  BY <1>3, <2>1, <2>5, <3>1
    <2>6. CASE e.type \in {"chat_read_state_set", "turn_finished", "session_token_set"}
        <3>1. /\ u.chats[c].token =
                    IF e.type = "session_token_set" THEN e.value ELSE m.chats[c].token
              /\ u.chats[c].finished <=> e.type = "turn_finished" \/ m.chats[c].finished
            BY <1>3, <2>2, <2>6, ApplyRecord
        <3> QED  BY <1>3, <2>1, <3>1
    <2>7. \/ e.type \in QueueTypes \/ e.type = "chat_promoted"
          \/ e.type \in {"chat_read_state_set", "turn_finished", "session_token_set"}
        <3>1. e.type \in ChatTypes \cup QueueTypes  BY <1>3, <2>1, EventSplit
        <3> QED  BY <2>1, <2>3, <3>1 DEF ChatTypes, PlainTypes
    <2> HIDE DEF u
    <2> QED  BY <2>4, <2>5, <2>6, <2>7
<1> QED  BY <1>1, <1>2, <1>3

\* A chat's tokens and outcomes, with one line more.
LEMMA TurnLines ==
    ASSUME NEW S, NEW R, NEW x, NEW c, Adds(R, S, x)
    PROVE  /\ ~(x.event.type = "session_token_set" /\ x.event.chat = c)
              => Line(R, "session_token_set", c) = Line(S, "session_token_set", c)
           /\ x.event.type = "session_token_set" /\ x.event.chat = c
              => Line(R, "session_token_set", c) = Line(S, "session_token_set", c) \cup {x}
           /\ Has(R, "session_token_set", c)
              <=> Has(S, "session_token_set", c)
                  \/ (x.event.type = "session_token_set" /\ x.event.chat = c)
           /\ Has(R, "turn_finished", c)
              <=> Has(S, "turn_finished", c)
                  \/ (x.event.type = "turn_finished" /\ x.event.chat = c)
           /\ Has(R, "chat_created", c)
              <=> Has(S, "chat_created", c)
                  \/ (x.event.type = "chat_created" /\ x.event.chat = c)
BY LineGrows, HasGrows

\* The newest token is the last of its chat.
LEMMA TokenLatest ==
    ASSUME NEW S, NEW R, NEW x, NEW c, Adds(R, S, x), Journal(R),
           x.event.type = "session_token_set", x.event.chat = c,
           \A y \in Line(S, "session_token_set", c) : Before(y, x)
    PROVE  Latest(Line(R, "session_token_set", c)) = x
<1> DEFINE T == Line(R, "session_token_set", c)
<1>1. T = Line(S, "session_token_set", c) \cup {x}  BY TurnLines
<1>2. T \in SUBSET R  BY DEF Line
<1>3. Journal(T)  BY <1>2, JournalPart
<1>4. x \in T /\ \A y \in T \ {x} : Before(y, x)  BY <1>1
<1> HIDE DEF T
<1>5. Latest(T) = x  BY <1>3, <1>4, LatestIsThis
<1> QED  BY <1>5 DEF T

\* New turn lines come after a chat's older ones.
TurnsInOrder(S, x, c) ==
    x.event.type = "session_token_set" => \A y \in Line(S, "session_token_set", c) : Before(y, x)

\* So do a session and a last outcome.
LEMMA TurnsGrow ==
    ASSUME NEW m \in States, NEW st \in States, NEW S, NEW R, NEW x, Adds(R, S, x),
           Journal(R), x.event \in Events, Fits(m, S, st, x.event),
           NEW c \in Chats, TurnsAgree(m, S, st, c), TurnsInOrder(S, x, c)
    PROVE  TurnsAgree(ApplyEvent(m, x.event), R, st, c)
<1> DEFINE e == x.event
           u == ApplyEvent(m, e)
<1> SUFFICES ASSUME Alive(u, c)
             PROVE  /\ u.chats[c].token = TokenOf(st, R, c)
                    /\ u.chats[c].finished <=> FinishedOf(st, R, c)
    BY DEF TurnsAgree
<1>1. e.type = "chat_draft_discarded" => Known(m, e.chat) /\ m.chats[e.chat].draft
    BY DEF Fits
<1>2. IF e.type = "chat_created" /\ e.chat = c
      THEN u.chats[c].token = NoValue /\ u.chats[c].finished = FALSE
      ELSE /\ Alive(m, c)
           /\ e.type = "session_token_set" /\ e.chat = c => u.chats[c].token = e.value
           /\ ~(e.type = "session_token_set" /\ e.chat = c)
              => u.chats[c].token = m.chats[c].token
           /\ u.chats[c].finished
              <=> (e.type = "turn_finished" /\ e.chat = c) \/ m.chats[c].finished
    BY <1>1, ApplyAliveTurns
<1> HIDE DEF u
<1>3. CASE e.type = "chat_created" /\ e.chat = c
    <2>1. /\ Has(R, "chat_created", c) /\ ~Has(R, "session_token_set", c)
          /\ ~Has(R, "turn_finished", c)
        <3>1. Adds(R, S, x) /\ x.event.type = "chat_created" /\ x.event.chat = c
            BY <1>3
        <3>2. \A y \in S : y.event.chat # c  BY <1>3 DEF Fits
        <3> HIDE DEF e
        <3> QED  BY <3>1, <3>2, SaysCreated
    <2> QED  BY <1>2, <1>3, <2>1 DEF TokenOf, FinishedOf
<1>4. CASE ~(e.type = "chat_created" /\ e.chat = c)
    <2>1. /\ m.chats[c].token = TokenOf(st, S, c)
          /\ m.chats[c].finished <=> FinishedOf(st, S, c)
        BY <1>2, <1>4 DEF TurnsAgree
    <2>2. /\ Has(R, "session_token_set", c)
             <=> Has(S, "session_token_set", c)
                 \/ (e.type = "session_token_set" /\ e.chat = c)
          /\ Has(R, "turn_finished", c)
             <=> Has(S, "turn_finished", c) \/ (e.type = "turn_finished" /\ e.chat = c)
          /\ Has(R, "chat_created", c) <=> Has(S, "chat_created", c)
        BY <1>4, TurnLines
    <2>3. u.chats[c].finished <=> FinishedOf(st, R, c)
        BY <1>2, <1>4, <2>1, <2>2 DEF FinishedOf
    <2>4. CASE e.type = "session_token_set" /\ e.chat = c
        <3>1. Latest(Line(R, "session_token_set", c)) = x
            BY <2>4, TokenLatest DEF TurnsInOrder
        <3>2. TokenOf(st, R, c) = e.value  BY <2>2, <2>4, <3>1 DEF TokenOf
        <3> QED  BY <1>2, <1>4, <2>3, <2>4, <3>2
    <2>5. CASE ~(e.type = "session_token_set" /\ e.chat = c)
        <3>1. Line(R, "session_token_set", c) = Line(S, "session_token_set", c)
            BY <2>5, TurnLines
        <3>2. TokenOf(st, R, c) = TokenOf(st, S, c)  BY <2>2, <2>5, <3>1 DEF TokenOf
        <3> QED  BY <1>2, <1>4, <2>1, <2>3, <2>5, <3>2
    <2> QED  BY <2>4, <2>5
<1> QED  BY <1>3, <1>4

\* What the turn lines say of a chat stays so, and when the new line was lost too.
LEMMA TurnsSettledGrow ==
    ASSUME NEW m \in States, NEW S, NEW R, NEW x, Adds(R, S, x),
           Journal(R), x.event \in Events, NEW st, Fits(m, S, st, x.event),
           NEW c \in Chats, TurnsSettled(m, S, c), TurnsInOrder(S, x, c)
    PROVE  /\ TurnsSettled(ApplyEvent(m, x.event), R, c)
           /\ x.event.type \notin {"turn_finished", "session_token_set"}
              => TurnsSettled(ApplyEvent(m, x.event), S, c)
<1> DEFINE e == x.event
           u == ApplyEvent(m, e)
           Ok(T) == /\ Has(T, "session_token_set", c)
                       => u.chats[c].token = Latest(Line(T, "session_token_set", c)).event.value
                    /\ Has(T, "turn_finished", c) => u.chats[c].finished
<1> SUFFICES ASSUME Alive(u, c)
             PROVE  /\ Ok(R)
                    /\ e.type \notin {"turn_finished", "session_token_set"} => Ok(S)
    BY DEF TurnsSettled
<1>1. e.type = "chat_draft_discarded" => Known(m, e.chat) /\ m.chats[e.chat].draft
    BY DEF Fits
<1>2. IF e.type = "chat_created" /\ e.chat = c
      THEN u.chats[c].token = NoValue /\ u.chats[c].finished = FALSE
      ELSE /\ Alive(m, c)
           /\ e.type = "session_token_set" /\ e.chat = c => u.chats[c].token = e.value
           /\ ~(e.type = "session_token_set" /\ e.chat = c)
              => u.chats[c].token = m.chats[c].token
           /\ u.chats[c].finished
              <=> (e.type = "turn_finished" /\ e.chat = c) \/ m.chats[c].finished
    BY <1>1, ApplyAliveTurns
<1> HIDE DEF u
<1>3. CASE e.type = "chat_created" /\ e.chat = c
    <2>1. /\ ~Has(R, "session_token_set", c) /\ ~Has(R, "turn_finished", c)
          /\ ~Has(S, "session_token_set", c) /\ ~Has(S, "turn_finished", c)
        <3>1. Adds(R, S, x) /\ x.event.type = "chat_created" /\ x.event.chat = c
            BY <1>3
        <3>2. \A y \in S : y.event.chat # c  BY <1>3 DEF Fits
        <3> HIDE DEF e
        <3> QED  BY <3>1, <3>2, SaysCreated
    <2> QED  BY <2>1
<1>4. CASE ~(e.type = "chat_created" /\ e.chat = c)
    <2>1. /\ Has(S, "session_token_set", c)
             => m.chats[c].token = Latest(Line(S, "session_token_set", c)).event.value
          /\ Has(S, "turn_finished", c) => m.chats[c].finished
        BY <1>2, <1>4 DEF TurnsSettled
    <2>2. /\ Has(R, "session_token_set", c)
             <=> Has(S, "session_token_set", c)
                 \/ (e.type = "session_token_set" /\ e.chat = c)
          /\ Has(R, "turn_finished", c)
             <=> Has(S, "turn_finished", c) \/ (e.type = "turn_finished" /\ e.chat = c)
        BY TurnLines
    <2>3. CASE e.type = "session_token_set" /\ e.chat = c
        <3>1. Latest(Line(R, "session_token_set", c)) = x
            BY <2>3, TokenLatest DEF TurnsInOrder
        <3> QED  BY <1>2, <1>4, <2>1, <2>2, <2>3, <3>1
    <2>4. CASE ~(e.type = "session_token_set" /\ e.chat = c)
        <3>1. Line(R, "session_token_set", c) = Line(S, "session_token_set", c)
            BY <2>4, TurnLines
        <3> QED  BY <1>2, <1>4, <2>1, <2>2, <2>4, <3>1
    <2> QED  BY <2>3, <2>4
<1> QED  BY <1>3, <1>4

\* A message is sent once.
Fresh(S, e) ==
    e.type = "queued_message_enqueued" =>
        \A y \in S : y.event.type \in QueueTypes => y.event.value # e.value

LEMMA SettledAtOnce ==
    ASSUME NEW q
    PROVE  Settled(q, {})
BY DEF Settled, Sent, Removed

\* What the queue's lines say of a queue stays so.
LEMMA QueueSettledGrow ==
    ASSUME NEW m \in States, NEW S, NEW R, NEW x, Adds(R, S, x), x.event \in Events,
           NEW st, Fits(m, S, st, x.event), Fresh(S, x.event),
           NEW c \in Chats, QueueSettled(m, S, c), Distinct(m.queue[c])
    PROVE  /\ QueueSettled(ApplyEvent(m, x.event), R, c)
           /\ x.event.type \notin QueueTypes => QueueSettled(ApplyEvent(m, x.event), S, c)
<1> DEFINE e == x.event
           u == ApplyEvent(m, e)
<1> SUFFICES ASSUME Alive(u, c)
             PROVE  /\ Settled(u.queue[c], QueueLines(R, c))
                    /\ e.type \notin QueueTypes => Settled(u.queue[c], QueueLines(S, c))
    BY DEF QueueSettled
<1>1. e.type = "chat_draft_discarded" => Known(m, e.chat) /\ m.chats[e.chat].draft
    BY DEF Fits
<1>2. CASE e.type \in QueueTypes /\ e.chat = c
    <2> DEFINE Q == QueueLines(S, c)
               T == QueueLines(R, c)
               q == m.queue[c]
               r == u.queue[c]
    <2>1. Adds(T, Q, x)
        <3>1. T = Q \cup {x}  BY <1>2, SaysMore DEF QueueTypes
        <3> HIDE DEF T, Q
        <3> QED  BY <3>1 DEF Adds
    <2>2. Alive(m, c)  BY <1>2, ApplyKeeps DEF QueueTypes
    <2>3. Settled(q, Q)  BY <2>2 DEF QueueSettled
    <2>4. q \in Seq(Msgs) /\ Distinct(q) /\ e.value \in Msgs  BY <1>2, StateKinds, EventKinds
    <2>5. /\ e.type = "queued_message_enqueued" =>
                r = IF Contains(q, e.value) THEN q ELSE Append(q, e.value)
          /\ e.type = "queued_message_removed" => r = RemoveFirst(q, e.value)
        BY <1>2, ApplyQueue
    <2>6. \A y \in Q : y \in S /\ y.event.type \in QueueTypes  BY DEF QueueLines
    <2> HIDE DEF q, r, Q, T
    <2>7. /\ \A n : Sent(T, n) <=> \/ Sent(Q, n)
                                   \/ e.type = "queued_message_enqueued" /\ e.value = n
          /\ \A n : Removed(T, n) <=> \/ Removed(Q, n)
                                      \/ e.type = "queued_message_removed" /\ e.value = n
        BY <2>1, SentGrows
    <2>8. Settled(r, T)
        <3>1. CASE e.type = "queued_message_enqueued"
            <4>1. ~Removed(Q, e.value)
                BY <2>6, <3>1 DEF Fresh, Removed, QueueTypes
            <4>2. \A n : Contains(r, n) <=> Contains(q, n) \/ n = e.value
                <5>1. CASE Contains(q, e.value)  BY <2>5, <3>1, <5>1
                <5>2. CASE ~Contains(q, e.value)
                    <6>1. r = Append(q, e.value)  BY <2>5, <3>1, <5>2
                    <6> QED  BY <2>4, <6>1, AppendDistinct
                <5> QED  BY <5>1, <5>2
            <4> QED  BY <2>3, <2>7, <3>1, <4>1, <4>2 DEF Settled
        <3>2. CASE e.type = "queued_message_removed"
            <4>1. \A n : Contains(r, n) <=> Contains(q, n) /\ n # e.value
                BY <2>4, <2>5, <3>2, RemoveDistinct
            <4> QED  BY <2>3, <2>7, <3>2, <4>1 DEF Settled
        <3> QED  BY <1>2, <3>1, <3>2 DEF QueueTypes
    <2> QED  BY <1>2, <2>8 DEF r, T
<1>3. CASE e.type \notin QueueTypes \/ e.chat # c
    <2>1. /\ u.queue[c] = m.queue[c]
          /\ Alive(m, c) \/ (e.type = "chat_created" /\ e.chat = c)
        BY <1>1, <1>3, ApplyAliveQueue
    <2>2. CASE e.type = "chat_created" /\ e.chat = c
        <3>1. QueueLines(R, c) = {} /\ QueueLines(S, c) = {}
            <4>1. Adds(R, S, x) /\ x.event.type = "chat_created" /\ x.event.chat = c
                BY <2>2
            <4>2. \A y \in S : y.event.chat # c  BY <2>2 DEF Fits
            <4> HIDE DEF e
            <4> QED  BY <4>1, <4>2, SaysCreated
        <3> QED  BY <3>1, SettledAtOnce
    <2>3. CASE Alive(m, c) /\ ~(e.type = "chat_created" /\ e.chat = c)
        <3>1. QueueLines(R, c) = QueueLines(S, c)
            <4>1. CASE e.chat # c
                <5>1. Adds(R, S, x) /\ x.event.chat # c  BY <4>1
                <5> QED  BY <5>1, SaysElsewhere
            <4>2. CASE e.chat = c
                <5>1. /\ Adds(R, S, x) /\ x.event.chat = c /\ x.event.type # "chat_created"
                      /\ x.event.type \notin QueueTypes
                    BY <1>3, <2>3, <4>2
                <5> QED  BY <5>1, SaysMore
            <4> QED  BY <4>1, <4>2
        <3> QED  BY <2>1, <2>3, <3>1 DEF QueueSettled
    <2> QED  BY <2>1, <2>2, <2>3
<1> QED  BY <1>2, <1>3

\* The project, with one line more.
LEMMA ProjectGrows ==
    ASSUME NEW m \in States, NEW st \in States, NEW S, NEW R, NEW x, Adds(R, S, x),
           x.event \in Events, Fits(m, S, st, x.event),
           x.event.type # "project_draft_discarded",
           \A c \in Chats : ChatAgrees(m, S, st, c), ProjectAgrees(m, S, st)
    PROVE  ProjectAgrees(ApplyEvent(m, x.event), R, st)
<1> DEFINE e == x.event
           u == ApplyEvent(m, e)
<1>1. /\ m.project = "open" <=> Opens(st, S)
      /\ m.project = "none" <=> Hidden(st, S)
    BY DEF ProjectAgrees
<1>2. /\ HasType(R, "project_opened") <=> HasType(S, "project_opened") \/ e.type = "project_opened"
      /\ HasType(R, "project_draft_opened")
         <=> HasType(S, "project_draft_opened") \/ e.type = "project_draft_opened"
    BY HasTypeGrows
<1>3. m.project \in {"none", "draft", "open"}  BY StateKinds
<1>9. st.project \in {"none", "draft", "open"}  BY StateKinds
<1>4. u = ApplyEvent(m, e)  OBVIOUS
<1> SUFFICES /\ u.project = "open" <=> Opens(st, R)
             /\ u.project = "none" <=> Hidden(st, R)
    BY DEF ProjectAgrees
<1> HIDE DEF u
<1>5. CASE e.type \notin ProjectTypes \cup {"chat_created", "chat_promoted"}
    <2>1. u.project = m.project  BY <1>4, <1>5, ApplyToProject
    <2>2. Promotes(st, R) <=> Promotes(st, S)  BY <1>5, PromotesGrows
    <2>3. e.type # "project_opened" /\ e.type # "project_draft_opened"
        BY <1>5 DEF ProjectTypes
    <2> QED  BY <1>1, <1>2, <2>1, <2>2, <2>3 DEF Opens, Hidden
<1>6. CASE e.type = "project_opened"
    <2>1. u.project = "open"  BY <1>4, <1>6, ApplyToProject
    <2> QED  BY <1>2, <1>6, <2>1 DEF Opens, Hidden
<1>7. CASE e.type = "project_draft_opened"
    <2>1. u.project = "draft"  BY <1>4, <1>7, ApplyToProject
    <2>2. S = {}  BY <1>7 DEF Fits
    <2>3. Promotes(st, R) <=> Promotes(st, S)  BY <1>7, PromotesGrows
    <2>4. ~Promotes(st, S) /\ ~HasType(S, "project_opened")
        BY <2>2 DEF Promotes, Shows, CreatedOpen, Has, Line, HasType
    <2> QED  BY <1>2, <1>7, <2>1, <2>3, <2>4 DEF Opens, Hidden
<1>8. CASE e.type = "chat_created"
    <2>1. u.project = IF ~e.value /\ m.project = "draft" THEN "open" ELSE m.project
        BY <1>4, <1>8, ApplyToProject
    <2>2. Promotes(st, R) <=> Promotes(st, S) \/ ~e.value
        <3>1. \A y \in S : y.event.chat # e.chat  BY <1>8 DEF Fits
        <3> QED  BY <1>8, <3>1, PromotesGrows
    <2>3. /\ HasType(R, "project_opened") <=> HasType(S, "project_opened")
          /\ HasType(R, "project_draft_opened") <=> HasType(S, "project_draft_opened")
        BY <1>2, <1>8
    <2>4. Hidden(st, R) <=> Hidden(st, S)  BY <2>3 DEF Hidden
    <2>5. CASE e.value
        <3>1. Opens(st, R) <=> Opens(st, S)  BY <2>2, <2>3, <2>5 DEF Opens
        <3> QED  BY <1>1, <2>1, <2>4, <2>5, <3>1
    <2>6. CASE ~e.value /\ m.project = "none"
        <3>1. ~Opens(st, R)  BY <1>1, <2>3, <2>4, <2>6 DEF Hidden, Opens
        <3> QED  BY <1>1, <2>1, <2>4, <2>6, <3>1
    <2>7. CASE ~e.value /\ m.project # "none"
        <3>1. u.project = "open"  BY <1>3, <2>1, <2>7
        <3>2. CASE m.project = "open"
            <4>1. Opens(st, S)  BY <1>1, <3>2
            <4>2. Opens(st, R)  BY <2>2, <2>3, <4>1 DEF Opens
            <4> QED  BY <1>1, <2>4, <2>7, <3>1, <4>2
        <3>3. CASE m.project = "draft"
            <4>1. ~Hidden(st, S) /\ ~Opens(st, S)  BY <1>1, <3>3
            <4>2. CASE HasType(S, "project_draft_opened")
                <5>1. Opens(st, R)  BY <2>2, <2>3, <2>7, <4>2 DEF Opens
                <5> QED  BY <2>4, <3>1, <4>1, <5>1
            <4>3. CASE ~HasType(S, "project_draft_opened")
                <5>1. ~HasType(S, "project_opened") /\ st.project # "none"
                    BY <4>1, <4>3 DEF Hidden, Opens
                <5> QED  BY <2>2, <2>3, <2>4, <2>7, <3>1, <4>1, <4>3, <5>1, <1>9 DEF Opens
            <4> QED  BY <4>2, <4>3
        <3> QED  BY <1>3, <2>7, <3>2, <3>3
    <2> QED  BY <2>5, <2>6, <2>7
<1>10. CASE e.type = "chat_promoted"
    <2>1. Alive(m, e.chat) /\ m.chats[e.chat].draft /\ m.project # "none"
        BY <1>10 DEF Fits
    <2>2. u.project = IF m.project = "draft" THEN "open" ELSE m.project
        BY <1>4, <1>10, <2>1, ApplyToProject
    <2>3. u.project = "open"  BY <1>3, <2>1, <2>2
    <2>4. e.chat \in Chats  BY <1>10, EventKinds DEF ProjectTypes
    <2>5. Begins(st, S, e.chat) /\ BeginsDraft(st, S, e.chat)
        BY <2>1, <2>4 DEF ChatAgrees, Lives, StaysDraft
    <2>6. Promotes(st, R)  BY <1>10, <2>5, PromotesGrows
    <2>7. /\ HasType(R, "project_opened") <=> HasType(S, "project_opened")
          /\ HasType(R, "project_draft_opened") <=> HasType(S, "project_draft_opened")
        BY <1>2, <1>10
    <2>8. ~Hidden(st, S)  BY <1>1, <2>1
    <2>9. ~Hidden(st, R)  BY <2>7, <2>8 DEF Hidden
    <2>10. Opens(st, R)
        <3>1. CASE HasType(R, "project_draft_opened")  BY <2>6, <3>1 DEF Opens
        <3>2. CASE ~HasType(R, "project_draft_opened")
            <4>1. HasType(R, "project_opened") \/ st.project # "none"
                BY <2>9, <3>2 DEF Hidden
            <4> QED  BY <1>9, <2>6, <3>2, <4>1 DEF Opens
        <3> QED  BY <3>1, <3>2
    <2> QED  BY <2>3, <2>9, <2>10
<1> QED
    <2>1. e.type \in ProjectTypes => e.type \in {"project_opened", "project_draft_opened"}
        BY DEF ProjectTypes
    <2> QED  BY <1>5, <1>6, <1>7, <1>8, <1>10, <2>1

\* What leaves a project a draft.
LEMMA StillDraft ==
    ASSUME NEW m \in States, NEW S, NEW st, NEW e \in Events, Fits(m, S, st, e),
           ApplyEvent(m, e).project = "draft"
    PROVE  \/ e.type = "project_draft_opened"
           \/ /\ m.project = "draft" /\ e.type # "chat_promoted"
              /\ e.type = "chat_created" => e.value = TRUE
<1> DEFINE u == ApplyEvent(m, e)
<1>1. u = ApplyEvent(m, e) /\ u.project = "draft"  OBVIOUS
<1> HIDE DEF u
<1>2. CASE e.type \notin ProjectTypes \cup {"chat_created", "chat_promoted"}
    <2>1. u.project = m.project  BY <1>1, <1>2, ApplyToProject
    <2> QED  BY <1>1, <1>2, <2>1
<1>3. CASE e.type \in {"project_opened", "project_draft_discarded"}
    <2>1. u.project \in {"open", "none", m.project}  BY <1>1, <1>3, ApplyToProject
    <2> QED  BY <1>1, <1>3, <2>1
<1>4. CASE e.type = "chat_created"
    <2>1. u.project = IF ~e.value /\ m.project = "draft" THEN "open" ELSE m.project
        BY <1>1, <1>4, ApplyToProject
    <2>2. e.value \in BOOLEAN  BY <1>4, EventKinds
    <2> QED  BY <1>1, <1>4, <2>1, <2>2
<1>5. CASE e.type = "chat_promoted"
    <2>1. Alive(m, e.chat) /\ m.chats[e.chat].draft  BY <1>5 DEF Fits
    <2>2. u.project = IF m.project = "draft" THEN "open" ELSE m.project
        BY <1>1, <1>5, <2>1, ApplyToProject
    <2> QED  BY <1>1, <2>2
<1> QED
    <2>1. e.type \in ProjectTypes
          => e.type \in {"project_opened", "project_draft_opened", "project_draft_discarded"}
        BY DEF ProjectTypes
    <2> QED  BY <1>2, <1>3, <1>4, <1>5, <2>1

\* A project that its chats opened is no draft, with one line more or that line lost.
LEMMA OverGrows ==
    ASSUME NEW m \in States, NEW S, NEW R, NEW x, Adds(R, S, x),
           x.event \in Events, NEW st, Fits(m, S, st, x.event)
    PROVE  /\ OverByCreation(m, S) => /\ OverByCreation(ApplyEvent(m, x.event), S)
                                      /\ OverByCreation(ApplyEvent(m, x.event), R)
           /\ OverByPromotion(m, S) => /\ OverByPromotion(ApplyEvent(m, x.event), S)
                                       /\ OverByPromotion(ApplyEvent(m, x.event), R)
<1> DEFINE e == x.event
           u == ApplyEvent(m, e)
<1> SUFFICES ASSUME u.project = "draft"
             PROVE  /\ OverByCreation(m, S) => /\ ~\E c \in Chats : CreatedOpen(S, c)
                                               /\ ~\E c \in Chats : CreatedOpen(R, c)
                    /\ OverByPromotion(m, S) =>
                          \A c \in Chats :
                              /\ ~(Has(S, "chat_promoted", c) /\ Has(S, "chat_created", c))
                              /\ ~(Has(R, "chat_promoted", c) /\ Has(R, "chat_created", c))
    BY DEF OverByCreation, OverByPromotion
<1>1. \/ e.type = "project_draft_opened"
      \/ /\ m.project = "draft" /\ e.type # "chat_promoted"
         /\ e.type = "chat_created" => e.value = TRUE
    BY StillDraft
<1> HIDE DEF u
<1>2. ASSUME NEW c \in Chats
      PROVE  /\ OverByCreation(m, S) => ~CreatedOpen(S, c)
             /\ OverByPromotion(m, S) =>
                    ~(Has(S, "chat_promoted", c) /\ Has(S, "chat_created", c))
    <2>1. CASE e.type = "project_draft_opened"
        <3>1. S = {}  BY <2>1 DEF Fits
        <3> QED  BY <3>1 DEF CreatedOpen, Has, Line
    <2>2. CASE m.project = "draft"  BY <2>2 DEF OverByCreation, OverByPromotion
    <2> QED  BY <1>1, <2>1, <2>2
<1>3. ASSUME NEW c \in Chats PROVE CreatedOpen(R, c) => CreatedOpen(S, c)
    <2>1. CASE e.type = "chat_created" /\ e.chat = c
        <3>1. Line(R, "chat_created", c) = Line(S, "chat_created", c) \cup {x}
            BY <2>1, LineGrows
        <3>2. e.value = TRUE  BY <1>1, <2>1
        <3> QED  BY <3>1, <3>2 DEF CreatedOpen
    <2>2. CASE ~(e.type = "chat_created" /\ e.chat = c)
        <3>1. Line(R, "chat_created", c) = Line(S, "chat_created", c)
            BY <2>2, LineGrows
        <3> QED  BY <3>1 DEF CreatedOpen
    <2> QED  BY <2>1, <2>2
<1>4. ASSUME NEW c \in Chats, Has(R, "chat_promoted", c), Has(R, "chat_created", c)
      PROVE  Has(S, "chat_promoted", c) /\ Has(S, "chat_created", c)
    <2>1. Has(S, "chat_promoted", c)  BY <1>1, <1>4, HasGrows
    <2>2. e.type = "chat_created" => e.chat # c
        BY <2>1 DEF Fits, Has, Line
    <2> QED  BY <1>4, <2>1, <2>2, HasGrows
<1> QED  BY <1>2, <1>3, <1>4

---------------------------------------------------------------------------
(* The order of the lines, with one more *)

\* A line of a stamp no later, and of a lower priority or place, comes before.
LEMMA BeforeNewer ==
    ASSUME NEW x \in LineSet, NEW y \in LineSet, y.event.at <= x.event.at,
           \/ Priority(y.event) < Priority(x.event)
           \/ /\ Priority(y.event) = Priority(x.event)
              /\ y.source = x.source /\ y.line < x.line
    PROVE  Before(y, x)
<1>1. y.event.at \in Nat /\ x.event.at \in Nat  BY LineKinds
<1>2. y.event.at < x.event.at \/ y.event.at = x.event.at  BY <1>1
<1> QED  BY <1>2, BeforeMeans

\* The last line of its log.
Newest(S, x) == \A y \in S : y.source = x.source => y.line < x.line

\* Lines of one log and of one rank come in the order of the log, unless the stamps differ.
LEMMA QueueInOrder ==
    ASSUME NEW S \in SUBSET LineSet, NEW x \in LineSet, Newest(S, x), x.event.type \in QueueTypes,
           NEW c, \A y \in QueueLines(S, c) : y.event.at <= x.event.at
    PROVE  \A y \in QueueLines(S, c) : Before(y, x)
<1> SUFFICES ASSUME NEW y \in QueueLines(S, c) PROVE Before(y, x)  OBVIOUS
<1>1. y \in S /\ y \in LineSet /\ y.event.type \in QueueTypes  BY DEF QueueLines
<1>2. Priority(y.event) = Priority(x.event)  BY <1>1, LineKinds, PriorityKinds
<1>3. y.source = 3 /\ x.source = 3  BY <1>1, ChatLineKinds
<1>4. y.line < x.line  BY <1>1, <1>3 DEF Newest
<1> QED  BY <1>1, <1>2, <1>3, <1>4, BeforeNewer

LEMMA TokensInOrder ==
    ASSUME NEW S \in SUBSET LineSet, NEW x \in LineSet, Newest(S, x), NEW c,
           x.event.type = "session_token_set"
           => \A y \in Line(S, "session_token_set", c) : y.event.at <= x.event.at
    PROVE  TurnsInOrder(S, x, c)
<1> SUFFICES ASSUME x.event.type = "session_token_set", NEW y \in Line(S, "session_token_set", c)
             PROVE  Before(y, x)
    BY DEF TurnsInOrder
<1>1. y \in S /\ y \in LineSet /\ y.event.type = "session_token_set"  BY DEF Line
<1>2. Priority(y.event) = Priority(x.event)  BY <1>1, LineKinds, PriorityKinds
<1>3. y.source = 4 /\ x.source = 4  BY <1>1, ChatLineKinds
<1>4. y.line < x.line  BY <1>1, <1>3 DEF Newest
<1> QED  BY <1>1, <1>2, <1>3, <1>4, BeforeNewer

\* A creation stays first of what is said of its chat.
LEMMA CreatedFirstGrows ==
    ASSUME NEW S \in SUBSET LineSet, NEW R, NEW x \in LineSet, Adds(R, S, x),
           CreatedFirst(S),
           x.event.type = "chat_created" => \A y \in S : y.event.chat # x.event.chat,
           \A y \in S : y.event.type = "chat_created" /\ y.event.chat = x.event.chat
                        => y.event.at <= x.event.at
    PROVE  CreatedFirst(R)
<1> SUFFICES ASSUME NEW a \in R, NEW b \in R, a.event.type = "chat_created",
                    b.event.chat = a.event.chat, b # a
             PROVE  Before(a, b)
    BY DEF CreatedFirst
<1>1. (a \in S \/ a = x) /\ (b \in S \/ b = x)  BY DEF Adds
<1>2. CASE a \in S /\ b \in S  BY <1>2 DEF CreatedFirst
<1>3. CASE a = x /\ b \in S  BY <1>3
<1>4. CASE a \in S /\ b = x
    <2>1. a.event \in Events /\ x.event \in Events /\ a \in LineSet  BY <1>4, LineKinds
    <2>2. a.event.at <= x.event.at /\ x.event.type # "chat_created"  BY <1>4
    <2>3. a.event.chat \in Chats  BY <2>1, EventKinds DEF ProjectTypes
    <2>4. x.event.type \notin ProjectTypes
        BY <1>4, <2>1, <2>3, EventKinds, ValueAssumption
    <2>5. Priority(a.event) = 1  BY <2>1, PriorityKinds
    <2>6. Priority(x.event) > 1
        <3>1. x.event.type \in PlainTypes \cup QueueTypes
                               \cup {"chat_read_state_set", "session_token_set"}
            BY <2>1, <2>2, <2>4, EventKinds
        <3>2. CASE x.event.type \in QueueTypes  BY <2>1, <3>2, PriorityKinds
        <3>3. CASE x.event.type \notin QueueTypes
            BY <2>1, <3>1, <3>3, PriorityKinds DEF PlainTypes
        <3> QED  BY <3>2, <3>3
    <2>7. Priority(a.event) < Priority(x.event)  BY <2>5, <2>6
    <2> QED  BY <1>4, <2>1, <2>2, <2>7, BeforeNewer
<1> QED  BY <1>1, <1>2, <1>3, <1>4

\* An opening as a draft stays first of what is said of chats.
LEMMA OpenedFirstGrows ==
    ASSUME NEW S \in SUBSET LineSet, NEW R, NEW x \in LineSet, Adds(R, S, x), Newest(S, x),
           OpenedFirst(S), x.event.type = "project_draft_opened" => S = {},
           \A y \in S : y.event.type = "project_draft_opened" => y.event.at <= x.event.at
    PROVE  OpenedFirst(R)
<1> SUFFICES ASSUME NEW a \in R, NEW b \in R, a.event.type = "project_draft_opened", b # a,
                    \/ b.source = 1
                    \/ b.event.type \in {"project_opened", "project_draft_opened"}
             PROVE  Before(a, b)
    BY DEF OpenedFirst
<1>1. (a \in S \/ a = x) /\ (b \in S \/ b = x)  BY DEF Adds
<1>2. CASE a \in S /\ b \in S  BY <1>2 DEF OpenedFirst
<1>3. CASE a = x  BY <1>1, <1>3
<1>4. CASE a \in S /\ b = x
    <2>1. a.event \in Events /\ x.event \in Events /\ a \in LineSet  BY <1>4, LineKinds
    <2>2. a.event.at <= x.event.at  BY <1>4
    <2>3. Priority(a.event) = 0 /\ a.source = 0
        BY <2>1, PriorityKinds, ChatLineKinds DEF ProjectTypes
    <2>4. CASE x.event.type \in {"project_opened", "project_draft_opened"}
        <3>1. Priority(x.event) = 0 /\ x.source = 0
            BY <2>1, <2>4, PriorityKinds, ChatLineKinds DEF ProjectTypes
        <3>2. a.line < x.line  BY <1>4, <2>3, <3>1 DEF Newest
        <3> QED  BY <1>4, <2>1, <2>2, <2>3, <3>1, <3>2, BeforeNewer
    <2>5. CASE x.source = 1
        <3>1. x.event.type \notin ProjectTypes  BY <2>5, ChatLineKinds
        <3>2. x.event.type \in PlainTypes \cup QueueTypes
                               \cup {"chat_created", "chat_read_state_set", "session_token_set"}
            BY <2>1, <3>1, EventKinds
        <3>3. Priority(x.event) > 0
            <4>1. CASE x.event.type \in QueueTypes  BY <2>1, <4>1, PriorityKinds
            <4>2. CASE x.event.type \notin QueueTypes
                BY <2>1, <3>2, <4>2, PriorityKinds DEF PlainTypes
            <4> QED  BY <4>1, <4>2
        <3>4. Priority(a.event) < Priority(x.event)  BY <2>3, <3>3
        <3> QED  BY <1>4, <2>1, <2>2, <3>4, BeforeNewer
    <2> QED  BY <1>4, <2>4, <2>5
<1> QED  BY <1>1, <1>2, <1>3, <1>4

\* An enqueue stays before its removal.
LEMMA EnqueuedFirstGrows ==
    ASSUME NEW S \in SUBSET LineSet, NEW R, NEW x \in LineSet, Adds(R, S, x), Newest(S, x),
           EnqueuedFirst(S), Fresh(S, x.event),
           x.event.type \in QueueTypes => \A y \in S : y.source = 3 => y.event.at <= x.event.at
    PROVE  EnqueuedFirst(R)
<1> SUFFICES ASSUME NEW a \in R, NEW b \in R, a.event.type = "queued_message_enqueued",
                    b.event.type = "queued_message_removed", a.event.value = b.event.value
             PROVE  Before(a, b)
    BY DEF EnqueuedFirst
<1>1. (a \in S \/ a = x) /\ (b \in S \/ b = x)  BY DEF Adds
<1>2. a # b  OBVIOUS
<1>3. CASE a \in S /\ b \in S  BY <1>3 DEF EnqueuedFirst
<1>4. CASE a = x /\ b \in S
    BY <1>4 DEF Fresh, QueueTypes
<1>5. CASE a \in S /\ b = x
    <2>1. a.event \in Events /\ x.event \in Events /\ a \in LineSet  BY <1>5, LineKinds
    <2>2. a.event.type \in QueueTypes /\ x.event.type \in QueueTypes  BY <1>5 DEF QueueTypes
    <2>3. a.source = 3 /\ x.source = 3  BY <2>1, <2>2, ChatLineKinds
    <2>4. Priority(a.event) = Priority(x.event)  BY <2>1, <2>2, PriorityKinds
    <2>5. a.line < x.line  BY <1>5, <2>3 DEF Newest
    <2>6. a.event.at <= x.event.at  BY <1>5, <2>2, <2>3
    <2> QED  BY <1>5, <2>1, <2>3, <2>4, <2>5, <2>6, BeforeNewer
<1> QED  BY <1>1, <1>2, <1>3, <1>4, <1>5

\* A chat that is deleted or discarded is not promoted afterwards.
LEMMA PromotedInOrderGrows ==
    ASSUME NEW S \in SUBSET LineSet, NEW R, NEW x \in LineSet, Adds(R, S, x), Newest(S, x),
           PromotedInOrder(S), NEW m, NEW st, Fits(m, S, st, x.event),
           \A c \in Chats : ChatAgrees(m, S, st, c)
    PROVE  PromotedInOrder(R)
<1> SUFFICES ASSUME NEW a \in R, NEW b \in R, a.event.type = "chat_promoted",
                    b.event.chat = a.event.chat,
                    b.event.type \in {"chat_deleted", "chat_draft_discarded"}
             PROVE  a.line < b.line
    BY DEF PromotedInOrder
<1>1. (a \in S \/ a = x) /\ (b \in S \/ b = x) /\ a # b  BY DEF Adds
<1>2. CASE a \in S /\ b \in S  BY <1>2 DEF PromotedInOrder
<1>3. CASE a = x /\ b \in S
    <2>1. x.event.chat \in Chats  BY <1>3, LineKinds, EventKinds DEF ProjectTypes
    <2>2. Alive(m, x.event.chat)  BY <1>3 DEF Fits
    <2>3. Lives(st, S, x.event.chat)  BY <2>1, <2>2 DEF ChatAgrees
    <2> QED  BY <1>3, <2>3 DEF Lives, Has, Line
<1>4. CASE a \in S /\ b = x
    <2>1. a \in LineSet  BY <1>4
    <2>2. a.source = 1  BY <2>1, ChatLineKinds DEF ProjectTypes, QueueTypes
    <2>3. x.source = 1  BY <1>4, ChatLineKinds DEF ProjectTypes, QueueTypes
    <2> QED  BY <1>4, <2>2, <2>3 DEF Newest
<1> QED  BY <1>1, <1>2, <1>3, <1>4

\* Promotions come first in the replay too, unless the log's stamps are out of order.
LEMMA PromotedFirstIs ==
    ASSUME NEW S \in SUBSET LineSet, PromotedInOrder(S), ~Reordered(S)
    PROVE  PromotedFirst(S)
<1> SUFFICES ASSUME NEW a \in S, NEW b \in S, a.event.type = "chat_promoted",
                    b.event.chat = a.event.chat,
                    b.event.type \in {"chat_deleted", "chat_draft_discarded"}
             PROVE  Before(a, b)
    BY DEF PromotedFirst
<1>1. a.line < b.line  BY DEF PromotedInOrder
<1>2. a.source = 1 /\ b.source = 1  BY ChatLineKinds DEF ProjectTypes, QueueTypes
<1>3. ~(b.event.at < a.event.at)  BY <1>1, <1>2 DEF Reordered
<1>4. a.event.at \in Nat /\ b.event.at \in Nat /\ a.event \in Events /\ b.event \in Events
    BY LineKinds
<1>5. Priority(a.event) = 2 /\ Priority(b.event) = 10  BY <1>4, PriorityKinds
<1>6. a.event.at <= b.event.at /\ Priority(a.event) < Priority(b.event)
    BY <1>3, <1>4, <1>5
<1> QED  BY <1>6, BeforeNewer

---------------------------------------------------------------------------
(* The store's state as the image *)

\* A chat of the store's state agrees with its own lines, when it does over an image.
LEMMA SelfChat ==
    ASSUME NEW m, NEW S, NEW st, NEW c, ChatAgrees(m, S, st, c)
    PROVE  ChatAgrees(m, S, m, c)
<1>1. /\ Alive(m, c) <=> Lives(st, S, c)
      /\ Alive(m, c) => (m.chats[c].draft <=> StaysDraft(st, S, c))
      /\ Discards(st, S, c)
    BY DEF ChatAgrees
<1>2. CASE Has(S, "chat_created", c)
    <2>1. Begins(m, S, c) /\ Begins(st, S, c)  BY <1>2 DEF Begins
    <2>2. BeginsDraft(m, S, c) <=> BeginsDraft(st, S, c)  BY <1>2 DEF BeginsDraft
    <2> QED  BY <1>1, <2>1, <2>2 DEF Lives, StaysDraft, Discards, ChatAgrees
<1>3. CASE ~Has(S, "chat_created", c)
    <2>1. Begins(m, S, c) <=> Alive(m, c)  BY <1>3 DEF Begins
    <2>2. BeginsDraft(m, S, c) <=> m.chats[c].draft  BY <1>3 DEF BeginsDraft
    <2>3. Alive(m, c) <=> Lives(m, S, c)  BY <1>1, <2>1 DEF Lives
    <2>4. Discards(m, S, c)  BY <1>1, <2>1 DEF Discards, Lives
    <2>5. Alive(m, c) => (m.chats[c].draft <=> StaysDraft(m, S, c))
        BY <1>1, <2>2 DEF StaysDraft
    <2> QED  BY <2>3, <2>4, <2>5 DEF ChatAgrees
<1> QED  BY <1>2, <1>3

\* So do its session and outcome, by what its lines say of them.
LEMMA SelfTurns ==
    ASSUME NEW m \in States, NEW S, NEW st, NEW c \in Chats,
           TurnsSettled(m, S, c), Has(S, "chat_created", c) => TurnsAgree(m, S, st, c)
    PROVE  TurnsAgree(m, S, m, c)
<1> SUFFICES ASSUME Alive(m, c)
             PROVE  /\ m.chats[c].token = TokenOf(m, S, c)
                    /\ m.chats[c].finished <=> FinishedOf(m, S, c)
    BY DEF TurnsAgree
<1>1. /\ Has(S, "session_token_set", c)
         => m.chats[c].token = Latest(Line(S, "session_token_set", c)).event.value
      /\ Has(S, "turn_finished", c) => m.chats[c].finished
    BY DEF TurnsSettled
<1>2. m.chats[c].finished \in BOOLEAN  BY StateKinds DEF Alive
<1>3. CASE ~Has(S, "chat_created", c)  BY <1>1, <1>2, <1>3 DEF TokenOf, FinishedOf
<1>4. CASE Has(S, "chat_created", c)
    <2>1. /\ m.chats[c].token = TokenOf(st, S, c)
          /\ m.chats[c].finished <=> FinishedOf(st, S, c)
        BY <1>4 DEF TurnsAgree
    <2> QED  BY <1>4, <2>1 DEF TokenOf, FinishedOf
<1> QED  BY <1>3, <1>4

LEMMA QueuePart ==
    ASSUME NEW S, Journal(S), NEW c
    PROVE  /\ QueueLines(S, c) \in SUBSET S /\ Journal(QueueLines(S, c))
           /\ OfQueue(QueueLines(S, c), c)
           /\ EnqueuedFirst(S) => EnqueuedFirst(QueueLines(S, c))
<1>1. QueueLines(S, c) \in SUBSET S  BY DEF QueueLines
<1>2. Journal(QueueLines(S, c))  BY <1>1, JournalPart
<1>3. OfQueue(QueueLines(S, c), c)  BY DEF OfQueue, QueueLines
<1>4. EnqueuedFirst(S) => EnqueuedFirst(QueueLines(S, c))  BY <1>1 DEF EnqueuedFirst
<1> QED  BY <1>1, <1>2, <1>3, <1>4

\* So does its queue.
LEMMA SelfQueue ==
    ASSUME NEW m \in States, NEW S, Journal(S), EnqueuedFirst(S), NEW c \in Chats,
           Distinct(m.queue[c]), QueueSettled(m, S, c)
    PROVE  QueueAgrees(m, S, m, c)
<1> SUFFICES ASSUME Alive(m, c)
             PROVE  Replay(m, QueueLines(S, c)).queue[c] = m.queue[c]
    BY DEF QueueAgrees
<1> DEFINE Q == QueueLines(S, c)
<1>1. Journal(Q) /\ OfQueue(Q, c) /\ EnqueuedFirst(Q)  BY QueuePart
<1>2. Settled(m.queue[c], Q)  BY DEF QueueSettled
<1> HIDE DEF Q
<1>3. Replay(m, Q).queue[c] = m.queue[c]  BY <1>1, <1>2, QueueAgain
<1> QED  BY <1>3 DEF Q

\* So does the project.
LEMMA SelfProject ==
    ASSUME NEW m \in States, NEW S, NEW st, ProjectAgrees(m, S, st),
           \A c \in Chats : ChatAgrees(m, S, st, c),
           OverByCreation(m, S), OverByPromotion(m, S),
           HasType(S, "project_draft_opened") => BegunHere(S)
    PROVE  ProjectAgrees(m, S, m)
<1>1. /\ m.project = "open" <=> Opens(st, S)
      /\ m.project = "none" <=> Hidden(st, S)
    BY DEF ProjectAgrees
<1>2. m.project = "none" <=> Hidden(m, S)  BY <1>1 DEF Hidden
<1>3. ASSUME NEW c \in Chats, Has(S, "chat_created", c)
      PROVE  Shows(m, S, c) <=> Shows(st, S, c)
    BY <1>3 DEF Shows, Begins, BeginsDraft
<1>4. ASSUME NEW c \in Chats, Shows(m, S, c)
      PROVE  CreatedOpen(S, c) \/ (Has(S, "chat_promoted", c) /\ Has(S, "chat_created", c))
    <2>1. CASE CreatedOpen(S, c) \/ Has(S, "chat_created", c)  BY <1>4, <2>1 DEF Shows
    <2>2. CASE ~CreatedOpen(S, c) /\ ~Has(S, "chat_created", c)
        <3>1. Has(S, "chat_promoted", c) /\ Alive(m, c) /\ m.chats[c].draft
            BY <1>4, <2>2 DEF Shows, Begins, BeginsDraft
        <3>2. StaysDraft(st, S, c)  BY <3>1 DEF ChatAgrees
        <3> QED  BY <3>1, <3>2 DEF StaysDraft
    <2> QED  BY <2>1, <2>2
<1>5. m.project = "draft" => ~Promotes(m, S)
    BY <1>4 DEF Promotes, OverByCreation, OverByPromotion
<1>6. ASSUME HasType(S, "project_draft_opened")
      PROVE  Promotes(m, S) <=> Promotes(st, S)
    <2>1. ASSUME NEW c \in Chats PROVE Shows(m, S, c) <=> Shows(st, S, c)
        <3>1. CASE Has(S, "chat_created", c)  BY <1>3, <3>1
        <3>2. CASE ~Has(S, "chat_created", c)
            BY <1>6, <3>2 DEF BegunHere, Shows, CreatedOpen, Has
        <3> QED  BY <3>1, <3>2
    <2> QED  BY <2>1 DEF Promotes
<1>7. m.project = "open" <=> Opens(m, S)
    <2>1. CASE HasType(S, "project_opened")  BY <1>1, <2>1 DEF Opens
    <2>2. CASE ~HasType(S, "project_opened") /\ HasType(S, "project_draft_opened")
        BY <1>1, <1>6, <2>2 DEF Opens
    <2>3. CASE ~HasType(S, "project_opened") /\ ~HasType(S, "project_draft_opened")
        BY <1>5, <2>3 DEF Opens
    <2> QED  BY <2>1, <2>2, <2>3
<1> QED  BY <1>2, <1>7 DEF ProjectAgrees

---------------------------------------------------------------------------
(* Fewer lines *)

NoLines(T, k) == \A x \in T : x.source # k
\* Two sets with the same lines of a log, and one with none.
SameLines(T, S, k) == \A x : x.source = k => (x \in T <=> x \in S)

\* Sets of lines that differ in another log only say the same.
LEMMA SameChatLines ==
    ASSUME NEW T \in SUBSET LineSet, NEW S \in SUBSET LineSet, SameLines(T, S, 1), NEW c
    PROVE  /\ Line(T, "chat_created", c) = Line(S, "chat_created", c)
           /\ Line(T, "chat_promoted", c) = Line(S, "chat_promoted", c)
           /\ Line(T, "chat_deleted", c) = Line(S, "chat_deleted", c)
           /\ Line(T, "chat_draft_discarded", c) = Line(S, "chat_draft_discarded", c)
           /\ Reordered(T) <=> Reordered(S)
           /\ PromotedInOrder(T) <=> PromotedInOrder(S)
<1>1. ASSUME NEW x \in LineSet,
             x.event.type \in {"chat_created", "chat_promoted", "chat_deleted",
                               "chat_draft_discarded"}
      PROVE  x \in T <=> x \in S
    <2>1. x.source = 1  BY <1>1, ChatLineKinds DEF ProjectTypes, QueueTypes
    <2> QED  BY <2>1 DEF SameLines
<1>2. Line(T, "chat_created", c) = Line(S, "chat_created", c)  BY <1>1 DEF Line
<1>3. Line(T, "chat_promoted", c) = Line(S, "chat_promoted", c)  BY <1>1 DEF Line
<1>4. Line(T, "chat_deleted", c) = Line(S, "chat_deleted", c)  BY <1>1 DEF Line
<1>5. Line(T, "chat_draft_discarded", c) = Line(S, "chat_draft_discarded", c)  BY <1>1 DEF Line
<1>6. Reordered(T) <=> Reordered(S)  BY DEF Reordered, SameLines
<1>7. PromotedInOrder(T) <=> PromotedInOrder(S)  BY <1>1 DEF PromotedInOrder
<1> QED  BY <1>2, <1>3, <1>4, <1>5, <1>6, <1>7

LEMMA SameChats ==
    ASSUME NEW T \in SUBSET LineSet, NEW S \in SUBSET LineSet, SameLines(T, S, 1), NEW c, NEW st
    PROVE  /\ Has(T, "chat_created", c) <=> Has(S, "chat_created", c)
           /\ Has(T, "chat_promoted", c) <=> Has(S, "chat_promoted", c)
           /\ CreatedOpen(T, c) <=> CreatedOpen(S, c)
           /\ Shows(st, T, c) <=> Shows(st, S, c)
           /\ \A m : ChatAgrees(m, T, st, c) <=> ChatAgrees(m, S, st, c)
<1>1. /\ Line(T, "chat_created", c) = Line(S, "chat_created", c)
      /\ Line(T, "chat_promoted", c) = Line(S, "chat_promoted", c)
      /\ Line(T, "chat_deleted", c) = Line(S, "chat_deleted", c)
      /\ Line(T, "chat_draft_discarded", c) = Line(S, "chat_draft_discarded", c)
    BY SameChatLines, ZenonT(60)
<1>2. /\ Has(T, "chat_created", c) <=> Has(S, "chat_created", c)
      /\ Has(T, "chat_promoted", c) <=> Has(S, "chat_promoted", c)
      /\ Has(T, "chat_deleted", c) <=> Has(S, "chat_deleted", c)
      /\ Has(T, "chat_draft_discarded", c) <=> Has(S, "chat_draft_discarded", c)
    BY <1>1 DEF Has
<1>3. CreatedOpen(T, c) <=> CreatedOpen(S, c)  BY <1>1 DEF CreatedOpen
<1>4. /\ Begins(st, T, c) <=> Begins(st, S, c)
      /\ BeginsDraft(st, T, c) <=> BeginsDraft(st, S, c)
    BY <1>1, <1>2 DEF Begins, BeginsDraft
<1>5. Shows(st, T, c) <=> Shows(st, S, c)  BY <1>2, <1>3, <1>4 DEF Shows
<1>6. /\ Lives(st, T, c) <=> Lives(st, S, c)
      /\ StaysDraft(st, T, c) <=> StaysDraft(st, S, c)
      /\ Discards(st, T, c) <=> Discards(st, S, c)
    BY <1>2, <1>4 DEF Lives, StaysDraft, Discards
<1>7. \A m : ChatAgrees(m, T, st, c) <=> ChatAgrees(m, S, st, c)  BY <1>6 DEF ChatAgrees
<1> QED  BY <1>2, <1>3, <1>5, <1>7

LEMMA NoChats ==
    ASSUME NEW T \in SUBSET LineSet, NoLines(T, 1), NEW c
    PROVE  /\ ~Has(T, "chat_created", c) /\ ~Has(T, "chat_promoted", c)
           /\ ~CreatedOpen(T, c) /\ \A st : ~Shows(st, T, c)
           /\ ~Reordered(T) /\ PromotedInOrder(T)
           /\ \A m : ChatAgrees(m, T, m, c)
<1>1. \A x \in T : /\ x.event.type # "chat_created" /\ x.event.type # "chat_promoted"
                   /\ x.event.type # "chat_deleted" /\ x.event.type # "chat_draft_discarded"
    BY ChatLineKinds DEF NoLines, ProjectTypes, QueueTypes
<1>2. /\ ~Has(T, "chat_created", c) /\ ~Has(T, "chat_promoted", c)
      /\ ~Has(T, "chat_deleted", c) /\ ~Has(T, "chat_draft_discarded", c)
    BY <1>1 DEF Has, Line
<1>3. ~CreatedOpen(T, c)  BY <1>2 DEF CreatedOpen, Has
<1>4. \A st : ~Shows(st, T, c)  BY <1>2, <1>3 DEF Shows
<1>5. ~Reordered(T)  BY DEF Reordered, NoLines
<1>6. PromotedInOrder(T)  BY <1>1 DEF PromotedInOrder
<1>7. ASSUME NEW m PROVE ChatAgrees(m, T, m, c)
    BY <1>2 DEF ChatAgrees, Lives, Begins, StaysDraft, BeginsDraft, Discards
<1> QED  BY <1>2, <1>3, <1>4, <1>5, <1>6, <1>7

LEMMA SameQueue ==
    ASSUME NEW T \in SUBSET LineSet, NEW S \in SUBSET LineSet, SameLines(T, S, 3), NEW c
    PROVE  QueueLines(T, c) = QueueLines(S, c)
BY ChatLineKinds DEF QueueLines, SameLines

LEMMA NoQueue ==
    ASSUME NEW T \in SUBSET LineSet, NoLines(T, 3), NEW c
    PROVE  QueueLines(T, c) = {}
BY ChatLineKinds DEF QueueLines, NoLines

LEMMA SameTurns ==
    ASSUME NEW T \in SUBSET LineSet, NEW S \in SUBSET LineSet, SameLines(T, S, 4), NEW c
    PROVE  /\ Line(T, "session_token_set", c) = Line(S, "session_token_set", c)
           /\ Has(T, "session_token_set", c) <=> Has(S, "session_token_set", c)
           /\ Has(T, "turn_finished", c) <=> Has(S, "turn_finished", c)
<1>1. ASSUME NEW x \in LineSet, x.event.type \in {"session_token_set", "turn_finished"}
      PROVE  x \in T <=> x \in S
    <2>1. x.source = 4  BY <1>1, ChatLineKinds
    <2> QED  BY <2>1 DEF SameLines
<1>2. Line(T, "session_token_set", c) = Line(S, "session_token_set", c)  BY <1>1 DEF Line
<1>3. Line(T, "turn_finished", c) = Line(S, "turn_finished", c)  BY <1>1 DEF Line
<1> QED  BY <1>2, <1>3 DEF Has

LEMMA NoTurns ==
    ASSUME NEW T \in SUBSET LineSet, NoLines(T, 4), NEW c
    PROVE  ~Has(T, "session_token_set", c) /\ ~Has(T, "turn_finished", c)
<1>1. \A x \in T : x.event.type # "session_token_set" /\ x.event.type # "turn_finished"
    BY ChatLineKinds DEF NoLines
<1> QED  BY <1>1 DEF Has, Line

LEMMA SameProject ==
    ASSUME NEW T \in SUBSET LineSet, NEW S \in SUBSET LineSet, SameLines(T, S, 0)
    PROVE  /\ HasType(T, "project_opened") <=> HasType(S, "project_opened")
           /\ HasType(T, "project_draft_opened") <=> HasType(S, "project_draft_opened")
           /\ HasType(T, "project_draft_discarded") <=> HasType(S, "project_draft_discarded")
<1>1. ASSUME NEW x \in LineSet, x.event.type \in ProjectTypes PROVE x \in T <=> x \in S
    <2>1. x.source = 0  BY <1>1, ChatLineKinds
    <2> QED  BY <2>1 DEF SameLines
<1> QED  BY <1>1 DEF HasType, ProjectTypes

LEMMA NoProject ==
    ASSUME NEW T \in SUBSET LineSet, NoLines(T, 0)
    PROVE  ~HasType(T, "project_opened") /\ ~HasType(T, "project_draft_opened")
BY ChatLineKinds DEF NoLines, HasType, ProjectTypes

---------------------------------------------------------------------------
(* What a restart recovers *)

\* A chat that a replay recovers agrees with its lines, over either image.
LEMMA AgainChat ==
    ASSUME NEW m, NEW X \in States, NEW Y, NEW S, Journal(S), CreatedFirst(S), NEW c \in Chats,
           ChatAgrees(m, S, X, c), ChatAgrees(m, S, Y, c)
    PROVE  /\ Alive(Replay(X, S), c) <=> Alive(m, c)
           /\ Alive(m, c) => (Replay(X, S).chats[c].draft <=> m.chats[c].draft)
           /\ ChatAgrees(Replay(X, S), S, Y, c)
<1> DEFINE u == Replay(X, S)
<1>1. /\ Alive(m, c) <=> Lives(X, S, c)
      /\ Alive(m, c) => (m.chats[c].draft <=> StaysDraft(X, S, c))
      /\ Discards(X, S, c)
      /\ Alive(m, c) <=> Lives(Y, S, c)
      /\ Alive(m, c) => (m.chats[c].draft <=> StaysDraft(Y, S, c))
      /\ Discards(Y, S, c)
    BY DEF ChatAgrees
<1>2. Lives(X, S, c) => Alive(u, c) /\ (u.chats[c].draft <=> StaysDraft(X, S, c))  BY Live
<1>3. ~Lives(X, S, c) => ~Alive(u, c)  BY <1>1, Dead
<1> HIDE DEF u
<1>4. Alive(u, c) <=> Alive(m, c)  BY <1>1, <1>2, <1>3
<1>5. Alive(m, c) => (u.chats[c].draft <=> m.chats[c].draft)  BY <1>1, <1>2
<1>6. ChatAgrees(u, S, Y, c)  BY <1>1, <1>4, <1>5 DEF ChatAgrees
<1> QED  BY <1>4, <1>5, <1>6 DEF u

\* So does its queue.
LEMMA AgainQueue ==
    ASSUME NEW m, NEW X \in States, NEW S, Journal(S), CreatedFirst(S), NEW c \in Chats,
           ChatAgrees(m, S, X, c)
    PROVE  /\ QueueAgrees(Replay(X, S), S, X, c)
           /\ \A Y : QueueAgrees(m, S, X, c) /\ QueueAgrees(m, S, Y, c)
                     => QueueAgrees(Replay(X, S), S, Y, c)
<1> DEFINE u == Replay(X, S)
<1>1. Alive(u, c) => u.queue[c] = Replay(X, QueueLines(S, c)).queue[c]
    BY Remains DEF Remembered
<1>2. Alive(u, c) <=> Alive(m, c)  BY AgainChat
<1> HIDE DEF u
<1>3. QueueAgrees(u, S, X, c)  BY <1>1 DEF QueueAgrees
<1>4. \A Y : QueueAgrees(m, S, X, c) /\ QueueAgrees(m, S, Y, c) => QueueAgrees(u, S, Y, c)
    BY <1>1, <1>2 DEF QueueAgrees
<1> QED  BY <1>3, <1>4 DEF u

\* So do its session and outcome.
LEMMA AgainTurns ==
    ASSUME NEW m, NEW X \in States, NEW S, Journal(S), CreatedFirst(S), NEW c \in Chats,
           ChatAgrees(m, S, X, c)
    PROVE  /\ TurnsAgree(Replay(X, S), S, X, c)
           /\ \A Y : TurnsAgree(m, S, X, c) /\ TurnsAgree(m, S, Y, c)
                     => TurnsAgree(Replay(X, S), S, Y, c)
<1> DEFINE u == Replay(X, S)
<1>1. Alive(u, c) => /\ u.chats[c].token = TokenOf(X, S, c)
                     /\ u.chats[c].finished <=> FinishedOf(X, S, c)
    BY Remains DEF Remembered
<1>2. Alive(u, c) <=> Alive(m, c)  BY AgainChat
<1> HIDE DEF u
<1>3. TurnsAgree(u, S, X, c)  BY <1>1 DEF TurnsAgree
<1>4. \A Y : TurnsAgree(m, S, X, c) /\ TurnsAgree(m, S, Y, c) => TurnsAgree(u, S, Y, c)
    BY <1>1, <1>2 DEF TurnsAgree
<1> QED  BY <1>3, <1>4 DEF u

\* So does the project.
LEMMA AgainProject ==
    ASSUME NEW m, NEW X \in States, NEW S, Journal(S), CreatedFirst(S), PromotedFirst(S),
           OpenedFirst(S), ~HasType(S, "project_draft_discarded")
    PROVE  /\ ProjectAgrees(Replay(X, S), S, X)
           /\ \A Y : ProjectAgrees(m, S, X) /\ ProjectAgrees(m, S, Y)
                     => ProjectAgrees(Replay(X, S), S, Y)
<1> DEFINE u == Replay(X, S)
<1>1. /\ u.project = "open" <=> Opens(X, S)
      /\ u.project = "none" <=> Hidden(X, S)
    BY ProjectReplay
<1> HIDE DEF u
<1>2. ProjectAgrees(u, S, X)  BY <1>1 DEF ProjectAgrees
<1>3. \A Y : ProjectAgrees(m, S, X) /\ ProjectAgrees(m, S, Y) => ProjectAgrees(u, S, Y)
    BY <1>1 DEF ProjectAgrees
<1> QED  BY <1>2, <1>3 DEF u

\* The lines say of what was recovered what they did.
LEMMA AgainSettled ==
    ASSUME NEW X \in States, NEW S, Journal(S), CreatedFirst(S), EnqueuedFirst(S),
           NEW c \in Chats, Distinct(X.queue[c])
    PROVE  /\ QueueSettled(Replay(X, S), S, c)
           /\ TurnsSettled(Replay(X, S), S, c)
<1> DEFINE u == Replay(X, S)
           Q == QueueLines(S, c)
<1>1. Alive(u, c) => /\ u.chats[c].token = TokenOf(X, S, c)
                     /\ u.chats[c].finished <=> FinishedOf(X, S, c)
                     /\ u.queue[c] = Replay(X, QueueLines(S, c)).queue[c]
    BY Remains DEF Remembered
<1>2. Journal(Q) /\ OfQueue(Q, c) /\ EnqueuedFirst(Q)  BY QueuePart
<1>3. Settled(Replay(X, Q).queue[c], Q)
    <2> HIDE DEF Q
    <2> QED  BY <1>2, QueueSettles
<1> HIDE DEF u
<1>4. QueueSettled(u, S, c)  BY <1>1, <1>3 DEF QueueSettled
<1>5. TurnsSettled(u, S, c)  BY <1>1 DEF TurnsSettled, TokenOf, FinishedOf
<1> QED  BY <1>4, <1>5 DEF u

LEMMA AgainOver ==
    ASSUME NEW X \in States, NEW S, Journal(S), CreatedFirst(S), OpenedFirst(S)
    PROVE  /\ OverByCreation(Replay(X, S), S)
           /\ PromotedFirst(S) => OverByPromotion(Replay(X, S), S)
<1>1. OverByCreation(Replay(X, S), S)  BY NoDraftLeft DEF OverByCreation
<1>2. PromotedFirst(S) => OverByPromotion(Replay(X, S), S)
    BY NoDraftLeftBehind DEF OverByPromotion
<1> QED  BY <1>1, <1>2

---------------------------------------------------------------------------
(* The lines of the logs *)

\* The lines of a function of logs, and the functions that are logs.
Logged(f) == UNION {{[event |-> f[l][i], source |-> Source(l), line |-> i] :
                        i \in 1 .. Len(f[l])} : l \in Logs}

GoodLog(f) == /\ f \in [Logs -> Seq(Events)]
              /\ \A l \in Logs : \A i \in 1 .. Len(f[l]) : LogOf(f[l][i]) = l

\* The lines, as a function of the logs.
LEMMA LinesAre ==
    Lines = Logged(log)
BY DEF Lines, Logged

\* The line with a place in a log.
LineAt(f, l, i) == [event |-> f[l][i], source |-> Source(l), line |-> i]

LEMMA LoggedLine ==
    ASSUME NEW f, NEW x
    PROVE  x \in Logged(f) <=> \E l \in Logs : \E i \in 1 .. Len(f[l]) : x = LineAt(f, l, i)
BY DEF Logged, LineAt

LEMMA SourceOnce ==
    ASSUME NEW k \in Logs, NEW l \in Logs, Source(k) = Source(l)
    PROVE  k = l
BY SourceKinds DEF Logs

\* The lines of a log are a journal.
LEMMA LoggedJournal ==
    ASSUME NEW f, GoodLog(f)
    PROVE  Journal(Logged(f))
<1>1. ASSUME NEW l \in Logs, NEW i \in 1 .. Len(f[l])
      PROVE  LineAt(f, l, i) \in LineSet
    <2>1. f[l] \in Seq(Events)  BY DEF GoodLog
    <2>2. f[l][i] \in Events /\ LogOf(f[l][i]) = l  BY <2>1, ElementOfSeq DEF GoodLog
    <2>3. Source(l) \in {0, 1, 3, 4}  BY SourceKinds
    <2>4. i \in Nat \ {0}  BY <2>1
    <2> QED  BY <2>2, <2>3, <2>4 DEF LineSet, LineAt
<1>2. Logged(f) \subseteq LineSet  BY <1>1, LoggedLine
<1>3. ASSUME NEW l \in Logs PROVE IsFiniteSet({LineAt(f, l, i) : i \in 1 .. Len(f[l])})
    <2>1. Len(f[l]) \in Nat  BY DEF GoodLog
    <2> DEFINE D == 1 .. Len(f[l])
               T == {LineAt(f, l, i) : i \in D}
               h == [i \in D |-> LineAt(f, l, i)]
    <2>2. IsFiniteSet(D)  BY <2>1, FS_Interval
    <2>3. h \in Surjection(D, T)  BY DEF Surjection
    <2> HIDE DEF D, T, h
    <2>4. IsFiniteSet(T)  BY <2>2, <2>3, FS_Surjection
    <2> QED  BY <2>4 DEF T, D
<1>4. IsFiniteSet(Logged(f))
    <2> DEFINE B(l) == {LineAt(f, l, i) : i \in 1 .. Len(f[l])}
    <2>1. Logged(f) = ((B("projects") \cup B("chats")) \cup B("queued")) \cup B("turns")
        <3>1. Logged(f) = UNION {B(l) : l \in Logs}  BY DEF Logged, LineAt
        <3> HIDE DEF B
        <3> QED  BY <3>1 DEF Logs
    <2>2. /\ IsFiniteSet(B("projects")) /\ IsFiniteSet(B("chats"))
          /\ IsFiniteSet(B("queued")) /\ IsFiniteSet(B("turns"))
        BY <1>3 DEF Logs
    <2> HIDE DEF B
    <2>3. IsFiniteSet(B("projects") \cup B("chats"))  BY <2>2, FS_Union
    <2>4. IsFiniteSet((B("projects") \cup B("chats")) \cup B("queued"))  BY <2>2, <2>3, FS_Union
    <2> QED  BY <2>1, <2>2, <2>4, FS_Union
<1>5. ASSUME NEW x \in Logged(f), NEW y \in Logged(f), x.source = y.source, x.line = y.line
      PROVE  x = y
    <2>1. PICK k \in Logs : \E i \in 1 .. Len(f[k]) : x = LineAt(f, k, i)  BY LoggedLine
    <2>2. PICK i \in 1 .. Len(f[k]) : x = LineAt(f, k, i)  BY <2>1
    <2>3. PICK l \in Logs : \E j \in 1 .. Len(f[l]) : y = LineAt(f, l, j)  BY LoggedLine
    <2>4. PICK j \in 1 .. Len(f[l]) : y = LineAt(f, l, j)  BY <2>3
    <2>5. Source(k) = Source(l) /\ i = j  BY <1>5, <2>2, <2>4 DEF LineAt
    <2>6. k = l  BY <2>5, SourceOnce
    <2> QED  BY <2>2, <2>4, <2>5, <2>6
<1> QED  BY <1>2, <1>4, <1>5 DEF Journal

\* A line that is written is the last of its log.
Appends(f, g, e) == g = [f EXCEPT ![LogOf(e)] = Append(@, e)]

\* An event appended to its log is one line more, the newest of its log.
LEMMA LoggedAppend ==
    ASSUME NEW f, GoodLog(f), NEW e \in Events, NEW g, Appends(f, g, e)
    PROVE  /\ GoodLog(g)
           /\ \E x \in LineSet : /\ Adds(Logged(g), Logged(f), x) /\ x \notin Logged(f)
                                 /\ x.event = e /\ Newest(Logged(f), x)
<1> DEFINE l == LogOf(e)
           n == Len(f[l]) + 1
           x == LineAt(g, l, n)
<1>1. l \in Logs  BY LogKinds
<1>2. f \in [Logs -> Seq(Events)] /\ f[l] \in Seq(Events) /\ Len(f[l]) \in Nat
    BY <1>1 DEF GoodLog
<1>3. /\ g \in [Logs -> Seq(Events)] /\ g[l] = Append(f[l], e)
      /\ \A k \in Logs \ {l} : g[k] = f[k]
    BY <1>1, <1>2 DEF Appends
<1>4. /\ Len(g[l]) = n /\ g[l][n] = e
      /\ \A i \in 1 .. Len(f[l]) : g[l][i] = f[l][i]
    BY <1>2, <1>3
<1>5. GoodLog(g)
    <2>1. ASSUME NEW k \in Logs, NEW i \in 1 .. Len(g[k]) PROVE LogOf(g[k][i]) = k
        <3>1. CASE k # l  BY <1>3, <3>1 DEF GoodLog
        <3>2. CASE k = l /\ i = n  BY <1>4, <3>2
        <3>3. CASE k = l /\ i # n
            <4>1. i \in 1 .. Len(f[l])  BY <1>2, <1>4, <3>3
            <4> QED  BY <1>1, <1>4, <3>3, <4>1 DEF GoodLog
        <3> QED  BY <3>1, <3>2, <3>3
    <2> QED  BY <1>3, <2>1 DEF GoodLog
<1> HIDE DEF l, n
<1>6. x.event = e /\ x.source = Source(l) /\ x.line = n  BY <1>4 DEF LineAt
<1>7. n \in 1 .. Len(g[l])  BY <1>2, <1>4 DEF n
<1>8. x \in Logged(g)  BY <1>1, <1>7, LoggedLine
<1>9. Journal(Logged(f)) /\ Journal(Logged(g))  BY <1>5, LoggedJournal
<1>10. x \in LineSet  BY <1>8, <1>9 DEF Journal
<1>11. ASSUME NEW k \in Logs, NEW i \in 1 .. Len(f[k])
       PROVE  LineAt(f, k, i) = LineAt(g, k, i) /\ i \in 1 .. Len(g[k])
    <2>1. CASE k # l  BY <1>3, <2>1 DEF LineAt
    <2>2. CASE k = l  BY <1>2, <1>4, <2>2 DEF LineAt, n
    <2> QED  BY <2>1, <2>2
<1>12. ASSUME NEW y \in Logged(f) PROVE y \in Logged(g) /\ (y.source = x.source => y.line < x.line)
    <2>1. PICK k \in Logs : \E i \in 1 .. Len(f[k]) : y = LineAt(f, k, i)  BY LoggedLine
    <2>2. PICK i \in 1 .. Len(f[k]) : y = LineAt(f, k, i)  BY <2>1
    <2>3. y \in Logged(g)  BY <1>11, <2>2, LoggedLine
    <2>4. y.source = Source(k) /\ y.line = i  BY <2>2 DEF LineAt
    <2>5. ASSUME y.source = x.source PROVE y.line < x.line
        <3>1. k = l  BY <1>1, <1>6, <2>4, <2>5, SourceOnce
        <3> QED  BY <1>2, <1>6, <2>4, <3>1 DEF n
    <2> QED  BY <2>3, <2>5
<1>13. ASSUME NEW y \in Logged(g) PROVE y \in Logged(f) \/ y = x
    <2>1. PICK k \in Logs : \E i \in 1 .. Len(g[k]) : y = LineAt(g, k, i)  BY LoggedLine
    <2>2. PICK i \in 1 .. Len(g[k]) : y = LineAt(g, k, i)  BY <2>1
    <2>3. CASE k = l /\ i = n  BY <2>2, <2>3
    <2>4. CASE ~(k = l /\ i = n)
        <3>1. i \in 1 .. Len(f[k])
            <4>1. CASE k # l  BY <1>3, <4>1
            <4>2. CASE k = l  BY <1>2, <1>4, <2>4, <4>2 DEF n
            <4> QED  BY <4>1, <4>2
        <3>2. y = LineAt(f, k, i)  BY <1>11, <2>2, <3>1
        <3> QED  BY <3>1, <3>2, LoggedLine
    <2> QED  BY <2>3, <2>4
<1> HIDE DEF x
<1>14. x \notin Logged(f)
    <2>1. x.line \in Nat  BY <1>2, <1>6 DEF n
    <2> QED  BY <1>12, <2>1
<1>15. Adds(Logged(g), Logged(f), x)
    <2>1. Logged(g) = Logged(f) \cup {x}  BY <1>8, <1>12, <1>13
    <2> QED  BY <2>1 DEF Adds
<1> QED  BY <1>5, <1>6, <1>10, <1>12, <1>14, <1>15 DEF Newest

Empties(f, g, l) == g = [f EXCEPT ![l] = <<>>]

\* Emptying a log takes its lines away.
LEMMA LoggedCut ==
    ASSUME NEW f, GoodLog(f), NEW l \in Logs, NEW g, Empties(f, g, l)
    PROVE  /\ GoodLog(g)
           /\ \A x : x \in Logged(g) <=> x \in Logged(f) /\ x.source # Source(l)
<1>1. /\ g \in [Logs -> Seq(Events)] /\ g[l] = <<>>
      /\ \A k \in Logs \ {l} : g[k] = f[k]
    BY DEF GoodLog, Empties
<1>2. GoodLog(g)
    <2>1. ASSUME NEW k \in Logs, NEW i \in 1 .. Len(g[k]) PROVE LogOf(g[k][i]) = k
        <3>1. CASE k # l  BY <1>1, <3>1 DEF GoodLog
        <3>2. CASE k = l  BY <1>1, <3>2
        <3> QED  BY <3>1, <3>2
    <2> QED  BY <1>1, <2>1 DEF GoodLog
<1>3. ASSUME NEW x \in Logged(g) PROVE x \in Logged(f) /\ x.source # Source(l)
    <2>1. PICK k \in Logs : \E i \in 1 .. Len(g[k]) : x = LineAt(g, k, i)  BY LoggedLine
    <2>2. PICK i \in 1 .. Len(g[k]) : x = LineAt(g, k, i)  BY <2>1
    <2>3. k # l  BY <1>1
    <2>4. i \in 1 .. Len(f[k]) /\ x = LineAt(f, k, i)  BY <1>1, <2>2, <2>3 DEF LineAt
    <2>5. x.source = Source(k)  BY <2>2 DEF LineAt
    <2> QED  BY <2>3, <2>4, <2>5, LoggedLine, SourceOnce
<1>4. ASSUME NEW x \in Logged(f), x.source # Source(l) PROVE x \in Logged(g)
    <2>1. PICK k \in Logs : \E i \in 1 .. Len(f[k]) : x = LineAt(f, k, i)  BY LoggedLine
    <2>2. PICK i \in 1 .. Len(f[k]) : x = LineAt(f, k, i)  BY <2>1
    <2>3. k # l  BY <1>4, <2>2 DEF LineAt
    <2>4. i \in 1 .. Len(g[k]) /\ x = LineAt(g, k, i)  BY <1>1, <2>2, <2>3 DEF LineAt
    <2> QED  BY <2>4, LoggedLine
<1> QED  BY <1>2, <1>3, <1>4

\* A log without lines.
LEMMA LoggedNone ==
    ASSUME NEW f, NEW l \in Logs, f[l] = <<>>
    PROVE  NoLines(Logged(f), Source(l))
<1> SUFFICES ASSUME NEW x \in Logged(f), x.source = Source(l) PROVE FALSE  BY DEF NoLines
<1>1. PICK k \in Logs : \E i \in 1 .. Len(f[k]) : x = LineAt(f, k, i)  BY LoggedLine
<1>2. PICK i \in 1 .. Len(f[k]) : x = LineAt(f, k, i)  BY <1>1
<1>3. k = l  BY <1>2, SourceOnce DEF LineAt
<1> QED  BY <1>2, <1>3

---------------------------------------------------------------------------
(* The chain *)

\* A request's event is none of those that the chain stamps itself.
LEMMA WriteKinds ==
    ASSUME NEW q \in Seq(Tasks), NEW i, WriteAt(q, i)
    PROVE  /\ q[i] \in Tasks /\ q[i].event \in Events /\ q[i].event.at \in Nat
           /\ q[i].event.chat \in Chats
           /\ q[i].event.type \notin ProjectTypes
           /\ q[i].event.type # "chat_promoted" /\ q[i].event.type # "chat_draft_discarded"
           /\ q[i].event.type = "chat_created" => q[i].event.value = FALSE
<1>1. i \in 1 .. Len(q) /\ q[i].op = "write"  BY DEF WriteAt
<1>2. q[i] \in Tasks  BY <1>1, ElementOfSeq
<1>3. q[i].event \in Requested  BY <1>1, <1>2 DEF Tasks
<1>4. /\ q[i].event \in Events /\ q[i].event.type \notin ProjectTypes
      /\ q[i].event.type # "chat_promoted" /\ q[i].event.type # "chat_draft_discarded"
      /\ q[i].event.type = "chat_created" => q[i].event.value = FALSE
    BY <1>3 DEF Requested
<1>5. q[i].event.at \in Nat /\ q[i].event.chat \in Chats  BY <1>4, EventKinds
<1> QED  BY <1>2, <1>4, <1>5

\* The writes of a chain are those of another, each k places further on.
Moves(q, r, k) ==
    \A i \in 1 .. Len(r) : WriteAt(r, i) => WriteAt(q, i + k) /\ q[i + k] = r[i]

LEMMA MovesNot ==
    ASSUME NEW q
    PROVE  Moves(q, q, 0)
<1> SUFFICES ASSUME NEW i \in 1 .. Len(q), WriteAt(q, i)
             PROVE  WriteAt(q, i + 0) /\ q[i + 0] = q[i]
    BY DEF Moves
<1>1. i + 0 = i  OBVIOUS
<1> QED  BY <1>1

LEMMA MovesTail ==
    ASSUME NEW q \in Seq(Tasks), q # <<>>
    PROVE  Moves(q, Tail(q), 1)
<1>1. Len(Tail(q)) = Len(q) - 1 /\ \A i \in 1 .. Len(q) - 1 : Tail(q)[i] = q[i + 1]
    BY HeadTailProperties
<1>2. Len(q) \in Nat  OBVIOUS
<1> QED  BY <1>1, <1>2 DEF Moves, WriteAt

\* The head of a chain goes on as another task.
Goes(q, r, op) == r = <<[Head(q) EXCEPT !.op = op]>> \o Tail(q)

LEMMA GoesIs ==
    ASSUME NEW q \in Seq(Tasks), q # <<>>, NEW op, NEW r, Goes(q, r, op)
    PROVE  /\ Len(r) = Len(q) /\ r # <<>>
           /\ r[1] = Task(op, q[1].chat, q[1].event)
           /\ \A i \in 2 .. Len(q) : r[i] = q[i]
           /\ Task(op, q[1].chat, q[1].event) \in Tasks => r \in Seq(Tasks)
<1>1. /\ Len(Tail(q)) = Len(q) - 1 /\ \A i \in 1 .. Len(q) - 1 : Tail(q)[i] = q[i + 1]
      /\ Tail(q) \in Seq(Tasks) /\ Head(q) = q[1] /\ Len(q) \in Nat \ {0}
    BY HeadTailProperties
<1>2. q[1] \in Tasks  BY <1>1, ElementOfSeq
<1>3. q[1] = [op |-> q[1].op, chat |-> q[1].chat, event |-> q[1].event]  BY <1>2 DEF Tasks
<1> DEFINE h == Task(op, q[1].chat, q[1].event)
<1>4. [q[1] EXCEPT !.op = op] = h  BY <1>3 DEF Task
<1>5. r = <<h>> \o Tail(q)  BY <1>1, <1>4 DEF Goes
<1> HIDE DEF h
<1>6. <<h>> \in Seq({h}) /\ Len(<<h>>) = 1 /\ <<h>>[1] = h  OBVIOUS
<1>7. /\ Len(r) = 1 + Len(Tail(q))
      /\ \A i \in 1 .. 1 + Len(Tail(q)) : r[i] = IF i <= 1 THEN <<h>>[i] ELSE Tail(q)[i - 1]
    BY <1>1, <1>5, <1>6
<1>8. r[1] = h  BY <1>1, <1>6, <1>7
<1>9. ASSUME NEW i \in 2 .. Len(q) PROVE r[i] = q[i]
    <2>1. r[i] = Tail(q)[i - 1]  BY <1>1, <1>7
    <2>2. i - 1 \in 1 .. Len(q) - 1 /\ (i - 1) + 1 = i  BY <1>1
    <2> QED  BY <1>1, <2>1, <2>2
<1>10. Len(r) = Len(q)  BY <1>1, <1>7
<1>11. r # <<>>  BY <1>1, <1>10
<1>12. h \in Tasks => r \in Seq(Tasks)
    <2> HAVE h \in Tasks
    <2>1. <<h>> \in Seq(Tasks)  OBVIOUS
    <2> QED  BY <1>1, <1>5, <2>1
<1> QED  BY <1>8, <1>9, <1>10, <1>11, <1>12 DEF h

LEMMA MovesGoes ==
    ASSUME NEW q \in Seq(Tasks), q # <<>>, NEW op, NEW r, Goes(q, r, op), ~WriteAt(r, 1)
    PROVE  Moves(q, r, 0)
<1> SUFFICES ASSUME NEW i \in 1 .. Len(r), WriteAt(r, i)
             PROVE  WriteAt(q, i + 0) /\ q[i + 0] = r[i]
    BY DEF Moves
<1>1. Len(r) = Len(q) /\ \A j \in 2 .. Len(q) : r[j] = q[j]
    BY GoesIs
<1>2. i + 0 = i /\ Len(q) \in Nat  OBVIOUS
<1>3. i # 1  OBVIOUS
<1>4. i \in 2 .. Len(q)  BY <1>1, <1>2, <1>3
<1> QED  BY <1>1, <1>2, <1>4 DEF WriteAt

\* A chain without writes.
LEMMA MovesNone ==
    ASSUME NEW q, NEW r, \A i \in 1 .. Len(r) : r[i].op # "write"
    PROVE  Moves(q, r, 0)
BY DEF Moves, WriteAt

LEMMA MovesIs ==
    ASSUME NEW q, NEW r, NEW k \in Nat, Moves(q, r, k), NEW i, WriteAt(r, i)
    PROVE  /\ i \in 1 .. Len(r) /\ i + k \in 1 .. Len(q)
           /\ WriteAt(q, i + k) /\ q[i + k] = r[i]
BY DEF Moves, WriteAt

\* A task more.
LEMMA AppendIs ==
    ASSUME NEW q \in Seq(Tasks), NEW t \in Tasks
    PROVE  /\ Append(q, t) \in Seq(Tasks) /\ Len(Append(q, t)) = Len(q) + 1
           /\ Append(q, t)[Len(q) + 1] = t
           /\ \A i \in 1 .. Len(q) : Append(q, t)[i] = q[i]
           /\ \A i : WriteAt(Append(q, t), i)
                     <=> WriteAt(q, i) \/ (i = Len(q) + 1 /\ t.op = "write")
<1>1. /\ Append(q, t) \in Seq(Tasks) /\ Len(Append(q, t)) = Len(q) + 1
      /\ Append(q, t)[Len(q) + 1] = t
      /\ \A i \in 1 .. Len(q) : Append(q, t)[i] = q[i]
      /\ Len(q) \in Nat
    OBVIOUS
<1>2. ASSUME NEW i
      PROVE  WriteAt(Append(q, t), i) <=> WriteAt(q, i) \/ (i = Len(q) + 1 /\ t.op = "write")
    <2>1. i \in 1 .. Len(q) + 1 <=> i \in 1 .. Len(q) \/ i = Len(q) + 1  BY <1>1
    <2>2. CASE i \in 1 .. Len(q)
        <3>1. Append(q, t)[i] = q[i] /\ i # Len(q) + 1  BY <1>1, <2>2
        <3> QED  BY <1>1, <2>1, <2>2, <3>1 DEF WriteAt
    <2>3. CASE i = Len(q) + 1
        <3>1. i \notin 1 .. Len(q)  BY <1>1, <2>3
        <3> QED  BY <1>1, <2>1, <2>3, <3>1 DEF WriteAt
    <2>4. CASE i \notin 1 .. Len(q) /\ i # Len(q) + 1  BY <1>1, <2>1, <2>4 DEF WriteAt
    <2> QED  BY <2>2, <2>3, <2>4
<1> QED  BY <1>1, <1>2

\* A set as a sequence.
LEMMA SetToSeqIs ==
    ASSUME NEW S, IsFiniteSet(S)
    PROVE  /\ SetToSeq(S) \in Seq(S)
           /\ \A x \in S : \E i \in 1 .. Len(SetToSeq(S)) : SetToSeq(S)[i] = x
<1> DEFINE n == Cardinality(S)
           s == SetToSeq(S)
<1>1. n \in Nat /\ ExistsBijection(1 .. n, S)  BY FS_CardinalityType
<1>2. \E f \in [1 .. n -> S] : IsInjective(f)
    BY <1>1 DEF ExistsBijection, Bijection, Injection
<1>3. s \in [1 .. n -> S] /\ IsInjective(s)  BY <1>2 DEF SetToSeq
<1> HIDE DEF s
<1>4. s \in Injection(1 .. n, S)  BY <1>3 DEF Injection
<1>5. Cardinality(1 .. n) = n  BY <1>1, FS_Interval
<1> DEFINE D == 1 .. n
<1>8. s \in Injection(D, S) /\ Cardinality(D) = Cardinality(S)  BY <1>4, <1>5
<1> HIDE DEF D
<1>6. s \in Surjection(D, S)  BY <1>8, FS_Injection
<1>9. s \in Surjection(1 .. n, S)  BY <1>6 DEF D
<1>7. s \in Seq(S) /\ Len(s) = n  BY <1>1, <1>3
<1> QED  BY <1>9, <1>7 DEF s, Surjection

---------------------------------------------------------------------------
(* The order of stamps *)

\* The stamps stay in order when lines go.
LEMMA StampsKeep ==
    ASSUME NEW S \in SUBSET LineSet, NEW T \in SUBSET S, NEW q \in Seq(Tasks), NEW r \in Seq(Tasks),
           NEW k \in Nat, Moves(q, r, k), NEW n \in Nat, NEW n2 \in Nat, n <= n2,
           StampsOrdered(S, q, n)
    PROVE  StampsOrdered(T, r, n2)
<1>1. ASSUME NEW x \in T PROVE x.event.at <= n2
    <2>1. x \in S /\ x.event.at \in Nat  BY LineKinds
    <2>2. x.event.at <= n  BY <2>1 DEF StampsOrdered
    <2> QED  BY <2>1, <2>2
<1>2. ASSUME NEW i \in 1 .. Len(r), WriteAt(r, i)
      PROVE  /\ r[i].event.at <= n2
             /\ \A j \in 1 .. Len(r) : WriteAt(r, j) /\ i < j => r[i].event.at <= r[j].event.at
             /\ \A x \in T : x.source \in {3, 4} => x.event.at <= r[i].event.at
    <2>1. i + k \in 1 .. Len(q) /\ WriteAt(q, i + k) /\ q[i + k] = r[i]  BY <1>2, MovesIs
    <2>2. r[i].event.at \in Nat  BY <1>2, WriteKinds
    <2>3. r[i].event.at <= n  BY <2>1 DEF StampsOrdered
    <2>4. ASSUME NEW j \in 1 .. Len(r), WriteAt(r, j), i < j
          PROVE  r[i].event.at <= r[j].event.at
        <3>1. j + k \in 1 .. Len(q) /\ WriteAt(q, j + k) /\ q[j + k] = r[j]  BY <2>4, MovesIs
        <3>2. i + k < j + k  BY <2>4
        <3>3. q[i + k].event.at <= q[j + k].event.at  BY <2>1, <3>1, <3>2 DEF StampsOrdered
        <3> QED  BY <2>1, <3>1, <3>3
    <2>5. ASSUME NEW x \in T, x.source \in {3, 4} PROVE x.event.at <= r[i].event.at
        <3>1. x.event.at <= q[i + k].event.at  BY <2>1, <2>5 DEF StampsOrdered
        <3> QED  BY <2>1, <3>1
    <2> QED  BY <2>2, <2>3, <2>4, <2>5
<1> QED  BY <1>1, <1>2 DEF StampsOrdered

\* They stay in order when a line is added.
LEMMA StampsGrow ==
    ASSUME NEW S \in SUBSET LineSet, NEW R, NEW x \in LineSet, Adds(R, S, x),
           NEW q \in Seq(Tasks), NEW r \in Seq(Tasks),
           NEW k \in Nat, Moves(q, r, k), NEW n \in Nat, StampsOrdered(S, q, n),
           x.event.at <= n,
           x.source \in {3, 4}
           => \A i \in 1 .. Len(r) : WriteAt(r, i) => x.event.at <= r[i].event.at
    PROVE  StampsOrdered(R, r, n)
<1>1. StampsOrdered(S, r, n)
    <2>1. S \in SUBSET S /\ n <= n  OBVIOUS
    <2> QED  BY <2>1, StampsKeep
<1>2. \A y \in R : y \in S \/ y = x  BY DEF Adds
<1> QED  BY <1>1, <1>2 DEF StampsOrdered

\* They stay in order when a write is asked for.
LEMMA StampsPush ==
    ASSUME NEW S \in SUBSET LineSet, NEW q \in Seq(Tasks), NEW t \in Tasks, NEW n \in Nat,
           StampsOrdered(S, q, n), t.op = "write" => t.event.at = n
    PROVE  StampsOrdered(S, Append(q, t), n)
<1> DEFINE r == Append(q, t)
<1>1. /\ r \in Seq(Tasks) /\ Len(r) = Len(q) + 1 /\ r[Len(q) + 1] = t
      /\ \A i \in 1 .. Len(q) : r[i] = q[i]
      /\ \A i : WriteAt(r, i) <=> WriteAt(q, i) \/ (i = Len(q) + 1 /\ t.op = "write")
    BY AppendIs
<1> HIDE DEF r
<1>2. \A x \in S : x.event.at <= n  BY DEF StampsOrdered
<1>3. ASSUME NEW i \in 1 .. Len(r), WriteAt(r, i)
      PROVE  /\ r[i].event.at <= n
             /\ \A j \in 1 .. Len(r) : WriteAt(r, j) /\ i < j => r[i].event.at <= r[j].event.at
             /\ \A x \in S : x.source \in {3, 4} => x.event.at <= r[i].event.at
    <2>1. CASE WriteAt(q, i)
        <3>1. i \in 1 .. Len(q) /\ r[i] = q[i]  BY <1>1, <2>1 DEF WriteAt
        <3>2. r[i].event.at <= n /\ \A x \in S : x.source \in {3, 4} => x.event.at <= r[i].event.at
            BY <2>1, <3>1 DEF StampsOrdered
        <3>3. ASSUME NEW j \in 1 .. Len(r), WriteAt(r, j), i < j
              PROVE  r[i].event.at <= r[j].event.at
            <4>1. CASE WriteAt(q, j)
                <5>1. j \in 1 .. Len(q) /\ r[j] = q[j]  BY <1>1, <4>1 DEF WriteAt
                <5> QED  BY <2>1, <3>1, <3>3, <4>1, <5>1 DEF StampsOrdered
            <4>2. CASE j = Len(q) + 1 /\ t.op = "write"  BY <1>1, <3>2, <4>2
            <4> QED  BY <1>1, <3>3, <4>1, <4>2
        <3> QED  BY <3>2, <3>3
    <2>2. CASE i = Len(q) + 1 /\ t.op = "write"
        <3>1. r[i].event.at = n  BY <1>1, <2>2
        <3>2. ~\E j \in 1 .. Len(r) : i < j  BY <1>1, <2>2
        <3> QED  BY <1>2, <3>1, <3>2
    <2> QED  BY <1>1, <1>3, <2>1, <2>2
<1> QED  BY <1>2, <1>3 DEF StampsOrdered, r

---------------------------------------------------------------------------
(* The births of chats *)

\* A chat's creation stays first when lines go.
LEMMA BornKeep ==
    ASSUME NEW S \in SUBSET LineSet, NEW T \in SUBSET S, NEW q \in Seq(Tasks), NEW r \in Seq(Tasks),
           NEW k \in Nat, Moves(q, r, k), NEW H, NEW H2, NEW u, NEW u2, u \subseteq u2,
           \A c \in Chats : Blank(H, S, c) => Blank(H2, T, c),
           Born(H, S, q, u)
    PROVE  Born(H2, T, r, u2)
<1>1. CreatedFirst(T)  BY DEF Born, CreatedFirst
<1>2. ASSUME NEW x \in T, NEW i \in 1 .. Len(r), x.event.type = "chat_created", WriteAt(r, i),
             r[i].event.chat = x.event.chat
      PROVE  x.event.at <= r[i].event.at
    <2>1. i + k \in 1 .. Len(q) /\ WriteAt(q, i + k) /\ q[i + k] = r[i]  BY <1>2, MovesIs
    <2> QED  BY <1>2, <2>1 DEF Born
<1>3. ASSUME NEW c \in Chats \ u2
      PROVE  /\ Blank(H2, T, c)
             /\ \A i \in 1 .. Len(r) : WriteAt(r, i) => r[i].event.chat # c
    <2>1. c \in Chats \ u  OBVIOUS
    <2>2. /\ Blank(H, S, c)
          /\ \A i \in 1 .. Len(q) : WriteAt(q, i) => q[i].event.chat # c
        BY <2>1 DEF Born
    <2>3. ASSUME NEW i \in 1 .. Len(r), WriteAt(r, i) PROVE r[i].event.chat # c
        <3>1. i + k \in 1 .. Len(q) /\ WriteAt(q, i + k) /\ q[i + k] = r[i]  BY <2>3, MovesIs
        <3> QED  BY <2>2, <3>1
    <2> QED  BY <2>2, <2>3
<1>4. ASSUME NEW i \in 1 .. Len(r), WriteAt(r, i), r[i].event.type = "chat_created"
      PROVE  /\ r[i].event.chat \in u2 /\ Blank(H2, T, r[i].event.chat)
             /\ \A j \in 1 .. Len(r) : WriteAt(r, j) /\ r[j].event.chat = r[i].event.chat => j = i
    <2>1. i + k \in 1 .. Len(q) /\ WriteAt(q, i + k) /\ q[i + k] = r[i]  BY <1>4, MovesIs
    <2>2. /\ r[i].event.chat \in u /\ Blank(H, S, r[i].event.chat)
          /\ \A j \in 1 .. Len(q) : WriteAt(q, j) /\ q[j].event.chat = r[i].event.chat => j = i + k
        BY <1>4, <2>1 DEF Born
    <2>3. r[i].event.chat \in Chats  BY <1>4, WriteKinds
    <2>4. ASSUME NEW j \in 1 .. Len(r), WriteAt(r, j), r[j].event.chat = r[i].event.chat
          PROVE  j = i
        <3>1. j + k \in 1 .. Len(q) /\ WriteAt(q, j + k) /\ q[j + k] = r[j]  BY <2>4, MovesIs
        <3>2. j + k = i + k  BY <2>2, <2>4, <3>1
        <3> QED  BY <3>2
    <2> QED  BY <2>2, <2>3, <2>4
<1> QED  BY <1>1, <1>2, <1>3, <1>4 DEF Born

\* One more line, or that line lost, about the chat c.
LEMMA BornGrow ==
    ASSUME NEW S \in SUBSET LineSet, NEW R, NEW x, \A y \in R : y \in S \/ y = x,
           NEW c, x.event.chat = c,
           NEW q \in Seq(Tasks), NEW r \in Seq(Tasks),
           NEW k \in Nat, Moves(q, r, k), NEW H, NEW H2, NEW u, NEW u2, u \subseteq u2,
           \A d \in Chats \ {c} : Blank(H, S, d) => Blank(H2, R, d),
           Born(H, S, q, u), CreatedFirst(R), c \in Chats => c \in u2,
           \A i \in 1 .. Len(r) : WriteAt(r, i) /\ r[i].event.type = "chat_created"
                                  => r[i].event.chat # c,
           x.event.type = "chat_created"
           => \A i \in 1 .. Len(r) : WriteAt(r, i) => r[i].event.chat # c
    PROVE  Born(H2, R, r, u2)
<1>2. ASSUME NEW y \in R, NEW i \in 1 .. Len(r), y.event.type = "chat_created", WriteAt(r, i),
             r[i].event.chat = y.event.chat
      PROVE  y.event.at <= r[i].event.at
    <2>1. i + k \in 1 .. Len(q) /\ WriteAt(q, i + k) /\ q[i + k] = r[i]  BY <1>2, MovesIs
    <2>2. y # x  BY <1>2
    <2> QED  BY <1>2, <2>1, <2>2 DEF Born
<1>3. ASSUME NEW d \in Chats \ u2
      PROVE  /\ Blank(H2, R, d)
             /\ \A i \in 1 .. Len(r) : WriteAt(r, i) => r[i].event.chat # d
    <2>1. d \in Chats \ u /\ d # c  OBVIOUS
    <2>2. /\ Blank(H, S, d)
          /\ \A i \in 1 .. Len(q) : WriteAt(q, i) => q[i].event.chat # d
        BY <2>1 DEF Born
    <2>3. ASSUME NEW i \in 1 .. Len(r), WriteAt(r, i) PROVE r[i].event.chat # d
        <3>1. i + k \in 1 .. Len(q) /\ WriteAt(q, i + k) /\ q[i + k] = r[i]  BY <2>3, MovesIs
        <3> QED  BY <2>2, <3>1
    <2> QED  BY <2>1, <2>2, <2>3
<1>4. ASSUME NEW i \in 1 .. Len(r), WriteAt(r, i), r[i].event.type = "chat_created"
      PROVE  /\ r[i].event.chat \in u2 /\ Blank(H2, R, r[i].event.chat)
             /\ \A j \in 1 .. Len(r) : WriteAt(r, j) /\ r[j].event.chat = r[i].event.chat => j = i
    <2>1. i + k \in 1 .. Len(q) /\ WriteAt(q, i + k) /\ q[i + k] = r[i]  BY <1>4, MovesIs
    <2>2. /\ r[i].event.chat \in u /\ Blank(H, S, r[i].event.chat)
          /\ \A j \in 1 .. Len(q) : WriteAt(q, j) /\ q[j].event.chat = r[i].event.chat => j = i + k
        BY <1>4, <2>1 DEF Born
    <2>3. r[i].event.chat \in Chats \ {c}  BY <1>4, WriteKinds
    <2>4. ASSUME NEW j \in 1 .. Len(r), WriteAt(r, j), r[j].event.chat = r[i].event.chat
          PROVE  j = i
        <3>1. j + k \in 1 .. Len(q) /\ WriteAt(q, j + k) /\ q[j + k] = r[j]  BY <2>4, MovesIs
        <3>2. j + k = i + k  BY <2>2, <2>4, <3>1
        <3> QED  BY <3>2
    <2> QED  BY <2>2, <2>3, <2>4
<1> QED  BY <1>2, <1>3, <1>4 DEF Born

\* A task more: if it is a write, then of a chat that is new and comes to be used, or of one
\* that has been spoken of.
LEMMA BornPush ==
    ASSUME NEW S \in SUBSET LineSet, NEW q \in Seq(Tasks), NEW t \in Tasks, NEW n,
           \A x \in S : x.event.at <= n,
           NEW H, NEW u, NEW u2, u \subseteq u2, Born(H, S, q, u),
           t.op = "write" =>
               /\ t.event.at = n
               /\ t.event.type = "chat_created" => t.event.chat \in u2 \ u
               /\ t.event.type # "chat_created" => ~Blank(H, S, t.event.chat)
    PROVE  Born(H, S, Append(q, t), u2)
<1> DEFINE r == Append(q, t)
           l == Len(q) + 1
<1>1. /\ r \in Seq(Tasks) /\ Len(r) = l /\ r[l] = t
      /\ \A i \in 1 .. Len(q) : r[i] = q[i]
      /\ \A i : WriteAt(r, i) <=> WriteAt(q, i) \/ (i = l /\ t.op = "write")
    BY AppendIs
<1>0. \A i : WriteAt(q, i) => i \in 1 .. Len(q)  BY DEF WriteAt
<1>5. Len(q) \in Nat /\ l \in 1 .. l  OBVIOUS
<1>6. t.op = "write" => t.event.chat \in Chats
    BY <1>1, <1>5, WriteKinds
<1> HIDE DEF r, l
<1>2. ASSUME NEW x \in S, NEW i \in 1 .. Len(r), x.event.type = "chat_created", WriteAt(r, i),
             r[i].event.chat = x.event.chat
      PROVE  x.event.at <= r[i].event.at
    <2>1. CASE WriteAt(q, i)
        <3>1. i \in 1 .. Len(q) /\ r[i] = q[i]  BY <1>0, <1>1, <2>1
        <3> QED  BY <1>2, <2>1, <3>1 DEF Born
    <2>2. CASE i = l /\ t.op = "write"  BY <1>1, <2>2
    <2> QED  BY <1>1, <1>2, <2>1, <2>2
<1>3. ASSUME NEW d \in Chats \ u2
      PROVE  /\ Blank(H, S, d)
             /\ \A i \in 1 .. Len(r) : WriteAt(r, i) => r[i].event.chat # d
    <2>1. d \in Chats \ u  OBVIOUS
    <2>2. /\ Blank(H, S, d)
          /\ \A i \in 1 .. Len(q) : WriteAt(q, i) => q[i].event.chat # d
        BY <2>1 DEF Born
    <2>3. ASSUME NEW i \in 1 .. Len(r), WriteAt(r, i) PROVE r[i].event.chat # d
        <3>1. CASE WriteAt(q, i)
            <4>1. i \in 1 .. Len(q) /\ r[i] = q[i]  BY <1>0, <1>1, <3>1
            <4> QED  BY <2>2, <3>1, <4>1
        <3>2. CASE i = l /\ t.op = "write"  BY <1>1, <2>2, <3>2
        <3> QED  BY <1>1, <2>3, <3>1, <3>2
    <2> QED  BY <2>2, <2>3
<1>4. ASSUME NEW i \in 1 .. Len(r), WriteAt(r, i), r[i].event.type = "chat_created"
      PROVE  /\ r[i].event.chat \in u2 /\ Blank(H, S, r[i].event.chat)
             /\ \A j \in 1 .. Len(r) : WriteAt(r, j) /\ r[j].event.chat = r[i].event.chat => j = i
    <2>1. CASE WriteAt(q, i)
        <3>1. i \in 1 .. Len(q) /\ r[i] = q[i]  BY <1>0, <1>1, <2>1
        <3>2. /\ r[i].event.chat \in u /\ Blank(H, S, r[i].event.chat)
              /\ \A j \in 1 .. Len(q) : WriteAt(q, j) /\ q[j].event.chat = r[i].event.chat => j = i
            BY <1>4, <2>1, <3>1 DEF Born
        <3>3. ASSUME NEW j \in 1 .. Len(r), WriteAt(r, j), r[j].event.chat = r[i].event.chat
              PROVE  j = i
            <4>1. CASE WriteAt(q, j)
                <5>1. j \in 1 .. Len(q) /\ r[j] = q[j]  BY <1>0, <1>1, <4>1
                <5> QED  BY <3>2, <3>3, <4>1, <5>1
            <4>2. CASE j = l /\ t.op = "write"  BY <1>1, <3>2, <3>3, <4>2
            <4> QED  BY <1>1, <3>3, <4>1, <4>2
        <3> QED  BY <3>2, <3>3
    <2>2. CASE i = l /\ t.op = "write"
        <3>1. t.event.chat \in u2 \ u /\ t.event.chat \in Chats /\ r[i] = t
            BY <1>1, <1>4, <1>6, <2>2
        <3>2. /\ Blank(H, S, t.event.chat)
              /\ \A j \in 1 .. Len(q) : WriteAt(q, j) => q[j].event.chat # t.event.chat
            BY <3>1 DEF Born
        <3>3. ASSUME NEW j \in 1 .. Len(r), WriteAt(r, j), r[j].event.chat = r[i].event.chat
              PROVE  j = i
            <4>1. CASE WriteAt(q, j)
                <5>1. j \in 1 .. Len(q) /\ r[j] = q[j]  BY <1>0, <1>1, <4>1
                <5> QED  BY <3>1, <3>2, <3>3, <4>1, <5>1
            <4>2. CASE j = l  BY <2>2, <4>2
            <4> QED  BY <1>1, <3>3, <4>1, <4>2
        <3> QED  BY <3>1, <3>2, <3>3
    <2> QED  BY <1>1, <1>4, <2>1, <2>2
<1> QED  BY <1>2, <1>3, <1>4 DEF Born, r

---------------------------------------------------------------------------
(* Messages are sent once *)

LEMMA AboutMoves ==
    ASSUME NEW q, NEW r, NEW k \in Nat, Moves(q, r, k), NEW i, NEW m, About(r, i, m)
    PROVE  /\ i \in 1 .. Len(r) /\ i + k \in 1 .. Len(q) /\ About(q, i + k, m)
<1>1. WriteAt(r, i)  BY DEF About
<1>2. i \in 1 .. Len(r) /\ i + k \in 1 .. Len(q) /\ WriteAt(q, i + k) /\ q[i + k] = r[i]
    BY <1>1, MovesIs
<1> QED  BY <1>2 DEF About

\* A message stays sent once when lines go.
LEMMA SentKeep ==
    ASSUME NEW S \in SUBSET LineSet, NEW T \in SUBSET S, NEW q \in Seq(Tasks), NEW r \in Seq(Tasks),
           NEW k \in Nat, Moves(q, r, k), NEW H, NEW H2, NEW u, NEW u2, u \subseteq u2,
           \A st \in H2, c \in Chats : Distinct(st.queue[c]),
           \A m \in Msgs : Absent(H, S, m) => Absent(H2, T, m),
           SentOnce(H, S, q, u)
    PROVE  SentOnce(H2, T, r, u2)
<1>1. EnqueuedFirst(T)  BY DEF SentOnce, EnqueuedFirst
<1>3. ASSUME NEW m \in Msgs \ u2
      PROVE  Absent(H2, T, m) /\ \A i \in 1 .. Len(r) : ~About(r, i, m)
    <2>1. m \in Msgs \ u  OBVIOUS
    <2>2. Absent(H, S, m) /\ \A i \in 1 .. Len(q) : ~About(q, i, m)  BY <2>1 DEF SentOnce
    <2>3. ASSUME NEW i \in 1 .. Len(r), About(r, i, m) PROVE FALSE
        BY <2>2, <2>3, AboutMoves
    <2> QED  BY <2>2, <2>3
<1>4. ASSUME NEW i \in 1 .. Len(r), WriteAt(r, i), r[i].event.type = "queued_message_enqueued"
      PROVE  /\ r[i].event.value \in u2 /\ Absent(H2, T, r[i].event.value)
             /\ \A j \in 1 .. Len(r) : About(r, j, r[i].event.value) => j = i
    <2>1. i + k \in 1 .. Len(q) /\ WriteAt(q, i + k) /\ q[i + k] = r[i]  BY <1>4, MovesIs
    <2> DEFINE m == r[i].event.value
    <2>2. /\ m \in u /\ Absent(H, S, m)
          /\ \A j \in 1 .. Len(q) : About(q, j, m) => j = i + k
        BY <1>4, <2>1 DEF SentOnce
    <2>3. m \in Msgs
        <3>1. r[i].event \in Events  BY <1>4, WriteKinds
        <3> QED  BY <1>4, <3>1, EventKinds DEF QueueTypes
    <2> HIDE DEF m
    <2>4. ASSUME NEW j \in 1 .. Len(r), About(r, j, m) PROVE j = i
        <3>1. j + k \in 1 .. Len(q) /\ About(q, j + k, m)  BY <2>4, AboutMoves
        <3>2. j + k = i + k  BY <2>2, <3>1
        <3> QED  BY <3>2
    <2>5. m \in u2 /\ Absent(H2, T, m)  BY <2>2, <2>3
    <2> QED  BY <2>4, <2>5 DEF m
<1> QED  BY <1>1, <1>3, <1>4 DEF SentOnce

\* The chain sends a message no more.
NoSending(q, m) ==
    \A i \in 1 .. Len(q) : WriteAt(q, i) /\ q[i].event.type = "queued_message_enqueued"
                           => q[i].event.value # m

\* One more line, or that line lost, about the message v.
LEMMA SentGrow ==
    ASSUME NEW S, NEW R, NEW v,
           NEW q \in Seq(Tasks), NEW r \in Seq(Tasks),
           NEW k \in Nat, Moves(q, r, k), NEW H, NEW H2, NEW u, NEW u2, u \subseteq u2,
           \A st \in H2, c \in Chats : Distinct(st.queue[c]),
           \A m \in Msgs \ {v} : Absent(H, S, m) => Absent(H2, R, m),
           SentOnce(H, S, q, u), EnqueuedFirst(R), v \in Msgs => v \in u2,
           NoSending(r, v)
    PROVE  SentOnce(H2, R, r, u2)
<1>3. ASSUME NEW m \in Msgs \ u2
      PROVE  Absent(H2, R, m) /\ \A i \in 1 .. Len(r) : ~About(r, i, m)
    <2>1. m \in Msgs \ u /\ m \in Msgs \ {v}  OBVIOUS
    <2>2. Absent(H, S, m) /\ \A i \in 1 .. Len(q) : ~About(q, i, m)  BY <2>1 DEF SentOnce
    <2>3. ASSUME NEW i \in 1 .. Len(r), About(r, i, m) PROVE FALSE
        BY <2>2, <2>3, AboutMoves
    <2> QED  BY <2>1, <2>2, <2>3
<1>4. ASSUME NEW i \in 1 .. Len(r), WriteAt(r, i), r[i].event.type = "queued_message_enqueued"
      PROVE  /\ r[i].event.value \in u2 /\ Absent(H2, R, r[i].event.value)
             /\ \A j \in 1 .. Len(r) : About(r, j, r[i].event.value) => j = i
    <2>1. i + k \in 1 .. Len(q) /\ WriteAt(q, i + k) /\ q[i + k] = r[i]  BY <1>4, MovesIs
    <2> DEFINE m == r[i].event.value
    <2>2. /\ m \in u /\ Absent(H, S, m)
          /\ \A j \in 1 .. Len(q) : About(q, j, m) => j = i + k
        BY <1>4, <2>1 DEF SentOnce
    <2>3. m \in Msgs \ {v}
        <3>1. r[i].event \in Events  BY <1>4, WriteKinds
        <3> QED  BY <1>4, <3>1, EventKinds DEF QueueTypes, NoSending
    <2> HIDE DEF m
    <2>4. ASSUME NEW j \in 1 .. Len(r), About(r, j, m) PROVE j = i
        <3>1. j + k \in 1 .. Len(q) /\ About(q, j + k, m)  BY <2>4, AboutMoves
        <3>2. j + k = i + k  BY <2>2, <3>1
        <3> QED  BY <3>2
    <2>5. m \in u2 /\ Absent(H2, R, m)  BY <2>2, <2>3
    <2> QED  BY <2>4, <2>5 DEF m
<1> QED  BY <1>3, <1>4 DEF SentOnce

\* A task more: if it sends a message then a new one, if it removes one then one that was sent.
LEMMA SentPush ==
    ASSUME NEW S, NEW q \in Seq(Tasks), NEW t \in Tasks,
           NEW H, NEW u, NEW u2, u \subseteq u2, SentOnce(H, S, q, u),
           t.op = "write" =>
               /\ t.event.type = "queued_message_enqueued" => t.event.value \in u2 \ u
               /\ t.event.type = "queued_message_removed" => ~Absent(H, S, t.event.value)
    PROVE  SentOnce(H, S, Append(q, t), u2)
<1> DEFINE r == Append(q, t)
           l == Len(q) + 1
<1>1. /\ r \in Seq(Tasks) /\ Len(r) = l /\ r[l] = t
      /\ \A i \in 1 .. Len(q) : r[i] = q[i]
      /\ \A i : WriteAt(r, i) <=> WriteAt(q, i) \/ (i = l /\ t.op = "write")
    BY AppendIs
<1>0. \A i : WriteAt(q, i) => i \in 1 .. Len(q)  BY DEF WriteAt
<1>5. Len(q) \in Nat /\ l \in 1 .. l  OBVIOUS
<1>6. t.op = "write" /\ t.event.type \in QueueTypes => t.event.value \in Msgs
    <2>1. t.op = "write" => t.event \in Events  BY <1>1, <1>5, WriteKinds
    <2> QED  BY <2>1, EventKinds
<1> HIDE DEF r, l
<1>7. ASSUME NEW i, NEW m, About(r, i, m)
      PROVE  \/ i \in 1 .. Len(q) /\ r[i] = q[i] /\ About(q, i, m)
             \/ i = l /\ t.op = "write" /\ t.event.type \in QueueTypes /\ t.event.value = m
    <2>1. WriteAt(r, i)  BY <1>7 DEF About
    <2>2. CASE WriteAt(q, i)
        <3>1. i \in 1 .. Len(q) /\ r[i] = q[i]  BY <1>0, <1>1, <2>2
        <3> QED  BY <1>7, <2>2, <3>1 DEF About
    <2>3. CASE i = l /\ t.op = "write"  BY <1>1, <1>7, <2>3 DEF About
    <2> QED  BY <1>1, <2>1, <2>2, <2>3
<1>3. ASSUME NEW m \in Msgs \ u2
      PROVE  Absent(H, S, m) /\ \A i \in 1 .. Len(r) : ~About(r, i, m)
    <2>1. m \in Msgs \ u  OBVIOUS
    <2>2. Absent(H, S, m) /\ \A i \in 1 .. Len(q) : ~About(q, i, m)  BY <2>1 DEF SentOnce
    <2>3. ASSUME NEW i \in 1 .. Len(r), About(r, i, m) PROVE FALSE
        BY <1>7, <2>2, <2>3 DEF QueueTypes
    <2> QED  BY <2>2, <2>3
<1>4. ASSUME NEW i \in 1 .. Len(r), WriteAt(r, i), r[i].event.type = "queued_message_enqueued"
      PROVE  /\ r[i].event.value \in u2 /\ Absent(H, S, r[i].event.value)
             /\ \A j \in 1 .. Len(r) : About(r, j, r[i].event.value) => j = i
    <2>1. CASE WriteAt(q, i)
        <3>1. i \in 1 .. Len(q) /\ r[i] = q[i]  BY <1>0, <1>1, <2>1
        <3> DEFINE m == r[i].event.value
        <3>2. /\ m \in u /\ Absent(H, S, m)
              /\ \A j \in 1 .. Len(q) : About(q, j, m) => j = i
            BY <1>4, <2>1, <3>1 DEF SentOnce
        <3> HIDE DEF m
        <3>3. ASSUME NEW j \in 1 .. Len(r), About(r, j, m) PROVE j = i
            BY <1>7, <3>2, <3>3 DEF QueueTypes
        <3> QED  BY <3>2, <3>3 DEF m
    <2>2. CASE i = l /\ t.op = "write"
        <3> DEFINE m == t.event.value
        <3>1. m \in u2 \ u /\ m \in Msgs /\ r[i] = t
            BY <1>1, <1>4, <1>6, <2>2 DEF QueueTypes
        <3> HIDE DEF m
        <3>2. Absent(H, S, m) /\ \A j \in 1 .. Len(q) : ~About(q, j, m)
            BY <3>1 DEF SentOnce
        <3>3. ASSUME NEW j \in 1 .. Len(r), About(r, j, m) PROVE j = i
            BY <1>7, <2>2, <3>2, <3>3
        <3> QED  BY <3>1, <3>2, <3>3 DEF m
    <2> QED  BY <1>1, <1>4, <2>1, <2>2
<1> QED  BY <1>3, <1>4 DEF SentOnce, r

---------------------------------------------------------------------------
(* The project comes first *)

\* The opening of the project stays first when lines go.
LEMMA OpeningKeep ==
    ASSUME NEW S \in SUBSET LineSet, NEW T \in SUBSET S, NEW q, NEW r,
           NEW k \in Nat, Moves(q, r, k), ProjectFirst(S, q)
    PROVE  ProjectFirst(T, r)
<1>1. OpenedFirst(T)  BY DEF ProjectFirst, OpenedFirst
<1>2. ASSUME NEW x \in T, NEW i \in 1 .. Len(r), x.event.type = "project_draft_opened", WriteAt(r, i)
      PROVE  x.event.at <= r[i].event.at
    <2>1. i + k \in 1 .. Len(q) /\ WriteAt(q, i + k) /\ q[i + k] = r[i]  BY <1>2, MovesIs
    <2> QED  BY <1>2, <2>1 DEF ProjectFirst
<1> QED  BY <1>1, <1>2 DEF ProjectFirst

\* It stays first when a line is added.
LEMMA OpeningGrow ==
    ASSUME NEW S, NEW R, NEW x, \A y \in R : y \in S \/ y = x, NEW q, NEW r,
           NEW k \in Nat, Moves(q, r, k), ProjectFirst(S, q), OpenedFirst(R),
           x.event.type = "project_draft_opened" => \A i \in 1 .. Len(q) : ~WriteAt(q, i)
    PROVE  ProjectFirst(R, r)
<1>2. ASSUME NEW y \in R, NEW i \in 1 .. Len(r), y.event.type = "project_draft_opened", WriteAt(r, i)
      PROVE  y.event.at <= r[i].event.at
    <2>1. i + k \in 1 .. Len(q) /\ WriteAt(q, i + k) /\ q[i + k] = r[i]  BY <1>2, MovesIs
    <2>2. y \in S  BY <1>2, <2>1
    <2> QED  BY <1>2, <2>1, <2>2 DEF ProjectFirst
<1> QED  BY <1>2 DEF ProjectFirst

\* It stays first when a write is asked for.
LEMMA OpeningPush ==
    ASSUME NEW S, NEW q \in Seq(Tasks), NEW t \in Tasks, ProjectFirst(S, q), NEW n,
           \A x \in S : x.event.at <= n, t.op = "write" => t.event.at = n
    PROVE  ProjectFirst(S, Append(q, t))
<1> DEFINE r == Append(q, t)
           l == Len(q) + 1
<1>1. /\ Len(r) = l /\ r[l] = t
      /\ \A i \in 1 .. Len(q) : r[i] = q[i]
      /\ \A i : WriteAt(r, i) <=> WriteAt(q, i) \/ (i = l /\ t.op = "write")
    BY AppendIs
<1>0. \A i : WriteAt(q, i) => i \in 1 .. Len(q)  BY DEF WriteAt
<1> HIDE DEF r, l
<1>2. ASSUME NEW x \in S, NEW i \in 1 .. Len(r), x.event.type = "project_draft_opened", WriteAt(r, i)
      PROVE  x.event.at <= r[i].event.at
    <2>1. CASE WriteAt(q, i)
        <3>1. i \in 1 .. Len(q) /\ r[i] = q[i]  BY <1>0, <1>1, <2>1
        <3> QED  BY <1>2, <2>1, <3>1 DEF ProjectFirst
    <2>2. CASE i = l /\ t.op = "write"  BY <1>1, <2>2
    <2> QED  BY <1>1, <1>2, <2>1, <2>2
<1> QED  BY <1>2 DEF ProjectFirst, r

LEMMA VirginKeep ==
    ASSUME NEW S, NEW T \in SUBSET S, NEW q, NEW r, NEW k \in Nat, Moves(q, r, k),
           NEW H, NEW H2, NEW u, NEW u2, u \subseteq u2,
           S = {} /\ (\A st \in H : st.project = "none" /\ \A c \in Chats : ~Known(st, c))
           => \A st \in H2 : st.project = "none" /\ \A c \in Chats : ~Known(st, c),
           Virgin(H, S, q, u)
    PROVE  Virgin(H2, T, r, u2)
<1> SUFFICES ASSUME "project" \notin u2
             PROVE  /\ \A st \in H2 : st.project = "none" /\ \A c \in Chats : ~Known(st, c)
                    /\ T = {}
                    /\ \A i \in 1 .. Len(r) : ~WriteAt(r, i)
    BY DEF Virgin
<1>1. /\ \A st \in H : st.project = "none" /\ \A c \in Chats : ~Known(st, c)
      /\ S = {}
      /\ \A i \in 1 .. Len(q) : ~WriteAt(q, i)
    BY DEF Virgin
<1>2. ASSUME NEW i \in 1 .. Len(r), WriteAt(r, i) PROVE FALSE
    BY <1>1, <1>2, MovesIs
<1> QED  BY <1>1, <1>2

---------------------------------------------------------------------------
(* The parts of the invariant, step by step *)

\* An absent image is an empty store.
LEMMA LoadedType ==
    ASSUME NEW image \in States \cup {NoValue}
    PROVE  Loaded(image) \in States /\ (image \in States => Loaded(image) = image)
<1>1. Nothing \in States
    <2>1. Nothing.chats \in [Chats -> ChatRecord \cup {NoValue}]
        BY DEF Nothing
    <2>2. Nothing.queue \in [Chats -> Seq(Msgs)]
        BY EmptySeq DEF Nothing
    <2> QED  BY <2>1, <2>2 DEF Nothing, States
<1> QED  BY <1>1, AbsentAssumption DEF Loaded

\* What is known of the store's variables.
LEMMA TypedIs ==
    ASSUME Typed
    PROVE  /\ GoodLog(log) /\ Lines = Logged(log) /\ Journal(Lines) /\ Lines \in SUBSET LineSet
           /\ Held \in SUBSET States /\ mem \in Held /\ Loaded(snap) \in Held
           /\ Loaded(bak) \in Held
           /\ chain \in Seq(Tasks) /\ now \in Nat
<1>1. GoodLog(log)
    BY DEF Typed, GoodLog
<1>2. Lines = Logged(log)
    BY LinesAre
<1>3. Journal(Logged(log))
    BY <1>1, LoggedJournal
<1>4. Journal(Lines) /\ Lines \in SUBSET LineSet
    BY <1>2, <1>3 DEF Journal
<1>5. mem \in States /\ Loaded(snap) \in States /\ Loaded(bak) \in States
    BY LoadedType DEF Typed
<1>6. now \in Nat /\ chain \in Seq(Tasks)
    BY BoundAssumption DEF Typed
<1> QED  BY <1>1, <1>2, <1>4, <1>5, <1>6 DEF Held

\* Nothing new is written and nothing new is held.
LEMMA OrderedKeep ==
    ASSUME Typed, Typed', Ordered, Staged', Lines' \in SUBSET Lines,
           NEW k \in Nat, Moves(chain, chain', k), now <= now', used \subseteq used',
           Held' \subseteq Held
    PROVE  Ordered'
<1>1. /\ Lines \in SUBSET LineSet /\ Held \in SUBSET States
      /\ chain \in Seq(Tasks) /\ chain' \in Seq(Tasks) /\ now \in Nat /\ now' \in Nat
    BY TypedIs, BoundAssumption, SMTT(60) DEF Typed
<1>2. StampsOrdered(Lines', chain', now')
    BY <1>1, StampsKeep DEF Ordered
<1>3. Born(Held', Lines', chain', used')
    <2>1. \A c \in Chats : Blank(Held, Lines, c) => Blank(Held', Lines', c)
        BY DEF Blank
    <2> QED  BY <1>1, <2>1, BornKeep DEF Ordered
<1>4. SentOnce(Held', Lines', chain', used')
    <2>1. \A m \in Msgs : Absent(Held, Lines, m) => Absent(Held', Lines', m)
        BY DEF Absent
    <2>2. \A st \in Held', c \in Chats : Distinct(st.queue[c])
        BY DEF Ordered, SentOnce
    <2> QED  BY <1>1, <2>1, <2>2, SentKeep DEF Ordered
<1>5. Virgin(Held', Lines', chain', used')
    <2>1. Virgin(Held, Lines, chain, used)
        BY DEF Ordered
    <2>2. (\A st \in Held : st.project = "none" /\ \A c \in Chats : ~Known(st, c))
          => \A st \in Held' : st.project = "none" /\ \A c \in Chats : ~Known(st, c)
        OBVIOUS
    <2> HIDE DEF Held
    <2> QED  BY <2>1, <2>2, VirginKeep
<1>6. ProjectFirst(Lines', chain')
    BY <1>1, OpeningKeep DEF Ordered
<1> QED  BY <1>2, <1>3, <1>4, <1>5, <1>6 DEF Ordered

\* What is told of the lines when neither they nor the store's state change.
LEMMA ToldKeep ==
    ASSUME Told, Remembers, mem' = mem, log' = log, lost' = lost, left' = left, snap' = snap,
           bak' = bak, DraftsBegun'
    PROVE  Told' /\ Remembers'
<1>1. Lines' = Lines
    BY DEF Lines
<1>2. AllSettled' /\ PromotionsFirst' /\ DraftOver'
    BY <1>1 DEF Told, AllSettled, PromotionsFirst, DraftOver
<1>3. Remembers'
    BY <1>1 DEF Remembers, Kept, HalfTruncated
<1> QED  BY <1>2, <1>3 DEF Told

---------------------------------------------------------------------------
(* The stages of the chain *)

LEMMA TailIs ==
    ASSUME NEW q \in Seq(Tasks), q # <<>>
    PROVE  /\ Tail(q) \in Seq(Tasks) /\ Head(q) = q[1] /\ Len(Tail(q)) = Len(q) - 1
           /\ Len(q) \in Nat \ {0}
           /\ \A i \in 1 .. Len(q) - 1 : Tail(q)[i] = q[i + 1]
OBVIOUS

StagesAlone(q) == \A i \in 2 .. Len(q) : q[i].op \notin {"backup", "truncate"}
StartsOnly(q) ==
    \A i \in 1 .. Len(q) :
        q[i].op \in {"discard", "discard project", "compact", "backup", "truncate"}

LEMMA StagesTail ==
    ASSUME NEW q \in Seq(Tasks), q # <<>>, StagesAlone(q)
    PROVE  /\ StagesAlone(Tail(q))
           /\ \A i \in 1 .. Len(Tail(q)) : Tail(q)[i].op \notin {"backup", "truncate"}
           /\ StartsOnly(q) => StartsOnly(Tail(q))
<1> DEFINE r == Tail(q)
<1>1. /\ Len(r) = Len(q) - 1 /\ Len(q) \in Nat \ {0}
      /\ \A i \in 1 .. Len(q) - 1 : r[i] = q[i + 1]
    BY TailIs
<1> HIDE DEF r
<1>2. \A i \in 1 .. Len(r) : i + 1 \in 2 .. Len(q) /\ i + 1 \in 1 .. Len(q) /\ r[i] = q[i + 1]
    BY <1>1
<1>3. \A i \in 1 .. Len(r) : r[i].op \notin {"backup", "truncate"}
    BY <1>2 DEF StagesAlone
<1>4. StagesAlone(r)
    BY <1>1, <1>3 DEF StagesAlone
<1>5. StartsOnly(q) => StartsOnly(r)
    BY <1>2 DEF StartsOnly
<1> QED  BY <1>3, <1>4, <1>5 DEF r

LEMMA StagesGo ==
    ASSUME NEW q \in Seq(Tasks), q # <<>>, StagesAlone(q), NEW op, NEW r, Goes(q, r, op)
    PROVE  /\ StagesAlone(r) /\ r # <<>> /\ r[1].op = op
           /\ StartsOnly(q) /\ r[1].op \in {"discard project", "backup", "truncate"}
              => StartsOnly(r)
<1>1. /\ Len(r) = Len(q) /\ r # <<>> /\ Len(q) \in Nat
      /\ \A i \in 2 .. Len(q) : r[i] = q[i]
    BY GoesIs
<1>2. r[1].op = op
    <2>1. r[1] = Task(op, q[1].chat, q[1].event)
        BY GoesIs
    <2> QED  BY <2>1 DEF Task
<1>3. StagesAlone(r)
    BY <1>1 DEF StagesAlone
<1>4. \A i \in 1 .. Len(r) : i = 1 \/ (i \in 1 .. Len(q) /\ r[i] = q[i])
    BY <1>1
<1>5. StartsOnly(q) /\ r[1].op \in {"discard project", "backup", "truncate"} => StartsOnly(r)
    BY <1>4 DEF StartsOnly
<1> QED  BY <1>1, <1>2, <1>3, <1>5

\* A stage of compaction stays at the head of the chain when a task is done.
LEMMA StagedTail ==
    ASSUME Typed, Staged, chain # <<>>, chain' = Tail(chain), left' = Logs, up' = up
    PROVE  Staged'
<1>1. chain \in Seq(Tasks) /\ StagesAlone(chain) /\ (~up => StartsOnly(chain))
    BY DEF Typed, Staged, StagesAlone, StartsOnly
<1>2. /\ StagesAlone(chain') /\ (StartsOnly(chain) => StartsOnly(chain'))
      /\ \A i \in 1 .. Len(chain') : chain'[i].op \notin {"backup", "truncate"}
    BY <1>1, StagesTail
<1>3. chain' \in Seq(Tasks)
    BY <1>1, TailIs
<1>4. chain' # <<>> => chain'[1].op \notin {"backup", "truncate"}
    BY <1>2, <1>3
<1>5. ~At("backup")' /\ ~At("truncate")'
    BY <1>4 DEF At
<1> QED  BY <1>1, <1>2, <1>5 DEF Staged, StagesAlone, StartsOnly

\* It stays there when the task goes on to the next stage.
LEMMA StagedGoes ==
    ASSUME Typed, Staged, chain # <<>>, NEW op, Goes(chain, chain', op),
           left' = Logs, up' = up,
           chain'[1].op \in {"discard project", "backup", "truncate"},
           chain'[1].op # "discard project" => snap' = mem',
           chain'[1].op = "truncate" => bak' = mem'
    PROVE  Staged'
<1>1. chain \in Seq(Tasks) /\ StagesAlone(chain) /\ (~up => StartsOnly(chain))
    BY DEF Typed, Staged, StagesAlone, StartsOnly
<1>2. /\ StagesAlone(chain') /\ (StartsOnly(chain) => StartsOnly(chain'))
    BY <1>1, StagesGo
<1>3. (At("backup")' => chain'[1].op = "backup") /\ (At("truncate")' => chain'[1].op = "truncate")
    BY DEF At
<1> QED  BY <1>1, <1>2, <1>3 DEF Staged, StagesAlone, StartsOnly

\* It stays there when a task is asked for.
LEMMA StagedPush ==
    ASSUME Typed, Staged, NEW t \in Tasks, t.op \notin {"backup", "truncate"}, up,
           chain' = Append(chain, t), UNCHANGED <<disk, mem, left, up>>
    PROVE  Staged'
<1>1. chain \in Seq(Tasks) /\ Len(chain) \in Nat
    BY DEF Typed
<1>2. /\ Len(chain') = Len(chain) + 1 /\ chain'[Len(chain) + 1] = t
      /\ \A i \in 1 .. Len(chain) : chain'[i] = chain[i]
    BY <1>1, AppendIs
<1>3. \A i \in 2 .. Len(chain') : chain'[i].op \notin {"backup", "truncate"}
    BY <1>1, <1>2 DEF Staged
<1>4. (At("backup")' => At("backup")) /\ (At("truncate")' <=> At("truncate"))
    <2>1. CASE chain = <<>>
        BY <2>1, <1>1, <1>2 DEF At
    <2>2. CASE chain # <<>>
        BY <2>2, <1>1, <1>2 DEF At
    <2> QED  BY <2>1, <2>2
<1> QED  BY <1>3, <1>4 DEF Staged, disk

\* Before the last stage of a compaction every log is there.
LEMMA AllThere ==
    ASSUME Staged, ~At("truncate")
    PROVE  left = Logs
BY DEF Staged

---------------------------------------------------------------------------
(* The drafts a start discards *)

LEMMA DiscardTail ==
    ASSUME Typed, chain # <<>>, chain' = Tail(chain), up' = up, NEW c, ToDiscard(c),
           ~(chain[1].op = "discard" /\ chain[1].chat = c)
    PROVE  ToDiscard(c)'
<1>1. chain \in Seq(Tasks)
    BY DEF Typed
<1>2. /\ Len(chain') = Len(chain) - 1 /\ Len(chain) \in Nat \ {0}
      /\ \A i \in 1 .. Len(chain) - 1 : chain'[i] = chain[i + 1]
    BY <1>1, TailIs
<1>3. PICK i \in 1 .. Len(chain) : chain[i].op = "discard" /\ chain[i].chat = c
    BY DEF ToDiscard
<1>4. i - 1 \in 1 .. Len(chain') /\ chain'[i - 1] = chain[i]
    BY <1>2, <1>3
<1> QED  BY <1>3, <1>4 DEF ToDiscard

LEMMA DiscardGoes ==
    ASSUME Typed, chain # <<>>, NEW op, Goes(chain, chain', op), up' = up, NEW c, ToDiscard(c),
           ~(chain[1].op = "discard" /\ chain[1].chat = c)
    PROVE  ToDiscard(c)'
<1>1. chain \in Seq(Tasks)
    BY DEF Typed
<1>2. /\ Len(chain') = Len(chain)
      /\ \A i \in 2 .. Len(chain) : chain'[i] = chain[i]
    BY <1>1, GoesIs
<1>3. PICK i \in 1 .. Len(chain) : chain[i].op = "discard" /\ chain[i].chat = c
    BY DEF ToDiscard
<1>4. i \in 2 .. Len(chain)
    BY <1>1, <1>3
<1> QED  BY <1>2, <1>3, <1>4 DEF ToDiscard

\* The drafts that the log began or a start discards, when the lines stay.
LEMMA DraftsKeep ==
    ASSUME DraftsBegun, mem' = mem, log' = log, lost' = lost, left' = left,
           \A c \in Chats : Known(mem, c) /\ mem.chats[c].draft /\ ToDiscard(c) => ToDiscard(c)'
    PROVE  DraftsBegun'
<1>1. Lines' = Lines
    BY DEF Lines
<1> QED  BY <1>1 DEF DraftsBegun, Known

---------------------------------------------------------------------------
(* Steps that write nothing *)

LEMMA FrameTyped ==
    ASSUME Typed, mem' = mem, snap' = snap, bak' = bak, log' = log, torn' = torn, lost' = lost,
           left' = left, up' \in BOOLEAN, crashes' = crashes, IsFiniteSet(used'),
           now' \in 0 .. MaxTime, calls' \in 0 .. MaxCalls, chain' \in Seq(Tasks)
    PROVE  Typed'
BY DEF Typed

\* A task that finds nothing to do keeps the invariant.
LEMMA SkipStep ==
    ASSUME Invariant, chain # <<>>, Skip, ~At("truncate"), UNCHANGED <<left, now, up, calls, crashes>>,
           chain[1].op = "discard"
           => ~(Known(mem, chain[1].chat) /\ mem.chats[chain[1].chat].draft)
    PROVE  Invariant'
<1>1. /\ chain' = Tail(chain) /\ mem' = mem /\ log' = log /\ torn' = torn /\ lost' = lost
      /\ snap' = snap /\ bak' = bak /\ used' = used
    BY DEF Skip, Done, disk
<1>2. chain \in Seq(Tasks) /\ chain' \in Seq(Tasks) /\ now \in Nat
    BY <1>1, TailIs, TypedIs DEF Invariant
<1>3. Typed'
    BY <1>1, <1>2, FrameTyped DEF Invariant, Typed
<1>4. left = Logs
    BY AllThere DEF Invariant, Ordered
<1>5. Staged'
    BY <1>1, <1>4, StagedTail DEF Invariant, Ordered
<1>6. Lines' = Lines /\ Held' = Held
    BY <1>1 DEF Lines, Held
<1>7. Moves(chain, chain', 1)
    BY <1>1, <1>2, MovesTail
<1>8. Ordered'
    BY <1>2, <1>3, <1>5, <1>6, <1>7, <1>1, OrderedKeep DEF Invariant
<1>9. DraftsBegun'
    <2>1. \A c \in Chats : Known(mem, c) /\ mem.chats[c].draft /\ ToDiscard(c) => ToDiscard(c)'
        BY <1>1, DiscardTail DEF Invariant
    <2> QED  BY <2>1, <1>1, DraftsKeep DEF Invariant, Told
<1> QED  BY <1>1, <1>3, <1>8, <1>9, ToldKeep DEF Invariant

\* The clock keeps the invariant.
LEMMA TickStep ==
    ASSUME Invariant, Tick
    PROVE  Invariant'
<1>1. /\ chain' = chain /\ mem' = mem /\ log' = log /\ torn' = torn /\ lost' = lost
      /\ snap' = snap /\ bak' = bak /\ used' = used /\ left' = left /\ up' = up
      /\ calls' = calls /\ crashes' = crashes /\ now' = now + 1 /\ now < MaxTime
    BY DEF Tick, disk
<1>2. chain \in Seq(Tasks) /\ now \in Nat /\ MaxTime \in Nat
    BY TypedIs, BoundAssumption DEF Invariant
<1>3. Typed'
    BY <1>1, <1>2, FrameTyped DEF Invariant, Typed
<1>4. Staged'
    BY <1>1 DEF Invariant, Ordered, Staged, At
<1>5. Lines' = Lines /\ Held' = Held
    BY <1>1 DEF Lines, Held
<1>6. Moves(chain, chain', 0)
    BY <1>1, MovesNot
<1>7. Ordered'
    BY <1>1, <1>2, <1>3, <1>4, <1>5, <1>6, OrderedKeep DEF Invariant
<1>8. DraftsBegun'
    BY <1>1, DraftsKeep DEF Invariant, Told, ToDiscard
<1> QED  BY <1>1, <1>3, <1>7, <1>8, ToldKeep DEF Invariant

\* The end of a start keeps the invariant.
LEMMA ServeStep ==
    ASSUME Invariant, Serve
    PROVE  Invariant'
<1>1. /\ chain' = chain /\ mem' = mem /\ log' = log /\ torn' = torn /\ lost' = lost
      /\ snap' = snap /\ bak' = bak /\ used' = used /\ left' = left /\ up' = TRUE
      /\ calls' = calls /\ crashes' = crashes /\ now' = now /\ chain = <<>>
    BY DEF Serve, disk
<1>2. chain \in Seq(Tasks) /\ now \in Nat
    BY TypedIs DEF Invariant
<1>3. Typed'
    BY <1>1, <1>2, FrameTyped DEF Invariant, Typed
<1>4. Staged'
    BY <1>1 DEF Invariant, Ordered, Staged, At
<1>5. Lines' = Lines /\ Held' = Held
    BY <1>1 DEF Lines, Held
<1>6. Moves(chain, chain', 0)
    BY <1>1, MovesNot
<1>7. Ordered'
    BY <1>1, <1>2, <1>3, <1>4, <1>5, <1>6, OrderedKeep DEF Invariant
<1>8. DraftsBegun'
    <2>1. \A c \in Chats : ~ToDiscard(c)
        BY <1>1, <1>2 DEF ToDiscard
    <2> QED  BY <1>1, <2>1, DraftsKeep DEF Invariant, Told
<1> QED  BY <1>1, <1>3, <1>7, <1>8, ToldKeep DEF Invariant

---------------------------------------------------------------------------
(* Requests *)

LEMMA VirginPush ==
    ASSUME NEW S, NEW q \in Seq(Tasks), NEW t \in Tasks, NEW H, NEW u, NEW u2, u \subseteq u2,
           Virgin(H, S, q, u), t.op = "write" => "project" \in u
    PROVE  Virgin(H, S, Append(q, t), u2)
<1> DEFINE r == Append(q, t)
<1>1. \A i \in 1 .. Len(r) : WriteAt(r, i) => (i \in 1 .. Len(q) /\ WriteAt(q, i)) \/ t.op = "write"
    BY AppendIs DEF WriteAt
<1> HIDE DEF r
<1>2. Virgin(H, S, r, u2)
    BY <1>1 DEF Virgin
<1> QED  BY <1>2 DEF r

\* A request keeps the invariant.
LEMMA PushStep ==
    ASSUME Invariant, NEW t \in Tasks, Push(t), t.op \notin {"backup", "truncate"},
           used \subseteq used', IsFiniteSet(used'),
           t.op = "write" =>
               /\ "project" \in used /\ t.event.at = now
               /\ t.event.type = "chat_created" => t.event.chat \in used' \ used
               /\ t.event.type # "chat_created" => ~Blank(Held, Lines, t.event.chat)
               /\ t.event.type = "queued_message_enqueued" => t.event.value \in used' \ used
               /\ t.event.type = "queued_message_removed"
                  => ~Absent(Held, Lines, t.event.value)
    PROVE  Invariant'
<1>1. /\ chain' = Append(chain, t) /\ mem' = mem /\ log' = log /\ torn' = torn /\ lost' = lost
      /\ snap' = snap /\ bak' = bak /\ left' = left /\ up' = up /\ up
      /\ calls' = calls + 1 /\ calls < MaxCalls /\ crashes' = crashes /\ now' = now
    BY DEF Push, disk
<1>2. /\ chain \in Seq(Tasks) /\ now \in Nat /\ MaxCalls \in Nat
      /\ Lines \in SUBSET LineSet
    BY TypedIs, BoundAssumption DEF Invariant
<1>3. chain' \in Seq(Tasks)
    BY <1>1, <1>2, AppendIs
<1>4. Typed'
    <2>1. calls' \in 0 .. MaxCalls /\ now' \in 0 .. MaxTime /\ up' \in BOOLEAN
        BY <1>1, <1>2 DEF Invariant, Typed
    <2> QED  BY <1>1, <1>3, <2>1, FrameTyped DEF Invariant
<1>5. Staged'
    BY <1>1, StagedPush DEF Invariant, Ordered, disk
<1>6. Lines' = Lines /\ Held' = Held
    BY <1>1 DEF Lines, Held
<1>7. StampsOrdered(Lines, Append(chain, t), now)
    BY <1>2, StampsPush DEF Invariant, Ordered
<1>8. Born(Held, Lines, Append(chain, t), used')
    <2>1. \A x \in Lines : x.event.at <= now
        BY DEF Invariant, Ordered, StampsOrdered
    <2>2. Born(Held, Lines, chain, used)
        BY DEF Invariant, Ordered
    <2> HIDE DEF Invariant
    <2> QED  BY <1>2, <2>1, <2>2, BornPush
<1>9. SentOnce(Held, Lines, Append(chain, t), used')
    <2>1. SentOnce(Held, Lines, chain, used)
        BY DEF Invariant, Ordered
    <2> QED  BY <1>2, <2>1, SentPush
<1>10. Virgin(Held, Lines, Append(chain, t), used')
    <2>1. Virgin(Held, Lines, chain, used)
        BY DEF Invariant, Ordered
    <2> QED  BY <1>2, <2>1, VirginPush
<1>11. ProjectFirst(Lines, Append(chain, t))
    <2>1. ProjectFirst(Lines, chain) /\ \A x \in Lines : x.event.at <= now
        BY DEF Invariant, Ordered, StampsOrdered
    <2> QED  BY <1>2, <2>1, OpeningPush
<1>12. Ordered'
    BY <1>1, <1>5, <1>6, <1>7, <1>8, <1>9, <1>10, <1>11 DEF Ordered
<1>13. DraftsBegun'
    <2>1. \A c \in Chats : ~ToDiscard(c)
        BY <1>1 DEF ToDiscard
    <2> QED  BY <1>1, <2>1, DraftsKeep DEF Invariant, Told
<1> QED  BY <1>1, <1>4, <1>12, <1>13, ToldKeep DEF Invariant

LEMMA ProjectStamps ==
    ASSUME Typed
    PROVE  /\ Event("project_opened", NoValue, NoValue) \in Events
           /\ Event("project_draft_opened", NoValue, NoValue) \in Events
           /\ Event("project_draft_discarded", NoValue, NoValue) \in Events
<1>1. now \in Nat
    BY TypedIs
<1> QED  BY <1>1 DEF Event, Events, ProjectTypes

LEMMA ChatStamps ==
    ASSUME Typed, NEW c \in Chats
    PROVE  /\ \A draft \in BOOLEAN : Event("chat_created", c, draft) \in Events
           /\ Event("chat_promoted", c, NoValue) \in Events
           /\ Event("chat_draft_discarded", c, NoValue) \in Events
<1>1. now \in Nat
    BY TypedIs
<1> QED  BY <1>1 DEF Event, Events, PlainTypes

LEMMA RequestStamps ==
    ASSUME Typed, NEW c \in Chats
    PROVE  /\ Event("chat_created", c, FALSE) \in Requested
           /\ Event("turn_finished", c, NoValue) \in Requested
           /\ Event("chat_deleted", c, NoValue) \in Requested
           /\ Event("chat_read_state_set", c, FALSE) \in Requested
           /\ \A k \in Sessions : Event("session_token_set", c, k) \in Requested
           /\ \A m \in Msgs : /\ Event("queued_message_enqueued", c, m) \in Requested
                              /\ Event("queued_message_removed", c, m) \in Requested
<1>1. now \in Nat
    BY TypedIs
<1>2. Event("chat_created", c, FALSE) \in Requested
    BY <1>1 DEF Event, Events, Requested, ProjectTypes
<1>3. Event("turn_finished", c, NoValue) \in Requested
    BY <1>1 DEF Event, Events, Requested, ProjectTypes, PlainTypes
<1>4. Event("chat_deleted", c, NoValue) \in Requested
    BY <1>1 DEF Event, Events, Requested, ProjectTypes, PlainTypes
<1>5. Event("chat_read_state_set", c, FALSE) \in Requested
    BY <1>1 DEF Event, Events, Requested, ProjectTypes
<1>6. \A k \in Sessions : Event("session_token_set", c, k) \in Requested
    BY <1>1 DEF Event, Events, Requested, ProjectTypes
<1>7. \A m \in Msgs : /\ Event("queued_message_enqueued", c, m) \in Requested
                      /\ Event("queued_message_removed", c, m) \in Requested
    BY <1>1 DEF Event, Events, Requested, ProjectTypes, QueueTypes
<1> QED  BY <1>2, <1>3, <1>4, <1>5, <1>6, <1>7

\* The tasks of the chain.
LEMMA TaskKinds ==
    /\ \A c \in Chats, e \in Requested : Task("write", c, e) \in Tasks
    /\ \A c \in Chats : /\ Task("draft", c, NoEvent) \in Tasks
                        /\ Task("promote", c, NoEvent) \in Tasks
                        /\ Task("discard", c, NoEvent) \in Tasks
    /\ Task("open", NoValue, NoEvent) \in Tasks
    /\ Task("discard project", NoValue, NoEvent) \in Tasks
    /\ Task("compact", NoValue, NoEvent) \in Tasks
BY DEF Task, Tasks

LEMMA StagesAre ==
    /\ Stages = <<"compact", "backup", "truncate">>
    /\ Head(Stages) = "compact" /\ Len(Stages) = 3
    /\ Stages[1] = "compact" /\ Stages[2] = "backup" /\ Stages[3] = "truncate"
BY DEF Stages

\* Of a chat that is known something has been said, and there is a project.
LEMMA KnownIs ==
    ASSUME Invariant, NEW c \in Chats, Known(mem, c)
    PROVE  "project" \in used /\ ~Blank(Held, Lines, c)
<1>1. mem \in Held
    BY DEF Held
<1>2. "project" \in used
    BY <1>1 DEF Invariant, Ordered, Virgin
<1>3. ~Blank(Held, Lines, c)
    BY <1>1 DEF Blank, Known
<1> QED  BY <1>2, <1>3

LEMMA MoreUsed ==
    ASSUME Typed, NEW c
    PROVE  IsFiniteSet(used \cup {c}) /\ IsFiniteSet(used)
BY FS_AddElement DEF Typed

\* A request that stamps its event keeps the invariant.
LEMMA WriteRequest ==
    ASSUME Invariant, NEW c \in Chats, NEW e \in Requested, Stamped(e),
           e.chat = c, e.at = now, used \subseteq used', IsFiniteSet(used'), "project" \in used,
           e.type = "chat_created" => c \in used' \ used,
           e.type # "chat_created" => ~Blank(Held, Lines, c),
           e.type = "queued_message_enqueued" => e.value \in used' \ used,
           e.type = "queued_message_removed" => ~Absent(Held, Lines, e.value)
    PROVE  Invariant'
<1> DEFINE t == Task("write", c, e)
<1>1. t \in Tasks /\ t.op = "write" /\ t.event = e /\ Push(t)
    BY TaskKinds DEF Stamped, Task
<1> HIDE DEF t
<1> QED  BY <1>1, PushStep

LEMMA CreateChatStep ==
    ASSUME Invariant, NEW c \in Chats, CreateChat(c)
    PROVE  Invariant'
<1>1. Typed /\ mem \in Held
    BY DEF Invariant, Held
<1> DEFINE e == Event("chat_created", c, FALSE)
<1>2. e \in Requested
    BY <1>1, RequestStamps
<1>2a. e.type = "chat_created" /\ e.chat = c /\ e.at = now
    BY DEF Event
<1>3. Stamped(e) /\ used' = used \cup {c} /\ c \notin used /\ mem.project # "none"
    BY DEF CreateChat
<1> HIDE DEF e
<1>4. "project" \in used
    BY <1>1, <1>3 DEF Invariant, Ordered, Virgin
<1>5. used \subseteq used' /\ IsFiniteSet(used') /\ c \in used' \ used
    BY <1>1, <1>3, MoreUsed
<1> QED  BY <1>2, <1>2a, <1>3, <1>4, <1>5, WriteRequest

LEMMA EnqueueStep ==
    ASSUME Invariant, NEW c \in Chats, NEW m \in Msgs, Enqueue(c, m)
    PROVE  Invariant'
<1>1. Typed
    BY DEF Invariant
<1> DEFINE e == Event("queued_message_enqueued", c, m)
<1>2. e \in Requested
    BY <1>1, RequestStamps
<1>2a. e.type = "queued_message_enqueued" /\ e.chat = c /\ e.at = now /\ e.value = m
    BY DEF Event
<1>3. Stamped(e) /\ used' = used \cup {m} /\ m \notin used /\ Known(mem, c)
    BY DEF Enqueue, Alive
<1> HIDE DEF e
<1>4. "project" \in used /\ ~Blank(Held, Lines, c)
    BY <1>3, KnownIs
<1>5. used \subseteq used' /\ IsFiniteSet(used') /\ m \in used' \ used
    BY <1>1, <1>3, MoreUsed
<1> QED  BY <1>2, <1>2a, <1>3, <1>4, <1>5, WriteRequest

LEMMA DequeueStep ==
    ASSUME Invariant, NEW c \in Chats, NEW m \in Msgs, Dequeue(c, m)
    PROVE  Invariant'
<1>1. Typed /\ mem \in Held
    BY DEF Invariant, Held
<1> DEFINE e == Event("queued_message_removed", c, m)
<1>2. e \in Requested
    BY <1>1, RequestStamps
<1>2a. e.type = "queued_message_removed" /\ e.chat = c /\ e.at = now /\ e.value = m
    BY DEF Event
<1>3. Stamped(e) /\ used' = used /\ Known(mem, c) /\ Contains(mem.queue[c], m)
    BY DEF Dequeue, Alive
<1> HIDE DEF e
<1>4. "project" \in used /\ ~Blank(Held, Lines, c)
    BY <1>3, KnownIs
<1>5. ~Absent(Held, Lines, m)
    BY <1>1, <1>3 DEF Absent
<1>6. used \subseteq used' /\ IsFiniteSet(used')
    BY <1>1, <1>3, MoreUsed
<1> QED  BY <1>2, <1>2a, <1>3, <1>4, <1>5, <1>6, WriteRequest

LEMMA TurnRequestSteps ==
    ASSUME Invariant, NEW c \in Chats,
           \/ FinishTurn(c)
           \/ MarkRead(c)
           \/ DeleteChat(c)
           \/ \E k \in Sessions : SetToken(c, k)
    PROVE  Invariant'
<1>1. Typed
    BY DEF Invariant
<1>2. used' = used /\ Known(mem, c)
    BY DEF FinishTurn, MarkRead, DeleteChat, SetToken, Alive
<1>3. "project" \in used /\ ~Blank(Held, Lines, c)
    BY <1>2, KnownIs
<1>4. used \subseteq used' /\ IsFiniteSet(used')
    BY <1>1, <1>2, MoreUsed
<1>5. ASSUME NEW e \in Requested, Stamped(e), e.chat = c, e.at = now,
             e.type \notin {"chat_created", "queued_message_enqueued", "queued_message_removed"}
      PROVE  Invariant'
    BY <1>3, <1>4, <1>5, WriteRequest
<1>6. CASE FinishTurn(c)
    <2> DEFINE e == Event("turn_finished", c, NoValue)
    <2>1. e \in Requested
        BY <1>1, RequestStamps
    <2>1a. e.type = "turn_finished" /\ e.chat = c /\ e.at = now
        BY DEF Event
    <2>2. Stamped(e)
        BY <1>6 DEF FinishTurn
    <2> HIDE DEF e
    <2> QED  BY <2>1, <2>1a, <2>2, <1>5
<1>7. CASE MarkRead(c)
    <2> DEFINE e == Event("chat_read_state_set", c, FALSE)
    <2>1. e \in Requested
        BY <1>1, RequestStamps
    <2>1a. e.type = "chat_read_state_set" /\ e.chat = c /\ e.at = now
        BY DEF Event
    <2>2. Stamped(e)
        BY <1>7 DEF MarkRead
    <2> HIDE DEF e
    <2> QED  BY <2>1, <2>1a, <2>2, <1>5
<1>8. CASE DeleteChat(c)
    <2> DEFINE e == Event("chat_deleted", c, NoValue)
    <2>1. e \in Requested
        BY <1>1, RequestStamps
    <2>1a. e.type = "chat_deleted" /\ e.chat = c /\ e.at = now
        BY DEF Event
    <2>2. Stamped(e)
        BY <1>8 DEF DeleteChat
    <2> HIDE DEF e
    <2> QED  BY <2>1, <2>1a, <2>2, <1>5
<1>9. CASE \E k \in Sessions : SetToken(c, k)
    <2>0. PICK k \in Sessions : SetToken(c, k)
        BY <1>9
    <2> DEFINE e == Event("session_token_set", c, k)
    <2>1. e \in Requested
        BY <1>1, RequestStamps
    <2>1a. e.type = "session_token_set" /\ e.chat = c /\ e.at = now
        BY DEF Event
    <2>2. Stamped(e)
        BY <2>0 DEF SetToken
    <2> HIDE DEF e
    <2> QED  BY <2>1, <2>1a, <2>2, <1>5
<1> QED  BY <1>6, <1>7, <1>8, <1>9

LEMMA ChainedStep ==
    ASSUME Invariant, Chained
    PROVE  Invariant'
<1>1. used' = used /\ used \subseteq used' /\ IsFiniteSet(used')
    BY MoreUsed DEF Chained, Invariant
<1>2. ASSUME NEW t \in Tasks, Push(t), t.op \notin {"write", "backup", "truncate"}
      PROVE  Invariant'
    BY <1>1, <1>2, PushStep
<1>3. CASE Push(Task("open", NoValue, NoEvent))
    <2> DEFINE t == Task("open", NoValue, NoEvent)
    <2>1. t \in Tasks /\ t.op = "open" /\ Push(t)
        BY <1>3, TaskKinds DEF Task
    <2> HIDE DEF t
    <2> QED  BY <2>1, <1>2
<1>4. CASE \E c \in Chats \ used : Push(Task("draft", c, NoEvent))
    <2>0. PICK c \in Chats \ used : Push(Task("draft", c, NoEvent))
        BY <1>4
    <2> DEFINE t == Task("draft", c, NoEvent)
    <2>1. t \in Tasks /\ t.op = "draft" /\ Push(t)
        BY <2>0, TaskKinds DEF Task
    <2> HIDE DEF t
    <2> QED  BY <2>1, <1>2
<1>5. CASE \E c \in Chats : Push(Task("promote", c, NoEvent))
    <2>0. PICK c \in Chats : Push(Task("promote", c, NoEvent))
        BY <1>5
    <2> DEFINE t == Task("promote", c, NoEvent)
    <2>1. t \in Tasks /\ t.op = "promote" /\ Push(t)
        BY <2>0, TaskKinds DEF Task
    <2> HIDE DEF t
    <2> QED  BY <2>1, <1>2
<1>6. CASE \E c \in Chats : Push(Task("discard", c, NoEvent))
    <2>0. PICK c \in Chats : Push(Task("discard", c, NoEvent))
        BY <1>6
    <2> DEFINE t == Task("discard", c, NoEvent)
    <2>1. t \in Tasks /\ t.op = "discard" /\ Push(t)
        BY <2>0, TaskKinds DEF Task
    <2> HIDE DEF t
    <2> QED  BY <2>1, <1>2
<1>7. CASE Push(Task(Head(Stages), NoValue, NoEvent))
    <2> DEFINE t == Task("compact", NoValue, NoEvent)
    <2>1. t \in Tasks /\ t.op = "compact" /\ Push(t)
        BY <1>7, TaskKinds, StagesAre DEF Task
    <2> HIDE DEF t
    <2> QED  BY <2>1, <1>2
<1>8. \A c : (\E op \in {"promote", "discard"} : Push(Task(op, c, NoEvent)))
            => Push(Task("promote", c, NoEvent)) \/ Push(Task("discard", c, NoEvent))
    OBVIOUS
<1> QED  BY <1>3, <1>4, <1>5, <1>6, <1>7, <1>8 DEF Chained

\* Every request keeps the invariant.
LEMMA RequestsStep ==
    ASSUME Invariant, Requests
    PROVE  Invariant'
BY CreateChatStep, EnqueueStep, DequeueStep, TurnRequestSteps, ChainedStep DEF Requests

---------------------------------------------------------------------------
(* The writing of an event *)

\* What holds of an event whose turn has come, of the chain r that stays, and of the
\* ids u that are given out.
Due(e, r, u) ==
    /\ e \in Events /\ e.at <= now
    /\ \A st \in Held : Fits(mem, Lines, st, e)
    /\ Fresh(Lines, e)
    /\ \A y \in Lines :
           /\ y.source \in {3, 4} /\ Source(LogOf(e)) \in {3, 4} => y.event.at <= e.at
           /\ y.event.type = "chat_created" /\ y.event.chat = e.chat => y.event.at <= e.at
           /\ y.event.type = "project_draft_opened" => y.event.at <= e.at
    /\ \A i \in 1 .. Len(r) : WriteAt(r, i) =>
           /\ Source(LogOf(e)) \in {3, 4} => e.at <= r[i].event.at
           /\ r[i].event.type = "chat_created" \/ e.type = "chat_created"
              => r[i].event.chat # e.chat
           /\ r[i].event.type = "queued_message_enqueued" /\ e.type \in QueueTypes
              => r[i].event.value # e.value
    /\ e.type = "project_draft_opened" =>
           /\ \A i \in 1 .. Len(chain) : ~WriteAt(chain, i)
           /\ \A c \in Chats : ~Known(mem, c)
    /\ e.type = "chat_promoted" => up
    /\ "project" \in u /\ (e.chat \in Chats => e.chat \in u)
    /\ e.type \in QueueTypes => e.value \in u

\* The line x of an event is new to its log, and R is what the lines are with it.
NewLine(R, x, e) ==
    /\ x \in LineSet /\ x \notin Lines /\ x.event = e /\ x.source = Source(LogOf(e))
    /\ Adds(R, Lines, x) /\ Newest(Lines, x) /\ Journal(R)

\* An event is written, or it is lost behind a line that was cut short.
LEMMA WrittenOrLost ==
    ASSUME Typed, NEW e \in Events, WriteEvent(e)
    PROVE  /\ GoodLog(log')
           /\ torn' \subseteq Logs /\ lost' \subseteq Logs
           /\ \E R, x : /\ NewLine(R, x, e)
                        /\ \/ Lines' = R /\ lost' = lost
                           \/ Lines' = Lines /\ lost' = lost \cup {LogOf(e)}
<1>1. GoodLog(log) /\ Lines = Logged(log) /\ Lines' = Logged(log') /\ LogOf(e) \in Logs
    BY TypedIs, LogKinds DEF Lines, Logged
<1>2. \E g : Appends(log, g, e)
    BY DEF Appends
<1>3. PICK g : Appends(log, g, e)
    BY <1>2
<1>4. GoodLog(g)
    BY <1>1, <1>3, LoggedAppend
<1>5. PICK x \in LineSet : /\ Adds(Logged(g), Logged(log), x) /\ x \notin Logged(log)
                           /\ x.event = e /\ Newest(Logged(log), x)
    BY <1>1, <1>3, LoggedAppend
<1>6. Journal(Logged(g)) /\ x.source = Source(LogOf(e))
    BY <1>4, <1>5, LoggedJournal DEF LineSet
<1>7. NewLine(Logged(g), x, e)
    BY <1>1, <1>5, <1>6 DEF NewLine
<1>8. CASE LogOf(e) \in torn
    <2>1. log' = log /\ lost' = lost \cup {LogOf(e)} /\ torn' = torn \ {LogOf(e)}
        BY <1>8 DEF WriteEvent
    <2>2. torn' \subseteq Logs /\ lost' \subseteq Logs
        BY <1>1, <2>1 DEF Typed
    <2>3. GoodLog(log') /\ Lines' = Lines
        BY <1>1, <2>1
    <2> QED  BY <1>7, <2>1, <2>2, <2>3
<1>9. CASE LogOf(e) \notin torn
    <2>1. lost' = lost /\ torn' = torn \ {LogOf(e)} /\ log' = [log EXCEPT ![LogOf(e)] = Append(@, e)]
        BY <1>9 DEF WriteEvent
    <2>2. log' = g
        BY <2>1, <1>3 DEF Appends
    <2>3. Lines' = Logged(g) /\ GoodLog(log')
        BY <1>1, <1>4, <2>2
    <2>4. torn' \subseteq Logs /\ lost' \subseteq Logs
        BY <2>1 DEF Typed
    <2> QED  BY <1>7, <2>1, <2>3, <2>4
<1> QED  BY <1>8, <1>9

LEMMA NewLineIs ==
    ASSUME Invariant, NEW R, NEW x, NEW e \in Events, NewLine(R, x, e)
    PROVE  /\ Lines \in SUBSET LineSet /\ R \in SUBSET LineSet /\ Journal(R) /\ Journal(Lines)
           /\ \A y \in R : y \in Lines \/ y = x
           /\ x \in LineSet /\ x \notin Lines /\ x.event = e /\ x.source = Source(LogOf(e))
           /\ Adds(R, Lines, x) /\ Newest(Lines, x)
           /\ CreatedFirst(Lines) /\ OpenedFirst(Lines) /\ EnqueuedFirst(Lines)
<1>1. Typed /\ CreatedFirst(Lines) /\ OpenedFirst(Lines) /\ EnqueuedFirst(Lines)
    BY DEF Invariant, Ordered, Born, ProjectFirst, SentOnce
<1>2. Lines \in SUBSET LineSet /\ Journal(Lines)
    BY <1>1, TypedIs
<1>3. R \in SUBSET LineSet /\ \A y \in R : y \in Lines \/ y = x
    BY <1>2 DEF NewLine, Adds
<1> QED  BY <1>1, <1>2, <1>3 DEF NewLine

\* The orders that the lines keep.
LEMMA FirstsGrow ==
    ASSUME Invariant, NEW R, NEW x, NEW e \in Events, NewLine(R, x, e), NEW r, NEW u, Due(e, r, u)
    PROVE  CreatedFirst(R) /\ OpenedFirst(R) /\ EnqueuedFirst(R)
<1>1. /\ Lines \in SUBSET LineSet /\ R \in SUBSET LineSet
      /\ x \in LineSet /\ x.event = e /\ x.source = Source(LogOf(e))
      /\ Adds(R, Lines, x) /\ Newest(Lines, x)
      /\ CreatedFirst(Lines) /\ OpenedFirst(Lines) /\ EnqueuedFirst(Lines)
    BY NewLineIs
<1>2. mem \in Held /\ Fits(mem, Lines, mem, e) /\ Fresh(Lines, e)
    BY DEF Held, Due
<1>3. CreatedFirst(R)
    <2>1. e.type = "chat_created" => \A y \in Lines : y.event.chat # e.chat
        BY <1>2 DEF Fits
    <2>2. \A y \in Lines : y.event.type = "chat_created" /\ y.event.chat = e.chat
                           => y.event.at <= e.at
        BY DEF Due
    <2> QED  BY <1>1, <2>1, <2>2, CreatedFirstGrows
<1>4. OpenedFirst(R)
    <2>1. e.type = "project_draft_opened" => Lines = {}
        BY <1>2 DEF Fits
    <2>2. \A y \in Lines : y.event.type = "project_draft_opened" => y.event.at <= e.at
        BY DEF Due
    <2> QED  BY <1>1, <2>1, <2>2, OpenedFirstGrows
<1>5. EnqueuedFirst(R)
    <2>1. e.type \in QueueTypes => Source(LogOf(e)) = 3
        BY LogKinds, SourceKinds
    <2>2. e.type \in QueueTypes => \A y \in Lines : y.source = 3 => y.event.at <= e.at
        BY <2>1 DEF Due
    <2> QED  BY <1>1, <1>2, <2>2, EnqueuedFirstGrows
<1> QED  BY <1>3, <1>4, <1>5

LEMMA HeldGrows ==
    ASSUME Typed, NEW e \in Events, mem' = ApplyEvent(mem, e), snap' = snap, bak' = bak
    PROVE  /\ mem' \in States
           /\ \A st \in Held' : st = mem' \/ st \in Held
           /\ Held \in SUBSET States /\ mem \in Held
<1>1. mem \in States /\ Held \in SUBSET States /\ mem \in Held
    BY TypedIs DEF Typed
<1>2. mem' \in States
    BY <1>1, ApplyType
<1>3. \A st \in Held' : st = mem' \/ st \in Held
    BY DEF Held
<1> QED  BY <1>1, <1>2, <1>3

LEMMA BlankGrows ==
    ASSUME Typed, NEW e \in Events, mem' = ApplyEvent(mem, e), snap' = snap, bak' = bak,
           NEW T, NEW x, x.event = e, \A y \in T : y \in Lines \/ y = x,
           NEW d \in Chats, d # e.chat, Blank(Held, Lines, d)
    PROVE  Blank(Held', T, d)
<1>1. mem \in States /\ mem \in Held /\ \A st \in Held' : st = mem' \/ st \in Held
    BY HeldGrows, TypedIs
<1>2. mem'.chats[d] = mem.chats[d] /\ mem'.queue[d] = mem.queue[d]
    BY <1>1, ApplyElsewhere
<1>3. \A st \in Held' : st.chats[d] = NoValue /\ st.queue[d] = <<>>
    BY <1>1, <1>2 DEF Blank
<1>4. \A y \in T : y.event.chat # d
    BY DEF Blank
<1> QED  BY <1>3, <1>4 DEF Blank

\* The message an event is about.
Carried(e) == IF e.type \in QueueTypes THEN e.value ELSE NoValue

LEMMA AbsentGrows ==
    ASSUME Typed, NEW e \in Events, mem' = ApplyEvent(mem, e), snap' = snap, bak' = bak,
           NEW T, NEW x, x.event = e, \A y \in T : y \in Lines \/ y = x,
           \A st \in Held, c \in Chats : Distinct(st.queue[c]),
           NEW m \in Msgs, m # Carried(e), Absent(Held, Lines, m)
    PROVE  Absent(Held', T, m)
<1>1. mem \in States /\ mem \in Held /\ \A st \in Held' : st = mem' \/ st \in Held
    BY HeldGrows, TypedIs
<1>2. e.type \in QueueTypes => e.value # m
    BY DEF Carried
<1>3. \A c \in Chats : ~Contains(mem'.queue[c], m)
    <2> TAKE c \in Chats
    <2>1. Distinct(mem.queue[c]) /\ ~Contains(mem.queue[c], m)
        BY <1>1 DEF Absent
    <2>2. Contains(ApplyEvent(mem, e).queue[c], m)
          => \/ Contains(mem.queue[c], m)
             \/ e.type = "queued_message_enqueued" /\ e.chat = c /\ e.value = m
        BY <1>1, <2>1, ApplyDistinct
    <2> QED  BY <2>1, <2>2, <1>2 DEF QueueTypes
<1>4. \A st \in Held', c \in Chats : ~Contains(st.queue[c], m)
    BY <1>1, <1>3 DEF Absent
<1>5. \A y \in T : y.event.type \in QueueTypes => y.event.value # m
    BY <1>2 DEF Absent
<1> QED  BY <1>4, <1>5 DEF Absent

LEMMA DistinctGrows ==
    ASSUME Typed, NEW e \in Events, mem' = ApplyEvent(mem, e), snap' = snap, bak' = bak,
           \A st \in Held, c \in Chats : Distinct(st.queue[c])
    PROVE  \A st \in Held', c \in Chats : Distinct(st.queue[c])
<1>1. mem \in States /\ mem \in Held /\ \A st \in Held' : st = mem' \/ st \in Held
    BY HeldGrows, TypedIs
<1>2. \A c \in Chats : Distinct(mem'.queue[c])
    BY <1>1, ApplyDistinct
<1> QED  BY <1>1, <1>2

LEMMA OrderedWrite ==
    ASSUME Invariant, NEW e, NEW k \in Nat, Moves(chain, chain', k), Due(e, chain', used'),
           mem' = ApplyEvent(mem, e), snap' = snap, bak' = bak, now' = now,
           NEW R, NEW x, NewLine(R, x, e), Lines' = R \/ Lines' = Lines,
           used \subseteq used', chain' \in Seq(Tasks), Staged'
    PROVE  Ordered'
<1>0. e \in Events /\ Typed
    BY DEF Due, Invariant
<1>1. /\ Lines \in SUBSET LineSet /\ R \in SUBSET LineSet
      /\ x \in LineSet /\ x.event = e /\ x.source = Source(LogOf(e))
      /\ Adds(R, Lines, x) /\ \A y \in R : y \in Lines \/ y = x
      /\ CreatedFirst(Lines) /\ OpenedFirst(Lines) /\ EnqueuedFirst(Lines)
    BY <1>0, NewLineIs
<1>2. CreatedFirst(R) /\ OpenedFirst(R) /\ EnqueuedFirst(R)
    BY <1>0, FirstsGrow
<1>3. \A y \in Lines' : y \in Lines \/ y = x
    BY <1>1
<1>4. CreatedFirst(Lines') /\ OpenedFirst(Lines') /\ EnqueuedFirst(Lines')
    <2>1. CASE Lines' = R
        BY <2>1, <1>2
    <2>2. CASE Lines' = Lines
        BY <2>2, <1>1
    <2> QED  BY <2>1, <2>2
<1>5. chain \in Seq(Tasks) /\ now \in Nat
    BY <1>0, TypedIs
<1>6. StampsOrdered(Lines', chain', now')
    <2>0. StampsOrdered(Lines, chain, now)
        BY DEF Invariant, Ordered
    <2>1. StampsOrdered(R, chain', now)
        <3>1. x.event.at <= now
            BY <1>1 DEF Due
        <3>2. x.source \in {3, 4}
              => \A i \in 1 .. Len(chain') : WriteAt(chain', i) => x.event.at <= chain'[i].event.at
            BY <1>1 DEF Due
        <3> QED  BY <1>1, <1>5, <2>0, <3>1, <3>2, StampsGrow
    <2>2. StampsOrdered(Lines, chain', now)
        BY <1>1, <1>5, <2>0, StampsKeep
    <2> QED  BY <2>1, <2>2
<1>7. Born(Held', Lines', chain', used')
    <2>0. Born(Held, Lines, chain, used)
        BY DEF Invariant, Ordered
    <2>1. \A d \in Chats \ {e.chat} : Blank(Held, Lines, d) => Blank(Held', Lines', d)
        BY <1>0, <1>1, <1>3, BlankGrows
    <2>2. e.chat \in Chats => e.chat \in used'
        BY DEF Due
    <2>3. \A i \in 1 .. Len(chain') : WriteAt(chain', i) /\ chain'[i].event.type = "chat_created"
                                      => chain'[i].event.chat # e.chat
        BY DEF Due
    <2>4. e.type = "chat_created"
          => \A i \in 1 .. Len(chain') : WriteAt(chain', i) => chain'[i].event.chat # e.chat
        BY DEF Due
    <2> HIDE DEF Born
    <2>5. x.event.chat = e.chat /\ x.event.type = e.type
        BY <1>1
    <2> QED  BY <1>1, <1>3, <1>4, <1>5, <2>0, <2>1, <2>2, <2>3, <2>4, <2>5, BornGrow
<1>8. SentOnce(Held', Lines', chain', used')
    <2>0. SentOnce(Held, Lines, chain, used)
        BY DEF Invariant, Ordered
    <2>1. \A st \in Held, c \in Chats : Distinct(st.queue[c])
        BY <2>0 DEF SentOnce
    <2>2. \A st \in Held', c \in Chats : Distinct(st.queue[c])
        BY <1>0, <2>1, DistinctGrows
    <2>3. \A m \in Msgs \ {Carried(e)} : Absent(Held, Lines, m) => Absent(Held', Lines', m)
        BY <1>0, <1>1, <1>3, <2>1, AbsentGrows
    <2>4. Carried(e) \in Msgs => Carried(e) \in used'
        BY ValueAssumption DEF Carried, Due
    <2>5. \A i \in 1 .. Len(chain') :
              WriteAt(chain', i) /\ chain'[i].event.type = "queued_message_enqueued"
              => chain'[i].event.value # Carried(e)
        <3> TAKE i \in 1 .. Len(chain')
        <3> HAVE WriteAt(chain', i) /\ chain'[i].event.type = "queued_message_enqueued"
        <3>1. chain'[i].event \in Events
            BY WriteKinds
        <3>2. chain'[i].event.value \in Msgs
            BY <3>1, EventKinds DEF QueueTypes
        <3>3. e.type \in QueueTypes => chain'[i].event.value # e.value
            BY DEF Due
        <3> QED  BY <3>2, <3>3, ValueAssumption DEF Carried
    <2>6. EnqueuedFirst(Lines')
        BY <1>4
    <2>7. PICK v : v = Carried(e)
        OBVIOUS
    <2>8. /\ \A m \in Msgs \ {v} : Absent(Held, Lines, m) => Absent(Held', Lines', m)
          /\ v \in Msgs => v \in used'
          /\ NoSending(chain', v)
        BY <2>3, <2>4, <2>5, <2>7 DEF NoSending
    <2> QED  BY <1>5, <2>0, <2>2, <2>6, <2>8, SentGrow
<1>9. Virgin(Held', Lines', chain', used')
    BY DEF Due, Virgin
<1>10. ProjectFirst(Lines', chain')
    <2>0. ProjectFirst(Lines, chain)
        BY DEF Invariant, Ordered
    <2>1. x.event.type = "project_draft_opened"
          => \A i \in 1 .. Len(chain) : ~WriteAt(chain, i)
        BY <1>1 DEF Due
    <2> QED  BY <1>3, <1>4, <2>0, <2>1, OpeningGrow
<1> QED  BY <1>6, <1>7, <1>8, <1>9, <1>10 DEF Ordered

\* The draft chats after an event are those there were and the one it made.
LEMMA DraftsGrow ==
    ASSUME NEW m \in States, NEW e \in Events, NEW c \in Chats,
           Known(ApplyEvent(m, e), c), ApplyEvent(m, e).chats[c].draft
    PROVE  \/ Known(m, c) /\ m.chats[c].draft
           \/ e.type = "chat_created" /\ e.chat = c
<1> SUFFICES ASSUME ~(e.type = "chat_created" /\ e.chat = c)
             PROVE  Known(m, c) /\ m.chats[c].draft
    OBVIOUS
<1> DEFINE u == ApplyEvent(m, e)
<1>1. Known(u, c) /\ u.chats[c].draft
    OBVIOUS
<1>2. CASE e.chat # c
    <2>1. u.chats[c] = m.chats[c] /\ (Known(u, c) <=> Known(m, c))
        BY <1>2, ApplyOthers
    <2> HIDE DEF u
    <2> QED  BY <1>1, <2>1
<1>3. CASE e.chat = c /\ e.type = "chat_promoted"
    <2>1. Known(u, c) <=> Known(m, c)
        BY <1>3, ApplyPromoted
    <2>2. Known(m, c) => (u.chats[c].draft <=> m.chats[c].draft /\ m.chats[c].deleted)
        BY <1>3, ApplyPromoted
    <2> HIDE DEF u
    <2> QED  BY <1>1, <2>1, <2>2
<1>4. CASE e.chat = c /\ e.type = "chat_draft_discarded"
    <2>1. /\ ~Known(m, c) \/ ~m.chats[c].draft => u = m
          /\ Known(m, c) /\ m.chats[c].draft => u.chats[c] = NoValue
        BY <1>4, ApplyDiscarded
    <2> HIDE DEF u
    <2> QED  BY <1>1, <2>1 DEF Known
<1>5. CASE e.chat = c /\ e.type = "chat_deleted"
    <2>1. ~Known(m, c) => u = m
        BY <1>5, ApplyDeleted
    <2>2. Known(m, c) => u.chats[c].draft = m.chats[c].draft
        BY <1>5, ApplyDeleted
    <2> HIDE DEF u
    <2> QED  BY <1>1, <2>1, <2>2
<1>6. CASE /\ e.chat = c
           /\ e.type \notin {"chat_created", "chat_promoted", "chat_deleted", "chat_draft_discarded"}
    <2>1. (Known(u, c) <=> Known(m, c)) /\ (Known(m, c) => u.chats[c].draft = m.chats[c].draft)
        BY <1>6, ApplyKeeps
    <2> HIDE DEF u
    <2> QED  BY <1>1, <2>1
<1> QED  BY <1>2, <1>3, <1>4, <1>5, <1>6

LEMMA DueIs ==
    ASSUME Invariant, NEW e, NEW r, NEW u, Due(e, r, u)
    PROVE  /\ e \in Events /\ mem \in States /\ mem \in Held
           /\ Loaded(snap) \in States /\ Loaded(bak) \in States
           /\ Fits(mem, Lines, mem, e)
           /\ Fits(mem, Lines, Loaded(snap), e) /\ Fits(mem, Lines, Loaded(bak), e)
           /\ Fresh(Lines, e)
BY TypedIs DEF Due, Invariant, Typed

\* The lines of a chat's turns are in the order of their stamps.
LEMMA TurnsDue ==
    ASSUME Invariant, NEW e, NEW r, NEW u, Due(e, r, u), NEW R, NEW x, NewLine(R, x, e), NEW c
    PROVE  TurnsInOrder(Lines, x, c)
<1>1. /\ e \in Events /\ Lines \in SUBSET LineSet /\ x \in LineSet /\ x.event = e
      /\ Newest(Lines, x)
    BY NewLineIs DEF Due
<1>2. e.type = "session_token_set" => Source(LogOf(e)) = 4
    BY <1>1, LogKinds, SourceKinds
<1>3. \A y \in Line(Lines, "session_token_set", c) : y \in Lines /\ y.source = 4
    BY <1>1, ChatLineKinds DEF Line
<1>4. e.type = "session_token_set"
      => \A y \in Line(Lines, "session_token_set", c) : y.event.at <= e.at
    BY <1>2, <1>3 DEF Due
<1> QED  BY <1>1, <1>4, TokensInOrder

\* The lines of a chat's queue are in the order of their stamps.
LEMMA QueueDue ==
    ASSUME Invariant, NEW e, NEW r, NEW u, Due(e, r, u), NEW R, NEW x, NewLine(R, x, e), NEW c
    PROVE  \A y \in QueueLines(Lines, c) : x.event.type \in QueueTypes => Before(y, x)
<1>1. /\ e \in Events /\ Lines \in SUBSET LineSet /\ x \in LineSet /\ x.event = e
      /\ Newest(Lines, x)
    BY NewLineIs DEF Due
<1>2. e.type \in QueueTypes => Source(LogOf(e)) = 3
    BY <1>1, LogKinds, SourceKinds
<1>3. \A y \in QueueLines(Lines, c) : y \in Lines /\ y.source = 3
    BY <1>1, ChatLineKinds DEF QueueLines
<1>4. e.type \in QueueTypes => \A y \in QueueLines(Lines, c) : y.event.at <= e.at
    BY <1>2, <1>3 DEF Due
<1> QED  BY <1>1, <1>4, QueueInOrder

\* What is settled stays so, the line written or lost.
LEMMA SettledWrite ==
    ASSUME Invariant, NEW e, NEW r, NEW u, Due(e, r, u), NEW R, NEW x, NewLine(R, x, e),
           mem' = ApplyEvent(mem, e),
           \/ Lines' = R /\ lost' = lost
           \/ Lines' = Lines /\ lost' = lost \cup {LogOf(e)}
    PROVE  AllSettled'
<1>1. /\ e \in Events /\ x.event = e /\ Adds(R, Lines, x) /\ Journal(R)
      /\ mem \in States /\ Fits(mem, Lines, mem, e) /\ Fresh(Lines, e) /\ mem \in Held
    BY NewLineIs, DueIs
<1>2. (LogOf(e) = "queued" <=> e.type \in QueueTypes)
      /\ (LogOf(e) = "turns" <=> e.type \in {"turn_finished", "session_token_set"})
    BY <1>1, LogKinds
<1> SUFFICES ASSUME NEW c \in Chats
             PROVE  /\ "queued" \notin lost' => QueueSettled(mem', Lines', c)
                    /\ "turns" \notin lost' => TurnsSettled(mem', Lines', c)
    BY DEF AllSettled
<1>3. Distinct(mem.queue[c])
    BY <1>1 DEF Invariant, Ordered, SentOnce
<1>4. /\ "queued" \notin lost => QueueSettled(mem, Lines, c)
      /\ "turns" \notin lost => TurnsSettled(mem, Lines, c)
    BY DEF Invariant, Told, AllSettled
<1>5. QueueSettled(mem, Lines, c) =>
          /\ QueueSettled(mem', R, c)
          /\ e.type \notin QueueTypes => QueueSettled(mem', Lines, c)
    BY <1>1, <1>3, QueueSettledGrow
<1>6. TurnsSettled(mem, Lines, c) =>
          /\ TurnsSettled(mem', R, c)
          /\ e.type \notin {"turn_finished", "session_token_set"} => TurnsSettled(mem', Lines, c)
    <2>1. TurnsInOrder(Lines, x, c)
        BY TurnsDue
    <2> QED  BY <1>1, <2>1, TurnsSettledGrow
<1>7. CASE Lines' = R /\ lost' = lost
    BY <1>4, <1>5, <1>6, <1>7
<1>8. CASE Lines' = Lines /\ lost' = lost \cup {LogOf(e)}
    <2>1. "queued" \notin lost' => "queued" \notin lost /\ e.type \notin QueueTypes
        BY <1>2, <1>8
    <2>2. "turns" \notin lost'
          => "turns" \notin lost /\ e.type \notin {"turn_finished", "session_token_set"}
        BY <1>2, <1>8
    <2> QED  BY <1>4, <1>5, <1>6, <1>8, <2>1, <2>2
<1> QED  BY <1>7, <1>8

\* An event that is not in the chats log leaves what is said of a chat's life as it was.
LEMMA SameLife ==
    ASSUME Invariant, NEW R, NEW x, NEW e \in Events, NewLine(R, x, e)
    PROVE  /\ x.source # 1 => SameLines(R, Lines, 1)
           /\ x.source # 3 => SameLines(R, Lines, 3)
           /\ x.source # 4 => SameLines(R, Lines, 4)
           /\ x.source # 0 => SameLines(R, Lines, 0)
           /\ LogOf(e) = "chats" <=> x.source = 1
           /\ LogOf(e) = "queued" <=> x.source = 3
           /\ LogOf(e) = "turns" <=> x.source = 4
           /\ LogOf(e) = "projects" <=> x.source = 0
<1>1. R = Lines \cup {x} /\ x.source = Source(LogOf(e))
    BY DEF NewLine, Adds
<1>2. LogOf(e) \in Logs
    BY LogKinds
<1> QED  BY <1>1, <1>2, SourceKinds DEF SameLines

\* An event due leaves a promotion before the end of its chat.
LEMMA PromotionsWrite ==
    ASSUME Invariant, NEW e, NEW r, NEW u, Due(e, r, u), NEW R, NEW x, NewLine(R, x, e),
           \/ Lines' = R /\ lost' = lost
           \/ Lines' = Lines /\ lost' = lost \cup {LogOf(e)}
    PROVE  PromotionsFirst'
<1> SUFFICES ASSUME "chats" \notin lost'
             PROVE  PromotedInOrder(Lines')
    BY DEF PromotionsFirst
<1>1. /\ e \in Events /\ Lines \in SUBSET LineSet /\ x \in LineSet /\ x.event = e
      /\ Newest(Lines, x) /\ Adds(R, Lines, x)
    BY NewLineIs DEF Due
<1>2. "chats" \notin lost
    OBVIOUS
<1>3. PromotedInOrder(Lines) /\ \A c \in Chats : ChatAgrees(mem, Lines, Loaded(snap), c)
    BY <1>2 DEF Invariant, Told, PromotionsFirst, Remembers, Kept
<1>4. Fits(mem, Lines, Loaded(snap), e)
    BY DueIs
<1>5. PromotedInOrder(R)
    BY <1>1, <1>3, <1>4, PromotedInOrderGrows
<1> QED  BY <1>3, <1>5

\* It leaves a draft project over once a chat shows it.
LEMMA OverWrite ==
    ASSUME Invariant, NEW e, NEW r, NEW u, Due(e, r, u), NEW R, NEW x, NewLine(R, x, e),
           mem' = ApplyEvent(mem, e),
           \/ Lines' = R /\ lost' = lost
           \/ Lines' = Lines /\ lost' = lost \cup {LogOf(e)}
    PROVE  DraftOver'
<1>1. /\ e \in Events /\ x.event = e /\ Adds(R, Lines, x) /\ mem \in States
      /\ Fits(mem, Lines, mem, e)
    BY NewLineIs, DueIs
<1>2. OverByCreation(mem, Lines) => OverByCreation(mem', Lines) /\ OverByCreation(mem', R)
    BY <1>1, OverGrows
<1>3. OverByPromotion(mem, Lines) => OverByPromotion(mem', Lines) /\ OverByPromotion(mem', R)
    BY <1>1, OverGrows
<1>4. OverByCreation(mem', Lines')
    BY <1>2 DEF Invariant, Told, DraftOver
<1>5. "chats" \notin lost' /\ ~Reordered(Lines') => "chats" \notin lost /\ ~Reordered(Lines)
    <2>1. Reordered(Lines) => Reordered(R)
        BY <1>1 DEF Adds, Reordered
    <2> QED  BY <2>1
<1>6. "chats" \notin lost' /\ ~Reordered(Lines') => OverByPromotion(mem', Lines')
    BY <1>3, <1>5 DEF Invariant, Told, DraftOver
<1> QED  BY <1>4, <1>6 DEF DraftOver

\* It leaves every draft begun in the log, or to be discarded.
LEMMA DraftsWrite ==
    ASSUME Invariant, NEW e, NEW r, NEW u, Due(e, r, u), NEW R, NEW x, NewLine(R, x, e),
           mem' = ApplyEvent(mem, e), left = Logs,
           \/ Lines' = R /\ lost' = lost
           \/ Lines' = Lines /\ lost' = lost \cup {LogOf(e)},
           \A c \in Chats : ToDiscard(c) /\ Known(mem', c) /\ mem'.chats[c].draft => ToDiscard(c)'
    PROVE  DraftsBegun'
<1>1. /\ e \in Events /\ x.event = e /\ Adds(R, Lines, x) /\ mem \in States
      /\ Fits(mem, Lines, mem, e)
    BY NewLineIs, DueIs
<1> SUFFICES ASSUME "chats" \notin lost', HasType(Lines', "project_draft_opened")
             PROVE  /\ BegunHere(Lines')
                    /\ \A c \in Chats : Known(mem', c) /\ mem'.chats[c].draft
                                        => Has(Lines', "chat_created", c) \/ ToDiscard(c)'
    BY DEF DraftsBegun, Known
<1>2. "chats" \notin lost
    OBVIOUS
<1>3. Lines' = R \/ (Lines' = Lines /\ LogOf(e) # "chats")
    OBVIOUS
<1>4. /\ \A c \in Chats : Has(R, "chat_created", c)
             <=> Has(Lines, "chat_created", c) \/ (e.type = "chat_created" /\ e.chat = c)
      /\ \A c \in Chats : Has(R, "chat_promoted", c)
             <=> Has(Lines, "chat_promoted", c) \/ (e.type = "chat_promoted" /\ e.chat = c)
    BY <1>1, HasGrows
<1>5. LogOf(e) # "chats" => e.type # "chat_created" /\ e.type # "chat_promoted"
    BY <1>1, LogKinds DEF LogOf
<1>6. /\ \A c \in Chats : Has(Lines', "chat_created", c)
             <=> Has(Lines, "chat_created", c) \/ (e.type = "chat_created" /\ e.chat = c)
      /\ \A c \in Chats : Has(Lines', "chat_promoted", c)
             <=> Has(Lines, "chat_promoted", c) \/ (e.type = "chat_promoted" /\ e.chat = c)
    BY <1>3, <1>4, <1>5
<1>7. \A c \in Chats : Known(mem', c) /\ mem'.chats[c].draft
          => (Known(mem, c) /\ mem.chats[c].draft) \/ (e.type = "chat_created" /\ e.chat = c)
    BY <1>1, DraftsGrow
<1>8. CASE e.type = "project_draft_opened"
    <2>1. Lines = {} /\ \A c \in Chats : ~Known(mem, c)
        BY <1>1, <1>8 DEF Fits, Due
    <2>2. \A c \in Chats : ~Has(Lines', "chat_promoted", c) /\ ~(Known(mem', c) /\ mem'.chats[c].draft)
        <3>1. \A c \in Chats : ~Has(Lines, "chat_promoted", c)
            BY <2>1 DEF Has, Line
        <3> QED  BY <1>6, <1>7, <1>8, <2>1, <3>1
    <2> QED  BY <2>2 DEF BegunHere
<1>9. CASE e.type # "project_draft_opened"
    <2>1. HasType(Lines, "project_draft_opened")
        <3>1. HasType(R, "project_draft_opened") => HasType(Lines, "project_draft_opened")
            BY <1>1, <1>9, HasTypeGrows
        <3> QED  BY <1>3, <3>1
    <2>2. /\ BegunHere(Lines)
          /\ \A c \in Chats : Known(mem, c) /\ mem.chats[c].draft
                              => Has(Lines, "chat_created", c) \/ ToDiscard(c)
        BY <1>2, <2>1 DEF Invariant, Told, DraftsBegun
    <2>3. e.type = "chat_promoted" => Has(Lines, "chat_created", e.chat)
        <3> HAVE e.type = "chat_promoted"
        <3>1. Known(mem, e.chat) /\ mem.chats[e.chat].draft /\ e.chat \in Chats
            BY <1>1, EventKinds DEF Fits, Alive, ProjectTypes
        <3>2. ~ToDiscard(e.chat)
            BY DEF Due, ToDiscard
        <3> QED  BY <2>2, <3>1, <3>2
    <2>4. BegunHere(Lines')
        BY <1>6, <2>2, <2>3 DEF BegunHere
    <2>5. \A c \in Chats : Known(mem', c) /\ mem'.chats[c].draft
                           => Has(Lines', "chat_created", c) \/ ToDiscard(c)'
        BY <1>6, <1>7, <2>2
    <2> QED  BY <2>4, <2>5
<1> QED  BY <1>8, <1>9

\* Sets of lines that differ in another log only agree with the same states.
LEMMA SayTurns ==
    ASSUME NEW T \in SUBSET LineSet, NEW S \in SUBSET LineSet,
           SameLines(T, S, 1), SameLines(T, S, 4), NEW c, NEW m, NEW st
    PROVE  TurnsAgree(m, T, st, c) <=> TurnsAgree(m, S, st, c)
<1>1. /\ Line(T, "session_token_set", c) = Line(S, "session_token_set", c)
      /\ Has(T, "session_token_set", c) <=> Has(S, "session_token_set", c)
      /\ Has(T, "turn_finished", c) <=> Has(S, "turn_finished", c)
    BY SameTurns
<1>2. Has(T, "chat_created", c) <=> Has(S, "chat_created", c)
    BY SameChats
<1>3. TokenOf(st, T, c) = TokenOf(st, S, c)
    BY <1>1, <1>2 DEF TokenOf
<1>4. FinishedOf(st, T, c) <=> FinishedOf(st, S, c)
    BY <1>1, <1>2 DEF FinishedOf
<1> QED  BY <1>3, <1>4 DEF TurnsAgree

LEMMA SayProject ==
    ASSUME NEW T \in SUBSET LineSet, NEW S \in SUBSET LineSet,
           SameLines(T, S, 1), SameLines(T, S, 0), NEW m, NEW st
    PROVE  ProjectAgrees(m, T, st) <=> ProjectAgrees(m, S, st)
<1>1. /\ HasType(T, "project_opened") <=> HasType(S, "project_opened")
      /\ HasType(T, "project_draft_opened") <=> HasType(S, "project_draft_opened")
    BY SameProject
<1>2. Promotes(st, T) <=> Promotes(st, S)
    BY SameChats DEF Promotes
<1>3. (Opens(st, T) <=> Opens(st, S)) /\ (Hidden(st, T) <=> Hidden(st, S))
    BY <1>1, <1>2 DEF Opens, Hidden
<1> QED  BY <1>3 DEF ProjectAgrees

LEMMA SayQueue ==
    ASSUME NEW T \in SUBSET LineSet, NEW S \in SUBSET LineSet, SameLines(T, S, 3), NEW c, NEW m,
           NEW st
    PROVE  /\ QueueAgrees(m, T, st, c) <=> QueueAgrees(m, S, st, c)
           /\ QueueSettled(m, T, c) <=> QueueSettled(m, S, c)
BY SameQueue DEF QueueAgrees, QueueSettled

\* An image that was kept is kept when an event is written or lost.
LEMMA KeptWrite ==
    ASSUME Invariant, NEW e, NEW r, NEW u, Due(e, r, u), NEW R, NEW x, NewLine(R, x, e),
           mem' = ApplyEvent(mem, e), left = Logs, left' = Logs, snap' = snap, bak' = bak,
           \/ Lines' = R /\ lost' = lost
           \/ Lines' = Lines /\ lost' = lost \cup {LogOf(e)},
           NEW image, image \in {snap, bak}
    PROVE  "chats" \notin lost' =>
             /\ \A c \in Chats :
                 /\ ChatAgrees(mem', Lines', Loaded(image), c)
                 /\ "queued" \notin lost' => QueueAgrees(mem', Lines', Loaded(image), c)
                 /\ "turns" \notin lost' => TurnsAgree(mem', Lines', Loaded(image), c)
             /\ "projects" \notin lost' /\ ~HasType(Lines', "project_draft_discarded")
                /\ ~Reordered(Lines')
                => ProjectAgrees(mem', Lines', Loaded(image))
<1> SUFFICES ASSUME "chats" \notin lost'
             PROVE  /\ \A c \in Chats :
                        /\ ChatAgrees(mem', Lines', Loaded(image), c)
                        /\ "queued" \notin lost' => QueueAgrees(mem', Lines', Loaded(image), c)
                        /\ "turns" \notin lost' => TurnsAgree(mem', Lines', Loaded(image), c)
                    /\ "projects" \notin lost' /\ ~HasType(Lines', "project_draft_discarded")
                       /\ ~Reordered(Lines')
                       => ProjectAgrees(mem', Lines', Loaded(image))
    OBVIOUS
<1>0. e \in Events
    BY DEF Due
<1>1. /\ x.event = e /\ Adds(R, Lines, x) /\ Journal(R) /\ x \notin Lines
      /\ R \in SUBSET LineSet /\ Lines \in SUBSET LineSet
    BY <1>0, NewLineIs
<1>2. PICK st : st = Loaded(image)
    OBVIOUS
<1>3. /\ mem \in States /\ st \in States /\ Fits(mem, Lines, st, e)
    BY <1>2, DueIs
<1>4. Kept(st)
    BY <1>2 DEF Invariant, Remembers
<1>5. "chats" \notin lost
    OBVIOUS
<1>6. ~HalfTruncated("turns", "chats") /\ ~HalfTruncated("chats", "projects")
    BY DEF HalfTruncated
<1>7. \A c \in Chats :
          /\ ChatAgrees(mem, Lines, st, c)
          /\ "queued" \notin lost => QueueAgrees(mem, Lines, st, c)
          /\ "turns" \notin lost => TurnsAgree(mem, Lines, st, c)
    BY <1>4, <1>5, <1>6 DEF Kept
<1>8. "projects" \notin lost /\ ~HasType(Lines, "project_draft_discarded") /\ ~Reordered(Lines)
      => ProjectAgrees(mem, Lines, st)
    BY <1>4, <1>5, <1>6 DEF Kept
<1>9. \A c \in Chats : ChatAgrees(mem', R, st, c)
    BY <1>1, <1>3, <1>7, <1>0, ChatGrows
<1>10. \A c \in Chats : QueueAgrees(mem, Lines, st, c) => QueueAgrees(mem', R, st, c)
    <2> TAKE c \in Chats
    <2>1. \A y \in QueueLines(Lines, c) : x.event.type \in QueueTypes => Before(y, x)
        BY QueueDue
    <2> QED  BY <1>0, <1>1, <1>3, <2>1, QueueGrows
<1>11. \A c \in Chats : TurnsAgree(mem, Lines, st, c) => TurnsAgree(mem', R, st, c)
    <2> TAKE c \in Chats
    <2>1. TurnsInOrder(Lines, x, c)
        BY TurnsDue
    <2> QED  BY <1>0, <1>1, <1>3, <2>1, TurnsGrow
<1>12. ProjectAgrees(mem, Lines, st) /\ e.type # "project_draft_discarded"
       => ProjectAgrees(mem', R, st)
    BY <1>0, <1>1, <1>3, <1>7, ProjectGrows
<1>13. ~HasType(Lines', "project_draft_discarded") /\ ~Reordered(Lines')
       => ~HasType(Lines, "project_draft_discarded") /\ ~Reordered(Lines)
    BY <1>1 DEF Adds, HasType, Reordered
<1>14. CASE Lines' = R /\ lost' = lost
    <2>1. ~HasType(R, "project_draft_discarded") => e.type # "project_draft_discarded"
        BY <1>1 DEF Adds, HasType
    <2> QED  BY <1>2, <1>7, <1>8, <1>9, <1>10, <1>11, <1>12, <1>13, <1>14, <2>1
<1>15. CASE Lines' = Lines /\ lost' = lost \cup {LogOf(e)}
    <2>1. /\ x.source # 1 => SameLines(R, Lines, 1)
          /\ x.source # 3 => SameLines(R, Lines, 3)
          /\ x.source # 4 => SameLines(R, Lines, 4)
          /\ x.source # 0 => SameLines(R, Lines, 0)
          /\ LogOf(e) = "chats" <=> x.source = 1
          /\ LogOf(e) = "queued" <=> x.source = 3
          /\ LogOf(e) = "turns" <=> x.source = 4
          /\ LogOf(e) = "projects" <=> x.source = 0
        BY <1>0, SameLife
    <2>2. SameLines(R, Lines, 1)
        BY <1>15, <2>1
    <2>3. "queued" \notin lost' => SameLines(R, Lines, 3) /\ "queued" \notin lost
        BY <1>15, <2>1
    <2>4. "turns" \notin lost' => SameLines(R, Lines, 4) /\ "turns" \notin lost
        BY <1>15, <2>1
    <2>5. "projects" \notin lost' => SameLines(R, Lines, 0) /\ "projects" \notin lost
                                     /\ e.type # "project_draft_discarded"
        BY <1>0, <1>15, <2>1, LogKinds DEF ProjectTypes
    <2>6. \A c \in Chats : ChatAgrees(mem', Lines, st, c)
        BY <1>1, <1>9, <2>2, SameChats
    <2>7. \A c \in Chats : "queued" \notin lost' => QueueAgrees(mem', Lines, st, c)
        BY <1>1, <1>7, <1>10, <2>3, SayQueue
    <2>8. \A c \in Chats : "turns" \notin lost' => TurnsAgree(mem', Lines, st, c)
        BY <1>1, <1>7, <1>11, <2>2, <2>4, SayTurns
    <2>9. "projects" \notin lost' /\ ~HasType(Lines', "project_draft_discarded")
          /\ ~Reordered(Lines') => ProjectAgrees(mem', Lines, st)
        BY <1>1, <1>8, <1>12, <1>13, <2>2, <2>5, SayProject
    <2> QED  BY <1>2, <1>15, <2>6, <2>7, <2>8, <2>9
<1> QED  BY <1>14, <1>15

\* An event due is written, or lost, and the invariant stays.
LEMMA WriteStep ==
    ASSUME Invariant, NEW e, WriteEvent(e), Due(e, chain', used'),
           NEW k \in Nat, Moves(chain, chain', k), chain' \in Seq(Tasks), ~At("truncate"),
           used \subseteq used', IsFiniteSet(used'), Staged',
           UNCHANGED <<left, now, up, calls, crashes>>,
           \A c \in Chats : ToDiscard(c) /\ Known(mem', c) /\ mem'.chats[c].draft => ToDiscard(c)'
    PROVE  Invariant'
<1>1. /\ mem' = ApplyEvent(mem, e) /\ snap' = snap /\ bak' = bak /\ now' = now /\ left' = left
      /\ up' = up /\ calls' = calls /\ crashes' = crashes
    BY DEF WriteEvent
<1>2. e \in Events /\ Typed /\ left = Logs
    BY AllThere DEF Due, Invariant, Ordered
<1>3. /\ GoodLog(log') /\ torn' \subseteq Logs /\ lost' \subseteq Logs
      /\ \E R, x : /\ NewLine(R, x, e)
                   /\ \/ Lines' = R /\ lost' = lost
                      \/ Lines' = Lines /\ lost' = lost \cup {LogOf(e)}
    BY <1>2, WrittenOrLost
<1>4. PICK R, x : /\ NewLine(R, x, e)
                  /\ \/ Lines' = R /\ lost' = lost
                     \/ Lines' = Lines /\ lost' = lost \cup {LogOf(e)}
    BY <1>3
<1>5. mem' \in States
    BY <1>1, <1>2, HeldGrows
<1>6. Typed'
    BY <1>1, <1>2, <1>3, <1>5 DEF Typed, GoodLog
<1>7. Ordered'
    BY <1>1, <1>4, OrderedWrite
<1>8. AllSettled' /\ PromotionsFirst' /\ DraftOver' /\ DraftsBegun'
    <2>1. AllSettled'
        BY <1>1, <1>4, SettledWrite
    <2>2. PromotionsFirst'
        BY <1>1, <1>4, PromotionsWrite
    <2>3. DraftOver'
        BY <1>1, <1>4, OverWrite
    <2>4. DraftsBegun'
        BY <1>1, <1>2, <1>4, DraftsWrite
    <2> QED  BY <2>1, <2>2, <2>3, <2>4
<1>9. Remembers'
    <2>1. ASSUME NEW image, image \in {snap, bak}
          PROVE  "chats" \notin lost' =>
             /\ \A c \in Chats :
                 /\ ChatAgrees(mem', Lines', Loaded(image), c)
                 /\ "queued" \notin lost' => QueueAgrees(mem', Lines', Loaded(image), c)
                 /\ "turns" \notin lost' => TurnsAgree(mem', Lines', Loaded(image), c)
             /\ "projects" \notin lost' /\ ~HasType(Lines', "project_draft_discarded")
                /\ ~Reordered(Lines')
                => ProjectAgrees(mem', Lines', Loaded(image))
        BY <1>1, <1>2, <1>4, <2>1, KeptWrite
    <2> QED  BY <1>1, <2>1 DEF Remembers, Kept
<1> QED  BY <1>6, <1>7, <1>8, <1>9 DEF Invariant, Told

---------------------------------------------------------------------------
(* What is due *)

LEMMA Head1Is ==
    ASSUME Invariant, chain # <<>>
    PROVE  /\ Head1 = chain[1] /\ chain[1] \in Tasks /\ 1 \in 1 .. Len(chain)
           /\ chain \in Seq(Tasks) /\ Tail(chain) \in Seq(Tasks)
           /\ chain[1].op \in {"draft", "promote", "discard"} => chain[1].chat \in Chats
           /\ chain[1].op = "write" => chain[1].event \in Requested
<1>1. chain \in Seq(Tasks)
    BY TypedIs DEF Invariant
<1>2. /\ Head1 = chain[1] /\ chain[1] \in Tasks /\ 1 \in 1 .. Len(chain)
      /\ Tail(chain) \in Seq(Tasks)
    BY <1>1, TailIs DEF Head1
<1>3. chain[1].op \in {"draft", "promote", "discard"} => chain[1].chat \in Chats
    BY <1>2 DEF Tasks
<1>4. chain[1].op = "write" => chain[1].event \in Requested
    BY <1>2 DEF Tasks
<1> QED  BY <1>1, <1>2, <1>3, <1>4

\* An event that a request stamped is due when its turn comes.
LEMMA RequestDue ==
    ASSUME Invariant, chain # <<>>, chain[1].op = "write"
    PROVE  Due(chain[1].event, Tail(chain), used)
<1> DEFINE e == chain[1].event
<1>1. chain \in Seq(Tasks) /\ WriteAt(chain, 1) /\ 1 \in 1 .. Len(chain)
    BY Head1Is DEF WriteAt
<1>2. /\ e \in Events /\ e.at \in Nat /\ e.chat \in Chats
      /\ e.type \notin ProjectTypes /\ e.type # "chat_promoted" /\ e.type # "chat_draft_discarded"
    BY <1>1, WriteKinds
<1>3. Moves(chain, Tail(chain), 1)
    BY <1>1, MovesTail
<1>4. \A i : WriteAt(Tail(chain), i)
             => /\ i + 1 \in 1 .. Len(chain) /\ 1 < i + 1 /\ i + 1 # 1
                /\ WriteAt(chain, i + 1) /\ chain[i + 1] = Tail(chain)[i]
    <2> TAKE i
    <2> HAVE WriteAt(Tail(chain), i)
    <2>1. /\ i \in 1 .. Len(Tail(chain)) /\ i + 1 \in 1 .. Len(chain)
          /\ WriteAt(chain, i + 1) /\ chain[i + 1] = Tail(chain)[i]
        BY <1>3, MovesIs
    <2> QED  BY <2>1
<1>5. /\ StampsOrdered(Lines, chain, now) /\ Born(Held, Lines, chain, used)
      /\ SentOnce(Held, Lines, chain, used) /\ Virgin(Held, Lines, chain, used)
      /\ ProjectFirst(Lines, chain)
    BY DEF Invariant, Ordered
<1>6. /\ e.at <= now
      /\ \A j \in 1 .. Len(chain) : WriteAt(chain, j) /\ 1 < j => e.at <= chain[j].event.at
      /\ \A y \in Lines : y.source \in {3, 4} => y.event.at <= e.at
    BY <1>1, <1>5 DEF StampsOrdered
<1>7. /\ \A y \in Lines : y.event.type = "chat_created" /\ y.event.chat = e.chat
                          => y.event.at <= e.at
      /\ e.chat \in used
      /\ e.type = "chat_created" =>
             /\ Blank(Held, Lines, e.chat)
             /\ \A j \in 1 .. Len(chain) : WriteAt(chain, j) /\ chain[j].event.chat = e.chat => j = 1
      /\ \A j \in 1 .. Len(chain) :
             WriteAt(chain, j) /\ chain[j].event.type = "chat_created" /\ chain[j].event.chat = e.chat
             => j = 1
    BY <1>1, <1>2, <1>5 DEF Born
<1>8. /\ e.type \in QueueTypes => About(chain, 1, e.value) /\ e.value \in Msgs
      /\ e.type \in QueueTypes => e.value \in used
    <2>1. e.type \in QueueTypes => About(chain, 1, e.value) /\ e.value \in Msgs
        BY <1>1, <1>2, EventKinds DEF About
    <2> QED  BY <1>1, <1>5, <2>1 DEF SentOnce
<1>9. /\ e.type = "queued_message_enqueued" => Absent(Held, Lines, e.value)
      /\ \A j \in 1 .. Len(chain) :
             /\ WriteAt(chain, j) /\ chain[j].event.type = "queued_message_enqueued"
             /\ e.type \in QueueTypes /\ chain[j].event.value = e.value
             => j = 1
    BY <1>1, <1>5, <1>8 DEF SentOnce
<1>10. "project" \in used
    BY <1>1, <1>5 DEF Virgin
<1>11. \A y \in Lines : y.event.type = "project_draft_opened" => y.event.at <= e.at
    BY <1>1, <1>5 DEF ProjectFirst
<1>12. \A st \in Held : Fits(mem, Lines, st, e)
    <2>1. mem \in Held
        BY DEF Held
    <2> QED  BY <1>2, <1>7, <2>1 DEF Fits, Blank, ProjectTypes
<1>13. Fresh(Lines, e)
    BY <1>9 DEF Fresh, Absent
<1>14. \A i \in 1 .. Len(Tail(chain)) : WriteAt(Tail(chain), i) =>
           /\ e.at <= Tail(chain)[i].event.at
           /\ Tail(chain)[i].event.type = "chat_created" \/ e.type = "chat_created"
              => Tail(chain)[i].event.chat # e.chat
           /\ Tail(chain)[i].event.type = "queued_message_enqueued" /\ e.type \in QueueTypes
              => Tail(chain)[i].event.value # e.value
    <2> TAKE i \in 1 .. Len(Tail(chain))
    <2> HAVE WriteAt(Tail(chain), i)
    <2>1. PICK j : j = i + 1
        OBVIOUS
    <2>2. j \in 1 .. Len(chain) /\ 1 < j /\ j # 1 /\ WriteAt(chain, j) /\ chain[j] = Tail(chain)[i]
        BY <1>4, <2>1
    <2>3. e.at <= chain[j].event.at
        BY <1>6, <2>2
    <2>4. chain[j].event.type = "chat_created" \/ e.type = "chat_created"
          => chain[j].event.chat # e.chat
        BY <1>7, <2>2
    <2>5. chain[j].event.type = "queued_message_enqueued" /\ e.type \in QueueTypes
          => chain[j].event.value # e.value
        BY <1>9, <2>2
    <2> QED  BY <2>2, <2>3, <2>4, <2>5
<1> HIDE DEF e
<1>15. Due(e, Tail(chain), used)
    BY <1>2, <1>6, <1>7, <1>8, <1>10, <1>11, <1>12, <1>13, <1>14 DEF Due, ProjectTypes
<1> QED  BY <1>15 DEF e

\* An event stamped when its turn comes is due.
LEMMA ChainedDue ==
    ASSUME Invariant, NEW e \in Events, e.at = now,
           e.type \in ProjectTypes \cup {"chat_created", "chat_promoted", "chat_draft_discarded"},
           NEW r \in Seq(Tasks), NEW k \in Nat, Moves(chain, r, k), NEW u, used \subseteq u,
           "project" \in u, e.chat \in Chats => e.chat \in u,
           e.type = "chat_created" => e.chat \notin used,
           e.type = "chat_promoted" => /\ Alive(mem, e.chat) /\ mem.chats[e.chat].draft
                                       /\ mem.project # "none" /\ up,
           e.type = "chat_draft_discarded" => Known(mem, e.chat) /\ mem.chats[e.chat].draft,
           e.type = "project_draft_opened" => "project" \notin used
    PROVE  Due(e, r, u)
<1>1. /\ StampsOrdered(Lines, chain, now) /\ Born(Held, Lines, chain, used)
      /\ Virgin(Held, Lines, chain, used) /\ mem \in Held
      /\ chain \in Seq(Tasks) /\ now \in Nat
    BY TypedIs DEF Invariant, Ordered
<1>2. e.type \in ProjectTypes => e.chat \notin Chats
    BY EventKinds, ValueAssumption
<1>3. e.type \notin ProjectTypes => e.chat \in Chats
    BY EventKinds
<1>4. Source(LogOf(e)) \notin {3, 4}
    <2>1. LogOf(e) \in Logs /\ LogOf(e) # "queued" /\ LogOf(e) # "turns"
        BY LogKinds DEF ProjectTypes, QueueTypes
    <2> QED  BY <2>1, SourceKinds
<1>5. \A y \in Lines : y.event.at <= e.at
    BY <1>1 DEF StampsOrdered
<1>6. e.type = "chat_created" => Blank(Held, Lines, e.chat)
    BY <1>1, <1>3 DEF Born, ProjectTypes
<1>7. e.type = "project_draft_opened" =>
          /\ Lines = {} /\ \A c \in Chats : ~Known(mem, c)
          /\ \A i \in 1 .. Len(chain) : ~WriteAt(chain, i)
    BY <1>1 DEF Virgin
<1>8. \A st \in Held : Fits(mem, Lines, st, e)
    BY <1>1, <1>6, <1>7 DEF Fits, Blank
<1>9. Fresh(Lines, e)
    BY DEF Fresh, ProjectTypes
<1>10. \A j : /\ WriteAt(chain, j)
              /\ chain[j].event.type = "chat_created" \/ e.type = "chat_created"
              => chain[j].event.chat # e.chat
    <2> TAKE j
    <2> HAVE /\ WriteAt(chain, j)
             /\ chain[j].event.type = "chat_created" \/ e.type = "chat_created"
    <2>1. j \in 1 .. Len(chain) /\ chain[j].event.chat \in Chats
        BY <1>1, WriteKinds DEF WriteAt
    <2>2. CASE e.type \in ProjectTypes
        BY <1>2, <2>1, <2>2
    <2>3. CASE e.type = "chat_created"
        BY <1>1, <1>3, <2>1, <2>3 DEF Born, ProjectTypes
    <2>4. CASE e.type \in {"chat_promoted", "chat_draft_discarded"}
        <3>1. ~Blank(Held, Lines, e.chat)
            BY <2>4, KnownIs, <1>3 DEF Alive, ProjectTypes
        <3>2. chain[j].event.type = "chat_created" => Blank(Held, Lines, chain[j].event.chat)
            BY <1>1, <2>1 DEF Born
        <3> QED  BY <2>4, <3>1, <3>2
    <2> QED  BY <2>2, <2>3, <2>4
<1>11. \A i \in 1 .. Len(r) : WriteAt(r, i) =>
           (r[i].event.type = "chat_created" \/ e.type = "chat_created"
            => r[i].event.chat # e.chat)
    <2> TAKE i \in 1 .. Len(r)
    <2> HAVE WriteAt(r, i)
    <2>1. WriteAt(chain, i + k) /\ chain[i + k] = r[i]
        BY MovesIs
    <2>2. PICK j : j = i + k
        OBVIOUS
    <2> QED  BY <1>10, <2>1, <2>2
<1>12. e.type \notin QueueTypes /\ e.at <= now
    BY <1>1 DEF QueueTypes, ProjectTypes
<1> QED  BY <1>4, <1>5, <1>7, <1>8, <1>9, <1>11, <1>12 DEF Due

---------------------------------------------------------------------------
(* The tasks that write *)

\* A task that writes an event and is done.
LEMMA DoneStep ==
    ASSUME Invariant, chain # <<>>, NEW e, Done, WriteEvent(e), Due(e, Tail(chain), used'),
           ~At("truncate"), chain[1].op # "discard",
           used \subseteq used', IsFiniteSet(used'), UNCHANGED <<left, now, up, calls, crashes>>
    PROVE  Invariant'
<1>1. /\ chain' = Tail(chain) /\ left' = left /\ up' = up
      /\ chain \in Seq(Tasks) /\ chain' \in Seq(Tasks) /\ Typed /\ Staged
    BY Head1Is DEF Done, Invariant, Ordered
<1>2. left = Logs
    BY <1>1, AllThere
<1>3. Staged'
    BY <1>1, <1>2, StagedTail
<1>4. Moves(chain, chain', 1)
    BY <1>1, MovesTail
<1>5. \A c \in Chats : ToDiscard(c) => ToDiscard(c)'
    BY <1>1, DiscardTail
<1> QED  BY <1>1, <1>3, <1>4, <1>5, WriteStep

\* The write of a request keeps the invariant.
LEMMA WriteActs ==
    ASSUME Invariant, chain # <<>>, Write, UNCHANGED <<left, now, up, calls, crashes>>
    PROVE  Invariant'
<1>1. /\ Head1 = chain[1] /\ chain[1].op = "write" /\ Done /\ WriteEvent(chain[1].event)
      /\ used' = used
    BY Head1Is DEF Write
<1>2. Due(chain[1].event, Tail(chain), used)
    BY <1>1, RequestDue
<1>3. IsFiniteSet(used') /\ ~At("truncate") /\ chain[1].op # "discard"
    BY <1>1 DEF Invariant, Typed, At
<1> QED  BY <1>1, <1>2, <1>3, DoneStep

\* The opening of the project keeps the invariant.
LEMMA OpenProjectActs ==
    ASSUME Invariant, chain # <<>>, OpenProject, UNCHANGED <<left, now, up, calls, crashes>>
    PROVE  Invariant'
<1>1. chain[1].op = "open" /\ chain \in Seq(Tasks) /\ Tail(chain) \in Seq(Tasks) /\ Typed
    BY Head1Is DEF OpenProject, Invariant
<1>2. ~At("truncate") /\ chain[1].op # "discard"
    BY <1>1 DEF At
<1>3. CASE Skip
    BY <1>2, <1>3, SkipStep
<1>4. CASE /\ Done /\ WriteEvent(Event("project_opened", NoValue, NoValue))
           /\ used' = used \cup {"project"}
    <2> DEFINE e == Event("project_opened", NoValue, NoValue)
    <2>1. e \in Events
        BY <1>1, ProjectStamps
    <2>2. e.type = "project_opened" /\ e.chat = NoValue /\ e.at = now /\ WriteEvent(e)
        BY <1>4 DEF Event
    <2> HIDE DEF e
    <2>3. used \subseteq used' /\ "project" \in used' /\ IsFiniteSet(used')
        BY <1>1, <1>4, MoreUsed
    <2>4. Moves(chain, Tail(chain), 1)
        BY <1>1, MovesTail
    <2>5. e.type \in ProjectTypes /\ (e.chat \in Chats => e.chat \in used')
        BY <2>2, ValueAssumption DEF ProjectTypes
    <2>6. Due(e, Tail(chain), used')
        BY <1>1, <2>1, <2>2, <2>3, <2>4, <2>5, ChainedDue
    <2> QED  BY <1>2, <1>4, <2>2, <2>3, <2>6, DoneStep
<1> QED  BY <1>3, <1>4 DEF OpenProject

\* The promotion of a draft keeps the invariant.
LEMMA PromoteActs ==
    ASSUME Invariant, chain # <<>>, Promote, UNCHANGED <<left, now, up, calls, crashes>>
    PROVE  Invariant'
<1>1. /\ chain[1].op = "promote" /\ chain \in Seq(Tasks) /\ Tail(chain) \in Seq(Tasks) /\ Typed
      /\ Head1 = chain[1] /\ chain[1].chat \in Chats /\ 1 \in 1 .. Len(chain)
    BY Head1Is DEF Promote, Invariant
<1>2. ~At("truncate") /\ chain[1].op # "discard"
    BY <1>1 DEF At
<1>3. up
    BY <1>1 DEF Invariant, Ordered, Staged
<1>4. CASE Skip
    BY <1>2, <1>4, SkipStep
<1>5. CASE /\ Alive(mem, Head1.chat) /\ mem.chats[Head1.chat].draft /\ mem.project # "none"
           /\ Done /\ WriteEvent(Event("chat_promoted", Head1.chat, NoValue)) /\ UNCHANGED used
    <2>0. PICK c \in Chats : c = Head1.chat
        BY <1>1
    <2> DEFINE e == Event("chat_promoted", c, NoValue)
    <2>1. e \in Events
        BY <1>1, ChatStamps
    <2>2. e.type = "chat_promoted" /\ e.chat = c /\ e.at = now /\ WriteEvent(e)
        BY <1>5, <2>0 DEF Event
    <2> HIDE DEF e
    <2>3. used \subseteq used' /\ IsFiniteSet(used') /\ used' = used
        BY <1>1, <1>5, MoreUsed
    <2>4. Moves(chain, Tail(chain), 1)
        BY <1>1, MovesTail
    <2>5. Alive(mem, c) /\ mem.chats[c].draft /\ mem.project # "none"
        BY <1>5, <2>0
    <2>6. "project" \in used /\ c \in used
        <3>1. Known(mem, c)
            BY <2>5 DEF Alive
        <3>2. "project" \in used /\ ~Blank(Held, Lines, c)
            BY <3>1, KnownIs
        <3> QED  BY <3>2 DEF Invariant, Ordered, Born
    <2>7. e.type \in ProjectTypes \cup {"chat_created", "chat_promoted", "chat_draft_discarded"}
          /\ (e.chat \in Chats => e.chat \in used')
        BY <2>2, <2>3, <2>6
    <2>8. Due(e, Tail(chain), used')
        BY <1>1, <1>3, <2>1, <2>2, <2>3, <2>4, <2>5, <2>6, <2>7, ChainedDue
    <2> QED  BY <1>2, <1>5, <2>2, <2>3, <2>8, DoneStep
<1> QED  BY <1>4, <1>5 DEF Promote

\* The discarding of a draft project keeps the invariant.
LEMMA DiscardProjectActs ==
    ASSUME Invariant, chain # <<>>, DiscardProject, UNCHANGED <<left, now, up, calls, crashes>>
    PROVE  Invariant'
<1>1. /\ chain[1].op = "discard project" /\ chain \in Seq(Tasks) /\ Tail(chain) \in Seq(Tasks)
      /\ Typed /\ mem \in Held
    BY Head1Is DEF DiscardProject, Invariant, Held
<1>2. ~At("truncate") /\ chain[1].op # "discard"
    BY <1>1 DEF At
<1>3. CASE Skip
    BY <1>2, <1>3, SkipStep
<1>4. CASE /\ mem.project = "draft" /\ Done /\ UNCHANGED used
           /\ WriteEvent(Event("project_draft_discarded", NoValue, NoValue))
    <2> DEFINE e == Event("project_draft_discarded", NoValue, NoValue)
    <2>1. e \in Events
        BY <1>1, ProjectStamps
    <2>2. e.type = "project_draft_discarded" /\ e.chat = NoValue /\ e.at = now /\ WriteEvent(e)
        BY <1>4 DEF Event
    <2> HIDE DEF e
    <2>3. used \subseteq used' /\ IsFiniteSet(used') /\ used' = used
        BY <1>1, <1>4, MoreUsed
    <2>4. Moves(chain, Tail(chain), 1)
        BY <1>1, MovesTail
    <2>5. e.type \in ProjectTypes /\ (e.chat \in Chats => e.chat \in used')
        BY <2>2, ValueAssumption DEF ProjectTypes
    <2>6. "project" \in used'
        BY <1>1, <1>4, <2>3 DEF Invariant, Ordered, Virgin
    <2>7. Due(e, Tail(chain), used')
        BY <1>1, <2>1, <2>2, <2>3, <2>4, <2>5, <2>6, ChainedDue
    <2> QED  BY <1>2, <1>4, <2>2, <2>3, <2>7, DoneStep
<1> QED  BY <1>3, <1>4 DEF DiscardProject

\* A task that goes on to another stage.
LEMMA GoesType ==
    ASSUME NEW q \in Seq(Tasks), q # <<>>, NEW op, NEW r, Goes(q, r, op),
           Task(op, q[1].chat, q[1].event) \in Tasks
    PROVE  r \in Seq(Tasks) /\ r # <<>> /\ r[1].op = op
<1>4. r \in Seq(Tasks)
    BY GoesIs
<1>5. r # <<>> /\ r[1] = Task(op, q[1].chat, q[1].event)
    BY GoesIs
<1>6. r[1].op = op
    BY <1>5 DEF Task
<1> QED  BY <1>4, <1>5, <1>6

\* The discarding of a draft keeps the invariant.
LEMMA DiscardDraftActs ==
    ASSUME Invariant, chain # <<>>, DiscardDraft, UNCHANGED <<left, now, up, calls, crashes>>
    PROVE  Invariant'
<1>1. /\ chain[1].op = "discard" /\ chain \in Seq(Tasks) /\ Typed /\ Staged
      /\ Head1 = chain[1] /\ chain[1].chat \in Chats
    BY Head1Is DEF DiscardDraft, Invariant, Ordered
<1>2. ~At("truncate") /\ left = Logs
    <2>1. ~At("truncate")
        BY <1>1 DEF At
    <2> QED  BY <1>1, <2>1, AllThere
<1>3. CASE Skip /\ ~(Known(mem, Head1.chat) /\ mem.chats[Head1.chat].draft)
    BY <1>1, <1>2, <1>3, SkipStep
<1>4. CASE /\ Known(mem, Head1.chat) /\ mem.chats[Head1.chat].draft
           /\ Then("discard project") /\ UNCHANGED used
           /\ WriteEvent(Event("chat_draft_discarded", Head1.chat, NoValue))
    <2>0. PICK c \in Chats : c = Head1.chat
        BY <1>1
    <2> DEFINE e == Event("chat_draft_discarded", c, NoValue)
    <2>1. e \in Events
        BY <1>1, ChatStamps
    <2>2. e.type = "chat_draft_discarded" /\ e.chat = c /\ e.at = now /\ WriteEvent(e)
        BY <1>4, <2>0 DEF Event
    <2> HIDE DEF e
    <2>3. used \subseteq used' /\ IsFiniteSet(used') /\ used' = used
        BY <1>1, <1>4, MoreUsed
    <2>4. Goes(chain, chain', "discard project")
        BY <1>4 DEF Then, Goes, Head1
    <2>5. Task("discard project", chain[1].chat, chain[1].event) \in Tasks
        <3>1. chain[1].event = NoEvent
            BY <1>1, Head1Is DEF Tasks
        <3> QED  BY <1>1, <3>1 DEF Tasks, Task
    <2>6. chain' \in Seq(Tasks) /\ chain'[1].op = "discard project"
        BY <1>1, <2>4, <2>5, GoesType
    <2>7. chain' \in Seq(Tasks)
        BY <2>6
    <2>8. Moves(chain, chain', 0)
        <3>1. ~WriteAt(chain', 1)
            BY <2>6 DEF WriteAt
        <3> QED  BY <1>1, <2>4, <3>1, MovesGoes
    <2>9. Known(mem, c) /\ mem.chats[c].draft
        BY <1>4, <2>0
    <2>10. "project" \in used /\ c \in used
        <3>1. "project" \in used /\ ~Blank(Held, Lines, c)
            BY <2>9, KnownIs
        <3> QED  BY <3>1 DEF Invariant, Ordered, Born
    <2>11. e.type \in ProjectTypes \cup {"chat_created", "chat_promoted", "chat_draft_discarded"}
           /\ (e.chat \in Chats => e.chat \in used')
        BY <2>2, <2>3, <2>10
    <2>12. Due(e, chain', used')
        BY <1>1, <2>1, <2>2, <2>3, <2>7, <2>8, <2>9, <2>10, <2>11, ChainedDue
    <2>13. Staged'
        <3>1. chain'[1].op \in {"discard project", "backup", "truncate"}
              /\ ~(chain'[1].op # "discard project") /\ chain'[1].op # "truncate"
            BY <2>6
        <3> QED  BY <1>1, <1>2, <2>4, <3>1, StagedGoes
    <2>14. ~Known(mem', c)
        <3>1. mem' = ApplyEvent(mem, e) /\ mem \in States
            BY <2>2 DEF WriteEvent, Invariant, Typed
        <3>2. mem'.chats[c] = NoValue
            BY <2>1, <2>2, <2>9, <3>1, ApplyDiscarded
        <3> QED  BY <3>2 DEF Known
    <2>15. \A d \in Chats : ToDiscard(d) /\ Known(mem', d) /\ mem'.chats[d].draft => ToDiscard(d)'
        <3>1. \A d \in Chats : ToDiscard(d) /\ d # c => ToDiscard(d)'
            BY <1>1, <2>0, <2>4, DiscardGoes
        <3> QED  BY <2>14, <3>1
    <2> QED  BY <1>2, <2>2, <2>3, <2>7, <2>8, <2>12, <2>13, <2>15, WriteStep
<1> QED  BY <1>3, <1>4 DEF DiscardDraft

LEMMA StagedSame ==
    ASSUME Staged, ~At("backup"), ~At("truncate"), chain' = chain, left' = Logs, up' = up
    PROVE  Staged'
<1>1. ~At("backup")' /\ ~At("truncate")'
    BY DEF At
<1> QED  BY <1>1 DEF Staged

\* The making of a draft, after its project's, keeps the invariant.
LEMMA EnsureDraftActs ==
    ASSUME Invariant, chain # <<>>, EnsureDraft, UNCHANGED <<left, now, up, calls, crashes>>
    PROVE  Invariant'
<1>1. /\ chain[1].op = "draft" /\ chain \in Seq(Tasks) /\ Typed /\ Staged /\ mem \in Held
      /\ Tail(chain) \in Seq(Tasks) /\ Head1 = chain[1] /\ chain[1].chat \in Chats
    BY Head1Is DEF EnsureDraft, Invariant, Ordered, Held
<1>2. ~At("truncate") /\ ~At("backup") /\ chain[1].op # "discard"
    BY <1>1 DEF At
<1>3. left = Logs
    BY <1>1, <1>2, AllThere
<1>4. CASE Skip
    BY <1>2, <1>4, SkipStep
<1>5. CASE /\ mem.project = "none" /\ "project" \notin used
           /\ WriteEvent(Event("project_draft_opened", NoValue, NoValue))
           /\ used' = used \cup {"project"} /\ UNCHANGED chain
    <2> DEFINE e == Event("project_draft_opened", NoValue, NoValue)
    <2>1. e \in Events
        BY <1>1, ProjectStamps
    <2>2. e.type = "project_draft_opened" /\ e.chat = NoValue /\ e.at = now /\ WriteEvent(e)
        BY <1>5 DEF Event
    <2> HIDE DEF e
    <2>3. used \subseteq used' /\ "project" \in used' /\ IsFiniteSet(used') /\ chain' = chain
        BY <1>1, <1>5, MoreUsed
    <2>4. Moves(chain, chain', 0)
        BY <2>3, MovesNot
    <2>5. e.type \in ProjectTypes /\ (e.chat \in Chats => e.chat \in used')
        BY <2>2, ValueAssumption DEF ProjectTypes
    <2>6. Due(e, chain', used')
        BY <1>1, <1>5, <2>1, <2>2, <2>3, <2>4, <2>5, ChainedDue
    <2>7. Staged'
        BY <1>1, <1>2, <1>3, <2>3, StagedSame
    <2>8. \A c \in Chats : ToDiscard(c) => ToDiscard(c)'
        BY <2>3 DEF ToDiscard
    <2> QED  BY <1>1, <1>2, <2>2, <2>3, <2>4, <2>6, <2>7, <2>8, WriteStep
<1>6. CASE /\ mem.project # "none" /\ Head1.chat \notin used
           /\ Done /\ WriteEvent(Event("chat_created", Head1.chat, TRUE))
           /\ used' = used \cup {Head1.chat}
    <2>0. PICK c \in Chats : c = Head1.chat
        BY <1>1
    <2> DEFINE e == Event("chat_created", c, TRUE)
    <2>1. e \in Events
        BY <1>1, ChatStamps
    <2>2. e.type = "chat_created" /\ e.chat = c /\ e.at = now /\ WriteEvent(e)
        BY <1>6, <2>0 DEF Event
    <2> HIDE DEF e
    <2>3. used \subseteq used' /\ IsFiniteSet(used') /\ c \in used' /\ c \notin used
        BY <1>1, <1>6, <2>0, MoreUsed
    <2>4. Moves(chain, Tail(chain), 1)
        BY <1>1, MovesTail
    <2>5. "project" \in used'
        <3>1. "project" \in used
            BY <1>1, <1>6 DEF Invariant, Ordered, Virgin
        <3> QED  BY <2>3, <3>1
    <2>6. e.type \in ProjectTypes \cup {"chat_created", "chat_promoted", "chat_draft_discarded"}
          /\ (e.chat \in Chats => e.chat \in used')
        BY <2>2, <2>3
    <2>7. Due(e, Tail(chain), used')
        BY <1>1, <2>1, <2>2, <2>3, <2>4, <2>5, <2>6, ChainedDue
    <2> QED  BY <1>2, <1>6, <2>2, <2>3, <2>7, DoneStep
<1> QED  BY <1>4, <1>5, <1>6 DEF EnsureDraft

---------------------------------------------------------------------------
(* Compaction *)

MinOne == \A n \in Nat : Min({n}) = n

LEMMA MinOfOne ==
    MinOne
<1> SUFFICES ASSUME NEW n \in Nat
             PROVE  Min({n}) = n
    BY DEF MinOne
<1>1. n \in {n} /\ \A y \in {n} : n <= y
    OBVIOUS
<1> QED  BY <1>1 DEF Min

LEMMA StageIndex ==
    /\ Head1.op = "compact" => SelectInSeq(Stages, LAMBDA op : op = Head1.op) = 1
    /\ Head1.op = "backup" => SelectInSeq(Stages, LAMBDA op : op = Head1.op) = 2
    /\ Head1.op = "truncate" => SelectInSeq(Stages, LAMBDA op : op = Head1.op) = 3
<1> DEFINE I == {i \in 1 .. Len(Stages) : Stages[i] = Head1.op}
<1>1. SelectInSeq(Stages, LAMBDA op : op = Head1.op) = IF I # {} THEN Min(I) ELSE 0
    BY DEF SelectInSeq
<1>2. I = {i \in 1 .. 3 : Stages[i] = Head1.op}
    BY StagesAre
<1>3. Head1.op = "compact" => I = {1}
    BY <1>2, StagesAre
<1>4. Head1.op = "backup" => I = {2}
    BY <1>2, StagesAre
<1>5. Head1.op = "truncate" => I = {3}
    BY <1>2, StagesAre
<1> HIDE DEF I
<1>6. Min({1}) = 1 /\ Min({2}) = 2 /\ Min({3}) = 3
    BY MinOfOne DEF MinOne
<1> QED  BY <1>1, <1>3, <1>4, <1>5, <1>6

LEMMA NextStageIs ==
    ASSUME NextStage
    PROVE  /\ Head1.op = "compact" => Goes(chain, chain', "backup")
           /\ Head1.op = "backup" => Goes(chain, chain', "truncate")
           /\ Head1.op = "truncate" => Done
<1> DEFINE i == SelectInSeq(Stages, LAMBDA op : op = Head1.op)
<1>1. IF i < Len(Stages) THEN Then(Stages[i + 1]) ELSE Done
    BY DEF NextStage
<1>2. /\ Head1.op = "compact" => i = 1
      /\ Head1.op = "backup" => i = 2
      /\ Head1.op = "truncate" => i = 3
    BY StageIndex
<1> HIDE DEF i
<1>3. /\ Head1.op = "compact" => Then("backup")
      /\ Head1.op = "backup" => Then("truncate")
      /\ Head1.op = "truncate" => Done
    BY <1>1, <1>2, StagesAre
<1> QED  BY <1>3 DEF Then, Goes, Head1

\* The store's state as an image is remembered.
LEMMA MemKept ==
    ASSUME Invariant, left = Logs
    PROVE  Kept(mem)
<1> SUFFICES ASSUME "chats" \notin lost
             PROVE  /\ \A c \in Chats :
                        /\ ChatAgrees(mem, Lines, mem, c)
                        /\ "queued" \notin lost => QueueAgrees(mem, Lines, mem, c)
                        /\ "turns" \notin lost => TurnsAgree(mem, Lines, mem, c)
                    /\ "projects" \notin lost /\ ~HasType(Lines, "project_draft_discarded")
                       /\ ~Reordered(Lines)
                       => ProjectAgrees(mem, Lines, mem)
    BY DEF Kept
<1> DEFINE st == Loaded(snap)
<1>1. mem \in States /\ mem \in Held /\ Journal(Lines) /\ EnqueuedFirst(Lines)
    BY TypedIs DEF Invariant, Typed, Ordered, SentOnce
<1>2. ~HalfTruncated("turns", "chats") /\ ~HalfTruncated("chats", "projects")
    BY DEF HalfTruncated
<1>3. Kept(st)
    BY DEF Invariant, Remembers
<1> HIDE DEF st
<1>4. /\ \A c \in Chats :
             /\ ChatAgrees(mem, Lines, st, c)
             /\ "turns" \notin lost => TurnsAgree(mem, Lines, st, c)
      /\ "projects" \notin lost /\ ~HasType(Lines, "project_draft_discarded")
         /\ ~Reordered(Lines) => ProjectAgrees(mem, Lines, st)
    BY <1>2, <1>3 DEF Kept
<1>5. \A c \in Chats : ChatAgrees(mem, Lines, mem, c)
    BY <1>4, SelfChat
<1>6. ASSUME NEW c \in Chats, "queued" \notin lost
      PROVE  QueueAgrees(mem, Lines, mem, c)
    <2>1. QueueSettled(mem, Lines, c)
        BY <1>6 DEF Invariant, Told, AllSettled
    <2>2. Distinct(mem.queue[c])
        BY <1>1 DEF Invariant, Ordered, SentOnce
    <2> QED  BY <1>1, <2>1, <2>2, SelfQueue
<1>7. ASSUME NEW c \in Chats, "turns" \notin lost
      PROVE  TurnsAgree(mem, Lines, mem, c)
    <2>1. TurnsSettled(mem, Lines, c)
        BY <1>7 DEF Invariant, Told, AllSettled
    <2>2. TurnsAgree(mem, Lines, st, c)
        BY <1>4, <1>7
    <2> QED  BY <1>1, <2>1, <2>2, SelfTurns
<1>8. ASSUME "projects" \notin lost, ~HasType(Lines, "project_draft_discarded"), ~Reordered(Lines)
      PROVE  ProjectAgrees(mem, Lines, mem)
    <2>1. OverByCreation(mem, Lines) /\ OverByPromotion(mem, Lines)
        BY <1>8 DEF Invariant, Told, DraftOver
    <2>2. HasType(Lines, "project_draft_opened") => BegunHere(Lines)
        BY DEF Invariant, Told, DraftsBegun
    <2>3. ProjectAgrees(mem, Lines, st)
        BY <1>4, <1>8
    <2> QED  BY <1>1, <1>4, <2>1, <2>2, <2>3, SelfProject
<1> QED  BY <1>5, <1>6, <1>7, <1>8

\* A snapshot written from memory agrees with the lines that are still there.
LEMMA StageStep ==
    ASSUME Invariant, chain # <<>>, NEW op, Goes(chain, chain', op),
           chain[1].op \in {"compact", "backup"},
           Task(op, chain[1].chat, chain[1].event) \in Tasks,
           chain'[1].op \in {"backup", "truncate"},
           snap' = mem, bak' = bak \/ bak' = mem,
           chain'[1].op = "truncate" => bak' = mem,
           UNCHANGED <<log, torn, lost, mem, left, used, now, up, calls, crashes>>
    PROVE  Invariant'
<1>1. /\ chain \in Seq(Tasks) /\ Typed /\ Staged /\ mem \in States
    BY TypedIs DEF Invariant, Ordered, Typed
<1>2. left = Logs /\ chain[1].op # "discard"
    BY <1>1, AllThere DEF At
<1>3. chain' \in Seq(Tasks)
    BY <1>1, GoesIs
<1>4. Typed'
    BY <1>1, <1>3 DEF Typed
<1>5. Staged'
    <2>1. chain'[1].op # "truncate" \/ bak' = mem'
        OBVIOUS
    <2>2. chain'[1].op \in {"discard project", "backup", "truncate"}
          /\ (chain'[1].op # "discard project" => snap' = mem')
        OBVIOUS
    <2> QED  BY <1>1, <1>2, <2>1, <2>2, StagedGoes
<1>6. Lines' = Lines
    BY DEF Lines
<1>7. Held' \subseteq Held
    <2>1. Loaded(mem) = mem
        BY <1>1, LoadedType
    <2> QED  BY <2>1 DEF Held
<1>8. Moves(chain, chain', 0)
    <2>1. ~WriteAt(chain', 1)
        BY DEF WriteAt
    <2> QED  BY <1>1, <2>1, MovesGoes
<1>9. Ordered'
    <2>1. Lines' \in SUBSET Lines /\ now <= now' /\ used \subseteq used' /\ now \in Nat
        BY <1>1, <1>6, TypedIs
    <2> QED  BY <1>1, <1>4, <1>5, <1>7, <1>8, <2>1, OrderedKeep DEF Invariant
<1>10. AllSettled' /\ PromotionsFirst' /\ DraftOver'
    BY <1>6 DEF Invariant, Told, AllSettled, PromotionsFirst, DraftOver
<1>11. DraftsBegun'
    <2>1. \A c \in Chats : ToDiscard(c) => ToDiscard(c)'
        BY <1>1, <1>2, DiscardGoes
    <2> QED  BY <2>1, DraftsKeep DEF Invariant, Told
<1>12. Remembers'
    <2>1. Kept(mem) /\ Kept(Loaded(bak))
        BY <1>2, MemKept DEF Invariant, Remembers
    <2>2. Loaded(snap') = mem /\ (Loaded(bak') = mem \/ Loaded(bak') = Loaded(bak))
        BY <1>1, LoadedType
    <2> QED  BY <1>6, <2>1, <2>2 DEF Remembers, Kept, HalfTruncated
<1> QED  BY <1>4, <1>9, <1>10, <1>11, <1>12 DEF Invariant, Told

\* The writing of the snapshot keeps the invariant.
LEMMA SnapshotActs ==
    ASSUME Invariant, chain # <<>>, Snapshot, UNCHANGED <<now, up, calls, crashes>>
    PROVE  Invariant'
<1>1. Head1 = chain[1] /\ chain[1].op = "compact" /\ chain[1] \in Tasks /\ chain \in Seq(Tasks)
    BY Head1Is DEF Snapshot
<1>2. Goes(chain, chain', "backup")
    BY <1>1, NextStageIs DEF Snapshot
<1>3. Task("backup", chain[1].chat, chain[1].event) \in Tasks
    BY <1>1 DEF Tasks, Task
<1>4. chain'[1].op = "backup"
    BY <1>1, <1>2, <1>3, GoesType
<1>5. chain'[1].op \in {"backup", "truncate"} /\ ~(chain'[1].op = "truncate")
    BY <1>4
<1>6. /\ snap' = mem /\ bak' = bak
      /\ UNCHANGED <<log, torn, lost, mem, left, used, now, up, calls, crashes>>
    BY DEF Snapshot, CreateSnapshot
<1>7. chain[1].op \in {"compact", "backup"}
    BY <1>1
<1> QED  BY <1>2, <1>3, <1>5, <1>6, <1>7, StageStep

\* The writing of the backup keeps the invariant.
LEMMA BackupActs ==
    ASSUME Invariant, chain # <<>>, Backup, UNCHANGED <<now, up, calls, crashes>>
    PROVE  Invariant'
<1>1. Head1 = chain[1] /\ chain[1].op = "backup" /\ chain[1] \in Tasks /\ chain \in Seq(Tasks)
    BY Head1Is DEF Backup
<1>2. Goes(chain, chain', "truncate")
    BY <1>1, NextStageIs DEF Backup
<1>3. Task("truncate", chain[1].chat, chain[1].event) \in Tasks
    BY <1>1 DEF Tasks, Task
<1>4. chain'[1].op = "truncate"
    BY <1>1, <1>2, <1>3, GoesType
<1>5. chain'[1].op \in {"backup", "truncate"}
    BY <1>4
<1>6. snap = mem
    BY <1>1 DEF Invariant, Ordered, Staged, At
<1>7. /\ snap' = mem /\ bak' = mem
      /\ UNCHANGED <<log, torn, lost, mem, left, used, now, up, calls, crashes>>
    BY <1>6 DEF Backup, CreateSnapshot
<1>8. chain[1].op \in {"compact", "backup"}
    BY <1>1
<1> QED  BY <1>2, <1>3, <1>5, <1>7, <1>8, StageStep

---------------------------------------------------------------------------
(* Truncation *)

\* What the emptying of a log does to the lines.
LEMMA TruncateIs ==
    ASSUME Invariant, chain # <<>>, NEW l \in left, Truncate(l), UNCHANGED <<now, up, calls, crashes>>
    PROVE  /\ GoodLog(log') /\ Lines' \in SUBSET Lines /\ Lines' \in SUBSET LineSet
           /\ NoLines(Lines', Source(l)) /\ l \in Logs
           /\ \A k : k # Source(l) => SameLines(Lines', Lines, k)
           /\ chain[1].op = "truncate" /\ snap = mem /\ bak = mem /\ mem \in States
           /\ snap' = mem /\ bak' = mem /\ mem' = mem /\ lost' = lost \ {l} /\ torn' = torn \ {l}
           /\ used' = used
           /\ log'[l] = <<>> /\ \A k \in Logs \ {l} : log'[k] = log[k]
           /\ \/ left = {l} /\ left' = Logs /\ chain' = Tail(chain) /\ Lines' = {}
              \/ left # {l} /\ left' = left \ {l} /\ chain' = chain
<1>1. Typed /\ Staged /\ Head1 = chain[1] /\ chain \in Seq(Tasks)
    BY Head1Is DEF Invariant, Ordered
<1>2. /\ chain[1].op = "truncate" /\ log' = [log EXCEPT ![l] = <<>>]
      /\ snap' = snap /\ bak' = bak /\ mem' = mem /\ lost' = lost \ {l} /\ torn' = torn \ {l}
      /\ used' = used
    BY <1>1 DEF Truncate
<1>3. l \in Logs /\ left \subseteq Logs
    BY <1>1 DEF Typed
<1>4. snap = mem /\ bak = mem /\ \A k \in Logs \ left : log[k] = <<>>
    BY <1>1, <1>2 DEF Staged, At
<1>5. GoodLog(log) /\ Lines = Logged(log) /\ Lines' = Logged(log') /\ Lines \in SUBSET LineSet
    BY <1>1, TypedIs DEF Lines, Logged
<1>6. Empties(log, log', l)
    BY <1>2 DEF Empties
<1>7. GoodLog(log') /\ \A x : x \in Lines' <=> x \in Lines /\ x.source # Source(l)
    BY <1>3, <1>5, <1>6, LoggedCut
<1>8. /\ Lines' \in SUBSET Lines /\ Lines' \in SUBSET LineSet /\ NoLines(Lines', Source(l))
      /\ \A k : k # Source(l) => SameLines(Lines', Lines, k)
    BY <1>5, <1>7 DEF NoLines, SameLines
<1>9. log'[l] = <<>> /\ \A k \in Logs \ {l} : log'[k] = log[k]
    BY <1>2, <1>3, <1>5 DEF GoodLog
<1>10. \/ left = {l} /\ left' = Logs /\ chain' = Tail(chain)
       \/ left # {l} /\ left' = left \ {l} /\ chain' = chain
    BY <1>1, <1>2, NextStageIs DEF Truncate, Done
<1>11. left = {l} => Lines' = {}
    <2> HAVE left = {l}
    <2>1. \A k \in Logs : log'[k] = <<>>
        BY <1>4, <1>9
    <2>2. \A k \in Logs : NoLines(Lines', Source(k))
        BY <1>5, <2>1, LoggedNone
    <2>3. \A x \in Lines' : \E k \in Logs : x.source = Source(k)
        <3> TAKE x \in Lines'
        <3>1. x \in LineSet
            BY <1>8
        <3>2. x.source = Source(LogOf(x.event)) /\ x.event \in Events
            BY <3>1, LineKinds
        <3> QED  BY <3>2, LogKinds
    <2> QED  BY <2>2, <2>3 DEF NoLines
<1> QED  BY <1>1, <1>2, <1>3, <1>4, <1>7, <1>8, <1>9, <1>10, <1>11 DEF Typed

\* When a log is emptied the order of what is left stays.
LEMMA TruncateOrdered ==
    ASSUME Invariant, chain # <<>>, NEW l \in left, Truncate(l), UNCHANGED <<now, up, calls, crashes>>
    PROVE  Typed' /\ Ordered'
<1>1. Typed /\ Staged /\ chain \in Seq(Tasks) /\ Tail(chain) \in Seq(Tasks) /\ now \in Nat
    BY Head1Is, TypedIs DEF Invariant, Ordered
<1>2. /\ GoodLog(log') /\ Lines' \in SUBSET Lines /\ l \in Logs
      /\ chain[1].op = "truncate" /\ snap = mem /\ bak = mem /\ mem \in States
      /\ snap' = mem /\ bak' = mem /\ mem' = mem /\ lost' = lost \ {l} /\ torn' = torn \ {l}
      /\ used' = used
      /\ log'[l] = <<>> /\ \A k \in Logs \ {l} : log'[k] = log[k]
    BY TruncateIs
<1>3. \/ left = {l} /\ left' = Logs /\ chain' = Tail(chain)
      \/ left # {l} /\ left' = left \ {l} /\ chain' = chain
    BY TruncateIs
<1>4. Typed'
    <2>1. left' \in (SUBSET Logs) \ {{}} /\ chain' \in Seq(Tasks)
        BY <1>1, <1>3 DEF Typed, Logs
    <2>2. torn' \subseteq Logs /\ lost' \subseteq Logs
        BY <1>1, <1>2 DEF Typed
    <2> QED  BY <1>1, <1>2, <2>1, <2>2 DEF Typed, GoodLog
<1>5. Staged'
    <2>1. CASE left' = Logs /\ chain' = Tail(chain)
        BY <1>1, <2>1, StagedTail
    <2>2. CASE left' = left \ {l} /\ chain' = chain
        <3>1. \A k \in Logs \ left' : log'[k] = <<>>
            BY <1>1, <1>2, <2>2 DEF Staged
        <3>2. At("truncate")' /\ ~At("backup")'
            BY <1>2, <2>2 DEF At
        <3> QED  BY <1>1, <1>2, <2>2, <3>1, <3>2 DEF Staged
    <2> QED  BY <1>3, <2>1, <2>2
<1>6. \E k \in Nat : Moves(chain, chain', k)
    <2>1. Moves(chain, Tail(chain), 1) /\ Moves(chain, chain, 0)
        BY <1>1, MovesTail, MovesNot
    <2> QED  BY <1>3, <2>1
<1>7. Held' = Held
    BY <1>2 DEF Held
<1>8. Ordered'
    <2>1. PICK k \in Nat : Moves(chain, chain', k)
        BY <1>6
    <2>2. now <= now' /\ used \subseteq used' /\ Held' \subseteq Held
        BY <1>1, <1>2, <1>7
    <2> QED  BY <1>1, <1>2, <1>4, <1>5, <2>1, <2>2, OrderedKeep DEF Invariant
<1> QED  BY <1>4, <1>8

\* A log's source is its own.
LEMMA SourcesAre ==
    /\ Source("projects") = 0 /\ Source("chats") = 1 /\ Source("queued") = 3 /\ Source("turns") = 4
    /\ {"projects", "chats", "queued", "turns"} = Logs
BY SourceKinds DEF Logs

\* When a log is emptied what the lines say is what is in memory.
LEMMA TruncateSettled ==
    ASSUME Invariant, chain # <<>>, NEW l \in left, Truncate(l), UNCHANGED <<now, up, calls, crashes>>
    PROVE  AllSettled'
<1>1. /\ Lines' \in SUBSET LineSet /\ NoLines(Lines', Source(l)) /\ l \in Logs
      /\ \A k : k # Source(l) => SameLines(Lines', Lines, k)
      /\ mem' = mem /\ lost' = lost \ {l} /\ Lines \in SUBSET LineSet
    BY TruncateIs, TypedIs DEF Invariant
<1> SUFFICES ASSUME NEW c \in Chats
             PROVE  /\ "queued" \notin lost' => QueueSettled(mem, Lines', c)
                    /\ "turns" \notin lost' => TurnsSettled(mem, Lines', c)
    BY <1>1 DEF AllSettled
<1>2. /\ "queued" \notin lost => QueueSettled(mem, Lines, c)
      /\ "turns" \notin lost => TurnsSettled(mem, Lines, c)
    BY DEF Invariant, Told, AllSettled
<1>3. "queued" \notin lost' => QueueSettled(mem, Lines', c)
    <2>1. CASE l = "queued"
        <3>1. QueueLines(Lines', c) = {}
            BY <1>1, <2>1, SourcesAre, NoQueue
        <3> QED  BY <3>1, SettledAtOnce DEF QueueSettled
    <2>2. CASE l # "queued"
        <3>1. SameLines(Lines', Lines, 3)
            BY <1>1, <2>2, SourceKinds
        <3> QED  BY <1>1, <1>2, <2>2, <3>1, SayQueue
    <2> QED  BY <2>1, <2>2
<1>4. "turns" \notin lost' => TurnsSettled(mem, Lines', c)
    <2>1. CASE l = "turns"
        <3>1. ~Has(Lines', "session_token_set", c) /\ ~Has(Lines', "turn_finished", c)
            BY <1>1, <2>1, SourcesAre, NoTurns
        <3> QED  BY <3>1 DEF TurnsSettled
    <2>2. CASE l # "turns"
        <3>1. SameLines(Lines', Lines, 4)
            BY <1>1, <2>2, SourceKinds
        <3>2. /\ Line(Lines', "session_token_set", c) = Line(Lines, "session_token_set", c)
              /\ Has(Lines', "session_token_set", c) <=> Has(Lines, "session_token_set", c)
              /\ Has(Lines', "turn_finished", c) <=> Has(Lines, "turn_finished", c)
            BY <1>1, <3>1, SameTurns
        <3> QED  BY <1>1, <1>2, <2>2, <3>2 DEF TurnsSettled
    <2> QED  BY <2>1, <2>2
<1> QED  BY <1>3, <1>4

\* When a log is emptied promotions, drafts and the project stay as they are told.
LEMMA TruncateTold ==
    ASSUME Invariant, chain # <<>>, NEW l \in left, Truncate(l), UNCHANGED <<now, up, calls, crashes>>
    PROVE  PromotionsFirst' /\ DraftOver' /\ DraftsBegun'
<1>1. /\ Lines' \in SUBSET LineSet /\ NoLines(Lines', Source(l)) /\ l \in Logs
      /\ \A k : k # Source(l) => SameLines(Lines', Lines, k)
      /\ mem' = mem /\ lost' = lost \ {l} /\ Lines \in SUBSET LineSet /\ Lines' \in SUBSET Lines
    BY TruncateIs, TypedIs DEF Invariant
<1>2. left' = Logs => Lines' = {}
    <2>1. \/ left = {l} /\ left' = Logs /\ chain' = Tail(chain) /\ Lines' = {}
          \/ left # {l} /\ left' = left \ {l} /\ chain' = chain
        BY TruncateIs
    <2> QED  BY <1>1, <2>1
<1>3. OverByCreation(mem, Lines')
    <2>1. \A c : CreatedOpen(Lines', c) => CreatedOpen(Lines, c)
        BY <1>1 DEF CreatedOpen, Line
    <2>2. OverByCreation(mem, Lines)
        BY DEF Invariant, Told, DraftOver
    <2> QED  BY <2>1, <2>2 DEF OverByCreation
<1>4. CASE l = "chats"
    <2>1. /\ \A c : ~Has(Lines', "chat_created", c) /\ ~Has(Lines', "chat_promoted", c)
          /\ PromotedInOrder(Lines')
        BY <1>1, <1>4, SourcesAre, NoChats
    <2>2. PromotionsFirst'
        BY <2>1 DEF PromotionsFirst
    <2>3. OverByPromotion(mem, Lines') /\ BegunHere(Lines')
        BY <2>1 DEF OverByPromotion, BegunHere
    <2>4. left' = Logs => ~HasType(Lines', "project_draft_opened")
        BY <1>2 DEF HasType
    <2> QED  BY <1>1, <1>3, <2>2, <2>3, <2>4 DEF DraftOver, DraftsBegun
<1>5. CASE l # "chats"
    <2>1. SameLines(Lines', Lines, 1) /\ ("chats" \notin lost' => "chats" \notin lost)
        BY <1>1, <1>5, SourceKinds
    <2>2. /\ Reordered(Lines') <=> Reordered(Lines)
          /\ PromotedInOrder(Lines') <=> PromotedInOrder(Lines)
        BY <1>1, <2>1, SameChatLines
    <2>3. /\ \A c : Has(Lines', "chat_created", c) <=> Has(Lines, "chat_created", c)
          /\ \A c : Has(Lines', "chat_promoted", c) <=> Has(Lines, "chat_promoted", c)
        BY <1>1, <2>1, SameChats
    <2>4. PromotionsFirst'
        BY <2>1, <2>2 DEF PromotionsFirst, Invariant, Told
    <2>5. "chats" \notin lost' /\ ~Reordered(Lines') => OverByPromotion(mem, Lines')
        BY <2>1, <2>2, <2>3 DEF OverByPromotion, Invariant, Told, DraftOver
    <2>6. HasType(Lines', "project_draft_opened") => HasType(Lines, "project_draft_opened")
        BY <1>1 DEF HasType
    <2>7. "chats" \notin lost' /\ HasType(Lines', "project_draft_opened") => BegunHere(Lines')
        BY <2>1, <2>3, <2>6 DEF BegunHere, Invariant, Told, DraftsBegun
    <2>8. left' = Logs => ~HasType(Lines', "project_draft_opened")
        BY <1>2 DEF HasType
    <2> QED  BY <1>1, <1>3, <2>4, <2>5, <2>7, <2>8 DEF DraftOver, DraftsBegun
<1> QED  BY <1>4, <1>5

\* What is told of the project when its log is empty.
LEMMA ProjectAlone ==
    ASSUME NEW m \in States, NEW T \in SUBSET LineSet, NoLines(T, 0),
           m.project = "draft" => ~Promotes(m, T)
    PROVE  ProjectAgrees(m, T, m)
<1>1. ~HasType(T, "project_opened") /\ ~HasType(T, "project_draft_opened")
    BY NoProject
<1>2. Opens(m, T) <=> m.project = "open"
    BY <1>1 DEF Opens
<1>3. Hidden(m, T) <=> m.project = "none"
    BY <1>1 DEF Hidden
<1> QED  BY <1>2, <1>3 DEF ProjectAgrees

\* The project, when a log is emptied.
LEMMA TruncateProject ==
    ASSUME Invariant, chain # <<>>, NEW l \in left, Truncate(l), UNCHANGED <<now, up, calls, crashes>>,
           "chats" \notin lost', "projects" \notin lost',
           ~HasType(Lines', "project_draft_discarded"), ~Reordered(Lines'),
           ~HalfTruncated("chats", "projects")'
    PROVE  ProjectAgrees(mem, Lines', mem)
<1>1. /\ Lines' \in SUBSET LineSet /\ NoLines(Lines', Source(l)) /\ l \in Logs
      /\ \A k : k # Source(l) => SameLines(Lines', Lines, k)
      /\ lost' = lost \ {l} /\ Lines \in SUBSET LineSet /\ Lines' \in SUBSET Lines
      /\ mem \in States /\ snap = mem
    BY TruncateIs, TypedIs DEF Invariant
<1>2. \/ left = {l} /\ left' = Logs /\ Lines' = {}
      \/ left # {l} /\ left' = left \ {l}
    BY TruncateIs
<1>3. /\ left \subseteq Logs /\ Staged /\ Loaded(snap) = mem
      /\ log'[l] = <<>> /\ \A k \in Logs \ {l} : log'[k] = log[k]
    BY <1>1, TruncateIs, LoadedType DEF Invariant, Typed, Ordered
<1>4. ASSUME NoLines(Lines', 0), NoLines(Lines', 1)
      PROVE  ProjectAgrees(mem, Lines', mem)
    <2>1. ~Promotes(mem, Lines')
        BY <1>1, <1>4, NoChats DEF Promotes
    <2> QED  BY <1>1, <1>4, <2>1, ProjectAlone
<1>5. CASE Lines' = {}
    BY <1>4, <1>5 DEF NoLines
<1>6. CASE left' = left \ {l} /\ left # {l} /\ l = "chats"
    <2>1. "projects" \notin left' /\ "projects" \in Logs
        BY <1>3, <1>6 DEF HalfTruncated, Logs
    <2>2. log'["projects"] = <<>>
        BY <1>3, <1>6, <2>1 DEF Staged
    <2>3. NoLines(Lines', 0)
        <3>1. Lines' = Logged(log')
            BY DEF Lines, Logged
        <3> QED  BY <2>1, <2>2, <3>1, LoggedNone, SourcesAre
    <2> QED  BY <1>1, <1>4, <1>6, <2>3, SourcesAre
<1>7. CASE l = "projects"
    <2>1. SameLines(Lines', Lines, 1) /\ NoLines(Lines', 0) /\ "chats" \notin lost
        BY <1>1, <1>7, SourcesAre
    <2>2. ~Reordered(Lines) /\ OverByCreation(mem, Lines) /\ OverByPromotion(mem, Lines)
        BY <1>1, <2>1, SameChatLines DEF Invariant, Told, DraftOver
    <2>3. \A c \in Chats : ChatAgrees(mem, Lines, mem, c)
        BY <1>3, <2>1 DEF Invariant, Remembers, Kept
    <2>4. ASSUME mem.project = "draft", NEW c \in Chats, Shows(mem, Lines, c)
          PROVE  FALSE
        <3>1. ~CreatedOpen(Lines, c)
            BY <2>2, <2>4 DEF OverByCreation
        <3>2. Has(Lines, "chat_promoted", c) /\ Begins(mem, Lines, c) /\ BeginsDraft(mem, Lines, c)
            BY <2>4, <3>1 DEF Shows
        <3>3. ~Has(Lines, "chat_created", c)
            BY <2>2, <2>4, <3>2 DEF OverByPromotion
        <3>4. Alive(mem, c) /\ mem.chats[c].draft
            BY <3>2, <3>3 DEF Begins, BeginsDraft
        <3>5. StaysDraft(mem, Lines, c)
            BY <2>3, <3>4 DEF ChatAgrees
        <3> QED  BY <3>2, <3>5 DEF StaysDraft
    <2>5. mem.project = "draft" => ~Promotes(mem, Lines')
        BY <1>1, <2>1, <2>4, SameChats DEF Promotes
    <2> QED  BY <1>1, <2>1, <2>5, ProjectAlone
<1>8. CASE left' = left \ {l} /\ left # {l} /\ l \notin {"chats", "projects"}
    <2>1. /\ SameLines(Lines', Lines, 1) /\ SameLines(Lines', Lines, 0)
          /\ "chats" \notin lost /\ "projects" \notin lost
        BY <1>1, <1>8, SourceKinds
    <2>2. ~Reordered(Lines) /\ ~HasType(Lines, "project_draft_discarded")
        BY <1>1, <2>1, SameChatLines, SameProject
    <2>3. ~HalfTruncated("chats", "projects")
        BY <1>1, <1>3, <1>8 DEF HalfTruncated, Logs
    <2>4. ProjectAgrees(mem, Lines, mem)
        BY <1>3, <2>1, <2>2, <2>3 DEF Invariant, Remembers, Kept
    <2> QED  BY <1>1, <2>1, <2>4, SayProject
<1> QED  BY <1>2, <1>5, <1>6, <1>7, <1>8

\* The turns of a chat, when a log is emptied.
LEMMA TruncateTurns ==
    ASSUME Invariant, chain # <<>>, NEW l \in left, Truncate(l), UNCHANGED <<now, up, calls, crashes>>,
           "chats" \notin lost', "turns" \notin lost', ~HalfTruncated("turns", "chats")',
           NEW c \in Chats
    PROVE  TurnsAgree(mem, Lines', mem, c)
<1>1. /\ Lines' \in SUBSET LineSet /\ NoLines(Lines', Source(l)) /\ l \in Logs
      /\ \A k : k # Source(l) => SameLines(Lines', Lines, k)
      /\ lost' = lost \ {l} /\ Lines \in SUBSET LineSet /\ Lines' \in SUBSET Lines
      /\ mem \in States /\ snap = mem /\ mem' = mem
    BY TruncateIs, TypedIs DEF Invariant
<1>2. \/ left = {l} /\ left' = Logs /\ Lines' = {}
      \/ left # {l} /\ left' = left \ {l}
    BY TruncateIs
<1>3. /\ left \subseteq Logs /\ Staged /\ Staged' /\ Loaded(snap) = mem
      /\ log'[l] = <<>> /\ \A k \in Logs \ {l} : log'[k] = log[k]
    BY <1>1, TruncateIs, TruncateOrdered, LoadedType DEF Invariant, Typed, Ordered
<1>4. TurnsSettled(mem, Lines', c)
    BY <1>1, TruncateSettled DEF AllSettled
<1>5. Has(Lines', "chat_created", c) => TurnsAgree(mem, Lines', mem, c)
    <2> HAVE Has(Lines', "chat_created", c)
    <2>1. ~NoLines(Lines', 1)
        BY <1>1, NoChats
    <2>2. log'["chats"] # <<>> /\ Lines' # {}
        <3>1. Lines' = Logged(log')
            BY DEF Lines, Logged
        <3>2. log'["chats"] = <<>> => NoLines(Lines', 1)
            BY <3>1, LoggedNone, SourcesAre DEF Logs
        <3>3. Lines' = {} => NoLines(Lines', 1)
            BY DEF NoLines
        <3> QED  BY <2>1, <3>2, <3>3
    <2>3. left' = left \ {l} /\ left' # Logs
        BY <1>1, <1>2, <2>2
    <2>4. "chats" \in left'
        BY <2>2, <1>3 DEF Staged, Logs
    <2>5. "turns" \in left'
        BY <2>3, <2>4 DEF HalfTruncated
    <2>6. l \notin {"chats", "turns"} /\ "chats" \notin lost /\ "turns" \notin lost
          /\ ~HalfTruncated("turns", "chats")
        BY <1>1, <2>3, <2>4, <2>5 DEF HalfTruncated
    <2>7. SameLines(Lines', Lines, 1) /\ SameLines(Lines', Lines, 4)
        BY <1>1, <2>6, SourceKinds
    <2>8. TurnsAgree(mem, Lines, mem, c)
        BY <1>3, <2>6 DEF Invariant, Remembers, Kept
    <2> QED  BY <1>1, <2>7, <2>8, SayTurns
<1> QED  BY <1>1, <1>4, <1>5, SelfTurns

\* The emptying of a log, in any order, keeps the invariant.
LEMMA TruncateActs ==
    ASSUME Invariant, chain # <<>>, NEW l \in left, Truncate(l), UNCHANGED <<now, up, calls, crashes>>
    PROVE  Invariant'
<1>1. /\ Lines' \in SUBSET LineSet /\ NoLines(Lines', Source(l)) /\ l \in Logs
      /\ \A k : k # Source(l) => SameLines(Lines', Lines, k)
      /\ lost' = lost \ {l} /\ Lines \in SUBSET LineSet
      /\ mem \in States /\ snap = mem /\ mem' = mem /\ snap' = mem /\ bak' = mem
    BY TruncateIs, TypedIs DEF Invariant
<1>2. Typed' /\ Ordered'
    BY TruncateOrdered
<1>3. AllSettled' /\ PromotionsFirst' /\ DraftOver' /\ DraftsBegun'
    BY TruncateSettled, TruncateTold
<1>4. Loaded(mem) = mem
    BY <1>1, LoadedType
<1>5. "chats" \notin lost' => \A c \in Chats : ChatAgrees(mem, Lines', mem, c)
    <2>1. CASE l = "chats"
        BY <1>1, <2>1, SourcesAre, NoChats
    <2>2. CASE l # "chats"
        <3>1. SameLines(Lines', Lines, 1)
            BY <1>1, <2>2, SourceKinds
        <3>2. "chats" \notin lost => \A c \in Chats : ChatAgrees(mem, Lines, mem, c)
            BY <1>1, <1>4 DEF Invariant, Remembers, Kept
        <3> QED  BY <1>1, <2>2, <3>1, <3>2, SameChats
    <2> QED  BY <2>1, <2>2
<1>6. "queued" \notin lost' => \A c \in Chats : QueueAgrees(mem, Lines', mem, c)
    <2>1. Journal(Lines') /\ EnqueuedFirst(Lines')
        <3>1. GoodLog(log') /\ Lines' = Logged(log')
            BY TruncateIs DEF Lines, Logged
        <3>2. Journal(Lines')
            BY <3>1, LoggedJournal
        <3> QED  BY <1>2, <3>2 DEF Ordered, SentOnce
    <2>2. \A c \in Chats : Distinct(mem.queue[c])
        BY DEF Invariant, Ordered, SentOnce, Held
    <2>3. "queued" \notin lost' => \A c \in Chats : QueueSettled(mem, Lines', c)
        BY <1>1, <1>3 DEF AllSettled
    <2> QED  BY <1>1, <2>1, <2>2, <2>3, SelfQueue
<1>7. "chats" \notin lost' /\ "turns" \notin lost' /\ ~HalfTruncated("turns", "chats")'
      => \A c \in Chats : TurnsAgree(mem, Lines', mem, c)
    BY TruncateTurns
<1>8. /\ "chats" \notin lost' /\ "projects" \notin lost'
      /\ ~HasType(Lines', "project_draft_discarded") /\ ~Reordered(Lines')
      /\ ~HalfTruncated("chats", "projects")'
      => ProjectAgrees(mem, Lines', mem)
    BY TruncateProject
<1>9. Remembers'
    <2>1. Loaded(snap') = mem /\ Loaded(bak') = mem
        BY <1>1, <1>4
    <2> QED  BY <1>1, <1>5, <1>6, <1>7, <1>8, <2>1 DEF Remembers, Kept
<1> QED  BY <1>2, <1>3, <1>9 DEF Invariant, Told

---------------------------------------------------------------------------
(* Crashes *)

\* The tasks a start begins with.
Starting(ds, long) ==
    [i \in 1 .. Len(ds) |-> Task("discard", ds[i], NoEvent)]
    \o <<Task("discard project", NoValue, NoEvent)>>
    \o (IF long THEN <<Task(Head(Stages), NoValue, NoEvent)>> ELSE <<>>)

LEMMA JoinIs ==
    ASSUME NEW p \in Seq(Tasks), NEW q \in Seq(Tasks)
    PROVE  /\ p \o q \in Seq(Tasks) /\ Len(p \o q) = Len(p) + Len(q)
           /\ \A i \in 1 .. Len(p) : (p \o q)[i] = p[i]
           /\ \A i \in 1 .. Len(p \o q) : i \notin 1 .. Len(p) =>
                 i - Len(p) \in 1 .. Len(q) /\ (p \o q)[i] = q[i - Len(p)]
OBVIOUS

LEMMA OneTask ==
    ASSUME NEW t \in Tasks
    PROVE  <<t>> \in Seq(Tasks) /\ Len(<<t>>) = 1 /\ <<t>>[1] = t
OBVIOUS

Starts(q) == \A i \in 1 .. Len(q) : q[i].op \in {"discard", "discard project", "compact"}

LEMMA OnlyOne ==
    ASSUME NEW i \in 1 .. 1
    PROVE  i = 1
OBVIOUS

LEMMA OneStarts ==
    ASSUME NEW t \in Tasks, t.op \in {"discard", "discard project", "compact"}
    PROVE  Starts(<<t>>)
<1>1. \A i \in 1 .. 1 : <<t>>[i] = t
    <2> TAKE i \in 1 .. 1
    <2>1. i = 1
        BY OnlyOne
    <2>2. <<t>>[1] = t
        BY OneTask
    <2> QED  BY <2>1, <2>2
<1>2. Len(<<t>>) = 1
    OBVIOUS
<1>3. ASSUME NEW i \in 1 .. Len(<<t>>)
      PROVE  <<t>>[i].op \in {"discard", "discard project", "compact"}
    <2>1. i \in 1 .. 1
        BY <1>2
    <2>2. <<t>>[i] = t
        BY <1>1, <2>1
    <2> QED  BY <2>2
<1> QED  BY <1>3 DEF Starts

LEMMA JoinStarts ==
    ASSUME NEW p \in Seq(Tasks), NEW q \in Seq(Tasks), Starts(p), Starts(q)
    PROVE  p \o q \in Seq(Tasks) /\ Starts(p \o q)
<1> DEFINE r == p \o q
<1>1. /\ r \in Seq(Tasks) /\ Len(p) \in Nat /\ Len(q) \in Nat
      /\ \A i \in 1 .. Len(p) : r[i] = p[i]
      /\ \A i \in 1 .. Len(r) : i \notin 1 .. Len(p) =>
             i - Len(p) \in 1 .. Len(q) /\ r[i] = q[i - Len(p)]
    BY JoinIs
<1> HIDE DEF r
<1>2. Starts(r)
    <2> SUFFICES ASSUME NEW i \in 1 .. Len(r)
                 PROVE  r[i].op \in {"discard", "discard project", "compact"}
        BY DEF Starts
    <2>1. CASE i \in 1 .. Len(p)
        BY <1>1, <2>1 DEF Starts
    <2>2. CASE i \notin 1 .. Len(p)
        <3>1. PICK j \in 1 .. Len(q) : r[i] = q[j]
            BY <1>1, <2>2
        <3> QED  BY <3>1 DEF Starts
    <2> QED  BY <2>1, <2>2
<1> QED  BY <1>1, <1>2 DEF r

\* A start begins with the discarding of every draft.
LEMMA StartingIs ==
    ASSUME NEW ds \in Seq(Chats), NEW long \in BOOLEAN
    PROVE  /\ Starting(ds, long) \in Seq(Tasks) /\ Starts(Starting(ds, long))
           /\ \A i \in 1 .. Len(ds) :
                 /\ i \in 1 .. Len(Starting(ds, long))
                 /\ Starting(ds, long)[i] = Task("discard", ds[i], NoEvent)
<1> DEFINE f == [i \in 1 .. Len(ds) |-> Task("discard", ds[i], NoEvent)]
           g == <<Task("discard project", NoValue, NoEvent)>>
           h == IF long THEN <<Task(Head(Stages), NoValue, NoEvent)>> ELSE <<>>
<1>1. \A i \in 1 .. Len(ds) : f[i] \in Tasks /\ f[i].op = "discard"
    <2> TAKE i \in 1 .. Len(ds)
    <2>1. ds[i] \in Chats
        OBVIOUS
    <2> QED  BY <2>1, TaskKinds DEF Task
<1>2. f \in Seq(Tasks) /\ Len(f) = Len(ds) /\ Starts(f)
    <2>1. Len(ds) \in Nat
        OBVIOUS
    <2>2. f \in [1 .. Len(ds) -> Tasks]
        BY <1>1
    <2>3. f \in Seq(Tasks) /\ Len(f) = Len(ds)
        BY <2>1, <2>2
    <2> QED  BY <1>1, <2>3 DEF Starts
<1>3. g \in Seq(Tasks) /\ Starts(g)
    <2> DEFINE t == Task("discard project", NoValue, NoEvent)
    <2>1. t \in Tasks /\ t.op = "discard project"
        BY TaskKinds DEF Task
    <2> HIDE DEF t
    <2>2. <<t>> \in Seq(Tasks) /\ Len(<<t>>) = 1 /\ <<t>>[1] = t
        BY <2>1, OneTask
    <2>3. Starts(<<t>>)
        BY <2>1, OneStarts
    <2> QED  BY <2>2, <2>3 DEF t
<1>4. h \in Seq(Tasks) /\ Starts(h)
    <2> DEFINE t == Task("compact", NoValue, NoEvent)
    <2>1. t \in Tasks /\ t.op = "compact"
        BY TaskKinds DEF Task
    <2>0. h = IF long THEN <<t>> ELSE <<>>
        BY StagesAre
    <2> HIDE DEF t, h
    <2>2. <<t>> \in Seq(Tasks) /\ Len(<<t>>) = 1 /\ <<t>>[1] = t
        BY <2>1, OneTask
    <2>3. Starts(<<t>>)
        BY <2>1, OneStarts
    <2>4. <<>> \in Seq(Tasks) /\ Starts(<<>>)
        BY DEF Starts
    <2> QED  BY <2>0, <2>2, <2>3, <2>4
<1>5. Starting(ds, long) = (f \o g) \o h
    BY DEF Starting
<1>6. \A i \in 1 .. Len(ds) : f[i] = Task("discard", ds[i], NoEvent)
    OBVIOUS
<1> HIDE DEF f, g, h
<1>7. f \o g \in Seq(Tasks) /\ Starts(f \o g)
    BY <1>2, <1>3, JoinStarts
<1>8. (f \o g) \o h \in Seq(Tasks) /\ Starts((f \o g) \o h)
    BY <1>4, <1>7, JoinStarts
<1>9. ASSUME NEW i \in 1 .. Len(ds)
      PROVE  i \in 1 .. Len((f \o g) \o h) /\ ((f \o g) \o h)[i] = f[i]
    <2>1. i \in 1 .. Len(f) /\ Len(f) \in Nat /\ Len(g) \in Nat /\ Len(h) \in Nat
        BY <1>2, <1>3, <1>4
    <2>2. (f \o g)[i] = f[i] /\ Len(f \o g) = Len(f) + Len(g)
        BY <1>2, <1>3, <2>1, JoinIs
    <2>3. i \in 1 .. Len(f \o g)
        BY <2>1, <2>2
    <2>4. ((f \o g) \o h)[i] = (f \o g)[i] /\ Len((f \o g) \o h) = Len(f \o g) + Len(h)
        BY <1>4, <1>7, <2>3, JoinIs
    <2> QED  BY <2>1, <2>2, <2>3, <2>4
<1> QED  BY <1>5, <1>6, <1>8, <1>9

\* The image a start finds was held, and is the backup only before that is written anew.
LEMMA ImagesAre ==
    ASSUME Invariant, NEW image \in Images
    PROVE  /\ image \in States \cup {NoValue} /\ image \in {snap, bak}
           /\ Loaded(image) \in Held /\ Loaded(image) \in States
           /\ left = Logs \/ Loaded(image) = Loaded(bak)
           /\ Kept(Loaded(image)) /\ Kept(Loaded(bak))
<1>1. image = snap \/ (chain # <<>> /\ Head1.op = "backup" /\ image = bak)
    BY DEF Images
<1>2. chain # <<>> => Head1 = chain[1]
    BY Head1Is
<1>3. image \in {snap, bak} /\ Kept(Loaded(snap)) /\ Kept(Loaded(bak))
    BY <1>1 DEF Invariant, Remembers
<1>4. left # Logs => At("truncate") /\ snap = bak
    BY DEF Invariant, Ordered, Staged
<1>5. left = Logs \/ Loaded(image) = Loaded(bak)
    BY <1>1, <1>4
<1>6. image \in States \cup {NoValue}
    BY <1>3 DEF Invariant, Typed
<1>7. Loaded(image) \in Held /\ Loaded(image) \in States
    BY <1>3, <1>6, LoadedType DEF Held
<1> QED  BY <1>3, <1>5, <1>6, <1>7

\* What the lines are, under the invariant.
LEMMA LinesNow ==
    ASSUME Invariant
    PROVE  /\ Journal(Lines) /\ Lines \in SUBSET LineSet /\ CreatedFirst(Lines)
           /\ EnqueuedFirst(Lines) /\ OpenedFirst(Lines)
           /\ "chats" \notin lost /\ ~Reordered(Lines) => PromotedFirst(Lines)
           /\ \A st \in Held, c \in Chats : Distinct(st.queue[c])
<1>1. Journal(Lines) /\ Lines \in SUBSET LineSet
    BY TypedIs DEF Invariant
<1>2. CreatedFirst(Lines)
    BY DEF Invariant, Ordered, Born
<1>3. EnqueuedFirst(Lines) /\ \A st \in Held, c \in Chats : Distinct(st.queue[c])
    BY DEF Invariant, Ordered, SentOnce
<1>4. OpenedFirst(Lines)
    BY DEF Invariant, Ordered, ProjectFirst
<1>5. "chats" \notin lost => PromotedInOrder(Lines)
    BY DEF Invariant, Told, PromotionsFirst
<1> QED  BY <1>1, <1>2, <1>3, <1>4, <1>5, PromotedFirstIs

\* What a start recovers from an image.
LEMMA RecoveredIs ==
    ASSUME Invariant, NEW X \in Held, X \in States
    PROVE  /\ Replay(X, Lines) \in States
           /\ \A c \in Chats : Blank(Held, Lines, c)
                               => /\ Replay(X, Lines).chats[c] = NoValue
                                  /\ Replay(X, Lines).queue[c] = <<>>
           /\ \A c \in Chats : Distinct(Replay(X, Lines).queue[c])
           /\ \A m \in Msgs, c \in Chats : Absent(Held, Lines, m)
                               => ~Contains(Replay(X, Lines).queue[c], m)
           /\ Lines = {} => Replay(X, Lines) = X
<1>1. Journal(Lines) /\ \A c \in Chats : Distinct(X.queue[c])
    BY LinesNow
<1>2. Replay(X, Lines) \in States
    BY <1>1, ReplayType
<1>3. ASSUME NEW c \in Chats, Blank(Held, Lines, c)
      PROVE  Replay(X, Lines).chats[c] = NoValue /\ Replay(X, Lines).queue[c] = <<>>
    <2>1. X.chats[c] = NoValue /\ X.queue[c] = <<>> /\ \A x \in Lines : x.event.chat # c
        BY <1>3 DEF Blank
    <2> QED  BY <1>1, <2>1, ReplayElsewhere
<1>4. \A c \in Chats : /\ Distinct(Replay(X, Lines).queue[c])
                       /\ \A m : Contains(Replay(X, Lines).queue[c], m)
                                 => Contains(X.queue[c], m) \/ Sent(Lines, m)
    BY <1>1, ReplayDistinct
<1>5. ASSUME NEW m \in Msgs, NEW c \in Chats, Absent(Held, Lines, m)
      PROVE  ~Contains(Replay(X, Lines).queue[c], m)
    <2>1. ~Contains(X.queue[c], m)
        BY <1>5 DEF Absent
    <2>2. ~Sent(Lines, m)
        BY <1>5 DEF Absent, Sent, QueueTypes
    <2> QED  BY <1>4, <2>1, <2>2
<1>6. Lines = {} => Replay(X, Lines) = X
    BY <1>1, ReplayIs
<1> QED  BY <1>2, <1>3, <1>4, <1>5, <1>6

\* A start discards every draft that it recovers.
LEMMA DraftsAre ==
    ASSUME Invariant, NEW X \in Held, X \in States
    PROVE  LET st == Replay(X, Lines)
           IN  /\ Drafts(st) \in Seq(Chats)
               /\ \A c \in Chats : Known(st, c) /\ st.chats[c].draft
                                   => \E i \in 1 .. Len(Drafts(st)) : Drafts(st)[i] = c
<1> DEFINE st == Replay(X, Lines)
           D == {c \in Chats : Known(st, c) /\ st.chats[c].draft}
<1>1. \A c \in Chats \ used : Blank(Held, Lines, c)
    BY DEF Invariant, Ordered, Born
<1>2. D \subseteq used
    BY <1>1, RecoveredIs DEF Known
<1>3. IsFiniteSet(used)
    BY DEF Invariant, Typed
<1>4. IsFiniteSet(D)
    BY <1>2, <1>3, FS_Subset
<1>5. Drafts(st) = SetToSeq(D)
    BY DEF Drafts
<1> HIDE DEF D
<1>6. SetToSeq(D) \in Seq(D) /\ \A x \in D : \E i \in 1 .. Len(SetToSeq(D)) : SetToSeq(D)[i] = x
    BY <1>4, SetToSeqIs
<1>7. D \subseteq Chats
    BY DEF D
<1>8. SetToSeq(D) \in Seq(Chats)
    BY <1>6, <1>7
<1> QED  BY <1>5, <1>6, <1>8 DEF D

\* What a crash and the start after it change.
Restarts(image, ds, long) ==
    /\ image \in Images /\ snap' = image
    /\ mem' = Replay(Loaded(image), Lines)
    /\ chain' = Starting(ds, long)
    /\ ds \in Seq(Chats) /\ long \in BOOLEAN
    /\ \A c \in Chats : Known(mem', c) /\ mem'.chats[c].draft
                        => \E i \in 1 .. Len(ds) : ds[i] = c
    /\ torn' \subseteq Logs /\ up' = FALSE /\ left' = Logs /\ crashes' \in 0 .. MaxCrashes
    /\ log' = log /\ lost' = lost /\ bak' = bak /\ now' = now /\ used' = used /\ calls' = calls

\* What a crash does is a restart.
LEMMA CrashIs ==
    ASSUME Invariant, Crash
    PROVE  \E image, ds, long : Restarts(image, ds, long)
<1>1. PICK cut \in SUBSET Writing, image \in Images, long \in BOOLEAN :
          /\ torn' = torn \cup cut /\ snap' = image /\ mem' = Recover(image)
          /\ chain' = [i \in 1 .. Len(Drafts(mem')) |-> Task("discard", Drafts(mem')[i], NoEvent)]
                      \o <<Task("discard project", NoValue, NoEvent)>>
                      \o (IF long THEN <<Task(Head(Stages), NoValue, NoEvent)>> ELSE <<>>)
    BY DEF Crash
<1>2. Writing \subseteq Logs
    <2>1. chain # <<>> /\ Head1.op = "write" => LogOf(Head1.event) \in Logs
        BY Head1Is, LogKinds DEF Requested
    <2> QED  BY <2>1 DEF Writing, Logs
<1>3. torn \subseteq Logs /\ crashes \in 0 .. MaxCrashes /\ MaxCrashes \in Nat
    BY BoundAssumption DEF Invariant, Typed
<1>4. /\ up' = FALSE /\ left' = Logs /\ crashes' = crashes + 1 /\ crashes < MaxCrashes
      /\ log' = log /\ lost' = lost /\ bak' = bak /\ now' = now /\ used' = used /\ calls' = calls
    BY DEF Crash
<1>5. Loaded(image) \in Held /\ Loaded(image) \in States
    BY ImagesAre
<1>6. mem' = Replay(Loaded(image), Lines)
    BY <1>1 DEF Recover
<1>7. /\ Drafts(mem') \in Seq(Chats)
      /\ \A c \in Chats : Known(mem', c) /\ mem'.chats[c].draft
                          => \E i \in 1 .. Len(Drafts(mem')) : Drafts(mem')[i] = c
    BY <1>5, <1>6, DraftsAre
<1>8. chain' = Starting(Drafts(mem'), long)
    BY <1>1 DEF Starting
<1>9. torn' \subseteq Logs /\ crashes' \in 0 .. MaxCrashes
    <2>1. torn' = torn \cup cut /\ cut \subseteq Writing
        BY <1>1
    <2>2. torn' \subseteq Logs
        BY <1>2, <1>3, <2>1
    <2>3. crashes' \in 0 .. MaxCrashes
        BY <1>3, <1>4
    <2> QED  BY <2>2, <2>3
<1>10. Restarts(image, Drafts(mem'), long)
    BY <1>1, <1>4, <1>6, <1>7, <1>8, <1>9 DEF Restarts
<1> QED  BY <1>10

\* A restart keeps the logs, and memory is the replay of them over an image.
LEMMA RestartFacts ==
    ASSUME Invariant, NEW image, NEW ds, NEW long, Restarts(image, ds, long)
    PROVE  /\ Loaded(image) \in Held /\ Loaded(image) \in States
           /\ mem' = Replay(Loaded(image), Lines) /\ mem' \in States
           /\ Lines' = Lines /\ lost' = lost /\ left' = Logs
           /\ Loaded(snap') = Loaded(image) /\ Loaded(bak') = Loaded(bak)
           /\ \A st \in Held' : st = mem' \/ st \in Held
           /\ chain' \in Seq(Tasks) /\ Starts(chain') /\ ~up'
           /\ \A c \in Chats : Known(mem', c) /\ mem'.chats[c].draft
                   => \E i \in 1 .. Len(chain') : chain'[i].op = "discard" /\ chain'[i].chat = c
<1>1. /\ image \in Images /\ snap' = image /\ bak' = bak /\ log' = log /\ lost' = lost
      /\ mem' = Replay(Loaded(image), Lines) /\ left' = Logs /\ ~up'
      /\ chain' = Starting(ds, long) /\ ds \in Seq(Chats) /\ long \in BOOLEAN
      /\ \A c \in Chats : Known(mem', c) /\ mem'.chats[c].draft
                          => \E i \in 1 .. Len(ds) : ds[i] = c
    BY DEF Restarts
<1>2. Loaded(image) \in Held /\ Loaded(image) \in States
    BY <1>1, ImagesAre
<1>3. mem' \in States
    BY <1>1, <1>2, RecoveredIs
<1>4. Lines' = Lines
    BY <1>1 DEF Lines
<1>5. /\ chain' \in Seq(Tasks) /\ Starts(chain')
      /\ \A i \in 1 .. Len(ds) : /\ i \in 1 .. Len(chain')
                                 /\ chain'[i] = Task("discard", ds[i], NoEvent)
    BY <1>1, StartingIs
<1>6. Loaded(snap') = Loaded(image) /\ Loaded(bak') = Loaded(bak)
    BY <1>1
<1>7. \A st \in Held' : st = mem' \/ st \in Held
    <2>1. Held' = {mem', Loaded(snap'), Loaded(bak')}
        BY DEF Held
    <2>2. Loaded(bak) \in Held
        BY DEF Held
    <2> QED  BY <1>2, <1>6, <2>1, <2>2
<1>8. ASSUME NEW c \in Chats, Known(mem', c), mem'.chats[c].draft
      PROVE  \E i \in 1 .. Len(chain') : chain'[i].op = "discard" /\ chain'[i].chat = c
    <2>1. PICK i \in 1 .. Len(ds) : ds[i] = c
        BY <1>1, <1>8
    <2>2. i \in 1 .. Len(chain') /\ chain'[i] = Task("discard", c, NoEvent)
        BY <1>5, <2>1
    <2>3. chain'[i].op = "discard" /\ chain'[i].chat = c
        BY <2>2 DEF Task
    <2> QED  BY <2>2, <2>3
<1> QED  BY <1>1, <1>2, <1>3, <1>4, <1>5, <1>6, <1>7, <1>8

\* A restart keeps the types, and no stage of compaction is left.
LEMMA RestartTyped ==
    ASSUME Invariant, NEW image, NEW ds, NEW long, Restarts(image, ds, long)
    PROVE  Typed' /\ Staged'
<1>1. /\ mem' \in States /\ chain' \in Seq(Tasks) /\ Starts(chain') /\ ~up' /\ left' = Logs
    BY RestartFacts
<1>2. /\ image \in Images /\ snap' = image /\ torn' \subseteq Logs /\ up' = FALSE
      /\ crashes' \in 0 .. MaxCrashes
      /\ log' = log /\ lost' = lost /\ bak' = bak /\ now' = now /\ used' = used /\ calls' = calls
    BY DEF Restarts
<1>3. snap' \in States \cup {NoValue}
    BY <1>2, ImagesAre
<1>4. Typed'
    <2>1. left' \in (SUBSET Logs) \ {{}}
        BY <1>1 DEF Logs
    <2> QED  BY <1>1, <1>2, <1>3, <2>1 DEF Invariant, Typed
<1>5. Staged'
    <2>1. \A i \in 1 .. Len(chain') : chain'[i].op \in {"discard", "discard project", "compact"}
        BY <1>1 DEF Starts
    <2>2. 2 .. Len(chain') \subseteq 1 .. Len(chain')
        BY <1>1
    <2>3. chain' # <<>> => 1 \in 1 .. Len(chain')
        BY <1>1
    <2> QED  BY <1>1, <2>1, <2>2, <2>3 DEF Staged, At
<1> QED  BY <1>4, <1>5

\* A restart keeps the order of what was written.
LEMMA RestartOrdered ==
    ASSUME Invariant, NEW image, NEW ds, NEW long, Restarts(image, ds, long)
    PROVE  Ordered'
<1> DEFINE X == Loaded(image)
<1>1. /\ X \in Held /\ X \in States /\ mem' = Replay(X, Lines)
      /\ Lines' = Lines /\ chain' \in Seq(Tasks) /\ Starts(chain')
      /\ \A st \in Held' : st = mem' \/ st \in Held
    BY RestartFacts
<1>2. now' = now /\ used' = used
    BY DEF Restarts
<1>3. Typed' /\ Staged'
    BY RestartTyped
<1>4. /\ Lines \in SUBSET LineSet /\ Held \in SUBSET States /\ chain \in Seq(Tasks) /\ now \in Nat
    BY TypedIs DEF Invariant
<1>5. Moves(chain, chain', 0)
    <2>1. \A i \in 1 .. Len(chain') : chain'[i].op # "write"
        BY <1>1 DEF Starts
    <2> QED  BY <2>1, MovesNone
<1>6. /\ \A c \in Chats : Blank(Held, Lines, c) => mem'.chats[c] = NoValue /\ mem'.queue[c] = <<>>
      /\ \A c \in Chats : Distinct(mem'.queue[c])
      /\ \A m \in Msgs, c \in Chats : Absent(Held, Lines, m) => ~Contains(mem'.queue[c], m)
      /\ Lines = {} => mem' = X
    BY <1>1, RecoveredIs
<1>7. /\ StampsOrdered(Lines, chain, now) /\ Born(Held, Lines, chain, used)
      /\ SentOnce(Held, Lines, chain, used) /\ Virgin(Held, Lines, chain, used)
      /\ ProjectFirst(Lines, chain)
    BY DEF Invariant, Ordered
<1>8. StampsOrdered(Lines', chain', now')
    <2>1. Lines' \in SUBSET Lines /\ now <= now' /\ now' \in Nat
        BY <1>1, <1>2, <1>4
    <2> QED  BY <1>1, <1>4, <1>5, <1>7, <2>1, StampsKeep
<1>9. Born(Held', Lines', chain', used')
    <2>1. \A c \in Chats : Blank(Held, Lines, c) => Blank(Held', Lines', c)
        BY <1>1, <1>6 DEF Blank
    <2>2. Lines' \in SUBSET Lines /\ used \subseteq used'
        BY <1>1, <1>2
    <2> QED  BY <1>1, <1>4, <1>5, <1>7, <2>1, <2>2, BornKeep
<1>10. SentOnce(Held', Lines', chain', used')
    <2>1. \A m \in Msgs : Absent(Held, Lines, m) => Absent(Held', Lines', m)
        BY <1>1, <1>6 DEF Absent
    <2>2. \A st \in Held', c \in Chats : Distinct(st.queue[c])
        BY <1>1, <1>6, LinesNow
    <2>3. Lines' \in SUBSET Lines /\ used \subseteq used'
        BY <1>1, <1>2
    <2> QED  BY <1>1, <1>4, <1>5, <1>7, <2>1, <2>2, <2>3, SentKeep
<1>11. Virgin(Held', Lines', chain', used')
    <2>1. CASE "project" \in used
        BY <1>2, <2>1 DEF Virgin
    <2>2. CASE "project" \notin used
        <3>1. /\ \A st \in Held : st.project = "none" /\ \A c \in Chats : ~Known(st, c)
              /\ Lines = {} /\ \A i \in 1 .. Len(chain) : ~WriteAt(chain, i)
            BY <1>7, <2>2 DEF Virgin
        <3>2. \A st \in Held' : st.project = "none" /\ \A c \in Chats : ~Known(st, c)
            BY <1>1, <1>6, <3>1
        <3>3. \A i \in 1 .. Len(chain') : ~WriteAt(chain', i)
            BY <1>1 DEF Starts, WriteAt
        <3> QED  BY <1>1, <3>1, <3>2, <3>3 DEF Virgin
    <2> QED  BY <2>1, <2>2
<1>12. ProjectFirst(Lines', chain')
    <2>1. Lines' \in SUBSET Lines
        BY <1>1
    <2> QED  BY <1>4, <1>5, <1>7, <2>1, OpeningKeep
<1> QED  BY <1>3, <1>8, <1>9, <1>10, <1>11, <1>12 DEF Ordered

\* After a restart the lines say of what was recovered what they did.
LEMMA RestartTold ==
    ASSUME Invariant, NEW image, NEW ds, NEW long, Restarts(image, ds, long)
    PROVE  Told'
<1> DEFINE X == Loaded(image)
<1>1. /\ X \in Held /\ X \in States /\ mem' = Replay(X, Lines)
      /\ Lines' = Lines /\ lost' = lost /\ left' = Logs /\ ~up'
      /\ \A c \in Chats : Known(mem', c) /\ mem'.chats[c].draft
              => \E i \in 1 .. Len(chain') : chain'[i].op = "discard" /\ chain'[i].chat = c
    BY RestartFacts
<1>2. /\ Journal(Lines) /\ CreatedFirst(Lines) /\ EnqueuedFirst(Lines) /\ OpenedFirst(Lines)
      /\ "chats" \notin lost /\ ~Reordered(Lines) => PromotedFirst(Lines)
      /\ \A c \in Chats : Distinct(X.queue[c])
    BY <1>1, LinesNow
<1>3. AllSettled'
    <2>1. \A c \in Chats : QueueSettled(mem', Lines, c) /\ TurnsSettled(mem', Lines, c)
        BY <1>1, <1>2, AgainSettled
    <2> QED  BY <1>1, <2>1 DEF AllSettled
<1>4. PromotionsFirst'
    BY <1>1 DEF Invariant, Told, PromotionsFirst
<1>5. DraftOver'
    <2>1. /\ OverByCreation(mem', Lines)
          /\ PromotedFirst(Lines) => OverByPromotion(mem', Lines)
        BY <1>1, <1>2, AgainOver
    <2> QED  BY <1>1, <1>2, <2>1 DEF DraftOver
<1>6. DraftsBegun'
    <2>1. \A c \in Chats : Known(mem', c) /\ mem'.chats[c].draft => ToDiscard(c)'
        BY <1>1 DEF ToDiscard
    <2>2. "chats" \notin lost /\ HasType(Lines, "project_draft_opened") => BegunHere(Lines)
        BY DEF Invariant, Told, DraftsBegun
    <2> QED  BY <1>1, <2>1, <2>2 DEF DraftsBegun, Known
<1> QED  BY <1>3, <1>4, <1>5, <1>6 DEF Told

\* After a restart both images agree with what was recovered.
LEMMA RestartKept ==
    ASSUME Invariant, NEW image, NEW ds, NEW long, Restarts(image, ds, long),
           NEW Y, Y \in {Loaded(image), Loaded(bak)}, "chats" \notin lost
    PROVE  /\ \A c \in Chats :
                /\ ChatAgrees(mem', Lines, Y, c)
                /\ "queued" \notin lost => QueueAgrees(mem', Lines, Y, c)
                /\ "turns" \notin lost => TurnsAgree(mem', Lines, Y, c)
           /\ "projects" \notin lost /\ ~HasType(Lines, "project_draft_discarded")
              /\ ~Reordered(Lines) => ProjectAgrees(mem', Lines, Y)
<1> DEFINE X == Loaded(image)
<1>1. X \in States /\ mem' = Replay(X, Lines)
    BY RestartFacts
<1>2. /\ Journal(Lines) /\ CreatedFirst(Lines) /\ OpenedFirst(Lines)
      /\ ~Reordered(Lines) => PromotedFirst(Lines)
    BY LinesNow
<1>3. /\ left = Logs \/ X = Loaded(bak)
      /\ Kept(X) /\ Kept(Loaded(bak))
    BY ImagesAre DEF Restarts
<1>4. Kept(Y) /\ (left = Logs \/ Y = X)
    BY <1>3
<1>5. \A l, k : left = Logs => ~HalfTruncated(l, k)
    BY DEF HalfTruncated
<1>6. ASSUME NEW c \in Chats
      PROVE  /\ ChatAgrees(mem', Lines, Y, c)
             /\ "queued" \notin lost => QueueAgrees(mem', Lines, Y, c)
             /\ "turns" \notin lost => TurnsAgree(mem', Lines, Y, c)
    <2>1. ChatAgrees(mem, Lines, X, c) /\ ChatAgrees(mem, Lines, Y, c)
        BY <1>3, <1>4 DEF Kept
    <2>2. ChatAgrees(mem', Lines, Y, c)
        BY <1>1, <1>2, <2>1, AgainChat
    <2>3. "queued" \notin lost => QueueAgrees(mem', Lines, Y, c)
        <3>1. "queued" \notin lost => QueueAgrees(mem, Lines, X, c) /\ QueueAgrees(mem, Lines, Y, c)
            BY <1>3, <1>4 DEF Kept
        <3> QED  BY <1>1, <1>2, <2>1, <3>1, AgainQueue
    <2>4. ASSUME "turns" \notin lost PROVE TurnsAgree(mem', Lines, Y, c)
        <3>1. /\ TurnsAgree(mem', Lines, X, c)
              /\ TurnsAgree(mem, Lines, X, c) /\ TurnsAgree(mem, Lines, Y, c)
                 => TurnsAgree(mem', Lines, Y, c)
            BY <1>1, <1>2, <2>1, AgainTurns
        <3>2. left = Logs => TurnsAgree(mem, Lines, X, c) /\ TurnsAgree(mem, Lines, Y, c)
            BY <1>3, <1>4, <1>5, <2>4 DEF Kept
        <3> QED  BY <1>4, <3>1, <3>2
    <2> QED  BY <2>2, <2>3, <2>4
<1>7. ASSUME "projects" \notin lost, ~HasType(Lines, "project_draft_discarded"), ~Reordered(Lines)
      PROVE  ProjectAgrees(mem', Lines, Y)
    <2>1. /\ ProjectAgrees(mem', Lines, X)
          /\ ProjectAgrees(mem, Lines, X) /\ ProjectAgrees(mem, Lines, Y)
             => ProjectAgrees(mem', Lines, Y)
        BY <1>1, <1>2, <1>7, AgainProject
    <2>2. left = Logs => ProjectAgrees(mem, Lines, X) /\ ProjectAgrees(mem, Lines, Y)
        BY <1>3, <1>4, <1>5, <1>7 DEF Kept
    <2> QED  BY <1>4, <2>1, <2>2
<1> QED  BY <1>6, <1>7

\* A crash, at any point of a write or of compaction, keeps the invariant.
LEMMA CrashStep ==
    ASSUME Invariant, Crash
    PROVE  Invariant'
<1>1. PICK image, ds, long : Restarts(image, ds, long)
    BY CrashIs
<1>2. Typed' /\ Ordered' /\ Told'
    BY <1>1, RestartTyped, RestartOrdered, RestartTold
<1>3. /\ Lines' = Lines /\ lost' = lost
      /\ Loaded(snap') = Loaded(image) /\ Loaded(bak') = Loaded(bak)
    BY <1>1, RestartFacts
<1>4. Remembers'
    <2>1. ASSUME NEW Y, Y \in {Loaded(image), Loaded(bak)}, "chats" \notin lost
          PROVE  /\ \A c \in Chats :
                      /\ ChatAgrees(mem', Lines, Y, c)
                      /\ "queued" \notin lost => QueueAgrees(mem', Lines, Y, c)
                      /\ "turns" \notin lost => TurnsAgree(mem', Lines, Y, c)
                 /\ "projects" \notin lost /\ ~HasType(Lines, "project_draft_discarded")
                    /\ ~Reordered(Lines) => ProjectAgrees(mem', Lines, Y)
        BY <1>1, <2>1, RestartKept
    <2>2. Kept(Loaded(snap))' /\ Kept(Loaded(bak))'
        BY <1>3, <2>1 DEF Kept
    <2> QED  BY <2>2 DEF Remembers
<1> QED  BY <1>2, <1>4 DEF Invariant

---------------------------------------------------------------------------
(* The initial states *)

\* An empty store.
LEMMA NothingIs ==
    /\ Nothing \in States /\ Nothing.project = "none" /\ Loaded(NoValue) = Nothing
    /\ \A c \in Chats : /\ Nothing.chats[c] = NoValue /\ Nothing.queue[c] = <<>>
                        /\ ~Known(Nothing, c) /\ ~Alive(Nothing, c)
                        /\ Distinct(Nothing.queue[c])
                        /\ \A m : ~Contains(Nothing.queue[c], m)
<1>1. Nothing \in States
    BY DEF Nothing, States
<1>2. \A c \in Chats : Nothing.chats[c] = NoValue /\ Nothing.queue[c] = <<>>
    BY DEF Nothing
<1>3. Distinct(<<>>) /\ \A m : ~Contains(<<>>, m)
    BY DEF Distinct, Contains
<1> QED  BY <1>1, <1>2, <1>3 DEF Known, Alive, Loaded, Nothing

\* The three lines of a store whose first chat was drafted and promoted.
OpenedLine == [event |-> Opened[1], source |-> 0, line |-> 1]
CreatedLine(c) == [event |-> First(c)[1], source |-> 1, line |-> 1]
PromotedLine(c) == [event |-> First(c)[2], source |-> 1, line |-> 2]

LEMMA FirstLinesAre ==
    ASSUME NEW c \in Chats
    PROVE  /\ {OpenedLine, CreatedLine(c), PromotedLine(c)} \subseteq LineSet
           /\ OpenedLine.event.type = "project_draft_opened"
           /\ OpenedLine.event.chat = NoValue /\ OpenedLine.event.at = 0
           /\ OpenedLine.source = 0
           /\ CreatedLine(c).event.type = "chat_created" /\ CreatedLine(c).event.value = TRUE
           /\ CreatedLine(c).event.chat = c /\ CreatedLine(c).event.at = 0
           /\ CreatedLine(c).source = 1
           /\ PromotedLine(c).event.type = "chat_promoted"
           /\ PromotedLine(c).event.chat = c /\ PromotedLine(c).event.at = 0
           /\ PromotedLine(c).source = 1
           /\ Opened[1] \in Events /\ First(c)[1] \in Events /\ First(c)[2] \in Events
           /\ LogOf(Opened[1]) = "projects" /\ LogOf(First(c)[1]) = "chats"
           /\ LogOf(First(c)[2]) = "chats"
<1>1. /\ Opened[1] \in Events /\ Opened[1].type = "project_draft_opened"
      /\ Opened[1].chat = NoValue /\ Opened[1].at = 0
    BY DEF Opened, Events, ProjectTypes
<1>2. /\ First(c)[1] \in Events /\ First(c)[1].type = "chat_created"
      /\ First(c)[1].chat = c /\ First(c)[1].value = TRUE /\ First(c)[1].at = 0
    BY DEF First, Events
<1>3. /\ First(c)[2] \in Events /\ First(c)[2].type = "chat_promoted"
      /\ First(c)[2].chat = c /\ First(c)[2].at = 0
    BY DEF First, Events, PlainTypes
<1>4. /\ LogOf(Opened[1]) = "projects" /\ LogOf(First(c)[1]) = "chats"
      /\ LogOf(First(c)[2]) = "chats"
    BY <1>1, <1>2, <1>3 DEF LogOf
<1>5. OpenedLine \in LineSet /\ CreatedLine(c) \in LineSet /\ PromotedLine(c) \in LineSet
    BY <1>1, <1>2, <1>3, <1>4, SourcesAre DEF OpenedLine, CreatedLine, PromotedLine, LineSet
<1> QED  BY <1>1, <1>2, <1>3, <1>4, <1>5 DEF OpenedLine, CreatedLine, PromotedLine

LEMMA FirstOrder ==
    ASSUME NEW c \in Chats
    PROVE  /\ Before(OpenedLine, CreatedLine(c)) /\ Before(OpenedLine, PromotedLine(c))
           /\ Before(CreatedLine(c), PromotedLine(c))
<1>1. /\ {OpenedLine, CreatedLine(c), PromotedLine(c)} \subseteq LineSet
      /\ OpenedLine.event.at = 0 /\ CreatedLine(c).event.at = 0 /\ PromotedLine(c).event.at = 0
      /\ OpenedLine.event.type = "project_draft_opened"
      /\ CreatedLine(c).event.type = "chat_created" /\ PromotedLine(c).event.type = "chat_promoted"
    BY FirstLinesAre
<1>2. /\ Priority(OpenedLine.event) = 0 /\ Priority(CreatedLine(c).event) = 1
      /\ Priority(PromotedLine(c).event) = 2
    BY <1>1 DEF Priority
<1> QED  BY <1>1, <1>2, BeforeNewer

\* A log with those three lines.
Begun(f, c) == f = [[l \in Logs |-> <<>>] EXCEPT !["projects"] = Opened, !["chats"] = First(c)]

\* The lines of such a log are those three.
LEMMA BegunIs ==
    ASSUME NEW c \in Chats, NEW f, Begun(f, c)
    PROVE  GoodLog(f) /\ Logged(f) = {OpenedLine, CreatedLine(c), PromotedLine(c)}
<1>1. /\ DOMAIN f = Logs /\ f["projects"] = Opened /\ f["chats"] = First(c)
      /\ f["queued"] = <<>> /\ f["turns"] = <<>>
    BY DEF Begun, Logs
<1>2. Len(Opened) = 1 /\ Len(First(c)) = 2
    BY DEF Opened, First
<1>3. /\ Opened[1] \in Events /\ First(c)[1] \in Events /\ First(c)[2] \in Events
      /\ LogOf(Opened[1]) = "projects" /\ LogOf(First(c)[1]) = "chats"
      /\ LogOf(First(c)[2]) = "chats"
    BY FirstLinesAre
<1>4. Opened \in Seq(Events) /\ First(c) \in Seq(Events)
    <2>1. Opened = <<Opened[1]>> /\ First(c) = <<First(c)[1], First(c)[2]>>
        BY DEF Opened, First
    <2>2. <<Opened[1]>> \in Seq(Events) /\ <<First(c)[1], First(c)[2]>> \in Seq(Events)
        BY <1>3
    <2> QED  BY <2>1, <2>2
<1>5. f \in [Logs -> Seq(Events)]
    <2> DEFINE g == [l \in Logs |-> <<>>]
               h == [g EXCEPT !["projects"] = Opened]
    <2>1. <<>> \in Seq(Events)
        OBVIOUS
    <2>2. g \in [Logs -> Seq(Events)]
        BY <2>1
    <2>3. f = [h EXCEPT !["chats"] = First(c)]
        BY DEF Begun
    <2> HIDE DEF g
    <2>4. h \in [Logs -> Seq(Events)]
        BY <1>4, <2>2
    <2> HIDE DEF h
    <2> QED  BY <1>4, <2>3, <2>4
<1>6. \A i : /\ i \in 1 .. Len(f["projects"]) <=> i = 1
             /\ i \in 1 .. Len(f["chats"]) <=> i = 1 \/ i = 2
             /\ i \notin 1 .. Len(f["queued"]) /\ i \notin 1 .. Len(f["turns"])
    BY <1>1, <1>2
<1>7. GoodLog(f)
    <2>1. ASSUME NEW l \in Logs, NEW i \in 1 .. Len(f[l])
          PROVE  LogOf(f[l][i]) = l
        BY <1>1, <1>3, <1>6 DEF Logs
    <2> QED  BY <1>5, <2>1 DEF GoodLog
<1>8. /\ LineAt(f, "projects", 1) = OpenedLine /\ LineAt(f, "chats", 1) = CreatedLine(c)
      /\ LineAt(f, "chats", 2) = PromotedLine(c)
    BY <1>1, SourcesAre DEF LineAt, OpenedLine, CreatedLine, PromotedLine
<1>9. \A x : x \in Logged(f) <=> \E l \in Logs : \E i \in 1 .. Len(f[l]) : x = LineAt(f, l, i)
    BY LoggedLine
<1>10. \A x : x \in Logged(f) <=> x \in {OpenedLine, CreatedLine(c), PromotedLine(c)}
    <2> TAKE x
    <2>1. x \in {OpenedLine, CreatedLine(c), PromotedLine(c)} => x \in Logged(f)
        <3>1. 1 \in 1 .. Len(f["projects"]) /\ 1 \in 1 .. Len(f["chats"]) /\ 2 \in 1 .. Len(f["chats"])
            BY <1>6
        <3> QED  BY <1>8, <1>9, <3>1, SourcesAre
    <2>2. ASSUME x \in Logged(f) PROVE x \in {OpenedLine, CreatedLine(c), PromotedLine(c)}
        <3>1. PICK l \in Logs : \E i \in 1 .. Len(f[l]) : x = LineAt(f, l, i)
            BY <1>9, <2>2
        <3>2. PICK i \in 1 .. Len(f[l]) : x = LineAt(f, l, i)
            BY <3>1
        <3>3. \/ l = "projects" /\ i = 1
              \/ l = "chats" /\ i = 1
              \/ l = "chats" /\ i = 2
            BY <1>6 DEF Logs
        <3> QED  BY <1>8, <3>2, <3>3
    <2> QED  BY <2>1, <2>2
<1> QED  BY <1>7, <1>10

\* The invariant holds of a store at rest of which the log says no more than its state.
LEMMA AtRest ==
    ASSUME chain = <<>>, left = Logs, now = 0, up = TRUE, calls = 0, crashes = 0,
           torn = {}, lost = {}, snap = NoValue, bak = NoValue,
           mem \in States, GoodLog(log), IsFiniteSet(used),
           \A x \in Lines : x.event.at = 0, CreatedFirst(Lines), OpenedFirst(Lines),
           NoLines(Lines, 3), NoLines(Lines, 4), PromotedInOrder(Lines), BegunHere(Lines),
           \A c \in Chats \ used : mem.chats[c] = NoValue /\ \A x \in Lines : x.event.chat # c,
           \A c \in Chats : mem.queue[c] = <<>> /\ ~(Known(mem, c) /\ mem.chats[c].draft),
           mem.project # "draft",
           "project" \notin used
           => mem.project = "none" /\ Lines = {} /\ \A c \in Chats : ~Known(mem, c),
           \A c \in Chats : ChatAgrees(mem, Lines, Nothing, c) /\ TurnsAgree(mem, Lines, Nothing, c),
           ProjectAgrees(mem, Lines, Nothing)
    PROVE  Invariant
<1>1. Len(chain) = 0 /\ chain \in Seq(Tasks) /\ \A i : i \notin 1 .. Len(chain)
    OBVIOUS
<1>2. Typed
    <2>1. left \in (SUBSET Logs) \ {{}} /\ torn \subseteq Logs /\ lost \subseteq Logs
        BY DEF Logs
    <2>2. now \in 0 .. MaxTime /\ calls \in 0 .. MaxCalls /\ crashes \in 0 .. MaxCrashes
        BY BoundAssumption
    <2> QED  BY <1>1, <2>1, <2>2 DEF Typed, GoodLog
<1>3. Journal(Lines) /\ Lines \in SUBSET LineSet
    BY <1>2, TypedIs
<1>4. /\ Nothing \in States /\ Nothing.project = "none" /\ Loaded(NoValue) = Nothing
      /\ \A c \in Chats : /\ Nothing.chats[c] = NoValue /\ Nothing.queue[c] = <<>>
                          /\ ~Known(Nothing, c)
    BY NothingIs
<1>5. Held = {mem, Nothing}
    BY <1>4 DEF Held
<1>6. \A st \in Held, c \in Chats : st.queue[c] = <<>>
    BY <1>4, <1>5
<1>7. Distinct(<<>>) /\ \A m : ~Contains(<<>>, m)
    BY DEF Distinct, Contains
<1>8. \A x \in Lines : x.event.type \notin QueueTypes
    BY <1>3, ChatLineKinds DEF NoLines
<1>9. Staged
    BY <1>1 DEF Staged, At
<1>10. StampsOrdered(Lines, chain, now)
    BY <1>1 DEF StampsOrdered, WriteAt
<1>11. Born(Held, Lines, chain, used)
    <2>1. \A c \in Chats \ used : Blank(Held, Lines, c)
        BY <1>4, <1>5 DEF Blank
    <2> QED  BY <1>1, <2>1 DEF Born, WriteAt
<1>12. SentOnce(Held, Lines, chain, used)
    <2>1. EnqueuedFirst(Lines)
        BY <1>8 DEF EnqueuedFirst, QueueTypes
    <2>2. \A m \in Msgs : Absent(Held, Lines, m)
        BY <1>6, <1>7, <1>8 DEF Absent
    <2>3. \A st \in Held, c \in Chats : Distinct(st.queue[c])
        BY <1>6, <1>7
    <2> QED  BY <1>1, <2>1, <2>2, <2>3 DEF SentOnce, WriteAt, About
<1>13. Virgin(Held, Lines, chain, used)
    BY <1>1, <1>4, <1>5 DEF Virgin, WriteAt
<1>14. ProjectFirst(Lines, chain)
    BY <1>1 DEF ProjectFirst, WriteAt
<1>15. Ordered
    BY <1>9, <1>10, <1>11, <1>12, <1>13, <1>14 DEF Ordered
<1>16. \A c \in Chats : QueueLines(Lines, c) = {}
    BY <1>3, NoQueue
<1>17. AllSettled
    <2>1. ASSUME NEW c \in Chats
          PROVE  QueueSettled(mem, Lines, c) /\ TurnsSettled(mem, Lines, c)
        <3>1. QueueSettled(mem, Lines, c)
            BY <1>16, SettledAtOnce DEF QueueSettled
        <3>2. TurnsSettled(mem, Lines, c)
            BY <1>3, NoTurns DEF TurnsSettled
        <3> QED  BY <3>1, <3>2
    <2> QED  BY <2>1 DEF AllSettled
<1>18. Told
    BY <1>17 DEF Told, PromotionsFirst, DraftOver, OverByCreation, OverByPromotion, DraftsBegun
<1>19. Kept(Nothing)
    <2>1. ASSUME NEW c \in Chats PROVE QueueAgrees(mem, Lines, Nothing, c)
        <3>1. Journal({})
            BY <1>3, JournalPart
        <3>2. Replay(Nothing, {}) = Nothing
            BY <3>1, ReplayIs
        <3> QED  BY <1>4, <1>16, <3>2 DEF QueueAgrees
    <2> QED  BY <2>1 DEF Kept
<1>20. Remembers
    BY <1>4, <1>19 DEF Remembers
<1> QED  BY <1>2, <1>15, <1>18, <1>20 DEF Invariant

\* The invariant holds of a new store.
LEMMA EmptyStart ==
    ASSUME Init, mem = Nothing, log = [l \in Logs |-> <<>>], used = {}
    PROVE  Invariant
<1>1. /\ chain = <<>> /\ left = Logs /\ now = 0 /\ up = TRUE /\ calls = 0 /\ crashes = 0
      /\ torn = {} /\ lost = {} /\ snap = NoValue /\ bak = NoValue
    BY DEF Init
<1>2. /\ mem \in States /\ mem.project = "none"
      /\ \A c \in Chats : mem.chats[c] = NoValue /\ mem.queue[c] = <<>> /\ ~Known(mem, c)
                          /\ ~Alive(mem, c)
    BY NothingIs
<1>3. GoodLog(log)
    <2>1. <<>> \in Seq(Events) /\ \A i : i \notin 1 .. Len(<<>>)
        OBVIOUS
    <2> QED  BY <2>1 DEF GoodLog
<1>4. Lines = {}
    <2>1. \A x : x \notin Logged(log)
        <3> SUFFICES ASSUME NEW x, x \in Logged(log) PROVE FALSE
            OBVIOUS
        <3>1. PICK l \in Logs : \E i \in 1 .. Len(log[l]) : x = LineAt(log, l, i)
            BY LoggedLine
        <3> QED  BY <3>1
    <2> QED  BY <2>1, LinesAre
<1>5. IsFiniteSet(used)
    BY FS_EmptySet
<1>6. CreatedFirst(Lines) /\ OpenedFirst(Lines) /\ NoLines(Lines, 3) /\ NoLines(Lines, 4)
      /\ NoLines(Lines, 1) /\ NoLines(Lines, 0) /\ Lines \in SUBSET LineSet
    BY <1>4 DEF CreatedFirst, OpenedFirst, NoLines
<1>7. /\ PromotedInOrder(Lines) /\ BegunHere(Lines)
      /\ \A c \in Chats : ChatAgrees(mem, Lines, Nothing, c)
    <2>1. PromotedInOrder(Lines)
        BY <1>4 DEF PromotedInOrder
    <2>2. BegunHere(Lines)
        BY <1>6, NoChats DEF BegunHere
    <2>3. \A c \in Chats : ChatAgrees(mem, Lines, Nothing, c)
        BY <1>6, NoChats
    <2> QED  BY <2>1, <2>2, <2>3
<1>8. \A c \in Chats : TurnsAgree(mem, Lines, Nothing, c)
    BY <1>2 DEF TurnsAgree
<1>9. ProjectAgrees(mem, Lines, Nothing)
    <2>1. mem.project = "draft" => ~Promotes(mem, Lines)
        BY <1>2
    <2> QED  BY <1>2, <1>6, <2>1, ProjectAlone
<1> QED  BY <1>1, <1>2, <1>3, <1>4, <1>5, <1>6, <1>7, <1>8, <1>9, AtRest

\* What they say.
FirstSays(S, c) ==
    /\ \A x \in S : x.event.at = 0
    /\ S \in SUBSET LineSet /\ CreatedFirst(S) /\ OpenedFirst(S)
    /\ NoLines(S, 3) /\ NoLines(S, 4) /\ PromotedInOrder(S) /\ BegunHere(S)
    /\ \A x \in S, d \in Chats : x.event.chat = d => d = c
    /\ Has(S, "chat_created", c) /\ Has(S, "chat_promoted", c)
    /\ ~Has(S, "chat_deleted", c) /\ ~Has(S, "chat_draft_discarded", c)
    /\ \E x \in Line(S, "chat_created", c) : x.event.value = TRUE
    /\ HasType(S, "project_draft_opened") /\ ~HasType(S, "project_opened")

LEMMA FirstLinesSay ==
    ASSUME NEW c \in Chats, NEW S, S = {OpenedLine, CreatedLine(c), PromotedLine(c)}
    PROVE  FirstSays(S, c)
<1>1. /\ {OpenedLine, CreatedLine(c), PromotedLine(c)} \subseteq LineSet
      /\ OpenedLine.event.type = "project_draft_opened"
      /\ OpenedLine.event.chat = NoValue /\ OpenedLine.event.at = 0
      /\ OpenedLine.source = 0
      /\ CreatedLine(c).event.type = "chat_created" /\ CreatedLine(c).event.value = TRUE
      /\ CreatedLine(c).event.chat = c /\ CreatedLine(c).event.at = 0
      /\ CreatedLine(c).source = 1
      /\ PromotedLine(c).event.type = "chat_promoted"
      /\ PromotedLine(c).event.chat = c /\ PromotedLine(c).event.at = 0
      /\ PromotedLine(c).source = 1
    BY FirstLinesAre
<1>2. /\ Before(OpenedLine, CreatedLine(c)) /\ Before(OpenedLine, PromotedLine(c))
      /\ Before(CreatedLine(c), PromotedLine(c))
    BY FirstOrder
<1>3. NoValue \notin Chats
    BY ValueAssumption
<1>4. \A x : x \in S <=> x = OpenedLine \/ x = CreatedLine(c) \/ x = PromotedLine(c)
    OBVIOUS
<1>5. CreatedFirst(S)
    <2> SUFFICES ASSUME NEW x \in S, NEW y \in S, x.event.type = "chat_created",
                        y.event.chat = x.event.chat, y # x
                 PROVE  Before(x, y)
        BY DEF CreatedFirst
    <2>1. x = CreatedLine(c)
        BY <1>1, <1>4
    <2>2. y = PromotedLine(c)
        BY <1>1, <1>3, <1>4, <2>1
    <2> QED  BY <1>2, <2>1, <2>2
<1>6. OpenedFirst(S)
    <2> SUFFICES ASSUME NEW x \in S, NEW y \in S, x.event.type = "project_draft_opened", y # x
                 PROVE  Before(x, y)
        BY DEF OpenedFirst
    <2>1. x = OpenedLine
        BY <1>1, <1>4
    <2> QED  BY <1>2, <1>4, <2>1
<1>7. NoLines(S, 3) /\ NoLines(S, 4)
    BY <1>1, <1>4 DEF NoLines
<1>8. /\ ~Has(S, "chat_deleted", c) /\ ~Has(S, "chat_draft_discarded", c)
      /\ PromotedInOrder(S)
    BY <1>1, <1>4 DEF Has, Line, PromotedInOrder
<1>9. /\ Has(S, "chat_created", c) /\ Has(S, "chat_promoted", c)
      /\ \E x \in Line(S, "chat_created", c) : x.event.value = TRUE
    <2>1. CreatedLine(c) \in Line(S, "chat_created", c)
        BY <1>1, <1>4 DEF Line
    <2>2. PromotedLine(c) \in Line(S, "chat_promoted", c)
        BY <1>1, <1>4 DEF Line
    <2> QED  BY <1>1, <2>1, <2>2 DEF Has
<1>10. \A x \in S, d \in Chats : x.event.chat = d => d = c
    BY <1>1, <1>3, <1>4
<1>11. BegunHere(S)
    <2>1. \A d \in Chats : Has(S, "chat_promoted", d) => d = c
        BY <1>10 DEF Has, Line
    <2> QED  BY <1>9, <2>1 DEF BegunHere
<1>12. HasType(S, "project_draft_opened") /\ ~HasType(S, "project_opened")
    BY <1>1, <1>4 DEF HasType
<1>13. \A x \in S : x.event.at = 0
    BY <1>1, <1>4
<1> QED  BY <1>1, <1>5, <1>6, <1>7, <1>8, <1>9, <1>10, <1>11, <1>12, <1>13 DEF FirstSays

\* The invariant holds of a store with one chat.
LEMMA FirstStart ==
    ASSUME Init, NEW c \in Chats,
           mem = [Nothing EXCEPT !.project = "open", !.chats[c] = NewChat(FALSE)],
           Begun(log, c), used = {"project", c}
    PROVE  Invariant
<1>1. /\ chain = <<>> /\ left = Logs /\ now = 0 /\ up = TRUE /\ calls = 0 /\ crashes = 0
      /\ torn = {} /\ lost = {} /\ snap = NoValue /\ bak = NoValue
    BY DEF Init
<1>2. /\ Nothing \in States /\ Nothing.project = "none"
      /\ \A d \in Chats : /\ Nothing.chats[d] = NoValue /\ Nothing.queue[d] = <<>>
                          /\ ~Known(Nothing, d) /\ ~Alive(Nothing, d)
    BY NothingIs
<1>3. /\ NewChat(FALSE) \in ChatRecord /\ NewChat(FALSE) # NoValue
      /\ NewChat(FALSE).draft = FALSE /\ NewChat(FALSE).deleted = FALSE
      /\ NewChat(FALSE).token = NoValue /\ NewChat(FALSE).finished = FALSE
    BY NewChatIs
<1>4. /\ mem \in States /\ mem.project = "open" /\ mem.chats[c] = NewChat(FALSE)
      /\ mem.queue = Nothing.queue
      /\ \A d \in Chats \ {c} : mem.chats[d] = NoValue
    <2> DEFINE n == NewChat(FALSE)
               st == [Nothing EXCEPT !.chats[c] = n]
    <2>1. n \in ChatRecord \cup {NoValue}
        BY <1>3
    <2> HIDE DEF n
    <2>2. /\ st \in States /\ st.chats[c] = n /\ st.queue = Nothing.queue
          /\ \A d \in Chats \ {c} : st.chats[d] = Nothing.chats[d]
        BY <1>2, <2>1, ChatUpdate
    <2>3. mem = [st EXCEPT !.project = "open"]
        BY <1>2 DEF n, States
    <2> HIDE DEF st
    <2>4. mem \in States /\ mem.project = "open" /\ mem.chats = st.chats /\ mem.queue = st.queue
        BY <2>2, <2>3 DEF States
    <2> QED  BY <1>2, <2>2, <2>4 DEF n
<1>5. GoodLog(log) /\ Lines = {OpenedLine, CreatedLine(c), PromotedLine(c)}
    BY BegunIs, LinesAre
<1>6. /\ \A x \in Lines : x.event.at = 0
      /\ Lines \in SUBSET LineSet /\ CreatedFirst(Lines) /\ OpenedFirst(Lines)
      /\ NoLines(Lines, 3) /\ NoLines(Lines, 4) /\ PromotedInOrder(Lines) /\ BegunHere(Lines)
      /\ \A x \in Lines, d \in Chats : x.event.chat = d => d = c
      /\ Has(Lines, "chat_created", c) /\ Has(Lines, "chat_promoted", c)
      /\ ~Has(Lines, "chat_deleted", c) /\ ~Has(Lines, "chat_draft_discarded", c)
      /\ \E x \in Line(Lines, "chat_created", c) : x.event.value = TRUE
      /\ HasType(Lines, "project_draft_opened") /\ ~HasType(Lines, "project_opened")
    <2>1. FirstSays(Lines, c)
        BY <1>5, FirstLinesSay
    <2> QED  BY <2>1 DEF FirstSays
<1>7. Alive(mem, c) /\ mem.chats[c].draft = FALSE
      /\ \A d \in Chats \ {c} : ~Known(mem, d) /\ ~Alive(mem, d)
    BY <1>3, <1>4 DEF Known, Alive
<1>8. \A d \in Chats \ used : mem.chats[d] = NoValue /\ \A x \in Lines : x.event.chat # d
    BY <1>4, <1>6
<1>9. \A d \in Chats : mem.queue[d] = <<>> /\ ~(Known(mem, d) /\ mem.chats[d].draft)
    BY <1>2, <1>4, <1>7
<1>10. /\ Begins(Nothing, Lines, c) /\ BeginsDraft(Nothing, Lines, c)
       /\ Lives(Nothing, Lines, c) /\ ~StaysDraft(Nothing, Lines, c)
    BY <1>6 DEF Begins, BeginsDraft, Lives, StaysDraft
<1>11. ASSUME NEW d \in Chats
       PROVE  ChatAgrees(mem, Lines, Nothing, d) /\ TurnsAgree(mem, Lines, Nothing, d)
    <2>1. CASE d = c
        <3>1. ChatAgrees(mem, Lines, Nothing, c)
            BY <1>6, <1>7, <1>10 DEF ChatAgrees, Discards
        <3>2. TurnsAgree(mem, Lines, Nothing, c)
            <4>1. ~Has(Lines, "session_token_set", c) /\ ~Has(Lines, "turn_finished", c)
                BY <1>6, NoTurns
            <4>2. TokenOf(Nothing, Lines, c) = NoValue
                BY <1>6, <4>1 DEF TokenOf
            <4>3. ~FinishedOf(Nothing, Lines, c)
                BY <1>6, <4>1 DEF FinishedOf
            <4>4. mem.chats[c].token = NoValue /\ mem.chats[c].finished = FALSE
                BY <1>3, <1>4
            <4> QED  BY <4>2, <4>3, <4>4 DEF TurnsAgree
        <3> QED  BY <2>1, <3>1, <3>2
    <2>2. CASE d # c
        <3>1. \A type : ~Has(Lines, type, d)
            BY <1>6, <2>2 DEF Has, Line
        <3>2. ~Begins(Nothing, Lines, d) /\ ~Alive(mem, d)
            BY <1>2, <1>7, <2>2, <3>1 DEF Begins
        <3> QED  BY <3>1, <3>2 DEF ChatAgrees, Discards, Lives, TurnsAgree
    <2> QED  BY <2>1, <2>2
<1>12. ProjectAgrees(mem, Lines, Nothing)
    <2>1. Promotes(Nothing, Lines)
        BY <1>6, <1>10 DEF Promotes, Shows
    <2> QED  BY <1>4, <1>6, <2>1 DEF ProjectAgrees, Opens, Hidden
<1>13. IsFiniteSet(used)
    <2>1. IsFiniteSet({"project"}) /\ IsFiniteSet({"project"} \cup {c})
        BY FS_Singleton, FS_AddElement
    <2>2. used = {"project"} \cup {c}
        OBVIOUS
    <2> QED  BY <2>1, <2>2
<1>14. "project" \in used
    OBVIOUS
<1> HIDE DEF Begun
<1>15. mem.project # "draft"
    BY <1>4
<1> QED  BY <1>1, <1>4, <1>5, <1>6, <1>8, <1>9, <1>11, <1>12, <1>13, <1>14, <1>15, AtRest

\* The invariant holds at the start.
LEMMA InitInvariant ==
    Init => Invariant
<1> SUFFICES ASSUME Init PROVE Invariant
    OBVIOUS
<1>1. CASE mem = Nothing /\ log = [l \in Logs |-> <<>>] /\ used = {}
    BY <1>1, EmptyStart
<1>2. CASE \E c \in Chats :
              /\ mem = [Nothing EXCEPT !.project = "open", !.chats[c] = NewChat(FALSE)]
              /\ log = [[l \in Logs |-> <<>>] EXCEPT !["projects"] = Opened,
                                                     !["chats"] = First(c)]
              /\ used = {"project", c}
    <2>1. PICK c \in Chats :
              /\ mem = [Nothing EXCEPT !.project = "open", !.chats[c] = NewChat(FALSE)]
              /\ log = [[l \in Logs |-> <<>>] EXCEPT !["projects"] = Opened,
                                                     !["chats"] = First(c)]
              /\ used = {"project", c}
        BY <1>2
    <2>2. Begun(log, c)
        BY <2>1 DEF Begun
    <2> QED  BY <2>1, <2>2, FirstStart
<1> QED  BY <1>1, <1>2 DEF Init

\* A step of the chain keeps the invariant.
LEMMA RunStep ==
    ASSUME Invariant, Run
    PROVE  Invariant'
<1>1. chain # <<>> /\ UNCHANGED <<now, up, calls, crashes>>
    BY DEF Run
<1>2. CASE (Write \/ OpenProject \/ EnsureDraft \/ Promote \/ DiscardDraft \/ DiscardProject)
           /\ UNCHANGED left
    BY <1>1, <1>2, WriteActs, OpenProjectActs, EnsureDraftActs, PromoteActs, DiscardDraftActs,
       DiscardProjectActs
<1>3. CASE Snapshot \/ Backup
    BY <1>1, <1>3, SnapshotActs, BackupActs
<1>4. CASE \E l \in left : Truncate(l)
    BY <1>1, <1>4, TruncateActs
<1> QED  BY <1>2, <1>3, <1>4 DEF Run

\* Every step keeps the invariant.
LEMMA NextInvariant ==
    Invariant /\ [Next]_vars => Invariant'
<1> SUFFICES ASSUME Invariant, [Next]_vars PROVE Invariant'
    OBVIOUS
<1>1. CASE Next
    BY <1>1, RequestsStep, RunStep, TickStep, CrashStep, ServeStep DEF Next
<1>2. CASE UNCHANGED vars
    <2>1. /\ mem' = mem /\ log' = log /\ torn' = torn /\ lost' = lost /\ snap' = snap /\ bak' = bak
          /\ chain' = chain /\ left' = left /\ now' = now /\ used' = used /\ up' = up
          /\ calls' = calls /\ crashes' = crashes
        BY <1>2 DEF vars, disk
    <2>2. Lines' = Lines /\ Held' = Held
        BY <2>1 DEF Lines, Held
    <2>3. Typed'
        BY <2>1 DEF Invariant, Typed
    <2>4. Ordered'
        BY <2>1, <2>2 DEF Invariant, Ordered, Staged, At
    <2>5. DraftsBegun'
        BY <2>1, DraftsKeep DEF Invariant, Told, ToDiscard
    <2>6. Told' /\ Remembers'
        BY <2>1, <2>5, ToldKeep DEF Invariant
    <2> QED  BY <2>3, <2>4, <2>6 DEF Invariant
<1> QED  BY <1>1, <1>2

---------------------------------------------------------------------------
(* What a start finds *)

\* Lines of the chats' log out of the order of their stamps were overtaken.
LEMMA OvertakenIs ==
    ASSUME Typed, Reordered(Lines)
    PROVE  Overtaken("chats")
<1>1. PICK x, y \in Lines : x.source = 1 /\ y.source = 1 /\ x.line < y.line
                            /\ y.event.at < x.event.at
    BY DEF Reordered
<1>2. \A z \in Lines : z.source = 1 =>
          \E i \in 1 .. Len(log["chats"]) : z = LineAt(log, "chats", i)
    <2> TAKE z \in Lines
    <2> HAVE z.source = 1
    <2>1. z \in Logged(log)
        BY LinesAre
    <2>2. PICK l \in Logs : \E i \in 1 .. Len(log[l]) : z = LineAt(log, l, i)
        BY <2>1, LoggedLine
    <2>3. Source(l) = 1
        BY <2>2 DEF LineAt
    <2>4. l = "chats"
        BY <2>3, SourceKinds
    <2> QED  BY <2>2, <2>4
<1>3. PICK i \in 1 .. Len(log["chats"]) : x = LineAt(log, "chats", i)
    BY <1>1, <1>2
<1>4. PICK j \in 1 .. Len(log["chats"]) : y = LineAt(log, "chats", j)
    BY <1>1, <1>2
<1>5. i < j /\ log["chats"][j].at < log["chats"][i].at
    BY <1>1, <1>3, <1>4 DEF LineAt
<1> QED  BY <1>5 DEF Overtaken

\* A discarding among the lines is in the projects' log.
LEMMA DiscardingIs ==
    ASSUME Typed, HasType(Lines, "project_draft_discarded")
    PROVE  Discarding
<1>1. PICK x \in Lines : x.event.type = "project_draft_discarded"
    BY DEF HasType
<1>2. x \in Logged(log)
    BY LinesAre
<1>3. PICK l \in Logs : \E i \in 1 .. Len(log[l]) : x = LineAt(log, l, i)
    BY <1>2, LoggedLine
<1>4. PICK i \in 1 .. Len(log[l]) : x = LineAt(log, l, i)
    BY <1>3
<1>5. log[l][i].type = "project_draft_discarded"
    BY <1>1, <1>4 DEF LineAt
<1>6. l = "projects"
    <2>1. LogOf(log[l][i]) = l
        BY DEF Typed
    <2> QED  BY <1>5, <2>1 DEF LogOf
<1> QED  BY <1>5, <1>6 DEF Discarding

LEMMA TypesHold ==
    Invariant => TypeOK
BY DEF Invariant, Typed, TypeOK

\* Whatever image a start finds agrees with the store's state.
LEMMA FoundIs ==
    ASSUME Invariant, NEW image \in Images
    PROVE  LET X == Loaded(image)
           IN  X \in States /\ Kept(X) /\ Recover(image) = Replay(X, Lines)
               /\ Recover(image) \in States
<1>1. Loaded(image) \in Held /\ Loaded(image) \in States /\ Kept(Loaded(image))
    BY ImagesAre
<1>2. Recover(image) = Replay(Loaded(image), Lines)
    BY DEF Recover
<1>3. Replay(Loaded(image), Lines) \in States
    BY <1>1, RecoveredIs
<1> QED  BY <1>1, <1>2, <1>3

\* A start finds a chat that lives, what it remembers of it, and no other.
LEMMA ChatFound ==
    ASSUME Invariant, NEW image \in Images, NEW c \in Chats, "chats" \notin lost
    PROVE  LET X == Loaded(image)
               after == Recover(image)
           IN  /\ Alive(after, c) <=> Alive(mem, c)
               /\ Alive(mem, c) => /\ after.chats[c].draft <=> mem.chats[c].draft
                                   /\ Remembered(X, Lines, c)
<1> DEFINE X == Loaded(image)
<1>1. X \in States /\ Kept(X) /\ Recover(image) = Replay(X, Lines)
    BY FoundIs
<1>2. Journal(Lines) /\ CreatedFirst(Lines)
    BY LinesNow
<1>3. ChatAgrees(mem, Lines, X, c)
    BY <1>1 DEF Kept
<1>4. /\ Alive(Replay(X, Lines), c) <=> Alive(mem, c)
      /\ Alive(mem, c) => (Replay(X, Lines).chats[c].draft <=> mem.chats[c].draft)
    BY <1>1, <1>2, <1>3, AgainChat
<1>5. Alive(mem, c) => Remembered(X, Lines, c)
    BY <1>1, <1>2, <1>4, Remains
<1> QED  BY <1>1, <1>4, <1>5

\* The invariant says that the chats and queues survive.
LEMMA ChatsHold ==
    Invariant => ChatsSurvive
<1> SUFFICES ASSUME Invariant, NEW image \in Images, NEW c \in Chats, "chats" \notin lost
             PROVE  LET after == Recover(image)
                        Listed(st) == Alive(st, c) /\ ~st.chats[c].draft
                    IN  /\ Listed(after) <=> Listed(mem)
                        /\ Alive(mem, c) /\ "queued" \notin lost
                           => after.queue[c] = mem.queue[c]
    BY DEF ChatsSurvive
<1> DEFINE X == Loaded(image)
           after == Recover(image)
<1>1. /\ Alive(after, c) <=> Alive(mem, c)
      /\ Alive(mem, c) => /\ after.chats[c].draft <=> mem.chats[c].draft
                          /\ Remembered(X, Lines, c)
    BY ChatFound
<1>2. X \in States /\ Kept(X) /\ after = Replay(X, Lines)
    BY FoundIs
<1>3. ASSUME Alive(mem, c), "queued" \notin lost
      PROVE  after.queue[c] = mem.queue[c]
    <2>1. QueueAgrees(mem, Lines, X, c)
        BY <1>2, <1>3 DEF Kept
    <2>2. Replay(X, QueueLines(Lines, c)).queue[c] = mem.queue[c]
        BY <1>3, <2>1 DEF QueueAgrees
    <2>3. Replay(X, Lines).queue[c] = Replay(X, QueueLines(Lines, c)).queue[c]
        BY <1>1, <1>3 DEF Remembered
    <2> QED  BY <1>2, <2>2, <2>3
<1> QED  BY <1>1, <1>3

\* The invariant says that the sessions, outcomes and the open project survive.
LEMMA SessionsHold ==
    Invariant => SessionsSurvive
<1> SUFFICES ASSUME Invariant, lost = {}, NEW image \in Images
             PROVE  LET after == Recover(image)
                    IN  /\ \A c \in Chats :
                               Alive(mem, c) /\ ~HalfTruncated("turns", "chats")
                               => /\ Known(after, c)
                                  /\ after.chats[c].token = mem.chats[c].token
                                  /\ after.chats[c].finished = mem.chats[c].finished
                        /\ mem.project = "open" /\ ~HalfTruncated("chats", "projects")
                           /\ ~Overtaken("chats") /\ ~Discarding
                               => after.project = "open"
    BY DEF SessionsSurvive
<1> DEFINE X == Loaded(image)
           after == Recover(image)
<1>1. X \in States /\ Kept(X) /\ after = Replay(X, Lines) /\ after \in States
    BY FoundIs
<1>2. mem \in States /\ Typed
    BY DEF Invariant, Typed
<1>3. ASSUME NEW c \in Chats, Alive(mem, c), ~HalfTruncated("turns", "chats")
      PROVE  /\ Known(after, c)
             /\ after.chats[c].token = mem.chats[c].token
             /\ after.chats[c].finished = mem.chats[c].finished
    <2>1. TurnsAgree(mem, Lines, X, c)
        BY <1>1, <1>3 DEF Kept
    <2>2. mem.chats[c].token = TokenOf(X, Lines, c)
          /\ (mem.chats[c].finished <=> FinishedOf(X, Lines, c))
        BY <1>3, <2>1 DEF TurnsAgree
    <2>3. Alive(after, c) /\ Remembered(X, Lines, c)
        BY <1>3, ChatFound
    <2>4. after.chats[c].token = TokenOf(X, Lines, c)
          /\ (after.chats[c].finished <=> FinishedOf(X, Lines, c))
        BY <1>1, <2>3 DEF Remembered
    <2>5. Known(after, c) /\ Known(mem, c)
        BY <1>3, <2>3 DEF Alive
    <2>6. after.chats[c].finished \in BOOLEAN /\ mem.chats[c].finished \in BOOLEAN
        BY <1>1, <1>2, <2>5, StateKinds
    <2> HIDE DEF after
    <2>7. after.chats[c].finished = mem.chats[c].finished
        BY <2>2, <2>4, <2>6
    <2> QED  BY <2>2, <2>4, <2>5, <2>7
<1>4. ASSUME mem.project = "open", ~HalfTruncated("chats", "projects"), ~Overtaken("chats"),
             ~Discarding
      PROVE  after.project = "open"
    <2>1. ~Reordered(Lines) /\ ~HasType(Lines, "project_draft_discarded")
        BY <1>2, <1>4, OvertakenIs, DiscardingIs
    <2>2. ProjectAgrees(mem, Lines, X)
        BY <1>1, <1>4, <2>1 DEF Kept
    <2>3. Opens(X, Lines)
        BY <1>4, <2>2 DEF ProjectAgrees
    <2>4. /\ Journal(Lines) /\ CreatedFirst(Lines) /\ OpenedFirst(Lines) /\ PromotedFirst(Lines)
        BY <2>1, LinesNow
    <2>5. Replay(X, Lines).project = "open" <=> Opens(X, Lines)
        BY <1>1, <2>1, <2>4, ProjectReplay
    <2> QED  BY <1>1, <2>3, <2>5
<1> QED  BY <1>3, <1>4

\* The invariant holds in every state of every behaviour, for any number of chats,
\* messages, sessions, requests, ticks and crashes.
THEOREM InvariantHolds ==
    Spec => []Invariant
<1> QED  BY InitInvariant, NextInvariant, PTL DEF Spec

\* Every log holds its own events, and the state, the snapshot and the backup are states
\* of the store.
THEOREM TypeCorrect ==
    Spec => []TypeOK
BY InvariantHolds, TypesHold, PTL

\* Whenever the server dies, between two writes, within one or between two stages of
\* compaction, and however often it died before, a start finds the chats that were there,
\* drafts apart, and no other, and the queue of each as it was, but for a log of which a
\* line was lost behind one that a crash cut short.  It is what replayLogs, applyEvent and
\* the order of compact() promise together.
THEOREM ChatsAlwaysSurvive ==
    Spec => []ChatsSurvive
BY InvariantHolds, ChatsHold, PTL

\* And a start finds every chat's session token and last outcome, and the open project,
\* but for the windows that SessionsSurvive names.
THEOREM SessionsAlwaysSurvive ==
    Spec => []SessionsSurvive
BY InvariantHolds, SessionsHold, PTL
==============================================================================
