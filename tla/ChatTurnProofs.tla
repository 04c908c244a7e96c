--------------------------- MODULE ChatTurnProofs ---------------------------
(***************************************************************************)
(* Proofs about ChatTurn, for any messages and any number of requests and  *)
(* crashes, with streams or with one session: one turn at a time, each     *)
(* prompt once, nothing refused left to drain, and no turn forgotten by    *)
(* the end of another.                                                     *)
(*                                                                         *)
(* cancel() and the session pump forget the active turn without asking     *)
(* which it is, several store writes after they were called for one.  What *)
(* makes that sound is a race the invariant counts out: the store's writes *)
(* are done in order, a turn that starts meanwhile owes the store a prompt,*)
(* a start and a policy before it has an engine, and each of them is asked *)
(* for after the write of the other turn that must precede it (Apart and   *)
(* Ahead in NotForgotten).  The rest of the invariant says what the queue, *)
(* the pending writes, the turns and the coordinator's maps know of each   *)
(* other (QueueFits, ChainFits, MessageFits, HoldFits, WritesFit).         *)
(*                                                                         *)
(* The proof follows the code: one lemma for each operator between two     *)
(* awaits says that it keeps the chat fit, and what it leaves alone        *)
(* (Stays) or lets go only at its end (Leaves).                            *)
(***************************************************************************)
EXTENDS ChatTurn, SequenceTheorems, WellFoundedInduction, TLAPS

---------------------------------------------------------------------------
\* The inductive invariant

WriteRecord == [op : Writes, turn : Nat, msg : Msgs \cup {NoMsg}, by : Ways \cup {"user", "turn"}]

State ==
    [queue : Seq(Msgs), chain : Seq(WriteRecord), holder : Nat, starting : BOOLEAN,
     active : Nat, turns : Seq(TurnRecord), stream : BOOLEAN, place : [Msgs -> Places],
     prompts : [Msgs -> Nat], reply : [Msgs -> {"none", "ok", "refused", "gone"}]]

Turns(c) == 1 .. Len(c.turns)

\* The writes that concern a message and not a turn.
OfMessage == {"enqueue", "remove"}

WriteTyped(c, w) ==
    /\ w.op \in OfMessage => w.msg \in Msgs /\ w.by # "turn"
    /\ w.op = "enqueue" => w.by # "user"
    /\ w.op \notin OfMessage => w.turn \in Turns(c)

Typed(c) ==
    /\ c \in State
    /\ c.holder \in 0 .. Len(c.turns) /\ c.active \in 0 .. Len(c.turns)
    /\ c.starting => c.holder # 0
    /\ \A i \in 1 .. Len(c.chain) : WriteTyped(c, c.chain[i])

\* A message the store has, or had: nothing puts it into the queue again.
Spent(c, m) ==
    /\ c.place[m] # "unsent"
    /\ \A i \in 1 .. Len(c.chain) : c.chain[i].op = "enqueue" => c.chain[i].msg # m

Gone(c, m) == Spent(c, m) /\ ~Queued(c, m)

\* The queue, and what was told and prompted.
QueueFits(c) ==
    /\ \A i, j \in 1 .. Len(c.queue) : c.queue[i] = c.queue[j] => i = j
    /\ \A m \in Msgs : Queued(c, m) => Spent(c, m)
    /\ \A m \in Msgs : c.prompts[m] > 0 => Gone(c, m)
    /\ \A m \in Msgs : c.prompts[m] <= 1
    /\ \A m \in Msgs : c.reply[m] = "refused" => Gone(c, m)

\* The pending writes of messages.
ChainFits(c) ==
    /\ \A i \in 1 .. Len(c.chain) :
           c.chain[i].op = "enqueue" => c.place[c.chain[i].msg] # "unsent"
    /\ \A i, j \in 1 .. Len(c.chain) :
           c.chain[i].op = "enqueue" /\ c.chain[j].op = "enqueue"
             /\ c.chain[i].msg = c.chain[j].msg => i = j
    /\ \A i \in 1 .. Len(c.chain) :
           c.chain[i].op = "remove" =>
               /\ Spent(c, c.chain[i].msg)
               /\ c.chain[i].by # "user" => c.prompts[c.chain[i].msg] = 0

\* A startup that may still put its message into the transcript.
Candidate(r) == r.phase = "prompting" \/ (r.phase = "prepare" /\ ~r.cancelled)

AllSpent(c, steers) == \A i \in 1 .. Len(steers) : Spent(c, steers[i][1])

\* The message of turn t.
MessageFits(c, t) ==
    LET r == c.turns[t]
    IN  /\ Gone(c, r.msg)
        /\ AllSpent(c, r.joined) /\ AllSpent(c, r.canceller)
        /\ Candidate(r) => c.prompts[r.msg] = 0
        /\ \A i, j \in 1 .. Len(c.chain) :
               /\ c.chain[i].op = "prompt" /\ c.chain[i].turn = t
               /\ c.chain[j].op = "remove" /\ c.chain[j].msg = r.msg
               => j < i

\* A startup the coordinator is bound to.
Reserves(r) == r.phase = "prompting" \/ (r.phase \in Startup /\ ~r.cancelled)

\* What the coordinator holds for turn t.
HoldFits(c, t) ==
    LET r == c.turns[t]
    IN  /\ Reserves(r) => c.holder = t /\ c.starting /\ c.active = 0
        /\ r.phase = "prompting" => r.writing
        /\ r.phase = "delivering" /\ ~r.cancelled
               => c.holder = t /\ c.starting /\ c.active \in {0, t}
        /\ r.phase \in {"live", "finishing"} /\ ~r.cancelled => c.active = t
        /\ r.complete => r.cancelled
        /\ c.active = t => r.phase \notin Startup

\* The writes of turn t.
WriteFits(r, op) ==
    /\ op = "prompt"  => r.phase = "prompting"
    /\ op = "started" => r.phase = "recording"
    /\ op = "policy"  => r.phase = "policy"
    /\ op \in {"interrupted", "cancelled"} => r.cancelled /\ r.phase # "prompting"
    /\ op \in {"tool", "stopping", "stopped"} => r.cancelled /\ r.phase \notin Startup
    /\ op \in {"result", "finished", "failed", "late"} => r.phase \notin Startup
    /\ op \in {"failed", "late"} => r.closed

WritesFit(c, t) ==
    LET r == c.turns[t]
    IN  /\ \A i \in 1 .. Len(c.chain) :
               c.chain[i].op \notin OfMessage /\ c.chain[i].turn = t => WriteFits(r, c.chain[i].op)
        /\ \A i, j \in 1 .. Len(c.chain) :
               /\ c.chain[i].turn = t /\ c.chain[j].turn = t
               /\ c.chain[i].op = c.chain[j].op /\ c.chain[i].op \in {"prompt", "started", "policy"}
               => i = j
        /\ r.complete => r.phase # "prompting"

\* A write that ends with forgetting the active turn, whichever it is, and how many
\* of a startup's writes can come before that: none, the prompt's, that and the next.
Forgets(c, op) ==
    op \in {"tool", "stopping", "stopped"} \/ (~c.stream /\ op \in {"failed", "late"})

BeforePrompt(c, op)  == op = "tool" \/ (~c.stream /\ op = "failed")
BeforeStarted(c, op) == op = "stopping" \/ (~c.stream /\ op = "late")

\* A turn r of which such a write of another turn can be pending.
Apart(c, r, op) ==
    /\ BeforePrompt(c, op)  => r.phase \notin {"recording", "directory", "policy"}
    /\ BeforeStarted(c, op) => r.phase \notin {"directory", "policy"}
    /\ Forgets(c, op) => r.phase \notin {"engine", "delivering", "live", "finishing"}

\* Write i comes before the one of turn t that would bring it too near its engine.
Ahead(c, t, i) ==
    \A j \in 1 .. Len(c.chain) :
        /\ c.chain[j].turn = t
        /\ \/ BeforePrompt(c, c.chain[i].op)  /\ c.chain[j].op = "prompt"
           \/ BeforeStarted(c, c.chain[i].op) /\ c.chain[j].op = "started"
           \/ c.chain[i].op = "stopped"       /\ c.chain[j].op = "policy"
        => i < j

\* Turn t is too far from its engine to be forgotten by another turn's writes.
NotForgotten(c, t) ==
    ~c.turns[t].cancelled =>
        \A i \in 1 .. Len(c.chain) :
            c.chain[i].op \notin OfMessage /\ c.chain[i].turn # t
                => Apart(c, c.turns[t], c.chain[i].op) /\ Ahead(c, t, i)

TurnFits(c, t) ==
    MessageFits(c, t) /\ HoldFits(c, t) /\ WritesFit(c, t) /\ NotForgotten(c, t)

Fits(c) == Typed(c) /\ QueueFits(c) /\ ChainFits(c) /\ \A t \in Turns(c) : TurnFits(c, t)

ChatInv == Fits(s) /\ acts \in 0 .. MaxActs /\ crashes \in 0 .. MaxCrashes

---------------------------------------------------------------------------
(* The steps the code is made of *)

\* The fields of a chat's state.
LEMMA Fields ==
    ASSUME NEW c, c \in State
    PROVE  /\ c.queue \in Seq(Msgs) /\ c.chain \in Seq(WriteRecord) /\ c.turns \in Seq(TurnRecord)
           /\ c.holder \in Nat /\ c.active \in Nat
           /\ c.starting \in BOOLEAN /\ c.stream \in BOOLEAN
           /\ c.place \in [Msgs -> Places] /\ c.prompts \in [Msgs -> Nat]
           /\ c.reply \in [Msgs -> {"none", "ok", "refused", "gone"}]
BY DEF State

\* A request is told something.
LEMMA ToldFits ==
    ASSUME NEW c, Fits(c), NEW m \in Msgs, NEW a \in {"none", "ok", "refused", "gone"},
           a = "refused" => Gone(c, m)
    PROVE  Fits(Told(c, m, a))
<1> DEFINE d == Told(c, m, a)
<1>1. c \in State
  BY DEF Fits, Typed
<1>2. /\ d \in State
      /\ d.queue = c.queue /\ d.chain = c.chain /\ d.turns = c.turns /\ d.holder = c.holder
      /\ d.starting = c.starting /\ d.active = c.active /\ d.stream = c.stream
      /\ d.place = c.place /\ d.prompts = c.prompts
      /\ d.reply = [c.reply EXCEPT ![m] = a]
  BY <1>1 DEF Told, State
<1> HIDE DEF d
<1>3. Typed(d)
  BY <1>2 DEF Fits, Typed, WriteTyped, Turns
<1>4. \A n : Spent(d, n) = Spent(c, n) /\ Gone(d, n) = Gone(c, n) /\ Queued(d, n) = Queued(c, n)
  BY <1>2 DEF Spent, Gone, Queued
<1>5. QueueFits(d)
  BY <1>1, <1>2, <1>4, Fields DEF Fits, QueueFits
<1>6. ChainFits(d)
  BY <1>2, <1>4 DEF Fits, ChainFits
<1>7. ASSUME NEW t \in Turns(d) PROVE TurnFits(d, t)
  <2>1. TurnFits(c, t)
    BY <1>2 DEF Fits, Turns
  <2>2. MessageFits(d, t)
    BY <2>1, <1>2, <1>4 DEF TurnFits, MessageFits, AllSpent
  <2>3. HoldFits(d, t) /\ WritesFit(d, t) /\ NotForgotten(d, t)
    BY <2>1, <1>2 DEF TurnFits, HoldFits, WritesFit, NotForgotten, Apart, Ahead, BeforePrompt,
                      BeforeStarted, Forgets
  <2>. QED BY <2>2, <2>3 DEF TurnFits
<1>. QED BY <1>3, <1>5, <1>6, <1>7 DEF Fits, d

\* A write is asked for.
LEMMA Pushed ==
    ASSUME NEW c, c \in State, NEW w \in WriteRecord
    PROVE  LET d == Push(c, w)
           IN  /\ d \in State
               /\ d.queue = c.queue /\ d.turns = c.turns /\ d.holder = c.holder
               /\ d.starting = c.starting /\ d.active = c.active /\ d.stream = c.stream
               /\ d.place = c.place /\ d.prompts = c.prompts /\ d.reply = c.reply
               /\ Len(d.chain) = Len(c.chain) + 1 /\ Len(c.chain) \in Nat
               /\ \A i \in 1 .. Len(c.chain) : d.chain[i] = c.chain[i]
               /\ d.chain[Len(c.chain) + 1] = w
<1> DEFINE d == Push(c, w)
<1>1. c.chain \in Seq(WriteRecord)
  BY Fields
<1>2. /\ d.queue = c.queue /\ d.turns = c.turns /\ d.holder = c.holder
      /\ d.starting = c.starting /\ d.active = c.active /\ d.stream = c.stream
      /\ d.place = c.place /\ d.prompts = c.prompts /\ d.reply = c.reply
      /\ d.chain = Append(c.chain, w)
  BY DEF Push, State
<1>3. d \in State
  <2>1. Append(c.chain, w) \in Seq(WriteRecord)
    BY <1>1
  <2>. QED BY <2>1 DEF Push, State
<1>4. /\ Len(Append(c.chain, w)) = Len(c.chain) + 1 /\ Len(c.chain) \in Nat
      /\ \A i \in 1 .. Len(c.chain) : Append(c.chain, w)[i] = c.chain[i]
      /\ Append(c.chain, w)[Len(c.chain) + 1] = w
  BY <1>1
<1> HIDE DEF d
<1>5. /\ Len(d.chain) = Len(c.chain) + 1 /\ Len(c.chain) \in Nat
      /\ \A i \in 1 .. Len(c.chain) : d.chain[i] = c.chain[i]
      /\ d.chain[Len(c.chain) + 1] = w
  BY <1>2, <1>4
<1>. QED BY <1>2, <1>3, <1>5 DEF d

\* A removal is asked for of a message that is queued.
LEMMA RemoveFits ==
    ASSUME NEW c, Fits(c), NEW m \in Msgs, Queued(c, m), NEW by \in Ways \cup {"user"}
    PROVE  Fits(Push(c, Write("remove", 0, m, by)))
<1> DEFINE w == Write("remove", 0, m, by)
           d == Push(c, w)
<1>1. c \in State /\ w \in WriteRecord
  BY DEF Fits, Typed, Write, WriteRecord, Writes
<1>2. w.op = "remove" /\ w.msg = m /\ w.by = by /\ w.by # "turn"
  BY DEF Write, Ways
<1> HIDE DEF w
<1>3. /\ d \in State
      /\ d.queue = c.queue /\ d.turns = c.turns /\ d.holder = c.holder
      /\ d.starting = c.starting /\ d.active = c.active /\ d.stream = c.stream
      /\ d.place = c.place /\ d.prompts = c.prompts /\ d.reply = c.reply
      /\ Len(d.chain) = Len(c.chain) + 1 /\ Len(c.chain) \in Nat
      /\ \A i \in 1 .. Len(c.chain) : d.chain[i] = c.chain[i]
      /\ d.chain[Len(c.chain) + 1] = w
  BY <1>1, Pushed
<1> HIDE DEF d
<1>4. \A i \in 1 .. Len(d.chain) : i \in 1 .. Len(c.chain) \/ i = Len(c.chain) + 1
  BY <1>3
<1>5. Typed(d)
  BY <1>2, <1>3, <1>4 DEF Fits, Typed, WriteTyped, Turns, OfMessage
<1>6. \A n : Spent(d, n) = Spent(c, n)
  BY SMTT(20), <1>2, <1>3, <1>4 DEF Spent
<1>7. \A n : Gone(d, n) = Gone(c, n) /\ Queued(d, n) = Queued(c, n)
  BY <1>3, <1>6 DEF Gone, Queued
<1>8. QueueFits(d)
  BY <1>3, <1>6, <1>7 DEF Fits, QueueFits
<1>9. Spent(d, m) /\ d.prompts[m] = 0
  <2>1. Spent(c, m) /\ ~(c.prompts[m] > 0)
    BY DEF Fits, QueueFits, Gone
  <2>2. c.prompts[m] \in Nat
    BY <1>1, Fields
  <2>. QED BY <2>1, <2>2, <1>3, <1>6
<1>10. ChainFits(d)
  <2>1. \A i \in 1 .. Len(d.chain) :
           d.chain[i].op = "enqueue" => d.place[d.chain[i].msg] # "unsent"
    BY <1>2, <1>3, <1>4 DEF Fits, ChainFits
  <2>2. \A i, j \in 1 .. Len(d.chain) :
           d.chain[i].op = "enqueue" /\ d.chain[j].op = "enqueue"
             /\ d.chain[i].msg = d.chain[j].msg => i = j
    BY SMTT(20), <1>2, <1>3, <1>4 DEF Fits, ChainFits
  <2>3. \A i \in 1 .. Len(d.chain) :
           d.chain[i].op = "remove" =>
               /\ Spent(d, d.chain[i].msg)
               /\ d.chain[i].by # "user" => d.prompts[d.chain[i].msg] = 0
    BY <1>2, <1>3, <1>4, <1>6, <1>9 DEF Fits, ChainFits
  <2>. QED BY <2>1, <2>2, <2>3 DEF ChainFits
<1>11. ASSUME NEW t \in Turns(d) PROVE TurnFits(d, t)
  <2>1. TurnFits(c, t)
    BY <1>3 DEF Fits, Turns
  <2>2. c.turns[t].msg # m
    BY <2>1 DEF TurnFits, MessageFits, Gone
  <2>3. MessageFits(d, t)
    <3>1. ASSUME NEW i \in 1 .. Len(d.chain), NEW j \in 1 .. Len(d.chain),
                 d.chain[i].op = "prompt", d.chain[i].turn = t,
                 d.chain[j].op = "remove", d.chain[j].msg = c.turns[t].msg
          PROVE  j < i
      <4>1. /\ i \in 1 .. Len(c.chain) /\ d.chain[i] = c.chain[i]
            /\ j \in 1 .. Len(c.chain) /\ d.chain[j] = c.chain[j]
        BY <3>1, <2>2, <1>2, <1>3, <1>4
      <4>. QED BY <2>1, <3>1, <4>1 DEF TurnFits, MessageFits
    <3>. QED BY <2>1, <3>1, <1>3, <1>6, <1>7 DEF TurnFits, MessageFits, AllSpent
  <2>4. HoldFits(d, t)
    BY <2>1, <1>3 DEF TurnFits, HoldFits
  <2>5. WritesFit(d, t)
    <3>1. \A i \in 1 .. Len(d.chain) :
             d.chain[i].op \notin OfMessage /\ d.chain[i].turn = t => WriteFits(c.turns[t], d.chain[i].op)
      BY <2>1, <1>2, <1>3, <1>4 DEF TurnFits, WritesFit, OfMessage
    <3>2. ASSUME NEW i \in 1 .. Len(d.chain), NEW j \in 1 .. Len(d.chain),
                 d.chain[i].turn = t, d.chain[j].turn = t, d.chain[i].op = d.chain[j].op,
                 d.chain[i].op \in {"prompt", "started", "policy"}
          PROVE  i = j
      <4>1. /\ i \in 1 .. Len(c.chain) /\ d.chain[i] = c.chain[i]
            /\ j \in 1 .. Len(c.chain) /\ d.chain[j] = c.chain[j]
        BY <3>2, <1>2, <1>3, <1>4
      <4>. QED BY <2>1, <3>2, <4>1 DEF TurnFits, WritesFit
    <3>. QED BY <2>1, <3>1, <3>2, <1>3 DEF TurnFits, WritesFit
  <2>6. NotForgotten(d, t)
    <3>1. \A op : Apart(d, c.turns[t], op) = Apart(c, c.turns[t], op)
      BY <1>3 DEF Apart, BeforePrompt, BeforeStarted, Forgets
    <3>2. ASSUME NEW i \in 1 .. Len(c.chain), Ahead(c, t, i) PROVE Ahead(d, t, i)
      BY SMTT(20), <3>2, <1>2, <1>3, <1>4 DEF Ahead, BeforePrompt, BeforeStarted
    <3>. QED BY <2>1, <3>1, <3>2, <1>2, <1>3, <1>4 DEF TurnFits, NotForgotten, OfMessage
  <2>. QED BY <2>3, <2>4, <2>5, <2>6 DEF TurnFits
<1>. QED BY <1>5, <1>8, <1>10, <1>11 DEF Fits, d, w

\* A write of turn t is asked for.  Clear: no turn is as near its engine as the write
\* could forget it.
Clear(c, r, op) ==
    /\ BeforePrompt(c, op)  => r.phase \notin {"prompting", "recording", "directory", "policy"}
    /\ BeforeStarted(c, op) => r.phase \notin {"recording", "directory", "policy"}
    /\ op = "stopped"       => r.phase # "policy"
    /\ Forgets(c, op) => r.phase \notin {"engine", "delivering", "live", "finishing"}

Startups == {"prompt", "started", "policy"}

Unasked(c, t, op) ==
    \A i \in 1 .. Len(c.chain) : ~(c.chain[i].turn = t /\ c.chain[i].op = op)

LEMMA OfTurnFits ==
    ASSUME NEW c, Fits(c), NEW t \in Turns(c), NEW op \in Writes \ OfMessage,
           WriteFits(c.turns[t], op),
           op \in Startups => Unasked(c, t, op),
           \A u \in Turns(c) : u # t /\ ~c.turns[u].cancelled => Clear(c, c.turns[u], op)
    PROVE  Fits(OfTurn(c, op, t))
<1> DEFINE w == Write(op, t, NoMsg, "turn")
           d == Push(c, w)
<1>1. c \in State /\ w \in WriteRecord
  BY DEF Fits, Typed, Write, WriteRecord, Writes, Turns
<1>2. w.op = op /\ w.turn = t /\ w.op \notin OfMessage /\ w.op # "enqueue" /\ w.op # "remove"
  BY DEF Write, OfMessage
<1> HIDE DEF w
<1>3. /\ d \in State
      /\ d.queue = c.queue /\ d.turns = c.turns /\ d.holder = c.holder
      /\ d.starting = c.starting /\ d.active = c.active /\ d.stream = c.stream
      /\ d.place = c.place /\ d.prompts = c.prompts /\ d.reply = c.reply
      /\ Len(d.chain) = Len(c.chain) + 1 /\ Len(c.chain) \in Nat
      /\ \A i \in 1 .. Len(c.chain) : d.chain[i] = c.chain[i]
      /\ d.chain[Len(c.chain) + 1] = w
  BY <1>1, Pushed
<1> HIDE DEF d
<1>4. \A i \in 1 .. Len(d.chain) : i \in 1 .. Len(c.chain) \/ i = Len(c.chain) + 1
  BY <1>3
<1>5. Typed(d)
  <2>1. \A i \in 1 .. Len(d.chain) : WriteTyped(d, d.chain[i])
    BY <1>2, <1>3, <1>4 DEF Fits, Typed, WriteTyped, Turns
  <2>. QED BY <2>1, <1>3 DEF Fits, Typed
<1>6. \A n : Spent(d, n) = Spent(c, n)
  BY SMTT(20), <1>2, <1>3, <1>4 DEF Spent
<1>7. \A n : Gone(d, n) = Gone(c, n) /\ Queued(d, n) = Queued(c, n)
  BY <1>3, <1>6 DEF Gone, Queued
<1>8. QueueFits(d)
  BY <1>3, <1>6, <1>7 DEF Fits, QueueFits
<1>9. ChainFits(d)
  <2>1. \A i \in 1 .. Len(d.chain) : d.chain[i].op \in {"enqueue", "remove"} =>
            i \in 1 .. Len(c.chain) /\ d.chain[i] = c.chain[i]
    BY <1>2, <1>3, <1>4
  <2>2. ChainFits(c)
    BY DEF Fits
  <2>3. \A i \in 1 .. Len(d.chain) :
           d.chain[i].op = "enqueue" => d.place[d.chain[i].msg] # "unsent"
    BY <2>1, <2>2, <1>3 DEF ChainFits
  <2>4. \A i, j \in 1 .. Len(d.chain) :
           d.chain[i].op = "enqueue" /\ d.chain[j].op = "enqueue"
             /\ d.chain[i].msg = d.chain[j].msg => i = j
    BY <2>1, <2>2 DEF ChainFits
  <2>5. \A i \in 1 .. Len(d.chain) :
           d.chain[i].op = "remove" =>
               /\ Spent(d, d.chain[i].msg)
               /\ d.chain[i].by # "user" => d.prompts[d.chain[i].msg] = 0
    BY <2>1, <2>2, <1>3, <1>6 DEF ChainFits
  <2>. QED BY <2>3, <2>4, <2>5 DEF ChainFits
<1>10. ASSUME NEW u \in Turns(d) PROVE TurnFits(d, u)
  <2>1. TurnFits(c, u)
    BY <1>3 DEF Fits, Turns
  <2>2. MessageFits(d, u)
    <3>1. \A i, j \in 1 .. Len(d.chain) :
               /\ d.chain[i].op = "prompt" /\ d.chain[i].turn = u
               /\ d.chain[j].op = "remove" /\ d.chain[j].msg = c.turns[u].msg
               => j < i
      BY SMTT(20), <2>1, <1>2, <1>3, <1>4 DEF TurnFits, MessageFits
    <3>. QED BY <2>1, <3>1, <1>3, <1>6, <1>7 DEF TurnFits, MessageFits, AllSpent
  <2>3. HoldFits(d, u)
    BY <2>1, <1>3 DEF TurnFits, HoldFits
  <2>4. WritesFit(d, u)
    <3>1. \A i \in 1 .. Len(d.chain) :
             d.chain[i].op \notin OfMessage /\ d.chain[i].turn = u => WriteFits(d.turns[u], d.chain[i].op)
      BY <2>1, <1>2, <1>3, <1>4 DEF TurnFits, WritesFit
    <3>2. \A i, j \in 1 .. Len(d.chain) :
               /\ d.chain[i].turn = u /\ d.chain[j].turn = u
               /\ d.chain[i].op = d.chain[j].op /\ d.chain[i].op \in {"prompt", "started", "policy"}
               => i = j
      <4>1. ASSUME NEW i \in 1 .. Len(c.chain),
                   c.chain[i].turn = t, c.chain[i].op = op, op \in Startups
            PROVE  FALSE
        BY <4>1 DEF Unasked
      <4>2. ASSUME NEW i \in 1 .. Len(c.chain), NEW j \in 1 .. Len(c.chain),
                   c.chain[i].turn = u, c.chain[j].turn = u, c.chain[i].op = c.chain[j].op,
                   c.chain[i].op \in Startups
            PROVE  i = j
        BY <2>1, <4>2 DEF TurnFits, WritesFit, Startups
      <4>3. ASSUME NEW i \in 1 .. Len(d.chain), NEW j \in 1 .. Len(d.chain),
                   d.chain[i].turn = u, d.chain[j].turn = u, d.chain[i].op = d.chain[j].op,
                   d.chain[i].op \in Startups
            PROVE  i = j
        <5>1. CASE i \in 1 .. Len(c.chain) /\ j \in 1 .. Len(c.chain)
          BY <4>2, <4>3, <5>1, <1>3
        <5>2. CASE i \in 1 .. Len(c.chain) /\ j = Len(c.chain) + 1
          BY <4>1, <4>3, <5>2, <1>2, <1>3
        <5>3. CASE i = Len(c.chain) + 1 /\ j \in 1 .. Len(c.chain)
          BY <4>1, <4>3, <5>3, <1>2, <1>3
        <5>. QED BY <5>1, <5>2, <5>3, <1>4
      <4>. QED BY <4>3 DEF Startups
    <3>. QED BY <3>1, <3>2, <2>1, <1>3 DEF TurnFits, WritesFit
  <2>5. NotForgotten(d, u)
    <3>1. \A x : Apart(d, c.turns[u], x) = Apart(c, c.turns[u], x)
      BY <1>3 DEF Apart, BeforePrompt, BeforeStarted, Forgets
    <3>2. ASSUME NEW i \in 1 .. Len(c.chain), Ahead(c, u, i) PROVE Ahead(d, u, i)
      BY SMTT(20), <3>2, <1>2, <1>3, <1>4 DEF Ahead, BeforePrompt, BeforeStarted
    <3>3. ASSUME u # t, ~c.turns[u].cancelled
          PROVE  Apart(c, c.turns[u], op) /\ Ahead(d, u, Len(c.chain) + 1)
      <4>1. Clear(c, c.turns[u], op)
        BY <3>3, <1>3 DEF Turns
      <4>2. \A j \in 1 .. Len(c.chain) :
                c.chain[j].turn = u /\ c.chain[j].op \in Startups =>
                    WriteFits(c.turns[u], c.chain[j].op)
        BY <2>1 DEF TurnFits, WritesFit, Startups, OfMessage
      <4>3. Ahead(d, u, Len(c.chain) + 1)
        BY SMTT(20), <3>3, <4>1, <4>2, <1>2, <1>3, <1>4
           DEF Ahead, Clear, WriteFits, Startups, BeforePrompt, BeforeStarted
      <4>. QED BY <4>1, <4>3 DEF Clear, Apart
    <3>. QED BY <2>1, <3>1, <3>2, <3>3, <1>2, <1>3, <1>4 DEF TurnFits, NotForgotten
  <2>. QED BY <2>2, <2>3, <2>4, <2>5 DEF TurnFits
<1>. QED BY <1>5, <1>8, <1>9, <1>10 DEF Fits, OfTurn, d, w

\* Where a message is said to be.
LEMMA PlaceFits ==
    ASSUME NEW c, Fits(c), NEW m \in Msgs, c.place[m] # "unsent",
           NEW p \in Places, p # "unsent"
    PROVE  Fits([c EXCEPT !.place[m] = p])
<1> DEFINE d == [c EXCEPT !.place[m] = p]
<1>1. c \in State
  BY DEF Fits, Typed
<1>2. /\ d \in State
      /\ d.queue = c.queue /\ d.chain = c.chain /\ d.turns = c.turns /\ d.holder = c.holder
      /\ d.starting = c.starting /\ d.active = c.active /\ d.stream = c.stream
      /\ d.reply = c.reply /\ d.prompts = c.prompts
      /\ d.place = [c.place EXCEPT ![m] = p]
  BY <1>1 DEF State
<1> HIDE DEF d
<1>3. Typed(d)
  BY <1>2 DEF Fits, Typed, WriteTyped, Turns
<1>4. \A n \in Msgs : d.place[n] # "unsent" <=> c.place[n] # "unsent"
  BY <1>1, <1>2, Fields
<1>5. \A n \in Msgs : (Spent(d, n) <=> Spent(c, n)) /\ (Gone(d, n) <=> Gone(c, n))
                      /\ (Queued(d, n) <=> Queued(c, n))
  BY <1>2, <1>4 DEF Spent, Gone, Queued
<1>6. QueueFits(d)
  BY <1>2, <1>5 DEF Fits, QueueFits
<1>7. ChainFits(d)
  <2>1. \A i \in 1 .. Len(c.chain) : c.chain[i].op \in {"enqueue", "remove"} => c.chain[i].msg \in Msgs
    BY DEF Fits, Typed, WriteTyped, OfMessage
  <2>. QED BY <2>1, <1>2, <1>4, <1>5 DEF Fits, ChainFits
<1>8. ASSUME NEW t \in Turns(d) PROVE TurnFits(d, t)
  <2>1. TurnFits(c, t)
    BY <1>2 DEF Fits, Turns
  <2>2. c.turns[t] \in TurnRecord
    BY <1>1, <1>2, Fields DEF Turns
  <2>3. MessageFits(d, t)
    <3>1. c.turns[t].msg \in Msgs
      BY <2>2 DEF TurnRecord
    <3>2. c.turns[t].joined \in Seq(Steers) /\ c.turns[t].canceller \in Seq(Steers)
      BY <2>2 DEF TurnRecord
    <3>3. \A z \in Seq(Steers) : AllSpent(c, z) => AllSpent(d, z)
      <4>1. \A z \in Seq(Steers) : \A i \in 1 .. Len(z) : z[i][1] \in Msgs
        BY DEF Steers
      <4>. QED BY <4>1, <1>5 DEF AllSpent
    <3>. QED BY <2>1, <3>1, <3>2, <3>3, <1>2, <1>5 DEF TurnFits, MessageFits
  <2>4. HoldFits(d, t) /\ WritesFit(d, t) /\ NotForgotten(d, t)
    BY <2>1, <1>2 DEF TurnFits, HoldFits, WritesFit, NotForgotten, Apart, Ahead, BeforePrompt,
                      BeforeStarted, Forgets
  <2>. QED BY <2>3, <2>4 DEF TurnFits
<1>. QED BY <1>3, <1>6, <1>7, <1>8 DEF Fits, d

\* A change of one turn, and perhaps of what the coordinator holds.
OnlyTurn(c, d, t) ==
    /\ d \in State
    /\ d.queue = c.queue /\ d.chain = c.chain /\ d.stream = c.stream
    /\ d.place = c.place /\ d.prompts = c.prompts /\ d.reply = c.reply
    /\ Len(d.turns) = Len(c.turns)
    /\ \A u \in Turns(c) : u # t => d.turns[u] = c.turns[u]

SameHold(c, d) == d.holder = c.holder /\ d.starting = c.starting /\ d.active = c.active

LEMMA TurnSet ==
    ASSUME NEW c, c \in State, NEW t \in Turns(c), NEW r \in TurnRecord
    PROVE  LET d == [c EXCEPT !.turns[t] = r]
           IN  OnlyTurn(c, d, t) /\ SameHold(c, d) /\ d.turns[t] = r
<1> DEFINE d == [c EXCEPT !.turns[t] = r]
           f == [c.turns EXCEPT ![t] = r]
<1>1. c.turns \in Seq(TurnRecord)
  BY Fields
<1>2. /\ f \in Seq(TurnRecord) /\ Len(f) = Len(c.turns) /\ f[t] = r
      /\ \A u \in Turns(c) : u # t => f[u] = c.turns[u]
  BY <1>1 DEF Turns
<1> HIDE DEF f
<1>3. /\ d \in State
      /\ d.queue = c.queue /\ d.chain = c.chain /\ d.turns = f /\ d.holder = c.holder
      /\ d.starting = c.starting /\ d.active = c.active /\ d.stream = c.stream
      /\ d.reply = c.reply /\ d.prompts = c.prompts /\ d.place = c.place
  <2>1. d = [c EXCEPT !.turns = f]
    BY DEF f
  <2> HIDE DEF d
  <2>. QED BY <2>1, <1>2 DEF State
<1> HIDE DEF d
<1>4. OnlyTurn(c, d, t) /\ SameHold(c, d) /\ d.turns[t] = r
  <2>1. OnlyTurn(c, d, t)
    BY <1>2, <1>3 DEF OnlyTurn
  <2>2. SameHold(c, d)
    BY <1>3 DEF SameHold
  <2>3. d.turns[t] = r
    BY <1>2, <1>3
  <2>. QED BY <2>1, <2>2, <2>3
<1>. QED BY <1>4 DEF d

LEMMA UpdateFits ==
    ASSUME NEW c, Fits(c), NEW t \in Turns(c), NEW d, OnlyTurn(c, d, t),
           d.holder \in 0 .. Len(c.turns), d.active \in 0 .. Len(c.turns),
           d.starting => d.holder # 0,
           MessageFits(d, t), WritesFit(d, t), NotForgotten(d, t),
           \A u \in Turns(c) : HoldFits(d, u)
    PROVE  Fits(d)
<1>1. /\ d \in State
      /\ d.queue = c.queue /\ d.chain = c.chain /\ d.stream = c.stream
      /\ d.place = c.place /\ d.prompts = c.prompts /\ d.reply = c.reply
      /\ Len(d.turns) = Len(c.turns)
      /\ \A u \in Turns(c) : u # t => d.turns[u] = c.turns[u]
  BY DEF OnlyTurn
<1>2. Typed(d)
  BY <1>1 DEF Fits, Typed, WriteTyped, Turns
<1>3. \A n : Spent(d, n) = Spent(c, n) /\ Gone(d, n) = Gone(c, n) /\ Queued(d, n) = Queued(c, n)
  BY <1>1 DEF Spent, Gone, Queued
<1>4. QueueFits(d) /\ ChainFits(d)
  BY <1>1, <1>3 DEF Fits, QueueFits, ChainFits
<1>5. ASSUME NEW u \in Turns(d), u # t PROVE TurnFits(d, u)
  <2>1. TurnFits(c, u) /\ d.turns[u] = c.turns[u] /\ HoldFits(d, u)
    BY <1>1, <1>5 DEF Fits, Turns
  <2>2. MessageFits(d, u)
    BY <2>1, <1>1, <1>3 DEF TurnFits, MessageFits, AllSpent
  <2>3. WritesFit(d, u) /\ NotForgotten(d, u)
    BY <2>1, <1>1 DEF TurnFits, WritesFit, NotForgotten, Apart, Ahead, BeforePrompt,
                      BeforeStarted, Forgets
  <2>. QED BY <2>1, <2>2, <2>3 DEF TurnFits
<1>. QED BY <1>1, <1>2, <1>4, <1>5 DEF Fits, TurnFits, Turns

\* What a change that keeps turn t where it is cannot disturb.
LEMMA MarkFits ==
    ASSUME NEW c, Fits(c), NEW t \in Turns(c), NEW r \in TurnRecord,
           r.msg = c.turns[t].msg, r.phase = c.turns[t].phase, r.writing = c.turns[t].writing,
           c.turns[t].cancelled => r.cancelled,
           r.complete => r.cancelled /\ r.phase # "prompting",
           c.turns[t].closed => r.closed,
           AllSpent(c, r.joined), AllSpent(c, r.canceller)
    PROVE  Fits([c EXCEPT !.turns[t] = r])
<1> DEFINE d == [c EXCEPT !.turns[t] = r]
<1>1. OnlyTurn(c, d, t) /\ SameHold(c, d) /\ d.turns[t] = r
  <2>1. c \in State
    BY DEF Fits, Typed
  <2>. QED BY <2>1, TurnSet
<1> HIDE DEF d
<1>2. TurnFits(c, t)
  BY DEF Fits
<1>3. /\ d.queue = c.queue /\ d.chain = c.chain /\ d.stream = c.stream
      /\ d.place = c.place /\ d.prompts = c.prompts
      /\ d.holder = c.holder /\ d.starting = c.starting /\ d.active = c.active
      /\ \A u \in Turns(c) : u # t => d.turns[u] = c.turns[u]
  BY <1>1 DEF OnlyTurn, SameHold
<1>4. \A n : Spent(d, n) = Spent(c, n) /\ Gone(d, n) = Gone(c, n)
  BY <1>3 DEF Spent, Gone, Queued
<1>5. MessageFits(d, t)
  BY <1>1, <1>2, <1>3, <1>4 DEF TurnFits, MessageFits, AllSpent, Candidate
<1>6. WritesFit(d, t)
  BY <1>1, <1>2, <1>3 DEF TurnFits, WritesFit, WriteFits
<1>7. NotForgotten(d, t)
  BY <1>1, <1>2, <1>3 DEF TurnFits, NotForgotten, Apart, Ahead, BeforePrompt, BeforeStarted, Forgets
<1>8. ASSUME NEW u \in Turns(c) PROVE HoldFits(d, u)
  <2>1. CASE u = t
    BY <2>1, <1>1, <1>2, <1>3 DEF TurnFits, HoldFits, Reserves
  <2>2. CASE u # t
    BY <2>2, <1>3 DEF Fits, TurnFits, HoldFits, Reserves
  <2>. QED BY <2>1, <2>2
<1>9. d.holder \in 0 .. Len(c.turns) /\ d.active \in 0 .. Len(c.turns) /\ (d.starting => d.holder # 0)
  BY <1>3 DEF Fits, Typed
<1>. QED BY <1>1, <1>5, <1>6, <1>7, <1>8, <1>9, UpdateFits DEF d

---------------------------------------------------------------------------
(* The code between two awaits *)

\* What the code between two awaits leaves alone, unless it says so: the active turn,
\* where each turn is, and what is known of a message.
Stays(c, d) ==
    /\ d.active = c.active /\ d.stream = c.stream /\ Len(c.turns) <= Len(d.turns)
    /\ \A t \in Turns(c) :
           /\ d.turns[t].msg = c.turns[t].msg /\ d.turns[t].by = c.turns[t].by
           /\ d.turns[t].phase = c.turns[t].phase
           /\ c.turns[t].cancelled => d.turns[t].cancelled
           /\ c.turns[t].closed => d.turns[t].closed
    /\ \A m \in Msgs : Spent(c, m) => Spent(d, m)

LEMMA StaysTrans ==
    ASSUME NEW c, NEW d, NEW e, Fits(c), Fits(d), Stays(c, d), Stays(d, e)
    PROVE  Stays(c, e)
<1>1. Len(c.turns) \in Nat /\ Len(d.turns) \in Nat
  BY Fields DEF Fits, Typed
<1>2. CASE Len(e.turns) \in Nat
  BY <1>1, <1>2 DEF Stays, Turns
<1>. QED BY <1>1, <1>2 DEF Stays, Turns

LEMMA ToldStays ==
    ASSUME NEW c, Fits(c), NEW m \in Msgs, NEW a
    PROVE  Stays(c, Told(c, m, a))
<1>1. c \in State /\ Len(c.turns) \in Nat
  BY Fields DEF Fits, Typed
<1> DEFINE d == Told(c, m, a)
<1>2. d.active = c.active /\ d.stream = c.stream /\ d.turns = c.turns /\ d.place = c.place /\ d.chain = c.chain
  BY <1>1 DEF Told, State
<1> HIDE DEF d
<1>3. Stays(c, d)
  BY <1>1, <1>2 DEF Stays, Spent
<1>. QED BY <1>3 DEF d

LEMMA PushStays ==
    ASSUME NEW c, Fits(c), NEW w \in WriteRecord, w.op # "enqueue"
    PROVE  Stays(c, Push(c, w))
<1>1. c \in State /\ Len(c.turns) \in Nat
  BY Fields DEF Fits, Typed
<1> DEFINE d == Push(c, w)
<1>2. /\ d.turns = c.turns /\ d.active = c.active /\ d.stream = c.stream /\ d.place = c.place
      /\ Len(d.chain) = Len(c.chain) + 1 /\ Len(c.chain) \in Nat
      /\ \A i \in 1 .. Len(c.chain) : d.chain[i] = c.chain[i]
      /\ d.chain[Len(c.chain) + 1] = w
  BY <1>1, Pushed
<1> HIDE DEF d
<1>3. \A i \in 1 .. Len(d.chain) : i \in 1 .. Len(c.chain) \/ i = Len(c.chain) + 1
  BY <1>2
<1>4. \A n : Spent(c, n) => Spent(d, n)
  BY <1>2, <1>3 DEF Spent
<1>5. Stays(c, d)
  BY <1>1, <1>2, <1>4 DEF Stays
<1>. QED BY <1>5 DEF d

LEMMA RemoveStays ==
    ASSUME NEW c, Fits(c), NEW m \in Msgs, NEW by \in Ways \cup {"user"}
    PROVE  Stays(c, Push(c, Write("remove", 0, m, by)))
<1>1. Write("remove", 0, m, by) \in WriteRecord /\ Write("remove", 0, m, by).op # "enqueue"
  BY DEF Write, WriteRecord, Writes
<1>. QED BY <1>1, PushStays

LEMMA OfTurnStays ==
    ASSUME NEW c, Fits(c), NEW t \in Turns(c), NEW op \in Writes \ OfMessage
    PROVE  Stays(c, OfTurn(c, op, t))
<1>1. Write(op, t, NoMsg, "turn") \in WriteRecord /\ Write(op, t, NoMsg, "turn").op # "enqueue"
  BY DEF Write, WriteRecord, Writes, Turns, OfMessage
<1>. QED BY <1>1, PushStays DEF OfTurn

\* The next queued message is taken.
LEMMA DrainFits ==
    ASSUME NEW c, Fits(c)
    PROVE  Fits(Drain(c)) /\ Stays(c, Drain(c)) /\ Drain(c).turns = c.turns
<1>1. c \in State /\ Len(c.turns) \in Nat /\ c.queue \in Seq(Msgs)
  BY Fields DEF Fits, Typed
<1>2. CASE c.active # 0 \/ c.queue = <<>>
  <2>1. Drain(c) = c
    BY <1>2 DEF Drain
  <2>2. Stays(c, c)
    BY <1>1 DEF Stays
  <2>. QED BY <2>1, <2>2
<1>3. CASE ~(c.active # 0 \/ c.queue = <<>>)
  <2>1. Head(c.queue) \in Msgs /\ Head(c.queue) = c.queue[1] /\ 1 \in 1 .. Len(c.queue)
    BY <1>1, <1>3
  <2>2. Queued(c, Head(c.queue)) /\ "drain" \in Ways
    BY <2>1 DEF Queued, Ways
  <2>3. Drain(c) = Push(c, Write("remove", 0, Head(c.queue), "drain"))
    BY <1>3 DEF Drain
  <2>4. Drain(c).turns = c.turns
    <3>1. Write("remove", 0, Head(c.queue), "drain") \in WriteRecord
      BY <2>1 DEF Write, WriteRecord, Writes, Ways
    <3>. QED BY <3>1, <2>3, <1>1, Pushed
  <2>. QED BY <2>1, <2>2, <2>3, <2>4, RemoveFits, RemoveStays
<1>. QED BY <1>2, <1>3

\* A turn the coordinator must not let go of.
Bound(r) == Reserves(r) \/ (r.phase = "delivering" /\ ~r.cancelled)

\* What the coordinator holds for turn t is released.
LEMMA ReleaseFits ==
    ASSUME NEW c, Fits(c), NEW t \in Turns(c), c.holder = t, ~Bound(c.turns[t]),
           NEW h \in {0, t}
    PROVE  LET d == [c EXCEPT !.starting = FALSE, !.holder = h]
           IN  Fits(d) /\ Stays(c, d) /\ d.turns = c.turns
<1> DEFINE d == [c EXCEPT !.starting = FALSE, !.holder = h]
<1>1. c \in State /\ Len(c.turns) \in Nat /\ t \in 1 .. Len(c.turns)
  BY Fields DEF Fits, Typed, Turns
<1>2. /\ d \in State
      /\ d.queue = c.queue /\ d.chain = c.chain /\ d.turns = c.turns /\ d.stream = c.stream
      /\ d.place = c.place /\ d.prompts = c.prompts /\ d.reply = c.reply
      /\ d.active = c.active /\ d.holder = h /\ d.starting = FALSE
  <2>1. h \in Nat
    BY <1>1
  <2>. QED BY <1>1, <2>1 DEF State
<1> HIDE DEF d
<1>3. OnlyTurn(c, d, t)
  BY <1>2 DEF OnlyTurn
<1>4. \A n : Spent(d, n) = Spent(c, n) /\ Gone(d, n) = Gone(c, n)
  BY <1>2 DEF Spent, Gone, Queued
<1>5. MessageFits(d, t) /\ WritesFit(d, t) /\ NotForgotten(d, t)
  <2>1. TurnFits(c, t)
    BY DEF Fits
  <2>2. MessageFits(d, t)
    BY <2>1, <1>2, <1>4 DEF TurnFits, MessageFits, AllSpent
  <2>3. WritesFit(d, t) /\ NotForgotten(d, t)
    BY <2>1, <1>2 DEF TurnFits, WritesFit, NotForgotten, Apart, Ahead, BeforePrompt,
                      BeforeStarted, Forgets
  <2>. QED BY <2>2, <2>3
<1>6. ASSUME NEW u \in Turns(c) PROVE HoldFits(d, u)
  <2>1. HoldFits(c, u)
    BY DEF Fits, TurnFits
  <2>2. ~Bound(c.turns[u])
    BY <2>1 DEF HoldFits, Bound
  <2>. QED BY <2>1, <2>2, <1>2 DEF HoldFits, Bound
<1>7. Fits(d)
  BY <1>1, <1>2, <1>3, <1>5, <1>6, UpdateFits DEF Fits, Typed
<1>8. Stays(c, d)
  BY <1>1, <1>2, <1>4 DEF Stays
<1>. QED BY <1>2, <1>7, <1>8 DEF d

LEMMA ReleaseStatusFits ==
    ASSUME NEW c, Fits(c), NEW t \in Turns(c),
           CancelPending(c, t) \/ ~Bound(c.turns[t])
    PROVE  LET d == ReleaseStatus(c, t)
           IN  /\ Fits(d) /\ Stays(c, d) /\ d.turns = c.turns /\ d.holder = c.holder
               /\ d.holder = t => CancelPending(d, t) \/ ~d.starting
<1>1. c \in State /\ Len(c.turns) \in Nat
  BY Fields DEF Fits, Typed
<1>2. CASE c.holder = t /\ ~CancelPending(c, t)
  <2>1. ReleaseStatus(c, t) = [c EXCEPT !.starting = FALSE]
    BY <1>2 DEF ReleaseStatus
  <2>2. [c EXCEPT !.starting = FALSE] = [c EXCEPT !.starting = FALSE, !.holder = t]
    BY <1>1, <1>2 DEF State
  <2>3. [c EXCEPT !.starting = FALSE].starting = FALSE /\ [c EXCEPT !.starting = FALSE].holder = c.holder
    BY <1>1 DEF State
  <2>4. LET d == [c EXCEPT !.starting = FALSE, !.holder = t]
        IN  Fits(d) /\ Stays(c, d) /\ d.turns = c.turns
    <3>1. ~Bound(c.turns[t]) /\ c.holder = t /\ t \in {0, t}
      BY <1>2
    <3>. QED BY <3>1, ReleaseFits
  <2>. QED BY <2>1, <2>2, <2>3, <2>4
<1>3. CASE ~(c.holder = t /\ ~CancelPending(c, t))
  <2>1. ReleaseStatus(c, t) = c
    BY <1>3 DEF ReleaseStatus
  <2>2. Stays(c, c)
    BY <1>1 DEF Stays
  <2>. QED BY <2>1, <2>2, <1>3
<1>. QED BY <1>2, <1>3

LEMMA MarkStays ==
    ASSUME NEW c, Fits(c), NEW t \in Turns(c), NEW r \in TurnRecord,
           r.msg = c.turns[t].msg, r.by = c.turns[t].by, r.phase = c.turns[t].phase,
           c.turns[t].cancelled => r.cancelled, c.turns[t].closed => r.closed
    PROVE  Stays(c, [c EXCEPT !.turns[t] = r])
<1> DEFINE d == [c EXCEPT !.turns[t] = r]
<1>1. c \in State /\ Len(c.turns) \in Nat
  BY Fields DEF Fits, Typed
<1>2. OnlyTurn(c, d, t) /\ SameHold(c, d) /\ d.turns[t] = r
  BY <1>1, TurnSet
<1> HIDE DEF d
<1>3. Stays(c, d)
  BY <1>1, <1>2 DEF Stays, OnlyTurn, SameHold, Spent
<1>. QED BY <1>3 DEF d

\* The startup has none of its writes pending.
AtRest(c, t) == \A op \in Startups : Unasked(c, t, op)

\* Turn t goes on past its startup, or ends, and a is the active turn from then on.
Pass(c, t, a, p) == [c EXCEPT !.active = a, !.turns[t].phase = p]

\* Only the phase of turn t, now d's, differs.
Passed(c, d, t, p) ==
    /\ OnlyTurn(c, d, t)
    /\ d.holder = c.holder /\ d.starting = c.starting
    /\ d.turns[t] \in TurnRecord
    /\ d.turns[t].phase = p /\ d.turns[t].msg = c.turns[t].msg /\ d.turns[t].by = c.turns[t].by
    /\ d.turns[t].cancelled = c.turns[t].cancelled /\ d.turns[t].closed = c.turns[t].closed
    /\ d.turns[t].complete = c.turns[t].complete /\ d.turns[t].settled = c.turns[t].settled

LEMMA PassFits ==
    ASSUME NEW c, Fits(c), NEW t \in Turns(c), NEW a \in {0, c.active}, AtRest(c, t),
           NEW p \in Running \cup {"draining", "ended"},
           p = "delivering" => c.turns[t].phase = "delivering",
           p \in {"live", "finishing"} /\ ~c.turns[t].cancelled
               => a = t /\ c.turns[t].phase \in {"delivering", "live"},
           \/ a = c.active \/ c.active = t
           \/ \A u \in Turns(c) : u # t /\ ~c.turns[u].cancelled
                                      => c.turns[u].phase \notin {"live", "finishing"}
    PROVE  LET d == Pass(c, t, a, p)
           IN  Fits(d) /\ Passed(c, d, t, p) /\ d.active = a
<1> DEFINE r == [c.turns[t] EXCEPT !.phase = p]
           b == [c EXCEPT !.turns[t] = r]
           d == Pass(c, t, a, p)
<1>1. c \in State /\ Len(c.turns) \in Nat /\ c.turns[t] \in TurnRecord /\ c.active \in Nat
  BY Fields DEF Fits, Typed, Turns
<1>2. r \in TurnRecord /\ r.phase = p /\ r.msg = c.turns[t].msg /\ r.cancelled = c.turns[t].cancelled
      /\ r.complete = c.turns[t].complete /\ r.closed = c.turns[t].closed
      /\ r.joined = c.turns[t].joined /\ r.canceller = c.turns[t].canceller
      /\ r.by = c.turns[t].by /\ r.settled = c.turns[t].settled
  BY <1>1 DEF TurnRecord, Phases, Running
<1>3. d = [b EXCEPT !.active = a]
  BY <1>1 DEF State, Pass
<1> HIDE DEF r
<1>4. OnlyTurn(c, b, t) /\ SameHold(c, b) /\ b.turns[t] = r
  BY SMTT(20), <1>1, <1>2, TurnSet
<1> HIDE DEF b, d
<1>5. /\ d \in State
      /\ d.queue = c.queue /\ d.chain = c.chain /\ d.stream = c.stream
      /\ d.place = c.place /\ d.prompts = c.prompts /\ d.reply = c.reply
      /\ d.turns = b.turns /\ d.holder = c.holder /\ d.starting = c.starting /\ d.active = a
  <2>1. b \in State /\ a \in Nat
    BY <1>1, <1>4 DEF OnlyTurn
  <2>2. /\ d \in State
        /\ d.queue = b.queue /\ d.chain = b.chain /\ d.stream = b.stream
        /\ d.place = b.place /\ d.prompts = b.prompts /\ d.reply = b.reply
        /\ d.turns = b.turns /\ d.holder = b.holder /\ d.starting = b.starting /\ d.active = a
    BY <2>1, <1>3 DEF State
  <2>. QED BY <2>2, <1>4 DEF OnlyTurn, SameHold
<1>6. OnlyTurn(c, d, t) /\ d.turns[t] = r
  BY <1>4, <1>5 DEF OnlyTurn
<1>7. TurnFits(c, t)
  BY DEF Fits
<1>8. \A n : Spent(d, n) = Spent(c, n) /\ Gone(d, n) = Gone(c, n)
  BY <1>5 DEF Spent, Gone, Queued
<1>9. MessageFits(d, t)
  BY <1>2, <1>5, <1>6, <1>7, <1>8 DEF TurnFits, MessageFits, AllSpent, Candidate, Running
<1>10. WritesFit(d, t)
  BY <1>2, <1>5, <1>6, <1>7 DEF TurnFits, WritesFit, WriteFits, AtRest, Unasked, Startups, Startup, Running
<1>11. NotForgotten(d, t)
  BY <1>2, <1>5, <1>6, <1>7 DEF TurnFits, NotForgotten, Apart, Ahead, BeforePrompt, BeforeStarted, Forgets, Running
<1>12. ASSUME NEW u \in Turns(c) PROVE HoldFits(d, u)
  <2>1. HoldFits(c, u)
    BY DEF Fits, TurnFits
  <2>2. CASE u = t
    BY <2>1, <2>2, <1>2, <1>5, <1>6 DEF HoldFits, Reserves, Startup, Running
  <2>3. CASE u # t
    <3>1. d.turns[u] = c.turns[u]
      BY <2>3, <1>6 DEF OnlyTurn
    <3>2. CASE a = c.active
      BY <2>1, <3>1, <3>2, <1>5 DEF HoldFits
    <3>3. CASE a # c.active
      <4>1. a = 0 /\ u # 0
        BY <3>3 DEF Turns
      <4>2. (c.turns[u].phase \in {"live", "finishing"} /\ ~c.turns[u].cancelled => FALSE)
        BY <2>1, <2>3, <3>3 DEF HoldFits
      <4>. QED BY <2>1, <3>1, <4>1, <4>2, <1>5 DEF HoldFits
    <3>. QED BY <3>2, <3>3
  <2>. QED BY <2>2, <2>3
<1>13. d.holder \in 0 .. Len(c.turns) /\ d.active \in 0 .. Len(c.turns) /\ (d.starting => d.holder # 0)
  BY <1>1, <1>5 DEF Fits, Typed
<1>14. Fits(d)
  BY <1>6, <1>9, <1>10, <1>11, <1>12, <1>13, UpdateFits
<1>15. Passed(c, d, t, p)
  BY <1>2, <1>5, <1>6 DEF Passed
<1>. QED BY <1>5, <1>14, <1>15 DEF d

Ended(c, t) == Pass(c, t, c.active, "ended")

LEMMA EndFits ==
    ASSUME NEW c, Fits(c), NEW t \in Turns(c), AtRest(c, t)
    PROVE  LET d == Ended(c, t)
           IN  Fits(d) /\ Passed(c, d, t, "ended") /\ d.active = c.active
BY PassFits DEF Ended, Running

\* settleStartupReservation
LEMMA SettleFits ==
    ASSUME NEW c, Fits(c), NEW t \in Turns(c),
           CancelPending(c, t) \/ ~Bound(c.turns[t])
    PROVE  Fits(Settle(c, t)) /\ Stays(c, Settle(c, t))
<1> DEFINE r == [c.turns[t] EXCEPT !.settled = TRUE]
           b == [c EXCEPT !.turns[t] = r]
           released == ReleaseStatus(b, t)
           free == [released EXCEPT !.holder = 0]
<1>1. c \in State /\ Len(c.turns) \in Nat /\ c.turns[t] \in TurnRecord /\ TurnFits(c, t)
  BY Fields DEF Fits, Typed, Turns
<1>2. r \in TurnRecord /\ r.phase = c.turns[t].phase /\ r.msg = c.turns[t].msg /\ r.by = c.turns[t].by
      /\ r.cancelled = c.turns[t].cancelled /\ r.writing = c.turns[t].writing
      /\ r.complete = c.turns[t].complete /\ r.closed = c.turns[t].closed
      /\ r.joined = c.turns[t].joined /\ r.canceller = c.turns[t].canceller
  BY <1>1 DEF TurnRecord
<1>3. [c EXCEPT !.turns[t].settled = TRUE] = b
  OBVIOUS
<1> HIDE DEF r
<1>4. Fits(b) /\ Stays(c, b)
  <2>1. AllSpent(c, r.joined) /\ AllSpent(c, r.canceller) /\ (r.complete => r.cancelled /\ r.phase # "prompting")
    BY <1>1, <1>2 DEF TurnFits, MessageFits, HoldFits, WritesFit
  <2>. QED BY <2>1, <1>2, MarkFits, MarkStays
<1>5. b.turns[t] = r /\ t \in Turns(b)
  BY <1>1, <1>2, TurnSet DEF OnlyTurn, Turns
<1> HIDE DEF b
<1>6. CancelPending(b, t) \/ ~Bound(b.turns[t])
  BY <1>2, <1>5 DEF CancelPending, Bound, Reserves
<1>7. /\ Fits(released) /\ Stays(b, released) /\ released.turns = b.turns
      /\ released.holder = t => CancelPending(released, t) \/ ~released.starting
  BY <1>4, <1>5, <1>6, ReleaseStatusFits
<1>8. Settle(c, t) = IF released.holder # t \/ CancelPending(released, t) THEN released
                     ELSE IF c.turns[t].cancelled /\ ~Busy(free) THEN Drain(free)
                     ELSE free
  BY <1>3 DEF Settle
<1> HIDE DEF released
<1>9. Stays(c, released)
  BY <1>4, <1>7, StaysTrans
<1>10. CASE released.holder # t \/ CancelPending(released, t)
  BY <1>7, <1>8, <1>9, <1>10
<1>11. CASE ~(released.holder # t \/ CancelPending(released, t))
  <2>1. released \in State
    BY <1>7 DEF Fits, Typed
  <2>2. free = [released EXCEPT !.starting = FALSE, !.holder = 0]
    BY <2>1, <1>7, <1>11 DEF State
  <2>3. ~Bound(released.turns[t]) /\ t \in Turns(released)
    BY <1>5, <1>6, <1>7, <1>11 DEF CancelPending, Turns
  <2>4. Fits(free) /\ Stays(released, free)
    BY <2>2, <2>3, <1>7, <1>11, ReleaseFits
  <2> HIDE DEF free
  <2>5. Fits(Drain(free)) /\ Stays(free, Drain(free))
    BY <2>4, DrainFits
  <2>6. Stays(c, free) /\ Stays(c, Drain(free))
    <3>1. Stays(c, free)
      BY <2>4, <1>7, <1>9, StaysTrans
    <3>. QED BY <3>1, <2>4, <2>5, StaysTrans
  <2>. QED BY <2>4, <2>5, <2>6, <1>8, <1>11
<1>. QED BY <1>10, <1>11

\* The return or the throw that ends a startup.
LEMMA UnwindFits ==
    ASSUME NEW c, Fits(c), NEW t \in Turns(c), AtRest(c, t), NEW failed \in BOOLEAN
    PROVE  /\ Fits(Unwind(c, t, failed))
           /\ Stays(Ended(c, t), Unwind(c, t, failed))
<1> DEFINE m == c.turns[t].msg
           p == IF c.place[m] # "held" THEN c.place[m] ELSE IF failed THEN "failed" ELSE "stopped"
           b == Ended(c, t)
           out == [b EXCEPT !.place[m] = p]
           end == Settle(out, t)
<1>1. c \in State /\ Len(c.turns) \in Nat /\ c.turns[t] \in TurnRecord /\ TurnFits(c, t)
      /\ c.place \in [Msgs -> Places]
  BY Fields DEF Fits, Typed, Turns
<1>2. m \in Msgs /\ c.place[m] # "unsent"
  BY <1>1 DEF TurnRecord, TurnFits, MessageFits, Gone, Spent
<1>3. p \in Places /\ p # "unsent"
  BY <1>1, <1>2 DEF Places
<1>4. Fits(b) /\ Passed(c, b, t, "ended")
  BY EndFits
<1>5. [c EXCEPT !.turns[t].phase = "ended",
                !.place[m] = IF @ # "held" THEN @ ELSE IF failed THEN "failed" ELSE "stopped"] = out
  BY <1>1 DEF State, Ended, Pass
<1> HIDE DEF b
<1>6. b \in State /\ b.place = c.place /\ t \in Turns(b) /\ Len(b.turns) \in Nat
  BY <1>1, <1>4 DEF Passed, OnlyTurn, Turns
<1>7. Fits(out)
  BY <1>2, <1>3, <1>4, <1>6, PlaceFits
<1>8. /\ out.turns = b.turns /\ out.active = b.active /\ out.stream = b.stream
      /\ out.chain = b.chain /\ out.place = [b.place EXCEPT ![m] = p]
  BY <1>6 DEF State
<1> HIDE DEF p
<1>9. Stays(b, out)
  <2>1. \A n \in Msgs : Spent(b, n) => Spent(out, n)
    BY <1>1, <1>3, <1>6, <1>8 DEF Spent
  <2>. QED BY <2>1, <1>6, <1>8 DEF Stays
<1> HIDE DEF out
<1>10. t \in Turns(out) /\ ~Bound(out.turns[t]) /\ out.turns[t].msg = m
  <2>1. out.turns[t].phase = "ended" /\ out.turns[t].msg = m
    BY <1>4, <1>8 DEF Passed
  <2>. QED BY <2>1, <1>6, <1>8 DEF Bound, Reserves, Startup, Turns
<1>11. Fits(end) /\ Stays(out, end)
  BY <1>7, <1>10, SettleFits
<1>12. Unwind(c, t, failed) = IF c.turns[t].by # "ask" THEN end
                              ELSE Told(end, m, IF failed THEN "refused" ELSE "ok")
  BY <1>5 DEF Unwind
<1> HIDE DEF end, m
<1>13. Gone(end, m)
  <2>1. t \in Turns(end) /\ end.turns[t].msg = m
    <3>1. Len(end.turns) \in Nat /\ Len(out.turns) \in Nat
      BY <1>7, <1>11, Fields DEF Fits, Typed
    <3>. QED BY <3>1, <1>10, <1>11 DEF Stays, Turns
  <2>. QED BY <2>1, <1>11 DEF Fits, TurnFits, MessageFits
<1>14. \A a \in {"ok", "refused"} : Fits(Told(end, m, a)) /\ Stays(end, Told(end, m, a))
  BY <1>2, <1>11, <1>13, ToldFits, ToldStays
<1>15. Fits(Unwind(c, t, failed)) /\ Stays(end, Unwind(c, t, failed))
  <2>1. Stays(end, end)
    <3>1. Len(end.turns) \in Nat
      BY <1>11, Fields DEF Fits, Typed
    <3>. QED BY <3>1 DEF Stays
  <2>. QED BY <2>1, <1>11, <1>12, <1>14
<1>16. Stays(b, end)
  BY <1>4, <1>7, <1>9, <1>11, StaysTrans
<1>17. Stays(b, Unwind(c, t, failed))
  BY <1>4, <1>11, <1>15, <1>16, StaysTrans
<1>. QED BY <1>15, <1>17 DEF b

\* A new turn of message m.
NewTurn(m, by) ==
    [msg |-> m, by |-> by, phase |-> "prepare", cancelled |-> FALSE, complete |-> FALSE,
     settled |-> FALSE, writing |-> FALSE, recorded |-> FALSE, closed |-> FALSE,
     joined |-> <<>>, canceller |-> <<>>]

LEMMA BeginFits ==
    ASSUME NEW c, Fits(c), NEW m \in Msgs, NEW by \in Ways, Gone(c, m), c.prompts[m] = 0, ~Busy(c)
    PROVE  LET d == [c EXCEPT !.turns = Append(@, NewTurn(m, by)),
                              !.holder = Len(c.turns) + 1, !.starting = TRUE]
           IN  Fits(d) /\ Stays(c, d)
<1> DEFINE r == NewTurn(m, by)
           n == Len(c.turns) + 1
           f == Append(c.turns, r)
           d == [c EXCEPT !.turns = f, !.holder = n, !.starting = TRUE]
<1>1. c \in State /\ Len(c.turns) \in Nat /\ c.turns \in Seq(TurnRecord)
  BY Fields DEF Fits, Typed
<1>2. r \in TurnRecord /\ r.msg = m /\ r.phase = "prepare" /\ ~r.cancelled /\ ~r.complete
      /\ Len(r.joined) = 0 /\ Len(r.canceller) = 0
  BY DEF NewTurn, TurnRecord, Phases, Startup
<1> HIDE DEF r
<1>3. /\ f \in Seq(TurnRecord) /\ Len(f) = n /\ n \in Nat /\ n # 0 /\ f[n] = r
      /\ \A u \in Turns(c) : f[u] = c.turns[u] /\ u \in 1 .. n /\ u # n
      /\ \A u \in 1 .. n : u \in Turns(c) \/ u = n
  BY <1>1, <1>2 DEF Turns
<1> HIDE DEF f, n
<1>4. /\ d \in State
      /\ d.queue = c.queue /\ d.chain = c.chain /\ d.turns = f /\ d.stream = c.stream
      /\ d.place = c.place /\ d.prompts = c.prompts /\ d.reply = c.reply
      /\ d.active = c.active /\ d.holder = n /\ d.starting = TRUE
  BY <1>1, <1>3 DEF State
<1> HIDE DEF d
<1>5. Typed(d)
  <2>1. d.holder \in 0 .. n /\ d.active \in 0 .. n
    <3>1. c.active \in 0 .. Len(c.turns)
      BY DEF Fits, Typed
    <3>. QED BY <3>1, <1>1, <1>3, <1>4 DEF n
  <2>2. \A i \in 1 .. Len(c.chain) : WriteTyped(d, c.chain[i])
    BY <1>3, <1>4 DEF Fits, Typed, WriteTyped, Turns
  <2>. QED BY <2>1, <2>2, <1>3, <1>4 DEF Typed
<1>6. \A x : Spent(d, x) = Spent(c, x) /\ Gone(d, x) = Gone(c, x) /\ Queued(d, x) = Queued(c, x)
  BY <1>4 DEF Spent, Gone, Queued
<1>7. QueueFits(d) /\ ChainFits(d)
  BY <1>4, <1>6 DEF Fits, QueueFits, ChainFits
<1>8. \A i \in 1 .. Len(c.chain) : c.chain[i].op \notin OfMessage => c.chain[i].turn # n
  BY <1>3 DEF Fits, Typed, WriteTyped
<1>9. TurnFits(d, n)
  <2>1. MessageFits(d, n)
    <3>1. \A i \in 1 .. Len(c.chain) : ~(c.chain[i].op = "prompt" /\ c.chain[i].turn = n)
      BY <1>8 DEF OfMessage
    <3>. QED BY <3>1, <1>2, <1>3, <1>4, <1>6 DEF MessageFits, AllSpent
  <2>2. HoldFits(d, n)
    <3>1. c.active = 0
      BY DEF Busy
    <3>. QED BY <3>1, <1>2, <1>3, <1>4 DEF HoldFits
  <2>3. WritesFit(d, n)
    BY <1>2, <1>3, <1>4, <1>8 DEF WritesFit, OfMessage
  <2>4. NotForgotten(d, n)
    BY <1>2, <1>3, <1>4, <1>8 DEF NotForgotten, Apart, Ahead, OfMessage
  <2>. QED BY <2>1, <2>2, <2>3, <2>4 DEF TurnFits
<1>10. ASSUME NEW u \in Turns(c) PROVE TurnFits(d, u)
  <2>1. TurnFits(c, u) /\ d.turns[u] = c.turns[u]
    BY <1>3, <1>4 DEF Fits
  <2>2. MessageFits(d, u)
    BY <2>1, <1>4, <1>6 DEF TurnFits, MessageFits, AllSpent
  <2>3. HoldFits(d, u)
    BY <2>1, <1>4 DEF TurnFits, HoldFits, Busy
  <2>4. WritesFit(d, u) /\ NotForgotten(d, u)
    BY <2>1, <1>4 DEF TurnFits, WritesFit, NotForgotten, Apart, Ahead, BeforePrompt,
                      BeforeStarted, Forgets
  <2>. QED BY <2>2, <2>3, <2>4 DEF TurnFits
<1>11. Fits(d)
  BY <1>3, <1>4, <1>5, <1>7, <1>9, <1>10 DEF Fits, Turns
<1>12. Stays(c, d)
  <2>1. Len(c.turns) <= n
    BY <1>1 DEF n
  <2>. QED BY <2>1, <1>3, <1>4, <1>6 DEF Stays
<1>. QED BY <1>11, <1>12 DEF d, f, n, r

LEMMA PlaceStays ==
    ASSUME NEW c, Fits(c), NEW m \in Msgs, NEW p, p # "unsent"
    PROVE  Stays(c, [c EXCEPT !.place[m] = p])
<1> DEFINE d == [c EXCEPT !.place[m] = p]
<1>1. c \in State /\ Len(c.turns) \in Nat /\ c.place \in [Msgs -> Places]
  BY Fields DEF Fits, Typed
<1>2. /\ d.turns = c.turns /\ d.active = c.active /\ d.stream = c.stream
      /\ d.chain = c.chain /\ d.place = [c.place EXCEPT ![m] = p]
  BY <1>1 DEF State
<1> HIDE DEF d
<1>3. \A n \in Msgs : Spent(c, n) => Spent(d, n)
  BY <1>1, <1>2 DEF Spent
<1>4. Stays(c, d)
  BY <1>1, <1>2, <1>3 DEF Stays
<1>. QED BY <1>4 DEF d

\* startTurnForChat of a message that is out of the queue.
LEMMA StartFits ==
    ASSUME NEW c, Fits(c), NEW m \in Msgs, NEW by \in Ways, Gone(c, m), c.prompts[m] = 0
    PROVE  Fits(Start(c, m, by)) /\ Stays(c, Start(c, m, by))
<1>1. c \in State /\ Len(c.turns) \in Nat /\ c.place \in [Msgs -> Places] /\ c.place[m] # "unsent"
  BY Fields DEF Fits, Typed, Gone, Spent
<1>2. CASE Busy(c)
  <2> DEFINE p == IF c.place[m] = "queued" THEN "dropped" ELSE c.place[m]
             b == [c EXCEPT !.place[m] = p]
  <2>1. p \in Places /\ p # "unsent"
    BY <1>1 DEF Places
  <2>2. Start(c, m, by) = IF by = "ask" THEN Told(b, m, "refused") ELSE b
    BY <1>1, <1>2 DEF Start, Refuse, State
  <2> HIDE DEF p
  <2>3. Fits(b) /\ Stays(c, b)
    BY <1>1, <2>1, PlaceFits, PlaceStays
  <2>4. Gone(b, m)
    <3>1. b.queue = c.queue
      BY <1>1 DEF State
    <3>. QED BY <2>3, <3>1 DEF Gone, Queued, Stays
  <2> HIDE DEF b
  <2>5. Fits(Told(b, m, "refused")) /\ Stays(b, Told(b, m, "refused"))
    BY <2>3, <2>4, ToldFits, ToldStays
  <2>6. Stays(c, Told(b, m, "refused"))
    BY <2>3, <2>5, StaysTrans
  <2>. QED BY <2>2, <2>3, <2>5, <2>6
<1>3. CASE ~Busy(c)
  <2> DEFINE p == IF c.place[m] = "prompt" THEN c.place[m] ELSE "held"
             b == [c EXCEPT !.place[m] = p]
             e == [b EXCEPT !.turns = Append(@, NewTurn(m, by)),
                            !.holder = Len(b.turns) + 1, !.starting = TRUE]
  <2>1. p \in Places /\ p # "unsent"
    BY <1>1 DEF Places
  <2>2. Start(c, m, by) = e
    BY ZenonT(30), <1>1, <1>3 DEF Start, StartEvenIfBusy, NewTurn, State
  <2> HIDE DEF p
  <2>3. Fits(b) /\ Stays(c, b)
    BY <1>1, <2>1, PlaceFits, PlaceStays
  <2>4. b.queue = c.queue /\ b.prompts = c.prompts /\ b.active = c.active /\ b.starting = c.starting
    BY <1>1 DEF State
  <2>5. Gone(b, m) /\ b.prompts[m] = 0 /\ ~Busy(b)
    BY <2>3, <2>4, <1>3 DEF Gone, Queued, Stays, Busy
  <2> HIDE DEF b
  <2>6. Fits(e) /\ Stays(b, e)
    BY <2>3, <2>5, BeginFits
  <2> HIDE DEF e
  <2>7. Stays(c, e)
    BY <2>3, <2>6, StaysTrans
  <2>. QED BY <2>2, <2>6, <2>7
<1>. QED BY <1>2, <1>3

\* The second half of steer().
LEMMA SteerOnFits ==
    ASSUME NEW c, Fits(c), NEW m \in Msgs, NEW by \in {"steer", "ask"}, Spent(c, m)
    PROVE  Fits(SteerOn(c, m, by)) /\ Stays(c, SteerOn(c, m, by))
<1>1. Stays(c, c)
  <2>1. Len(c.turns) \in Nat
    BY Fields DEF Fits, Typed
  <2>. QED BY <2>1 DEF Stays
<1>2. Fits(Told(c, m, "ok")) /\ Stays(c, Told(c, m, "ok"))
  BY ToldFits, ToldStays
<1>3. CASE Busy(c)
  <2>1. ASSUME ~Queued(c, m) PROVE Fits(Told(c, m, "refused")) /\ Stays(c, Told(c, m, "refused"))
    BY <2>1, ToldFits, ToldStays DEF Gone
  <2>. QED BY <1>1, <1>2, <1>3, <2>1 DEF SteerOn
<1>4. CASE ~Busy(c) /\ ~Queued(c, m)
  BY <1>1, <1>2, <1>4 DEF SteerOn
<1>5. CASE ~Busy(c) /\ Queued(c, m)
  <2>1. SteerOn(c, m, by) = Push(c, Write("remove", 0, m, by))
    BY <1>5 DEF SteerOn
  <2>2. by \in Ways \cup {"user"}
    BY DEF Ways
  <2>. QED BY <1>5, <2>1, <2>2, RemoveFits, RemoveStays
<1>. QED BY <1>3, <1>4, <1>5

LEMMA LeastNumber ==
    ASSUME NEW S, S \subseteq Nat, S # {}
    PROVE  \E n \in S : \A k \in S : n <= k
<1>1. PICK n \in S : \A k \in S : ~(<<k, n>> \in OpToRel(<, Nat))
  BY NatLessThanWellFounded, WFMin
<1>2. \A k \in S : ~(k < n)
  BY <1>1 DEF OpToRel
<1>. QED BY <1>2

\* The states a list of steers goes through.
Steered(f, c, steers, n) ==
    f = [i \in 0 .. n |-> IF i = 0 THEN c ELSE SteerOn(f[i - 1], steers[i][1], steers[i][2])]

LEMMA SteersExist ==
    ASSUME NEW c, NEW steers, NEW n \in Nat
    PROVE  \E f : Steered(f, c, steers, n)
<1> DEFINE Bad == {k \in Nat : ~\E f : Steered(f, c, steers, k)}
<1>1. Bad = {}
  <2>1. SUFFICES ASSUME Bad # {} PROVE FALSE
    OBVIOUS
  <2>2. PICK k \in Bad : \A j \in Bad : k <= j
    <3>1. Bad \subseteq Nat
      OBVIOUS
    <3> HIDE DEF Bad
    <3>. QED BY <2>1, <3>1, LeastNumber
  <2>3. k \in Nat /\ ~\E f : Steered(f, c, steers, k)
    OBVIOUS
  <2>4. CASE k = 0
    <3> DEFINE f == [i \in 0 .. 0 |-> c]
    <3>1. Steered(f, c, steers, 0)
      BY DEF Steered
    <3>. QED BY <2>3, <2>4, <3>1
  <2>5. CASE k # 0
    <3>1. k - 1 \in Nat /\ ~(k <= k - 1)
      BY <2>3, <2>5
    <3>2. PICK f : Steered(f, c, steers, k - 1)
      <4>1. k - 1 \notin Bad
        <5> HIDE DEF Bad
        <5>. QED BY <2>2, <3>1
      <4>. QED BY <3>1, <4>1
    <3> DEFINE g == [i \in 0 .. k |-> IF i < k THEN f[i]
                                      ELSE SteerOn(f[k - 1], steers[k][1], steers[k][2])]
    <3>3. \A i \in 0 .. (k - 1) : f[i] = IF i = 0 THEN c ELSE SteerOn(f[i - 1], steers[i][1], steers[i][2])
      BY <3>1, <3>2 DEF Steered
    <3>4. \A i \in 0 .. k : g[i] = IF i = 0 THEN c ELSE SteerOn(g[i - 1], steers[i][1], steers[i][2])
      <4>1. SUFFICES ASSUME NEW i \in 0 .. k
                     PROVE  g[i] = IF i = 0 THEN c ELSE SteerOn(g[i - 1], steers[i][1], steers[i][2])
        OBVIOUS
      <4>2. CASE i = 0
        BY <2>3, <2>5, <3>1, <3>3, <4>2
      <4>3. CASE i # 0 /\ i < k
        <5>1. i \in 0 .. (k - 1) /\ i - 1 \in 0 .. k /\ i - 1 < k
          BY <2>3, <4>3
        <5>2. g[i] = f[i] /\ g[i - 1] = f[i - 1]
          BY <5>1, <4>3
        <5> HIDE DEF g
        <5>. QED BY <3>3, <4>3, <5>1, <5>2
      <4>4. CASE i = k
        <5>1. g[k] = SteerOn(f[k - 1], steers[k][1], steers[k][2]) /\ g[k - 1] = f[k - 1]
          BY <2>3, <3>1
        <5> HIDE DEF g
        <5>. QED BY <2>5, <4>4, <5>1
      <4>. QED BY <2>3, <4>2, <4>3, <4>4
    <3>5. Steered(g, c, steers, k)
      <4> DEFINE h == [i \in 0 .. k |-> IF i = 0 THEN c ELSE SteerOn(g[i - 1], steers[i][1], steers[i][2])]
      <4>1. \A i \in 0 .. k : g[i] = h[i]
        <5>1. \A i \in 0 .. k : h[i] = IF i = 0 THEN c ELSE SteerOn(g[i - 1], steers[i][1], steers[i][2])
          OBVIOUS
        <5> HIDE DEF h, g
        <5>. QED BY <3>4, <5>1
      <4>2. g = [i \in 0 .. k |-> g[i]] /\ h = [i \in 0 .. k |-> h[i]]
        OBVIOUS
      <4>3. g = h
        <5> HIDE DEF g, h
        <5>. QED BY <4>1, <4>2
      <4> HIDE DEF g
      <4>. QED BY <4>3 DEF Steered
    <3>. QED BY <2>3, <3>5
  <2>. QED BY <2>4, <2>5
<1>. QED BY <1>1

LEMMA SteerAllFits ==
    ASSUME NEW c, Fits(c), NEW steers \in Seq(Steers), AllSpent(c, steers)
    PROVE  Fits(SteerAll(c, steers)) /\ Stays(c, SteerAll(c, steers))
<1> DEFINE n == Len(steers)
           after == CHOOSE f : Steered(f, c, steers, n)
<1>1. n \in Nat
  OBVIOUS
<1>2. Steered(after, c, steers, n)
  <2>1. \E f : Steered(f, c, steers, n)
    BY <1>1, SteersExist
  <2>. QED BY <2>1
<1>3. SteerAll(c, steers) = after[n]
  BY DEF SteerAll, Steered
<1> HIDE DEF after
<1>4. \A i \in 0 .. n : after[i] = IF i = 0 THEN c ELSE SteerOn(after[i - 1], steers[i][1], steers[i][2])
  BY <1>2 DEF Steered
<1> DEFINE Good(i) == Fits(after[i]) /\ Stays(c, after[i])
           Bad == {k \in Nat : k <= n /\ ~Good(k)}
<1>5. Bad = {}
  <2>1. SUFFICES ASSUME Bad # {} PROVE FALSE
    OBVIOUS
  <2>2. PICK k \in Bad : \A j \in Bad : k <= j
    <3>1. Bad \subseteq Nat
      OBVIOUS
    <3> HIDE DEF Bad
    <3>. QED BY <2>1, <3>1, LeastNumber
  <2>3. k \in Nat /\ k <= n /\ ~Good(k)
    OBVIOUS
  <2>4. Good(0)
    <3>1. after[0] = c
      BY <1>1, <1>4
    <3>2. Stays(c, c)
      <4>1. Len(c.turns) \in Nat
        BY Fields DEF Fits, Typed
      <4>. QED BY <4>1 DEF Stays
    <3>. QED BY <3>1, <3>2
  <2>5. k # 0
    BY <2>3, <2>4
  <2>6. k - 1 \in Nat /\ k - 1 <= n /\ ~(k <= k - 1) /\ k \in 0 .. n /\ k \in 1 .. n
    BY <1>1, <2>3, <2>5
  <2>7. Good(k - 1)
    <3> HIDE DEF Good
    <3>. QED BY <2>2, <2>6
  <2>8. steers[k][1] \in Msgs /\ steers[k][2] \in {"steer", "ask"} /\ Spent(c, steers[k][1])
    BY <2>6 DEF Steers, AllSpent
  <2>9. Spent(after[k - 1], steers[k][1])
    BY <2>7, <2>8 DEF Stays
  <2>10. after[k] = SteerOn(after[k - 1], steers[k][1], steers[k][2])
    BY <1>4, <2>5, <2>6
  <2>11. Fits(after[k]) /\ Stays(after[k - 1], after[k])
    BY <2>7, <2>8, <2>9, <2>10, SteerOnFits
  <2>12. Stays(c, after[k])
    BY <2>7, <2>11, StaysTrans
  <2>. QED BY <2>3, <2>11, <2>12
<1>. QED BY <1>1, <1>3, <1>5

LEMMA StaysSame ==
    ASSUME NEW c, Fits(c)
    PROVE  Stays(c, c)
<1>1. Len(c.turns) \in Nat
  BY Fields DEF Fits, Typed
<1>. QED BY <1>1 DEF Stays

\* cancelStartupReservation
LEMMA CancelFits ==
    ASSUME NEW c, Fits(c), NEW t \in Turns(c)
    PROVE  LET d == CancelReservation(c, t)
           IN  /\ Fits(d) /\ Stays(c, d) /\ t \in Turns(d) /\ d.turns[t] \in TurnRecord
               /\ d.turns[t].cancelled
               /\ d.turns[t].joined = c.turns[t].joined /\ d.turns[t].canceller = c.turns[t].canceller
               /\ d.turns[t].writing = c.turns[t].writing
               /\ d.holder = c.holder /\ Len(d.turns) = Len(c.turns)
               /\ \A u \in Turns(c) : u # t => d.turns[u] = c.turns[u]
<1> DEFINE r == [c.turns[t] EXCEPT !.cancelled = TRUE]
           b == [c EXCEPT !.turns[t] = r]
           d == ReleaseStatus(b, t)
<1>1. c \in State /\ Len(c.turns) \in Nat /\ c.turns[t] \in TurnRecord /\ TurnFits(c, t)
  BY Fields DEF Fits, Typed, Turns
<1>2. r \in TurnRecord /\ r.phase = c.turns[t].phase /\ r.msg = c.turns[t].msg /\ r.by = c.turns[t].by
      /\ r.cancelled /\ r.writing = c.turns[t].writing
      /\ r.complete = c.turns[t].complete /\ r.closed = c.turns[t].closed
      /\ r.joined = c.turns[t].joined /\ r.canceller = c.turns[t].canceller
  BY <1>1 DEF TurnRecord
<1>3. CancelReservation(c, t) = d
  BY DEF CancelReservation
<1> HIDE DEF r
<1>4. Fits(b) /\ Stays(c, b)
  <2>1. AllSpent(c, r.joined) /\ AllSpent(c, r.canceller) /\ (r.complete => r.cancelled /\ r.phase # "prompting")
    BY <1>1, <1>2 DEF TurnFits, MessageFits, WritesFit
  <2>. QED BY <2>1, <1>2, MarkFits, MarkStays
<1>5. b.turns[t] = r /\ t \in Turns(b) /\ b.holder = c.holder /\ Len(b.turns) = Len(c.turns)
      /\ \A u \in Turns(c) : u # t => b.turns[u] = c.turns[u]
  BY <1>1, <1>2, TurnSet DEF OnlyTurn, SameHold, Turns
<1> HIDE DEF b
<1>6. CancelPending(b, t) \/ ~Bound(b.turns[t])
  BY <1>1, <1>2, <1>5 DEF CancelPending, Bound, Reserves, TurnFits, WritesFit
<1>7. Fits(d) /\ Stays(b, d) /\ d.turns = b.turns /\ d.holder = b.holder
  BY <1>4, <1>5, <1>6, ReleaseStatusFits
<1> HIDE DEF d
<1>8. Stays(c, d)
  BY <1>4, <1>7, StaysTrans
<1>. QED BY <1>2, <1>3, <1>5, <1>7, <1>8 DEF Turns

LEMMA AllSpentJoin ==
    ASSUME NEW c, NEW x \in Seq(Steers), NEW y \in Seq(Steers), AllSpent(c, x), AllSpent(c, y)
    PROVE  x \o y \in Seq(Steers) /\ AllSpent(c, x \o y)
<1>1. /\ x \o y \in Seq(Steers) /\ Len(x \o y) = Len(x) + Len(y) /\ Len(x) \in Nat /\ Len(y) \in Nat
      /\ \A i \in 1 .. Len(x \o y) : (x \o y)[i] = IF i <= Len(x) THEN x[i] ELSE y[i - Len(x)]
  OBVIOUS
<1> DEFINE z == x \o y
<1> HIDE DEF z
<1>2. ASSUME NEW i \in 1 .. Len(z) PROVE Spent(c, z[i][1])
  <2>1. CASE i <= Len(x)
    BY <1>1, <2>1 DEF AllSpent, z
  <2>2. CASE ~(i <= Len(x))
    <3>1. i - Len(x) \in 1 .. Len(y) /\ z[i] = y[i - Len(x)]
      BY <1>1, <2>2 DEF z
    <3>. QED BY <3>1 DEF AllSpent
  <2>. QED BY <2>1, <2>2
<1>. QED BY <1>1, <1>2 DEF AllSpent, z

LEMMA SpentStays ==
    ASSUME NEW c, NEW d, Stays(c, d), NEW x \in Seq(Steers), AllSpent(c, x)
    PROVE  AllSpent(d, x)
<1>1. \A i \in 1 .. Len(x) : x[i][1] \in Msgs
  BY DEF Steers
<1>. QED BY <1>1 DEF AllSpent, Stays

\* cancel() for a startup.
LEMMA StopStartupFits ==
    ASSUME NEW c, Fits(c), c.starting, NEW steers \in Seq(Steers), AllSpent(c, steers)
    PROVE  Fits(StopStartup(c, steers)) /\ Stays(c, StopStartup(c, steers))
<1> DEFINE t == c.holder
           b == CancelReservation(c, t)
           r == [b.turns[t] EXCEPT !.recorded = TRUE, !.joined = b.turns[t].joined \o steers]
           marked == [b EXCEPT !.turns[t] = r]
<1>1. t \in Turns(c) /\ c \in State /\ c.turns[t] \in TurnRecord /\ TurnFits(c, t)
  <2>1. t \in Turns(c) /\ c \in State
    BY Fields DEF Fits, Typed, Turns
  <2>. QED BY <2>1, Fields DEF Fits, Turns
<1> HIDE DEF t
<1>2. /\ Fits(b) /\ Stays(c, b) /\ t \in Turns(b) /\ b.turns[t] \in TurnRecord
      /\ b.turns[t].cancelled /\ b.turns[t].writing = c.turns[t].writing
  BY <1>1, CancelFits
<1> HIDE DEF b
<1>3. b \in State /\ TurnFits(b, t)
  BY <1>2 DEF Fits, Typed
<1>4. AllSpent(b, b.turns[t].joined \o steers) /\ b.turns[t].joined \o steers \in Seq(Steers)
  <2>1. b.turns[t].joined \in Seq(Steers) /\ AllSpent(b, b.turns[t].joined)
    BY <1>2, <1>3 DEF TurnRecord, TurnFits, MessageFits
  <2>2. AllSpent(b, steers)
    BY <1>2, SpentStays
  <2>. QED BY <2>1, <2>2, AllSpentJoin
<1>5. r \in TurnRecord /\ r.phase = b.turns[t].phase /\ r.msg = b.turns[t].msg /\ r.by = b.turns[t].by
      /\ r.cancelled = b.turns[t].cancelled /\ r.writing = b.turns[t].writing
      /\ r.complete = b.turns[t].complete /\ r.closed = b.turns[t].closed
      /\ r.joined = b.turns[t].joined \o steers /\ r.canceller = b.turns[t].canceller
  BY <1>2, <1>4 DEF TurnRecord
<1>6. [CancelReservation(c, t) EXCEPT !.turns[t].recorded = TRUE, !.turns[t].joined = @ \o steers] = marked
  BY ZenonT(30), <1>2, <1>3 DEF b, State, Turns
<1> HIDE DEF r
<1>7. Fits(marked) /\ Stays(b, marked)
  <2>1. AllSpent(b, r.joined) /\ AllSpent(b, r.canceller) /\ (r.complete => r.cancelled /\ r.phase # "prompting")
    BY <1>2, <1>3, <1>4, <1>5 DEF TurnFits, MessageFits, WritesFit
  <2>. QED BY <2>1, <1>2, <1>5, MarkFits, MarkStays
<1>8. marked.turns[t] = r /\ t \in Turns(marked)
  BY <1>2, <1>3, <1>5, TurnSet DEF OnlyTurn, Turns
<1> HIDE DEF marked
<1>9. Stays(c, marked)
  BY <1>2, <1>7, StaysTrans
<1>10. StopStartup(c, steers) = IF c.turns[t].recorded \/ c.turns[t].writing THEN marked
                                ELSE OfTurn(marked, "interrupted", t)
  BY <1>6 DEF StopStartup, t
<1>11. ASSUME ~c.turns[t].writing
       PROVE  Fits(OfTurn(marked, "interrupted", t)) /\ Stays(marked, OfTurn(marked, "interrupted", t))
  <2>1. "interrupted" \in Writes \ OfMessage /\ "interrupted" \notin Startups
    BY DEF Writes, OfMessage, Startups
  <2>2. WriteFits(marked.turns[t], "interrupted")
    <3>1. c.turns[t].phase # "prompting"
      BY <1>1, <1>11 DEF TurnFits, HoldFits
    <3>2. r.phase # "prompting" /\ r.cancelled
      BY <3>1, <1>1, <1>2, <1>5 DEF Stays
    <3>. QED BY <3>2, <1>8 DEF WriteFits
  <2>3. \A u \in Turns(marked) : Clear(marked, marked.turns[u], "interrupted")
    BY DEF Clear, BeforePrompt, BeforeStarted, Forgets
  <2>. QED BY <2>1, <2>2, <2>3, <1>7, <1>8, OfTurnFits, OfTurnStays
<1>12. ASSUME ~c.turns[t].writing PROVE Stays(c, OfTurn(marked, "interrupted", t))
  BY <1>7, <1>9, <1>11, <1>12, StaysTrans
<1>. QED BY <1>7, <1>9, <1>10, <1>11, <1>12

\* Nobody else is near an engine while t is the active turn.
LEMMA ActiveIsAlone ==
    ASSUME NEW c, Fits(c), NEW t \in Turns(c), c.active = t, NEW u \in Turns(c), u # t,
           ~c.turns[u].cancelled
    PROVE  c.turns[u].phase \notin Startup \cup {"delivering", "live", "finishing"}
<1>1. t # 0 /\ HoldFits(c, u)
  BY DEF Turns, Fits, TurnFits
<1>. QED BY <1>1 DEF HoldFits, Reserves

\* cancel() for the active turn.
LEMMA StopActiveFits ==
    ASSUME NEW c, Fits(c), c.active # 0, NEW steers \in Seq(Steers), AllSpent(c, steers),
           NEW tool \in BOOLEAN
    PROVE  Fits(StopActive(c, steers, tool)) /\ Stays(c, StopActive(c, steers, tool))
<1> DEFINE t == c.active
           b == CancelReservation(c, t)
           r == [b.turns[t] EXCEPT !.canceller = steers]
           marked == [b EXCEPT !.turns[t] = r]
           op == IF tool THEN "tool" ELSE "stopping"
<1>1. t \in Turns(c) /\ c \in State /\ c.turns[t] \in TurnRecord /\ TurnFits(c, t)
  <2>1. t \in Turns(c) /\ c \in State
    BY Fields DEF Fits, Typed, Turns
  <2>. QED BY <2>1, Fields DEF Fits, Turns
<1>2. CASE c.turns[t].cancelled
  BY <1>2, SteerAllFits DEF StopActive
<1>3. CASE ~c.turns[t].cancelled
  <2>1. StopActive(c, steers, tool) = OfTurn(marked, op, t)
    BY <1>3 DEF StopActive
  <2>2. \A u \in Turns(c) : u # t /\ ~c.turns[u].cancelled
            => c.turns[u].phase \notin Startup \cup {"delivering", "live", "finishing"}
    BY <1>1, ActiveIsAlone
  <2>3. c.turns[t].phase \notin Startup
    BY <1>1 DEF TurnFits, HoldFits
  <2> HIDE DEF t
  <2>4. /\ Fits(b) /\ Stays(c, b) /\ t \in Turns(b) /\ b.turns[t] \in TurnRecord
        /\ b.turns[t].cancelled /\ Len(b.turns) = Len(c.turns)
        /\ \A u \in Turns(c) : u # t => b.turns[u] = c.turns[u]
    BY <1>1, CancelFits
  <2> HIDE DEF b
  <2>5. b \in State /\ TurnFits(b, t) /\ AllSpent(b, steers)
    BY <2>4, SpentStays DEF Fits, Typed
  <2>6. r \in TurnRecord /\ r.phase = b.turns[t].phase /\ r.msg = b.turns[t].msg /\ r.by = b.turns[t].by
        /\ r.cancelled = b.turns[t].cancelled /\ r.writing = b.turns[t].writing
        /\ r.complete = b.turns[t].complete /\ r.closed = b.turns[t].closed
        /\ r.joined = b.turns[t].joined /\ r.canceller = steers
    BY <2>4 DEF TurnRecord
  <2> HIDE DEF r
  <2>7. Fits(marked) /\ Stays(b, marked)
    <3>1. AllSpent(b, r.joined) /\ AllSpent(b, r.canceller) /\ (r.complete => r.cancelled /\ r.phase # "prompting")
      BY <2>4, <2>5, <2>6 DEF TurnFits, MessageFits, WritesFit
    <3>. QED BY <3>1, <2>4, <2>6, MarkFits, MarkStays
  <2>8. marked.turns[t] = r /\ t \in Turns(marked) /\ Len(marked.turns) = Len(b.turns)
        /\ \A u \in Turns(b) : u # t => marked.turns[u] = b.turns[u]
    BY <2>4, <2>5, <2>6, TurnSet DEF OnlyTurn, Turns
  <2> HIDE DEF marked
  <2>9. op \in Writes \ OfMessage /\ op \notin Startups /\ op \in {"tool", "stopping"}
    BY DEF Writes, OfMessage, Startups
  <2> HIDE DEF op
  <2>10. WriteFits(marked.turns[t], op)
    <3>1. r.phase \notin Startup /\ r.cancelled
      BY <2>3, <2>4, <2>6, <1>1 DEF Stays
    <3>. QED BY <3>1, <2>8, <2>9 DEF WriteFits
  <2>11. \A u \in Turns(marked) : u # t /\ ~marked.turns[u].cancelled
             => Clear(marked, marked.turns[u], op)
    BY <2>2, <2>4, <2>8 DEF Clear, Turns, Startup
  <2>12. Fits(OfTurn(marked, op, t)) /\ Stays(marked, OfTurn(marked, op, t))
    BY <2>7, <2>8, <2>9, <2>10, <2>11, OfTurnFits, OfTurnStays
  <2>13. Stays(c, marked)
    BY <2>4, <2>7, StaysTrans
  <2>14. Stays(c, OfTurn(marked, op, t))
    BY <2>7, <2>12, <2>13, StaysTrans
  <2>. QED BY <2>1, <2>12, <2>14 DEF t, b, r, marked, op
<1>. QED BY <1>2, <1>3

LEMMA CancelledFits ==
    ASSUME NEW c, Fits(c), NEW steers \in Seq(Steers), AllSpent(c, steers), NEW tool \in BOOLEAN
    PROVE  Fits(Cancel(c, steers, tool)) /\ Stays(c, Cancel(c, steers, tool))
BY StopActiveFits, StopStartupFits, SteerAllFits DEF Cancel

LEMMA SteerNowFits ==
    ASSUME NEW c, Fits(c), NEW m \in Msgs, NEW by \in {"steer", "ask"}, Spent(c, m),
           NEW tool \in BOOLEAN
    PROVE  Fits(SteerNow(c, m, by, tool)) /\ Stays(c, SteerNow(c, m, by, tool))
<1> DEFINE steers == << <<m, by>> >>
<1>1. steers \in Seq(Steers) /\ Len(steers) = 1 /\ steers[1][1] = m
  <2>1. <<m, by>> \in Steers
    BY DEF Steers
  <2>2. <<m, by>>[1] = m
    OBVIOUS
  <2> DEFINE x == <<m, by>>
  <2> HIDE DEF x
  <2>3. x \in Steers /\ x[1] = m
    BY <2>1, <2>2 DEF x
  <2>4. <<x>> \in Seq(Steers) /\ Len(<<x>>) = 1 /\ <<x>>[1] = x
    BY <2>3
  <2>. QED BY <2>3, <2>4 DEF x
<1> HIDE DEF steers
<1>2. AllSpent(c, steers)
  BY <1>1 DEF AllSpent
<1>3. SteerNow(c, m, by, tool) = IF Busy(c) THEN Cancel(c, steers, tool) ELSE SteerOn(c, m, by)
  BY DEF SteerNow, steers
<1>. QED BY <1>1, <1>2, <1>3, CancelledFits, SteerOnFits

---------------------------------------------------------------------------
(* The write at the head of the chain *)

Popped(c) == [c EXCEPT !.chain = Tail(@)]

\* What is known of a write that is due in state c.
EnqueueDue(c, m) ==
    /\ m \in Msgs /\ Spent(c, m) /\ ~Queued(c, m)
    /\ c.prompts[m] = 0 /\ c.reply[m] # "refused"
    /\ \A t \in Turns(c) : c.turns[t].msg # m
    /\ \A i \in 1 .. Len(c.chain) : c.chain[i].op = "remove" => c.chain[i].msg # m

RemoveDue(c, w) ==
    /\ w.msg \in Msgs /\ w.by \in Ways \cup {"user"}
    /\ Spent(c, w.msg) /\ (w.by # "user" => c.prompts[w.msg] = 0)

TurnDue(c, t, op) ==
    /\ t \in Turns(c) /\ WriteFits(c.turns[t], op)
    /\ op \in Startups => Unasked(c, t, op)
    /\ op = "prompt" => \A i \in 1 .. Len(c.chain) :
                            c.chain[i].op = "remove" => c.chain[i].msg # c.turns[t].msg
    /\ \A u \in Turns(c) : u # t /\ ~c.turns[u].cancelled => Apart(c, c.turns[u], op)
    /\ ~c.turns[t].cancelled =>
           \A i \in 1 .. Len(c.chain) :
               c.chain[i].op \notin OfMessage /\ c.chain[i].turn # t =>
                   /\ op = "prompt"  => ~BeforePrompt(c, c.chain[i].op)
                   /\ op = "started" => ~BeforeStarted(c, c.chain[i].op)
                   /\ op = "policy"  => c.chain[i].op # "stopped"

LEMMA TailFacts ==
    ASSUME NEW c, c \in State, c.chain # <<>>
    PROVE  LET d == Popped(c)
           IN  /\ d \in State /\ Len(c.chain) \in Nat \ {0} /\ Len(d.chain) = Len(c.chain) - 1
               /\ \A i \in 1 .. Len(d.chain) :
                      d.chain[i] = c.chain[i + 1] /\ i + 1 \in 1 .. Len(c.chain)
               /\ Head(c.chain) = c.chain[1] /\ Head(c.chain) \in WriteRecord
               /\ d.queue = c.queue /\ d.turns = c.turns /\ d.holder = c.holder
               /\ d.starting = c.starting /\ d.active = c.active /\ d.stream = c.stream
               /\ d.place = c.place /\ d.prompts = c.prompts /\ d.reply = c.reply
<1> DEFINE d == Popped(c)
           z == Tail(c.chain)
<1>1. c.chain \in Seq(WriteRecord)
  BY Fields
<1>2. /\ z \in Seq(WriteRecord) /\ Len(z) = Len(c.chain) - 1 /\ Len(c.chain) \in Nat \ {0}
      /\ \A i \in 1 .. Len(z) : z[i] = c.chain[i + 1]
      /\ Head(c.chain) = c.chain[1] /\ Head(c.chain) \in WriteRecord
  BY <1>1
<1> HIDE DEF z
<1>3. /\ d \in State /\ d.chain = z
      /\ d.queue = c.queue /\ d.turns = c.turns /\ d.holder = c.holder
      /\ d.starting = c.starting /\ d.active = c.active /\ d.stream = c.stream
      /\ d.place = c.place /\ d.prompts = c.prompts /\ d.reply = c.reply
  <2>1. d = [c EXCEPT !.chain = z]
    BY DEF Popped, z
  <2> HIDE DEF d
  <2>. QED BY <2>1, <1>2 DEF State
<1> HIDE DEF d
<1>4. Len(d.chain) = Len(c.chain) - 1
      /\ \A i \in 1 .. Len(d.chain) : d.chain[i] = c.chain[i + 1] /\ i + 1 \in 1 .. Len(c.chain)
  BY <1>2, <1>3
<1>. QED BY <1>2, <1>3, <1>4 DEF d

LEMMA PopFits ==
    ASSUME NEW c, Fits(c), c.chain # <<>>
    PROVE  LET d == Popped(c)
               w == Head(c.chain)
           IN  /\ Fits(d) /\ w \in WriteRecord
               /\ w.op = "enqueue" => EnqueueDue(d, w.msg) /\ w.by \in Ways
               /\ w.op = "remove" => RemoveDue(d, w)
               /\ w.op \notin OfMessage => TurnDue(d, w.turn, w.op)
               /\ d.active = c.active /\ d.turns = c.turns /\ d.stream = c.stream
<1> DEFINE d == Popped(c)
           w == Head(c.chain)
<1>1. c \in State
  BY DEF Fits, Typed
<1>2. /\ d \in State /\ Len(c.chain) \in Nat \ {0} /\ Len(d.chain) = Len(c.chain) - 1
      /\ \A i \in 1 .. Len(d.chain) :
             d.chain[i] = c.chain[i + 1] /\ i + 1 \in 1 .. Len(c.chain)
      /\ w = c.chain[1] /\ w \in WriteRecord /\ 1 \in 1 .. Len(c.chain)
      /\ d.queue = c.queue /\ d.turns = c.turns /\ d.holder = c.holder
      /\ d.starting = c.starting /\ d.active = c.active /\ d.stream = c.stream
      /\ d.place = c.place /\ d.prompts = c.prompts /\ d.reply = c.reply
  BY <1>1, TailFacts
<1> HIDE DEF d, w
<1>3. Typed(d)
  <2>1. \A i \in 1 .. Len(d.chain) : WriteTyped(d, d.chain[i])
    BY <1>2 DEF Fits, Typed, WriteTyped, Turns
  <2>. QED BY <2>1, <1>2 DEF Fits, Typed
<1>4. \A n : (Spent(c, n) => Spent(d, n)) /\ (Gone(c, n) => Gone(d, n))
             /\ Queued(d, n) = Queued(c, n)
  BY <1>2 DEF Spent, Gone, Queued
<1>5. QueueFits(d)
  BY <1>2, <1>4 DEF Fits, QueueFits
<1>6. ChainFits(d)
  <2>1. \A i \in 1 .. Len(d.chain) :
           d.chain[i].op = "enqueue" => d.place[d.chain[i].msg] # "unsent"
    <3>1. \A k \in 1 .. Len(c.chain) :
              c.chain[k].op = "enqueue" => c.place[c.chain[k].msg] # "unsent"
      BY DEF Fits, ChainFits
    <3>. QED BY <3>1, <1>2
  <2>2. ASSUME NEW i \in 1 .. Len(d.chain), NEW j \in 1 .. Len(d.chain),
               d.chain[i].op = "enqueue", d.chain[j].op = "enqueue", d.chain[i].msg = d.chain[j].msg
        PROVE  i = j
    <3>1. \A k, l \in 1 .. Len(c.chain) :
              c.chain[k].op = "enqueue" /\ c.chain[l].op = "enqueue"
                /\ c.chain[k].msg = c.chain[l].msg => k = l
      BY DEF Fits, ChainFits
    <3>2. /\ d.chain[i] = c.chain[i + 1] /\ i + 1 \in 1 .. Len(c.chain)
          /\ d.chain[j] = c.chain[j + 1] /\ j + 1 \in 1 .. Len(c.chain)
      BY <1>2
    <3>3. i + 1 = j + 1
      BY <2>2, <3>1, <3>2
    <3>. QED BY <3>3
  <2>3. \A i \in 1 .. Len(d.chain) :
           d.chain[i].op = "remove" =>
               /\ Spent(d, d.chain[i].msg)
               /\ d.chain[i].by # "user" => d.prompts[d.chain[i].msg] = 0
    BY <1>2, <1>4 DEF Fits, ChainFits
  <2>. QED BY <2>1, <2>2, <2>3 DEF ChainFits
<1>7. ASSUME NEW t \in Turns(c) PROVE TurnFits(d, t)
  <2>1. TurnFits(c, t)
    BY DEF Fits
  <2>2. MessageFits(d, t)
    <3>1. Gone(d, c.turns[t].msg) /\ AllSpent(d, c.turns[t].joined) /\ AllSpent(d, c.turns[t].canceller)
      BY <2>1, <1>4 DEF TurnFits, MessageFits, AllSpent
    <3>2. ASSUME NEW i \in 1 .. Len(d.chain), NEW j \in 1 .. Len(d.chain),
                 d.chain[i].op = "prompt", d.chain[i].turn = t,
                 d.chain[j].op = "remove", d.chain[j].msg = c.turns[t].msg
          PROVE  j < i
      <4>1. j + 1 < i + 1
        BY <2>1, <3>2, <1>2 DEF TurnFits, MessageFits
      <4>. QED BY <4>1
    <3>. QED BY <2>1, <3>1, <3>2, <1>2 DEF TurnFits, MessageFits
  <2>3. HoldFits(d, t)
    BY <2>1, <1>2 DEF TurnFits, HoldFits
  <2>4. WritesFit(d, t)
    <3>1. ASSUME NEW i \in 1 .. Len(d.chain), NEW j \in 1 .. Len(d.chain),
                 d.chain[i].turn = t, d.chain[j].turn = t, d.chain[i].op = d.chain[j].op,
                 d.chain[i].op \in {"prompt", "started", "policy"}
          PROVE  i = j
      <4>1. \A k, l \in 1 .. Len(c.chain) :
                /\ c.chain[k].turn = t /\ c.chain[l].turn = t
                /\ c.chain[k].op = c.chain[l].op /\ c.chain[k].op \in {"prompt", "started", "policy"}
                => k = l
        BY <2>1 DEF TurnFits, WritesFit
      <4>2. /\ d.chain[i] = c.chain[i + 1] /\ i + 1 \in 1 .. Len(c.chain)
            /\ d.chain[j] = c.chain[j + 1] /\ j + 1 \in 1 .. Len(c.chain)
        BY <1>2
      <4>3. i + 1 = j + 1
        BY <3>1, <4>1, <4>2
      <4>. QED BY <4>3
    <3>2. \A i \in 1 .. Len(d.chain) :
             d.chain[i].op \notin OfMessage /\ d.chain[i].turn = t => WriteFits(c.turns[t], d.chain[i].op)
      BY <2>1, <1>2 DEF TurnFits, WritesFit
    <3>3. c.turns[t].complete => c.turns[t].phase # "prompting"
      BY <2>1 DEF TurnFits, WritesFit
    <3>. QED BY <3>1, <3>2, <3>3, <1>2 DEF WritesFit
  <2>5. NotForgotten(d, t)
    <3>1. \A r, op : Apart(d, r, op) = Apart(c, r, op)
      BY <1>2 DEF Apart, BeforePrompt, BeforeStarted, Forgets
    <3>2. ASSUME NEW i \in 1 .. Len(d.chain), Ahead(c, t, i + 1) PROVE Ahead(d, t, i)
      <4> DEFINE k == d.chain[i].op
                 Meets(x, y) == \/ BeforePrompt(c, x)  /\ y = "prompt"
                                \/ BeforeStarted(c, x) /\ y = "started"
                                \/ x = "stopped"       /\ y = "policy"
      <4>1. ASSUME NEW j \in 1 .. Len(d.chain), d.chain[j].turn = t, Meets(k, d.chain[j].op)
            PROVE  i < j
        <5>1. i + 1 < j + 1
          BY <3>2, <4>1, <1>2 DEF Ahead
        <5>. QED BY <5>1
      <4>2. \A op : BeforePrompt(d, op) = BeforePrompt(c, op) /\ BeforeStarted(d, op) = BeforeStarted(c, op)
        BY <1>2 DEF BeforePrompt, BeforeStarted
      <4>. QED BY <4>1, <4>2 DEF Ahead
    <3>. QED BY SMTT(20), <2>1, <3>1, <3>2, <1>2 DEF TurnFits, NotForgotten
  <2>. QED BY <2>2, <2>3, <2>4, <2>5 DEF TurnFits
<1>8. Fits(d)
  BY <1>2, <1>3, <1>5, <1>6, <1>7 DEF Fits, Turns
<1>9. \A i \in 1 .. Len(d.chain) : i + 1 # 1
  BY <1>2
<1>10. ASSUME w.op = "enqueue" PROVE EnqueueDue(d, w.msg) /\ w.by \in Ways
  <2> DEFINE m == w.msg
  <2>1. m \in Msgs /\ c.place[m] # "unsent" /\ ~Spent(c, m) /\ w.by # "turn" /\ w.by # "user"
    BY <1>2, <1>10 DEF Fits, Typed, WriteTyped, OfMessage, ChainFits, Spent
  <2>2. Spent(d, m)
    BY <2>1, <1>2, <1>9, <1>10 DEF Fits, ChainFits, Spent
  <2>3. ~Queued(d, m) /\ c.reply[m] # "refused" /\ ~(c.prompts[m] > 0)
    BY <2>1, <1>4 DEF Fits, QueueFits, Gone
  <2>4. c.prompts[m] = 0
    BY <2>1, <2>3, <1>1, Fields
  <2>5. \A t \in Turns(d) : d.turns[t].msg # m
    BY <2>1, <1>2 DEF Fits, TurnFits, MessageFits, Gone, Turns
  <2>6. \A i \in 1 .. Len(d.chain) : d.chain[i].op = "remove" => d.chain[i].msg # m
    BY <2>1, <1>2 DEF Fits, ChainFits
  <2>. QED BY <2>1, <2>2, <2>3, <2>4, <2>5, <2>6, <1>2 DEF EnqueueDue, WriteRecord
<1>11. ASSUME w.op = "remove" PROVE RemoveDue(d, w)
  <2>1. w.msg \in Msgs /\ w.by # "turn" /\ Spent(c, w.msg) /\ (w.by # "user" => c.prompts[w.msg] = 0)
    BY <1>2, <1>11 DEF Fits, Typed, WriteTyped, OfMessage, ChainFits
  <2>. QED BY <2>1, <1>2, <1>4 DEF RemoveDue, WriteRecord
<1>12. ASSUME w.op \notin OfMessage PROVE TurnDue(d, w.turn, w.op)
  <2> DEFINE t == w.turn
             op == w.op
  <2>1. t \in Turns(c) /\ Turns(d) = Turns(c)
    BY <1>2, <1>12 DEF Fits, Typed, WriteTyped, Turns
  <2>2. TurnFits(c, t)
    BY <2>1 DEF Fits
  <2>3. WriteFits(c.turns[t], op)
    BY <2>1, <2>2, <1>2, <1>12 DEF TurnFits, WritesFit
  <2>4. op \in Startups => Unasked(d, t, op)
    BY <2>2, <1>2, <1>9 DEF TurnFits, WritesFit, Startups, Unasked
  <2>5. ASSUME op = "prompt", NEW i \in 1 .. Len(d.chain), d.chain[i].op = "remove"
        PROVE  d.chain[i].msg # c.turns[t].msg
    <3>1. ~(i + 1 < 1)
      OBVIOUS
    <3>. QED BY <2>2, <2>5, <3>1, <1>2 DEF TurnFits, MessageFits
  <2>6. ASSUME NEW u \in Turns(c), u # t, ~c.turns[u].cancelled PROVE Apart(d, c.turns[u], op)
    <3>1. Apart(c, c.turns[u], op)
      BY <2>6, <1>2, <1>12 DEF Fits, TurnFits, NotForgotten
    <3>. QED BY <3>1, <1>2 DEF Apart, BeforePrompt, BeforeStarted, Forgets
  <2>7. ASSUME ~c.turns[t].cancelled, NEW i \in 1 .. Len(d.chain),
               d.chain[i].op \notin OfMessage, d.chain[i].turn # t
        PROVE  /\ op = "prompt"  => ~BeforePrompt(d, d.chain[i].op)
               /\ op = "started" => ~BeforeStarted(d, d.chain[i].op)
               /\ op = "policy"  => d.chain[i].op # "stopped"
    <3>1. Ahead(c, t, i + 1) /\ ~(i + 1 < 1)
      BY <2>2, <2>7, <1>2 DEF TurnFits, NotForgotten
    <3>. QED BY <3>1, <1>2 DEF Ahead, BeforePrompt, BeforeStarted
  <2>. QED BY <2>1, <2>3, <2>4, <2>5, <2>6, <2>7, <1>2 DEF TurnDue
<1>. QED BY <1>2, <1>8, <1>10, <1>11, <1>12 DEF d, w

---------------------------------------------------------------------------
\* What waits for each write, and how the active turn is left

LeftByItsEnd(d, t) ==
    d.turns[t].cancelled \/ d.turns[t].closed \/ d.turns[t].phase \in {"draining", "ended"}

Leaves(c, d) ==
    /\ Len(c.turns) <= Len(d.turns)
    /\ \A t \in Turns(c) : c.active = t /\ d.active # t => LeftByItsEnd(d, t)

LEMMA LeavesStays ==
    ASSUME NEW c, NEW d, NEW e, Fits(c), Fits(d), Fits(e), Leaves(c, d), Stays(d, e)
    PROVE  Leaves(c, e)
<1>1. Len(c.turns) \in Nat /\ Len(d.turns) \in Nat /\ Len(e.turns) \in Nat
  BY Fields DEF Fits, Typed
<1>. QED BY <1>1 DEF Leaves, Stays, Turns, LeftByItsEnd

LEMMA StaysLeaves ==
    ASSUME NEW c, NEW d, Stays(c, d)
    PROVE  Leaves(c, d)
BY DEF Leaves, Stays

\* The store's append of a message that is due.
LEMMA AppendFits ==
    ASSUME NEW c, Fits(c), NEW m, EnqueueDue(c, m)
    PROVE  LET d == [c EXCEPT !.queue = Append(@, m), !.place[m] = "queued"]
           IN  Fits(d) /\ Stays(c, d)
<1> DEFINE q == Append(c.queue, m)
           p == [c.place EXCEPT ![m] = "queued"]
           d == [c EXCEPT !.queue = q, !.place = p]
<1>1. c \in State /\ Len(c.turns) \in Nat /\ c.queue \in Seq(Msgs) /\ c.place \in [Msgs -> Places] /\ m \in Msgs
  BY Fields DEF Fits, Typed, EnqueueDue
<1>2. /\ q \in Seq(Msgs) /\ Len(q) = Len(c.queue) + 1 /\ Len(c.queue) \in Nat
      /\ \A i \in 1 .. Len(c.queue) : q[i] = c.queue[i] /\ i \in 1 .. Len(q)
      /\ q[Len(c.queue) + 1] = m
      /\ \A i \in 1 .. Len(q) : i \in 1 .. Len(c.queue) \/ i = Len(c.queue) + 1
      /\ p \in [Msgs -> Places] /\ p[m] # "unsent" /\ \A n \in Msgs : n # m => p[n] = c.place[n]
  BY <1>1 DEF Places
<1> HIDE DEF q, p
<1>3. /\ d \in State /\ d.queue = q /\ d.place = p
      /\ d.chain = c.chain /\ d.turns = c.turns /\ d.holder = c.holder
      /\ d.starting = c.starting /\ d.active = c.active /\ d.stream = c.stream
      /\ d.prompts = c.prompts /\ d.reply = c.reply
  BY <1>1, <1>2 DEF State
<1> HIDE DEF d
<1>4. Typed(d)
  BY <1>3 DEF Fits, Typed, WriteTyped, Turns
<1>5. \A n \in Msgs : Spent(c, n) => Spent(d, n)
  BY <1>2, <1>3 DEF Spent
<1>6. /\ \A n : Queued(c, n) => Queued(d, n)
      /\ \A n : Queued(d, n) => Queued(c, n) \/ n = m
  BY <1>2, <1>3 DEF Queued
<1>7. \A n \in Msgs : Gone(c, n) /\ n # m => Gone(d, n)
  BY <1>5, <1>6 DEF Gone
<1>8. QueueFits(d)
  <2>1. \A i \in 1 .. Len(c.queue) : c.queue[i] # m
    BY DEF EnqueueDue, Queued
  <2>2. \A i, j \in 1 .. Len(d.queue) : d.queue[i] = d.queue[j] => i = j
    BY SMTT(20), <2>1, <1>2, <1>3 DEF Fits, QueueFits
  <2>. QED BY <2>2, <1>3, <1>5, <1>6, <1>7 DEF Fits, QueueFits, EnqueueDue
<1>9. ChainFits(d)
  <2>1. \A i \in 1 .. Len(c.chain) : c.chain[i].op \in {"enqueue", "remove"} => c.chain[i].msg \in Msgs
    BY DEF Fits, Typed, WriteTyped, OfMessage
  <2>2. \A n \in Msgs : c.place[n] # "unsent" => d.place[n] # "unsent"
    BY <1>2, <1>3
  <2>. QED BY <2>1, <2>2, <1>3, <1>5 DEF Fits, ChainFits
<1>10. ASSUME NEW t \in Turns(d) PROVE TurnFits(d, t)
  <2>1. TurnFits(c, t) /\ c.turns[t] \in TurnRecord /\ c.turns[t].msg # m
    BY <1>1, <1>3, Fields DEF Fits, Turns, EnqueueDue
  <2>2. MessageFits(d, t)
    <3>1. c.turns[t].msg \in Msgs /\ c.turns[t].joined \in Seq(Steers) /\ c.turns[t].canceller \in Seq(Steers)
      BY <2>1 DEF TurnRecord
    <3>2. \A z \in Seq(Steers) : AllSpent(c, z) => AllSpent(d, z)
      <4>1. \A z \in Seq(Steers) : \A i \in 1 .. Len(z) : z[i][1] \in Msgs
        BY DEF Steers
      <4>. QED BY <4>1, <1>5 DEF AllSpent
    <3>. QED BY <2>1, <3>1, <3>2, <1>3, <1>7 DEF TurnFits, MessageFits
  <2>3. HoldFits(d, t) /\ WritesFit(d, t) /\ NotForgotten(d, t)
    BY <2>1, <1>3 DEF TurnFits, HoldFits, WritesFit, NotForgotten, Apart, Ahead, BeforePrompt,
                      BeforeStarted, Forgets
  <2>. QED BY <2>2, <2>3 DEF TurnFits
<1>11. Fits(d)
  BY <1>4, <1>8, <1>9, <1>10 DEF Fits
<1>12. Stays(c, d)
  BY <1>1, <1>3, <1>5 DEF Stays
<1>. QED BY <1>11, <1>12 DEF d, q, p

LEMMA EnqueuedFits ==
    ASSUME NEW c, Fits(c), NEW w \in WriteRecord, EnqueueDue(c, w.msg), NEW tool \in BOOLEAN
    PROVE  Fits(Enqueued(c, w, tool)) /\ Stays(c, Enqueued(c, w, tool))
<1> DEFINE in == [c EXCEPT !.queue = Append(@, w.msg), !.place[w.msg] = "queued"]
<1>1. Fits(in) /\ Stays(c, in)
  BY AppendFits
<1>2. w.msg \in Msgs /\ Spent(in, w.msg) /\ "ask" \in {"steer", "ask"}
  BY <1>1 DEF EnqueueDue, Stays
<1>3. Enqueued(c, w, tool) = IF w.by = "ask" THEN SteerNow(in, w.msg, "ask", tool) ELSE in
  BY DEF Enqueued
<1> HIDE DEF in
<1>4. Fits(SteerNow(in, w.msg, "ask", tool)) /\ Stays(in, SteerNow(in, w.msg, "ask", tool))
  BY <1>1, <1>2, SteerNowFits
<1>5. Stays(c, SteerNow(in, w.msg, "ask", tool))
  BY <1>1, <1>4, StaysTrans
<1>. QED BY <1>1, <1>3, <1>4, <1>5

LEMMA JoinFacts ==
    ASSUME NEW S, NEW x \in Seq(S), NEW y \in Seq(S)
    PROVE  /\ x \o y \in Seq(S) /\ Len(x \o y) = Len(x) + Len(y)
           /\ \A i \in 1 .. Len(x) + Len(y) : (x \o y)[i] = IF i <= Len(x) THEN x[i] ELSE y[i - Len(x)]
OBVIOUS

\* A queue without message m, which it holds at most once.
LEMMA WithoutFacts ==
    ASSUME NEW q \in Seq(Msgs), NEW m,
           \A i, j \in 1 .. Len(q) : q[i] = q[j] => i = j
    PROVE  LET z == Without(q, m)
           IN  /\ z \in Seq(Msgs)
               /\ \A i, j \in 1 .. Len(z) : z[i] = z[j] => i = j
               /\ \A i \in 1 .. Len(z) : z[i] # m /\ \E j \in 1 .. Len(q) : q[j] = z[i]
<1> DEFINE at == {i \in 1 .. Len(q) : q[i] = m}
           k == CHOOSE i \in at : TRUE
           z == Without(q, m)
<1>1. CASE at = {}
  <2>1. z = q
    BY <1>1 DEF Without
  <2>2. \A i \in 1 .. Len(q) : q[i] # m
    BY <1>1
  <2>. QED BY <2>1, <2>2
<1>2. CASE at # {}
  <2>1. k \in at
    BY <1>2
  <2>2. k \in 1 .. Len(q) /\ q[k] = m
    BY <2>1
  <2>3. z = SubSeq(q, 1, k - 1) \o SubSeq(q, k + 1, Len(q))
    BY <1>2 DEF Without, RemoveAt
  <2> HIDE DEF k, at, z
  <2> DEFINE x == SubSeq(q, 1, k - 1)
             y == SubSeq(q, k + 1, Len(q))
  <2>4. /\ x \in Seq(Msgs) /\ Len(x) = k - 1 /\ \A i \in 1 .. (k - 1) : x[i] = q[i]
        /\ y \in Seq(Msgs) /\ Len(y) = Len(q) - k
        /\ \A i \in 1 .. (Len(q) - k) : y[i] = q[k + i]
        /\ Len(q) \in Nat /\ k \in Nat
    BY <2>2
  <2> HIDE DEF x, y
  <2>5. z \in Seq(Msgs) /\ Len(z) = Len(q) - 1
        /\ \A i \in 1 .. Len(z) : z[i] = IF i <= k - 1 THEN x[i] ELSE y[i - (k - 1)]
    <3>1. z = x \o y
      BY <2>3 DEF x, y
    <3>2. /\ x \o y \in Seq(Msgs) /\ Len(x \o y) = Len(x) + Len(y)
          /\ \A i \in 1 .. Len(x) + Len(y) : (x \o y)[i] = IF i <= Len(x) THEN x[i] ELSE y[i - Len(x)]
      BY ZenonT(30), <2>4, JoinFacts
    <3>. QED BY <2>2, <2>4, <3>1, <3>2
  <2>6. \A i \in 1 .. Len(z) : z[i] = IF i < k THEN q[i] ELSE q[i + 1]
    <3>1. SUFFICES ASSUME NEW i \in 1 .. Len(z) PROVE z[i] = IF i < k THEN q[i] ELSE q[i + 1]
      OBVIOUS
    <3>2. CASE i < k
      BY <3>2, <2>2, <2>4, <2>5
    <3>3. CASE ~(i < k)
      <4>1. i - (k - 1) \in 1 .. (Len(q) - k) /\ k + (i - (k - 1)) = i + 1 /\ ~(i <= k - 1)
        BY <3>3, <2>2, <2>4, <2>5
      <4>2. y[i - (k - 1)] = q[k + (i - (k - 1))]
        BY <4>1, <2>4
      <4>. QED BY <3>3, <4>1, <4>2, <2>5
    <3>. QED BY <3>2, <3>3
  <2> DEFINE g(i) == IF i < k THEN i ELSE i + 1
  <2>7. /\ \A i \in 1 .. Len(z) : g(i) \in 1 .. Len(q) /\ g(i) # k /\ z[i] = q[g(i)]
        /\ \A i, j \in 1 .. Len(z) : g(i) = g(j) => i = j
    BY <2>2, <2>4, <2>5, <2>6
  <2> HIDE DEF g
  <2>. QED BY <2>2, <2>5, <2>7 DEF z
<1>. QED BY <1>1, <1>2

\* The store's removal of message m.
LEMMA WithdrawFits ==
    ASSUME NEW c, Fits(c), NEW m \in Msgs, Spent(c, m)
    PROVE  LET d == [c EXCEPT !.queue = Without(@, m)]
           IN  /\ Fits(d) /\ Stays(c, d) /\ Gone(d, m)
               /\ d.prompts = c.prompts /\ d.place = c.place
<1> DEFINE q == Without(c.queue, m)
           d == [c EXCEPT !.queue = q]
<1>1. c \in State /\ Len(c.turns) \in Nat /\ c.queue \in Seq(Msgs)
  BY Fields DEF Fits, Typed
<1>2. /\ q \in Seq(Msgs)
      /\ \A i, j \in 1 .. Len(q) : q[i] = q[j] => i = j
      /\ \A i \in 1 .. Len(q) : q[i] # m /\ \E j \in 1 .. Len(c.queue) : c.queue[j] = q[i]
  BY <1>1, WithoutFacts DEF Fits, QueueFits
<1> HIDE DEF q
<1>3. /\ d \in State /\ d.queue = q /\ d.place = c.place
      /\ d.chain = c.chain /\ d.turns = c.turns /\ d.holder = c.holder
      /\ d.starting = c.starting /\ d.active = c.active /\ d.stream = c.stream
      /\ d.prompts = c.prompts /\ d.reply = c.reply
  BY <1>1, <1>2 DEF State
<1> HIDE DEF d
<1>4. Typed(d)
  BY <1>3 DEF Fits, Typed, WriteTyped, Turns
<1>5. \A n : Spent(c, n) = Spent(d, n)
  BY <1>3 DEF Spent
<1>6. ~Queued(d, m) /\ \A n : Queued(d, n) => Queued(c, n)
  BY <1>2, <1>3 DEF Queued
<1>7. \A n : Gone(c, n) => Gone(d, n)
  BY <1>5, <1>6 DEF Gone
<1>8. QueueFits(d) /\ ChainFits(d)
  BY <1>2, <1>3, <1>5, <1>6, <1>7 DEF Fits, QueueFits, ChainFits
<1>9. ASSUME NEW t \in Turns(d) PROVE TurnFits(d, t)
  <2>1. TurnFits(c, t)
    BY <1>3 DEF Fits, Turns
  <2>2. MessageFits(d, t)
    BY <2>1, <1>3, <1>5, <1>7 DEF TurnFits, MessageFits, AllSpent
  <2>3. HoldFits(d, t) /\ WritesFit(d, t) /\ NotForgotten(d, t)
    BY <2>1, <1>3 DEF TurnFits, HoldFits, WritesFit, NotForgotten, Apart, Ahead, BeforePrompt,
                      BeforeStarted, Forgets
  <2>. QED BY <2>2, <2>3 DEF TurnFits
<1>10. Fits(d)
  BY <1>4, <1>8, <1>9 DEF Fits
<1>11. Stays(c, d)
  BY <1>1, <1>3, <1>5 DEF Stays
<1>. QED BY <1>3, <1>5, <1>6, <1>10, <1>11 DEF Gone, d, q

LEMMA RemovedFits ==
    ASSUME NEW c, Fits(c), NEW w \in WriteRecord, RemoveDue(c, w)
    PROVE  Fits(Removed(c, w)) /\ Stays(c, Removed(c, w))
<1> DEFINE m == w.msg
           out == [c EXCEPT !.queue = Without(@, m)]
           p == IF out.place[m] = "queued" THEN "withdrawn" ELSE out.place[m]
           back == [out EXCEPT !.place[m] = p]
<1>1. m \in Msgs /\ Spent(c, m) /\ w.by \in Ways \cup {"user"} /\ (w.by # "user" => c.prompts[m] = 0)
  BY DEF RemoveDue
<1>2. Fits(out) /\ Stays(c, out) /\ Gone(out, m) /\ out.prompts = c.prompts
  BY <1>1, WithdrawFits
<1>3. Removed(c, w) = IF w.by # "user" THEN Start(out, m, w.by) ELSE back
  <2> HIDE DEF m
  <2>1. out \in State
    BY <1>2 DEF Fits, Typed
  <2>. QED BY <2>1 DEF Removed, m, State
<1> HIDE DEF out, m
<1>4. CASE w.by # "user"
  <2>1. Fits(Start(out, m, w.by)) /\ Stays(out, Start(out, m, w.by))
    BY <1>1, <1>2, <1>4, StartFits
  <2>. QED BY <2>1, <1>2, <1>3, <1>4, StaysTrans
<1>5. CASE w.by = "user"
  <2>1. out.place \in [Msgs -> Places] /\ out.place[m] # "unsent"
    BY <1>2, Fields DEF Fits, Typed, Gone, Spent
  <2>2. p \in Places /\ p # "unsent"
    BY <1>1, <2>1 DEF Places
  <2> HIDE DEF p
  <2>3. Fits(back) /\ Stays(out, back)
    BY <1>1, <1>2, <2>1, <2>2, PlaceFits, PlaceStays
  <2> HIDE DEF back
  <2>. QED BY <2>3, <1>2, <1>3, <1>5, StaysTrans
<1>. QED BY <1>4, <1>5

\* The prompt of turn t is written.
Written(c, t) ==
    [c EXCEPT !.prompts[c.turns[t].msg] = @ + 1, !.place[c.turns[t].msg] = "prompt",
              !.turns[t].writing = FALSE, !.turns[t].phase = "recording"]

LEMMA WrittenFits ==
    ASSUME NEW c, Fits(c), NEW t, TurnDue(c, t, "prompt")
    PROVE  LET d == Written(c, t)
           IN  /\ Fits(d) /\ d.active = c.active /\ d.stream = c.stream
               /\ Len(d.turns) = Len(c.turns) /\ AtRest(d, t) /\ d.turns[t].phase = "recording"
               /\ d.turns[t].cancelled = c.turns[t].cancelled
               /\ \A u \in Turns(c) : u # t => d.turns[u] = c.turns[u]
               /\ c.active # t
<1> DEFINE m == c.turns[t].msg
           r == [c.turns[t] EXCEPT !.writing = FALSE, !.phase = "recording"]
           f == [c.turns EXCEPT ![t] = r]
           z == [c.prompts EXCEPT ![m] = c.prompts[m] + 1]
           p == [c.place EXCEPT ![m] = "prompt"]
           d == [c EXCEPT !.prompts = z, !.place = p, !.turns = f]
<1>1. /\ t \in Turns(c) /\ c \in State /\ Len(c.turns) \in Nat /\ c.turns[t] \in TurnRecord /\ TurnFits(c, t)
      /\ c.place \in [Msgs -> Places] /\ c.prompts \in [Msgs -> Nat] /\ c.turns \in Seq(TurnRecord)
      /\ m \in Msgs
  <2>1. t \in Turns(c)
    BY DEF TurnDue
  <2>2. c \in State /\ c.turns \in Seq(TurnRecord) /\ c.turns[t] \in TurnRecord /\ TurnFits(c, t)
    BY <2>1, Fields DEF Fits, Typed, Turns
  <2>. QED BY <2>1, <2>2, Fields DEF TurnRecord
<1>2. c.turns[t].phase = "prompting" /\ Gone(c, m) /\ c.prompts[m] = 0
  BY <1>1 DEF TurnDue, WriteFits, TurnFits, MessageFits, Candidate
<1>3. Written(c, t) = d
  <2>1. [[c.turns EXCEPT ![t].writing = FALSE] EXCEPT ![t].phase = "recording"] = f
    BY <1>1 DEF Turns
  <2>. QED BY <1>1, <2>1 DEF Written, State
<1>4. r \in TurnRecord /\ r.msg = m /\ r.phase = "recording" /\ r.cancelled = c.turns[t].cancelled
      /\ r.complete = c.turns[t].complete /\ r.closed = c.turns[t].closed
      /\ r.joined = c.turns[t].joined /\ r.canceller = c.turns[t].canceller
  BY <1>1 DEF TurnRecord, Phases, Startup
<1> HIDE DEF r
<1>5. /\ f \in Seq(TurnRecord) /\ Len(f) = Len(c.turns) /\ f[t] = r
      /\ \A u \in Turns(c) : u # t => f[u] = c.turns[u]
  BY <1>1, <1>4 DEF Turns
<1>6. /\ z \in [Msgs -> Nat] /\ z[m] = 1 /\ \A n \in Msgs : n # m => z[n] = c.prompts[n]
      /\ p \in [Msgs -> Places] /\ p[m] # "unsent" /\ \A n \in Msgs : n # m => p[n] = c.place[n]
  BY <1>1, <1>2 DEF Places
<1> HIDE DEF f, z, p
<1>7. /\ d \in State /\ d.queue = c.queue /\ d.place = p /\ d.prompts = z /\ d.turns = f
      /\ d.chain = c.chain /\ d.holder = c.holder
      /\ d.starting = c.starting /\ d.active = c.active /\ d.stream = c.stream
      /\ d.reply = c.reply
  BY <1>1, <1>5, <1>6 DEF State
<1> HIDE DEF d
<1>8. Typed(d)
  BY <1>5, <1>7 DEF Fits, Typed, WriteTyped, Turns
<1>9. \A n \in Msgs : (Spent(c, n) => Spent(d, n)) /\ (Gone(c, n) => Gone(d, n))
                      /\ (Queued(d, n) <=> Queued(c, n))
  BY <1>6, <1>7 DEF Spent, Gone, Queued
<1>10. QueueFits(d)
  <2>1. \A n \in Msgs : d.prompts[n] > 0 => Gone(d, n)
    BY <1>2, <1>6, <1>7, <1>9 DEF Fits, QueueFits
  <2>2. \A n \in Msgs : d.prompts[n] <= 1
    BY <1>6, <1>7 DEF Fits, QueueFits
  <2>. QED BY <2>1, <2>2, <1>7, <1>9 DEF Fits, QueueFits
<1>11. \A i \in 1 .. Len(c.chain) : c.chain[i].op = "remove" => c.chain[i].msg # m
  BY DEF TurnDue
<1>12. ChainFits(d)
  <2>1. \A i \in 1 .. Len(c.chain) : c.chain[i].op \in {"enqueue", "remove"} => c.chain[i].msg \in Msgs
    BY DEF Fits, Typed, WriteTyped, OfMessage
  <2>2. \A n \in Msgs : c.place[n] # "unsent" => d.place[n] # "unsent"
    BY <1>6, <1>7
  <2>. QED BY <2>1, <2>2, <1>6, <1>7, <1>9, <1>11 DEF Fits, ChainFits
<1>13. AtRest(c, t)
  <2>1. \A i \in 1 .. Len(c.chain) :
            c.chain[i].op \notin OfMessage /\ c.chain[i].turn = t => WriteFits(c.turns[t], c.chain[i].op)
    BY <1>1 DEF TurnFits, WritesFit
  <2>2. Unasked(c, t, "prompt")
    BY DEF TurnDue, Startups
  <2>. QED BY <2>1, <2>2, <1>2 DEF AtRest, Unasked, Startups, WriteFits, OfMessage
<1>14. \A n \in Seq(Steers) : AllSpent(c, n) => AllSpent(d, n)
  <2>1. \A n \in Seq(Steers) : \A i \in 1 .. Len(n) : n[i][1] \in Msgs
    BY DEF Steers
  <2>. QED BY <2>1, <1>9 DEF AllSpent
<1>15. c.holder = t /\ c.starting /\ c.active = 0 /\ t # 0
  BY <1>1, <1>2 DEF TurnFits, HoldFits, Reserves, Turns
<1>16. TurnFits(d, t)
  <2>1. MessageFits(d, t)
    <3>1. Gone(d, m) /\ AllSpent(d, r.joined) /\ AllSpent(d, r.canceller)
      BY <1>1, <1>2, <1>4, <1>9, <1>14 DEF TurnFits, MessageFits, TurnRecord
    <3>. QED BY <3>1, <1>4, <1>5, <1>7, <1>11 DEF MessageFits, Candidate
  <2>2. HoldFits(d, t)
    BY <1>1, <1>4, <1>5, <1>7, <1>15 DEF TurnFits, HoldFits, Startup
  <2>3. WritesFit(d, t)
    <3>1. \A i \in 1 .. Len(c.chain) :
             c.chain[i].op \notin OfMessage /\ c.chain[i].turn = t => WriteFits(r, c.chain[i].op)
      BY <1>1, <1>2, <1>4, <1>13 DEF TurnFits, WritesFit, WriteFits, AtRest, Unasked, Startups, Startup
    <3>. QED BY <3>1, <1>1, <1>4, <1>5, <1>7 DEF TurnFits, WritesFit
  <2>4. NotForgotten(d, t)
    <3>1. SUFFICES ASSUME ~r.cancelled, NEW i \in 1 .. Len(c.chain),
                          c.chain[i].op \notin OfMessage, c.chain[i].turn # t
                   PROVE  Apart(d, r, c.chain[i].op) /\ Ahead(d, t, i)
      BY <1>5, <1>7 DEF NotForgotten
    <3>2. ~BeforePrompt(c, c.chain[i].op)
      BY <3>1, <1>4 DEF TurnDue
    <3>3. Apart(d, r, c.chain[i].op)
      BY <3>2, <1>4, <1>7 DEF Apart, BeforePrompt, BeforeStarted, Forgets
    <3>4. Ahead(d, t, i)
      BY <1>7, <1>13 DEF Ahead, AtRest, Unasked, Startups
    <3>. QED BY <3>3, <3>4
  <2>. QED BY <2>1, <2>2, <2>3, <2>4 DEF TurnFits
<1>17. ASSUME NEW u \in Turns(c), u # t PROVE TurnFits(d, u)
  <2>1. TurnFits(c, u) /\ d.turns[u] = c.turns[u] /\ c.turns[u] \in TurnRecord
    BY <1>1, <1>5, <1>7, <1>17, Fields DEF Fits, Turns
  <2>2. ~Reserves(c.turns[u])
    BY <2>1, <1>15, <1>17 DEF TurnFits, HoldFits
  <2>3. ~Candidate(c.turns[u])
    BY <2>2 DEF Candidate, Reserves, Startup
  <2>4. MessageFits(d, u)
    <3>1. Gone(d, c.turns[u].msg) /\ AllSpent(d, c.turns[u].joined) /\ AllSpent(d, c.turns[u].canceller)
      BY <2>1, <1>9, <1>14 DEF TurnFits, MessageFits, TurnRecord
    <3>. QED BY <2>1, <2>3, <3>1, <1>7 DEF TurnFits, MessageFits
  <2>5. HoldFits(d, u) /\ WritesFit(d, u) /\ NotForgotten(d, u)
    BY <2>1, <1>7 DEF TurnFits, HoldFits, WritesFit, NotForgotten, Apart, Ahead, BeforePrompt,
                      BeforeStarted, Forgets
  <2>. QED BY <2>4, <2>5 DEF TurnFits
<1>18. Fits(d)
  BY <1>5, <1>7, <1>8, <1>10, <1>12, <1>16, <1>17 DEF Fits, Turns
<1>19. AtRest(d, t)
  BY <1>7, <1>13 DEF AtRest, Unasked
<1>. QED BY <1>3, <1>4, <1>5, <1>7, <1>15, <1>18, <1>19

LEMMA UnwindEnds ==
    ASSUME NEW c, Fits(c), NEW t \in Turns(c), AtRest(c, t), NEW failed \in BOOLEAN
    PROVE  LET d == Unwind(c, t, failed)
           IN  /\ Fits(d) /\ d.active = c.active /\ t \in Turns(d) /\ Leaves(c, d)
               /\ d.turns[t].phase = "ended" /\ (c.turns[t].cancelled => d.turns[t].cancelled)
<1> DEFINE d == Unwind(c, t, failed)
           b == Ended(c, t)
<1>1. Fits(d) /\ Stays(b, d)
  BY UnwindFits
<1>2. Fits(b) /\ Passed(c, b, t, "ended") /\ b.active = c.active
  BY EndFits
<1> HIDE DEF d, b
<1>3. Len(b.turns) = Len(c.turns) /\ b.turns[t].phase = "ended" /\ b.turns[t].cancelled = c.turns[t].cancelled
  BY <1>2 DEF Passed, OnlyTurn
<1>4. Len(b.turns) \in Nat /\ Len(d.turns) \in Nat
  BY <1>1, <1>2, Fields DEF Fits, Typed
<1>5. t \in Turns(b) /\ t \in Turns(d) /\ Len(b.turns) <= Len(d.turns) /\ d.active = b.active
      /\ d.turns[t].phase = "ended" /\ (c.turns[t].cancelled => d.turns[t].cancelled)
  BY <1>1, <1>3, <1>4 DEF Stays, Turns
<1>6. Leaves(c, d)
  BY <1>2, <1>3, <1>5 DEF Leaves
<1>. QED BY <1>1, <1>2, <1>5, <1>6 DEF d

\* startTurnForChat after its prompt was written.
LEMMA PromptWrittenFits ==
    ASSUME NEW c, Fits(c), NEW t, TurnDue(c, t, "prompt")
    PROVE  Fits(PromptWritten(c, t)) /\ Leaves(c, PromptWritten(c, t))
<1> DEFINE b == Written(c, t)
           e == Unwind(b, t, FALSE)
<1>1. /\ Fits(b) /\ b.active = c.active /\ b.stream = c.stream
      /\ Len(b.turns) = Len(c.turns) /\ AtRest(b, t) /\ b.turns[t].phase = "recording"
      /\ b.turns[t].cancelled = c.turns[t].cancelled /\ t \in Turns(b) /\ t \in Turns(c)
      /\ Len(c.turns) \in Nat
  <2>1. t \in Turns(c) /\ Len(c.turns) \in Nat
    BY Fields DEF TurnDue, Fits, Typed
  <2>. QED BY <2>1, WrittenFits DEF Turns
<1>2. PromptWritten(c, t) = IF ~c.turns[t].cancelled THEN OfTurn(b, "started", t)
                            ELSE OfTurn(e, "interrupted", t)
  BY DEF PromptWritten, Written
<1> HIDE DEF b
<1>3. CASE ~c.turns[t].cancelled
  <2>1. "started" \in Writes \ OfMessage
    BY DEF Writes, OfMessage
  <2>2. WriteFits(b.turns[t], "started") /\ Unasked(b, t, "started")
    BY <1>1 DEF WriteFits, AtRest, Startups
  <2>3. \A u \in Turns(b) : Clear(b, b.turns[u], "started")
    BY DEF Clear, BeforePrompt, BeforeStarted, Forgets
  <2>4. Fits(OfTurn(b, "started", t)) /\ Stays(b, OfTurn(b, "started", t))
    BY <1>1, <2>1, <2>2, <2>3, OfTurnFits, OfTurnStays
  <2>. QED BY <1>1, <1>2, <1>3, <2>4 DEF Leaves, Stays
<1>4. CASE c.turns[t].cancelled
  <2>1. /\ Fits(e) /\ e.active = b.active /\ t \in Turns(e) /\ Leaves(b, e)
        /\ e.turns[t].phase = "ended" /\ e.turns[t].cancelled
    BY <1>1, <1>4, UnwindEnds
  <2> HIDE DEF e
  <2>2. "interrupted" \in Writes \ OfMessage /\ "interrupted" \notin Startups
    BY DEF Writes, OfMessage, Startups
  <2>3. WriteFits(e.turns[t], "interrupted")
    BY <2>1 DEF WriteFits
  <2>4. \A u \in Turns(e) : Clear(e, e.turns[u], "interrupted")
    BY DEF Clear, BeforePrompt, BeforeStarted, Forgets
  <2>5. Fits(OfTurn(e, "interrupted", t)) /\ Stays(e, OfTurn(e, "interrupted", t))
    BY <2>1, <2>2, <2>3, <2>4, OfTurnFits, OfTurnStays
  <2>6. Leaves(c, e)
    BY <1>1, <2>1 DEF Leaves
  <2>. QED BY <1>2, <1>4, <2>1, <2>5, <2>6, LeavesStays
<1>. QED BY <1>3, <1>4

\* A startup comes nearer to its engine.
Near(c, t, p) == [c EXCEPT !.turns[t].phase = p]

LEMMA NearFits ==
    ASSUME NEW c, Fits(c), NEW t \in Turns(c), AtRest(c, t),
           NEW p \in {"directory", "policy", "engine"},
           c.turns[t].phase \in {"recording", "directory", "policy"},
           ~c.turns[t].cancelled =>
               \A i \in 1 .. Len(c.chain) :
                   c.chain[i].op \notin OfMessage /\ c.chain[i].turn # t =>
                       /\ ~BeforePrompt(c, c.chain[i].op) /\ ~BeforeStarted(c, c.chain[i].op)
                       /\ p = "engine" => c.chain[i].op # "stopped"
    PROVE  LET d == Near(c, t, p)
           IN  /\ Fits(d) /\ Leaves(c, d) /\ d.active = c.active /\ d.stream = c.stream
               /\ t \in Turns(d) /\ AtRest(d, t) /\ d.turns[t].phase = p
<1> DEFINE r == [c.turns[t] EXCEPT !.phase = p]
           d == [c EXCEPT !.turns[t] = r]
<1>1. c \in State /\ Len(c.turns) \in Nat /\ c.turns[t] \in TurnRecord /\ TurnFits(c, t)
  BY Fields DEF Fits, Typed, Turns
<1>2. r \in TurnRecord /\ r.phase = p /\ r.msg = c.turns[t].msg /\ r.cancelled = c.turns[t].cancelled
      /\ r.complete = c.turns[t].complete /\ r.closed = c.turns[t].closed
      /\ r.joined = c.turns[t].joined /\ r.canceller = c.turns[t].canceller
  BY <1>1 DEF TurnRecord, Phases, Startup
<1>3. Near(c, t, p) = d
  BY DEF Near
<1> HIDE DEF r
<1>4. OnlyTurn(c, d, t) /\ SameHold(c, d) /\ d.turns[t] = r
  <2>1. c \in State /\ r \in TurnRecord
    BY <1>1, <1>2
  <2>. QED BY <2>1, TurnSet
<1> HIDE DEF d
<1>5. /\ d.queue = c.queue /\ d.chain = c.chain /\ d.stream = c.stream
      /\ d.place = c.place /\ d.prompts = c.prompts /\ Len(d.turns) = Len(c.turns)
      /\ d.holder = c.holder /\ d.starting = c.starting /\ d.active = c.active
      /\ \A u \in Turns(c) : u # t => d.turns[u] = c.turns[u]
  BY <1>4 DEF OnlyTurn, SameHold
<1>6. \A n : Spent(d, n) = Spent(c, n) /\ Gone(d, n) = Gone(c, n)
  BY <1>5 DEF Spent, Gone, Queued
<1>7. MessageFits(d, t)
  BY SMTT(20), <1>1, <1>2, <1>4, <1>5, <1>6 DEF TurnFits, MessageFits, AllSpent, Candidate
<1>8. WritesFit(d, t)
  <2>1. \A i \in 1 .. Len(c.chain) :
            c.chain[i].op \notin OfMessage /\ c.chain[i].turn = t => WriteFits(r, c.chain[i].op)
    BY <1>1, <1>2 DEF TurnFits, WritesFit, WriteFits, AtRest, Unasked, Startups, Startup
  <2>. QED BY <2>1, <1>1, <1>2, <1>4, <1>5 DEF TurnFits, WritesFit
<1>9. NotForgotten(d, t)
  <2>1. SUFFICES ASSUME ~r.cancelled, NEW i \in 1 .. Len(c.chain),
                        c.chain[i].op \notin OfMessage, c.chain[i].turn # t
                 PROVE  Apart(d, r, c.chain[i].op) /\ Ahead(d, t, i)
    BY <1>4, <1>5 DEF NotForgotten
  <2>2. ~BeforePrompt(c, c.chain[i].op) /\ ~BeforeStarted(c, c.chain[i].op)
        /\ (p = "engine" => c.chain[i].op # "stopped")
    BY <2>1, <1>2
  <2>3. Apart(d, r, c.chain[i].op)
    BY <2>2, <1>2, <1>5 DEF Apart, BeforePrompt, BeforeStarted, Forgets
  <2>4. Ahead(d, t, i)
    BY <1>5 DEF Ahead, AtRest, Unasked, Startups
  <2>. QED BY <2>3, <2>4
<1>10. ASSUME NEW u \in Turns(c) PROVE HoldFits(d, u)
  <2>1. CASE u = t
    BY <2>1, <1>1, <1>2, <1>4, <1>5 DEF TurnFits, HoldFits, Reserves, Startup
  <2>2. CASE u # t
    BY <2>2, <1>5 DEF Fits, TurnFits, HoldFits, Reserves
  <2>. QED BY <2>1, <2>2
<1>11. d.holder \in 0 .. Len(c.turns) /\ d.active \in 0 .. Len(c.turns) /\ (d.starting => d.holder # 0)
  BY <1>5 DEF Fits, Typed
<1>12. Fits(d)
  BY <1>4, <1>7, <1>8, <1>9, <1>10, <1>11, UpdateFits
<1>13. AtRest(d, t) /\ t \in Turns(d) /\ d.turns[t].phase = p
  BY <1>2, <1>4, <1>5 DEF AtRest, Unasked, Turns
<1>14. Leaves(c, d)
  BY <1>1, <1>5 DEF Leaves
<1>. QED BY <1>3, <1>5, <1>12, <1>13, <1>14

\* A turn at rest that is past its prompt has none of the writes before it.
LEMMA DueAtRest ==
    ASSUME NEW c, Fits(c), NEW t, NEW op \in {"started", "policy"}, TurnDue(c, t, op)
    PROVE  AtRest(c, t)
<1>1. TurnFits(c, t) /\ Unasked(c, t, op) /\ WriteFits(c.turns[t], op)
  BY DEF TurnDue, Fits, Startups
<1>2. \A i \in 1 .. Len(c.chain) :
          c.chain[i].op \notin OfMessage /\ c.chain[i].turn = t => WriteFits(c.turns[t], c.chain[i].op)
  BY <1>1 DEF TurnFits, WritesFit
<1>. QED BY <1>1, <1>2 DEF AtRest, Unasked, Startups, WriteFits, OfMessage

LEMMA TurnStartWrittenFits ==
    ASSUME NEW c, Fits(c), NEW t, TurnDue(c, t, "started")
    PROVE  Fits(TurnStartWritten(c, t)) /\ Leaves(c, TurnStartWritten(c, t))
<1>1. t \in Turns(c) /\ AtRest(c, t) /\ c.turns[t].phase = "recording" /\ TurnFits(c, t)
  BY DueAtRest DEF TurnDue, WriteFits, Fits
<1>2. CASE c.turns[t].cancelled
  BY <1>1, <1>2, UnwindEnds DEF TurnStartWritten
<1>3. CASE ~c.turns[t].cancelled
  <2>1. \A i \in 1 .. Len(c.chain) :
            c.chain[i].op \notin OfMessage /\ c.chain[i].turn # t =>
                ~BeforePrompt(c, c.chain[i].op) /\ ~BeforeStarted(c, c.chain[i].op)
    BY <1>1, <1>3 DEF TurnDue, TurnFits, NotForgotten, Apart
  <2>2. Fits(Near(c, t, "directory")) /\ Leaves(c, Near(c, t, "directory"))
    BY <1>1, <2>1, NearFits
  <2>. QED BY <1>3, <2>2 DEF TurnStartWritten, Near
<1>. QED BY <1>2, <1>3

LEMMA PolicyWrittenFits ==
    ASSUME NEW c, Fits(c), NEW t, TurnDue(c, t, "policy")
    PROVE  Fits(PolicyWritten(c, t)) /\ Leaves(c, PolicyWritten(c, t))
<1>1. t \in Turns(c) /\ AtRest(c, t) /\ c.turns[t].phase = "policy" /\ TurnFits(c, t)
  BY DueAtRest DEF TurnDue, WriteFits, Fits
<1>2. ~c.turns[t].cancelled =>
          \A i \in 1 .. Len(c.chain) :
              c.chain[i].op \notin OfMessage /\ c.chain[i].turn # t =>
                  /\ ~BeforePrompt(c, c.chain[i].op) /\ ~BeforeStarted(c, c.chain[i].op)
                  /\ c.chain[i].op # "stopped"
  BY <1>1 DEF TurnDue, TurnFits, NotForgotten, Apart
<1>3. Fits(Near(c, t, "engine")) /\ Leaves(c, Near(c, t, "engine"))
  BY <1>1, <1>2, NearFits
<1>. QED BY <1>3 DEF PolicyWritten, Near

\* A turn past its startup has none of the startup's writes pending.
LEMMA PastAtRest ==
    ASSUME NEW c, Fits(c), NEW t \in Turns(c), c.turns[t].phase \notin Startup
    PROVE  AtRest(c, t)
<1>1. \A i \in 1 .. Len(c.chain) :
          c.chain[i].op \notin OfMessage /\ c.chain[i].turn = t => WriteFits(c.turns[t], c.chain[i].op)
  BY DEF Fits, TurnFits, WritesFit
<1>. QED BY <1>1 DEF AtRest, Unasked, Startups, WriteFits, OfMessage, Startup

\* A cancelled turn is recorded as such.
LEMMA CompleteFits ==
    ASSUME NEW c, Fits(c), NEW t \in Turns(c), c.turns[t].cancelled, c.turns[t].phase # "prompting",
           NEW z \in {c.turns[t].joined, <<>>}
    PROVE  LET b == [c EXCEPT !.turns[t] = [c.turns[t] EXCEPT !.complete = TRUE, !.joined = z]]
               done == ReleaseStatus(b, t)
               d == IF c.turns[t].settled THEN Settle(done, t) ELSE done
           IN  Fits(d) /\ Stays(c, d)
<1> DEFINE r == [c.turns[t] EXCEPT !.complete = TRUE, !.joined = z]
           b == [c EXCEPT !.turns[t] = r]
           done == ReleaseStatus(b, t)
           d == Settle(done, t)
<1>1. c \in State /\ Len(c.turns) \in Nat /\ c.turns[t] \in TurnRecord /\ TurnFits(c, t)
  BY Fields DEF Fits, Typed, Turns
<1>2. r \in TurnRecord /\ r.phase = c.turns[t].phase /\ r.msg = c.turns[t].msg /\ r.by = c.turns[t].by
      /\ r.cancelled = c.turns[t].cancelled /\ r.writing = c.turns[t].writing
      /\ r.complete /\ r.closed = c.turns[t].closed
      /\ r.joined = z /\ r.canceller = c.turns[t].canceller
  <2>1. z \in Seq(Steers)
    <3>1. c.turns[t].joined \in Seq(Steers)
      BY <1>1 DEF TurnRecord
    <3>2. <<>> \in Seq(Steers)
      OBVIOUS
    <3>. QED BY <3>1, <3>2
  <2>. QED BY <1>1, <2>1 DEF TurnRecord
<1> HIDE DEF r
<1>3. Fits(b) /\ Stays(c, b)
  <2>1. AllSpent(c, r.joined) /\ AllSpent(c, r.canceller)
    BY <1>1, <1>2 DEF TurnFits, MessageFits, AllSpent
  <2>. QED BY <2>1, <1>2, MarkFits, MarkStays
<1>4. b.turns[t] = r /\ t \in Turns(b)
  BY <1>1, <1>2, TurnSet DEF OnlyTurn, Turns
<1> HIDE DEF b
<1>5. ~Bound(b.turns[t])
  BY <1>2, <1>4 DEF Bound, Reserves
<1>6. Fits(done) /\ Stays(b, done) /\ done.turns = b.turns
  BY <1>3, <1>4, <1>5, ReleaseStatusFits
<1> HIDE DEF done
<1>7. Stays(c, done)
  BY <1>3, <1>6, StaysTrans
<1>8. Fits(d) /\ Stays(done, d)
  BY <1>4, <1>5, <1>6, SettleFits DEF Turns
<1> HIDE DEF d
<1>9. Stays(c, d)
  BY <1>6, <1>7, <1>8, StaysTrans
<1>. QED BY <1>6, <1>7, <1>8, <1>9 DEF d, done, b, r

LEMMA StartupCancelledFits ==
    ASSUME NEW c, Fits(c), NEW t \in Turns(c), c.turns[t].cancelled, c.turns[t].phase # "prompting"
    PROVE  Fits(StartupCancelled(c, t)) /\ Stays(c, StartupCancelled(c, t))
<1> DEFINE b == [c EXCEPT !.turns[t] = [c.turns[t] EXCEPT !.complete = TRUE, !.joined = <<>>]]
           done == ReleaseStatus(b, t)
           d == IF c.turns[t].settled THEN Settle(done, t) ELSE done
           z == c.turns[t].joined
<1>1. Fits(d) /\ Stays(c, d)
  BY CompleteFits
<1>2. c.turns \in Seq(TurnRecord) /\ c.turns[t] \in TurnRecord /\ TurnFits(c, t)
  BY Fields DEF Fits, Typed, Turns
<1>3. z \in Seq(Steers) /\ AllSpent(c, z)
  BY <1>2 DEF TurnRecord, TurnFits, MessageFits
<1>4. StartupCancelled(c, t) = SteerAll(d, z)
  <2>1. [c EXCEPT !.turns[t].complete = TRUE, !.turns[t].joined = <<>>] = b
    <3>1. c \in State
      BY DEF Fits, Typed
    <3>. QED BY <1>2, <3>1 DEF State, Turns
  <2>. QED BY <2>1 DEF StartupCancelled
<1> HIDE DEF d
<1>5. AllSpent(d, z)
  BY <1>1, <1>3, SpentStays
<1> HIDE DEF z
<1>6. Fits(SteerAll(d, z)) /\ Stays(d, SteerAll(d, z))
  BY <1>1, <1>3, <1>5, SteerAllFits
<1>. QED BY <1>1, <1>4, <1>6, StaysTrans

\* cancel() after recordTurnCancelled.
LEMMA TurnCancelledFits ==
    ASSUME NEW c, Fits(c), NEW t, TurnDue(c, t, "stopped")
    PROVE  Fits(TurnCancelled(c, t)) /\ Leaves(c, TurnCancelled(c, t))
<1> DEFINE z == c.turns[t].joined
           b == [c EXCEPT !.turns[t] = [c.turns[t] EXCEPT !.complete = TRUE, !.joined = z]]
           done == ReleaseStatus(b, t)
           d == IF c.turns[t].settled THEN Settle(done, t) ELSE done
           p == IF d.turns[t].phase = "live" THEN "ended" ELSE d.turns[t].phase
           e == Pass(d, t, 0, p)
<1>1. t \in Turns(c) /\ c.turns[t].cancelled /\ c.turns[t].phase \notin Startup
      /\ c \in State /\ c.turns \in Seq(TurnRecord) /\ c.turns[t] \in TurnRecord
  <2>1. t \in Turns(c) /\ c \in State
    BY DEF TurnDue, Fits, Typed
  <2>. QED BY <2>1, Fields DEF TurnDue, WriteFits, Turns
<1>2. Fits(d) /\ Stays(c, d)
  BY <1>1, CompleteFits DEF Startup
<1>3. TurnCancelled(c, t) = e
  <2>1. [c.turns[t] EXCEPT !.complete = TRUE] = [c.turns[t] EXCEPT !.complete = TRUE, !.joined = z]
    BY <1>1 DEF TurnRecord
  <2>2. [c EXCEPT !.turns[t].complete = TRUE] = b
    BY <2>1
  <2> HIDE DEF b
  <2>. QED BY <2>2 DEF TurnCancelled, Pass
<1> HIDE DEF d
<1>4. t \in Turns(d) /\ d.turns[t].phase = c.turns[t].phase /\ d.turns[t].cancelled
      /\ d.turns[t] \in TurnRecord /\ Len(d.turns) \in Nat /\ Len(c.turns) <= Len(d.turns)
      /\ d.active = c.active
  <2>1. Len(c.turns) \in Nat /\ d.turns \in Seq(TurnRecord) /\ Len(d.turns) \in Nat
    BY <1>1, <1>2, Fields DEF Fits, Typed
  <2>. QED BY <2>1, <1>1, <1>2 DEF Stays, Turns
<1>5. AtRest(d, t)
  BY <1>1, <1>2, <1>4, PastAtRest
<1>6. p \in Running \cup {"draining", "ended"} /\ p # "live" /\ (p = "delivering" => d.turns[t].phase = "delivering")
  BY <1>1, <1>4 DEF TurnRecord, Phases, Running
<1>7. \A u \in Turns(c) : u # t /\ ~c.turns[u].cancelled
          => c.turns[u].phase \notin {"engine", "delivering", "live", "finishing"}
  BY DEF TurnDue, Apart, Forgets
<1>8. \A u \in Turns(d) : u # t /\ ~d.turns[u].cancelled => d.turns[u].phase \notin {"live", "finishing"}
  <2>1. SUFFICES ASSUME NEW u \in Turns(d), u # t, ~d.turns[u].cancelled,
                        d.turns[u].phase \in {"live", "finishing"}
                 PROVE  FALSE
    OBVIOUS
  <2>2. d.active = u
    BY <2>1, <1>2 DEF Fits, TurnFits, HoldFits
  <2>3. u \in Turns(c)
    <3>1. c.active \in 0 .. Len(c.turns) /\ u # 0
      BY <2>1 DEF Fits, Typed, Turns
    <3>. QED BY <2>2, <3>1, <1>4 DEF Turns
  <2>. QED BY <2>1, <2>3, <1>2, <1>7 DEF Stays
<1> HIDE DEF p
<1>9. Fits(e) /\ Passed(d, e, t, p) /\ e.active = 0
  BY <1>2, <1>4, <1>5, <1>6, <1>8, PassFits
<1> HIDE DEF e
<1>10. Leaves(c, e)
  <2>1. Len(e.turns) = Len(d.turns)
    BY <1>9 DEF Passed, OnlyTurn
  <2>2. ASSUME NEW u \in Turns(c), c.active = u PROVE LeftByItsEnd(e, u)
    <3>1. CASE u = t
      BY <3>1, <1>4, <1>9 DEF LeftByItsEnd, Passed
    <3>2. CASE u # t
      <4>1. u \in Turns(d) /\ e.turns[u] = d.turns[u]
        BY <2>2, <3>2, <1>4, <1>9 DEF Passed, OnlyTurn, Turns
      <4>2. c.turns[u].phase \notin Startup /\ c.turns[u] \in TurnRecord
        BY <2>2, <1>1 DEF Fits, TurnFits, HoldFits, Turns
      <4>3. c.turns[u].cancelled \/ c.turns[u].phase \in {"draining", "ended"}
        BY <3>2, <4>2, <1>7 DEF TurnRecord, Phases, Running
      <4>. QED BY <4>1, <4>3, <1>2 DEF LeftByItsEnd, Stays
    <3>. QED BY <3>1, <3>2
  <2>. QED BY <2>1, <2>2, <1>4 DEF Leaves
<1>. QED BY <1>3, <1>9, <1>10

\* A result was recorded.
LEMMA ResultHandledFits ==
    ASSUME NEW c, Fits(c), NEW t \in Turns(c), c.turns[t].phase \notin Startup
    PROVE  Fits(ResultHandled(c, t)) /\ Leaves(c, ResultHandled(c, t))
<1> DEFINE a == IF c.active = t THEN 0 ELSE c.active
           p == IF ~c.stream THEN "ended" ELSE IF c.turns[t].cancelled THEN "live" ELSE "draining"
           d == Pass(c, t, a, p)
<1>1. c \in State
  BY DEF Fits, Typed
<1>2. ResultHandled(c, t) = IF c.turns[t].cancelled \/ c.stream THEN d ELSE Drain(d)
  <2>1. [Forget(c, t) EXCEPT !.turns[t].phase = p] = d
    BY <1>1 DEF Forget, Pass, State
  <2>. QED BY <2>1 DEF ResultHandled
<1>3. AtRest(c, t) /\ a \in {0, c.active} /\ p \in Running \cup {"draining", "ended"}
      /\ (a = c.active \/ c.active = t) /\ p # "delivering"
      /\ (p \in {"live", "finishing"} => c.turns[t].cancelled)
  BY PastAtRest DEF Running
<1>4. c.stream \/ p = "ended"
  OBVIOUS
<1>5. c.turns[t].cancelled \/ p \in {"draining", "ended"}
  OBVIOUS
<1>6. c.active # t => a = c.active
  OBVIOUS
<1> HIDE DEF a, p
<1>7. Fits(d) /\ Passed(c, d, t, p) /\ d.active = a
  BY <1>3, PassFits
<1> HIDE DEF d
<1>8. Leaves(c, d)
  <2>1. Len(c.turns) \in Nat /\ Len(d.turns) = Len(c.turns)
    BY <1>1, <1>7, Fields DEF Passed, OnlyTurn
  <2>2. LeftByItsEnd(d, t)
    BY <1>5, <1>7 DEF LeftByItsEnd, Passed
  <2>. QED BY <2>1, <2>2, <1>6, <1>7 DEF Leaves
<1>9. Fits(Drain(d)) /\ Stays(d, Drain(d))
  BY <1>7, DrainFits
<1>. QED BY <1>2, <1>7, <1>8, <1>9, LeavesStays

\* The end of a stream, or of a session.
LEMMA StreamClosedFits ==
    ASSUME NEW c, Fits(c), NEW t \in Turns(c), c.turns[t].phase \notin Startup, c.turns[t].closed,
           ~c.stream => \A u \in Turns(c) : u # t /\ ~c.turns[u].cancelled
                            => c.turns[u].phase \notin {"engine", "delivering", "live", "finishing"}
    PROVE  Fits(StreamClosed(c, t)) /\ Leaves(c, StreamClosed(c, t))
<1> DEFINE a == IF ~c.stream THEN 0 ELSE IF c.active = t THEN 0 ELSE c.active
           p == IF c.turns[t].phase = "delivering" THEN c.turns[t].phase ELSE "ended"
           d == Pass(c, t, a, p)
<1>1. c \in State
  BY DEF Fits, Typed
<1>2. StreamClosed(c, t) = IF ~c.stream \/ c.turns[t].cancelled THEN d ELSE Drain(d)
  <2> DEFINE done == [c EXCEPT !.turns[t].phase = p]
  <2>1. c.turns \in Seq(TurnRecord) /\ c.turns[t] \in TurnRecord
    BY <1>1, Fields DEF Turns
  <2>2. done.active = c.active
    BY <1>1 DEF State
  <2>3. [done EXCEPT !.active = 0] = Pass(c, t, 0, p)
    BY <1>1 DEF State, Pass
  <2>4. done = Pass(c, t, c.active, p)
    BY <1>1 DEF State, Pass
  <2>5. StreamClosed(c, t) = IF ~c.stream THEN [done EXCEPT !.active = 0]
                             ELSE IF c.turns[t].cancelled THEN Forget(done, t)
                             ELSE Drain(Forget(done, t))
    BY DEF StreamClosed
  <2> HIDE DEF done
  <2>6. c.stream => Forget(done, t) = d
    BY <2>2, <2>3, <2>4 DEF Forget
  <2>. QED BY <2>3, <2>5, <2>6
<1>3. AtRest(c, t) /\ a \in {0, c.active} /\ p \in Running \cup {"draining", "ended"}
      /\ (p = "delivering" => c.turns[t].phase = "delivering")
      /\ p \notin {"live", "finishing"}
  BY PastAtRest DEF Running
<1>4. a = c.active \/ c.active = t
      \/ \A u \in Turns(c) : u # t /\ ~c.turns[u].cancelled => c.turns[u].phase \notin {"live", "finishing"}
  OBVIOUS
<1>5. c.stream /\ c.active # t => a = c.active
  OBVIOUS
<1> HIDE DEF a, p
<1>6. Fits(d) /\ Passed(c, d, t, p) /\ d.active = a
  BY <1>3, <1>4, PassFits
<1> HIDE DEF d
<1>7. Leaves(c, d)
  <2>1. Len(c.turns) \in Nat /\ Len(d.turns) = Len(c.turns)
    BY <1>1, <1>6, Fields DEF Passed, OnlyTurn
  <2>2. LeftByItsEnd(d, t)
    BY <1>6 DEF LeftByItsEnd, Passed
  <2>3. ASSUME NEW u \in Turns(c), c.active = u, u # t, d.active # u PROVE LeftByItsEnd(d, u)
    <3>1. ~c.stream
      BY <2>3, <1>5, <1>6
    <3>2. c.turns[u].phase \notin Startup /\ c.turns[u] \in TurnRecord
      BY <2>3, <1>1, Fields DEF Fits, TurnFits, HoldFits, Turns
    <3>3. c.turns[u].cancelled \/ c.turns[u].phase \in {"draining", "ended"}
      BY <2>3, <3>1, <3>2 DEF TurnRecord, Phases, Running
    <3>4. d.turns[u] = c.turns[u]
      BY <2>3, <1>6 DEF Passed, OnlyTurn
    <3>. QED BY <3>3, <3>4 DEF LeftByItsEnd
  <2>. QED BY <2>1, <2>2, <2>3 DEF Leaves
<1>8. Fits(Drain(d)) /\ Stays(d, Drain(d))
  BY <1>6, DrainFits
<1>. QED BY <1>2, <1>6, <1>7, <1>8, LeavesStays

LEMMA CloseStreamFits ==
    ASSUME NEW c, Fits(c), NEW t \in Turns(c), c.turns[t].phase \notin Startup, c.turns[t].closed,
           ~c.stream => \A u \in Turns(c) : u # t /\ ~c.turns[u].cancelled
                            => c.turns[u].phase \notin
                                   {"recording", "directory", "policy", "engine", "delivering", "live", "finishing"}
    PROVE  Fits(CloseStream(c, t)) /\ Leaves(c, CloseStream(c, t))
<1>1. CASE CancelPending(c, t)
  <2>1. "late" \in Writes \ OfMessage /\ "late" \notin Startups
    BY DEF Writes, OfMessage, Startups
  <2>2. WriteFits(c.turns[t], "late")
    BY DEF WriteFits
  <2>3. \A u \in Turns(c) : u # t /\ ~c.turns[u].cancelled => Clear(c, c.turns[u], "late")
    BY DEF Clear, BeforePrompt, BeforeStarted, Forgets
  <2>4. Fits(OfTurn(c, "late", t)) /\ Stays(c, OfTurn(c, "late", t))
    BY <2>1, <2>2, <2>3, OfTurnFits, OfTurnStays
  <2>. QED BY <1>1, <2>4, StaysLeaves DEF CloseStream
<1>2. CASE ~CancelPending(c, t)
  BY <1>2, StreamClosedFits DEF CloseStream
<1>. QED BY <1>1, <1>2

\* The code that awaits a write that is due.
LEMMA AfterFits ==
    ASSUME NEW c, Fits(c), NEW w \in WriteRecord,
           w.op = "enqueue" => EnqueueDue(c, w.msg),
           w.op = "remove" => RemoveDue(c, w),
           w.op \notin OfMessage => TurnDue(c, w.turn, w.op),
           NEW tool \in BOOLEAN
    PROVE  Fits(After(c, w, tool)) /\ Leaves(c, After(c, w, tool))
<1> DEFINE t == w.turn
<1>1. CASE w.op = "enqueue"
  BY <1>1, EnqueuedFits, StaysLeaves DEF After
<1>2. CASE w.op = "remove"
  BY <1>2, RemovedFits, StaysLeaves DEF After
<1>3. CASE w.op = "prompt"
  <2>1. After(c, w, tool) = PromptWritten(c, t)
    BY <1>3 DEF After
  <2>. QED BY <1>3, <2>1, PromptWrittenFits DEF OfMessage
<1>4. CASE w.op = "started"
  <2>1. After(c, w, tool) = TurnStartWritten(c, t)
    BY <1>4 DEF After
  <2>. QED BY <1>4, <2>1, TurnStartWrittenFits DEF OfMessage
<1>5. CASE w.op = "policy"
  <2>1. After(c, w, tool) = PolicyWritten(c, t)
    BY <1>5 DEF After
  <2>. QED BY <1>5, <2>1, PolicyWrittenFits DEF OfMessage
<1>6. CASE w.op = "interrupted"
  <2>1. After(c, w, tool) = OfTurn(c, "cancelled", t)
    BY <1>6 DEF After
  <2>2. t \in Turns(c) /\ WriteFits(c.turns[t], "cancelled")
    BY <1>6 DEF TurnDue, WriteFits, OfMessage
  <2>3. "cancelled" \in Writes \ OfMessage /\ "cancelled" \notin Startups
    BY DEF Writes, OfMessage, Startups
  <2>4. \A u \in Turns(c) : Clear(c, c.turns[u], "cancelled")
    BY DEF Clear, BeforePrompt, BeforeStarted, Forgets
  <2>. QED BY <2>1, <2>2, <2>3, <2>4, OfTurnFits, OfTurnStays, StaysLeaves
<1>7. CASE w.op = "cancelled"
  <2>1. After(c, w, tool) = StartupCancelled(c, t)
    BY <1>7 DEF After
  <2>2. t \in Turns(c) /\ c.turns[t].cancelled /\ c.turns[t].phase # "prompting"
    BY <1>7 DEF TurnDue, WriteFits, OfMessage
  <2>. QED BY <2>1, <2>2, StartupCancelledFits, StaysLeaves
<1>8. CASE w.op = "tool"
  <2>1. After(c, w, tool) = OfTurn(c, "stopping", t)
    BY <1>8 DEF After
  <2>2. t \in Turns(c) /\ WriteFits(c.turns[t], "stopping")
    BY <1>8 DEF TurnDue, WriteFits, OfMessage
  <2>3. "stopping" \in Writes \ OfMessage /\ "stopping" \notin Startups
    BY DEF Writes, OfMessage, Startups
  <2>4. \A u \in Turns(c) : u # t /\ ~c.turns[u].cancelled => Clear(c, c.turns[u], "stopping")
    BY <1>8 DEF TurnDue, Apart, Clear, BeforePrompt, BeforeStarted, Forgets, OfMessage
  <2>. QED BY <2>1, <2>2, <2>3, <2>4, OfTurnFits, OfTurnStays, StaysLeaves
<1>9. CASE w.op = "stopping"
  <2>1. After(c, w, tool) = OfTurn(c, "stopped", t)
    BY <1>9 DEF After
  <2>2. t \in Turns(c) /\ WriteFits(c.turns[t], "stopped")
    BY <1>9 DEF TurnDue, WriteFits, OfMessage
  <2>3. "stopped" \in Writes \ OfMessage /\ "stopped" \notin Startups
    BY DEF Writes, OfMessage, Startups
  <2>4. \A u \in Turns(c) : u # t /\ ~c.turns[u].cancelled => Clear(c, c.turns[u], "stopped")
    BY <1>9 DEF TurnDue, Apart, Clear, BeforePrompt, BeforeStarted, Forgets, OfMessage
  <2>. QED BY <2>1, <2>2, <2>3, <2>4, OfTurnFits, OfTurnStays, StaysLeaves
<1>10. CASE w.op = "stopped"
  <2>1. After(c, w, tool) = TurnCancelled(c, t)
    BY <1>10 DEF After
  <2>. QED BY <1>10, <2>1, TurnCancelledFits DEF OfMessage
<1>11. CASE w.op = "result"
  <2>1. After(c, w, tool) = ResultWritten(c, t)
    BY <1>11 DEF After
  <2>2. t \in Turns(c) /\ c.turns[t].phase \notin Startup
    BY <1>11 DEF TurnDue, WriteFits, OfMessage
  <2>3. CASE c.turns[t].cancelled
    BY <2>1, <2>2, <2>3, ResultHandledFits DEF ResultWritten
  <2>4. CASE ~c.turns[t].cancelled
    <3>1. "finished" \in Writes \ OfMessage /\ "finished" \notin Startups
      BY DEF Writes, OfMessage, Startups
    <3>2. WriteFits(c.turns[t], "finished")
      BY <2>2 DEF WriteFits
    <3>3. \A u \in Turns(c) : Clear(c, c.turns[u], "finished")
      BY DEF Clear, BeforePrompt, BeforeStarted, Forgets
    <3>4. Fits(OfTurn(c, "finished", t)) /\ Stays(c, OfTurn(c, "finished", t))
      BY <2>2, <3>1, <3>2, <3>3, OfTurnFits, OfTurnStays
    <3>. QED BY <2>1, <2>4, <3>4, StaysLeaves DEF ResultWritten
  <2>. QED BY <2>3, <2>4
<1>12. CASE w.op = "finished"
  <2>1. After(c, w, tool) = ResultHandled(c, t)
    BY <1>12 DEF After
  <2>2. t \in Turns(c) /\ c.turns[t].phase \notin Startup
    BY <1>12 DEF TurnDue, WriteFits, OfMessage
  <2>. QED BY <2>1, <2>2, ResultHandledFits
<1>13. CASE w.op = "failed"
  <2>1. After(c, w, tool) = CloseStream(c, t)
    BY <1>13 DEF After
  <2>2. t \in Turns(c) /\ c.turns[t].phase \notin Startup /\ c.turns[t].closed
    BY <1>13 DEF TurnDue, WriteFits, OfMessage
  <2>3. ~c.stream => \A u \in Turns(c) : u # t /\ ~c.turns[u].cancelled
            => c.turns[u].phase \notin
                   {"recording", "directory", "policy", "engine", "delivering", "live", "finishing"}
    BY <1>13 DEF TurnDue, Apart, BeforePrompt, Forgets, OfMessage
  <2>. QED BY <2>1, <2>2, <2>3, CloseStreamFits
<1>14. CASE w.op = "late"
  <2>1. After(c, w, tool) = StreamClosed(c, t)
    BY <1>14 DEF After
  <2>2. t \in Turns(c) /\ c.turns[t].phase \notin Startup /\ c.turns[t].closed
    BY <1>14 DEF TurnDue, WriteFits, OfMessage
  <2>3. ~c.stream => \A u \in Turns(c) : u # t /\ ~c.turns[u].cancelled
            => c.turns[u].phase \notin {"engine", "delivering", "live", "finishing"}
    BY <1>14 DEF TurnDue, Apart, Forgets, OfMessage
  <2>. QED BY <2>1, <2>2, <2>3, StreamClosedFits
<1>15. w.op \in Writes
  BY DEF WriteRecord
<1>. QED BY <1>1, <1>2, <1>3, <1>4, <1>5, <1>6, <1>7, <1>8, <1>9, <1>10, <1>11, <1>12, <1>13, <1>14, <1>15
         DEF Writes

---------------------------------------------------------------------------
\* The events

\* A message nobody has sent yet leaves no trace.
LEMMA UnsentFacts ==
    ASSUME NEW c, Fits(c), NEW m \in Msgs, c.place[m] = "unsent"
    PROVE  /\ ~Queued(c, m) /\ c.prompts[m] = 0
           /\ \A i \in 1 .. Len(c.chain) : c.chain[i].op = "enqueue" => c.chain[i].msg # m
<1>1. ~Spent(c, m)
  BY DEF Spent
<1>2. ~Queued(c, m) /\ ~(c.prompts[m] > 0)
  BY <1>1 DEF Fits, QueueFits, Gone
<1>3. c.prompts[m] \in Nat
  BY Fields DEF Fits, Typed
<1>. QED BY <1>2, <1>3 DEF Fits, ChainFits

\* A message is posted.
LEMMA PostFits ==
    ASSUME NEW c, Fits(c), NEW m \in Msgs, c.place[m] = "unsent"
    PROVE  LET d == [c EXCEPT !.place[m] = "sending"]
           IN  Fits(d) /\ Stays(c, d) /\ Gone(d, m) /\ d.prompts[m] = 0
<1> DEFINE d == [c EXCEPT !.place[m] = "sending"]
<1>1. c \in State
  BY DEF Fits, Typed
<1>2. /\ d \in State
      /\ d.queue = c.queue /\ d.chain = c.chain /\ d.turns = c.turns /\ d.holder = c.holder
      /\ d.starting = c.starting /\ d.active = c.active /\ d.stream = c.stream
      /\ d.reply = c.reply /\ d.prompts = c.prompts
      /\ d.place = [c.place EXCEPT ![m] = "sending"]
  BY <1>1 DEF State, Places
<1> HIDE DEF d
<1>3. Typed(d)
  BY <1>2 DEF Fits, Typed, WriteTyped, Turns
<1>4. \A n \in Msgs : c.place[n] # "unsent" => d.place[n] # "unsent"
  BY <1>1, <1>2, Fields
<1>5. \A n \in Msgs : /\ Spent(c, n) => Spent(d, n)
                      /\ Gone(c, n) => Gone(d, n)
                      /\ Queued(d, n) = Queued(c, n)
  BY <1>2, <1>4 DEF Spent, Gone, Queued
<1>6. Gone(d, m) /\ d.prompts[m] = 0
  <2>1. d.place[m] # "unsent"
    BY <1>1, <1>2, Fields
  <2>. QED BY <2>1, <1>2, <1>5, UnsentFacts DEF Gone, Spent
<1>7. QueueFits(d)
  BY <1>2, <1>5 DEF Fits, QueueFits
<1>8. ChainFits(d)
  <2>1. \A i \in 1 .. Len(c.chain) : c.chain[i].op \in {"enqueue", "remove"} => c.chain[i].msg \in Msgs
    BY DEF Fits, Typed, WriteTyped, OfMessage
  <2>. QED BY <2>1, <1>2, <1>4, <1>5 DEF Fits, ChainFits
<1>9. ASSUME NEW t \in Turns(d) PROVE TurnFits(d, t)
  <2>1. TurnFits(c, t)
    BY <1>2 DEF Fits, Turns
  <2>2. c.turns[t] \in TurnRecord
    BY <1>1, <1>2, Fields DEF Turns
  <2>3. MessageFits(d, t)
    <3>1. c.turns[t].msg \in Msgs
      BY <2>2 DEF TurnRecord
    <3>2. c.turns[t].joined \in Seq(Steers) /\ c.turns[t].canceller \in Seq(Steers)
      BY <2>2 DEF TurnRecord
    <3>3. \A z \in Seq(Steers) : AllSpent(c, z) => AllSpent(d, z)
      <4>1. \A z \in Seq(Steers) : \A i \in 1 .. Len(z) : z[i][1] \in Msgs
        BY DEF Steers
      <4>. QED BY <4>1, <1>5 DEF AllSpent
    <3>. QED BY <2>1, <3>1, <3>2, <3>3, <1>2, <1>5 DEF TurnFits, MessageFits
  <2>4. HoldFits(d, t) /\ WritesFit(d, t) /\ NotForgotten(d, t)
    BY <2>1, <1>2 DEF TurnFits, HoldFits, WritesFit, NotForgotten, Apart, Ahead, BeforePrompt,
                      BeforeStarted, Forgets
  <2>. QED BY <2>3, <2>4 DEF TurnFits
<1>10. Stays(c, d)
  <2>1. Len(c.turns) \in Nat
    BY <1>1, Fields
  <2>. QED BY <2>1, <1>2, <1>5 DEF Stays
<1>. QED BY <1>3, <1>6, <1>7, <1>8, <1>9, <1>10 DEF Fits, d

\* The append of a posted message is asked for.
LEMMA PostedFits ==
    ASSUME NEW c, Fits(c), NEW m \in Msgs, c.place[m] = "unsent", NEW by \in {"send", "ask"}
    PROVE  LET d == Push([c EXCEPT !.place[m] = "sending"], Write("enqueue", 0, m, by))
           IN  Fits(d) /\ d.active = c.active /\ d.turns = c.turns
<1> DEFINE b == [c EXCEPT !.place[m] = "sending"]
           w == Write("enqueue", 0, m, by)
           d == Push(b, w)
<1>1. c \in State /\ w \in WriteRecord
  BY DEF Fits, Typed, Write, WriteRecord, Writes, Ways
<1>2. w.op = "enqueue" /\ w.msg = m /\ w.by = by /\ w.by \in {"send", "ask"}
  BY DEF Write
<1> HIDE DEF w
<1>3. /\ b \in State
      /\ b.queue = c.queue /\ b.chain = c.chain /\ b.turns = c.turns /\ b.holder = c.holder
      /\ b.starting = c.starting /\ b.active = c.active /\ b.stream = c.stream
      /\ b.reply = c.reply /\ b.prompts = c.prompts
      /\ b.place = [c.place EXCEPT ![m] = "sending"]
  BY <1>1 DEF State, Places
<1> HIDE DEF b
<1>4. /\ d \in State
      /\ d.queue = c.queue /\ d.turns = c.turns /\ d.holder = c.holder
      /\ d.starting = c.starting /\ d.active = c.active /\ d.stream = c.stream
      /\ d.place = b.place /\ d.prompts = c.prompts /\ d.reply = c.reply
      /\ Len(d.chain) = Len(c.chain) + 1 /\ Len(c.chain) \in Nat
      /\ \A i \in 1 .. Len(c.chain) : d.chain[i] = c.chain[i]
      /\ d.chain[Len(c.chain) + 1] = w
  BY <1>1, <1>3, Pushed
<1> HIDE DEF d
<1>5. \A i \in 1 .. Len(d.chain) : i \in 1 .. Len(c.chain) \/ i = Len(c.chain) + 1
  BY <1>4
<1>6. Typed(d)
  BY <1>2, <1>4, <1>5 DEF Fits, Typed, WriteTyped, Turns, OfMessage
<1>7. \A n \in Msgs : c.place[n] # "unsent" => d.place[n] # "unsent"
  BY <1>1, <1>3, <1>4, Fields
<1>8. d.place[m] # "unsent"
  BY <1>1, <1>3, <1>4, Fields
<1>9. \A n \in Msgs : Spent(c, n) => Spent(d, n)
  BY <1>2, <1>4, <1>5, <1>7 DEF Spent
<1>10. \A n \in Msgs : (Gone(c, n) => Gone(d, n)) /\ Queued(d, n) = Queued(c, n)
  BY <1>4, <1>9 DEF Gone, Queued
<1>11. QueueFits(d)
  BY <1>4, <1>9, <1>10 DEF Fits, QueueFits
<1>12. ChainFits(d)
  <2>1. \A i \in 1 .. Len(c.chain) : c.chain[i].op \in {"enqueue", "remove"} => c.chain[i].msg \in Msgs
    BY DEF Fits, Typed, WriteTyped, OfMessage
  <2>2. \A i \in 1 .. Len(d.chain) :
           d.chain[i].op = "enqueue" => d.place[d.chain[i].msg] # "unsent"
    BY SMTT(20), <2>1, <1>2, <1>4, <1>5, <1>7, <1>8 DEF Fits, ChainFits
  <2>3. \A i, j \in 1 .. Len(d.chain) :
           d.chain[i].op = "enqueue" /\ d.chain[j].op = "enqueue"
             /\ d.chain[i].msg = d.chain[j].msg => i = j
    <3>1. \A i \in 1 .. Len(c.chain) : c.chain[i].op = "enqueue" => c.chain[i].msg # m
      BY UnsentFacts
    <3>2. \A i, j \in 1 .. Len(c.chain) :
             c.chain[i].op = "enqueue" /\ c.chain[j].op = "enqueue"
               /\ c.chain[i].msg = c.chain[j].msg => i = j
      BY DEF Fits, ChainFits
    <3>. QED BY SMTT(20), <3>1, <3>2, <1>2, <1>4, <1>5
  <2>4. \A i \in 1 .. Len(d.chain) :
           d.chain[i].op = "remove" =>
               /\ Spent(d, d.chain[i].msg)
               /\ d.chain[i].by # "user" => d.prompts[d.chain[i].msg] = 0
    BY <2>1, <1>2, <1>4, <1>5, <1>9 DEF Fits, ChainFits
  <2>. QED BY <2>2, <2>3, <2>4 DEF ChainFits
<1>13. ASSUME NEW t \in Turns(d) PROVE TurnFits(d, t)
  <2>1. TurnFits(c, t)
    BY <1>4 DEF Fits, Turns
  <2>2. c.turns[t] \in TurnRecord
    BY <1>1, <1>4, Fields DEF Turns
  <2>3. MessageFits(d, t)
    <3>1. c.turns[t].msg \in Msgs
      BY <2>2 DEF TurnRecord
    <3>2. c.turns[t].joined \in Seq(Steers) /\ c.turns[t].canceller \in Seq(Steers)
      BY <2>2 DEF TurnRecord
    <3>3. \A z \in Seq(Steers) : AllSpent(c, z) => AllSpent(d, z)
      <4>1. \A z \in Seq(Steers) : \A i \in 1 .. Len(z) : z[i][1] \in Msgs
        BY DEF Steers
      <4>. QED BY <4>1, <1>9 DEF AllSpent
    <3>4. \A i, j \in 1 .. Len(d.chain) :
               /\ d.chain[i].op = "prompt" /\ d.chain[i].turn = t
               /\ d.chain[j].op = "remove" /\ d.chain[j].msg = c.turns[t].msg
               => j < i
      BY SMTT(20), <2>1, <1>2, <1>4, <1>5 DEF TurnFits, MessageFits
    <3>. QED BY <2>1, <3>1, <3>2, <3>3, <3>4, <1>4, <1>10 DEF TurnFits, MessageFits
  <2>4. HoldFits(d, t)
    BY <2>1, <1>4 DEF TurnFits, HoldFits
  <2>5. WritesFit(d, t)
    <3>1. \A i \in 1 .. Len(d.chain) :
             d.chain[i].op \notin OfMessage /\ d.chain[i].turn = t => WriteFits(c.turns[t], d.chain[i].op)
      BY <2>1, <1>2, <1>4, <1>5 DEF TurnFits, WritesFit, OfMessage
    <3>2. ASSUME NEW i \in 1 .. Len(d.chain), NEW j \in 1 .. Len(d.chain),
                 d.chain[i].turn = t, d.chain[j].turn = t, d.chain[i].op = d.chain[j].op,
                 d.chain[i].op \in {"prompt", "started", "policy"}
          PROVE  i = j
      <4>1. /\ i \in 1 .. Len(c.chain) /\ d.chain[i] = c.chain[i]
            /\ j \in 1 .. Len(c.chain) /\ d.chain[j] = c.chain[j]
        BY <3>2, <1>2, <1>4, <1>5
      <4>. QED BY <2>1, <3>2, <4>1 DEF TurnFits, WritesFit
    <3>. QED BY <2>1, <3>1, <3>2, <1>4 DEF TurnFits, WritesFit
  <2>6. NotForgotten(d, t)
    <3>1. \A op : Apart(d, c.turns[t], op) = Apart(c, c.turns[t], op)
      BY <1>4 DEF Apart, BeforePrompt, BeforeStarted, Forgets
    <3>2. ASSUME NEW i \in 1 .. Len(c.chain), Ahead(c, t, i) PROVE Ahead(d, t, i)
      BY SMTT(20), <3>2, <1>2, <1>4, <1>5 DEF Ahead, BeforePrompt, BeforeStarted
    <3>. QED BY <2>1, <3>1, <3>2, <1>2, <1>4, <1>5 DEF TurnFits, NotForgotten, OfMessage
  <2>. QED BY <2>3, <2>4, <2>5, <2>6 DEF TurnFits
<1>. QED BY <1>4, <1>6, <1>11, <1>12, <1>13 DEF Fits, d, b, w

\* A step of the chat that keeps it fit, and lets the active turn go only at its end.
Sound(c, d) == Fits(d) /\ Leaves(c, d)

LEMMA StaysSound ==
    ASSUME NEW c, NEW d, Fits(d), Stays(c, d)
    PROVE  Sound(c, d)
BY StaysLeaves DEF Sound

LEMMA SoundStays ==
    ASSUME NEW c, NEW d, NEW e, Fits(c), Sound(c, d), Fits(e), Stays(d, e)
    PROVE  Sound(c, e)
BY LeavesStays DEF Sound

LEMMA ToolsTyped == Tools \subseteq BOOLEAN
BY DEF Tools

LEMMA FlushFits ==
    ASSUME Fits(s), Flush
    PROVE  Sound(s, s')
<1>1. PICK tool \in Tools : s' = After(Popped(s), Head(s.chain), tool)
  BY DEF Flush, Step, Popped
<1> DEFINE d == Popped(s)
           w == Head(s.chain)
<1>2. tool \in BOOLEAN
  BY <1>1, ToolsTyped
<1>3. s.chain # <<>>
  BY DEF Flush
<1>4. /\ Fits(d) /\ w \in WriteRecord
      /\ w.op = "enqueue" => EnqueueDue(d, w.msg)
      /\ w.op = "remove" => RemoveDue(d, w)
      /\ w.op \notin OfMessage => TurnDue(d, w.turn, w.op)
      /\ d.active = s.active /\ d.turns = s.turns
  BY <1>3, PopFits
<1> HIDE DEF d, w
<1>5. Fits(After(d, w, tool)) /\ Leaves(d, After(d, w, tool))
  BY <1>2, <1>4, AfterFits
<1>6. s' = After(d, w, tool)
  BY <1>1 DEF d, w
<1>. QED BY <1>4, <1>5, <1>6 DEF Sound, Leaves, Turns

LEMMA SendFits ==
    ASSUME Fits(s), NEW m \in Msgs, Send(m)
    PROVE  Sound(s, s')
<1> DEFINE b == [s EXCEPT !.place[m] = "sending"]
<1>1. s.place[m] = "unsent" /\ "send" \in Ways
  BY DEF Send, Ways
<1>2. Fits(b) /\ Stays(s, b) /\ Gone(b, m) /\ b.prompts[m] = 0
  BY <1>1, PostFits
<1>3. s' = IF Busy(s) THEN Push(b, Write("enqueue", 0, m, "send")) ELSE Start(b, m, "send")
  BY DEF Send, Step, Posted
<1>4. CASE Busy(s)
  <2>1. LET d == Push(b, Write("enqueue", 0, m, "send"))
        IN  Fits(d) /\ d.active = s.active /\ d.turns = s.turns
    BY <1>1, PostedFits
  <2>2. Fits(s') /\ s'.active = s.active /\ s'.turns = s.turns
    BY <2>1, <1>3, <1>4
  <2>3. Len(s.turns) \in Nat
    BY Fields DEF Fits, Typed
  <2>. QED BY <2>2, <2>3 DEF Sound, Leaves
<1>5. CASE ~Busy(s)
  <2> HIDE DEF b
  <2>1. Fits(Start(b, m, "send")) /\ Stays(b, Start(b, m, "send"))
    BY <1>1, <1>2, StartFits
  <2>2. Stays(s, Start(b, m, "send"))
    BY <2>1, <1>2, StaysTrans
  <2>. QED BY <2>1, <2>2, <1>3, <1>5, StaysSound
<1>. QED BY <1>4, <1>5

LEMMA EnqueueFits ==
    ASSUME Fits(s), NEW m \in Msgs, Enqueue(m)
    PROVE  Sound(s, s')
<1>1. s.place[m] = "unsent"
  BY DEF Enqueue
<1>2. PICK by \in {"send", "ask"} :
          s' = Push([s EXCEPT !.place[m] = "sending"], Write("enqueue", 0, m, by))
  BY DEF Enqueue, Step, Posted
<1>3. Fits(s') /\ s'.active = s.active /\ s'.turns = s.turns
  BY <1>1, <1>2, PostedFits
<1>4. Len(s.turns) \in Nat
  BY Fields DEF Fits, Typed
<1>. QED BY <1>3, <1>4 DEF Sound, Leaves

\* A queued message is one the store has had.
LEMMA QueuedSpent ==
    ASSUME NEW c, Fits(c), NEW m \in Msgs, Queued(c, m)
    PROVE  Spent(c, m)
BY DEF Fits, QueueFits

LEMMA SteerFits ==
    ASSUME Fits(s), NEW m \in Msgs, Steer(m)
    PROVE  Sound(s, s')
<1>1. PICK tool \in Tools : s' = SteerNow(s, m, "steer", tool)
  BY DEF Steer, Act
<1>2. tool \in BOOLEAN /\ Spent(s, m) /\ "steer" \in {"steer", "ask"}
  BY <1>1, ToolsTyped, QueuedSpent DEF Steer
<1>3. Fits(SteerNow(s, m, "steer", tool)) /\ Stays(s, SteerNow(s, m, "steer", tool))
  BY <1>2, SteerNowFits
<1>. QED BY <1>1, <1>3, StaysSound

LEMMA DequeueFits ==
    ASSUME Fits(s), NEW m \in Msgs, Dequeue(m)
    PROVE  Sound(s, s')
<1>1. Queued(s, m) /\ s' = Push(s, Write("remove", 0, m, "user")) /\ "user" \in Ways \cup {"user"}
  BY DEF Dequeue, Act
<1>2. Fits(s') /\ Stays(s, s')
  BY <1>1, RemoveFits, RemoveStays
<1>. QED BY <1>2, StaysSound

LEMMA StopFits ==
    ASSUME Fits(s), Stop
    PROVE  Sound(s, s')
<1>1. PICK tool \in Tools : s' = Cancel(s, <<>>, tool)
  BY DEF Stop, Act
<1>2. tool \in BOOLEAN /\ <<>> \in Seq(Steers) /\ AllSpent(s, <<>>)
  BY <1>1, ToolsTyped DEF AllSpent
<1>3. Fits(Cancel(s, <<>>, tool)) /\ Stays(s, Cancel(s, <<>>, tool))
  BY <1>2, CancelledFits
<1>. QED BY <1>1, <1>3, StaysSound

\* Turn t has none of its startup's writes pending where it can be answered.
LEMMA AnswerAtRest ==
    ASSUME NEW c, Fits(c), NEW t \in Turns(c), c.turns[t].phase \notin {"prompting", "recording", "policy"}
    PROVE  AtRest(c, t)
<1>1. WritesFit(c, t)
  BY DEF Fits, TurnFits
<1>2. ASSUME NEW op \in Startups, NEW i \in 1 .. Len(c.chain), c.chain[i].turn = t, c.chain[i].op = op
      PROVE  FALSE
  <2>1. c.chain[i].op \notin OfMessage
    BY <1>2 DEF Startups, OfMessage
  <2>2. WriteFits(c.turns[t], op)
    BY <1>1, <1>2, <2>1 DEF WritesFit
  <2>. QED BY <2>2 DEF WriteFits, Startups
<1>. QED BY <1>2 DEF AtRest, Unasked

\* The active turn is let go only as some turn ends it.
LEMMA SameActive ==
    ASSUME NEW c, NEW d, c \in State, Len(d.turns) = Len(c.turns), d.active = c.active
    PROVE  Leaves(c, d)
BY Fields DEF Leaves

\* The prompt of a startup nobody cancelled is to be written.
LEMMA PromptingFits ==
    ASSUME NEW c, Fits(c), NEW t \in Turns(c), c.turns[t].phase = "prepare", ~c.turns[t].cancelled
    PROVE  LET r == [c.turns[t] EXCEPT !.phase = "prompting", !.writing = TRUE]
               d == [c EXCEPT !.turns[t] = r]
           IN  /\ Fits(d) /\ Leaves(c, d) /\ t \in Turns(d) /\ d.turns[t].phase = "prompting"
               /\ Unasked(d, t, "prompt")
<1> DEFINE r == [c.turns[t] EXCEPT !.phase = "prompting", !.writing = TRUE]
           d == [c EXCEPT !.turns[t] = r]
<1>1. c \in State
  BY DEF Fits, Typed
<1>2. c.turns[t] \in TurnRecord /\ TurnFits(c, t)
  BY <1>1, Fields DEF Turns, Fits
<1>3. r \in TurnRecord /\ r.phase = "prompting" /\ r.msg = c.turns[t].msg /\ ~r.cancelled /\ r.writing
      /\ r.complete = c.turns[t].complete /\ r.joined = c.turns[t].joined
      /\ r.canceller = c.turns[t].canceller
  BY <1>2 DEF TurnRecord, Phases, Startup
<1> HIDE DEF r
<1>4. OnlyTurn(c, d, t) /\ SameHold(c, d) /\ d.turns[t] = r
  BY <1>1, <1>3, TurnSet
<1> HIDE DEF d
<1>5. /\ d.queue = c.queue /\ d.chain = c.chain /\ d.stream = c.stream
      /\ d.place = c.place /\ d.prompts = c.prompts /\ Len(d.turns) = Len(c.turns)
      /\ d.holder = c.holder /\ d.starting = c.starting /\ d.active = c.active
      /\ \A u \in Turns(c) : u # t => d.turns[u] = c.turns[u]
  BY <1>4 DEF OnlyTurn, SameHold
<1>6. \A n : Spent(d, n) = Spent(c, n) /\ Gone(d, n) = Gone(c, n)
  BY <1>5 DEF Spent, Gone, Queued
<1>7. ASSUME NEW i \in 1 .. Len(c.chain), c.chain[i].op \notin OfMessage PROVE c.chain[i].turn # t
  <2>1. c.chain[i].turn = t => WriteFits(c.turns[t], c.chain[i].op)
    BY <1>2, <1>7 DEF TurnFits, WritesFit
  <2>2. c.chain[i].op \in Writes
    <3>1. c.chain \in Seq(WriteRecord)
      BY <1>1, Fields
    <3>2. c.chain[i] \in WriteRecord
      BY <3>1
    <3>. QED BY <3>2 DEF WriteRecord
  <2>. QED BY <2>1, <2>2, <1>7 DEF WriteFits, Writes, OfMessage, Startup
<1>8. MessageFits(d, t)
  BY <1>2, <1>3, <1>4, <1>5, <1>6 DEF TurnFits, MessageFits, AllSpent, Candidate
<1>9. WritesFit(d, t)
  <2>1. ~r.complete
    BY <1>2, <1>3 DEF TurnFits, HoldFits
  <2>. QED BY <1>2, <1>4, <1>5, <1>7, <2>1 DEF TurnFits, WritesFit
<1>10. NotForgotten(d, t)
  BY <1>2, <1>3, <1>4, <1>5 DEF TurnFits, NotForgotten, Apart, Ahead, BeforePrompt, BeforeStarted, Forgets
<1>11. ASSUME NEW u \in Turns(c) PROVE HoldFits(d, u)
  <2>1. CASE u = t
    BY <2>1, <1>2, <1>3, <1>4, <1>5 DEF TurnFits, HoldFits, Reserves, Startup
  <2>2. CASE u # t
    BY <2>2, <1>5 DEF Fits, TurnFits, HoldFits, Reserves
  <2>. QED BY <2>1, <2>2
<1>12. d.holder \in 0 .. Len(c.turns) /\ d.active \in 0 .. Len(c.turns) /\ (d.starting => d.holder # 0)
  BY <1>5 DEF Fits, Typed
<1>13. Fits(d)
  BY <1>4, <1>8, <1>9, <1>10, <1>11, <1>12, UpdateFits
<1>14. Leaves(c, d)
  BY <1>1, <1>5, SameActive
<1>15. Unasked(d, t, "prompt")
  BY <1>5, <1>7 DEF Unasked, OfMessage
<1>. QED BY <1>3, <1>4, <1>5, <1>13, <1>14, <1>15 DEF d, r, Turns

LEMMA PreparedFits ==
    ASSUME Fits(s), NEW t \in Turns(s), Prepared(t)
    PROVE  Sound(s, s')
<1>1. CASE s.turns[t].cancelled
  <2>1. s' = Unwind(s, t, FALSE) /\ s.turns[t].phase = "prepare"
    BY <1>1 DEF Prepared, Step
  <2>. QED BY <2>1, AnswerAtRest, UnwindEnds DEF Sound
<1>2. CASE ~s.turns[t].cancelled
  <2> DEFINE r == [s.turns[t] EXCEPT !.phase = "prompting", !.writing = TRUE]
             d == [s EXCEPT !.turns[t] = r]
  <2>1. s.turns[t].phase = "prepare"
    BY DEF Prepared
  <2>2. s' = OfTurn(d, "prompt", t)
    <3>1. s \in State
      BY DEF Fits, Typed
    <3>2. s.turns \in Seq(TurnRecord)
      BY <3>1, Fields
    <3>3. [s EXCEPT !.turns[t].phase = "prompting", !.turns[t].writing = TRUE] = d
      BY <3>1, <3>2 DEF State, Turns
    <3>. QED BY <1>2, <3>3 DEF Prepared, Step
  <2>3. /\ Fits(d) /\ Leaves(s, d) /\ t \in Turns(d) /\ d.turns[t].phase = "prompting"
        /\ Unasked(d, t, "prompt")
    BY <1>2, <2>1, PromptingFits
  <2> HIDE DEF d
  <2>4. "prompt" \in Writes \ OfMessage
    BY DEF Writes, OfMessage
  <2>5. WriteFits(d.turns[t], "prompt")
    BY <2>3 DEF WriteFits
  <2>6. \A u \in Turns(d) : Clear(d, d.turns[u], "prompt")
    BY DEF Clear, BeforePrompt, BeforeStarted, Forgets
  <2>7. Fits(OfTurn(d, "prompt", t)) /\ Stays(d, OfTurn(d, "prompt", t))
    BY <2>3, <2>4, <2>5, <2>6, OfTurnFits, OfTurnStays
  <2>. QED BY <2>2, <2>3, <2>7, SoundStays DEF Sound
<1>. QED BY <1>1, <1>2

LEMMA DirectoryReadyFits ==
    ASSUME Fits(s), NEW t \in Turns(s), DirectoryReady(t)
    PROVE  Sound(s, s')
<1>1. s.turns[t].phase = "directory" /\ AtRest(s, t)
  BY AnswerAtRest DEF DirectoryReady
<1>2. CASE s.turns[t].cancelled
  <2>1. s' = Unwind(s, t, FALSE)
    BY <1>2 DEF DirectoryReady, Step
  <2>. QED BY <2>1, <1>1, UnwindEnds DEF Sound
<1>3. CASE ~s.turns[t].cancelled
  <2> DEFINE d == Near(s, t, "policy")
  <2>1. s' = OfTurn(d, "policy", t)
    BY <1>3 DEF DirectoryReady, WritePolicy, Step, Near
  <2>2. \A i \in 1 .. Len(s.chain) :
            s.chain[i].op \notin OfMessage /\ s.chain[i].turn # t =>
                ~BeforePrompt(s, s.chain[i].op) /\ ~BeforeStarted(s, s.chain[i].op)
    BY <1>1, <1>3 DEF Fits, TurnFits, NotForgotten, Apart
  <2>3. /\ Fits(d) /\ Leaves(s, d) /\ t \in Turns(d) /\ AtRest(d, t) /\ d.turns[t].phase = "policy"
    BY <1>1, <2>2, NearFits
  <2> HIDE DEF d
  <2>4. "policy" \in Writes \ OfMessage
    BY DEF Writes, OfMessage
  <2>5. WriteFits(d.turns[t], "policy") /\ ("policy" \in Startups => Unasked(d, t, "policy"))
    BY <2>3 DEF WriteFits, AtRest
  <2>6. \A u \in Turns(d) : Clear(d, d.turns[u], "policy")
    BY DEF Clear, BeforePrompt, BeforeStarted, Forgets
  <2>7. Fits(OfTurn(d, "policy", t)) /\ Stays(d, OfTurn(d, "policy", t))
    BY <2>3, <2>4, <2>5, <2>6, OfTurnFits, OfTurnStays
  <2>. QED BY <2>1, <2>3, <2>7, SoundStays DEF Sound
<1>. QED BY <1>2, <1>3

\* The engine of a startup nobody cancelled is there.
LEMMA EngineFits ==
    ASSUME NEW c, Fits(c), NEW t \in Turns(c), c.turns[t].phase = "engine", ~c.turns[t].cancelled
    PROVE  LET d == Pass(c, t, t, "delivering")
           IN  Fits(d) /\ Passed(c, d, t, "delivering") /\ d.active = t /\ c.active = 0
<1> DEFINE r == [c.turns[t] EXCEPT !.phase = "delivering"]
           b == [c EXCEPT !.turns[t] = r]
           d == Pass(c, t, t, "delivering")
<1>1. c \in State
  BY DEF Fits, Typed
<1>2. c.turns[t] \in TurnRecord /\ TurnFits(c, t)
  BY <1>1, Fields DEF Turns, Fits
<1>3. r \in TurnRecord /\ r.phase = "delivering" /\ r.msg = c.turns[t].msg /\ r.by = c.turns[t].by
      /\ ~r.cancelled /\ r.cancelled = c.turns[t].cancelled
      /\ r.complete = c.turns[t].complete /\ r.joined = c.turns[t].joined
      /\ r.canceller = c.turns[t].canceller /\ r.settled = c.turns[t].settled
      /\ r.closed = c.turns[t].closed
  BY <1>2 DEF TurnRecord, Phases, Running
<1>4. d = [b EXCEPT !.active = t]
  BY <1>1 DEF Pass, State
<1> HIDE DEF r
<1>5. OnlyTurn(c, b, t) /\ SameHold(c, b) /\ b.turns[t] = r
  BY <1>1, <1>3, TurnSet
<1> HIDE DEF b
<1>6. /\ d \in State /\ d.active = t
      /\ d.queue = b.queue /\ d.chain = b.chain /\ d.stream = b.stream
      /\ d.place = b.place /\ d.prompts = b.prompts /\ d.turns = b.turns
      /\ d.holder = b.holder /\ d.starting = b.starting /\ d.reply = b.reply
  <2>1. b \in State /\ t \in Nat
    BY <1>5 DEF OnlyTurn, Turns
  <2> HIDE DEF d
  <2>. QED BY <2>1, <1>4 DEF State
<1> HIDE DEF d
<1>7. /\ OnlyTurn(c, d, t) /\ d.turns[t] = r
      /\ d.queue = c.queue /\ d.chain = c.chain /\ d.stream = c.stream
      /\ d.place = c.place /\ d.prompts = c.prompts /\ Len(d.turns) = Len(c.turns)
      /\ d.holder = c.holder /\ d.starting = c.starting
      /\ \A u \in Turns(c) : u # t => d.turns[u] = c.turns[u]
  BY <1>5, <1>6 DEF OnlyTurn, SameHold
<1>8. \A n : Spent(d, n) = Spent(c, n) /\ Gone(d, n) = Gone(c, n)
  BY <1>7 DEF Spent, Gone, Queued
<1>9. c.holder = t /\ c.starting /\ c.active = 0
  BY <1>2 DEF TurnFits, HoldFits, Reserves, Startup
<1>10. MessageFits(d, t)
  BY SMTT(20), <1>2, <1>3, <1>7, <1>8 DEF TurnFits, MessageFits, AllSpent, Candidate
<1>11. WritesFit(d, t)
  BY <1>2, <1>3, <1>7 DEF TurnFits, WritesFit, WriteFits, Startup
<1>12. NotForgotten(d, t)
  BY <1>2, <1>3, <1>7 DEF TurnFits, NotForgotten, Apart, Ahead, BeforePrompt, BeforeStarted, Forgets
<1>13. ASSUME NEW u \in Turns(c) PROVE HoldFits(d, u)
  <2>1. CASE u = t
    BY <2>1, <1>2, <1>3, <1>6, <1>7, <1>9 DEF TurnFits, HoldFits, Reserves, Startup
  <2>2. CASE u # t
    <3>1. HoldFits(c, u) /\ d.turns[u] = c.turns[u] /\ u # 0
      BY <2>2, <1>7 DEF Fits, TurnFits, Turns
    <3>. QED BY <2>2, <3>1, <1>6, <1>7, <1>9 DEF HoldFits
  <2>. QED BY <2>1, <2>2
<1>14. d.holder \in 0 .. Len(c.turns) /\ d.active \in 0 .. Len(c.turns) /\ (d.starting => d.holder # 0)
  BY <1>6, <1>7 DEF Fits, Typed, Turns
<1>15. Fits(d)
  BY <1>7, <1>10, <1>11, <1>12, <1>13, <1>14, UpdateFits
<1>16. Passed(c, d, t, "delivering")
  BY <1>3, <1>7 DEF Passed
<1>. QED BY <1>6, <1>9, <1>15, <1>16 DEF d

\* A turn whose startup returned.
LEMMA BootedFits ==
    ASSUME NEW c, Fits(c), NEW t \in Turns(c), c.turns[t].phase = "delivering"
    PROVE  Fits(Booted(c, t)) /\ Leaves(c, Booted(c, t)) /\ Booted(c, t).active = c.active
<1> DEFINE p == IF c.active = t THEN "live" ELSE "ended"
           d == Pass(c, t, c.active, p)
           e == Settle(d, t)
           m == c.turns[t].msg
<1>1. c \in State
  BY DEF Fits, Typed
<1>2. c.turns[t] \in TurnRecord /\ AtRest(c, t)
  BY <1>1, Fields, PastAtRest DEF Turns, Startup
<1>3. p \in {"live", "ended"} /\ p \in Running \cup {"draining", "ended"} /\ (p = "live" => c.active = t)
  BY DEF Running
<1>4. Booted(c, t) = IF c.turns[t].by = "ask" THEN Told(e, m, "ok") ELSE e
  <2>1. [c EXCEPT !.turns[t].phase = p] = d
    BY <1>1 DEF State, Pass
  <2>. QED BY <2>1 DEF Booted
<1> HIDE DEF p
<1>5. Fits(d) /\ Passed(c, d, t, p) /\ d.active = c.active
  BY <1>2, <1>3, PassFits
<1> HIDE DEF d
<1>6. t \in Turns(d) /\ ~Bound(d.turns[t])
  BY <1>3, <1>5 DEF Passed, OnlyTurn, Turns, Bound, Reserves, Startup
<1>7. Fits(e) /\ Stays(d, e)
  BY <1>5, <1>6, SettleFits
<1>8. Leaves(c, d)
  BY <1>1, <1>5, SameActive DEF Passed, OnlyTurn
<1> HIDE DEF e
<1>9. m \in Msgs
  BY <1>2 DEF TurnRecord
<1> HIDE DEF m
<1>10. Fits(Told(e, m, "ok")) /\ Stays(e, Told(e, m, "ok"))
  BY <1>7, <1>9, ToldFits, ToldStays
<1>11. Stays(d, Told(e, m, "ok"))
  BY <1>5, <1>7, <1>10, StaysTrans
<1>12. Fits(Booted(c, t)) /\ Stays(d, Booted(c, t))
  BY <1>4, <1>7, <1>10, <1>11
<1>. QED BY <1>5, <1>8, <1>12, LeavesStays DEF Stays

LEMMA EngineReadyFits ==
    ASSUME Fits(s), NEW t \in Turns(s), EngineReady(t)
    PROVE  Sound(s, s')
<1>1. s.turns[t].phase = "engine" /\ AtRest(s, t)
  BY AnswerAtRest DEF EngineReady
<1>2. CASE s.turns[t].cancelled
  <2>1. s' = Unwind(s, t, FALSE)
    BY <1>2 DEF EngineReady, Step
  <2>. QED BY <2>1, <1>1, UnwindEnds DEF Sound
<1>3. CASE ~s.turns[t].cancelled
  <2> DEFINE d == Pass(s, t, t, "delivering")
  <2>1. s' = IF s.stream THEN Booted(d, t) ELSE d
    BY <1>3 DEF EngineReady, Step, Pass
  <2>2. Fits(d) /\ Passed(s, d, t, "delivering") /\ d.active = t /\ s.active = 0
    BY <1>1, <1>3, EngineFits
  <2> HIDE DEF d
  <2>3. Len(s.turns) \in Nat /\ Len(d.turns) = Len(s.turns) /\ d.turns[t].phase = "delivering"
    BY <2>2, Fields DEF Fits, Typed, Passed, OnlyTurn
  <2>4. \A u \in Turns(s) : u # s.active
    BY <2>2 DEF Turns
  <2>5. Leaves(s, d)
    BY <2>3, <2>4 DEF Leaves
  <2>6. Fits(Booted(d, t)) /\ Leaves(d, Booted(d, t))
    BY <2>2, <2>3, BootedFits DEF Turns
  <2>7. Leaves(s, Booted(d, t))
    <3>1. Len(Booted(d, t).turns) \in Nat
      BY <2>6, Fields DEF Fits, Typed
    <3>. QED BY <2>3, <2>4, <2>6, <3>1 DEF Leaves
  <2>. QED BY <2>1, <2>2, <2>5, <2>6, <2>7 DEF Sound
<1>. QED BY <1>2, <1>3

LEMMA DeliveredFits ==
    ASSUME Fits(s), NEW t \in Turns(s), Delivered(t)
    PROVE  Sound(s, s')
BY BootedFits DEF Delivered, Step, Sound

LEMMA StartupFailsFits ==
    ASSUME Fits(s), NEW t \in Turns(s), StartupFails(t)
    PROVE  Sound(s, s')
<1> DEFINE d == Forget(s, t)
<1>1. s \in State /\ Len(s.turns) \in Nat
  BY Fields DEF Fits, Typed
<1>2. s' = Unwind(d, t, TRUE) /\ AtRest(s, t)
      /\ s.turns[t].phase \in {"prepare", "directory", "engine", "delivering"}
  BY AnswerAtRest DEF StartupFails, Step
<1>3. Fits(d) /\ d.turns = s.turns /\ d.chain = s.chain
  <2>1. CASE s.active = t
    <3> DEFINE e == Pass(s, t, 0, "delivering")
    <3>1. s.turns[t].phase = "delivering"
      BY <2>1, <1>2 DEF Fits, TurnFits, HoldFits, Startup
    <3>2. Fits(e)
      BY <2>1, <3>1, <1>2, PassFits DEF Running
    <3>3. d = e /\ d.turns = s.turns /\ d.chain = s.chain
      <4>1. s.turns \in Seq(TurnRecord) /\ s.turns[t] \in TurnRecord
        BY <1>1, Fields DEF Turns
      <4>2. [s.turns EXCEPT ![t].phase = "delivering"] = s.turns
        <5>1. [s.turns[t] EXCEPT !.phase = "delivering"] = s.turns[t]
          BY <3>1, <4>1 DEF TurnRecord
        <5>2. [s.turns EXCEPT ![t] = s.turns[t]] = s.turns
          BY <4>1 DEF Turns
        <5>. QED BY <5>1, <5>2
      <4>3. d = [s EXCEPT !.active = 0]
        BY <2>1 DEF Forget
      <4>4. e = [s EXCEPT !.active = 0, !.turns = [s.turns EXCEPT ![t].phase = "delivering"]]
        BY DEF Pass
      <4>5. e = d
        <5>1. e = [s EXCEPT !.active = 0, !.turns = s.turns]
          BY <4>2, <4>4
        <5>2. [s EXCEPT !.active = 0, !.turns = s.turns] = [s EXCEPT !.active = 0]
          BY <1>1 DEF State
        <5>. QED BY <5>1, <5>2, <4>3
      <4>6. d.turns = s.turns /\ d.chain = s.chain
        BY <1>1, <4>3 DEF State
      <4>. QED BY <4>5, <4>6
    <3>. QED BY <3>2, <3>3
  <2>2. CASE s.active # t
    BY <2>2 DEF Forget
  <2>. QED BY <2>1, <2>2
<1>4. s.active # t => d.active = s.active
  BY DEF Forget
<1> HIDE DEF d
<1>5. AtRest(d, t) /\ t \in Turns(d)
  BY <1>2, <1>3 DEF AtRest, Unasked, Turns
<1>6. LET e == Unwind(d, t, TRUE)
      IN  /\ Fits(e) /\ e.active = d.active /\ t \in Turns(e) /\ Leaves(d, e)
          /\ e.turns[t].phase = "ended"
  BY <1>3, <1>5, UnwindEnds
<1>7. Leaves(s, s')
  BY <1>2, <1>3, <1>4, <1>6 DEF Leaves, LeftByItsEnd, Turns
<1>. QED BY <1>2, <1>6, <1>7 DEF Sound

LEMMA ResultFits ==
    ASSUME Fits(s), NEW t \in Turns(s), Result(t)
    PROVE  Sound(s, s')
<1> DEFINE d == Pass(s, t, s.active, "finishing")
<1>1. s.turns[t].phase = "live" /\ ~s.turns[t].cancelled /\ s \in State
  BY DEF Result, Fits, Typed
<1>2. s' = OfTurn(d, "result", t)
  <2>1. [s EXCEPT !.turns[t].phase = "finishing"] = d
    BY <1>1 DEF State, Pass
  <2>. QED BY <2>1 DEF Result, Step
<1>3. s.active = t
  BY <1>1 DEF Fits, TurnFits, HoldFits
<1>4. AtRest(s, t)
  BY <1>1, PastAtRest DEF Startup
<1>5. Fits(d) /\ Passed(s, d, t, "finishing") /\ d.active = s.active
  BY <1>1, <1>3, <1>4, PassFits DEF Running
<1> HIDE DEF d
<1>6. Leaves(s, d)
  BY <1>1, <1>5, SameActive DEF Passed, OnlyTurn
<1>7. t \in Turns(d) /\ d.turns[t].phase = "finishing"
  BY <1>5 DEF Passed, OnlyTurn, Turns
<1>8. "result" \in Writes \ OfMessage /\ "result" \notin Startups
  BY DEF Writes, OfMessage, Startups
<1>9. WriteFits(d.turns[t], "result")
  BY <1>7 DEF WriteFits, Startup
<1>10. \A u \in Turns(d) : Clear(d, d.turns[u], "result")
  BY DEF Clear, BeforePrompt, BeforeStarted, Forgets
<1>11. Fits(OfTurn(d, "result", t)) /\ Stays(d, OfTurn(d, "result", t))
  BY <1>5, <1>7, <1>8, <1>9, <1>10, OfTurnFits, OfTurnStays
<1>. QED BY <1>2, <1>5, <1>6, <1>11, SoundStays DEF Sound

LEMMA StreamEndsFits ==
    ASSUME Fits(s), NEW t \in Turns(s), StreamEnds(t)
    PROVE  Sound(s, s')
<1> DEFINE r == [s.turns[t] EXCEPT !.closed = TRUE]
           end == [s EXCEPT !.turns[t] = r]
<1>1. s \in State /\ s.turns \in Seq(TurnRecord) /\ s.turns[t] \in TurnRecord /\ TurnFits(s, t)
  BY Fields DEF Fits, Typed, Turns
<1>2. /\ s.turns[t].phase \notin Startup
      /\ s.stream \/ s.active = t
      /\ s' = IF s.turns[t].phase = "draining" \/ s.turns[t].cancelled
              THEN CloseStream(end, t) ELSE OfTurn(end, "failed", t)
  BY DEF StreamEnds, Step, Startup
<1>3. /\ r \in TurnRecord /\ r.msg = s.turns[t].msg /\ r.by = s.turns[t].by
      /\ r.phase = s.turns[t].phase /\ r.writing = s.turns[t].writing
      /\ r.cancelled = s.turns[t].cancelled /\ r.complete = s.turns[t].complete /\ r.closed
      /\ r.joined = s.turns[t].joined /\ r.canceller = s.turns[t].canceller
  BY <1>1 DEF TurnRecord
<1> HIDE DEF r
<1>4. Fits(end) /\ Stays(s, end)
  <2>1. AllSpent(s, r.joined) /\ AllSpent(s, r.canceller) /\ (r.complete => r.cancelled /\ r.phase # "prompting")
    BY <1>1, <1>3 DEF TurnFits, MessageFits, HoldFits, WritesFit
  <2>. QED BY <2>1, <1>3, MarkFits, MarkStays
<1>5. end.turns[t] = r /\ t \in Turns(end) /\ end.active = s.active /\ end.stream = s.stream
  BY <1>1, <1>3, TurnSet DEF OnlyTurn, SameHold, Turns
<1> HIDE DEF end
<1>6. ~end.stream => \A u \in Turns(end) : u # t /\ ~end.turns[u].cancelled
                        => end.turns[u].phase \notin Startup \cup {"delivering", "live", "finishing"}
  BY <1>2, <1>4, <1>5, ActiveIsAlone
<1>7. Leaves(s, end)
  BY <1>4, StaysLeaves
<1>8. Fits(CloseStream(end, t)) /\ Leaves(end, CloseStream(end, t))
  BY <1>2, <1>3, <1>4, <1>5, <1>6, CloseStreamFits DEF Startup
<1>9. Fits(OfTurn(end, "failed", t)) /\ Stays(end, OfTurn(end, "failed", t))
  <2>1. "failed" \in Writes \ OfMessage /\ "failed" \notin Startups
    BY DEF Writes, OfMessage, Startups
  <2>2. WriteFits(end.turns[t], "failed")
    BY <1>2, <1>3, <1>5 DEF WriteFits
  <2>3. \A u \in Turns(end) : u # t /\ ~end.turns[u].cancelled => Clear(end, end.turns[u], "failed")
    BY <1>6 DEF Clear, BeforePrompt, BeforeStarted, Forgets, Startup
  <2>. QED BY <2>1, <2>2, <2>3, <1>4, <1>5, OfTurnFits, OfTurnStays
<1>10. Leaves(s, CloseStream(end, t))
  <2>1. \A u \in Turns(s) : u \in Turns(end)
    <3>1. Len(s.turns) \in Nat /\ Len(end.turns) \in Nat
      BY <1>1, <1>4, Fields DEF Fits, Typed
    <3>. QED BY <3>1, <1>4 DEF Stays, Turns
  <2>2. Len(s.turns) \in Nat /\ Len(end.turns) \in Nat /\ Len(CloseStream(end, t).turns) \in Nat
    BY <1>1, <1>4, <1>8, Fields DEF Fits, Typed
  <2>. QED BY <2>1, <2>2, <1>4, <1>5, <1>8 DEF Leaves, Stays
<1>. QED BY <1>2, <1>4, <1>7, <1>8, <1>9, <1>10, SoundStays DEF Sound

LEMMA InterruptedFits ==
    ASSUME Fits(s), NEW t \in Turns(s), Interrupted(t)
    PROVE  Sound(s, s')
<1> DEFINE r == [s.turns[t] EXCEPT !.canceller = <<>>]
           z == s.turns[t].canceller
           d == [s EXCEPT !.turns[t] = r]
<1>1. s \in State /\ s.turns[t] \in TurnRecord /\ TurnFits(s, t)
  BY Fields DEF Fits, Typed, Turns
<1>2. s' = SteerAll(d, z)
  BY DEF Interrupted, Step
<1>3. /\ r \in TurnRecord /\ r.msg = s.turns[t].msg /\ r.by = s.turns[t].by
      /\ r.phase = s.turns[t].phase /\ r.writing = s.turns[t].writing
      /\ r.cancelled = s.turns[t].cancelled /\ r.complete = s.turns[t].complete
      /\ r.closed = s.turns[t].closed
      /\ r.joined = s.turns[t].joined /\ r.canceller = <<>>
  <2>1. <<>> \in Seq(Steers)
    OBVIOUS
  <2>. QED BY <1>1, <2>1 DEF TurnRecord
<1> HIDE DEF r
<1>4. Fits(d) /\ Stays(s, d)
  <2>1. /\ AllSpent(s, r.joined) /\ AllSpent(s, r.canceller)
        /\ r.complete => r.cancelled /\ r.phase # "prompting"
    BY <1>1, <1>3 DEF TurnFits, MessageFits, HoldFits, WritesFit, AllSpent
  <2>. QED BY <2>1, <1>3, MarkFits, MarkStays
<1> HIDE DEF d
<1>5. z \in Seq(Steers) /\ AllSpent(s, z)
  BY <1>1 DEF TurnRecord, TurnFits, MessageFits
<1> HIDE DEF z
<1>6. AllSpent(d, z)
  BY <1>4, <1>5, SpentStays
<1>7. Fits(SteerAll(d, z)) /\ Stays(d, SteerAll(d, z))
  BY <1>4, <1>5, <1>6, SteerAllFits
<1>8. Stays(s, SteerAll(d, z))
  BY <1>4, <1>7, StaysTrans
<1>. QED BY <1>2, <1>7, <1>8, StaysSound

\* A server that starts has its queue, and nothing else under way.
LEMMA RestFits ==
    ASSUME NEW c, c \in State, c.chain = <<>>, c.turns = <<>>, c.holder = 0, c.active = 0, ~c.starting,
           QueueFits(c)
    PROVE  Fits(c)
<1>1. Len(c.turns) = 0 /\ Len(c.chain) = 0
  OBVIOUS
<1>2. Turns(c) = {} /\ 1 .. Len(c.chain) = {}
  BY <1>1 DEF Turns
<1>3. Typed(c)
  BY <1>1, <1>2 DEF Typed
<1>4. ChainFits(c)
  BY <1>2 DEF ChainFits
<1>. QED BY <1>2, <1>3, <1>4 DEF Fits

LEMMA EmptyFits ==
    ASSUME NEW stream \in BOOLEAN
    PROVE  Fits(Empty(stream))
<1> DEFINE c == Empty(stream)
<1>1. /\ c.queue = <<>> /\ c.chain = <<>> /\ c.holder = 0 /\ c.starting = FALSE /\ c.active = 0
      /\ c.turns = <<>> /\ c.stream = stream /\ c.place = [m \in Msgs |-> "unsent"]
      /\ c.prompts = [m \in Msgs |-> 0] /\ c.reply = [m \in Msgs |-> "none"]
  BY DEF Empty
<1>2. c \in State
  <2>1. <<>> \in Seq(Msgs) /\ <<>> \in Seq(WriteRecord) /\ <<>> \in Seq(TurnRecord)
    OBVIOUS
  <2>. QED BY <2>1 DEF Empty, State, Places
<1> HIDE DEF c
<1>3. Len(c.queue) = 0
  BY <1>1
<1>4. QueueFits(c)
  BY <1>1, <1>3 DEF QueueFits, Queued
<1>5. Fits(c)
  BY <1>1, <1>2, <1>4, RestFits
<1>. QED BY <1>5 DEF c

LEMMA CrashFits ==
    ASSUME Fits(s), Crash
    PROVE  Fits(s')
<1> DEFINE pl == [m \in Msgs |-> IF s.place[m] \in {"sending", "held"} THEN "lost" ELSE s.place[m]]
           re == [m \in Msgs |-> IF s.reply[m] = "none" THEN "gone" ELSE s.reply[m]]
           c == [Empty(s.stream) EXCEPT !.queue = s.queue, !.prompts = s.prompts,
                                        !.place = pl, !.reply = re]
<1>1. s \in State
  BY DEF Fits, Typed
<1>2. /\ s.queue \in Seq(Msgs) /\ s.prompts \in [Msgs -> Nat] /\ s.stream \in BOOLEAN
      /\ s.place \in [Msgs -> Places] /\ s.reply \in [Msgs -> {"none", "ok", "refused", "gone"}]
  BY <1>1, Fields
<1>3. /\ pl \in [Msgs -> Places] /\ re \in [Msgs -> {"none", "ok", "refused", "gone"}]
      /\ \A m \in Msgs : /\ s.place[m] # "unsent" => pl[m] # "unsent"
                         /\ re[m] = "refused" => s.reply[m] = "refused"
  BY <1>2 DEF Places
<1>4. s' = Drain(c)
  BY DEF Crash
<1> HIDE DEF pl, re
<1>5. /\ c.queue = s.queue /\ c.chain = <<>> /\ c.holder = 0 /\ c.starting = FALSE /\ c.active = 0
      /\ c.turns = <<>> /\ c.stream = s.stream /\ c.place = pl
      /\ c.prompts = s.prompts /\ c.reply = re
  BY DEF Empty
<1>6. c \in State
  <2>1. <<>> \in Seq(WriteRecord) /\ <<>> \in Seq(TurnRecord)
    OBVIOUS
  <2>. QED BY <2>1, <1>2, <1>3 DEF Empty, State
<1> HIDE DEF c
<1>7. Len(c.chain) = 0
  BY <1>5
<1>8. \A m \in Msgs : /\ Spent(s, m) => Spent(c, m)
                      /\ Gone(s, m) => Gone(c, m)
                      /\ Queued(c, m) = Queued(s, m)
  BY <1>3, <1>5, <1>7 DEF Spent, Gone, Queued
<1>9. QueueFits(c)
  BY <1>3, <1>5, <1>8 DEF Fits, QueueFits
<1>10. Fits(c)
  BY <1>5, <1>6, <1>9, RestFits
<1>. QED BY <1>4, <1>10, DrainFits

---------------------------------------------------------------------------
\* The theorems

\* A step keeps the chat fit, and unless the server dies in it, the active turn is
\* let go only at its end.
LEMMA NextFits ==
    ASSUME ChatInv, [Next]_vars
    PROVE  Fits(s') /\ (crashes' = crashes => Leaves(s, s'))
<1>1. Fits(s)
  BY DEF ChatInv
<1>2. CASE Next
  <2>1. CASE Requests
    <3>1. CASE Stop
      BY <3>1, <1>1, StopFits DEF Sound
    <3>2. ASSUME NEW m \in Msgs, Send(m) \/ Enqueue(m) \/ Steer(m) \/ Dequeue(m)
          PROVE  Sound(s, s')
      BY <3>2, <1>1, SendFits, EnqueueFits, SteerFits, DequeueFits
    <3>. QED BY <2>1, <3>1, <3>2 DEF Requests, Sound
  <2>2. CASE Flush
    BY <2>2, <1>1, FlushFits DEF Sound
  <2>3. CASE Answers
    <3>1. ASSUME NEW t \in Turns(s),
                 \/ Prepared(t) \/ DirectoryReady(t) \/ EngineReady(t) \/ Delivered(t)
                 \/ StartupFails(t) \/ Interrupted(t)
          PROVE  Sound(s, s')
      BY <3>1, <1>1, PreparedFits, DirectoryReadyFits, EngineReadyFits, DeliveredFits,
         StartupFailsFits, InterruptedFits
    <3>. QED BY <2>3, <3>1 DEF Answers, Sound, Turns
  <2>4. CASE \E t \in 1 .. Len(s.turns) : Result(t) \/ StreamEnds(t)
    <3>1. ASSUME NEW t \in Turns(s), Result(t) \/ StreamEnds(t) PROVE Sound(s, s')
      BY <3>1, <1>1, ResultFits, StreamEndsFits
    <3>. QED BY <2>4, <3>1 DEF Sound, Turns
  <2>5. CASE Crash
    <3>1. crashes' # crashes
      BY <2>5, BoundAssumption DEF Crash, ChatInv
    <3>. QED BY <2>5, <3>1, <1>1, CrashFits
  <2>. QED BY <1>2, <2>1, <2>2, <2>3, <2>4, <2>5 DEF Next
<1>3. CASE UNCHANGED vars
  <2>1. s' = s
    BY <1>3 DEF vars
  <2>. QED BY <1>1, <2>1, StaysSame, StaysLeaves
<1>. QED BY <1>2, <1>3

LEMMA NextCounts ==
    ASSUME ChatInv, [Next]_vars
    PROVE  acts' \in 0 .. MaxActs /\ crashes' \in 0 .. MaxCrashes
<1>1. acts \in 0 .. MaxActs /\ crashes \in 0 .. MaxCrashes /\ MaxActs \in Nat /\ MaxCrashes \in Nat
  BY BoundAssumption DEF ChatInv
<1>2. CASE Requests
  BY <1>1, <1>2 DEF Requests, Send, Enqueue, Steer, Dequeue, Stop, Step, Act
<1>3. CASE Flush
  BY <1>1, <1>3 DEF Flush, Step
<1>4. CASE Answers
  <2>1. UNCHANGED <<acts, crashes>>
    BY <1>4 DEF Answers, Prepared, DirectoryReady, EngineReady, Delivered, StartupFails, Interrupted, Step
  <2>. QED BY <1>1, <2>1
<1>5. CASE \E t \in 1 .. Len(s.turns) : Result(t) \/ StreamEnds(t)
  <2>1. UNCHANGED <<acts, crashes>>
    BY <1>5 DEF Result, StreamEnds, Step
  <2>. QED BY <1>1, <2>1
<1>6. CASE Crash
  BY <1>1, <1>6 DEF Crash
<1>7. CASE UNCHANGED vars
  BY <1>1, <1>7 DEF vars
<1>. QED BY <1>2, <1>3, <1>4, <1>5, <1>6, <1>7 DEF Next

\* The inductive invariant of a chat: its queue, its pending writes, its turns and
\* what the coordinator holds fit each other, for any messages, any number of
\* requests and any number of crashes.
THEOREM ChatInvariant == Spec => []ChatInv
<1>1. Init => ChatInv
  <2> SUFFICES ASSUME Init PROVE ChatInv
    OBVIOUS
  <2>1. PICK stream \in BOOLEAN : s = Empty(stream)
    BY DEF Init
  <2>. QED BY <2>1, EmptyFits, BoundAssumption DEF Init, ChatInv
<1>2. ChatInv /\ [Next]_vars => ChatInv'
  BY NextFits, NextCounts DEF ChatInv
<1>. QED BY <1>1, <1>2, PTL DEF Spec

\* The state of a chat is well formed.
THEOREM ChatTyped == Spec => []TypeOK
<1>1. ChatInv => TypeOK
  <2> SUFFICES ASSUME ChatInv PROVE TypeOK
    OBVIOUS
  <2>1. Typed(s) /\ s \in State
    BY DEF ChatInv, Fits, Typed
  <2>2. s.holder \in 0 .. Len(s.turns) /\ s.active \in 0 .. Len(s.turns) /\ (s.starting => s.holder # 0)
    BY <2>1 DEF Typed
  <2>. QED BY <2>1, <2>2, Fields DEF ChatInv, TypeOK, WriteRecord
<1>. QED BY <1>1, ChatInvariant, PTL

\* A chat works on one turn at a time: of the turns nobody cancelled, only the one
\* that is active or holds the startup reservation is under way, whatever meets a
\* startup, a stop or the end of a turn (startTurnForChat, cancel, runTurn).
THEOREM OneTurn == Spec => []OneTurnAtATime
<1>1. ChatInv => OneTurnAtATime
  <2> SUFFICES ASSUME ChatInv, NEW t \in 1 .. Len(s.turns),
                      s.turns[t].phase \in Startup \cup Running, ~s.turns[t].cancelled
               PROVE  s.active = t \/ (s.active = 0 /\ s.holder = t /\ s.starting)
    BY DEF OneTurnAtATime
  <2>1. HoldFits(s, t)
    BY DEF ChatInv, Fits, TurnFits, Turns
  <2>. QED BY <2>1 DEF HoldFits, Reserves, Running
<1>. QED BY <1>1, ChatInvariant, PTL

\* A message is put into the transcript at most once, though the end of a turn,
\* steers and a restart may each take it from the queue.
THEOREM PromptsOnce == Spec => []PromptedOnce
<1>1. ChatInv => PromptedOnce
  BY DEF ChatInv, Fits, QueueFits, PromptedOnce
<1>. QED BY <1>1, ChatInvariant, PTL

\* A refused enqueue-and-steer request has left nothing in the queue that could
\* drain later (enqueue-and-steer.ts).
THEOREM RefusedStaysOut == Spec => []RefusedIsNotQueued
<1>1. ChatInv => RefusedIsNotQueued
  BY DEF ChatInv, Fits, QueueFits, Gone, RefusedIsNotQueued
<1>. QED BY <1>1, ChatInvariant, PTL

\* A turn leaves the coordinator by its own stop, end or failure: though cancel() and
\* the session pump forget whichever turn is active, no other turn has got that far
\* by then.
THEOREM LeavesByItsEnd == Spec => LeavesByItsOwnEnd
<1> DEFINE Leaving ==
      \A t \in 1 .. Len(s.turns) :
          s.active = t /\ s'.active # t /\ crashes' = crashes
              => \/ s'.turns[t].cancelled \/ s'.turns[t].closed
                 \/ s'.turns[t].phase \in {"draining", "ended"}
<1>1. ChatInv /\ [Next]_vars => [Leaving]_vars
  <2> SUFFICES ASSUME ChatInv, [Next]_vars PROVE Leaving
    OBVIOUS
  <2>. QED BY NextFits DEF Leaves, LeftByItsEnd, Turns
<1>2. Spec => [][Leaving]_vars
  BY <1>1, ChatInvariant, PTL DEF Spec
<1>. QED BY <1>2 DEF LeavesByItsOwnEnd
=============================================================================
