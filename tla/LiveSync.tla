------------------------------ MODULE LiveSync ------------------------------
(***************************************************************************)
(* One browser tab and the server: the tab's AppSocket (connections,       *)
(* heartbeat, commands with their time limit, the queue that crosses a     *)
(* reconnect) and the router's live sidebar, pushed as patches between     *)
(* revisions.  From src/client/app/socket.ts, src/server/ws-router.ts and  *)
(* src/shared/sidebar-patch.ts.                                            *)
(*                                                                         *)
(* A sidebar is a function from the ids of its rows to their contents.     *)
(* The content Twice stands for an id that appears with two contents,      *)
(* which no patch can express.  One connection exists at a time: what is   *)
(* under way when the tab sees its connection close is lost.               *)
(***************************************************************************)
EXTENDS Naturals, Sequences, FiniteSets

CONSTANTS
    Sidebars,    \* what the sidebar may look like
    First,       \* what it may look like when the tab starts
    Twice,       \* content of a row that appears twice
    Commands,    \* commands the tab issues
    None,        \* no value
    MaxChanges,  \* bound on changes of the sidebar
    MaxMounts,   \* bound on subscriptions, one after the other
    MaxFaults    \* bound on losses, dropped sends and answers that are late

VARIABLES
    ws,          \* readyState of the tab's socket, "connecting" from the start
    alive,       \* the connection still carries messages
    timer,       \* a reconnect is scheduled
    immediate,   \* reconnectImmediatelyOnClose
    ping,        \* a ping is pending
    sub,         \* id of the tab's sidebar subscription
    base,        \* the sidebar and revision that subscription holds
    shown,       \* what its listener was last given
    cmd,         \* what the callers of the commands know of them
    queue,       \* commands in outboundQueue
    sent,        \* history: how often a command was put on a connection
    c2s, s2c,    \* messages under way
    feed,        \* the subscription at the server: its signature and revision
    dirty,       \* a snapshot for the socket was dropped
    retry,       \* its retry is scheduled
    state,       \* the sidebar as it can be derived now
    hist,        \* the sidebars derived, by revision; the last is retained
    due,         \* a broadcast is owed
    loop,        \* revision cached by the broadcast under way, or 0
    changes, faults

tab == <<ws, alive, timer, immediate, ping, sub, base, shown, cmd, queue, sent>>
wire == <<c2s, s2c>>
server == <<feed, dirty, retry, hist, loop>>
vars == <<tab, wire, server, state, due, changes, faults>>

ASSUME BoundsAssumption == MaxChanges \in Nat /\ MaxMounts \in Nat \ {0} /\ MaxFaults \in Nat

ASSUME SidebarsAssumption ==
    First \subseteq Sidebars /\ \A d \in Sidebars : d = [r \in DOMAIN d |-> d[r]]

ASSUME NoneAssumption == None \notin Nat /\ None \notin [rev : Nat, data : Sidebars]

NoFeed == [id |-> 0, sig |-> None, rev |-> None]

Fault == faults < MaxFaults /\ faults' = faults + 1

---------------------------------------------------------------------------
(* Patches *)

\* indexSidebarData gives null for a sidebar that no patch can express.
Indexable(d) == \A r \in DOMAIN d : d[r] # Twice

\* diffSidebarIndex: the rows that are new or changed, and the order of all.
Patch(id, old, new, from, to) ==
    [kind |-> "patch", id |-> id, from |-> from, to |-> to, order |-> DOMAIN new,
     rows |-> [r \in {q \in DOMAIN new : q \notin DOMAIN old \/ old[q] # new[q]} |-> new[r]]]

\* What applySidebarPatch resolves rows from: a reset ignores what is held.
Held(p) == IF p.from = None \/ base = None THEN <<>> ELSE base.data

\* The patch follows what the subscription holds and names only rows either side has.
Fits(p) ==
    /\ p.from # None => base # None /\ base.rev = p.from
    /\ p.order \subseteq DOMAIN p.rows \cup DOMAIN Held(p)

Applied(p) == [r \in p.order |-> IF r \in DOMAIN p.rows THEN p.rows[r] ELSE Held(p)[r]]

---------------------------------------------------------------------------
(* The server's pushes *)

\* getSidebarSnapshotCacheEntry: the sidebar derived now is a new revision unless it
\* looks like the one retained.
Derived == IF hist # <<>> /\ hist[Len(hist)] = state THEN hist ELSE Append(hist, state)

\* What pushSnapshots may send for revision r: everything, or the difference from the
\* revision before if the subscription holds that one, whichever is shorter.
Deliveries(f, h, r) ==
    LET follows == r > 1 /\ f.rev = r - 1
        old == IF follows /\ Indexable(h[r - 1]) THEN h[r - 1] ELSE <<>>
    IN  IF Indexable(h[r])
        THEN {Patch(f.id, <<>>, h[r], None, r),
              Patch(f.id, old, h[r], IF follows THEN r - 1 ELSE None, r)}
        ELSE {[kind |-> "full", id |-> f.id, data |-> h[r]]}

Pushed(f, h, r) == [f EXCEPT !.sig = h[r], !.rev = IF Indexable(h[r]) THEN r ELSE @]

\* Messages of the server; nothing arrives over a dead connection.
Post(ms) == s2c' = IF alive THEN s2c \o ms ELSE s2c

PushUnseen(f, h, r, ms, marked, scheduled, retryDropped) ==
    /\ feed' = IF f.id = 0 THEN f ELSE Pushed(f, h, r)
    /\ dirty' = marked /\ retry' = scheduled
    /\ \/ f.id = 0 /\ Post(ms) /\ UNCHANGED faults
       \/ f.id # 0 /\ Fault /\ Post(ms)
       \/ f.id # 0 /\ (\E m \in Deliveries(f, h, r) : Post(Append(ms, m))) /\ UNCHANGED faults

\* pushSnapshots with subscription f after the messages ms: skipped when nothing
\* changed, dropped by the socket and marked for a retry, or sent and recorded.
Push(f, h, r, ms, marked, scheduled, retryDropped) ==
    \/ /\ f.id = 0 \/ f.sig = h[r]
       /\ feed' = f /\ dirty' = marked /\ retry' = scheduled
       /\ Post(ms)
       /\ UNCHANGED faults
    \/ /\ f.id # 0 /\ f.sig # h[r]
       /\ feed' = Pushed(f, h, r) /\ dirty' = marked /\ retry' = scheduled
       /\ \E m \in Deliveries(f, h, r) : Post(Append(ms, m))
       /\ UNCHANGED faults
    \/ /\ f.id # 0 /\ f.sig # h[r]
       /\ Fault
       /\ feed' = f /\ dirty' = TRUE /\ retry' = (scheduled \/ retryDropped)
       /\ Post(ms)

\* A push of what can be derived now; without a subscription nothing is.
PushNow(f, ms, marked, scheduled, retryDropped) ==
    /\ hist' = IF f.id = 0 THEN hist ELSE Derived
    /\ Push(f, hist', Len(hist'), ms, marked, scheduled, retryDropped)

\* retryDirtySnapshots, after the messages ms.
RetryDirty(ms) ==
    IF dirty
    THEN PushNow(feed, ms, FALSE, FALSE, TRUE)
    ELSE retry' = FALSE /\ Post(ms) /\ UNCHANGED <<feed, dirty, hist, faults>>

---------------------------------------------------------------------------
(* The server *)

\* The sidebar changes; whoever changed it broadcasts or schedules a broadcast.
Change(d) ==
    /\ changes < MaxChanges /\ d # state
    /\ state' = d /\ due' = TRUE /\ changes' = changes + 1
    /\ UNCHANGED <<tab, wire, server, faults>>

\* A broadcast derives the sidebar for the first socket and keeps it for the others.
\* Broadcasts run one after another, and between two sockets only microtasks run.
BroadcastBegin ==
    /\ due /\ loop = 0
    /\ hist' = Derived /\ loop' = Len(hist') /\ due' = FALSE
    /\ UNCHANGED <<tab, wire, feed, dirty, retry, state, changes, faults>>

BroadcastReach ==
    /\ loop # 0
    /\ Push(feed, hist, loop, <<>>, dirty, retry, TRUE)
    /\ loop' = 0
    /\ UNCHANGED <<tab, c2s, hist, state, due, changes>>

\* A subscription to another topic pushes every topic of the socket; the answer to one
\* for local projects does so in a microtask.
OtherTopic ==
    /\ feed.id # 0 /\ feed.sig # state
    /\ PushNow(feed, <<>>, dirty, retry, TRUE)
    /\ UNCHANGED <<tab, c2s, loop, state, due, changes>>

\* scheduleDroppedSnapshotRetry's timer: one retry that schedules no other.
RetryTimer ==
    /\ retry /\ loop = 0
    /\ IF dirty
       THEN PushNow(feed, <<>>, FALSE, FALSE, FALSE)
       ELSE retry' = FALSE /\ UNCHANGED <<feed, dirty, hist, faults, s2c>>
    /\ UNCHANGED <<tab, c2s, loop, state, due, changes>>

Drain ==
    /\ dirty /\ loop = 0
    /\ RetryDirty(<<>>)
    /\ UNCHANGED <<tab, c2s, loop, state, due, changes>>

Next1(kind) == c2s # <<>> /\ Head(c2s).kind = kind /\ c2s' = Tail(c2s) /\ loop = 0

HandleSubscribe ==
    /\ Next1("subscribe")
    /\ PushNow([NoFeed EXCEPT !.id = Head(c2s).id], <<>>, dirty, retry, TRUE)
    /\ UNCHANGED <<tab, loop, state, due, changes>>

HandleUnsubscribe ==
    /\ Next1("unsubscribe")
    /\ feed' = IF feed.id = Head(c2s).id THEN NoFeed ELSE feed
    /\ UNCHANGED <<tab, s2c, dirty, retry, hist, loop, state, due, changes, faults>>

HandlePingOnly ==
    /\ Next1("ping")
    /\ Post(<<[kind |-> "answer", of |-> "ping"]>>)
    /\ UNCHANGED <<tab, server, state, due, changes, faults>>

\* system.ping is acknowledged and repairs what was dropped for the socket.
HandlePing ==
    /\ Next1("ping")
    /\ RetryDirty(<<[kind |-> "answer", of |-> "ping"]>>)
    /\ UNCHANGED <<tab, loop, state, due, changes>>

\* A command is executed, or refused; either is answered, unless the socket drops it.
HandleCommand ==
    /\ Next1("command")
    /\ \/ Post(<<[kind |-> "answer", of |-> Head(c2s).cmd]>>) /\ UNCHANGED faults
       \/ Fault /\ UNCHANGED s2c
    /\ UNCHANGED <<tab, server, state, due, changes>>

---------------------------------------------------------------------------
(* The tab *)

\* sendNow, while the socket is open.
Send(ms) == c2s' = IF alive THEN c2s \o ms ELSE c2s

Subscribe == [kind |-> "subscribe", id |-> sub]
Envelope(k) == [kind |-> "command", cmd |-> k]

\* reconnectNow: dials when there is no socket, else closes it and dials after that.
ReconnectNow ==
    /\ timer' = FALSE
    /\ ws' = CASE ws = "closed" -> "connecting" [] ws = "open" -> "closing" [] OTHER -> ws
    /\ immediate' = (immediate \/ ws \in {"open", "closing"})

\* The "open" event: every topic is subscribed again, then the commands still pending
\* are sent; a command that was reported failed is dropped from the queue.
FlushedAll == queue

Flushed ==
    LET kept[i \in 0 .. Len(queue)] ==
            IF i = 0 THEN <<>>
            ELSE IF cmd[queue[i]] = "pending" THEN Append(kept[i - 1], queue[i])
            ELSE kept[i - 1]
    IN  kept[Len(queue)]

Open ==
    /\ ws = "connecting"
    /\ ws' = "open" /\ alive' = TRUE /\ immediate' = FALSE /\ queue' = <<>>
    /\ c2s' = <<Subscribe>> \o [i \in DOMAIN Flushed |-> Envelope(Flushed[i])]
    /\ sent' = [k \in Commands |-> sent[k] + Cardinality({i \in DOMAIN Flushed : Flushed[i] = k})]
    /\ UNCHANGED <<timer, ping, sub, base, shown, cmd, s2c, server, state, due, changes, faults>>

\* The connection dies without either side being told.
Die ==
    /\ ws = "open" /\ alive
    /\ Fault
    /\ alive' = FALSE
    /\ UNCHANGED <<ws, timer, immediate, ping, sub, base, shown, cmd, queue, sent, wire,
                   server, state, due, changes>>

\* The "close" event of the tab and handleClose of the router.  Callers are told that
\* their commands failed; a pending ping reconnects at once.
Close ==
    /\ \/ ws = "closing" /\ UNCHANGED faults
       \/ ws = "open" /\ ~alive /\ UNCHANGED faults
       \/ ws = "connecting" /\ Fault
    /\ IF immediate \/ ping
       THEN ws' = "connecting" /\ UNCHANGED timer
       ELSE ws' = "closed" /\ timer' = TRUE
    /\ immediate' = FALSE /\ ping' = FALSE /\ alive' = FALSE
    /\ cmd' = [k \in Commands |-> IF cmd[k] = "pending" THEN "settled" ELSE cmd[k]]
    /\ c2s' = <<>> /\ s2c' = <<>>
    /\ feed' = NoFeed /\ dirty' = FALSE /\ retry' = FALSE
    /\ UNCHANGED <<sub, base, shown, queue, sent, hist, loop, state, due, changes>>

ReconnectTimer ==
    /\ timer
    /\ timer' = FALSE /\ ws' = "connecting"
    /\ UNCHANGED <<alive, immediate, ping, sub, base, shown, cmd, queue, sent, wire, server,
                   state, due, changes, faults>>

\* ensureHealthyConnection, on a heartbeat, focus, visibility or network change: dials,
\* or pings a connection over which nothing has come for a while.
EnsureHealthy ==
    /\ \/ ws \in {"closed", "closing"} /\ ReconnectNow /\ UNCHANGED <<ping, c2s>>
       \/ /\ ws = "open" /\ s2c = <<>> /\ ~ping
          /\ ping' = TRUE /\ Send(<<[kind |-> "ping"]>>)
          /\ UNCHANGED <<ws, timer, immediate>>
    /\ UNCHANGED <<alive, sub, base, shown, cmd, queue, sent, s2c, server, state, due,
                   changes, faults>>

\* An answer is still under way over a living connection.
Coming(kind, k) ==
    /\ alive
    /\ \/ \E i \in DOMAIN c2s : c2s[i] = kind
       \/ \E i \in DOMAIN s2c : s2c[i] = [kind |-> "answer", of |-> k]

\* A time limit passes: the answer cannot come any more, or it is late.
Late(kind, k) == IF Coming(kind, k) THEN Fault ELSE UNCHANGED faults

\* The ping stays among the pending commands until the connection closes.
PingTimeout ==
    /\ ws = "open" /\ ping
    /\ Late([kind |-> "ping"], "ping")
    /\ ReconnectNow
    /\ UNCHANGED <<alive, ping, sub, base, shown, cmd, queue, sent, wire, server, state,
                   due, changes>>

\* dispatchCommand: the command is sent, or waits in the queue for a connection.
Command(k) ==
    /\ cmd[k] = "new"
    /\ cmd' = [cmd EXCEPT ![k] = "pending"]
    /\ IF ws = "open"
       THEN Send(<<Envelope(k)>>) /\ sent' = [sent EXCEPT ![k] = @ + 1] /\ UNCHANGED queue
       ELSE queue' = Append(queue, k) /\ UNCHANGED <<c2s, sent>>
    /\ UNCHANGED <<ws, alive, timer, immediate, ping, sub, base, shown, s2c, server, state,
                   due, changes, faults>>

\* The acknowledgement did not come in time: the caller is told and the tab reconnects.
AckTimeout(k) ==
    /\ cmd[k] = "pending"
    /\ Late(Envelope(k), k)
    /\ cmd' = [cmd EXCEPT ![k] = "settled"]
    /\ ReconnectNow
    /\ UNCHANGED <<alive, ping, sub, base, shown, queue, sent, wire, server, state, due,
                   changes>>

Receive1(kind) == ws = "open" /\ s2c # <<>> /\ Head(s2c).kind = kind /\ s2c' = Tail(s2c)

\* A patch is applied when it fits; else the tab forgets its base and subscribes again.
ReceivePatch ==
    /\ Receive1("patch")
    /\ LET p == Head(s2c)
       IN  \/ p.id # sub /\ UNCHANGED <<base, shown, c2s>>
           \/ /\ p.id = sub
              /\ IF Fits(p)
                 THEN /\ base' = [rev |-> p.to, data |-> Applied(p)]
                      /\ shown' = Applied(p)
                      /\ UNCHANGED c2s
                 ELSE base' = None /\ Send(<<Subscribe>>) /\ UNCHANGED shown
    /\ UNCHANGED <<ws, alive, timer, immediate, ping, sub, cmd, queue, sent, server, state,
                   due, changes, faults>>

\* A whole sidebar goes to the listener; the base stays what it was.
ReceiveFull ==
    /\ Receive1("full")
    /\ shown' = IF Head(s2c).id = sub THEN Head(s2c).data ELSE shown
    /\ UNCHANGED <<ws, alive, timer, immediate, ping, sub, base, cmd, queue, sent, c2s,
                   server, state, due, changes, faults>>

\* An answer settles what is still pending; a late one is ignored.
ReceiveAnswer ==
    /\ Receive1("answer")
    /\ ping' = (ping /\ Head(s2c).of # "ping")
    /\ cmd' = [k \in Commands |-> IF k = Head(s2c).of THEN "settled" ELSE cmd[k]]
    /\ UNCHANGED <<ws, alive, timer, immediate, sub, base, shown, queue, sent, c2s, server,
                   state, due, changes, faults>>

\* The view is mounted again: its subscription ends and another begins.  Requests that
\* wait in the queue are stale when the connection opens, so none are kept.
Remount ==
    /\ sub < MaxMounts
    /\ sub' = sub + 1 /\ base' = None
    /\ IF ws = "open"
       THEN Send(<<[kind |-> "unsubscribe", id |-> sub], [kind |-> "subscribe", id |-> sub + 1]>>)
       ELSE UNCHANGED c2s
    /\ UNCHANGED <<ws, alive, timer, immediate, ping, shown, cmd, queue, sent, s2c, server,
                   state, due, changes, faults>>

---------------------------------------------------------------------------

Init ==
    /\ ws = "connecting" /\ alive = FALSE /\ timer = FALSE /\ immediate = FALSE /\ ping = FALSE
    /\ sub = 1 /\ base = None /\ shown = None
    /\ cmd = [k \in Commands |-> "new"] /\ queue = <<>> /\ sent = [k \in Commands |-> 0]
    /\ c2s = <<>> /\ s2c = <<>>
    /\ feed = NoFeed /\ dirty = FALSE /\ retry = FALSE
    /\ state \in First /\ hist = <<>> /\ due = FALSE /\ loop = 0
    /\ changes = 0 /\ faults = 0

Handle == HandleSubscribe \/ HandleUnsubscribe \/ HandlePing \/ HandleCommand
Receive == ReceivePatch \/ ReceiveFull \/ ReceiveAnswer

Next ==
    \/ \E d \in Sidebars : Change(d)
    \/ BroadcastBegin \/ BroadcastReach \/ OtherTopic \/ RetryTimer \/ Drain \/ Handle
    \/ Open \/ Die \/ Close \/ ReconnectTimer \/ EnsureHealthy \/ PingTimeout
    \/ \E k \in Commands : Command(k) \/ AckTimeout(k)
    \/ Receive \/ Remount

\* Timers fire, messages arrive or time out, a closing socket closes.  Connections need
\* not die, the socket need not drain, nobody need issue a command.
Fairness ==
    /\ WF_vars(BroadcastBegin) /\ WF_vars(BroadcastReach) /\ WF_vars(RetryTimer)
    /\ WF_vars(Handle) /\ WF_vars(Receive)
    /\ WF_vars(Open) /\ WF_vars(ws = "closing" /\ Close) /\ WF_vars(ReconnectTimer)
    /\ WF_vars(EnsureHealthy) /\ WF_vars(PingTimeout)

Spec == Init /\ [][Next]_vars /\ Fairness

---------------------------------------------------------------------------
(* Properties *)

Revisions == 1 .. MaxChanges + 1

TypeOK ==
    /\ ws \in {"connecting", "open", "closing", "closed"}
    /\ {alive, timer, immediate, ping, dirty, retry, due} \subseteq BOOLEAN
    /\ sub \in 1 .. MaxMounts
    /\ base = None \/ base \in [rev : Revisions, data : Sidebars]
    /\ shown = None \/ shown \in Sidebars
    /\ cmd \in [Commands -> {"new", "pending", "settled"}]
    /\ queue \in Seq(Commands) /\ sent \in [Commands -> Nat]
    /\ feed \in [id : 0 .. MaxMounts, sig : Sidebars \cup {None}, rev : Revisions \cup {None}]
    /\ state \in Sidebars /\ hist \in Seq(Sidebars) /\ loop \in 0 .. Len(hist)

\* A patch of subscription id.
IsFor(m, id) == m.kind = "patch" /\ m.id = id

\* After the first n messages of q the subscription, if it holds b now, holds revision rev.
HoldsThen(q, n, id, b, rev) ==
    \/ b # None /\ b.rev = rev /\ \A j \in 1 .. n : ~IsFor(q[j], id)
    \/ \E j \in 1 .. n : IsFor(q[j], id) /\ q[j].to = rev /\ \A h \in j + 1 .. n : ~IsFor(q[h], id)

\* Every patch of q starts from what the subscription holds when the patch arrives.
Chained(q, id, b) ==
    \A i \in DOMAIN q : IsFor(q[i], id) /\ q[i].from # None => HoldsThen(q, i - 1, id, b, q[i].from)

\* Every patch under way follows what the tab will hold when it arrives: the fallback
\* (socket.ts:365) that subscribes again is never needed, whatever the socket drops.
PatchesFit == ws = "open" => Chained(s2c, sub, base)

\* A command goes over a connection at most once, and only while its caller waits: what
\* was reported failed is not replayed by a reconnect (socket.ts:308).
SentWhileAwaited ==
    [][\A k \in Commands : sent'[k] # sent[k] =>
          sent'[k] = 1 /\ cmd[k] \in {"new", "pending"} /\ cmd'[k] = "pending"]_vars

\* Once nothing changes and nothing fails any more the tab shows the sidebar as it is:
\* dropped snapshots, dead connections and broadcasts of an older sidebar are repaired.
SidebarCatchesUp == <>[](shown = state)
=============================================================================
