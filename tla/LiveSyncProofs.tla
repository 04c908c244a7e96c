-------------------------- MODULE LiveSyncProofs --------------------------
(***************************************************************************)
(* What the live sidebar promises whatever the sidebars, the commands and  *)
(* the bounds are: the types, that every patch under way fits what the tab *)
(* will hold when it arrives, and that a command goes over a connection at *)
(* most once and only while its caller waits.                              *)
(*                                                                         *)
(* The invariant follows a revision from the server's retained sidebars    *)
(* over the connection to the tab.  Every patch under way was made from    *)
(* the revisions it names; what the tab holds is the sidebar derived at    *)
(* the revision it names; and as long as the connection lives, the         *)
(* revision the server remembers for the tab's subscription is the one the *)
(* tab will hold once everything under way has arrived.  Subscriptions are *)
(* numbered, so a message of an earlier one never counts for the present   *)
(* one, and the server knows of no later one.                              *)
(***************************************************************************)
EXTENDS LiveSync, FiniteSetTheorems, NaturalsInduction, WellFoundedInduction, TLAPS

---------------------------------------------------------------------------
(* The invariant *)

\* What the tab sends: requests about subscriptions it has had, pings and commands.
Requests(last) ==
    [kind : {"subscribe", "unsubscribe"}, id : 1 .. last]
        \cup [kind : {"ping"}] \cup [kind : {"command"}, cmd : Commands]

\* The patch between two of the revisions h; without a first one it is a reset.
PatchOf(h, i, from, to) == Patch(i, IF from = None THEN <<>> ELSE h[from], h[to], from, to)

\* What the server sends after deriving the revisions h.
Patches(h, last) ==
    {PatchOf(h, i, from, to) : i \in 1 .. last, from \in (1 .. Len(h)) \cup {None}, to \in 1 .. Len(h)}
Fulls(last) == [kind : {"full"}, id : 1 .. last, data : Sidebars]
Answers == [kind : {"answer"}, of : Commands \cup {"ping"}]
Pushes(h, last) == Patches(h, last) \cup Fulls(last) \cup Answers

\* The subscription b of the tab holds the sidebar of its revision.
Holds(b, h) == b # None => b.rev \in 1 .. Len(h) /\ b.data = h[b.rev] /\ b = [rev |-> b.rev, data |-> b.data]

\* The server knows of no subscription the tab has not made, and remembers only
\* revisions that a patch can express.
FeedTyped(f, h, last) ==
    /\ f \in [id : 0 .. last, sig : Sidebars \cup {None}, rev : (1 .. Len(h)) \cup {None}]
    /\ f.rev # None => Indexable(h[f.rev])

\* What it remembers for the tab's subscription is what the tab will hold.
FeedFollows(f, q, id, b, live) ==
    live /\ f.id = id /\ f.rev # None => HoldsThen(q, Len(q), id, b, f.rev)

\* The sidebars derived, and the changes they took.
Revised(h, d, n) ==
    /\ h \in Seq(Sidebars)
    /\ Len(h) <= n + 1
    /\ Len(h) > n => h[Len(h)] = d

Wired ==
    /\ s2c \in Seq(Pushes(hist, sub))
    /\ c2s \in Seq(Requests(sub))
    /\ Chained(s2c, sub, base)
    /\ Holds(base, hist)
    /\ FeedTyped(feed, hist, sub)
    /\ FeedFollows(feed, s2c, sub, base, alive)

\* Without a connection nothing is under way and nothing is subscribed.
Connected ==
    /\ ws \in {"connecting", "closed"} => c2s = <<>> /\ feed.id = 0
    /\ timer => ws = "closed"

\* A queued command was never sent, and is queued once.
QueueFits(q, c, n) ==
    /\ \A i \in DOMAIN q : c[q[i]] # "new" /\ n[q[i]] = 0
    /\ \A i, j \in DOMAIN q : q[i] = q[j] => i = j
    /\ \A k \in Commands : c[k] = "new" => n[k] = 0

Counted == changes \in 0 .. MaxChanges /\ Revised(hist, state, changes)

LiveInv == TypeOK /\ Wired /\ Connected /\ QueueFits(queue, cmd, sent) /\ Counted

---------------------------------------------------------------------------
(* Revisions followed along a sequence of messages *)

\* What the first n messages leave is decided by those n messages.
LEMMA HoldsOnPrefix ==
    ASSUME NEW q, NEW p, NEW n \in Nat, NEW id, NEW b, NEW rev,
           \A i \in 1 .. n : p[i] = q[i],
           HoldsThen(q, n, id, b, rev)
    PROVE  HoldsThen(p, n, id, b, rev)
<1>1. CASE b # None /\ b.rev = rev /\ \A j \in 1 .. n : ~IsFor(q[j], id)
  BY <1>1 DEF HoldsThen
<1>2. CASE \E j \in 1 .. n : IsFor(q[j], id) /\ q[j].to = rev /\ \A h \in j + 1 .. n : ~IsFor(q[h], id)
  <2>1. PICK j \in 1 .. n : IsFor(q[j], id) /\ q[j].to = rev /\ \A h \in j + 1 .. n : ~IsFor(q[h], id)
    BY <1>2
  <2>2. \A h \in j + 1 .. n : h \in 1 .. n
    BY <2>1
  <2>3. \A h \in j + 1 .. n : ~IsFor(p[h], id)
    BY <2>1, <2>2
  <2>4. IsFor(p[j], id) /\ p[j].to = rev
    BY <2>1
  <2>. QED BY <2>3, <2>4 DEF HoldsThen
<1>. QED BY <1>1, <1>2 DEF HoldsThen

\* A patch sets the revision held, another message leaves it.
LEMMA HoldsAfterAppend ==
    ASSUME NEW S, NEW q \in Seq(S), NEW m \in S, NEW id, NEW b, NEW rev,
           IsFor(m, id) => m.to = rev,
           ~IsFor(m, id) => HoldsThen(q, Len(q), id, b, rev)
    PROVE  HoldsThen(Append(q, m), Len(Append(q, m)), id, b, rev)
<1> DEFINE n == Len(q)
           p == Append(q, m)
<1>1. n \in Nat /\ Len(p) = n + 1 /\ p[n + 1] = m /\ \A i \in 1 .. n : p[i] = q[i]
  OBVIOUS
<1> HIDE DEF n, p
<1>2. CASE IsFor(m, id)
  <2>1. n + 1 \in 1 .. n + 1 /\ \A h \in n + 1 + 1 .. n + 1 : FALSE
    BY <1>1
  <2>2. IsFor(p[n + 1], id) /\ p[n + 1].to = rev
    BY <1>1, <1>2
  <2>. QED BY <1>1, <2>1, <2>2 DEF HoldsThen, p
<1>3. CASE ~IsFor(m, id)
  <2>1. HoldsThen(p, n, id, b, rev)
    <3>1. HoldsThen(q, n, id, b, rev)
      BY <1>3 DEF n
    <3>. QED BY <1>1, <3>1, HoldsOnPrefix
  <2>2. CASE b # None /\ b.rev = rev /\ \A j \in 1 .. n : ~IsFor(p[j], id)
    <3>1. \A j \in 1 .. n + 1 : ~IsFor(p[j], id)
      <4>1. \A j \in 1 .. n + 1 : j \in 1 .. n \/ j = n + 1
        BY <1>1
      <4>. QED BY <1>1, <1>3, <2>2, <4>1
    <3>. QED BY <1>1, <2>2, <3>1 DEF HoldsThen, p
  <2>3. CASE \E j \in 1 .. n : IsFor(p[j], id) /\ p[j].to = rev /\ \A h \in j + 1 .. n : ~IsFor(p[h], id)
    <3>1. PICK j \in 1 .. n : IsFor(p[j], id) /\ p[j].to = rev /\ \A h \in j + 1 .. n : ~IsFor(p[h], id)
      BY <2>3
    <3>2. \A h \in j + 1 .. n + 1 : h \in j + 1 .. n \/ h = n + 1
      BY <1>1
    <3>3. \A h \in j + 1 .. n + 1 : ~IsFor(p[h], id)
      BY <1>1, <1>3, <3>1, <3>2
    <3>4. j \in 1 .. n + 1
      BY <1>1
    <3>. QED BY <1>1, <3>1, <3>3, <3>4 DEF HoldsThen, p
  <2>. QED BY <2>1, <2>2, <2>3 DEF HoldsThen
<1>. QED BY <1>2, <1>3

\* A message that starts from the revision held keeps the chain.
LEMMA ChainedAppend ==
    ASSUME NEW S, NEW q \in Seq(S), NEW m \in S, NEW id, NEW b,
           Chained(q, id, b),
           IsFor(m, id) /\ m.from # None => HoldsThen(q, Len(q), id, b, m.from)
    PROVE  Chained(Append(q, m), id, b)
<1> DEFINE n == Len(q)
           p == Append(q, m)
<1>1. n \in Nat /\ DOMAIN q = 1 .. n /\ DOMAIN p = 1 .. n + 1 /\ p[n + 1] = m /\ \A i \in 1 .. n : p[i] = q[i]
  OBVIOUS
<1>2. IsFor(m, id) /\ m.from # None => HoldsThen(q, n, id, b, m.from)
  OBVIOUS
<1> HIDE DEF n, p
<1>3. ASSUME NEW i \in DOMAIN p, IsFor(p[i], id), p[i].from # None
      PROVE  HoldsThen(p, i - 1, id, b, p[i].from)
  <2>1. i \in 1 .. n \/ i = n + 1
    BY <1>1
  <2>2. i - 1 \in Nat /\ i - 1 <= n /\ \A j \in 1 .. i - 1 : p[j] = q[j]
    BY <1>1
  <2>3. HoldsThen(q, i - 1, id, b, p[i].from)
    <3>1. CASE i \in 1 .. n
      BY <1>1, <1>3, <3>1 DEF Chained
    <3>2. CASE i = n + 1
      BY <1>1, <1>2, <1>3, <3>2
    <3>. QED BY <2>1, <3>1, <3>2
  <2>. QED BY <2>2, <2>3, HoldsOnPrefix
<1>. QED BY <1>3 DEF Chained, p

\* Receiving the first message moves every position by one; if it is a patch of the
\* subscription, what is held afterwards is its revision.
LEMMA HoldsAfterHead ==
    ASSUME NEW S, NEW q \in Seq(S), q # <<>>, NEW n \in 1 .. Len(q), NEW id, NEW b, NEW c, NEW rev,
           HoldsThen(q, n, id, b, rev),
           IF IsFor(Head(q), id) THEN c # None /\ c.rev = Head(q).to ELSE c = b
    PROVE  HoldsThen(Tail(q), n - 1, id, c, rev)
<1> DEFINE p == Tail(q)
<1>1. n - 1 \in Nat /\ Head(q) = q[1] /\ \A i \in 1 .. n - 1 : p[i] = q[i + 1]
  OBVIOUS
<1>2. IF IsFor(q[1], id) THEN c # None /\ c.rev = q[1].to ELSE c = b
  BY <1>1
<1> HIDE DEF p
<1>3. CASE b # None /\ b.rev = rev /\ \A j \in 1 .. n : ~IsFor(q[j], id)
  <2>1. 1 \in 1 .. n /\ \A j \in 1 .. n - 1 : j + 1 \in 1 .. n
    OBVIOUS
  <2>2. c = b
    BY <1>2, <1>3, <2>1
  <2>3. \A j \in 1 .. n - 1 : ~IsFor(p[j], id)
    BY <1>1, <1>3, <2>1
  <2>. QED BY <1>3, <2>2, <2>3 DEF HoldsThen, p
<1>4. CASE \E j \in 1 .. n : IsFor(q[j], id) /\ q[j].to = rev /\ \A h \in j + 1 .. n : ~IsFor(q[h], id)
  <2>1. PICK j \in 1 .. n : IsFor(q[j], id) /\ q[j].to = rev /\ \A h \in j + 1 .. n : ~IsFor(q[h], id)
    BY <1>4
  <2>2. CASE j = 1
    <3>1. c # None /\ c.rev = rev
      BY <1>2, <2>1, <2>2
    <3>2. \A h \in 1 .. n - 1 : h + 1 \in j + 1 .. n
      BY <2>2
    <3>3. \A h \in 1 .. n - 1 : ~IsFor(p[h], id)
      BY <1>1, <2>1, <3>2
    <3>. QED BY <3>1, <3>3 DEF HoldsThen, p
  <2>3. CASE j # 1
    <3>1. j - 1 \in 1 .. n - 1 /\ j - 1 + 1 = j
      BY <2>3
    <3>2. \A h \in j - 1 + 1 .. n - 1 : h \in 1 .. n - 1 /\ h + 1 \in j + 1 .. n
      BY <2>3
    <3>3. \A h \in j - 1 + 1 .. n - 1 : ~IsFor(p[h], id)
      BY <1>1, <2>1, <3>2
    <3>4. IsFor(p[j - 1], id) /\ p[j - 1].to = rev
      BY <1>1, <2>1, <3>1
    <3>. QED BY <3>1, <3>3, <3>4 DEF HoldsThen, p
  <2>. QED BY <2>2, <2>3
<1>. QED BY <1>3, <1>4 DEF HoldsThen

LEMMA ChainedTail ==
    ASSUME NEW S, NEW q \in Seq(S), q # <<>>, NEW id, NEW b, NEW c,
           Chained(q, id, b),
           IF IsFor(Head(q), id) THEN c # None /\ c.rev = Head(q).to ELSE c = b
    PROVE  Chained(Tail(q), id, c)
<1>1. ASSUME NEW i \in DOMAIN Tail(q), IsFor(Tail(q)[i], id), Tail(q)[i].from # None
      PROVE  HoldsThen(Tail(q), i - 1, id, c, Tail(q)[i].from)
  <2>1. i \in Nat /\ i + 1 \in DOMAIN q /\ Tail(q)[i] = q[i + 1] /\ i \in 1 .. Len(q) /\ i + 1 - 1 = i
    OBVIOUS
  <2>2. HoldsThen(q, i + 1 - 1, id, b, Tail(q)[i].from)
    BY <1>1, <2>1 DEF Chained
  <2>3. HoldsThen(q, i, id, b, Tail(q)[i].from)
    BY <2>1, <2>2
  <2>. QED BY <2>1, <2>3, HoldsAfterHead
<1>. QED BY <1>1 DEF Chained

\* A subscription of which nothing is under way has nothing to follow.
LEMMA ChainedWithout ==
    ASSUME NEW q, NEW id, NEW b, \A i \in DOMAIN q : ~IsFor(q[i], id)
    PROVE  Chained(q, id, b)
BY DEF Chained

---------------------------------------------------------------------------
(* Messages and revisions *)

\* The revisions h continue as g.
Continues(h, g) == Len(h) <= Len(g) /\ \A i \in 1 .. Len(h) : g[i] = h[i]

LEMMA InPatches ==
    ASSUME NEW h, NEW last, NEW m
    PROVE  m \in Patches(h, last) <=>
             \E i \in 1 .. last, from \in (1 .. Len(h)) \cup {None}, to \in 1 .. Len(h) : m = PatchOf(h, i, from, to)
BY SMTT(30) DEF Patches

\* What could be sent before can still be under way when more is derived or subscribed.
LEMMA PushesGrow ==
    ASSUME NEW h \in Seq(Sidebars), NEW g \in Seq(Sidebars), Continues(h, g),
           NEW last \in Nat, NEW later \in Nat, last <= later
    PROVE  Pushes(h, last) \subseteq Pushes(g, later)
<1>1. ASSUME NEW i \in 1 .. last, NEW from \in (1 .. Len(h)) \cup {None}, NEW to \in 1 .. Len(h)
      PROVE  PatchOf(h, i, from, to) \in Patches(g, later)
  <2>1. i \in 1 .. later /\ from \in (1 .. Len(g)) \cup {None} /\ to \in 1 .. Len(g)
    BY DEF Continues
  <2>2. g[to] = h[to] /\ (from # None => g[from] = h[from])
    BY DEF Continues
  <2>3. PatchOf(h, i, from, to) = PatchOf(g, i, from, to)
    <3>1. CASE from = None
      BY <2>2, <3>1 DEF PatchOf
    <3>2. CASE from # None
      BY <2>2, <3>2 DEF PatchOf
    <3>. QED BY <3>1, <3>2
  <2>4. PatchOf(g, i, from, to) \in Patches(g, later)
    BY <2>1, InPatches, ZenonT(30)
  <2>. QED BY <2>3, <2>4
<1>2. ASSUME NEW m \in Patches(h, last) PROVE m \in Patches(g, later)
  <2>1. PICK i \in 1 .. last, from \in (1 .. Len(h)) \cup {None}, to \in 1 .. Len(h) : m = PatchOf(h, i, from, to)
    BY <1>2, InPatches, SMTT(30)
  <2>. QED BY <1>1, <2>1
<1>3. Fulls(last) \subseteq Fulls(later)
  BY DEF Fulls
<1>. QED BY <1>2, <1>3 DEF Pushes

\* The sidebar derived now is the last revision; earlier revisions stay.
LEMMA DerivedContinues ==
    ASSUME state \in Sidebars, NEW n \in Nat, Revised(hist, state, n)
    PROVE  /\ Revised(Derived, state, n)
           /\ Continues(hist, Derived)
           /\ Len(Derived) \in 1 .. Len(Derived)
<1>1. hist \in Seq(Sidebars) /\ Len(hist) \in Nat /\ Len(hist) <= n + 1 /\ (Len(hist) > n => hist[Len(hist)] = state)
  BY DEF Revised
<1>2. CASE hist # <<>> /\ hist[Len(hist)] = state
  <2>1. Derived = hist /\ Len(hist) >= 1
    BY <1>1, <1>2 DEF Derived
  <2>. QED BY <1>1, <2>1 DEF Revised, Continues
<1>3. CASE ~(hist # <<>> /\ hist[Len(hist)] = state)
  <2>1. Derived = Append(hist, state)
    BY <1>3 DEF Derived
  <2>2. Len(hist) <= n
    <3>1. CASE hist = <<>>
      BY <3>1
    <3>2. CASE hist[Len(hist)] # state
      BY <1>1, <3>2
    <3>. QED BY <1>3, <3>1, <3>2
  <2>3. /\ Append(hist, state) \in Seq(Sidebars)
        /\ Len(Append(hist, state)) = Len(hist) + 1
        /\ Append(hist, state)[Len(hist) + 1] = state
        /\ \A i \in 1 .. Len(hist) : Append(hist, state)[i] = hist[i]
    BY <1>1
  <2> DEFINE g == Append(hist, state)
  <2>4. g = Derived /\ g \in Seq(Sidebars) /\ Len(g) = Len(hist) + 1 /\ g[Len(g)] = state
        /\ \A i \in 1 .. Len(hist) : g[i] = hist[i]
    BY <2>1, <2>3
  <2> HIDE DEF g
  <2>. QED BY <1>1, <2>2, <2>4 DEF Revised, Continues
<1>. QED BY <1>2, <1>3

\* What is remembered of earlier revisions stays true as more are derived.
LEMMA RememberedContinues ==
    ASSUME NEW h \in Seq(Sidebars), NEW g \in Seq(Sidebars), Continues(h, g),
           NEW last \in Nat, NEW later \in Nat, last <= later, NEW f, NEW b
    PROVE  /\ FeedTyped(f, h, last) => FeedTyped(f, g, later)
           /\ Holds(b, h) => Holds(b, g)
<1>1. FeedTyped(f, h, last) => FeedTyped(f, g, later)
  <2>1. SUFFICES ASSUME FeedTyped(f, h, last) PROVE FeedTyped(f, g, later)
    OBVIOUS
  <2>2. f \in [id : 0 .. last, sig : Sidebars \cup {None}, rev : (1 .. Len(h)) \cup {None}]
    BY <2>1 DEF FeedTyped
  <2>3. f \in [id : 0 .. later, sig : Sidebars \cup {None}, rev : (1 .. Len(g)) \cup {None}]
    BY <2>2 DEF Continues
  <2>4. f.rev # None => g[f.rev] = h[f.rev]
    BY <2>2 DEF Continues
  <2>. QED BY <2>1, <2>3, <2>4 DEF FeedTyped
<1>2. Holds(b, h) => Holds(b, g)
  BY DEF Holds, Continues
<1>. QED BY <1>1, <1>2

\* What may be sent for revision r is for the subscription, leads to r, and is a patch
\* only if a patch can express the sidebar; it starts from nothing or from what the
\* server remembers.
LEMMA DeliveryFits ==
    ASSUME NEW h \in Seq(Sidebars), NEW last \in Nat, NEW f, FeedTyped(f, h, last), f.id # 0,
           NEW r \in 1 .. Len(h), NEW m \in Deliveries(f, h, r)
    PROVE  /\ m \in Pushes(h, last)
           /\ \A id : IsFor(m, id) => id = f.id
           /\ IF Indexable(h[r])
              THEN IsFor(m, f.id) /\ m.to = r /\ (m.from # None => m.from = f.rev /\ f.rev # None)
              ELSE ~IsFor(m, f.id)
<1> DEFINE follows == r > 1 /\ f.rev = r - 1
           from == IF follows THEN r - 1 ELSE None
           old == IF follows /\ Indexable(h[r - 1]) THEN h[r - 1] ELSE <<>>
<1>1. f.id \in 1 .. last /\ f.rev \in (1 .. Len(h)) \cup {None} /\ (f.rev # None => Indexable(h[f.rev]))
  BY DEF FeedTyped
<1>2. r \in Nat /\ r - 1 # None /\ (follows => f.rev # None /\ f.rev = r - 1 /\ r - 1 \in 1 .. Len(h))
  <2>1. r \in Nat /\ (r > 1 => r - 1 \in Nat /\ r - 1 \in 1 .. Len(h))
    OBVIOUS
  <2>2. r - 1 # None
    <3>1. CASE r > 1
      BY <2>1, <3>1, NoneAssumption
    <3>2. CASE ~(r > 1)
      <4>1. r - 1 = 0 /\ 0 \in Nat
        BY <2>1, <3>2
      <4>. QED BY <4>1, NoneAssumption
    <3>. QED BY <3>1, <3>2
  <2>. QED BY <2>1, <2>2
<1>3. CASE Indexable(h[r])
  <2>1. old = IF from = None THEN <<>> ELSE h[from]
    BY <1>1, <1>2
  <2>2. from \in (1 .. Len(h)) \cup {None} /\ (from # None => from = f.rev /\ f.rev # None)
    BY <1>2
  <2>3. m = PatchOf(h, f.id, None, r) \/ m = PatchOf(h, f.id, from, r)
    <3>1. m \in {Patch(f.id, <<>>, h[r], None, r), Patch(f.id, old, h[r], from, r)}
      BY <1>3 DEF Deliveries
    <3>2. PatchOf(h, f.id, None, r) = Patch(f.id, <<>>, h[r], None, r)
      BY DEF PatchOf
    <3>3. PatchOf(h, f.id, from, r) = Patch(f.id, old, h[r], from, r)
      <4> HIDE DEF old, from
      <4>. QED BY <2>1 DEF PatchOf
    <3> HIDE DEF old, from
    <3>. QED BY <3>1, <3>2, <3>3
  <2> HIDE DEF follows, from, old
  <2>4. ASSUME NEW g \in (1 .. Len(h)) \cup {None}, m = PatchOf(h, f.id, g, r)
        PROVE  m \in Patches(h, last) /\ m.kind = "patch" /\ m.id = f.id /\ m.to = r /\ m.from = g
    <3>1. m \in Patches(h, last)
      BY <1>1, <2>4 DEF Patches
    <3>2. m.kind = "patch" /\ m.id = f.id /\ m.to = r /\ m.from = g
      BY <2>4 DEF PatchOf, Patch
    <3>. QED BY <3>1, <3>2
  <2>5. m \in Patches(h, last) /\ m.kind = "patch" /\ m.id = f.id /\ m.to = r /\ m.from \in {None, from}
    BY <2>2, <2>3, <2>4
  <2>. QED BY <1>3, <2>2, <2>5 DEF IsFor, Pushes
<1>4. CASE ~Indexable(h[r])
  <2>1. m = [kind |-> "full", id |-> f.id, data |-> h[r]]
    BY <1>4 DEF Deliveries
  <2>2. m \in Fulls(last)
    BY <1>1, <2>1 DEF Fulls
  <2>3. m.kind # "patch"
    BY <2>1
  <2>. QED BY <1>4, <2>2, <2>3 DEF IsFor, Pushes
<1>. QED BY <1>3, <1>4

---------------------------------------------------------------------------
(* The server's pushes *)

Pong == [kind |-> "answer", of |-> "ping"]

\* An answer under way changes nothing about the patches.
LEMMA AnswerFits ==
    ASSUME NEW h, NEW last, NEW q \in Seq(Pushes(h, last)), NEW a \in Answers,
           NEW f, NEW id, NEW b, NEW live, Chained(q, id, b), FeedFollows(f, q, id, b, live)
    PROVE  /\ Append(q, a) \in Seq(Pushes(h, last))
           /\ Chained(Append(q, a), id, b)
           /\ FeedFollows(f, Append(q, a), id, b, live)
<1>1. a \in Pushes(h, last) /\ ~IsFor(a, id)
  BY DEF Answers, Pushes, IsFor
<1>2. Chained(Append(q, a), id, b)
  BY <1>1, ChainedAppend
<1>3. ASSUME live, f.id = id, f.rev # None
      PROVE  HoldsThen(Append(q, a), Len(Append(q, a)), id, b, f.rev)
  <2>1. HoldsThen(q, Len(q), id, b, f.rev)
    BY <1>3 DEF FeedFollows
  <2>. QED BY <1>1, <2>1, HoldsAfterAppend
<1>4. Append(q, a) \in Seq(Pushes(h, last))
  BY <1>1
<1>. QED BY <1>2, <1>3, <1>4 DEF FeedFollows

\* What is sent for a revision continues what is under way, and what the server
\* remembers afterwards is what the tab will hold.
LEMMA DeliveryFollows ==
    ASSUME NEW h \in Seq(Sidebars), NEW last \in Nat, NEW f, FeedTyped(f, h, last), f.id # 0,
           NEW r \in 1 .. Len(h), NEW m \in Deliveries(f, h, r),
           NEW q \in Seq(Pushes(h, last)), NEW id, NEW b, NEW live, live,
           Chained(q, id, b), FeedFollows(f, q, id, b, live)
    PROVE  /\ Append(q, m) \in Seq(Pushes(h, last))
           /\ Chained(Append(q, m), id, b)
           /\ FeedFollows(Pushed(f, h, r), Append(q, m), id, b, live)
<1>1. /\ m \in Pushes(h, last)
      /\ \A i : IsFor(m, i) => i = f.id
      /\ IF Indexable(h[r])
         THEN IsFor(m, f.id) /\ m.to = r /\ (m.from # None => m.from = f.rev /\ f.rev # None)
         ELSE ~IsFor(m, f.id)
  BY DeliveryFits
<1>2. Append(q, m) \in Seq(Pushes(h, last))
  BY <1>1
<1>3. ASSUME IsFor(m, id), m.from # None PROVE HoldsThen(q, Len(q), id, b, m.from)
  <2>1. f.id = id
    BY <1>1, <1>3
  <2>2. m.from = f.rev /\ f.rev # None
    BY <1>1, <1>3, <2>1
  <2>. QED BY <2>1, <2>2 DEF FeedFollows
<1>4. Chained(Append(q, m), id, b)
  BY <1>1, <1>3, ChainedAppend
<1>5. Pushed(f, h, r).id = f.id /\ Pushed(f, h, r).rev = IF Indexable(h[r]) THEN r ELSE f.rev
  <2>1. f \in [id : 0 .. last, sig : Sidebars \cup {None}, rev : (1 .. Len(h)) \cup {None}]
    BY DEF FeedTyped
  <2>. QED BY <2>1 DEF Pushed
<1>6. ASSUME Pushed(f, h, r).id = id, Pushed(f, h, r).rev # None
      PROVE  HoldsThen(Append(q, m), Len(Append(q, m)), id, b, Pushed(f, h, r).rev)
  <2>1. f.id = id
    BY <1>5, <1>6
  <2>2. CASE Indexable(h[r])
    <3>1. IsFor(m, id) /\ m.to = Pushed(f, h, r).rev
      BY <1>1, <1>5, <2>1, <2>2
    <3>. QED BY <1>1, <3>1, HoldsAfterAppend
  <2>3. CASE ~Indexable(h[r])
    <3>1. Pushed(f, h, r).rev = f.rev /\ ~IsFor(m, id)
      BY <1>1, <1>5, <2>1, <2>3
    <3>2. HoldsThen(q, Len(q), id, b, f.rev)
      BY <1>6, <2>1, <3>1 DEF FeedFollows
    <3>3. HoldsThen(Append(q, m), Len(Append(q, m)), id, b, f.rev)
      BY <1>1, <3>1, <3>2, HoldsAfterAppend
    <3>. QED BY <3>1, <3>3
  <2>. QED BY <2>2, <2>3
<1>. QED BY <1>2, <1>4, <1>6 DEF FeedFollows

LEMMA PushedTyped ==
    ASSUME NEW h \in Seq(Sidebars), NEW last \in Nat, NEW f, FeedTyped(f, h, last), NEW r \in 1 .. Len(h)
    PROVE  FeedTyped(Pushed(f, h, r), h, last) /\ Pushed(f, h, r).id = f.id
<1>1. f \in [id : 0 .. last, sig : Sidebars \cup {None}, rev : (1 .. Len(h)) \cup {None}]
      /\ (f.rev # None => Indexable(h[f.rev]))
  BY DEF FeedTyped
<1>2. h[r] \in Sidebars
  OBVIOUS
<1> DEFINE A == 0 .. last
           B == Sidebars \cup {None}
           C == (1 .. Len(h)) \cup {None}
           x == IF Indexable(h[r]) THEN r ELSE f.rev
<1>3. f \in [id : A, sig : B, rev : C] /\ h[r] \in B /\ x \in C /\ (x # None => Indexable(h[x]))
  BY <1>1, <1>2
<1>4. Pushed(f, h, r) = [f EXCEPT !.sig = h[r], !.rev = x]
  BY <1>1 DEF Pushed
<1> DEFINE y == h[r]
<1> HIDE DEF A, B, C, x, y
<1>5. [f EXCEPT !.sig = y, !.rev = x] \in [id : A, sig : B, rev : C]
      /\ [f EXCEPT !.sig = y, !.rev = x].id = f.id
      /\ [f EXCEPT !.sig = y, !.rev = x].rev = x
  BY <1>3 DEF y
<1>6. Pushed(f, h, r) \in [id : A, sig : B, rev : C] /\ Pushed(f, h, r).id = f.id /\ Pushed(f, h, r).rev = x
  BY <1>4, <1>5 DEF y
<1>. QED BY <1>3, <1>6 DEF FeedTyped, A, B, C

\* A push keeps all of it: nothing sent, sent and recorded, or dropped and not recorded.
LEMMA PushFits ==
    ASSUME NEW h \in Seq(Sidebars), sub \in Nat, NEW f, NEW r, f.id # 0 => r \in 1 .. Len(h),
           FeedTyped(f, h, sub), s2c \in Seq(Pushes(h, sub)), Chained(s2c, sub, base),
           FeedFollows(f, s2c, sub, base, alive), NEW ms \in {<<>>, <<Pong>>},
           NEW marked \in BOOLEAN, NEW scheduled \in BOOLEAN, NEW retryDropped \in BOOLEAN,
           Push(f, h, r, ms, marked, scheduled, retryDropped)
    PROVE  /\ s2c' \in Seq(Pushes(h, sub))
           /\ Chained(s2c', sub, base)
           /\ FeedTyped(feed', h, sub)
           /\ FeedFollows(feed', s2c', sub, base, alive)
           /\ feed'.id = f.id
           /\ dirty' \in BOOLEAN /\ retry' \in BOOLEAN
<1> DEFINE q == s2c \o ms
<1>1. q = s2c \/ q = Append(s2c, Pong)
  <2>1. CASE ms = <<>>
    BY <2>1
  <2>2. CASE ms = <<Pong>>
    <3>1. Pong \in Pushes(h, sub)
      BY DEF Pong, Answers, Pushes
    <3>. QED BY <2>2, <3>1
  <2>. QED BY <2>1, <2>2
<1>2. Pong \in Answers
  BY DEF Pong, Answers
<1>3. q \in Seq(Pushes(h, sub)) /\ Chained(q, sub, base) /\ FeedFollows(f, q, sub, base, alive)
  <2>1. /\ Append(s2c, Pong) \in Seq(Pushes(h, sub)) /\ Chained(Append(s2c, Pong), sub, base)
        /\ FeedFollows(f, Append(s2c, Pong), sub, base, alive)
    BY <1>2, AnswerFits
  <2> HIDE DEF q
  <2>. QED BY <1>1, <2>1
<1>4. \A m \in Pushes(h, sub) : s2c \o Append(ms, m) = Append(q, m)
  <2>1. CASE ms = <<>>
    BY <2>1
  <2>2. CASE ms = <<Pong>>
    BY <2>2
  <2>. QED BY <2>1, <2>2
<1>5. ASSUME Post(ms), feed' = f
      PROVE  /\ s2c' \in Seq(Pushes(h, sub)) /\ Chained(s2c', sub, base)
             /\ FeedTyped(feed', h, sub) /\ FeedFollows(feed', s2c', sub, base, alive) /\ feed'.id = f.id
  <2>1. s2c' = q \/ s2c' = s2c
    BY <1>5 DEF Post
  <2> HIDE DEF q
  <2>. QED BY <1>3, <1>5, <2>1
<1>6. ASSUME f.id # 0, feed' = Pushed(f, h, r), NEW m \in Deliveries(f, h, r), Post(Append(ms, m))
      PROVE  /\ s2c' \in Seq(Pushes(h, sub)) /\ Chained(s2c', sub, base)
             /\ FeedTyped(feed', h, sub) /\ FeedFollows(feed', s2c', sub, base, alive) /\ feed'.id = f.id
  <2>1. r \in 1 .. Len(h)
    BY <1>6
  <2>2. FeedTyped(feed', h, sub) /\ feed'.id = f.id
    BY <1>6, <2>1, PushedTyped
  <2>3. CASE alive
    <3>1. m \in Pushes(h, sub)
      BY <1>6, <2>1, DeliveryFits
    <3>2. s2c' = Append(q, m)
      BY <1>4, <1>6, <2>3, <3>1 DEF Post
    <3> HIDE DEF q
    <3>3. /\ Append(q, m) \in Seq(Pushes(h, sub)) /\ Chained(Append(q, m), sub, base)
          /\ FeedFollows(Pushed(f, h, r), Append(q, m), sub, base, alive)
      BY <1>3, <1>6, <2>1, <2>3, DeliveryFollows
    <3>. QED BY <1>6, <2>2, <3>2, <3>3
  <2>4. CASE ~alive
    <3>1. s2c' = s2c
      BY <1>6, <2>4 DEF Post
    <3>2. FeedFollows(feed', s2c', sub, base, alive)
      BY <2>4 DEF FeedFollows
    <3>. QED BY <2>2, <3>1, <3>2
  <2>. QED BY <2>3, <2>4
<1>7. CASE /\ f.id = 0 \/ f.sig = h[r]
           /\ feed' = f /\ dirty' = marked /\ retry' = scheduled
           /\ Post(ms)
           /\ UNCHANGED faults
  BY <1>5, <1>7
<1>8. CASE /\ f.id # 0 /\ f.sig # h[r]
           /\ feed' = Pushed(f, h, r) /\ dirty' = marked /\ retry' = scheduled
           /\ \E m \in Deliveries(f, h, r) : Post(Append(ms, m))
           /\ UNCHANGED faults
  <2>1. PICK m \in Deliveries(f, h, r) : Post(Append(ms, m))
    BY <1>8
  <2>. QED BY <1>6, <1>8, <2>1
<1>9. CASE /\ f.id # 0 /\ f.sig # h[r]
           /\ Fault
           /\ feed' = f /\ dirty' = TRUE /\ retry' = (scheduled \/ retryDropped)
           /\ Post(ms)
  BY <1>5, <1>9
<1>. QED BY <1>7, <1>8, <1>9 DEF Push

---------------------------------------------------------------------------
(* The queue that crosses a reconnect *)

LEMMA LeastNumber ==
    ASSUME NEW S, S \subseteq Nat, S # {}
    PROVE  \E n \in S : \A k \in S : n <= k
<1>1. PICK n \in S : \A k \in S : ~(<<k, n>> \in OpToRel(<, Nat))
  BY NatLessThanWellFounded, WFMin
<1>2. \A k \in S : ~(k < n)
  BY <1>1 DEF OpToRel
<1>. QED BY <1>2

\* What is kept of the first entries of the queue.
KeptAfter(s, i) == IF cmd[queue[i]] = "pending" THEN Append(s, queue[i]) ELSE s
Kept(f, n) == f = [i \in 0 .. n |-> IF i = 0 THEN <<>> ELSE KeptAfter(f[i - 1], i)]

LEMMA KeptExists ==
    ASSUME NEW n \in Nat
    PROVE  \E f : Kept(f, n)
<1> DEFINE Bad == {k \in Nat : ~\E f : Kept(f, k)}
<1>1. Bad = {}
  <2>1. SUFFICES ASSUME Bad # {} PROVE FALSE
    OBVIOUS
  <2>2. PICK k \in Bad : \A j \in Bad : k <= j
    <3>1. Bad \subseteq Nat
      OBVIOUS
    <3> HIDE DEF Bad
    <3>. QED BY <2>1, <3>1, LeastNumber
  <2>3. k \in Nat /\ ~\E f : Kept(f, k)
    OBVIOUS
  <2>4. CASE k = 0
    <3> DEFINE f == [i \in 0 .. 0 |-> <<>>]
    <3>1. Kept(f, 0)
      BY DEF Kept
    <3>. QED BY <2>3, <2>4, <3>1
  <2>5. CASE k # 0
    <3>1. k - 1 \in Nat /\ ~(k <= k - 1)
      BY <2>3, <2>5
    <3>2. PICK f : Kept(f, k - 1)
      <4>1. k - 1 \notin Bad
        <5> HIDE DEF Bad
        <5>. QED BY <2>2, <3>1
      <4>. QED BY <3>1, <4>1
    <3> DEFINE g == [i \in 0 .. k |-> IF i < k THEN f[i] ELSE KeptAfter(f[k - 1], k)]
    <3>3. \A i \in 0 .. (k - 1) : f[i] = IF i = 0 THEN <<>> ELSE KeptAfter(f[i - 1], i)
      BY <3>1, <3>2 DEF Kept
    <3>4. \A i \in 0 .. k : g[i] = IF i = 0 THEN <<>> ELSE KeptAfter(g[i - 1], i)
      <4>1. SUFFICES ASSUME NEW i \in 0 .. k
                     PROVE  g[i] = IF i = 0 THEN <<>> ELSE KeptAfter(g[i - 1], i)
        OBVIOUS
      <4>2. CASE i = 0
        BY <2>3, <2>5, <3>1, <3>3, <4>2
      <4>3. CASE i # 0 /\ i < k
        <5>1. i \in 0 .. (k - 1) /\ i - 1 \in 0 .. k /\ i - 1 < k
          BY <2>3, <4>3
        <5>2. g[i] = f[i] /\ g[i - 1] = f[i - 1]
          BY <5>1, <4>3
        <5> HIDE DEF g
        <5>. QED BY <3>3, <4>3, <5>1, <5>2
      <4>4. CASE i = k
        <5>1. g[k] = KeptAfter(f[k - 1], k) /\ g[k - 1] = f[k - 1]
          BY <2>3, <3>1
        <5> HIDE DEF g
        <5>. QED BY <2>5, <4>4, <5>1
      <4>. QED BY <2>3, <4>2, <4>3, <4>4
    <3>5. Kept(g, k)
      <4> DEFINE h == [i \in 0 .. k |-> IF i = 0 THEN <<>> ELSE KeptAfter(g[i - 1], i)]
      <4>1. \A i \in 0 .. k : g[i] = h[i]
        <5>1. \A i \in 0 .. k : h[i] = IF i = 0 THEN <<>> ELSE KeptAfter(g[i - 1], i)
          OBVIOUS
        <5> HIDE DEF h, g
        <5>. QED BY <3>4, <5>1
      <4>2. g = [i \in 0 .. k |-> g[i]] /\ h = [i \in 0 .. k |-> h[i]]
        OBVIOUS
      <4>3. g = h
        <5> HIDE DEF g, h
        <5>. QED BY <4>1, <4>2
      <4> HIDE DEF g
      <4>. QED BY <4>3 DEF Kept
    <3>. QED BY <2>3, <3>5
  <2>. QED BY <2>4, <2>5
<1>. QED BY <1>1

\* What is kept of the first n entries: pending commands of theirs, each once.
KeptFits(s, n) ==
    /\ s \in Seq(Commands)
    /\ \A j \in 1 .. Len(s) : \E h \in 1 .. n : s[j] = queue[h] /\ cmd[queue[h]] = "pending"
    /\ \A j, l \in 1 .. Len(s) : s[j] = s[l] => j = l

LEMMA KeptGrows ==
    ASSUME queue \in Seq(Commands), \A i, j \in DOMAIN queue : queue[i] = queue[j] => i = j,
           NEW n \in 1 .. Len(queue), NEW s, KeptFits(s, n - 1)
    PROVE  KeptFits(KeptAfter(s, n), n)
<1>1. n \in Nat /\ queue[n] \in Commands /\ (\A h \in 1 .. n - 1 : h \in 1 .. n /\ h # n)
      /\ DOMAIN queue = 1 .. Len(queue) /\ Len(queue) \in Nat
  OBVIOUS
<1>2. s \in Seq(Commands) /\ Len(s) \in Nat
  BY DEF KeptFits
<1>3. CASE cmd[queue[n]] = "pending"
  <2> DEFINE r == Append(s, queue[n])
  <2>1. r \in Seq(Commands) /\ Len(r) = Len(s) + 1 /\ r[Len(s) + 1] = queue[n]
        /\ \A j \in 1 .. Len(s) : r[j] = s[j]
    BY <1>1, <1>2
  <2>2. KeptAfter(s, n) = r
    BY <1>3 DEF KeptAfter
  <2> HIDE DEF r
  <2>3. \A j \in 1 .. Len(r) : j \in 1 .. Len(s) \/ j = Len(s) + 1
    BY <1>2, <2>1
  <2>4. \A j \in 1 .. Len(s) : \E h \in 1 .. n - 1 : r[j] = queue[h] /\ cmd[queue[h]] = "pending"
    BY <2>1 DEF KeptFits
  <2>5. ASSUME NEW j \in 1 .. Len(r)
        PROVE  \E h \in 1 .. n : r[j] = queue[h] /\ cmd[queue[h]] = "pending"
    <3>1. CASE j \in 1 .. Len(s)
      BY <1>1, <2>4, <3>1
    <3>2. CASE j = Len(s) + 1
      BY <1>1, <1>3, <2>1, <3>2
    <3>. QED BY <2>3, <3>1, <3>2
  <2>6. \A j \in 1 .. Len(s) : r[j] # queue[n]
    <3>1. ASSUME NEW j \in 1 .. Len(s), r[j] = queue[n] PROVE FALSE
      <4>1. PICK h \in 1 .. n - 1 : r[j] = queue[h]
        BY <2>4
      <4>2. h \in DOMAIN queue /\ n \in DOMAIN queue /\ h # n
        BY <1>1
      <4>. QED BY <3>1, <4>1, <4>2
    <3>. QED BY <3>1
  <2>7. ASSUME NEW j \in 1 .. Len(r), NEW l \in 1 .. Len(r), r[j] = r[l] PROVE j = l
    <3>1. \A x, y \in 1 .. Len(s) : s[x] = s[y] => x = y
      BY DEF KeptFits
    <3>2. CASE j \in 1 .. Len(s) /\ l \in 1 .. Len(s)
      BY <2>1, <2>7, <3>1, <3>2
    <3>3. CASE ~(j \in 1 .. Len(s) /\ l \in 1 .. Len(s))
      BY <2>1, <2>3, <2>6, <2>7, <3>3
    <3>. QED BY <3>2, <3>3
  <2>. QED BY <2>1, <2>2, <2>5, <2>7 DEF KeptFits
<1>4. CASE cmd[queue[n]] # "pending"
  <2>1. KeptAfter(s, n) = s
    BY <1>4 DEF KeptAfter
  <2>2. \A j \in 1 .. Len(s) : \E h \in 1 .. n : s[j] = queue[h] /\ cmd[queue[h]] = "pending"
    BY <1>1 DEF KeptFits
  <2>3. KeptFits(s, n)
    BY <2>2 DEF KeptFits
  <2>. QED BY <2>1, <2>3
<1>. QED BY <1>3, <1>4

\* The commands that cross a reconnect are pending ones of the queue, each once.
LEMMA FlushedFits ==
    ASSUME queue \in Seq(Commands), \A i, j \in DOMAIN queue : queue[i] = queue[j] => i = j
    PROVE  KeptFits(Flushed, Len(queue))
<1> DEFINE n == Len(queue)
           kept == CHOOSE f : Kept(f, n)
<1>1. n \in Nat
  OBVIOUS
<1>2. Kept(kept, n)
  <2>1. \E f : Kept(f, n)
    BY <1>1, KeptExists
  <2>. QED BY <2>1
<1>3. Flushed = kept[n]
  BY DEF Flushed, Kept, KeptAfter
<1> HIDE DEF kept
<1>4. \A i \in 0 .. n : kept[i] = IF i = 0 THEN <<>> ELSE KeptAfter(kept[i - 1], i)
  BY <1>2 DEF Kept
<1> DEFINE Bad == {k \in Nat : k <= n /\ ~KeptFits(kept[k], k)}
<1>5. Bad = {}
  <2>1. SUFFICES ASSUME Bad # {} PROVE FALSE
    OBVIOUS
  <2>2. PICK k \in Bad : \A j \in Bad : k <= j
    <3>1. Bad \subseteq Nat
      OBVIOUS
    <3> HIDE DEF Bad
    <3>. QED BY <2>1, <3>1, LeastNumber
  <2>3. k \in Nat /\ k <= n /\ ~KeptFits(kept[k], k)
    OBVIOUS
  <2>4. KeptFits(kept[0], 0)
    <3>1. kept[0] = <<>>
      BY <1>1, <1>4
    <3>. QED BY <3>1 DEF KeptFits
  <2>5. k # 0
    BY <2>3, <2>4
  <2>6. k - 1 \in Nat /\ k - 1 <= n /\ ~(k <= k - 1) /\ k \in 0 .. n /\ k \in 1 .. n
    BY <1>1, <2>3, <2>5
  <2>7. KeptFits(kept[k - 1], k - 1)
    <3>1. k - 1 \notin Bad
      <4> HIDE DEF Bad
      <4>. QED BY <2>2, <2>6
    <3>. QED BY <2>6, <3>1
  <2>8. kept[k] = KeptAfter(kept[k - 1], k)
    BY <1>4, <2>5, <2>6
  <2>9. KeptFits(kept[k], k)
    BY <2>6, <2>7, <2>8, KeptGrows
  <2>. QED BY <2>3, <2>9
<1>6. KeptFits(kept[n], n)
  BY <1>1, <1>5
<1>. QED BY <1>3, <1>6

---------------------------------------------------------------------------
(* The tab's part *)

LEMMA PatchUnderWay ==
    ASSUME NEW h, NEW last, NEW m \in Pushes(h, last), NEW id, IsFor(m, id)
    PROVE  m \in Patches(h, last) /\ id \in 1 .. last
<1>1. m.kind = "patch" /\ m.id = id
  BY DEF IsFor
<1>2. m \in Patches(h, last)
  BY <1>1 DEF Pushes, Fulls, Answers
<1>3. PICK i \in 1 .. last, from \in (1 .. Len(h)) \cup {None}, to \in 1 .. Len(h) : m = PatchOf(h, i, from, to)
  BY <1>2, InPatches, SMTT(30)
<1>4. m.id = i
  BY <1>3 DEF PatchOf, Patch
<1>. QED BY <1>1, <1>2, <1>4

\* A patch that starts from what the tab holds fits, and gives the sidebar it was made of.
LEMMA PatchApplies ==
    ASSUME hist \in Seq(Sidebars), NEW last, NEW p \in Patches(hist, last), Holds(base, hist),
           p.from # None => base # None /\ base.rev = p.from
    PROVE  p.to \in 1 .. Len(hist) /\ Fits(p) /\ Applied(p) = hist[p.to]
<1>1. PICK i \in 1 .. last, from \in (1 .. Len(hist)) \cup {None}, to \in 1 .. Len(hist) :
        p = PatchOf(hist, i, from, to)
  BY InPatches, SMTT(30)
<1> DEFINE old == IF from = None THEN <<>> ELSE hist[from]
           new == hist[to]
           changed == {q \in DOMAIN new : q \notin DOMAIN old \/ old[q] # new[q]}
<1>2. p.from = from /\ p.to = to /\ p.order = DOMAIN new /\ p.rows = [r \in changed |-> new[r]]
  <2> DEFINE x == old
             y == new
  <2>1. p = Patch(i, x, y, from, to)
    BY <1>1 DEF PatchOf
  <2> HIDE DEF x, y
  <2>2. p.from = from /\ p.to = to /\ p.order = DOMAIN y
        /\ p.rows = [r \in {q \in DOMAIN y : q \notin DOMAIN x \/ x[q] # y[q]} |-> y[r]]
    BY <2>1 DEF Patch
  <2>. QED BY <2>2 DEF x, y
<1>3. Held(p) = old
  <2>1. CASE from = None
    BY <1>2, <2>1 DEF Held
  <2>2. CASE from # None
    BY <1>2, <2>2 DEF Held, Holds
  <2>. QED BY <2>1, <2>2
<1>4. new \in Sidebars /\ new = [r \in DOMAIN new |-> new[r]]
  BY SidebarsAssumption
<1> HIDE DEF old, new
<1>5. DOMAIN p.rows = changed /\ \A r \in changed : p.rows[r] = new[r]
  BY <1>2
<1>6. \A r \in DOMAIN new : r \in changed \/ (r \in DOMAIN old /\ old[r] = new[r])
  OBVIOUS
<1> HIDE DEF changed
<1>7. p.order \subseteq DOMAIN p.rows \cup DOMAIN Held(p)
  BY <1>2, <1>3, <1>5, <1>6
<1>8. Applied(p) = [r \in DOMAIN new |-> new[r]]
  <2>1. Applied(p) = [r \in DOMAIN new |-> IF r \in changed THEN p.rows[r] ELSE old[r]]
    BY <1>2, <1>3, <1>5 DEF Applied
  <2>2. \A r \in DOMAIN new : (IF r \in changed THEN p.rows[r] ELSE old[r]) = new[r]
    BY <1>5, <1>6
  <2>. QED BY <2>1, <2>2
<1>9. Fits(p)
  BY <1>7 DEF Fits
<1>10. p.to \in 1 .. Len(hist) /\ hist[p.to] = new
  BY <1>2 DEF new
<1>. QED BY <1>4, <1>8, <1>9, <1>10

\* Nothing is held of a subscription that was only now made.
LEMMA FreshSubscription ==
    ASSUME NEW h, NEW last \in Nat, NEW q \in Seq(Pushes(h, last))
    PROVE  Chained(q, last + 1, None)
<1>1. ASSUME NEW i \in DOMAIN q, IsFor(q[i], last + 1) PROVE FALSE
  <2>1. q[i] \in Pushes(h, last)
    OBVIOUS
  <2>2. last + 1 \in 1 .. last
    BY <1>1, <2>1, PatchUnderWay
  <2>. QED BY <2>2
<1>. QED BY <1>1, ChainedWithout

---------------------------------------------------------------------------
(* The steps of the server *)

LEMMA Initially == Init => LiveInv
<1> SUFFICES ASSUME Init PROVE LiveInv
  OBVIOUS
<1>1. TypeOK
  <2>1. NoFeed \in [id : 0 .. MaxMounts, sig : Sidebars \cup {None}, rev : Revisions \cup {None}]
    BY BoundsAssumption DEF NoFeed
  <2>2. /\ [k \in Commands |-> "new"] \in [Commands -> {"new", "pending", "settled"}]
        /\ [k \in Commands |-> 0] \in [Commands -> Nat]
    OBVIOUS
  <2>3. 1 \in 1 .. MaxMounts /\ state \in Sidebars
    BY SidebarsAssumption, BoundsAssumption DEF Init
  <2>4. hist \in Seq(Sidebars) /\ queue \in Seq(Commands) /\ 0 \in 0 .. Len(hist)
    BY DEF Init
  <2>. QED BY <2>1, <2>2, <2>3, <2>4 DEF Init, TypeOK
<1>2. Wired
  <2>1. s2c = <<>> /\ c2s = <<>> /\ base = None /\ feed = NoFeed /\ hist = <<>> /\ sub = 1
    BY DEF Init
  <2>2. FeedTyped(feed, hist, sub)
    BY <2>1 DEF FeedTyped, NoFeed
  <2>3. FeedFollows(feed, s2c, sub, base, alive)
    BY <2>1 DEF FeedFollows, NoFeed
  <2>4. Chained(s2c, sub, base) /\ Holds(base, hist)
    BY <2>1 DEF Chained, Holds
  <2>5. s2c \in Seq(Pushes(hist, sub)) /\ c2s \in Seq(Requests(sub))
    BY <2>1
  <2>. QED BY <2>2, <2>3, <2>4, <2>5 DEF Wired
<1>3. Connected
  BY DEF Init, Connected, NoFeed
<1>4. QueueFits(queue, cmd, sent)
  BY DEF Init, QueueFits
<1>5. Counted
  BY BoundsAssumption DEF Init, Counted, Revised
<1>. QED BY <1>1, <1>2, <1>3, <1>4, <1>5 DEF LiveInv

\* What a step of the server that pushes to subscription f leaves of the invariant.
LEMMA Pushing ==
    ASSUME LiveInv, NEW f, NEW r, FeedTyped(f, hist, sub), FeedFollows(f, s2c, sub, base, alive),
           Continues(hist, hist'), Revised(hist', state, changes),
           f.id # 0 => r \in 1 .. Len(hist'),
           NEW ms \in {<<>>, <<Pong>>},
           NEW marked \in BOOLEAN, NEW scheduled \in BOOLEAN, NEW retryDropped \in BOOLEAN,
           Push(f, hist', r, ms, marked, scheduled, retryDropped),
           UNCHANGED <<tab, state, changes>>,
           due' \in BOOLEAN, loop' \in 0 .. Len(hist'),
           c2s' \in Seq(Requests(sub)),
           ws \in {"connecting", "closed"} => c2s' = <<>> /\ f.id = 0
    PROVE  LiveInv'
<1>1. TypeOK /\ Wired /\ Connected /\ QueueFits(queue, cmd, sent) /\ Counted
  BY DEF LiveInv
<1>2. hist \in Seq(Sidebars) /\ hist' \in Seq(Sidebars) /\ sub \in 1 .. MaxMounts /\ sub \in Nat /\ sub <= sub
  BY <1>1, BoundsAssumption DEF Counted, Revised, TypeOK
<1>3. Pushes(hist, sub) \subseteq Pushes(hist', sub)
  BY <1>2, PushesGrow
<1>4. s2c \in Seq(Pushes(hist', sub)) /\ Chained(s2c, sub, base)
  <2>1. s2c \in Seq(Pushes(hist, sub)) /\ Chained(s2c, sub, base)
    BY <1>1 DEF Wired
  <2>. QED BY <1>3, <2>1
<1>5. FeedTyped(f, hist', sub) /\ Holds(base, hist')
  <2>1. Holds(base, hist)
    BY <1>1 DEF Wired
  <2>. QED BY <1>2, <2>1, RememberedContinues
<1>6. /\ s2c' \in Seq(Pushes(hist', sub))
      /\ Chained(s2c', sub, base)
      /\ FeedTyped(feed', hist', sub)
      /\ FeedFollows(feed', s2c', sub, base, alive)
      /\ feed'.id = f.id
      /\ dirty' \in BOOLEAN /\ retry' \in BOOLEAN
  BY <1>2, <1>4, <1>5, PushFits
<1>7. /\ sub' = sub /\ base' = base /\ alive' = alive /\ ws' = ws /\ timer' = timer /\ immediate' = immediate
      /\ ping' = ping /\ shown' = shown /\ cmd' = cmd /\ queue' = queue /\ sent' = sent
      /\ state' = state /\ changes' = changes
  BY DEF tab
<1>8. Wired'
  BY <1>5, <1>6, <1>7 DEF Wired
<1>9. Connected'
  BY <1>1, <1>6, <1>7 DEF Connected
<1>10. Counted'
  BY <1>1, <1>7 DEF Counted
<1>11. QueueFits(queue, cmd, sent)'
  BY <1>1, <1>7 DEF QueueFits
<1>12. TypeOK'
  <2>1. feed' \in [id : 0 .. sub, sig : Sidebars \cup {None}, rev : (1 .. Len(hist')) \cup {None}]
    BY <1>6 DEF FeedTyped
  <2>2. Len(hist') \in Nat /\ Len(hist') <= MaxChanges + 1
    BY <1>1, <1>2, BoundsAssumption DEF Counted, Revised
  <2>3. (0 .. sub) \subseteq 0 .. MaxMounts /\ (1 .. Len(hist')) \cup {None} \subseteq Revisions \cup {None}
    BY <1>2, <2>2, BoundsAssumption DEF Revisions
  <2>4. feed' \in [id : 0 .. MaxMounts, sig : Sidebars \cup {None}, rev : Revisions \cup {None}]
    BY <2>1, <2>3
  <2>. QED BY <1>1, <1>2, <1>6, <1>7, <2>4 DEF TypeOK, Revisions
<1>. QED BY <1>8, <1>9, <1>10, <1>11, <1>12 DEF LiveInv

LEMMA PushNowFits ==
    ASSUME LiveInv, NEW f, FeedTyped(f, hist, sub), FeedFollows(f, s2c, sub, base, alive),
           NEW ms \in {<<>>, <<Pong>>},
           NEW marked \in BOOLEAN, NEW scheduled \in BOOLEAN, NEW retryDropped \in BOOLEAN,
           PushNow(f, ms, marked, scheduled, retryDropped),
           UNCHANGED <<tab, loop, state, due, changes>>,
           c2s' \in Seq(Requests(sub)),
           ws \in {"connecting", "closed"} => c2s' = <<>> /\ f.id = 0
    PROVE  LiveInv'
<1>1. /\ hist \in Seq(Sidebars) /\ state \in Sidebars /\ loop \in 0 .. Len(hist) /\ due \in BOOLEAN
      /\ changes \in Nat /\ Revised(hist, state, changes)
  BY BoundsAssumption DEF LiveInv, TypeOK, Counted
<1>2. hist' = (IF f.id = 0 THEN hist ELSE Derived) /\ Push(f, hist', Len(hist'), ms, marked, scheduled, retryDropped)
  BY DEF PushNow
<1>3. Continues(hist, hist') /\ Revised(hist', state, changes) /\ (f.id # 0 => Len(hist') \in 1 .. Len(hist'))
  <2>1. CASE f.id = 0
    BY <1>1, <1>2, <2>1 DEF Continues
  <2>2. CASE f.id # 0
    <3>1. Revised(Derived, state, changes) /\ Continues(hist, Derived) /\ Len(Derived) \in 1 .. Len(Derived)
      BY <1>1, DerivedContinues
    <3>. QED BY <1>2, <2>2, <3>1
  <2>. QED BY <2>1, <2>2
<1>4. loop' = loop /\ due' \in BOOLEAN /\ UNCHANGED <<tab, state, changes>>
  BY <1>1
<1>5. loop' \in 0 .. Len(hist')
  BY <1>1, <1>3, <1>4 DEF Continues, Revised
<1> DEFINE r == Len(hist')
<1>6. Push(f, hist', r, ms, marked, scheduled, retryDropped) /\ (f.id # 0 => r \in 1 .. Len(hist'))
  BY <1>2, <1>3
<1> HIDE DEF r
<1>. QED BY <1>3, <1>4, <1>5, <1>6, Pushing

\* A step that touches neither the messages nor the revisions.
LEMMA Unpushed ==
    ASSUME LiveInv, UNCHANGED <<tab, feed, hist, loop, state, due, changes, s2c>>,
           dirty' \in BOOLEAN, retry' \in BOOLEAN, c2s' \in Seq(Requests(sub)),
           c2s = <<>> => c2s' = <<>>
    PROVE  LiveInv'
<1>1. TypeOK /\ Wired /\ Connected /\ QueueFits(queue, cmd, sent) /\ Counted
  BY DEF LiveInv
<1>2. /\ sub' = sub /\ base' = base /\ alive' = alive /\ ws' = ws /\ timer' = timer /\ immediate' = immediate
      /\ ping' = ping /\ shown' = shown /\ cmd' = cmd /\ queue' = queue /\ sent' = sent
      /\ state' = state /\ changes' = changes /\ feed' = feed /\ hist' = hist /\ loop' = loop /\ due' = due
      /\ s2c' = s2c
  BY DEF tab
<1>3. TypeOK'
  BY <1>1, <1>2 DEF TypeOK, Revisions
<1>4. Wired'
  BY <1>1, <1>2 DEF Wired
<1>5. Connected' /\ Counted'
  BY <1>1, <1>2 DEF Connected, Counted
<1>6. QueueFits(queue, cmd, sent)'
  BY <1>1, <1>2 DEF QueueFits
<1>. QED BY <1>3, <1>4, <1>5, <1>6 DEF LiveInv

LEMMA ChangeFits == ASSUME LiveInv, NEW d \in Sidebars, Change(d) PROVE LiveInv'
<1>1. TypeOK /\ Wired /\ Connected /\ QueueFits(queue, cmd, sent) /\ Counted
  BY DEF LiveInv
<1>2. /\ sub' = sub /\ base' = base /\ alive' = alive /\ ws' = ws /\ timer' = timer /\ immediate' = immediate
      /\ ping' = ping /\ shown' = shown /\ cmd' = cmd /\ queue' = queue /\ sent' = sent
      /\ feed' = feed /\ hist' = hist /\ loop' = loop /\ dirty' = dirty /\ retry' = retry
      /\ s2c' = s2c /\ c2s' = c2s
      /\ state' = d /\ due' = TRUE /\ changes' = changes + 1 /\ changes < MaxChanges
  BY DEF Change, tab, wire, server
<1>3. TypeOK'
  BY <1>1, <1>2 DEF TypeOK, Revisions
<1>4. Wired'
  BY <1>1, <1>2 DEF Wired
<1>5. Counted'
  BY <1>1, <1>2, BoundsAssumption DEF Counted, Revised
<1>6. Connected'
  BY <1>1, <1>2 DEF Connected
<1>7. QueueFits(queue, cmd, sent)'
  BY <1>1, <1>2 DEF QueueFits
<1>. QED BY <1>3, <1>4, <1>5, <1>6, <1>7 DEF LiveInv

LEMMA BroadcastBeginFits == ASSUME LiveInv, BroadcastBegin PROVE LiveInv'
<1>1. TypeOK /\ Wired /\ Connected /\ QueueFits(queue, cmd, sent) /\ Counted
  BY DEF LiveInv
<1>2. /\ sub' = sub /\ base' = base /\ alive' = alive /\ ws' = ws /\ timer' = timer /\ immediate' = immediate
      /\ ping' = ping /\ shown' = shown /\ cmd' = cmd /\ queue' = queue /\ sent' = sent
      /\ feed' = feed /\ dirty' = dirty /\ retry' = retry
      /\ s2c' = s2c /\ c2s' = c2s /\ state' = state /\ changes' = changes
      /\ hist' = Derived /\ loop' = Len(hist') /\ due' = FALSE
  BY DEF BroadcastBegin, tab, wire
<1>3. /\ Continues(hist, hist') /\ Revised(hist', state, changes)
      /\ hist \in Seq(Sidebars) /\ hist' \in Seq(Sidebars) /\ sub \in Nat /\ sub <= sub
  <2>1. state \in Sidebars /\ changes \in Nat /\ Revised(hist, state, changes) /\ sub \in Nat
    BY <1>1, BoundsAssumption DEF TypeOK, Counted
  <2>2. Revised(Derived, state, changes) /\ Continues(hist, Derived)
    BY <2>1, DerivedContinues
  <2>. QED BY <1>2, <2>1, <2>2 DEF Revised
<1>4. Wired'
  <2>1. FeedTyped(feed, hist', sub) /\ Holds(base, hist')
    BY <1>1, <1>3, RememberedContinues DEF Wired
  <2>2. s2c \in Seq(Pushes(hist', sub))
    <3>1. s2c \in Seq(Pushes(hist, sub))
      BY <1>1 DEF Wired
    <3>2. Pushes(hist, sub) \subseteq Pushes(hist', sub)
      BY <1>3, PushesGrow
    <3>. QED BY <3>1, <3>2
  <2>. QED BY <1>1, <1>2, <2>1, <2>2 DEF Wired
<1>5. TypeOK'
  <2>1. loop' \in 0 .. Len(hist')
    BY <1>2, <1>3
  <2>. QED BY <1>1, <1>2, <1>3, <2>1 DEF TypeOK, Revisions
<1>6. Counted'
  BY <1>1, <1>2, <1>3 DEF Counted
<1>7. Connected'
  BY <1>1, <1>2 DEF Connected
<1>8. QueueFits(queue, cmd, sent)'
  BY <1>1, <1>2 DEF QueueFits
<1>. QED BY <1>4, <1>5, <1>6, <1>7, <1>8 DEF LiveInv

LEMMA BroadcastReachFits == ASSUME LiveInv, BroadcastReach PROVE LiveInv'
<1>1. TypeOK /\ Wired /\ Connected /\ Counted
  BY DEF LiveInv
<1>2. Push(feed, hist, loop, <<>>, dirty, retry, TRUE) /\ loop # 0 /\ loop' = 0 /\ hist' = hist
      /\ c2s' = c2s /\ due' = due /\ UNCHANGED <<tab, state, changes>>
  BY DEF BroadcastReach
<1>3. Push(feed, hist', loop, <<>>, dirty, retry, TRUE)
  BY <1>2
<1>4. /\ loop \in 1 .. Len(hist') /\ loop' \in 0 .. Len(hist')
      /\ Continues(hist, hist') /\ Revised(hist', state, changes)
      /\ dirty \in BOOLEAN /\ retry \in BOOLEAN /\ due' \in BOOLEAN
  <2>1. loop \in 0 .. Len(hist) /\ Len(hist) \in Nat /\ dirty \in BOOLEAN /\ retry \in BOOLEAN /\ due \in BOOLEAN
    BY <1>1 DEF TypeOK
  <2>2. loop' \in 0 .. Len(hist') /\ loop \in 1 .. Len(hist')
    BY <1>2, <2>1
  <2>. QED BY <1>1, <1>2, <2>1, <2>2 DEF Counted, Continues
<1>5. FeedTyped(feed, hist, sub) /\ FeedFollows(feed, s2c, sub, base, alive) /\ c2s' \in Seq(Requests(sub))
  BY <1>1, <1>2 DEF Wired
<1>6. ws \in {"connecting", "closed"} => c2s' = <<>> /\ feed.id = 0
  BY <1>1, <1>2 DEF Connected
<1>. QED BY <1>2, <1>3, <1>4, <1>5, <1>6, Pushing

\* What a push of the present subscription needs.
LEMMA FeedReady ==
    ASSUME LiveInv
    PROVE  /\ FeedTyped(feed, hist, sub) /\ FeedFollows(feed, s2c, sub, base, alive)
           /\ c2s \in Seq(Requests(sub))
           /\ ws \in {"connecting", "closed"} => c2s = <<>> /\ feed.id = 0
           /\ dirty \in BOOLEAN /\ retry \in BOOLEAN /\ sub \in Nat
BY BoundsAssumption DEF LiveInv, Wired, Connected, TypeOK

LEMMA OtherTopicFits == ASSUME LiveInv, OtherTopic PROVE LiveInv'
<1>1. PushNow(feed, <<>>, dirty, retry, TRUE) /\ c2s' = c2s /\ UNCHANGED <<tab, loop, state, due, changes>>
  BY DEF OtherTopic
<1>2. /\ FeedTyped(feed, hist, sub) /\ FeedFollows(feed, s2c, sub, base, alive)
      /\ c2s' \in Seq(Requests(sub))
      /\ ws \in {"connecting", "closed"} => c2s' = <<>> /\ feed.id = 0
      /\ dirty \in BOOLEAN /\ retry \in BOOLEAN
  BY <1>1, FeedReady
<1>. QED BY <1>1, <1>2, PushNowFits

LEMMA RetryTimerFits == ASSUME LiveInv, RetryTimer PROVE LiveInv'
<1>1. c2s' = c2s /\ UNCHANGED <<tab, loop, state, due, changes>>
  BY DEF RetryTimer
<1>2. /\ FeedTyped(feed, hist, sub) /\ FeedFollows(feed, s2c, sub, base, alive)
      /\ c2s' \in Seq(Requests(sub))
      /\ ws \in {"connecting", "closed"} => c2s' = <<>> /\ feed.id = 0
      /\ dirty \in BOOLEAN
  BY <1>1, FeedReady
<1>3. CASE dirty
  <2>1. PushNow(feed, <<>>, FALSE, FALSE, FALSE)
    BY <1>3 DEF RetryTimer
  <2>. QED BY <1>1, <1>2, <2>1, PushNowFits
<1>4. CASE ~dirty
  <2>1. retry' = FALSE /\ UNCHANGED <<tab, feed, hist, loop, state, due, changes, s2c>> /\ dirty' = dirty
    BY <1>1, <1>4 DEF RetryTimer
  <2>. QED BY <1>1, <1>2, <2>1, Unpushed
<1>. QED BY <1>3, <1>4

\* An answer is put on the connection, and nothing of the subscription changes.
LEMMA Answered ==
    ASSUME LiveInv, NEW a \in Answers, Post(<<a>>),
           UNCHANGED <<tab, loop, state, due, changes>>, feed' = feed, hist' = hist,
           dirty' \in BOOLEAN, retry' \in BOOLEAN, c2s' \in Seq(Requests(sub)),
           ws \notin {"connecting", "closed"}
    PROVE  LiveInv'
<1>1. TypeOK /\ Wired /\ Connected /\ QueueFits(queue, cmd, sent) /\ Counted
  BY DEF LiveInv
<1>2. /\ sub' = sub /\ base' = base /\ alive' = alive /\ ws' = ws /\ timer' = timer /\ immediate' = immediate
      /\ ping' = ping /\ shown' = shown /\ cmd' = cmd /\ queue' = queue /\ sent' = sent
      /\ state' = state /\ changes' = changes /\ loop' = loop /\ due' = due
  BY DEF tab
<1>3. /\ s2c' \in Seq(Pushes(hist, sub)) /\ Chained(s2c', sub, base)
      /\ FeedFollows(feed, s2c', sub, base, alive)
  <2>1. s2c \in Seq(Pushes(hist, sub)) /\ Chained(s2c, sub, base) /\ FeedFollows(feed, s2c, sub, base, alive)
    BY <1>1 DEF Wired
  <2>2. a \in Pushes(hist, sub)
    BY DEF Pushes
  <2>3. s2c' = Append(s2c, a) \/ s2c' = s2c
    <3>1. s2c \o <<a>> = Append(s2c, a)
      BY <2>1, <2>2
    <3>. QED BY <3>1 DEF Post
  <2>. QED BY <2>1, <2>3, AnswerFits
<1>4. Wired'
  BY <1>1, <1>2, <1>3 DEF Wired
<1>5. TypeOK'
  BY <1>1, <1>2 DEF TypeOK, Revisions
<1>6. Connected' /\ Counted'
  BY <1>1, <1>2 DEF Connected, Counted
<1>7. QueueFits(queue, cmd, sent)'
  BY <1>1, <1>2 DEF QueueFits
<1>. QED BY <1>4, <1>5, <1>6, <1>7 DEF LiveInv

LEMMA DrainFits == ASSUME LiveInv, Drain PROVE LiveInv'
<1>1. dirty /\ c2s' = c2s /\ UNCHANGED <<tab, loop, state, due, changes>>
  BY DEF Drain
<1>2. /\ FeedTyped(feed, hist, sub) /\ FeedFollows(feed, s2c, sub, base, alive)
      /\ c2s' \in Seq(Requests(sub))
      /\ ws \in {"connecting", "closed"} => c2s' = <<>> /\ feed.id = 0
  BY <1>1, FeedReady
<1>3. PushNow(feed, <<>>, FALSE, FALSE, TRUE)
  BY <1>1 DEF Drain, RetryDirty
<1>. QED BY <1>1, <1>2, <1>3, PushNowFits

\* The handlers take the first message, which only a connected tab has sent.
LEMMA TakesFirst ==
    ASSUME LiveInv, NEW kind, Next1(kind)
    PROVE  /\ c2s' \in Seq(Requests(sub)) /\ c2s # <<>>
           /\ ws \notin {"connecting", "closed"}
           /\ Head(c2s) \in Requests(sub) /\ Head(c2s).kind = kind
<1>1. c2s # <<>> /\ Head(c2s).kind = kind /\ c2s' = Tail(c2s)
  BY DEF Next1
<1>2. c2s \in Seq(Requests(sub)) /\ (ws \in {"connecting", "closed"} => c2s = <<>>)
  BY FeedReady
<1>. QED BY <1>1, <1>2

LEMMA HandleSubscribeFits == ASSUME LiveInv, HandleSubscribe PROVE LiveInv'
<1> DEFINE f == [NoFeed EXCEPT !.id = Head(c2s).id]
<1>1. Next1("subscribe") /\ PushNow(f, <<>>, dirty, retry, TRUE) /\ UNCHANGED <<tab, loop, state, due, changes>>
  BY DEF HandleSubscribe
<1>2. c2s' \in Seq(Requests(sub)) /\ ws \notin {"connecting", "closed"}
      /\ Head(c2s) \in Requests(sub) /\ Head(c2s).kind = "subscribe"
  BY <1>1, TakesFirst
<1>3. Head(c2s).id \in 1 .. sub
  BY <1>2 DEF Requests
<1>4. f = [id |-> Head(c2s).id, sig |-> None, rev |-> None]
  BY DEF NoFeed
<1> HIDE DEF f
<1>5. FeedTyped(f, hist, sub) /\ FeedFollows(f, s2c, sub, base, alive)
  <2>1. Head(c2s).id \in 0 .. sub
    BY <1>3, FeedReady
  <2>2. f \in [id : 0 .. sub, sig : Sidebars \cup {None}, rev : (1 .. Len(hist)) \cup {None}] /\ f.rev = None
    BY <1>4, <2>1
  <2>. QED BY <2>2 DEF FeedTyped, FeedFollows
<1>6. dirty \in BOOLEAN /\ retry \in BOOLEAN
  BY FeedReady
<1>. QED BY <1>1, <1>2, <1>5, <1>6, PushNowFits

LEMMA HandleUnsubscribeFits == ASSUME LiveInv, HandleUnsubscribe PROVE LiveInv'
<1>1. TypeOK /\ Wired /\ Connected /\ QueueFits(queue, cmd, sent) /\ Counted
  BY DEF LiveInv
<1>2. /\ sub' = sub /\ base' = base /\ alive' = alive /\ ws' = ws /\ timer' = timer /\ immediate' = immediate
      /\ ping' = ping /\ shown' = shown /\ cmd' = cmd /\ queue' = queue /\ sent' = sent
      /\ state' = state /\ changes' = changes /\ hist' = hist /\ loop' = loop /\ due' = due
      /\ s2c' = s2c /\ dirty' = dirty /\ retry' = retry
  BY DEF HandleUnsubscribe, tab
<1>3. Next1("unsubscribe") /\ (feed' = feed \/ feed' = NoFeed)
  BY DEF HandleUnsubscribe
<1>4. c2s' \in Seq(Requests(sub)) /\ ws \notin {"connecting", "closed"}
  BY <1>3, TakesFirst
<1>5. sub \in Nat /\ sub # 0 /\ MaxMounts \in Nat
  BY <1>1, BoundsAssumption DEF TypeOK
<1>6. FeedTyped(feed', hist, sub) /\ FeedFollows(feed', s2c, sub, base, alive)
  <2>1. FeedTyped(NoFeed, hist, sub) /\ FeedFollows(NoFeed, s2c, sub, base, alive)
    BY <1>5 DEF NoFeed, FeedTyped, FeedFollows
  <2>2. FeedTyped(feed, hist, sub) /\ FeedFollows(feed, s2c, sub, base, alive)
    BY <1>1 DEF Wired
  <2>. QED BY <1>3, <2>1, <2>2
<1>7. Wired'
  BY <1>1, <1>2, <1>4, <1>6 DEF Wired
<1>8. TypeOK'
  <2>1. NoFeed \in [id : 0 .. MaxMounts, sig : Sidebars \cup {None}, rev : Revisions \cup {None}]
    BY <1>5 DEF NoFeed
  <2>. QED BY <1>1, <1>2, <1>3, <2>1 DEF TypeOK, Revisions
<1>9. Connected' /\ Counted'
  BY <1>1, <1>2, <1>4 DEF Connected, Counted
<1>10. QueueFits(queue, cmd, sent)'
  BY <1>1, <1>2 DEF QueueFits
<1>. QED BY <1>7, <1>8, <1>9, <1>10 DEF LiveInv

LEMMA HandlePingFits == ASSUME LiveInv, HandlePing PROVE LiveInv'
<1>1. Next1("ping") /\ RetryDirty(<<Pong>>) /\ UNCHANGED <<tab, loop, state, due, changes>>
  BY DEF HandlePing, Pong
<1>2. c2s' \in Seq(Requests(sub)) /\ ws \notin {"connecting", "closed"}
  BY <1>1, TakesFirst
<1>3. FeedTyped(feed, hist, sub) /\ FeedFollows(feed, s2c, sub, base, alive)
  BY FeedReady
<1>4. CASE dirty
  <2>1. PushNow(feed, <<Pong>>, FALSE, FALSE, TRUE)
    BY <1>1, <1>4 DEF RetryDirty
  <2>. QED BY <1>1, <1>2, <1>3, <2>1, PushNowFits
<1>5. CASE ~dirty
  <2>1. retry' = FALSE /\ Post(<<Pong>>) /\ feed' = feed /\ dirty' = dirty /\ hist' = hist
    BY <1>1, <1>5 DEF RetryDirty
  <2>2. Pong \in Answers /\ dirty' \in BOOLEAN /\ retry' \in BOOLEAN
    BY <2>1, FeedReady DEF Pong, Answers
  <2>. QED BY <1>1, <1>2, <2>1, <2>2, Answered
<1>. QED BY <1>4, <1>5

LEMMA HandleCommandFits == ASSUME LiveInv, HandleCommand PROVE LiveInv'
<1>1. Next1("command") /\ UNCHANGED <<tab, server, state, due, changes>>
      /\ (Post(<<[kind |-> "answer", of |-> Head(c2s).cmd]>>) \/ s2c' = s2c)
  BY DEF HandleCommand
<1>2. c2s' \in Seq(Requests(sub)) /\ ws \notin {"connecting", "closed"} /\ c2s # <<>>
      /\ Head(c2s) \in Requests(sub) /\ Head(c2s).kind = "command"
  BY <1>1, TakesFirst
<1>3. feed' = feed /\ dirty' = dirty /\ retry' = retry /\ hist' = hist /\ loop' = loop
      /\ UNCHANGED <<tab, loop, state, due, changes>>
  BY <1>1 DEF server
<1>4. dirty' \in BOOLEAN /\ retry' \in BOOLEAN
  BY <1>3, FeedReady
<1>5. CASE s2c' = s2c
  BY <1>2, <1>3, <1>4, <1>5, Unpushed
<1>6. CASE Post(<<[kind |-> "answer", of |-> Head(c2s).cmd]>>)
  <2> DEFINE a == [kind |-> "answer", of |-> Head(c2s).cmd]
  <2>1. Head(c2s).cmd \in Commands
    BY <1>2 DEF Requests
  <2>2. a \in Answers /\ Post(<<a>>)
    BY <1>6, <2>1 DEF Answers
  <2> HIDE DEF a
  <2>. QED BY <1>2, <1>3, <1>4, <2>2, Answered
<1>. QED BY <1>1, <1>5, <1>6

---------------------------------------------------------------------------
(* The steps of the tab *)

\* A step of the tab that leaves the messages of the server, the subscription and the
\* revisions alone.
LEMMA TabOnly ==
    ASSUME LiveInv, UNCHANGED <<sub, base, s2c, server, state, due, changes>>,
           alive' = alive \/ alive' = FALSE,
           ws' \in {"connecting", "open", "closing", "closed"},
           timer' \in BOOLEAN /\ immediate' \in BOOLEAN /\ ping' \in BOOLEAN,
           shown' = None \/ shown' \in Sidebars,
           cmd' \in [Commands -> {"new", "pending", "settled"}],
           queue' \in Seq(Commands), sent' \in [Commands -> Nat],
           QueueFits(queue', cmd', sent'),
           c2s' \in Seq(Requests(sub)),
           ws' \in {"connecting", "closed"} => c2s' = <<>> /\ feed.id = 0,
           timer' => ws' = "closed"
    PROVE  LiveInv'
<1>1. TypeOK /\ Wired /\ Counted
  BY DEF LiveInv
<1>2. /\ sub' = sub /\ base' = base /\ s2c' = s2c
      /\ feed' = feed /\ dirty' = dirty /\ retry' = retry /\ hist' = hist /\ loop' = loop
      /\ state' = state /\ changes' = changes /\ due' = due
  BY DEF server
<1>3. Wired'
  <2>1. FeedFollows(feed, s2c, sub, base, alive')
    BY <1>1 DEF Wired, FeedFollows
  <2>. QED BY <1>1, <1>2, <2>1 DEF Wired
<1>4. TypeOK'
  <2>1. alive' \in BOOLEAN
    BY <1>1 DEF TypeOK
  <2>. QED BY <1>1, <1>2, <2>1 DEF TypeOK, Revisions
<1>5. Connected'
  BY <1>2 DEF Connected
<1>6. Counted'
  BY <1>1, <1>2 DEF Counted
<1>7. QueueFits(queue, cmd, sent)'
  OBVIOUS
<1>. QED BY <1>3, <1>4, <1>5, <1>6, <1>7 DEF LiveInv

\* What the tab's variables are.
LEMMA TabReady ==
    ASSUME LiveInv
    PROVE  /\ alive \in BOOLEAN /\ timer \in BOOLEAN /\ immediate \in BOOLEAN /\ ping \in BOOLEAN
           /\ ws \in {"connecting", "open", "closing", "closed"}
           /\ shown = None \/ shown \in Sidebars
           /\ cmd \in [Commands -> {"new", "pending", "settled"}]
           /\ queue \in Seq(Commands) /\ sent \in [Commands -> Nat]
           /\ QueueFits(queue, cmd, sent)
           /\ c2s \in Seq(Requests(sub))
           /\ ws \in {"connecting", "closed"} => c2s = <<>> /\ feed.id = 0
           /\ timer => ws = "closed"
BY DEF LiveInv, Wired, Connected, TypeOK

LEMMA SendTyped ==
    ASSUME LiveInv, NEW ms \in Seq(Requests(sub)), Send(ms)
    PROVE  c2s' \in Seq(Requests(sub))
<1>1. c2s \in Seq(Requests(sub))
  BY TabReady
<1>2. c2s \o ms \in Seq(Requests(sub))
  BY <1>1
<1>. QED BY <1>1, <1>2 DEF Send

\* reconnectNow neither reaches the connection nor leaves a timer.
LEMMA ReconnectFits ==
    ASSUME LiveInv, ReconnectNow
    PROVE  /\ timer' = FALSE /\ immediate' \in BOOLEAN
           /\ ws' \in {"connecting", "open", "closing", "closed"}
           /\ ws' \in {"connecting", "closed"} => c2s = <<>> /\ feed.id = 0
<1>1. timer' = FALSE /\ immediate' \in BOOLEAN
  BY TabReady DEF ReconnectNow
<1>2. \/ ws = "closed" /\ ws' = "connecting"
      \/ ws = "open" /\ ws' = "closing"
      \/ ws \in {"connecting", "closing"} /\ ws' = ws
  BY TabReady DEF ReconnectNow
<1>. QED BY <1>1, <1>2, TabReady

LEMMA ReconnectTimerFits == ASSUME LiveInv, ReconnectTimer PROVE LiveInv'
<1>1. /\ timer /\ timer' = FALSE /\ ws' = "connecting"
      /\ UNCHANGED <<sub, base, s2c, server, state, due, changes>>
      /\ alive' = alive /\ immediate' = immediate /\ ping' = ping /\ shown' = shown /\ cmd' = cmd
      /\ queue' = queue /\ sent' = sent /\ c2s' = c2s
  BY DEF ReconnectTimer, wire
<1>2. c2s = <<>> /\ feed.id = 0
  BY <1>1, TabReady
<1>. QED BY <1>1, <1>2, TabReady, TabOnly

LEMMA DieFits == ASSUME LiveInv, Die PROVE LiveInv'
<1>1. /\ alive' = FALSE /\ ws' = ws
      /\ UNCHANGED <<sub, base, s2c, server, state, due, changes>>
      /\ timer' = timer /\ immediate' = immediate /\ ping' = ping /\ shown' = shown /\ cmd' = cmd
      /\ queue' = queue /\ sent' = sent /\ c2s' = c2s
  BY DEF Die, wire
<1>. QED BY <1>1, TabReady, TabOnly

LEMMA EnsureHealthyFits == ASSUME LiveInv, EnsureHealthy PROVE LiveInv'
<1>1. /\ UNCHANGED <<sub, base, s2c, server, state, due, changes>>
      /\ alive' = alive /\ shown' = shown /\ cmd' = cmd /\ queue' = queue /\ sent' = sent
  BY DEF EnsureHealthy
<1>2. CASE ws \in {"closed", "closing"} /\ ReconnectNow /\ UNCHANGED <<ping, c2s>>
  <2>1. ping' = ping /\ c2s' = c2s
    BY <1>2
  <2>. QED BY <1>1, <1>2, <2>1, ReconnectFits, TabReady, TabOnly
<1>3. CASE /\ ws = "open" /\ s2c = <<>> /\ ~ping
           /\ ping' = TRUE /\ Send(<<[kind |-> "ping"]>>)
           /\ UNCHANGED <<ws, timer, immediate>>
  <2>1. <<[kind |-> "ping"]>> \in Seq(Requests(sub))
    <3>1. [kind |-> "ping"] \in Requests(sub)
      BY DEF Requests
    <3>. QED BY <3>1
  <2>2. c2s' \in Seq(Requests(sub))
    BY <1>3, <2>1, SendTyped
  <2>3. ws' = ws /\ ws = "open" /\ timer' = timer /\ immediate' = immediate /\ ping' = TRUE
    BY <1>3
  <2>. QED BY <1>1, <2>2, <2>3, TabReady, TabOnly
<1>. QED BY <1>2, <1>3 DEF EnsureHealthy

LEMMA PingTimeoutFits == ASSUME LiveInv, PingTimeout PROVE LiveInv'
<1>1. /\ ReconnectNow
      /\ UNCHANGED <<sub, base, s2c, server, state, due, changes>>
      /\ alive' = alive /\ ping' = ping /\ shown' = shown /\ cmd' = cmd
      /\ queue' = queue /\ sent' = sent /\ c2s' = c2s
  BY DEF PingTimeout, wire
<1>. QED BY <1>1, ReconnectFits, TabReady, TabOnly

LEMMA AckTimeoutFits == ASSUME LiveInv, NEW k \in Commands, AckTimeout(k) PROVE LiveInv'
<1>1. /\ ReconnectNow /\ cmd[k] = "pending"
      /\ UNCHANGED <<sub, base, s2c, server, state, due, changes>>
      /\ alive' = alive /\ ping' = ping /\ shown' = shown /\ cmd' = [cmd EXCEPT ![k] = "settled"]
      /\ queue' = queue /\ sent' = sent /\ c2s' = c2s
  BY DEF AckTimeout, wire
<1>2. cmd' \in [Commands -> {"new", "pending", "settled"}]
      /\ \A j \in Commands : cmd'[j] = "new" <=> cmd[j] = "new"
  BY <1>1, TabReady
<1>3. QueueFits(queue', cmd', sent')
  <2>1. \A i \in DOMAIN queue : queue[i] \in Commands
    BY TabReady
  <2>. QED BY <1>1, <1>2, <2>1, TabReady DEF QueueFits
<1>. QED BY <1>1, <1>2, <1>3, ReconnectFits, TabReady, TabOnly

LEMMA CommandFits == ASSUME LiveInv, NEW k \in Commands, Command(k) PROVE LiveInv'
<1>1. /\ cmd[k] = "new" /\ cmd' = [cmd EXCEPT ![k] = "pending"]
      /\ UNCHANGED <<sub, base, s2c, server, state, due, changes>>
      /\ alive' = alive /\ ws' = ws /\ timer' = timer /\ immediate' = immediate /\ ping' = ping
      /\ shown' = shown
  BY DEF Command
<1>2. /\ cmd \in [Commands -> {"new", "pending", "settled"}] /\ queue \in Seq(Commands)
      /\ sent \in [Commands -> Nat] /\ QueueFits(queue, cmd, sent)
      /\ c2s \in Seq(Requests(sub))
  BY TabReady
<1>3. /\ cmd' \in [Commands -> {"new", "pending", "settled"}]
      /\ cmd'[k] = "pending" /\ \A j \in Commands : j # k => cmd'[j] = cmd[j]
  BY <1>1, <1>2
<1>4. \A i \in DOMAIN queue : queue[i] \in Commands /\ queue[i] # k
  BY <1>1, <1>2 DEF QueueFits
<1>5. CASE ws = "open"
  <2>1. Send(<<Envelope(k)>>) /\ sent' = [sent EXCEPT ![k] = @ + 1] /\ queue' = queue
    BY <1>5 DEF Command
  <2>2. c2s' \in Seq(Requests(sub))
    <3>1. Envelope(k) \in Requests(sub)
      BY DEF Envelope, Requests
    <3>2. <<Envelope(k)>> \in Seq(Requests(sub))
      BY <3>1
    <3>. QED BY <2>1, <3>2, SendTyped
  <2>3. sent' \in [Commands -> Nat] /\ \A j \in Commands : j # k => sent'[j] = sent[j]
    BY <1>2, <2>1
  <2>4. QueueFits(queue', cmd', sent')
    BY <1>2, <1>3, <1>4, <2>1, <2>3 DEF QueueFits
  <2>. QED BY <1>1, <1>2, <1>3, <1>5, <2>1, <2>2, <2>3, <2>4, TabReady, TabOnly
<1>6. CASE ws # "open"
  <2>1. queue' = Append(queue, k) /\ c2s' = c2s /\ sent' = sent
    BY <1>6 DEF Command
  <2> DEFINE n == Len(queue)
  <2>2. /\ n \in Nat /\ queue' \in Seq(Commands) /\ DOMAIN queue' = 1 .. n + 1 /\ DOMAIN queue = 1 .. n
        /\ queue'[n + 1] = k /\ \A i \in 1 .. n : queue'[i] = queue[i]
    BY <1>2, <2>1
  <2> HIDE DEF n
  <2>3. \A i \in DOMAIN queue' : i \in DOMAIN queue \/ i = n + 1
    BY <2>2
  <2>4. sent[k] = 0
    BY <1>1, <1>2 DEF QueueFits
  <2>5. \A i \in DOMAIN queue' : cmd'[queue'[i]] # "new" /\ sent'[queue'[i]] = 0
    <3>1. SUFFICES ASSUME NEW i \in DOMAIN queue'
                   PROVE  cmd'[queue'[i]] # "new" /\ sent'[queue'[i]] = 0
      OBVIOUS
    <3>2. CASE i \in DOMAIN queue
      BY <1>2, <1>3, <1>4, <2>1, <2>2, <3>2 DEF QueueFits
    <3>3. CASE i = n + 1
      BY <1>3, <2>1, <2>2, <2>4, <3>3
    <3>. QED BY <2>3, <3>2, <3>3
  <2>6. \A i, j \in DOMAIN queue' : queue'[i] = queue'[j] => i = j
    <3>1. SUFFICES ASSUME NEW i \in DOMAIN queue', NEW j \in DOMAIN queue', queue'[i] = queue'[j]
                   PROVE  i = j
      OBVIOUS
    <3>2. CASE i \in DOMAIN queue /\ j \in DOMAIN queue
      BY <1>2, <2>2, <3>1, <3>2 DEF QueueFits
    <3>3. CASE ~(i \in DOMAIN queue /\ j \in DOMAIN queue)
      BY <1>4, <2>2, <2>3, <3>1, <3>3
    <3>. QED BY <3>2, <3>3
  <2>7. \A j \in Commands : cmd'[j] = "new" => sent'[j] = 0
    BY <1>2, <1>3, <2>1 DEF QueueFits
  <2>8. QueueFits(queue', cmd', sent')
    BY <2>5, <2>6, <2>7 DEF QueueFits
  <2>. QED BY <1>1, <1>2, <1>3, <2>1, <2>2, <2>8, TabReady, TabOnly
<1>. QED BY <1>5, <1>6

\* How often a command crosses a reconnect: once if it waits in the queue, else never.
FlushedCount(k) == Cardinality({i \in DOMAIN Flushed : Flushed[i] = k})

LEMMA FlushedOnce ==
    ASSUME LiveInv, NEW k \in Commands
    PROVE  /\ FlushedCount(k) \in {0, 1}
           /\ FlushedCount(k) # 0 => cmd[k] = "pending" /\ sent[k] = 0
<1> DEFINE S == {i \in DOMAIN Flushed : Flushed[i] = k}
<1>1. queue \in Seq(Commands) /\ QueueFits(queue, cmd, sent)
  BY TabReady
<1>2. KeptFits(Flushed, Len(queue))
  BY <1>1, FlushedFits DEF QueueFits
<1>3. /\ Flushed \in Seq(Commands)
      /\ DOMAIN Flushed = 1 .. Len(Flushed)
      /\ \A j, l \in 1 .. Len(Flushed) : Flushed[j] = Flushed[l] => j = l
      /\ \A j \in 1 .. Len(Flushed) : \E h \in 1 .. Len(queue) : Flushed[j] = queue[h] /\ cmd[queue[h]] = "pending"
  BY <1>2 DEF KeptFits
<1>4. CASE S = {}
  <2>1. Cardinality(S) = 0
    BY <1>4, FS_EmptySet
  <2>. QED BY <2>1 DEF FlushedCount
<1>5. CASE S # {}
  <2>1. PICK i \in S : TRUE
    BY <1>5
  <2>2. S = {i}
    BY <1>3, <2>1
  <2>3. Cardinality({i}) = 1
    BY FS_Singleton
  <2>4. FlushedCount(k) = 1
    BY <2>2, <2>3 DEF FlushedCount
  <2>5. i \in 1 .. Len(Flushed) /\ Flushed[i] = k
    BY <1>3, <2>1
  <2>6. PICK h \in 1 .. Len(queue) : Flushed[i] = queue[h] /\ cmd[queue[h]] = "pending"
    BY <1>3, <2>5
  <2>7. h \in DOMAIN queue /\ queue[h] = k
    BY <1>1, <2>5, <2>6
  <2>8. cmd[k] = "pending" /\ sent[k] = 0
    BY <1>1, <2>6, <2>7 DEF QueueFits
  <2>. QED BY <2>4, <2>8
<1>. QED BY <1>4, <1>5

LEMMA OpenFits == ASSUME LiveInv, Open PROVE LiveInv'
<1>1. TypeOK /\ Wired /\ Connected /\ QueueFits(queue, cmd, sent) /\ Counted
  BY DEF LiveInv
<1>2. /\ ws = "connecting" /\ ws' = "open" /\ alive' = TRUE /\ immediate' = FALSE /\ queue' = <<>>
      /\ sub' = sub /\ base' = base /\ s2c' = s2c /\ timer' = timer /\ ping' = ping /\ shown' = shown
      /\ cmd' = cmd /\ feed' = feed /\ dirty' = dirty /\ retry' = retry /\ hist' = hist /\ loop' = loop
      /\ state' = state /\ changes' = changes /\ due' = due
      /\ c2s' = <<Subscribe>> \o [i \in DOMAIN Flushed |-> Envelope(Flushed[i])]
      /\ sent' = [k \in Commands |-> sent[k] + FlushedCount(k)]
  BY DEF Open, server, FlushedCount
<1>3. feed.id = 0 /\ timer = FALSE /\ sub \in 1 .. MaxMounts
  BY <1>1, <1>2 DEF Connected, TypeOK
<1>4. c2s' \in Seq(Requests(sub))
  <2>1. Flushed \in Seq(Commands)
    <3>1. KeptFits(Flushed, Len(queue))
      BY <1>1, FlushedFits DEF QueueFits, TypeOK
    <3>. QED BY <3>1 DEF KeptFits
  <2> DEFINE es == [i \in DOMAIN Flushed |-> Envelope(Flushed[i])]
  <2>2. DOMAIN Flushed = 1 .. Len(Flushed) /\ Len(Flushed) \in Nat /\ \A i \in DOMAIN Flushed : Flushed[i] \in Commands
    BY <2>1
  <2>3. \A i \in DOMAIN Flushed : Envelope(Flushed[i]) \in Requests(sub)
    BY <2>2 DEF Envelope, Requests
  <2>4. es \in Seq(Requests(sub))
    BY <2>2, <2>3
  <2>5. Subscribe \in Requests(sub)
    BY <1>3, BoundsAssumption DEF Subscribe, Requests
  <2> HIDE DEF es
  <2>6. <<Subscribe>> \o es \in Seq(Requests(sub))
    BY <2>4, <2>5
  <2>. QED BY <1>2, <2>6 DEF es
<1>5. FeedFollows(feed, s2c, sub, base, TRUE)
  BY <1>3, BoundsAssumption DEF FeedFollows
<1>6. Wired'
  BY <1>1, <1>2, <1>4, <1>5 DEF Wired
<1>7. sent' \in [Commands -> Nat] /\ \A k \in Commands : cmd[k] = "new" => sent'[k] = 0
  <2>1. sent \in [Commands -> Nat]
    BY <1>1 DEF TypeOK
  <2>2. \A k \in Commands : FlushedCount(k) \in Nat /\ (FlushedCount(k) # 0 => cmd[k] = "pending")
    BY FlushedOnce
  <2>3. \A k \in Commands : sent'[k] = sent[k] + FlushedCount(k) /\ sent'[k] \in Nat
    BY <1>2, <2>1, <2>2
  <2>4. sent' \in [Commands -> Nat]
    BY <1>2, <2>1, <2>2
  <2>5. \A k \in Commands : cmd[k] = "new" => sent[k] = 0
    BY <1>1 DEF QueueFits
  <2>. QED BY <2>2, <2>3, <2>4, <2>5
<1>8. QueueFits(queue, cmd, sent)'
  BY <1>2, <1>7 DEF QueueFits
<1>9. TypeOK'
  <2>1. queue' \in Seq(Commands)
    BY <1>2
  <2>. QED BY <1>1, <1>2, <1>7, <2>1 DEF TypeOK, Revisions
<1>10. Connected' /\ Counted'
  BY <1>1, <1>2, <1>3 DEF Connected, Counted
<1>. QED BY <1>6, <1>8, <1>9, <1>10 DEF LiveInv

LEMMA CloseFits == ASSUME LiveInv, Close PROVE LiveInv'
<1>1. TypeOK /\ Wired /\ Connected /\ QueueFits(queue, cmd, sent) /\ Counted
  BY DEF LiveInv
<1>2. /\ immediate' = FALSE /\ ping' = FALSE /\ alive' = FALSE
      /\ cmd' = [k \in Commands |-> IF cmd[k] = "pending" THEN "settled" ELSE cmd[k]]
      /\ c2s' = <<>> /\ s2c' = <<>> /\ feed' = NoFeed /\ dirty' = FALSE /\ retry' = FALSE
      /\ sub' = sub /\ base' = base /\ shown' = shown /\ queue' = queue /\ sent' = sent
      /\ hist' = hist /\ loop' = loop /\ state' = state /\ due' = due /\ changes' = changes
  BY DEF Close
<1>3. ws # "closed" /\ ((ws' = "connecting" /\ timer' = timer) \/ (ws' = "closed" /\ timer' = TRUE))
  BY DEF Close
<1>4. MaxMounts \in Nat /\ sub \in Nat
  BY <1>1, BoundsAssumption DEF TypeOK
<1>5. cmd' \in [Commands -> {"new", "pending", "settled"}] /\ \A k \in Commands : cmd'[k] = "new" => cmd[k] = "new"
  <2>1. cmd \in [Commands -> {"new", "pending", "settled"}]
    BY <1>1 DEF TypeOK
  <2>2. \A k \in Commands : cmd[k] \in {"new", "pending", "settled"}
    BY <2>1
  <2>. QED BY <1>2, <2>2
<1>6. Wired'
  <2>1. FeedTyped(NoFeed, hist, sub) /\ FeedFollows(NoFeed, <<>>, sub, base, FALSE)
    BY <1>4 DEF NoFeed, FeedTyped, FeedFollows
  <2>2. Chained(<<>>, sub, base)
    BY DEF Chained
  <2>3. <<>> \in Seq(Pushes(hist, sub)) /\ <<>> \in Seq(Requests(sub))
    OBVIOUS
  <2>. QED BY <1>1, <1>2, <2>1, <2>2, <2>3 DEF Wired
<1>7. TypeOK'
  <2>1. NoFeed \in [id : 0 .. MaxMounts, sig : Sidebars \cup {None}, rev : Revisions \cup {None}]
    BY <1>4 DEF NoFeed
  <2>. QED BY <1>1, <1>2, <1>3, <1>5, <2>1 DEF TypeOK, Revisions
<1>8. Connected'
  <2>1. feed'.id = 0
    BY <1>2 DEF NoFeed
  <2>. QED BY <1>1, <1>2, <1>3, <2>1 DEF Connected
<1>9. Counted'
  BY <1>1, <1>2 DEF Counted
<1>10. QueueFits(queue, cmd, sent)'
  <2>1. \A i \in DOMAIN queue : queue[i] \in Commands
    BY <1>1 DEF TypeOK
  <2>. QED BY <1>1, <1>2, <1>5, <2>1 DEF QueueFits
<1>. QED BY <1>6, <1>7, <1>8, <1>9, <1>10 DEF LiveInv

\* A message is taken from the connection and leaves base to the subscription.
LEMMA Receiving ==
    ASSUME LiveInv, s2c # <<>>, NEW c,
           IF IsFor(Head(s2c), sub) THEN c # None /\ c.rev = Head(s2c).to ELSE c = base
    PROVE  /\ Tail(s2c) \in Seq(Pushes(hist, sub))
           /\ Chained(Tail(s2c), sub, c)
           /\ FeedFollows(feed, Tail(s2c), sub, c, alive)
<1>1. s2c \in Seq(Pushes(hist, sub)) /\ Chained(s2c, sub, base) /\ FeedFollows(feed, s2c, sub, base, alive)
  BY DEF LiveInv, Wired
<1>2. Tail(s2c) \in Seq(Pushes(hist, sub)) /\ Len(s2c) \in 1 .. Len(s2c) /\ Len(Tail(s2c)) = Len(s2c) - 1
  BY <1>1
<1>3. Chained(Tail(s2c), sub, c)
  BY <1>1, ChainedTail
<1>4. ASSUME alive, feed.id = sub, feed.rev # None
      PROVE  HoldsThen(Tail(s2c), Len(Tail(s2c)), sub, c, feed.rev)
  <2>1. HoldsThen(s2c, Len(s2c), sub, base, feed.rev)
    BY <1>1, <1>4 DEF FeedFollows
  <2>2. HoldsThen(Tail(s2c), Len(s2c) - 1, sub, c, feed.rev)
    BY <1>1, <1>2, <2>1, HoldsAfterHead
  <2>. QED BY <1>2, <2>2
<1>. QED BY <1>2, <1>3, <1>4 DEF FeedFollows

\* What receiving leaves of the invariant.
LEMMA Received ==
    ASSUME LiveInv, s2c # <<>>, s2c' = Tail(s2c), UNCHANGED <<ws, alive, timer, immediate, sub, queue, sent>>,
           UNCHANGED <<server, state, due, changes>>, c2s' = c2s, ping' \in BOOLEAN,
           IF IsFor(Head(s2c), sub) THEN base' # None /\ base'.rev = Head(s2c).to ELSE base' = base,
           Holds(base', hist), shown' = None \/ shown' \in Sidebars,
           cmd' \in [Commands -> {"new", "pending", "settled"}],
           \A k \in Commands : cmd'[k] = "new" => cmd[k] = "new"
    PROVE  LiveInv'
<1>1. TypeOK /\ Wired /\ Connected /\ QueueFits(queue, cmd, sent) /\ Counted
  BY DEF LiveInv
<1>2. /\ sub' = sub /\ alive' = alive /\ ws' = ws /\ timer' = timer /\ immediate' = immediate
      /\ queue' = queue /\ sent' = sent
      /\ feed' = feed /\ dirty' = dirty /\ retry' = retry /\ hist' = hist /\ loop' = loop
      /\ state' = state /\ changes' = changes /\ due' = due
  BY DEF server
<1>3. /\ s2c' \in Seq(Pushes(hist, sub))
      /\ Chained(s2c', sub, base')
      /\ FeedFollows(feed, s2c', sub, base', alive)
  <2> DEFINE c == base'
  <2>1. IF IsFor(Head(s2c), sub) THEN c # None /\ c.rev = Head(s2c).to ELSE c = base
    OBVIOUS
  <2> HIDE DEF c
  <2>2. /\ Tail(s2c) \in Seq(Pushes(hist, sub))
        /\ Chained(Tail(s2c), sub, c)
        /\ FeedFollows(feed, Tail(s2c), sub, c, alive)
    BY <2>1, Receiving
  <2>. QED BY <2>2 DEF c
<1>4. Wired'
  BY <1>1, <1>2, <1>3 DEF Wired
<1>5. base' = None \/ base' \in [rev : Revisions, data : Sidebars]
  <2>1. hist \in Seq(Sidebars) /\ Len(hist) \in Nat /\ Len(hist) <= MaxChanges + 1
    BY <1>1, BoundsAssumption DEF Counted, Revised
  <2>2. SUFFICES ASSUME base' # None PROVE base' \in [rev : Revisions, data : Sidebars]
    OBVIOUS
  <2>3. base'.rev \in 1 .. Len(hist) /\ base'.data = hist[base'.rev]
        /\ base' = [rev |-> base'.rev, data |-> base'.data]
    BY <2>2 DEF Holds
  <2>4. base'.rev \in Revisions /\ base'.data \in Sidebars
    BY <2>1, <2>3, BoundsAssumption DEF Revisions
  <2>. QED BY <2>3, <2>4
<1>6. TypeOK'
  BY <1>1, <1>2, <1>5 DEF TypeOK, Revisions
<1>7. Connected' /\ Counted'
  BY <1>1, <1>2 DEF Connected, Counted
<1>8. QueueFits(queue, cmd, sent)'
  <2>1. \A i \in DOMAIN queue : queue[i] \in Commands
    BY <1>1 DEF TypeOK
  <2>. QED BY <1>1, <1>2, <2>1 DEF QueueFits
<1>. QED BY <1>4, <1>6, <1>7, <1>8 DEF LiveInv

\* The tab never has to fall back: a patch for its subscription fits what it holds.
LEMMA FirstPatchFits ==
    ASSUME LiveInv, s2c # <<>>, IsFor(Head(s2c), sub)
    PROVE  /\ Head(s2c).to \in 1 .. Len(hist) /\ Fits(Head(s2c))
           /\ Applied(Head(s2c)) = hist[Head(s2c).to]
<1> DEFINE p == Head(s2c)
<1>1. /\ s2c \in Seq(Pushes(hist, sub)) /\ Chained(s2c, sub, base) /\ Holds(base, hist)
      /\ hist \in Seq(Sidebars)
  BY DEF LiveInv, Wired, Counted, Revised
<1>2. 1 \in DOMAIN s2c /\ p = s2c[1] /\ p \in Pushes(hist, sub)
  BY <1>1
<1>3. p \in Patches(hist, sub)
  BY <1>2, PatchUnderWay
<1>4. p.from # None => base # None /\ base.rev = p.from
  <2>1. p.from # None => HoldsThen(s2c, 0, sub, base, p.from)
    BY <1>1, <1>2 DEF Chained
  <2>. QED BY <2>1 DEF HoldsThen
<1> HIDE DEF p
<1>5. p.to \in 1 .. Len(hist) /\ Fits(p) /\ Applied(p) = hist[p.to]
  BY <1>1, <1>3, <1>4, PatchApplies
<1>. QED BY <1>5 DEF p

LEMMA ReceivePatchFits == ASSUME LiveInv, ReceivePatch PROVE LiveInv'
<1>1. /\ s2c # <<>> /\ Head(s2c).kind = "patch" /\ s2c' = Tail(s2c)
      /\ UNCHANGED <<ws, alive, timer, immediate, sub, queue, sent>>
      /\ UNCHANGED <<server, state, due, changes>>
      /\ ping' = ping /\ cmd' = cmd
  BY DEF ReceivePatch, Receive1
<1>2. TypeOK /\ Wired /\ Counted
  BY DEF LiveInv
<1>3. /\ ping' \in BOOLEAN /\ cmd' \in [Commands -> {"new", "pending", "settled"}]
      /\ \A k \in Commands : cmd'[k] = "new" => cmd[k] = "new"
      /\ shown = None \/ shown \in Sidebars
      /\ Holds(base, hist)
      /\ hist \in Seq(Sidebars)
  BY <1>1, <1>2 DEF TypeOK, Wired, Counted, Revised
<1>4. CASE Head(s2c).id # sub
  <2>1. base' = base /\ shown' = shown /\ c2s' = c2s
    BY <1>4 DEF ReceivePatch
  <2>2. ~IsFor(Head(s2c), sub)
    BY <1>4 DEF IsFor
  <2>. QED BY <1>1, <1>3, <2>1, <2>2, Received
<1>5. CASE Head(s2c).id = sub
  <2> DEFINE p == Head(s2c)
  <2>1. IsFor(p, sub)
    BY <1>1, <1>5 DEF IsFor
  <2>2. p.to \in 1 .. Len(hist) /\ Fits(p) /\ Applied(p) = hist[p.to]
    BY <1>1, <2>1, FirstPatchFits
  <2>3. base' = [rev |-> p.to, data |-> Applied(p)] /\ shown' = Applied(p) /\ c2s' = c2s
    BY <1>5, <2>2 DEF ReceivePatch
  <2> HIDE DEF p
  <2>4. hist[p.to] \in Sidebars /\ p.to \in Nat
    BY <1>3, <2>2
  <2>5. base' # None
    <3>1. base' \in [rev : Nat, data : Sidebars]
      BY <2>2, <2>3, <2>4
    <3>. QED BY <3>1, NoneAssumption
  <2>6. base'.rev = p.to /\ base'.data = hist[p.to] /\ base' = [rev |-> base'.rev, data |-> base'.data]
    BY <2>2, <2>3
  <2>7. Holds(base', hist)
    BY <2>2, <2>6 DEF Holds
  <2>8. shown' \in Sidebars
    BY <2>2, <2>3, <2>4
  <2>9. IF IsFor(Head(s2c), sub) THEN base' # None /\ base'.rev = Head(s2c).to ELSE base' = base
    BY <2>1, <2>5, <2>6 DEF p
  <2>. QED BY <1>1, <1>3, <2>3, <2>7, <2>8, <2>9, Received
<1>. QED BY <1>4, <1>5

LEMMA ReceiveFullFits == ASSUME LiveInv, ReceiveFull PROVE LiveInv'
<1>1. /\ s2c # <<>> /\ Head(s2c).kind = "full" /\ s2c' = Tail(s2c)
      /\ UNCHANGED <<ws, alive, timer, immediate, sub, queue, sent>>
      /\ UNCHANGED <<server, state, due, changes>>
      /\ ping' = ping /\ cmd' = cmd /\ c2s' = c2s /\ base' = base
      /\ shown' = IF Head(s2c).id = sub THEN Head(s2c).data ELSE shown
  BY DEF ReceiveFull, Receive1
<1>2. TypeOK /\ Wired
  BY DEF LiveInv
<1>3. /\ ping' \in BOOLEAN /\ cmd' \in [Commands -> {"new", "pending", "settled"}]
      /\ \A k \in Commands : cmd'[k] = "new" => cmd[k] = "new"
      /\ shown = None \/ shown \in Sidebars
      /\ Holds(base', hist)
  BY <1>1, <1>2 DEF TypeOK, Wired
<1>4. ~IsFor(Head(s2c), sub)
  BY <1>1 DEF IsFor
<1>5. Head(s2c).data \in Sidebars
  <2>1. s2c \in Seq(Pushes(hist, sub))
    BY <1>2 DEF Wired
  <2>2. Head(s2c) \in Pushes(hist, sub)
    BY <1>1, <2>1
  <2>3. Head(s2c) \notin Patches(hist, sub)
    <3>1. SUFFICES ASSUME Head(s2c) \in Patches(hist, sub) PROVE FALSE
      OBVIOUS
    <3>2. PICK i \in 1 .. sub, from \in (1 .. Len(hist)) \cup {None}, to \in 1 .. Len(hist) :
            Head(s2c) = PatchOf(hist, i, from, to)
      BY <3>1, InPatches, SMTT(30)
    <3>3. Head(s2c).kind = "patch"
      BY <3>2 DEF PatchOf, Patch
    <3>. QED BY <1>1, <3>3
  <2>4. Head(s2c) \in Fulls(sub)
    BY <1>1, <2>2, <2>3 DEF Pushes, Answers
  <2>. QED BY <2>4 DEF Fulls
<1>6. shown' = None \/ shown' \in Sidebars
  BY <1>1, <1>3, <1>5
<1>. QED BY <1>1, <1>3, <1>4, <1>6, Received

LEMMA ReceiveAnswerFits == ASSUME LiveInv, ReceiveAnswer PROVE LiveInv'
<1>1. /\ s2c # <<>> /\ Head(s2c).kind = "answer" /\ s2c' = Tail(s2c)
      /\ UNCHANGED <<ws, alive, timer, immediate, sub, queue, sent>>
      /\ UNCHANGED <<server, state, due, changes>>
      /\ c2s' = c2s /\ base' = base /\ shown' = shown
      /\ ping' = (ping /\ Head(s2c).of # "ping")
      /\ cmd' = [k \in Commands |-> IF k = Head(s2c).of THEN "settled" ELSE cmd[k]]
  BY DEF ReceiveAnswer, Receive1
<1>2. TypeOK /\ Wired
  BY DEF LiveInv
<1>3. ping' \in BOOLEAN
  BY <1>1, <1>2 DEF TypeOK
<1>4. /\ cmd' \in [Commands -> {"new", "pending", "settled"}]
      /\ \A k \in Commands : cmd'[k] = "new" => cmd[k] = "new"
  <2>1. \A k \in Commands : cmd[k] \in {"new", "pending", "settled"}
    BY <1>2 DEF TypeOK
  <2> DEFINE o == Head(s2c).of
  <2>2. cmd' = [k \in Commands |-> IF k = o THEN "settled" ELSE cmd[k]]
    BY <1>1
  <2> HIDE DEF o
  <2>. QED BY <2>1, <2>2
<1>5. (shown' = None \/ shown' \in Sidebars) /\ Holds(base', hist)
  BY <1>1, <1>2 DEF TypeOK, Wired
<1>6. ~IsFor(Head(s2c), sub)
  BY <1>1 DEF IsFor
<1>. QED BY <1>1, <1>3, <1>4, <1>5, <1>6, Received

LEMMA RemountFits == ASSUME LiveInv, Remount PROVE LiveInv'
<1>1. TypeOK /\ Wired /\ Connected /\ QueueFits(queue, cmd, sent) /\ Counted
  BY DEF LiveInv
<1>2. /\ sub < MaxMounts /\ sub' = sub + 1 /\ base' = None
      /\ ws' = ws /\ alive' = alive /\ timer' = timer /\ immediate' = immediate /\ ping' = ping
      /\ shown' = shown /\ cmd' = cmd /\ queue' = queue /\ sent' = sent /\ s2c' = s2c
      /\ feed' = feed /\ dirty' = dirty /\ retry' = retry /\ hist' = hist /\ loop' = loop
      /\ state' = state /\ changes' = changes /\ due' = due
  BY DEF Remount, server
<1>3. sub \in 1 .. MaxMounts /\ sub \in Nat /\ sub + 1 \in Nat /\ sub <= sub + 1 /\ sub + 1 \in 1 .. MaxMounts
  BY <1>1, <1>2, BoundsAssumption DEF TypeOK
<1>4. hist \in Seq(Sidebars) /\ Continues(hist, hist)
  BY <1>1 DEF Counted, Revised, Continues
<1>5. s2c \in Seq(Pushes(hist, sub)) /\ c2s \in Seq(Requests(sub))
      /\ FeedTyped(feed, hist, sub)
  BY <1>1 DEF Wired
<1>6. s2c' \in Seq(Pushes(hist, sub + 1)) /\ Chained(s2c, sub + 1, None)
  <2>1. Pushes(hist, sub) \subseteq Pushes(hist, sub + 1)
    BY <1>3, <1>4, PushesGrow
  <2>2. Chained(s2c, sub + 1, None)
    BY <1>3, <1>5, FreshSubscription
  <2>. QED BY <1>2, <1>5, <2>1, <2>2
<1>7. FeedTyped(feed, hist, sub + 1) /\ Holds(None, hist)
  <2>1. FeedTyped(feed, hist, sub + 1)
    BY <1>3, <1>4, <1>5, RememberedContinues
  <2>. QED BY <2>1 DEF Holds
<1>8. FeedFollows(feed, s2c, sub + 1, None, alive)
  <2>1. feed.id \in 0 .. sub
    BY <1>5 DEF FeedTyped
  <2>2. feed.id # sub + 1
    BY <1>3, <2>1
  <2>. QED BY <2>2 DEF FeedFollows
<1>9. c2s' \in Seq(Requests(sub + 1)) /\ (ws # "open" => c2s' = c2s)
  <2>1. Requests(sub) \subseteq Requests(sub + 1)
    <3>1. 1 .. sub \subseteq 1 .. sub + 1
      BY <1>3
    <3>. QED BY <3>1 DEF Requests
  <2>2. c2s \in Seq(Requests(sub + 1))
    BY <1>5, <2>1
  <2>3. CASE ws = "open"
    <3> DEFINE x == [kind |-> "unsubscribe", id |-> sub]
               y == [kind |-> "subscribe", id |-> sub + 1]
    <3>1. x \in Requests(sub + 1) /\ y \in Requests(sub + 1)
      BY <1>3 DEF Requests
    <3>2. Send(<<x, y>>)
      BY <2>3 DEF Remount
    <3> HIDE DEF x, y
    <3>3. c2s \o <<x, y>> \in Seq(Requests(sub + 1))
      BY <2>2, <3>1
    <3>. QED BY <2>2, <2>3, <3>2, <3>3 DEF Send
  <2>4. CASE ws # "open"
    <3>1. c2s' = c2s
      BY <2>4 DEF Remount
    <3>. QED BY <2>2, <3>1
  <2>. QED BY <2>3, <2>4
<1>10. Wired'
  BY <1>2, <1>6, <1>7, <1>8, <1>9 DEF Wired
<1>11. TypeOK'
  BY <1>1, <1>2, <1>3 DEF TypeOK, Revisions
<1>12. Connected'
  BY <1>1, <1>2, <1>9 DEF Connected
<1>13. Counted'
  BY <1>1, <1>2 DEF Counted
<1>14. QueueFits(queue, cmd, sent)'
  BY <1>1, <1>2 DEF QueueFits
<1>. QED BY <1>10, <1>11, <1>12, <1>13, <1>14 DEF LiveInv

---------------------------------------------------------------------------
(* The theorems *)

LEMMA Stutters == ASSUME LiveInv, UNCHANGED vars PROVE LiveInv'
<1>1. TypeOK /\ Wired /\ Connected /\ QueueFits(queue, cmd, sent) /\ Counted
  BY DEF LiveInv
<1>2. /\ sub' = sub /\ base' = base /\ alive' = alive /\ ws' = ws /\ timer' = timer /\ immediate' = immediate
      /\ ping' = ping /\ shown' = shown /\ cmd' = cmd /\ queue' = queue /\ sent' = sent
      /\ state' = state /\ changes' = changes /\ feed' = feed /\ hist' = hist /\ loop' = loop /\ due' = due
      /\ s2c' = s2c /\ c2s' = c2s /\ dirty' = dirty /\ retry' = retry
  BY DEF vars, tab, wire, server
<1>3. TypeOK'
  BY <1>1, <1>2 DEF TypeOK, Revisions
<1>4. Wired'
  BY <1>1, <1>2 DEF Wired
<1>5. Connected' /\ Counted'
  BY <1>1, <1>2 DEF Connected, Counted
<1>6. QueueFits(queue, cmd, sent)'
  BY <1>1, <1>2 DEF QueueFits
<1>. QED BY <1>3, <1>4, <1>5, <1>6 DEF LiveInv

LEMMA Steps == ASSUME LiveInv, [Next]_vars PROVE LiveInv'
<1>1. ASSUME NEW d \in Sidebars, Change(d) PROVE LiveInv'
  BY <1>1, ChangeFits
<1>2. CASE BroadcastBegin
  BY <1>2, BroadcastBeginFits
<1>3. CASE BroadcastReach
  BY <1>3, BroadcastReachFits
<1>4. CASE OtherTopic
  BY <1>4, OtherTopicFits
<1>5. CASE RetryTimer
  BY <1>5, RetryTimerFits
<1>6. CASE Drain
  BY <1>6, DrainFits
<1>7. CASE Handle
  BY <1>7, HandleSubscribeFits, HandleUnsubscribeFits, HandlePingFits, HandleCommandFits DEF Handle
<1>8. CASE Open
  BY <1>8, OpenFits
<1>9. CASE Die
  BY <1>9, DieFits
<1>10. CASE Close
  BY <1>10, CloseFits
<1>11. CASE ReconnectTimer
  BY <1>11, ReconnectTimerFits
<1>12. CASE EnsureHealthy
  BY <1>12, EnsureHealthyFits
<1>13. CASE PingTimeout
  BY <1>13, PingTimeoutFits
<1>14. ASSUME NEW k \in Commands, Command(k) \/ AckTimeout(k) PROVE LiveInv'
  BY <1>14, CommandFits, AckTimeoutFits
<1>15. CASE Receive
  BY <1>15, ReceivePatchFits, ReceiveFullFits, ReceiveAnswerFits DEF Receive
<1>16. CASE Remount
  BY <1>16, RemountFits
<1>17. CASE UNCHANGED vars
  BY <1>17, Stutters
<1>. QED BY <1>1, <1>2, <1>3, <1>4, <1>5, <1>6, <1>7, <1>8, <1>9, <1>10, <1>11, <1>12, <1>13, <1>14, <1>15, <1>16,
            <1>17 DEF Next

\* The invariant holds in every reachable state.
THEOREM LiveInvariant == Spec => []LiveInv
<1>. QED BY Initially, Steps, PTL DEF Spec

\* The variables keep their types: what the tab shows is a sidebar, no revision is later
\* than the changes allow, and no subscription than the mounts.
THEOREM LiveTyped == Spec => []TypeOK
<1>1. LiveInv => TypeOK
  BY DEF LiveInv
<1>. QED BY <1>1, LiveInvariant, PTL

\* Every patch under way follows what the tab will hold when it arrives, whatever the
\* socket drops, however often it reconnects, and in whatever order broadcasts of older
\* and newer sidebars reach it.
THEOREM PatchesFollow == Spec => []PatchesFit
<1>1. LiveInv => PatchesFit
  BY DEF LiveInv, Wired, PatchesFit
<1>. QED BY <1>1, LiveInvariant, PTL

\* The branch of socket.ts:365 that forgets the base and subscribes again is never taken:
\* a patch for the present subscription is always applied, and gives the sidebar the
\* server derived at that revision.
AppliedAsDerived ==
    [][ReceivePatch /\ Head(s2c).id = sub =>
          /\ Fits(Head(s2c))
          /\ base' = [rev |-> Head(s2c).to, data |-> hist[Head(s2c).to]]]_vars

THEOREM PatchesApply == Spec => AppliedAsDerived
<1>1. ASSUME LiveInv, ReceivePatch, Head(s2c).id = sub
      PROVE  Fits(Head(s2c)) /\ base' = [rev |-> Head(s2c).to, data |-> hist[Head(s2c).to]]
  <2>1. s2c # <<>> /\ IsFor(Head(s2c), sub)
    BY <1>1 DEF ReceivePatch, Receive1, IsFor
  <2>2. Fits(Head(s2c)) /\ Applied(Head(s2c)) = hist[Head(s2c).to]
    BY <1>1, <2>1, FirstPatchFits
  <2>3. base' = [rev |-> Head(s2c).to, data |-> Applied(Head(s2c))]
    BY <1>1, <2>2 DEF ReceivePatch
  <2>. QED BY <2>2, <2>3
<1>2. LiveInv => [ReceivePatch /\ Head(s2c).id = sub =>
          /\ Fits(Head(s2c))
          /\ base' = [rev |-> Head(s2c).to, data |-> hist[Head(s2c).to]]]_vars
  BY <1>1
<1>. QED BY <1>2, LiveInvariant, PTL DEF AppliedAsDerived

LEMMA SendsFit ==
    ASSUME LiveInv, Next, NEW k \in Commands, sent'[k] # sent[k]
    PROVE  sent'[k] = 1 /\ cmd[k] \in {"new", "pending"} /\ cmd'[k] = "pending"
<1>1. sent \in [Commands -> Nat] /\ cmd \in [Commands -> {"new", "pending", "settled"}]
      /\ QueueFits(queue, cmd, sent)
  BY TabReady
<1>2. CASE Open
  <2>1. sent'[k] = sent[k] + FlushedCount(k) /\ cmd' = cmd
    BY <1>2 DEF Open, FlushedCount
  <2>2. FlushedCount(k) \in {0, 1} /\ (FlushedCount(k) # 0 => cmd[k] = "pending" /\ sent[k] = 0)
    BY FlushedOnce
  <2>. QED BY <1>1, <2>1, <2>2
<1>3. ASSUME NEW j \in Commands, Command(j)
      PROVE  sent'[k] = 1 /\ cmd[k] \in {"new", "pending"} /\ cmd'[k] = "pending"
  <2>1. cmd[j] = "new" /\ cmd' = [cmd EXCEPT ![j] = "pending"]
        /\ (sent' = [sent EXCEPT ![j] = @ + 1] \/ sent' = sent)
    BY <1>3 DEF Command
  <2>2. j = k
    BY <1>1, <2>1
  <2>3. sent[k] = 0
    BY <1>1, <2>1, <2>2 DEF QueueFits
  <2>. QED BY <1>1, <2>1, <2>2, <2>3
<1>4. ASSUME NEW j \in Commands, AckTimeout(j) PROVE sent' = sent
  BY <1>4 DEF AckTimeout
<1>5. ASSUME NEW d \in Sidebars, Change(d) PROVE sent' = sent
  BY <1>5 DEF Change, tab
<1>6. CASE BroadcastBegin \/ BroadcastReach \/ OtherTopic \/ RetryTimer \/ Drain \/ Handle
  BY <1>6 DEF BroadcastBegin, BroadcastReach, OtherTopic, RetryTimer, Drain, Handle,
              HandleSubscribe, HandleUnsubscribe, HandlePing, HandleCommand, tab
<1>7. CASE Die \/ Close \/ ReconnectTimer \/ EnsureHealthy \/ PingTimeout \/ Receive \/ Remount
  BY <1>7 DEF Die, Close, ReconnectTimer, EnsureHealthy, PingTimeout, Receive, ReceivePatch, ReceiveFull,
              ReceiveAnswer, Remount
<1>. QED BY <1>2, <1>3, <1>4, <1>5, <1>6, <1>7 DEF Next

\* A command goes over a connection at most once, and only while its caller waits.
THEOREM CommandsSentOnce == Spec => SentWhileAwaited
<1>1. LiveInv /\ [Next]_vars =>
        [\A k \in Commands : sent'[k] # sent[k] =>
            sent'[k] = 1 /\ cmd[k] \in {"new", "pending"} /\ cmd'[k] = "pending"]_vars
  <2>1. CASE UNCHANGED vars
    BY <2>1
  <2>2. CASE Next
    BY <2>2, SendsFit
  <2>. QED BY <2>1, <2>2
<1>. QED BY <1>1, LiveInvariant, PTL DEF Spec, SentWhileAwaited
=============================================================================
