-------------------------- MODULE PreparationProofs --------------------------
(***************************************************************************)
(* What the preparation of a turn promises for any bounds on edits, stops  *)
(* and reviews opened again: types, the order of the stages, one owner,    *)
(* the engine of an approval, that what ended is not booted as well, and   *)
(* that nothing which computes during a stop parks a gate after it.        *)
(*                                                                         *)
(* The invariant Fits says of each coroutine at which of its awaits a      *)
(* write or a gate of its may be pending (Flows), how far the stages must  *)
(* be where the driver is (Staged), what a tab is shown meanwhile          *)
(* (CardsFit), who may move the turn on (Owned), what an approval carries  *)
(* to the boot (Approved), and how long the reservation is held (HeldFits, *)
(* EndFits).  EndFits is broken between two assignments of one step, so    *)
(* the lemmas of the helpers distinguish it from the rest (Core).          *)
(*                                                                         *)
(* A step is a composition of the helpers of Preparation.  Each helper has *)
(* a lemma: in a state of the right type that fits, and where its caller   *)
(* stands, it gives such a state again.  Only...(c, d) says that d differs *)
(* from c in what the name tells at most.                                  *)
(*                                                                         *)
(* What a stop leaves behind is a second invariant, Still, with the same   *)
(* lemmas once more: Calm(c, d) says of a helper that it keeps Still, and  *)
(* that it parks no fresh gate in a turn that was stopped.                 *)
(***************************************************************************)
EXTENDS Preparation, SequenceTheorems, FiniteSetTheorems, TLAPS

---------------------------------------------------------------------------
(* Types *)

PAts == {"shell", "parse", "result", "gate", "decide", "done"}
TAts == {"task", "stepone", "shell", "continue", "card", "gate", "settle", "decide", "done"}
Late == {"skeleton", "work", "result", "gate", "decide", "reset", "review", "reviewed", "rescan",
         "preview", "receipt", "auto", "boot"}
MainAts == Late \cup {"stages", "repark", "refresh", "rework", "failing", "failed", "over"}
Active == {"decide", "dismiss", "directory", "engine", "failing", "failed"}
Outs == {"none", "handled", "cancelled", "failed", "found", "nothing"}
Statuses == {"none", "previewing", "starting"}

Who == {P, T, Main, Fin, Stopper, Nobody} \cup {Again(i) : i \in Nat}

AgainRecord == [at : {"reset", "gate", "decide", "done"}, out : Outs]

\* The turns with n reviews opened again and the library at version l.
State(n, l) ==
    [chain : Seq(Who),
     p : [at : PAts, out : Outs],
     t : [at : TAts, out : Outs, base : Nat, shell : {"none", "writing", "shown"}],
     main : [at : MainAts, step : Reviews, out : Outs, want : SUBSET Reviews,
             xfer : BOOLEAN, parent : BOOLEAN, resumed : BOOLEAN],
     again : [1 .. n -> AgainRecord],
     prep : [on : BOOLEAN, aborted : BOOLEAN, reopened : BOOLEAN],
     gate : [Reviews -> Who],
     pv : [parked : BOOLEAN, shown : BOOLEAN, view : 0 .. l],
     claim : BOOLEAN, planning : BOOLEAN,
     fin : [at : Active \cup {"off", "done"},
            decision : {"none", "auto", "dismiss", "without", "go_on"}, approved : Nat, plan : Nat],
     held : BOOLEAN, stopped : BOOLEAN, settled : BOOLEAN, status : Statuses,
     flag : BOOLEAN, waiting : BOOLEAN, rec : {"no", "interrupted", "cancelled", "done"},
     scope : BOOLEAN, branches : BOOLEAN, lib : {l},
     card : [Reviews \cup {"preview"} -> Looks],
     outcome : SUBSET {"booted", "failed", "cancelled"}]

---------------------------------------------------------------------------
(* The invariant *)

Has(c, w) == \E i \in 1 .. Len(c.chain) : c.chain[i] = w
Once(c)   == \A i, j \in 1 .. Len(c.chain) : c.chain[i] = c.chain[j] => i = j

Rounds(c)    == DOMAIN c.again
AgainDone(c) == \A i \in Rounds(c) : c.again[i].at = "done"

\* Who awaits a write, and who waits at a gate, is where the code does.
PFits(c) ==
    /\ Has(c, P) => c.p.at \in {"shell", "result", "decide"}
    /\ \A r \in Reviews : c.gate[r] = P => r = "proposals" /\ c.p.at = "gate"

TFits(c) ==
    /\ Has(c, T) => c.t.shell = "writing" \/ c.t.at \in {"card", "settle", "decide"}
    /\ \A r \in Reviews : c.gate[r] = T => r = "transfer" /\ c.t.at \in {"card", "gate"}
    /\ c.t.shell = "writing" => c.t.at \in {"task", "shell", "settle"} /\ c.p.at = "done"
    /\ c.t.at = "shell" => c.t.shell = "writing"
    /\ c.t.at = "stepone" => c.p.at # "done"
    /\ c.t.at \in {"gate", "decide"} => c.t.shell = "shown"
    /\ c.t.at = "settle" => c.t.shell # "none"

AgainFits(c) ==
    \A i \in Nat :
        /\ Has(c, Again(i)) => i \in Rounds(c) /\ c.again[i].at \in {"reset", "decide"}
        /\ \A r \in Reviews : c.gate[r] = Again(i) =>
               r = "proposals" /\ i \in Rounds(c) /\ c.again[i].at = "gate"

Writes == {"skeleton", "result", "decide", "reset", "reviewed", "rescan", "preview", "receipt",
           "auto", "failing", "failed"}

MainFits(c) ==
    /\ Has(c, Main) => c.main.at \in Writes
    /\ \A r \in Reviews : c.gate[r] = Main =>
           \/ r = "checkup" /\ c.main.at = "gate"
           \/ r # "checkup" /\ c.main.at = "review" /\ c.main.step = r
    /\ c.main.at \in {"reset", "review", "reviewed"} => c.main.step # "checkup"

OthersFit(c) ==
    /\ Has(c, Fin) => c.fin.at \in {"decide", "dismiss", "failing", "failed"}
    /\ Has(c, Stopper) => c.rec \in {"interrupted", "cancelled"}
    /\ ~Has(c, Nobody)
    /\ \A r \in Reviews : c.gate[r] \notin {Fin, Stopper}

\* Nothing but the driver may move the turn on.
Idle(c)       == ~c.pv.parked /\ ~c.planning /\ c.fin.at \notin Active
StagesDone(c) == c.p.at = "done" /\ c.t.at = "done" /\ AgainDone(c)

Staged(c) ==
    /\ c.main.at \in Late \/ ~Idle(c) => StagesDone(c) /\ ~c.prep.on
    /\ c.main.at \in {"refresh", "rework"} => c.p.at = "done" /\ AgainDone(c)
    /\ c.main.at = "rework" => ~c.prep.on
    /\ c.main.at = "repark" => c.p.at = "done" /\ c.t.at = "done" /\ c.t.out # "failed"
    /\ c.prep.on => ~c.main.resumed

\* What a tab is shown keeps Step 1 from being opened again during the refresh.
CardsFit(c) ==
    /\ c.prep.on => c.card["checkup"] = "none" /\ c.card["preview"] = "none"
    /\ c.prep.reopened => c.card["transfer"] # "none"
    /\ c.main.at = "refresh" => c.card["transfer"] \in {"answered", "settled"} /\ c.t.shell = "shown"
    /\ c.main.at \in {"stages", "repark"} /\ c.t.at = "done" /\ c.t.out # "failed"
           => c.card["transfer"] \in {"none", "answered", "settled"}
    /\ c.main.at = "stages" /\ c.t.shell # "shown" => c.card["transfer"] = "none"

Owned(c) ==
    /\ c.main.at \notin {"preview", "boot", "over"} => Idle(c)
    /\ c.main.at = "preview" => ~c.planning /\ c.fin.at \notin Active
    /\ c.main.at = "boot" => ~c.pv.parked /\ ~c.planning /\ c.fin.decision = "auto"
    /\ c.pv.parked \/ c.fin.at \in Active => ~c.planning
    /\ c.fin.at \in Active => ~c.pv.parked
    /\ c.planning => c.claim
    /\ c.fin.decision = "auto" =>
           /\ c.main.at \in {"boot", "failing", "failed", "over"}
           /\ ~c.pv.parked /\ ~c.planning /\ ~c.claim
    /\ c.fin.decision = "auto" /\ c.fin.at \in Active =>
           c.main.at = "boot" /\ c.fin.at \in {"directory", "engine"}
    /\ c.fin.at = "dismiss" => c.fin.decision = "dismiss"

Approved(c) ==
    /\ c.fin.at \in Active /\ c.fin.decision = "go_on" => c.fin.approved = c.pv.view
    /\ c.fin.at = "engine" /\ c.fin.decision = "go_on" => c.fin.plan = c.fin.approved

\* What still runs is reserved, and what was stopped is remembered.
HeldFits(c) ==
    /\ ~c.held => c.main.at = "over" /\ Idle(c)
    /\ c.settled => c.main.at = "over" /\ c.fin.at \notin Active
    /\ c.rec # "no" \/ c.waiting => c.stopped \/ ~c.held

\* What ended has given the reservation back, unless it was stopped.
EndFits(c) ==
    /\ c.outcome # {} => c.stopped \/ ~c.held
    /\ "booted" \in c.outcome => c.outcome = {"booted"} /\ ~c.stopped /\ c.rec = "no"
    /\ c.claim => c.planning \/ c.fin.at \in Active
    /\ c.main.at = "preview" => ~c.pv.shown

Flows(c) == PFits(c) /\ TFits(c) /\ AgainFits(c) /\ MainFits(c) /\ OthersFit(c)
Core(c) ==
    Once(c) /\ Flows(c) /\ Staged(c) /\ CardsFit(c) /\ Owned(c) /\ Approved(c) /\ HeldFits(c)
Fits(c) == Core(c) /\ EndFits(c)

---------------------------------------------------------------------------
(* What a step leaves alone *)

KeepStages(c, d) == d.p = c.p /\ d.t = c.t /\ d.again = c.again
KeepBoard(c, d)  == d.chain = c.chain /\ d.gate = c.gate /\ d.card = c.card
KeepOwners(c, d) == d.pv = c.pv /\ d.claim = c.claim /\ d.planning = c.planning /\ d.fin = c.fin
KeepHold(c, d) ==
    /\ d.prep = c.prep /\ d.held = c.held /\ d.stopped = c.stopped /\ d.settled = c.settled
    /\ d.status = c.status /\ d.waiting = c.waiting /\ d.rec = c.rec /\ d.outcome = c.outcome
KeepRest(c, d)   == d.flag = c.flag /\ d.scope = c.scope /\ d.branches = c.branches /\ d.lib = c.lib

\* What no coroutine takes back, and only an end adds to.
Stays(c, d) == d.outcome = c.outcome /\ (c.stopped => d.stopped) /\ (~c.held => ~d.held)

LEMMA StaysOn ==
    ASSUME NEW c, NEW d, NEW e, Stays(c, d), Stays(d, e)
    PROVE  Stays(c, e)
  BY DEF Stays

LEMMA StaysWith ==
    ASSUME NEW c, NEW d, d.outcome = c.outcome, d.stopped = c.stopped, d.held = c.held
    PROVE  Stays(c, d)
  BY DEF Stays

---------------------------------------------------------------------------
(* Coroutines, gates, writes and cards *)

LEMMA NamesDiffer ==
    /\ P # T /\ P # Main /\ P # Fin /\ P # Stopper /\ P # Nobody
    /\ T # Main /\ T # Fin /\ T # Stopper /\ T # Nobody
    /\ Main # Fin /\ Main # Stopper /\ Main # Nobody
    /\ Fin # Stopper /\ Fin # Nobody /\ Stopper # Nobody
    /\ \A i \in Nat : Again(i) \notin {P, T, Main, Fin, Stopper, Nobody}
    /\ \A i, j \in Nat : Again(i) = Again(j) => i = j
  BY DEF P, T, Main, Fin, Stopper, Nobody, Again

LEMMA Names ==
    /\ P \in Who /\ T \in Who /\ Main \in Who /\ Fin \in Who /\ Stopper \in Who /\ Nobody \in Who
    /\ \A i \in Nat : Again(i) \in Who
    /\ \A w \in Who : w \in {P, T, Main, Fin, Stopper, Nobody} \/ \E i \in Nat : w = Again(i)
    /\ \A i \in Nat : Again(i)[1] = "again" /\ Again(i)[2] = i
    /\ P[1] # "again" /\ T[1] # "again" /\ Main[1] # "again" /\ Nobody[1] # "again"
    /\ Fin[1] # "again" /\ Stopper[1] # "again"
<1>1. \A i \in Nat : Again(i)[1] = "again" /\ Again(i)[2] = i
  BY DEF Again
<1>2. P[1] # "again" /\ T[1] # "again" /\ Main[1] # "again" /\ Nobody[1] # "again"
      /\ Fin[1] # "again" /\ Stopper[1] # "again"
  BY DEF P, T, Main, Nobody, Fin, Stopper
<1> QED
  BY <1>1, <1>2 DEF Who

\* One more write pending, for w.
Pushed(c, d, w) ==
    /\ \A x \in Who : Has(d, x) <=> Has(c, x) \/ x = w
    /\ ~Has(c, w) /\ Once(c) => Once(d)

LEMMA AppendHas ==
    ASSUME NEW q \in Seq(Who), NEW w \in Who, NEW c, NEW d, c.chain = q, d.chain = Append(q, w)
    PROVE  Pushed(c, d, w)
<1> DEFINE qq == Append(q, w)
<1>1. Len(q) \in Nat /\ Len(qq) = Len(q) + 1 /\ qq[Len(q) + 1] = w
      /\ \A i \in 1 .. Len(q) : qq[i] = q[i]
  OBVIOUS
<1>2. d.chain = qq
  OBVIOUS
<1> HIDE DEF qq
<1>3. \A i \in 1 .. Len(qq) : i \in 1 .. Len(q) \/ i = Len(q) + 1
  BY <1>1
<1>4. ASSUME NEW x \in Who PROVE Has(d, x) <=> Has(c, x) \/ x = w
  <2>1. Has(d, x) => Has(c, x) \/ x = w
    BY <1>1, <1>2, <1>3 DEF Has
  <2>2. (Has(c, x) => Has(d, x)) /\ Has(d, w)
    BY <1>1, <1>2 DEF Has
  <2> QED
    BY <2>1, <2>2
<1>5. ASSUME ~Has(c, w), Once(c) PROVE Once(d)
  BY <1>1, <1>2, <1>3, <1>5 DEF Once, Has
<1> QED
  BY <1>4, <1>5 DEF Pushed

\* The write at the head of the chain is done: nobody waits for it any more.
LEMMA TailHas ==
    ASSUME NEW q \in Seq(Who), q # <<>>, NEW c, NEW d, c.chain = q, d.chain = Tail(q), Once(c)
    PROVE  Once(d) /\ ~Has(d, Head(q)) /\ Has(c, Head(q)) /\ \A x \in Who : Has(d, x) => Has(c, x)
<1> DEFINE qq == Tail(q)
<1>1. Len(q) \in Nat /\ Len(q) > 0 /\ Len(qq) = Len(q) - 1 /\ Head(q) = q[1]
      /\ \A i \in 1 .. Len(qq) : qq[i] = q[i + 1]
  OBVIOUS
<1>2. d.chain = qq
  OBVIOUS
<1> HIDE DEF qq
<1>3. \A i \in 1 .. Len(qq) : i + 1 \in 1 .. Len(q)
  BY <1>1
<1>4. Once(d)
  BY <1>1, <1>2, <1>3 DEF Once
<1>5. ~Has(d, Head(q))
  BY <1>1, <1>2, <1>3 DEF Once, Has
<1>6. Has(c, Head(q))
  BY <1>1 DEF Has
<1>7. \A x \in Who : Has(d, x) => Has(c, x)
  BY <1>1, <1>2, <1>3 DEF Has
<1> QED
  BY <1>4, <1>5, <1>6, <1>7

\* Who may ask for a write.
MayAwait(c, w) ==
    /\ w # Nobody
    /\ w = P => c.p.at \in {"shell", "result", "decide"}
    /\ w = T => c.t.shell = "writing" \/ c.t.at \in {"card", "settle", "decide"}
    /\ w = Main => c.main.at \in Writes
    /\ w = Fin => c.fin.at \in {"decide", "dismiss", "failing", "failed"}
    /\ w = Stopper => c.rec \in {"interrupted", "cancelled"}
    /\ \A i \in Nat : w = Again(i) => i \in Rounds(c) /\ c.again[i].at \in {"reset", "decide"}

OnlyChain(c, d) ==
    /\ KeepStages(c, d) /\ d.main = c.main /\ d.gate = c.gate /\ d.card = c.card
    /\ KeepOwners(c, d) /\ KeepHold(c, d) /\ KeepRest(c, d)

LEMMA PushIsTyped ==
    ASSUME NEW n \in Nat, NEW l \in Nat, NEW c \in State(n, l), NEW w \in Who
    PROVE  Push(c, w) \in State(n, l) /\ OnlyChain(c, Push(c, w)) /\ Pushed(c, Push(c, w), w)
<1> DEFINE q == Append(c.chain, w)
           e == [c EXCEPT !.chain = q]
<1>1. c.chain \in Seq(Who)
  BY DEF State
<1>2. q \in Seq(Who)
  BY <1>1
<1>3. Push(c, w) = e
  BY DEF Push
<1> HIDE DEF q
<1>4. e \in State(n, l)
  BY <1>2 DEF State
<1>5. OnlyChain(c, e) /\ e.chain = q
  BY <1>2 DEF State, OnlyChain, KeepStages, KeepOwners, KeepHold, KeepRest
<1> HIDE DEF e
<1>6. Pushed(c, e, w)
  BY <1>1, <1>5, AppendHas DEF q
<1> QED
  BY <1>3, <1>4, <1>5, <1>6

LEMMA ChainKeepsRest ==
    ASSUME NEW c, NEW d, OnlyChain(c, d)
    PROVE  /\ Staged(c) => Staged(d)
           /\ CardsFit(c) => CardsFit(d)
           /\ Owned(c) => Owned(d)
           /\ Approved(c) => Approved(d)
           /\ HeldFits(c) => HeldFits(d)
           /\ EndFits(c) => EndFits(d)
           /\ Stays(c, d)
  BY DEF OnlyChain, KeepStages, KeepOwners, KeepHold, Staged, CardsFit, Owned, Approved, HeldFits,
         EndFits, Idle, StagesDone, AgainDone, Rounds, Stays

LEMMA PushFlows ==
    ASSUME NEW n \in Nat, NEW l \in Nat, NEW c \in State(n, l), NEW w \in Who, Flows(c),
           NEW d, OnlyChain(c, d), Pushed(c, d, w), MayAwait(c, w)
    PROVE  Flows(d)
<1>1. d.p = c.p /\ d.t = c.t /\ d.again = c.again /\ d.main = c.main /\ d.fin = c.fin
      /\ d.gate = c.gate /\ d.rec = c.rec
  BY DEF OnlyChain, KeepStages, KeepOwners, KeepHold
<1>2. PFits(d) /\ TFits(d) /\ MainFits(d)
  BY <1>1, Names DEF Flows, PFits, TFits, MainFits, Pushed, MayAwait
<1>3. AgainFits(d)
  BY <1>1, Names DEF Flows, AgainFits, Pushed, MayAwait, Rounds
<1>4. OthersFit(d)
  BY <1>1, Names DEF Flows, OthersFit, Pushed, MayAwait
<1> QED
  BY <1>2, <1>3, <1>4 DEF Flows

LEMMA PushCore ==
    ASSUME NEW n \in Nat, NEW l \in Nat, NEW c \in State(n, l), NEW w \in Who, Core(c), ~Has(c, w),
           MayAwait(c, w)
    PROVE  /\ Push(c, w) \in State(n, l) /\ OnlyChain(c, Push(c, w)) /\ Core(Push(c, w))
           /\ EndFits(c) => EndFits(Push(c, w))
           /\ Stays(c, Push(c, w))
           /\ \A x \in Who : Has(Push(c, w), x) <=> Has(c, x) \/ x = w
  BY PushIsTyped, PushFlows, ChainKeepsRest DEF Core, Pushed

LEMMA PushFits ==
    ASSUME NEW n \in Nat, NEW l \in Nat, NEW c \in State(n, l), NEW w \in Who, Fits(c), ~Has(c, w),
           MayAwait(c, w)
    PROVE  Push(c, w) \in State(n, l) /\ Fits(Push(c, w)) /\ Stays(c, Push(c, w))
  BY PushCore DEF Fits

OnlyGate(c, d) ==
    /\ KeepStages(c, d) /\ d.main = c.main /\ d.chain = c.chain /\ d.card = c.card
    /\ KeepOwners(c, d) /\ KeepHold(c, d) /\ KeepRest(c, d)

\* Who may wait at the gate of r, or nobody.
MayGuard(c, r, w) ==
    /\ w \notin {Fin, Stopper}
    /\ w = P => r = "proposals" /\ c.p.at = "gate"
    /\ w = T => r = "transfer" /\ c.t.at \in {"card", "gate"}
    /\ w = Main => \/ r = "checkup" /\ c.main.at = "gate"
                   \/ r # "checkup" /\ c.main.at = "review" /\ c.main.step = r
    /\ \A i \in Nat : w = Again(i) => r = "proposals" /\ i \in Rounds(c) /\ c.again[i].at = "gate"

LEMMA ParkIsTyped ==
    ASSUME NEW n \in Nat, NEW l \in Nat, NEW c \in State(n, l), NEW r \in Reviews, NEW w \in Who
    PROVE  /\ ParkGate(c, r, w) \in State(n, l) /\ OnlyGate(c, ParkGate(c, r, w))
           /\ ParkGate(c, r, w).gate[r] = w
           /\ \A x \in Reviews : x # r => ParkGate(c, r, w).gate[x] = c.gate[x]
<1> DEFINE e == [c EXCEPT !.gate[r] = w]
<1>1. e \in State(n, l)
  BY DEF State
<1>2. OnlyGate(c, e) /\ e.gate[r] = w /\ \A x \in Reviews : x # r => e.gate[x] = c.gate[x]
  BY DEF State, OnlyGate, KeepStages, KeepOwners, KeepHold, KeepRest
<1> QED
  BY <1>1, <1>2 DEF ParkGate

LEMMA GateKeepsRest ==
    ASSUME NEW c, NEW d, OnlyGate(c, d)
    PROVE  /\ Once(c) => Once(d)
           /\ Staged(c) => Staged(d)
           /\ CardsFit(c) => CardsFit(d)
           /\ Owned(c) => Owned(d)
           /\ Approved(c) => Approved(d)
           /\ HeldFits(c) => HeldFits(d)
           /\ EndFits(c) => EndFits(d)
           /\ Stays(c, d)
           /\ \A x \in Who : Has(d, x) <=> Has(c, x)
  BY DEF OnlyGate, KeepStages, KeepOwners, KeepHold, Once, Staged, CardsFit, Owned, Approved, HeldFits,
         EndFits, Idle, StagesDone, AgainDone, Rounds, Stays, Has

LEMMA ParkCore ==
    ASSUME NEW n \in Nat, NEW l \in Nat, NEW c \in State(n, l), NEW r \in Reviews, NEW w \in Who,
           Core(c), MayGuard(c, r, w)
    PROVE  /\ ParkGate(c, r, w) \in State(n, l) /\ Core(ParkGate(c, r, w))
           /\ EndFits(c) => EndFits(ParkGate(c, r, w))
           /\ OnlyGate(c, ParkGate(c, r, w)) /\ Stays(c, ParkGate(c, r, w))
           /\ ParkGate(c, r, w).gate[r] = w
           /\ \A x \in Reviews : x # r => ParkGate(c, r, w).gate[x] = c.gate[x]
           /\ \A x \in Who : Has(ParkGate(c, r, w), x) <=> Has(c, x)
<1> DEFINE d == ParkGate(c, r, w)
<1>1. /\ d \in State(n, l) /\ OnlyGate(c, d) /\ d.gate[r] = w
      /\ \A x \in Reviews : x # r => d.gate[x] = c.gate[x]
  BY ParkIsTyped
<1> HIDE DEF d
<1>2. d.p = c.p /\ d.t = c.t /\ d.again = c.again /\ d.main = c.main /\ d.fin = c.fin /\ d.rec = c.rec
  BY <1>1 DEF OnlyGate, KeepStages, KeepOwners, KeepHold
<1>3. \A x \in Who : Has(d, x) <=> Has(c, x)
  BY <1>1, GateKeepsRest
<1>4. PFits(d) /\ TFits(d) /\ MainFits(d)
  BY <1>1, <1>2, <1>3, Names DEF Core, Flows, PFits, TFits, MainFits, MayGuard
<1>5. AgainFits(d) /\ OthersFit(d)
  BY <1>1, <1>2, <1>3, Names DEF Core, Flows, AgainFits, OthersFit, MayGuard, Rounds
<1>6. Core(d)
  BY <1>1, <1>4, <1>5, GateKeepsRest DEF Core, Flows
<1> QED
  BY <1>1, <1>3, <1>6, GateKeepsRest DEF d

\* The gate of r is free.
LEMMA UnparkFits ==
    ASSUME NEW n \in Nat, NEW l \in Nat, NEW c \in State(n, l), NEW r \in Reviews, Fits(c)
    PROVE  /\ ParkGate(c, r, Nobody) \in State(n, l) /\ Fits(ParkGate(c, r, Nobody))
           /\ OnlyGate(c, ParkGate(c, r, Nobody)) /\ Stays(c, ParkGate(c, r, Nobody))
           /\ ParkGate(c, r, Nobody).gate[r] = Nobody
           /\ \A x \in Reviews : x # r => ParkGate(c, r, Nobody).gate[x] = c.gate[x]
           /\ \A x \in Who : Has(ParkGate(c, r, Nobody), x) <=> Has(c, x)
<1>1. MayGuard(c, r, Nobody)
  BY NamesDiffer DEF MayGuard
<1> QED
  BY <1>1, ParkCore, Names DEF Fits

LEMMA ParkFits ==
    ASSUME NEW n \in Nat, NEW l \in Nat, NEW c \in State(n, l), NEW r \in Reviews, NEW w \in Who,
           Fits(c), MayGuard(c, r, w)
    PROVE  /\ ParkGate(c, r, w) \in State(n, l) /\ Fits(ParkGate(c, r, w))
           /\ OnlyGate(c, ParkGate(c, r, w)) /\ Stays(c, ParkGate(c, r, w))
           /\ \A x \in Who : Has(ParkGate(c, r, w), x) <=> Has(c, x)
  BY ParkCore DEF Fits

OnlyCard(c, d) ==
    /\ KeepStages(c, d) /\ d.main = c.main /\ d.chain = c.chain /\ d.gate = c.gate
    /\ KeepOwners(c, d) /\ KeepHold(c, d) /\ KeepRest(c, d)

LEMMA CardKeepsRest ==
    ASSUME NEW c, NEW d, OnlyCard(c, d)
    PROVE  /\ Core(c) /\ CardsFit(d) => Core(d)
           /\ EndFits(c) => EndFits(d)
           /\ Stays(c, d)
           /\ \A x \in Who : Has(d, x) <=> Has(c, x)
<1>1. \A x : Has(d, x) <=> Has(c, x)
  BY DEF OnlyCard, Has
<1>2. Flows(c) => Flows(d)
  BY <1>1 DEF OnlyCard, KeepStages, KeepOwners, KeepHold, Flows, PFits, TFits, AgainFits, MainFits,
              OthersFit, Rounds
<1>3. /\ Once(c) => Once(d)
      /\ Staged(c) => Staged(d)
      /\ Owned(c) => Owned(d)
      /\ Approved(c) => Approved(d)
      /\ HeldFits(c) => HeldFits(d)
      /\ EndFits(c) => EndFits(d)
  BY DEF OnlyCard, KeepStages, KeepOwners, KeepHold, Once, Staged, Owned, Approved, HeldFits,
         EndFits, Idle, StagesDone, AgainDone, Rounds
<1>4. Stays(c, d)
  BY DEF OnlyCard, KeepHold, Stays
<1> QED
  BY <1>1, <1>2, <1>3, <1>4 DEF Core

\* When the card of r may look so.
MayLook(c, r, look) ==
    /\ r \in {"checkup", "preview"} => ~c.prep.on
    /\ r = "transfer" =>
         /\ c.main.at = "refresh" => look \in {"answered", "settled"}
         /\ c.main.at \in {"stages", "repark"} /\ c.t.at = "done" => look \in {"answered", "settled"}
         /\ c.main.at = "stages" => c.t.shell = "shown"

LEMMA ShowIsTyped ==
    ASSUME NEW n \in Nat, NEW l \in Nat, NEW c \in State(n, l), NEW r \in Reviews \cup {"preview"},
           NEW look \in Looks
    PROVE  /\ Show(c, r, look) \in State(n, l) /\ OnlyCard(c, Show(c, r, look))
           /\ Show(c, r, look).card[r] = look
           /\ \A x \in Reviews \cup {"preview"} : x # r => Show(c, r, look).card[x] = c.card[x]
<1> DEFINE e == [c EXCEPT !.card[r] = look]
<1>1. e \in State(n, l)
  BY DEF State
<1>2. OnlyCard(c, e) /\ e.card[r] = look /\ \A x \in Reviews \cup {"preview"} : x # r => e.card[x] = c.card[x]
  BY DEF State, OnlyCard, KeepStages, KeepOwners, KeepHold, KeepRest
<1> QED
  BY <1>1, <1>2 DEF Show

LEMMA ShowCore ==
    ASSUME NEW n \in Nat, NEW l \in Nat, NEW c \in State(n, l), NEW r \in Reviews \cup {"preview"},
           NEW look \in Looks, look # "none", Core(c), MayLook(c, r, look)
    PROVE  /\ Show(c, r, look) \in State(n, l) /\ OnlyCard(c, Show(c, r, look)) /\ Core(Show(c, r, look))
           /\ EndFits(c) => EndFits(Show(c, r, look))
           /\ Stays(c, Show(c, r, look))
           /\ \A x \in Who : Has(Show(c, r, look), x) <=> Has(c, x)
<1> DEFINE d == Show(c, r, look)
<1>1. /\ d \in State(n, l) /\ OnlyCard(c, d) /\ d.card[r] = look
      /\ \A x \in Reviews \cup {"preview"} : x # r => d.card[x] = c.card[x]
  BY ShowIsTyped
<1> HIDE DEF d
<1>2. d.prep = c.prep /\ d.main = c.main /\ d.t = c.t
  BY <1>1 DEF OnlyCard, KeepStages, KeepHold
<1>3. CardsFit(d)
  BY <1>1, <1>2 DEF Core, CardsFit, MayLook, Reviews
<1> QED
  BY <1>1, <1>3, CardKeepsRest DEF d

LEMMA ShowFits ==
    ASSUME NEW n \in Nat, NEW l \in Nat, NEW c \in State(n, l), NEW r \in Reviews \cup {"preview"},
           NEW look \in Looks, look # "none", Fits(c), MayLook(c, r, look)
    PROVE  /\ Show(c, r, look) \in State(n, l) /\ OnlyCard(c, Show(c, r, look)) /\ Fits(Show(c, r, look))
           /\ Stays(c, Show(c, r, look))
           /\ \A x \in Who : Has(Show(c, r, look), x) <=> Has(c, x)
  BY ShowCore DEF Fits

LEMMA DecisionFits ==
    ASSUME NEW n \in Nat, NEW l \in Nat, NEW c \in State(n, l), NEW r \in Reviews, NEW o, Fits(c),
           MayLook(c, r, "answered"), MayLook(c, r, "settled")
    PROVE  LET d == ShowDecision(c, r, o)
           IN  /\ d \in State(n, l) /\ OnlyCard(c, d) /\ Fits(d) /\ Stays(c, d)
               /\ \A x \in Who : Has(d, x) <=> Has(c, x)
               /\ r = "transfer" => d.card["transfer"] \in {"answered", "settled"}
<1>1. PICK look \in {"answered", "settled"} : ShowDecision(c, r, o) = Show(c, r, look)
  BY DEF ShowDecision
<1>2. look \in Looks /\ look # "none"
  BY DEF Looks
<1> QED
  BY <1>1, <1>2, ShowFits, ShowIsTyped

MayReset(c, r) == r = "proposals" \/ (c.main.at \in Late /\ ~c.prep.on)

\* What a reset leaves of the cards.
LEMMA ResetFits ==
    ASSUME NEW n \in Nat, NEW l \in Nat, NEW c \in State(n, l), NEW r \in Reviews, Fits(c),
           MayReset(c, r)
    PROVE  /\ ShowReset(c, r) \in State(n, l) /\ OnlyCard(c, ShowReset(c, r)) /\ Fits(ShowReset(c, r))
           /\ Stays(c, ShowReset(c, r))
           /\ \A x \in Who : Has(ShowReset(c, r), x) <=> Has(c, x)
<1> DEFINE look == [x \in DOMAIN c.card |->
                CASE x = "preview" /\ c.card[x] # "none"                  -> "waiting"
                  [] x = "checkup" /\ c.card[x] # "none" /\ r # "checkup" -> "waiting"
                  [] x = r                                                -> "open"
                  [] OTHER                                                -> c.card[x]]
           e == [c EXCEPT !.card = look]
<1>1. DOMAIN c.card = Reviews \cup {"preview"} /\ \A x \in Reviews \cup {"preview"} : c.card[x] \in Looks
  BY DEF State
<1>2. look \in [Reviews \cup {"preview"} -> Looks]
  BY <1>1 DEF Looks, Reviews
<1>3. /\ r = "proposals" => look["transfer"] = c.card["transfer"]
      /\ r # "checkup" => look["checkup"] = "none" \/ c.card["checkup"] # "none"
      /\ look["preview"] = "none" \/ c.card["preview"] # "none"
      /\ c.card["transfer"] # "none" => look["transfer"] # "none"
  BY <1>1 DEF Reviews
<1>4. ShowReset(c, r) = e
  BY DEF ShowReset
<1> HIDE DEF look
<1>5. e \in State(n, l)
  BY <1>2 DEF State
<1>6. OnlyCard(c, e) /\ e.card = look
  BY <1>2 DEF State, OnlyCard, KeepStages, KeepOwners, KeepHold, KeepRest
<1> HIDE DEF e
<1>7. e.prep = c.prep /\ e.main = c.main /\ e.t = c.t
  BY <1>6 DEF OnlyCard, KeepStages, KeepHold
<1>8. CardsFit(e)
  BY <1>3, <1>6, <1>7 DEF Fits, Core, CardsFit, Late, MayReset
<1> QED
  BY <1>4, <1>5, <1>6, <1>8, CardKeepsRest DEF Fits

---------------------------------------------------------------------------
(* The reservation and the interruption *)

OnlyHeld(c, d) ==
    /\ KeepStages(c, d) /\ d.main = c.main /\ KeepBoard(c, d) /\ KeepOwners(c, d) /\ KeepRest(c, d)
    /\ d.prep = c.prep /\ d.stopped = c.stopped /\ d.waiting = c.waiting /\ d.rec = c.rec
    /\ d.outcome = c.outcome

LEMMA HeldIsTyped ==
    ASSUME NEW n \in Nat, NEW l \in Nat, NEW c \in State(n, l), NEW st \in Statuses, NEW h \in BOOLEAN
    PROVE  LET d == [c EXCEPT !.settled = TRUE, !.status = st, !.held = h]
           IN  d \in State(n, l) /\ OnlyHeld(c, d) /\ d.settled /\ d.status = st /\ d.held = h
<1> DEFINE d == [c EXCEPT !.settled = TRUE, !.status = st, !.held = h]
<1>1. d \in State(n, l)
  BY DEF State
<1>2. OnlyHeld(c, d) /\ d.settled = TRUE /\ d.status = st /\ d.held = h
  BY DEF State, OnlyHeld, KeepStages, KeepBoard, KeepOwners, KeepRest
<1> QED
  BY <1>1, <1>2

\* A reservation is given back when nothing of the turn is left that may go on.
LEMMA SettleEffect ==
    ASSUME NEW n \in Nat, NEW l \in Nat, NEW c \in State(n, l)
    PROVE  LET d == Settle(c)
           IN  /\ d \in State(n, l) /\ OnlyHeld(c, d)
               /\ d.held => c.held
               /\ d.held => c.stopped \/ c.pv.parked \/ c.claim \/ c.prep.on
               /\ ~d.held => ~c.held \/ ~(c.pv.parked \/ c.claim \/ c.prep.on)
               /\ d.status \in {c.status, "none"}
<1> DEFINE done == [c EXCEPT !.settled = TRUE]
           h == done.pv.parked \/ done.claim \/ done.prep.on
<1>1. done \in State(n, l) /\ OnlyHeld(c, done) /\ done.held = c.held /\ done.status = c.status
  BY DEF State, OnlyHeld, KeepStages, KeepBoard, KeepOwners, KeepRest
<1>2. CASE ~c.held \/ (c.stopped /\ c.rec # "done")
  <2>1. Settle(c) = done
    BY <1>2 DEF Settle
  <2> QED
    BY <1>1, <1>2, <2>1
<1>3. CASE ~(~c.held \/ (c.stopped /\ c.rec # "done"))
  <2>1. Settle(c) = [done EXCEPT !.status = "none", !.held = h]
    BY <1>3 DEF Settle
  <2>2. h \in BOOLEAN /\ (h <=> c.pv.parked \/ c.claim \/ c.prep.on)
    BY <1>1 DEF OnlyHeld, KeepOwners
  <2> DEFINE d == [done EXCEPT !.status = "none", !.held = h]
  <2> HIDE DEF h, done
  <2>3. d \in State(n, l)
    BY <1>1, <2>2 DEF State, Statuses
  <2>4. OnlyHeld(done, d) /\ d.held = h /\ d.status = "none"
    BY <1>1, <2>2 DEF State, OnlyHeld, KeepStages, KeepBoard, KeepOwners, KeepRest
  <2> HIDE DEF d
  <2>5. OnlyHeld(c, d)
    BY <1>1, <2>4 DEF OnlyHeld, KeepStages, KeepBoard, KeepOwners, KeepRest
  <2> QED
    BY <1>3, <2>1, <2>2, <2>3, <2>4, <2>5 DEF d
<1> QED
  BY <1>2, <1>3

LEMMA HeldKeepsRest ==
    ASSUME NEW c, NEW d, OnlyHeld(c, d)
    PROVE  /\ Once(c) => Once(d)
           /\ Flows(c) => Flows(d)
           /\ Staged(c) => Staged(d)
           /\ CardsFit(c) => CardsFit(d)
           /\ Owned(c) => Owned(d)
           /\ Approved(c) => Approved(d)
           /\ \A x \in Who : Has(d, x) <=> Has(c, x)
<1>1. \A x : Has(d, x) <=> Has(c, x)
  BY DEF OnlyHeld, KeepBoard, Has
<1>2. Flows(c) => Flows(d)
  BY <1>1 DEF OnlyHeld, KeepStages, KeepBoard, KeepOwners, Flows, PFits, TFits, AgainFits, MainFits,
              OthersFit, Rounds
<1>3. /\ Once(c) => Once(d)
      /\ Staged(c) => Staged(d)
      /\ CardsFit(c) => CardsFit(d)
      /\ Owned(c) => Owned(d)
      /\ Approved(c) => Approved(d)
  BY DEF OnlyHeld, KeepStages, KeepBoard, KeepOwners, Once, Staged, CardsFit, Owned, Approved,
         Idle, StagesDone, AgainDone, Rounds
<1> QED
  BY <1>1, <1>2, <1>3

LEMMA SettleCore ==
    ASSUME NEW n \in Nat, NEW l \in Nat, NEW c \in State(n, l), Core(c), c.main.at = "over",
           c.fin.at \notin Active
    PROVE  /\ Settle(c) \in State(n, l) /\ OnlyHeld(c, Settle(c)) /\ Core(Settle(c))
           /\ Stays(c, Settle(c))
           /\ Settle(c).held => c.stopped \/ c.pv.parked \/ c.claim \/ c.prep.on
<1> DEFINE d == Settle(c)
<1>1. /\ d \in State(n, l) /\ OnlyHeld(c, d)
      /\ d.held => c.held
      /\ d.held => c.stopped \/ c.pv.parked \/ c.claim \/ c.prep.on
      /\ ~d.held => ~c.held \/ ~(c.pv.parked \/ c.claim \/ c.prep.on)
  BY SettleEffect
<1> HIDE DEF d
<1>2. HeldFits(d)
  BY <1>1 DEF Core, HeldFits, Owned, OnlyHeld, KeepOwners, Idle
<1>3. Core(d)
  BY <1>1, <1>2, HeldKeepsRest DEF Core
<1>4. Stays(c, d)
  BY <1>1 DEF Stays, OnlyHeld
<1> QED
  BY <1>1, <1>3, <1>4 DEF d

OnlyRecorded(c, d) ==
    /\ KeepStages(c, d) /\ d.main = c.main /\ d.gate = c.gate /\ d.card = c.card
    /\ KeepOwners(c, d) /\ KeepRest(c, d)
    /\ d.prep = c.prep /\ d.held = c.held /\ d.stopped = c.stopped /\ d.settled = c.settled
    /\ d.status = c.status /\ d.waiting = c.waiting /\ d.outcome = c.outcome

\* The interruption is recorded when the turn was stopped or is no longer reserved.
LEMMA RecordCore ==
    ASSUME NEW n \in Nat, NEW l \in Nat, NEW c \in State(n, l), Core(c), c.stopped \/ ~c.held
    PROVE  /\ Record(c) \in State(n, l) /\ OnlyRecorded(c, Record(c)) /\ Core(Record(c))
           /\ EndFits(c) /\ "booted" \notin c.outcome => EndFits(Record(c))
           /\ Stays(c, Record(c))
           /\ \A x \in Who : x # Stopper => (Has(Record(c), x) <=> Has(c, x))
<1>1. CASE c.rec \in {"interrupted", "cancelled"} \/ (c.rec = "done" /\ c.held)
  <2>1. Record(c) = c
    BY <1>1 DEF Record
  <2> QED
    BY <2>1 DEF OnlyRecorded, KeepStages, KeepOwners, KeepRest, Stays
<1>2. CASE ~(c.rec \in {"interrupted", "cancelled"} \/ (c.rec = "done" /\ c.held))
  <2> DEFINE e == [c EXCEPT !.rec = "interrupted"]
  <2>1. Record(c) = Push(e, Stopper)
    BY <1>2 DEF Record
  <2>2. e \in State(n, l)
    BY DEF State
  <2>3. OnlyRecorded(c, e) /\ e.chain = c.chain /\ e.rec = "interrupted"
    BY DEF State, OnlyRecorded, KeepStages, KeepOwners, KeepRest
  <2> HIDE DEF e
  <2>4. \A x : Has(e, x) <=> Has(c, x)
    BY <2>3 DEF Has
  <2>5. ~Has(c, Stopper)
    BY <1>2 DEF Core, Flows, OthersFit
  <2>6. Flows(e)
    BY <2>3, <2>4 DEF Core, OnlyRecorded, KeepStages, KeepOwners, Flows, PFits, TFits, AgainFits,
                      MainFits, OthersFit, Rounds
  <2>7. Once(e) /\ Staged(e) /\ CardsFit(e) /\ Owned(e) /\ Approved(e) /\ HeldFits(e)
    BY <2>3 DEF Core, OnlyRecorded, KeepStages, KeepOwners, Once, Staged, CardsFit, Owned, Approved,
                HeldFits, Idle, StagesDone, AgainDone, Rounds
  <2>8. EndFits(c) /\ "booted" \notin c.outcome => EndFits(e)
    BY <2>3 DEF EndFits, OnlyRecorded, KeepOwners
  <2>9. MayAwait(e, Stopper)
    BY <2>3, NamesDiffer DEF MayAwait
  <2>10. /\ Push(e, Stopper) \in State(n, l) /\ OnlyChain(e, Push(e, Stopper)) /\ Core(Push(e, Stopper))
         /\ EndFits(e) => EndFits(Push(e, Stopper))
         /\ \A x \in Who : Has(Push(e, Stopper), x) <=> Has(e, x) \/ x = Stopper
    BY <2>2, <2>4, <2>5, <2>6, <2>7, <2>9, PushCore, Names DEF Core
  <2>11. OnlyRecorded(c, Push(e, Stopper))
    BY <2>3, <2>10 DEF OnlyRecorded, OnlyChain, KeepStages, KeepOwners, KeepRest, KeepHold
  <2> QED
    BY <2>1, <2>4, <2>8, <2>10, <2>11 DEF OnlyRecorded, Stays
<1> QED
  BY <1>1, <1>2

\* Everything but the preparation, the waiting stop and the record.
OnlySettled(c, d) ==
    /\ KeepStages(c, d) /\ d.main = c.main /\ d.gate = c.gate /\ d.card = c.card
    /\ KeepOwners(c, d) /\ KeepRest(c, d)
    /\ d.held = c.held /\ d.stopped = c.stopped /\ d.settled = c.settled
    /\ d.status = c.status /\ d.outcome = c.outcome

LEMMA SettlePreparationCore ==
    ASSUME NEW n \in Nat, NEW l \in Nat, NEW c \in State(n, l), Core(c)
    PROVE  LET d == SettlePreparation(c)
           IN  /\ d \in State(n, l) /\ OnlySettled(c, d) /\ Core(d) /\ ~d.prep.on /\ ~d.waiting
               /\ d.prep.reopened = c.prep.reopened /\ d.prep.aborted = c.prep.aborted
               /\ EndFits(c) /\ "booted" \notin c.outcome => EndFits(d)
               /\ ~c.waiting => d.rec = c.rec
               /\ Stays(c, d)
               /\ \A x \in Who : x # Stopper => (Has(d, x) <=> Has(c, x))
<1> DEFINE e == [c EXCEPT !.prep.on = FALSE, !.waiting = FALSE]
<1>1. e \in State(n, l)
  BY DEF State
<1>2. /\ OnlySettled(c, e) /\ e.chain = c.chain /\ e.rec = c.rec /\ ~e.prep.on /\ ~e.waiting
      /\ e.prep.reopened = c.prep.reopened /\ e.prep.aborted = c.prep.aborted
  BY DEF State, OnlySettled, KeepStages, KeepOwners, KeepRest
<1>3. SettlePreparation(c) = IF c.waiting THEN Record(e) ELSE e
  BY DEF SettlePreparation
<1> HIDE DEF e
<1>4. \A x : Has(e, x) <=> Has(c, x)
  BY <1>2 DEF Has
<1>5. Flows(e)
  BY <1>2, <1>4 DEF Core, OnlySettled, KeepStages, KeepOwners, Flows, PFits, TFits, AgainFits,
                    MainFits, OthersFit, Rounds
<1>6. Once(e) /\ Staged(e) /\ CardsFit(e) /\ Owned(e) /\ Approved(e) /\ HeldFits(e)
  BY <1>2 DEF Core, OnlySettled, KeepStages, KeepOwners, Once, Staged, CardsFit, Owned, Approved,
              HeldFits, Idle, StagesDone, AgainDone, Rounds
<1>7. EndFits(c) => EndFits(e)
  BY <1>2 DEF EndFits, OnlySettled, KeepOwners
<1>8. Core(e)
  BY <1>5, <1>6 DEF Core
<1>9. CASE c.waiting
  <2>1. e.stopped \/ ~e.held
    BY <1>2, <1>9 DEF Core, HeldFits, OnlySettled
  <2>2. /\ Record(e) \in State(n, l) /\ OnlyRecorded(e, Record(e)) /\ Core(Record(e))
        /\ EndFits(e) /\ "booted" \notin e.outcome => EndFits(Record(e))
        /\ \A x \in Who : x # Stopper => (Has(Record(e), x) <=> Has(e, x))
    BY <1>1, <1>8, <2>1, RecordCore
  <2>3. OnlySettled(c, Record(e)) /\ Record(e).prep = e.prep /\ Record(e).waiting = e.waiting
    BY <1>2, <2>2 DEF OnlySettled, OnlyRecorded, KeepStages, KeepOwners, KeepRest
  <2> QED
    BY <1>2, <1>3, <1>4, <1>7, <1>9, <2>2, <2>3 DEF OnlySettled, Stays
<1>10. CASE ~c.waiting
  BY <1>1, <1>2, <1>3, <1>4, <1>7, <1>8, <1>10 DEF OnlySettled, Stays
<1> QED
  BY <1>9, <1>10

\* What only the handlers' conditions read.
OnlyFlags(c, d) ==
    /\ KeepStages(c, d) /\ d.main = c.main /\ KeepBoard(c, d) /\ KeepOwners(c, d) /\ KeepHold(c, d)
    /\ d.lib = c.lib

LEMMA FlagsKeepAll ==
    ASSUME NEW c, NEW d, OnlyFlags(c, d)
    PROVE  /\ Core(c) => Core(d)
           /\ EndFits(c) => EndFits(d)
           /\ Stays(c, d)
           /\ \A x \in Who : Has(d, x) <=> Has(c, x)
<1>1. \A x : Has(d, x) <=> Has(c, x)
  BY DEF OnlyFlags, KeepBoard, Has
<1>2. Flows(c) => Flows(d)
  BY <1>1 DEF OnlyFlags, KeepStages, KeepBoard, KeepOwners, KeepHold, Flows, PFits, TFits, AgainFits,
              MainFits, OthersFit, Rounds
<1>3. /\ Once(c) => Once(d)
      /\ Staged(c) => Staged(d)
      /\ CardsFit(c) => CardsFit(d)
      /\ Owned(c) => Owned(d)
      /\ Approved(c) => Approved(d)
      /\ HeldFits(c) => HeldFits(d)
      /\ EndFits(c) => EndFits(d)
  BY DEF OnlyFlags, KeepStages, KeepBoard, KeepOwners, KeepHold, Once, Staged, CardsFit, Owned, Approved,
         HeldFits, EndFits, Idle, StagesDone, AgainDone, Rounds
<1>4. Stays(c, d)
  BY DEF OnlyFlags, KeepHold, Stays
<1> QED
  BY <1>1, <1>2, <1>3, <1>4 DEF Core

LEMMA FlagFits ==
    ASSUME NEW n \in Nat, NEW l \in Nat, NEW c \in State(n, l), NEW b \in BOOLEAN
    PROVE  /\ [c EXCEPT !.flag = b] \in State(n, l) /\ OnlyFlags(c, [c EXCEPT !.flag = b])
           /\ [c EXCEPT !.branches = b] \in State(n, l) /\ OnlyFlags(c, [c EXCEPT !.branches = b])
  BY DEF State, OnlyFlags, KeepStages, KeepBoard, KeepOwners, KeepHold

\* The driver waits for nothing.
MainFree(c) == ~Has(c, Main) /\ \A r \in Reviews : c.gate[r] # Main

\* A turn that is about to end.
Ending(c) ==
    /\ "booted" \in c.outcome =>
           c.outcome = {"booted"} /\ ~c.stopped /\ c.rec = "no" /\ ~c.waiting
    /\ c.outcome # {} => c.stopped \/ ~c.held \/ (~c.pv.parked /\ ~c.claim)
    /\ c.claim => c.planning

OnlyMain(c, d) ==
    /\ KeepStages(c, d) /\ KeepBoard(c, d) /\ KeepOwners(c, d) /\ KeepHold(c, d) /\ d.lib = c.lib

LEMMA MainOut ==
    ASSUME NEW n \in Nat, NEW l \in Nat, NEW c \in State(n, l), Core(c), MainFree(c), c.fin.at \notin Active,
           NEW e, OnlyMain(c, e), e.main.at = "over", e.main.resumed = c.main.resumed
    PROVE  Core(e)
<1>1. \A x : Has(e, x) <=> Has(c, x)
  BY DEF OnlyMain, KeepBoard, Has
<1>2. Flows(e)
  BY <1>1 DEF Core, MainFree, OnlyMain, KeepStages, KeepBoard, KeepOwners, KeepHold, Flows, PFits, TFits,
              AgainFits, MainFits, OthersFit, Rounds
<1>3. Once(e) /\ Staged(e) /\ CardsFit(e) /\ Owned(e) /\ Approved(e) /\ HeldFits(e)
  BY DEF Core, OnlyMain, KeepStages, KeepBoard, KeepOwners, KeepHold, Once, Staged, CardsFit, Owned,
         Approved, HeldFits, Idle, StagesDone, AgainDone, Rounds, Late
<1> QED
  BY <1>2, <1>3 DEF Core

\* The end of the reservation ends the turn.
LEMMA SettleEnds ==
    ASSUME NEW n \in Nat, NEW l \in Nat, NEW c \in State(n, l), Core(c), c.main.at = "over",
           c.fin.at \notin Active, Ending(c), ~c.prep.on
    PROVE  Settle(c) \in State(n, l) /\ Fits(Settle(c)) /\ Stays(c, Settle(c))
<1> DEFINE d == Settle(c)
<1>1. /\ d \in State(n, l) /\ OnlyHeld(c, d) /\ Core(d) /\ Stays(c, d)
      /\ d.held => c.stopped \/ c.pv.parked \/ c.claim \/ c.prep.on
  BY SettleCore
<1> HIDE DEF d
<1>2. EndFits(d)
  BY <1>1 DEF Ending, EndFits, OnlyHeld, KeepOwners, Stays
<1> QED
  BY <1>1, <1>2 DEF Fits, d

LEMMA OverFits ==
    ASSUME NEW n \in Nat, NEW l \in Nat, NEW c \in State(n, l), Core(c), MainFree(c), c.fin.at \notin Active,
           Ending(c)
    PROVE  Over(c) \in State(n, l) /\ Fits(Over(c)) /\ Stays(c, Over(c))
<1> DEFINE out == [c EXCEPT !.main.at = "over"]
<1>1. out \in State(n, l)
  BY DEF State, MainAts
<1>2. /\ OnlyMain(c, out) /\ out.main.at = "over" /\ out.main.resumed = c.main.resumed /\ out.flag = c.flag
  BY DEF State, OnlyMain, KeepStages, KeepBoard, KeepOwners, KeepHold
<1>3. CASE c.main.resumed
  <2> DEFINE later == Settle(out)
             b == later.flag /\ ~later.held
  <2>1. Over(c) = [later EXCEPT !.flag = b]
    BY <1>3 DEF Over
  <2> HIDE DEF out
  <2>2. Core(out)
    BY <1>2, MainOut
  <2>3. Ending(out) /\ ~out.prep.on /\ out.fin.at \notin Active
    BY <1>2, <1>3 DEF Ending, OnlyMain, KeepOwners, KeepHold, Core, Staged
  <2>4. later \in State(n, l) /\ Fits(later) /\ Stays(out, later)
    BY <1>1, <1>2, <2>2, <2>3, SettleEnds
  <2>5. b \in BOOLEAN
    OBVIOUS
  <2> HIDE DEF later, b
  <2>6. [later EXCEPT !.flag = b] \in State(n, l) /\ OnlyFlags(later, [later EXCEPT !.flag = b])
    BY <2>4, <2>5, FlagFits
  <2> DEFINE d == [later EXCEPT !.flag = b]
  <2>7. d \in State(n, l) /\ OnlyFlags(later, d)
    BY <2>6
  <2> HIDE DEF d
  <2>8. Fits(d) /\ Stays(later, d)
    BY <2>4, <2>7, FlagsKeepAll DEF Fits
  <2>9. Stays(c, d)
    BY <1>2, <2>4, <2>8 DEF Stays, OnlyMain, KeepHold
  <2> QED
    BY <2>1, <2>7, <2>8, <2>9 DEF d
<1>4. CASE ~c.main.resumed
  <2> DEFINE b == out.flag /\ ~c.held
             e == [out EXCEPT !.flag = b]
             prep == SettlePreparation(e)
             first == Settle(prep)
             bb == first.branches /\ c.pv.parked
             d == [first EXCEPT !.branches = bb]
  <2>1. Over(c) = d
    BY <1>4 DEF Over
  <2>2. b \in BOOLEAN
    OBVIOUS
  <2> HIDE DEF out, b
  <2>3. e \in State(n, l) /\ OnlyFlags(out, e)
    BY <1>1, <2>2, FlagFits
  <2> HIDE DEF e
  <2>4. OnlyMain(c, e) /\ e.main.at = "over" /\ e.main.resumed = c.main.resumed
    BY <1>2, <2>3 DEF OnlyMain, OnlyFlags, KeepStages, KeepBoard, KeepOwners, KeepHold
  <2>5. Core(e)
    BY <2>3, <2>4, MainOut
  <2>6. /\ prep \in State(n, l) /\ OnlySettled(e, prep) /\ Core(prep) /\ ~prep.prep.on
        /\ ~prep.waiting /\ (~e.waiting => prep.rec = e.rec)
    BY <2>3, <2>5, SettlePreparationCore
  <2> HIDE DEF prep
  <2>7. Ending(prep) /\ prep.main.at = "over" /\ prep.fin.at \notin Active
    <3>1. /\ prep.outcome = c.outcome /\ prep.stopped = c.stopped /\ prep.held = c.held
          /\ prep.pv = c.pv /\ prep.claim = c.claim /\ prep.planning = c.planning /\ prep.fin = c.fin
          /\ prep.main.at = "over" /\ e.waiting = c.waiting /\ e.rec = c.rec
      BY <2>4, <2>6 DEF OnlySettled, OnlyMain, KeepOwners, KeepHold
    <3> QED
      BY <2>6, <3>1 DEF Ending
  <2>8. first \in State(n, l) /\ Fits(first) /\ Stays(prep, first)
    BY <2>6, <2>7, SettleEnds
  <2>9. bb \in BOOLEAN
    OBVIOUS
  <2> HIDE DEF first, bb
  <2>10. d \in State(n, l) /\ OnlyFlags(first, d)
    BY <2>8, <2>9, FlagFits
  <2> HIDE DEF d
  <2>11. Fits(d) /\ Stays(first, d)
    BY <2>8, <2>10, FlagsKeepAll DEF Fits
  <2>12. Stays(c, d)
    BY <2>4, <2>6, <2>8, <2>11 DEF Stays, OnlyMain, OnlySettled, KeepHold
  <2> QED
    BY <2>1, <2>10, <2>11, <2>12
<1> QED
  BY <1>3, <1>4

---------------------------------------------------------------------------
(* The driver *)

OnlyDriver(c, d) ==
    /\ KeepStages(c, d) /\ KeepBoard(c, d) /\ KeepHold(c, d) /\ d.lib = c.lib
    /\ d.claim = c.claim /\ d.planning = c.planning /\ d.fin = c.fin

\* The driver at work.
MainReady(c) ==
    Fits(c) /\ MainFree(c) /\ c.main.at \notin {"over", "preview", "boot", "failing", "failed"}

\* The driver at work after the stages.
LateReady(c) == MainReady(c) /\ StagesDone(c) /\ ~c.prep.on

\* Where the driver may go from c.
MayMove(c, d) ==
    /\ d.main.at \notin {"stages", "over", "boot"}
    /\ d.main.resumed => c.main.resumed
    /\ d.main.at # "preview" => ~d.pv.parked
    /\ d.main.at = "preview" => ~d.pv.shown
    /\ d.main.at \in Late => StagesDone(c) /\ ~c.prep.on
    /\ d.main.at \in {"refresh", "rework"} => c.p.at = "done" /\ AgainDone(c)
    /\ d.main.at = "rework" => ~c.prep.on
    /\ d.main.at = "repark" => /\ c.p.at = "done" /\ c.t.at = "done" /\ c.t.out # "failed"
                               /\ c.card["transfer"] \in {"none", "answered", "settled"}
    /\ d.main.at = "refresh" => c.card["transfer"] \in {"answered", "settled"} /\ c.t.shell = "shown"
    /\ d.main.at \in {"reset", "review", "reviewed"} => d.main.step # "checkup"

LEMMA ReadyIsIdle ==
    ASSUME NEW c, MainReady(c)
    PROVE  /\ Idle(c) /\ c.held /\ ~c.settled /\ c.fin.decision # "auto" /\ ~c.claim
           /\ "booted" \notin c.outcome /\ Ending(c) /\ c.fin.at \notin Active
           /\ (c.outcome # {} => c.stopped)
  BY DEF MainReady, Fits, Core, Owned, HeldFits, EndFits, Ending, Idle

LEMMA ReadyOver ==
    ASSUME NEW n \in Nat, NEW l \in Nat, NEW c \in State(n, l), MainReady(c)
    PROVE  Over(c) \in State(n, l) /\ Fits(Over(c)) /\ Stays(c, Over(c))
  BY ReadyIsIdle, OverFits DEF MainReady, Fits

LEMMA DriverFlows ==
    ASSUME NEW c, NEW d, OnlyDriver(c, d)
    PROVE  /\ \A x \in Who : Has(d, x) <=> Has(c, x)
           /\ MainFree(c) => MainFree(d)
           /\ Once(c) => Once(d)
           /\ Flows(c) /\ MainFree(c) /\ (d.main.at \in {"reset", "review", "reviewed"} => d.main.step # "checkup")
                  => Flows(d)
           /\ Flows(c) /\ d.main = c.main => Flows(d)
           /\ Stays(c, d)
<1>1. \A x : Has(d, x) <=> Has(c, x)
  BY DEF OnlyDriver, KeepBoard, Has
<1>2. (MainFree(c) => MainFree(d)) /\ (Once(c) => Once(d))
  BY <1>1 DEF OnlyDriver, KeepBoard, MainFree, Once
<1>3. ASSUME Flows(c) PROVE PFits(d) /\ TFits(d) /\ AgainFits(d) /\ OthersFit(d)
  BY <1>1, <1>3 DEF OnlyDriver, KeepStages, KeepBoard, KeepHold, Flows, PFits, TFits, AgainFits, OthersFit,
              Rounds
<1>4. ASSUME MainFree(c), d.main.at \in {"reset", "review", "reviewed"} => d.main.step # "checkup"
      PROVE  MainFits(d)
  BY <1>2, <1>4 DEF MainFree, MainFits
<1>5. ASSUME Flows(c), d.main = c.main PROVE MainFits(d)
  BY <1>1, <1>5 DEF Flows, MainFits, OnlyDriver, KeepBoard
<1>6. Stays(c, d)
  BY DEF OnlyDriver, KeepHold, Stays
<1> QED
  BY <1>1, <1>2, <1>3, <1>4, <1>5, <1>6 DEF Flows

\* A preview that is shown, or taken back.
LEMMA PreviewCore ==
    ASSUME NEW c, NEW d, Core(c), OnlyDriver(c, d), d.main = c.main, d.pv.parked => c.pv.parked,
           d.pv.view = c.pv.view
    PROVE  Core(d) /\ Stays(c, d) /\ (MainFree(c) => MainFree(d))
<1>1. Staged(d) /\ CardsFit(d) /\ Owned(d) /\ Approved(d) /\ HeldFits(d)
  BY DEF Core, OnlyDriver, KeepStages, KeepBoard, KeepHold, Staged, CardsFit, Owned, Approved, HeldFits,
         Idle, StagesDone, AgainDone, Rounds
<1> QED
  BY <1>1, DriverFlows DEF Core

LEMMA MainMoves ==
    ASSUME NEW c, NEW d, MainReady(c), OnlyDriver(c, d), MayMove(c, d)
    PROVE  Fits(d) /\ MainFree(d) /\ Stays(c, d) /\ \A x \in Who : Has(d, x) <=> Has(c, x)
<1>1. /\ Idle(c) /\ c.held /\ ~c.settled /\ c.fin.decision # "auto" /\ ~c.claim
      /\ (c.outcome # {} => c.stopped) /\ "booted" \notin c.outcome
  BY ReadyIsIdle
<1>2. Core(c) /\ MainFree(c)
  BY DEF MainReady, Fits
<1>3. Once(d) /\ Flows(d) /\ MainFree(d) /\ Stays(c, d) /\ \A x \in Who : Has(d, x) <=> Has(c, x)
  BY <1>2, DriverFlows DEF MayMove, Core
<1>4. Staged(d)
  BY <1>1, <1>2 DEF MayMove, Core, OnlyDriver, KeepStages, KeepHold, Staged, Idle, StagesDone, AgainDone,
                    Rounds, Late
<1>5. CardsFit(d)
  BY <1>2 DEF MayMove, Core, OnlyDriver, KeepStages, KeepBoard, KeepHold, CardsFit
<1>6. Owned(d) /\ Approved(d)
  BY <1>1, <1>2 DEF MayMove, Core, OnlyDriver, Owned, Approved, Idle
<1>7. HeldFits(d) /\ EndFits(d)
  BY <1>1, <1>2 DEF MayMove, Core, OnlyDriver, KeepHold, HeldFits, EndFits, Idle
<1> QED
  BY <1>3, <1>4, <1>5, <1>6, <1>7 DEF Fits, Core

\* The driver goes on to a write.
LEMMA MainWrites ==
    ASSUME NEW n \in Nat, NEW l \in Nat, NEW c, NEW d \in State(n, l), MainReady(c), OnlyDriver(c, d),
           MayMove(c, d), d.main.at \in Writes
    PROVE  Push(d, Main) \in State(n, l) /\ Fits(Push(d, Main)) /\ Stays(c, Push(d, Main))
<1>1. Fits(d) /\ MainFree(d) /\ Stays(c, d)
  BY MainMoves
<1>2. MayAwait(d, Main)
  BY NamesDiffer DEF MayAwait
<1>3. Push(d, Main) \in State(n, l) /\ Fits(Push(d, Main)) /\ Stays(d, Push(d, Main))
  BY <1>1, <1>2, PushFits, Names DEF MainFree
<1> QED
  BY <1>1, <1>3, StaysOn

LEMMA MainFailsFits ==
    ASSUME NEW n \in Nat, NEW l \in Nat, NEW c \in State(n, l), MainReady(c)
    PROVE  MainFails(c) \in State(n, l) /\ Fits(MainFails(c)) /\ Stays(c, MainFails(c))
<1>0. Idle(c) /\ Core(c) /\ MainFree(c) /\ Ending(c) /\ c.fin.at \notin Active
  BY ReadyIsIdle DEF MainReady, Fits
<1>1. CASE ~c.main.resumed /\ c.flag
  <2> DEFINE e == [c EXCEPT !.flag = FALSE, !.pv.parked = FALSE]
  <2>1. MainFails(c) = Over(e)
    BY <1>1 DEF MainFails
  <2>2. e \in State(n, l)
    BY DEF State
  <2>3. OnlyDriver(c, e) /\ e.main = c.main /\ ~e.pv.parked /\ e.pv.view = c.pv.view
    BY DEF State, OnlyDriver, KeepStages, KeepBoard, KeepHold
  <2> HIDE DEF e
  <2>4. Core(e) /\ Stays(c, e) /\ MainFree(e)
    BY <1>0, <2>3, PreviewCore
  <2>5. Ending(e) /\ e.fin.at \notin Active
    BY <1>0, <2>3 DEF Ending, OnlyDriver, KeepHold
  <2>6. Over(e) \in State(n, l) /\ Fits(Over(e)) /\ Stays(e, Over(e))
    BY <2>2, <2>4, <2>5, OverFits
  <2> QED
    BY <2>1, <2>4, <2>6, StaysOn
<1>2. CASE ~(~c.main.resumed /\ c.flag)
  <2> DEFINE b == c.pv.parked /\ c.main.resumed
             e == [c EXCEPT !.main.at = "failing", !.pv.parked = b]
  <2>1. MainFails(c) = Push(e, Main)
    BY <1>2 DEF MainFails
  <2>2. b \in BOOLEAN /\ ~b
    BY <1>0 DEF Idle
  <2> HIDE DEF b
  <2>3. e \in State(n, l)
    BY <2>2 DEF State, MainAts
  <2>4. OnlyDriver(c, e) /\ e.main.at = "failing" /\ e.pv.parked = b /\ e.main.resumed = c.main.resumed
    BY <2>2 DEF State, OnlyDriver, KeepStages, KeepBoard, KeepHold
  <2> HIDE DEF e
  <2>5. MayMove(c, e) /\ e.main.at \in Writes
    BY <2>2, <2>4 DEF MayMove, Late, Writes
  <2> QED
    BY <2>1, <2>3, <2>4, <2>5, MainWrites
<1> QED
  BY <1>1, <1>2

LEMMA AnalysedFits ==
    ASSUME NEW n \in Nat, NEW l \in Nat, NEW c \in State(n, l), NEW found \in Outs, LateReady(c)
    PROVE  Analysed(c, found) \in State(n, l) /\ Fits(Analysed(c, found)) /\ Stays(c, Analysed(c, found))
<1>0. MainReady(c) /\ ~c.pv.parked
  BY ReadyIsIdle DEF LateReady, Idle
<1>1. CASE c.main.want # {}
  <2>1. PICK r \in {"proposals", "transfer"} :
          Analysed(c, found) = Push([c EXCEPT !.main.at = "reset", !.main.step = r, !.main.want = {}], Main)
    BY <1>1 DEF Analysed
  <2> DEFINE e == [c EXCEPT !.main.at = "reset", !.main.step = r, !.main.want = {}]
  <2>2. e \in State(n, l)
    BY DEF State, MainAts, Late, Reviews
  <2>3. /\ OnlyDriver(c, e) /\ e.main.at = "reset" /\ e.main.step = r /\ e.main.resumed = c.main.resumed
        /\ e.pv = c.pv
    BY DEF State, OnlyDriver, KeepStages, KeepBoard, KeepHold
  <2>4. Analysed(c, found) = Push(e, Main)
    BY <2>1
  <2> HIDE DEF e
  <2>5. MayMove(c, e) /\ e.main.at \in Writes
    BY <1>0, <2>3 DEF LateReady, MayMove, Late, Writes
  <2> QED
    BY <1>0, <2>2, <2>3, <2>4, <2>5, MainWrites
<1>2. CASE c.main.want = {}
  <2> DEFINE o == IF c.flag THEN "cancelled" ELSE found
             e == [c EXCEPT !.main.at = "result", !.flag = FALSE, !.main.out = o]
  <2>1. Analysed(c, found) = Push(e, Main)
    BY <1>2 DEF Analysed
  <2>2. o \in Outs
    BY DEF Outs
  <2> HIDE DEF o
  <2>3. e \in State(n, l)
    BY <2>2 DEF State, MainAts, Late
  <2>4. OnlyDriver(c, e) /\ e.main.at = "result" /\ e.main.resumed = c.main.resumed /\ e.pv = c.pv
    BY <2>2 DEF State, OnlyDriver, KeepStages, KeepBoard, KeepHold
  <2> HIDE DEF e
  <2>5. MayMove(c, e) /\ e.main.at \in Writes
    BY <1>0, <2>4 DEF LateReady, MayMove, Late, Writes
  <2> QED
    BY <1>0, <2>1, <2>3, <2>4, <2>5, MainWrites
<1> QED
  BY <1>1, <1>2

---------------------------------------------------------------------------
(* The driver after the stages *)

\* A step that leaves the driver and the stages where they are.
LEMMA StillReady ==
    ASSUME NEW c, NEW d, Fits(d), d.main.at = c.main.at, d.gate = c.gate, KeepStages(c, d),
           d.prep.on => c.prep.on, Has(d, Main) => Has(c, Main)
    PROVE  /\ MainReady(c) => MainReady(d)
           /\ LateReady(c) => LateReady(d)
  BY DEF MainReady, LateReady, MainFree, KeepStages, StagesDone, AgainDone, Rounds

LEMMA CardReady ==
    ASSUME NEW c, NEW d, Fits(d), OnlyCard(c, d)
    PROVE  /\ MainReady(c) => MainReady(d)
           /\ LateReady(c) => LateReady(d)
<1>1. d.main.at = c.main.at /\ d.gate = c.gate /\ KeepStages(c, d) /\ d.prep = c.prep /\ d.chain = c.chain
  BY DEF OnlyCard, KeepHold
<1> QED
  BY <1>1, StillReady DEF Has

LEMMA FlagReady ==
    ASSUME NEW c, NEW d, OnlyFlags(c, d)
    PROVE  /\ MainReady(c) => MainReady(d)
           /\ LateReady(c) => LateReady(d)
<1>1. /\ d.main.at = c.main.at /\ d.gate = c.gate /\ KeepStages(c, d) /\ d.prep = c.prep
      /\ d.chain = c.chain
  BY DEF OnlyFlags, KeepHold, KeepBoard
<1>2. Fits(c) => Fits(d)
  BY FlagsKeepAll DEF Fits
<1> QED
  BY <1>1, <1>2, StillReady DEF Has, MainReady, LateReady

LEMMA LookLate ==
    ASSUME NEW c, NEW r, NEW look, LateReady(c), c.main.at \in Late
    PROVE  MayLook(c, r, look)
  BY DEF LateReady, MayLook, Late

\* The driver moves on after the stages, without a write.
LEMMA LateMoves ==
    ASSUME NEW c, NEW d, LateReady(c), OnlyDriver(c, d), d.main.resumed = c.main.resumed,
           d.main.at \in Late \ {"boot", "preview"}, ~d.pv.parked,
           d.main.at \in {"reset", "review", "reviewed"} => d.main.step # "checkup"
    PROVE  /\ MayMove(c, d)
           /\ Fits(d) /\ LateReady(d) /\ Stays(c, d)
<1>1. MayMove(c, d)
  BY DEF LateReady, MayMove, Late
<1>2. Fits(d) /\ MainFree(d) /\ Stays(c, d)
  BY <1>1, MainMoves DEF LateReady
<1> QED
  BY <1>1, <1>2 DEF LateReady, MainReady, Late, OnlyDriver, KeepStages, KeepHold, StagesDone, AgainDone, Rounds

LEMMA AnalyseFits ==
    ASSUME NEW n \in Nat, NEW l \in Nat, NEW c \in State(n, l), LateReady(c)
    PROVE  Analyse(c) \in State(n, l) /\ Fits(Analyse(c)) /\ Stays(c, Analyse(c))
<1> DEFINE work == [c EXCEPT !.main.at = "work", !.main.parent = TRUE]
<1>1. Analyse(c) = IF c.branches THEN work ELSE Analysed(work, "failed")
  BY DEF Analyse
<1>2. work \in State(n, l)
  BY DEF State, MainAts, Late
<1>3. OnlyDriver(c, work) /\ work.main.at = "work" /\ work.main.resumed = c.main.resumed /\ work.pv = c.pv
  BY DEF State, OnlyDriver, KeepStages, KeepBoard, KeepHold
<1> HIDE DEF work
<1>4. Fits(work) /\ LateReady(work) /\ Stays(c, work)
  BY <1>3, LateMoves, ReadyIsIdle DEF LateReady, Idle, Late
<1>5. /\ Analysed(work, "failed") \in State(n, l) /\ Fits(Analysed(work, "failed"))
      /\ Stays(work, Analysed(work, "failed"))
  BY <1>2, <1>4, AnalysedFits DEF Outs
<1> QED
  BY <1>1, <1>2, <1>4, <1>5, StaysOn

LEMMA CheckupFits ==
    ASSUME NEW n \in Nat, NEW l \in Nat, NEW c \in State(n, l), LateReady(c)
    PROVE  Checkup(c) \in State(n, l) /\ Fits(Checkup(c)) /\ Stays(c, Checkup(c))
<1>1. CASE c.main.parent
  BY <1>1, AnalyseFits DEF Checkup
<1>2. CASE ~c.main.parent
  <2> DEFINE e == [c EXCEPT !.main.at = "skeleton"]
  <2>1. Checkup(c) = Push(e, Main)
    BY <1>2 DEF Checkup
  <2>2. e \in State(n, l)
    BY DEF State, MainAts, Late
  <2>3. OnlyDriver(c, e) /\ e.main.at = "skeleton" /\ e.main.resumed = c.main.resumed /\ e.pv = c.pv
    BY DEF State, OnlyDriver, KeepStages, KeepBoard, KeepHold
  <2> HIDE DEF e
  <2>4. MayMove(c, e) /\ e.main.at \in Writes
    BY <2>3, LateMoves, ReadyIsIdle DEF LateReady, Idle, Late, Writes
  <2> QED
    BY <2>1, <2>2, <2>3, <2>4, MainWrites DEF LateReady
<1> QED
  BY <1>1, <1>2

\* The preparation is over: a stop that waited for it goes on.
LEMMA LeavePreparationFits ==
    ASSUME NEW n \in Nat, NEW l \in Nat, NEW c \in State(n, l), MainReady(c), StagesDone(c)
    PROVE  /\ LeavePreparation(c) \in State(n, l) /\ Fits(LeavePreparation(c))
           /\ Stays(c, LeavePreparation(c))
<1> DEFINE d == SettlePreparation(c)
<1>1. "booted" \notin c.outcome /\ Core(c) /\ EndFits(c)
  BY ReadyIsIdle DEF MainReady, Fits
<1>2. /\ d \in State(n, l) /\ OnlySettled(c, d) /\ Core(d) /\ ~d.prep.on /\ EndFits(d) /\ Stays(c, d)
      /\ \A x \in Who : x # Stopper => (Has(d, x) <=> Has(c, x))
  BY <1>1, SettlePreparationCore
<1> HIDE DEF d
<1>3. Has(d, Main) => Has(c, Main)
  BY <1>2, Names, NamesDiffer
<1>4. d.main = c.main /\ d.gate = c.gate /\ KeepStages(c, d)
  BY <1>2 DEF OnlySettled
<1>5. MainReady(d) /\ StagesDone(d)
  BY <1>2, <1>3, <1>4, StillReady DEF Fits, KeepStages, StagesDone, AgainDone, Rounds
<1>6. Checkup(d) \in State(n, l) /\ Fits(Checkup(d)) /\ Stays(d, Checkup(d))
  BY <1>2, <1>5, CheckupFits DEF LateReady
<1> QED
  BY <1>2, <1>6, StaysOn DEF LeavePreparation, d

LEMMA ResultWrittenFits ==
    ASSUME NEW n \in Nat, NEW l \in Nat, NEW c \in State(n, l), LateReady(c), c.main.at = "result"
    PROVE  ResultWritten(c) \in State(n, l) /\ Fits(ResultWritten(c)) /\ Stays(c, ResultWritten(c))
<1> DEFINE e == [c EXCEPT !.flag = FALSE]
           seen == Show(e, "checkup", "open")
           out == IF c.flag THEN "cancelled" ELSE c.main.out
<1>1. e \in State(n, l) /\ OnlyFlags(c, e)
  BY FlagFits
<1> HIDE DEF e
<1>2. LateReady(e) /\ e.main = c.main /\ Stays(c, e)
  BY <1>1, FlagReady, FlagsKeepAll DEF OnlyFlags
<1>3. seen \in State(n, l) /\ OnlyCard(e, seen) /\ Fits(seen) /\ Stays(e, seen)
  BY <1>1, <1>2, ShowFits, LookLate DEF Late, Looks, Reviews, LateReady, MainReady
<1> HIDE DEF seen
<1>4. LateReady(seen) /\ seen.main = c.main /\ ~seen.pv.parked
  BY <1>2, <1>3, CardReady, ReadyIsIdle DEF OnlyCard, LateReady, Idle
<1>5. out \in Outs
  BY DEF State, Outs
<1> HIDE DEF out
<1>6. CASE c.main.want # {}
  <2>1. ResultWritten(c) = Analysed(seen, out)
    BY <1>6 DEF ResultWritten, seen, out, e
  <2>2. Analysed(seen, out) \in State(n, l) /\ Fits(Analysed(seen, out)) /\ Stays(seen, Analysed(seen, out))
    BY <1>3, <1>4, <1>5, AnalysedFits
  <2> QED
    BY <1>2, <1>3, <2>1, <2>2, StaysOn
<1>7. CASE c.main.want = {} /\ out = "found"
  <2> DEFINE g == [seen EXCEPT !.main.at = "gate"]
  <2>1. ResultWritten(c) = ParkGate(g, "checkup", Main)
    BY <1>7 DEF ResultWritten, seen, out, e
  <2>2. g \in State(n, l)
    BY <1>3 DEF State, MainAts, Late
  <2>3. OnlyDriver(seen, g) /\ g.main.at = "gate" /\ g.main.resumed = seen.main.resumed /\ g.pv = seen.pv
    BY <1>3 DEF State, OnlyDriver, KeepStages, KeepBoard, KeepHold
  <2> HIDE DEF g
  <2>4. Fits(g) /\ Stays(seen, g)
    BY <1>4, <2>3, LateMoves DEF Late
  <2>5. MayGuard(g, "checkup", Main)
    BY <2>3, NamesDiffer DEF MayGuard
  <2>6. /\ ParkGate(g, "checkup", Main) \in State(n, l) /\ Fits(ParkGate(g, "checkup", Main))
        /\ Stays(g, ParkGate(g, "checkup", Main))
    BY <2>2, <2>4, <2>5, ParkFits, Names DEF Reviews
  <2> QED
    BY <1>2, <1>3, <2>1, <2>4, <2>6, StaysOn
<1>8. CASE ~(c.main.want # {}) /\ ~(c.main.want = {} /\ out = "found")
  <2> DEFINE g == [seen EXCEPT !.main.at = "decide", !.main.out = out]
  <2>1. ResultWritten(c) = Push(g, Main)
    BY <1>8 DEF ResultWritten, seen, out, e
  <2>2. g \in State(n, l)
    BY <1>3, <1>5 DEF State, MainAts, Late
  <2>3. OnlyDriver(seen, g) /\ g.main.at = "decide" /\ g.main.resumed = seen.main.resumed /\ g.pv = seen.pv
    BY <1>3, <1>5 DEF State, OnlyDriver, KeepStages, KeepBoard, KeepHold
  <2> HIDE DEF g
  <2>4. MayMove(seen, g) /\ g.main.at \in Writes
    BY <1>4, <2>3, LateMoves DEF Late, Writes
  <2>5. Push(g, Main) \in State(n, l) /\ Fits(Push(g, Main)) /\ Stays(seen, Push(g, Main))
    BY <1>4, <2>2, <2>3, <2>4, MainWrites DEF LateReady
  <2> QED
    BY <1>2, <1>3, <2>1, <2>5, StaysOn
<1> QED
  BY <1>6, <1>7, <1>8

LEMMA PreviewFits ==
    ASSUME NEW n \in Nat, NEW l \in Nat, NEW c \in State(n, l), LateReady(c), NEW empty \in BOOLEAN
    PROVE  Preview(c, empty) \in State(n, l) /\ Fits(Preview(c, empty)) /\ Stays(c, Preview(c, empty))
<1>0. MainReady(c) /\ ~c.pv.parked
  BY ReadyIsIdle DEF LateReady, Idle
<1>1. CASE empty /\ ~c.main.resumed
  <2> DEFINE e == [c EXCEPT !.main.at = "receipt"]
  <2>1. Preview(c, empty) = Push(e, Main)
    BY <1>1 DEF Preview
  <2>2. e \in State(n, l)
    BY DEF State, MainAts, Late
  <2>3. OnlyDriver(c, e) /\ e.main.at = "receipt" /\ e.main.resumed = c.main.resumed /\ e.pv = c.pv
    BY DEF State, OnlyDriver, KeepStages, KeepBoard, KeepHold
  <2> HIDE DEF e
  <2>4. MayMove(c, e) /\ e.main.at \in Writes
    BY <1>0, <2>3, LateMoves DEF Late, Writes
  <2> QED
    BY <1>0, <2>1, <2>2, <2>3, <2>4, MainWrites
<1>2. CASE ~(empty /\ ~c.main.resumed)
  <2> DEFINE pv == [parked |-> TRUE, shown |-> FALSE, view |-> c.lib]
             e == [c EXCEPT !.main.at = "preview", !.pv = pv]
  <2>1. Preview(c, empty) = Push(e, Main)
    BY <1>2 DEF Preview
  <2>2. pv \in [parked : BOOLEAN, shown : BOOLEAN, view : 0 .. l] /\ ~pv.shown
    BY DEF State
  <2> HIDE DEF pv
  <2>3. e \in State(n, l)
    BY <2>2 DEF State, MainAts, Late
  <2>4. OnlyDriver(c, e) /\ e.main.at = "preview" /\ e.main.resumed = c.main.resumed /\ e.pv = pv
    BY <2>2 DEF State, OnlyDriver, KeepStages, KeepBoard, KeepHold
  <2> HIDE DEF e
  <2>5. MayMove(c, e) /\ e.main.at \in Writes
    BY <2>2, <2>4 DEF MayMove, LateReady, Writes
  <2> QED
    BY <1>0, <2>1, <2>3, <2>4, <2>5, MainWrites
<1> QED
  BY <1>1, <1>2

LEMMA PreviewWrittenFits ==
    ASSUME NEW n \in Nat, NEW l \in Nat, NEW c \in State(n, l), Fits(c), MainFree(c), c.main.at = "preview"
    PROVE  PreviewWritten(c) \in State(n, l) /\ Fits(PreviewWritten(c)) /\ Stays(c, PreviewWritten(c))
<1> DEFINE seen == Show(c, "preview", "open")
           e == IF c.flag THEN [seen EXCEPT !.flag = FALSE, !.pv.parked = FALSE]
                          ELSE [seen EXCEPT !.pv.shown = c.pv.parked]
<1>1. MayLook(c, "preview", "open")
  BY DEF Fits, Core, Staged, MayLook, Late, Reviews
<1>2. seen \in State(n, l) /\ OnlyCard(c, seen) /\ Fits(seen) /\ Stays(c, seen)
  BY <1>1, ShowFits DEF Looks
<1>3. PreviewWritten(c) = Over(e)
  BY DEF PreviewWritten
<1> HIDE DEF seen
<1>4. MainFree(seen) /\ seen.pv = c.pv /\ seen.main = c.main /\ seen.fin = c.fin /\ seen.claim = c.claim
      /\ seen.planning = c.planning
  BY <1>2, ShowFits DEF MainFree, OnlyCard, Has, KeepOwners
<1> DEFINE b == c.pv.parked
           taken == [seen EXCEPT !.flag = FALSE, !.pv.parked = FALSE]
           shown == [seen EXCEPT !.pv.shown = b]
<1>5. b \in BOOLEAN /\ e = IF c.flag THEN taken ELSE shown
  BY DEF State
<1> HIDE DEF b
<1>6. /\ e \in State(n, l) /\ OnlyDriver(seen, e) /\ e.main = seen.main
      /\ (e.pv.parked => seen.pv.parked) /\ e.pv.view = seen.pv.view
  <2> HIDE DEF e
  <2>1. taken \in State(n, l)
    BY <1>2 DEF State
  <2>2. /\ OnlyDriver(seen, taken) /\ taken.main = seen.main /\ taken.pv.view = seen.pv.view
        /\ ~taken.pv.parked
    BY <1>2 DEF State, OnlyDriver, KeepStages, KeepBoard, KeepHold
  <2>3. shown \in State(n, l)
    BY <1>2, <1>5 DEF State
  <2>4. /\ OnlyDriver(seen, shown) /\ shown.main = seen.main /\ shown.pv.view = seen.pv.view
        /\ shown.pv.parked = seen.pv.parked
    BY <1>2, <1>5 DEF State, OnlyDriver, KeepStages, KeepBoard, KeepHold
  <2> HIDE DEF taken, shown
  <2> QED
    BY <1>5, <2>1, <2>2, <2>3, <2>4
<1> HIDE DEF e
<1>7. Core(e) /\ Stays(seen, e) /\ MainFree(e)
  BY <1>2, <1>4, <1>6, PreviewCore DEF Fits
<1>8. Ending(seen) /\ seen.fin.at \notin Active
  BY <1>2, <1>4 DEF Fits, Core, Owned, HeldFits, EndFits, Ending, Idle
<1>9. Ending(e) /\ e.fin.at \notin Active
  <2>1. /\ e.outcome = seen.outcome /\ e.stopped = seen.stopped /\ e.rec = seen.rec
        /\ e.waiting = seen.waiting /\ e.held = seen.held /\ e.claim = seen.claim
        /\ e.planning = seen.planning /\ e.fin = seen.fin
    BY <1>6 DEF OnlyDriver, KeepHold
  <2> QED
    BY <1>6, <1>8, <2>1 DEF Ending
<1>10. Over(e) \in State(n, l) /\ Fits(Over(e)) /\ Stays(e, Over(e))
  BY <1>6, <1>7, <1>9, OverFits
<1> QED
  BY <1>2, <1>3, <1>7, <1>10, StaysOn

LEMMA ReceiptWrittenFits ==
    ASSUME NEW n \in Nat, NEW l \in Nat, NEW c \in State(n, l), LateReady(c), c.main.at = "receipt"
    PROVE  ReceiptWritten(c) \in State(n, l) /\ Fits(ReceiptWritten(c)) /\ Stays(c, ReceiptWritten(c))
<1> DEFINE seen == Show(c, "preview", "open")
<1>1. seen \in State(n, l) /\ OnlyCard(c, seen) /\ Fits(seen) /\ Stays(c, seen)
  BY ShowFits, LookLate DEF Late, Looks, LateReady, MainReady
<1> HIDE DEF seen
<1>2. LateReady(seen) /\ MainReady(seen) /\ ~seen.pv.parked
  BY <1>1, CardReady, ReadyIsIdle DEF LateReady, Idle
<1>3. CASE c.flag
  <2> DEFINE e == [seen EXCEPT !.flag = FALSE]
  <2>1. ReceiptWritten(c) = Over(e)
    BY <1>3 DEF ReceiptWritten, seen
  <2>2. e \in State(n, l) /\ OnlyFlags(seen, e)
    BY <1>1, FlagFits
  <2> HIDE DEF e
  <2>3. MainReady(e) /\ Stays(seen, e)
    BY <1>2, <2>2, FlagReady, FlagsKeepAll
  <2>4. Over(e) \in State(n, l) /\ Fits(Over(e)) /\ Stays(e, Over(e))
    BY <2>2, <2>3, ReadyOver
  <2> QED
    BY <1>1, <2>1, <2>3, <2>4, StaysOn
<1>4. CASE ~c.flag
  <2> DEFINE e == [seen EXCEPT !.main.at = "auto"]
  <2>1. ReceiptWritten(c) = Push(e, Main)
    BY <1>4 DEF ReceiptWritten, seen
  <2>2. e \in State(n, l)
    BY <1>1 DEF State, MainAts, Late
  <2>3. OnlyDriver(seen, e) /\ e.main.at = "auto" /\ e.main.resumed = seen.main.resumed /\ e.pv = seen.pv
    BY <1>1 DEF State, OnlyDriver, KeepStages, KeepBoard, KeepHold
  <2> HIDE DEF e
  <2>4. MayMove(seen, e) /\ e.main.at \in Writes
    BY <1>2, <2>3, LateMoves DEF Late, Writes
  <2>5. Push(e, Main) \in State(n, l) /\ Fits(Push(e, Main)) /\ Stays(seen, Push(e, Main))
    BY <1>2, <2>2, <2>3, <2>4, MainWrites
  <2> QED
    BY <1>1, <2>1, <2>5, StaysOn
<1> QED
  BY <1>3, <1>4

LEMMA CheckupDecidedFits ==
    ASSUME NEW n \in Nat, NEW l \in Nat, NEW c \in State(n, l), LateReady(c), c.main.at = "decide",
           NEW empty \in BOOLEAN
    PROVE  /\ CheckupDecided(c, empty) \in State(n, l) /\ Fits(CheckupDecided(c, empty))
           /\ Stays(c, CheckupDecided(c, empty))
<1> DEFINE seen == ShowDecision(c, "checkup", c.main.out)
<1>1. seen \in State(n, l) /\ OnlyCard(c, seen) /\ Fits(seen) /\ Stays(c, seen)
  BY DecisionFits, LookLate DEF Late, Reviews, LateReady, MainReady
<1>2. \/ CheckupDecided(c, empty) = Over(seen)
      \/ CheckupDecided(c, empty) = MainFails(seen)
      \/ CheckupDecided(c, empty) = Preview(seen, empty)
  BY DEF CheckupDecided
<1> HIDE DEF seen
<1>3. LateReady(seen) /\ MainReady(seen)
  BY <1>1, CardReady DEF LateReady
<1>4. Over(seen) \in State(n, l) /\ Fits(Over(seen)) /\ Stays(seen, Over(seen))
  BY <1>1, <1>3, ReadyOver
<1>5. MainFails(seen) \in State(n, l) /\ Fits(MainFails(seen)) /\ Stays(seen, MainFails(seen))
  BY <1>1, <1>3, MainFailsFits
<1>6. Preview(seen, empty) \in State(n, l) /\ Fits(Preview(seen, empty)) /\ Stays(seen, Preview(seen, empty))
  BY <1>1, <1>3, PreviewFits
<1> QED
  BY <1>1, <1>2, <1>4, <1>5, <1>6, StaysOn

---------------------------------------------------------------------------
(* The transfer's refresh, and the stages *)

\* T waits for nothing.
TFree(c) == ~Has(c, T) /\ \A r \in Reviews : c.gate[r] # T

LEMMA TDoneFree ==
    ASSUME NEW c, Fits(c), c.t.at \in {"done", "continue"}
    PROVE  TFree(c) /\ c.t.shell # "writing"
  BY DEF Fits, Core, Flows, TFits, TFree

\* A driver that waits for the stages waits for nothing else.
LEMMA MainUnawaited ==
    ASSUME NEW c, Fits(c), c.main.at \in {"stages", "repark", "refresh", "rework", "work"}
    PROVE  MainReady(c)
<1>1. MainFree(c)
  BY DEF Fits, Core, Flows, MainFits, MainFree, Writes
<1> QED
  BY <1>1 DEF MainReady

OnlyRefresh(c, d) ==
    /\ d.p = c.p /\ d.again = c.again /\ KeepBoard(c, d) /\ KeepOwners(c, d) /\ KeepHold(c, d)
    /\ KeepRest(c, d) /\ d.main.resumed = c.main.resumed

\* The driver may run T again.
MayRefresh(c, at) ==
    /\ MainReady(c) /\ c.p.at = "done" /\ AgainDone(c) /\ c.t.at = "done"
    /\ at \in {"refresh", "rework"}
    /\ at = "refresh" => c.card["transfer"] \in {"answered", "settled"}
    /\ at = "rework" => ~c.prep.on

LEMMA RefreshMoves ==
    ASSUME NEW c, NEW d, NEW at, MayRefresh(c, at), OnlyRefresh(c, d), d.main.at = at,
           d.t.at \in {"done", "settle", "shell", "continue"},
           d.t.shell = IF d.t.at = "shell" THEN "writing"
                       ELSE IF c.card["transfer"] = "none" THEN "none" ELSE "shown",
           d.t.at \in {"settle", "continue"} => c.card["transfer"] # "none",
           d.t.at = "shell" => c.card["transfer"] = "none"
    PROVE  MainReady(d) /\ TFree(d) /\ Stays(c, d)
<1>0. Core(c) /\ EndFits(c) /\ MainFree(c) /\ TFree(c)
  BY TDoneFree DEF MayRefresh, MainReady, Fits
<1>1. \A x : Has(d, x) <=> Has(c, x)
  BY DEF OnlyRefresh, KeepBoard, Has
<1>2. MainFree(d) /\ TFree(d) /\ Stays(c, d)
  BY <1>0, <1>1 DEF MainFree, TFree, OnlyRefresh, KeepBoard, KeepHold, Stays
<1>3. PFits(d) /\ AgainFits(d) /\ OthersFit(d)
  BY <1>0, <1>1 DEF Core, Flows, PFits, AgainFits, OthersFit, OnlyRefresh, KeepBoard, KeepOwners, KeepHold,
                    Rounds
<1>4. TFits(d)
  BY <1>2 DEF TFits, TFree, MayRefresh, OnlyRefresh
<1>5. MainFits(d)
  BY <1>2 DEF MainFits, MainFree, MayRefresh
<1>6. Idle(c) /\ c.held /\ ~c.settled /\ c.fin.decision # "auto" /\ ~c.claim
  BY ReadyIsIdle DEF MayRefresh
<1>7. Once(d) /\ Staged(d)
  BY <1>0, <1>6 DEF Core, Once, Staged, MayRefresh, OnlyRefresh, KeepBoard, KeepOwners, KeepHold, Idle,
                    AgainDone, Rounds, Late
<1>8. CardsFit(d)
  BY <1>0 DEF Core, CardsFit, MayRefresh, OnlyRefresh, KeepBoard, KeepHold
<1>9. Owned(d) /\ Approved(d) /\ HeldFits(d) /\ EndFits(d)
  BY <1>0, <1>6 DEF Core, Owned, Approved, HeldFits, EndFits, MayRefresh, OnlyRefresh, KeepOwners, KeepHold,
                    Idle
<1> QED
  BY <1>2, <1>3, <1>4, <1>5, <1>7, <1>8, <1>9 DEF MainReady, Fits, Core, Flows, MayRefresh

Refreshes == {"refresh", "rework"}
Shells    == {"none", "writing", "shown"}

\* T from its beginning, as the driver runs it again.
Begun(c, at, sh) ==
    [c EXCEPT !.main.at = at, !.t = [at |-> "task", out |-> "none", base |-> 0, shell |-> sh]]

LEMMA BegunIsTyped ==
    ASSUME NEW n \in Nat, NEW l \in Nat, NEW c \in State(n, l), NEW at \in Refreshes, NEW sh \in Shells
    PROVE  /\ Begun(c, at, sh) \in State(n, l) /\ OnlyRefresh(c, Begun(c, at, sh))
           /\ Begun(c, at, sh).main.at = at /\ Begun(c, at, sh).t.shell = sh
<1> DEFINE t == [at |-> "task", out |-> "none", base |-> 0, shell |-> sh]
           d == [c EXCEPT !.main.at = at, !.t = t]
<1>1. t \in [at : TAts, out : Outs, base : Nat, shell : Shells] /\ t.shell = sh
  BY DEF TAts, Outs
<1> HIDE DEF t
<1>2. d \in State(n, l)
  BY <1>1 DEF State, MainAts, Refreshes, Shells
<1>3. OnlyRefresh(c, d) /\ d.main.at = at /\ d.t = t
  BY <1>1 DEF State, OnlyRefresh, KeepBoard, KeepOwners, KeepHold, KeepRest
<1> QED
  BY <1>1, <1>2, <1>3 DEF t, Begun

LEMMA RefreshFits ==
    ASSUME NEW n \in Nat, NEW l \in Nat, NEW c \in State(n, l), NEW at, MayRefresh(c, at)
    PROVE  Refresh(c, at) \in State(n, l) /\ Fits(Refresh(c, at)) /\ Stays(c, Refresh(c, at))
<1> DEFINE shell == IF c.card["transfer"] = "none" THEN "none" ELSE "shown"
           begun == Begun(c, at, shell)
           o0 == IF StopSeen(begun) THEN "cancelled" ELSE "failed"
           ended == [begun EXCEPT !.t.at = "done", !.t.out = o0]
           settling == [ended EXCEPT !.t.at = "settle"]
           writing == [begun EXCEPT !.t.at = "shell", !.t.shell = "writing"]
           landing == [begun EXCEPT !.t.at = "continue"]
<1>0. at \in Refreshes /\ shell \in Shells /\ o0 \in Outs
  BY DEF MayRefresh, Outs, Refreshes, Shells
<1>1. Refresh(c, at) = IF StopSeen(begun)
                       THEN IF shell = "none" THEN Over(ended) ELSE Push(settling, T)
                       ELSE IF shell = "none" THEN Push(writing, T)
                       ELSE IF c.branches THEN landing ELSE MainFails(ended)
  BY DEF Refresh, Begun
<1>6. shell = IF c.card["transfer"] = "none" THEN "none" ELSE "shown"
  OBVIOUS
<1> HIDE DEF shell, o0
<1>13. /\ begun \in State(n, l) /\ OnlyRefresh(c, begun) /\ begun.main.at = at /\ begun.t.shell = shell
  BY <1>0, BegunIsTyped
<1> HIDE DEF begun
<1>2. /\ ended \in State(n, l) /\ OnlyRefresh(c, ended) /\ ended.main.at = at /\ ended.t.at = "done"
      /\ ended.t.shell = shell
  <2>1. ended \in State(n, l)
    BY <1>0, <1>13 DEF State, TAts
  <2> QED
    BY <1>13, <2>1 DEF State, OnlyRefresh, KeepBoard, KeepOwners, KeepHold, KeepRest
<1>3. /\ settling \in State(n, l) /\ OnlyRefresh(c, settling) /\ settling.main.at = at
      /\ settling.t.at = "settle" /\ settling.t.shell = shell
  <2> HIDE DEF ended
  <2>1. settling \in State(n, l)
    BY <1>2 DEF State, TAts
  <2> QED
    BY <1>2, <2>1 DEF State, OnlyRefresh, KeepBoard, KeepOwners, KeepHold, KeepRest
<1>4. /\ writing \in State(n, l) /\ OnlyRefresh(c, writing) /\ writing.main.at = at
      /\ writing.t.at = "shell" /\ writing.t.shell = "writing"
  <2>1. writing \in State(n, l)
    BY <1>13 DEF State, TAts
  <2> QED
    BY <1>13, <2>1 DEF State, OnlyRefresh, KeepBoard, KeepOwners, KeepHold, KeepRest
<1>5. /\ landing \in State(n, l) /\ OnlyRefresh(c, landing) /\ landing.main.at = at
      /\ landing.t.at = "continue" /\ landing.t.shell = shell
  <2>1. landing \in State(n, l)
    BY <1>13 DEF State, TAts
  <2> QED
    BY <1>13, <2>1 DEF State, OnlyRefresh, KeepBoard, KeepOwners, KeepHold, KeepRest
<1> HIDE DEF ended, settling, writing, landing
<1>7. MainReady(ended) /\ Stays(c, ended)
  BY <1>2, <1>6, RefreshMoves
<1>8. Over(ended) \in State(n, l) /\ Fits(Over(ended)) /\ Stays(c, Over(ended))
  BY <1>2, <1>7, ReadyOver, StaysOn
<1>9. MainFails(ended) \in State(n, l) /\ Fits(MainFails(ended)) /\ Stays(c, MainFails(ended))
  BY <1>2, <1>7, MainFailsFits, StaysOn
<1>10. ASSUME shell # "none"
       PROVE  Push(settling, T) \in State(n, l) /\ Fits(Push(settling, T)) /\ Stays(c, Push(settling, T))
  <2>1. MainReady(settling) /\ TFree(settling) /\ Stays(c, settling)
    BY <1>3, <1>6, <1>10, RefreshMoves
  <2>2. MayAwait(settling, T)
    BY <1>3, NamesDiffer DEF MayAwait
  <2> QED
    BY <1>3, <2>1, <2>2, PushFits, Names, StaysOn DEF MainReady, TFree
<1>11. ASSUME shell = "none"
       PROVE  Push(writing, T) \in State(n, l) /\ Fits(Push(writing, T)) /\ Stays(c, Push(writing, T))
  <2>1. MainReady(writing) /\ TFree(writing) /\ Stays(c, writing)
    BY <1>4, <1>6, <1>11, RefreshMoves
  <2>2. MayAwait(writing, T)
    BY <1>4, NamesDiffer DEF MayAwait
  <2> QED
    BY <1>4, <2>1, <2>2, PushFits, Names, StaysOn DEF MainReady, TFree
<1>12. ASSUME shell # "none"
       PROVE  Fits(landing) /\ Stays(c, landing)
  BY <1>5, <1>6, <1>12, RefreshMoves DEF MainReady
<1> QED
  BY <1>1, <1>5, <1>8, <1>9, <1>10, <1>11, <1>12

LEMMA AwaitReparksFits ==
    ASSUME NEW n \in Nat, NEW l \in Nat, NEW c \in State(n, l), MainReady(c), c.p.at = "done", c.t.at = "done",
           c.t.out # "failed", c.card["transfer"] \in {"none", "answered", "settled"}
    PROVE  AwaitReparks(c) \in State(n, l) /\ Fits(AwaitReparks(c)) /\ Stays(c, AwaitReparks(c))
<1> DEFINE done == {i \in 1 .. Len(c.again) : \A j \in 1 .. i : c.again[j].at = "done"}
           e == [c EXCEPT !.main.at = "repark"]
<1>1. CASE \E i \in done : c.again[i].out = "cancelled"
  <2>1. AwaitReparks(c) = Over(c)
    BY <1>1 DEF AwaitReparks
  <2> QED
    BY <2>1, ReadyOver
<1>2. CASE (\A i \in done : c.again[i].out # "cancelled") /\ done # 1 .. Len(c.again)
  <2>1. AwaitReparks(c) = e
    BY <1>2 DEF AwaitReparks
  <2>2. e \in State(n, l)
    BY DEF State, MainAts
  <2>3. OnlyDriver(c, e) /\ e.main.at = "repark" /\ e.main.resumed = c.main.resumed /\ e.pv = c.pv
    BY DEF State, OnlyDriver, KeepStages, KeepBoard, KeepHold
  <2> HIDE DEF e
  <2>4. MayMove(c, e)
    BY <2>3, ReadyIsIdle DEF MayMove, Idle, Late
  <2> QED
    BY <2>1, <2>2, <2>3, <2>4, MainMoves
<1>3. CASE ~(\E i \in done : c.again[i].out = "cancelled") /\ done = 1 .. Len(c.again)
  <2>1. AwaitReparks(c) = IF c.prep.reopened THEN Refresh(c, "refresh") ELSE LeavePreparation(c)
    BY <1>3 DEF AwaitReparks
  <2>2. c.again \in Seq(AgainRecord)
    BY SeqDef DEF State
  <2>3. AgainDone(c)
    <3>1. Rounds(c) = 1 .. Len(c.again) /\ Len(c.again) \in Nat
      BY <2>2 DEF Rounds
    <3> QED
      BY <1>3, <3>1 DEF AgainDone
  <2>4. CASE c.prep.reopened
    <3>1. c.card["transfer"] \in {"answered", "settled"}
      BY <2>4 DEF MainReady, Fits, Core, CardsFit
    <3>2. MayRefresh(c, "refresh")
      BY <2>3, <3>1 DEF MayRefresh
    <3> QED
      BY <2>1, <2>4, <3>2, RefreshFits
  <2>5. CASE ~c.prep.reopened
    BY <2>1, <2>3, <2>5, LeavePreparationFits DEF StagesDone
  <2> QED
    BY <2>4, <2>5
<1> QED
  BY <1>1, <1>2, <1>3

LEMMA StagesEndFits ==
    ASSUME NEW n \in Nat, NEW l \in Nat, NEW c \in State(n, l), Fits(c)
    PROVE  StagesEnd(c) \in State(n, l) /\ Fits(StagesEnd(c)) /\ Stays(c, StagesEnd(c))
<1> DEFINE both == c.p.at = "done" /\ c.t.at = "done"
           b == c.t.out = "handled"
           e == [c EXCEPT !.main.xfer = b]
<1>1. Stays(c, c)
  BY DEF Stays
<1>2. StagesEnd(c) = c \/ c.main.at = "stages"
  BY DEF StagesEnd
<1>3. CASE c.main.at = "stages"
  <2>1. MainReady(c)
    BY <1>3, MainUnawaited
  <2>2. \/ StagesEnd(c) = c \/ StagesEnd(c) = MainFails(c) \/ StagesEnd(c) = Over(c)
        \/ both /\ c.t.out # "failed" /\ StagesEnd(c) = AwaitReparks(e)
    BY <1>3 DEF StagesEnd
  <2>3. b \in BOOLEAN
    OBVIOUS
  <2> HIDE DEF b
  <2>4. e \in State(n, l)
    BY <2>3 DEF State
  <2>5. /\ OnlyDriver(c, e) /\ e.main.at = c.main.at /\ e.main.resumed = c.main.resumed /\ e.pv = c.pv
        /\ e.main.step = c.main.step /\ KeepStages(c, e) /\ e.card = c.card /\ e.gate = c.gate
        /\ e.prep = c.prep /\ e.chain = c.chain
    BY <2>3 DEF State, OnlyDriver, KeepStages, KeepBoard, KeepHold
  <2> HIDE DEF e
  <2>6. Fits(e)
    <3>1. Once(e) /\ Flows(e)
      BY <2>1, <2>5, <1>3, DriverFlows DEF MainReady, Fits, Core
    <3>2. Staged(e) /\ CardsFit(e) /\ Owned(e) /\ Approved(e) /\ HeldFits(e) /\ EndFits(e)
      BY <2>5 DEF Fits, Core, OnlyDriver, KeepStages, KeepHold, Staged, CardsFit, Owned, Approved, HeldFits,
                  EndFits, Idle, StagesDone, AgainDone, Rounds
    <3> QED
      BY <3>1, <3>2 DEF Fits, Core
  <2>7. MainReady(e) /\ Stays(c, e)
    BY <2>1, <2>5, <2>6, StillReady, DriverFlows DEF Has
  <2>8. ASSUME both, c.t.out # "failed"
        PROVE  /\ AwaitReparks(e) \in State(n, l) /\ Fits(AwaitReparks(e))
               /\ Stays(c, AwaitReparks(e))
    <3>1. c.card["transfer"] \in {"none", "answered", "settled"}
      BY <1>3, <2>8 DEF Fits, Core, CardsFit
    <3> QED
      BY <2>4, <2>5, <2>7, <2>8, <3>1, AwaitReparksFits, StaysOn DEF KeepStages
  <2> QED
    BY <1>1, <2>1, <2>2, <2>8, MainFailsFits, ReadyOver
<1> QED
  BY <1>1, <1>2, <1>3

---------------------------------------------------------------------------
(* runTransferGate *)

OnlyT(c, d) ==
    /\ d.p = c.p /\ d.again = c.again /\ d.main = c.main /\ KeepBoard(c, d) /\ KeepOwners(c, d)
    /\ KeepHold(c, d) /\ KeepRest(c, d)

\* Everything but where T is; T is not done.
TRest(c) ==
    /\ Once(c) /\ PFits(c) /\ AgainFits(c) /\ MainFits(c) /\ OthersFit(c) /\ Staged(c) /\ CardsFit(c)
    /\ Owned(c) /\ Approved(c) /\ HeldFits(c) /\ EndFits(c)
    /\ c.t.at # "done"

\* T runs.
TReady(c) == TRest(c) /\ TFree(c) /\ c.t.shell # "writing"

\* When T may be done with out.
TMayEnd(c, out) ==
    c.main.at = "stages" /\ out # "failed" => c.card["transfer"] \in {"none", "answered", "settled"}

LEMMA RestOfT ==
    ASSUME NEW c, Fits(c), c.t.at # "done"
    PROVE  TRest(c)
  BY DEF Fits, Core, Flows, TRest

LEMMA TMoves ==
    ASSUME NEW c, NEW d, TRest(c), OnlyT(c, d), TFits(d), d.t.at = "done" => TMayEnd(c, d.t.out),
           d.t.shell = c.t.shell \/ d.t.shell = "shown" \/ (d.t.shell = "writing" /\ c.t.shell = "none")
    PROVE  Fits(d) /\ Stays(c, d) /\ \A x : Has(d, x) <=> Has(c, x)
<1>1. \A x : Has(d, x) <=> Has(c, x)
  BY DEF OnlyT, KeepBoard, Has
<1>2. PFits(d) /\ AgainFits(d) /\ MainFits(d) /\ OthersFit(d)
  BY <1>1 DEF TRest, OnlyT, KeepBoard, KeepOwners, KeepHold, PFits, AgainFits, MainFits, OthersFit, Rounds
<1>3. Once(d) /\ Owned(d) /\ Approved(d) /\ HeldFits(d) /\ EndFits(d) /\ Stays(c, d)
  BY DEF TRest, OnlyT, KeepBoard, KeepOwners, KeepHold, Once, Owned, Approved, HeldFits, EndFits, Idle, Stays
<1>4. Staged(d)
  BY DEF TRest, OnlyT, KeepOwners, KeepHold, Staged, StagesDone, AgainDone, Rounds, Idle
<1>5. c.main.at # "repark"
  BY DEF TRest, Staged
<1>6. CardsFit(d)
  BY <1>5 DEF TRest, OnlyT, KeepBoard, KeepHold, CardsFit, TMayEnd
<1> QED
  BY <1>1, <1>2, <1>3, <1>4, <1>6 DEF Fits, Core, Flows

TAt(c, ta, o) == [c EXCEPT !.t.at = ta, !.t.out = o]

LEMMA TIsTyped ==
    ASSUME NEW n \in Nat, NEW l \in Nat, NEW c \in State(n, l), NEW ta \in TAts, NEW o \in Outs
    PROVE  /\ TAt(c, ta, o) \in State(n, l) /\ OnlyT(c, TAt(c, ta, o)) /\ TAt(c, ta, o).t.at = ta
           /\ TAt(c, ta, o).t.out = o /\ TAt(c, ta, o).t.shell = c.t.shell
<1> DEFINE d == [c EXCEPT !.t.at = ta, !.t.out = o]
<1>1. d \in State(n, l)
  BY DEF State
<1>2. OnlyT(c, d) /\ d.t.at = ta /\ d.t.out = o /\ d.t.shell = c.t.shell
  BY DEF State, OnlyT, KeepBoard, KeepOwners, KeepHold, KeepRest
<1> QED
  BY <1>1, <1>2 DEF TAt

LEMMA FreeAfter ==
    ASSUME NEW c, NEW d, TFree(c), OnlyT(c, d)
    PROVE  TFree(d)
  BY DEF TFree, OnlyT, KeepBoard, Has

LEMMA TDoneFits ==
    ASSUME NEW n \in Nat, NEW l \in Nat, NEW c \in State(n, l), NEW out \in Outs, TReady(c), TMayEnd(c, out)
    PROVE  TDone(c, out) \in State(n, l) /\ Fits(TDone(c, out)) /\ Stays(c, TDone(c, out))
<1> DEFINE done == TAt(c, "done", out)
<1>1. /\ done \in State(n, l) /\ OnlyT(c, done) /\ done.t.at = "done" /\ done.t.out = out
      /\ done.t.shell = c.t.shell
  <2>1. "done" \in TAts
    BY DEF TAts
  <2> QED
    BY <2>1, TIsTyped
<1>2. TDone(c, out) =
        IF c.main.at \notin {"refresh", "rework"} THEN StagesEnd(done)
        ELSE CASE out = "cancelled" -> Over(done)
               [] out = "failed"    -> MainFails(done)
               [] OTHER -> IF c.main.at = "refresh" THEN LeavePreparation(done)
                           ELSE Push([done EXCEPT !.main.at = "rescan"], Main)
  BY DEF TDone, TAt
<1> HIDE DEF done
<1>3. TFree(done)
  BY <1>1, FreeAfter DEF TReady
<1>4. TFits(done)
  BY <1>1, <1>3 DEF TFits, TReady, TFree
<1>5. Fits(done) /\ Stays(c, done)
  BY <1>1, <1>4, TMoves DEF TReady
<1>6. CASE c.main.at \notin {"refresh", "rework"}
  BY <1>1, <1>2, <1>5, <1>6, StagesEndFits, StaysOn
<1>7. CASE c.main.at \in {"refresh", "rework"}
  <2>1. MainReady(done)
    BY <1>1, <1>5, <1>7, MainUnawaited DEF OnlyT
  <2>2. StagesDone(done)
    BY <1>1, <1>5, <1>7 DEF Fits, Core, Staged, StagesDone, OnlyT
  <2> DEFINE e == [done EXCEPT !.main.at = "rescan"]
  <2>3. \/ TDone(c, out) = Over(done) \/ TDone(c, out) = MainFails(done)
        \/ TDone(c, out) = LeavePreparation(done)
        \/ c.main.at = "rework" /\ TDone(c, out) = Push(e, Main)
    BY <1>2, <1>7
  <2>4. e \in State(n, l)
    BY <1>1 DEF State, MainAts, Late
  <2>5. OnlyDriver(done, e) /\ e.main.at = "rescan" /\ e.main.resumed = done.main.resumed /\ e.pv = done.pv
    BY <1>1 DEF State, OnlyDriver, KeepStages, KeepBoard, KeepHold
  <2> HIDE DEF e
  <2>6. ASSUME c.main.at = "rework"
        PROVE  Push(e, Main) \in State(n, l) /\ Fits(Push(e, Main)) /\ Stays(done, Push(e, Main))
    <3>1. LateReady(done)
      BY <1>1, <1>5, <2>1, <2>2, <2>6 DEF LateReady, Fits, Core, Staged, OnlyT
    <3>2. MayMove(done, e) /\ e.main.at \in Writes
      BY <2>5, <3>1, LateMoves, ReadyIsIdle DEF LateReady, Idle, Late, Writes
    <3> QED
      BY <2>1, <2>4, <2>5, <3>2, MainWrites
  <2> QED
    BY <1>1, <1>5, <2>1, <2>2, <2>3, <2>6, ReadyOver, MainFailsFits, LeavePreparationFits, StaysOn
<1> QED
  BY <1>6, <1>7

LEMMA TSettleFits ==
    ASSUME NEW n \in Nat, NEW l \in Nat, NEW c \in State(n, l), NEW out \in Outs,
           TReady(c) \/ (Fits(c) /\ c.t.at # "done" /\ c.t.shell = "writing")
    PROVE  TSettle(c, out) \in State(n, l) /\ Fits(TSettle(c, out)) /\ Stays(c, TSettle(c, out))
<1> DEFINE d == TAt(c, "settle", out)
<1>0. TRest(c)
  BY RestOfT DEF TReady
<1>1. d \in State(n, l) /\ OnlyT(c, d) /\ d.t.at = "settle" /\ d.t.shell = c.t.shell
  <2>1. "settle" \in TAts
    BY DEF TAts
  <2> QED
    BY <2>1, TIsTyped
<1>2. CASE c.t.shell = "none"
  <2>1. TSettle(c, out) = TDone(c, out) /\ TReady(c)
    BY <1>2 DEF TSettle
  <2>2. TMayEnd(c, out)
    BY <1>0, <1>2 DEF TRest, CardsFit, TMayEnd
  <2> QED
    BY <2>1, <2>2, TDoneFits
<1>3. CASE c.t.shell = "shown"
  <2>1. TSettle(c, out) = Push(d, T) /\ TReady(c)
    BY <1>3 DEF TSettle, TAt
  <2> HIDE DEF d
  <2>2. TFree(d)
    BY <1>1, <2>1, FreeAfter DEF TReady
  <2>3. TFits(d)
    BY <1>1, <1>3, <2>2 DEF TFits, TFree
  <2>4. Fits(d) /\ Stays(c, d)
    BY <1>0, <1>1, <2>3, TMoves
  <2>5. MayAwait(d, T)
    BY <1>1, NamesDiffer DEF MayAwait
  <2>6. Push(d, T) \in State(n, l) /\ Fits(Push(d, T)) /\ Stays(d, Push(d, T))
    BY <1>1, <2>2, <2>4, <2>5, PushFits, Names DEF TFree
  <2> QED
    BY <2>1, <2>4, <2>6, StaysOn
<1>4. CASE c.t.shell = "writing"
  <2>1. TSettle(c, out) = d /\ Fits(c)
    BY <1>4 DEF TSettle, TReady, TAt
  <2> HIDE DEF d
  <2>2. TFits(d)
    BY <1>1, <1>4, <2>1 DEF Fits, Core, Flows, TFits, OnlyT, KeepBoard
  <2> QED
    BY <1>0, <1>1, <2>1, <2>2, TMoves
<1> QED
  BY <1>2, <1>3, <1>4 DEF State

\* T moves on without a write or a gate.
LEMMA TGoesOn ==
    ASSUME NEW n \in Nat, NEW l \in Nat, NEW c \in State(n, l), TRest(c), NEW at \in {"stepone", "shell", "continue"},
           at = "stepone" => c.p.at # "done" /\ TFits(c) /\ c.t.at = "task" /\ c.t.shell # "writing",
           at = "shell" => c.t.shell = "writing" /\ c.p.at = "done" /\ \A r \in Reviews : c.gate[r] # T,
           at = "continue" => TReady(c)
    PROVE  LET d == [c EXCEPT !.t.at = at]
           IN  d \in State(n, l) /\ Fits(d) /\ Stays(c, d)
<1> DEFINE d == [c EXCEPT !.t.at = at]
<1>1. d \in State(n, l)
  BY DEF State, TAts
<1>2. OnlyT(c, d) /\ d.t.at = at /\ d.t.shell = c.t.shell
  BY DEF State, OnlyT, KeepBoard, KeepOwners, KeepHold, KeepRest
<1> HIDE DEF d
<1>3. (Has(d, T) <=> Has(c, T)) /\ d.gate = c.gate /\ d.p = c.p
  BY <1>2 DEF OnlyT, KeepBoard, Has
<1>4. TFits(d)
  BY <1>2, <1>3 DEF TFits, TReady, TFree
<1>5. Fits(d) /\ Stays(c, d)
  BY <1>2, <1>4, TMoves
<1> QED
  BY <1>1, <1>5 DEF d

LEMMA TMaterialiseFits ==
    ASSUME NEW n \in Nat, NEW l \in Nat, NEW c \in State(n, l), TReady(c)
    PROVE  TMaterialise(c) \in State(n, l) /\ Fits(TMaterialise(c)) /\ Stays(c, TMaterialise(c))
<1>1. CASE c.flag
  <2>1. TMaterialise(c) = TSettle(c, "cancelled")
    BY <1>1 DEF TMaterialise
  <2> QED
    BY <2>1, TSettleFits DEF Outs
<1>2. CASE ~c.flag /\ ~c.branches
  <2>1. TMaterialise(c) = TDone(c, "failed") /\ TMayEnd(c, "failed")
    BY <1>2 DEF TMaterialise, TMayEnd
  <2>2. "failed" \in Outs
    BY DEF Outs
  <2> QED
    BY <2>1, <2>2, TDoneFits
<1>3. CASE ~c.flag /\ c.branches
  <2>1. TMaterialise(c) = [c EXCEPT !.t.at = "continue"]
    BY <1>3 DEF TMaterialise
  <2> DEFINE at == "continue"
             d == [c EXCEPT !.t.at = at]
  <2>2. d \in State(n, l) /\ Fits(d) /\ Stays(c, d)
    <3>1. at \in {"stepone", "shell", "continue"} /\ at # "stepone" /\ at # "shell"
      OBVIOUS
    <3> HIDE DEF at
    <3> QED
      BY <3>1, TGoesOn DEF TReady
  <2> QED
    BY <2>1, <2>2
<1> QED
  BY <1>1, <1>2, <1>3

LEMMA TAfterStepOneFits ==
    ASSUME NEW n \in Nat, NEW l \in Nat, NEW c \in State(n, l), TRest(c), \A r \in Reviews : c.gate[r] # T,
           IF c.t.shell = "writing" THEN c.p.at = "done" ELSE TFree(c)
    PROVE  TAfterStepOne(c) \in State(n, l) /\ Fits(TAfterStepOne(c)) /\ Stays(c, TAfterStepOne(c))
<1>1. CASE c.t.shell = "writing"
  <2>1. TAfterStepOne(c) = [c EXCEPT !.t.at = "shell"]
    BY <1>1 DEF TAfterStepOne
  <2> DEFINE at == "shell"
             d == [c EXCEPT !.t.at = at]
  <2>2. d \in State(n, l) /\ Fits(d) /\ Stays(c, d)
    <3>1. at \in {"stepone", "shell", "continue"} /\ at # "stepone" /\ at # "continue"
      OBVIOUS
    <3> HIDE DEF at
    <3> QED
      BY <1>1, <3>1, TGoesOn
  <2> QED
    BY <2>1, <2>2
<1>2. CASE c.t.shell # "writing"
  BY <1>2, TMaterialiseFits DEF TAfterStepOne, TReady
<1> QED
  BY <1>1, <1>2

\* The scan ends.
LEMMA ScannedFits ==
    ASSUME NEW n \in Nat, NEW l \in Nat, NEW c \in State(n, l), Fits(c), c.t.at = "task"
    PROVE  /\ c.p.at = "done" => TAfterStepOne(c) \in State(n, l) /\ Fits(TAfterStepOne(c))
           /\ c.p.at # "done" =>
                  [c EXCEPT !.t.at = "stepone"] \in State(n, l) /\ Fits([c EXCEPT !.t.at = "stepone"])
<1>1. TRest(c) /\ TFits(c) /\ \A r \in Reviews : c.gate[r] # T
  BY RestOfT DEF Fits, Core, Flows, TFits
<1>2. c.t.shell # "writing" => TFree(c)
  BY <1>1 DEF TFits, TFree
<1>3. ASSUME c.p.at = "done" PROVE TAfterStepOne(c) \in State(n, l) /\ Fits(TAfterStepOne(c))
  BY <1>1, <1>2, <1>3, TAfterStepOneFits
<1>4. ASSUME c.p.at # "done"
      PROVE  [c EXCEPT !.t.at = "stepone"] \in State(n, l) /\ Fits([c EXCEPT !.t.at = "stepone"])
  <2> DEFINE at == "stepone"
             d == [c EXCEPT !.t.at = at]
  <2>1. at \in {"stepone", "shell", "continue"} /\ at # "shell" /\ at # "continue"
    OBVIOUS
  <2>2. c.t.shell # "writing"
    BY <1>1, <1>4 DEF TFits
  <2> HIDE DEF at
  <2>3. d \in State(n, l) /\ Fits(d)
    BY <1>1, <1>4, <2>1, <2>2, TGoesOn
  <2> QED
    BY <2>3 DEF at
<1> QED
  BY <1>3, <1>4

\* The continued transfer branch answers.
LEMMA TLandedFits ==
    ASSUME NEW n \in Nat, NEW l \in Nat, NEW c \in State(n, l), Fits(c), c.t.at = "continue", NEW found \in BOOLEAN
    PROVE  TLanded(c, found) \in State(n, l) /\ Fits(TLanded(c, found))
<1>1. TRest(c) /\ TFree(c) /\ c.t.shell # "writing"
  BY RestOfT, TDoneFree
<1>2. CASE ~found
  <2>1. TLanded(c, found) = TSettle(c, "none")
    BY <1>2 DEF TLanded
  <2> QED
    BY <1>1, <2>1, TSettleFits DEF TReady, Outs
<1>3. CASE found
  <2> DEFINE base == c.lib
             d == [c EXCEPT !.t.at = "card", !.t.base = base]
             e == ParkGate(d, "transfer", T)
  <2>1. TLanded(c, found) = Push(e, T)
    BY <1>3 DEF TLanded
  <2>10. base \in Nat
    BY DEF State
  <2> HIDE DEF base
  <2>2. d \in State(n, l)
    BY <2>10 DEF State, TAts
  <2>3. OnlyT(c, d) /\ d.t.at = "card" /\ d.t.shell = c.t.shell
    BY DEF State, OnlyT, KeepBoard, KeepOwners, KeepHold, KeepRest
  <2> HIDE DEF d
  <2>4. TFree(d)
    BY <1>1, <2>3, FreeAfter
  <2>5. TFits(d)
    BY <1>1, <2>3, <2>4 DEF TFits, TFree
  <2>6. Fits(d)
    BY <1>1, <2>3, <2>5, TMoves
  <2>7. MayGuard(d, "transfer", T)
    BY <2>3, NamesDiffer DEF MayGuard
  <2>8. e \in State(n, l) /\ Fits(e) /\ OnlyGate(d, e) /\ (Has(e, T) <=> Has(d, T))
    BY <2>2, <2>6, <2>7, ParkFits, Names DEF Reviews
  <2> HIDE DEF e
  <2>9. MayAwait(e, T) /\ ~Has(e, T)
    BY <2>3, <2>4, <2>8, NamesDiffer DEF MayAwait, OnlyGate, KeepStages, TFree
  <2> QED
    BY <2>1, <2>8, <2>9, PushFits, Names
<1> QED
  BY <1>2, <1>3

\* The card of a shell that was written.
LEMMA TShellShown ==
    ASSUME NEW n \in Nat, NEW l \in Nat, NEW c \in State(n, l), Fits(c), ~Has(c, T), c.t.shell = "writing"
    PROVE  LET d == Show([c EXCEPT !.t.shell = "shown"], "transfer", "open")
           IN  /\ d \in State(n, l) /\ TReady(d) /\ d.t.at = c.t.at /\ d.t.shell = "shown" /\ d.p = c.p
<1> DEFINE e == [c EXCEPT !.t.shell = "shown"]
           d == Show(e, "transfer", "open")
<1>1. e \in State(n, l)
  BY DEF State
<1>2. OnlyT(c, e) /\ e.t.at = c.t.at /\ e.t.shell = "shown"
  BY DEF State, OnlyT, KeepBoard, KeepOwners, KeepHold, KeepRest
<1> HIDE DEF e
<1>3. /\ d \in State(n, l) /\ OnlyCard(e, d) /\ d.card["transfer"] = "open"
      /\ \A x \in Reviews \cup {"preview"} : x # "transfer" => d.card[x] = e.card[x]
  <2>1. "transfer" \in Reviews \cup {"preview"} /\ "open" \in Looks
    BY DEF Reviews, Looks
  <2> QED
    BY <1>1, <2>1, ShowIsTyped
<1> HIDE DEF d
<1>4. TRest(c) /\ TFits(c)
  BY RestOfT DEF Fits, Core, Flows, TFits
<1>5. /\ d.p = c.p /\ d.t.at = c.t.at /\ d.t.shell = "shown" /\ d.again = c.again /\ d.main = c.main
      /\ d.chain = c.chain /\ d.gate = c.gate /\ KeepOwners(c, d) /\ KeepHold(c, d)
      /\ d.card["checkup"] = c.card["checkup"] /\ d.card["preview"] = c.card["preview"]
  BY <1>2, <1>3 DEF OnlyT, OnlyCard, KeepStages, KeepBoard, KeepOwners, KeepHold, Reviews
<1>6. \A x : Has(d, x) <=> Has(c, x)
  BY <1>5 DEF Has
<1>7. TFree(d)
  BY <1>4, <1>5, <1>6 DEF TFree, TFits
<1>8. Once(d) /\ PFits(d) /\ AgainFits(d) /\ MainFits(d) /\ OthersFit(d)
  BY <1>4, <1>5, <1>6 DEF TRest, Once, PFits, AgainFits, MainFits, OthersFit, KeepOwners, KeepHold, Rounds
<1>9. Staged(d) /\ Owned(d) /\ Approved(d) /\ HeldFits(d) /\ EndFits(d)
  BY <1>4, <1>5 DEF TRest, Staged, Owned, Approved, HeldFits, EndFits, KeepOwners, KeepHold, Idle, StagesDone,
                    AgainDone, Rounds
<1>10. CardsFit(d)
  BY <1>3, <1>4, <1>5 DEF TRest, CardsFit, TFits, KeepHold, Staged
<1> QED
  BY <1>3, <1>4, <1>5, <1>7, <1>8, <1>9, <1>10 DEF TReady, TRest, d, e

\* The write of T's cards is done.
LEMMA TCardWrittenFits ==
    ASSUME NEW n \in Nat, NEW l \in Nat, NEW c \in State(n, l), Fits(c), ~Has(c, T), c.t.at = "card"
    PROVE  TCardWritten(c) \in State(n, l) /\ Fits(TCardWritten(c))
<1> DEFINE free == IF c.gate["transfer"] = T THEN ParkGate(c, "transfer", Nobody) ELSE c
           seen == IF c.card["transfer"] = "none" THEN Show(c, "transfer", "open") ELSE c
           last == [seen EXCEPT !.t.at = "gate", !.t.shell = "shown"]
<1>1. TCardWritten(c) \in {TSettle(free, "cancelled"), TSettle(free, "none"), last}
  BY DEF TCardWritten
<1>2. TRest(c) /\ TFits(c) /\ c.t.shell # "writing"
  BY RestOfT DEF Fits, Core, Flows, TFits
<1>3. free \in State(n, l) /\ TReady(free)
  <2>1. CASE c.gate["transfer"] = T
    <3> DEFINE d == ParkGate(c, "transfer", Nobody)
    <3>1. free = d
      BY <2>1
    <3>2. /\ d \in State(n, l) /\ Fits(d) /\ OnlyGate(c, d) /\ d.gate["transfer"] = Nobody
          /\ \A x \in Reviews : x # "transfer" => d.gate[x] = c.gate[x]
      BY UnparkFits DEF Reviews
    <3> HIDE DEF d
    <3>3. d.t = c.t /\ d.chain = c.chain
      BY <3>2 DEF OnlyGate, KeepStages
    <3>4. TFree(d)
      BY <1>2, <3>2, <3>3, NamesDiffer DEF TFree, TFits, Has
    <3> QED
      BY <1>2, <3>1, <3>2, <3>3, <3>4, RestOfT DEF TReady
  <2>2. CASE c.gate["transfer"] # T
    BY <1>2, <2>2 DEF TReady, TFree, TFits
  <2> QED
    BY <2>1, <2>2
<1>4. last \in State(n, l) /\ Fits(last)
  <2> DEFINE e == [c EXCEPT !.t.at = "gate", !.t.shell = "shown"]
  <2>1. e \in State(n, l)
    BY DEF State, TAts
  <2>2. OnlyT(c, e) /\ e.t.at = "gate" /\ e.t.shell = "shown" /\ e.card = c.card
    BY DEF State, OnlyT, KeepBoard, KeepOwners, KeepHold, KeepRest
  <2>3. TFits(e)
    <3>1. e.chain = c.chain /\ e.gate = c.gate /\ e.p = c.p
      BY <2>2 DEF OnlyT, KeepBoard
    <3> HIDE DEF e
    <3> QED
      BY <1>2, <2>2, <3>1 DEF TFits, Has
  <2>4. Fits(e)
    <3> HIDE DEF e
    <3> QED
      BY <1>2, <2>2, <2>3, TMoves
  <2>5. CASE c.card["transfer"] = "none"
    <3>1. last = Show(e, "transfer", "open")
      BY <2>5 DEF Show, State
    <3> HIDE DEF e
    <3>2. MayLook(e, "transfer", "open")
      BY <1>2, <2>2, <2>5 DEF TRest, CardsFit, MayLook, OnlyT
    <3>3. Show(e, "transfer", "open") \in State(n, l) /\ Fits(Show(e, "transfer", "open"))
      BY <2>1, <2>4, <3>2, ShowFits DEF Reviews, Looks
    <3> QED
      BY <3>1, <3>3
  <2>6. CASE c.card["transfer"] # "none"
    BY <2>1, <2>4, <2>6
  <2> QED
    BY <2>5, <2>6
<1> HIDE DEF free, last
<1>5. \A o \in {"cancelled", "none"} : TSettle(free, o) \in State(n, l) /\ Fits(TSettle(free, o))
  BY <1>3, TSettleFits DEF Outs
<1> QED
  BY <1>1, <1>4, <1>5

\* A write of T is done.
LEMMA TWrittenFits ==
    ASSUME NEW n \in Nat, NEW l \in Nat, NEW c \in State(n, l), Fits(c), ~Has(c, T),
           c.t.shell = "writing" \/ c.t.at \in {"card", "settle", "decide"}
    PROVE  TWritten(c) \in State(n, l) /\ Fits(TWritten(c))
<1>1. c.t.at # "done" /\ TFits(c)
  BY DEF Fits, Core, Flows, TFits
<1>2. CASE c.t.shell = "writing"
  <2> DEFINE seen == Show([c EXCEPT !.t.shell = "shown"], "transfer", "open")
  <2>1. /\ seen \in State(n, l) /\ TReady(seen) /\ seen.t.at = c.t.at /\ seen.t.shell = "shown"
        /\ seen.p = c.p
    BY <1>2, TShellShown
  <2>2. TWritten(c) = CASE c.t.at = "settle" -> Push(seen, T)
                        [] c.t.at = "shell"  -> TMaterialise(seen)
                        [] OTHER             -> seen
    BY <1>2 DEF TWritten
  <2> HIDE DEF seen
  <2>3. CASE c.t.at = "shell"
    BY <2>1, <2>2, <2>3, TMaterialiseFits
  <2>4. CASE c.t.at # "shell"
    <3>1. TFits(seen)
      BY <1>1, <1>2, <2>1, <2>4 DEF TFits, TReady, TFree
    <3>2. Fits(seen)
      BY <3>1, <2>1 DEF TReady, TRest, Fits, Core, Flows
    <3>3. c.t.at = "settle" => MayAwait(seen, T)
      BY <2>1, NamesDiffer DEF MayAwait
    <3> QED
      BY <2>1, <2>2, <2>4, <3>2, <3>3, PushFits, Names DEF TReady, TFree
  <2> QED
    BY <2>3, <2>4
<1>3. CASE c.t.shell # "writing" /\ c.t.at = "card"
  BY <1>3, TCardWrittenFits DEF TWritten
<1>4. CASE c.t.shell # "writing" /\ c.t.at = "settle"
  <2> DEFINE d == [c EXCEPT !.t.at = "decide"]
  <2>1. TWritten(c) = Push(d, T)
    BY <1>4 DEF TWritten
  <2>2. d \in State(n, l)
    BY DEF State, TAts
  <2>3. OnlyT(c, d) /\ d.t.at = "decide" /\ d.t.shell = c.t.shell
    BY DEF State, OnlyT, KeepBoard, KeepOwners, KeepHold, KeepRest
  <2> HIDE DEF d
  <2>4. TFree(c)
    BY <1>1, <1>4 DEF TFits, TFree
  <2>5. TFree(d)
    BY <2>3, <2>4, FreeAfter
  <2>6. TFits(d)
    BY <1>1, <1>4, <2>3, <2>5 DEF TFits, TFree, State
  <2>7. Fits(d)
    BY <1>1, <2>3, <2>6, TMoves, RestOfT
  <2>8. MayAwait(d, T)
    BY <2>3, NamesDiffer DEF MayAwait
  <2> QED
    BY <2>1, <2>2, <2>5, <2>7, <2>8, PushFits, Names DEF TFree
<1>5. CASE c.t.shell # "writing" /\ c.t.at = "decide"
  <2> DEFINE seen == ShowDecision(c, "transfer", c.t.out)
  <2>1. TWritten(c) = TDone(seen, c.t.out)
    BY <1>5 DEF TWritten
  <2>2. MayLook(c, "transfer", "answered") /\ MayLook(c, "transfer", "settled")
    BY <1>1, <1>5 DEF MayLook, TFits, Reviews
  <2>3. /\ seen \in State(n, l) /\ OnlyCard(c, seen) /\ Fits(seen) /\ (Has(seen, T) <=> Has(c, T))
        /\ seen.card["transfer"] \in {"answered", "settled"}
    BY <2>2, DecisionFits, Names DEF Reviews
  <2> HIDE DEF seen
  <2>4. TReady(seen)
    BY <1>1, <1>5, <2>3, RestOfT DEF TReady, TFree, TFits, OnlyCard, KeepStages
  <2>5. TMayEnd(seen, c.t.out) /\ c.t.out \in Outs
    BY <2>3 DEF TMayEnd, State
  <2> QED
    BY <2>1, <2>3, <2>4, <2>5, TDoneFits
<1> QED
  BY <1>2, <1>3, <1>4, <1>5

---------------------------------------------------------------------------
(* runProposalsGate *)

OnlyP(c, d) ==
    /\ d.t = c.t /\ d.again = c.again /\ d.main = c.main /\ KeepBoard(c, d) /\ KeepOwners(c, d)
    /\ KeepHold(c, d) /\ KeepRest(c, d)

PFree(c) == ~Has(c, P) /\ \A r \in Reviews : c.gate[r] # P

LEMMA PMoves ==
    ASSUME NEW c, NEW d, Fits(c), c.p.at # "done", OnlyP(c, d), PFits(d)
    PROVE  /\ c.t.at # "done" => TRest(d)
           /\ TFits(d) => Fits(d)
           /\ d.p.at # "done" => TFits(d)
           /\ c.t.at # "stepone" => TFits(d)
           /\ Stays(c, d) /\ \A x : Has(d, x) <=> Has(c, x)
<1>1. \A x : Has(d, x) <=> Has(c, x)
  BY DEF OnlyP, KeepBoard, Has
<1>2. AgainFits(d) /\ MainFits(d) /\ OthersFit(d)
  BY <1>1 DEF Fits, Core, Flows, OnlyP, KeepBoard, KeepOwners, KeepHold, AgainFits, MainFits, OthersFit, Rounds
<1>3. Once(d) /\ Owned(d) /\ Approved(d) /\ HeldFits(d) /\ EndFits(d) /\ Stays(c, d)
  BY DEF Fits, Core, OnlyP, KeepBoard, KeepOwners, KeepHold, Once, Owned, Approved, HeldFits, EndFits, Idle,
         Stays
<1>4. Staged(d) /\ CardsFit(d)
  BY DEF Fits, Core, OnlyP, KeepBoard, KeepOwners, KeepHold, Staged, CardsFit, StagesDone, AgainDone, Rounds,
         Idle
<1>5. (d.p.at # "done" => TFits(d)) /\ (c.t.at # "stepone" => TFits(d))
  BY <1>1 DEF Fits, Core, Flows, TFits, OnlyP, KeepBoard
<1> QED
  BY <1>1, <1>2, <1>3, <1>4, <1>5 DEF Fits, Core, Flows, TRest, OnlyP

LEMMA StepOneSettledFits ==
    ASSUME NEW n \in Nat, NEW l \in Nat, NEW c \in State(n, l), Fits(c), c.p.at # "done", PFree(c), NEW out \in Outs
    PROVE  LET d == StepOneSettled([c EXCEPT !.p.at = "done", !.p.out = out])
           IN  d \in State(n, l) /\ Fits(d) /\ Stays(c, d)
<1> DEFINE e == [c EXCEPT !.p.at = "done", !.p.out = out]
<1>1. e \in State(n, l)
  BY DEF State, PAts
<1>2. OnlyP(c, e) /\ e.p.at = "done"
  BY DEF State, OnlyP, KeepBoard, KeepOwners, KeepHold, KeepRest
<1>3. StepOneSettled(e) = CASE e.t.at = "task" /\ e.t.shell = "none" /\ ~StopSeen(e) ->
                                 Push([e EXCEPT !.t.shell = "writing"], T)
                            [] e.t.at = "stepone" -> TAfterStepOne(e)
                            [] OTHER              -> e
  BY DEF StepOneSettled
<1> HIDE DEF e
<1>4. \A x : Has(e, x) <=> Has(c, x)
  BY <1>2 DEF OnlyP, KeepBoard, Has
<1>5. PFits(e)
  BY <1>2, <1>4 DEF PFree, PFits, OnlyP, KeepBoard
<1>6. /\ c.t.at # "done" => TRest(e)
      /\ c.t.at # "stepone" => Fits(e)
      /\ Stays(c, e) /\ e.t = c.t
  BY <1>2, <1>5, PMoves DEF OnlyP
<1>7. TFits(c) /\ e.gate = c.gate
  BY <1>2 DEF Fits, Core, Flows, OnlyP, KeepBoard
<1>8. CASE e.t.at = "task" /\ e.t.shell = "none" /\ ~StopSeen(e)
  <2> DEFINE d == [e EXCEPT !.t.shell = "writing"]
  <2>1. StepOneSettled(e) = Push(d, T)
    BY <1>3, <1>8
  <2>2. d \in State(n, l)
    BY <1>1 DEF State
  <2>3. OnlyT(e, d) /\ d.t.at = e.t.at /\ d.t.shell = "writing"
    BY <1>1 DEF State, OnlyT, KeepBoard, KeepOwners, KeepHold, KeepRest
  <2> HIDE DEF d
  <2>4. TFree(e)
    BY <1>4, <1>6, <1>7, <1>8 DEF TFits, TFree
  <2>5. TFree(d)
    BY <2>3, <2>4, FreeAfter
  <2>6. TFits(d)
    BY <1>2, <1>8, <2>3, <2>5 DEF TFits, TFree, OnlyT
  <2>7. Fits(d) /\ Stays(e, d)
    BY <1>6, <1>8, <2>3, <2>6, TMoves
  <2>8. MayAwait(d, T)
    BY <2>3, NamesDiffer DEF MayAwait
  <2>9. Push(d, T) \in State(n, l) /\ Fits(Push(d, T)) /\ Stays(d, Push(d, T))
    BY <2>2, <2>5, <2>7, <2>8, PushFits, Names DEF TFree
  <2> QED
    BY <1>6, <2>1, <2>7, <2>9, StaysOn DEF e
<1>9. CASE e.t.at = "stepone"
  <2>1. StepOneSettled(e) = TAfterStepOne(e)
    BY <1>3, <1>9
  <2>2. TFree(e) /\ e.t.shell # "writing" /\ TRest(e)
    BY <1>4, <1>6, <1>7, <1>9 DEF TFits, TFree
  <2>3. TAfterStepOne(e) \in State(n, l) /\ Fits(TAfterStepOne(e)) /\ Stays(e, TAfterStepOne(e))
    BY <1>1, <2>2, TAfterStepOneFits DEF TFree
  <2> QED
    BY <1>6, <2>1, <2>3, StaysOn DEF e
<1>10. CASE e.t.at # "stepone" /\ ~(e.t.at = "task" /\ e.t.shell = "none" /\ ~StopSeen(e))
  BY <1>1, <1>3, <1>6, <1>10 DEF e
<1> QED
  BY <1>8, <1>9, <1>10

LEMMA PDoneFits ==
    ASSUME NEW n \in Nat, NEW l \in Nat, NEW c \in State(n, l), Fits(c), c.p.at # "done", PFree(c), NEW out \in Outs
    PROVE  PDone(c, out) \in State(n, l) /\ Fits(PDone(c, out))
<1> DEFINE d == StepOneSettled([c EXCEPT !.p.at = "done", !.p.out = out])
<1>1. d \in State(n, l) /\ Fits(d)
  BY StepOneSettledFits
<1>2. PDone(c, out) = StagesEnd(d)
  BY DEF PDone
<1> HIDE DEF d
<1> QED
  BY <1>1, <1>2, StagesEndFits

\* P goes on, to a write or without one.
PAt(c, at, out) == [c EXCEPT !.p.at = at, !.p.out = out]
PTo(c, at)      == [c EXCEPT !.p.at = at]

LEMMA PGoesOn ==
    ASSUME NEW n \in Nat, NEW l \in Nat, NEW c \in State(n, l), Fits(c), c.p.at # "done", PFree(c),
           NEW at \in PAts, at # "done", NEW out \in Outs, NEW d \in {PTo(c, at), PAt(c, at, out)}
    PROVE  /\ d \in State(n, l) /\ Fits(d) /\ d.p.at = at /\ PFree(d) /\ Stays(c, d)
           /\ at \in {"result", "decide"} =>
                Push(d, P) \in State(n, l) /\ Fits(Push(d, P)) /\ Stays(c, Push(d, P))
<1>1. PTo(c, at) \in State(n, l) /\ PAt(c, at, out) \in State(n, l)
  BY DEF State, PTo, PAt
<1>2. OnlyP(c, PTo(c, at)) /\ PTo(c, at).p.at = at
  BY DEF PTo, State, OnlyP, KeepBoard, KeepOwners, KeepHold, KeepRest
<1>3. OnlyP(c, PAt(c, at, out)) /\ PAt(c, at, out).p.at = at
  BY DEF PAt, State, OnlyP, KeepBoard, KeepOwners, KeepHold, KeepRest
<1>4. d \in State(n, l) /\ OnlyP(c, d) /\ d.p.at = at
  BY <1>1, <1>2, <1>3
<1>5. PFree(d) /\ PFits(d)
  BY <1>4 DEF PFree, PFits, OnlyP, KeepBoard, Has
<1>6. Fits(d) /\ Stays(c, d)
  BY <1>4, <1>5, PMoves
<1>7. ASSUME at \in {"result", "decide"}
      PROVE  Push(d, P) \in State(n, l) /\ Fits(Push(d, P)) /\ Stays(c, Push(d, P))
  <2>1. MayAwait(d, P)
    BY <1>4, <1>7, NamesDiffer DEF MayAwait
  <2> QED
    BY <1>4, <1>5, <1>6, <2>1, PushFits, Names, StaysOn DEF PFree
<1> QED
  BY <1>4, <1>5, <1>6, <1>7

\* A write of P is done.
LEMMA PWrittenFits ==
    ASSUME NEW n \in Nat, NEW l \in Nat, NEW c \in State(n, l), Fits(c), ~Has(c, P),
           c.p.at \in {"shell", "result", "decide"}, NEW found \in BOOLEAN
    PROVE  PWritten(c, found) \in State(n, l) /\ Fits(PWritten(c, found))
<1>1. PFree(c) /\ c.p.at # "done"
  BY DEF Fits, Core, Flows, PFits, PFree
<1>2. CASE c.p.at = "shell"
  <2> DEFINE seen == Show(c, "proposals", "open")
  <2>1. PWritten(c, found) \in {Push(PTo(seen, "result"), P), PTo(seen, "parse")}
    BY <1>2 DEF PWritten, PTo
  <2>2. MayLook(c, "proposals", "open")
    BY DEF MayLook
  <2>3. seen \in State(n, l) /\ OnlyCard(c, seen) /\ Fits(seen)
    BY <2>2, ShowFits DEF Reviews, Looks
  <2> HIDE DEF seen
  <2>4. PFree(seen) /\ seen.p.at # "done"
    BY <1>1, <2>3 DEF PFree, OnlyCard, KeepStages, Has
  <2>5. PTo(seen, "parse") \in State(n, l) /\ Fits(PTo(seen, "parse"))
    BY <2>3, <2>4, PGoesOn DEF PAts, Outs
  <2>6. Push(PTo(seen, "result"), P) \in State(n, l) /\ Fits(Push(PTo(seen, "result"), P))
    BY <2>3, <2>4, PGoesOn DEF PAts, Outs
  <2> QED
    BY <2>1, <2>5, <2>6
<1>3. CASE c.p.at = "result"
  <2> DEFINE g == PTo(c, "gate")
  <2>1. PICK o \in {"cancelled", "none"} :
          PWritten(c, found) \in {ParkGate(g, "proposals", P), Push(PAt(c, "decide", o), P)}
    BY <1>3 DEF PWritten, PTo, PAt
  <2>2. Push(PAt(c, "decide", o), P) \in State(n, l) /\ Fits(Push(PAt(c, "decide", o), P))
    BY <1>1, PGoesOn DEF PAts, Outs
  <2>3. g \in State(n, l) /\ Fits(g) /\ g.p.at = "gate"
    BY <1>1, PGoesOn DEF PAts, Outs
  <2> HIDE DEF g
  <2>4. MayGuard(g, "proposals", P)
    BY <2>3, NamesDiffer DEF MayGuard
  <2>5. ParkGate(g, "proposals", P) \in State(n, l) /\ Fits(ParkGate(g, "proposals", P))
    BY <2>3, <2>4, ParkFits, Names DEF Reviews
  <2> QED
    BY <2>1, <2>2, <2>5
<1>4. CASE c.p.at = "decide"
  <2> DEFINE seen == ShowDecision(c, "proposals", c.p.out)
  <2>1. PWritten(c, found) = PDone(seen, c.p.out)
    BY <1>4 DEF PWritten
  <2>2. MayLook(c, "proposals", "answered") /\ MayLook(c, "proposals", "settled")
    BY DEF MayLook
  <2>3. seen \in State(n, l) /\ OnlyCard(c, seen) /\ Fits(seen)
    BY <2>2, DecisionFits DEF Reviews
  <2> HIDE DEF seen
  <2>4. PFree(seen) /\ seen.p.at # "done" /\ c.p.out \in Outs
    BY <1>1, <2>3 DEF PFree, OnlyCard, KeepStages, Has, State
  <2> QED
    BY <2>1, <2>3, <2>4, PDoneFits
<1> QED
  BY <1>2, <1>3, <1>4

\* The prompt is parsed, or the parse failed.
LEMMA ParsedFits ==
    ASSUME NEW n \in Nat, NEW l \in Nat, NEW c \in State(n, l), Fits(c), c.p.at = "parse"
    PROVE  /\ Push(PTo(c, "result"), P) \in State(n, l) /\ Fits(Push(PTo(c, "result"), P))
           /\ Stays(c, Push(PTo(c, "result"), P))
           /\ PDone(c, "failed") \in State(n, l) /\ Fits(PDone(c, "failed"))
<1>1. PFree(c) /\ c.p.at # "done"
  BY DEF Fits, Core, Flows, PFits, PFree
<1>2. PDone(c, "failed") \in State(n, l) /\ Fits(PDone(c, "failed"))
  BY <1>1, PDoneFits DEF Outs
<1>3. /\ Push(PTo(c, "result"), P) \in State(n, l) /\ Fits(Push(PTo(c, "result"), P))
      /\ Stays(c, Push(PTo(c, "result"), P))
  BY <1>1, PGoesOn DEF PAts, Outs
<1> QED
  BY <1>2, <1>3

---------------------------------------------------------------------------
(* A Step 1 opened again *)

OnlyAgain(c, d, i) ==
    /\ d.p = c.p /\ d.t = c.t /\ d.main = c.main /\ KeepBoard(c, d) /\ KeepOwners(c, d)
    /\ KeepHold(c, d) /\ KeepRest(c, d)
    /\ Rounds(d) = Rounds(c) /\ \A j \in Rounds(c) : j # i => d.again[j] = c.again[j]

LEMMA AgainMoves ==
    ASSUME NEW c, NEW d, NEW i \in Nat, Fits(c), i \in Rounds(c), c.again[i].at # "done", OnlyAgain(c, d, i),
           ~Has(c, Again(i)), \A r \in Reviews : c.gate[r] # Again(i)
    PROVE  Fits(d) /\ Stays(c, d) /\ \A x : Has(d, x) <=> Has(c, x)
<1>1. \A x : Has(d, x) <=> Has(c, x)
  BY DEF OnlyAgain, KeepBoard, Has
<1>2. PFits(d) /\ TFits(d) /\ MainFits(d) /\ OthersFit(d)
  BY <1>1 DEF Fits, Core, Flows, OnlyAgain, KeepBoard, KeepOwners, KeepHold, PFits, TFits, MainFits, OthersFit
<1>3. AgainFits(d)
  BY <1>1 DEF Fits, Core, Flows, OnlyAgain, KeepBoard, AgainFits
<1>4. Once(d) /\ CardsFit(d) /\ Owned(d) /\ Approved(d) /\ HeldFits(d) /\ EndFits(d) /\ Stays(c, d)
  BY DEF Fits, Core, OnlyAgain, KeepBoard, KeepOwners, KeepHold, Once, CardsFit, Owned, Approved, HeldFits,
         EndFits, Idle, Stays
<1>5. ~AgainDone(c)
  BY DEF AgainDone
<1>6. Staged(d)
  BY <1>5 DEF Fits, Core, OnlyAgain, KeepOwners, KeepHold, Staged, StagesDone, Idle
<1> QED
  BY <1>1, <1>2, <1>3, <1>4, <1>6 DEF Fits, Core, Flows

AgainTo(c, i, at)      == [c EXCEPT !.again[i].at = at]
AgainWith(c, i, at, o) == [c EXCEPT !.again[i].at = at, !.again[i].out = o]

AgainAts == {"reset", "gate", "decide", "done"}

LEMMA AgainPut ==
    ASSUME NEW n \in Nat, NEW l \in Nat, NEW c \in State(n, l), NEW i \in 1 .. n, NEW rec \in AgainRecord
    PROVE  LET d == [c EXCEPT !.again[i] = rec]
           IN  d \in State(n, l) /\ OnlyAgain(c, d, i) /\ d.again[i] = rec
<1> DEFINE ag == [c.again EXCEPT ![i] = rec]
           d == [c EXCEPT !.again = ag]
<1>1. c.again \in [1 .. n -> AgainRecord]
  BY DEF State
<1>2. /\ ag \in [1 .. n -> AgainRecord] /\ ag[i] = rec /\ DOMAIN ag = DOMAIN c.again
      /\ \A k \in DOMAIN c.again : k # i => ag[k] = c.again[k]
  BY <1>1
<1> HIDE DEF ag
<1>3. d \in State(n, l)
  BY <1>2 DEF State
<1>4. OnlyAgain(c, d, i) /\ d.again = ag
  BY <1>2 DEF State, OnlyAgain, KeepBoard, KeepOwners, KeepHold, KeepRest, Rounds
<1> QED
  BY <1>2, <1>3, <1>4 DEF ag

LEMMA AgainIsTyped ==
    ASSUME NEW n \in Nat, NEW l \in Nat, NEW c \in State(n, l), NEW i \in 1 .. n, NEW at \in AgainAts,
           NEW o \in Outs
    PROVE  /\ AgainTo(c, i, at) \in State(n, l) /\ OnlyAgain(c, AgainTo(c, i, at), i)
           /\ AgainTo(c, i, at).again[i].at = at
           /\ AgainWith(c, i, at, o) \in State(n, l) /\ OnlyAgain(c, AgainWith(c, i, at, o), i)
           /\ AgainWith(c, i, at, o).again[i].at = at
<1>1. c.again[i] \in AgainRecord
  BY DEF State
<1>3. /\ AgainTo(c, i, at) \in State(n, l) /\ OnlyAgain(c, AgainTo(c, i, at), i)
      /\ AgainTo(c, i, at).again[i].at = at
  <2> DEFINE rec == [c.again[i] EXCEPT !.at = at]
             d == [c EXCEPT !.again[i] = rec]
  <2>1. rec \in AgainRecord /\ rec.at = at
    BY <1>1 DEF AgainRecord, AgainAts
  <2>2. AgainTo(c, i, at) = d
    BY DEF AgainTo
  <2> HIDE DEF rec
  <2>3. d \in State(n, l) /\ OnlyAgain(c, d, i) /\ d.again[i] = rec
    BY <2>1, AgainPut
  <2> QED
    BY <2>1, <2>2, <2>3
<1> DEFINE one == AgainTo(c, i, at)
           rec == [one.again[i] EXCEPT !.out = o]
           d == [one EXCEPT !.again[i] = rec]
<1>4. AgainWith(c, i, at, o) = d
  BY DEF AgainWith, AgainTo
<1> HIDE DEF one
<1>5. one \in State(n, l) /\ OnlyAgain(c, one, i) /\ one.again[i].at = at
  BY <1>3 DEF one
<1>6. rec \in AgainRecord /\ rec.at = at
  <2>1. one.again[i] \in AgainRecord
    BY <1>5 DEF State
  <2> QED
    BY <1>5, <2>1 DEF AgainRecord
<1> HIDE DEF rec
<1>7. d \in State(n, l) /\ OnlyAgain(one, d, i) /\ d.again[i] = rec
  BY <1>5, <1>6, AgainPut
<1> HIDE DEF d
<1>8. OnlyAgain(c, d, i)
  BY <1>5, <1>7 DEF OnlyAgain, KeepBoard, KeepOwners, KeepHold, KeepRest
<1> QED
  BY <1>3, <1>4, <1>6, <1>7, <1>8

\* A write of a Step 1 opened again is done.
LEMMA AgainWrittenFits ==
    ASSUME NEW n \in Nat, NEW l \in Nat, NEW c \in State(n, l), Fits(c), NEW i \in 1 .. n, ~Has(c, Again(i)),
           c.again[i].at \in {"reset", "decide"}
    PROVE  AgainWritten(c, i) \in State(n, l) /\ Fits(AgainWritten(c, i))
<1>1. Rounds(c) = 1 .. n /\ c.again[i] \in AgainRecord /\ i \in Nat
  BY DEF State, Rounds
<1>2. \A r \in Reviews : c.gate[r] # Again(i)
  BY <1>1 DEF Fits, Core, Flows, AgainFits
<1>3. CASE c.again[i].at = "reset"
  <2> DEFINE seen == ShowReset(c, "proposals")
             g == AgainTo(seen, i, "gate")
  <2>1. AgainWritten(c, i) = ParkGate(g, "proposals", Again(i))
    BY <1>3 DEF AgainWritten, AgainTo
  <2>8. "proposals" \in Reviews /\ MayReset(c, "proposals")
    BY DEF Reviews, MayReset
  <2>2. /\ seen \in State(n, l) /\ OnlyCard(c, seen) /\ Fits(seen)
        /\ \A x \in Who : Has(seen, x) <=> Has(c, x)
    BY <2>8, ResetFits
  <2> HIDE DEF seen
  <2>3. /\ Rounds(seen) = 1 .. n /\ seen.again[i].at = "reset" /\ ~Has(seen, Again(i))
        /\ \A r \in Reviews : seen.gate[r] # Again(i)
    BY <1>1, <1>2, <1>3, <2>2, Names DEF OnlyCard, KeepStages, Rounds
  <2>4. g \in State(n, l) /\ OnlyAgain(seen, g, i) /\ g.again[i].at = "gate"
    <3>1. "gate" \in AgainAts /\ "none" \in Outs
      BY DEF AgainAts, Outs
    <3> QED
      BY <2>2, <3>1, AgainIsTyped
  <2> HIDE DEF g
  <2>5. Fits(g)
    BY <1>1, <2>2, <2>3, <2>4, AgainMoves
  <2>6. MayGuard(g, "proposals", Again(i))
    BY <1>1, <2>3, <2>4, NamesDiffer DEF MayGuard, OnlyAgain
  <2>7. Again(i) \in Who /\ "proposals" \in Reviews
    BY <1>1, Names DEF Reviews
  <2> QED
    BY <2>1, <2>4, <2>5, <2>6, <2>7, ParkFits
<1>4. CASE c.again[i].at = "decide"
  <2> DEFINE e == AgainTo(c, i, "done")
             out == c.again[i].out
             done == ShowDecision(e, "proposals", out)
  <2>1. AgainWritten(c, i) = IF c.main.at = "repark" THEN AwaitReparks(done) ELSE done
    <3>1. e.again[i].out = out /\ c.again[i].at # "reset"
      BY <1>1, <1>4 DEF AgainTo, State
    <3> QED
      BY <1>4, <3>1 DEF AgainWritten, AgainTo
  <2>2. e \in State(n, l) /\ OnlyAgain(c, e, i)
    <3>1. "done" \in AgainAts /\ "none" \in Outs
      BY DEF AgainAts, Outs
    <3> QED
      BY <3>1, AgainIsTyped
  <2> HIDE DEF e, out
  <2>3. Fits(e)
    BY <1>1, <1>2, <1>4, <2>2, AgainMoves
  <2>4. MayLook(e, "proposals", "answered") /\ MayLook(e, "proposals", "settled")
    BY DEF MayLook
  <2>5. done \in State(n, l) /\ OnlyCard(e, done) /\ Fits(done)
    BY <2>2, <2>3, <2>4, DecisionFits DEF Reviews
  <2> HIDE DEF done
  <2>6. CASE c.main.at = "repark"
    <3>1. done.main.at = "repark"
      BY <2>2, <2>5, <2>6 DEF OnlyAgain, OnlyCard
    <3>2. MainReady(done)
      BY <2>5, <3>1, MainUnawaited
    <3>3. /\ done.p.at = "done" /\ done.t.at = "done" /\ done.t.out # "failed"
          /\ done.card["transfer"] \in {"none", "answered", "settled"}
      BY <2>5, <3>1 DEF Fits, Core, Staged, CardsFit
    <3> QED
      BY <2>1, <2>5, <2>6, <3>2, <3>3, AwaitReparksFits
  <2>7. CASE c.main.at # "repark"
    BY <2>1, <2>5, <2>7
  <2> QED
    BY <2>6, <2>7
<1> QED
  BY <1>3, <1>4

---------------------------------------------------------------------------
(* finishMemoryPreview, and the boot *)

OnlyFin(c, d) ==
    /\ KeepStages(c, d) /\ d.main = c.main /\ KeepBoard(c, d) /\ KeepHold(c, d) /\ d.lib = c.lib
    /\ d.pv = c.pv /\ d.planning = c.planning
    /\ d.fin.decision = c.fin.decision /\ d.fin.approved = c.fin.approved

\* Fin, or a driver that boots by itself, is about to leave the turn.
FinReady(c) ==
    /\ Core(c) /\ ~Has(c, Fin) /\ MainFree(c) /\ ~c.pv.parked /\ ~c.planning /\ ~c.prep.on
    /\ IF c.fin.decision = "auto" THEN c.main.at = "boot" /\ ~c.claim ELSE c.main.at = "over"
    /\ "booted" \in c.outcome => c.outcome = {"booted"} /\ ~c.stopped /\ c.rec = "no" /\ ~c.waiting

LEMMA FinFrame ==
    ASSUME NEW c, NEW d, OnlyFin(c, d)
    PROVE  /\ \A x : Has(d, x) <=> Has(c, x)
           /\ Core(c) => Once(d) /\ PFits(d) /\ TFits(d) /\ AgainFits(d) /\ MainFits(d) /\ CardsFit(d)
           /\ MainFree(c) => MainFree(d)
           /\ Stays(c, d)
<1>1. \A x : Has(d, x) <=> Has(c, x)
  BY DEF OnlyFin, KeepBoard, Has
<1>2. Core(c) => Once(d) /\ PFits(d) /\ TFits(d) /\ AgainFits(d) /\ MainFits(d) /\ CardsFit(d)
  BY <1>1 DEF Core, Flows, OnlyFin, KeepStages, KeepBoard, KeepHold, Once, PFits, TFits, AgainFits, MainFits,
              CardsFit, Rounds
<1>3. (MainFree(c) => MainFree(d)) /\ Stays(c, d)
  BY <1>1 DEF OnlyFin, KeepBoard, KeepHold, MainFree, Stays
<1> QED
  BY <1>1, <1>2, <1>3

LEMMA FinOut ==
    ASSUME NEW c, NEW d, FinReady(c), OnlyFin(c, d), d.fin.at = "done",
           d.claim => c.claim
    PROVE  Core(d) /\ ~Has(d, Fin) /\ MainFree(d) /\ Stays(c, d)
<1>1. Core(c)
  BY DEF FinReady
<1>2. /\ Once(d) /\ PFits(d) /\ TFits(d) /\ AgainFits(d) /\ MainFits(d) /\ CardsFit(d)
      /\ ~Has(d, Fin) /\ MainFree(d) /\ Stays(c, d) /\ \A x : Has(d, x) <=> Has(c, x)
  BY <1>1, FinFrame DEF FinReady
<1>3. OthersFit(d)
  BY <1>2 DEF FinReady, Core, Flows, OthersFit, OnlyFin, KeepBoard, KeepHold
<1>4. Staged(d) /\ Owned(d) /\ Approved(d) /\ HeldFits(d)
  BY DEF FinReady, Core, OnlyFin, KeepStages, KeepHold, Staged, Owned, Approved, HeldFits, Idle, StagesDone,
         AgainDone, Rounds, Active
<1> QED
  BY <1>2, <1>3, <1>4 DEF Core, Flows

LEMMA FinOverFits ==
    ASSUME NEW n \in Nat, NEW l \in Nat, NEW c \in State(n, l), FinReady(c)
    PROVE  FinOver(c) \in State(n, l) /\ Fits(FinOver(c)) /\ Stays(c, FinOver(c))
<1> DEFINE out == [c EXCEPT !.fin.at = "done"]
           free == [out EXCEPT !.claim = FALSE]
<1>1. FinOver(c) = IF c.fin.decision = "auto" THEN Over(out) ELSE Settle(free)
  BY DEF FinOver
<1>2. out \in State(n, l)
  BY DEF State
<1>3. OnlyFin(c, out) /\ out.fin.at = "done" /\ out.claim = c.claim
  BY DEF State, OnlyFin, KeepStages, KeepBoard, KeepHold
<1> HIDE DEF out
<1>4. free \in State(n, l)
  BY <1>2 DEF State
<1>5. OnlyFin(c, free) /\ free.fin.at = "done" /\ ~free.claim
  BY <1>2, <1>3 DEF State, OnlyFin, KeepStages, KeepBoard, KeepHold
<1> HIDE DEF free
<1>6. CASE c.fin.decision = "auto"
  <2>1. Core(out) /\ MainFree(out) /\ Stays(c, out)
    BY <1>3, FinOut
  <2>2. Ending(out) /\ out.fin.at \notin Active
    BY <1>3, <1>6 DEF FinReady, Ending, OnlyFin, KeepHold, Active
  <2>3. Over(out) \in State(n, l) /\ Fits(Over(out)) /\ Stays(out, Over(out))
    BY <1>2, <2>1, <2>2, OverFits
  <2> QED
    BY <1>1, <1>6, <2>1, <2>3, StaysOn
<1>7. CASE c.fin.decision # "auto"
  <2>1. Core(free) /\ Stays(c, free)
    BY <1>5, FinOut
  <2>2. Ending(free) /\ free.fin.at \notin Active /\ free.main.at = "over" /\ ~free.prep.on
    BY <1>5, <1>7 DEF FinReady, Ending, OnlyFin, KeepHold, Active
  <2>3. Settle(free) \in State(n, l) /\ Fits(Settle(free)) /\ Stays(free, Settle(free))
    BY <1>4, <2>1, <2>2, SettleEnds
  <2> QED
    BY <1>1, <1>7, <2>1, <2>3, StaysOn
<1> QED
  BY <1>6, <1>7

\* While the turn is finished or booted, nobody else moves it.
LEMMA ActiveFacts ==
    ASSUME NEW c, Fits(c), c.fin.at \in Active
    PROVE  /\ ~c.pv.parked /\ ~c.planning /\ ~c.prep.on /\ StagesDone(c) /\ c.held /\ ~c.settled
           /\ MainFree(c) /\ "booted" \notin c.outcome /\ (c.outcome # {} => c.stopped)
           /\ (c.rec # "no" \/ c.waiting => c.stopped)
           /\ IF c.fin.decision = "auto"
              THEN c.main.at = "boot" /\ ~c.claim /\ c.fin.at \in {"directory", "engine"}
              ELSE c.main.at = "over"
           /\ ~Has(c, Fin) => FinReady(c)
<1>1. /\ ~c.pv.parked /\ ~c.planning /\ ~c.prep.on /\ StagesDone(c) /\ c.held /\ ~c.settled
      /\ (c.rec # "no" \/ c.waiting => c.stopped)
  BY DEF Fits, Core, Staged, Owned, HeldFits, Idle
<1>2. "booted" \notin c.outcome /\ (c.outcome # {} => c.stopped)
  BY <1>1 DEF Fits, EndFits
<1>3. IF c.fin.decision = "auto"
      THEN c.main.at = "boot" /\ ~c.claim /\ c.fin.at \in {"directory", "engine"}
      ELSE c.main.at = "over"
  BY DEF Fits, Core, Owned, Idle
<1>4. MainFree(c)
  BY <1>3 DEF Fits, Core, Flows, MainFits, MainFree, Writes
<1> QED
  BY <1>1, <1>2, <1>3, <1>4 DEF FinReady, Fits

\* Fin goes on.
LEMMA FinMoves ==
    ASSUME NEW c, NEW d, Fits(c), c.fin.at \in Active, ~Has(c, Fin), OnlyFin(c, d), d.claim = c.claim,
           d.fin.at \in Active,
           d.fin.decision = "auto" => d.fin.at \in {"directory", "engine"},
           d.fin.at = "dismiss" => d.fin.decision = "dismiss",
           d.fin.at = "engine" /\ d.fin.decision = "go_on" => d.fin.plan = d.fin.approved
    PROVE  Fits(d) /\ ~Has(d, Fin) /\ Stays(c, d)
<1>1. Core(c)
  BY DEF Fits
<1>2. /\ Once(d) /\ PFits(d) /\ TFits(d) /\ AgainFits(d) /\ MainFits(d) /\ CardsFit(d)
      /\ ~Has(d, Fin) /\ Stays(c, d) /\ \A x : Has(d, x) <=> Has(c, x)
  BY <1>1, FinFrame
<1>3. OthersFit(d)
  BY <1>2 DEF Fits, Core, Flows, OthersFit, OnlyFin, KeepBoard, KeepHold
<1>4. Staged(d) /\ Owned(d) /\ Approved(d) /\ HeldFits(d) /\ EndFits(d)
  BY DEF Fits, Core, OnlyFin, KeepStages, KeepHold, Staged, Owned, Approved, HeldFits, EndFits, Idle,
         StagesDone, AgainDone, Rounds
<1> QED
  BY <1>2, <1>3, <1>4 DEF Fits, Core, Flows

LEMMA FinWrites ==
    ASSUME NEW n \in Nat, NEW l \in Nat, NEW c \in State(n, l), Fits(c), ~Has(c, Fin),
           c.fin.at \in {"decide", "dismiss", "failing", "failed"}
    PROVE  Push(c, Fin) \in State(n, l) /\ Fits(Push(c, Fin)) /\ Stays(c, Push(c, Fin))
<1>1. MayAwait(c, Fin)
  BY NamesDiffer DEF MayAwait
<1> QED
  BY <1>1, PushFits, Names

LEMMA FinFailsFits ==
    ASSUME NEW n \in Nat, NEW l \in Nat, NEW c \in State(n, l), Fits(c), c.fin.at \in {"directory", "engine"}
    PROVE  FinFails(c) \in State(n, l) /\ Fits(FinFails(c))
<1>1. c.fin.at \in Active /\ ~Has(c, Fin)
  BY DEF Fits, Core, Flows, OthersFit, Active
<1>2. FinReady(c)
  BY <1>1, ActiveFacts
<1>3. CASE c.fin.decision = "auto"
  <2> DEFINE d == [c EXCEPT !.fin.at = "done", !.main.at = "failing"]
  <2>1. FinFails(c) = Push(d, Main)
    BY <1>3 DEF FinFails
  <2>2. d \in State(n, l)
    BY DEF State, MainAts
  <2>3. /\ KeepStages(c, d) /\ KeepBoard(c, d) /\ KeepHold(c, d) /\ d.pv = c.pv /\ d.claim = c.claim
        /\ d.planning = c.planning /\ d.fin.at = "done" /\ d.fin.decision = c.fin.decision
        /\ d.main.at = "failing" /\ d.main.resumed = c.main.resumed
    BY DEF State, KeepStages, KeepBoard, KeepHold
  <2> HIDE DEF d
  <2>4. \A x : Has(d, x) <=> Has(c, x)
    BY <2>3 DEF KeepBoard, Has
  <2>5. Flows(d)
    BY <1>1, <1>2, <2>3, <2>4 DEF FinReady, Core, Flows, PFits, TFits, AgainFits, MainFits, MainFree, OthersFit,
                                  KeepStages, KeepBoard, KeepHold, Rounds
  <2>6. Once(d) /\ Staged(d) /\ CardsFit(d) /\ Owned(d) /\ Approved(d) /\ HeldFits(d)
    BY <1>1, <1>2, <1>3, <2>3, ActiveFacts DEF FinReady, Core, Once, Staged, CardsFit, Owned, Approved, HeldFits,
               KeepStages, KeepBoard, KeepHold, Idle, StagesDone, AgainDone, Rounds, Active, Late
  <2>7. EndFits(d)
    BY <1>1, <1>3, <2>3, ActiveFacts DEF EndFits, KeepHold
  <2>8. MayAwait(d, Main) /\ ~Has(d, Main)
    BY <1>2, <2>3, <2>4, NamesDiffer DEF MayAwait, Writes, FinReady, MainFree
  <2> QED
    BY <2>1, <2>2, <2>5, <2>6, <2>7, <2>8, PushFits, Names DEF Fits, Core
<1>4. CASE c.fin.decision # "auto" /\ c.stopped
  <2>1. FinFails(c) = FinOver(c)
    BY <1>4 DEF FinFails
  <2> QED
    BY <1>2, <2>1, FinOverFits
<1>5. CASE c.fin.decision # "auto" /\ ~c.stopped
  <2> DEFINE d == [c EXCEPT !.fin.at = "failing"]
  <2>1. FinFails(c) = Push(d, Fin)
    BY <1>5 DEF FinFails
  <2>2. d \in State(n, l)
    BY DEF State, Active
  <2>3. OnlyFin(c, d) /\ d.claim = c.claim /\ d.fin.at = "failing"
    BY DEF State, OnlyFin, KeepStages, KeepBoard, KeepHold
  <2> HIDE DEF d
  <2>4. d.fin.at \in Active /\ d.fin.decision # "auto"
    BY <1>5, <2>3 DEF Active, OnlyFin
  <2>5. Fits(d) /\ ~Has(d, Fin)
    BY <1>1, <2>3, <2>4, FinMoves
  <2> QED
    BY <2>1, <2>2, <2>3, <2>5, FinWrites
<1> QED
  BY <1>3, <1>4, <1>5

\* The driver boots the turn by itself.
LEMMA BootsByItself ==
    ASSUME NEW c, NEW d, LateReady(c), KeepStages(c, d), KeepBoard(c, d), KeepHold(c, d),
           d.pv = c.pv, d.claim = c.claim, d.planning = c.planning,
           d.main.at = "boot", d.main.resumed = c.main.resumed,
           d.fin.decision = "auto", d.fin.at \in {c.fin.at, "directory"}
    PROVE  Core(d) /\ EndFits(d) /\ MainFree(d) /\ ~Has(d, Fin) /\ Stays(c, d)
<1>1. /\ Idle(c) /\ c.held /\ ~c.settled /\ ~c.claim /\ "booted" \notin c.outcome
      /\ (c.outcome # {} => c.stopped) /\ c.fin.at \notin Active
  BY ReadyIsIdle DEF LateReady
<1>2. Core(c) /\ MainFree(c) /\ StagesDone(c) /\ ~c.prep.on
  BY DEF LateReady, MainReady, Fits
<1>3. \A x : Has(d, x) <=> Has(c, x)
  BY DEF KeepBoard, Has
<1>4. MainFree(d) /\ ~Has(d, Fin) /\ Stays(c, d)
  BY <1>1, <1>2, <1>3 DEF MainFree, KeepBoard, KeepHold, Stays, Core, Flows, OthersFit, Active
<1>5. Flows(d)
  BY <1>2, <1>3, <1>4 DEF Core, Flows, PFits, TFits, AgainFits, MainFits, MainFree, OthersFit, KeepStages,
                          KeepBoard, KeepHold, Rounds
<1>6. Once(d) /\ Staged(d) /\ CardsFit(d)
  BY <1>2 DEF Core, Once, Staged, CardsFit, KeepStages, KeepBoard, KeepHold, StagesDone, AgainDone, Rounds
<1>7. Owned(d) /\ Approved(d)
  BY <1>1 DEF Owned, Approved, Idle, Active
<1>8. HeldFits(d) /\ EndFits(d)
  BY <1>1, <1>2 DEF Core, HeldFits, EndFits, KeepHold, Idle
<1> QED
  BY <1>4, <1>5, <1>6, <1>7, <1>8 DEF Core

LEMMA BootAutoFits ==
    ASSUME NEW n \in Nat, NEW l \in Nat, NEW c \in State(n, l), LateReady(c)
    PROVE  LET d == Boot([c EXCEPT !.main.at = "boot", !.fin.decision = "auto"])
           IN  d \in State(n, l) /\ Fits(d)
<1> DEFINE e == [c EXCEPT !.main.at = "boot", !.fin.decision = "auto"]
           d == [e EXCEPT !.branches = FALSE, !.fin.at = "directory"]
<1>1. Boot(e) = IF e.stopped THEN FinOver(e) ELSE d
  BY DEF Boot
<1>2. e \in State(n, l)
  BY DEF State, MainAts, Late
<1>3. /\ KeepStages(c, e) /\ KeepBoard(c, e) /\ KeepHold(c, e) /\ e.pv = c.pv /\ e.claim = c.claim
      /\ e.planning = c.planning /\ e.main.at = "boot" /\ e.main.resumed = c.main.resumed
      /\ e.fin.decision = "auto" /\ e.fin.at = c.fin.at
  BY DEF State, KeepStages, KeepBoard, KeepHold
<1> HIDE DEF e
<1>4. d \in State(n, l)
  BY <1>2 DEF State, Active
<1>5. /\ KeepStages(c, d) /\ KeepBoard(c, d) /\ KeepHold(c, d) /\ d.pv = c.pv /\ d.claim = c.claim
      /\ d.planning = c.planning /\ d.main.at = "boot" /\ d.main.resumed = c.main.resumed
      /\ d.fin.decision = "auto" /\ d.fin.at = "directory"
  BY <1>2, <1>3 DEF State, KeepStages, KeepBoard, KeepHold
<1> HIDE DEF d
<1>6. Fits(d)
  BY <1>5, BootsByItself DEF Fits
<1>7. Core(e) /\ MainFree(e) /\ ~Has(e, Fin)
  BY <1>3, BootsByItself
<1>8. /\ Idle(c) /\ ~c.claim /\ "booted" \notin c.outcome /\ ~c.prep.on
  BY ReadyIsIdle DEF LateReady
<1>9. FinReady(e)
  BY <1>3, <1>7, <1>8 DEF FinReady, KeepHold, Idle
<1>10. FinOver(e) \in State(n, l) /\ Fits(FinOver(e))
  BY <1>2, <1>9, FinOverFits
<1> QED
  BY <1>1, <1>4, <1>6, <1>10 DEF e

\* Fin boots what was approved.
LEMMA BootFits ==
    ASSUME NEW n \in Nat, NEW l \in Nat, NEW c \in State(n, l), Fits(c), ~Has(c, Fin), c.fin.at \in Active
    PROVE  Boot(c) \in State(n, l) /\ Fits(Boot(c))
<1> DEFINE d == [c EXCEPT !.branches = FALSE, !.fin.at = "directory"]
<1>1. Boot(c) = IF c.stopped THEN FinOver(c) ELSE d
  BY DEF Boot
<1>2. d \in State(n, l)
  BY DEF State, Active
<1>3. OnlyFin(c, d) /\ d.claim = c.claim /\ d.fin.at = "directory"
  BY DEF State, OnlyFin, KeepStages, KeepBoard, KeepHold
<1> HIDE DEF d
<1>4. Fits(d)
  BY <1>3, FinMoves DEF Active
<1>5. FinOver(c) \in State(n, l) /\ Fits(FinOver(c))
  BY ActiveFacts, FinOverFits
<1> QED
  BY <1>1, <1>2, <1>4, <1>5

\* What a preview's answer may go on from.
FinishReady(c) ==
    /\ Core(c) /\ c.fin.at \notin Active /\ c.fin.decision # "auto" /\ c.main.at = "over"
    /\ StagesDone(c) /\ ~c.prep.on /\ ~c.pv.parked /\ ~c.planning
    /\ "booted" \notin c.outcome /\ (c.outcome # {} => c.stopped \/ ~c.held)

LEMMA FinishFits ==
    ASSUME NEW n \in Nat, NEW l \in Nat, NEW c \in State(n, l), FinishReady(c),
           NEW decision \in {"dismiss", "without", "go_on"}, decision = "go_on" => c.pv.view = c.lib
    PROVE  Finish(c, decision) \in State(n, l) /\ Fits(Finish(c, decision))
<1>0. MainFree(c) /\ ~Has(c, Fin)
  BY DEF FinishReady, Core, Flows, MainFits, OthersFit, MainFree, Writes, Active
<1>1. CASE c.stopped \/ ~c.held
  <2>1. Finish(c, decision) = FinOver(c)
    BY <1>1 DEF Finish
  <2>2. FinReady(c)
    BY <1>0 DEF FinishReady, FinReady
  <2> QED
    BY <2>1, <2>2, FinOverFits
<1>2. CASE ~(c.stopped \/ ~c.held)
  <2> DEFINE fin == [at |-> "decide", decision |-> decision, approved |-> c.lib, plan |-> 0]
             d == [c EXCEPT !.fin = fin, !.status = "starting", !.settled = FALSE]
  <2>1. Finish(c, decision) = Push(d, Fin)
    BY <1>2 DEF Finish
  <2>2. /\ fin \in [at : Active \cup {"off", "done"},
                    decision : {"none", "auto", "dismiss", "without", "go_on"}, approved : Nat, plan : Nat]
        /\ fin.at = "decide" /\ fin.decision = decision /\ fin.approved = c.lib
    BY DEF State, Active
  <2> HIDE DEF fin
  <2>3. d \in State(n, l)
    BY <2>2 DEF State, Statuses
  <2>4. /\ KeepStages(c, d) /\ d.main = c.main /\ KeepBoard(c, d) /\ d.prep = c.prep /\ d.held = c.held
        /\ d.stopped = c.stopped /\ ~d.settled /\ d.waiting = c.waiting /\ d.rec = c.rec
        /\ d.outcome = c.outcome /\ d.pv = c.pv /\ d.claim = c.claim /\ d.planning = c.planning
        /\ d.fin = fin
    BY <2>2 DEF State, KeepStages, KeepBoard
  <2> HIDE DEF d
  <2>5. \A x : Has(d, x) <=> Has(c, x)
    BY <2>4 DEF KeepBoard, Has
  <2>6. Flows(d)
    BY <1>0, <2>4, <2>5 DEF FinishReady, Core, Flows, PFits, TFits, AgainFits, MainFits, OthersFit, KeepStages,
                            KeepBoard, Rounds
  <2>7. Once(d) /\ Staged(d) /\ CardsFit(d)
    BY <2>4 DEF FinishReady, Core, Once, Staged, CardsFit, KeepStages, KeepBoard, StagesDone, AgainDone, Rounds,
                Late
  <2>8. Owned(d) /\ Approved(d)
    BY <2>2, <2>4 DEF FinishReady, Owned, Approved
  <2>9. HeldFits(d) /\ EndFits(d)
    BY <1>2, <2>2, <2>4 DEF FinishReady, Core, HeldFits, EndFits, Active
  <2>10. Fits(d) /\ ~Has(d, Fin) /\ d.fin.at = "decide"
    BY <1>0, <2>2, <2>4, <2>5, <2>6, <2>7, <2>8, <2>9 DEF Fits, Core
  <2> QED
    BY <2>1, <2>3, <2>10, FinWrites
<1> QED
  BY <1>1, <1>2

\* The turn's outcome is recorded.
OnlyOutcome(c, d) ==
    /\ KeepStages(c, d) /\ d.main = c.main /\ KeepBoard(c, d) /\ KeepOwners(c, d) /\ KeepRest(c, d)
    /\ d.prep = c.prep /\ d.held = c.held /\ d.stopped = c.stopped /\ d.settled = c.settled
    /\ d.waiting = c.waiting

LEMMA OutcomeCore ==
    ASSUME NEW c, NEW d, Core(c), OnlyOutcome(c, d), d.rec = c.rec
    PROVE  /\ Core(d) /\ (MainFree(c) => MainFree(d)) /\ (Has(d, Fin) => Has(c, Fin))
<1>1. \A x : Has(d, x) <=> Has(c, x)
  BY DEF OnlyOutcome, KeepBoard, Has
<1>2. Flows(d)
  BY <1>1 DEF Core, OnlyOutcome, KeepStages, KeepBoard, KeepOwners, Flows, PFits, TFits, AgainFits, MainFits,
              OthersFit, Rounds
<1>3. Once(d) /\ Staged(d) /\ CardsFit(d) /\ Owned(d) /\ Approved(d) /\ HeldFits(d)
  BY DEF Core, OnlyOutcome, KeepStages, KeepBoard, KeepOwners, Once, Staged, CardsFit, Owned, Approved,
         HeldFits, Idle, StagesDone, AgainDone, Rounds
<1>4. MainFree(c) => MainFree(d)
  BY <1>1 DEF MainFree, OnlyOutcome, KeepBoard
<1> QED
  BY <1>1, <1>2, <1>3, <1>4 DEF Core

Ended == {"booted", "failed", "cancelled"}
Ends(c, o) == [c EXCEPT !.outcome = @ \cup {o}]

LEMMA OutcomeIsTyped ==
    ASSUME NEW n \in Nat, NEW l \in Nat, NEW c \in State(n, l), NEW o \in Ended
    PROVE  /\ Ends(c, o) \in State(n, l) /\ OnlyOutcome(c, Ends(c, o)) /\ Ends(c, o).rec = c.rec
           /\ Ends(c, o).outcome = c.outcome \cup {o}
<1> DEFINE out == c.outcome \cup {o}
           d == [c EXCEPT !.outcome = out]
<1>1. out \subseteq {"booted", "failed", "cancelled"}
  BY DEF State, Ended
<1>2. Ends(c, o) = d
  BY DEF Ends
<1> HIDE DEF out
<1>3. d \in State(n, l)
  BY <1>1 DEF State
<1>4. OnlyOutcome(c, d) /\ d.rec = c.rec /\ d.outcome = out
  BY DEF State, OnlyOutcome, KeepStages, KeepBoard, KeepOwners, KeepRest
<1> QED
  BY <1>2, <1>3, <1>4 DEF out

\* Fin leaves a turn that has come to an end.
LEMMA EndedFits ==
    ASSUME NEW n \in Nat, NEW l \in Nat, NEW c \in State(n, l), Fits(c), ~Has(c, Fin), c.fin.at \in Active,
           NEW o \in Ended, o = "booted" => ~c.stopped
    PROVE  FinOver(Ends(c, o)) \in State(n, l) /\ Fits(FinOver(Ends(c, o)))
<1> DEFINE d == Ends(c, o)
<1>1. d \in State(n, l) /\ OnlyOutcome(c, d) /\ d.rec = c.rec /\ d.outcome = c.outcome \cup {o}
  BY OutcomeIsTyped
<1> HIDE DEF d
<1>2. FinReady(c) /\ "booted" \notin c.outcome /\ (c.outcome # {} => c.stopped)
      /\ (c.rec # "no" \/ c.waiting => c.stopped)
  BY ActiveFacts
<1>3. Core(d) /\ MainFree(d) /\ ~Has(d, Fin)
  BY <1>1, <1>2, OutcomeCore DEF FinReady
<1>4. "booted" \in d.outcome => d.outcome = {"booted"} /\ ~d.stopped /\ d.rec = "no" /\ ~d.waiting
  <2>1. ASSUME "booted" \in d.outcome
        PROVE  o = "booted" /\ ~c.stopped /\ c.outcome = {}
    BY <1>1, <1>2, <2>1
  <2> QED
    BY <1>1, <1>2, <2>1 DEF OnlyOutcome, State
<1>5. FinReady(d)
  BY <1>1, <1>2, <1>3, <1>4 DEF FinReady, OnlyOutcome, KeepOwners
<1> QED
  BY <1>1, <1>5, FinOverFits DEF d

\* A write of Fin is done.
LEMMA FinWrittenFits ==
    ASSUME NEW n \in Nat, NEW l \in Nat, NEW c \in State(n, l), Fits(c), ~Has(c, Fin),
           c.fin.at \in {"decide", "dismiss", "failing", "failed"}
    PROVE  FinWritten(c) \in State(n, l) /\ Fits(FinWritten(c))
<1>1. c.fin.at \in Active /\ ~c.prep.on /\ c.fin.decision # "auto"
  <2>1. c.fin.at \in Active
    BY DEF Active
  <2> QED
    BY <2>1, ActiveFacts
<1>2. CASE c.fin.at = "decide"
  <2> DEFINE decided == Show(c, "preview", "answered")
             d == [decided EXCEPT !.fin.at = "dismiss", !.branches = FALSE]
  <2>1. FinWritten(c) = IF c.stopped THEN FinOver(decided)
                        ELSE IF c.fin.decision = "dismiss" THEN Push(d, Fin) ELSE Boot(decided)
    BY <1>2 DEF FinWritten
  <2>2. MayLook(c, "preview", "answered")
    BY <1>1 DEF MayLook
  <2>3. decided \in State(n, l) /\ OnlyCard(c, decided) /\ Fits(decided) /\ (Has(decided, Fin) <=> Has(c, Fin))
    BY <2>2, ShowFits, Names DEF Looks
  <2> HIDE DEF decided
  <2>4. decided.fin = c.fin
    BY <2>3 DEF OnlyCard, KeepOwners
  <2>5. FinOver(decided) \in State(n, l) /\ Fits(FinOver(decided))
    BY <1>1, <2>3, <2>4, ActiveFacts, FinOverFits
  <2>6. Boot(decided) \in State(n, l) /\ Fits(Boot(decided))
    BY <1>1, <2>3, <2>4, BootFits
  <2>7. d \in State(n, l)
    BY <2>3 DEF State, Active
  <2>8. OnlyFin(decided, d) /\ d.claim = decided.claim /\ d.fin.at = "dismiss"
    BY <2>3 DEF State, OnlyFin, KeepStages, KeepBoard, KeepHold
  <2> HIDE DEF d
  <2>9. ASSUME c.fin.decision = "dismiss"
        PROVE  Push(d, Fin) \in State(n, l) /\ Fits(Push(d, Fin))
    <3>1. d.fin.at \in Active /\ d.fin.decision = "dismiss"
      BY <2>4, <2>8, <2>9 DEF Active, OnlyFin
    <3>2. Fits(d) /\ ~Has(d, Fin)
      BY <1>1, <2>3, <2>4, <2>8, <3>1, FinMoves
    <3> QED
      BY <2>7, <2>8, <3>2, FinWrites
  <2> QED
    BY <2>1, <2>5, <2>6, <2>9
<1>3. CASE c.fin.at = "dismiss"
  <2>1. FinWritten(c) = FinOver([c EXCEPT !.outcome = @ \cup {"cancelled"}])
    BY <1>3 DEF FinWritten
  <2> DEFINE o == "cancelled"
  <2>2. FinWritten(c) = FinOver(Ends(c, o)) /\ o # "booted" /\ o \in Ended
    BY <2>1 DEF Ends, Ended
  <2> HIDE DEF o
  <2> QED
    BY <1>1, <2>2, EndedFits
<1>4. CASE c.fin.at = "failing"
  <2> DEFINE d == [c EXCEPT !.fin.at = "failed"]
  <2>1. FinWritten(c) = Push(d, Fin)
    BY <1>4 DEF FinWritten
  <2>2. d \in State(n, l)
    BY DEF State, Active
  <2>3. OnlyFin(c, d) /\ d.claim = c.claim /\ d.fin.at = "failed"
    BY DEF State, OnlyFin, KeepStages, KeepBoard, KeepHold
  <2> HIDE DEF d
  <2>4. d.fin.at \in Active /\ d.fin.decision # "auto"
    BY <1>1, <2>3 DEF Active, OnlyFin
  <2>5. Fits(d) /\ ~Has(d, Fin)
    BY <1>1, <2>3, <2>4, FinMoves
  <2> QED
    BY <2>1, <2>2, <2>3, <2>5, FinWrites
<1>5. CASE c.fin.at = "failed"
  <2>1. FinWritten(c) = FinOver([c EXCEPT !.outcome = @ \cup {"failed"}])
    BY <1>5 DEF FinWritten
  <2> DEFINE o == "failed"
  <2>2. FinWritten(c) = FinOver(Ends(c, o)) /\ o # "booted" /\ o \in Ended
    BY <2>1 DEF Ends, Ended
  <2> HIDE DEF o
  <2> QED
    BY <1>1, <2>2, EndedFits
<1> QED
  BY <1>2, <1>3, <1>4, <1>5

\* The project's directory is there.
LEMMA PlannedFits ==
    ASSUME NEW n \in Nat, NEW l \in Nat, NEW c \in State(n, l), Fits(c), c.fin.at = "directory"
    PROVE  Planned(c) \in State(n, l) /\ Fits(Planned(c))
<1> DEFINE lib == c.lib
           d == [c EXCEPT !.fin.at = "engine", !.fin.plan = lib]
<1>1. c.fin.at \in Active /\ ~Has(c, Fin)
  BY DEF Fits, Core, Flows, OthersFit, Active
<1>2. \/ Planned(c) = FinOver(c)
      \/ Planned(c) = FinFails(c)
      \/ (c.fin.decision = "go_on" => c.fin.approved = c.lib) /\ Planned(c) = d
  BY DEF Planned
<1>3. lib \in Nat
  BY DEF State
<1>4. lib = c.lib
  OBVIOUS
<1> HIDE DEF lib
<1>5. d \in State(n, l)
  BY <1>3 DEF State, Active
<1>6. OnlyFin(c, d) /\ d.claim = c.claim /\ d.fin.at = "engine" /\ d.fin.plan = lib
  BY <1>3 DEF State, OnlyFin, KeepStages, KeepBoard, KeepHold
<1> HIDE DEF d
<1>7. (c.fin.decision = "go_on" => c.fin.approved = c.lib) => Fits(d)
  <2>1. d.fin.at \in Active /\ d.fin.decision = c.fin.decision /\ d.fin.approved = c.fin.approved
    BY <1>6 DEF Active, OnlyFin
  <2> QED
    BY <1>1, <1>4, <1>6, <2>1, FinMoves
<1>8. FinOver(c) \in State(n, l) /\ Fits(FinOver(c))
  BY <1>1, ActiveFacts, FinOverFits
<1>9. FinFails(c) \in State(n, l) /\ Fits(FinFails(c))
  BY FinFailsFits
<1> QED
  BY <1>2, <1>5, <1>7, <1>8, <1>9

\* The engine started, or did not.
LEMMA StartedFits ==
    ASSUME NEW n \in Nat, NEW l \in Nat, NEW c \in State(n, l), Fits(c), c.fin.at = "engine", NEW ok \in BOOLEAN
    PROVE  Started(c, ok) \in State(n, l) /\ Fits(Started(c, ok))
<1>1. c.fin.at \in Active /\ ~Has(c, Fin)
  BY DEF Fits, Core, Flows, OthersFit, Active
<1> DEFINE o == "booted"
<1>2. \/ Started(c, ok) = FinOver(c)
      \/ Started(c, ok) = FinFails(c)
      \/ ~c.stopped /\ Started(c, ok) = FinOver(Ends(c, o))
  BY DEF Started, Ends
<1>3. o \in Ended
  BY DEF Ended
<1> HIDE DEF o
<1>4. FinOver(c) \in State(n, l) /\ Fits(FinOver(c))
  BY <1>1, ActiveFacts, FinOverFits
<1>5. FinFails(c) \in State(n, l) /\ Fits(FinFails(c))
  BY FinFailsFits
<1>6. ASSUME ~c.stopped
      PROVE  FinOver(Ends(c, o)) \in State(n, l) /\ Fits(FinOver(Ends(c, o)))
  BY <1>1, <1>3, <1>6, EndedFits
<1> QED
  BY <1>2, <1>4, <1>5, <1>6

\* A write of the interruption is done.
LEMMA RecordedFits ==
    ASSUME NEW n \in Nat, NEW l \in Nat, NEW c \in State(n, l), Fits(c), ~Has(c, Stopper),
           c.rec \in {"interrupted", "cancelled"}
    PROVE  Recorded(c) \in State(n, l) /\ Fits(Recorded(c))
<1>0. "booted" \notin c.outcome /\ (c.stopped \/ ~c.held)
  BY DEF Fits, Core, HeldFits, EndFits
<1>1. CASE c.rec = "interrupted"
  <2> DEFINE d == [c EXCEPT !.rec = "cancelled"]
  <2>1. Recorded(c) = Push(d, Stopper)
    BY <1>1 DEF Recorded
  <2>2. d \in State(n, l)
    BY DEF State
  <2>3. OnlyOutcome(c, d) /\ d.rec = "cancelled" /\ d.outcome = c.outcome
    BY DEF State, OnlyOutcome, KeepStages, KeepBoard, KeepOwners, KeepRest
  <2> HIDE DEF d
  <2>4. \A x : Has(d, x) <=> Has(c, x)
    BY <2>3 DEF OnlyOutcome, KeepBoard, Has
  <2>5. Flows(d)
    BY <2>3, <2>4 DEF Fits, Core, OnlyOutcome, KeepStages, KeepBoard, KeepOwners, Flows, PFits, TFits, AgainFits,
                      MainFits, OthersFit, Rounds
  <2>6. Once(d) /\ Staged(d) /\ CardsFit(d) /\ Owned(d) /\ Approved(d) /\ HeldFits(d) /\ EndFits(d)
    BY <1>0, <2>3 DEF Fits, Core, OnlyOutcome, KeepStages, KeepBoard, KeepOwners, Once, Staged, CardsFit, Owned,
                      Approved, HeldFits, EndFits, Idle, StagesDone, AgainDone, Rounds
  <2>7. MayAwait(d, Stopper)
    BY <2>3, NamesDiffer DEF MayAwait
  <2> QED
    BY <2>1, <2>2, <2>4, <2>5, <2>6, <2>7, PushFits, Names DEF Fits, Core
<1>2. CASE c.rec = "cancelled"
  <2> DEFINE out == c.outcome \cup {"cancelled"}
             st == IF c.held THEN "none" ELSE c.status
             d == [c EXCEPT !.rec = "done", !.outcome = out, !.status = st]
  <2>1. Recorded(c) = IF c.settled THEN Settle(d) ELSE d
    BY <1>2 DEF Recorded
  <2>2. out \subseteq {"booted", "failed", "cancelled"} /\ "booted" \notin out /\ st \in Statuses
    BY <1>0 DEF State, Statuses
  <2> HIDE DEF out, st
  <2>3. d \in State(n, l)
    BY <2>2 DEF State
  <2>4. OnlyOutcome(c, d) /\ d.rec = "done" /\ d.outcome = out
    BY <2>2 DEF State, OnlyOutcome, KeepStages, KeepBoard, KeepOwners, KeepRest
  <2> HIDE DEF d
  <2>5. \A x : Has(d, x) <=> Has(c, x)
    BY <2>4 DEF OnlyOutcome, KeepBoard, Has
  <2>6. Flows(d)
    BY <2>4, <2>5, Names DEF Fits, Core, OnlyOutcome, KeepStages, KeepBoard, KeepOwners, Flows, PFits, TFits,
                      AgainFits, MainFits, OthersFit, Rounds
  <2>7. Once(d) /\ Staged(d) /\ CardsFit(d) /\ Owned(d) /\ Approved(d) /\ HeldFits(d) /\ EndFits(d)
    BY <1>0, <2>2, <2>4 DEF Fits, Core, OnlyOutcome, KeepStages, KeepBoard, KeepOwners, Once, Staged, CardsFit,
                      Owned, Approved, HeldFits, EndFits, Idle, StagesDone, AgainDone, Rounds
  <2>8. Core(d) /\ Fits(d)
    BY <2>6, <2>7 DEF Fits, Core
  <2>9. ASSUME c.settled PROVE Settle(d) \in State(n, l) /\ Fits(Settle(d))
    <3>1. d.main.at = "over" /\ d.fin.at \notin Active
      BY <2>4, <2>8, <2>9 DEF Core, HeldFits, OnlyOutcome
    <3> DEFINE e == Settle(d)
    <3>2. e \in State(n, l) /\ OnlyHeld(d, e) /\ Core(e) /\ Stays(d, e)
      BY <2>3, <2>8, <3>1, SettleCore
    <3> HIDE DEF e
    <3>3. EndFits(e)
      BY <2>8, <3>1, <3>2 DEF Fits, EndFits, OnlyHeld, KeepOwners, Stays
    <3> QED
      BY <3>2, <3>3 DEF Fits, e
  <2> QED
    BY <2>1, <2>3, <2>8, <2>9
<1> QED
  BY <1>1, <1>2

---------------------------------------------------------------------------
(* The writes of the driver *)

\* What the driver writes once the stages are over.
LEMMA LateWrites ==
    ASSUME NEW c, Fits(c), ~Has(c, Main), c.main.at \in Writes
    PROVE  /\ MainFree(c)
           /\ c.main.at \notin {"preview", "failing", "failed"} => LateReady(c) /\ c.main.at \in Late
<1>1. MainFree(c)
  BY DEF Fits, Core, Flows, MainFits, MainFree, Writes
<1>2. ASSUME c.main.at \notin {"preview", "failing", "failed"}
      PROVE  LateReady(c) /\ c.main.at \in Late
  <2>1. c.main.at \in Late /\ c.main.at \notin {"over", "preview", "boot", "failing", "failed"}
    BY <1>2 DEF Late, Writes
  <2> QED
    BY <1>1, <2>1 DEF LateReady, MainReady, Fits, Core, Staged
<1> QED
  BY <1>1, <1>2

\* The transcript as the driver writes it.
LEMMA LateLook ==
    ASSUME NEW n \in Nat, NEW l \in Nat, NEW c \in State(n, l), LateReady(c), c.main.at \in Late,
           NEW r \in Reviews \cup {"preview"}, NEW look \in Looks, look # "none"
    PROVE  Show(c, r, look) \in State(n, l) /\ LateReady(Show(c, r, look)) /\ OnlyCard(c, Show(c, r, look))
<1>1. MayLook(c, r, look) /\ Fits(c)
  BY LookLate DEF LateReady, MainReady
<1> QED
  BY <1>1, ShowFits, CardReady

LEMMA LateReset ==
    ASSUME NEW n \in Nat, NEW l \in Nat, NEW c \in State(n, l), LateReady(c), c.main.at \in Late,
           NEW r \in Reviews
    PROVE  ShowReset(c, r) \in State(n, l) /\ LateReady(ShowReset(c, r)) /\ OnlyCard(c, ShowReset(c, r))
<1>1. MayReset(c, r) /\ Fits(c)
  BY DEF LateReady, MainReady, MayReset
<1> QED
  BY <1>1, ResetFits, CardReady

MainTo(c, at) == [c EXCEPT !.main.at = at]

LEMMA MainIsTyped ==
    ASSUME NEW n \in Nat, NEW l \in Nat, NEW c \in State(n, l), NEW at \in MainAts
    PROVE  /\ MainTo(c, at) \in State(n, l) /\ OnlyDriver(c, MainTo(c, at)) /\ OnlyMain(c, MainTo(c, at))
           /\ MainTo(c, at).main.at = at /\ MainTo(c, at).main.step = c.main.step
           /\ MainTo(c, at).main.resumed = c.main.resumed /\ MainTo(c, at).pv = c.pv
  BY DEF State, MainTo, OnlyDriver, OnlyMain, KeepStages, KeepBoard, KeepOwners, KeepHold

\* A review the driver opens again.
LEMMA ReopenedFits ==
    ASSUME NEW n \in Nat, NEW l \in Nat, NEW c \in State(n, l), LateReady(c), c.main.at = "reset"
    PROVE  LET d == ParkGate(MainTo(ShowReset(c, c.main.step), "review"), c.main.step, Main)
           IN  d \in State(n, l) /\ Fits(d)
<1> DEFINE r == c.main.step
           seen == ShowReset(c, r)
           d == MainTo(seen, "review")
<1>1. r \in Reviews /\ r # "checkup"
  BY DEF State, LateReady, MainReady, Fits, Core, Flows, MainFits
<1>2. seen \in State(n, l) /\ LateReady(seen) /\ OnlyCard(c, seen)
  BY <1>1, LateReset DEF Late
<1> HIDE DEF seen
<1>3. d \in State(n, l) /\ OnlyDriver(seen, d) /\ d.main.at = "review" /\ d.main.step = seen.main.step
      /\ d.main.resumed = seen.main.resumed /\ d.pv = seen.pv
  BY <1>2, MainIsTyped DEF MainAts, Late
<1> HIDE DEF d
<1>4. d.main.step = r /\ ~d.pv.parked
  BY <1>2, <1>3, ReadyIsIdle DEF OnlyCard, LateReady, Idle
<1> HIDE DEF r
<1>5. Fits(d)
  BY <1>1, <1>2, <1>3, <1>4, LateMoves DEF Late
<1>6. MayGuard(d, r, Main)
  BY <1>1, <1>3, <1>4, NamesDiffer DEF MayGuard
<1>7. Main \in Who
  BY Names
<1>8. ParkGate(d, r, Main) \in State(n, l) /\ Fits(ParkGate(d, r, Main))
  BY <1>1, <1>3, <1>5, <1>6, <1>7, ParkFits
<1> QED
  BY <1>8 DEF d, seen, r

\* The driver writes on from a state of its own.
LEMMA LateWritesOn ==
    ASSUME NEW n \in Nat, NEW l \in Nat, NEW c \in State(n, l), LateReady(c),
           NEW at \in {"skeleton", "rescan", "auto", "decide", "receipt"}
    PROVE  Push(MainTo(c, at), Main) \in State(n, l) /\ Fits(Push(MainTo(c, at), Main))
<1> DEFINE d == MainTo(c, at)
<1>1. at \in MainAts /\ at \in Late \ {"boot", "preview"} /\ at \in Writes
      /\ at \notin {"reset", "review", "reviewed"}
  BY DEF MainAts, Late, Writes
<1>2. d \in State(n, l) /\ OnlyDriver(c, d) /\ d.main.at = at /\ d.main.resumed = c.main.resumed /\ d.pv = c.pv
  BY <1>1, MainIsTyped
<1> HIDE DEF d
<1>3. ~d.pv.parked
  BY <1>2, ReadyIsIdle DEF LateReady, Idle
<1>4. MayMove(c, d)
  BY <1>1, <1>2, <1>3, LateMoves
<1> QED
  BY <1>1, <1>2, <1>4, MainWrites DEF LateReady, d

LEMMA ReviewedFits ==
    ASSUME NEW n \in Nat, NEW l \in Nat, NEW c \in State(n, l), LateReady(c), c.main.at = "reviewed"
    PROVE  LET seen == ShowDecision(c, c.main.step, c.main.out)
           IN  /\ Over(seen) \in State(n, l) /\ Fits(Over(seen))
               /\ Refresh(seen, "rework") \in State(n, l) /\ Fits(Refresh(seen, "rework"))
               /\ Push(MainTo(seen, "rescan"), Main) \in State(n, l) /\ Fits(Push(MainTo(seen, "rescan"), Main))
<1> DEFINE r == c.main.step
           o == c.main.out
           seen == ShowDecision(c, r, o)
<1>1. r \in Reviews
  BY DEF State
<1>2. MayLook(c, r, "answered") /\ MayLook(c, r, "settled") /\ Fits(c)
  BY LookLate DEF LateReady, MainReady, Late
<1> HIDE DEF r, o
<1>3. seen \in State(n, l) /\ OnlyCard(c, seen) /\ Fits(seen)
  BY <1>1, <1>2, DecisionFits
<1>4. LateReady(seen)
  BY <1>3, CardReady
<1> HIDE DEF seen
<1>5. Over(seen) \in State(n, l) /\ Fits(Over(seen))
  BY <1>3, <1>4, ReadyOver DEF LateReady
<1>6. MayRefresh(seen, "rework")
  BY <1>4 DEF MayRefresh, LateReady, StagesDone
<1>7. Refresh(seen, "rework") \in State(n, l) /\ Fits(Refresh(seen, "rework"))
  BY <1>3, <1>6, RefreshFits
<1>8. Push(MainTo(seen, "rescan"), Main) \in State(n, l) /\ Fits(Push(MainTo(seen, "rescan"), Main))
  BY <1>3, <1>4, LateWritesOn
<1> QED
  BY <1>5, <1>7, <1>8 DEF seen, r, o

\* The driver failed, and says so.
LEMMA FailingFits ==
    ASSUME NEW n \in Nat, NEW l \in Nat, NEW c \in State(n, l), Fits(c), MainFree(c), c.main.at = "failing"
    PROVE  Push(MainTo(c, "failed"), Main) \in State(n, l) /\ Fits(Push(MainTo(c, "failed"), Main))
<1> DEFINE d == MainTo(c, "failed")
<1>1. d \in State(n, l) /\ OnlyDriver(c, d) /\ OnlyMain(c, d) /\ d.main.at = "failed" /\ d.pv = c.pv
      /\ d.main.resumed = c.main.resumed
  BY MainIsTyped DEF MainAts
<1> HIDE DEF d
<1>2. Flows(d) /\ Once(d) /\ (\A x \in Who : Has(d, x) <=> Has(c, x))
  BY <1>1, DriverFlows DEF Fits, Core
<1>3. Staged(d) /\ CardsFit(d) /\ Owned(d) /\ Approved(d) /\ HeldFits(d) /\ EndFits(d)
  BY <1>1 DEF Fits, Core, OnlyDriver, OnlyMain, KeepStages, KeepBoard, KeepOwners, KeepHold, Staged, CardsFit,
              Owned, Approved, HeldFits, EndFits, Idle, StagesDone, AgainDone, Rounds, Late
<1>4. Main \in Who /\ ~Has(d, Main)
  BY <1>2, Names DEF MainFree
<1>5. MayAwait(d, Main)
  BY <1>1, NamesDiffer DEF MayAwait, Writes
<1>6. Fits(d)
  BY <1>2, <1>3 DEF Fits, Core
<1> QED
  BY <1>1, <1>4, <1>5, <1>6, PushFits DEF d

LEMMA FailedFits ==
    ASSUME NEW n \in Nat, NEW l \in Nat, NEW c \in State(n, l), Fits(c), MainFree(c), c.main.at = "failed"
    PROVE  Over(Ends(c, "failed")) \in State(n, l) /\ Fits(Over(Ends(c, "failed")))
<1> DEFINE o == "failed"
           d == Ends(c, o)
<1>1. o \in Ended /\ o # "booted"
  BY DEF Ended
<1> HIDE DEF o
<1>2. d \in State(n, l) /\ OnlyOutcome(c, d) /\ d.rec = c.rec /\ d.outcome = c.outcome \cup {o}
  BY <1>1, OutcomeIsTyped
<1> HIDE DEF d
<1>3. Idle(c) /\ c.held /\ ~c.claim /\ "booted" \notin c.outcome
  BY DEF Fits, Core, Owned, HeldFits, EndFits, Idle
<1>4. Core(d) /\ MainFree(d)
  BY <1>2, OutcomeCore DEF Fits
<1>5. Ending(d) /\ d.fin.at \notin Active
  BY <1>1, <1>2, <1>3 DEF Ending, OnlyOutcome, KeepOwners, Idle
<1> QED
  BY <1>2, <1>4, <1>5, OverFits DEF d, o

\* A write of the driver is done.
LEMMA MainWrittenFits ==
    ASSUME NEW n \in Nat, NEW l \in Nat, NEW c \in State(n, l), Fits(c), ~Has(c, Main), c.main.at \in Writes,
           NEW yes \in BOOLEAN
    PROVE  MainWritten(c, yes) \in State(n, l) /\ Fits(MainWritten(c, yes))
<1>1. MainFree(c) /\ (c.main.at \notin {"preview", "failing", "failed"} => LateReady(c) /\ c.main.at \in Late)
  BY LateWrites
<1>2. CASE c.main.at = "skeleton"
  <2> DEFINE d == Show(c, "checkup", "open")
  <2>1. d \in State(n, l) /\ LateReady(d)
    BY <1>1, <1>2, LateLook DEF Reviews, Looks
  <2> HIDE DEF d
  <2>2. Analyse(d) \in State(n, l) /\ Fits(Analyse(d))
    BY <2>1, AnalyseFits
  <2> QED
    BY <1>2, <2>2 DEF MainWritten, d
<1>3. CASE c.main.at = "result"
  <2>1. MainWritten(c, yes) = ResultWritten(c)
    BY <1>3 DEF MainWritten
  <2> QED
    BY <1>1, <1>3, <2>1, ResultWrittenFits
<1>4. CASE c.main.at = "decide"
  <2>1. MainWritten(c, yes) = CheckupDecided(c, yes)
    BY <1>4 DEF MainWritten
  <2> QED
    BY <1>1, <1>4, <2>1, CheckupDecidedFits
<1>5. CASE c.main.at = "reset"
  <2>1. MainWritten(c, yes) = ParkGate(MainTo(ShowReset(c, c.main.step), "review"), c.main.step, Main)
    BY <1>5 DEF MainWritten, MainTo
  <2> QED
    BY <1>1, <1>5, <2>1, ReopenedFits
<1>6. CASE c.main.at = "reviewed"
  <2> DEFINE seen == ShowDecision(c, c.main.step, c.main.out)
  <2>1. MainWritten(c, yes) \in {Over(seen), Refresh(seen, "rework"), Push(MainTo(seen, "rescan"), Main)}
    BY <1>6 DEF MainWritten, MainTo
  <2> HIDE DEF seen
  <2>2. /\ Over(seen) \in State(n, l) /\ Fits(Over(seen))
        /\ Refresh(seen, "rework") \in State(n, l) /\ Fits(Refresh(seen, "rework"))
        /\ Push(MainTo(seen, "rescan"), Main) \in State(n, l) /\ Fits(Push(MainTo(seen, "rescan"), Main))
    BY <1>1, <1>6, ReviewedFits DEF seen
  <2> QED
    BY <2>1, <2>2
<1>7. CASE c.main.at = "rescan"
  <2> DEFINE d == ShowReset(c, "checkup")
  <2>1. d \in State(n, l) /\ LateReady(d)
    BY <1>1, <1>7, LateReset DEF Reviews
  <2> HIDE DEF d
  <2>2. Checkup(d) \in State(n, l) /\ Fits(Checkup(d))
    BY <2>1, CheckupFits
  <2> QED
    BY <1>7, <2>2 DEF MainWritten, d
<1>8. CASE c.main.at = "preview"
  <2>1. MainWritten(c, yes) = PreviewWritten(c)
    BY <1>8 DEF MainWritten
  <2> QED
    BY <1>1, <1>8, <2>1, PreviewWrittenFits
<1>9. CASE c.main.at = "receipt"
  <2>1. MainWritten(c, yes) = ReceiptWritten(c)
    BY <1>9 DEF MainWritten
  <2> QED
    BY <1>1, <1>9, <2>1, ReceiptWrittenFits
<1>10. CASE c.main.at = "auto"
  <2> DEFINE d == Show(c, "preview", "answered")
             e == Boot([d EXCEPT !.main.at = "boot", !.fin.decision = "auto"])
  <2>1. d \in State(n, l) /\ LateReady(d)
    BY <1>1, <1>10, LateLook DEF Looks
  <2>2. MainWritten(c, yes) = e
    BY <1>10 DEF MainWritten
  <2> HIDE DEF d
  <2>3. e \in State(n, l) /\ Fits(e)
    BY <2>1, BootAutoFits
  <2> QED
    BY <2>2, <2>3
<1>11. CASE c.main.at = "failing"
  <2>1. MainWritten(c, yes) = Push(MainTo(c, "failed"), Main)
    BY <1>11 DEF MainWritten, MainTo
  <2> QED
    BY <1>1, <1>11, <2>1, FailingFits
<1>12. CASE c.main.at = "failed"
  <2>1. MainWritten(c, yes) = Over(Ends(c, "failed"))
    BY <1>12 DEF MainWritten, Ends
  <2> QED
    BY <1>1, <1>12, <2>1, FailedFits
<1> QED
  BY <1>2, <1>3, <1>4, <1>5, <1>6, <1>7, <1>8, <1>9, <1>10, <1>11, <1>12 DEF Writes

---------------------------------------------------------------------------
(* Decisions at the gates *)

Decisions == {"handled", "cancelled"}

LEMMA AnswerPFits ==
    ASSUME NEW n \in Nat, NEW l \in Nat, NEW c \in State(n, l), Fits(c), NEW r \in Reviews, c.gate[r] = P,
           NEW o \in Decisions
    PROVE  LET d == Push(PAt(ParkGate(c, r, Nobody), "decide", o), P)
           IN  d \in State(n, l) /\ Fits(d) /\ Stays(c, d)
<1> DEFINE free == ParkGate(c, r, Nobody)
           d == PAt(free, "decide", o)
<1>1. r = "proposals" /\ c.p.at = "gate" /\ ~Has(c, P) /\ \A x \in Reviews : c.gate[x] = P => x = r
  BY DEF Fits, Core, Flows, PFits
<1>2. /\ free \in State(n, l) /\ Fits(free) /\ OnlyGate(c, free) /\ Stays(c, free) /\ free.gate[r] = Nobody
      /\ \A x \in Reviews : x # r => free.gate[x] = c.gate[x]
      /\ \A x \in Who : Has(free, x) <=> Has(c, x)
  BY UnparkFits
<1> HIDE DEF free
<1>3. PFree(free) /\ free.p = c.p
  BY <1>1, <1>2, Names, NamesDiffer DEF PFree, OnlyGate, KeepStages
<1> DEFINE at == "decide"
<1>4. at \in PAts /\ at # "done" /\ at \in {"result", "decide"} /\ o \in Outs
  BY DEF PAts, Decisions, Outs
<1> HIDE DEF at
<1>5. d \in {PTo(free, at), PAt(free, at, o)}
  BY DEF at
<1> HIDE DEF d
<1>6. Push(d, P) \in State(n, l) /\ Fits(Push(d, P)) /\ Stays(free, Push(d, P))
  BY <1>1, <1>2, <1>3, <1>4, <1>5, PGoesOn
<1> QED
  BY <1>2, <1>6, StaysOn DEF d, free

LEMMA AnswerTFits ==
    ASSUME NEW n \in Nat, NEW l \in Nat, NEW c \in State(n, l), Fits(c), NEW r \in Reviews, c.gate[r] = T,
           NEW o \in Decisions, c.t.at # "card"
    PROVE  LET d == Push(TAt(ParkGate(c, r, Nobody), "decide", o), T)
           IN  d \in State(n, l) /\ Fits(d) /\ Stays(c, d)
<1> DEFINE free == ParkGate(c, r, Nobody)
           d == TAt(free, "decide", o)
<1>1. /\ r = "transfer" /\ c.t.at = "gate" /\ c.t.shell = "shown" /\ ~Has(c, T)
      /\ \A x \in Reviews : c.gate[x] = T => x = r
  BY DEF Fits, Core, Flows, TFits
<1>2. /\ free \in State(n, l) /\ Fits(free) /\ OnlyGate(c, free) /\ Stays(c, free) /\ free.gate[r] = Nobody
      /\ \A x \in Reviews : x # r => free.gate[x] = c.gate[x]
      /\ \A x \in Who : Has(free, x) <=> Has(c, x)
  BY UnparkFits
<1> HIDE DEF free
<1>3. TFree(free) /\ free.t = c.t
  BY <1>1, <1>2, Names, NamesDiffer DEF TFree, OnlyGate, KeepStages
<1>4. d \in State(n, l) /\ OnlyT(free, d) /\ d.t.at = "decide" /\ d.t.shell = free.t.shell
  BY <1>2, TIsTyped DEF TAts, Outs, Decisions
<1> HIDE DEF d
<1>5. TFree(d)
  BY <1>3, <1>4, FreeAfter
<1>6. TFits(d)
  BY <1>1, <1>3, <1>4, <1>5 DEF TFits, TFree
<1>7. Fits(d) /\ Stays(free, d)
  BY <1>1, <1>2, <1>3, <1>4, <1>6, RestOfT, TMoves
<1>8. MayAwait(d, T) /\ ~Has(d, T)
  BY <1>4, <1>5, NamesDiffer DEF MayAwait, TFree
<1>9. Push(d, T) \in State(n, l) /\ Fits(Push(d, T)) /\ Stays(d, Push(d, T))
  BY <1>4, <1>7, <1>8, Names, PushFits
<1> QED
  BY <1>2, <1>7, <1>9, StaysOn DEF d, free

MainDecides(c, at, o) == [c EXCEPT !.main.at = at, !.main.out = o]

LEMMA MainDecidesTyped ==
    ASSUME NEW n \in Nat, NEW l \in Nat, NEW c \in State(n, l), NEW at \in MainAts, NEW o \in Outs
    PROVE  /\ MainDecides(c, at, o) \in State(n, l) /\ OnlyDriver(c, MainDecides(c, at, o))
           /\ MainDecides(c, at, o).main.at = at /\ MainDecides(c, at, o).main.step = c.main.step
           /\ MainDecides(c, at, o).main.resumed = c.main.resumed /\ MainDecides(c, at, o).pv = c.pv
  BY DEF State, MainDecides, OnlyDriver, KeepStages, KeepBoard, KeepHold

LEMMA AnswerMainFits ==
    ASSUME NEW n \in Nat, NEW l \in Nat, NEW c \in State(n, l), Fits(c), NEW r \in Reviews, c.gate[r] = Main,
           NEW o \in Decisions
    PROVE  LET at == IF c.main.at = "gate" THEN "decide" ELSE "reviewed"
               d  == Push(MainDecides(ParkGate(c, r, Nobody), at, o), Main)
           IN  d \in State(n, l) /\ Fits(d) /\ Stays(c, d)
<1> DEFINE free == ParkGate(c, r, Nobody)
           at == IF c.main.at = "gate" THEN "decide" ELSE "reviewed"
           d == MainDecides(free, at, o)
<1>1. /\ c.main.at \in {"gate", "review"} /\ ~Has(c, Main)
      /\ \A x \in Reviews : c.gate[x] = Main => x = r
      /\ c.main.at = "review" => c.main.step # "checkup"
  BY DEF Fits, Core, Flows, MainFits, Writes
<1>2. /\ free \in State(n, l) /\ Fits(free) /\ OnlyGate(c, free) /\ Stays(c, free) /\ free.gate[r] = Nobody
      /\ \A x \in Reviews : x # r => free.gate[x] = c.gate[x]
      /\ \A x \in Who : Has(free, x) <=> Has(c, x)
  BY UnparkFits
<1> HIDE DEF free
<1>3. MainFree(free) /\ free.main = c.main
  BY <1>1, <1>2, Names, NamesDiffer DEF MainFree, OnlyGate
<1>4. LateReady(free)
  BY <1>1, <1>2, <1>3 DEF LateReady, MainReady, Fits, Core, Staged, Late
<1>5. /\ at \in MainAts /\ at \in Late \ {"boot", "preview"} /\ at \in Writes /\ o \in Outs
      /\ at \in {"reset", "review", "reviewed"} => c.main.step # "checkup"
  BY <1>1 DEF MainAts, Late, Writes, Outs, Decisions
<1> HIDE DEF at
<1>5a. at \in MainAts /\ o \in Outs
  BY <1>5
<1>6. d \in State(n, l) /\ OnlyDriver(free, d) /\ d.main.at = at /\ d.main.step = free.main.step
      /\ d.main.resumed = free.main.resumed /\ d.pv = free.pv
  BY <1>2, <1>5a, MainDecidesTyped
<1> HIDE DEF d
<1>7. ~d.pv.parked
  BY <1>4, <1>6, ReadyIsIdle DEF LateReady, Idle
<1>8. MayMove(free, d)
  BY <1>3, <1>4, <1>5, <1>6, <1>7, LateMoves
<1>9. Push(d, Main) \in State(n, l) /\ Fits(Push(d, Main)) /\ Stays(free, Push(d, Main))
  BY <1>4, <1>5, <1>6, <1>8, MainWrites DEF LateReady
<1> QED
  BY <1>2, <1>9, StaysOn DEF d, free, at

LEMMA AnswerAgainFits ==
    ASSUME NEW n \in Nat, NEW l \in Nat, NEW c \in State(n, l), Fits(c), NEW r \in Reviews, NEW i \in Nat,
           c.gate[r] = Again(i), NEW o \in Decisions
    PROVE  LET d == Push(AgainWith(ParkGate(c, r, Nobody), i, "decide", o), Again(i))
           IN  d \in State(n, l) /\ Fits(d) /\ Stays(c, d)
<1> DEFINE free == ParkGate(c, r, Nobody)
           at == "decide"
           d == AgainWith(free, i, at, o)
<1>1. /\ r = "proposals" /\ i \in Rounds(c) /\ c.again[i].at = "gate" /\ ~Has(c, Again(i))
      /\ \A x \in Reviews : c.gate[x] = Again(i) => x = r
  BY DEF Fits, Core, Flows, AgainFits
<1>2. /\ free \in State(n, l) /\ Fits(free) /\ OnlyGate(c, free) /\ Stays(c, free) /\ free.gate[r] = Nobody
      /\ \A x \in Reviews : x # r => free.gate[x] = c.gate[x]
      /\ \A x \in Who : Has(free, x) <=> Has(c, x)
  BY UnparkFits
<1> HIDE DEF free
<1>3. free.again = c.again /\ i \in Rounds(free) /\ free.again[i].at # "done" /\ i \in 1 .. n
  BY <1>1, <1>2 DEF OnlyGate, KeepStages, Rounds, State
<1>4. ~Has(free, Again(i)) /\ \A x \in Reviews : free.gate[x] # Again(i)
  BY <1>1, <1>2, Names, NamesDiffer
<1>5. at \in AgainAts /\ o \in Outs
  BY DEF AgainAts, Outs, Decisions
<1>6. at = "decide"
  OBVIOUS
<1> HIDE DEF at
<1>7. d \in State(n, l) /\ OnlyAgain(free, d, i) /\ d.again[i].at = at
  BY <1>2, <1>3, <1>5, AgainIsTyped
<1> HIDE DEF d
<1>8. Fits(d) /\ Stays(free, d) /\ ~Has(d, Again(i))
  BY <1>2, <1>3, <1>4, <1>7, AgainMoves
<1>9. MayAwait(d, Again(i))
  BY <1>3, <1>6, <1>7, NamesDiffer DEF MayAwait, OnlyAgain
<1>10. Push(d, Again(i)) \in State(n, l) /\ Fits(Push(d, Again(i))) /\ Stays(d, Push(d, Again(i)))
  BY <1>7, <1>8, <1>9, Names, PushFits
<1> QED
  BY <1>2, <1>8, <1>10, StaysOn DEF d, free, at

\* respond() and what releases a gate when the turn is stopped.
LEMMA AnswerFits ==
    ASSUME NEW n \in Nat, NEW l \in Nat, NEW c \in State(n, l), Fits(c), NEW r \in Reviews, NEW o \in Decisions
    PROVE  Answer(c, r, o) \in State(n, l) /\ Fits(Answer(c, r, o)) /\ Stays(c, Answer(c, r, o))
<1> DEFINE who == c.gate[r]
           free == ParkGate(c, r, Nobody)
<1>1. who \in Who /\ who \notin {Fin, Stopper}
  BY DEF State, Fits, Core, Flows, OthersFit
<1>2. who \in {P, T, Main, Nobody} \/ \E i \in Nat : who = Again(i)
  BY <1>1, Names
<1>3. CASE who = P
  <2>1. Answer(c, r, o) = Push(PAt(free, "decide", o), P)
    BY <1>3, NamesDiffer, Names DEF Answer, PAt
  <2> QED
    BY <1>3, <2>1, AnswerPFits
<1>4. CASE who = T
  <2>1. Answer(c, r, o) = IF c.t.at = "card" THEN free ELSE Push(TAt(free, "decide", o), T)
    BY <1>4, NamesDiffer, Names DEF Answer, TAt
  <2>2. free \in State(n, l) /\ Fits(free) /\ Stays(c, free)
    BY UnparkFits
  <2>3. ASSUME c.t.at # "card"
        PROVE  LET d == Push(TAt(free, "decide", o), T) IN d \in State(n, l) /\ Fits(d) /\ Stays(c, d)
    BY <1>4, <2>3, AnswerTFits
  <2> QED
    BY <2>1, <2>2, <2>3
<1>5. CASE who = Main
  <2> DEFINE at == IF c.main.at = "gate" THEN "decide" ELSE "reviewed"
             at2 == IF free.main.at = "gate" THEN "decide" ELSE "reviewed"
  <2>1. Answer(c, r, o) = Push(MainDecides(free, at2, o), Main)
    BY <1>5, NamesDiffer, Names DEF Answer, MainDecides
  <2>2. at2 = at
    BY UnparkFits DEF OnlyGate
  <2>3. LET d == Push(MainDecides(free, at, o), Main) IN d \in State(n, l) /\ Fits(d) /\ Stays(c, d)
    BY <1>5, AnswerMainFits
  <2> QED
    BY <2>1, <2>2, <2>3
<1>6. ASSUME NEW i \in Nat, who = Again(i)
      PROVE  Answer(c, r, o) \in State(n, l) /\ Fits(Answer(c, r, o)) /\ Stays(c, Answer(c, r, o))
  <2>1. who[1] = "again" /\ who[2] = i /\ who \notin {P, T, Main, Nobody}
    BY <1>6, Names, NamesDiffer
  <2>2. Answer(c, r, o) = Push(AgainWith(free, i, "decide", o), Again(i))
    BY <1>6, <2>1 DEF Answer, AgainWith
  <2> QED
    BY <1>6, <2>2, AnswerAgainFits
<1>7. CASE who = Nobody
  <2>1. Answer(c, r, o) = c
    BY <1>7, NamesDiffer, Names DEF Answer
  <2> QED
    BY <2>1 DEF Stays
<1> QED
  BY <1>2, <1>3, <1>4, <1>5, <1>6, <1>7

LEMMA AnswerAllFits ==
    ASSUME NEW n \in Nat, NEW l \in Nat, NEW c \in State(n, l), Fits(c), NEW o \in Decisions
    PROVE  AnswerAll(c, o) \in State(n, l) /\ Fits(AnswerAll(c, o)) /\ Stays(c, AnswerAll(c, o))
<1> DEFINE a == Answer(c, "proposals", o)
           b == Answer(a, "transfer", o)
           d == Answer(b, "checkup", o)
<1>0. "proposals" \in Reviews /\ "transfer" \in Reviews /\ "checkup" \in Reviews
  BY DEF Reviews
<1>1. a \in State(n, l) /\ Fits(a) /\ Stays(c, a)
  BY <1>0, AnswerFits
<1> HIDE DEF a
<1>2. b \in State(n, l) /\ Fits(b) /\ Stays(a, b)
  BY <1>0, <1>1, AnswerFits
<1> HIDE DEF b
<1>3. d \in State(n, l) /\ Fits(d) /\ Stays(b, d)
  BY <1>0, <1>2, AnswerFits
<1> HIDE DEF d
<1>4. Stays(c, d)
  BY <1>1, <1>2, <1>3, StaysOn
<1> QED
  BY <1>3, <1>4 DEF AnswerAll, a, b, d

---------------------------------------------------------------------------
(* Stop *)

LEMMA ReleasePFits ==
    ASSUME NEW n \in Nat, NEW l \in Nat, NEW c \in State(n, l), Fits(c)
    PROVE  ReleaseP(c) \in State(n, l) /\ Fits(ReleaseP(c)) /\ Stays(c, ReleaseP(c))
<1>1. CASE c.p.at = "parse"
  <2>1. ReleaseP(c) = Push(PTo(c, "result"), P)
    BY <1>1 DEF ReleaseP, PTo
  <2> QED
    BY <1>1, <2>1, ParsedFits
<1>2. CASE c.p.at # "parse"
  BY <1>2 DEF ReleaseP, Stays
<1> QED
  BY <1>1, <1>2

LEMMA ReleaseTFits ==
    ASSUME NEW n \in Nat, NEW l \in Nat, NEW c \in State(n, l), Fits(c)
    PROVE  ReleaseT(c) \in State(n, l) /\ Fits(ReleaseT(c)) /\ Stays(c, ReleaseT(c))
<1>1. ReleaseT(c) \in {TSettle(c, "cancelled"), TDone(c, "failed"), c}
      /\ (c.t.at \notin {"task", "stepone", "continue"} => ReleaseT(c) = c)
      /\ (c.t.at = "continue" => ReleaseT(c) = TDone(c, "failed"))
      /\ (c.t.at \in {"task", "stepone"} => ReleaseT(c) \in {TSettle(c, "cancelled"), c})
  BY DEF ReleaseT
<1>2. Stays(c, c)
  BY DEF Stays
<1> DEFINE no == "cancelled"
           bad == "failed"
<1>3. no \in Outs /\ bad \in Outs
  BY DEF Outs
<1>4. ASSUME c.t.at \in {"task", "stepone"}
      PROVE  TSettle(c, no) \in State(n, l) /\ Fits(TSettle(c, no)) /\ Stays(c, TSettle(c, no))
  <2>1. c.t.at # "done" /\ TRest(c)
    BY <1>4, RestOfT
  <2>2. c.t.shell # "writing" => TReady(c)
    BY <1>4, <2>1 DEF TReady, TFree, Fits, Core, Flows, TFits
  <2> HIDE DEF no
  <2> QED
    BY <1>3, <2>1, <2>2, TSettleFits
<1>5. ASSUME c.t.at = "continue"
      PROVE  TDone(c, bad) \in State(n, l) /\ Fits(TDone(c, bad)) /\ Stays(c, TDone(c, bad))
  <2>1. TReady(c)
    BY <1>5, RestOfT, TDoneFree DEF TReady
  <2>2. TMayEnd(c, bad)
    BY DEF TMayEnd
  <2> HIDE DEF bad
  <2> QED
    BY <1>3, <2>1, <2>2, TDoneFits
<1> QED
  BY <1>1, <1>2, <1>4, <1>5

LEMMA ReleaseMainFits ==
    ASSUME NEW n \in Nat, NEW l \in Nat, NEW c \in State(n, l), Fits(c)
    PROVE  ReleaseMain(c) \in State(n, l) /\ Fits(ReleaseMain(c)) /\ Stays(c, ReleaseMain(c))
<1>1. CASE c.main.at = "work"
  <2>1. ReleaseMain(c) = Analysed(c, "failed")
    BY <1>1 DEF ReleaseMain
  <2>2. LateReady(c)
    BY <1>1, MainUnawaited DEF LateReady, Fits, Core, Staged, Late
  <2> DEFINE bad == "failed"
  <2>3. bad \in Outs
    BY DEF Outs
  <2>4. ReleaseMain(c) = Analysed(c, bad)
    BY <2>1
  <2> HIDE DEF bad
  <2> QED
    BY <2>2, <2>3, <2>4, AnalysedFits
<1>2. CASE c.main.at # "work"
  BY <1>2 DEF ReleaseMain, Stays
<1> QED
  BY <1>1, <1>2

\* Where everybody is only depends on the coroutines and the board.
LEMMA FlowsStay ==
    ASSUME NEW c, NEW d, Core(c), KeepStages(c, d), d.main.at = c.main.at, d.main.step = c.main.step,
           KeepBoard(c, d), d.fin = c.fin, d.rec = c.rec
    PROVE  Flows(d) /\ Once(d)
<1>1. \A x : Has(d, x) <=> Has(c, x)
  BY DEF KeepBoard, Has
<1>2. /\ d.p = c.p /\ d.t = c.t /\ d.again = c.again /\ d.chain = c.chain /\ d.gate = c.gate
  BY DEF KeepStages, KeepBoard
<1>3. PFits(d) /\ TFits(d) /\ AgainFits(d)
  BY <1>1, <1>2 DEF Core, Flows, PFits, TFits, AgainFits, Rounds
<1>4. MainFits(d) /\ OthersFit(d) /\ Once(d)
  BY <1>1, <1>2 DEF Core, Flows, MainFits, OthersFit, Once
<1> QED
  BY <1>3, <1>4 DEF Flows

Cut(c) == [c EXCEPT !.scope = FALSE, !.branches = FALSE, !.planning = FALSE,
                    !.pv.parked = @ \/ c.planning, !.claim = @ /\ ~c.planning]

\* What Stop does before it looks at where the turn is.
LEMMA CutFits ==
    ASSUME NEW n \in Nat, NEW l \in Nat, NEW c \in State(n, l), Fits(c)
    PROVE  /\ Cut(c) \in State(n, l) /\ Fits(Cut(c)) /\ Stays(c, Cut(c))
           /\ Cut(c).fin = c.fin /\ Cut(c).main = c.main /\ Cut(c).lib = c.lib /\ KeepBoard(c, Cut(c))
           /\ KeepStages(c, Cut(c)) /\ KeepHold(c, Cut(c)) /\ ~Cut(c).planning
           /\ Cut(c).pv.parked = (c.pv.parked \/ c.planning)
           /\ Cut(c).pv.shown = c.pv.shown
<1> DEFINE parked == c.pv.parked \/ c.planning
           cl == c.claim /\ ~c.planning
           d == [c EXCEPT !.scope = FALSE, !.branches = FALSE, !.planning = FALSE, !.pv.parked = parked,
                          !.claim = cl]
<1>1. parked \in BOOLEAN /\ cl \in BOOLEAN
  BY DEF State
<1>2. Cut(c) = d
  BY DEF Cut
<1> HIDE DEF parked, cl
<1>3. d \in State(n, l)
  BY <1>1 DEF State
<1>4. /\ KeepStages(c, d) /\ d.main = c.main /\ KeepBoard(c, d) /\ d.fin = c.fin /\ KeepHold(c, d)
      /\ d.lib = c.lib /\ ~d.planning /\ d.claim = cl /\ d.pv.parked = parked
      /\ d.pv.shown = c.pv.shown /\ d.pv.view = c.pv.view
  BY <1>1 DEF State, KeepStages, KeepBoard, KeepHold
<1> HIDE DEF d
<1>5. KeepStages(c, d) /\ d.main = c.main /\ KeepBoard(c, d) /\ d.fin = c.fin /\ d.rec = c.rec
  BY <1>4 DEF KeepHold
<1>6. Flows(d) /\ Once(d)
  BY <1>5, FlowsStay DEF Fits
<1>7. (parked <=> c.pv.parked \/ c.planning) /\ (cl <=> c.claim /\ ~c.planning)
  BY DEF parked, cl
<1>8. Idle(d) <=> Idle(c)
  BY <1>4, <1>7 DEF Idle
<1>9. Staged(d) /\ CardsFit(d) /\ Approved(d) /\ HeldFits(d) /\ EndFits(d)
  BY <1>4, <1>7, <1>8 DEF Fits, Core, KeepStages, KeepBoard, KeepHold, Staged, CardsFit, Approved, HeldFits,
                          EndFits, StagesDone, AgainDone, Rounds
<1>10. Owned(d)
  BY <1>4, <1>7, <1>8 DEF Fits, Core, Owned, Idle
<1>11. Stays(c, d)
  BY <1>4 DEF KeepHold, Stays
<1>12. parked = (c.pv.parked \/ c.planning)
  BY DEF parked
<1>13. Fits(d)
  BY <1>6, <1>9, <1>10 DEF Fits, Core
<1> QED
  BY <1>2, <1>3, <1>4, <1>11, <1>12, <1>13

OnlyStop(c, d) ==
    /\ KeepStages(c, d) /\ d.main = c.main /\ KeepBoard(c, d) /\ KeepOwners(c, d)
    /\ d.prep.on = c.prep.on /\ d.prep.reopened = c.prep.reopened
    /\ d.held = c.held /\ d.settled = c.settled /\ d.rec = c.rec /\ d.outcome = c.outcome /\ d.lib = c.lib
    /\ d.stopped = (c.stopped \/ c.held)

LEMMA StopKeepsAll ==
    ASSUME NEW c, NEW d, Fits(c), "booted" \notin c.outcome, OnlyStop(c, d)
    PROVE  Fits(d) /\ Stays(c, d) /\ (d.stopped \/ ~d.held)
<1>1. KeepStages(c, d) /\ d.main = c.main /\ KeepBoard(c, d) /\ d.fin = c.fin /\ d.rec = c.rec
  BY DEF OnlyStop, KeepOwners
<1>2. Flows(d) /\ Once(d)
  BY <1>1, FlowsStay DEF Fits
<1>3. Staged(d) /\ CardsFit(d) /\ Approved(d) /\ Owned(d)
  BY DEF Fits, Core, OnlyStop, KeepStages, KeepBoard, KeepOwners, Staged, CardsFit, Approved, Owned, Idle,
         StagesDone, AgainDone, Rounds
<1>4. HeldFits(d) /\ EndFits(d)
  BY DEF Fits, Core, OnlyStop, KeepOwners, HeldFits, EndFits, Idle
<1> QED
  BY <1>2, <1>3, <1>4 DEF Fits, Core, Stays, OnlyStop

Flagged(c) == [Cancel(c) EXCEPT !.flag = TRUE, !.prep.aborted = @ \/ c.prep.on, !.waiting = @ \/ c.prep.on]

LEMMA CancelFits ==
    ASSUME NEW n \in Nat, NEW l \in Nat, NEW c \in State(n, l), Fits(c), "booted" \notin c.outcome
    PROVE  /\ Cancel(c) \in State(n, l) /\ OnlyStop(c, Cancel(c))
           /\ Flagged(c) \in State(n, l) /\ OnlyStop(c, Flagged(c))
<1> DEFINE st == c.stopped \/ c.held
           d == [c EXCEPT !.stopped = st]
<1>1. st \in BOOLEAN /\ Cancel(c) = d
  BY DEF State, Cancel
<1>2. st = (c.stopped \/ c.held)
  OBVIOUS
<1> HIDE DEF st
<1>3. d \in State(n, l)
  BY <1>1 DEF State
<1>4. /\ KeepStages(c, d) /\ d.main = c.main /\ KeepBoard(c, d) /\ KeepOwners(c, d) /\ d.prep = c.prep
      /\ d.held = c.held /\ d.settled = c.settled /\ d.rec = c.rec /\ d.outcome = c.outcome /\ d.lib = c.lib
      /\ d.stopped = st
  BY <1>1 DEF State, KeepStages, KeepBoard, KeepOwners
<1> HIDE DEF d
<1> DEFINE ab == d.prep.aborted \/ c.prep.on
           wt == d.waiting \/ c.prep.on
           e == [d EXCEPT !.flag = TRUE, !.prep.aborted = ab, !.waiting = wt]
<1>5. ab \in BOOLEAN /\ wt \in BOOLEAN
  BY <1>3 DEF State
<1>6. Flagged(c) = e
  BY <1>1 DEF Flagged
<1> HIDE DEF ab, wt
<1>7. e \in State(n, l)
  BY <1>3, <1>5 DEF State
<1>8. /\ KeepStages(d, e) /\ e.main = d.main /\ KeepBoard(d, e) /\ KeepOwners(d, e)
      /\ e.prep.on = d.prep.on /\ e.prep.reopened = d.prep.reopened
      /\ e.held = d.held /\ e.settled = d.settled /\ e.rec = d.rec /\ e.outcome = d.outcome /\ e.lib = d.lib
      /\ e.stopped = d.stopped
  BY <1>3, <1>5 DEF State, KeepStages, KeepBoard, KeepOwners
<1> HIDE DEF e
<1>9. OnlyStop(c, d)
  BY <1>2, <1>4 DEF OnlyStop
<1>10. OnlyStop(c, e)
  BY <1>2, <1>4, <1>8 DEF OnlyStop, KeepStages, KeepBoard, KeepOwners
<1> QED
  BY <1>1, <1>3, <1>6, <1>7, <1>9, <1>10

LEMMA RecordFits ==
    ASSUME NEW n \in Nat, NEW l \in Nat, NEW c \in State(n, l), Fits(c), c.stopped \/ ~c.held,
           "booted" \notin c.outcome
    PROVE  Record(c) \in State(n, l) /\ Fits(Record(c))
  BY RecordCore DEF Fits

\* A parked preview is taken back.
Unparked(c) == [c EXCEPT !.pv.parked = FALSE]

LEMMA UnparkedFits ==
    ASSUME NEW n \in Nat, NEW l \in Nat, NEW c \in State(n, l), Fits(c)
    PROVE  /\ Unparked(c) \in State(n, l) /\ Fits(Unparked(c)) /\ Stays(c, Unparked(c))
           /\ OnlyDriver(c, Unparked(c)) /\ Unparked(c).main = c.main
           /\ ~Unparked(c).pv.parked /\ Unparked(c).pv.view = c.pv.view
           /\ Unparked(c).scope = c.scope /\ Unparked(c).branches = c.branches
<1> DEFINE d == Unparked(c)
<1>1. /\ d \in State(n, l) /\ OnlyDriver(c, d) /\ d.main = c.main /\ ~d.pv.parked /\ d.pv.view = c.pv.view
      /\ d.pv.shown = c.pv.shown /\ d.scope = c.scope /\ d.branches = c.branches
  BY DEF State, Unparked, OnlyDriver, KeepStages, KeepBoard, KeepHold
<1> HIDE DEF d
<1>2. Core(d) /\ Stays(c, d)
  BY <1>1, PreviewCore DEF Fits
<1>3. EndFits(d)
  BY <1>1 DEF Fits, EndFits, OnlyDriver, KeepHold
<1> QED
  BY <1>1, <1>2, <1>3 DEF Fits, d

\* A preview that was shown and waits for its answer.
LEMMA ParkedFacts ==
    ASSUME NEW c, Fits(c), c.pv.parked, c.pv.shown
    PROVE  /\ c.main.at = "over" /\ c.fin.at \notin Active /\ c.fin.decision # "auto" /\ StagesDone(c)
           /\ ~c.prep.on /\ ~c.planning /\ ~c.claim /\ c.held
  BY DEF Fits, Core, Owned, EndFits, Staged, HeldFits, Idle

\* cancel(), before the engine runs.
LEMMA StoppedFits ==
    ASSUME NEW n \in Nat, NEW l \in Nat, NEW c \in State(n, l), Fits(c), "booted" \notin c.outcome
    PROVE  Stopped(c) \in State(n, l) /\ Fits(Stopped(c))
<1> DEFINE end == Cut(c)
           flagged == Flagged(end)
           no == "cancelled"
           a == AnswerAll(flagged, no)
           p == ReleaseP(a)
           t == ReleaseT(p)
           unwound == ReleaseMain(t)
<1>1. /\ end \in State(n, l) /\ Fits(end) /\ Stays(c, end) /\ end.main = c.main /\ end.fin = c.fin
      /\ KeepStages(c, end) /\ KeepHold(c, end) /\ ~end.planning
      /\ end.pv.parked = (c.pv.parked \/ c.planning) /\ end.pv.shown = c.pv.shown
      /\ "booted" \notin end.outcome
  BY CutFits DEF KeepHold
<1>2. \/ Stopped(c) = unwound
      \/ Stopped(c) = Record(unwound)
      \/ Stopped(c) = Record(Unparked(flagged))
      \/ Stopped(c) = Record(Cancel(end))
      \/ Stopped(c) = end
      \/ (c.pv.parked /\ c.pv.shown) /\ Stopped(c) = Finish(Unparked(end), "dismiss")
  BY DEF Stopped, Cut, Flagged, Unparked
<1> HIDE DEF end
<1>3. /\ Cancel(end) \in State(n, l) /\ OnlyStop(end, Cancel(end))
      /\ flagged \in State(n, l) /\ OnlyStop(end, flagged)
  BY <1>1, CancelFits
<1> DEFINE can == Cancel(end)
<1>4. can \in State(n, l) /\ OnlyStop(end, can)
  BY <1>3
<1> HIDE DEF flagged, can
<1>5. /\ Fits(flagged) /\ Stays(end, flagged) /\ (flagged.stopped \/ ~flagged.held)
      /\ Fits(can) /\ Stays(end, can) /\ (can.stopped \/ ~can.held)
  BY <1>1, <1>3, <1>4, StopKeepsAll
<1>6. Record(can) \in State(n, l) /\ Fits(Record(can))
  BY <1>1, <1>4, <1>5, RecordFits DEF Stays
<1>7. unwound \in State(n, l) /\ Fits(unwound) /\ Stays(flagged, unwound)
  <2>0. no \in Decisions
    BY DEF Decisions
  <2> HIDE DEF no
  <2>1. a \in State(n, l) /\ Fits(a) /\ Stays(flagged, a)
    BY <1>3, <1>5, <2>0, AnswerAllFits
  <2> HIDE DEF a
  <2>2. p \in State(n, l) /\ Fits(p) /\ Stays(a, p)
    BY <2>1, ReleasePFits
  <2> HIDE DEF p
  <2>3. t \in State(n, l) /\ Fits(t) /\ Stays(p, t)
    BY <2>2, ReleaseTFits
  <2> HIDE DEF t
  <2>4. unwound \in State(n, l) /\ Fits(unwound) /\ Stays(t, unwound)
    BY <2>3, ReleaseMainFits
  <2> HIDE DEF unwound
  <2>5. Stays(flagged, unwound)
    BY <2>1, <2>2, <2>3, <2>4, StaysOn
  <2> QED
    BY <2>4, <2>5
<1> HIDE DEF unwound
<1>8. Record(unwound) \in State(n, l) /\ Fits(Record(unwound))
  BY <1>1, <1>5, <1>7, RecordFits DEF Stays
<1>9. Record(Unparked(flagged)) \in State(n, l) /\ Fits(Record(Unparked(flagged)))
  <2> DEFINE u == Unparked(flagged)
  <2>1. u \in State(n, l) /\ Fits(u) /\ Stays(flagged, u)
    BY <1>3, <1>5, UnparkedFits
  <2> HIDE DEF u
  <2>2. Record(u) \in State(n, l) /\ Fits(Record(u))
    BY <1>1, <1>5, <2>1, RecordFits DEF Stays
  <2> QED
    BY <2>2 DEF u
<1>10. ASSUME c.pv.parked, c.pv.shown
       PROVE  Finish(Unparked(end), "dismiss") \in State(n, l) /\ Fits(Finish(Unparked(end), "dismiss"))
  <2> DEFINE u == Unparked(end)
             dis == "dismiss"
  <2>1. u \in State(n, l) /\ Fits(u) /\ Stays(end, u) /\ OnlyDriver(end, u) /\ u.main = end.main /\ ~u.pv.parked
    BY <1>1, UnparkedFits
  <2>2. /\ end.main.at = "over" /\ end.fin.at \notin Active /\ end.fin.decision # "auto" /\ StagesDone(end)
        /\ ~end.prep.on /\ ~end.planning
    BY <1>1, <1>10, ParkedFacts
  <2> HIDE DEF u
  <2>3. FinishReady(u)
    BY <1>1, <2>1, <2>2 DEF FinishReady, Fits, EndFits, OnlyDriver, KeepStages, KeepHold, StagesDone, AgainDone, Rounds
  <2>4. dis \in {"dismiss", "without", "go_on"} /\ dis # "go_on"
    OBVIOUS
  <2> HIDE DEF dis
  <2>5. Finish(u, dis) \in State(n, l) /\ Fits(Finish(u, dis))
    BY <2>1, <2>3, <2>4, FinishFits
  <2> QED
    BY <2>5 DEF u, dis
<1> QED
  BY <1>1, <1>2, <1>6, <1>7, <1>8, <1>9, <1>10 DEF can

---------------------------------------------------------------------------
(* The answer to the preview, and what it lets a user open again *)

OnlyAnswer(c, d) ==
    /\ KeepStages(c, d) /\ d.main = c.main /\ KeepBoard(c, d) /\ KeepHold(c, d) /\ d.fin = c.fin
    /\ d.lib = c.lib /\ d.pv.view = c.pv.view /\ d.pv.shown = c.pv.shown

\* The driver is over and the boot has not begun.
Waits(c) ==
    /\ c.main.at = "over" /\ c.fin.at \notin Active /\ c.fin.decision # "auto" /\ StagesDone(c)
    /\ ~c.prep.on /\ c.held

LEMMA AnswerCore ==
    ASSUME NEW c, NEW d, Fits(c), Waits(c), OnlyAnswer(c, d), d.pv.parked => ~d.planning,
           d.planning => d.claim
    PROVE  Core(d) /\ (("booted" \notin c.outcome) /\ ~d.pv.parked /\ ~d.planning => FinishReady(d))
           /\ ((d.claim => d.planning) => Fits(d))
<1>1. Flows(d) /\ Once(d)
  BY FlowsStay DEF OnlyAnswer, KeepHold, Fits
<1>2. StagesDone(d)
  BY DEF OnlyAnswer, KeepStages, Waits, StagesDone, AgainDone, Rounds
<1>3. Staged(d) /\ CardsFit(d) /\ Owned(d) /\ Approved(d) /\ HeldFits(d)
  BY <1>2 DEF Fits, Core, OnlyAnswer, KeepStages, KeepBoard, KeepHold, Waits, Staged, CardsFit, Owned, Approved,
              HeldFits, Late
<1>4. Core(d)
  BY <1>1, <1>3 DEF Core
<1>5. (d.claim => d.planning) => EndFits(d)
  BY DEF Fits, EndFits, OnlyAnswer, KeepHold, Waits
<1>6. ("booted" \notin c.outcome) /\ ~d.pv.parked /\ ~d.planning => FinishReady(d)
  BY <1>2, <1>4 DEF FinishReady, OnlyAnswer, KeepHold, Waits, Fits, EndFits
<1> QED
  BY <1>4, <1>5, <1>6 DEF Fits

LEMMA ClaimIsTyped ==
    ASSUME NEW n \in Nat, NEW l \in Nat, NEW c \in State(n, l)
    PROVE  /\ Claim(c) \in State(n, l) /\ OnlyAnswer(c, Claim(c)) /\ ~Claim(c).pv.parked /\ Claim(c).claim
           /\ Claim(c).planning = c.planning
           /\ Unclaim(c) \in State(n, l) /\ OnlyAnswer(c, Unclaim(c)) /\ Unclaim(c).pv.parked /\ ~Unclaim(c).claim
           /\ ~Unclaim(c).planning
<1> DEFINE d == Claim(c)
           u == Unclaim(c)
<1>1. d \in State(n, l)
  BY DEF State, Claim
<1>4. u \in State(n, l)
  BY DEF State, Unclaim
<1>2. OnlyAnswer(c, d) /\ ~d.pv.parked /\ d.claim /\ d.planning = c.planning
  BY DEF State, Claim, OnlyAnswer, KeepStages, KeepBoard, KeepHold
<1>3. OnlyAnswer(c, u) /\ u.pv.parked /\ ~u.claim /\ ~u.planning
  BY DEF State, Unclaim, OnlyAnswer, KeepStages, KeepBoard, KeepHold
<1> QED
  BY <1>1, <1>2, <1>3, <1>4

PlanningIs(c, b) == [c EXCEPT !.planning = b]

LEMMA PlanningIsTyped ==
    ASSUME NEW n \in Nat, NEW l \in Nat, NEW c \in State(n, l), NEW b \in BOOLEAN
    PROVE  /\ PlanningIs(c, b) \in State(n, l) /\ OnlyAnswer(c, PlanningIs(c, b))
           /\ PlanningIs(c, b).planning = b /\ PlanningIs(c, b).claim = c.claim
           /\ PlanningIs(c, b).pv = c.pv
  BY DEF State, PlanningIs, OnlyAnswer, KeepStages, KeepBoard, KeepHold

\* A preview that was shown and is still parked has not booted.
LEMMA ParkedWaits ==
    ASSUME NEW c, Fits(c), (c.pv.parked /\ c.pv.shown) \/ c.planning
    PROVE  Waits(c) /\ "booted" \notin c.outcome /\ (c.planning => ~c.pv.parked) /\ (c.pv.parked => ~c.planning)
  BY DEF Fits, Core, Owned, EndFits, Staged, HeldFits, Idle, Waits

LEMMA ClaimFits ==
    ASSUME NEW n \in Nat, NEW l \in Nat, NEW c \in State(n, l), Fits(c), c.pv.parked, c.pv.shown
    PROVE  /\ \A d \in {"without", "dismiss", "go_on"} : (d = "go_on" => c.pv.view = c.lib) =>
                  Finish(Claim(c), d) \in State(n, l) /\ Fits(Finish(Claim(c), d))
           /\ PlanningIs(Claim(c), TRUE) \in State(n, l) /\ Fits(PlanningIs(Claim(c), TRUE))
<1> DEFINE d == Claim(c)
           e == PlanningIs(d, TRUE)
<1>1. Waits(c) /\ "booted" \notin c.outcome /\ ~c.planning
  BY ParkedWaits
<1>2. d \in State(n, l) /\ OnlyAnswer(c, d) /\ ~d.pv.parked /\ d.claim /\ ~d.planning
  BY <1>1, ClaimIsTyped
<1> HIDE DEF d
<1>3. FinishReady(d)
  BY <1>1, <1>2, AnswerCore
<1>4. d.pv.view = c.pv.view /\ d.lib = c.lib
  BY <1>2 DEF OnlyAnswer
<1>5. ASSUME NEW o \in {"without", "dismiss", "go_on"}, o = "go_on" => c.pv.view = c.lib
      PROVE  Finish(d, o) \in State(n, l) /\ Fits(Finish(d, o))
  <2>1. o \in {"dismiss", "without", "go_on"}
    OBVIOUS
  <2> QED
    BY <1>2, <1>3, <1>4, <1>5, <2>1, FinishFits
<1>6. e \in State(n, l) /\ OnlyAnswer(d, e) /\ e.planning /\ e.claim /\ ~e.pv.parked
  BY <1>2, PlanningIsTyped
<1> HIDE DEF e
<1>7. OnlyAnswer(c, e)
  BY <1>2, <1>6 DEF OnlyAnswer, KeepStages, KeepBoard, KeepHold
<1>8. Fits(e)
  BY <1>1, <1>6, <1>7, AnswerCore
<1> QED
  BY <1>5, <1>6, <1>8 DEF d, e

LEMMA UsesPlannedFits ==
    ASSUME NEW n \in Nat, NEW l \in Nat, NEW c \in State(n, l), Fits(c), c.planning
    PROVE  /\ c.pv.view = c.lib => /\ Finish(PlanningIs(c, FALSE), "go_on") \in State(n, l)
                                   /\ Fits(Finish(PlanningIs(c, FALSE), "go_on"))
           /\ Unclaim(c) \in State(n, l) /\ Fits(Unclaim(c))
<1> DEFINE d == PlanningIs(c, FALSE)
           u == Unclaim(c)
           o == "go_on"
<1>1. Waits(c) /\ "booted" \notin c.outcome /\ ~c.pv.parked
  BY ParkedWaits
<1>2. d \in State(n, l) /\ OnlyAnswer(c, d) /\ ~d.planning /\ d.pv = c.pv
  BY PlanningIsTyped
<1> HIDE DEF d
<1>3. FinishReady(d) /\ d.lib = c.lib
  BY <1>1, <1>2, AnswerCore DEF OnlyAnswer
<1>4. o \in {"dismiss", "without", "go_on"}
  OBVIOUS
<1> HIDE DEF o
<1>5. c.pv.view = c.lib => Finish(d, o) \in State(n, l) /\ Fits(Finish(d, o))
  BY <1>2, <1>3, <1>4, FinishFits
<1>6. u \in State(n, l) /\ OnlyAnswer(c, u) /\ u.pv.parked /\ ~u.claim /\ ~u.planning
  BY ClaimIsTyped
<1> HIDE DEF u
<1>7. Fits(u)
  BY <1>1, <1>6, AnswerCore
<1> QED
  BY <1>5, <1>6, <1>7 DEF d, u, o

\* runReopenedMemoryPreparation
LEMMA ResumeAtFits ==
    ASSUME NEW n \in Nat, NEW l \in Nat, NEW c \in State(n, l), Fits(c), c.pv.parked, c.pv.shown, NEW r \in Reviews
    PROVE  ResumeAt(c, r) \in State(n, l) /\ Fits(ResumeAt(c, r))
<1> DEFINE at == IF r = "checkup" THEN "rescan" ELSE "reset"
           d == [c EXCEPT !.pv.parked = FALSE, !.status = "previewing", !.settled = FALSE,
                          !.main.resumed = TRUE, !.main.step = r, !.main.at = at]
<1>1. /\ at \in MainAts /\ at \in Writes /\ at \in Late
      /\ at \notin {"over", "preview", "boot", "refresh", "rework", "repark", "stages"}
      /\ at \in {"reset", "review", "reviewed"} => r # "checkup"
  BY DEF MainAts, Writes, Late
<1>2. ResumeAt(c, r) = Push(d, Main)
  BY DEF ResumeAt
<1> HIDE DEF at
<1>3. d \in State(n, l)
  <2> DEFINE e == [c EXCEPT !.pv.parked = FALSE, !.status = "previewing", !.settled = FALSE]
  <2>1. e \in State(n, l)
    BY DEF State, Statuses
  <2> DEFINE f == [e EXCEPT !.main.resumed = TRUE, !.main.step = r]
  <2>2. d = [f EXCEPT !.main.at = at]
    OBVIOUS
  <2> HIDE DEF e
  <2>3. f \in State(n, l)
    BY <2>1 DEF State, Reviews
  <2> HIDE DEF f
  <2>4. at \in MainAts
    BY <1>1
  <2> QED
    BY <2>2, <2>3, <2>4, MainIsTyped DEF MainTo
<1>4. /\ KeepStages(c, d) /\ KeepBoard(c, d) /\ d.claim = c.claim /\ d.planning = c.planning /\ d.fin = c.fin
      /\ d.prep = c.prep /\ d.held = c.held /\ d.stopped = c.stopped /\ d.waiting = c.waiting /\ d.rec = c.rec
      /\ d.outcome = c.outcome /\ ~d.settled /\ d.main.at = at /\ d.main.step = r /\ ~d.pv.parked
      /\ d.pv.view = c.pv.view
  BY <1>1 DEF State, KeepStages, KeepBoard
<1> HIDE DEF d
<1>5. Waits(c) /\ "booted" \notin c.outcome /\ ~c.planning
  BY ParkedWaits
<1>6. \A x : Has(d, x) <=> Has(c, x)
  BY <1>4 DEF KeepBoard, Has
<1>7. ~Has(c, Main) /\ \A x \in Reviews : c.gate[x] # Main
  BY <1>5 DEF Waits, Fits, Core, Flows, MainFits, Writes
<1>8. PFits(d) /\ TFits(d) /\ AgainFits(d) /\ OthersFit(d) /\ Once(d)
  BY <1>4, <1>6 DEF Fits, Core, Flows, KeepStages, KeepBoard, PFits, TFits, AgainFits, OthersFit, Once, Rounds
<1>9. MainFits(d)
  BY <1>1, <1>4, <1>6, <1>7 DEF KeepBoard, MainFits
<1>10. Staged(d) /\ CardsFit(d) /\ Owned(d) /\ Approved(d) /\ HeldFits(d) /\ EndFits(d)
  BY <1>1, <1>4, <1>5 DEF Fits, Core, KeepStages, KeepBoard, Waits, Staged, CardsFit, Owned, Approved, HeldFits,
                          EndFits, Idle, StagesDone, AgainDone, Rounds
<1>11. Fits(d)
  BY <1>8, <1>9, <1>10 DEF Fits, Core, Flows
<1>12. MayAwait(d, Main) /\ ~Has(d, Main)
  BY <1>1, <1>4, <1>6, <1>7, NamesDiffer DEF MayAwait
<1> QED
  BY <1>2, <1>3, <1>11, <1>12, Names, PushFits

---------------------------------------------------------------------------
(* The writes of the chain *)

\* The coroutine at the head of the chain goes on.
LEMMA ResumedFits ==
    ASSUME NEW n \in Nat, NEW l \in Nat, NEW c \in State(n, l), Fits(c), NEW w \in Who, ~Has(c, w), MayAwait(c, w),
           NEW yes \in BOOLEAN
    PROVE  Resumed(c, w, yes) \in State(n, l) /\ Fits(Resumed(c, w, yes))
<1>1. w \in {P, T, Main, Fin, Stopper} \/ \E i \in Nat : w = Again(i)
  BY Names DEF MayAwait
<1>2. CASE w = P
  <2>1. Resumed(c, w, yes) = PWritten(c, yes)
    BY <1>2, NamesDiffer, Names DEF Resumed
  <2> QED
    BY <1>2, <2>1, PWrittenFits DEF MayAwait
<1>3. CASE w = T
  <2>1. Resumed(c, w, yes) = TWritten(c)
    BY <1>3, NamesDiffer, Names DEF Resumed
  <2> QED
    BY <1>3, <2>1, TWrittenFits DEF MayAwait
<1>4. CASE w = Main
  <2>1. Resumed(c, w, yes) = MainWritten(c, yes)
    BY <1>4, NamesDiffer, Names DEF Resumed
  <2> QED
    BY <1>4, <2>1, MainWrittenFits DEF MayAwait
<1>5. CASE w = Fin
  <2>1. Resumed(c, w, yes) = FinWritten(c)
    BY <1>5, NamesDiffer, Names DEF Resumed
  <2> QED
    BY <1>5, <2>1, FinWrittenFits DEF MayAwait
<1>6. CASE w = Stopper
  <2>1. Resumed(c, w, yes) = Recorded(c)
    BY <1>6, NamesDiffer, Names DEF Resumed
  <2> QED
    BY <1>6, <2>1, RecordedFits DEF MayAwait
<1>7. ASSUME NEW i \in Nat, w = Again(i)
      PROVE  Resumed(c, w, yes) \in State(n, l) /\ Fits(Resumed(c, w, yes))
  <2>1. w[1] = "again" /\ w[2] = i /\ w \notin {P, T, Main, Fin, Stopper}
    BY <1>7, Names, NamesDiffer
  <2>2. Resumed(c, w, yes) = AgainWritten(c, i)
    BY <2>1 DEF Resumed
  <2>3. i \in Rounds(c) /\ c.again[i].at \in {"reset", "decide"}
    BY <1>7 DEF MayAwait
  <2>4. i \in 1 .. n
    BY <2>3 DEF State, Rounds
  <2> QED
    BY <1>7, <2>2, <2>3, <2>4, AgainWrittenFits
<1> QED
  BY <1>1, <1>2, <1>3, <1>4, <1>5, <1>6, <1>7

Popped(c) == [c EXCEPT !.chain = Tail(@)]

LEMMA PoppedFits ==
    ASSUME NEW n \in Nat, NEW l \in Nat, NEW c \in State(n, l), Fits(c), c.chain # <<>>
    PROVE  /\ Popped(c) \in State(n, l) /\ Fits(Popped(c))
           /\ Head(c.chain) \in Who /\ ~Has(Popped(c), Head(c.chain)) /\ MayAwait(Popped(c), Head(c.chain))
<1> DEFINE q == c.chain
           rest == Tail(q)
           d == [c EXCEPT !.chain = rest]
           w == Head(q)
<1>1. q \in Seq(Who) /\ rest \in Seq(Who) /\ w \in Who
  BY DEF State
<1>2. Popped(c) = d
  BY DEF Popped
<1>3. rest = Tail(q) /\ c.chain = q /\ q # <<>> /\ w = Head(q)
  OBVIOUS
<1> HIDE DEF rest, q, w
<1>4. d \in State(n, l)
  BY <1>1 DEF State
<1>5. d.chain = rest /\ OnlyChain(c, d)
  BY <1>1 DEF State, OnlyChain, KeepStages, KeepOwners, KeepHold, KeepRest
<1> HIDE DEF d
<1>6. Once(d) /\ ~Has(d, w) /\ Has(c, w) /\ \A x \in Who : Has(d, x) => Has(c, x)
  BY <1>1, <1>3, <1>5, TailHas DEF Fits, Core
<1>7. /\ d.p = c.p /\ d.t = c.t /\ d.again = c.again /\ d.main = c.main /\ d.gate = c.gate /\ d.fin = c.fin
      /\ d.rec = c.rec
  BY <1>5 DEF OnlyChain, KeepStages, KeepOwners, KeepHold
<1>8. PFits(d) /\ TFits(d) /\ AgainFits(d)
  BY <1>6, <1>7, Names DEF Fits, Core, Flows, PFits, TFits, AgainFits, Rounds
<1>9. MainFits(d) /\ OthersFit(d)
  BY <1>6, <1>7, Names DEF Fits, Core, Flows, MainFits, OthersFit
<1>10. Fits(d)
  BY <1>5, <1>6, <1>8, <1>9, ChainKeepsRest DEF Fits, Core, Flows
<1>11. MayAwait(c, w)
  BY <1>6 DEF Fits, Core, Flows, PFits, TFits, AgainFits, MainFits, OthersFit, MayAwait
<1>12. MayAwait(d, w)
  BY <1>7, <1>11 DEF MayAwait, Rounds
<1> QED
  BY <1>1, <1>2, <1>4, <1>6, <1>10, <1>12 DEF w, q

---------------------------------------------------------------------------
(* Reviews opened again *)

WantMore(c, want) == [c EXCEPT !.main.want = want]

LEMMA WantFits ==
    ASSUME NEW n \in Nat, NEW l \in Nat, NEW c \in State(n, l), Fits(c), NEW want \in SUBSET Reviews
    PROVE  /\ WantMore(c, want) \in State(n, l) /\ Fits(WantMore(c, want))
           /\ WantMore(c, want).main.at = c.main.at /\ KeepBoard(c, WantMore(c, want))
<1> DEFINE d == WantMore(c, want)
<1>1. d \in State(n, l)
  BY DEF State, WantMore
<1>2. /\ KeepStages(c, d) /\ KeepBoard(c, d) /\ KeepOwners(c, d) /\ KeepHold(c, d)
      /\ d.main.at = c.main.at /\ d.main.step = c.main.step /\ d.main.resumed = c.main.resumed
  BY DEF State, WantMore, KeepStages, KeepBoard, KeepOwners, KeepHold
<1> HIDE DEF d
<1>3. Flows(d) /\ Once(d)
  BY <1>2, FlowsStay DEF Fits, KeepOwners, KeepHold
<1>4. Staged(d) /\ CardsFit(d) /\ Owned(d) /\ Approved(d) /\ HeldFits(d) /\ EndFits(d)
  BY <1>2 DEF Fits, Core, KeepStages, KeepBoard, KeepOwners, KeepHold, Staged, CardsFit, Owned, Approved, HeldFits,
              EndFits, Idle, StagesDone, AgainDone, Rounds
<1> QED
  BY <1>1, <1>2, <1>3, <1>4 DEF Fits, Core, d

\* From the gate of the checkup.
LEMMA GateReopens ==
    ASSUME NEW n \in Nat, NEW l \in Nat, NEW c \in State(n, l), Fits(c), c.main.at = "gate", NEW r \in Reviews
    PROVE  LET d == Analysed(ParkGate(WantMore(c, {r}), "checkup", Nobody), "found")
           IN  d \in State(n, l) /\ Fits(d)
<1> DEFINE want == {r}
           asked == WantMore(c, want)
           k == "checkup"
           free == ParkGate(asked, k, Nobody)
           fnd == "found"
<1>1. want \in SUBSET Reviews /\ k \in Reviews /\ k = "checkup" /\ fnd \in Outs
  BY DEF Reviews, Outs
<1> HIDE DEF want, k, fnd
<1>2. asked \in State(n, l) /\ Fits(asked) /\ asked.main.at = "gate" /\ KeepBoard(c, asked)
  BY <1>1, WantFits
<1> HIDE DEF asked
<1>3. /\ free \in State(n, l) /\ Fits(free) /\ OnlyGate(asked, free) /\ free.gate[k] = Nobody
      /\ \A x \in Reviews : x # k => free.gate[x] = asked.gate[x]
      /\ \A x \in Who : Has(free, x) <=> Has(asked, x)
  BY <1>1, <1>2, UnparkFits
<1> HIDE DEF free
<1>4. ~Has(asked, Main) /\ \A x \in Reviews : asked.gate[x] = Main => x = k
  BY <1>1, <1>2 DEF Fits, Core, Flows, MainFits, Writes
<1>5. MainFree(free) /\ free.main.at = "gate"
  BY <1>2, <1>3, <1>4, Names, NamesDiffer DEF MainFree, OnlyGate
<1>6. LateReady(free)
  BY <1>3, <1>5 DEF LateReady, MainReady, Fits, Core, Staged, Late
<1>7. Analysed(free, fnd) \in State(n, l) /\ Fits(Analysed(free, fnd))
  BY <1>1, <1>3, <1>6, AnalysedFits
<1> QED
  BY <1>7 DEF free, asked, want, k, fnd

LEMMA AppendRound ==
    ASSUME NEW n \in Nat, NEW S, NEW q \in [1 .. n -> S], NEW x \in S
    PROVE  /\ Len(q) = n /\ Append(q, x) \in [1 .. n + 1 -> S] /\ Append(q, x)[n + 1] = x
           /\ \A i \in 1 .. n : Append(q, x)[i] = q[i]
<1>1. q \in Seq(S) /\ Len(q) = n
  OBVIOUS
<1>2. /\ Append(q, x) \in Seq(S) /\ Len(Append(q, x)) = n + 1 /\ Append(q, x)[n + 1] = x
      /\ \A i \in 1 .. n : Append(q, x)[i] = q[i]
  BY <1>1, AppendProperties
<1>3. Append(q, x) \in [1 .. n + 1 -> S]
  BY <1>2, LenProperties
<1> QED
  BY <1>1, <1>2, <1>3

\* Beside a transfer that is still open.
LEMMA BesideReopens ==
    ASSUME NEW n \in Nat, NEW l \in Nat, NEW c \in State(n, l), Fits(c), c.prep.on, ~c.pv.parked,
           c.card["preview"] = "open" \/ c.card["checkup"] = "open" \/ c.card["transfer"] = "open"
    PROVE  LET d == Push([c EXCEPT !.prep.reopened = TRUE, !.again = Append(@, [at |-> "reset", out |-> "none"])],
                         Again(Len(c.again) + 1))
           IN  d \in State(n + 1, l) /\ Fits(d)
<1> DEFINE first == [at |-> "reset", out |-> "none"]
           again == Append(c.again, first)
           d == [c EXCEPT !.prep.reopened = TRUE, !.again = again]
<1>1. c.again \in [1 .. n -> AgainRecord] /\ first \in AgainRecord /\ first.at = "reset"
  BY DEF State, AgainRecord, Outs
<1> HIDE DEF first
<1>2. /\ Len(c.again) = n /\ again \in [1 .. n + 1 -> AgainRecord] /\ again[n + 1] = first
      /\ \A i \in 1 .. n : again[i] = c.again[i]
  BY <1>1, AppendRound
<1> HIDE DEF again
<1> DEFINE m == n + 1
<1>3. m \in Nat /\ m = n + 1 /\ again \in [1 .. m -> AgainRecord]
  BY <1>2
<1> HIDE DEF m
<1>4. d \in State(m, l)
  BY <1>3 DEF State
<1>5. /\ d.p = c.p /\ d.t = c.t /\ d.again = again /\ d.main = c.main /\ KeepBoard(c, d) /\ KeepOwners(c, d)
      /\ d.prep.on /\ d.held = c.held /\ d.stopped = c.stopped /\ d.settled = c.settled /\ d.waiting = c.waiting
      /\ d.rec = c.rec /\ d.outcome = c.outcome
  BY DEF State, KeepBoard, KeepOwners
<1> HIDE DEF d
<1>6. Rounds(c) = 1 .. n /\ Rounds(d) = 1 .. m /\ m \in Nat /\ m \notin Rounds(c)
  BY <1>1, <1>3, <1>5 DEF Rounds
<1>7. \A x : Has(d, x) <=> Has(c, x)
  BY <1>5 DEF KeepBoard, Has
<1>8. ~Has(c, Again(m)) /\ \A r \in Reviews : c.gate[r] # Again(m)
  BY <1>6 DEF Fits, Core, Flows, AgainFits
<1>9. PFits(d) /\ TFits(d) /\ MainFits(d) /\ OthersFit(d) /\ Once(d)
  BY <1>5, <1>7 DEF Fits, Core, Flows, KeepBoard, KeepOwners, PFits, TFits, MainFits, OthersFit, Once
<1>10. AgainFits(d)
  BY <1>2, <1>3, <1>5, <1>6, <1>7 DEF Fits, Core, Flows, AgainFits, KeepBoard
<1>11. c.card["transfer"] = "open" /\ c.main.at \notin Late /\ c.main.at \notin {"refresh", "rework"} /\ Idle(c)
  BY DEF Fits, Core, CardsFit, Staged
<1>12. Staged(d) /\ CardsFit(d)
  BY <1>5, <1>11 DEF Fits, Core, KeepBoard, KeepOwners, Staged, CardsFit, Idle
<1>13. Owned(d) /\ Approved(d) /\ HeldFits(d) /\ EndFits(d)
  BY <1>5 DEF Fits, Core, KeepOwners, Owned, Approved, HeldFits, EndFits, Idle
<1>14. Fits(d)
  BY <1>9, <1>10, <1>12, <1>13 DEF Fits, Core, Flows
<1>15. ~Has(d, Again(m)) /\ MayAwait(d, Again(m))
  BY <1>1, <1>2, <1>3, <1>5, <1>6, <1>7, <1>8, NamesDiffer DEF MayAwait
<1>16. Push(d, Again(m)) \in State(m, l) /\ Fits(Push(d, Again(m)))
  BY <1>3, <1>4, <1>14, <1>15, Names, PushFits
<1> QED
  BY <1>2, <1>3, <1>16 DEF d, again, first

\* The library is edited.
LEMMA EditedFits ==
    ASSUME NEW n \in Nat, NEW l \in Nat, NEW c \in State(n, l), Fits(c)
    PROVE  LET d == [c EXCEPT !.lib = @ + 1]
           IN  d \in State(n, l + 1) /\ Fits(d)
<1> DEFINE m == l + 1
           d == [c EXCEPT !.lib = m]
<1>1. m \in Nat /\ c.lib = l /\ 0 .. l \subseteq 0 .. m
  BY DEF State
<1>2. [c EXCEPT !.lib = @ + 1] = d
  BY <1>1
<1> HIDE DEF m
<1>3. d \in State(n, m)
  <2>1. c.pv \in [parked : BOOLEAN, shown : BOOLEAN, view : 0 .. m]
    BY <1>1 DEF State
  <2>2. d.lib \in {m} /\ d.pv = c.pv
    BY DEF State
  <2> QED
    BY <2>1, <2>2 DEF State
<1>4. /\ KeepStages(c, d) /\ d.main = c.main /\ KeepBoard(c, d) /\ KeepOwners(c, d) /\ KeepHold(c, d)
  BY DEF State, KeepStages, KeepBoard, KeepOwners, KeepHold
<1> HIDE DEF d
<1>5. Flows(d) /\ Once(d)
  BY <1>4, FlowsStay DEF Fits, KeepOwners, KeepHold
<1>6. Staged(d) /\ CardsFit(d) /\ Owned(d) /\ Approved(d) /\ HeldFits(d) /\ EndFits(d)
  BY <1>4 DEF Fits, Core, KeepStages, KeepBoard, KeepOwners, KeepHold, Staged, CardsFit, Owned, Approved, HeldFits,
              EndFits, Idle, StagesDone, AgainDone, Rounds
<1> QED
  BY <1>2, <1>3, <1>5, <1>6 DEF Fits, Core, m

---------------------------------------------------------------------------
(* The steps *)

PrepInv ==
    /\ edits \in 0 .. MaxEdits /\ reopens \in 0 .. MaxReopens
    /\ \E n \in 0 .. reopens : s \in State(n, edits) /\ Fits(s)

LEMMA Initially == Init => PrepInv
<1> SUFFICES ASSUME Init PROVE PrepInv
  OBVIOUS
<1>1. edits = 0 /\ reopens = 0 /\ s = Fresh
  BY DEF Init
<1>2. Fresh \in State(0, 0)
  <2> DEFINE seq == <<P>>
             none == <<>>
             gates == [r \in Reviews |-> Nobody]
             cards == [r \in Reviews \cup {"preview"} |-> "none"]
             p == [at |-> "shell", out |-> "none"]
             t == [at |-> "task", out |-> "none", base |-> 0, shell |-> "none"]
             main == [at |-> "stages", step |-> "checkup", out |-> "none", want |-> {},
                      xfer |-> FALSE, parent |-> FALSE, resumed |-> FALSE]
             prep == [on |-> TRUE, aborted |-> FALSE, reopened |-> FALSE]
             pv == [parked |-> FALSE, shown |-> FALSE, view |-> 0]
             fin == [at |-> "off", decision |-> "none", approved |-> 0, plan |-> 0]
             fields == [chain |-> seq, p |-> p, t |-> t, main |-> main, again |-> none, prep |-> prep,
                        gate |-> gates, pv |-> pv, claim |-> FALSE, planning |-> FALSE, fin |-> fin,
                        held |-> TRUE, stopped |-> FALSE, settled |-> FALSE, status |-> "previewing",
                        flag |-> FALSE, waiting |-> FALSE, rec |-> "no",
                        scope |-> TRUE, branches |-> TRUE, lib |-> 0,
                        card |-> cards, outcome |-> {}]
  <2>1. seq \in Seq(Who) /\ gates \in [Reviews -> Who]
    BY Names
  <2>2. none \in [1 .. 0 -> AgainRecord]
    OBVIOUS
  <2>3. cards \in [Reviews \cup {"preview"} -> Looks]
    BY DEF Looks
  <2>4. /\ p \in [at : PAts, out : Outs]
        /\ t \in [at : TAts, out : Outs, base : Nat, shell : {"none", "writing", "shown"}]
    BY DEF PAts, TAts, Outs
  <2>5. main \in [at : MainAts, step : Reviews, out : Outs, want : SUBSET Reviews,
                  xfer : BOOLEAN, parent : BOOLEAN, resumed : BOOLEAN]
    BY DEF MainAts, Outs, Reviews
  <2>6. /\ prep \in [on : BOOLEAN, aborted : BOOLEAN, reopened : BOOLEAN]
        /\ pv \in [parked : BOOLEAN, shown : BOOLEAN, view : 0 .. 0]
        /\ fin \in [at : Active \cup {"off", "done"},
                     decision : {"none", "auto", "dismiss", "without", "go_on"}, approved : Nat, plan : Nat]
    OBVIOUS
  <2>7. Fresh = fields
    BY DEF Fresh
  <2> HIDE DEF seq, none, gates, cards, p, t, main, prep, pv, fin
  <2>8. fields \in State(0, 0)
    BY <2>1, <2>2, <2>3, <2>4, <2>5, <2>6 DEF State, Statuses
  <2> QED
    BY <2>7, <2>8
<1>3. Fits(Fresh)
  <2> DEFINE c == Fresh
  <2>1. /\ c.chain = <<P>> /\ c.again = <<>> /\ c.p.at = "shell" /\ c.t.at = "task" /\ c.t.shell = "none"
        /\ c.main.at = "stages" /\ ~c.main.resumed /\ c.main.step = "checkup"
        /\ c.prep.on /\ ~c.prep.reopened /\ \A r \in Reviews : c.gate[r] = Nobody
    BY DEF Fresh
  <2>2. /\ ~c.pv.parked /\ ~c.pv.shown /\ ~c.claim /\ ~c.planning /\ c.fin.at = "off" /\ c.fin.decision = "none"
        /\ c.held /\ ~c.stopped /\ ~c.settled /\ ~c.waiting /\ c.rec = "no" /\ c.outcome = {}
        /\ \A r \in Reviews \cup {"preview"} : c.card[r] = "none"
    BY DEF Fresh
  <2>3. c.card["checkup"] = "none" /\ c.card["preview"] = "none" /\ c.card["transfer"] = "none"
    BY <2>2 DEF Reviews
  <2> HIDE DEF c
  <2>4. \A x : Has(c, x) <=> x = P
    BY <2>1 DEF Has
  <2>5. Once(c)
    BY <2>1 DEF Once
  <2>6. PFits(c) /\ TFits(c) /\ AgainFits(c) /\ MainFits(c) /\ OthersFit(c)
    BY <2>1, <2>2, <2>4, NamesDiffer DEF PFits, TFits, AgainFits, MainFits, OthersFit
  <2>7. Staged(c) /\ CardsFit(c) /\ Owned(c) /\ Approved(c) /\ HeldFits(c) /\ EndFits(c)
    BY <2>1, <2>2, <2>3 DEF Staged, CardsFit, Owned, Approved, HeldFits, EndFits, Idle, Late, Active
  <2> QED
    BY <2>5, <2>6, <2>7 DEF Fits, Core, Flows, c
<1> QED
  BY <1>1, <1>2, <1>3, BoundAssumption DEF PrepInv

LEMMA WrittenStep ==
    ASSUME NEW n \in Nat, NEW l \in Nat, s \in State(n, l), Fits(s), Written
    PROVE  s' \in State(n, l) /\ Fits(s')
<1>1. PICK yes \in BOOLEAN : s.chain # <<>> /\ s' = Resumed(Popped(s), Head(s.chain), yes)
  BY DEF Written, Popped
<1>2. /\ Popped(s) \in State(n, l) /\ Fits(Popped(s)) /\ Head(s.chain) \in Who
      /\ ~Has(Popped(s), Head(s.chain)) /\ MayAwait(Popped(s), Head(s.chain))
  BY <1>1, PoppedFits
<1> QED
  BY <1>1, <1>2, ResumedFits

LEMMA ModelStep ==
    ASSUME NEW n \in Nat, NEW l \in Nat, s \in State(n, l), Fits(s), Parsed \/ Scanned \/ Landed \/ Checked
    PROVE  s' \in State(n, l) /\ Fits(s')
<1>1. CASE Parsed
  <2>1. s.p.at = "parse" /\ (s' = Push(PTo(s, "result"), P) \/ s' = PDone(s, "failed"))
    BY <1>1 DEF Parsed, PTo
  <2> QED
    BY <2>1, ParsedFits
<1>2. CASE Scanned
  <2>1. s.t.at = "task" /\ s' = IF s.p.at = "done" THEN TAfterStepOne(s) ELSE [s EXCEPT !.t.at = "stepone"]
    BY <1>2 DEF Scanned
  <2> QED
    BY <2>1, ScannedFits
<1>3. CASE Landed
  <2>1. s.t.at = "continue" /\ s' \in {TLanded(s, TRUE), TLanded(s, FALSE), TDone(s, "failed")}
    BY <1>3 DEF Landed
  <2> DEFINE bad == "failed"
  <2>2. bad \in Outs /\ TMayEnd(s, bad)
    BY DEF Outs, TMayEnd
  <2>3. s' \in {TLanded(s, TRUE), TLanded(s, FALSE), TDone(s, bad)}
    BY <2>1
  <2> HIDE DEF bad
  <2>4. TReady(s)
    BY <2>1, RestOfT, TDoneFree DEF TReady
  <2>5. TDone(s, bad) \in State(n, l) /\ Fits(TDone(s, bad))
    BY <2>2, <2>4, TDoneFits
  <2>6. \A b \in BOOLEAN : TLanded(s, b) \in State(n, l) /\ Fits(TLanded(s, b))
    BY <2>1, TLandedFits
  <2> QED
    BY <2>3, <2>5, <2>6
<1>4. CASE Checked
  <2>1. s.main.at = "work" /\ \E found \in {"found", "nothing", "failed"} : s' = Analysed(s, found)
    BY <1>4 DEF Checked
  <2>2. PICK found \in Outs : s' = Analysed(s, found)
    BY <2>1 DEF Outs
  <2>3. LateReady(s)
    BY <2>1, MainUnawaited DEF LateReady, Fits, Core, Staged, Late
  <2> QED
    BY <2>2, <2>3, AnalysedFits
<1> QED
  BY <1>1, <1>2, <1>3, <1>4

LEMMA AnswerStep ==
    ASSUME NEW n \in Nat, NEW l \in Nat, s \in State(n, l), Fits(s),
           RespondPreview \/ UsesPlanned \/ \E r \in Reviews : Respond(r)
    PROVE  s' \in State(n, l) /\ Fits(s')
<1>1. ASSUME NEW r \in Reviews, Respond(r)
      PROVE  s' \in State(n, l) /\ Fits(s')
  <2> DEFINE o == "handled"
  <2>1. s' = Answer(s, r, o) /\ o \in Decisions
    BY <1>1 DEF Respond, Decisions
  <2> HIDE DEF o
  <2> QED
    BY <2>1, AnswerFits
<1>2. CASE RespondPreview
  <2>1. /\ s.pv.parked /\ s.pv.shown
        /\ \/ \E d \in {"without", "dismiss", "go_on"} :
                  (d = "go_on" => s.pv.view = s.lib) /\ s' = Finish(Claim(s), d)
           \/ s' = PlanningIs(Claim(s), TRUE)
    BY <1>2 DEF RespondPreview, PlanningIs
  <2>2. /\ \A d \in {"without", "dismiss", "go_on"} : (d = "go_on" => s.pv.view = s.lib) =>
               Finish(Claim(s), d) \in State(n, l) /\ Fits(Finish(Claim(s), d))
        /\ PlanningIs(Claim(s), TRUE) \in State(n, l) /\ Fits(PlanningIs(Claim(s), TRUE))
    BY <2>1, ClaimFits
  <2> QED
    BY <2>1, <2>2
<1>3. CASE UsesPlanned
  <2>1. s.planning /\ (\/ s.pv.view = s.lib /\ s' = Finish(PlanningIs(s, FALSE), "go_on")
                       \/ s' = Unclaim(s))
    BY <1>3 DEF UsesPlanned, PlanningIs
  <2> QED
    BY <2>1, UsesPlannedFits
<1> QED
  BY <1>1, <1>2, <1>3

LEMMA BootStep ==
    ASSUME NEW n \in Nat, NEW l \in Nat, s \in State(n, l), Fits(s), DirectoryReady \/ EngineStarted
    PROVE  s' \in State(n, l) /\ Fits(s')
<1>1. CASE DirectoryReady
  BY <1>1, PlannedFits DEF DirectoryReady
<1>2. CASE EngineStarted
  <2>1. s.fin.at = "engine" /\ \E ok \in BOOLEAN : s' = Started(s, ok)
    BY <1>2 DEF EngineStarted
  <2> QED
    BY <2>1, StartedFits
<1> QED
  BY <1>1, <1>2

LEMMA ReopenStep ==
    ASSUME NEW n \in Nat, NEW l \in Nat, s \in State(n, l), Fits(s), NEW r \in Reviews, Reopen(r)
    PROVE  (s' \in State(n, l) \/ s' \in State(n + 1, l)) /\ Fits(s')
<1>1. CASE s.pv.parked /\ s.pv.shown /\ s' = ResumeAt(s, r)
  BY <1>1, ResumeAtFits
<1>2. CASE s' = [s EXCEPT !.main.want = @ \cup {r}]
  <2> DEFINE want == s.main.want \cup {r}
  <2>1. s' = WantMore(s, want)
    BY <1>2 DEF WantMore
  <2>2. want \in SUBSET Reviews
    BY DEF State
  <2> HIDE DEF want
  <2> QED
    BY <2>1, <2>2, WantFits
<1>3. CASE s.main.at = "gate" /\ s' = Analysed(ParkGate([s EXCEPT !.main.want = {r}], "checkup", Nobody), "found")
  <2>1. s' = Analysed(ParkGate(WantMore(s, {r}), "checkup", Nobody), "found")
    BY <1>3 DEF WantMore
  <2> QED
    BY <1>3, <2>1, GateReopens
<1>4. CASE /\ r = "proposals" /\ ~s.pv.parked /\ s.prep.on
           /\ s' = Push([s EXCEPT !.prep.reopened = TRUE,
                                  !.again = Append(@, [at |-> "reset", out |-> "none"])],
                        Again(Len(s.again) + 1))
  <2>1. s.card["preview"] = "open" \/ s.card["checkup"] = "open" \/ s.card["transfer"] = "open"
    BY <1>4 DEF Reopen, Reopenable
  <2> QED
    BY <1>4, <2>1, BesideReopens
<1> QED
  BY <1>1, <1>2, <1>3, <1>4 DEF Reopen

LEMMA Steps == PrepInv /\ [Next]_vars => PrepInv'
<1> SUFFICES ASSUME PrepInv, [Next]_vars PROVE PrepInv'
  OBVIOUS
<1>1. PICK n \in 0 .. reopens : s \in State(n, edits) /\ Fits(s)
  BY DEF PrepInv
<1>2. n \in Nat /\ edits \in Nat /\ edits \in 0 .. MaxEdits /\ reopens \in 0 .. MaxReopens
  BY DEF PrepInv
<1>3. ASSUME s' \in State(n, edits) /\ Fits(s'), UNCHANGED <<edits, reopens>>
      PROVE  PrepInv'
  BY <1>2, <1>3 DEF PrepInv
<1>4. CASE Written
  BY <1>1, <1>2, <1>3, <1>4, WrittenStep DEF Written
<1>5. CASE Parsed \/ Scanned \/ Landed \/ Checked
  BY <1>1, <1>2, <1>3, <1>5, ModelStep DEF Parsed, Scanned, Landed, Checked
<1>6. CASE RespondPreview \/ UsesPlanned \/ \E r \in Reviews : Respond(r)
  <2>1. s' \in State(n, edits) /\ Fits(s')
    BY <1>1, <1>2, <1>6, AnswerStep
  <2>2. UNCHANGED <<edits, reopens>>
    BY <1>6 DEF RespondPreview, UsesPlanned, Respond
  <2> QED
    BY <1>3, <2>1, <2>2
<1>7. CASE DirectoryReady \/ EngineStarted
  BY <1>1, <1>2, <1>3, <1>7, BootStep DEF DirectoryReady, EngineStarted
<1>8. ASSUME NEW r \in Reviews, Reopen(r)
      PROVE  PrepInv'
  <2>1. (s' \in State(n, edits) \/ s' \in State(n + 1, edits)) /\ Fits(s')
    BY <1>1, <1>2, <1>8, ReopenStep
  <2>2. reopens < MaxReopens /\ reopens' = reopens + 1 /\ edits' = edits
    BY <1>8 DEF Reopen
  <2>3. n \in 0 .. reopens' /\ n + 1 \in 0 .. reopens' /\ reopens' \in 0 .. MaxReopens
    BY <1>2, <2>2, BoundAssumption
  <2> QED
    BY <1>2, <2>1, <2>2, <2>3 DEF PrepInv
<1>9. CASE StopTurn
  <2>1. "booted" \notin s.outcome /\ s' = Stopped(s) /\ UNCHANGED <<edits, reopens>>
    BY <1>9 DEF StopTurn, Open
  <2>2. s' \in State(n, edits) /\ Fits(s')
    BY <1>1, <1>2, <2>1, StoppedFits
  <2> QED
    BY <1>3, <2>1, <2>2
<1>10. CASE Edit
  <2>1. edits < MaxEdits /\ edits' = edits + 1 /\ s' = [s EXCEPT !.lib = @ + 1] /\ reopens' = reopens
    BY <1>10 DEF Edit
  <2>2. s' \in State(n, edits + 1) /\ Fits(s')
    BY <1>1, <1>2, <2>1, EditedFits
  <2>3. edits' \in 0 .. MaxEdits
    BY <1>2, <2>1, BoundAssumption
  <2> QED
    BY <1>2, <2>1, <2>2, <2>3 DEF PrepInv
<1>11. CASE UNCHANGED vars
  BY <1>11 DEF vars, PrepInv
<1> QED
  BY <1>4, <1>5, <1>6, <1>7, <1>8, <1>9, <1>10, <1>11 DEF Next

\* Every coroutine of the preparation is where the others may expect it, whatever is
\* answered, stopped, opened again or edited in between.
THEOREM PrepInvariant == Spec => []PrepInv
<1> QED
  BY Initially, Steps, PTL DEF Spec

---------------------------------------------------------------------------
(* What follows *)

LEMMA SeqOfSome ==
    ASSUME NEW S, NEW R, NEW q \in Seq(S), \A i \in 1 .. Len(q) : q[i] \in R
    PROVE  q \in Seq(R)
<1>1. Len(q) \in Nat /\ q \in [1 .. Len(q) -> S]
  BY LenProperties
<1>2. q \in [1 .. Len(q) -> R]
  BY <1>1
<1> QED
  BY <1>1, <1>2, SeqDef

LEMMA OnlyOwnersWait ==
    ASSUME NEW n \in 0 .. MaxReopens, NEW l \in Nat, NEW c \in State(n, l), Fits(c)
    PROVE  /\ c.chain \in Seq(Owners \cup {Fin, Stopper})
           /\ c.gate \in [Reviews -> Owners]
<1>0. n \in Nat /\ n <= MaxReopens /\ Rounds(c) = 1 .. n
  BY BoundAssumption DEF State, Rounds
<1>1. ASSUME NEW w \in Who, w \notin {Fin, Stopper}, \A i \in Nat : w = Again(i) => i \in 1 .. n
      PROVE  w \in Owners
  <2>1. CASE w \in {P, T, Main, Nobody}
    BY <2>1 DEF Owners
  <2>2. CASE \E i \in Nat : w = Again(i)
    <3>1. PICK i \in Nat : w = Again(i)
      BY <2>2
    <3>2. i \in 1 .. MaxReopens
      BY <1>0, <1>1, <3>1, BoundAssumption
    <3> QED
      BY <3>1, <3>2 DEF Owners
  <2> QED
    BY <1>1, <2>1, <2>2, Names
<1>2. ASSUME NEW r \in Reviews
      PROVE  c.gate[r] \in Owners
  <2>1. c.gate[r] \in Who /\ c.gate[r] \notin {Fin, Stopper}
    BY DEF State, Fits, Core, Flows, OthersFit
  <2>2. \A i \in Nat : c.gate[r] = Again(i) => i \in 1 .. n
    BY <1>0 DEF Fits, Core, Flows, AgainFits
  <2> QED
    BY <1>1, <2>1, <2>2
<1>3. ASSUME NEW i \in 1 .. Len(c.chain)
      PROVE  c.chain[i] \in Owners \cup {Fin, Stopper}
  <2>1. c.chain[i] \in Who
    BY DEF State
  <2>2. Has(c, c.chain[i])
    BY DEF Has
  <2>3. \A j \in Nat : c.chain[i] = Again(j) => j \in 1 .. n
    BY <1>0, <2>2 DEF Fits, Core, Flows, AgainFits
  <2> QED
    BY <1>1, <2>1, <2>3
<1>4. c.chain \in Seq(Who) /\ c.gate \in [Reviews -> Who]
  BY DEF State
<1> QED
  BY <1>2, <1>3, <1>4, SeqOfSome

\* The types: whoever waits at a gate or for a write is a coroutine of the turn, however
\* often reviews are opened again, and no preview shows a view the library never had.
THEOREM PrepTyped == Spec => []TypeOK
<1>1. PrepInv => TypeOK
  <2> SUFFICES ASSUME PrepInv PROVE TypeOK
    OBVIOUS
  <2>1. PICK n \in 0 .. reopens : s \in State(n, edits) /\ Fits(s)
    BY DEF PrepInv
  <2>2. n \in 0 .. MaxReopens /\ edits \in Nat /\ edits <= MaxEdits /\ n \in Nat
    BY BoundAssumption DEF PrepInv
  <2>3. s.chain \in Seq(Owners \cup {Fin, Stopper}) /\ s.gate \in [Reviews -> Owners]
    BY <2>1, <2>2, OnlyOwnersWait
  <2>4. s.again \in [1 .. n -> AgainRecord]
    BY <2>1 DEF State
  <2>5. Len(s.again) = n
    BY <2>2, <2>4
  <2>6. /\ s.card \in [Reviews \cup {"preview"} -> Looks]
        /\ s.pv \in [parked : BOOLEAN, shown : BOOLEAN, view : 0 .. edits]
        /\ s.outcome \subseteq {"booted", "failed", "cancelled"} /\ s.lib = edits
    BY <2>1 DEF State
  <2>7. s.pv \in [parked : BOOLEAN, shown : BOOLEAN, view : 0 .. MaxEdits] /\ s.lib \in 0 .. MaxEdits
    BY <2>2, <2>6, BoundAssumption
  <2> QED
    BY <2>2, <2>3, <2>5, <2>6, <2>7, BoundAssumption DEF TypeOK
<1> QED
  BY <1>1, PrepInvariant, PTL

\* While a checkup waits for a user, a preview is parked or an engine starts, both
\* earlier reviews and every one opened again are done, and nobody waits at their gates.
THEOREM StagesKeepOrder == Spec => []StagesInOrder
<1>1. PrepInv => StagesInOrder
  <2> SUFFICES ASSUME PrepInv,
                      s.gate["checkup"] # Nobody \/ s.pv.parked \/ s.fin.at \in {"directory", "engine"}
               PROVE  /\ StagesDone(s)
                      /\ s.gate["proposals"] = Nobody /\ s.gate["transfer"] = Nobody
    BY DEF StagesInOrder, StagesDone, AgainDone, Rounds
  <2>1. PICK n \in 0 .. reopens : s \in State(n, edits) /\ Fits(s)
    BY DEF PrepInv
  <2>2. \A r \in Reviews : s.gate[r] \in {P, T, Main, Nobody} \/ \E i \in Nat : s.gate[r] = Again(i)
    BY <2>1, Names DEF State, Fits, Core, Flows, OthersFit
  <2>3. s.gate["checkup"] # Nobody => s.main.at = "gate"
    <3>1. s.gate["checkup"] \notin {P, T} /\ \A i \in Nat : s.gate["checkup"] # Again(i)
      BY <2>1 DEF Reviews, Fits, Core, Flows, PFits, TFits, AgainFits
    <3>2. s.gate["checkup"] = Main => s.main.at = "gate"
      BY <2>1 DEF Reviews, Fits, Core, Flows, MainFits
    <3> QED
      BY <2>2, <3>1, <3>2 DEF Reviews
  <2>4. s.main.at \in {"gate", "preview", "boot", "over"} /\ StagesDone(s)
    BY <2>1, <2>3 DEF Fits, Core, Staged, Owned, Idle, Late, Active
  <2>5. ASSUME NEW r \in {"proposals", "transfer"}
        PROVE  s.gate[r] = Nobody
    <3>1. s.gate[r] \notin {P, T}
      BY <2>1, <2>4 DEF Reviews, Fits, Core, Flows, PFits, TFits, StagesDone
    <3>2. s.gate[r] # Main
      BY <2>1, <2>4 DEF Reviews, Fits, Core, Flows, MainFits
    <3>3. \A i \in Nat : s.gate[r] # Again(i)
      BY <2>1, <2>4 DEF Reviews, Fits, Core, Flows, AgainFits, StagesDone, AgainDone
    <3> QED
      BY <2>2, <3>1, <3>2, <3>3 DEF Reviews
  <2> QED
    BY <2>4, <2>5
<1> QED
  BY <1>1, PrepInvariant, PTL

LEMMA AtMostOne ==
    ASSUME NEW S, \A x, y \in S : x = y
    PROVE  Cardinality(S) <= 1
<1>1. CASE S = {}
  BY <1>1, FS_EmptySet
<1>2. CASE S # {}
  <2>1. PICK x \in S : TRUE
    BY <1>2
  <2>2. S = {x}
    BY <2>1
  <2> QED
    BY <2>2, FS_Singleton
<1> QED
  BY <1>1, <1>2

\* The driver, a parked preview, a claimed answer and the boot exclude each other: of
\* the owners that could move the turn on to its engine there is never a second one.
THEOREM OnlyOneOwner == Spec => []OneOwner
<1>1. PrepInv => OneOwner
  <2> SUFFICES ASSUME PrepInv PROVE OneOwner
    OBVIOUS
  <2> DEFINE driver == s.main.at \notin {"preview", "boot", "over"}
             boots == s.fin.at \in {"decide", "dismiss", "directory", "engine", "failing", "failed"}
             owners == {o \in {"driver", "preview", "claim", "boot"} :
                           CASE o = "driver"  -> driver
                             [] o = "preview" -> s.pv.parked
                             [] o = "claim"   -> s.planning
                             [] o = "boot"    -> boots}
  <2>1. PICK n \in 0 .. reopens : s \in State(n, edits) /\ Fits(s)
    BY DEF PrepInv
  <2>2. /\ driver => ~s.pv.parked /\ ~s.planning /\ ~boots
        /\ s.pv.parked => ~s.planning /\ ~boots
        /\ s.planning => ~boots
    BY <2>1 DEF Fits, Core, Owned, Idle, Active
  <2>3. /\ "driver" \in owners => driver
        /\ "preview" \in owners => s.pv.parked
        /\ "claim" \in owners => s.planning
        /\ "boot" \in owners => boots
        /\ owners \subseteq {"driver", "preview", "claim", "boot"}
    OBVIOUS
  <2>4. Cardinality(owners) <= 1 => OneOwner
    BY DEF OneOwner
  <2> HIDE DEF owners, driver, boots
  <2>5. \A x, y \in owners : x = y
    BY <2>2, <2>3
  <2> QED
    BY <2>4, <2>5, AtMostOne
<1> QED
  BY <1>1, PrepInvariant, PTL

\* An engine that starts after an approval was planned with the view its preview showed,
\* however the library was edited while the answer was planned, written and booted.
THEOREM ShownIsBooted == Spec => []BootsWhatWasShown
<1>1. PrepInv => BootsWhatWasShown
  BY DEF PrepInv, Fits, Core, Approved, Active, BootsWhatWasShown
<1> QED
  BY <1>1, PrepInvariant, PTL

\* What was stopped, dismissed or failed is not booted as well, and what was booted was
\* not stopped before.
THEOREM EndedStaysUnbooted == Spec => []EndedNeverBoots
<1>1. PrepInv => EndedNeverBoots
  BY DEF PrepInv, Fits, EndFits, EndedNeverBoots
<1> QED
  BY <1>1, PrepInvariant, PTL

---------------------------------------------------------------------------
(* What a stop leaves behind *)

\* Nothing here needs the types: these are the fields of the turn, whatever they hold.
Shape(c) ==
    /\ DOMAIN c = {"chain", "p", "t", "main", "again", "prep", "gate", "pv", "claim", "planning", "fin", "held",
                   "stopped", "settled", "status", "flag", "waiting", "rec", "scope", "branches", "lib", "card",
                   "outcome"}
    /\ DOMAIN c.p = {"at", "out"}
    /\ DOMAIN c.t = {"at", "out", "base", "shell"}
    /\ DOMAIN c.main = {"at", "step", "out", "want", "xfer", "parent", "resumed"}
    /\ DOMAIN c.prep = {"on", "aborted", "reopened"}
    /\ DOMAIN c.pv = {"parked", "shown", "view"}
    /\ DOMAIN c.fin = {"at", "decision", "approved", "plan"}
    /\ DOMAIN c.gate = Reviews
    /\ c.t.shell \in {"none", "writing", "shown"}

\* Nothing of a turn that was stopped still computes, or it will see the stop.
Dying(c) ==
    /\ ~c.branches
    /\ c.p.at # "done" => c.prep.aborted \/ (c.flag /\ c.main.at = "over")
    /\ c.main.at = "result" /\ c.main.out = "found" => c.flag

\* What a stop has to know of a turn to find all that computes for it.
Ready(c) ==
    /\ c.p.at # "done" /\ ~c.prep.on => c.main.at = "over"
    /\ c.status = "starting" => c.main.at = "over" /\ c.p.at = "done" /\ c.t.at = "done"

\* The invariant of a stop.
Still(c) ==
    /\ Ready(c)
    /\ c.stopped => Dying(c) /\ c.t.at # "continue" /\ c.main.at # "work"

\* No gate of d is a fresh one, but of a review that was being opened again.
NotFresh(c, d) ==
    \A r \in Reviews : d.gate[r] # c.gate[r] =>
        d.gate[r] \notin {P, T} /\ (r = "checkup" => d.gate[r] = Nobody)

\* From c to d, a stop is not undone and not missed.
Calm(c, d) == Shape(d) /\ (Still(c) => Still(d) /\ (c.stopped => d.stopped /\ NotFresh(c, d)))

LEMMA CalmOn ==
    ASSUME NEW c, NEW d, NEW e, Calm(c, d), Calm(d, e)
    PROVE  Calm(c, e)
  BY DEF Calm, NotFresh

\* The same to a stop.
Same(c, d) ==
    /\ d.p = c.p /\ d.t = c.t /\ d.main = c.main /\ d.prep = c.prep /\ d.gate = c.gate /\ d.pv = c.pv
    /\ d.fin = c.fin /\ d.status = c.status /\ d.flag = c.flag /\ d.stopped = c.stopped
    /\ d.branches = c.branches

LEMMA SameIsCalm ==
    ASSUME NEW c, NEW d, Shape(d), Same(c, d)
    PROVE  Calm(c, d)
  BY DEF Calm, Same, Still, Ready, Dying, NotFresh

LEMMA PushSame ==
    ASSUME NEW c, Shape(c), NEW w
    PROVE  Shape(Push(c, w)) /\ Same(c, Push(c, w)) /\ Calm(c, Push(c, w))
<1>1. Shape(Push(c, w)) /\ Same(c, Push(c, w))
  BY DEF Shape, Push, Same
<1> QED
  BY <1>1, SameIsCalm

LEMMA RecordSame ==
    ASSUME NEW c, Shape(c)
    PROVE  Shape(Record(c)) /\ Same(c, Record(c))
<1> DEFINE e == [c EXCEPT !.rec = "interrupted"]
<1>1. Shape(e) /\ Same(c, e)
  BY DEF Shape, Same
<1>2. Record(c) = c \/ Record(c) = Push(e, Stopper)
  BY DEF Record
<1> HIDE DEF e
<1> QED
  BY <1>1, <1>2, PushSame DEF Same

\* The same, but that nothing starts any more.
Eased(c, d) ==
    /\ d.p = c.p /\ d.t = c.t /\ d.main = c.main /\ d.prep = c.prep /\ d.gate = c.gate /\ d.pv = c.pv
    /\ d.fin = c.fin /\ d.flag = c.flag /\ d.stopped = c.stopped /\ d.branches = c.branches
    /\ d.status = c.status \/ d.status = "none"

LEMMA EasedIsCalm ==
    ASSUME NEW c, NEW d, Shape(d), Eased(c, d)
    PROVE  Calm(c, d)
  BY DEF Calm, Eased, Still, Ready, Dying, NotFresh

LEMMA SettleEases ==
    ASSUME NEW c, Shape(c)
    PROVE  Shape(Settle(c)) /\ Eased(c, Settle(c))
  BY DEF Shape, Settle, Eased

LEMMA ShowSame ==
    ASSUME NEW c, Shape(c), NEW r, NEW look
    PROVE  Shape(Show(c, r, look)) /\ Same(c, Show(c, r, look))
  BY DEF Shape, Show, Same

LEMMA DecisionSame ==
    ASSUME NEW c, Shape(c), NEW r, NEW d
    PROVE  Shape(ShowDecision(c, r, d)) /\ Same(c, ShowDecision(c, r, d))
  BY ShowSame DEF ShowDecision

LEMMA ResetSame ==
    ASSUME NEW c, Shape(c), NEW from
    PROVE  Shape(ShowReset(c, from)) /\ Same(c, ShowReset(c, from))
<1> DEFINE m == [r \in DOMAIN c.card |->
                   CASE r = "preview" /\ c.card[r] # "none"                        -> "waiting"
                     [] r = "checkup" /\ c.card[r] # "none" /\ from # "checkup"   -> "waiting"
                     [] r = from                                                  -> "open"
                     [] OTHER                                                     -> c.card[r]]
<1>1. ShowReset(c, from) = [c EXCEPT !.card = m]
  BY DEF ShowReset
<1> HIDE DEF m
<1> QED
  BY <1>1 DEF Shape, Same

LEMMA SettlePreparationCalm ==
    ASSUME NEW c, Shape(c), c.main.at = "over" \/ c.p.at = "done"
    PROVE  /\ Calm(c, SettlePreparation(c)) /\ SettlePreparation(c).main = c.main
           /\ SettlePreparation(c).p = c.p
<1> DEFINE off == [c EXCEPT !.prep.on = FALSE, !.waiting = FALSE]
<1>1. Shape(off) /\ Calm(c, off) /\ off.main = c.main /\ off.p = c.p
  BY DEF Shape, Calm, Still, Ready, Dying, NotFresh
<1>2. SettlePreparation(c) = off \/ SettlePreparation(c) = Record(off)
  BY DEF SettlePreparation
<1> HIDE DEF off
<1>3. Shape(Record(off)) /\ Same(off, Record(off)) /\ Calm(off, Record(off))
  BY <1>1, RecordSame, SameIsCalm
<1> QED
  BY <1>1, <1>2, <1>3, CalmOn DEF Same

LEMMA OverCalm ==
    ASSUME NEW c, Shape(c), c.main.at # "over"
    PROVE  Calm(c, Over(c))
<1> DEFINE out == [c EXCEPT !.main.at = "over"]
           later == Settle(out)
           b == out.flag /\ ~c.held
           e == [out EXCEPT !.flag = b]
           prep == SettlePreparation(e)
           first == Settle(prep)
           bb == first.branches /\ c.pv.parked
<1>1. Over(c) = IF c.main.resumed THEN [later EXCEPT !.flag = @ /\ ~later.held]
                ELSE [first EXCEPT !.branches = bb]
  BY DEF Over
<1>2. Shape(out) /\ out = [c EXCEPT !.main = out.main] /\ out.main.at = "over"
  BY DEF Shape
<1> HIDE DEF out
<1>3. CASE c.main.resumed
  <2>1. Shape(later) /\ Eased(out, later)
    BY <1>2, SettleEases
  <2> DEFINE d == [later EXCEPT !.flag = @ /\ ~later.held]
  <2> HIDE DEF later
  <2>2. Shape(d) /\ Calm(c, d)
    BY <1>2, <2>1 DEF Shape, Eased, Calm, Still, Ready, Dying, NotFresh
  <2> QED
    BY <1>1, <1>3, <2>2
<1>4. CASE ~c.main.resumed
  <2>1. Shape(e) /\ Calm(c, e) /\ e.main.at = "over"
    BY <1>2 DEF Shape, Calm, Still, Ready, Dying, NotFresh
  <2> HIDE DEF e
  <2>2. Calm(e, prep)
    BY <2>1, SettlePreparationCalm
  <2> HIDE DEF prep
  <2>3. Shape(first) /\ Calm(prep, first)
    BY <2>2, SettleEases, EasedIsCalm DEF Calm
  <2> HIDE DEF first
  <2> DEFINE d == [first EXCEPT !.branches = bb]
  <2>4. Calm(first, d)
    BY <2>3 DEF Shape, Calm, Still, Ready, Dying, NotFresh
  <2> QED
    BY <1>1, <1>4, <2>1, <2>2, <2>3, <2>4, CalmOn
<1> QED
  BY <1>3, <1>4

AtEnd == {"over", "result"}

LEMMA MainFailsCalm ==
    ASSUME NEW c, Shape(c), c.main.at \notin AtEnd
    PROVE  Calm(c, MainFails(c))
<1> DEFINE e == [c EXCEPT !.flag = FALSE, !.pv.parked = FALSE]
           f == [c EXCEPT !.main.at = "failing", !.pv.parked = @ /\ c.main.resumed]
<1>1. MainFails(c) = Over(e) \/ MainFails(c) = Push(f, Main)
  BY DEF MainFails
<1>2. Shape(e) /\ Calm(c, e) /\ e.main = c.main
  BY DEF Shape, Calm, Still, Ready, Dying, NotFresh, AtEnd
<1>3. Shape(f) /\ Calm(c, f)
  BY DEF Shape, Calm, Still, Ready, Dying, NotFresh, AtEnd
<1> HIDE DEF e, f
<1>4. Calm(e, Over(e)) /\ Calm(f, Push(f, Main))
  BY <1>2, <1>3, OverCalm, PushSame DEF AtEnd
<1> QED
  BY <1>1, <1>2, <1>3, <1>4, CalmOn

\* The driver alone moved, or a gate is gone.
Moves(b, c) ==
    /\ c.p = b.p /\ c.t = b.t /\ c.prep = b.prep /\ c.status = b.status /\ c.stopped = b.stopped
    /\ c.branches = b.branches /\ \A r \in Reviews : c.gate[r] = b.gate[r] \/ c.gate[r] = Nobody

LEMMA MovesCalm ==
    ASSUME NEW b, NEW c, Shape(c), Moves(b, c), b.main.at # "over",
           c.main.at = "work" => b.branches \/ b.main.at = "work",
           c.main.at = "result" /\ c.main.out = "found" => c.flag \/ b.main.at = "work"
    PROVE  Calm(b, c)
<1>1. NotFresh(b, c)
  BY DEF Moves, NotFresh, Nobody, P, T
<1>2. ASSUME Still(b) PROVE Still(c)
  BY <1>2 DEF Moves, Still, Ready, Dying
<1> QED
  BY <1>1, <1>2 DEF Calm, Moves

\* The checkup of a turn that was stopped finds nothing.
LEMMA AnalysedCalm ==
    ASSUME NEW b, NEW c, Shape(c), Moves(b, c), b.main.at # "over", NEW found,
           found = "found" => c.main.want # {} \/ b.main.at = "work"
    PROVE  Calm(b, Analysed(c, found))
<1>1. CASE c.main.want # {}
  <2>1. PICK r : Analysed(c, found) =
                   Push([c EXCEPT !.main.at = "reset", !.main.step = r, !.main.want = {}], Main)
    BY <1>1 DEF Analysed
  <2> DEFINE e == [c EXCEPT !.main.at = "reset", !.main.step = r, !.main.want = {}]
  <2>2. Shape(e) /\ Moves(b, e) /\ e.main.at = "reset"
    BY DEF Shape, Moves
  <2>3. Analysed(c, found) = Push(e, Main)
    BY <2>1
  <2> HIDE DEF e
  <2> QED
    BY <2>2, <2>3, MovesCalm, PushSame, CalmOn
<1>2. CASE c.main.want = {}
  <2> DEFINE o == IF c.flag THEN "cancelled" ELSE found
             e == [c EXCEPT !.main.at = "result", !.flag = FALSE, !.main.out = o]
  <2>1. Analysed(c, found) = Push(e, Main)
    BY <1>2 DEF Analysed
  <2>2. Shape(e) /\ Moves(b, e) /\ (e.main.at = "result" /\ e.main.out = o)
    BY DEF Shape, Moves
  <2> HIDE DEF e
  <2>3. Calm(b, e)
    BY <1>2, <2>2, MovesCalm
  <2> QED
    BY <2>1, <2>2, <2>3, PushSame, CalmOn
<1> QED
  BY <1>1, <1>2

LEMMA AnalyseCalm ==
    ASSUME NEW c, Shape(c), c.main.at # "over"
    PROVE  Calm(c, Analyse(c))
<1> DEFINE work == [c EXCEPT !.main.at = "work", !.main.parent = TRUE]
<1>1. Analyse(c) = IF c.branches THEN work ELSE Analysed(work, "failed")
  BY DEF Analyse
<1>2. Shape(work) /\ Moves(c, work) /\ (c.branches => Calm(c, work))
  BY DEF Shape, Moves, Calm, Still, Ready, Dying, NotFresh
<1> HIDE DEF work
<1> QED
  BY <1>1, <1>2, AnalysedCalm

LEMMA CheckupCalm ==
    ASSUME NEW c, Shape(c), c.main.at # "over"
    PROVE  Calm(c, Checkup(c))
<1> DEFINE e == [c EXCEPT !.main.at = "skeleton"]
<1>1. Checkup(c) = Analyse(c) \/ Checkup(c) = Push(e, Main)
  BY DEF Checkup
<1>2. Shape(e) /\ Calm(c, e)
  BY DEF Shape, Calm, Still, Ready, Dying, NotFresh
<1> HIDE DEF e
<1> QED
  BY <1>1, <1>2, AnalyseCalm, PushSame, CalmOn

LEMMA LeavePreparationCalm ==
    ASSUME NEW c, Shape(c), c.main.at # "over", c.p.at = "done"
    PROVE  Calm(c, LeavePreparation(c))
<1> DEFINE d == SettlePreparation(c)
<1>1. Calm(c, d) /\ d.main = c.main
  BY SettlePreparationCalm
<1> HIDE DEF d
<1>2. Calm(d, Checkup(d))
  BY <1>1, CheckupCalm DEF Calm
<1> QED
  BY <1>1, <1>2, CalmOn DEF LeavePreparation, d

\* A result that is found in a turn that was stopped is not parked.
LEMMA ResultWrittenCalm ==
    ASSUME NEW c, Shape(c), c.main.at = "result"
    PROVE  Calm(c, ResultWritten(c))
<1> DEFINE clear == [c EXCEPT !.flag = FALSE]
           seen == Show(clear, "checkup", "open")
           out == IF c.flag THEN "cancelled" ELSE c.main.out
           gate == [seen EXCEPT !.main.at = "gate"]
           parked == ParkGate(gate, "checkup", Main)
           decided == [seen EXCEPT !.main.at = "decide", !.main.out = out]
<1>0. P # Main /\ T # Main
  BY DEF P, T, Main
<1>1. Shape(clear) /\ Moves(c, clear) /\ clear.main = c.main
  BY DEF Shape, Moves
<1>2. ResultWritten(c) =
        CASE c.main.want # {} -> Analysed(seen, out)
          [] c.main.want = {} /\ out = "found" -> parked
          [] OTHER -> Push(decided, Main)
  BY DEF ResultWritten
<1> HIDE DEF clear
<1>3. Shape(seen) /\ Moves(c, seen) /\ seen.main = c.main
  BY <1>1, ShowSame DEF Same, Moves
<1> HIDE DEF seen
<1>4. CASE c.main.want # {}
  BY <1>2, <1>3, <1>4, AnalysedCalm
<1>5. CASE c.main.want = {} /\ out = "found"
  <2>1. Calm(c, parked)
    BY <1>0, <1>3, <1>5 DEF ParkGate, Shape, Moves, Calm, Still, Ready, Dying, NotFresh, Reviews
  <2> QED
    BY <1>2, <1>5, <2>1
<1>6. CASE c.main.want = {} /\ out # "found"
  <2>1. Shape(decided) /\ Moves(c, decided) /\ decided.main.at = "decide"
    BY <1>3 DEF Shape, Moves
  <2> HIDE DEF decided
  <2> QED
    BY <1>2, <1>6, <2>1, MovesCalm, PushSame, CalmOn
<1> QED
  BY <1>4, <1>5, <1>6

LEMMA PreviewCalm ==
    ASSUME NEW c, Shape(c), c.main.at # "over", NEW empty
    PROVE  Calm(c, Preview(c, empty))
<1> DEFINE e == [c EXCEPT !.main.at = "receipt"]
           f == [c EXCEPT !.main.at = "preview", !.pv = [parked |-> TRUE, shown |-> FALSE, view |-> c.lib]]
<1>1. Preview(c, empty) = Push(e, Main) \/ Preview(c, empty) = Push(f, Main)
  BY DEF Preview
<1>2. Shape(e) /\ Moves(c, e) /\ e.main.at = "receipt"
  BY DEF Shape, Moves
<1>3. Shape(f) /\ Moves(c, f) /\ f.main.at = "preview"
  BY DEF Shape, Moves
<1> HIDE DEF e, f
<1> QED
  BY <1>1, <1>2, <1>3, MovesCalm, PushSame, CalmOn

LEMMA PreviewWrittenCalm ==
    ASSUME NEW c, Shape(c), c.main.at \notin AtEnd \cup {"work"}
    PROVE  Calm(c, PreviewWritten(c))
<1> DEFINE seen == Show(c, "preview", "open")
           e == [seen EXCEPT !.flag = FALSE, !.pv.parked = FALSE]
           f == [seen EXCEPT !.pv.shown = c.pv.parked]
<1>1. PreviewWritten(c) = Over(e) \/ PreviewWritten(c) = Over(f)
  BY DEF PreviewWritten
<1>2. Shape(seen) /\ Same(c, seen)
  BY ShowSame
<1> HIDE DEF seen
<1>3. Shape(e) /\ Moves(c, e) /\ e.main = c.main
  BY <1>2 DEF Shape, Same, Moves
<1>4. Shape(f) /\ Moves(c, f) /\ f.main = c.main
  BY <1>2 DEF Shape, Same, Moves
<1> HIDE DEF e, f
<1> QED
  BY <1>1, <1>3, <1>4, MovesCalm, OverCalm, CalmOn DEF AtEnd

LEMMA ReceiptWrittenCalm ==
    ASSUME NEW c, Shape(c), c.main.at \notin AtEnd \cup {"work"}
    PROVE  Calm(c, ReceiptWritten(c))
<1> DEFINE seen == Show(c, "preview", "open")
           e == [seen EXCEPT !.flag = FALSE]
           f == [seen EXCEPT !.main.at = "auto"]
<1>1. ReceiptWritten(c) = Over(e) \/ ReceiptWritten(c) = Push(f, Main)
  BY DEF ReceiptWritten
<1>2. Shape(seen) /\ Same(c, seen)
  BY ShowSame
<1> HIDE DEF seen
<1>3. Shape(e) /\ Moves(c, e) /\ e.main = c.main
  BY <1>2 DEF Shape, Same, Moves
<1>4. Shape(f) /\ Moves(c, f) /\ f.main.at = "auto"
  BY <1>2 DEF Shape, Same, Moves
<1> HIDE DEF e, f
<1> QED
  BY <1>1, <1>3, <1>4, MovesCalm, OverCalm, PushSame, CalmOn DEF AtEnd

LEMMA CheckupDecidedCalm ==
    ASSUME NEW c, Shape(c), c.main.at \notin AtEnd, NEW empty
    PROVE  Calm(c, CheckupDecided(c, empty))
<1> DEFINE seen == ShowDecision(c, "checkup", c.main.out)
<1>1. Shape(seen) /\ Same(c, seen)
  BY DecisionSame
<1>2. \/ CheckupDecided(c, empty) = Over(seen) \/ CheckupDecided(c, empty) = MainFails(seen)
      \/ CheckupDecided(c, empty) = Preview(seen, empty)
  BY DEF CheckupDecided
<1> HIDE DEF seen
<1>3. Calm(c, seen) /\ seen.main = c.main
  BY <1>1, SameIsCalm DEF Same
<1> QED
  BY <1>1, <1>2, <1>3, OverCalm, MainFailsCalm, PreviewCalm, CalmOn DEF AtEnd

\* T does not go on in a turn that was stopped.
LEMMA RefreshCalm ==
    ASSUME NEW c, Shape(c), c.main.at # "over", NEW at \in {"refresh", "rework"}
    PROVE  Calm(c, Refresh(c, at))
<1> DEFINE shell == IF c.card["transfer"] = "none" THEN "none" ELSE "shown"
           begun == [c EXCEPT !.main.at = at,
                              !.t = [at |-> "task", out |-> "none", base |-> 0, shell |-> shell]]
           o == IF StopSeen(begun) THEN "cancelled" ELSE "failed"
           ended == [begun EXCEPT !.t.at = "done", !.t.out = o]
           settling == [ended EXCEPT !.t.at = "settle"]
           writing == [begun EXCEPT !.t.at = "shell", !.t.shell = "writing"]
           landing == [begun EXCEPT !.t.at = "continue"]
<1>1. \/ Refresh(c, at) = Over(ended) \/ Refresh(c, at) = Push(settling, T)
      \/ Refresh(c, at) = Push(writing, T)
      \/ c.branches /\ Refresh(c, at) = landing
      \/ Refresh(c, at) = MainFails(ended)
  BY DEF Refresh
<1>2. Shape(begun) /\ Calm(c, begun) /\ begun.branches = c.branches /\ begun.main.at = at
  BY DEF Shape, Calm, Still, Ready, Dying, NotFresh
<1> HIDE DEF begun
<1>3. /\ Shape(ended) /\ Calm(begun, ended) /\ ended.main.at = at
      /\ Shape(settling) /\ Calm(begun, settling)
      /\ Shape(writing) /\ Calm(begun, writing)
  BY <1>2 DEF Shape, Calm, Still, Ready, Dying, NotFresh
<1>4. c.branches => Calm(begun, landing)
  BY <1>2 DEF Shape, Calm, Still, Ready, Dying, NotFresh
<1> HIDE DEF ended, settling, writing, landing
<1>5. /\ Calm(ended, Over(ended)) /\ Calm(ended, MainFails(ended))
      /\ Calm(settling, Push(settling, T)) /\ Calm(writing, Push(writing, T))
  BY <1>3, OverCalm, MainFailsCalm, PushSame DEF AtEnd
<1> QED
  BY <1>1, <1>2, <1>3, <1>4, <1>5, CalmOn

LEMMA AwaitReparksCalm ==
    ASSUME NEW c, Shape(c), c.main.at # "over", c.p.at = "done"
    PROVE  Calm(c, AwaitReparks(c))
<1> DEFINE e == [c EXCEPT !.main.at = "repark"]
<1>1. \/ AwaitReparks(c) = Over(c) \/ AwaitReparks(c) = e
      \/ AwaitReparks(c) = Refresh(c, "refresh") \/ AwaitReparks(c) = LeavePreparation(c)
  BY DEF AwaitReparks
<1>2. Shape(e) /\ Moves(c, e) /\ e.main.at = "repark"
  BY DEF Shape, Moves
<1> HIDE DEF e
<1> QED
  BY <1>1, <1>2, MovesCalm, OverCalm, RefreshCalm, LeavePreparationCalm

LEMMA StagesEndCalm ==
    ASSUME NEW c, Shape(c)
    PROVE  Calm(c, StagesEnd(c))
<1> DEFINE e == [c EXCEPT !.main.xfer = c.t.out = "handled"]
<1>1. \/ StagesEnd(c) = c
      \/ c.main.at = "stages" /\ StagesEnd(c) = MainFails(c)
      \/ c.main.at = "stages" /\ c.p.at = "done" /\ StagesEnd(c) \in {Over(c), AwaitReparks(e)}
  BY DEF StagesEnd
<1>2. Shape(e) /\ Moves(c, e) /\ e.main.at = c.main.at /\ e.p = c.p
  BY DEF Shape, Moves
<1> HIDE DEF e
<1>3. Calm(c, c)
  BY DEF Calm, NotFresh
<1> QED
  BY <1>1, <1>2, <1>3, MovesCalm, OverCalm, MainFailsCalm, AwaitReparksCalm, CalmOn DEF AtEnd

LEMMA TEndsCalm ==
    ASSUME NEW c, Shape(c), c.main.at = "refresh" => c.p.at = "done", NEW out
    PROVE  LET done == [c EXCEPT !.t.at = "done", !.t.out = out]
           IN  /\ Shape(done) /\ done.t.at = "done" /\ done.main = c.main /\ Calm(c, done)
               /\ Calm(done, TDone(c, out))
<1> DEFINE done == [c EXCEPT !.t.at = "done", !.t.out = out]
           e == [done EXCEPT !.main.at = "rescan"]
<1>1. \/ TDone(c, out) = StagesEnd(done)
      \/ /\ c.main.at \in {"refresh", "rework"}
         /\ TDone(c, out) \in {Over(done), MainFails(done), Push(e, Main)}
      \/ c.main.at = "refresh" /\ TDone(c, out) = LeavePreparation(done)
  BY DEF TDone
<1>2. Shape(done) /\ Calm(c, done) /\ done.main = c.main /\ done.p = c.p /\ done.t.at = "done"
  BY DEF Shape, Calm, Still, Ready, Dying, NotFresh
<1> SUFFICES Calm(done, TDone(c, out))
  BY <1>2
<1> HIDE DEF done
<1>3. Shape(e) /\ Moves(done, e) /\ e.main.at = "rescan"
  BY <1>2 DEF Shape, Moves
<1> HIDE DEF e
<1>4. CASE TDone(c, out) = StagesEnd(done)
  BY <1>2, <1>4, StagesEndCalm
<1>5. CASE c.main.at = "refresh" /\ TDone(c, out) = LeavePreparation(done)
  BY <1>2, <1>5, LeavePreparationCalm
<1>6. CASE /\ c.main.at \in {"refresh", "rework"}
           /\ TDone(c, out) \in {Over(done), MainFails(done), Push(e, Main)}
  <2>1. Calm(done, Over(done)) /\ Calm(done, MainFails(done))
    BY <1>2, <1>6, OverCalm, MainFailsCalm DEF AtEnd
  <2>2. Calm(done, e) /\ Calm(e, Push(e, Main))
    BY <1>2, <1>3, <1>6, MovesCalm, PushSame
  <2> QED
    BY <1>6, <2>1, <2>2, CalmOn
<1> QED
  BY <1>1, <1>4, <1>5, <1>6

LEMMA TDoneCalm ==
    ASSUME NEW c, Shape(c), c.main.at = "refresh" => c.p.at = "done", NEW out
    PROVE  Calm(c, TDone(c, out))
  BY TEndsCalm, CalmOn

LEMMA TSettleCalm ==
    ASSUME NEW c, Shape(c), c.main.at = "refresh" => c.p.at = "done", c.t.at # "done", NEW out
    PROVE  Calm(c, TSettle(c, out))
<1> DEFINE e == [c EXCEPT !.t.at = "settle", !.t.out = out]
<1>1. TSettle(c, out) = TDone(c, out) \/ TSettle(c, out) = Push(e, T) \/ TSettle(c, out) = e
  BY DEF TSettle, Shape
<1>2. Shape(e) /\ Calm(c, e)
  BY DEF Shape, Calm, Still, Ready, Dying, NotFresh
<1> HIDE DEF e
<1> QED
  BY <1>1, <1>2, TDoneCalm, PushSame, CalmOn

LEMMA TMaterialiseCalm ==
    ASSUME NEW c, Shape(c), c.main.at = "refresh" => c.p.at = "done", c.t.at # "done"
    PROVE  Calm(c, TMaterialise(c))
<1> DEFINE e == [c EXCEPT !.t.at = "continue"]
<1>1. \/ TMaterialise(c) = TSettle(c, "cancelled") \/ TMaterialise(c) = TDone(c, "failed")
      \/ c.branches /\ TMaterialise(c) = e
  BY DEF TMaterialise
<1>2. c.branches => Calm(c, e)
  BY DEF Shape, Calm, Still, Ready, Dying, NotFresh
<1> HIDE DEF e
<1> QED
  BY <1>1, <1>2, TDoneCalm, TSettleCalm

LEMMA TAfterStepOneCalm ==
    ASSUME NEW c, Shape(c), c.main.at = "refresh" => c.p.at = "done", c.t.at # "done"
    PROVE  Calm(c, TAfterStepOne(c))
<1> DEFINE e == [c EXCEPT !.t.at = "shell"]
<1>1. TAfterStepOne(c) = TMaterialise(c) \/ TAfterStepOne(c) = e
  BY DEF TAfterStepOne
<1>2. Calm(c, e)
  BY DEF Shape, Calm, Still, Ready, Dying, NotFresh
<1> HIDE DEF e
<1> QED
  BY <1>1, <1>2, TMaterialiseCalm

\* What still lands parks its cards, but not after a stop.
LEMMA TLandedCalm ==
    ASSUME NEW c, Shape(c), c.main.at = "refresh" => c.p.at = "done", c.t.at = "continue", NEW found
    PROVE  Calm(c, TLanded(c, found))
<1> DEFINE e == [c EXCEPT !.t.at = "card", !.t.base = c.lib]
           f == ParkGate(e, "transfer", T)
<1>1. TLanded(c, found) = Push(f, T) \/ TLanded(c, found) = TSettle(c, "none")
  BY DEF TLanded
<1>2. Shape(f) /\ Calm(c, f)
  BY DEF ParkGate, Shape, Calm, Still, Ready, Dying, NotFresh
<1> HIDE DEF f
<1> QED
  BY <1>1, <1>2, PushSame, TSettleCalm, CalmOn

LEMMA TCardWrittenCalm ==
    ASSUME NEW c, Shape(c), c.main.at = "refresh" => c.p.at = "done", c.t.at = "card"
    PROVE  Calm(c, TCardWritten(c))
<1> DEFINE parked == ParkGate(c, "transfer", Nobody)
           free == IF c.gate["transfer"] = T THEN parked ELSE c
           shown == Show(c, "transfer", "open")
           seen == IF c.card["transfer"] = "none" THEN shown ELSE c
           e == [seen EXCEPT !.t.at = "gate", !.t.shell = "shown"]
<1>1. \/ TCardWritten(c) = TSettle(free, "cancelled") \/ TCardWritten(c) = TSettle(free, "none")
      \/ TCardWritten(c) = e
  BY DEF TCardWritten
<1>2. Shape(parked) /\ Moves(c, parked) /\ parked.main = c.main /\ parked.flag = c.flag
  BY DEF Shape, ParkGate, Moves, Reviews
<1>3. NotFresh(c, parked)
  BY <1>2 DEF NotFresh, Moves, Nobody, P, T
<1>4. Calm(c, parked)
  BY <1>2, <1>3 DEF Moves, Calm, Still, Ready, Dying
<1> HIDE DEF parked
<1>5. Shape(free) /\ Calm(c, free) /\ free.main = c.main /\ free.p = c.p /\ free.t = c.t
  BY <1>2, <1>4 DEF Moves, Calm, NotFresh
<1>6. Shape(shown) /\ Same(c, shown)
  BY ShowSame
<1> HIDE DEF free, shown
<1>7. Shape(seen) /\ Same(c, seen)
  BY <1>6 DEF Same
<1> HIDE DEF seen
<1>8. Calm(c, e)
  BY <1>7 DEF Shape, Same, Calm, Still, Ready, Dying, NotFresh
<1> HIDE DEF e
<1> QED
  BY <1>1, <1>5, <1>8, TSettleCalm, CalmOn

LEMMA TWrittenCalm ==
    ASSUME NEW c, Shape(c), c.main.at = "refresh" => c.p.at = "done",
           c.t.shell = "writing" => c.t.at # "done",
           c.t.shell = "writing" \/ c.t.at \in {"card", "settle", "decide"}
    PROVE  Calm(c, TWritten(c))
<1> DEFINE on == [c EXCEPT !.t.shell = "shown"]
           seen == Show(on, "transfer", "open")
           e == [c EXCEPT !.t.at = "decide"]
           f == ShowDecision(c, "transfer", c.t.out)
<1>1. \/ c.t.shell = "writing" /\ TWritten(c) \in {Push(seen, T), TMaterialise(seen), seen}
      \/ c.t.at = "card" /\ TWritten(c) = TCardWritten(c)
      \/ c.t.at = "settle" /\ TWritten(c) = Push(e, T)
      \/ TWritten(c) = TDone(f, c.t.out)
  BY DEF TWritten
<1>2. Shape(on) /\ Calm(c, on) /\ on.main = c.main /\ on.p = c.p /\ on.t.at = c.t.at
  BY DEF Shape, Calm, Still, Ready, Dying, NotFresh
<1> HIDE DEF on
<1>3. Shape(seen) /\ Same(on, seen)
  BY <1>2, ShowSame
<1> HIDE DEF seen
<1>4. Calm(c, seen) /\ seen.main = c.main /\ seen.p = c.p /\ seen.t.at = c.t.at
  BY <1>2, <1>3, SameIsCalm, CalmOn DEF Same
<1>5. c.t.at = "settle" => Shape(e) /\ Calm(c, e)
  BY DEF Shape, Calm, Still, Ready, Dying, NotFresh
<1>6. Shape(f) /\ Same(c, f)
  BY DecisionSame
<1> HIDE DEF e, f
<1>7. Calm(c, f) /\ f.main = c.main /\ f.p = c.p
  BY <1>6, SameIsCalm DEF Same
<1>8. Calm(f, TDone(f, c.t.out))
  BY <1>6, <1>7, TDoneCalm
<1>9. c.t.shell = "writing" => Calm(seen, TMaterialise(seen)) /\ Calm(seen, Push(seen, T))
  BY <1>3, <1>4, TMaterialiseCalm, PushSame
<1> QED
  BY <1>1, <1>4, <1>5, <1>7, <1>8, <1>9, TCardWrittenCalm, PushSame, CalmOn

---------------------------------------------------------------------------
(* Step 1 and T, after a stop *)

LEMMA StepOneSettledCalm ==
    ASSUME NEW c, Shape(c), c.main.at = "refresh" => c.p.at = "done"
    PROVE  Calm(c, StepOneSettled(c))
<1> DEFINE e == [c EXCEPT !.t.shell = "writing"]
<1>1. \/ StepOneSettled(c) = Push(e, T) \/ StepOneSettled(c) = c
      \/ c.t.at = "stepone" /\ StepOneSettled(c) = TAfterStepOne(c)
  BY DEF StepOneSettled
<1>2. Shape(e) /\ Calm(c, e)
  BY DEF Shape, Calm, Still, Ready, Dying, NotFresh
<1> HIDE DEF e
<1>3. Calm(c, c)
  BY DEF Calm, NotFresh
<1> QED
  BY <1>1, <1>2, <1>3, TAfterStepOneCalm, PushSame, CalmOn

LEMMA PDoneCalm ==
    ASSUME NEW c, Shape(c), NEW out
    PROVE  Calm(c, PDone(c, out))
<1> DEFINE e == [c EXCEPT !.p.at = "done", !.p.out = out]
           f == StepOneSettled(e)
<1>1. PDone(c, out) = StagesEnd(f)
  BY DEF PDone
<1>2. Shape(e) /\ Calm(c, e) /\ e.p.at = "done"
  BY DEF Shape, Calm, Still, Ready, Dying, NotFresh
<1> HIDE DEF e
<1>3. Calm(e, f)
  BY <1>2, StepOneSettledCalm
<1> HIDE DEF f
<1>4. Calm(f, StagesEnd(f))
  BY <1>3, StagesEndCalm DEF Calm
<1> QED
  BY <1>1, <1>2, <1>3, <1>4, CalmOn

\* A parse that ends after a stop sees it.
LEMMA PWrittenCalm ==
    ASSUME NEW c, Shape(c), c.main.at # "rework", c.p.at \in {"shell", "result", "decide"}, NEW found
    PROVE  Calm(c, PWritten(c, found))
<1> DEFINE seen == Show(c, "proposals", "open")
           e == [seen EXCEPT !.p.at = "result"]
           f == [seen EXCEPT !.p.at = "parse"]
           at == [c EXCEPT !.p.at = "gate"]
           g == ParkGate(at, "proposals", P)
           o == IF StopSeen(c) THEN "cancelled" ELSE "none"
           h == [c EXCEPT !.p.at = "decide", !.p.out = o]
           i == ShowDecision(c, "proposals", c.p.out)
<1>1. \/ PWritten(c, found) \in {Push(e, P), f}
      \/ c.p.at = "result" /\ ~StopSeen(c) /\ PWritten(c, found) = g
      \/ c.p.at = "result" /\ PWritten(c, found) = Push(h, P)
      \/ PWritten(c, found) = PDone(i, c.p.out)
  BY DEF PWritten
<1>2. Shape(seen) /\ Same(c, seen)
  BY ShowSame
<1> HIDE DEF seen
<1>3. Shape(e) /\ Calm(c, e) /\ Shape(f) /\ Calm(c, f)
  BY <1>2 DEF Shape, Same, Calm, Still, Ready, Dying, NotFresh
<1>4. ~StopSeen(c) => Calm(c, g)
  BY DEF ParkGate, StopSeen, Shape, Calm, Still, Ready, Dying, NotFresh
<1>5. Shape(h) /\ Calm(c, h)
  BY DEF Shape, Calm, Still, Ready, Dying, NotFresh
<1>6. Shape(i) /\ Calm(c, i)
  BY DecisionSame, SameIsCalm
<1> HIDE DEF e, f, g, h, i
<1>7. Calm(e, Push(e, P)) /\ Calm(h, Push(h, P)) /\ Calm(i, PDone(i, c.p.out))
  BY <1>3, <1>5, <1>6, PushSame, PDoneCalm
<1> QED
  BY <1>1, <1>3, <1>4, <1>5, <1>6, <1>7, CalmOn

LEMMA ParsedCalm ==
    ASSUME NEW c, Shape(c), c.p.at = "parse", NEW d \in {Push([c EXCEPT !.p.at = "result"], P), PDone(c, "failed")}
    PROVE  Calm(c, d)
<1> DEFINE e == [c EXCEPT !.p.at = "result"]
<1>1. Shape(e) /\ Calm(c, e)
  BY DEF Shape, Calm, Still, Ready, Dying, NotFresh
<1>2. d = Push(e, P) \/ d = PDone(c, "failed")
  OBVIOUS
<1> HIDE DEF e
<1> QED
  BY <1>1, <1>2, PushSame, PDoneCalm, CalmOn

\* A review that was being opened again is parked after a stop as well.
LEMMA AgainWrittenCalm ==
    ASSUME NEW c, Shape(c), NEW i \in Nat, c.main.at = "repark" => c.p.at = "done"
    PROVE  Calm(c, AgainWritten(c, i))
<1> DEFINE e == [ShowReset(c, "proposals") EXCEPT !.again[i].at = "gate"]
           f == ParkGate(e, "proposals", Again(i))
           g == [c EXCEPT !.again[i].at = "done"]
           done == ShowDecision(g, "proposals", c.again[i].out)
<1>0. Again(i) # P /\ Again(i) # T
  BY DEF Again, P, T
<1>1. \/ AgainWritten(c, i) = f \/ AgainWritten(c, i) = done
      \/ c.main.at = "repark" /\ AgainWritten(c, i) = AwaitReparks(done)
  BY DEF AgainWritten, ShowDecision, Show
<1>2. Shape(e) /\ Same(c, e)
  BY ResetSame DEF Shape, Same
<1> HIDE DEF e
<1>3. Calm(c, f)
  BY <1>0, <1>2 DEF ParkGate, Shape, Same, Calm, Still, Ready, Dying, NotFresh
<1>4. Shape(g) /\ Same(c, g)
  BY DEF Shape, Same
<1> HIDE DEF f, g
<1>5. Shape(done) /\ Same(g, done)
  BY <1>4, DecisionSame
<1> HIDE DEF done
<1>6. Calm(c, done) /\ done.main = c.main /\ done.p = c.p
  BY <1>4, <1>5, SameIsCalm DEF Same
<1> QED
  BY <1>1, <1>3, <1>6, AwaitReparksCalm, CalmOn DEF Calm

---------------------------------------------------------------------------
(* The boot, after a stop *)

\* The boot of a turn whose driver waits for nothing to be approved.
AutoBoots(c) == c.fin.decision = "auto" => c.main.at = "boot"

LEMMA FinOverCalm ==
    ASSUME NEW c, Shape(c), AutoBoots(c)
    PROVE  Calm(c, FinOver(c))
<1> DEFINE out == [c EXCEPT !.fin.at = "done"]
           e == [out EXCEPT !.claim = FALSE]
<1>1. FinOver(c) = IF c.fin.decision = "auto" THEN Over(out) ELSE Settle(e)
  BY DEF FinOver
<1>2. Shape(out) /\ Calm(c, out) /\ out.main = c.main
  BY DEF Shape, Calm, Still, Ready, Dying, NotFresh
<1> HIDE DEF out
<1>3. Shape(e) /\ Calm(out, e)
  BY <1>2 DEF Shape, Calm, Still, Ready, Dying, NotFresh
<1> HIDE DEF e
<1>4. Calm(e, Settle(e))
  BY <1>3, SettleEases, EasedIsCalm
<1> QED
  BY <1>1, <1>2, <1>3, <1>4, OverCalm, CalmOn DEF AutoBoots

LEMMA FinFailsCalm ==
    ASSUME NEW c, Shape(c), AutoBoots(c)
    PROVE  Calm(c, FinFails(c))
<1> DEFINE e == [c EXCEPT !.fin.at = "done", !.main.at = "failing"]
           f == [c EXCEPT !.fin.at = "failing"]
<1>1. \/ c.main.at = "boot" /\ FinFails(c) = Push(e, Main)
      \/ FinFails(c) = FinOver(c) \/ FinFails(c) = Push(f, Fin)
  BY DEF FinFails, AutoBoots
<1>2. Shape(e) /\ Moves(c, e) /\ e.main.at = "failing"
  BY DEF Shape, Moves
<1>3. Shape(f) /\ Calm(c, f)
  BY DEF Shape, Calm, Still, Ready, Dying, NotFresh
<1> HIDE DEF e, f
<1> QED
  BY <1>1, <1>2, <1>3, MovesCalm, FinOverCalm, PushSame, CalmOn

LEMMA BootCalm ==
    ASSUME NEW c, Shape(c), AutoBoots(c)
    PROVE  Calm(c, Boot(c))
<1> DEFINE e == [c EXCEPT !.branches = FALSE, !.fin.at = "directory"]
<1>1. Boot(c) = FinOver(c) \/ Boot(c) = e
  BY DEF Boot
<1>2. Calm(c, e)
  BY DEF Shape, Calm, Still, Ready, Dying, NotFresh
<1> HIDE DEF e
<1> QED
  BY <1>1, <1>2, FinOverCalm

\* Where a preview, shown or claimed, waits.
Settled(c) == c.main.at = "over" /\ c.p.at = "done" /\ c.t.at = "done"

LEMMA FinishCalm ==
    ASSUME NEW c, Shape(c), Settled(c), AutoBoots(c), NEW d
    PROVE  Calm(c, Finish(c, d))
<1> DEFINE e == [c EXCEPT !.fin = [at |-> "decide", decision |-> d, approved |-> c.lib, plan |-> 0],
                          !.status = "starting", !.settled = FALSE]
<1>1. Finish(c, d) = FinOver(c) \/ Finish(c, d) = Push(e, Fin)
  BY DEF Finish
<1>2. Shape(e) /\ Calm(c, e)
  BY DEF Settled, Shape, Calm, Still, Ready, Dying, NotFresh
<1> HIDE DEF e
<1> QED
  BY <1>1, <1>2, FinOverCalm, PushSame, CalmOn

LEMMA FinWrittenCalm ==
    ASSUME NEW c, Shape(c), AutoBoots(c), c.fin.at \in {"decide", "dismiss", "failing", "failed"}
    PROVE  Calm(c, FinWritten(c))
<1> DEFINE decided == Show(c, "preview", "answered")
           e == [decided EXCEPT !.fin.at = "dismiss", !.branches = FALSE]
           f == [c EXCEPT !.outcome = @ \cup {"cancelled"}]
           g == [c EXCEPT !.fin.at = "failed"]
           h == [c EXCEPT !.outcome = @ \cup {"failed"}]
<1>1. FinWritten(c) \in {FinOver(decided), Push(e, Fin), Boot(decided), FinOver(f), Push(g, Fin), FinOver(h)}
  BY DEF FinWritten
<1>2. Shape(decided) /\ Same(c, decided)
  BY ShowSame
<1> HIDE DEF decided
<1>3. Calm(c, decided) /\ AutoBoots(decided)
  BY <1>2, SameIsCalm DEF Same, AutoBoots
<1>4. Shape(e) /\ Calm(c, e)
  BY <1>2 DEF Shape, Same, Calm, Still, Ready, Dying, NotFresh
<1>5. Shape(g) /\ Calm(c, g)
  BY DEF Shape, Calm, Still, Ready, Dying, NotFresh
<1>6. Shape(f) /\ Same(c, f) /\ Shape(h) /\ Same(c, h)
  BY DEF Shape, Same
<1> HIDE DEF e, f, g, h
<1>7. Calm(c, f) /\ Calm(c, h) /\ AutoBoots(f) /\ AutoBoots(h)
  BY <1>6, SameIsCalm DEF Same, AutoBoots
<1>8. /\ Calm(decided, FinOver(decided)) /\ Calm(decided, Boot(decided)) /\ Calm(e, Push(e, Fin))
      /\ Calm(f, FinOver(f)) /\ Calm(h, FinOver(h)) /\ Calm(g, Push(g, Fin))
  BY <1>2, <1>3, <1>4, <1>5, <1>6, <1>7, FinOverCalm, BootCalm, PushSame
<1> QED
  BY <1>1, <1>3, <1>4, <1>5, <1>7, <1>8, CalmOn

LEMMA PlannedCalm ==
    ASSUME NEW c, Shape(c), AutoBoots(c)
    PROVE  Calm(c, Planned(c))
<1> DEFINE e == [c EXCEPT !.fin.at = "engine", !.fin.plan = c.lib]
<1>1. Planned(c) \in {FinOver(c), FinFails(c), e}
  BY DEF Planned
<1>2. Calm(c, e)
  BY DEF Shape, Calm, Still, Ready, Dying, NotFresh
<1> HIDE DEF e
<1> QED
  BY <1>1, <1>2, FinOverCalm, FinFailsCalm

LEMMA StartedCalm ==
    ASSUME NEW c, Shape(c), AutoBoots(c), NEW ok
    PROVE  Calm(c, Started(c, ok))
<1> DEFINE e == [c EXCEPT !.outcome = @ \cup {"booted"}]
<1>1. Started(c, ok) \in {FinOver(c), FinFails(c), FinOver(e)}
  BY DEF Started
<1>2. Shape(e) /\ Same(c, e)
  BY DEF Shape, Same
<1> HIDE DEF e
<1>3. Calm(c, e) /\ Calm(e, FinOver(e))
  BY <1>2, SameIsCalm, FinOverCalm DEF Same, AutoBoots
<1> QED
  BY <1>1, <1>3, FinOverCalm, FinFailsCalm, CalmOn

LEMMA RecordedCalm ==
    ASSUME NEW c, Shape(c)
    PROVE  Calm(c, Recorded(c))
<1> DEFINE e == [c EXCEPT !.rec = "cancelled"]
           done == [c EXCEPT !.rec = "done", !.outcome = @ \cup {"cancelled"},
                             !.status = IF c.held THEN "none" ELSE @]
<1>1. Recorded(c) \in {Push(e, Stopper), done, Settle(done)}
  BY DEF Recorded
<1>2. Shape(e) /\ Same(c, e)
  BY DEF Shape, Same
<1>3. Shape(done) /\ Eased(c, done)
  BY DEF Shape, Eased
<1> HIDE DEF e, done
<1> QED
  BY <1>1, <1>2, <1>3, SameIsCalm, EasedIsCalm, PushSame, SettleEases, CalmOn

---------------------------------------------------------------------------
(* The driver, after a stop *)

\* Where a write of the driver may be done.
LEMMA MainWrittenCalm ==
    ASSUME NEW c, Shape(c), c.main.at \in {"skeleton", "result", "decide", "reset", "reviewed", "rescan",
                                           "preview", "receipt", "auto", "failing", "failed"},
           c.main.at = "reset" => c.main.step # "checkup", NEW yes
    PROVE  Calm(c, MainWritten(c, yes))
<1> DEFINE shown == Show(c, "checkup", "open")
           gate == [ShowReset(c, c.main.step) EXCEPT !.main.at = "review"]
           parked == ParkGate(gate, c.main.step, Main)
           seen == ShowDecision(c, c.main.step, c.main.out)
           rescan == [seen EXCEPT !.main.at = "rescan"]
           reset == ShowReset(c, "checkup")
           boot == [Show(c, "preview", "answered") EXCEPT !.main.at = "boot", !.fin.decision = "auto"]
           e == [c EXCEPT !.main.at = "failed"]
           f == [c EXCEPT !.outcome = @ \cup {"failed"}]
<1>1. CASE c.main.at = "skeleton"
  <2>1. Shape(shown) /\ Same(c, shown)
    BY ShowSame
  <2>2. MainWritten(c, yes) = Analyse(shown)
    BY <1>1 DEF MainWritten
  <2> HIDE DEF shown
  <2> QED
    BY <1>1, <2>1, <2>2, SameIsCalm, AnalyseCalm, CalmOn DEF Same
<1>2. CASE c.main.at = "result"
  BY <1>2, ResultWrittenCalm DEF MainWritten
<1>3. CASE c.main.at = "decide"
  BY <1>3, CheckupDecidedCalm DEF MainWritten, AtEnd
<1>4. CASE c.main.at = "reset"
  <2>1. MainWritten(c, yes) = parked
    BY <1>4 DEF MainWritten
  <2>2. Shape(gate) /\ Moves(c, gate) /\ gate.main.at = "review"
    BY ResetSame DEF Shape, Same, Moves
  <2> HIDE DEF gate
  <2>3. Calm(c, gate)
    BY <1>4, <2>2, MovesCalm
  <2>4. P # Main /\ T # Main
    BY DEF P, T, Main
  <2>5. Calm(gate, parked)
    BY <1>4, <2>2, <2>4 DEF ParkGate, Shape, Calm, Still, Ready, Dying, NotFresh
  <2> QED
    BY <2>1, <2>3, <2>5, CalmOn
<1>5. CASE c.main.at = "reviewed"
  <2>1. Shape(seen) /\ Same(c, seen)
    BY DecisionSame
  <2>2. MainWritten(c, yes) \in {Over(seen), Refresh(seen, "rework"), Push(rescan, Main)}
    BY <1>5 DEF MainWritten
  <2> HIDE DEF seen
  <2>3. Shape(rescan) /\ Moves(c, rescan) /\ rescan.main.at = "rescan"
    BY <2>1 DEF Shape, Same, Moves
  <2> HIDE DEF rescan
  <2>4. Calm(c, seen) /\ Calm(seen, Over(seen)) /\ Calm(seen, Refresh(seen, "rework"))
    BY <1>5, <2>1, SameIsCalm, OverCalm, RefreshCalm DEF Same
  <2> QED
    BY <1>5, <2>2, <2>3, <2>4, MovesCalm, PushSame, CalmOn
<1>6. CASE c.main.at = "rescan"
  <2>1. Shape(reset) /\ Same(c, reset)
    BY ResetSame
  <2>2. MainWritten(c, yes) = Checkup(reset)
    BY <1>6 DEF MainWritten
  <2> HIDE DEF reset
  <2> QED
    BY <1>6, <2>1, <2>2, SameIsCalm, CheckupCalm, CalmOn DEF Same
<1>7. CASE c.main.at = "preview"
  BY <1>7, PreviewWrittenCalm DEF MainWritten, AtEnd
<1>8. CASE c.main.at = "receipt"
  BY <1>8, ReceiptWrittenCalm DEF MainWritten, AtEnd
<1>9. CASE c.main.at = "auto"
  <2>1. MainWritten(c, yes) = Boot(boot)
    BY <1>9 DEF MainWritten
  <2>2. Shape(boot) /\ Moves(c, boot) /\ boot.main.at = "boot"
    BY ShowSame DEF Shape, Same, Moves
  <2> HIDE DEF boot
  <2> QED
    BY <1>9, <2>1, <2>2, MovesCalm, BootCalm, CalmOn DEF AutoBoots
<1>10. CASE c.main.at = "failing"
  <2>1. MainWritten(c, yes) = Push(e, Main)
    BY <1>10 DEF MainWritten
  <2>2. Shape(e) /\ Moves(c, e) /\ e.main.at = "failed"
    BY DEF Shape, Moves
  <2> HIDE DEF e
  <2> QED
    BY <1>10, <2>1, <2>2, MovesCalm, PushSame, CalmOn
<1>11. CASE c.main.at = "failed"
  <2>1. MainWritten(c, yes) = Over(f)
    BY <1>11 DEF MainWritten
  <2>2. Shape(f) /\ Same(c, f)
    BY DEF Shape, Same
  <2> HIDE DEF f
  <2> QED
    BY <1>11, <2>1, <2>2, SameIsCalm, OverCalm, CalmOn DEF Same
<1> QED
  BY <1>1, <1>2, <1>3, <1>4, <1>5, <1>6, <1>7, <1>8, <1>9, <1>10, <1>11

---------------------------------------------------------------------------
(* The gates that a stop settles *)

\* Gates are settled, and what waited there goes on to record it.
Settles(c, d) ==
    /\ d.prep = c.prep /\ d.status = c.status /\ d.stopped = c.stopped /\ d.branches = c.branches
    /\ d.flag = c.flag
    /\ d.p.at = c.p.at \/ (c.p.at = "gate" /\ d.p.at = "decide")
    /\ d.t.at = c.t.at \/ (c.t.at = "gate" /\ d.t.at = "decide")
    /\ \/ d.main = c.main
       \/ c.main.at \in {"gate", "review"} /\ d.main.at \in {"decide", "reviewed"}
    /\ \A r \in Reviews : d.gate[r] = c.gate[r] \/ d.gate[r] = Nobody

LEMMA SettlesOn ==
    ASSUME NEW c, NEW d, NEW e, Settles(c, d), Settles(d, e)
    PROVE  Settles(c, e)
  BY DEF Settles

LEMMA SettlesCalm ==
    ASSUME NEW c, NEW d, Shape(d), Settles(c, d)
    PROVE  Calm(c, d)
<1>1. NotFresh(c, d)
  BY DEF Settles, NotFresh, Nobody, P, T
<1>2. ASSUME Still(c) PROVE Still(d)
  BY <1>2 DEF Settles, Still, Ready, Dying
<1> QED
  BY <1>1, <1>2 DEF Calm, Settles

LEMMA ShapeOf ==
    ASSUME NEW n \in Nat, NEW l \in Nat, NEW c \in State(n, l)
    PROVE  Shape(c)
  BY DEF State, Shape

LEMMA AnswerSettles ==
    ASSUME NEW n \in Nat, NEW l \in Nat, NEW c \in State(n, l), Fits(c), NEW r \in Reviews, NEW o \in Decisions
    PROVE  Shape(Answer(c, r, o)) /\ Settles(c, Answer(c, r, o))
<1> DEFINE who == c.gate[r]
           free == ParkGate(c, r, Nobody)
           e == [free EXCEPT !.p.at = "decide", !.p.out = o]
           f == [free EXCEPT !.t.at = "decide", !.t.out = o]
           g == [free EXCEPT !.main.at = IF @ = "gate" THEN "decide" ELSE "reviewed", !.main.out = o]
           h == [free EXCEPT !.again[who[2]].at = "decide", !.again[who[2]].out = o]
<1>0. Shape(c)
  BY ShapeOf
<1>1. /\ who = P => c.p.at = "gate"
      /\ who = T => c.t.at \in {"card", "gate"}
      /\ who = Main => c.main.at \in {"gate", "review"}
      /\ who \in Who /\ who \notin {Fin, Stopper}
  BY DEF State, Fits, Core, Flows, PFits, TFits, MainFits, OthersFit
<1>2. who \in {P, T, Main, Nobody} \/ who[1] = "again"
  BY <1>1, Names
<1>3. Shape(free) /\ free.p = c.p /\ free.t = c.t /\ free.main = c.main /\ Settles(c, free)
  BY <1>0 DEF ParkGate, Shape, Settles
<1>4. Answer(c, r, o) =
        CASE who = P -> Push(e, P)
          [] who = T -> IF c.t.at = "card" THEN free ELSE Push(f, T)
          [] who = Main -> Push(g, Main)
          [] who[1] = "again" -> Push(h, who)
          [] who = Nobody -> c
  BY DEF Answer
<1> HIDE DEF free
<1>5. Shape(e) /\ (who = P => Settles(free, e))
  BY <1>1, <1>3 DEF Shape, Settles
<1>6. Shape(f) /\ (who = T /\ c.t.at # "card" => Settles(free, f))
  BY <1>1, <1>3 DEF Shape, Settles
<1>7. Shape(g) /\ (who = Main => Settles(free, g))
  BY <1>1, <1>3 DEF Shape, Settles
<1>8. Shape(h) /\ Settles(free, h)
  BY <1>3 DEF Shape, Settles
<1> HIDE DEF e, f, g, h
<1>9. ASSUME NEW x, Shape(x), NEW w PROVE Shape(Push(x, w)) /\ Settles(x, Push(x, w))
  BY <1>9, PushSame DEF Same, Settles
<1>10. Settles(c, c)
  BY DEF Settles
<1>11. CASE who = P
  BY <1>3, <1>4, <1>5, <1>9, <1>11, SettlesOn, NamesDiffer, Names
<1>12. CASE who = T
  BY <1>3, <1>4, <1>6, <1>9, <1>12, SettlesOn, NamesDiffer, Names
<1>13. CASE who = Main
  BY <1>3, <1>4, <1>7, <1>9, <1>13, SettlesOn, NamesDiffer, Names
<1>14. CASE who[1] = "again"
  <2>1. who \notin {P, T, Main, Nobody}
    BY <1>14, Names
  <2>2. Answer(c, r, o) = Push(h, who)
    BY <1>4, <1>14, <2>1
  <2> QED
    BY <1>3, <1>8, <1>9, <2>2, SettlesOn
<1>15. CASE who = Nobody
  BY <1>0, <1>4, <1>10, <1>15, NamesDiffer, Names
<1> QED
  BY <1>2, <1>11, <1>12, <1>13, <1>14, <1>15

LEMMA AnswerAllSettles ==
    ASSUME NEW n \in Nat, NEW l \in Nat, NEW c \in State(n, l), Fits(c), NEW o \in Decisions
    PROVE  Shape(AnswerAll(c, o)) /\ Settles(c, AnswerAll(c, o))
<1> DEFINE a == Answer(c, "proposals", o)
           b == Answer(a, "transfer", o)
           d == Answer(b, "checkup", o)
<1>0. "proposals" \in Reviews /\ "transfer" \in Reviews /\ "checkup" \in Reviews
  BY DEF Reviews
<1>1. a \in State(n, l) /\ Fits(a) /\ Settles(c, a)
  BY <1>0, AnswerFits, AnswerSettles
<1> HIDE DEF a
<1>2. b \in State(n, l) /\ Fits(b) /\ Settles(a, b)
  BY <1>0, <1>1, AnswerFits, AnswerSettles
<1> HIDE DEF b
<1>3. Shape(d) /\ Settles(b, d)
  BY <1>0, <1>2, AnswerSettles
<1> HIDE DEF d
<1> QED
  BY <1>1, <1>2, <1>3, SettlesOn DEF AnswerAll, a, b, d

---------------------------------------------------------------------------
(* What a stop releases *)

LEMMA ReleasePCalm ==
    ASSUME NEW c, Shape(c)
    PROVE  /\ Calm(c, ReleaseP(c)) /\ ReleaseP(c).t = c.t /\ ReleaseP(c).main = c.main
           /\ ReleaseP(c).stopped = c.stopped
           /\ Ready(c) /\ Dying(c) => Ready(ReleaseP(c)) /\ Dying(ReleaseP(c))
<1> DEFINE e == [c EXCEPT !.p.at = "result"]
<1>1. Shape(e) /\ (c.p.at = "parse" => Calm(c, e)) /\ e.t = c.t /\ e.main = c.main /\ e.stopped = c.stopped
  BY DEF Shape, Calm, Still, Ready, Dying, NotFresh
<1>2. c.p.at = "parse" => (Ready(c) /\ Dying(c) => Ready(e) /\ Dying(e))
  BY DEF Shape, Ready, Dying
<1>3. IF c.p.at = "parse" THEN ReleaseP(c) = Push(e, P) ELSE ReleaseP(c) = c
  BY DEF ReleaseP
<1> HIDE DEF e
<1>4. Calm(e, Push(e, P)) /\ Same(e, Push(e, P))
  BY <1>1, PushSame
<1>5. Calm(c, c)
  BY DEF Calm, NotFresh
<1> QED
  BY <1>1, <1>2, <1>3, <1>4, <1>5, CalmOn DEF Same, Ready, Dying

LEMMA ReleaseTCalm ==
    ASSUME NEW c, Shape(c), c.main.at = "refresh" => c.p.at = "done"
    PROVE  Calm(c, ReleaseT(c))
<1>1. \/ c.t.at \in {"task", "stepone"} /\ ReleaseT(c) = TSettle(c, "cancelled")
      \/ ReleaseT(c) = TDone(c, "failed") \/ ReleaseT(c) = c
  BY DEF ReleaseT
<1>2. Calm(c, c)
  BY DEF Calm, NotFresh
<1> QED
  BY <1>1, <1>2, TSettleCalm, TDoneCalm

LEMMA ReleaseMainCalm ==
    ASSUME NEW c, Shape(c)
    PROVE  Calm(c, ReleaseMain(c))
<1>1. (c.main.at = "work" /\ ReleaseMain(c) = Analysed(c, "failed")) \/ ReleaseMain(c) = c
  BY DEF ReleaseMain
<1>2. Calm(c, c) /\ Moves(c, c)
  BY DEF Calm, NotFresh, Moves
<1> QED
  BY <1>1, <1>2, AnalysedCalm

---------------------------------------------------------------------------
(* The flags of a stop *)

\* A stop has set its flags; what awaits a branch is not released yet.
Doomed(c) == Ready(c) /\ Dying(c)

LEMMA CutCalm ==
    ASSUME NEW c, Shape(c)
    PROVE  LET d == Cut(c) IN
           /\ Shape(d) /\ Calm(c, d) /\ ~d.branches /\ (Ready(c) => Ready(d))
           /\ d.p = c.p /\ d.t = c.t /\ d.main = c.main /\ d.status = c.status /\ d.stopped = c.stopped
  BY DEF Cut, Shape, Calm, Still, Ready, Dying, NotFresh

LEMMA FlaggedCalm ==
    ASSUME NEW c, Shape(c), ~c.branches
    PROVE  LET d == Flagged(c) IN
           /\ Shape(d) /\ (Ready(c) => Doomed(d)) /\ ((c.stopped \/ (StagesDone(c) /\ c.main.at # "work")) => Calm(c, d))
<1> DEFINE d == Flagged(c)
<1>1. /\ Shape(d) /\ d.p = c.p /\ d.t = c.t /\ d.main = c.main /\ d.prep.on = c.prep.on /\ d.gate = c.gate
      /\ d.status = c.status /\ d.branches = c.branches /\ d.flag = TRUE /\ d.stopped = (c.stopped \/ c.held)
      /\ d.prep.aborted = (c.prep.aborted \/ c.prep.on)
  BY DEF Flagged, Cancel, Shape
<1> HIDE DEF d
<1>2. Ready(c) => Doomed(d)
  BY <1>1 DEF Doomed, Ready, Dying
<1>3. NotFresh(c, d)
  BY <1>1 DEF NotFresh
<1>4. (c.stopped \/ (StagesDone(c) /\ c.main.at # "work")) /\ Still(c) => Still(d) /\ (c.stopped => d.stopped)
  BY <1>1, <1>2 DEF Still, Ready, StagesDone, Doomed
<1> QED
  BY <1>1, <1>2, <1>3, <1>4 DEF Calm, d

\* The boot of a turn that is stopped was over with its preparation.
LEMMA CancelCalm ==
    ASSUME NEW c, Shape(c), ~c.branches, c.status = "starting"
    PROVE  Shape(Cancel(c)) /\ Calm(c, Cancel(c))
<1> DEFINE st == c.stopped \/ c.held
           d == [c EXCEPT !.stopped = st]
<1>1. Cancel(c) = d
  BY DEF Cancel
<1>2. c.stopped => st
  OBVIOUS
<1> HIDE DEF st
<1>3. Shape(d) /\ Calm(c, d)
  BY <1>2 DEF Shape, Calm, Still, Ready, Dying, NotFresh
<1> QED
  BY <1>1, <1>3

LEMMA UnparkedCalm ==
    ASSUME NEW c, Shape(c)
    PROVE  Shape(Unparked(c)) /\ Calm(c, Unparked(c))
  BY DEF Unparked, Shape, Calm, Still, Ready, Dying, NotFresh

LEMMA SettlesEnded ==
    ASSUME NEW c, NEW d, Settles(c, d), Doomed(c)
    PROVE  Doomed(d)
  BY DEF Settles, Doomed, Ready, Dying

\* T and the driver are released: what computed fails, or finds the stop.
LEMMA ReleasedCalm ==
    ASSUME NEW n \in Nat, NEW l \in Nat, NEW p \in State(n, l), Fits(p)
    PROVE  LET d == ReleaseMain(ReleaseT(p))
           IN  Calm(p, d) /\ (Doomed(p) => Still(d))
<1> DEFINE t == ReleaseT(p)
           d == ReleaseMain(t)
<1>0. Shape(p) /\ (p.main.at = "refresh" => p.p.at = "done")
  BY ShapeOf DEF Fits, Core, Staged
<1>1. Calm(p, t)
  BY <1>0, ReleaseTCalm
<1>2. Calm(t, d)
  BY <1>1, ReleaseMainCalm DEF Calm
<1>3. Calm(p, d)
  BY <1>1, <1>2, CalmOn
<1>4. ASSUME Doomed(p), p.t.at = "continue"
      PROVE  Still(d)
  <2> DEFINE bad == "failed"
             done == [p EXCEPT !.t.at = "done", !.t.out = bad]
  <2>1. t = TDone(p, bad)
    BY <1>4 DEF ReleaseT
  <2>2. p.main.at # "work" /\ p.status # "starting"
    BY <1>4 DEF Doomed, Ready, Fits, Core, Staged, StagesDone, Late
  <2>3. done.p = p.p /\ done.t.at = "done" /\ done.main = p.main /\ done.prep = p.prep /\ done.status = p.status
        /\ done.flag = p.flag /\ done.branches = p.branches
    BY <1>0 DEF Shape
  <2> HIDE DEF bad
  <2> HIDE DEF t
  <2>4. Calm(done, TDone(p, bad))
    BY <1>0, TEndsCalm
  <2> HIDE DEF done
  <2>5. Still(done)
    BY <1>4, <2>2, <2>3 DEF Doomed, Still, Ready, Dying
  <2> QED
    BY <1>2, <2>1, <2>4, <2>5 DEF Calm
<1>5. ASSUME Doomed(p), p.main.at = "work"
      PROVE  Still(d)
  <2> DEFINE bad == "failed"
             b == [p EXCEPT !.main.at = "review"]
  <2>1. StagesDone(p)
    BY <1>5 DEF Fits, Core, Staged, Late
  <2>2. t = p
    BY <2>1 DEF ReleaseT, StagesDone
  <2>3. d = Analysed(p, bad)
    BY <1>5, <2>2 DEF ReleaseMain
  <2>4. b.p = p.p /\ b.t = p.t /\ b.main.at = "review" /\ b.prep = p.prep /\ b.status = p.status
        /\ b.stopped = p.stopped /\ b.flag = p.flag /\ b.branches = p.branches /\ b.gate = p.gate
    BY <1>0 DEF Shape
  <2>5. bad # "found"
    OBVIOUS
  <2> HIDE DEF bad, b, t, d
  <2>6. Still(b)
    BY <1>5, <2>1, <2>4 DEF Doomed, Still, Ready, Dying, StagesDone
  <2>7. Moves(b, p)
    BY <2>4 DEF Moves
  <2>8. Calm(b, d)
    BY <1>0, <2>3, <2>4, <2>5, <2>7, AnalysedCalm
  <2> QED
    BY <2>6, <2>8 DEF Calm
<1>6. ASSUME Doomed(p), p.t.at # "continue", p.main.at # "work"
      PROVE  Still(d)
  BY <1>3, <1>6 DEF Doomed, Still, Calm
<1> QED
  BY <1>3, <1>4, <1>5, <1>6

LEMMA UnwoundCalm ==
    ASSUME NEW n \in Nat, NEW l \in Nat, NEW c \in State(n, l), Fits(c), NEW no \in Decisions
    PROVE  LET d == ReleaseMain(ReleaseT(ReleaseP(AnswerAll(c, no))))
           IN  Calm(c, d) /\ (Doomed(c) => Still(d))
<1> DEFINE a == AnswerAll(c, no)
           p == ReleaseP(a)
           d == ReleaseMain(ReleaseT(p))
<1>1. a \in State(n, l) /\ Fits(a) /\ Settles(c, a) /\ Shape(a)
  BY AnswerAllFits, AnswerAllSettles
<1> HIDE DEF a
<1>2. Calm(c, a) /\ (Doomed(c) => Doomed(a))
  BY <1>1, SettlesCalm, SettlesEnded
<1>3. p \in State(n, l) /\ Fits(p) /\ Calm(a, p) /\ (Doomed(a) => Doomed(p))
  BY <1>1, ReleasePFits, ReleasePCalm DEF Doomed
<1> HIDE DEF p
<1>4. Calm(p, d) /\ (Doomed(p) => Still(d))
  BY <1>3, ReleasedCalm
<1> HIDE DEF d
<1>5. Calm(c, d) /\ (Doomed(c) => Still(d))
  BY <1>2, <1>3, <1>4, CalmOn
<1> QED
  BY <1>5 DEF d, p, a

---------------------------------------------------------------------------
(* Stop, and the steps of the turn *)

LEMMA StoppedCalm ==
    ASSUME NEW n \in Nat, NEW l \in Nat, NEW c \in State(n, l), Fits(c), "booted" \notin c.outcome
    PROVE  Calm(c, Stopped(c))
<1> DEFINE end == Cut(c)
           flagged == Flagged(end)
           can == Cancel(end)
           no == "cancelled"
           dis == "dismiss"
           unwound == ReleaseMain(ReleaseT(ReleaseP(AnswerAll(flagged, no))))
           lifted == Unparked(flagged)
           free == Unparked(end)
<1>1. /\ end \in State(n, l) /\ Fits(end) /\ end.main = c.main /\ end.fin = c.fin
      /\ KeepStages(c, end) /\ KeepHold(c, end) /\ end.pv.shown = c.pv.shown /\ "booted" \notin end.outcome
      /\ end.pv.parked = (c.pv.parked \/ c.planning)
  BY CutFits DEF KeepHold
<1>2. \/ Stopped(c) = unwound
      \/ Stopped(c) = Record(unwound)
      \/ c.pv.parked /\ Stopped(c) = Record(lifted)
      \/ c.status = "starting" /\ Stopped(c) = Record(can)
      \/ Stopped(c) = end
      \/ (c.pv.parked /\ c.pv.shown) /\ Stopped(c) = Finish(free, dis)
  BY DEF Stopped, Cut, Flagged, Unparked
<1>3. /\ Shape(end) /\ Calm(c, end) /\ ~end.branches /\ (Ready(c) => Ready(end))
      /\ end.p = c.p /\ end.t = c.t /\ end.status = c.status /\ end.stopped = c.stopped
  BY ShapeOf, CutCalm
<1> HIDE DEF end
<1>4. flagged \in State(n, l) /\ Fits(flagged)
  BY <1>1, CancelFits, StopKeepsAll
<1>5. /\ Shape(flagged) /\ (Ready(end) => Doomed(flagged))
      /\ (end.stopped \/ (StagesDone(end) /\ end.main.at # "work")) => Calm(end, flagged)
  BY <1>3, FlaggedCalm
<1> HIDE DEF flagged
<1>6. Calm(c, unwound)
  <2>0. no \in Decisions
    BY DEF Decisions
  <2> HIDE DEF no
  <2>1. Calm(flagged, unwound) /\ (Doomed(flagged) => Still(unwound))
    BY <1>4, <2>0, UnwoundCalm
  <2> HIDE DEF unwound
  <2>2. CASE c.stopped
    BY <1>3, <1>5, <2>1, <2>2, CalmOn
  <2>3. CASE ~c.stopped
    BY <1>3, <1>5, <2>1, <2>3 DEF Calm, Still
  <2> QED
    BY <2>2, <2>3
<1> HIDE DEF unwound
<1>7. ASSUME NEW d, Calm(c, d) PROVE Calm(c, Record(d))
  <2>1. Shape(d)
    BY <1>7 DEF Calm
  <2>2. Calm(d, Record(d))
    BY <2>1, RecordSame, SameIsCalm
  <2> QED
    BY <1>7, <2>2, CalmOn
<1>8. ASSUME c.pv.parked PROVE Calm(c, lifted)
  <2>1. StagesDone(end) /\ end.main.at # "work"
    BY <1>1, <1>8 DEF Fits, Core, Staged, Owned, Idle
  <2>2. Calm(flagged, lifted)
    BY <1>5, UnparkedCalm
  <2> HIDE DEF lifted
  <2> QED
    BY <1>3, <1>5, <2>1, <2>2, CalmOn
<1> HIDE DEF lifted
<1>9. ASSUME c.status = "starting" PROVE Calm(c, can)
  <2>1. Calm(end, can)
    BY <1>3, <1>9, CancelCalm
  <2> HIDE DEF can
  <2> QED
    BY <1>3, <2>1, CalmOn
<1> HIDE DEF can
<1>10. ASSUME c.pv.parked, c.pv.shown PROVE Calm(c, Finish(free, dis))
  <2>1. c.main.at = "over" /\ c.fin.decision # "auto" /\ StagesDone(c)
    BY <1>10, ParkedFacts
  <2>2. Shape(free) /\ Calm(end, free)
    BY <1>3, UnparkedCalm
  <2>3. free.main = end.main /\ free.fin = end.fin /\ free.p = end.p /\ free.t = end.t
    BY <1>3 DEF Unparked, Shape
  <2> HIDE DEF free, dis
  <2>4. Settled(free) /\ AutoBoots(free)
    BY <1>1, <1>3, <2>1, <2>3 DEF Settled, AutoBoots, StagesDone
  <2>5. Calm(free, Finish(free, dis))
    BY <2>2, <2>4, FinishCalm
  <2> QED
    BY <1>3, <2>2, <2>5, CalmOn
<1> QED
  BY <1>2, <1>3, <1>6, <1>7, <1>8, <1>9, <1>10

---------------------------------------------------------------------------
(* Every step *)

LEMMA AnswerCalm ==
    ASSUME NEW n \in Nat, NEW l \in Nat, NEW c \in State(n, l), Fits(c), NEW r \in Reviews, NEW o \in Decisions
    PROVE  Calm(c, Answer(c, r, o))
  BY AnswerSettles, SettlesCalm

LEMMA AutoOf ==
    ASSUME NEW c, Fits(c), c.fin.at \in Active
    PROVE  AutoBoots(c)
  BY DEF AutoBoots, Fits, Core, Owned

LEMMA ResumedCalm ==
    ASSUME NEW n \in Nat, NEW l \in Nat, NEW c \in State(n, l), Fits(c), NEW w \in Who, ~Has(c, w), MayAwait(c, w),
           NEW yes \in BOOLEAN
    PROVE  Calm(c, Resumed(c, w, yes))
<1>0. Shape(c)
  BY ShapeOf
<1>1. w \in {P, T, Main, Fin, Stopper} \/ \E i \in Nat : w = Again(i)
  BY Names DEF MayAwait
<1>2. CASE w = P
  <2>1. Resumed(c, w, yes) = PWritten(c, yes)
    BY <1>2, NamesDiffer, Names DEF Resumed
  <2>2. c.p.at \in {"shell", "result", "decide"} /\ c.main.at # "rework"
    BY <1>2 DEF MayAwait, Fits, Core, Staged
  <2> QED
    BY <1>0, <2>1, <2>2, PWrittenCalm
<1>3. CASE w = T
  <2>1. Resumed(c, w, yes) = TWritten(c)
    BY <1>3, NamesDiffer, Names DEF Resumed
  <2>2. /\ c.t.shell = "writing" \/ c.t.at \in {"card", "settle", "decide"}
        /\ c.t.shell = "writing" => c.t.at # "done"
        /\ c.main.at = "refresh" => c.p.at = "done"
    BY <1>3 DEF MayAwait, Fits, Core, Flows, TFits, Staged
  <2> QED
    BY <1>0, <2>1, <2>2, TWrittenCalm
<1>4. CASE w = Main
  <2>1. Resumed(c, w, yes) = MainWritten(c, yes)
    BY <1>4, NamesDiffer, Names DEF Resumed
  <2>2. c.main.at \in Writes /\ (c.main.at = "reset" => c.main.step # "checkup")
    BY <1>4 DEF MayAwait, Fits, Core, Flows, MainFits
  <2> QED
    BY <1>0, <2>1, <2>2, MainWrittenCalm DEF Writes
<1>5. CASE w = Fin
  <2>1. Resumed(c, w, yes) = FinWritten(c)
    BY <1>5, NamesDiffer, Names DEF Resumed
  <2>2. c.fin.at \in {"decide", "dismiss", "failing", "failed"}
    BY <1>5 DEF MayAwait
  <2> QED
    BY <1>0, <2>1, <2>2, AutoOf, FinWrittenCalm DEF Active
<1>6. CASE w = Stopper
  <2>1. Resumed(c, w, yes) = Recorded(c)
    BY <1>6, NamesDiffer, Names DEF Resumed
  <2> QED
    BY <1>0, <2>1, RecordedCalm
<1>7. ASSUME NEW i \in Nat, w = Again(i)
      PROVE  Calm(c, Resumed(c, w, yes))
  <2>1. w[1] = "again" /\ w[2] = i /\ w \notin {P, T, Main, Fin, Stopper}
    BY <1>7, Names, NamesDiffer
  <2>2. Resumed(c, w, yes) = AgainWritten(c, i)
    BY <2>1 DEF Resumed
  <2>3. c.main.at = "repark" => c.p.at = "done"
    BY DEF Fits, Core, Staged
  <2> QED
    BY <1>0, <2>2, <2>3, AgainWrittenCalm
<1> QED
  BY <1>1, <1>2, <1>3, <1>4, <1>5, <1>6, <1>7

\* What lets the turn be answered leaves what a stop needs.
LEMMA AnswerKeepsCalm ==
    ASSUME NEW c, Shape(c), NEW b \in BOOLEAN
    PROVE  /\ Shape(Claim(c)) /\ Calm(c, Claim(c)) /\ Claim(c).main = c.main /\ Claim(c).fin = c.fin
           /\ Claim(c).p = c.p /\ Claim(c).t = c.t
           /\ Shape(PlanningIs(c, b)) /\ Calm(c, PlanningIs(c, b)) /\ PlanningIs(c, b).main = c.main
           /\ PlanningIs(c, b).fin = c.fin /\ PlanningIs(c, b).p = c.p /\ PlanningIs(c, b).t = c.t
           /\ Calm(c, Unclaim(c))
<1>1. /\ Shape(Claim(c)) /\ Calm(c, Claim(c)) /\ Claim(c).main = c.main /\ Claim(c).fin = c.fin
      /\ Claim(c).p = c.p /\ Claim(c).t = c.t
  BY DEF Claim, Shape, Calm, Still, Ready, Dying, NotFresh
<1>2. /\ Shape(PlanningIs(c, b)) /\ Calm(c, PlanningIs(c, b)) /\ PlanningIs(c, b).main = c.main
      /\ PlanningIs(c, b).fin = c.fin /\ PlanningIs(c, b).p = c.p /\ PlanningIs(c, b).t = c.t
  BY DEF PlanningIs, Shape, Calm, Still, Ready, Dying, NotFresh
<1>3. Calm(c, Unclaim(c))
  BY DEF Unclaim, Shape, Calm, Still, Ready, Dying, NotFresh
<1> QED
  BY <1>1, <1>2, <1>3

\* runReopenedMemoryPreparation opens a review, but no gate yet.
LEMMA ResumeAtCalm ==
    ASSUME NEW c, Shape(c), Settled(c), NEW r
    PROVE  Calm(c, ResumeAt(c, r))
<1> DEFINE at == IF r = "checkup" THEN "rescan" ELSE "reset"
           d == [c EXCEPT !.pv.parked = FALSE, !.status = "previewing", !.settled = FALSE,
                          !.main.resumed = TRUE, !.main.step = r, !.main.at = at]
<1>1. at \in {"rescan", "reset"} /\ ResumeAt(c, r) = Push(d, Main)
  BY DEF ResumeAt
<1> HIDE DEF at
<1>2. Shape(d) /\ Calm(c, d)
  BY <1>1 DEF Settled, Shape, Calm, Still, Ready, Dying, NotFresh
<1> HIDE DEF d
<1> QED
  BY <1>1, <1>2, PushSame, CalmOn

LEMMA WantCalm ==
    ASSUME NEW c, Shape(c), NEW want
    PROVE  LET d == WantMore(c, want)
           IN  Shape(d) /\ Calm(c, d) /\ Moves(c, d) /\ d.main.at = c.main.at /\ d.main.want = want
  BY DEF WantMore, Shape, Calm, Still, Ready, Dying, NotFresh, Moves

LEMMA GateReopensCalm ==
    ASSUME NEW c, Shape(c), c.main.at = "gate", NEW r
    PROVE  Calm(c, Analysed(ParkGate(WantMore(c, {r}), "checkup", Nobody), "found"))
<1> DEFINE asked == WantMore(c, {r})
           free == ParkGate(asked, "checkup", Nobody)
<1>1. Shape(asked) /\ Moves(c, asked) /\ asked.main.want = {r}
  BY WantCalm
<1> HIDE DEF asked
<1>2. Shape(free) /\ Moves(c, free) /\ free.main.want # {}
  BY <1>1 DEF Shape, ParkGate, Moves
<1> HIDE DEF free
<1>3. Calm(c, Analysed(free, "found"))
  BY <1>2, AnalysedCalm
<1> QED
  BY <1>3 DEF free, asked

LEMMA BesideCalm ==
    ASSUME NEW c, Shape(c)
    PROVE  Calm(c, Push([c EXCEPT !.prep.reopened = TRUE, !.again = Append(@, [at |-> "reset", out |-> "none"])],
                        Again(Len(c.again) + 1)))
<1> DEFINE again == Append(c.again, [at |-> "reset", out |-> "none"])
           d == [c EXCEPT !.prep.reopened = TRUE, !.again = again]
<1> HIDE DEF again
<1>1. Shape(d) /\ Calm(c, d)
  BY DEF Shape, Calm, Still, Ready, Dying, NotFresh
<1> HIDE DEF d
<1>2. Calm(c, Push(d, Again(Len(c.again) + 1)))
  BY <1>1, PushSame, CalmOn
<1> QED
  BY <1>2 DEF d, again

LEMMA ScannedCalm ==
    ASSUME NEW c, Shape(c), c.main.at = "refresh" => c.p.at = "done", c.t.at = "task"
    PROVE  Calm(c, TAfterStepOne(c)) /\ Calm(c, [c EXCEPT !.t.at = "stepone"])
<1>1. Calm(c, [c EXCEPT !.t.at = "stepone"])
  BY DEF Shape, Calm, Still, Ready, Dying, NotFresh
<1> QED
  BY <1>1, TAfterStepOneCalm

LEMMA EditedCalm ==
    ASSUME NEW c, Shape(c)
    PROVE  Calm(c, [c EXCEPT !.lib = @ + 1])
<1> DEFINE lib == c.lib + 1
           d == [c EXCEPT !.lib = lib]
<1> HIDE DEF lib
<1>1. Shape(d) /\ Same(c, d)
  BY DEF Shape, Same
<1> HIDE DEF d
<1>2. Calm(c, d)
  BY <1>1, SameIsCalm
<1> QED
  BY <1>2 DEF d, lib

LEMMA PoppedCalm ==
    ASSUME NEW c, Shape(c)
    PROVE  Shape(Popped(c)) /\ Calm(c, Popped(c))
<1> DEFINE q == Tail(c.chain)
           d == [c EXCEPT !.chain = q]
<1>1. Popped(c) = d
  BY DEF Popped
<1> HIDE DEF q
<1>2. Shape(d) /\ Same(c, d)
  BY DEF Shape, Same
<1> HIDE DEF d
<1> QED
  BY <1>1, <1>2, SameIsCalm

LEMMA CalmStep ==
    ASSUME PrepInv, [Next]_vars
    PROVE  Calm(s, s')
<1>1. PICK n \in 0 .. reopens : s \in State(n, edits) /\ Fits(s)
  BY DEF PrepInv
<1>2. n \in Nat /\ edits \in Nat
  BY DEF PrepInv
<1>3. Shape(s) /\ (s.main.at = "refresh" => s.p.at = "done")
  BY <1>1, <1>2, ShapeOf DEF Fits, Core, Staged
<1>4. CASE Written
  <2>1. PICK yes \in BOOLEAN : s.chain # <<>> /\ s' = Resumed(Popped(s), Head(s.chain), yes)
    BY <1>4 DEF Written, Popped
  <2>2. /\ Popped(s) \in State(n, edits) /\ Fits(Popped(s)) /\ Head(s.chain) \in Who
        /\ ~Has(Popped(s), Head(s.chain)) /\ MayAwait(Popped(s), Head(s.chain))
    BY <1>1, <1>2, <2>1, PoppedFits
  <2> QED
    BY <1>2, <1>3, <2>1, <2>2, PoppedCalm, ResumedCalm, CalmOn
<1>5. CASE Parsed
  BY <1>3, <1>5, ParsedCalm DEF Parsed
<1>6. CASE Scanned
  BY <1>3, <1>6, ScannedCalm DEF Scanned
<1>7. CASE Landed
  <2>1. s.t.at = "continue" /\ s' \in {TLanded(s, TRUE), TLanded(s, FALSE), TDone(s, "failed")}
    BY <1>7 DEF Landed
  <2> QED
    BY <1>3, <2>1, TLandedCalm, TDoneCalm
<1>8. CASE Checked
  <2>1. s.main.at = "work" /\ \E found : s' = Analysed(s, found)
    BY <1>8 DEF Checked
  <2>2. Moves(s, s)
    BY DEF Moves
  <2> QED
    BY <1>3, <2>1, <2>2, AnalysedCalm
<1>9. ASSUME NEW r \in Reviews, Respond(r) PROVE Calm(s, s')
  <2> DEFINE o == "handled"
  <2>1. s' = Answer(s, r, o) /\ o \in Decisions
    BY <1>9 DEF Respond, Decisions
  <2> HIDE DEF o
  <2> QED
    BY <1>1, <1>2, <2>1, AnswerCalm
<1>10. CASE RespondPreview
  <2> DEFINE d == Claim(s)
  <2>1. /\ s.pv.parked /\ s.pv.shown
        /\ \/ \E o : s' = Finish(d, o)
           \/ s' = PlanningIs(d, TRUE)
    BY <1>10 DEF RespondPreview, PlanningIs
  <2>2. Settled(s) /\ AutoBoots(s)
    BY <1>1, <2>1, ParkedFacts DEF Settled, AutoBoots, StagesDone
  <2>3. Shape(d) /\ Calm(s, d) /\ d.main = s.main /\ d.fin = s.fin /\ d.p = s.p /\ d.t = s.t
    BY <1>3, AnswerKeepsCalm
  <2> HIDE DEF d
  <2>4. Settled(d) /\ AutoBoots(d)
    BY <2>2, <2>3 DEF Settled, AutoBoots
  <2>5. Calm(d, PlanningIs(d, TRUE))
    BY <2>3, AnswerKeepsCalm
  <2>6. \A o : Calm(d, Finish(d, o))
    BY <2>3, <2>4, FinishCalm
  <2>7. Calm(d, s')
    BY <2>1, <2>5, <2>6
  <2> QED
    BY <2>3, <2>7, CalmOn
<1>11. CASE UsesPlanned
  <2> DEFINE d == PlanningIs(s, FALSE)
  <2>1. s.planning /\ ((\E o : s' = Finish(d, o)) \/ s' = Unclaim(s))
    BY <1>11 DEF UsesPlanned, PlanningIs
  <2>2. Settled(s) /\ AutoBoots(s)
    BY <1>1, <2>1, ParkedWaits DEF Waits, Settled, AutoBoots, StagesDone
  <2>3. Shape(d) /\ Calm(s, d) /\ d.main = s.main /\ d.fin = s.fin /\ d.p = s.p /\ d.t = s.t /\ Calm(s, Unclaim(s))
    BY <1>3, AnswerKeepsCalm
  <2> HIDE DEF d
  <2>4. Settled(d) /\ AutoBoots(d)
    BY <2>2, <2>3 DEF Settled, AutoBoots
  <2> QED
    BY <2>1, <2>3, <2>4, FinishCalm, CalmOn
<1>12. CASE DirectoryReady
  <2>1. AutoBoots(s)
    BY <1>1, <1>12, AutoOf DEF DirectoryReady, Active
  <2> QED
    BY <1>3, <1>12, <2>1, PlannedCalm DEF DirectoryReady
<1>13. CASE EngineStarted
  <2>1. AutoBoots(s)
    BY <1>1, <1>13, AutoOf DEF EngineStarted, Active
  <2> QED
    BY <1>3, <1>13, <2>1, StartedCalm DEF EngineStarted
<1>14. ASSUME NEW r \in Reviews, Reopen(r) PROVE Calm(s, s')
  <2>1. CASE s.pv.parked /\ s.pv.shown /\ s' = ResumeAt(s, r)
    <3>1. Settled(s)
      BY <1>1, <2>1, ParkedFacts DEF Settled, StagesDone
    <3> QED
      BY <1>3, <2>1, <3>1, ResumeAtCalm
  <2>2. CASE s' = [s EXCEPT !.main.want = @ \cup {r}]
    <3>1. s' = WantMore(s, s.main.want \cup {r})
      BY <2>2 DEF WantMore
    <3> QED
      BY <1>3, <3>1, WantCalm
  <2>3. CASE s.main.at = "gate" /\ s' = Analysed(ParkGate([s EXCEPT !.main.want = {r}], "checkup", Nobody), "found")
    <3>1. s' = Analysed(ParkGate(WantMore(s, {r}), "checkup", Nobody), "found")
      BY <2>3 DEF WantMore
    <3> QED
      BY <1>3, <2>3, <3>1, GateReopensCalm
  <2>4. CASE s' = Push([s EXCEPT !.prep.reopened = TRUE,
                                 !.again = Append(@, [at |-> "reset", out |-> "none"])],
                       Again(Len(s.again) + 1))
    BY <1>3, <2>4, BesideCalm
  <2> QED
    BY <1>14, <2>1, <2>2, <2>3, <2>4 DEF Reopen
<1>15. CASE StopTurn
  BY <1>1, <1>2, <1>15, StoppedCalm DEF StopTurn, Open
<1>16. CASE Edit
  BY <1>3, <1>16, EditedCalm DEF Edit
<1>17. CASE UNCHANGED vars
  BY <1>3, <1>17 DEF vars, Calm, NotFresh
<1> QED
  BY <1>4, <1>5, <1>6, <1>7, <1>8, <1>9, <1>10, <1>11, <1>12, <1>13, <1>14, <1>15, <1>16, <1>17 DEF Next

\* The invariant of a stop: what still computes in a turn that was stopped will find its
\* signal or its flag, or fails because its branch is gone.
THEOREM StoppedTurnDies == Spec => []Still(s)
<1>1. Init => Still(s)
  BY DEF Init, Fresh, Still, Ready
<1>2. PrepInv /\ Still(s) /\ [Next]_vars => Still(s)'
  BY CalmStep DEF Calm
<1> QED
  BY <1>1, <1>2, PrepInvariant, PTL DEF Spec

\* After a stop no gate is parked by a pass that was computing when the user stopped the
\* turn: whatever it finds is recorded as cancelled.
THEOREM NothingParksAfterStop == Spec => NothingFreshAfterStop
<1> DEFINE quiet == \A r \in Reviews :
                        s.stopped /\ s'.gate[r] # s.gate[r]
                          => s'.gate[r] \notin {P, T} /\ (r = "checkup" => s'.gate[r] = Nobody)
<1>1. PrepInv /\ Still(s) /\ [Next]_vars => [quiet]_s
  BY CalmStep DEF Calm, NotFresh
<1> QED
  BY <1>1, PrepInvariant, StoppedTurnDies, PTL DEF Spec, NothingFreshAfterStop

=============================================================================
