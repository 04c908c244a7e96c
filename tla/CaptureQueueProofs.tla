------------------------- MODULE CaptureQueueProofs -------------------------
(***************************************************************************)
(* Proofs about CaptureQueue for any chats, turns, policies and limits.    *)
(* The inductive invariant says where the job of a run stands, that what   *)
(* was learned is out of every run's hands, and that a turn without a row  *)
(* is new or below the watermark.  The second half adds to it the limits   *)
(* of the journal, its stamps and watermarks, who owns a job in flight,    *)
(* and that it is the oldest.                                              *)
(***************************************************************************)
EXTENDS CaptureQueue, Sequences, FiniteSetTheorems, WellFoundedInduction, TLAPS

States == OpenStatus \cup Terminal \cup {"none"}

---------------------------------------------------------------------------
(* Extremes of sets of numbers *)

LEMMA LeastExists ==
    ASSUME NEW S, S \subseteq Nat, S # {}
    PROVE  \E n \in S : \A k \in S : n <= k
<1>1. PICK n \in S : \A k \in S : ~(<<k, n>> \in OpToRel(<, Nat))
  BY NatLessThanWellFounded, WFMin
<1>2. \A k \in S : ~(k < n)
  BY <1>1 DEF OpToRel
<1>. QED BY <1>2

\* A finite set of numbers is bounded: a shortest unbounded prefix of an
\* enumeration of it would have a last element.
LEMMA FiniteIsBounded ==
    ASSUME NEW S, S \subseteq Nat, IsFiniteSet(S)
    PROVE  \E b \in Nat : \A n \in S : n <= b
<1>1. PICK seq \in Seq(S) : \A s \in S : \E k \in 1 .. Len(seq) : seq[k] = s
  BY DEF IsFiniteSet
<1>2. Len(seq) \in Nat /\ \A k \in 1 .. Len(seq) : seq[k] \in Nat
  <2>1. Len(seq) \in Nat
    OBVIOUS
  <2>2. ASSUME NEW k \in 1 .. Len(seq) PROVE seq[k] \in S
    OBVIOUS
  <2>. QED BY <2>1, <2>2
<1> DEFINE Bounded(k) == \E b \in Nat : \A j \in 1 .. k : seq[j] <= b
           Bad == {k \in Nat : k <= Len(seq) /\ ~Bounded(k)}
<1>3. Bad = {}
  <2>1. SUFFICES ASSUME Bad # {} PROVE FALSE
    OBVIOUS
  <2>2. PICK k \in Bad : \A j \in Bad : k <= j
    <3>1. Bad \subseteq Nat
      OBVIOUS
    <3> HIDE DEF Bad
    <3>. QED BY <2>1, <3>1, LeastExists
  <2>3. k \in Nat /\ k <= Len(seq) /\ ~Bounded(k)
    OBVIOUS
  <2>4. Bounded(0)
    <3>1. \A j \in 1 .. 0 : seq[j] <= 0
      OBVIOUS
    <3>. QED BY <3>1
  <2>5. k # 0
    BY <2>3, <2>4
  <2>6. Bounded(k - 1)
    <3>1. k - 1 \in Nat /\ k - 1 <= Len(seq) /\ ~(k <= k - 1)
      BY <2>3, <2>5, <1>2
    <3> HIDE DEF Bounded
    <3>. QED BY <3>1, <2>2
  <2>7. PICK b \in Nat : \A j \in 1 .. (k - 1) : seq[j] <= b
    BY <2>6
  <2>8. seq[k] \in Nat
    BY <1>2, <2>3, <2>5
  <2>9. PICK e \in Nat : b <= e /\ seq[k] <= e
    <3>1. \A n \in Nat : \E e \in Nat : b <= e /\ n <= e
      <4>1. TAKE n \in Nat
      <4>2. CASE b <= n
        <5>1. b <= n /\ n <= n
          BY <4>2
        <5>. WITNESS n \in Nat
        <5>. QED BY <5>1
      <4>3. CASE n <= b
        <5>1. b <= b /\ n <= b
          BY <4>3
        <5>. WITNESS b \in Nat
        <5>. QED BY <5>1
      <4>. QED BY <4>2, <4>3
    <3>. QED BY <3>1, <2>8
  <2>10. \A j \in 1 .. k : seq[j] <= e
    <3>1. TAKE j \in 1 .. k
    <3>2. CASE j = k
      BY <3>2, <2>9
    <3>3. CASE j # k
      <4>1. j \in 1 .. (k - 1) /\ j \in 1 .. Len(seq)
        BY <3>3, <2>3, <1>2
      <4>2. seq[j] \in Nat /\ seq[j] <= b
        BY <4>1, <2>7, <1>2
      <4>3. \A x, y, z \in Nat : x <= y /\ y <= z => x <= z
        OBVIOUS
      <4>. QED BY <4>2, <4>3, <2>7, <2>9
    <3>. QED BY <3>2, <3>3
  <2>. QED BY <2>10, <2>3
<1>4. Bounded(Len(seq))
  <2> HIDE DEF Bounded
  <2>. QED BY <1>2, <1>3
<1>. QED BY <1>1, <1>4

LEMMA LargestIsLargest ==
    ASSUME NEW S, S \subseteq Nat, S # {}, NEW b \in Nat, \A n \in S : n <= b
    PROVE  Largest(S) \in S /\ \A n \in S : n <= Largest(S)
<1> DEFINE D == {k \in Nat : b - k \in S}
<1>1. D \subseteq Nat /\ D # {}
  <2>1. PICK n \in S : TRUE
    OBVIOUS
  <2>2. b - n \in Nat /\ b - (b - n) = n
    OBVIOUS
  <2>. QED BY <2>2
<1>2. PICK d \in D : \A e \in D : d <= e
  <2> HIDE DEF D
  <2>. QED BY <1>1, LeastExists
<1>3. b - d \in S /\ d \in Nat
  OBVIOUS
<1>4. ASSUME NEW n \in S PROVE n <= b - d
  <2>1. b - n \in Nat /\ b - (b - n) = n
    OBVIOUS
  <2>2. b - n \in D
    BY <2>1
  <2>3. d <= b - n
    BY <2>2, <1>2
  <2>. QED BY <2>1, <2>3, <1>3
<1>. QED BY <1>3, <1>4 DEF Largest

LEMMA TurnsFinite == IsFiniteSet(Turns)
BY TurnsAssumption, FS_Product DEF Turns

LEMMA TurnParts ==
    \A t \in Turns : ChatOf(t) \in Chats /\ t[2] \in Numbers /\ t[2] \in Nat
BY TurnsAssumption DEF Turns, ChatOf

---------------------------------------------------------------------------
(* The journal *)

\* The outcomes "st" are on disk, but some that are final may be pruned.
Kept(st) ==
    /\ status' \in [Turns -> States]
    /\ watermark' \in [Chats -> Nat]
    /\ \A c \in Chats : watermark[c] <= watermark'[c]
    /\ \A t \in Turns :
         \/ status'[t] = st[t]
         \/ st[t] \in Terminal /\ status'[t] = "none" /\ t[2] <= watermark'[ChatOf(t)]

LEMMA RaisedCovers ==
    ASSUME watermark \in [Chats -> Nat], NEW c \in Chats, NEW old \in SUBSET Turns
    PROVE  /\ Raised(c, old) \in Nat
           /\ watermark[c] <= Raised(c, old)
           /\ \A t \in old : ChatOf(t) = c => t[2] <= Raised(c, old)
           /\ Raised(c, old) = watermark[c] \/ \E t \in old \cap TurnsOf(c) : Raised(c, old) = t[2]
<1> DEFINE S == {watermark[c]} \cup {t[2] : t \in old \cap TurnsOf(c)}
<1>1. S \subseteq Nat /\ watermark[c] \in S
  BY TurnParts
<1>2. \A t \in old : ChatOf(t) = c => t[2] \in S
  BY DEF TurnsOf
<1>3. PICK b \in Nat : \A n \in S : n <= b
  <2>1. S \subseteq Numbers \cup {watermark[c]}
    BY TurnParts
  <2>2. IsFiniteSet(Numbers \cup {watermark[c]})
    BY TurnsAssumption, FS_Singleton, FS_Union
  <2>3. IsFiniteSet(S)
    <3> HIDE DEF S
    <3>. QED BY <2>1, <2>2, FS_Subset
  <2> HIDE DEF S
  <2>. QED BY <1>1, <2>3, FiniteIsBounded
<1>4. Largest(S) \in S /\ \A n \in S : n <= Largest(S)
  <2> HIDE DEF S
  <2>. QED BY <1>1, <1>3, LargestIsLargest
<1>5. Raised(c, old) = Largest(S)
  BY DEF Raised
<1>6. \A n \in S : n = watermark[c] \/ \E t \in old \cap TurnsOf(c) : n = t[2]
  OBVIOUS
<1> HIDE DEF S
<1>. QED BY <1>1, <1>2, <1>4, <1>5, <1>6

LEMMA WriteKeeps ==
    ASSUME watermark \in [Chats -> Nat], NEW st \in [Turns -> States], NEW at, Write(st, at)
    PROVE  Kept(st)
<1> DEFINE old == Excess(st, at)
<1>1. old \in SUBSET Turns /\ \A t \in old : st[t] \in Terminal
  BY DEF Excess
<1>2. /\ status' = [t \in Turns |-> IF t \in old THEN "none" ELSE st[t]]
      /\ watermark' = [c \in Chats |-> Raised(c, old)]
  BY DEF Write
<1> HIDE DEF old
<1>3. \A c \in Chats : Raised(c, old) \in Nat /\ watermark[c] <= Raised(c, old)
  BY <1>1, RaisedCovers
<1>4. \A t \in old : t[2] <= watermark'[ChatOf(t)]
  BY <1>1, <1>2, RaisedCovers, TurnParts
<1>5. status' \in [Turns -> States]
  BY <1>2 DEF States
<1>. QED BY <1>1, <1>2, <1>3, <1>4, <1>5 DEF Kept

LEMMA TornKeeps ==
    ASSUME watermark \in [Chats -> Nat], NEW st \in [Turns -> States], NEW at, Torn(st, at)
    PROVE  Kept(st)
<1>1. PICK raised \in SUBSET Excess(st, at) : \E deleted \in SUBSET raised :
        /\ status' = [t \in Turns |-> IF t \in deleted THEN "none" ELSE st[t]]
        /\ watermark' = [c \in Chats |-> Raised(c, raised)]
  BY DEF Torn
<1>2. PICK deleted \in SUBSET raised :
        /\ status' = [t \in Turns |-> IF t \in deleted THEN "none" ELSE st[t]]
        /\ watermark' = [c \in Chats |-> Raised(c, raised)]
  BY <1>1
<1>3. raised \in SUBSET Turns /\ \A t \in raised : st[t] \in Terminal
  BY DEF Excess
<1>4. \A c \in Chats : Raised(c, raised) \in Nat /\ watermark[c] <= Raised(c, raised)
  BY <1>3, RaisedCovers
<1>5. \A t \in deleted : t[2] <= watermark'[ChatOf(t)]
  BY <1>2, <1>3, RaisedCovers, TurnParts
<1>6. status' \in [Turns -> States]
  BY <1>2 DEF States
<1>. QED BY <1>2, <1>3, <1>4, <1>5, <1>6 DEF Kept

\* A statement that deletes nothing.
LEMMA PlainKeeps ==
    ASSUME watermark \in [Chats -> Nat], watermark' = watermark,
           NEW st \in [Turns -> States], status' = st
    PROVE  Kept(st)
BY DEF Kept

\* next() returns a job of the chat that is pending or ready, or none.
LEMMA NextInIsDue ==
    ASSUME NEW c \in Chats, stamp \in [Turns -> Nat], NEW st
    PROVE  \/ NextIn(c, st) = NoJob
           \/ /\ NextIn(c, st) \in TurnsOf(c)
              /\ st[NextIn(c, st)] \in {"pending", "ready"}
<1> DEFINE due == {t \in TurnsOf(c) : st[t] \in {"pending", "ready"}}
<1>1. CASE due = {}
  BY <1>1 DEF NextIn
<1>2. CASE due # {}
  <2> DEFINE S == {stamp[t] : t \in due}
  <2>1. S \subseteq Nat /\ S # {}
    BY <1>2 DEF TurnsOf
  <2>2. PICK n \in S : \A k \in S : n <= k
    <3> HIDE DEF S
    <3>. QED BY <2>1, LeastExists
  <2>3. PICK t \in due : n = stamp[t]
    OBVIOUS
  <2>4. \A u \in due : stamp[t] <= stamp[u]
    BY <2>2, <2>3
  <2>5. NextIn(c, st) = CHOOSE x \in due : \A u \in due : stamp[x] <= stamp[u]
    BY <1>2 DEF NextIn
  <2>6. NextIn(c, st) \in due
    <3> HIDE DEF due
    <3>. QED BY <2>4, <2>5
  <2>. QED BY <2>6
<1>. QED BY <1>1, <1>2

---------------------------------------------------------------------------
(* The inductive invariant *)

\* A run that was not aborted stands where its job's row says, and one that is
\* past its answer holds the row whatever was requested.
RunOK(c) ==
    Running(c) /\ run[c].at # "loop" =>
        /\ Job(c) \in TurnsOf(c)
        /\ run[c].at = "answered" => status[Job(c)] = "ready"
        /\ run[c].at = "applying" => status[Job(c)] = "applying"
        /\ ~Aborted(c) =>
             /\ run[c].at = "resolving" => status[Job(c)] = "pending"
             /\ run[c].at = "asking" => status[Job(c)] = "running"
             /\ run[c].at = "claiming" => status[Job(c)] = "applying"

\* A run may still commit the observations of t.
InHand(t) ==
    /\ Running(ChatOf(t)) /\ Job(ChatOf(t)) = t
    /\ \/ run[ChatOf(t)].at = "applying"
       \/ run[ChatOf(t)].at = "claiming" /\ ~Aborted(ChatOf(t))

\* What was learned is neither waiting nor in hand.
LearnedOK(t) ==
    learned[t] = 0 \/ (learned[t] = 1 /\ status[t] \in Terminal \cup {"applying", "none"} /\ ~InHand(t))

\* A turn without a row is new, or the watermark covers it.
RecordedOK(t) ==
    /\ t \notin launched => status[t] = "none" /\ learned[t] = 0
    /\ t \in launched /\ status[t] = "none" => t[2] <= watermark[ChatOf(t)]

CaptureInv ==
    /\ TypeOK
    /\ \A c \in Chats : RunOK(c)
    /\ \A t \in Turns : LearnedOK(t) /\ RecordedOK(t)

\* Outcomes that a statement may leave behind: no row comes or goes, what is final
\* stays, and what is being applied is only finished.
Legal(st) ==
    /\ st \in [Turns -> States]
    /\ \A t \in Turns :
         /\ st[t] = "none" <=> status[t] = "none"
         /\ status[t] \in Terminal => st[t] = status[t]
         /\ status[t] = "applying" => st[t] \in Terminal \cup {"applying"}

\* What no step of a run, cancellation or restart ever does to an outcome.
OutcomesStand ==
    \A t \in Turns :
        /\ status[t] \in Terminal => status'[t] \in {status[t], "none"}
        /\ status[t] = "none" => status'[t] = "none"

\* The part of the next state that every step has to establish.
Good ==
    /\ status' \in [Turns -> States] /\ watermark' \in [Chats -> Nat]
    /\ \A c \in Chats : RunOK(c)'
    /\ \A t \in Turns : LearnedOK(t)' /\ RecordedOK(t)'
    /\ OutcomesStand

LEMMA KeptLegal ==
    ASSUME CaptureInv, NEW st, Legal(st), Kept(st), UNCHANGED <<launched, learned>>
    PROVE  /\ status' \in [Turns -> States] /\ watermark' \in [Chats -> Nat]
           /\ \A t \in Turns : RecordedOK(t)'
           /\ OutcomesStand
           /\ \A t \in Turns : status[t] \in Terminal \cup {"applying", "none"}
                  => status'[t] \in Terminal \cup {"applying", "none"}
           /\ \A t \in Turns : st[t] \notin Terminal => status'[t] = st[t]
<1>1. status' \in [Turns -> States] /\ watermark' \in [Chats -> Nat]
  BY DEF Kept
<1>2. ASSUME NEW t \in Turns PROVE RecordedOK(t)'
  <2>1. ChatOf(t) \in Chats /\ t[2] \in Nat
    BY TurnParts
  <2>2. watermark[ChatOf(t)] \in Nat /\ watermark'[ChatOf(t)] \in Nat
        /\ watermark[ChatOf(t)] <= watermark'[ChatOf(t)]
    BY <2>1 DEF Kept, CaptureInv, TypeOK
  <2>3. CASE t \notin launched
    <3>1. st[t] = "none" /\ learned'[t] = 0
      BY <2>3 DEF CaptureInv, RecordedOK, Legal
    <3>2. status'[t] = "none"
      BY <3>1 DEF Kept
    <3>. QED BY <2>3, <3>1, <3>2 DEF RecordedOK
  <2>4. CASE t \in launched /\ st[t] = "none"
    <3>1. t[2] <= watermark[ChatOf(t)]
      BY <2>4 DEF CaptureInv, RecordedOK, Legal
    <3>2. t[2] <= watermark'[ChatOf(t)]
      BY <2>1, <2>2, <3>1
    <3>. QED BY <2>4, <3>2 DEF RecordedOK, ChatOf
  <2>5. CASE t \in launched /\ st[t] # "none"
    <3>1. status'[t] = "none" => t[2] <= watermark'[ChatOf(t)]
      BY <2>5 DEF Kept
    <3>. QED BY <2>5, <3>1 DEF RecordedOK, ChatOf
  <2>. QED BY <2>3, <2>4, <2>5
<1>3. OutcomesStand
  BY DEF OutcomesStand, Legal, Kept
<1>4. \A t \in Turns : status[t] \in Terminal \cup {"applying", "none"}
         => status'[t] \in Terminal \cup {"applying", "none"}
  BY DEF Legal, Kept
<1>5. \A t \in Turns : st[t] \notin Terminal => status'[t] = st[t]
  BY DEF Kept
<1>. QED BY <1>1, <1>2, <1>3, <1>4, <1>5

\* A step of one chat: the rows of the others are untouched, and so are their runs.
LEMMA ChatStep ==
    ASSUME CaptureInv, NEW c \in Chats, NEW st, Legal(st), Kept(st),
           \A u \in Turns : ChatOf(u) # c => st[u] = status[u],
           NEW r \in Runs \cup {NoRun}, run' = [run EXCEPT ![c] = r],
           UNCHANGED <<launched, learned>>,
           RunOK(c)',
           \A u \in TurnsOf(c) : learned[u] = 1 => ~InHand(u)'
    PROVE  Good
<1>1. run \in [Chats -> Runs \cup {NoRun}]
  BY DEF CaptureInv, TypeOK
<1>2. \A d \in Chats \ {c} : run'[d] = run[d]
  BY <1>1
<1>3. ASSUME NEW d \in Chats PROVE RunOK(d)'
  <2>1. CASE d = c
    BY <2>1
  <2>2. CASE d # c
    <3>1. run'[d] = run[d]
      BY <1>2, <2>2
    <3>2. ASSUME Running(d), run[d].at # "loop", st[Job(d)] \notin Terminal
          PROVE  status'[Job(d)] = status[Job(d)]
      <4>1. Job(d) \in TurnsOf(d)
        BY <3>2 DEF CaptureInv, RunOK
      <4>2. Job(d) \in Turns /\ ChatOf(Job(d)) # c
        BY <4>1, <2>2 DEF TurnsOf
      <4>. QED BY <4>2, <3>2, KeptLegal
    <3>3. RunOK(d)
      BY DEF CaptureInv
    <3>4. Running(d) /\ run[d].at # "loop" => st[Job(d)] = status[Job(d)]
      BY <3>3, <2>2 DEF RunOK, TurnsOf
    <3>. QED BY <3>1, <3>2, <3>3, <3>4 DEF RunOK, Running, Job, Aborted, Terminal
  <2>. QED BY <2>1, <2>2
<1>4. ASSUME NEW t \in Turns PROVE LearnedOK(t)'
  <2>1. LearnedOK(t) /\ ChatOf(t) \in Chats
    BY TurnParts DEF CaptureInv
  <2>2. CASE learned[t] = 0
    BY <2>2 DEF LearnedOK
  <2>3. CASE learned[t] = 1
    <3>1. status[t] \in Terminal \cup {"applying", "none"} /\ ~InHand(t)
      BY <2>1, <2>3 DEF LearnedOK
    <3>2. status'[t] \in Terminal \cup {"applying", "none"}
      BY <3>1, KeptLegal
    <3>3. ~InHand(t)'
      <4>1. CASE ChatOf(t) = c
        BY <4>1, <2>3 DEF TurnsOf
      <4>2. CASE ChatOf(t) # c
        <5>1. run'[ChatOf(t)] = run[ChatOf(t)]
          BY <4>2, <2>1, <1>2
        <5>. QED BY <5>1, <3>1 DEF InHand, Running, Job, Aborted, ChatOf
      <4>. QED BY <4>1, <4>2
    <3>. QED BY <2>3, <3>2, <3>3 DEF LearnedOK
  <2>. QED BY <2>1, <2>2, <2>3 DEF LearnedOK
<1>. QED BY <1>3, <1>4, KeptLegal DEF Good

\* A step after which no run holds a job.
LEMMA IdleStep ==
    ASSUME CaptureInv, NEW st, Legal(st), Kept(st),
           \A c \in Chats : run'[c] \in {NoRun, Fresh},
           UNCHANGED <<launched, learned>>
    PROVE  Good
<1>1. ASSUME NEW d \in Chats PROVE RunOK(d)'
  BY DEF RunOK, Running, Fresh
<1>2. ASSUME NEW t \in Turns PROVE LearnedOK(t)'
  <2>1. LearnedOK(t) /\ ChatOf(t) \in Chats
    BY TurnParts DEF CaptureInv
  <2>2. ~InHand(t)'
    BY <2>1 DEF InHand, Running, Fresh, ChatOf
  <2>. QED BY <2>1, <2>2, KeptLegal DEF LearnedOK
<1>. QED BY <1>1, <1>2, KeptLegal DEF Good

---------------------------------------------------------------------------
(* What the statements of the journal leave behind *)

LEMMA FinishedLegal ==
    ASSUME CaptureInv, NEW t \in Turns, NEW s \in Terminal
    PROVE  /\ Legal(Finished(t, s))
           /\ \A u \in Turns : u # t => Finished(t, s)[u] = status[u]
BY DEF Legal, Finished, Open, CaptureInv, TypeOK, States, OpenStatus, Terminal

LEMMA CancelledLegal ==
    ASSUME CaptureInv, NEW c \in Chats
    PROVE  /\ Legal(Cancelled(c))
           /\ \A u \in Turns : ChatOf(u) # c => Cancelled(c)[u] = status[u]
BY DEF Legal, Cancelled, Open, CaptureInv, TypeOK, States, OpenStatus, Terminal

LEMMA RecoveredLegal ==
    ASSUME CaptureInv
    PROVE  Legal(Recovered) /\ Legal(Resumed)
BY DEF Legal, Recovered, Resumed, CaptureInv, TypeOK, States, OpenStatus, Terminal

LEMMA SameLegal ==
    ASSUME CaptureInv
    PROVE  Legal(status)
BY DEF Legal, CaptureInv, TypeOK, States

LEMMA MovedLegal ==
    ASSUME CaptureInv, NEW t \in Turns, status[t] \in {"pending", "running", "ready"},
           NEW s \in OpenStatus
    PROVE  /\ Legal([status EXCEPT ![t] = s])
           /\ \A u \in Turns : u # t => [status EXCEPT ![t] = s][u] = status[u]
           /\ [status EXCEPT ![t] = s][t] = s
BY DEF Legal, CaptureInv, TypeOK, States, OpenStatus, Terminal

\* A statement that leaves the journal alone.
LEMMA SameKept ==
    ASSUME CaptureInv, UNCHANGED journal
    PROVE  Kept(status)
BY DEF Kept, journal, CaptureInv, TypeOK, States

\* A chat's own jobs.
LEMMA OwnJob ==
    ASSUME CaptureInv, NEW c \in Chats, Running(c), run[c].at # "loop"
    PROVE  /\ Job(c) \in Turns /\ ChatOf(Job(c)) = c /\ Job(c) \in TurnsOf(c)
           /\ run[c] \in Runs
BY DEF CaptureInv, RunOK, TurnsOf, TypeOK, Running

---------------------------------------------------------------------------
(* Every action keeps the invariant, and moves outcomes forward *)

Committed(t) ==
    /\ learned[t] = 0 /\ status[t] = "applying"
    /\ learned' = [learned EXCEPT ![t] = 1]
    /\ UNCHANGED <<status, launched>>

NewlyLaunched(t) ==
    /\ t \notin launched /\ launched' = launched \cup {t}
    /\ UNCHANGED learned
    /\ status[t] = "none"
    /\ \A u \in Turns \ {t} :
         /\ status[u] \in OpenStatus => status'[u] = status[u]
         /\ status[u] \in Terminal => status'[u] \in {status[u], "none"}
         /\ status[u] = "none" => status'[u] = "none"

Progress ==
    \/ OutcomesStand /\ UNCHANGED <<launched, learned>>
    \/ \E t \in Turns : Committed(t) \/ NewlyLaunched(t)

\* The rest of the type invariant.
RestOK ==
    /\ stamp \in [Turns -> Nat]
    /\ bound \in [Turns -> Policies] /\ policy \in [Chats -> Policies]
    /\ closed \subseteq Chats /\ changing \subseteq Chats
    /\ launches \subseteq Turns /\ launched \subseteq Turns
    /\ run \in [Chats -> Runs \cup {NoRun}]
    /\ server \in {"up", "stopping", "down"} /\ stops \in Nat
    /\ learned \in [Turns -> Nat]

LEMMA Together ==
    ASSUME Good, RestOK'
    PROVE  CaptureInv'
BY DEF Good, RestOK, CaptureInv, TypeOK, States

LEMMA RestNow ==
    ASSUME CaptureInv
    PROVE  RestOK
BY DEF RestOK, CaptureInv, TypeOK

\* The end of one job.
LEMMA BackRun ==
    ASSUME CaptureInv, NEW c \in Chats, Running(c), Back(c)
    PROVE  /\ run'[c] \in Runs /\ run'[c].at = "loop"
           /\ run' = [run EXCEPT ![c] = run'[c]]
           /\ run' \in [Chats -> Runs \cup {NoRun}]
           /\ launches' \subseteq Turns
<1> DEFINE r == [run[c] EXCEPT !.at = "loop", !.job = NoJob]
<1>1. run \in [Chats -> Runs \cup {NoRun}] /\ run[c] \in Runs
  BY DEF CaptureInv, TypeOK, Running
<1>2. r \in Runs /\ r.at = "loop"
  BY <1>1 DEF Runs, Points
<1>3. run' = [run EXCEPT ![c] = r]
  BY <1>1 DEF Back
<1>4. launches' \subseteq Turns
  BY DEF Back, CaptureInv, TypeOK
<1> HIDE DEF r
<1>. QED BY <1>1, <1>2, <1>3, <1>4

LEMMA BackStep ==
    ASSUME CaptureInv, NEW c \in Chats, Running(c), Back(c),
           NEW st, Legal(st), Kept(st), \A u \in Turns : ChatOf(u) # c => st[u] = status[u],
           UNCHANGED <<stamp, bound, chats, host, launched, learned>>
    PROVE  CaptureInv' /\ Progress
<1>1. /\ run'[c] \in Runs /\ run'[c].at = "loop"
      /\ run' = [run EXCEPT ![c] = run'[c]]
      /\ run' \in [Chats -> Runs \cup {NoRun}]
      /\ launches' \subseteq Turns
  BY BackRun
<1>2. RunOK(c)'
  BY <1>1 DEF RunOK
<1>3. \A u \in TurnsOf(c) : ~InHand(u)'
  BY <1>1 DEF InHand, TurnsOf
<1>4. Good
  BY <1>1, <1>2, <1>3, ChatStep
<1>5. RestOK'
  BY <1>1, RestNow DEF RestOK, chats, host
<1>. QED BY <1>4, <1>5, Together DEF Progress, Good

LEMMA SettleStep ==
    ASSUME CaptureInv, NEW c \in Chats, Running(c), run[c].at # "loop",
           NEW s \in Terminal, Settle(c, s),
           UNCHANGED <<chats, host, launched, learned>>
    PROVE  CaptureInv' /\ Progress
<1> DEFINE st == Finished(Job(c), s)
<1>1. Job(c) \in Turns /\ ChatOf(Job(c)) = c
  BY OwnJob
<1>2. Legal(st) /\ \A u \in Turns : u # Job(c) => st[u] = status[u]
  BY <1>1, FinishedLegal
<1>3. Write(st, stamp) /\ UNCHANGED <<stamp, bound>> /\ Back(c)
  BY DEF Settle
<1> HIDE DEF st
<1>4. Kept(st)
  BY <1>2, <1>3, WriteKeeps DEF Legal, CaptureInv, TypeOK
<1>5. \A u \in Turns : ChatOf(u) # c => st[u] = status[u]
  BY <1>1, <1>2
<1>. QED BY <1>2, <1>3, <1>4, <1>5, BackStep

\* An aborted run drops its job and leaves the row alone.
LEMMA AbortStep ==
    ASSUME CaptureInv, NEW c \in Chats, Running(c), Back(c),
           UNCHANGED <<journal, chats, host, launched, learned>>
    PROVE  CaptureInv' /\ Progress
<1>1. Legal(status) /\ Kept(status)
  BY SameLegal, SameKept
<1>. QED BY <1>1, BackStep DEF journal

\* A run takes its job one boundary further.
LEMMA AdvanceStep ==
    ASSUME CaptureInv, NEW c \in Chats, Running(c), NEW t \in TurnsOf(c),
           status[t] \in {"pending", "running", "ready"},
           NEW s \in OpenStatus, status' = [status EXCEPT ![t] = s],
           NEW r \in Runs, run' = [run EXCEPT ![c] = r], r.job = t,
           \/ r.at = "asking" /\ s = "running"
           \/ r.at = "answered" /\ s = "ready"
           \/ r.at = "applying" /\ s = "applying",
           UNCHANGED <<stamp, watermark, bound, launches, chats, host, launched, learned>>
    PROVE  CaptureInv' /\ Progress
<1> DEFINE st == [status EXCEPT ![t] = s]
<1>1. t \in Turns /\ ChatOf(t) = c
  BY DEF TurnsOf
<1>2. Legal(st) /\ (\A u \in Turns : u # t => st[u] = status[u]) /\ st[t] = s
  BY <1>1, MovedLegal
<1>3. status' = st
  OBVIOUS
<1> HIDE DEF st
<1>4. Kept(st)
  BY <1>2, <1>3, PlainKeeps DEF Legal, CaptureInv, TypeOK
<1>5. run'[c] = r /\ run' \in [Chats -> Runs \cup {NoRun}]
  BY DEF CaptureInv, TypeOK
<1>6. RunOK(c)'
  BY <1>2, <1>3, <1>5 DEF RunOK, Job, Aborted, Running
<1>7. ASSUME NEW u \in TurnsOf(c), learned[u] = 1 PROVE ~InHand(u)'
  <2>1. u \in Turns /\ ChatOf(u) = c
    BY DEF TurnsOf
  <2>2. u # t
    BY <1>1, <1>7 DEF CaptureInv, LearnedOK, Terminal
  <2>. QED BY <1>5, <2>1, <2>2 DEF InHand, Job, ChatOf
<1>8. Good
  BY <1>1, <1>2, <1>4, <1>6, <1>7, ChatStep
<1>9. RestOK'
  BY <1>5, RestNow DEF RestOK, chats, host
<1>. QED BY <1>8, <1>9, Together DEF Progress, Good

\* A run goes to a point where it neither commits nor depends on its row.
LEMMA StayStep ==
    ASSUME CaptureInv, NEW c \in Chats, NEW r \in Runs \cup {NoRun}, run' = [run EXCEPT ![c] = r],
           NEW st, Legal(st), Kept(st), \A u \in Turns : ChatOf(u) # c => st[u] = status[u],
           r = NoRun \/ r.at = "loop" \/ (r.at \in {"committed", "publishing"} /\ r.job \in TurnsOf(c)),
           launches' \subseteq Turns,
           UNCHANGED <<stamp, bound, chats, host, launched, learned>>
    PROVE  CaptureInv' /\ Progress
<1>1. run'[c] = r /\ run' \in [Chats -> Runs \cup {NoRun}]
  BY DEF CaptureInv, TypeOK
<1>2. RunOK(c)'
  BY <1>1 DEF RunOK, Running, Job
<1>3. \A u \in TurnsOf(c) : ~InHand(u)'
  BY <1>1 DEF InHand, TurnsOf, Running
<1>4. Good
  BY <1>2, <1>3, ChatStep
<1>5. RestOK'
  BY <1>1, RestNow DEF RestOK, chats, host
<1>. QED BY <1>4, <1>5, Together DEF Progress, Good

LEMMA LoopStep ==
    ASSUME CaptureInv, NEW c \in Chats, Loop(c)
    PROVE  CaptureInv' /\ Progress
<1> DEFINE t == NextIn(c, status)
<1>1. Running(c) /\ run[c] \in Runs /\ run \in [Chats -> Runs \cup {NoRun}] /\ run[c].at = "loop"
  BY DEF Loop, At, Running, CaptureInv, TypeOK
<1>2. UNCHANGED <<chats, host, launched, learned>>
  BY DEF Loop
<1>3. t = NoJob \/ (t \in TurnsOf(c) /\ status[t] \in {"pending", "ready"})
  BY NextInIsDue DEF CaptureInv, TypeOK
<1>4. CASE UNCHANGED <<journal, launches>> /\ (Aborted(c) \/ t = NoJob)
  <2> DEFINE r == IF ~Blocked(c) /\ t # NoJob THEN Fresh ELSE NoRun
  <2>1. run' = [run EXCEPT ![c] = r]
    BY <1>4 DEF Loop
  <2>2. r \in Runs \cup {NoRun} /\ (r = NoRun \/ r.at = "loop")
    BY DEF Fresh, Runs, Points
  <2>3. Legal(status) /\ Kept(status) /\ launches' \subseteq Turns
    BY <1>4, SameLegal, SameKept, RestNow DEF RestOK
  <2> HIDE DEF r
  <2>. QED BY <2>1, <2>2, <2>3, <1>2, <1>4, StayStep DEF journal
<1>5. CASE /\ ~Aborted(c) /\ t # NoJob /\ ~Valid(t)
           /\ Write(Finished(t, "skipped"), stamp) /\ UNCHANGED <<stamp, bound, run>>
           /\ launches' = launches \ {t}
  <2> DEFINE st == Finished(t, "skipped")
  <2>1. t \in Turns /\ ChatOf(t) = c
    BY <1>3, <1>5 DEF TurnsOf
  <2>2. Legal(st) /\ \A u \in Turns : u # t => st[u] = status[u]
    BY <2>1, FinishedLegal DEF Terminal
  <2>3. Write(st, stamp)
    BY <1>5
  <2> HIDE DEF st
  <2>4. Kept(st)
    BY <2>2, <2>3, WriteKeeps DEF Legal, CaptureInv, TypeOK
  <2>5. run' = [run EXCEPT ![c] = run[c]]
    BY <1>1, <1>5
  <2>6. launches' \subseteq Turns
    BY <1>5, RestNow DEF RestOK
  <2>. QED BY <1>1, <1>2, <1>5, <2>1, <2>2, <2>4, <2>5, <2>6, StayStep
<1>6. CASE /\ t # NoJob /\ status[t] = "pending"
           /\ run' = [run EXCEPT ![c].at = "resolving", ![c].job = t]
           /\ UNCHANGED <<journal, launches>>
  <2> DEFINE r == [run[c] EXCEPT !.at = "resolving", !.job = t]
  <2>1. t \in Turns /\ ChatOf(t) = c /\ t \in TurnsOf(c)
    BY <1>3, <1>6 DEF TurnsOf
  <2>2. r \in Runs /\ r.at = "resolving" /\ r.job = t
    BY <1>1, <2>1 DEF Runs, Points, Awaits
  <2>3. run' = [run EXCEPT ![c] = r]
    BY <1>1, <1>6
  <2> HIDE DEF r
  <2>4. run'[c] = r /\ run' \in [Chats -> Runs \cup {NoRun}]
    BY <1>1, <2>2, <2>3
  <2>5. Legal(status) /\ Kept(status) /\ status' = status
    BY <1>6, SameLegal, SameKept DEF journal
  <2>6. RunOK(c)'
    BY <1>6, <2>1, <2>2, <2>4, <2>5 DEF RunOK, Job, Aborted
  <2>7. \A u \in TurnsOf(c) : ~InHand(u)'
    BY <2>2, <2>4 DEF InHand, TurnsOf
  <2>8. Good
    BY <1>2, <2>2, <2>3, <2>5, <2>6, <2>7, ChatStep
  <2>9. RestOK'
    BY <1>2, <1>6, <2>4, RestNow DEF RestOK, chats, host, journal
  <2>. QED BY <1>2, <2>8, <2>9, Together DEF Progress, Good
<1>7. CASE /\ t # NoJob /\ status[t] = "pending"
           /\ status' = [status EXCEPT ![t] = "running"]
           /\ run' = [run EXCEPT ![c].at = "asking", ![c].job = t]
           /\ UNCHANGED <<stamp, watermark, bound, launches>>
  <2> DEFINE r == [run[c] EXCEPT !.at = "asking", !.job = t]
  <2>1. t \in Turns /\ t \in TurnsOf(c)
    BY <1>3, <1>7 DEF TurnsOf
  <2>2. r \in Runs /\ r.at = "asking" /\ r.job = t
    BY <1>1, <2>1 DEF Runs, Points, Awaits
  <2>3. run' = [run EXCEPT ![c] = r]
    BY <1>1, <1>7
  <2> HIDE DEF r
  <2>4. status[t] \in {"pending", "running", "ready"} /\ "running" \in OpenStatus
    BY <1>7 DEF OpenStatus
  <2>5. /\ status' = [status EXCEPT ![t] = "running"]
        /\ UNCHANGED <<stamp, watermark, bound, launches, chats, host, launched, learned>>
    BY <1>2, <1>7
  <2> HIDE DEF t
  <2>. QED BY <1>1, <2>1, <2>2, <2>3, <2>4, <2>5, AdvanceStep
<1>8. CASE /\ t # NoJob /\ status[t] = "ready"
           /\ status' = [status EXCEPT ![t] = "applying"]
           /\ run' = [run EXCEPT ![c].at = "applying", ![c].job = t]
           /\ UNCHANGED <<stamp, watermark, bound, launches>>
  <2> DEFINE r == [run[c] EXCEPT !.at = "applying", !.job = t]
  <2>1. t \in Turns /\ t \in TurnsOf(c)
    BY <1>3, <1>8 DEF TurnsOf
  <2>2. r \in Runs /\ r.at = "applying" /\ r.job = t
    BY <1>1, <2>1 DEF Runs, Points
  <2>3. run' = [run EXCEPT ![c] = r]
    BY <1>1, <1>8
  <2> HIDE DEF r
  <2>4. status[t] \in {"pending", "running", "ready"} /\ "applying" \in OpenStatus
    BY <1>8 DEF OpenStatus
  <2>5. /\ status' = [status EXCEPT ![t] = "applying"]
        /\ UNCHANGED <<stamp, watermark, bound, launches, chats, host, launched, learned>>
    BY <1>2, <1>8
  <2> HIDE DEF t
  <2>. QED BY <1>1, <2>1, <2>2, <2>3, <2>4, <2>5, AdvanceStep
<1> HIDE DEF t
<1>9. \/ UNCHANGED <<journal, launches>> /\ (Aborted(c) \/ t = NoJob)
      \/ /\ ~Aborted(c) /\ t # NoJob /\ ~Valid(t)
         /\ Write(Finished(t, "skipped"), stamp) /\ UNCHANGED <<stamp, bound, run>>
         /\ launches' = launches \ {t}
      \/ /\ t # NoJob /\ status[t] = "pending"
         /\ run' = [run EXCEPT ![c].at = "resolving", ![c].job = t]
         /\ UNCHANGED <<journal, launches>>
      \/ /\ t # NoJob /\ status[t] = "pending"
         /\ status' = [status EXCEPT ![t] = "running"]
         /\ run' = [run EXCEPT ![c].at = "asking", ![c].job = t]
         /\ UNCHANGED <<stamp, watermark, bound, launches>>
      \/ /\ t # NoJob /\ status[t] = "ready"
         /\ status' = [status EXCEPT ![t] = "applying"]
         /\ run' = [run EXCEPT ![c].at = "applying", ![c].job = t]
         /\ UNCHANGED <<stamp, watermark, bound, launches>>
  BY Zenon DEF Loop, t
<1>. QED BY <1>4, <1>5, <1>6, <1>7, <1>8, <1>9

LEMMA MoveRun ==
    ASSUME CaptureInv, NEW c \in Chats, Running(c), NEW point \in Points, Move(c, point)
    PROVE  \E r \in Runs : /\ run' = [run EXCEPT ![c] = r]
                           /\ r.at = point /\ r.job = Job(c) /\ r.aborted = Aborted(c)
<1> DEFINE r == [run[c] EXCEPT !.at = point]
<1>1. run \in [Chats -> Runs \cup {NoRun}] /\ run[c] \in Runs
  BY DEF CaptureInv, TypeOK, Running
<1>2. r \in Runs /\ r.at = point /\ r.job = Job(c) /\ r.aborted = Aborted(c)
  BY <1>1 DEF Runs, Job, Aborted
<1>3. run' = [run EXCEPT ![c] = r]
  BY <1>1 DEF Move
<1> HIDE DEF r
<1>. QED BY <1>2, <1>3

\* One boundary further by Move.
LEMMA MoveOn ==
    ASSUME CaptureInv, NEW c \in Chats, Running(c), run[c].at # "loop",
           status[Job(c)] \in {"pending", "running", "ready"},
           NEW s \in OpenStatus, status' = [status EXCEPT ![Job(c)] = s],
           NEW point \in Points, Move(c, point),
           \/ point = "asking" /\ s = "running"
           \/ point = "answered" /\ s = "ready"
           \/ point = "applying" /\ s = "applying",
           UNCHANGED <<stamp, watermark, bound, launches, chats, host, launched, learned>>
    PROVE  CaptureInv' /\ Progress
<1>1. PICK r \in Runs : /\ run' = [run EXCEPT ![c] = r]
                        /\ r.at = point /\ r.job = Job(c)
  BY MoveRun
<1>2. Job(c) \in TurnsOf(c)
  BY OwnJob
<1>. QED BY <1>1, <1>2, AdvanceStep

LEMMA ResolveStep ==
    ASSUME CaptureInv, NEW c \in Chats, NEW outcome, Resolve(c, outcome)
    PROVE  CaptureInv' /\ Progress
<1>1. Running(c) /\ run[c].at = "resolving" /\ run[c].at # "loop"
      /\ UNCHANGED <<chats, host, launched, learned>>
  BY DEF Resolve, At
<1>2. CASE Back(c) /\ UNCHANGED journal
  BY <1>1, <1>2, AbortStep
<1>3. CASE Settle(c, "failed") \/ Settle(c, "skipped")
  BY <1>1, <1>3, SettleStep DEF Terminal
<1>4. CASE /\ ~Aborted(c) /\ status' = [status EXCEPT ![Job(c)] = "running"]
           /\ Move(c, "asking") /\ UNCHANGED <<stamp, watermark, bound, launches>>
  <2>1. status[Job(c)] = "pending"
    BY <1>1, <1>4 DEF CaptureInv, RunOK
  <2>. QED BY <1>1, <1>4, <2>1, MoveOn DEF OpenStatus, Points, Awaits
<1>. QED BY <1>2, <1>3, <1>4 DEF Resolve

LEMMA AnswerStep ==
    ASSUME CaptureInv, NEW c \in Chats, NEW ok \in BOOLEAN, Answer(c, ok)
    PROVE  CaptureInv' /\ Progress
<1>1. Running(c) /\ run[c].at = "asking" /\ run[c].at # "loop"
      /\ UNCHANGED <<chats, host, launched, learned>>
  BY DEF Answer, At
<1>2. CASE Back(c) /\ UNCHANGED journal
  BY <1>1, <1>2, AbortStep
<1>3. CASE Settle(c, "failed")
  BY <1>1, <1>3, SettleStep DEF Terminal
<1>4. CASE /\ ~Aborted(c) /\ status' = [status EXCEPT ![Job(c)] = "ready"]
           /\ Move(c, "answered") /\ UNCHANGED <<stamp, watermark, bound, launches>>
  <2>1. status[Job(c)] = "running"
    BY <1>1, <1>4 DEF CaptureInv, RunOK
  <2>. QED BY <1>1, <1>4, <2>1, MoveOn DEF OpenStatus, Points
<1>. QED BY <1>2, <1>3, <1>4 DEF Answer

LEMMA TakeStep ==
    ASSUME CaptureInv, NEW c \in Chats, Take(c)
    PROVE  CaptureInv' /\ Progress
<1>1. Running(c) /\ run[c].at = "answered" /\ run[c].at # "loop"
      /\ UNCHANGED <<chats, host, launched, learned>>
  BY DEF Take, At
<1>2. CASE Settle(c, "skipped")
  BY <1>1, <1>2, SettleStep DEF Terminal
<1>3. CASE /\ status' = [status EXCEPT ![Job(c)] = "applying"]
           /\ Move(c, "applying") /\ UNCHANGED <<stamp, watermark, bound, launches>>
  <2>1. status[Job(c)] = "ready"
    BY <1>1 DEF CaptureInv, RunOK
  <2>. QED BY <1>1, <1>3, <2>1, MoveOn DEF OpenStatus, Points
<1>. QED BY <1>2, <1>3 DEF Take

\* The commit of a turn's observations.
LEMMA CommitStep ==
    ASSUME CaptureInv, NEW c \in Chats, Running(c),
           run[c].at = "applying" \/ (run[c].at = "claiming" /\ ~Aborted(c)),
           learned' = [learned EXCEPT ![Job(c)] = @ + 1], Move(c, "committed"),
           UNCHANGED <<journal, launches, chats, host, launched>>
    PROVE  CaptureInv' /\ Progress
<1>1. PICK r \in Runs : run' = [run EXCEPT ![c] = r] /\ r.at = "committed" /\ r.job = Job(c)
  BY MoveRun DEF Points, Awaits
<1>2. Job(c) \in Turns /\ ChatOf(Job(c)) = c /\ Job(c) \in TurnsOf(c)
  BY OwnJob
<1>3. status[Job(c)] = "applying"
  BY DEF CaptureInv, RunOK
<1>4. learned[Job(c)] = 0
  <2>1. InHand(Job(c))
    BY <1>2 DEF InHand
  <2>. QED BY <1>2, <2>1 DEF CaptureInv, LearnedOK
<1>5. learned' = [learned EXCEPT ![Job(c)] = 1] /\ learned \in [Turns -> Nat]
  BY <1>4 DEF CaptureInv, TypeOK
<1>6. run'[c] = r /\ run' \in [Chats -> Runs \cup {NoRun}]
      /\ \A d \in Chats \ {c} : run'[d] = run[d]
  BY <1>1 DEF CaptureInv, TypeOK
<1>7. status' = status /\ watermark' = watermark /\ launched' = launched
  BY DEF journal
<1>8. ASSUME NEW d \in Chats PROVE RunOK(d)'
  <2>1. CASE d = c
    BY <2>1, <1>1, <1>2, <1>6 DEF RunOK, Job
  <2>2. CASE d # c
    <3>1. run'[d] = run[d] /\ RunOK(d)
      BY <2>2, <1>6 DEF CaptureInv
    <3>. QED BY <3>1, <1>7 DEF RunOK, Running, Job, Aborted
  <2>. QED BY <2>1, <2>2
<1>9. ASSUME NEW t \in Turns PROVE LearnedOK(t)' /\ RecordedOK(t)'
  <2>1. LearnedOK(t) /\ RecordedOK(t) /\ ChatOf(t) \in Chats
    BY TurnParts DEF CaptureInv
  <2>2. CASE t = Job(c)
    <3>1. ~InHand(t)'
      BY <2>2, <1>1, <1>2, <1>6 DEF InHand, ChatOf
    <3>2. learned'[t] = 1 /\ status'[t] = "applying"
      BY <2>2, <1>2, <1>3, <1>5, <1>7
    <3>3. t \in launched'
      BY <2>1, <2>2, <1>3, <1>7 DEF RecordedOK
    <3>. QED BY <3>1, <3>2, <3>3 DEF LearnedOK, RecordedOK
  <2>3. CASE t # Job(c)
    <3>1. learned'[t] = learned[t]
      BY <2>3, <1>5
    <3>2. InHand(t)' => InHand(t)
      <4>1. CASE ChatOf(t) = c
        BY <4>1, <1>1, <1>6 DEF InHand, ChatOf
      <4>2. CASE ChatOf(t) # c
        <5>1. run'[ChatOf(t)] = run[ChatOf(t)]
          BY <4>2, <2>1, <1>6
        <5>. QED BY <5>1 DEF InHand, Running, Job, Aborted, ChatOf
      <4>. QED BY <4>1, <4>2
    <3>. QED BY <2>1, <3>1, <3>2, <1>7 DEF LearnedOK, RecordedOK, ChatOf
  <2>. QED BY <2>2, <2>3
<1>10. Good
  <2>1. status' \in [Turns -> States] /\ watermark' \in [Chats -> Nat] /\ OutcomesStand
    BY <1>7 DEF OutcomesStand, CaptureInv, TypeOK, States
  <2>. QED BY <1>8, <1>9, <2>1 DEF Good
<1>11. RestOK'
  <2>1. learned' \in [Turns -> Nat]
    <3>1. [learned EXCEPT ![Job(c)] = 1] \in [Turns -> Nat]
      <4> HIDE DEF Job
      <4>. QED BY <1>2, <1>5
    <3>. QED BY <1>5, <3>1
  <2>. QED BY <1>6, <2>1, RestNow DEF RestOK, journal, chats, host
<1>12. Committed(Job(c))
  BY <1>3, <1>4, <1>5, <1>7 DEF Committed
<1>. QED BY <1>2, <1>10, <1>11, <1>12, Together DEF Progress

LEMMA ApplyStep ==
    ASSUME CaptureInv, NEW c \in Chats, NEW outcome, Apply(c, outcome)
    PROVE  CaptureInv' /\ Progress
<1>1. Running(c) /\ run[c].at = "applying" /\ run[c].at # "loop"
      /\ UNCHANGED <<chats, host, launched>>
  BY DEF Apply, At
<1>2. CASE /\ learned' = [learned EXCEPT ![Job(c)] = @ + 1]
           /\ Move(c, "committed") /\ UNCHANGED <<journal, launches>>
  BY <1>1, <1>2, CommitStep
<1>3. CASE Move(c, "claiming") /\ UNCHANGED <<journal, launches, learned>>
  <2>1. PICK r \in Runs : /\ run' = [run EXCEPT ![c] = r]
                          /\ r.at = "claiming" /\ r.job = Job(c) /\ r.aborted = Aborted(c)
    BY <1>1, <1>3, MoveRun DEF Points, Awaits
  <2>2. Job(c) \in Turns /\ ChatOf(Job(c)) = c /\ Job(c) \in TurnsOf(c)
    BY <1>1, OwnJob
  <2>3. status[Job(c)] = "applying" /\ Legal(status) /\ Kept(status) /\ status' = status
    BY <1>1, <1>3, SameLegal, SameKept DEF CaptureInv, RunOK, journal
  <2>4. run'[c] = r /\ run' \in [Chats -> Runs \cup {NoRun}]
    BY <2>1 DEF CaptureInv, TypeOK
  <2>5. RunOK(c)'
    BY <2>1, <2>2, <2>3, <2>4 DEF RunOK, Job, Aborted
  <2>6. ASSUME NEW u \in TurnsOf(c), learned[u] = 1 PROVE ~InHand(u)'
    <3>1. u \in Turns /\ ChatOf(u) = c
      BY DEF TurnsOf
    <3>2. ~InHand(u)
      BY <3>1, <2>6 DEF CaptureInv, LearnedOK
    <3>3. Job(c) # u
      BY <1>1, <3>1, <3>2 DEF InHand
    <3>. QED BY <2>1, <2>4, <3>1, <3>3 DEF InHand, Job, ChatOf
  <2>7. Good
    BY <1>1, <1>3, <2>1, <2>3, <2>5, <2>6, ChatStep
  <2>8. RestOK'
    BY <1>1, <1>3, <2>4, RestNow DEF RestOK, chats, host, journal
  <2>. QED BY <1>1, <1>3, <2>7, <2>8, Together DEF Progress, Good
<1>4. CASE Settle(c, "failed") /\ UNCHANGED learned
  BY <1>1, <1>4, SettleStep DEF Terminal
<1>. QED BY <1>2, <1>3, <1>4 DEF Apply

LEMMA ClaimStep ==
    ASSUME CaptureInv, NEW c \in Chats, NEW ok \in BOOLEAN, Claim(c, ok)
    PROVE  CaptureInv' /\ Progress
<1>1. Running(c) /\ run[c].at = "claiming" /\ run[c].at # "loop"
      /\ UNCHANGED <<chats, host, launched>>
  BY DEF Claim, At
<1>2. CASE Back(c) /\ UNCHANGED <<journal, learned>>
  BY <1>1, <1>2, AbortStep
<1>3. CASE Settle(c, "failed") /\ UNCHANGED learned
  BY <1>1, <1>3, SettleStep DEF Terminal
<1>4. CASE /\ ~Aborted(c) /\ learned' = [learned EXCEPT ![Job(c)] = @ + 1]
           /\ Move(c, "committed") /\ UNCHANGED <<journal, launches>>
  BY <1>1, <1>4, CommitStep
<1>. QED BY <1>2, <1>3, <1>4 DEF Claim

LEMMA ReceiptStep ==
    ASSUME CaptureInv, NEW c \in Chats, Receipt(c)
    PROVE  CaptureInv' /\ Progress
<1>1. Running(c) /\ run[c].at = "committed" /\ run[c].at # "loop"
      /\ UNCHANGED <<chats, host, launched, learned>>
  BY DEF Receipt, At
<1>2. CASE Back(c) /\ UNCHANGED journal
  BY <1>1, <1>2, AbortStep
<1>3. CASE /\ Write(Finished(Job(c), "completed"), stamp) /\ UNCHANGED <<stamp, bound>>
           /\ Move(c, "publishing") /\ UNCHANGED launches
  <2> DEFINE st == Finished(Job(c), "completed")
  <2>1. Job(c) \in Turns /\ ChatOf(Job(c)) = c /\ Job(c) \in TurnsOf(c)
    BY <1>1, OwnJob
  <2>2. Legal(st) /\ \A u \in Turns : u # Job(c) => st[u] = status[u]
    BY <2>1, FinishedLegal DEF Terminal
  <2>3. Write(st, stamp)
    BY <1>3
  <2> HIDE DEF st
  <2>4. Kept(st)
    BY <2>2, <2>3, WriteKeeps DEF Legal, CaptureInv, TypeOK
  <2>5. PICK r \in Runs : run' = [run EXCEPT ![c] = r] /\ r.at = "publishing" /\ r.job = Job(c)
    BY <1>1, <1>3, MoveRun DEF Points, Awaits
  <2>6. (\A u \in Turns : ChatOf(u) # c => st[u] = status[u]) /\ launches' \subseteq Turns
    BY <2>1, <2>2, <1>3, RestNow DEF RestOK
  <2>. QED BY <1>1, <1>3, <2>1, <2>2, <2>4, <2>5, <2>6, StayStep
<1>. QED BY <1>2, <1>3 DEF Receipt

LEMMA PublishStep ==
    ASSUME CaptureInv, NEW c \in Chats, NEW ok \in BOOLEAN, Publish(c, ok)
    PROVE  CaptureInv' /\ Progress
<1>1. Running(c) /\ run[c].at # "loop" /\ UNCHANGED <<chats, host, launched, learned>>
  BY DEF Publish, At
<1>2. CASE Back(c) /\ UNCHANGED journal
  BY <1>1, <1>2, AbortStep
<1>3. CASE Settle(c, "failed")
  BY <1>1, <1>3, SettleStep DEF Terminal
<1>. QED BY <1>2, <1>3 DEF Publish

\* Requests and stops: what they may do to everything but the journal and the runs.
HostOK ==
    /\ policy' \in [Chats -> Policies]
    /\ closed' \subseteq Chats /\ changing' \subseteq Chats
    /\ server' \in {"up", "stopping", "down"} /\ stops' \in Nat

LEMMA CancelStep ==
    ASSUME CaptureInv, NEW c \in Chats, Quiet, Cancel(c), HostOK, UNCHANGED <<launched, learned>>
    PROVE  CaptureInv' /\ Progress
<1> DEFINE r == IF Running(c) THEN [run[c] EXCEPT !.aborted = TRUE] ELSE NoRun
           st == Cancelled(c)
<1>1. run \in [Chats -> Runs \cup {NoRun}]
  BY DEF CaptureInv, TypeOK
<1>2. /\ r \in Runs \cup {NoRun}
      /\ Running(c) => r.at = run[c].at /\ r.job = Job(c) /\ r.aborted = TRUE
      /\ ~Running(c) => r = NoRun
  BY <1>1 DEF Running, Runs, Job
<1>3. run' = [run EXCEPT ![c] = r]
  BY <1>1 DEF Cancel
<1>4. Legal(st) /\ \A u \in Turns : ChatOf(u) # c => st[u] = status[u]
  BY CancelledLegal
<1>5. Write(st, stamp) /\ UNCHANGED <<stamp, bound>> /\ launches' \subseteq Turns
  BY DEF Cancel, CaptureInv, TypeOK
<1> HIDE DEF r, st
<1>6. Kept(st)
  BY <1>4, <1>5, WriteKeeps DEF Legal, CaptureInv, TypeOK
<1>7. run'[c] = r /\ run' \in [Chats -> Runs \cup {NoRun}]
  BY <1>1, <1>2, <1>3
<1>8. Running(c) => run[c].at \in Awaits
  BY DEF Quiet
<1>9. RunOK(c)'
  <2>1. CASE ~Running(c)
    BY <2>1, <1>2, <1>7 DEF RunOK, Running
  <2>2. CASE Running(c)
    <3>1. Job(c) \in TurnsOf(c)
      BY <2>2, <1>8 DEF CaptureInv, RunOK, Awaits
    <3>. QED BY <2>2, <3>1, <1>2, <1>7, <1>8 DEF RunOK, Job, Aborted, Awaits
  <2>. QED BY <2>1, <2>2
<1>10. \A u \in TurnsOf(c) : ~InHand(u)'
  BY <1>2, <1>7, <1>8 DEF InHand, TurnsOf, Running, Aborted, Awaits
<1>11. Good
  BY <1>2, <1>3, <1>4, <1>6, <1>9, <1>10, ChatStep
<1>12. RestOK'
  BY <1>5, <1>7, RestNow DEF RestOK, HostOK
<1>. QED BY <1>11, <1>12, Together DEF Progress, Good

\* Neither the journal nor a run moves.
LEMMA NothingStep ==
    ASSUME CaptureInv, HostOK, launches' \subseteq Turns,
           UNCHANGED <<journal, run, launched, learned>>
    PROVE  CaptureInv' /\ Progress
<1>1. \A c \in Chats : RunOK(c)'
  BY DEF CaptureInv, RunOK, Running, Job, Aborted, journal
<1>2. \A t \in Turns : LearnedOK(t)' /\ RecordedOK(t)'
  BY DEF CaptureInv, LearnedOK, RecordedOK, InHand, Running, Job, Aborted, ChatOf, journal
<1>3. Good
  BY <1>1, <1>2 DEF Good, OutcomesStand, CaptureInv, TypeOK, States, journal
<1>4. RestOK'
  BY RestNow DEF RestOK, HostOK, journal
<1>. QED BY <1>3, <1>4, Together DEF Progress, Good

LEMMA StopStep ==
    ASSUME CaptureInv, NEW st, Legal(st), Kept(st), HostOK, launches' \subseteq Turns,
           \A c \in Chats : run'[c] \in {NoRun, Fresh}, DOMAIN run' = Chats,
           run' = [c \in Chats |-> run'[c]],
           UNCHANGED <<stamp, bound, launched, learned>>
    PROVE  CaptureInv' /\ Progress
<1>1. Good
  BY IdleStep
<1>2. Fresh \in Runs
  BY DEF Fresh, Runs, Points
<1>3. run' \in [Chats -> Runs \cup {NoRun}]
  BY <1>2
<1>4. RestOK'
  BY <1>3, RestNow DEF RestOK, HostOK
<1>. QED BY <1>1, <1>4, Together DEF Progress, Good

LEMMA ShutdownStep ==
    ASSUME CaptureInv, Shutdown
    PROVE  CaptureInv' /\ Progress
<1>1. run \in [Chats -> Runs \cup {NoRun}] /\ Quiet
      /\ UNCHANGED <<journal, chats, launches, launched, learned>>
      /\ run' = [c \in Chats |-> IF Running(c) THEN [run[c] EXCEPT !.aborted = TRUE] ELSE NoRun]
  BY DEF CaptureInv, TypeOK, Shutdown
<1>2. ASSUME NEW c \in Chats
      PROVE  /\ run'[c] \in Runs \cup {NoRun}
             /\ Running(c) => /\ run[c].at \in Awaits /\ run'[c].at = run[c].at
                              /\ run'[c].job = Job(c) /\ run'[c].aborted = TRUE
             /\ ~Running(c) => run'[c] = NoRun
  BY <1>1 DEF Running, Runs, Job, Quiet
<1>3. ASSUME NEW c \in Chats PROVE RunOK(c)'
  <2>1. CASE ~Running(c)
    BY <2>1, <1>2 DEF RunOK, Running
  <2>2. CASE Running(c)
    <3>1. Job(c) \in TurnsOf(c)
      BY <2>2, <1>2 DEF CaptureInv, RunOK, Awaits
    <3>. QED BY <2>2, <3>1, <1>2 DEF RunOK, Job, Aborted, Awaits
  <2>. QED BY <2>1, <2>2
<1>4. ASSUME NEW t \in Turns PROVE LearnedOK(t)' /\ RecordedOK(t)'
  <2>1. ChatOf(t) \in Chats /\ LearnedOK(t) /\ RecordedOK(t)
    BY TurnParts DEF CaptureInv
  <2>2. ~InHand(t)'
    BY <2>1, <1>2 DEF InHand, Running, Aborted, Awaits, ChatOf
  <2>. QED BY <2>1, <2>2, <1>1 DEF LearnedOK, RecordedOK, ChatOf, journal
<1>5. Good
  BY <1>1, <1>3, <1>4 DEF Good, OutcomesStand, CaptureInv, TypeOK, States, journal
<1>6. RestOK'
  <2>1. run' \in [Chats -> Runs \cup {NoRun}]
    BY <1>1, <1>2
  <2>2. server' = "stopping" /\ stops' \in Nat
    BY RestNow DEF RestOK, Shutdown
  <2>. QED BY <1>1, <2>1, <2>2, RestNow DEF RestOK, journal, chats
<1>. QED BY <1>1, <1>5, <1>6, Together DEF Progress, Good

LEMMA DieStep ==
    ASSUME CaptureInv, Die, NEW st, Legal(st), Kept(st), UNCHANGED <<stamp, bound>>
    PROVE  CaptureInv' /\ Progress
<1>1. HostOK /\ launches' \subseteq Turns /\ UNCHANGED <<launched, learned>>
  BY RestNow DEF Die, HostOK, RestOK, chats
<1>2. run' = [c \in Chats |-> NoRun]
  BY DEF Die
<1>. QED BY <1>1, <1>2, StopStep

LEMMA CrashStep ==
    ASSUME CaptureInv, Crash
    PROVE  CaptureInv' /\ Progress
<1>1. Die /\ UNCHANGED journal /\ UNCHANGED <<stamp, bound>>
  BY DEF Crash, journal
<1>2. Legal(status) /\ Kept(status)
  BY <1>1, SameLegal, SameKept
<1>. QED BY <1>1, <1>2, DieStep

LEMMA CrashInWriteStep ==
    ASSUME CaptureInv, NEW c \in Chats, CrashInWrite(c)
    PROVE  CaptureInv' /\ Progress
<1>1. Die /\ UNCHANGED <<stamp, bound>>
  BY DEF CrashInWrite
<1>2. \A st : Legal(st) /\ Torn(st, stamp) => Kept(st)
  BY TornKeeps DEF Legal, CaptureInv, TypeOK
<1>3. CASE Torn(Cancelled(c), stamp)
  BY <1>1, <1>2, <1>3, CancelledLegal, DieStep
<1>4. CASE /\ Running(c) /\ ~Aborted(c)
           /\ \E s \in OutcomesAt(run[c].at) : Torn(Finished(Job(c), s), stamp)
  <2>1. PICK s \in OutcomesAt(run[c].at) : Torn(Finished(Job(c), s), stamp)
    BY <1>4
  <2>2. s \in Terminal /\ run[c].at # "loop"
    BY DEF OutcomesAt, Terminal
  <2>3. Job(c) \in Turns
    BY <1>4, <2>2, OwnJob
  <2>. QED BY <1>1, <1>2, <2>1, <2>2, <2>3, FinishedLegal, DieStep
<1>5. CASE LET t == NextIn(c, status)
           IN  t # NoJob /\ Torn(Finished(t, "skipped"), stamp)
  <2>1. NextIn(c, status) \in Turns
    BY <1>5, NextInIsDue DEF TurnsOf, CaptureInv, TypeOK
  <2>2. Legal(Finished(NextIn(c, status), "skipped"))
    BY <2>1, FinishedLegal DEF Terminal
  <2>. QED BY <1>1, <1>2, <1>5, <2>2, DieStep
<1>. QED BY <1>3, <1>4, <1>5 DEF CrashInWrite

LEMMA RecoveryStep ==
    ASSUME CaptureInv, CrashInRecovery \/ Restart
    PROVE  CaptureInv' /\ Progress
<1>1. Legal(Recovered) /\ Legal(Resumed) /\ watermark \in [Chats -> Nat]
  BY RecoveredLegal DEF CaptureInv, TypeOK
<1>2. CASE CrashInRecovery
  <2>1. HostOK /\ launches' \subseteq Turns /\ UNCHANGED <<stamp, bound, launched, learned>>
    BY <1>2, RestNow DEF CrashInRecovery, HostOK, RestOK, chats
  <2>2. run' = [c \in Chats |-> NoRun]
    BY <1>2 DEF CrashInRecovery
  <2>3. Kept(Resumed) \/ Kept(Recovered)
    BY <1>1, <1>2, TornKeeps, PlainKeeps DEF CrashInRecovery, Legal
  <2>. QED BY <1>1, <2>1, <2>2, <2>3, StopStep
<1>3. CASE Restart
  <2>1. HostOK /\ launches' \subseteq Turns /\ UNCHANGED <<stamp, bound, launched, learned>>
    BY <1>3, RestNow DEF Restart, HostOK, RestOK
  <2>2. run' = [c \in Chats |-> IF NextIn(c, status') = NoJob THEN NoRun ELSE Fresh]
    BY <1>3 DEF Restart
  <2>3. Kept(Recovered)
    BY <1>1, <1>3, WriteKeeps DEF Restart, Legal
  <2>. QED BY <1>1, <2>1, <2>2, <2>3, StopStep
<1>. QED BY <1>2, <1>3

\* A launch starts a run where none is: the runs that hold a job are the same.
LEMMA DrainRun ==
    ASSUME CaptureInv, NEW c \in Chats, Drain(c)
    PROVE  /\ run' \in [Chats -> Runs \cup {NoRun}]
           /\ \A d \in Chats : run'[d] = run[d] \/ (~Running(d) /\ run'[d] = Fresh)
<1>1. run \in [Chats -> Runs \cup {NoRun}]
  BY DEF CaptureInv, TypeOK
<1>2. Fresh \in Runs
  BY DEF Fresh, Runs, Points
<1>. QED BY <1>1, <1>2 DEF Drain

\* A turn without a row that the watermark does not cover is launched for the first time.
LEMMA UncoveredIsNew ==
    ASSUME CaptureInv, NEW t \in Turns, status[t] = "none", ~(t[2] <= watermark[ChatOf(t)])
    PROVE  t \notin launched /\ learned[t] = 0
BY DEF CaptureInv, RecordedOK

LEMMA StampNat ==
    ASSUME CaptureInv, NEW t \in Turns
    PROVE  [stamp EXCEPT ![t] = 1 + Cardinality({u \in Turns : stamp[u] > 0})] \in [Turns -> Nat]
<1> DEFINE S == {u \in Turns : stamp[u] > 0}
<1>1. S \subseteq Turns
  OBVIOUS
<1> HIDE DEF S
<1>2. Cardinality(S) \in Nat
  BY <1>1, TurnsFinite, FS_Subset, FS_CardinalityType
<1>3. 1 + Cardinality(S) \in Nat
  BY <1>2
<1>4. [stamp EXCEPT ![t] = 1 + Cardinality(S)] \in [Turns -> Nat]
  BY <1>3 DEF CaptureInv, TypeOK
<1>. QED BY <1>4 DEF S

LEMMA EnqueueStep ==
    ASSUME CaptureInv, NEW t \in Turns, Quiet, status[t] = "none",
           ~(t[2] <= watermark[ChatOf(t)]),
           NEW s \in {"skipped", "pending"}, NEW at \in [Turns -> Nat],
           Write([status EXCEPT ![t] = s], at), stamp' = at,
           bound' = [bound EXCEPT ![t] = policy[ChatOf(t)]],
           launches' \subseteq Turns, launched' = launched \cup {t}, Drain(ChatOf(t)),
           UNCHANGED <<chats, host, learned>>
    PROVE  CaptureInv' /\ Progress
<1> DEFINE st == [status EXCEPT ![t] = s]
<1>1. status \in [Turns -> States] /\ ChatOf(t) \in Chats
  BY TurnParts DEF CaptureInv, TypeOK, States
<1>2. st \in [Turns -> States] /\ st[t] = s /\ \A u \in Turns : u # t => st[u] = status[u]
  BY <1>1 DEF States, OpenStatus, Terminal
<1>3. Write(st, at)
  OBVIOUS
<1> HIDE DEF st
<1>4. Kept(st)
  BY <1>2, <1>3, WriteKeeps DEF CaptureInv, TypeOK
<1>5. t \notin launched /\ learned[t] = 0
  BY UncoveredIsNew
<1>6. /\ run' \in [Chats -> Runs \cup {NoRun}]
      /\ \A d \in Chats : run'[d] = run[d] \/ (~Running(d) /\ run'[d] = Fresh)
  BY <1>1, DrainRun
<1>7. ASSUME NEW u \in Turns, u # t
      PROVE  /\ status[u] \notin Terminal => status'[u] = status[u]
             /\ status[u] \in Terminal => status'[u] \in {status[u], "none"}
  BY <1>2, <1>4, <1>7 DEF Kept
<1>8. ASSUME NEW d \in Chats PROVE RunOK(d)'
  <2>1. CASE run'[d] = Fresh
    BY <2>1 DEF RunOK, Running, Fresh
  <2>2. CASE run'[d] = run[d] /\ Running(d) /\ run[d].at # "loop"
    <3>1. RunOK(d) /\ run[d].at \in Awaits /\ Job(d) \in Turns
      BY <2>2, OwnJob DEF CaptureInv, Quiet
    <3>2. CASE Job(d) = t
      BY <2>2, <3>1, <3>2 DEF RunOK, Running, Job, Aborted, Awaits
    <3>3. CASE Job(d) # t
      <4>1. status[Job(d)] \notin Terminal => status'[Job(d)] = status[Job(d)]
        BY <3>1, <3>3, <1>7
      <4>. QED BY <2>2, <3>1, <4>1 DEF RunOK, Running, Job, Aborted, Awaits, Terminal
    <3>. QED BY <3>2, <3>3
  <2>3. CASE run'[d] = run[d] /\ ~(Running(d) /\ run[d].at # "loop")
    BY <2>3 DEF RunOK, Running
  <2>. QED BY <1>6, <2>1, <2>2, <2>3
<1>9. ASSUME NEW u \in Turns PROVE LearnedOK(u)'
  <2>1. LearnedOK(u) /\ ChatOf(u) \in Chats
    BY TurnParts DEF CaptureInv
  <2>2. CASE learned[u] = 0
    BY <2>2 DEF LearnedOK
  <2>3. CASE learned[u] = 1
    <3>1. status[u] \in Terminal \cup {"applying", "none"} /\ ~InHand(u) /\ u # t
      BY <2>1, <2>3, <1>5 DEF LearnedOK
    <3>2. status'[u] \in Terminal \cup {"applying", "none"}
      BY <3>1, <1>7
    <3>3. ~InHand(u)'
      <4>1. CASE run'[ChatOf(u)] = run[ChatOf(u)]
        BY <4>1, <3>1 DEF InHand, Running, Job, Aborted, ChatOf
      <4>2. CASE run'[ChatOf(u)] = Fresh
        BY <4>2 DEF InHand, Fresh, ChatOf
      <4>. QED BY <4>1, <4>2, <2>1, <1>6
    <3>. QED BY <2>3, <3>2, <3>3 DEF LearnedOK
  <2>. QED BY <2>1, <2>2, <2>3 DEF LearnedOK
<1>10. ASSUME NEW u \in Turns PROVE RecordedOK(u)'
  <2>1. RecordedOK(u) /\ ChatOf(u) \in Chats /\ u[2] \in Nat
    BY TurnParts DEF CaptureInv
  <2>2. CASE u = t
    <3>1. st[t] # "none" /\ t \in launched'
      BY <1>2
    <3>2. status'[t] = "none" => t[2] <= watermark'[ChatOf(t)]
      BY <3>1, <1>4 DEF Kept
    <3>. QED BY <2>2, <3>1, <3>2 DEF RecordedOK, ChatOf
  <2>3. CASE u # t
    <3>1. u \in launched' <=> u \in launched
      BY <2>3
    <3>2. watermark[ChatOf(u)] \in Nat /\ watermark'[ChatOf(u)] \in Nat
          /\ watermark[ChatOf(u)] <= watermark'[ChatOf(u)]
      BY <2>1, <1>4 DEF Kept, CaptureInv, TypeOK
    <3>3. status[u] = "none" => status'[u] = "none"
      BY <2>3, <1>7 DEF Terminal
    <3>4. ASSUME u \in launched, status'[u] = "none" PROVE u[2] <= watermark'[ChatOf(u)]
      <4>1. CASE status[u] = "none"
        <5>1. u[2] <= watermark[ChatOf(u)]
          BY <2>1, <3>4, <4>1 DEF RecordedOK
        <5>. QED BY <5>1, <2>1, <3>2
      <4>2. CASE status[u] # "none"
        <5>1. st[u] = status[u]
          BY <2>3, <1>2
        <5>. QED BY <5>1, <3>4, <4>2, <1>4 DEF Kept
      <4>. QED BY <4>1, <4>2
    <3>. QED BY <2>1, <3>1, <3>3, <3>4 DEF RecordedOK, ChatOf
  <2>. QED BY <2>2, <2>3
<1>11. RestOK'
  <2>1. bound' \in [Turns -> Policies]
    BY <1>1 DEF CaptureInv, TypeOK
  <2>. QED BY <1>6, <2>1, RestNow DEF RestOK, chats, host
<1>12. CaptureInv'
  BY <1>4, <1>8, <1>9, <1>10, <1>11 DEF CaptureInv, TypeOK, RestOK, Kept, States
<1>13. NewlyLaunched(t)
  <2>1. \A u \in Turns \ {t} :
           /\ status[u] \in OpenStatus => status'[u] = status[u]
           /\ status[u] \in Terminal => status'[u] \in {status[u], "none"}
           /\ status[u] = "none" => status'[u] = "none"
    BY <1>7 DEF OpenStatus, Terminal
  <2>2. t \notin launched /\ launched' = launched \cup {t} /\ status[t] = "none"
    BY <1>5
  <2>3. UNCHANGED learned
    OBVIOUS
  <2>. QED BY <2>1, <2>2, <2>3 DEF NewlyLaunched
<1>. QED BY <1>12, <1>13 DEF Progress

\* A turn that is launched again, or that the watermark covers, is not recorded.
LEMMA RelaunchStep ==
    ASSUME CaptureInv, NEW t \in Turns,
           status[t] # "none" \/ t[2] <= watermark[ChatOf(t)],
           launched' = launched \cup {t}, Drain(ChatOf(t)),
           UNCHANGED <<journal, launches, chats, host, learned>>
    PROVE  CaptureInv' /\ Progress
<1>1. ChatOf(t) \in Chats
  BY TurnParts
<1>2. /\ run' \in [Chats -> Runs \cup {NoRun}]
      /\ \A d \in Chats : run'[d] = run[d] \/ (~Running(d) /\ run'[d] = Fresh)
  BY <1>1, DrainRun
<1>3. status' = status /\ watermark' = watermark /\ learned' = learned
  BY DEF journal
<1>4. ASSUME NEW d \in Chats PROVE RunOK(d)'
  <2>1. CASE run'[d] = Fresh
    BY <2>1 DEF RunOK, Running, Fresh
  <2>2. CASE run'[d] = run[d]
    BY <2>2, <1>3 DEF RunOK, Running, Job, Aborted, CaptureInv
  <2>. QED BY <1>2, <2>1, <2>2
<1>5. ASSUME NEW u \in Turns PROVE LearnedOK(u)' /\ RecordedOK(u)'
  <2>1. LearnedOK(u) /\ RecordedOK(u) /\ ChatOf(u) \in Chats
    BY TurnParts DEF CaptureInv
  <2>2. InHand(u)' => InHand(u)
    <3>1. CASE run'[ChatOf(u)] = run[ChatOf(u)]
      BY <3>1 DEF InHand, Running, Job, Aborted, ChatOf
    <3>2. CASE run'[ChatOf(u)] = Fresh
      BY <3>2 DEF InHand, Fresh, ChatOf
    <3>. QED BY <3>1, <3>2, <2>1, <1>2
  <2>. QED BY <2>1, <2>2, <1>3 DEF LearnedOK, RecordedOK, ChatOf
<1>6. RestOK'
  BY <1>2, RestNow DEF RestOK, chats, host, journal
<1>7. CaptureInv'
  BY <1>3, <1>4, <1>5, <1>6 DEF CaptureInv, TypeOK, RestOK
<1>8. Progress
  <2>1. CASE t \in launched
    BY <2>1, <1>3 DEF Progress, OutcomesStand
  <2>2. CASE t \notin launched
    <3>1. status[t] = "none"
      BY <2>2 DEF CaptureInv, RecordedOK
    <3>2. NewlyLaunched(t)
      BY <2>2, <1>3, <3>1 DEF NewlyLaunched
    <3>. QED BY <3>2 DEF Progress
  <2>. QED BY <2>1, <2>2
<1>. QED BY <1>7, <1>8

LEMMA LaunchStep ==
    ASSUME CaptureInv, NEW t \in Turns, NEW oversize \in BOOLEAN, Launch(t, oversize)
    PROVE  CaptureInv' /\ Progress
<1>1. /\ Quiet /\ launched' = launched \cup {t} /\ Drain(ChatOf(t))
      /\ UNCHANGED <<chats, host, learned>>
  BY DEF Launch
<1>2. CASE status[t] # "none" \/ t[2] <= watermark[ChatOf(t)]
  <2>1. UNCHANGED <<journal, launches>>
    BY <1>2 DEF Launch
  <2>. QED BY <1>1, <1>2, <2>1, RelaunchStep
<1>3. CASE ~(status[t] # "none" \/ t[2] <= watermark[ChatOf(t)])
  <2> DEFINE skip == oversize \/ Full(ChatOf(t))
             at == [stamp EXCEPT ![t] = 1 + Cardinality({u \in Turns : stamp[u] > 0})]
             s == IF skip THEN "skipped" ELSE "pending"
  <2>1. /\ Write([status EXCEPT ![t] = s], at) /\ stamp' = at
        /\ bound' = [bound EXCEPT ![t] = policy[ChatOf(t)]]
        /\ launches' = IF skip THEN launches ELSE launches \cup {t}
    BY <1>3 DEF Launch
  <2>2. at \in [Turns -> Nat]
    BY StampNat
  <2>3. s \in {"skipped", "pending"}
    OBVIOUS
  <2>4. launches' \subseteq Turns
    BY <2>1, RestNow DEF RestOK
  <2>5. status[t] = "none" /\ ~(t[2] <= watermark[ChatOf(t)])
    BY <1>3
  <2> HIDE DEF s, at, skip
  <2>. QED BY <1>1, <2>1, <2>2, <2>3, <2>4, <2>5, EnqueueStep
<1>. QED BY <1>2, <1>3

LEMMA RequestStep ==
    ASSUME CaptureInv, NEW c \in Chats, Request(c)
    PROVE  CaptureInv' /\ Progress
<1>1. RestOK
  BY RestNow
<1>2. CASE \E t \in TurnsOf(c), oversize \in BOOLEAN : Launch(t, oversize)
  BY <1>2, LaunchStep DEF TurnsOf
<1>3. CASE \E p \in Policies : SettingsOff(c, p)
  <2>1. PICK p \in Policies : SettingsOff(c, p)
    BY <1>3
  <2>2. HostOK
    BY <1>1, <2>1 DEF SettingsOff, HostOK, RestOK, host
  <2>. QED BY <2>1, <2>2, CancelStep DEF SettingsOff
<1>4. CASE \E p \in Policies : PolicyMoves(c, p)
  <2>1. PICK p \in Policies : PolicyMoves(c, p)
    BY <1>4
  <2>2. HostOK /\ launches' \subseteq Turns /\ UNCHANGED <<journal, run, launched, learned>>
    BY <1>1, <2>1 DEF PolicyMoves, HostOK, RestOK, host
  <2>. QED BY <2>2, NothingStep
<1>5. CASE \E p \in Policies : BeginPolicyChange(c, p)
  <2>1. PICK p \in Policies : BeginPolicyChange(c, p)
    BY <1>5
  <2>2. HostOK
    BY <1>1, <2>1 DEF BeginPolicyChange, HostOK, RestOK, host
  <2>. QED BY <2>1, <2>2, CancelStep DEF BeginPolicyChange
<1>6. CASE EndPolicyChange(c)
  <2>1. HostOK /\ launches' \subseteq Turns /\ UNCHANGED <<journal, run, launched, learned>>
    BY <1>1, <1>6 DEF EndPolicyChange, HostOK, RestOK, host
  <2>. QED BY <2>1, NothingStep
<1>7. CASE CloseChat(c)
  <2>1. HostOK
    BY <1>1, <1>7 DEF CloseChat, HostOK, RestOK, host
  <2>. QED BY <1>7, <2>1, CancelStep DEF CloseChat
<1>. QED BY <1>2, <1>3, <1>4, <1>5, <1>6, <1>7 DEF Request

LEMMA DriverStep ==
    ASSUME CaptureInv, NEW c \in Chats, Driver(c)
    PROVE  CaptureInv' /\ Progress
BY LoopStep, ResolveStep, AnswerStep, TakeStep, ApplyStep, ClaimStep, ReceiptStep, PublishStep
   DEF Driver

LEMMA NextStep ==
    ASSUME CaptureInv, Next
    PROVE  CaptureInv' /\ Progress
<1>1. CASE \E c \in Chats : Driver(c) \/ Request(c) \/ CrashInWrite(c)
  BY <1>1, DriverStep, RequestStep, CrashInWriteStep
<1>2. CASE Shutdown \/ Crash \/ CrashInRecovery \/ Restart
  BY <1>2, ShutdownStep, CrashStep, RecoveryStep
<1>3. CASE Exit
  <2>1. HostOK /\ launches' \subseteq Turns /\ UNCHANGED <<journal, run, launched, learned>>
    BY <1>3, RestNow DEF Exit, HostOK, RestOK, chats
  <2>. QED BY <2>1, NothingStep
<1>. QED BY <1>1, <1>2, <1>3 DEF Next

LEMMA InitCaptureInv ==
    ASSUME Init
    PROVE  CaptureInv
<1>1. TypeOK
  <2>1. \A t \in Turns : policy[ChatOf(t)] \in Policies
    BY TurnParts DEF Init
  <2>. QED BY <2>1 DEF Init, TypeOK
<1>2. \A c \in Chats : RunOK(c)
  BY DEF Init, RunOK, Running
<1>3. \A t \in Turns : LearnedOK(t) /\ RecordedOK(t)
  BY DEF Init, LearnedOK, RecordedOK
<1>. QED BY <1>1, <1>2, <1>3 DEF CaptureInv

LEMMA StutterStep ==
    ASSUME CaptureInv, UNCHANGED vars
    PROVE  CaptureInv' /\ Progress
<1>1. HostOK /\ launches' \subseteq Turns /\ UNCHANGED <<journal, run, launched, learned>>
  BY RestNow DEF vars, chats, host, HostOK, RestOK
<1>. QED BY <1>1, NothingStep

---------------------------------------------------------------------------
(* The promise *)

LEMMA PhaseAt ==
    \A t \in Turns :
        /\ Phase[t] = IF t \notin launched THEN "new" ELSE IF Open(t) THEN "open" ELSE "settled"
        /\ Phase'[t] = IF t \notin launched' THEN "new" ELSE IF Open(t)' THEN "open" ELSE "settled"
BY DEF Phase, Open

LEMMA ContractInit ==
    ASSUME Init
    PROVE  Contract!Init
<1>1. \A t \in Turns : t \notin launched
  BY DEF Init
<1>2. Phase = [t \in Turns |-> "new"]
  BY <1>1 DEF Phase
<1>3. learned = [t \in Turns |-> 0]
  BY DEF Init
<1>. QED BY <1>2, <1>3 DEF Contract!Init

\* Outcomes that stand settle the turns whose rows were finished.
LEMMA StandSettles ==
    ASSUME CaptureInv, OutcomesStand, UNCHANGED <<launched, learned>>
    PROVE  \E done \in SUBSET Turns : Contract!Settle(done)
<1> DEFINE done == {t \in Turns : t \in launched /\ Open(t) /\ ~Open(t)'}
<1>1. \A t \in Turns : ~Open(t) => ~Open(t)'
  <2>1. ASSUME NEW t \in Turns, ~Open(t) PROVE ~Open(t)'
    <3>1. status[t] \in Terminal \cup {"none"}
      BY <2>1 DEF Open, CaptureInv, TypeOK
    <3>2. status'[t] \in Terminal \cup {"none"}
      BY <3>1 DEF OutcomesStand
    <3>. QED BY <3>2 DEF Open, OpenStatus, Terminal
  <2>. QED BY <2>1
<1>2. \A t \in done : Phase[t] = "open"
  BY PhaseAt
<1>3. Phase' = [t \in Turns |-> IF t \in done THEN "settled" ELSE Phase[t]]
  <2>1. ASSUME NEW t \in Turns
        PROVE  Phase'[t] = IF t \in done THEN "settled" ELSE Phase[t]
    <3>1. launched' = launched
      OBVIOUS
    <3>. QED BY <3>1, <1>1, PhaseAt
  <2>2. Phase' = [t \in Turns |-> Phase'[t]]
    BY DEF Phase
  <2> HIDE DEF done
  <2>. QED BY <2>1, <2>2
<1>4. done \in SUBSET Turns
  OBVIOUS
<1>5. learned' = learned
  OBVIOUS
<1> HIDE DEF done
<1>6. Contract!Settle(done)
  BY <1>2, <1>3, <1>5 DEF Contract!Settle
<1>. QED BY <1>4, <1>6

LEMMA CommitLearns ==
    ASSUME CaptureInv, NEW t \in Turns, Committed(t)
    PROVE  Contract!Learn(t)
<1>1. t \in launched /\ Open(t)
  BY DEF CaptureInv, RecordedOK, Committed, Open, OpenStatus
<1>2. Phase[t] = "open"
  BY <1>1, PhaseAt
<1>3. Phase' = Phase
  BY DEF Phase, Open, Committed
<1>4. learned[t] = 0 /\ learned' = [learned EXCEPT ![t] = 1]
  BY DEF Committed
<1>. QED BY <1>2, <1>3, <1>4 DEF Contract!Learn

LEMMA LaunchRecords ==
    ASSUME CaptureInv, NEW t \in Turns, NewlyLaunched(t)
    PROVE  Contract!Record(t)
<1>1. t \notin launched /\ launched' = launched \cup {t} /\ learned' = learned
  BY DEF NewlyLaunched
<1>2. \A u \in Turns \ {t} : Open(u) <=> Open(u)'
  <2>1. ASSUME NEW u \in Turns \ {t} PROVE Open(u) <=> Open(u)'
    <3>1. CASE Open(u)
      BY <3>1 DEF NewlyLaunched, Open
    <3>2. CASE ~Open(u)
      <4>1. status[u] \in Terminal \cup {"none"}
        BY <3>2 DEF Open, CaptureInv, TypeOK
      <4>2. status'[u] \in Terminal \cup {"none"}
        BY <4>1 DEF NewlyLaunched
      <4>. QED BY <3>2, <4>2 DEF Open, OpenStatus, Terminal
    <3>. QED BY <3>1, <3>2
  <2>. QED BY <2>1
<1> DEFINE p == IF Open(t)' THEN "open" ELSE "settled"
<1>3. Phase' = [Phase EXCEPT ![t] = p]
  <2>1. Phase'[t] = p
    BY <1>1, PhaseAt
  <2>2. \A u \in Turns \ {t} : Phase'[u] = Phase[u]
    BY <1>1, <1>2, PhaseAt
  <2>3. Phase' = [u \in Turns |-> Phase'[u]] /\ Phase = [u \in Turns |-> Phase[u]]
    BY DEF Phase
  <2> HIDE DEF p
  <2>. QED BY <2>1, <2>2, <2>3
<1>4. Phase[t] = "new"
  BY <1>1, PhaseAt
<1>5. p \in {"open", "settled"}
  OBVIOUS
<1> HIDE DEF p
<1>. QED BY <1>1, <1>3, <1>4, <1>5 DEF Contract!Record

LEMMA ContractStep ==
    ASSUME CaptureInv, Progress
    PROVE  Contract!Next
<1>1. CASE OutcomesStand /\ UNCHANGED <<launched, learned>>
  BY <1>1, StandSettles DEF Contract!Next
<1>2. CASE \E t \in Turns : Committed(t)
  BY <1>2, CommitLearns DEF Contract!Next
<1>3. CASE \E t \in Turns : NewlyLaunched(t)
  BY <1>3, LaunchRecords DEF Contract!Next
<1>. QED BY <1>1, <1>2, <1>3 DEF Progress

---------------------------------------------------------------------------
(* The theorems *)

\* A job's row says where its run stands, what was learned is in no run's hands, and
\* only new turns and those below the watermark have no row (capture-queue.ts,
\* drainAutomaticCaptures): kept by every request, run, crash and restart.
THEOREM CaptureInvariant == Spec => []CaptureInv
<1>1. CaptureInv /\ [Next]_vars => CaptureInv'
  BY NextStep, StutterStep
<1>. QED BY InitCaptureInv, <1>1, PTL DEF Spec

\* The variables keep their types, in particular the stamps and watermarks stay numbers.
THEOREM CaptureTypeCorrect == Spec => []TypeOK
<1>1. CaptureInv => TypeOK
  BY DEF CaptureInv
<1>. QED BY <1>1, CaptureInvariant, PTL

\* No turn's observations enter the library twice ("Never replay a possibly committed
\* memory mutation", capture-queue.ts:84), for any limits and any number of crashes.
THEOREM CapturedOnce == Spec => []LearnsOnce
<1>1. CaptureInv => LearnsOnce
  <2>1. SUFFICES ASSUME CaptureInv, NEW t \in Turns PROVE learned[t] <= 1
    BY DEF LearnsOnce
  <2>2. learned[t] = 0 \/ learned[t] = 1
    BY <2>1 DEF CaptureInv, LearnedOK
  <2>. QED BY <2>2
<1>. QED BY <1>1, CaptureInvariant, PTL

\* The first outcome of a turn stands until it is pruned (finish, capture-queue.ts:75).
THEOREM OutcomeStays == Spec => OutcomeIsFinal
<1> DEFINE Stands == \A t \in Turns : status[t] \in Terminal => status'[t] \in {status[t], "none"}
<1>1. CaptureInv /\ [Next]_vars => [Stands]_vars
  <2>1. SUFFICES ASSUME CaptureInv, Next PROVE Stands
    OBVIOUS
  <2>2. Progress
    BY <2>1, NextStep
  <2>3. CASE OutcomesStand
    BY <2>3 DEF OutcomesStand
  <2>4. CASE \E t \in Turns : Committed(t)
    BY <2>4 DEF Committed
  <2>5. CASE \E t \in Turns : NewlyLaunched(t)
    BY <2>5 DEF NewlyLaunched, Terminal
  <2>. QED BY <2>2, <2>3, <2>4, <2>5 DEF Progress
<1>2. Spec => [][Stands]_vars
  BY <1>1, CaptureInvariant, PTL DEF Spec
<1>. QED BY <1>2 DEF OutcomeIsFinal

\* The journal and its driver implement the promise of Automatic mode: a turn is taken
\* up or refused once, learned from at most once while it is open, and settled for good.
THEOREM CaptureImplements == Spec => ImplementsContract
<1>1. Init => Contract!Init
  BY ContractInit
<1>2. CaptureInv /\ [Next]_vars => [Contract!Next]_(Contract!vars)
  BY NextStep, StutterStep, ContractStep
<1>3. Spec => Contract!Spec
  BY <1>1, <1>2, CaptureInvariant, PTL DEF Spec, Contract!Spec
<1>. QED BY <1>3 DEF ImplementsContract

---------------------------------------------------------------------------
(* The journal: what a step does to it *)

\* A raised watermark is the number of a turn whose outcome is known.
Lifted(st) ==
    \A c \in Chats : \/ watermark'[c] = watermark[c]
                     \/ \E t \in TurnsOf(c) : st[t] \in Terminal /\ watermark'[c] = t[2]

\* A job is moved from one open status to another.
Advances(t) ==
    /\ Open(t) /\ UNCHANGED <<stamp, watermark>>
    /\ \E s \in OpenStatus : status' = [status EXCEPT ![t] = s]

\* A statement that leaves legal outcomes behind, written whole or cut short.
Wrote(st) == Legal(st) /\ Write(st, stamp) /\ UNCHANGED stamp

CutShort(st) ==
    /\ Legal(st) /\ UNCHANGED stamp /\ server' # "up"
    /\ Torn(st, stamp) \/ (status' = st /\ UNCHANGED watermark)

\* A turn is recorded.
Recorded(t) ==
    LET at == [stamp EXCEPT ![t] = 1 + Cardinality({u \in Turns : stamp[u] > 0})]
    IN  /\ status[t] = "none" /\ ~(t[2] <= watermark[ChatOf(t)])
        /\ stamp' = at /\ UNCHANGED server
        /\ launched' = launched \cup {t}
        /\ \E s \in {"skipped", "pending"} :
             /\ s = "pending" => ~Full(ChatOf(t))
             /\ Write([status EXCEPT ![t] = s], at)

JournalEffect ==
    \/ /\ launched \subseteq launched'
       /\ launched' \subseteq Turns
       /\ \A t \in launched' \ launched :
            status[t] # "none" \/ t[2] <= watermark[ChatOf(t)]
       /\ UNCHANGED <<status, stamp, watermark>> /\ (server' = "up" => server = "up")
    \/ /\ UNCHANGED launched
       /\ \/ \E t \in Turns : Advances(t) /\ UNCHANGED server
          \/ \E st : Wrote(st) \/ CutShort(st)
    \/ \E t \in Turns : Recorded(t)

LEMMA SameEffect ==
    ASSUME UNCHANGED <<journal, launched>>, server' = "up" => server = "up", CaptureInv
    PROVE  JournalEffect
BY RestNow DEF JournalEffect, journal, RestOK

LEMMA WriteEffect ==
    ASSUME NEW st, Legal(st), Write(st, stamp), UNCHANGED <<stamp, launched>>
    PROVE  JournalEffect
BY DEF JournalEffect, Wrote

LEMMA AdvanceEffect ==
    ASSUME NEW t \in Turns, status[t] \in {"pending", "running", "ready"}, NEW s \in OpenStatus,
           status' = [status EXCEPT ![t] = s], UNCHANGED <<stamp, watermark, launched, server>>
    PROVE  JournalEffect
BY DEF JournalEffect, Advances, Open, OpenStatus

LEMMA SettleEffect ==
    ASSUME CaptureInv, NEW c \in Chats, Running(c), run[c].at # "loop",
           NEW s \in Terminal, Settle(c, s), UNCHANGED launched
    PROVE  JournalEffect
<1>1. Job(c) \in Turns
  BY OwnJob
<1>2. Legal(Finished(Job(c), s)) /\ Write(Finished(Job(c), s), stamp) /\ stamp' = stamp
  BY <1>1, FinishedLegal DEF Settle
<1>. QED BY <1>2, WriteEffect

LEMMA DriverEffect ==
    ASSUME CaptureInv, NEW c \in Chats, Driver(c)
    PROVE  JournalEffect
<1>1. UNCHANGED <<host, launched>>
  BY DEF Driver, Loop, Resolve, Answer, Take, Apply, Claim, Receipt, Publish
<1>2. server' = server /\ launched' = launched
  BY <1>1 DEF host
<1>3. ASSUME UNCHANGED journal PROVE JournalEffect
  BY <1>2, <1>3, SameEffect
<1>4. ASSUME Running(c), run[c].at # "loop", NEW s \in Terminal, Settle(c, s)
      PROVE  JournalEffect
  BY <1>2, <1>4, SettleEffect
<1>5. ASSUME NEW t \in Turns, status[t] \in {"pending", "running", "ready"}, NEW s \in OpenStatus,
             status' = [status EXCEPT ![t] = s], UNCHANGED <<stamp, watermark>>
      PROVE  JournalEffect
  BY <1>2, <1>5, AdvanceEffect
<1>6. CASE Loop(c)
  <2> DEFINE t == NextIn(c, status)
  <2>1. t = NoJob \/ (t \in Turns /\ status[t] \in {"pending", "ready"})
    BY NextInIsDue DEF CaptureInv, TypeOK, TurnsOf
  <2>2. \/ UNCHANGED journal
        \/ t # NoJob /\ Write(Finished(t, "skipped"), stamp) /\ UNCHANGED stamp
        \/ t # NoJob /\ status' = [status EXCEPT ![t] = "running"] /\ UNCHANGED <<stamp, watermark>>
        \/ t # NoJob /\ status' = [status EXCEPT ![t] = "applying"] /\ UNCHANGED <<stamp, watermark>>
    <3> HIDE DEF t
    <3>. QED BY <1>6, Zenon DEF Loop, t
  <2> HIDE DEF t
  <2>3. ASSUME t # NoJob, Write(Finished(t, "skipped"), stamp), UNCHANGED stamp
        PROVE  JournalEffect
    <3>1. Legal(Finished(t, "skipped"))
      BY <2>1, <2>3, FinishedLegal DEF Terminal
    <3>. QED BY <1>2, <2>3, <3>1, WriteEffect
  <2>. QED BY <1>3, <1>5, <2>1, <2>2, <2>3 DEF OpenStatus
<1>7. CASE \E outcome \in {"same", "changed", "failed"} : Resolve(c, outcome)
  <2>1. Running(c) /\ run[c].at = "resolving"
    BY <1>7 DEF Resolve, At
  <2>2. Job(c) \in Turns /\ (~Aborted(c) => status[Job(c)] = "pending")
    BY <2>1, OwnJob DEF CaptureInv, RunOK
  <2>3. \/ UNCHANGED journal
        \/ Settle(c, "failed") \/ Settle(c, "skipped")
        \/ ~Aborted(c) /\ status' = [status EXCEPT ![Job(c)] = "running"]
           /\ UNCHANGED <<stamp, watermark>>
    BY <1>7 DEF Resolve
  <2>. QED BY <1>3, <1>4, <1>5, <2>1, <2>2, <2>3 DEF Terminal, OpenStatus
<1>8. CASE \E ok \in BOOLEAN : Answer(c, ok)
  <2>1. Running(c) /\ run[c].at = "asking"
    BY <1>8 DEF Answer, At
  <2>2. Job(c) \in Turns /\ (~Aborted(c) => status[Job(c)] = "running")
    BY <2>1, OwnJob DEF CaptureInv, RunOK
  <2>3. \/ UNCHANGED journal
        \/ Settle(c, "failed")
        \/ ~Aborted(c) /\ status' = [status EXCEPT ![Job(c)] = "ready"]
           /\ UNCHANGED <<stamp, watermark>>
    BY <1>8 DEF Answer
  <2>. QED BY <1>3, <1>4, <1>5, <2>1, <2>2, <2>3 DEF Terminal, OpenStatus
<1>9. CASE Take(c)
  <2>1. Running(c) /\ run[c].at = "answered"
    BY <1>9 DEF Take, At
  <2>2. Job(c) \in Turns /\ status[Job(c)] = "ready"
    BY <2>1, OwnJob DEF CaptureInv, RunOK
  <2>3. \/ Settle(c, "skipped")
        \/ status' = [status EXCEPT ![Job(c)] = "applying"] /\ UNCHANGED <<stamp, watermark>>
    BY <1>9 DEF Take
  <2>. QED BY <1>4, <1>5, <2>1, <2>2, <2>3 DEF Terminal, OpenStatus
<1>10. CASE \E outcome \in {"commit", "await", "throw"} : Apply(c, outcome)
  <2>1. Running(c) /\ run[c].at = "applying" /\ (UNCHANGED journal \/ Settle(c, "failed"))
    BY <1>10 DEF Apply, At
  <2>. QED BY <1>3, <1>4, <2>1 DEF Terminal
<1>11. CASE \E ok \in BOOLEAN : Claim(c, ok)
  <2>1. Running(c) /\ run[c].at = "claiming" /\ (UNCHANGED journal \/ Settle(c, "failed"))
    BY <1>11 DEF Claim, At
  <2>. QED BY <1>3, <1>4, <2>1 DEF Terminal
<1>12. CASE Receipt(c)
  <2>1. Running(c) /\ run[c].at = "committed"
    BY <1>12 DEF Receipt, At
  <2>2. Legal(Finished(Job(c), "completed"))
    BY <2>1, OwnJob, FinishedLegal DEF Terminal
  <2>3. UNCHANGED journal \/ (Write(Finished(Job(c), "completed"), stamp) /\ stamp' = stamp)
    BY <1>12 DEF Receipt
  <2>. QED BY <1>2, <1>3, <2>2, <2>3, WriteEffect
<1>13. CASE \E ok \in BOOLEAN : Publish(c, ok)
  <2>1. Running(c) /\ run[c].at = "publishing" /\ (UNCHANGED journal \/ Settle(c, "failed"))
    BY <1>13 DEF Publish, At
  <2>. QED BY <1>3, <1>4, <2>1 DEF Terminal
<1>. QED BY <1>6, <1>7, <1>8, <1>9, <1>10, <1>11, <1>12, <1>13 DEF Driver

LEMMA LaunchEffect ==
    ASSUME CaptureInv, NEW t \in Turns, NEW oversize \in BOOLEAN, Launch(t, oversize)
    PROVE  JournalEffect
<1>1. launched' = launched \cup {t} /\ server' = server /\ launched \subseteq Turns
  BY RestNow DEF Launch, host, RestOK
<1>2. CASE status[t] # "none" \/ t[2] <= watermark[ChatOf(t)]
  <2>1. UNCHANGED journal
    BY <1>2 DEF Launch
  <2>. QED BY <1>1, <1>2, <2>1 DEF JournalEffect, journal
<1>3. CASE ~(status[t] # "none" \/ t[2] <= watermark[ChatOf(t)])
  <2> DEFINE skip == oversize \/ Full(ChatOf(t))
             s == IF skip THEN "skipped" ELSE "pending"
             at == [stamp EXCEPT ![t] = 1 + Cardinality({u \in Turns : stamp[u] > 0})]
  <2>1. Write([status EXCEPT ![t] = s], at) /\ stamp' = at
    BY <1>3 DEF Launch
  <2>2. s \in {"skipped", "pending"} /\ (s = "pending" => ~Full(ChatOf(t)))
    OBVIOUS
  <2> HIDE DEF s
  <2>3. Recorded(t)
    BY <1>1, <1>3, <2>1, <2>2 DEF Recorded
  <2>. QED BY <2>3 DEF JournalEffect
<1>. QED BY <1>2, <1>3

LEMMA RequestEffect ==
    ASSUME CaptureInv, NEW c \in Chats, Request(c)
    PROVE  JournalEffect
<1>1. CASE \E t \in TurnsOf(c), oversize \in BOOLEAN : Launch(t, oversize)
  BY <1>1, LaunchEffect DEF TurnsOf
<1>2. CASE Cancel(c) /\ UNCHANGED launched
  <2>1. Legal(Cancelled(c)) /\ Write(Cancelled(c), stamp) /\ stamp' = stamp
    BY <1>2, CancelledLegal DEF Cancel
  <2>. QED BY <1>2, <2>1, WriteEffect
<1>3. CASE UNCHANGED <<journal, host, launched>>
  <2>1. server' = server
    BY <1>3 DEF host
  <2>. QED BY <1>3, <2>1, SameEffect
<1>. QED BY <1>1, <1>2, <1>3
     DEF Request, SettingsOff, PolicyMoves, BeginPolicyChange, EndPolicyChange, CloseChat

LEMMA CrashEffect ==
    ASSUME CaptureInv, NEW c \in Chats, CrashInWrite(c)
    PROVE  JournalEffect
<1>1. server' # "up" /\ stamp' = stamp /\ launched' = launched
  BY DEF CrashInWrite, Die
<1>2. ASSUME NEW st, Legal(st), Torn(st, stamp) PROVE JournalEffect
  BY <1>1, <1>2 DEF JournalEffect, CutShort
<1>3. CASE Torn(Cancelled(c), stamp)
  BY <1>2, <1>3, CancelledLegal
<1>4. CASE /\ Running(c) /\ ~Aborted(c)
           /\ \E s \in OutcomesAt(run[c].at) : Torn(Finished(Job(c), s), stamp)
  <2>1. PICK s \in OutcomesAt(run[c].at) : Torn(Finished(Job(c), s), stamp)
    BY <1>4
  <2>2. s \in Terminal /\ run[c].at # "loop"
    BY DEF OutcomesAt, Terminal
  <2>3. Job(c) \in Turns
    BY <1>4, <2>2, OwnJob
  <2>. QED BY <1>2, <2>1, <2>2, <2>3, FinishedLegal
<1>5. CASE LET t == NextIn(c, status)
           IN  t # NoJob /\ Torn(Finished(t, "skipped"), stamp)
  <2>1. NextIn(c, status) \in Turns
    BY <1>5, NextInIsDue DEF TurnsOf, CaptureInv, TypeOK
  <2>2. Legal(Finished(NextIn(c, status), "skipped"))
    BY <2>1, FinishedLegal DEF Terminal
  <2>. QED BY <1>2, <1>5, <2>2
<1>. QED BY <1>3, <1>4, <1>5 DEF CrashInWrite

LEMMA NextEffect ==
    ASSUME CaptureInv, [Next]_vars
    PROVE  JournalEffect
<1>1. CASE \E c \in Chats : Driver(c) \/ Request(c) \/ CrashInWrite(c)
  BY <1>1, DriverEffect, RequestEffect, CrashEffect
<1>2. CASE Shutdown \/ Exit \/ Crash \/ UNCHANGED vars
  <2>1. UNCHANGED <<journal, launched>> /\ (server' = "up" => server = "up")
    BY <1>2 DEF Shutdown, Exit, Crash, Die, vars, host
  <2>. QED BY <2>1, SameEffect
<1>3. CASE CrashInRecovery
  <2>1. server' # "up" /\ stamp' = stamp /\ launched' = launched
    BY <1>3 DEF CrashInRecovery
  <2>2. \E st \in {Resumed, Recovered} : Torn(st, stamp) \/ (status' = st /\ UNCHANGED watermark)
    BY <1>3 DEF CrashInRecovery
  <2>3. Legal(Resumed) /\ Legal(Recovered)
    BY RecoveredLegal
  <2>. QED BY <2>1, <2>2, <2>3 DEF JournalEffect, CutShort
<1>4. CASE Restart
  <2>1. Write(Recovered, stamp) /\ stamp' = stamp /\ launched' = launched
    BY <1>4 DEF Restart
  <2>. QED BY <2>1, RecoveredLegal, WriteEffect
<1>. QED BY <1>1, <1>2, <1>3, <1>4 DEF Next

---------------------------------------------------------------------------
(* The journal's stamps, watermarks and limits *)

Stamped == {u \in Turns : stamp[u] > 0}
Final   == {t \in Turns : status[t] \in Terminal}

\* Every row has a stamp of its own, and a new row gets the next.
Numbered(t) ==
    /\ t \notin launched => stamp[t] = 0
    /\ status[t] # "none" => stamp[t] > 0
    /\ stamp[t] <= Cardinality(Stamped)

Distinct == \A t, u \in Turns : t # u /\ stamp[t] = stamp[u] => stamp[t] = 0

\* A watermark never exceeds the turns of its chat that were launched.
Covered(c) == watermark[c] = 0 \/ \E u \in launched \cap TurnsOf(c) : watermark[c] = u[2]

OpenWithin ==
    /\ Cardinality({t \in Turns : Open(t)}) <= Total
    /\ \A c \in Chats : Cardinality({t \in TurnsOf(c) : Open(t)}) <= PerChat

FinalWithin == server = "up" => Cardinality(Final) <= History

JournalInv ==
    /\ \A t \in Turns : Numbered(t)
    /\ Distinct
    /\ \A c \in Chats : Covered(c)
    /\ OpenWithin /\ FinalWithin

LEMMA SubsetSize ==
    ASSUME NEW S \in SUBSET Turns, NEW T \in SUBSET S
    PROVE  /\ IsFiniteSet(S) /\ Cardinality(S) \in Nat
           /\ IsFiniteSet(T) /\ Cardinality(T) \in Nat /\ Cardinality(T) <= Cardinality(S)
<1>1. IsFiniteSet(S) /\ Cardinality(S) \in Nat
  BY TurnsFinite, FS_Subset, FS_CardinalityType
<1>. QED BY <1>1, FS_Subset, FS_CardinalityType

LEMMA WriteLifts ==
    ASSUME CaptureInv, NEW st, NEW at, Write(st, at) \/ Torn(st, at)
    PROVE  Lifted(st)
<1>1. ASSUME NEW old \in SUBSET Excess(st, at), watermark' = [c \in Chats |-> Raised(c, old)]
      PROVE  Lifted(st)
  <2>1. old \in SUBSET Turns /\ \A t \in old : st[t] \in Terminal
    BY DEF Excess
  <2>2. ASSUME NEW c \in Chats
        PROVE  \/ watermark'[c] = watermark[c]
               \/ \E t \in TurnsOf(c) : st[t] \in Terminal /\ watermark'[c] = t[2]
    <3>1. Raised(c, old) = watermark[c] \/ \E t \in old \cap TurnsOf(c) : Raised(c, old) = t[2]
      BY <2>1, RaisedCovers DEF CaptureInv, TypeOK
    <3>. QED BY <1>1, <2>1, <3>1
  <2>. QED BY <2>2 DEF Lifted
<1>2. CASE Write(st, at)
  BY <1>1, <1>2 DEF Write
<1>3. CASE Torn(st, at)
  <2>1. PICK raised \in SUBSET Excess(st, at) : watermark' = [c \in Chats |-> Raised(c, raised)]
    BY <1>3 DEF Torn
  <2>. QED BY <1>1, <2>1
<1>. QED BY <1>2, <1>3

\* prune() keeps at most History outcomes: the oldest it keeps has fewer than History
\* newer ones, and all others it keeps are newer.
LEMMA PruneBounds ==
    ASSUME NEW st \in [Turns -> States], NEW at \in [Turns -> Nat], Write(st, at),
           \A t, u \in Turns : t # u /\ st[t] \in Terminal /\ st[u] \in Terminal => at[t] # at[u]
    PROVE  Cardinality(Final') <= History
<1> DEFINE K == Final'
           newer(t) == {u \in Turns : st[u] \in Terminal /\ at[u] > at[t]}
<1>1. K \in SUBSET Turns
  BY DEF Final
<1>2. \A t \in K : st[t] \in Terminal /\ ~(Cardinality(newer(t)) >= History)
  BY DEF Final, Write, Excess, Terminal
<1>3. IsFiniteSet(K) /\ Cardinality(K) \in Nat /\ History \in Nat \ {0}
  <2> HIDE DEF K
  <2>. QED BY <1>1, SubsetSize, LimitsAssumption
<1>4. CASE K = {}
  BY <1>3, <1>4, FS_EmptySet
<1>5. CASE K # {}
  <2> DEFINE S == {at[t] : t \in K}
  <2>1. S \subseteq Nat /\ S # {}
    <3> HIDE DEF K
    <3>. QED BY <1>1, <1>5
  <2>2. PICK n \in S : \A k \in S : n <= k
    <3> HIDE DEF S
    <3>. QED BY <2>1, LeastExists
  <2>3. PICK x \in K : n = at[x]
    OBVIOUS
  <2> HIDE DEF K
  <2>4. ASSUME NEW u \in K \ {x} PROVE u \in newer(x)
    <3>1. u \in Turns /\ x \in Turns /\ u # x /\ st[u] \in Terminal /\ at[u] # at[x]
      BY <1>1, <1>2, <2>3
    <3>2. at[x] <= at[u] /\ at[x] \in Nat /\ at[u] \in Nat
      BY <2>2, <2>3, <3>1
    <3>. QED BY <3>1, <3>2
  <2>5. K \ {x} \in SUBSET newer(x) /\ newer(x) \in SUBSET Turns
    BY <2>4
  <2>6. ~(Cardinality(newer(x)) >= History)
    BY <1>2, <2>3
  <2> HIDE DEF newer
  <2>7. /\ Cardinality(newer(x)) \in Nat /\ Cardinality(K \ {x}) \in Nat
        /\ Cardinality(K \ {x}) <= Cardinality(newer(x))
    BY <2>5, SubsetSize
  <2>8. Cardinality(K \ {x}) = Cardinality(K) - 1
    BY <1>3, <2>3, FS_RemoveElement
  <2>9. Cardinality(K) <= History
    BY <1>3, <2>6, <2>7, <2>8
  <2>. QED BY <2>9 DEF K
<1>. QED BY <1>4, <1>5

LEMMA OpenShrinks ==
    ASSUME OpenWithin, \A t \in Turns : Open(t)' => Open(t)
    PROVE  OpenWithin'
<1>1. Total \in Nat /\ PerChat \in Nat
  BY LimitsAssumption
<1>2. ASSUME NEW S \in SUBSET Turns, NEW m \in Nat, Cardinality({t \in S : Open(t)}) <= m
      PROVE  Cardinality({t \in S : Open(t)'}) <= m
  <2> DEFINE now == {t \in S : Open(t)}
             next == {t \in S : Open(t)'}
  <2>1. now \in SUBSET Turns /\ next \in SUBSET now
    OBVIOUS
  <2>2. Cardinality(now) <= m
    BY <1>2
  <2> HIDE DEF now, next
  <2>3. Cardinality(now) \in Nat /\ Cardinality(next) \in Nat /\ Cardinality(next) <= Cardinality(now)
    BY <2>1, SubsetSize
  <2>4. Cardinality(next) <= m
    BY <2>2, <2>3
  <2>. QED BY <2>4 DEF next
<1>3. Cardinality({t \in Turns : Open(t)'}) <= Total
  BY <1>1, <1>2 DEF OpenWithin
<1>4. ASSUME NEW c \in Chats PROVE Cardinality({t \in TurnsOf(c) : Open(t)'}) <= PerChat
  <2>1. TurnsOf(c) \in SUBSET Turns /\ Cardinality({t \in TurnsOf(c) : Open(t)}) <= PerChat
    BY DEF OpenWithin, TurnsOf
  <2>. QED BY <1>1, <1>2, <2>1
<1>. QED BY <1>3, <1>4 DEF OpenWithin, TurnsOf, ChatOf

\* What a statement that records nothing does to stamps and watermarks.
LEMMA NumbersKept ==
    ASSUME CaptureInv, JournalInv, NEW st, Legal(st), Kept(st), Lifted(st),
           UNCHANGED <<stamp, launched>>
    PROVE  /\ \A t \in Turns : Numbered(t)'
           /\ Distinct'
           /\ \A c \in Chats : Covered(c)'
           /\ OpenWithin'
<1>1. Stamped' = Stamped
  BY DEF Stamped
<1>2. ASSUME NEW t \in Turns PROVE Numbered(t)'
  <2>1. Numbered(t)
    BY DEF JournalInv
  <2>2. status'[t] # "none" => status[t] # "none"
    BY DEF Legal, Kept
  <2>. QED BY <1>1, <2>1, <2>2 DEF Numbered
<1>3. Distinct'
  BY DEF JournalInv, Distinct
<1>4. ASSUME NEW c \in Chats PROVE Covered(c)'
  <2>1. CASE watermark'[c] = watermark[c]
    BY <2>1 DEF JournalInv, Covered, TurnsOf, ChatOf
  <2>2. CASE \E t \in TurnsOf(c) : st[t] \in Terminal /\ watermark'[c] = t[2]
    <3>1. PICK t \in TurnsOf(c) : st[t] \in Terminal /\ watermark'[c] = t[2]
      BY <2>2
    <3>2. t \in launched
      BY <3>1 DEF CaptureInv, RecordedOK, Legal, TurnsOf, Terminal
    <3>. QED BY <3>1, <3>2 DEF Covered, TurnsOf, ChatOf
  <2>. QED BY <2>1, <2>2 DEF Lifted
<1>5. \A t \in Turns : Open(t)' => Open(t)
  <2>1. ASSUME NEW t \in Turns, ~Open(t) PROVE ~Open(t)'
    <3>1. status[t] \in Terminal \cup {"none"}
      BY <2>1 DEF Open, CaptureInv, TypeOK
    <3>2. st[t] \in Terminal \cup {"none"}
      BY <3>1 DEF Legal
    <3>3. status'[t] \in Terminal \cup {"none"}
      BY <3>2 DEF Kept
    <3>. QED BY <3>3 DEF Open, OpenStatus, Terminal
  <2>. QED BY <2>1
<1>6. OpenWithin'
  BY <1>5, OpenShrinks DEF JournalInv
<1>. QED BY <1>2, <1>3, <1>4, <1>6

LEMMA AdvanceKeepsJournal ==
    ASSUME CaptureInv, JournalInv, NEW t \in Turns, Advances(t), UNCHANGED <<launched, server>>
    PROVE  JournalInv'
<1>1. PICK s \in OpenStatus : status' = [status EXCEPT ![t] = s]
  BY DEF Advances
<1>2. status \in [Turns -> States] /\ Open(t) /\ stamp' = stamp /\ watermark' = watermark
  BY DEF Advances, CaptureInv, TypeOK, States
<1>3. \A u \in Turns : /\ Open(u)' <=> Open(u)
                       /\ status'[u] \in Terminal <=> status[u] \in Terminal
                       /\ status'[u] = "none" <=> status[u] = "none"
  BY <1>1, <1>2 DEF Open, OpenStatus, Terminal
<1>4. Final' = Final /\ Stamped' = Stamped
  BY <1>2, <1>3 DEF Final, Stamped
<1>5. \A u \in Turns : Numbered(u)'
  BY <1>2, <1>3, <1>4 DEF JournalInv, Numbered
<1>6. Distinct' /\ \A c \in Chats : Covered(c)'
  BY <1>2 DEF JournalInv, Distinct, Covered, TurnsOf, ChatOf
<1>7. OpenWithin' /\ FinalWithin'
  BY <1>3, <1>4, OpenShrinks DEF JournalInv, FinalWithin
<1>. QED BY <1>5, <1>6, <1>7 DEF JournalInv

LEMMA WriteKeepsJournal ==
    ASSUME CaptureInv, JournalInv, NEW st, Wrote(st) \/ CutShort(st), UNCHANGED launched
    PROVE  JournalInv'
<1>1. Legal(st) /\ stamp' = stamp /\ watermark \in [Chats -> Nat] /\ stamp \in [Turns -> Nat]
  BY DEF Wrote, CutShort, CaptureInv, TypeOK
<1>2. Kept(st)
  BY <1>1, WriteKeeps, TornKeeps, PlainKeeps DEF Wrote, CutShort, Legal
<1>3. Lifted(st)
  BY WriteLifts DEF Wrote, CutShort, Lifted
<1>4. FinalWithin'
  <2>1. CASE CutShort(st)
    BY <2>1 DEF CutShort, FinalWithin
  <2>2. CASE Wrote(st)
    <3>1. \A t \in Turns : st[t] \in Terminal => stamp[t] > 0
      BY <1>1 DEF JournalInv, Numbered, Legal, Terminal
    <3>2. \A t, u \in Turns :
             t # u /\ st[t] \in Terminal /\ st[u] \in Terminal => stamp[t] # stamp[u]
      BY <1>1, <3>1 DEF JournalInv, Distinct
    <3>3. Cardinality(Final') <= History
      BY <1>1, <2>2, <3>2, PruneBounds DEF Wrote, Legal
    <3>. QED BY <3>3 DEF FinalWithin
  <2>. QED BY <2>1, <2>2
<1>. QED BY <1>1, <1>2, <1>3, <1>4, NumbersKept DEF JournalInv

\* A relaunch, a stop and everything else that leaves the journal alone.
LEMMA SameKeepsJournal ==
    ASSUME CaptureInv, JournalInv, launched \subseteq launched', launched' \subseteq Turns,
           \A t \in launched' \ launched : status[t] # "none" \/ t[2] <= watermark[ChatOf(t)],
           UNCHANGED <<status, stamp, watermark>>, server' = "up" => server = "up"
    PROVE  JournalInv'
<1>1. Stamped' = Stamped /\ Final' = Final
  BY DEF Stamped, Final
<1>2. \A t \in Turns : Numbered(t)'
  BY <1>1 DEF JournalInv, Numbered
<1>3. Distinct' /\ \A c \in Chats : Covered(c)'
  BY DEF JournalInv, Distinct, Covered, TurnsOf, ChatOf
<1>4. \A t \in Turns : Open(t)' => Open(t)
  BY DEF Open
<1>. QED BY <1>1, <1>2, <1>3, <1>4, OpenShrinks DEF JournalInv, FinalWithin

\* The next stamp is larger than every other.
LEMMA NextStamp ==
    ASSUME CaptureInv, JournalInv, NEW t \in Turns, t \notin launched,
           stamp' = [stamp EXCEPT ![t] = 1 + Cardinality(Stamped)]
    PROVE  /\ stamp' \in [Turns -> Nat] /\ stamp'[t] > 0
           /\ \A u \in Turns \ {t} : stamp'[u] = stamp[u] /\ stamp'[u] < stamp'[t]
           /\ Cardinality(Stamped') = stamp'[t]
<1>1. Stamped \in SUBSET Turns /\ stamp \in [Turns -> Nat]
  BY DEF Stamped, CaptureInv, TypeOK
<1>2. IsFiniteSet(Stamped) /\ Cardinality(Stamped) \in Nat
  BY <1>1, SubsetSize
<1>3. stamp[t] = 0 /\ t \notin Stamped
  BY DEF JournalInv, Numbered, Stamped
<1>4. /\ stamp'[t] = 1 + Cardinality(Stamped) /\ stamp' \in [Turns -> Nat]
      /\ \A u \in Turns \ {t} : stamp'[u] = stamp[u]
  BY <1>1, <1>2
<1>5. \A u \in Turns : stamp[u] <= Cardinality(Stamped) /\ stamp[u] \in Nat
  BY <1>1 DEF JournalInv, Numbered
<1>6. \A u \in Turns \ {t} : stamp'[u] < stamp'[t]
  BY <1>2, <1>4, <1>5
<1>7. Stamped' = Stamped \cup {t}
  BY <1>2, <1>4 DEF Stamped
<1>8. Cardinality(Stamped') = Cardinality(Stamped) + 1
  BY <1>2, <1>3, <1>7, FS_AddElement
<1>. QED BY <1>2, <1>4, <1>6, <1>8

\* A pending job is recorded only while there is room for it.
LEMMA RoomForOne ==
    ASSUME OpenWithin, NEW t \in Turns, \A u \in Turns \ {t} : Open(u)' => Open(u),
           Open(t)' => Open(t) \/ ~Full(ChatOf(t))
    PROVE  OpenWithin'
<1>1. Total \in Nat /\ PerChat \in Nat /\ ChatOf(t) \in Chats
  BY LimitsAssumption, TurnParts
<1>2. CASE Open(t)' => Open(t)
  BY <1>2, OpenShrinks
<1>3. CASE ~Full(ChatOf(t))
  <2>1. ASSUME NEW S \in SUBSET Turns, NEW m \in Nat,
               ~(Cardinality({u \in S : Open(u)}) >= m) \/ (t \notin S /\ Cardinality({u \in S : Open(u)}) <= m)
        PROVE  Cardinality({u \in S : Open(u)'}) <= m
    <3> DEFINE now == {u \in S : Open(u)}
               next == {u \in S : Open(u)'}
               more == IF t \in S THEN now \cup {t} ELSE now
    <3>1. now \in SUBSET Turns /\ more \in SUBSET Turns /\ next \in SUBSET more
      OBVIOUS
    <3>2. IsFiniteSet(now) /\ Cardinality(now) \in Nat
      <4> HIDE DEF now
      <4>. QED BY <3>1, SubsetSize
    <3>3. Cardinality(more) <= m
      <4>1. CASE t \in S
        <5>1. ~(Cardinality(now) >= m)
          BY <2>1, <4>1
        <5>2. more = now \cup {t}
          BY <4>1
        <5> HIDE DEF now, more
        <5>3. Cardinality(more) = Cardinality(now) \/ Cardinality(more) = Cardinality(now) + 1
          BY <3>2, <5>2, FS_AddElement
        <5>. QED BY <3>2, <5>1, <5>3
      <4>2. CASE t \notin S
        <5>1. more = now
          BY <4>2
        <5>2. Cardinality(now) <= m
          <6>1. ~(Cardinality(now) >= m) \/ Cardinality(now) <= m
            BY <2>1
          <6> HIDE DEF now
          <6>. QED BY <3>2, <6>1
        <5>. QED BY <5>1, <5>2
      <4>. QED BY <4>1, <4>2
    <3> HIDE DEF now, next, more
    <3>4. /\ Cardinality(next) \in Nat /\ Cardinality(more) \in Nat
          /\ Cardinality(next) <= Cardinality(more)
      BY <3>1, SubsetSize
    <3>5. Cardinality(next) <= m
      BY <3>3, <3>4
    <3>. QED BY <3>5 DEF next
  <2>2. Cardinality({u \in Turns : Open(u)'}) <= Total
    <3>1. ~(Cardinality({u \in Turns : Open(u)}) >= Total)
      BY <1>3 DEF Full
    <3>. QED BY <1>1, <2>1, <3>1
  <2>3. ASSUME NEW c \in Chats PROVE Cardinality({u \in TurnsOf(c) : Open(u)'}) <= PerChat
    <3>1. TurnsOf(c) \in SUBSET Turns
      BY DEF TurnsOf
    <3>2. CASE c = ChatOf(t)
      <4>1. ~(Cardinality({u \in TurnsOf(c) : Open(u)}) >= PerChat)
        BY <1>3, <3>2 DEF Full
      <4>. QED BY <1>1, <2>1, <3>1, <4>1
    <3>3. CASE c # ChatOf(t)
      <4>1. t \notin TurnsOf(c) /\ Cardinality({u \in TurnsOf(c) : Open(u)}) <= PerChat
        BY <3>3 DEF TurnsOf, OpenWithin
      <4>. QED BY <1>1, <2>1, <3>1, <4>1
    <3>. QED BY <3>2, <3>3
  <2>. QED BY <2>2, <2>3 DEF OpenWithin, TurnsOf, ChatOf
<1>. QED BY <1>2, <1>3

LEMMA RecordedKeepsJournal ==
    ASSUME CaptureInv, JournalInv, NEW t \in Turns, Recorded(t)
    PROVE  JournalInv' /\ t \notin launched /\ status'[t] # "none"
           /\ \A u \in Turns \ {t} : stamp'[u] = stamp[u] /\ stamp'[u] < stamp'[t]
<1> DEFINE at == [stamp EXCEPT ![t] = 1 + Cardinality({u \in Turns : stamp[u] > 0})]
<1>1. PICK s \in {"skipped", "pending"} :
        (s = "pending" => ~Full(ChatOf(t))) /\ Write([status EXCEPT ![t] = s], at)
  BY DEF Recorded
<1> DEFINE st == [status EXCEPT ![t] = s]
<1>2. t \notin launched /\ launched' = launched \cup {t} /\ stamp' = at /\ server' = server
  BY UncoveredIsNew DEF Recorded
<1>3. status \in [Turns -> States] /\ watermark \in [Chats -> Nat]
  BY DEF CaptureInv, TypeOK, States
<1>4. st \in [Turns -> States] /\ st[t] = s /\ \A u \in Turns \ {t} : st[u] = status[u]
  BY <1>3 DEF States, OpenStatus, Terminal
<1>5. Write(st, at)
  BY <1>1
<1>6. stamp' = [stamp EXCEPT ![t] = 1 + Cardinality(Stamped)]
  BY <1>2 DEF Stamped
<1> HIDE DEF at, st
<1>7. /\ at \in [Turns -> Nat] /\ stamp'[t] > 0
      /\ \A u \in Turns \ {t} : stamp'[u] = stamp[u] /\ stamp'[u] < stamp'[t]
      /\ Cardinality(Stamped') = stamp'[t]
  BY <1>2, <1>6, NextStamp
<1>8. Kept(st) /\ Lifted(st)
  BY <1>3, <1>4, <1>5, WriteKeeps, WriteLifts
<1>9. \A u \in Turns \ {t} : status'[u] # "none" => status[u] # "none"
  BY <1>4, <1>8 DEF Kept
<1>10. status'[t] # "none"
  <2>1. {u \in Turns : st[u] \in Terminal /\ at[u] > at[t]} = {}
    <3>1. ASSUME NEW u \in Turns PROVE ~(at[u] > at[t])
      <4>1. CASE u = t
        BY <4>1, <1>7
      <4>2. CASE u # t
        BY <4>2, <1>2, <1>7
      <4>. QED BY <4>1, <4>2
    <3>. QED BY <3>1
  <2>2. ~(Cardinality({}) >= History)
    BY FS_EmptySet, LimitsAssumption
  <2>3. t \notin Excess(st, at)
    BY <2>1, <2>2 DEF Excess
  <2>4. status'[t] = s
    BY <1>4, <1>5, <2>3 DEF Write
  <2>. QED BY <2>4
<1>11. ASSUME NEW u \in Turns PROVE Numbered(u)'
  <2>1. CASE u = t
    BY <2>1, <1>2, <1>7 DEF Numbered
  <2>2. CASE u # t
    <3>1. u \notin launched' => stamp'[u] = 0
      BY <2>2, <1>2, <1>7 DEF JournalInv, Numbered
    <3>2. status'[u] # "none" => stamp'[u] > 0
      BY <2>2, <1>7, <1>9 DEF JournalInv, Numbered
    <3>3. stamp'[u] <= Cardinality(Stamped')
      BY <2>2, <1>2, <1>7
    <3>. QED BY <3>1, <3>2, <3>3 DEF Numbered
  <2>. QED BY <2>1, <2>2
<1>12. Distinct'
  <2>1. ASSUME NEW u \in Turns, NEW v \in Turns, u # v, stamp'[u] = stamp'[v]
        PROVE  stamp'[u] = 0
    <3>1. u # t /\ v # t
      BY <2>1, <1>2, <1>7
    <3>. QED BY <2>1, <3>1, <1>7 DEF JournalInv, Distinct
  <2>. QED BY <2>1 DEF Distinct
<1>13. ASSUME NEW c \in Chats PROVE Covered(c)'
  <2>1. CASE watermark'[c] = watermark[c]
    BY <2>1, <1>2 DEF JournalInv, Covered, TurnsOf, ChatOf
  <2>2. CASE \E u \in TurnsOf(c) : st[u] \in Terminal /\ watermark'[c] = u[2]
    <3>1. PICK u \in TurnsOf(c) : st[u] \in Terminal /\ watermark'[c] = u[2]
      BY <2>2
    <3>2. u \in launched'
      BY <3>1, <1>2, <1>4 DEF CaptureInv, RecordedOK, TurnsOf, Terminal
    <3>. QED BY <3>1, <3>2 DEF Covered, TurnsOf, ChatOf
  <2>. QED BY <2>1, <2>2, <1>8 DEF Lifted
<1>14. OpenWithin'
  <2>1. ASSUME NEW u \in Turns \ {t}, Open(u)' PROVE Open(u)
    BY <2>1, <1>4, <1>8 DEF Kept, Open, OpenStatus, Terminal
  <2>2. Open(t)' => ~Full(ChatOf(t))
    BY <1>1, <1>4, <1>8 DEF Kept, Open, OpenStatus, Terminal
  <2>. QED BY <2>1, <2>2, RoomForOne DEF JournalInv
<1>15. FinalWithin'
  <2>1. ASSUME NEW u \in Turns, NEW v \in Turns, u # v, st[u] \in Terminal, st[v] \in Terminal
        PROVE  at[u] # at[v]
    <3>1. CASE u # t /\ v # t
      <4>1. stamp[u] > 0 /\ stamp[v] > 0
        BY <2>1, <3>1, <1>4 DEF JournalInv, Numbered, Terminal
      <4>. QED BY <2>1, <3>1, <4>1, <1>2, <1>7 DEF JournalInv, Distinct
    <3>2. CASE u = t \/ v = t
      BY <2>1, <3>2, <1>2, <1>7
    <3>. QED BY <3>1, <3>2
  <2>2. Cardinality(Final') <= History
    BY <1>4, <1>5, <1>7, <2>1, PruneBounds
  <2>. QED BY <2>2 DEF FinalWithin
<1>. QED BY <1>2, <1>7, <1>10, <1>11, <1>12, <1>13, <1>14, <1>15 DEF JournalInv

LEMMA JournalStep ==
    ASSUME CaptureInv, JournalInv, [Next]_vars
    PROVE  JournalInv'
<1>1. CASE \E t \in Turns : Recorded(t)
  BY <1>1, RecordedKeepsJournal
<1>2. CASE \E t \in Turns : Advances(t) /\ UNCHANGED <<launched, server>>
  BY <1>2, AdvanceKeepsJournal
<1>3. CASE \E st : (Wrote(st) \/ CutShort(st)) /\ UNCHANGED launched
  BY <1>3, WriteKeepsJournal
<1>4. CASE /\ launched \subseteq launched' /\ launched' \subseteq Turns
           /\ \A t \in launched' \ launched : status[t] # "none" \/ t[2] <= watermark[ChatOf(t)]
           /\ UNCHANGED <<status, stamp, watermark>> /\ (server' = "up" => server = "up")
  BY <1>4, SameKeepsJournal
<1>. QED BY <1>1, <1>2, <1>3, <1>4, NextEffect DEF JournalEffect

LEMMA JournalInit ==
    ASSUME Init
    PROVE  JournalInv
<1>1. Stamped = {} /\ Final = {} /\ {t \in Turns : Open(t)} = {}
      /\ \A c \in Chats : {t \in TurnsOf(c) : Open(t)} = {}
  BY DEF Init, Stamped, Final, Open, OpenStatus, Terminal, TurnsOf
<1>2. Cardinality({}) = 0 /\ Total \in Nat /\ PerChat \in Nat /\ History \in Nat
  BY FS_EmptySet, LimitsAssumption
<1>3. OpenWithin /\ FinalWithin
  BY <1>1, <1>2 DEF OpenWithin, FinalWithin
<1>4. \A t \in Turns : Numbered(t)
  BY <1>1, <1>2 DEF Init, Numbered
<1>. QED BY <1>3, <1>4 DEF JournalInv, Distinct, Covered, Init

---------------------------------------------------------------------------
(* Whose a job in flight is, and that it is the oldest *)

Held(t) == status[t] \in {"running", "applying"}

\* Everything else that is open in t's chat waits behind it.
First(t) ==
    \A u \in TurnsOf(ChatOf(t)) \ {t} : Open(u) => status[u] = "pending" /\ stamp[t] < stamp[u]

\* A run that resolves the runtime of t will take t up if nobody aborts it.
Chosen(c, t) == Running(c) /\ run[c].at = "resolving" /\ Job(c) = t /\ ~Aborted(c)

\* Where a run of c stands: it holds a job outside its loop only, a job it has published
\* is not in flight, it cannot be aborted in synchronous code, and is when the server stops.
StandsOK(c) ==
    Running(c) =>
        /\ run[c].at = "loop" => Job(c) = NoJob
        /\ run[c].at = "publishing" => ~Held(Job(c))
        /\ run[c].at \in {"answered", "applying"} => ~Aborted(c)
        /\ server # "up" => Aborted(c)

OwnedOK(c) ==
    \A t \in TurnsOf(c) : server = "up" /\ Held(t) => Running(c) /\ Job(c) = t /\ ~Aborted(c)

IdleOK(c) == c \in closed \cup changing => \A t \in TurnsOf(c) : ~Open(t)

OldestOK(c) ==
    \A t \in TurnsOf(c) : Held(t) \/ status[t] = "ready" \/ Chosen(c, t) => First(t)

ChatInv(c) == StandsOK(c) /\ OwnedOK(c) /\ IdleOK(c) /\ OldestOK(c)

\* Rows of c are finished, pruned or put back in the queue, and none comes.
Recedes(c) ==
    \A t \in TurnsOf(c) :
        \/ status'[t] = status[t]
        \/ status'[t] \in Terminal \cup {"none"}
        \/ status[t] = "running" /\ status'[t] = "pending"

LEMMA OwnTurns ==
    ASSUME NEW c
    PROVE  /\ TurnsOf(c)' = TurnsOf(c)
           /\ \A t \in TurnsOf(c) : t \in Turns /\ ChatOf(t) = c /\ ChatOf(t)' = c
BY DEF TurnsOf, ChatOf

LEMMA RecedingTurns ==
    ASSUME NEW c, Recedes(c)
    PROVE  \A t \in TurnsOf(c) : /\ Open(t)' => Open(t)
                                 /\ Open(t)' /\ status[t] = "pending" => status'[t] = "pending"
                                 /\ Held(t)' => Held(t)
                                 /\ status'[t] = "ready" => status[t] = "ready"
BY DEF Recedes, Open, OpenStatus, Terminal, Held

LEMMA RecedeKeeps ==
    ASSUME NEW c \in Chats, ChatInv(c), Recedes(c),
           \A t \in TurnsOf(c) : stamp'[t] = stamp[t],
           \A t \in TurnsOf(c) : Chosen(c, t)' => Chosen(c, t),
           c \in closed' \cup changing' =>
               c \in closed \cup changing \/ \A t \in TurnsOf(c) : ~Open(t)',
           StandsOK(c)', OwnedOK(c)'
    PROVE  ChatInv(c)'
<1>1. IdleOK(c)'
  BY RecedingTurns, OwnTurns DEF ChatInv, IdleOK
<1>2. ASSUME NEW t \in TurnsOf(c), Held(t)' \/ status'[t] = "ready" \/ Chosen(c, t)'
      PROVE  First(t)'
  <2>1. First(t) /\ ChatOf(t) = c /\ ChatOf(t)' = c
    BY <1>2, RecedingTurns, OwnTurns DEF ChatInv, OldestOK
  <2>2. ASSUME NEW u \in TurnsOf(c) \ {t}, Open(u)'
        PROVE  status'[u] = "pending" /\ stamp'[t] < stamp'[u]
    <3>1. Open(u)
      BY <2>2, RecedingTurns
    <3>2. status[u] = "pending" /\ stamp[t] < stamp[u]
      BY <2>1, <3>1 DEF First
    <3>. QED BY <2>2, <3>2, RecedingTurns
  <2>. QED BY <2>1, <2>2, OwnTurns DEF First
<1>3. OldestOK(c)'
  BY <1>2, OwnTurns DEF OldestOK
<1>. QED BY <1>1, <1>3 DEF ChatInv

\* A chat whose run does not move.
LEMMA StillKeeps ==
    ASSUME CaptureInv, NEW c \in Chats, ChatInv(c), Recedes(c), run'[c] = run[c],
           server' = server \/ (server' # "up" /\ ~Running(c)),
           \A t \in TurnsOf(c) : stamp'[t] = stamp[t],
           c \in closed' \cup changing' => c \in closed \cup changing
    PROVE  ChatInv(c)'
<1>1. Running(c)' <=> Running(c)
  BY DEF Running
<1>2. Job(c)' = Job(c) /\ Aborted(c)' = Aborted(c)
  BY DEF Job, Aborted
<1>3. StandsOK(c)'
  <2>1. Running(c) /\ run[c].at = "publishing" => ~Held(Job(c))'
    <3>1. Running(c) /\ run[c].at = "publishing" => Job(c) \in TurnsOf(c)
      BY OwnJob
    <3>. QED BY <3>1, <1>2, RecedingTurns DEF ChatInv, StandsOK, Held
  <2>. QED BY <1>1, <1>2, <2>1 DEF ChatInv, StandsOK
<1>4. OwnedOK(c)'
  BY <1>1, <1>2, RecedingTurns, OwnTurns DEF ChatInv, OwnedOK
<1>5. \A t \in TurnsOf(c) : Chosen(c, t)' => Chosen(c, t)
  BY <1>1, <1>2 DEF Chosen
<1>. QED BY <1>3, <1>4, <1>5, RecedeKeeps

\* The run of c has left its job behind.
LEMMA LeavesKeeps ==
    ASSUME CaptureInv, NEW c \in Chats, ChatInv(c), Running(c), Recedes(c),
           ~Aborted(c) /\ run[c].at # "loop" => status'[Job(c)] \notin {"running", "applying"},
           Running(c)' => run'[c].at = "loop" /\ Job(c)' = NoJob /\ (server # "up" => Aborted(c)'),
           UNCHANGED <<stamp, chats, host>>
    PROVE  ChatInv(c)'
<1>1. server' = server /\ closed' = closed /\ changing' = changing
  BY DEF chats, host
<1>2. StandsOK(c)' /\ \A t \in TurnsOf(c) : ~Chosen(c, t)'
  BY <1>1 DEF StandsOK, Chosen
<1>3. ASSUME NEW t \in TurnsOf(c), server = "up", Held(t)' PROVE FALSE
  <2>1. Held(t)
    BY <1>3, RecedingTurns
  <2>2. Job(c) = t /\ ~Aborted(c)
    BY <1>3, <2>1 DEF ChatInv, OwnedOK
  <2>3. run[c].at # "loop"
    BY <2>2, OwnTurns, AbsenceAssumption DEF ChatInv, StandsOK
  <2>. QED BY <1>3, <2>2, <2>3 DEF Held
<1>4. OwnedOK(c)'
  BY <1>1, <1>3, OwnTurns DEF OwnedOK
<1>. QED BY <1>1, <1>2, <1>4, RecedeKeeps

\* The run of c goes on with the job it holds, and the row is not touched.
LEMMA CarriesKeeps ==
    ASSUME CaptureInv, NEW c \in Chats, ChatInv(c), Running(c), run[c].at # "loop",
           Running(c)', Job(c)' = Job(c), Aborted(c)' = Aborted(c),
           run'[c].at \in {"claiming", "committed", "publishing"},
           run'[c].at = "publishing" => status'[Job(c)] \notin {"running", "applying"},
           Recedes(c),
           UNCHANGED <<stamp, chats, host>>
    PROVE  ChatInv(c)'
<1>1. server' = server /\ closed' = closed /\ changing' = changing
  BY DEF chats, host
<1>2. StandsOK(c)' /\ \A t \in TurnsOf(c) : ~Chosen(c, t)'
  <2>1. run'[c].at = "publishing" => ~Held(Job(c))'
    BY DEF Held
  <2>. QED BY <1>1, <2>1 DEF ChatInv, StandsOK, Chosen, Held
<1>3. OwnedOK(c)'
  BY <1>1, RecedingTurns, OwnTurns DEF ChatInv, OwnedOK
<1>. QED BY <1>1, <1>2, <1>3, RecedeKeeps

\* The run of c takes the job t, which is first, across a boundary.
LEMMA AdvanceKeeps ==
    ASSUME CaptureInv, NEW c \in Chats, ChatInv(c), server = "up",
           NEW t \in TurnsOf(c), Open(t), First(t),
           \A u \in TurnsOf(c) \ {t} : status'[u] = status[u] /\ ~Held(u),
           status'[t] \in {"running", "ready", "applying"},
           Running(c)', Job(c)' = t, ~Aborted(c)', run'[c].at \in {"asking", "answered", "applying"},
           UNCHANGED <<stamp, chats, host>>
    PROVE  ChatInv(c)'
<1>1. server' = server /\ closed' = closed /\ changing' = changing
  BY DEF chats, host
<1>2. StandsOK(c)' /\ OwnedOK(c)'
  BY <1>1, OwnTurns DEF StandsOK, OwnedOK, Held
<1>3. IdleOK(c)'
  BY <1>1 DEF ChatInv, IdleOK
<1>4. First(t)'
  <2>1. ASSUME NEW u \in TurnsOf(c) \ {t}, Open(u)'
        PROVE  status'[u] = "pending" /\ stamp'[t] < stamp'[u]
    <3>1. Open(u)
      BY <2>1 DEF Open
    <3>. QED BY <3>1, OwnTurns DEF First
  <2>. QED BY <2>1, OwnTurns DEF First
<1>5. ASSUME NEW u \in TurnsOf(c), u # t PROVE ~(Held(u)' \/ status'[u] = "ready" \/ Chosen(c, u)')
  <2>1. ~Held(u)' /\ ~Chosen(c, u)'
    BY <1>5 DEF Held, Chosen
  <2>2. status[u] # "ready"
    BY <1>5, OwnTurns DEF First, Open, OpenStatus
  <2>. QED BY <1>5, <2>1, <2>2
<1>6. OldestOK(c)'
  BY <1>4, <1>5, OwnTurns DEF OldestOK
<1>. QED BY <1>2, <1>3, <1>6 DEF ChatInv

\* A request that cancels the jobs of c and aborts its run.
LEMMA CancelledKeeps ==
    ASSUME NEW c \in Chats, \A t \in TurnsOf(c) : ~Open(t)',
           Running(c)' => Aborted(c)' /\ run'[c].at \in Awaits /\ Job(c)' \in TurnsOf(c)
    PROVE  ChatInv(c)'
<1>1. \A t \in TurnsOf(c) : ~Held(t)' /\ status'[t] # "ready" /\ ~Chosen(c, t)'
  BY DEF Open, OpenStatus, Held, Chosen
<1>2. StandsOK(c)'
  <2>1. Running(c)' => ~Held(Job(c))'
    BY <1>1 DEF Held
  <2>. QED BY <2>1 DEF StandsOK, Awaits
<1>. QED BY <1>1, <1>2, OwnTurns DEF ChatInv, OwnedOK, IdleOK, OldestOK

---------------------------------------------------------------------------
(* Every step keeps it *)

AllChats == \A c \in Chats : ChatInv(c)

LEMMA KeptRecedes ==
    ASSUME NEW c \in Chats, NEW st, Kept(st),
           \A t \in TurnsOf(c) : \/ st[t] = status[t] \/ st[t] \in Terminal \cup {"none"}
                                 \/ status[t] = "running" /\ st[t] = "pending"
    PROVE  Recedes(c)
BY OwnTurns DEF Kept, Recedes

LEMMA FinishedRecedes ==
    ASSUME CaptureInv, NEW t \in Turns, NEW s \in Terminal,
           Write(Finished(t, s), stamp)
    PROVE  /\ \A c \in Chats : Recedes(c)
           /\ status'[t] \notin {"running", "applying"}
<1> DEFINE st == Finished(t, s)
<1>1. Legal(st) /\ \A u \in Turns : st[u] = status[u] \/ st[u] \in Terminal
  BY FinishedLegal DEF Finished, CaptureInv, TypeOK
<1>2. st[t] \notin {"running", "applying"} /\ st[t] \in States
  BY DEF Finished, Open, OpenStatus, Terminal, CaptureInv, TypeOK, States
<1>3. Write(st, stamp)
  OBVIOUS
<1> HIDE DEF st
<1>4. Kept(st)
  BY <1>1, <1>3, WriteKeeps DEF Legal, CaptureInv, TypeOK
<1>5. status'[t] = st[t] \/ status'[t] = "none"
  BY <1>4 DEF Kept
<1>6. \A c \in Chats : Recedes(c)
  BY <1>1, <1>4, KeptRecedes, OwnTurns
<1>. QED BY <1>2, <1>5, <1>6

LEMMA SameRecedes ==
    ASSUME UNCHANGED status
    PROVE  \A c \in Chats : Recedes(c)
BY DEF Recedes

\* A step of the driver of c leaves the other chats in order.
LEMMA OthersKeep ==
    ASSUME CaptureInv, AllChats, NEW c \in Chats, \A d \in Chats \ {c} : run'[d] = run[d],
           \A d \in Chats \ {c} : Recedes(d), UNCHANGED <<stamp, chats, host>>,
           ChatInv(c)'
    PROVE  AllChats'
<1>1. server' = server /\ closed' = closed /\ changing' = changing
  BY DEF chats, host
<1>2. \A d \in Chats \ {c} : ChatInv(d)'
  BY <1>1, StillKeeps DEF AllChats
<1>. QED BY <1>2 DEF AllChats

\* Back leaves c's run at its loop, with the same abort signal.
LEMMA BackLeaves ==
    ASSUME CaptureInv, NEW c \in Chats, Running(c), Back(c)
    PROVE  /\ Running(c)' /\ run'[c].at = "loop" /\ Job(c)' = NoJob /\ Aborted(c)' = Aborted(c)
           /\ \A d \in Chats \ {c} : run'[d] = run[d]
<1>1. run \in [Chats -> Runs \cup {NoRun}] /\ run[c] \in Runs
  BY DEF CaptureInv, TypeOK, Running
<1>2. run'[c] = [run[c] EXCEPT !.at = "loop", !.job = NoJob]
      /\ \A d \in Chats \ {c} : run'[d] = run[d]
  BY <1>1 DEF Back
<1>3. run'[c] \in Runs /\ run'[c].at = "loop" /\ run'[c].job = NoJob
      /\ run'[c].aborted = run[c].aborted
  BY <1>1, <1>2 DEF Runs, Points
<1>. QED BY <1>2, <1>3, AbsenceAssumption DEF Running, Job, Aborted

LEMMA BackKeeps ==
    ASSUME CaptureInv, AllChats, NEW c \in Chats, Running(c), Back(c),
           Aborted(c) \/ status'[Job(c)] \notin {"running", "applying"},
           \A d \in Chats : Recedes(d), UNCHANGED <<stamp, chats, host>>
    PROVE  AllChats'
<1>1. /\ Running(c)' /\ run'[c].at = "loop" /\ Job(c)' = NoJob /\ Aborted(c)' = Aborted(c)
      /\ \A d \in Chats \ {c} : run'[d] = run[d]
  BY BackLeaves
<1>2. ChatInv(c) /\ (server # "up" => Aborted(c))
  BY DEF AllChats, ChatInv, StandsOK
<1>3. ChatInv(c)'
  BY <1>1, <1>2, LeavesKeeps
<1>. QED BY <1>1, <1>3, OthersKeep

LEMMA AbortKeeps ==
    ASSUME CaptureInv, AllChats, NEW c \in Chats, Running(c), Aborted(c), Back(c),
           UNCHANGED <<journal, chats, host>>
    PROVE  AllChats'
<1>1. status' = status /\ stamp' = stamp
  BY DEF journal
<1>. QED BY <1>1, BackKeeps, SameRecedes

LEMMA SettleKeeps ==
    ASSUME CaptureInv, AllChats, NEW c \in Chats, Running(c), run[c].at # "loop",
           NEW s \in Terminal, Settle(c, s), UNCHANGED <<chats, host>>
    PROVE  AllChats'
<1>1. Job(c) \in Turns
  BY OwnJob
<1>2. Write(Finished(Job(c), s), stamp) /\ Back(c) /\ stamp' = stamp
  BY DEF Settle
<1>3. (\A d \in Chats : Recedes(d)) /\ status'[Job(c)] \notin {"running", "applying"}
  BY <1>1, <1>2, FinishedRecedes
<1>. QED BY <1>2, <1>3, BackKeeps

\* A run crosses a boundary with the job t.
LEMMA BoundaryKeeps ==
    ASSUME CaptureInv, AllChats, NEW c \in Chats, server = "up", NEW t \in TurnsOf(c),
           Open(t), First(t), \A u \in TurnsOf(c) \ {t} : ~Held(u),
           NEW s \in {"running", "ready", "applying"}, status' = [status EXCEPT ![t] = s],
           NEW r \in Runs, run' = [run EXCEPT ![c] = r], r.job = t, ~r.aborted,
           r.at \in {"asking", "answered", "applying"},
           UNCHANGED <<stamp, chats, host>>
    PROVE  AllChats'
<1>1. status \in [Turns -> States] /\ run \in [Chats -> Runs \cup {NoRun}] /\ t \in Turns
  BY OwnTurns DEF CaptureInv, TypeOK, States
<1>2. status'[t] = s /\ \A u \in Turns \ {t} : status'[u] = status[u]
  BY <1>1
<1>3. run'[c] = r /\ \A d \in Chats \ {c} : run'[d] = run[d]
  BY <1>1
<1>4. Running(c)' /\ Job(c)' = t /\ ~Aborted(c)'
  BY <1>3, AbsenceAssumption DEF Running, Job, Aborted
<1>5. \A u \in TurnsOf(c) \ {t} : status'[u] = status[u] /\ ~Held(u)
  BY <1>2, OwnTurns
<1>6. ChatInv(c)'
  BY <1>2, <1>3, <1>4, <1>5, AdvanceKeeps DEF AllChats
<1>7. \A d \in Chats \ {c} : Recedes(d)
  BY <1>2, OwnTurns DEF Recedes
<1>. QED BY <1>3, <1>6, <1>7, OthersKeep

\* The job a run holds and was not aborted in is the only one in flight.
LEMMA OnlyHeld ==
    ASSUME AllChats, NEW c \in Chats, Running(c), ~Aborted(c)
    PROVE  server = "up" /\ \A u \in TurnsOf(c) : u # Job(c) => ~Held(u)
BY DEF AllChats, ChatInv, StandsOK, OwnedOK

LEMMA MoveKeeps ==
    ASSUME CaptureInv, AllChats, NEW c \in Chats, Running(c), run[c].at # "loop", ~Aborted(c),
           Open(Job(c)), First(Job(c)),
           NEW s \in {"running", "ready", "applying"}, status' = [status EXCEPT ![Job(c)] = s],
           NEW point \in {"asking", "answered", "applying"}, Move(c, point),
           UNCHANGED <<stamp, chats, host>>
    PROVE  AllChats'
<1>1. PICK r \in Runs : /\ run' = [run EXCEPT ![c] = r]
                        /\ r.at = point /\ r.job = Job(c) /\ r.aborted = Aborted(c)
  BY MoveRun DEF Points, Awaits
<1>2. Job(c) \in TurnsOf(c)
  BY OwnJob
<1>3. server = "up" /\ \A u \in TurnsOf(c) \ {Job(c)} : ~Held(u)
  BY OnlyHeld
<1>. QED BY <1>1, <1>2, <1>3, BoundaryKeeps

\* A run goes on with its job while the row is not touched or is finished.
LEMMA CarryKeeps ==
    ASSUME CaptureInv, AllChats, NEW c \in Chats, Running(c), run[c].at # "loop",
           NEW point \in {"claiming", "committed", "publishing"}, Move(c, point),
           point = "publishing" => status'[Job(c)] \notin {"running", "applying"},
           \A d \in Chats : Recedes(d), UNCHANGED <<stamp, chats, host>>
    PROVE  AllChats'
<1>1. PICK r \in Runs : /\ run' = [run EXCEPT ![c] = r]
                        /\ r.at = point /\ r.job = Job(c) /\ r.aborted = Aborted(c)
  BY MoveRun DEF Points, Awaits
<1>2. run'[c] = r /\ \A d \in Chats \ {c} : run'[d] = run[d]
  BY <1>1 DEF CaptureInv, TypeOK
<1>3. Running(c)' /\ Job(c)' = Job(c) /\ Aborted(c)' = Aborted(c)
  BY <1>1, <1>2, AbsenceAssumption DEF Running, Job, Aborted
<1>4. ChatInv(c)'
  BY <1>1, <1>2, <1>3, CarriesKeeps DEF AllChats
<1>. QED BY <1>2, <1>4, OthersKeep

---------------------------------------------------------------------------
(* The driver *)

LEMMA NextInIsOldest ==
    ASSUME NEW c \in Chats, stamp \in [Turns -> Nat], NEW st, NextIn(c, st) # NoJob,
           NEW u \in TurnsOf(c), st[u] \in {"pending", "ready"}
    PROVE  stamp[NextIn(c, st)] <= stamp[u]
<1> DEFINE due == {t \in TurnsOf(c) : st[t] \in {"pending", "ready"}}
<1>1. due # {} /\ u \in due
  OBVIOUS
<1> DEFINE S == {stamp[t] : t \in due}
<1>2. S \subseteq Nat /\ S # {}
  BY <1>1 DEF TurnsOf
<1>3. PICK n \in S : \A k \in S : n <= k
  <2> HIDE DEF S
  <2>. QED BY <1>2, LeastExists
<1>4. PICK t \in due : n = stamp[t]
  OBVIOUS
<1>5. \A v \in due : stamp[t] <= stamp[v]
  BY <1>3, <1>4
<1>6. NextIn(c, st) = CHOOSE x \in due : \A v \in due : stamp[x] <= stamp[v]
  BY <1>1 DEF NextIn
<1>7. \A v \in due : stamp[NextIn(c, st)] <= stamp[v]
  <2> HIDE DEF due
  <2>. QED BY <1>4, <1>5, <1>6
<1>. QED BY <1>1, <1>7

\* What a live run finds at the head of its loop is the oldest open job of the chat.
LEMMA LoopFindsFirst ==
    ASSUME CaptureInv, JournalInv, AllChats, NEW c \in Chats, Running(c), run[c].at = "loop",
           ~Aborted(c), NextIn(c, status) # NoJob
    PROVE  /\ server = "up" /\ First(NextIn(c, status)) /\ Open(NextIn(c, status))
           /\ NextIn(c, status) \in TurnsOf(c)
           /\ \A u \in TurnsOf(c) : ~Held(u)
<1> DEFINE t == NextIn(c, status)
<1>1. stamp \in [Turns -> Nat]
  BY DEF CaptureInv, TypeOK
<1>2. t \in TurnsOf(c) /\ status[t] \in {"pending", "ready"}
  BY <1>1, NextInIsDue
<1>3. \A u \in TurnsOf(c) : status[u] \in {"pending", "ready"} => stamp[t] <= stamp[u]
  BY <1>1, NextInIsOldest
<1> HIDE DEF t
<1>4. server = "up" /\ \A u \in TurnsOf(c) : ~Held(u)
  <2>1. Job(c) = NoJob
    BY DEF AllChats, ChatInv, StandsOK
  <2>2. \A u \in TurnsOf(c) : u # Job(c)
    BY <2>1, AbsenceAssumption DEF TurnsOf
  <2>. QED BY <2>2, OnlyHeld
<1>5. Open(t) /\ ChatOf(t) = c
  BY <1>2, OwnTurns DEF Open, OpenStatus
<1>6. ASSUME NEW u \in TurnsOf(c) \ {t}, Open(u)
      PROVE  status[u] = "pending" /\ stamp[t] < stamp[u]
  <2>1. t \in Turns /\ u \in Turns /\ status[u] \in {"pending", "ready"}
    BY <1>2, <1>4, <1>6, OwnTurns DEF Held, Open, OpenStatus
  <2>2. stamp[t] <= stamp[u] /\ stamp[t] \in Nat /\ stamp[u] \in Nat
    BY <1>1, <1>3, <1>6, <2>1
  <2>3. stamp[t] > 0
    BY <1>2, <2>1 DEF JournalInv, Numbered
  <2>4. stamp[t] # stamp[u]
    BY <1>6, <2>1, <2>2, <2>3 DEF JournalInv, Distinct
  <2>5. stamp[t] < stamp[u]
    BY <2>2, <2>4
  <2>6. status[u] # "ready"
    <3>1. ASSUME status[u] = "ready" PROVE FALSE
      <4>1. First(u) /\ ChatOf(u) = c
        BY <1>6, <3>1, OwnTurns DEF AllChats, ChatInv, OldestOK
      <4>2. stamp[u] < stamp[t]
        BY <1>2, <1>5, <1>6, <4>1 DEF First
      <4>. QED BY <2>2, <2>5, <4>2
    <3>. QED BY <3>1
  <2>. QED BY <2>1, <2>5, <2>6
<1>7. First(t)
  BY <1>5, <1>6 DEF First
<1>. QED BY <1>2, <1>4, <1>5, <1>7 DEF t

LEMMA LoopKeeps ==
    ASSUME CaptureInv, JournalInv, AllChats, NEW c \in Chats, Loop(c)
    PROVE  AllChats'
<1> DEFINE t == NextIn(c, status)
<1>1. /\ Running(c) /\ run[c] \in Runs /\ run[c].at = "loop"
      /\ run \in [Chats -> Runs \cup {NoRun}]
  BY DEF Loop, At, Running, CaptureInv, TypeOK
<1>2. UNCHANGED <<chats, host>> /\ ChatInv(c) /\ stamp' = stamp /\ server' = server
  BY DEF Loop, AllChats, journal, host
<1>3. CASE UNCHANGED journal /\ (Aborted(c) \/ t = NoJob)
  <2> DEFINE r == IF ~Blocked(c) /\ t # NoJob THEN Fresh ELSE NoRun
  <2>1. run' = [run EXCEPT ![c] = r]
    BY <1>3 DEF Loop
  <2>2. r # NoRun => r = Fresh /\ server = "up"
    BY DEF Blocked
  <2> HIDE DEF r
  <2>3. run'[c] = r /\ \A d \in Chats \ {c} : run'[d] = run[d]
    BY <1>1, <2>1
  <2>4. \A d \in Chats : Recedes(d)
    BY <1>3, SameRecedes DEF journal
  <2>5. Running(c)' => run'[c].at = "loop" /\ Job(c)' = NoJob /\ server = "up"
    BY <2>2, <2>3 DEF Running, Job, Fresh
  <2>6. ChatInv(c)'
    BY <1>1, <1>2, <2>4, <2>5, LeavesKeeps
  <2>. QED BY <1>2, <2>3, <2>4, <2>6, OthersKeep
<1>4. CASE ~Aborted(c) /\ t # NoJob /\ Write(Finished(t, "skipped"), stamp) /\ run' = run
  <2>1. t \in Turns
    BY <1>1, <1>4, LoopFindsFirst, OwnTurns
  <2> HIDE DEF t
  <2>2. \A d \in Chats : Recedes(d)
    BY <1>4, <2>1, FinishedRecedes DEF Terminal
  <2>3. closed' = closed /\ changing' = changing
    BY <1>2 DEF chats
  <2>. QED BY <1>2, <1>4, <2>2, <2>3, StillKeeps DEF AllChats
<1>5. CASE /\ ~Aborted(c) /\ t # NoJob /\ UNCHANGED journal
           /\ run' = [run EXCEPT ![c].at = "resolving", ![c].job = t]
  <2> DEFINE r == [run[c] EXCEPT !.at = "resolving", !.job = t]
  <2>1. server = "up" /\ First(t) /\ t \in TurnsOf(c) /\ \A u \in TurnsOf(c) : ~Held(u)
    BY <1>1, <1>5, LoopFindsFirst
  <2> HIDE DEF t
  <2>2. r.at = "resolving" /\ r.job = t /\ r.aborted = Aborted(c) /\ r \in Runs
    BY <1>1, <2>1, OwnTurns DEF Runs, Aborted, Points, Awaits
  <2>3. run'[c] = r /\ \A d \in Chats \ {c} : run'[d] = run[d]
    BY <1>1, <1>5
  <2> HIDE DEF r
  <2>4. status' = status /\ closed' = closed /\ changing' = changing
    BY <1>2, <1>5 DEF journal, chats
  <2>5. StandsOK(c)' /\ OwnedOK(c)' /\ IdleOK(c)'
    BY <1>2, <2>1, <2>2, <2>3, <2>4, OwnTurns
       DEF StandsOK, OwnedOK, IdleOK, Held, ChatInv, Open
  <2>6. OldestOK(c)'
    <3>1. \A u \in TurnsOf(c) : First(u) => First(u)'
      BY <1>2, <2>4, OwnTurns DEF First, Open
    <3>2. ASSUME NEW u \in TurnsOf(c), Held(u)' \/ status'[u] = "ready" \/ Chosen(c, u)'
          PROVE  First(u)
      <4>1. CASE Chosen(c, u)'
        <5>1. u = t
          BY <4>1, <2>2, <2>3 DEF Chosen, Job
        <5>. QED BY <5>1, <2>1
      <4>2. CASE Held(u)' \/ status'[u] = "ready"
        BY <4>2, <1>2, <2>4 DEF ChatInv, OldestOK, Held
      <4>. QED BY <3>2, <4>1, <4>2
    <3>. QED BY <3>1, <3>2, OwnTurns DEF OldestOK
  <2>7. ChatInv(c)'
    BY <2>5, <2>6 DEF ChatInv
  <2>. QED BY <1>2, <2>3, <2>4, <2>7, OthersKeep, SameRecedes
<1>6. ASSUME ~Aborted(c), t # NoJob, NEW s \in {"running", "applying"},
             status' = [status EXCEPT ![t] = s], NEW point \in {"asking", "applying"},
             run' = [run EXCEPT ![c].at = point, ![c].job = t]
      PROVE  AllChats'
  <2> DEFINE r == [run[c] EXCEPT !.at = point, !.job = t]
  <2>1. server = "up" /\ First(t) /\ Open(t) /\ t \in TurnsOf(c) /\ \A u \in TurnsOf(c) : ~Held(u)
    BY <1>1, <1>6, LoopFindsFirst
  <2> HIDE DEF t
  <2>2. r \in Runs /\ r.at = point /\ r.job = t /\ ~r.aborted
    BY <1>1, <1>6, <2>1, OwnTurns DEF Runs, Aborted, Points, Awaits
  <2>3. run' = [run EXCEPT ![c] = r]
    BY <1>1, <1>6
  <2> HIDE DEF r
  <2>. QED BY <1>2, <1>6, <2>1, <2>2, <2>3, BoundaryKeeps
<1> HIDE DEF t
<1>7. \/ UNCHANGED <<journal, launches>> /\ (Aborted(c) \/ t = NoJob)
      \/ ~Aborted(c) /\ t # NoJob /\ Write(Finished(t, "skipped"), stamp) /\ run' = run
      \/ /\ ~Aborted(c) /\ t # NoJob /\ UNCHANGED <<journal, launches>>
         /\ run' = [run EXCEPT ![c].at = "resolving", ![c].job = t]
      \/ /\ ~Aborted(c) /\ t # NoJob /\ status' = [status EXCEPT ![t] = "running"]
         /\ run' = [run EXCEPT ![c].at = "asking", ![c].job = t]
      \/ /\ ~Aborted(c) /\ t # NoJob /\ status' = [status EXCEPT ![t] = "applying"]
         /\ run' = [run EXCEPT ![c].at = "applying", ![c].job = t]
  BY Zenon DEF Loop, t
<1>. QED BY <1>3, <1>4, <1>5, <1>6, <1>7

\* The row of the job a run holds, and that the job is the chat's oldest.
LEMMA HeldIsFirst ==
    ASSUME CaptureInv, AllChats, NEW c \in Chats, Running(c), run[c].at # "loop",
           ~Aborted(c), run[c].at \in {"resolving", "asking", "answered"}
    PROVE  First(Job(c)) /\ Open(Job(c)) /\ Job(c) \in Turns
<1>1. Job(c) \in TurnsOf(c) /\ Job(c) \in Turns
  BY OwnJob
<1>2. /\ run[c].at = "resolving" => status[Job(c)] = "pending" /\ Chosen(c, Job(c))
      /\ run[c].at = "asking" => status[Job(c)] = "running"
      /\ run[c].at = "answered" => status[Job(c)] = "ready"
  BY DEF CaptureInv, RunOK, Chosen
<1>. QED BY <1>1, <1>2 DEF AllChats, ChatInv, OldestOK, Held, Open, OpenStatus

LEMMA DriverKeeps ==
    ASSUME CaptureInv, JournalInv, AllChats, NEW c \in Chats, Driver(c)
    PROVE  AllChats'
<1>1. CASE Loop(c)
  BY <1>1, LoopKeeps
<1>2. CASE \E outcome \in {"same", "changed", "failed"} : Resolve(c, outcome)
  <2>1. Running(c) /\ run[c].at = "resolving" /\ UNCHANGED <<chats, host>>
    BY <1>2 DEF Resolve, At
  <2>2. \/ Aborted(c) /\ Back(c) /\ UNCHANGED journal
        \/ Settle(c, "failed") \/ Settle(c, "skipped")
        \/ /\ ~Aborted(c) /\ status' = [status EXCEPT ![Job(c)] = "running"]
           /\ Move(c, "asking") /\ stamp' = stamp
    BY <1>2 DEF Resolve
  <2>. QED BY <2>1, <2>2, AbortKeeps, SettleKeeps, MoveKeeps, HeldIsFirst DEF Terminal
<1>3. CASE \E ok \in BOOLEAN : Answer(c, ok)
  <2>1. Running(c) /\ run[c].at = "asking" /\ UNCHANGED <<chats, host>>
    BY <1>3 DEF Answer, At
  <2>2. \/ Aborted(c) /\ Back(c) /\ UNCHANGED journal
        \/ Settle(c, "failed")
        \/ /\ ~Aborted(c) /\ status' = [status EXCEPT ![Job(c)] = "ready"]
           /\ Move(c, "answered") /\ stamp' = stamp
    BY <1>3 DEF Answer
  <2>. QED BY <2>1, <2>2, AbortKeeps, SettleKeeps, MoveKeeps, HeldIsFirst DEF Terminal
<1>4. CASE Take(c)
  <2>1. Running(c) /\ run[c].at = "answered" /\ UNCHANGED <<chats, host>>
    BY <1>4 DEF Take, At
  <2>2. ~Aborted(c)
    BY <2>1 DEF AllChats, ChatInv, StandsOK
  <2>3. \/ Settle(c, "skipped")
        \/ /\ status' = [status EXCEPT ![Job(c)] = "applying"]
           /\ Move(c, "applying") /\ stamp' = stamp
    BY <1>4 DEF Take
  <2>. QED BY <2>1, <2>2, <2>3, SettleKeeps, MoveKeeps, HeldIsFirst DEF Terminal
<1>5. CASE \E outcome \in {"commit", "await", "throw"} : Apply(c, outcome)
  <2>1. Running(c) /\ run[c].at = "applying" /\ UNCHANGED <<chats, host>>
    BY <1>5 DEF Apply, At
  <2>2. \/ Move(c, "committed") /\ UNCHANGED journal
        \/ Move(c, "claiming") /\ UNCHANGED journal
        \/ Settle(c, "failed")
    BY <1>5 DEF Apply
  <2>. QED BY <2>1, <2>2, CarryKeeps, SettleKeeps, SameRecedes DEF journal, Terminal
<1>6. CASE \E ok \in BOOLEAN : Claim(c, ok)
  <2>1. Running(c) /\ run[c].at = "claiming" /\ UNCHANGED <<chats, host>>
    BY <1>6 DEF Claim, At
  <2>2. \/ Aborted(c) /\ Back(c) /\ UNCHANGED journal
        \/ Settle(c, "failed")
        \/ Move(c, "committed") /\ UNCHANGED journal
    BY <1>6 DEF Claim
  <2>. QED BY <2>1, <2>2, AbortKeeps, CarryKeeps, SettleKeeps, SameRecedes DEF journal, Terminal
<1>7. CASE Receipt(c)
  <2>1. Running(c) /\ run[c].at = "committed" /\ UNCHANGED <<chats, host>>
    BY <1>7 DEF Receipt, At
  <2>2. Job(c) \in Turns
    BY <2>1, OwnJob
  <2>3. \/ Aborted(c) /\ Back(c) /\ UNCHANGED journal
        \/ Write(Finished(Job(c), "completed"), stamp) /\ stamp' = stamp /\ Move(c, "publishing")
    BY <1>7 DEF Receipt
  <2>. QED BY <2>1, <2>2, <2>3, AbortKeeps, CarryKeeps, FinishedRecedes DEF Terminal
<1>8. CASE \E ok \in BOOLEAN : Publish(c, ok)
  <2>1. Running(c) /\ run[c].at = "publishing" /\ UNCHANGED <<chats, host>>
    BY <1>8 DEF Publish, At
  <2>2. status[Job(c)] \notin {"running", "applying"}
    BY <2>1 DEF AllChats, ChatInv, StandsOK, Held
  <2>3. (Back(c) /\ UNCHANGED journal) \/ Settle(c, "failed")
    BY <1>8 DEF Publish
  <2>. QED BY <2>1, <2>2, <2>3, BackKeeps, SettleKeeps, SameRecedes DEF journal, Terminal
<1>. QED BY <1>1, <1>2, <1>3, <1>4, <1>5, <1>6, <1>7, <1>8 DEF Driver

---------------------------------------------------------------------------
(* Requests and stops *)

LEMMA CancelKeeps ==
    ASSUME CaptureInv, AllChats, NEW c \in Chats, Quiet, Cancel(c), server' = server,
           closed' \subseteq closed \cup {c}, changing' \subseteq changing \cup {c}
    PROVE  AllChats'
<1> DEFINE st == Cancelled(c)
           r == IF Running(c) THEN [run[c] EXCEPT !.aborted = TRUE] ELSE NoRun
<1>1. run \in [Chats -> Runs \cup {NoRun}] /\ stamp' = stamp /\ Write(st, stamp)
  BY DEF CaptureInv, TypeOK, Cancel
<1>2. run' = [run EXCEPT ![c] = r]
  BY <1>1 DEF Cancel
<1>3. Legal(st) /\ (\A u \in Turns : ChatOf(u) # c => st[u] = status[u])
  BY CancelledLegal
<1>4. \A u \in TurnsOf(c) : st[u] \in Terminal \cup {"none"}
  BY OwnTurns DEF Cancelled, Open, CaptureInv, TypeOK, OpenStatus, Terminal
<1> HIDE DEF st
<1>5. Kept(st)
  BY <1>1, <1>3, WriteKeeps DEF Legal, CaptureInv, TypeOK
<1>6. \A d \in Chats \ {c} : Recedes(d)
  BY <1>3, <1>5, KeptRecedes, OwnTurns
<1>7. \A u \in TurnsOf(c) : ~Open(u)'
  BY <1>4, <1>5, OwnTurns DEF Kept, Open, OpenStatus, Terminal
<1>8. run'[c] = r /\ \A d \in Chats \ {c} : run'[d] = run[d]
  BY <1>1, <1>2
<1>9. ChatInv(c)'
  <2>1. CASE ~Running(c)
    <3>1. ~(Running(c)')
      BY <1>8, <2>1 DEF Running
    <3>. QED BY <1>7, <3>1, CancelledKeeps
  <2>2. CASE Running(c)
    <3>1. run[c] \in Runs /\ run[c].at \in Awaits /\ run[c].at # "loop"
      BY <1>1, <2>2 DEF Running, Quiet, Awaits
    <3>2. Job(c) \in TurnsOf(c)
      BY <2>2, <3>1, OwnJob
    <3>3. r.at = run[c].at /\ r.job = Job(c) /\ r.aborted = TRUE
      BY <2>2, <3>1 DEF Runs, Job
    <3> HIDE DEF r
    <3>4. Aborted(c)' /\ run'[c].at \in Awaits /\ Job(c)' \in TurnsOf(c)
      BY <1>8, <3>1, <3>2, <3>3 DEF Aborted, Job
    <3>. QED BY <1>7, <3>4, CancelledKeeps
  <2>. QED BY <2>1, <2>2
<1>10. \A d \in Chats \ {c} : ChatInv(d)'
  <2>1. ASSUME NEW d \in Chats \ {c} PROVE ChatInv(d)'
    <3>1. d \in closed' \cup changing' => d \in closed \cup changing
      OBVIOUS
    <3>. QED BY <1>1, <1>6, <1>8, <3>1, StillKeeps DEF AllChats
  <2>. QED BY <2>1
<1>. QED BY <1>9, <1>10 DEF AllChats

\* A run that Drain may have started holds no job.
LEMMA LaunchKeeps ==
    ASSUME CaptureInv, JournalInv, AllChats, NEW t \in Turns, NEW oversize \in BOOLEAN,
           Launch(t, oversize)
    PROVE  AllChats'
<1> DEFINE c == ChatOf(t)
<1>1. /\ server = "up" /\ server' = server /\ c \in Chats /\ c \notin closed \cup changing
      /\ closed' = closed /\ changing' = changing /\ Drain(c)
  BY TurnParts DEF Launch, Blocked, chats, host
<1>2. run \in [Chats -> Runs \cup {NoRun}]
  BY DEF CaptureInv, TypeOK
<1>3. /\ run'[c] = run[c] \/ (~Running(c) /\ run'[c] = Fresh)
      /\ \A d \in Chats \ {c} : run'[d] = run[d]
  BY <1>1, <1>2 DEF Drain
<1>4. ASSUME NEW u \in TurnsOf(c), Chosen(c, u)' PROVE Chosen(c, u)
  BY <1>3, <1>4 DEF Chosen, Running, Job, Aborted, Fresh
<1>5. ASSUME NEW d \in Chats \ {c}, Recedes(d), \A u \in TurnsOf(d) : stamp'[u] = stamp[u]
      PROVE  ChatInv(d)'
  BY <1>1, <1>3, <1>5, StillKeeps DEF AllChats
<1>6. ASSUME \A u \in TurnsOf(c) : Held(u)' => Held(u) PROVE StandsOK(c)' /\ OwnedOK(c)'
  <2>1. CASE run'[c] = run[c]
    <3>1. /\ Running(c)' <=> Running(c)
          /\ Job(c)' = Job(c) /\ Aborted(c)' = Aborted(c)
      BY <2>1 DEF Running, Job, Aborted
    <3>2. Running(c) /\ run[c].at = "publishing" => Job(c) \in TurnsOf(c)
      BY <1>1, OwnJob
    <3>3. Running(c) /\ run[c].at = "publishing" => ~Held(Job(c))'
      BY <1>1, <1>6, <3>1, <3>2 DEF AllChats, ChatInv, StandsOK, Held
    <3>. QED BY <1>1, <1>6, <2>1, <3>1, <3>3, OwnTurns DEF AllChats, ChatInv, StandsOK, OwnedOK
  <2>2. CASE ~Running(c) /\ run'[c] = Fresh
    <3>1. StandsOK(c)'
      BY <1>1, <2>2 DEF StandsOK, Fresh, Job
    <3>2. \A u \in TurnsOf(c) : ~Held(u)'
      BY <1>1, <1>6, <2>2 DEF AllChats, ChatInv, OwnedOK
    <3>. QED BY <3>1, <3>2, OwnTurns DEF OwnedOK
  <2>. QED BY <1>3, <2>1, <2>2
<1>7. CASE UNCHANGED journal
  <2>1. status' = status /\ stamp' = stamp /\ \A d \in Chats : Recedes(d)
    BY <1>7, SameRecedes DEF journal
  <2>2. StandsOK(c)' /\ OwnedOK(c)'
    BY <1>6, <2>1 DEF Held
  <2>3. ChatInv(c)'
    <3> HIDE DEF c
    <3>. QED BY <1>1, <1>4, <2>1, <2>2, RecedeKeeps DEF AllChats
  <2>4. \A d \in Chats \ {c} : ChatInv(d)'
    BY <1>5, <2>1
  <2>. QED BY <2>3, <2>4 DEF AllChats
<1>8. CASE status[t] = "none" /\ ~(t[2] <= watermark[c])
  <2> DEFINE skip == oversize \/ Full(c)
             s == IF skip THEN "skipped" ELSE "pending"
             at == [stamp EXCEPT ![t] = 1 + Cardinality({u \in Turns : stamp[u] > 0})]
             st == [status EXCEPT ![t] = s]
  <2>1. Write(st, at) /\ stamp' = at /\ launched' = launched \cup {t}
    BY <1>8 DEF Launch
  <2>2. s \in {"skipped", "pending"} /\ (s = "pending" => ~Full(c))
    OBVIOUS
  <2> HIDE DEF s, skip
  <2>3. Recorded(t)
    BY <1>1, <1>8, <2>1, <2>2 DEF Recorded
  <2>4. \A u \in Turns \ {t} : stamp'[u] = stamp[u] /\ stamp'[u] < stamp'[t]
    BY <2>3, RecordedKeepsJournal
  <2>5. status \in [Turns -> States] /\ watermark \in [Chats -> Nat]
    BY DEF CaptureInv, TypeOK, States
  <2>6. st \in [Turns -> States] /\ st[t] = s /\ \A u \in Turns \ {t} : st[u] = status[u]
    BY <2>2, <2>5 DEF States, OpenStatus, Terminal
  <2> HIDE DEF st, at
  <2>7. Kept(st)
    BY <2>1, <2>5, <2>6, WriteKeeps
  <2>8. \A u \in Turns \ {t} : status'[u] = status[u] \/ status'[u] = "none"
    BY <2>6, <2>7 DEF Kept
  <2>9. status'[t] \in {"skipped", "pending", "none"}
    BY <2>2, <2>6, <2>7 DEF Kept
  <2>10. \A d \in Chats \ {c} : ChatInv(d)'
    <3>1. ASSUME NEW d \in Chats \ {c} PROVE Recedes(d) /\ \A u \in TurnsOf(d) : stamp'[u] = stamp[u]
      <4>1. \A u \in TurnsOf(d) : u \in Turns \ {t}
        BY <3>1, OwnTurns
      <4>. QED BY <2>4, <2>8, <4>1 DEF Recedes
    <3>. QED BY <1>5, <3>1
  <2>11. t \in TurnsOf(c)
    BY DEF TurnsOf
  <2>12. \A u \in TurnsOf(c) : u # t => u \in Turns \ {t}
    BY OwnTurns
  <2>13. StandsOK(c)' /\ OwnedOK(c)'
    <3>1. \A u \in TurnsOf(c) : Held(u)' => Held(u)
      BY <2>8, <2>9, <2>12 DEF Held
    <3>. QED BY <1>6, <3>1
  <2>14. IdleOK(c)'
    BY <1>1 DEF IdleOK
  <2> HIDE DEF c
  <2>15. ASSUME NEW u \in TurnsOf(c), Held(u)' \/ status'[u] = "ready" \/ Chosen(c, u)'
         PROVE  First(u)'
    <3>1. u # t
      <4>1. ~Chosen(c, t)
        BY <1>1, <1>8 DEF CaptureInv, RunOK, Chosen
      <4>. QED BY <1>4, <2>9, <2>11, <2>15, <4>1 DEF Held
    <3>2. First(u) /\ ChatOf(u) = c /\ u \in Turns \ {t}
      <4>1. Held(u) \/ status[u] = "ready" \/ Chosen(c, u)
        BY <1>4, <2>8, <2>12, <2>15, <3>1 DEF Held
      <4>. QED BY <1>1, <2>15, <3>1, <4>1, OwnTurns DEF AllChats, ChatInv, OldestOK
    <3>3. ASSUME NEW v \in TurnsOf(c) \ {u}, Open(v)'
          PROVE  status'[v] = "pending" /\ stamp'[u] < stamp'[v]
      <4>1. CASE v = t
        <5>1. status'[t] = "pending"
          BY <2>9, <3>3, <4>1 DEF Open, OpenStatus
        <5>. QED BY <2>4, <3>2, <4>1, <5>1
      <4>2. CASE v # t
        <5>1. v \in Turns \ {t} /\ status'[v] = status[v]
          BY <2>8, <2>12, <3>3, <4>2 DEF Open, OpenStatus
        <5>2. status[v] = "pending" /\ stamp[u] < stamp[v]
          BY <3>2, <3>3, <5>1 DEF First, Open
        <5>. QED BY <2>4, <3>2, <5>1, <5>2
      <4>. QED BY <4>1, <4>2
    <3>. QED BY <3>2, <3>3, OwnTurns DEF First
  <2>16. OldestOK(c)'
    BY <2>15, OwnTurns DEF OldestOK
  <2>17. ChatInv(c)'
    BY <2>13, <2>14, <2>16 DEF ChatInv
  <2>. QED BY <2>10, <2>17 DEF AllChats
<1>9. UNCHANGED journal \/ (status[t] = "none" /\ ~(t[2] <= watermark[c]))
  BY DEF Launch
<1>. QED BY <1>7, <1>8, <1>9

LEMMA NothingKeeps ==
    ASSUME CaptureInv, AllChats, UNCHANGED <<journal, run>>, closed' \subseteq closed,
           changing' \subseteq changing,
           server' = server \/ (server' # "up" /\ \A c \in Chats : ~Running(c))
    PROVE  AllChats'
<1>1. stamp' = stamp /\ \A c \in Chats : Recedes(c)
  BY SameRecedes DEF journal
<1>2. ASSUME NEW c \in Chats PROVE ChatInv(c)'
  BY <1>1, StillKeeps DEF AllChats
<1>. QED BY <1>2 DEF AllChats

LEMMA RequestKeeps ==
    ASSUME CaptureInv, JournalInv, AllChats, NEW c \in Chats, Request(c)
    PROVE  AllChats'
<1>1. CASE \E t \in TurnsOf(c), oversize \in BOOLEAN : Launch(t, oversize)
  BY <1>1, LaunchKeeps, OwnTurns
<1>2. CASE /\ Quiet /\ Cancel(c) /\ server' = server
           /\ closed' \subseteq closed \cup {c} /\ changing' \subseteq changing \cup {c}
  BY <1>2, CancelKeeps
<1>3. CASE UNCHANGED <<journal, run, server, closed>> /\ changing' \subseteq changing
  BY <1>3, NothingKeeps
<1>. QED BY <1>1, <1>2, <1>3
     DEF Request, SettingsOff, PolicyMoves, BeginPolicyChange, EndPolicyChange, CloseChat, host

\* The server stops: no run is left.
LEMMA DieKeeps ==
    ASSUME CaptureInv, AllChats, NEW st, Kept(st),
           \A t \in Turns : \/ st[t] = status[t] \/ st[t] \in Terminal \cup {"none"}
                            \/ status[t] = "running" /\ st[t] = "pending",
           \A c \in Chats : run'[c] = NoRun, server' # "up", UNCHANGED <<stamp, chats>>
    PROVE  AllChats'
<1>1. ASSUME NEW c \in Chats PROVE ChatInv(c)'
  <2>1. Recedes(c)
    BY KeptRecedes, OwnTurns
  <2>2. ~(Running(c)')
    BY DEF Running
  <2>3. StandsOK(c)' /\ OwnedOK(c)' /\ \A t \in TurnsOf(c) : ~Chosen(c, t)'
    BY <2>2 DEF StandsOK, OwnedOK, Chosen
  <2>. QED BY <2>1, <2>3, RecedeKeeps DEF AllChats, chats
<1>. QED BY <1>1 DEF AllChats

LEMMA RecoveryRecedes ==
    ASSUME CaptureInv
    PROVE  \A st \in {Recovered, Resumed} : \A t \in Turns :
             \/ st[t] = status[t] \/ st[t] \in Terminal \cup {"none"}
             \/ status[t] = "running" /\ st[t] = "pending"
BY DEF Recovered, Resumed, Terminal

LEMMA CrashKeeps ==
    ASSUME CaptureInv, AllChats, NEW c \in Chats, CrashInWrite(c)
    PROVE  AllChats'
<1>1. /\ server' # "up" /\ UNCHANGED <<stamp, chats>>
      /\ \A d \in Chats : run'[d] = NoRun
  BY DEF CrashInWrite, Die
<1>2. ASSUME NEW st, Legal(st), Torn(st, stamp),
             \A u \in Turns : st[u] = status[u] \/ st[u] \in Terminal \cup {"none"}
      PROVE  AllChats'
  <2>1. Kept(st)
    BY <1>2, TornKeeps DEF Legal, CaptureInv, TypeOK
  <2>. QED BY <1>1, <1>2, <2>1, DieKeeps
<1>3. ASSUME NEW t \in Turns, NEW s \in Terminal, Torn(Finished(t, s), stamp)
      PROVE  AllChats'
  <2>1. Legal(Finished(t, s))
    BY FinishedLegal
  <2>2. \A u \in Turns : Finished(t, s)[u] = status[u] \/ Finished(t, s)[u] \in Terminal \cup {"none"}
    BY DEF Finished, CaptureInv, TypeOK
  <2>. QED BY <1>2, <1>3, <2>1, <2>2
<1>4. CASE Torn(Cancelled(c), stamp)
  <2>1. \A u \in Turns : Cancelled(c)[u] = status[u] \/ Cancelled(c)[u] \in Terminal \cup {"none"}
    BY DEF Cancelled, Terminal
  <2>. QED BY <1>2, <1>4, <2>1, CancelledLegal
<1>5. CASE /\ Running(c) /\ ~Aborted(c)
           /\ \E s \in OutcomesAt(run[c].at) : Torn(Finished(Job(c), s), stamp)
  <2>1. PICK s \in OutcomesAt(run[c].at) : Torn(Finished(Job(c), s), stamp)
    BY <1>5
  <2>2. s \in Terminal /\ run[c].at # "loop"
    BY DEF OutcomesAt, Terminal
  <2>. QED BY <1>3, <1>5, <2>1, <2>2, OwnJob
<1>6. CASE LET t == NextIn(c, status)
           IN  t # NoJob /\ Torn(Finished(t, "skipped"), stamp)
  <2>1. NextIn(c, status) \in Turns
    BY <1>6, NextInIsDue DEF TurnsOf, CaptureInv, TypeOK
  <2>. QED BY <1>3, <1>6, <2>1 DEF Terminal
<1>. QED BY <1>4, <1>5, <1>6 DEF CrashInWrite

LEMMA RestartKeeps ==
    ASSUME CaptureInv, AllChats, Restart
    PROVE  AllChats'
<1>1. /\ server' = "up" /\ stamp' = stamp /\ closed' \subseteq closed /\ changing' = {}
      /\ Write(Recovered, stamp) /\ \A c \in Chats : run'[c] \in {NoRun, Fresh}
  BY DEF Restart
<1>2. Kept(Recovered)
  BY <1>1, RecoveredLegal, WriteKeeps DEF Legal, CaptureInv, TypeOK
<1>3. \A t \in Turns : status'[t] \notin {"running", "applying"}
  <2>1. \A t \in Turns : Recovered[t] \notin {"running", "applying"}
    BY DEF Recovered, Resumed
  <2>. QED BY <1>2, <2>1 DEF Kept
<1>4. ASSUME NEW c \in Chats PROVE ChatInv(c)'
  <2>1. Recedes(c)
    BY <1>2, RecoveryRecedes, KeptRecedes, OwnTurns
  <2>2. StandsOK(c)' /\ (\A t \in TurnsOf(c) : ~Chosen(c, t)')
    BY <1>1 DEF StandsOK, Chosen, Running, Fresh, Job
  <2>3. OwnedOK(c)'
    BY <1>3, OwnTurns DEF OwnedOK, Held
  <2>. QED BY <1>1, <2>1, <2>2, <2>3, RecedeKeeps DEF AllChats
<1>. QED BY <1>4 DEF AllChats

LEMMA ShutdownKeeps ==
    ASSUME CaptureInv, AllChats, Shutdown
    PROVE  AllChats'
<1>1. /\ Quiet /\ server' = "stopping" /\ UNCHANGED <<journal, chats>>
      /\ run' = [c \in Chats |-> IF Running(c) THEN [run[c] EXCEPT !.aborted = TRUE] ELSE NoRun]
      /\ run \in [Chats -> Runs \cup {NoRun}]
  BY DEF Shutdown, CaptureInv, TypeOK
<1>2. ASSUME NEW c \in Chats PROVE ChatInv(c)'
  <2>1. Recedes(c) /\ stamp' = stamp
    BY <1>1, SameRecedes DEF journal
  <2>2. Running(c)' => /\ Running(c) /\ Aborted(c)' /\ run'[c].at = run[c].at
                       /\ run[c].at \in Awaits /\ Job(c)' = Job(c)
    BY <1>1 DEF Running, Quiet, Runs, Aborted, Job
  <2>3. StandsOK(c)'
    <3>1. ASSUME Running(c)', run'[c].at = "publishing" PROVE ~Held(Job(c))'
      BY <1>1, <2>2, <3>1 DEF AllChats, ChatInv, StandsOK, Held, journal
    <3>. QED BY <2>2, <3>1 DEF StandsOK, Awaits
  <2>4. OwnedOK(c)' /\ \A t \in TurnsOf(c) : ~Chosen(c, t)'
    BY <1>1, <2>2 DEF OwnedOK, Chosen
  <2>. QED BY <1>1, <2>1, <2>3, <2>4, RecedeKeeps DEF AllChats, chats
<1>. QED BY <1>2 DEF AllChats

LEMMA ChatsStep ==
    ASSUME CaptureInv, JournalInv, AllChats, [Next]_vars
    PROVE  AllChats'
<1>1. CASE \E c \in Chats : Driver(c) \/ Request(c) \/ CrashInWrite(c)
  BY <1>1, DriverKeeps, RequestKeeps, CrashKeeps
<1>2. CASE Shutdown \/ Restart
  BY <1>2, ShutdownKeeps, RestartKeeps
<1>3. CASE Exit \/ UNCHANGED vars
  BY <1>3, NothingKeeps DEF Exit, vars, chats, host
<1>4. CASE Crash
  <2>1. /\ server' # "up" /\ UNCHANGED <<stamp, chats>> /\ Kept(status)
        /\ \A c \in Chats : run'[c] = NoRun
    BY <1>4, SameKept DEF Crash, Die, journal
  <2>. QED BY <2>1, DieKeeps
<1>5. CASE CrashInRecovery
  <2>1. /\ server' # "up" /\ UNCHANGED <<stamp, chats>>
        /\ \A c \in Chats : run'[c] = NoRun
    BY <1>5 DEF CrashInRecovery
  <2>2. Kept(Resumed) \/ Kept(Recovered)
    BY <1>5, RecoveredLegal, TornKeeps, PlainKeeps DEF CrashInRecovery, Legal, CaptureInv, TypeOK
  <2>. QED BY <2>1, <2>2, RecoveryRecedes, DieKeeps
<1>. QED BY <1>1, <1>2, <1>3, <1>4, <1>5 DEF Next

LEMMA ChatsInit ==
    ASSUME Init
    PROVE  AllChats
BY DEF Init, AllChats, ChatInv, StandsOK, OwnedOK, IdleOK, OldestOK, Held, Chosen, Running, Open,
       OpenStatus, TurnsOf

---------------------------------------------------------------------------
(* The theorems *)

OrderInv == CaptureInv /\ JournalInv /\ AllChats

\* Stamps number the rows, watermarks stay below what was launched, a job in flight
\* has a run that was not aborted, and is its chat's oldest: kept by every request, run,
\* crash and restart (capture-queue.ts, drainAutomaticCaptures).
THEOREM OrderInvariant == Spec => []OrderInv
<1>1. Init => OrderInv
  BY InitCaptureInv, JournalInit, ChatsInit DEF OrderInv
<1>2. OrderInv /\ [Next]_vars => OrderInv'
  BY NextStep, StutterStep, JournalStep, ChatsStep DEF OrderInv
<1>. QED BY <1>1, <1>2, PTL DEF Spec

\* The journal stays within limits.perChat, limits.total and limits.history
\* (capture-queue.ts:53 and 91), whatever is cancelled, pruned and recovered.
THEOREM JournalWithinLimits == Spec => []WithinLimits
<1>1. OrderInv => WithinLimits
  BY DEF OrderInv, JournalInv, OpenWithin, FinalWithin, Final, WithinLimits
<1>. QED BY <1>1, OrderInvariant, PTL

\* While the server is up no job in flight is orphaned (agent.ts:3008).
THEOREM InFlightOwned == Spec => []InFlightIsOwned
<1>1. OrderInv => InFlightIsOwned
  <2>1. SUFFICES ASSUME OrderInv, NEW t \in Turns, server = "up", Held(t)
                 PROVE  Running(ChatOf(t)) /\ Job(ChatOf(t)) = t /\ ~Aborted(ChatOf(t))
    BY DEF InFlightIsOwned, Held
  <2>. QED BY <2>1, TurnParts DEF OrderInv, AllChats, ChatInv, OwnedOK, TurnsOf
<1>. QED BY <1>1, OrderInvariant, PTL

\* Turns are learned from in the order they finished (next, capture-queue.ts:62).
THEOREM InFlightOldest == Spec => []InFlightIsOldest
<1>1. OrderInv => InFlightIsOldest
  <2>1. SUFFICES ASSUME OrderInv, NEW t \in Turns, NEW u \in Turns, ChatOf(t) = ChatOf(u), t # u,
                        Held(t) \/ status[t] = "ready", Open(u)
                 PROVE  stamp[t] < stamp[u] /\ status[u] = "pending"
    BY DEF InFlightIsOldest, Held
  <2>2. First(t)
    BY <2>1, TurnParts DEF OrderInv, AllChats, ChatInv, OldestOK, TurnsOf
  <2>3. u \in TurnsOf(ChatOf(t)) \ {t}
    BY <2>1 DEF TurnsOf
  <2>. QED BY <2>1, <2>2, <2>3 DEF First
<1>. QED BY <1>1, OrderInvariant, PTL

\* A closed chat, or one that changes its execution policy, has no job left to run.
THEOREM BlockedIsIdle == Spec => []BlockedChatIsIdle
<1>1. OrderInv => BlockedChatIsIdle
  BY TurnParts DEF OrderInv, AllChats, ChatInv, IdleOK, BlockedChatIsIdle, TurnsOf
<1>. QED BY <1>1, OrderInvariant, PTL

---------------------------------------------------------------------------
(* What a step may not do *)

\* The watermark of a chat lies below every turn that is launched for the first time.
LEMMA NewIsUncovered ==
    ASSUME OrderInv, NEW t \in Turns, t \notin launched,
           \A u \in launched \cap TurnsOf(ChatOf(t)) : u[2] < t[2]
    PROVE  status[t] = "none" /\ ~(t[2] <= watermark[ChatOf(t)])
<1>1. ChatOf(t) \in Chats /\ t[2] \in Nat /\ t[2] > 0
  BY TurnParts, TurnsAssumption DEF Turns
<1>2. status[t] = "none"
  BY DEF OrderInv, CaptureInv, RecordedOK
<1>3. CASE watermark[ChatOf(t)] = 0
  BY <1>1, <1>2, <1>3
<1>4. CASE \E u \in launched \cap TurnsOf(ChatOf(t)) : watermark[ChatOf(t)] = u[2]
  <2>1. PICK u \in launched \cap TurnsOf(ChatOf(t)) : watermark[ChatOf(t)] = u[2]
    BY <1>4
  <2>2. u[2] \in Nat /\ u[2] < t[2]
    BY <2>1, TurnParts DEF TurnsOf
  <2>. QED BY <1>1, <1>2, <2>1, <2>2
<1>. QED BY <1>1, <1>3, <1>4 DEF OrderInv, JournalInv, Covered

LEMMA LaunchRecordsNew ==
    ASSUME OrderInv, NEW t \in Turns, NEW oversize \in BOOLEAN, Launch(t, oversize),
           t \notin launched
    PROVE  status'[t] # "none"
<1>1. status[t] = "none" /\ ~(t[2] <= watermark[ChatOf(t)])
  BY NewIsUncovered DEF Launch
<1> DEFINE skip == oversize \/ Full(ChatOf(t))
           s == IF skip THEN "skipped" ELSE "pending"
<1>2. /\ server' = server /\ launched' = launched \cup {t}
      /\ stamp' = [stamp EXCEPT ![t] = 1 + Cardinality({u \in Turns : stamp[u] > 0})]
      /\ Write([status EXCEPT ![t] = s],
               [stamp EXCEPT ![t] = 1 + Cardinality({u \in Turns : stamp[u] > 0})])
  BY <1>1 DEF Launch, host
<1>3. s \in {"skipped", "pending"} /\ (s = "pending" => ~Full(ChatOf(t)))
  OBVIOUS
<1> HIDE DEF s, skip
<1>4. Recorded(t)
  BY <1>1, <1>2, <1>3 DEF Recorded
<1>. QED BY <1>4, RecordedKeepsJournal DEF OrderInv

LEMMA OnlyLaunchLaunches ==
    ASSUME [Next]_vars
    PROVE  \/ launched' = launched
           \/ \E t \in Turns, oversize \in BOOLEAN :
                Launch(t, oversize) /\ launched' = launched \cup {t}
<1>1. CASE \E c \in Chats : Request(c)
  <2>1. PICK c \in Chats : Request(c)
    BY <1>1
  <2>2. \A t \in TurnsOf(c) : t \in Turns
    BY OwnTurns
  <2>. QED BY <2>1, <2>2 DEF Request, Launch, SettingsOff, PolicyMoves, BeginPolicyChange,
                              EndPolicyChange, CloseChat
<1>2. CASE \E c \in Chats : Driver(c)
  BY <1>2 DEF Driver, Loop, Resolve, Answer, Take, Apply, Claim, Receipt, Publish
<1>3. CASE (\E c \in Chats : CrashInWrite(c)) \/ Crash \/ CrashInRecovery
  BY <1>3 DEF CrashInWrite, Crash, CrashInRecovery, Die
<1>4. CASE Shutdown \/ Exit \/ Restart \/ UNCHANGED vars
  BY <1>4 DEF Shutdown, Exit, Restart, vars
<1>. QED BY <1>1, <1>2, <1>3, <1>4 DEF Next

\* Writes of outcomes put no job into application.
LEMMA WriteTakesNothing ==
    ASSUME NEW st, NEW at, Write(st, at) \/ Torn(st, at), NEW t \in Turns, status'[t] = "applying"
    PROVE  st[t] = "applying"
BY DEF Write, Torn

LEMMA FinishedTakesNothing ==
    ASSUME CaptureInv, NEW u, NEW s \in Terminal, NEW t \in Turns, Finished(u, s)[t] = "applying"
    PROVE  status[t] = "applying"
BY DEF Finished, Terminal, CaptureInv, TypeOK

LEMMA CancelTakesNothing ==
    ASSUME NEW c, Cancel(c), NEW t \in Turns, status'[t] = "applying"
    PROVE  status[t] = "applying"
<1>1. Cancelled(c)[t] = "applying"
  BY WriteTakesNothing DEF Cancel
<1>. QED BY <1>1 DEF Cancelled

LEMMA SettleTakesNothing ==
    ASSUME CaptureInv, NEW c, NEW s \in Terminal, Settle(c, s), NEW t \in Turns,
           status'[t] = "applying"
    PROVE  status[t] = "applying"
BY WriteTakesNothing, FinishedTakesNothing DEF Settle

LEMMA MoveTakesOne ==
    ASSUME CaptureInv, NEW u, NEW s, status' = [status EXCEPT ![u] = s], NEW t \in Turns,
           status[t] # "applying", status'[t] = "applying"
    PROVE  t = u /\ s = "applying"
BY DEF CaptureInv, TypeOK

LEMMA DriverTakes ==
    ASSUME OrderInv, NEW c \in Chats, Driver(c), NEW t \in Turns,
           status[t] # "applying", status'[t] = "applying"
    PROVE  Valid(t)
<1>1. CaptureInv
  BY DEF OrderInv
<1>2. ~(UNCHANGED journal)
  BY DEF journal
<1>3. \A s \in Terminal : ~Settle(c, s)
  BY <1>1, SettleTakesNothing
<1>4. \A u : \A s \in Terminal : ~Write(Finished(u, s), stamp)
  BY <1>1, WriteTakesNothing, FinishedTakesNothing
<1>5. \A u, s : status' = [status EXCEPT ![u] = s] => t = u /\ s = "applying"
  BY <1>1, MoveTakesOne
<1>6. CASE Loop(c)
  <2> DEFINE v == NextIn(c, status)
  <2>1. \/ UNCHANGED journal
        \/ Write(Finished(v, "skipped"), stamp)
        \/ status' = [status EXCEPT ![v] = "running"]
        \/ status' = [status EXCEPT ![v] = "applying"] /\ Valid(v)
    <3> HIDE DEF v
    <3>. QED BY <1>6, Zenon DEF Loop, v
  <2> HIDE DEF v
  <2>2. status' = [status EXCEPT ![v] = "applying"] /\ Valid(v)
    BY <1>2, <1>4, <1>5, <2>1 DEF Terminal
  <2>. QED BY <1>5, <2>2
<1>7. CASE \E outcome \in {"same", "changed", "failed"} : Resolve(c, outcome)
  BY <1>2, <1>3, <1>5, <1>7 DEF Resolve, Terminal
<1>8. CASE \E ok \in BOOLEAN : Answer(c, ok)
  BY <1>2, <1>3, <1>5, <1>8 DEF Answer, Terminal
<1>9. CASE Take(c)
  <2>1. \/ Settle(c, "skipped")
        \/ Valid(Job(c)) /\ status' = [status EXCEPT ![Job(c)] = "applying"]
    BY <1>9 DEF Take
  <2>2. Valid(Job(c)) /\ status' = [status EXCEPT ![Job(c)] = "applying"]
    BY <1>3, <2>1 DEF Terminal
  <2>. QED BY <1>5, <2>2
<1>10. CASE \E outcome \in {"commit", "await", "throw"} : Apply(c, outcome)
  BY <1>2, <1>3, <1>10 DEF Apply, Terminal
<1>11. CASE \E ok \in BOOLEAN : Claim(c, ok)
  BY <1>2, <1>3, <1>11 DEF Claim, Terminal
<1>12. CASE Receipt(c)
  BY <1>2, <1>4, <1>12 DEF Receipt, Terminal
<1>13. CASE \E ok \in BOOLEAN : Publish(c, ok)
  BY <1>2, <1>3, <1>13 DEF Publish, Terminal
<1>. QED BY <1>6, <1>7, <1>8, <1>9, <1>10, <1>11, <1>12, <1>13 DEF Driver

LEMMA LaunchTakesNothing ==
    ASSUME CaptureInv, NEW u \in Turns, NEW oversize \in BOOLEAN, Launch(u, oversize),
           NEW t \in Turns, status'[t] = "applying"
    PROVE  status[t] = "applying"
<1> DEFINE skip == oversize \/ Full(ChatOf(u))
           s == IF skip THEN "skipped" ELSE "pending"
           at == [stamp EXCEPT ![u] = 1 + Cardinality({v \in Turns : stamp[v] > 0})]
<1>1. UNCHANGED journal \/ Write([status EXCEPT ![u] = s], at)
  BY DEF Launch
<1>2. s # "applying"
  OBVIOUS
<1> HIDE DEF s, at, skip
<1>3. CASE Write([status EXCEPT ![u] = s], at)
  <2>1. [status EXCEPT ![u] = s][t] = "applying"
    BY <1>3, WriteTakesNothing
  <2>. QED BY <1>2, <2>1 DEF CaptureInv, TypeOK
<1>. QED BY <1>1, <1>3 DEF journal

LEMMA OthersTakeNothing ==
    ASSUME CaptureInv, [Next]_vars, \A c \in Chats : ~Driver(c), NEW t \in Turns,
           status'[t] = "applying"
    PROVE  status[t] = "applying"
<1>1. CASE \E c \in Chats : Request(c)
  <2>1. PICK c \in Chats : Request(c)
    BY <1>1
  <2>2. CASE \E u \in TurnsOf(c), oversize \in BOOLEAN : Launch(u, oversize)
    BY <2>2, LaunchTakesNothing, OwnTurns
  <2>3. CASE Cancel(c)
    BY <2>3, CancelTakesNothing
  <2>4. CASE UNCHANGED journal
    BY <2>4 DEF journal
  <2>. QED BY <2>1, <2>2, <2>3, <2>4
       DEF Request, SettingsOff, PolicyMoves, BeginPolicyChange, EndPolicyChange, CloseChat
<1>2. CASE \E c \in Chats : CrashInWrite(c)
  <2>1. PICK c \in Chats : CrashInWrite(c)
    BY <1>2
  <2>2. CASE Torn(Cancelled(c), stamp)
    <3>1. Cancelled(c)[t] = "applying"
      BY <2>2, WriteTakesNothing
    <3>. QED BY <3>1 DEF Cancelled
  <2>3. CASE \E u, s : s \in Terminal /\ Torn(Finished(u, s), stamp)
    BY <2>3, WriteTakesNothing, FinishedTakesNothing
  <2>4. \A point : OutcomesAt(point) \subseteq Terminal
    BY DEF OutcomesAt, Terminal
  <2>. QED BY <2>1, <2>2, <2>3, <2>4 DEF CrashInWrite, Terminal
<1>3. CASE CrashInRecovery \/ Restart
  <2>1. \/ status' = Resumed
        \/ \E at : Torn(Recovered, at) \/ Write(Recovered, at)
    BY <1>3 DEF CrashInRecovery, Restart
  <2>2. Resumed[t] = "applying" \/ Recovered[t] = "applying"
    BY <2>1, WriteTakesNothing
  <2>. QED BY <2>2 DEF Recovered, Resumed
<1>4. CASE Shutdown \/ Exit \/ Crash \/ UNCHANGED vars
  BY <1>4 DEF Shutdown, Exit, Crash, vars, journal
<1>. QED BY <1>1, <1>2, <1>3, <1>4 DEF Next

\* The watermark of pruned outcomes never swallows a turn that is launched for the first
\* time (enqueue, capture-queue.ts:50).
THEOREM NewTurnsAreRecorded == Spec => NewTurnIsRecorded
<1>1. OrderInv /\ [Next]_vars =>
        \A t \in Turns : t \in launched' \ launched => status'[t] # "none"
  <2>1. SUFFICES ASSUME OrderInv, [Next]_vars, NEW t \in Turns, t \in launched' \ launched
                 PROVE  status'[t] # "none"
    OBVIOUS
  <2>2. PICK oversize \in BOOLEAN : Launch(t, oversize)
    BY <2>1, OnlyLaunchLaunches
  <2>. QED BY <2>1, <2>2, LaunchRecordsNew
<1>. QED BY <1>1, OrderInvariant, PTL DEF Spec, NewTurnIsRecorded

\* An answer is taken up only under the policies its turn finished under
\* (captureInvalidReason, agent.ts:2900).
THEOREM TakenUnderItsPolicies == Spec => TakenUnderOwnPolicies
<1>1. OrderInv /\ [Next]_vars =>
        \A t \in Turns : status[t] # "applying" /\ status'[t] = "applying" =>
            bound[t] = policy[ChatOf(t)] /\ ChatOf(t) \notin closed
  <2>1. SUFFICES ASSUME OrderInv, [Next]_vars, NEW t \in Turns,
                        status[t] # "applying", status'[t] = "applying"
                 PROVE  bound[t] = policy[ChatOf(t)] /\ ChatOf(t) \notin closed
    OBVIOUS
  <2>2. PICK c \in Chats : Driver(c)
    BY <2>1, OthersTakeNothing DEF OrderInv
  <2>3. Valid(t)
    BY <2>1, <2>2, DriverTakes
  <2>. QED BY <2>3 DEF Valid
<1>. QED BY <1>1, OrderInvariant, PTL DEF Spec, TakenUnderOwnPolicies
=============================================================================
