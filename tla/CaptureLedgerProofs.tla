------------------------ MODULE CaptureLedgerProofs ------------------------
(***************************************************************************)
(* Proofs about CaptureLedger for any calls, observations, batches and     *)
(* bounds.  The inductive invariant ties the store to the durable          *)
(* operations: a change was made for an observation only if its operation  *)
(* is recorded, and a claim is settled only then.                          *)
(***************************************************************************)
EXTENDS CaptureLedger, TLAPS

PcStates == {"idle", "claiming", "waiting", "retrying", "routing",
             "deciding", "persisting", "done", "failed"}

LocalsOK ==
    /\ pc \in [Calls -> PcStates]
    /\ book \in [Calls -> Ledgers]
    /\ todo \in [Calls -> Seq(Obs)]
    /\ mine \in [Calls -> Seq(Obs)]
    /\ owner \in [Calls -> Calls \cup {NoMemory}]
    /\ gate \in [Calls -> [Ids -> Rows \cup {Absent}]]

ClaimsTypeOK ==
    /\ ledger \in Ledgers
    /\ inFlight \in [Ledgers -> [Obs -> Calls \cup {NoMemory}]]
    /\ claim \in [Calls -> [Obs -> {"none", "open", "completed", "released"}]]

StoreOK ==
    /\ row \in [Ids -> Rows \cup {Absent}]
    /\ dismissed \subseteq Obs
    /\ op \in [Obs -> Ids \cup {NoMemory, Unrecorded}]
    /\ linked \subseteq Ids \X Ids
    /\ reinforced \in [Ids -> Nat]
    /\ effects \in [Obs -> Nat]
    /\ moves \in 0 .. MaxMoves

LEMMA TypeOKParts == TypeOK <=> StoreOK /\ ClaimsTypeOK /\ LocalsOK /\ aborted \subseteq Abortable
  BY DEF TypeOK, StoreOK, ClaimsTypeOK, LocalsOK, PcStates

LEMMA AbsentIsNotLive == ~Live(Absent)
  BY DEF Live, Absent

\* What one step of the transaction does for an observation: nothing, if it is
\* recorded; or it records it, and drops it, reinforces the verdict's target or
\* creates a memory linked to that target at most.
Linking(c, o, m) ==
    \E targets \in SUBSET Ids :
        (\A t \in targets : t = m /\ Fresh(c, o, m)) /\ Create(o, targets)

Outcome(c, o, m) ==
    \/ UNCHANGED store /\ op[o] # Unrecorded
    \/ op[o] = Unrecorded /\ Drop(o)
    \/ op[o] = Unrecorded /\ m \in Ids /\ Fresh(c, o, m) /\ Reinforce(o, m)
    \/ op[o] = Unrecorded /\ ~Suppressed(o) /\ Linking(c, o, m)

LEMMA PersistCases ==
    ASSUME StoreOK, LocalsOK,
           NEW c \in Calls, NEW verdict \in Verdicts, NEW m \in Targets(verdict),
           Persist(c, verdict, m)
    PROVE  Head(mine[c]) \in Obs /\ Outcome(c, Head(mine[c]), m)
<1>1. PICK o : o = Head(mine[c])
  OBVIOUS
<1>2. o \in Obs
  BY <1>1 DEF Persist, LocalsOK
<1>3. CASE op[o] # Unrecorded
  BY <1>1, <1>2, <1>3 DEF Persist, Outcome
<1>4. CASE op[o] = Unrecorded /\ Suppressed(o)
  BY <1>1, <1>2, <1>4 DEF Persist, Outcome
<1>5. CASE op[o] = Unrecorded /\ ~Suppressed(o)
  <2>1. Apply(c, o, verdict, m)
    BY <1>1, <1>5 DEF Persist
  <2>2. Fresh(c, o, m) => m \in Ids
    BY DEF Fresh, Exact
  <2>3. RouteOf(c, o, verdict, m) \in {"reinforces", "updates", "conflicts"}
          => Fresh(c, o, m)
    BY DEF RouteOf
  <2>4. Create(o, {}) => Linking(c, o, m)
    BY DEF Linking
  <2>5. m \in Ids /\ Fresh(c, o, m) /\ Create(o, {m}) => Linking(c, o, m)
    BY DEF Linking
  <2>6. Update(o, m) => Create(o, {m}) \/ Drop(o)
    BY DEF Update
  <2>. QED BY <1>1, <1>2, <1>5, <2>1, <2>2, <2>3, <2>4, <2>5, <2>6 DEF Apply, Outcome
<1>. QED BY <1>3, <1>4, <1>5

---------------------------------------------------------------------------
(* The store *)

\* An observation that changed the store is recorded.
EffectsOK == \A o \in Obs : effects[o] <= IF op[o] = Unrecorded THEN 0 ELSE 1

\* A memory the turn reinforced is recorded as captured by it, and so is one that
\* the turn created.
ReinforcedOK ==
    \A m \in Ids :
        /\ reinforced[m] <= IF Initial[m] # Absent /\ CapturedThisTurn(m) THEN 1 ELSE 0
        /\ Initial[m] = Absent /\ row[m] # Absent => CapturedThisTurn(m)

StoreInv == StoreOK /\ EffectsOK /\ ReinforcedOK

\* Recording an operation that is not recorded keeps every earlier one.
LEMMA RememberKeeps ==
    ASSUME StoreOK, NEW o \in Obs, op[o] = Unrecorded,
           NEW m \in Ids \cup {NoMemory}, Remember(o, m)
    PROVE  /\ op' \in [Obs -> Ids \cup {NoMemory, Unrecorded}]
           /\ op'[o] # Unrecorded
           /\ \A x \in Obs : op[x] # Unrecorded => op'[x] # Unrecorded
           /\ m \in Ids => CapturedThisTurn(m)'
           /\ \A n \in Ids : CapturedThisTurn(n) => CapturedThisTurn(n)'
<1>1. op' = [op EXCEPT ![o] = m] /\ op \in [Obs -> Ids \cup {NoMemory, Unrecorded}]
  BY DEF Remember, StoreOK
<1>2. m # Unrecorded /\ Unrecorded \notin Ids
  BY NoneAssumption
<1>3. op'[o] = m
  BY <1>1
<1>4. \A n \in Ids : CapturedThisTurn(n) => CapturedThisTurn(n)'
  <2>1. TAKE n \in Ids
  <2>2. HAVE CapturedThisTurn(n)
  <2>3. PICK x \in Obs : op[x] = n
    BY <2>2 DEF CapturedThisTurn
  <2>4. x # o
    BY <2>3, <1>2
  <2>5. op'[x] = n
    BY <2>3, <2>4, <1>1
  <2>. QED BY <2>5 DEF CapturedThisTurn
<1>5. m \in Ids => CapturedThisTurn(m)'
  BY <1>3 DEF CapturedThisTurn
<1>. QED BY <1>1, <1>2, <1>3, <1>4, <1>5

LEMMA DropKeeps ==
    ASSUME StoreInv, NEW o \in Obs, op[o] = Unrecorded, Drop(o)
    PROVE  StoreInv'
<1>1. Remember(o, NoMemory)
  BY DEF Drop
<1>2. /\ op' \in [Obs -> Ids \cup {NoMemory, Unrecorded}]
      /\ op'[o] # Unrecorded
      /\ \A x \in Obs : op[x] # Unrecorded => op'[x] # Unrecorded
      /\ \A n \in Ids : CapturedThisTurn(n) => CapturedThisTurn(n)'
  BY <1>1, RememberKeeps DEF StoreInv
<1>3. StoreOK'
  BY <1>2 DEF StoreInv, StoreOK, Drop
<1>4. EffectsOK'
  BY <1>2 DEF StoreInv, StoreOK, EffectsOK, Drop
<1>5. ReinforcedOK'
  BY <1>2 DEF StoreInv, StoreOK, ReinforcedOK, Drop
<1>. QED BY <1>3, <1>4, <1>5 DEF StoreInv

LEMMA ReinforceKeeps ==
    ASSUME StoreInv, NEW o \in Obs, op[o] = Unrecorded, NEW m \in Ids, Reinforce(o, m)
    PROVE  StoreInv'
<1>1. /\ op' \in [Obs -> Ids \cup {NoMemory, Unrecorded}]
      /\ op'[o] # Unrecorded
      /\ \A x \in Obs : op[x] # Unrecorded => op'[x] # Unrecorded
      /\ CapturedThisTurn(m)'
      /\ \A n \in Ids : CapturedThisTurn(n) => CapturedThisTurn(n)'
  BY RememberKeeps DEF StoreInv, Reinforce
<1>2. UNCHANGED <<row, dismissed, linked, moves>>
  BY DEF Reinforce
<1>3. CASE row[m].status = "active" /\ ~CapturedThisTurn(m)
  <2>1. /\ reinforced' = [reinforced EXCEPT ![m] = @ + 1]
        /\ effects' = [effects EXCEPT ![o] = @ + 1]
    BY <1>3 DEF Reinforce
  <2>2. StoreOK'
    BY <1>1, <1>2, <2>1 DEF StoreInv, StoreOK
  <2>3. effects[o] = 0
    BY DEF StoreInv, StoreOK, EffectsOK
  <2>4. EffectsOK'
    BY <1>1, <2>1, <2>3 DEF StoreInv, StoreOK, EffectsOK
  <2>5. row[m] # Absent
    BY <1>3 DEF Absent
  <2>6. Initial[m] # Absent /\ reinforced[m] = 0
    BY <1>3, <2>5 DEF StoreInv, StoreOK, ReinforcedOK
  <2>7. ReinforcedOK'
    BY <1>1, <1>2, <2>1, <2>6 DEF StoreInv, StoreOK, ReinforcedOK
  <2>. QED BY <2>2, <2>4, <2>7 DEF StoreInv
<1>4. CASE ~(row[m].status = "active" /\ ~CapturedThisTurn(m))
  <2>1. UNCHANGED <<reinforced, effects>>
    BY <1>4 DEF Reinforce
  <2>2. StoreOK'
    BY <1>1, <1>2, <2>1 DEF StoreInv, StoreOK
  <2>3. EffectsOK'
    BY <1>1, <2>1 DEF StoreInv, StoreOK, EffectsOK
  <2>4. ReinforcedOK'
    BY <1>1, <1>2, <2>1 DEF StoreInv, StoreOK, ReinforcedOK
  <2>. QED BY <2>2, <2>3, <2>4 DEF StoreInv
<1>. QED BY <1>3, <1>4

LEMMA CreateKeeps ==
    ASSUME StoreInv, NEW o \in Obs, op[o] = Unrecorded,
           NEW targets \in SUBSET Ids, Create(o, targets)
    PROVE  StoreInv'
<1>1. PICK m : m = FreshId
  OBVIOUS
<1>2. /\ m \in Ids
      /\ row' = [row EXCEPT ![m] = [text |-> o, rank |-> Rank[o],
                                    status |-> "candidate", version |-> 1]]
      /\ linked' = linked \cup {<<m, t>> : t \in targets}
      /\ effects' = [effects EXCEPT ![o] = @ + 1]
      /\ Remember(o, m)
      /\ UNCHANGED <<dismissed, reinforced, moves>>
  BY <1>1 DEF Create
<1>3. /\ op' \in [Obs -> Ids \cup {NoMemory, Unrecorded}]
      /\ op'[o] # Unrecorded
      /\ \A x \in Obs : op[x] # Unrecorded => op'[x] # Unrecorded
      /\ CapturedThisTurn(m)'
      /\ \A n \in Ids : CapturedThisTurn(n) => CapturedThisTurn(n)'
  BY <1>2, RememberKeeps DEF StoreInv
<1>4. [text |-> o, rank |-> Rank[o], status |-> "candidate", version |-> 1] \in Rows
  BY BatchAssumption, BoundsAssumption DEF Rows
<1>5. StoreOK'
  <2>1. row' \in [Ids -> Rows \cup {Absent}]
    BY <1>2, <1>4 DEF StoreInv, StoreOK
  <2>2. linked' \subseteq Ids \X Ids
    BY <1>2 DEF StoreInv, StoreOK
  <2>3. effects' \in [Obs -> Nat]
    BY <1>2 DEF StoreInv, StoreOK
  <2>. QED BY <1>2, <1>3, <2>1, <2>2, <2>3 DEF StoreInv, StoreOK
<1>6. effects[o] = 0
  BY DEF StoreInv, StoreOK, EffectsOK
<1>7. EffectsOK'
  BY <1>2, <1>3, <1>6 DEF StoreInv, StoreOK, EffectsOK
<1>8. ReinforcedOK'
  BY <1>2, <1>3 DEF StoreInv, StoreOK, ReinforcedOK
<1>. QED BY <1>5, <1>7, <1>8 DEF StoreInv

LEMMA OutcomeKeeps ==
    ASSUME StoreInv, NEW c, NEW o \in Obs, NEW m, Outcome(c, o, m)
    PROVE  /\ StoreInv' /\ op'[o] # Unrecorded
           /\ \A x \in Obs : op[x] # Unrecorded => op'[x] # Unrecorded
<1>1. CASE UNCHANGED store /\ op[o] # Unrecorded
  BY <1>1 DEF store, StoreInv, StoreOK, EffectsOK, ReinforcedOK, CapturedThisTurn
<1>2. CASE op[o] = Unrecorded /\ Drop(o)
  BY <1>2, DropKeeps, RememberKeeps DEF Drop, StoreInv
<1>3. CASE op[o] = Unrecorded /\ m \in Ids /\ Fresh(c, o, m) /\ Reinforce(o, m)
  BY <1>3, ReinforceKeeps, RememberKeeps DEF Reinforce, StoreInv
<1>4. CASE op[o] = Unrecorded /\ ~Suppressed(o) /\ Linking(c, o, m)
  <2>1. PICK targets \in SUBSET Ids : Create(o, targets)
    BY <1>4 DEF Linking
  <2>2. FreshId \in Ids /\ Remember(o, FreshId)
    BY <2>1 DEF Create
  <2>. QED BY <1>4, <2>1, <2>2, CreateKeeps, RememberKeeps DEF StoreInv
<1>. QED BY <1>1, <1>2, <1>3, <1>4 DEF Outcome

\* The user moves only memories that exist, and one that was absent stays so.
LEMMA UserKeeps ==
    ASSUME StoreInv, UserActs
    PROVE  /\ StoreInv' /\ UNCHANGED <<op, linked, reinforced, effects, claims, pc, locals, aborted>>
           /\ \A m \in Ids : row[m] = Absent => row'[m] = Absent
<1>1. PICK m \in Ids :
        \/ \E text \in Texts : Edit(m, text)
        \/ Accept(m) \/ Archive(m) \/ Restore(m) \/ Dismiss(m)
  BY DEF UserActs
<1>2. row[m] # Absent => row[m] \in Rows
  BY DEF StoreInv, StoreOK
<1>3. \E r \in Rows \cup {Absent} : Put(m, r)
  <2>1. ASSUME NEW text \in Texts, Edit(m, text)
        PROVE  \E r \in Rows \cup {Absent} : Put(m, r)
    <3>1. row[m] \in Rows
      BY <2>1, <1>2, AbsentIsNotLive DEF Edit
    <3>2. PICK v : v = IF row[m].status = "active" THEN row[m].version + 1
                       ELSE row[m].version
      OBVIOUS
    <3>3. v \in 1 .. MaxVersion
      BY <2>1, <3>1, <3>2, BoundsAssumption DEF Edit, Rows
    <3>4. [row[m] EXCEPT !.text = text, !.version = v] \in Rows
      BY <3>1, <3>3 DEF Rows
    <3>. QED BY <2>1, <3>2, <3>4 DEF Edit
  <2>2. ASSUME Accept(m) \/ Restore(m)
        PROVE  \E r \in Rows \cup {Absent} : Put(m, r)
    BY <2>2, <1>2 DEF Accept, Restore, Rows, Absent
  <2>3. ASSUME Archive(m)
        PROVE  \E r \in Rows \cup {Absent} : Put(m, r)
    BY <2>3, <1>2 DEF Archive, Rows, Absent
  <2>4. ASSUME Dismiss(m)
        PROVE  \E r \in Rows \cup {Absent} : Put(m, r)
    BY <2>4 DEF Dismiss
  <2>. QED BY <1>1, <2>1, <2>2, <2>3, <2>4
<1>4. row[m] # Absent
  <2>1. (\E text \in Texts : Edit(m, text)) => row[m] # Absent
    BY AbsentIsNotLive DEF Edit
  <2>2. Absent.status = "absent"
    BY DEF Absent
  <2>3. Accept(m) \/ Archive(m) \/ Restore(m) \/ Dismiss(m) => row[m] # Absent
    BY <2>2 DEF Accept, Archive, Restore, Dismiss
  <2>. QED BY <1>1, <2>1, <2>3
<1>5. dismissed' \subseteq Obs
  BY <1>1 DEF Edit, Accept, Archive, Restore, Dismiss, StoreInv, StoreOK
<1>6. PICK r \in Rows \cup {Absent} : Put(m, r)
  BY <1>3
<1>7. /\ row' = [row EXCEPT ![m] = r] /\ moves' = moves + 1 /\ moves < MaxMoves
      /\ UNCHANGED <<op, linked, reinforced, effects, claims, pc, locals, aborted>>
  BY <1>6 DEF Put
<1>8. StoreOK'
  BY <1>5, <1>7, BoundsAssumption DEF StoreInv, StoreOK
<1>9. EffectsOK'
  BY <1>7 DEF StoreInv, EffectsOK
<1>10. ReinforcedOK'
  <2>1. \A n \in Ids : CapturedThisTurn(n)' <=> CapturedThisTurn(n)
    BY <1>7 DEF CapturedThisTurn
  <2>2. \A n \in Ids : row'[n] # Absent => row[n] # Absent
    BY <1>4, <1>7 DEF StoreInv, StoreOK
  <2>. QED BY <1>7, <2>1, <2>2 DEF StoreInv, ReinforcedOK
<1>11. \A n \in Ids : row[n] = Absent => row'[n] = Absent
  BY <1>4, <1>7 DEF StoreInv, StoreOK
<1>. QED BY <1>7, <1>8, <1>9, <1>10, <1>11 DEF StoreInv

---------------------------------------------------------------------------
(* The calls *)

Recorded(o) == op[o] # Unrecorded

\* A settled claim stands for a recorded observation, and an open one for an
\* observation its call has still to commit, unless the call was thrown out.
ClaimsOK ==
    \A c \in Calls, o \in Obs :
        /\ claim[c][o] = "completed" => Recorded(o)
        /\ claim[c][o] = "open" /\ pc[c] # "failed"
             => Recorded(o) \/ \E i \in 1 .. Len(mine[c]) : mine[c][i] = o

CallsOK == ClaimsTypeOK /\ LocalsOK /\ aborted \subseteq Abortable

\* A call waits for a candidate it has still to claim.
WaitersOK == \A c \in Calls : pc[c] = "waiting" => todo[c] # <<>>

LedgerInv == StoreInv /\ CallsOK /\ WaitersOK /\ ClaimsOK

\* The steps of a call that leave the store alone.
Moves(c) ==
    \/ SkipRecorded(c) \/ SkipRepeated(c) \/ Wait(c) \/ Claim(c)
    \/ WakeAborted(c) \/ WakeDuplicate(c) \/ WakeRetry(c)
    \/ NothingToRoute(c) \/ Route(c) \/ Commit(c)
    \/ RouterAnswers(c) \/ Fail(c) \/ Abort(c)
    \/ \E batch \in Batches[c] : Begin(c, batch)

LEMMA MovesKeepStore == ASSUME NEW c, Moves(c) PROVE UNCHANGED store
  BY DEF Moves, SkipRecorded, SkipRepeated, Skip, Wait, Claim, WakeAborted, WakeDuplicate,
         WakeRetry, NothingToRoute, Route, Commit, RouterAnswers, Fail, Abort, Begin, store

LEMMA ShortListTyped == StoreOK => ShortList \in [Ids -> Rows \cup {Absent}]
  BY DEF StoreOK, ShortList

LEMMA NoGateTyped == [m \in Ids |-> Absent] \in [Ids -> Rows \cup {Absent}]
  OBVIOUS

LEMMA EndTyped ==
    ASSUME LocalsOK, NEW c \in Calls, NEW how \in PcStates, End(c, how)
    PROVE  LocalsOK'
<1>1. <<>> \in Seq(Obs)
  OBVIOUS
<1>. QED BY <1>1, NoGateTyped DEF End, LocalsOK

LEMMA SettleTyped ==
    ASSUME ClaimsTypeOK, NEW c \in Calls, book[c] \in Ledgers,
           NEW how \in {"completed", "released"}, Settle(c, how)
    PROVE  ClaimsTypeOK'
<1>1. inFlight' \in [Ledgers -> [Obs -> Calls \cup {NoMemory}]]
  BY DEF ClaimsTypeOK, Settle
<1>2. claim' \in [Calls -> [Obs -> {"none", "open", "completed", "released"}]]
  BY DEF ClaimsTypeOK, Settle
<1>. QED BY <1>1, <1>2 DEF ClaimsTypeOK, Settle

LEMMA MovesTyped ==
    ASSUME LedgerInv, NEW c \in Calls, Moves(c)
    PROVE  CallsOK'
<1>. USE DEF LedgerInv, CallsOK
<1>1. ASSUME todo[c] # <<>> PROVE Head(todo[c]) \in Obs /\ Tail(todo[c]) \in Seq(Obs)
  BY <1>1 DEF LocalsOK
<1>2. CASE SkipRecorded(c) \/ SkipRepeated(c)
  <2>1. Skip(c) /\ todo[c] # <<>>
    BY <1>2 DEF SkipRecorded, SkipRepeated
  <2>2. LocalsOK'
    BY <1>1, <2>1 DEF Skip, LocalsOK, PcStates
  <2>3. ClaimsTypeOK'
    BY <2>1 DEF Skip, claims, ClaimsTypeOK
  <2>. QED BY <2>1, <2>2, <2>3 DEF Skip
<1>3. CASE Wait(c)
  <2>1. inFlight[book[c]][Head(todo[c])] \in Calls \cup {NoMemory}
    BY <1>1, <1>3 DEF Wait, MustClaim, ClaimsTypeOK, LocalsOK
  <2>2. LocalsOK'
    BY <1>3, <2>1 DEF Wait, LocalsOK, PcStates
  <2>3. ClaimsTypeOK'
    BY <1>3 DEF Wait, claims, ClaimsTypeOK
  <2>. QED BY <1>3, <2>2, <2>3 DEF Wait
<1>4. CASE Claim(c)
  <2>1. PICK o \in Obs : o = Head(todo[c])
    BY <1>1, <1>4 DEF Claim, MustClaim
  <2>2. LocalsOK'
    <3>1. Tail(todo[c]) \in Seq(Obs) /\ Append(mine[c], o) \in Seq(Obs)
      BY <1>1, <1>4, <2>1 DEF Claim, MustClaim, LocalsOK
    <3>. QED BY <1>4, <2>1, <3>1 DEF Claim, LocalsOK, PcStates
  <2>3. inFlight' \in [Ledgers -> [Obs -> Calls \cup {NoMemory}]]
    BY <1>4, <2>1 DEF Claim, ClaimsTypeOK
  <2>4. claim' \in [Calls -> [Obs -> {"none", "open", "completed", "released"}]]
    BY <1>4, <2>1 DEF Claim, ClaimsTypeOK
  <2>. QED BY <1>4, <2>2, <2>3, <2>4 DEF Claim, ClaimsTypeOK
<1>5. CASE WakeAborted(c) \/ NothingToRoute(c)
  <2>1. \E how \in {"failed", "done"} : End(c, how)
    BY <1>5 DEF WakeAborted, NothingToRoute
  <2>2. LocalsOK'
    BY <2>1, EndTyped DEF PcStates
  <2>3. ClaimsTypeOK' /\ aborted' = aborted
    BY <1>5 DEF WakeAborted, NothingToRoute, claims, ClaimsTypeOK
  <2>. QED BY <2>2, <2>3
<1>6. CASE WakeDuplicate(c)
  <2>1. todo[c] # <<>>
    BY <1>6 DEF WakeDuplicate, Awake, WaitersOK
  <2>2. ClaimsTypeOK' /\ aborted' = aborted
    BY <1>6 DEF WakeDuplicate, claims, ClaimsTypeOK
  <2>3. Tail(todo[c]) \in Seq(Obs)
    BY <1>1, <2>1
  <2>4. LocalsOK'
    BY <1>6, <2>3 DEF WakeDuplicate, LocalsOK, PcStates
  <2>. QED BY <2>2, <2>4
<1>7. CASE WakeRetry(c)
  <2>1. LocalsOK'
    BY <1>7 DEF WakeRetry, LocalsOK, PcStates
  <2>2. ClaimsTypeOK' /\ aborted' = aborted
    BY <1>7 DEF WakeRetry, claims, ClaimsTypeOK
  <2>. QED BY <2>1, <2>2
<1>8. CASE Route(c)
  <2>1. LocalsOK'
    BY <1>8, ShortListTyped DEF Route, StoreInv, LocalsOK, PcStates
  <2>2. ClaimsTypeOK' /\ aborted' = aborted
    BY <1>8 DEF Route, claims, ClaimsTypeOK
  <2>. QED BY <2>1, <2>2
<1>9. CASE Commit(c) \/ Fail(c)
  <2>1. \E how \in {"failed", "done"} : End(c, how)
    BY <1>9 DEF Commit, Fail
  <2>2. \E how \in {"completed", "released"} : Settle(c, how)
    BY <1>9 DEF Commit, Fail
  <2>3. LocalsOK'
    BY <2>1, EndTyped DEF PcStates
  <2>4. ClaimsTypeOK'
    BY <2>2, SettleTyped DEF LocalsOK
  <2>. QED BY <1>9, <2>3, <2>4 DEF Commit, Fail
<1>10. CASE RouterAnswers(c)
  <2>1. LocalsOK'
    BY <1>10 DEF RouterAnswers, locals, LocalsOK, PcStates
  <2>2. ClaimsTypeOK' /\ aborted' = aborted
    BY <1>10 DEF RouterAnswers, claims, ClaimsTypeOK
  <2>. QED BY <2>1, <2>2
<1>11. CASE Abort(c)
  <2>1. LocalsOK' /\ ClaimsTypeOK'
    BY <1>11 DEF Abort, claims, locals, LocalsOK, ClaimsTypeOK
  <2>2. aborted' \subseteq Abortable
    BY <1>11 DEF Abort
  <2>. QED BY <2>1, <2>2
<1>12. CASE \E batch \in Batches[c] : Begin(c, batch)
  <2>1. PICK batch \in Batches[c] : Begin(c, batch)
    BY <1>12
  <2>2. batch \in Seq(Obs)
    BY BatchAssumption
  <2>3. LocalsOK'
    BY <2>1, <2>2, ShortListTyped DEF Begin, StoreInv, ClaimsTypeOK, LocalsOK, PcStates
  <2>4. ClaimsTypeOK' /\ aborted' = aborted
    BY <2>1 DEF Begin, claims, ClaimsTypeOK
  <2>. QED BY <2>3, <2>4
<1>. QED BY <1>2, <1>3, <1>4, <1>5, <1>6, <1>7, <1>8, <1>9, <1>10, <1>11, <1>12 DEF Moves
\* A step of one call leaves the others where they are.
LEMMA OthersStay ==
    ASSUME NEW c \in Calls, Moves(c) \/ (\E verdict, m : Persist(c, verdict, m)), LocalsOK
    PROVE  \A d \in Calls \ {c} : pc'[d] = pc[d] /\ todo'[d] = todo[d] /\ mine'[d] = mine[d]
  BY DEF Moves, SkipRecorded, SkipRepeated, Skip, Wait, Claim, WakeAborted, WakeDuplicate,
         WakeRetry, NothingToRoute, Route, Commit, RouterAnswers, Fail, Abort, Begin, End,
         Persist, locals, LocalsOK

LEMMA WaitersKept ==
    ASSUME LocalsOK, WaitersOK, NEW c \in Calls,
           Moves(c) \/ (\E verdict, m : Persist(c, verdict, m))
    PROVE  WaitersOK'
<1>1. pc'[c] = "waiting" => Wait(c) \/ Abort(c)
  BY DEF Moves, SkipRecorded, SkipRepeated, Skip, Wait, Claim, WakeAborted, WakeDuplicate,
         WakeRetry, NothingToRoute, Route, Commit, RouterAnswers, Fail, Abort, Begin, End,
         Persist, locals, LocalsOK
<1>2. Wait(c) => todo'[c] # <<>>
  BY DEF Wait, MustClaim
<1>3. Abort(c) => pc' = pc /\ todo' = todo
  BY DEF Abort, locals
<1>. QED BY <1>1, <1>2, <1>3, OthersStay DEF WaitersOK

\* Claims of one call's own, and only those, are settled or opened by it.
LEMMA OthersClaimsStay ==
    ASSUME ClaimsTypeOK, NEW c \in Calls, Moves(c)
    PROVE  \A d \in Calls \ {c} : claim'[d] = claim[d]
  BY DEF Moves, SkipRecorded, SkipRepeated, Skip, Wait, Claim, WakeAborted, WakeDuplicate,
         WakeRetry, NothingToRoute, Route, Commit, RouterAnswers, Fail, Abort, Begin, Settle,
         claims, ClaimsTypeOK

\* The claims of the call that moves are accounted for.
Accounted(c) ==
    \A o \in Obs :
        /\ claim[c][o] = "completed" => Recorded(o)
        /\ claim[c][o] = "open" /\ pc[c] # "failed"
             => Recorded(o) \/ \E i \in 1 .. Len(mine[c]) : mine[c][i] = o

LEMMA MovesAccounted ==
    ASSUME LedgerInv, NEW c \in Calls, Moves(c)
    PROVE  Accounted(c)'
<1>. USE DEF LedgerInv, CallsOK
<1>1. op' = op /\ Accounted(c)
  BY MovesKeepStore DEF store, ClaimsOK, Accounted
<1>2. CASE claim' = claim /\ mine'[c] = mine[c] /\ pc[c] # "failed"
  BY <1>1, <1>2 DEF Accounted, Recorded
<1>3. CASE Claim(c)
  <2>1. PICK o \in Obs : o = Head(todo[c])
    BY <1>3 DEF Claim, MustClaim, LocalsOK
  <2>2. mine[c] \in Seq(Obs) /\ mine'[c] = Append(mine[c], o)
    BY <1>3, <2>1 DEF Claim, LocalsOK
  <2>3. /\ Len(mine'[c]) = Len(mine[c]) + 1 /\ Len(mine[c]) \in Nat
        /\ mine'[c][Len(mine[c]) + 1] = o
        /\ \A i \in 1 .. Len(mine[c]) : mine'[c][i] = mine[c][i]
    BY <2>2
  <2>4. \A x \in Obs \ {o} : claim'[c][x] = claim[c][x]
    BY <1>3, <2>1 DEF Claim, ClaimsTypeOK
  <2>5. claim'[c][o] = "open"
    BY <1>3, <2>1 DEF Claim, ClaimsTypeOK
  <2>6. pc[c] # "failed"
    BY <1>3 DEF Claim, MustClaim
  <2>7. \E i \in 1 .. Len(mine'[c]) : mine'[c][i] = o
    BY <2>3
  <2>8. \A x : (\E i \in 1 .. Len(mine[c]) : mine[c][i] = x)
                 => \E i \in 1 .. Len(mine'[c]) : mine'[c][i] = x
    BY <2>3
  <2>. QED BY <1>1, <2>4, <2>5, <2>6, <2>7, <2>8 DEF Accounted, Recorded
<1>4. CASE WakeAborted(c)
  <2>1. claim' = claim /\ pc'[c] = "failed"
    BY <1>4 DEF WakeAborted, End, claims, LocalsOK
  <2>. QED BY <1>1, <2>1 DEF Accounted, Recorded
<1>5. CASE NothingToRoute(c)
  <2>1. claim' = claim /\ mine'[c] = mine[c] /\ pc[c] # "failed"
    BY <1>5 DEF NothingToRoute, End, claims, LocalsOK
  <2>. QED BY <2>1, <1>2
<1>6. CASE Commit(c)
  <2>1. pc[c] = "persisting" /\ mine[c] = <<>> /\ Settle(c, "completed")
    BY <1>6 DEF Commit
  <2>2. \A o \in Obs : claim[c][o] = "open" => Recorded(o)
    BY <2>1, <1>1 DEF Accounted
  <2>3. \A o \in Obs : claim'[c][o] = IF claim[c][o] = "open" THEN "completed" ELSE claim[c][o]
    BY <2>1 DEF Settle, Owned, ClaimsTypeOK
  <2>. QED BY <1>1, <2>2, <2>3 DEF Accounted, Recorded
<1>7. CASE Fail(c)
  <2>1. \A o \in Obs : claim'[c][o] = IF claim[c][o] = "open" THEN "released" ELSE claim[c][o]
    BY <1>7 DEF Fail, Settle, Owned, ClaimsTypeOK
  <2>. QED BY <1>1, <2>1 DEF Accounted, Recorded
<1>8. CASE SkipRecorded(c) \/ SkipRepeated(c) \/ Wait(c) \/ WakeDuplicate(c) \/ WakeRetry(c)
           \/ Route(c) \/ RouterAnswers(c) \/ Abort(c) \/ \E batch \in Batches[c] : Begin(c, batch)
  <2>1. claim' = claim /\ mine' = mine /\ pc[c] # "failed"
    BY <1>8 DEF SkipRecorded, SkipRepeated, Skip, Wait, MustClaim, WakeDuplicate, WakeRetry,
         Awake, Route, RouterAnswers, Abort, Begin, claims, locals
  <2>. QED BY <2>1, <1>2
<1>. QED BY <1>3, <1>4, <1>5, <1>6, <1>7, <1>8 DEF Moves

LEMMA MovesKeep ==
    ASSUME LedgerInv, NEW c \in Calls, Moves(c)
    PROVE  LedgerInv'
<1>1. StoreInv'
  BY MovesKeepStore DEF LedgerInv, StoreInv, StoreOK, EffectsOK, ReinforcedOK,
                        CapturedThisTurn, store
<1>2. CallsOK' /\ WaitersOK'
  BY MovesTyped, WaitersKept DEF LedgerInv, CallsOK
<1>3. ClaimsOK'
  <2>1. op' = op
    BY MovesKeepStore DEF store
  <2>2. \A d \in Calls \ {c} : Accounted(d)'
    BY <2>1, OthersStay, OthersClaimsStay DEF LedgerInv, CallsOK, ClaimsOK, Accounted, Recorded
  <2>. QED BY <2>2, MovesAccounted DEF ClaimsOK, Accounted
<1>. QED BY <1>1, <1>2, <1>3 DEF LedgerInv

LEMMA PersistKeeps ==
    ASSUME LedgerInv, NEW c \in Calls, NEW verdict \in Verdicts,
           NEW m \in Targets(verdict), Persist(c, verdict, m)
    PROVE  LedgerInv'
<1>. USE DEF LedgerInv, CallsOK
<1>1. PICK o \in Obs : o = Head(mine[c]) /\ Outcome(c, o, m)
  BY PersistCases DEF StoreInv
<1>2. StoreInv' /\ Recorded(o)' /\ \A x \in Obs : Recorded(x) => Recorded(x)'
  BY <1>1, OutcomeKeeps DEF Recorded
<1>3. /\ mine[c] \in Seq(Obs) /\ mine[c] # <<>>
      /\ mine'[c] = Tail(mine[c]) /\ pc[c] # "failed"
  BY DEF Persist, LocalsOK
<1>4. mine' \in [Calls -> Seq(Obs)]
  <2>1. Tail(mine[c]) \in Seq(Obs)
    BY <1>3
  <2>. QED BY <2>1 DEF Persist, LocalsOK
<1>5. LocalsOK' /\ ClaimsTypeOK' /\ aborted' = aborted /\ claim' = claim
  BY <1>4 DEF Persist, LocalsOK, PcStates, claims, ClaimsTypeOK
<1>6. WaitersOK'
  BY WaitersKept
<1>7. \A x \in Obs \ {o} : (\E i \in 1 .. Len(mine[c]) : mine[c][i] = x)
                            => \E i \in 1 .. Len(mine'[c]) : mine'[c][i] = x
  <2>1. TAKE x \in Obs \ {o}
  <2>2. HAVE \E i \in 1 .. Len(mine[c]) : mine[c][i] = x
  <2>3. PICK i \in 1 .. Len(mine[c]) : mine[c][i] = x
    BY <2>2
  <2>4. i # 1
    BY <1>1, <1>3, <2>3
  <2>5. i - 1 \in 1 .. Len(Tail(mine[c])) /\ Tail(mine[c])[i - 1] = x
    BY <1>3, <2>3, <2>4
  <2>. QED BY <1>3, <2>5
<1>8. Accounted(c)'
  BY <1>2, <1>3, <1>5, <1>7 DEF ClaimsOK, Accounted
<1>9. \A d \in Calls \ {c} : Accounted(d)'
  BY <1>2, <1>5, OthersStay DEF ClaimsOK, Accounted
<1>10. ClaimsOK'
  BY <1>8, <1>9 DEF ClaimsOK, Accounted
<1>. QED BY <1>2, <1>5, <1>6, <1>10
---------------------------------------------------------------------------
(* The invariant *)

LEMMA InitLedgerInv == Init => LedgerInv
<1>. SUFFICES ASSUME Init PROVE LedgerInv
  OBVIOUS
<1>1. StoreOK
  BY BoundsAssumption DEF Init, StoreOK
<1>2. EffectsOK
  BY DEF Init, EffectsOK
<1>3. ReinforcedOK
  BY DEF Init, ReinforcedOK
<1>4. 1 \in Ledgers
  BY BoundsAssumption DEF Ledgers
<1>5. LocalsOK
  <2>1. <<>> \in Seq(Obs)
    OBVIOUS
  <2>. QED BY <1>4, <2>1, NoGateTyped DEF Init, LocalsOK, PcStates
<1>6. ClaimsTypeOK
  BY <1>4 DEF Init, ClaimsTypeOK
<1>7. WaitersOK
  BY DEF Init, WaitersOK
<1>8. ClaimsOK
  BY DEF Init, ClaimsOK
<1>. QED BY <1>1, <1>2, <1>3, <1>5, <1>6, <1>7, <1>8 DEF Init, LedgerInv, StoreInv, CallsOK

\* Every step moves one call, persists for one, evicts the ledger or is the user's.
LEMMA NextCases ==
    ASSUME Next
    PROVE  \/ \E c \in Calls : Moves(c)
           \/ \E c \in Calls, verdict \in Verdicts : \E m \in Targets(verdict) :
                  Persist(c, verdict, m)
           \/ Evict
           \/ UserActs
<1>1. Starts => \E c \in Calls : Moves(c)
  BY DEF Starts, Moves
<1>2. \A c \in Calls : Proceed(c) => \/ Moves(c)
                                     \/ \E verdict \in Verdicts : \E m \in Targets(verdict) :
                                            Persist(c, verdict, m)
  BY DEF Proceed, Moves
<1>3. \A c \in Calls : Routed(c) \/ Abort(c) => Moves(c)
  BY DEF Routed, Moves
<1>. QED BY <1>1, <1>2, <1>3 DEF Next

LEMMA EvictKeeps == LedgerInv /\ Evict => LedgerInv'
<1>. SUFFICES ASSUME LedgerInv, Evict PROVE LedgerInv'
  OBVIOUS
<1>1. StoreInv'
  BY DEF Evict, LedgerInv, StoreInv, StoreOK, EffectsOK, ReinforcedOK, CapturedThisTurn, store
<1>2. ledger' \in Ledgers
  BY BoundsAssumption DEF Evict, LedgerInv, CallsOK, ClaimsTypeOK, Ledgers
<1>3. CallsOK'
  BY <1>2 DEF Evict, LedgerInv, CallsOK, ClaimsTypeOK, LocalsOK, locals
<1>4. WaitersOK' /\ ClaimsOK'
  BY DEF Evict, LedgerInv, WaitersOK, ClaimsOK, Recorded, locals, store
<1>. QED BY <1>1, <1>3, <1>4 DEF LedgerInv

LEMMA UserKeepsInv == LedgerInv /\ UserActs => LedgerInv'
<1>. SUFFICES ASSUME LedgerInv, UserActs PROVE LedgerInv'
  OBVIOUS
<1>1. StoreInv' /\ UNCHANGED <<op, claims, pc, locals, aborted>>
  BY UserKeeps DEF LedgerInv
<1>2. CallsOK'
  BY <1>1 DEF LedgerInv, CallsOK, ClaimsTypeOK, LocalsOK, locals, claims
<1>3. WaitersOK' /\ ClaimsOK'
  BY <1>1 DEF LedgerInv, WaitersOK, ClaimsOK, Recorded, locals, claims
<1>. QED BY <1>1, <1>2, <1>3 DEF LedgerInv

LEMMA NextKeeps == LedgerInv /\ [Next]_vars => LedgerInv'
<1>. SUFFICES ASSUME LedgerInv, [Next]_vars PROVE LedgerInv'
  OBVIOUS
<1>1. CASE Next
  BY <1>1, NextCases, MovesKeep, PersistKeeps, EvictKeeps, UserKeepsInv
<1>2. CASE UNCHANGED vars
  <2>1. UNCHANGED <<store, claims, pc, locals, aborted>>
    BY <1>2 DEF vars
  <2>2. StoreInv'
    BY <2>1 DEF LedgerInv, StoreInv, StoreOK, EffectsOK, ReinforcedOK, CapturedThisTurn, store
  <2>3. CallsOK' /\ WaitersOK' /\ ClaimsOK'
    BY <2>1 DEF LedgerInv, CallsOK, ClaimsTypeOK, LocalsOK, WaitersOK, ClaimsOK, Recorded,
                store, claims, locals
  <2>. QED BY <2>2, <2>3 DEF LedgerInv
<1>. QED BY <1>1, <1>2

\* The inductive invariant: the store changed for an observation only once it is
\* recorded, and every claim is for an observation that is recorded or has its call
\* at work on it.
THEOREM LedgerInvariant == Spec => []LedgerInv
<1>1. Init => LedgerInv
  BY InitLedgerInv
<1>2. LedgerInv /\ [Next]_vars => LedgerInv'
  BY NextKeeps
<1>. QED BY <1>1, <1>2, PTL DEF Spec

---------------------------------------------------------------------------
(* What routeAndPersist promises *)

\* Every table, claim and call keeps its type, whatever verdicts name.
THEOREM LedgerTypeCorrect == Spec => []TypeOK
<1>1. LedgerInv => TypeOK
  BY TypeOKParts DEF LedgerInv, StoreInv, CallsOK
<1>. QED BY <1>1, LedgerInvariant, PTL

\* For any number of channels, batches and evictions of the turn's ledger, an
\* observation changes the store at most once.
THEOREM ObservationChangesOnce == Spec => []ObservedOnce
<1>1. LedgerInv => ObservedOnce
  <2>. SUFFICES ASSUME LedgerInv, NEW o \in Obs PROVE effects[o] <= 1
    BY DEF ObservedOnce
  <2>1. effects[o] \in Nat /\ effects[o] <= IF op[o] = Unrecorded THEN 0 ELSE 1
    BY DEF LedgerInv, StoreInv, StoreOK, EffectsOK
  <2>. QED BY <2>1
<1>. QED BY <1>1, LedgerInvariant, PTL

\* A turn reinforces a memory at most once and never one it created itself.
THEOREM TurnReinforcesOnce == Spec => []ReinforcedOnce
<1>1. LedgerInv => ReinforcedOnce
  <2>. SUFFICES ASSUME LedgerInv, NEW m \in Ids
                PROVE  reinforced[m] <= IF Initial[m] = Absent THEN 0 ELSE 1
    BY DEF ReinforcedOnce
  <2>1. /\ reinforced[m] \in Nat
        /\ reinforced[m] <= IF Initial[m] # Absent /\ CapturedThisTurn(m) THEN 1 ELSE 0
    BY DEF LedgerInv, StoreInv, StoreOK, ReinforcedOK
  <2>. QED BY <2>1
<1>. QED BY <1>1, LedgerInvariant, PTL

\* A channel that is told "duplicate" is told so of something the database holds.
THEOREM DuplicatesAreOnDisk == Spec => []DuplicatesAreDurable
<1>1. LedgerInv => DuplicatesAreDurable
  BY DEF LedgerInv, ClaimsOK, Recorded, DuplicatesAreDurable
<1>. QED BY <1>1, LedgerInvariant, PTL

---------------------------------------------------------------------------
(* Steps *)

LEMMA LinkingBinds ==
    ASSUME NEW c \in Calls, NEW o, o = Head(mine[c]), NEW m, StoreOK,
           Linking(c, o, m), NEW n \in Ids, NEW k \in Ids, <<k, n>> \in linked' \ linked
    PROVE  n = m /\ Fresh(c, o, m)
<1>1. PICK targets \in SUBSET Ids :
        (\A t \in targets : t = m /\ Fresh(c, o, m)) /\ Create(o, targets)
  BY DEF Linking
<1>2. PICK f : linked' = linked \cup {<<f, t>> : t \in targets}
  BY <1>1 DEF Create
<1>3. PICK t \in targets : <<k, n>> = <<f, t>>
  BY <1>2
<1>. QED BY <1>1, <1>3

\* The target of a verdict is what the gate showed, or says the observation.
LEMMA FreshBinds ==
    ASSUME NEW c \in Calls, NEW o, o = Head(mine[c]), NEW m, Fresh(c, o, m)
    PROVE  gate[c][m] = row[m] \/ row[m].text = Head(mine[c])
  BY DEF Fresh, Exact

LEMMA PersistBinds ==
    ASSUME LedgerInv, NEW c \in Calls, NEW verdict \in Verdicts,
           NEW m \in Targets(verdict), Persist(c, verdict, m), NEW n \in Ids,
           reinforced'[n] # reinforced[n] \/ \E k \in Ids : <<k, n>> \in linked' \ linked
    PROVE  /\ pc'[c] = "persisting"
           /\ gate[c][n] = row[n] \/ row[n].text = Head(mine[c])
<1>1. PICK o \in Obs : o = Head(mine[c]) /\ Outcome(c, o, m)
  BY PersistCases DEF LedgerInv, StoreInv, CallsOK
<1>2. pc'[c] = "persisting"
  BY DEF Persist, LedgerInv, CallsOK, LocalsOK
<1>3. ~(UNCHANGED store)
  BY DEF store
<1>4. ~Drop(o)
  BY DEF Drop
<1>5. CASE m \in Ids /\ Fresh(c, o, m) /\ Reinforce(o, m)
  <2>1. n = m
    BY <1>5 DEF Reinforce, LedgerInv, StoreInv, StoreOK
  <2>. QED BY <1>1, <1>2, <1>5, <2>1, FreshBinds
<1>6. CASE Linking(c, o, m)
  <2>1. reinforced' = reinforced
    BY <1>6 DEF Linking, Create
  <2>2. PICK k \in Ids : <<k, n>> \in linked' \ linked
    BY <2>1
  <2>3. n = m /\ Fresh(c, o, m)
    BY <1>1, <1>6, <2>2, LinkingBinds DEF LedgerInv, StoreInv
  <2>. QED BY <1>1, <1>2, <2>3, FreshBinds
<1>. QED BY <1>1, <1>3, <1>4, <1>5, <1>6 DEF Outcome

\* A memory the user changed while the router was thinking is neither reinforced
\* nor linked to on the strength of the old verdict.
THEOREM VerdictsOnlyBindTheSeen == Spec => VerdictsBind
<1>1. LedgerInv /\ [Next]_vars =>
        [\A m \in Ids :
           (reinforced'[m] # reinforced[m] \/ \E n \in Ids : <<n, m>> \in linked' \ linked)
           => \E c \in Calls : /\ pc'[c] = "persisting"
                                /\ \/ gate[c][m] = row[m]
                                   \/ row[m].text = Head(mine[c])]_vars
  <2>. SUFFICES ASSUME LedgerInv, Next, NEW n \in Ids,
                       \/ reinforced'[n] # reinforced[n]
                       \/ \E k \in Ids : <<k, n>> \in linked' \ linked
                PROVE  \E c \in Calls : /\ pc'[c] = "persisting"
                                        /\ \/ gate[c][n] = row[n]
                                           \/ row[n].text = Head(mine[c])
    OBVIOUS
  <2>1. ~(UNCHANGED <<reinforced, linked>>)
    OBVIOUS
  <2>2. ~(\E c \in Calls : Moves(c))
    BY <2>1, MovesKeepStore DEF store
  <2>3. ~Evict
    BY <2>1 DEF Evict, store
  <2>4. ~UserActs
    BY <2>1, UserKeeps DEF LedgerInv
  <2>5. PICK c \in Calls, verdict \in Verdicts : \E m \in Targets(verdict) : Persist(c, verdict, m)
    BY <2>2, <2>3, <2>4, NextCases
  <2>6. PICK m \in Targets(verdict) : Persist(c, verdict, m)
    BY <2>5
  <2>7. pc'[c] = "persisting" /\ (gate[c][n] = row[n] \/ row[n].text = Head(mine[c]))
    BY <2>6, PersistBinds
  <2>. QED BY <2>7
<1>. QED BY <1>1, LedgerInvariant, PTL DEF Spec, VerdictsBind

LEMMA PersistProposesUnsuppressed ==
    ASSUME LedgerInv, NEW c \in Calls, NEW verdict \in Verdicts,
           NEW m \in Targets(verdict), Persist(c, verdict, m), NEW n \in Ids,
           row[n] = Absent, row'[n] # Absent
    PROVE  ~Suppressed(row'[n].text)
<1>1. PICK o \in Obs : o = Head(mine[c]) /\ Outcome(c, o, m)
  BY PersistCases DEF LedgerInv, StoreInv, CallsOK
<1>2. ~(UNCHANGED store) /\ ~Drop(o) /\ ~Reinforce(o, m)
  BY DEF store, Drop, Reinforce
<1>3. ~Suppressed(o) /\ Linking(c, o, m)
  BY <1>1, <1>2 DEF Outcome
<1>4. PICK targets \in SUBSET Ids : Create(o, targets)
  BY <1>3 DEF Linking
<1>5. PICK f \in Ids : row' = [row EXCEPT ![f] = [text |-> o, rank |-> Rank[o],
                                                 status |-> "candidate", version |-> 1]]
  BY <1>4 DEF Create
<1>6. n = f
  BY <1>5 DEF LedgerInv, StoreInv, StoreOK
<1>7. row'[n].text = o
  BY <1>5, <1>6 DEF LedgerInv, StoreInv, StoreOK
<1>. QED BY <1>3, <1>7

\* What the user dismissed or archived while a call waited or was being routed is
\* not proposed by it.
THEOREM SuppressedIsNotProposed == Spec => SuppressedStaysOut
<1>1. LedgerInv /\ [Next]_vars =>
        [\A m \in Ids :
           row[m] = Absent /\ row'[m] # Absent => ~Suppressed(row'[m].text)]_vars
  <2>. SUFFICES ASSUME LedgerInv, Next, NEW n \in Ids, row[n] = Absent, row'[n] # Absent
                PROVE  ~Suppressed(row'[n].text)
    OBVIOUS
  <2>1. ~(\E c \in Calls : Moves(c))
    BY MovesKeepStore DEF store
  <2>2. ~Evict
    BY DEF Evict, store
  <2>3. ~UserActs
    BY UserKeeps DEF LedgerInv
  <2>4. PICK c \in Calls, verdict \in Verdicts : \E m \in Targets(verdict) : Persist(c, verdict, m)
    BY <2>1, <2>2, <2>3, NextCases
  <2>. QED BY <2>4, PersistProposesUnsuppressed
<1>. QED BY <1>1, LedgerInvariant, PTL DEF Spec, SuppressedStaysOut
=============================================================================
