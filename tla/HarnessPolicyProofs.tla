------------------------ MODULE HarnessPolicyProofs ------------------------
(***************************************************************************)
(* Proofs about HarnessPolicy for any policies, turns, changes and upsets. *)
(* First the type invariant, and that the doubt about the processes an     *)
(* earlier policy left survives every save and crash.  Policy revisions    *)
(* only grow, from the store through the pending saves to the service;     *)
(* once a revision was requested over a live runtime, every state from     *)
(* that revision on carries the doubt.                                     *)
(* Then, that no call of a turn runs under a policy that was replaced.     *)
(* ScopeInv adds to the revisions who holds what: the reservation and the  *)
(* active turn, the turn whose policy is current, and the query each turn  *)
(* works in.  Every step but the admission of a turn, a request and a      *)
(* crash is Calm: nothing becomes current by it.  ShownInv then adds where *)
(* the acknowledged policy comes from, and proves that what a client is    *)
(* shown as effective is the mode the registered query works under.        *)
(***************************************************************************)
EXTENDS HarnessPolicy, TLAPS

---------------------------------------------------------------------------
\* The types

\* A pending write: a policy save, or a cancellation's (revision 0).
Write == [by : 0 .. ChangeStop, policy : Policies, rev : Revs \cup {0},
          uncertain : BOOLEAN, rejected : BOOLEAN]

ServiceTypes ==
    /\ stored \in Saved
    /\ saves \in Seq(Write)
    /\ svc \in Service \cup {NoService}

TurnTypes ==
    /\ turn \in [Turns -> TurnRecord]
    /\ scope \in Refs /\ owner \in Refs /\ launching \in Refs /\ active \in Refs
    /\ starting \in BOOLEAN

QueryTypes ==
    /\ query \in Refs /\ idle \in Refs
    /\ pump \in [Turns -> {"none", "live", "retired", "ended"}]
    /\ mode \in [Turns -> Policies \cup {NoPolicy}]

HandlerTypes ==
    /\ change \in [at : {"none", "saving", "stopping", "retiring", "closing"},
                   running : BOOLEAN, query : Refs]
    /\ stop \in [Stoppers -> [at : {"none", "saving", "joined", "draining"},
                              turn : Refs, query : Refs]]
    /\ question \in [turn : Refs, at : {"none", "asked", "pending", "closing"},
                     early : BOOLEAN]

HistoryTypes == tainted \in Revs \cup {0} /\ changes \in 0 .. MaxChanges

Types == ServiceTypes /\ TurnTypes /\ QueryTypes /\ HandlerTypes /\ HistoryTypes

LEMMA TypesImplyTypeOK == Types => TypeOK
  BY DEF Types, ServiceTypes, TurnTypes, QueryTypes, HandlerTypes, HistoryTypes, TypeOK

---------------------------------------------------------------------------
\* The invariant

\* Without a service there is no change, no turn past its admission and no query.
Alive ==
    svc = NoService =>
        /\ change.at = "none"
        /\ \A t \in Turns : turn[t].at \in {"unborn", "settling", "ended"} /\ pump[t] # "live"

\* Revisions grow from the store through the pending saves to the service.
Order ==
    /\ stored.rev <= changes + 1
    /\ svc = NoService => \A i \in 1 .. Len(saves) : saves[i].rev = 0
    /\ svc # NoService =>
          /\ stored.rev <= svc.rev /\ svc.rev <= changes + 1
          /\ \A i \in 1 .. Len(saves) : saves[i].rev <= svc.rev

\* From the tainted revision on, the store, the saves and the service all doubt.
Doubt ==
    tainted # 0 =>
        /\ stored.rev >= tainted => stored.uncertain
        /\ \A i \in 1 .. Len(saves) : saves[i].rev >= tainted => saves[i].uncertain
        /\ svc # NoService => svc.rev >= tainted /\ svc.uncertain
        /\ svc = NoService => stored.rev >= tainted

\* What is stored or saved in the service's revision is the policy the user asked for.
Agreement ==
    svc # NoService =>
        /\ stored.rev = svc.rev => stored.policy = svc.desired
        /\ \A i \in 1 .. Len(saves) : saves[i].rev = svc.rev => saves[i].policy = svc.desired

HarnessInv == Types /\ Alive /\ Order /\ Doubt /\ Agreement

LEMMA NoneIsARef == 0 \in Refs
  BY BoundAssumption DEF Refs

LEMMA InitHarnessInv == Init => HarnessInv
<1> SUFFICES ASSUME Init PROVE HarnessInv
  OBVIOUS
<1> USE PolicyAssumption, BoundAssumption
<1>1. ServiceTypes
  BY DEF Init, ServiceTypes, Saved, Revs
<1>2. TurnTypes
  <2>1. Unborn \in TurnRecord
    BY NoneIsARef DEF Unborn, TurnRecord, Phases
  <2> QED
    BY <2>1, NoneIsARef DEF Init, TurnTypes
<1>3. QueryTypes
  BY DEF Init, QueryTypes, Refs
<1>4. HandlerTypes
  BY DEF Init, HandlerTypes, NoChange, NoStop, NoQuestion, Refs
<1>5. HistoryTypes
  BY DEF Init, HistoryTypes
<1>6. Alive
  BY DEF Init, Alive, NoChange, Unborn
<1>7. Order /\ Doubt /\ Agreement
  BY DEF Init, Order, Doubt, Agreement
<1> QED
  BY <1>1, <1>2, <1>3, <1>4, <1>5, <1>6, <1>7 DEF HarnessInv, Types

---------------------------------------------------------------------------
\* Services

\* u is a service with the request and the doubt of v.
Same(u, v) ==
    /\ u \in Service
    /\ u.rev = v.rev /\ u.desired = v.desired /\ u.uncertain = v.uncertain

LEMMA NoServiceIsNone == NoService \notin Service
  BY BoundAssumption DEF NoService, Service, Revs

LEMMA ServiceChanges ==
    ASSUME NEW v \in Service, NEW t \in Refs, NEW runtime
    PROVE  /\ Same(v, v) /\ Same(Retired(v), v) /\ Same(Reconciled(v, runtime), v)
           /\ Same(Begun(v, t), v) /\ Same(Applied(v), v) /\ Same(Rejected(v), v)
           /\ Same(Finished(v, t), v)
<1>1. Same(v, v)
  BY DEF Same
<1>2. Same(Retired(v), v)
  BY NoneIsARef DEF Same, Service, Retired
<1>3. Same(Reconciled(v, runtime), v)
  BY <1>1, <1>2 DEF Reconciled
<1>4. Same(Begun(v, t), v)
  BY DEF Same, Service, Begun
<1>5. Same(Applied(v), v) /\ Same(Rejected(v), v)
  BY DEF Same, Service, Applied, Rejected
<1>6. Same(Finished(v, t), v)
  <2>1. Same([v EXCEPT !.turn = 0, !.blocked = TRUE], v)
    BY NoneIsARef DEF Same, Service
  <2> QED
    BY <1>1, <2>1 DEF Finished
<1> QED
  BY <1>1, <1>2, <1>3, <1>4, <1>5, <1>6

LEMMA SameIsTransitive ==
    ASSUME NEW u, NEW v, NEW w, Same(u, v), Same(v, w)
    PROVE  Same(u, w)
  BY DEF Same

LEMMA EnsuredIsAService ==
    ASSUME ServiceTypes
    PROVE  Ensured \in Service
  BY BoundAssumption DEF ServiceTypes, Ensured, Service, Saved, Refs

LEMMA ServiceNowIsSame ==
    ASSUME ServiceTypes, NEW q, NEW starter
    PROVE  Same(ServiceNow(q, starter), Ensured)
<1>1. Ensured \in Service
  BY EnsuredIsAService
<1>2. 0 \in Refs
  BY BoundAssumption DEF Refs
<1> QED
  BY <1>1, <1>2, ServiceChanges DEF ServiceNow

---------------------------------------------------------------------------
\* What a step may do to the service, the pending saves and the store

\* c holds writes that were pending, cancellations, and saves of v.
Drawn(c, v) ==
    /\ c \in Seq(Write)
    /\ \A i \in 1 .. Len(c) :
          \/ \E j \in 1 .. Len(saves) : c[i] = saves[j]
          \/ c[i].rev = 0
          \/ /\ v \in Service
             /\ c[i].rev = v.rev /\ c[i].policy = v.desired /\ c[i].uncertain = v.uncertain

StoreEffect ==
    \/ stored' = stored
    \/ \E j \in 1 .. Len(saves) :
          /\ saves[j].rev >= stored.rev
          /\ stored' = [policy |-> saves[j].policy, rev |-> saves[j].rev,
                        uncertain |-> saves[j].uncertain, rejected |-> saves[j].rejected]

\* Every step but a request and a crash: the revision and its doubt stay.
QuietEffect ==
    /\ svc' = svc \/ Same(svc', Ensured)
    /\ Drawn(saves', svc')
    /\ StoreEffect
    /\ tainted' = tainted /\ changes' = changes

LEMMA PendingAreDrawn ==
    ASSUME ServiceTypes, NEW v
    PROVE  Drawn(saves, v)
  BY DEF ServiceTypes, Drawn

LEMMA TailIsDrawn ==
    ASSUME ServiceTypes, NEW by, HeadIs(by), NEW v
    PROVE  Drawn(Tail(saves), v)
<1>1. saves \in Seq(Write) /\ saves # <<>>
  BY DEF ServiceTypes, HeadIs
<1>2. Tail(saves) \in Seq(Write) /\ Len(Tail(saves)) = Len(saves) - 1
      /\ \A i \in 1 .. Len(Tail(saves)) : Tail(saves)[i] = saves[i + 1]
  BY <1>1
<1>3. Len(saves) \in Nat
  BY <1>1
<1>4. \A i \in 1 .. Len(Tail(saves)) : i + 1 \in 1 .. Len(saves)
  BY <1>2, <1>3
<1> QED
  BY <1>2, <1>4 DEF Drawn

LEMMA AppendIsDrawn ==
    ASSUME NEW c, NEW v, Drawn(c, v), NEW w \in Write,
           \/ w.rev = 0
           \/ /\ v \in Service
              /\ w.rev = v.rev /\ w.policy = v.desired /\ w.uncertain = v.uncertain
    PROVE  Drawn(Append(c, w), v)
<1>1. c \in Seq(Write)
  BY DEF Drawn
<1>2. Append(c, w) \in Seq(Write) /\ Len(Append(c, w)) = Len(c) + 1
      /\ Append(c, w)[Len(c) + 1] = w
      /\ \A i \in 1 .. Len(c) : Append(c, w)[i] = c[i]
  BY <1>1
<1>3. \A i \in 1 .. Len(c) + 1 : i \in 1 .. Len(c) \/ i = Len(c) + 1
  BY <1>1
<1> QED
  BY <1>2, <1>3 DEF Drawn

LEMMA SaveIsDrawn ==
    ASSUME NEW c, NEW v \in Service, NEW by \in 0 .. ChangeStop, Drawn(c, v)
    PROVE  Drawn(Append(c, Save(v, by)), v)
<1>1. /\ Save(v, by) \in Write /\ Save(v, by).rev = v.rev
      /\ Save(v, by).policy = v.desired /\ Save(v, by).uncertain = v.uncertain
  BY DEF Save, Write, Service
<1> QED
  BY <1>1, AppendIsDrawn

LEMMA StopWriteIsDrawn ==
    ASSUME NEW c, NEW v, NEW who \in Stoppers, Drawn(c, v)
    PROVE  Drawn(Append(c, StopWrite(who)), v)
<1>1. who \in 0 .. ChangeStop
  BY BoundAssumption DEF Stoppers, UserStop, ChangeStop
<1>2. StopWrite(who) \in Write /\ StopWrite(who).rev = 0
  BY <1>1, PolicyAssumption DEF StopWrite, Write
<1> QED
  BY <1>2, AppendIsDrawn

LEMMA LandsHasItsEffect ==
    ASSUME ServiceTypes, NEW by, Lands(by)
    PROVE  StoreEffect /\ stored' \in Saved
<1>1. saves \in Seq(Write) /\ saves # <<>> /\ stored \in Saved
  BY DEF ServiceTypes, Lands, HeadIs
<1>2. 1 \in 1 .. Len(saves) /\ Head(saves) = saves[1] /\ Head(saves) \in Write
  BY <1>1
<1>3. stored.rev \in Revs /\ Head(saves).rev \in Revs \cup {0}
  BY <1>1, <1>2 DEF Saved, Write
<1>4. CASE Head(saves).rev < stored.rev
  BY <1>1, <1>4 DEF Lands, StoreEffect
<1>5. CASE ~(Head(saves).rev < stored.rev)
  <2>1. stored' = [policy |-> Head(saves).policy, rev |-> Head(saves).rev,
                   uncertain |-> Head(saves).uncertain, rejected |-> Head(saves).rejected]
    BY <1>5 DEF Lands
  <2>2. Head(saves).rev >= stored.rev /\ Head(saves).rev \in Revs
    BY <1>3, <1>5, BoundAssumption DEF Revs
  <2> QED
    BY <1>2, <2>1, <2>2 DEF StoreEffect, Saved, Write
<1> QED
  BY <1>4, <1>5

LEMMA WriteEnds ==
    ASSUME ServiceTypes, NEW by, Lands(by) \/ Breaks(by)
    PROVE  StoreEffect /\ stored' \in Saved /\ HeadIs(by)
<1>1. CASE Lands(by)
  BY <1>1, LandsHasItsEffect DEF Lands
<1>2. CASE Breaks(by)
  BY <1>2 DEF Breaks, StoreEffect, ServiceTypes
<1> QED
  BY <1>1, <1>2

---------------------------------------------------------------------------
\* The effect preserves revisions and doubts

LEMMA QuietKeepsOrder ==
    ASSUME ServiceTypes, ServiceTypes', HistoryTypes, Order, Doubt, QuietEffect
    PROVE  Order' /\ Doubt'
<1> USE DEF QuietEffect
<1>1. stored.rev \in Nat /\ stored'.rev \in Nat /\ tainted \in Nat /\ changes \in Nat
  BY BoundAssumption DEF ServiceTypes, HistoryTypes, Saved, Revs
<1>2. Ensured \in Service /\ Ensured.rev \in Nat /\ (svc # NoService => svc.rev \in Nat)
  BY EnsuredIsAService, BoundAssumption DEF ServiceTypes, Service, Revs
<1>3. \A i \in 1 .. Len(saves) : saves[i].rev \in Nat
  <2>1. \A i \in 1 .. Len(saves) : saves[i] \in Write
    BY DEF ServiceTypes
  <2> QED
    BY <2>1, BoundAssumption DEF Write, Revs
<1>4. svc = NoService => Ensured.rev = stored.rev /\ Ensured.uncertain = stored.uncertain
  BY DEF Ensured
<1>5. svc # NoService => Ensured = svc /\ svc' # NoService
  BY NoServiceIsNone DEF Ensured, Same
<1>6. svc' # NoService => svc'.rev = Ensured.rev /\ svc'.uncertain = Ensured.uncertain
                          /\ svc'.rev \in Nat /\ svc' \in Service
  BY <1>2, <1>5 DEF Same, ServiceTypes
<1>7. /\ Ensured.rev >= stored.rev /\ Ensured.rev <= changes + 1
      /\ \A i \in 1 .. Len(saves) : saves[i].rev <= Ensured.rev
  BY <1>1, <1>2, <1>3, <1>4, <1>5 DEF Order
<1>8. tainted # 0 => Ensured.rev >= tainted /\ Ensured.uncertain
  BY <1>1, <1>4, <1>5 DEF Doubt
<1>9. svc' = NoService => svc = NoService
  BY <1>5
<1>10. stored'.rev >= stored.rev /\ stored'.rev <= Ensured.rev
       /\ (svc = NoService => stored'.rev = stored.rev)
  <2>1. CASE stored' = stored
    BY <1>1, <1>2, <1>7, <2>1
  <2>2. CASE \E j \in 1 .. Len(saves) : saves[j].rev >= stored.rev /\ stored'.rev = saves[j].rev
    BY <1>1, <1>2, <1>3, <1>7, <2>2, <1>4
  <2> QED
    BY <2>1, <2>2 DEF StoreEffect
<1>11. tainted # 0 /\ stored'.rev >= tainted => stored'.uncertain
  BY DEF StoreEffect, Doubt
<1>12. \A i \in 1 .. Len(saves') :
          /\ saves'[i].rev <= Ensured.rev
          /\ svc' = NoService => saves'[i].rev = 0
          /\ tainted # 0 /\ saves'[i].rev >= tainted => saves'[i].uncertain
  <2> TAKE i \in 1 .. Len(saves')
  <2>1. CASE \E j \in 1 .. Len(saves) : saves'[i] = saves[j]
    BY <1>7, <1>9, <2>1 DEF Order, Doubt
  <2>2. CASE saves'[i].rev = 0
    BY <1>1, <1>2, <2>2
  <2>3. CASE svc' \in Service /\ saves'[i].rev = svc'.rev /\ saves'[i].uncertain = svc'.uncertain
    BY <1>2, <1>6, <1>8, <2>3, NoServiceIsNone
  <2> QED
    BY <2>1, <2>2, <2>3 DEF Drawn
<1>13. Order'
  BY <1>1, <1>2, <1>6, <1>7, <1>10, <1>12 DEF Order
<1>14. Doubt'
  BY <1>1, <1>2, <1>6, <1>8, <1>9, <1>10, <1>11, <1>12 DEF Doubt
<1> QED
  BY <1>13, <1>14

LEMMA QuietKeepsAgreement ==
    ASSUME ServiceTypes, ServiceTypes', Order, Agreement, QuietEffect
    PROVE  Agreement'
<1> USE DEF QuietEffect
<1>1. svc = NoService => Ensured.rev = stored.rev /\ Ensured.desired = stored.policy
  BY DEF Ensured
<1>2. svc # NoService => Ensured = svc
  BY DEF Ensured
<1>3. stored.rev \in Nat /\ stored.rev # 0
  BY BoundAssumption DEF ServiceTypes, Saved, Revs
<1>4. SUFFICES ASSUME svc' # NoService PROVE Agreement'
  BY DEF Agreement
<1>5. svc'.rev = Ensured.rev /\ svc'.desired = Ensured.desired /\ svc'.rev # 0
  BY <1>2, <1>4, BoundAssumption DEF Same, ServiceTypes, Service, Revs
<1>6. \A j \in 1 .. Len(saves) : saves[j].rev = Ensured.rev => saves[j].policy = Ensured.desired
  BY <1>1, <1>2, <1>3 DEF Order, Agreement
<1>7. stored'.rev = svc'.rev => stored'.policy = svc'.desired
  BY <1>1, <1>2, <1>5, <1>6 DEF StoreEffect, Agreement
<1>8. \A i \in 1 .. Len(saves') : saves'[i].rev = svc'.rev => saves'[i].policy = svc'.desired
  BY <1>5, <1>6 DEF Drawn
<1> QED
  BY <1>7, <1>8 DEF Agreement

---------------------------------------------------------------------------
\* Every step but a request and a crash has that effect

QuietStep == Types' /\ Alive' /\ QuietEffect

\* Whatever a step does for a turn, a query, a stop or a change, it is quiet if each
\* part keeps its types, and nothing comes alive without a service.
LEMMA QuietParts ==
    ASSUME Types,
           svc' = svc \/ Same(svc', Ensured), Drawn(saves', svc'),
           StoreEffect, stored' \in Saved, tainted' = tainted, changes' = changes,
           TurnTypes', QueryTypes', HandlerTypes',
           svc \in Service \/ svc' # NoService \/ Alive'
    PROVE  QuietStep
<1>1. QuietEffect
  BY DEF QuietEffect
<1>2. ServiceTypes'
  BY DEF Types, ServiceTypes, Drawn, Same
<1>3. HistoryTypes'
  BY DEF Types, HistoryTypes
<1>4. svc \in Service => svc' # NoService
  BY NoServiceIsNone DEF Same
<1>5. Alive'
  BY <1>4 DEF Alive
<1> QED
  BY <1>1, <1>2, <1>3, <1>5 DEF QuietStep, Types

LEMMA NothingSaved ==
    ASSUME Types, UNCHANGED <<stored, saves>>
    PROVE  Drawn(saves', svc') /\ StoreEffect /\ stored' \in Saved
  BY PendingAreDrawn DEF Types, ServiceTypes, StoreEffect

LEMMA SomethingSaved ==
    ASSUME Types, NEW by, Lands(by) \/ Breaks(by), saves' = Tail(saves)
    PROVE  Drawn(saves', svc') /\ StoreEffect /\ stored' \in Saved
  BY WriteEnds, TailIsDrawn DEF Types

\* What is busy has a service.
LEMMA BusyIsServed ==
    ASSUME Types, Alive, NEW t \in Turns,
           \/ turn[t].at \notin {"unborn", "settling", "ended"}
           \/ pump[t] = "live"
           \/ change.at # "none"
    PROVE  svc \in Service /\ svc # NoService /\ Ensured = svc
  BY NoServiceIsNone DEF Alive, Types, ServiceTypes, Ensured

LEMMA ServedIsEnsured ==
    ASSUME svc \in Service
    PROVE  Ensured = svc
  BY NoServiceIsNone DEF Ensured

LEMMA TurnMoves ==
    ASSUME TurnTypes, NEW t, NEW a \in Phases
    PROVE  [turn EXCEPT ![t].at = a] \in [Turns -> TurnRecord]
  BY DEF TurnTypes, TurnRecord

LEMMA TurnMovesIn ==
    ASSUME TurnTypes, NEW t, NEW a \in Phases, NEW q \in Refs
    PROVE  [turn EXCEPT ![t].at = a, ![t].query = q] \in [Turns -> TurnRecord]
<1>1. \A r \in TurnRecord : [r EXCEPT !.at = a, !.query = q] \in TurnRecord
  BY DEF TurnRecord
<1> QED
  BY <1>1 DEF TurnTypes

LEMMA TurnAdmitted ==
    ASSUME TurnTypes, NEW t, NEW r \in Revs, NEW p \in Policies
    PROVE  [turn EXCEPT ![t].at = "preparing", ![t].rev = r, ![t].policy = p]
              \in [Turns -> TurnRecord]
<1>1. \A u \in TurnRecord : [u EXCEPT !.at = "preparing", !.rev = r, !.policy = p] \in TurnRecord
  BY DEF TurnRecord, Phases
<1> QED
  BY <1>1 DEF TurnTypes

LEMMA SettlesTypes ==
    ASSUME TurnTypes, NEW t \in Turns, Settles(t)
    PROVE  owner' \in Refs /\ starting' \in BOOLEAN
  BY NoneIsARef DEF Settles, TurnTypes

\* The end of a turn's start.
LEMMA UnwindsEffect ==
    ASSUME TurnTypes, NEW t \in Turns, NEW v, Unwinds(t, v),
           v \in Service \/ v = NoService
    PROVE  /\ v \in Service => Same(svc', v)
           /\ v = NoService => svc' = v
           /\ turn' = [turn EXCEPT ![t].at = "ended"] /\ turn' \in [Turns -> TurnRecord]
           /\ scope' \in Refs /\ launching' \in Refs /\ owner' \in Refs
           /\ starting' \in BOOLEAN
<1>1. scope' \in Refs /\ launching' \in Refs /\ svc' \in {v, Finished(v, t)}
  BY NoneIsARef DEF Unwinds, TurnTypes
<1>2. turn' = [turn EXCEPT ![t].at = "ended"] /\ turn' \in [Turns -> TurnRecord]
  BY TurnMoves DEF Unwinds, Phases
<1>3. owner' \in Refs /\ starting' \in BOOLEAN
  BY SettlesTypes DEF Unwinds
<1>4. t \in Refs
  BY BoundAssumption DEF Turns, Refs
<1>5. v \in Service => Same(svc', v)
  BY <1>1, <1>4, ServiceChanges
<1>6. v = NoService => svc' = v
  BY <1>1 DEF Finished, CurrentIn
<1> QED
  BY <1>1, <1>2, <1>3, <1>5, <1>6

\* A start that fails: its scope is rejected, or it unwinds.
LEMMA FailsEffect ==
    ASSUME TurnTypes, NEW t \in Turns, NEW v \in Service, NEW chain,
           Drawn(chain, svc'), Fails(t, v, chain)
    PROVE  /\ Same(svc', v) /\ Drawn(saves', svc')
           /\ turn' \in [Turns -> TurnRecord]
           /\ scope' \in Refs /\ launching' \in Refs /\ owner' \in Refs
           /\ starting' \in BOOLEAN
<1>1. CASE CurrentIn(v, scope)
  <2>1. Same(Rejected(v), v) /\ Rejected(v) \in Service
    BY NoneIsARef, ServiceChanges DEF Same
  <2>2. t \in 0 .. ChangeStop
    BY BoundAssumption DEF Turns, ChangeStop
  <2>3. svc' = Rejected(v) /\ saves' = Append(chain, Save(Rejected(v), t))
        /\ turn' = [turn EXCEPT ![t].at = "failing"]
    BY <1>1 DEF Fails
  <2>4. turn' \in [Turns -> TurnRecord]
    BY <2>3, TurnMoves DEF Phases
  <2>5. Drawn(saves', svc')
    BY <2>1, <2>2, <2>3, SaveIsDrawn
  <2> QED
    BY <1>1, <2>1, <2>3, <2>4, <2>5 DEF Fails, TurnTypes
<1>2. CASE ~CurrentIn(v, scope)
  <2>1. Unwinds(t, v) /\ saves' = chain
    BY <1>2 DEF Fails
  <2> QED
    BY <2>1, UnwindsEffect
<1> QED
  BY <1>1, <1>2

LEMMA Retiring ==
    ASSUME QueryTypes, NEW q, Retire(q)
    PROVE  pump' \in [Turns -> {"none", "live", "retired", "ended"}]
  BY DEF QueryTypes, Retire

LEMMA Unregistering ==
    ASSUME QueryTypes, NEW q
    PROVE  Unregistered(q) \in Refs
  BY NoneIsARef DEF QueryTypes, Unregistered

---------------------------------------------------------------------------
\* The start of a turn

LEMMA SendIsQuiet ==
    ASSUME Types, Alive, NEW t \in Turns, Send(t)
    PROVE  QuietStep
<1>1. t \in Refs
  BY BoundAssumption DEF Turns, Refs
<1>2. UNCHANGED <<stored, saves, svc, tainted, changes>>
  BY DEF Send, bounds
<1>3. TurnTypes'
  BY <1>1, TurnMoves DEF Send, Types, TurnTypes, Phases
<1>4. QueryTypes' /\ HandlerTypes'
  BY DEF Send, native, Types, QueryTypes, HandlerTypes
<1>5. svc = NoService => Alive'
  BY DEF Send, native, Alive, Types, TurnTypes
<1> QED
  BY <1>2, <1>3, <1>4, <1>5, NothingSaved, QuietParts DEF Types, ServiceTypes

LEMMA BeginTurnIsQuiet ==
    ASSUME Types, Alive, NEW t \in Turns, BeginTurn(t)
    PROVE  QuietStep
<1> DEFINE v == ServiceNow(query, launching)
<1>1. Same(v, Ensured) /\ v \in Service
  BY ServiceNowIsSame DEF Same, Types
<1>2. UNCHANGED <<stored, saves, tainted, changes>>
  BY DEF BeginTurn, bounds
<1>3. QueryTypes' /\ HandlerTypes'
  BY DEF BeginTurn, native, Types, QueryTypes, HandlerTypes
<1>4. CASE Unwinds(t, svc) /\ active' = active
  <2>1. TurnTypes' /\ (svc \in Service => Same(svc', svc)) /\ (svc = NoService => svc' = svc)
    BY <1>4, UnwindsEffect DEF Types, TurnTypes, ServiceTypes
  <2>2. svc = NoService => Alive'
    BY <1>4 DEF BeginTurn, native, Unwinds, Alive, Types, TurnTypes
  <2> QED
    BY <1>2, <1>3, <2>1, <2>2, NothingSaved, ServedIsEnsured, QuietParts
    DEF Types, ServiceTypes
<1>5. CASE Unwinds(t, v) /\ active' = active
  <2>1. TurnTypes' /\ Same(svc', v)
    BY <1>1, <1>5, UnwindsEffect DEF Types, TurnTypes
  <2> QED
    BY <1>1, <1>2, <1>3, <2>1, NothingSaved, SameIsTransitive, NoServiceIsNone, QuietParts
    DEF Same
<1>6. CASE /\ svc' = Begun(v, t) /\ scope' = t /\ UNCHANGED <<active, owner, starting, launching>>
           /\ turn' = [turn EXCEPT ![t].at = "preparing", ![t].rev = v.rev,
                                   ![t].policy = v.desired]
  <2>1. t \in Refs
    BY BoundAssumption DEF Turns, Refs
  <2>2. Same(svc', Ensured)
    BY <1>1, <1>6, <2>1, ServiceChanges, SameIsTransitive
  <2>3. v.rev \in Revs /\ v.desired \in Policies
    BY <1>1 DEF Service
  <2>4. TurnTypes'
    BY <1>6, <2>1, <2>3, TurnAdmitted DEF Types, TurnTypes
  <2> QED
    BY <1>2, <1>3, <2>2, <2>4, NothingSaved, NoServiceIsNone, QuietParts DEF Same
<1> QED
  BY <1>4, <1>5, <1>6 DEF BeginTurn

LEMMA BootIsQuiet ==
    ASSUME Types, Alive, NEW t \in Turns, Boot(t)
    PROVE  QuietStep
<1>1. svc \in Service /\ Ensured = svc
  BY BusyIsServed DEF Boot
<1>2. UNCHANGED <<stored, saves, tainted, changes>> /\ QueryTypes' /\ HandlerTypes'
  BY DEF Boot, native, bounds, Types, QueryTypes, HandlerTypes
<1>3. t \in Refs
  BY BoundAssumption DEF Turns, Refs
<1>4. TurnTypes' /\ (svc' = svc \/ Same(svc', svc))
  <2>1. CASE Unwinds(t, svc) /\ active' = active
    BY <1>1, <2>1, UnwindsEffect DEF Types, TurnTypes
  <2>2. CASE /\ launching' = t /\ turn' = [turn EXCEPT ![t].at = "booting"]
             /\ UNCHANGED <<svc, scope, owner, starting, active>>
    BY <1>3, <2>2, TurnMoves DEF Types, TurnTypes, Phases
  <2> QED
    BY <2>1, <2>2 DEF Boot
<1> QED
  BY <1>1, <1>2, <1>4, NothingSaved, QuietParts

LEMMA AdmitIsQuiet ==
    ASSUME Types, Alive, NEW t \in Turns, Admit(t)
    PROVE  QuietStep
<1> DEFINE v == ServiceNow(query, launching)
<1>1. svc \in Service /\ Ensured = svc
  BY BusyIsServed DEF Admit
<1>2. Same(v, svc) /\ v \in Service
  BY <1>1, ServiceNowIsSame DEF Same, Types
<1>3. UNCHANGED <<stored, tainted, changes, active>> /\ QueryTypes' /\ HandlerTypes'
      /\ StoreEffect /\ stored' \in Saved
  BY DEF Admit, native, bounds, Types, QueryTypes, HandlerTypes, StoreEffect, ServiceTypes
<1>4. CASE Unwinds(t, svc) /\ saves' = saves
  <2>1. TurnTypes' /\ Same(svc', svc)
    BY <1>1, <1>3, <1>4, UnwindsEffect DEF Types, TurnTypes
  <2> QED
    BY <1>1, <1>3, <1>4, <2>1, PendingAreDrawn, QuietParts DEF Types
<1>5. CASE /\ svc' = v /\ saves' = Append(saves, Save(v, t))
           /\ turn' = [turn EXCEPT ![t].at = "recording"]
           /\ UNCHANGED <<scope, owner, starting, launching>>
  <2>1. TurnTypes'
    BY <1>3, <1>5, TurnMoves DEF Types, TurnTypes, Phases
  <2>2. Drawn(saves', svc')
    <3>1. t \in 0 .. ChangeStop
      BY BoundAssumption DEF Turns, ChangeStop
    <3>2. Drawn(saves, v)
      BY PendingAreDrawn DEF Types
    <3> QED
      BY <1>2, <1>5, <3>1, <3>2, SaveIsDrawn
  <2> QED
    BY <1>1, <1>2, <1>3, <1>5, <2>1, <2>2, QuietParts
<1>6. CASE Fails(t, v, saves)
  <2>1. Drawn(saves, svc')
    BY PendingAreDrawn DEF Types
  <2>2. Same(svc', v) /\ Drawn(saves', svc') /\ TurnTypes'
    BY <1>2, <1>3, <1>6, <2>1, FailsEffect DEF Types, TurnTypes
  <2> QED
    BY <1>1, <1>2, <1>3, <2>2, SameIsTransitive, QuietParts
<1> QED
  BY <1>4, <1>5, <1>6 DEF Admit

\* A turn past its admission has a service, which is all these steps start from.
LEMMA UnwindingIsQuiet ==
    ASSUME Types, svc \in Service, NEW t \in Turns, Unwinds(t, svc),
           active' \in Refs, QueryTypes', HandlerTypes',
           Drawn(saves', svc'), StoreEffect, stored' \in Saved,
           UNCHANGED <<tainted, changes>>
    PROVE  QuietStep
<1>1. TurnTypes' /\ Same(svc', svc)
  BY UnwindsEffect DEF Types, TurnTypes
<1> QED
  BY <1>1, ServedIsEnsured, QuietParts

LEMMA FailingIsQuiet ==
    ASSUME Types, svc \in Service, NEW t \in Turns, NEW chain, Drawn(chain, svc'),
           Fails(t, svc, chain), active' = active, QueryTypes', HandlerTypes',
           StoreEffect, stored' \in Saved, UNCHANGED <<tainted, changes>>
    PROVE  QuietStep
<1>1. TurnTypes' /\ Same(svc', svc) /\ Drawn(saves', svc')
  BY FailsEffect DEF Types, TurnTypes
<1> QED
  BY <1>1, ServedIsEnsured, QuietParts

LEMMA RecordedIsQuiet ==
    ASSUME Types, Alive, NEW t \in Turns, Recorded(t)
    PROVE  QuietStep
<1>1. svc \in Service /\ Ensured = svc
  BY BusyIsServed DEF Recorded
<1>2. Drawn(saves', svc') /\ StoreEffect /\ stored' \in Saved
      /\ UNCHANGED <<tainted, changes>>
  BY SomethingSaved DEF Recorded
<1>3. QueryTypes' /\ HandlerTypes'
  <2>1. pump' = pump \/ Retire(query)
    BY DEF Recorded
  <2> QED
    BY <2>1, Retiring DEF Recorded, Types, QueryTypes, HandlerTypes
<1>4. query \in Refs /\ t \in Refs
  BY BoundAssumption DEF Types, QueryTypes, Turns, Refs
<1>5. CASE Unwinds(t, svc) /\ active' = active
  BY <1>1, <1>2, <1>3, <1>5, UnwindingIsQuiet DEF Types, TurnTypes
<1>6. CASE /\ active' = t /\ launching' \in {0, launching} /\ UNCHANGED <<svc, scope, owner, starting>>
           /\ turn' = [turn EXCEPT ![t].at = "prompting", ![t].query = query]
  <2>1. TurnTypes'
    BY <1>4, <1>6, NoneIsARef, TurnMovesIn DEF Types, TurnTypes, Phases
  <2> QED
    BY <1>1, <1>2, <1>3, <1>6, <2>1, QuietParts
<1>7. CASE /\ UNCHANGED <<svc, scope, owner, starting, launching, active>>
           /\ turn' = [turn EXCEPT ![t].at = "draining", ![t].query = query]
  <2>1. TurnTypes'
    BY <1>4, <1>7, TurnMovesIn DEF Types, TurnTypes, Phases
  <2> QED
    BY <1>1, <1>2, <1>3, <1>7, <2>1, QuietParts
<1>8. CASE /\ UNCHANGED <<svc, scope, owner, starting, launching, active>>
           /\ turn' = [turn EXCEPT ![t].at = "spawning"]
  <2>1. TurnTypes'
    BY <1>8, TurnMoves DEF Types, TurnTypes, Phases
  <2> QED
    BY <1>1, <1>2, <1>3, <1>8, <2>1, QuietParts
<1> QED
  BY <1>5, <1>6, <1>7, <1>8 DEF Recorded, Registers

LEMMA RecordingFailsIsQuiet ==
    ASSUME Types, Alive, NEW t \in Turns, RecordingFails(t)
    PROVE  QuietStep
<1>1. svc \in Service
  BY BusyIsServed DEF RecordingFails
<1>2. Drawn(Tail(saves), svc') /\ StoreEffect /\ stored' \in Saved
  BY WriteEnds, TailIsDrawn DEF RecordingFails, Types
<1> QED
  BY <1>1, <1>2, FailingIsQuiet DEF RecordingFails, native, Types, QueryTypes, HandlerTypes

LEMMA OldQueryDrainedIsQuiet ==
    ASSUME Types, Alive, NEW t \in Turns, OldQueryDrained(t)
    PROVE  QuietStep
<1>1. svc \in Service
  BY BusyIsServed DEF OldQueryDrained
<1>2. Drawn(saves', svc') /\ StoreEffect /\ stored' \in Saved /\ UNCHANGED <<tainted, changes>>
  BY NothingSaved DEF OldQueryDrained, bounds
<1>3. QueryTypes' /\ HandlerTypes'
  BY Unregistering DEF OldQueryDrained, Types, QueryTypes, HandlerTypes
<1>4. CASE Reserved(t)
  <2>1. turn' = [turn EXCEPT ![t].at = "spawning"]
        /\ UNCHANGED <<svc, scope, owner, starting, launching, active>>
    BY <1>4 DEF OldQueryDrained
  <2>2. TurnTypes'
    BY <2>1, TurnMoves DEF Types, TurnTypes, Phases
  <2> QED
    BY <1>1, <1>2, <1>3, <2>1, <2>2, QuietParts
<1>5. CASE ~Reserved(t)
  BY <1>1, <1>2, <1>3, <1>5, UnwindingIsQuiet DEF OldQueryDrained, Types, TurnTypes
<1> QED
  BY <1>4, <1>5

LEMMA StartFailsIsQuiet ==
    ASSUME Types, Alive, NEW t \in Turns, StartFails(t)
    PROVE  QuietStep
<1>1. svc \in Service
  BY BusyIsServed DEF StartFails
<1>2. Drawn(saves, svc') /\ StoreEffect /\ stored' \in Saved
  BY PendingAreDrawn DEF StartFails, Types, ServiceTypes, StoreEffect
<1> QED
  BY <1>1, <1>2, FailingIsQuiet DEF StartFails, native, bounds, Types, QueryTypes, HandlerTypes

LEMMA SpawnedIsQuiet ==
    ASSUME Types, Alive, NEW t \in Turns, Spawned(t)
    PROVE  QuietStep
<1>1. svc \in Service
  BY BusyIsServed DEF Spawned
<1>2. Drawn(saves', svc') /\ StoreEffect /\ stored' \in Saved /\ UNCHANGED <<tainted, changes>>
  BY NothingSaved DEF Spawned, bounds
<1>3. t \in Refs
  BY BoundAssumption DEF Turns, Refs
<1>4. QueryTypes' /\ HandlerTypes'
  <2>1. turn[t].policy \in Policies \cup {NoPolicy}
    BY DEF Types, TurnTypes, TurnRecord
  <2> QED
    BY <1>3, <2>1 DEF Spawned, native, Types, QueryTypes, HandlerTypes
<1>5. CASE Unwinds(t, svc) /\ active' = active
  BY <1>1, <1>2, <1>4, <1>5, UnwindingIsQuiet DEF Types, TurnTypes
<1>6. CASE /\ active' = t /\ launching' \in {0, launching} /\ UNCHANGED <<svc, scope, owner, starting>>
           /\ turn' = [turn EXCEPT ![t].at = "prompting", ![t].query = t]
  <2>1. TurnTypes'
    BY <1>3, <1>6, NoneIsARef, TurnMovesIn DEF Types, TurnTypes, Phases
  <2> QED
    BY <1>1, <1>2, <1>4, <1>6, <2>1, QuietParts
<1> QED
  BY <1>5, <1>6 DEF Spawned, Registers

LEMMA RejectionSavedIsQuiet ==
    ASSUME Types, Alive, NEW t \in Turns, RejectionSaved(t)
    PROVE  QuietStep
<1>1. svc \in Service
  BY BusyIsServed DEF RejectionSaved
<1>2. Drawn(saves', svc') /\ StoreEffect /\ stored' \in Saved
  BY SomethingSaved DEF RejectionSaved
<1> QED
  BY <1>1, <1>2, UnwindingIsQuiet
  DEF RejectionSaved, native, Types, TurnTypes, QueryTypes, HandlerTypes

---------------------------------------------------------------------------
\* The prompt

LEMMA PromptFailsTypes ==
    ASSUME Types, NEW t \in Turns, PromptFails(t)
    PROVE  Unwinds(t, svc) /\ active' \in Refs /\ query' \in Refs
           /\ pump' \in [Turns -> {"none", "live", "retired", "ended"}]
  BY NoneIsARef, Unregistering, Retiring DEF PromptFails, Types, TurnTypes

LEMMA ModeTakenIsQuiet ==
    ASSUME Types, Alive, NEW t \in Turns, ModeTaken(t)
    PROVE  QuietStep
<1>1. svc \in Service /\ Ensured = svc
  BY BusyIsServed DEF ModeTaken
<1>2. StoreEffect /\ stored' \in Saved /\ UNCHANGED <<tainted, changes>> /\ HandlerTypes'
  BY DEF ModeTaken, bounds, StoreEffect, Types, ServiceTypes, HandlerTypes
<1>3. mode' \in [Turns -> Policies \cup {NoPolicy}] /\ idle' \in Refs
  <2>1. turn[t].policy \in Policies \cup {NoPolicy}
    BY DEF Types, TurnTypes, TurnRecord
  <2> QED
    BY <2>1 DEF ModeTaken, Types, QueryTypes
<1>4. CASE PolicyCurrent(t)
  <2>1. svc' = Applied(svc) /\ saves' = Append(saves, Save(Applied(svc), t))
        /\ turn' = [turn EXCEPT ![t].at = "applying"]
        /\ UNCHANGED <<owner, starting, launching, active, scope, query, pump>>
    BY <1>4 DEF ModeTaken, chat
  <2>2. TurnTypes' /\ QueryTypes'
    BY <1>3, <2>1, TurnMoves DEF Types, TurnTypes, QueryTypes, Phases
  <2>3. Same(svc', svc) /\ svc' \in Service
    BY <1>1, <2>1, NoneIsARef, ServiceChanges DEF Same
  <2>4. t \in 0 .. ChangeStop
    BY BoundAssumption DEF Turns, ChangeStop
  <2>5. Drawn(saves', svc')
    BY <2>1, <2>3, <2>4, PendingAreDrawn, SaveIsDrawn DEF Types
  <2> QED
    BY <1>1, <1>2, <2>2, <2>3, <2>5, QuietParts
<1>5. CASE ~PolicyCurrent(t)
  <2>1. PromptFails(t) /\ saves' = saves
    BY <1>5 DEF ModeTaken
  <2>2. Drawn(saves', svc')
    BY <2>1, PendingAreDrawn DEF Types
  <2>3. QueryTypes' /\ active' \in Refs /\ Unwinds(t, svc)
    BY <1>3, <2>1, PromptFailsTypes DEF QueryTypes
  <2> QED
    BY <1>1, <1>2, <2>2, <2>3, UnwindingIsQuiet
<1> QED
  BY <1>4, <1>5

LEMMA ModeRefusedIsQuiet ==
    ASSUME Types, Alive, NEW t \in Turns, ModeRefused(t)
    PROVE  QuietStep
<1>1. svc \in Service
  BY BusyIsServed DEF ModeRefused
<1>2. Drawn(saves', svc') /\ StoreEffect /\ stored' \in Saved /\ UNCHANGED <<tainted, changes>>
  BY NothingSaved DEF ModeRefused, bounds
<1>3. QueryTypes' /\ HandlerTypes' /\ active' \in Refs /\ Unwinds(t, svc)
  BY PromptFailsTypes DEF ModeRefused, Types, QueryTypes, HandlerTypes
<1> QED
  BY <1>1, <1>2, <1>3, UnwindingIsQuiet

LEMMA PromptedIsQuiet ==
    ASSUME Types, Alive, NEW t \in Turns, Prompted(t)
    PROVE  QuietStep
<1>1. svc \in Service
  BY BusyIsServed DEF Prompted
<1>2. Drawn(saves', svc') /\ StoreEffect /\ stored' \in Saved /\ UNCHANGED <<tainted, changes>>
  BY SomethingSaved DEF Prompted
<1>3. HandlerTypes' /\ mode' = mode /\ idle' = idle
  BY DEF Prompted, Types, HandlerTypes
<1>4. CASE PolicyCurrent(t)
  <2>1. turn' = [turn EXCEPT ![t].at = "running"] /\ Settles(t)
        /\ UNCHANGED <<svc, scope, launching, active, query, pump>>
    BY <1>4 DEF Prompted
  <2>2. TurnTypes' /\ QueryTypes'
    BY <1>3, <2>1, TurnMoves, SettlesTypes DEF Types, TurnTypes, QueryTypes, Phases
  <2> QED
    BY <1>1, <1>2, <1>3, <2>1, <2>2, QuietParts
<1>5. CASE ~PolicyCurrent(t)
  <2>1. PromptFails(t)
    BY <1>5 DEF Prompted
  <2>2. QueryTypes' /\ active' \in Refs /\ Unwinds(t, svc)
    BY <1>3, <2>1, PromptFailsTypes DEF Types, QueryTypes
  <2> QED
    BY <1>1, <1>2, <1>3, <2>2, UnwindingIsQuiet
<1> QED
  BY <1>4, <1>5

LEMMA ApplyingFailsIsQuiet ==
    ASSUME Types, Alive, NEW t \in Turns, ApplyingFails(t)
    PROVE  QuietStep
<1>1. svc \in Service
  BY BusyIsServed DEF ApplyingFails
<1>2. Drawn(saves', svc') /\ StoreEffect /\ stored' \in Saved /\ UNCHANGED <<tainted, changes>>
  BY SomethingSaved DEF ApplyingFails
<1>3. QueryTypes' /\ HandlerTypes' /\ active' \in Refs /\ Unwinds(t, svc)
  BY PromptFailsTypes DEF ApplyingFails, Types, QueryTypes, HandlerTypes
<1> QED
  BY <1>1, <1>2, <1>3, UnwindingIsQuiet

---------------------------------------------------------------------------
\* The end of a turn and of a query

LEMMA ReleasedTypes ==
    ASSUME HandlerTypes
    PROVE  Released \in [turn : Refs, at : {"none", "asked", "pending", "closing"},
                         early : BOOLEAN]
  BY NoneIsARef DEF HandlerTypes, Released, NoQuestion

LEMMA ActiveMoves ==
    ASSUME TurnTypes, NEW t
    PROVE  [turn EXCEPT ![t].at = IF @ = "running" THEN "ended" ELSE @]
              \in [Turns -> TurnRecord]
<1>1. \A r \in TurnRecord : [r EXCEPT !.at = IF @ = "running" THEN "ended" ELSE @] \in TurnRecord
  BY DEF TurnRecord, Phases
<1> QED
  BY <1>1 DEF TurnTypes

LEMMA ResultIsQuiet ==
    ASSUME Types, Alive, NEW t \in Turns, Result(t)
    PROVE  QuietStep
<1>1. svc \in Service /\ Ensured = svc
  BY BusyIsServed DEF Result
<1>2. Drawn(saves', svc') /\ StoreEffect /\ stored' \in Saved /\ UNCHANGED <<tainted, changes>>
  BY NothingSaved DEF Result, bounds
<1>3. Same(svc', svc)
  <2>1. active \in Refs /\ svc' \in {svc, Finished(svc, active)}
    BY DEF Types, TurnTypes, Result, ActiveEnds
  <2> QED
    BY <1>1, <2>1, ServiceChanges
<1>4. TurnTypes'
  BY NoneIsARef, ActiveMoves DEF Types, TurnTypes, Result, ActiveEnds
<1>5. QueryTypes' /\ HandlerTypes'
  BY ReleasedTypes DEF Types, Result, ActiveEnds, native, QueryTypes, HandlerTypes
<1> QED
  BY <1>1, <1>2, <1>3, <1>4, <1>5, QuietParts

LEMMA QueryEndsIsQuiet ==
    ASSUME Types, Alive, NEW q \in Turns, QueryEnds(q)
    PROVE  QuietStep
<1> DEFINE v == IF active = 0 \/ scope # active THEN svc ELSE Finished(svc, active)
<1>1. svc \in Service /\ Ensured = svc
  BY BusyIsServed DEF QueryEnds
<1>2. StoreEffect /\ stored' \in Saved /\ UNCHANGED <<tainted, changes>>
  BY DEF QueryEnds, bounds, StoreEffect, Types, ServiceTypes
<1>3. Same(v, svc) /\ Same(Retired(v), svc)
  <2>1. active \in Refs
    BY DEF Types, TurnTypes
  <2>2. Same(v, svc) /\ v \in Service
    BY <1>1, <2>1, ServiceChanges DEF Same
  <2>3. Same(Retired(v), v)
    BY <2>1, <2>2, ServiceChanges
  <2> QED
    BY <2>2, <2>3, SameIsTransitive
<1>4. Same(svc', svc) /\ Drawn(saves', svc')
  <2>1. CASE svc' = v /\ saves' = saves
    BY <1>3, <2>1, PendingAreDrawn DEF Types
  <2>2. CASE svc' = Retired(v) /\ saves' = Append(saves, Save(Retired(v), 0))
    <3>1. 0 \in 0 .. ChangeStop
      BY BoundAssumption DEF ChangeStop
    <3>2. Retired(v) \in Service /\ Drawn(saves, Retired(v))
      BY <1>3, PendingAreDrawn DEF Same, Types
    <3> QED
      BY <1>3, <2>2, <3>1, <3>2, SaveIsDrawn
  <2> QED
    BY <2>1, <2>2 DEF QueryEnds
<1>5. TurnTypes'
  BY NoneIsARef, ActiveMoves DEF Types, TurnTypes, QueryEnds
<1>6. QueryTypes' /\ HandlerTypes'
  BY NoneIsARef, ReleasedTypes DEF Types, QueryEnds, QueryTypes, HandlerTypes
<1> QED
  BY <1>1, <1>2, <1>4, <1>5, <1>6, QuietParts

LEMMA PumpDrainsIsQuiet ==
    ASSUME Types, Alive, NEW q \in Turns, PumpDrains(q)
    PROVE  QuietStep
<1>1. UNCHANGED <<stored, saves, svc, tainted, changes>>
  BY DEF PumpDrains, bounds
<1>2. TurnTypes' /\ QueryTypes' /\ HandlerTypes'
  BY DEF PumpDrains, chat, Types, TurnTypes, QueryTypes, HandlerTypes
<1>3. Alive'
  BY <1>1 DEF PumpDrains, Alive, Types, QueryTypes
<1> QED
  BY <1>1, <1>2, <1>3, NothingSaved, QuietParts

LEMMA IdleCloseIsQuiet ==
    ASSUME Types, Alive, IdleClose
    PROVE  QuietStep
<1>1. query \in Turns
  BY BoundAssumption DEF IdleClose, Types, QueryTypes, Turns, Refs
<1>2. svc \in Service
  BY <1>1, BusyIsServed DEF IdleClose
<1>3. UNCHANGED <<stored, saves, svc, tainted, changes>>
  BY DEF IdleClose, bounds
<1>4. TurnTypes' /\ QueryTypes' /\ HandlerTypes'
  BY Retiring DEF IdleClose, native, chat, Types, TurnTypes, QueryTypes, HandlerTypes
<1> QED
  BY <1>2, <1>3, <1>4, NothingSaved, QuietParts

LEMMA RetiringIfAbsent ==
    ASSUME Types, NEW q, RetiresIfAbsent(q)
    PROVE  Drawn(saves', svc') /\ (svc' = svc \/ Same(svc', Ensured))
<1>1. CASE UNCHANGED <<svc, saves>>
  BY <1>1, PendingAreDrawn DEF Types
<1>2. CASE svc' = Retired(Ensured) /\ saves' = Append(saves, Save(Retired(Ensured), 0))
  <2>1. Same(Retired(Ensured), Ensured) /\ Retired(Ensured) \in Service
    BY EnsuredIsAService, NoneIsARef, ServiceChanges DEF Same, Types
  <2>2. 0 \in 0 .. ChangeStop
    BY BoundAssumption DEF ChangeStop
  <2> QED
    BY <1>2, <2>1, <2>2, PendingAreDrawn, SaveIsDrawn DEF Types
<1> QED
  BY <1>1, <1>2 DEF RetiresIfAbsent

LEMMA IdleClosedIsQuiet ==
    ASSUME Types, Alive, IdleClosed
    PROVE  QuietStep
<1>1. StoreEffect /\ stored' \in Saved /\ UNCHANGED <<tainted, changes>>
  BY DEF IdleClosed, bounds, StoreEffect, Types, ServiceTypes
<1>2. TurnTypes' /\ QueryTypes' /\ HandlerTypes'
  BY NoneIsARef, Unregistering
  DEF IdleClosed, chat, Types, TurnTypes, QueryTypes, HandlerTypes
<1>3. Drawn(saves', svc') /\ (svc' = svc \/ Same(svc', Ensured))
  <2>1. CASE pump[idle] = "ended"
    BY <2>1, RetiringIfAbsent DEF IdleClosed
  <2>2. CASE UNCHANGED <<svc, saves>>
    BY <2>2, PendingAreDrawn DEF Types
  <2> QED
    BY <2>1, <2>2 DEF IdleClosed
<1>4. svc \in Service \/ svc' # NoService \/ Alive'
  BY DEF IdleClosed, Alive, Types, ServiceTypes
<1> QED
  BY <1>1, <1>2, <1>3, <1>4, QuietParts

---------------------------------------------------------------------------
\* Cancellations

LEMMA StopsEffect ==
    ASSUME Types, NEW who \in Stoppers, NEW chain, Drawn(chain, svc'), Stops(who, chain)
    PROVE  /\ svc' = svc \/ Same(svc', Ensured)
           /\ svc = NoService => svc' = svc
           /\ scope' \in Refs
           /\ turn' \in [Turns -> TurnRecord]
           /\ \A u \in Turns : turn'[u].at = turn[u].at
           /\ stop' \in [Stoppers ->
                 [at : {"none", "saving", "joined", "draining"}, turn : Refs, query : Refs]]
           /\ question' \in [turn : Refs, at : {"none", "asked", "pending", "closing"},
                             early : BOOLEAN]
           /\ Drawn(saves', svc')
<1> DEFINE victim == IF active # 0 /\ ~turn[active].cancelled THEN active ELSE owner
           halted == [turn EXCEPT ![victim].cancelled = TRUE,
                                  ![victim].aborted = @ \/ launching = victim]
<1>1. svc' = Finished(svc, scope) /\ scope' = 0
  BY DEF Stops
<1>2. svc \in Service => Same(svc', svc) /\ Ensured = svc
  BY <1>1, ServiceChanges, ServedIsEnsured DEF Types, TurnTypes
<1>3. svc = NoService => svc' = svc
  BY <1>1 DEF Finished, CurrentIn
<1>4. owner \in Refs /\ active \in Refs /\ victim \in Refs
  BY DEF Types, TurnTypes
<1>5. turn' = turn \/ turn' = halted
  BY DEF Stops
<1>6. halted \in [Turns -> TurnRecord] /\ \A u \in Turns : halted[u].at = turn[u].at
  <2>1. \A r \in TurnRecord, b \in BOOLEAN :
           /\ [r EXCEPT !.cancelled = TRUE, !.aborted = @ \/ b] \in TurnRecord
           /\ [r EXCEPT !.cancelled = TRUE, !.aborted = @ \/ b].at = r.at
    BY DEF TurnRecord
  <2>2. (launching = victim) \in BOOLEAN /\ turn \in [Turns -> TurnRecord]
    BY DEF Types, TurnTypes
  <2>3. halted \in [Turns -> TurnRecord]
    BY <2>1, <2>2
  <2>4. \A u \in Turns : halted[u].at = turn[u].at
    BY <2>1, <2>2
  <2> QED
    BY <2>3, <2>4
<1>7. stop' = stop
      \/ stop' = [stop EXCEPT ![who] = [at |-> "joined", turn |-> owner, query |-> 0]]
      \/ stop' = [stop EXCEPT ![who] = [at |-> "saving", turn |-> victim, query |-> 0]]
  BY DEF Stops
<1>8. stop' \in [Stoppers -> [at : {"none", "saving", "joined", "draining"},
                              turn : Refs, query : Refs]]
  BY <1>4, <1>7, NoneIsARef DEF Types, HandlerTypes
<1>9. question' = question \/ question' = [question EXCEPT !.at = "closing"]
  BY DEF Stops
<1>10. saves' = chain \/ saves' = Append(chain, StopWrite(who))
  BY DEF Stops
<1>11. Drawn(saves', svc')
  BY <1>10, StopWriteIsDrawn
<1>12. turn' \in [Turns -> TurnRecord] /\ \A u \in Turns : turn'[u].at = turn[u].at
  BY <1>5, <1>6 DEF Types, TurnTypes
<1>13. question' \in [turn : Refs, at : {"none", "asked", "pending", "closing"}, early : BOOLEAN]
  BY <1>9 DEF Types, HandlerTypes
<1> QED
  BY <1>1, <1>2, <1>3, <1>8, <1>11, <1>12, <1>13, NoneIsARef DEF Types, ServiceTypes

LEMMA UserStopsIsQuiet ==
    ASSUME Types, Alive, UserStops
    PROVE  QuietStep
<1>1. UserStop \in Stoppers /\ Drawn(saves, svc')
  BY PendingAreDrawn DEF Stoppers, Types
<1>2. StoreEffect /\ stored' \in Saved /\ UNCHANGED <<tainted, changes>>
  BY DEF UserStops, bounds, StoreEffect, Types, ServiceTypes
<1>3. Stops(UserStop, saves)
  BY DEF UserStops
<1>4. TurnTypes' /\ QueryTypes' /\ HandlerTypes'
  BY <1>1, <1>3, StopsEffect
  DEF UserStops, chat, native, Types, TurnTypes, QueryTypes, HandlerTypes
<1>5. svc = NoService => Alive'
  BY <1>1, <1>3, StopsEffect DEF UserStops, native, Alive
<1> QED
  BY <1>1, <1>2, <1>3, <1>4, <1>5, StopsEffect, QuietParts DEF Types, ServiceTypes

LEMMA InterruptedIsQuiet ==
    ASSUME Types, Alive, NEW who \in Stoppers, Interrupted(who)
    PROVE  QuietStep
<1> DEFINE t == stop[who].turn
<1>1. Drawn(saves', svc') /\ StoreEffect /\ stored' \in Saved /\ UNCHANGED <<svc, tainted, changes>>
  BY SomethingSaved DEF Interrupted
<1>2. turn' = [turn EXCEPT ![t].at = IF @ = "running" THEN "ended" ELSE @]
      /\ UNCHANGED <<scope, launching, query, mode, change, idle>>
  BY DEF Interrupted
<1>3. turn' \in [Turns -> TurnRecord]
  BY <1>2, ActiveMoves DEF Types, TurnTypes
<1>4. starting' \in BOOLEAN /\ owner' \in Refs /\ active' \in Refs
  BY NoneIsARef DEF Interrupted, Types, TurnTypes
<1>5. pump' = pump \/ Retire(query)
  BY DEF Interrupted
<1>6. TurnTypes' /\ QueryTypes'
  BY <1>2, <1>3, <1>4, <1>5, Retiring DEF Types, TurnTypes, QueryTypes
<1>7. stop' = [stop EXCEPT ![who] = [at |-> "draining", turn |-> 0, query |-> query]]
      \/ stop' = [stop EXCEPT ![who] = NoStop]
  BY DEF Interrupted
<1>8. stop' \in [Stoppers -> [at : {"none", "saving", "joined", "draining"},
                              turn : Refs, query : Refs]]
  BY <1>7, NoneIsARef DEF Types, QueryTypes, HandlerTypes, NoStop
<1>9. HandlerTypes'
  <2>1. question' = question \/ question' = NoQuestion
    BY DEF Interrupted
  <2>2. question' \in [turn : Refs, at : {"none", "asked", "pending", "closing"}, early : BOOLEAN]
    <3>1. NoQuestion \in [turn : Refs, at : {"none", "asked", "pending", "closing"}, early : BOOLEAN]
      BY NoneIsARef DEF NoQuestion
    <3> QED
      BY <2>1, <3>1 DEF Types, HandlerTypes
  <2> QED
    BY <1>2, <1>8, <2>2 DEF Types, HandlerTypes
<1>10. svc = NoService => Alive'
  <2>1. \A u \in Turns : turn'[u].at = turn[u].at \/ turn'[u].at = "ended"
    BY <1>2 DEF Types, TurnTypes
  <2>2. \A q \in Turns : pump'[q] = pump[q] \/ pump'[q] = "retired"
    BY <1>5 DEF Retire, Types, QueryTypes
  <2> QED
    BY <1>2, <2>1, <2>2 DEF Alive
<1> QED
  BY <1>1, <1>6, <1>9, <1>10, QuietParts DEF Types, ServiceTypes

LEMMA StopEndsIsQuiet ==
    ASSUME Types, Alive, NEW who \in Stoppers, StopEnds(who)
    PROVE  QuietStep
<1>1. UNCHANGED <<stored, saves, svc, tainted, changes>>
  BY DEF StopEnds, bounds
<1>2. TurnTypes' /\ QueryTypes'
  BY Unregistering DEF StopEnds, chat, Types, TurnTypes, QueryTypes
<1>3. HandlerTypes'
  BY NoneIsARef DEF StopEnds, NoStop, Types, HandlerTypes
<1>4. Alive'
  BY <1>1 DEF StopEnds, Alive
<1> QED
  BY <1>1, <1>2, <1>3, <1>4, NothingSaved, QuietParts

---------------------------------------------------------------------------
\* The rest of a policy change

LEMMA ChangeSavedIsQuiet ==
    ASSUME Types, Alive, ChangeSaved
    PROVE  QuietStep
<1>1. svc \in Service /\ Ensured = svc
  BY NoServiceIsNone, ServedIsEnsured DEF ChangeSaved, Alive, Types, ServiceTypes
<1>2. StoreEffect /\ stored' \in Saved /\ UNCHANGED <<tainted, changes>>
      /\ Drawn(Tail(saves), svc')
  BY WriteEnds, TailIsDrawn DEF ChangeSaved, Types
<1>3. change' = [change EXCEPT !.at = "stopping"] /\ UNCHANGED <<chat, native, idle>>
  BY DEF ChangeSaved
<1>4. change' \in [at : {"none", "saving", "stopping", "retiring", "closing"},
                   running : BOOLEAN, query : Refs]
  BY <1>3 DEF Types, HandlerTypes
<1>5. QueryTypes'
  BY <1>3 DEF native, Types, QueryTypes
<1>6. CASE Stops(ChangeStop, Tail(saves))
  <2>1. ChangeStop \in Stoppers
    BY DEF Stoppers
  <2>2. TurnTypes' /\ HandlerTypes'
    BY <1>2, <1>3, <1>4, <1>6, <2>1, StopsEffect DEF chat, Types, TurnTypes, HandlerTypes
  <2> QED
    BY <1>1, <1>2, <1>5, <1>6, <2>1, <2>2, StopsEffect, QuietParts
<1>7. CASE saves' = Tail(saves) /\ UNCHANGED <<svc, scope, turn, stop, question>>
  <2>1. TurnTypes' /\ HandlerTypes'
    BY <1>3, <1>4, <1>7 DEF chat, Types, TurnTypes, HandlerTypes
  <2> QED
    BY <1>1, <1>2, <1>5, <1>7, <2>1, QuietParts
<1> QED
  BY <1>6, <1>7 DEF ChangeSaved

LEMMA ClosesEffect ==
    ASSUME Types, svc \in Service, NEW q, Closes(q)
    PROVE  /\ svc' = svc \/ Same(svc', svc)
           /\ Drawn(saves', svc')
           /\ change' \in [at : {"none", "saving", "stopping", "retiring", "closing"},
                           running : BOOLEAN, query : Refs]
<1>1. svc' = svc \/ svc' = Retired(svc)
  BY DEF Closes
<1>2. Same(svc', svc) /\ svc' \in Service
  BY <1>1, NoneIsARef, ServiceChanges DEF Same
<1>3. saves' = Append(saves, Save(svc', Change)) /\ change' = [change EXCEPT !.at = "closing", !.query = 0]
  BY DEF Closes
<1>4. Change \in 0 .. ChangeStop
  BY BoundAssumption DEF Change, ChangeStop
<1>5. Drawn(saves', svc')
  BY <1>2, <1>3, <1>4, PendingAreDrawn, SaveIsDrawn DEF Types
<1>6. change' \in [at : {"none", "saving", "stopping", "retiring", "closing"},
                   running : BOOLEAN, query : Refs]
  BY <1>3, NoneIsARef DEF Types, HandlerTypes
<1> QED
  BY <1>2, <1>5, <1>6

LEMMA ChangeClosesIsQuiet ==
    ASSUME Types, Alive, ChangeCloses
    PROVE  QuietStep
<1>1. svc \in Service /\ Ensured = svc
  BY NoServiceIsNone, ServedIsEnsured DEF ChangeCloses, Alive, Types, ServiceTypes
<1>2. StoreEffect /\ stored' \in Saved /\ UNCHANGED <<tainted, changes>>
      /\ TurnTypes'
  BY DEF ChangeCloses, bounds, chat, StoreEffect, Types, ServiceTypes, TurnTypes
<1>3. CASE Closes(0) /\ UNCHANGED pump
  <2>1. QueryTypes' /\ HandlerTypes'
    BY <1>1, <1>3, ClosesEffect DEF ChangeCloses, Types, QueryTypes, HandlerTypes
  <2> QED
    BY <1>1, <1>2, <1>3, <2>1, ClosesEffect, QuietParts
<1>4. CASE Retire(query) /\ change' = [change EXCEPT !.at = "retiring", !.query = query]
           /\ UNCHANGED <<svc, saves>>
  <2>1. QueryTypes' /\ HandlerTypes'
    BY <1>4, Retiring DEF ChangeCloses, Types, QueryTypes, HandlerTypes
  <2>2. Drawn(saves', svc')
    BY <1>4, PendingAreDrawn DEF Types
  <2> QED
    BY <1>1, <1>2, <1>4, <2>1, <2>2, QuietParts
<1> QED
  BY <1>3, <1>4 DEF ChangeCloses

LEMMA ChangeRetiredIsQuiet ==
    ASSUME Types, Alive, ChangeRetired
    PROVE  QuietStep
<1>1. svc \in Service /\ Ensured = svc
  BY NoServiceIsNone, ServedIsEnsured DEF ChangeRetired, Alive, Types, ServiceTypes
<1>2. StoreEffect /\ stored' \in Saved /\ UNCHANGED <<tainted, changes>>
      /\ TurnTypes'
  BY DEF ChangeRetired, bounds, chat, StoreEffect, Types, ServiceTypes, TurnTypes
<1>3. Closes(Unregistered(change.query))
  BY DEF ChangeRetired
<1>4. QueryTypes' /\ HandlerTypes'
  BY <1>1, <1>3, ClosesEffect, Unregistering
  DEF ChangeRetired, Types, QueryTypes, HandlerTypes
<1> QED
  BY <1>1, <1>2, <1>3, <1>4, ClosesEffect, QuietParts

LEMMA NoChangeTypes ==
    NoChange \in [at : {"none", "saving", "stopping", "retiring", "closing"},
                  running : BOOLEAN, query : Refs]
  BY NoneIsARef DEF NoChange

LEMMA ChangeDoneIsQuiet ==
    ASSUME Types, Alive, ChangeDone
    PROVE  QuietStep
<1>1. Drawn(saves', svc') /\ StoreEffect /\ stored' \in Saved /\ UNCHANGED <<svc, tainted, changes>>
  BY SomethingSaved DEF ChangeDone
<1>2. TurnTypes' /\ QueryTypes' /\ HandlerTypes'
  BY NoChangeTypes DEF ChangeDone, chat, native, Types, TurnTypes, QueryTypes, HandlerTypes
<1>3. Alive'
  BY DEF ChangeDone, native, NoChange, Alive
<1> QED
  BY <1>1, <1>2, <1>3, QuietParts

LEMMA ChangeFailsIsQuiet ==
    ASSUME Types, Alive, ChangeFails
    PROVE  QuietStep
<1>1. UNCHANGED <<svc, tainted, changes>>
  BY DEF ChangeFails
<1>2. Drawn(saves', svc') /\ StoreEffect /\ stored' \in Saved
  BY SomethingSaved, NothingSaved DEF ChangeFails
<1>3. TurnTypes' /\ QueryTypes' /\ HandlerTypes'
  BY NoChangeTypes, ReleasedTypes
  DEF ChangeFails, chat, native, Types, TurnTypes, QueryTypes, HandlerTypes
<1>4. Alive'
  BY DEF ChangeFails, native, NoChange, Alive
<1> QED
  BY <1>1, <1>2, <1>3, <1>4, QuietParts

---------------------------------------------------------------------------
\* Approval questions and snapshots

\* A step that only moves the question.
LEMMA QuestionIsQuiet ==
    ASSUME Types, Alive,
           question' \in [turn : Refs, at : {"none", "asked", "pending", "closing"},
                          early : BOOLEAN],
           UNCHANGED <<stored, saves, svc, scope, turn, chat, native, change, stop, idle,
                       tainted, bounds>>
    PROVE  QuietStep
<1>1. TurnTypes' /\ QueryTypes' /\ HandlerTypes'
  BY DEF chat, native, Types, TurnTypes, QueryTypes, HandlerTypes
<1>2. Alive'
  BY DEF native, Alive
<1>3. UNCHANGED <<stored, saves, svc, tainted, changes>>
  BY DEF bounds
<1> QED
  BY <1>1, <1>2, <1>3, NothingSaved, QuietParts

LEMMA AskIsQuiet ==
    ASSUME Types, Alive, NEW t \in Turns, Ask(t)
    PROVE  QuietStep
<1>1. t \in Refs /\ (turn[t].at # "running") \in BOOLEAN
  BY BoundAssumption DEF Turns, Refs
<1> QED
  BY <1>1, QuestionIsQuiet DEF Ask

LEMMA PresentIsQuiet ==
    ASSUME Types, Alive, Present
    PROVE  QuietStep
<1>1. question' = NoQuestion \/ question' = [question EXCEPT !.at = "pending"]
  BY DEF Present
<1> QED
  BY <1>1, NoneIsARef, QuestionIsQuiet DEF Present, NoQuestion, Types, HandlerTypes

LEMMA AnswerIsQuiet ==
    ASSUME Types, Alive, Answer
    PROVE  QuietStep
  BY NoneIsARef, QuestionIsQuiet DEF Answer, NoQuestion

LEMMA LookIsQuiet ==
    ASSUME Types, Alive, Look
    PROVE  QuietStep
<1>1. svc \in Service /\ Ensured = svc
  BY NoServiceIsNone, ServedIsEnsured DEF Look, Types, ServiceTypes
<1>2. Same(svc', svc)
  BY <1>1, NoneIsARef, ServiceChanges DEF Look
<1>3. TurnTypes' /\ QueryTypes' /\ HandlerTypes' /\ UNCHANGED <<stored, saves, tainted, changes>>
  BY DEF Look, chat, native, bounds, Types, TurnTypes, QueryTypes, HandlerTypes
<1> QED
  BY <1>1, <1>2, <1>3, NothingSaved, QuietParts

LEMMA StateSavedIsQuiet ==
    ASSUME Types, Alive, StateSaved
    PROVE  QuietStep
<1>1. Drawn(saves', svc') /\ StoreEffect /\ stored' \in Saved /\ UNCHANGED <<svc, tainted, changes>>
  BY SomethingSaved DEF StateSaved
<1>2. TurnTypes' /\ QueryTypes' /\ HandlerTypes'
  BY DEF StateSaved, chat, native, Types, TurnTypes, QueryTypes, HandlerTypes
<1>3. Alive'
  BY DEF StateSaved, native, Alive
<1> QED
  BY <1>1, <1>2, <1>3, QuietParts

---------------------------------------------------------------------------
\* The request of a policy and a crash

\* A request takes the next revision, so an earlier doubt stays ahead of it, and a
\* new one starts there, where nothing stored or pending has come yet.
LEMMA SetPolicyPreserves ==
    ASSUME HarnessInv, NEW p \in Policies, SetPolicy(p)
    PROVE  HarnessInv'
<1> DEFINE v == ServiceNow(query, launching)
           running == NativeRuntime(query, launching) # "absent"
           next == Requested(v, p, running)
<1>1. Types /\ Alive /\ Order /\ Doubt /\ Agreement
  BY DEF HarnessInv
<1>2. Same(v, Ensured) /\ v \in Service /\ Ensured \in Service
  BY <1>1, ServiceNowIsSame, EnsuredIsAService DEF Same, Types
<1>3. changes \in Nat /\ changes < MaxChanges /\ changes' = changes + 1 /\ stored' = stored
      /\ svc' = next /\ saves' = Append(saves, Save(next, Change))
  BY <1>1, BoundAssumption DEF SetPolicy, Types, HistoryTypes
<1>4. v.rev \in Nat /\ v.rev <= changes + 1 /\ stored.rev <= v.rev /\ stored.rev \in Nat
      /\ \A i \in 1 .. Len(saves) : saves[i].rev <= v.rev
  <2>1. v.rev \in Nat /\ stored.rev \in Nat
    BY <1>1, <1>2, BoundAssumption DEF Service, Saved, Revs, Types, ServiceTypes
  <2>2. CASE svc = NoService
    BY <1>1, <1>2, <1>3, <2>1, <2>2 DEF Order, Ensured, Same
  <2>3. CASE svc # NoService
    BY <1>1, <1>2, <1>3, <2>1, <2>3 DEF Order, Ensured, Same
  <2> QED
    BY <2>2, <2>3
<1>5. tainted \in Nat /\ (tainted # 0 => tainted <= v.rev /\ v.uncertain)
  <2>1. tainted \in Nat
    BY <1>1, BoundAssumption DEF Types, HistoryTypes, Revs
  <2>2. CASE svc = NoService
    BY <1>1, <1>2, <1>4, <2>1, <2>2 DEF Doubt, Ensured, Same
  <2>3. CASE svc # NoService
    BY <1>1, <1>2, <1>4, <2>1, <2>3 DEF Doubt, Ensured, Same
  <2> QED
    BY <2>1, <2>2, <2>3
<1>6. running \in BOOLEAN
  OBVIOUS
<1>7. v.rev + 1 \in Revs
  BY <1>3, <1>4, BoundAssumption DEF Revs
<1>8. /\ next \in Service /\ next.rev = v.rev + 1 /\ next.desired = p
      /\ next.uncertain <=> v.uncertain \/ running
  BY <1>2, <1>6, <1>7 DEF Requested, Service
<1>9. Save(next, Change) \in Write /\ Save(next, Change).rev = next.rev
      /\ Save(next, Change).policy = next.desired
      /\ Save(next, Change).uncertain = next.uncertain
  <2>1. Change \in 0 .. ChangeStop
    BY BoundAssumption DEF Change, ChangeStop
  <2> QED
    BY <1>8, <2>1 DEF Save, Write, Service
<1>10. /\ saves' \in Seq(Write) /\ Len(saves') = Len(saves) + 1 /\ Len(saves) \in Nat
       /\ saves'[Len(saves) + 1] = Save(next, Change)
       /\ \A i \in 1 .. Len(saves) : saves'[i] = saves[i]
  BY <1>1, <1>3, <1>9 DEF Types, ServiceTypes
<1>11. \A i \in 1 .. Len(saves') : i \in 1 .. Len(saves) \/ i = Len(saves) + 1
  BY <1>10
<1>12. tainted' = IF running /\ tainted = 0 THEN next.rev ELSE tainted
  BY DEF SetPolicy
<1>13. \A i \in 1 .. Len(saves) : saves[i].rev \in Nat
  <2>1. \A i \in 1 .. Len(saves) : saves[i] \in Write
    BY <1>1 DEF Types, ServiceTypes
  <2> QED
    BY <2>1, BoundAssumption DEF Write, Revs
<1>14. Types'
  <2>1. ServiceTypes'
    BY <1>1, <1>3, <1>8, <1>10 DEF Types, ServiceTypes
  <2>2. TurnTypes'
    <3>1. [turn EXCEPT ![launching].aborted = TRUE] \in [Turns -> TurnRecord]
      BY <1>1 DEF Types, TurnTypes, TurnRecord
    <3> QED
      BY <1>1, <3>1 DEF SetPolicy, chat, Types, TurnTypes
  <2>3. QueryTypes'
    BY <1>1 DEF SetPolicy, native, Types, QueryTypes
  <2>4. HandlerTypes'
    BY <1>1, <1>6, NoneIsARef DEF SetPolicy, Types, HandlerTypes
  <2>5. HistoryTypes'
    BY <1>1, <1>3, <1>7, <1>8, <1>12, BoundAssumption DEF Types, HistoryTypes
  <2> QED
    BY <2>1, <2>2, <2>3, <2>4, <2>5 DEF Types
<1>15. svc' # NoService
  BY <1>3, <1>8, NoServiceIsNone
<1>16. Order'
  BY <1>3, <1>4, <1>8, <1>9, <1>10, <1>11, <1>13, <1>15 DEF Order
<1>17. Doubt'
  <2>1. CASE tainted # 0
    BY <1>1, <1>3, <1>4, <1>5, <1>8, <1>9, <1>10, <1>11, <1>12, <1>15, <2>1 DEF Doubt
  <2>2. CASE tainted = 0
    BY <1>3, <1>4, <1>8, <1>9, <1>10, <1>11, <1>12, <1>13, <1>15, <2>2 DEF Doubt
  <2> QED
    BY <2>1, <2>2
<1>18. Agreement'
  BY <1>3, <1>4, <1>8, <1>9, <1>10, <1>11, <1>13 DEF Agreement
<1> QED
  BY <1>14, <1>15, <1>16, <1>17, <1>18 DEF HarnessInv, Alive

\* A crash leaves the store alone, and forgets a doubt that was not stored yet.
LEMMA CrashPreserves ==
    ASSUME HarnessInv, Crash
    PROVE  HarnessInv'
<1>1. Types /\ Order /\ Doubt /\ Agreement
  BY DEF HarnessInv
<1>2. stored.rev \in Nat /\ tainted \in Nat /\ changes \in Nat
  BY <1>1, BoundAssumption DEF Types, ServiceTypes, HistoryTypes, Saved, Revs
<1>3. turn' \in [Turns -> TurnRecord]
      /\ \A t \in Turns : turn'[t].at \in {"unborn", "ended"}
  <2>1. Unborn \in TurnRecord /\ [Unborn EXCEPT !.at = "ended"] \in TurnRecord
    BY NoneIsARef DEF Unborn, TurnRecord, Phases
  <2> QED
    BY <2>1 DEF Crash, Unborn
<1>4. Types'
  <2>1. ServiceTypes'
    BY <1>1 DEF Crash, Types, ServiceTypes
  <2>2. TurnTypes' /\ QueryTypes'
    BY <1>3, NoneIsARef DEF Crash, TurnTypes, QueryTypes
  <2>3. HandlerTypes'
    BY NoneIsARef, NoChangeTypes DEF Crash, HandlerTypes, NoStop, NoQuestion
  <2>4. HistoryTypes'
    BY <1>1 DEF Crash, Types, HistoryTypes
  <2> QED
    BY <2>1, <2>2, <2>3, <2>4 DEF Types
<1>5. Alive'
  BY <1>3 DEF Crash, Alive, NoChange
<1>6. Order' /\ Doubt' /\ Agreement'
  BY <1>1, <1>2 DEF Crash, Order, Doubt, Agreement
<1> QED
  BY <1>4, <1>5, <1>6 DEF HarnessInv

---------------------------------------------------------------------------
\* The theorems

LEMMA NextPreservesHarness ==
    ASSUME HarnessInv, [Next]_vars
    PROVE  HarnessInv'
<1> USE DEF HarnessInv
<1>1. ASSUME QuietStep PROVE HarnessInv'
  BY <1>1, QuietKeepsOrder, QuietKeepsAgreement DEF QuietStep, Types
<1>2. ASSUME NEW t \in Turns, Advance(t) PROVE QuietStep
  BY <1>2, BeginTurnIsQuiet, BootIsQuiet, AdmitIsQuiet, RecordedIsQuiet, RecordingFailsIsQuiet,
     OldQueryDrainedIsQuiet, StartFailsIsQuiet, SpawnedIsQuiet, RejectionSavedIsQuiet,
     ModeTakenIsQuiet, ModeRefusedIsQuiet, PromptedIsQuiet, ApplyingFailsIsQuiet DEF Advance
<1>3. ASSUME NEW t \in Turns,
             Send(t) \/ Result(t) \/ QueryEnds(t) \/ PumpDrains(t) \/ Ask(t)
      PROVE  QuietStep
  BY <1>3, SendIsQuiet, ResultIsQuiet, QueryEndsIsQuiet, PumpDrainsIsQuiet, AskIsQuiet
<1>4. ASSUME NEW w \in Stoppers, Interrupted(w) \/ StopEnds(w) PROVE QuietStep
  BY <1>4, InterruptedIsQuiet, StopEndsIsQuiet
<1>5. ASSUME ChangeGoesOn PROVE QuietStep
  BY <1>5, ChangeSavedIsQuiet, ChangeClosesIsQuiet, ChangeRetiredIsQuiet, ChangeDoneIsQuiet,
     ChangeFailsIsQuiet DEF ChangeGoesOn
<1>6. ASSUME \/ IdleClose \/ IdleClosed \/ UserStops
             \/ Present \/ Answer \/ Look \/ StateSaved
      PROVE  QuietStep
  BY <1>6, IdleCloseIsQuiet, IdleClosedIsQuiet, UserStopsIsQuiet, PresentIsQuiet,
     AnswerIsQuiet, LookIsQuiet, StateSavedIsQuiet
<1>7. CASE UNCHANGED vars
  BY <1>7 DEF vars, Types, ServiceTypes, TurnTypes, QueryTypes, HandlerTypes, HistoryTypes,
              Alive, Order, Doubt, Agreement
<1> QED
  BY <1>1, <1>2, <1>3, <1>4, <1>5, <1>6, <1>7, SetPolicyPreserves, CrashPreserves DEF Next

\* The inductive invariant of the policies: revisions grow from the store to the service,
\* and from the first one requested over a live runtime on, every state doubts.
THEOREM HarnessInvariant == Spec => []HarnessInv
<1>1. Init => HarnessInv
  BY InitHarnessInv
<1>2. HarnessInv /\ [Next]_vars => HarnessInv'
  BY NextPreservesHarness
<1> QED
  BY <1>1, <1>2, PTL DEF Spec

\* The service, the store, the turns and the queries keep their types.
THEOREM HarnessTypeCorrect == Spec => []TypeOK
<1>1. HarnessInv => TypeOK
  BY TypesImplyTypeOK DEF HarnessInv
<1> QED
  BY <1>1, HarnessInvariant, PTL

\* A policy that was requested over a live runtime is never stored without the doubt
\* about the processes it left, for any number of turns, changes, failed saves and crashes.
THEOREM DoubtIsStored == Spec => []UncertaintyIsKept
<1>1. HarnessInv => UncertaintyIsKept
  BY DEF HarnessInv, Doubt, UncertaintyIsKept
<1> QED
  BY <1>1, HarnessInvariant, PTL

---------------------------------------------------------------------------
\* The invariant

Current(t) == CurrentIn(svc, t)

\* A turn that begins, up to its prompt, and one that has no query of its own yet.
Early   == {"settling", "preparing", "booting", "recording", "draining", "spawning"}
Opening == Early \cup {"prompting", "applying", "failing"}

\* A turn of the service's revision was admitted under the policy it asks for; the
\* service admits only what is stored, and nothing during a change.
Admissions ==
    /\ svc = NoService => \A t \in Turns : turn[t].rev = 0
    /\ svc # NoService => \A t \in Turns :
          turn[t].rev <= svc.rev /\ (turn[t].rev = svc.rev => turn[t].policy = svc.desired)
    /\ svc # NoService /\ ~svc.blocked => stored.rev = svc.rev
    /\ change.at # "none" => svc.blocked

\* A turn that starts holds the reservation, unless it was cancelled; no other turn
\* is active beside it, or runs beside the active one.
Reservation ==
    /\ starting => owner # 0
    /\ \A x \in Turns : turn[x].at \in Opening /\ ~turn[x].cancelled => owner = x /\ starting
    /\ active # 0 => turn[active].at \in Booted /\ owner \in {0, active}
    /\ \A x \in Turns : turn[x].at = "running" => active = x

\* A cancellation that is being recorded is of one turn, and keeps its reservation.
Saving(w) == stop[w].at = "saving"
Stopping ==
    /\ \A w \in Stoppers : Saving(w) =>
          /\ stop[w].turn \in Turns /\ turn[stop[w].turn].cancelled
          /\ turn[stop[w].turn].at \in Opening => owner = stop[w].turn /\ starting
    /\ \A w1, w2 \in Stoppers :
          Saving(w1) /\ Saving(w2) /\ stop[w1].turn = stop[w2].turn => w1 = w2

\* The current turn holds the scope; it was not cancelled, and is active once booted.
Currency ==
    \A x \in Turns : Current(x) =>
        /\ scope = x /\ ~turn[x].cancelled
        /\ turn[x].at \in Booted => active = x

\* Queries are launched once, by the turn of their number; a turn that prompts and is
\* not active lost its query, and the active one's is registered while it lives.
Queries ==
    /\ \A q \in Turns : pump[q] = "none" => query # q /\ \A u \in Turns : turn[u].query # q
    /\ \A q \in Turns : turn[q].at \in Early \cup {"unborn"} => pump[q] = "none"
    /\ \A u \in Turns : turn[u].at \in Booted => turn[u].query # 0
    /\ \A u \in Turns : turn[u].at \in {"prompting", "applying"} /\ u # active
                           => pump[turn[u].query] # "live"
    /\ active # 0 /\ pump[turn[active].query] = "live" => query = turn[active].query

\* The active turn's query lives while the turn is current, and works in the mode of the
\* policy the turn was admitted under once it took it.
Working ==
    active # 0 =>
        /\ Current(active) => pump[turn[active].query] = "live"
        /\ turn[active].at \in {"applying", "running"}
              => mode[turn[active].query] = turn[active].policy

ScopeInv == Admissions /\ Reservation /\ Stopping /\ Currency /\ Queries /\ Working

LEMMA InitScopeInv == Init => ScopeInv
<1> SUFFICES ASSUME Init PROVE ScopeInv
  OBVIOUS
<1>1. \A t \in Turns : turn[t] = Unborn /\ t # 0
  BY BoundAssumption DEF Init, Turns
<1>2. Admissions
  BY <1>1 DEF Init, Admissions, Unborn, NoChange
<1>3. Reservation
  BY <1>1 DEF Init, Reservation, Unborn, Opening, Early
<1>4. Stopping
  BY DEF Init, Stopping, Saving, NoStop
<1>5. Currency
  BY DEF Init, Currency, Current, CurrentIn
<1>6. Queries /\ Working
  BY <1>1 DEF Init, Queries, Working, Unborn, Booted
<1> QED
  BY <1>2, <1>3, <1>4, <1>5, <1>6 DEF ScopeInv

LEMMA ScopeInvGivesProperty ==
    ASSUME HarnessInv, ScopeInv
    PROVE  RunsUnderDesired
<1> SUFFICES ASSUME NEW t \in Turns, turn[t].at = "running", active = t, CurrentIn(svc, t)
             PROVE  /\ query = turn[t].query /\ pump[query] = "live"
                    /\ mode[query] = svc.desired
                    /\ stored.policy = svc.desired /\ stored.rev = svc.rev
  BY DEF RunsUnderDesired
<1>1. t # 0
  BY BoundAssumption DEF Turns
<1>2. query = turn[t].query /\ pump[query] = "live" /\ mode[query] = turn[t].policy
  BY <1>1 DEF ScopeInv, Queries, Working, Current
<1>3. svc # NoService /\ ~svc.blocked /\ turn[t].rev = svc.rev
  BY DEF CurrentIn
<1>4. turn[t].policy = svc.desired /\ stored.rev = svc.rev
  BY <1>3 DEF ScopeInv, Admissions
<1>5. stored.policy = svc.desired
  BY <1>3, <1>4 DEF HarnessInv, Agreement
<1> QED
  BY <1>2, <1>4, <1>5

---------------------------------------------------------------------------
\* Calm steps

\* No turn becomes current, and one that stays current keeps the scope.
Calm ==
    /\ \A x \in Turns : turn'[x].rev = turn[x].rev /\ turn'[x].policy = turn[x].policy
    /\ svc' # NoService /\ ~svc'.blocked => svc # NoService /\ ~svc.blocked
    /\ \A x \in Turns : Current(x)' => Current(x) /\ (scope = x => scope' = x)
    /\ change'.at # "none" => change.at # "none"

LEMMA CalmKeepsAdmissions ==
    ASSUME HarnessInv, HarnessInv', Admissions, QuietEffect, Calm
    PROVE  Admissions'
<1>1. stored.rev \in Nat /\ stored'.rev \in Nat /\ stored'.rev >= stored.rev
  <2>1. stored.rev \in Nat /\ stored'.rev \in Nat
    BY BoundAssumption DEF HarnessInv, Types, ServiceTypes, Saved, Revs
  <2> QED
    BY <2>1 DEF QuietEffect, StoreEffect
<1>2. svc # NoService => Ensured = svc /\ svc' # NoService
  BY NoServiceIsNone DEF Ensured, QuietEffect, Same
<1>3. svc = NoService => Ensured.rev = stored.rev
  BY DEF Ensured
<1>4. svc' = svc \/ (svc'.rev = Ensured.rev /\ svc'.desired = Ensured.desired)
  BY DEF QuietEffect, Same
<1>5. svc' # NoService => svc'.rev \in Nat /\ svc'.rev # 0 /\ stored'.rev <= svc'.rev
  BY BoundAssumption DEF HarnessInv, Order, Types, ServiceTypes, Service, Revs
<1>6. svc' = NoService => \A t \in Turns : turn'[t].rev = 0
  BY <1>2 DEF Admissions, Calm
<1>7. svc' # NoService => \A t \in Turns :
          turn'[t].rev <= svc'.rev /\ (turn'[t].rev = svc'.rev => turn'[t].policy = svc'.desired)
  <2>1. CASE svc = NoService
    BY <1>5, <2>1 DEF Admissions, Calm
  <2>2. CASE svc # NoService
    BY <1>2, <1>4, <2>2 DEF Admissions, Calm
  <2> QED
    BY <2>1, <2>2
<1>8. svc' # NoService /\ ~svc'.blocked => stored'.rev = svc'.rev
  BY <1>1, <1>2, <1>4, <1>5 DEF Admissions, Calm
<1>9. change'.at # "none" => svc'.blocked
  <2> SUFFICES ASSUME change'.at # "none" PROVE svc'.blocked
    OBVIOUS
  <2>1. svc.blocked /\ change.at # "none"
    BY DEF Calm, Admissions
  <2>2. svc # NoService
    BY <2>1 DEF HarnessInv, Alive
  <2> QED
    BY <1>2, <2>1, <2>2 DEF Calm
<1> QED
  BY <1>6, <1>7, <1>8, <1>9 DEF Admissions

\* What a handler may do to the service, with the scope it holds or drops.
CalmService ==
    /\ svc' # NoService /\ ~svc'.blocked =>
          svc # NoService /\ ~svc.blocked /\ svc'.turn = svc.turn /\ svc'.rev = svc.rev
    /\ scope' = scope \/ \A x \in Turns : scope = x => ~Current(x)'

LEMMA CalmServiceIsCalm ==
    ASSUME CalmService, change'.at # "none" => change.at # "none",
           \A x \in Turns : turn'[x].rev = turn[x].rev /\ turn'[x].policy = turn[x].policy
    PROVE  Calm
<1>1. \A x \in Turns : Current(x)' => Current(x)
  BY DEF CalmService, Current, CurrentIn
<1>2. \A x \in Turns : Current(x)' => (scope = x => scope' = x)
  BY DEF CalmService
<1> QED
  BY <1>1, <1>2 DEF Calm, CalmService

LEMMA TurnKeepsPolicy ==
    ASSUME TurnTypes, NEW t, NEW a,
           \/ turn' = turn \/ turn' = [turn EXCEPT ![t].at = a]
           \/ \E q : turn' = [turn EXCEPT ![t].at = a, ![t].query = q]
    PROVE  \A x \in Turns : turn'[x].rev = turn[x].rev /\ turn'[x].policy = turn[x].policy
<1>1. turn \in [Turns -> TurnRecord]
  BY DEF TurnTypes
<1>2. CASE turn' = [turn EXCEPT ![t].at = a]
  BY <1>1, <1>2 DEF TurnRecord
<1>3. ASSUME NEW q, turn' = [turn EXCEPT ![t].at = a, ![t].query = q]
      PROVE  \A x \in Turns : turn'[x].rev = turn[x].rev /\ turn'[x].policy = turn[x].policy
  BY <1>1, <1>3 DEF TurnRecord
<1> QED
  BY <1>2, <1>3

\* Ending the scope's turn leaves nothing current that held it.
LEMMA FinishingEnds ==
    ASSUME NEW t \in Turns, svc \in Service, turn'[t].rev = turn[t].rev,
           svc' = Finished(svc, t)
    PROVE  ~Current(t)'
<1>1. CASE CurrentIn(svc, t)
  <2>1. svc'.blocked
    BY <1>1 DEF Finished, Service
  <2> QED
    BY <2>1 DEF Current, CurrentIn
<1>2. CASE ~CurrentIn(svc, t)
  BY <1>2 DEF Finished, Current, CurrentIn
<1> QED
  BY <1>1, <1>2

LEMMA FinishedIsCalm ==
    ASSUME svc \in Service, NEW t
    PROVE  LET v == Finished(svc, t)
           IN  ~v.blocked => ~svc.blocked /\ v.turn = svc.turn /\ v.rev = svc.rev
  BY DEF Finished, Service

LEMMA UnwindsIsCalm ==
    ASSUME TurnTypes, svc \in Service \/ svc = NoService, NEW t \in Turns, Unwinds(t, svc)
    PROVE  CalmService
           /\ \A x \in Turns : turn'[x].rev = turn[x].rev /\ turn'[x].policy = turn[x].policy
<1>1. \A x \in Turns : turn'[x].rev = turn[x].rev /\ turn'[x].policy = turn[x].policy
  BY TurnKeepsPolicy DEF Unwinds
<1>2. CASE svc = NoService
  <2>1. svc' = NoService
    BY <1>2 DEF Unwinds, Finished, CurrentIn
  <2> QED
    BY <1>1, <2>1 DEF CalmService, Current, CurrentIn
<1>3. CASE svc \in Service /\ scope = t
  <2>1. svc' = Finished(svc, t) /\ ~Current(t)'
    BY <1>1, <1>3, FinishingEnds DEF Unwinds
  <2> QED
    BY <1>1, <1>3, <2>1, FinishedIsCalm, NoServiceIsNone DEF CalmService
<1>4. CASE scope # t
  BY <1>1, <1>4 DEF CalmService, Unwinds
<1> QED
  BY <1>1, <1>2, <1>3, <1>4

LEMMA FailsIsCalm ==
    ASSUME TurnTypes, svc \in Service, NEW t \in Turns, NEW v \in Service, NEW chain,
           Fails(t, v, chain), v = svc \/ v.blocked
    PROVE  CalmService
           /\ \A x \in Turns : turn'[x].rev = turn[x].rev /\ turn'[x].policy = turn[x].policy
<1>1. CASE CurrentIn(v, scope)
  <2>1. svc' = Rejected(v) /\ svc'.blocked /\ scope' = scope
    BY <1>1 DEF Fails, Rejected, Service
  <2>2. \A x \in Turns : turn'[x].rev = turn[x].rev /\ turn'[x].policy = turn[x].policy
    BY <1>1, TurnKeepsPolicy DEF Fails
  <2> QED
    BY <2>1, <2>2 DEF CalmService
<1>2. CASE ~CurrentIn(v, scope) /\ v = svc
  BY <1>2, UnwindsIsCalm DEF Fails
<1>3. CASE ~CurrentIn(v, scope) /\ v.blocked
  <2>1. Unwinds(t, v) /\ ~CurrentIn(v, t)
    BY <1>3 DEF Fails, CurrentIn
  <2>2. svc' = v
    BY <2>1 DEF Unwinds, Finished
  <2>3. \A x \in Turns : turn'[x].rev = turn[x].rev /\ turn'[x].policy = turn[x].policy
    BY <2>1, TurnKeepsPolicy DEF Unwinds
  <2> QED
    BY <1>3, <2>2, <2>3 DEF CalmService, Current, CurrentIn
<1> QED
  BY <1>1, <1>2, <1>3

\* The service a handler sees is the one it had, or one that admits nothing.
LEMMA ServiceNowIsBlocked ==
    ASSUME ServiceTypes, NEW q, NEW starter
    PROVE  LET v == ServiceNow(q, starter)
           IN  v \in Service /\ (v.blocked \/ (v = svc /\ svc # NoService))
<1>1. Ensured \in Service /\ (Ensured.blocked \/ (Ensured = svc /\ svc # NoService))
  BY EnsuredIsAService DEF Ensured
<1>2. Retired(Ensured).blocked
  BY <1>1 DEF Retired, Service
<1>3. ServiceNow(q, starter) \in Service
  BY ServiceNowIsSame DEF Same
<1> QED
  BY <1>1, <1>2, <1>3 DEF ServiceNow, Reconciled

\* A step that leaves the service and its scope alone, or blocks it.
LEMMA QuietServiceIsCalm ==
    ASSUME scope' = scope, svc' = svc \/ svc'.blocked
    PROVE  CalmService
  BY DEF CalmService

LEMMA BlockingServices ==
    ASSUME NEW v \in Service
    PROVE  Retired(v).blocked /\ Rejected(v).blocked
  BY DEF Service, Retired, Rejected

LEMMA AppliedIsCalm ==
    ASSUME svc \in Service, svc' = Applied(svc), scope' = scope
    PROVE  CalmService
<1>1. svc'.blocked = svc.blocked /\ svc'.turn = svc.turn /\ svc'.rev = svc.rev
  BY DEF Applied, Service
<1> QED
  BY <1>1, NoServiceIsNone DEF CalmService

LEMMA StartIsCalm ==
    ASSUME HarnessInv, NEW t \in Turns,
           \/ Send(t) \/ Boot(t) \/ Admit(t) \/ Recorded(t) \/ RecordingFails(t)
           \/ OldQueryDrained(t) \/ StartFails(t) \/ Spawned(t) \/ RejectionSaved(t)
    PROVE  Calm
<1>1. Types /\ Alive /\ TurnTypes /\ ServiceTypes
  BY DEF HarnessInv, Types
<1>2. svc \in Service \/ svc = NoService
  BY <1>1 DEF ServiceTypes
<1>3. change' = change
  BY DEF Send, Boot, Admit, Recorded, RecordingFails, OldQueryDrained, StartFails, Spawned,
         RejectionSaved
<1>4. CASE Unwinds(t, svc)
  BY <1>1, <1>2, <1>3, <1>4, UnwindsIsCalm, CalmServiceIsCalm
<1>5. ASSUME NEW chain, Fails(t, svc, chain), turn[t].at \notin {"unborn", "settling", "ended"}
      PROVE  Calm
  BY <1>1, <1>3, <1>5, BusyIsServed, FailsIsCalm, CalmServiceIsCalm
<1>6. ASSUME NEW a, NEW q, UNCHANGED <<svc, scope>>,
             \/ turn' = [turn EXCEPT ![t].at = a]
             \/ turn' = [turn EXCEPT ![t].at = a, ![t].query = q]
      PROVE  Calm
  BY <1>1, <1>3, <1>6, TurnKeepsPolicy, QuietServiceIsCalm, CalmServiceIsCalm
<1>7. CASE Send(t)
  BY <1>6, <1>7 DEF Send
<1>8. CASE Boot(t)
  BY <1>4, <1>6, <1>8 DEF Boot
<1>9. CASE Admit(t)
  <2> DEFINE v == ServiceNow(query, launching)
  <2>1. v \in Service /\ (v = svc \/ v.blocked) /\ svc \in Service
    BY <1>1, <1>9, BusyIsServed, ServiceNowIsBlocked DEF Admit
  <2>2. CASE Fails(t, v, saves)
    BY <1>1, <1>3, <2>1, <2>2, FailsIsCalm, CalmServiceIsCalm
  <2>3. CASE svc' = v /\ turn' = [turn EXCEPT ![t].at = "recording"] /\ scope' = scope
    <3>1. \A x \in Turns : turn'[x].rev = turn[x].rev /\ turn'[x].policy = turn[x].policy
      BY <1>1, <2>3, TurnKeepsPolicy
    <3> QED
      BY <1>3, <2>1, <2>3, <3>1, QuietServiceIsCalm, CalmServiceIsCalm
  <2> QED
    BY <1>4, <1>9, <2>2, <2>3 DEF Admit
<1>10. CASE Recorded(t)
  BY <1>4, <1>6, <1>10 DEF Recorded, Registers
<1>11. CASE RecordingFails(t)
  BY <1>5, <1>11 DEF RecordingFails
<1>12. CASE OldQueryDrained(t)
  BY <1>4, <1>6, <1>12 DEF OldQueryDrained
<1>13. CASE StartFails(t)
  BY <1>5, <1>13 DEF StartFails
<1>14. CASE Spawned(t)
  BY <1>4, <1>6, <1>14 DEF Spawned, Registers
<1>15. CASE RejectionSaved(t)
  BY <1>4, <1>15 DEF RejectionSaved
<1> QED
  BY <1>7, <1>8, <1>9, <1>10, <1>11, <1>12, <1>13, <1>14, <1>15

LEMMA PromptIsCalm ==
    ASSUME HarnessInv, NEW t \in Turns,
           ModeTaken(t) \/ ModeRefused(t) \/ Prompted(t) \/ ApplyingFails(t)
    PROVE  Calm
<1>1. Types /\ Alive /\ TurnTypes /\ ServiceTypes
  BY DEF HarnessInv, Types
<1>2. svc \in Service
  BY <1>1, BusyIsServed DEF ModeTaken, ModeRefused, Prompted, ApplyingFails
<1>3. change' = change
  BY DEF ModeTaken, ModeRefused, Prompted, ApplyingFails
<1>4. CASE PromptFails(t)
  BY <1>1, <1>2, <1>3, <1>4, UnwindsIsCalm, CalmServiceIsCalm DEF PromptFails
<1>5. CASE svc' = Applied(svc) /\ scope' = scope /\ turn' = [turn EXCEPT ![t].at = "applying"]
  BY <1>1, <1>2, <1>3, <1>5, TurnKeepsPolicy, AppliedIsCalm, CalmServiceIsCalm
<1>6. CASE UNCHANGED <<svc, scope>> /\ turn' = [turn EXCEPT ![t].at = "running"]
  BY <1>1, <1>3, <1>6, TurnKeepsPolicy, QuietServiceIsCalm, CalmServiceIsCalm
<1> QED
  BY <1>4, <1>5, <1>6 DEF ModeTaken, ModeRefused, Prompted, ApplyingFails

\* The active turn's end.
LEMMA EndIsCalm ==
    ASSUME HarnessInv, NEW t \in Turns, Result(t) \/ QueryEnds(t)
    PROVE  Calm
<1> DEFINE ended(x) == [turn EXCEPT ![x].at = IF @ = "running" THEN "ended" ELSE @]
<1>1. Types /\ Alive /\ TurnTypes /\ ServiceTypes
  BY DEF HarnessInv, Types
<1>2. svc \in Service /\ change' = change
  BY <1>1, BusyIsServed DEF Result, QueryEnds
<1>3. turn' = turn \/ turn' = ended(active)
  BY DEF Result, QueryEnds, ActiveEnds
<1>4. \A x \in Turns : turn'[x].rev = turn[x].rev /\ turn'[x].policy = turn[x].policy
  BY <1>1, <1>3 DEF TurnTypes, TurnRecord
<1>5. CASE /\ scope = active /\ active # 0 /\ scope' = 0
           /\ svc' = Finished(svc, active) \/ svc' = Retired(Finished(svc, active))
  <2>1. PICK a \in Turns : a = active
    BY <1>1, <1>5, BoundAssumption DEF TurnTypes, Refs, Turns
  <2>2. CASE svc' = Finished(svc, active)
    <3>1. ~Current(a)'
      BY <1>2, <1>4, <2>1, <2>2, FinishingEnds
    <3>2. \A x \in Turns : scope = x => ~Current(x)'
      BY <1>5, <2>1, <3>1
    <3> QED
      BY <1>2, <1>4, <1>5, <2>2, <3>2, FinishedIsCalm, NoServiceIsNone, CalmServiceIsCalm
      DEF CalmService
  <2>3. CASE svc' = Retired(Finished(svc, active))
    <3>1. Finished(svc, active) \in Service
      BY <1>1, <1>2, ServiceChanges DEF Same, TurnTypes
    <3>2. svc'.blocked
      BY <2>3, <3>1, BlockingServices
    <3> QED
      BY <1>2, <1>4, <3>2, CalmServiceIsCalm DEF CalmService, Current, CurrentIn
  <2> QED
    BY <1>5, <2>2, <2>3
<1>6. CASE scope' = scope /\ (svc' = svc \/ svc' = Retired(svc))
  BY <1>2, <1>4, <1>6, BlockingServices, QuietServiceIsCalm, CalmServiceIsCalm
<1>7. active # 0 \/ ~Result(t)
  BY BoundAssumption DEF Result, Turns
<1> QED
  BY <1>5, <1>6, <1>7 DEF Result, QueryEnds, ActiveEnds

\* cancel() ends the scope that is held, before it stops anything.
LEMMA StopsIsCalm ==
    ASSUME HarnessInv, NEW who, NEW chain, Stops(who, chain)
    PROVE  CalmService
           /\ \A x \in Turns : turn'[x].rev = turn[x].rev /\ turn'[x].policy = turn[x].policy
<1> DEFINE victim == IF active # 0 /\ ~turn[active].cancelled THEN active ELSE owner
           halted == [turn EXCEPT ![victim].cancelled = TRUE,
                                  ![victim].aborted = @ \/ launching = victim]
<1>1. TurnTypes /\ svc' = Finished(svc, scope) /\ scope' = 0 /\ (turn' = turn \/ turn' = halted)
  BY DEF HarnessInv, Types, Stops
<1>2. \A x \in Turns : turn'[x].rev = turn[x].rev /\ turn'[x].policy = turn[x].policy
  BY <1>1 DEF TurnTypes, TurnRecord
<1>3. CASE svc = NoService
  BY <1>1, <1>2, <1>3 DEF Finished, Current, CurrentIn, CalmService
<1>4. CASE svc \in Service
  <2>1. \A x \in Turns : scope = x => ~Current(x)'
    BY <1>1, <1>2, <1>4, FinishingEnds
  <2> QED
    BY <1>1, <1>2, <1>4, <2>1, FinishedIsCalm, NoServiceIsNone DEF CalmService
<1> QED
  BY <1>3, <1>4 DEF HarnessInv, Types, ServiceTypes

LEMMA StoppingIsCalm ==
    ASSUME HarnessInv, UserStops \/ ChangeSaved
    PROVE  Calm
<1>1. change'.at # "none" => change.at # "none"
  BY DEF UserStops, ChangeSaved
<1>2. CASE \E who, chain : Stops(who, chain)
  BY <1>1, <1>2, StopsIsCalm, CalmServiceIsCalm
<1>3. CASE UNCHANGED <<svc, scope, turn>>
  BY <1>1, <1>3, QuietServiceIsCalm, CalmServiceIsCalm
<1> QED
  BY <1>2, <1>3 DEF UserStops, ChangeSaved

LEMMA InterruptedIsCalm ==
    ASSUME HarnessInv, NEW w \in Stoppers, Interrupted(w)
    PROVE  Calm
<1> DEFINE t == stop[w].turn
<1>1. UNCHANGED <<svc, scope, change>>
  BY DEF Interrupted
<1>2. turn' = [turn EXCEPT ![t].at = IF @ = "running" THEN "ended" ELSE @]
  BY DEF Interrupted
<1>3. \A x \in Turns : turn'[x].rev = turn[x].rev /\ turn'[x].policy = turn[x].policy
  BY <1>2 DEF HarnessInv, Types, TurnTypes, TurnRecord
<1> QED
  BY <1>1, <1>3, QuietServiceIsCalm, CalmServiceIsCalm

LEMMA RestIsCalm ==
    ASSUME HarnessInv,
           \/ \E t \in Turns : PumpDrains(t) \/ Ask(t)
           \/ IdleClose \/ IdleClosed \/ \E w \in Stoppers : StopEnds(w)
           \/ ChangeCloses \/ ChangeRetired \/ ChangeDone \/ ChangeFails
           \/ Present \/ Answer \/ Look \/ StateSaved
    PROVE  Calm
<1>1. turn' = turn /\ scope' = scope
  BY DEF PumpDrains, Ask, IdleClose, IdleClosed, StopEnds, ChangeCloses, ChangeRetired,
         ChangeDone, ChangeFails, Present, Answer, Look, StateSaved
<1>2. change'.at # "none" => change.at # "none"
  BY DEF PumpDrains, Ask, IdleClose, IdleClosed, StopEnds, ChangeCloses, ChangeRetired,
         ChangeDone, ChangeFails, Present, Answer, Look, StateSaved, NoChange
<1>3. svc' = svc \/ svc' = Retired(svc) \/ svc' = Retired(Ensured)
  BY DEF PumpDrains, Ask, IdleClose, IdleClosed, StopEnds, ChangeCloses, ChangeRetired,
         ChangeDone, ChangeFails, Present, Answer, Look, StateSaved, Closes, RetiresIfAbsent
<1>4. Retired(Ensured).blocked
  BY EnsuredIsAService, BlockingServices DEF HarnessInv, Types
<1>5. svc \in Service => Retired(svc).blocked
  BY BlockingServices
<1>6. svc = NoService /\ svc' = Retired(svc) => svc' = NoService
  BY DEF Retired, NoService
<1> QED
  BY <1>1, <1>2, <1>3, <1>4, <1>5, <1>6, QuietServiceIsCalm, CalmServiceIsCalm
  DEF HarnessInv, Types, ServiceTypes

---------------------------------------------------------------------------
\* What calm steps do to the turns and the queries

Holds == Reservation /\ Stopping /\ Currency /\ Queries /\ Working

\* Queries only end; the active turn's is not taken from it while it lives.
QueriesEnd ==
    /\ \A q \in Turns : /\ pump'[q] = "none" <=> pump[q] = "none"
                        /\ pump'[q] = "live" => pump[q] = "live"
    /\ query' = query \/ (query' = 0 /\ (active' # 0 => pump'[query] # "live"))
    /\ \A x \in Turns : active' = x /\ Current(x)' /\ pump[turn[x].query] = "live"
                           => pump'[turn[x].query] = "live"
    /\ active' # 0 => mode' = mode

\* Cancellations only end.
StopsEnd == \A w \in Stoppers : Saving(w)' => Saving(w) /\ stop'[w].turn = stop[w].turn

LEMMA TurnsAreRefs == Turns \subseteq Refs /\ 0 \notin Turns /\ \A r \in Refs : r # 0 => r \in Turns
  BY BoundAssumption DEF Turns, Refs

LEMMA QueriesEndKeeps ==
    ASSUME HarnessInv, ScopeInv, Calm, QueriesEnd, StopsEnd,
           UNCHANGED <<turn, owner, starting, active>>
    PROVE  Holds'
<1>1. Reservation' /\ Stopping'
  BY DEF ScopeInv, Reservation, Stopping, StopsEnd, Saving
<1>2. Currency'
  BY DEF ScopeInv, Currency, Calm
<1>3. active # 0 => active \in Turns /\ turn[active].query \in Turns
  BY TurnsAreRefs DEF ScopeInv, Reservation, Queries, HarnessInv, Types, TurnTypes, TurnRecord
<1>4. Queries'
  <2>1. \A q \in Turns : pump'[q] = "none" => query' # q /\ \A u \in Turns : turn'[u].query # q
    BY TurnsAreRefs DEF ScopeInv, Queries, QueriesEnd
  <2>2. \A u \in Turns : turn'[u].at \in {"prompting", "applying"} /\ u # active'
                            => pump'[turn'[u].query] # "live"
    <3> SUFFICES ASSUME NEW u \in Turns, turn[u].at \in {"prompting", "applying"}, u # active
                 PROVE  pump'[turn[u].query] # "live"
      OBVIOUS
    <3>1. turn[u].query \in Turns /\ pump[turn[u].query] # "live"
      BY TurnsAreRefs DEF ScopeInv, Queries, Booted, HarnessInv, Types, TurnTypes, TurnRecord
    <3> QED
      BY <3>1 DEF QueriesEnd
  <2>3. active' # 0 /\ pump'[turn'[active'].query] = "live" => query' = turn'[active'].query
    BY <1>3 DEF ScopeInv, Queries, QueriesEnd
  <2> QED
    BY <2>1, <2>2, <2>3 DEF ScopeInv, Queries, QueriesEnd
<1>5. Working'
  <2> SUFFICES ASSUME active # 0
               PROVE  /\ Current(active)' => pump'[turn[active].query] = "live"
                      /\ turn[active].at \in {"applying", "running"}
                            => mode[turn[active].query] = turn[active].policy
    BY DEF Working, QueriesEnd
  <2>1. PICK x \in Turns : x = active
    BY <1>3
  <2>2. Current(x)' => Current(x)
    BY DEF Calm
  <2>3. Current(active)' = Current(x)'
    BY <2>1 DEF Current
  <2> QED
    BY <2>1, <2>2, <2>3 DEF ScopeInv, Working, QueriesEnd
<1> QED
  BY <1>1, <1>2, <1>4, <1>5 DEF Holds

\* A start unwinds.
LEMMA UnwindingKeeps ==
    ASSUME HarnessInv, ScopeInv, Calm, QueriesEnd, stop' = stop,
           NEW t \in Turns, turn[t].at \in Opening,
           turn' = [turn EXCEPT ![t].at = "ended"], Settles(t),
           active' = IF active = t THEN 0 ELSE active
    PROVE  Holds'
<1>1. /\ turn'[t].at = "ended" /\ t # 0
      /\ \A x \in Turns : x # t => turn'[x] = turn[x]
      /\ \A x \in Turns : turn'[x].cancelled = turn[x].cancelled
                          /\ turn'[x].query = turn[x].query /\ turn'[x].policy = turn[x].policy
  BY TurnsAreRefs DEF HarnessInv, Types, TurnTypes, TurnRecord
<1>2. owner # t => owner' = owner /\ starting' = starting
  BY DEF Settles
<1>3. (owner' = owner /\ starting' = starting) \/ (owner' = 0 /\ starting' = FALSE)
  BY DEF Settles
<1>4. Reservation'
  <2>1. \A x \in Turns : turn'[x].at \in Opening /\ ~turn'[x].cancelled => owner' = x /\ starting'
    BY <1>1, <1>2 DEF ScopeInv, Reservation, Opening, Early
  <2>2. active' # 0 => turn'[active'].at \in Booted /\ owner' \in {0, active'}
    <3>1. active' # 0 => active' = active /\ active \in Turns /\ active # t
      BY TurnsAreRefs DEF HarnessInv, Types, TurnTypes
    <3> QED
      BY <1>1, <1>3, <3>1 DEF ScopeInv, Reservation
  <2>3. \A x \in Turns : turn'[x].at = "running" => active' = x
    BY <1>1 DEF ScopeInv, Reservation, Opening, Early
  <2> QED
    BY <1>3, <2>1, <2>2, <2>3 DEF ScopeInv, Reservation
<1>5. Stopping'
  BY <1>1, <1>2 DEF ScopeInv, Stopping, Saving, Opening, Early
<1>6. Currency'
  <2> SUFFICES ASSUME NEW x \in Turns, Current(x)'
               PROVE  /\ scope' = x /\ ~turn'[x].cancelled
                      /\ turn'[x].at \in Booted => active' = x
    BY DEF Currency
  <2>1. Current(x) /\ scope' = x /\ ~turn[x].cancelled /\ (turn[x].at \in Booted => active = x)
    BY DEF Calm, ScopeInv, Currency
  <2> QED
    BY <1>1, <2>1 DEF Booted
<1>7. active' # 0 => active' = active /\ active \in Turns /\ active # t /\ turn[active].query \in Turns
  BY TurnsAreRefs DEF ScopeInv, Reservation, Queries, HarnessInv, Types, TurnTypes, TurnRecord
<1>8. Queries'
  <2>1. \A q \in Turns : pump'[q] = "none" => query' # q /\ \A u \in Turns : turn'[u].query # q
    BY <1>1, TurnsAreRefs DEF ScopeInv, Queries, QueriesEnd
  <2>2. \A q \in Turns : turn'[q].at \in Early \cup {"unborn"} => pump'[q] = "none"
    BY <1>1 DEF ScopeInv, Queries, QueriesEnd, Early
  <2>3. \A u \in Turns : turn'[u].at \in Booted => turn'[u].query # 0
    BY <1>1 DEF ScopeInv, Queries, Booted
  <2>4. \A u \in Turns : turn'[u].at \in {"prompting", "applying"} /\ u # active'
                            => pump'[turn'[u].query] # "live"
    <3> SUFFICES ASSUME NEW u \in Turns, turn'[u].at \in {"prompting", "applying"}, u # active'
                 PROVE  pump'[turn'[u].query] # "live"
      OBVIOUS
    <3>1. u # t /\ turn'[u] = turn[u] /\ u # active
      BY <1>1
    <3>2. turn[u].query \in Turns /\ pump[turn[u].query] # "live"
      BY <3>1, TurnsAreRefs DEF ScopeInv, Queries, Booted, HarnessInv, Types, TurnTypes, TurnRecord
    <3> QED
      BY <3>1, <3>2 DEF QueriesEnd
  <2>5. active' # 0 /\ pump'[turn'[active'].query] = "live" => query' = turn'[active'].query
    BY <1>1, <1>7 DEF ScopeInv, Queries, QueriesEnd
  <2> QED
    BY <2>1, <2>2, <2>3, <2>4, <2>5 DEF Queries
<1>9. Working'
  <2> SUFFICES ASSUME active' # 0
               PROVE  /\ Current(active)' => pump'[turn'[active'].query] = "live"
                      /\ turn'[active'].at \in {"applying", "running"}
                            => mode'[turn'[active'].query] = turn'[active'].policy
    BY DEF Working
  <2>1. PICK x \in Turns : x = active' /\ x = active /\ x # t
    BY <1>7
  <2>2. Current(x)' => Current(x)
    BY DEF Calm
  <2>3. Current(active)' = Current(x)'
    BY <2>1 DEF Current
  <2> QED
    BY <1>1, <2>1, <2>2, <2>3 DEF ScopeInv, Working, QueriesEnd
<1> QED
  BY <1>4, <1>5, <1>6, <1>8, <1>9 DEF Holds

---------------------------------------------------------------------------
\* The steps that only end queries

LEMMA ActiveWorksInAQuery ==
    ASSUME HarnessInv, ScopeInv
    PROVE  \A x \in Turns : active = x => turn[x].query \in Turns
  BY TurnsAreRefs DEF ScopeInv, Reservation, Queries, HarnessInv, Types, TurnTypes, TurnRecord

LEMMA QueriesRest ==
    ASSUME UNCHANGED native
    PROVE  QueriesEnd
  BY DEF native, QueriesEnd

\* A query that ended leaves the registry.
LEMMA QueryLeaves ==
    ASSUME NEW q, pump[q] = "ended", query' = Unregistered(q), UNCHANGED <<pump, mode>>
    PROVE  QueriesEnd
  BY DEF Unregistered, QueriesEnd

\* A query is retired, or one retired before drains, when no current turn works in it.
LEMMA QueryRetires ==
    ASSUME QueryTypes, NEW q \in Turns, NEW a \in {"retired", "ended"},
           pump' = [pump EXCEPT ![q] = a] \/ pump' = pump, pump[q] \notin {"none"} \/ pump' = pump,
           UNCHANGED <<query, mode>>,
           \A x \in Turns : active' = x /\ Current(x)' => turn[x].query \in Turns \ {q}
    PROVE  QueriesEnd
  BY DEF QueryTypes, QueriesEnd

LEMMA RetireMoves ==
    ASSUME QueryTypes, NEW q \in Turns, Retire(q)
    PROVE  pump' = pump \/ (pump[q] = "live" /\ pump' = [pump EXCEPT ![q] = "retired"])
<1>1. pump = [p \in Turns |-> pump[p]]
  BY DEF QueryTypes
<1> QED
  BY <1>1 DEF Retire

LEMMA RestKeeps ==
    ASSUME HarnessInv, ScopeInv,
           \/ \E t \in Turns : PumpDrains(t) \/ Ask(t)
           \/ IdleClose \/ IdleClosed \/ \E w \in Stoppers : StopEnds(w)
           \/ ChangeCloses \/ ChangeRetired \/ ChangeDone \/ ChangeFails
           \/ Present \/ Answer \/ Look \/ StateSaved
    PROVE  Holds'
<1>1. Calm
  BY RestIsCalm
<1>2. UNCHANGED <<turn, owner, starting, active>>
  BY DEF chat, PumpDrains, Ask, IdleClose, IdleClosed, StopEnds, ChangeCloses, ChangeRetired,
         ChangeDone, ChangeFails, Present, Answer, Look, StateSaved
<1>3. StopsEnd
  <2>1. CASE stop' = stop
    BY <2>1 DEF StopsEnd, Saving
  <2>2. ASSUME NEW w \in Stoppers, stop' = [stop EXCEPT ![w] = NoStop] PROVE StopsEnd
    <3>1. \A v \in Stoppers : stop'[v] = IF v = w THEN NoStop ELSE stop[v]
      BY <2>2 DEF HarnessInv, Types, HandlerTypes
    <3> QED
      BY <3>1 DEF StopsEnd, Saving, NoStop
  <2> QED
    BY <2>1, <2>2
    DEF PumpDrains, Ask, IdleClose, IdleClosed, StopEnds, ChangeCloses, ChangeRetired,
        ChangeDone, ChangeFails, Present, Answer, Look, StateSaved
<1>4. QueryTypes /\ \A x \in Turns : active' = x => turn[x].query \in Turns
  BY <1>2, ActiveWorksInAQuery DEF HarnessInv, Types
<1>5. CASE UNCHANGED native
  BY <1>1, <1>2, <1>3, <1>5, QueriesRest, QueriesEndKeeps
<1>6. ASSUME NEW q, pump[q] = "ended", query' = Unregistered(q), UNCHANGED <<pump, mode>>
      PROVE  Holds'
  BY <1>1, <1>2, <1>3, <1>6, QueryLeaves, QueriesEndKeeps
<1>7. ASSUME NEW q \in Turns, PumpDrains(q) PROVE Holds'
  <2>1. pump[q] = "retired" /\ pump' = [pump EXCEPT ![q] = "ended"] /\ UNCHANGED <<query, mode, svc>>
    BY <1>7 DEF PumpDrains
  <2>2. \A x \in Turns : active' = x /\ Current(x)' => turn[x].query \in Turns \ {q}
    <3> SUFFICES ASSUME NEW x \in Turns, active' = x, Current(x)' PROVE turn[x].query # q
      BY <1>4
    <3>1. Current(x) /\ Current(active) = Current(x)
      BY <1>1, <1>2 DEF Calm, Current
    <3> QED
      BY <1>2, <2>1, <3>1, TurnsAreRefs DEF ScopeInv, Working
  <2>3. QueriesEnd
    BY <1>4, <2>1, <2>2, QueryRetires
  <2> QED
    BY <1>1, <1>2, <1>3, <2>3, QueriesEndKeeps
<1>8. ASSUME query # 0, Retire(query), UNCHANGED <<query, mode>>, active = 0 \/ change.at # "none"
      PROVE  Holds'
  <2>1. query \in Turns
    BY <1>4, <1>8, TurnsAreRefs DEF QueryTypes
  <2>2. pump' = pump \/ (pump[query] = "live" /\ pump' = [pump EXCEPT ![query] = "retired"])
    BY <1>4, <1>8, <2>1, RetireMoves
  <2>3. \A x \in Turns : ~(active' = x /\ Current(x)')
    <3>1. change.at # "none" => \A x \in Turns : ~Current(x)
      BY DEF ScopeInv, Admissions, Current, CurrentIn
    <3> QED
      BY <1>1, <1>2, <1>8, <3>1, TurnsAreRefs DEF Calm
  <2>4. QueriesEnd
    BY <1>4, <1>8, <2>1, <2>2, <2>3, QueryRetires
  <2> QED
    BY <1>1, <1>2, <1>3, <2>4, QueriesEndKeeps
<1>9. CASE IdleClose
  BY <1>8, <1>9 DEF IdleClose
<1>10. CASE IdleClosed
  BY <1>5, <1>6, <1>10 DEF IdleClosed, native
<1>11. CASE \E w \in Stoppers : StopEnds(w)
  <2> PICK w \in Stoppers : StopEnds(w)
    BY <1>11
  <2> QED
    BY <1>5, <1>6 DEF StopEnds, native
<1>12. CASE ChangeCloses
  BY <1>5, <1>8, <1>12 DEF ChangeCloses, native
<1>13. CASE ChangeRetired
  BY <1>6, <1>13 DEF ChangeRetired
<1> QED
  BY <1>5, <1>7, <1>9, <1>10, <1>11, <1>12, <1>13
  DEF Ask, ChangeDone, ChangeFails, Present, Answer, Look, StateSaved

---------------------------------------------------------------------------
\* The start of a turn, up to its registration

LEMMA StarterIsIdle ==
    ASSUME ScopeInv, NEW t \in Turns, turn[t].at \in Opening \ Booted
    PROVE  active # t /\ (Reserved(t) => owner = t /\ active = 0)
  BY TurnsAreRefs DEF ScopeInv, Reservation, Reserved

LEMMA StartUnwinds ==
    ASSUME HarnessInv, ScopeInv, Calm, QueriesEnd,
           NEW t \in Turns, turn[t].at \in Opening \ Booted,
           turn' = [turn EXCEPT ![t].at = "ended"], Settles(t), UNCHANGED <<active, stop>>
    PROVE  Holds'
<1>1. active' = IF active = t THEN 0 ELSE active
  BY StarterIsIdle
<1> QED
  BY <1>1, UnwindingKeeps

\* A start goes on, to a query that may still have to drain.
LEMMA StartMoves ==
    ASSUME HarnessInv, ScopeInv, Calm, QueriesEnd,
           NEW t \in Turns, turn[t].at \in Opening \ Booted,
           NEW a \in Early \cup {"failing"}, a \in Early => turn[t].at \in Early,
           NEW q \in {turn[t].query, query},
           turn' = [turn EXCEPT ![t].at = a, ![t].query = q],
           UNCHANGED <<owner, starting, active, stop>>
    PROVE  Holds'
<1>1. /\ turn'[t].at = a /\ turn'[t].query = q /\ t # 0
      /\ \A x \in Turns : x # t => turn'[x] = turn[x]
      /\ \A x \in Turns : turn'[x].cancelled = turn[x].cancelled /\ turn'[x].policy = turn[x].policy
  BY TurnsAreRefs DEF HarnessInv, Types, TurnTypes, TurnRecord
<1>2. active # t /\ a \in Opening \ Booted
  BY StarterIsIdle DEF Opening, Early, Booted
<1>3. active # 0 => active \in Turns /\ turn'[active] = turn[active] /\ turn[active].query \in Turns
  BY <1>1, <1>2, TurnsAreRefs, ActiveWorksInAQuery DEF HarnessInv, Types, TurnTypes
<1>4. Reservation'
  <2>1. \A x \in Turns : turn'[x].at \in Opening /\ ~turn'[x].cancelled => owner' = x /\ starting'
    BY <1>1, <1>2 DEF ScopeInv, Reservation
  <2>2. active' # 0 => turn'[active'].at \in Booted /\ owner' \in {0, active'}
    BY <1>3 DEF ScopeInv, Reservation
  <2>3. \A x \in Turns : turn'[x].at = "running" => active' = x
    BY <1>1, <1>2 DEF ScopeInv, Reservation, Opening, Early
  <2> QED
    BY <2>1, <2>2, <2>3 DEF ScopeInv, Reservation
<1>5. Stopping'
  <2>1. \A x \in Turns : turn'[x].at \in Opening => turn[x].at \in Opening
    BY <1>1
  <2> QED
    BY <1>1, <2>1 DEF ScopeInv, Stopping, Saving
<1>6. Currency'
  <2> SUFFICES ASSUME NEW x \in Turns, Current(x)'
               PROVE  /\ scope' = x /\ ~turn'[x].cancelled
                      /\ turn'[x].at \in Booted => active' = x
    BY DEF Currency
  <2>1. Current(x) /\ scope' = x /\ ~turn[x].cancelled /\ (turn[x].at \in Booted => active = x)
    BY DEF Calm, ScopeInv, Currency
  <2> QED
    BY <1>1, <1>2, <2>1
<1>7. Queries'
  <2>1. \A p \in Turns : pump'[p] = "none" => query' # p /\ \A u \in Turns : turn'[u].query # p
    <3> SUFFICES ASSUME NEW p \in Turns, pump'[p] = "none"
                 PROVE  query' # p /\ \A u \in Turns : turn'[u].query # p
      OBVIOUS
    <3>1. query # p /\ p # 0 /\ \A u \in Turns : turn[u].query # p
      BY TurnsAreRefs DEF ScopeInv, Queries, QueriesEnd
    <3>2. query' # p
      BY <3>1 DEF QueriesEnd
    <3>3. q # p
      BY <3>1
    <3> QED
      BY <1>1, <3>1, <3>2, <3>3
  <2>2. \A p \in Turns : turn'[p].at \in Early \cup {"unborn"} => pump'[p] = "none"
    BY <1>1 DEF ScopeInv, Queries, QueriesEnd, Early
  <2>3. \A u \in Turns : turn'[u].at \in Booted => turn'[u].query # 0
    BY <1>1, <1>2 DEF ScopeInv, Queries
  <2>4. \A u \in Turns : turn'[u].at \in {"prompting", "applying"} /\ u # active'
                            => pump'[turn'[u].query] # "live"
    <3> SUFFICES ASSUME NEW u \in Turns, turn'[u].at \in {"prompting", "applying"}, u # active'
                 PROVE  pump'[turn'[u].query] # "live"
      OBVIOUS
    <3>1. u # t /\ turn'[u] = turn[u] /\ u # active
      BY <1>1, <1>2 DEF Booted
    <3>2. turn[u].query \in Turns /\ pump[turn[u].query] # "live"
      BY <3>1, TurnsAreRefs DEF ScopeInv, Queries, Booted, HarnessInv, Types, TurnTypes, TurnRecord
    <3> QED
      BY <3>1, <3>2 DEF QueriesEnd
  <2>5. active' # 0 /\ pump'[turn'[active'].query] = "live" => query' = turn'[active'].query
    BY <1>3 DEF ScopeInv, Queries, QueriesEnd
  <2> QED
    BY <2>1, <2>2, <2>3, <2>4, <2>5 DEF Queries
<1>8. Working'
  <2> SUFFICES ASSUME active # 0
               PROVE  /\ Current(active)' => pump'[turn[active].query] = "live"
                      /\ turn[active].at \in {"applying", "running"}
                            => mode[turn[active].query] = turn[active].policy
    BY <1>3 DEF Working, QueriesEnd
  <2>1. PICK x \in Turns : x = active
    BY <1>3
  <2>2. (Current(x)' => Current(x)) /\ Current(active)' = Current(x)'
    BY <2>1 DEF Calm, Current
  <2> QED
    BY <2>1, <2>2 DEF ScopeInv, Working, QueriesEnd
<1> QED
  BY <1>4, <1>5, <1>6, <1>7, <1>8 DEF Holds

\* The same when the turn's query stays.
LEMMA StartMovesOn ==
    ASSUME HarnessInv, ScopeInv, Calm, QueriesEnd,
           NEW t \in Turns, turn[t].at \in Opening \ Booted,
           NEW a \in Early \cup {"failing"}, a \in Early => turn[t].at \in Early,
           turn' = [turn EXCEPT ![t].at = a],
           UNCHANGED <<owner, starting, active, stop>>
    PROVE  Holds'
<1>1. turn' = [turn EXCEPT ![t].at = a, ![t].query = turn[t].query]
  <2>1. turn \in [Turns -> TurnRecord]
    BY DEF HarnessInv, Types, TurnTypes
  <2>2. [turn[t] EXCEPT !.at = a] = [turn[t] EXCEPT !.at = a, !.query = turn[t].query]
    BY <2>1 DEF TurnRecord
  <2> QED
    BY <2>1, <2>2
<1> QED
  BY <1>1, StartMoves

\* The turn becomes active, in the query that lives or in one launched for it.
LEMMA RegistrationKeeps ==
    ASSUME HarnessInv, ScopeInv, Calm,
           NEW t \in Turns, turn[t].at \in Early, Reserved(t),
           NEW q \in Turns,
           turn' = [turn EXCEPT ![t].at = "prompting", ![t].query = q],
           active' = t, query' = q, pump'[q] = "live",
           pump' = pump \/ (q = t /\ pump' = [pump EXCEPT ![t] = "live"]),
           UNCHANGED <<owner, starting, stop>>
    PROVE  Holds'
<1>1. /\ turn'[t].at = "prompting" /\ turn'[t].query = q /\ t # 0 /\ q # 0
      /\ \A x \in Turns : x # t => turn'[x] = turn[x]
      /\ \A x \in Turns : turn'[x].cancelled = turn[x].cancelled /\ turn'[x].policy = turn[x].policy
  BY TurnsAreRefs DEF HarnessInv, Types, TurnTypes, TurnRecord
<1>2. /\ owner = t /\ active = 0 /\ starting /\ ~turn[t].cancelled
      /\ \A x \in Turns : x # t => turn[x].at # "running"
  <2>1. turn[t].at \in Opening \ Booted
    BY DEF Opening, Early, Booted
  <2>2. owner = t /\ active = 0 /\ ~turn[t].cancelled
    BY <2>1, StarterIsIdle DEF Reserved
  <2> QED
    BY <2>1, <2>2, TurnsAreRefs DEF ScopeInv, Reservation
<1>3. Reservation'
  <2>1. \A x \in Turns : turn'[x].at \in Opening /\ ~turn'[x].cancelled => x = t
    BY <1>1, <1>2 DEF ScopeInv, Reservation
  <2> QED
    BY <1>1, <1>2, <2>1 DEF Reservation, Booted
<1>4. Stopping'
  <2>1. \A x \in Turns : turn'[x].at \in Opening => turn[x].at \in Opening
    <3>1. turn[t].at \in Opening
      BY DEF Opening
    <3> QED
      BY <1>1, <3>1
  <2> QED
    <3>1. \A w \in Stoppers : Saving(w)' = Saving(w)
      BY DEF Saving
    <3>2. \A w \in Stoppers : Saving(w) =>
             /\ stop[w].turn \in Turns /\ turn'[stop[w].turn].cancelled
             /\ turn'[stop[w].turn].at \in Opening => owner = stop[w].turn /\ starting
      BY <1>1, <2>1 DEF ScopeInv, Stopping
    <3> QED
      BY <3>1, <3>2 DEF ScopeInv, Stopping
<1>5. Currency'
  <2> SUFFICES ASSUME NEW x \in Turns, Current(x)'
               PROVE  /\ scope' = x /\ ~turn'[x].cancelled
                      /\ turn'[x].at \in Booted => active' = x
    BY DEF Currency
  <2>1. Current(x) /\ scope' = x /\ ~turn[x].cancelled /\ (turn[x].at \in Booted => active = x)
    BY DEF Calm, ScopeInv, Currency
  <2> QED
    BY <1>1, <1>2, <2>1, TurnsAreRefs
<1>6. pump[t] = "none"
  BY DEF ScopeInv, Queries
<1>7. Queries'
  <2>1. /\ \A p \in Turns : pump'[p] = "none" => pump[p] = "none" /\ p # q
        /\ \A p \in Turns : p # t => pump'[p] = pump[p]
        /\ \A p \in Turns : p # t \/ q # t => pump'[p] = pump[p]
    BY DEF HarnessInv, Types, QueryTypes
  <2>2. \A p \in Turns : pump'[p] = "none" => query' # p /\ \A u \in Turns : turn'[u].query # p
    <3> SUFFICES ASSUME NEW p \in Turns, pump'[p] = "none", NEW u \in Turns
                 PROVE  query' # p /\ turn'[u].query # p
      BY <1>1
    <3>1. p # q /\ turn[u].query # p
      BY <2>1 DEF ScopeInv, Queries
    <3>2. CASE u = t
      BY <1>1, <3>1, <3>2
    <3>3. CASE u # t
      BY <1>1, <3>1, <3>3
    <3> QED
      BY <3>2, <3>3
  <2>3. \A p \in Turns : turn'[p].at \in Early \cup {"unborn"} => pump'[p] = "none"
    <3> SUFFICES ASSUME NEW p \in Turns, turn'[p].at \in Early \cup {"unborn"}
                 PROVE  pump'[p] = "none"
      OBVIOUS
    <3>1. p # t /\ turn[p].at \in Early \cup {"unborn"}
      BY <1>1 DEF Early
    <3> QED
      BY <2>1, <3>1 DEF ScopeInv, Queries
  <2>4. \A u \in Turns : turn'[u].at \in Booted => turn'[u].query # 0
    BY <1>1 DEF ScopeInv, Queries
  <2>5. \A u \in Turns : turn'[u].at \in {"prompting", "applying"} /\ u # active'
                            => pump'[turn'[u].query] # "live"
    <3> SUFFICES ASSUME NEW u \in Turns, turn[u].at \in {"prompting", "applying"}, u # t
                 PROVE  pump'[turn[u].query] # "live"
      BY <1>1
    <3>1. turn[u].query \in Turns /\ turn[u].query # t /\ pump[turn[u].query] # "live"
      BY <1>2, <1>6, TurnsAreRefs
      DEF ScopeInv, Queries, Booted, HarnessInv, Types, TurnTypes, TurnRecord
    <3> QED
      BY <2>1, <3>1
  <2> QED
    BY <1>1, <2>2, <2>3, <2>4, <2>5 DEF Queries
<1>8. Working'
  BY <1>1 DEF Working
<1> QED
  BY <1>3, <1>4, <1>5, <1>7, <1>8 DEF Holds

\* What a refused registration leaves of the query launched for it.
LEMMA RefusedLaunchKeeps ==
    ASSUME HarnessInv, ScopeInv, Calm,
           NEW t \in Turns, turn[t].at \in Early, Reserved(t),
           turn' = [turn EXCEPT ![t].at = "ended"], Settles(t),
           query' = t, pump' = [pump EXCEPT ![t] = "live"],
           UNCHANGED <<active, stop>>
    PROVE  Holds'
<1>1. /\ turn'[t].at = "ended" /\ t # 0
      /\ \A x \in Turns : x # t => turn'[x] = turn[x]
      /\ \A x \in Turns : turn'[x].cancelled = turn[x].cancelled /\ turn'[x].query = turn[x].query
  BY TurnsAreRefs DEF HarnessInv, Types, TurnTypes, TurnRecord
<1>2. owner = t /\ active = 0 /\ \A x \in Turns : turn[x].at # "running"
  <2>1. turn[t].at \in Opening \ Booted
    BY DEF Opening, Early, Booted
  <2> QED
    BY <2>1, StarterIsIdle, TurnsAreRefs DEF ScopeInv, Reservation
<1>3. Reservation'
  <2>1. \A x \in Turns : turn'[x].at \in Opening => turn'[x].cancelled
    BY <1>1, <1>2 DEF ScopeInv, Reservation, Opening, Early
  <2> QED
    BY <1>1, <1>2, <2>1 DEF ScopeInv, Reservation, Settles
<1>4. Stopping'
  <2>1. \A x \in Turns : turn'[x].at \in Opening => turn[x].at \in Opening /\ x # t
    BY <1>1 DEF Opening, Early
  <2>2. \A w \in Stoppers : Saving(w) => turn'[stop[w].turn].at \notin Opening
    BY <1>2, <2>1 DEF ScopeInv, Stopping
  <2> QED
    BY <1>1, <2>2 DEF ScopeInv, Stopping, Saving
<1>5. Currency'
  <2> SUFFICES ASSUME NEW x \in Turns, Current(x)'
               PROVE  /\ scope' = x /\ ~turn'[x].cancelled
                      /\ turn'[x].at \in Booted => active' = x
    BY DEF Currency
  <2>1. Current(x) /\ scope' = x /\ ~turn[x].cancelled /\ (turn[x].at \in Booted => active = x)
    BY DEF Calm, ScopeInv, Currency
  <2> QED
    BY <1>1, <2>1 DEF Booted
<1>6. Queries'
  <2>1. /\ \A p \in Turns : pump'[p] = "none" => pump[p] = "none" /\ p # t
        /\ \A p \in Turns : p # t => pump'[p] = pump[p]
        /\ pump[t] = "none"
    BY DEF HarnessInv, Types, QueryTypes, ScopeInv, Queries
  <2>2. \A p \in Turns : pump'[p] = "none" => query' # p /\ \A u \in Turns : turn'[u].query # p
    <3> SUFFICES ASSUME NEW p \in Turns, pump'[p] = "none"
                 PROVE  p # t /\ \A u \in Turns : turn[u].query # p
      BY <1>1
    <3> QED
      BY <2>1 DEF ScopeInv, Queries
  <2>3. \A p \in Turns : turn'[p].at \in Early \cup {"unborn"} => pump'[p] = "none"
    <3> SUFFICES ASSUME NEW p \in Turns, turn'[p].at \in Early \cup {"unborn"}
                 PROVE  pump'[p] = "none"
      OBVIOUS
    <3>1. p # t /\ turn[p].at \in Early \cup {"unborn"}
      BY <1>1 DEF Early
    <3> QED
      BY <2>1, <3>1 DEF ScopeInv, Queries
  <2>4. \A u \in Turns : turn'[u].at \in Booted => turn'[u].query # 0
    BY <1>1 DEF ScopeInv, Queries, Booted
  <2>5. \A u \in Turns : turn'[u].at \in {"prompting", "applying"} /\ u # active'
                            => pump'[turn'[u].query] # "live"
    <3> SUFFICES ASSUME NEW u \in Turns, turn'[u].at \in {"prompting", "applying"}
                 PROVE  pump'[turn[u].query] # "live"
      BY <1>1
    <3>1. turn[u].at \in {"prompting", "applying"}
      BY <1>1
    <3>2. turn[u].query \in Turns /\ turn[u].query # t /\ pump[turn[u].query] # "live"
      BY <1>2, <2>1, <3>1, TurnsAreRefs
      DEF ScopeInv, Queries, Booted, HarnessInv, Types, TurnTypes, TurnRecord
    <3> QED
      BY <2>1, <3>2
  <2> QED
    BY <1>2, <2>2, <2>3, <2>4, <2>5 DEF Queries
<1>7. Working'
  BY <1>2 DEF Working
<1> QED
  BY <1>3, <1>4, <1>5, <1>6, <1>7 DEF Holds

LEMMA StartKeeps ==
    ASSUME HarnessInv, ScopeInv, NEW t \in Turns,
           \/ Boot(t) \/ Admit(t) \/ Recorded(t) \/ RecordingFails(t)
           \/ OldQueryDrained(t) \/ StartFails(t) \/ Spawned(t) \/ RejectionSaved(t)
    PROVE  Holds'
<1>1. Calm /\ stop' = stop
  BY StartIsCalm
  DEF Boot, Admit, Recorded, RecordingFails, OldQueryDrained, StartFails, Spawned, RejectionSaved
<1>2. turn[t].at \in Opening \ Booted /\ (turn[t].at = "failing" \/ turn[t].at \in Early)
  BY DEF Boot, Admit, Recorded, RecordingFails, OldQueryDrained, StartFails, Spawned,
         RejectionSaved, Opening, Early, Booted
<1>3. ASSUME NEW v, Unwinds(t, v), active' = active, QueriesEnd PROVE Holds'
  BY <1>1, <1>2, <1>3, StartUnwinds DEF Unwinds
<1>4. ASSUME NEW a \in Early \cup {"failing"}, a \in Early => turn[t].at \in Early,
             turn' = [turn EXCEPT ![t].at = a], UNCHANGED <<owner, starting, active>>, QueriesEnd
      PROVE  Holds'
  BY <1>1, <1>2, <1>4, StartMovesOn
<1>5. ASSUME NEW v, NEW chain, Fails(t, v, chain), UNCHANGED <<active, native>> PROVE Holds'
  <2>1. QueriesEnd /\ active' = active
    BY <1>5, QueriesRest
  <2>2. CASE Unwinds(t, v)
    BY <1>3, <2>1, <2>2
  <2>3. CASE turn' = [turn EXCEPT ![t].at = "failing"] /\ UNCHANGED <<owner, starting>>
    <3>1. "failing" \in Early \cup {"failing"} /\ "failing" \notin Early
      BY DEF Early
    <3> QED
      BY <1>4, <2>1, <2>3, <3>1
  <2> QED
    BY <1>5, <2>2, <2>3 DEF Fails
<1>6. ASSUME turn[t].at \in Early, Reserved(t), NEW q \in Turns, ~Stopped(t), Registers(t, q),
             query' = q, pump'[q] = "live",
             pump' = pump \/ (q = t /\ pump' = [pump EXCEPT ![t] = "live"])
      PROVE  Holds'
  <2>1. /\ turn' = [turn EXCEPT ![t].at = "prompting", ![t].query = q]
        /\ active' = t /\ UNCHANGED <<owner, starting>>
    BY <1>6 DEF Registers
  <2> QED
    BY <1>1, <1>6, <2>1, RegistrationKeeps
<1>7. CASE Boot(t)
  BY <1>3, <1>4, <1>7, QueriesRest DEF Boot, Early
<1>8. CASE Admit(t)
  BY <1>3, <1>4, <1>5, <1>8, QueriesRest DEF Admit, Early
<1>9. CASE Recorded(t)
  <2>1. query \in Refs /\ turn[t].at \in Early /\ UNCHANGED <<query, mode>> /\ QueryTypes
    BY <1>9 DEF Recorded, Early, HarnessInv, Types, QueryTypes
  <2>2. CASE ~Reserved(t)
    BY <1>3, <1>9, <2>1, <2>2, QueriesRest DEF Recorded, native
  <2>3. CASE Reserved(t) /\ query # 0 /\ pump[query] = "live" /\ Registers(t, query) /\ pump' = pump
    <3>1. CASE Stopped(t)
      BY <1>3, <2>1, <2>3, <3>1, QueriesRest DEF Registers, native
    <3>2. CASE ~Stopped(t)
      BY <1>6, <2>1, <2>3, <3>2, TurnsAreRefs
    <3> QED
      BY <3>1, <3>2
  <2>4. CASE /\ Reserved(t) /\ query # 0 /\ Retire(query)
             /\ turn' = [turn EXCEPT ![t].at = "draining", ![t].query = query]
             /\ UNCHANGED <<owner, starting, active>>
    <3>1. query \in Turns /\ active' = 0
      BY <1>2, <2>1, <2>4, TurnsAreRefs, StarterIsIdle
    <3>2. QueriesEnd
      BY <2>1, <2>4, <3>1, TurnsAreRefs, RetireMoves, QueryRetires
    <3>3. "draining" \in Early
      BY DEF Early
    <3> QED
      BY <1>1, <1>2, <2>1, <2>4, <3>2, <3>3, StartMoves
  <2>5. CASE /\ turn' = [turn EXCEPT ![t].at = "spawning"]
             /\ UNCHANGED <<owner, starting, active, pump>>
    <3>1. "spawning" \in Early /\ QueriesEnd
      BY <2>1, <2>5, QueriesRest DEF Early, native
    <3> QED
      BY <1>4, <2>1, <2>5, <3>1
  <2> QED
    BY <1>9, <2>2, <2>3, <2>4, <2>5 DEF Recorded
<1>10. CASE RecordingFails(t)
  BY <1>5, <1>10 DEF RecordingFails
<1>11. CASE OldQueryDrained(t)
  <2>1. QueriesEnd /\ turn[t].at \in Early /\ "spawning" \in Early /\ active' = active
    BY <1>11, QueryLeaves DEF OldQueryDrained, Early
  <2> QED
    BY <1>3, <1>4, <1>11, <2>1 DEF OldQueryDrained
<1>12. CASE StartFails(t)
  BY <1>5, <1>12 DEF StartFails
<1>13. CASE Spawned(t)
  <2>1. CASE ~Reserved(t)
    BY <1>3, <1>13, <2>1, QueriesRest DEF Spawned
  <2>2. CASE Reserved(t)
    <3>1. /\ query' = t /\ pump' = [pump EXCEPT ![t] = "live"] /\ Registers(t, t)
          /\ turn[t].at \in Early
      BY <1>13, <2>2 DEF Spawned, Early
    <3>2. pump'[t] = "live"
      BY <3>1 DEF HarnessInv, Types, QueryTypes
    <3>3. CASE Stopped(t)
      BY <1>1, <2>2, <3>1, <3>3, RefusedLaunchKeeps DEF Registers, Unwinds
    <3>4. CASE ~Stopped(t)
      BY <1>6, <2>2, <3>1, <3>2, <3>4
    <3> QED
      BY <3>3, <3>4
  <2> QED
    BY <2>1, <2>2
<1>14. CASE RejectionSaved(t)
  BY <1>3, <1>14, QueriesRest DEF RejectionSaved
<1> QED
  BY <1>7, <1>8, <1>9, <1>10, <1>11, <1>12, <1>13, <1>14

---------------------------------------------------------------------------
\* The prompt

\* The active turn takes its mode, or is sent its prompt.
LEMMA ActiveGoesOn ==
    ASSUME HarnessInv, ScopeInv, Calm, NEW t \in Turns,
           turn[t].at \in {"prompting", "applying"}, active = t,
           NEW a \in {"applying", "running"}, turn' = [turn EXCEPT ![t].at = a],
           UNCHANGED <<active, query, pump, stop>>,
           UNCHANGED <<owner, starting>> \/ (a = "running" /\ Settles(t)),
           mode'[turn[t].query] = turn[t].policy
    PROVE  Holds'
<1>1. /\ turn'[t].at = a /\ t # 0
      /\ \A x \in Turns : x # t => turn'[x] = turn[x]
      /\ \A x \in Turns : turn'[x].cancelled = turn[x].cancelled
                          /\ turn'[x].query = turn[x].query /\ turn'[x].policy = turn[x].policy
  BY TurnsAreRefs DEF HarnessInv, Types, TurnTypes, TurnRecord
<1>2. /\ owner \in {0, t} /\ (starting => owner # 0)
      /\ \A x \in Turns : x # t => turn[x].at # "running"
      /\ \A x \in Turns : x # t /\ turn[x].at \in Opening => turn[x].cancelled
  BY <1>1 DEF ScopeInv, Reservation
<1>3. Reservation'
  <2>1. starting' => owner' # 0
    BY <1>2 DEF Settles
  <2>2. \A x \in Turns : turn'[x].at \in Opening /\ ~turn'[x].cancelled => owner' = x /\ starting'
    <3> SUFFICES ASSUME NEW x \in Turns, turn'[x].at \in Opening, ~turn'[x].cancelled
                 PROVE  owner' = x /\ starting'
      OBVIOUS
    <3>1. x = t
      BY <1>1, <1>2
    <3>2. a = "applying" /\ turn[t].at \in Opening
      BY <1>1, <3>1 DEF Opening, Early
    <3> QED
      BY <1>1, <3>1, <3>2 DEF ScopeInv, Reservation
  <2>3. active' # 0 => turn'[active'].at \in Booted /\ owner' \in {0, active'}
    BY <1>1, <1>2 DEF Settles, Booted
  <2>4. \A x \in Turns : turn'[x].at = "running" => active' = x
    BY <1>1, <1>2
  <2> QED
    BY <2>1, <2>2, <2>3, <2>4 DEF Reservation
<1>4. Stopping'
  <2>1. \A w \in Stoppers : Saving(w)' = Saving(w)
    BY DEF Saving
  <2>2. \A w \in Stoppers : Saving(w) =>
           /\ stop[w].turn \in Turns /\ turn'[stop[w].turn].cancelled
           /\ turn'[stop[w].turn].at \in Opening => owner' = stop[w].turn /\ starting'
    <3> SUFFICES ASSUME NEW w \in Stoppers, Saving(w), turn'[stop[w].turn].at \in Opening
                 PROVE  owner' = stop[w].turn /\ starting'
      BY <1>1 DEF ScopeInv, Stopping
    <3>1. stop[w].turn \in Turns /\ turn[t].at \in Opening
      BY DEF ScopeInv, Stopping, Opening
    <3>2. turn[stop[w].turn].at \in Opening
      BY <1>1, <3>1
    <3>3. owner = stop[w].turn /\ starting
      BY <3>2 DEF ScopeInv, Stopping
    <3>4. stop[w].turn = t
      BY <1>1, <1>2, <3>1, <3>3, TurnsAreRefs
    <3>5. a = "applying"
      BY <1>1, <3>4 DEF Opening, Early
    <3> QED
      BY <3>3, <3>5
  <2> QED
    BY <2>1, <2>2 DEF ScopeInv, Stopping
<1>5. Currency'
  <2> SUFFICES ASSUME NEW x \in Turns, Current(x)'
               PROVE  /\ scope' = x /\ ~turn'[x].cancelled
                      /\ turn'[x].at \in Booted => active' = x
    BY DEF Currency
  <2>1. Current(x) /\ scope' = x /\ ~turn[x].cancelled /\ (turn[x].at \in Booted => active = x)
    BY DEF Calm, ScopeInv, Currency
  <2> QED
    BY <1>1, <2>1
<1>6. Queries'
  <2>1. \A p \in Turns : pump'[p] = "none" => query' # p /\ \A u \in Turns : turn'[u].query # p
    BY <1>1 DEF ScopeInv, Queries
  <2>2. \A p \in Turns : turn'[p].at \in Early \cup {"unborn"} => pump'[p] = "none"
    BY <1>1 DEF ScopeInv, Queries, Early
  <2>3. \A u \in Turns : turn'[u].at \in Booted => turn'[u].query # 0
    BY <1>1 DEF ScopeInv, Queries, Booted
  <2>4. \A u \in Turns : turn'[u].at \in {"prompting", "applying"} /\ u # active'
                            => pump'[turn'[u].query] # "live"
    BY <1>1 DEF ScopeInv, Queries
  <2>5. active' # 0 /\ pump'[turn'[active'].query] = "live" => query' = turn'[active'].query
    BY <1>1 DEF ScopeInv, Queries
  <2> QED
    BY <2>1, <2>2, <2>3, <2>4, <2>5 DEF Queries
<1>7. Working'
  <2>1. Current(active)' = Current(t)'
    BY DEF Current
  <2>2. Current(t)' => pump[turn[t].query] = "live"
    BY <1>1 DEF Calm, ScopeInv, Working
  <2> QED
    BY <1>1, <2>1, <2>2 DEF Working
<1> QED
  BY <1>3, <1>4, <1>5, <1>6, <1>7 DEF Holds

\* A prompt that fails takes its query along; no other turn works in it.
LEMMA PromptFailingKeeps ==
    ASSUME HarnessInv, ScopeInv, Calm, NEW t \in Turns,
           turn[t].at \in {"prompting", "applying"}, PromptFails(t), stop' = stop,
           mode' = mode \/ pump[turn[t].query] = "live"
    PROVE  Holds'
<1> DEFINE q == turn[t].query
<1>1. q \in Turns /\ QueryTypes /\ t # 0
  BY TurnsAreRefs DEF ScopeInv, Queries, Booted, HarnessInv, Types, TurnTypes, TurnRecord
<1>2. pump' = pump \/ (pump[q] = "live" /\ pump' = [pump EXCEPT ![q] = "retired"])
  BY <1>1, RetireMoves DEF PromptFails
<1>3. pump'[q] # "live"
  BY <1>1 DEF PromptFails, Retire, QueryTypes
<1>4. active' = IF active = t THEN 0 ELSE active
  BY DEF PromptFails
<1>5. active' # 0 => active # t /\ pump[q] # "live" /\ mode' = mode /\ pump' = pump
  <2>1. active # t => pump[q] # "live"
    BY DEF ScopeInv, Queries
  <2> QED
    BY <1>2, <1>4, <2>1
<1>6. query' = query \/ (query = q /\ query' = 0)
  BY DEF PromptFails, Unregistered
<1>7. QueriesEnd
  <2>1. \A p \in Turns : /\ pump'[p] = "none" <=> pump[p] = "none"
                         /\ pump'[p] = "live" => pump[p] = "live"
    BY <1>1, <1>2 DEF QueryTypes
  <2>2. \A x \in Turns : active' = x /\ Current(x)' /\ pump[turn[x].query] = "live"
                            => pump'[turn[x].query] = "live"
    BY <1>5, TurnsAreRefs
  <2> QED
    BY <1>3, <1>5, <1>6, <2>1, <2>2 DEF QueriesEnd
<1>8. turn' = [turn EXCEPT ![t].at = "ended"] /\ Settles(t) /\ turn[t].at \in Opening
  BY DEF PromptFails, Unwinds, Opening
<1> QED
  BY <1>4, <1>7, <1>8, UnwindingKeeps

LEMMA PromptKeeps ==
    ASSUME HarnessInv, ScopeInv, NEW t \in Turns,
           ModeTaken(t) \/ ModeRefused(t) \/ Prompted(t) \/ ApplyingFails(t)
    PROVE  Holds'
<1>1. Calm /\ stop' = stop
  BY PromptIsCalm DEF ModeTaken, ModeRefused, Prompted, ApplyingFails
<1>2. turn[t].at \in {"prompting", "applying"}
  BY DEF ModeTaken, ModeRefused, Prompted, ApplyingFails
<1>3. PolicyCurrent(t) => active = t
  BY <1>2 DEF PolicyCurrent, Current, ScopeInv, Currency, Booted
<1>4. CASE ModeTaken(t)
  <2>1. CASE PolicyCurrent(t)
    <3>1. turn[t].query \in Turns
      BY <1>3, <2>1, ActiveWorksInAQuery
    <3>2. mode'[turn[t].query] = turn[t].policy
      BY <1>4, <3>1 DEF ModeTaken, HarnessInv, Types, QueryTypes
    <3>3. turn' = [turn EXCEPT ![t].at = "applying"]
          /\ UNCHANGED <<owner, starting, active, query, pump>>
      BY <1>4, <2>1 DEF ModeTaken, chat
    <3> QED
      BY <1>1, <1>2, <1>3, <2>1, <3>2, <3>3, ActiveGoesOn
  <2>2. CASE ~PolicyCurrent(t)
    BY <1>1, <1>2, <1>4, <2>2, PromptFailingKeeps DEF ModeTaken
  <2> QED
    BY <2>1, <2>2
<1>5. CASE Prompted(t) /\ PolicyCurrent(t)
  <2>1. turn' = [turn EXCEPT ![t].at = "running"] /\ Settles(t) /\ turn[t].at = "applying"
        /\ UNCHANGED <<active, query, pump, mode>>
    BY <1>5 DEF Prompted
  <2>2. mode'[turn[t].query] = turn[t].policy
    BY <1>3, <1>5, <2>1, TurnsAreRefs DEF ScopeInv, Working
  <2> QED
    BY <1>1, <1>2, <1>3, <1>5, <2>1, <2>2, ActiveGoesOn
<1>6. CASE PromptFails(t) /\ mode' = mode
  BY <1>1, <1>2, <1>6, PromptFailingKeeps
<1> QED
  BY <1>4, <1>5, <1>6 DEF ModeRefused, Prompted, ApplyingFails

---------------------------------------------------------------------------
\* The beginning and the end of a turn

LEMMA SendKeeps ==
    ASSUME HarnessInv, ScopeInv, NEW t \in Turns, Send(t)
    PROVE  Holds'
<1>1. Calm
  BY StartIsCalm
<1>2. /\ turn[t].at = "unborn" /\ ~starting /\ active = 0 /\ owner' = t /\ starting'
      /\ turn' = [turn EXCEPT ![t].at = "settling"] /\ UNCHANGED <<active, stop, query, pump, mode>>
  BY DEF Send, native
<1>3. /\ turn'[t].at = "settling" /\ t # 0
      /\ \A x \in Turns : x # t => turn'[x] = turn[x]
      /\ \A x \in Turns : turn'[x].cancelled = turn[x].cancelled /\ turn'[x].query = turn[x].query
  BY <1>2, TurnsAreRefs DEF HarnessInv, Types, TurnTypes, TurnRecord
<1>4. Reservation'
  BY <1>2, <1>3 DEF ScopeInv, Reservation
<1>5. Stopping'
  <2>1. \A w \in Stoppers : Saving(w)' = Saving(w)
    BY <1>2 DEF Saving
  <2>2. \A w \in Stoppers : Saving(w) =>
           /\ stop[w].turn \in Turns /\ turn'[stop[w].turn].cancelled
           /\ turn'[stop[w].turn].at \in Opening => t = stop[w].turn
    BY <1>2, <1>3 DEF ScopeInv, Stopping
  <2> QED
    BY <1>2, <2>1, <2>2 DEF ScopeInv, Stopping
<1>6. Currency'
  <2> SUFFICES ASSUME NEW x \in Turns, Current(x)'
               PROVE  /\ scope' = x /\ ~turn'[x].cancelled
                      /\ turn'[x].at \in Booted => active' = x
    BY DEF Currency
  <2>1. Current(x) /\ scope' = x /\ ~turn[x].cancelled /\ (turn[x].at \in Booted => active = x)
    BY <1>1 DEF Calm, ScopeInv, Currency
  <2> QED
    BY <1>2, <1>3, <2>1 DEF Booted
<1>7. Queries'
  <2>1. \A p \in Turns : pump'[p] = "none" => query' # p /\ \A u \in Turns : turn'[u].query # p
    BY <1>2, <1>3 DEF ScopeInv, Queries
  <2>2. \A p \in Turns : turn'[p].at \in Early \cup {"unborn"} => pump'[p] = "none"
    BY <1>2, <1>3 DEF ScopeInv, Queries
  <2>3. \A u \in Turns : turn'[u].at \in Booted => turn'[u].query # 0
    BY <1>3 DEF ScopeInv, Queries, Booted
  <2>4. \A u \in Turns : turn'[u].at \in {"prompting", "applying"} /\ u # active'
                            => pump'[turn'[u].query] # "live"
    BY <1>2, <1>3 DEF ScopeInv, Queries
  <2> QED
    BY <1>2, <2>1, <2>2, <2>3, <2>4 DEF Queries
<1>8. Working'
  BY <1>2 DEF Working
<1> QED
  BY <1>4, <1>5, <1>6, <1>7, <1>8 DEF Holds

\* The active turn leaves activeTurns, with its scope and with the query if that ended.
LEMMA EndKeeps ==
    ASSUME HarnessInv, ScopeInv, NEW t \in Turns, Result(t) \/ QueryEnds(t)
    PROVE  Holds'
<1>1. Calm
  BY EndIsCalm
<1>2. active' = 0 /\ UNCHANGED <<owner, starting, stop>>
  BY DEF Result, QueryEnds, ActiveEnds
<1>3. /\ TurnTypes /\ QueryTypes /\ (active # 0 => active \in Turns)
      /\ turn' = IF active = 0 THEN turn
                 ELSE [turn EXCEPT ![active].at = IF @ = "running" THEN "ended" ELSE @]
  BY TurnsAreRefs DEF HarnessInv, Types, TurnTypes, Result, QueryEnds, ActiveEnds
<1>4. /\ \A x \in Turns : turn'[x].cancelled = turn[x].cancelled /\ turn'[x].query = turn[x].query
      /\ \A x \in Turns : turn'[x].at = IF x = active /\ turn[x].at = "running" THEN "ended"
                                        ELSE turn[x].at
  BY <1>3, TurnsAreRefs DEF TurnTypes, TurnRecord
<1>5. \A x \in Turns : active = x => ~Current(x)'
  <2> SUFFICES ASSUME NEW x \in Turns, active = x, Current(x)' PROVE FALSE
    OBVIOUS
  <2>1. scope = x /\ scope' = x
    BY <1>1 DEF Calm, ScopeInv, Currency
  <2>2. scope' = 0
    BY <2>1, TurnsAreRefs DEF Result, QueryEnds, ActiveEnds
  <2> QED
    BY <2>1, <2>2, TurnsAreRefs
<1>6. /\ \A p \in Turns : /\ pump'[p] = "none" <=> pump[p] = "none"
                          /\ pump'[p] = "live" => pump[p] = "live"
      /\ query' = query \/ query' = 0
  <2>1. CASE Result(t)
    BY <2>1 DEF Result, native
  <2>2. CASE QueryEnds(t)
    BY <1>3, <2>2 DEF QueryEnds, QueryTypes
  <2> QED
    BY <2>1, <2>2
<1>7. \A u \in Turns : turn'[u].at \in {"prompting", "applying"} => pump'[turn[u].query] # "live"
  <2> SUFFICES ASSUME NEW u \in Turns, turn'[u].at \in {"prompting", "applying"}
               PROVE  pump'[turn[u].query] # "live"
    OBVIOUS
  <2>1. turn[u].at \in {"prompting", "applying"} /\ u # 0
    BY <1>4, TurnsAreRefs
  <2>2. turn[u].query \in Turns
    BY <2>1, TurnsAreRefs DEF ScopeInv, Queries, Booted, HarnessInv, Types, TurnTypes, TurnRecord
  <2>3. CASE u # active
    BY <1>6, <2>1, <2>2, <2>3 DEF ScopeInv, Queries
  <2>4. CASE u = active
    <3>1. QueryEnds(t)
      BY <2>1, <2>4 DEF Result
    <3>2. pump[turn[u].query] = "live" => turn[u].query = t
      BY <2>1, <2>4, <3>1 DEF ScopeInv, Queries, QueryEnds
    <3>3. pump'[t] = "ended"
      BY <1>3, <3>1 DEF QueryEnds, QueryTypes
    <3> QED
      BY <1>6, <2>2, <3>2, <3>3
  <2> QED
    BY <2>3, <2>4
<1>8. Reservation'
  <2>1. \A x \in Turns : turn'[x].at \in Opening => turn[x].at \in Opening
    BY <1>4 DEF Opening, Early
  <2>2. \A x \in Turns : turn'[x].at # "running"
    BY <1>4 DEF ScopeInv, Reservation
  <2> QED
    BY <1>2, <1>4, <2>1, <2>2 DEF ScopeInv, Reservation
<1>9. Stopping'
  <2>1. \A x \in Turns : turn'[x].at \in Opening => turn[x].at \in Opening
    BY <1>4 DEF Opening, Early
  <2> QED
    BY <1>2, <1>4, <2>1 DEF ScopeInv, Stopping, Saving
<1>10. Currency'
  <2> SUFFICES ASSUME NEW x \in Turns, Current(x)'
               PROVE  /\ scope' = x /\ ~turn'[x].cancelled
                      /\ turn'[x].at \in Booted => active' = x
    BY DEF Currency
  <2>1. Current(x) /\ scope' = x /\ ~turn[x].cancelled /\ (turn[x].at \in Booted => active = x)
    BY <1>1 DEF Calm, ScopeInv, Currency
  <2> QED
    BY <1>4, <1>5, <2>1
<1>11. Queries'
  <2>1. \A p \in Turns : pump'[p] = "none" => query' # p /\ \A u \in Turns : turn'[u].query # p
    BY <1>4, <1>6, TurnsAreRefs DEF ScopeInv, Queries
  <2>2. \A p \in Turns : turn'[p].at \in Early \cup {"unborn"} => pump'[p] = "none"
    BY <1>4, <1>6 DEF ScopeInv, Queries, Early
  <2>3. \A u \in Turns : turn'[u].at \in Booted => turn'[u].query # 0
    BY <1>4 DEF ScopeInv, Queries, Booted
  <2> QED
    BY <1>2, <1>4, <1>7, <2>1, <2>2, <2>3 DEF Queries
<1>12. Working'
  BY <1>2 DEF Working
<1> QED
  BY <1>8, <1>9, <1>10, <1>11, <1>12 DEF Holds

---------------------------------------------------------------------------
\* Cancellations

\* Nothing is current after cancel() ended the scope; its turn keeps its place.
LEMMA StopsKeep ==
    ASSUME HarnessInv, ScopeInv, Calm, NEW who \in Stoppers, NEW chain, Stops(who, chain),
           UNCHANGED <<chat, native>>
    PROVE  Holds'
<1> DEFINE live   == active # 0 /\ ~turn[active].cancelled
           begun  == active = 0 /\ starting
           victim == IF live THEN active ELSE owner
           halts  == /\ turn' = [turn EXCEPT ![victim].cancelled = TRUE,
                                             ![victim].aborted = @ \/ launching = victim]
                     /\ stop' = [stop EXCEPT ![who] = [at |-> "saving", turn |-> victim,
                                                       query |-> 0]]
                     /\ live \/ (begun /\ ~CancelPending(owner))
           joins  == \/ stop' = [stop EXCEPT ![who] = [at |-> "joined", turn |-> owner,
                                                       query |-> 0]]
                     \/ stop' = stop
<1>1. halts \/ (joins /\ turn' = turn)
  BY DEF Stops
<1>2. UNCHANGED <<owner, starting, active, query, pump, mode>> /\ TurnTypes
      /\ (active # 0 => active \in Turns) /\ (owner # 0 => owner \in Turns)
      /\ \A w \in Stoppers : stop[w].turn \in Refs
      /\ stop \in [Stoppers -> [at : {"none", "saving", "joined", "draining"},
                                turn : Refs, query : Refs]]
  BY TurnsAreRefs DEF chat, native, HarnessInv, Types, TurnTypes, HandlerTypes
<1>3. /\ \A x \in Turns : /\ turn'[x].at = turn[x].at /\ turn'[x].query = turn[x].query
                          /\ turn'[x].policy = turn[x].policy
                          /\ turn[x].cancelled => turn'[x].cancelled
      /\ halts => \A x \in Turns : x = victim => turn'[x].cancelled
  <2>1. CASE halts
    <3>1. victim \in Turns
      BY <1>2, <2>1 DEF ScopeInv, Reservation
    <3>2. \A x \in Turns : x # victim => turn'[x] = turn[x]
      BY <1>2, <2>1 DEF TurnTypes
    <3>3. /\ turn'[victim].at = turn[victim].at /\ turn'[victim].query = turn[victim].query
          /\ turn'[victim].policy = turn[victim].policy /\ turn'[victim].cancelled
      BY <1>2, <2>1, <3>1 DEF TurnTypes, TurnRecord
    <3> HIDE DEF victim
    <3> QED
      BY <3>2, <3>3
  <2>2. CASE ~halts
    BY <1>1, <2>2
  <2> QED
    BY <2>1, <2>2
<1>4. \A x \in Turns : ~Current(x)'
  <2> SUFFICES ASSUME NEW x \in Turns, Current(x)' PROVE FALSE
    OBVIOUS
  <2>1. scope' = x
    BY DEF Calm, ScopeInv, Currency
  <2> QED
    BY <2>1, TurnsAreRefs DEF Stops
<1>5. Reservation'
  BY <1>2, <1>3 DEF ScopeInv, Reservation
<1>6. Stopping'
  <2>1. CASE halts
    <3>1. victim \in Turns /\ (turn[victim].at \in Opening => owner = victim /\ starting)
      BY <1>2, <2>1 DEF ScopeInv, Reservation
    <3>2. \A w \in Stoppers : Saving(w) => stop[w].turn # victim
      BY <2>1 DEF ScopeInv, Stopping, CancelPending, Saving
    <3>3. /\ Saving(who)' /\ stop'[who].turn = victim
          /\ \A w \in Stoppers : w # who => stop'[w] = stop[w] /\ Saving(w)' = Saving(w)
      BY <1>2, <2>1 DEF Saving
    <3>4. turn'[victim].cancelled
      BY <1>3, <2>1, <3>1
    <3> HIDE DEF victim
    <3>5. \A w \in Stoppers : Saving(w)' =>
             /\ stop'[w].turn \in Turns /\ turn'[stop'[w].turn].cancelled
             /\ turn'[stop'[w].turn].at \in Opening => owner' = stop'[w].turn /\ starting'
      BY <1>2, <1>3, <3>1, <3>3, <3>4 DEF ScopeInv, Stopping
    <3>6. \A w1, w2 \in Stoppers :
             Saving(w1)' /\ Saving(w2)' /\ stop'[w1].turn = stop'[w2].turn => w1 = w2
      BY <3>2, <3>3 DEF ScopeInv, Stopping
    <3> QED
      BY <3>5, <3>6 DEF Stopping
  <2>2. CASE joins /\ turn' = turn
    <3>1. \A w \in Stoppers : Saving(w)' => Saving(w) /\ stop'[w].turn = stop[w].turn
      BY <1>2, <2>2 DEF Saving
    <3> QED
      BY <1>2, <2>2, <3>1 DEF ScopeInv, Stopping
  <2> QED
    BY <1>1, <2>1, <2>2
<1>7. Currency'
  BY <1>4 DEF Currency
<1>8. Queries'
  BY <1>2, <1>3 DEF ScopeInv, Queries
<1>9. Working'
  <2> SUFFICES ASSUME active # 0
               PROVE  /\ ~Current(active)'
                      /\ turn'[active].at \in {"applying", "running"}
                            => mode[turn'[active].query] = turn'[active].policy
    BY <1>2 DEF Working
  <2>1. PICK x \in Turns : x = active
    BY <1>2
  <2>2. Current(active)' = Current(x)'
    BY <1>2, <2>1 DEF Current
  <2> QED
    BY <1>3, <1>4, <2>1, <2>2 DEF ScopeInv, Working
<1> QED
  BY <1>5, <1>6, <1>7, <1>8, <1>9 DEF Holds

LEMMA StoppingKeeps ==
    ASSUME HarnessInv, ScopeInv, UserStops \/ ChangeSaved
    PROVE  Holds'
<1>1. Calm /\ UNCHANGED <<chat, native>>
  BY StoppingIsCalm DEF UserStops, ChangeSaved
<1>2. ASSUME NEW who \in Stoppers, NEW c, Stops(who, c) PROVE Holds'
  BY <1>1, <1>2, StopsKeep
<1>3. CASE UNCHANGED <<turn, stop>>
  <2>1. QueriesEnd /\ StopsEnd /\ UNCHANGED <<owner, starting, active>>
    BY <1>1, <1>3, QueriesRest DEF StopsEnd, Saving, chat
  <2> QED
    BY <1>1, <1>3, <2>1, QueriesEndKeeps
<1>4. UserStop \in Stoppers /\ ChangeStop \in Stoppers
  BY DEF Stoppers
<1> QED
  BY <1>2, <1>3, <1>4 DEF UserStops, ChangeSaved

\* The cancelled turn leaves, with its reservation and, once booted, with its query.
LEMMA InterruptedKeeps ==
    ASSUME HarnessInv, ScopeInv, NEW who \in Stoppers, Interrupted(who)
    PROVE  Holds'
<1> DEFINE t == stop[who].turn
<1>1. Calm
  BY InterruptedIsCalm
<1>2. /\ TurnTypes /\ QueryTypes /\ Saving(who) /\ t \in Turns /\ turn[t].cancelled
      /\ (turn[t].at \in Opening => owner = t /\ starting)
      /\ (active # 0 => active \in Turns)
  BY TurnsAreRefs
  DEF Interrupted, Saving, ScopeInv, Stopping, HarnessInv, Types, TurnTypes
<1>3. /\ starting' = (starting /\ owner # t)
      /\ owner' = IF owner = t /\ turn[t].at \in {"running", "ended"} THEN 0 ELSE owner
      /\ active' = IF turn[t].at \in Booted THEN 0 ELSE active
      /\ UNCHANGED <<query, mode>>
  BY DEF Interrupted
<1>4. /\ \A x \in Turns : turn'[x].cancelled = turn[x].cancelled
                          /\ turn'[x].query = turn[x].query /\ turn'[x].policy = turn[x].policy
      /\ \A x \in Turns : turn'[x].at = IF x = t /\ turn[x].at = "running" THEN "ended"
                                        ELSE turn[x].at
  <2>1. turn' = [turn EXCEPT ![t].at = IF @ = "running" THEN "ended" ELSE @]
    BY DEF Interrupted
  <2> HIDE DEF t
  <2> QED
    BY <1>2, <2>1 DEF TurnTypes, TurnRecord
<1>5. \/ turn[t].at \in Booted /\ query \in Turns /\ Retire(query)
      \/ (turn[t].at \notin {"prompting", "applying"} \/ query = 0) /\ pump' = pump
  BY <1>2, TurnsAreRefs DEF Interrupted, QueryTypes
<1>6. \A w \in Stoppers : Saving(w)' => w # who /\ Saving(w) /\ stop'[w] = stop[w]
  <2>1. \E s \in {NoStop, [at |-> "draining", turn |-> 0, query |-> query]} :
           stop' = [stop EXCEPT ![who] = s]
    BY DEF Interrupted
  <2> QED
    BY <2>1 DEF Saving, NoStop, HarnessInv, Types, HandlerTypes
<1> HIDE DEF t
<1>7. turn[t].at \in Booted => active \in {0, t}
  BY <1>2 DEF ScopeInv, Reservation, Booted, Opening, Early
<1>8. /\ \A p \in Turns : /\ pump'[p] = "none" <=> pump[p] = "none"
                          /\ pump'[p] = "live" => pump[p] = "live"
      /\ turn[t].at \notin Booted => pump' = pump
  BY <1>2, <1>5 DEF Retire, QueryTypes, Booted
<1>9. Reservation'
  <2>1. starting' => owner' # 0
    BY <1>3 DEF ScopeInv, Reservation
  <2>2. \A x \in Turns : turn'[x].at \in Opening /\ ~turn'[x].cancelled => owner' = x /\ starting'
    <3> SUFFICES ASSUME NEW x \in Turns, turn'[x].at \in Opening, ~turn'[x].cancelled
                 PROVE  owner' = x /\ starting'
      OBVIOUS
    <3>1. x # t /\ turn[x].at \in Opening /\ ~turn[x].cancelled
      BY <1>2, <1>4
    <3>2. owner = x /\ starting
      BY <3>1 DEF ScopeInv, Reservation
    <3> QED
      BY <1>3, <3>1, <3>2
  <2>3. active' # 0 => turn'[active'].at \in Booted /\ owner' \in {0, active'}
    <3>1. active' # 0 => active' = active /\ active \in Turns /\ turn[t].at \notin Booted
      BY <1>2, <1>3
    <3>2. active' # 0 => turn'[active].at = turn[active].at
      BY <1>4, <3>1 DEF Booted
    <3> QED
      BY <1>3, <3>1, <3>2 DEF ScopeInv, Reservation
  <2>4. \A x \in Turns : turn'[x].at = "running" => active' = x
    <3> SUFFICES ASSUME NEW x \in Turns, turn'[x].at = "running" PROVE active' = x
      OBVIOUS
    <3>1. x # t /\ turn[x].at = "running" /\ x # 0
      BY <1>4, TurnsAreRefs
    <3>2. active = x
      BY <3>1 DEF ScopeInv, Reservation
    <3> QED
      BY <1>3, <1>7, <3>1, <3>2
  <2> QED
    BY <2>1, <2>2, <2>3, <2>4 DEF Reservation
<1>10. Stopping'
  <2>1. \A w \in Stoppers : Saving(w)' =>
           /\ stop[w].turn \in Turns /\ stop[w].turn # t /\ turn[stop[w].turn].cancelled
           /\ turn[stop[w].turn].at \in Opening => owner = stop[w].turn /\ starting
    BY <1>2, <1>6 DEF ScopeInv, Stopping, t
  <2>2. \A w \in Stoppers : Saving(w)' =>
           /\ stop'[w].turn \in Turns /\ turn'[stop'[w].turn].cancelled
           /\ turn'[stop'[w].turn].at \in Opening => owner' = stop'[w].turn /\ starting'
    BY <1>3, <1>4, <1>6, <2>1
  <2>3. \A w1, w2 \in Stoppers :
           Saving(w1)' /\ Saving(w2)' /\ stop'[w1].turn = stop'[w2].turn => w1 = w2
    BY <1>6 DEF ScopeInv, Stopping
  <2> QED
    BY <2>2, <2>3 DEF Stopping
<1>11. Currency'
  <2> SUFFICES ASSUME NEW x \in Turns, Current(x)'
               PROVE  /\ scope' = x /\ ~turn'[x].cancelled
                      /\ turn'[x].at \in Booted => active' = x
    BY DEF Currency
  <2>1. Current(x) /\ scope' = x /\ ~turn[x].cancelled /\ (turn[x].at \in Booted => active = x)
    BY <1>1 DEF Calm, ScopeInv, Currency
  <2>2. x # t /\ x # 0 /\ turn'[x].at = turn[x].at
    BY <1>2, <1>4, <2>1, TurnsAreRefs
  <2> QED
    BY <1>3, <1>4, <1>7, <2>1, <2>2
<1>12. Queries'
  <2>1. \A p \in Turns : pump'[p] = "none" => query' # p /\ \A u \in Turns : turn'[u].query # p
    BY <1>3, <1>4, <1>8 DEF ScopeInv, Queries
  <2>2. \A p \in Turns : turn'[p].at \in Early \cup {"unborn"} => pump'[p] = "none"
    BY <1>4, <1>8 DEF ScopeInv, Queries, Early
  <2>3. \A u \in Turns : turn'[u].at \in Booted => turn'[u].query # 0
    BY <1>4 DEF ScopeInv, Queries, Booted
  <2>4. \A u \in Turns : turn'[u].at \in {"prompting", "applying"} /\ u # active'
                            => pump'[turn'[u].query] # "live"
    <3> SUFFICES ASSUME NEW u \in Turns, turn'[u].at \in {"prompting", "applying"}, u # active'
                 PROVE  pump'[turn[u].query] # "live"
      BY <1>4
    <3>1. turn[u].at \in {"prompting", "applying"} /\ u # 0
      BY <1>4, TurnsAreRefs
    <3>2. turn[u].query \in Turns
      BY <3>1, TurnsAreRefs DEF ScopeInv, Queries, Booted, HarnessInv, Types, TurnTypes, TurnRecord
    <3>3. CASE u # active
      BY <1>8, <3>1, <3>2, <3>3 DEF ScopeInv, Queries
    <3>4. CASE u = active
      <4>1. u = t
        BY <1>3, <1>7, <3>1, <3>4
      <4>2. pump[turn[u].query] = "live" => query = turn[u].query
        BY <3>1, <3>4 DEF ScopeInv, Queries
      <4>3. CASE Retire(query) /\ query \in Turns
        <5>1. pump'[query] # "live"
          BY <1>2, <4>3 DEF Retire, QueryTypes
        <5> QED
          BY <1>8, <3>2, <4>2, <5>1
      <4>4. CASE query = 0 /\ pump' = pump
        BY <3>2, <4>2, <4>4, TurnsAreRefs
      <4> QED
        BY <1>5, <3>1, <4>1, <4>3, <4>4
    <3> QED
      BY <3>3, <3>4
  <2>5. active' # 0 /\ pump'[turn'[active'].query] = "live" => query' = turn'[active'].query
    <3>1. active' # 0 => active' = active /\ active \in Turns /\ turn[t].at \notin Booted
      BY <1>2, <1>3
    <3> QED
      BY <1>3, <1>4, <1>8, <3>1 DEF ScopeInv, Queries
  <2> QED
    BY <2>1, <2>2, <2>3, <2>4, <2>5 DEF Queries
<1>13. Working'
  <2> SUFFICES ASSUME active' # 0
               PROVE  /\ Current(active)' => pump'[turn'[active'].query] = "live"
                      /\ turn'[active'].at \in {"applying", "running"}
                            => mode'[turn'[active'].query] = turn'[active'].policy
    BY DEF Working
  <2>1. PICK x \in Turns : x = active' /\ x = active
    BY <1>2, <1>3
  <2>2. turn'[x].at = turn[x].at /\ pump' = pump
    BY <1>3, <1>4, <1>8 DEF Booted
  <2>3. (Current(x)' => Current(x)) /\ Current(active)' = Current(x)'
    BY <1>1, <2>1 DEF Calm, Current
  <2> QED
    BY <1>3, <1>4, <2>1, <2>2, <2>3 DEF ScopeInv, Working
<1> QED
  BY <1>9, <1>10, <1>11, <1>12, <1>13 DEF Holds

---------------------------------------------------------------------------
\* Admissions, requests and crashes

LEMMA RefusalIsCalm ==
    ASSUME HarnessInv, NEW t \in Turns, NEW v \in Service, v = svc \/ v.blocked,
           Unwinds(t, v), change' = change
    PROVE  Calm
<1>1. TurnTypes /\ \A x \in Turns : turn'[x].rev = turn[x].rev /\ turn'[x].policy = turn[x].policy
  BY TurnKeepsPolicy DEF Unwinds, HarnessInv, Types
<1>2. CASE v = svc
  BY <1>1, <1>2, UnwindsIsCalm, CalmServiceIsCalm
<1>3. CASE v.blocked
  <2>1. svc' = v
    BY <1>3 DEF Unwinds, Finished, CurrentIn
  <2> QED
    BY <1>1, <1>3, <2>1, CalmServiceIsCalm DEF CalmService, Current, CurrentIn
<1> QED
  BY <1>2, <1>3

LEMMA BeginTurnKeeps ==
    ASSUME HarnessInv, HarnessInv', ScopeInv, NEW t \in Turns, BeginTurn(t)
    PROVE  ScopeInv'
<1> DEFINE v == ServiceNow(query, launching)
<1>1. /\ v \in Service /\ (v.blocked \/ (v = svc /\ svc # NoService))
      /\ Same(v, Ensured) /\ Ensured \in Service
  BY ServiceNowIsBlocked, ServiceNowIsSame, EnsuredIsAService DEF HarnessInv, Types
<1>2. /\ turn[t].at = "settling" /\ turn[t].at \in Opening \ Booted
      /\ UNCHANGED <<stored, active, native, change, stop>>
  BY DEF BeginTurn, Opening, Early, Booted
<1>3. CASE Calm /\ \E u : Unwinds(t, u)
  <2>1. Holds'
    BY <1>2, <1>3, QueriesRest, StartUnwinds DEF Unwinds
  <2>2. QuietEffect
    BY BeginTurnIsQuiet DEF HarnessInv, QuietStep
  <2>3. Admissions'
    BY <1>3, <2>2, CalmKeepsAdmissions DEF ScopeInv
  <2> QED
    BY <2>1, <2>3 DEF ScopeInv, Holds
<1>4. CASE Unwinds(t, svc)
  <2>1. Calm
    BY <1>2, <1>4, UnwindsIsCalm, CalmServiceIsCalm DEF HarnessInv, Types, ServiceTypes
  <2> QED
    BY <1>3, <1>4, <2>1
<1>5. CASE Unwinds(t, v)
  BY <1>1, <1>2, <1>3, <1>5, RefusalIsCalm
<1>6. CASE /\ ~turn[t].cancelled /\ ~Blocked /\ stored.rev = v.rev
           /\ svc' = Begun(v, t) /\ scope' = t
           /\ turn' = [turn EXCEPT ![t].at = "preparing", ![t].rev = v.rev,
                                   ![t].policy = v.desired]
           /\ UNCHANGED <<owner, starting>>
  <2> HIDE DEF v
  <2>1. /\ turn'[t].at = "preparing" /\ turn'[t].rev = v.rev /\ turn'[t].policy = v.desired
        /\ t # 0 /\ \A x \in Turns : x # t => turn'[x] = turn[x]
        /\ \A x \in Turns : turn'[x].cancelled = turn[x].cancelled
                            /\ turn'[x].query = turn[x].query
    BY <1>6, TurnsAreRefs DEF HarnessInv, Types, TurnTypes, TurnRecord
  <2>2. /\ svc' # NoService /\ svc'.turn = t /\ svc'.rev = v.rev /\ svc'.desired = v.desired
        /\ v.rev # 0 /\ v.rev \in Nat
    <3>1. svc' = [v EXCEPT !.turn = t, !.blocked = FALSE, !.rejected = FALSE]
      BY <1>6 DEF Begun
    <3>2. svc'.turn = t /\ svc'.rev = v.rev /\ svc'.desired = v.desired
          /\ v.rev # 0 /\ v.rev \in Nat
      BY <1>1, <3>1, BoundAssumption DEF Service, Revs
    <3>3. svc' \in Service
      BY <1>1, <3>1, TurnsAreRefs DEF Service
    <3> QED
      BY <3>2, <3>3, NoServiceIsNone
  <2>3. \A x \in Turns : x # t => turn[x].rev <= v.rev
                                  /\ (turn[x].rev = v.rev => turn[x].policy = v.desired)
    <3>1. CASE svc = NoService
      BY <2>2, <3>1 DEF ScopeInv, Admissions
    <3>2. CASE svc # NoService
      BY <1>1, <3>2 DEF ScopeInv, Admissions, Ensured, Same
    <3> QED
      BY <3>1, <3>2
  <2>4. Admissions'
    <3>1. \A x \in Turns : turn'[x].rev <= svc'.rev
                             /\ (turn'[x].rev = svc'.rev => turn'[x].policy = svc'.desired)
      <4> SUFFICES ASSUME NEW x \in Turns
                   PROVE  turn'[x].rev <= svc'.rev
                          /\ (turn'[x].rev = svc'.rev => turn'[x].policy = svc'.desired)
        OBVIOUS
      <4>1. CASE x = t
        BY <2>1, <2>2, <4>1
      <4>2. CASE x # t
        BY <2>1, <2>2, <2>3, <4>2
      <4> QED
        BY <4>1, <4>2
    <3>2. stored'.rev = svc'.rev /\ change'.at = "none"
      BY <1>2, <1>6, <2>2 DEF Blocked
    <3> QED
      BY <2>2, <3>1, <3>2 DEF Admissions
  <2>5. active # t /\ (active # 0 => active \in Turns)
    BY <1>2, StarterIsIdle, TurnsAreRefs DEF HarnessInv, Types, TurnTypes
  <2>6. Reservation'
    <3>1. \A x \in Turns : turn'[x].at \in Opening /\ ~turn'[x].cancelled
                              => owner = x /\ starting
      BY <1>2, <2>1 DEF ScopeInv, Reservation
    <3>2. \A x \in Turns : turn'[x].at = "running" => active = x
      BY <2>1 DEF ScopeInv, Reservation
    <3> QED
      BY <1>2, <1>6, <2>1, <2>5, <3>1, <3>2 DEF ScopeInv, Reservation
  <2>7. Stopping'
    <3>1. \A x \in Turns : turn'[x].at \in Opening => turn[x].at \in Opening
      BY <1>2, <2>1
    <3>2. stop' = stop /\ owner' = owner /\ starting' = starting
      BY <1>2, <1>6
    <3>3. \A x \in Turns : turn[x].cancelled => turn'[x].cancelled
      BY <2>1
    <3>4. Stopping
      BY DEF ScopeInv
    <3> QED
      BY <3>1, <3>2, <3>3, <3>4 DEF Stopping, Saving
  <2>8. \A x \in Turns : Current(x)' => x = t
    BY <2>2 DEF Current, CurrentIn
  <2>9. Currency'
    BY <1>6, <2>1, <2>8 DEF Currency, Booted
  <2>10. Queries'
    <3>1. \A p \in Turns : pump'[p] = "none" => query' # p /\ \A u \in Turns : turn'[u].query # p
      BY <1>2, <2>1 DEF ScopeInv, Queries, native
    <3>2. \A p \in Turns : turn'[p].at \in Early \cup {"unborn"} => pump'[p] = "none"
      BY <1>2, <2>1 DEF ScopeInv, Queries, Early, native
    <3>3. \A u \in Turns : turn'[u].at \in Booted => turn'[u].query # 0
      BY <2>1 DEF ScopeInv, Queries, Booted
    <3>4. \A u \in Turns : turn'[u].at \in {"prompting", "applying"} /\ u # active'
                              => pump'[turn'[u].query] # "live"
      BY <1>2, <2>1 DEF ScopeInv, Queries, native
    <3>5. active' # 0 /\ pump'[turn'[active'].query] = "live" => query' = turn'[active'].query
      BY <1>2, <2>1, <2>5 DEF ScopeInv, Queries, native
    <3> QED
      BY <3>1, <3>2, <3>3, <3>4, <3>5 DEF Queries
  <2>11. Working'
    <3> SUFFICES ASSUME active # 0
                 PROVE  /\ ~Current(active)'
                        /\ turn'[active].at \in {"applying", "running"}
                              => mode[turn'[active].query] = turn'[active].policy
      BY <1>2 DEF Working, native
    <3>1. PICK x \in Turns : x = active /\ x # t
      BY <2>5
    <3>2. Current(active)' = Current(x)'
      BY <1>2, <3>1 DEF Current
    <3> QED
      BY <2>1, <2>8, <3>1, <3>2 DEF ScopeInv, Working
  <2> QED
    BY <2>4, <2>6, <2>7, <2>9, <2>10, <2>11 DEF ScopeInv
<1> QED
  BY <1>4, <1>5, <1>6 DEF BeginTurn

\* A request revokes: its revision is above that of every turn, and blocked.
LEMMA SetPolicyKeeps ==
    ASSUME HarnessInv, ScopeInv, NEW p \in Policies, SetPolicy(p)
    PROVE  ScopeInv'
<1> DEFINE v == ServiceNow(query, launching)
           running == NativeRuntime(query, launching) # "absent"
<1>1. v \in Service /\ Same(v, Ensured) /\ Ensured \in Service /\ v.rev \in Nat /\ v.rev # 0
  BY ServiceNowIsSame, EnsuredIsAService, BoundAssumption
  DEF HarnessInv, Types, Same, Service, Revs
<1>2. /\ svc' = Requested(v, p, running) /\ UNCHANGED <<stored, scope, chat, native, stop>>
      /\ turn' = IF launching = 0 THEN turn ELSE [turn EXCEPT ![launching].aborted = TRUE]
  BY DEF SetPolicy
<1>3. svc'.rev = v.rev + 1 /\ svc'.blocked
  BY <1>1, <1>2 DEF Requested, Service
<1>4. svc' # NoService
  BY <1>1, <1>3 DEF NoService
<1>5. \A x \in Turns : /\ turn'[x].at = turn[x].at /\ turn'[x].rev = turn[x].rev
                       /\ turn'[x].policy = turn[x].policy /\ turn'[x].query = turn[x].query
                       /\ turn'[x].cancelled = turn[x].cancelled
  BY <1>2 DEF HarnessInv, Types, TurnTypes, TurnRecord
<1>6. \A x \in Turns : turn[x].rev \in Nat /\ turn[x].rev <= v.rev
  <2>1. \A x \in Turns : turn[x].rev \in Nat
    BY BoundAssumption DEF HarnessInv, Types, TurnTypes, TurnRecord, Revs
  <2>2. CASE svc = NoService
    BY <1>1, <2>1, <2>2 DEF ScopeInv, Admissions
  <2>3. CASE svc # NoService
    BY <1>1, <2>1, <2>3 DEF ScopeInv, Admissions, Ensured, Same
  <2> QED
    BY <2>2, <2>3
<1>7. Admissions'
  BY <1>1, <1>3, <1>4, <1>5, <1>6 DEF Admissions
<1>8. \A x \in Turns : ~Current(x)'
  BY <1>3 DEF Current, CurrentIn
<1>9. UNCHANGED <<owner, starting, active, query, pump, mode, stop>>
      /\ (active # 0 => active \in Turns)
  BY <1>2, TurnsAreRefs DEF chat, native, HarnessInv, Types, TurnTypes
<1>10. Reservation'
  BY <1>5, <1>9 DEF ScopeInv, Reservation
<1>11. Stopping'
  BY <1>5, <1>9 DEF ScopeInv, Stopping, Saving
<1>12. Currency'
  BY <1>8 DEF Currency
<1>13. Queries'
  BY <1>5, <1>9 DEF ScopeInv, Queries
<1>14. Working'
  <2>1. active' # 0 => ~Current(active)'
    BY <1>3 DEF Current, CurrentIn
  <2> QED
    BY <1>5, <1>9, <2>1 DEF ScopeInv, Working
<1> QED
  BY <1>7, <1>10, <1>11, <1>12, <1>13, <1>14 DEF ScopeInv

LEMMA CrashKeeps ==
    ASSUME HarnessInv, Crash
    PROVE  ScopeInv'
<1>1. /\ svc' = NoService /\ owner' = 0 /\ ~starting' /\ active' = 0 /\ query' = 0
      /\ change' = NoChange /\ \A w \in Stoppers : stop'[w] = NoStop
  BY DEF Crash
<1>2. \A x \in Turns : /\ turn'[x].at \in {"unborn", "ended"} /\ turn'[x].rev = 0
                       /\ turn'[x].query = 0 /\ x # 0 /\ pump'[x] = "none"
  BY TurnsAreRefs DEF Crash, Unborn
<1>3. Admissions'
  BY <1>1, <1>2 DEF Admissions, NoChange
<1>4. Reservation'
  BY <1>1, <1>2 DEF Reservation, Opening, Early
<1>5. Stopping'
  BY <1>1 DEF Stopping, Saving, NoStop
<1>6. Currency'
  BY <1>1 DEF Currency, Current, CurrentIn
<1>7. Queries' /\ Working'
  BY <1>1, <1>2 DEF Queries, Working, Booted
<1> QED
  BY <1>3, <1>4, <1>5, <1>6, <1>7 DEF ScopeInv

---------------------------------------------------------------------------
\* The theorems

\* A calm step that keeps the turns and the queries in order keeps the invariant.
LEMMA CalmStep ==
    ASSUME HarnessInv, HarnessInv', ScopeInv, QuietStep, Calm, Holds'
    PROVE  ScopeInv'
<1>1. Admissions'
  BY CalmKeepsAdmissions DEF QuietStep, ScopeInv
<1> QED
  BY <1>1 DEF ScopeInv, Holds

LEMMA NextPreservesScope ==
    ASSUME HarnessInv, ScopeInv, [Next]_vars
    PROVE  ScopeInv'
<1>1. HarnessInv' /\ Types /\ Alive
  BY NextPreservesHarness DEF HarnessInv
<1>2. ASSUME NEW t \in Turns,
             \/ Boot(t) \/ Admit(t) \/ Recorded(t) \/ RecordingFails(t)
             \/ OldQueryDrained(t) \/ StartFails(t) \/ Spawned(t) \/ RejectionSaved(t)
      PROVE  ScopeInv'
  <2>1. QuietStep
    BY <1>1, <1>2, BootIsQuiet, AdmitIsQuiet, RecordedIsQuiet, RecordingFailsIsQuiet,
       OldQueryDrainedIsQuiet, StartFailsIsQuiet, SpawnedIsQuiet, RejectionSavedIsQuiet
  <2> QED
    BY <1>1, <1>2, <2>1, StartIsCalm, StartKeeps, CalmStep
<1>3. ASSUME NEW t \in Turns, ModeTaken(t) \/ ModeRefused(t) \/ Prompted(t) \/ ApplyingFails(t)
      PROVE  ScopeInv'
  <2>1. QuietStep
    BY <1>1, <1>3, ModeTakenIsQuiet, ModeRefusedIsQuiet, PromptedIsQuiet, ApplyingFailsIsQuiet
  <2> QED
    BY <1>1, <1>3, <2>1, PromptIsCalm, PromptKeeps, CalmStep
<1>4. ASSUME NEW t \in Turns, Send(t) PROVE ScopeInv'
  BY <1>1, <1>4, SendIsQuiet, StartIsCalm, SendKeeps, CalmStep
<1>5. ASSUME NEW t \in Turns, Result(t) \/ QueryEnds(t) PROVE ScopeInv'
  BY <1>1, <1>5, ResultIsQuiet, QueryEndsIsQuiet, EndIsCalm, EndKeeps, CalmStep
<1>6. ASSUME NEW w \in Stoppers, Interrupted(w) PROVE ScopeInv'
  BY <1>1, <1>6, InterruptedIsQuiet, InterruptedIsCalm, InterruptedKeeps, CalmStep
<1>7. ASSUME UserStops \/ ChangeSaved PROVE ScopeInv'
  BY <1>1, <1>7, UserStopsIsQuiet, ChangeSavedIsQuiet, StoppingIsCalm, StoppingKeeps, CalmStep
<1>8. ASSUME \/ \E t \in Turns : PumpDrains(t) \/ Ask(t)
             \/ IdleClose \/ IdleClosed \/ \E w \in Stoppers : StopEnds(w)
             \/ ChangeCloses \/ ChangeRetired \/ ChangeDone \/ ChangeFails
             \/ Present \/ Answer \/ Look \/ StateSaved
      PROVE  ScopeInv'
  <2>1. QuietStep
    BY <1>1, <1>8, PumpDrainsIsQuiet, AskIsQuiet, IdleCloseIsQuiet, IdleClosedIsQuiet,
       StopEndsIsQuiet, ChangeClosesIsQuiet, ChangeRetiredIsQuiet, ChangeDoneIsQuiet,
       ChangeFailsIsQuiet, PresentIsQuiet, AnswerIsQuiet, LookIsQuiet, StateSavedIsQuiet
  <2> QED
    BY <1>1, <1>8, <2>1, RestIsCalm, RestKeeps, CalmStep
<1>9. ASSUME NEW t \in Turns, Advance(t) PROVE ScopeInv'
  BY <1>1, <1>2, <1>3, <1>9, BeginTurnKeeps DEF Advance
<1>10. CASE UNCHANGED vars
  BY <1>10 DEF vars, ScopeInv, Admissions, Reservation, Stopping, Saving, Currency, Current,
               CurrentIn, Queries, Working
<1> QED
  BY <1>4, <1>5, <1>6, <1>7, <1>8, <1>9, <1>10, SetPolicyKeeps, CrashKeeps
  DEF Next, ChangeGoesOn

\* The invariant of the turns: who holds the reservation, the scope and the registered
\* query, through every interleaving of starts, cancellations, changes and crashes.
THEOREM ScopeInvariant == Spec => []ScopeInv
<1>1. Init => ScopeInv
  BY InitScopeInv
<1>2. HarnessInv /\ ScopeInv /\ [Next]_vars => ScopeInv'
  BY NextPreservesScope
<1> QED
  BY <1>1, <1>2, HarnessInvariant, PTL DEF Spec

\* A turn whose tool calls are admitted works in the registered query, under the policy
\* the user asked for last, and that policy is the stored one: for any number of turns,
\* policies, changes, failed saves and crashes.
THEOREM CallsRunUnderDesired == Spec => []RunsUnderDesired
<1>1. HarnessInv /\ ScopeInv => RunsUnderDesired
  BY ScopeInvGivesProperty
<1> QED
  BY <1>1, HarnessInvariant, ScopeInvariant, PTL

---------------------------------------------------------------------------
\* What is shown as effective

\* An admitted turn that may still launch its query.
Admitted   == {"preparing", "booting", "recording", "draining", "spawning"}
Pursued(x) == turn[x].at \in Admitted /\ ~turn[x].cancelled

\* The acknowledged policy is no longer the desired one, and no restart is due.
Stale == svc # NoService /\ svc.effective \notin {NoPolicy, svc.desired} /\ ~svc.restart

\* What the service holds as acknowledged is the mode of the registered query.
Acknowledged ==
    query # 0 /\ svc # NoService /\ svc.effective # NoPolicy => mode[query] = svc.effective

\* A query that is launched gets the mode that is acknowledged, if any is.
Agreed == \A x \in Turns : Pursued(x) => svc.effective \in {NoPolicy, turn[x].policy}

\* An acknowledgement gets stale by a change requested with no runtime.  The change
\* either goes on, and forgets it, or failed before its policy was stored: then no
\* save holds it, and no turn is admitted.
Outdated ==
    Stale =>
        \/ change.at = "stopping" /\ query = 0
        \/ /\ stored.rev # svc.rev
           /\ \/ change.at = "none" /\ \A i \in 1 .. Len(saves) : saves[i].rev # svc.rev
              \/ /\ change.at = "saving" /\ query = 0
                 /\ \A i \in 1 .. Len(saves) : saves[i].rev = svc.rev => saves[i].by = Change

NoneOfChange(c) == \A i \in 1 .. Len(c) : c[i].by # Change
OneOfChange(c)  == \A i, j \in 1 .. Len(c) : c[i].by = Change /\ c[j].by = Change => i = j

\* A change awaits one save, in two of its states.
ChangeSaves ==
    /\ change.at \notin {"saving", "closing"} => NoneOfChange(saves)
    /\ OneOfChange(saves)

ShownInv == Acknowledged /\ Agreed /\ Outdated /\ ChangeSaves

LEMMA InitShownInv == Init => ShownInv
<1> SUFFICES ASSUME Init PROVE ShownInv
  OBVIOUS
<1>1. \A t \in Turns : turn[t] = Unborn
  BY DEF Init
<1>2. Acknowledged /\ Outdated
  BY DEF Init, Acknowledged, Outdated, Stale
<1>3. Agreed
  BY <1>1 DEF Agreed, Pursued, Unborn, Admitted
<1>4. ChangeSaves
  BY DEF Init, ChangeSaves, NoneOfChange, OneOfChange
<1> QED
  BY <1>2, <1>3, <1>4 DEF ShownInv

LEMMA ShownInvGivesProperty ==
    ASSUME HarnessInv, ShownInv
    PROVE  ReportedIsReal
  BY DEF ShownInv, Acknowledged, ReportedIsReal, Reported, NativeRuntime

\* Nothing is current while the acknowledged policy is stale.
LEMMA CurrentIsNotStale ==
    ASSUME HarnessInv, ScopeInv, ShownInv, svc # NoService, ~svc.blocked
    PROVE  ~Stale /\ stored.rev = svc.rev /\ change.at = "none"
<1>1. stored.rev = svc.rev /\ change.at = "none"
  BY DEF ScopeInv, Admissions, HarnessInv, Types, HandlerTypes
<1> QED
  BY <1>1 DEF ShownInv, Outdated

---------------------------------------------------------------------------
\* Faithful steps

\* What is acknowledged was, and its restart is as due as before; no turn is taken up
\* and no query registered, and the mode of the registered one stays.
Kept(v) ==
    v # NoService /\ v.effective # NoPolicy =>
        svc # NoService /\ v.effective = svc.effective /\ v.restart = svc.restart
FaithfulService == Kept(svc')
FaithfulTurns == \A x \in Turns : Pursued(x)' => Pursued(x)
FaithfulQuery == query' # 0 => query' = query /\ mode'[query] = mode[query]

\* The pending saves of the step: all, or all but the one that landed or failed.
Chained(c) ==
    \/ c = saves /\ stored' = stored
    \/ /\ saves # <<>> /\ Head(saves).by # Change /\ c = Tail(saves)
       /\ stored'.rev \in {stored.rev, Head(saves).rev}

\* A save that is not the change's, and not of a revision whose policy is outstanding.
Fresh(w) == w.by # Change /\ (w.rev # 0 /\ Stale => svc'.effective = NoPolicy)

FaithfulSaves(c) ==
    Chained(c) /\ (saves' = c \/ \E w \in Write : Fresh(w) /\ saves' = Append(c, w))

Faithful ==
    /\ FaithfulService /\ FaithfulTurns /\ FaithfulQuery
    /\ FaithfulSaves(saves) \/ FaithfulSaves(Tail(saves))

\* A service that stays asks for the same policy in the same revision.
LEMMA RequestStays ==
    ASSUME QuietEffect, svc # NoService
    PROVE  svc'.rev = svc.rev /\ svc'.desired = svc.desired
  BY DEF QuietEffect, Same, Ensured

LEMMA StalenessStays ==
    ASSUME QuietEffect, FaithfulService, Stale'
    PROVE  Stale /\ svc'.rev = svc.rev /\ svc'.effective # NoPolicy
<1>1. svc # NoService /\ svc'.effective = svc.effective /\ svc'.restart = svc.restart
  BY DEF FaithfulService, Kept, Stale
<1> QED
  BY <1>1, RequestStays DEF Stale

LEMMA FaithfulShows ==
    ASSUME Calm, Acknowledged, Agreed, svc = NoService => \A x \in Turns : ~Pursued(x),
           FaithfulService, FaithfulTurns, FaithfulQuery,
           \A x \in Turns : Pursued(x)' => svc' # NoService
    PROVE  Acknowledged' /\ Agreed'
<1>1. Acknowledged'
  BY DEF Acknowledged, FaithfulService, Kept, FaithfulQuery
<1>2. Agreed'
  <2> SUFFICES ASSUME NEW x \in Turns, Pursued(x)', svc'.effective # NoPolicy
               PROVE  svc'.effective = turn'[x].policy
    BY DEF Agreed
  <2>1. Pursued(x) /\ svc'.effective = svc.effective
    BY DEF FaithfulTurns, FaithfulService, Kept
  <2> QED
    BY <2>1 DEF Agreed, FaithfulService, Kept, Calm
<1> QED
  BY <1>1, <1>2

LEMMA TailOfChange ==
    ASSUME NEW c \in Seq(Write), c # <<>>
    PROVE  /\ OneOfChange(c) => OneOfChange(Tail(c))
           /\ NoneOfChange(c) => NoneOfChange(Tail(c))
           /\ OneOfChange(c) /\ Head(c).by = Change => NoneOfChange(Tail(c))
           /\ \A i \in 1 .. Len(Tail(c)) : \E j \in 1 .. Len(c) : j # 1 /\ Tail(c)[i] = c[j]
<1>1. /\ Len(c) \in Nat /\ Len(c) # 0 /\ Len(Tail(c)) = Len(c) - 1 /\ Head(c) = c[1]
      /\ \A i \in 1 .. Len(Tail(c)) : Tail(c)[i] = c[i + 1]
  OBVIOUS
<1>2. 1 \in 1 .. Len(c) /\ \A i \in 1 .. Len(Tail(c)) : i + 1 \in 1 .. Len(c) /\ i + 1 # 1
  BY <1>1
<1>3. NoneOfChange(c) => NoneOfChange(Tail(c))
  BY <1>1, <1>2 DEF NoneOfChange
<1>4. OneOfChange(c) /\ Head(c).by = Change => NoneOfChange(Tail(c))
  BY <1>1, <1>2 DEF NoneOfChange, OneOfChange
<1>5. OneOfChange(c) => OneOfChange(Tail(c))
  <2> SUFFICES ASSUME OneOfChange(c), NEW i \in 1 .. Len(Tail(c)), NEW j \in 1 .. Len(Tail(c)),
                      Tail(c)[i].by = Change, Tail(c)[j].by = Change
               PROVE  i = j
    BY DEF OneOfChange
  <2>1. i + 1 = j + 1
    BY <1>1, <1>2 DEF OneOfChange
  <2> QED
    BY <2>1
<1> QED
  BY <1>1, <1>2, <1>3, <1>4, <1>5

LEMMA AppendOfChange ==
    ASSUME NEW c \in Seq(Write), NEW w \in Write
    PROVE  /\ w.by # Change /\ OneOfChange(c) => OneOfChange(Append(c, w))
           /\ w.by # Change /\ NoneOfChange(c) => NoneOfChange(Append(c, w))
           /\ NoneOfChange(c) => OneOfChange(Append(c, w))
           /\ \A i \in 1 .. Len(Append(c, w)) :
                 Append(c, w)[i] = w \/ \E j \in 1 .. Len(c) : Append(c, w)[i] = c[j]
<1>1. /\ Len(c) \in Nat /\ Len(Append(c, w)) = Len(c) + 1 /\ Append(c, w)[Len(c) + 1] = w
      /\ \A i \in 1 .. Len(c) : Append(c, w)[i] = c[i]
      /\ \A i \in 1 .. Len(c) + 1 : i \in 1 .. Len(c) \/ i = Len(c) + 1
  OBVIOUS
<1> QED
  BY <1>1 DEF NoneOfChange, OneOfChange

LEMMA FaithfulSavesKeep ==
    ASSUME HarnessInv, ShownInv, QuietEffect, FaithfulService,
           FaithfulQuery, change' = change,
           NEW c \in Seq(Write), FaithfulSaves(c)
    PROVE  Outdated' /\ ChangeSaves'
<1>1. saves \in Seq(Write)
  BY DEF HarnessInv, Types, ServiceTypes
<1>2. /\ OneOfChange(c) /\ (NoneOfChange(saves) => NoneOfChange(c))
      /\ \A i \in 1 .. Len(c) : \E j \in 1 .. Len(saves) : c[i] = saves[j]
  <2>1. OneOfChange(saves)
    BY DEF ShownInv, ChangeSaves
  <2>2. CASE c = saves
    BY <2>1, <2>2
  <2>3. CASE saves # <<>> /\ c = Tail(saves)
    BY <1>1, <2>1, <2>3, TailOfChange
  <2> QED
    BY <2>2, <2>3 DEF FaithfulSaves, Chained
<1>3. ChangeSaves'
  <2>1. CASE saves' = c
    BY <1>2, <2>1 DEF ShownInv, ChangeSaves, OneOfChange, NoneOfChange
  <2>2. ASSUME NEW w \in Write, Fresh(w), saves' = Append(c, w) PROVE ChangeSaves'
    <3>1. OneOfChange(Append(c, w)) /\ (NoneOfChange(saves) => NoneOfChange(Append(c, w)))
      BY <1>2, <2>2, AppendOfChange DEF Fresh
    <3>2. change'.at \notin {"saving", "closing"} => NoneOfChange(Append(c, w))
      BY <3>1 DEF ShownInv, ChangeSaves
    <3> QED
      BY <2>2, <3>1, <3>2 DEF ChangeSaves, OneOfChange, NoneOfChange, Change
  <2> QED
    BY <2>1, <2>2 DEF FaithfulSaves
<1>4. Outdated'
  <2> SUFFICES ASSUME Stale' PROVE Outdated'
    BY DEF Outdated
  <2>1. Stale /\ svc'.rev = svc.rev /\ svc'.effective # NoPolicy /\ svc # NoService
    BY StalenessStays DEF Stale
  <2>2. CASE change.at = "stopping" /\ query = 0
    BY <2>2 DEF Outdated, FaithfulQuery
  <2>3. CASE /\ stored.rev # svc.rev
             /\ \/ change.at = "none" /\ \A i \in 1 .. Len(saves) : saves[i].rev # svc.rev
                \/ /\ change.at = "saving" /\ query = 0
                   /\ \A i \in 1 .. Len(saves) : saves[i].rev = svc.rev => saves[i].by = Change
    <3>1. \A i \in 1 .. Len(saves) : saves[i].rev = svc.rev => change.at = "saving" /\ saves[i].by = Change
      BY <2>3
    <3>2. stored'.rev # svc.rev
      <4>1. saves # <<>> => Head(saves) = saves[1] /\ 1 \in 1 .. Len(saves)
        BY <1>1
      <4> QED
        BY <2>3, <3>1, <4>1 DEF FaithfulSaves, Chained
    <3>3. \A i \in 1 .. Len(c) : c[i].rev = svc.rev => change.at = "saving" /\ c[i].by = Change
      BY <1>2, <3>1
    <3>4. \A i \in 1 .. Len(saves') : saves'[i].rev = svc.rev => change.at = "saving" /\ saves'[i].by = Change
      <4>1. svc.rev # 0
        BY <2>1, BoundAssumption DEF HarnessInv, Types, ServiceTypes, Service, Revs
      <4>2. ASSUME NEW w \in Write, Fresh(w), saves' = Append(c, w)
            PROVE  \A i \in 1 .. Len(saves') : saves'[i].rev = svc.rev => change.at = "saving" /\ saves'[i].by = Change
        <5>1. w.rev = 0
          BY <2>1, <4>2 DEF Fresh
        <5> QED
          BY <3>3, <4>1, <4>2, <5>1, AppendOfChange
      <4> QED
        BY <3>3, <4>2 DEF FaithfulSaves
    <3>5. change.at = "saving" => query' = 0
      BY <2>3 DEF FaithfulQuery
    <3> QED
      BY <2>1, <2>3, <3>2, <3>4, <3>5 DEF Outdated
  <2> QED
    BY <2>1, <2>2, <2>3 DEF ShownInv, Outdated
<1> QED
  BY <1>3, <1>4

\* Without a service no turn is admitted.
LEMMA PursuedIsServed ==
    ASSUME Alive
    PROVE  svc = NoService => \A x \in Turns : ~Pursued(x)
  BY DEF Alive, Pursued, Admitted

LEMMA FaithfulStep ==
    ASSUME HarnessInv, HarnessInv', ShownInv, QuietStep, Calm, Faithful, change' = change
    PROVE  ShownInv'
<1>1. Acknowledged' /\ Agreed'
  <2>1. \A x \in Turns : Pursued(x)' => svc' # NoService
    BY DEF HarnessInv, Alive, Pursued, Admitted
  <2> QED
    BY <2>1, PursuedIsServed, FaithfulShows DEF ShownInv, Faithful, HarnessInv
<1>2. Outdated' /\ ChangeSaves'
  <2>1. saves \in Seq(Write) /\ (saves # <<>> => Tail(saves) \in Seq(Write))
    BY DEF HarnessInv, Types, ServiceTypes
  <2>2. CASE FaithfulSaves(saves)
    BY <2>1, <2>2, FaithfulSavesKeep DEF Faithful, QuietStep
  <2>3. CASE FaithfulSaves(Tail(saves))
    <3>1. CASE saves = <<>>
      <4>1. FaithfulSaves(saves)
        BY <2>3, <3>1 DEF FaithfulSaves, Chained
      <4> QED
        BY <2>2, <4>1
    <3>2. CASE saves # <<>>
      BY <2>1, <2>3, <3>2, FaithfulSavesKeep DEF Faithful, QuietStep
    <3> QED
      BY <3>1, <3>2
  <2> QED
    BY <2>2, <2>3 DEF Faithful
<1> QED
  BY <1>1, <1>2 DEF ShownInv

---------------------------------------------------------------------------
\* Which steps are faithful

LEMMA TurnGoesOn ==
    ASSUME TurnTypes, NEW t, NEW a,
           a \in Admitted => turn[t].at \in Admitted, NEW q,
           \/ turn' = turn \/ turn' = [turn EXCEPT ![t].at = a]
           \/ turn' = [turn EXCEPT ![t].at = a, ![t].query = q]
    PROVE  FaithfulTurns
<1>1. turn \in [Turns -> TurnRecord]
  BY DEF TurnTypes
<1>2. CASE turn' = turn
  BY <1>2 DEF FaithfulTurns, Pursued
<1>3. CASE turn' = [turn EXCEPT ![t].at = a]
  BY <1>1, <1>3 DEF TurnRecord, FaithfulTurns, Pursued
<1>4. CASE turn' = [turn EXCEPT ![t].at = a, ![t].query = q]
  BY <1>1, <1>4 DEF TurnRecord, FaithfulTurns, Pursued
<1> QED
  BY <1>2, <1>3, <1>4

\* What a handler does to a service but the engine's acknowledgement keeps it.
LEMMA ServicesKept ==
    ASSUME NEW v \in Service, NEW t, Kept(v)
    PROVE  Kept(Finished(v, t)) /\ Kept(Rejected(v)) /\ Kept(Retired(v))
           /\ Rejected(v).effective = v.effective /\ Retired(v).effective = NoPolicy
<1>1. v # NoService
  BY NoServiceIsNone
<1>2. Finished(v, t).effective = v.effective /\ Finished(v, t).restart = v.restart
  BY DEF Finished, Service
<1>3. Rejected(v).effective = v.effective /\ Rejected(v).restart = v.restart
  BY DEF Rejected, Service
<1>4. Retired(v).effective = NoPolicy
  BY DEF Retired, Service
<1> QED
  BY <1>1, <1>2, <1>3, <1>4 DEF Kept

LEMMA PresentIsKept == Kept(svc) /\ Kept(NoService)
  BY DEF Kept

LEMMA ServiceNowIsKept ==
    ASSUME ServiceTypes, NEW q, NEW starter
    PROVE  LET v == ServiceNow(q, starter)
           IN  Kept(v) /\ (v.effective = NoPolicy \/ v = svc)
<1>1. Ensured \in Service /\ Kept(Ensured) /\ (Ensured.effective = NoPolicy \/ Ensured = svc)
  BY EnsuredIsAService DEF Ensured, Kept
<1> QED
  BY <1>1, ServicesKept DEF ServiceNow, Reconciled

LEMMA TurnsAreNotChange ==
    /\ \A t \in Turns : t # Change /\ t \in 0 .. ChangeStop
    /\ \A w \in Stoppers : w # Change /\ w \in 0 .. ChangeStop
    /\ 0 # Change /\ 0 \in 0 .. ChangeStop
  BY BoundAssumption DEF Turns, Change, ChangeStop, UserStop, Stoppers

LEMMA NothingLands ==
    ASSUME UNCHANGED <<stored, saves>>
    PROVE  FaithfulSaves(saves)
  BY DEF FaithfulSaves, Chained

LEMMA SaveLands ==
    ASSUME ServiceTypes, NEW by, by # Change, Lands(by) \/ Breaks(by)
    PROVE  Chained(Tail(saves))
  BY DEF ServiceTypes, Saved, Lands, Breaks, HeadIs, Chained

LEMMA SaveIsFresh ==
    ASSUME NEW v \in Service, NEW by \in 0 .. ChangeStop, by # Change,
           Stale => svc'.effective = NoPolicy
    PROVE  Save(v, by) \in Write /\ Fresh(Save(v, by))
  BY DEF Save, Write, Service, Fresh

LEMMA UnwindsIsFaithful ==
    ASSUME TurnTypes, NEW t \in Turns, NEW v, v \in Service \/ v = NoService, Kept(v),
           Unwinds(t, v)
    PROVE  FaithfulService /\ FaithfulTurns
<1>1. FaithfulTurns
  <2>1. turn' = [turn EXCEPT ![t].at = "ended"] /\ "ended" \notin Admitted
    BY DEF Unwinds, Admitted
  <2> QED
    BY <2>1, TurnGoesOn
<1>2. CASE v = NoService
  BY <1>1, <1>2 DEF Unwinds, Finished, CurrentIn, FaithfulService, Kept
<1>3. CASE v \in Service
  <2>1. Kept(Finished(v, t)) /\ svc' \in {v, Finished(v, t)}
    BY <1>3, ServicesKept DEF Unwinds
  <2> QED
    BY <1>1, <2>1 DEF FaithfulService, Kept
<1> QED
  BY <1>1, <1>2, <1>3

LEMMA FailsIsFaithful ==
    ASSUME HarnessInv, ScopeInv, ShownInv, NEW t \in Turns, NEW v \in Service,
           Kept(v), v.effective = NoPolicy \/ v = svc,
           NEW chain, Chained(chain), Fails(t, v, chain)
    PROVE  FaithfulService /\ FaithfulTurns /\ FaithfulSaves(chain)
<1>1. TurnTypes
  BY DEF HarnessInv, Types
<1>2. CASE CurrentIn(v, scope)
  <2>1. FaithfulService
    BY <1>2, ServicesKept DEF Fails, FaithfulService
  <2>2. FaithfulTurns
    <3>1. turn' = [turn EXCEPT ![t].at = "failing"] /\ "failing" \notin Admitted
      BY <1>2 DEF Fails, Admitted
    <3> QED
      BY <1>1, <3>1, TurnGoesOn
  <2>3. Stale => svc'.effective = NoPolicy
    <3>1. svc'.effective = v.effective
      BY <1>2, ServicesKept DEF Fails
    <3>2. ~v.blocked /\ v # NoService
      BY <1>2 DEF CurrentIn
    <3> QED
      BY <3>1, <3>2, CurrentIsNotStale
  <2>4. Rejected(v) \in Service
    BY NoneIsARef, ServiceChanges DEF Same
  <2>5. FaithfulSaves(chain)
    <3>1. Save(Rejected(v), t) \in Write /\ Fresh(Save(Rejected(v), t))
      BY <2>3, <2>4, TurnsAreNotChange, SaveIsFresh
    <3> QED
      BY <1>2, <3>1 DEF Fails, FaithfulSaves
  <2> QED
    BY <2>1, <2>2, <2>5
<1>3. CASE ~CurrentIn(v, scope)
  BY <1>1, <1>3, UnwindsIsFaithful DEF Fails, FaithfulSaves
<1> QED
  BY <1>2, <1>3

LEMMA StartIsFaithful ==
    ASSUME HarnessInv, ScopeInv, ShownInv, NEW t \in Turns,
           \/ Send(t) \/ Boot(t) \/ Admit(t) \/ Recorded(t) \/ RecordingFails(t)
           \/ OldQueryDrained(t) \/ StartFails(t) \/ RejectionSaved(t)
    PROVE  Faithful
<1>1. Types /\ Alive /\ TurnTypes /\ ServiceTypes
  BY DEF HarnessInv, Types
<1>2. svc \in Service \/ svc = NoService
  BY <1>1 DEF ServiceTypes
<1>3. FaithfulQuery
  BY DEF FaithfulQuery, Send, Boot, Admit, Recorded, RecordingFails, OldQueryDrained, StartFails,
         RejectionSaved, native, Unregistered
<1>4. ASSUME Unwinds(t, svc) PROVE FaithfulService /\ FaithfulTurns
  BY <1>1, <1>2, <1>4, PresentIsKept, UnwindsIsFaithful
<1>5. ASSUME NEW chain, Chained(chain), Fails(t, svc, chain),
             turn[t].at \notin {"unborn", "settling", "ended"}
      PROVE  FaithfulService /\ FaithfulTurns /\ FaithfulSaves(chain)
  BY <1>1, <1>5, BusyIsServed, PresentIsKept, FailsIsFaithful
<1>6. ASSUME NEW a, NEW q, svc' = svc, a \in Admitted => turn[t].at \in Admitted,
             \/ turn' = [turn EXCEPT ![t].at = a]
             \/ turn' = [turn EXCEPT ![t].at = a, ![t].query = q]
      PROVE  FaithfulService /\ FaithfulTurns
  BY <1>1, <1>6, TurnGoesOn, PresentIsKept DEF FaithfulService
<1>7. CASE Send(t)
  <2>1. /\ turn' = [turn EXCEPT ![t].at = "settling"] /\ "settling" \notin Admitted
        /\ UNCHANGED <<stored, saves, svc>>
    BY <1>7 DEF Send, Admitted
  <2>2. FaithfulService /\ FaithfulTurns
    BY <1>6, <2>1
  <2> QED
    BY <1>3, <2>1, <2>2, NothingLands DEF Faithful
<1>8. CASE Boot(t)
  BY <1>3, <1>4, <1>6, <1>8, NothingLands DEF Boot, Faithful, Admitted
<1>9. CASE Admit(t)
  <2> DEFINE v == ServiceNow(query, launching)
  <2>1. v \in Service /\ Kept(v) /\ (v.effective = NoPolicy \/ v = svc)
    BY <1>1, ServiceNowIsBlocked, ServiceNowIsKept
  <2>2. stored' = stored /\ turn[t].at = "booting"
    BY <1>9 DEF Admit
  <2>3. CASE Unwinds(t, svc) /\ UNCHANGED saves
    BY <1>3, <1>4, <2>2, <2>3, NothingLands DEF Faithful
  <2>4. CASE Fails(t, v, saves)
    BY <1>3, <2>1, <2>2, <2>4, FailsIsFaithful DEF Faithful, Chained
  <2>5. CASE /\ CurrentIn(v, t) /\ svc' = v /\ saves' = Append(saves, Save(v, t))
             /\ turn' = [turn EXCEPT ![t].at = "recording"]
    <3> HIDE DEF v
    <3>1. FaithfulService /\ FaithfulTurns
      <4>1. turn[t].at \in Admitted
        BY <2>2 DEF Admitted
      <4> QED
        BY <1>1, <2>1, <2>5, <4>1, TurnGoesOn DEF FaithfulService
    <3>2. Stale => svc'.effective = NoPolicy
      BY <2>1, <2>5, CurrentIsNotStale DEF CurrentIn
    <3>3. Save(v, t) \in Write /\ Fresh(Save(v, t))
      BY <2>1, <3>2, TurnsAreNotChange, SaveIsFresh
    <3> QED
      BY <1>3, <2>2, <2>5, <3>1, <3>3 DEF Faithful, FaithfulSaves, Chained
  <2> QED
    BY <1>9, <2>3, <2>4, <2>5 DEF Admit
<1>10. ASSUME Lands(t) \/ Breaks(t) PROVE Chained(Tail(saves))
  BY <1>1, <1>10, TurnsAreNotChange, SaveLands
<1>11. CASE Recorded(t)
  <2>1. FaithfulSaves(Tail(saves))
    BY <1>10, <1>11 DEF Recorded, FaithfulSaves
  <2>2. FaithfulService /\ FaithfulTurns
    BY <1>4, <1>6, <1>11 DEF Recorded, Registers, Admitted
  <2> QED
    BY <1>3, <2>1, <2>2 DEF Faithful
<1>12. CASE RecordingFails(t)
  BY <1>3, <1>5, <1>10, <1>12 DEF RecordingFails, Faithful
<1>13. CASE OldQueryDrained(t)
  BY <1>3, <1>4, <1>6, <1>13, NothingLands DEF OldQueryDrained, Faithful, Admitted
<1>14. CASE StartFails(t)
  BY <1>3, <1>5, <1>14 DEF StartFails, Faithful, Chained
<1>15. CASE RejectionSaved(t)
  BY <1>3, <1>4, <1>10, <1>15 DEF RejectionSaved, Faithful, FaithfulSaves
<1> QED
  BY <1>7, <1>8, <1>9, <1>11, <1>12, <1>13, <1>14, <1>15

\* A query is launched by a turn that was admitted under what is acknowledged.
LEMMA SpawnedShows ==
    ASSUME HarnessInv, HarnessInv', ScopeInv, ShownInv, Calm, QuietStep, NEW t \in Turns, Spawned(t)
    PROVE  ShownInv'
<1>1. Types /\ Alive /\ TurnTypes /\ ServiceTypes /\ QueryTypes /\ svc \in Service /\ svc # NoService
  BY BusyIsServed DEF HarnessInv, Types, Spawned
<1>2. turn[t].at = "spawning" /\ UNCHANGED <<stored, saves, change>> /\ turn[t].at \in Admitted
  BY DEF Spawned, Admitted
<1>3. CASE Unwinds(t, svc) /\ UNCHANGED native
  <2>1. FaithfulService /\ FaithfulTurns
    BY <1>1, <1>3, PresentIsKept, UnwindsIsFaithful
  <2>2. Faithful
    BY <1>2, <1>3, <2>1, NothingLands DEF Faithful, FaithfulQuery, native
  <2> QED
    BY <1>2, <2>2, FaithfulStep
<1>4. CASE /\ Reserved(t) /\ query' = t /\ mode' = [mode EXCEPT ![t] = turn[t].policy]
           /\ Registers(t, t)
  <2>1. Pursued(t) /\ change.at = "none"
    BY <1>2, <1>4 DEF Pursued, Reserved, Blocked
  <2>2. \/ /\ UNCHANGED <<svc, scope>>
           /\ turn' = [turn EXCEPT ![t].at = "prompting", ![t].query = t]
        \/ Unwinds(t, svc)
    BY <1>4 DEF Registers
  <2>3. FaithfulService /\ FaithfulTurns
    <3>1. CASE Unwinds(t, svc)
      BY <1>1, <3>1, PresentIsKept, UnwindsIsFaithful
    <3>2. CASE UNCHANGED <<svc, scope>> /\ turn' = [turn EXCEPT ![t].at = "prompting", ![t].query = t]
      <4>1. "prompting" \notin Admitted
        BY DEF Admitted
      <4> QED
        BY <1>1, <3>2, <4>1, TurnGoesOn, PresentIsKept DEF FaithfulService
    <3> QED
      BY <2>2, <3>1, <3>2
  <2>4. Agreed'
    <3> SUFFICES ASSUME NEW x \in Turns, Pursued(x)', svc'.effective # NoPolicy
                 PROVE  svc'.effective = turn'[x].policy
      BY DEF Agreed
    <3>1. Pursued(x) /\ svc' # NoService
      BY <2>3 DEF FaithfulTurns, HarnessInv, Alive, Pursued, Admitted
    <3> QED
      BY <2>3, <3>1 DEF ShownInv, Agreed, FaithfulService, Kept, Calm
  <2>5. Acknowledged'
    <3> SUFFICES ASSUME svc' # NoService, svc'.effective # NoPolicy
                 PROVE  mode'[query'] = svc'.effective
      BY DEF Acknowledged
    <3>1. mode'[query'] = turn[t].policy
      BY <1>1, <1>4 DEF QueryTypes
    <3>2. svc'.effective = svc.effective
      BY <2>3 DEF FaithfulService, Kept
    <3> QED
      BY <2>1, <3>1, <3>2 DEF ShownInv, Agreed
  <2>6. Outdated'
    <3> SUFFICES ASSUME Stale' PROVE Outdated'
      BY DEF Outdated
    <3>1. Stale /\ svc'.rev = svc.rev
      BY <2>3, StalenessStays DEF QuietStep
    <3> QED
      BY <1>2, <2>1, <3>1 DEF ShownInv, Outdated
  <2>7. ChangeSaves'
    BY <1>2 DEF ShownInv, ChangeSaves, NoneOfChange, OneOfChange, Change
  <2> QED
    BY <2>4, <2>5, <2>6, <2>7 DEF ShownInv
<1> QED
  BY <1>3, <1>4 DEF Spawned

LEMMA PromptFailsIsFaithful ==
    ASSUME HarnessInv, NEW t \in Turns, svc \in Service, PromptFails(t),
           \A q \in Refs : q # turn[t].query => mode'[q] = mode[q]
    PROVE  FaithfulService /\ FaithfulTurns /\ FaithfulQuery
<1>1. FaithfulService /\ FaithfulTurns
  BY PresentIsKept, UnwindsIsFaithful DEF PromptFails, HarnessInv, Types
<1>2. FaithfulQuery
  BY DEF FaithfulQuery, PromptFails, Unregistered, HarnessInv, Types, QueryTypes
<1> QED
  BY <1>1, <1>2

LEMMA PromptIsFaithful ==
    ASSUME HarnessInv, ScopeInv, ShownInv, NEW t \in Turns,
           \/ ModeRefused(t) \/ Prompted(t) \/ ApplyingFails(t)
           \/ ModeTaken(t) /\ ~PolicyCurrent(t)
    PROVE  Faithful
<1>1. Types /\ Alive /\ TurnTypes /\ ServiceTypes /\ svc \in Service
  BY BusyIsServed DEF HarnessInv, Types, ModeTaken, ModeRefused, Prompted, ApplyingFails
<1>2. ASSUME Lands(t) \/ Breaks(t) PROVE Chained(Tail(saves))
  BY <1>1, <1>2, TurnsAreNotChange, SaveLands
<1>3. ASSUME PromptFails(t), mode' = mode
      PROVE  FaithfulService /\ FaithfulTurns /\ FaithfulQuery
  BY <1>1, <1>3, PromptFailsIsFaithful
<1>4. CASE ModeRefused(t)
  BY <1>3, <1>4, NothingLands DEF ModeRefused, Faithful
<1>5. CASE ApplyingFails(t)
  BY <1>2, <1>3, <1>5 DEF ApplyingFails, Faithful, FaithfulSaves
<1>6. CASE Prompted(t)
  <2>1. FaithfulSaves(Tail(saves)) /\ mode' = mode
    BY <1>2, <1>6 DEF Prompted, FaithfulSaves
  <2>2. CASE PromptFails(t)
    BY <1>3, <2>1, <2>2 DEF Faithful
  <2>3. CASE turn' = [turn EXCEPT ![t].at = "running"] /\ UNCHANGED <<svc, query>>
    <3>1. "running" \notin Admitted
      BY DEF Admitted
    <3>2. FaithfulTurns
      BY <1>1, <2>3, <3>1, TurnGoesOn
    <3> QED
      BY <2>1, <2>3, <3>2, PresentIsKept DEF Faithful, FaithfulService, FaithfulQuery
  <2> QED
    BY <1>6, <2>2, <2>3 DEF Prompted
<1>7. CASE ModeTaken(t) /\ ~PolicyCurrent(t)
  <2>1. PromptFails(t) /\ UNCHANGED <<stored, saves>>
        /\ mode' = [mode EXCEPT ![turn[t].query] = turn[t].policy]
    BY <1>7 DEF ModeTaken
  <2>2. \A q \in Refs : q # turn[t].query => mode'[q] = mode[q]
    BY <2>1 DEF HarnessInv, Types, QueryTypes
  <2> QED
    BY <1>1, <2>1, <2>2, PromptFailsIsFaithful, NothingLands DEF Faithful
<1> QED
  BY <1>4, <1>5, <1>6, <1>7

\* The acknowledgement of a turn that is current: the desired policy is that of the
\* registered query, and every turn that was admitted otherwise is out of the way.
LEMMA AcknowledgementShows ==
    ASSUME HarnessInv, HarnessInv', ScopeInv, ShownInv, NEW t \in Turns,
           ModeTaken(t), PolicyCurrent(t)
    PROVE  ShownInv'
<1> DEFINE q == turn[t].query
<1>1. /\ turn[t].at = "prompting" /\ pump[q] = "live" /\ svc' = Applied(svc)
      /\ mode' = [mode EXCEPT ![q] = turn[t].policy]
      /\ saves' = Append(saves, Save(Applied(svc), t))
      /\ turn' = [turn EXCEPT ![t].at = "applying"]
      /\ UNCHANGED <<stored, query, change>>
  BY DEF ModeTaken
<1>2. Current(t) /\ svc \in Service /\ svc # NoService /\ turn[t].rev = svc.rev
      /\ turn[t].policy = svc.desired /\ svc.desired # NoPolicy
  <2>1. Current(t) /\ svc # NoService /\ turn[t].rev = svc.rev
    BY DEF PolicyCurrent, Current, CurrentIn
  <2>2. turn[t].policy = svc.desired
    BY <2>1 DEF ScopeInv, Admissions
  <2>3. svc \in Service /\ svc.desired # NoPolicy
    BY <2>1, PolicyAssumption DEF HarnessInv, Types, ServiceTypes, Service
  <2> QED
    BY <2>1, <2>2, <2>3
<1>3. svc'.effective = svc.desired /\ svc'.desired = svc.desired /\ svc'.rev = svc.rev
  BY <1>1, <1>2 DEF Applied, Service
<1>4. active = t /\ query = q /\ q \in Turns
  <2>1. active = t /\ t # 0
    BY <1>1, <1>2, TurnsAreRefs DEF ScopeInv, Currency, Booted
  <2>2. q \in Turns
    BY <1>1, TurnsAreRefs DEF ScopeInv, Queries, Booted, HarnessInv, Types, TurnTypes, TurnRecord
  <2> QED
    BY <1>1, <2>1, <2>2 DEF ScopeInv, Queries
<1>5. Acknowledged'
  <2>1. mode'[query'] = svc.desired
    BY <1>1, <1>2, <1>4 DEF HarnessInv, Types, QueryTypes
  <2> QED
    BY <1>3, <2>1 DEF Acknowledged
<1>6. Agreed'
  <2> SUFFICES ASSUME NEW x \in Turns PROVE ~Pursued(x)'
    BY DEF Agreed
  <2>1. owner \in {0, t} /\ 0 \notin Turns
    BY <1>4, TurnsAreRefs DEF ScopeInv, Reservation
  <2>2. x # t => turn'[x] = turn[x]
    BY <1>1 DEF HarnessInv, Types, TurnTypes
  <2>3. turn'[t].at = "applying"
    BY <1>1 DEF HarnessInv, Types, TurnTypes, TurnRecord
  <2>4. x # t => ~Pursued(x)
    BY <2>1 DEF ScopeInv, Reservation, Pursued, Admitted, Opening, Early
  <2> QED
    BY <2>2, <2>3, <2>4 DEF Pursued, Admitted
<1>7. Outdated'
  BY <1>3 DEF Outdated, Stale
<1>8. ChangeSaves'
  <2>1. Applied(svc) \in Service /\ saves \in Seq(Write)
    BY <1>2, NoneIsARef, ServiceChanges DEF Same, HarnessInv, Types, ServiceTypes
  <2>2. Save(Applied(svc), t) \in Write /\ Save(Applied(svc), t).by # Change
    BY <2>1, TurnsAreNotChange DEF Save, Write, Service
  <2>3. OneOfChange(Append(saves, Save(Applied(svc), t)))
        /\ (NoneOfChange(saves) => NoneOfChange(Append(saves, Save(Applied(svc), t))))
    BY <2>1, <2>2, AppendOfChange DEF ShownInv, ChangeSaves
  <2> QED
    BY <1>1, <2>3 DEF ShownInv, ChangeSaves, OneOfChange, NoneOfChange, Change
<1> QED
  BY <1>5, <1>6, <1>7, <1>8 DEF ShownInv

LEMMA RestIsFaithful ==
    ASSUME HarnessInv, ScopeInv, ShownInv,
           \/ \E t \in Turns : PumpDrains(t) \/ Ask(t)
           \/ IdleClose \/ IdleClosed \/ \E w \in Stoppers : StopEnds(w)
           \/ Present \/ Answer \/ Look \/ StateSaved
    PROVE  Faithful
<1>1. ServiceTypes
  BY DEF HarnessInv, Types
<1>2. turn' = turn /\ mode' = mode /\ (query' # 0 => query' = query)
  BY DEF PumpDrains, Ask, IdleClose, IdleClosed, StopEnds, Present, Answer, Look, StateSaved,
         Unregistered, native
<1>3. FaithfulTurns /\ FaithfulQuery
  BY <1>2 DEF FaithfulTurns, FaithfulQuery, Pursued
<1>4. CASE UNCHANGED <<stored, saves, svc>>
  BY <1>3, <1>4, NothingLands, PresentIsKept DEF Faithful, FaithfulService
<1>5. CASE StateSaved
  <2>1. Chained(Tail(saves)) /\ saves' = Tail(saves)
    BY <1>1, <1>5, TurnsAreNotChange, SaveLands DEF StateSaved
  <2>2. svc' = svc
    BY <1>5 DEF StateSaved
  <2> QED
    BY <1>3, <2>1, <2>2, PresentIsKept DEF Faithful, FaithfulSaves, FaithfulService
<1>6. CASE Look
  <2>1. svc \in Service /\ svc' = Retired(svc) /\ UNCHANGED <<stored, saves>>
    BY <1>1, <1>6 DEF Look, ServiceTypes
  <2> QED
    BY <1>3, <2>1, ServicesKept, PresentIsKept, NothingLands DEF Faithful, FaithfulService
<1>7. CASE IdleClosed /\ UNCHANGED stored /\ ~UNCHANGED <<svc, saves>>
  <2>1. /\ svc' = Retired(Ensured) /\ saves' = Append(saves, Save(Retired(Ensured), 0))
    BY <1>7 DEF IdleClosed, RetiresIfAbsent
  <2>2. Ensured \in Service /\ Retired(Ensured) \in Service /\ svc'.effective = NoPolicy
    BY <1>1, <2>1, EnsuredIsAService, NoneIsARef, ServiceChanges DEF Same, Retired, Service
  <2>3. Save(Retired(Ensured), 0) \in Write /\ Fresh(Save(Retired(Ensured), 0))
    BY <2>2, TurnsAreNotChange, SaveIsFresh
  <2> QED
    BY <1>3, <1>7, <2>1, <2>2, <2>3 DEF Faithful, FaithfulService, Kept, FaithfulSaves, Chained
<1> QED
  BY <1>4, <1>5, <1>6, <1>7
  DEF PumpDrains, Ask, IdleClose, IdleClosed, StopEnds, Present, Answer

LEMMA EndIsFaithful ==
    ASSUME HarnessInv, ScopeInv, ShownInv, NEW t \in Turns, Result(t) \/ QueryEnds(t)
    PROVE  Faithful
<1>1. Types /\ Alive /\ TurnTypes /\ ServiceTypes /\ svc \in Service /\ active \in Refs
  BY BusyIsServed DEF HarnessInv, Types, TurnTypes, Result, QueryEnds
<1>2. FaithfulTurns
  BY <1>1 DEF FaithfulTurns, Pursued, Admitted, TurnTypes, TurnRecord, Result, QueryEnds,
              ActiveEnds
<1>3. FaithfulQuery
  BY DEF FaithfulQuery, Result, QueryEnds, native
<1>4. Finished(svc, active) \in Service /\ Kept(Finished(svc, active)) /\ Kept(svc)
  BY <1>1, ServiceChanges, ServicesKept, PresentIsKept DEF Same
<1>5. CASE UNCHANGED <<stored, saves>> /\ svc' \in {svc, Finished(svc, active)}
  <2>1. FaithfulService
    BY <1>4, <1>5 DEF FaithfulService
  <2> QED
    BY <1>2, <1>3, <1>5, <2>1, NothingLands DEF Faithful
<1>6. ASSUME NEW v \in {svc, Finished(svc, active)}, stored' = stored,
             svc' = Retired(v), saves' = Append(saves, Save(Retired(v), 0))
      PROVE  Faithful
  <2>1. v \in Service /\ Kept(v)
    BY <1>1, <1>4
  <2>2. Retired(v) \in Service /\ Kept(Retired(v)) /\ Retired(v).effective = NoPolicy
    BY <2>1, NoneIsARef, ServiceChanges, ServicesKept DEF Same
  <2>3. Save(Retired(v), 0) \in Write /\ Fresh(Save(Retired(v), 0))
    BY <1>6, <2>2, TurnsAreNotChange, SaveIsFresh
  <2> QED
    BY <1>2, <1>3, <1>6, <2>2, <2>3 DEF Faithful, FaithfulService, FaithfulSaves, Chained
<1>7. CASE Result(t)
  BY <1>5, <1>7 DEF Result, ActiveEnds
<1>8. CASE QueryEnds(t)
  BY <1>5, <1>6, <1>8 DEF QueryEnds
<1> QED
  BY <1>7, <1>8

LEMMA StopsIsFaithful ==
    ASSUME HarnessInv, NEW who \in Stoppers, NEW chain, Stops(who, chain)
    PROVE  /\ FaithfulService /\ FaithfulTurns
           /\ saves' = chain \/ saves' = Append(chain, StopWrite(who))
           /\ StopWrite(who) \in Write /\ Fresh(StopWrite(who))
<1>1. TurnTypes /\ (svc \in Service \/ svc = NoService)
  BY DEF HarnessInv, Types, ServiceTypes
<1>2. svc' = Finished(svc, scope)
  BY DEF Stops
<1>3. FaithfulService
  <2>1. CASE svc = NoService
    BY <1>2, <2>1 DEF Finished, CurrentIn, FaithfulService, Kept
  <2>2. CASE svc \in Service
    BY <1>2, <2>2, ServicesKept, PresentIsKept DEF FaithfulService
  <2> QED
    BY <1>1, <2>1, <2>2
<1>4. FaithfulTurns
  <2>1. CASE turn' = turn
    BY <2>1 DEF FaithfulTurns, Pursued
  <2>2. CASE turn' # turn
    <3> DEFINE victim == IF active # 0 /\ ~turn[active].cancelled THEN active ELSE owner
    <3>1. turn' = [turn EXCEPT ![victim].cancelled = TRUE,
                               ![victim].aborted = @ \/ launching = victim]
      BY <2>2 DEF Stops
    <3> QED
      BY <1>1, <3>1 DEF FaithfulTurns, Pursued, TurnTypes, TurnRecord
  <2> QED
    BY <2>1, <2>2
<1>5. StopWrite(who) \in Write /\ Fresh(StopWrite(who))
  BY TurnsAreNotChange, PolicyAssumption DEF StopWrite, Write, Fresh
<1> QED
  BY <1>3, <1>4, <1>5 DEF Stops

LEMMA UserStopsIsFaithful ==
    ASSUME HarnessInv, UserStops
    PROVE  Faithful
<1>1. Stops(UserStop, saves) /\ UserStop \in Stoppers /\ UNCHANGED <<stored, query, mode>>
  BY DEF UserStops, Stoppers, native
<1>2. FaithfulService /\ FaithfulTurns /\ FaithfulSaves(saves)
  BY <1>1, StopsIsFaithful DEF FaithfulSaves, Chained
<1> QED
  BY <1>1, <1>2 DEF Faithful, FaithfulQuery

LEMMA InterruptedIsFaithful ==
    ASSUME HarnessInv, NEW w \in Stoppers, Interrupted(w)
    PROVE  Faithful
<1>1. TurnTypes /\ ServiceTypes
  BY DEF HarnessInv, Types
<1>2. Chained(Tail(saves)) /\ saves' = Tail(saves)
  BY <1>1, TurnsAreNotChange, SaveLands DEF Interrupted
<1>3. FaithfulTurns
  BY <1>1 DEF Interrupted, FaithfulTurns, Pursued, Admitted, TurnTypes, TurnRecord
<1>4. FaithfulService /\ FaithfulQuery
  BY PresentIsKept DEF Interrupted, FaithfulService, FaithfulQuery
<1> QED
  BY <1>2, <1>3, <1>4 DEF Faithful, FaithfulSaves

---------------------------------------------------------------------------
\* The steps of a change, an admission and a crash

\* A change whose policy is stored goes on to forget what was acknowledged; one that
\* fails before leaves no save of its revision.
LEMMA ChangeShows ==
    ASSUME HarnessInv, HarnessInv', ScopeInv, ShownInv, Calm, QuietStep,
           ChangeSaved \/ ChangeCloses \/ ChangeRetired \/ ChangeDone \/ ChangeFails
    PROVE  ShownInv'
<1>1. Types /\ Alive /\ TurnTypes /\ ServiceTypes /\ saves \in Seq(Write) /\ OneOfChange(saves)
  BY DEF HarnessInv, Types, ServiceTypes, ShownInv, ChangeSaves
<1>2. svc \in Service /\ svc # NoService /\ Retired(svc) \in Service
      /\ Kept(Retired(svc)) /\ Retired(svc).effective = NoPolicy
  <2>1. change.at # "none"
    BY DEF ChangeSaved, ChangeCloses, ChangeRetired, ChangeDone, ChangeFails
  <2>2. svc \in Service /\ svc # NoService
    BY <1>1, <2>1 DEF Alive, ServiceTypes
  <2> QED
    BY <2>2, PresentIsKept, NoneIsARef, ServiceChanges, ServicesKept DEF Same
<1>3. FaithfulQuery
  BY DEF FaithfulQuery, ChangeSaved, ChangeCloses, ChangeRetired, ChangeDone, ChangeFails, native,
         Unregistered
<1>4. FaithfulService /\ FaithfulTurns
  <2>1. CASE turn' = turn /\ svc' \in {svc, Retired(svc)}
    <3>1. FaithfulService
      BY <1>2, <2>1, PresentIsKept DEF FaithfulService
    <3> QED
      BY <2>1, <3>1 DEF FaithfulTurns, Pursued
  <2>2. CASE Stops(ChangeStop, Tail(saves))
    BY <2>2, StopsIsFaithful DEF Stoppers
  <2> QED
    BY <2>1, <2>2 DEF ChangeSaved, ChangeCloses, ChangeRetired, ChangeDone, ChangeFails, Closes
<1>5. Acknowledged' /\ Agreed'
  <2>1. \A x \in Turns : Pursued(x)' => svc' # NoService
    BY DEF HarnessInv, Alive, Pursued, Admitted
  <2> QED
    BY <1>1, <1>3, <1>4, <2>1, PursuedIsServed, FaithfulShows DEF ShownInv
<1>6. Stale' => Stale /\ svc'.rev = svc.rev /\ svc'.effective # NoPolicy
  BY <1>4, StalenessStays DEF QuietStep
<1>7. HeadIs(Change) => NoneOfChange(Tail(saves)) /\ Tail(saves) \in Seq(Write)
  BY <1>1, TailOfChange DEF HeadIs
<1>8. CASE ChangeSaved
  <2>1. change.at = "saving" /\ change'.at = "stopping" /\ HeadIs(Change) /\ query' = query
    BY <1>8 DEF ChangeSaved, Lands, native, HarnessInv, Types, HandlerTypes
  <2>2. saves' = Tail(saves) \/ saves' = Append(Tail(saves), StopWrite(ChangeStop))
    BY <1>8 DEF ChangeSaved, Stops
  <2>3. NoneOfChange(saves')
    <3>1. StopWrite(ChangeStop) \in Write /\ StopWrite(ChangeStop).by # Change
      BY TurnsAreNotChange, PolicyAssumption DEF StopWrite, Write, Stoppers
    <3> QED
      BY <1>7, <2>1, <2>2, <3>1, AppendOfChange
  <2>4. ChangeSaves'
    BY <2>3 DEF ChangeSaves, OneOfChange, NoneOfChange, Change
  <2>5. Outdated'
    BY <1>6, <2>1 DEF ShownInv, Outdated
  <2> QED
    BY <1>5, <2>4, <2>5 DEF ShownInv
<1>9. ASSUME NEW q, Closes(q), change.at \in {"stopping", "retiring"}, Stale => q = 0 PROVE ShownInv'
  <2>1. /\ svc' \in {svc, Retired(svc)} /\ svc' \in Service
        /\ saves' = Append(saves, Save(svc', Change)) /\ change'.at = "closing"
    BY <1>2, <1>9 DEF Closes, HarnessInv, Types, HandlerTypes
  <2>2. Save(svc', Change) \in Write
    BY <2>1, BoundAssumption DEF Save, Write, Service, Change, ChangeStop
  <2>3. OneOfChange(Append(saves, Save(svc', Change)))
    BY <1>1, <1>9, <2>2, AppendOfChange DEF ShownInv, ChangeSaves
  <2>4. ChangeSaves'
    BY <2>1, <2>3 DEF ChangeSaves, OneOfChange, Change
  <2>5. ~Stale'
    <3>1. q = 0 => svc' = Retired(svc)
      BY <1>9 DEF Closes, NativeRuntime
    <3> QED
      BY <1>2, <1>6, <1>9, <3>1
  <2> QED
    BY <1>5, <2>4, <2>5 DEF ShownInv, Outdated
<1>10. CASE ChangeCloses
  <2>1. CASE query = 0
    BY <1>9, <1>10, <2>1 DEF ChangeCloses
  <2>2. CASE query # 0
    <3>1. change.at = "stopping" /\ change'.at = "retiring" /\ UNCHANGED <<svc, saves>>
      BY <1>10, <2>2 DEF ChangeCloses, HarnessInv, Types, HandlerTypes
    <3>2. ~Stale'
      BY <1>6, <2>2, <3>1 DEF ShownInv, Outdated
    <3>3. ChangeSaves'
      BY <3>1 DEF ShownInv, ChangeSaves, OneOfChange, NoneOfChange, Change
    <3> QED
      BY <1>5, <3>2, <3>3 DEF ShownInv, Outdated
  <2> QED
    BY <2>1, <2>2
<1>11. CASE ChangeRetired
  <2>1. change.at = "retiring" /\ Closes(Unregistered(change.query))
    BY <1>11 DEF ChangeRetired
  <2>2. ~Stale
    BY <2>1 DEF ShownInv, Outdated
  <2> QED
    BY <1>9, <2>1, <2>2
<1>12. CASE ChangeDone
  <2>1. change.at = "closing" /\ HeadIs(Change) /\ saves' = Tail(saves)
    BY <1>12 DEF ChangeDone, Lands
  <2>2. ~Stale'
    BY <1>6, <2>1 DEF ShownInv, Outdated
  <2>3. ChangeSaves'
    BY <1>7, <2>1 DEF ChangeSaves, OneOfChange, NoneOfChange, Change
  <2> QED
    BY <1>5, <2>2, <2>3 DEF ShownInv, Outdated
<1>13. CASE ChangeFails
  <2>1. change'.at = "none" /\ stored' = stored /\ svc' = svc
    BY <1>13 DEF ChangeFails, NoChange, Breaks
  <2>2. CASE change.at = "retiring" /\ saves' = saves
    <3>1. ~Stale'
      BY <1>6, <2>2 DEF ShownInv, Outdated
    <3>2. ChangeSaves'
      BY <2>1, <2>2 DEF ShownInv, ChangeSaves, OneOfChange, NoneOfChange, Change
    <3> QED
      BY <1>5, <3>1, <3>2 DEF ShownInv, Outdated
  <2>3. CASE change.at \in {"saving", "closing"} /\ HeadIs(Change) /\ saves' = Tail(saves)
    <3>1. ChangeSaves'
      BY <1>7, <2>3 DEF ChangeSaves, OneOfChange, NoneOfChange, Change
    <3>2. Outdated'
      <4> SUFFICES ASSUME Stale' PROVE Outdated'
        BY DEF Outdated
      <4>1. /\ Stale /\ stored.rev # svc.rev
            /\ \A i \in 1 .. Len(saves) : saves[i].rev = svc.rev => saves[i].by = Change
        BY <1>6, <2>3 DEF ShownInv, Outdated
      <4>2. \A i \in 1 .. Len(Tail(saves)) : Tail(saves)[i].rev # svc.rev
        BY <1>1, <1>7, <2>3, <4>1, TailOfChange DEF NoneOfChange, HeadIs
      <4> QED
        BY <2>1, <2>3, <4>1, <4>2 DEF Outdated
    <3> QED
      BY <1>5, <3>1, <3>2 DEF ShownInv
  <2> QED
    BY <1>13, <2>2, <2>3 DEF ChangeFails, Breaks
<1> QED
  BY <1>8, <1>10, <1>11, <1>12, <1>13

LEMMA BeginTurnShows ==
    ASSUME HarnessInv, HarnessInv', ScopeInv, ShownInv, NEW t \in Turns, BeginTurn(t)
    PROVE  ShownInv'
<1> DEFINE v == ServiceNow(query, launching)
<1>1. /\ v \in Service /\ (v.blocked \/ (v = svc /\ svc # NoService))
      /\ Kept(v) /\ (v.effective = NoPolicy \/ v = svc) /\ v # NoService
  BY ServiceNowIsBlocked, ServiceNowIsKept, NoServiceIsNone DEF HarnessInv, Types
<1>2. /\ turn[t].at = "settling" /\ TurnTypes /\ (svc \in Service \/ svc = NoService)
      /\ UNCHANGED <<stored, saves, query, mode, change>>
  BY DEF BeginTurn, native, HarnessInv, Types, ServiceTypes
<1>3. ASSUME NEW u, u = svc \/ u = v, Unwinds(t, u) PROVE ShownInv'
  <2>1. (u \in Service \/ u = NoService) /\ Kept(u)
    BY <1>1, <1>2, <1>3, PresentIsKept
  <2>2. FaithfulService /\ FaithfulTurns
    BY <1>2, <1>3, <2>1, UnwindsIsFaithful
  <2>3. Calm
    <3>1. CASE u = svc
      BY <1>2, <1>3, <3>1, UnwindsIsCalm, CalmServiceIsCalm
    <3>2. CASE u = v
      BY <1>1, <1>2, <1>3, <3>2, RefusalIsCalm
    <3> QED
      BY <1>3, <3>1, <3>2
  <2>4. QuietStep
    BY BeginTurnIsQuiet DEF HarnessInv
  <2> QED
    BY <1>2, <2>2, <2>3, <2>4, NothingLands, FaithfulStep DEF Faithful, FaithfulQuery
<1>4. CASE /\ ~turn[t].cancelled /\ ~Blocked /\ ~v.restart /\ stored.rev = v.rev
           /\ svc' = Begun(v, t)
           /\ turn' = [turn EXCEPT ![t].at = "preparing", ![t].rev = v.rev,
                                   ![t].policy = v.desired]
  <2> HIDE DEF v
  <2>1. svc'.effective = v.effective /\ svc'.desired = v.desired
    BY <1>1, <1>4 DEF Begun, Service
  <2>2. v.effective \in {NoPolicy, v.desired}
    <3>1. CASE v.effective = NoPolicy
      BY <3>1
    <3>2. CASE v = svc
      <4>1. ~Stale
        BY <1>4, <3>2 DEF ShownInv, Outdated, Blocked
      <4> QED
        BY <1>1, <1>4, <3>2, <4>1 DEF Stale
    <3> QED
      BY <1>1, <3>1, <3>2
  <2>3. Acknowledged'
    BY <1>1, <1>2, <2>1 DEF ShownInv, Acknowledged
  <2>4. Agreed'
    <3> SUFFICES ASSUME NEW x \in Turns, Pursued(x)'
                 PROVE  svc'.effective \in {NoPolicy, turn'[x].policy}
      BY DEF Agreed
    <3>1. x = t
      <4>1. owner = t
        BY <1>2, <1>4 DEF ScopeInv, Reservation, Opening, Early
      <4>2. x # t => turn'[x] = turn[x]
        BY <1>2, <1>4 DEF TurnTypes
      <4> QED
        BY <4>1, <4>2 DEF Pursued, Admitted, ScopeInv, Reservation, Opening, Early
    <3>2. turn'[t].policy = v.desired
      BY <1>2, <1>4 DEF TurnTypes, TurnRecord
    <3> QED
      BY <2>1, <2>2, <3>1, <3>2
  <2>5. Outdated'
    BY <2>1, <2>2 DEF Outdated, Stale
  <2>6. ChangeSaves'
    BY <1>2 DEF ShownInv, ChangeSaves, OneOfChange, NoneOfChange, Change
  <2> QED
    BY <2>3, <2>4, <2>5, <2>6 DEF ShownInv
<1> QED
  BY <1>3, <1>4 DEF BeginTurn

\* A request: what was acknowledged is outdated, but nothing pending is of its revision.
LEMMA SetPolicyShows ==
    ASSUME HarnessInv, HarnessInv', ScopeInv, ShownInv, NEW p \in Policies, SetPolicy(p)
    PROVE  ShownInv'
<1> DEFINE v == ServiceNow(query, launching)
           running == NativeRuntime(query, launching) # "absent"
           next == Requested(v, p, running)
<1>1. /\ v \in Service /\ Same(v, Ensured) /\ v.rev \in Nat
      /\ Kept(v) /\ (v.effective = NoPolicy \/ v = svc) /\ v # NoService
  BY ServiceNowIsSame, ServiceNowIsKept, NoServiceIsNone, BoundAssumption
  DEF HarnessInv, Types, Same, Service, Revs
<1>2. /\ svc' = next /\ saves' = Append(saves, Save(next, Change)) /\ change.at = "none"
      /\ change'.at = "saving" /\ UNCHANGED <<stored, query, mode>>
      /\ turn' = IF launching = 0 THEN turn ELSE [turn EXCEPT ![launching].aborted = TRUE]
  BY DEF SetPolicy, Blocked, native
<1>3. /\ svc'.effective = v.effective /\ svc'.rev = v.rev + 1 /\ svc'.restart = running
      /\ next \in Service
  <2> HIDE DEF v
  <2>1. /\ next.effective = v.effective /\ next.rev = v.rev + 1 /\ next.restart = running
    BY <1>1 DEF Requested, Service
  <2>2. next # NoService
    BY <1>1, <2>1 DEF NoService
  <2> QED
    BY <1>2, <2>1, <2>2 DEF HarnessInv, Types, ServiceTypes
<1>4. \A x \in Turns : turn'[x].policy = turn[x].policy /\ (Pursued(x)' => Pursued(x))
  BY <1>2 DEF Pursued, HarnessInv, Types, TurnTypes, TurnRecord
<1>5. Acknowledged'
  BY <1>1, <1>2, <1>3 DEF ShownInv, Acknowledged
<1>6. Agreed'
  <2> SUFFICES ASSUME NEW x \in Turns, Pursued(x)', v.effective # NoPolicy
               PROVE  v.effective = turn[x].policy
    BY <1>3, <1>4 DEF Agreed
  <2> QED
    BY <1>1, <1>4 DEF ShownInv, Agreed
<1>7. saves \in Seq(Write) /\ NoneOfChange(saves)
  BY <1>2 DEF HarnessInv, Types, ServiceTypes, ShownInv, ChangeSaves
<1>8. Save(next, Change) \in Write /\ Save(next, Change).by = Change
  BY <1>3, BoundAssumption DEF Save, Write, Service, Change, ChangeStop
<1>9. ChangeSaves'
  <2>1. OneOfChange(Append(saves, Save(next, Change)))
    BY <1>7, <1>8, AppendOfChange
  <2> QED
    BY <1>2, <2>1 DEF ChangeSaves, OneOfChange, Change
<1>10. Outdated'
  <2> SUFFICES ASSUME Stale' PROVE Outdated'
    BY DEF Outdated
  <2>1. query = 0
    BY <1>3 DEF Stale, NativeRuntime
  <2>2. stored.rev \in Nat /\ stored.rev <= v.rev
        /\ \A i \in 1 .. Len(saves) : saves[i].rev <= v.rev
    <3>1. stored.rev \in Nat
      BY BoundAssumption DEF HarnessInv, Types, ServiceTypes, Saved, Revs
    <3>2. CASE svc = NoService
      BY <1>1, <3>1, <3>2 DEF HarnessInv, Order, Ensured, Same
    <3>3. CASE svc # NoService
      BY <1>1, <3>1, <3>3 DEF HarnessInv, Order, Ensured, Same
    <3> QED
      BY <3>2, <3>3, <3>1
  <2>3. \A i \in 1 .. Len(saves) : saves[i].rev # v.rev + 1
    <3> SUFFICES ASSUME NEW i \in 1 .. Len(saves) PROVE saves[i].rev # v.rev + 1
      OBVIOUS
    <3>1. saves[i] \in Write
      BY <1>7
    <3>2. saves[i].rev \in Nat
      BY <3>1, BoundAssumption DEF Write, Revs
    <3> QED
      BY <1>1, <2>2, <3>2
  <2>4. \A i \in 1 .. Len(saves') : saves'[i].rev = svc'.rev => saves'[i].by = Change
    <3>1. \A i \in 1 .. Len(saves') : saves'[i] = Save(next, Change)
                                      \/ \E j \in 1 .. Len(saves) : saves'[i] = saves[j]
      BY <1>2, <1>7, <1>8, AppendOfChange
    <3> QED
      BY <1>3, <1>8, <2>3, <3>1
  <2> QED
    BY <1>1, <1>2, <1>3, <2>1, <2>2, <2>4 DEF Outdated, Change
<1> QED
  BY <1>5, <1>6, <1>9, <1>10 DEF ShownInv

LEMMA CrashShows ==
    ASSUME Crash
    PROVE  ShownInv'
<1>1. svc' = NoService /\ saves' = <<>> /\ \A x \in Turns : ~Pursued(x)'
  BY DEF Crash, Unborn, Pursued, Admitted
<1>2. Acknowledged' /\ Agreed' /\ Outdated'
  BY <1>1 DEF Acknowledged, Agreed, Outdated, Stale
<1>3. ChangeSaves'
  BY <1>1 DEF ChangeSaves, NoneOfChange, OneOfChange
<1> QED
  BY <1>2, <1>3 DEF ShownInv

LEMMA NextPreservesShown ==
    ASSUME HarnessInv, ScopeInv, ShownInv, [Next]_vars
    PROVE  ShownInv'
<1>1. HarnessInv' /\ Types /\ Alive
  BY NextPreservesHarness DEF HarnessInv
<1>2. ASSUME NEW t \in Turns,
             \/ Send(t) \/ Boot(t) \/ Admit(t) \/ Recorded(t) \/ RecordingFails(t)
             \/ OldQueryDrained(t) \/ StartFails(t) \/ RejectionSaved(t)
      PROVE  ShownInv'
  <2>1. QuietStep
    BY <1>1, <1>2, SendIsQuiet, BootIsQuiet, AdmitIsQuiet, RecordedIsQuiet,
       RecordingFailsIsQuiet, OldQueryDrainedIsQuiet, StartFailsIsQuiet, RejectionSavedIsQuiet
  <2>2. change' = change
    BY <1>2 DEF Send, Boot, Admit, Recorded, RecordingFails, OldQueryDrained, StartFails,
                RejectionSaved
  <2> QED
    BY <1>1, <1>2, <2>1, <2>2, StartIsCalm, StartIsFaithful, FaithfulStep
<1>3. ASSUME NEW t \in Turns, Spawned(t) PROVE ShownInv'
  BY <1>1, <1>3, SpawnedIsQuiet, StartIsCalm, SpawnedShows
<1>4. ASSUME NEW t \in Turns, ModeTaken(t) \/ ModeRefused(t) \/ Prompted(t) \/ ApplyingFails(t)
      PROVE  ShownInv'
  <2>1. CASE ModeTaken(t) /\ PolicyCurrent(t)
    BY <1>1, <2>1, AcknowledgementShows
  <2>2. QuietStep
    BY <1>1, <1>4, ModeTakenIsQuiet, ModeRefusedIsQuiet, PromptedIsQuiet, ApplyingFailsIsQuiet
  <2>3. change' = change
    BY <1>4 DEF ModeTaken, ModeRefused, Prompted, ApplyingFails
  <2> QED
    BY <1>1, <1>4, <2>1, <2>2, <2>3, PromptIsCalm, PromptIsFaithful, FaithfulStep
<1>5. ASSUME NEW t \in Turns, Result(t) \/ QueryEnds(t) PROVE ShownInv'
  <2>1. QuietStep /\ change' = change
    BY <1>1, <1>5, ResultIsQuiet, QueryEndsIsQuiet DEF Result, QueryEnds
  <2> QED
    BY <1>1, <1>5, <2>1, EndIsCalm, EndIsFaithful, FaithfulStep
<1>6. ASSUME NEW w \in Stoppers, Interrupted(w) PROVE ShownInv'
  <2>1. change' = change
    BY <1>6 DEF Interrupted
  <2> QED
    BY <1>1, <1>6, <2>1, InterruptedIsQuiet, InterruptedIsCalm, InterruptedIsFaithful,
       FaithfulStep
<1>7. ASSUME UserStops PROVE ShownInv'
  <2>1. change' = change
    BY <1>7 DEF UserStops
  <2> QED
    BY <1>1, <1>7, <2>1, UserStopsIsQuiet, StoppingIsCalm, UserStopsIsFaithful, FaithfulStep
<1>8. ASSUME \/ \E t \in Turns : PumpDrains(t) \/ Ask(t)
             \/ IdleClose \/ IdleClosed \/ \E w \in Stoppers : StopEnds(w)
             \/ Present \/ Answer \/ Look \/ StateSaved
      PROVE  ShownInv'
  <2>1. QuietStep
    BY <1>1, <1>8, PumpDrainsIsQuiet, AskIsQuiet, IdleCloseIsQuiet, IdleClosedIsQuiet,
       StopEndsIsQuiet, PresentIsQuiet, AnswerIsQuiet, LookIsQuiet, StateSavedIsQuiet
  <2>2. change' = change
    BY <1>8 DEF PumpDrains, Ask, IdleClose, IdleClosed, StopEnds, Present, Answer, Look,
                StateSaved
  <2> QED
    BY <1>1, <1>8, <2>1, <2>2, RestIsCalm, RestIsFaithful, FaithfulStep
<1>9. ASSUME ChangeGoesOn PROVE ShownInv'
  <2>1. QuietStep
    BY <1>1, <1>9, ChangeSavedIsQuiet, ChangeClosesIsQuiet, ChangeRetiredIsQuiet,
       ChangeDoneIsQuiet, ChangeFailsIsQuiet DEF ChangeGoesOn
  <2>2. Calm
    BY <1>9, StoppingIsCalm, RestIsCalm DEF ChangeGoesOn
  <2> QED
    BY <1>1, <1>9, <2>1, <2>2, ChangeShows DEF ChangeGoesOn
<1>10. ASSUME NEW t \in Turns, Advance(t) PROVE ShownInv'
  BY <1>1, <1>2, <1>3, <1>4, <1>10, BeginTurnShows DEF Advance
<1>11. CASE UNCHANGED vars
  BY <1>11 DEF vars, native, ShownInv, Acknowledged, Agreed, Pursued, Outdated, Stale, ChangeSaves,
               NoneOfChange, OneOfChange, Change
<1> QED
  BY <1>1, <1>2, <1>5, <1>6, <1>7, <1>8, <1>9, <1>10, <1>11, SetPolicyShows, CrashShows
  DEF Next

\* The invariant of what is shown: the acknowledged policy is the mode of the registered
\* query and of any that may still be launched, and a stale one admits nothing.
THEOREM ShownInvariant == Spec => []ShownInv
<1>1. Init => ShownInv
  BY InitShownInv
<1>2. HarnessInv /\ ScopeInv /\ ShownInv /\ [Next]_vars => ShownInv'
  BY NextPreservesShown
<1> QED
  BY <1>1, <1>2, HarnessInvariant, ScopeInvariant, PTL DEF Spec

\* What a client is shown as the effective policy is the mode the registered query works
\* under: for any number of turns, policies, changes, failed saves and crashes.
THEOREM ShownIsReal == Spec => []ReportedIsReal
<1>1. HarnessInv /\ ShownInv => ReportedIsReal
  BY ShownInvGivesProperty
<1> QED
  BY <1>1, HarnessInvariant, ShownInvariant, PTL
=============================================================================
