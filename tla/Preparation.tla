---------------------------- MODULE Preparation ----------------------------
(***************************************************************************)
(* The memory preparation of one turn, between its prompt and its engine:  *)
(* the gates of src/server/agent.ts at which a user reviews proposals,     *)
(* transfers and changes of the memory and confirms what is injected, with *)
(* Stop, with reviews that are opened again, and with the boot at the end. *)
(*                                                                         *)
(* Coroutines that await each other share the turn: runProposalsGate (P),  *)
(* runTransferGate (T), the driver of the stages (Main), every Step 1      *)
(* opened again beside T (Again), finishMemoryPreview (Fin) and cancel.    *)
(* Their entries go through one chain of writes, so a step is a request, a *)
(* model's answer, or the write at the head of the chain with the code     *)
(* that waits for it.  What runs between two awaits is a chain of          *)
(* operators on the turn's state s, named for the methods they stand for.  *)
(* card is what a tab shows of each step once it has folded the transcript.*)
(*                                                                         *)
(* Branch conversations are on, as server.ts starts the coordinator, every *)
(* memory service is there, and there are source rules to scan.  The       *)
(* version lib of the memory view stands for its contents.                 *)
(***************************************************************************)
EXTENDS Naturals, Sequences, FiniteSets

CONSTANTS
    MaxEdits,    \* bound on the edits of the memory library
    MaxReopens,  \* bound on the reviews opened again
    MaxStops     \* bound on the stops

ASSUME BoundAssumption == MaxEdits \in Nat /\ MaxReopens \in Nat /\ MaxStops \in Nat

Reviews == {"proposals", "transfer", "checkup"}

P        == <<"proposals", 0>>
T        == <<"transfer", 0>>
Main     == <<"main", 0>>
Fin      == <<"finish", 0>>
Stopper  == <<"stop", 0>>
Nobody   == <<"nobody", 0>>
Again(i) == <<"again", i>>

VARIABLES
    s,        \* the turn: coroutines, gates, reservation, pending writes, transcript
    edits,    \* counter of edits
    reopens,  \* counter of reviews opened again
    stops     \* counter of stops

vars == <<s, edits, reopens, stops>>

\* chain    the pending writes, each the coroutine that awaits it
\* p, t     at: its await; out: its decision; base: the view T landed its cards on;
\*          shell: T's card, "none", "writing" or "shown"
\* main     step: the review it has opened again; want: the reviews to open again
\*          asked for while the checkup runs; xfer: a transfer was decided; parent:
\*          there is a checkup card; resumed: it is runReopenedMemoryPreparation
\* again    the reparks of the preparation
\* prep     activePreparations.get(chat), its signal, and its reopened flag
\* gate     the pending gate of each review: who waits at it
\* pv       pendingPreviews.get(chat), published, and the view it shows
\* claim    claimedPreviewResponses.has(chat); planning: its expected uses are asked for
\* fin      the view it approved, the view it planned with
\* held     startupReservations.has(chat); stopped, settled: of that reservation
\* status   startingChats.get(chat)
\* flag     cancelledDuringPreview.has(chat)
\* waiting  a stop awaits the preparation; rec: the writes of the interruption
\* outcome  history: what was recorded of the turn
Fresh ==
    [chain |-> <<P>>,
     p |-> [at |-> "shell", out |-> "none"],
     t |-> [at |-> "task", out |-> "none", base |-> 0, shell |-> "none"],
     main |-> [at |-> "stages", step |-> "checkup", out |-> "none", want |-> {},
               xfer |-> FALSE, parent |-> FALSE, resumed |-> FALSE],
     again |-> <<>>,
     prep |-> [on |-> TRUE, aborted |-> FALSE, reopened |-> FALSE],
     gate |-> [r \in Reviews |-> Nobody],
     pv |-> [parked |-> FALSE, shown |-> FALSE, view |-> 0],
     claim |-> FALSE, planning |-> FALSE,
     fin |-> [at |-> "off", decision |-> "none", approved |-> 0, plan |-> 0],
     held |-> TRUE, stopped |-> FALSE, settled |-> FALSE, status |-> "previewing",
     flag |-> FALSE, waiting |-> FALSE, rec |-> "no",
     scope |-> TRUE, branches |-> TRUE, lib |-> 0,
     card |-> [r \in Reviews \cup {"preview"} |-> "none"],
     outcome |-> {}]

Init == s = Fresh /\ edits = 0 /\ reopens = 0 /\ stops = 0

---------------------------------------------------------------------------
\* The transcript, the reservation and the interruption

Push(c, who)       == [c EXCEPT !.chain = Append(@, who)]
Show(c, r, look)   == [c EXCEPT !.card[r] = look]
ParkGate(c, r, who) == [c EXCEPT !.gate[r] = who]

\* A decision of the user leaves a receipt, any other one a line.
ShowDecision(c, r, d) == Show(c, r, IF d = "handled" THEN "answered" ELSE "settled")

\* memory_preparation_reset as parseTranscript folds it.
ShowReset(c, from) ==
    [c EXCEPT !.card = [r \in DOMAIN @ |->
        CASE r = "preview" /\ @[r] # "none"                       -> "waiting"
          [] r = "checkup" /\ @[r] # "none" /\ from # "checkup"   -> "waiting"
          [] r = from                                             -> "open"
          [] OTHER                                                -> @[r]]]

\* settleStartupReservation
Settle(c) ==
    LET done == [c EXCEPT !.settled = TRUE]
    IN  IF ~c.held \/ (c.stopped /\ c.rec # "done") THEN done
        ELSE [done EXCEPT !.status = "none",
                          !.held = c.pv.parked \/ c.claim \/ c.prep.on]

\* recordStartupCancellation: once for a reservation.
Record(c) ==
    IF c.rec \in {"interrupted", "cancelled"} \/ (c.rec = "done" /\ c.held) THEN c
    ELSE Push([c EXCEPT !.rec = "interrupted"], Stopper)

Recorded(c) ==
    IF c.rec = "interrupted" THEN Push([c EXCEPT !.rec = "cancelled"], Stopper)
    ELSE LET done == [c EXCEPT !.rec = "done", !.outcome = @ \cup {"cancelled"},
                               !.status = IF c.held THEN "none" ELSE @]
         IN  IF c.settled THEN Settle(done) ELSE done

SettleLeavingTheStop(c) == [c EXCEPT !.prep.on = FALSE]

\* cancellation.settle(): the stop that awaits the preparation goes on.
SettlePreparation(c) ==
    LET off == [c EXCEPT !.prep.on = FALSE, !.waiting = FALSE]
    IN  IF c.waiting THEN Record(off) ELSE off

\* What P and T look at before they go on.  A refresh after the preparation is
\* over has a signal of its own, which nobody aborts.
StopSeen(c) == c.flag \/ (c.prep.aborted /\ c.main.at # "rework")

---------------------------------------------------------------------------
\* The end of the driver, and the boot

\* The finally of runPreviewGateThenBoot and of runReopenedMemoryPreparation.
Over(c) ==
    LET out   == [c EXCEPT !.main.at = "over"]
        first == Settle(SettlePreparation([out EXCEPT !.flag = @ /\ ~c.held]))
        later == Settle(out)
    IN  IF c.main.resumed THEN [later EXCEPT !.flag = @ /\ ~later.held]
        ELSE [first EXCEPT !.branches = @ /\ c.pv.parked]

\* The catches: the first driver lets a stopped turn go without a record.
MainFails(c) ==
    IF ~c.main.resumed /\ c.flag
    THEN Over([c EXCEPT !.flag = FALSE, !.pv.parked = FALSE])
    ELSE Push([c EXCEPT !.main.at = "failing",
                        !.pv.parked = @ /\ c.main.resumed], Main)

\* The finally of finishMemoryPreview, and of the driver that boots by itself.
FinOver(c) ==
    LET out == [c EXCEPT !.fin.at = "done"]
    IN  IF c.fin.decision = "auto" THEN Over(out) ELSE Settle([out EXCEPT !.claim = FALSE])

FinFails(c) ==
    CASE c.fin.decision = "auto" -> Push([c EXCEPT !.fin.at = "done", !.main.at = "failing"], Main)
      [] c.fin.decision # "auto" /\ c.stopped  -> FinOver(c)
      [] c.fin.decision # "auto" /\ ~c.stopped -> Push([c EXCEPT !.fin.at = "failing"], Fin)

\* bootEngineTurn
Boot(c) ==
    IF c.stopped THEN FinOver(c)
    ELSE [c EXCEPT !.branches = FALSE, !.fin.at = "directory"]

\* finishMemoryPreview
Finish(c, decision) ==
    IF c.stopped \/ ~c.held THEN FinOver(c)
    ELSE Push([c EXCEPT !.fin = [at |-> "decide", decision |-> decision,
                                 approved |-> c.lib, plan |-> 0],
                        !.status = "starting", !.settled = FALSE], Fin)

FinWritten(c) ==
    CASE c.fin.at = "decide" ->
           LET decided == Show(c, "preview", "answered")
           IN  IF c.stopped THEN FinOver(decided)
               ELSE IF c.fin.decision = "dismiss"
               THEN Push([decided EXCEPT !.fin.at = "dismiss", !.branches = FALSE], Fin)
               ELSE Boot(decided)
      [] c.fin.at = "dismiss" -> FinOver([c EXCEPT !.outcome = @ \cup {"cancelled"}])
      [] c.fin.at = "failing" -> Push([c EXCEPT !.fin.at = "failed"], Fin)
      [] c.fin.at = "failed"  -> FinOver([c EXCEPT !.outcome = @ \cup {"failed"}])

PlannedBlindly(c) ==
    CASE c.stopped -> FinOver(c)
      [] ~c.stopped /\ ~c.scope -> FinFails(c)
      [] OTHER -> [c EXCEPT !.fin.at = "engine", !.fin.plan = c.lib]

\* The plan of the injection is made once the project's directory is there.
Planned(c) ==
    CASE c.stopped -> FinOver(c)
      [] ~c.stopped /\ ((c.fin.decision = "go_on" /\ c.fin.approved # c.lib) \/ ~c.scope) -> FinFails(c)
      [] OTHER -> [c EXCEPT !.fin.at = "engine", !.fin.plan = c.lib]

StartedRegardless(c, ok) ==
    IF ok THEN FinOver([c EXCEPT !.outcome = @ \cup {"booted"}]) ELSE FinFails(c)

Started(c, ok) ==
    CASE c.stopped        -> FinOver(c)
      [] ~c.stopped /\ ~ok -> FinFails(c)
      [] OTHER            -> FinOver([c EXCEPT !.outcome = @ \cup {"booted"}])

---------------------------------------------------------------------------
\* The checkup, the reviews opened again before it, and the preview

\* continueMemoryBranch fails at once when the branches are disposed of.
Analysed(c, found) ==
    IF c.main.want # {}
    THEN LET r == IF "proposals" \in c.main.want THEN "proposals" ELSE "transfer"
         IN  Push([c EXCEPT !.main.at = "reset", !.main.step = r, !.main.want = {}], Main)
    ELSE Push([c EXCEPT !.main.at = "result", !.flag = FALSE,
                        !.main.out = IF c.flag THEN "cancelled" ELSE found], Main)

Analyse(c) ==
    LET work == [c EXCEPT !.main.at = "work", !.main.parent = TRUE]
    IN  IF c.branches THEN work ELSE Analysed(work, "failed")

\* runCheckupGate
Checkup(c) ==
    IF c.main.parent THEN Analyse(c) ELSE Push([c EXCEPT !.main.at = "skeleton"], Main)

ResultWrittenUnclaimed(c) ==
    LET seen == Show(c, "checkup", "open")
    IN  CASE c.main.want # {} -> Analysed(seen, c.main.out)
          [] c.main.want = {} /\ c.main.out = "found" -> ParkGate([seen EXCEPT !.main.at = "gate"], "checkup", Main)
          [] OTHER -> Push([seen EXCEPT !.main.at = "decide"], Main)

\* The checkup's result is in the transcript: Stop is claimed once more, then a
\* review that was opened again, before anything is decided or parked.
ResultWritten(c) ==
    LET seen == Show([c EXCEPT !.flag = FALSE], "checkup", "open")
        out  == IF c.flag THEN "cancelled" ELSE c.main.out
    IN  CASE c.main.want # {} -> Analysed(seen, out)
          [] c.main.want = {} /\ out = "found" -> ParkGate([seen EXCEPT !.main.at = "gate"], "checkup", Main)
          [] OTHER -> Push([seen EXCEPT !.main.at = "decide", !.main.out = out], Main)

\* The plan of the injection, and its receipt: parked, or decided by itself when
\* there is nothing to inject.
Preview(c, empty) ==
    IF empty /\ ~c.main.resumed THEN Push([c EXCEPT !.main.at = "receipt"], Main)
    ELSE Push([c EXCEPT !.main.at = "preview",
                        !.pv = [parked |-> TRUE, shown |-> FALSE, view |-> c.lib]], Main)

\* A stop that came while the receipt was written takes the preview back.
PreviewWritten(c) ==
    LET seen == Show(c, "preview", "open")
    IN  IF c.flag THEN Over([seen EXCEPT !.flag = FALSE, !.pv.parked = FALSE])
        ELSE Over([seen EXCEPT !.pv.shown = c.pv.parked])

ReceiptWritten(c) ==
    LET seen == Show(c, "preview", "open")
    IN  IF c.flag THEN Over([seen EXCEPT !.flag = FALSE])
        ELSE Push([seen EXCEPT !.main.at = "auto"], Main)

CheckupDecided(c, empty) ==
    LET seen == ShowDecision(c, "checkup", c.main.out)
    IN  CASE c.main.out = "cancelled" -> Over(seen)
          [] c.main.out = "failed"    -> MainFails(seen)
          [] OTHER                    -> Preview(seen, empty)

---------------------------------------------------------------------------
\* The transfer's refresh, and the stages before the checkup

\* refreshTransferAfterCandidateReview runs T again on the card it already has.
Refresh(c, at) ==
    LET shell == IF c.card["transfer"] = "none" THEN "none" ELSE "shown"
        begun == [c EXCEPT !.main.at = at,
                           !.t = [at |-> "task", out |-> "none", base |-> 0, shell |-> shell]]
        ended == [begun EXCEPT !.t.at = "done", !.t.out = IF StopSeen(begun) THEN "cancelled" ELSE "failed"]
    IN  IF StopSeen(begun)
        THEN IF shell = "none" THEN Over(ended)
             ELSE Push([ended EXCEPT !.t.at = "settle"], T)
        ELSE IF shell = "none" THEN Push([begun EXCEPT !.t.at = "shell", !.t.shell = "writing"], T)
             ELSE IF c.branches THEN [begun EXCEPT !.t.at = "continue"] ELSE MainFails(ended)

LeavePreparation(c) == Checkup(SettlePreparation(c))

AwaitNoRepark(c) == IF c.prep.reopened THEN Refresh(c, "refresh") ELSE LeavePreparation(c)

\* while (prep.reparks.length): every Step 1 opened again is awaited, in order.
AwaitReparks(c) ==
    LET n    == Len(c.again)
        done == {i \in 1 .. n : \A j \in 1 .. i : c.again[j].at = "done"}
    IN  CASE \E i \in done : c.again[i].out = "cancelled" -> Over(c)
          [] (\A i \in done : c.again[i].out # "cancelled") /\ done # 1 .. n -> [c EXCEPT !.main.at = "repark"]
          [] OTHER -> IF c.prep.reopened THEN Refresh(c, "refresh") ELSE LeavePreparation(c)

\* Promise.all of the two runs: the first that throws ends it.
StagesEnd(c) ==
    LET outs == {c.p.out, c.t.out}
        both == c.p.at = "done" /\ c.t.at = "done"
    IN  CASE c.main.at # "stages" -> c
          [] c.main.at = "stages" /\ "failed" \in outs -> MainFails(c)
          [] c.main.at = "stages" /\ "failed" \notin outs /\ ~both -> c
          [] OTHER -> IF c.prep.aborted \/ "cancelled" \in outs THEN Over(c)
                      ELSE AwaitReparks([c EXCEPT !.main.xfer = c.t.out = "handled"])

TDone(c, out) ==
    LET done == [c EXCEPT !.t.at = "done", !.t.out = out]
    IN  IF c.main.at \notin {"refresh", "rework"} THEN StagesEnd(done)
        ELSE CASE out = "cancelled" -> Over(done)
               [] out = "failed"    -> MainFails(done)
               [] OTHER -> IF c.main.at = "refresh" THEN LeavePreparation(done)
                           ELSE Push([done EXCEPT !.main.at = "rescan"], Main)

\* settleCancelledScan and settleEmpty: a card that can be seen gets its line.
TSettle(c, out) ==
    CASE c.t.shell = "none"    -> TDone(c, out)
      [] c.t.shell = "shown"   -> Push([c EXCEPT !.t.at = "settle", !.t.out = out], T)
      [] c.t.shell = "writing" -> [c EXCEPT !.t.at = "settle", !.t.out = out]

\* runTransferGate once the scan and Step 1 are over: the cards are materialised
\* against the reviewed memory.
TMaterialise(c) ==
    CASE c.flag                 -> TSettle(c, "cancelled")
      [] ~c.flag /\ ~c.branches -> TDone(c, "failed")
      [] OTHER                  -> [c EXCEPT !.t.at = "continue"]

TAfterStepOne(c) ==
    IF c.t.shell = "writing" THEN [c EXCEPT !.t.at = "shell"] ELSE TMaterialise(c)

\* Cards are parked before they are written, and written only while they hold.
TLanded(c, found) ==
    IF found THEN Push(ParkGate([c EXCEPT !.t.at = "card", !.t.base = c.lib], "transfer", T), T)
    ELSE TSettle(c, "none")

TCardWritten(c) ==
    LET free == IF c.gate["transfer"] = T THEN ParkGate(c, "transfer", Nobody) ELSE c
        seen == IF c.card["transfer"] = "none" THEN Show(c, "transfer", "open") ELSE c
    IN  CASE StopSeen(c)                        -> TSettle(free, "cancelled")
          [] ~StopSeen(c) /\ c.lib # c.t.base   -> TSettle(free, "none")
          [] OTHER -> [seen EXCEPT !.t.at = "gate", !.t.shell = "shown"]

TWritten(c) ==
    CASE c.t.shell = "writing" ->
           LET seen == Show([c EXCEPT !.t.shell = "shown"], "transfer", "open")
           IN  CASE c.t.at = "settle" -> Push(seen, T)
                 [] c.t.at = "shell"  -> TMaterialise(seen)
                 [] OTHER             -> seen
      [] c.t.shell # "writing" /\ c.t.at = "card"   -> TCardWritten(c)
      [] c.t.shell # "writing" /\ c.t.at = "settle" -> Push([c EXCEPT !.t.at = "decide"], T)
      [] c.t.shell # "writing" /\ c.t.at = "decide" ->
           TDone(ShowDecision(c, "transfer", c.t.out), c.t.out)

\* The end of Step 1 releases T: a scan that still runs shows its shell now.
StepOneSettled(c) ==
    CASE c.t.at = "task" /\ c.t.shell = "none" /\ ~StopSeen(c) -> Push([c EXCEPT !.t.shell = "writing"], T)
      [] c.t.at = "stepone" -> TAfterStepOne(c)
      [] OTHER              -> c

PDone(c, out) == StagesEnd(StepOneSettled([c EXCEPT !.p.at = "done", !.p.out = out]))

\* runProposalsGate
PWritten(c, found) ==
    CASE c.p.at = "shell"  ->
           LET seen == Show(c, "proposals", "open")
           IN  IF c.prep.aborted THEN Push([seen EXCEPT !.p.at = "result"], P)
               ELSE [seen EXCEPT !.p.at = "parse"]
      [] c.p.at = "result" ->
           IF ~StopSeen(c) /\ found THEN ParkGate([c EXCEPT !.p.at = "gate"], "proposals", P)
           ELSE Push([c EXCEPT !.p.at = "decide", !.p.out = IF StopSeen(c) THEN "cancelled" ELSE "none"], P)
      [] c.p.at = "decide" -> PDone(ShowDecision(c, "proposals", c.p.out), c.p.out)

\* A Step 1 opened again: parkExistingProposalsGate beside T.
AgainWritten(c, i) ==
    IF c.again[i].at = "reset"
    THEN ParkGate([ShowReset(c, "proposals") EXCEPT !.again[i].at = "gate"], "proposals", Again(i))
    ELSE LET done == ShowDecision([c EXCEPT !.again[i].at = "done"], "proposals", c.again[i].out)
         IN  IF c.main.at = "repark" THEN AwaitReparks(done) ELSE done

MainWritten(c, yes) ==
    CASE c.main.at = "skeleton" -> Analyse(Show(c, "checkup", "open"))
      [] c.main.at = "result"   -> ResultWritten(c)
      [] c.main.at = "decide"   -> CheckupDecided(c, yes)
      [] c.main.at = "reset"    -> ParkGate([ShowReset(c, c.main.step) EXCEPT !.main.at = "review"], c.main.step, Main)
      [] c.main.at = "reviewed" ->
           LET seen == ShowDecision(c, c.main.step, c.main.out)
           IN  IF c.main.out = "cancelled" THEN Over(seen)
               ELSE IF c.main.step = "proposals" THEN Refresh(seen, "rework")
               ELSE Push([seen EXCEPT !.main.at = "rescan"], Main)
      [] c.main.at = "rescan"   -> Checkup(ShowReset(c, "checkup"))
      [] c.main.at = "preview"  -> PreviewWritten(c)
      [] c.main.at = "receipt"  -> ReceiptWritten(c)
      [] c.main.at = "auto"     ->
           Boot([Show(c, "preview", "answered") EXCEPT !.main.at = "boot", !.fin.decision = "auto"])
      [] c.main.at = "failing"  -> Push([c EXCEPT !.main.at = "failed"], Main)
      [] c.main.at = "failed"   -> Over([c EXCEPT !.outcome = @ \cup {"failed"}])

Resumed(c, who, yes) ==
    CASE who = P       -> PWritten(c, yes)
      [] who = T       -> TWritten(c)
      [] who = Main    -> MainWritten(c, yes)
      [] who = Fin     -> FinWritten(c)
      [] who = Stopper -> Recorded(c)
      [] who[1] = "again" -> AgainWritten(c, who[2])

---------------------------------------------------------------------------
\* Decisions at the gates, and Stop

\* respond(): the gate is gone, and its coroutine records the decision.
Answer(c, r, d) ==
    LET who  == c.gate[r]
        free == ParkGate(c, r, Nobody)
    IN  CASE who = P -> Push([free EXCEPT !.p.at = "decide", !.p.out = d], P)
          [] who = T -> IF c.t.at = "card" THEN free   \* the write finds the stop
                        ELSE Push([free EXCEPT !.t.at = "decide", !.t.out = d], T)
          [] who = Main -> Push([free EXCEPT !.main.at = IF @ = "gate" THEN "decide" ELSE "reviewed",
                                             !.main.out = d], Main)
          [] who[1] = "again" -> Push([free EXCEPT !.again[who[2]].at = "decide", !.again[who[2]].out = d], who)
          [] who = Nobody -> c

AnswerAll(c, d) ==
    Answer(Answer(Answer(c, "proposals", d), "transfer", d), "checkup", d)

\* What awaits a model: the parse and the scan are released by the signal of the
\* preparation, the rest fails because its branch is gone.
ReleaseP(c) == IF c.p.at = "parse" THEN Push([c EXCEPT !.p.at = "result"], P) ELSE c
ReleaseT(c) == CASE c.t.at \in {"task", "stepone"} /\ c.prep.on -> TSettle(c, "cancelled")
                 [] c.t.at = "continue"                         -> TDone(c, "failed")
                 [] OTHER                                       -> c
ReleaseMain(c) == IF c.main.at = "work" THEN Analysed(c, "failed") ELSE c

Cancel(c) == [c EXCEPT !.stopped = @ \/ c.held]

\* cancel(), before the engine runs.
Stopped(c) ==
    LET end  == [c EXCEPT !.scope = FALSE, !.branches = FALSE, !.planning = FALSE,
                          !.pv.parked = @ \/ c.planning, !.claim = @ /\ ~c.planning]
        flagged == [Cancel(end) EXCEPT !.flag = TRUE, !.prep.aborted = @ \/ c.prep.on,
                                       !.waiting = @ \/ c.prep.on]
        unwound == ReleaseMain(ReleaseT(ReleaseP(AnswerAll(flagged, "cancelled"))))
        gates   == \E r \in Reviews : c.gate[r] # Nobody
    IN  CASE gates \/ (~c.pv.parked /\ c.status = "previewing") ->
               IF c.prep.on THEN unwound ELSE Record(unwound)
          [] ~gates /\ c.pv.parked /\ c.pv.shown ->
               Finish([end EXCEPT !.pv.parked = FALSE], "dismiss")
          [] ~gates /\ c.pv.parked /\ ~c.pv.shown ->
               Record([flagged EXCEPT !.pv.parked = FALSE])
          [] ~gates /\ ~c.pv.parked /\ c.status = "starting" -> Record(Cancel(end))
          [] OTHER -> end

---------------------------------------------------------------------------
\* Actions

Open == "booted" \notin s.outcome

\* The write at the head of the chain is done.
Written ==
    /\ s.chain # <<>>
    /\ \E yes \in BOOLEAN : s' = Resumed([s EXCEPT !.chain = Tail(@)], Head(s.chain), yes)
    /\ UNCHANGED <<edits, reopens, stops>>

\* The prompt is parsed, or the parse failed.
Parsed ==
    /\ s.p.at = "parse"
    /\ s' \in {Push([s EXCEPT !.p.at = "result"], P), PDone(s, "failed")}
    /\ UNCHANGED <<edits, reopens, stops>>

\* The scan of the sources ends; it waits for Step 1.
Scanned ==
    /\ s.t.at = "task"
    /\ s' = IF s.p.at = "done" THEN TAfterStepOne(s) ELSE [s EXCEPT !.t.at = "stepone"]
    /\ UNCHANGED <<edits, reopens, stops>>

\* The continued transfer branch answers.
Landed ==
    /\ s.t.at = "continue"
    /\ s' \in {TLanded(s, TRUE), TLanded(s, FALSE), TDone(s, "failed")}
    /\ UNCHANGED <<edits, reopens, stops>>

\* The continued changes branch answers.
Checked ==
    /\ s.main.at = "work"
    /\ \E found \in {"found", "nothing", "failed"} : s' = Analysed(s, found)
    /\ UNCHANGED <<edits, reopens, stops>>

\* A user settles a review whose card offers it.
Respond(r) ==
    /\ s.gate[r] # Nobody
    /\ s.card[r] = "open"
    /\ (s.gate[r] = T => s.t.at = "gate")
    /\ s' = Answer(s, r, "handled")
    /\ UNCHANGED <<edits, reopens, stops>>

ClaimLeavingParked(c) == [c EXCEPT !.claim = TRUE]

\* claimPendingPreviewResponse
Claim(c) == [c EXCEPT !.pv.parked = FALSE, !.claim = TRUE]

Unclaim(c) == [c EXCEPT !.pv.parked = TRUE, !.claim = FALSE, !.planning = FALSE]

\* respondMemoryPreview: an approval needs the view it was given for, and may
\* wait for the expected uses of what the user added.
RespondPreview ==
    /\ s.pv.parked /\ s.pv.shown /\ s.card["preview"] = "open"
    /\ ~s.claim
    /\ \/ \E d \in {"without", "dismiss"} : s' = Finish(Claim(s), d)
       \/ s.pv.view = s.lib /\ s' = Finish(Claim(s), "go_on")
       \/ s.pv.view = s.lib /\ s.branches /\ s' = [Claim(s) EXCEPT !.planning = TRUE]
    /\ UNCHANGED <<edits, reopens, stops>>

\* The expected uses are there, or could not be planned; the view is compared again.
UsesPlanned ==
    /\ s.planning
    /\ \/ s.pv.view = s.lib /\ s' = Finish([s EXCEPT !.planning = FALSE], "go_on")
       \/ s' = Unclaim(s)
    /\ UNCHANGED <<edits, reopens, stops>>

DirectoryReady ==
    /\ s.fin.at = "directory"
    /\ s' = Planned(s)
    /\ UNCHANGED <<edits, reopens, stops>>

EngineStarted ==
    /\ s.fin.at = "engine"
    /\ \E ok \in BOOLEAN : s' = Started(s, ok)
    /\ UNCHANGED <<edits, reopens, stops>>

\* What a tab lets a user open again: a receipt, while a later step is open.
Reopenable(r) ==
    /\ s.card[r] = "answered"
    /\ \/ s.card["preview"] = "open"
       \/ r # "checkup" /\ s.card["checkup"] = "open"
       \/ r = "proposals" /\ s.card["transfer"] = "open"

\* runReopenedMemoryPreparation, to its first write.
ResumeAt(c, r) ==
    Push([c EXCEPT !.pv.parked = FALSE, !.status = "previewing", !.settled = FALSE,
                   !.main.resumed = TRUE, !.main.step = r,
                   !.main.at = IF r = "checkup" THEN "rescan" ELSE "reset"], Main)

Checking == s.main.at \in {"skeleton", "work", "result"}

\* reopenMemoryPreparation: from the preview, while the checkup runs, from its
\* gate, or beside a transfer that is still open.
Reopen(r) ==
    /\ reopens < MaxReopens /\ reopens' = reopens + 1
    /\ Open /\ Reopenable(r)
    /\ \/ /\ s.pv.parked /\ s.pv.shown /\ (r = "transfer" => s.main.xfer)
          /\ s' = ResumeAt(s, r)
       \/ /\ ~s.pv.parked /\ Checking
          /\ s' = [s EXCEPT !.main.want = @ \cup {r}]
       \/ /\ s.main.at = "gate"
          /\ s' = Analysed(ParkGate([s EXCEPT !.main.want = {r}], "checkup", Nobody), "found")
       \/ /\ r = "proposals" /\ ~s.pv.parked /\ ~Checking /\ s.main.at # "gate"
          /\ s.prep.on /\ s.gate["proposals"] = Nobody
          /\ s' = Push([s EXCEPT !.prep.reopened = TRUE,
                                 !.again = Append(@, [at |-> "reset", out |-> "none"])],
                       Again(Len(s.again) + 1))
    /\ UNCHANGED <<edits, stops>>

StopTurn ==
    /\ stops < MaxStops /\ stops' = stops + 1
    /\ Open
    /\ s' = Stopped(s)
    /\ UNCHANGED <<edits, reopens>>

\* The memory library is edited, on the Board or at a gate.
Edit ==
    /\ edits < MaxEdits /\ edits' = edits + 1
    /\ Open
    /\ s' = [s EXCEPT !.lib = @ + 1]
    /\ UNCHANGED <<reopens, stops>>

Next ==
    \/ Written \/ Parsed \/ Scanned \/ Landed \/ Checked
    \/ RespondPreview \/ UsesPlanned \/ DirectoryReady \/ EngineStarted
    \/ \E r \in Reviews : Respond(r) \/ Reopen(r)
    \/ StopTurn \/ Edit

\* Writes finish, and models answer or fail; nobody owes a click.
Fairness ==
    /\ WF_vars(Written) /\ WF_vars(Parsed) /\ WF_vars(Scanned) /\ WF_vars(Landed)
    /\ WF_vars(Checked) /\ WF_vars(UsesPlanned) /\ WF_vars(DirectoryReady)
    /\ WF_vars(EngineStarted)

Spec == Init /\ [][Next]_vars /\ Fairness

---------------------------------------------------------------------------
\* Properties

Owners == {P, T, Main, Nobody} \cup {Again(i) : i \in 1 .. MaxReopens}
Looks  == {"none", "open", "waiting", "answered", "settled"}

\* Type correctness: what waits at a gate or for a write is a coroutine of the turn.
TypeOK ==
    /\ s.chain \in Seq(Owners \cup {Fin, Stopper})
    /\ s.gate \in [Reviews -> Owners]
    /\ s.card \in [Reviews \cup {"preview"} -> Looks]
    /\ s.pv \in [parked : BOOLEAN, shown : BOOLEAN, view : 0 .. MaxEdits]
    /\ s.outcome \subseteq {"booted", "failed", "cancelled"}
    /\ Len(s.again) <= MaxReopens
    /\ s.lib \in 0 .. MaxEdits

\* The steps are staged: no checkup waits for a user, no preview is parked and no
\* engine starts while a candidate or transfer review of the turn is unfinished,
\* one that was opened again included.
StagesInOrder ==
    (s.gate["checkup"] # Nobody \/ s.pv.parked \/ s.fin.at \in {"directory", "engine"})
        => /\ s.p.at = "done" /\ s.t.at = "done"
           /\ \A i \in DOMAIN s.again : s.again[i].at = "done"
           /\ s.gate["proposals"] = Nobody /\ s.gate["transfer"] = Nobody

\* One owner at a time may move the turn on to its engine: the driver, the parked
\* preview, a claimed response, or the boot.
OneOwner ==
    LET owners == {o \in {"driver", "preview", "claim", "boot"} :
                     CASE o = "driver"  -> s.main.at \notin {"preview", "boot", "over"}
                       [] o = "preview" -> s.pv.parked
                       [] o = "claim"   -> s.planning
                       [] o = "boot"    -> s.fin.at \in {"decide", "dismiss", "directory", "engine", "failing", "failed"}}
    IN  Cardinality(owners) <= 1

\* The engine of an approved turn gets the memory view its preview showed, however
\* the library moved while the answer was planned, written and booted.
BootsWhatWasShown ==
    s.fin.at = "engine" /\ s.fin.decision = "go_on" => s.fin.plan = s.pv.view

\* A turn that was stopped, dismissed or failed never gets its engine.
EndedNeverBoots == "booted" \in s.outcome => s.outcome = {"booted"} /\ ~s.stopped

\* Once a turn was stopped, no pass that was still computing parks a new gate for
\* it.  A review that was being opened again does: only its decision is awaited.
NothingFreshAfterStop ==
    [][\A r \in Reviews :
         s.stopped /\ s'.gate[r] # s.gate[r]
           => s'.gate[r] \notin {P, T} /\ (r = "checkup" => s'.gate[r] = Nobody)]_s

\* A stop that awaits the preparation is released, unless a review that was being
\* opened again parked behind it.
StopReturns ==
    s.waiting ~> (~s.waiting \/ \E i \in DOMAIN s.again : s.again[i].at = "gate")

=============================================================================
