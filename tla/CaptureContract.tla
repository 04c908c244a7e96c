-------------------------- MODULE CaptureContract --------------------------
(***************************************************************************)
(* What Automatic mode promises about learning from finished turns: every  *)
(* turn is captured at most once, whatever is retried, and what was        *)
(* learned is never learned again.  Answers may be lost, but a turn whose  *)
(* capture is settled stays settled.                                       *)
(***************************************************************************)
EXTENDS Naturals

CONSTANT Turns

VARIABLES
    phase,     \* "new": not finished yet, "open": to be captured, "settled"
    learned    \* how often a turn's observations entered the library

vars == <<phase, learned>>

Init ==
    /\ phase = [t \in Turns |-> "new"]
    /\ learned = [t \in Turns |-> 0]

\* A finished turn is taken up, or refused at once.
Record(t) ==
    /\ phase[t] = "new"
    /\ \E p \in {"open", "settled"} : phase' = [phase EXCEPT ![t] = p]
    /\ UNCHANGED learned

Learn(t) ==
    /\ phase[t] = "open" /\ learned[t] = 0
    /\ learned' = [learned EXCEPT ![t] = 1]
    /\ UNCHANGED phase

\* A chat's captures are cancelled, and a restart gives up ambiguous ones, together.
Settle(done) ==
    /\ \A t \in done : phase[t] = "open"
    /\ phase' = [t \in Turns |-> IF t \in done THEN "settled" ELSE phase[t]]
    /\ UNCHANGED learned

Next ==
    \/ \E t \in Turns : Record(t) \/ Learn(t)
    \/ \E done \in SUBSET Turns : Settle(done)

Spec == Init /\ [][Next]_vars
=============================================================================
