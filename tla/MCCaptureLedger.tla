-------------------------- MODULE MCCaptureLedger --------------------------
(* TLC's instance of CaptureLedger: a prompt parse that can be cancelled, a *)
(* branch and a proposal, over two observations of different scope, with an *)
(* active and an archived memory from before the turn.                      *)
EXTENDS CaptureLedger, TLC

CONSTANTS a, b, other, prompt, branch, tool

MCBatches == prompt :> {<<a, b>>, <<a, a>>} @@ branch :> {<<b, a>>} @@ tool :> {<<b>>}
MCRank == a :> 1 @@ b :> 2
MCInitial == [m \in 1 .. MaxId |->
                IF m = 1 THEN [text |-> b, rank |-> 2, status |-> "active", version |-> 1]
                ELSE IF m = 2 THEN [text |-> other, rank |-> 1, status |-> "archived", version |-> 1]
                ELSE [status |-> "absent"]]
=============================================================================
