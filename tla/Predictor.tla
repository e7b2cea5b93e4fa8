------------------------------ MODULE Predictor ------------------------------
(***************************************************************************)
(* The decision the trained model takes part in ("Option 1"): an opposite  *)
(* signal always closes, a new position is opened only when the account is *)
(* flat or just closed and the score clears the threshold.                 *)
(*                                                                         *)
(* The live service (apps/ml-predictor) and the backtester carry a copy of *)
(* it each. The score itself is an input.                                  *)
(***************************************************************************)
EXTENDS Integers, Sequences

Sides == {"LONG", "SHORT"}
Positions == Sides \cup {"FLAT"}

Opposite(side) == IF side = "LONG" THEN "SHORT" ELSE "LONG"

SideOf(direction) == IF direction = 1 THEN "LONG" ELSE "SHORT"

\* close, open: whether to; action: what to do, and on which side.
Decision(close, open, side) ==
    [error |-> FALSE, close |-> close, open |-> open,
     action |-> IF close /\ open THEN <<"FLIP", side>>
                ELSE IF close THEN <<"CLOSE_ONLY", side>>
                ELSE IF open THEN <<"OPEN", side>>
                ELSE <<"NOTHING", side>>]

Undecided == [error |-> TRUE, close |-> FALSE, open |-> FALSE, action |-> <<"NOTHING", "LONG">>]

\* A missing feature or a bad direction is an error, answered with "do nothing".
predict(direction, complete, position, pass) ==
    LET side == SideOf(direction)
        close == position = Opposite(side)
        will_be_flat == position = "FLAT" \/ close
    IN IF direction \notin {1, -1} \/ ~ complete THEN Undecided
       ELSE Decision(close, position # side /\ will_be_flat /\ pass, side)
=============================================================================
