------------------------------ MODULE MLWebhook ------------------------------
(***************************************************************************)
(* POST /webhook/ml (apps/ingress/internal/ingress/ml.go) with the         *)
(* ml-predictor service behind it: an alert is scored, turned into a       *)
(* command, published and audited. In shadow mode, the default, the alert  *)
(* is published as it came; a filter that does not answer never stops one. *)
(*                                                                         *)
(* Alerts of one account and symbol are handled at the same time; the      *)
(* position each is scored with is the one its sender states, or none: the *)
(* table ingress would otherwise read is not kept up to date by anything.  *)
(***************************************************************************)
EXTENDS Predictor

CONSTANTS
    Alerts,      \* alerts that pass the gates of ingress
    MaxMLFaults  \* calls to the predictor, publishes, inserts and orders that may fail

VARIABLES
    enforce,     \* ML_ENFORCE
    alert,       \* alert[a]: place and locals of the handler
    published,   \* published[a]: the command sent to the stream
    decisions,   \* decisions[a]: published_command of the row in ml_decisions
    signals,     \* commands in the stream
    book,        \* positions the account holds on each side
    informed,    \* FALSE once an alert was scored with a position that was not the account's
    mlfaults

mlvars == <<enforce, alert, published, decisions, signals, book, informed, mlfaults>>

None == <<"NONE", "LONG">>
NoRow == <<"NOROW", "LONG">>

MLInit ==
    /\ enforce \in BOOLEAN
    /\ alert = [a \in Alerts |-> [pc |-> "new"]]
    /\ published = [a \in Alerts |-> None]
    /\ decisions = [a \in Alerts |-> NoRow]
    /\ signals = << >>
    /\ book = [s \in Sides |-> 0]
    /\ informed = TRUE
    /\ mlfaults = 0

MLFault ==
    /\ mlfaults < MaxMLFaults
    /\ mlfaults' = mlfaults + 1

\* What the account holds; when it holds both sides no single position is right.
Holds(position) ==
    \A s \in Sides : (book[s] > 0) = (s = position)

InFlight == {a \in Alerts : alert[a].pc \in {"score", "publish"}}

\* resolveCurrentPosition: the sender's word, or no position at all.
Resolve(a) ==
    /\ alert[a].pc = "new"
    /\ \E direction \in {1, -1}, position \in Positions :
        /\ alert' = [alert EXCEPT ![a] = [pc |-> "score", direction |-> direction, position |-> position]]
        /\ informed' = (informed /\ Holds(position) /\ signals = << >> /\ InFlight = {})
    /\ UNCHANGED <<enforce, published, decisions, signals, book, mlfaults>>

mapActionToCommand(direction) == <<"OPEN", SideOf(direction)>>

\* Mutant: a flip opens without closing.
mapDecisionToCommand_open(action, position) ==
    IF action[1] = "CLOSE_ONLY" THEN <<"CLOSE", position>>
    ELSE IF action[1] = "NOTHING" THEN None
    ELSE <<"OPEN", action[2]>>

\* CLOSE_ONLY closes the side that is held; NOTHING publishes nothing.
mapDecisionToCommand(action, position) ==
    IF action[1] = "CLOSE_ONLY" THEN <<"CLOSE", position>>
    ELSE IF action[1] = "NOTHING" THEN None
    ELSE action

\* An error fails open. Shadow mode sends the alert as it came.
Command(decision, direction, position) ==
    IF decision.error \/ ~ enforce THEN mapActionToCommand(direction)
    ELSE mapDecisionToCommand(decision.action, position)

\* POST /predict, answered by handle_predict, or not in time.
Score(a) ==
    LET l == alert[a]
        Next(decision) ==
            LET command == Command(decision, l.direction, l.position)
            IN alert' = [alert EXCEPT ![a] =
                    [pc |-> IF command = None THEN "record" ELSE "publish", command |-> command,
                     failed |-> decision.error, direction |-> l.direction,
                     model |-> mapDecisionToCommand(decision.action, l.position)]]
    IN /\ l.pc = "score"
       /\ \/ \E complete, pass \in BOOLEAN : Next(predict(l.direction, complete, l.position, pass))
             /\ UNCHANGED mlfaults
          \/ MLFault /\ Next(Undecided)
       /\ UNCHANGED <<enforce, published, decisions, signals, book, informed>>

\* A publish that fails answers 503; the audit row is written all the same.
PublishCommand(a) ==
    /\ alert[a].pc = "publish"
    /\ alert' = [alert EXCEPT ![a].pc = "record"]
    /\ \/ /\ signals' = Append(signals, alert[a].command)
          /\ published' = [published EXCEPT ![a] = alert[a].command]
          /\ UNCHANGED mlfaults
       \/ MLFault /\ UNCHANGED <<signals, published>>
    /\ UNCHANGED <<enforce, decisions, book, informed>>

\* Mutant: the row has the command the model would have chosen.
recordMLDecision_model(a) ==
    /\ alert[a].pc = "record"
    /\ alert' = [alert EXCEPT ![a].pc = "done"]
    /\ decisions' = [decisions EXCEPT ![a] = alert[a].model]
    /\ UNCHANGED <<enforce, published, signals, book, informed, mlfaults>>

\* Best effort, in a goroutine of its own.
recordMLDecision(a) ==
    /\ alert[a].pc = "record"
    /\ alert' = [alert EXCEPT ![a].pc = "done"]
    /\ \/ decisions' = [decisions EXCEPT ![a] = alert[a].command] /\ UNCHANGED mlfaults
       \/ MLFault /\ UNCHANGED decisions
    /\ UNCHANGED <<enforce, published, signals, book, informed>>

\* The executor takes the commands in order, each once (module SignalDelivery has the
\* redeliveries). A flip closes first; an order the broker refuses is not repeated.
ExecuteCommand ==
    /\ signals # << >>
    /\ signals' = Tail(signals)
    /\ LET what == Head(signals)[1]
           side == Head(signals)[2]
           closed == CASE what = "CLOSE" -> [book EXCEPT ![side] = 0]
                       [] what = "FLIP" -> [book EXCEPT ![Opposite(side)] = 0]
                       [] what = "OPEN" -> book
       IN \/ /\ book' = IF what = "CLOSE" THEN closed ELSE [closed EXCEPT ![side] = @ + 1]
             /\ UNCHANGED mlfaults
          \/ MLFault /\ book' \in {book, closed}
    /\ UNCHANGED <<enforce, alert, published, decisions, informed>>

MLNext ==
    \/ \E a \in Alerts : Resolve(a) \/ Score(a) \/ PublishCommand(a) \/ recordMLDecision(a)
    \/ ExecuteCommand

MLSpec == MLInit /\ [][MLNext]_mlvars

-----------------------------------------------------------------------------
(* Properties. *)

\* With the filter enforced and answering, an account whose alerts state its position,
\* one at a time, never holds two positions: however the scores fall, a signal opens,
\* flips, closes or does nothing (predict, mapDecisionToCommand).
NeverPyramids ==
    /\ enforce /\ informed
    /\ \A a \in Alerts : alert[a].pc \in {"publish", "record", "done"} => ~ alert[a].failed
    => book["LONG"] + book["SHORT"] <= 1

\* The audit row of an alert names the command that was published, in shadow mode and
\* after an error too. It names one that was not published only when the publish failed
\* (webhookML, recordMLDecision).
DecisionRowsAreTrue ==
    \A a \in Alerts :
        decisions[a] # NoRow =>
            \/ decisions[a] = published[a]
            \/ published[a] = None /\ mlfaults > 0

\* A filter that is down, or cannot score an alert, never stops it: the alert is
\* published as it came, unless the publish fails as well (webhookML).
OutageNeverBlocks ==
    \A a \in Alerts :
        alert[a].pc \in {"record", "done"} /\ alert[a].failed =>
            \/ published[a] = mapActionToCommand(alert[a].direction)
            \/ published[a] = None /\ mlfaults > 0

\* An alert is published as its mode and its score demand, and its row says so, whichever of
\* the calls fails (webhookML).
AlertsAreAnsweredFor == DecisionRowsAreTrue /\ OutageNeverBlocks
=============================================================================
