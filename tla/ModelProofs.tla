----------------------------- MODULE ModelProofs -----------------------------
(***************************************************************************)
(* The model's live path, the backtest of the model and the sizing of an   *)
(* order, which share no state.                                            *)
(*                                                                         *)
(* The live path, for any alerts and faults: an account whose senders tell *)
(* the truth holds one position, and every alert is answered for.          *)
(*                                                                         *)
(* The backtest, for any candles and any number of signals: the two        *)
(* branches are one while no signal is stopped, and the report of a branch *)
(* is true. The report is computed by loops, which are recursive functions *)
(* here. That such a function exists, and what it computes, is shown from  *)
(* the least number at which it would fail (CountUp).                      *)
(*                                                                         *)
(* The sizing, for any instrument: the volume is the largest step of the   *)
(* broker's that stays within the risk.                                    *)
(***************************************************************************)
EXTENDS MLWebhook, Backtest, Sizing, FiniteSetTheorems, TLAPS

-----------------------------------------------------------------------------
(* The live path of the model. *)

Sent == {"OPEN", "CLOSE", "FLIP"} \X Sides

Waiting == [pc : {"new"}]
Scoring == [pc : {"score"}, direction : {1, -1}, position : Positions]
Scored == [pc : {"publish", "record", "done"}, command : Sent \cup {None}, failed : BOOLEAN,
           direction : {1, -1}, model : Sent \cup {None}]

MLType ==
    /\ enforce \in BOOLEAN /\ informed \in BOOLEAN
    /\ alert \in [Alerts -> Waiting \cup Scoring \cup Scored]
    /\ published \in [Alerts -> Sent \cup {None}]
    /\ decisions \in [Alerts -> Sent \cup {None, NoRow}]
    /\ signals \in Seq(Sent)
    /\ book \in [Sides -> Nat]
    /\ mlfaults \in Nat

\* What has become of an alert's command agrees with the place of its handler.
Answered(a) ==
    LET l == alert[a]
    IN /\ l.pc \in {"new", "score", "publish"} => published[a] = None
       /\ l.pc # "done" => decisions[a] = NoRow
       /\ l.pc = "publish" => l.command # None
       /\ l.pc \in {"publish", "record", "done"} /\ l.failed =>
            l.command = mapActionToCommand(l.direction)
       /\ l.pc \in {"record", "done"} =>
            published[a] = l.command \/ (published[a] = None /\ mlfaults > 0)
       /\ l.pc = "done" => decisions[a] \in {NoRow, l.command}

\* What a command asks of the account for it to hold one position afterwards.
Fits(command) ==
    /\ command[1] = "OPEN" => book["LONG"] = 0 /\ book["SHORT"] = 0
    /\ command[1] = "FLIP" => book[command[2]] = 0

\* The filter is enforced and answers, and the senders state the account's position.
Calm ==
    /\ enforce /\ informed
    /\ \A a \in Alerts : alert[a].pc \in {"publish", "record", "done"} => ~ alert[a].failed

Alone(a) == signals = << >> /\ \A b \in InFlight : b = a

\* As long as it is so, one command at a time is on its way, and the account still is as
\* the command was made for.
OneAtATime ==
    Calm =>
        /\ book["LONG"] + book["SHORT"] <= 1
        /\ \A a \in Alerts :
            /\ alert[a].pc = "score" => Alone(a) /\ Holds(alert[a].position)
            /\ alert[a].pc = "publish" => Alone(a) /\ Fits(alert[a].command)
        /\ signals # << >> => Len(signals) = 1 /\ Fits(signals[1])

MLInv == MLType /\ (\A a \in Alerts : Answered(a)) /\ OneAtATime

\* A decision on a position: it opens only from no position, and flips only from the
\* opposite one.
Sound(decision, position) ==
    LET command == mapDecisionToCommand(decision.action, position)
    IN /\ decision.error \in BOOLEAN
       /\ command \in Sent \cup {None}
       /\ command[1] = "OPEN" => position = "FLAT"
       /\ command[1] = "FLIP" => position = Opposite(command[2])

\* The filter's answers are sound (predict, mapDecisionToCommand).
LEMMA Decides ==
    ASSUME NEW direction \in {1, -1}, NEW complete \in BOOLEAN, NEW pass \in BOOLEAN,
           NEW position \in Positions
    PROVE  Sound(predict(direction, complete, position, pass), position)
  <1> DEFINE decision == predict(direction, complete, position, pass)
             command == mapDecisionToCommand(decision.action, position)
  <1>1. CASE ~ complete
    <2>1. decision = Undecided
      BY <1>1, Zenon DEF predict
    <2>2. command = None
      BY <2>1 DEF Undecided, mapDecisionToCommand
    <2> QED
      BY <2>1, <2>2 DEF Undecided, None, Sound
  <1>2. CASE complete
    <2> DEFINE side == SideOf(direction)
               close == position = Opposite(side)
               open == position # side /\ (position = "FLAT" \/ close) /\ pass
    <2>1. decision = Decision(close, open, side)
      BY <1>2, Zenon DEF predict
    <2>2. side \in Sides
      BY Zenon DEF SideOf, Sides
    <2>3. decision.error = FALSE
      BY <2>1 DEF Decision
    <2>4. decision.action = IF close /\ open THEN <<"FLIP", side>>
                            ELSE IF close THEN <<"CLOSE_ONLY", side>>
                            ELSE IF open THEN <<"OPEN", side>> ELSE <<"NOTHING", side>>
      BY <2>1 DEF Decision
    <2> HIDE DEF decision, side
    <2>5. command = IF close /\ open THEN <<"FLIP", side>>
                    ELSE IF close THEN <<"CLOSE", position>>
                    ELSE IF open THEN <<"OPEN", side>> ELSE None
      BY <2>4 DEF mapDecisionToCommand
    <2>6. close => position \in Sides
      BY <2>2, Zenon DEF Opposite, Sides
    <2> HIDE DEF command
    <2>7. command \in Sent \cup {None}
      BY <2>2, <2>5, <2>6, Zenon DEF Sent, Sides
    <2>8. (command[1] = "OPEN" => position = "FLAT") /\ (command[1] = "FLIP" => position = Opposite(command[2]))
      BY <2>2, <2>5, Zenon DEF None
    <2> QED
      BY <2>3, <2>7, <2>8, Zenon DEF decision, command, Sound
  <1> QED
    BY <1>1, <1>2, Zenon

\* The handlers start with nothing published and nothing recorded.
LEMMA MLStart == MLInit => MLInv
  <1> SUFFICES ASSUME MLInit PROVE MLInv
    BY Zenon
  <1> USE DEF MLInit
  <1>1. MLType
    BY DEF MLType, Waiting, Sides
  <1>2. \A a \in Alerts : Answered(a)
    BY Zenon DEF Answered
  <1>3. OneAtATime
    BY DEF OneAtATime, Calm, Sides
  <1> QED
    BY <1>1, <1>2, <1>3, Zenon DEF MLInv

\* The type of an alert's record follows from the place of its handler.
LEMMA AlertShape ==
    ASSUME MLType, NEW a \in Alerts
    PROVE  /\ alert[a].pc \in {"new", "score", "publish", "record", "done"}
           /\ alert[a].pc = "score" => alert[a] \in Scoring
           /\ alert[a].pc \in {"publish", "record", "done"} => alert[a] \in Scored
  <1>1. alert[a] \in Waiting \cup Scoring \cup Scored
    BY Zenon DEF MLType
  <1>2. CASE alert[a] \in Waiting
    BY <1>2, Zenon DEF Waiting
  <1>3. CASE alert[a] \in Scoring
    BY <1>3, Zenon DEF Scoring
  <1>4. CASE alert[a] \in Scored
    BY <1>4, Zenon DEF Scored
  <1> QED
    BY <1>1, <1>2, <1>3, <1>4, Zenon

\* An alert that arrives while another is on its way ends the calm; otherwise the
\* position it states is the account's (resolveCurrentPosition).
LEMMA ResolveKeeps ==
    ASSUME MLInv, NEW a \in Alerts, Resolve(a)
    PROVE  MLInv'
  <1>1. PICK direction \in {1, -1}, position \in Positions :
            /\ alert' = [alert EXCEPT ![a] = [pc |-> "score", direction |-> direction, position |-> position]]
            /\ informed' = (informed /\ Holds(position) /\ signals = << >> /\ InFlight = {})
    BY Zenon DEF Resolve
  <1> DEFINE x == [pc |-> "score", direction |-> direction, position |-> position]
  <1>2. x \in Scoring /\ x.pc = "score" /\ x.position = position
    BY Zenon DEF Scoring
  <1>3. alert' = [alert EXCEPT ![a] = x]
    BY <1>1, Zenon
  <1> HIDE DEF x
  <1>4. MLType
    BY Zenon DEF MLInv
  <1>5. /\ alert[a].pc = "new"
        /\ UNCHANGED <<enforce, published, decisions, signals, book, mlfaults>>
    BY Zenon DEF Resolve
  <1>6. alert'[a] = x /\ \A b \in Alerts : b # a => alert'[b] = alert[b]
    BY <1>3, <1>4, Zenon DEF MLType
  <1>7. MLType'
    <2>1. alert' \in [Alerts -> Waiting \cup Scoring \cup Scored]
      BY <1>2, <1>3, <1>4, Zenon DEF MLType
    <2>2. informed' \in BOOLEAN
      BY <1>1, Zenon
    <2> QED
      BY <1>4, <1>5, <2>1, <2>2, Zenon DEF MLType
  <1>8. (\A b \in Alerts : Answered(b))'
    <2> SUFFICES ASSUME NEW b \in Alerts PROVE Answered(b)'
      BY Zenon
    <2>1. CASE b = a
      BY <1>2, <1>5, <1>6, <2>1, Zenon DEF MLInv, Answered
    <2>2. CASE b # a
      BY <1>5, <1>6, <2>2, Zenon DEF MLInv, Answered
    <2> QED
      BY <2>1, <2>2, Zenon
  <1>9. OneAtATime'
    <2> SUFFICES ASSUME Calm' PROVE OneAtATime'
      BY Zenon DEF OneAtATime
    <2>1. informed /\ Holds(position) /\ signals = << >> /\ InFlight = {}
      BY <1>1, Zenon DEF Calm
    <2>2. Calm
      <3>1. enforce
        BY <1>5, Zenon DEF Calm
      <3>2. ASSUME NEW b \in Alerts, alert[b].pc \in {"publish", "record", "done"}
            PROVE  ~ alert[b].failed
        BY <1>5, <1>6, <3>2, Zenon DEF Calm
      <3> QED
        BY <2>1, <3>1, <3>2, Zenon DEF Calm
    <2>3. book["LONG"] + book["SHORT"] <= 1
      BY <2>2, Zenon DEF MLInv, OneAtATime
    <2>4. \A b \in Alerts : b # a => alert'[b].pc \notin {"score", "publish"}
      BY <1>6, <2>1, Zenon DEF InFlight
    <2>5. Holds(position)'
      BY <1>5, <2>1, Zenon DEF Holds
    <2>6. Alone(a)'
      BY <1>5, <2>1, <2>4, Zenon DEF Alone, InFlight
    <2>7. ASSUME NEW b \in Alerts
          PROVE  /\ alert'[b].pc = "score" => Alone(b)' /\ Holds(alert[b].position)'
                 /\ alert'[b].pc = "publish" => Alone(b)' /\ Fits(alert[b].command)'
      <3>1. CASE b = a
        BY <1>2, <1>6, <2>5, <2>6, <3>1, Zenon DEF Holds
      <3>2. CASE b # a
        BY <2>4, <3>2, Zenon
      <3> QED
        BY <3>1, <3>2, Zenon
    <2> QED
      BY <1>5, <2>1, <2>3, <2>7, Zenon DEF OneAtATime
  <1> QED
    BY <1>7, <1>8, <1>9, Zenon DEF MLInv

\* A scored alert goes on with the command its mode and its score demand; in the calm it
\* is one the account's position allows (webhookML).
LEMMA ScoreKeeps ==
    ASSUME MLInv, NEW a \in Alerts, Score(a)
    PROVE  MLInv'
  <1> DEFINE l == alert[a]
             Model(decision) == mapDecisionToCommand(decision.action, l.position)
             Cmd(decision) == Command(decision, l.direction, l.position)
             Rec(decision) == [pc |-> IF Cmd(decision) = None THEN "record" ELSE "publish",
                               command |-> Cmd(decision), failed |-> decision.error,
                               direction |-> l.direction, model |-> Model(decision)]
  <1>1. MLType
    BY Zenon DEF MLInv
  <1>2. /\ l.pc = "score" /\ l \in Scoring
        /\ UNCHANGED <<enforce, published, decisions, signals, book, informed>>
    BY <1>1, AlertShape, Zenon DEF Score
  <1>3. l.direction \in {1, -1} /\ l.position \in Positions
    BY <1>2, Zenon DEF Scoring
  <1>4. Sound(Undecided, l.position)
    BY Zenon DEF Sound, Undecided, mapDecisionToCommand, None
  <1>5. \A complete, pass \in BOOLEAN : Sound(predict(l.direction, complete, l.position, pass), l.position)
    BY <1>3, Decides, Zenon
  <1> DEFINE Scores(decision) == /\ Sound(decision, l.position)
                                 /\ alert' = [alert EXCEPT ![a] = Rec(decision)]
                                 /\ mlfaults' \in Nat /\ mlfaults' >= mlfaults
  <1>6. \E decision : Scores(decision)
    <2> HIDE DEF Rec, Model, Cmd, l
    <2>1. ASSUME NEW complete \in BOOLEAN, NEW pass \in BOOLEAN,
                 alert' = [alert EXCEPT ![a] = Rec(predict(l.direction, complete, l.position, pass))],
                 UNCHANGED mlfaults
          PROVE  Scores(predict(l.direction, complete, l.position, pass))
      BY <1>1, <1>5, <2>1 DEF MLType
    <2>2. ASSUME alert' = [alert EXCEPT ![a] = Rec(Undecided)], MLFault
          PROVE  Scores(Undecided)
      BY <1>1, <1>4, <2>2 DEF MLType, MLFault
    <2> HIDE DEF Scores
    <2> QED
      BY <2>1, <2>2, ZenonT(40) DEF Score, Rec, Cmd, Model, l
  <1> HIDE DEF l
  <1>7. PICK decision : Scores(decision)
    BY <1>6, Zenon
  <1> DEFINE x == Rec(decision)
             command == Cmd(decision)
  <1> HIDE DEF Model
  <1>8. command \in Sent \cup {None}
    BY <1>3, <1>7, Zenon DEF Sound, Command, Model, mapActionToCommand, SideOf, Sent, Sides
  <1>9. decision.error => command = mapActionToCommand(l.direction)
    BY Zenon DEF Command
  <1>10. ~ decision.error /\ enforce => command = Model(decision)
    BY Zenon DEF Command, Model
  <1> HIDE DEF Cmd, command
  <1>11. /\ x.pc = IF command = None THEN "record" ELSE "publish"
         /\ x.command = command /\ x.direction = l.direction
    BY Zenon DEF command
  <1>12. x.failed = decision.error
    BY Zenon DEF x, Rec
  <1>13. x \in Scored
    BY <1>3, <1>7, <1>8, Zenon DEF Sound, Model, Scored, command
  <1>14. alert' = [alert EXCEPT ![a] = x]
    BY <1>7, Zenon
  <1> HIDE DEF x, Rec
  <1>15. alert'[a] = x /\ \A b \in Alerts : b # a => alert'[b] = alert[b]
    BY <1>1, <1>14, Zenon DEF MLType
  <1>16. MLType'
    BY <1>1, <1>2, <1>7, <1>13, <1>14, Zenon DEF MLType
  <1>17. (\A b \in Alerts : Answered(b))'
    <2> SUFFICES ASSUME NEW b \in Alerts PROVE Answered(b)'
      BY Zenon
    <2>1. CASE b = a
      <3>1. published[a] = None /\ decisions[a] = NoRow
        BY <1>2, Zenon DEF MLInv, Answered, l
      <3>2. x.failed => x.command = mapActionToCommand(x.direction)
        BY <1>9, <1>11, <1>12, Zenon
      <3> QED
        BY <1>2, <1>11, <1>15, <2>1, <3>1, <3>2, Zenon DEF Answered
    <2>2. CASE b # a
      BY <1>1, <1>2, <1>7, <1>15, <2>2 DEF MLInv, Answered, MLType
    <2> QED
      BY <2>1, <2>2, Zenon
  <1>18. OneAtATime'
    <2> SUFFICES ASSUME Calm' PROVE OneAtATime'
      BY Zenon DEF OneAtATime
    <2>1. ~ x.failed
      BY <1>11, <1>15, Zenon DEF Calm
    <2>2. Calm
      <3>1. ASSUME NEW b \in Alerts, alert[b].pc \in {"publish", "record", "done"}
            PROVE  ~ alert[b].failed
        BY <1>2, <1>15, <3>1, Zenon DEF Calm, l
      <3> QED
        BY <1>2, <3>1, Zenon DEF Calm
    <2>3. /\ book["LONG"] + book["SHORT"] <= 1
          /\ Alone(a) /\ Holds(l.position)
      BY <1>2, <2>2, Zenon DEF MLInv, OneAtATime, l
    <2>4. command = Model(decision)
      BY <1>10, <1>12, <2>1, <2>2, Zenon DEF Calm
    <2>5. Fits(command)
      <3>1. book["LONG"] \in Nat /\ book["SHORT"] \in Nat
        BY <1>1, Zenon DEF MLType, Sides
      <3>2. CASE command[1] = "OPEN"
        BY <1>7, <2>3, <2>4, <3>1, <3>2 DEF Sound, Model, Holds, Fits, Sides
      <3>3. CASE command[1] = "FLIP"
        <4>1. command[2] \in Sides
          BY <1>8, <3>3 DEF Sent, None, Sides
        <4>2. l.position = Opposite(command[2])
          BY <1>7, <2>4, <3>3, Zenon DEF Sound, Model
        <4>3. command[2] # l.position
          BY <4>1, <4>2, Zenon DEF Opposite, Sides
        <4> QED
          BY <2>3, <3>1, <3>3, <4>1, <4>3 DEF Holds, Fits, Sides
      <3> QED
        BY <3>2, <3>3, Zenon DEF Fits
    <2>6. Fits(alert[a].command)'
      BY <1>2, <1>11, <1>15, <2>5, Zenon DEF Fits
    <2>7. \A b \in Alerts : b # a => alert'[b].pc \notin {"score", "publish"}
      BY <1>15, <2>3, Zenon DEF Alone, InFlight
    <2>8. Alone(a)'
      BY <1>2, <2>3, <2>7, Zenon DEF Alone, InFlight
    <2>9. ASSUME NEW b \in Alerts
          PROVE  /\ alert'[b].pc = "score" => Alone(b)' /\ Holds(alert[b].position)'
                 /\ alert'[b].pc = "publish" => Alone(b)' /\ Fits(alert[b].command)'
      <3>1. CASE b = a
        BY <1>11, <1>15, <2>6, <2>8, <3>1, Zenon
      <3>2. CASE b # a
        BY <2>7, <3>2, Zenon
      <3> QED
        BY <3>1, <3>2, Zenon
    <2> QED
      BY <1>2, <2>3, <2>9, Zenon DEF OneAtATime, Alone
  <1> QED
    BY <1>16, <1>17, <1>18, Zenon DEF MLInv

\* A command is published once, or its publish fails; the account has not changed since
\* the alert was scored (webhookML).
LEMMA PublishKeeps ==
    ASSUME MLInv, NEW a \in Alerts, PublishCommand(a)
    PROVE  MLInv'
  <1> DEFINE x == [alert[a] EXCEPT !.pc = "record"]
  <1>1. MLType
    BY Zenon DEF MLInv
  <1>2. /\ alert[a].pc = "publish" /\ alert' = [alert EXCEPT ![a] = x]
        /\ UNCHANGED <<enforce, decisions, book, informed>>
    BY Zenon DEF PublishCommand
  <1>3. alert[a] \in Scored
    BY <1>1, <1>2, AlertShape, Zenon
  <1>4. /\ x \in Scored /\ x.pc = "record" /\ x.command = alert[a].command
        /\ x.direction = alert[a].direction
    BY <1>3, Zenon DEF Scored
  <1>5. x.failed = alert[a].failed
    BY <1>3, Zenon DEF Scored
  <1> HIDE DEF x
  <1>6. alert'[a] = x /\ \A b \in Alerts : b # a => alert'[b] = alert[b]
    BY <1>1, <1>2, Zenon DEF MLType
  <1>7. alert[a].command \in Sent
    <2>1. alert[a].command # None
      BY <1>2, Zenon DEF MLInv, Answered
    <2> QED
      BY <1>3, <2>1, Zenon DEF Scored
  <1>8. \/ /\ signals' = Append(signals, alert[a].command)
           /\ published' = [published EXCEPT ![a] = alert[a].command]
           /\ mlfaults' = mlfaults
        \/ /\ mlfaults' = mlfaults + 1
           /\ signals' = signals /\ published' = published
    BY Zenon DEF PublishCommand, MLFault
  <1>9. MLType'
    <2>1. signals \in Seq(Sent) /\ mlfaults \in Nat
      BY <1>1, Zenon DEF MLType
    <2>2. signals' \in Seq(Sent)
      <3>1. Append(signals, alert[a].command) \in Seq(Sent)
        BY <1>7, <2>1
      <3> QED
        BY <1>8, <2>1, <3>1, Zenon
    <2>3. published' \in [Alerts -> Sent \cup {None}]
      BY <1>1, <1>7, <1>8, Zenon DEF MLType
    <2>4. mlfaults' \in Nat
      BY <1>8, <2>1
    <2>5. alert' \in [Alerts -> Waiting \cup Scoring \cup Scored]
      BY <1>1, <1>2, <1>4, Zenon DEF MLType
    <2> QED
      BY <1>1, <1>2, <2>2, <2>3, <2>4, <2>5, Zenon DEF MLType
  <1>10. (\A b \in Alerts : Answered(b))'
    <2> SUFFICES ASSUME NEW b \in Alerts PROVE Answered(b)'
      BY Zenon
    <2>1. mlfaults \in Nat /\ mlfaults' \in Nat /\ mlfaults' >= mlfaults
      BY <1>1, <1>8 DEF MLType
    <2>2. CASE b = a
      <3>1. published[a] = None /\ decisions[a] = NoRow
        BY <1>2, Zenon DEF MLInv, Answered
      <3>2. alert[a].failed => alert[a].command = mapActionToCommand(alert[a].direction)
        BY <1>2, Zenon DEF MLInv, Answered
      <3>3. published'[a] = x.command \/ (published'[a] = None /\ mlfaults' > 0)
        BY <1>1, <1>4, <1>8, <3>1, SMTT(30) DEF MLType
      <3> QED
        BY <1>2, <1>4, <1>5, <1>6, <2>2, <3>1, <3>2, <3>3, SMTT(30) DEF Answered
    <2>3. CASE b # a
      <3>1. published'[b] = published[b]
        BY <1>1, <1>8, <2>3, Zenon DEF MLType
      <3> QED
        BY <1>2, <1>6, <2>1, <2>3, <3>1 DEF MLInv, Answered
    <2> QED
      BY <2>2, <2>3, Zenon
  <1>11. OneAtATime'
    <2> SUFFICES ASSUME Calm' PROVE OneAtATime'
      BY Zenon DEF OneAtATime
    <2>1. Calm
      <3>1. ASSUME NEW b \in Alerts, alert[b].pc \in {"publish", "record", "done"}
            PROVE  ~ alert[b].failed
        <4>1. CASE b = a
          BY <1>4, <1>5, <1>6, <4>1, Zenon DEF Calm
        <4>2. CASE b # a
          BY <1>6, <3>1, <4>2, Zenon DEF Calm
        <4> QED
          BY <4>1, <4>2, Zenon
      <3> QED
        BY <1>2, <3>1, Zenon DEF Calm
    <2>2. /\ book["LONG"] + book["SHORT"] <= 1
          /\ Alone(a) /\ Fits(alert[a].command)
      BY <1>2, <2>1, Zenon DEF MLInv, OneAtATime
    <2>3. \A b \in Alerts : alert'[b].pc \notin {"score", "publish"}
      BY <1>4, <1>6, <2>2, Zenon DEF Alone, InFlight
    <2>4. signals' = << >> \/ signals' = <<alert[a].command>>
      BY <1>8, <2>2 DEF Alone
    <2>5. ASSUME signals' # << >>
          PROVE  Len(signals') = 1 /\ Fits(signals[1])'
      <3>1. signals' = <<alert[a].command>>
        BY <2>4, <2>5, Zenon
      <3>2. signals'[1] = alert[a].command /\ Len(signals') = 1
        BY <3>1, Zenon
      <3> QED
        BY <1>2, <2>2, <3>2, Zenon DEF Fits
    <2> QED
      BY <1>2, <2>2, <2>3, <2>5, Zenon DEF OneAtATime
  <1> QED
    BY <1>9, <1>10, <1>11, Zenon DEF MLInv

\* The row names the alert's own command (recordMLDecision).
LEMMA RecordKeeps ==
    ASSUME MLInv, NEW a \in Alerts, recordMLDecision(a)
    PROVE  MLInv'
  <1> DEFINE x == [alert[a] EXCEPT !.pc = "done"]
  <1>1. MLType
    BY Zenon DEF MLInv
  <1>2. /\ alert[a].pc = "record" /\ alert' = [alert EXCEPT ![a] = x]
        /\ UNCHANGED <<enforce, published, signals, book, informed>>
    BY Zenon DEF recordMLDecision
  <1>3. alert[a] \in Scored
    BY <1>1, <1>2, AlertShape, Zenon
  <1>4. /\ x \in Scored /\ x.pc = "done" /\ x.command = alert[a].command
        /\ x.direction = alert[a].direction
    BY <1>3, Zenon DEF Scored
  <1>5. x.failed = alert[a].failed
    BY <1>3, Zenon DEF Scored
  <1> HIDE DEF x
  <1>6. alert'[a] = x /\ \A b \in Alerts : b # a => alert'[b] = alert[b]
    BY <1>1, <1>2, Zenon DEF MLType
  <1>7. /\ mlfaults' \in Nat /\ mlfaults' >= mlfaults
        /\ \/ decisions' = [decisions EXCEPT ![a] = alert[a].command]
           \/ decisions' = decisions
    BY <1>1 DEF recordMLDecision, MLFault, MLType
  <1>8. MLType'
    <2>1. alert[a].command \in Sent \cup {None}
      BY <1>3, Zenon DEF Scored
    <2> QED
      BY <1>1, <1>2, <1>4, <1>7, <2>1, Zenon DEF MLType
  <1>9. (\A b \in Alerts : Answered(b))'
    <2> SUFFICES ASSUME NEW b \in Alerts PROVE Answered(b)'
      BY Zenon
    <2>1. mlfaults \in Nat
      BY <1>1, Zenon DEF MLType
    <2>2. CASE b = a
      <3>1. /\ decisions[a] = NoRow
            /\ alert[a].failed => alert[a].command = mapActionToCommand(alert[a].direction)
            /\ published[a] = alert[a].command \/ (published[a] = None /\ mlfaults > 0)
        BY <1>2, Zenon DEF MLInv, Answered
      <3>2. decisions'[a] \in {NoRow, x.command}
        BY <1>1, <1>4, <1>7, <3>1, Zenon DEF MLType
      <3> QED
        BY <1>2, <1>4, <1>5, <1>6, <1>7, <2>1, <2>2, <3>1, <3>2, SMTT(30) DEF Answered
    <2>3. CASE b # a
      <3>1. decisions'[b] = decisions[b]
        BY <1>1, <1>7, <2>3, Zenon DEF MLType
      <3> QED
        BY <1>2, <1>6, <1>7, <2>1, <2>3, <3>1 DEF MLInv, Answered
    <2> QED
      BY <2>2, <2>3, Zenon
  <1>10. OneAtATime'
    <2> SUFFICES ASSUME Calm' PROVE OneAtATime'
      BY Zenon DEF OneAtATime
    <2>1. Calm
      <3>1. ASSUME NEW b \in Alerts, alert[b].pc \in {"publish", "record", "done"}
            PROVE  ~ alert[b].failed
        <4>1. CASE b = a
          BY <1>4, <1>5, <1>6, <4>1, Zenon DEF Calm
        <4>2. CASE b # a
          BY <1>6, <3>1, <4>2, Zenon DEF Calm
        <4> QED
          BY <4>1, <4>2, Zenon
      <3> QED
        BY <1>2, <3>1, Zenon DEF Calm
    <2>2. InFlight' = InFlight
      BY <1>2, <1>4, <1>6, Zenon DEF InFlight
    <2>3. ASSUME NEW b \in Alerts
          PROVE  /\ alert'[b].pc = "score" => Alone(b)' /\ Holds(alert[b].position)'
                 /\ alert'[b].pc = "publish" => Alone(b)' /\ Fits(alert[b].command)'
      <3>1. CASE b = a
        BY <1>4, <1>6, <3>1, Zenon
      <3>2. CASE b # a
        BY <1>2, <1>6, <2>1, <2>2, <3>2 DEF MLInv, OneAtATime, Alone, Holds, Fits
      <3> QED
        BY <3>1, <3>2, Zenon
    <2> QED
      BY <1>2, <2>1, <2>3, Zenon DEF MLInv, OneAtATime, Fits
  <1> QED
    BY <1>8, <1>9, <1>10, Zenon DEF MLInv

\* The stream's commands are carried out in order. In the calm there is one, and it fits:
\* a flip that half fails leaves less than it found, not more (Option 1).
LEMMA ExecuteKeeps ==
    ASSUME MLInv, ExecuteCommand
    PROVE  MLInv'
  <1> DEFINE what == Head(signals)[1]
             side == Head(signals)[2]
             other == Opposite(side)
  <1>1. MLType
    BY Zenon DEF MLInv
  <1>2. /\ signals # << >> /\ signals' = Tail(signals)
        /\ UNCHANGED <<enforce, alert, published, decisions, informed>>
    BY Zenon DEF ExecuteCommand
  <1>3. Head(signals) \in Sent /\ signals' \in Seq(Sent) /\ Head(signals) = signals[1]
    BY <1>1, <1>2 DEF MLType
  <1>4. what \in {"OPEN", "CLOSE", "FLIP"} /\ side \in Sides /\ other \in Sides /\ other # side
    BY <1>3, Zenon DEF Sent, Opposite, Sides
  <1>5. book[side] \in Nat /\ book[other] \in Nat
    BY <1>1, <1>4, Zenon DEF MLType
  <1> DEFINE closed == CASE what = "CLOSE" -> [book EXCEPT ![side] = 0]
                         [] what = "FLIP" -> [book EXCEPT ![other] = 0]
                         [] what = "OPEN" -> book
  <1>6. /\ mlfaults' \in Nat /\ mlfaults' >= mlfaults
        /\ \/ book' = IF what = "CLOSE" THEN closed ELSE [closed EXCEPT ![side] = @ + 1]
           \/ book' \in {book, closed}
    <2>1. \/ /\ book' = IF what = "CLOSE" THEN closed ELSE [closed EXCEPT ![side] = @ + 1]
             /\ UNCHANGED mlfaults
          \/ MLFault /\ book' \in {book, closed}
      BY Zenon DEF ExecuteCommand
    <2> HIDE DEF closed, what, side
    <2> QED
      BY <1>1, <2>1 DEF MLFault, MLType
  <1>7. \/ book' = book
        \/ what = "CLOSE" /\ book' = [book EXCEPT ![side] = 0]
        \/ what = "FLIP" /\ book' = [book EXCEPT ![other] = 0]
        \/ what = "FLIP" /\ book' = [[book EXCEPT ![other] = 0] EXCEPT ![side] = @ + 1]
        \/ what = "OPEN" /\ book' = [book EXCEPT ![side] = @ + 1]
    BY <1>4, <1>6, Zenon
  <1> HIDE DEF what, side, other, closed
  <1>8. \/ book' = book
        \/ what = "CLOSE" /\ book'[side] = 0 /\ book'[other] = book[other]
        \/ what = "FLIP" /\ book'[side] = book[side] /\ book'[other] = 0
        \/ what = "FLIP" /\ book'[side] = book[side] + 1 /\ book'[other] = 0
        \/ what = "OPEN" /\ book'[side] = book[side] + 1 /\ book'[other] = book[other]
    BY <1>1, <1>4, <1>7, Zenon DEF MLType
  <1>9. MLType'
    <2>1. book \in [Sides -> Nat]
      BY <1>1, Zenon DEF MLType
    <2>2. book' \in [Sides -> Nat]
      <3> DEFINE left == [book EXCEPT ![other] = 0]
      <3>1. left \in [Sides -> Nat] /\ left[side] \in Nat
        BY <1>4, <1>5, <2>1, Zenon
      <3>2. /\ [book EXCEPT ![side] = 0] \in [Sides -> Nat]
            /\ [book EXCEPT ![side] = @ + 1] \in [Sides -> Nat]
        BY <1>4, <1>5, <2>1
      <3> HIDE DEF left
      <3>3. [left EXCEPT ![side] = @ + 1] \in [Sides -> Nat]
        BY <1>4, <3>1, SMTT(30)
      <3> QED
        BY <1>7, <2>1, <3>1, <3>2, <3>3, Zenon DEF left
    <2> QED
      BY <1>1, <1>2, <1>3, <1>6, <2>2, Zenon DEF MLType
  <1>10. (\A a \in Alerts : Answered(a))'
    BY <1>1, <1>2, <1>6, SMTT(30) DEF MLInv, Answered, MLType
  <1>11. OneAtATime'
    <2> SUFFICES ASSUME Calm' PROVE OneAtATime'
      BY Zenon DEF OneAtATime
    <2>1. Calm
      BY <1>2, Zenon DEF Calm
    <2>2. /\ book["LONG"] + book["SHORT"] <= 1
          /\ Len(signals) = 1 /\ Fits(signals[1])
      BY <1>2, <2>1, Zenon DEF MLInv, OneAtATime
    <2>3. \A a \in Alerts : alert'[a].pc \notin {"score", "publish"}
      BY <1>2, <2>1, Zenon DEF MLInv, OneAtATime, Alone
    <2>4. signals' = << >>
      BY <1>1, <1>2, <2>2 DEF MLType
    <2>5. /\ what = "OPEN" => book["LONG"] = 0 /\ book["SHORT"] = 0
          /\ what = "FLIP" => book[side] = 0
      BY <1>3, <2>2, Zenon DEF Fits, what, side
    <2>6. book[side] + book[other] <= 1
      BY <1>1, <1>4, <2>2 DEF MLType, Sides
    <2>7. what = "OPEN" => book[side] = 0 /\ book[other] = 0
      BY <1>4, <2>5, Zenon DEF Sides
    <2>8. book'[side] + book'[other] <= 1
      BY <1>5, <1>8, <2>5, <2>6, <2>7
    <2>9. book'["LONG"] + book'["SHORT"] <= 1
      BY <1>4, <1>9, <2>8 DEF MLType, Sides
    <2> QED
      BY <2>3, <2>4, <2>9, Zenon DEF OneAtATime
  <1> QED
    BY <1>9, <1>10, <1>11, Zenon DEF MLInv

\* Alerts are answered for and handled one at a time as long as nothing disturbs them
\* (webhookML and the services behind it).
THEOREM MLInvariant == MLSpec => []MLInv
  <1>1. MLInv /\ [MLNext]_mlvars => MLInv'
    <2> SUFFICES ASSUME MLInv, [MLNext]_mlvars PROVE MLInv'
      BY Zenon
    <2>1. ASSUME NEW a \in Alerts, Resolve(a) PROVE MLInv'
      BY <2>1, ResolveKeeps, Zenon
    <2>2. ASSUME NEW a \in Alerts, Score(a) PROVE MLInv'
      BY <2>2, ScoreKeeps, Zenon
    <2>3. ASSUME NEW a \in Alerts, PublishCommand(a) PROVE MLInv'
      BY <2>3, PublishKeeps, Zenon
    <2>4. ASSUME NEW a \in Alerts, recordMLDecision(a) PROVE MLInv'
      BY <2>4, RecordKeeps, Zenon
    <2>5. CASE ExecuteCommand
      BY <2>5, ExecuteKeeps, Zenon
    <2>6. CASE UNCHANGED mlvars
      BY <2>6, ZenonT(40) DEF mlvars, MLInv, MLType, Answered, OneAtATime, Calm, Alone, InFlight, Holds, Fits
    <2> QED
      BY <2>1, <2>2, <2>3, <2>4, <2>5, <2>6, Zenon DEF MLNext
  <1> QED
    BY <1>1, MLStart, PTL DEF MLSpec

\* With the filter enforced and answering, an account whose alerts state its position, one
\* at a time, never holds two positions, for any number of alerts and of failed orders
\* (predict, mapDecisionToCommand).
THEOREM OnePosition == MLSpec => []NeverPyramids
  <1>1. MLInv => NeverPyramids
    BY Zenon DEF MLInv, OneAtATime, Calm, NeverPyramids
  <1> QED
    BY <1>1, MLInvariant, PTL

\* Whatever fails, an alert is published as its mode and its score demand, and its row says
\* so (webhookML, recordMLDecision).
THEOREM AlertsAnswered == MLSpec => []AlertsAreAnsweredFor
  <1>1. ASSUME MLInv PROVE DecisionRowsAreTrue
    <2> SUFFICES ASSUME NEW a \in Alerts, decisions[a] # NoRow
                 PROVE  decisions[a] = published[a] \/ (published[a] = None /\ mlfaults > 0)
      BY Zenon DEF DecisionRowsAreTrue
    <2>1. Answered(a) /\ MLType
      BY <1>1, Zenon DEF MLInv
    <2>2. alert[a].pc = "done"
      BY <2>1, Zenon DEF Answered
    <2> QED
      BY <2>1, <2>2, Zenon DEF Answered
  <1>2. ASSUME MLInv PROVE OutageNeverBlocks
    <2> SUFFICES ASSUME NEW a \in Alerts, alert[a].pc \in {"record", "done"}, alert[a].failed
                 PROVE  \/ published[a] = mapActionToCommand(alert[a].direction)
                        \/ published[a] = None /\ mlfaults > 0
      BY Zenon DEF OutageNeverBlocks
    <2>1. Answered(a)
      BY <1>2, Zenon DEF MLInv
    <2> QED
      BY <2>1, Zenon DEF Answered
  <1> QED
    BY <1>1, <1>2, MLInvariant, PTL DEF AlertsAreAnsweredFor

-----------------------------------------------------------------------------
(* The comparison of the model with "take every signal". *)

Trade == [side : Sides, in : Nat \ {0}, out : Nat]

\* The columns of a book: trades opened and closed.
Columns(b) ==
    /\ b.opened = Len(b.trades)
    /\ b.closed = Len(b.trades) - (IF b.position = "FLAT" THEN 0 ELSE 1)

\* A book whose trades end at bar i at the latest.
BookAt(b, i) ==
    /\ b.position \in Positions
    /\ b.trades \in Seq(Trade)
    /\ b.seen \in Nat /\ b.opened \in Nat /\ b.pyramid \in Nat /\ b.filter \in Nat
    /\ \A k \in 1 .. Len(b.trades) : b.trades[k].in <= i /\ b.trades[k].out <= i
    /\ \A k \in 1 .. Len(b.trades) : b.trades[k].out # 0 => b.trades[k].in <= b.trades[k].out
    /\ \A k \in 1 .. Len(b.trades) - 1 : b.trades[k].out # 0 /\ b.trades[k].out <= b.trades[k + 1].in
    /\ b.position = (IF b.trades = << >> \/ b.trades[Len(b.trades)].out # 0 THEN "FLAT"
                     ELSE b.trades[Len(b.trades)].side)
    /\ b.seen = b.opened + b.pyramid + b.filter
    /\ Columns(b)

BTInv ==
    /\ candles \in Seq(Candles)
    /\ bar \in Nat \ {0}
    /\ BookAt(unfiltered, bar + 1) /\ BookAt(filtered, bar + 1)
    /\ unfiltered.filter = 0 /\ unfiltered.seen = replayed
    /\ gated \in BOOLEAN
    /\ ~ gated => filtered = unfiltered

\* A decision on a book in a position: it opens, finds its position, or is blocked.
Decided(position, side, d, blocked) ==
    /\ d.open \in BOOLEAN /\ d.close \in BOOLEAN /\ blocked \in BOOLEAN
    /\ d.close = (position = Opposite(side))
    /\ d.open => position # side
    /\ blocked = (position # side /\ ~ d.open)

\* What ended by one bar has ended by a later one.
LEMMA BookLater ==
    ASSUME NEW b, NEW i \in Nat, NEW j \in Nat, i <= j, BookAt(b, i)
    PROVE  BookAt(b, j)
  <1>1. b.trades \in Seq(Trade)
    BY Zenon DEF BookAt
  <1>2. \A k \in 1 .. Len(b.trades) : b.trades[k] \in Trade
    BY <1>1
  <1>3. \A k \in 1 .. Len(b.trades) : b.trades[k].in \in Nat /\ b.trades[k].out \in Nat
    BY <1>2, Zenon DEF Trade
  <1>4. \A k \in 1 .. Len(b.trades) : b.trades[k].in <= i /\ b.trades[k].out <= i
    BY Zenon DEF BookAt
  <1>5. \A k \in 1 .. Len(b.trades) : b.trades[k].in <= j /\ b.trades[k].out <= j
    BY <1>3, <1>4
  <1> QED
    BY <1>5, Zenon DEF BookAt

\* The book after a signal.
LEMMA ApplyKeeps ==
    ASSUME NEW b, NEW side \in Sides, NEW d, NEW blocked, NEW i \in Nat, NEW j \in Nat \ {0},
           BookAt(b, i), i <= j, Decided(b.position, side, d, blocked)
    PROVE  /\ BookAt(apply(b, side, d, blocked, j), j)
           /\ apply(b, side, d, blocked, j).seen = b.seen + 1
           /\ ~ blocked => apply(b, side, d, blocked, j).filter = b.filter
  <1> DEFINE c == apply(b, side, d, blocked, j)
             closes == d.close /\ b.position # "FLAT"
             left == IF closes THEN [b.trades EXCEPT ![Len(b.trades)].out = j] ELSE b.trades
             pyramid == ~ d.open /\ ~ d.close /\ b.position = side
  <1>1. /\ c.position = IF d.open THEN side ELSE IF closes THEN "FLAT" ELSE b.position
        /\ c.trades = IF d.open THEN Append(left, [side |-> side, in |-> j, out |-> 0]) ELSE left
    BY Zenon DEF apply
  <1>0. /\ c.seen = b.seen + 1
        /\ c.opened = b.opened + (IF d.open THEN 1 ELSE 0)
        /\ c.closed = b.closed + (IF closes THEN 1 ELSE 0)
        /\ c.pyramid = b.pyramid + (IF pyramid THEN 1 ELSE 0)
        /\ c.filter = b.filter + (IF ~ d.open /\ ~ pyramid /\ blocked THEN 1 ELSE 0)
    BY Zenon DEF apply
  <1> HIDE DEF c
  <1>2. b.trades \in Seq(Trade) /\ b.position \in Positions
    BY Zenon DEF BookAt
  <1>12. /\ b.seen \in Nat /\ b.opened \in Nat /\ b.pyramid \in Nat /\ b.filter \in Nat
        /\ b.seen = b.opened + b.pyramid + b.filter
    BY Zenon DEF BookAt
  <1>3. d.open \in BOOLEAN /\ d.close \in BOOLEAN /\ blocked \in BOOLEAN
    BY Zenon DEF Decided
  <1>4. /\ pyramid <=> b.position = side
        /\ closes <=> b.position = Opposite(side)
        /\ d.open => b.position # side
        /\ blocked <=> (b.position # side /\ ~ d.open)
    BY <1>2, <1>3, Zenon DEF Decided, Opposite, Sides, Positions
  <1> HIDE DEF closes, pyramid
  <1>5. /\ c.seen \in Nat /\ c.opened \in Nat /\ c.pyramid \in Nat /\ c.filter \in Nat
        /\ c.seen = c.opened + c.pyramid + c.filter
        /\ ~ blocked => c.filter = b.filter
    <2>1. CASE d.open
      <3>1. /\ c.seen = b.seen + 1 /\ c.opened = b.opened + 1
            /\ c.pyramid = b.pyramid + 0 /\ c.filter = b.filter + 0
        BY <1>0, <1>4, <2>1, Zenon
      <3>2. ~ blocked
        BY <1>4, <2>1, Zenon
      <3>3. /\ c.seen \in Nat /\ c.opened \in Nat /\ c.pyramid \in Nat /\ c.filter \in Nat
            /\ c.seen = c.opened + c.pyramid + c.filter
        BY <1>12, <3>1
      <3>4. c.filter = b.filter
        BY <1>12, <3>1
      <3> QED
        BY <3>2, <3>3, <3>4, Zenon
    <2>2. CASE ~ d.open /\ b.position = side
      <3>1. /\ c.seen = b.seen + 1 /\ c.opened = b.opened + 0
            /\ c.pyramid = b.pyramid + 1 /\ c.filter = b.filter + 0
        BY <1>0, <1>4, <2>2, Zenon
      <3>2. ~ blocked
        BY <1>4, <2>2, Zenon
      <3>3. /\ c.seen \in Nat /\ c.opened \in Nat /\ c.pyramid \in Nat /\ c.filter \in Nat
            /\ c.seen = c.opened + c.pyramid + c.filter
        BY <1>12, <3>1
      <3>4. c.filter = b.filter
        BY <1>12, <3>1
      <3> QED
        BY <3>2, <3>3, <3>4, Zenon
    <2>3. CASE ~ d.open /\ b.position # side
      <3>1. /\ c.seen = b.seen + 1 /\ c.opened = b.opened + 0
            /\ c.pyramid = b.pyramid + 0 /\ c.filter = b.filter + 1
        BY <1>0, <1>4, <2>3, Zenon
      <3>2. blocked
        BY <1>4, <2>3, Zenon
      <3>3. /\ c.seen \in Nat /\ c.opened \in Nat /\ c.pyramid \in Nat /\ c.filter \in Nat
            /\ c.seen = c.opened + c.pyramid + c.filter
        BY <1>12, <3>1
      <3> QED
        BY <3>2, <3>3, Zenon
    <2> QED
      BY <1>3, <2>1, <2>2, <2>3, Zenon
  <1> DEFINE m == Len(b.trades)
  <1>6. closes => m > 0 /\ b.trades[m].out = 0
    <2>1. closes => b.position # "FLAT"
      BY Zenon DEF closes
    <2>2. closes => b.trades # << >> /\ b.trades[m].out = 0
      BY <2>1, Zenon DEF BookAt
    <2> QED
      BY <1>2, <2>2
  <1>7. m \in Nat /\ \A k \in 1 .. m : b.trades[k] \in Trade
    BY <1>2
  <1>8. /\ left \in Seq(Trade) /\ Len(left) = m
        /\ \A k \in 1 .. m : /\ left[k].in = b.trades[k].in /\ left[k].side = b.trades[k].side
                             /\ left[k].out = IF closes /\ k = m THEN j ELSE b.trades[k].out
    <2>1. CASE ~ closes
      BY <1>2, <2>1, Zenon
    <2>2. CASE closes
      <3> DEFINE t == [b.trades[m] EXCEPT !.out = j]
      <3>1. b.trades[m] \in Trade
        BY <1>6, <1>7, <2>2
      <3>2. t \in Trade /\ t.in = b.trades[m].in /\ t.side = b.trades[m].side /\ t.out = j
        BY <3>1, Zenon DEF Trade
      <3>3. left = [b.trades EXCEPT ![m] = t]
        BY <2>2, Zenon
      <3> HIDE DEF t, left
      <3> QED
        BY <1>2, <1>6, <2>2, <3>2, <3>3
    <2> QED
      BY <2>1, <2>2, Zenon
  <1> HIDE DEF left
  <1>9. /\ \A k \in 1 .. m : left[k].in <= j /\ left[k].out <= j
        /\ \A k \in 1 .. m : left[k].out # 0 => left[k].in <= left[k].out
        /\ \A k \in 1 .. m - 1 : left[k].out # 0 /\ left[k].out <= left[k + 1].in
    <2>1. \A k \in 1 .. m : b.trades[k].in \in Nat /\ b.trades[k].out \in Nat
      BY <1>7, Zenon DEF Trade
    <2>2. \A k \in 1 .. m : b.trades[k].in <= i /\ b.trades[k].out <= i
      BY Zenon DEF BookAt
    <2>3. \A k \in 1 .. m : b.trades[k].out # 0 => b.trades[k].in <= b.trades[k].out
      BY Zenon DEF BookAt
    <2>4. \A k \in 1 .. m - 1 : b.trades[k].out # 0 /\ b.trades[k].out <= b.trades[k + 1].in
      BY Zenon DEF BookAt
    <2>5. \A k \in 1 .. m : left[k].in <= j /\ left[k].out <= j
      BY <1>8, <2>1, <2>2, SMTT(30)
    <2>6. \A k \in 1 .. m : left[k].out # 0 => left[k].in <= left[k].out
      BY <1>8, <2>1, <2>2, <2>3, SMTT(30)
    <2>7. \A k \in 1 .. m - 1 : left[k].out # 0 /\ left[k].out <= left[k + 1].in
      <3> TAKE k \in 1 .. m - 1
      <3>1. k \in 1 .. m /\ k + 1 \in 1 .. m /\ k # m
        BY <1>7
      <3>2. left[k].out = b.trades[k].out /\ left[k + 1].in = b.trades[k + 1].in
        BY <1>8, <3>1, Zenon
      <3> QED
        BY <2>4, <3>2, Zenon
    <2> QED
      BY <2>5, <2>6, <2>7, Zenon
  <1>10. CASE ~ d.open
    <2>1. c.trades = left /\ c.position = IF closes THEN "FLAT" ELSE b.position
      BY <1>1, <1>10, Zenon
    <2>2. c.position = (IF left = << >> \/ left[m].out # 0 THEN "FLAT" ELSE left[m].side)
      <3>1. b.position = (IF m = 0 \/ b.trades[m].out # 0 THEN "FLAT" ELSE b.trades[m].side)
        BY <1>2, SMTT(30) DEF BookAt
      <3>2. left = << >> <=> m = 0
        BY <1>8
      <3>3. CASE m = 0
        BY <1>6, <2>1, <3>1, <3>2, <3>3, Zenon
      <3>4. CASE m # 0
        <4>1. /\ left[m].side = b.trades[m].side
              /\ left[m].out = IF closes THEN j ELSE b.trades[m].out
          BY <1>7, <1>8, <3>4
        <4> QED
          BY <2>1, <3>1, <3>2, <3>4, <4>1, Zenon
      <3> QED
        BY <3>3, <3>4, Zenon
    <2>3. c.position \in Positions
      BY <1>2, <2>1, Zenon DEF Positions
    <2>4. Columns(c)
      <3>1. b.opened = m /\ b.closed = m - (IF b.position = "FLAT" THEN 0 ELSE 1)
        BY Zenon DEF BookAt, Columns
      <3>2. c.opened = b.opened + 0
        BY <1>0, <1>10, Zenon
      <3>3. Len(c.trades) = m
        BY <1>8, <2>1, Zenon
      <3>4. CASE closes
        <4>1. c.closed = b.closed + 1 /\ c.position = "FLAT" /\ b.position # "FLAT"
          BY <1>0, <2>1, <3>4, Zenon DEF closes
        <4> QED
          BY <1>7, <3>1, <3>2, <3>3, <4>1 DEF Columns
      <3>5. CASE ~ closes
        <4>1. c.closed = b.closed + 0 /\ c.position = b.position
          BY <1>0, <2>1, <3>5, Zenon
        <4> QED
          BY <1>7, <3>1, <3>2, <3>3, <4>1 DEF Columns
      <3> QED
        BY <3>4, <3>5, Zenon
    <2> QED
      BY <1>0, <1>5, <1>8, <1>9, <2>1, <2>2, <2>3, <2>4, Zenon DEF BookAt, c
  <1>11. CASE d.open
    <2> DEFINE t == [side |-> side, in |-> j, out |-> 0]
    <2>1. c.trades = Append(left, t) /\ c.position = side
      BY <1>1, <1>11, Zenon
    <2>2. t \in Trade /\ t.side = side /\ t.in = j /\ t.out = 0
      BY Zenon DEF Trade
    <2> HIDE DEF t
    <2>3. /\ c.trades \in Seq(Trade) /\ Len(c.trades) = m + 1 /\ c.trades # << >>
          /\ c.trades[m + 1] = t
          /\ \A k \in 1 .. m : c.trades[k] = left[k]
      BY <1>7, <1>8, <2>1, <2>2
    <2>4. m > 0 => left[m].out # 0
      <3>1. b.position = "FLAT" \/ closes
        BY <1>2, <1>4, <1>11, SMTT(30) DEF Positions, Sides, Opposite
      <3>2. CASE closes
        BY <1>7, <1>8, <3>2, SMTT(30)
      <3>3. CASE b.position = "FLAT" /\ ~ closes
        <4>1. ASSUME m > 0 PROVE b.trades[m].out # 0
          <5>1. b.trades[m].side # "FLAT"
            BY <1>7, <4>1 DEF Trade, Sides
          <5> QED
            BY <3>3, <5>1, <4>1 DEF BookAt
        <4> QED
          BY <1>7, <1>8, <3>3, <4>1, SMTT(30)
      <3> QED
        BY <3>1, <3>2, <3>3, Zenon
    <2>5. \A k \in 1 .. m + 1 : c.trades[k].in <= j /\ c.trades[k].out <= j
      <3> TAKE k \in 1 .. m + 1
      <3>1. CASE k = m + 1
        BY <2>2, <2>3, <3>1, SMTT(30)
      <3>2. CASE k # m + 1
        <4>1. k \in 1 .. m
          BY <1>7, <3>2
        <4> QED
          BY <1>9, <2>3, <4>1, Zenon
      <3> QED
        BY <3>1, <3>2, Zenon
    <2>6. \A k \in 1 .. m + 1 : c.trades[k].out # 0 => c.trades[k].in <= c.trades[k].out
      <3> TAKE k \in 1 .. m + 1
      <3>1. CASE k = m + 1
        BY <2>2, <2>3, <3>1, Zenon
      <3>2. CASE k # m + 1
        <4>1. k \in 1 .. m
          BY <1>7, <3>2
        <4> QED
          BY <1>9, <2>3, <4>1, Zenon
      <3> QED
        BY <3>1, <3>2, Zenon
    <2>7. \A k \in 1 .. m : c.trades[k].out # 0 /\ c.trades[k].out <= c.trades[k + 1].in
      <3> TAKE k \in 1 .. m
      <3>1. CASE k = m
        BY <1>7, <1>9, <2>2, <2>3, <2>4, <3>1, SMTT(30)
      <3>2. CASE k # m
        <4>1. k \in 1 .. m - 1 /\ k + 1 \in 1 .. m
          BY <1>7, <3>2
        <4>2. c.trades[k] = left[k] /\ c.trades[k + 1] = left[k + 1]
          BY <2>3, <4>1, Zenon
        <4> QED
          BY <1>9, <4>1, <4>2, Zenon
      <3> QED
        BY <3>1, <3>2, Zenon
    <2>8. c.position \in Positions
      BY <2>1, Zenon DEF Positions
    <2>9. Len(c.trades) - 1 = m
      BY <1>7, <2>3, SMTT(30)
    <2>10. c.position = (IF c.trades = << >> \/ c.trades[Len(c.trades)].out # 0 THEN "FLAT"
                         ELSE c.trades[Len(c.trades)].side)
      BY <2>1, <2>2, <2>3, Zenon
    <2>13. Columns(c)
      <3>1. b.opened = m /\ b.closed = m - (IF b.position = "FLAT" THEN 0 ELSE 1)
        BY Zenon DEF BookAt, Columns
      <3>2. c.opened = b.opened + 1 /\ c.position # "FLAT"
        BY <1>0, <1>11, <2>1, Zenon DEF Sides
      <3>3. CASE closes
        <4>1. c.closed = b.closed + 1 /\ b.position # "FLAT"
          BY <1>0, <3>3, Zenon DEF closes
        <4> QED
          BY <1>7, <2>3, <3>1, <3>2, <4>1 DEF Columns
      <3>4. CASE ~ closes
        <4>1. c.closed = b.closed + 0 /\ b.position = "FLAT"
          BY <1>0, <1>2, <1>4, <1>11, <3>4 DEF Positions, Sides, Opposite
        <4> QED
          BY <1>7, <2>3, <3>1, <3>2, <4>1 DEF Columns
      <3> QED
        BY <3>3, <3>4, Zenon
    <2>11. BookAt(c, j)
      BY <2>13, <1>5, <2>3, <2>5, <2>6, <2>7, <2>8, <2>9, <2>10, Zenon DEF BookAt
    <2>12. c.seen = b.seen + 1
      BY <1>0, Zenon
    <2> QED
      BY <1>5, <2>11, <2>12, Zenon DEF c
  <1> QED
    BY <1>3, <1>10, <1>11, Zenon

\* The book of either branch is well formed before and after every signal of the replay, and
\* the two are the same as long as the model lets everything through (run_comparison).
THEOREM BTInvariant == BTSpec => []BTInv
  <1>1. BTInit => BTInv
    <2> SUFFICES ASSUME BTInit PROVE BTInv
      BY Zenon
    <2>1. BookAt(EmptyBook, bar + 1)
      BY DEF BookAt, EmptyBook, Positions, Columns
    <2>2. EmptyBook.filter = 0 /\ EmptyBook.seen = 0
      BY Zenon DEF EmptyBook
    <2>3. /\ bar = 1 /\ replayed = 0 /\ unfiltered = EmptyBook /\ filtered = EmptyBook
          /\ gated \in BOOLEAN
      BY Zenon DEF BTInit
    <2>4. bar \in Nat \ {0} /\ unfiltered.filter = 0 /\ unfiltered.seen = replayed
      BY <2>2, <2>3
    <2>5. candles \in Seq(Candles)
      BY DEF BTInit
    <2> QED
      BY <2>1, <2>3, <2>4, <2>5, Zenon DEF BTInv
  <1>2. BTInv /\ [load_candles \/ Replay]_btvars => BTInv'
    <2> SUFFICES ASSUME BTInv, [load_candles \/ Replay]_btvars PROVE BTInv'
      BY Zenon
    <2>1. CASE load_candles
      <3>1. candles' \in Seq(Candles)
        BY <2>1 DEF load_candles, BTInv
      <3>2. UNCHANGED <<bar, replayed, unfiltered, filtered, gated>>
        BY <2>1, Zenon DEF load_candles
      <3> QED
        BY <3>1, <3>2, ZenonT(40) DEF BTInv, BookAt, Columns
    <2>2. CASE UNCHANGED btvars
      <3>1. UNCHANGED <<candles, bar, replayed, unfiltered, filtered, gated>>
        BY <2>2, Zenon DEF btvars
      <3> QED
        BY <3>1, ZenonT(40) DEF BTInv, BookAt, Columns
    <2>3. CASE Replay
      <3>1. PICK i \in bar .. Len(candles), scored \in BOOLEAN, direction \in {1, -1}, pass \in BOOLEAN :
              ReplaySignal(i, scored, direction, pass)
        BY <2>3, Zenon DEF Replay
      <3> DEFINE side == SideOf(direction)
                 base == _baseline_decision(side, unfiltered.position)
                 decision == predictor_predict(direction, filtered.position, pass)
                 would_open == _baseline_decision(side, filtered.position).open
                 blocked == would_open /\ ~ decision.open
      <3>2. /\ bar' = i
            /\ unfiltered' = apply(unfiltered, side, base, FALSE, i + 1)
            /\ filtered' = IF scored THEN apply(filtered, side, decision, blocked, i + 1) ELSE filtered
            /\ gated' = (gated \/ ~ scored \/ ~ pass)
        BY <3>1, Zenon DEF ReplaySignal
      <3>3. replayed' = replayed + 1
        BY <2>3, Zenon DEF Replay
      <3>4. /\ bar \in Nat \ {0} /\ i \in Nat /\ i >= bar /\ i + 1 \in Nat \ {0} /\ bar + 1 \in Nat
            /\ bar + 1 <= i + 1
        BY DEF BTInv
      <3>5. side \in Sides
        BY Zenon DEF SideOf, Sides
      <3> DEFINE Free(position) == position = "FLAT" \/ position = Opposite(side)
      <3>13. /\ base.close = (unfiltered.position = Opposite(side))
             /\ base.open = (unfiltered.position # side /\ Free(unfiltered.position))
        BY Zenon DEF _baseline_decision
      <3>14. would_open = (filtered.position # side /\ Free(filtered.position))
        BY Zenon DEF _baseline_decision
      <3>15. /\ decision.close = (filtered.position = Opposite(side))
             /\ decision.open = (filtered.position # side /\ Free(filtered.position) /\ pass)
        <4>1. direction \in {1, -1} /\ ~ (direction \notin {1, -1} \/ ~ TRUE)
          BY Zenon
        <4> DEFINE close == filtered.position = Opposite(side)
                   open == filtered.position # side /\ (filtered.position = "FLAT" \/ close) /\ pass
        <4>2. decision = Decision(close, open, side)
          BY <4>1, Zenon DEF predictor_predict, predict
        <4> HIDE DEF decision, close, open
        <4>3. decision.close = close /\ decision.open = open
          BY <4>2, Zenon DEF Decision
        <4> QED
          BY <4>3, Zenon DEF close, open
      <3>16. \A position \in Positions : position # side => Free(position)
        BY <3>5, Zenon DEF Positions, Sides, Opposite
      <3>17. unfiltered.position \in Positions /\ filtered.position \in Positions
        BY Zenon DEF BTInv, BookAt
      <3> HIDE DEF side, base, decision, would_open, Free
      <3>6. Decided(unfiltered.position, side, base, FALSE)
        BY <3>13, <3>16, <3>17, Zenon DEF Decided
      <3>7. Decided(filtered.position, side, decision, blocked)
        BY <3>14, <3>15, <3>16, <3>17, Zenon DEF Decided
      <3>8. /\ BookAt(unfiltered, bar + 1)' /\ unfiltered'.seen = unfiltered.seen + 1
            /\ unfiltered'.filter = unfiltered.filter
        <4>1. BookAt(unfiltered, bar + 1)
          BY Zenon DEF BTInv
        <4> DEFINE none == FALSE
        <4>2. ~ none /\ Decided(unfiltered.position, side, base, none)
              /\ unfiltered' = apply(unfiltered, side, base, none, i + 1)
          BY <3>2, <3>6, Zenon
        <4> HIDE DEF none
        <4>3. /\ BookAt(apply(unfiltered, side, base, none, i + 1), i + 1)
              /\ apply(unfiltered, side, base, none, i + 1).seen = unfiltered.seen + 1
              /\ ~ none => apply(unfiltered, side, base, none, i + 1).filter = unfiltered.filter
          BY <3>4, <3>5, <4>1, <4>2, ApplyKeeps, SMTT(30)
        <4> QED
          BY <3>2, <4>2, <4>3, Zenon
      <3>9. BookAt(filtered, bar + 1)'
        <4>1. BookAt(filtered, bar + 1)
          BY Zenon DEF BTInv
        <4>2. CASE scored
          <5> HIDE DEF blocked
          <5>1. BookAt(apply(filtered, side, decision, blocked, i + 1), i + 1)
            BY <3>4, <3>5, <3>7, <4>1, ApplyKeeps, Zenon
          <5> QED
            BY <3>2, <4>2, <5>1, Zenon
        <4>3. CASE ~ scored
          <5>1. BookAt(filtered, i + 1)
            BY <3>4, <4>1, BookLater, Zenon
          <5> QED
            BY <3>2, <4>3, <5>1, Zenon
        <4> QED
          BY <4>2, <4>3, Zenon
      <3>10. gated' \in BOOLEAN /\ (~ gated' => filtered' = unfiltered')
        <4>1. gated' \in BOOLEAN
          BY <3>2, Zenon
        <4>2. ASSUME ~ gated' PROVE filtered' = unfiltered'
          <5>1. ~ gated /\ scored /\ pass
            BY <3>2, <4>2, Zenon
          <5>2. filtered = unfiltered
            BY <5>1, Zenon DEF BTInv
          <5>3. decision.close = base.close /\ decision.open = base.open /\ blocked = FALSE
            BY <3>13, <3>14, <3>15, <5>1, <5>2, Zenon
          <5> HIDE DEF blocked
          <5>4. apply(filtered, side, decision, blocked, i + 1) = apply(unfiltered, side, base, FALSE, i + 1)
            BY <5>2, <5>3, Zenon DEF apply
          <5> QED
            BY <3>2, <5>1, <5>4, Zenon
        <4> QED
          BY <4>1, <4>2, Zenon
      <3>11. unfiltered'.filter = 0 /\ unfiltered'.seen = replayed'
        BY <3>3, <3>8, Zenon DEF BTInv
      <3>12. bar' \in Nat \ {0}
        BY <3>2, <3>4
      <3>18. candles' \in Seq(Candles)
        BY <2>3, Zenon DEF Replay, BTInv
      <3> QED
        BY <3>8, <3>9, <3>10, <3>11, <3>12, <3>18, Zenon DEF BTInv
    <2> QED
      BY <2>1, <2>2, <2>3, Zenon
  <1> QED
    BY <1>1, <1>2, PTL DEF BTSpec

\* With a model that lets every signal through, the filtered branch is the unfiltered one,
\* for every series of candles and signals: the predictor and the baseline agree
\* (predict, _baseline_decision, run_comparison).
THEOREM PassingModel == BTSpec => []PassingModelChangesNothing
  <1>1. BTInv => PassingModelChangesNothing
    BY Zenon DEF BTInv, PassingModelChangesNothing
  <1> QED
    BY <1>1, BTInvariant, PTL

\* Every signal a branch saw is in one column of its report (BranchState.apply).
THEOREM SignalsCounted == BTSpec => []EverySignalIsCounted
  <1>1. ASSUME BTInv PROVE EverySignalIsCounted
    <2>1. ASSUME NEW b, NEW i, BookAt(b, i) PROVE b.seen = b.opened + b.pyramid + b.filter
      BY <2>1, Zenon DEF BookAt
    <2>2. /\ BookAt(unfiltered, bar + 1) /\ BookAt(filtered, bar + 1)
          /\ unfiltered.filter = 0 /\ unfiltered.seen = replayed
      BY <1>1, Zenon DEF BTInv
    <2>3. \A b \in Books : b.seen = b.opened + b.pyramid + b.filter
      BY <2>1, <2>2, Zenon DEF Books
    <2> QED
      BY <2>2, <2>3, Zenon DEF EverySignalIsCounted
  <1> QED
    BY <1>1, BTInvariant, PTL

\* The trades of a branch follow one another and end in its position (BranchState.apply).
THEOREM TradesInOrder == BTSpec => []TradesFollow
  <1>1. ASSUME NEW b, NEW i \in Nat, BookAt(b, i)
        PROVE  \A k \in 1 .. Len(b.trades) - 1 :
                 0 < b.trades[k].in /\ b.trades[k].in <= b.trades[k].out /\ b.trades[k].out <= b.trades[k + 1].in
    <2> TAKE k \in 1 .. Len(b.trades) - 1
    <2>1. b.trades \in Seq(Trade)
      BY <1>1, Zenon DEF BookAt
    <2>2. k \in 1 .. Len(b.trades) /\ b.trades[k] \in Trade
      BY <2>1
    <2>3. b.trades[k].out # 0 /\ b.trades[k].out <= b.trades[k + 1].in
      BY <1>1, Zenon DEF BookAt
    <2>4. b.trades[k].out # 0 => b.trades[k].in <= b.trades[k].out
      BY <1>1, <2>2, Zenon DEF BookAt
    <2>5. 0 < b.trades[k].in
      BY <2>2 DEF Trade
    <2> QED
      BY <2>3, <2>4, <2>5, Zenon
  <1>2. ASSUME BTInv PROVE TradesFollow
    <2> SUFFICES ASSUME NEW b \in Books
                 PROVE  /\ \A k \in 1 .. Len(b.trades) - 1 :
                             0 < b.trades[k].in /\ b.trades[k].in <= b.trades[k].out
                             /\ b.trades[k].out <= b.trades[k + 1].in
                        /\ b.position = (IF b.trades = << >> \/ b.trades[Len(b.trades)].out # 0 THEN "FLAT"
                                         ELSE b.trades[Len(b.trades)].side)
      BY Zenon DEF TradesFollow
    <2>1. BookAt(b, bar + 1) /\ bar + 1 \in Nat
      BY <1>2 DEF BTInv, Books
    <2>2. b.position = (IF b.trades = << >> \/ b.trades[Len(b.trades)].out # 0 THEN "FLAT"
                        ELSE b.trades[Len(b.trades)].side)
      BY <2>1, Zenon DEF BookAt
    <2> QED
      BY <1>1, <2>1, <2>2, Zenon
  <1> QED
    BY <1>2, BTInvariant, PTL

-----------------------------------------------------------------------------
(* The report. *)

\* Counting up.
LEMMA CountUp ==
    ASSUME NEW N \in Nat, NEW S, 0 \in S, \A n \in 0 .. N - 1 : n \in S => n + 1 \in S
    PROVE  0 .. N \subseteq S
<1> DEFINE T == {n \in 0 .. N : n \notin S}
           R == OpToRel(<, Nat)
<1>1. \A x, y \in Nat : x < y => <<x, y>> \in R
  BY Zenon DEF OpToRel
<1>2. IsWellFoundedOn(R, Nat)
  BY NatLessThanWellFounded, Zenon
<1>3. T \subseteq Nat
  OBVIOUS
<1> HIDE DEF R
<1>4. ASSUME T # {} PROVE FALSE
  <2> HIDE DEF T
  <2>1. PICK n \in T : \A y \in T : ~ (<<y, n>> \in R)
    BY <1>2, <1>3, <1>4, WFMin, Zenon
  <2> USE DEF T
  <2>2. n \in 0 .. N /\ n \notin S /\ n # 0
    BY Zenon
  <2>3. n - 1 \in 0 .. N - 1 /\ n - 1 \in Nat /\ n - 1 < n /\ n \in Nat
    BY <2>2
  <2>4. n - 1 \notin T
    BY <2>1, <2>3, <1>1, Zenon
  <2>5. n - 1 \in S
    BY <2>3, <2>4
  <2>6. (n - 1) + 1 \in S
    BY <2>3, <2>5, Zenon
  <2> QED
    BY <2>2, <2>6
<1> QED
  BY <1>4, Zenon

\* f starts from a and goes on by g.
Unfolds(f, N, T, a, g) ==
    /\ f \in [0 .. N -> T]
    /\ f[0] = a
    /\ \A n \in 1 .. N : f[n] = g[<<n, f[n - 1]>>]

\* A function may be defined by recursion on its argument.
LEMMA Recursion ==
    ASSUME NEW N \in Nat, NEW T, NEW a \in T, NEW g \in [(1 .. N) \X T -> T]
    PROVE  \E f : Unfolds(f, N, T, a, g)
<1> DEFINE Upto(M) == \E f \in [0 .. M -> T] :
                         f[0] = a /\ \A n \in 1 .. M : f[n] = g[<<n, f[n - 1]>>]
           S == {M \in 0 .. N : Upto(M)}
<1>1. 0 \in S
  <2> DEFINE f == [n \in 0 .. 0 |-> a]
  <2>1. f \in [0 .. 0 -> T] /\ f[0] = a /\ \A n \in 1 .. 0 : FALSE
    OBVIOUS
  <2>2. Upto(0)
    BY <2>1, Zenon
  <2> QED
    BY <2>2
<1>2. ASSUME NEW M \in 0 .. N - 1, M \in S PROVE M + 1 \in S
  <2>1. PICK f \in [0 .. M -> T] : f[0] = a /\ \A n \in 1 .. M : f[n] = g[<<n, f[n - 1]>>]
    BY <1>2, Zenon
  <2>2. f[M] \in T /\ M + 1 \in 1 .. N
    BY <2>1
  <2>3. g[<<M + 1, f[M]>>] \in T
    BY <2>2, Zenon
  <2> DEFINE h == [n \in 0 .. M + 1 |-> IF n = M + 1 THEN g[<<M + 1, f[M]>>] ELSE f[n]]
  <2>4. \A n \in 0 .. M : n \in 0 .. M + 1 /\ n # M + 1
    OBVIOUS
  <2>5. h \in [0 .. M + 1 -> T]
    BY <2>1, <2>3
  <2>6. h[M + 1] = g[<<M + 1, f[M]>>] /\ \A n \in 0 .. M : h[n] = f[n]
    BY <2>4
  <2> HIDE DEF h
  <2>7. h[0] = a
    BY <2>1, <2>6
  <2>8. ASSUME NEW n \in 1 .. M + 1 PROVE h[n] = g[<<n, h[n - 1]>>]
    <3>1. CASE n = M + 1
      <4>1. h[n - 1] = f[M] /\ h[n] = g[<<M + 1, f[M]>>]
        BY <3>1, <2>6
      <4> QED
        BY <3>1, <4>1, Zenon
    <3>2. CASE n \in 1 .. M
      <4>1. n - 1 \in 0 .. M /\ n \in 0 .. M
        BY <3>2
      <4> QED
        BY <3>2, <4>1, <2>1, <2>6, Zenon
    <3> QED
      BY <3>1, <3>2
  <2>9. Upto(M + 1)
    BY <2>5, <2>7, <2>8, Zenon
  <2> QED
    BY <2>9
<1> HIDE DEF S
<1>3. 0 .. N \subseteq S
  BY <1>1, <1>2, CountUp, Zenon
<1>4. N \in S
  BY <1>3
<1> USE DEF S
<1> QED
  BY <1>4, Zenon DEF Unfolds

\* The running profit, as a recursion on the number of trades.
LEMMA RunningProfit ==
    ASSUME NEW p \in Seq(Int), NEW profit,
           profit = CHOOSE f : f = [n \in 0 .. Len(p) |-> IF n = 0 THEN 0 ELSE f[n - 1] + p[n]]
    PROVE  /\ profit \in [0 .. Len(p) -> Int] /\ profit[0] = 0
           /\ \A n \in 1 .. Len(p) : profit[n] = profit[n - 1] + p[n]
<1> DEFINE N == Len(p)
           g == [x \in (1 .. N) \X Int |-> x[2] + p[x[1]]]
           Is(f) == f = [n \in 0 .. N |-> IF n = 0 THEN 0 ELSE f[n - 1] + p[n]]
<1>1. N \in Nat /\ \A n \in 1 .. N : p[n] \in Int
  OBVIOUS
<1>2. g \in [(1 .. N) \X Int -> Int] /\ \A n \in 1 .. N, v \in Int : g[<<n, v>>] = v + p[n]
  BY <1>1
<1> HIDE DEF g, N
<1>3. PICK f : Unfolds(f, N, Int, 0, g)
  <2>1. N \in Nat /\ 0 \in Int /\ g \in [(1 .. N) \X Int -> Int]
    BY <1>1, <1>2
  <2> QED
    BY <2>1, Recursion, Zenon
<1>4. \A n \in 0 .. N : n # 0 => n \in 1 .. N /\ n - 1 \in 0 .. N
  BY <1>1
<1>5. \A n \in 0 .. N : f[n] = IF n = 0 THEN 0 ELSE f[n - 1] + p[n]
  BY <1>2, <1>3, <1>4, Zenon DEF Unfolds
<1>6. Is(f)
  BY <1>3, <1>5, Zenon DEF Unfolds
<1>7. profit = CHOOSE h : Is(h)
  BY Zenon DEF N
<1>8. Is(profit)
  BY <1>6, <1>7, Zenon
<1>9. profit[0] = 0 /\ \A n \in 1 .. N : profit[n] = profit[n - 1] + p[n]
  <2>1. 0 \in 0 .. N /\ \A n \in 1 .. N : n \in 0 .. N /\ n # 0
    BY <1>1
  <2> QED
    BY <1>8, <2>1, Zenon
<1>10. DOMAIN profit = 0 .. N /\ profit = [n \in 0 .. N |-> profit[n]]
  BY <1>8, Zenon
<1> DEFINE S == {n \in 0 .. N : profit[n] \in Int}
<1>11. 0 \in S
  BY <1>1, <1>9
<1>12. \A n \in 0 .. N - 1 : n \in S => n + 1 \in S
  <2> TAKE n \in 0 .. N - 1
  <2>1. n + 1 \in 1 .. N /\ (n + 1) - 1 = n /\ n + 1 \in 0 .. N
    BY <1>1
  <2>2. profit[n + 1] = profit[n] + p[n + 1]
    BY <1>9, <2>1, Zenon
  <2> QED
    BY <1>1, <2>1, <2>2
<1> HIDE DEF S
<1>13. 0 .. N \subseteq S
  BY <1>1, <1>11, <1>12, CountUp, Zenon
<1>14. \A n \in 0 .. N : profit[n] \in Int
  BY <1>13, Zenon DEF S
<1> QED
  BY <1>9, <1>10, <1>14, Zenon DEF N

Running == [sum : Int, peak : Int, fall : Int]

\* After n trades: the running profit, its peak, and the largest fall.
LargestFall(s, profit, n) ==
    /\ s \in Running
    /\ s.sum = profit[n]
    /\ \E m \in 0 .. n : s.peak = profit[m]
    /\ \A m \in 0 .. n : profit[m] <= s.peak
    /\ \E k \in 0 .. n : \E m \in 0 .. k : s.fall = profit[m] - profit[k]
    /\ \A k \in 0 .. n : \A m \in 0 .. k : profit[m] - profit[k] <= s.fall

\* One more trade (_max_drawdown).
LEMMA OneMoreFall ==
    ASSUME NEW N \in Nat, NEW profit \in [0 .. N -> Int], NEW n \in 0 .. N - 1, NEW s, NEW x \in Int,
           LargestFall(s, profit, n), profit[n + 1] = profit[n] + x
    PROVE  LargestFall(Falls(s, x), profit, n + 1)
<1> DEFINE t == Falls(s, x)
<1>1. s \in Running /\ s.sum = profit[n]
  BY Zenon DEF LargestFall
<1>2. s.sum \in Int /\ s.peak \in Int /\ s.fall \in Int
  BY <1>1, Zenon DEF Running
<1>14. t = [sum |-> t.sum, peak |-> t.peak, fall |-> t.fall]
  BY Zenon DEF Falls
<1>3. /\ t.sum = s.sum + x
      /\ t.peak = IF s.sum + x > s.peak THEN s.sum + x ELSE s.peak
      /\ t.fall = IF t.peak - t.sum > s.fall THEN t.peak - t.sum ELSE s.fall
  BY Zenon DEF Falls
<1> HIDE DEF t
<1>15. t.sum \in Int /\ t.peak \in Int
  BY <1>2, <1>3
<1>16. t.fall \in Int
  BY <1>2, <1>3, <1>15, SMTT(30)
<1>4. t.sum \in Int /\ t.peak \in Int /\ t.fall \in Int
  BY <1>15, <1>16, Zenon
<1>5. t \in Running
  BY <1>14, <1>4, Zenon DEF Running
<1>6. t.sum = profit[n + 1]
  BY <1>1, <1>3, Zenon
<1>7. \A m \in 0 .. n + 1 : profit[m] \in Int /\ (m \in 0 .. n \/ m = n + 1)
  OBVIOUS
<1>8. n + 1 \in 0 .. n + 1 /\ \A m \in 0 .. n : m \in 0 .. n + 1
  OBVIOUS
<1>9. \E m \in 0 .. n + 1 : t.peak = profit[m]
  <2>1. CASE s.sum + x > s.peak
    BY <2>1, <1>3, <1>6, <1>8, Zenon
  <2>2. CASE ~ (s.sum + x > s.peak)
    BY <2>2, <1>3, <1>8, Zenon DEF LargestFall
  <2> QED
    BY <2>1, <2>2, Zenon
<1>10. \A m \in 0 .. n + 1 : profit[m] <= t.peak
  <2> TAKE m \in 0 .. n + 1
  <2>1. s.peak <= t.peak /\ t.sum <= t.peak
    BY <1>2, <1>3, SMTT(30)
  <2>2. CASE m \in 0 .. n
    <3>1. profit[m] <= s.peak
      BY <2>2, Zenon DEF LargestFall
    <3>2. profit[m] \in Int /\ s.peak \in Int /\ t.peak \in Int
      BY <1>2, <1>4, <1>7, Zenon
    <3>3. \A a \in Int, b \in Int, c \in Int : a <= b /\ b <= c => a <= c
      OBVIOUS
    <3> QED
      BY ONLY <2>1, <3>1, <3>2, <3>3, Zenon
  <2>3. CASE m = n + 1
    BY <2>1, <2>3, <1>6, Zenon
  <2> QED
    BY <2>2, <2>3, <1>7, Zenon
<1>11. \E k \in 0 .. n + 1 : \E m \in 0 .. k : t.fall = profit[m] - profit[k]
  <2>1. CASE t.peak - t.sum > s.fall
    <3>1. PICK m \in 0 .. n + 1 : t.peak = profit[m]
      BY <1>9, Zenon
    <3>2. t.fall = profit[m] - profit[n + 1]
      BY <2>1, <3>1, <1>3, <1>6, Zenon
    <3> QED
      BY <3>2, <1>8, Zenon
  <2>2. CASE ~ (t.peak - t.sum > s.fall)
    <3>1. PICK k \in 0 .. n : \E m \in 0 .. k : s.fall = profit[m] - profit[k]
      BY Zenon DEF LargestFall
    <3>2. t.fall = s.fall
      BY <2>2, <1>3, Zenon
    <3> QED
      BY <3>1, <3>2, <1>8, Zenon
  <2> QED
    BY <2>1, <2>2, Zenon
<1>12. ASSUME NEW k \in 0 .. n + 1, NEW m \in 0 .. k PROVE profit[m] - profit[k] <= t.fall
  <2>1. s.fall <= t.fall /\ t.peak - t.sum <= t.fall
    <3>1. CASE t.peak - t.sum > s.fall
      BY <3>1, <1>2, <1>3, <1>4, SMTT(30)
    <3>2. CASE ~ (t.peak - t.sum > s.fall)
      BY <3>2, <1>2, <1>3, <1>4, SMTT(30)
    <3> QED
      BY <3>1, <3>2, Zenon
  <2>2. CASE k \in 0 .. n
    <3>1. profit[m] - profit[k] <= s.fall
      BY <2>2, Zenon DEF LargestFall
    <3>2. profit[m] - profit[k] \in Int
      BY <1>7, <2>2, SMTT(30)
    <3>3. \A a, b, c \in Int : a <= b /\ b <= c => a <= c
      OBVIOUS
    <3> QED
      BY <2>1, <3>1, <3>2, <3>3, <1>2, <1>4, Zenon
  <2>3. CASE k = n + 1
    <3>1. profit[m] <= t.peak /\ profit[m] \in Int /\ profit[k] = t.sum
      BY <2>3, <1>6, <1>7, <1>10, Zenon
    <3> QED
      BY <2>1, <3>1, <1>4, SMTT(30)
  <2> QED
    BY <2>2, <2>3, <1>7, Zenon
<1>13. LargestFall(t, profit, n + 1)
  BY <1>5, <1>6, <1>9, <1>10, <1>11, <1>12, Zenon DEF LargestFall
<1> QED
  BY <1>13, Zenon DEF t

\* The one pass of _max_drawdown finds the largest fall of the running profit.
LEMMA DrawdownIs ==
    ASSUME NEW p \in Seq(Int), NEW profit \in [0 .. Len(p) -> Int], profit[0] = 0,
           \A n \in 1 .. Len(p) : profit[n] = profit[n - 1] + p[n]
    PROVE  \E s : LargestFall(s, profit, Len(p)) /\ _max_drawdown(p) = s.fall
<1> DEFINE N == Len(p)
           zero == [sum |-> 0, peak |-> 0, fall |-> 0]
           g == [x \in (1 .. N) \X Running |-> Falls(x[2], p[x[1]])]
           Is(f) == f = [n \in 0 .. N |-> IF n = 0 THEN zero ELSE Falls(f[n - 1], p[n])]
           state == CHOOSE f : Is(f)
<1>1. N \in Nat /\ \A n \in 1 .. N : p[n] \in Int
  OBVIOUS
<1>2. \A s \in Running, x \in Int : Falls(s, x) \in Running
  BY DEF Falls, Running
<1>3. g \in [(1 .. N) \X Running -> Running] /\ \A n \in 1 .. N, v \in Running : g[<<n, v>>] = Falls(v, p[n])
  BY <1>1, <1>2, Zenon
<1>4. zero \in Running /\ zero.sum = 0 /\ zero.peak = 0 /\ zero.fall = 0
  BY DEF Running
<1>5. _max_drawdown(p) = state[N].fall
  BY Zenon DEF _max_drawdown
<1> HIDE DEF g, zero, N
<1>6. PICK f : Unfolds(f, N, Running, zero, g)
  BY <1>1, <1>3, <1>4, Recursion, Zenon
<1>7. \A n \in 0 .. N : n # 0 => n \in 1 .. N /\ n - 1 \in 0 .. N
  BY <1>1
<1>8. \A n \in 0 .. N : f[n] = IF n = 0 THEN zero ELSE Falls(f[n - 1], p[n])
  BY <1>3, <1>6, <1>7, Zenon DEF Unfolds
<1>9. Is(f)
  BY <1>6, <1>8, Zenon DEF Unfolds
<1>10. Is(state)
  BY <1>9, Zenon
<1> HIDE DEF state
<1>11. state[0] = zero /\ \A n \in 1 .. N : state[n] = Falls(state[n - 1], p[n])
  <2>1. 0 \in 0 .. N /\ \A n \in 1 .. N : n \in 0 .. N /\ n # 0
    BY <1>1
  <2> QED
    BY <1>10, <2>1, Zenon
<1> DEFINE S == {n \in 0 .. N : LargestFall(state[n], profit, n)}
<1>12. 0 \in S
  <2>1. LargestFall(zero, profit, 0)
    BY <1>4 DEF LargestFall
  <2> QED
    BY <2>1, <1>1, <1>11
<1>13. \A n \in 0 .. N - 1 : n \in S => n + 1 \in S
  <2> SUFFICES ASSUME NEW n \in 0 .. N - 1, LargestFall(state[n], profit, n)
               PROVE  n + 1 \in S
    BY Zenon
  <2>1. n + 1 \in 1 .. N /\ (n + 1) - 1 = n /\ n + 1 \in 0 .. N
    BY <1>1
  <2>2. profit[n + 1] = profit[n] + p[n + 1] /\ p[n + 1] \in Int /\ profit \in [0 .. N -> Int]
    BY <1>1, <2>1, Zenon DEF N
  <2>3. LargestFall(Falls(state[n], p[n + 1]), profit, n + 1)
    BY <1>1, <2>2, OneMoreFall, Zenon
  <2>4. state[n + 1] = Falls(state[n], p[n + 1])
    BY <1>11, <2>1, Zenon
  <2> QED
    BY <2>1, <2>3, <2>4, Zenon
<1> HIDE DEF S
<1>14. 0 .. N \subseteq S
  BY <1>1, <1>12, <1>13, CountUp, Zenon
<1>15. LargestFall(state[N], profit, N)
  BY <1>1, <1>14 DEF S
<1> QED
  BY <1>5, <1>15, Zenon DEF N

\* The trades of a book that have both prices.
Left(b) == {t \in Trade : Priced(t.out) /\ \E k \in DOMAIN b.trades : b.trades[k] = t}

\* The list of closed trades has them in order, each once.
LEMMA ClosedAre ==
    ASSUME NEW b, b.trades \in Seq(Trade)
    PROVE  /\ ClosedTrades(b) \in Seq(Left(b))
           /\ Len(ClosedTrades(b)) = Cardinality({k \in 1 .. Len(b.trades) : Priced(b.trades[k].out)})
<1> DEFINE N == Len(b.trades)
           T == Seq(Left(b))
           Next(n, v) == IF Priced(b.trades[n].out) THEN Append(v, b.trades[n]) ELSE v
           g == [x \in (1 .. N) \X T |-> Next(x[1], x[2])]
           Is(f) == f = [n \in 0 .. N |-> IF n = 0 THEN << >> ELSE Next(n, f[n - 1])]
           upto == CHOOSE f : Is(f)
           In(n) == {k \in 1 .. n : Priced(b.trades[k].out)}
<1>1. N \in Nat /\ DOMAIN b.trades = 1 .. N /\ \A n \in 1 .. N : b.trades[n] \in Trade
  OBVIOUS
<1>2. \A n \in 1 .. N : Priced(b.trades[n].out) => b.trades[n] \in Left(b)
  BY <1>1, Zenon DEF Left
<1>3. ClosedTrades(b) = upto[N]
  BY Zenon DEF ClosedTrades
<1> HIDE DEF N
<1>4. \A n \in 1 .. N, v \in T :
          /\ Next(n, v) \in T
          /\ Len(Next(n, v)) = IF Priced(b.trades[n].out) THEN Len(v) + 1 ELSE Len(v)
  <2> SUFFICES ASSUME NEW n \in 1 .. N, NEW v \in T
               PROVE  /\ Next(n, v) \in T
                      /\ Len(Next(n, v)) = IF Priced(b.trades[n].out) THEN Len(v) + 1 ELSE Len(v)
    BY Zenon
  <2>1. CASE Priced(b.trades[n].out)
    BY <2>1, <1>2
  <2>2. CASE ~ Priced(b.trades[n].out)
    BY <2>2, Zenon
  <2> QED
    BY <2>1, <2>2, Zenon
<1> HIDE DEF Next
<1>5. g \in [(1 .. N) \X T -> T] /\ \A n \in 1 .. N, v \in T : g[<<n, v>>] = Next(n, v)
  BY <1>4, Zenon
<1>6. << >> \in T
  OBVIOUS
<1> HIDE DEF g
<1>20. \A v \in T : Len(v) \in Nat
  OBVIOUS
<1> HIDE DEF T
<1>7. PICK f : Unfolds(f, N, T, << >>, g)
  BY <1>1, <1>5, <1>6, Recursion, Zenon
<1>8. \A n \in 0 .. N : n # 0 => n \in 1 .. N /\ n - 1 \in 0 .. N
  BY <1>1
<1>9. \A n \in 0 .. N : f[n] = IF n = 0 THEN << >> ELSE Next(n, f[n - 1])
  BY <1>5, <1>7, <1>8, Zenon DEF Unfolds
<1>10. Is(f)
  BY <1>7, <1>9, Zenon DEF Unfolds
<1>11. Is(upto)
  BY <1>10, Zenon
<1> HIDE DEF upto
<1>12. upto[0] = << >> /\ \A n \in 1 .. N : upto[n] = Next(n, upto[n - 1])
  <2>1. 0 \in 0 .. N /\ \A n \in 1 .. N : n \in 0 .. N /\ n # 0
    BY <1>1
  <2> QED
    BY <1>11, <2>1, Zenon
<1> DEFINE S == {n \in 0 .. N : upto[n] \in T /\ IsFiniteSet(In(n)) /\ Len(upto[n]) = Cardinality(In(n))}
<1>13. 0 \in S
  <2>1. In(0) = {}
    OBVIOUS
  <2>2. Len(<< >>) = 0
    BY Zenon
  <2>3. 0 \in 0 .. N
    BY <1>1, SMTT(30)
  <2> QED
    BY <2>1, <2>2, <2>3, <1>6, <1>12, FS_EmptySet, Zenon
<1>14. \A n \in 0 .. N - 1 : n \in S => n + 1 \in S
  <2> SUFFICES ASSUME NEW n \in 0 .. N - 1, upto[n] \in T, IsFiniteSet(In(n)),
                      Len(upto[n]) = Cardinality(In(n))
               PROVE  n + 1 \in S
    BY Zenon
  <2>1. n + 1 \in 1 .. N /\ (n + 1) - 1 = n /\ n + 1 \in 0 .. N
    BY <1>1
  <2>2. upto[n + 1] = Next(n + 1, upto[n])
    BY <1>12, <2>1, Zenon
  <2>3. upto[n + 1] \in T
    BY <1>4, <2>1, <2>2, Zenon
  <2>4. Len(upto[n + 1]) = IF Priced(b.trades[n + 1].out) THEN Len(upto[n]) + 1 ELSE Len(upto[n])
    BY <1>4, <2>1, <2>2, Zenon
  <2>5. CASE Priced(b.trades[n + 1].out)
    <3>1. In(n + 1) = In(n) \cup {n + 1} /\ n + 1 \notin In(n)
      BY <2>5, SMTT(30)
    <3> HIDE DEF In
    <3>2. IsFiniteSet(In(n + 1)) /\ Cardinality(In(n + 1)) = Cardinality(In(n)) + 1
      BY <3>1, FS_AddElement, SMTT(30)
    <3> QED
      BY <3>2, <2>1, <2>3, <2>4, <2>5, Zenon
  <2>6. CASE ~ Priced(b.trades[n + 1].out)
    <3>1. In(n + 1) = In(n)
      BY <2>6
    <3> HIDE DEF In
    <3> QED
      BY <3>1, <2>1, <2>3, <2>4, <2>6, Zenon
  <2> QED
    BY <2>5, <2>6, Zenon
<1> HIDE DEF S
<1>15. 0 .. N \subseteq S
  BY <1>1, <1>13, <1>14, CountUp, Zenon
<1>16. upto[N] \in T /\ Len(upto[N]) = Cardinality(In(N))
  BY <1>1, <1>15, SMTT(30) DEF S
<1> QED
  BY <1>3, <1>16, Zenon DEF T, N

\* A trade that was left has its exit price in the file, or was left after the last bar;
\* only an open position leaves one trade without an exit (_branch_stats).
LEMMA BookBalances ==
    ASSUME NEW b, NEW i \in Nat, BookAt(b, i), candles \in Seq(Candles)
    PROVE  b.opened - b.closed = _branch_stats(b).still_open
               - Cardinality({k \in DOMAIN b.trades : b.trades[k].out > Len(candles)})
<1> DEFINE N == Len(b.trades)
           priced == {k \in 1 .. N : Priced(b.trades[k].out)}
           late == {k \in 1 .. N : b.trades[k].out > Len(candles)}
           done == IF b.position = "FLAT" THEN N ELSE N - 1
<1>1. b.trades \in Seq(Trade) /\ Columns(b)
  BY Zenon DEF BookAt
<1>2. N \in Nat /\ DOMAIN b.trades = 1 .. N /\ \A k \in 1 .. N : b.trades[k] \in Trade
  BY <1>1
<1>3. \A k \in 1 .. N : b.trades[k].out \in Nat /\ b.trades[k].side # "FLAT"
  BY <1>2, Zenon DEF Trade, Sides
<1>4. _branch_stats(b).still_open = N - Cardinality(priced)
  BY <1>1, ClosedAre, Zenon DEF _branch_stats
<1>5. done \in Nat /\ \A k \in 1 .. N : b.trades[k].out # 0 <=> k <= done
  <2>1. b.position = (IF b.trades = << >> \/ b.trades[N].out # 0 THEN "FLAT" ELSE b.trades[N].side)
    BY Zenon DEF BookAt
  <2>2. \A k \in 1 .. N - 1 : b.trades[k].out # 0
    BY Zenon DEF BookAt
  <2>3. b.trades = << >> <=> N = 0
    BY <1>1
  <2>4. CASE N = 0
    BY <2>1, <2>3, <2>4, SMTT(30)
  <2>5. CASE N # 0 /\ b.trades[N].out # 0
    <3>1. done = N
      BY <2>1, <2>5, Zenon
    <3>2. \A k \in 1 .. N : k \in 1 .. N - 1 \/ k = N
      BY <1>2
    <3>3. \A k \in 1 .. N : b.trades[k].out # 0
      BY <3>2, <2>2, <2>5, Zenon
    <3> QED
      BY <3>1, <3>3, <1>2, SMTT(30)
  <2>6. CASE N # 0 /\ b.trades[N].out = 0
    <3>1. N \in 1 .. N
      BY <1>2, <2>6
    <3>2. done = N - 1
      BY <2>1, <2>3, <2>6, <1>3, <3>1, Zenon
    <3>3. \A k \in 1 .. N : (k \in 1 .. N - 1 /\ k <= N - 1) \/ (k = N /\ ~ (k <= N - 1))
      BY <1>2
    <3>4. N - 1 \in Nat
      BY <1>2, <2>6
    <3> QED
      BY <3>2, <3>3, <3>4, <2>2, <2>6, Zenon
  <2> QED
    BY <2>4, <2>5, <2>6, Zenon
<1>6. Len(candles) \in Nat /\ DOMAIN candles = 1 .. Len(candles)
  BY SMTT(30)
<1>7. priced \cup late = 1 .. done /\ priced \cap late = {}
  <2>1. \A k \in 1 .. N : Priced(b.trades[k].out) <=> (b.trades[k].out # 0 /\ ~ (b.trades[k].out > Len(candles)))
    BY <1>3, <1>6 DEF Priced
  <2>2. \A k \in 1 .. N : b.trades[k].out > Len(candles) => b.trades[k].out # 0
    BY <1>3, <1>6
  <2>3. \A k : k \in 1 .. done <=> (k \in 1 .. N /\ k <= done)
    BY <1>2, <1>5
  <2> HIDE DEF done, N
  <2> QED
    BY <2>1, <2>2, <2>3, <1>5, Zenon
<1>16. \A n \in Nat : IsFiniteSet(1 .. n) /\ Cardinality(1 .. n) = n
  <2> TAKE n \in Nat
  <2>1. 1 \in Int /\ n \in Int
    OBVIOUS
  <2>2. IsFiniteSet(1 .. n) /\ Cardinality(1 .. n) = IF 1 > n THEN 0 ELSE n - 1 + 1
    BY ONLY <2>1, FS_Interval, Zenon
  <2> QED
    BY <2>2
<1>8. IsFiniteSet(1 .. N) /\ priced \subseteq 1 .. N /\ late \subseteq 1 .. N
  <2>1. IsFiniteSet(1 .. N)
    BY <1>2, <1>16, Zenon
  <2> QED
    BY <2>1, Zenon
<1>9. IsFiniteSet(1 .. done) /\ Cardinality(1 .. done) = done
  <2> HIDE DEF done
  <2> QED
    BY <1>5, <1>16, Zenon
<1> HIDE DEF priced, late, done
<1>10. IsFiniteSet(priced) /\ IsFiniteSet(late) /\ Cardinality(priced) \in Nat /\ Cardinality(late) \in Nat
  BY <1>8, FS_Subset, FS_CardinalityType, Zenon
<1>11. Cardinality(priced \cap late) = 0
  BY <1>7, FS_EmptySet, Zenon
<1>12. Cardinality(1 .. done) = Cardinality(priced) + Cardinality(late) - Cardinality(priced \cap late)
  BY <1>7, <1>10, FS_Union, Zenon
<1>13. done = Cardinality(priced) + Cardinality(late)
  BY <1>9, <1>10, <1>11, <1>12
<1>14. b.opened = N /\ b.closed = done
  BY <1>1, <1>2 DEF Columns, done
<1>15. {k \in DOMAIN b.trades : b.trades[k].out > Len(candles)} = late
  BY <1>2, Zenon DEF late
<1>17. b.opened - b.closed = (N - Cardinality(priced)) - Cardinality(late)
  <2> HIDE DEF N
  <2> QED
    BY <1>2, <1>10, <1>13, <1>14
<1> HIDE DEF N
<1> QED
  BY <1>4, <1>15, <1>17, Zenon

\* The greatest element of a set is its maximum.
LEMMA GreatestIsMax ==
    ASSUME NEW S \in SUBSET Int, NEW x \in S, \A y \in S : y <= x
    PROVE  Max(S) = x
<1> DEFINE M == CHOOSE z \in S : \A y \in S : z >= y
<1>1. \A y \in S : x >= y
  BY Zenon
<1>2. M \in S /\ \A y \in S : M >= y
  BY <1>1, Zenon
<1> HIDE DEF M
<1>3. M \in Int /\ x \in Int /\ M >= x /\ M <= x
  BY <1>2, Zenon
<1>4. M = x
  BY <1>3
<1> QED
  BY <1>4, Zenon DEF Max, M

\* The profits of the closed trades are numbers: entry and exit are bars of the file
\* (pnl_pct).
LEMMA ProfitsAreNumbers ==
    ASSUME NEW b, NEW i \in Nat, BookAt(b, i), candles \in Seq(Candles)
    PROVE  _branch_stats(b).pnls \in Seq(Int)
<1> DEFINE closed == ClosedTrades(b)
           pnls == [k \in DOMAIN closed |-> pnl_pct(closed[k])]
<1>1. b.trades \in Seq(Trade)
  BY Zenon DEF BookAt
<1>2. closed \in Seq(Left(b))
  BY <1>1, ClosedAre, Zenon
<1>3. Len(candles) \in Nat /\ DOMAIN candles = 1 .. Len(candles)
  OBVIOUS
<1>4. \A n \in DOMAIN candles : candles[n].open \in Nat \ {0}
  BY PricesAssumption
<1>5. \A t \in Left(b) : pnl_pct(t) \in Int
  <2> SUFFICES ASSUME NEW t \in Left(b)
               PROVE  pnl_pct(t) \in Int
    BY Zenon
  <2>1. t \in Trade /\ t.out \in DOMAIN candles
    BY Zenon DEF Left, Priced
  <2>2. PICK k \in DOMAIN b.trades : b.trades[k] = t
    BY Zenon DEF Left
  <2>3. k \in 1 .. Len(b.trades)
    BY <1>1
  <2>4. t.in \in Nat \ {0} /\ t.out \in Nat
    BY <2>1, Zenon DEF Trade
  <2>5. t.out # 0
    BY <1>3, <2>1, SMTT(30)
  <2>6. t.in <= t.out
    BY <2>2, <2>3, <2>5, Zenon DEF BookAt
  <2>7. t.in \in DOMAIN candles
    BY <1>3, <2>1, <2>4, <2>6
  <2> DEFINE gain == Div(candles[t.out].open - candles[t.in].open, candles[t.in].open)
  <2>8. \A x \in Nat \ {0}, y \in Nat \ {0} : Div(x - y, y) \in Int
    <3> SUFFICES ASSUME NEW x \in Nat \ {0}, NEW y \in Nat \ {0}
                 PROVE  Div(x - y, y) \in Int
      BY Zenon
    <3>1. Unit \in Int
      BY PricesAssumption
    <3>2. (x - y) * Unit \in Int
      BY <3>1
    <3>3. \A n \in Int : n \div y \in Int
      OBVIOUS
    <3> QED
      BY <3>2, <3>3, Zenon DEF Div
  <2>9. gain \in Int
    BY <1>4, <2>1, <2>7, <2>8, Zenon
  <2> HIDE DEF gain
  <2>10. pnl_pct(t) = IF t.side = "LONG" THEN gain ELSE - gain
    BY Zenon DEF pnl_pct, gain
  <2> QED
    BY <2>9, <2>10
<1> HIDE DEF closed
<1>6. Len(closed) \in Nat /\ DOMAIN closed = 1 .. Len(closed) /\ \A k \in DOMAIN closed : closed[k] \in Left(b)
  BY <1>2
<1>7. pnls \in Seq(Int)
  BY <1>5, <1>6, SMTT(30)
<1> QED
  BY <1>7, Zenon DEF _branch_stats, closed

\* The running profit of a series of trades, and its falls from an earlier value.
ProfitOf(p) == CHOOSE f : f = [n \in 0 .. Len(p) |-> IF n = 0 THEN 0 ELSE f[n - 1] + p[n]]
FallsOf(h, N) == UNION {{h[m] - h[n] : m \in 0 .. n} : n \in 0 .. N}

\* The drawdown of a book (_branch_stats, _max_drawdown).
LEMMA BookDrawdown ==
    ASSUME NEW b, NEW i \in Nat, BookAt(b, i), candles \in Seq(Candles)
    PROVE  _branch_stats(b).max_drawdown =
               Max(FallsOf(ProfitOf(_branch_stats(b).pnls), Len(_branch_stats(b).pnls)))
<1> DEFINE p == _branch_stats(b).pnls
           profit == ProfitOf(p)
           before(n) == {profit[m] - profit[n] : m \in 0 .. n}
           falls == UNION {before(n) : n \in 0 .. Len(p)}
<1>1. p \in Seq(Int)
  BY ProfitsAreNumbers, Zenon
<1>2. _branch_stats(b).max_drawdown = _max_drawdown(p)
  BY Zenon DEF _branch_stats
<1>20. profit = CHOOSE f : f = [n \in 0 .. Len(p) |-> IF n = 0 THEN 0 ELSE f[n - 1] + p[n]]
  BY Zenon DEF ProfitOf
<1> HIDE DEF p, profit
<1>3. /\ profit \in [0 .. Len(p) -> Int] /\ profit[0] = 0
      /\ \A n \in 1 .. Len(p) : profit[n] = profit[n - 1] + p[n]
  BY <1>1, <1>20, RunningProfit, Zenon
<1>4. PICK s : LargestFall(s, profit, Len(p)) /\ _max_drawdown(p) = s.fall
  BY <1>1, <1>3, DrawdownIs, Zenon
<1>5. \A n \in 0 .. Len(p) : \A m \in 0 .. n : profit[m] \in Int /\ profit[n] \in Int
  <2>1. Len(p) \in Nat
    BY <1>1
  <2>2. \A n \in 0 .. Len(p) : \A m \in 0 .. n : m \in 0 .. Len(p)
    BY <2>1
  <2> QED
    BY <1>3, <2>2, Zenon
<1>6. \A y : y \in falls <=> \E n \in 0 .. Len(p) : \E m \in 0 .. n : y = profit[m] - profit[n]
  <2>1. \A n, y : y \in before(n) <=> \E m \in 0 .. n : y = profit[m] - profit[n]
    BY Zenon
  <2> HIDE DEF before
  <2>2. \A y : y \in falls <=> \E n \in 0 .. Len(p) : y \in before(n)
    BY Zenon
  <2> HIDE DEF falls
  <2> QED
    BY <2>1, <2>2
<1> HIDE DEF falls
<1>7. falls \in SUBSET Int
  BY <1>5, <1>6
<1>8. s.fall \in falls /\ \A y \in falls : y <= s.fall
  <2>1. \E k \in 0 .. Len(p) : \E m \in 0 .. k : s.fall = profit[m] - profit[k]
    BY <1>4, Zenon DEF LargestFall
  <2>2. \A k \in 0 .. Len(p) : \A m \in 0 .. k : profit[m] - profit[k] <= s.fall
    BY <1>4, Zenon DEF LargestFall
  <2>3. s.fall \in falls
    BY <2>1, <1>6, Zenon
  <2>4. ASSUME NEW y \in falls
        PROVE  y <= s.fall
    <3>1. PICK n \in 0 .. Len(p) : \E m \in 0 .. n : y = profit[m] - profit[n]
      BY <1>6, Zenon
    <3>2. PICK m \in 0 .. n : y = profit[m] - profit[n]
      BY <3>1, Zenon
    <3>3. profit[m] - profit[n] <= s.fall
      BY <2>2, Zenon
    <3> QED
      BY <3>2, <3>3, Zenon
  <2> QED
    BY <2>3, <2>4, Zenon
<1>9. Max(falls) = s.fall
  BY <1>7, <1>8, GreatestIsMax, Zenon
<1> QED
  BY <1>2, <1>4, <1>9, Zenon DEF falls, p, profit, FallsOf

\* The report of each branch is true of its signals and trades, for any number of signals
\* and any candles (BranchState.apply, _branch_stats, _max_drawdown).
THEOREM ReportIsTrue == BTSpec => []BranchReportIsTrue
<1>1. BTInv => BooksBalance /\ DrawdownIsLargestFall
  <2> SUFFICES ASSUME BTInv
               PROVE  BooksBalance /\ DrawdownIsLargestFall
    BY Zenon
  <2>1. candles \in Seq(Candles) /\ bar + 1 \in Nat /\ \A b \in Books : BookAt(b, bar + 1)
    BY DEF BTInv, Books
  <2>2. BooksBalance
    BY <2>1, BookBalances, Zenon DEF BooksBalance
  <2>3. DrawdownIsLargestFall
    <3>1. \A b \in Books : _branch_stats(b).max_drawdown =
              Max(FallsOf(ProfitOf(_branch_stats(b).pnls), Len(_branch_stats(b).pnls)))
      BY <2>1, BookDrawdown, Zenon
    <3> QED
      BY <3>1, Zenon DEF DrawdownIsLargestFall, ProfitOf, FallsOf
  <2> QED
    BY <2>2, <2>3, Zenon
<1> QED
  BY <1>1, BTInvariant, SignalsCounted, TradesInOrder, PTL DEF BranchReportIsTrue

-----------------------------------------------------------------------------
(* Position sizing. *)

\* Rounding down loses less than one unit.
LEMMA RoundsDown ==
    ASSUME NEW x \in Nat, NEW y \in Nat \ {0}
    PROVE  /\ x \div y \in Nat
           /\ (x \div y) * y <= x
           /\ x < (x \div y + 1) * y
  <1>1. x \div y \in Nat
    OBVIOUS
  <1>2. (x \div y) * y <= x
    OBVIOUS
  <1>3. x < (x \div y + 1) * y
    OBVIOUS
  <1> QED
    BY <1>1, <1>2, <1>3, Zenon

\* Products keep the order of their factors.
LEMMA ProductsOrdered ==
    ASSUME NEW x \in Nat, NEW y \in Nat, NEW z \in Nat, x <= y
    PROVE  x * z \in Nat /\ x * z <= y * z
  OBVIOUS

\* The smaller of two numbers (FiniteSetsExt).
LEMMA MinOfTwo ==
    ASSUME NEW x \in Int, NEW y \in Int
    PROVE  Min({x, y}) = IF x <= y THEN x ELSE y
  BY SMTT(30) DEF Min

\* The size of an order is the largest number of steps whose loss is within the budget,
\* whatever the prices, the values of a tick, the limits and the step of the broker
\* (sized_volume).
THEOREM SizedLargest == order \in Orders => SizedIsLargestWithinRisk
  <1> SUFFICES ASSUME order \in Orders, ~ CannotSize(order) PROVE SizedIsLargestWithinRisk
    BY Zenon DEF SizedIsLargestWithinRisk
  <1> DEFINE loss == Distance(order) * order.value
             step == order.step
             q == order.risk \div loss
             n == q \div step
             vol == n * step
             v == sized_volume(order)
  <1>1. /\ order.risk \in Nat /\ step \in Nat \ {0}
        /\ order.min \in Nat /\ order.max \in Nat /\ order.min <= order.max
        /\ Distance(order) \in Nat \ {0} /\ order.value \in Nat \ {0}
    <2>1. /\ order.ref \in Int /\ order.sl \in Int /\ order.risk \in Int /\ order.value \in Int
          /\ step \in Nat \ {0} /\ order.min \in Nat /\ order.max \in Nat /\ order.min <= order.max
      BY SizingAssumption, Zenon DEF Orders
    <2>2. order.risk > 0 /\ order.value > 0 /\ Distance(order) \in Int /\ Distance(order) > 0
      BY <2>1, SMTT(30) DEF CannotSize, Distance
    <2> QED
      BY <2>1, <2>2
  <1>2. loss \in Nat \ {0}
    BY <1>1
  <1>3. v = IF vol < order.min THEN 0 ELSE Min({vol, order.max})
    BY Zenon DEF sized_volume
  <1> HIDE DEF loss, v, step
  <1>4. q \in Nat /\ q * loss <= order.risk /\ order.risk < (q + 1) * loss
    BY <1>1, <1>2, RoundsDown, Zenon
  <1> HIDE DEF q
  <1>5. n \in Nat /\ n * step <= q /\ q < (n + 1) * step
    BY <1>1, <1>4, RoundsDown, Zenon
  <1> HIDE DEF n
  <1>6. vol \in Nat /\ vol <= q
    BY <1>1, <1>5
  <1> HIDE DEF vol
  <1>7. /\ v \in Nat /\ v <= vol
        /\ v = 0 \/ (v >= order.min /\ v <= order.max)
        /\ v = vol \/ vol < order.min \/ v = order.max
    BY <1>1, <1>3, <1>6, MinOfTwo
  <1>8. v * loss <= order.risk
    <2>1. v * loss <= q * loss /\ v * loss \in Nat /\ q * loss \in Nat
      BY <1>2, <1>4, <1>6, <1>7, ProductsOrdered, SMTT(30)
    <2> QED
      BY <1>1, <1>4, <2>1
  <1>9. ASSUME NEW k \in 0 .. order.risk, k * step > v, k * step >= order.min, k * step <= order.max
        PROVE  (k * step) * loss > order.risk
    <2>1. k \in Nat /\ k * step \in Nat
      BY <1>1
    <2>2. k * step > vol
      BY <1>1, <1>6, <1>7, <1>9, <2>1
    <2>3. k > n
      <3>1. SUFFICES ASSUME k <= n PROVE FALSE
        BY <1>5, <2>1
      <3>2. k * step <= n * step
        BY <1>1, <1>5, <2>1, <3>1, ProductsOrdered, Zenon
      <3> QED
        BY <1>6, <2>1, <2>2, <3>2 DEF vol
    <2>4. (n + 1) * step <= k * step /\ (n + 1) * step \in Nat
      BY <1>1, <1>5, <2>1, <2>3, ProductsOrdered
    <2>5. q + 1 <= k * step
      BY <1>4, <1>5, <2>1, <2>4, SMTT(30)
    <2>6. (q + 1) * loss <= (k * step) * loss /\ (q + 1) * loss \in Nat /\ (k * step) * loss \in Nat
      BY <1>2, <1>4, <2>1, <2>5, ProductsOrdered
    <2> QED
      BY <1>1, <1>4, <2>6
  <1> QED
    BY <1>1, <1>7, <1>8, <1>9, SMTT(30) DEF SizedIsLargestWithinRisk, loss, step, v

=============================================================================
