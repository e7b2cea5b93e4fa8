-------------------------------- MODULE Shim --------------------------------
(***************************************************************************)
(* The Python executor (scripts/ea_shim.py) that trades the bridge's       *)
(* signals on a MetaTrader terminal, with the part of the trade store      *)
(* (scripts/_tradestore.py) it works through.                              *)
(*                                                                         *)
(* Three actors share the terminal and the store:                          *)
(*   - the session coroutine takes one signal at a time from the bridge,   *)
(*     executes it, reports the fill and records the order (run_session);  *)
(*   - the monitor thread polls the open positions and, for each one that  *)
(*     left the list, records the closed trade and applies the             *)
(*     one-cancels-other rules (position_monitor);                         *)
(*   - the broker fills, triggers and closes orders on its own.            *)
(* A step is one call to the terminal or to the store: everything between  *)
(* two such calls touches only the caller's own variables.                 *)
(***************************************************************************)
EXTENDS Integers, FiniteSets

CONSTANTS
    Traces,       \* trace ids the bridge may deliver
    Cmd,          \* Cmd[t]: the commands trace t may carry, out of Commands
    Signals,      \* messages on the store's signals table
    SigOf,        \* SigOf[t]: the message whose trace_ids list an opening trace
    Channel,      \* Channel[t]: the channel named in the order's comment
    TPof,         \* TPof[t]: the take-profit price of the leg, 0 for none
    Buys,         \* TRUE when the legs buy (they profit going up)
    BreakevenOn,  \* channels whose breakeven switch is on
    AmendsStop,   \* the traces whose amendment sets the stop; others set the target
    MaxExec,      \* how often the bridge may deliver one trace
    MaxTraces,    \* how many of the traces the bridge delivers
    MaxFaults     \* how many calls to the terminal, the store or the bridge may
                  \* fail, restarts of the process included

Commands == {"market", "pending", "close", "reverse", "amend"}

Opening == {t \in Traces : Cmd[t] \cap {"market", "pending", "reverse"} # {}}

ASSUME ShimAssumption ==
    /\ Cmd \in [Traces -> SUBSET Commands]
    /\ SigOf \in [Opening -> Signals]
    /\ TPof \in [Opening -> Nat]
    /\ Buys \in BOOLEAN
    /\ AmendsStop \subseteq Traces
    /\ \A t \in Opening : "amend" \notin Cmd[t]  \* a trace id names one payload
    /\ MaxExec \in Nat \ {0}
    /\ MaxTraces \in Nat
    /\ MaxFaults \in Nat

\* The n-th execution of an opening trace gets the broker's ticket <<t, n>>; an
\* order and the position it becomes carry the same ticket.
Tickets == Opening \X (1 .. MaxExec)

\* broker_order_id of a row: a ticket, none, or the comma-joined list that a
\* command closing several positions reports, which equals no ticket.
None == <<>>
List == <<"list">>

NoRow == [ticket |-> None, status |-> "no row", error |-> FALSE]

\* Why a position closed: at its target, at its stop, or by an order of the shim or
\* of the operator.
Closed == {"tp", "sl", "order"}

VARIABLES
    book,      \* book[k]: what the broker holds under ticket k
    stop,      \* stop[k]: the stop loss: as sent, at the entry, or amended
    take,      \* take[k]: the take profit: as sent or amended
    runs,      \* runs[t]: executions of trace t so far
    sess,      \* the session coroutine's place and locals
    rows,      \* rows[t]: the orders row of trace t
    trades,    \* trades[k]: the closed_trades row of position k
    mon,       \* the monitor thread's place and locals
    peers,     \* peers[k]: recorded legs of k's message resting when k closed
    faults     \* failed calls and restarts so far

broker == <<book, stop, take>>
store == <<rows, trades>>
vars == <<book, stop, take, runs, sess, rows, trades, mon, peers, faults>>

Idle == [pc |-> "idle", job |-> None, cmd |-> "none", todo |-> <<>>, done |-> {}, ticket |-> None,
         status |-> "filled"]

NewMonitor == [pc |-> "poll", fresh |-> TRUE, known |-> {}, current |-> {}, gone |-> {},
               at |-> None, wanted |-> {}, plan |-> <<>>]

Init ==
    /\ book = [k \in Tickets |-> "none"]
    /\ stop = [k \in Tickets |-> "sent"]
    /\ take = [k \in Tickets |-> "sent"]
    /\ runs = [t \in Traces |-> 0]
    /\ sess = Idle
    /\ rows = [t \in Traces |-> NoRow]
    /\ trades = [k \in Tickets |-> "none"]
    /\ mon = NewMonitor
    /\ peers = [k \in Tickets |-> {}]
    /\ faults = 0

-----------------------------------------------------------------------------
(* The store's lookups. *)

\* A call may fail while the budget of faults lasts.
Fault ==
    /\ faults < MaxFaults
    /\ faults' = faults + 1

Recorded(t) == rows[t] # NoRow

sibling_order_rows_by_channel(k) ==
    LET own == {t \in Traces : Recorded(t) /\ rows[t].ticket = k}
        legs == {t \in Opening : \E u \in own : Channel[t] = Channel[u]}
    IN {t \in legs : Recorded(t) /\ rows[t].ticket # None}

\* The rows of every leg of the message that issued ticket k, k's own included:
\* ticket -> trace -> signal -> traces -> rows with a broker id.
sibling_order_rows(k) ==
    LET own == {t \in Traces : Recorded(t) /\ rows[t].ticket = k}
        legs == {t \in Opening : \E u \in own \cap Opening : SigOf[t] = SigOf[u]}
    IN {t \in legs : Recorded(t) /\ rows[t].ticket # None}

sibling_broker_order_ids(k) == {rows[t].ticket : t \in sibling_order_rows(k)} \ {k}

\* Further in the profit direction.
Further(p, q) == IF Buys THEN p > q ELSE p < q

ClassifiedHalf_any(k, legs) ==
    /\ k[1] \in legs
    /\ TPof[k[1]] # 0
    /\ \E t \in legs \cap Opening : TPof[t] # 0 /\ TPof[t] # TPof[k[1]]

\* The close of k at its target was the half leg's when a sibling's target lies
\* further out. A leg without a recorded row or target is undecided.
ClassifiedHalf(k, legs) ==
    /\ k[1] \in legs
    /\ TPof[k[1]] # 0
    /\ \E t \in legs \cap Opening : TPof[t] # 0 /\ Further(TPof[t], TPof[k[1]])

channel_flags(k) == Channel[k[1]] \in BreakevenOn

-----------------------------------------------------------------------------
(* The broker (external). *)

\* A resting order is triggered.
Trigger(k) ==
    /\ book[k] = "pending"
    /\ book' = [book EXCEPT ![k] = "open"]
    /\ UNCHANGED <<stop, take, runs, sess, store, mon, peers, faults>>

\* A position is closed at its target or stop, or by the operator in the terminal.
\* peers records the resting legs of the same message whose rows the store had.
Resolve(k, why) ==
    /\ book[k] = "open"
    /\ why = "tp" => TPof[k[1]] # 0 \/ take[k] # "sent"
    /\ book' = [book EXCEPT ![k] = why]
    /\ peers' = [peers EXCEPT ![k] = {j \in sibling_broker_order_ids(k) \cap Tickets :
                                        book[j] = "pending"}]
    /\ UNCHANGED <<stop, take, runs, sess, store, mon, faults>>

-----------------------------------------------------------------------------
(* The session: execute, report, record. *)

\* execute() has returned: what the session will report for the trace.
Result(t, k, status) ==
    [Idle EXCEPT !.pc = "send", !.job = t, !.ticket = k, !.status = status]

NewTicket(t) == <<t, runs'[t]>>

\* The session takes the next signal message off the socket.
Receive(t) ==
    /\ sess.pc = "idle"
    /\ runs[t] < MaxExec
    /\ Cardinality({u \in Traces : runs[u] > 0} \cup {t}) <= MaxTraces
    /\ runs' = [runs EXCEPT ![t] = @ + 1]

\* A market order: filled, or refused (no market data, the budget allows not even
\* the minimum lot, a bad retcode after the FOK retry).
ExecuteMarket(t) ==
    /\ "market" \in Cmd[t]
    /\ Receive(t)
    /\ \/ /\ book' = [book EXCEPT ![NewTicket(t)] = "open"]
          /\ sess' = Result(t, NewTicket(t), "filled")
       \/ /\ sess' = Result(t, None, "rejected")
          /\ UNCHANGED book
    /\ UNCHANGED <<stop, take, store, mon, peers, faults>>

\* A pending order: placed, or on the wrong side of the market and executed at
\* market instead, or refused.
ExecutePending(t) ==
    /\ "pending" \in Cmd[t]
    /\ Receive(t)
    /\ \/ /\ book' = [book EXCEPT ![NewTicket(t)] = "pending"]
          /\ sess' = Result(t, NewTicket(t), "placed")
       \/ /\ book' = [book EXCEPT ![NewTicket(t)] = "open"]
          /\ sess' = Result(t, NewTicket(t), "filled")
       \/ /\ sess' = Result(t, None, "rejected")
          /\ UNCHANGED book
    /\ UNCHANGED <<stop, take, store, mon, peers, faults>>

\* The legs buy or sell together; a reversal opens the opposite side.
SameSide(k) == "reverse" \notin Cmd[k[1]]
OpenPositions == {k \in Tickets : book[k] = "open"}

\* close_positions and modify_positions_sltp walk a list of positions read once,
\* an amendment only those whose comment names its channel.
Scope(t, cmd) ==
    {k \in OpenPositions : SameSide(k) /\ (cmd = "amend" => Channel[k[1]] = Channel[t])}

StartWalk(t) ==
    /\ Receive(t)
    /\ \E cmd \in Cmd[t] \cap {"close", "reverse", "amend"} :
        sess' = [Idle EXCEPT !.pc = "walk", !.job = t, !.cmd = cmd,
                             !.todo = [k \in Scope(t, cmd) |-> [stop |-> stop[k], take |-> take[k]]]]
    /\ UNCHANGED <<broker, store, mon, peers, faults>>

\* What a walk reports: the tickets an amendment changed, or the closing orders.
WalkTicket(done) ==
    IF done = {} THEN None
    ELSE IF sess.cmd = "amend" /\ Cardinality(done) = 1 THEN CHOOSE k \in done : TRUE
    ELSE List

Without(f, k) == [j \in DOMAIN f \ {k} |-> f[j]]

\* The next position of the list is closed at market.
CloseOne(k) ==
    /\ sess.cmd # "amend"
    /\ book' = [book EXCEPT ![k] = "order"]
    /\ UNCHANGED <<stop, take>>

\* The next position gets its new level; the other level is sent again as it was
\* when the list was read.
AmendOne(k) ==
    /\ sess.cmd = "amend"
    /\ stop' = [stop EXCEPT ![k] = IF sess.job \in AmendsStop THEN "amended" ELSE sess.todo[k].stop]
    /\ take' = [take EXCEPT ![k] = IF sess.job \in AmendsStop THEN sess.todo[k].take ELSE "amended"]
    /\ UNCHANGED book

WalkOne(k) ==
    /\ sess.pc = "walk"
    /\ k \in DOMAIN sess.todo
    /\ book[k] = "open"
    /\ CloseOne(k) \/ AmendOne(k)
    /\ sess' = [sess EXCEPT !.todo = Without(@, k), !.done = @ \cup {k}]
    /\ UNCHANGED <<runs, store, mon, peers, faults>>

\* The request fails: the position has left the book, or the terminal refuses it.
\* The walk ends here and the positions after it are left alone.
WalkFails(k) ==
    /\ sess.pc = "walk"
    /\ k \in DOMAIN sess.todo
    /\ IF book[k] = "open" THEN Fault ELSE UNCHANGED faults
    /\ sess' = Result(sess.job, WalkTicket(sess.done), "rejected")
    /\ UNCHANGED <<broker, runs, store, mon, peers>>

\* The list is done. A reversal now opens the other side; the others report.
WalkEnds ==
    /\ sess.pc = "walk"
    /\ DOMAIN sess.todo = {}
    /\ sess.cmd # "reverse"
    /\ sess' = Result(sess.job, WalkTicket(sess.done), "filled")
    /\ UNCHANGED <<broker, runs, store, mon, peers, faults>>

ReverseOpens ==
    /\ sess.pc = "walk"
    /\ DOMAIN sess.todo = {}
    /\ sess.cmd = "reverse"
    /\ LET k == <<sess.job, runs[sess.job]>>
       IN \/ /\ book' = [book EXCEPT ![k] = "open"]
             /\ sess' = Result(sess.job, IF sess.done = {} THEN k ELSE List, "filled")
          \/ /\ sess' = Result(sess.job, WalkTicket(sess.done), "rejected")
             /\ UNCHANGED book
    /\ UNCHANGED <<stop, take, runs, store, mon, peers, faults>>

\* The fill goes out on the socket; on a closed socket the send raises, the
\* session ends and the order is never recorded.
SendFill ==
    /\ sess.pc = "send"
    /\ \/ /\ sess' = [sess EXCEPT !.pc = "record"]
          /\ UNCHANGED faults
       \/ /\ Fault
          /\ sess' = Idle
    /\ UNCHANGED <<broker, runs, store, mon, peers>>

\* The upsert by trace id: a missing id keeps the row's previous one, and so does
\* a missing error.
Upsert(t, k, status) ==
    IF Recorded(t)
    THEN [ticket |-> IF k = None THEN rows[t].ticket ELSE k, status |-> status,
          error |-> rows[t].error \/ status = "rejected"]
    ELSE [ticket |-> k, status |-> status, error |-> status = "rejected"]

record_order ==
    /\ sess.pc = "record"
    /\ \/ /\ rows' = [rows EXCEPT ![sess.job] = Upsert(sess.job, sess.ticket, sess.status)]
          /\ UNCHANGED faults
       \/ /\ Fault
          /\ UNCHANGED rows
    /\ sess' = Idle
    /\ UNCHANGED <<broker, runs, trades, mon, peers>>

-----------------------------------------------------------------------------
(* The monitor. *)

\* One position of the list has been dealt with; after the last one the list just
\* read becomes the known one.
Advance(m, k) ==
    LET gone == m.gone \ {k}
    IN [m EXCEPT !.pc = IF gone = {} THEN "poll" ELSE "gone", !.gone = gone, !.at = None,
                 !.known = IF gone = {} THEN m.current ELSE @,
                 !.current = IF gone = {} THEN {} ELSE @,
                 !.wanted = {}, !.plan = <<>>]

Poll_all ==
    /\ mon.pc = "poll"
    /\ mon' = IF mon.fresh \/ mon.known = {}
              THEN [mon EXCEPT !.fresh = FALSE, !.known = OpenPositions]
              ELSE [mon EXCEPT !.pc = "gone", !.gone = mon.known, !.current = OpenPositions]
    /\ UNCHANGED <<broker, runs, sess, store, peers, faults>>

\* The monitor lists the open positions; a failed call reads as an empty list.
\* The first list only becomes the known one.
Poll ==
    /\ mon.pc = "poll"
    /\ \E current \in {OpenPositions, {}} :
        LET gone == IF mon.fresh THEN {} ELSE mon.known \ current
        IN /\ IF current = OpenPositions THEN UNCHANGED faults ELSE Fault
           /\ mon' = IF gone = {}
                     THEN [mon EXCEPT !.fresh = FALSE, !.known = current]
                     ELSE [mon EXCEPT !.pc = "gone", !.gone = gone, !.current = current]
    /\ UNCHANGED <<broker, runs, sess, store, peers>>

record_closed_trade_tp_only(k) ==
    /\ mon.pc = "gone"
    /\ k \in mon.gone
    /\ trades' = [trades EXCEPT ![k] = IF book[k] \in Closed THEN book[k] ELSE "unknown"]
    /\ mon' = IF book[k] = "tp" THEN [mon EXCEPT !.pc = "tp", !.at = k] ELSE Advance(mon, k)
    /\ UNCHANGED <<broker, runs, sess, rows, peers, faults>>

\* A position left the list: its closing deal gives the reason, the closed trade
\* is recorded, and a close at target or stop goes on to one-cancels-other. A
\* position that is in truth still open has no closing deal; nor has one whose
\* history cannot be read. The store may fail to take the record.
record_closed_trade(k) ==
    /\ mon.pc = "gone"
    /\ k \in mon.gone
    /\ \E read, saved \in BOOLEAN :
        LET why == IF read /\ book[k] \in Closed THEN book[k] ELSE "unknown"
        IN /\ IF read /\ saved THEN UNCHANGED faults ELSE Fault
           /\ trades' = IF saved THEN [trades EXCEPT ![k] = why] ELSE trades
           /\ mon' = IF why \in {"tp", "sl"}
                     THEN [mon EXCEPT !.pc = why, !.at = k]
                     ELSE Advance(mon, k)
    /\ UNCHANGED <<broker, runs, sess, rows, peers>>

\* A close at the target: read the signal's rows and classify. The half leg's
\* close cancels nothing; with the switch on it goes on to the breakeven move.
\* Any failure of the store reads as no rows.
ClassifyTP ==
    /\ mon.pc = "tp"
    /\ \E legs \in {sibling_order_rows(mon.at), {}} :
        /\ IF legs = sibling_order_rows(mon.at) THEN UNCHANGED faults ELSE Fault
        /\ LET seen == [mon EXCEPT !.wanted = {rows[t].ticket : t \in legs} \ {mon.at}]
           IN mon' = IF ~ ClassifiedHalf(mon.at, legs) THEN [seen EXCEPT !.pc = "sl"]
                     ELSE IF channel_flags(mon.at) THEN [seen EXCEPT !.pc = "positions"]
                     ELSE Advance(mon, mon.at)
    /\ UNCHANGED <<broker, runs, sess, store, peers>>

\* A close at the stop, or at the target of the full leg: read the siblings (again,
\* after a classification) and list those still resting.
ListSiblings ==
    /\ mon.pc = "sl"
    /\ \E wanted \in {sibling_broker_order_ids(mon.at), {}} :
        LET plan == {k \in wanted \cap Tickets : book[k] = "pending"}
        IN /\ IF wanted = sibling_broker_order_ids(mon.at) THEN UNCHANGED faults ELSE Fault
           /\ mon' = IF plan = {} THEN Advance(mon, mon.at)
                     ELSE [mon EXCEPT !.pc = "cancel", !.plan = [k \in plan |-> take[k]]]
    /\ UNCHANGED <<broker, runs, sess, store, peers>>

\* The next order or position of the plan is done.
Done(k) ==
    LET plan == Without(mon.plan, k)
    IN IF plan = <<>> THEN Advance(mon, mon.at) ELSE [mon EXCEPT !.plan = plan]

\* A listed order is withdrawn. One that is no longer resting, or that the terminal
\* refuses to remove, is logged and skipped.
CancelOne(k) ==
    /\ mon.pc = "cancel"
    /\ k \in DOMAIN mon.plan
    /\ \/ /\ book[k] = "pending"
          /\ book' = [book EXCEPT ![k] = "removed"]
          /\ UNCHANGED faults
       \/ /\ IF book[k] = "pending" THEN Fault ELSE UNCHANGED faults
          /\ UNCHANGED book
    /\ mon' = Done(k)
    /\ UNCHANGED <<stop, take, runs, sess, store, peers>>

\* The sibling positions open now, with their targets.
ListPositions ==
    /\ mon.pc = "positions"
    /\ LET plan == mon.wanted \cap OpenPositions
       IN mon' = IF plan = {} THEN Advance(mon, mon.at)
                 ELSE [mon EXCEPT !.pc = "breakeven", !.plan = [k \in plan |-> take[k]]]
    /\ UNCHANGED <<broker, runs, sess, store, peers, faults>>

BreakevenOne_original(k) ==
    /\ mon.pc = "breakeven"
    /\ k \in DOMAIN mon.plan
    /\ book[k] = "open"
    /\ stop' = [stop EXCEPT ![k] = "entry"]
    /\ take' = [take EXCEPT ![k] = "sent"]
    /\ mon' = Done(k)
    /\ UNCHANGED <<book, runs, sess, store, peers, faults>>

\* A listed position's stop moves to its entry and its target is sent again as
\* listed; a position that has closed, or a refusal, is skipped.
BreakevenOne(k) ==
    /\ mon.pc = "breakeven"
    /\ k \in DOMAIN mon.plan
    /\ \/ /\ book[k] = "open"
          /\ stop' = [stop EXCEPT ![k] = "entry"]
          /\ take' = [take EXCEPT ![k] = mon.plan[k]]
          /\ UNCHANGED faults
       \/ /\ IF book[k] = "open" THEN Fault ELSE UNCHANGED faults
          /\ UNCHANGED <<stop, take>>
    /\ mon' = Done(k)
    /\ UNCHANGED <<book, runs, sess, store, peers>>

\* The process is killed and started again: the broker and the store keep what
\* they have, both threads start over.
Restart ==
    /\ Fault
    /\ sess' = Idle
    /\ mon' = NewMonitor
    /\ UNCHANGED <<broker, runs, store, peers>>

-----------------------------------------------------------------------------
Session ==
    \/ \E t \in Traces : ExecuteMarket(t) \/ ExecutePending(t) \/ StartWalk(t)
    \/ \E k \in Tickets : WalkOne(k) \/ WalkFails(k)
    \/ WalkEnds \/ ReverseOpens \/ SendFill \/ record_order

Monitor ==
    \/ Poll
    \/ ClassifyTP
    \/ ListSiblings
    \/ ListPositions
    \/ \E k \in Tickets : record_closed_trade(k) \/ CancelOne(k) \/ BreakevenOne(k)

Environment ==
    \/ \E k \in Tickets : Trigger(k)
    \/ \E k \in Tickets, why \in {"tp", "sl", "order"} : Resolve(k, why)
    \/ Restart

Next == Session \/ Monitor \/ Environment

Spec == Init /\ [][Next]_vars

-----------------------------------------------------------------------------
(* Properties. *)

Legs(k) == {j \in Tickets \ {k} : SigOf[j[1]] = SigOf[k[1]]}

\* k's target is the nearer of the targets its message's legs have.
HalfLeg(k) ==
    /\ TPof[k[1]] # 0
    /\ \E j \in Legs(k) : TPof[j[1]] # 0 /\ Further(TPof[j[1]], TPof[k[1]])

\* One-cancels-other reaches only the message it is about: an order is withdrawn
\* only after another leg of the same message was closed by the broker at its
\* target or stop, never because of a manual close, a close command, or another
\* message of the same channel (_cancel_siblings_after_close, _handle_close_oco).
WithdrawnAfterResolution ==
    \A j \in Tickets : book[j] = "removed" => \E k \in Legs(j) : book[k] \in {"tp", "sl"}

\* A stop is at the entry only for a leg of a message whose half leg reached its
\* target, in a channel that has the switch on (_move_siblings_to_breakeven;
\* "never a false breakeven move").
BreakevenJustified ==
    \A j \in Tickets :
        stop[j] = "entry" =>
            \E k \in Legs(j) : book[k] = "tp" /\ HalfLeg(k) /\ Channel[k[1]] \in BreakevenOn

\* A level moved by one thread is put back by the other only when that one had
\* read its list of positions before the move: an amendment read later carries the
\* breakeven stop over, and a breakeven move listed later carries an amended target
\* over (modify_positions_sltp and _move_siblings_to_breakeven re-send the level
\* they do not set).
LevelLostOnlyToStaleList ==
    [][\A k \in Tickets :
          /\ stop[k] # "sent" /\ stop'[k] = "sent" => sess.pc = "walk" /\ sess.todo[k].stop = "sent"
          /\ take[k] # "sent" /\ take'[k] = "sent" => mon.pc = "breakeven" /\ mon.plan[k] = "sent"]_vars

\* Without a failed call a closed_trades row tells how the position ended; a failed
\* poll or history call can make a row for a position that is still open.
ClosedTradesAreTrue ==
    faults = 0 => \A k \in Tickets : trades[k] # "none" => trades[k] = book[k]

\* One-cancels-other is complete when nothing fails: once the monitor has recorded a
\* close at the stop, or at the target of a leg that is not the half leg, and is back
\* at its poll, no leg of that message which was recorded and resting when the
\* position closed is still resting (position_monitor, cancel_pending_orders). The
\* store finds legs by the tickets its rows name now: an order whose trace was
\* delivered and executed again is out of its sight.
ResolutionIsComplete ==
    mon.pc = "poll" /\ faults = 0 =>
        \A k \in Tickets :
            /\ trades[k] = "sl" \/ (trades[k] = "tp" /\ ~ HalfLeg(k))
            /\ rows[k[1]].ticket = k
            => \A j \in peers[k] : rows[j[1]].ticket = j => book[j] # "pending"
=============================================================================
