----------------------------- MODULE ShimProofs -----------------------------
(***************************************************************************)
(* Proofs about Shim: the one-cancels-other and breakeven rules of the     *)
(* Python executor, for any number of messages, legs, channels, deliveries *)
(* and faults.                                                             *)
(***************************************************************************)
EXTENDS Shim, Sequences, TLAPS

Stops == {"sent", "entry", "amended"}
Takes == {"sent", "amended"}
States == {"none", "pending", "open", "removed"} \cup Closed
Ids == Tickets \cup {None, List}

SessType ==
    /\ sess = [pc |-> sess.pc, job |-> sess.job, cmd |-> sess.cmd, todo |-> sess.todo,
               done |-> sess.done, ticket |-> sess.ticket, status |-> sess.status]
    /\ sess.pc \in {"idle", "walk", "send", "record"}
    /\ sess.pc # "idle" => sess.job \in Traces
    /\ sess.pc = "walk" => sess.cmd \in Cmd[sess.job] \cap {"close", "reverse", "amend"}
    /\ sess.pc = "walk" =>
          /\ DOMAIN sess.todo \subseteq Tickets
          /\ \A k \in DOMAIN sess.todo : sess.todo[k].stop \in Stops /\ sess.todo[k].take \in Takes
    /\ sess.done \subseteq Tickets
    /\ sess.ticket \in Ids
    /\ sess.status \in {"filled", "placed", "rejected"}

MonType ==
    /\ mon = [pc |-> mon.pc, fresh |-> mon.fresh, known |-> mon.known, current |-> mon.current,
              gone |-> mon.gone, at |-> mon.at, wanted |-> mon.wanted, plan |-> mon.plan]
    /\ mon.pc \in {"poll", "gone", "tp", "sl", "cancel", "positions", "breakeven"}
    /\ mon.known \subseteq Tickets
    /\ mon.current \subseteq Tickets
    /\ mon.gone \subseteq Tickets
    /\ IF mon.pc \in {"poll", "gone"} THEN mon.at = None ELSE mon.at \in Tickets
    /\ mon.pc = "breakeven" => \A k \in DOMAIN mon.plan : mon.plan[k] \in Takes

TypeOK ==
    /\ book \in [Tickets -> States]
    /\ stop \in [Tickets -> Stops]
    /\ take \in [Tickets -> Takes]
    /\ runs \in [Traces -> 0 .. MaxExec]
    /\ rows \in [Traces -> [ticket : Ids, status : {"no row", "filled", "placed", "rejected"},
                            error : BOOLEAN]]
    /\ trades \in [Tickets -> Closed \cup {"none", "unknown"}]
    /\ peers \in [Tickets -> SUBSET Tickets]
    /\ faults \in Nat
    /\ sess.pc # "idle" => runs[sess.job] \in 1 .. MaxExec
    /\ SessType
    /\ MonType

\* A ticket the broker has not issued holds nothing; a reversal's own ticket is
\* issued only when its walk is over.
Fresh ==
    /\ \A k \in Tickets : k[2] > runs[k[1]] => book[k] = "none"
    /\ sess.pc = "walk" /\ sess.cmd = "reverse" => book[<<sess.job, runs[sess.job]>>] = "none"

\* The row of an opening trace, and the report on its way there, name tickets of
\* that trace only.
OwnTickets ==
    /\ \A t \in Opening : rows[t].ticket \in Tickets => rows[t].ticket[1] = t
    /\ sess.pc \in {"send", "record"} /\ sess.job \in Opening /\ sess.ticket \in Tickets
          => sess.ticket = <<sess.job, runs[sess.job]>>

Justified(j) ==
    \E k \in Legs(j) : book[k] = "tp" /\ HalfLeg(k) /\ Channel[k[1]] \in BreakevenOn

\* What the monitor's place says of the position it is at and of its plan.
MonitorKnows ==
    /\ mon.pc = "tp" => book[mon.at] = "tp"
    /\ mon.pc \in {"sl", "cancel"} => book[mon.at] \in {"tp", "sl"}
    /\ mon.pc \in {"positions", "breakeven"} =>
          book[mon.at] = "tp" /\ HalfLeg(mon.at) /\ Channel[mon.at[1]] \in BreakevenOn
    /\ mon.pc = "positions" => mon.wanted \cap Tickets \subseteq Legs(mon.at)
    /\ mon.pc \in {"cancel", "breakeven"} => DOMAIN mon.plan \subseteq Legs(mon.at)

CarriedStops ==
    sess.pc = "walk" => \A k \in DOMAIN sess.todo : sess.todo[k].stop = "entry" => Justified(k)

ListsSeen ==
    /\ \A k \in mon.known \cup mon.current : book[k] \in Closed \cup {"open"}
    /\ faults = 0 => \A k \in mon.gone : book[k] \in Closed

TradesTrue ==
    faults = 0 => \A k \in Tickets : trades[k] # "none" => trades[k] = book[k] /\ book[k] \in Closed

\* Past(k): k's execution is over, reported and recorded or given up.
Past(k) ==
    \/ k[2] < runs[k[1]]
    \/ k[2] = runs[k[1]] /\ (sess.pc = "idle" \/ sess.job # k[1])

RecordedIsPast ==
    /\ \A t \in Opening : rows[t].ticket \in Tickets => Past(rows[t].ticket)
    /\ \A k \in Tickets : peers[k] # {} => Past(k)
    /\ \A k \in Tickets : \A j \in peers[k] : Past(j) /\ j \in Legs(k)

Due(k) == trades[k] = "sl" \/ (trades[k] = "tp" /\ ~ HalfLeg(k))
Named(k) == rows[k[1]].ticket = k
Resolved(k) == \A j \in peers[k] : Named(j) => book[j] # "pending"

CancelsAll ==
    faults = 0 =>
        /\ \A k \in Tickets \ {mon.at} : Due(k) /\ Named(k) => Resolved(k)
        /\ mon.pc = "cancel" /\ Named(mon.at) =>
              \A j \in peers[mon.at] : Named(j) /\ book[j] = "pending" => j \in DOMAIN mon.plan

\* A target the monitor or a stop amendment will send again is not older than the
\* target in force, except that the monitor may have read it before an amendment.
TakesCarried ==
    /\ mon.pc = "breakeven" =>
          \A k \in DOMAIN mon.plan : mon.plan[k] = "amended" => take[k] = "amended"
    /\ sess.pc = "walk" /\ sess.job \in AmendsStop =>
          \A k \in DOMAIN sess.todo : sess.todo[k].take = "sent" => take[k] = "sent"

\* The inductive invariant.
ShimInv ==
    /\ TypeOK
    /\ Fresh
    /\ OwnTickets
    /\ MonitorKnows
    /\ CarriedStops
    /\ TakesCarried
    /\ WithdrawnAfterResolution
    /\ BreakevenJustified
    /\ ListsSeen
    /\ TradesTrue
    /\ RecordedIsPast
    /\ CancelsAll

-----------------------------------------------------------------------------
(* Tickets and legs. *)

\* A ticket is a pair of an opening trace and an execution number, and is neither
\* the missing id nor the comma-joined list of a row's broker_order_id.
LEMMA TicketFacts ==
    ASSUME NEW k \in Tickets
    PROVE  /\ k = <<k[1], k[2]>>
           /\ k[1] \in Opening /\ k[1] \in Traces
           /\ k[2] \in 1 .. MaxExec /\ k[2] \in Nat
           /\ k # None /\ k # List
<1>1. k = <<k[1], k[2]>> /\ k[1] \in Opening /\ k[2] \in 1 .. MaxExec
  BY DEF Tickets
<1>2. k[1] \in Traces
  BY <1>1, Zenon DEF Opening
<1>3. k[2] \in Nat
  BY <1>1, ShimAssumption
<1>4. Len(k) = 2
  BY <1>1
<1>5. k # None /\ k # List
  BY <1>4 DEF None, List
<1> QED
  BY <1>1, <1>2, <1>3, <1>5, Zenon

\* The converse: an opening trace and an execution number make a ticket.
LEMMA MakeTicket ==
    ASSUME NEW t \in Opening, NEW n \in 1 .. MaxExec
    PROVE  /\ <<t, n>> \in Tickets
           /\ <<t, n>>[1] = t
           /\ <<t, n>>[2] = n
  BY Zenon DEF Tickets

\* Being legs of one message is symmetric.
LEMMA LegsSymmetric ==
    ASSUME NEW j \in Tickets, NEW k \in Tickets, j \in Legs(k)
    PROVE  k \in Legs(j)
  BY Zenon DEF Legs

\* The store's lookup finds legs of the same message only
\* (sibling_broker_order_ids), because rows name their own trace's tickets.
LEMMA SiblingsAreLegs ==
    ASSUME TypeOK, OwnTickets, NEW k \in Tickets,
           NEW t \in sibling_order_rows(k), rows[t].ticket \in Tickets, rows[t].ticket # k
    PROVE  rows[t].ticket \in Legs(k)
<1>1. PICK u \in Opening : t \in Opening /\ rows[u].ticket = k /\ SigOf[t] = SigOf[u]
  BY Zenon DEF sibling_order_rows
<1>2. k[1] = u /\ rows[t].ticket[1] = t
  BY <1>1, Zenon DEF OwnTickets
<1> QED
  BY <1>1, <1>2, Zenon DEF Legs

\* A leg named by its row is found by the lookup of another leg named by its row.
LEMMA NamedLegIsSibling ==
    ASSUME TypeOK, NEW k \in Tickets, NEW j \in Tickets, j \in Legs(k), Named(j), Named(k)
    PROVE  j \in sibling_broker_order_ids(k)
<1>1. /\ j[1] \in Opening /\ j[1] \in Traces /\ j # None
      /\ k[1] \in Opening /\ k[1] \in Traces /\ k # None
  BY TicketFacts, Zenon
<1>2. Recorded(j[1]) /\ Recorded(k[1])
  <2>1. NoRow.ticket = None
    BY Zenon DEF NoRow
  <2> QED
    BY <2>1, <1>1, Zenon DEF Named, Recorded
<1>3. j # k /\ SigOf[j[1]] = SigOf[k[1]]
  BY Zenon DEF Legs
<1>4. j[1] \in sibling_order_rows(k)
  BY <1>1, <1>2, <1>3, Zenon DEF sibling_order_rows, Named
<1> QED
  BY <1>3, <1>4, Zenon DEF sibling_broker_order_ids, Named

\* A leg whose close _handle_close_oco classifies as the half leg's is the half leg.
LEMMA ClassifiedIsHalf ==
    ASSUME TypeOK, OwnTickets, NEW k \in Tickets, ClassifiedHalf(k, sibling_order_rows(k))
    PROVE  HalfLeg(k)
<1>1. PICK t \in sibling_order_rows(k) \cap Opening :
          TPof[k[1]] # 0 /\ TPof[t] # 0 /\ Further(TPof[t], TPof[k[1]])
  BY Zenon DEF ClassifiedHalf
<1>2. PICK u \in Opening : rows[u].ticket = k /\ SigOf[t] = SigOf[u]
  BY <1>1, Zenon DEF sibling_order_rows
<1>3. k[1] = u
  BY <1>2, Zenon DEF OwnTickets
<1>4. <<t, 1>> \in Tickets /\ <<t, 1>>[1] = t
  BY MakeTicket, ShimAssumption
<1>5. t # k[1]
  <2>1. TPof[k[1]] \in Nat
    BY TicketFacts, ShimAssumption, Zenon
  <2> QED
    BY <2>1, <1>1 DEF Further
<1>6. <<t, 1>> \in Legs(k)
  BY <1>2, <1>3, <1>4, <1>5, Zenon DEF Legs
<1> QED
  BY <1>1, <1>4, <1>6, Zenon DEF HalfLeg

-----------------------------------------------------------------------------
(* Types. *)

\* What Advance leaves: the monitor is back at its list or at its poll, and has
\* forgotten nothing it still has to look at.
LEMMA AdvanceStep ==
    ASSUME MonType, NEW k, mon' = Advance(mon, k)
    PROVE  /\ MonType'
           /\ mon'.pc \in {"poll", "gone"}
           /\ mon'.at = None
           /\ mon'.gone \subseteq mon.gone
           /\ mon'.known \subseteq mon.known \cup mon.current
           /\ mon'.current \subseteq mon.current
  BY Zenon DEF MonType, Advance

\* Done either keeps the monitor where it is with one entry less, or advances.
LEMMA DoneStep ==
    ASSUME MonType, NEW k, mon.pc \in {"cancel", "breakeven"}, mon' = Done(k)
    PROVE  \/ /\ mon' = Advance(mon, mon.at)
              /\ DOMAIN mon.plan \subseteq {k}
           \/ /\ MonType'
              /\ mon'.pc = mon.pc /\ mon'.at = mon.at
              /\ mon'.gone = mon.gone /\ mon'.known = mon.known /\ mon'.current = mon.current
              /\ DOMAIN mon'.plan = DOMAIN mon.plan \ {k}
              /\ \A j \in DOMAIN mon'.plan : mon'.plan[j] = mon.plan[j]
<1> DEFINE p == Without(mon.plan, k)
<1>1. DOMAIN p = DOMAIN mon.plan \ {k} /\ \A j \in DOMAIN p : p[j] = mon.plan[j]
  BY Zenon DEF Without
<1>2. mon' = IF p = <<>> THEN Advance(mon, mon.at) ELSE [mon EXCEPT !.plan = p]
  BY Zenon DEF Done
<1> HIDE DEF p
<1>3. CASE p = <<>>
  BY <1>1, <1>2, <1>3
<1>4. CASE p # <<>>
  BY <1>1, <1>2, <1>4, Zenon DEF MonType
<1> QED
  BY <1>3, <1>4, Zenon

\* A report names a ticket of the walk, the list, or none.
LEMMA WalkTicketIsId ==
    ASSUME SessType
    PROVE  /\ WalkTicket(sess.done) \in Ids
           /\ sess.cmd # "amend" => WalkTicket(sess.done) \in {None, List}
<1>1. sess.done # {} => (CHOOSE k \in sess.done : TRUE) \in sess.done
  BY Zenon
<1> QED
  BY <1>1, Zenon DEF WalkTicket, SessType, Ids

\* The count of executions is a natural number.
LEMMA RunsAreNat ==
    ASSUME TypeOK, NEW t \in Traces
    PROVE  runs[t] \in Nat
<1>1. runs[t] \in 0 .. MaxExec
  BY Zenon DEF TypeOK
<1> QED
  BY <1>1, ShimAssumption

\* Taking a signal off the socket counts one more execution of its trace.
LEMMA ReceiveStep ==
    ASSUME TypeOK, NEW t \in Traces, Receive(t)
    PROVE  /\ sess.pc = "idle"
           /\ runs' \in [Traces -> 0 .. MaxExec]
           /\ runs'[t] = runs[t] + 1
           /\ runs'[t] \in 1 .. MaxExec
           /\ \A u \in Traces \ {t} : runs'[u] = runs[u]
<1>1. runs[t] \in 0 .. MaxExec /\ runs[t] < MaxExec /\ runs' = [runs EXCEPT ![t] = @ + 1]
      /\ sess.pc = "idle"
  BY Zenon DEF Receive, TypeOK
<1>2. runs[t] + 1 \in 1 .. MaxExec /\ runs[t] + 1 \in 0 .. MaxExec
  BY <1>1, ShimAssumption
<1>3. runs \in [Traces -> 0 .. MaxExec]
  BY Zenon DEF TypeOK
<1> QED
  BY <1>1, <1>2, <1>3, Zenon

\* The session's record keeps its type (run_session).
LEMMA SessionType ==
    ASSUME TypeOK, [Next]_vars
    PROVE  SessType'
<1> USE DEF TypeOK
<1>1. CASE UNCHANGED sess
  BY <1>1, Zenon DEF SessType
<1>2. CASE sess' = Idle
  BY <1>2, Zenon DEF SessType, Idle, Ids
<1>3. ASSUME NEW t \in Traces, NEW k \in Ids, NEW status \in {"filled", "placed", "rejected"},
             sess' = Result(t, k, status)
      PROVE  SessType'
  BY <1>3, Zenon DEF SessType, Result, Idle
<1>4. ASSUME NEW t \in Traces, Receive(t), t \in Opening
      PROVE  NewTicket(t) \in Ids
  BY <1>4, ReceiveStep, MakeTicket, Zenon DEF NewTicket, Ids
<1>5. ASSUME NEW t \in Traces, ExecuteMarket(t)
      PROVE  SessType'
  <2>1. t \in Opening
    BY <1>5, Zenon DEF ExecuteMarket, Opening
  <2>2. NewTicket(t) \in Ids
    BY <1>5, <1>4, <2>1, Zenon DEF ExecuteMarket
  <2> QED
    BY <1>5, <1>3, <2>2, Zenon DEF ExecuteMarket, Ids
<1>6. ASSUME NEW t \in Traces, ExecutePending(t)
      PROVE  SessType'
  <2>1. t \in Opening
    BY <1>6, Zenon DEF ExecutePending, Opening
  <2>2. NewTicket(t) \in Ids
    BY <1>6, <1>4, <2>1, Zenon DEF ExecutePending
  <2> QED
    BY <1>6, <1>3, <2>2, Zenon DEF ExecutePending, Ids
<1>7. ASSUME NEW t \in Traces, StartWalk(t)
      PROVE  SessType'
  <2>1. PICK cmd \in Cmd[t] \cap {"close", "reverse", "amend"} :
            sess' = [Idle EXCEPT !.pc = "walk", !.job = t, !.cmd = cmd,
                      !.todo = [k \in Scope(t, cmd) |-> [stop |-> stop[k], take |-> take[k]]]]
    BY Zenon, <1>7 DEF StartWalk
  <2>2. Scope(t, cmd) \subseteq Tickets
    BY Zenon DEF Scope, OpenPositions
  <2>3. \A k \in Tickets : stop[k] \in Stops /\ take[k] \in Takes
    BY Zenon
  <2> QED
    BY <2>1, <2>2, <2>3, Zenon DEF SessType, Idle, Ids
<1>8. ASSUME NEW k \in Tickets, WalkOne(k)
      PROVE  SessType'
  <2>1. sess' = [sess EXCEPT !.todo = Without(@, k), !.done = @ \cup {k}] /\ sess.pc = "walk"
    BY <1>8, Zenon DEF WalkOne
  <2>2. /\ DOMAIN Without(sess.todo, k) \subseteq DOMAIN sess.todo
        /\ \A j \in DOMAIN Without(sess.todo, k) : Without(sess.todo, k)[j] = sess.todo[j]
    BY Zenon DEF Without
  <2> QED
    BY <2>1, <2>2, Zenon DEF SessType
<1>9. ASSUME sess.pc = "walk"
      PROVE  sess.job \in Traces /\ WalkTicket(sess.done) \in Ids
  BY <1>9, WalkTicketIsId, Zenon DEF SessType
<1>10. ASSUME NEW k \in Tickets, WalkFails(k)
       PROVE  SessType'
  BY <1>10, <1>9, <1>3, Zenon DEF WalkFails
<1>11. CASE WalkEnds
  BY <1>11, <1>9, <1>3, Zenon DEF WalkEnds
<1>12. CASE ReverseOpens
  <2>1. sess.job \in Traces /\ sess.pc = "walk" /\ sess.cmd = "reverse"
    BY <1>12, <1>9, Zenon DEF ReverseOpens
  <2>2. PICK k \in {<<sess.job, runs[sess.job]>>, List, WalkTicket(sess.done)},
             status \in {"filled", "rejected"} : sess' = Result(sess.job, k, status)
    BY <1>12, Zenon DEF ReverseOpens
  <2>3. <<sess.job, runs[sess.job]>> \in Ids
    <3>1. sess.job \in Opening
      BY <2>1, Zenon DEF SessType, Opening
    <3> QED
      BY <2>1, <3>1, MakeTicket, Zenon DEF Ids
  <2> QED
    BY <2>1, <2>2, <2>3, <1>9, <1>3, Zenon DEF Ids
<1>13. CASE SendFill
  BY <1>13, <1>2, Zenon DEF SendFill, SessType
<1>14. CASE record_order
  BY <1>14, <1>2, Zenon DEF record_order
<1>15. CASE Monitor
  BY Zenon, <1>15, <1>1 DEF Monitor, Poll, ClassifyTP, ListSiblings, ListPositions, record_closed_trade,
                     CancelOne, BreakevenOne
<1>16. CASE Environment
  BY <1>16, <1>1, <1>2, Zenon DEF Environment, Trigger, Resolve, Restart
<1> QED
  BY <1>1, <1>5, <1>6, <1>7, <1>8, <1>10, <1>11, <1>12, <1>13, <1>14, <1>15, <1>16, Zenon
     DEF Next, Session, vars

\* The monitor's record keeps its type (position_monitor).
LEMMA MonitorType ==
    ASSUME TypeOK, [Next]_vars
    PROVE  MonType'
<1>0. MonType
  BY Zenon DEF TypeOK
<1>1. CASE UNCHANGED mon
  BY <1>0, <1>1, Zenon DEF MonType
<1>2. CASE Poll
  <2>1. PICK current \in {OpenPositions, {}}, gone \in {{}, mon.known \ {}, mon.known \ OpenPositions} :
           mon' = IF gone = {}
                  THEN [mon EXCEPT !.fresh = FALSE, !.known = current]
                  ELSE [mon EXCEPT !.pc = "gone", !.gone = gone, !.current = current]
    BY <1>2, Zenon DEF Poll
  <2>2. current \subseteq Tickets /\ gone \subseteq Tickets /\ mon.pc = "poll"
    BY <1>0, <1>2, Zenon DEF MonType, OpenPositions, Poll
  <2> QED
    BY <1>0, <2>1, <2>2, Zenon DEF MonType
<1>3. ASSUME NEW k \in Tickets, record_closed_trade(k)
      PROVE  MonType'
  <2>1. PICK why \in Closed \cup {"unknown"} :
           mon' = IF why \in {"tp", "sl"} THEN [mon EXCEPT !.pc = why, !.at = k] ELSE Advance(mon, k)
    BY Zenon, <1>3 DEF record_closed_trade
  <2>2. CASE why \in {"tp", "sl"}
    BY <1>0, <2>1, <2>2, Zenon DEF MonType
  <2> QED
    BY <1>0, <2>1, <2>2, AdvanceStep, Zenon
<1>4. CASE ClassifyTP
  <2>1. PICK legs \in {sibling_order_rows(mon.at), {}} :
           LET seen == [mon EXCEPT !.wanted = {rows[t].ticket : t \in legs} \ {mon.at}]
           IN mon' = IF ~ ClassifiedHalf(mon.at, legs) THEN [seen EXCEPT !.pc = "sl"]
                     ELSE IF channel_flags(mon.at) THEN [seen EXCEPT !.pc = "positions"]
                     ELSE Advance(mon, mon.at)
    BY <1>4, Zenon DEF ClassifyTP
  <2> DEFINE W == {rows[t].ticket : t \in legs} \ {mon.at}
  <2>2. \/ mon' = [[mon EXCEPT !.wanted = W] EXCEPT !.pc = "sl"]
        \/ mon' = [[mon EXCEPT !.wanted = W] EXCEPT !.pc = "positions"]
        \/ mon' = Advance(mon, mon.at)
    BY <2>1, Zenon
  <2> HIDE DEF W
  <2>3. mon.pc = "tp"
    BY <1>4, Zenon DEF ClassifyTP
  <2>4. CASE \/ mon' = [[mon EXCEPT !.wanted = W] EXCEPT !.pc = "sl"]
             \/ mon' = [[mon EXCEPT !.wanted = W] EXCEPT !.pc = "positions"]
    BY <1>0, <2>3, <2>4, Zenon DEF MonType
  <2> QED
    BY <1>0, <2>2, <2>4, AdvanceStep, Zenon
<1>5. CASE ListSiblings
  <2>1. PICK p : \/ mon' = [mon EXCEPT !.pc = "cancel", !.plan = p]
                 \/ mon' = Advance(mon, mon.at)
    BY Zenon, <1>5 DEF ListSiblings
  <2>2. mon.pc = "sl"
    BY <1>5, Zenon DEF ListSiblings
  <2>3. CASE mon' = [mon EXCEPT !.pc = "cancel", !.plan = p]
    BY <1>0, <2>2, <2>3, Zenon DEF MonType
  <2> QED
    BY <1>0, <2>1, <2>3, AdvanceStep, Zenon
<1>6. CASE ListPositions
  <2> DEFINE p == [k \in mon.wanted \cap OpenPositions |-> take[k]]
  <2>1. \/ mon' = [mon EXCEPT !.pc = "breakeven", !.plan = p]
        \/ mon' = Advance(mon, mon.at)
    BY <1>6, Zenon DEF ListPositions
  <2>4. \A k \in DOMAIN p : p[k] \in Takes
    BY Zenon DEF OpenPositions, TypeOK
  <2> HIDE DEF p
  <2>2. mon.pc = "positions"
    BY <1>6, Zenon DEF ListPositions
  <2>3. CASE mon' = [mon EXCEPT !.pc = "breakeven", !.plan = p]
    BY <1>0, <2>2, <2>3, <2>4, Zenon DEF MonType
  <2> QED
    BY <1>0, <2>1, <2>3, AdvanceStep, Zenon
<1>7. ASSUME NEW k \in Tickets, CancelOne(k) \/ BreakevenOne(k)
      PROVE  MonType'
  <2>1. mon' = Done(k) /\ mon.pc \in {"cancel", "breakeven"}
    BY <1>7, Zenon DEF CancelOne, BreakevenOne
  <2> QED
    BY <1>0, <2>1, DoneStep, AdvanceStep
<1>8. CASE Restart
  BY <1>8, Zenon DEF Restart, NewMonitor, MonType
<1>9. CASE Session
  BY Zenon, <1>9, <1>1 DEF Session, ExecuteMarket, ExecutePending, StartWalk, WalkOne, WalkFails, WalkEnds,
                    ReverseOpens, SendFill, record_order
<1>10. CASE Environment
  BY <1>10, <1>1, <1>8, Zenon DEF Environment, Trigger, Resolve
<1>11. CASE Monitor
  BY <1>11, <1>2, <1>3, <1>4, <1>5, <1>6, <1>7, Zenon DEF Monitor
<1> QED
  BY <1>1, <1>9, <1>10, <1>11, Zenon DEF Next, vars

\* The session is busy only with a trace it has received.
LEMMA StartedStep ==
    ASSUME TypeOK, [Next]_vars
    PROVE  /\ runs' \in [Traces -> 0 .. MaxExec]
           /\ sess'.pc # "idle" => runs'[sess'.job] \in 1 .. MaxExec
           /\ \/ /\ runs' = runs
                 /\ \/ sess'.pc = "idle"
                    \/ sess.pc # "idle" /\ sess'.job = sess.job
              \/ \E t \in Traces : Receive(t) /\ sess'.job = t
<1>1. CASE UNCHANGED <<sess, runs>>
  BY <1>1, Zenon DEF TypeOK
<1>2. ASSUME NEW t \in Traces, ExecuteMarket(t) \/ ExecutePending(t) \/ StartWalk(t)
      PROVE  Receive(t) /\ sess'.job = t
  BY Zenon, <1>2 DEF ExecuteMarket, ExecutePending, StartWalk, Result, Idle
<1>3. ASSUME NEW t \in Traces, Receive(t), sess'.job = t
      PROVE  runs' \in [Traces -> 0 .. MaxExec] /\ runs'[sess'.job] \in 1 .. MaxExec
  BY <1>3, ReceiveStep, Zenon
<1>4. ASSUME runs' = runs, sess'.pc = "idle" \/ (sess.pc # "idle" /\ sess'.job = sess.job)
      PROVE  /\ runs' \in [Traces -> 0 .. MaxExec]
             /\ sess'.pc # "idle" => runs'[sess'.job] \in 1 .. MaxExec
  BY <1>4, Zenon DEF TypeOK
<1>5. ASSUME NEW k \in Tickets, WalkOne(k) \/ WalkFails(k)
      PROVE  runs' = runs /\ sess.pc # "idle" /\ sess'.job = sess.job
  BY <1>5, Zenon DEF WalkOne, WalkFails, Result, Idle, TypeOK, SessType
<1>6. ASSUME WalkEnds \/ ReverseOpens
      PROVE  runs' = runs /\ sess.pc # "idle" /\ sess'.job = sess.job
  BY <1>6, Zenon DEF WalkEnds, ReverseOpens, Result, Idle
<1>7. ASSUME SendFill \/ record_order \/ Restart
      PROVE  runs' = runs /\ (sess'.pc = "idle" \/ (sess.pc # "idle" /\ sess'.job = sess.job))
  <2>1. CASE sess' = Idle
    BY <1>7, <2>1, Zenon DEF SendFill, record_order, Restart, Idle
  <2>2. CASE SendFill /\ sess' = [sess EXCEPT !.pc = "record"]
    BY <2>2, Zenon DEF SendFill, TypeOK, SessType
  <2> QED
    BY <1>7, <2>1, <2>2, Zenon DEF SendFill, record_order, Restart
<1>8. CASE Monitor
  BY Zenon, <1>8, <1>1 DEF Monitor, Poll, ClassifyTP, ListSiblings, ListPositions, record_closed_trade,
                    CancelOne, BreakevenOne
<1>9. CASE Environment
  BY <1>9, <1>1, <1>4, <1>7, Zenon DEF Environment, Trigger, Resolve
<1>10. CASE Session
  BY <1>10, <1>2, <1>3, <1>4, <1>5, <1>6, <1>7, Zenon DEF Session
<1> QED
  BY <1>1, <1>8, <1>9, <1>10, Zenon DEF Next, vars

-----------------------------------------------------------------------------
(* What a step may do to the broker's book. *)

\* An order is placed under a ticket that held nothing, a resting order is triggered
\* or withdrawn by the monitor, a position is closed; nothing else ever happens.
BookMove(k) ==
    \/ book'[k] = book[k]
    \/ /\ book[k] = "none" /\ book'[k] \in {"pending", "open"}
       /\ ~ Past(k) /\ k[2] <= runs'[k[1]] /\ sess'.pc = "send"
    \/ book[k] = "pending" /\ book'[k] = "open"
    \/ book[k] = "pending" /\ book'[k] = "removed" /\ mon.pc = "cancel" /\ k \in DOMAIN mon.plan
    \/ book[k] = "open" /\ book'[k] \in Closed

\* The book moves one ticket at a time along BookMove (order_send's outcomes, and the
\* broker's own triggers and closes).
LEMMA BookStep ==
    ASSUME TypeOK, Fresh, [Next]_vars
    PROVE  book' \in [Tickets -> States] /\ \A k \in Tickets : BookMove(k)
<1>0. book \in [Tickets -> States]
  BY Zenon DEF TypeOK
<1>1. CASE UNCHANGED book
  BY <1>0, <1>1, Zenon DEF BookMove
<1>2. ASSUME NEW k \in Tickets, NEW v \in States, book' = [book EXCEPT ![k] = v],
             \/ /\ book[k] = "none" /\ v \in {"pending", "open"}
                /\ ~ Past(k) /\ k[2] <= runs'[k[1]] /\ sess'.pc = "send"
             \/ book[k] = "pending" /\ v = "open"
             \/ book[k] = "pending" /\ v = "removed" /\ mon.pc = "cancel" /\ k \in DOMAIN mon.plan
             \/ book[k] = "open" /\ v \in Closed
      PROVE  book' \in [Tickets -> States] /\ \A j \in Tickets : BookMove(j)
  <2>1. book' \in [Tickets -> States] /\ book'[k] = v /\ \A j \in Tickets \ {k} : book'[j] = book[j]
    BY <1>0, <1>2, Zenon
  <2> QED
    BY <2>1, <1>2, Zenon DEF BookMove
<1>3. ASSUME NEW t \in Opening, Receive(t)
      PROVE  /\ NewTicket(t) \in Tickets
             /\ book[NewTicket(t)] = "none"
             /\ ~ Past(NewTicket(t))
             /\ NewTicket(t)[2] <= runs'[NewTicket(t)[1]]
  <2>1. t \in Traces
    BY Zenon DEF Opening
  <2>2. runs'[t] = runs[t] + 1 /\ runs'[t] \in 1 .. MaxExec /\ runs[t] \in Nat
    BY <1>3, <2>1, ReceiveStep, RunsAreNat, Zenon
  <2>3. NewTicket(t) \in Tickets /\ NewTicket(t)[1] = t /\ NewTicket(t)[2] = runs[t] + 1
    BY <2>2, MakeTicket, Zenon DEF NewTicket
  <2>4. ~ Past(NewTicket(t))
    BY <2>2, <2>3 DEF Past
  <2> QED
    BY <2>2, <2>3, <2>4 DEF Fresh
<1>4. ASSUME NEW t \in Traces, ExecuteMarket(t) \/ ExecutePending(t)
      PROVE  book' \in [Tickets -> States] /\ \A k \in Tickets : BookMove(k)
  <2>1. t \in Opening /\ Receive(t)
    BY <1>4, Zenon DEF ExecuteMarket, ExecutePending, Opening
  <2>2. \/ UNCHANGED book
        \/ \E v \in {"pending", "open"} : book' = [book EXCEPT ![NewTicket(t)] = v]
    BY <1>4, Zenon DEF ExecuteMarket, ExecutePending
  <2>3. {"pending", "open"} \subseteq States
    BY Zenon DEF States
  <2>4. sess'.pc = "send"
    BY <1>4, Zenon DEF ExecuteMarket, ExecutePending, Result, Idle
  <2> QED
    BY <2>1, <2>2, <2>3, <2>4, <1>1, <1>2, <1>3, Zenon
<1>5. ASSUME NEW k \in Tickets, WalkOne(k)
      PROVE  book' \in [Tickets -> States] /\ \A j \in Tickets : BookMove(j)
  <2>1. book[k] = "open" /\ (UNCHANGED book \/ book' = [book EXCEPT ![k] = "order"])
    BY <1>5, Zenon DEF WalkOne, CloseOne, AmendOne
  <2>2. "order" \in States /\ "order" \in Closed
    BY Zenon DEF States, Closed
  <2> QED
    BY <2>1, <2>2, <1>1, <1>2, Zenon
<1>6. CASE ReverseOpens
  <2>1. sess.pc = "walk" /\ sess.cmd = "reverse" /\ sess.job \in Opening /\ sess.job \in Traces
    BY <1>6, Zenon DEF ReverseOpens, TypeOK, SessType, Opening
  <2> DEFINE k == <<sess.job, runs[sess.job]>>
  <2>2. k \in Tickets /\ k[1] = sess.job /\ k[2] = runs[sess.job]
    BY <2>1, MakeTicket, Zenon DEF TypeOK
  <2>3. ~ Past(k)
    <3>1. runs[sess.job] \in Nat
      BY <2>1, RunsAreNat, Zenon
    <3> QED
      BY <2>1, <2>2, <3>1 DEF Past
  <2>4. book[k] = "none"
    BY <2>1, Zenon DEF Fresh
  <2>5. UNCHANGED book \/ book' = [book EXCEPT ![k] = "open"]
    BY <1>6, Zenon DEF ReverseOpens
  <2>6. "open" \in States
    BY Zenon DEF States
  <2>7. k[2] <= runs'[k[1]] /\ sess'.pc = "send"
    <3>1. runs' = runs /\ sess'.pc = "send"
      BY Zenon, <1>6 DEF ReverseOpens, Result, Idle
    <3> QED
      BY <2>1, <2>2, <3>1, RunsAreNat
  <2> HIDE DEF k
  <2> QED
    BY <2>2, <2>3, <2>4, <2>5, <2>6, <2>7, <1>1, <1>2, Zenon
<1>7. ASSUME NEW k \in Tickets, CancelOne(k)
      PROVE  book' \in [Tickets -> States] /\ \A j \in Tickets : BookMove(j)
  <2>1. \/ UNCHANGED book
        \/ /\ book[k] = "pending" /\ mon.pc = "cancel" /\ k \in DOMAIN mon.plan
           /\ book' = [book EXCEPT ![k] = "removed"]
    BY <1>7, Zenon DEF CancelOne
  <2>2. "removed" \in States
    BY Zenon DEF States
  <2> QED
    BY <2>1, <2>2, <1>1, <1>2, Zenon
<1>8. ASSUME NEW k \in Tickets, Trigger(k)
      PROVE  book' \in [Tickets -> States] /\ \A j \in Tickets : BookMove(j)
  BY <1>8, <1>2, Zenon DEF Trigger, States
<1>9. ASSUME NEW k \in Tickets, NEW why \in {"tp", "sl", "order"}, Resolve(k, why)
      PROVE  book' \in [Tickets -> States] /\ \A j \in Tickets : BookMove(j)
  BY <1>9, <1>2, Zenon DEF Resolve, States, Closed
<1>10. CASE Session
  <2>1. CASE \E t \in Traces : StartWalk(t)
    BY <2>1, <1>1, Zenon DEF StartWalk, broker
  <2>2. CASE \E k \in Tickets : WalkFails(k)
    BY <2>2, <1>1, Zenon DEF WalkFails, broker
  <2>3. CASE WalkEnds \/ SendFill \/ record_order
    BY <2>3, <1>1, Zenon DEF WalkEnds, SendFill, record_order, broker
  <2> QED
    BY <1>10, <1>4, <1>5, <1>6, <2>1, <2>2, <2>3, Zenon DEF Session
<1>11. CASE Monitor
  <2>1. CASE Poll \/ ClassifyTP \/ ListSiblings \/ ListPositions
    BY <2>1, <1>1, Zenon DEF Poll, ClassifyTP, ListSiblings, ListPositions, broker
  <2>2. CASE \E k \in Tickets : record_closed_trade(k) \/ BreakevenOne(k)
    BY Zenon, <2>2, <1>1 DEF record_closed_trade, BreakevenOne, broker
  <2> QED
    BY <1>11, <1>7, <2>1, <2>2, Zenon DEF Monitor
<1>12. CASE Environment
  <2>1. CASE Restart
    BY <2>1, <1>1, Zenon DEF Restart, broker
  <2> QED
    BY <1>12, <1>8, <1>9, <2>1, Zenon DEF Environment
<1> QED
  BY <1>1, <1>10, <1>11, <1>12, Zenon DEF Next, vars

\* An execution that is over stays over: runs only grow, and the session takes up a
\* trace again only as a new execution.
LEMMA PastStays ==
    ASSUME TypeOK, [Next]_vars, NEW k \in Tickets, Past(k)
    PROVE  Past(k)'
<1>1. k[1] \in Traces /\ k[2] \in Nat /\ runs[k[1]] \in Nat
  BY TicketFacts, RunsAreNat, Zenon
<1>2. CASE runs' = runs /\ (sess'.pc = "idle" \/ (sess.pc # "idle" /\ sess'.job = sess.job))
  BY <1>2, Zenon DEF Past
<1>3. ASSUME NEW t \in Traces, Receive(t), sess'.job = t
      PROVE  Past(k)'
  <2>1. CASE t = k[1]
    BY <1>1, <1>3, <2>1, ReceiveStep DEF Past
  <2>2. CASE t # k[1]
    BY <1>1, <1>3, <2>2, ReceiveStep, Zenon DEF Past
  <2> QED
    BY <2>1, <2>2, Zenon
<1> QED
  BY <1>2, <1>3, StartedStep, Zenon

\* The rows, the closed trades, the levels and the fault count keep their types.
LEMMA StoreTypes ==
    ASSUME TypeOK, Fresh, [Next]_vars
    PROVE  /\ stop' \in [Tickets -> Stops]
           /\ take' \in [Tickets -> Takes]
           /\ rows' \in [Traces -> [ticket : Ids, status : {"no row", "filled", "placed", "rejected"},
                                    error : BOOLEAN]]
           /\ trades' \in [Tickets -> Closed \cup {"none", "unknown"}]
           /\ peers' \in [Tickets -> SUBSET Tickets]
           /\ faults' \in Nat
<1>1. stop' \in [Tickets -> Stops] /\ take' \in [Tickets -> Takes]
  <2>0. stop \in [Tickets -> Stops] /\ take \in [Tickets -> Takes]
    BY Zenon DEF TypeOK
  <2>1. CASE UNCHANGED <<stop, take>>
    BY <2>0, <2>1, Zenon
  <2>2. ASSUME NEW k \in Tickets, WalkOne(k), AmendOne(k)
        PROVE  stop' \in [Tickets -> Stops] /\ take' \in [Tickets -> Takes]
    <3>1. sess.todo[k].stop \in Stops /\ sess.todo[k].take \in Takes
      BY <2>2, Zenon DEF WalkOne, TypeOK, SessType
    <3>2. "amended" \in Stops /\ "amended" \in Takes
      BY Zenon DEF Stops, Takes
    <3> QED
      BY <2>0, <2>2, <3>1, <3>2, Zenon DEF AmendOne
  <2>3. ASSUME NEW k \in Tickets, BreakevenOne(k)
        PROVE  stop' \in [Tickets -> Stops] /\ take' \in [Tickets -> Takes]
    <3>1. mon.plan[k] \in Takes
      BY <2>3, Zenon DEF BreakevenOne, TypeOK, MonType
    <3>2. "entry" \in Stops
      BY Zenon DEF Stops
    <3> QED
      BY <2>0, <2>3, <3>1, <3>2, Zenon DEF BreakevenOne
  <2>4. CASE Session
    <3>1. CASE \E t \in Traces : ExecuteMarket(t) \/ ExecutePending(t) \/ StartWalk(t)
      BY Zenon, <3>1, <2>1 DEF ExecuteMarket, ExecutePending, StartWalk, broker
    <3>2. CASE \E k \in Tickets : WalkOne(k)
      BY Zenon, <3>2, <2>1, <2>2 DEF WalkOne, CloseOne
    <3>3. CASE \E k \in Tickets : WalkFails(k)
      BY <3>3, <2>1, Zenon DEF WalkFails, broker
    <3>4. CASE WalkEnds \/ ReverseOpens \/ SendFill \/ record_order
      BY <3>4, <2>1, Zenon DEF WalkEnds, ReverseOpens, SendFill, record_order, broker
    <3> QED
      BY <2>4, <3>1, <3>2, <3>3, <3>4, Zenon DEF Session
  <2>5. CASE Monitor
    BY Zenon, <2>5, <2>1, <2>3 DEF Monitor, Poll, ClassifyTP, ListSiblings, ListPositions, record_closed_trade,
                            CancelOne, broker
  <2>6. CASE Environment
    BY <2>6, <2>1, Zenon DEF Environment, Trigger, Resolve, Restart, broker
  <2> QED
    BY <2>1, <2>4, <2>5, <2>6, Zenon DEF Next, vars
<1>2. rows' \in [Traces -> [ticket : Ids, status : {"no row", "filled", "placed", "rejected"},
                            error : BOOLEAN]]
  <2> DEFINE Row == [ticket : Ids, status : {"no row", "filled", "placed", "rejected"}, error : BOOLEAN]
  <2>0. rows \in [Traces -> Row]
    BY Zenon DEF TypeOK
  <2>1. CASE UNCHANGED rows
    BY <2>0, <2>1, Zenon
  <2>2. CASE record_order
    <3>1. sess.job \in Traces /\ sess.ticket \in Ids /\ sess.status \in {"filled", "placed", "rejected"}
      BY <2>2, Zenon DEF record_order, TypeOK, SessType
    <3>2. rows[sess.job].ticket \in Ids /\ rows[sess.job].error \in BOOLEAN
      BY <2>0, <3>1, Zenon
    <3>3. Upsert(sess.job, sess.ticket, sess.status) \in Row
      BY <3>1, <3>2, Zenon DEF Upsert
    <3> QED
      BY <2>0, <2>1, <2>2, <3>1, <3>3, Zenon DEF record_order
  <2>3. CASE Next /\ ~ record_order
    BY Zenon, <2>1, <2>3 DEF Next, Session, Monitor, Environment, ExecuteMarket, ExecutePending, StartWalk,
       WalkOne, WalkFails, WalkEnds, ReverseOpens, SendFill, Poll, ClassifyTP, ListSiblings,
       ListPositions, record_closed_trade, CancelOne, BreakevenOne, Trigger, Resolve, Restart, store
  <2> QED
    BY <2>1, <2>2, <2>3, Zenon DEF vars
<1>3. trades' \in [Tickets -> Closed \cup {"none", "unknown"}]
  <2>0. trades \in [Tickets -> Closed \cup {"none", "unknown"}]
    BY Zenon DEF TypeOK
  <2>1. CASE UNCHANGED trades
    BY <2>0, <2>1, Zenon
  <2>2. ASSUME NEW k \in Tickets, record_closed_trade(k)
        PROVE  trades' \in [Tickets -> Closed \cup {"none", "unknown"}]
    <3>1. UNCHANGED trades \/ \E why \in Closed \cup {"unknown"} : trades' = [trades EXCEPT ![k] = why]
      BY <2>2, Zenon DEF record_closed_trade
    <3> QED
      BY <2>0, <2>1, <3>1, Zenon
  <2>3. CASE Next /\ ~ (\E k \in Tickets : record_closed_trade(k))
    BY Zenon, <2>1, <2>3 DEF Next, Session, Monitor, Environment, ExecuteMarket, ExecutePending, StartWalk,
       WalkOne, WalkFails, WalkEnds, ReverseOpens, SendFill, record_order, Poll, ClassifyTP, ListSiblings,
       ListPositions, CancelOne, BreakevenOne, Trigger, Resolve, Restart, store
  <2> QED
    BY <2>1, <2>2, <2>3, Zenon DEF vars
<1>4. peers' \in [Tickets -> SUBSET Tickets]
  <2>0. peers \in [Tickets -> SUBSET Tickets]
    BY Zenon DEF TypeOK
  <2>1. CASE UNCHANGED peers
    BY <2>0, <2>1, Zenon
  <2>2. ASSUME NEW k \in Tickets, NEW why \in {"tp", "sl", "order"}, Resolve(k, why)
        PROVE  peers' \in [Tickets -> SUBSET Tickets]
    BY <2>0, <2>2, Zenon DEF Resolve
  <2>3. CASE Next /\ ~ (\E k \in Tickets, why \in {"tp", "sl", "order"} : Resolve(k, why))
    BY Zenon, <2>1, <2>3 DEF Next, Session, Monitor, Environment, ExecuteMarket, ExecutePending, StartWalk,
       WalkOne, WalkFails, WalkEnds, ReverseOpens, SendFill, record_order, Poll, ClassifyTP, ListSiblings,
       ListPositions, record_closed_trade, CancelOne, BreakevenOne, Trigger, Restart
  <2> QED
    BY <2>1, <2>2, <2>3, Zenon DEF vars
<1>5. faults' \in Nat
  <2>1. faults \in Nat
    BY Zenon DEF TypeOK
  <2>2. UNCHANGED faults \/ Fault
    BY ZenonT(40) DEF Next, Session, Monitor, Environment, ExecuteMarket, ExecutePending, StartWalk,
       WalkOne, WalkFails, WalkEnds, ReverseOpens, SendFill, record_order, Poll, ClassifyTP, ListSiblings,
       ListPositions, record_closed_trade, CancelOne, BreakevenOne, Trigger, Resolve, Restart, vars
  <2> QED
    BY <2>1, <2>2 DEF Fault
<1> QED
  BY <1>1, <1>2, <1>3, <1>4, <1>5, Zenon

\* Tickets not yet issued hold nothing (mt5.order_send returns a new ticket).
LEMMA FreshStep ==
    ASSUME TypeOK, Fresh, [Next]_vars
    PROVE  Fresh'
<1>1. ASSUME NEW k \in Tickets, k[2] > runs'[k[1]]
      PROVE  book'[k] = "none"
  <2>1. k[1] \in Traces /\ k[2] \in Nat /\ runs[k[1]] \in Nat
    BY TicketFacts, RunsAreNat, Zenon
  <2>2. runs'[k[1]] \in Nat /\ runs[k[1]] <= runs'[k[1]]
    BY <2>1, StartedStep, ReceiveStep
  <2>3. book[k] = "none"
    BY <1>1, <2>1, <2>2 DEF Fresh
  <2> QED
    BY <1>1, <2>1, <2>2, <2>3, BookStep DEF BookMove
<1>2. ASSUME sess'.pc = "walk", sess'.cmd = "reverse"
      PROVE  book'[<<sess'.job, runs'[sess'.job]>>] = "none"
  <2>1. CASE UNCHANGED <<sess, runs>>
    <3>1. sess.job \in Opening /\ runs[sess.job] \in 1 .. MaxExec
      BY <1>2, <2>1, Zenon DEF TypeOK, SessType, Opening
    <3> DEFINE k == <<sess.job, runs[sess.job]>>
    <3>2. k \in Tickets
      BY <3>1, MakeTicket, Zenon
    <3>3. book[k] = "none"
      BY <1>2, <2>1, Zenon DEF Fresh
    <3> HIDE DEF k
    <3>4. book'[k] = "none"
      BY <1>2, <3>2, <3>3, BookStep, Zenon DEF BookMove
    <3> QED
      BY <2>1, <3>4, Zenon DEF k
  <2>2. ASSUME NEW t \in Traces, StartWalk(t)
        PROVE  book'[<<sess'.job, runs'[sess'.job]>>] = "none"
    <3>1. sess'.job = t /\ Receive(t) /\ book' = book /\ sess'.cmd \in Cmd[t]
      BY <2>2, Zenon DEF StartWalk, Idle, broker
    <3>2. t \in Opening
      BY <1>2, <3>1, Zenon DEF Opening
    <3>3. runs'[t] = runs[t] + 1 /\ runs'[t] \in 1 .. MaxExec /\ runs[t] \in Nat
      BY <3>1, ReceiveStep, RunsAreNat, Zenon
    <3>4. <<t, runs'[t]>> \in Tickets /\ <<t, runs'[t]>>[1] = t /\ <<t, runs'[t]>>[2] = runs'[t]
      BY <3>2, <3>3, MakeTicket, Zenon
    <3> QED
      BY <3>1, <3>3, <3>4 DEF Fresh
  <2>3. ASSUME NEW k \in Tickets, WalkOne(k)
        PROVE  book'[<<sess'.job, runs'[sess'.job]>>] = "none"
    <3>1. sess'.job = sess.job /\ sess'.cmd = sess.cmd /\ runs' = runs /\ sess.pc = "walk"
      BY <2>3, Zenon DEF WalkOne, TypeOK, SessType
    <3>2. book[<<sess.job, runs[sess.job]>>] = "none"
      BY <1>2, <3>1, Zenon DEF Fresh
    <3>3. book[k] = "open" /\ (book' = book \/ book' = [book EXCEPT ![k] = "order"])
      BY <2>3, Zenon DEF WalkOne, CloseOne, AmendOne
    <3>4. <<sess.job, runs[sess.job]>> \in Tickets
      <4>1. sess.job \in Opening /\ runs[sess.job] \in 1 .. MaxExec
        BY <1>2, <3>1, Zenon DEF TypeOK, SessType, Opening
      <4> QED
        BY <4>1, MakeTicket, Zenon
    <3> QED
      BY <3>1, <3>2, <3>3, <3>4, ZenonT(40) DEF TypeOK
  <2>4. ASSUME NEW t, NEW k, NEW status, sess' = Result(t, k, status)
        PROVE  FALSE
    BY <1>2, <2>4, Zenon DEF Result, Idle
  <2>5. sess' # Idle
    BY <1>2 DEF Idle
  <2>6. CASE Session
    <3>1. ~ (\E t \in Traces : ExecuteMarket(t) \/ ExecutePending(t))
      BY <2>4, Zenon DEF ExecuteMarket, ExecutePending
    <3>2. ~ (\E k \in Tickets : WalkFails(k))
      BY <2>4, Zenon DEF WalkFails
    <3>3. ~ (WalkEnds \/ ReverseOpens)
      BY <2>4, ZenonT(40) DEF WalkEnds, ReverseOpens
    <3>4. ~ record_order
      BY <2>5, Zenon DEF record_order
    <3>5. ~ SendFill
      <4>1. SUFFICES ASSUME sess' = [sess EXCEPT !.pc = "record"] PROVE FALSE
        BY <2>5, Zenon DEF SendFill
      <4> QED
        BY <1>2, <4>1, Zenon DEF TypeOK, SessType
    <3> QED
      BY <2>6, <3>1, <3>2, <3>3, <3>4, <3>5, <2>2, <2>3, Zenon DEF Session
  <2>7. CASE Monitor
    BY Zenon, <2>7, <2>1 DEF Monitor, Poll, ClassifyTP, ListSiblings, ListPositions, record_closed_trade,
                      CancelOne, BreakevenOne
  <2>8. CASE Environment
    BY <2>8, <2>1, <2>5, Zenon DEF Environment, Trigger, Resolve, Restart
  <2> QED
    BY <2>1, <2>6, <2>7, <2>8, Zenon DEF Next, vars
<1> QED
  BY <1>1, <1>2, Zenon DEF Fresh

\* The type invariant and the freshness of tickets are inductive together.
LEMMA TypeStep ==
    ASSUME TypeOK, Fresh, [Next]_vars
    PROVE  TypeOK' /\ Fresh'
<1>1. SessType' /\ MonType'
  BY SessionType, MonitorType, Zenon
<1>2. book' \in [Tickets -> States]
  BY BookStep, Zenon
<1>3. /\ runs' \in [Traces -> 0 .. MaxExec]
      /\ sess'.pc # "idle" => runs'[sess'.job] \in 1 .. MaxExec
  BY StartedStep, Zenon
<1> QED
  BY <1>1, <1>2, <1>3, StoreTypes, FreshStep, Zenon DEF TypeOK

-----------------------------------------------------------------------------
(* One-cancels-other and breakeven reach only the message they are about. *)

\* Only recording an order changes a row, only to the ticket reported (record_order).
LEMMA RowStep ==
    ASSUME TypeOK, [Next]_vars
    PROVE  \/ rows' = rows
           \/ /\ record_order
              /\ sess.job \in Traces
              /\ rows'[sess.job].ticket \in {rows[sess.job].ticket, sess.ticket}
              /\ \A t \in Traces \ {sess.job} : rows'[t] = rows[t]
<1>1. CASE record_order
  <2>1. sess.job \in Traces
    BY Zenon, <1>1 DEF record_order, TypeOK, SessType
  <2>2. Upsert(sess.job, sess.ticket, sess.status).ticket \in {rows[sess.job].ticket, sess.ticket}
    BY Zenon DEF Upsert
  <2>3. DOMAIN rows = Traces
    BY Zenon DEF TypeOK
  <2>4. rows' = rows \/ rows' = [rows EXCEPT ![sess.job] = Upsert(sess.job, sess.ticket, sess.status)]
    BY <1>1, Zenon DEF record_order
  <2> QED
    BY <1>1, <2>1, <2>2, <2>3, <2>4, Zenon
<1>2. CASE Next /\ ~ record_order
  BY Zenon, <1>2 DEF Next, Session, Monitor, Environment, ExecuteMarket, ExecutePending, StartWalk,
     WalkOne, WalkFails, WalkEnds, ReverseOpens, SendFill, Poll, ClassifyTP, ListSiblings,
     ListPositions, record_closed_trade, CancelOne, BreakevenOne, Trigger, Resolve, Restart, store
<1> QED
  BY <1>1, <1>2, Zenon DEF vars

\* Rows and reports of opening traces name their own tickets: an opening trace
\* never amends, and a closing walk reports a list.
LEMMA OwnTicketsStep ==
    ASSUME TypeOK, Fresh, OwnTickets, [Next]_vars
    PROVE  OwnTickets'
<1>1. ASSUME NEW t \in Opening, rows'[t].ticket \in Tickets
      PROVE  rows'[t].ticket[1] = t
  <2>1. t \in Traces
    BY Zenon DEF Opening
  <2>2. CASE rows'[t].ticket = rows[t].ticket
    BY <1>1, <2>2, Zenon DEF OwnTickets
  <2>3. CASE record_order /\ t = sess.job /\ rows'[t].ticket = sess.ticket
    BY <1>1, <2>3 DEF OwnTickets, record_order
  <2> QED
    BY <2>1, <2>2, <2>3, RowStep, Zenon
<1>2. ASSUME sess'.pc \in {"send", "record"}, sess'.job \in Opening, sess'.ticket \in Tickets
      PROVE  sess'.ticket = <<sess'.job, runs'[sess'.job]>>
  <2>1. CASE UNCHANGED <<sess, runs>>
    BY <1>2, <2>1, Zenon DEF OwnTickets
  <2>2. ASSUME NEW t, NEW k, NEW status, sess' = Result(t, k, status),
               k = <<t, runs'[t]>> \/ k \in {None, List}
        PROVE  sess'.ticket = <<sess'.job, runs'[sess'.job]>>
    <3>1. sess'.ticket = k /\ sess'.job = t
      BY <2>2, Zenon DEF Result, Idle
    <3> QED
      BY <1>2, <2>2, <3>1, TicketFacts, Zenon
  <2>3. CASE \E t \in Traces : ExecuteMarket(t) \/ ExecutePending(t)
    BY <2>3, <2>2, Zenon DEF ExecuteMarket, ExecutePending, NewTicket
  <2>4. CASE \E t \in Traces : StartWalk(t)
    BY <1>2, <2>4, Zenon DEF StartWalk, Idle
  <2>5. CASE \E k \in Tickets : WalkOne(k)
    BY <1>2, <2>5, Zenon DEF WalkOne, TypeOK, SessType
  <2>6. ASSUME sess.pc = "walk", sess.job \in Opening
        PROVE  WalkTicket(sess.done) \in {None, List}
    <3>1. sess.cmd # "amend"
      BY Zenon, <2>6, ShimAssumption DEF TypeOK, SessType
    <3> QED
      BY <3>1, WalkTicketIsId, Zenon DEF TypeOK
  <2>7. CASE (\E k \in Tickets : WalkFails(k)) \/ WalkEnds
    <3>1. PICK status : sess' = Result(sess.job, WalkTicket(sess.done), status)
      BY <2>7, Zenon DEF WalkFails, WalkEnds
    <3>2. sess.pc = "walk" /\ sess.job = sess'.job
      BY <2>7, <3>1, Zenon DEF WalkFails, WalkEnds, Result, Idle
    <3> QED
      BY <1>2, <2>2, <2>6, <3>1, <3>2, Zenon
  <2>8. CASE ReverseOpens
    <3>1. PICK k \in {<<sess.job, runs[sess.job]>>, List, WalkTicket(sess.done)},
               status \in {"filled", "rejected"} : sess' = Result(sess.job, k, status)
      BY <2>8, Zenon DEF ReverseOpens
    <3>2. sess.pc = "walk" /\ sess.job = sess'.job /\ runs' = runs
      BY <2>8, <3>1, Zenon DEF ReverseOpens, Result, Idle
    <3> QED
      BY <1>2, <2>2, <2>6, <3>1, <3>2, Zenon
  <2>9. CASE sess' = Idle
    BY <1>2, <2>9, Zenon DEF Idle
  <2>10. CASE SendFill /\ sess' = [sess EXCEPT !.pc = "record"]
    <3>1. sess'.job = sess.job /\ sess'.ticket = sess.ticket /\ runs' = runs /\ sess.pc = "send"
      BY <2>10, Zenon DEF SendFill, TypeOK, SessType
    <3> QED
      BY <1>2, <3>1, Zenon DEF OwnTickets
  <2>11. CASE Session
    BY <2>11, <2>3, <2>4, <2>5, <2>7, <2>8, <2>9, <2>10, Zenon DEF Session, SendFill, record_order
  <2>12. CASE Monitor
    BY Zenon, <2>12, <2>1 DEF Monitor, Poll, ClassifyTP, ListSiblings, ListPositions, record_closed_trade,
                       CancelOne, BreakevenOne
  <2>13. CASE Environment
    BY <2>13, <2>1, <2>9, Zenon DEF Environment, Trigger, Resolve, Restart
  <2> QED
    BY <2>1, <2>11, <2>12, <2>13, Zenon DEF Next, vars
<1> QED
  BY <1>1, <1>2, Zenon DEF OwnTickets

\* What the monitor does to its place and plan, step by step. Every way on from a
\* position is one of these (position_monitor, _handle_close_oco).
MonitorMove ==
    \/ /\ mon'.pc \in {"poll", "gone"}
       /\ mon'.at = None
    \/ /\ mon'.pc = mon.pc /\ mon'.at = mon.at
       /\ mon'.wanted = mon.wanted /\ mon'.plan = mon.plan
    \/ \* a closed trade goes on to one-cancels-other
       /\ mon.pc = "gone" /\ mon'.pc \in {"tp", "sl"}
       /\ mon'.at \in Tickets /\ book[mon'.at] = mon'.pc
    \/ \* a close at the target is not the half leg's
       mon.pc = "tp" /\ mon'.pc = "sl" /\ mon'.at = mon.at
    \/ \* it is, and the switch is on
       /\ mon.pc = "tp" /\ mon'.pc = "positions" /\ mon'.at = mon.at
       /\ HalfLeg(mon.at) /\ Channel[mon.at[1]] \in BreakevenOn
       /\ mon'.wanted \cap Tickets \subseteq Legs(mon.at)
    \/ /\ mon.pc = "sl" /\ mon'.pc = "cancel" /\ mon'.at = mon.at
       /\ DOMAIN mon'.plan \subseteq Legs(mon.at)
    \/ /\ mon.pc = "positions" /\ mon'.pc = "breakeven" /\ mon'.at = mon.at
       /\ DOMAIN mon'.plan \subseteq mon.wanted \cap Tickets
    \/ /\ mon.pc \in {"cancel", "breakeven"} /\ mon'.pc = mon.pc /\ mon'.at = mon.at
       /\ DOMAIN mon'.plan \subseteq DOMAIN mon.plan

\* The monitor moves along MonitorMove.
LEMMA MonitorMoves ==
    ASSUME TypeOK, OwnTickets, [Next]_vars
    PROVE  MonitorMove
<1>0. MonType
  BY Zenon DEF TypeOK
<1>1. CASE UNCHANGED mon
  BY <1>1, Zenon DEF MonitorMove
<1>2. ASSUME NEW k, mon' = Advance(mon, k)
      PROVE  MonitorMove
  BY <1>0, <1>2, AdvanceStep, Zenon DEF MonitorMove
<1>3. CASE Poll \/ Restart
  <2>1. CASE Restart
    BY <2>1, Zenon DEF Restart, NewMonitor, MonitorMove
  <2>2. CASE Poll
    <3>1. MonType' /\ mon.pc = "poll" /\ mon.at = None
      BY <2>2, <1>0, MonitorType, Zenon DEF Poll, MonType
    <3>2. PICK current, gone :
             mon' = IF gone = {}
                    THEN [mon EXCEPT !.fresh = FALSE, !.known = current]
                    ELSE [mon EXCEPT !.pc = "gone", !.gone = gone, !.current = current]
      BY Zenon, <2>2 DEF Poll
    <3>3. mon'.pc \in {"poll", "gone"} /\ mon'.at = None
      BY <1>0, <3>1, <3>2, Zenon DEF MonType
    <3> QED
      BY <3>3, Zenon DEF MonitorMove
  <2> QED
    BY <1>3, <2>1, <2>2, SMTT(30)
<1>4. ASSUME NEW k \in Tickets, record_closed_trade(k)
      PROVE  MonitorMove
  <2>1. PICK why \in Closed \cup {"unknown"} :
           /\ mon' = IF why \in {"tp", "sl"} THEN [mon EXCEPT !.pc = why, !.at = k] ELSE Advance(mon, k)
           /\ why = "unknown" \/ why = book[k]
    BY Zenon, <1>4 DEF record_closed_trade
  <2>2. CASE why \in {"tp", "sl"}
    <3>1. mon.pc = "gone" /\ mon'.pc = why /\ mon'.at = k
      BY <1>0, <1>4, <2>1, <2>2, Zenon DEF MonType, record_closed_trade
    <3> QED
      BY <1>4, <2>1, <2>2, <3>1, Zenon DEF MonitorMove
  <2> QED
    BY <1>2, <2>1, <2>2, Zenon
<1>5. CASE ClassifyTP
  <2>1. PICK legs \in {sibling_order_rows(mon.at), {}} :
           LET seen == [mon EXCEPT !.wanted = {rows[t].ticket : t \in legs} \ {mon.at}]
           IN mon' = IF ~ ClassifiedHalf(mon.at, legs) THEN [seen EXCEPT !.pc = "sl"]
                     ELSE IF channel_flags(mon.at) THEN [seen EXCEPT !.pc = "positions"]
                     ELSE Advance(mon, mon.at)
    BY <1>5, Zenon DEF ClassifyTP
  <2>2. mon.pc = "tp" /\ mon.at \in Tickets
    BY <1>0, <1>5, Zenon DEF ClassifyTP, MonType
  <2> DEFINE W == {rows[t].ticket : t \in legs} \ {mon.at}
  <2>3. W \cap Tickets \subseteq Legs(mon.at)
    BY <2>1, <2>2, SiblingsAreLegs, Zenon
  <2>4. mon' = IF ~ ClassifiedHalf(mon.at, legs) THEN [[mon EXCEPT !.wanted = W] EXCEPT !.pc = "sl"]
               ELSE IF channel_flags(mon.at) THEN [[mon EXCEPT !.wanted = W] EXCEPT !.pc = "positions"]
               ELSE Advance(mon, mon.at)
    BY <2>1, Zenon
  <2> HIDE DEF W
  <2>5. CASE mon' = [[mon EXCEPT !.wanted = W] EXCEPT !.pc = "sl"]
    <3>1. mon'.pc = "sl" /\ mon'.at = mon.at
      BY <1>0, <2>5, Zenon DEF MonType
    <3> QED
      BY <2>2, <3>1, Zenon DEF MonitorMove
  <2>6. CASE /\ ClassifiedHalf(mon.at, legs) /\ channel_flags(mon.at)
             /\ mon' = [[mon EXCEPT !.wanted = W] EXCEPT !.pc = "positions"]
    <3>1. mon'.pc = "positions" /\ mon'.at = mon.at /\ mon'.wanted = W
      BY <1>0, <2>6, Zenon DEF MonType
    <3>2. legs = sibling_order_rows(mon.at)
      BY <2>1, <2>6, Zenon DEF ClassifiedHalf
    <3>3. HalfLeg(mon.at)
      BY <2>2, <2>6, <3>2, ClassifiedIsHalf, Zenon
    <3>4. Channel[mon.at[1]] \in BreakevenOn
      BY <2>6, Zenon DEF channel_flags
    <3> QED
      BY <2>2, <2>3, <3>1, <3>3, <3>4, Zenon DEF MonitorMove
  <2> QED
    BY <1>2, <2>4, <2>5, <2>6, Zenon
<1>6. CASE ListSiblings
  <2>1. PICK wanted \in {sibling_broker_order_ids(mon.at), {}} :
           LET plan == {k \in wanted \cap Tickets : book[k] = "pending"}
           IN mon' = IF plan = {} THEN Advance(mon, mon.at)
                     ELSE [mon EXCEPT !.pc = "cancel", !.plan = [k \in plan |-> take[k]]]
    BY <1>6, Zenon DEF ListSiblings
  <2>2. mon.pc = "sl" /\ mon.at \in Tickets
    BY <1>0, <1>6, Zenon DEF ListSiblings, MonType
  <2> DEFINE P == {k \in wanted \cap Tickets : book[k] = "pending"}
             f == [k \in P |-> take[k]]
  <2>3. P \subseteq Legs(mon.at)
    BY <2>1, <2>2, SiblingsAreLegs DEF sibling_broker_order_ids
  <2>4. DOMAIN f = P
    BY Zenon
  <2>5. mon' = Advance(mon, mon.at) \/ mon' = [mon EXCEPT !.pc = "cancel", !.plan = f]
    BY <2>1, Zenon
  <2> HIDE DEF f, P
  <2>6. CASE mon' = [mon EXCEPT !.pc = "cancel", !.plan = f]
    <3>1. mon'.pc = "cancel" /\ mon'.at = mon.at /\ mon'.plan = f
      BY <1>0, <2>6, Zenon DEF MonType
    <3> QED
      BY <2>2, <2>3, <2>4, <3>1, Zenon DEF MonitorMove
  <2> QED
    BY <1>2, <2>5, <2>6, Zenon
<1>7. CASE ListPositions
  <2> DEFINE P == mon.wanted \cap OpenPositions
             f == [k \in P |-> take[k]]
  <2>1. mon' = Advance(mon, mon.at) \/ mon' = [mon EXCEPT !.pc = "breakeven", !.plan = f]
    BY <1>7, Zenon DEF ListPositions
  <2>2. mon.pc = "positions" /\ DOMAIN f \subseteq mon.wanted \cap Tickets
    BY <1>7, Zenon DEF ListPositions, OpenPositions
  <2> HIDE DEF f, P
  <2>3. CASE mon' = [mon EXCEPT !.pc = "breakeven", !.plan = f]
    <3>1. mon'.pc = "breakeven" /\ mon'.at = mon.at /\ mon'.plan = f
      BY <1>0, <2>3, SMTT(30) DEF MonType
    <3> QED
      BY <2>2, <3>1, Zenon DEF MonitorMove
  <2> QED
    BY <1>2, <2>1, <2>3, Zenon
<1>8. ASSUME NEW k \in Tickets, CancelOne(k) \/ BreakevenOne(k)
      PROVE  MonitorMove
  <2>1. mon' = Done(k) /\ mon.pc \in {"cancel", "breakeven"}
    BY <1>8, Zenon DEF CancelOne, BreakevenOne
  <2>2. \/ mon' = Advance(mon, mon.at)
        \/ mon'.pc = mon.pc /\ mon'.at = mon.at /\ DOMAIN mon'.plan \subseteq DOMAIN mon.plan
    BY <1>0, <2>1, DoneStep
  <2> QED
    BY <1>2, <2>1, <2>2, Zenon DEF MonitorMove
<1>9. CASE Session
  BY Zenon, <1>9, <1>1 DEF Session, ExecuteMarket, ExecutePending, StartWalk, WalkOne, WalkFails, WalkEnds,
                    ReverseOpens, SendFill, record_order
<1>10. CASE Environment
  BY <1>10, <1>1, <1>3, Zenon DEF Environment, Trigger, Resolve
<1>11. CASE Monitor
  BY <1>11, <1>3, <1>4, <1>5, <1>6, <1>7, <1>8, Zenon DEF Monitor
<1> QED
  BY <1>1, <1>9, <1>10, <1>11, Zenon DEF Next, vars

\* A position that has closed stays as it closed.
LEMMA ClosedStays ==
    ASSUME TypeOK, Fresh, [Next]_vars, NEW k \in Tickets, book[k] \in Closed
    PROVE  book'[k] = book[k]
  BY BookStep, Zenon DEF BookMove, Closed

\* The position the monitor is at has closed as its place says, and its plan holds
\* legs of that position's message only.
LEMMA MonitorKnowsStep ==
    ASSUME TypeOK, Fresh, OwnTickets, MonitorKnows, [Next]_vars
    PROVE  MonitorKnows'
<1>1. MonType /\ MonType'
  BY Zenon, TypeStep DEF TypeOK
<1>2. \A k \in Tickets : book[k] \in Closed => book'[k] = book[k]
  BY ClosedStays, Zenon
<1>3. ASSUME NEW k \in Tickets, book[k] \in {"tp", "sl"}
      PROVE  book'[k] = book[k]
  BY <1>2, <1>3, Zenon DEF Closed
<1>4. MonitorMove
  BY MonitorMoves, Zenon
<1> QED
  BY <1>1, <1>3, <1>4, Zenon DEF MonitorMove, MonitorKnows, MonType

\* One-cancels-other withdraws legs of the message it is about.
LEMMA WithdrawnStep ==
    ASSUME TypeOK, Fresh, MonitorKnows, WithdrawnAfterResolution, [Next]_vars
    PROVE  WithdrawnAfterResolution'
<1> SUFFICES ASSUME NEW j \in Tickets, book'[j] = "removed"
             PROVE  \E k \in Legs(j) : book'[k] \in {"tp", "sl"}
  BY SMTT(30) DEF WithdrawnAfterResolution
<1>1. PICK k \in Legs(j) : book[k] \in {"tp", "sl"}
  <2>1. CASE book[j] = "removed"
    BY <2>1, Zenon DEF WithdrawnAfterResolution
  <2>2. CASE mon.pc = "cancel" /\ j \in DOMAIN mon.plan
    <3>1. mon.at \in Tickets /\ j \in Legs(mon.at) /\ book[mon.at] \in {"tp", "sl"}
      BY Zenon, <2>2 DEF MonitorKnows, TypeOK, MonType
    <3> QED
      BY <3>1, LegsSymmetric, Zenon
  <2> QED
    BY <2>1, <2>2, BookStep, Zenon DEF BookMove, Closed
<1>2. k \in Tickets /\ book'[k] = book[k]
  BY <1>1, ClosedStays, Zenon DEF Legs, Closed
<1> QED
  BY <1>1, <1>2, Zenon

\* A reason for a breakeven move stays one.
LEMMA JustifiedStays ==
    ASSUME TypeOK, Fresh, [Next]_vars, NEW j \in Tickets, Justified(j)
    PROVE  Justified(j)'
<1>1. PICK k \in Legs(j) : book[k] = "tp" /\ HalfLeg(k) /\ Channel[k[1]] \in BreakevenOn
  BY Zenon DEF Justified
<1>2. k \in Tickets /\ book'[k] = "tp"
  BY <1>1, ClosedStays, Zenon DEF Legs, Closed
<1> QED
  BY <1>1, <1>2, Zenon DEF Justified

\* Only an amendment and the monitor's breakeven move write a stop.
LEMMA StopStep ==
    ASSUME TypeOK, [Next]_vars, NEW j \in Tickets
    PROVE  \/ stop'[j] = stop[j]
           \/ stop'[j] = "amended"
           \/ sess.pc = "walk" /\ j \in DOMAIN sess.todo /\ stop'[j] = sess.todo[j].stop
           \/ mon.pc = "breakeven" /\ j \in DOMAIN mon.plan /\ stop'[j] = "entry"
<1>0. stop \in [Tickets -> Stops]
  BY Zenon DEF TypeOK
<1>1. ASSUME NEW k \in Tickets, WalkOne(k), AmendOne(k)
      PROVE  \/ stop'[j] = stop[j]
             \/ stop'[j] = "amended"
             \/ sess.pc = "walk" /\ j \in DOMAIN sess.todo /\ stop'[j] = sess.todo[j].stop
  BY <1>0, <1>1, Zenon DEF WalkOne, AmendOne
<1>2. ASSUME NEW k \in Tickets, BreakevenOne(k)
      PROVE  \/ stop'[j] = stop[j]
             \/ mon.pc = "breakeven" /\ j \in DOMAIN mon.plan /\ stop'[j] = "entry"
  BY <1>0, <1>2, SMTT(30) DEF BreakevenOne
<1>3. CASE Session
  <2>1. CASE \E t \in Traces : ExecuteMarket(t) \/ ExecutePending(t) \/ StartWalk(t)
    BY Zenon, <2>1 DEF ExecuteMarket, ExecutePending, StartWalk, broker
  <2>2. CASE \E k \in Tickets : WalkOne(k)
    BY Zenon, <2>2, <1>1 DEF WalkOne, CloseOne
  <2>3. CASE \E k \in Tickets : WalkFails(k)
    BY <2>3, Zenon DEF WalkFails, broker
  <2>4. CASE WalkEnds \/ ReverseOpens \/ SendFill \/ record_order
    BY <2>4, Zenon DEF WalkEnds, ReverseOpens, SendFill, record_order, broker
  <2> QED
    BY <1>3, <2>1, <2>2, <2>3, <2>4, Zenon DEF Session
<1>4. CASE Monitor
  BY Zenon, <1>4, <1>2 DEF Monitor, Poll, ClassifyTP, ListSiblings, ListPositions, record_closed_trade,
                    CancelOne, broker
<1>5. CASE Environment
  BY <1>5, Zenon DEF Environment, Trigger, Resolve, Restart, broker
<1> QED
  BY <1>3, <1>4, <1>5, Zenon DEF Next, vars

\* A stop comes to the entry only by the breakeven rule, or by an amendment that
\* sends back the stop it had read.
LEMMA BreakevenStep ==
    ASSUME TypeOK, Fresh, MonitorKnows, CarriedStops, BreakevenJustified, [Next]_vars
    PROVE  BreakevenJustified'
<1> SUFFICES ASSUME NEW j \in Tickets, stop'[j] = "entry"
             PROVE  Justified(j)'
  BY Zenon DEF BreakevenJustified, Justified
<1>1. CASE stop[j] = "entry"
  BY <1>1, JustifiedStays, Zenon DEF BreakevenJustified, Justified
<1>2. CASE sess.pc = "walk" /\ j \in DOMAIN sess.todo /\ stop'[j] = sess.todo[j].stop
  BY <1>2, JustifiedStays, Zenon DEF CarriedStops
<1>3. CASE mon.pc = "breakeven" /\ j \in DOMAIN mon.plan
  <2>1. /\ mon.at \in Tickets /\ j \in Legs(mon.at) /\ book[mon.at] = "tp"
        /\ HalfLeg(mon.at) /\ Channel[mon.at[1]] \in BreakevenOn
    BY Zenon, <1>3 DEF MonitorKnows, TypeOK, MonType
  <2>2. mon.at \in Legs(j)
    BY <2>1, LegsSymmetric, Zenon
  <2> QED
    BY <2>1, <2>2, JustifiedStays, Zenon DEF Justified
<1> QED
  BY <1>1, <1>2, <1>3, StopStep, Zenon

\* A walk's list is read once, when it starts, and only shrinks.
LEMMA TodoStep ==
    ASSUME TypeOK, [Next]_vars, sess'.pc = "walk", NEW k \in DOMAIN sess'.todo
    PROVE  \/ /\ sess.pc = "walk" /\ sess'.job = sess.job
              /\ k \in DOMAIN sess.todo /\ sess'.todo[k] = sess.todo[k]
           \/ /\ sess'.todo[k] = [stop |-> stop[k], take |-> take[k]]
              /\ UNCHANGED <<stop, take>>
<1> DEFINE Goal == \/ /\ sess.pc = "walk" /\ sess'.job = sess.job
                      /\ k \in DOMAIN sess.todo /\ sess'.todo[k] = sess.todo[k]
                   \/ /\ sess'.todo[k] = [stop |-> stop[k], take |-> take[k]]
                      /\ UNCHANGED <<stop, take>>
<1>1. ASSUME NEW t \in Traces, StartWalk(t)
      PROVE  Goal
  <2>1. PICK cmd \in Cmd[t] \cap {"close", "reverse", "amend"} :
            sess' = [Idle EXCEPT !.pc = "walk", !.job = t, !.cmd = cmd,
                      !.todo = [j \in Scope(t, cmd) |-> [stop |-> stop[j], take |-> take[j]]]]
    BY Zenon, <1>1 DEF StartWalk
  <2>2. sess'.todo = [j \in Scope(t, cmd) |-> [stop |-> stop[j], take |-> take[j]]]
    BY <2>1, SMTT(30) DEF Idle
  <2> QED
    BY <1>1, <2>2, Zenon DEF StartWalk, broker
<1>2. ASSUME NEW j \in Tickets, WalkOne(j)
      PROVE  Goal
  <2>1. sess'.todo = Without(sess.todo, j) /\ sess.pc = "walk" /\ sess'.job = sess.job
    BY Zenon, <1>2 DEF WalkOne, TypeOK, SessType
  <2> QED
    BY <2>1, Zenon DEF Without
<1>3. CASE UNCHANGED sess
  BY <1>3, Zenon
<1>4. ASSUME NEW t, NEW i, NEW status, sess' = Result(t, i, status)
      PROVE  FALSE
  BY <1>4, Zenon DEF Result, Idle
<1>5. sess' # Idle
  BY SMTT(30) DEF Idle
<1>6. CASE Session
  <2>1. ~ (\E t \in Traces : ExecuteMarket(t) \/ ExecutePending(t))
    BY <1>4, ZenonT(40) DEF ExecuteMarket, ExecutePending
  <2>2. ~ (\E j \in Tickets : WalkFails(j))
    BY <1>4, Zenon DEF WalkFails
  <2>3. ~ (WalkEnds \/ ReverseOpens)
    BY <1>4 DEF WalkEnds, ReverseOpens
  <2>4. ~ record_order
    BY <1>5, Zenon DEF record_order
  <2>5. ~ SendFill
    <3>1. SUFFICES ASSUME sess' = [sess EXCEPT !.pc = "record"] PROVE FALSE
      BY <1>5, Zenon DEF SendFill
    <3> QED
      BY <3>1, Zenon DEF TypeOK, SessType
  <2> QED
    BY <1>6, <2>1, <2>2, <2>3, <2>4, <2>5, <1>1, <1>2, SMTT(30) DEF Session
<1>7. CASE Monitor
  BY Zenon, <1>7, <1>3 DEF Monitor, Poll, ClassifyTP, ListSiblings, ListPositions, record_closed_trade,
                    CancelOne, BreakevenOne
<1>8. CASE Environment
  BY <1>8, <1>3, <1>5, Zenon DEF Environment, Trigger, Resolve, Restart
<1> QED
  BY <1>3, <1>6, <1>7, <1>8, Zenon DEF Next, vars

\* The stops a walk has read and may send again were justified when it read them.
LEMMA CarriedStopsStep ==
    ASSUME TypeOK, Fresh, CarriedStops, BreakevenJustified, [Next]_vars
    PROVE  CarriedStops'
<1> SUFFICES ASSUME sess'.pc = "walk", NEW k \in DOMAIN sess'.todo, sess'.todo[k].stop = "entry"
             PROVE  Justified(k)'
  BY Zenon DEF CarriedStops
<1>1. k \in Tickets
  BY Zenon, TypeStep DEF TypeOK, SessType
<1>2. Justified(k)
  <2>1. CASE sess.pc = "walk" /\ k \in DOMAIN sess.todo /\ sess'.todo[k] = sess.todo[k]
    BY <2>1, Zenon DEF CarriedStops
  <2>2. CASE sess'.todo[k] = [stop |-> stop[k], take |-> take[k]]
    <3>1. stop[k] = "entry"
      BY <2>2
    <3> QED
      BY Zenon, <1>1, <3>1 DEF BreakevenJustified, Justified
  <2> QED
    BY <2>1, <2>2, TodoStep, Zenon
<1> QED
  BY <1>1, <1>2, JustifiedStays, Zenon

-----------------------------------------------------------------------------
(* Closed trades are true, and one-cancels-other is complete, when no call fails. *)

\* A fault leaves the count above zero.
LEMMA NoFault ==
    ASSUME TypeOK, [Next]_vars, faults' = 0
    PROVE  faults = 0 /\ ~ Fault
<1>1. faults \in Nat
  BY Zenon DEF TypeOK
<1>2. UNCHANGED faults \/ Fault
  BY Zenon DEF Next, Session, Monitor, Environment, ExecuteMarket, ExecutePending, StartWalk,
     WalkOne, WalkFails, WalkEnds, ReverseOpens, SendFill, record_order, Poll, ClassifyTP, ListSiblings,
     ListPositions, record_closed_trade, CancelOne, BreakevenOne, Trigger, Resolve, Restart, vars
<1> QED
  BY <1>1, <1>2 DEF Fault

\* The monitor's lists come from the open positions; without a fault, what has left
\* them is no longer open.
LEMMA MonitorLists ==
    ASSUME TypeOK, [Next]_vars
    PROVE  /\ mon'.known \cup mon'.current \subseteq mon.known \cup mon.current \cup OpenPositions
           /\ faults' = 0 => mon'.gone \subseteq mon.gone \cup (mon.known \ OpenPositions)
<1> DEFINE Goal == /\ mon'.known \cup mon'.current \subseteq mon.known \cup mon.current \cup OpenPositions
                   /\ faults' = 0 => mon'.gone \subseteq mon.gone \cup (mon.known \ OpenPositions)
<1>0. MonType
  BY Zenon DEF TypeOK
<1>1. CASE mon'.known = mon.known /\ mon'.current = mon.current /\ mon'.gone = mon.gone
  BY <1>1, SMTT(30)
<1>2. ASSUME NEW k, mon' = Advance(mon, k)
      PROVE  Goal
  BY <1>0, <1>2, AdvanceStep, Zenon
<1>3. CASE Restart
  BY <1>3, Zenon DEF Restart, NewMonitor
<1>4. CASE Poll
  <2>1. PICK current \in {OpenPositions, {}} :
           LET gone == IF mon.fresh THEN {} ELSE mon.known \ current
           IN /\ IF current = OpenPositions THEN UNCHANGED faults ELSE Fault
              /\ mon' = IF gone = {}
                        THEN [mon EXCEPT !.fresh = FALSE, !.known = current]
                        ELSE [mon EXCEPT !.pc = "gone", !.gone = gone, !.current = current]
    BY <1>4, Zenon DEF Poll
  <2>2. faults' = 0 => current = OpenPositions
    BY <2>1, NoFault, Zenon
  <2>3. PICK gone \in {{}, mon.known \ current} :
           mon' = IF gone = {}
                  THEN [mon EXCEPT !.fresh = FALSE, !.known = current]
                  ELSE [mon EXCEPT !.pc = "gone", !.gone = gone, !.current = current]
    BY <2>1, Zenon
  <2>4. CASE mon' = [mon EXCEPT !.fresh = FALSE, !.known = current]
    <3>1. mon'.known = current /\ mon'.current = mon.current /\ mon'.gone = mon.gone
      BY <1>0, <2>4, Zenon DEF MonType
    <3> QED
      BY <2>1, <3>1, Zenon
  <2>5. CASE mon' = [mon EXCEPT !.pc = "gone", !.gone = gone, !.current = current]
    <3>1. mon'.known = mon.known /\ mon'.current = current /\ mon'.gone = gone
      BY <1>0, <2>5, Zenon DEF MonType
    <3> QED
      BY <2>1, <2>2, <2>3, <3>1, Zenon
  <2> QED
    BY <2>3, <2>4, <2>5, Zenon
<1>5. ASSUME NEW k \in Tickets, record_closed_trade(k)
      PROVE  Goal
  <2>1. PICK why : mon' = IF why \in {"tp", "sl"} THEN [mon EXCEPT !.pc = why, !.at = k]
                          ELSE Advance(mon, k)
    BY Zenon, <1>5 DEF record_closed_trade
  <2>2. CASE mon' = [mon EXCEPT !.pc = why, !.at = k]
    BY <1>0, <1>1, <2>2, Zenon DEF MonType
  <2> QED
    BY <1>2, <2>1, <2>2, Zenon
<1>6. CASE ClassifyTP
  <2>1. PICK w : \/ mon' = [[mon EXCEPT !.wanted = w] EXCEPT !.pc = "sl"]
                 \/ mon' = [[mon EXCEPT !.wanted = w] EXCEPT !.pc = "positions"]
                 \/ mon' = Advance(mon, mon.at)
    <3>1. PICK legs \in {sibling_order_rows(mon.at), {}} :
             LET seen == [mon EXCEPT !.wanted = {rows[t].ticket : t \in legs} \ {mon.at}]
             IN mon' = IF ~ ClassifiedHalf(mon.at, legs) THEN [seen EXCEPT !.pc = "sl"]
                       ELSE IF channel_flags(mon.at) THEN [seen EXCEPT !.pc = "positions"]
                       ELSE Advance(mon, mon.at)
      BY <1>6, Zenon DEF ClassifyTP
    <3> QED
      BY Zenon, <3>1
  <2>2. CASE \/ mon' = [[mon EXCEPT !.wanted = w] EXCEPT !.pc = "sl"]
             \/ mon' = [[mon EXCEPT !.wanted = w] EXCEPT !.pc = "positions"]
    BY Zenon, <1>0, <1>1, <2>2 DEF MonType
  <2> QED
    BY <1>2, <2>1, <2>2, Zenon
<1>7. CASE ListSiblings \/ ListPositions
  <2>1. PICK p, pc : \/ mon' = [mon EXCEPT !.pc = pc, !.plan = p]
                     \/ mon' = Advance(mon, mon.at)
    BY Zenon, <1>7 DEF ListSiblings, ListPositions
  <2>2. CASE mon' = [mon EXCEPT !.pc = pc, !.plan = p]
    BY <1>0, <1>1, <2>2, SMTT(30) DEF MonType
  <2> QED
    BY <1>2, <2>1, <2>2, Zenon
<1>8. ASSUME NEW k \in Tickets, CancelOne(k) \/ BreakevenOne(k)
      PROVE  Goal
  <2>1. mon' = Done(k) /\ mon.pc \in {"cancel", "breakeven"}
    BY <1>8, Zenon DEF CancelOne, BreakevenOne
  <2> QED
    BY <1>0, <1>1, <1>2, <2>1, DoneStep
<1>9. CASE Session
  BY Zenon, <1>9, <1>1 DEF Session, ExecuteMarket, ExecutePending, StartWalk, WalkOne, WalkFails, WalkEnds,
                    ReverseOpens, SendFill, record_order
<1>10. CASE Environment
  BY <1>10, <1>1, <1>3, Zenon DEF Environment, Trigger, Resolve
<1>11. CASE Monitor
  BY <1>11, <1>4, <1>5, <1>6, <1>7, <1>8, Zenon DEF Monitor
<1> QED
  BY <1>1, <1>9, <1>10, <1>11, Zenon DEF Next, vars

\* The monitor's lists hold positions that are or were open; those it is about to
\* record have closed, when no call failed.
LEMMA ListsSeenStep ==
    ASSUME TypeOK, Fresh, ListsSeen, [Next]_vars
    PROVE  ListsSeen'
<1>1. mon.known \subseteq Tickets /\ mon.current \subseteq Tickets /\ mon.gone \subseteq Tickets
  BY Zenon DEF TypeOK, MonType
<1>2. ASSUME NEW k \in mon'.known \cup mon'.current
      PROVE  book'[k] \in Closed \cup {"open"}
  <2>1. k \in Tickets /\ book[k] \in Closed \cup {"open"}
    BY <1>1, MonitorLists, Zenon DEF ListsSeen, OpenPositions
  <2> QED
    BY <2>1, BookStep, Zenon DEF BookMove, Closed
<1>3. ASSUME faults' = 0, NEW k \in mon'.gone
      PROVE  book'[k] \in Closed
  <2>1. faults = 0
    BY <1>3, NoFault, Zenon
  <2>2. k \in Tickets /\ book[k] \in Closed
    BY <1>1, <1>3, <2>1, MonitorLists, Zenon DEF ListsSeen, OpenPositions
  <2> QED
    BY <2>2, ClosedStays, Zenon
<1> QED
  BY <1>2, <1>3, Zenon DEF ListsSeen

\* Without a failed call the monitor records a position's own reason, for one that
\* has closed, and goes on to one-cancels-other after a target or a stop.
LEMMA RecordMove ==
    ASSUME TypeOK, ListsSeen, [Next]_vars, faults' = 0, NEW k \in Tickets, record_closed_trade(k)
    PROVE  /\ mon.pc = "gone" /\ k \in mon.gone /\ book[k] \in Closed
           /\ trades'[k] = book[k]
           /\ \A j \in Tickets \ {k} : trades'[j] = trades[j]
           /\ mon' = IF book[k] \in {"tp", "sl"} THEN [mon EXCEPT !.pc = book[k], !.at = k]
                     ELSE Advance(mon, k)
<1>0. trades \in [Tickets -> Closed \cup {"none", "unknown"}] /\ faults = 0 /\ ~ Fault
  BY NoFault, Zenon DEF TypeOK
<1>1. mon.pc = "gone" /\ k \in mon.gone /\ book[k] \in Closed
  BY <1>0, Zenon DEF record_closed_trade, ListsSeen
<1>2. /\ trades' = [trades EXCEPT ![k] = book[k]]
      /\ mon' = IF book[k] \in {"tp", "sl"} THEN [mon EXCEPT !.pc = book[k], !.at = k]
                ELSE Advance(mon, k)
  <2>1. PICK read, saved \in BOOLEAN :
           LET why == IF read /\ book[k] \in Closed THEN book[k] ELSE "unknown"
           IN /\ IF read /\ saved THEN UNCHANGED faults ELSE Fault
              /\ trades' = IF saved THEN [trades EXCEPT ![k] = why] ELSE trades
              /\ mon' = IF why \in {"tp", "sl"}
                        THEN [mon EXCEPT !.pc = why, !.at = k]
                        ELSE Advance(mon, k)
    BY Zenon DEF record_closed_trade
  <2> QED
    BY <1>0, <1>1, <2>1, Zenon
<1> QED
  BY <1>0, <1>1, <1>2, Zenon

\* A closed_trades row tells how the position ended (record_closed_trade).
LEMMA TradesTrueStep ==
    ASSUME TypeOK, Fresh, ListsSeen, TradesTrue, [Next]_vars
    PROVE  TradesTrue'
<1> SUFFICES ASSUME faults' = 0, NEW k \in Tickets, trades'[k] # "none"
             PROVE  trades'[k] = book'[k] /\ book'[k] \in Closed
  BY Zenon DEF TradesTrue
<1>1. faults = 0
  BY NoFault, Zenon
<1>2. trades'[k] = book[k] /\ book[k] \in Closed
  <2>1. CASE trades' = trades
    BY <1>1, <2>1, Zenon DEF TradesTrue
  <2>2. CASE \E j \in Tickets : record_closed_trade(j)
    BY Zenon, <1>1, <2>2, RecordMove DEF TradesTrue
  <2>3. CASE Next /\ ~ (\E j \in Tickets : record_closed_trade(j))
    BY ZenonT(40), <2>1, <2>3 DEF Next, Session, Monitor, Environment, ExecuteMarket, ExecutePending, StartWalk,
       WalkOne, WalkFails, WalkEnds, ReverseOpens, SendFill, record_order, Poll, ClassifyTP, ListSiblings,
       ListPositions, CancelOne, BreakevenOne, Trigger, Resolve, Restart, store
  <2> QED
    BY <2>1, <2>2, <2>3, Zenon DEF vars
<1> QED
  BY <1>2, ClosedStays, Zenon

\* peers is written only when a position closes, with the resting legs its message's
\* rows name.
LEMMA PeersStep ==
    ASSUME TypeOK, [Next]_vars, NEW k \in Tickets
    PROVE  \/ peers'[k] = peers[k]
           \/ /\ book[k] = "open"
              /\ peers'[k] \subseteq sibling_broker_order_ids(k) \cap Tickets
<1>1. ASSUME NEW i \in Tickets, NEW why \in {"tp", "sl", "order"}, Resolve(i, why)
      PROVE  \/ peers'[k] = peers[k]
             \/ /\ book[k] = "open"
                /\ peers'[k] \subseteq sibling_broker_order_ids(k) \cap Tickets
  <2> DEFINE S(x) == {j \in sibling_broker_order_ids(x) \cap Tickets : book[j] = "pending"}
  <2>1. peers' = [peers EXCEPT ![i] = S(i)] /\ book[i] = "open"
    BY <1>1, Zenon DEF Resolve
  <2>2. S(k) \subseteq sibling_broker_order_ids(k) \cap Tickets
    BY Zenon
  <2>3. peers \in [Tickets -> SUBSET Tickets]
    BY Zenon DEF TypeOK
  <2> HIDE DEF S
  <2> QED
    BY <2>1, <2>2, <2>3, Zenon
<1>2. CASE Next /\ ~ (\E i \in Tickets, why \in {"tp", "sl", "order"} : Resolve(i, why))
  BY Zenon, <1>2 DEF Next, Session, Monitor, Environment, ExecuteMarket, ExecutePending, StartWalk,
     WalkOne, WalkFails, WalkEnds, ReverseOpens, SendFill, record_order, Poll, ClassifyTP, ListSiblings,
     ListPositions, record_closed_trade, CancelOne, BreakevenOne, Trigger, Restart
<1> QED
  BY <1>1, <1>2, Zenon DEF vars

\* Tickets in the rows, and those peers relates, belong to executions that are over.
LEMMA RecordedIsPastStep ==
    ASSUME TypeOK, Fresh, OwnTickets, RecordedIsPast, [Next]_vars
    PROVE  RecordedIsPast'
<1>1. ASSUME NEW t \in Opening, rows'[t].ticket \in Tickets
      PROVE  Past(rows[t].ticket)'
  <2>1. PICK k \in Tickets : k = rows'[t].ticket
    BY <1>1, Zenon
  <2>2. t \in Traces
    BY Zenon DEF Opening
  <2>3. Past(k)'
    <3>1. CASE k = rows[t].ticket
      BY <3>1, PastStays, Zenon DEF RecordedIsPast
    <3>2. CASE record_order /\ t = sess.job /\ k = sess.ticket
      <4>1. sess.pc = "record" /\ runs' = runs /\ sess'.pc = "idle"
        BY <3>2, Zenon DEF record_order, Idle
      <4>2. k = <<t, runs[t]>>
        BY <3>2, <4>1, Zenon DEF OwnTickets
      <4>3. k[1] = t /\ k[2] = runs[t]
        BY <4>2, Zenon
      <4> QED
        BY <4>1, <4>3, Zenon DEF Past
    <3> QED
      BY <2>1, <2>2, <3>1, <3>2, RowStep, Zenon
  <2> QED
    BY <2>1, <2>3, Zenon
<1>2. ASSUME NEW k \in Tickets, NEW j \in peers'[k]
      PROVE  Past(k)' /\ Past(j)' /\ j \in Legs(k)
  <2>1. CASE peers'[k] = peers[k]
    <3>1. j \in peers[k] /\ j \in Tickets
      BY Zenon, <1>2, <2>1 DEF TypeOK
    <3> QED
      BY <3>1, PastStays, Zenon DEF RecordedIsPast
  <2>2. CASE j \in sibling_broker_order_ids(k) \cap Tickets
    <3>1. PICK t \in sibling_order_rows(k) : j = rows[t].ticket /\ j # k /\ j \in Tickets
      BY <2>2, Zenon DEF sibling_broker_order_ids
    <3>2. PICK u \in Opening : rows[u].ticket = k /\ t \in Opening
      BY <3>1, Zenon DEF sibling_order_rows
    <3>3. Past(k) /\ Past(j)
      BY <3>1, <3>2, Zenon DEF RecordedIsPast
    <3> QED
      BY <3>1, <3>3, PastStays, SiblingsAreLegs, Zenon
  <2> QED
    BY <1>2, <2>1, <2>2, PeersStep, Zenon
<1>3. \A k \in Tickets : peers'[k] # {} => Past(k)'
  BY <1>2, Zenon
<1> QED
  BY <1>1, <1>2, <1>3, Zenon DEF RecordedIsPast

\* The rows never come to name a ticket whose execution was over already.
LEMMA NamedBefore ==
    ASSUME TypeOK, OwnTickets, [Next]_vars, NEW k \in Tickets, Past(k), Named(k)'
    PROVE  Named(k)
<1>1. k[1] \in Opening /\ k[1] \in Traces /\ k[2] \in Nat /\ runs[k[1]] \in Nat
  BY TicketFacts, RunsAreNat, Zenon
<1>2. rows'[k[1]].ticket = k
  BY Zenon DEF Named
<1>3. ~ (record_order /\ k[1] = sess.job /\ k = sess.ticket)
  <2>1. SUFFICES ASSUME record_order, k[1] = sess.job, k = sess.ticket
                 PROVE  FALSE
    BY Zenon
  <2>2. sess.pc = "record"
    BY <2>1, Zenon DEF record_order
  <2>3. k = <<sess.job, runs[sess.job]>>
    BY <1>1, <2>1, <2>2, Zenon DEF OwnTickets
  <2>4. k[2] = runs[k[1]]
    BY <2>1, <2>3, SMTT(30)
  <2> QED
    BY <1>1, <2>1, <2>2, <2>4 DEF Past
<1> QED
  BY <1>1, <1>2, <1>3, RowStep, Zenon DEF Named

\* An order of an execution that is over never comes to rest anew.
LEMMA PendingBefore ==
    ASSUME TypeOK, Fresh, [Next]_vars, NEW j \in Tickets, Past(j), book'[j] = "pending"
    PROVE  book[j] = "pending"
  BY BookStep, Zenon DEF BookMove, Closed

\* When nothing fails, every resting leg the rows name is withdrawn before the
\* monitor leaves the position (_cancel_siblings_after_close).
LEMMA CancelsAllStep ==
    ASSUME TypeOK, Fresh, OwnTickets, MonitorKnows, ListsSeen, TradesTrue, RecordedIsPast, CancelsAll,
           [Next]_vars
    PROVE  CancelsAll'
<1> SUFFICES ASSUME faults' = 0
             PROVE  /\ \A k \in Tickets \ {mon'.at} : Due(k)' /\ Named(k)' => Resolved(k)'
                    /\ mon'.pc = "cancel" /\ Named(mon.at)' =>
                          \A j \in peers'[mon'.at] :
                              Named(j)' /\ book'[j] = "pending" => j \in DOMAIN mon'.plan
  BY Zenon DEF CancelsAll
<1> DEFINE Rest == \A k \in Tickets \ {mon'.at} : Due(k)' /\ Named(k)' => Resolved(k)'
           Plan == mon'.pc = "cancel" /\ Named(mon.at)' =>
                      \A j \in peers'[mon'.at] :
                          Named(j)' /\ book'[j] = "pending" => j \in DOMAIN mon'.plan
<1>0. faults = 0 /\ ~ Fault /\ MonType
  BY Zenon, NoFault DEF TypeOK
\* What is resolved stays so, and so does what is not due.
<1>1. ASSUME NEW k \in Tickets, k # mon.at, Due(k)', Named(k)', trades'[k] = trades[k]
      PROVE  Resolved(k)'
  <2>1. SUFFICES ASSUME NEW j \in peers'[k], Named(j)', book'[j] = "pending"
                 PROVE  FALSE
    BY Zenon DEF Resolved
  <2>2. Due(k)
    BY <1>1, Zenon DEF Due
  <2>3. peers'[k] = peers[k]
    <3>1. book[k] # "open"
      BY <1>0, <2>2, Zenon DEF TradesTrue, Due, Closed
    <3> QED
      BY <3>1, PeersStep, Zenon
  <2>4. j \in Tickets /\ Past(k) /\ Past(j)
    BY Zenon, <2>1, <2>3 DEF RecordedIsPast, TypeOK
  <2>5. Named(k) /\ Named(j) /\ book[j] = "pending"
    BY Zenon, <1>1, <2>1, <2>4, NamedBefore, PendingBefore
  <2> QED
    BY Zenon, <1>0, <1>1, <2>1, <2>2, <2>3, <2>5 DEF CancelsAll, Resolved
\* The peers of the position the monitor is at do not change under it.
<1>2. ASSUME mon.at \in Tickets, book[mon.at] \in {"tp", "sl"}, Named(mon.at),
             NEW j \in peers'[mon.at], Named(j)', book'[j] = "pending"
      PROVE  j \in peers[mon.at] /\ j \in Tickets /\ j \in Legs(mon.at) /\ Named(j) /\ book[j] = "pending"
  <2>1. peers'[mon.at] = peers[mon.at]
    BY <1>2, PeersStep, Zenon
  <2>2. j \in Tickets /\ Past(j) /\ j \in Legs(mon.at)
    BY Zenon, <1>2, <2>1 DEF RecordedIsPast, TypeOK
  <2> QED
    BY <1>2, <2>1, <2>2, NamedBefore, PendingBefore, Zenon
\* A position with a resting peer was named already.
<1>3. ASSUME mon.at \in Tickets, book[mon.at] \in {"tp", "sl"}, NEW a \in Tickets, a = mon.at, Named(a)',
             peers'[mon.at] # {}
      PROVE  Named(mon.at)
  <2>1. peers'[a] = peers[a]
    BY <1>3, PeersStep, Zenon
  <2>2. Past(a)
    BY <1>3, <2>1, SMTT(30) DEF RecordedIsPast
  <2> QED
    BY <1>3, <2>2, NamedBefore, Zenon
<1>4. CASE UNCHANGED <<mon, trades>>
  <2>1. Rest
    BY <1>1, <1>4, Zenon
  <2>2. Plan
    <3>1. SUFFICES ASSUME mon.pc = "cancel", Named(mon.at)', NEW j \in peers'[mon.at],
                          Named(j)', book'[j] = "pending"
                   PROVE  j \in DOMAIN mon.plan
      BY <1>4, Zenon
    <3>2. mon.at \in Tickets /\ book[mon.at] \in {"tp", "sl"}
      BY <1>0, <3>1, Zenon DEF MonType, MonitorKnows
    <3>3. PICK a \in Tickets : a = mon.at
      BY <3>2, Zenon
    <3>4. Named(a)'
      BY <3>1, <3>3, <1>4, Zenon DEF Named
    <3>5. Named(mon.at)
      BY <1>3, <3>1, <3>2, <3>3, <3>4, SMTT(30)
    <3>6. j \in peers[mon.at] /\ Named(j) /\ book[j] = "pending"
      BY <1>2, <3>1, <3>2, <3>5, Zenon
    <3> QED
      BY <1>0, <3>1, <3>5, <3>6, Zenon DEF CancelsAll
  <2> QED
    BY <2>1, <2>2, Zenon
\* The monitor leaves the position: it must be resolved.
<1>5. ASSUME mon' = Advance(mon, mon.at), trades' = trades, mon.at \in Tickets,
             Due(mon.at) /\ Named(mon.at) => \A j \in peers'[mon.at] : Named(j)' => book'[j] # "pending",
             book[mon.at] \in {"tp", "sl"}
      PROVE  Rest /\ Plan
  <2>1. mon'.pc \in {"poll", "gone"}
    BY <1>0, <1>5, AdvanceStep, Zenon
  <2>2. ASSUME NEW k \in Tickets, k = mon.at, Due(k)', Named(k)'
        PROVE  Resolved(k)'
    <3>1. Due(mon.at)
      BY <1>5, <2>2, Zenon DEF Due
    <3>2. CASE peers'[mon.at] = {}
      BY <2>2, <3>2, Zenon DEF Resolved
    <3>3. CASE peers'[mon.at] # {}
      <4>1. Named(mon.at)
        BY <1>3, <1>5, <2>2, <3>3, Zenon
      <4> QED
        BY <1>5, <2>2, <3>1, <4>1, Zenon DEF Resolved
    <3> QED
      BY <3>2, <3>3, SMTT(30)
  <2>3. Rest
    BY <1>1, <1>5, <2>2, Zenon
  <2> QED
    BY <2>1, <2>3, Zenon
<1>6. CASE Poll
  <2>1. mon.at = None /\ mon'.pc \in {"poll", "gone"} /\ trades' = trades
    <3>1. mon.at = None /\ trades' = trades
      BY <1>0, <1>6, Zenon DEF Poll, MonType, store
    <3>2. PICK current, gone :
             mon' = IF gone = {}
                    THEN [mon EXCEPT !.fresh = FALSE, !.known = current]
                    ELSE [mon EXCEPT !.pc = "gone", !.gone = gone, !.current = current]
      BY Zenon, <1>6 DEF Poll
    <3>3. mon.pc = "poll"
      BY <1>6, Zenon DEF Poll
    <3> QED
      BY <1>0, <3>1, <3>2, <3>3, Zenon DEF MonType
  <2> QED
    BY <1>1, <2>1, TicketFacts, Zenon
<1>7. ASSUME NEW i \in Tickets, record_closed_trade(i)
      PROVE  Rest /\ Plan
  <2>1. /\ mon.at = None /\ trades'[i] = book[i] /\ book[i] \in Closed
        /\ \A j \in Tickets \ {i} : trades'[j] = trades[j]
    BY Zenon, <1>0, <1>7, RecordMove DEF MonType
  <2>2. mon'.pc # "cancel" /\ (book[i] \in {"tp", "sl"} => mon'.at = i)
    <3>1. mon' = IF book[i] \in {"tp", "sl"} THEN [mon EXCEPT !.pc = book[i], !.at = i]
                 ELSE Advance(mon, i)
      BY Zenon, <1>7, RecordMove
    <3>2. CASE book[i] \in {"tp", "sl"}
      BY <1>0, <3>1, <3>2, Zenon DEF MonType
    <3>3. CASE book[i] \notin {"tp", "sl"}
      BY <1>0, <3>1, <3>3, AdvanceStep, Zenon
    <3> QED
      BY <3>2, <3>3, Zenon
  <2>3. Rest
    <3>1. ASSUME NEW k \in Tickets, k # mon'.at, Due(k)', Named(k)'
          PROVE  Resolved(k)'
      <4>1. k # i
        BY <2>1, <2>2, <3>1, SMTT(30) DEF Due
      <4> QED
        BY <1>1, <2>1, <3>1, <4>1, TicketFacts, Zenon
    <3> QED
      BY <3>1, Zenon
  <2> QED
    BY <2>2, <2>3, Zenon
<1>8. ASSUME mon'.at = mon.at, mon'.pc # "cancel", trades' = trades
      PROVE  Rest /\ Plan
  BY <1>1, <1>8, Zenon
\* A half leg's close is not due.
<1>9. ASSUME mon.at \in Tickets, book[mon.at] = "tp", HalfLeg(mon.at)
      PROVE  ~ Due(mon.at)
  BY <1>0, <1>9, Zenon DEF Due, TradesTrue
<1>10. CASE ClassifyTP
  <2>1. mon.pc = "tp" /\ mon.at \in Tickets /\ book[mon.at] = "tp" /\ trades' = trades
    BY <1>0, <1>10, Zenon DEF ClassifyTP, MonType, MonitorKnows, store
  <2>2. PICK legs \in {sibling_order_rows(mon.at), {}} :
           LET seen == [mon EXCEPT !.wanted = {rows[t].ticket : t \in legs} \ {mon.at}]
           IN mon' = IF ~ ClassifiedHalf(mon.at, legs) THEN [seen EXCEPT !.pc = "sl"]
                     ELSE IF channel_flags(mon.at) THEN [seen EXCEPT !.pc = "positions"]
                     ELSE Advance(mon, mon.at)
    BY <1>10, Zenon DEF ClassifyTP
  <2> DEFINE W == {rows[t].ticket : t \in legs} \ {mon.at}
  <2>3. \/ mon' = [[mon EXCEPT !.wanted = W] EXCEPT !.pc = "sl"]
        \/ mon' = [[mon EXCEPT !.wanted = W] EXCEPT !.pc = "positions"]
        \/ ClassifiedHalf(mon.at, legs) /\ mon' = Advance(mon, mon.at)
    BY <2>2, Zenon
  <2> HIDE DEF W
  <2>4. CASE \/ mon' = [[mon EXCEPT !.wanted = W] EXCEPT !.pc = "sl"]
             \/ mon' = [[mon EXCEPT !.wanted = W] EXCEPT !.pc = "positions"]
    <3>1. mon'.at = mon.at /\ mon'.pc # "cancel"
      BY <1>0, <2>4, Zenon DEF MonType
    <3> QED
      BY <1>8, <2>1, <3>1, Zenon
  <2>5. CASE ClassifiedHalf(mon.at, legs) /\ mon' = Advance(mon, mon.at)
    <3>1. HalfLeg(mon.at)
      BY <2>1, <2>2, <2>5, ClassifiedIsHalf, Zenon DEF ClassifiedHalf
    <3>2. ~ Due(mon.at)
      BY <1>9, <2>1, <3>1, Zenon
    <3> QED
      BY Zenon, <1>5, <2>1, <2>5, <3>2
  <2> QED
    BY <2>3, <2>4, <2>5, Zenon
<1>11. CASE ListPositions
  <2>1. /\ mon.pc = "positions" /\ mon.at \in Tickets /\ book[mon.at] = "tp" /\ HalfLeg(mon.at)
        /\ trades' = trades
    BY <1>0, <1>11, Zenon DEF ListPositions, MonType, MonitorKnows, store
  <2>2. PICK p : mon' = [mon EXCEPT !.pc = "breakeven", !.plan = p] \/ mon' = Advance(mon, mon.at)
    BY Zenon, <1>11 DEF ListPositions
  <2>3. CASE mon' = [mon EXCEPT !.pc = "breakeven", !.plan = p]
    <3>1. mon'.at = mon.at /\ mon'.pc # "cancel"
      BY <1>0, <2>3, Zenon DEF MonType
    <3> QED
      BY Zenon, <1>8, <2>1, <3>1
  <2> QED
    BY <1>5, <1>9, <2>1, <2>2, <2>3, Zenon
<1>12. ASSUME NEW i \in Tickets, BreakevenOne(i)
       PROVE  Rest /\ Plan
  <2>1. /\ mon.pc = "breakeven" /\ mon.at \in Tickets /\ book[mon.at] = "tp" /\ HalfLeg(mon.at)
        /\ trades' = trades /\ mon' = Done(i)
    BY <1>0, <1>12, SMTT(30) DEF BreakevenOne, MonType, MonitorKnows, store
  <2>2. mon' = Advance(mon, mon.at) \/ (mon'.pc = mon.pc /\ mon'.at = mon.at)
    BY <1>0, <2>1, DoneStep, SMTT(30)
  <2> QED
    BY Zenon, <1>5, <1>8, <1>9, <2>1, <2>2
<1>13. CASE ListSiblings
  <2>1. mon.pc = "sl" /\ mon.at \in Tickets /\ book[mon.at] \in {"tp", "sl"} /\ trades' = trades
    BY <1>0, <1>13, Zenon DEF ListSiblings, MonType, MonitorKnows, store
  <2> DEFINE P == {k \in sibling_broker_order_ids(mon.at) \cap Tickets : book[k] = "pending"}
             f == [k \in P |-> take[k]]
  <2>2. mon' = IF P = {} THEN Advance(mon, mon.at) ELSE [mon EXCEPT !.pc = "cancel", !.plan = f]
    BY Zenon, <1>0, <1>13 DEF ListSiblings
  <2>3. DOMAIN f = P
    BY Zenon
  <2>4. ASSUME Named(mon.at), NEW j \in peers'[mon.at], Named(j)', book'[j] = "pending"
        PROVE  j \in P
    <3>1. j \in Tickets /\ j \in Legs(mon.at) /\ Named(j) /\ book[j] = "pending"
      BY <1>2, <2>1, <2>4, Zenon
    <3> QED
      BY <2>1, <2>4, <3>1, NamedLegIsSibling, Zenon
  <2> HIDE DEF f, P
  <2>5. CASE P = {}
    BY <1>5, <2>1, <2>2, <2>4, <2>5, Zenon
  <2>6. CASE P # {}
    <3>1. mon'.pc = "cancel" /\ mon'.at = mon.at /\ mon'.plan = f
      BY <1>0, <2>2, <2>6, Zenon DEF MonType
    <3>2. Rest
      BY <1>1, <2>1, <3>1, SMTT(30)
    <3>3. Plan
      <4>1. SUFFICES ASSUME Named(mon.at)', NEW j \in peers'[mon.at], Named(j)', book'[j] = "pending"
                     PROVE  j \in P
        BY <2>3, <3>1, Zenon
      <4>2. PICK a \in Tickets : a = mon.at
        BY <2>1, Zenon
      <4>3. Named(a)'
        BY <3>1, <4>1, <4>2, Zenon DEF Named
      <4>4. Named(mon.at)
        BY <1>3, <2>1, <4>1, <4>2, <4>3, Zenon
      <4> QED
        BY <2>4, <4>1, <4>4, Zenon
    <3> QED
      BY <3>2, <3>3, Zenon
  <2> QED
    BY <2>5, <2>6, Zenon
<1>14. ASSUME NEW i \in Tickets, CancelOne(i)
       PROVE  Rest /\ Plan
  <2>1. /\ mon.pc = "cancel" /\ mon.at \in Tickets /\ book[mon.at] \in {"tp", "sl"}
        /\ trades' = trades /\ mon' = Done(i)
    BY <1>0, <1>14, Zenon DEF CancelOne, MonType, MonitorKnows, store
  <2>2. book'[i] # "pending"
    <3>1. book \in [Tickets -> States]
      BY Zenon DEF TypeOK
    <3> QED
      BY <1>0, <1>14, <3>1, Zenon DEF CancelOne
  <2>3. ASSUME Named(mon.at), NEW j \in peers'[mon.at], Named(j)', book'[j] = "pending"
        PROVE  j \in DOMAIN mon.plan \ {i}
    <3>1. j \in peers[mon.at] /\ Named(j) /\ book[j] = "pending"
      BY Zenon, <1>2, <2>1, <2>3
    <3> QED
      BY Zenon, <1>0, <2>1, <2>2, <2>3, <3>1 DEF CancelsAll
  <2>4. CASE mon' = Advance(mon, mon.at) /\ DOMAIN mon.plan \subseteq {i}
    BY Zenon, <1>5, <2>1, <2>3, <2>4
  <2>5. CASE mon'.pc = mon.pc /\ mon'.at = mon.at /\ DOMAIN mon'.plan = DOMAIN mon.plan \ {i}
    <3>1. Rest
      BY <1>1, <2>1, <2>5, Zenon
    <3>2. Plan
      <4>1. SUFFICES ASSUME Named(mon.at)', NEW j \in peers'[mon.at], Named(j)', book'[j] = "pending"
                     PROVE  j \in DOMAIN mon.plan \ {i}
        BY <2>5, Zenon
      <4>2. PICK a \in Tickets : a = mon.at
        BY <2>1, Zenon
      <4>3. Named(a)'
        BY <2>5, <4>1, <4>2, SMTT(30) DEF Named
      <4>4. Named(mon.at)
        BY <1>3, <2>1, <4>1, <4>2, <4>3, SMTT(30)
      <4> QED
        BY <2>3, <4>1, <4>4, Zenon
    <3> QED
      BY <3>1, <3>2, Zenon
  <2>6. \/ mon' = Advance(mon, mon.at) /\ DOMAIN mon.plan \subseteq {i}
        \/ mon'.pc = mon.pc /\ mon'.at = mon.at /\ DOMAIN mon'.plan = DOMAIN mon.plan \ {i}
    BY <1>0, <2>1, DoneStep
  <2> QED
    BY Zenon, <2>4, <2>5, <2>6
<1>15. CASE Session
  BY Zenon, <1>15, <1>4 DEF Session, ExecuteMarket, ExecutePending, StartWalk, WalkOne, WalkFails, WalkEnds,
                     ReverseOpens, SendFill, record_order, store
<1>16. CASE Environment
  BY Zenon, <1>0, <1>16, <1>4 DEF Environment, Trigger, Resolve, Restart, store
<1>17. CASE Monitor
  BY Zenon, <1>17, <1>6, <1>7, <1>10, <1>11, <1>12, <1>13, <1>14 DEF Monitor
<1> QED
  BY Zenon, <1>4, <1>15, <1>16, <1>17 DEF Next, vars

-----------------------------------------------------------------------------
(* Levels re-sent. *)

\* Only an amendment and the monitor's breakeven move write a target.
LEMMA TakeStep ==
    ASSUME TypeOK, [Next]_vars, NEW j \in Tickets
    PROVE  \/ take'[j] = take[j]
           \/ /\ sess.pc = "walk" /\ j \in DOMAIN sess.todo
              /\ \/ take'[j] = "amended" /\ sess.job \notin AmendsStop
                 \/ take'[j] = sess.todo[j].take /\ sess.job \in AmendsStop
              /\ j \notin DOMAIN sess'.todo /\ mon' = mon
           \/ /\ mon.pc = "breakeven" /\ j \in DOMAIN mon.plan /\ take'[j] = mon.plan[j]
              /\ mon'.pc = "breakeven" => j \notin DOMAIN mon'.plan
              /\ sess' = sess
<1>0. take \in [Tickets -> Takes] /\ MonType
  BY Zenon DEF TypeOK
<1>1. ASSUME NEW k \in Tickets, WalkOne(k), AmendOne(k), take'[j] # take[j]
      PROVE  /\ sess.pc = "walk" /\ j \in DOMAIN sess.todo
             /\ \/ take'[j] = "amended" /\ sess.job \notin AmendsStop
                \/ take'[j] = sess.todo[j].take /\ sess.job \in AmendsStop
             /\ j \notin DOMAIN sess'.todo /\ mon' = mon
  <2>1. j = k
    BY <1>0, <1>1, Zenon DEF AmendOne
  <2>2. sess'.todo = Without(sess.todo, k)
    BY Zenon, <1>1 DEF WalkOne, TypeOK, SessType
  <2>3. j \notin DOMAIN sess'.todo
    BY <2>1, <2>2, Zenon DEF Without
  <2> QED
    BY <1>0, <1>1, <2>1, <2>3, Zenon DEF WalkOne, AmendOne
<1>2. ASSUME NEW k \in Tickets, BreakevenOne(k), take'[j] # take[j]
      PROVE  /\ mon.pc = "breakeven" /\ j \in DOMAIN mon.plan /\ take'[j] = mon.plan[j]
             /\ mon'.pc = "breakeven" => j \notin DOMAIN mon'.plan
             /\ sess' = sess
  <2>1. j = k
    BY <1>0, <1>2, Zenon DEF BreakevenOne
  <2>2. mon' = Done(k) /\ mon.pc = "breakeven"
    BY <1>2, SMTT(30) DEF BreakevenOne
  <2>3. mon'.pc = "breakeven" => k \notin DOMAIN mon'.plan
    <3>1. CASE mon' = Advance(mon, mon.at)
      BY <1>0, <3>1, AdvanceStep, Zenon
    <3> QED
      BY <1>0, <2>2, <3>1, DoneStep
  <2> QED
    BY Zenon, <1>0, <1>2, <2>1, <2>3 DEF BreakevenOne
<1>3. CASE Session
  <2>1. CASE \E t \in Traces : ExecuteMarket(t) \/ ExecutePending(t) \/ StartWalk(t)
    BY Zenon, <2>1 DEF ExecuteMarket, ExecutePending, StartWalk, broker
  <2>2. CASE \E k \in Tickets : WalkOne(k)
    BY Zenon, <2>2, <1>1 DEF WalkOne, CloseOne
  <2>3. CASE \E k \in Tickets : WalkFails(k)
    BY Zenon, <2>3 DEF WalkFails, broker
  <2>4. CASE WalkEnds \/ ReverseOpens \/ SendFill \/ record_order
    BY <2>4, Zenon DEF WalkEnds, ReverseOpens, SendFill, record_order, broker
  <2> QED
    BY Zenon, <1>3, <2>1, <2>2, <2>3, <2>4 DEF Session
<1>4. CASE Monitor
  BY Zenon, <1>4, <1>2 DEF Monitor, Poll, ClassifyTP, ListSiblings, ListPositions, record_closed_trade,
                    CancelOne, broker
<1>5. CASE Environment
  BY Zenon, <1>5 DEF Environment, Trigger, Resolve, Restart, broker
<1> QED
  BY Zenon, <1>3, <1>4, <1>5 DEF Next, vars

\* A list of positions the monitor has keeps only entries it had, or is new and holds
\* the targets in force.
LEMMA PlanStep ==
    ASSUME TypeOK, [Next]_vars, mon'.pc = "breakeven", NEW k \in DOMAIN mon'.plan
    PROVE  \/ mon.pc = "breakeven" /\ k \in DOMAIN mon.plan /\ mon'.plan[k] = mon.plan[k]
           \/ mon'.plan[k] = take[k] /\ take' = take /\ k \in Tickets
<1>0. MonType
  BY Zenon DEF TypeOK
<1>1. CASE UNCHANGED mon
  BY <1>1, Zenon
<1>2. ASSUME NEW i, mon' = Advance(mon, i)
      PROVE  FALSE
  BY <1>0, <1>2, AdvanceStep, Zenon
<1>3. ~ Poll
  <2>1. SUFFICES ASSUME Poll PROVE FALSE
    BY Zenon
  <2>2. PICK current, gone :
           mon' = IF gone = {}
                  THEN [mon EXCEPT !.fresh = FALSE, !.known = current]
                  ELSE [mon EXCEPT !.pc = "gone", !.gone = gone, !.current = current]
    BY Zenon, <2>1 DEF Poll
  <2>3. mon.pc = "poll"
    BY <2>1, Zenon DEF Poll
  <2> QED
    BY <1>0, <2>2, <2>3, Zenon DEF MonType
<1>4. ASSUME NEW i \in Tickets, record_closed_trade(i)
      PROVE  FALSE
  <2>1. PICK why : mon' = IF why \in {"tp", "sl"} THEN [mon EXCEPT !.pc = why, !.at = i]
                          ELSE Advance(mon, i)
    BY Zenon, <1>4 DEF record_closed_trade
  <2> QED
    BY <1>0, <1>2, <2>1, Zenon DEF MonType
<1>5. ~ ClassifyTP
  <2>1. SUFFICES ASSUME ClassifyTP PROVE FALSE
    BY Zenon
  <2>2. PICK legs \in {sibling_order_rows(mon.at), {}} :
           LET seen == [mon EXCEPT !.wanted = {rows[t].ticket : t \in legs} \ {mon.at}]
           IN mon' = IF ~ ClassifiedHalf(mon.at, legs) THEN [seen EXCEPT !.pc = "sl"]
                     ELSE IF channel_flags(mon.at) THEN [seen EXCEPT !.pc = "positions"]
                     ELSE Advance(mon, mon.at)
    BY <2>1, Zenon DEF ClassifyTP
  <2>3. PICK w : \/ mon' = [[mon EXCEPT !.wanted = w] EXCEPT !.pc = "sl"]
                 \/ mon' = [[mon EXCEPT !.wanted = w] EXCEPT !.pc = "positions"]
                 \/ mon' = Advance(mon, mon.at)
    BY Zenon, <2>2
  <2> QED
    BY <1>0, <1>2, <2>3, Zenon DEF MonType
<1>6. ~ ListSiblings
  <2>1. SUFFICES ASSUME ListSiblings PROVE FALSE
    BY Zenon
  <2>2. PICK p : mon' = [mon EXCEPT !.pc = "cancel", !.plan = p] \/ mon' = Advance(mon, mon.at)
    BY Zenon, <2>1 DEF ListSiblings
  <2> QED
    BY <1>0, <1>2, <2>2, Zenon DEF MonType
<1>7. CASE ListPositions
  <2> DEFINE f == [i \in mon.wanted \cap OpenPositions |-> take[i]]
  <2>1. mon' = [mon EXCEPT !.pc = "breakeven", !.plan = f] /\ take' = take
    BY Zenon, <1>2, <1>7 DEF ListPositions, broker
  <2>2. \A i \in DOMAIN f : f[i] = take[i] /\ i \in Tickets
    BY Zenon DEF OpenPositions
  <2> HIDE DEF f
  <2>3. mon'.plan = f
    BY <1>0, <2>1, Zenon DEF MonType
  <2> QED
    BY <2>1, <2>2, <2>3, Zenon
<1>8. ASSUME NEW i \in Tickets, CancelOne(i) \/ BreakevenOne(i)
      PROVE  mon.pc = "breakeven" /\ k \in DOMAIN mon.plan /\ mon'.plan[k] = mon.plan[k]
  <2>1. mon' = Done(i) /\ mon.pc \in {"cancel", "breakeven"}
    BY <1>8, Zenon DEF CancelOne, BreakevenOne
  <2> QED
    BY <1>0, <1>2, <2>1, DoneStep
<1>9. CASE Session
  BY Zenon, <1>9, <1>1 DEF Session, ExecuteMarket, ExecutePending, StartWalk, WalkOne, WalkFails, WalkEnds,
                    ReverseOpens, SendFill, record_order
<1>10. CASE Environment
  <2>1. CASE Restart
    <3>1. mon' = NewMonitor
      BY <2>1, Zenon DEF Restart
    <3>2. mon'.pc = "poll"
      BY <3>1, SMTT(30) DEF NewMonitor
    <3> QED
      BY <3>2, Zenon
  <2> QED
    BY Zenon, <1>10, <1>1, <2>1 DEF Environment, Trigger, Resolve
<1>11. CASE Monitor
  BY <1>11, <1>3, <1>4, <1>5, <1>6, <1>7, <1>8, Zenon DEF Monitor
<1> QED
  BY Zenon, <1>1, <1>9, <1>10, <1>11 DEF Next, vars

\* The monitor and a stop amendment never bring back an older target than the one
\* they read, because each reads its list before it writes and nobody else takes an
\* amended target away.
LEMMA TakesCarriedStep ==
    ASSUME TypeOK, Fresh, MonitorKnows, TakesCarried, [Next]_vars
    PROVE  TakesCarried'
<1>1. /\ MonType /\ SessType /\ SessType'
      /\ take \in [Tickets -> Takes] /\ take' \in [Tickets -> Takes]
  BY Zenon, TypeStep DEF TypeOK
<1>2. ASSUME mon'.pc = "breakeven", NEW k \in DOMAIN mon'.plan, mon'.plan[k] = "amended"
      PROVE  take'[k] = "amended"
  <2>1. CASE mon'.plan[k] = take[k] /\ take' = take
    BY <1>2, <2>1, Zenon
  <2>2. mon.pc = "breakeven" => DOMAIN mon.plan \subseteq Tickets
    BY Zenon DEF MonitorKnows, Legs
  <2>3. CASE mon.pc = "breakeven" /\ k \in DOMAIN mon.plan /\ mon'.plan[k] = mon.plan[k] /\ k \in Tickets
    <3>1. take[k] = "amended"
      BY <1>2, <2>3, Zenon DEF TakesCarried
    <3>2. CASE take'[k] = take[k]
      BY <3>1, <3>2, Zenon
    <3>3. CASE /\ sess.pc = "walk" /\ k \in DOMAIN sess.todo
               /\ take'[k] = sess.todo[k].take /\ sess.job \in AmendsStop
      <4>1. sess.todo[k].take \in Takes
        BY <1>1, <3>3, Zenon DEF SessType
      <4>2. sess.todo[k].take # "sent"
        BY <3>1, <3>3, Zenon DEF TakesCarried
      <4> QED
        BY <3>3, <4>1, <4>2, SMTT(30) DEF Takes
    <3> QED
      BY Zenon, <1>2, <2>3, <3>1, <3>2, <3>3, TakeStep
  <2> QED
    BY <1>2, <2>1, <2>2, <2>3, PlanStep, Zenon
<1>3. ASSUME sess'.pc = "walk", sess'.job \in AmendsStop, NEW k \in DOMAIN sess'.todo,
             sess'.todo[k].take = "sent"
      PROVE  take'[k] = "sent"
  <2>1. k \in Tickets
    BY <1>1, <1>3, SMTT(30) DEF SessType
  <2>2. take[k] = "sent"
    <3>1. CASE /\ sess.pc = "walk" /\ sess'.job = sess.job
               /\ k \in DOMAIN sess.todo /\ sess'.todo[k] = sess.todo[k]
      BY <1>3, <3>1, Zenon DEF TakesCarried
    <3>2. CASE sess'.todo[k] = [stop |-> stop[k], take |-> take[k]]
      BY <1>3, <3>2
    <3> QED
      BY <1>3, <3>1, <3>2, TodoStep, SMTT(30)
  <2>3. CASE take'[k] = take[k]
    BY <2>2, <2>3, Zenon
  <2>4. CASE mon.pc = "breakeven" /\ k \in DOMAIN mon.plan /\ take'[k] = mon.plan[k]
    <3>1. mon.plan[k] \in Takes
      BY <1>1, <2>4, Zenon DEF MonType
    <3> QED
      BY <2>2, <2>4, <3>1, SMTT(30) DEF TakesCarried, Takes
  <2> QED
    BY <1>3, <2>1, <2>3, <2>4, TakeStep, SMTT(30)
<1> QED
  BY <1>2, <1>3, Zenon DEF TakesCarried

-----------------------------------------------------------------------------
(* The theorems. *)

\* The invariant holds when the executor starts.
LEMMA InitShimInv == Init => ShimInv
<1> SUFFICES ASSUME Init PROVE ShimInv
  BY SMTT(30)
<1>1. SessType
  BY SMTT(30) DEF Init, SessType, Idle, Ids
<1>2. MonType
  BY Zenon DEF Init, MonType, NewMonitor
<1>3. /\ book \in [Tickets -> States] /\ stop \in [Tickets -> Stops] /\ take \in [Tickets -> Takes]
      /\ trades \in [Tickets -> Closed \cup {"none", "unknown"}]
      /\ peers \in [Tickets -> SUBSET Tickets] /\ faults \in Nat
  BY Zenon DEF Init, States, Stops, Takes
<1>4. runs \in [Traces -> 0 .. MaxExec]
  BY ShimAssumption DEF Init
<1>5. rows \in [Traces -> [ticket : Ids, status : {"no row", "filled", "placed", "rejected"},
                           error : BOOLEAN]]
  BY Zenon DEF Init, NoRow, Ids
<1>6. sess.pc = "idle" /\ mon.pc = "poll" /\ mon.known = {} /\ mon.current = {} /\ mon.gone = {}
  BY Zenon DEF Init, Idle, NewMonitor
<1>7. TypeOK
  BY Zenon, <1>1, <1>2, <1>3, <1>4, <1>5, <1>6 DEF TypeOK
<1>8. /\ \A k \in Tickets : /\ book[k] = "none" /\ stop[k] = "sent" /\ trades[k] = "none"
                            /\ peers[k] = {}
      /\ \A t \in Traces : rows[t] = NoRow
  BY SMTT(30) DEF Init
<1>9. Fresh /\ MonitorKnows /\ CarriedStops /\ TakesCarried /\ ListsSeen
  BY <1>6, <1>8, Zenon DEF Fresh, MonitorKnows, CarriedStops, TakesCarried, ListsSeen
<1>10. WithdrawnAfterResolution /\ BreakevenJustified /\ TradesTrue
  BY <1>8, Zenon DEF WithdrawnAfterResolution, BreakevenJustified, TradesTrue
<1>11. \A t \in Opening : rows[t].ticket \notin Tickets
  <2>1. NoRow.ticket = None
    BY Zenon DEF NoRow
  <2> QED
    BY <1>8, <2>1, TicketFacts, Zenon DEF Opening
<1>12. OwnTickets /\ RecordedIsPast
  BY <1>6, <1>8, <1>11, SMTT(30) DEF OwnTickets, RecordedIsPast
<1>13. CancelsAll
  BY <1>6, <1>8, Zenon DEF CancelsAll, Due
<1> QED
  BY <1>7, <1>9, <1>10, <1>12, <1>13, Zenon DEF ShimInv

\* Every step keeps it.
LEMMA NextShimInv == ShimInv /\ [Next]_vars => ShimInv'
  BY TypeStep, OwnTicketsStep, MonitorKnowsStep, CarriedStopsStep, TakesCarriedStep, WithdrawnStep,
     BreakevenStep, ListsSeenStep, TradesTrueStep, RecordedIsPastStep, CancelsAllStep, Zenon
     DEF ShimInv

\* The inductive invariant of the executor.
THEOREM ShimInvariant == Spec => []ShimInv
  BY InitShimInv, NextShimInv, PTL DEF Spec

\* One-cancels-other never withdraws an order on account of a manual close, a close
\* command or another message, however the three actors interleave and whatever fails
\* (_cancel_siblings_after_close).
THEOREM WithdrawalsAreEarned == Spec => []WithdrawnAfterResolution
<1>1. ShimInv => WithdrawnAfterResolution
  BY Zenon DEF ShimInv
<1> QED
  BY <1>1, ShimInvariant, PTL

\* A stop at the entry always has its reason, stops re-sent by an amendment included
\* (_move_siblings_to_breakeven, modify_positions_sltp).
THEOREM BreakevenIsEarned == Spec => []BreakevenJustified
<1>1. ShimInv => BreakevenJustified
  BY Zenon DEF ShimInv
<1> QED
  BY <1>1, ShimInvariant, PTL

\* Without a failed call the closed_trades table is true (record_closed_trade).
THEOREM ClosedTradesHold == Spec => []ClosedTradesAreTrue
<1>1. ShimInv => ClosedTradesAreTrue
  BY Zenon DEF ShimInv, TradesTrue, ClosedTradesAreTrue
<1> QED
  BY <1>1, ShimInvariant, PTL

\* Without a failed call one-cancels-other leaves no resting leg behind
\* (position_monitor, cancel_pending_orders).
THEOREM ResolutionCompletes == Spec => []ResolutionIsComplete
<1>1. ShimInv => ResolutionIsComplete
  <2>1. SUFFICES ASSUME ShimInv, mon.pc = "poll", faults = 0, NEW k \in Tickets,
                        trades[k] = "sl" \/ (trades[k] = "tp" /\ ~ HalfLeg(k)),
                        rows[k[1]].ticket = k, NEW j \in peers[k], rows[j[1]].ticket = j
                 PROVE  book[j] # "pending"
    BY Zenon DEF ResolutionIsComplete
  <2>2. k # mon.at
    BY Zenon, <2>1, TicketFacts DEF ShimInv, TypeOK, MonType
  <2>3. Resolved(k)
    BY Zenon, <2>1, <2>2 DEF ShimInv, CancelsAll, Due, Named
  <2> QED
    BY <2>1, <2>3, SMTT(30) DEF Resolved, Named
<1> QED
  BY <1>1, ShimInvariant, PTL

\* A moved level goes back only by a thread that had read its list before the move
\* (modify_positions_sltp, _move_siblings_to_breakeven).
THEOREM LevelsAreKept == Spec => LevelLostOnlyToStaleList
<1>1. ShimInv /\ [Next]_vars =>
        \A k \in Tickets :
          /\ stop[k] # "sent" /\ stop'[k] = "sent" => sess.pc = "walk" /\ sess.todo[k].stop = "sent"
          /\ take[k] # "sent" /\ take'[k] = "sent" => mon.pc = "breakeven" /\ mon.plan[k] = "sent"
  <2>1. SUFFICES ASSUME ShimInv, [Next]_vars, NEW k \in Tickets
                 PROVE  /\ stop[k] # "sent" /\ stop'[k] = "sent"
                              => sess.pc = "walk" /\ sess.todo[k].stop = "sent"
                        /\ take[k] # "sent" /\ take'[k] = "sent"
                              => mon.pc = "breakeven" /\ mon.plan[k] = "sent"
    BY Zenon
  <2>2. stop[k] # "sent" /\ stop'[k] = "sent" => sess.pc = "walk" /\ sess.todo[k].stop = "sent"
    BY <2>1, StopStep, SMTT(30) DEF ShimInv
  <2>3. take[k] # "sent" /\ take'[k] = "sent" => mon.pc = "breakeven" /\ mon.plan[k] = "sent"
    BY <2>1, TakeStep, Zenon DEF ShimInv, TakesCarried
  <2> QED
    BY <2>2, <2>3, Zenon
<1> QED
  BY <1>1, ShimInvariant, PTL DEF Spec, LevelLostOnlyToStaleList
=============================================================================
