------------------------ MODULE SignalDeliveryProofs ------------------------
(***************************************************************************)
(* Proofs about SignalDelivery, for any instances, connections, signals    *)
(* and subscriptions and any delivery limit: acked signals were written to *)
(* a connection of their own instance, only exhausted or undecodable       *)
(* signals are terminated, and a signal is executed at most as often as    *)
(* the delivery limit says.                                                *)
(*                                                                         *)
(* For the last one: every execution, every copy on a wire and the write   *)
(* that is about to put one there took a delivery of its own, and the      *)
(* deliveries that are still queued have larger numbers.                   *)
(***************************************************************************)
EXTENDS SignalDelivery, FiniteSetTheorems, TLAPS

-----------------------------------------------------------------------------
(* The directory.                                                          *)

\* The entry of an instance registered as that instance, and a connection
\* that is not in the directory yet has registered as none.
OwnerInv ==
    /\ \A i \in Instances : cur[i] # NoConn => owner[cur[i]] = i
    /\ \A c \in Conns : stage[c] \in {"fresh", "opened"} => owner[c] = NoInst

\* The instance of a registered connection never changes.
OwnersKept ==
    \A c \in Conns : owner[c] \in Instances => owner'[c] = owner[c]

\* The composition moves the directory only as ConnDirectory does.
LEMMA DirectorySteps == TypeOK /\ Next => DirNext \/ UNCHANGED dirVars
<1> SUFFICES ASSUME TypeOK, Next PROVE DirNext \/ UNCHANGED dirVars
    BY Zenon
<1>1. ASSUME NEW m \in Signals, SignalAccepted(m) \/ Deliver(m) \/ AckWaitExpires(m)
      PROVE  UNCHANGED dirVars
    BY <1>1, Zenon DEF SignalAccepted, Deliver, AckWaitExpires
<1>2. ASSUME NEW s \in Subs, Dispatch(s) PROVE UNCHANGED dirVars
    BY <1>2, Zenon DEF Dispatch, Lookup, Write, AckSignal
<1>3. ASSUME NEW c \in Conns, NEW i \in Instances, EAConnect(c, i) PROVE DirNext
    BY <1>3, Zenon DEF EAConnect, DirNext
<1>4. ASSUME NEW c \in Conns, EAReceive(c) \/ LinkDies(c)
      PROVE  UNCHANGED dirVars
    BY <1>4, Zenon DEF EAReceive, LinkDies
<1>5. ASSUME NEW c \in Conns, HubJoin(c) PROVE DirNext
    BY <1>5, Zenon DEF HubJoin, DirNext, TypeOK, EndTypeOK
<1>6. ASSUME NEW c \in Conns, SendRegistered(c) \/ HandlerEnds(c) \/ SocketCloses(c)
      PROVE  DirNext
    BY <1>6, Zenon DEF SendRegistered, HandlerEnds, SocketCloses, DirNext
<1>7. ASSUME NEW c \in Conns, NEW m \in Signals, HandleFill(m, c)
      PROVE  UNCHANGED dirVars
    BY <1>7, Zenon DEF HandleFill
<1>8. CASE Restart
    BY <1>8, Zenon DEF Restart, DirNext
<1> QED
    BY <1>1, <1>2, <1>3, <1>4, <1>5, <1>6, <1>7, <1>8, Zenon DEF Next

\* Every directory entry is a connection that joined as that instance.
LEMMA DirectoryInv ==
    ASSUME DirTypeOK, OwnerInv, DirNext \/ UNCHANGED dirVars
    PROVE  DirTypeOK' /\ OwnerInv' /\ OwnersKept
<1> USE NoConnFresh, NoInstFresh DEF DirTypeOK, OwnerInv, OwnersKept, Stages
<1>1. ASSUME NEW c \in Conns, Open(c)
      PROVE  DirTypeOK' /\ OwnerInv' /\ OwnersKept
    BY <1>1, Zenon DEF Open
<1>2. ASSUME NEW c \in Conns, Refuse(c)
      PROVE  DirTypeOK' /\ OwnerInv' /\ OwnersKept
    BY <1>2, Zenon DEF Refuse
<1>3. ASSUME NEW c \in Conns, NEW i \in Instances, Join(c, i)
      PROVE  DirTypeOK' /\ OwnerInv' /\ OwnersKept
    <2>1. OwnersKept
        BY <1>3, Zenon DEF Join
    <2>2. DirTypeOK'
        BY <1>3, ZenonT(40) DEF Join
    <2>3. \A j \in Instances : cur'[j] # NoConn => owner'[cur'[j]] = j
        BY <1>3, Zenon DEF Join
    <2>4. \A d \in Conns : stage'[d] \in {"fresh", "opened"} => owner'[d] = NoInst
        BY <1>3, Zenon DEF Join
    <2> QED
        BY <2>1, <2>2, <2>3, <2>4, Zenon
<1>4. ASSUME NEW c \in Conns, Acknowledge(c) \/ StartLeaving(c)
      PROVE  DirTypeOK' /\ OwnerInv' /\ OwnersKept
    BY <1>4, ZenonT(40) DEF Acknowledge, StartLeaving
<1>5. ASSUME NEW c \in Conns, Leave(c)
      PROVE  DirTypeOK' /\ OwnerInv' /\ OwnersKept
    BY <1>5, Zenon DEF Leave
<1>6. ASSUME NEW c \in Conns, Shut(c)
      PROVE  DirTypeOK' /\ OwnerInv' /\ OwnersKept
    BY <1>6, Zenon DEF Shut
<1>7. CASE Vanish
    BY <1>7, Zenon DEF Vanish
<1>8. CASE UNCHANGED dirVars
    BY <1>8, Zenon DEF dirVars
<1> QED
    BY <1>1, <1>2, <1>3, <1>4, <1>5, <1>6, <1>7, <1>8, Zenon DEF DirNext

-----------------------------------------------------------------------------
(* Types.                                                                  *)

\* Taking a delivery off a subscription's queue.
LEMMA HeadOfInbox ==
    ASSUME BusTypeOK, NEW s \in Subs, inbox[s] # <<>>
    PROVE  /\ Head(inbox[s]).sig \in Signals
           /\ Head(inbox[s]).n \in Nat
           /\ Head(inbox[s]) = inbox[s][1]
           /\ 1 \in 1..Len(inbox[s])
           /\ Tail(inbox[s]) \in Seq(Delivery)
<1>1. inbox[s] \in Seq(Delivery)
    BY Zenon DEF BusTypeOK
<1>2. Head(inbox[s]) \in Delivery
    BY <1>1
<1> QED
    BY <1>1, <1>2 DEF Delivery

\* A callback past its lookup holds a signal and a connection.
LEMMA BusyDispatch ==
    ASSUME BusTypeOK, NEW s \in Subs, disp[s].at \in {"writing", "acking"}
    PROVE  disp[s] \in Busy /\ disp[s] # Idle
BY DEF BusTypeOK, Idle

\* An ack, nak or term leaves the consumer well typed.
LEMMA AnswerType ==
    ASSUME TypeOK, NEW m \in Signals, NEW x \in {"waiting", "acked", "termed"},
           Answer(m, x)
    PROVE  /\ js' \in [Signals -> {"unsent", "waiting", "inflight"} \cup Settled]
           /\ faults' \in Nat
           /\ \A k \in Signals : js'[k] = js[k] \/ (k = m /\ js'[k] = x)
<1>1. /\ js \in [Signals -> {"unsent", "waiting", "inflight"} \cup Settled]
      /\ faults \in Nat
    BY Zenon DEF TypeOK, BusTypeOK, EndTypeOK
<1>2. faults' \in Nat
    BY <1>1 DEF Answer
<1>3. \/ js' = js
      \/ js' = [js EXCEPT ![m] = x]
    <2>1. CASE js[m] \in Settled
        BY <1>1, <2>1, Zenon DEF Answer
    <2>2. CASE js[m] \notin Settled
        BY <1>1, <2>2, Zenon DEF Answer
    <2> QED
        BY <2>1, <2>2, Zenon
<1> DEFINE T == {"unsent", "waiting", "inflight"} \cup Settled
<1>4. x \in T
    BY Zenon DEF Settled
<1>5. js \in [Signals -> T]
    BY <1>1, Zenon
<1> HIDE DEF T
<1>6. js' \in [Signals -> T]
    BY <1>3, <1>4, <1>5, Zenon
<1>7. \A k \in Signals : js'[k] = js[k] \/ (k = m /\ js'[k] = x)
    BY <1>3, <1>5, Zenon
<1> QED
    BY <1>2, <1>6, <1>7, Zenon DEF T

\* A frame is appended to its own wire or lost.
LEMMA SendType ==
    ASSUME TypeOK, NEW c \in Conns, NEW f \in {Ack} \cup Signals, Send(c, f)
    PROVE  wire' \in [Conns -> Seq({Ack} \cup Signals)]
<1>1. wire[c] \in Seq({Ack} \cup Signals)
    BY Zenon DEF TypeOK, EndTypeOK
<1>2. Append(wire[c], f) \in Seq({Ack} \cup Signals)
    BY <1>1
<1> QED
    BY <1>2, Zenon DEF Send, TypeOK, EndTypeOK

\* Every step keeps the types.
LEMMA TypeStep ==
    ASSUME TypeOK, Next
    PROVE  BusTypeOK' /\ EndTypeOK'
<1> USE BoundsNat, SubOfType, InstOfType
<1>1. ASSUME NEW m \in Signals, SignalAccepted(m) PROVE BusTypeOK' /\ EndTypeOK'
    BY <1>1, Zenon DEF SignalAccepted, TypeOK, BusTypeOK, EndTypeOK, eaVars, fillVars,
                budget
<1>2. ASSUME NEW m \in Signals, Deliver(m) PROVE BusTypeOK' /\ EndTypeOK'
    <2>1. [sig |-> m, n |-> delivered[m] + 1] \in Delivery
        BY DEF TypeOK, BusTypeOK, Delivery
    <2>2. Append(inbox[SubOf[m]], [sig |-> m, n |-> delivered[m] + 1])
             \in Seq(Delivery)
        BY <2>1 DEF TypeOK, BusTypeOK
    <2>3. inbox' \in [Subs -> Seq(Delivery)]
        BY <1>2, <2>2, Zenon DEF Deliver, TypeOK, BusTypeOK
    <2>4. BusTypeOK'
        BY <1>2, <2>3 DEF Deliver, TypeOK, BusTypeOK
    <2>5. EndTypeOK'
        BY <1>2, Zenon DEF Deliver, TypeOK, EndTypeOK, eaVars, fillVars, budget
    <2> QED
        BY <2>4, <2>5, Zenon
<1>3. ASSUME NEW m \in Signals, AckWaitExpires(m)
      PROVE  BusTypeOK' /\ EndTypeOK'
    <2>1. BusTypeOK'
        BY <1>3, Zenon DEF AckWaitExpires, TypeOK, BusTypeOK
    <2>2. faults' \in Nat
        BY <1>3 DEF AckWaitExpires, TypeOK, EndTypeOK
    <2>3. EndTypeOK'
        BY <1>3, <2>2, Zenon DEF AckWaitExpires, TypeOK, EndTypeOK, eaVars, fillVars
    <2> QED
        BY <2>1, <2>3, Zenon
<1>4. ASSUME NEW s \in Subs, Lookup(s) PROVE BusTypeOK' /\ EndTypeOK'
    <2> DEFINE m == Head(inbox[s]).sig
               n == Head(inbox[s]).n
               c == Get(m)
    <2>1. m \in Signals /\ Tail(inbox[s]) \in Seq(Delivery)
        BY <1>4, HeadOfInbox, Zenon DEF Lookup, TypeOK
    <2>2. inbox' \in [Subs -> Seq(Delivery)]
        BY <1>4, <2>1, Zenon DEF Lookup, TypeOK, BusTypeOK
    <2>3. js' \in [Signals -> {"unsent", "waiting", "inflight"} \cup Settled]
          /\ faults' \in Nat
        BY <1>4, <2>1, AnswerType, ZenonT(40) DEF Lookup, TypeOK, BusTypeOK, EndTypeOK
    <2>4. c # NoConn => [at |-> "writing", sig |-> m, conn |-> c] \in Busy
        BY <2>1, Zenon DEF Get, Busy, TypeOK, DirTypeOK
    <2>5. disp' \in [Subs -> {Idle} \cup Busy]
        BY <1>4, <2>4, Zenon DEF Lookup, Missed, TypeOK, BusTypeOK
    <2> QED
        BY <1>4, <2>2, <2>3, <2>5, Zenon DEF Lookup, TypeOK, BusTypeOK, EndTypeOK,
                                      eaVars, fillVars
<1>5. ASSUME NEW s \in Subs, Write(s) PROVE BusTypeOK' /\ EndTypeOK'
    <2>1. disp[s] \in Busy
        BY <1>5, BusyDispatch, Zenon DEF Write, TypeOK
    <2> DEFINE m == disp[s].sig
               c == disp[s].conn
    <2>2. m \in Signals /\ c \in Conns
        BY <2>1, Zenon DEF Busy
    <2>3. CASE c \notin shut /\ Send(c, m) /\ written' = written \cup {<<m, c>>}
               /\ disp' = [disp EXCEPT ![s].at = "acking"]
               /\ UNCHANGED <<js, faults>>
        <3>1. wire' \in [Conns -> Seq({Ack} \cup Signals)]
            BY <2>2, <2>3, SendType, Zenon
        <3>2. [disp[s] EXCEPT !.at = "acking"] \in Busy
            BY <2>1, Zenon DEF Busy
        <3>3. disp' \in [Subs -> {Idle} \cup Busy]
            BY <2>3, <3>2, Zenon DEF TypeOK, BusTypeOK
        <3>4. written' \in SUBSET (Signals \X Conns)
            BY <2>2, <2>3 DEF TypeOK, EndTypeOK
        <3> QED
            BY <1>5, <2>3, <3>1, <3>3, <3>4, Zenon DEF Write, TypeOK, BusTypeOK,
                                                EndTypeOK, eaVars, fillVars
    <2>4. CASE Answer(m, "waiting") /\ disp' = [disp EXCEPT ![s] = Idle]
               /\ UNCHANGED <<wire, written>>
        <3>1. js' \in [Signals -> {"unsent", "waiting", "inflight"} \cup Settled]
              /\ faults' \in Nat
            BY <2>2, <2>4, AnswerType, Zenon
        <3> QED
            BY <1>5, <2>4, <3>1, Zenon DEF Write, TypeOK, BusTypeOK, EndTypeOK,
                                    eaVars, fillVars
    <2> QED
        BY <1>5, <2>3, <2>4, Zenon DEF Write
<1>6. ASSUME NEW s \in Subs, AckSignal(s) PROVE BusTypeOK' /\ EndTypeOK'
    <2>1. disp[s].sig \in Signals
        BY <1>6, BusyDispatch, Zenon DEF AckSignal, TypeOK, Busy
    <2>2. js' \in [Signals -> {"unsent", "waiting", "inflight"} \cup Settled]
          /\ faults' \in Nat
        BY <1>6, <2>1, AnswerType, Zenon DEF AckSignal
    <2> QED
        BY <1>6, <2>2, Zenon DEF AckSignal, TypeOK, BusTypeOK, EndTypeOK, eaVars,
                          fillVars
<1>7. ASSUME NEW c \in Conns, NEW i \in Instances, EAConnect(c, i)
      PROVE  BusTypeOK' /\ EndTypeOK'
    <2>1. BusTypeOK'
        BY <1>7, Zenon DEF EAConnect, TypeOK, BusTypeOK, busVars
    <2>2. wire' \in [Conns -> Seq({Ack} \cup Signals)]
        BY <1>7 DEF EAConnect, TypeOK, EndTypeOK
    <2>3. /\ session' \in [Instances -> Conns \cup {NoConn}]
          /\ dialled' \in [Conns -> Instances \cup {NoInst}]
          /\ down' \in SUBSET Conns
        BY <1>7, Zenon DEF EAConnect, TypeOK, EndTypeOK
    <2> QED
        BY <1>7, <2>1, <2>2, <2>3, Zenon DEF EAConnect, TypeOK, EndTypeOK, fillVars,
                                      budget
<1>8. ASSUME NEW c \in Conns, EAReceive(c) PROVE BusTypeOK' /\ EndTypeOK'
    <2>1. wire[c] \in Seq({Ack} \cup Signals) /\ wire[c] # <<>>
        BY <1>8, Zenon DEF EAReceive, TypeOK, EndTypeOK
    <2>2. Head(wire[c]) \in {Ack} \cup Signals
          /\ Tail(wire[c]) \in Seq({Ack} \cup Signals)
        BY <2>1
    <2>3. wire' \in [Conns -> Seq({Ack} \cup Signals)]
        BY <1>8, <2>2, Zenon DEF EAReceive, TypeOK, EndTypeOK
    <2>4. BusTypeOK'
        BY <1>8, Zenon DEF EAReceive, TypeOK, BusTypeOK, busVars
    <2>5. /\ registered' \in SUBSET Conns
          /\ executed' \in [Signals -> Nat]
          /\ upfills' \in SUBSET (Signals \X Conns)
        <3>1. CASE Head(wire[c]) = Ack
            BY <1>8, <3>1, Zenon DEF EAReceive, TypeOK, EndTypeOK
        <3>2. CASE Head(wire[c]) # Ack
            <4>1. Head(wire[c]) \in Signals
                BY <2>2, <3>2, Zenon
            <4>2. CASE c \notin registered
                BY <1>8, <3>2, <4>2, Zenon DEF EAReceive, TypeOK, EndTypeOK
            <4>3. CASE c \in registered
                <5>1. /\ executed' = [executed EXCEPT ![Head(wire[c])] = @ + 1]
                      /\ upfills' \in {upfills, upfills \cup {<<Head(wire[c]), c>>}}
                      /\ registered' = registered
                    BY <1>8, <3>2, <4>3, Zenon DEF EAReceive, ExecuteSignal, SendFill
                <5> QED
                    BY <4>1, <5>1 DEF TypeOK, EndTypeOK
            <4> QED
                BY <4>2, <4>3, Zenon
        <3> QED
            BY <3>1, <3>2, Zenon
    <2> QED
        BY <1>8, <2>3, <2>4, <2>5, Zenon DEF EAReceive, TypeOK, EndTypeOK, budget
<1>9. ASSUME NEW c \in Conns, LinkDies(c) PROVE BusTypeOK' /\ EndTypeOK'
    <2>1. BusTypeOK'
        BY <1>9, Zenon DEF LinkDies, TypeOK, BusTypeOK, busVars
    <2>2. wire' \in [Conns -> Seq({Ack} \cup Signals)]
        BY <1>9 DEF LinkDies, TypeOK, EndTypeOK
    <2> QED
        BY <1>9, <2>1, <2>2, Zenon DEF LinkDies, TypeOK, EndTypeOK, fillVars, budget
<1>10. ASSUME NEW c \in Conns, HubJoin(c) \/ HandlerEnds(c) \/ SocketCloses(c)
       PROVE  BusTypeOK' /\ EndTypeOK'
    BY <1>10, Zenon DEF HubJoin, HandlerEnds, SocketCloses, TypeOK, BusTypeOK,
                 EndTypeOK, busVars, eaVars, fillVars, budget
<1>11. ASSUME NEW c \in Conns, SendRegistered(c) PROVE BusTypeOK' /\ EndTypeOK'
    <2>1. wire' \in [Conns -> Seq({Ack} \cup Signals)]
        BY <1>11, SendType, Zenon DEF SendRegistered
    <2> QED
        BY <1>11, <2>1, Zenon DEF SendRegistered, TypeOK, BusTypeOK, EndTypeOK,
                           busVars, eaVars, fillVars, budget
<1>12. ASSUME NEW c \in Conns, NEW m \in Signals, HandleFill(m, c)
       PROVE  BusTypeOK' /\ EndTypeOK'
    <2>1. BusTypeOK'
        BY <1>12, Zenon DEF HandleFill, TypeOK, BusTypeOK, busVars
    <2>2. upfills' \in SUBSET (Signals \X Conns) /\ reported' \in SUBSET Signals
          /\ faults' \in Nat
        BY <1>12 DEF HandleFill, TypeOK, EndTypeOK
    <2> QED
        BY <1>12, <2>1, <2>2, Zenon DEF HandleFill, TypeOK, EndTypeOK, eaVars
<1>13. CASE Restart
    BY <1>13 DEF Restart, TypeOK, BusTypeOK, EndTypeOK, eaVars, fillVars
<1> QED
    BY <1>1, <1>2, <1>3, <1>4, <1>5, <1>6, <1>7, <1>8, <1>9, <1>10, <1>11,
       <1>12, <1>13, Zenon DEF Next, Dispatch

-----------------------------------------------------------------------------
(* Routing.                                                                *)

\* A started dispatch holds a connection of the signal's own instance, and has
\* written the signal by the time it acks it.
DispatchInv ==
    \A s \in Subs : disp[s] # Idle =>
        /\ owner[disp[s].conn] = InstOf[disp[s].sig]
        /\ disp[s].sig \notin Garbled
        /\ disp[s].at = "acking" => <<disp[s].sig, disp[s].conn>> \in written

\* A queued delivery carries a number the consumer has already counted.
InboxInv ==
    \A s \in Subs : \A k \in 1..Len(inbox[s]) :
        inbox[s][k].n <= delivered[inbox[s][k].sig]

RouteInv ==
    /\ DispatchInv
    /\ InboxInv
    /\ WrittenToOwnInstance
    /\ AckedWasWritten
    /\ TermedIsExhausted

\* What a step must not do to the routing state for RouteInv to survive:
\* nothing at all, or only forget deliveries and dispatches.
LEMMA RouteUndisturbed ==
    ASSUME TypeOK, TypeOK', RouteInv, OwnersKept,
           written' = written, delivered' = delivered,
           disp' = disp \/ disp' = [s \in Subs |-> Idle],
           inbox' = inbox \/ inbox' = [s \in Subs |-> <<>>],
           \A m \in Signals : js'[m] = js[m] \/ js'[m] \notin Settled
    PROVE  RouteInv'
<1>1. DispatchInv'
    <2> SUFFICES ASSUME NEW s \in Subs, disp'[s] # Idle
                 PROVE  /\ owner'[disp'[s].conn] = InstOf[disp'[s].sig]
                        /\ disp'[s].sig \notin Garbled
                        /\ disp'[s].at = "acking" =>
                               <<disp'[s].sig, disp'[s].conn>> \in written'
        BY Zenon DEF DispatchInv
    <2>1. disp'[s] = disp[s]
        BY Zenon
    <2>2. disp[s] \in Busy
        BY <2>1, Zenon DEF TypeOK, BusTypeOK
    <2>3. disp[s].conn \in Conns /\ InstOf[disp[s].sig] \in Instances
        BY <2>2, InstOfType, Zenon DEF Busy
    <2> QED
        BY <2>1, <2>3, ZenonT(40) DEF RouteInv, DispatchInv, OwnersKept
<1>2. InboxInv'
    BY DEF RouteInv, InboxInv
<1>3. WrittenToOwnInstance'
    BY InstOfType, Zenon DEF RouteInv, WrittenToOwnInstance, OwnersKept
<1>4. AckedWasWritten'
    BY InstOfType, ZenonT(40) DEF RouteInv, AckedWasWritten, OwnersKept, Settled
<1>5. TermedIsExhausted'
    BY Zenon DEF RouteInv, TermedIsExhausted, Settled
<1> QED
    BY <1>1, <1>2, <1>3, <1>4, <1>5, Zenon DEF RouteInv

\* Steps that leave the subscription and the written set alone.
LEMMA QuietRoute ==
    ASSUME TypeOK, TypeOK', RouteInv, OwnersKept,
           UNCHANGED <<busVars, disp, written>>
    PROVE  RouteInv'
BY RouteUndisturbed DEF busVars

\* JetStream hands over a signal with the current delivery count.
LEMMA DeliverRoute ==
    ASSUME TypeOK, TypeOK', RouteInv, OwnersKept, NEW m \in Signals, Deliver(m)
    PROVE  RouteInv'
<1> DEFINE t == SubOf[m]
           d == [sig |-> m, n |-> delivered[m] + 1]
<1>0. /\ inbox[t] \in Seq(Delivery)
      /\ t \in Subs
      /\ delivered \in [Signals -> Nat]
      /\ inbox \in [Subs -> Seq(Delivery)]
      /\ js \in [Signals -> {"unsent", "waiting", "inflight"} \cup Settled]
    BY SubOfType, Zenon DEF TypeOK, BusTypeOK
<1>1. DispatchInv'
    <2>1. UNCHANGED <<disp, written>>
        BY Zenon DEF Deliver
    <2>2. ASSUME NEW s \in Subs, disp[s] # Idle
          PROVE  disp[s].conn \in Conns /\ InstOf[disp[s].sig] \in Instances
        BY <2>2, InstOfType, Zenon DEF TypeOK, BusTypeOK, Busy
    <2> QED
        BY <2>1, <2>2, Zenon DEF RouteInv, DispatchInv, OwnersKept
<1>2. InboxInv'
    <2> SUFFICES ASSUME NEW s \in Subs, NEW k \in 1..Len(inbox'[s])
                 PROVE  inbox'[s][k].n <= delivered'[inbox'[s][k].sig]
        BY Zenon DEF InboxInv
    <2>0. \A x \in Signals : delivered[x] \in Nat /\ delivered[x] <= delivered'[x]
        BY <1>0 DEF Deliver
    <2>1. ASSUME inbox'[s] = inbox[s]
          PROVE  inbox'[s][k].n <= delivered'[inbox'[s][k].sig]
        <3>1. inbox[s][k] \in Delivery
            BY <1>0, <2>1
        <3>2. inbox[s][k].sig \in Signals /\ inbox[s][k].n \in Nat
            BY <3>1, Zenon DEF Delivery
        <3>3. inbox[s][k].n <= delivered[inbox[s][k].sig]
            BY <2>1, Zenon DEF RouteInv, InboxInv
        <3>4. delivered'[inbox[s][k].sig] \in Nat
            BY <3>2, Zenon DEF TypeOK, BusTypeOK
        <3> QED
            BY <2>0, <2>1, <3>2, <3>3, <3>4
    <2>2. CASE s # t
        BY <1>0, <2>1, <2>2, Zenon DEF Deliver
    <2>3. CASE s = t
        <3>1. inbox'[s] = Append(inbox[t], d)
            BY <1>0, <2>3, Zenon DEF Deliver
        <3>2. CASE k = Len(inbox[t]) + 1
            <4>1. inbox'[s][k] = d
                BY <1>0, <3>1, <3>2
            <4>2. delivered'[m] = delivered[m] + 1
                BY <1>0, Zenon DEF Deliver
            <4> QED
                BY <4>1, <4>2, <1>0
        <3>3. CASE k \in 1..Len(inbox[t])
            <4>1. inbox'[s][k] = inbox[s][k]
                BY <1>0, <2>3, <3>1, <3>3
            <4>2. inbox[s][k] \in Delivery
                BY <1>0, <2>3, <3>3
            <4>3. inbox[s][k].sig \in Signals /\ inbox[s][k].n \in Nat
                BY <4>2, Zenon DEF Delivery
            <4>4. inbox[s][k].n <= delivered[inbox[s][k].sig]
                BY <2>3, <3>3, Zenon DEF RouteInv, InboxInv
            <4>5. delivered'[inbox[s][k].sig] \in Nat
                BY <4>3, Zenon DEF TypeOK, BusTypeOK
            <4> QED
                BY <2>0, <4>1, <4>3, <4>4, <4>5
        <3>4. k = Len(inbox[t]) + 1 \/ k \in 1..Len(inbox[t])
            BY <1>0, <3>1
        <3> QED
            BY <3>2, <3>3, <3>4, Zenon
    <2> QED
        BY <2>2, <2>3, Zenon
<1>3. WrittenToOwnInstance'
    BY InstOfType, Zenon DEF RouteInv, WrittenToOwnInstance, OwnersKept, Deliver
<1>4. AckedWasWritten'
    BY <1>0, InstOfType, Zenon DEF RouteInv, AckedWasWritten, OwnersKept, Deliver
<1>5. TermedIsExhausted'
    BY <1>0, MaxDeliverNat, Zenon DEF RouteInv, TermedIsExhausted, Deliver
<1> QED
    BY <1>1, <1>2, <1>3, <1>4, <1>5, Zenon DEF RouteInv

\* The lookup terminates only exhausted signals and picks the instance's own connection.
LEMMA LookupRoute ==
    ASSUME TypeOK, TypeOK', RouteInv, OwnerInv, NEW s \in Subs, Lookup(s)
    PROVE  RouteInv'
<1> DEFINE m == Head(inbox[s]).sig
           n == Head(inbox[s]).n
           c == Get(m)
<1>0. /\ m \in Signals /\ n \in Nat
      /\ Head(inbox[s]) = inbox[s][1]
      /\ 1 \in 1..Len(inbox[s])
      /\ inbox \in [Subs -> Seq(Delivery)]
      /\ inbox[s] # <<>>
    BY HeadOfInbox, Zenon DEF Lookup, TypeOK, BusTypeOK
<1>1. UNCHANGED <<cur, owner, stage, shut, delivered, written>>
    BY Zenon DEF Lookup, dirVars
<1>2. n <= delivered[m]
    BY <1>0, Zenon DEF RouteInv, InboxInv
<1>3. InboxInv'
    <2> SUFFICES ASSUME NEW t \in Subs, NEW k \in 1..Len(inbox'[t])
                 PROVE  inbox'[t][k].n <= delivered[inbox'[t][k].sig]
        BY <1>1, Zenon DEF InboxInv
    <2>1. CASE t # s
        BY <1>0, <2>1, Zenon DEF Lookup, RouteInv, InboxInv
    <2>2. CASE t = s
        <3>1. inbox'[t] = Tail(inbox[s])
            BY <1>0, <2>2, Zenon DEF Lookup
        <3>2. inbox'[t][k] = inbox[s][k + 1] /\ k + 1 \in 1..Len(inbox[s])
            BY <1>0, <3>1, SMTT(30)
        <3> QED
            BY <3>2, Zenon DEF RouteInv, InboxInv
    <2> QED
        BY <2>1, <2>2, Zenon
<1>4. WrittenToOwnInstance'
    BY <1>1, Zenon DEF RouteInv, WrittenToOwnInstance
<1>5. CASE GivesUp(m, n) /\ Answer(m, "termed") /\ disp' = disp
    <2>1. \A k \in Signals : js'[k] = js[k] \/ (k = m /\ js'[k] = "termed")
        BY <1>0, <1>5, AnswerType, ZenonT(40)
    <2>2. m \in Garbled \/ delivered[m] > MaxDeliver
        BY <1>0, <1>2, <1>5, MaxDeliverNat DEF GivesUp, TypeOK, BusTypeOK
    <2>3. TermedIsExhausted'
        BY <1>1, <2>1, <2>2, Zenon DEF RouteInv, TermedIsExhausted
    <2>4. AckedWasWritten'
        BY <1>1, <2>1, Zenon DEF RouteInv, AckedWasWritten
    <2>5. DispatchInv'
        BY <1>1, <1>5, Zenon DEF RouteInv, DispatchInv
    <2> QED
        BY <1>3, <1>4, <2>3, <2>4, <2>5, Zenon DEF RouteInv
<1>6. CASE Answer(m, "waiting") /\ disp' = disp
    <2>1. \A k \in Signals : js'[k] = js[k] \/ (k = m /\ js'[k] = "waiting")
        BY <1>0, <1>6, AnswerType, ZenonT(40)
    <2>2. TermedIsExhausted' /\ AckedWasWritten'
        BY <1>1, <2>1, Zenon DEF RouteInv, TermedIsExhausted, AckedWasWritten
    <2>3. DispatchInv'
        BY <1>1, <1>6, Zenon DEF RouteInv, DispatchInv
    <2> QED
        BY <1>3, <1>4, <2>2, <2>3, Zenon DEF RouteInv
<1>7. CASE /\ ~GivesUp(m, n) /\ ~Missed(c)
           /\ disp' = [disp EXCEPT ![s] =
                          [at |-> "writing", sig |-> m, conn |-> c]]
           /\ js' = js
    <2>1. m \notin Garbled /\ owner[c] = InstOf[m]
        BY <1>0, <1>7, InstOfType, Zenon DEF GivesUp, Missed, Get, OwnerInv
    <2>2. DispatchInv'
        <3> SUFFICES ASSUME NEW t \in Subs, disp'[t] # Idle
                     PROVE  /\ owner[disp'[t].conn] = InstOf[disp'[t].sig]
                            /\ disp'[t].sig \notin Garbled
                            /\ disp'[t].at = "acking" =>
                                  <<disp'[t].sig, disp'[t].conn>> \in written
            BY <1>1, Zenon DEF DispatchInv
        <3>1. CASE t # s
            BY <1>7, <3>1, Zenon DEF RouteInv, DispatchInv, TypeOK, BusTypeOK
        <3>2. CASE t = s
            <4>1. disp'[t] = [at |-> "writing", sig |-> m, conn |-> c]
                BY <1>7, <3>2, Zenon DEF TypeOK, BusTypeOK
            <4> QED
                BY <4>1, <2>1, SMTT(30)
        <3> QED
            BY <3>1, <3>2, Zenon
    <2>3. TermedIsExhausted' /\ AckedWasWritten'
        BY <1>1, <1>7, Zenon DEF RouteInv, TermedIsExhausted, AckedWasWritten
    <2> QED
        BY <1>3, <1>4, <2>2, <2>3, Zenon DEF RouteInv
<1> QED
    BY <1>5, <1>6, <1>7, Zenon DEF Lookup

\* A write goes to the connection found for the signal's instance.
LEMMA WriteRoute ==
    ASSUME TypeOK, TypeOK', RouteInv, NEW s \in Subs, Write(s)
    PROVE  RouteInv'
<1> DEFINE m == disp[s].sig
           c == disp[s].conn
<1>0. /\ disp[s] \in Busy /\ disp[s] # Idle
      /\ m \in Signals /\ c \in Conns
      /\ disp \in [Subs -> {Idle} \cup Busy]
    BY BusyDispatch, Zenon DEF Write, TypeOK, BusTypeOK, Busy
<1>1. UNCHANGED <<cur, owner, stage, shut, delivered, inbox>>
    BY Zenon DEF Write, dirVars
<1>2. owner[c] = InstOf[m] /\ m \notin Garbled
    BY <1>0, Zenon DEF RouteInv, DispatchInv
<1>3. InboxInv'
    BY <1>1, Zenon DEF RouteInv, InboxInv
<1>4. CASE /\ written' = written \cup {<<m, c>>}
           /\ disp' = [disp EXCEPT ![s].at = "acking"]
           /\ js' = js
    <2>1. disp'[s] = [disp[s] EXCEPT !.at = "acking"]
          /\ \A t \in Subs \ {s} : disp'[t] = disp[t]
        BY <1>0, <1>4, Zenon
    <2>2. disp'[s].sig = m /\ disp'[s].conn = c
        BY <1>0, <2>1, Zenon DEF Busy
    <2>3. DispatchInv'
        <3> SUFFICES ASSUME NEW t \in Subs, disp'[t] # Idle
                     PROVE  /\ owner[disp'[t].conn] = InstOf[disp'[t].sig]
                            /\ disp'[t].sig \notin Garbled
                            /\ disp'[t].at = "acking" =>
                                  <<disp'[t].sig, disp'[t].conn>> \in written'
            BY <1>1, Zenon DEF DispatchInv
        <3>1. CASE t = s
            BY <1>2, <1>4, <2>2, <3>1
        <3>2. CASE t # s
            BY <1>4, <2>1, <3>2 DEF RouteInv, DispatchInv
        <3> QED
            BY <3>1, <3>2, Zenon
    <2>4. WrittenToOwnInstance'
        BY <1>0, <1>1, <1>2, <1>4, Zenon DEF RouteInv, WrittenToOwnInstance
    <2>5. AckedWasWritten' /\ TermedIsExhausted'
        BY <1>1, <1>4, Zenon DEF RouteInv, AckedWasWritten, TermedIsExhausted
    <2> QED
        BY <1>3, <2>3, <2>4, <2>5, Zenon DEF RouteInv
<1>5. CASE /\ Answer(m, "waiting")
           /\ disp' = [disp EXCEPT ![s] = Idle]
           /\ written' = written
    <2>1. \A k \in Signals : js'[k] = js[k] \/ (k = m /\ js'[k] = "waiting")
        BY <1>0, <1>5, AnswerType, ZenonT(40)
    <2>2. DispatchInv'
        BY <1>0, <1>1, <1>5, Zenon DEF RouteInv, DispatchInv
    <2>3. WrittenToOwnInstance' /\ AckedWasWritten' /\ TermedIsExhausted'
        BY <1>1, <1>5, <2>1, Zenon DEF RouteInv, WrittenToOwnInstance, AckedWasWritten,
                                TermedIsExhausted
    <2> QED
        BY <1>3, <2>2, <2>3, Zenon DEF RouteInv
<1> QED
    BY <1>4, <1>5, Zenon DEF Write

\* The ack follows the write it is for.
LEMMA AckRoute ==
    ASSUME TypeOK, TypeOK', RouteInv, NEW s \in Subs, AckSignal(s)
    PROVE  RouteInv'
<1> DEFINE m == disp[s].sig
           c == disp[s].conn
<1>0. /\ disp[s] \in Busy /\ disp[s] # Idle
      /\ m \in Signals /\ c \in Conns
      /\ disp \in [Subs -> {Idle} \cup Busy]
    BY BusyDispatch, Zenon DEF AckSignal, TypeOK, BusTypeOK, Busy
<1>1. UNCHANGED <<cur, owner, stage, shut, delivered, inbox, written>>
    BY Zenon DEF AckSignal, dirVars
<1>2. owner[c] = InstOf[m] /\ <<m, c>> \in written
    BY <1>0, Zenon DEF RouteInv, DispatchInv, AckSignal
<1>3. \A k \in Signals : js'[k] = js[k] \/ (k = m /\ js'[k] = "acked")
    BY <1>0, AnswerType, ZenonT(40) DEF AckSignal
<1>4. DispatchInv'
    BY <1>0, <1>1, Zenon DEF AckSignal, RouteInv, DispatchInv
<1>5. AckedWasWritten'
    BY <1>0, <1>1, <1>2, <1>3, Zenon DEF RouteInv, AckedWasWritten
<1>6. InboxInv' /\ WrittenToOwnInstance' /\ TermedIsExhausted'
    BY <1>1, <1>3, Zenon DEF RouteInv, InboxInv, WrittenToOwnInstance,
                      TermedIsExhausted
<1> QED
    BY <1>4, <1>5, <1>6, Zenon DEF RouteInv

-----------------------------------------------------------------------------
(* Induction.                                                              *)

DeliveryInv == TypeOK /\ OwnerInv /\ RouteInv

\* The inductive invariant holds before anything was sent.
LEMMA InitDeliveryInv == Init => DeliveryInv
<1> SUFFICES ASSUME Init PROVE DeliveryInv
    BY Zenon
<1>1. DirTypeOK /\ OwnerInv
    BY Zenon DEF Init, DirInit, DirTypeOK, OwnerInv, Stages
<1>2. BusTypeOK /\ EndTypeOK
    BY DEF Init, BusTypeOK, EndTypeOK
<1>3. RouteInv
    BY DEF Init, RouteInv, DispatchInv, InboxInv, WrittenToOwnInstance,
           AckedWasWritten, TermedIsExhausted
<1> QED
    BY <1>1, <1>2, <1>3, Zenon DEF DeliveryInv, TypeOK

\* Every step of the delivery path preserves the inductive invariant.
LEMMA NextDeliveryInv == DeliveryInv /\ [Next]_vars => DeliveryInv'
<1> SUFFICES ASSUME DeliveryInv, [Next]_vars PROVE DeliveryInv'
    BY Zenon
<1> USE DEF DeliveryInv
<1>1. CASE UNCHANGED vars
    BY <1>1, Zenon DEF vars, dirVars, busVars, eaVars, fillVars, budget, TypeOK,
                DirTypeOK, BusTypeOK, EndTypeOK, OwnerInv, RouteInv,
                DispatchInv, InboxInv, WrittenToOwnInstance, AckedWasWritten,
                TermedIsExhausted
<1>2. CASE Next
    <2>1. DirNext \/ UNCHANGED dirVars
        BY <1>2, DirectorySteps, Zenon
    <2>2. DirTypeOK' /\ OwnerInv' /\ OwnersKept
        BY <2>1, DirectoryInv, Zenon DEF TypeOK
    <2>3. TypeOK'
        BY <1>2, <2>2, TypeStep, Zenon DEF TypeOK
    <2>4. ASSUME NEW m \in Signals, SignalAccepted(m) \/ AckWaitExpires(m)
          PROVE  RouteInv'
        <3>1. \A k \in Signals : js'[k] = js[k] \/ js'[k] \notin Settled
            BY <2>4, Zenon DEF SignalAccepted, AckWaitExpires, Settled, TypeOK, BusTypeOK
        <3> QED
            BY <2>4, <2>2, <2>3, <3>1, RouteUndisturbed, Zenon
            DEF SignalAccepted, AckWaitExpires
    <2>5. ASSUME NEW m \in Signals, Deliver(m) PROVE RouteInv'
        BY <2>5, <2>2, <2>3, DeliverRoute, Zenon
    <2>6. ASSUME NEW s \in Subs, Dispatch(s) PROVE RouteInv'
        BY <2>6, <2>3, LookupRoute, WriteRoute, AckRoute, Zenon DEF Dispatch
    <2>7. ASSUME NEW c \in Conns,
                 \/ \E i \in Instances : EAConnect(c, i)
                 \/ EAReceive(c) \/ LinkDies(c) \/ HubJoin(c)
                 \/ SendRegistered(c) \/ HandlerEnds(c) \/ SocketCloses(c)
                 \/ \E m \in Signals : HandleFill(m, c)
          PROVE  RouteInv'
        <3>1. UNCHANGED <<busVars, disp, written>>
            BY <2>7, Zenon DEF EAConnect, EAReceive, LinkDies, HubJoin, SendRegistered,
                        HandlerEnds, SocketCloses, HandleFill
        <3> QED
            BY <2>2, <2>3, <3>1, QuietRoute, Zenon
    <2>8. CASE Restart
        BY <2>8, <2>2, <2>3, RouteUndisturbed, Zenon DEF Restart
    <2>9. RouteInv'
        BY <1>2, <2>4, <2>5, <2>6, <2>7, <2>8, Zenon DEF Next
    <2> QED
        BY <2>2, <2>3, <2>9, Zenon
<1> QED
    BY <1>1, <1>2, Zenon

\* The inductive invariant holds throughout.
THEOREM DeliveryInvariant == Spec => []DeliveryInv
BY InitDeliveryInv, NextDeliveryInv, PTL DEF Spec

-----------------------------------------------------------------------------
(* What it gives.                                                          *)

\* The state is always well formed; in particular a started dispatch always
\* holds a connection, never a missing hub entry.
THEOREM DeliveryTypeCorrect == Spec => []TypeOK
BY DeliveryInvariant, PTL DEF DeliveryInv

\* An acked signal was written to a connection of its own instance.
THEOREM AckedWritten == Spec => []AckedWasWritten
BY DeliveryInvariant, PTL DEF DeliveryInv, RouteInv

\* No signal is written to a connection of another instance.
THEOREM RoutedToOwnInstance == Spec => []WrittenToOwnInstance
BY DeliveryInvariant, PTL DEF DeliveryInv, RouteInv

\* Only undecodable signals and signals past the delivery limit are terminated.
THEOREM TermedExhausted == Spec => []TermedIsExhausted
BY DeliveryInvariant, PTL DEF DeliveryInv, RouteInv

-----------------------------------------------------------------------------
(* The delivery limit. *)

CopiesIn(w, m) ==
    UNION {{<<c, k>> : k \in {j \in DOMAIN w[c] : w[c][j] = m}} : c \in Conns}

\* What a copy is: a connection and a place on its wire.
LEMMA CopyIsPlace ==
    ASSUME NEW w, NEW m
    PROVE  \A p : p \in CopiesIn(w, m) <=>
              \E c \in Conns : \E k \in DOMAIN w[c] : w[c][k] = m /\ p = <<c, k>>
<1> DEFINE At(c) == {<<c, k>> : k \in {j \in DOMAIN w[c] : w[c][j] = m}}
<1>1. \A p : p \in CopiesIn(w, m) <=> \E c \in Conns : p \in At(c)
    BY Zenon DEF CopiesIn
<1>2. \A c, p : p \in At(c) <=> \E k \in DOMAIN w[c] : w[c][k] = m /\ p = <<c, k>>
    BY Zenon
<1> HIDE DEF At
<1> QED
    BY <1>1, <1>2, ZenonT(40)

\* Wires that are cut lose copies and gain none.
LEMMA CopiesOnCutWires ==
    ASSUME NEW w, NEW v, NEW m, IsFiniteSet(CopiesIn(w, m)),
           \A c \in Conns : v[c] = w[c] \/ v[c] = <<>>
    PROVE  IsFiniteSet(CopiesIn(v, m)) /\ Cardinality(CopiesIn(v, m)) <= Cardinality(CopiesIn(w, m))
<1>1. CopiesIn(v, m) \subseteq CopiesIn(w, m)
    <2> SUFFICES ASSUME NEW p \in CopiesIn(v, m) PROVE p \in CopiesIn(w, m)
        BY Zenon
    <2>0. PICK c \in Conns : \E k \in DOMAIN v[c] : v[c][k] = m /\ p = <<c, k>>
        BY CopyIsPlace
    <2>1. PICK k \in DOMAIN v[c] : v[c][k] = m /\ p = <<c, k>>
        BY <2>0, Zenon
    <2>2. v[c] # <<>>
        BY <2>1
    <2> QED
        BY <2>1, <2>2, CopyIsPlace, Zenon
<1> QED
    BY <1>1, FS_Subset, Zenon

\* A frame appended to a wire is one more copy, if it is the signal.
LEMMA CopiesAfterAppend ==
    ASSUME NEW F, NEW w \in [Conns -> Seq(F)], NEW c \in Conns, NEW f \in F, NEW m,
           IsFiniteSet(CopiesIn(w, m))
    PROVE  LET v == [w EXCEPT ![c] = Append(@, f)]
           IN  /\ IsFiniteSet(CopiesIn(v, m))
               /\ Cardinality(CopiesIn(v, m)) <=
                    Cardinality(CopiesIn(w, m)) + (IF f = m THEN 1 ELSE 0)
<1> DEFINE v == [w EXCEPT ![c] = Append(@, f)]
           last == <<c, Len(w[c]) + 1>>
           S == IF f = m THEN CopiesIn(w, m) \cup {last} ELSE CopiesIn(w, m)
<1>0. /\ v[c] = Append(w[c], f)
      /\ \A d \in Conns : d # c => v[d] = w[d]
    BY Zenon
<1> HIDE DEF v
<1>1. CopiesIn(v, m) \subseteq S
    <2> SUFFICES ASSUME NEW p \in CopiesIn(v, m) PROVE p \in S
        BY Zenon
    <2>0. PICK d \in Conns : \E k \in DOMAIN v[d] : v[d][k] = m /\ p = <<d, k>>
        BY CopyIsPlace
    <2>1. PICK k \in DOMAIN v[d] : v[d][k] = m /\ p = <<d, k>>
        BY <2>0, Zenon
    <2>2. CASE d # c
        <3>1. v[d] = w[d]
            BY <1>0, <2>2, Zenon
        <3> QED
            BY <2>1, <3>1, CopyIsPlace, Zenon
    <2>3. CASE d = c /\ k # Len(w[c]) + 1
        <3>1. k \in DOMAIN w[c] /\ v[c][k] = w[c][k]
            BY <1>0, <2>1, <2>3
        <3> QED
            BY <2>1, <2>3, <3>1, CopyIsPlace, Zenon
    <2>4. CASE d = c /\ k = Len(w[c]) + 1
        <3>1. v[c][k] = f
            BY <1>0, <2>4
        <3> QED
            BY <2>1, <2>4, <3>1, Zenon
    <2> QED
        BY <2>2, <2>3, <2>4, Zenon
<1>2. /\ IsFiniteSet(S)
      /\ Cardinality(S) <= Cardinality(CopiesIn(w, m)) + (IF f = m THEN 1 ELSE 0)
    <2>1. Cardinality(CopiesIn(w, m)) \in Nat
        BY FS_CardinalityType, Zenon
    <2>a. /\ IsFiniteSet(CopiesIn(w, m) \cup {last})
          /\ Cardinality(CopiesIn(w, m) \cup {last}) =
               IF last \in CopiesIn(w, m) THEN Cardinality(CopiesIn(w, m))
               ELSE Cardinality(CopiesIn(w, m)) + 1
        <3> HIDE DEF last
        <3> QED
            BY FS_AddElement, Zenon
    <2>2. Cardinality(CopiesIn(w, m) \cup {last}) <= Cardinality(CopiesIn(w, m)) + 1
        BY <2>1, <2>a
    <2> QED
        BY <2>1, <2>a, <2>2
<1>3. IsFiniteSet(CopiesIn(v, m)) /\ Cardinality(CopiesIn(v, m)) <= Cardinality(S)
    BY <1>1, <1>2, FS_Subset, Zenon
<1>4. /\ Cardinality(CopiesIn(v, m)) \in Nat /\ Cardinality(S) \in Nat
      /\ Cardinality(CopiesIn(w, m)) \in Nat
    BY <1>2, <1>3, FS_CardinalityType, Zenon
<1> HIDE DEF S
<1>5. Cardinality(CopiesIn(v, m)) <= Cardinality(CopiesIn(w, m)) + (IF f = m THEN 1 ELSE 0)
    BY <1>2, <1>3, <1>4
<1> QED
    BY <1>3, <1>5, Zenon DEF v

\* Taking the first frame off a wire moves the others up, and one copy is gone if it was
\* the signal.
LEMMA CopiesAfterTail ==
    ASSUME NEW F, NEW w \in [Conns -> Seq(F)], NEW c \in Conns, w[c] # <<>>, NEW m,
           IsFiniteSet(CopiesIn(w, m))
    PROVE  LET v == [w EXCEPT ![c] = Tail(@)]
           IN  /\ IsFiniteSet(CopiesIn(v, m))
               /\ Cardinality(CopiesIn(v, m)) + (IF Head(w[c]) = m THEN 1 ELSE 0) <=
                    Cardinality(CopiesIn(w, m))
<1> DEFINE v == [w EXCEPT ![c] = Tail(@)]
           first == <<c, 1>>
           S == CopiesIn(v, m)
           T == CopiesIn(w, m) \ {first}
           place(p) == IF p[1] = c THEN <<c, p[2] + 1>> ELSE p
           up == [p \in S |-> place(p)]
<1>0. /\ v[c] = Tail(w[c])
      /\ \A d \in Conns : d # c => v[d] = w[d]
    BY Zenon
<1> HIDE DEF v
<1>1. /\ IsFiniteSet(T) /\ Cardinality(T) \in Nat /\ Cardinality(CopiesIn(w, m)) \in Nat
      /\ Head(w[c]) = m => Cardinality(T) = Cardinality(CopiesIn(w, m)) - 1
      /\ Cardinality(T) <= Cardinality(CopiesIn(w, m))
    <2>1. Head(w[c]) = m => first \in CopiesIn(w, m)
        <3>1. 1 \in DOMAIN w[c] /\ Head(w[c]) = w[c][1]
            OBVIOUS
        <3> QED
            BY <3>1, CopyIsPlace, Zenon
    <2>2. /\ IsFiniteSet(T)
          /\ Cardinality(T) = IF first \in CopiesIn(w, m) THEN Cardinality(CopiesIn(w, m)) - 1
                              ELSE Cardinality(CopiesIn(w, m))
        BY FS_RemoveElement, Zenon
    <2>3. Cardinality(T) \in Nat /\ Cardinality(CopiesIn(w, m)) \in Nat
        BY <2>2, FS_CardinalityType, Zenon
    <2> HIDE DEF T, first
    <2> QED
        BY <2>1, <2>2, <2>3
<1>2. ASSUME NEW p \in S
      PROVE  place(p) \in T /\ \E d \in Conns, k \in Nat : p = <<d, k>>
    <2>0. PICK d \in Conns : \E k \in DOMAIN v[d] : v[d][k] = m /\ p = <<d, k>>
        BY CopyIsPlace
    <2>1. PICK k \in DOMAIN v[d] : v[d][k] = m /\ p = <<d, k>>
        BY <2>0, Zenon
    <2>2. CASE d # c
        <3>1. v[d] = w[d] /\ k \in Nat
            BY <1>0, <2>2
        <3>2. place(p) = p /\ p # first
            BY <2>1, <2>2, Zenon
        <3>3. p \in CopiesIn(w, m)
            BY <2>1, <3>1, CopyIsPlace, Zenon
        <3> QED
            BY <2>1, <3>1, <3>2, <3>3, Zenon
    <2>3. CASE d = c
        <3>1. /\ k \in Nat /\ k # 0 /\ k + 1 \in DOMAIN w[c]
              /\ w[c][k + 1] = m
            <4>1. w[c] \in Seq(F) /\ v[c] = Tail(w[c]) /\ k \in DOMAIN v[c] /\ v[c][k] = m
                BY <1>0, <2>1, <2>3, Zenon
            <4>2. Len(w[c]) \in Nat /\ DOMAIN w[c] = 1..Len(w[c])
                  /\ DOMAIN v[c] = 1..(Len(w[c]) - 1)
                  /\ \A j \in 1..(Len(w[c]) - 1) : v[c][j] = w[c][j + 1]
                BY <4>1
            <4> QED
                BY <4>1, <4>2
        <3>2. place(p) = <<c, k + 1>> /\ place(p) # first
            BY <2>1, <2>3, <3>1
        <3>3. <<c, k + 1>> \in CopiesIn(w, m)
            BY <3>1, CopyIsPlace, Zenon
        <3> QED
            BY <2>1, <3>1, <3>2, <3>3, Zenon
    <2> QED
        BY <2>2, <2>3, Zenon
<1>3. up \in Injection(S, T)
    <2>1. up \in [S -> T]
        BY <1>2, Zenon
    <2>0. \A p \in S : \E d \in Conns, k \in Nat : p = <<d, k>>
        <3> HIDE DEF S, T, place
        <3> QED
            BY <1>2, Zenon
    <2>2. ASSUME NEW p \in S, NEW q \in S, place(p) = place(q) PROVE p = q
        <3>1. PICK d \in Conns, k \in Nat : p = <<d, k>>
            BY <2>0, Zenon
        <3>2. PICK e \in Conns, l \in Nat : q = <<e, l>>
            BY <2>0, Zenon
        <3> QED
            BY <2>2, <3>1, <3>2
    <2> HIDE DEF S, T, place
    <2> QED
        BY <2>1, <2>2, Zenon DEF Injection, IsInjective
<1>4. IsFiniteSet(S) /\ Cardinality(S) <= Cardinality(T)
    <2> HIDE DEF S, T, up
    <2> QED
        BY <1>1, <1>3, FS_Injection, Zenon
<1>5. Cardinality(S) \in Nat
    BY <1>4, FS_CardinalityType, Zenon
<1> HIDE DEF S, T
<1>6. Cardinality(S) + (IF Head(w[c]) = m THEN 1 ELSE 0) <= Cardinality(CopiesIn(w, m))
    BY <1>1, <1>4, <1>5
<1> QED
    BY <1>4, <1>6, Zenon DEF S, v

\* The dispatch that is about to write a signal.
Writing(m) ==
    IF disp[SubOf[m]] # Idle /\ disp[SubOf[m]].at = "writing" /\ disp[SubOf[m]].sig = m
    THEN 1 ELSE 0

\* Deliveries of a signal that were used: executions, copies on a wire, the write to come.
Spent(m) == executed[m] + Cardinality(Copies(m)) + Writing(m)

\* The deliveries queued at a subscription are its own, in the order of their numbers, and
\* none of their numbers has been used.
QueueInv ==
    \A s \in Subs, m \in Signals : \A k \in 1..Len(inbox[s]) : inbox[s][k].sig = m =>
        /\ SubOf[m] = s
        /\ Spent(m) < inbox[s][k].n
        /\ \A j \in 1..Len(inbox[s]) :
              j < k /\ inbox[s][j].sig = m => inbox[s][j].n < inbox[s][k].n

SpentInv ==
    /\ \A m \in Signals : /\ IsFiniteSet(Copies(m))
                          /\ Spent(m) <= MaxDeliver
                          /\ Spent(m) <= delivered[m]
    /\ QueueInv
    /\ \A s \in Subs : disp[s] # Idle => SubOf[disp[s].sig] = s

\* The copies of this and of the next state.
LEMMA CopiesAreIn == \A m : /\ Copies(m) = CopiesIn(wire, m)
                            /\ Copies(m)' = CopiesIn(wire', m)
BY DEF Copies, CopiesIn

\* The count is a number.
LEMMA SpentIsNat ==
    ASSUME TypeOK, NEW m \in Signals, IsFiniteSet(Copies(m))
    PROVE  /\ executed[m] \in Nat /\ Cardinality(Copies(m)) \in Nat /\ Writing(m) \in {0, 1}
           /\ Spent(m) \in Nat
<1>1. executed[m] \in Nat
    BY Zenon DEF TypeOK, EndTypeOK
<1>2. Cardinality(Copies(m)) \in Nat
    BY FS_CardinalityType, Zenon
<1>3. Writing(m) \in {0, 1}
    BY Zenon DEF Writing
<1> QED
    BY <1>1, <1>2, <1>3 DEF Spent

\* A step that uses no delivery, takes none from the queues except all of them, and starts
\* no dispatch.
LEMMA SpentUndisturbed ==
    ASSUME TypeOK, TypeOK', SpentInv, delivered' = delivered,
           inbox' = inbox \/ inbox' = [s \in Subs |-> <<>>],
           \A s \in Subs : disp'[s] # Idle => disp[s] # Idle /\ disp'[s].sig = disp[s].sig,
           \A m \in Signals : IsFiniteSet(Copies(m)') /\ Spent(m)' <= Spent(m)
    PROVE  SpentInv'
<1>1. \A m \in Signals : Spent(m) \in Nat /\ Spent(m)' \in Nat
    <2> SUFFICES ASSUME NEW m \in Signals PROVE Spent(m) \in Nat /\ Spent(m)' \in Nat
        BY Zenon
    <2>1. IsFiniteSet(Copies(m)) /\ IsFiniteSet(Copies(m)')
        BY Zenon DEF SpentInv
    <2>2. Spent(m) \in Nat
        BY <2>1, SpentIsNat, Zenon
    <2>3. Spent(m)' \in Nat
        <3>1. executed'[m] \in Nat
            BY Zenon DEF TypeOK, EndTypeOK
        <3>2. Cardinality(Copies(m)') \in Nat
            BY <2>1, FS_CardinalityType, Zenon
        <3>3. Writing(m)' \in {0, 1}
            BY Zenon DEF Writing
        <3> QED
            BY <3>1, <3>2, <3>3 DEF Spent
    <2> QED
        BY <2>2, <2>3, Zenon
<1>2. delivered \in [Signals -> Nat] /\ inbox \in [Subs -> Seq(Delivery)]
    BY Zenon DEF TypeOK, BusTypeOK
<1>3. \A m \in Signals : /\ IsFiniteSet(Copies(m)') /\ Spent(m)' <= MaxDeliver
                         /\ Spent(m)' <= delivered'[m]
    BY <1>1, <1>2, MaxDeliverNat DEF SpentInv
<1>4. QueueInv'
    <2>1. CASE inbox' = inbox
        <3> SUFFICES ASSUME NEW s \in Subs, NEW m \in Signals, NEW k \in 1..Len(inbox[s]),
                            inbox[s][k].sig = m
                     PROVE  Spent(m)' < inbox[s][k].n
            BY <2>1 DEF SpentInv, QueueInv
        <3>1. inbox[s][k] \in Delivery
            BY <1>2
        <3>2. inbox[s][k].n \in Nat
            BY <3>1, Zenon DEF Delivery
        <3>3. Spent(m) < inbox[s][k].n
            BY Zenon DEF SpentInv, QueueInv
        <3> QED
            BY <1>1, <3>2, <3>3
    <2>2. CASE inbox' = [s \in Subs |-> <<>>]
        BY <2>2 DEF QueueInv
    <2> QED
        BY <2>1, <2>2, Zenon
<1>5. \A s \in Subs : disp'[s] # Idle => SubOf[disp'[s].sig] = s
    BY Zenon DEF SpentInv
<1> QED
    BY <1>3, <1>4, <1>5, Zenon DEF SpentInv

\* A queue without its first delivery (Lookup).
LEMMA TailAt ==
    ASSUME NEW S, NEW q \in Seq(S), q # <<>>
    PROVE  \A j \in 1..Len(Tail(q)) : j + 1 \in 1..Len(q) /\ Tail(q)[j] = q[j + 1]
    OBVIOUS

\* Steps that touch neither the queues nor a wire.
LEMMA QuietSpent ==
    ASSUME SpentInv, UNCHANGED <<delivered, inbox, disp, wire, executed>>
    PROVE  SpentInv'
<1>1. \A m \in Signals : /\ Copies(m)' = Copies(m) /\ Writing(m)' = Writing(m)
                         /\ Spent(m)' = Spent(m)
    BY DEF Spent, Writing, Copies
<1>2. QueueInv'
    <2>1. inbox' = inbox /\ QueueInv
        BY Zenon DEF SpentInv
    <2> SUFFICES ASSUME NEW s \in Subs, NEW m \in Signals, NEW k \in 1..Len(inbox'[s]),
                        inbox'[s][k].sig = m
                 PROVE  /\ SubOf[m] = s
                        /\ Spent(m)' < inbox'[s][k].n
                        /\ \A j \in 1..Len(inbox'[s]) :
                              j < k /\ inbox'[s][j].sig = m => inbox'[s][j].n < inbox'[s][k].n
        BY Zenon DEF QueueInv
    <2>2. k \in 1..Len(inbox[s]) /\ inbox[s][k].sig = m
        BY <2>1, Zenon
    <2>3. /\ SubOf[m] = s
          /\ Spent(m) < inbox[s][k].n
          /\ \A j \in 1..Len(inbox[s]) :
                j < k /\ inbox[s][j].sig = m => inbox[s][j].n < inbox[s][k].n
        BY <2>1, <2>2, Zenon DEF QueueInv
    <2>4. Spent(m)' = Spent(m)
        BY <1>1, Zenon
    <2> QED
        BY ONLY <2>1, <2>3, <2>4, Zenon
<1>3. UNCHANGED <<delivered, disp>>
    BY Zenon
<1> QED
    BY <1>1, <1>2, <1>3, Zenon DEF SpentInv

\* A step that leaves executions and dispatches alone and only cuts wires.
LEMMA CutSpent ==
    ASSUME TypeOK, TypeOK', SpentInv, UNCHANGED <<delivered, inbox, disp, executed>>,
           \A c \in Conns : wire'[c] = wire[c] \/ wire'[c] = <<>>
    PROVE  SpentInv'
<1>1. ASSUME NEW m \in Signals
      PROVE  IsFiniteSet(Copies(m)') /\ Spent(m)' <= Spent(m)
    <2>1. IsFiniteSet(Copies(m))
        BY Zenon DEF SpentInv
    <2>2. IsFiniteSet(Copies(m)') /\ Cardinality(Copies(m)') <= Cardinality(Copies(m))
        BY <2>1, CopiesAreIn, CopiesOnCutWires, Zenon
    <2>3. Cardinality(Copies(m)') \in Nat
        BY <2>2, FS_CardinalityType, Zenon
    <2>4. Writing(m)' = Writing(m)
        BY Zenon DEF Writing
    <2> QED
        BY <2>1, <2>2, <2>3, <2>4, SpentIsNat DEF Spent
<1> QED
    BY <1>1, SpentUndisturbed, Zenon

\* What Send does to the copies of a signal.
LEMMA SendCopies ==
    ASSUME TypeOK, NEW c \in Conns, NEW f \in {Ack} \cup Signals, Send(c, f),
           NEW m \in Signals, IsFiniteSet(Copies(m))
    PROVE  /\ IsFiniteSet(Copies(m)')
           /\ Cardinality(Copies(m)') <= Cardinality(Copies(m)) + (IF f = m THEN 1 ELSE 0)
<1>1. wire \in [Conns -> Seq({Ack} \cup Signals)]
    BY Zenon DEF TypeOK, EndTypeOK
<1>2. CASE c \in down
    <2>1. wire' = wire
        BY <1>1, <1>2, Zenon DEF Send
    <2>2. Copies(m)' = Copies(m)
        BY <2>1 DEF Copies
    <2> QED
        BY <2>2, FS_CardinalityType
<1>3. CASE c \notin down
    <2>1. wire' = [wire EXCEPT ![c] = Append(@, f)]
        BY <1>3, Zenon DEF Send
    <2> QED
        BY <1>1, <2>1, CopiesAreIn, CopiesAfterAppend, Zenon
<1> QED
    BY <1>2, <1>3, Zenon

\* JetStream hands over a signal: the new number is larger than all that were used.
LEMMA DeliverSpent ==
    ASSUME TypeOK, TypeOK', SpentInv, InboxInv, NEW m \in Signals, Deliver(m)
    PROVE  SpentInv'
<1> DEFINE t == SubOf[m]
           d == [sig |-> m, n |-> delivered[m] + 1]
<1>0. /\ inbox \in [Subs -> Seq(Delivery)] /\ delivered \in [Signals -> Nat]
      /\ t \in Subs /\ delivered[m] + 1 \in Nat
    BY SubOfType DEF TypeOK, BusTypeOK
<1>a. d \in Delivery
    BY <1>0, Zenon DEF Delivery
<1>1. /\ UNCHANGED <<disp, wire, executed>>
      /\ inbox' = [inbox EXCEPT ![t] = Append(@, d)]
      /\ delivered' = [delivered EXCEPT ![m] = @ + 1]
    BY Zenon DEF Deliver, eaVars
<1>2. \A k \in Signals : Spent(k)' = Spent(k) /\ Copies(k)' = Copies(k)
    BY <1>1 DEF Spent, Writing, Copies
<1>3. \A k \in Signals : Spent(k) \in Nat
    BY SpentIsNat, ZenonT(40) DEF SpentInv
<1>4. \A k \in Signals : /\ IsFiniteSet(Copies(k)') /\ Spent(k)' <= MaxDeliver
                         /\ Spent(k)' <= delivered'[k]
    BY <1>0, <1>1, <1>2, <1>3, SMTT(30) DEF SpentInv
<1>5. ASSUME NEW s \in Subs, NEW k \in 1..Len(inbox'[s]), NEW x \in Signals, NEW y \in Nat,
             inbox'[s][k].sig = x, inbox'[s][k].n = y
      PROVE  /\ SubOf[x] = s /\ Spent(x) < y
             /\ \A j \in 1..Len(inbox'[s]) : j < k /\ inbox'[s][j].sig = x => inbox'[s][j].n < y
    <2>1. CASE s # t
        <3>1. inbox'[s] = inbox[s]
            BY <1>0, <1>1, <2>1, Zenon
        <3> QED
            BY <1>5, <3>1 DEF SpentInv, QueueInv
    <2>2. CASE s = t /\ k # Len(inbox[t]) + 1
        <3>1. /\ k \in 1..Len(inbox[t]) /\ inbox'[t][k] = inbox[t][k]
              /\ \A j \in 1..Len(inbox'[t]) : j < k => j \in 1..Len(inbox[t]) /\ inbox'[t][j] = inbox[t][j]
            BY <1>0, <1>1, <1>5, <2>2, SMTT(30)
        <3>2. inbox[t][k].sig = x /\ inbox[t][k].n = y
            BY <1>5, <2>2, <3>1, Zenon
        <3>3. /\ SubOf[x] = t /\ Spent(x) < inbox[t][k].n
              /\ \A j \in 1..Len(inbox[t]) :
                    j < k /\ inbox[t][j].sig = x => inbox[t][j].n < inbox[t][k].n
            BY <1>0, <3>1, <3>2, Zenon DEF SpentInv, QueueInv
        <3> HIDE DEF t
        <3> QED
            BY <2>2, <3>1, <3>2, <3>3, ZenonT(40)
    <2>3. CASE s = t /\ k = Len(inbox[t]) + 1
        <3>1. /\ inbox'[t][k] = d
              /\ \A j \in 1..Len(inbox'[t]) : j < k => j \in 1..Len(inbox[t]) /\ inbox'[t][j] = inbox[t][j]
            <4>1. inbox'[t] = Append(inbox[t], d) /\ inbox[t] \in Seq(Delivery)
                BY ONLY <1>0, <1>1, SMT
            <4> HIDE DEF d, t
            <4> QED
                BY ONLY <1>a, <2>3, <4>1, SMTT(30)
        <3>2. x = m /\ y = delivered[m] + 1
            <4>1. d.sig = x /\ d.n = y
                BY <1>5, <2>3, <3>1, Zenon
            <4> QED
                BY ONLY <4>1, SMT
        <3>3. Spent(x) < y
            <4>1. Spent(m) <= delivered[m] /\ Spent(m) \in Nat /\ delivered[m] \in Nat
                BY <1>0, <1>3, Zenon DEF SpentInv
            <4> QED
                BY ONLY <3>2, <4>1, SMT
        <3>4. ASSUME NEW j \in 1..Len(inbox'[t]), j < k, inbox'[t][j].sig = x
              PROVE  inbox'[t][j].n < y
            <4>1. j \in 1..Len(inbox[t]) /\ inbox'[t][j] = inbox[t][j]
                BY <3>1, <3>4, Zenon
            <4>a. inbox[t][j] \in Delivery
                BY <1>0, <4>1
            <4>2. inbox[t][j].n \in Nat
                BY <4>a, Zenon DEF Delivery
            <4>3. inbox[t][j].n <= delivered[m]
                BY <1>0, <3>2, <3>4, <4>1, Zenon DEF InboxInv
            <4> QED
                BY <1>0, <3>2, <4>1, <4>2, <4>3, SMTT(30)
        <3> QED
            BY <2>3, <3>2, <3>3, <3>4, Zenon
    <2> QED
        BY <2>1, <2>2, <2>3, ZenonT(40)
<1>6. QueueInv'
    <2> SUFFICES ASSUME NEW s \in Subs, NEW x \in Signals, NEW k \in 1..Len(inbox'[s]),
                        inbox'[s][k].sig = x
                 PROVE  /\ SubOf[x] = s
                        /\ Spent(x)' < inbox'[s][k].n
                        /\ \A j \in 1..Len(inbox'[s]) :
                              j < k /\ inbox'[s][j].sig = x => inbox'[s][j].n < inbox'[s][k].n
        BY Zenon DEF QueueInv
    <2>1. inbox'[s][k] \in Delivery
        BY DEF TypeOK, BusTypeOK
    <2>2. inbox'[s][k].n \in Nat
        BY <2>1, Zenon DEF Delivery
    <2> QED
        BY <1>2, <1>5, <2>2, SMTT(30)
<1>7. \A s \in Subs : disp'[s] # Idle => SubOf[disp'[s].sig] = s
    BY <1>1, Zenon DEF SpentInv
<1> QED
    BY <1>4, <1>6, <1>7, Zenon DEF SpentInv

\* A lookup takes the first delivery off the queue. It uses that delivery's number at
\* most, and the numbers behind it are larger.
LEMMA LookupSpent ==
    ASSUME TypeOK, TypeOK', SpentInv, InboxInv, NEW s \in Subs, Lookup(s)
    PROVE  SpentInv'
<1>a. Head(inbox[s]).sig \in Signals /\ Head(inbox[s]).n \in Nat
    BY HeadOfInbox, Zenon DEF Lookup, TypeOK
<1> PICK m \in Signals, n \in Nat : m = Head(inbox[s]).sig /\ n = Head(inbox[s]).n
    BY <1>a, Zenon
<1>0. /\ inbox[s][1].sig = m /\ inbox[s][1].n = n
      /\ 1 \in 1..Len(inbox[s])
      /\ inbox \in [Subs -> Seq(Delivery)] /\ delivered \in [Signals -> Nat]
      /\ inbox[s] # <<>>
    BY HeadOfInbox, Zenon DEF Lookup, TypeOK, BusTypeOK
<1>1. /\ UNCHANGED <<delivered, wire, executed>> /\ disp[s] = Idle
      /\ inbox' = [inbox EXCEPT ![s] = Tail(@)]
    BY Zenon DEF Lookup, eaVars
<1>2. /\ SubOf[m] = s /\ Spent(m) < n /\ n <= delivered[m]
    BY <1>0 DEF SpentInv, QueueInv, InboxInv
<1>3. \A k \in Signals : /\ Copies(k)' = Copies(k) /\ IsFiniteSet(Copies(k))
                         /\ Spent(k) \in Nat
    <2> SUFFICES ASSUME NEW k \in Signals
                 PROVE  Copies(k)' = Copies(k) /\ IsFiniteSet(Copies(k)) /\ Spent(k) \in Nat
        BY Zenon
    <2>1. IsFiniteSet(Copies(k))
        BY Zenon DEF SpentInv
    <2>2. Copies(k)' = Copies(k)
        BY <1>1, SMTT(30) DEF Copies
    <2> QED
        BY <2>1, <2>2, SpentIsNat, Zenon
<1>4. /\ \A k \in Signals : \/ Spent(k)' = Spent(k)
                            \/ k = m /\ n <= MaxDeliver /\ Spent(k)' = Spent(k) + 1
      /\ \A t \in Subs : disp'[t] # Idle => SubOf[disp'[t].sig] = t
    <2>1. CASE disp' = disp
        <3>1. \A k \in Signals : Spent(k)' = Spent(k)
            BY <1>1, <1>3, <2>1, Zenon DEF Spent, Writing
        <3> QED
            BY <2>1, <3>1, Zenon DEF SpentInv
    <2>2. CASE /\ ~GivesUp(m, n)
               /\ disp' = [disp EXCEPT ![s] = [at |-> "writing", sig |-> m, conn |-> Get(m)]]
        <3>0. disp \in [Subs -> {Idle} \cup Busy] /\ n <= MaxDeliver
            BY <1>0, <2>2, MaxDeliverNat DEF TypeOK, BusTypeOK, GivesUp
        <3>1. /\ disp'[s] = [at |-> "writing", sig |-> m, conn |-> Get(m)]
              /\ \A t \in Subs : t # s => disp'[t] = disp[t]
            BY <2>2, <3>0, Zenon
        <3>2. ASSUME NEW k \in Signals, k # m PROVE Writing(k)' = Writing(k)
            <4>1. CASE SubOf[k] # s
                BY <3>1, <4>1, SubOfType, Zenon DEF Writing
            <4>2. CASE SubOf[k] = s
                <5>1. Writing(k)' = 0
                    <6>1. disp'[SubOf[k]].sig # k
                        BY ONLY <3>1, <3>2, <4>2, SMTT(30)
                    <6> QED
                        BY <6>1, Zenon DEF Writing
                <5>2. Writing(k) = 0
                    BY <1>1, <4>2, Zenon DEF Writing
                <5> QED
                    BY <5>1, <5>2, Zenon
            <4> QED
                BY <4>1, <4>2, Zenon
        <3>3. Writing(m) = 0 /\ Writing(m)' = 1
            <4>1. disp'[s] # Idle /\ disp'[s].at = "writing" /\ disp'[s].sig = m
                BY <3>1 DEF Idle
            <4> QED
                BY <1>1, <1>2, <4>1, SMTT(30) DEF Writing
        <3>4. ASSUME NEW k \in Signals PROVE executed[k] \in Nat /\ Cardinality(Copies(k)) \in Nat
            BY <1>3, SpentIsNat, Zenon
        <3>5. \A k \in Signals : k # m => Spent(k)' = Spent(k)
            BY <1>1, <1>3, <3>2, Zenon DEF Spent
        <3>6. Spent(m)' = Spent(m) + 1
            <4>1. executed'[m] = executed[m] /\ Cardinality(Copies(m)') = Cardinality(Copies(m))
                BY <1>0, <1>1, <1>3, Zenon
            <4>2. executed[m] \in Nat /\ Cardinality(Copies(m)) \in Nat
                BY <1>0, <3>4, Zenon
            <4> QED
                BY <3>3, <4>1, <4>2, SMTT(30) DEF Spent
        <3>7. \A t \in Subs : disp'[t] # Idle => SubOf[disp'[t].sig] = t
            <4> SUFFICES ASSUME NEW t \in Subs, disp'[t] # Idle PROVE SubOf[disp'[t].sig] = t
                BY Zenon
            <4>1. CASE t = s
                BY <1>2, <3>1, <4>1, SMTT(30)
            <4>2. CASE t # s
                BY <3>1, <4>2, Zenon DEF SpentInv
            <4> QED
                BY <4>1, <4>2, Zenon
        <3> QED
            BY <3>0, <3>5, <3>6, <3>7, Zenon
    <2> QED
        BY <2>1, <2>2, Zenon DEF Lookup
<1>5. \A k \in Signals : /\ IsFiniteSet(Copies(k)')
                         /\ Spent(k)' <= MaxDeliver /\ Spent(k)' <= delivered'[k]
                         /\ Spent(k)' \in Nat /\ (k # m => Spent(k)' = Spent(k)) /\ (k = m => Spent(k)' <= n)
    <2> SUFFICES ASSUME NEW k \in Signals
                 PROVE  /\ IsFiniteSet(Copies(k)')
                        /\ Spent(k)' <= MaxDeliver /\ Spent(k)' <= delivered'[k]
                        /\ Spent(k)' \in Nat /\ (k # m => Spent(k)' = Spent(k)) /\ (k = m => Spent(k)' <= n)
        BY Zenon
    <2>1. /\ IsFiniteSet(Copies(k)') /\ Spent(k) \in Nat
          /\ Spent(k) <= MaxDeliver /\ Spent(k) <= delivered[k]
          /\ delivered'[k] = delivered[k] /\ delivered[k] \in Nat
        BY <1>0, <1>1, <1>3, Zenon DEF SpentInv
    <2>2. k = m => Spent(k) < n /\ n <= delivered[k]
        BY <1>2, Zenon
    <2>3. \/ Spent(k)' = Spent(k)
          \/ k = m /\ n <= MaxDeliver /\ Spent(k)' = Spent(k) + 1
        BY <1>4, Zenon
    <2>4. n \in Nat
        BY Zenon
    <2> QED
        BY ONLY <2>1, <2>2, <2>3, <2>4, MaxDeliverNat, SMTT(30)
<1>6. QueueInv'
    <2> SUFFICES ASSUME NEW t \in Subs, NEW x \in Signals, NEW k \in 1..Len(inbox'[t]),
                        inbox'[t][k].sig = x
                 PROVE  /\ SubOf[x] = t
                        /\ Spent(x)' < inbox'[t][k].n
                        /\ \A j \in 1..Len(inbox'[t]) :
                              j < k /\ inbox'[t][j].sig = x => inbox'[t][j].n < inbox'[t][k].n
        BY Zenon DEF QueueInv
    <2>1. CASE t # s
        <3>1. inbox'[t] = inbox[t]
            BY <1>0, <1>1, <2>1, Zenon
        <3>2. SubOf[x] = t /\ Spent(x) < inbox[t][k].n
            BY <3>1, Zenon DEF SpentInv, QueueInv
        <3>3. x # m
            BY <1>2, <2>1, <3>2, Zenon
        <3>4. Spent(x)' = Spent(x)
            BY <1>5, <3>3, Zenon
        <3> QED
            <4>1. QueueInv
                BY Zenon DEF SpentInv
            <4>2. inbox[t][k].sig = x /\ k \in 1..Len(inbox[t])
                BY <3>1, Zenon
            <4> QED
                BY ONLY <3>1, <3>2, <3>4, <4>1, <4>2, t \in Subs, x \in Signals, SMTT(30) DEF QueueInv
    <2>2. CASE t = s
        <3>1. /\ \A j \in 1..Len(inbox'[s]) : j + 1 \in 1..Len(inbox[s]) /\ inbox'[s][j] = inbox[s][j + 1]
              /\ k + 1 \in 1..Len(inbox[s]) /\ inbox'[s][k] = inbox[s][k + 1]
            <4>1. inbox'[s] = Tail(inbox[s]) /\ inbox[s] \in Seq(Delivery)
                BY ONLY <1>0, <1>1, s \in Subs, SMT
            <4> QED
                BY <1>0, <2>2, <4>1, TailAt, Zenon
        <3>a. inbox[s][k + 1] \in Delivery
            BY <1>0, <3>1
        <3>2. inbox[s][k + 1].n \in Nat
            BY <3>a, Zenon DEF Delivery
        <3>3. /\ SubOf[x] = s /\ Spent(x) < inbox[s][k + 1].n
              /\ \A j \in 1..Len(inbox[s]) :
                    j < k + 1 /\ inbox[s][j].sig = x => inbox[s][j].n < inbox[s][k + 1].n
            BY <2>2, <3>1, Zenon DEF SpentInv, QueueInv
        <3>4. x = m => n < inbox[s][k + 1].n
            <4>1. 1 < k + 1
                OBVIOUS
            <4> QED
                BY <1>0, <3>3, <4>1, Zenon
        <3>5. Spent(x)' < inbox[s][k + 1].n
            <4>1. /\ Spent(x)' \in Nat /\ (x # m => Spent(x)' = Spent(x)) /\ (x = m => Spent(x)' <= n)
                  /\ n \in Nat
                BY <1>5, Zenon
            <4> QED
                BY ONLY <4>1, <3>2, <3>3, <3>4, SMTT(30)
        <3>6. ASSUME NEW j \in 1..Len(inbox'[s]), j < k, inbox'[s][j].sig = x
              PROVE  inbox'[s][j].n < inbox'[s][k].n
            <4>1. j \in Int /\ k \in Int
                OBVIOUS
            <4>2. j + 1 < k + 1
                BY <3>6, <4>1
            <4>3. j + 1 \in 1..Len(inbox[s]) /\ inbox'[s][j] = inbox[s][j + 1]
                BY <3>1, <3>6, Zenon
            <4>4. inbox[s][j + 1].sig = x
                BY <3>6, <4>3, Zenon
            <4>5. inbox[s][j + 1].n < inbox[s][k + 1].n
                BY <3>3, <4>2, <4>3, <4>4, Zenon
            <4> QED
                BY <3>1, <4>3, <4>5, Zenon
        <3> QED
            BY <2>2, <3>1, <3>3, <3>5, <3>6, Zenon
    <2> QED
        BY <2>1, <2>2, Zenon
<1> QED
    BY <1>4, <1>5, <1>6, Zenon DEF SpentInv

\* A write turns the dispatch into a copy, or gives the delivery up.
LEMMA WriteSpent ==
    ASSUME TypeOK, TypeOK', SpentInv, NEW s \in Subs, Write(s)
    PROVE  SpentInv'
<1>0. /\ disp[s] \in Busy /\ disp[s] # Idle /\ disp[s].at = "writing"
      /\ disp \in [Subs -> {Idle} \cup Busy]
    BY BusyDispatch, Zenon DEF Write, TypeOK, BusTypeOK
<1>a. disp[s].sig \in Signals /\ disp[s].conn \in Conns
    BY <1>0, Zenon DEF Busy
<1> PICK m \in Signals, c \in Conns : m = disp[s].sig /\ c = disp[s].conn
    BY <1>a, Zenon
<1>1. SubOf[m] = s
    BY <1>0, Zenon DEF SpentInv
<1>2. UNCHANGED <<delivered, inbox, executed>>
    BY Zenon DEF Write, eaVars
<1>3. /\ \A t \in Subs : disp'[t] # Idle => disp[t] # Idle /\ disp'[t].sig = disp[t].sig
      /\ \A t \in Subs : t # s => disp'[t] = disp[t]
      /\ disp'[s] = Idle \/ disp'[s].at = "acking"
    <2>1. CASE disp' = [disp EXCEPT ![s].at = "acking"]
        <3>1. disp'[s] = [disp[s] EXCEPT !.at = "acking"] /\ \A t \in Subs : t # s => disp'[t] = disp[t]
            BY <1>0, <2>1, Zenon
        <3>2. disp'[s].at = "acking" /\ disp'[s].sig = disp[s].sig
            BY <1>0, <3>1, Zenon DEF Busy
        <3> QED
            BY <1>0, <3>1, <3>2, Zenon
    <2>2. CASE disp' = [disp EXCEPT ![s] = Idle]
        BY <1>0, <2>2, Zenon
    <2> QED
        BY <2>1, <2>2, Zenon DEF Write
<1>4. \/ Send(c, m)
      \/ wire' = wire
    BY Zenon DEF Write
<1>5. Writing(m) = 1 /\ Writing(m)' = 0
    <2>1. Writing(m)' = 0
        BY <1>1, <1>3, Zenon DEF Writing
    <2>2. Writing(m) = 1
        BY <1>0, <1>1, Zenon DEF Writing
    <2> QED
        BY <2>1, <2>2, Zenon
<1>6. ASSUME NEW k \in Signals, k # m PROVE Writing(k)' = Writing(k)
    <2>1. CASE SubOf[k] = s
        <3>1. Writing(k) = 0
            BY <1>6, <2>1, Zenon DEF Writing
        <3>2. Writing(k)' = 0
            BY <1>3, <2>1, Zenon DEF Writing
        <3> QED
            BY <3>1, <3>2, Zenon
    <2>2. CASE SubOf[k] # s
        BY <1>3, <2>2, SubOfType, Zenon DEF Writing
    <2> QED
        BY <2>1, <2>2, Zenon
<1>7. ASSUME NEW k \in Signals PROVE IsFiniteSet(Copies(k)') /\ Spent(k)' <= Spent(k)
    <2>1. IsFiniteSet(Copies(k))
        BY Zenon DEF SpentInv
    <2>2. /\ IsFiniteSet(Copies(k)')
          /\ Cardinality(Copies(k)') <= Cardinality(Copies(k)) + (IF m = k THEN 1 ELSE 0)
        <3>1. CASE Send(c, m)
            BY <1>1, <2>1, <3>1, SendCopies, Zenon
        <3>2. CASE wire' = wire
            <4>1. Copies(k)' = Copies(k)
                BY <3>2 DEF Copies
            <4> QED
                BY <2>1, <4>1, FS_CardinalityType
        <3> QED
            BY <1>4, <3>1, <3>2, Zenon
    <2>3. Cardinality(Copies(k)') \in Nat
        BY <2>2, FS_CardinalityType, Zenon
    <2>4. executed[k] \in Nat /\ Cardinality(Copies(k)) \in Nat /\ executed'[k] = executed[k]
          /\ Writing(k) \in {0, 1}
        BY <1>2, <2>1, SpentIsNat, Zenon
    <2>5. CASE k = m
        BY ONLY <1>5, <2>2, <2>3, <2>4, <2>5, SMTT(30) DEF Spent
    <2>6. CASE k # m
        <3>1. Writing(k)' = Writing(k)
            BY <1>6, <2>6, Zenon
        <3> QED
            BY ONLY <2>2, <2>3, <2>4, <2>6, <3>1, SMTT(30) DEF Spent
    <2> QED
        BY <2>2, <2>5, <2>6, Zenon
<1> QED
    BY <1>2, <1>3, <1>7, SpentUndisturbed, Zenon

\* The EA takes a frame off the wire: what it executes was a copy.
LEMMA ReceiveSpent ==
    ASSUME TypeOK, TypeOK', SpentInv, NEW c \in Conns, EAReceive(c)
    PROVE  SpentInv'
<1> DEFINE f == Head(wire[c])
<1>0. /\ wire \in [Conns -> Seq({Ack} \cup Signals)] /\ wire[c] # <<>>
      /\ wire' = [wire EXCEPT ![c] = Tail(@)]
      /\ executed \in [Signals -> Nat]
    BY Zenon DEF TypeOK, EndTypeOK, EAReceive
<1>1. UNCHANGED <<delivered, inbox, disp>>
    BY Zenon DEF EAReceive, busVars
<1>2. \A k \in Signals : \/ executed'[k] = executed[k]
                         \/ k = f /\ executed'[k] = executed[k] + 1
    BY <1>0, Zenon DEF EAReceive, ExecuteSignal
<1>3. ASSUME NEW k \in Signals PROVE IsFiniteSet(Copies(k)') /\ Spent(k)' <= Spent(k)
    <2>1. IsFiniteSet(Copies(k))
        BY Zenon DEF SpentInv
    <2>2. /\ IsFiniteSet(Copies(k)')
          /\ Cardinality(Copies(k)') + (IF f = k THEN 1 ELSE 0) <= Cardinality(Copies(k))
        BY <1>0, <2>1, CopiesAreIn, CopiesAfterTail, Zenon
    <2>3. Cardinality(Copies(k)') \in Nat
        BY <2>2, FS_CardinalityType, Zenon
    <2>4. executed[k] \in Nat /\ Cardinality(Copies(k)) \in Nat /\ Writing(k) \in {0, 1}
        BY <2>1, SpentIsNat, Zenon
    <2>5. Writing(k)' = Writing(k)
        BY <1>1, Zenon DEF Writing
    <2> HIDE DEF f
    <2> QED
        BY <1>2, <2>2, <2>3, <2>4, <2>5 DEF Spent
<1> QED
    BY <1>1, <1>3, SpentUndisturbed, Zenon

\* The other steps.
LEMMA OtherSpent ==
    ASSUME TypeOK, TypeOK', SpentInv,
           \/ \E s \in Subs : AckSignal(s)
           \/ \E c \in Conns : SendRegistered(c)
           \/ Restart
    PROVE  SpentInv'
<1>1. ASSUME NEW s \in Subs, AckSignal(s) PROVE SpentInv'
    <2>0. disp \in [Subs -> {Idle} \cup Busy]
        BY Zenon DEF TypeOK, BusTypeOK
    <2>1. UNCHANGED <<delivered, inbox, wire, executed>> /\ disp[s].at = "acking"
          /\ disp' = [disp EXCEPT ![s] = Idle]
        BY <1>1, Zenon DEF AckSignal, eaVars
    <2>2. ASSUME NEW k \in Signals PROVE IsFiniteSet(Copies(k)') /\ Spent(k)' <= Spent(k)
        <3>1. Copies(k)' = Copies(k) /\ executed' = executed
            BY <2>1 DEF Copies
        <3>a. IsFiniteSet(Copies(k))
            BY Zenon DEF SpentInv
        <3>2. Writing(k)' = Writing(k)
            BY <2>0, <2>1, SubOfType, Zenon DEF Writing
        <3> QED
            BY <3>1, <3>a, <3>2, SpentIsNat DEF Spent
    <2> QED
        BY <2>0, <2>1, <2>2, SpentUndisturbed, Zenon
<1>2. ASSUME NEW c \in Conns, SendRegistered(c) PROVE SpentInv'
    <2>1. UNCHANGED <<delivered, inbox, disp, executed>> /\ Send(c, Ack)
        BY <1>2, Zenon DEF SendRegistered, busVars, eaVars
    <2>2. ASSUME NEW k \in Signals PROVE IsFiniteSet(Copies(k)') /\ Spent(k)' <= Spent(k)
        <3>1. k # Ack
            BY AckFresh, Zenon DEF Ack
        <3>2. IsFiniteSet(Copies(k))
            BY Zenon DEF SpentInv
        <3>3. IsFiniteSet(Copies(k)') /\ Cardinality(Copies(k)') <= Cardinality(Copies(k)) + 0
            BY <2>1, <3>1, <3>2, SendCopies, Zenon
        <3>4. Writing(k)' = Writing(k)
            BY <2>1, Zenon DEF Writing
        <3>5. Cardinality(Copies(k)') \in Nat
            BY <3>3, FS_CardinalityType, Zenon
        <3> QED
            BY <2>1, <3>2, <3>3, <3>4, <3>5, SpentIsNat DEF Spent
    <2> QED
        BY <2>1, <2>2, SpentUndisturbed, Zenon
<1>3. CASE Restart
    <2>1. UNCHANGED <<delivered, wire, executed>> /\ inbox' = [s \in Subs |-> <<>>]
          /\ disp' = [s \in Subs |-> Idle]
        BY <1>3, Zenon DEF Restart, eaVars
    <2>2. ASSUME NEW k \in Signals PROVE IsFiniteSet(Copies(k)') /\ Spent(k)' <= Spent(k)
        <3>1. Copies(k)' = Copies(k) /\ executed' = executed
            BY <2>1 DEF Copies
        <3>a. IsFiniteSet(Copies(k))
            BY Zenon DEF SpentInv
        <3>2. Writing(k)' = 0
            BY <2>1, SubOfType, Zenon DEF Writing
        <3> QED
            BY <3>1, <3>a, <3>2, SpentIsNat DEF Spent
    <2> QED
        BY <2>1, <2>2, SpentUndisturbed, Zenon
<1> QED
    BY <1>1, <1>2, <1>3, Zenon

\* Nothing has been used when the bridge starts.
LEMMA InitSpentInv == Init => SpentInv
<1> SUFFICES ASSUME Init PROVE SpentInv
    BY Zenon
<1>1. ASSUME NEW m \in Signals PROVE Copies(m) = {} /\ Writing(m) = 0
    BY SubOfType DEF Init, Copies, Writing
<1>2. \A m \in Signals : IsFiniteSet(Copies(m)) /\ Spent(m) = 0 /\ delivered[m] = 0
    <2>1. IsFiniteSet({}) /\ Cardinality({}) = 0
        BY FS_EmptySet, Zenon
    <2>2. \A m \in Signals : executed[m] = 0 /\ delivered[m] = 0
        BY Zenon DEF Init
    <2> QED
        BY <1>1, <2>1, <2>2 DEF Spent
<1>3. QueueInv
    BY DEF Init, QueueInv
<1>4. \A s \in Subs : disp[s] = Idle
    BY Zenon DEF Init
<1> QED
    BY <1>2, <1>3, <1>4, MaxDeliverNat DEF SpentInv

\* No step of the stream, the bridge, the network or the EA uses a delivery twice.
LEMMA NextSpentInv == DeliveryInv /\ SpentInv /\ [Next]_vars /\ DeliveryInv' => SpentInv'
<1> SUFFICES ASSUME DeliveryInv, SpentInv, [Next]_vars, DeliveryInv' PROVE SpentInv'
    BY Zenon
<1>0. TypeOK /\ TypeOK' /\ InboxInv
    BY Zenon DEF DeliveryInv, RouteInv
<1>1. CASE UNCHANGED vars
    BY <1>1, QuietSpent, Zenon DEF vars, busVars, eaVars
<1>2. ASSUME NEW m \in Signals, SignalAccepted(m) \/ AckWaitExpires(m) PROVE SpentInv'
    BY <1>2, QuietSpent, Zenon DEF SignalAccepted, AckWaitExpires, eaVars
<1>3. ASSUME NEW m \in Signals, Deliver(m) PROVE SpentInv'
    BY <1>0, <1>3, DeliverSpent, Zenon
<1>4. ASSUME NEW s \in Subs, Dispatch(s) PROVE SpentInv'
    BY <1>0, <1>4, LookupSpent, WriteSpent, OtherSpent, Zenon DEF Dispatch
<1>5. ASSUME NEW c \in Conns, NEW i \in Instances, EAConnect(c, i) PROVE SpentInv'
    BY <1>0, <1>5, CutSpent, Zenon DEF EAConnect, busVars
<1>6. ASSUME NEW c \in Conns, LinkDies(c) PROVE SpentInv'
    <2>1. wire \in [Conns -> Seq({Ack} \cup Signals)]
        BY <1>0, Zenon DEF TypeOK, EndTypeOK
    <2> QED
        BY <1>0, <1>6, <2>1, CutSpent, Zenon DEF LinkDies, busVars
<1>7. ASSUME NEW c \in Conns, EAReceive(c) PROVE SpentInv'
    BY <1>0, <1>7, ReceiveSpent, Zenon
<1>8. ASSUME NEW c \in Conns, HubJoin(c) \/ HandlerEnds(c) \/ SocketCloses(c) PROVE SpentInv'
    BY <1>8, QuietSpent, Zenon DEF HubJoin, HandlerEnds, SocketCloses, busVars, eaVars
<1>9. ASSUME NEW c \in Conns, NEW m \in Signals, HandleFill(m, c) PROVE SpentInv'
    BY <1>9, QuietSpent, Zenon DEF HandleFill, busVars, eaVars
<1>10. ASSUME NEW c \in Conns, SendRegistered(c) PROVE SpentInv'
    BY <1>0, <1>10, OtherSpent, Zenon
<1>11. CASE Restart
    BY <1>0, <1>11, OtherSpent, Zenon
<1> QED
    BY <1>1, <1>2, <1>3, <1>4, <1>5, <1>6, <1>7, <1>8, <1>9, <1>10, <1>11, Zenon DEF Next

\* However often a signal is redelivered, written to a dead peer, or caught by a restart,
\* the EA executes it at most maxDeliverBeforeTerm times, copies on the wire included.
THEOREM ExecutionsWithinLimit == Spec => []ExecutionsBounded
<1>1. SpentInv /\ DeliveryInv => ExecutionsBounded
    <2> SUFFICES ASSUME SpentInv, DeliveryInv, NEW m \in Signals
                 PROVE  executed[m] + Cardinality(Copies(m)) <= MaxDeliver
        BY Zenon DEF ExecutionsBounded
    <2>1. TypeOK /\ IsFiniteSet(Copies(m)) /\ Spent(m) <= MaxDeliver
        BY Zenon DEF SpentInv, DeliveryInv
    <2> QED
        BY <2>1, SpentIsNat, MaxDeliverNat DEF Spent
<1>2. Init => SpentInv
    BY InitSpentInv, Zenon
<1>3. DeliveryInv /\ SpentInv /\ [Next]_vars /\ DeliveryInv' => SpentInv'
    BY NextSpentInv, Zenon
<1> QED
    BY <1>1, <1>2, <1>3, DeliveryInvariant, PTL DEF Spec

=============================================================================
