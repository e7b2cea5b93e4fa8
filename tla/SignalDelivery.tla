--------------------------- MODULE SignalDelivery ---------------------------
(***************************************************************************)
(* The path of an accepted signal: the SIGNALS stream and the bridge's     *)
(* durable consumers (NATS JetStream, external), Subscriber.dispatch       *)
(* (apps/bridge/internal/bridge/subscriber.go), the socket, the EA         *)
(* (ea/mt5/ExecRelay.mq5) and the fill that comes back through             *)
(* handleEAMessage (handler.go).                                           *)
(*                                                                         *)
(* The hub is the abstract directory of ConnDirectory, which BridgeHub     *)
(* implements.  Every subscription runs its callbacks one at a time; the   *)
(* stages of one dispatch are: look the connection up, write, ack.         *)
(***************************************************************************)
EXTENDS ConnDirectory, Integers, Sequences

CONSTANTS Signals,      \* messages of the SIGNALS stream
          Subs,         \* the bridge's subscriptions (mt5, mt4)
          InstOf,       \* Signal.InstanceId
          SubOf,        \* the subscription whose subject matches the signal
          Garbled,      \* signals oldproto.Unmarshal rejects
          MaxDeliver,   \* maxDeliverBeforeTerm
          MaxFaults,    \* bound: lost acks and ack waits that expire too early
          MaxDrops,     \* bound: connections the network kills
          MaxRestarts   \* bound: bridge restarts

ASSUME InstOfType == InstOf \in [Signals -> Instances]
ASSUME SubOfType == SubOf \in [Signals -> Subs]
ASSUME GarbledType == Garbled \subseteq Signals
ASSUME AckFresh == "registered" \notin Signals
ASSUME MaxDeliverNat == MaxDeliver \in Nat
ASSUME BoundsNat == MaxFaults \in Nat /\ MaxDrops \in Nat /\ MaxRestarts \in Nat

VARIABLES
    js,         \* a signal's state in its consumer
    delivered,  \* NumDelivered
    inbox,      \* deliveries queued at each subscription
    disp,       \* what each subscription's callback is doing
    wire,       \* frames on their way to the EA, per connection
    session,    \* the socket each instance's EA holds
    dialled,    \* the instance whose EA opened a connection
    down,       \* connections whose EA end is dead
    registered, \* connections on which the EA has seen "registered"
    executed,   \* how often the EA executed each signal
    upfills,    \* fills on their way to the bridge
    reported,   \* signals with a fill in the FILLS stream
    written,    \* <<signal, connection>> pairs the bridge wrote
    faults, restarts

busVars  == <<js, delivered, inbox>>
eaVars   == <<session, dialled, down, registered, executed>>
fillVars == <<upfills, reported>>
budget   == <<faults, restarts>>
vars == <<dirVars, busVars, disp, wire, eaVars, fillVars, written, budget>>

Ack == "registered"
Idle == [at |-> "idle"]
Busy == [at : {"writing", "acking"}, sig : Signals, conn : Conns]
Delivery == [sig : Signals, n : Nat]
Settled == {"acked", "termed"}

BusTypeOK ==
    /\ js \in [Signals -> {"unsent", "waiting", "inflight"} \cup Settled]
    /\ delivered \in [Signals -> Nat]
    /\ inbox \in [Subs -> Seq(Delivery)]
    /\ disp \in [Subs -> {Idle} \cup Busy]

EndTypeOK ==
    /\ wire \in [Conns -> Seq({Ack} \cup Signals)]
    /\ session \in [Instances -> Conns \cup {NoConn}]
    /\ dialled \in [Conns -> Instances \cup {NoInst}]
    /\ down \in SUBSET Conns
    /\ registered \in SUBSET Conns
    /\ executed \in [Signals -> Nat]
    /\ upfills \in SUBSET (Signals \X Conns)
    /\ reported \in SUBSET Signals
    /\ written \in SUBSET (Signals \X Conns)
    /\ faults \in Nat
    /\ restarts \in Nat

TypeOK == DirTypeOK /\ BusTypeOK /\ EndTypeOK

Init ==
    /\ DirInit
    /\ js = [m \in Signals |-> "unsent"]
    /\ delivered = [m \in Signals |-> 0]
    /\ inbox = [s \in Subs |-> <<>>]
    /\ disp = [s \in Subs |-> Idle]
    /\ wire = [c \in Conns |-> <<>>]
    /\ session = [i \in Instances |-> NoConn]
    /\ dialled = [c \in Conns |-> NoInst]
    /\ down = {}
    /\ registered = {}
    /\ executed = [m \in Signals |-> 0]
    /\ upfills = {}
    /\ reported = {}
    /\ written = {}
    /\ faults = 0
    /\ restarts = 0

-----------------------------------------------------------------------------
(* JetStream (external).                                                   *)

\* Ingress publishes an accepted signal.
SignalAccepted(m) ==
    /\ js[m] = "unsent"
    /\ js' = [js EXCEPT ![m] = "waiting"]
    /\ UNCHANGED <<dirVars, delivered, inbox, disp, wire, eaVars, fillVars,
                   written, budget>>

Deliver(m) ==
    /\ js[m] = "waiting"
    /\ js' = [js EXCEPT ![m] = "inflight"]
    /\ delivered' = [delivered EXCEPT ![m] = @ + 1]
    /\ inbox' = [inbox EXCEPT ![SubOf[m]] =
                    Append(@, [sig |-> m, n |-> delivered[m] + 1])]
    /\ UNCHANGED <<dirVars, disp, wire, eaVars, fillVars, written, budget>>

\* The bridge still holds a delivery of m that it has not answered.
Held(m) ==
    \/ \E k \in DOMAIN inbox[SubOf[m]] : inbox[SubOf[m]][k].sig = m
    \/ disp[SubOf[m]] # Idle /\ disp[SubOf[m]].sig = m

\* AckWait passes: expected when the answer was lost, a fault when the bridge
\* is merely slow.
AckWaitExpires(m) ==
    /\ js[m] = "inflight"
    /\ IF Held(m) THEN faults < MaxFaults /\ faults' = faults + 1
                  ELSE faults' = faults
    /\ js' = [js EXCEPT ![m] = "waiting"]
    /\ UNCHANGED <<dirVars, delivered, inbox, disp, wire, eaVars, fillVars,
                   written, restarts>>

\* An answer to the server.  The first one settles the message; the error of a
\* lost one is ignored by dispatch.
Answer(m, state) ==
    \/ /\ js' = [js EXCEPT ![m] = IF @ \in Settled THEN @ ELSE state]
       /\ faults' = faults
    \/ /\ faults < MaxFaults
       /\ faults' = faults + 1
       /\ js' = js

-----------------------------------------------------------------------------
(* Subscriber.dispatch.                                                    *)

\* Mutant: deliveries are not counted.
GivesUpNever(m, n) == m \in Garbled

\* Too many deliveries, or a message that does not decode.
GivesUp(m, n) == n > MaxDeliver \/ m \in Garbled

\* hub.Get(signal.InstanceId).
Get(m) == cur[InstOf[m]]

Missed(c) == c = NoConn

\* From the callback's start to hub.Get: what cannot be routed is answered at
\* once, anything else goes on to the write.
Lookup(s) ==
    /\ disp[s] = Idle
    /\ inbox[s] # <<>>
    /\ inbox' = [inbox EXCEPT ![s] = Tail(@)]
    /\ LET m == Head(inbox[s]).sig
           n == Head(inbox[s]).n
           c == Get(m)
       IN  \/ /\ GivesUp(m, n)
              /\ Answer(m, "termed")
              /\ UNCHANGED disp
           \/ /\ ~GivesUp(m, n) /\ Missed(c)
              /\ Answer(m, "waiting")
              /\ UNCHANGED disp
           \/ /\ ~GivesUp(m, n) /\ ~Missed(c)
              /\ disp' = [disp EXCEPT ![s] =
                             [at |-> "writing", sig |-> m, conn |-> c]]
              /\ UNCHANGED <<js, faults>>
    /\ UNCHANGED <<dirVars, delivered, wire, eaVars, fillVars, written,
                   restarts>>

\* A frame the peer can no longer read is lost without an error.
Send(c, frame) ==
    wire' = [wire EXCEPT ![c] = IF c \in down THEN @ ELSE Append(@, frame)]

\* Mutant: the error of the write is logged and the signal acked.
WriteAcksAnyway(s) ==
    /\ disp[s].at = "writing"
    /\ LET m == disp[s].sig
           c == disp[s].conn
       IN  \/ /\ c \notin shut
              /\ Send(c, m)
              /\ written' = written \cup {<<m, c>>}
           \/ /\ c \in shut \cup down
              /\ UNCHANGED <<wire, written>>
    /\ disp' = [disp EXCEPT ![s].at = "acking"]
    /\ UNCHANGED <<dirVars, busVars, eaVars, fillVars, budget>>

\* Mutant: a failed write is tried again in place.
WriteHangsOnError(s) ==
    /\ disp[s].at = "writing"
    /\ disp[s].conn \notin shut
    /\ Send(disp[s].conn, disp[s].sig)
    /\ written' = written \cup {<<disp[s].sig, disp[s].conn>>}
    /\ disp' = [disp EXCEPT ![s].at = "acking"]
    /\ UNCHANGED <<dirVars, busVars, eaVars, fillVars, budget>>

\* conn.WriteJSON on the connection found earlier, whatever became of it.
Write(s) ==
    /\ disp[s].at = "writing"
    /\ LET m == disp[s].sig
           c == disp[s].conn
       IN  \/ /\ c \notin shut
              /\ Send(c, m)
              /\ written' = written \cup {<<m, c>>}
              /\ disp' = [disp EXCEPT ![s].at = "acking"]
              /\ UNCHANGED <<js, faults>>
           \/ /\ c \in shut \cup down
              /\ Answer(m, "waiting")
              /\ disp' = [disp EXCEPT ![s] = Idle]
              /\ UNCHANGED <<wire, written>>
    /\ UNCHANGED <<dirVars, delivered, inbox, eaVars, fillVars, restarts>>

AckSignal(s) ==
    /\ disp[s].at = "acking"
    /\ Answer(disp[s].sig, "acked")
    /\ disp' = [disp EXCEPT ![s] = Idle]
    /\ UNCHANGED <<dirVars, delivered, inbox, wire, eaVars, fillVars, written,
                   restarts>>

-----------------------------------------------------------------------------
(* The EA.                                                                 *)

\* WsConnect: the old socket is closed first, and a register frame follows.
EAConnect(c, i) ==
    /\ session[i] \in {NoConn} \cup down \cup shut
    /\ Open(c)
    /\ session' = [session EXCEPT ![i] = c]
    /\ dialled' = [dialled EXCEPT ![c] = i]
    /\ down' = down \cup ({session[i]} \ {NoConn})
    /\ wire' = [d \in Conns |-> IF d = session[i] THEN <<>> ELSE wire[d]]
    /\ UNCHANGED <<busVars, disp, registered, executed, fillVars, written,
                   budget>>

\* SendFill: the EA does not notice that the socket has been closed.
SendFill(m, c) ==
    upfills' = IF c \in shut THEN upfills ELSE upfills \cup {<<m, c>>}

\* Every path of ExecuteSignal, a rejection included, ends in SendFill.
ExecuteSignal(m, c) ==
    /\ executed' = [executed EXCEPT ![m] = @ + 1]
    /\ SendFill(m, c)

\* HandleMessage: a signal that arrives before "registered" is ignored.
EAReceive(c) ==
    /\ wire[c] # <<>>
    /\ wire' = [wire EXCEPT ![c] = Tail(@)]
    /\ LET f == Head(wire[c])
       IN  \/ /\ f = Ack
              /\ registered' = registered \cup {c}
              /\ UNCHANGED <<executed, upfills>>
           \/ /\ f # Ack /\ c \notin registered
              /\ UNCHANGED <<registered, executed, upfills>>
           \/ /\ f # Ack /\ c \in registered
              /\ ExecuteSignal(f, c)
              /\ UNCHANGED registered
    /\ UNCHANGED <<dirVars, busVars, disp, session, dialled, down, reported,
                   written, budget>>

\* The EA's host or its network path dies; what was on the wire is lost.
LinkDies(c) ==
    /\ stage[c] \notin {"fresh", "left"}
    /\ c \notin down
    /\ Cardinality(down) < MaxDrops
    /\ down' = down \cup {c}
    /\ wire' = [wire EXCEPT ![c] = <<>>]
    /\ UNCHANGED <<dirVars, busVars, disp, session, dialled, registered,
                   executed, fillVars, written, budget>>

-----------------------------------------------------------------------------
(* The bridge's handlers, as ConnDirectory has them.                       *)

\* The register frame may be read after its EA has already gone.
HubJoin(c) ==
    /\ dialled[c] # NoInst
    /\ Join(c, dialled[c])
    /\ UNCHANGED <<busVars, disp, wire, eaVars, fillVars, written, budget>>

SendRegistered(c) ==
    /\ Acknowledge(c)
    /\ Send(c, Ack)
    /\ UNCHANGED <<busVars, disp, eaVars, fillVars, written, budget>>

HandlerEnds(c) ==
    /\ Refuse(c) \/ StartLeaving(c) \/ Leave(c)
    /\ UNCHANGED <<busVars, disp, wire, eaVars, fillVars, written, budget>>

\* A failed ping, the zombie check, or the runtime closes the socket.
SocketCloses(c) ==
    /\ c \notin shut
    /\ c \in down \/ stage[c] \in {"ready", "leaving", "left"}
    /\ Shut(c)
    /\ UNCHANGED <<busVars, disp, wire, eaVars, fillVars, written, budget>>

\* handleEAMessage on a fill: published, or the error is logged.
HandleFill(m, c) ==
    /\ <<m, c>> \in upfills
    /\ stage[c] = "ready"
    /\ c \notin shut
    /\ upfills' = upfills \ {<<m, c>>}
    /\ \/ reported' = reported \cup {m} /\ faults' = faults
       \/ faults < MaxFaults /\ faults' = faults + 1 /\ reported' = reported
    /\ UNCHANGED <<dirVars, busVars, disp, wire, eaVars, written, restarts>>

\* Subscribe runs before the HTTP server starts, so the new process dispatches
\* what the durable consumer holds while no EA can be connected.
Restart ==
    /\ restarts < MaxRestarts
    /\ restarts' = restarts + 1
    /\ Vanish
    /\ inbox' = [s \in Subs |-> <<>>]
    /\ disp' = [s \in Subs |-> Idle]
    /\ UNCHANGED <<js, delivered, wire, eaVars, fillVars, written, faults>>

-----------------------------------------------------------------------------
Dispatch(s) == Lookup(s) \/ Write(s) \/ AckSignal(s)

Next ==
    \/ \E m \in Signals :
        \/ SignalAccepted(m)
        \/ Deliver(m)
        \/ AckWaitExpires(m)
    \/ \E s \in Subs : Dispatch(s)
    \/ \E c \in Conns :
        \/ \E i \in Instances : EAConnect(c, i)
        \/ EAReceive(c)
        \/ LinkDies(c)
        \/ HubJoin(c)
        \/ SendRegistered(c)
        \/ HandlerEnds(c)
        \/ SocketCloses(c)
        \/ \E m \in Signals : HandleFill(m, c)
    \/ Restart

Spec == Init /\ [][Next]_vars

\* JetStream keeps delivering and expiring, and a started callback runs on: a
\* write to a dead peer ends when its buffer or the kernel's patience does.
Fairness ==
    /\ \A m \in Signals : WF_vars(Deliver(m)) /\ WF_vars(AckWaitExpires(m))
    /\ \A s \in Subs : WF_vars(Dispatch(s))

FairSpec == Spec /\ Fairness

-----------------------------------------------------------------------------
(* Properties.                                                             *)

\* dispatch acks a signal only after a successful write to a connection that
\* registered as the signal's instance: no interleaving of eviction, restart
\* and redelivery settles a signal as done that nobody was sent.
AckedWasWritten ==
    \A m \in Signals : js[m] = "acked" =>
        \E c \in Conns : <<m, c>> \in written /\ owner[c] = InstOf[m]

\* A signal is never written to a connection of another instance, although the
\* connection is looked up in one step and used in a later one.
WrittenToOwnInstance ==
    \A m \in Signals, c \in Conns : <<m, c>> \in written =>
        owner[c] = InstOf[m] /\ m \notin Garbled

\* Term is reserved for undecodable messages and for signals that have used up
\* maxDeliverBeforeTerm deliveries.
TermedIsExhausted ==
    \A m \in Signals : js[m] = "termed" =>
        m \in Garbled \/ delivered[m] > MaxDeliver

Copies(m) ==
    UNION {{<<c, k>> : k \in {j \in DOMAIN wire[c] : wire[c][j] = m}} :
           c \in Conns}

\* Redelivery may execute a signal more than once, but dispatch bounds it:
\* executions plus the copies still on a wire never exceed
\* maxDeliverBeforeTerm, because no later delivery is looked up.
ExecutionsBounded ==
    \A m \in Signals : executed[m] + Cardinality(Copies(m)) <= MaxDeliver

\* No signal circulates for ever: with or without a connected EA, through
\* reconnections, lost answers and a restart, it ends acked or terminated.
EverySignalSettles ==
    \A m \in Signals : js[m] = "waiting" ~> js[m] \in Settled

=============================================================================
