----------------------------- MODULE BridgeHub -----------------------------
(***************************************************************************)
(* The bridge's WebSocket side: the Hub (apps/bridge/internal/bridge/      *)
(* hub.go) and, for every EA connection, the eaWS handler with the ping    *)
(* and zombie goroutines it starts (handler.go).                           *)
(*                                                                         *)
(* A connection is a member of Conns and is used once.  pc[c] is the       *)
(* statement eaWS is about to execute:                                     *)
(*   idle         no socket yet                                            *)
(*   upgraded     waiting for the register frame                           *)
(*   registered   in the hub, the "registered" answer not written          *)
(*   acked        answered, events.ea.connected not published              *)
(*   reading      in the read loop, both goroutines started                *)
(*   exiting      the read failed; deferred calls about to run             *)
(*   unregistering  done closed (or never made), still in the hub          *)
(*   finished     eaWS has returned                                        *)
(*                                                                         *)
(* Time is abstracted: a deadline or a tick is an action that may happen   *)
(* whenever the code's timer could fire.                                   *)
(***************************************************************************)
EXTENDS Integers, Sequences, FiniteSets

CONSTANTS Instances, Conns, NoConn, NoInst,
          LossyPublish,  \* whether a NATS publish may fail
          MaxRestarts    \* bound on the bridge restarts a run explores

ASSUME InstancesFinite == IsFiniteSet(Instances)
ASSUME NoConnFresh == NoConn \notin Conns
ASSUME NoInstFresh == NoInst \notin Instances
ASSUME LossyPublishBool == LossyPublish \in BOOLEAN
ASSUME MaxRestartsNat == MaxRestarts \in Nat

VARIABLES
    pc,         \* where each connection's eaWS is
    instanceID, \* Conn.instanceID, NoInst before registration
    conns,      \* Hub.conns: instance -> current connection or NoConn
    gauge,      \* eaConnectionsActive
    closed,     \* connections the bridge has called ws.Close() on
    gone,       \* connections whose EA or network path has died
    heartbeat,  \* Conn.lastHeartbeat: none, fresh, or over the threshold
    pingers,    \* connections whose ping goroutine is running
    reapers,    \* connections whose zombie goroutine is running
    events,     \* the EVENTS stream, oldest first
    restarts    \* bridge restarts so far

connVars == <<pc, instanceID, closed, gone>>
hubVars  == <<conns, gauge>>
goVars   == <<heartbeat, pingers, reapers>>
vars == <<pc, instanceID, conns, gauge, closed, gone, heartbeat, pingers,
          reapers, events, restarts>>

PCs == {"idle", "upgraded", "registered", "acked", "reading", "exiting",
        "unregistering", "finished"}

\* Between hub.Register and hub.Unregister.
InHub == {"registered", "acked", "reading", "exiting", "unregistering"}

Event == [kind : {"connected", "disconnected"}, conn : Conns]

TypeOK ==
    /\ pc \in [Conns -> PCs]
    /\ instanceID \in [Conns -> Instances \cup {NoInst}]
    /\ conns \in [Instances -> Conns \cup {NoConn}]
    /\ gauge \in Nat
    /\ closed \in SUBSET Conns
    /\ gone \in SUBSET Conns
    /\ heartbeat \in [Conns -> {"none", "fresh", "stale"}]
    /\ pingers \in SUBSET Conns
    /\ reapers \in SUBSET Conns
    /\ events \in Seq(Event)
    /\ restarts \in Nat

Init ==
    /\ pc = [c \in Conns |-> "idle"]
    /\ instanceID = [c \in Conns |-> NoInst]
    /\ conns = [i \in Instances |-> NoConn]
    /\ gauge = 0
    /\ closed = {}
    /\ gone = {}
    /\ heartbeat = [c \in Conns |-> "none"]
    /\ pingers = {}
    /\ reapers = {}
    /\ events = <<>>
    /\ restarts = 0

-----------------------------------------------------------------------------
(* Writes and publishes.                                                   *)

\* WriteJSON on a socket the bridge closed fails; on one whose peer died it
\* may still succeed into the kernel's buffer.
CanWrite(c) == c \notin closed
WriteMayFail(c) == c \in closed \cup gone

\* publishEvent: a failed Publish is logged and the event is lost.
Publish(kind, c) ==
    \/ events' = Append(events, [kind |-> kind, conn |-> c])
    \/ LossyPublish /\ events' = events

Goto(c, l) == pc' = [pc EXCEPT ![c] = l]

-----------------------------------------------------------------------------
(* Hub.                                                                    *)

\* Mutant: the connection that is replaced is left open.
HubRegisterKeepsOld(c, i) ==
    /\ conns' = [conns EXCEPT ![i] = c]
    /\ gauge' = IF conns[i] = NoConn THEN gauge + 1 ELSE gauge
    /\ closed' = closed

HubRegister(c, i) ==
    /\ conns' = [conns EXCEPT ![i] = c]
    /\ IF conns[i] = NoConn
         THEN gauge' = gauge + 1 /\ closed' = closed
         ELSE gauge' = gauge /\ closed' = closed \cup {conns[i]}

\* Mutant: removes the instance's entry without comparing connections.
HubUnregisterByInstance(c) ==
    /\ conns' = [conns EXCEPT ![instanceID[c]] = NoConn]
    /\ gauge' = gauge - 1

HubUnregister(c) ==
    LET i == instanceID[c]
    IN IF conns[i] = c
         THEN /\ conns' = [conns EXCEPT ![i] = NoConn]
              /\ gauge' = gauge - 1
         ELSE UNCHANGED hubVars

-----------------------------------------------------------------------------
(* eaWS.                                                                   *)

Upgrade(c) ==
    /\ pc[c] = "idle"
    /\ Goto(c, "upgraded")
    /\ UNCHANGED <<instanceID, closed, gone, hubVars, goVars, events, restarts>>

\* No register frame before the deadline, a malformed one, or a wrong token.
RejectRegister(c) ==
    /\ pc[c] = "upgraded"
    /\ Goto(c, "finished")
    /\ closed' = closed \cup {c}
    /\ UNCHANGED <<instanceID, gone, hubVars, goVars, events, restarts>>

\* Mutant: the connected event is published here as well as after the answer.
RegisterAnnounces(c, i) ==
    /\ pc[c] = "upgraded"
    /\ Goto(c, "registered")
    /\ instanceID' = [instanceID EXCEPT ![c] = i]
    /\ HubRegister(c, i)
    /\ Publish("connected", c)
    /\ UNCHANGED <<gone, goVars, restarts>>

Register(c, i) ==
    /\ pc[c] = "upgraded"
    /\ Goto(c, "registered")
    /\ instanceID' = [instanceID EXCEPT ![c] = i]
    /\ HubRegister(c, i)
    /\ UNCHANGED <<gone, goVars, events, restarts>>

\* Mutant: Unregister is deferred only after the answer was written.
AckRegisterDefersLate(c) ==
    /\ pc[c] = "registered"
    /\ \/ CanWrite(c) /\ Goto(c, "acked")
       \/ WriteMayFail(c) /\ Goto(c, "finished")
    /\ UNCHANGED <<instanceID, closed, gone, hubVars, goVars, events, restarts>>

AckRegister(c) ==
    /\ pc[c] = "registered"
    /\ \/ CanWrite(c) /\ Goto(c, "acked")
       \/ WriteMayFail(c) /\ Goto(c, "unregistering")
    /\ UNCHANGED <<instanceID, closed, gone, hubVars, goVars, events, restarts>>

\* Publishes the connected event, then starts the two goroutines.
AnnounceConnected(c) ==
    /\ pc[c] = "acked"
    /\ Publish("connected", c)
    /\ pingers' = pingers \cup {c}
    /\ reapers' = reapers \cup {c}
    /\ Goto(c, "reading")
    /\ UNCHANGED <<instanceID, closed, gone, hubVars, heartbeat, restarts>>

\* handleEAMessage on a heartbeat.  A fill is published to NATS (see
\* SignalDelivery); pong and unknown types change nothing.
HandleHeartbeat(c) ==
    /\ pc[c] = "reading"
    /\ c \notin closed \cup gone
    /\ heartbeat' = [heartbeat EXCEPT ![c] = "fresh"]
    /\ UNCHANGED <<connVars, hubVars, pingers, reapers, events, restarts>>

\* The read fails because the socket was closed or its peer is gone.
ReadError(c) ==
    /\ pc[c] = "reading"
    /\ c \in closed \cup gone
    /\ Goto(c, "exiting")
    /\ UNCHANGED <<instanceID, closed, gone, hubVars, goVars, events, restarts>>

\* A live EA that sends nothing for pongDeadline fails the read as well, and
\* eaWS returns without closing the socket.
ReadDeadline(c) ==
    /\ pc[c] = "reading"
    /\ c \notin closed \cup gone
    /\ Goto(c, "exiting")
    /\ UNCHANGED <<instanceID, closed, gone, hubVars, goVars, events, restarts>>

\* The deferred publish, then close(done).
AnnounceDisconnected(c) ==
    /\ pc[c] = "exiting"
    /\ Publish("disconnected", c)
    /\ Goto(c, "unregistering")
    /\ UNCHANGED <<instanceID, closed, gone, hubVars, goVars, restarts>>

Unregister(c) ==
    /\ pc[c] = "unregistering"
    /\ HubUnregister(c)
    /\ Goto(c, "finished")
    /\ UNCHANGED <<instanceID, closed, gone, goVars, events, restarts>>

-----------------------------------------------------------------------------
(* The goroutines.  A ping that is written leaves no trace here.           *)

DoneClosed(c) == pc[c] \in {"unregistering", "finished"}

PingFails(c) ==
    /\ c \in pingers
    /\ WriteMayFail(c)
    /\ closed' = closed \cup {c}
    /\ pingers' = pingers \ {c}
    /\ UNCHANGED <<pc, instanceID, gone, hubVars, heartbeat, reapers, events,
                   restarts>>

PingStops(c) ==
    /\ c \in pingers
    /\ DoneClosed(c)
    /\ pingers' = pingers \ {c}
    /\ UNCHANGED <<connVars, hubVars, heartbeat, reapers, events, restarts>>

\* A connection that never sent a heartbeat is not a zombie.
IsZombie(c) == heartbeat[c] = "stale"

ReapZombie(c) ==
    /\ c \in reapers
    /\ IsZombie(c)
    /\ closed' = closed \cup {c}
    /\ reapers' = reapers \ {c}
    /\ UNCHANGED <<pc, instanceID, gone, hubVars, heartbeat, pingers, events,
                   restarts>>

ReaperStops(c) ==
    /\ c \in reapers
    /\ DoneClosed(c)
    /\ reapers' = reapers \ {c}
    /\ UNCHANGED <<connVars, hubVars, heartbeat, pingers, events, restarts>>

-----------------------------------------------------------------------------
(* The environment.                                                        *)

\* The EA process, its host or the network path dies.
PeerGone(c) ==
    /\ pc[c] \notin {"idle", "finished"}
    /\ c \notin gone
    /\ gone' = gone \cup {c}
    /\ UNCHANGED <<pc, instanceID, closed, hubVars, goVars, events, restarts>>

\* The zombie threshold passes with no heartbeat.
HeartbeatExpires(c) ==
    /\ c \in reapers
    /\ heartbeat[c] = "fresh"
    /\ heartbeat' = [heartbeat EXCEPT ![c] = "stale"]
    /\ UNCHANGED <<connVars, hubVars, pingers, reapers, events, restarts>>

\* eaWS never closes the socket of a read deadline; the Go runtime does, once
\* nothing refers to it.
Finalize(c) ==
    /\ pc[c] = "finished"
    /\ c \notin pingers \cup reapers \cup closed
    /\ closed' = closed \cup {c}
    /\ UNCHANGED <<pc, instanceID, gone, hubVars, goVars, events, restarts>>

\* The bridge process stops, by a crash or by a shutdown, which waits for no
\* hijacked connection: no deferred call runs, and the new process starts
\* with an empty hub and a zero gauge.
Restart ==
    /\ restarts < MaxRestarts
    /\ \E c \in Conns : pc[c] \notin {"idle", "finished"}
    /\ restarts' = restarts + 1
    /\ pc' = [c \in Conns |-> IF pc[c] = "idle" THEN "idle" ELSE "finished"]
    /\ closed' = {c \in Conns : pc[c] # "idle"}
    /\ conns' = [i \in Instances |-> NoConn]
    /\ gauge' = 0
    /\ pingers' = {}
    /\ reapers' = {}
    /\ UNCHANGED <<instanceID, gone, heartbeat, events>>

-----------------------------------------------------------------------------
HandlerStep(c) ==
    \/ AckRegister(c)
    \/ AnnounceConnected(c)
    \/ ReadError(c)
    \/ AnnounceDisconnected(c)
    \/ Unregister(c)

ConnNext(c) ==
    \/ Upgrade(c)
    \/ RejectRegister(c)
    \/ \E i \in Instances : Register(c, i)
    \/ HandlerStep(c)
    \/ HandleHeartbeat(c)
    \/ ReadDeadline(c)
    \/ PingFails(c)
    \/ PingStops(c)
    \/ ReapZombie(c)
    \/ ReaperStops(c)
    \/ PeerGone(c)
    \/ HeartbeatExpires(c)
    \/ Finalize(c)

Next == (\E c \in Conns : ConnNext(c)) \/ Restart

Spec == Init /\ [][Next]_vars

\* A handler's next statement is eventually executed, a failed or overdue read
\* returns (pongDeadline, registerReadDeadline), and each goroutine's select
\* eventually takes a case that stays ready.
Fairness ==
    \A c \in Conns :
        /\ WF_vars(HandlerStep(c))
        /\ WF_vars(RejectRegister(c))
        /\ WF_vars(PingFails(c) \/ PingStops(c))
        /\ WF_vars(ReapZombie(c) \/ ReaperStops(c))
        /\ WF_vars(Finalize(c))

FairSpec == Spec /\ Fairness

-----------------------------------------------------------------------------
(* Properties.                                                             *)

Registered == {i \in Instances : conns[i] # NoConn}

\* eaConnectionsActive, which Register increments and Unregister decrements
\* on only some of their paths, always equals the number of hub entries.
GaugeMatchesHub == gauge = Cardinality(Registered)

\* Whatever Hub.Get returns for an instance is a connection that registered as
\* that instance and whose eaWS has not returned: a late Unregister of an
\* evicted handler never leaves a finished connection behind.
HubEntryIsServed ==
    \A i \in Instances : conns[i] # NoConn =>
        /\ instanceID[conns[i]] = i
        /\ pc[conns[i]] \in InHub

\* A handler that is still running after another connection took its instance
\* (or after its own entry was removed) has had its socket closed, so that the
\* dispatcher cannot hand it a signal for which nobody answers.
SupersededIsClosed ==
    \A c \in Conns :
        pc[c] \in InHub /\ conns[instanceID[c]] # c => c \in closed

\* In the EVENTS stream a connection's disconnected event never precedes its
\* connected event, and neither is published twice, however eviction, restart
\* and lost publishes interleave.
EventsPaired ==
    \A m, n \in 1..Len(events) :
        m < n /\ events[m].conn = events[n].conn =>
            events[m].kind = "connected" /\ events[n].kind = "disconnected"

\* The pinging and reaping goroutines run only for a handler that reached its
\* read loop, and no handler is without them in the loop unless its socket was
\* closed: an unwatched connection would never be detected as dead.
ReadLoopIsWatched ==
    \A c \in Conns :
        /\ c \in pingers \cup reapers =>
               pc[c] \in {"reading", "exiting", "unregistering", "finished"}
        /\ pc[c] = "reading" /\ c \notin closed => c \in pingers \cap reapers

\* Hub.Unregister takes out only the caller's own entry: an entry disappears
\* (rather than being replaced) only in the step in which its own connection's
\* eaWS returns, or with the process.
OnlyOwnerRemovesEntry ==
    [][\A i \in Instances :
         conns[i] # NoConn /\ conns'[i] = NoConn =>
            \/ pc[conns[i]] = "unregistering" /\ pc'[conns[i]] = "finished"
            \/ restarts' = restarts + 1]_vars

\* A connection whose EA died is eventually no hub entry, whatever stage its
\* registration had reached.
DeadPeerLeavesHub ==
    \A c \in Conns :
        c \in gone ~> \A i \in Instances : conns[i] # c

-----------------------------------------------------------------------------
(* The hub implements the directory the dispatcher relies on.              *)

Stage(l) ==
    CASE l = "idle" -> "fresh"
      [] l = "upgraded" -> "opened"
      [] l = "registered" -> "joined"
      [] l \in {"acked", "reading"} -> "ready"
      [] l \in {"exiting", "unregistering"} -> "leaving"
      [] l = "finished" -> "left"

Dir == INSTANCE ConnDirectory WITH
    cur   <- conns,
    owner <- instanceID,
    stage <- [c \in Conns |-> Stage(pc[c])],
    shut  <- closed

\* Seen from outside, the hub with all its handlers and goroutines is the
\* directory of ConnDirectory: entries are only added, replaced with the old
\* socket closed, or removed by their own connection.
ImplementsDirectory == Dir!DirSpec

=============================================================================
