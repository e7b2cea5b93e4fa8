-------------------------- MODULE BridgeHubProofs --------------------------
(***************************************************************************)
(* Proofs about BridgeHub, for any finite set of instances and any set of  *)
(* connections: the hub's entries are live connections of the right        *)
(* instance, replaced connections are closed, the gauge counts the         *)
(* entries, and the hub implements ConnDirectory.                          *)
(***************************************************************************)
EXTENDS BridgeHub, FiniteSetTheorems, TLAPS

\* A handler between Register and Unregister has an instance, so that
\* Unregister always looks up a key that Register wrote.
InHubHasInstance ==
    \A c \in Conns : pc[c] \in InHub => instanceID[c] \in Instances

\* The inductive invariant.
HubInv ==
    /\ TypeOK
    /\ InHubHasInstance
    /\ HubEntryIsServed
    /\ SupersededIsClosed
    /\ GaugeMatchesHub

-----------------------------------------------------------------------------
(* The gauge.                                                              *)

\* Register adds one instance to the registered ones exactly when the map had
\* no entry for it.
LEMMA RegisterGauge ==
    ASSUME TypeOK, GaugeMatchesHub,
           NEW c \in Conns, NEW i \in Instances, HubRegister(c, i)
    PROVE  GaugeMatchesHub' /\ gauge' \in Nat
<1>1. Registered' = Registered \cup {i}
    BY NoConnFresh, ZenonT(40) DEF Registered, HubRegister, TypeOK
<1>2. IsFiniteSet(Registered)
    BY InstancesFinite, FS_Subset, Zenon DEF Registered
<1>3. Cardinality(Registered') =
        IF i \in Registered THEN Cardinality(Registered)
                            ELSE Cardinality(Registered) + 1
    BY <1>1, <1>2, FS_AddElement, Zenon
<1>4. i \in Registered <=> conns[i] # NoConn
    BY Zenon DEF Registered
<1> QED
    BY <1>3, <1>4 DEF HubRegister, GaugeMatchesHub, TypeOK

\* Unregister removes one exactly when the entry is the caller's own.
LEMMA UnregisterGauge ==
    ASSUME TypeOK, GaugeMatchesHub,
           NEW c \in Conns, instanceID[c] \in Instances, HubUnregister(c)
    PROVE  GaugeMatchesHub' /\ gauge' \in Nat
<1> DEFINE i == instanceID[c]
<1>1. CASE conns[i] = c
    <2>1. conns' = [conns EXCEPT ![i] = NoConn] /\ gauge' = gauge - 1
        BY <1>1, Zenon DEF HubUnregister
    <2>2. Registered' = Registered \ {i}
        BY <2>1, Zenon DEF Registered, TypeOK
    <2>3. i \in Registered
        BY <1>1, NoConnFresh, Zenon DEF Registered
    <2>4. IsFiniteSet(Registered)
        BY InstancesFinite, FS_Subset, Zenon DEF Registered
    <2>5. Cardinality(Registered') = Cardinality(Registered) - 1
        BY <2>2, <2>3, <2>4, FS_RemoveElement, Zenon
    <2>6. IsFiniteSet(Registered')
        BY <2>2, <2>4, FS_RemoveElement, Zenon
    <2>7. Cardinality(Registered') \in Nat
        BY <2>6, FS_CardinalityType, Zenon
    <2> QED
        BY <2>1, <2>5, <2>7, Zenon DEF GaugeMatchesHub
<1>2. CASE conns[i] # c
    <2>1. conns' = conns /\ gauge' = gauge
        BY <1>2, Zenon DEF HubUnregister, hubVars
    <2>2. Registered' = Registered
        BY <2>1, Zenon DEF Registered
    <2> QED
        BY <2>1, <2>2, Zenon DEF GaugeMatchesHub, TypeOK
<1> QED
    BY <1>1, <1>2, Zenon

\* An action that leaves the map and the gauge alone keeps them in step.
LEMMA SameHubGauge ==
    ASSUME GaugeMatchesHub, UNCHANGED hubVars
    PROVE  GaugeMatchesHub'
BY DEF GaugeMatchesHub, Registered, hubVars

-----------------------------------------------------------------------------
(* Induction.                                                              *)

\* An empty hub with no handler satisfies the inductive invariant.
LEMMA InitHubInv == Init => HubInv
<1> SUFFICES ASSUME Init PROVE HubInv
    BY Zenon
<1>1. TypeOK
    BY DEF Init, TypeOK, PCs
<1>2. InHubHasInstance /\ HubEntryIsServed /\ SupersededIsClosed
    BY Zenon DEF Init, InHubHasInstance, HubEntryIsServed, SupersededIsClosed, InHub
<1>3. Registered = {}
    BY Zenon DEF Init, Registered
<1>4. GaugeMatchesHub
    BY <1>3, FS_EmptySet, Zenon DEF Init, GaugeMatchesHub
<1> QED
    BY <1>1, <1>2, <1>4, Zenon DEF HubInv

\* The part of the invariant about single entries and handlers.
EntryInv == InHubHasInstance /\ HubEntryIsServed /\ SupersededIsClosed

\* A handler that moves on between Register and Unregister disturbs no entry.
LEMMA HandlerAdvances ==
    ASSUME TypeOK, EntryInv, NEW c \in Conns, NEW l \in InHub, pc[c] \in InHub,
           Goto(c, l), UNCHANGED <<instanceID, conns, closed>>
    PROVE  EntryInv'
<1>1. \A d \in Conns : pc'[d] \in InHub <=> pc[d] \in InHub
    BY Zenon DEF Goto, TypeOK
<1>2. InHubHasInstance'
    BY <1>1, Zenon DEF EntryInv, InHubHasInstance
<1>3. HubEntryIsServed'
    <2> SUFFICES ASSUME NEW i \in Instances, conns[i] # NoConn
                 PROVE  instanceID[conns[i]] = i /\ pc'[conns[i]] \in InHub
        BY Zenon DEF HubEntryIsServed
    <2>1. conns[i] \in Conns
        BY Zenon DEF TypeOK
    <2> QED
        BY <1>1, <2>1, Zenon DEF EntryInv, HubEntryIsServed
<1>4. SupersededIsClosed'
    BY <1>1, Zenon DEF EntryInv, SupersededIsClosed
<1> QED
    BY <1>2, <1>3, <1>4, Zenon DEF EntryInv

\* Publishing keeps the stream a sequence of events.
LEMMA PublishType ==
    ASSUME events \in Seq(Event), NEW c \in Conns,
           NEW k \in {"connected", "disconnected"}, Publish(k, c)
    PROVE  events' \in Seq(Event)
<1>1. [kind |-> k, conn |-> c] \in Event
    BY Zenon DEF Event
<1> QED
    BY <1>1 DEF Publish

\* The steps of one connection.
LEMMA ConnNextHubInv ==
    ASSUME HubInv, NEW c \in Conns, ConnNext(c)
    PROVE  HubInv'
<1> USE NoConnFresh, NoInstFresh
<1> USE DEF HubInv, EntryInv
<1>1. CASE Upgrade(c)
    <2>1. TypeOK'
        BY <1>1, Zenon DEF Upgrade, TypeOK, Goto, PCs, hubVars, goVars
    <2>2. EntryInv'
        BY <1>1 DEF Upgrade, TypeOK, Goto, PCs, hubVars, InHubHasInstance,
                    HubEntryIsServed, SupersededIsClosed, InHub
    <2> QED
        BY <1>1, <2>1, <2>2, SameHubGauge, Zenon DEF Upgrade
<1>2. CASE RejectRegister(c)
    <2>1. TypeOK'
        BY <1>2, Zenon DEF RejectRegister, TypeOK, Goto, PCs, hubVars, goVars
    <2>2. EntryInv'
        BY <1>2 DEF RejectRegister, TypeOK, Goto, PCs, hubVars, InHubHasInstance,
                    HubEntryIsServed, SupersededIsClosed, InHub
    <2> QED
        BY <1>2, <2>1, <2>2, SameHubGauge, Zenon DEF RejectRegister
<1>3. ASSUME NEW i \in Instances, Register(c, i) PROVE HubInv'
    <2>1. HubRegister(c, i)
        BY <1>3, Zenon DEF Register
    <2>2. GaugeMatchesHub' /\ gauge' \in Nat
        BY <2>1, RegisterGauge, Zenon
    <2>3. TypeOK'
        BY <1>3, <2>2, ZenonT(40) DEF Register, HubRegister, TypeOK, Goto, PCs, goVars
    <2>4. InHubHasInstance'
        BY <1>3, Zenon DEF Register, TypeOK, Goto, InHubHasInstance
    <2>5. HubEntryIsServed'
        BY <1>3 DEF Register, HubRegister, TypeOK, Goto, HubEntryIsServed, InHub
    <2>6. SupersededIsClosed'
        BY <1>3, Zenon DEF Register, HubRegister, TypeOK, Goto, InHubHasInstance,
                    SupersededIsClosed, InHub
    <2> QED
        BY <2>2, <2>3, <2>4, <2>5, <2>6, Zenon
<1>4. CASE AckRegister(c)
    <2>1. TypeOK'
        BY <1>4, Zenon DEF AckRegister, TypeOK, Goto, PCs, hubVars, goVars
    <2>2. EntryInv'
        BY <1>4, HandlerAdvances, Zenon DEF AckRegister, InHub, hubVars
    <2> QED
        BY <1>4, <2>1, <2>2, SameHubGauge, Zenon DEF AckRegister
<1>5. CASE AnnounceConnected(c)
    <2>1. TypeOK'
        <3>1. events' \in Seq(Event)
            BY <1>5, PublishType, Zenon DEF AnnounceConnected, TypeOK
        <3> QED
            BY <1>5, <3>1, Zenon DEF AnnounceConnected, TypeOK, Goto, PCs, hubVars
    <2>2. EntryInv'
        BY <1>5, HandlerAdvances, Zenon DEF AnnounceConnected, InHub, hubVars
    <2> QED
        BY <1>5, <2>1, <2>2, SameHubGauge, Zenon DEF AnnounceConnected
<1>6. CASE ReadError(c) \/ ReadDeadline(c)
    <2>1. TypeOK'
        BY <1>6, Zenon DEF ReadError, ReadDeadline, TypeOK, Goto, PCs, hubVars, goVars
    <2>2. EntryInv'
        BY <1>6, HandlerAdvances, Zenon DEF ReadError, ReadDeadline, InHub, hubVars
    <2> QED
        BY <1>6, <2>1, <2>2, SameHubGauge, Zenon DEF ReadError, ReadDeadline
<1>7. CASE AnnounceDisconnected(c)
    <2>1. TypeOK'
        <3>1. events' \in Seq(Event)
            BY <1>7, PublishType, Zenon DEF AnnounceDisconnected, TypeOK
        <3> QED
            BY <1>7, <3>1, Zenon DEF AnnounceDisconnected, TypeOK, Goto, PCs, hubVars,
                              goVars
    <2>2. EntryInv'
        BY <1>7, HandlerAdvances, Zenon DEF AnnounceDisconnected, InHub, hubVars
    <2> QED
        BY <1>7, <2>1, <2>2, SameHubGauge, Zenon DEF AnnounceDisconnected
<1>8. CASE Unregister(c)
    <2>1. HubUnregister(c) /\ pc[c] = "unregistering"
        BY <1>8, Zenon DEF Unregister
    <2>2. instanceID[c] \in Instances
        BY <2>1, Zenon DEF InHubHasInstance, InHub
    <2>3. GaugeMatchesHub' /\ gauge' \in Nat
        BY <2>1, <2>2, UnregisterGauge, Zenon
    <2>4. TypeOK'
        BY <1>8, <2>2, <2>3, Zenon DEF Unregister, HubUnregister, TypeOK, Goto, PCs,
                                hubVars, goVars
    <2>5. EntryInv'
        BY <1>8, <2>2 DEF Unregister, HubUnregister, TypeOK, Goto, hubVars,
                          InHubHasInstance, HubEntryIsServed,
                          SupersededIsClosed, InHub
    <2> QED
        BY <2>3, <2>4, <2>5, Zenon
<1>9. CASE HandleHeartbeat(c) \/ HeartbeatExpires(c)
    <2>1. TypeOK'
        BY <1>9, Zenon DEF HandleHeartbeat, HeartbeatExpires, TypeOK, connVars, hubVars
    <2>2. EntryInv'
        BY <1>9, Zenon DEF HandleHeartbeat, HeartbeatExpires, connVars, hubVars,
                    InHubHasInstance, HubEntryIsServed, SupersededIsClosed
    <2> QED
        BY <1>9, <2>1, <2>2, SameHubGauge, Zenon DEF HandleHeartbeat, HeartbeatExpires
<1>10. CASE PingFails(c) \/ ReapZombie(c)
    <2>1. TypeOK'
        BY <1>10, Zenon DEF PingFails, ReapZombie, TypeOK, hubVars
    <2>2. EntryInv'
        BY <1>10, Zenon DEF PingFails, ReapZombie, hubVars, InHubHasInstance,
                     HubEntryIsServed, SupersededIsClosed
    <2> QED
        BY <1>10, <2>1, <2>2, SameHubGauge, Zenon DEF PingFails, ReapZombie
<1>11. CASE PingStops(c) \/ ReaperStops(c)
    <2>1. TypeOK'
        BY <1>11, Zenon DEF PingStops, ReaperStops, TypeOK, connVars, hubVars
    <2>2. EntryInv'
        BY <1>11, Zenon DEF PingStops, ReaperStops, connVars, hubVars,
                     InHubHasInstance, HubEntryIsServed, SupersededIsClosed
    <2> QED
        BY <1>11, <2>1, <2>2, SameHubGauge, Zenon DEF PingStops, ReaperStops
<1>12. CASE PeerGone(c) \/ Finalize(c)
    <2>1. TypeOK'
        BY <1>12, Zenon DEF PeerGone, Finalize, TypeOK, hubVars, goVars
    <2>2. EntryInv'
        BY <1>12, Zenon DEF PeerGone, Finalize, hubVars, InHubHasInstance,
                     HubEntryIsServed, SupersededIsClosed
    <2> QED
        BY <1>12, <2>1, <2>2, SameHubGauge, Zenon DEF PeerGone, Finalize
<1> QED
    BY <1>1, <1>2, <1>3, <1>4, <1>5, <1>6, <1>7, <1>8, <1>9, <1>10, <1>11,
       <1>12, Zenon DEF ConnNext, HandlerStep

\* A restart empties the hub, the gauge and every handler at once.
LEMMA RestartHubInv == ASSUME HubInv, Restart PROVE HubInv'
<1> USE DEF HubInv
<1>1. Registered' = {}
    BY Zenon DEF Restart, Registered
<1>2. GaugeMatchesHub'
    BY <1>1, FS_EmptySet, Zenon DEF Restart, GaugeMatchesHub
<1>3. TypeOK'
    BY DEF Restart, TypeOK, PCs
<1>4. InHubHasInstance' /\ HubEntryIsServed' /\ SupersededIsClosed'
    BY Zenon DEF Restart, TypeOK, InHubHasInstance, HubEntryIsServed,
           SupersededIsClosed, InHub
<1> QED
    BY <1>2, <1>3, <1>4, Zenon

\* Every step of the bridge preserves the inductive invariant.
LEMMA NextHubInv == HubInv /\ [Next]_vars => HubInv'
<1> SUFFICES ASSUME HubInv, [Next]_vars PROVE HubInv'
    BY Zenon
<1>1. ASSUME NEW c \in Conns, ConnNext(c) PROVE HubInv'
    BY <1>1, ConnNextHubInv, Zenon
<1>2. CASE Restart
    BY <1>2, RestartHubInv, Zenon
<1>3. CASE UNCHANGED vars
    BY <1>3, Zenon DEF vars, HubInv, TypeOK, InHubHasInstance, HubEntryIsServed,
                SupersededIsClosed, GaugeMatchesHub, Registered
<1> QED
    BY <1>1, <1>2, <1>3, Zenon DEF Next

\* The inductive invariant holds throughout.
THEOREM HubInvariant == Spec => []HubInv
BY InitHubInv, NextHubInv, PTL DEF Spec

-----------------------------------------------------------------------------
(* What it gives.                                                          *)

\* The state of the hub, its handlers and goroutines is always well formed;
\* in particular the gauge is never negative.
THEOREM TypeCorrect == Spec => []TypeOK
BY HubInvariant, PTL DEF HubInv

\* Hub.Get only ever returns a connection of the instance asked for whose
\* handler has not returned.
THEOREM HubEntriesServed == Spec => []HubEntryIsServed
BY HubInvariant, PTL DEF HubInv

\* A running handler that is not its instance's entry has a closed socket.
THEOREM SupersededClosed == Spec => []SupersededIsClosed
BY HubInvariant, PTL DEF HubInv

\* eaConnectionsActive is the number of hub entries.
THEOREM GaugeCorrect == Spec => []GaugeMatchesHub
BY HubInvariant, PTL DEF HubInv

\* No step takes an entry out of the map except the return of that entry's
\* own handler, or the end of the process.
THEOREM OwnerRemovesEntry == Spec => OnlyOwnerRemovesEntry
<1> DEFINE Removal(i) ==
        conns[i] # NoConn /\ conns'[i] = NoConn =>
            \/ pc[conns[i]] = "unregistering" /\ pc'[conns[i]] = "finished"
            \/ restarts' = restarts + 1
<1>1. HubInv /\ [Next]_vars => [\A i \in Instances : Removal(i)]_vars
    <2> SUFFICES ASSUME HubInv, Next, NEW i \in Instances PROVE Removal(i)
        BY Zenon
    <2>1. ASSUME NEW c \in Conns, Unregister(c) PROVE Removal(i)
        BY <2>1, Zenon DEF Unregister, HubUnregister, Goto, HubInv, TypeOK,
                    InHubHasInstance, InHub, hubVars
    <2>2. ASSUME NEW c \in Conns, NEW j \in Instances, Register(c, j)
          PROVE  Removal(i)
        BY <2>2, NoConnFresh, Zenon DEF Register, HubRegister, HubInv, TypeOK
    <2>3. ASSUME conns' = conns PROVE Removal(i)
        BY <2>3, Zenon
    <2>4. CASE Restart
        BY <2>4, Zenon DEF Restart
    <2>5. ASSUME NEW c \in Conns, ConnNext(c) PROVE Removal(i)
        BY <2>5, <2>1, <2>2, <2>3, Zenon
        DEF ConnNext, HandlerStep, Upgrade, RejectRegister, AckRegister,
            AnnounceConnected, ReadError, AnnounceDisconnected,
            HandleHeartbeat, ReadDeadline, PingFails, PingStops, ReapZombie,
            ReaperStops, PeerGone, HeartbeatExpires, Finalize, hubVars
    <2> QED
        BY <2>4, <2>5, Zenon DEF Next
<1> QED
    BY <1>1, HubInvariant, PTL DEF Spec, OnlyOwnerRemovesEntry

-----------------------------------------------------------------------------
(* The goroutines.                                                         *)

\* Pingers and reapers exist only for handlers that reached the read loop,
\* and watch every open connection in it.
LEMMA WatchStep ==
    ASSUME TypeOK, ReadLoopIsWatched, [Next]_vars
    PROVE  ReadLoopIsWatched'
<1> USE DEF TypeOK, ReadLoopIsWatched, Goto
<1>1. ASSUME NEW c \in Conns, ConnNext(c) PROVE ReadLoopIsWatched'
    <2>1. CASE \/ Upgrade(c)
               \/ RejectRegister(c)
               \/ \E i \in Instances : Register(c, i)
        BY <2>1, ZenonT(40) DEF Upgrade, RejectRegister, Register, HubRegister, goVars
    <2>2. CASE AckRegister(c)
        BY <2>2, Zenon DEF AckRegister, goVars
    <2>3. CASE AnnounceConnected(c)
        BY <2>3, Zenon DEF AnnounceConnected
    <2>4. CASE ReadError(c) \/ ReadDeadline(c)
        BY <2>4, Zenon DEF ReadError, ReadDeadline, goVars
    <2>5. CASE AnnounceDisconnected(c) \/ Unregister(c)
        BY <2>5, Zenon DEF AnnounceDisconnected, Unregister, goVars
    <2>6. CASE HandleHeartbeat(c) \/ HeartbeatExpires(c) \/ PeerGone(c)
        BY <2>6, Zenon DEF HandleHeartbeat, HeartbeatExpires, PeerGone, goVars,
                    connVars
    <2>7. CASE PingFails(c) \/ ReapZombie(c) \/ Finalize(c)
        BY <2>7, Zenon DEF PingFails, ReapZombie, Finalize, goVars
    <2>8. CASE PingStops(c) \/ ReaperStops(c)
        BY <2>8, Zenon DEF PingStops, ReaperStops, DoneClosed, connVars
    <2> QED
        BY <1>1, <2>1, <2>2, <2>3, <2>4, <2>5, <2>6, <2>7, <2>8, Zenon
        DEF ConnNext, HandlerStep
<1>2. CASE Restart
    BY <1>2, Zenon DEF Restart
<1>3. CASE UNCHANGED vars
    BY <1>3, Zenon DEF vars
<1> QED
    BY <1>1, <1>2, <1>3, Zenon DEF Next

\* Every connection in the read loop that is still open has both its ping and
\* its zombie goroutine, so a dead EA is noticed.
THEOREM ReadLoopWatched == Spec => []ReadLoopIsWatched
<1>1. Init => ReadLoopIsWatched
    BY Zenon DEF Init, ReadLoopIsWatched
<1>2. TypeOK /\ ReadLoopIsWatched /\ [Next]_vars => ReadLoopIsWatched'
    BY WatchStep, Zenon
<1> QED
    BY <1>1, <1>2, TypeCorrect, PTL DEF Spec

-----------------------------------------------------------------------------
(* The event stream.                                                       *)

\* What a connection has published tells how far its handler is.
EventsFollowHandler ==
    \A m \in 1..Len(events) :
        /\ pc[events[m].conn] \in {"reading", "exiting", "unregistering",
                                   "finished"}
        /\ events[m].kind = "disconnected" =>
               pc[events[m].conn] \in {"unregistering", "finished"}

EventInv == EventsFollowHandler /\ EventsPaired

\* What is appended to the stream is an event with the given fields.
LEMMA EventFields ==
    ASSUME events \in Seq(Event), NEW m \in 1..Len(events)
    PROVE  /\ events[m].conn \in Conns
           /\ events[m].kind \in {"connected", "disconnected"}
<1>1. events[m] \in Event
    OBVIOUS
<1> QED
    BY <1>1, Zenon DEF Event

\* A step that publishes nothing and moves handlers only forwards.
LEMMA QuietStep ==
    ASSUME TypeOK, EventInv, events' = events,
           \A d \in Conns :
               /\ pc[d] \in {"reading", "exiting", "unregistering", "finished"}
                    => pc'[d] \in {"reading", "exiting", "unregistering",
                                   "finished"}
               /\ pc[d] \in {"unregistering", "finished"}
                    => pc'[d] \in {"unregistering", "finished"}
    PROVE  EventInv'
<1>1. \A m \in 1..Len(events) : events[m].conn \in Conns
    BY EventFields, Zenon DEF TypeOK
<1>2. EventsFollowHandler'
    BY <1>1, Zenon DEF EventInv, EventsFollowHandler
<1>3. EventsPaired'
    BY Zenon DEF EventInv, EventsPaired
<1> QED
    BY <1>2, <1>3, Zenon DEF EventInv

\* A published event comes after the handler's earlier ones, which the
\* handler's place determines.
LEMMA PublishStep ==
    ASSUME TypeOK, EventInv, NEW c \in Conns,
           NEW k \in {"connected", "disconnected"}, NEW l \in PCs,
           Publish(k, c), Goto(c, l),
           \/ pc[c] = "acked" /\ k = "connected" /\ l = "reading"
           \/ pc[c] = "exiting" /\ k = "disconnected" /\ l = "unregistering"
    PROVE  EventInv'
<1>0. \A d \in Conns : pc'[d] = IF d = c THEN l ELSE pc[d]
    BY Zenon DEF Goto, TypeOK
<1>1. CASE events' = events
    BY <1>0, <1>1, QuietStep, Zenon
<1>2. CASE events' = Append(events, [kind |-> k, conn |-> c])
    <2> DEFINE e == [kind |-> k, conn |-> c]
    <2>1. /\ Len(events') = Len(events) + 1
          /\ Len(events) \in Nat
          /\ events'[Len(events) + 1] = e
          /\ \A m \in 1..Len(events) : events'[m] = events[m]
        BY <1>2 DEF TypeOK
    <2>2. \A m \in 1..Len(events) : events[m].conn \in Conns
        BY EventFields, Zenon DEF TypeOK
    <2>3. e.conn = c /\ e.kind = k
        BY Zenon
    <2>4. \A m \in 1..Len(events) :
             events[m].conn = c => k = "disconnected" /\ events[m].kind # "disconnected"
        BY Zenon DEF EventInv, EventsFollowHandler
    <2>5. \A m \in 1..Len(events) : events[m].kind \in {"connected", "disconnected"}
        BY EventFields, Zenon DEF TypeOK
    <2>6. \A m \in 1..Len(events') : m \in 1..Len(events) \/ m = Len(events) + 1
        BY <2>1
    <2>7. EventsFollowHandler'
        <3> SUFFICES ASSUME NEW m \in 1..Len(events')
                     PROVE  /\ pc'[events'[m].conn] \in
                                  {"reading", "exiting", "unregistering", "finished"}
                            /\ events'[m].kind = "disconnected" =>
                                  pc'[events'[m].conn] \in {"unregistering", "finished"}
            BY Zenon DEF EventsFollowHandler
        <3>1. CASE m \in 1..Len(events)
            BY <3>1, <1>0, <2>1, <2>2, <2>4, ZenonT(40) DEF EventInv, EventsFollowHandler
        <3>2. CASE m = Len(events) + 1
            BY <3>2, <1>0, <2>1, <2>3, Zenon
        <3> QED
            BY <3>1, <3>2, <2>6, Zenon
    <2>8. EventsPaired'
        <3> SUFFICES ASSUME NEW m \in 1..Len(events'), NEW n \in 1..Len(events'),
                            m < n, events'[m].conn = events'[n].conn
                     PROVE  events'[m].kind = "connected" /\
                            events'[n].kind = "disconnected"
            BY Zenon DEF EventsPaired
        <3>1. m \in 1..Len(events)
            BY <2>1, <2>6
        <3>2. CASE n \in 1..Len(events)
            BY <3>1, <3>2, <2>1, Zenon DEF EventInv, EventsPaired
        <3>3. CASE n = Len(events) + 1
            BY <3>1, <3>3, <2>1, <2>3, <2>4, <2>5, Zenon
        <3> QED
            BY <3>2, <3>3, <2>6, Zenon
    <2> QED
        BY <2>7, <2>8, Zenon DEF EventInv
<1> QED
    BY <1>1, <1>2, Zenon DEF Publish

\* Every step keeps the stream in step with the handlers.
LEMMA EventStep ==
    ASSUME TypeOK, EventInv, [Next]_vars
    PROVE  EventInv'
<1>1. ASSUME NEW c \in Conns, ConnNext(c) PROVE EventInv'
    <2>1. CASE AnnounceConnected(c)
        BY <2>1, PublishStep, Zenon DEF AnnounceConnected, PCs
    <2>2. CASE AnnounceDisconnected(c)
        BY <2>2, PublishStep, Zenon DEF AnnounceDisconnected, PCs
    <2>3. CASE \/ Upgrade(c) \/ RejectRegister(c) \/ AckRegister(c)
               \/ \E i \in Instances : Register(c, i)
        BY <2>3, QuietStep, Zenon DEF Upgrade, RejectRegister, AckRegister, Register,
                               Goto, TypeOK
    <2>4. CASE ReadError(c) \/ ReadDeadline(c) \/ Unregister(c)
        BY <2>4, QuietStep, Zenon DEF ReadError, ReadDeadline, Unregister, Goto, TypeOK
    <2>5. CASE \/ HandleHeartbeat(c) \/ HeartbeatExpires(c) \/ PeerGone(c)
               \/ PingStops(c) \/ ReaperStops(c) \/ PingFails(c)
               \/ ReapZombie(c) \/ Finalize(c)
        BY <2>5, QuietStep, Zenon DEF HandleHeartbeat, HeartbeatExpires, PeerGone,
               PingStops, ReaperStops, PingFails, ReapZombie, Finalize, connVars
    <2> QED
        BY <1>1, <2>1, <2>2, <2>3, <2>4, <2>5, Zenon DEF ConnNext, HandlerStep
<1>2. CASE Restart
    BY <1>2, QuietStep, Zenon DEF Restart, TypeOK
<1>3. CASE UNCHANGED vars
    BY <1>3, QuietStep, Zenon DEF vars
<1> QED
    BY <1>1, <1>2, <1>3, Zenon DEF Next

\* However handlers interleave, the stream never holds a connection's
\* disconnected event before its connected one, nor either of them twice.
THEOREM EventsArePaired == Spec => []EventsPaired
<1>1. Init => EventInv
    BY DEF Init, EventInv, EventsFollowHandler, EventsPaired
<1>2. TypeOK /\ EventInv /\ [Next]_vars => EventInv'
    BY EventStep, Zenon
<1>3. EventInv => EventsPaired
    BY Zenon DEF EventInv
<1> QED
    BY <1>1, <1>2, <1>3, TypeCorrect, PTL DEF Spec

-----------------------------------------------------------------------------
(* The hub implements ConnDirectory.                                       *)

\* The initial hub is the empty directory.
LEMMA InitImplements == Init => Dir!DirInit
BY DEF Init, Dir!DirInit, Stage

\* A step of one connection is a directory step or leaves it alone.
LEMMA ConnNextImplements ==
    ASSUME HubInv, ReadLoopIsWatched, NEW c \in Conns, ConnNext(c)
    PROVE  Dir!DirNext \/ UNCHANGED Dir!dirVars
<1> DEFINE st == [d \in Conns |-> Stage(pc[d])]
<1> USE NoConnFresh DEF HubInv, TypeOK
<1>a. ASSUME NEW l \in PCs, Goto(c, l)
      PROVE  st' = [st EXCEPT ![c] = Stage(l)]
    BY <1>a, Zenon DEF Goto
<1>b. ASSUME pc' = pc PROVE st' = st
    BY <1>b, Zenon
<1>c. /\ Stage("idle") = "fresh" /\ Stage("upgraded") = "opened"
      /\ Stage("registered") = "joined" /\ Stage("acked") = "ready"
      /\ Stage("reading") = "ready" /\ Stage("exiting") = "leaving"
      /\ Stage("unregistering") = "leaving" /\ Stage("finished") = "left"
    BY Zenon DEF Stage
<1>d. st[c] = Stage(pc[c])
    BY Zenon
<1>1. CASE Upgrade(c)
    BY <1>1, <1>a, <1>c, Zenon DEF Upgrade, Dir!DirNext, Dir!Open, PCs, hubVars
<1>2. CASE RejectRegister(c)
    BY <1>2, <1>a, <1>c, Zenon DEF RejectRegister, Dir!DirNext, Dir!Refuse, PCs,
                            hubVars
<1>3. ASSUME NEW i \in Instances, Register(c, i)
      PROVE  Dir!DirNext
    <2>1. Dir!Join(c, i)
        BY <1>3, <1>a, <1>c, Zenon DEF Register, HubRegister, Dir!Join, PCs
    <2> QED
        BY <2>1, Zenon DEF Dir!DirNext
<1>4. CASE AckRegister(c)
    <2>1. CASE Goto(c, "acked") /\ CanWrite(c)
        BY <1>4, <2>1, <1>a, <1>c, Zenon DEF AckRegister, CanWrite, Dir!DirNext,
                                      Dir!Acknowledge, PCs, hubVars
    <2>2. CASE Goto(c, "unregistering")
        BY <1>4, <2>2, <1>a, <1>c, Zenon DEF AckRegister, Dir!DirNext,
                                      Dir!StartLeaving, PCs, hubVars
    <2> QED
        BY <1>4, <2>1, <2>2, Zenon DEF AckRegister
<1>5. CASE AnnounceConnected(c)
    <2>1. \A d \in Conns : Stage(pc'[d]) = Stage(pc[d])
        BY <1>5, <1>c, Zenon DEF AnnounceConnected, Goto
    <2>2. st' = st
        BY <2>1, Zenon
    <2> QED
        BY <1>5, <2>2, Zenon DEF AnnounceConnected, Dir!dirVars, hubVars
<1>6. CASE AnnounceDisconnected(c)
    <2>1. \A d \in Conns : Stage(pc'[d]) = Stage(pc[d])
        BY <1>6, <1>c, Zenon DEF AnnounceDisconnected, Goto
    <2>2. st' = st
        BY <2>1, Zenon
    <2> QED
        BY <1>6, <2>2, Zenon DEF AnnounceDisconnected, Dir!dirVars, hubVars
<1>7. CASE ReadError(c) \/ ReadDeadline(c)
    BY <1>7, <1>a, <1>c, Zenon DEF ReadError, ReadDeadline, Dir!DirNext,
                            Dir!StartLeaving, PCs, hubVars
<1>8. CASE Unregister(c)
    <2>1. conns' = [i \in Instances |-> IF conns[i] = c THEN NoConn ELSE conns[i]]
        <3>1. instanceID[c] \in Instances
            BY <1>8, Zenon DEF Unregister, InHubHasInstance, InHub
        <3>2. \A i \in Instances : conns[i] = c => i = instanceID[c]
            BY Zenon DEF HubEntryIsServed
        <3> QED
            BY <1>8, <3>1, <3>2, Zenon DEF Unregister, HubUnregister, hubVars
    <2> QED
        BY <1>8, <2>1, <1>a, <1>c, Zenon DEF Unregister, Dir!DirNext, Dir!Leave, PCs
<1>9. CASE \/ HandleHeartbeat(c) \/ HeartbeatExpires(c) \/ PeerGone(c)
           \/ PingStops(c) \/ ReaperStops(c)
    BY <1>9, <1>b, Zenon DEF HandleHeartbeat, HeartbeatExpires, PeerGone, PingStops,
                      ReaperStops, connVars, hubVars, Dir!dirVars
<1>10. CASE PingFails(c) \/ ReapZombie(c) \/ Finalize(c)
    <2>1. st' = st
        BY <1>10, <1>b, Zenon DEF PingFails, ReapZombie, Finalize
    <2>2. pc[c] \in {"reading", "exiting", "unregistering", "finished"}
        BY <1>10, Zenon DEF PingFails, ReapZombie, Finalize, ReadLoopIsWatched
    <2>3. Dir!Shut(c)
        BY <1>10, <2>1, <2>2, <1>c, Zenon DEF PingFails, ReapZombie, Finalize,
                                       Dir!Shut, hubVars
    <2> QED
        BY <2>3, Zenon DEF Dir!DirNext
<1> QED
    BY <1>1, <1>2, <1>3, <1>4, <1>5, <1>6, <1>7, <1>8, <1>9, <1>10, Zenon
    DEF ConnNext, HandlerStep

\* A restart of the bridge is the directory's Vanish.
LEMMA RestartImplements ==
    ASSUME TypeOK, Restart
    PROVE  Dir!Vanish
BY DEF TypeOK, PCs, Restart, Dir!Vanish, Stage

\* Every behaviour of the hub, its handlers and its goroutines is a behaviour
\* of the directory that SignalDelivery composes with the dispatcher.
THEOREM HubImplementsDirectory == Spec => ImplementsDirectory
<1>1. HubInv /\ ReadLoopIsWatched /\ [Next]_vars => [Dir!DirNext]_(Dir!dirVars)
    <2> SUFFICES ASSUME HubInv, ReadLoopIsWatched, [Next]_vars
                 PROVE  Dir!DirNext \/ UNCHANGED Dir!dirVars
        BY Zenon
    <2>1. ASSUME NEW c \in Conns, ConnNext(c)
          PROVE  Dir!DirNext \/ UNCHANGED Dir!dirVars
        BY <2>1, ConnNextImplements, Zenon
    <2>2. CASE Restart
        BY <2>2, RestartImplements, Zenon DEF HubInv, Dir!DirNext
    <2>3. CASE UNCHANGED vars
        BY <2>3 DEF vars, Dir!dirVars, Stage
    <2> QED
        BY <2>1, <2>2, <2>3, Zenon DEF Next
<1> QED
    BY <1>1, InitImplements, HubInvariant, ReadLoopWatched, PTL
    DEF Spec, ImplementsDirectory, Dir!DirSpec

=============================================================================
