------------------------------ MODULE Sessions ------------------------------
(***************************************************************************)
(* The event log: the bridge announces the connections of an instance, and *)
(* ingress its webhook attempts, on the EVENTS stream; the persist service *)
(* (apps/persist/app.py) stores them, next to the portal, which switches   *)
(* the licence on and off.                                                 *)
(*                                                                         *)
(* persist starts a task for each event (asyncio.ensure_future). Whether   *)
(* the next event waits for it is up to the NATS client, so the statements *)
(* of several events may interleave here. A handler acknowledges its event *)
(* whatever happened; an event that was not acknowledged is delivered      *)
(* again after a restart.                                                  *)
(***************************************************************************)
EXTENDS Portal

CONSTANTS
    Conns,      \* connections the EA of one instance makes, in some order
    Attempts,   \* webhook attempts, accepted and rejected
    MaxTasks    \* how many events may be handled at the same time

VARIABLES
    socket,     \* socket[c]: "new", "open" once announced, or "closed"
    events,     \* the stream: events published, in order
    task,       \* task[k]: where the handling of the k-th event is
    rows,       \* ea_connection_sessions of the instance, in order of connected_at
    logged,     \* rows of request_log and audit_rejections for each attempt
    applied,    \* events whose statement took effect, or had nothing to do
    failed,     \* events whose statement failed
    overlapped  \* TRUE once two events were handled at the same time

stored == <<rows, logged, applied, failed>>
svars == <<socket, events, task, stored, overlapped>>

SInit ==
    /\ socket = [c \in Conns |-> "new"]
    /\ events = << >>
    /\ task = << >>
    /\ rows = << >>
    /\ logged = [a \in Attempts |-> 0]
    /\ applied = {}
    /\ failed = {}
    /\ overlapped = FALSE

-----------------------------------------------------------------------------
(* The bridge and ingress. *)

Publish(e) ==
    /\ events' = Append(events, e)
    /\ task' = Append(task, "stream")

\* A connection is registered and announced. It may replace one that has still to end
\* (the hub closes that one, module BridgeHub). A publish may be lost.
Connect(c) ==
    /\ socket[c] = "new"
    /\ socket' = [socket EXCEPT ![c] = "open"]
    /\ \/ Publish([kind |-> "connected", of |-> c]) /\ UNCHANGED faults
       \/ Fault /\ UNCHANGED <<events, task>>
    /\ UNCHANGED <<stored, overlapped>>

\* The handler of a connection that ended, or was replaced, says so on its way out.
Disconnect(c) ==
    /\ socket[c] = "open"
    /\ socket' = [socket EXCEPT ![c] = "closed"]
    /\ \/ Publish([kind |-> "disconnected", of |-> c]) /\ UNCHANGED faults
       \/ Fault /\ UNCHANGED <<events, task>>
    /\ UNCHANGED <<stored, overlapped>>

\* The bridge process dies: nobody announces the connections it had.
BridgeDies ==
    /\ \E c \in Conns : socket[c] = "open"
    /\ Fault
    /\ socket' = [c \in Conns |-> IF socket[c] = "open" THEN "closed" ELSE socket[c]]
    /\ UNCHANGED <<events, task, stored, overlapped>>

Attempted(a) ==
    /\ \A k \in DOMAIN events : events[k].of # a
    /\ Publish([kind |-> "attempt", of |-> a])
    /\ UNCHANGED <<faults, socket, stored, overlapped>>

-----------------------------------------------------------------------------
(* persist *)

Running == {k \in DOMAIN task : task[k] \in {"select", "write", "ack"}}

\* on_event, up to its first statement. Events are delivered in order.
Deliver(k) ==
    /\ task[k] = "stream"
    /\ \A l \in 1 .. k - 1 : task[l] # "stream"
    /\ Cardinality(Running) < MaxTasks
    /\ task' = [task EXCEPT ![k] = IF events[k].kind = "attempt" THEN "write" ELSE "select"]
    /\ overlapped' = (overlapped \/ Running # {})
    /\ UNCHANGED <<faults, socket, events, stored>>

\* The instance is looked up. For a new session its licence must be active.
Select(k) ==
    /\ task[k] = "select"
    /\ \/ /\ events[k].kind = "disconnected" \/ lic.active
          /\ task' = [task EXCEPT ![k] = "write"]
          /\ UNCHANGED <<applied, failed, faults>>
       \/ /\ events[k].kind = "connected" /\ ~ lic.active
          /\ task' = [task EXCEPT ![k] = "ack"]
          /\ applied' = applied \cup {events[k]}
          /\ UNCHANGED <<failed, faults>>
       \/ /\ Fault
          /\ task' = [task EXCEPT ![k] = "ack"]
          /\ failed' = failed \cup {events[k]}
          /\ UNCHANGED applied
    /\ UNCHANGED <<socket, events, rows, logged, overlapped>>

\* Mutant: every open session of the instance is closed.
CloseLatest_all(s) == [k \in DOMAIN s |-> [s[k] EXCEPT !.open = FALSE]]

\* _persist_ea_disconnected: the session opened last among those still open.
CloseLatest(s) ==
    LET open == {k \in DOMAIN s : s[k].open}
    IN IF open = {} THEN s
       ELSE [s EXCEPT ![CHOOSE k \in open : \A l \in open : l <= k].open = FALSE]

\* The row of a connection, the end of a session, or the row of an attempt.
Write(k) ==
    /\ task[k] = "write"
    /\ \/ /\ rows' = CASE events[k].kind = "connected" -> Append(rows, [of |-> events[k].of, open |-> TRUE])
                       [] events[k].kind = "disconnected" -> CloseLatest(rows)
                       [] OTHER -> rows
          /\ logged' = IF events[k].kind = "attempt" THEN [logged EXCEPT ![events[k].of] = @ + 1]
                       ELSE logged
          /\ applied' = applied \cup {events[k]}
          /\ UNCHANGED <<failed, faults>>
       \/ /\ Fault
          /\ failed' = failed \cup {events[k]}
          /\ UNCHANGED <<rows, logged, applied>>
    /\ task' = [task EXCEPT ![k] = "ack"]
    /\ UNCHANGED <<socket, events, overlapped>>

Ack(k) ==
    /\ task[k] = "ack"
    /\ task' = [task EXCEPT ![k] = "done"]
    /\ UNCHANGED <<faults, socket, events, stored, overlapped>>

\* The tasks of a process that dies are gone; what they did not acknowledge is
\* delivered again to the next one.
PersistRestarts ==
    /\ Running # {}
    /\ Fault
    /\ task' = [k \in DOMAIN task |-> IF k \in Running THEN "stream" ELSE task[k]]
    /\ UNCHANGED <<socket, events, stored, overlapped>>

-----------------------------------------------------------------------------
Events ==
    \/ \E c \in Conns : Connect(c) \/ Disconnect(c)
    \/ BridgeDies
    \/ \E a \in Attempts : Attempted(a)
    \/ \E k \in DOMAIN task : Deliver(k) \/ Select(k) \/ Write(k) \/ Ack(k)
    \/ PersistRestarts

SNext ==
    \/ Events /\ UNCHANGED <<accounts, licence, ingress, trades, req>>
    \/ Next /\ UNCHANGED svars

SSpec == Init /\ SInit /\ [][SNext]_<<vars, svars>>

-----------------------------------------------------------------------------
(* Properties. *)

OpenRows == {k \in DOMAIN rows : rows[k].open}
OpenConns == {c \in Conns : socket[c] = "open"}

\* Every connection announced so far has its row.
AllStored ==
    \A k \in DOMAIN events :
        events[k].kind = "connected" => \E l \in DOMAIN rows : rows[l].of = events[k].of

Quiet == \A k \in DOMAIN task : task[k] = "done"

\* While nothing fails and every announced connection was stored, there are at least as
\* many open session rows as connections that are up, although the end of a replaced
\* connection closes the latest open row and not its own, and although the handlers
\* may interleave (_persist_ea_connected, _persist_ea_disconnected).
LiveEAHasOpenSession ==
    faults = 0 /\ AllStored => Cardinality(OpenRows) >= Cardinality(OpenConns)

\* If in addition no two events were handled at the same time, the two numbers agree
\* once every event is handled. When they overlap, an end can be handled before its
\* beginning, and that row stays open for good.
NumbersAgree ==
    faults = 0 /\ AllStored /\ Quiet /\ ~ overlapped
    => Cardinality(OpenRows) = Cardinality(OpenConns)

\* An acknowledged event took effect, unless its statement failed: a restart in the
\* middle of a handler loses nothing, though it can store an event twice (on_event).
AckedWasApplied ==
    \A k \in DOMAIN task :
        /\ task[k] = "done" => events[k] \in applied \cup failed
        /\ events[k].kind = "attempt" /\ events[k] \in applied => logged[events[k].of] > 0

\* What persist stores follows the events, as far as the order in which they are handled
\* lets it (on_event, _persist_ea_connected, _persist_ea_disconnected).
TablesFollowEvents == AckedWasApplied /\ LiveEAHasOpenSession /\ NumbersAgree
=============================================================================
