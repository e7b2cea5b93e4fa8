--------------------------- MODULE ConnDirectory ---------------------------
(***************************************************************************)
(* What the bridge's hub promises to the rest of the bridge: for every     *)
(* instance at most one current EA connection, replaced by a newer one or  *)
(* removed, never brought back.  A replaced connection's socket is closed. *)
(*                                                                         *)
(* BridgeHub (hub.go and eaWS in handler.go) implements this module;       *)
(* SignalDelivery uses it as the directory the dispatcher looks up.        *)
(***************************************************************************)
EXTENDS FiniteSets

CONSTANTS Instances,  \* instance ids an EA may register under
          Conns,      \* WebSocket connections, each used once
          NoConn,     \* "no entry in the map"
          NoInst      \* a connection that has not registered

ASSUME InstancesFinite == IsFiniteSet(Instances)
ASSUME NoConnFresh == NoConn \notin Conns
ASSUME NoInstFresh == NoInst \notin Instances

VARIABLES cur,     \* the current connection of each instance
          owner,   \* the instance a connection registered as
          stage,   \* how far the connection's handler is
          shut     \* the connections the bridge has closed

dirVars == <<cur, owner, stage, shut>>

\* "joined" is in the directory but not yet acknowledged; "leaving" is still
\* there although nobody reads the socket any more.
Stages == {"fresh", "opened", "joined", "ready", "leaving", "left"}

DirTypeOK ==
    /\ cur \in [Instances -> Conns \cup {NoConn}]
    /\ owner \in [Conns -> Instances \cup {NoInst}]
    /\ stage \in [Conns -> Stages]
    /\ shut \in SUBSET Conns

DirInit ==
    /\ cur = [i \in Instances |-> NoConn]
    /\ owner = [c \in Conns |-> NoInst]
    /\ stage = [c \in Conns |-> "fresh"]
    /\ shut = {}

Open(c) ==
    /\ stage[c] = "fresh"
    /\ stage' = [stage EXCEPT ![c] = "opened"]
    /\ UNCHANGED <<cur, owner, shut>>

Refuse(c) ==
    /\ stage[c] = "opened"
    /\ stage' = [stage EXCEPT ![c] = "left"]
    /\ shut' = shut \cup {c}
    /\ UNCHANGED <<cur, owner>>

Join(c, i) ==
    /\ stage[c] = "opened"
    /\ cur' = [cur EXCEPT ![i] = c]
    /\ owner' = [owner EXCEPT ![c] = i]
    /\ stage' = [stage EXCEPT ![c] = "joined"]
    /\ shut' = shut \cup ({cur[i]} \ {NoConn})

Acknowledge(c) ==
    /\ stage[c] = "joined"
    /\ c \notin shut
    /\ stage' = [stage EXCEPT ![c] = "ready"]
    /\ UNCHANGED <<cur, owner, shut>>

StartLeaving(c) ==
    /\ stage[c] \in {"joined", "ready"}
    /\ stage' = [stage EXCEPT ![c] = "leaving"]
    /\ UNCHANGED <<cur, owner, shut>>

Leave(c) ==
    /\ stage[c] = "leaving"
    /\ stage' = [stage EXCEPT ![c] = "left"]
    /\ cur' = [i \in Instances |-> IF cur[i] = c THEN NoConn ELSE cur[i]]
    /\ UNCHANGED <<owner, shut>>

Shut(c) ==
    /\ stage[c] \notin {"fresh", "opened"}
    /\ shut' = shut \cup {c}
    /\ UNCHANGED <<cur, owner, stage>>

\* The process stops: its sockets go with it and the map starts empty again.
Vanish ==
    /\ cur' = [i \in Instances |-> NoConn]
    /\ stage' = [c \in Conns |-> IF stage[c] = "fresh" THEN "fresh" ELSE "left"]
    /\ shut' = {c \in Conns : stage[c] # "fresh"}
    /\ UNCHANGED owner

DirNext ==
    \/ \E c \in Conns :
        \/ Open(c)
        \/ Refuse(c)
        \/ \E i \in Instances : Join(c, i)
        \/ Acknowledge(c)
        \/ StartLeaving(c)
        \/ Leave(c)
        \/ Shut(c)
    \/ Vanish

DirSpec == DirInit /\ [][DirNext]_dirVars

=============================================================================
