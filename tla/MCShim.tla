------------------------------- MODULE MCShim -------------------------------
(* An instance of Shim for TLC: a message with a half leg and a full leg, and a *)
(* command of the same channel that walks the open positions.                   *)
EXTENDS Shim, TLC

CONSTANTS half, full, walk, rev, s1, s2

CmdOf == (half :> {"market"}) @@ (full :> {"pending"}) @@ (walk :> {"close", "amend"}) @@ (rev :> {"reverse"})
SigOfLeg == (half :> s1) @@ (full :> s1) @@ (rev :> s2)
TPofLeg == (half :> 1) @@ (full :> 2) @@ (rev :> 0)
ChannelOf == [t \in Traces |-> "room"]
=============================================================================
