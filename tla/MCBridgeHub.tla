---------------------------- MODULE MCBridgeHub ----------------------------
(* Model values for BridgeHub.                                             *)
EXTENDS BridgeHub, TLC

CONSTANTS c1, c2, i1, i2

\* Connections and instances are interchangeable.
Symmetry == Permutations({c1, c2}) \cup Permutations({i1, i2})

=============================================================================
