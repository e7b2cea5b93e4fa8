-------------------------- MODULE MCSignalDelivery --------------------------
(* Small instances of SignalDelivery.                                      *)
EXTENDS SignalDelivery, TLC

CONSTANTS m1, m2, mt5, mt4, c1, c2, i1

OneInst == [m \in Signals |-> i1]
OneSub == [m \in Signals |-> mt5]
OwnSub == (m1 :> mt5) @@ (m2 :> mt4)

ConnSymmetry == Permutations(Conns)

=============================================================================
