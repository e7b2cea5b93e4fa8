--------------------------- MODULE MCSignalStore ---------------------------
(* Instances of SignalStore for TLC.                                        *)
EXTENDS SignalStore

CONSTANTS t1, t2, b1, b2

\* t1 and t2 are the same alert sent twice.
TwoTraces == {t1, t2}
SameBody == [t \in TwoTraces |-> b1]
AllKnown == Kinds \X TwoTraces

\* t1 has no instance row, so its fill is not stored; the fill of t2 does not
\* parse.
SignalsKnown == {<<"signal", t1>>, <<"signal", t2>>, <<"fill", t2>>}
FillGarbled == {<<"fill", t2>>}
OwnBody == [t \in TwoTraces |-> IF t = t1 THEN b1 ELSE b2]

OneTrace == {t1}
OneBody == [t \in OneTrace |-> b1]
OneKnown == Kinds \X OneTrace

=============================================================================
