----------------------------- MODULE MCServices -----------------------------
(***************************************************************************)
(* An instance of the services around the signal path for TLC: the gates   *)
(* of ingress, the DXTrade connector, the model's live path, the           *)
(* backtester and position sizing. They share no state: a behaviour is one *)
(* of requests, of a connector, of alerts, of candles that are loaded, of  *)
(* signals replayed over a series, or of an order that is sized.           *)
(***************************************************************************)
EXTENDS IngressGates, DXTrade, MLWebhook, Backtest, Sizing

VARIABLE panel

Price(p) == p * Unit

Candle(o, h, l, c) == [open |-> Price(o), high |-> Price(h), low |-> Price(l), close |-> Price(c)]

\* A rise, a fall, a bar without range (after a gap, or in a row) and an outside bar.
CandleSet == {Candle(1, 3, 1, 3), Candle(3, 3, 1, 1), Candle(4, 4, 4, 4), Candle(2, 4, 1, 2)}

\* Six bars, of which the first three are too early to have all features.
Series == <<Candle(2, 3, 1, 3), Candle(4, 4, 1, 1), Candle(1, 3, 1, 2),
            Candle(2, 4, 1, 4), Candle(4, 4, 2, 2), Candle(1, 2, 1, 1)>>

NoOrder == [ref |-> 0, sl |-> 0, risk |-> 0, value |-> 0, step |-> 1, min |-> 0, max |-> 1]

LagSet == {1, 2}
VolumeSet == 0 .. 3

Carried == {"open", "close"}

\* Two signals for the connector, of which at most one is not carried out. They are
\* interchangeable: one of each two orders of a pair is enough.
Pair(s, t) ==
    /\ action[s] \in Carried
    /\ action[t] = "open" => action[s] = "open"

First == CHOOSE s \in DXSignals : TRUE

\* Everything starts idle. A behaviour of another panel has no use for a choice of
\* signals, mode or switch.
MCInit ==
    /\ GatesInit /\ DXInit /\ MLInit /\ BTInit
    /\ order = NoOrder
    /\ panel \in {"requests", "connector", "alerts", "candles"}
    /\ panel # "requests" => switch = "trading"
    /\ panel # "alerts" => ~ enforce
    /\ IF panel = "connector" THEN \A t \in DXSignals \ {First} : Pair(First, t)
       ELSE \A s \in DXSignals : action[s] = "open"

\* The starting points of a replay and of a sizing are states of their own.
Prepare ==
    /\ panel = "candles" /\ candles = << >>
    /\ \/ panel' = "replay" /\ candles' = Series /\ UNCHANGED order
       \/ panel' = "sizing" /\ order' \in Orders /\ UNCHANGED candles
    /\ UNCHANGED <<gatevars, dxvars, mlvars, bar, replayed, unfiltered, filtered, gated>>

MCNext ==
    \/ Prepare
    \/ panel = "requests" /\ GatesNext /\ UNCHANGED <<dxvars, mlvars, btvars, order, panel>>
    \/ panel = "connector" /\ DXNext /\ UNCHANGED <<gatevars, mlvars, btvars, order, panel>>
    \/ panel = "alerts" /\ MLNext /\ UNCHANGED <<gatevars, dxvars, btvars, order, panel>>
    \/ panel = "candles" /\ load_candles /\ UNCHANGED <<gatevars, dxvars, mlvars, order, panel>>
    \/ panel = "replay" /\ Replay /\ UNCHANGED <<gatevars, dxvars, mlvars, order, panel>>

MCSpec == MCInit /\ [][MCNext]_<<gatevars, dxvars, mlvars, btvars, order, panel>>
=============================================================================
